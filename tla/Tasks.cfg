CONSTANTS
    account = account
    Accounts <- MCAccounts
    HoursPerDay = 5
    checkinHours = {1, 3}
    keepaliveHours = {4}
    activityHours = {2}
    travelHours = {1, 3}
    activityReportCount = 2
    Tiers = {2, 3}
    Starts <- MCStarts
    Off = {}
    Nobody = Nobody
    NoTier = NoTier
    Unmarked = Unmarked
    LastHour = 7
    MaxTroubles = 2
    j1 = j1
    j2 = j2
    j3 = j3
    Jobs = {j1, j2, j3}
    Teams <- MCTeams
    Known <- MCKnown
    NoEntry = NoEntry
    Unknown = Unknown
    NoJob = NoJob
    MaxTrouble = 1
    Streams = {"requests", "tasks"}
    panelStoreMaxRows = 2
    FilesAtStart <- MCFiles
    NoFile = NoFile
    Corrupt = Corrupt
    NoRows = NoRows
    MaxAppends = 3
    MaxFaults = 2
SPECIFICATION TasksSpec
INVARIANTS
    RedeemOncePerLife
    AdoptedByEvening
    SpentCreditsGone
    CheckinsSerial
    SettledRowsOnDisk
