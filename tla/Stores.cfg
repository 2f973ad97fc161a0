CONSTANTS
    c1 = c1
    c2 = c2
    Catalogs <- MCCatalogs
    Unsound = Unsound
    Torn = Torn
    Absent = Absent
    Found <- MCFound
    Future = Future
    Nothing = Nothing
    Broken = Broken
    NoSave = NoSave
    MaxOverlap = 3
    u1 = u1
    u2 = u2
    Payers = {u1, u2}
    Bills <- MCBills
    NoRequestID = {13}
    usagePageSize = 2
    usageMaxPages = 3
    candidates = 2
    Queries = {"first", "second"}
    Refreshing = {"second"}
    NoAnswer = NoAnswer
    BadGateway = BadGateway
    Failed = Failed
    Unread = Unread
    NoOwner = NoOwner
    MaxBilled = 2
    MaxFailures = 2
    States = {"s1", "s2"}
    Polls = {"p1", "p2", "p3"}
    NoState = NoState
    MaxUpsets = 2
    Accounts <- MCHolders
    Granted <- Gift
    pageSize = 2
    billingRetries = 1
    MaxGrants = 1
SPECIFICATION StoresSpec
INVARIANTS
    LoadLinearizes
    CountedOnce
    VerdictFinal
    BalanceIsWhole
PROPERTIES
    ImplementsRegister
    FutureKept
