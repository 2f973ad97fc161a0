------------------------------ MODULE Account ------------------------------
(***************************************************************************)
(* One account of the pool (internal/pool): the health state machine of   *)
(* `entry`, fed by the outcomes of requests, by check-ins and by the       *)
(* operator, together with the way it is saved to state.json and read back *)
(* after a restart.                                                        *)
(*                                                                         *)
(* Every operation of the pool holds p.mu and touches the entry of one     *)
(* uid, so one entry is enough, and an operation is one action.  Requests  *)
(* of several callers are in flight on an account at the same time, so     *)
(* outcomes arrive in any order: no operation below waits for another.     *)
(* The balance and the cost ledger of an entry, and what only selection    *)
(* reads of it (lastUsed, usedSeq, inFlight), are modelled elsewhere.      *)
(*                                                                         *)
(* Time.  A deadline (until, breakerUntil, degradeUntil, the Until of a    *)
(* model) is kept as the time left until it: n > 0 means that it lies n    *)
(* ticks ahead, 0 that it has passed.  Go's zero time is 0 as well where   *)
(* the code cannot tell the two apart; breakerUntil, whose IsZero() the     *)
(* code asks, has Never for it.  Tick moves every deadline one closer. *)
(***************************************************************************)
EXTENDS Integers, FiniteSets

CONSTANTS
    Models,               \* upstream model ids
    Events,               \* the kinds of event this instance delivers
    SessionDeadThreshold, \* sessionDeadThreshold
    BreakerThreshold, BreakerCooldown, BreakerCooldownMax,
    DegradeThreshold, DegradeCooldown, DegradeCooldownMax,
    SoftBase, SoftRateMax, SoftShiftMax,
    BlockBaseTTL, BlockMaxTTL, BlockShift,
    Day, Four,            \* ticks of a day, and of its first four hours
    ResetOffsets,         \* "will reset at" clocks, as offsets from now
    FixedCooldowns,       \* durations callers pass to Cooldown(CoolSoft, d)
    HasStateFile,         \* stateFp /= "": the pool is saved and loaded
    SaveMayFail,          \* writing state.json may fail (disk full, rights)
    MaxStreak, MaxRetry, MaxHits   \* bounds on the unbounded counters

EventKinds == {"soft", "fixed", "hard", "model", "server", "session",
               "client", "ban", "operator", "credit", "crash"}

ASSUME EventsAssumption == Events \subseteq EventKinds

ASSUME ThresholdAssumption ==
    /\ SessionDeadThreshold \in Nat \ {0}
    /\ BreakerThreshold \in Nat \ {0}
    /\ DegradeThreshold \in Nat \ {0}

ASSUME DurationAssumption ==
    /\ BreakerCooldown \in Nat \ {0} /\ BreakerCooldownMax \in Nat \ {0}
    /\ BreakerCooldown <= BreakerCooldownMax
    /\ DegradeCooldown \in Nat \ {0} /\ DegradeCooldownMax \in Nat \ {0}
    /\ SoftBase \in Nat \ {0} /\ SoftRateMax \in Nat \ {0}
    /\ SoftBase <= SoftRateMax
    /\ BlockBaseTTL \in Nat \ {0} /\ BlockMaxTTL \in Nat \ {0}
    /\ SoftShiftMax \in Nat /\ BlockShift \in Nat
    /\ Day \in Nat \ {0} /\ Four \in 1..Day
    /\ ResetOffsets \subseteq Int /\ FixedCooldowns \subseteq Nat \ {0}

ASSUME BoundAssumption ==
    /\ MaxStreak \in Nat /\ MaxRetry \in Nat /\ MaxHits \in Nat
    /\ HasStateFile \in BOOLEAN /\ SaveMayFail \in BOOLEAN

(* The powers of two that the backoffs multiply by. *)
ASSUME ShiftAssumption ==
    \A k \in 0..(SoftShiftMax + BlockShift + MaxRetry) :
        2^k \in Nat \ {0} /\ 2^(k + 1) = 2 * 2^k

VARIABLES
    until, coolKind, reason, softStreak, modelCooldowns,   \* cooling domain
    breakerUntil, fails, retryCount,                       \* circuit breaker
    consecutiveFails, degradeUntil,                        \* degradation
    disabled, sessionDeadFails,                            \* system verdict
    manualDisabled,                                        \* operator's intent
    timeOfDay,
    disk,                 \* the account's record in state.json
    dirty                 \* Pool.dirty

coolVars    == <<until, coolKind, reason, softStreak, modelCooldowns>>
breakerVars == <<breakerUntil, fails, retryCount>>
degradeVars == <<consecutiveFails, degradeUntil>>
systemVars  == <<disabled, sessionDeadFails>>
memoryVars  == <<coolVars, breakerVars, degradeVars, systemVars,
                 manualDisabled>>
vars        == <<memoryVars, timeOfDay, disk, dirty>>

Never == -1

CoolKinds == {"hard", "soft"}
Reasons   == {"none", "rate_limited", "credits_exhausted", "session_dead",
              "banned"}
BlockReasons == {"none", "6004", "11102"}

(* An absent key of the map modelCooldowns. *)
NoCooldown == [until |-> 0, reason |-> "none", hits |-> 0]
NoModelCooldowns == [m \in Models |-> NoCooldown]

Present(mcs, m) == mcs[m].reason /= "none"

SmallerOf(a, b) == IF a <= b THEN a ELSE b

-----------------------------------------------------------------------------
(* The backoffs, and the health predicates that selection reads.           *)

cappedSoftUntil(r) ==
    IF r > SoftRateMax THEN SoftRateMax ELSE IF r > 0 THEN r ELSE 1

(* Mutant: the cap on the doubled base is forgotten. *)
softDurationUncapped(streak) ==
    IF streak <= 1 THEN SoftBase
    ELSE SoftBase * 2^SmallerOf(streak - 1, SoftShiftMax)

softDuration(streak) ==
    IF streak <= 1 THEN SoftBase
    ELSE LET d == SoftBase * 2^SmallerOf(streak - 1, SoftShiftMax)
         IN  IF d > SoftRateMax \/ d <= 0 THEN SoftRateMax ELSE d

breakerDuration(retries) ==
    LET d == BreakerCooldown * 2^retries
    IN  IF retries > 0 /\ d >= BreakerCooldownMax THEN BreakerCooldownMax
        ELSE d

degradeDuration == SmallerOf(DegradeCooldown, DegradeCooldownMax)

blockTTL(hits) ==
    LET d == BlockBaseTTL * 2^SmallerOf(hits - 1, BlockShift)
    IN  IF d < BlockMaxTTL THEN d ELSE BlockMaxTTL

(* Mutant: always the 04:00 of the following day, also in the small hours. *)
nextDay4AMTomorrow == Day + Four - timeOfDay

nextDay4AM ==
    IF timeOfDay < Four THEN Four - timeOfDay ELSE Day + Four - timeOfDay

healthyIn(dis, man, u, b, d) == ~dis /\ ~man /\ u <= 0 /\ b <= 0 /\ d <= 0

healthy == healthyIn(disabled, manualDisabled, until, breakerUntil,
                     degradeUntil)

modelCooled(m) == Present(modelCooldowns, m) /\ modelCooldowns[m].until > 0

healthyForModel(m) == healthy /\ ~modelCooled(m)

-----------------------------------------------------------------------------
(* state.json: what is written of an entry, and what is read back.          *)

(* Mutant: the degradation is not written. *)
stateOverviewNoDegrade ==
    LET named == disabled \/ until > 0
    IN  [until |-> until,
         coolKind |-> IF named THEN coolKind ELSE "hard",
         reason |-> IF named THEN reason ELSE "none",
         softStreak |-> softStreak,
         modelCooldowns |-> [m \in Models |->
             IF modelCooled(m) THEN modelCooldowns[m] ELSE NoCooldown],
         breakerUntil |-> IF breakerUntil > 0 THEN breakerUntil ELSE Never,
         retryCount |-> IF breakerUntil > 0 THEN retryCount ELSE 0,
         consecutiveFails |-> consecutiveFails, degradeUntil |-> 0,
         disabled |-> disabled, sessionDeadFails |-> sessionDeadFails,
         manualDisabled |-> manualDisabled]

(* stateOverviewLocked and cooledReasonLocked: elapsed deadlines are not    *)
(* written, cool_kind and reason only while they mean something, fails and  *)
(* Hits never.                                                              *)
stateOverview ==
    LET named == disabled \/ until > 0
    IN  [until            |-> until,
         coolKind         |-> IF named THEN coolKind ELSE "hard",
         reason           |-> IF named THEN reason ELSE "none",
         softStreak       |-> softStreak,
         modelCooldowns   |-> [m \in Models |->
             IF modelCooled(m)
             THEN [until  |-> modelCooldowns[m].until,
                   reason |-> modelCooldowns[m].reason, hits |-> 0]
             ELSE NoCooldown],
         breakerUntil     |-> IF breakerUntil > 0 THEN breakerUntil ELSE Never,
         retryCount       |-> IF breakerUntil > 0 THEN retryCount ELSE 0,
         consecutiveFails |-> consecutiveFails,
         degradeUntil     |-> degradeUntil,
         disabled         |-> disabled,
         sessionDeadFails |-> sessionDeadFails,
         manualDisabled   |-> manualDisabled]

(* A missing file, or an account that is not in it, loads as a new entry.   *)
ZeroState ==
    [until |-> 0, coolKind |-> "hard", reason |-> "none", softStreak |-> 0,
     modelCooldowns |-> NoModelCooldowns, breakerUntil |-> Never,
     retryCount |-> 0, consecutiveFails |-> 0, degradeUntil |-> 0,
     disabled |-> FALSE, sessionDeadFails |-> 0, manualDisabled |-> FALSE]

(* The model cooldowns of applyAccountsLocked: elapsed ones are dropped.    *)
loadedCooldowns ==
    [m \in Models |-> IF disk.modelCooldowns[m].until > 0
                      THEN disk.modelCooldowns[m] ELSE NoCooldown]

(* Mutant: the exponent is restored although the breaker has run out. *)
loadedRetryCountAlways == disk.retryCount

loadedRetryCount == IF disk.breakerUntil > 0 THEN disk.retryCount ELSE 0

-----------------------------------------------------------------------------
Init ==
    /\ until = 0 /\ coolKind = "hard" /\ reason = "none" /\ softStreak = 0
    /\ modelCooldowns = NoModelCooldowns
    /\ breakerUntil = Never /\ fails = 0 /\ retryCount = 0
    /\ consecutiveFails = 0 /\ degradeUntil = 0
    /\ disabled = FALSE /\ sessionDeadFails = 0 /\ manualDisabled = FALSE
    /\ timeOfDay = 0
    /\ disk = ZeroState /\ dirty = FALSE

(* What every mutating operation of the pool does besides its own work.     *)
Touch == dirty' = TRUE /\ UNCHANGED <<timeOfDay, disk>>

clearCooling(newReason) ==
    /\ until' = 0 /\ coolKind' = "hard" /\ reason' = newReason
    /\ softStreak' = 0 /\ modelCooldowns' = NoModelCooldowns

disable(newReason) == clearCooling(newReason) /\ disabled' = TRUE

Cooldown(kind, d, newReason) ==
    /\ until' = d /\ coolKind' = kind /\ reason' = newReason
    /\ modelCooldowns' = NoModelCooldowns
    /\ Touch
    /\ UNCHANGED <<softStreak, breakerVars, degradeVars, systemVars,
                   manualDisabled>>

CooldownFixed ==
    /\ "fixed" \in Events
    /\ \E d \in FixedCooldowns : Cooldown("soft", d, "rate_limited")

CooldownUntilTomorrow4AM ==
    /\ "hard" \in Events
    /\ Cooldown("hard", nextDay4AM, "credits_exhausted")

(* Mutant: a retry that fails while the account cools starts over. *)
softBackoffEveryTime ==
    IF softStreak < MaxStreak
    THEN /\ softStreak' = softStreak + 1
         /\ until' = softDuration(softStreak + 1)
    ELSE UNCHANGED softStreak /\ until' = softDuration(softStreak)

(* A rate limit without a reset time backs off once per cooling period: an  *)
(* answer that arrives while the account is already softly cooled neither   *)
(* counts nor extends.                                                      *)
softBackoff ==
    \/ /\ coolKind /= "soft" \/ until = 0
       /\ softStreak < MaxStreak
       /\ softStreak' = softStreak + 1
       /\ until' = softDuration(softStreak + 1)
    \/ /\ coolKind = "soft" /\ until > 0
       /\ UNCHANGED <<softStreak, until>>

coolSoftly ==
    /\ coolKind' = "soft" /\ reason' = "rate_limited"
    /\ modelCooldowns' = NoModelCooldowns
    /\ Touch
    /\ UNCHANGED <<breakerVars, degradeVars, systemVars, manualDisabled>>

(* CooldownSoftRate without a reset time, and CooldownSoftForModel without  *)
(* one, are the same transition.                                            *)
CooldownSoftRate == "soft" \in Events /\ softBackoff /\ coolSoftly

CooldownSoftRateUntil(r) ==
    /\ "soft" \in Events
    /\ until' = cappedSoftUntil(r) /\ UNCHANGED softStreak
    /\ coolSoftly

setModelCooldown(m, t, why, hits) ==
    /\ modelCooldowns' = [modelCooldowns EXCEPT
                            ![m] = [until |-> t, reason |-> why, hits |-> hits]]
    /\ Touch
    /\ UNCHANGED <<until, coolKind, reason, softStreak, breakerVars,
                   degradeVars, systemVars, manualDisabled>>

CooldownSoftForModel(m, r) ==
    "model" \in Events /\ setModelCooldown(m, cappedSoftUntil(r), "6004", 0)

BlockModelBackoff(m) ==
    /\ "model" \in Events
    /\ modelCooldowns[m].hits < MaxHits
    /\ LET hits == modelCooldowns[m].hits + 1
       IN  setModelCooldown(m, blockTTL(hits), "11102", hits)

BlockModelClear(m) ==
    /\ modelCooldowns[m].reason = "11102"
    /\ modelCooldowns' = [modelCooldowns EXCEPT ![m] = NoCooldown]
    /\ Touch
    /\ UNCHANGED <<until, coolKind, reason, softStreak, breakerVars,
                   degradeVars, systemVars, manualDisabled>>

(* NoteError with recordBreakerFailureLocked.                               *)
NoteError ==
    /\ "server" \in Events
    /\ \/ /\ fails + 1 < BreakerThreshold
          /\ fails' = fails + 1
          /\ UNCHANGED <<breakerUntil, retryCount>>
       \/ /\ fails + 1 >= BreakerThreshold
          /\ retryCount < MaxRetry
          /\ fails' = 0
          /\ retryCount' = retryCount + 1
          /\ breakerUntil' = breakerDuration(retryCount)
    /\ Touch
    /\ UNCHANGED <<coolVars, degradeVars, systemVars, manualDisabled>>

NoteFailures ==
    /\ "client" \in Events
    /\ \/ /\ consecutiveFails + 1 < DegradeThreshold
          /\ consecutiveFails' = consecutiveFails + 1
          /\ UNCHANGED degradeUntil
       \/ /\ consecutiveFails + 1 >= DegradeThreshold
          /\ consecutiveFails' = 0
          /\ degradeUntil' = IF degradeUntil > 0 THEN degradeUntil
                             ELSE degradeDuration
    /\ Touch
    /\ UNCHANGED <<coolVars, breakerVars, systemVars, manualDisabled>>

NoteSuccess ==
    /\ fails' = 0 /\ retryCount' = 0 /\ breakerUntil' = Never
    /\ softStreak' = 0
    /\ sessionDeadFails' = 0
    /\ consecutiveFails' = 0 /\ degradeUntil' = 0
    /\ Touch
    /\ UNCHANGED <<until, coolKind, reason, modelCooldowns, disabled,
                   manualDisabled>>

(* Mutant: the strike that reaches the threshold is counted, not acted on. *)
NoteSessionDeadLate ==
    /\ "session" \in Events
    /\ \/ /\ sessionDeadFails + 1 <= SessionDeadThreshold
          /\ sessionDeadFails' = sessionDeadFails + 1
          /\ UNCHANGED <<coolVars, disabled>>
       \/ /\ sessionDeadFails + 1 > SessionDeadThreshold
          /\ sessionDeadFails' = 0
          /\ disable("session_dead")
    /\ Touch
    /\ UNCHANGED <<breakerVars, degradeVars, manualDisabled>>

NoteSessionDead ==
    /\ "session" \in Events
    /\ \/ /\ sessionDeadFails + 1 < SessionDeadThreshold
          /\ sessionDeadFails' = sessionDeadFails + 1
          /\ UNCHANGED <<coolVars, disabled>>
       \/ /\ sessionDeadFails + 1 >= SessionDeadThreshold
          /\ sessionDeadFails' = 0
          /\ disable("session_dead")
    /\ Touch
    /\ UNCHANGED <<breakerVars, degradeVars, manualDisabled>>

ClearSessionDead ==
    /\ sessionDeadFails /= 0
    /\ sessionDeadFails' = 0
    /\ Touch
    /\ UNCHANGED <<coolVars, breakerVars, degradeVars, disabled,
                   manualDisabled>>

Disable ==
    /\ "ban" \in Events
    /\ disable("banned")
    /\ Touch
    /\ UNCHANGED <<sessionDeadFails, breakerVars, degradeVars, manualDisabled>>

ReviveDisabled ==
    /\ "operator" \in Events
    /\ disabled
    /\ disabled' = FALSE /\ reason' = "none" /\ sessionDeadFails' = 0
    /\ Touch
    /\ UNCHANGED <<until, coolKind, softStreak, modelCooldowns, breakerVars,
                   degradeVars, manualDisabled>>

(* Mutant: the change is not marked for the flusher. *)
SetManualDisabledUnmarked(b) ==
    /\ "operator" \in Events
    /\ manualDisabled /= b
    /\ manualDisabled' = b
    /\ UNCHANGED <<coolVars, breakerVars, degradeVars, systemVars, timeOfDay,
                   disk, dirty>>

SetManualDisabled(b) ==
    /\ "operator" \in Events
    /\ manualDisabled /= b
    /\ manualDisabled' = b
    /\ Touch
    /\ UNCHANGED <<coolVars, breakerVars, degradeVars, systemVars>>

(* Mutant: the check-in also closes the breaker. *)
ReenableAndCloseBreaker(remain) ==
    /\ "credit" \in Events
    /\ IF remain > 0 /\ ~disabled
       THEN /\ clearCooling("none")
            /\ breakerUntil' = Never /\ fails' = 0 /\ retryCount' = 0
       ELSE UNCHANGED <<coolVars, breakerVars>>
    /\ Touch
    /\ UNCHANGED <<degradeVars, systemVars, manualDisabled>>

(* A check-in reported `remain` credits.                                    *)
ReenableIfCredits(remain) ==
    /\ "credit" \in Events
    /\ IF remain > 0 /\ ~disabled THEN clearCooling("none")
       ELSE UNCHANGED coolVars
    /\ Touch
    /\ UNCHANGED <<breakerVars, degradeVars, systemVars, manualDisabled>>

(* Every pick first deletes the elapsed model cooldowns; it does not mark   *)
(* the pool dirty.                                                          *)
PruneExpiredModelCooldowns ==
    /\ modelCooldowns' = [m \in Models |-> IF modelCooled(m)
                            THEN modelCooldowns[m] ELSE NoCooldown]
    /\ UNCHANGED <<until, coolKind, reason, softStreak, breakerVars,
                   degradeVars, systemVars, manualDisabled, timeOfDay, disk,
                   dirty>>

-----------------------------------------------------------------------------
(* Saving.  The file is replaced by a rename, so a save happens entirely or *)
(* not at all.                                                              *)

saveLocked ==
    \/ HasStateFile /\ disk' = stateOverview
    \/ (~HasStateFile \/ SaveMayFail) /\ UNCHANGED disk

(* The flusher's tick, Flush and Close.                                     *)
Flush ==
    /\ dirty
    /\ dirty' = FALSE
    /\ saveLocked
    /\ UNCHANGED <<memoryVars, timeOfDay>>

(* SyncToDir dropped another account, which saves the whole pool.           *)
SyncToDir ==
    /\ "operator" \in Events
    /\ saveLocked
    /\ UNCHANGED <<memoryVars, timeOfDay, dirty>>

(* The process ends without a last flush (the plugin's shutdown export does *)
(* nothing) and a new pool loads the file.                                  *)
Restart ==
    /\ "crash" \in Events
    /\ until' = disk.until /\ coolKind' = disk.coolKind
    /\ reason' = disk.reason /\ softStreak' = disk.softStreak
    /\ modelCooldowns' = loadedCooldowns
    /\ breakerUntil' = IF disk.breakerUntil > 0 THEN disk.breakerUntil
                       ELSE Never
    /\ retryCount' = loadedRetryCount
    /\ fails' = 0
    /\ consecutiveFails' = disk.consecutiveFails
    /\ degradeUntil' = disk.degradeUntil
    /\ disabled' = disk.disabled
    /\ sessionDeadFails' = disk.sessionDeadFails
    /\ manualDisabled' = disk.manualDisabled
    /\ dirty' = FALSE
    /\ UNCHANGED <<timeOfDay, disk>>

-----------------------------------------------------------------------------

Elapse(t) == IF t > 0 THEN t - 1 ELSE t

elapsedCooldowns(mcs) ==
    [m \in Models |-> [until  |-> Elapse(mcs[m].until),
                       reason |-> mcs[m].reason, hits |-> mcs[m].hits]]

elapsedDisk ==
    [until            |-> Elapse(disk.until),
     coolKind         |-> disk.coolKind,
     reason           |-> disk.reason,
     softStreak       |-> disk.softStreak,
     modelCooldowns   |-> elapsedCooldowns(disk.modelCooldowns),
     breakerUntil     |-> Elapse(disk.breakerUntil),
     retryCount       |-> disk.retryCount,
     consecutiveFails |-> disk.consecutiveFails,
     degradeUntil     |-> Elapse(disk.degradeUntil),
     disabled         |-> disk.disabled,
     sessionDeadFails |-> disk.sessionDeadFails,
     manualDisabled   |-> disk.manualDisabled]

Tick ==
    /\ until' = Elapse(until)
    /\ breakerUntil' = Elapse(breakerUntil)
    /\ degradeUntil' = Elapse(degradeUntil)
    /\ modelCooldowns' = elapsedCooldowns(modelCooldowns)
    /\ timeOfDay' = IF timeOfDay + 1 = Day THEN 0 ELSE timeOfDay + 1
    /\ disk' = elapsedDisk
    /\ UNCHANGED <<coolKind, reason, softStreak, fails, retryCount,
                   consecutiveFails, systemVars, manualDisabled, dirty>>

Outcome ==
    \/ CooldownFixed
    \/ CooldownUntilTomorrow4AM
    \/ CooldownSoftRate
    \/ \E r \in ResetOffsets : CooldownSoftRateUntil(r)
    \/ \E m \in Models, r \in ResetOffsets : CooldownSoftForModel(m, r)
    \/ \E m \in Models : BlockModelBackoff(m)
    \/ \E m \in Models : BlockModelClear(m)
    \/ NoteError
    \/ NoteFailures
    \/ NoteSuccess
    \/ NoteSessionDead
    \/ ClearSessionDead
    \/ Disable

Operator ==
    \/ ReviveDisabled
    \/ \E b \in BOOLEAN : SetManualDisabled(b)
    \/ \E remain \in {0, 1} : ReenableIfCredits(remain)

Next ==
    \/ Outcome
    \/ Operator
    \/ PruneExpiredModelCooldowns
    \/ Flush
    \/ SyncToDir
    \/ Restart
    \/ Tick

(* Time passes, and the flusher's ticker fires every five seconds.          *)
Spec == Init /\ [][Next]_vars /\ WF_vars(Tick) /\ WF_vars(Flush)

-----------------------------------------------------------------------------
(* Properties.                                                              *)

ModelCooldown == [until : Nat, reason : BlockReasons, hits : Nat]

DiskRecord ==
    [until : Nat, coolKind : CoolKinds, reason : Reasons, softStreak : Nat,
     modelCooldowns : [Models -> ModelCooldown],
     breakerUntil : Nat \cup {Never}, retryCount : 0..MaxRetry,
     consecutiveFails : Nat, degradeUntil : Nat, disabled : BOOLEAN,
     sessionDeadFails : Nat, manualDisabled : BOOLEAN]

(* Every variable has its type, in memory and in state.json.                *)
TypeOK ==
    /\ until \in Nat /\ coolKind \in CoolKinds /\ reason \in Reasons
    /\ softStreak \in Nat
    /\ modelCooldowns \in [Models -> ModelCooldown]
    /\ breakerUntil \in Nat \cup {Never} /\ fails \in Nat
    /\ retryCount \in 0..MaxRetry
    /\ consecutiveFails \in Nat /\ degradeUntil \in Nat
    /\ disabled \in BOOLEAN /\ sessionDeadFails \in Nat
    /\ manualDisabled \in BOOLEAN
    /\ timeOfDay \in 0..(Day - 1)
    /\ disk \in DiskRecord /\ dirty \in BOOLEAN

(* No strike counter rests at its threshold: reaching one always fires the  *)
(* penalty and starts the count again, also for a count that was read back  *)
(* from state.json half way (NoteError, NoteFailures, NoteSessionDead).     *)
CountersBelowThreshold ==
    /\ fails < BreakerThreshold
    /\ consecutiveFails < DegradeThreshold
    /\ sessionDeadFails < SessionDeadThreshold

(* The breaker's exponent and its deadline live and die together: an        *)
(* account that never tripped starts from the base duration, one that       *)
(* tripped keeps escalating until a success (recordBreakerFailureLocked,    *)
(* NoteSuccess), and no restart brings back one without the other.          *)
BreakerConsistent == (breakerUntil = Never) <=> (retryCount = 0)

(* A credit-exhausted account is cooled to the very next 04:00, whatever    *)
(* the hour at which the 402 arrived, and after a restart too (nextDay4AM). *)
HardCoolingEndsAtFour ==
    coolKind = "hard" /\ until > 0 =>
        until <= Day /\ timeOfDay + until \in {Four, Day + Four}

(* No penalty outlasts its cap: soft cooling softRateMax (or the fixed      *)
(* duration asked for), hard cooling a day, the breaker its maximum, the    *)
(* degradation its duration, a model's cooldown the larger of the two caps. *)
PenaltiesBounded ==
    /\ until > 0 =>
         \/ coolKind = "hard" /\ until <= Day
         \/ coolKind = "soft" /\ until <= SoftRateMax
         \/ coolKind = "soft" /\ \E d \in FixedCooldowns : until <= d
    /\ breakerUntil <= BreakerCooldownMax
    /\ degradeUntil <= degradeDuration
    /\ \A m \in Models : modelCooldowns[m].until <= SoftRateMax
                         \/ modelCooldowns[m].until <= BlockMaxTTL

healthyAfterRestart ==
    healthyIn(disk.disabled, disk.manualDisabled, disk.until,
              disk.breakerUntil, disk.degradeUntil)

(* Once the pool is not dirty, a process that dies and reloads state.json   *)
(* gives every model the same verdict on the account as the one that died:  *)
(* nothing that is left out of the file (elapsed deadlines, fails, Hits)    *)
(* changes who is selected.                                                 *)
RestartKeepsVerdict ==
    HasStateFile /\ ~dirty =>
        /\ healthyAfterRestart <=> healthy
        /\ \A m \in Models :
             (healthyAfterRestart /\ loadedCooldowns[m].until = 0)
                 <=> healthyForModel(m)

(* Only a success lifts or shortens an open breaker; check-ins, disabling,  *)
(* reviving and cooling never do, and a further trip only extends it.       *)
OnlySuccessLiftsBreaker ==
    [][breakerUntil > 0 /\ breakerUntil' < breakerUntil
        => NoteSuccess \/ Tick \/ Restart]_vars

(* An account that the system disabled or the operator shelved returns to   *)
(* selection only by ReviveDisabled or SetManualDisabled, whichever of the  *)
(* two bits was set last, and never by a check-in or a success.             *)
OnlyOperatorReturnsAccount ==
    [][(disabled \/ manualDisabled) /\ ~(disabled' \/ manualDisabled')
        => ReviveDisabled \/ SetManualDisabled(FALSE) \/ Restart]_vars

(* However often callers retry an account that is softly cooled or          *)
(* degraded, and fail, both penalties run out: failing retries cannot keep  *)
(* pushing the deadline away (CooldownSoftRate, NoteFailures). A hard       *)
(* cooling runs to the next 04:00 (HardCoolingEndsAtFour) and is renewed    *)
(* by the next exhausted balance.                                           *)
RetriesDoNotPinAccount == []<>(until = 0 \/ coolKind = "hard") /\ []<>(degradeUntil = 0)

(* What the operator decided reaches state.json, unless a crash undid it or *)
(* the operator changed their mind: memory cannot hold a decision for ever  *)
(* that the file does not.                                                  *)
ManualStatePersisted ==
    \A b \in BOOLEAN : []<>(manualDisabled = b => disk.manualDisabled = b)
=============================================================================
