--------------------------- MODULE AccountProofs ---------------------------
(***************************************************************************)
(* What holds of an account of the pool for every threshold, duration, set *)
(* of models and set of events: type correctness, the agreement of the     *)
(* breaker's exponent with its deadline across restarts, and that only a   *)
(* success lifts an open breaker; then the strike counters, who returns a  *)
(* shelved account, restarts from a clean file, the end of hard cooling,   *)
(* and the caps of all penalties.                                          *)
(*                                                                         *)
(* And of its credential file, for any number of jobs of any kind: the     *)
(* lock is held by whoever is inside a section of it, a disabled account   *)
(* is not enabled by a note or a refresh, and one wrong answer of the      *)
(* billing API deletes no account.                                         *)
(***************************************************************************)
EXTENDS Account, AuthFile, TLAPS

-----------------------------------------------------------------------------
(* The account in the pool.                                                 *)

(* Every backoff of cooldown.go and degrade.go is a positive duration that  *)
(* does not exceed its cap.                                                 *)
LEMMA BackoffDurations ==
    /\ \A r \in Int : cappedSoftUntil(r) \in 1..SoftRateMax
    /\ \A k \in Nat : softDuration(k) \in 1..SoftRateMax
    /\ \A k \in 0..MaxRetry : breakerDuration(k) \in 1..BreakerCooldownMax
    /\ \A k \in Nat \ {0} : blockTTL(k) \in 1..BlockMaxTTL
    /\ degradeDuration \in Nat \ {0}
<1>1. ASSUME NEW r \in Int PROVE cappedSoftUntil(r) \in 1..SoftRateMax
  BY DurationAssumption DEF cappedSoftUntil
<1>2. ASSUME NEW k \in Nat PROVE softDuration(k) \in 1..SoftRateMax
  <2>1. CASE k <= 1
    BY <2>1, DurationAssumption DEF softDuration
  <2>2. CASE k > 1
    <3> DEFINE s == SmallerOf(k - 1, SoftShiftMax)
    <3>1. s \in 0..(SoftShiftMax + BlockShift + MaxRetry)
      BY <2>2, DurationAssumption, BoundAssumption DEF SmallerOf
    <3>2. 2^s \in Nat
      BY <3>1, ShiftAssumption
    <3> DEFINE d == SoftBase * 2^s
    <3>3. d \in Int
      BY <3>2, DurationAssumption
    <3>4. softDuration(k) = IF d > SoftRateMax \/ d <= 0 THEN SoftRateMax ELSE d
      BY <2>2 DEF softDuration
    <3> HIDE DEF d
    <3> QED BY <3>3, <3>4, DurationAssumption
  <2> QED BY <2>1, <2>2
<1>3. ASSUME NEW k \in 0..MaxRetry
      PROVE  breakerDuration(k) \in 1..BreakerCooldownMax
  <2>1. 2^k \in Nat \ {0} /\ 2^0 = 1
    BY ShiftAssumption, DurationAssumption, BoundAssumption
  <2>2. BreakerCooldown * 2^k \in Nat \ {0}
    BY <2>1, DurationAssumption
  <2>3. k = 0 => BreakerCooldown * 2^k = BreakerCooldown
    BY <2>1, DurationAssumption
  <2> QED BY <2>2, <2>3, DurationAssumption DEF breakerDuration
<1>4. ASSUME NEW k \in Nat \ {0} PROVE blockTTL(k) \in 1..BlockMaxTTL
  <2> DEFINE s == SmallerOf(k - 1, BlockShift)
  <2>1. s \in 0..(SoftShiftMax + BlockShift + MaxRetry)
    BY DurationAssumption, BoundAssumption DEF SmallerOf
  <2>2. 2^s \in Nat \ {0}
    BY <2>1, ShiftAssumption
  <2> DEFINE d == BlockBaseTTL * 2^s
  <2>3. d \in Nat \ {0}
    BY <2>2, DurationAssumption
  <2>4. blockTTL(k) = IF d < BlockMaxTTL THEN d ELSE BlockMaxTTL
    BY DEF blockTTL
  <2> HIDE DEF d
  <2> QED BY <2>3, <2>4, DurationAssumption
<1>5. degradeDuration \in Nat \ {0}
  BY DurationAssumption DEF degradeDuration, SmallerOf
<1> QED BY <1>1, <1>2, <1>3, <1>4, <1>5

(* Each action keeps every variable in its type. *)
LEMMA TypeStep == ASSUME TypeOK, [Next]_vars PROVE TypeOK'
<1> USE DEF TypeOK, Never, CoolKinds, Reasons
<1>0. NoModelCooldowns \in [Models -> ModelCooldown]
  BY DEF NoModelCooldowns, NoCooldown, ModelCooldown, BlockReasons
<1>a. stateOverview \in DiskRecord
  BY DurationAssumption, BoundAssumption
  DEF stateOverview, modelCooled, NoCooldown, ModelCooldown, BlockReasons,
      DiskRecord
<1>1. CASE CooldownFixed
  BY <1>1, <1>0, DurationAssumption
  DEF CooldownFixed, Cooldown, Touch, breakerVars, degradeVars, systemVars
<1>2. CASE CooldownUntilTomorrow4AM
  BY <1>2, <1>0, DurationAssumption
  DEF CooldownUntilTomorrow4AM, Cooldown, nextDay4AM, Touch, breakerVars,
      degradeVars, systemVars
<1>3. CASE CooldownSoftRate
  <2>1. softDuration(softStreak + 1) \in Nat
    BY BackoffDurations, DurationAssumption
  <2> QED
    BY <1>3, <1>0, <2>1
    DEF CooldownSoftRate, softBackoff, coolSoftly, Touch, breakerVars,
        degradeVars, systemVars
<1>4. ASSUME NEW r \in ResetOffsets, CooldownSoftRateUntil(r) PROVE TypeOK'
  <2>1. cappedSoftUntil(r) \in Nat
    BY BackoffDurations, DurationAssumption
  <2> QED
    BY <1>4, <1>0, <2>1
    DEF CooldownSoftRateUntil, coolSoftly, Touch, breakerVars, degradeVars,
        systemVars
<1>5. ASSUME NEW m \in Models, NEW t \in Nat, NEW why \in {"6004", "11102"},
             NEW h \in Nat, setModelCooldown(m, t, why, h)
      PROVE  TypeOK'
  BY <1>5 DEF setModelCooldown, Touch, ModelCooldown, BlockReasons,
              breakerVars, degradeVars, systemVars
<1>6. ASSUME NEW m \in Models, NEW r \in ResetOffsets,
             CooldownSoftForModel(m, r)
      PROVE  TypeOK'
  <2>1. cappedSoftUntil(r) \in Nat
    BY BackoffDurations, DurationAssumption
  <2> QED BY <1>6, <2>1, <1>5 DEF CooldownSoftForModel
<1>7. ASSUME NEW m \in Models, BlockModelBackoff(m) PROVE TypeOK'
  <2> DEFINE h == modelCooldowns[m].hits + 1
  <2>1. h \in Nat \ {0}
    BY DEF ModelCooldown
  <2>2. blockTTL(h) \in Nat
    BY <2>1, BackoffDurations, DurationAssumption
  <2>3. setModelCooldown(m, blockTTL(h), "11102", h)
    BY <1>7 DEF BlockModelBackoff
  <2> HIDE DEF h
  <2> QED BY <2>1, <2>2, <2>3, <1>5
<1>8. ASSUME NEW m \in Models, BlockModelClear(m) PROVE TypeOK'
  BY <1>8 DEF BlockModelClear, Touch, NoCooldown, ModelCooldown, BlockReasons,
              breakerVars, degradeVars, systemVars
<1>9. CASE NoteError
  <2>1. retryCount < MaxRetry => breakerDuration(retryCount) \in Nat
    BY BackoffDurations, BoundAssumption, DurationAssumption
  <2> QED
    BY <1>9, <2>1, BoundAssumption
    DEF NoteError, Touch, coolVars, degradeVars, systemVars
<1>10. CASE NoteFailures
  BY <1>10, BackoffDurations
  DEF NoteFailures, Touch, coolVars, breakerVars, systemVars
<1>11. CASE NoteSuccess
  BY <1>11, BoundAssumption DEF NoteSuccess, Touch
<1>12. CASE NoteSessionDead
  <2>1. CASE sessionDeadFails' = 0 /\ disable("session_dead")
    BY <1>12, <2>1, <1>0
    DEF NoteSessionDead, disable, clearCooling, Touch, breakerVars, degradeVars
  <2>2. CASE sessionDeadFails' = sessionDeadFails + 1
             /\ UNCHANGED <<coolVars, disabled>>
    BY <1>12, <2>2
    DEF NoteSessionDead, Touch, coolVars, breakerVars, degradeVars
  <2> QED BY <1>12, <2>1, <2>2 DEF NoteSessionDead
<1>13. CASE ClearSessionDead
  BY <1>13 DEF ClearSessionDead, Touch, coolVars, breakerVars, degradeVars
<1>14. CASE Disable
  BY <1>14, <1>0
  DEF Disable, disable, clearCooling, Touch, breakerVars, degradeVars
<1>15. CASE ReviveDisabled
  BY <1>15 DEF ReviveDisabled, Touch, breakerVars, degradeVars
<1>16. ASSUME NEW b \in BOOLEAN, SetManualDisabled(b) PROVE TypeOK'
  BY <1>16 DEF SetManualDisabled, Touch, coolVars, breakerVars, degradeVars,
               systemVars
<1>17. ASSUME NEW remain \in {0, 1}, ReenableIfCredits(remain) PROVE TypeOK'
  BY <1>17, <1>0
  DEF ReenableIfCredits, clearCooling, Touch, coolVars, breakerVars,
      degradeVars, systemVars
<1>18. CASE PruneExpiredModelCooldowns
  <2>1. modelCooldowns' \in [Models -> ModelCooldown]
    BY <1>18 DEF PruneExpiredModelCooldowns, NoCooldown, ModelCooldown,
                 BlockReasons
  <2> QED BY <1>18, <2>1 DEF PruneExpiredModelCooldowns, breakerVars,
                             degradeVars, systemVars
<1>19. CASE Flush \/ SyncToDir
  BY <1>19, <1>a
  DEF Flush, SyncToDir, saveLocked, memoryVars, coolVars, breakerVars,
      degradeVars, systemVars
<1>20. CASE Restart
  <2>1. loadedCooldowns \in [Models -> ModelCooldown]
    BY DEF loadedCooldowns, NoCooldown, ModelCooldown, BlockReasons, DiskRecord
  <2>2. /\ disk.until \in Nat /\ disk.coolKind \in CoolKinds
        /\ disk.reason \in Reasons /\ disk.softStreak \in Nat
        /\ disk.breakerUntil \in Nat \cup {Never}
        /\ disk.retryCount \in 0..MaxRetry /\ disk.consecutiveFails \in Nat
        /\ disk.degradeUntil \in Nat /\ disk.disabled \in BOOLEAN
        /\ disk.sessionDeadFails \in Nat /\ disk.manualDisabled \in BOOLEAN
    BY DEF DiskRecord
  <2>3. /\ disabled' \in BOOLEAN /\ manualDisabled' \in BOOLEAN
        /\ dirty' \in BOOLEAN /\ disk' \in DiskRecord
        /\ coolKind' \in CoolKinds /\ reason' \in Reasons
        /\ modelCooldowns' \in [Models -> ModelCooldown]
    BY <1>20, <2>1, <2>2, Zenon DEF Restart
  <2>4. /\ until' \in Nat /\ softStreak' \in Nat /\ fails' \in Nat
        /\ breakerUntil' \in Nat \cup {Never} /\ retryCount' \in 0..MaxRetry
        /\ consecutiveFails' \in Nat /\ degradeUntil' \in Nat
        /\ sessionDeadFails' \in Nat /\ timeOfDay' \in 0..(Day - 1)
    BY <1>20, <2>2, BoundAssumption DEF Restart, loadedRetryCount
  <2> QED BY <2>3, <2>4
<1>21. CASE Tick
  <2>1. modelCooldowns' \in [Models -> ModelCooldown]
    BY <1>21 DEF Tick, elapsedCooldowns, Elapse, ModelCooldown
  <2>2. disk' \in DiskRecord
    <3>1. elapsedCooldowns(disk.modelCooldowns) \in [Models -> ModelCooldown]
      BY DEF elapsedCooldowns, Elapse, ModelCooldown, DiskRecord
    <3> QED BY <1>21, <3>1 DEF Tick, elapsedDisk, Elapse, DiskRecord
  <2> QED BY <1>21, <2>1, <2>2, DurationAssumption
          DEF Tick, Elapse, systemVars
<1>22. CASE UNCHANGED vars
  BY <1>22 DEF vars, memoryVars, coolVars, breakerVars, degradeVars, systemVars
<1> QED
  BY <1>1, <1>2, <1>3, <1>4, <1>6, <1>7, <1>8, <1>9, <1>10, <1>11, <1>12,
     <1>13, <1>14, <1>15, <1>16, <1>17, <1>18, <1>19, <1>20, <1>21, <1>22
  DEF Next, Outcome, Operator

(* A new entry, and the absent record of state.json, have their types.      *)
LEMMA TypeInit == ASSUME Init PROVE TypeOK
<1>1. NoModelCooldowns \in [Models -> ModelCooldown]
  BY DEF NoModelCooldowns, NoCooldown, ModelCooldown, BlockReasons
<1>2. ZeroState \in DiskRecord
  BY <1>1, BoundAssumption DEF ZeroState, DiskRecord, Never, CoolKinds, Reasons
<1>3. disabled \in BOOLEAN /\ manualDisabled \in BOOLEAN /\ dirty \in BOOLEAN
      /\ coolKind \in CoolKinds /\ reason \in Reasons /\ disk \in DiskRecord
      /\ modelCooldowns \in [Models -> ModelCooldown]
  BY <1>1, <1>2, Zenon DEF Init, CoolKinds, Reasons
<1>4. timeOfDay \in 0..(Day - 1) /\ retryCount \in 0..MaxRetry
      /\ breakerUntil \in Nat \cup {Never}
  BY DurationAssumption, BoundAssumption DEF Init, Never
<1>5. /\ until \in Nat /\ softStreak \in Nat /\ fails \in Nat
      /\ consecutiveFails \in Nat /\ degradeUntil \in Nat
      /\ sessionDeadFails \in Nat
  BY DEF Init
<1> QED BY <1>3, <1>4, <1>5 DEF TypeOK

(* Type correctness: every reachable state of the entry and of its record  *)
(* in state.json has its type, for all thresholds, durations and bounds.   *)
THEOREM TypeCorrect == Spec => []TypeOK
<1>1. Init => TypeOK
  BY TypeInit
<1>2. TypeOK /\ [Next]_vars => TypeOK'
  BY TypeStep
<1> QED BY <1>1, <1>2, PTL DEF Spec

-----------------------------------------------------------------------------
(* What a step may do to each group of variables.                           *)

(* Of all operations only NoteError, NoteSuccess, a load and the clock      *)
(* touch the breaker.                                                       *)
LEMMA BreakerFrame ==
    ASSUME [Next]_vars
    PROVE  \/ UNCHANGED breakerVars
           \/ NoteError \/ NoteSuccess \/ Restart \/ Tick
BY DEF Next, Outcome, Operator, vars, memoryVars, breakerVars, CooldownFixed,
       CooldownUntilTomorrow4AM, Cooldown, CooldownSoftRate, coolSoftly,
       CooldownSoftRateUntil, CooldownSoftForModel, BlockModelBackoff,
       setModelCooldown, BlockModelClear, NoteFailures, NoteSessionDead,
       ClearSessionDead, Disable, ReviveDisabled, SetManualDisabled,
       ReenableIfCredits, PruneExpiredModelCooldowns, Flush, SyncToDir

(* state.json is only ever replaced by the overview of the entry.           *)
LEMMA DiskFrame ==
    ASSUME [Next]_vars
    PROVE  \/ UNCHANGED disk
           \/ disk' = stateOverview /\ UNCHANGED <<memoryVars, timeOfDay>>
           \/ Tick
BY DEF Next, Outcome, Operator, vars, CooldownFixed, Touch,
       CooldownUntilTomorrow4AM, Cooldown, CooldownSoftRate, coolSoftly,
       CooldownSoftRateUntil, CooldownSoftForModel, BlockModelBackoff,
       setModelCooldown, BlockModelClear, NoteError, NoteFailures,
       NoteSuccess, NoteSessionDead, ClearSessionDead, Disable,
       ReviveDisabled, SetManualDisabled, ReenableIfCredits,
       PruneExpiredModelCooldowns, Flush, SyncToDir, saveLocked, Restart

-----------------------------------------------------------------------------
(* The breaker.                                                             *)

(* A doubled duration, capped, is at least the duration before it.          *)
LEMMA BreakerDurationGrows ==
    ASSUME NEW k \in Nat, k < MaxRetry
    PROVE  breakerDuration(k) <= breakerDuration(k + 1)
<1>1. /\ 2^k \in Nat \ {0} /\ 2^(k + 1) = 2 * 2^k /\ 2^0 = 1
      /\ k \in 0..MaxRetry /\ k + 1 \in 0..MaxRetry
  BY ShiftAssumption, DurationAssumption, BoundAssumption
<1> DEFINE p == 2^k
           d == BreakerCooldown * p
<1>2. d \in Nat \ {0} /\ BreakerCooldown * 2^(k + 1) = 2 * d
  BY <1>1, DurationAssumption
<1>3. breakerDuration(k) = IF k > 0 /\ d >= BreakerCooldownMax
                           THEN BreakerCooldownMax ELSE d
  BY DEF breakerDuration
<1>4. breakerDuration(k + 1) = IF 2 * d >= BreakerCooldownMax
                               THEN BreakerCooldownMax ELSE 2 * d
  BY <1>2 DEF breakerDuration
<1>5. k = 0 => d = BreakerCooldown
  BY <1>1, DurationAssumption
<1> HIDE DEF d
<1> QED BY <1>2, <1>3, <1>4, <1>5, DurationAssumption

(* The strengthening: what is left of an open breaker never exceeds what    *)
(* the last trip asked for, in memory and in the file.                      *)
BreakerInv ==
    /\ BreakerConsistent
    /\ retryCount > 0 => breakerUntil <= breakerDuration(retryCount - 1)
    /\ disk.breakerUntil > 0 =>
         /\ disk.retryCount > 0
         /\ disk.breakerUntil <= breakerDuration(disk.retryCount - 1)

(* Each action keeps the breaker's strengthened invariant.                  *)
LEMMA BreakerStep ==
    ASSUME TypeOK, BreakerInv, [Next]_vars PROVE BreakerInv'
<1>1. /\ breakerUntil \in Nat \cup {-1} /\ retryCount \in 0..MaxRetry
      /\ disk.breakerUntil \in Nat \cup {-1}
      /\ disk.retryCount \in 0..MaxRetry /\ MaxRetry \in Nat
  BY BoundAssumption DEF TypeOK, DiskRecord, Never
<1>2. \A k \in 0..MaxRetry : breakerDuration(k) \in Nat \ {0}
  BY BackoffDurations, DurationAssumption
<1> DEFINE mem == /\ BreakerConsistent
                  /\ retryCount > 0 =>
                       breakerUntil <= breakerDuration(retryCount - 1)
           saved == disk.breakerUntil > 0 =>
                     /\ disk.retryCount > 0
                     /\ disk.breakerUntil <= breakerDuration(disk.retryCount - 1)
<1>3. mem /\ saved
  BY DEF BreakerInv
<1>4. mem'
  <2>1. CASE UNCHANGED breakerVars
    BY <2>1, <1>3 DEF breakerVars, BreakerConsistent
  <2>2. CASE NoteError
    <3>1. CASE UNCHANGED <<breakerUntil, retryCount>>
      BY <3>1, <1>3 DEF BreakerConsistent
    <3>2. CASE /\ retryCount' = retryCount + 1
               /\ breakerUntil' = breakerDuration(retryCount)
      BY <3>2, <1>1, <1>2 DEF BreakerConsistent, Never
    <3> QED BY <2>2, <3>1, <3>2 DEF NoteError
  <2>3. CASE NoteSuccess
    BY <2>3 DEF NoteSuccess, BreakerConsistent, Never
  <2>4. CASE Restart
    BY <2>4, <1>1, <1>3 DEF Restart, loadedRetryCount, BreakerConsistent, Never
  <2>5. CASE Tick
    BY <2>5, <1>1, <1>2, <1>3
    DEF Tick, Elapse, BreakerConsistent, Never
  <2> QED BY <2>1, <2>2, <2>3, <2>4, <2>5, BreakerFrame
<1>5. saved'
  <2>1. CASE UNCHANGED disk
    BY <2>1, <1>3
  <2>2. CASE disk' = stateOverview
    <3>1. /\ disk'.breakerUntil = IF breakerUntil > 0 THEN breakerUntil ELSE -1
          /\ disk'.retryCount = IF breakerUntil > 0 THEN retryCount ELSE 0
      BY <2>2 DEF stateOverview, Never
    <3> QED BY <3>1, <1>1, <1>3 DEF BreakerConsistent, Never
  <2>3. CASE Tick
    <3>1. /\ disk'.breakerUntil = Elapse(disk.breakerUntil)
          /\ disk'.retryCount = disk.retryCount
      BY <2>3 DEF Tick, elapsedDisk
    <3> QED BY <3>1, <1>1, <1>2, <1>3 DEF Elapse
  <2> QED BY <2>1, <2>2, <2>3, DiskFrame
<1> QED BY <1>4, <1>5 DEF BreakerInv

(* A breaker that never tripped satisfies it.                               *)
LEMMA BreakerInit == ASSUME Init PROVE BreakerInv
  BY DEF Init, ZeroState, BreakerInv, BreakerConsistent, Never

(* Spec keeps the strengthening, hence BreakerConsistent: the exponent and  *)
(* the deadline of the breaker are set and cleared together, restarts       *)
(* included, for every threshold and every duration.                        *)
THEOREM BreakerCorrect == Spec => [](TypeOK /\ BreakerInv /\ BreakerConsistent)
<1>1. Init => TypeOK /\ BreakerInv
  BY TypeInit, BreakerInit
<1>2. TypeOK /\ BreakerInv /\ [Next]_vars => TypeOK' /\ BreakerInv'
  BY TypeStep, BreakerStep
<1>3. BreakerInv => BreakerConsistent
  BY DEF BreakerInv
<1> QED BY <1>1, <1>2, <1>3, PTL DEF Spec

(* Only a success, the passing of time or a restart brings an open breaker  *)
(* closer to closing.                                                       *)
THEOREM BreakerOnlyLiftedBySuccess == Spec => OnlySuccessLiftsBreaker
<1>1. ASSUME TypeOK, BreakerInv, [Next]_vars, breakerUntil > 0,
             breakerUntil' < breakerUntil
      PROVE  NoteSuccess \/ Tick \/ Restart
  <2>1. /\ breakerUntil \in Nat \cup {-1} /\ retryCount \in 0..MaxRetry
        /\ MaxRetry \in Nat
    BY <1>1, BoundAssumption DEF TypeOK, Never
  <2>2. CASE UNCHANGED breakerVars
    <3>1. breakerUntil' = breakerUntil
      BY <2>2 DEF breakerVars
    <3> QED BY <1>1, <2>1, <3>1
  <2>3. CASE NoteError
    <3>1. breakerUntil' = breakerDuration(retryCount) /\ retryCount < MaxRetry
      BY <2>3, <1>1, <2>1 DEF NoteError
    <3>2. retryCount > 0 /\ breakerUntil <= breakerDuration(retryCount - 1)
      BY <1>1, <2>1 DEF BreakerInv, BreakerConsistent, Never
    <3>3. /\ breakerDuration(retryCount - 1) \in Int
          /\ breakerDuration(retryCount) \in Int
      BY <2>1, <3>2, BackoffDurations, DurationAssumption
    <3>4. breakerDuration(retryCount - 1) <= breakerDuration(retryCount)
      <4>1. retryCount - 1 \in Nat /\ retryCount - 1 < MaxRetry
            /\ (retryCount - 1) + 1 = retryCount
        BY <2>1, <3>1, <3>2
      <4> QED BY <4>1, BreakerDurationGrows
    <3> QED BY <1>1, <2>1, <3>1, <3>2, <3>3, <3>4
  <2> QED BY <1>1, <2>2, <2>3, BreakerFrame
<1>2. TypeOK /\ BreakerInv /\ [Next]_vars
        => [breakerUntil > 0 /\ breakerUntil' < breakerUntil
              => NoteSuccess \/ Tick \/ Restart]_vars
  BY <1>1
<1> QED BY <1>2, BreakerCorrect, PTL DEF Spec, OnlySuccessLiftsBreaker

-----------------------------------------------------------------------------
(* The other counters and penalties.                                        *)

(* Only these actions touch a strike counter.                               *)
LEMMA CounterFrame ==
    ASSUME [Next]_vars
    PROVE  \/ UNCHANGED <<fails, consecutiveFails, sessionDeadFails>>
           \/ NoteError \/ NoteFailures \/ NoteSuccess \/ NoteSessionDead
           \/ ClearSessionDead \/ ReviveDisabled \/ Restart
BY DEF Next, Outcome, Operator, vars, memoryVars, breakerVars, degradeVars,
       systemVars, CooldownFixed, CooldownUntilTomorrow4AM, Cooldown,
       CooldownSoftRate, coolSoftly, CooldownSoftRateUntil,
       CooldownSoftForModel, BlockModelBackoff, setModelCooldown,
       BlockModelClear, Disable, SetManualDisabled, ReenableIfCredits,
       PruneExpiredModelCooldowns, Flush, SyncToDir, Tick

(* The strengthening: the counts that are read back after a restart are     *)
(* below their thresholds as well.                                          *)
CounterInv ==
    /\ CountersBelowThreshold
    /\ disk.consecutiveFails < DegradeThreshold
    /\ disk.sessionDeadFails < SessionDeadThreshold

(* Each action keeps the counters below their thresholds.                   *)
LEMMA CounterStep ==
    ASSUME TypeOK, CounterInv, [Next]_vars PROVE CounterInv'
<1>1. /\ fails \in Nat /\ consecutiveFails \in Nat /\ sessionDeadFails \in Nat
      /\ disk.consecutiveFails \in Nat /\ disk.sessionDeadFails \in Nat
  BY DEF TypeOK, DiskRecord
<1>2. /\ fails < BreakerThreshold
      /\ consecutiveFails < DegradeThreshold
      /\ sessionDeadFails < SessionDeadThreshold
      /\ disk.consecutiveFails < DegradeThreshold
      /\ disk.sessionDeadFails < SessionDeadThreshold
  BY DEF CounterInv, CountersBelowThreshold
<1>3. CountersBelowThreshold'
  <2> USE DEF CountersBelowThreshold
  <2>1. CASE UNCHANGED <<fails, consecutiveFails, sessionDeadFails>>
    BY <2>1, <1>2
  <2>2. CASE NoteError
    BY <2>2, <1>1, <1>2, ThresholdAssumption
    DEF NoteError, degradeVars, systemVars
  <2>3. CASE NoteFailures
    BY <2>3, <1>1, <1>2, ThresholdAssumption
    DEF NoteFailures, breakerVars, systemVars
  <2>4. CASE NoteSuccess
    BY <2>4, ThresholdAssumption DEF NoteSuccess
  <2>5. CASE NoteSessionDead
    BY <2>5, <1>1, <1>2, ThresholdAssumption
    DEF NoteSessionDead, breakerVars, degradeVars
  <2>6. CASE ClearSessionDead
    BY <2>6, <1>2, ThresholdAssumption
    DEF ClearSessionDead, breakerVars, degradeVars
  <2>7. CASE ReviveDisabled
    BY <2>7, <1>2, ThresholdAssumption
    DEF ReviveDisabled, breakerVars, degradeVars
  <2>8. CASE Restart
    BY <2>8, <1>2, ThresholdAssumption DEF Restart
  <2> QED BY <2>1, <2>2, <2>3, <2>4, <2>5, <2>6, <2>7, <2>8, CounterFrame
<1>4. /\ disk'.consecutiveFails < DegradeThreshold
      /\ disk'.sessionDeadFails < SessionDeadThreshold
  <2>1. CASE UNCHANGED disk
    BY <2>1, <1>2
  <2>2. CASE disk' = stateOverview
    BY <2>2, <1>2 DEF stateOverview
  <2>3. CASE Tick
    BY <2>3, <1>2 DEF Tick, elapsedDisk
  <2> QED BY <2>1, <2>2, <2>3, DiskFrame
<1> QED BY <1>3, <1>4 DEF CounterInv

(* No strike counter ever rests at or above its threshold, whatever was     *)
(* counted before a restart and after it (NoteError, NoteFailures,          *)
(* NoteSessionDead, applyAccountsLocked).                                   *)
THEOREM CountersCorrect == Spec => []CountersBelowThreshold
<1>1. Init => CounterInv
  BY ThresholdAssumption
  DEF Init, ZeroState, CounterInv, CountersBelowThreshold
<1>2. TypeOK /\ CounterInv /\ [Next]_vars => CounterInv'
  BY CounterStep
<1>3. CounterInv => CountersBelowThreshold
  BY DEF CounterInv
<1> QED BY <1>1, <1>2, <1>3, TypeCorrect, PTL DEF Spec

(* Only these actions touch the two bits that shelve an account.            *)
LEMMA ShelfFrame ==
    ASSUME [Next]_vars
    PROVE  \/ UNCHANGED <<disabled, manualDisabled>>
           \/ NoteSessionDead \/ Disable \/ ReviveDisabled
           \/ SetManualDisabled(TRUE) \/ SetManualDisabled(FALSE) \/ Restart
BY DEF Next, Outcome, Operator, vars, memoryVars, breakerVars, degradeVars,
       systemVars, CooldownFixed, CooldownUntilTomorrow4AM, Cooldown,
       CooldownSoftRate, coolSoftly, CooldownSoftRateUntil,
       CooldownSoftForModel, BlockModelBackoff, setModelCooldown,
       BlockModelClear, NoteError, NoteFailures, NoteSuccess,
       ClearSessionDead, ReenableIfCredits,
       PruneExpiredModelCooldowns, Flush, SyncToDir, Tick

(* A shelved account returns to selection by nobody but the operator: no    *)
(* success, check-in, or further verdict clears either bit.                 *)
THEOREM OnlyOperatorReturns == Spec => OnlyOperatorReturnsAccount
<1>1. ASSUME [Next]_vars, disabled \/ manualDisabled,
             ~(disabled' \/ manualDisabled')
      PROVE  ReviveDisabled \/ SetManualDisabled(FALSE) \/ Restart
  <2>1. CASE UNCHANGED <<disabled, manualDisabled>>
    BY <2>1, <1>1
  <2>2. CASE NoteSessionDead
    BY <2>2, <1>1 DEF NoteSessionDead, disable
  <2>3. CASE Disable
    BY <2>3, <1>1 DEF Disable, disable
  <2>4. CASE SetManualDisabled(TRUE)
    BY <2>4, <1>1 DEF SetManualDisabled
  <2> QED BY <1>1, <2>1, <2>2, <2>3, <2>4, ShelfFrame
<1>2. [Next]_vars
        => [(disabled \/ manualDisabled) /\ ~(disabled' \/ manualDisabled')
             => ReviveDisabled \/ SetManualDisabled(FALSE) \/ Restart]_vars
  BY <1>1
<1> QED BY <1>2, PTL DEF Spec, OnlyOperatorReturnsAccount

-----------------------------------------------------------------------------
(* Restarting from a clean file.                                            *)

(* What the pool is not dirty about is in the file: the bits, the deadlines *)
(* that are ahead, and the models that are cooled.                          *)
SavedInv ==
    HasStateFile /\ ~dirty =>
        /\ disk.disabled = disabled /\ disk.manualDisabled = manualDisabled
        /\ disk.until = until /\ disk.degradeUntil = degradeUntil
        /\ \/ disk.breakerUntil = breakerUntil
           \/ disk.breakerUntil <= 0 /\ breakerUntil <= 0
        /\ \A m \in Models :
             disk.modelCooldowns[m].until =
                 IF modelCooled(m) THEN modelCooldowns[m].until ELSE 0

(* A deadline in the file belongs to a cooldown that is in the file.        *)
DiskCooldownsNamed ==
    \A m \in Models : disk.modelCooldowns[m].until > 0
                          => disk.modelCooldowns[m].reason /= "none"

(* What does not mark the pool dirty is one of these.                       *)
LEMMA DirtyFrame ==
    ASSUME [Next]_vars
    PROVE  \/ dirty' = TRUE
           \/ Flush \/ SyncToDir \/ Restart \/ Tick
           \/ PruneExpiredModelCooldowns
           \/ UNCHANGED vars
BY DEF Next, Outcome, Operator, vars, CooldownFixed, Touch,
       CooldownUntilTomorrow4AM, Cooldown, CooldownSoftRate, coolSoftly,
       CooldownSoftRateUntil, CooldownSoftForModel, BlockModelBackoff,
       setModelCooldown, BlockModelClear, NoteError, NoteFailures,
       NoteSuccess, NoteSessionDead, ClearSessionDead, Disable,
       ReviveDisabled, SetManualDisabled, ReenableIfCredits

(* Every write of the file names the cooldowns it holds.                    *)
LEMMA DiskNamedStep ==
    ASSUME TypeOK, DiskCooldownsNamed, [Next]_vars
    PROVE  DiskCooldownsNamed'
<1>1. CASE UNCHANGED disk
  BY <1>1 DEF DiskCooldownsNamed
<1>2. CASE disk' = stateOverview
  <2>1. ASSUME NEW m \in Models, disk'.modelCooldowns[m].until > 0
        PROVE  disk'.modelCooldowns[m].reason /= "none"
    <3> DEFINE saved == [until  |-> modelCooldowns[m].until,
                         reason |-> modelCooldowns[m].reason, hits |-> 0]
    <3>1. disk'.modelCooldowns[m] = IF modelCooled(m) THEN saved ELSE NoCooldown
      BY <1>2 DEF stateOverview
    <3>2. CASE modelCooled(m)
      <4>1. disk'.modelCooldowns[m].reason = modelCooldowns[m].reason
        BY <3>1, <3>2
      <4> QED BY <3>2, <4>1 DEF modelCooled, Present
    <3>3. CASE ~modelCooled(m)
      <4>1. disk'.modelCooldowns[m].until = 0
        BY <3>1, <3>3 DEF NoCooldown
      <4> QED BY <2>1, <4>1
    <3> QED BY <3>2, <3>3
  <2> QED BY <2>1 DEF DiskCooldownsNamed
<1>3. CASE Tick
  <2>1. \A m \in Models :
          /\ disk'.modelCooldowns[m].until = Elapse(disk.modelCooldowns[m].until)
          /\ disk'.modelCooldowns[m].reason = disk.modelCooldowns[m].reason
    BY <1>3 DEF Tick, elapsedDisk, elapsedCooldowns
  <2>2. \A m \in Models : disk.modelCooldowns[m].until \in Nat
    BY DEF TypeOK, DiskRecord, ModelCooldown
  <2> QED BY <2>1, <2>2 DEF DiskCooldownsNamed, Elapse
<1> QED BY <1>1, <1>2, <1>3, DiskFrame

(* If saving does not fail, what is clean is saved.                         *)
LEMMA SavedStep ==
    ASSUME SaveMayFail = FALSE, TypeOK, DiskCooldownsNamed, SavedInv,
           [Next]_vars
    PROVE  SavedInv'
<1> SUFFICES ASSUME HasStateFile, ~dirty' PROVE SavedInv'
  BY DEF SavedInv
<1>1. CASE disk' = stateOverview /\ UNCHANGED memoryVars
  <2>1. /\ disk'.disabled = disabled /\ disk'.manualDisabled = manualDisabled
        /\ disk'.until = until /\ disk'.degradeUntil = degradeUntil
        /\ disk'.breakerUntil = IF breakerUntil > 0 THEN breakerUntil ELSE -1
        /\ disk'.modelCooldowns = [m \in Models |->
             IF modelCooled(m) THEN [until  |-> modelCooldowns[m].until,
                                     reason |-> modelCooldowns[m].reason,
                                     hits   |-> 0]
             ELSE NoCooldown]
    BY <1>1 DEF stateOverview, Never
  <2>2. /\ UNCHANGED <<disabled, manualDisabled, until, degradeUntil,
                       breakerUntil, modelCooldowns>>
    BY <1>1 DEF memoryVars, coolVars, breakerVars, degradeVars, systemVars
  <2>3. breakerUntil \in Int
    BY DEF TypeOK, Never
  <2>4. \A m \in Models : modelCooled(m)' <=> modelCooled(m)
    BY <2>2 DEF modelCooled, Present
  <2> QED BY <2>1, <2>2, <2>3, <2>4 DEF SavedInv, NoCooldown
<1>2. CASE Restart
  <2>1. /\ UNCHANGED disk /\ until' = disk.until
        /\ degradeUntil' = disk.degradeUntil /\ disabled' = disk.disabled
        /\ manualDisabled' = disk.manualDisabled
        /\ breakerUntil' = IF disk.breakerUntil > 0 THEN disk.breakerUntil
                           ELSE -1
        /\ modelCooldowns' = loadedCooldowns
    BY <1>2 DEF Restart, Never
  <2>2. disk.breakerUntil \in Int
    BY DEF TypeOK, DiskRecord, Never
  <2>3. ASSUME NEW m \in Models
        PROVE  disk.modelCooldowns[m].until =
                 IF modelCooled(m)' THEN modelCooldowns'[m].until ELSE 0
    <3>1. modelCooldowns'[m] = IF disk.modelCooldowns[m].until > 0
                               THEN disk.modelCooldowns[m] ELSE NoCooldown
      BY <2>1 DEF loadedCooldowns
    <3>2. disk.modelCooldowns[m].until \in Nat
      BY DEF TypeOK, DiskRecord, ModelCooldown
    <3> QED BY <3>1, <3>2
            DEF modelCooled, Present, NoCooldown, DiskCooldownsNamed
  <2> QED BY <2>1, <2>2, <2>3 DEF SavedInv
<1>3. CASE ~dirty /\ Tick
  <2>0. SavedInv /\ ~dirty
    BY <1>3
  <2>1. /\ disk'.until = Elapse(disk.until) /\ until' = Elapse(until)
        /\ disk'.degradeUntil = Elapse(disk.degradeUntil)
        /\ degradeUntil' = Elapse(degradeUntil)
        /\ disk'.breakerUntil = Elapse(disk.breakerUntil)
        /\ breakerUntil' = Elapse(breakerUntil)
        /\ disk'.disabled = disk.disabled
        /\ disk'.manualDisabled = disk.manualDisabled
        /\ UNCHANGED <<disabled, manualDisabled>>
    BY <1>3 DEF Tick, elapsedDisk, systemVars
  <2>2. ASSUME NEW m \in Models
        PROVE  disk'.modelCooldowns[m].until =
                 IF modelCooled(m)' THEN modelCooldowns'[m].until ELSE 0
    <3>1. /\ disk'.modelCooldowns[m].until = Elapse(disk.modelCooldowns[m].until)
          /\ modelCooldowns'[m].until = Elapse(modelCooldowns[m].until)
          /\ modelCooldowns'[m].reason = modelCooldowns[m].reason
      BY <1>3 DEF Tick, elapsedDisk, elapsedCooldowns
    <3>2. modelCooldowns[m].until \in Nat
      BY DEF TypeOK, ModelCooldown
    <3>3. disk.modelCooldowns[m].until =
            IF modelCooled(m) THEN modelCooldowns[m].until ELSE 0
      BY <2>0 DEF SavedInv
    <3> QED BY <3>1, <3>2, <3>3 DEF modelCooled, Present, Elapse
  <2>3. breakerUntil \in Int /\ disk.breakerUntil \in Int
    BY DEF TypeOK, DiskRecord, Never
  <2>4. \/ disk'.breakerUntil = breakerUntil'
        \/ disk'.breakerUntil <= 0 /\ breakerUntil' <= 0
    BY <2>0, <2>1, <2>3 DEF SavedInv, Elapse
  <2>5. /\ disk'.until = until' /\ disk'.degradeUntil = degradeUntil'
        /\ disk'.disabled = disabled' /\ disk'.manualDisabled = manualDisabled'
    BY <2>0, <2>1 DEF SavedInv
  <2> QED BY <2>2, <2>4, <2>5 DEF SavedInv
<1>4. CASE ~dirty /\ PruneExpiredModelCooldowns
  <2>1. /\ UNCHANGED <<disk, until, degradeUntil, breakerUntil, disabled,
                       manualDisabled>>
        /\ modelCooldowns' = [m \in Models |-> IF modelCooled(m)
                                THEN modelCooldowns[m] ELSE NoCooldown]
    BY <1>4 DEF PruneExpiredModelCooldowns, breakerVars, degradeVars, systemVars
  <2>2. ASSUME NEW m \in Models
        PROVE  disk'.modelCooldowns[m].until =
                 IF modelCooled(m)' THEN modelCooldowns'[m].until ELSE 0
    <3>1. modelCooldowns'[m] = IF modelCooled(m) THEN modelCooldowns[m]
                               ELSE NoCooldown
      BY <2>1
    <3>2. disk'.modelCooldowns[m].until =
            IF modelCooled(m) THEN modelCooldowns[m].until ELSE 0
      BY <1>4, <2>1 DEF SavedInv
    <3> QED BY <3>1, <3>2 DEF modelCooled, Present, NoCooldown
  <2> QED BY <1>4, <2>1, <2>2 DEF SavedInv
<1>5. CASE ~dirty /\ UNCHANGED vars
  <2>1. UNCHANGED <<disk, dirty, until, degradeUntil, breakerUntil, disabled,
                    manualDisabled, modelCooldowns>>
    BY <1>5 DEF vars, memoryVars, coolVars, breakerVars, degradeVars, systemVars
  <2> QED BY <1>5, <2>1 DEF SavedInv, modelCooled, Present
<1>6. CASE Flush \/ SyncToDir
  BY <1>1, <1>6 DEF Flush, SyncToDir, saveLocked
<1>7. (Tick \/ PruneExpiredModelCooldowns \/ UNCHANGED vars) => ~dirty
  BY DEF Tick, PruneExpiredModelCooldowns, vars
<1> QED BY <1>2, <1>3, <1>4, <1>5, <1>6, <1>7, DirtyFrame

(* A process that dies when the pool is clean and reloads state.json gives  *)
(* every model the same verdict on the account as before, whatever the      *)
(* thresholds and durations, as long as writing the file does not fail.     *)
THEOREM RestartCorrect ==
    ASSUME SaveMayFail = FALSE PROVE Spec => []RestartKeepsVerdict
<1>1. Init => SavedInv /\ DiskCooldownsNamed
  <2> SUFFICES ASSUME Init PROVE SavedInv /\ DiskCooldownsNamed
    OBVIOUS
  <2>1. /\ until = 0 /\ degradeUntil = 0 /\ breakerUntil = -1
        /\ disabled = FALSE /\ manualDisabled = FALSE
        /\ disk.until = 0 /\ disk.degradeUntil = 0 /\ disk.breakerUntil = -1
        /\ disk.disabled = FALSE /\ disk.manualDisabled = FALSE
    BY DEF Init, ZeroState, Never
  <2>2. /\ modelCooldowns = NoModelCooldowns
        /\ disk.modelCooldowns = NoModelCooldowns
    BY DEF Init, ZeroState
  <2>3. \A m \in Models : NoModelCooldowns[m] = NoCooldown
    BY DEF NoModelCooldowns
  <2>4. NoCooldown.until = 0 /\ NoCooldown.reason = "none"
    BY DEF NoCooldown
  <2>5. \A m \in Models : ~modelCooled(m)
    BY <2>2, <2>3, <2>4 DEF modelCooled, Present
  <2>6. \A m \in Models : disk.modelCooldowns[m].until = 0
    BY <2>2, <2>3, <2>4
  <2>7. SavedInv
    BY <2>1, <2>5, <2>6 DEF SavedInv
  <2>8. DiskCooldownsNamed
    BY <2>6 DEF DiskCooldownsNamed
  <2> QED BY <2>7, <2>8
<1>2. TypeOK /\ SavedInv /\ DiskCooldownsNamed /\ [Next]_vars
        => SavedInv' /\ DiskCooldownsNamed'
  BY SavedStep, DiskNamedStep
<1>3. ASSUME TypeOK, SavedInv PROVE RestartKeepsVerdict
  <2> SUFFICES ASSUME HasStateFile, ~dirty PROVE RestartKeepsVerdict
    BY DEF RestartKeepsVerdict
  <2>1. breakerUntil \in Int /\ disk.breakerUntil \in Int
    BY <1>3 DEF TypeOK, DiskRecord, Never
  <2>2. healthyAfterRestart <=> healthy
    BY <1>3, <2>1 DEF SavedInv, healthyAfterRestart, healthy, healthyIn
  <2>3. ASSUME NEW m \in Models
        PROVE  loadedCooldowns[m].until = 0 <=> ~modelCooled(m)
    <3>1. /\ disk.modelCooldowns[m].until \in Nat
          /\ modelCooldowns[m].until \in Nat
      BY <1>3 DEF TypeOK, DiskRecord, ModelCooldown
    <3>2. disk.modelCooldowns[m].until =
            IF modelCooled(m) THEN modelCooldowns[m].until ELSE 0
      BY <1>3 DEF SavedInv
    <3>3. loadedCooldowns[m].until = disk.modelCooldowns[m].until
      BY <3>1 DEF loadedCooldowns, NoCooldown
    <3> QED BY <3>1, <3>2, <3>3 DEF modelCooled
  <2> QED BY <2>2, <2>3 DEF RestartKeepsVerdict, healthyForModel
<1> QED BY <1>1, <1>2, <1>3, TypeCorrect, PTL DEF Spec

-----------------------------------------------------------------------------
(* Cooling.                                                                 *)

(* What cooling of a kind may have left at an hour of the day.              *)
CoolingFits(kind, left, hour) ==
    left > 0 =>
        \/ /\ kind = "hard" /\ left <= Day
           /\ hour + left \in {Four, Day + Four}
        \/ kind = "soft" /\ left <= SoftRateMax
        \/ kind = "soft" /\ \E d \in FixedCooldowns : left <= d

(* The strengthening: the file's cooling fits too, at the same hour.        *)
CoolingInv ==
    /\ CoolingFits(coolKind, until, timeOfDay)
    /\ CoolingFits(disk.coolKind, disk.until, timeOfDay)

(* Only these actions touch the cooling or the clock.                       *)
LEMMA CoolingFrame ==
    ASSUME [Next]_vars
    PROVE  \/ UNCHANGED <<until, coolKind, timeOfDay>>
           \/ CooldownFixed \/ CooldownUntilTomorrow4AM \/ CooldownSoftRate
           \/ \E r \in ResetOffsets : CooldownSoftRateUntil(r)
           \/ until' = 0 /\ UNCHANGED timeOfDay
           \/ Restart \/ Tick
BY DEF Next, Outcome, Operator, vars, memoryVars, coolVars, Touch, disable,
       clearCooling, CooldownSoftForModel, BlockModelBackoff,
       setModelCooldown, BlockModelClear, NoteError, NoteFailures,
       NoteSuccess, NoteSessionDead, ClearSessionDead, Disable,
       ReviveDisabled, SetManualDisabled, ReenableIfCredits,
       PruneExpiredModelCooldowns, Flush, SyncToDir

(* Cooling that fits still fits a tick later, past midnight too.            *)
LEMMA CoolingElapses ==
    ASSUME NEW kind, NEW left \in Nat, NEW hour \in 0..(Day - 1),
           CoolingFits(kind, left, hour)
    PROVE  CoolingFits(kind, Elapse(left),
                       IF hour + 1 = Day THEN 0 ELSE hour + 1)
<1> DEFINE next == IF hour + 1 = Day THEN 0 ELSE hour + 1
<1>1. Elapse(left) \in Nat /\ (left > 0 => Elapse(left) = left - 1)
      /\ (left = 0 => Elapse(left) = 0)
  BY DEF Elapse
<1>2. CASE left = 0
  BY <1>1, <1>2 DEF CoolingFits
<1>3. CASE left > 0 /\ kind = "hard" /\ left <= Day
           /\ hour + left \in {Four, Day + Four}
  <2>1. Elapse(left) > 0 => next + Elapse(left) \in {Four, Day + Four}
    BY <1>1, <1>3, DurationAssumption
  <2> QED BY <1>1, <1>3, <2>1, DurationAssumption DEF CoolingFits
<1>4. CASE left > 0 /\ kind = "soft" /\ left <= SoftRateMax
  BY <1>1, <1>4, DurationAssumption DEF CoolingFits
<1>5. CASE left > 0 /\ kind = "soft" /\ \E d \in FixedCooldowns : left <= d
  <2>1. PICK d \in FixedCooldowns : left <= d
    BY <1>5
  <2>2. Elapse(left) <= d
    BY <1>1, <1>5, <2>1, DurationAssumption
  <2> QED BY <1>5, <2>2 DEF CoolingFits
<1> QED BY <1>2, <1>3, <1>4, <1>5 DEF CoolingFits

(* Each action keeps the cooling within its rule.                           *)
LEMMA CoolingStep ==
    ASSUME TypeOK, CoolingInv, [Next]_vars PROVE CoolingInv'
<1>1. /\ until \in Nat /\ disk.until \in Nat /\ timeOfDay \in 0..(Day - 1)
      /\ softStreak \in Nat
  BY DEF TypeOK, DiskRecord
<1>2. /\ CoolingFits(coolKind, until, timeOfDay)
      /\ CoolingFits(disk.coolKind, disk.until, timeOfDay)
  BY DEF CoolingInv
<1>3. CoolingFits(coolKind', until', timeOfDay')
  <2>1. CASE UNCHANGED <<until, coolKind, timeOfDay>>
    BY <2>1, <1>2
  <2>2. CASE CooldownFixed
    <3>1. PICK d \in FixedCooldowns : until' = d /\ coolKind' = "soft"
      BY <2>2 DEF CooldownFixed, Cooldown
    <3>2. until' <= d
      BY <3>1, DurationAssumption
    <3> QED BY <3>1, <3>2 DEF CoolingFits
  <2>3. CASE CooldownUntilTomorrow4AM
    <3>1. until' = nextDay4AM /\ coolKind' = "hard" /\ timeOfDay' = timeOfDay
      BY <2>3 DEF CooldownUntilTomorrow4AM, Cooldown, Touch
    <3>2. /\ nextDay4AM <= Day
          /\ timeOfDay + nextDay4AM \in {Four, Day + Four}
      BY <1>1, DurationAssumption DEF nextDay4AM
    <3> QED BY <3>1, <3>2 DEF CoolingFits
  <2>4. CASE CooldownSoftRate
    <3>1. coolKind' = "soft" /\ timeOfDay' = timeOfDay
      BY <2>4 DEF CooldownSoftRate, coolSoftly, Touch
    <3>2. CASE until' = softDuration(softStreak + 1)
      <4>1. softStreak + 1 \in Nat
        BY <1>1
      <4>2. softDuration(softStreak + 1) \in 1..SoftRateMax
        BY <4>1, BackoffDurations
      <4>3. until' <= SoftRateMax
        BY <3>2, <4>2, DurationAssumption
      <4> QED BY <3>1, <4>3 DEF CoolingFits
    <3>3. CASE coolKind = "soft" /\ until' = until
      BY <3>1, <3>3, <1>2 DEF CoolingFits
    <3> QED BY <2>4, <3>2, <3>3 DEF CooldownSoftRate, softBackoff
  <2>5. ASSUME NEW r \in ResetOffsets, CooldownSoftRateUntil(r)
        PROVE  CoolingFits(coolKind', until', timeOfDay')
    <3>1. coolKind' = "soft" /\ until' = cappedSoftUntil(r)
      BY <2>5 DEF CooldownSoftRateUntil, coolSoftly
    <3>2. cappedSoftUntil(r) \in 1..SoftRateMax
      BY BackoffDurations, DurationAssumption
    <3>3. until' <= SoftRateMax
      BY <3>1, <3>2, DurationAssumption
    <3> QED BY <3>1, <3>3 DEF CoolingFits
  <2>6. CASE until' = 0
    BY <2>6 DEF CoolingFits
  <2>7. CASE Restart
    <3>1. until' = disk.until /\ coolKind' = disk.coolKind
          /\ timeOfDay' = timeOfDay
      BY <2>7 DEF Restart
    <3> QED BY <3>1, <1>2
  <2>8. CASE Tick
    <3>1. /\ until' = Elapse(until) /\ coolKind' = coolKind
          /\ timeOfDay' = IF timeOfDay + 1 = Day THEN 0 ELSE timeOfDay + 1
      BY <2>8 DEF Tick
    <3> QED BY <3>1, <1>1, <1>2, CoolingElapses
  <2> QED BY <2>1, <2>2, <2>3, <2>4, <2>5, <2>6, <2>7, <2>8, CoolingFrame
<1>4. CoolingFits(disk'.coolKind, disk'.until, timeOfDay')
  <2>1. CASE UNCHANGED <<disk, timeOfDay>>
    BY <2>1, <1>2
  <2>2. CASE disk' = stateOverview /\ UNCHANGED timeOfDay
    <3>1. /\ disk'.until = until
          /\ until > 0 => disk'.coolKind = coolKind
      BY <2>2 DEF stateOverview
    <3> QED BY <2>2, <3>1, <1>2 DEF CoolingFits
  <2>3. CASE Tick
    <3>1. /\ disk'.until = Elapse(disk.until) /\ disk'.coolKind = disk.coolKind
          /\ timeOfDay' = IF timeOfDay + 1 = Day THEN 0 ELSE timeOfDay + 1
      BY <2>3 DEF Tick, elapsedDisk
    <3> QED BY <3>1, <1>1, <1>2, CoolingElapses
  <2>4. UNCHANGED timeOfDay \/ Tick
    BY CoolingFrame DEF CooldownFixed, CooldownUntilTomorrow4AM, Cooldown,
       CooldownSoftRate, CooldownSoftRateUntil, coolSoftly, Touch, Restart
  <2> QED BY <2>1, <2>2, <2>3, <2>4, DiskFrame
<1> QED BY <1>3, <1>4 DEF CoolingInv

(* A credit-exhausted account cools to the next 04:00, whatever the length  *)
(* of the day, the hour of the 402 and the restarts in between              *)
(* (nextDay4AM, applyAccountsLocked).                                       *)
THEOREM HardCoolingCorrect == Spec => []HardCoolingEndsAtFour
<1>1. Init => CoolingInv
  BY DEF Init, ZeroState, CoolingInv, CoolingFits
<1>2. TypeOK /\ CoolingInv /\ [Next]_vars => CoolingInv'
  BY CoolingStep
<1>3. CoolingInv => HardCoolingEndsAtFour
  BY DEF CoolingInv, CoolingFits, HardCoolingEndsAtFour
<1> QED BY <1>1, <1>2, <1>3, TypeCorrect, PTL DEF Spec

-----------------------------------------------------------------------------
(* The caps of all penalties.                                               *)

(* A model's cooldown is within one of the two caps.                        *)
ModelCapped(t) == t <= SoftRateMax \/ t <= BlockMaxTTL

(* The remaining strengthening: degradation and model cooldowns respect     *)
(* their caps in memory and in the file.                                    *)
CapInv ==
    /\ degradeUntil <= degradeDuration
    /\ disk.degradeUntil <= degradeDuration
    /\ \A m \in Models : /\ ModelCapped(modelCooldowns[m].until)
                         /\ ModelCapped(disk.modelCooldowns[m].until)

(* Only these actions touch the degradation.                                *)
LEMMA DegradeFrame ==
    ASSUME [Next]_vars
    PROVE  \/ UNCHANGED degradeUntil
           \/ NoteFailures \/ NoteSuccess \/ Restart \/ Tick
BY DEF Next, Outcome, Operator, vars, memoryVars, degradeVars, CooldownFixed,
       CooldownUntilTomorrow4AM, Cooldown, CooldownSoftRate, coolSoftly,
       CooldownSoftRateUntil, CooldownSoftForModel, BlockModelBackoff,
       setModelCooldown, BlockModelClear, NoteError, NoteSessionDead,
       ClearSessionDead, Disable, ReviveDisabled, SetManualDisabled,
       ReenableIfCredits, PruneExpiredModelCooldowns, Flush, SyncToDir

(* The cooldowns of models are kept, cleared, set for one model, pruned,    *)
(* loaded or brought one tick closer.                                       *)
LEMMA ModelCooldownFrame ==
    ASSUME [Next]_vars
    PROVE  \/ UNCHANGED modelCooldowns
           \/ modelCooldowns' = NoModelCooldowns
           \/ \E m \in Models, r \in ResetOffsets : CooldownSoftForModel(m, r)
           \/ \E m \in Models : BlockModelBackoff(m)
           \/ \E m \in Models : BlockModelClear(m)
           \/ PruneExpiredModelCooldowns
           \/ Restart \/ Tick
BY DEF Next, Outcome, Operator, vars, memoryVars, coolVars, CooldownFixed,
       CooldownUntilTomorrow4AM, Cooldown, CooldownSoftRate, coolSoftly,
       CooldownSoftRateUntil, NoteError, NoteFailures, NoteSuccess,
       NoteSessionDead, ClearSessionDead, Disable, disable, clearCooling,
       ReviveDisabled, SetManualDisabled, ReenableIfCredits, Flush, SyncToDir

(* Each action keeps the degradation and the model cooldowns capped.        *)
LEMMA CapStep ==
    ASSUME TypeOK, CapInv, [Next]_vars PROVE CapInv'
<1>1. /\ degradeUntil \in Nat /\ disk.degradeUntil \in Nat
      /\ degradeDuration \in Nat \ {0}
  BY BackoffDurations DEF TypeOK, DiskRecord
<1>2. \A m \in Models : /\ modelCooldowns[m].until \in Nat
                        /\ modelCooldowns[m].hits \in Nat
                        /\ disk.modelCooldowns[m].until \in Nat
  BY DEF TypeOK, DiskRecord, ModelCooldown
<1>3. /\ degradeUntil <= degradeDuration
      /\ disk.degradeUntil <= degradeDuration
      /\ \A m \in Models : /\ ModelCapped(modelCooldowns[m].until)
                           /\ ModelCapped(disk.modelCooldowns[m].until)
  BY DEF CapInv
<1>4. NoCooldown.until = 0 /\ ModelCapped(0)
  BY DurationAssumption DEF NoCooldown, ModelCapped
<1>5. \A t \in Nat : ModelCapped(t) => ModelCapped(Elapse(t))
  BY DurationAssumption DEF ModelCapped, Elapse
<1>6. degradeUntil' <= degradeDuration
  <2>1. CASE UNCHANGED degradeUntil
    BY <2>1, <1>3
  <2>2. CASE NoteFailures
    BY <2>2, <1>1, <1>3 DEF NoteFailures
  <2>3. CASE NoteSuccess
    BY <2>3, <1>1 DEF NoteSuccess
  <2>4. CASE Restart
    BY <2>4, <1>3 DEF Restart
  <2>5. CASE Tick
    BY <2>5, <1>1, <1>3 DEF Tick, Elapse
  <2> QED BY <2>1, <2>2, <2>3, <2>4, <2>5, DegradeFrame
<1>7. disk'.degradeUntil <= degradeDuration
  <2>1. CASE UNCHANGED disk
    BY <2>1, <1>3
  <2>2. CASE disk' = stateOverview
    BY <2>2, <1>3 DEF stateOverview
  <2>3. CASE Tick
    <3>1. disk'.degradeUntil = Elapse(disk.degradeUntil)
      BY <2>3 DEF Tick, elapsedDisk
    <3> QED BY <3>1, <1>1, <1>3 DEF Elapse
  <2> QED BY <2>1, <2>2, <2>3, DiskFrame
<1>8. ASSUME NEW m \in Models PROVE ModelCapped(modelCooldowns'[m].until)
  <2>1. CASE UNCHANGED modelCooldowns
    BY <2>1, <1>3
  <2>2. CASE modelCooldowns' = NoModelCooldowns
    BY <2>2, <1>4 DEF NoModelCooldowns
  <2>3. ASSUME NEW n \in Models, NEW t \in Nat, NEW why, NEW h,
               ModelCapped(t), setModelCooldown(n, t, why, h)
        PROVE  ModelCapped(modelCooldowns'[m].until)
    <3>1. modelCooldowns'[m].until = IF m = n THEN t
                                     ELSE modelCooldowns[m].until
      BY <2>3 DEF setModelCooldown, TypeOK
    <3> QED BY <2>3, <3>1, <1>3
  <2>4. ASSUME NEW n \in Models, NEW r \in ResetOffsets,
               CooldownSoftForModel(n, r)
        PROVE  ModelCapped(modelCooldowns'[m].until)
    <3>1. cappedSoftUntil(r) \in Nat /\ cappedSoftUntil(r) <= SoftRateMax
      BY BackoffDurations, DurationAssumption
    <3> QED BY <2>3, <2>4, <3>1 DEF CooldownSoftForModel, ModelCapped
  <2>5. ASSUME NEW n \in Models, BlockModelBackoff(n)
        PROVE  ModelCapped(modelCooldowns'[m].until)
    <3> DEFINE h == modelCooldowns[n].hits + 1
    <3>1. h \in Nat \ {0}
      BY <1>2
    <3>2. setModelCooldown(n, blockTTL(h), "11102", h)
      BY <2>5 DEF BlockModelBackoff
    <3> HIDE DEF h
    <3>3. blockTTL(h) \in Nat /\ blockTTL(h) <= BlockMaxTTL
      BY <3>1, BackoffDurations, DurationAssumption
    <3> QED BY <2>3, <3>2, <3>3 DEF ModelCapped
  <2>6. ASSUME NEW n \in Models, BlockModelClear(n)
        PROVE  ModelCapped(modelCooldowns'[m].until)
    <3>1. modelCooldowns'[m] = IF m = n THEN NoCooldown ELSE modelCooldowns[m]
      BY <2>6 DEF BlockModelClear, TypeOK
    <3> QED BY <3>1, <1>3, <1>4
  <2>7. CASE PruneExpiredModelCooldowns
    <3>1. \/ modelCooldowns'[m] = modelCooldowns[m]
          \/ modelCooldowns'[m] = NoCooldown
      BY <2>7 DEF PruneExpiredModelCooldowns
    <3> QED BY <3>1, <1>3, <1>4
  <2>8. CASE Restart
    <3>1. \/ modelCooldowns'[m] = disk.modelCooldowns[m]
          \/ modelCooldowns'[m] = NoCooldown
      BY <2>8 DEF Restart, loadedCooldowns
    <3> QED BY <3>1, <1>3, <1>4
  <2>9. CASE Tick
    <3>1. modelCooldowns'[m].until = Elapse(modelCooldowns[m].until)
      BY <2>9 DEF Tick, elapsedCooldowns
    <3> QED BY <3>1, <1>2, <1>3, <1>5
  <2> QED BY <2>1, <2>2, <2>4, <2>5, <2>6, <2>7, <2>8, <2>9,
             ModelCooldownFrame
<1>9. ASSUME NEW m \in Models PROVE ModelCapped(disk'.modelCooldowns[m].until)
  <2>1. CASE UNCHANGED disk
    BY <2>1, <1>3
  <2>2. CASE disk' = stateOverview
    <3>1. \/ disk'.modelCooldowns[m].until = modelCooldowns[m].until
          \/ disk'.modelCooldowns[m].until = 0
      BY <2>2 DEF stateOverview, NoCooldown
    <3> QED BY <3>1, <1>3, <1>4
  <2>3. CASE Tick
    <3>1. disk'.modelCooldowns[m].until = Elapse(disk.modelCooldowns[m].until)
      BY <2>3 DEF Tick, elapsedDisk, elapsedCooldowns
    <3> QED BY <3>1, <1>2, <1>3, <1>5
  <2> QED BY <2>1, <2>2, <2>3, DiskFrame
<1> QED BY <1>6, <1>7, <1>8, <1>9 DEF CapInv

(* No penalty outlasts its cap, however the doublings, restarts and clocks  *)
(* combine (softDurationLocked, recordBreakerFailureLocked, NoteFailures,   *)
(* BlockModelBackoff).                                                      *)
THEOREM PenaltiesCorrect == Spec => []PenaltiesBounded
<1>1. Init => CapInv /\ CoolingInv
  <2> SUFFICES ASSUME Init PROVE CapInv /\ CoolingInv
    OBVIOUS
  <2>1. CoolingInv
    BY DEF Init, ZeroState, CoolingInv, CoolingFits
  <2>2. /\ degradeUntil = 0 /\ disk.degradeUntil = 0
        /\ modelCooldowns = NoModelCooldowns
        /\ disk.modelCooldowns = NoModelCooldowns
    BY DEF Init, ZeroState
  <2>3. \A m \in Models : NoModelCooldowns[m].until = 0
    BY DEF NoModelCooldowns, NoCooldown
  <2>4. ModelCapped(0) /\ 0 <= degradeDuration
    BY DurationAssumption, BackoffDurations DEF ModelCapped
  <2> QED BY <2>1, <2>2, <2>3, <2>4 DEF CapInv
<1>2. TypeOK /\ CapInv /\ CoolingInv /\ [Next]_vars => CapInv' /\ CoolingInv'
  BY CapStep, CoolingStep
<1>3. ASSUME TypeOK, BreakerInv, CapInv, CoolingInv PROVE PenaltiesBounded
  <2>1. breakerUntil <= BreakerCooldownMax
    <3>1. breakerUntil \in Nat \cup {-1} /\ retryCount \in 0..MaxRetry
      BY <1>3 DEF TypeOK, Never
    <3>2. CASE retryCount = 0
      BY <3>2, <1>3, DurationAssumption DEF BreakerInv, BreakerConsistent, Never
    <3>3. CASE retryCount > 0
      <4>1. retryCount - 1 \in 0..MaxRetry
        BY <3>1, <3>3, BoundAssumption
      <4>2. breakerDuration(retryCount - 1) \in 1..BreakerCooldownMax
        BY <4>1, BackoffDurations
      <4>3. breakerUntil <= breakerDuration(retryCount - 1)
        BY <1>3, <3>3 DEF BreakerInv
      <4> QED BY <3>1, <4>2, <4>3, DurationAssumption
    <3> QED BY <3>1, <3>2, <3>3, BoundAssumption
  <2>2. degradeUntil <= degradeDuration
    BY <1>3 DEF CapInv
  <2>3. \A m \in Models : modelCooldowns[m].until <= SoftRateMax
                          \/ modelCooldowns[m].until <= BlockMaxTTL
    BY <1>3 DEF CapInv, ModelCapped
  <2>4. until > 0 =>
          \/ coolKind = "hard" /\ until <= Day
          \/ coolKind = "soft" /\ until <= SoftRateMax
          \/ coolKind = "soft" /\ \E d \in FixedCooldowns : until <= d
    BY <1>3 DEF CoolingInv, CoolingFits
  <2> QED BY <2>1, <2>2, <2>3, <2>4 DEF PenaltiesBounded
<1> QED BY <1>1, <1>2, <1>3, BreakerCorrect, PTL DEF Spec
-----------------------------------------------------------------------------
(* The credential file.                                                     *)

PCs == Waiting \cup Inside \cup Outside

Record == [pc : PCs, cred : 0..MaxCred, disabled : BOOLEAN,
           credits : Balances, read : BOOLEAN]

(* The jobs' records and the lock agree.                                    *)
LockInv ==
    /\ worker \in [Workers -> Record]
    /\ \A w \in Workers : worker[w].pc \in Inside <=> lock = w

(* A step of a job: it takes the lock, keeps it, leaves it, or has nothing  *)
(* to do with it; and only the holder of the lock writes the file.          *)
Move(w, rec) ==
    /\ rec \in Record /\ Goes(w, rec)
    /\ \/ /\ worker[w].pc \notin Inside /\ rec.pc \notin Inside
          /\ lock' = lock
       \/ worker[w].pc \in Inside /\ rec.pc \in Inside /\ lock' = lock
       \/ lock = None /\ lock' = w /\ rec.pc \in Inside
       \/ worker[w].pc \in Inside /\ rec.pc \notin Inside /\ lock' = None
    /\ file' = file \/ worker[w].pc \in Inside

(* The step that brings a job where it may delete or save the file.         *)
Arrival(w, rec) ==
    /\ rec.pc = "confirm" => reconcileCredits(w)
    /\ rec.pc = "delete" => confirmExhausted(w)
    /\ rec.pc = "remove" => deleteAuth(w)
    /\ rec.pc = "saveDisabled" => disableAuth(w) \/ remove(w)
    /\ rec.pc = "saveNote" => syncAuthNoteLocked(w)
    /\ rec.pc = "saveTokens" => persistAuthTokens(w)
    /\ rec.pc = "saveDead" => markSessionDead(w)

(* A job that is done is idle and has a record.                             *)
LEMMA IdleRecord == Idle \in Record /\ Idle.pc = "idle"
BY AuthFileAssumption DEF Idle, Record, PCs, Outside, Balances

(* Every move keeps the lock with whoever is inside.                        *)
LEMMA MoveKeepsLock ==
    ASSUME LockInv, NEW w \in Workers, NEW rec, Move(w, rec)
    PROVE  LockInv'
<1>1. /\ worker' = [worker EXCEPT ![w] = rec] /\ rec \in Record
      /\ worker \in [Workers -> Record]
  BY DEF Move, Goes, LockInv
<1>2. worker' \in [Workers -> Record]
  BY <1>1
<1>3. /\ worker'[w] = rec
      /\ \A v \in Workers : v /= w => worker'[v] = worker[v]
  BY <1>1
<1>4. \A v \in Workers : worker[v].pc \in Inside <=> lock = v
  BY DEF LockInv
<1>5. ASSUME NEW v \in Workers PROVE worker'[v].pc \in Inside <=> lock' = v
  <2>1. CASE v = w
    BY <2>1, <1>3, <1>4, AuthFileAssumption DEF Move
  <2>2. CASE v /= w
    BY <2>2, <1>3, <1>4, AuthFileAssumption DEF Move
  <2> QED BY <2>1, <2>2
<1> QED BY <1>2, <1>5 DEF LockInv

(* The types that the steps of a job rely on.                               *)
TypeInv ==
    /\ LockInv
    /\ region \in Regions
    /\ file \in [exists : BOOLEAN, cred : 0..MaxCred, disabled : BOOLEAN]
    /\ lock \in Workers \cup {None}

Free == Waiting \cup Outside

(* A job that is not inside a section is free, and conversely.              *)
LEMMA FreeIsNotInside ==
    /\ \A p \in Free : p \notin Inside
    /\ PCs = Free \cup Inside
BY DEF Free, Waiting, Outside, Inside, PCs

(* A step that leaves the lock and the file alone.                          *)
LEMMA OutsideMove ==
    ASSUME NEW w \in Workers, NEW rec \in Record, Goes(w, rec),
           worker[w].pc \in Free, rec.pc \in Free,
           rec.pc /= "confirm", rec.pc /= "delete",
           lock' = lock, file' = file
    PROVE  Move(w, rec) /\ Arrival(w, rec)
<1>1. Move(w, rec)
  BY FreeIsNotInside DEF Move
<1>2. Arrival(w, rec)
  BY DEF Arrival, Free, Waiting, Outside
<1> QED BY <1>1, <1>2

(* A step that ends a section.                                              *)
LEMMA LeavingMove ==
    ASSUME NEW w \in Workers, NEW rec \in Record, Goes(w, rec),
           worker[w].pc \in Inside, rec.pc \in {"idle", "bundle"}, lock' = None
    PROVE  Move(w, rec) /\ Arrival(w, rec)
BY DEF Move, Arrival, Inside

(* Every step of a job is a move, and arrives where Arrival says.           *)
LEMMA JobMoves ==
    ASSUME TypeInv, NEW w \in Workers, Start(w) \/ Enter(w) \/ Advance(w)
    PROVE  \E rec : Move(w, rec) /\ Arrival(w, rec)
<1> DEFINE Goal == \E rec : Move(w, rec) /\ Arrival(w, rec)
<1>1. worker[w] \in Record
  BY DEF TypeInv, LockInv
<1>2. file.cred \in 0..MaxCred /\ file.disabled \in BOOLEAN
  BY DEF TypeInv
<1>3. \A p \in PCs : Step(w, p) \in Record /\ Step(w, p).pc = p
  BY <1>1 DEF Step, Record
<1>4. Free \subseteq PCs /\ Inside \subseteq PCs
  BY DEF PCs, Free
<1>5. ASSUME NEW rec \in Record, Goes(w, rec), worker[w].pc \in Free,
             rec.pc \in Free, rec.pc /= "confirm", rec.pc /= "delete",
             lock' = lock, file' = file
      PROVE  Goal
  BY <1>5, OutsideMove
<1>6. ASSUME NEW rec \in Record, Goes(w, rec), worker[w].pc \in Inside,
             rec.pc \in {"idle", "bundle"}, lock' = None
      PROVE  Goal
  BY <1>6, LeavingMove
<1>7. CASE processAutoCheckinAccount(w)
  <2>1. worker[w].pc \in Free
    BY <1>7 DEF processAutoCheckinAccount, At, Free, Waiting, Outside
  <2>2. CASE Goes(w, Step(w, "checkin")) /\ lock' = lock /\ file' = file
    <3>1. Step(w, "checkin") \in Record /\ Step(w, "checkin").pc = "checkin"
      BY <1>3, <1>4 DEF Free, Waiting, Outside, Inside
    <3> QED BY <1>5, <2>1, <2>2, <3>1 DEF Free, Waiting, Outside
  <2>3. CASE Goes(w, Step(w, "bundle")) /\ lock' = lock /\ file' = file
    <3>1. Step(w, "bundle") \in Record /\ Step(w, "bundle").pc = "bundle"
      BY <1>3, <1>4 DEF Free, Waiting, Outside, Inside
    <3> QED BY <1>5, <2>1, <2>3, <3>1 DEF Free, Waiting, Outside
  <2> QED BY <1>7, <2>2, <2>3
          DEF processAutoCheckinAccount, shared
<1>8. CASE checkinOneAccount(w)
  <2>1. worker[w].pc \in Free
    BY <1>8 DEF checkinOneAccount, At, Free, Waiting, Outside
  <2>2. CASE /\ Goes(w, Step(w, "checkinOnly"))
             /\ lock' = lock /\ file' = file
    <3>1. Step(w, "checkinOnly") \in Record /\ Step(w, "checkinOnly").pc = "checkinOnly"
      BY <1>3, <1>4 DEF Free, Waiting, Outside, Inside
    <3> QED BY <1>5, <2>1, <2>2, <3>1 DEF Free, Waiting, Outside
  <2> QED BY <1>8, <2>2
          DEF checkinOneAccount, shared
<1>9. CASE reconcileAfterExecutorError(w)
  <2>1. worker[w].pc \in Free
    BY <1>9 DEF reconcileAfterExecutorError, At, Free, Waiting, Outside
  <2>2. CASE Goes(w, Step(w, "bundle")) /\ lock' = lock /\ file' = file
    <3>1. Step(w, "bundle") \in Record /\ Step(w, "bundle").pc = "bundle"
      BY <1>3, <1>4 DEF Free, Waiting, Outside, Inside
    <3> QED BY <1>5, <2>1, <2>2, <3>1 DEF Free, Waiting, Outside
  <2> QED BY <1>9, <2>2
          DEF reconcileAfterExecutorError, shared
<1>10. CASE buildDashboard(w)
  <2>1. worker[w].pc \in Free
    BY <1>10 DEF buildDashboard, At, Free, Waiting, Outside
  <2>2. CASE /\ Goes(w, [Step(w, "dashboard") EXCEPT !.cred = file.cred, !.disabled = file.disabled])
             /\ lock' = lock /\ file' = file
    <3> DEFINE rec == [Step(w, "dashboard") EXCEPT !.cred = file.cred, !.disabled = file.disabled]
    <3>1. rec \in Record /\ rec.pc = "dashboard"
      <4>1. "dashboard" \in PCs
        BY <1>4 DEF Free, Waiting, Outside, Inside
      <4> QED BY <1>1, <1>2, <1>3, <4>1 DEF Record
    <3> HIDE DEF rec
    <3>2. Goes(w, rec)
      BY <2>2 DEF rec
    <3> QED BY <1>5, <2>1, <2>2, <3>1, <3>2 DEF Free, Waiting, Outside
  <2> QED BY <1>10, <2>2
          DEF buildDashboard, shared
<1>11. CASE handleAccountToggle(w)
  <2>1. worker[w].pc \in Free
    BY <1>11 DEF handleAccountToggle, At, Free, Waiting, Outside
  <2>2. CASE /\ Goes(w, [Step(w, "toggleRead") EXCEPT !.cred = file.cred])
             /\ lock' = lock /\ file' = file
    <3> DEFINE rec == [Step(w, "toggleRead") EXCEPT !.cred = file.cred]
    <3>1. rec \in Record /\ rec.pc = "toggleRead"
      <4>1. "toggleRead" \in PCs
        BY <1>4 DEF Free, Waiting, Outside, Inside
      <4> QED BY <1>1, <1>2, <1>3, <4>1 DEF Record
    <3> HIDE DEF rec
    <3>2. Goes(w, rec)
      BY <2>2 DEF rec
    <3> QED BY <1>5, <2>1, <2>2, <3>1, <3>2 DEF Free, Waiting, Outside
  <2> QED BY <1>11, <2>2
          DEF handleAccountToggle, shared
<1>12. CASE syncAuthNote(w)
  <2>1. worker[w].pc \in Free
    BY <1>12 DEF syncAuthNote, At, Free, Waiting, Outside
  <2>2. CASE Goes(w, Idle) /\ lock' = lock /\ file' = file
    BY <1>5, <2>1, <2>2, IdleRecord DEF Free, Waiting, Outside
  <2>3. CASE Goes(w, Step(w, "note")) /\ lock' = lock /\ file' = file
    <3>1. Step(w, "note") \in Record /\ Step(w, "note").pc = "note"
      BY <1>3, <1>4 DEF Free, Waiting, Outside, Inside
    <3> QED BY <1>5, <2>1, <2>3, <3>1 DEF Free, Waiting, Outside
  <2> QED BY <1>12, <2>2, <2>3
          DEF syncAuthNote, shared
<1>13. CASE toggleRead(w)
  <2>1. worker[w].pc \in Free
    BY <1>13 DEF toggleRead, At, Free, Waiting, Outside
  <2>2. CASE /\ Goes(w, [Step(w, "toggle") EXCEPT !.disabled = file.disabled])
             /\ lock' = lock /\ file' = file
    <3> DEFINE rec == [Step(w, "toggle") EXCEPT !.disabled = file.disabled]
    <3>1. rec \in Record /\ rec.pc = "toggle"
      <4>1. "toggle" \in PCs
        BY <1>4 DEF Free, Waiting, Outside, Inside
      <4> QED BY <1>1, <1>2, <1>3, <4>1 DEF Record
    <3> HIDE DEF rec
    <3>2. Goes(w, rec)
      BY <2>2 DEF rec
    <3> QED BY <1>5, <2>1, <2>2, <3>1, <3>2 DEF Free, Waiting, Outside
  <2>3. CASE /\ Goes(w, [Step(w, "toggle") EXCEPT !.disabled = FALSE])
             /\ lock' = lock /\ file' = file
    <3> DEFINE rec == [Step(w, "toggle") EXCEPT !.disabled = FALSE]
    <3>1. rec \in Record /\ rec.pc = "toggle"
      <4>1. "toggle" \in PCs
        BY <1>4 DEF Free, Waiting, Outside, Inside
      <4> QED BY <1>1, <1>2, <1>3, <4>1 DEF Record
    <3> HIDE DEF rec
    <3>2. Goes(w, rec)
      BY <2>3 DEF rec
    <3> QED BY <1>5, <2>1, <2>3, <3>1, <3>2 DEF Free, Waiting, Outside
  <2> QED BY <1>13, <2>2, <2>3
          DEF toggleRead, shared
<1>14. CASE reconcileOneAccount(w)
  <2>1. worker[w].pc \in Free
    BY <1>14 DEF reconcileOneAccount, At, Free, Waiting, Outside
  <2>2. CASE Goes(w, Idle) /\ lock' = lock /\ file' = file
    BY <1>5, <2>1, <2>2, IdleRecord DEF Free, Waiting, Outside
  <2>3. CASE /\ Goes(w, [Step(w, "fetch") EXCEPT !.cred = file.cred, !.disabled = file.disabled])
             /\ lock' = lock /\ file' = file
    <3> DEFINE rec == [Step(w, "fetch") EXCEPT !.cred = file.cred, !.disabled = file.disabled]
    <3>1. rec \in Record /\ rec.pc = "fetch"
      <4>1. "fetch" \in PCs
        BY <1>4 DEF Free, Waiting, Outside, Inside
      <4> QED BY <1>1, <1>2, <1>3, <4>1 DEF Record
    <3> HIDE DEF rec
    <3>2. Goes(w, rec)
      BY <2>3 DEF rec
    <3> QED BY <1>5, <2>1, <2>3, <3>1, <3>2 DEF Free, Waiting, Outside
  <2> QED BY <1>14, <2>2, <2>3
          DEF reconcileOneAccount, shared
<1>15. CASE refreshOneAuth(w)
  <2>1. worker[w].pc \in Free
    BY <1>15 DEF refreshOneAuth, At, Free, Waiting, Outside
  <2>2. CASE /\ Goes(w, [Step(w, "refresh") EXCEPT !.cred = file.cred])
             /\ lock = None /\ lock' = w /\ file' = file
    <3> DEFINE rec == [Step(w, "refresh") EXCEPT !.cred = file.cred]
    <3>1. rec \in Record /\ rec.pc = "refresh"
      <4>1. "refresh" \in PCs
        BY <1>4 DEF Free, Waiting, Outside, Inside
      <4> QED BY <1>1, <1>2, <1>3, <4>1 DEF Record
    <3> HIDE DEF rec
    <3>2. Goes(w, rec)
      BY <2>2 DEF rec
    <3>3. Move(w, rec) /\ Arrival(w, rec)
      BY <1>15, <2>1, <2>2, <3>1, <3>2 DEF Move, Arrival, Inside
    <3> QED BY <3>3
  <2> QED BY <1>15, <2>2
          DEF refreshOneAuth, shared
<1>16. CASE disableAuth(w)
  <2>1. worker[w].pc \in Free
    BY <1>16 DEF disableAuth, At, Free, Waiting, Outside
  <2>2. CASE Goes(w, Idle) /\ lock' = lock /\ file' = file
    BY <1>5, <2>1, <2>2, IdleRecord DEF Free, Waiting, Outside
  <2>3. CASE /\ Goes(w, [Step(w, "saveDisabled") EXCEPT !.disabled = TRUE])
             /\ lock = None /\ lock' = w /\ file' = file
    <3> DEFINE rec == [Step(w, "saveDisabled") EXCEPT !.disabled = TRUE]
    <3>1. rec \in Record /\ rec.pc = "saveDisabled"
      <4>1. "saveDisabled" \in PCs
        BY <1>4 DEF Free, Waiting, Outside, Inside
      <4> QED BY <1>1, <1>2, <1>3, <4>1 DEF Record
    <3> HIDE DEF rec
    <3>2. Goes(w, rec)
      BY <2>3 DEF rec
    <3>3. Move(w, rec) /\ Arrival(w, rec)
      BY <1>16, <2>1, <2>3, <3>1, <3>2 DEF Move, Arrival, Inside
    <3> QED BY <3>3
  <2> QED BY <1>16, <2>2, <2>3
          DEF disableAuth, shared, enterUnlessSaved
<1>17. CASE reenableAuth(w)
  <2>1. worker[w].pc \in Free
    BY <1>17 DEF reenableAuth, At, Free, Waiting, Outside
  <2>2. CASE Goes(w, Idle) /\ lock' = lock /\ file' = file
    BY <1>5, <2>1, <2>2, IdleRecord DEF Free, Waiting, Outside
  <2>3. CASE /\ Goes(w, [Step(w, "saveEnabled") EXCEPT !.disabled = FALSE])
             /\ lock = None /\ lock' = w /\ file' = file
    <3> DEFINE rec == [Step(w, "saveEnabled") EXCEPT !.disabled = FALSE]
    <3>1. rec \in Record /\ rec.pc = "saveEnabled"
      <4>1. "saveEnabled" \in PCs
        BY <1>4 DEF Free, Waiting, Outside, Inside
      <4> QED BY <1>1, <1>2, <1>3, <4>1 DEF Record
    <3> HIDE DEF rec
    <3>2. Goes(w, rec)
      BY <2>3 DEF rec
    <3>3. Move(w, rec) /\ Arrival(w, rec)
      BY <1>17, <2>1, <2>3, <3>1, <3>2 DEF Move, Arrival, Inside
    <3> QED BY <3>3
  <2> QED BY <1>17, <2>2, <2>3
          DEF reenableAuth, shared, enterUnlessSaved
<1>18. CASE syncAuthNoteLocked(w)
  <2>1. worker[w].pc \in Free
    BY <1>18 DEF syncAuthNoteLocked, At, Free, Waiting, Outside
  <2>2. CASE Goes(w, Idle) /\ lock' = lock /\ file' = file
    BY <1>5, <2>1, <2>2, IdleRecord DEF Free, Waiting, Outside
  <2>3. CASE /\ Goes(w, [Step(w, "saveNote") EXCEPT !.disabled = file.disabled])
             /\ lock = None /\ lock' = w /\ file' = file
    <3> DEFINE rec == [Step(w, "saveNote") EXCEPT !.disabled = file.disabled]
    <3>1. rec \in Record /\ rec.pc = "saveNote"
      <4>1. "saveNote" \in PCs
        BY <1>4 DEF Free, Waiting, Outside, Inside
      <4> QED BY <1>1, <1>2, <1>3, <4>1 DEF Record
    <3> HIDE DEF rec
    <3>2. Goes(w, rec)
      BY <2>3 DEF rec
    <3>3. Move(w, rec) /\ Arrival(w, rec)
      BY <1>18, <2>1, <2>3, <3>1, <3>2 DEF Move, Arrival, Inside
    <3> QED BY <3>3
  <2>4. CASE /\ Goes(w, [Step(w, "saveNote") EXCEPT !.read = FALSE])
             /\ lock = None /\ lock' = w /\ file' = file
    <3> DEFINE rec == [Step(w, "saveNote") EXCEPT !.read = FALSE]
    <3>1. rec \in Record /\ rec.pc = "saveNote"
      <4>1. "saveNote" \in PCs
        BY <1>4 DEF Free, Waiting, Outside, Inside
      <4> QED BY <1>1, <1>2, <1>3, <4>1 DEF Record
    <3> HIDE DEF rec
    <3>2. Goes(w, rec)
      BY <2>4 DEF rec
    <3>3. Move(w, rec) /\ Arrival(w, rec)
      BY <1>18, <2>1, <2>4, <3>1, <3>2 DEF Move, Arrival, Inside
    <3> QED BY <3>3
  <2> QED BY <1>18, <2>2, <2>3, <2>4
          DEF syncAuthNoteLocked, shared, enterUnlessSaved,
              bitToKeep
<1>19. CASE deleteAuth(w)
  <2>1. worker[w].pc \in Free
    BY <1>19 DEF deleteAuth, At, Free, Waiting, Outside
  <2>2. CASE Goes(w, Idle) /\ lock' = lock /\ file' = file
    BY <1>5, <2>1, <2>2, IdleRecord DEF Free, Waiting, Outside
  <2>3. CASE /\ Goes(w, Step(w, "remove"))
             /\ lock = None /\ lock' = w /\ file' = file
    <3>1. Step(w, "remove") \in Record /\ Step(w, "remove").pc = "remove"
      BY <1>3, <1>4 DEF Free, Waiting, Outside, Inside
    <3>3. Move(w, Step(w, "remove")) /\ Arrival(w, Step(w, "remove"))
      BY <1>19, <2>1, <2>3, <3>1 DEF Move, Arrival, Inside
    <3> QED BY <3>3
  <2> QED BY <1>19, <2>2, <2>3
          DEF deleteAuth, shared
<1>20. CASE writeAuthDisabled(w)
  <2>1. worker[w].pc \in Free
    BY <1>20 DEF writeAuthDisabled, At, Free, Waiting, Outside
  <2>2. CASE /\ Goes(w, Step(w, "saveToggle"))
             /\ lock = None /\ lock' = w /\ file' = file
    <3>1. Step(w, "saveToggle") \in Record /\ Step(w, "saveToggle").pc = "saveToggle"
      BY <1>3, <1>4 DEF Free, Waiting, Outside, Inside
    <3>3. Move(w, Step(w, "saveToggle")) /\ Arrival(w, Step(w, "saveToggle"))
      BY <1>20, <2>1, <2>2, <3>1 DEF Move, Arrival, Inside
    <3> QED BY <3>3
  <2> QED BY <1>20, <2>2
          DEF writeAuthDisabled, shared
<1>21. CASE withCheckinLock(w)
  <2>1. worker[w].pc \in Free
    BY <1>21 DEF withCheckinLock, At, Free, Waiting, Outside
  <2>2. CASE /\ Goes(w, Step(w, "checkinCall"))
             /\ lock = None /\ lock' = w /\ file' = file
    <3>1. Step(w, "checkinCall") \in Record /\ Step(w, "checkinCall").pc = "checkinCall"
      BY <1>3, <1>4 DEF Free, Waiting, Outside, Inside
    <3>3. Move(w, Step(w, "checkinCall")) /\ Arrival(w, Step(w, "checkinCall"))
      BY <1>21, <2>1, <2>2, <3>1 DEF Move, Arrival, Inside
    <3> QED BY <3>3
  <2>3. CASE /\ Goes(w, Step(w, "checkinOnlyCall"))
             /\ lock = None /\ lock' = w /\ file' = file
    <3>1. Step(w, "checkinOnlyCall") \in Record /\ Step(w, "checkinOnlyCall").pc = "checkinOnlyCall"
      BY <1>3, <1>4 DEF Free, Waiting, Outside, Inside
    <3>3. Move(w, Step(w, "checkinOnlyCall")) /\ Arrival(w, Step(w, "checkinOnlyCall"))
      BY <1>21, <2>1, <2>3, <3>1 DEF Move, Arrival, Inside
    <3> QED BY <3>3
  <2> QED BY <1>21, <2>2, <2>3
          DEF withCheckinLock, shared
<1>22. CASE saveDisabled(w)
  BY <1>6, <1>22, IdleRecord DEF saveDisabled, saveAndRemember, At, Inside
<1>23. CASE saveEnabled(w)
  BY <1>6, <1>23, IdleRecord DEF saveEnabled, saveAndRemember, At, Inside
<1>24. CASE saveNote(w)
  BY <1>6, <1>24, IdleRecord DEF saveNote, saveAndRemember, At, Inside
<1>25. CASE saveToggle(w)
  BY <1>6, <1>25, IdleRecord DEF saveToggle, saveAndRemember, At, Inside
<1>26. CASE saveRefreshed(w)
  BY <1>6, <1>26, IdleRecord DEF saveRefreshed, release, At, Inside
<1>27. CASE remove(w)
  <2>1. worker[w].pc \in Inside
    BY <1>27 DEF remove, At, Inside
  <2>2. CASE Goes(w, Idle) /\ lock' = None
    BY <1>6, <2>1, <2>2, IdleRecord
  <2>3. CASE /\ Goes(w, [Step(w, "saveDisabled") EXCEPT !.disabled = TRUE, !.credits = "unknown"])
             /\ lock' = lock /\ file' = file
    <3> DEFINE rec == [Step(w, "saveDisabled") EXCEPT !.disabled = TRUE, !.credits = "unknown"]
    <3>1. rec \in Record /\ rec.pc = "saveDisabled"
      <4>1. "saveDisabled" \in PCs
        BY <1>4 DEF Free, Waiting, Outside, Inside
      <4> QED BY <1>1, <1>2, <1>3, <4>1 DEF Record, Balances
    <3> HIDE DEF rec
    <3>2. Goes(w, rec)
      BY <2>3 DEF rec
    <3>3. Move(w, rec) /\ Arrival(w, rec)
      BY <1>27, <2>1, <2>3, <3>1, <3>2 DEF Move, Arrival, Inside
    <3> QED BY <3>3
  <2> QED BY <1>27, <2>2, <2>3
          DEF remove, shared
<1>28. CASE persistAuthTokens(w)
  <2>1. worker[w].pc \in Inside
    BY <1>28 DEF persistAuthTokens, At, Inside
  <2>2. CASE Goes(w, Idle) /\ lock' = None
    BY <1>6, <2>1, <2>2, IdleRecord
  <2>3. CASE /\ Goes(w, [Step(w, "saveTokens") EXCEPT !.disabled = file.disabled])
             /\ lock' = lock /\ file' = file
    <3> DEFINE rec == [Step(w, "saveTokens") EXCEPT !.disabled = file.disabled]
    <3>1. rec \in Record /\ rec.pc = "saveTokens"
      <4>1. "saveTokens" \in PCs
        BY <1>4 DEF Free, Waiting, Outside, Inside
      <4> QED BY <1>1, <1>2, <1>3, <4>1 DEF Record
    <3> HIDE DEF rec
    <3>2. Goes(w, rec)
      BY <2>3 DEF rec
    <3>3. Move(w, rec) /\ Arrival(w, rec)
      BY <1>28, <2>1, <2>3, <3>1, <3>2 DEF Move, Arrival, Inside
    <3> QED BY <3>3
  <2> QED BY <1>28, <2>2, <2>3
          DEF persistAuthTokens, shared, release
<1>29. CASE markSessionDead(w)
  <2>1. worker[w].pc \in Inside
    BY <1>29 DEF markSessionDead, At, Inside
  <2>2. CASE Goes(w, Idle) /\ lock' = None
    BY <1>6, <2>1, <2>2, IdleRecord
  <2>3. CASE /\ Goes(w, [Step(w, "saveDead") EXCEPT !.cred = file.cred, !.disabled = TRUE])
             /\ lock' = lock /\ file' = file
    <3> DEFINE rec == [Step(w, "saveDead") EXCEPT !.cred = file.cred, !.disabled = TRUE]
    <3>1. rec \in Record /\ rec.pc = "saveDead"
      <4>1. "saveDead" \in PCs
        BY <1>4 DEF Free, Waiting, Outside, Inside
      <4> QED BY <1>1, <1>2, <1>3, <4>1 DEF Record
    <3> HIDE DEF rec
    <3>2. Goes(w, rec)
      BY <2>3 DEF rec
    <3>3. Move(w, rec) /\ Arrival(w, rec)
      BY <1>29, <2>1, <2>3, <3>1, <3>2 DEF Move, Arrival, Inside
    <3> QED BY <3>3
  <2> QED BY <1>29, <2>2, <2>3
          DEF markSessionDead, shared, release
<1>30. CASE performCheckinCall(w)
  <2>1. worker[w].pc \in Inside
    BY <1>30 DEF performCheckinCall, At, Inside
  <2>2. CASE Goes(w, Idle) /\ lock' = None
    BY <1>6, <2>1, <2>2, IdleRecord
  <2>3. CASE Goes(w, Step(w, "bundle")) /\ lock' = None
    <3>1. Step(w, "bundle") \in Record /\ Step(w, "bundle").pc = "bundle"
      BY <1>3, <1>4 DEF Free, Waiting, Outside, Inside
    <3> QED BY <1>6, <2>1, <2>3, <3>1
  <2> QED BY <1>30, <2>2, <2>3
          DEF performCheckinCall, shared
<1>31. CASE refreshCall(w)
  <2>1. worker[w].pc \in Inside
    BY <1>31 DEF refreshCall, At, Inside
  <2>2. CASE Goes(w, Idle) /\ lock' = None
    BY <1>6, <2>1, <2>2, IdleRecord
  <2>3. CASE Goes(w, Step(w, "mark")) /\ lock' = lock /\ file' = file
    <3>1. Step(w, "mark") \in Record /\ Step(w, "mark").pc = "mark"
      BY <1>3, <1>4 DEF Free, Waiting, Outside, Inside
    <3>2. Move(w, Step(w, "mark")) /\ Arrival(w, Step(w, "mark"))
      BY <2>1, <2>3, <3>1 DEF Move, Arrival, Inside
    <3> QED BY <3>2
  <2>4. CASE /\ Goes(w, [Step(w, "tokens") EXCEPT !.cred = renewed(@)])
             /\ lock' = lock /\ file' = file
    <3> DEFINE c == renewed(Step(w, "tokens").cred)
               rec == [Step(w, "tokens") EXCEPT !.cred = c]
    <3>1. "tokens" \in PCs
      BY <1>4 DEF Inside
    <3>2. Step(w, "tokens").cred \in 0..MaxCred
      BY <1>3, <3>1 DEF Record
    <3>3. c \in 0..MaxCred
      BY <3>2, AuthFileAssumption DEF renewed
    <3>4. Goes(w, rec)
      BY <2>4
    <3> HIDE DEF c
    <3>5. rec \in Record /\ rec.pc = "tokens"
      BY <1>3, <3>1, <3>3 DEF Record
    <3> HIDE DEF rec
    <3>6. Move(w, rec) /\ Arrival(w, rec)
      BY <2>1, <2>4, <3>4, <3>5 DEF Move, Arrival, Inside
    <3> QED BY <3>6
  <2> QED BY <1>31, <2>2, <2>3, <2>4 DEF refreshCall, release
<1>32. CASE dashboardCredits(w)
  <2>1. worker[w].pc \in Free
    BY <1>32 DEF dashboardCredits, At, Free, Waiting, Outside
  <2>2. PICK cr \in Balances :
          /\ Goes(w, [Step(w, "noteCheck") EXCEPT !.credits = cr])
          /\ lock' = lock /\ file' = file
    BY <1>32 DEF dashboardCredits, shared
  <2> DEFINE rec == [Step(w, "noteCheck") EXCEPT !.credits = cr]
  <2>3. "noteCheck" \in PCs
    BY <1>4 DEF Free, Outside
  <2>4. rec \in Record /\ rec.pc = "noteCheck"
    BY <1>3, <2>3 DEF Record
  <2>5. Goes(w, rec)
    BY <2>2
  <2> HIDE DEF rec
  <2> QED BY <1>5, <2>1, <2>2, <2>4, <2>5 DEF Free, Waiting, Outside
<1>33. CASE confirmExhausted(w)
  <2>1. worker[w].pc \in Free /\ lock' = lock /\ file' = file
    BY <1>33 DEF confirmExhausted, At, Free, Outside, shared
  <2>2. CASE Goes(w, Idle)
    BY <1>5, <2>1, <2>2, IdleRecord DEF Free, Waiting, Outside
  <2>3. CASE Goes(w, Step(w, "delete"))
    <3>1. Step(w, "delete") \in Record /\ Step(w, "delete").pc = "delete"
      BY <1>3, <1>4 DEF Free, Waiting
    <3>2. Move(w, Step(w, "delete"))
      BY <2>1, <2>3, <3>1, FreeIsNotInside DEF Move, Free, Waiting
    <3>3. Arrival(w, Step(w, "delete"))
      BY <1>33, <3>1 DEF Arrival
    <3> QED BY <3>2, <3>3
  <2> QED BY <1>33, <2>2, <2>3 DEF confirmExhausted
<1>34. CASE reconcileCredits(w)
  <2>1. worker[w].pc \in Free /\ lock' = lock /\ file' = file
    BY <1>34 DEF reconcileCredits, At, Free, Outside, shared
  <2>2. PICK cr \in Balances :
          LET next == decision(worker[w].disabled, cr)
          IN  Goes(w, IF next = "idle" THEN Idle
                      ELSE [Step(w, next) EXCEPT !.credits = cr,
                              !.disabled = @ /\ region = "cn"])
    BY <1>34 DEF reconcileCredits
  <2> DEFINE next == decision(worker[w].disabled, cr)
             rec == [Step(w, next) EXCEPT !.credits = cr,
                       !.disabled = @ /\ region = "cn"]
  <2>3. CASE next = "idle"
    <3>1. Goes(w, Idle)
      BY <2>2, <2>3
    <3> QED BY <1>5, <2>1, <3>1, IdleRecord DEF Free, Waiting, Outside
  <2>4. CASE next /= "idle"
    <3>1. next \in {"reenable", "noteCheck", "confirm", "disable"}
      BY <2>4 DEF decision, lifecycleActionFor
    <3>2. Goes(w, rec)
      BY <2>2, <2>4
    <3>3. next \in Free /\ next /= "delete" /\ next \in PCs
      BY <3>1, <1>4 DEF Free, Waiting, Outside
    <3> HIDE DEF next
    <3>4. Step(w, next) \in Record /\ Step(w, next).pc = next
      BY <3>3, <1>3
    <3>5. rec \in Record /\ rec.pc = next
      BY <3>4 DEF Record
    <3> HIDE DEF rec
    <3>6. Move(w, rec)
      BY <2>1, <3>2, <3>3, <3>5, FreeIsNotInside DEF Move
    <3>7. Arrival(w, rec)
      BY <1>34, <3>3, <3>5 DEF Arrival, Free, Waiting, Outside
    <3> QED BY <3>6, <3>7
  <2> QED BY <2>3, <2>4
<1> QED
  BY <1>7, <1>8, <1>9, <1>10, <1>11, <1>12, <1>13, <1>14, <1>15, <1>16,
     <1>17, <1>18, <1>19, <1>20, <1>21, <1>22, <1>23, <1>24, <1>25, <1>26,
     <1>27, <1>28, <1>29, <1>30, <1>31, <1>32, <1>33, <1>34
  DEF Start, Enter, Advance

-----------------------------------------------------------------------------
(* The type invariant.                                                      *)

JobStep == \E w \in Workers : Start(w) \/ Enter(w) \/ Advance(w)
World   == Spend \/ SessionDies \/ Login \/ Forget

(* What happens outside moves no job and leaves the lock alone.             *)
LEMMA WorldFrame ==
    ASSUME World
    PROVE  /\ UNCHANGED <<worker, lock, region, glitches>>
           /\ file' = file \/ Login
BY DEF World, Spend, SessionDies, Login, Forget, shared, upstream

(* A step leaves the region alone and uses up at most one failure.          *)
LEMMA GlitchFrame ==
    ASSUME [AuthNext]_authVars
    PROVE  region' = region /\ (glitches' = glitches \/ Fails)
<1> DEFINE Goal == region' = region /\ (glitches' = glitches \/ Fails)
<1> USE DEF Works, hostAuthGetWorks, hostAuthGetFails
<1>1. ASSUME NEW w \in Workers, Start(w) PROVE Goal
  BY <1>1 DEF Start, processAutoCheckinAccount, checkinOneAccount,
     reconcileAfterExecutorError, buildDashboard, handleAccountToggle,
     refreshOneAuth
<1>2. ASSUME NEW w \in Workers, Enter(w) PROVE Goal
  <2>1. CASE syncAuthNoteLocked(w)
    BY <2>1 DEF syncAuthNoteLocked
  <2>2. CASE deleteAuth(w)
    BY <2>2 DEF deleteAuth
  <2> QED
    BY <1>2, <2>1, <2>2
    DEF Enter, disableAuth, reenableAuth, writeAuthDisabled, withCheckinLock
<1>3. ASSUME NEW w \in Workers, Advance(w) PROVE Goal
  <2>1. CASE saveAndRemember(w)
    BY <2>1 DEF saveAndRemember
  <2>2. CASE syncAuthNote(w)
    BY <2>2 DEF syncAuthNote
  <2>3. CASE remove(w)
    BY <2>3 DEF remove
  <2>4. CASE toggleRead(w)
    BY <2>4 DEF toggleRead
  <2>5. CASE performCheckinCall(w)
    BY <2>5 DEF performCheckinCall
  <2>6. CASE reconcileOneAccount(w)
    BY <2>6 DEF reconcileOneAccount
  <2>7. ASSUME NEW cr, billing(cr) PROVE glitches' = glitches \/ Fails
    BY <2>7 DEF billing
  <2>8. CASE reconcileCredits(w)
    BY <2>7, <2>8 DEF reconcileCredits
  <2>9. CASE confirmExhausted(w)
    BY <2>7, <2>9 DEF confirmExhausted
  <2>10. CASE dashboardCredits(w)
    BY <2>7, <2>10 DEF dashboardCredits
  <2>11. CASE refreshCall(w)
    BY <2>11 DEF refreshCall
  <2>12. CASE persistAuthTokens(w)
    BY <2>12 DEF persistAuthTokens
  <2>13. CASE markSessionDead(w)
    BY <2>13 DEF markSessionDead
  <2>14. CASE saveRefreshed(w)
    BY <2>14 DEF saveRefreshed
  <2> QED
    BY <1>3, <2>1, <2>2, <2>3, <2>4, <2>5, <2>6, <2>8, <2>9, <2>10, <2>11,
       <2>12, <2>13, <2>14
    DEF Advance, saveDisabled, saveEnabled, saveNote, saveToggle
<1>4. CASE World
  BY <1>4, WorldFrame
<1>5. CASE UNCHANGED authVars
  BY <1>5 DEF authVars
<1> QED BY <1>1, <1>2, <1>3, <1>4, <1>5 DEF AuthNext, World

(* The file is written by a save, by a delete and by a login.               *)
LEMMA FileFrame ==
    ASSUME [AuthNext]_authVars
    PROVE  \/ file' = file
           \/ \E w \in Workers :
                \/ saveDisabled(w) \/ saveEnabled(w) \/ saveNote(w)
                \/ saveToggle(w) \/ saveRefreshed(w) \/ remove(w)
           \/ Login
<1>1. ASSUME NEW w \in Workers, Start(w) PROVE file' = file
  BY <1>1 DEF Start, processAutoCheckinAccount, checkinOneAccount,
     reconcileAfterExecutorError, buildDashboard, handleAccountToggle,
     refreshOneAuth, shared
<1>2. ASSUME NEW w \in Workers, Enter(w) PROVE file' = file
  BY <1>2 DEF Enter, disableAuth, reenableAuth, syncAuthNoteLocked, deleteAuth,
     writeAuthDisabled, withCheckinLock
<1>3. ASSUME NEW w \in Workers, Advance(w)
      PROVE  \/ file' = file
             \/ saveDisabled(w) \/ saveEnabled(w) \/ saveNote(w)
             \/ saveToggle(w) \/ saveRefreshed(w) \/ remove(w)
  BY <1>3 DEF Advance, syncAuthNote, toggleRead, performCheckinCall,
     reconcileOneAccount, reconcileCredits, confirmExhausted,
     dashboardCredits, refreshCall, persistAuthTokens, markSessionDead, shared
<1>4. CASE World
  BY <1>4, WorldFrame
<1>5. CASE UNCHANGED authVars
  BY <1>5 DEF authVars, shared
<1> QED BY <1>1, <1>2, <1>3, <1>4, <1>5 DEF AuthNext, World

(* A save writes the credential and the bit of the job; a delete keeps      *)
(* both; a login writes a new file.                                         *)
LEMMA FileWritten ==
    ASSUME [AuthNext]_authVars, file' /= file
    PROVE  \/ \E w \in Workers :
                \/ /\ \/ saveDisabled(w) \/ saveEnabled(w) \/ saveNote(w)
                      \/ saveToggle(w) \/ saveRefreshed(w)
                   /\ file' = [exists |-> TRUE, cred |-> worker[w].cred,
                               disabled |-> worker[w].disabled]
                \/ remove(w) /\ file' = [file EXCEPT !.exists = FALSE]
           \/ Login /\ file' = [exists |-> TRUE, cred |-> 0, disabled |-> FALSE]
BY FileFrame DEF saveDisabled, saveEnabled, saveNote, saveToggle,
   saveRefreshed, saveAndRemember, remove, shared, Login

(* Each step keeps the types that the jobs rely on, and the lock with its   *)
(* holder.                                                                  *)
LEMMA TypeInvStep == ASSUME TypeInv, [AuthNext]_authVars PROVE TypeInv'
<1>1. region' \in Regions
  BY GlitchFrame DEF TypeInv
<1>2. file' \in [exists : BOOLEAN, cred : 0..MaxCred, disabled : BOOLEAN]
  <2>1. \A w \in Workers : /\ worker[w].cred \in 0..MaxCred
                           /\ worker[w].disabled \in BOOLEAN
    BY DEF TypeInv, LockInv, Record
  <2>2. CASE file' = file
    BY <2>2 DEF TypeInv
  <2>3. CASE file' /= file
    <3>1. ASSUME NEW w \in Workers,
                 file' = [exists |-> TRUE, cred |-> worker[w].cred,
                          disabled |-> worker[w].disabled]
          PROVE  file' \in [exists : BOOLEAN, cred : 0..MaxCred,
                            disabled : BOOLEAN]
      BY <2>1, <3>1
    <3>2. CASE file' = [file EXCEPT !.exists = FALSE]
      BY <3>2 DEF TypeInv
    <3>3. CASE file' = [exists |-> TRUE, cred |-> 0, disabled |-> FALSE]
      BY <3>3, AuthFileAssumption
    <3> QED BY <2>3, <3>1, <3>2, <3>3, FileWritten
  <2> QED BY <2>2, <2>3
<1>3. ASSUME NEW w \in Workers, NEW rec, Move(w, rec)
      PROVE  LockInv' /\ lock' \in Workers \cup {None}
  BY <1>3, MoveKeepsLock DEF TypeInv, Move
<1>4. CASE JobStep
  BY <1>4, <1>1, <1>2, <1>3, JobMoves DEF JobStep, TypeInv
<1>5. CASE World
  <2>1. LockInv' /\ lock' = lock
    BY <1>5, WorldFrame DEF TypeInv, LockInv
  <2> QED BY <2>1, <1>1, <1>2 DEF TypeInv
<1>6. CASE UNCHANGED authVars
  <2>1. LockInv' /\ lock' = lock
    BY <1>6 DEF authVars, shared, TypeInv, LockInv
  <2> QED BY <2>1, <1>1, <1>2 DEF TypeInv
<1> QED BY <1>4, <1>5, <1>6 DEF AuthNext, JobStep, World

(* The file, the lock and the jobs start in their types.                    *)
LEMMA TypeInvInit == ASSUME AuthInit PROVE TypeInv
<1>1. \A w \in Workers : worker[w] = Idle
  BY DEF AuthInit
<1>2. "idle" \notin Inside
  BY DEF Inside
<1>3. LockInv
  BY <1>1, <1>2, IdleRecord, AuthFileAssumption DEF AuthInit, LockInv
<1> QED BY <1>3, AuthFileAssumption DEF AuthInit, TypeInv

(* The lock of an account is held by exactly the job that is inside a       *)
(* section of it, and file and jobs keep their types, for any number of     *)
(* jobs (checkinLockFor and its users).                                     *)
THEOREM LockCorrect == AuthSpec => []TypeInv
<1>1. AuthInit => TypeInv
  BY TypeInvInit
<1>2. TypeInv /\ [AuthNext]_authVars => TypeInv'
  BY TypeInvStep
<1> QED BY <1>1, <1>2, PTL DEF AuthSpec

(* What the throttle, upstream and the history have beside these.           *)
RestOK ==
    /\ lifecycleState \in [fresh : BOOLEAN, disabled : BOOLEAN, note : Balances]
    /\ live \in BOOLEAN
    /\ credits \in {"some", "none"} /\ glitches \in 0..MaxGlitches
    /\ spent \in BOOLEAN /\ foundDead \in BOOLEAN

(* The throttle is set by a save, to what the job has saved, and cleared by *)
(* a delete and by time.                                                    *)
LEMMA ThrottleFrame ==
    ASSUME [AuthNext]_authVars
    PROVE  \/ lifecycleState' = lifecycleState
           \/ lifecycleState' = Unsaved
           \/ \E w \in Workers :
                lifecycleState' = [fresh |-> TRUE, disabled |-> worker[w].disabled,
                                   note |-> worker[w].credits]
<1>1. ASSUME NEW w \in Workers, Start(w) PROVE lifecycleState' = lifecycleState
  BY <1>1 DEF Start, processAutoCheckinAccount, checkinOneAccount,
     reconcileAfterExecutorError, buildDashboard, handleAccountToggle,
     refreshOneAuth, shared
<1>2. ASSUME NEW w \in Workers, Enter(w) PROVE lifecycleState' = lifecycleState
  BY <1>2 DEF Enter, disableAuth, reenableAuth, syncAuthNoteLocked, deleteAuth,
     writeAuthDisabled, withCheckinLock
<1>3. ASSUME NEW w \in Workers, Advance(w)
      PROVE  \/ lifecycleState' \in {lifecycleState, Unsaved}
             \/ lifecycleState' = [fresh |-> TRUE, disabled |-> worker[w].disabled,
                                   note |-> worker[w].credits]
  <2>1. CASE saveAndRemember(w)
    BY <2>1 DEF saveAndRemember, rememberLifecycleState
  <2>2. CASE remove(w)
    BY <2>2 DEF remove, shared
  <2> QED
    BY <1>3, <2>1, <2>2
    DEF Advance, saveDisabled, saveEnabled, saveNote, saveToggle, syncAuthNote,
        toggleRead, performCheckinCall, reconcileOneAccount, reconcileCredits,
        confirmExhausted, dashboardCredits, refreshCall, persistAuthTokens,
        markSessionDead, saveRefreshed, shared
<1>4. CASE World
  BY <1>4 DEF World, Spend, SessionDies, Login, Forget, shared
<1>5. CASE UNCHANGED authVars
  BY <1>5 DEF authVars, shared
<1> QED BY <1>1, <1>2, <1>3, <1>4, <1>5 DEF AuthNext, World

(* A check-in may bring credits, spending ends them; only a refresh that    *)
(* finds the session dead and a login change the verdict about it.          *)
LEMMA UpstreamFrame ==
    ASSUME [AuthNext]_authVars
    PROVE  /\ credits' = credits \/ credits' \in {"some", "none"}
           /\ live' = live \/ live' \in BOOLEAN
           /\ spent' = spent \/ spent' \in BOOLEAN
           /\ foundDead' = foundDead \/ foundDead' \in BOOLEAN
<1> DEFINE Goal == /\ credits' = credits \/ credits' \in {"some", "none"}
                   /\ live' = live \/ live' \in BOOLEAN
                   /\ spent' = spent \/ spent' \in BOOLEAN
                   /\ foundDead' = foundDead \/ foundDead' \in BOOLEAN
<1>1. ASSUME NEW w \in Workers, Start(w) PROVE Goal
  BY <1>1 DEF Start, processAutoCheckinAccount, checkinOneAccount,
     reconcileAfterExecutorError, buildDashboard, handleAccountToggle,
     refreshOneAuth, upstream
<1>2. ASSUME NEW w \in Workers, Enter(w) PROVE Goal
  BY <1>2 DEF Enter, disableAuth, reenableAuth, syncAuthNoteLocked, deleteAuth,
     writeAuthDisabled, withCheckinLock, upstream
<1>3. ASSUME NEW w \in Workers, Advance(w) PROVE Goal
  <2>1. CASE performCheckinCall(w)
    BY <2>1 DEF performCheckinCall
  <2>2. CASE markSessionDead(w)
    BY <2>2 DEF markSessionDead, upstream
  <2>3. CASE saveRefreshed(w)
    <3>1. foundDead' = foundDead \/ foundDead' \in BOOLEAN
      BY <2>3 DEF saveRefreshed
    <3> QED BY <2>3, <3>1 DEF saveRefreshed, upstream
  <2> QED
    BY <1>3, <2>1, <2>2, <2>3
    DEF Advance, saveDisabled, saveEnabled, saveNote, saveToggle, saveAndRemember,
        syncAuthNote, remove, toggleRead, reconcileOneAccount, reconcileCredits,
        confirmExhausted, dashboardCredits, refreshCall, persistAuthTokens, upstream
<1>4. CASE World
  BY <1>4 DEF World, Spend, SessionDies, Login, Forget, upstream
<1>5. CASE UNCHANGED authVars
  BY <1>5 DEF authVars, upstream
<1> QED BY <1>1, <1>2, <1>3, <1>4, <1>5 DEF AuthNext, World

(* Every variable keeps its type.                                           *)
LEMMA RestStep == ASSUME TypeInv, RestOK, [AuthNext]_authVars PROVE RestOK'
<1>1. lifecycleState' \in [fresh : BOOLEAN, disabled : BOOLEAN, note : Balances]
  <2>1. \A w \in Workers : worker[w].disabled \in BOOLEAN /\ worker[w].credits \in Balances
    BY DEF TypeInv, LockInv, Record
  <2>2. Unsaved \in [fresh : BOOLEAN, disabled : BOOLEAN, note : Balances]
    BY DEF Unsaved, Balances
  <2>3. CASE lifecycleState' = lifecycleState
    BY <2>3 DEF RestOK
  <2>4. ASSUME NEW w \in Workers,
               lifecycleState' = [fresh |-> TRUE, disabled |-> worker[w].disabled,
                                  note |-> worker[w].credits]
        PROVE  lifecycleState' \in [fresh : BOOLEAN, disabled : BOOLEAN, note : Balances]
    BY <2>1, <2>4
  <2> QED BY <2>2, <2>3, <2>4, ThrottleFrame
<1>2. glitches' \in 0..MaxGlitches
  BY GlitchFrame, AuthFileAssumption DEF RestOK, Fails
<1>3. /\ live' \in BOOLEAN /\ credits' \in {"some", "none"}
      /\ spent' \in BOOLEAN /\ foundDead' \in BOOLEAN
  BY UpstreamFrame DEF RestOK
<1> QED BY <1>1, <1>2, <1>3 DEF RestOK

(* Every variable of the credential file's model has its type, and the lock *)
(* is held by whoever is inside a section of it and by nobody else, for any *)
(* number of jobs (checkinLockFor and its users, lifecycle.go).             *)
THEOREM AuthTypeCorrect == AuthSpec => []AuthTypeOK
<1>1. AuthInit => TypeInv /\ RestOK
  <2> SUFFICES ASSUME AuthInit PROVE RestOK
    BY TypeInvInit
  <2>1. Unsaved \in [fresh : BOOLEAN, disabled : BOOLEAN, note : Balances]
    BY DEF Unsaved, Balances
  <2>2. MaxGlitches \in 0..MaxGlitches
    BY AuthFileAssumption
  <2> QED BY <2>1, <2>2 DEF AuthInit, RestOK
<1>2. TypeInv /\ RestOK /\ [AuthNext]_authVars => TypeInv' /\ RestOK'
  BY TypeInvStep, RestStep
<1>3. TypeInv /\ RestOK => AuthTypeOK
  BY DEF TypeInv, RestOK, AuthTypeOK, LockInv, Record, PCs
<1> QED BY <1>1, <1>2, <1>3, PTL DEF AuthSpec

-----------------------------------------------------------------------------
(* The disabled bit.                                                        *)

(* A job about to save a note or tokens with the account enabled has read   *)
(* so under the lock, and since then only a login could write the file; one *)
(* about to save a verdict saves it disabled.                               *)
BitFits(rec, bit) ==
    /\ rec.pc = "saveNote" /\ rec.read /\ ~rec.disabled => ~bit
    /\ rec.pc = "saveTokens" /\ ~rec.disabled => ~bit
    /\ rec.pc \in {"saveDisabled", "saveDead"} => rec.disabled

BitInv == \A w \in Workers : BitFits(worker[w], file.disabled)

(* A job outside those four places fits any bit.                            *)
LEMMA BitFitsElsewhere ==
    ASSUME NEW rec, NEW bit,
           rec.pc \notin {"saveNote", "saveTokens", "saveDisabled", "saveDead"}
    PROVE  BitFits(rec, bit)
BY DEF BitFits

(* Each step keeps the bits of the jobs in line with the file.              *)
LEMMA BitStep == ASSUME TypeInv, BitInv, [AuthNext]_authVars PROVE BitInv'
<1>0. /\ worker \in [Workers -> Record]
      /\ \A v \in Workers : worker[v].pc \in Inside <=> lock = v
      /\ file.disabled \in BOOLEAN
  BY DEF TypeInv, LockInv
<1>1. ASSUME NEW w \in Workers, Start(w) \/ Enter(w) \/ Advance(w)
      PROVE  BitInv'
  <2>1. PICK rec : Move(w, rec) /\ Arrival(w, rec)
    BY <1>1, JobMoves
  <2>2. /\ worker'[w] = rec /\ rec \in Record
        /\ \A v \in Workers : v /= w => worker'[v] = worker[v]
        /\ worker' = [worker EXCEPT ![w] = rec]
    BY <2>1, <1>0 DEF Move, Goes
  <2>3. BitFits(rec, file'.disabled)
    <3>1. CASE rec.pc \notin {"saveNote", "saveTokens", "saveDisabled",
                              "saveDead"}
      BY <3>1, BitFitsElsewhere
    <3>2. CASE rec.pc = "saveNote"
      <4>1. syncAuthNoteLocked(w)
        BY <2>1, <3>2 DEF Arrival
      <4>2. rec = worker'[w] /\ rec.pc /= "idle" /\ Idle.pc = "idle"
        BY <2>2, <3>2, IdleRecord
      <4>3. file' = file
        BY <4>1 DEF syncAuthNoteLocked
      <4>4. \/ rec = [Step(w, "saveNote") EXCEPT !.disabled = file.disabled]
            \/ rec = [Step(w, "saveNote") EXCEPT !.read = FALSE]
        BY <4>1, <4>2, <1>0
        DEF syncAuthNoteLocked, enterUnlessSaved, bitToKeep, Goes
      <4>5. worker[w] \in Record
        BY <1>0
      <4>6. rec.disabled = file.disabled \/ rec.read = FALSE
        BY <4>4, <4>5 DEF Step, Record
      <4> QED BY <3>2, <4>3, <4>6 DEF BitFits
    <3>3. CASE rec.pc = "saveTokens"
      <4>1. persistAuthTokens(w)
        BY <2>1, <3>3 DEF Arrival
      <4>2. rec = worker'[w] /\ rec.pc /= "idle" /\ Idle.pc = "idle"
        BY <2>2, <3>3, IdleRecord
      <4>3. file' = file
        BY <4>1 DEF persistAuthTokens
      <4>4. rec = [Step(w, "saveTokens") EXCEPT !.disabled = file.disabled]
        BY <4>1, <4>2, <1>0 DEF persistAuthTokens, release, Goes
      <4>5. worker[w] \in Record
        BY <1>0
      <4>6. rec.disabled = file.disabled
        BY <4>4, <4>5 DEF Step, Record
      <4> QED BY <3>3, <4>3, <4>6 DEF BitFits
    <3>4. CASE rec.pc = "saveDisabled"
      <4>1. disableAuth(w) \/ remove(w)
        BY <2>1, <3>4 DEF Arrival
      <4>2. rec = worker'[w] /\ rec.pc /= "idle" /\ Idle.pc = "idle"
        BY <2>2, <3>4, IdleRecord
      <4>3. \/ rec = [Step(w, "saveDisabled") EXCEPT !.disabled = TRUE]
            \/ rec = [Step(w, "saveDisabled") EXCEPT
                        !.disabled = TRUE, !.credits = "unknown"]
        BY <4>1, <4>2, <1>0
        DEF disableAuth, remove, enterUnlessSaved, Goes
      <4>4. worker[w] \in Record
        BY <1>0
      <4>5. rec.disabled = TRUE
        BY <4>3, <4>4 DEF Step, Record
      <4> QED BY <3>4, <4>5 DEF BitFits
    <3>5. CASE rec.pc = "saveDead"
      <4>1. markSessionDead(w)
        BY <2>1, <3>5 DEF Arrival
      <4>2. rec = worker'[w] /\ rec.pc /= "idle" /\ Idle.pc = "idle"
        BY <2>2, <3>5, IdleRecord
      <4>3. rec = [Step(w, "saveDead") EXCEPT
                     !.cred = file.cred, !.disabled = TRUE]
        BY <4>1, <4>2, <1>0 DEF markSessionDead, release, Goes
      <4>4. worker[w] \in Record
        BY <1>0
      <4>5. rec.disabled = TRUE
        BY <4>3, <4>4 DEF Step, Record
      <4> QED BY <3>5, <4>5 DEF BitFits
    <3> QED BY <3>1, <3>2, <3>3, <3>4, <3>5
  <2>4. ASSUME NEW v \in Workers, v /= w
        PROVE  BitFits(worker'[v], file'.disabled)
    <3>1. worker'[v] = worker[v] /\ BitFits(worker[v], file.disabled)
      BY <2>2, <2>4 DEF BitInv
    <3>2. CASE file' = file
      BY <3>1, <3>2
    <3>3. CASE worker[w].pc \in Inside
      <4>1. worker[v].pc \notin Inside
        BY <1>0, <2>4, <3>3
      <4>2. worker[v].pc \notin {"saveNote", "saveTokens", "saveDisabled",
                                 "saveDead"}
        BY <4>1 DEF Inside
      <4> QED BY <3>1, <4>2, BitFitsElsewhere
    <3> QED BY <3>2, <3>3, <2>1 DEF Move
  <2> QED BY <2>2, <2>3, <2>4 DEF BitInv
<1>2. CASE Login
  <2>1. worker' = worker /\ file'.disabled = FALSE
    BY <1>2 DEF Login
  <2> QED BY <2>1 DEF BitInv, BitFits
<1>3. CASE file' = file /\ worker' = worker
  BY <1>3 DEF BitInv
<1>4. CASE World
  BY <1>2, <1>3, <1>4, WorldFrame
<1>5. CASE UNCHANGED authVars
  BY <1>3, <1>5 DEF authVars, shared
<1> QED BY <1>1, <1>4, <1>5 DEF AuthNext, World

(* A disabled account is enabled only by a decision to enable it, the       *)
(* toggle, a login, or a note whose job could not read the file; never by   *)
(* the refresh of a token or a verdict, whatever the other jobs do in       *)
(* between (syncAuthNote, persistAuthTokens, markSessionDead).              *)
THEOREM DisabledCorrect == AuthSpec => DisabledKept
<1>1. AuthInit => TypeInv /\ BitInv
  <2> SUFFICES ASSUME AuthInit PROVE TypeInv /\ BitInv
    OBVIOUS
  <2>1. \A w \in Workers : worker[w] = Idle
    BY DEF AuthInit
  <2>2. \A w \in Workers : BitFits(worker[w], file.disabled)
    BY <2>1, IdleRecord, BitFitsElsewhere
  <2> QED BY <2>2, TypeInvInit DEF BitInv
<1>2. TypeInv /\ BitInv /\ [AuthNext]_authVars => TypeInv' /\ BitInv'
  BY TypeInvStep, BitStep
<1>3. ASSUME TypeInv, BitInv, [AuthNext]_authVars, file.exists, file.disabled,
             file'.exists, ~file'.disabled
      PROVE  \/ Login
             \/ \E w \in Workers : \/ saveEnabled(w) \/ saveToggle(w)
                                   \/ saveNote(w) /\ ~worker[w].read
  <2>1. file' /= file
    BY <1>3
  <2>2. ASSUME NEW w \in Workers,
               file' = [exists |-> TRUE, cred |-> worker[w].cred,
                        disabled |-> worker[w].disabled]
        PROVE  ~worker[w].disabled
    BY <1>3, <2>2
  <2>3. ASSUME NEW w \in Workers, ~worker[w].disabled
        PROVE  /\ ~saveDisabled(w) /\ ~saveRefreshed(w)
               /\ saveNote(w) => ~worker[w].read
    <3>1. BitFits(worker[w], file.disabled)
      BY <1>3 DEF BitInv
    <3> QED BY <1>3, <2>3, <3>1
            DEF BitFits, saveDisabled, saveRefreshed, saveNote, At
  <2>4. ~ (file' = [file EXCEPT !.exists = FALSE])
    BY <1>3 DEF TypeInv
  <2> QED BY <1>3, <2>1, <2>2, <2>3, <2>4, FileWritten
<1>4. TypeInv /\ BitInv /\ [AuthNext]_authVars
        => [file.exists /\ file.disabled /\ file'.exists /\ ~file'.disabled
            => \/ Login
               \/ \E w \in Workers : \/ saveEnabled(w) \/ saveToggle(w)
                                     \/ saveNote(w) /\ ~worker[w].read]_authVars
  BY <1>3
<1> QED BY <1>1, <1>2, <1>4, PTL DEF AuthSpec, DisabledKept

-----------------------------------------------------------------------------
(* Deletion.                                                                *)

(* A job on its way to a delete works for a Global account; the first       *)
(* answer may have been a failure, after the second the account has been    *)
(* out of credits.                                                          *)
DeleteFits(rec) ==
    /\ rec.pc \in {"confirm", "delete", "remove"} => region = "global"
    /\ rec.pc = "confirm" => spent \/ glitches < MaxGlitches
    /\ rec.pc \in {"delete", "remove"} => spent

DeleteInv ==
    /\ \A w \in Workers : DeleteFits(worker[w])
    /\ spent \/ credits = "some"
    /\ glitches \in 0..MaxGlitches

(* The balance changes by a grant or by spending, which is remembered.      *)
LEMMA CreditsFrame ==
    ASSUME [AuthNext]_authVars
    PROVE  \/ spent' = spent /\ (credits' = credits \/ credits' = "some")
           \/ spent' = TRUE
<1> DEFINE Goal == \/ spent' = spent
                      /\ (credits' = credits \/ credits' = "some")
                   \/ spent' = TRUE
<1> USE DEF upstream
<1>1. ASSUME NEW w \in Workers, Start(w) PROVE Goal
  BY <1>1 DEF Start, processAutoCheckinAccount, checkinOneAccount,
     reconcileAfterExecutorError, buildDashboard, handleAccountToggle,
     refreshOneAuth
<1>2. ASSUME NEW w \in Workers, Enter(w) PROVE Goal
  <2>1. CASE syncAuthNoteLocked(w)
    BY <2>1 DEF syncAuthNoteLocked
  <2> QED
    BY <1>2, <2>1
    DEF Enter, disableAuth, reenableAuth, deleteAuth, writeAuthDisabled,
        withCheckinLock
<1>3. ASSUME NEW w \in Workers, Advance(w) PROVE Goal
  <2>1. CASE saveAndRemember(w)
    BY <2>1 DEF saveAndRemember
  <2>2. CASE syncAuthNote(w)
    BY <2>2 DEF syncAuthNote
  <2>3. CASE remove(w)
    BY <2>3 DEF remove
  <2>4. CASE toggleRead(w)
    BY <2>4 DEF toggleRead
  <2>5. CASE performCheckinCall(w)
    BY <2>5 DEF performCheckinCall
  <2>6. CASE reconcileOneAccount(w)
    BY <2>6 DEF reconcileOneAccount
  <2>7. CASE reconcileCredits(w)
    BY <2>7 DEF reconcileCredits
  <2>8. CASE confirmExhausted(w)
    BY <2>8 DEF confirmExhausted
  <2>9. CASE dashboardCredits(w)
    BY <2>9 DEF dashboardCredits
  <2>10. CASE refreshCall(w)
    BY <2>10 DEF refreshCall
  <2>11. CASE persistAuthTokens(w)
    BY <2>11 DEF persistAuthTokens
  <2>12. CASE markSessionDead(w)
    BY <2>12 DEF markSessionDead
  <2>13. CASE saveRefreshed(w)
    BY <2>13 DEF saveRefreshed
  <2> QED
    BY <1>3, <2>1, <2>2, <2>3, <2>4, <2>5, <2>6, <2>7, <2>8, <2>9, <2>10,
       <2>11, <2>12, <2>13
    DEF Advance, saveDisabled, saveEnabled, saveNote, saveToggle
<1>4. CASE World
  BY <1>4 DEF World, Spend, SessionDies, Login, Forget
<1>5. CASE UNCHANGED authVars
  BY <1>5 DEF authVars
<1> QED BY <1>1, <1>2, <1>3, <1>4, <1>5 DEF AuthNext, World

(* While the account has always had credits, an answer "none" is a failure. *)
LEMMA WrongAnswerIsFailure ==
    ASSUME credits = "some", billing("none") PROVE Fails
BY DEF billing

(* With at most one failure, each step keeps jobs on the way to a delete    *)
(* within their rule.                                                       *)
LEMMA DeleteStep ==
    ASSUME MaxGlitches <= 1, TypeInv, DeleteInv, [AuthNext]_authVars
    PROVE  DeleteInv'
<1>1. /\ glitches \in Nat /\ MaxGlitches \in Nat /\ glitches <= MaxGlitches
      /\ \A w \in Workers : DeleteFits(worker[w])
      /\ spent \/ credits = "some"
      /\ worker \in [Workers -> Record]
  BY AuthFileAssumption DEF DeleteInv, TypeInv, LockInv
<1>2. /\ glitches' \in 0..MaxGlitches /\ glitches' <= glitches
      /\ region' = region
  BY <1>1, GlitchFrame DEF Fails
<1>3. spent => spent'
  BY CreditsFrame
<1>4. spent' \/ credits' = "some"
  BY <1>1, CreditsFrame
<1>5. ASSUME NEW rec, DeleteFits(rec) PROVE DeleteFits(rec)'
  BY <1>1, <1>2, <1>3, <1>5 DEF DeleteFits
<1>6. ASSUME NEW w \in Workers, Start(w) \/ Enter(w) \/ Advance(w),
             NEW v \in Workers
      PROVE  DeleteFits(worker[v])'
  <2>1. PICK rec : Move(w, rec) /\ Arrival(w, rec)
    BY <1>6, JobMoves
  <2>2. /\ worker'[w] = rec /\ rec \in Record
        /\ v /= w => worker'[v] = worker[v]
        /\ worker' = [worker EXCEPT ![w] = rec]
    BY <2>1, <1>1 DEF Move, Goes
  <2>3. CASE v /= w
    BY <2>2, <2>3, <1>1, <1>2, <1>3 DEF DeleteFits
  <2>4. ASSUME rec.pc \in {"confirm", "delete", "remove"}
        PROVE  region = "global"
    <3>1. CASE rec.pc = "confirm"
      <4>1. reconcileCredits(w)
        BY <2>1, <3>1 DEF Arrival
      <4>2. PICK cr \in Balances :
              LET next == decision(worker[w].disabled, cr)
              IN  Goes(w, IF next = "idle" THEN Idle
                          ELSE [Step(w, next) EXCEPT !.credits = cr,
                                  !.disabled = @ /\ region = "cn"])
        BY <4>1 DEF reconcileCredits
      <4> DEFINE next == decision(worker[w].disabled, cr)
      <4>3. next = "confirm"
        <5>1. CASE next = "idle"
          <6>1. rec = Idle
            BY <4>2, <5>1, <2>2, <1>1 DEF Goes
          <6> QED BY <6>1, <3>1, IdleRecord
        <5>2. CASE next /= "idle"
          <6>1. Goes(w, [Step(w, next) EXCEPT !.credits = cr,
                           !.disabled = @ /\ region = "cn"])
            BY <4>2, <5>2
          <6> HIDE DEF next
          <6>2. rec = [Step(w, next) EXCEPT !.credits = cr,
                         !.disabled = @ /\ region = "cn"]
            BY <6>1, <2>2, <1>1 DEF Goes
          <6>3. worker[w] \in Record
            BY <1>1
          <6>4. rec.pc = next
            BY <6>2, <6>3 DEF Step, Record
          <6> QED BY <6>4, <3>1
        <5> QED BY <5>1, <5>2
      <4> QED BY <4>3 DEF decision, lifecycleActionFor
    <3>2. CASE rec.pc = "delete"
      <4>1. worker[w].pc = "confirm"
        BY <2>1, <3>2 DEF Arrival, confirmExhausted, At
      <4> QED BY <4>1, <1>1 DEF DeleteFits
    <3>3. CASE rec.pc = "remove"
      <4>1. worker[w].pc = "delete"
        BY <2>1, <3>3 DEF Arrival, deleteAuth, At
      <4> QED BY <4>1, <1>1 DEF DeleteFits
    <3> QED BY <2>4, <3>1, <3>2, <3>3
  <2>5. ASSUME rec.pc = "confirm" PROVE spent' \/ glitches' < MaxGlitches
    <3>1. reconcileCredits(w)
      BY <2>1, <2>5 DEF Arrival
    <3>2. PICK cr \in Balances : billing(cr) /\
            LET next == decision(worker[w].disabled, cr)
            IN  Goes(w, IF next = "idle" THEN Idle
                        ELSE [Step(w, next) EXCEPT !.credits = cr,
                                !.disabled = @ /\ region = "cn"])
      BY <3>1 DEF reconcileCredits
    <3> DEFINE next == decision(worker[w].disabled, cr)
    <3>3. CASE cr = "none"
      BY <3>2, <3>3, <1>1, <1>2, <1>3, WrongAnswerIsFailure DEF Fails
    <3>4. CASE cr /= "none"
      <4>1. next \in {"idle", "reenable", "noteCheck"}
        BY <3>4 DEF decision, lifecycleActionFor
      <4>2. CASE next = "idle"
        <5>1. rec = Idle
          BY <3>2, <4>2, <2>2, <1>1 DEF Goes
        <5> QED BY <5>1, <2>5, IdleRecord
      <4>3. CASE next /= "idle"
        <5>1. Goes(w, [Step(w, next) EXCEPT !.credits = cr,
                         !.disabled = @ /\ region = "cn"])
          BY <3>2, <4>3
        <5> HIDE DEF next
        <5>2. rec = [Step(w, next) EXCEPT !.credits = cr,
                       !.disabled = @ /\ region = "cn"]
          BY <5>1, <2>2, <1>1 DEF Goes
        <5>3. worker[w] \in Record
          BY <1>1
        <5>4. rec.pc = next
          BY <5>2, <5>3 DEF Step, Record
        <5> QED BY <5>4, <4>1, <2>5
      <4> QED BY <4>2, <4>3
    <3> QED BY <3>3, <3>4
  <2>6. ASSUME rec.pc = "delete" PROVE spent'
    <3>1. confirmExhausted(w)
      BY <2>1, <2>6 DEF Arrival
    <3>2. worker[w].pc = "confirm"
      BY <3>1 DEF confirmExhausted, At
    <3>3. spent \/ glitches < MaxGlitches
      BY <3>2, <1>1 DEF DeleteFits
    <3>4. PICK cr \in Balances :
            /\ billing(cr)
            /\ Goes(w, IF cr = "none" THEN Step(w, "delete") ELSE Idle)
      BY <3>1 DEF confirmExhausted
    <3>5. CASE cr = "none"
      <4>1. credits = "some" => Fails
        BY <3>4, <3>5, WrongAnswerIsFailure
      <4> QED BY <4>1, <3>3, <1>1, <1>3 DEF Fails
    <3>6. CASE cr /= "none"
      <4>1. rec = Idle
        BY <3>4, <3>6, <2>2, <1>1 DEF Goes
      <4> QED BY <4>1, <2>6, IdleRecord
    <3> QED BY <3>5, <3>6
  <2>7. ASSUME rec.pc = "remove" PROVE spent'
    <3>1. worker[w].pc = "delete"
      BY <2>1, <2>7 DEF Arrival, deleteAuth, At
    <3> QED BY <3>1, <1>1, <1>3 DEF DeleteFits
  <2>8. CASE v = w
    BY <2>2, <2>4, <2>5, <2>6, <2>7, <2>8, <1>2 DEF DeleteFits
  <2> QED BY <2>3, <2>8
<1>7. CASE worker' = worker
  <2>1. \A v \in Workers : DeleteFits(worker[v])'
    BY <1>7, <1>1, <1>2, <1>3 DEF DeleteFits
  <2> QED BY <2>1, <1>2, <1>4 DEF DeleteInv
<1>8. CASE JobStep
  <2>1. \A v \in Workers : DeleteFits(worker[v])'
    BY <1>6, <1>8 DEF JobStep
  <2> QED BY <2>1, <1>2, <1>4 DEF DeleteInv
<1>9. CASE World
  BY <1>7, <1>9, WorldFrame
<1>10. CASE UNCHANGED authVars
  BY <1>7, <1>10 DEF authVars
<1> QED BY <1>8, <1>9, <1>10 DEF AuthNext, World, JobStep

(* One wrong answer of the billing API, or one failing call, deletes no     *)
(* account that always had credits, however many jobs run                   *)
(* (reconcileOneAccount's second lookup).                                   *)
THEOREM DeleteCorrect ==
    ASSUME MaxGlitches <= 1 PROVE AuthSpec => OnlyExhaustedDeleted
<1>1. AuthInit => TypeInv /\ DeleteInv
  <2> SUFFICES ASSUME AuthInit PROVE TypeInv /\ DeleteInv
    OBVIOUS
  <2>1. \A w \in Workers : worker[w] = Idle
    BY DEF AuthInit
  <2>2. \A w \in Workers : DeleteFits(worker[w])
    BY <2>1, IdleRecord DEF DeleteFits
  <2>3. DeleteInv
    BY <2>2, AuthFileAssumption DEF AuthInit, DeleteInv
  <2> QED BY <2>3, TypeInvInit
<1>2. TypeInv /\ DeleteInv /\ [AuthNext]_authVars => TypeInv' /\ DeleteInv'
  BY TypeInvStep, DeleteStep
<1>3. ASSUME TypeInv, DeleteInv, [AuthNext]_authVars, file.exists, ~file'.exists
      PROVE  region = "global" /\ spent
  <2>1. file' /= file
    BY <1>3
  <2>2. PICK w \in Workers : remove(w)
    BY <1>3, <2>1, FileWritten
  <2>3. worker[w].pc = "remove"
    BY <2>2 DEF remove, At
  <2> QED BY <1>3, <2>3 DEF DeleteInv, DeleteFits
<1>4. TypeInv /\ DeleteInv /\ [AuthNext]_authVars
        => [file.exists /\ ~file'.exists => region = "global" /\ spent]_authVars
  BY <1>3
<1> QED BY <1>1, <1>2, <1>4, PTL DEF AuthSpec, OnlyExhaustedDeleted
=============================================================================
