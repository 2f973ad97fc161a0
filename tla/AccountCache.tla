--------------------------- MODULE AccountCache ---------------------------
(***************************************************************************)
(* The cached details of one account: its balance and its check-in status  *)
(* (cache.go).  Loads of the dashboard and of the lifecycle fetch them in  *)
(* one flight; a finished chat drops the balance (lifecycle.go), so does   *)
(* the claim of a trial pack; scheduled and manual check-ins (checkin.go)  *)
(* and the panel's credits query (credits_handler.go) merge what they      *)
(* learn.  All of them load the entry, copy it and store it again, each in *)
(* its own time.  The rows they write to the panel's record are appends of *)
(* PanelStore.                                                             *)
(*                                                                         *)
(* A balance is a version: the backend counts up when credits are spent or *)
(* granted, so that a larger number is the later balance.                  *)
(***************************************************************************)
EXTENDS Integers, FiniteSets

CONSTANTS
    Jobs,          \* names of the work under way
    Teams,         \* who may be at work together: functions from some jobs to kinds
    Known,         \* entries the cache may hold at the start
    NoEntry, Unknown, NoJob,
    MaxTrouble     \* bound: calls that fail and moments the host misses the account

VARIABLES
    balance,       \* version of the balance at the backend
    signed,        \* whether today's check-in is done at the backend
    entry,         \* accountCache: NoEntry, or what is known and whether the TTL is over
    flight,        \* accountDetailFlight: the job that fetches
    mutex,         \* checkinLocks: the account's mutex now, and who holds which
    listed,        \* whether the host lists the account
    job,           \* each job's step and what it has read
    trouble, floor \* history: troubles; a version no stored balance may be below

cacheVars == <<balance, signed, entry, flight, mutex, listed, job, trouble, floor>>

JobKinds == {"load", "force", "chat", "auto", "global", "manual", "query", "trial"}

Status == BOOLEAN \union {Unknown}
Credits == Nat \union {Unknown}
Entries == [checkin : Status, credits : Credits, expired : BOOLEAN]

ASSUME CacheAssumption ==
    /\ Teams \subseteq UNION {[S -> JobKinds] : S \in SUBSET Jobs}
    /\ Known \subseteq Entries \union {NoEntry}
    /\ MaxTrouble \in Nat

NewJob(k) == [kind |-> k, pc |-> "start", prev |-> NoEntry, credits |-> Unknown,
              checkin |-> Unknown, with |-> NoJob, lock |-> 0, floor |-> 0]

CacheInit ==
    /\ balance = 1 /\ signed = FALSE
    /\ entry \in Known
    /\ flight = NoJob
    /\ mutex = [current |-> 0, last |-> 0, held |-> {}]
    /\ listed = TRUE
    /\ \E team \in Teams : job = [j \in DOMAIN team |-> NewJob(team[j])]
    /\ trouble = 0 /\ floor = 0

Fails == trouble < MaxTrouble /\ trouble' = trouble + 1
Answers == trouble' = trouble

Entry(checkin, credits) == [checkin |-> checkin, credits |-> credits, expired |-> FALSE]

Becomes(j, record) == job' = [job EXCEPT ![j] = record]
Move(j, pc) == Becomes(j, [job[j] EXCEPT !.pc = pc])
Is(j, pc) == job[j].pc = pc

(* A job that has read the entry or a balance and may still store it. *)
Holding(j) == job[j].pc \in {"enter", "fetch", "store", "close", "release",
                             "credited", "creditStore", "mergeStore", "queryLoad", "queryStore"}

----------------------------------------------------------------------------
(* cachedAccountDetails: an entry within its TTL is served, unless forced. *)
fresh(e) == e # NoEntry /\ ~e.expired

LoadStart(j) ==
    /\ Is(j, "start") /\ job[j].kind \in {"load", "force"}
    /\ Becomes(j, IF job[j].kind = "load" /\ fresh(entry)
                    THEN [job[j] EXCEPT !.pc = "done", !.floor = floor, !.credits = entry.credits,
                                        !.checkin = entry.checkin]
                    ELSE [job[j] EXCEPT !.pc = "enter", !.floor = floor, !.prev = entry])
    /\ UNCHANGED <<balance, signed, entry, flight, mutex, listed, trouble, floor>>

(* LoadOrStore of the flight: one job fetches, the others wait for it.     *)
EnterFlight(j) ==
    /\ Is(j, "enter")
    /\ IF flight = NoJob
         THEN flight' = j /\ Move(j, "fetch")
         ELSE /\ Becomes(j, [job[j] EXCEPT !.pc = "join", !.with = flight, !.prev = NoEntry])
              /\ UNCHANGED flight
    /\ UNCHANGED <<balance, signed, entry, mutex, listed, trouble, floor>>

(* The calls run side by side; each may fail on its own. *)
FetchDetails(j) ==
    /\ Is(j, "fetch")
    /\ \/ /\ Answers
          /\ Becomes(j, [job[j] EXCEPT !.pc = "store", !.credits = balance, !.checkin = signed])
       \/ /\ Fails
          /\ \E credits \in {balance, Unknown}, checkin \in {signed, Unknown} :
                Becomes(j, [job[j] EXCEPT !.pc = "store", !.credits = credits, !.checkin = checkin])
    /\ UNCHANGED <<balance, signed, entry, flight, mutex, listed, floor>>

(* What could not be fetched is carried over from the entry read at the    *)
(* start of the load.                                                      *)
carried(new, prev, field) == IF new = Unknown /\ prev # NoEntry THEN prev[field] ELSE new

StoreDetails(j) ==
    LET prev == job[j].prev
        credits == carried(job[j].credits, prev, "credits")
        checkin == carried(job[j].checkin, prev, "checkin")
    IN
    /\ Is(j, "store")
    /\ entry' = Entry(checkin, credits)
    /\ Becomes(j, [job[j] EXCEPT !.pc = "close", !.credits = credits, !.checkin = checkin])
    /\ UNCHANGED <<balance, signed, flight, mutex, listed, trouble, floor>>

(* The deferred close wakes the waiting jobs, *)
WakeWaiters(j) ==
    /\ Is(j, "close")
    /\ Move(j, "release")
    /\ UNCHANGED <<balance, signed, entry, flight, mutex, listed, trouble, floor>>

(* then the next load may fetch. *)
ReleaseFlight(j) ==
    /\ Is(j, "release")
    /\ flight' = NoJob
    /\ Move(j, "done")
    /\ UNCHANGED <<balance, signed, entry, mutex, listed, trouble, floor>>

(* A job that waited takes what the cache holds now. *)
Joined(j) ==
    LET other == job[job[j].with]
        found == IF entry # NoEntry THEN entry ELSE Entry(other.checkin, other.credits)
    IN
    /\ Is(j, "join") /\ other.pc \in {"release", "done"}
    /\ Becomes(j, [job[j] EXCEPT !.pc = "done", !.credits = found.credits, !.checkin = found.checkin])
    /\ UNCHANGED <<balance, signed, entry, flight, mutex, listed, trouble, floor>>

----------------------------------------------------------------------------
(* The balance changes, and the cached one is to be dropped. *)
Changes(j) ==
    /\ balance' = balance + 1
    /\ Becomes(j, [job[j] EXCEPT !.pc = "invalidate", !.floor = balance + 1])

(* A chat completion spends credits. *)
Spend(j) ==
    /\ Is(j, "start") /\ job[j].kind = "chat"
    /\ Changes(j)
    /\ UNCHANGED <<signed, entry, flight, mutex, listed, trouble, floor>>

(* performTrialCall grants credits once; a failed call may have, *)
performTrialCall(j) ==
    \/ Answers /\ Changes(j)
    \/ Fails /\ Changes(j)
    \/ Fails /\ Move(j, "invalidate") /\ UNCHANGED balance

(* and whatever it answered, the balance is dropped. *)
ClaimTrial(j) ==
    /\ Is(j, "start") /\ job[j].kind = "trial"
    /\ performTrialCall(j)
    /\ UNCHANGED <<signed, entry, flight, mutex, listed, floor>>

(* The scheduled tick drops it for accounts that have no check-in. *)
SkipCheckin(j) ==
    /\ Is(j, "start") /\ job[j].kind = "global"
    /\ Move(j, "invalidate")
    /\ UNCHANGED <<balance, signed, entry, flight, mutex, listed, trouble, floor>>

(* From the drop of the balance on, no older one may be stored, if nobody  *)
(* was about to store what it had read before.                             *)
Raise(v) == floor' = IF v > floor /\ \A i \in DOMAIN job : ~Holding(i) THEN v ELSE floor

(* After the tick's drop, and after a trial's, the account is reconciled. *)
Dropped(j) == IF job[j].kind \in {"global", "trial"} THEN NewJob("force") ELSE [job[j] EXCEPT !.pc = "done"]

(* invalidateAccountCredits loads the entry, *)
InvalidateLoad(j) ==
    /\ Is(j, "invalidate")
    /\ IF entry = NoEntry
         THEN Becomes(j, Dropped(j)) /\ Raise(job[j].floor)
         ELSE /\ Becomes(j, [job[j] EXCEPT !.pc = "drop", !.prev = entry,
                                          !.floor = IF \E i \in DOMAIN job : Holding(i) THEN 0 ELSE @])
              /\ UNCHANGED floor
    /\ UNCHANGED <<balance, signed, entry, flight, mutex, listed, trouble>>

(* Mutant: the copy keeps its balance and only its time is renewed. *)
withoutCreditsKept(e) == [e EXCEPT !.expired = FALSE]

withoutCredits(e) == [e EXCEPT !.credits = Unknown, !.expired = FALSE]

(* and stores a copy without its balance. *)
InvalidateStore(j) ==
    /\ Is(j, "drop")
    /\ entry' = withoutCredits(job[j].prev)
    /\ Becomes(j, Dropped(j))
    /\ Raise(job[j].floor)
    /\ UNCHANGED <<balance, signed, flight, mutex, listed, trouble>>

----------------------------------------------------------------------------
(* Mutant: a manual check-in does not wait for the mutex. *)
acquiresAlways(id) == TRUE

acquires(id) == id \notin mutex.held

(* checkinLockFor, withCheckinLock: the mutex that is in the map now.      *)
Lock(j) ==
    /\ Is(j, "start") /\ job[j].kind \in {"auto", "manual"}
    /\ LET id == IF mutex.current = 0 THEN mutex.last + 1 ELSE mutex.current IN
          /\ acquires(id)
          /\ mutex' = [current |-> id, last |-> IF id > mutex.last THEN id ELSE mutex.last,
                       held |-> mutex.held \union {id}]
          /\ Becomes(j, [job[j] EXCEPT !.pc = "status", !.lock = id])
    /\ UNCHANGED <<balance, signed, entry, flight, listed, trouble, floor>>

(* fetchCheckinStatus.  The tick checks in only when it knows it has to    *)
(* and the campaign is on; by hand a failed probe is no reason not to try. *)
afterStatus(kind, status) ==
    CASE kind = "auto" /\ status = FALSE -> {"perform", "merge"}
      [] kind = "auto" /\ status = Unknown -> {"unlock"}
      [] kind = "manual" /\ status # TRUE -> {"perform"}
      [] OTHER -> {"merge"}

ReadStatus(j) ==
    /\ Is(j, "status")
    /\ \E status \in {signed, Unknown} : \E next \in afterStatus(job[j].kind, status) :
          /\ IF status = Unknown THEN Fails ELSE Answers
          /\ Becomes(j, [job[j] EXCEPT !.pc = next, !.checkin = status])
    /\ UNCHANGED <<balance, signed, entry, flight, mutex, listed, floor>>

Granted == signed' = TRUE /\ balance' = (IF signed THEN balance ELSE balance + 1)

(* performCheckinCall: the backend grants credits once a day.  A refused   *)
(* or failed call is a result like any other; only an answer that cannot   *)
(* be parsed leaves the tick with its snapshot and ends the manual one.    *)
Perform(j) ==
    /\ Is(j, "perform")
    /\ \/ Answers /\ Granted /\ Move(j, "again")
       \/ Fails /\ UNCHANGED <<signed, balance>> /\ Move(j, "again")
       \/ Fails /\ Granted /\ Move(j, IF job[j].kind = "auto" THEN "merge" ELSE "unlock")
    /\ UNCHANGED <<entry, flight, mutex, listed, floor>>

(* The status after the call; where it cannot be read the tick keeps the   *)
(* earlier one and the manual check-in notes that it is done.              *)
ReadStatusAgain(j) ==
    LET otherwise == IF job[j].kind = "auto" THEN job[j].checkin ELSE TRUE IN
    /\ Is(j, "again")
    /\ \E status \in {signed, Unknown} :
          /\ IF status = Unknown THEN Fails ELSE Answers
          /\ Becomes(j, [job[j] EXCEPT !.checkin = IF status = Unknown THEN otherwise ELSE status,
                                       !.pc = IF job[j].kind = "auto" THEN "credits" ELSE "merge"])
    /\ UNCHANGED <<balance, signed, entry, flight, mutex, listed, floor>>

(* The tick also refreshes the balance, in an entry that is there. *)
FetchCredits(j) ==
    /\ Is(j, "credits")
    /\ \/ Answers /\ Becomes(j, [job[j] EXCEPT !.pc = "credited", !.credits = balance])
       \/ Fails /\ Move(j, "merge")
    /\ UNCHANGED <<balance, signed, entry, flight, mutex, listed, floor>>

CreditsLoad(j) ==
    /\ Is(j, "credited")
    /\ Becomes(j, [job[j] EXCEPT !.pc = IF entry = NoEntry THEN "merge" ELSE "creditStore", !.prev = entry])
    /\ UNCHANGED <<balance, signed, entry, flight, mutex, listed, trouble, floor>>

CreditsStore(j) ==
    /\ Is(j, "creditStore")
    /\ entry' = Entry(job[j].prev.checkin, job[j].credits)
    /\ Move(j, "merge")
    /\ UNCHANGED <<balance, signed, flight, mutex, listed, trouble, floor>>

(* mergeCheckinCache loads the entry and stores it with the new status. *)
MergeLoad(j) ==
    /\ Is(j, "merge")
    /\ Becomes(j, [job[j] EXCEPT !.pc = "mergeStore", !.prev = entry])
    /\ UNCHANGED <<balance, signed, entry, flight, mutex, listed, trouble, floor>>

MergeStore(j) ==
    LET prev == job[j].prev IN
    /\ Is(j, "mergeStore")
    /\ entry' = Entry(job[j].checkin, IF prev = NoEntry THEN Unknown ELSE prev.credits)
    /\ Move(j, "unlock")
    /\ UNCHANGED <<balance, signed, flight, mutex, listed, trouble, floor>>

(* The mutex that was taken is released; after the tick the account is     *)
(* reconciled with a forced load.                                          *)
Unlock(j) ==
    /\ Is(j, "unlock")
    /\ mutex' = [mutex EXCEPT !.held = @ \ {job[j].lock}]
    /\ Becomes(j, IF job[j].kind = "auto" THEN NewJob("force")
                  ELSE [job[j] EXCEPT !.pc = "done", !.credits = Unknown])
    /\ UNCHANGED <<balance, signed, entry, flight, listed, trouble, floor>>

----------------------------------------------------------------------------
(* The credits query of one account: nothing is stored without a balance,  *)
QueryFetch(j) ==
    /\ Is(j, "start") /\ job[j].kind = "query"
    /\ \E credits \in {balance, Unknown}, checkin \in {signed, Unknown} :
          /\ IF Unknown \in {credits, checkin} THEN Fails ELSE Answers
          /\ Becomes(j, [job[j] EXCEPT !.pc = IF credits = Unknown THEN "done" ELSE "queryLoad",
                                       !.credits = credits, !.checkin = checkin])
    /\ UNCHANGED <<balance, signed, entry, flight, mutex, listed, floor>>

(* a status that could not be fetched is the one in the cache by then.     *)
QueryLoad(j) ==
    /\ Is(j, "queryLoad")
    /\ Becomes(j, [job[j] EXCEPT !.pc = "queryStore", !.checkin = carried(@, entry, "checkin")])
    /\ UNCHANGED <<balance, signed, entry, flight, mutex, listed, trouble, floor>>

QueryStore(j) ==
    /\ Is(j, "queryStore")
    /\ entry' = Entry(job[j].checkin, job[j].credits)
    /\ Move(j, "done")
    /\ UNCHANGED <<balance, signed, flight, mutex, listed, trouble, floor>>

----------------------------------------------------------------------------
Expire ==
    /\ fresh(entry) /\ entry' = [entry EXCEPT !.expired = TRUE]
    /\ UNCHANGED <<balance, signed, flight, mutex, listed, job, trouble, floor>>

(* The host's list misses the account for a moment. *)
Relist ==
    /\ IF listed THEN Fails ELSE Answers
    /\ listed' = ~listed
    /\ UNCHANGED <<balance, signed, entry, flight, mutex, job, floor>>

(* The dashboard prunes what is not listed or long expired; past its cap   *)
(* the cache drops its oldest entries, which may be fresh ones.            *)
PruneEntry ==
    /\ entry # NoEntry
    /\ entry' = NoEntry
    /\ UNCHANGED <<balance, signed, flight, mutex, listed, job, trouble, floor>>

(* pruneCheckinLocks forgets the mutex of an account that is not listed,   *)
(* be it held.                                                             *)
pruneCheckinLocks ==
    /\ ~listed /\ mutex.current # 0
    /\ mutex' = [mutex EXCEPT !.current = 0]
    /\ UNCHANGED <<balance, signed, entry, flight, listed, job, trouble, floor>>

Finished == (\A j \in DOMAIN job : job[j].pc = "done") /\ UNCHANGED cacheVars

JobStep(j) ==
    \/ LoadStart(j) \/ EnterFlight(j) \/ FetchDetails(j) \/ StoreDetails(j) \/ WakeWaiters(j)
    \/ ReleaseFlight(j) \/ Joined(j)
    \/ Spend(j) \/ ClaimTrial(j) \/ SkipCheckin(j) \/ InvalidateLoad(j) \/ InvalidateStore(j)
    \/ Lock(j) \/ ReadStatus(j) \/ Perform(j) \/ ReadStatusAgain(j) \/ FetchCredits(j)
    \/ CreditsLoad(j) \/ CreditsStore(j) \/ MergeLoad(j) \/ MergeStore(j) \/ Unlock(j)
    \/ QueryFetch(j) \/ QueryLoad(j) \/ QueryStore(j)

CacheNext == (\E j \in DOMAIN job : JobStep(j)) \/ Expire \/ Relist \/ PruneEntry \/ pruneCheckinLocks \/ Finished

CacheSpec == CacheInit /\ [][CacheNext]_cacheVars

----------------------------------------------------------------------------
(* Once a chat or a trial has dropped the balance, and nobody was storing  *)
(* at that moment what it had read before, no balance from before is       *)
(* cached or reported again: not by a failed fetch that carries the old    *)
(* one over, not by a check-in that merges its status, not to a load that  *)
(* waited for another's flight (cachedAccountDetails in cache.go beside    *)
(* invalidateAccountCredits in lifecycle.go).                              *)
SpentCreditsGone ==
    /\ entry # NoEntry /\ entry.credits # Unknown => entry.credits >= floor
    /\ \A j \in DOMAIN job : job[j].kind \in {"load", "force"} /\ job[j].pc = "done" /\ job[j].credits # Unknown
                         => job[j].credits >= job[j].floor

(* Two check-in calls for one account are never under way at once, unless  *)
(* the host's list missed the account and the dashboard dropped its mutex  *)
(* while it was held (withCheckinLock and pruneCheckinLocks in checkin.go). *)
CheckinsSerial ==
    \A i, j \in DOMAIN job : i # j /\ Is(i, "perform") /\ Is(j, "perform") => mutex.last > 1

=============================================================================
