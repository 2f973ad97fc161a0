---------------------------- MODULE DailyTasks ----------------------------
(***************************************************************************)
(* The scheduler of the daily tasks (checkin.go) and the two growth tasks: *)
(* the activity sweep, which reports chats and then claims the rewards     *)
(* they unlock (wb_growth.go), and the travel sweep, which adopts a buddy  *)
(* and sends it out (wb_travel.go).  A sweep is started by the scheduler   *)
(* or from the panel, makes one call of the backend after another, and     *)
(* keeps what it has already tried today in memory only.                   *)
(*                                                                         *)
(* Every call is a step of its own.  Between two of them the clock may     *)
(* strike, the panel may start a sweep or prune the marks, and the process *)
(* may be restarted.                                                       *)
(***************************************************************************)
EXTENDS Integers, FiniteSets, FiniteSetsExt

CONSTANTS
    Accounts,         \* accounts personalTaskAccounts returns
    HoursPerDay,      \* hours of the model's day
    checkinHours, keepaliveHours, activityHours, travelHours,
    activityReportCount,
    Tiers,            \* days of each streak tier
    Starts,           \* backend states an account may start in
    Off,              \* tasks switched off (activity_auto, travel_auto), for the panel only
    Nobody, NoTier, Unmarked,
    LastHour,         \* bound: hours the model runs
    MaxTroubles       \* bound: failed calls, sweeps from the panel and restarts

ASSUME TasksAssumption ==
    /\ Off \subseteq {"activity", "travel"}
    /\ HoursPerDay \in Nat \ {0} /\ activityReportCount \in Nat \ {0}
    /\ UNION {checkinHours, keepaliveHours, activityHours, travelHours} \subseteq 0..(HoursPerDay - 1)
    /\ {LastHour, MaxTroubles} \subseteq Nat

(* The chats of a day are topped up before the last journey of the day, and *)
(* not in its first hour, in which the program may have been started.       *)
ASSUME ScheduleAssumption == \E h \in activityHours, k \in travelHours : 0 < h /\ h < k

(* What the backend knows of an account.                                    *)
ASSUME StartsAssumption ==
    Starts \subseteq [global : BOOLEAN, chats : Nat, lit : BOOLEAN, missed : BOOLEAN, days : Nat,
                     claimed : SUBSET Tiers, cards : Nat, gift : BOOLEAN, chances : Nat,
                     buddy : {"none", "idle", "traveling", "arrived"}, limited : BOOLEAN]

VARIABLES
    now,               \* hours since the start
    scheduler,         \* the next wake-up, and the tasks it waits for
    activity, travel,  \* the two sweeps
    growthClaimed,     \* uid -> the day whose claims were reserved
    adoptAttempted,    \* uid -> day and generation of the last adoption
    adoptGeneration,   \* sweeps of activity completed
    backend,           \* uid -> what the growth service knows
    seen               \* history: troubles, what they excuse; per account the day of the last
                       \* redeem, how many were sent for it, and how many of those before
                       \* the last restart

memory == <<growthClaimed, adoptAttempted, adoptGeneration>>
vars == <<now, scheduler, activity, travel, memory, backend, seen>>

----------------------------------------------------------------------------
(* The clock.  cstDate is the day, on which claims and adoptions reset. *)
cstDate == now \div HoursPerDay
Hour == now % HoursPerDay

TaskHours == [checkin |-> checkinHours, keepalive |-> keepaliveHours,
              activity |-> activityHours, travel |-> travelHours]

scheduledActionsFor(hour) == {t \in DOMAIN TaskHours : hour \in TaskHours[t]}

(* The first hour of any task after the present one: today's or tomorrow's. *)
nextCheckinTime(t) ==
    Min({u \in (t + 1)..(t + HoursPerDay) : scheduledActionsFor(u % HoursPerDay) # {}})

----------------------------------------------------------------------------
(* A sweep: its step, who started it, the accounts left, the one at hand   *)
(* and what was read of it.                                                *)
IdleSweep == [pc |-> "idle", by |-> "nobody", todo |-> {}, who |-> Nobody, sent |-> 0,
              day |-> Unmarked, days |-> 0, claimed |-> {}, state |-> "idle"]

Init ==
    /\ now = 0
    /\ scheduler = [pc |-> "sleep", wake |-> nextCheckinTime(0), waits |-> {}]
    /\ activity = IdleSweep /\ travel = IdleSweep
    /\ growthClaimed = [a \in Accounts |-> Unmarked]
    /\ adoptAttempted = [a \in Accounts |-> <<Unmarked, 0>>]
    /\ adoptGeneration = 0
    /\ backend \in [Accounts -> Starts]
    /\ seen = [troubles |-> 0, clean |-> TRUE,
               redeems |-> [a \in Accounts |-> <<Unmarked, 0, 0>>]]

(* A call that fails: the transport broke or the backend answered an error. *)
MayFail == seen.troubles < MaxTroubles
Failed == [seen EXCEPT !.troubles = @ + 1, !.clean = FALSE]

Excuse(failed) == seen' = IF failed THEN Failed ELSE seen

----------------------------------------------------------------------------
(* schedulerLoop: the timer fires, the tasks of the present hour start and *)
(* the loop waits for all of them.                                         *)
Wake ==
    /\ scheduler.pc = "sleep" /\ now >= scheduler.wake
    /\ LET due == scheduledActionsFor(Hour) IN
          scheduler' = IF due = {}
                         THEN [scheduler EXCEPT !.wake = nextCheckinTime(now)]
                         ELSE [scheduler EXCEPT !.pc = "wait", !.waits = due]
    /\ UNCHANGED <<now, activity, travel, memory, backend, seen>>

(* The tasks that are over are no longer waited for; after the last one    *)
(* the loop looks for the next hour, from the time it is then.             *)
TaskOver(t, loop) ==
    LET left == loop.waits \ {t} IN
    IF left = {} THEN [pc |-> "sleep", wake |-> nextCheckinTime(now), waits |-> {}]
    ELSE [loop EXCEPT !.waits = left]

(* runAutoCheckin and runTokenKeepalive end some time (their steps are in  *)
(* the modules of the account's cache and file).                           *)
OtherTaskOver(t) ==
    /\ t \in scheduler.waits \intersect {"checkin", "keepalive"}
    /\ scheduler' = TaskOver(t, scheduler)
    /\ UNCHANGED <<now, activity, travel, memory, backend, seen>>

(* The sweep moves to another step, or on to its next account.             *)
At(sweep, pc) == [sweep EXCEPT !.pc = pc]
NextAccount(sweep) == [sweep EXCEPT !.pc = "next", !.who = Nobody]

(* Who may start a sweep: the scheduler in its hour, the panel unless the  *)
(* task is switched off or running.                                        *)
MayStart(task, sweep, by) ==
    \/ by = "scheduler" /\ task \in scheduler.waits /\ sweep.by # "scheduler"
    \/ by = "panel" /\ task \notin Off /\ sweep.pc = "idle" /\ seen.troubles < MaxTroubles

(* The compare-and-swap of activityRunning and of travelRunning.           *)
BeginSweep(sweep, by, accounts) ==
    IF sweep.pc # "idle" THEN sweep
    ELSE [IdleSweep EXCEPT !.pc = IF accounts = {} THEN "empty" ELSE "next", !.by = by, !.todo = accounts]

(* personalTaskAccounts misses the accounts the host fails to hand out. *)
Finds(sweep, all, found) == found = all \/ (sweep.pc = "idle" /\ MayFail)

AfterBegin(task, sweep, by, missed) ==
    /\ scheduler' = IF by = "scheduler" /\ sweep.pc # "idle" THEN TaskOver(task, scheduler)
                    ELSE scheduler
    /\ seen' = [seen EXCEPT !.troubles = IF by = "panel" \/ missed THEN @ + 1 ELSE @,
                            !.clean = @ /\ ~missed]

AfterEnd(task, sweep) ==
    scheduler' = IF sweep.by = "scheduler" THEN TaskOver(task, scheduler) ELSE scheduler

----------------------------------------------------------------------------
(* runActivityTask. *)
BeginActivity(by) ==
    /\ MayStart("activity", activity, by)
    /\ \E found \in SUBSET Accounts :
          /\ Finds(activity, Accounts, found)
          /\ activity' = BeginSweep(activity, by, found)
          /\ AfterBegin("activity", activity, by, found # Accounts)
    /\ UNCHANGED <<now, travel, memory, backend>>

(* Without accounts the sweep ends here; nothing was topped up. *)
NoActivity ==
    /\ activity.pc = "empty"
    /\ activity' = IdleSweep
    /\ AfterEnd("activity", activity)
    /\ UNCHANGED <<now, travel, memory, backend, seen>>

NextActivity ==
    /\ activity.pc = "next"
    /\ \E a \in activity.todo :
          activity' = [activity EXCEPT !.pc = "report", !.who = a, !.todo = @ \ {a}, !.sent = 0]
    /\ UNCHANGED <<now, scheduler, travel, memory, backend, seen>>

(* Mutant: the generation stays, so a rejected adoption is not retried. *)
generationAfterSame(g) == g

(* The chats are topped up: a rejected adoption deserves another try. *)
generationAfter(g) == g + 1

EndActivity ==
    /\ activity.pc = "next" /\ activity.todo = {}
    /\ activity' = IdleSweep
    /\ adoptGeneration' = generationAfter(adoptGeneration)
    /\ AfterEnd("activity", activity)
    /\ UNCHANGED <<now, travel, growthClaimed, adoptAttempted, backend, seen>>

(* reportActivityFor: a report lights the day; the backend may also drop   *)
(* it silently.  A failed one ends the account's turn.                     *)
Reported(b) ==
    [b EXCEPT !.chats = IF @ < activityReportCount THEN @ + 1 ELSE @,
              !.days = IF b.lit THEN @ ELSE @ + 1,
              !.lit = TRUE]

Report ==
    LET a == activity.who IN
    /\ activity.pc = "report"
    /\ \/ /\ activity' = [activity EXCEPT !.sent = @ + 1,
                           !.pc = IF activity.sent + 1 = activityReportCount THEN "slot" ELSE "report"]
          /\ \/ backend' = [backend EXCEPT ![a] = Reported(@)] /\ UNCHANGED seen
             \/ MayFail /\ Excuse(TRUE) /\ UNCHANGED backend
       \/ MayFail /\ Excuse(TRUE) /\ activity' = NextAccount(activity) /\ UNCHANGED backend
    /\ UNCHANGED <<now, scheduler, travel, memory>>

(* claimGrowthSlot: the day is reserved before the chain runs.             *)
claimGrowthSlot ==
    LET a == activity.who IN
    /\ activity.pc = "slot"
    /\ IF backend[a].global \/ growthClaimed[a] = cstDate
         THEN activity' = NextAccount(activity) /\ UNCHANGED growthClaimed
         ELSE /\ growthClaimed' = [growthClaimed EXCEPT ![a] = cstDate]
              /\ activity' = [activity EXCEPT !.pc = "gift", !.day = cstDate]
    /\ UNCHANGED <<now, scheduler, travel, adoptAttempted, adoptGeneration, backend, seen>>

(* claimGiftPacks: idempotent, failures are ignored. *)
claimGiftPacks ==
    /\ activity.pc = "gift"
    /\ activity' = At(activity, "state")
    /\ \/ backend' = [backend EXCEPT ![activity.who].gift = FALSE] /\ UNCHANGED seen
       \/ MayFail /\ Excuse(TRUE) /\ UNCHANGED backend
    /\ UNCHANGED <<now, scheduler, travel, memory>>

(* GrowthRewardState; when it cannot be read the day is given back. *)
ReadRewardState ==
    LET a == activity.who IN
    /\ activity.pc = "state"
    /\ \/ /\ activity' = [activity EXCEPT !.pc = "makeup", !.days = backend[a].days,
                                          !.claimed = backend[a].claimed]
          /\ UNCHANGED <<growthClaimed, seen>>
       \/ /\ MayFail /\ Excuse(TRUE)
          /\ growthClaimed' = [growthClaimed EXCEPT ![a] = Unmarked]
          /\ activity' = NextAccount(activity)
    /\ UNCHANGED <<now, scheduler, travel, adoptAttempted, adoptGeneration, backend>>

(* makeupYesterday spends a card on a missed yesterday; the state is read  *)
(* again only then, and the old one serves if that fails.  The reading of  *)
(* the cards and of the map may fail, and so may the spending, done or     *)
(* not.                                                                    *)
MadeUp(b) == [b EXCEPT !.cards = @ - 1, !.days = @ + 1, !.missed = FALSE]

makeupYesterday ==
    LET a == activity.who
        applies == backend[a].cards > 0 /\ backend[a].missed
    IN
    /\ activity.pc = "makeup"
    /\ \/ ~applies /\ activity' = At(activity, "redeem") /\ UNCHANGED <<backend, seen>>
       \/ /\ applies
          /\ backend' = [backend EXCEPT ![a] = MadeUp(@)]
          /\ \E reread \in BOOLEAN :
                /\ reread \/ MayFail
                /\ Excuse(~reread)
                /\ activity' = IF reread
                                 THEN [activity EXCEPT !.pc = "redeem", !.days = backend'[a].days,
                                                       !.claimed = backend'[a].claimed]
                                 ELSE At(activity, "redeem")
       \/ /\ MayFail /\ Excuse(TRUE) /\ activity' = At(activity, "redeem")
          /\ \/ UNCHANGED backend
             \/ applies /\ backend' = [backend EXCEPT ![a] = MadeUp(@)]
    /\ UNCHANGED <<now, scheduler, travel, memory>>

(* The highest tier reached and not yet claimed. *)
growthEligibleTier(days, claimed) ==
    LET open == {tier \in Tiers : tier <= days /\ tier \notin claimed}
    IN  IF open = {} THEN NoTier ELSE Max(open)

Redeemed(b, tier) ==
    IF tier > b.days \/ tier \in b.claimed THEN b
    ELSE [b EXCEPT !.claimed = @ \union {tier}, !.chances = @ + 1]

(* Mutant: a redeem that failed gives the day back, as a failed read does. *)
reservationAfterFailedRedeemReleased(a) == Unmarked

(* The redeem may have been committed: the reservation stays. *)
reservationAfterFailedRedeem(a) == growthClaimed[a]

SentNow(r) == r[2] - r[3]

CountRedeem(a) ==
    LET r == seen.redeems[a] IN
    IF r[1] = activity.day THEN <<r[1], r[2] + 1, r[3]>> ELSE <<activity.day, 1, 0>>

(* GrowthRedeem: granted or refused by the backend, or the answer is lost  *)
(* and nobody knows whether it was granted.                                *)
Redeem ==
    LET a == activity.who
        tier == growthEligibleTier(activity.days, activity.claimed)
        counted == [seen EXCEPT !.redeems[a] = CountRedeem(a)]
    IN
    /\ activity.pc = "redeem"
    /\ activity' = At(activity, "lottery")
    /\ \/ tier = NoTier /\ UNCHANGED <<backend, seen, growthClaimed>>
       \/ /\ tier # NoTier
          /\ backend' = [backend EXCEPT ![a] = Redeemed(@, tier)]
          /\ seen' = counted
          /\ UNCHANGED growthClaimed
       \/ /\ tier # NoTier /\ MayFail
          /\ backend' \in {backend, [backend EXCEPT ![a] = Redeemed(@, tier)]}
          /\ seen' = [counted EXCEPT !.troubles = @ + 1, !.clean = FALSE]
          /\ growthClaimed' = [growthClaimed EXCEPT ![a] = reservationAfterFailedRedeem(a)]
    /\ UNCHANGED <<now, scheduler, travel, adoptAttempted, adoptGeneration>>

(* claimGrowthLottery draws until the chances are spent or a call fails:    *)
(* the reading of the chances, or a draw that was counted or not.          *)
claimGrowthLottery ==
    LET a == activity.who IN
    /\ activity.pc = "lottery"
    /\ activity' = NextAccount(activity)
    /\ \/ backend' = [backend EXCEPT ![a].chances = 0] /\ UNCHANGED seen
       \/ /\ MayFail /\ Excuse(TRUE)
          /\ \E left \in 0..backend[a].chances : backend' = [backend EXCEPT ![a].chances = left]
    /\ UNCHANGED <<now, scheduler, travel, memory>>

ActivityStep ==
    \/ NoActivity \/ NextActivity \/ EndActivity \/ Report \/ claimGrowthSlot \/ claimGiftPacks
    \/ ReadRewardState \/ makeupYesterday \/ Redeem \/ claimGrowthLottery

----------------------------------------------------------------------------
(* runTravelTask: one action per account and sweep. *)
cnAccounts == {a \in Accounts : ~backend[a].global}

BeginTravel(by) ==
    /\ MayStart("travel", travel, by)
    /\ \E found \in SUBSET cnAccounts :
          /\ Finds(travel, cnAccounts, found)
          /\ travel' = BeginSweep(travel, by, found)
          /\ AfterBegin("travel", travel, by, found # cnAccounts)
    /\ UNCHANGED <<now, activity, memory, backend>>

NextTravel ==
    /\ travel.pc = "next"
    /\ \E a \in travel.todo : travel' = [travel EXCEPT !.pc = "info", !.who = a, !.todo = @ \ {a}]
    /\ UNCHANGED <<now, scheduler, activity, memory, backend, seen>>

EndTravel ==
    /\ travel.pc \in {"next", "empty"} /\ travel.todo = {}
    /\ travel' = IdleSweep
    /\ AfterEnd("travel", travel)
    /\ UNCHANGED <<now, activity, memory, backend, seen>>

(* travelOne asks for the buddy, then for its journey. *)
BuddyInfo ==
    /\ travel.pc = "info"
    /\ \/ /\ travel' = At(travel, IF backend[travel.who].buddy = "none" THEN "slot" ELSE "status")
          /\ UNCHANGED seen
       \/ MayFail /\ Excuse(TRUE) /\ travel' = NextAccount(travel)
    /\ UNCHANGED <<now, scheduler, activity, memory, backend>>

(* reserveAdoptSlot: one try per day and generation. *)
reserveAdoptSlot ==
    LET a == travel.who
        adoptMark == <<cstDate, adoptGeneration>>
    IN
    /\ travel.pc = "slot"
    /\ IF adoptAttempted[a] = adoptMark
         THEN travel' = NextAccount(travel) /\ UNCHANGED adoptAttempted
         ELSE /\ adoptAttempted' = [adoptAttempted EXCEPT ![a] = adoptMark]
              /\ travel' = At(travel, "agreement")
    /\ UNCHANGED <<now, scheduler, activity, growthClaimed, adoptGeneration, backend, seen>>

(* A failed agreement ends the try; the mark stays. *)
BuddyAgreement ==
    /\ travel.pc = "agreement"
    /\ \/ travel' = At(travel, "first") /\ UNCHANGED seen
       \/ MayFail /\ Excuse(TRUE) /\ travel' = NextAccount(travel)
    /\ UNCHANGED <<now, scheduler, activity, memory, backend>>

(* The backend gives a buddy to who has none and has chatted enough. *)
Adopted(b) ==
    IF b.buddy = "none" /\ b.chats >= activityReportCount THEN [b EXCEPT !.buddy = "idle"] ELSE b

BuddyFirst ==
    LET given == [backend EXCEPT ![travel.who] = Adopted(@)] IN
    /\ travel.pc = "first"
    /\ travel' = NextAccount(travel)
    /\ \/ backend' = given /\ UNCHANGED seen
       \/ MayFail /\ Excuse(TRUE) /\ backend' \in {backend, given}
    /\ UNCHANGED <<now, scheduler, activity, memory>>

TravelStatus ==
    LET b == backend[travel.who] IN
    /\ travel.pc = "status"
    /\ \/ /\ travel' = [travel EXCEPT !.pc = "act",
                         !.state = IF b.buddy = "idle" /\ b.limited THEN "limited" ELSE b.buddy]
          /\ UNCHANGED seen
       \/ MayFail /\ Excuse(TRUE) /\ travel' = NextAccount(travel)
    /\ UNCHANGED <<now, scheduler, activity, memory, backend>>

(* travelDepart and travelClaim act on the state that was read; the        *)
(* backend refuses what no longer applies.                                 *)
Travelled(b, state) ==
    CASE state = "idle" /\ b.buddy = "idle" /\ ~b.limited -> [b EXCEPT !.buddy = "traveling", !.limited = TRUE]
      [] state = "arrived" /\ b.buddy = "arrived" -> [b EXCEPT !.buddy = "idle"]
      [] OTHER -> b

TravelAct ==
    LET done == [backend EXCEPT ![travel.who] = Travelled(@, travel.state)] IN
    /\ travel.pc = "act"
    /\ travel' = NextAccount(travel)
    /\ \/ backend' = done /\ UNCHANGED seen
       \/ /\ travel.state \in {"idle", "arrived"} /\ MayFail /\ Excuse(TRUE)
          /\ backend' \in {backend, done}
    /\ UNCHANGED <<now, scheduler, activity, memory>>

TravelStep ==
    \/ NextTravel \/ EndTravel \/ BuddyInfo \/ reserveAdoptSlot \/ BuddyAgreement
    \/ BuddyFirst \/ TravelStatus \/ TravelAct

----------------------------------------------------------------------------

(* pruneGrowthClaimed and pruneAdoptAttempted, from the dashboard, drop    *)
(* the marks of other days.                                                *)
keptMark(day) == day = cstDate

Prune ==
    /\ growthClaimed' = [a \in Accounts |->
                            IF keptMark(growthClaimed[a]) THEN growthClaimed[a] ELSE Unmarked]
    /\ adoptAttempted' = [a \in Accounts |->
                            IF keptMark(adoptAttempted[a][1]) THEN adoptAttempted[a] ELSE <<Unmarked, 0>>]
    /\ UNCHANGED <<now, scheduler, activity, travel, adoptGeneration, backend, seen>>

(* The process is restarted: nothing of the marks is on disk, and what was *)
(* sent was sent by an earlier life.                                       *)
Restart ==
    /\ seen.troubles < MaxTroubles
    /\ scheduler' = [pc |-> "sleep", wake |-> nextCheckinTime(now), waits |-> {}]
    /\ activity' = IdleSweep /\ travel' = IdleSweep
    /\ growthClaimed' = [a \in Accounts |-> Unmarked]
    /\ adoptAttempted' = [a \in Accounts |-> <<Unmarked, 0>>]
    /\ adoptGeneration' = 0
    /\ seen' = [seen EXCEPT !.troubles = @ + 1, !.clean = FALSE,
                            !.redeems = [a \in Accounts |-> <<@[a][1], @[a][2], @[a][2]>>]]
    /\ UNCHANGED <<now, backend>>

(* The buddy comes home. *)
Arrive ==
    /\ \E a \in Accounts :
          /\ backend[a].buddy = "traveling"
          /\ backend' = [backend EXCEPT ![a].buddy = "arrived"]
    /\ UNCHANGED <<now, scheduler, activity, travel, memory, seen>>

(* A new day: an unlit one was missed, a second in a row ends the streak.  *)
Dawn(b) ==
    [b EXCEPT !.missed = ~b.lit, !.lit = FALSE, !.limited = FALSE,
              !.days = IF b.missed THEN (IF b.lit THEN 1 ELSE 0) ELSE @]

(* The hour strikes.  The day stays clean while the scheduler is asleep    *)
(* and no sweep is running then; a new one starts clean.                   *)
Tick ==
    LET dawn == (now + 1) % HoursPerDay = 0
        ready == /\ scheduler.pc = "sleep" /\ now < scheduler.wake
                 /\ activity.pc = "idle" /\ travel.pc = "idle"
    IN
    /\ now < LastHour
    /\ now' = now + 1
    /\ seen' = [seen EXCEPT !.clean = ready /\ (dawn \/ seen.clean)]
    /\ backend' = IF dawn THEN [a \in Accounts |-> Dawn(backend[a])] ELSE backend
    /\ UNCHANGED <<scheduler, activity, travel, memory>>

----------------------------------------------------------------------------
Next ==
    \/ Wake \/ (\E t \in {"checkin", "keepalive"} : OtherTaskOver(t))
    \/ (\E by \in {"scheduler", "panel"} : BeginActivity(by) \/ BeginTravel(by))
    \/ ActivityStep \/ TravelStep
    \/ Prune \/ Restart \/ Arrive \/ Tick

Spec == Init /\ [][Next]_vars

----------------------------------------------------------------------------
(* A process asks for at most one reward of a day, whatever sweeps, prunes *)
(* and failures follow: the answer of a request that failed is unknown, and *)
(* a second one could be granted twice (claimGrowthSlot,                   *)
(* claimGrowthRewards in wb_growth.go).  It says nothing of what an earlier *)
(* process asked for that day: see RedeemOncePerDay.                       *)
RedeemOncePerLife == \A a \in Accounts : SentNow(seen.redeems[a]) <= 1

(* A day in which no call failed, the process was not restarted and no     *)
(* sweep took longer than to the next hour ends with a buddy for           *)
(* every account of the CN realm: the adoption that is rejected at 09:00,  *)
(* before any chat, is tried again at 21:00, after the activity sweep      *)
(* (adoptGeneration in wb_travel.go, nextCheckinTime in checkin.go).       *)
AdoptedByEvening ==
    /\ seen.clean /\ Hour > Max(travelHours)
    /\ scheduler.pc = "sleep" /\ now < scheduler.wake /\ activity.pc = "idle" /\ travel.pc = "idle"
    => \A a \in cnAccounts : backend[a].buddy # "none"

----------------------------------------------------------------------------
(* What comments in the code say and the code does not guarantee.          *)

(* wb_growth.go: neither a second trigger nor a restart replays the claims *)
(* of a day.                                                               *)
RedeemOncePerDay == \A a \in Accounts : seen.redeems[a][2] <= 1
=============================================================================
