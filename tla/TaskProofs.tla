---------------------------- MODULE TaskProofs ----------------------------
(***************************************************************************)
(* What holds of the daily tasks and of the panel's record of them, for    *)
(* every set of accounts, hours, tiers and streams and any number of       *)
(* failures.                                                               *)
(*                                                                         *)
(* The reward of a day is asked for at most once.  The count of requests   *)
(* alone is not inductive: it needs that a day asked for is still reserved *)
(* while it lasts, and that a sweep which holds a reservation has not      *)
(* asked for that day yet.                                                 *)
(*                                                                         *)
(* A clean day ends with a buddy for every account.  The invariant follows *)
(* the schedule: in the hour of activity the sweep is still awaited, under *)
(* way with every account still to be fed in it, or over, and then all     *)
(* have chatted and no mark is of the new generation; in the last hour of  *)
(* travel the same of the buddies.                                         *)
(*                                                                         *)
(* The rows of the panel reach their files.  While anything is marked for  *)
(* writing the files may lag; what is preserved instead is that memory     *)
(* holds the rows due, and that the flusher's snapshot of a stream nobody  *)
(* appended to is that memory, or already in the file.                     *)
(*                                                                         *)
(* The jobs on the cached details of an account: a check-in is inside its  *)
(* section only with the mutex that was current when it entered, so two at *)
(* once hold two mutexes; and no entry, and no job about to store or to    *)
(* report one, holds a balance from before the last drop that crossed      *)
(* nobody's storing.                                                       *)
(***************************************************************************)
EXTENDS DailyTasks, PanelStore, AccountCache, SequenceTheorems, WellFoundedInduction, TLAPS

(* The day of the clock does not go back.                                   *)
LEMMA DayGrows ==
    ASSUME NEW t \in Nat
    PROVE  /\ t \div HoursPerDay \in Nat
           /\ t \div HoursPerDay <= (t + 1) \div HoursPerDay
BY TasksAssumption

-----------------------------------------------------------------------------
(* Shapes: the fields that a sweep and the history have.                    *)
SweepShape(s) ==
    s \in [pc : {s.pc}, by : {s.by}, todo : {s.todo}, who : {s.who},
           sent : {s.sent}, day : {s.day}, days : {s.days},
           claimed : {s.claimed}, state : {s.state}]

SeenShape(h) ==
    h \in [troubles : {h.troubles}, clean : {h.clean},
           redeems : [Accounts -> (Nat \union {Unmarked}) \X Nat \X Nat]]

(* The steps of a turn, and those with the day reserved, the reward not yet *)
(* asked for.                                                               *)
Reserving == {"gift", "state", "makeup", "redeem"}
Turn      == Reserving \union {"report", "slot", "lottery"}

ActivityOK(s) ==
    /\ SweepShape(s)
    /\ s.todo \subseteq Accounts
    /\ s.pc \in Turn \union {"idle", "empty", "next"}
    /\ s.pc \in Turn => s.who \in Accounts
    /\ s.pc \in Reserving => s.day \in Nat

Asked(a, d) == SentNow(seen.redeems[a]) = 1 /\ seen.redeems[a][1] = d

(* A day that was asked for is past, or reserved still.                     *)
AskedReserved ==
    \A a \in Accounts :
        /\ SentNow(seen.redeems[a]) \in {0, 1}
        /\ SentNow(seen.redeems[a]) = 1 =>
              /\ seen.redeems[a][1] \in Nat /\ seen.redeems[a][1] <= cstDate
              /\ seen.redeems[a][1] = cstDate => growthClaimed[a] = cstDate

(* The day a sweep holds is reserved while it lasts, and what was asked for *)
(* before is of an earlier day.                                             *)
HeldNotAsked ==
    activity.pc \in Reserving =>
        /\ activity.day <= cstDate
        /\ activity.day = cstDate => growthClaimed[activity.who] = cstDate
        /\ SentNow(seen.redeems[activity.who]) = 1 =>
              seen.redeems[activity.who][1] < activity.day

RedeemInv ==
    /\ now \in Nat
    /\ growthClaimed = [a \in Accounts |-> growthClaimed[a]]
    /\ SeenShape(seen)
    /\ ActivityOK(activity)
    /\ AskedReserved /\ HeldNotAsked

(* Moving to another step or account keeps the other fields of a sweep.     *)
LEMMA SweepMoves ==
    ASSUME NEW s, SweepShape(s), NEW pc
    PROVE  /\ SweepShape(At(s, pc)) /\ At(s, pc).pc = pc
           /\ At(s, pc).todo = s.todo /\ At(s, pc).who = s.who
           /\ At(s, pc).day = s.day
           /\ SweepShape(NextAccount(s)) /\ NextAccount(s).pc = "next"
           /\ NextAccount(s).todo = s.todo
BY DEF At, NextAccount, SweepShape

(* A failed call changes neither the shape of the history nor its redeems.  *)
LEMMA FailedKeeps ==
    ASSUME SeenShape(seen)
    PROVE  SeenShape(Failed) /\ Failed.redeems = seen.redeems
BY DEF SeenShape, Failed

(* What holds at the start.                                                 *)
LEMMA RedeemInit == Init => RedeemInv
<1> SUFFICES ASSUME Init PROVE RedeemInv  OBVIOUS
<1>1. now \in Nat
      /\ growthClaimed = [a \in Accounts |-> growthClaimed[a]]
  BY DEF Init
<1>2. SeenShape(seen)  BY DEF Init, SeenShape
<1>3. ActivityOK(activity)
  BY DEF Init, ActivityOK, SweepShape, IdleSweep, Turn, Reserving
<1>4. \A a \in Accounts : seen.redeems[a] = <<Unmarked, 0, 0>>  BY DEF Init
<1>5. AskedReserved
  <2>1. \A a \in Accounts : SentNow(seen.redeems[a]) = 0  BY <1>4 DEF SentNow
  <2> QED  BY <2>1 DEF AskedReserved
<1>6. HeldNotAsked
  BY DEF Init, HeldNotAsked, IdleSweep, Reserving
<1> QED  BY <1>1, <1>2, <1>3, <1>5, <1>6 DEF RedeemInv

(* A step within one hour that sends no request for a reward and touches no *)
(* reservation keeps the invariant, if the activity sweep ends up well      *)
(* formed and either holds what it held or holds nothing.                   *)
LEMMA QuietStep ==
    ASSUME RedeemInv, now' = now, growthClaimed' = growthClaimed,
           SeenShape(seen)', seen'.redeems = seen.redeems,
           ActivityOK(activity)',
           \/ activity'.pc \notin Reserving
           \/ /\ activity.pc \in Reserving /\ activity'.who = activity.who
              /\ activity'.day = activity.day
    PROVE  RedeemInv'
<1>1. cstDate' = cstDate  BY DEF cstDate
<1>2. AskedReserved'  BY <1>1 DEF RedeemInv, AskedReserved
<1>3. HeldNotAsked'  BY <1>1 DEF RedeemInv, HeldNotAsked
<1> QED  BY <1>2, <1>3 DEF RedeemInv

(* The compare-and-swap leaves a running sweep alone and starts an idle one *)
(* with nothing reserved.                                                   *)
LEMMA BeginActivityKeeps ==
    ASSUME RedeemInv, NEW by, BeginActivity(by) PROVE RedeemInv'
<1>1. PICK found \in SUBSET Accounts :
        /\ activity' = BeginSweep(activity, by, found)
        /\ AfterBegin("activity", activity, by, found # Accounts)
  BY DEF BeginActivity
<1>2. SeenShape(seen)' /\ seen'.redeems = seen.redeems
  BY <1>1 DEF AfterBegin, RedeemInv, SeenShape
<1>3. UNCHANGED <<now, growthClaimed>>  BY DEF BeginActivity, memory
<1>4. CASE activity' = activity
  BY <1>2, <1>3, <1>4, QuietStep DEF RedeemInv
<1>5. CASE activity.pc = "idle"
  <2> DEFINE to == IF found = {} THEN "empty" ELSE "next"
  <2>1. activity' = [IdleSweep EXCEPT !.pc = to, !.by = by, !.todo = found]
    BY <1>1, <1>5 DEF BeginSweep
  <2>2. to \in {"empty", "next"}  OBVIOUS
  <2> HIDE DEF to
  <2>3. SweepShape(activity') /\ activity'.pc = to /\ activity'.todo = found
    BY <2>1 DEF IdleSweep, SweepShape
  <2>4. ActivityOK(activity)' /\ activity'.pc \notin Reserving
    BY <2>2, <2>3 DEF ActivityOK, Turn, Reserving
  <2> QED  BY <1>2, <1>3, <2>4, QuietStep
<1> QED  BY <1>1, <1>4, <1>5 DEF BeginSweep

(* The steps of the activity sweep that neither reserve nor ask.            *)
LEMMA ActivityKeeps ==
    ASSUME RedeemInv,
           \/ NoActivity \/ NextActivity \/ EndActivity \/ Report
           \/ claimGiftPacks \/ makeupYesterday \/ claimGrowthLottery
    PROVE  RedeemInv'
<1>1. /\ SweepShape(activity) /\ SeenShape(seen) /\ ActivityOK(activity)
      /\ activity.todo \subseteq Accounts
      /\ activity.pc \in Turn => activity.who \in Accounts
      /\ activity.pc \in Reserving => activity.day \in Nat
  BY DEF RedeemInv, ActivityOK
<1>2. UNCHANGED <<now, growthClaimed>>
  BY DEF NoActivity, NextActivity, EndActivity, Report, claimGiftPacks,
         makeupYesterday, claimGrowthLottery, memory
<1>3. seen' = seen \/ seen' = Failed
  BY DEF NoActivity, NextActivity, EndActivity, Report, claimGiftPacks,
         makeupYesterday, claimGrowthLottery, Excuse
<1>4. SeenShape(seen)' /\ seen'.redeems = seen.redeems
  BY <1>1, <1>3, FailedKeeps DEF SeenShape
<1>5. SUFFICES /\ ActivityOK(activity)'
               /\ \/ activity'.pc \notin Reserving
                  \/ /\ activity.pc \in Reserving
                     /\ activity'.who = activity.who
                     /\ activity'.day = activity.day
  BY <1>2, <1>4, QuietStep
<1>6. ASSUME activity' = IdleSweep
      PROVE  ActivityOK(activity)' /\ activity'.pc \notin Reserving
  BY <1>6 DEF ActivityOK, SweepShape, IdleSweep, Turn, Reserving
<1>7. ASSUME activity' = NextAccount(activity)
      PROVE  ActivityOK(activity)' /\ activity'.pc \notin Reserving
  <2>1. /\ SweepShape(activity') /\ activity'.pc = "next"
        /\ activity'.todo = activity.todo
    BY <1>1, <1>7, SweepMoves
  <2> QED  BY <1>1, <2>1 DEF ActivityOK, Turn, Reserving
<1>8. ASSUME NEW pc \in Reserving, activity.pc \in Reserving,
             activity' = At(activity, pc)
      PROVE  /\ ActivityOK(activity)'
             /\ activity'.who = activity.who /\ activity'.day = activity.day
  <2>1. /\ SweepShape(activity') /\ activity'.pc = pc
        /\ activity'.todo = activity.todo /\ activity'.who = activity.who
        /\ activity'.day = activity.day
    BY <1>1, <1>8, SweepMoves
  <2> QED  BY <1>1, <1>8, <2>1 DEF ActivityOK, Turn
<1>9. CASE NoActivity \/ EndActivity
  BY <1>6, <1>9 DEF NoActivity, EndActivity
<1>10. CASE NextActivity
  <2>1. PICK a \in activity.todo :
          activity' = [activity EXCEPT !.pc = "report", !.who = a,
                                       !.todo = @ \ {a}, !.sent = 0]
    BY <1>10 DEF NextActivity
  <2>2. /\ SweepShape(activity') /\ activity'.pc = "report"
        /\ activity'.who = a /\ activity'.todo = activity.todo \ {a}
    BY <1>1, <2>1 DEF SweepShape
  <2> QED  BY <1>1, <2>1, <2>2 DEF ActivityOK, Turn, Reserving
<1>11. CASE Report
  <2>1. CASE activity' = NextAccount(activity)  BY <1>7, <2>1
  <2>2. CASE activity' # NextAccount(activity)
    <3> DEFINE to == IF activity.sent + 1 = activityReportCount THEN "slot"
                     ELSE "report"
    <3>1. activity' = [activity EXCEPT !.sent = @ + 1, !.pc = to]
      BY <1>11, <2>2 DEF Report
    <3>2. to \in {"slot", "report"} /\ activity.pc = "report"
      BY <1>11 DEF Report
    <3> HIDE DEF to
    <3>3. /\ SweepShape(activity') /\ activity'.pc = to
          /\ activity'.who = activity.who /\ activity'.todo = activity.todo
      BY <1>1, <3>1 DEF SweepShape
    <3> QED  BY <1>1, <3>2, <3>3 DEF ActivityOK, Turn, Reserving
  <2> QED  BY <2>1, <2>2
<1>12. CASE claimGiftPacks
  <2>1. activity.pc = "gift" /\ activity' = At(activity, "state")
    BY <1>12 DEF claimGiftPacks
  <2> QED  BY <1>8, <2>1 DEF Reserving
<1>13. CASE makeupYesterday
  <2>1. activity.pc = "makeup"  BY <1>13 DEF makeupYesterday
  <2>2. CASE activity' = At(activity, "redeem")
    BY <1>8, <2>1, <2>2 DEF Reserving
  <2>3. CASE activity' # At(activity, "redeem")
    <3>1. activity' = [activity EXCEPT !.pc = "redeem",
                          !.days = backend'[activity.who].days,
                          !.claimed = backend'[activity.who].claimed]
      BY <1>13, <2>3 DEF makeupYesterday
    <3>2. /\ SweepShape(activity') /\ activity'.pc = "redeem"
          /\ activity'.who = activity.who /\ activity'.todo = activity.todo
          /\ activity'.day = activity.day
      BY <1>1, <3>1 DEF SweepShape
    <3> QED  BY <1>1, <2>1, <3>2 DEF ActivityOK, Turn, Reserving
  <2> QED  BY <2>2, <2>3
<1>14. CASE claimGrowthLottery
  BY <1>7, <1>14 DEF claimGrowthLottery
<1> QED  BY <1>9, <1>10, <1>11, <1>12, <1>13, <1>14

(* Everything else that leaves the activity sweep alone and lets no time    *)
(* pass.                                                                    *)
LEMMA OthersKeep ==
    ASSUME RedeemInv,
           \/ Wake \/ (\E t \in {"checkin", "keepalive"} : OtherTaskOver(t))
           \/ (\E by \in {"scheduler", "panel"} : BeginTravel(by))
           \/ TravelStep \/ Arrive \/ UNCHANGED vars
    PROVE  RedeemInv'
<1>1. SeenShape(seen) /\ ActivityOK(activity)  BY DEF RedeemInv
<1>2. UNCHANGED <<now, activity, growthClaimed>>
  BY DEF Wake, OtherTaskOver, BeginTravel, TravelStep, NextTravel, EndTravel,
         BuddyInfo, reserveAdoptSlot, BuddyAgreement, BuddyFirst, TravelStatus,
         TravelAct, Arrive, vars, memory
<1>3. \/ seen' = seen \/ seen' = Failed
      \/ \E by, missed : AfterBegin("travel", travel, by, missed)
  BY DEF Wake, OtherTaskOver, BeginTravel, TravelStep, NextTravel, EndTravel,
         BuddyInfo, reserveAdoptSlot, BuddyAgreement, BuddyFirst, TravelStatus,
         TravelAct, Arrive, vars, Excuse
<1>4. ASSUME NEW by, NEW missed, AfterBegin("travel", travel, by, missed)
      PROVE  SeenShape(seen)' /\ seen'.redeems = seen.redeems
  BY <1>1, <1>4 DEF AfterBegin, SeenShape
<1>5. SeenShape(seen)' /\ seen'.redeems = seen.redeems
  BY <1>1, <1>3, <1>4, FailedKeeps DEF SeenShape
<1>6. ActivityOK(activity)'  BY <1>1, <1>2
<1> QED  BY <1>2, <1>5, <1>6, QuietStep

(* The reservation is made only for a day that was not asked for.           *)
LEMMA SlotKeeps ==
    ASSUME RedeemInv, claimGrowthSlot PROVE RedeemInv'
<1> DEFINE a == activity.who
<1>1. /\ SweepShape(activity) /\ SeenShape(seen) /\ now \in Nat
      /\ activity.todo \subseteq Accounts /\ activity.pc = "slot"
      /\ a \in Accounts /\ UNCHANGED <<now, seen>>
  BY DEF RedeemInv, ActivityOK, claimGrowthSlot, Turn
<1>2. cstDate' = cstDate /\ cstDate \in Nat  BY <1>1, DayGrows DEF cstDate
<1>3. CASE UNCHANGED growthClaimed /\ activity' = NextAccount(activity)
  <2>1. /\ SweepShape(activity') /\ activity'.pc = "next"
        /\ activity'.todo = activity.todo
    BY <1>1, <1>3, SweepMoves
  <2>2. ActivityOK(activity)' /\ activity'.pc \notin Reserving
    BY <1>1, <2>1 DEF ActivityOK, Turn, Reserving
  <2>3. SeenShape(seen)' /\ seen'.redeems = seen.redeems  BY <1>1
  <2> QED  BY <1>1, <1>3, <2>2, <2>3, QuietStep
<1>4. CASE /\ growthClaimed[a] # cstDate
           /\ growthClaimed' = [growthClaimed EXCEPT ![a] = cstDate]
           /\ activity' = [activity EXCEPT !.pc = "gift", !.day = cstDate]
  <2>1. /\ SweepShape(activity') /\ activity'.pc = "gift"
        /\ activity'.todo = activity.todo /\ activity'.who = a
        /\ activity'.day = cstDate
    BY <1>1, <1>4 DEF SweepShape
  <2>2. ActivityOK(activity)'
    BY <1>1, <1>2, <2>1 DEF ActivityOK, Turn, Reserving
  <2>3. /\ growthClaimed' = [b \in Accounts |-> growthClaimed'[b]]
        /\ growthClaimed'[a] = cstDate
        /\ \A b \in Accounts \ {a} : growthClaimed'[b] = growthClaimed[b]
    BY <1>1, <1>4 DEF RedeemInv
  <2>4. AskedReserved'
    BY <1>1, <1>2, <2>3 DEF RedeemInv, AskedReserved
  <2>5. HeldNotAsked'
    <3>1. SentNow(seen.redeems[a]) = 1 =>
             /\ seen.redeems[a][1] \in Nat /\ seen.redeems[a][1] <= cstDate
             /\ seen.redeems[a][1] # cstDate
      BY <1>1, <1>4 DEF RedeemInv, AskedReserved
    <3>2. SentNow(seen.redeems[a]) = 1 => seen.redeems[a][1] < cstDate
      BY <1>2, <3>1
    <3> QED  BY <1>1, <1>2, <2>1, <2>3, <3>2 DEF HeldNotAsked
  <2>6. SeenShape(seen)' /\ now' \in Nat  BY <1>1
  <2> QED  BY <2>2, <2>3, <2>4, <2>5, <2>6 DEF RedeemInv
<1> QED  BY <1>3, <1>4 DEF claimGrowthSlot

(* A state that could not be read gives back a day not asked for.           *)
LEMMA ReadKeeps ==
    ASSUME RedeemInv, ReadRewardState PROVE RedeemInv'
<1> DEFINE a == activity.who
<1>1. /\ SweepShape(activity) /\ SeenShape(seen) /\ now \in Nat
      /\ activity.todo \subseteq Accounts /\ activity.pc = "state"
      /\ activity.pc \in Reserving
      /\ a \in Accounts /\ activity.day \in Nat /\ now' = now
  BY DEF RedeemInv, ActivityOK, ReadRewardState, Turn, Reserving
<1>2. cstDate' = cstDate /\ cstDate \in Nat  BY <1>1, DayGrows DEF cstDate
<1>3. CASE /\ activity' = [activity EXCEPT !.pc = "makeup",
                              !.days = backend[a].days,
                              !.claimed = backend[a].claimed]
           /\ UNCHANGED <<growthClaimed, seen>>
  <2>1. /\ SweepShape(activity') /\ activity'.pc = "makeup"
        /\ activity'.todo = activity.todo /\ activity'.who = a
        /\ activity'.day = activity.day
    BY <1>1, <1>3 DEF SweepShape
  <2>2. ActivityOK(activity)'
    BY <1>1, <2>1 DEF ActivityOK, Turn, Reserving
  <2>3. SeenShape(seen)' /\ seen'.redeems = seen.redeems  BY <1>1, <1>3
  <2> QED  BY <1>1, <1>3, <2>1, <2>2, <2>3, QuietStep
<1>4. CASE /\ seen' = Failed
           /\ growthClaimed' = [growthClaimed EXCEPT ![a] = Unmarked]
           /\ activity' = NextAccount(activity)
  <2>1. /\ SweepShape(activity') /\ activity'.pc = "next"
        /\ activity'.todo = activity.todo
    BY <1>1, <1>4, SweepMoves
  <2>2. ActivityOK(activity)' /\ HeldNotAsked'
    BY <1>1, <2>1 DEF ActivityOK, HeldNotAsked, Turn, Reserving
  <2>3. SeenShape(seen)' /\ seen'.redeems = seen.redeems
    BY <1>1, <1>4, FailedKeeps
  <2>4. /\ growthClaimed' = [b \in Accounts |-> growthClaimed'[b]]
        /\ \A b \in Accounts \ {a} : growthClaimed'[b] = growthClaimed[b]
    BY <1>1, <1>4 DEF RedeemInv
  <2>5. /\ SentNow(seen.redeems[a]) = 1 => seen.redeems[a][1] < activity.day
        /\ activity.day <= cstDate
    BY <1>1 DEF RedeemInv, HeldNotAsked
  <2>6. AskedReserved'
    <3> SUFFICES ASSUME NEW b \in Accounts
        PROVE /\ SentNow(seen.redeems[b]) \in {0, 1}
              /\ SentNow(seen.redeems[b]) = 1 =>
                   /\ seen.redeems[b][1] \in Nat /\ seen.redeems[b][1] <= cstDate
                   /\ seen.redeems[b][1] = cstDate => growthClaimed'[b] = cstDate
      BY <1>2, <2>3 DEF AskedReserved
    <3>1. /\ SentNow(seen.redeems[b]) \in {0, 1}
          /\ SentNow(seen.redeems[b]) = 1 =>
               /\ seen.redeems[b][1] \in Nat /\ seen.redeems[b][1] <= cstDate
               /\ seen.redeems[b][1] = cstDate => growthClaimed[b] = cstDate
      BY DEF RedeemInv, AskedReserved
    <3>2. CASE b = a
      <4>1. SentNow(seen.redeems[a]) = 1 => seen.redeems[a][1] # cstDate
        BY <1>1, <1>2, <2>5, <3>1, <3>2
      <4> QED  BY <3>1, <3>2, <4>1
    <3>3. CASE b # a  BY <2>4, <3>1, <3>3
    <3> QED  BY <3>2, <3>3
  <2> QED  BY <1>1, <2>2, <2>3, <2>4, <2>6 DEF RedeemInv
<1> QED  BY <1>3, <1>4 DEF ReadRewardState, Excuse

(* The request for a reward ends the reservation's use: its day now counts  *)
(* as asked for, and stays reserved whatever the answer.                    *)
LEMMA RedeemKeeps ==
    ASSUME RedeemInv, Redeem PROVE RedeemInv'
<1> DEFINE a == activity.who
           d == activity.day
           counted == [seen EXCEPT !.redeems[a] = CountRedeem(a)]
<1>1. /\ SweepShape(activity) /\ SeenShape(seen) /\ now \in Nat
      /\ activity.todo \subseteq Accounts /\ activity.pc = "redeem"
      /\ activity.pc \in Reserving
      /\ a \in Accounts /\ d \in Nat /\ now' = now
      /\ growthClaimed = [b \in Accounts |-> growthClaimed[b]]
  BY DEF RedeemInv, ActivityOK, Redeem, Turn, Reserving
<1>2. cstDate' = cstDate /\ cstDate \in Nat  BY <1>1, DayGrows DEF cstDate
<1>3. /\ SweepShape(activity') /\ activity'.pc = "lottery"
      /\ activity'.todo = activity.todo /\ activity'.who = a
  BY <1>1, SweepMoves DEF Redeem
<1>4. ActivityOK(activity)' /\ HeldNotAsked'
  BY <1>1, <1>3 DEF ActivityOK, HeldNotAsked, Turn, Reserving
<1>5. growthClaimed' = growthClaimed
  BY <1>1 DEF Redeem, reservationAfterFailedRedeem
<1>6. /\ d <= cstDate
      /\ d = cstDate => growthClaimed[a] = cstDate
      /\ SentNow(seen.redeems[a]) = 1 => seen.redeems[a][1] < d
  BY <1>1 DEF RedeemInv, HeldNotAsked
<1>7. /\ CountRedeem(a) \in (Nat \union {Unmarked}) \X Nat \X Nat
      /\ CountRedeem(a)[1] = d /\ SentNow(CountRedeem(a)) = 1
  <2>1. /\ seen.redeems[a] \in (Nat \union {Unmarked}) \X Nat \X Nat
        /\ SentNow(seen.redeems[a]) \in {0, 1}
    BY <1>1 DEF RedeemInv, AskedReserved, SeenShape
  <2>2. seen.redeems[a][1] = d => SentNow(seen.redeems[a]) = 0
    <3>1. SUFFICES ASSUME seen.redeems[a][1] = d, SentNow(seen.redeems[a]) = 1
                   PROVE  FALSE
      BY <2>1
    <3>2. d < d  BY <1>6, <3>1
    <3> QED  BY <1>1, <3>2
  <2> QED  BY <1>1, <2>1, <2>2 DEF CountRedeem, SentNow
<1>8. CASE seen' = seen
  <2>1. SeenShape(seen)' /\ seen'.redeems = seen.redeems  BY <1>1, <1>8
  <2>2. activity'.pc \notin Reserving  BY <1>3 DEF Reserving
  <2> QED  BY <1>1, <1>4, <1>5, <2>1, <2>2, QuietStep
<1>9. CASE \/ seen' = counted
           \/ seen' = [counted EXCEPT !.troubles = @ + 1, !.clean = FALSE]
  <2>1. SeenShape(counted)
        /\ counted.redeems = [seen.redeems EXCEPT ![a] = CountRedeem(a)]
    <3> HIDE DEF d, a
    <3> QED  BY <1>1, <1>7 DEF SeenShape
  <2> HIDE DEF counted
  <2>2. SeenShape(seen)' /\ seen'.redeems = counted.redeems
    BY <1>9, <2>1 DEF SeenShape
  <2>3. /\ seen'.redeems[a] = CountRedeem(a)
        /\ \A b \in Accounts \ {a} : seen'.redeems[b] = seen.redeems[b]
    BY <1>1, <2>1, <2>2 DEF SeenShape
  <2>4. AskedReserved'
    <3> SUFFICES ASSUME NEW b \in Accounts
        PROVE /\ SentNow(seen'.redeems[b]) \in {0, 1}
              /\ SentNow(seen'.redeems[b]) = 1 =>
                   /\ seen'.redeems[b][1] \in Nat /\ seen'.redeems[b][1] <= cstDate
                   /\ seen'.redeems[b][1] = cstDate => growthClaimed[b] = cstDate
      BY <1>2, <1>5 DEF AskedReserved
    <3>1. CASE b = a
      <4>1. seen'.redeems[b][1] = d /\ SentNow(seen'.redeems[b]) = 1  BY <1>7, <2>3, <3>1
      <4> QED  BY <1>1, <1>6, <3>1, <4>1
    <3>2. CASE b # a
      BY <2>3, <3>2 DEF RedeemInv, AskedReserved
    <3> QED  BY <3>1, <3>2
  <2> QED  BY <1>1, <1>4, <1>5, <2>2, <2>4 DEF RedeemInv
<1> QED  BY <1>8, <1>9 DEF Redeem

(* Pruning drops no mark of the present day.                                *)
LEMMA PruneKeeps ==
    ASSUME RedeemInv, Prune PROVE RedeemInv'
<1>1. UNCHANGED <<now, activity, seen>> /\ cstDate' = cstDate
  BY DEF Prune, cstDate
<1>2. /\ growthClaimed' = [b \in Accounts |-> growthClaimed'[b]]
      /\ \A b \in Accounts :
            growthClaimed[b] = cstDate => growthClaimed'[b] = cstDate
  BY DEF Prune, keptMark
<1>3. /\ SeenShape(seen) /\ ActivityOK(activity) /\ now \in Nat
      /\ AskedReserved /\ HeldNotAsked
      /\ activity.pc \in Reserving => activity.who \in Accounts
  BY DEF RedeemInv, ActivityOK, Turn
<1>4. SeenShape(seen)' /\ ActivityOK(activity)'  BY <1>1, <1>3
<1>5. AskedReserved'  BY <1>1, <1>2, <1>3 DEF AskedReserved
<1>6. HeldNotAsked'  BY <1>1, <1>2, <1>3 DEF HeldNotAsked
<1> QED  BY <1>1, <1>2, <1>3, <1>4, <1>5, <1>6 DEF RedeemInv

(* To a new life of the process all that was sent was sent before.          *)
LEMMA RestartKeeps ==
    ASSUME RedeemInv, Restart PROVE RedeemInv'
<1>1. /\ now' \in Nat
      /\ growthClaimed' = [b \in Accounts |-> growthClaimed'[b]]
  BY DEF Restart, RedeemInv
<1>2. SeenShape(seen)  BY DEF RedeemInv
<1>3. ActivityOK(activity)' /\ HeldNotAsked'
  BY DEF Restart, ActivityOK, HeldNotAsked, SweepShape, IdleSweep, Turn,
         Reserving
<1>4. seen'.redeems =
        [b \in Accounts |-> <<seen.redeems[b][1], seen.redeems[b][2], seen.redeems[b][2]>>]
  BY <1>2 DEF Restart, SeenShape
<1>5. SeenShape(seen)'  BY <1>2, <1>4 DEF Restart, SeenShape
<1>6. AskedReserved'
  <2>1. ASSUME NEW b \in Accounts PROVE SentNow(seen'.redeems[b]) = 0
    BY <1>2, <1>4 DEF SeenShape, SentNow
  <2> QED  BY <2>1 DEF AskedReserved
<1> QED  BY <1>1, <1>3, <1>5, <1>6 DEF RedeemInv

(* A day that begins makes all that was asked for a thing of the past.      *)
LEMMA TickKeeps ==
    ASSUME RedeemInv, Tick PROVE RedeemInv'
<1>1. /\ SeenShape(seen) /\ ActivityOK(activity) /\ now \in Nat
      /\ AskedReserved /\ HeldNotAsked
      /\ activity.pc \in Reserving => activity.who \in Accounts
      /\ activity.pc \in Reserving => activity.day \in Nat
      /\ growthClaimed = [b \in Accounts |-> growthClaimed[b]]
  BY DEF RedeemInv, ActivityOK, Turn
<1>2. now' = now + 1 /\ UNCHANGED <<activity, growthClaimed>>
  BY DEF Tick, memory
<1>3. SeenShape(seen)' /\ seen'.redeems = seen.redeems
  BY <1>1 DEF Tick, SeenShape
<1>4. cstDate \in Nat /\ cstDate' \in Nat /\ cstDate <= cstDate'
  <2>1. now + 1 \in Nat  BY <1>1
  <2> QED  BY <1>1, <1>2, <2>1, DayGrows DEF cstDate
<1> HIDE DEF cstDate
<1>5. AskedReserved'
  <2> SUFFICES ASSUME NEW b \in Accounts
      PROVE /\ SentNow(seen.redeems[b]) \in {0, 1}
            /\ SentNow(seen.redeems[b]) = 1 =>
                 /\ seen.redeems[b][1] \in Nat /\ seen.redeems[b][1] <= cstDate'
                 /\ seen.redeems[b][1] = cstDate' => growthClaimed[b] = cstDate'
    BY <1>2, <1>3 DEF AskedReserved
  <2>1. /\ SentNow(seen.redeems[b]) \in {0, 1}
        /\ SentNow(seen.redeems[b]) = 1 =>
             /\ seen.redeems[b][1] \in Nat /\ seen.redeems[b][1] <= cstDate
             /\ seen.redeems[b][1] = cstDate => growthClaimed[b] = cstDate
    BY <1>1 DEF AskedReserved
  <2>2. ASSUME SentNow(seen.redeems[b]) = 1
        PROVE  /\ seen.redeems[b][1] \in Nat /\ seen.redeems[b][1] <= cstDate'
               /\ seen.redeems[b][1] = cstDate' => cstDate' = cstDate
    BY <1>4, <2>1, <2>2
  <2> QED  BY <2>1, <2>2
<1>6. HeldNotAsked'
  <2> SUFFICES ASSUME activity.pc \in Reserving
      PROVE /\ activity.day <= cstDate'
            /\ activity.day = cstDate' => growthClaimed[activity.who] = cstDate'
            /\ SentNow(seen.redeems[activity.who]) = 1 =>
                  seen.redeems[activity.who][1] < activity.day
    BY <1>2, <1>3 DEF HeldNotAsked
  <2>1. /\ activity.day <= cstDate /\ activity.day \in Nat
        /\ activity.day = cstDate => growthClaimed[activity.who] = cstDate
        /\ SentNow(seen.redeems[activity.who]) = 1 =>
              seen.redeems[activity.who][1] < activity.day
    BY <1>1 DEF HeldNotAsked
  <2>2. /\ activity.day <= cstDate'
        /\ activity.day = cstDate' => cstDate' = cstDate
    BY <1>4, <2>1
  <2> QED  BY <2>1, <2>2
<1>7. ActivityOK(activity)' /\ now' \in Nat  BY <1>1, <1>2
<1> QED  BY <1>1, <1>2, <1>3, <1>5, <1>6, <1>7 DEF RedeemInv

(* Every step of the scheduler, the sweeps and their world.                 *)
LEMMA RedeemStep == RedeemInv /\ [Next]_vars => RedeemInv'
<1> SUFFICES ASSUME RedeemInv, [Next]_vars PROVE RedeemInv'  OBVIOUS
<1> QED
  BY BeginActivityKeeps, ActivityKeeps, OthersKeep, SlotKeeps, ReadKeeps,
     RedeemKeeps, PruneKeeps, RestartKeeps, TickKeeps DEF Next, ActivityStep

(* For any accounts, hours and tiers and any number of failed calls, sweeps *)
(* from the panel and prunes, claimGrowthRewards asks for the reward of an  *)
(* account at most once a day in one life of the process, whatever earlier  *)
(* lives asked for.                                                         *)
THEOREM RedeemCorrect == Spec => []RedeemOncePerLife
<1>1. RedeemInv => RedeemOncePerLife
  <2> SUFFICES ASSUME RedeemInv, NEW a \in Accounts
               PROVE  SentNow(seen.redeems[a]) <= 1
    BY DEF RedeemOncePerLife
  <2>1. SentNow(seen.redeems[a]) \in {0, 1}  BY DEF RedeemInv, AskedReserved
  <2> QED  BY <2>1
<1> QED  BY <1>1, RedeemInit, RedeemStep, PTL DEF Spec

-----------------------------------------------------------------------------
(* The evening's adoptions.  First the clock: hours, days and the next hour *)
(* of a task.                                                               *)

(* A product with a factor of at least one, or of at most minus one.        *)
LEMMA AtLeastOnce ==
    ASSUME NEW n \in Nat \ {0}, NEW c \in Int
    PROVE  (c >= 1 => n * c >= n) /\ (c <= -1 => n * c <= -n)
OBVIOUS

(* What division and remainder are.                                         *)
LEMMA DivideAndRest ==
    ASSUME NEW n \in Nat \ {0}, NEW t \in Nat
    PROVE  t % n \in 0..(n - 1) /\ t \div n \in Nat /\ t = n * (t \div n) + (t % n)
OBVIOUS

(* The remainder of a number whose quotient and rest are known.             *)
LEMMA RestOf ==
    ASSUME NEW n \in Nat \ {0}, NEW q \in Nat, NEW r \in 0..(n - 1)
    PROVE  (n * q + r) % n = r
<1> DEFINE u == n * q + r
<1>1. u \in Nat  OBVIOUS
<1> HIDE DEF u
<1>2. u % n \in 0..(n - 1) /\ u \div n \in Nat /\ u = n * (u \div n) + (u % n)
  BY <1>1, DivideAndRest
<1>3. PICK p \in Nat, s \in 0..(n - 1) : s = u % n /\ p = u \div n /\ u = n * p + s
  BY <1>2
<1>4. n * p + s = n * q + r  BY <1>3 DEF u
<1>5. n * (p - q) = r - s /\ p - q \in Int  BY <1>4
<1>6. CASE p - q >= 1  BY <1>5, <1>6, AtLeastOnce
<1>7. CASE p - q <= -1  BY <1>5, <1>7, AtLeastOnce
<1>8. CASE p - q = 0  BY <1>3, <1>5, <1>8 DEF u
<1> QED  BY <1>6, <1>7, <1>8

(* An hour of the day comes within a day.                                   *)
LEMMA HourComes ==
    ASSUME NEW t \in Nat, NEW h \in 0..(HoursPerDay - 1)
    PROVE  \E u \in (t + 1)..(t + HoursPerDay) : u % HoursPerDay = h
<1> DEFINE n == HoursPerDay
           r == t % n
           q == t \div n
<1>1. n \in Nat \ {0} /\ r \in 0..(n - 1) /\ q \in Nat /\ t = n * q + r
  BY TasksAssumption, DivideAndRest
<1>2. PICK m \in Nat \ {0} : m = n  BY <1>1
<1>3. PICK s \in 0..(m - 1), p \in Nat : s = r /\ p = q /\ t = m * p + s  BY <1>1, <1>2
<1>4. CASE h > s
  <2> DEFINE u == m * p + h
  <2>1. u % m = h  BY <1>2, RestOf
  <2>2. m * p \in Nat  OBVIOUS
  <2>3. PICK c \in Nat : c = m * p  BY <2>2
  <2>4. u = c + h /\ t = c + s  BY <1>3, <2>3
  <2> HIDE DEF u
  <2>5. u \in Int /\ t + 1 <= u /\ u <= t + m  BY <1>2, <1>4, <2>4
  <2>6. u \in (t + 1)..(t + HoursPerDay) /\ u % HoursPerDay = h  BY <1>2, <2>1, <2>5
  <2> QED  BY <2>6
<1>5. CASE h <= s
  <2> DEFINE u == m * (p + 1) + h
  <2>1. u % m = h  BY <1>2, RestOf
  <2>2. m * p \in Nat /\ m * (p + 1) = m * p + m  OBVIOUS
  <2>3. u \in Int /\ t + 1 <= u /\ u <= t + m  BY <1>3, <1>5, <2>2
  <2> HIDE DEF u
  <2>4. u \in (t + 1)..(t + HoursPerDay) /\ u % HoursPerDay = h  BY <1>2, <2>1, <2>3
  <2> QED  BY <2>4
<1> QED  BY <1>2, <1>4, <1>5

(* The hour and the day of the next hour.                                   *)
LEMMA HourMoves ==
    ASSUME NEW t \in Nat
    PROVE  /\ t % HoursPerDay \in Nat /\ t % HoursPerDay < HoursPerDay
           /\ \/ (t + 1) % HoursPerDay = 0 /\ (t + 1) \div HoursPerDay = (t \div HoursPerDay) + 1
              \/ /\ (t + 1) % HoursPerDay = (t % HoursPerDay) + 1
                 /\ (t + 1) \div HoursPerDay = t \div HoursPerDay
BY TasksAssumption

Before == {pair \in Nat \X Nat : pair[1] < pair[2]}

(* Every set of natural numbers that is not empty has a least one.          *)
LEMMA LeastOf ==
    ASSUME NEW T \in SUBSET Nat, T # {}
    PROVE  Min(T) \in T /\ \A k \in T : Min(T) <= k
<1>1. IsWellFoundedOn(Before, Nat)
  BY NatLessThanWellFounded DEF OpToRel, Before
<1>2. PICK m \in T : \A k \in T : ~(<<k, m>> \in Before)
  BY <1>1, WFMin
<1>3. \A k \in T : ~(k < m)
  BY <1>2 DEF Before
<1>4. m \in T /\ \A k \in T : m <= k
  BY <1>3
<1> QED  BY <1>4 DEF Min

(* Every bounded one has a greatest.                                        *)
LEMMA GreatestOf ==
    ASSUME NEW T, NEW n \in Nat, T \subseteq 0..n, T # {}
    PROVE  Max(T) \in T /\ \A k \in T : k <= Max(T)
<1> DEFINE U == {m \in Nat : \A k \in T : k <= m}
<1>1. n \in U /\ U \in SUBSET Nat  OBVIOUS
<1>2. Min(U) \in U /\ \A m \in U : Min(U) <= m  BY <1>1, LeastOf
<1> DEFINE m == Min(U)
<1>3. m \in Nat /\ \A k \in T : k \in Nat /\ k <= m  BY <1>2
<1>4. m \in T
  <2> SUFFICES ASSUME m \notin T PROVE FALSE  OBVIOUS
  <2>1. \A k \in T : k <= m - 1 /\ m - 1 \in Nat  BY <1>3
  <2>2. m - 1 \in U  BY <1>3, <2>1
  <2>3. m <= m - 1  BY <1>2, <2>2
  <2> QED  BY <1>3, <2>3
<1>5. \A x \in T : x >= m => x = m  BY <1>3
<1> HIDE DEF m
<1> QED  BY <1>3, <1>4, <1>5 DEF Max

(* The tasks of an hour.                                                    *)
Due(t) == scheduledActionsFor(t % HoursPerDay)

(* The loop sleeps through no hour of a task.                               *)
LEMMA NextTime ==
    ASSUME NEW t \in Nat
    PROVE  /\ nextCheckinTime(t) \in Nat /\ t < nextCheckinTime(t)
           /\ \A u \in Nat : t < u /\ u < nextCheckinTime(t) => Due(u) = {}
<1> DEFINE T == {u \in (t + 1)..(t + HoursPerDay) : Due(u) # {}}
<1>1. nextCheckinTime(t) = Min(T)  BY DEF nextCheckinTime, Due
<1>2. T \in SUBSET Nat  BY TasksAssumption
<1>3. T # {}
  <2>1. PICK h \in activityHours : TRUE  BY ScheduleAssumption
  <2>2. h \in 0..(HoursPerDay - 1)  BY TasksAssumption
  <2>3. PICK u \in (t + 1)..(t + HoursPerDay) : u % HoursPerDay = h  BY <2>2, HourComes
  <2>4. "activity" \in scheduledActionsFor(h)
    BY DEF scheduledActionsFor, TaskHours
  <2>5. Due(u) # {}  BY <2>3, <2>4 DEF Due
  <2> QED  BY <2>5
<1>4. Min(T) \in T /\ \A k \in T : Min(T) <= k  BY <1>2, <1>3, LeastOf
<1>5. Min(T) \in Nat /\ t < Min(T) /\ Min(T) <= t + HoursPerDay  BY <1>4, TasksAssumption
<1>6. ASSUME NEW u \in Nat, t < u, u < Min(T), Due(u) # {}
      PROVE  FALSE
  <2>1. u \in T  BY <1>5, <1>6, TasksAssumption
  <2>2. Min(T) <= u  BY <1>4, <2>1
  <2> QED  BY <1>5, <1>6, <2>2
<1> HIDE DEF T
<1> QED  BY <1>1, <1>5, <1>6

-----------------------------------------------------------------------------
(* The last hour of travel, and an hour of activity before it.              *)
LastTravel == Max(travelHours)
Morning == CHOOSE h \in activityHours : 0 < h /\ h < LastTravel

(* The two hours that matter.                                               *)
LEMMA Schedule ==
    /\ LastTravel \in travelHours /\ Morning \in activityHours
    /\ LastTravel \in 0..(HoursPerDay - 1) /\ Morning \in Nat
    /\ 0 < Morning /\ Morning < LastTravel
    /\ HoursPerDay \in Nat \ {0}
<1>1. travelHours \subseteq 0..(HoursPerDay - 1) /\ activityHours \subseteq 0..(HoursPerDay - 1)
      /\ HoursPerDay \in Nat \ {0} /\ HoursPerDay - 1 \in Nat
  BY TasksAssumption
<1>2. PICK h \in activityHours, k \in travelHours : 0 < h /\ h < k  BY ScheduleAssumption
<1>3. LastTravel \in travelHours /\ k <= LastTravel
  BY <1>1, <1>2, GreatestOf DEF LastTravel
<1>4. h < LastTravel  BY <1>1, <1>2, <1>3
<1>5. Morning \in activityHours /\ 0 < Morning /\ Morning < LastTravel
  BY <1>2, <1>4 DEF Morning
<1> QED  BY <1>1, <1>3, <1>5

(* What the backend knows of an account, by its fields.                     *)
Buddies == {"none", "idle", "traveling", "arrived"}

AccountShape(b) ==
    b \in [global : BOOLEAN, chats : Nat, buddy : Buddies, lit : {b.lit}, missed : {b.missed},
           days : {b.days}, claimed : {b.claimed}, cards : {b.cards}, gift : {b.gift},
           chances : {b.chances}, limited : {b.limited}]

BackendOK ==
    /\ backend = [a \in Accounts |-> backend[a]]
    /\ \A a \in Accounts : AccountShape(backend[a])

(* Chats are not taken back, and a buddy is never lost.                     *)
Keeps(b, c) ==
    /\ AccountShape(c) /\ c.global = b.global /\ c.chats >= b.chats
    /\ b.buddy # "none" => c.buddy # "none"

BackendKeeps ==
    /\ BackendOK'
    /\ \A a \in Accounts : Keeps(backend[a], backend'[a])

(* So does every step of the backend.                                       *)
LEMMA KeepsAll ==
    ASSUME NEW b, AccountShape(b)
    PROVE  /\ Keeps(b, b) /\ Keeps(b, Reported(b)) /\ Keeps(b, MadeUp(b)) /\ Keeps(b, Adopted(b))
           /\ Keeps(b, Dawn(b)) /\ Keeps(b, [b EXCEPT !.gift = FALSE])
           /\ b.buddy = "traveling" => Keeps(b, [b EXCEPT !.buddy = "arrived"])
<1>1. b.chats \in Nat /\ b.chats + 1 \in Nat /\ b.chats + 1 >= b.chats /\ b.chats >= b.chats
  BY DEF AccountShape
<1>2. Keeps(b, b)  BY <1>1 DEF Keeps
<1>3. Keeps(b, Reported(b))
  <2> DEFINE chats == IF b.chats < activityReportCount THEN b.chats + 1 ELSE b.chats
             days == IF b.lit THEN b.days ELSE b.days + 1
  <2>1. chats \in Nat /\ chats >= b.chats  BY <1>1
  <2>2. Reported(b) = [b EXCEPT !.chats = chats, !.days = days, !.lit = TRUE]  BY DEF Reported
  <2> HIDE DEF chats, days
  <2> QED  BY <2>1, <2>2 DEF Keeps, AccountShape
<1>4. Keeps(b, MadeUp(b))  BY <1>1 DEF Keeps, AccountShape, MadeUp
<1>5. Keeps(b, Adopted(b))
  <2>1. Keeps(b, [b EXCEPT !.buddy = "idle"])  BY <1>1 DEF Keeps, AccountShape, Buddies
  <2> QED  BY <1>2, <2>1 DEF Adopted
<1>6. Keeps(b, Dawn(b))
  <2> DEFINE missed == ~b.lit
             days == IF b.missed THEN (IF b.lit THEN 1 ELSE 0) ELSE b.days
  <2>1. Dawn(b) = [b EXCEPT !.missed = missed, !.lit = FALSE, !.limited = FALSE, !.days = days]
    BY DEF Dawn
  <2> HIDE DEF missed, days
  <2> QED  BY <1>1, <2>1 DEF Keeps, AccountShape
<1>7. Keeps(b, [b EXCEPT !.gift = FALSE])  BY <1>1 DEF Keeps, AccountShape
<1>8. b.buddy = "traveling" => Keeps(b, [b EXCEPT !.buddy = "arrived"])
  BY <1>1 DEF Keeps, AccountShape, Buddies
<1> QED  BY <1>2, <1>3, <1>4, <1>5, <1>6, <1>7, <1>8

(* And those that depend on what the caller asks for.                       *)
LEMMA KeepsAsked ==
    ASSUME NEW b, AccountShape(b), NEW x
    PROVE  /\ Keeps(b, Redeemed(b, x)) /\ Keeps(b, Travelled(b, x))
           /\ Keeps(b, [b EXCEPT !.chances = x])
<1>1. b.chats \in Nat /\ b.chats >= b.chats  BY DEF AccountShape
<1>2. Keeps(b, b)  BY KeepsAll
<1>3. Keeps(b, [b EXCEPT !.chances = x])  BY <1>1 DEF Keeps, AccountShape
<1>4. Keeps(b, Redeemed(b, x))
  <2> DEFINE claimed == b.claimed \union {x}
             chances == b.chances + 1
             given == [b EXCEPT !.claimed = claimed, !.chances = chances]
  <2>1. Redeemed(b, x) \in {b, given}  BY DEF Redeemed
  <2> HIDE DEF claimed, chances
  <2>2. Keeps(b, given)  BY <1>1 DEF Keeps, AccountShape
  <2> QED  BY <1>2, <2>1, <2>2
<1>5. Keeps(b, Travelled(b, x))
  <2>1. Keeps(b, [b EXCEPT !.buddy = "traveling", !.limited = TRUE])
    BY <1>1 DEF Keeps, AccountShape, Buddies
  <2>2. Keeps(b, [b EXCEPT !.buddy = "idle"])  BY <1>1 DEF Keeps, AccountShape, Buddies
  <2>3. Travelled(b, x) \in {b, [b EXCEPT !.buddy = "traveling", !.limited = TRUE],
                             [b EXCEPT !.buddy = "idle"]}
    BY DEF Travelled
  <2> QED  BY <1>2, <2>1, <2>2, <2>3
<1> QED  BY <1>3, <1>4, <1>5

(* One account changes.                                                     *)
LEMMA OneKeeps ==
    ASSUME BackendOK, NEW who, NEW c, backend' = [backend EXCEPT ![who] = c],
           who \in Accounts => Keeps(backend[who], c)
    PROVE  BackendKeeps
<1>1. /\ backend' = [a \in Accounts |-> backend'[a]]
      /\ \A a \in Accounts : backend'[a] = IF a = who THEN c ELSE backend[a]
  BY DEF BackendOK
<1>2. \A a \in Accounts : Keeps(backend[a], backend[a])  BY KeepsAll DEF BackendOK
<1>3. \A a \in Accounts : Keeps(backend[a], backend'[a])  BY <1>1, <1>2
<1>4. \A a \in Accounts : AccountShape(backend'[a])  BY <1>3 DEF Keeps
<1> QED  BY <1>1, <1>3, <1>4 DEF BackendKeeps, BackendOK

(* Nothing changes.                                                         *)
LEMMA NoneKeeps == ASSUME BackendOK, UNCHANGED backend PROVE BackendKeeps
<1>1. \A a \in Accounts : Keeps(backend[a], backend[a])  BY KeepsAll DEF BackendOK
<1> QED  BY <1>1 DEF BackendKeeps, BackendOK

(* Every step keeps what the accounts have.                                 *)
LEMMA BackendStep == ASSUME BackendOK, [Next]_vars PROVE BackendKeeps
<1>1. ASSUME NEW who \in Accounts
      PROVE  /\ Keeps(backend[who], Reported(backend[who])) /\ Keeps(backend[who], MadeUp(backend[who]))
             /\ Keeps(backend[who], Adopted(backend[who]))
             /\ Keeps(backend[who], [backend[who] EXCEPT !.gift = FALSE])
             /\ backend[who].buddy = "traveling" =>
                   Keeps(backend[who], [backend[who] EXCEPT !.buddy = "arrived"])
             /\ \A x : /\ Keeps(backend[who], Redeemed(backend[who], x))
                       /\ Keeps(backend[who], Travelled(backend[who], x))
                       /\ Keeps(backend[who], [backend[who] EXCEPT !.chances = x])
             /\ Keeps(backend[who], Dawn(backend[who]))
  <2>1. AccountShape(backend[who])  BY DEF BackendOK
  <2> QED  BY <2>1, KeepsAll, KeepsAsked
<1> DEFINE One(who, c) == backend' = [backend EXCEPT ![who] = c]
           a == activity.who
           t == travel.who
<1>2. CASE UNCHANGED backend  BY <1>2, NoneKeeps
<1>3. CASE One(a, Reported(backend[a])) \/ One(a, MadeUp(backend[a]))
           \/ One(a, [backend[a] EXCEPT !.gift = FALSE])
           \/ (\E x : One(a, Redeemed(backend[a], x)))
           \/ (\E x : One(a, [backend[a] EXCEPT !.chances = x]))
  BY <1>1, <1>3, OneKeeps
<1>4. CASE One(t, Adopted(backend[t])) \/ One(t, Travelled(backend[t], travel.state))
  BY <1>1, <1>4, OneKeeps
<1>5. CASE \E b \in Accounts : backend[b].buddy = "traveling" /\ One(b, [backend[b] EXCEPT !.buddy = "arrived"])
  BY <1>1, <1>5, OneKeeps
<1>6. CASE backend' = [b \in Accounts |-> Dawn(backend[b])]
  <2>1. \A b \in Accounts : backend'[b] = Dawn(backend[b])  BY <1>6
  <2>2. \A b \in Accounts : Keeps(backend[b], backend'[b])  BY <1>1, <2>1
  <2>3. \A b \in Accounts : AccountShape(backend'[b])  BY <2>2 DEF Keeps
  <2>4. backend' = [b \in Accounts |-> backend'[b]]  BY <1>6, <2>1
  <2> QED  BY <2>2, <2>3, <2>4 DEF BackendKeeps, BackendOK
<1>7. \/ UNCHANGED backend
      \/ ActivityStep \/ TravelStep \/ Arrive \/ Tick
  BY DEF Next, vars, Wake, OtherTaskOver, BeginActivity, BeginTravel, Prune, Restart
<1>8. CASE ActivityStep
  <2>1. CASE Report  BY <1>2, <1>3, <2>1 DEF Report
  <2>2. CASE claimGiftPacks  BY <1>2, <1>3, <2>2 DEF claimGiftPacks
  <2>3. CASE makeupYesterday  BY <1>2, <1>3, <2>3 DEF makeupYesterday
  <2>4. CASE Redeem  BY <1>2, <1>3, <2>4 DEF Redeem
  <2>5. CASE claimGrowthLottery  BY <1>2, <1>3, <2>5 DEF claimGrowthLottery
  <2> QED
    BY <1>2, <1>8, <2>1, <2>2, <2>3, <2>4, <2>5
       DEF ActivityStep, NoActivity, NextActivity, EndActivity, claimGrowthSlot, ReadRewardState
<1>9. CASE TravelStep
  <2>1. CASE BuddyFirst  BY <1>2, <1>4, <2>1 DEF BuddyFirst
  <2>2. CASE TravelAct  BY <1>2, <1>4, <2>2 DEF TravelAct
  <2> QED
    BY <1>2, <1>9, <2>1, <2>2
       DEF TravelStep, NextTravel, EndTravel, BuddyInfo, reserveAdoptSlot, BuddyAgreement, TravelStatus
<1>10. CASE Arrive  BY <1>5, <1>10 DEF Arrive
<1>11. CASE Tick  BY <1>2, <1>6, <1>11 DEF Tick
<1> QED  BY <1>2, <1>7, <1>8, <1>9, <1>10, <1>11

(* A sweep after each of the ways it moves.                                 *)
LEMMA IdleIs == SweepShape(IdleSweep) /\ IdleSweep.pc = "idle" /\ IdleSweep.by = "nobody"
BY DEF SweepShape, IdleSweep

(* Moved to another step,                                                   *)
LEMMA AtIs ==
    ASSUME NEW s, SweepShape(s), NEW pc
    PROVE  /\ SweepShape(At(s, pc)) /\ At(s, pc).pc = pc /\ At(s, pc).by = s.by
           /\ At(s, pc).todo = s.todo /\ At(s, pc).who = s.who
BY DEF SweepShape, At

(* and on to the next account.                                              *)
LEMMA NextAccountIs ==
    ASSUME NEW s, SweepShape(s)
    PROVE  /\ SweepShape(NextAccount(s)) /\ NextAccount(s).pc = "next" /\ NextAccount(s).by = s.by
           /\ NextAccount(s).todo = s.todo
BY DEF SweepShape, NextAccount

(* The compare-and-swap.                                                    *)
LEMMA BeginSweepIs ==
    ASSUME NEW s, SweepShape(s), NEW by, NEW accounts
    PROVE  LET t == BeginSweep(s, by, accounts) IN
           /\ s.pc # "idle" => t = s
           /\ s.pc = "idle" => /\ SweepShape(t) /\ t.pc \in {"empty", "next"} /\ t.by = by
                               /\ t.todo = accounts
                               /\ t.pc = "empty" => accounts = {}
<1> DEFINE to == IF accounts = {} THEN "empty" ELSE "next"
<1>1. to \in {"empty", "next"} /\ (to = "empty" => accounts = {})  OBVIOUS
<1>2. BeginSweep(s, by, accounts) =
        IF s.pc # "idle" THEN s ELSE [IdleSweep EXCEPT !.pc = to, !.by = by, !.todo = accounts]
  BY DEF BeginSweep
<1> HIDE DEF to
<1> DEFINE new == [IdleSweep EXCEPT !.pc = to, !.by = by, !.todo = accounts]
<1>3. SweepShape(new) /\ new.pc = to /\ new.by = by /\ new.todo = accounts
  BY DEF IdleSweep, SweepShape
<1> HIDE DEF new
<1> QED  BY <1>1, <1>2, <1>3 DEF new

TravelTurn == {"info", "slot", "agreement", "first", "status", "act"}

(* A turn of the travel sweep: under way before and after, by whom it was.  *)
TravelGoesOn ==
    /\ travel.pc # "idle" /\ travel'.pc # "idle" /\ SweepShape(travel')
    /\ travel'.by = travel.by

(* Every step goes on with the sweep or ends it.                            *)
LEMMA TravelGoes ==
    ASSUME SweepShape(travel), TravelStep
    PROVE  TravelGoesOn \/ (EndTravel /\ travel' = IdleSweep /\ travel.pc # "idle")
<1>1. CASE EndTravel
  BY <1>1 DEF EndTravel
<1>2. travel.pc # "idle"
  BY DEF TravelStep, NextTravel, EndTravel, BuddyInfo, reserveAdoptSlot, BuddyAgreement, BuddyFirst,
         TravelStatus, TravelAct
<1>3. CASE travel' = NextAccount(travel)
  BY <1>2, <1>3, NextAccountIs DEF TravelGoesOn
<1>4. ASSUME NEW pc \in TravelTurn, travel' = At(travel, pc) PROVE TravelGoesOn
  BY <1>2, <1>4, AtIs DEF TravelGoesOn, TravelTurn
<1>5. CASE NextTravel
  <2>1. PICK a : travel' = [travel EXCEPT !.pc = "info", !.who = a, !.todo = @ \ {a}]
    BY <1>5 DEF NextTravel
  <2>2. SweepShape(travel') /\ travel'.pc = "info" /\ travel'.by = travel.by
    BY <2>1 DEF SweepShape
  <2> QED  BY <1>2, <2>2 DEF TravelGoesOn
<1>6. CASE BuddyInfo
  <2> DEFINE to == IF backend[travel.who].buddy = "none" THEN "slot" ELSE "status"
  <2>1. travel' = At(travel, to) \/ travel' = NextAccount(travel)  BY <1>6 DEF BuddyInfo
  <2>2. to \in TravelTurn  BY DEF TravelTurn
  <2> HIDE DEF to
  <2> QED  BY <1>3, <1>4, <2>1, <2>2
<1>7. CASE TravelStatus
  <2>1. travel' = NextAccount(travel) \/ \E y : travel' = [travel EXCEPT !.pc = "act", !.state = y]
    BY <1>7 DEF TravelStatus
  <2>2. ASSUME NEW y, travel' = [travel EXCEPT !.pc = "act", !.state = y] PROVE TravelGoesOn
    <3>1. SweepShape(travel') /\ travel'.pc = "act" /\ travel'.by = travel.by
      BY <2>2 DEF SweepShape
    <3> QED  BY <1>2, <3>1 DEF TravelGoesOn
  <2> QED  BY <1>3, <2>1, <2>2
<1>8. CASE reserveAdoptSlot \/ BuddyAgreement
  <2>1. \/ travel' = NextAccount(travel) \/ travel' = At(travel, "agreement")
        \/ travel' = At(travel, "first")
    BY <1>8 DEF reserveAdoptSlot, BuddyAgreement
  <2>2. {"agreement", "first"} \subseteq TravelTurn  BY DEF TravelTurn
  <2> QED  BY <1>3, <1>4, <2>1, <2>2
<1>9. CASE BuddyFirst \/ TravelAct
  BY <1>3, <1>9 DEF BuddyFirst, TravelAct
<1> QED  BY <1>1, <1>5, <1>6, <1>7, <1>8, <1>9 DEF TravelStep

(* The reports that were sent for the account at hand.                      *)
SentOK == activity.pc = "report" => activity.sent \in Nat /\ activity.sent < activityReportCount

(* The same of the activity sweep; the reports of a turn come first in it.  *)
ActivityGoesOn ==
    /\ activity.pc # "idle" /\ activity'.pc # "idle" /\ SweepShape(activity')
    /\ activity'.by = activity.by

(* A step of the turn that comes after the reports.                         *)
AfterReports ==
    /\ ActivityGoesOn /\ activity.pc # "report" /\ activity'.pc \notin {"report", "empty"}
    /\ activity'.todo = activity.todo

(* Such are the steps of the claims.                                        *)
LEMMA ClaimsGo ==
    ASSUME SweepShape(activity),
           \/ claimGrowthSlot \/ claimGiftPacks \/ ReadRewardState \/ makeupYesterday \/ Redeem
           \/ claimGrowthLottery
    PROVE  AfterReports
<1>1. activity.pc \in {"slot", "gift", "state", "makeup", "redeem", "lottery"}
  BY DEF claimGrowthSlot, claimGiftPacks, ReadRewardState, makeupYesterday, Redeem, claimGrowthLottery
<1>2. CASE activity' = NextAccount(activity)
  BY <1>1, <1>2, NextAccountIs DEF AfterReports, ActivityGoesOn
<1>3. ASSUME NEW pc \in {"state", "redeem", "lottery"}, activity' = At(activity, pc) PROVE AfterReports
  BY <1>1, <1>3, AtIs DEF AfterReports, ActivityGoesOn
<1>4. ASSUME NEW y, activity' = [activity EXCEPT !.pc = "gift", !.day = y] PROVE AfterReports
  <2>1. /\ SweepShape(activity') /\ activity'.pc = "gift" /\ activity'.by = activity.by
        /\ activity'.todo = activity.todo
    BY <1>4 DEF SweepShape
  <2> QED  BY <1>1, <2>1 DEF AfterReports, ActivityGoesOn
<1>5. ASSUME NEW pc \in {"makeup", "redeem"}, NEW y, NEW z,
             activity' = [activity EXCEPT !.pc = pc, !.days = y, !.claimed = z]
      PROVE  AfterReports
  <2>1. /\ SweepShape(activity') /\ activity'.pc = pc /\ activity'.by = activity.by
        /\ activity'.todo = activity.todo
    BY <1>5 DEF SweepShape
  <2> QED  BY <1>1, <1>5, <2>1 DEF AfterReports, ActivityGoesOn
<1>6. CASE claimGrowthSlot
  <2>1. activity' = NextAccount(activity) \/ \E y : activity' = [activity EXCEPT !.pc = "gift", !.day = y]
    BY <1>6 DEF claimGrowthSlot
  <2> QED  BY <1>2, <1>4, <2>1
<1>7. CASE claimGiftPacks \/ Redeem
  <2>1. activity' = At(activity, "state") \/ activity' = At(activity, "lottery")
    BY <1>7 DEF claimGiftPacks, Redeem
  <2> QED  BY <1>3, <2>1
<1>8. CASE ReadRewardState
  <2>1. \/ activity' = NextAccount(activity)
        \/ \E y, z : activity' = [activity EXCEPT !.pc = "makeup", !.days = y, !.claimed = z]
    BY <1>8 DEF ReadRewardState
  <2> QED  BY <1>2, <1>5, <2>1
<1>9. CASE makeupYesterday
  <2>1. \/ activity' = At(activity, "redeem")
        \/ \E y, z : activity' = [activity EXCEPT !.pc = "redeem", !.days = y, !.claimed = z]
    BY <1>9, Zenon DEF makeupYesterday
  <2> QED  BY <1>3, <1>5, <2>1
<1>10. CASE claimGrowthLottery  BY <1>2, <1>10 DEF claimGrowthLottery
<1> QED  BY <1>6, <1>7, <1>8, <1>9, <1>10

(* The next account's reports begin.                                        *)
LEMMA NextActivityIs ==
    ASSUME SweepShape(activity), NextActivity
    PROVE  /\ ActivityGoesOn /\ activity'.pc = "report" /\ activity'.sent = 0
           /\ activity'.todo = activity.todo \ {activity'.who}
<1>1. PICK a : activity' = [activity EXCEPT !.pc = "report", !.who = a, !.todo = @ \ {a}, !.sent = 0]
  BY DEF NextActivity
<1>2. /\ SweepShape(activity') /\ activity'.pc = "report" /\ activity'.by = activity.by
      /\ activity'.sent = 0 /\ activity'.who = a /\ activity'.todo = activity.todo \ {a}
  BY <1>1 DEF SweepShape
<1>3. activity.pc = "next"  BY DEF NextActivity
<1> QED  BY <1>2, <1>3 DEF ActivityGoesOn

(* A report is sent, or fails.                                              *)
LEMMA ReportIs ==
    ASSUME SweepShape(activity), SentOK, Report
    PROVE  /\ ActivityGoesOn /\ SentOK' /\ activity.pc = "report" /\ activity'.todo = activity.todo
           /\ \/ activity'.pc = "next" /\ seen' = Failed
              \/ /\ activity'.who = activity.who /\ activity'.sent = activity.sent + 1
                 /\ \/ activity'.pc = "report"
                    \/ activity'.pc = "slot" /\ activity.sent + 1 = activityReportCount
                 /\ \/ seen' = Failed
                    \/ backend' = [backend EXCEPT ![activity.who] = Reported(backend[activity.who])]
<1>1. activity.pc = "report" /\ activity.sent \in Nat /\ activity.sent < activityReportCount
  BY DEF Report, SentOK
<1>2. CASE activity' = NextAccount(activity) /\ seen' = Failed
  BY <1>1, <1>2, NextAccountIs DEF ActivityGoesOn, SentOK
<1>3. CASE ~(activity' = NextAccount(activity) /\ seen' = Failed)
  <2> DEFINE n == activity.sent + 1
             to == IF n = activityReportCount THEN "slot" ELSE "report"
  <2>1. /\ activity' = [activity EXCEPT !.sent = n, !.pc = to]
        /\ \/ seen' = Failed
           \/ backend' = [backend EXCEPT ![activity.who] = Reported(backend[activity.who])]
    BY <1>3, Zenon DEF Report, Excuse
  <2>2. /\ to \in {"slot", "report"} /\ n \in Nat /\ n = activity.sent + 1
        /\ to = "report" => n < activityReportCount
        /\ to = "slot" => n = activityReportCount
    BY <1>1, TasksAssumption
  <2> HIDE DEF n, to
  <2>3. /\ SweepShape(activity') /\ activity'.pc = to /\ activity'.sent = n
        /\ activity'.by = activity.by /\ activity'.who = activity.who /\ activity'.todo = activity.todo
    BY <2>1 DEF SweepShape
  <2> QED  BY <1>1, <2>1, <2>2, <2>3 DEF ActivityGoesOn, SentOK
<1> QED  BY <1>2, <1>3

(* Every step of the sweep goes on or ends it.                              *)
LEMMA ActivityGoes ==
    ASSUME SweepShape(activity), SentOK, ActivityStep
    PROVE  /\ \/ ActivityGoesOn
              \/ (EndActivity \/ NoActivity) /\ activity' = IdleSweep /\ activity.pc # "idle"
           /\ SentOK'
<1>1. CASE EndActivity \/ NoActivity
  <2>1. activity' = IdleSweep /\ activity.pc # "idle"  BY <1>1 DEF EndActivity, NoActivity
  <2> QED  BY <1>1, <2>1, IdleIs DEF SentOK
<1>2. CASE NextActivity
  <2>1. 0 \in Nat /\ 0 < activityReportCount  BY TasksAssumption
  <2> QED  BY <1>2, <2>1, NextActivityIs DEF SentOK
<1>3. CASE Report  BY <1>3, ReportIs
<1>4. CASE \/ claimGrowthSlot \/ claimGiftPacks \/ ReadRewardState \/ makeupYesterday \/ Redeem
           \/ claimGrowthLottery
  BY <1>4, ClaimsGo DEF AfterReports, SentOK
<1> QED  BY <1>1, <1>2, <1>3, <1>4 DEF ActivityStep

(* The marks of the adoptions that were tried.                              *)
MarksOK ==
    /\ adoptGeneration \in Nat
    /\ adoptAttempted \in [Accounts -> (Nat \union {Unmarked}) \X Nat]
    /\ \A a \in Accounts : adoptAttempted[a][2] <= adoptGeneration

(* No mark is ever of a generation to come.                                 *)
LEMMA MarksStep == ASSUME now \in Nat, MarksOK, [Next]_vars PROVE MarksOK'
<1>1. <<Unmarked, 0>> \in (Nat \union {Unmarked}) \X Nat /\ <<Unmarked, 0>>[2] = 0  OBVIOUS
<1>2. CASE UNCHANGED <<adoptAttempted, adoptGeneration>>  BY <1>2 DEF MarksOK
<1>3. CASE EndActivity
  <2>1. adoptGeneration' = adoptGeneration + 1 /\ UNCHANGED adoptAttempted
    BY <1>3 DEF EndActivity, generationAfter
  <2>2. \A a \in Accounts : adoptAttempted[a][2] \in Nat  BY DEF MarksOK
  <2> QED  BY <2>1, <2>2 DEF MarksOK
<1>4. CASE reserveAdoptSlot
  <2> DEFINE a == travel.who
             mark == <<cstDate, adoptGeneration>>
  <2>1. mark \in (Nat \union {Unmarked}) \X Nat /\ mark[2] = adoptGeneration /\ adoptGeneration <= adoptGeneration
    BY DayGrows DEF MarksOK, cstDate
  <2>2. /\ UNCHANGED adoptGeneration
        /\ adoptAttempted' = adoptAttempted \/ adoptAttempted' = [adoptAttempted EXCEPT ![a] = mark]
    BY <1>4 DEF reserveAdoptSlot
  <2> HIDE DEF mark
  <2> QED  BY <2>1, <2>2 DEF MarksOK
<1>5. CASE Prune
  <2>1. UNCHANGED adoptGeneration  BY <1>5 DEF Prune
  <2>2. ASSUME NEW a \in Accounts
        PROVE  /\ adoptAttempted'[a] \in (Nat \union {Unmarked}) \X Nat
               /\ adoptAttempted'[a][2] <= adoptGeneration
    <3>1. adoptAttempted'[a] \in {adoptAttempted[a], <<Unmarked, 0>>}  BY <1>5 DEF Prune
    <3>2. 0 <= adoptGeneration  BY DEF MarksOK
    <3> QED  BY <1>1, <3>1, <3>2 DEF MarksOK
  <2>3. adoptAttempted' = [a \in Accounts |-> adoptAttempted'[a]]  BY <1>5 DEF Prune
  <2> QED  BY <2>1, <2>2, <2>3 DEF MarksOK
<1>6. CASE Restart
  <2>1. adoptGeneration' = 0 /\ adoptAttempted' = [a \in Accounts |-> <<Unmarked, 0>>]
    BY <1>6 DEF Restart
  <2> QED  BY <1>1, <2>1 DEF MarksOK
<1> QED
  BY <1>2, <1>3, <1>4, <1>5, <1>6
     DEF Next, vars, memory, Wake, OtherTaskOver, BeginActivity, BeginTravel, Arrive, Tick,
         ActivityStep, NoActivity, NextActivity, Report, claimGrowthSlot, claimGiftPacks,
         ReadRewardState, makeupYesterday, Redeem, claimGrowthLottery,
         TravelStep, NextTravel, EndTravel, BuddyInfo, BuddyAgreement, BuddyFirst, TravelStatus, TravelAct

-----------------------------------------------------------------------------
(* The loop is asleep exactly when it waits for nothing, and does not sleep *)
(* through the hour of a task.                                              *)
LoopOK ==
    /\ scheduler \in [pc : {"sleep", "wait"}, wake : Nat, waits : {scheduler.waits}]
    /\ scheduler.pc = "sleep" <=> scheduler.waits = {}
    /\ scheduler.pc = "sleep" => \A u \in Nat : now < u /\ u < scheduler.wake => Due(u) = {}

(* A task of this hour is not over yet.                                     *)
Awaited(task) ==
    \/ scheduler.pc = "sleep" /\ scheduler.wake <= now
    \/ scheduler.pc = "wait" /\ task \in scheduler.waits

(* Who falls asleep looks for the next hour.                                *)
LEMMA FallsAsleep ==
    ASSUME now \in Nat, now' = now,
           scheduler' = [pc |-> "sleep", wake |-> nextCheckinTime(now), waits |-> {}]
    PROVE  LoopOK' /\ scheduler'.waits = {}
<1>1. /\ nextCheckinTime(now) \in Nat
      /\ \A u \in Nat : now < u /\ u < nextCheckinTime(now) => Due(u) = {}
  BY NextTime
<1>2. PICK w \in Nat : w = nextCheckinTime(now)  BY <1>1
<1>3. scheduler'.pc = "sleep" /\ scheduler'.wake = w /\ scheduler'.waits = {}
      /\ scheduler' \in [pc : {"sleep", "wait"}, wake : Nat, waits : {scheduler'.waits}]
  BY <1>2
<1>4. \A u : Due(u)' = Due(u)  BY DEF Due, scheduledActionsFor, TaskHours
<1> QED  BY <1>1, <1>2, <1>3, <1>4 DEF LoopOK

(* A task is over: the others are waited for still.                         *)
LEMMA TaskOverIs ==
    ASSUME now \in Nat, now' = now, LoopOK, NEW t, t \in scheduler.waits,
           scheduler' = TaskOver(t, scheduler)
    PROVE  /\ LoopOK' /\ scheduler'.waits = scheduler.waits \ {t}
           /\ \A x : x # t /\ Awaited(x) => Awaited(x)'
<1> DEFINE left == scheduler.waits \ {t}
<1>1. scheduler.pc = "wait"  BY DEF LoopOK
<1>2. CASE left = {}
  <2>1. scheduler' = [pc |-> "sleep", wake |-> nextCheckinTime(now), waits |-> {}]
    BY <1>2 DEF TaskOver
  <2>2. LoopOK' /\ scheduler'.waits = {}  BY <2>1, FallsAsleep
  <2>3. \A x : x # t => ~Awaited(x)  BY <1>1, <1>2 DEF Awaited
  <2> QED  BY <1>2, <2>2, <2>3
<1>3. CASE left # {}
  <2>1. scheduler' = [scheduler EXCEPT !.waits = left]  BY <1>3 DEF TaskOver
  <2> HIDE DEF left
  <2>2. /\ scheduler' \in [pc : {"sleep", "wait"}, wake : Nat, waits : {scheduler'.waits}]
        /\ scheduler'.pc = "wait" /\ scheduler'.waits = left
    BY <1>1, <2>1 DEF LoopOK
  <2>3. LoopOK'  BY <1>3, <2>2 DEF LoopOK
  <2>4. \A x : x # t /\ Awaited(x) => Awaited(x)'  BY <1>1, <2>2 DEF Awaited, left
  <2> QED  BY <2>2, <2>3, <2>4 DEF left
<1> QED  BY <1>2, <1>3

(* Nothing happens to the loop.                                             *)
LEMMA LoopStays ==
    ASSUME LoopOK, UNCHANGED <<now, scheduler>>
    PROVE  LoopOK' /\ \A x : Awaited(x) => Awaited(x)'
<1>1. \A u : Due(u)' = Due(u)  BY DEF Due, scheduledActionsFor, TaskHours
<1> QED  BY <1>1 DEF LoopOK, Awaited

(* The timer fires: the tasks of the hour are started.                      *)
LEMMA WakeIs ==
    ASSUME now \in Nat, LoopOK, Wake
    PROVE  /\ LoopOK' /\ scheduler.waits = {}
           /\ \A x : x \in Due(now) => Awaited(x)'
<1> DEFINE due == scheduledActionsFor(Hour)
<1>1. scheduler.pc = "sleep" /\ scheduler.waits = {} /\ now' = now /\ due = Due(now)
  BY DEF Wake, LoopOK, Due, Hour
<1>2. CASE due = {}
  <2>1. scheduler' = [scheduler EXCEPT !.wake = nextCheckinTime(now)]  BY <1>2 DEF Wake
  <2>2. PICK w \in Nat : w = nextCheckinTime(now)  BY NextTime
  <2>3. scheduler' = [pc |-> "sleep", wake |-> w, waits |-> {}]
    BY <1>1, <2>1, <2>2 DEF LoopOK
  <2>4. LoopOK'  BY <1>1, <2>2, <2>3, FallsAsleep
  <2> QED  BY <1>1, <1>2, <2>4
<1>3. CASE due # {}
  <2>1. scheduler' = [scheduler EXCEPT !.pc = "wait", !.waits = due]  BY <1>3 DEF Wake
  <2> HIDE DEF due
  <2>2. /\ scheduler' \in [pc : {"sleep", "wait"}, wake : Nat, waits : {scheduler'.waits}]
        /\ scheduler'.pc = "wait" /\ scheduler'.waits = due
    BY <2>1 DEF LoopOK
  <2>3. LoopOK'  BY <1>3, <2>2 DEF LoopOK
  <2> QED  BY <1>1, <2>2, <2>3 DEF Awaited
<1> QED  BY <1>2, <1>3

(* The hour strikes: the loop sleeps on, unless the hour has a task.        *)
LEMMA LoopTicks ==
    ASSUME now \in Nat, LoopOK, now' = now + 1, UNCHANGED scheduler
    PROVE  /\ LoopOK'
           /\ scheduler.pc = "sleep" /\ Due(now + 1) # {} => \A x : Awaited(x)'
<1>1. \A u : Due(u)' = Due(u)  BY DEF Due, scheduledActionsFor, TaskHours
<1>2. scheduler.wake \in Nat  BY DEF LoopOK
<1>3. LoopOK'
  <2>1. scheduler'.pc = "sleep" => \A u \in Nat : now' < u /\ u < scheduler'.wake => Due(u)' = {}
    <3> SUFFICES ASSUME scheduler.pc = "sleep", NEW u \in Nat, now + 1 < u, u < scheduler.wake
                 PROVE  Due(u) = {}
      BY <1>1
    <3>1. now < u  OBVIOUS
    <3> QED  BY <3>1 DEF LoopOK
  <2> QED  BY <2>1 DEF LoopOK
<1>4. ASSUME scheduler.pc = "sleep", Due(now + 1) # {} PROVE scheduler.wake <= now + 1
  <2> SUFFICES ASSUME now + 1 < scheduler.wake PROVE FALSE  BY <1>2
  <2>1. now + 1 \in Nat /\ now < now + 1  OBVIOUS
  <2> QED  BY <1>4, <2>1 DEF LoopOK
<1> QED  BY <1>3, <1>4 DEF Awaited

(* Has chatted enough to adopt; needs no buddy, or has one.                 *)
Fed(a) == backend[a].chats >= activityReportCount
Housed(a) == backend[a].global \/ backend[a].buddy # "none"

(* The adoption of an account is being tried.                               *)
Trying(a) == travel.who = a /\ travel.pc \in {"agreement", "first"}

(* An account that has chatted enough and was not tried since: a try of     *)
(* this generation is under way, or has given it a buddy.                   *)
Topped(a) ==
    /\ Fed(a) /\ adoptGeneration >= 1
    /\ adoptAttempted[a] = <<cstDate, adoptGeneration>> => Housed(a) \/ Trying(a)

AllTopped == \A a \in Accounts : Topped(a)
AllHoused == \A a \in Accounts : Housed(a)

(* A sweep of activity under way has fed an account, or will.               *)
Feeds(a) ==
    \/ Fed(a) \/ a \in activity.todo
    \/ activity.pc = "report" /\ activity.who = a /\ backend[a].chats >= activity.sent

(* A sweep of travel has found a buddy, or comes to try.                    *)
Visits(a) ==
    \/ Housed(a) \/ a \in travel.todo
    \/ travel.who = a /\ travel.pc \in {"info", "slot", "agreement", "first"}

(* Without accounts a sweep ends before it tops up anything.                *)
AllFeed == (activity.pc = "empty" => Accounts = {}) /\ \A a \in Accounts : Feeds(a)
AllVisited == \A a \in Accounts : Visits(a)

(* A clean day: in the hour of activity the sweep is still to come, under   *)
(* way, or has topped up all accounts; in the last hour of travel likewise. *)
DayOK ==
    seen.clean =>
       /\ Hour > Morning => AllTopped
       /\ Hour = Morning => AllTopped \/ Awaited("activity") \/ activity.pc # "idle"
       /\ Hour > LastTravel => AllHoused
       /\ Hour = LastTravel => AllHoused \/ Awaited("travel") \/ travel.pc # "idle"
       /\ activity.pc # "idle" => AllFeed
       /\ travel.pc # "idle" /\ Hour > Morning => AllVisited

(* A sweep the scheduler started is one it waits for.                       *)
ByOK ==
    /\ activity.by = "scheduler" => "activity" \in scheduler.waits
    /\ travel.by = "scheduler" => "travel" \in scheduler.waits

AdoptInv ==
    /\ RedeemInv /\ BackendOK /\ SweepShape(travel) /\ SentOK /\ MarksOK /\ LoopOK /\ ByOK
    /\ DayOK

(* A day that is not clean owes nothing.                                    *)
LEMMA Unclean == ASSUME ~seen'.clean PROVE DayOK'
BY DEF DayOK

(* A failed call makes it one.                                              *)
LEMMA FailedIs == ASSUME SeenShape(seen) PROVE ~Failed.clean
BY DEF SeenShape, Failed

(* What a step within the hour has to keep.                                 *)
LEMMA DayStep ==
    ASSUME DayOK, now' = now, seen'.clean, seen.clean,
           AllTopped => AllTopped', AllHoused => AllHoused',
           (activity.pc # "idle" => AllFeed) /\ activity'.pc # "idle" => AllFeed',
           AllFeed /\ activity.pc # "idle" /\ activity'.pc = "idle" => AllTopped',
           AllTopped /\ (travel.pc # "idle" => AllVisited) /\ travel'.pc # "idle" => AllVisited',
           AllVisited /\ travel.pc # "idle" /\ travel'.pc = "idle" => AllHoused',
           Hour = Morning /\ Awaited("activity") =>
              AllTopped' \/ Awaited("activity")' \/ activity'.pc # "idle",
           Hour = LastTravel /\ Awaited("travel") =>
              AllHoused' \/ Awaited("travel")' \/ travel'.pc # "idle"
    PROVE  DayOK'
<1>1. Hour' = Hour  BY DEF Hour
<1>2. Hour = LastTravel => Hour > Morning
  BY Schedule
<1>3. /\ Hour > Morning => AllTopped
      /\ Hour = Morning => AllTopped \/ Awaited("activity") \/ activity.pc # "idle"
      /\ Hour > LastTravel => AllHoused
      /\ Hour = LastTravel => AllHoused \/ Awaited("travel") \/ travel.pc # "idle"
      /\ activity.pc # "idle" => AllFeed
      /\ travel.pc # "idle" /\ Hour > Morning => AllVisited
  BY DEF DayOK
<1> DEFINE late == Hour > Morning
           later == Hour > LastTravel
<1>4. (late => AllTopped') /\ (later => AllHoused')
  BY <1>3
<1>5. Hour = Morning => AllTopped' \/ Awaited("activity")' \/ activity'.pc # "idle"
  BY <1>3
<1>6. Hour = LastTravel => AllHoused' \/ Awaited("travel")' \/ travel'.pc # "idle"
  BY <1>2, <1>3
<1>7. /\ activity'.pc # "idle" => AllFeed'
      /\ travel'.pc # "idle" /\ late => AllVisited'
  BY <1>3
<1> QED  BY <1>1, <1>4, <1>5, <1>6, <1>7 DEF DayOK

(* What the accounts have is kept.                                          *)
LEMMA AccountsKept ==
    ASSUME BackendOK, BackendKeeps, NEW a \in Accounts
    PROVE  /\ (Fed(a) => Fed(a)') /\ (Housed(a) => Housed(a)')
           /\ backend'[a].chats \in Nat /\ backend[a].chats \in Nat /\ backend'[a].chats >= backend[a].chats
<1>1. AccountShape(backend[a]) /\ Keeps(backend[a], backend'[a])  BY DEF BackendOK, BackendKeeps
<1>2. backend[a].chats \in Nat /\ backend'[a].chats \in Nat /\ backend'[a].chats >= backend[a].chats
  BY <1>1 DEF Keeps, AccountShape
<1>3. Fed(a) => Fed(a)'  BY <1>2, TasksAssumption DEF Fed
<1>4. Housed(a) => Housed(a)'  BY <1>1 DEF Keeps, Housed
<1> QED  BY <1>2, <1>3, <1>4

(* Who has a buddy keeps it.                                                *)
LEMMA HousedStays == ASSUME BackendOK, BackendKeeps, AllHoused PROVE AllHoused'
BY AccountsKept DEF AllHoused

(* Without new marks, and with no try given up, all stay topped up.         *)
LEMMA ToppedStays ==
    ASSUME BackendOK, BackendKeeps, UNCHANGED <<now, adoptAttempted, adoptGeneration>>, AllTopped,
           \A a \in Accounts : Trying(a) => Trying(a)' \/ Housed(a)'
    PROVE  AllTopped'
<1>1. cstDate' = cstDate  BY DEF cstDate
<1>2. ASSUME NEW a \in Accounts PROVE Topped(a)'
  <2>1. Topped(a) /\ (Fed(a) => Fed(a)') /\ (Housed(a) => Housed(a)')  BY AccountsKept DEF AllTopped
  <2> QED  BY <1>1, <2>1 DEF Topped
<1> QED  BY <1>2 DEF AllTopped

(* A travel sweep that is not moved owes what it owed,                      *)
LEMMA VisitedStays ==
    ASSUME BackendOK, BackendKeeps, UNCHANGED travel, AllVisited PROVE AllVisited'
<1>1. ASSUME NEW a \in Accounts PROVE Visits(a)'
  BY AccountsKept DEF AllVisited, Visits
<1> QED  BY <1>1 DEF AllVisited

(* and an activity sweep too.                                               *)
LEMMA FeedStays ==
    ASSUME BackendOK, BackendKeeps, UNCHANGED activity, SentOK, AllFeed PROVE AllFeed'
<1>1. ASSUME NEW a \in Accounts PROVE Feeds(a)'
  <2>1. /\ (Fed(a) => Fed(a)') /\ backend'[a].chats \in Nat /\ backend[a].chats \in Nat
        /\ backend'[a].chats >= backend[a].chats
    BY AccountsKept
  <2>2. Feeds(a)  BY DEF AllFeed
  <2>3. activity.pc = "report" /\ backend[a].chats >= activity.sent => backend'[a].chats >= activity.sent
    BY <2>1 DEF SentOK
  <2> QED  BY <2>1, <2>2, <2>3 DEF Feeds
<1> QED  BY <1>1 DEF AllFeed

(* A step that leaves the travel sweep alone.                               *)
LEMMA BesideTravel ==
    ASSUME AdoptInv, BackendKeeps, UNCHANGED <<now, travel>>, seen'.clean, seen.clean,
           AllTopped => AllTopped', Awaited("travel") => Awaited("travel")',
           (activity.pc # "idle" => AllFeed) /\ activity'.pc # "idle" => AllFeed',
           AllFeed /\ activity.pc # "idle" /\ activity'.pc = "idle" => AllTopped',
           Awaited("activity") =>
              AllTopped' \/ Awaited("activity")' \/ activity'.pc # "idle"
    PROVE  DayOK'
<1>1. BackendOK /\ DayOK  BY DEF AdoptInv
<1>2. (AllHoused => AllHoused') /\ (AllVisited => AllVisited')
  BY <1>1, HousedStays, VisitedStays
<1> QED  BY <1>1, <1>2, DayStep

(* A step that leaves the activity sweep alone.                             *)
LEMMA BesideActivity ==
    ASSUME AdoptInv, BackendKeeps, UNCHANGED <<now, activity>>, seen'.clean, seen.clean,
           AllTopped => AllTopped', Awaited("activity") => Awaited("activity")',
           AllTopped /\ (travel.pc # "idle" => AllVisited) /\ travel'.pc # "idle" => AllVisited',
           AllVisited /\ travel.pc # "idle" /\ travel'.pc = "idle" => AllHoused',
           Awaited("travel") =>
              AllHoused' \/ Awaited("travel")' \/ travel'.pc # "idle"
    PROVE  DayOK'
<1>1. BackendOK /\ DayOK /\ SentOK  BY DEF AdoptInv
<1>2. (AllHoused => AllHoused') /\ (AllFeed => AllFeed')
  BY <1>1, HousedStays, FeedStays
<1> QED  BY <1>1, <1>2, DayStep

(* How a step of one sweep touches the loop: not at all, or its task, which *)
(* the loop waits for, is over.                                             *)
LoopFollows(task, s) ==
    \/ UNCHANGED scheduler
    \/ task \in scheduler.waits /\ scheduler' = TaskOver(task, scheduler) /\ s.pc # "idle"

(* Then the loop sleeps and waits as before, for the other tasks at least.  *)
LEMMA LoopFollowed ==
    ASSUME now \in Nat, now' = now, LoopOK, NEW task, NEW s, LoopFollows(task, s)
    PROVE  /\ LoopOK' /\ scheduler.waits \ {task} \subseteq scheduler'.waits
           /\ \A x : x # task /\ Awaited(x) => Awaited(x)'
           /\ s.pc = "idle" => \A x : Awaited(x) => Awaited(x)'
BY LoopStays, TaskOverIs DEF LoopFollows

(* The sweeps do so,                                                        *)
LEMMA BeginFollows ==
    ASSUME NEW task, NEW s, NEW by, NEW missed, MayStart(task, s, by), SeenShape(seen),
           AfterBegin(task, s, by, missed)
    PROVE  /\ LoopFollows(task, s) /\ (seen'.clean => seen.clean /\ ~missed)
           /\ by = "scheduler" => task \in scheduler.waits
           /\ s.pc = "idle" => UNCHANGED scheduler
<1>1. by = "scheduler" => task \in scheduler.waits  BY DEF MayStart
<1>2. LoopFollows(task, s) /\ (s.pc = "idle" => UNCHANGED scheduler)
  BY <1>1 DEF AfterBegin, LoopFollows
<1>3. seen'.clean = (seen.clean /\ ~missed)  BY DEF AfterBegin, SeenShape
<1> QED  BY <1>1, <1>2, <1>3

(* when they begin and when they end.                                       *)
LEMMA EndFollows ==
    ASSUME NEW task, NEW s, s.by = "scheduler" => task \in scheduler.waits, s.pc # "idle",
           AfterEnd(task, s)
    PROVE  LoopFollows(task, s)
BY DEF AfterEnd, LoopFollows

(* What the invariant says of the parts.                                    *)
LEMMA AdoptParts ==
    ASSUME AdoptInv
    PROVE  /\ now \in Nat /\ SeenShape(seen) /\ SweepShape(activity) /\ SweepShape(travel)
           /\ BackendOK /\ SentOK /\ MarksOK /\ LoopOK /\ ByOK /\ DayOK
BY DEF AdoptInv, RedeemInv, ActivityOK

(* On a clean day the sweep under way comes to everybody.                   *)
LEMMA CleanFeeds ==
    ASSUME AdoptInv, seen.clean PROVE activity.pc # "idle" => AllFeed
BY DEF AdoptInv, DayOK

-----------------------------------------------------------------------------
(* A sweep of activity begins with all accounts, or finds one under way.    *)
LEMMA BeginActivityDay ==
    ASSUME AdoptInv, BackendKeeps, NEW by, BeginActivity(by)
    PROVE  LoopOK' /\ ByOK' /\ DayOK' /\ SentOK'
<1>1. /\ now \in Nat /\ SeenShape(seen) /\ SweepShape(activity) /\ BackendOK /\ SentOK
      /\ LoopOK /\ ByOK /\ MayStart("activity", activity, by)
      /\ UNCHANGED <<now, travel, adoptAttempted, adoptGeneration, backend>>
  BY AdoptParts DEF BeginActivity, memory
<1>2. PICK found \in SUBSET Accounts :
        /\ activity' = BeginSweep(activity, by, found)
        /\ AfterBegin("activity", activity, by, found # Accounts)
  BY DEF BeginActivity
<1>3. /\ LoopFollows("activity", activity) /\ (seen'.clean => seen.clean /\ ~(found # Accounts))
      /\ by = "scheduler" => "activity" \in scheduler.waits
      /\ activity.pc = "idle" => UNCHANGED scheduler
  BY <1>1, <1>2, BeginFollows
<1>4. /\ activity.pc # "idle" => activity' = activity
      /\ activity.pc = "idle" => /\ activity'.pc \in {"empty", "next"} /\ activity'.by = by
                                 /\ activity'.todo = found
                                 /\ activity'.pc = "empty" => found = {}
  BY <1>1, <1>2, BeginSweepIs
<1>5. /\ LoopOK' /\ scheduler.waits \ {"activity"} \subseteq scheduler'.waits
      /\ (Awaited("travel") => Awaited("travel")')
  BY <1>1, <1>3, LoopFollowed
<1>6. activity'.pc # "idle"
  BY <1>4
<1>7. SentOK'
  BY <1>1, <1>4 DEF SentOK
<1>8. ByOK'
  <2>1. travel'.by = "scheduler" => "travel" \in scheduler'.waits
    BY <1>1, <1>5 DEF ByOK
  <2>2. CASE activity.pc = "idle"
    BY <1>3, <1>4, <2>1, <2>2 DEF ByOK
  <2>3. CASE activity.pc # "idle"
    <3>1. activity.by = "scheduler" => UNCHANGED scheduler
      BY <1>1, <1>2 DEF MayStart, AfterBegin
    <3> QED  BY <1>1, <1>4, <2>1, <2>3, <3>1 DEF ByOK
  <2> QED  BY <2>2, <2>3
<1>9. ASSUME seen'.clean PROVE DayOK'
  <2>1. seen.clean /\ found = Accounts  BY <1>3, <1>9
  <2>2. AllTopped => AllTopped'
    BY <1>1, ToppedStays DEF Trying
  <2>3. (activity.pc # "idle" => AllFeed) => AllFeed'
    <3>1. CASE activity.pc = "idle"
      BY <1>4, <2>1, <3>1 DEF AllFeed, Feeds
    <3>2. CASE activity.pc # "idle"
      BY <1>1, <1>4, <3>2, FeedStays
    <3> QED  BY <3>1, <3>2
  <2> QED  BY <1>1, <1>5, <1>6, <1>9, <2>1, <2>2, <2>3, BesideTravel
<1> QED  BY <1>5, <1>7, <1>8, <1>9, Unclean

(* It ends when no account is left: all have chatted, and every mark is of  *)
(* a generation before.                                                     *)
LEMMA EndActivityTops ==
    ASSUME AdoptInv, BackendKeeps, EndActivity, AllFeed PROVE AllTopped'
<1>1. /\ BackendOK /\ MarksOK /\ activity.pc = "next" /\ activity.todo = {}
      /\ adoptGeneration' = adoptGeneration + 1 /\ UNCHANGED <<now, adoptAttempted>>
  BY AdoptParts DEF EndActivity, generationAfter
<1>2. cstDate' = cstDate  BY <1>1 DEF cstDate
<1>3. ASSUME NEW a \in Accounts PROVE Topped(a)'
  <2>1. Fed(a)  BY <1>1 DEF AllFeed, Feeds
  <2>2. Fed(a)'  BY <1>1, <2>1, AccountsKept
  <2>3. adoptGeneration' >= 1 /\ adoptAttempted[a][2] # adoptGeneration'
    BY <1>1 DEF MarksOK
  <2>4. adoptAttempted'[a] # <<cstDate', adoptGeneration'>>
    BY <1>1, <2>3
  <2> QED  BY <2>2, <2>3, <2>4 DEF Topped
<1> QED  BY <1>3 DEF AllTopped

(* A sweep without accounts has found all there are, none.                  *)
LEMMA NoActivityTops == ASSUME NoActivity, AllFeed PROVE AllTopped'
BY DEF NoActivity, AllFeed, AllTopped

(* What a report that got through has done.                                 *)
LEMMA ReportFeeds ==
    ASSUME AdoptInv, BackendKeeps, Report, seen'.clean, AllFeed PROVE AllFeed'
<1> DEFINE who == activity.who
<1>1. /\ SweepShape(activity) /\ SentOK /\ BackendOK /\ SeenShape(seen)
  BY AdoptParts
<1>2. /\ activity.pc = "report" /\ activity'.todo = activity.todo
      /\ \/ activity'.pc = "next" /\ seen' = Failed
         \/ /\ activity'.who = activity.who /\ activity'.sent = activity.sent + 1
            /\ \/ activity'.pc = "report"
               \/ activity'.pc = "slot" /\ activity.sent + 1 = activityReportCount
            /\ \/ seen' = Failed
               \/ backend' = [backend EXCEPT ![who] = Reported(backend[who])]
  BY <1>1, ReportIs
<1>3. seen' # Failed  BY <1>1, FailedIs
<1>4. /\ activity'.who = who /\ activity'.sent = activity.sent + 1
      /\ \/ activity'.pc = "report"
         \/ activity'.pc = "slot" /\ activity.sent + 1 = activityReportCount
      /\ backend' = [backend EXCEPT ![who] = Reported(backend[who])]
  BY <1>2, <1>3
<1>5. ASSUME NEW a \in Accounts PROVE Feeds(a)'
  <2>1. (Fed(a) => Fed(a)') /\ Feeds(a) /\ AccountShape(backend[a])
    BY <1>1, AccountsKept DEF AllFeed, BackendOK
  <2>2. CASE Fed(a) \/ a \in activity.todo
    BY <1>2, <2>1, <2>2 DEF Feeds
  <2>3. CASE who = a /\ backend[a].chats >= activity.sent
    <3>1. /\ activity.sent \in Nat /\ activity.sent < activityReportCount /\ activityReportCount \in Nat
          /\ backend[a].chats \in Nat
      BY <1>1, <1>2, <2>1, TasksAssumption DEF SentOK, AccountShape
    <3>2. backend'[a] = Reported(backend[a])
      BY <1>1, <1>4, <2>3 DEF BackendOK
    <3>3. Reported(backend[a]).chats =
             IF backend[a].chats < activityReportCount THEN backend[a].chats + 1 ELSE backend[a].chats
      <4> DEFINE chats == IF backend[a].chats < activityReportCount THEN backend[a].chats + 1
                          ELSE backend[a].chats
                 days == IF backend[a].lit THEN backend[a].days ELSE backend[a].days + 1
      <4>1. Reported(backend[a]) = [backend[a] EXCEPT !.chats = chats, !.days = days, !.lit = TRUE]
        BY DEF Reported
      <4> HIDE DEF chats, days
      <4>2. Reported(backend[a]).chats = chats  BY <2>1, <4>1 DEF AccountShape
      <4> QED  BY <4>2 DEF chats
    <3>4. backend'[a].chats >= activity.sent + 1  BY <2>3, <3>1, <3>2, <3>3
    <3> QED  BY <1>4, <2>3, <3>4 DEF Feeds, Fed
  <2> QED  BY <2>1, <2>2, <2>3 DEF Feeds
<1> QED  BY <1>4, <1>5 DEF AllFeed

(* A sweep that goes on still feeds all.                                    *)
LEMMA GoesOnFeeding ==
    ASSUME AdoptInv, BackendKeeps, ActivityStep, ActivityGoesOn, seen'.clean, AllFeed PROVE AllFeed'
<1>1. SweepShape(activity) /\ BackendOK /\ SentOK  BY AdoptParts
<1>2. CASE Report  BY <1>2, ReportFeeds
<1>3. CASE NextActivity
  <2>1. /\ activity'.pc = "report" /\ activity'.sent = 0 /\ activity.pc = "next"
        /\ activity'.todo = activity.todo \ {activity'.who}
    BY <1>1, <1>3, NextActivityIs DEF NextActivity
  <2>2. ASSUME NEW a \in Accounts PROVE Feeds(a)'
    <3>1. (Fed(a) => Fed(a)') /\ backend'[a].chats \in Nat /\ Feeds(a)
      BY <1>1, AccountsKept DEF AllFeed
    <3>2. backend'[a].chats >= 0  BY <3>1
    <3> QED  BY <2>1, <3>1, <3>2 DEF Feeds
  <2> QED  BY <2>1, <2>2 DEF AllFeed
<1>4. CASE ~(Report \/ NextActivity)
  <2>1. CASE \/ claimGrowthSlot \/ claimGiftPacks \/ ReadRewardState \/ makeupYesterday \/ Redeem
             \/ claimGrowthLottery
    <3>1. activity.pc # "report" /\ activity'.todo = activity.todo /\ activity.pc # "empty"
      BY <1>1, <2>1, ClaimsGo
         DEF AfterReports, claimGrowthSlot, claimGiftPacks, ReadRewardState, makeupYesterday, Redeem,
             claimGrowthLottery
    <3>2. ASSUME NEW a \in Accounts PROVE Feeds(a)'
      <4>1. (Fed(a) => Fed(a)') /\ Feeds(a)  BY <1>1, AccountsKept DEF AllFeed
      <4> QED  BY <3>1, <4>1 DEF Feeds
    <3>3. activity'.pc # "empty"
      BY <1>1, <2>1, ClaimsGo DEF AfterReports
    <3> QED  BY <3>2, <3>3 DEF AllFeed
  <2>2. ~(EndActivity \/ NoActivity)
    BY IdleIs DEF EndActivity, NoActivity, ActivityGoesOn
  <2> QED  BY <1>4, <2>1, <2>2 DEF ActivityStep
<1> QED  BY <1>2, <1>3, <1>4

(* The steps of the activity sweep.                                         *)
LEMMA ActivityDay ==
    ASSUME AdoptInv, BackendKeeps, ActivityStep
    PROVE  LoopOK' /\ ByOK' /\ DayOK' /\ SentOK'
<1>1. /\ now \in Nat /\ SeenShape(seen) /\ SweepShape(activity) /\ BackendOK /\ SentOK
      /\ LoopOK /\ ByOK
  BY AdoptParts
<1>2. UNCHANGED <<now, travel>>
  BY DEF ActivityStep, NoActivity, NextActivity, EndActivity, Report, claimGrowthSlot, claimGiftPacks,
         ReadRewardState, makeupYesterday, Redeem, claimGrowthLottery
<1>3. seen'.clean => seen.clean
  <2>1. CASE seen' = seen \/ seen' = Failed  BY <1>1, <2>1, FailedIs
  <2>2. CASE Redeem
    <3>1. \A r : [seen EXCEPT !.redeems[activity.who] = r].clean = seen.clean  BY <1>1 DEF SeenShape
    <3>2. \A r : ~[[seen EXCEPT !.redeems[activity.who] = r] EXCEPT !.troubles = @ + 1, !.clean = FALSE].clean
      BY <1>1 DEF SeenShape
    <3> QED  BY <2>2, <3>1, <3>2 DEF Redeem
  <2> QED
    BY <2>1, <2>2
       DEF ActivityStep, NoActivity, NextActivity, EndActivity, Report, claimGrowthSlot, claimGiftPacks,
           ReadRewardState, makeupYesterday, claimGrowthLottery, Excuse
<1>4. /\ SentOK'
      /\ \/ ActivityGoesOn
         \/ (EndActivity \/ NoActivity) /\ activity' = IdleSweep /\ activity.pc # "idle"
  BY <1>1, ActivityGoes
<1>5. CASE ActivityGoesOn
  <2>1. ~(EndActivity \/ NoActivity)
    BY <1>5, IdleIs DEF EndActivity, NoActivity, ActivityGoesOn
  <2>2. UNCHANGED <<scheduler, adoptAttempted, adoptGeneration>>
    BY <2>1 DEF ActivityStep, NextActivity, Report, claimGrowthSlot, claimGiftPacks,
         ReadRewardState, makeupYesterday, Redeem, claimGrowthLottery, memory
  <2>3. LoopOK' /\ \A x : Awaited(x) => Awaited(x)'  BY <1>1, <1>2, <2>2, LoopStays
  <2>4. ByOK'  BY <1>1, <1>2, <1>5, <2>2 DEF ByOK, ActivityGoesOn
  <2>5. ASSUME seen'.clean PROVE DayOK'
    <3>1. AllTopped => AllTopped'  BY <1>1, <1>2, <2>2, ToppedStays DEF Trying
    <3>2. AllFeed => AllFeed'  BY <1>5, <2>5, GoesOnFeeding
    <3>3. activity.pc # "idle" /\ activity'.pc # "idle"  BY <1>5 DEF ActivityGoesOn
    <3> QED  BY <1>2, <1>3, <2>3, <2>5, <3>1, <3>2, <3>3, BesideTravel
  <2> QED  BY <1>4, <2>3, <2>4, <2>5, Unclean
<1>6. CASE (EndActivity \/ NoActivity) /\ activity' = IdleSweep /\ activity.pc # "idle"
  <2>1. LoopFollows("activity", activity)
    BY <1>1, <1>6, EndFollows DEF EndActivity, NoActivity, ByOK
  <2>2. /\ LoopOK' /\ scheduler.waits \ {"activity"} \subseteq scheduler'.waits
        /\ (Awaited("travel") => Awaited("travel")')
    BY <1>1, <1>2, <2>1, LoopFollowed
  <2>3. ByOK'  BY <1>1, <1>2, <1>6, <2>2, IdleIs DEF ByOK
  <2>4. ASSUME seen'.clean PROVE DayOK'
    <3>1. AllFeed  BY <1>3, <1>6, <2>4, CleanFeeds
    <3>2. AllTopped'  BY <1>6, <3>1, EndActivityTops, NoActivityTops
    <3>3. activity'.pc = "idle"  BY <1>6, IdleIs
    <3> QED  BY <1>2, <1>3, <2>2, <2>4, <3>2, <3>3, BesideTravel
  <2> QED  BY <1>4, <2>2, <2>3, <2>4, Unclean
<1> QED  BY <1>4, <1>5, <1>6

Coming == {"info", "slot", "agreement", "first"}

(* A turn that gives nobody up keeps what the sweep owes.                   *)
LEMMA TravelTurns ==
    ASSUME BackendOK, BackendKeeps, UNCHANGED <<now, adoptAttempted, adoptGeneration>>,
           travel'.todo = travel.todo,
           \A a \in Accounts : travel.who = a /\ travel.pc \in Coming =>
              Housed(a)' \/ (travel'.who = a /\ travel'.pc \in Coming),
           \A a \in Accounts : Trying(a) => Trying(a)' \/ Housed(a)'
    PROVE  (AllTopped => AllTopped') /\ (AllVisited => AllVisited')
<1>1. AllTopped => AllTopped'  BY ToppedStays
<1>2. ASSUME AllVisited, NEW a \in Accounts PROVE Visits(a)'
  <2>1. Visits(a) /\ (Housed(a) => Housed(a)')  BY <1>2, AccountsKept DEF AllVisited
  <2> QED  BY <2>1 DEF Visits, Coming
<1> QED  BY <1>1, <1>2 DEF AllVisited

(* The turns of the travel sweep while all are topped up.                   *)
LEMMA TravelOwes ==
    ASSUME AdoptInv, BackendKeeps, TravelStep, ~EndTravel, seen'.clean, AllTopped
    PROVE  AllTopped' /\ (AllVisited => AllVisited')
<1>0. PICK who : who = travel.who  OBVIOUS
<1>1. /\ SweepShape(travel) /\ BackendOK /\ SeenShape(seen) /\ seen' # Failed /\ ~Failed.clean
      /\ who = travel.who
  BY <1>0, AdoptParts, FailedIs
<1>2. ASSUME NEW a \in Accounts PROVE (Fed(a) => Fed(a)') /\ (Housed(a) => Housed(a)')
  BY <1>1, AccountsKept
<1>3. CASE NextTravel
  <2>1. PICK b \in travel.todo : travel' = [travel EXCEPT !.pc = "info", !.who = b, !.todo = @ \ {b}]
    BY <1>3 DEF NextTravel
  <2>2. travel'.pc = "info" /\ travel'.who = b /\ travel'.todo = travel.todo \ {b}
    BY <1>1, <2>1 DEF SweepShape
  <2>3. travel.pc = "next" /\ UNCHANGED <<now, adoptAttempted, adoptGeneration>>
    BY <1>3 DEF NextTravel, memory
  <2>4. AllTopped'  BY <1>1, <2>3, ToppedStays DEF Trying
  <2>5. ASSUME AllVisited, NEW a \in Accounts PROVE Visits(a)'
    <3>1. Visits(a)  BY <2>5 DEF AllVisited
    <3> QED  BY <1>2, <2>2, <2>3, <3>1 DEF Visits
  <2> QED  BY <2>4, <2>5 DEF AllVisited
<1>4. CASE BuddyInfo
  <2> DEFINE to == IF backend[who].buddy = "none" THEN "slot" ELSE "status"
  <2>1. /\ travel.pc = "info" /\ travel' = At(travel, to)
        /\ UNCHANGED <<now, adoptAttempted, adoptGeneration, backend>>
    BY <1>1, <1>4 DEF BuddyInfo, memory, Excuse
  <2>2. travel'.pc = to /\ travel'.who = who /\ travel'.todo = travel.todo
    BY <1>1, <2>1, AtIs
  <2>3. who \in Accounts /\ to # "slot" => Housed(who)'  BY <2>1 DEF Housed
  <2>4. to = "slot" => travel'.pc \in Coming  BY <2>2 DEF Coming
  <2> HIDE DEF to
  <2> QED  BY <1>1, <2>1, <2>2, <2>3, <2>4, TravelTurns DEF Trying
<1>5. CASE reserveAdoptSlot
  <2> DEFINE mark == <<cstDate, adoptGeneration>>
  <2>1. /\ travel.pc = "slot" /\ UNCHANGED <<now, adoptGeneration, backend>>
        /\ \/ adoptAttempted[who] = mark /\ travel' = NextAccount(travel) /\ UNCHANGED adoptAttempted
           \/ travel' = At(travel, "agreement") /\ adoptAttempted' = [adoptAttempted EXCEPT ![who] = mark]
    BY <1>1, <1>5 DEF reserveAdoptSlot
  <2>2. CASE adoptAttempted[who] = mark /\ travel' = NextAccount(travel) /\ UNCHANGED adoptAttempted
    <3>1. travel'.todo = travel.todo  BY <1>1, <2>2, NextAccountIs
    <3>2. who \in Accounts => Housed(who)
      BY <1>1, <2>1, <2>2 DEF AllTopped, Topped, Trying
    <3>3. \A a \in Accounts : ~Trying(a)  BY <2>1 DEF Trying
    <3> QED  BY <1>1, <1>2, <2>1, <2>2, <3>1, <3>2, <3>3, TravelTurns
  <2>3. CASE travel' = At(travel, "agreement") /\ adoptAttempted' = [adoptAttempted EXCEPT ![who] = mark]
    <3>1. travel'.pc = "agreement" /\ travel'.who = who /\ travel'.todo = travel.todo
      BY <1>1, <2>3, AtIs
    <3>2. cstDate' = cstDate  BY <2>1 DEF cstDate
    <3>3. ASSUME NEW a \in Accounts PROVE Topped(a)'
      <4>1. Topped(a)  BY DEF AllTopped
      <4>2. CASE a = who  BY <1>1, <1>2, <2>1, <3>1, <4>1, <4>2 DEF Topped, Trying
      <4>3. CASE a # who
        <5>1. adoptAttempted'[a] = adoptAttempted[a] /\ ~Trying(a)
          BY <1>1, <2>1, <2>3, <4>3, AdoptParts DEF MarksOK, Trying
        <5> QED  BY <1>2, <2>1, <3>2, <4>1, <5>1 DEF Topped
      <4> QED  BY <4>2, <4>3
    <3>4. ASSUME AllVisited, NEW a \in Accounts PROVE Visits(a)'
      <4>1. Visits(a)  BY <3>4 DEF AllVisited
      <4> QED  BY <1>1, <1>2, <2>1, <3>1, <4>1 DEF Visits
    <3> QED  BY <3>3, <3>4 DEF AllTopped, AllVisited
  <2> QED  BY <2>1, <2>2, <2>3
<1>6. CASE BuddyAgreement
  <2>1. /\ travel.pc = "agreement" /\ travel' = At(travel, "first")
        /\ UNCHANGED <<now, adoptAttempted, adoptGeneration, backend>>
    BY <1>1, <1>6 DEF BuddyAgreement, memory, Excuse
  <2>2. travel'.pc = "first" /\ travel'.who = who /\ travel'.todo = travel.todo
    BY <1>1, <2>1, AtIs
  <2> QED  BY <1>1, <2>1, <2>2, TravelTurns DEF Trying, Coming
<1>7. CASE BuddyFirst
  <2>1. /\ travel.pc = "first" /\ travel' = NextAccount(travel)
        /\ backend' = [backend EXCEPT ![who] = Adopted(backend[who])]
        /\ UNCHANGED <<now, adoptAttempted, adoptGeneration>>
    BY <1>1, <1>7 DEF BuddyFirst, memory, Excuse
  <2>2. travel'.todo = travel.todo  BY <1>1, <2>1, NextAccountIs
  <2>3. ASSUME who \in Accounts PROVE Housed(who)'
    <3>1. AccountShape(backend[who]) /\ backend'[who] = Adopted(backend[who])
      BY <1>1, <2>1, <2>3 DEF BackendOK
    <3>2. backend[who].chats >= activityReportCount  BY <2>3 DEF AllTopped, Topped, Fed
    <3>3. [backend[who] EXCEPT !.buddy = "idle"].buddy = "idle"  BY <3>1 DEF AccountShape
    <3>4. backend'[who].buddy # "none"  BY <3>1, <3>2, <3>3 DEF Adopted
    <3> QED  BY <3>4 DEF Housed
  <2> QED  BY <1>1, <2>1, <2>2, <2>3, TravelTurns DEF Trying
<1>8. CASE TravelStatus \/ TravelAct
  <2>1. /\ travel.pc \in {"status", "act"}
        /\ UNCHANGED <<now, adoptAttempted, adoptGeneration>>
        /\ \/ travel' = NextAccount(travel)
           \/ \E y : travel' = [travel EXCEPT !.pc = "act", !.state = y]
    BY <1>8 DEF TravelStatus, TravelAct, memory
  <2>2. ASSUME NEW y, travel' = [travel EXCEPT !.pc = "act", !.state = y]
        PROVE  travel'.todo = travel.todo
    BY <1>1, <2>2 DEF SweepShape
  <2>3. travel'.todo = travel.todo
    <3>1. CASE travel' = NextAccount(travel)  BY <1>1, <3>1, NextAccountIs
    <3> QED  BY <2>1, <2>2, <3>1
  <2>4. travel.pc \notin Coming /\ \A a \in Accounts : ~Trying(a)  BY <2>1 DEF Coming, Trying
  <2> QED  BY <1>1, <2>1, <2>3, <2>4, TravelTurns
<1> QED  BY <1>3, <1>4, <1>5, <1>6, <1>7, <1>8 DEF TravelStep

(* The steps of the travel sweep.                                           *)
LEMMA TravelDay ==
    ASSUME AdoptInv, BackendKeeps, TravelStep
    PROVE  LoopOK' /\ ByOK' /\ DayOK' /\ SweepShape(travel)'
<1>1. /\ now \in Nat /\ SeenShape(seen) /\ SweepShape(travel) /\ BackendOK /\ LoopOK /\ ByOK
  BY AdoptParts
<1>2. UNCHANGED <<now, activity>>
  BY DEF TravelStep, NextTravel, EndTravel, BuddyInfo, reserveAdoptSlot, BuddyAgreement, BuddyFirst,
         TravelStatus, TravelAct
<1>3. seen'.clean => seen.clean
  <2>1. seen' = seen \/ seen' = Failed
    BY DEF TravelStep, NextTravel, EndTravel, BuddyInfo, reserveAdoptSlot, BuddyAgreement, BuddyFirst,
           TravelStatus, TravelAct, Excuse
  <2> QED  BY <1>1, <2>1, FailedIs
<1>4. TravelGoesOn \/ (EndTravel /\ travel' = IdleSweep /\ travel.pc # "idle")
  BY <1>1, TravelGoes
<1>5. CASE TravelGoesOn
  <2>1. ~EndTravel  BY <1>5, IdleIs DEF EndTravel, TravelGoesOn
  <2>2. UNCHANGED scheduler
    BY <2>1 DEF TravelStep, NextTravel, BuddyInfo, reserveAdoptSlot, BuddyAgreement, BuddyFirst,
           TravelStatus, TravelAct
  <2>3. LoopOK' /\ \A x : Awaited(x) => Awaited(x)'  BY <1>1, <1>2, <2>2, LoopStays
  <2>4. ByOK' /\ SweepShape(travel)'  BY <1>1, <1>2, <1>5, <2>2 DEF ByOK, TravelGoesOn
  <2>5. ASSUME seen'.clean PROVE DayOK'
    <3>1. AllTopped => AllTopped' /\ (AllVisited => AllVisited')  BY <2>1, <2>5, TravelOwes
    <3>2. travel.pc # "idle" /\ travel'.pc # "idle"  BY <1>5 DEF TravelGoesOn
    <3> QED  BY <1>2, <1>3, <2>3, <2>5, <3>1, <3>2, BesideActivity
  <2> QED  BY <2>3, <2>4, <2>5, Unclean
<1>6. CASE EndTravel /\ travel' = IdleSweep /\ travel.pc # "idle"
  <2>1. /\ UNCHANGED <<adoptAttempted, adoptGeneration, backend, seen>> /\ AfterEnd("travel", travel)
        /\ travel.pc \in {"next", "empty"} /\ travel.todo = {}
    BY <1>6 DEF EndTravel, memory
  <2>2. LoopFollows("travel", travel)  BY <1>1, <1>6, <2>1, EndFollows DEF ByOK
  <2>3. /\ LoopOK' /\ scheduler.waits \ {"travel"} \subseteq scheduler'.waits
        /\ (Awaited("activity") => Awaited("activity")')
    BY <1>1, <1>2, <2>2, LoopFollowed
  <2>4. ByOK' /\ SweepShape(travel)'  BY <1>1, <1>2, <1>6, <2>3, IdleIs DEF ByOK
  <2>5. ASSUME seen'.clean PROVE DayOK'
    <3>1. AllTopped => AllTopped'
      BY <1>1, <1>2, <2>1, ToppedStays DEF Trying
    <3>2. AllVisited => AllHoused'
      BY <2>1 DEF AllVisited, Visits, AllHoused, Housed
    <3>3. travel'.pc = "idle"  BY <1>6, IdleIs
    <3>4. DayOK /\ (AllHoused => AllHoused') /\ (AllFeed => AllFeed')
      BY <1>1, <1>2, AdoptParts, HousedStays, FeedStays
    <3>5. Hour = LastTravel => AllVisited
      BY <1>3, <1>6, <2>5, <3>4, Schedule DEF DayOK
    <3> QED  BY <1>2, <1>3, <1>6, <2>3, <2>5, <3>1, <3>2, <3>3, <3>4, <3>5, DayStep
  <2> QED  BY <2>3, <2>4, <2>5, Unclean
<1> QED  BY <1>4, <1>5, <1>6

(* A sweep of travel begins with all accounts of the CN realm.              *)
LEMMA BeginTravelDay ==
    ASSUME AdoptInv, BackendKeeps, NEW by, BeginTravel(by)
    PROVE  LoopOK' /\ ByOK' /\ DayOK' /\ SweepShape(travel)'
<1>1. /\ now \in Nat /\ SeenShape(seen) /\ SweepShape(travel) /\ BackendOK
      /\ LoopOK /\ ByOK /\ MayStart("travel", travel, by)
      /\ UNCHANGED <<now, activity, adoptAttempted, adoptGeneration, backend>>
  BY AdoptParts DEF BeginTravel, memory
<1>2. PICK found \in SUBSET cnAccounts :
        /\ travel' = BeginSweep(travel, by, found)
        /\ AfterBegin("travel", travel, by, found # cnAccounts)
  BY DEF BeginTravel
<1>3. /\ LoopFollows("travel", travel) /\ (seen'.clean => seen.clean /\ ~(found # cnAccounts))
      /\ by = "scheduler" => "travel" \in scheduler.waits
      /\ travel.pc = "idle" => UNCHANGED scheduler
  BY <1>1, <1>2, BeginFollows
<1>4. /\ travel.pc # "idle" => travel' = travel
      /\ travel.pc = "idle" => /\ SweepShape(travel') /\ travel'.pc \in {"empty", "next"}
                               /\ travel'.by = by /\ travel'.todo = found
  BY <1>1, <1>2, BeginSweepIs
<1>5. /\ LoopOK' /\ scheduler.waits \ {"travel"} \subseteq scheduler'.waits
      /\ (Awaited("activity") => Awaited("activity")')
  BY <1>1, <1>3, LoopFollowed
<1>6. travel'.pc # "idle" /\ SweepShape(travel)'
  BY <1>1, <1>4
<1>7. ByOK'
  <2>1. activity'.by = "scheduler" => "activity" \in scheduler'.waits
    BY <1>1, <1>5 DEF ByOK
  <2>2. CASE travel.pc = "idle"
    BY <1>3, <1>4, <2>1, <2>2 DEF ByOK
  <2>3. CASE travel.pc # "idle"
    <3>1. travel.by = "scheduler" => UNCHANGED scheduler
      BY <1>1, <1>2 DEF MayStart, AfterBegin
    <3> QED  BY <1>1, <1>4, <2>1, <2>3, <3>1 DEF ByOK
  <2> QED  BY <2>2, <2>3
<1>8. ASSUME seen'.clean PROVE DayOK'
  <2>1. seen.clean /\ found = cnAccounts  BY <1>3, <1>8
  <2>2. AllTopped => AllTopped'
    BY <1>1, <1>4, ToppedStays DEF Trying
  <2>3. (travel.pc # "idle" => AllVisited) => AllVisited'
    <3>1. CASE travel.pc = "idle"
      BY <1>1, <1>4, <2>1, <3>1 DEF AllVisited, Visits, Housed, cnAccounts
    <3>2. CASE travel.pc # "idle"
      BY <1>1, <1>4, <3>2, VisitedStays
    <3> QED  BY <3>1, <3>2
  <2> QED  BY <1>1, <1>5, <1>6, <1>8, <2>1, <2>2, <2>3, BesideActivity
<1> QED  BY <1>5, <1>6, <1>7, <1>8, Unclean

(* The two hours have their tasks.                                          *)
LEMMA DueThen ==
    ASSUME NEW t \in Nat
    PROVE  /\ t % HoursPerDay = Morning => "activity" \in Due(t)
           /\ t % HoursPerDay = LastTravel => "travel" \in Due(t)
BY Schedule DEF Due, scheduledActionsFor, TaskHours

(* The steps of the loop.                                                   *)
LEMMA LoopDay ==
    ASSUME AdoptInv, BackendKeeps, Wake \/ (\E t \in {"checkin", "keepalive"} : OtherTaskOver(t))
    PROVE  LoopOK' /\ ByOK' /\ DayOK'
<1>1. /\ now \in Nat /\ BackendOK /\ LoopOK /\ ByOK /\ DayOK /\ SentOK
      /\ UNCHANGED <<now, activity, travel, adoptAttempted, adoptGeneration, backend, seen>>
  BY AdoptParts DEF Wake, OtherTaskOver, memory
<1>2. /\ LoopOK' /\ ByOK'
      /\ Hour = Morning /\ Awaited("activity") => Awaited("activity")'
      /\ Hour = LastTravel /\ Awaited("travel") => Awaited("travel")'
  <2>1. CASE Wake
    <3>1. LoopOK' /\ scheduler.waits = {} /\ \A x : x \in Due(now) => Awaited(x)'
      BY <1>1, <2>1, WakeIs
    <3>2. ByOK'  BY <1>1, <3>1 DEF ByOK
    <3> QED  BY <1>1, <3>1, <3>2, DueThen DEF Hour
  <2>2. ASSUME NEW t \in {"checkin", "keepalive"}, OtherTaskOver(t)
        PROVE  /\ LoopOK' /\ ByOK'
               /\ Awaited("activity") => Awaited("activity")'
               /\ Awaited("travel") => Awaited("travel")'
    <3>1. t \in scheduler.waits /\ scheduler' = TaskOver(t, scheduler)  BY <2>2 DEF OtherTaskOver
    <3>2. /\ LoopOK' /\ scheduler'.waits = scheduler.waits \ {t}
          /\ \A x : x # t /\ Awaited(x) => Awaited(x)'
      BY <1>1, <3>1, TaskOverIs
    <3>3. t # "activity" /\ t # "travel"  OBVIOUS
    <3>4. ByOK'  BY <1>1, <3>2, <3>3 DEF ByOK
    <3> QED  BY <3>2, <3>3, <3>4
  <2> QED  BY <2>1, <2>2
<1>3. ASSUME seen'.clean PROVE DayOK'
  <2>1. seen.clean  BY <1>1, <1>3
  <2>2. AllTopped => AllTopped'  BY <1>1, ToppedStays DEF Trying
  <2>3. (AllHoused => AllHoused') /\ (AllVisited => AllVisited') /\ (AllFeed => AllFeed')
    BY <1>1, HousedStays, VisitedStays, FeedStays
  <2> QED  BY <1>1, <1>2, <1>3, <2>1, <2>2, <2>3, DayStep
<1> QED  BY <1>2, <1>3, Unclean

(* Pruned marks are not of this generation.                                 *)
LEMMA PruneTops ==
    ASSUME AdoptInv, Prune, AllTopped PROVE AllTopped'
<1>1. UNCHANGED <<now, travel, backend, adoptGeneration>>  BY DEF Prune
<1>2. cstDate' = cstDate  BY <1>1 DEF cstDate
<1>3. ASSUME NEW a \in Accounts PROVE Topped(a)'
  <2>1. Topped(a) /\ adoptGeneration \in Nat  BY AdoptParts DEF AllTopped, MarksOK
  <2>2. adoptAttempted'[a] = adoptAttempted[a] \/ adoptAttempted'[a] = <<Unmarked, 0>>
    BY DEF Prune
  <2>3. adoptGeneration # 0  BY <2>1 DEF Topped
  <2>4. <<Unmarked, 0>> # <<cstDate, adoptGeneration>>  BY <2>3
  <2> QED  BY <1>1, <1>2, <2>1, <2>2, <2>4 DEF Topped, Fed, Housed, Trying
<1> QED  BY <1>3 DEF AllTopped

(* The dashboard prunes, a buddy comes home, or nothing happens.            *)
LEMMA AsideDay ==
    ASSUME AdoptInv, BackendKeeps, Prune \/ Arrive \/ UNCHANGED vars
    PROVE  LoopOK' /\ ByOK' /\ DayOK'
<1>1. /\ now \in Nat /\ BackendOK /\ LoopOK /\ ByOK
      /\ UNCHANGED <<now, activity, travel, scheduler, seen>>
  BY AdoptParts DEF Prune, Arrive, vars
<1>2. LoopOK' /\ (\A x : Awaited(x) => Awaited(x)')  BY <1>1, LoopStays
<1>3. ByOK'  BY <1>1 DEF ByOK
<1>4. AllTopped => AllTopped'
  <2>1. CASE Prune  BY <2>1, PruneTops
  <2>2. CASE UNCHANGED <<adoptAttempted, adoptGeneration>>  BY <1>1, <2>2, ToppedStays DEF Trying
  <2> QED  BY <2>1, <2>2 DEF Arrive, vars, memory
<1>5. AllVisited => AllVisited'  BY <1>1, VisitedStays
<1>6. ASSUME seen'.clean PROVE DayOK'
  BY <1>1, <1>2, <1>4, <1>5, <1>6, BesideActivity
<1> QED  BY <1>2, <1>3, <1>6, Unclean

(* A restart ends the clean day.                                            *)
LEMMA RestartDay ==
    ASSUME AdoptInv, Restart PROVE LoopOK' /\ ByOK' /\ DayOK' /\ SentOK' /\ SweepShape(travel)'
<1>1. /\ now \in Nat /\ SeenShape(seen) /\ now' = now /\ activity' = IdleSweep /\ travel' = IdleSweep
      /\ scheduler' = [pc |-> "sleep", wake |-> nextCheckinTime(now), waits |-> {}]
  BY AdoptParts DEF Restart
<1>2. LoopOK'  BY <1>1, FallsAsleep
<1>3. ByOK' /\ SentOK' /\ SweepShape(travel)'  BY <1>1, IdleIs DEF ByOK, SentOK
<1>4. ~seen'.clean  BY <1>1 DEF Restart, SeenShape
<1> QED  BY <1>2, <1>3, <1>4, Unclean

(* The hour strikes.                                                        *)
LEMMA TickDay ==
    ASSUME AdoptInv, Tick PROVE LoopOK' /\ ByOK' /\ DayOK'
<1> DEFINE dawn == (now + 1) % HoursPerDay = 0
           ready == /\ scheduler.pc = "sleep" /\ now < scheduler.wake
                    /\ activity.pc = "idle" /\ travel.pc = "idle"
<1>1. /\ now \in Nat /\ SeenShape(seen) /\ BackendOK /\ LoopOK /\ ByOK /\ DayOK
      /\ now' = now + 1 /\ UNCHANGED <<scheduler, activity, travel, adoptAttempted, adoptGeneration>>
  BY AdoptParts DEF Tick, memory
<1>2. /\ LoopOK'
      /\ scheduler.pc = "sleep" /\ Due(now + 1) # {} => \A x : Awaited(x)'
  BY <1>1, LoopTicks
<1>3. ByOK'  BY <1>1 DEF ByOK
<1>4. seen'.clean = (ready /\ (dawn \/ seen.clean))  BY <1>1 DEF Tick, SeenShape
<1>5. ASSUME seen'.clean PROVE DayOK'
  <2>1. ready /\ (dawn \/ seen.clean)  BY <1>4, <1>5
  <2>2. activity'.pc = "idle" /\ travel'.pc = "idle"  BY <1>1, <2>1
  <2>3. CASE dawn
    <3>1. Hour' = 0  BY <1>1, <2>3 DEF Hour
    <3>2. ~(Hour' > Morning) /\ Hour' # Morning /\ ~(Hour' > LastTravel) /\ Hour' # LastTravel
      BY <3>1, Schedule
    <3> QED  BY <2>2, <3>2 DEF DayOK
  <2>4. CASE ~dawn
    <3>1. seen.clean /\ UNCHANGED backend  BY <2>1, <2>4 DEF Tick
    <3>2. Hour \in Nat /\ Hour' = Hour + 1 /\ cstDate' = cstDate
      BY <1>1, <2>4, HourMoves DEF Hour, cstDate
    <3>3. ~Awaited("activity") /\ ~Awaited("travel")
      <4>1. scheduler.wake \in Nat  BY <1>1 DEF LoopOK
      <4>2. ~(scheduler.wake <= now)  BY <1>1, <2>1, <4>1
      <4> QED  BY <2>1, <4>2 DEF Awaited
    <3>4. (AllTopped => AllTopped') /\ (AllHoused => AllHoused')
      BY <1>1, <3>1, <3>2 DEF AllTopped, Topped, Fed, Housed, Trying, AllHoused
    <3>5. Hour >= Morning => AllTopped'
      <4>1. Hour = Morning => AllTopped  BY <1>1, <2>1, <3>1, <3>3 DEF DayOK
      <4>2. Hour > Morning => AllTopped  BY <1>1, <3>1 DEF DayOK
      <4> QED  BY <3>2, <3>4, <4>1, <4>2, Schedule
    <3>6. Hour >= LastTravel => AllHoused'
      <4>1. Hour = LastTravel => AllHoused  BY <1>1, <2>1, <3>1, <3>3 DEF DayOK
      <4>2. Hour > LastTravel => AllHoused  BY <1>1, <3>1 DEF DayOK
      <4> QED  BY <3>2, <3>4, <4>1, <4>2, Schedule
    <3>7. now + 1 \in Nat /\ Hour' = (now + 1) % HoursPerDay  BY <1>1 DEF Hour
    <3>8. Hour' = Morning \/ Hour' = LastTravel => \A x : Awaited(x)'
      <4>1. Hour' = Morning \/ Hour' = LastTravel => Due(now + 1) # {}
        BY <3>7, DueThen
      <4> QED  BY <1>2, <2>1, <4>1
    <3>9. (Hour' > Morning => Hour >= Morning) /\ (Hour' > LastTravel => Hour >= LastTravel)
      BY <3>2, Schedule
    <3> QED  BY <2>2, <3>5, <3>6, <3>8, <3>9 DEF DayOK
  <2> QED  BY <2>3, <2>4
<1> QED  BY <1>2, <1>3, <1>5, Unclean

(* Every step keeps the invariant.                                          *)
LEMMA AdoptStep == AdoptInv /\ [Next]_vars => AdoptInv'
<1> SUFFICES ASSUME AdoptInv, [Next]_vars PROVE AdoptInv'
  OBVIOUS
<1>1. RedeemInv /\ BackendOK /\ now \in Nat /\ MarksOK /\ SentOK /\ SweepShape(travel)
  BY AdoptParts DEF AdoptInv
<1>2. RedeemInv'  BY <1>1, RedeemStep
<1>3. BackendKeeps /\ BackendOK'  BY <1>1, BackendStep DEF BackendKeeps
<1>4. MarksOK'  BY <1>1, MarksStep
<1>5. SUFFICES LoopOK' /\ ByOK' /\ DayOK' /\ SentOK' /\ SweepShape(travel)'
  BY <1>2, <1>3, <1>4 DEF AdoptInv
<1>6. UNCHANGED activity => SentOK'  BY <1>1 DEF SentOK
<1>7. UNCHANGED travel => SweepShape(travel)'  BY <1>1
<1>8. CASE Wake \/ (\E t \in {"checkin", "keepalive"} : OtherTaskOver(t))
  BY <1>3, <1>6, <1>7, <1>8, LoopDay DEF Wake, OtherTaskOver
<1>9. ASSUME NEW by, BeginActivity(by) PROVE LoopOK' /\ ByOK' /\ DayOK' /\ SentOK' /\ SweepShape(travel)'
  BY <1>3, <1>7, <1>9, BeginActivityDay DEF BeginActivity
<1>10. ASSUME NEW by, BeginTravel(by) PROVE LoopOK' /\ ByOK' /\ DayOK' /\ SentOK' /\ SweepShape(travel)'
  BY <1>3, <1>6, <1>10, BeginTravelDay DEF BeginTravel
<1>11. CASE ActivityStep
  <2>1. UNCHANGED travel
    BY <1>11
       DEF ActivityStep, NoActivity, NextActivity, EndActivity, Report, claimGrowthSlot, claimGiftPacks,
           ReadRewardState, makeupYesterday, Redeem, claimGrowthLottery
  <2> QED  BY <1>3, <1>7, <1>11, <2>1, ActivityDay
<1>12. CASE TravelStep
  <2>1. UNCHANGED activity
    BY <1>12
       DEF TravelStep, NextTravel, EndTravel, BuddyInfo, reserveAdoptSlot, BuddyAgreement, BuddyFirst,
           TravelStatus, TravelAct
  <2> QED  BY <1>3, <1>6, <1>12, <2>1, TravelDay
<1>13. CASE Prune \/ Arrive \/ UNCHANGED vars
  BY <1>3, <1>6, <1>7, <1>13, AsideDay DEF Prune, Arrive, vars
<1>14. CASE Restart  BY <1>14, RestartDay
<1>15. CASE Tick  BY <1>6, <1>7, <1>15, TickDay DEF Tick
<1> QED
  BY <1>8, <1>9, <1>10, <1>11, <1>12, <1>13, <1>14, <1>15 DEF Next

(* It holds at the start, an hour of which nothing is owed yet.             *)
LEMMA AdoptInit == Init => AdoptInv
<1> SUFFICES ASSUME Init PROVE AdoptInv
  OBVIOUS
<1>1. RedeemInv  BY RedeemInit
<1>2. /\ now = 0 /\ activity = IdleSweep /\ travel = IdleSweep /\ adoptGeneration = 0
      /\ adoptAttempted = [a \in Accounts |-> <<Unmarked, 0>>]
      /\ backend \in [Accounts -> Starts]
      /\ scheduler = [pc |-> "sleep", wake |-> nextCheckinTime(0), waits |-> {}]
  BY DEF Init
<1>3. BackendOK
  <2>1. ASSUME NEW a \in Accounts PROVE AccountShape(backend[a])
    <3>1. backend[a] \in Starts  BY <1>2
    <3> QED  BY <3>1, StartsAssumption DEF AccountShape, Buddies
  <2> QED  BY <1>2, <2>1 DEF BackendOK
<1>4. SweepShape(travel) /\ SentOK /\ activity.pc = "idle" /\ travel.pc = "idle"
      /\ activity.by = "nobody" /\ travel.by = "nobody"
  BY <1>2, IdleIs DEF SentOK
<1>5. MarksOK
  <2>1. <<Unmarked, 0>> \in (Nat \union {Unmarked}) \X Nat /\ <<Unmarked, 0>>[2] = 0  OBVIOUS
  <2> QED  BY <1>2, <2>1 DEF MarksOK
<1>6. LoopOK
  <2>1. PICK w \in Nat : /\ w = nextCheckinTime(0)
                         /\ \A u \in Nat : 0 < u /\ u < w => Due(u) = {}
    BY NextTime
  <2>2. /\ scheduler \in [pc : {"sleep", "wait"}, wake : Nat, waits : {scheduler.waits}]
        /\ scheduler.pc = "sleep" /\ scheduler.waits = {} /\ scheduler.wake = w
    BY <1>2, <2>1
  <2> QED  BY <1>2, <2>1, <2>2 DEF LoopOK
<1>7. ByOK  BY <1>4 DEF ByOK
<1>8. DayOK
  <2>1. Hour = 0
    <3>1. 0 \in Nat /\ 0 % HoursPerDay = 0  BY Schedule
    <3> QED  BY <1>2, <3>1 DEF Hour
  <2>2. ~(Hour > Morning) /\ Hour # Morning /\ ~(Hour > LastTravel) /\ Hour # LastTravel
    BY <2>1, Schedule
  <2> QED  BY <1>4, <2>2 DEF DayOK
<1> QED  BY <1>1, <1>3, <1>4, <1>5, <1>6, <1>7, <1>8 DEF AdoptInv

(* A day without failures, restarts and overlong sweeps ends with a buddy   *)
(* for every account of the CN realm, whatever the panel starts and prunes  *)
(* meanwhile and however the day before went.                               *)
THEOREM AdoptedCorrect == Spec => []AdoptedByEvening
<1>1. AdoptInv => AdoptedByEvening
  BY DEF AdoptInv, DayOK, AdoptedByEvening, AllHoused, Housed, cnAccounts, LastTravel
<1> QED  BY <1>1, AdoptInit, AdoptStep, PTL DEF Spec

-----------------------------------------------------------------------------
(* The panel's record.                                                      *)

Rows == Seq(Int)

(* The newest rows: as many as there are or as are kept, counted from the   *)
(* end.                                                                     *)
LEMMA TrimmedRows ==
    ASSUME NEW l \in Rows
    PROVE  /\ trimmed(l) \in Rows
           /\ Len(trimmed(l)) = IF Len(l) > panelStoreMaxRows
                                THEN panelStoreMaxRows ELSE Len(l)
           /\ \A i \in 1..Len(trimmed(l)) :
                 trimmed(l)[i] = l[Len(l) - Len(trimmed(l)) + i]
<1> DEFINE n == Len(l)
           from == IF n > panelStoreMaxRows THEN n - panelStoreMaxRows + 1
                   ELSE 1
<1>1. n \in Nat /\ \A i \in 1..n : l[i] \in Int  BY DEF Rows
<1>2. panelStoreMaxRows \in Nat \ {0}  BY PanelAssumption
<1>3. from \in Int /\ from >= 1  BY <1>1, <1>2
<1>4. trimmed(l) = SubSeq(l, from, n)  BY DEF trimmed
<1>5. from <= n + 1  BY <1>1, <1>2
<1>6. n - from + 1 = IF n > panelStoreMaxRows THEN panelStoreMaxRows ELSE n
  BY <1>1, <1>2
<1> HIDE DEF from, n
<1>7. \A i \in from..n : l[i] \in Int  BY <1>1, <1>3
<1>8. /\ trimmed(l) \in Rows
      /\ Len(trimmed(l)) = IF from <= n THEN n - from + 1 ELSE 0
      /\ \A i \in 1..(n - from + 1) : trimmed(l)[i] = l[from + i - 1]
  BY <1>1, <1>3, <1>4, <1>7, SubSeqProperties DEF Rows
<1>9. Len(trimmed(l)) = n - from + 1  BY <1>1, <1>3, <1>5, <1>8
<1>10. \A i \in 1..Len(trimmed(l)) :
          trimmed(l)[i] = l[n - Len(trimmed(l)) + i]
  <2> SUFFICES ASSUME NEW i \in 1..Len(trimmed(l))
               PROVE  trimmed(l)[i] = l[n - Len(trimmed(l)) + i]
    OBVIOUS
  <2>1. n - Len(trimmed(l)) + i = from + i - 1  BY <1>1, <1>3, <1>9
  <2> QED  BY <1>8, <1>9, <2>1
<1> QED  BY <1>6, <1>8, <1>9, <1>10 DEF n

(* Trimming twice is trimming once.                                         *)
LEMMA TrimmedTwice ==
    ASSUME NEW l \in Rows PROVE trimmed(trimmed(l)) = trimmed(l)
<1> DEFINE t == trimmed(l)
           u == trimmed(t)
<1>1. /\ t \in Rows /\ Len(t) \in Nat
      /\ ~(Len(t) > panelStoreMaxRows)
  BY TrimmedRows, PanelAssumption DEF Rows
<1> HIDE DEF t
<1>2. /\ u \in Rows /\ Len(u) = Len(t)
      /\ \A i \in 1..Len(u) : u[i] = t[Len(t) - Len(u) + i]
  BY <1>1, TrimmedRows
<1> HIDE DEF u
<1>3. \A i \in 1..Len(u) : u[i] = t[i]  BY <1>1, <1>2
<1> QED  BY <1>1, <1>2, <1>3, SeqEqual DEF Rows, u, t

(* What is kept after an append depends only on what was kept before it.    *)
LEMMA TrimmedAppend ==
    ASSUME NEW h \in Rows, NEW d \in Rows, trimmed(h) = trimmed(d),
           NEW v \in Int
    PROVE  trimmed(Append(h, v)) = trimmed(Append(d, v))
<1> DEFINE M == panelStoreMaxRows
           kept(l) == IF Len(l) > M THEN M ELSE Len(l)
           H == Append(h, v)
           D == Append(d, v)
           m == Len(trimmed(h))
           k == Len(trimmed(H))
<1>1. M \in Nat \ {0} /\ Len(h) \in Nat /\ Len(d) \in Nat
  BY PanelAssumption DEF Rows
<1>2. /\ H \in Rows /\ Len(H) = Len(h) + 1 /\ H[Len(h) + 1] = v
      /\ \A i \in 1..Len(h) : H[i] = h[i]
  BY AppendProperties DEF Rows
<1>3. /\ D \in Rows /\ Len(D) = Len(d) + 1 /\ D[Len(d) + 1] = v
      /\ \A i \in 1..Len(d) : D[i] = d[i]
  BY AppendProperties DEF Rows
<1>4. /\ m = (IF Len(h) > M THEN M ELSE Len(h))
      /\ m = (IF Len(d) > M THEN M ELSE Len(d))
  BY TrimmedRows
<1>5. \A i \in 1..m : h[Len(h) - m + i] = d[Len(d) - m + i]
  <2>1. \A i \in 1..m : trimmed(h)[i] = h[Len(h) - m + i]  BY TrimmedRows
  <2>2. \A i \in 1..m : trimmed(d)[i] = d[Len(d) - m + i]  BY TrimmedRows
  <2> QED  BY <2>1, <2>2
<1> HIDE DEF H, D, m, M
<1>6. /\ trimmed(H) \in Rows /\ k = (IF Len(H) > M THEN M ELSE Len(H))
      /\ \A i \in 1..k : trimmed(H)[i] = H[Len(H) - k + i]
  BY <1>2, TrimmedRows DEF M
<1>7. /\ trimmed(D) \in Rows
      /\ Len(trimmed(D)) = (IF Len(D) > M THEN M ELSE Len(D))
      /\ \A i \in 1..Len(trimmed(D)) :
            trimmed(D)[i] = D[Len(D) - Len(trimmed(D)) + i]
  BY <1>3, TrimmedRows DEF M
<1> HIDE DEF k
<1>8. m \in Nat /\ k \in Nat /\ k >= 1 /\ k - 1 <= m /\ Len(trimmed(D)) = k
      /\ m <= Len(h) /\ m <= Len(d)
  BY <1>1, <1>2, <1>3, <1>4, <1>6, <1>7
<1>9. ASSUME NEW i \in 1..k PROVE trimmed(H)[i] = trimmed(D)[i]
  <2>1. trimmed(H)[i] = H[Len(H) - k + i] /\ trimmed(D)[i] = D[Len(D) - k + i]
    BY <1>6, <1>7, <1>8
  <2>2. CASE i = k
    <3>1. Len(H) - k + i = Len(h) + 1 /\ Len(D) - k + i = Len(d) + 1
      BY <1>1, <1>2, <1>3, <1>8, <2>2
    <3> QED  BY <1>2, <1>3, <2>1, <3>1
  <2>3. CASE i < k
    <3> DEFINE j == m - k + 1 + i
    <3>1. /\ j \in 1..m
          /\ Len(H) - k + i = Len(h) - m + j /\ Len(D) - k + i = Len(d) - m + j
          /\ Len(h) - m + j \in 1..Len(h) /\ Len(d) - m + j \in 1..Len(d)
      BY <1>1, <1>2, <1>3, <1>8, <2>3
    <3> HIDE DEF j
    <3>2. H[Len(h) - m + j] = h[Len(h) - m + j]
          /\ D[Len(d) - m + j] = d[Len(d) - m + j]
      BY <1>2, <1>3, <3>1
    <3>3. h[Len(h) - m + j] = d[Len(d) - m + j]  BY <1>5, <3>1
    <3> QED  BY <2>1, <3>1, <3>2, <3>3
  <2> QED  BY <1>8, <2>2, <2>3
<1>10. Len(trimmed(H)) = k  BY DEF k
<1>11. trimmed(H) = trimmed(D)
  BY <1>6, <1>7, <1>8, <1>9, <1>10, SeqEqual DEF Rows
<1> QED  BY <1>11 DEF H, D

PanelTypeOK ==
    /\ rows \in [Streams -> Rows \union {NoRows}]
    /\ loaded \in [Streams -> BOOLEAN] /\ dirty \in BOOLEAN
    /\ flusher \in [pc : {"idle", "write"},
                    snapshot : [Streams -> Rows \union {NoRows}],
                    failed : BOOLEAN]
    /\ file \in [Streams -> Rows \union {NoFile, Corrupt}]
    /\ appended \in Nat
    /\ record \in [due : [Streams -> Rows], unread : SUBSET Streams,
                   raced : SUBSET Streams]

(* What a content holds of a stream is what the stream should hold.         *)
Holds(content, s) == trimmed(Held(content)) = trimmed(record.due[s])

(* A stream whose file was never missed is in memory once it is loaded, and *)
(* in its file as long as it is not in memory.                              *)
MemoryOK ==
    \A s \in Streams \ record.unread :
        /\ loaded[s] => Holds(rows[s], s)
        /\ rows[s] = NoRows => Holds(file[s], s)
        /\ ~loaded[s] => rows[s] = NoRows

(* What the flusher still has to write is in memory; of a stream nobody     *)
(* appended to it is that memory, and what it has written is in the file.   *)
SnapshotOK ==
    /\ ~dirty => flusher.pc = "idle"
    /\ \A s \in Streams : flusher.snapshot[s] # NoRows => rows[s] # NoRows
    /\ flusher.pc = "write" =>
          \A s \in Streams \ (record.unread \union record.raced) :
              /\ flusher.snapshot[s] # NoRows => flusher.snapshot[s] = rows[s]
              /\ flusher.snapshot[s] = NoRows /\ ~flusher.failed =>
                    Holds(file[s], s)

PanelInv == PanelTypeOK /\ MemoryOK /\ SnapshotOK /\ SettledRowsOnDisk

(* Rows count as themselves, everything else as no rows.                    *)
LEMMA HeldRows ==
    /\ \A l \in Rows : Held(l) = l
    /\ Held(NoRows) = <<>> /\ Held(NoFile) = <<>> /\ Held(Corrupt) = <<>>
    /\ <<>> \in Rows
    /\ NoRows \notin Rows /\ NoFile \notin Rows /\ Corrupt \notin Rows
BY PanelAssumption, EmptySeq DEF Held, Rows

(* A stream that starts with its file as it is.                             *)
LEMMA FreshStore ==
    ASSUME file' \in [Streams -> Rows \union {NoFile, Corrupt}],
           rows' = [s \in Streams |-> NoRows],
           loaded' = [s \in Streams |-> FALSE],
           dirty' = FALSE, flusher' = Idle, appended' \in Nat,
           record' = [due |-> [s \in Streams |-> Held(file'[s])],
                      unread |-> {}, raced |-> {}]
    PROVE  PanelInv'
<1>1. \A s \in Streams : Held(file'[s]) \in Rows  BY HeldRows
<1>2. record'.due = [s \in Streams |-> Held(file'[s])]  OBVIOUS
<1>3. PanelTypeOK'  BY <1>1 DEF PanelTypeOK, Idle
<1>4. \A s \in Streams : Holds(file[s], s)'  BY <1>2 DEF Holds
<1>5. MemoryOK'  BY <1>4 DEF MemoryOK
<1>6. SnapshotOK'  BY <1>4 DEF SnapshotOK, Idle
<1>7. SettledRowsOnDisk'  BY <1>4 DEF SettledRowsOnDisk, Holds
<1> QED  BY <1>3, <1>5, <1>6, <1>7 DEF PanelInv

(* What holds before the first use.                                         *)
LEMMA PanelInitOK == PanelInit => PanelInv
<1> SUFFICES ASSUME PanelInit PROVE PanelInv  OBVIOUS
<1>1. /\ file \in [Streams -> Rows \union {NoFile, Corrupt}]
      /\ rows = [s \in Streams |-> NoRows]
      /\ loaded = [s \in Streams |-> FALSE]
      /\ dirty = FALSE /\ flusher = Idle /\ appended \in Nat
      /\ record = [due |-> [s \in Streams |-> Held(file[s])],
                   unread |-> {}, raced |-> {}]
  BY PanelAssumption DEF PanelInit, newPanelStore, Rows
<1>2. \A s \in Streams : Held(file[s]) \in Rows  BY <1>1, HeldRows
<1>3. record.due = [s \in Streams |-> Held(file[s])]  BY <1>1
<1>4. PanelTypeOK  BY <1>1, <1>2 DEF PanelTypeOK, Idle
<1>5. \A s \in Streams : Holds(file[s], s)  BY <1>3 DEF Holds
<1>6. MemoryOK  BY <1>1, <1>5 DEF MemoryOK
<1>7. SnapshotOK  BY <1>1, <1>5 DEF SnapshotOK, Idle
<1>8. SettledRowsOnDisk  BY <1>5 DEF SettledRowsOnDisk, Holds
<1> QED  BY <1>4, <1>6, <1>7, <1>8 DEF PanelInv

(* A load puts into memory what the stream should hold, unless its file     *)
(* could not be read.                                                       *)
LEMMA LoadHolds ==
    ASSUME PanelInv, NEW s \in Streams, NEW fails \in BOOLEAN
    PROVE  /\ RowsAfterLoad(s, fails) \in Rows \union {NoRows}
           /\ NotRead(s, fails) \in SUBSET Streams
           /\ record.unread \subseteq NotRead(s, fails)
           /\ NotRead(s, fails) \subseteq record.unread \union {s}
           /\ RowsAfterLoad(s, fails) = NoRows => rows[s] = NoRows
           /\ s \notin NotRead(s, fails) =>
                 /\ loaded[s] \/ reads(s, fails)
                 /\ Holds(RowsAfterLoad(s, fails), s)
<1> DEFINE x == RowsAfterLoad(s, fails)
<1>1. /\ rows[s] \in Rows \union {NoRows} /\ loaded[s] \in BOOLEAN
      /\ file[s] \in Rows \union {NoFile, Corrupt}
      /\ record.unread \in SUBSET Streams
  BY DEF PanelInv, PanelTypeOK
<1>2. /\ NotRead(s, fails) \in SUBSET Streams
      /\ record.unread \subseteq NotRead(s, fails)
      /\ NotRead(s, fails) \subseteq record.unread \union {s}
  BY <1>1 DEF NotRead
<1>3. CASE reads(s, fails) /\ file[s] # NoFile
  <2>1. x = trimmed(file[s]) /\ file[s] \in Rows /\ ~loaded[s]
    BY <1>1, <1>3 DEF RowsAfterLoad, reads
  <2>2. x \in Rows /\ x # NoRows  BY <2>1, TrimmedRows, HeldRows
  <2>3. ASSUME s \notin NotRead(s, fails) PROVE Holds(x, s)
    <3>1. Holds(file[s], s)
      BY <1>2, <2>1, <2>3 DEF PanelInv, MemoryOK
    <3>2. Held(x) = x /\ Held(file[s]) = file[s]  BY <2>1, <2>2, HeldRows
    <3> QED  BY <2>1, <3>1, <3>2, TrimmedTwice DEF Holds
  <2> QED  BY <1>2, <1>3, <2>2, <2>3
<1>4. CASE ~(reads(s, fails) /\ file[s] # NoFile)
  <2>1. x = rows[s]  BY <1>4 DEF RowsAfterLoad
  <2>2. ASSUME s \notin NotRead(s, fails)
        PROVE  (loaded[s] \/ reads(s, fails)) /\ Holds(x, s)
    <3>1. s \notin record.unread /\ (loaded[s] \/ reads(s, fails))
      BY <1>2, <2>2 DEF NotRead
    <3>2. CASE loaded[s]
      BY <2>1, <3>1, <3>2 DEF PanelInv, MemoryOK
    <3>3. CASE ~loaded[s]
      <4>1. /\ file[s] = NoFile /\ rows[s] = NoRows /\ Holds(file[s], s)
        BY <1>4, <3>1, <3>3 DEF PanelInv, MemoryOK
      <4>2. Held(file[s]) = Held(x)  BY <2>1, <4>1, HeldRows
      <4> QED  BY <3>1, <4>1, <4>2 DEF Holds
    <3> QED  BY <3>1, <3>2, <3>3
  <2> QED  BY <1>1, <1>2, <2>1, <2>2
<1> QED  BY <1>3, <1>4

(* A row appended to what is due, and to memory after its load.             *)
LEMMA AppendKeeps ==
    ASSUME PanelInv, NEW s \in Streams, append(s) PROVE PanelInv'
<1> DEFINE v == appended + 1
<1>1. PICK fails \in BOOLEAN :
        /\ loadLocked(s, fails)
        /\ rows' = [rows EXCEPT ![s] =
                       trimmed(Append(Held(RowsAfterLoad(s, fails)), v))]
        /\ record' = [due |-> [record.due EXCEPT ![s] = Append(@, v)],
                      unread |-> NotRead(s, fails),
                      raced |-> IF flusher.pc = "idle" THEN record.raced
                                ELSE record.raced \union {s}]
  BY DEF append
<1> DEFINE x == Held(RowsAfterLoad(s, fails))
           N == NotRead(s, fails)
<1>2. /\ rows \in [Streams -> Rows \union {NoRows}]
      /\ loaded \in [Streams -> BOOLEAN]
      /\ flusher.pc \in {"idle", "write"}
      /\ file \in [Streams -> Rows \union {NoFile, Corrupt}]
      /\ record.due \in [Streams -> Rows] /\ record.raced \in SUBSET Streams
      /\ v \in Nat
  BY DEF PanelInv, PanelTypeOK
<1>3. /\ dirty' = TRUE /\ appended' = v /\ UNCHANGED <<flusher, file>>
      /\ loaded' = [loaded EXCEPT ![s] = @ \/ reads(s, fails)]
  BY <1>1 DEF append, loadLocked
<1>4. /\ N \in SUBSET Streams /\ record.unread \subseteq N
      /\ N \subseteq record.unread \union {s}
      /\ RowsAfterLoad(s, fails) \in Rows \union {NoRows}
      /\ s \notin N => /\ loaded[s] \/ reads(s, fails)
                       /\ trimmed(x) = trimmed(record.due[s])
  BY LoadHolds DEF Holds
<1>5. x \in Rows  BY <1>4, HeldRows
<1> HIDE DEF x, N, v
<1>6. /\ Append(x, v) \in Rows /\ Append(record.due[s], v) \in Rows
      /\ trimmed(Append(x, v)) \in Rows
  <2>1. v \in Int /\ record.due[s] \in Rows  BY <1>2
  <2>2. Append(x, v) \in Rows /\ Append(record.due[s], v) \in Rows
    BY <1>5, <2>1, AppendProperties DEF Rows
  <2> QED  BY <2>2, TrimmedRows
<1>7. /\ rows'[s] = trimmed(Append(x, v)) /\ rows'[s] \in Rows
      /\ \A t \in Streams \ {s} : rows'[t] = rows[t]
      /\ rows' \in [Streams -> Rows \union {NoRows}]
  BY <1>1, <1>2, <1>6 DEF x, v
<1>8. /\ record'.due[s] = Append(record.due[s], v)
      /\ \A t \in Streams \ {s} : record'.due[t] = record.due[t]
      /\ record'.due \in [Streams -> Rows] /\ record'.unread = N
      /\ record.raced \subseteq record'.raced
      /\ record'.raced \in SUBSET Streams
      /\ flusher.pc # "idle" => s \in record'.raced
      /\ record' \in [due : [Streams -> Rows], unread : SUBSET Streams,
                      raced : SUBSET Streams]
  BY <1>1, <1>2, <1>4, <1>6 DEF N, v
<1>9. /\ loaded' \in [Streams -> BOOLEAN]
      /\ \A t \in Streams \ {s} : loaded'[t] = loaded[t]
      /\ loaded'[s] = (loaded[s] \/ reads(s, fails))
  <2>1. reads(s, fails) \in BOOLEAN  BY DEF reads
  <2> QED  BY <1>2, <1>3, <2>1
<1>10. PanelTypeOK'
  BY <1>2, <1>3, <1>7, <1>8, <1>9 DEF PanelInv, PanelTypeOK
<1>11. s \notin N => Holds(rows[s], s)'
  <2> SUFFICES ASSUME s \notin N
               PROVE  trimmed(Held(rows'[s])) = trimmed(record'.due[s])
    BY DEF Holds
  <2>1. Held(rows'[s]) = trimmed(Append(x, v))  BY <1>7, HeldRows
  <2>2. trimmed(trimmed(Append(x, v))) = trimmed(Append(x, v))
    BY <1>6, TrimmedTwice
  <2>3. trimmed(Append(x, v)) = trimmed(Append(record.due[s], v))
    BY <1>2, <1>4, <1>5, TrimmedAppend DEF v
  <2> QED  BY <1>8, <2>1, <2>2, <2>3
<1>12. rows'[s] # NoRows  BY <1>7, HeldRows
<1>13. MemoryOK'
  <2> SUFFICES ASSUME NEW t \in Streams \ N
               PROVE  /\ loaded'[t] => Holds(rows[t], t)'
                      /\ rows'[t] = NoRows => Holds(file[t], t)'
                      /\ ~loaded'[t] => rows'[t] = NoRows
    BY <1>8 DEF MemoryOK
  <2>1. CASE t = s  BY <1>4, <1>9, <1>11, <1>12, <2>1
  <2>2. CASE t # s
    <3>1. /\ loaded[t] => Holds(rows[t], t)
          /\ rows[t] = NoRows => Holds(file[t], t)
          /\ ~loaded[t] => rows[t] = NoRows
      BY <1>4 DEF PanelInv, MemoryOK
    <3>2. /\ rows'[t] = rows[t] /\ loaded'[t] = loaded[t]
          /\ record'.due[t] = record.due[t] /\ file' = file
      BY <1>3, <1>7, <1>8, <1>9, <2>2
    <3> QED  BY <3>1, <3>2 DEF Holds
  <2> QED  BY <2>1, <2>2
<1>14. SnapshotOK'
  <2>1. \A t \in Streams : flusher'.snapshot[t] # NoRows => rows'[t] # NoRows
    BY <1>3, <1>7, <1>12 DEF PanelInv, SnapshotOK
  <2>2. ASSUME flusher'.pc = "write",
               NEW t \in Streams \ (record'.unread \union record'.raced)
        PROVE  /\ flusher'.snapshot[t] # NoRows => flusher'.snapshot[t] = rows'[t]
               /\ flusher'.snapshot[t] = NoRows /\ ~flusher'.failed =>
                     Holds(file[t], t)'
    <3>1. t # s /\ t \notin record.unread \union record.raced
      BY <1>2, <1>3, <1>4, <1>8, <2>2
    <3>2. /\ flusher.snapshot[t] # NoRows => flusher.snapshot[t] = rows[t]
          /\ flusher.snapshot[t] = NoRows /\ ~flusher.failed =>
                     Holds(file[t], t)
      BY <1>3, <2>2, <3>1 DEF PanelInv, SnapshotOK
    <3> QED  BY <1>3, <1>7, <1>8, <3>1, <3>2 DEF Holds
  <2> QED  BY <1>3, <2>1, <2>2 DEF SnapshotOK
<1>15. SettledRowsOnDisk'  BY <1>3 DEF SettledRowsOnDisk
<1> QED  BY <1>10, <1>13, <1>14, <1>15 DEF PanelInv

(* A load for the panel's lists changes memory only.                        *)
LEMMA ListKeeps ==
    ASSUME PanelInv, NEW s \in Streams, list(s) PROVE PanelInv'
<1>1. PICK fails \in BOOLEAN :
        /\ loadLocked(s, fails)
        /\ rows' = [rows EXCEPT ![s] = RowsAfterLoad(s, fails)]
        /\ record' = [record EXCEPT !.unread = NotRead(s, fails)]
  BY DEF list
<1> DEFINE x == RowsAfterLoad(s, fails)
           N == NotRead(s, fails)
<1>2. /\ rows \in [Streams -> Rows \union {NoRows}]
      /\ loaded \in [Streams -> BOOLEAN]
      /\ record \in [due : [Streams -> Rows], unread : SUBSET Streams,
                     raced : SUBSET Streams]
  BY DEF PanelInv, PanelTypeOK
<1>3. /\ ~loaded[s] /\ UNCHANGED <<dirty, flusher, file, appended>>
      /\ loaded' = [loaded EXCEPT ![s] = @ \/ reads(s, fails)]
  BY <1>1 DEF list, loadLocked
<1>4. /\ N \in SUBSET Streams /\ record.unread \subseteq N
      /\ N \subseteq record.unread \union {s}
      /\ x \in Rows \union {NoRows} /\ (x = NoRows => rows[s] = NoRows)
      /\ s \notin N => (loaded[s] \/ reads(s, fails)) /\ Holds(x, s)
  BY LoadHolds
<1>5. /\ rows'[s] = x /\ rows' \in [Streams -> Rows \union {NoRows}]
      /\ \A t \in Streams \ {s} : rows'[t] = rows[t]
  BY <1>1, <1>2, <1>4
<1> HIDE DEF x, N
<1>6. /\ record'.due = record.due /\ record'.unread = N
      /\ record'.raced = record.raced
      /\ record' \in [due : [Streams -> Rows], unread : SUBSET Streams,
                      raced : SUBSET Streams]
  BY <1>1, <1>2, <1>4 DEF N
<1>7. /\ loaded' \in [Streams -> BOOLEAN]
      /\ \A t \in Streams \ {s} : loaded'[t] = loaded[t]
      /\ loaded'[s] = (loaded[s] \/ reads(s, fails))
  <2>1. reads(s, fails) \in BOOLEAN  BY DEF reads
  <2> QED  BY <1>2, <1>3, <2>1
<1>8. PanelTypeOK'
  BY <1>3, <1>5, <1>6, <1>7 DEF PanelInv, PanelTypeOK
<1>9. \A t \in Streams : rows'[t] = NoRows => rows[t] = NoRows
  BY <1>4, <1>5
<1>10. MemoryOK'
  <2> SUFFICES ASSUME NEW t \in Streams \ N
               PROVE  /\ loaded'[t] => Holds(rows[t], t)'
                      /\ rows'[t] = NoRows => Holds(file[t], t)'
                      /\ ~loaded'[t] => rows'[t] = NoRows
    BY <1>6 DEF MemoryOK
  <2>1. /\ loaded[t] => Holds(rows[t], t)
        /\ rows[t] = NoRows => Holds(file[t], t)
        /\ ~loaded[t] => rows[t] = NoRows
    BY <1>4 DEF PanelInv, MemoryOK
  <2>2. CASE t = s  BY <1>3, <1>4, <1>5, <1>6, <1>7, <1>9, <2>1, <2>2 DEF Holds
  <2>3. CASE t # s  BY <1>3, <1>5, <1>6, <1>7, <2>1, <2>3 DEF Holds
  <2> QED  BY <2>2, <2>3
<1>11. SnapshotOK'
  <2>1. \A t \in Streams : flusher'.snapshot[t] # NoRows => rows'[t] # NoRows
    BY <1>3, <1>9 DEF PanelInv, SnapshotOK
  <2>2. ASSUME flusher'.pc = "write",
               NEW t \in Streams \ (record'.unread \union record'.raced)
        PROVE  /\ flusher'.snapshot[t] # NoRows => flusher'.snapshot[t] = rows'[t]
               /\ flusher'.snapshot[t] = NoRows /\ ~flusher'.failed =>
                     Holds(file[t], t)'
    <3>1. t \notin record.unread \union record.raced  BY <1>4, <1>6, <2>2
    <3>2. /\ flusher.snapshot[t] # NoRows => flusher.snapshot[t] = rows[t]
          /\ flusher.snapshot[t] = NoRows /\ ~flusher.failed =>
                     Holds(file[t], t)
      BY <1>3, <2>2, <3>1 DEF PanelInv, SnapshotOK
    <3>3. flusher.snapshot[t] # NoRows => rows'[t] = rows[t]
      <4>1. CASE t = s
        <5>1. rows[s] = NoRows
          BY <1>3, <3>1, <4>1 DEF PanelInv, MemoryOK
        <5> QED  BY <4>1, <5>1 DEF PanelInv, SnapshotOK
      <4>2. CASE t # s  BY <1>5, <4>2
      <4> QED  BY <4>1, <4>2
    <3> QED  BY <1>3, <1>6, <3>2, <3>3 DEF Holds
  <2> QED  BY <1>3, <2>1, <2>2 DEF PanelInv, SnapshotOK
<1>12. SettledRowsOnDisk'
  <2>1. Streams \ (N \union record.raced)
          \subseteq Streams \ (record.unread \union record.raced)
    BY <1>4
  <2> QED  BY <1>3, <1>6, <2>1 DEF PanelInv, SettledRowsOnDisk
<1> QED  BY <1>8, <1>10, <1>11, <1>12 DEF PanelInv

(* The snapshot is memory; what is not in memory is in its file.            *)
LEMMA BeginFlushKeeps ==
    ASSUME PanelInv, BeginFlush PROVE PanelInv'
<1>1. /\ UNCHANGED <<rows, loaded, dirty, file, appended>> /\ dirty
      /\ flusher' = [pc |-> "write", snapshot |-> rows, failed |-> FALSE]
      /\ record' = [record EXCEPT !.raced = {}]
  BY DEF BeginFlush
<1>2. PanelTypeOK  BY DEF PanelInv
<1>3. /\ record'.due = record.due /\ record'.unread = record.unread
      /\ record' \in [due : [Streams -> Rows], unread : SUBSET Streams,
                      raced : SUBSET Streams]
  BY <1>1, <1>2 DEF PanelTypeOK
<1>4. PanelTypeOK'  BY <1>1, <1>2, <1>3 DEF PanelTypeOK
<1>5. MemoryOK'  BY <1>1, <1>3 DEF PanelInv, MemoryOK, Holds
<1>6. SnapshotOK'
  <2>1. \A s \in Streams \ record.unread :
           rows[s] = NoRows => Holds(file[s], s)'
    BY <1>1, <1>3 DEF PanelInv, MemoryOK, Holds
  <2> QED  BY <1>1, <1>3, <2>1 DEF SnapshotOK
<1>7. SettledRowsOnDisk'  BY <1>1 DEF SettledRowsOnDisk
<1> QED  BY <1>4, <1>5, <1>6, <1>7 DEF PanelInv

(* A file that is written holds the snapshot; one that is not leaves the    *)
(* flush failed.                                                            *)
LEMMA WriteKeeps ==
    ASSUME PanelInv, NEW s \in Streams, writePanelJSON(s) PROVE PanelInv'
<1>1. /\ UNCHANGED <<rows, loaded, dirty, appended, record>>
      /\ flusher.pc = "write" /\ flusher.snapshot[s] # NoRows
      /\ PanelTypeOK
  BY DEF writePanelJSON, PanelInv
<1>2. dirty  BY <1>1 DEF PanelInv, SnapshotOK
<1>3. rows[s] # NoRows  BY <1>1 DEF PanelInv, SnapshotOK
<1>4. flusher.snapshot[s] \in Rows  BY <1>1 DEF PanelTypeOK
<1>5. \/ /\ file' = [file EXCEPT ![s] = flusher.snapshot[s]]
         /\ flusher' = [flusher EXCEPT !.snapshot[s] = NoRows]
      \/ /\ flusher' = [flusher EXCEPT !.snapshot[s] = NoRows, !.failed = TRUE]
         /\ UNCHANGED file
  BY DEF writePanelJSON
<1>6. /\ flusher'.pc = "write" /\ flusher'.snapshot[s] = NoRows
      /\ \A t \in Streams \ {s} : flusher'.snapshot[t] = flusher.snapshot[t]
      /\ flusher' \in [pc : {"idle", "write"},
                       snapshot : [Streams -> Rows \union {NoRows}],
                       failed : BOOLEAN]
  <2> DEFINE snap == [flusher.snapshot EXCEPT ![s] = NoRows]
  <2>1. /\ flusher \in [pc : {"idle", "write"},
                        snapshot : [Streams -> Rows \union {NoRows}],
                        failed : BOOLEAN]
        /\ snap \in [Streams -> Rows \union {NoRows}] /\ snap[s] = NoRows
        /\ \A t \in Streams \ {s} : snap[t] = flusher.snapshot[t]
    BY <1>1 DEF PanelTypeOK
  <2>2. \/ flusher' = [flusher EXCEPT !.snapshot = snap]
        \/ flusher' = [flusher EXCEPT !.snapshot = snap, !.failed = TRUE]
    BY <1>5
  <2> HIDE DEF snap
  <2>3. flusher'.pc = "write" /\ flusher'.snapshot = snap
    BY <1>1, <2>1, <2>2
  <2>4. flusher' \in [pc : {"idle", "write"},
                      snapshot : [Streams -> Rows \union {NoRows}],
                      failed : BOOLEAN]
    BY <2>1, <2>2
  <2> QED  BY <2>1, <2>3, <2>4
<1>7. /\ file' \in [Streams -> Rows \union {NoFile, Corrupt}]
      /\ \A t \in Streams \ {s} : file'[t] = file[t]
  BY <1>1, <1>4, <1>5 DEF PanelTypeOK
<1>8. \/ file'[s] = flusher.snapshot[s] /\ flusher'.failed = flusher.failed
      \/ flusher'.failed = TRUE
  BY <1>1, <1>5 DEF PanelTypeOK
<1>9. flusher.failed => flusher'.failed
  BY <1>1, <1>5 DEF PanelTypeOK
<1>10. PanelTypeOK'  BY <1>1, <1>6, <1>7 DEF PanelTypeOK
<1>11. MemoryOK'
  BY <1>1, <1>3, <1>7 DEF PanelInv, MemoryOK, Holds
<1>12. SnapshotOK'
  <2>1. \A t \in Streams : flusher'.snapshot[t] # NoRows => rows'[t] # NoRows
    BY <1>1, <1>6 DEF PanelInv, SnapshotOK
  <2>2. ASSUME NEW t \in Streams \ (record.unread \union record.raced)
        PROVE  /\ flusher'.snapshot[t] # NoRows => flusher'.snapshot[t] = rows[t]
               /\ flusher'.snapshot[t] = NoRows /\ ~flusher'.failed =>
                     Holds(file[t], t)'
    <3>1. /\ flusher.snapshot[t] # NoRows => flusher.snapshot[t] = rows[t]
          /\ flusher.snapshot[t] = NoRows /\ ~flusher.failed =>
                     Holds(file[t], t)
      BY <1>1, <2>2 DEF PanelInv, SnapshotOK
    <3>2. CASE t = s
      <4>1. rows[s] = flusher.snapshot[s]  BY <1>1, <3>1, <3>2
      <4>2. loaded[s] /\ Holds(rows[s], s)
        BY <1>3, <2>2, <3>2 DEF PanelInv, MemoryOK
      <4>3. ASSUME ~flusher'.failed PROVE Holds(file[s], s)'
        <5>1. file'[s] = rows[s]  BY <1>8, <4>1, <4>3
        <5> QED  BY <1>1, <4>2, <5>1 DEF Holds
      <4> QED  BY <1>6, <3>2, <4>3
    <3>3. CASE t # s
      BY <1>1, <1>6, <1>7, <1>9, <3>1, <3>3 DEF Holds
    <3> QED  BY <3>2, <3>3
  <2> QED  BY <1>1, <1>2, <2>1, <2>2 DEF SnapshotOK
<1>13. SettledRowsOnDisk'  BY <1>1, <1>2 DEF SettledRowsOnDisk
<1> QED  BY <1>10, <1>11, <1>12, <1>13 DEF PanelInv

(* The mark is cleared only after a flush in which no write failed.         *)
LEMMA EndFlushKeeps ==
    ASSUME PanelInv, EndFlush PROVE PanelInv'
<1>1. /\ UNCHANGED <<rows, loaded, file, appended, record>>
      /\ flusher.pc = "write" /\ dirty' = flusher.failed /\ flusher' = Idle
      /\ \A s \in Streams : flusher.snapshot[s] = NoRows
      /\ PanelTypeOK
  BY DEF EndFlush, dirtyAfter, PanelInv
<1>2. PanelTypeOK'  BY <1>1 DEF PanelTypeOK, Idle
<1>3. MemoryOK'  BY <1>1 DEF PanelInv, MemoryOK, Holds
<1>4. SnapshotOK'  BY <1>1 DEF SnapshotOK, Idle
<1>5. SettledRowsOnDisk'
  <2>1. ~flusher.failed =>
           \A s \in Streams \ (record.unread \union record.raced) :
              Holds(file[s], s)
    BY <1>1 DEF PanelInv, SnapshotOK
  <2> QED  BY <1>1, <2>1 DEF SettledRowsOnDisk, Holds
<1> QED  BY <1>2, <1>3, <1>4, <1>5 DEF PanelInv

(* Every step of the panel's store.                                         *)
LEMMA PanelStep == PanelInv /\ [PanelNext]_panelVars => PanelInv'
<1> SUFFICES ASSUME PanelInv, [PanelNext]_panelVars PROVE PanelInv'  OBVIOUS
<1>1. CASE UNCHANGED panelVars
  BY <1>1 DEF panelVars, PanelInv, PanelTypeOK, MemoryOK, SnapshotOK,
              SettledRowsOnDisk, Holds
<1>2. CASE PanelCrash
  <2>1. /\ file' \in [Streams -> Rows \union {NoFile, Corrupt}]
        /\ appended' \in Nat
        /\ record' = [due |-> [s \in Streams |-> Held(file'[s])],
                      unread |-> {}, raced |-> {}]
    BY <1>2 DEF PanelCrash, PanelInv, PanelTypeOK
  <2> QED  BY <1>2, <2>1, FreshStore DEF PanelCrash
<1> QED
  BY <1>1, <1>2, AppendKeeps, ListKeeps, BeginFlushKeeps, WriteKeeps,
     EndFlushKeeps DEF PanelNext, IdleFlush

(* For any streams, cap, files and number of failed reads, failed writes    *)
(* and crashes: when nothing is marked for writing, every row due is in its *)
(* file, but for streams that could not be read and rows that raced a       *)
(* flush.                                                                   *)
THEOREM SettledCorrect == PanelSpec => []SettledRowsOnDisk
<1>1. PanelInv => SettledRowsOnDisk  BY DEF PanelInv
<1> QED  BY <1>1, PanelInitOK, PanelStep, PTL DEF PanelSpec

----------------------------------------------------------------------------
(* The account cache, for any number of jobs of any kinds, any entry at    *)
(* the start and any number of troubles.                                   *)

(* The steps of a load, a drop of the balance, a check-in and a query.     *)
LoadSteps == {"enter", "fetch", "store", "close", "release", "join"}
DropSteps == {"invalidate", "drop"}
LockSteps == {"status", "perform", "again", "credits", "credited", "creditStore",
              "merge", "mergeStore", "unlock"}
QuerySteps == {"queryLoad", "queryStore"}
Steps == {"start", "done"} \union LoadSteps \union DropSteps \union LockSteps \union QuerySteps

JobRecord == [kind : JobKinds, pc : Steps, prev : Entries \union {NoEntry}, credits : Credits,
              checkin : Status, with : Jobs \union {NoJob}, lock : Nat, floor : Nat]

(* The types of everything but the jobs.                                   *)
RestTypes ==
    /\ balance \in Nat /\ signed \in BOOLEAN /\ floor \in Nat
    /\ entry \in Entries \union {NoEntry}
    /\ mutex \in [current : Nat, last : Nat, held : SUBSET Nat]

(* A copy to be stored again is a copy of an entry, and a job that waits   *)
(* waits for a job.                                                        *)
RecordOK(r, jobs) ==
    /\ r \in JobRecord
    /\ r.pc \in {"drop", "creditStore"} => r.prev # NoEntry
    /\ r.pc = "join" => r.with \in jobs

CacheTypeOK ==
    /\ RestTypes
    /\ DOMAIN job \subseteq Jobs /\ job = [j \in DOMAIN job |-> job[j]]
    /\ \A j \in DOMAIN job : RecordOK(job[j], DOMAIN job)
    /\ flight \in DOMAIN job \union {NoJob}

(* A status is a value of its own sort.                                    *)
LEMMA StatusFacts == TRUE \in Status /\ FALSE \in Status /\ Unknown \in Status /\ BOOLEAN \subseteq Status
BY DEF Status

(* The job that the tick or a trial leaves behind is well formed.          *)
LEMMA NewJobType == NewJob("force") \in JobRecord /\ NewJob("force").pc = "start"
BY StatusFacts DEF NewJob, JobRecord, JobKinds, Steps, Credits

(* The record of a job is one.                                             *)
LEMMA JobType == ASSUME CacheTypeOK, NEW j \in DOMAIN job PROVE job[j] \in JobRecord
BY DEF CacheTypeOK, RecordOK

(* The job that moves has the new record, the others keep theirs.          *)
LEMMA Becoming ==
    ASSUME CacheTypeOK, NEW j \in DOMAIN job, NEW rec, Becomes(j, rec)
    PROVE  /\ DOMAIN job' = DOMAIN job /\ job' = [i \in DOMAIN job' |-> job'[i]]
           /\ job'[j] = rec /\ \A i \in DOMAIN job : i # j => job'[i] = job[i]
<1>1. job' = [job EXCEPT ![j] = rec] /\ job = [i \in DOMAIN job |-> job[i]]
  BY DEF Becomes, CacheTypeOK
<1> QED
  BY <1>1

(* A job that only moves on keeps everything else of its record.           *)
LEMMA OnlyMoves ==
    ASSUME NEW r \in JobRecord, NEW pc \in Steps
    PROVE  LET rec == [r EXCEPT !.pc = pc] IN
           /\ rec \in JobRecord /\ rec.pc = pc /\ rec.kind = r.kind /\ rec.prev = r.prev
           /\ rec.credits = r.credits /\ rec.checkin = r.checkin /\ rec.with = r.with
           /\ rec.lock = r.lock /\ rec.floor = r.floor
BY DEF JobRecord

----------------------------------------------------------------------------
(* What a step does to the jobs: the others keep their records, the one    *)
(* that moves has a well-formed one,                                       *)
OthersKept(j) ==
    /\ DOMAIN job' = DOMAIN job /\ job' = [i \in DOMAIN job' |-> job'[i]]
    /\ \A i \in DOMAIN job : i # j => job'[i] = job[i]

Moves(j) == OthersKept(j) /\ RecordOK(job'[j], DOMAIN job)

(* of the same kind, mutex and floor.                                      *)
SameJob(j) ==
    /\ job'[j].kind = job[j].kind
    /\ job'[j].lock = job[j].lock
    /\ job'[j].floor = job[j].floor

(* A step that moves on.                                                   *)
LEMMA MoveEffect ==
    ASSUME CacheTypeOK, NEW j \in DOMAIN job, NEW pc \in Steps \ {"drop", "creditStore", "join"}, Move(j, pc)
    PROVE  /\ Moves(j) /\ SameJob(j) /\ job'[j].pc = pc
           /\ job'[j].credits = job[j].credits /\ job'[j].prev = job[j].prev
<1> DEFINE rec == [job[j] EXCEPT !.pc = pc]
<1>1. Becomes(j, rec)
  BY DEF Move
<1>2. job[j] \in JobRecord /\ pc \in Steps
  BY JobType
<1>3. /\ rec \in JobRecord /\ rec.pc = pc /\ rec.kind = job[j].kind /\ rec.prev = job[j].prev
      /\ rec.credits = job[j].credits /\ rec.lock = job[j].lock /\ rec.floor = job[j].floor
  BY <1>2, OnlyMoves
<1> HIDE DEF rec
<1> QED
  BY <1>1, <1>3, Becoming DEF Moves, OthersKept, RecordOK, SameJob

(* The start of a load.                                                    *)
LEMMA LoadStartEffect ==
    ASSUME CacheTypeOK, NEW j \in DOMAIN job, LoadStart(j)
    PROVE  /\ Moves(j) /\ job'[j].kind = job[j].kind /\ job'[j].floor = floor
           /\ \/ job'[j].pc = "done" /\ entry # NoEntry /\ job'[j].credits = entry.credits
              \/ job'[j].pc = "enter" /\ job'[j].prev = entry
<1>1. job[j] \in JobRecord /\ floor \in Nat /\ entry \in Entries \union {NoEntry}
  BY JobType DEF CacheTypeOK, RestTypes
<1>2. CASE job[j].kind = "load" /\ fresh(entry)
  <2> DEFINE rec == [job[j] EXCEPT !.pc = "done", !.floor = floor, !.credits = entry.credits,
                                   !.checkin = entry.checkin]
  <2>1. Becomes(j, rec)
    BY <1>2 DEF LoadStart
  <2>2. entry # NoEntry /\ entry.credits \in Credits /\ entry.checkin \in Status /\ "done" \in Steps
    BY <1>1, <1>2 DEF fresh, Entries, Steps
  <2>3. /\ rec \in JobRecord /\ rec.pc = "done" /\ rec.kind = job[j].kind /\ rec.floor = floor
        /\ rec.credits = entry.credits
    BY <1>1, <2>2 DEF JobRecord
  <2> HIDE DEF rec
  <2> QED
    BY <2>1, <2>2, <2>3, Becoming DEF Moves, OthersKept, RecordOK
<1>3. CASE ~(job[j].kind = "load" /\ fresh(entry))
  <2> DEFINE rec == [job[j] EXCEPT !.pc = "enter", !.floor = floor, !.prev = entry]
  <2>1. Becomes(j, rec)
    BY <1>3 DEF LoadStart
  <2>2. "enter" \in Steps
    BY DEF Steps, LoadSteps
  <2>3. /\ rec \in JobRecord /\ rec.pc = "enter" /\ rec.kind = job[j].kind /\ rec.floor = floor
        /\ rec.prev = entry
    BY <1>1, <2>2 DEF JobRecord
  <2> HIDE DEF rec
  <2> QED
    BY <2>1, <2>3, Becoming DEF Moves, OthersKept, RecordOK
<1> QED
  BY <1>2, <1>3

(* The flight is joined or begun.                                          *)
LEMMA EnterFlightEffect ==
    ASSUME CacheTypeOK, NEW j \in DOMAIN job, EnterFlight(j)
    PROVE  /\ Moves(j) /\ SameJob(j)
           /\ \/ flight = NoJob /\ flight' = j /\ job'[j].pc = "fetch" /\ job'[j].prev = job[j].prev
              \/ flight # NoJob /\ flight' = flight /\ job'[j].pc = "join" /\ job'[j].with = flight
<1>1. CASE flight = NoJob
  <2>1. flight' = j /\ Move(j, "fetch") /\ "fetch" \in Steps \ {"drop", "creditStore", "join"}
    BY <1>1 DEF EnterFlight, Steps, LoadSteps
  <2> QED
    BY <1>1, <2>1, MoveEffect
<1>2. CASE flight # NoJob
  <2> DEFINE rec == [job[j] EXCEPT !.pc = "join", !.with = flight, !.prev = NoEntry]
  <2>1. Becomes(j, rec) /\ flight' = flight
    BY <1>2 DEF EnterFlight
  <2>2. flight \in DOMAIN job /\ flight \in Jobs /\ "join" \in Steps /\ job[j] \in JobRecord
    BY <1>2, JobType DEF CacheTypeOK, Steps, LoadSteps
  <2>3. /\ rec \in JobRecord /\ rec.pc = "join" /\ rec.with = flight /\ rec.kind = job[j].kind
        /\ rec.lock = job[j].lock /\ rec.floor = job[j].floor
    BY <2>2 DEF JobRecord
  <2> HIDE DEF rec
  <2> QED
    BY <1>2, <2>1, <2>2, <2>3, Becoming DEF Moves, OthersKept, RecordOK, SameJob
<1> QED
  BY <1>1, <1>2

(* A step that reports a balance and a status.                             *)
LEMMA ReportsEffect ==
    ASSUME CacheTypeOK, NEW j \in DOMAIN job, NEW pc \in Steps \ {"drop", "creditStore", "join"},
           NEW credits \in Credits, NEW checkin \in Status,
           Becomes(j, [job[j] EXCEPT !.pc = pc, !.credits = credits, !.checkin = checkin])
    PROVE  /\ Moves(j) /\ SameJob(j) /\ job'[j].pc = pc /\ job'[j].prev = job[j].prev
           /\ job'[j].credits = credits /\ job'[j].checkin = checkin
<1> DEFINE rec == [job[j] EXCEPT !.pc = pc, !.credits = credits, !.checkin = checkin]
<1>1. job[j] \in JobRecord /\ pc \in Steps
  BY JobType
<1>2. /\ rec \in JobRecord /\ rec.pc = pc /\ rec.kind = job[j].kind /\ rec.prev = job[j].prev
      /\ rec.credits = credits /\ rec.checkin = checkin
      /\ rec.lock = job[j].lock /\ rec.floor = job[j].floor
  BY <1>1 DEF JobRecord
<1> HIDE DEF rec
<1> QED
  BY ZenonT(60), <1>2, Becoming DEF rec, Moves, OthersKept, RecordOK, SameJob

(* What the calls can answer has the right type.                           *)
LEMMA AnswerTypes ==
    ASSUME CacheTypeOK
    PROVE  {balance, Unknown} \subseteq Credits /\ {signed, Unknown} \subseteq Status
<1>1. balance \in Credits /\ Unknown \in Credits
  BY DEF CacheTypeOK, RestTypes, Credits
<1>2. signed \in BOOLEAN
  BY DEF CacheTypeOK, RestTypes
<1>3. signed \in Status /\ Unknown \in Status
  BY <1>2, StatusFacts
<1> QED
  BY <1>1, <1>3

(* The calls of a load return.                                             *)
LEMMA FetchDetailsEffect ==
    ASSUME CacheTypeOK, NEW j \in DOMAIN job, FetchDetails(j)
    PROVE  /\ Moves(j) /\ SameJob(j) /\ job'[j].pc = "store" /\ job'[j].prev = job[j].prev
           /\ job'[j].credits \in {balance, Unknown}
<1>1. PICK credits \in {balance, Unknown}, checkin \in {signed, Unknown} :
        Becomes(j, [job[j] EXCEPT !.pc = "store", !.credits = credits, !.checkin = checkin])
  BY DEF FetchDetails
<1>2. credits \in Credits /\ checkin \in Status /\ "store" \in Steps \ {"drop", "creditStore", "join"}
  BY AnswerTypes DEF Steps, LoadSteps
<1> QED
  BY ZenonT(60), <1>1, <1>2, ReportsEffect

(* What was not fetched is carried over, and the entry is stored.          *)
LEMMA StoreDetailsEffect ==
    ASSUME CacheTypeOK, NEW j \in DOMAIN job, StoreDetails(j)
    PROVE  /\ Moves(j) /\ SameJob(j) /\ job'[j].pc = "close"
           /\ \/ job'[j].credits = job[j].credits
              \/ job[j].prev # NoEntry /\ job'[j].credits = job[j].prev.credits
           /\ entry' = Entry(job'[j].checkin, job'[j].credits) /\ entry' \in Entries
<1> DEFINE credits == carried(job[j].credits, job[j].prev, "credits")
           checkin == carried(job[j].checkin, job[j].prev, "checkin")
<1>1. /\ Becomes(j, [job[j] EXCEPT !.pc = "close", !.credits = credits, !.checkin = checkin])
      /\ entry' = Entry(checkin, credits)
  BY DEF StoreDetails
<1>2. /\ job[j].credits \in Credits /\ job[j].checkin \in Status
      /\ job[j].prev \in Entries \union {NoEntry} /\ "close" \in Steps \ {"drop", "creditStore", "join"}
  BY JobType DEF JobRecord, Steps, LoadSteps
<1>3. /\ credits \in Credits
      /\ credits = job[j].credits \/ (job[j].prev # NoEntry /\ credits = job[j].prev.credits)
  BY <1>2 DEF carried, Entries
<1>4. checkin \in Status
  BY <1>2 DEF carried, Entries
<1> HIDE DEF credits, checkin
<1>5. entry' \in Entries
  BY <1>1, <1>3, <1>4 DEF Entry, Entries
<1>6. PICK c \in Credits, s \in Status : c = credits /\ s = checkin
  BY <1>3, <1>4
<1>7. Moves(j) /\ SameJob(j) /\ job'[j].pc = "close" /\ job'[j].credits = c /\ job'[j].checkin = s
  BY ZenonT(60), <1>1, <1>2, <1>6, ReportsEffect
<1> QED
  BY <1>1, <1>3, <1>5, <1>6, <1>7

(* A job that waited has what the cache or the other one holds.            *)
LEMMA JoinedEffect ==
    ASSUME CacheTypeOK, NEW j \in DOMAIN job, Joined(j)
    PROVE  /\ Moves(j) /\ SameJob(j) /\ job'[j].pc = "done"
           /\ job[j].with \in DOMAIN job /\ job[job[j].with].pc \in {"release", "done"}
           /\ job'[j].credits = IF entry # NoEntry THEN entry.credits ELSE job[job[j].with].credits
<1> DEFINE other == job[job[j].with]
           found == IF entry # NoEntry THEN entry ELSE Entry(other.checkin, other.credits)
<1>1. /\ Becomes(j, [job[j] EXCEPT !.pc = "done", !.credits = found.credits, !.checkin = found.checkin])
      /\ job[j].with \in DOMAIN job /\ other.pc \in {"release", "done"}
  BY DEF Joined, Is, CacheTypeOK, RecordOK
<1>2. other \in JobRecord /\ entry \in Entries \union {NoEntry}
      /\ "done" \in Steps \ {"drop", "creditStore", "join"}
  BY <1>1, JobType DEF CacheTypeOK, RestTypes, Steps
<1>3. /\ found.credits \in Credits /\ found.checkin \in Status
      /\ found.credits = IF entry # NoEntry THEN entry.credits ELSE other.credits
  BY <1>2 DEF Entry, Entries, JobRecord
<1> HIDE DEF found
<1>4. PICK c \in Credits, s \in Status : c = found.credits /\ s = found.checkin
  BY <1>3
<1>5. Moves(j) /\ SameJob(j) /\ job'[j].pc = "done" /\ job'[j].credits = c
  BY ZenonT(60), <1>1, <1>2, <1>4, ReportsEffect
<1> QED
  BY <1>1, <1>3, <1>4, <1>5

(* The balance changes.                                                    *)
LEMMA ChangesEffect ==
    ASSUME CacheTypeOK, NEW j \in DOMAIN job, Changes(j)
    PROVE  /\ Moves(j) /\ job'[j].kind = job[j].kind /\ job'[j].pc = "invalidate"
           /\ job'[j].floor = balance + 1 /\ balance' = balance + 1 /\ balance' \in Nat
<1> DEFINE rec == [job[j] EXCEPT !.pc = "invalidate", !.floor = balance + 1]
<1>1. Becomes(j, rec) /\ balance' = balance + 1
  BY DEF Changes
<1>2. job[j] \in JobRecord /\ balance + 1 \in Nat /\ "invalidate" \in Steps
  BY JobType DEF CacheTypeOK, RestTypes, Steps, DropSteps
<1>3. rec \in JobRecord /\ rec.pc = "invalidate" /\ rec.kind = job[j].kind /\ rec.floor = balance + 1
  BY <1>2 DEF JobRecord
<1> HIDE DEF rec
<1> QED
  BY <1>1, <1>2, <1>3, Becoming DEF Moves, OthersKept, RecordOK

(* What a drop of the balance leaves of a job is well formed.              *)
LEMMA DropTypes ==
    ASSUME CacheTypeOK, NEW j \in DOMAIN job
    PROVE  RecordOK(Dropped(j), DOMAIN job) /\ Dropped(j).pc \in {"start", "done"}
<1>1. job[j] \in JobRecord /\ "done" \in Steps
  BY JobType DEF Steps
<1>2. [job[j] EXCEPT !.pc = "done"] \in JobRecord /\ [job[j] EXCEPT !.pc = "done"].pc = "done"
  BY <1>1, OnlyMoves
<1>3. Dropped(j) \in JobRecord /\ Dropped(j).pc \in {"start", "done"}
  BY <1>2, NewJobType DEF Dropped
<1> QED
  BY <1>3 DEF RecordOK

(* A drop loads the entry,                                                 *)
LEMMA InvalidateLoadEffect ==
    ASSUME CacheTypeOK, NEW j \in DOMAIN job, InvalidateLoad(j)
    PROVE  /\ Moves(j)
           /\ \/ job'[j] = Dropped(j)
              \/ /\ job'[j].pc = "drop" /\ job'[j].kind = job[j].kind /\ floor' = floor
                 /\ job'[j].floor \in {0, job[j].floor}
<1>1. CASE entry = NoEntry
  <2>1. Becomes(j, Dropped(j))
    BY <1>1 DEF InvalidateLoad
  <2>2. PICK d : d = Dropped(j)
    OBVIOUS
  <2> QED
    BY <2>1, <2>2, Becoming, DropTypes DEF Moves, OthersKept
<1>2. CASE entry # NoEntry
  <2> DEFINE rec == [job[j] EXCEPT !.pc = "drop", !.prev = entry,
                                   !.floor = IF \E i \in DOMAIN job : Holding(i) THEN 0 ELSE @]
  <2>1. Becomes(j, rec) /\ floor' = floor
    BY <1>2 DEF InvalidateLoad
  <2>2. job[j] \in JobRecord /\ entry \in Entries /\ "drop" \in Steps
    BY <1>2, JobType DEF CacheTypeOK, RestTypes, Steps, DropSteps
  <2>3. /\ rec \in JobRecord /\ rec.pc = "drop" /\ rec.prev = entry /\ rec.kind = job[j].kind
        /\ rec.floor \in {0, job[j].floor}
    <3> DEFINE f == IF \E i \in DOMAIN job : Holding(i) THEN 0 ELSE job[j].floor
    <3>1. f \in {0, job[j].floor} /\ f \in Nat /\ rec = [job[j] EXCEPT !.pc = "drop", !.prev = entry, !.floor = f]
      BY <2>2 DEF JobRecord
    <3> HIDE DEF f, rec
    <3> QED
      BY <2>2, <3>1 DEF JobRecord
  <2> HIDE DEF rec
  <2>4. PICK r : r = rec
    OBVIOUS
  <2> QED
    BY <1>2, <2>1, <2>3, <2>4, Becoming DEF Moves, OthersKept, RecordOK
<1> QED
  BY <1>1, <1>2

(* and stores a copy without its balance.                                  *)
LEMMA InvalidateStoreEffect ==
    ASSUME CacheTypeOK, NEW j \in DOMAIN job, InvalidateStore(j)
    PROVE  /\ Moves(j) /\ job'[j] = Dropped(j)
           /\ entry' = withoutCredits(job[j].prev) /\ entry' \in Entries /\ entry'.credits = Unknown
<1>1. Becomes(j, Dropped(j)) /\ entry' = withoutCredits(job[j].prev) /\ job[j].prev # NoEntry
  BY DEF InvalidateStore, Is, CacheTypeOK, RecordOK
<1>2. job[j].prev \in Entries
  BY <1>1, JobType DEF JobRecord
<1>3. entry' \in Entries /\ entry'.credits = Unknown
  BY <1>1, <1>2 DEF withoutCredits, Entries, Credits
<1>4. PICK d : d = Dropped(j)
  OBVIOUS
<1> QED
  BY <1>1, <1>3, <1>4, Becoming, DropTypes DEF Moves, OthersKept

(* A check-in takes the mutex that is in the map, or a new one.            *)
LEMMA LockEffect ==
    ASSUME CacheTypeOK, NEW j \in DOMAIN job, Lock(j)
    PROVE  /\ Moves(j) /\ job'[j].kind = job[j].kind /\ job'[j].floor = job[j].floor
           /\ job'[j].pc = "status" /\ job'[j].lock = mutex'.current
           /\ mutex' \in [current : Nat, last : Nat, held : SUBSET Nat]
<1> DEFINE id == IF mutex.current = 0 THEN mutex.last + 1 ELSE mutex.current
           rec == [job[j] EXCEPT !.pc = "status", !.lock = id]
<1>1. /\ Becomes(j, rec)
      /\ mutex' = [current |-> id, last |-> IF id > mutex.last THEN id ELSE mutex.last,
                   held |-> mutex.held \union {id}]
  BY DEF Lock
<1>2. id \in Nat /\ mutex.last \in Nat /\ mutex.held \in SUBSET Nat
  BY DEF CacheTypeOK, RestTypes
<1> HIDE DEF id
<1>3. job[j] \in JobRecord /\ "status" \in Steps
  BY JobType DEF Steps, LockSteps
<1>4. /\ rec \in JobRecord /\ rec.pc = "status" /\ rec.lock = id /\ rec.kind = job[j].kind
      /\ rec.floor = job[j].floor
  BY <1>2, <1>3 DEF JobRecord
<1>5. mutex' \in [current : Nat, last : Nat, held : SUBSET Nat] /\ mutex'.current = id
  BY <1>1, <1>2
<1> HIDE DEF rec
<1>6. PICK r : r = rec
  OBVIOUS
<1> QED
  BY <1>1, <1>4, <1>5, <1>6, Becoming DEF Moves, OthersKept, RecordOK

(* A step that reports a status.                                           *)
LEMMA ReportsStatusEffect ==
    ASSUME CacheTypeOK, NEW j \in DOMAIN job, NEW pc \in Steps \ {"drop", "creditStore", "join"},
           NEW checkin \in Status, Becomes(j, [job[j] EXCEPT !.pc = pc, !.checkin = checkin])
    PROVE  /\ Moves(j) /\ SameJob(j) /\ job'[j].pc = pc /\ job'[j].credits = job[j].credits
<1> DEFINE rec == [job[j] EXCEPT !.pc = pc, !.checkin = checkin]
<1>1. job[j] \in JobRecord /\ pc \in Steps
  BY JobType
<1>2. /\ rec \in JobRecord /\ rec.pc = pc /\ rec.kind = job[j].kind /\ rec.credits = job[j].credits
      /\ rec.lock = job[j].lock /\ rec.floor = job[j].floor
  BY <1>1 DEF JobRecord
<1> HIDE DEF rec
<1>3. PICK r : r = rec
  OBVIOUS
<1> QED
  BY ZenonT(60), <1>2, <1>3, Becoming DEF rec, Moves, OthersKept, RecordOK, SameJob

(* The status before the call,                                             *)
LEMMA ReadStatusEffect ==
    ASSUME CacheTypeOK, NEW j \in DOMAIN job, ReadStatus(j)
    PROVE  Moves(j) /\ SameJob(j) /\ job'[j].pc \in {"perform", "merge", "unlock"}
<1>1. PICK status \in {signed, Unknown} : \E next \in afterStatus(job[j].kind, status) :
        Becomes(j, [job[j] EXCEPT !.pc = next, !.checkin = status])
  BY DEF ReadStatus
<1>2. PICK next \in afterStatus(job[j].kind, status) :
        Becomes(j, [job[j] EXCEPT !.pc = next, !.checkin = status])
  BY <1>1
<1>3. next \in {"perform", "merge", "unlock"}
  BY <1>2 DEF afterStatus
<1>4. status \in Status /\ next \in Steps \ {"drop", "creditStore", "join"}
  BY <1>1, <1>3, AnswerTypes DEF Steps, LockSteps
<1> QED
  BY <1>2, <1>3, <1>4, ReportsStatusEffect

(* the call,                                                               *)
LEMMA PerformEffect ==
    ASSUME CacheTypeOK, NEW j \in DOMAIN job, Perform(j)
    PROVE  /\ Moves(j) /\ SameJob(j) /\ job'[j].pc \in {"again", "merge", "unlock"}
           /\ signed' \in BOOLEAN /\ balance' \in Nat /\ balance' >= balance
<1>1. signed' \in BOOLEAN
  BY Zenon DEF Perform, Granted, CacheTypeOK, RestTypes
<1>2. balance' \in Nat /\ balance' >= balance
  BY DEF Perform, Granted, CacheTypeOK, RestTypes
<1>3. PICK next \in {"again", "merge", "unlock"} : Move(j, next)
  BY DEF Perform
<1>4. next \in Steps \ {"drop", "creditStore", "join"}
  BY <1>3 DEF Steps, LockSteps
<1> QED
  BY <1>1, <1>2, <1>3, <1>4, MoveEffect

(* and the status after it.                                                *)
LEMMA ReadStatusAgainEffect ==
    ASSUME CacheTypeOK, NEW j \in DOMAIN job, ReadStatusAgain(j)
    PROVE  Moves(j) /\ SameJob(j) /\ job'[j].pc \in {"credits", "merge"}
<1> DEFINE otherwise == IF job[j].kind = "auto" THEN job[j].checkin ELSE TRUE
           next == IF job[j].kind = "auto" THEN "credits" ELSE "merge"
<1>1. PICK status \in {signed, Unknown} :
        Becomes(j, [job[j] EXCEPT !.checkin = IF status = Unknown THEN otherwise ELSE status, !.pc = next])
  BY DEF ReadStatusAgain
<1> DEFINE value == IF status = Unknown THEN otherwise ELSE status
           rec == [job[j] EXCEPT !.checkin = value, !.pc = next]
<1>2. value \in Status
  <2>1. job[j].checkin \in Status /\ status \in Status
    BY <1>1, JobType, AnswerTypes DEF JobRecord
  <2> QED
    BY <2>1, StatusFacts
<1>3. next \in {"credits", "merge"} /\ next \in Steps /\ Becomes(j, rec) /\ job[j] \in JobRecord
  BY <1>1, JobType DEF Steps, LockSteps
<1> HIDE DEF value, next
<1>4. /\ rec \in JobRecord /\ rec.pc = next /\ rec.kind = job[j].kind
      /\ rec.lock = job[j].lock /\ rec.floor = job[j].floor
  BY <1>2, <1>3 DEF JobRecord
<1> HIDE DEF rec
<1>5. PICK r : r = rec
  OBVIOUS
<1> QED
  BY <1>3, <1>4, <1>5, Becoming DEF Moves, OthersKept, RecordOK, SameJob

(* The balance after it,                                                   *)
LEMMA FetchCreditsEffect ==
    ASSUME CacheTypeOK, NEW j \in DOMAIN job, FetchCredits(j)
    PROVE  /\ Moves(j) /\ SameJob(j)
           /\ (job'[j].pc = "credited" /\ job'[j].credits = balance) \/ job'[j].pc = "merge"
<1>1. CASE Becomes(j, [job[j] EXCEPT !.pc = "credited", !.credits = balance])
  <2> DEFINE rec == [job[j] EXCEPT !.pc = "credited", !.credits = balance]
  <2>1. job[j] \in JobRecord /\ balance \in Credits /\ "credited" \in Steps
    BY JobType, AnswerTypes DEF Steps, LockSteps
  <2>2. /\ rec \in JobRecord /\ rec.pc = "credited" /\ rec.credits = balance
        /\ rec.kind = job[j].kind /\ rec.lock = job[j].lock /\ rec.floor = job[j].floor
    BY <2>1 DEF JobRecord
  <2>3. Becomes(j, rec)
    BY <1>1
  <2> HIDE DEF rec
  <2> QED
    BY <2>2, <2>3, Becoming DEF Moves, OthersKept, RecordOK, SameJob
<1>2. CASE Move(j, "merge")
  <2>1. "merge" \in Steps \ {"drop", "creditStore", "join"}
    BY DEF Steps, LockSteps
  <2> QED
    BY <1>2, <2>1, MoveEffect
<1> QED
  BY <1>1, <1>2 DEF FetchCredits

(* A step that has read the entry.                                         *)
LEMMA ReadsEntryEffect ==
    ASSUME CacheTypeOK, NEW j \in DOMAIN job, NEW pc \in Steps \ {"join"},
           pc \in {"drop", "creditStore"} => entry # NoEntry,
           Becomes(j, [job[j] EXCEPT !.pc = pc, !.prev = entry])
    PROVE  /\ Moves(j) /\ SameJob(j) /\ job'[j].pc = pc /\ job'[j].prev = entry
           /\ job'[j].credits = job[j].credits
<1> DEFINE rec == [job[j] EXCEPT !.pc = pc, !.prev = entry]
<1>1. job[j] \in JobRecord /\ pc \in Steps /\ entry \in Entries \union {NoEntry}
  BY JobType DEF CacheTypeOK, RestTypes
<1>2. /\ rec \in JobRecord /\ rec.pc = pc /\ rec.prev = entry /\ rec.credits = job[j].credits
      /\ rec.kind = job[j].kind /\ rec.lock = job[j].lock /\ rec.floor = job[j].floor
  BY <1>1 DEF JobRecord
<1>3. Becomes(j, rec)
  OBVIOUS
<1> HIDE DEF rec
<1> QED
  BY <1>2, <1>3, Becoming DEF Moves, OthersKept, RecordOK, SameJob

(* which goes into an entry that is there,                                 *)
LEMMA CreditsLoadEffect ==
    ASSUME CacheTypeOK, NEW j \in DOMAIN job, CreditsLoad(j)
    PROVE  /\ Moves(j) /\ SameJob(j) /\ job'[j].pc \in {"merge", "creditStore"}
           /\ job'[j].credits = job[j].credits
<1>1. PICK next \in {"merge", "creditStore"} :
        /\ next = IF entry = NoEntry THEN "merge" ELSE "creditStore"
        /\ Becomes(j, [job[j] EXCEPT !.pc = next, !.prev = entry])
  BY DEF CreditsLoad
<1>2. next \in Steps \ {"join"} /\ (next \in {"drop", "creditStore"} => entry # NoEntry)
  BY <1>1 DEF Steps, LockSteps
<1> QED
  BY <1>1, <1>2, ReadsEntryEffect

(* and the entry that gets the status.                                     *)
LEMMA MergeLoadEffect ==
    ASSUME CacheTypeOK, NEW j \in DOMAIN job, MergeLoad(j)
    PROVE  Moves(j) /\ SameJob(j) /\ job'[j].pc = "mergeStore" /\ job'[j].prev = entry
<1>1. "mergeStore" \in Steps \ {"join"} /\ Becomes(j, [job[j] EXCEPT !.pc = "mergeStore", !.prev = entry])
  BY DEF MergeLoad, Steps, LockSteps
<1> QED
  BY <1>1, ReadsEntryEffect

(* The mutex is released.                                                  *)
LEMMA UnlockEffect ==
    ASSUME CacheTypeOK, NEW j \in DOMAIN job, Unlock(j)
    PROVE  /\ Moves(j) /\ job'[j].pc \in {"start", "done"}
           /\ \/ job'[j] = NewJob("force")
              \/ /\ job'[j].pc = "done" /\ job'[j].credits = Unknown
                 /\ job'[j].kind = job[j].kind /\ job'[j].floor = job[j].floor
           /\ mutex' \in [current : Nat, last : Nat, held : SUBSET Nat]
           /\ mutex'.held = mutex.held \ {job[j].lock}
           /\ mutex'.current = mutex.current /\ mutex'.last = mutex.last
<1>1. /\ mutex' \in [current : Nat, last : Nat, held : SUBSET Nat]
      /\ mutex'.held = mutex.held \ {job[j].lock}
      /\ mutex'.current = mutex.current /\ mutex'.last = mutex.last
  BY DEF Unlock, CacheTypeOK, RestTypes
<1>2. CASE job[j].kind = "auto"
  <2>1. Becomes(j, NewJob("force"))
    BY <1>2 DEF Unlock
  <2> QED
    BY <1>1, <2>1, Becoming, NewJobType DEF Moves, OthersKept, RecordOK
<1>3. CASE job[j].kind # "auto"
  <2> DEFINE rec == [job[j] EXCEPT !.pc = "done", !.credits = Unknown]
  <2>1. Becomes(j, rec)
    BY <1>3 DEF Unlock
  <2>2. job[j] \in JobRecord /\ Unknown \in Credits /\ "done" \in Steps
    BY JobType DEF Steps, Credits
  <2>3. /\ rec \in JobRecord /\ rec.pc = "done" /\ rec.credits = Unknown
        /\ rec.kind = job[j].kind /\ rec.floor = job[j].floor
    BY <2>2 DEF JobRecord
  <2> HIDE DEF rec
  <2> QED
    BY <1>1, <2>1, <2>3, Becoming DEF Moves, OthersKept, RecordOK
<1> QED
  BY <1>2, <1>3

(* A query has its answers,                                                *)
LEMMA QueryFetchEffect ==
    ASSUME CacheTypeOK, NEW j \in DOMAIN job, QueryFetch(j)
    PROVE  /\ Moves(j) /\ SameJob(j) /\ job'[j].pc \in {"done", "queryLoad"}
           /\ job'[j].credits \in {balance, Unknown}
<1>1. PICK credits \in {balance, Unknown}, checkin \in {signed, Unknown} :
        Becomes(j, [job[j] EXCEPT !.pc = IF credits = Unknown THEN "done" ELSE "queryLoad",
                                  !.credits = credits, !.checkin = checkin])
  BY DEF QueryFetch
<1>2. PICK next \in {"done", "queryLoad"} : next = IF credits = Unknown THEN "done" ELSE "queryLoad"
  OBVIOUS
<1>3. /\ credits \in Credits /\ checkin \in Status /\ next \in Steps \ {"drop", "creditStore", "join"}
      /\ Becomes(j, [job[j] EXCEPT !.pc = next, !.credits = credits, !.checkin = checkin])
  BY <1>1, <1>2, AnswerTypes DEF Steps, QuerySteps
<1>4. Moves(j) /\ SameJob(j) /\ job'[j].pc = next /\ job'[j].credits = credits
  BY <1>3, ReportsEffect
<1> QED
  BY <1>1, <1>2, <1>4

(* and fills in the status that is missing.                                *)
LEMMA QueryLoadEffect ==
    ASSUME CacheTypeOK, NEW j \in DOMAIN job, QueryLoad(j)
    PROVE  Moves(j) /\ SameJob(j) /\ job'[j].pc = "queryStore" /\ job'[j].credits = job[j].credits
<1> DEFINE checkin == carried(job[j].checkin, entry, "checkin")
<1>1. Becomes(j, [job[j] EXCEPT !.pc = "queryStore", !.checkin = checkin])
  BY DEF QueryLoad
<1>2. checkin \in Status /\ "queryStore" \in Steps \ {"drop", "creditStore", "join"}
  BY JobType DEF carried, CacheTypeOK, RestTypes, JobRecord, Entries, Steps, QuerySteps
<1> HIDE DEF checkin
<1>3. PICK s \in Status : s = checkin
  BY <1>2
<1> QED
  BY <1>1, <1>2, <1>3, ReportsStatusEffect

(* The steps that only move on.                                            *)
LEMMA PlainEffects ==
    ASSUME CacheTypeOK, NEW j \in DOMAIN job
    PROVE  /\ WakeWaiters(j) =>
                Moves(j) /\ SameJob(j) /\ job'[j].pc = "release" /\ job'[j].credits = job[j].credits
           /\ ReleaseFlight(j) =>
                Moves(j) /\ SameJob(j) /\ job'[j].pc = "done" /\ job'[j].credits = job[j].credits
           /\ SkipCheckin(j) => Moves(j) /\ SameJob(j) /\ job'[j].pc = "invalidate"
           /\ CreditsStore(j) => Moves(j) /\ SameJob(j) /\ job'[j].pc = "merge"
           /\ MergeStore(j) => Moves(j) /\ SameJob(j) /\ job'[j].pc = "unlock"
           /\ QueryStore(j) =>
                Moves(j) /\ SameJob(j) /\ job'[j].pc = "done" /\ job'[j].credits = job[j].credits
<1>1. {"release", "done", "invalidate", "merge", "unlock"} \subseteq Steps \ {"drop", "creditStore", "join"}
  BY DEF Steps, LoadSteps, DropSteps, LockSteps
<1>2. \A pc \in {"release", "done", "invalidate", "merge", "unlock"} :
        Move(j, pc) => Moves(j) /\ SameJob(j) /\ job'[j].pc = pc /\ job'[j].credits = job[j].credits
  BY <1>1, MoveEffect
<1> QED
  BY <1>2 DEF WakeWaiters, ReleaseFlight, SkipCheckin, CreditsStore, MergeStore, QueryStore

(* A chat or a trial is left with the drop of the balance to do.           *)
LEMMA SpendEffects ==
    ASSUME CacheTypeOK, NEW j \in DOMAIN job, Spend(j) \/ ClaimTrial(j)
    PROVE  /\ Moves(j) /\ job'[j].kind = job[j].kind /\ job'[j].pc = "invalidate"
           /\ balance' \in Nat /\ balance' >= balance /\ job'[j].floor \in {job[j].floor, balance'}
<1>1. CASE Changes(j)
  <2>1. balance \in Nat
    BY DEF CacheTypeOK, RestTypes
  <2> QED
    BY <1>1, <2>1, ChangesEffect
<1>2. CASE Move(j, "invalidate") /\ UNCHANGED balance
  <2>1. "invalidate" \in Steps \ {"drop", "creditStore", "join"} /\ balance \in Nat
    BY DEF Steps, DropSteps, CacheTypeOK, RestTypes
  <2>2. Moves(j) /\ SameJob(j) /\ job'[j].pc = "invalidate"
    BY <1>2, <2>1, MoveEffect
  <2> QED
    BY <1>2, <2>1, <2>2 DEF SameJob
<1> QED
  BY <1>1, <1>2 DEF Spend, ClaimTrial, performTrialCall

(* Every step of a job moves that job alone.                               *)
LEMMA JobStepMoves == ASSUME CacheTypeOK, NEW j \in DOMAIN job, JobStep(j) PROVE Moves(j)
BY LoadStartEffect, EnterFlightEffect, FetchDetailsEffect, StoreDetailsEffect, JoinedEffect,
   SpendEffects, PlainEffects, InvalidateLoadEffect, InvalidateStoreEffect, LockEffect,
   ReadStatusEffect, PerformEffect, ReadStatusAgainEffect, FetchCreditsEffect, CreditsLoadEffect,
   MergeLoadEffect, UnlockEffect, QueryFetchEffect, QueryLoadEffect DEF JobStep

(* The copies that are stored are entries.                                 *)
LEMMA StoreEffects ==
    ASSUME CacheTypeOK, NEW j \in DOMAIN job, CreditsStore(j) \/ MergeStore(j) \/ QueryStore(j)
    PROVE  entry' \in Entries
<1>1. job[j] \in JobRecord /\ Unknown \in Credits
  BY JobType DEF Credits
<1>2. CASE CreditsStore(j)
  <2>1. job[j].prev \in Entries /\ job[j].credits \in Credits
    BY <1>1, <1>2 DEF CreditsStore, Is, CacheTypeOK, RecordOK, JobRecord
  <2> QED
    BY <1>2, <2>1 DEF CreditsStore, Entry, Entries
<1>3. CASE MergeStore(j)
  <2>1. job[j].prev \in Entries \union {NoEntry} /\ job[j].checkin \in Status
    BY <1>1 DEF JobRecord
  <2> QED
    BY <1>1, <1>3, <2>1 DEF MergeStore, Entry, Entries
<1>4. CASE QueryStore(j)
  <2>1. job[j].credits \in Credits /\ job[j].checkin \in Status
    BY <1>1 DEF JobRecord
  <2> QED
    BY <1>4, <2>1 DEF QueryStore, Entry, Entries
<1> QED
  BY <1>2, <1>3, <1>4

(* What a step leaves alone.                                               *)
LEMMA Untouched ==
    ASSUME NEW j \in DOMAIN job, JobStep(j)
    PROVE  /\ balance' = balance \/ Spend(j) \/ ClaimTrial(j) \/ Perform(j)
           /\ signed' = signed \/ Perform(j)
           /\ floor' = floor \/ InvalidateLoad(j) \/ InvalidateStore(j)
           /\ \/ entry' = entry \/ StoreDetails(j) \/ InvalidateStore(j)
              \/ CreditsStore(j) \/ MergeStore(j) \/ QueryStore(j)
           /\ mutex' = mutex \/ Lock(j) \/ Unlock(j)
           /\ flight' = flight \/ EnterFlight(j) \/ ReleaseFlight(j)
BY DEF JobStep, LoadStart, EnterFlight, FetchDetails, StoreDetails, WakeWaiters, ReleaseFlight,
   Joined, Spend, ClaimTrial, SkipCheckin, InvalidateLoad, InvalidateStore, Lock, ReadStatus,
   Perform, ReadStatusAgain, FetchCredits, CreditsLoad, CreditsStore, MergeLoad, MergeStore,
   Unlock, QueryFetch, QueryLoad, QueryStore

(* The rest stays typed.                                                   *)
LEMMA RestStep == ASSUME CacheTypeOK, NEW j \in DOMAIN job, JobStep(j) PROVE RestTypes'
<1>1. RestTypes /\ job[j].floor \in Nat
  BY JobType DEF CacheTypeOK, JobRecord
<1>2. balance' \in Nat
  BY <1>1, Untouched, SpendEffects, PerformEffect DEF RestTypes
<1>3. signed' \in BOOLEAN
  BY Zenon, <1>1, Untouched, PerformEffect DEF RestTypes
<1>4. floor' \in Nat
  BY <1>1, Untouched DEF RestTypes, InvalidateLoad, InvalidateStore, Raise
<1>5. entry' \in Entries \union {NoEntry}
  BY <1>1, Untouched, StoreDetailsEffect, InvalidateStoreEffect, StoreEffects DEF RestTypes
<1>6. mutex' \in [current : Nat, last : Nat, held : SUBSET Nat]
  BY Zenon, <1>1, Untouched, LockEffect, UnlockEffect DEF RestTypes
<1> QED
  BY <1>2, <1>3, <1>4, <1>5, <1>6 DEF RestTypes

(* Every step of a job keeps the types.                                    *)
LEMMA JobStepTypes == ASSUME CacheTypeOK, NEW j \in DOMAIN job, JobStep(j) PROVE CacheTypeOK'
<1>1. flight' \in {flight, j, NoJob}
  BY Untouched, EnterFlightEffect DEF ReleaseFlight
<1> QED
  BY <1>1, RestStep, JobStepMoves DEF Moves, OthersKept, CacheTypeOK

(* The rest of the system keeps them too.                                  *)
LEMMA CacheTypes == CacheTypeOK /\ [CacheNext]_cacheVars => CacheTypeOK'
<1> SUFFICES ASSUME CacheTypeOK, [CacheNext]_cacheVars PROVE CacheTypeOK'
  OBVIOUS
<1>1. CASE \E j \in DOMAIN job : JobStep(j)
  BY <1>1, JobStepTypes
<1>2. CASE Expire
  <2>1. entry' \in Entries
    BY <1>2 DEF Expire, fresh, CacheTypeOK, RestTypes, Entries
  <2> QED
    BY <1>2, <2>1 DEF Expire, CacheTypeOK, RestTypes
<1>3. CASE Relist
  BY <1>3 DEF Relist, CacheTypeOK, RestTypes
<1>4. CASE PruneEntry
  BY <1>4 DEF PruneEntry, CacheTypeOK, RestTypes
<1>5. CASE pruneCheckinLocks
  <2>1. mutex' \in [current : Nat, last : Nat, held : SUBSET Nat]
    BY <1>5 DEF pruneCheckinLocks, CacheTypeOK, RestTypes
  <2> QED
    BY <1>5, <2>1 DEF pruneCheckinLocks, CacheTypeOK, RestTypes
<1>6. CASE Finished \/ UNCHANGED cacheVars
  BY <1>6 DEF Finished, cacheVars, CacheTypeOK, RestTypes
<1> QED
  BY <1>1, <1>2, <1>3, <1>4, <1>5, <1>6 DEF CacheNext
----------------------------------------------------------------------------
(* Whoever is past the lock holds a mutex of its own: the ones in use are  *)
(* numbered up to last, the one in the map is one of them.                 *)
IdsKnown == mutex.current <= mutex.last /\ \A id \in mutex.held : id <= mutex.last

HoldersHold == \A j \in DOMAIN job : job[j].pc \in LockSteps => job[j].lock \in mutex.held /\ job[j].lock > 0

HoldersDiffer ==
    \A i, j \in DOMAIN job : i # j /\ job[i].pc \in LockSteps /\ job[j].pc \in LockSteps
                          => job[i].lock # job[j].lock

LockInv == IdsKnown /\ HoldersHold /\ HoldersDiffer

(* Between lock and unlock a job keeps its mutex; nobody else has one.     *)
LockKeeps(j) ==
    /\ mutex' = mutex
    /\ job'[j].pc \in LockSteps => job[j].pc \in LockSteps /\ job'[j].lock = job[j].lock

(* Every step of a job takes the mutex, releases it or keeps to that.      *)
LEMMA LockMoves ==
    ASSUME CacheTypeOK, NEW j \in DOMAIN job, JobStep(j)
    PROVE  Lock(j) \/ Unlock(j) \/ LockKeeps(j)
<1> SUFFICES ASSUME ~Lock(j), ~Unlock(j) PROVE LockKeeps(j)
  OBVIOUS
<1>1. mutex' = mutex
  BY Untouched
<1>2. SameJob(j) \/ job'[j].pc \in {"start", "done", "enter", "invalidate", "drop"}
  BY LoadStartEffect, EnterFlightEffect, FetchDetailsEffect, StoreDetailsEffect, JoinedEffect,
     SpendEffects, PlainEffects, DropTypes, InvalidateLoadEffect, InvalidateStoreEffect,
     ReadStatusEffect, PerformEffect, ReadStatusAgainEffect, FetchCreditsEffect, CreditsLoadEffect,
     MergeLoadEffect, QueryFetchEffect, QueryLoadEffect DEF JobStep
<1>3. job[j].pc \in LockSteps \/ job'[j].pc \notin LockSteps
  <2>1. CASE LoadStart(j) \/ EnterFlight(j) \/ FetchDetails(j) \/ StoreDetails(j) \/ Joined(j)
    BY <2>1, LoadStartEffect, EnterFlightEffect, FetchDetailsEffect, StoreDetailsEffect, JoinedEffect
       DEF LockSteps
  <2>2. CASE \/ WakeWaiters(j) \/ ReleaseFlight(j) \/ SkipCheckin(j) \/ QueryStore(j)
             \/ QueryFetch(j) \/ QueryLoad(j)
    BY <2>2, PlainEffects, QueryFetchEffect, QueryLoadEffect DEF LockSteps
  <2>3. CASE Spend(j) \/ ClaimTrial(j) \/ InvalidateLoad(j) \/ InvalidateStore(j)
    BY <2>3, SpendEffects, DropTypes, InvalidateLoadEffect, InvalidateStoreEffect DEF LockSteps
  <2>4. CASE \/ ReadStatus(j) \/ Perform(j) \/ ReadStatusAgain(j) \/ FetchCredits(j)
             \/ CreditsLoad(j) \/ CreditsStore(j) \/ MergeLoad(j) \/ MergeStore(j)
    BY <2>4 DEF ReadStatus, Perform, ReadStatusAgain, FetchCredits, CreditsLoad, CreditsStore,
       MergeLoad, MergeStore, Is, LockSteps
  <2> QED
    BY <2>1, <2>2, <2>3, <2>4 DEF JobStep
<1> QED
  BY <1>1, <1>2, <1>3 DEF LockKeeps, SameJob, LockSteps

(* The holders keep different mutexes, whoever moves.                      *)
LEMMA LockStep == CacheTypeOK /\ LockInv /\ [CacheNext]_cacheVars => LockInv'
<1> SUFFICES ASSUME CacheTypeOK, LockInv, [CacheNext]_cacheVars PROVE LockInv'
  OBVIOUS
<1>1. ASSUME NEW j \in DOMAIN job, JobStep(j) PROVE LockInv'
  <2>1. OthersKept(j) /\ (Lock(j) \/ Unlock(j) \/ LockKeeps(j))
    BY <1>1, JobStepMoves, LockMoves DEF Moves
  <2>2. CASE Lock(j)
    <3> DEFINE id == IF mutex.current = 0 THEN mutex.last + 1 ELSE mutex.current
    <3>1. /\ id \in Nat /\ id > 0 /\ id \notin mutex.held
          /\ mutex'.current = id /\ mutex'.held = mutex.held \union {id}
          /\ mutex'.last \in Nat /\ mutex'.last >= id /\ mutex'.last >= mutex.last
      BY <2>2 DEF Lock, acquires, LockInv, IdsKnown, CacheTypeOK, RestTypes
    <3>2. job'[j].lock = id
      BY <2>2, <3>1, LockEffect
    <3> HIDE DEF id
    <3>3. IdsKnown'
      BY <3>1 DEF LockInv, IdsKnown, CacheTypeOK, RestTypes
    <3>4. HoldersHold'
      BY <2>1, <3>1, <3>2 DEF LockInv, HoldersHold, OthersKept
    <3>5. HoldersDiffer'
      BY <2>1, <3>1, <3>2 DEF LockInv, HoldersHold, HoldersDiffer, OthersKept
    <3> QED
      BY <3>3, <3>4, <3>5 DEF LockInv
  <2>3. CASE Unlock(j)
    <3>1. /\ mutex'.held = mutex.held \ {job[j].lock}
          /\ mutex'.current = mutex.current /\ mutex'.last = mutex.last
      BY <2>3, UnlockEffect
    <3>2. job'[j].pc \notin LockSteps /\ job[j].pc \in LockSteps
      BY <2>3, UnlockEffect DEF Unlock, Is, LockSteps
    <3>3. IdsKnown'
      BY <3>1 DEF LockInv, IdsKnown
    <3>4. HoldersHold'
      BY <2>1, <3>1, <3>2 DEF LockInv, HoldersHold, HoldersDiffer, OthersKept
    <3>5. HoldersDiffer'
      BY <2>1, <3>2 DEF LockInv, HoldersDiffer, OthersKept
    <3> QED
      BY <3>3, <3>4, <3>5 DEF LockInv
  <2>4. CASE LockKeeps(j)
    <3>1. IdsKnown'
      BY <2>4 DEF LockInv, IdsKnown, LockKeeps
    <3>2. HoldersHold'
      BY <2>1, <2>4 DEF LockInv, HoldersHold, OthersKept, LockKeeps
    <3>3. HoldersDiffer'
      BY <2>1, <2>4 DEF LockInv, HoldersDiffer, OthersKept, LockKeeps
    <3> QED
      BY <3>1, <3>2, <3>3 DEF LockInv
  <2> QED
    BY <2>1, <2>2, <2>3, <2>4
<1>2. CASE Expire \/ Relist \/ PruneEntry \/ Finished \/ UNCHANGED cacheVars
  <2>1. mutex' = mutex /\ job' = job
    BY <1>2 DEF Expire, Relist, PruneEntry, Finished, cacheVars
  <2> QED
    BY <2>1 DEF LockInv, IdsKnown, HoldersHold, HoldersDiffer
<1>3. CASE pruneCheckinLocks
  <2>1. job' = job /\ mutex'.current = 0 /\ mutex'.held = mutex.held /\ mutex'.last = mutex.last
    BY <1>3 DEF pruneCheckinLocks, CacheTypeOK, RestTypes
  <2> QED
    BY <2>1 DEF LockInv, IdsKnown, HoldersHold, HoldersDiffer, CacheTypeOK, RestTypes
<1> QED
  BY <1>1, <1>2, <1>3 DEF CacheNext

(* The types hold at the start.                                            *)
LEMMA CacheInitTypes == CacheInit => CacheTypeOK
<1> SUFFICES ASSUME CacheInit PROVE CacheTypeOK
  OBVIOUS
<1>1. PICK team \in Teams : job = [j \in DOMAIN team |-> NewJob(team[j])]
  BY DEF CacheInit
<1>2. PICK S \in SUBSET Jobs : team \in [S -> JobKinds]
  BY <1>1, CacheAssumption
<1>3. \A k \in JobKinds : NewJob(k) \in JobRecord /\ NewJob(k).pc = "start"
  BY StatusFacts DEF NewJob, JobRecord, Steps, Credits
<1>4. RestTypes /\ flight = NoJob
  BY CacheAssumption DEF CacheInit, RestTypes
<1> QED
  BY <1>1, <1>2, <1>3, <1>4 DEF CacheTypeOK, RecordOK

(* A team at the start has not read anything.                              *)
LEMMA StartsFresh == CacheInit => \A j \in DOMAIN job : job[j].pc = "start" /\ job[j].floor = 0
BY DEF CacheInit, NewJob

(* CheckinsSerial holds in every behaviour: two check-in calls at once     *)
(* take two mutexes, and so a mutex that was forgotten (withCheckinLock    *)
(* and pruneCheckinLocks in checkin.go).                                   *)
THEOREM SerialCorrect == CacheSpec => []CheckinsSerial
<1>1. CacheInit => CacheTypeOK /\ LockInv
  BY CacheInitTypes, StartsFresh DEF CacheInit, LockInv, IdsKnown, HoldersHold, HoldersDiffer, LockSteps
<1>2. CacheTypeOK /\ LockInv /\ [CacheNext]_cacheVars => (CacheTypeOK /\ LockInv)'
  BY CacheTypes, LockStep
<1>3. CacheTypeOK /\ LockInv => CheckinsSerial
  <2> SUFFICES ASSUME CacheTypeOK, LockInv,
                      NEW i \in DOMAIN job, NEW j \in DOMAIN job, i # j, Is(i, "perform"), Is(j, "perform")
               PROVE  mutex.last > 1
    BY DEF CheckinsSerial
  <2>1. job[i].lock \in Nat /\ job[j].lock \in Nat /\ mutex.last \in Nat
    BY JobType DEF CacheTypeOK, RestTypes, JobRecord
  <2>2. job[i].pc \in LockSteps /\ job[j].pc \in LockSteps
    BY DEF Is, LockSteps
  <2>3. /\ job[i].lock > 0 /\ job[j].lock > 0 /\ job[i].lock # job[j].lock
        /\ job[i].lock <= mutex.last /\ job[j].lock <= mutex.last
    BY <2>2 DEF LockInv, IdsKnown, HoldersHold, HoldersDiffer
  <2> QED
    BY <2>1, <2>3
<1> QED
  BY <1>1, <1>2, <1>3, PTL DEF CacheSpec

----------------------------------------------------------------------------
(* What is cached, and what a job has read and may still store or report,  *)
(* is not below the floor; a job's own floor is the one it started at.     *)
AtLeast(c, f) == c = Unknown \/ c >= f
EntryAtLeast(e, f) == e = NoEntry \/ AtLeast(e.credits, f)

Loads == {"load", "force"}
Flying == {"fetch", "store", "close", "release"}
HoldsEntry == {"enter", "fetch", "store", "mergeStore"}
HoldsCredits == {"store", "close", "release", "credited", "creditStore", "queryLoad", "queryStore"}

JobOK(r, f, b) ==
    /\ r.floor <= b
    /\ r.kind \in Loads => r.floor <= f
    /\ r.pc \in LoadSteps => r.kind \in Loads
    /\ r.pc \in DropSteps => r.kind \notin Loads
    /\ r.pc \in HoldsEntry => EntryAtLeast(r.prev, f)
    /\ r.pc \in HoldsCredits => AtLeast(r.credits, f)
    /\ r.kind \in Loads /\ r.pc = "done" => AtLeast(r.credits, r.floor)

(* The job that fetches is on its way, and so is, or was, the one that     *)
(* another waits for.                                                      *)
FlightOK == flight = NoJob \/ (flight \in DOMAIN job /\ job[flight].pc \in Flying)

JoinOK ==
    \A j \in DOMAIN job : job[j].pc = "join" =>
        LET w == job[j].with IN
        /\ w \in DOMAIN job /\ job[w].kind \in Loads /\ job[w].pc \in Flying \union {"done"}
        /\ job[w].pc = "done" => AtLeast(job[w].credits, job[j].floor)

FloorInv ==
    /\ floor <= balance
    /\ EntryAtLeast(entry, floor)
    /\ \A j \in DOMAIN job : JobOK(job[j], floor, balance)
    /\ FlightOK /\ JoinOK

(* Arithmetic of the floors.                                               *)
LEMMA AtLeastFacts ==
    ASSUME CacheTypeOK, FloorInv
    PROVE  /\ AtLeast(balance, floor)
           /\ \A f : AtLeast(Unknown, f)
           /\ \A c \in Credits, f, g \in Nat : AtLeast(c, f) /\ g <= f => AtLeast(c, g)
<1>1. AtLeast(balance, floor) /\ \A f : AtLeast(Unknown, f)
  BY DEF AtLeast, FloorInv, CacheTypeOK, RestTypes
<1>2. ASSUME NEW c \in Credits, NEW f \in Nat, NEW g \in Nat, AtLeast(c, f), g <= f PROVE AtLeast(c, g)
  BY <1>2 DEF AtLeast, Credits
<1> QED
  BY <1>1, <1>2

(* A step of a job keeps the floor, but for a drop of the balance while    *)
(* nobody holds what it read before.                                       *)
FloorMoves ==
    /\ balance' >= balance /\ floor' <= balance'
    /\ floor' = floor \/ (floor' > floor /\ \A i \in DOMAIN job : ~Holding(i))

(* Every step of a job moves the floor like that.                          *)
LEMMA FloorSteps == ASSUME CacheTypeOK, FloorInv, NEW j \in DOMAIN job, JobStep(j) PROVE FloorMoves
<1>1. floor \in Nat /\ balance \in Nat /\ floor <= balance /\ job[j].floor \in Nat /\ job[j].floor <= balance
  BY JobType DEF FloorInv, JobOK, CacheTypeOK, RestTypes, JobRecord
<1>2. balance' \in Nat /\ balance' >= balance /\ (balance' = balance \/ floor' = floor)
  <2>1. CASE Spend(j) \/ ClaimTrial(j) \/ Perform(j)
    BY <2>1, SpendEffects, PerformEffect DEF Spend, ClaimTrial, Perform
  <2>2. CASE balance' = balance
    BY <1>1, <2>2
  <2> QED
    BY <2>1, <2>2, Untouched
<1>3. floor' = floor \/ (floor' = job[j].floor /\ floor' > floor /\ \A i \in DOMAIN job : ~Holding(i))
  BY Untouched DEF InvalidateLoad, InvalidateStore, Raise
<1> QED
  BY <1>1, <1>2, <1>3 DEF FloorMoves

(* What a step stores is not below the floor.                              *)
LEMMA EntrySteps ==
    ASSUME CacheTypeOK, FloorInv, NEW j \in DOMAIN job, JobStep(j) PROVE EntryAtLeast(entry', floor')
<1>1. /\ EntryAtLeast(entry, floor) /\ JobOK(job[j], floor, balance) /\ AtLeast(Unknown, floor)
      /\ AtLeast(Unknown, floor')
  BY AtLeastFacts DEF FloorInv
<1>2. CASE StoreDetails(j)
  <2>1. /\ floor' = floor /\ Is(j, "store") /\ entry'.credits = job'[j].credits
        /\ \/ job'[j].credits = job[j].credits
           \/ job[j].prev # NoEntry /\ job'[j].credits = job[j].prev.credits
    BY <1>2, StoreDetailsEffect DEF StoreDetails, Entry
  <2> QED
    BY <1>1, <2>1 DEF Is, JobOK, EntryAtLeast, HoldsEntry, HoldsCredits
<1>3. CASE InvalidateLoad(j)
  BY <1>1, <1>3 DEF InvalidateLoad, Raise, EntryAtLeast
<1>4. CASE InvalidateStore(j)
  BY <1>1, <1>4, InvalidateStoreEffect DEF EntryAtLeast
<1>5. CASE CreditsStore(j)
  BY <1>1, <1>5 DEF CreditsStore, Is, Entry, JobOK, EntryAtLeast, HoldsEntry,
     HoldsCredits
<1>6. CASE MergeStore(j)
  BY <1>1, <1>6 DEF MergeStore, Is, Entry, JobOK, EntryAtLeast, HoldsEntry,
     HoldsCredits
<1>7. CASE QueryStore(j)
  BY <1>1, <1>7 DEF QueryStore, Is, Entry, JobOK, EntryAtLeast, HoldsEntry,
     HoldsCredits
<1>8. CASE entry' = entry /\ floor' = floor
  BY <1>1, <1>8
<1> QED
  BY <1>2, <1>3, <1>4, <1>5, <1>6, <1>7, <1>8, Untouched

(* What a drop of the balance leaves is no load, or one that starts anew.  *)
LEMMA DroppedOK ==
    ASSUME CacheTypeOK, NEW j \in DOMAIN job, NEW f \in Nat, NEW b \in Nat,
           job[j].kind \notin Loads, job[j].floor <= b
    PROVE  JobOK(Dropped(j), f, b)
<1>1. job[j] \in JobRecord /\ job[j].floor \in Nat /\ "done" \in Steps
  BY JobType DEF JobRecord, Steps
<1>2. CASE job[j].kind \in {"global", "trial"}
  BY <1>2 DEF Dropped, NewJob, JobOK, HoldsEntry, HoldsCredits, LoadSteps, DropSteps
<1>3. CASE job[j].kind \notin {"global", "trial"}
  <2>1. Dropped(j).pc = "done" /\ Dropped(j).kind = job[j].kind /\ Dropped(j).floor = job[j].floor
    BY <1>1, <1>3, OnlyMoves DEF Dropped
  <2> QED
    BY <1>1, <2>1 DEF JobOK, HoldsEntry, HoldsCredits, LoadSteps, DropSteps
<1> QED
  BY <1>2, <1>3

(* The job that steps is left as it should be.                             *)
LEMMA OwnJobSteps ==
    ASSUME CacheTypeOK, FloorInv, NEW j \in DOMAIN job, JobStep(j) PROVE JobOK(job'[j], floor', balance')
<1>1. /\ EntryAtLeast(entry, floor) /\ JobOK(job[j], floor, balance)
      /\ job[j] \in JobRecord /\ job[j].floor \in Nat /\ entry \in Entries \union {NoEntry}
      /\ floor \in Nat /\ balance \in Nat /\ floor <= balance
  BY JobType DEF FloorInv, CacheTypeOK, RestTypes, JobRecord
<1>2. FloorMoves
  BY FloorSteps
<1> USE DEF Is, HoldsEntry, HoldsCredits, LoadSteps, DropSteps, Loads
<1>3. CASE LoadStart(j)
  <2>1. /\ floor' = floor /\ balance' = balance /\ job'[j].kind \in Loads /\ job'[j].floor = floor
        /\ \/ job'[j].pc = "done" /\ AtLeast(job'[j].credits, floor)
           \/ job'[j].pc = "enter" /\ EntryAtLeast(job'[j].prev, floor)
    BY <1>1, <1>3, LoadStartEffect DEF LoadStart, EntryAtLeast
  <2> QED
    BY <1>1, <2>1 DEF JobOK
<1>4. CASE EnterFlight(j)
  <2>1. /\ floor' = floor /\ balance' = balance /\ job[j].pc = "enter" /\ SameJob(j)
        /\ (job'[j].pc = "fetch" /\ job'[j].prev = job[j].prev) \/ job'[j].pc = "join"
    BY <1>4, EnterFlightEffect DEF EnterFlight
  <2> QED
    BY <1>1, <2>1 DEF JobOK, SameJob
<1>5. CASE FetchDetails(j)
  <2>1. /\ floor' = floor /\ balance' = balance /\ job[j].pc = "fetch" /\ SameJob(j)
        /\ job'[j].pc = "store" /\ job'[j].prev = job[j].prev /\ AtLeast(job'[j].credits, floor)
    BY <1>5, FetchDetailsEffect, AtLeastFacts DEF FetchDetails
  <2> QED
    BY <1>1, <2>1 DEF JobOK, SameJob
<1>6. CASE StoreDetails(j)
  <2>1. /\ floor' = floor /\ balance' = balance /\ job[j].pc = "store" /\ SameJob(j) /\ job'[j].pc = "close"
        /\ \/ job'[j].credits = job[j].credits
           \/ job[j].prev # NoEntry /\ job'[j].credits = job[j].prev.credits
    BY <1>6, StoreDetailsEffect DEF StoreDetails
  <2>2. AtLeast(job'[j].credits, floor)
    BY <1>1, <2>1 DEF JobOK, EntryAtLeast
  <2> QED
    BY <1>1, <2>1, <2>2 DEF JobOK, SameJob
<1>7. CASE WakeWaiters(j)
  <2>1. /\ floor' = floor /\ balance' = balance /\ job[j].pc = "close" /\ SameJob(j)
        /\ job'[j].pc = "release" /\ job'[j].credits = job[j].credits
    BY <1>7, PlainEffects DEF WakeWaiters
  <2> QED
    BY <1>1, <2>1 DEF JobOK, SameJob
<1>8. CASE ReleaseFlight(j)
  <2>1. /\ floor' = floor /\ balance' = balance /\ job[j].pc = "release" /\ SameJob(j)
        /\ job'[j].pc = "done" /\ job'[j].credits = job[j].credits
    BY <1>8, PlainEffects DEF ReleaseFlight
  <2>2. job[j].kind \in Loads /\ job[j].floor <= floor /\ job[j].credits \in Credits /\ AtLeast(job[j].credits, floor)
    BY <1>1, <2>1 DEF JobOK, JobRecord
  <2>3. AtLeast(job[j].credits, job[j].floor)
    BY <1>1, <2>2, AtLeastFacts
  <2> QED
    BY <1>1, <2>1, <2>3 DEF JobOK, SameJob
<1>9. CASE Joined(j)
  <2> DEFINE other == job[job[j].with]
  <2>1. /\ floor' = floor /\ balance' = balance /\ job[j].pc = "join" /\ SameJob(j) /\ job'[j].pc = "done"
        /\ job[j].with \in DOMAIN job /\ other.pc \in {"release", "done"}
        /\ job'[j].credits = IF entry # NoEntry THEN entry.credits ELSE other.credits
    BY <1>9, JoinedEffect DEF Joined
  <2>2. job[j].kind \in Loads /\ job[j].floor <= floor
    BY <1>1, <2>1 DEF JobOK
  <2>3. AtLeast(job'[j].credits, job[j].floor)
    <3>1. CASE entry # NoEntry
      <4>1. entry.credits \in Credits /\ AtLeast(entry.credits, floor)
        BY <1>1, <3>1 DEF EntryAtLeast, Entries
      <4> QED
        BY <1>1, <2>1, <2>2, <3>1, <4>1, AtLeastFacts
    <3>2. CASE entry = NoEntry
      <4>1. other.pc = "done" => AtLeast(other.credits, job[j].floor)
        BY <2>1 DEF FloorInv, JoinOK
      <4>2. other.credits \in Credits
        BY <2>1, JobType DEF JobRecord
      <4>3. other.pc = "release" => AtLeast(other.credits, floor)
        BY <2>1 DEF FloorInv, JobOK
      <4> QED
        BY <1>1, <2>1, <2>2, <3>2, <4>1, <4>2, <4>3, AtLeastFacts
    <3> QED
      BY <3>1, <3>2
  <2> QED
    BY <1>1, <2>1, <2>3 DEF JobOK, SameJob
<1>10. CASE Spend(j) \/ ClaimTrial(j)
  <2>1. /\ floor' = floor /\ balance' \in Nat /\ balance' >= balance /\ job'[j].kind = job[j].kind
        /\ job[j].kind \in {"chat", "trial"} /\ job'[j].pc = "invalidate"
        /\ job'[j].floor \in {job[j].floor, balance'}
    BY <1>10, SpendEffects DEF Spend, ClaimTrial
  <2> QED
    BY <1>1, <2>1 DEF JobOK
<1>11. CASE SkipCheckin(j)
  <2>1. /\ floor' = floor /\ balance' = balance /\ job[j].kind = "global" /\ SameJob(j)
        /\ job'[j].pc = "invalidate"
    BY <1>11, PlainEffects DEF SkipCheckin
  <2> QED
    BY <1>1, <2>1 DEF JobOK, SameJob
<1>12. CASE InvalidateLoad(j) \/ InvalidateStore(j)
  <2>1. /\ job[j].kind \notin Loads /\ job[j].floor <= balance /\ balance' = balance
    BY <1>1, <1>12 DEF InvalidateLoad, InvalidateStore, JobOK
  <2>2. floor' \in Nat
    BY <1>1, <1>12 DEF InvalidateLoad, InvalidateStore, Raise
  <2>3. CASE job'[j] = Dropped(j)
    BY <1>1, <2>1, <2>2, <2>3, DroppedOK
  <2>4. CASE /\ job'[j].pc = "drop" /\ job'[j].kind = job[j].kind /\ floor' = floor
             /\ job'[j].floor \in {0, job[j].floor}
    BY <1>1, <2>1, <2>4 DEF JobOK
  <2> QED
    BY <1>12, <2>3, <2>4, InvalidateLoadEffect, InvalidateStoreEffect
<1>13. CASE Lock(j)
  <2>1. /\ floor' = floor /\ balance' = balance /\ job[j].kind \in {"auto", "manual"}
        /\ job'[j].kind = job[j].kind /\ job'[j].floor = job[j].floor /\ job'[j].pc = "status"
    BY <1>13, LockEffect DEF Lock
  <2> QED
    BY <1>1, <2>1 DEF JobOK
<1>14. CASE ReadStatus(j) \/ Perform(j) \/ ReadStatusAgain(j)
  <2>1. floor' = floor /\ balance' \in Nat /\ balance' >= balance
    <3>1. floor' = floor /\ (balance' = balance \/ Perform(j))
      BY <1>14 DEF ReadStatus, Perform, ReadStatusAgain
    <3> QED
      BY <1>1, <3>1, PerformEffect
  <2>2. SameJob(j) /\ job'[j].pc \in {"perform", "again", "credits", "merge", "unlock"}
    BY <1>14, ReadStatusEffect, PerformEffect, ReadStatusAgainEffect
  <2> QED
    BY <1>1, <2>1, <2>2 DEF JobOK, SameJob
<1>15. CASE FetchCredits(j)
  <2>1. /\ floor' = floor /\ balance' = balance /\ SameJob(j)
        /\ (job'[j].pc = "credited" /\ AtLeast(job'[j].credits, floor)) \/ job'[j].pc = "merge"
    BY <1>15, FetchCreditsEffect, AtLeastFacts DEF FetchCredits
  <2> QED
    BY <1>1, <2>1 DEF JobOK, SameJob
<1>16. CASE CreditsLoad(j)
  <2>1. /\ floor' = floor /\ balance' = balance /\ job[j].pc = "credited" /\ SameJob(j)
        /\ job'[j].pc \in {"merge", "creditStore"} /\ job'[j].credits = job[j].credits
    BY <1>16, CreditsLoadEffect DEF CreditsLoad
  <2> QED
    BY <1>1, <2>1 DEF JobOK, SameJob
<1>17. CASE CreditsStore(j) \/ MergeStore(j)
  <2>1. /\ floor' = floor /\ balance' = balance /\ SameJob(j) /\ job'[j].pc \in {"merge", "unlock"}
    BY <1>17, PlainEffects DEF CreditsStore, MergeStore
  <2> QED
    BY <1>1, <2>1 DEF JobOK, SameJob
<1>18. CASE MergeLoad(j)
  <2>1. /\ floor' = floor /\ balance' = balance /\ SameJob(j)
        /\ job'[j].pc = "mergeStore" /\ EntryAtLeast(job'[j].prev, floor)
    BY <1>1, <1>18, MergeLoadEffect DEF MergeLoad
  <2> QED
    BY <1>1, <2>1 DEF JobOK, SameJob
<1>19. CASE Unlock(j)
  <2>1. floor' = floor /\ balance' = balance
    BY <1>19 DEF Unlock
  <2>2. CASE job'[j] = NewJob("force")
    BY <1>1, <2>1, <2>2 DEF NewJob, JobOK
  <2>3. CASE /\ job'[j].pc = "done" /\ job'[j].credits = Unknown
             /\ job'[j].kind = job[j].kind /\ job'[j].floor = job[j].floor
    BY <1>1, <2>1, <2>3, AtLeastFacts DEF JobOK
  <2> QED
    BY <1>19, <2>2, <2>3, UnlockEffect
<1>20. CASE QueryFetch(j)
  <2>1. /\ floor' = floor /\ balance' = balance /\ job[j].kind = "query" /\ SameJob(j)
        /\ job'[j].pc \in {"done", "queryLoad"} /\ AtLeast(job'[j].credits, floor)
    BY <1>20, QueryFetchEffect, AtLeastFacts DEF QueryFetch
  <2> QED
    BY <1>1, <2>1 DEF JobOK, SameJob
<1>21. CASE QueryLoad(j)
  <2>1. /\ floor' = floor /\ balance' = balance /\ job[j].pc = "queryLoad" /\ SameJob(j)
        /\ job'[j].pc = "queryStore" /\ job'[j].credits = job[j].credits
    BY <1>21, QueryLoadEffect DEF QueryLoad
  <2> QED
    BY <1>1, <2>1 DEF JobOK, SameJob
<1>22. CASE QueryStore(j)
  <2>1. /\ floor' = floor /\ balance' = balance /\ job[j].pc = "queryStore" /\ SameJob(j)
        /\ job'[j].pc = "done" /\ job'[j].credits = job[j].credits
    BY <1>22, PlainEffects DEF QueryStore
  <2>2. /\ job[j].credits \in Credits /\ AtLeast(job[j].credits, floor)
        /\ job[j].kind \in Loads => job[j].floor <= floor
    BY <1>1, <2>1 DEF JobOK, JobRecord
  <2>3. job[j].kind \in Loads => AtLeast(job[j].credits, job[j].floor)
    BY <1>1, <2>2, AtLeastFacts
  <2> QED
    BY <1>1, <2>1, <2>3 DEF JobOK, SameJob
<1> QED
  BY <1>3, <1>4, <1>5, <1>6, <1>7, <1>8, <1>9, <1>10, <1>11, <1>12, <1>13, <1>14,
     <1>15, <1>16, <1>17, <1>18, <1>19, <1>20, <1>21, <1>22 DEF JobStep

(* A step keeps the flight, starts one, or ends its own.                   *)
FlightMoves(j) ==
    \/ /\ flight' = flight /\ job[j].pc \notin Flying \union {"done"} /\ job'[j].pc # "join"
    \/ /\ flight' = flight /\ job[j].pc \in Flying /\ job'[j].pc \in Flying /\ job'[j].kind = job[j].kind
    \/ EnterFlight(j)
    \/ ReleaseFlight(j)

(* That is so for every step of a job.                                     *)
LEMMA FlightSteps == ASSUME CacheTypeOK, NEW j \in DOMAIN job, JobStep(j) PROVE FlightMoves(j)
<1> SUFFICES ASSUME ~EnterFlight(j), ~ReleaseFlight(j) PROVE FlightMoves(j)
  BY DEF FlightMoves
<1>1. flight' = flight
  BY Untouched
<1>2. CASE FetchDetails(j) \/ StoreDetails(j) \/ WakeWaiters(j)
  <2>1. job[j].pc \in Flying /\ job'[j].pc \in Flying /\ SameJob(j)
    BY <1>2, FetchDetailsEffect, StoreDetailsEffect, PlainEffects
       DEF FetchDetails, StoreDetails, WakeWaiters, Is, Flying
  <2> QED
    BY <1>1, <2>1 DEF FlightMoves, SameJob
<1>3. CASE ~(FetchDetails(j) \/ StoreDetails(j) \/ WakeWaiters(j))
  <2>1. job'[j].pc # "join"
    BY <1>3, LoadStartEffect, JoinedEffect, SpendEffects, PlainEffects, DropTypes,
       InvalidateLoadEffect, InvalidateStoreEffect, LockEffect, ReadStatusEffect, PerformEffect,
       ReadStatusAgainEffect, FetchCreditsEffect, CreditsLoadEffect, MergeLoadEffect, UnlockEffect,
       QueryFetchEffect, QueryLoadEffect DEF JobStep
  <2>2. job[j].pc \notin Flying \union {"done"}
    BY <1>3 DEF JobStep, LoadStart, Joined, Spend, ClaimTrial, SkipCheckin, InvalidateLoad,
       InvalidateStore, Lock, ReadStatus, Perform, ReadStatusAgain, FetchCredits, CreditsLoad,
       CreditsStore, MergeLoad, MergeStore, Unlock, QueryFetch, QueryLoad, QueryStore, Is, Flying
  <2> QED
    BY <1>1, <2>1, <2>2 DEF FlightMoves
<1> QED
  BY <1>2, <1>3

(* Nothing below the floor is cached, held or reported, whoever moves.     *)
LEMMA FloorStep == CacheTypeOK /\ FloorInv /\ [CacheNext]_cacheVars => FloorInv'
<1> SUFFICES ASSUME CacheTypeOK, FloorInv, [CacheNext]_cacheVars PROVE FloorInv'
  OBVIOUS
<1>1. ASSUME NEW j \in DOMAIN job, JobStep(j) PROVE FloorInv'
  <2>1. /\ OthersKept(j) /\ FloorMoves /\ FlightMoves(j)
        /\ JobOK(job'[j], floor', balance') /\ EntryAtLeast(entry', floor')
    BY <1>1, JobStepMoves, FloorSteps, FlightSteps, OwnJobSteps, EntrySteps DEF Moves
  <2>2. CacheTypeOK'
    BY <1>1, JobStepTypes
  <2>3. \A i \in DOMAIN job' : JobOK(job'[i], floor', balance')
    <3> SUFFICES ASSUME NEW i \in DOMAIN job, i # j PROVE JobOK(job[i], floor', balance')
      BY <2>1 DEF OthersKept
    <3>1. /\ JobOK(job[i], floor, balance) /\ job[i].floor \in Nat
          /\ floor \in Nat /\ floor' \in Nat /\ balance \in Nat /\ balance' \in Nat
      BY <2>2, JobType DEF FloorInv, CacheTypeOK, RestTypes, JobRecord
    <3>2. CASE floor' = floor
      BY <2>1, <3>1, <3>2 DEF FloorMoves, JobOK
    <3>3. CASE floor' > floor /\ ~Holding(i)
      BY <2>1, <3>1, <3>3 DEF FloorMoves, JobOK, Holding, HoldsEntry, HoldsCredits
    <3> QED
      BY <2>1, <3>2, <3>3 DEF FloorMoves
  <2>4. FlightOK'
    <3>1. CASE EnterFlight(j)
      BY <2>1, <3>1, EnterFlightEffect DEF EnterFlight, Is, FloorInv, FlightOK, OthersKept, Flying
    <3>2. CASE ReleaseFlight(j)
      BY <3>2 DEF ReleaseFlight, FlightOK
    <3>3. CASE flight' = flight /\ (job[j].pc \in Flying => job'[j].pc \in Flying)
      BY <2>1, <3>3 DEF FloorInv, FlightOK, OthersKept
    <3> QED
      BY <2>1, <3>1, <3>2, <3>3 DEF FlightMoves
  <2>5. JoinOK'
    <3> SUFFICES ASSUME NEW i \in DOMAIN job, job'[i].pc = "join"
                 PROVE  LET w == job'[i].with IN
                        /\ w \in DOMAIN job /\ job'[w].kind \in Loads /\ job'[w].pc \in Flying \union {"done"}
                        /\ job'[w].pc = "done" => AtLeast(job'[w].credits, job'[i].floor)
      BY <2>1 DEF JoinOK, OthersKept
    <3>1. CASE i = j
      <4>1. EnterFlight(j)
        BY <2>1, <3>1, PlainEffects DEF FlightMoves, Flying
      <4>2. flight # NoJob /\ job'[j].with = flight /\ job[j].pc = "enter"
        BY <3>1, <4>1, EnterFlightEffect DEF EnterFlight, Is
      <4>3. flight \in DOMAIN job /\ job[flight].pc \in Flying
        BY <4>2 DEF FloorInv, FlightOK
      <4>4. flight # j /\ job'[flight] = job[flight]
        BY <2>1, <4>2, <4>3 DEF OthersKept, Flying
      <4>5. job[flight].kind \in Loads
        BY <4>3 DEF FloorInv, JobOK, Flying, LoadSteps
      <4> QED
        BY <3>1, <4>2, <4>3, <4>4, <4>5 DEF Flying
    <3>2. CASE i # j
      <4> DEFINE w == job[i].with
      <4>1. job'[i] = job[i]
        BY <2>1, <3>2 DEF OthersKept
      <4>2. /\ w \in DOMAIN job /\ job[w].kind \in Loads /\ job[w].pc \in Flying \union {"done"}
            /\ job[w].pc = "done" => AtLeast(job[w].credits, job[i].floor)
        BY <4>1 DEF FloorInv, JoinOK
      <4>3. CASE w # j
        BY <2>1, <4>1, <4>2, <4>3 DEF OthersKept
      <4>4. CASE w = j
        <5>1. CASE ReleaseFlight(j)
          <6>1. job'[j].pc = "done" /\ job'[j].kind = job[j].kind /\ job'[j].credits = job[j].credits
            BY <5>1, PlainEffects DEF SameJob
          <6>2. job[j].credits \in Credits /\ AtLeast(job[j].credits, floor)
            BY <5>1, JobType DEF ReleaseFlight, Is, FloorInv, JobOK, HoldsCredits, JobRecord
          <6>3. job[i].floor \in Nat /\ floor \in Nat /\ job[i].floor <= floor
            BY <4>1, JobType DEF FloorInv, JobOK, LoadSteps, CacheTypeOK, RestTypes, JobRecord
          <6> QED
            BY <4>1, <4>2, <4>4, <6>1, <6>2, <6>3, AtLeastFacts
        <5>2. CASE ~ReleaseFlight(j)
          <6>1. ~EnterFlight(j)
            BY <4>2, <4>4 DEF EnterFlight, Is, Flying
          <6>2. job'[j].pc \in Flying /\ job'[j].kind = job[j].kind
            BY <2>1, <4>2, <4>4, <5>2, <6>1 DEF FlightMoves
          <6> QED
            BY <4>1, <4>2, <4>4, <6>2 DEF Flying
        <5> QED
          BY <5>1, <5>2
      <4> QED
        BY <4>3, <4>4
    <3> QED
      BY <3>1, <3>2
  <2> QED
    BY <2>1, <2>3, <2>4, <2>5 DEF FloorInv, FloorMoves
<1>2. CASE Expire \/ PruneEntry
  <2>1. job' = job /\ flight' = flight /\ floor' = floor /\ balance' = balance
    BY <1>2 DEF Expire, PruneEntry
  <2>2. EntryAtLeast(entry', floor)
    <3>1. CASE Expire
      BY <3>1 DEF Expire, fresh, FloorInv, EntryAtLeast, CacheTypeOK, RestTypes, Entries
    <3>2. CASE PruneEntry
      BY <3>2 DEF PruneEntry, EntryAtLeast
    <3> QED
      BY <1>2, <3>1, <3>2
  <2> QED
    BY <2>1, <2>2 DEF FloorInv, FlightOK, JoinOK
<1>3. CASE Relist \/ pruneCheckinLocks \/ Finished \/ UNCHANGED cacheVars
  <2>1. job' = job /\ flight' = flight /\ floor' = floor /\ balance' = balance /\ entry' = entry
    BY <1>3 DEF Relist, pruneCheckinLocks, Finished, cacheVars
  <2> QED
    BY <2>1 DEF FloorInv, FlightOK, JoinOK
<1> QED
  BY <1>1, <1>2, <1>3 DEF CacheNext

(* SpentCreditsGone holds in every behaviour: a balance dropped while      *)
(* nobody stored an older one is never cached or reported again            *)
(* (cachedAccountDetails in cache.go beside invalidateAccountCredits in    *)
(* lifecycle.go and the check-ins of checkin.go).                          *)
THEOREM SpentCorrect == CacheSpec => []SpentCreditsGone
<1>1. CacheInit => CacheTypeOK /\ FloorInv
  <2> SUFFICES ASSUME CacheInit PROVE FloorInv
    BY CacheInitTypes
  <2>1. CacheTypeOK /\ (\A j \in DOMAIN job : job[j].pc = "start" /\ job[j].floor = 0)
    BY CacheInitTypes, StartsFresh
  <2>2. floor = 0 /\ balance = 1 /\ flight = NoJob
    BY DEF CacheInit
  <2>3. EntryAtLeast(entry, floor)
    BY <2>1, <2>2 DEF EntryAtLeast, AtLeast, CacheTypeOK, RestTypes, Entries, Credits
  <2>4. \A j \in DOMAIN job : JobOK(job[j], floor, balance)
    BY <2>1, <2>2 DEF JobOK, LoadSteps, DropSteps, HoldsEntry, HoldsCredits
  <2> QED
    BY <2>1, <2>2, <2>3, <2>4 DEF FloorInv, FlightOK, JoinOK
<1>2. CacheTypeOK /\ FloorInv /\ [CacheNext]_cacheVars => (CacheTypeOK /\ FloorInv)'
  BY CacheTypes, FloorStep
<1>3. CacheTypeOK /\ FloorInv => SpentCreditsGone
  BY DEF FloorInv, EntryAtLeast, AtLeast, JobOK, Loads, SpentCreditsGone
<1> QED
  BY <1>1, <1>2, <1>3, PTL DEF CacheSpec

=============================================================================
