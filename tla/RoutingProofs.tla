--------------------------- MODULE RoutingProofs ---------------------------
(***************************************************************************)
(* The two records of an account's last use agree, for any pool: usedSeq,  *)
(* which breaks ties, never contradicts lastUsed, which filters.           *)
(*                                                                         *)
(* Agreement alone is not inductive.  That a selection puts its account    *)
(* last in the order needs every rank in use to be at most the number of   *)
(* accounts used; that a removal keeps this bound needs no two accounts to *)
(* share a rank.                                                           *)
(*                                                                         *)
(* The second part is about concurrent scheduler.pick calls on that pool:  *)
(* the records stay right, and a call that gives up its draws had no       *)
(* candidate left.  The latter needs that every draw is a new entry of the *)
(* pool that is no open candidate, and that draws and budget add up.       *)
(***************************************************************************)
EXTENDS Routing, FiniteSetTheorems, TLAPS

(* The accounts selected at least once since they were added.              *)
Used == {b \in Accounts : usedSeq[b] > 0}

UseTypeOK ==
    /\ byUID \subseteq Accounts
    /\ usedSeq \in [Accounts -> Nat]
    /\ sinceUsed \in [Accounts -> 0..MinPickGap]

RanksBounded == \A b \in Accounts : usedSeq[b] <= Cardinality(Used)

RanksDiffer ==
    \A b, c \in Accounts : b /= c /\ usedSeq[b] > 0 => usedSeq[b] /= usedSeq[c]

UseInv == UseTypeOK /\ RanksBounded /\ RanksDiffer /\ UsedOrderConsistent

(* The accounts in use are finitely many, and their number is a number.    *)
LEMMA UsedFinite ==
    IsFiniteSet(Used) /\ Cardinality(Used) \in Nat
<1>1. Used \subseteq Accounts  BY DEF Used
<1> QED  BY <1>1, SelectionAssumption, FS_Subset, FS_CardinalityType

(* Forgetting an account's use keeps the ranks of the others distinct and   *)
(* in their order, and makes them at most the number of the others in use.  *)
LEMMA ForgetUseOK ==
    ASSUME UseInv, NEW a \in Accounts
    PROVE  /\ forgetUse(a) \in [Accounts -> Nat] /\ forgetUse(a)[a] = 0
           /\ \A b \in Accounts \ {a} :
                 /\ forgetUse(a)[b] > 0 <=> usedSeq[b] > 0
                 /\ forgetUse(a)[b] <= Cardinality(Used \ {a})
           /\ \A b, c \in Accounts \ {a} :
                 /\ forgetUse(a)[b] < forgetUse(a)[c] <=> usedSeq[b] < usedSeq[c]
                 /\ forgetUse(a)[b] = forgetUse(a)[c] <=> usedSeq[b] = usedSeq[c]
<1> DEFINE F == forgetUse(a)
<1>1. usedSeq \in [Accounts -> Nat]  BY DEF UseInv, UseTypeOK
<1>2. /\ F \in [Accounts -> Nat] /\ F[a] = 0
      /\ \A b \in Accounts \ {a} :
            F[b] = IF usedSeq[a] > 0 /\ usedSeq[b] > usedSeq[a]
                   THEN usedSeq[b] - 1 ELSE usedSeq[b]
  BY <1>1 DEF forgetUse
<1>3. \A b \in Accounts \ {a} : usedSeq[b] > 0 => usedSeq[b] /= usedSeq[a]
  BY DEF UseInv, RanksDiffer
<1>4. \A b \in Accounts : usedSeq[b] <= Cardinality(Used)
  BY DEF UseInv, RanksBounded
<1>5. /\ Cardinality(Used) \in Nat
      /\ Cardinality(Used \ {a}) = IF a \in Used THEN Cardinality(Used) - 1
                                   ELSE Cardinality(Used)
  BY UsedFinite, FS_RemoveElement
<1>6. a \in Used <=> usedSeq[a] > 0  BY DEF Used
<1> HIDE DEF F
<1>7. \A b \in Accounts \ {a} : F[b] > 0 <=> usedSeq[b] > 0
  BY <1>1, <1>2
<1>8. \A b \in Accounts \ {a} : F[b] <= Cardinality(Used \ {a})
  BY <1>1, <1>2, <1>3, <1>4, <1>5, <1>6
<1>9. \A b, c \in Accounts \ {a} :
         /\ F[b] < F[c] <=> usedSeq[b] < usedSeq[c]
         /\ F[b] = F[c] <=> usedSeq[b] = usedSeq[c]
  <2> SUFFICES ASSUME NEW b \in Accounts \ {a}, NEW c \in Accounts \ {a}
               PROVE  /\ F[b] < F[c] <=> usedSeq[b] < usedSeq[c]
                      /\ F[b] = F[c] <=> usedSeq[b] = usedSeq[c]
    OBVIOUS
  <2>1. usedSeq[a] \in Nat /\ usedSeq[b] \in Nat /\ usedSeq[c] \in Nat  BY <1>1
  <2>2. /\ usedSeq[b] > 0 => usedSeq[b] /= usedSeq[a]
        /\ usedSeq[c] > 0 => usedSeq[c] /= usedSeq[a]
    BY <1>3
  <2>3. /\ F[b] = IF usedSeq[a] > 0 /\ usedSeq[b] > usedSeq[a]
                  THEN usedSeq[b] - 1 ELSE usedSeq[b]
        /\ F[c] = IF usedSeq[a] > 0 /\ usedSeq[c] > usedSeq[a]
                  THEN usedSeq[c] - 1 ELSE usedSeq[c]
    BY <1>2
  <2> QED  BY <2>1, <2>2, <2>3
<1> QED  BY <1>2, <1>7, <1>8, <1>9 DEF F

(* Selecting an account puts it last in the order of use and first in time. *)
LEMMA MarkUsedKeepsInv ==
    ASSUME UseInv, NEW a \in Accounts, markUsed(a), byUID' = byUID
    PROVE  UseInv'
<1> DEFINE F == forgetUse(a)
           n == Cardinality(Used \ {a})
<1>1. /\ F \in [Accounts -> Nat] /\ F[a] = 0
      /\ \A b \in Accounts \ {a} :
            (F[b] > 0 <=> usedSeq[b] > 0) /\ F[b] <= n
      /\ \A b, c \in Accounts \ {a} :
            /\ F[b] < F[c] <=> usedSeq[b] < usedSeq[c]
            /\ F[b] = F[c] <=> usedSeq[b] = usedSeq[c]
  BY ForgetUseOK
<1>2. IsFiniteSet(Used \ {a}) /\ n \in Nat
  BY UsedFinite, FS_RemoveElement, FS_CardinalityType
<1>3. latestUse(a) = n + 1
  <2>1. {b \in Accounts \ {a} : usedSeq[b] > 0} = Used \ {a}  BY DEF Used
  <2> QED  BY <2>1 DEF latestUse
<1>4. usedSeq' = [F EXCEPT ![a] = n + 1]  BY <1>3 DEF markUsed
<1> HIDE DEF F
<1>5. /\ usedSeq' \in [Accounts -> Nat] /\ usedSeq'[a] = n + 1
      /\ \A b \in Accounts \ {a} : usedSeq'[b] = F[b]
  BY <1>1, <1>2, <1>4
<1>6. Used' = (Used \ {a}) \union {a}
  <2>1. \A b \in Accounts : b \in Used' <=> b \in Used \/ b = a
    BY <1>1, <1>2, <1>5 DEF Used
  <2> QED  BY <2>1 DEF Used
<1>7. Cardinality(Used') = n + 1
  <2>1. Cardinality((Used \ {a}) \union {a}) =
           IF a \in Used \ {a} THEN n ELSE n + 1
    BY <1>2, FS_AddElement
  <2> QED  BY <1>6, <2>1
<1>8. /\ sinceUsed \in [Accounts -> 0..MinPickGap] /\ MinPickGap \in Nat
      /\ sinceUsed' = [sinceUsed EXCEPT ![a] = 0]
  BY SelectionAssumption DEF UseInv, UseTypeOK, markUsed
<1>9. UseTypeOK'  BY <1>5, <1>8 DEF UseInv, UseTypeOK
<1>10. RanksBounded'
  <2>1. \A b \in Accounts : usedSeq'[b] <= n + 1
    BY <1>1, <1>2, <1>5
  <2> QED  BY <1>7, <2>1 DEF RanksBounded
<1>11. RanksDiffer'
  <2> SUFFICES ASSUME NEW b \in Accounts, NEW c \in Accounts, b /= c,
                      usedSeq'[b] > 0
               PROVE  usedSeq'[b] /= usedSeq'[c]
    BY DEF RanksDiffer
  <2>1. CASE b = a
    <3>1. usedSeq'[b] = n + 1 /\ usedSeq'[c] <= n /\ usedSeq'[c] \in Nat
      BY <2>1, <1>1, <1>5
    <3> QED  BY <3>1, <1>2
  <2>2. CASE c = a
    <3>1. usedSeq'[c] = n + 1 /\ usedSeq'[b] <= n /\ usedSeq'[b] \in Nat
      BY <2>2, <1>1, <1>5
    <3> QED  BY <3>1, <1>2
  <2>3. CASE b /= a /\ c /= a
    <3>1. usedSeq[b] > 0 /\ usedSeq[b] /= usedSeq[c]
      BY <2>3, <1>1, <1>5 DEF UseInv, RanksDiffer
    <3> QED  BY <3>1, <2>3, <1>1, <1>5
  <2> QED  BY <2>1, <2>2, <2>3
<1>12. UsedOrderConsistent'
  <2> SUFFICES ASSUME NEW b \in Accounts, NEW c \in Accounts,
                      usedSeq'[b] < usedSeq'[c]
               PROVE  sinceUsed'[b] >= sinceUsed'[c]
    BY DEF UsedOrderConsistent
  <2>1. b /= a
    <3>1. SUFFICES ASSUME b = a PROVE FALSE  OBVIOUS
    <3>2. usedSeq'[b] = n + 1 /\ usedSeq'[c] \in Nat /\ usedSeq'[c] <= n + 1
      BY <3>1, <1>1, <1>2, <1>5
    <3> QED  BY <3>2, <1>2
  <2>2. CASE c = a
    BY <2>1, <2>2, <1>8
  <2>3. CASE c /= a
    <3>1. usedSeq[b] < usedSeq[c]  BY <2>1, <2>3, <1>1, <1>5
    <3>2. sinceUsed[b] >= sinceUsed[c]
      BY <3>1 DEF UseInv, UsedOrderConsistent
    <3> QED  BY <3>2, <2>1, <2>3, <1>8
  <2> QED  BY <2>2, <2>3
<1> QED  BY <1>9, <1>10, <1>11, <1>12 DEF UseInv

(* What a pick may choose has an entry in the pool.                        *)
LEMMA ChoiceInPool ==
    ASSUME NEW tried, NEW m, NEW r, NEW a,
           pickCandidate(candidates(tried, m, r), m, r, a)
    PROVE  a \in byUID
<1> DEFINE ws == pool(candidates(tried, m, r), m, r)
<1>1. ws \subseteq byUID  BY DEF pool, tierOf, candidates
<1>2. PICK t \in shortLists(ws, m) : a \in choices(ws, t)
  BY DEF pickCandidate
<1> HIDE DEF ws
<1>3. t \subseteq ws  BY <1>2 DEF shortLists
<1>4. a \in ws  BY <1>2, <1>3 DEF choices, leastRecent
<1> QED  BY <1>1, <1>4

(* Whatever a pick returns, the records of use stay right.                 *)
LEMMA PickKeepsInv ==
    ASSUME UseInv, NEW tried, NEW m, NEW r,
           NEW a, pick(tried, m, r, a), byUID' = byUID
    PROVE  UseInv'
<1>1. CASE pickCandidate(candidates(tried, m, r), m, r, a)
  <2>1. a \in Accounts  BY <1>1, ChoiceInPool DEF UseInv, UseTypeOK
  <2>2. markUsed(a)  BY <1>1 DEF pickCandidate
  <2> QED  BY <2>1, <2>2, MarkUsedKeepsInv
<1>2. CASE pickFallback(tried, r, a)
  <2>1. a \in Accounts
    BY <1>2 DEF UseInv, UseTypeOK, pickFallback, fallbacks
  <2>2. markUsed(a)  BY <1>2 DEF pickFallback
  <2> QED  BY <2>1, <2>2, MarkUsedKeepsInv
<1>3. CASE UNCHANGED usedVars
  BY <1>3 DEF UseInv, UseTypeOK, RanksBounded, RanksDiffer,
              UsedOrderConsistent, Used, usedVars
<1> QED  BY <1>1, <1>2, <1>3 DEF pick

(* The entry that SyncToDir drops takes its rank with it.                  *)
LEMMA RemoveKeepsInv ==
    ASSUME UseInv, NEW a \in Accounts, Remove(a)
    PROVE  UseInv'
<1> DEFINE F == forgetUse(a)
           n == Cardinality(Used \ {a})
<1>1. /\ F \in [Accounts -> Nat] /\ F[a] = 0
      /\ \A b \in Accounts \ {a} :
            (F[b] > 0 <=> usedSeq[b] > 0) /\ F[b] <= n
      /\ \A b, c \in Accounts \ {a} :
            /\ F[b] < F[c] <=> usedSeq[b] < usedSeq[c]
            /\ F[b] = F[c] <=> usedSeq[b] = usedSeq[c]
  BY ForgetUseOK
<1>2. n \in Nat
  BY UsedFinite, FS_RemoveElement, FS_CardinalityType
<1>3. usedSeq' = F  BY DEF Remove
<1> HIDE DEF F
<1>4. Used' = Used \ {a}
  <2>1. ~(F[a] > 0)  BY <1>1
  <2>2. \A b \in Accounts : F[b] > 0 <=> usedSeq[b] > 0 /\ b /= a
    BY <1>1, <2>1
  <2>3. Used' = {b \in Accounts : F[b] > 0}  BY <1>3 DEF Used
  <2> HIDE DEF n
  <2> QED  BY <2>2, <2>3, Zenon DEF Used
<1>5. /\ sinceUsed \in [Accounts -> 0..MinPickGap] /\ MinPickGap \in Nat
      /\ sinceUsed' = [sinceUsed EXCEPT ![a] = MinPickGap]
      /\ byUID' \subseteq Accounts
  BY SelectionAssumption DEF UseInv, UseTypeOK, Remove
<1>6. UseTypeOK'  BY <1>1, <1>3, <1>5 DEF UseTypeOK
<1>7. RanksBounded'
  BY <1>1, <1>2, <1>3, <1>4 DEF RanksBounded
<1>8. RanksDiffer'
  BY <1>1, <1>3 DEF UseInv, RanksDiffer
<1>9. UsedOrderConsistent'
  <2> SUFFICES ASSUME NEW b \in Accounts, NEW c \in Accounts,
                      usedSeq'[b] < usedSeq'[c]
               PROVE  sinceUsed'[b] >= sinceUsed'[c]
    BY DEF UsedOrderConsistent
  <2>1. c /= a  BY <1>1, <1>3
  <2>2. CASE b = a
    BY <2>2, <1>5
  <2>3. CASE b /= a
    <3>1. usedSeq[b] < usedSeq[c]  BY <2>1, <2>3, <1>1, <1>3
    <3>2. sinceUsed[b] >= sinceUsed[c]
      BY <3>1 DEF UseInv, UsedOrderConsistent
    <3> QED  BY <3>2, <2>1, <2>3, <1>5
  <2> QED  BY <2>2, <2>3
<1> QED  BY <1>6, <1>7, <1>8, <1>9 DEF UseInv

(* Time that passes for all accounts alike keeps their order.              *)
LEMMA PassKeepsInv ==
    ASSUME UseInv, Pass
    PROVE  UseInv'
<1>1. /\ sinceUsed \in [Accounts -> 0..MinPickGap] /\ MinPickGap \in Nat
      /\ sinceUsed' = [a \in Accounts |-> UpTo(MinPickGap, sinceUsed[a])]
      /\ usedSeq' = usedSeq /\ byUID' = byUID
  BY SelectionAssumption DEF UseInv, UseTypeOK, Pass
<1>2. sinceUsed' \in [Accounts -> 0..MinPickGap]  BY <1>1 DEF UpTo
<1>3. UseTypeOK'  BY <1>1, <1>2 DEF UseInv, UseTypeOK
<1>4. Used' = Used  BY <1>1 DEF Used
<1>5. RanksBounded' /\ RanksDiffer'
  BY <1>1, <1>4 DEF UseInv, RanksBounded, RanksDiffer
<1>6. UsedOrderConsistent'
  <2> SUFFICES ASSUME NEW b \in Accounts, NEW c \in Accounts,
                      usedSeq[b] < usedSeq[c]
               PROVE  sinceUsed'[b] >= sinceUsed'[c]
    BY <1>1 DEF UsedOrderConsistent
  <2>1. sinceUsed[b] >= sinceUsed[c]  BY DEF UseInv, UsedOrderConsistent
  <2> QED  BY <2>1, <1>1 DEF UpTo
<1> QED  BY <1>3, <1>5, <1>6 DEF UseInv

(* The records of use are right in an empty pool.                          *)
LEMMA UseInvInit == SelectionInit => UseInv
<1> SUFFICES ASSUME SelectionInit PROVE UseInv  OBVIOUS
<1>1. /\ byUID = {} /\ MinPickGap \in Nat
      /\ usedSeq = [a \in Accounts |-> 0]
      /\ sinceUsed = [a \in Accounts |-> MinPickGap]
  BY SelectionAssumption DEF SelectionInit
<1>2. UseTypeOK  BY <1>1 DEF UseTypeOK
<1>3. RanksBounded
  BY <1>1, UsedFinite DEF RanksBounded
<1>4. RanksDiffer /\ UsedOrderConsistent
  BY <1>1 DEF RanksDiffer, UsedOrderConsistent
<1> QED  BY <1>2, <1>3, <1>4 DEF UseInv

(* Every step of selection keeps the records of use right.                 *)
LEMMA UseInvStep == UseInv /\ [SelectionNext]_selectionVars => UseInv'
<1> SUFFICES ASSUME UseInv, [SelectionNext]_selectionVars PROVE UseInv'
  OBVIOUS
<1>1. ASSUME byUID' \subseteq Accounts, UNCHANGED usedVars PROVE UseInv'
  BY <1>1 DEF UseInv, UseTypeOK, RanksBounded, RanksDiffer,
              UsedOrderConsistent, Used, usedVars
<1>2. byUID \subseteq Accounts  BY DEF UseInv, UseTypeOK
<1>3. ASSUME NEW m, NEW r, NEW tried, PickExcluding(tried, m, r)
      PROVE UseInv'
  BY <1>3, PickKeepsInv DEF PickExcluding
<1>4. ASSUME NEW a \in Accounts, NEW m, PickByUIDForModel(a, m) PROVE UseInv'
  BY <1>4, MarkUsedKeepsInv DEF PickByUIDForModel
<1>5. ASSUME NEW a \in Accounts, Add(a) PROVE UseInv'
  BY <1>1, <1>2, <1>5 DEF Add
<1>6. ASSUME NEW a \in Accounts, Remove(a) PROVE UseInv'
  BY <1>6, RemoveKeepsInv
<1>7. ASSUME NEW a \in Accounts, HealthChanges(a) PROVE UseInv'
  BY <1>1, <1>2, <1>7 DEF HealthChanges
<1>8. ASSUME NEW a \in Accounts, NEW m, PriceObserved(a, m) PROVE UseInv'
  BY <1>1, <1>2, <1>8 DEF PriceObserved
<1>9. CASE Pass  BY <1>9, PassKeepsInv
<1>10. CASE UNCHANGED selectionVars
  BY <1>1, <1>2, <1>10 DEF selectionVars
<1> QED
  BY <1>3, <1>4, <1>5, <1>6, <1>7, <1>8, <1>9, <1>10 DEF SelectionNext

(* In a pool of any size, with any gap, short list and prices, the order    *)
(* in which usedSeq has accounts used never contradicts lastUsed, whichever *)
(* of Pick, its fallback and the sticky pick selected them.                 *)
THEOREM UsedOrderCorrect == SelectionSpec => []UsedOrderConsistent
<1>1. UseInv => UsedOrderConsistent  BY DEF UseInv
<1> QED  BY <1>1, UseInvInit, UseInvStep, PTL DEF SelectionSpec

(* An account that pick selects within minPickGap of its last use is the    *)
(* least recently used of the whole winning tier, for any short list.       *)
THEOREM BurstCorrect == SelectionSpec => BurstSpreads
<1>1. ASSUME NEW tried \in Tried, NEW m \in RequestModels \cup {None},
             NEW r \in Realms \cup {None}, NEW a \in Accounts, UseInv,
             pickCandidate(candidates(tried, m, r), m, r, a),
             sinceUsed[a] < MinPickGap
      PROVE  \A b \in pool(candidates(tried, m, r), m, r) :
                usedSeq[a] <= usedSeq[b]
  <2> DEFINE ws == pool(candidates(tried, m, r), m, r)
  <2>1. PICK t \in shortLists(ws, m) : a \in choices(ws, t)
    BY <1>1 DEF pickCandidate
  <2> HIDE DEF ws
  <2>2. ~(sinceUsed[a] >= MinPickGap)
    BY <1>1, SelectionAssumption DEF UseInv, UseTypeOK
  <2>3. a \in leastRecent(ws)  BY <2>1, <2>2 DEF choices
  <2> QED  BY <2>3 DEF leastRecent, ws
<1>2. UseInv => \A tried \in Tried, m \in RequestModels \cup {None},
          r \in Realms \cup {None}, a \in Accounts :
         LET cands == candidates(tried, m, r)
         IN  /\ cands /= {} /\ pickCandidate(cands, m, r, a)
             /\ sinceUsed[a] < MinPickGap
             => \A b \in pool(cands, m, r) : usedSeq[a] <= usedSeq[b]
  BY <1>1
<1>3. SelectionSpec => []UseInv
  BY UseInvInit, UseInvStep, PTL DEF SelectionSpec
<1> QED  BY <1>2, <1>3, PTL DEF BurstSpreads

-----------------------------------------------------------------------------
(* Concurrent calls.                                                        *)

(* The record of a call.                                                    *)
Call == [pc : {"idle", "active", "single", "ensure", "draw", "fallback",
               "write", "done"},
         model : RequestModels \cup {None},
         offered : SUBSET Accounts, spent : SUBSET Accounts,
         tried : SUBSET Accounts, listed : Nat, budget : Int,
         next : Accounts \cup {None}, answer : Accounts \cup {None}]

RequestTypeOK ==
    /\ request \in [Requests -> Call]
    /\ activeAuth \in Accounts \cup {None}
    /\ dashboard.next \in Accounts \cup {None}

(* What the call in record rec has drawn of the pool's entries, and how     *)
(* many draws it has left.  It counts the pool before its first draw.       *)
DrawOK(rec, entries) ==
    /\ rec.pc = "ensure" => rec.tried = {}
    /\ rec.pc = "draw" =>
        /\ rec.offered \subseteq entries
        /\ rec.tried \subseteq entries \ (rec.offered \ rec.spent)
        /\ rec.budget \in Nat \ {0}
        /\ Cardinality(rec.tried) + rec.budget
              = rec.listed + Cardinality(rec.offered)

DrawsOK == \A q \in Requests : DrawOK(request[q], byUID)

RoutingInv == UseInv /\ RequestTypeOK /\ DrawsOK

(* An empty pool and idle calls.                                            *)
LEMMA RoutingInvInit == Init => RoutingInv
<1> SUFFICES ASSUME Init PROVE RoutingInv  OBVIOUS
<1>1. UseInv  BY UseInvInit DEF Init
<1>2. RequestTypeOK  BY DEF Init, RequestTypeOK, Call, Idle, NoLoad
<1>3. DrawsOK  BY DEF Init, DrawsOK, DrawOK, Idle
<1> QED  BY <1>1, <1>2, <1>3 DEF RoutingInv

(* A step of selection under the calls keeps them right, as long as it      *)
(* removes no entry.                                                        *)
LEMMA PoolMoves ==
    ASSUME RoutingInv, UseInv', byUID \subseteq byUID', request' = request,
           activeAuth' \in Accounts \cup {None},
           dashboard'.next \in Accounts \cup {None}
    PROVE  RoutingInv'
<1>1. RequestTypeOK'  BY DEF RoutingInv, RequestTypeOK
<1>2. ASSUME NEW p \in Requests PROVE DrawOK(request[p], byUID)'
  BY DEF RoutingInv, DrawsOK, DrawOK
<1> QED  BY <1>1, <1>2 DEF RoutingInv, DrawsOK

(* A step of one call that leaves its record well formed, and the pool's    *)
(* entries where they are or more of them, keeps all calls right.           *)
LEMMA CallMoves ==
    ASSUME RoutingInv, UseInv', NEW q \in Requests, NEW rec \in Call,
           request' = [request EXCEPT ![q] = rec],
           byUID \subseteq byUID', DrawOK(rec, byUID'),
           activeAuth' \in Accounts \cup {None}, dashboard' = dashboard
    PROVE  RoutingInv'
<1>1. RequestTypeOK'  BY DEF RoutingInv, RequestTypeOK
<1>2. ASSUME NEW p \in Requests PROVE DrawOK(request[p], byUID)'
  <2>1. CASE p = q
    BY <2>1 DEF RoutingInv, RequestTypeOK
  <2>2. CASE p /= q
    <3>1. request'[p] = request[p]  BY <2>2 DEF RoutingInv, RequestTypeOK
    <3>2. DrawOK(request[p], byUID)  BY DEF RoutingInv, DrawsOK
    <3> QED  BY <3>1, <3>2 DEF DrawOK
  <2> QED  BY <2>1, <2>2
<1> QED  BY <1>1, <1>2 DEF RoutingInv, DrawsOK

(* The records of use survive every step that leaves them alone.            *)
LEMMA UseUnmoved ==
    ASSUME UseInv, byUID' \subseteq Accounts, UNCHANGED usedVars
    PROVE  UseInv'
BY DEF UseInv, UseTypeOK, RanksBounded, RanksDiffer, UsedOrderConsistent, Used,
       usedVars

(* A call starts from a well-formed record that has drawn nothing.          *)
LEMMA IdleOK == Idle \in Call /\ Idle.tried = {}
BY DEF Idle, Call

(* An answered call is well formed and draws no more.                       *)
LEMMA AnsweredOK ==
    ASSUME NEW rec \in Call, NEW a \in Accounts \cup {None}, NEW entries
    PROVE  answered(rec, a) \in Call /\ DrawOK(answered(rec, a), entries)
           /\ answered(rec, a).pc = "done"
<1>1. Idle \in Call  BY IdleOK
<1>2. rec.offered \in SUBSET Accounts /\ rec.spent \in SUBSET Accounts
  BY DEF Call
<1>3. answered(rec, a) \in Call /\ answered(rec, a).pc = "done"
  BY <1>1, <1>2 DEF Call, answered
<1> QED  BY <1>3 DEF DrawOK

(* The decision on the panel's selection is for an account of the offer or  *)
(* for the one selected.                                                    *)
LEMMA ActiveChoicesOK ==
    ASSUME NEW offered \in SUBSET Accounts, NEW spent,
           NEW cur \in Accounts \cup {None},
           NEW c \in activeChoices(offered, spent, cur)
    PROVE  c[1] \in Accounts
<1>1. \/ c = <<cur, FALSE>> /\ cur \in offered
      \/ \E a \in offered : c = <<a, TRUE>>
  BY DEF activeChoices
<1>2. CASE c = <<cur, FALSE>> /\ cur \in offered  BY <1>2
<1>3. CASE \E a \in offered : c = <<a, TRUE>>
  <2>1. PICK a \in offered : c = <<a, TRUE>>  BY <1>3
  <2>2. c[1] = a  BY <2>1
  <2> QED  BY <2>2
<1> QED  BY <1>1, <1>2, <1>3

(* A draw returns an entry that the call had not drawn, or nothing when     *)
(* nothing is left to select.                                               *)
LEMMA DrawIsNew ==
    ASSUME UseInv, NEW tried, NEW m, NEW a, pick(tried, m, None, a)
    PROVE  \/ a \in byUID \ tried
           \/ a = None /\ candidates(tried, m, None) = {}
<1> DEFINE ws == pool(candidates(tried, m, None), m, None)
<1>1. CASE pickCandidate(candidates(tried, m, None), m, None, a)
  <2>1. ws \subseteq byUID \ tried  BY DEF pool, tierOf, candidates
  <2>2. PICK t \in shortLists(ws, m) : a \in choices(ws, t)
    BY <1>1 DEF pickCandidate
  <2> HIDE DEF ws
  <2>3. t \subseteq ws  BY <2>2 DEF shortLists
  <2>4. a \in ws  BY <2>2, <2>3 DEF choices, leastRecent
  <2> QED  BY <2>1, <2>4
<1>2. CASE pickFallback(tried, None, a)
  BY <1>2 DEF pickFallback, fallbacks
<1> QED  BY <1>1, <1>2 DEF pick

(* What a call does with a draw keeps its record right: the drawn entry is  *)
(* counted, and is no candidate that could have been answered.              *)
LEMMA AfterDrawOK ==
    ASSUME RoutingInv, NEW q \in Requests, request[q].pc = "draw",
           NEW a, pick(request[q].tried, request[q].model, None, a)
    PROVE  /\ afterDraw(request[q], a) \in Call
           /\ DrawOK(afterDraw(request[q], a), byUID)
           /\ afterDraw(request[q], a).pc = "fallback" =>
                \/ /\ afterDraw(request[q], a).tried = request[q].tried
                   /\ candidates(request[q].tried, request[q].model, None) = {}
                \/ /\ afterDraw(request[q], a).tried
                         \subseteq byUID \ (request[q].offered \ request[q].spent)
                   /\ Cardinality(afterDraw(request[q], a).tried)
                         = request[q].listed + Cardinality(request[q].offered)
<1> DEFINE rec == request[q]
           nxt == afterDraw(rec, a)
           more == [rec EXCEPT !.tried = @ \cup {a}, !.budget = @ - 1,
                       !.pc = IF rec.budget = 1 THEN "fallback" ELSE "draw"]
<1>1. rec \in Call /\ DrawOK(rec, byUID) /\ byUID \subseteq Accounts
  BY DEF RoutingInv, RequestTypeOK, DrawsOK, UseInv, UseTypeOK
<1>2. \/ a \in byUID \ rec.tried
      \/ a = None /\ candidates(rec.tried, rec.model, None) = {}
  BY DrawIsNew DEF RoutingInv
<1>3. rec.pc = "draw"  OBVIOUS
<1> HIDE DEF rec
<1>4. CASE a = None
  <2>1. nxt = [rec EXCEPT !.pc = "fallback"]  BY <1>4 DEF afterDraw
  <2>2. nxt \in Call /\ nxt.pc = "fallback" /\ nxt.tried = rec.tried
    BY <1>1, <2>1 DEF Call
  <2>3. DrawOK(nxt, byUID)  BY <2>2 DEF DrawOK
  <2>4. candidates(rec.tried, rec.model, None) = {}
    BY <1>1, <1>2, <1>4, SelectionAssumption
  <2> QED  BY <2>2, <2>3, <2>4 DEF rec
<1>5. CASE a \in Accounts /\ a \in rec.offered \ rec.spent
  <2>1. a /= None  BY <1>5, SelectionAssumption
  <2>2. nxt = answered(rec, a)  BY <1>5, <2>1 DEF afterDraw
  <2>3. nxt \in Call /\ DrawOK(nxt, byUID) /\ nxt.pc = "done"
    BY <1>1, <1>5, <2>2, AnsweredOK
  <2> QED  BY <2>3 DEF rec
<1>6. CASE a \in byUID \ rec.tried /\ a \notin rec.offered \ rec.spent
  <2>1. a /= None  BY <1>1, <1>6, SelectionAssumption
  <2>2. nxt = more  BY <1>6, <2>1 DEF afterDraw
  <2>3. /\ rec.offered \subseteq byUID
        /\ rec.tried \subseteq byUID \ (rec.offered \ rec.spent)
        /\ rec.budget \in Nat \ {0}
        /\ Cardinality(rec.tried) + rec.budget
              = rec.listed + Cardinality(rec.offered)
    BY <1>1, <1>3 DEF DrawOK
  <2>4. IsFiniteSet(rec.tried) /\ IsFiniteSet(rec.offered)
    BY <1>1, <2>3, SelectionAssumption, FS_Subset
  <2>5. /\ Cardinality(rec.tried \cup {a}) = Cardinality(rec.tried) + 1
        /\ Cardinality(rec.tried) \in Nat /\ Cardinality(rec.offered) \in Nat
    BY <1>6, <2>4, FS_AddElement, FS_CardinalityType
  <2>6. /\ more.tried = rec.tried \cup {a} /\ more.budget = rec.budget - 1
        /\ more.pc = IF rec.budget = 1 THEN "fallback" ELSE "draw"
        /\ more.offered = rec.offered /\ more.spent = rec.spent
        /\ more.listed = rec.listed
    BY <1>1 DEF Call
  <2>12. more \in Call
    <3>1. rec.tried \cup {a} \in SUBSET Accounts /\ rec.budget - 1 \in Int
      BY <1>1, <1>6, <2>3
    <3> QED  BY <1>1, <3>1 DEF Call
  <2>7. rec.listed \in Nat  BY <1>1 DEF Call
  <2> HIDE DEF more, nxt
  <2>8. more.tried \subseteq byUID \ (rec.offered \ rec.spent)
    BY <1>6, <2>3, <2>6
  <2>9. Cardinality(more.tried) + more.budget
          = rec.listed + Cardinality(rec.offered)
    BY <2>3, <2>5, <2>6, <2>7
  <2>10. DrawOK(more, byUID)
    <3>1. SUFFICES ASSUME more.pc = "draw" PROVE more.budget \in Nat \ {0}
      BY <2>3, <2>6, <2>8, <2>9 DEF DrawOK
    <3> QED  BY <3>1, <2>3, <2>6
  <2>11. more.pc = "fallback" =>
            Cardinality(more.tried) = rec.listed + Cardinality(rec.offered)
    BY <2>3, <2>5, <2>6, <2>7, <2>9
  <2> QED  BY <2>2, <2>6, <2>8, <2>10, <2>11, <2>12 DEF rec, nxt
<1> QED  BY <1>1, <1>2, <1>4, <1>5, <1>6

(* Every step of the calls, the panel and the pool under them keeps the     *)
(* invariant.                                                               *)
LEMMA RoutingInvStep == RoutingInv /\ [Next]_vars => RoutingInv'
<1> SUFFICES ASSUME RoutingInv, [Next]_vars PROVE RoutingInv'
  OBVIOUS
<1>1. /\ UseInv /\ byUID \subseteq Accounts
      /\ request \in [Requests -> Call]
      /\ activeAuth \in Accounts \cup {None}
      /\ dashboard.next \in Accounts \cup {None}
  BY DEF RoutingInv, RequestTypeOK, UseInv, UseTypeOK
<1>2. ASSUME UNCHANGED selectionVars PROVE UseInv' /\ byUID' = byUID
  BY <1>1, <1>2, UseUnmoved DEF selectionVars
<1>3. \A o \in Offers : o \in SUBSET Accounts  BY RoutingAssumption
<1>4. ASSUME NEW q \in Requests, NEW offered \in Offers, NEW m \in RequestModels,
             Arrive(q, offered, m)
      PROVE  RoutingInv'
  <2> DEFINE to == IF activeAuth /= None THEN "active"
                   ELSE IF Cardinality(offered) = 1 THEN "single" ELSE "ensure"
             rec == [Idle EXCEPT !.offered = offered, !.model = m, !.pc = to]
  <2>1. to \in {"active", "single", "ensure"}  OBVIOUS
  <2> HIDE DEF to
  <2>2. rec.pc = to /\ rec.tried = {}  BY IdleOK DEF Call
  <2>3. rec \in Call  BY <1>3, <2>1, IdleOK DEF Call
  <2>4. DrawOK(rec, byUID')  BY <2>1, <2>2 DEF DrawOK
  <2>5. request' = [request EXCEPT ![q] = rec]  BY <1>4 DEF Arrive, to
  <2>6. UNCHANGED <<selectionVars, activeAuth, dashboard>>
    BY <1>4 DEF Arrive
  <2> HIDE DEF rec
  <2> QED  BY <1>1, <1>2, <2>3, <2>4, <2>5, <2>6, CallMoves
<1>5. ASSUME NEW q \in Requests, ReadActive(q) PROVE RoutingInv'
  <2> DEFINE rec == request[q]
             now == [rec EXCEPT !.spent = exhausted \cap rec.offered]
  <2>1. PICK c \in activeChoices(rec.offered, now.spent, activeAuth) :
          request' = [request EXCEPT ![q] =
             IF c[2] THEN [now EXCEPT !.pc = "write", !.next = c[1]]
             ELSE answered(now, c[1])]
    BY <1>5 DEF ReadActive
  <2>2. rec \in Call /\ rec.offered \in SUBSET Accounts  BY <1>1 DEF Call
  <2>3. now \in Call /\ now.offered = rec.offered  BY <2>2 DEF Call
  <2>4. c[1] \in Accounts  BY <1>1, <2>1, <2>2, ActiveChoicesOK
  <2> HIDE DEF now
  <2>5. /\ [now EXCEPT !.pc = "write", !.next = c[1]] \in Call
        /\ DrawOK([now EXCEPT !.pc = "write", !.next = c[1]], byUID')
    BY <2>3, <2>4 DEF Call, DrawOK
  <2>6. answered(now, c[1]) \in Call /\ DrawOK(answered(now, c[1]), byUID')
    BY <2>3, <2>4, AnsweredOK
  <2>7. UNCHANGED <<selectionVars, activeAuth, dashboard>>
    BY <1>5 DEF ReadActive
  <2>8. CASE c[2]
    BY <1>1, <1>2, <2>1, <2>5, <2>7, <2>8, CallMoves
  <2>9. CASE ~c[2]
    BY <1>1, <1>2, <2>1, <2>6, <2>7, <2>9, CallMoves
  <2> QED  BY <2>8, <2>9
<1>6. ASSUME NEW q \in Requests, WriteActive(q) PROVE RoutingInv'
  <2>1. /\ request[q] \in Call /\ request[q].next \in Accounts \cup {None}
        /\ activeAuth' = request[q].next
        /\ request' = [request EXCEPT ![q] =
                          answered(request[q], request[q].next)]
        /\ UNCHANGED <<selectionVars, dashboard>>
    BY <1>1, <1>6 DEF WriteActive, Call
  <2>2. /\ answered(request[q], request[q].next) \in Call
        /\ DrawOK(answered(request[q], request[q].next), byUID')
    BY <2>1, AnsweredOK
  <2> QED  BY <1>1, <1>2, <2>1, <2>2, CallMoves
<1>7. ASSUME NEW q \in Requests, AnswerSingle(q) PROVE RoutingInv'
  <2> DEFINE now == [request[q] EXCEPT !.spent =
                        exhausted \cap request[q].offered]
  <2>1. PICK a \in request[q].offered :
          /\ activeAuth' = a
          /\ request' = [request EXCEPT ![q] = answered(now, a)]
    BY <1>7 DEF AnswerSingle
  <2>2. /\ request[q] \in Call /\ request[q].offered \in SUBSET Accounts
        /\ UNCHANGED <<selectionVars, dashboard>>
    BY <1>1, <1>7 DEF AnswerSingle, Call
  <2>3. now \in Call  BY <2>2 DEF Call
  <2> HIDE DEF now
  <2>4. answered(now, a) \in Call /\ DrawOK(answered(now, a), byUID')
    BY <2>1, <2>2, <2>3, AnsweredOK
  <2> QED  BY <1>1, <1>2, <2>1, <2>2, <2>4, CallMoves
<1>8. ASSUME NEW q \in Requests, EnsureCandidates(q) PROVE RoutingInv'
  <2> DEFINE entries == byUID \cup request[q].offered
             spent == exhausted \cap request[q].offered
             to == IF spent = request[q].offered THEN "fallback" ELSE "draw"
             n == Cardinality(entries)
             k == Cardinality(request[q].offered)
             rec == [request[q] EXCEPT !.spent = spent, !.listed = n,
                       !.budget = drawBudget(entries, request[q].offered),
                       !.pc = to]
  <2>1. request[q] \in Call /\ request[q].offered \in SUBSET Accounts
    BY <1>1 DEF Call
  <2>2. IsFiniteSet(entries) /\ IsFiniteSet(request[q].offered)
    BY <1>1, <2>1, SelectionAssumption, FS_Subset
  <2>3. n \in Nat /\ k \in Nat  BY <2>2, FS_CardinalityType
  <2>4. drawBudget(entries, request[q].offered) = n + k  BY DEF drawBudget
  <2>5. /\ byUID' = entries /\ request' = [request EXCEPT ![q] = rec]
        /\ UNCHANGED <<usedVars, activeAuth, dashboard>>
    BY <1>8 DEF EnsureCandidates
  <2>6. UseInv'  BY <1>1, <2>1, <2>5, UseUnmoved
  <2>7. to \in {"fallback", "draw"} /\ spent \in SUBSET Accounts
    BY <2>1
  <2> HIDE DEF n, k, to, spent
  <2>8. /\ rec \in Call /\ rec.pc = to /\ rec.tried = request[q].tried
        /\ rec.offered = request[q].offered /\ rec.budget = n + k
        /\ rec.listed = n
    <3> DEFINE old == request[q]
               b == drawBudget(entries, old.offered)
    <3>1. old \in Call /\ b \in Int /\ b = n + k  BY <2>1, <2>3, <2>4
    <3>2. rec = [old EXCEPT !.spent = spent, !.listed = n, !.budget = b,
                            !.pc = to]
      OBVIOUS
    <3> HIDE DEF old, b, rec
    <3>3. rec \in Call  BY <2>3, <2>7, <3>1, <3>2 DEF Call
    <3>4. /\ rec.pc = to /\ rec.tried = old.tried /\ rec.offered = old.offered
          /\ rec.budget = b /\ rec.listed = n
      BY <3>1, <3>2 DEF Call
    <3> QED  BY <3>1, <3>3, <3>4 DEF old
  <2>9. DrawOK(request[q], byUID) /\ request[q].pc = "ensure"
    BY <1>8 DEF RoutingInv, DrawsOK, EnsureCandidates
  <2>10. rec.tried = {}  BY <2>8, <2>9 DEF DrawOK
  <2>11. ASSUME to = "draw" PROVE n + k \in Nat \ {0}
    <3>1. request[q].offered /= {}  BY <2>11 DEF to, spent
    <3>2. k /= 0  BY <3>1, <2>2, FS_EmptySet DEF k
    <3> QED  BY <3>2, <2>3
  <2> HIDE DEF rec
  <2>12. Cardinality(rec.tried) + rec.budget
           = rec.listed + Cardinality(rec.offered)
    <3>1. Cardinality(rec.tried) = 0  BY <2>10, FS_EmptySet
    <3> QED  BY <3>1, <2>3, <2>8 DEF k
  <2>13. DrawOK(rec, entries)
    BY <2>7, <2>8, <2>10, <2>11, <2>12 DEF DrawOK
  <2> QED  BY <1>1, <2>5, <2>6, <2>8, <2>13, CallMoves
<1>9. ASSUME NEW q \in Requests, Draw(q) PROVE RoutingInv'
  <2>1. PICK a \in Accounts \cup {None} :
          /\ pick(request[q].tried, request[q].model, None, a)
          /\ request' = [request EXCEPT ![q] = afterDraw(request[q], a)]
    BY <1>9 DEF Draw
  <2>2. request[q].pc = "draw" /\ UNCHANGED <<byUID, activeAuth, dashboard>>
    BY <1>9 DEF Draw
  <2>3. UseInv'  BY <1>1, <2>1, <2>2, PickKeepsInv
  <2>4. /\ afterDraw(request[q], a) \in Call
        /\ DrawOK(afterDraw(request[q], a), byUID)
    BY <2>1, <2>2, AfterDrawOK
  <2> QED  BY <1>1, <2>1, <2>2, <2>3, <2>4, CallMoves
<1>10. ASSUME NEW a \in Accounts, SelectAuth(a) PROVE RoutingInv'
  BY <1>1, <1>2, <1>10, PoolMoves DEF SelectAuth
<1>11. ASSUME NEW a \in Accounts, CreditsCached(a) PROVE RoutingInv'
  BY <1>1, <1>2, <1>11, PoolMoves DEF CreditsCached
<1>12. CASE ClearActive
  BY <1>1, <1>2, <1>12, PoolMoves DEF ClearActive
<1>13. ASSUME NEW list \in Offers, NEW live \in SUBSET list, ReadDefault(list, live) PROVE RoutingInv'
  <2>1. PICK c \in defaultChoices(list, live, exhausted \cap live, activeAuth) :
          dashboard' = [pc |-> "write", next |-> c[1]]
    BY <1>13 DEF ReadDefault
  <2>2. c[1] \in Accounts
    <3>1. CASE live = {}
      <4>1. PICK a \in list : c = <<a, a /= activeAuth>>
        BY <2>1, <3>1 DEF defaultChoices
      <4>2. c[1] = a
        BY <4>1
      <4> QED  BY <1>3, <4>2
    <3>2. CASE live /= {}
      BY <1>1, <1>3, <2>1, <3>2, ActiveChoicesOK DEF defaultChoices
    <3> QED  BY <3>1, <3>2
  <2>3. dashboard'.next \in Accounts
    BY <2>1, <2>2
  <2>4. UNCHANGED <<selectionVars, activeAuth, request>>
    BY <1>13 DEF ReadDefault
  <2> QED  BY <1>1, <1>2, <2>3, <2>4, PoolMoves
<1>14. CASE WriteDefault
  <2>1. /\ activeAuth' = dashboard.next /\ dashboard'.next = None
        /\ UNCHANGED <<selectionVars, request>>
    BY <1>14 DEF WriteDefault, NoLoad
  <2> QED  BY <1>1, <1>2, <2>1, PoolMoves
<1>15. CASE Environment
  <2>1. UNCHANGED routingVars /\ byUID' = byUID
    BY <1>15 DEF Environment, HealthChanges, Pass
  <2>2. SelectionNext  BY <1>15 DEF Environment, SelectionNext
  <2>3. UseInv'  BY <1>1, <2>2, UseInvStep
  <2> QED  BY <1>1, <2>1, <2>3, PoolMoves DEF routingVars
<1>16. CASE UNCHANGED vars
  BY <1>1, <1>2, <1>16, PoolMoves DEF vars, routingVars
<1> QED
  BY <1>4, <1>5, <1>6, <1>7, <1>8, <1>9, <1>10, <1>11, <1>12, <1>13, <1>14,
     <1>15, <1>16 DEF Next, Serve

(* The records of use stay in agreement under any number of concurrent      *)
(* scheduler.pick calls, the panel and the dashboard.                       *)
THEOREM RoutingUsedOrderCorrect == Spec => []UsedOrderConsistent
<1>1. RoutingInv => UsedOrderConsistent  BY DEF RoutingInv, UseInv
<1> QED  BY <1>1, RoutingInvInit, RoutingInvStep, PTL DEF Spec

(* A call leaves its loop of draws only by a draw of its own.               *)
LEMMA OnlyDrawGivesUp ==
    ASSUME RoutingInv, Next, NEW q \in Requests, request[q].pc = "draw",
           request'[q].pc = "fallback"
    PROVE  Draw(q)
<1>1. request \in [Requests -> Call]  BY DEF RoutingInv, RequestTypeOK
<1>2. ASSUME request'[q] = request[q] PROVE FALSE  BY <1>2
<1>3. ASSUME NEW p \in Requests, p /= q, NEW rec,
             request' = [request EXCEPT ![p] = rec]
      PROVE  FALSE
  BY <1>1, <1>2, <1>3
<1>4. ASSUME NEW p \in Requests, NEW offered \in Offers, NEW m \in RequestModels,
             Arrive(p, offered, m)
      PROVE  FALSE
  BY <1>3, <1>4 DEF Arrive
<1>5. ASSUME NEW p \in Requests, ReadActive(p) PROVE FALSE
  BY <1>3, <1>5 DEF ReadActive
<1>6. ASSUME NEW p \in Requests, WriteActive(p) PROVE FALSE
  BY <1>3, <1>6 DEF WriteActive
<1>7. ASSUME NEW p \in Requests, AnswerSingle(p) PROVE FALSE
  BY <1>3, <1>7 DEF AnswerSingle
<1>8. ASSUME NEW p \in Requests, EnsureCandidates(p) PROVE FALSE
  BY <1>3, <1>8 DEF EnsureCandidates
<1>9. ASSUME NEW p \in Requests, p /= q, Draw(p) PROVE FALSE
  BY <1>3, <1>9 DEF Draw
<1>10. ASSUME request' = request PROVE FALSE  BY <1>2, <1>10
<1> QED
  BY <1>4, <1>5, <1>6, <1>7, <1>8, <1>9, <1>10
     DEF Next, Serve, SelectAuth, CreditsCached, ClearActive, ReadDefault,
         WriteDefault, Environment, routingVars

(* For any host, pool and number of calls: a call of pickFromPool that gives *)
(* up its draws had no selectable candidate left, unless other calls grew   *)
(* the pool meanwhile by more entries than it had candidates.               *)
THEOREM DrawsCorrect == Spec => DrawsSuffice
<1>1. ASSUME RoutingInv, Next, NEW q \in Requests, request[q].pc = "draw",
             request'[q].pc = "fallback"
      PROVE  \/ \A a \in request[q].offered
                        \ (request[q].spent \cup request'[q].tried) :
                  ~healthyFor(a, request[q].model) \/ health[a].full
             \/ outgrown(q)
  <2>1. Draw(q)  BY <1>1, OnlyDrawGivesUp
  <2>2. PICK a \in Accounts \cup {None} :
          /\ pick(request[q].tried, request[q].model, None, a)
          /\ request' = [request EXCEPT ![q] = afterDraw(request[q], a)]
    BY <2>1 DEF Draw
  <2> DEFINE rec == request[q]
             nxt == request'[q]
  <2>3. nxt = afterDraw(rec, a)
    BY <1>1, <2>2 DEF RoutingInv, RequestTypeOK
  <2>4. \/ /\ nxt.tried = rec.tried
           /\ candidates(rec.tried, rec.model, None) = {}
        \/ /\ nxt.tried \subseteq byUID \ (rec.offered \ rec.spent)
           /\ Cardinality(nxt.tried) = rec.listed + Cardinality(rec.offered)
    BY <1>1, <2>2, <2>3, AfterDrawOK
  <2>5. /\ rec \in Call /\ rec.offered \subseteq byUID
        /\ byUID \subseteq Accounts
    BY <1>1 DEF RoutingInv, RequestTypeOK, DrawsOK, DrawOK, UseInv, UseTypeOK
  <2>6. ASSUME nxt.tried = rec.tried,
               candidates(rec.tried, rec.model, None) = {},
               NEW b \in rec.offered \ (rec.spent \cup nxt.tried)
        PROVE  ~healthyFor(b, rec.model) \/ health[b].full
    <3>1. b \in byUID \ rec.tried /\ realmOK(b, None)
      BY <2>5, <2>6 DEF realmOK
    <3>2. b \notin candidates(rec.tried, rec.model, None)  BY <2>6
    <3> QED  BY <3>1, <3>2 DEF candidates
  <2>7. ASSUME nxt.tried \subseteq byUID \ (rec.offered \ rec.spent),
               Cardinality(nxt.tried) = rec.listed + Cardinality(rec.offered),
               NEW b \in rec.offered \ (rec.spent \cup nxt.tried)
        PROVE  outgrown(q)
    <3>1. /\ nxt.tried \subseteq byUID \ {b} /\ b \in byUID
          /\ IsFiniteSet(byUID) /\ IsFiniteSet(byUID \ {b})
      BY <2>5, <2>7, SelectionAssumption, FS_Subset
    <3>2. /\ Cardinality(byUID \ {b}) = Cardinality(byUID) - 1
          /\ Cardinality(byUID) \in Nat /\ Cardinality(nxt.tried) \in Nat
          /\ Cardinality(nxt.tried) <= Cardinality(byUID \ {b})
      BY <3>1, FS_RemoveElement, FS_CardinalityType, FS_Subset
    <3>3. Cardinality(byUID) > Cardinality(nxt.tried)  BY <3>2
    <3> QED  BY <2>7, <3>3 DEF outgrown
  <2> HIDE DEF nxt, rec
  <2>8. \/ \A b \in rec.offered \ (rec.spent \cup nxt.tried) :
               ~healthyFor(b, rec.model) \/ health[b].full
        \/ outgrown(q)
    BY <2>4, <2>6, <2>7
  <2> QED  BY <2>8 DEF rec, nxt
<1>2. RoutingInv /\ [Next]_vars =>
        [\A q \in Requests :
           /\ request[q].pc = "draw" /\ request'[q].pc = "fallback"
           => \/ \A a \in request[q].offered
                             \ (request[q].spent \cup request'[q].tried) :
                    ~healthyFor(a, request[q].model) \/ health[a].full
              \/ outgrown(q)]_vars
  BY <1>1
<1> QED  BY <1>2, RoutingInvInit, RoutingInvStep, PTL DEF Spec, DrawsSuffice
=============================================================================
