----------------------------- MODULE Selection -----------------------------
(***************************************************************************)
(* Selecting an account of the pool (internal/pool/pick.go): Pick and its  *)
(* variants by exclusion, model and realm, the sticky PickByUIDForModel,   *)
(* and the fallback for a pool in which everything is cooling.             *)
(*                                                                         *)
(* What selection reads of an entry is its health.  The Account module     *)
(* models how health changes; here the environment changes it at will.     *)
(* Likewise the observed price of a model on an account, the ledger of     *)
(* NoteModelCost, is an input.                                             *)
(*                                                                         *)
(* The weight of an account (credits, expiring credits, idle hours) only   *)
(* orders the candidates and biases the draw; every drawn weight is at     *)
(* least 1.  So any order of equally priced candidates and any outcome of  *)
(* the draw is possible, and the weight itself is left out.                *)
(***************************************************************************)
EXTENDS Integers, FiniteSets

CONSTANTS
    Accounts, RequestModels, Realms,
    RealmOf,          \* Accounts -> Realms
    ShortList,        \* length of the short list (5 in the code)
    MinPickGap,       \* minPickGap
    ExploreInterval,  \* costExploreInterval
    HealthInputs,     \* the healths that the environment puts an account in
    Tried,            \* the sets of accounts that callers exclude
    Prices            \* observed cost per 1000 tokens; 0 is free

None    == "none"     \* no account, and the model or realm of a caller that names none
Unknown == -1         \* no valid price observation

(* disabled: by the system or the operator; hard: in an active hard         *)
(* cooling; expiry: time to the earliest deadline in force; cooled: the     *)
(* models it is cooled for; full: no lease left.                            *)
Health == [disabled : BOOLEAN, hard : BOOLEAN, expiry : Nat,
           cooled : SUBSET RequestModels, full : BOOLEAN]

ASSUME SelectionAssumption ==
    /\ IsFiniteSet(Accounts)
    /\ None \notin Accounts /\ None \notin RequestModels /\ None \notin Realms
    /\ RealmOf \in [Accounts -> Realms]
    /\ ShortList \in Nat \ {0} /\ MinPickGap \in Nat
    /\ ExploreInterval \in Nat /\ Prices \subseteq Nat
    /\ Tried \subseteq SUBSET Accounts
    /\ HealthInputs \subseteq Health
    /\ \A h \in HealthInputs : h.hard => h.expiry > 0

VARIABLES
    byUID,            \* the accounts that have an entry
    health,           \* per account: what healthy, expiry and inFlightFull read
    price,            \* per account and model: the observation, or Unknown
    sinceUsed,        \* time since lastUsed, up to MinPickGap
    usedSeq,          \* order of last use: 0 never, then 1 the oldest, ...
    sinceExplored     \* per (realm, model): time since exploreLast

envVars  == <<health, price>>
usedVars == <<sinceUsed, usedSeq>>
selectionVars == <<byUID, envVars, usedVars, sinceExplored>>

FreshHealth == [disabled |-> FALSE, hard |-> FALSE, expiry |-> 0,
                cooled |-> {}, full |-> FALSE]

Keys == (Realms \cup {None}) \X RequestModels

(* A bound counter that has stopped at its limit. *)
UpTo(limit, t) == IF t < limit THEN t + 1 ELSE t

SelectionInit ==
    /\ byUID = {}
    /\ health = [a \in Accounts |-> FreshHealth]
    /\ price = [a \in Accounts |-> [m \in RequestModels |-> Unknown]]
    /\ sinceUsed = [a \in Accounts |-> MinPickGap]
    /\ usedSeq = [a \in Accounts |-> 0]
    /\ sinceExplored = [k \in Keys |-> ExploreInterval]

-----------------------------------------------------------------------------
(* What a pick may choose.                                                  *)

healthyFor(a, m) ==
    ~health[a].disabled /\ health[a].expiry = 0 /\ m \notin health[a].cooled

realmOK(a, r) == r = None \/ RealmOf[a] = r

candidates(tried, m, r) ==
    {a \in byUID \ tried :
        realmOK(a, r) /\ healthyFor(a, m) /\ ~health[a].full}

observed(a, m) == IF m = None THEN Unknown ELSE price[a][m]

(* 0 measured free, 1 not measured, 2 measured at a price.                  *)
costTier(a, m) ==
    IF observed(a, m) = Unknown THEN 1 ELSE IF observed(a, m) = 0 THEN 0 ELSE 2

tierOf(cands, m, t) == {a \in cands : costTier(a, m) = t}

bestTier(cands, m) ==
    CHOOSE t \in 0..2 : /\ tierOf(cands, m, t) /= {}
                        /\ \A u \in 0..2 : tierOf(cands, m, u) /= {} => t <= u

(* Mutant: exploration is switched off whenever a free account exists. *)
exploresNever(cands, m, r) == FALSE

(* Free accounts hold the traffic while others have never been measured:    *)
(* once per window a pick goes to those instead.                            *)
explores(cands, m, r) ==
    /\ ExploreInterval > 0 /\ m /= None
    /\ tierOf(cands, m, 0) /= {} /\ tierOf(cands, m, 1) /= {}
    /\ sinceExplored[<<r, m>>] >= ExploreInterval

pool(cands, m, r) ==
    tierOf(cands, m, IF explores(cands, m, r) THEN 1 ELSE bestTier(cands, m))

(* The first five in the order of price, then weight.                       *)
shortLists(ws, m) ==
    {t \in SUBSET ws :
        /\ Cardinality(t) = IF Cardinality(ws) < ShortList THEN Cardinality(ws)
                            ELSE ShortList
        /\ \A a \in t, b \in ws \ t : observed(a, m) <= observed(b, m)}

leastRecent(s) == {a \in s : \A b \in s : usedSeq[a] <= usedSeq[b]}

(* Mutant: when all of the short list was just used, only it is searched. *)
choicesInShortList(ws, t) ==
    LET rested == {a \in t : sinceUsed[a] >= MinPickGap}
    IN  IF rested /= {} THEN rested ELSE leastRecent(t)

(* The draw among the rested of the short list; if none is, the least       *)
(* recently used of all of them.                                            *)
choices(ws, t) ==
    LET rested == {a \in t : sinceUsed[a] >= MinPickGap}
    IN  IF rested /= {} THEN rested ELSE leastRecent(ws)

(* pickEarliestExpiryLocked: nothing is healthy, the first to recover is    *)
(* tried, unless it is disabled or waits for its check-in.                  *)
fallbacks(tried, r) ==
    LET open == {a \in byUID \ tried :
                    /\ realmOK(a, r) /\ ~health[a].disabled /\ ~health[a].hard
                    /\ ~health[a].full /\ health[a].expiry > 0}
    IN  {a \in open : \A b \in open : health[a].expiry <= health[b].expiry}

-----------------------------------------------------------------------------
(* The code numbers selections with the growing pickSeq and only compares   *)
(* the numbers; the rank of an account's number among them says the same    *)
(* and stays bounded.                                                       *)
forgetUse(a) ==
    [b \in Accounts |->
        IF b = a THEN 0
        ELSE IF usedSeq[a] > 0 /\ usedSeq[b] > usedSeq[a] THEN usedSeq[b] - 1
        ELSE usedSeq[b]]

latestUse(a) == Cardinality({b \in Accounts \ {a} : usedSeq[b] > 0}) + 1

(* Every selection, the fallback's and the sticky one's too, marks the      *)
(* account as just used.                                                    *)
markUsed(a) ==
    /\ usedSeq' = [forgetUse(a) EXCEPT ![a] = latestUse(a)]
    /\ sinceUsed' = [sinceUsed EXCEPT ![a] = 0]

(* Mutant: the fallback sets lastUsed and forgets usedSeq. *)
pickFallbackUnnumbered(tried, r, a) ==
    /\ a \in fallbacks(tried, r)
    /\ sinceUsed' = [sinceUsed EXCEPT ![a] = 0]
    /\ UNCHANGED <<usedSeq, sinceExplored>>

pickFallback(tried, r, a) ==
    /\ a \in fallbacks(tried, r)
    /\ markUsed(a)
    /\ UNCHANGED sinceExplored

pickCandidate(cands, m, r, a) ==
    /\ \E t \in shortLists(pool(cands, m, r), m) :
          a \in choices(pool(cands, m, r), t)
    /\ sinceExplored' = IF explores(cands, m, r)
                        THEN [sinceExplored EXCEPT ![<<r, m>>] = 0]
                        ELSE sinceExplored
    /\ markUsed(a)

(* pick(tried, m, r) returns a, or None.                                    *)
pick(tried, m, r, a) ==
    LET cands == candidates(tried, m, r)
    IN  \/ cands /= {} /\ pickCandidate(cands, m, r, a)
        \/ cands = {} /\ pickFallback(tried, r, a)
        \/ /\ cands = {} /\ fallbacks(tried, r) = {}
           /\ a = None
           /\ UNCHANGED <<usedVars, sinceExplored>>

PickExcluding(tried, m, r) ==
    /\ \E a \in Accounts \cup {None} : pick(tried, m, r, a)
    /\ UNCHANGED <<byUID, envVars>>

(* A sticky session asks for its own account.                               *)
PickByUIDForModel(a, m) ==
    /\ a \in byUID /\ healthyFor(a, m) /\ ~health[a].full
    /\ markUsed(a)
    /\ UNCHANGED <<byUID, envVars, sinceExplored>>

-----------------------------------------------------------------------------
(* The environment.                                                         *)

Add(a) ==
    /\ a \notin byUID
    /\ byUID' = byUID \cup {a}
    /\ UNCHANGED <<envVars, usedVars, sinceExplored>>

(* SyncToDir drops the entry; one added later starts from nothing.          *)
Remove(a) ==
    /\ a \in byUID
    /\ byUID' = byUID \ {a}
    /\ health' = [health EXCEPT ![a] = FreshHealth]
    /\ price' = [price EXCEPT ![a] = [m \in RequestModels |-> Unknown]]
    /\ sinceUsed' = [sinceUsed EXCEPT ![a] = MinPickGap]
    /\ usedSeq' = forgetUse(a)
    /\ UNCHANGED sinceExplored

HealthChanges(a) ==
    /\ a \in byUID
    /\ \E h \in HealthInputs : health' = [health EXCEPT ![a] = h]
    /\ UNCHANGED <<byUID, price, usedVars, sinceExplored>>

(* A request was paid for, or its observation went out of date.             *)
PriceObserved(a, m) ==
    /\ a \in byUID
    /\ \E p \in Prices \cup {Unknown} : price' = [price EXCEPT ![a][m] = p]
    /\ UNCHANGED <<byUID, health, usedVars, sinceExplored>>

Pass ==
    /\ sinceUsed' = [a \in Accounts |-> UpTo(MinPickGap, sinceUsed[a])]
    /\ sinceExplored' = [k \in Keys |-> UpTo(ExploreInterval, sinceExplored[k])]
    /\ health' = [a \in Accounts |->
                    [disabled |-> health[a].disabled,
                     hard     |-> health[a].hard /\ health[a].expiry > 1,
                     expiry   |-> IF health[a].expiry > 0
                                  THEN health[a].expiry - 1 ELSE 0,
                     cooled   |-> health[a].cooled,
                     full     |-> health[a].full]]
    /\ UNCHANGED <<byUID, price, usedSeq>>

SelectionNext ==
    \/ \E m \in RequestModels \cup {None}, r \in Realms \cup {None},
          tried \in Tried : PickExcluding(tried, m, r)
    \/ \E a \in Accounts, m \in RequestModels : PickByUIDForModel(a, m)
    \/ \E a \in Accounts : Add(a) \/ Remove(a) \/ HealthChanges(a)
    \/ \E a \in Accounts, m \in RequestModels : PriceObserved(a, m)
    \/ Pass

(* Requests for every model keep coming, and time passes.                   *)
SelectionSpec ==
    /\ SelectionInit /\ [][SelectionNext]_selectionVars
    /\ WF_selectionVars(Pass)
    /\ \A m \in RequestModels : WF_selectionVars(PickExcluding({}, m, None))

-----------------------------------------------------------------------------
(* Properties.                                                              *)

(* The two records of use agree, whichever way an account was selected:     *)
(* what usedSeq calls older, lastUsed does not call more recent.  pick      *)
(* filters by one and breaks ties by the other.                             *)
UsedOrderConsistent ==
    \A a, b \in Accounts :
        usedSeq[a] < usedSeq[b] => sinceUsed[a] >= sinceUsed[b]

(* A burst spreads: an account is selected twice within minPickGap only     *)
(* after every other account of the winning tier, in or out of the short    *)
(* list, was selected since.                                                *)
BurstSpreads ==
    [][\A tried \in Tried, m \in RequestModels \cup {None},
          r \in Realms \cup {None}, a \in Accounts :
         LET cands == candidates(tried, m, r)
         IN  /\ cands /= {} /\ pickCandidate(cands, m, r, a)
             /\ sinceUsed[a] < MinPickGap
             => \A b \in pool(cands, m, r) : usedSeq[a] <= usedSeq[b]
      ]_selectionVars

(* A free and an unmeasured account compete for requests of m.              *)
frozen(m) ==
    LET cands == candidates({}, m, None)
    IN  tierOf(cands, m, 0) /= {} /\ tierOf(cands, m, 1) /= {}

(* Measured-free accounts do not shut out unmeasured ones for ever: while   *)
(* both are selectable, exploration keeps diverting requests to the latter. *)
UnmeasuredKeepsBeingTried ==
    \A m \in RequestModels :
        <>[]frozen(m) => []<>(sinceExplored[<<None, m>>] = 0)
=============================================================================
