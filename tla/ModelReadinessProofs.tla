------------------------- MODULE ModelReadinessProofs -------------------------
(***************************************************************************)
(* Theorems about ModelReadiness, for any number of calls, accounts,       *)
(* credentials and identities, and any number of reconfigurations.         *)
(***************************************************************************)
EXTENDS ModelReadiness, TLAPS

Snapshots == [state : {"not_started", "loading", "ready", "stale", "failed"}, config : Nat, gen : Nat,
              identity : Identities \union {None}, models : Nat]

Slots == [config : Nat, cred : Creds \union {None}, nextAuth : Nat, current : Snapshots]

IdentitySlots == [nextSequence : Nat, committedConfig : Nat, committedSequence : Nat]

Points == {"start", "join", "begin", "load", "fetch", "save", "shared", "wait", "metaCheck", "metaEnter",
           "metaWait", "metaFetch", "metaNew", "metaSame", "metaFailed", "finish", "done"}

Sources == {"none", "cache", "fresh", "config"}

Flights == {"none", "flying", "committed", "dropped"}

CallRecords ==
    [pc : Points, auth : Auths \union {None}, cred : (Creds \ BadCreds) \union {None}, config : Nat,
     gen : Nat, seq : Nat, source : Sources, models : Nat, metaSource : Sources, abandoned : BOOLEAN,
     waits : SUBSET Calls, settled : BOOLEAN, flight : Flights, result : Snapshots]

ReadinessTypeOK ==
    /\ configGeneration \in Nat
    /\ slot \in [Auths -> Slots]
    /\ identitySlot \in [Identities -> IdentitySlots]
    /\ file \in [Identities -> Nat]
    /\ metadata \in [flight : Calls \union {None}, cached : BOOLEAN, source : Sources]
    /\ call \in [Calls -> CallRecords]

(* The steps between the start of an identity call and its settling.       *)
Fetching == {"load", "fetch", "save"}

(* A newer generation of the account or a newer configuration is there.    *)
Replaced(rec) == slot[rec.auth].nextAuth > rec.gen \/ configGeneration > rec.config

Final(state) == state \notin {"loading", "not_started"}

(* A call at work knows its account and credential; its generation is not  *)
(* ahead of the account's, and while it is the account's the keys agree.   *)
KeyOK(rec) ==
    /\ rec.pc \notin {"start", "done"} => rec.cred # None
    /\ rec.pc = "start" => rec = Fresh
    /\ rec.pc # "start" => rec.auth \in Auths
    /\ rec.cred # None =>
         /\ rec.auth \in Auths
         /\ rec.gen <= slot[rec.auth].nextAuth /\ rec.config <= configGeneration
         /\ rec.gen = slot[rec.auth].nextAuth
              => slot[rec.auth].config = rec.config /\ slot[rec.auth].cred = rec.cred

(* The catalog it has chosen is on disk, or a later one is; one that it    *)
(* may still save is later than what an older configuration saved.         *)
CatalogOK(rec) ==
    /\ rec.models > 0 => rec.cred # None /\ rec.models <= file[IdentityOf[rec.cred]]
    /\ rec.pc \in Fetching =>
         LET i == identitySlot[IdentityOf[rec.cred]] IN
         /\ rec.seq <= i.nextSequence
         /\ rec.config > i.committedConfig => rec.seq > i.committedSequence

(* It gives up only when it is replaced; unless it is, the account has a   *)
(* final state once it is done.                                            *)
OutcomeOK(rec) ==
    /\ rec.abandoned => Replaced(rec)
    /\ rec.pc = "done" =>
         /\ Final(rec.result.state) \/ Replaced(rec)
         /\ rec.cred # None /\ ~Replaced(rec) =>
              /\ slot[rec.auth].current.gen = slot[rec.auth].nextAuth
              /\ Final(slot[rec.auth].current.state)

(* A call that waits waits for one of its own generation.                  *)
JoinOK(rec) ==
    rec.pc = "join" => \E q \in Calls : /\ rec.waits = {q}
                                        /\ call[q].pc # "start" /\ call[q].cred # None
                                        /\ call[q].auth = rec.auth /\ call[q].gen = rec.gen

(* What an account publishes.                                              *)
SlotOK(s) ==
    /\ s.current.gen <= s.nextAuth
    /\ s.current.gen = s.nextAuth => s.current.config = s.config
    /\ s.current.gen = s.nextAuth /\ s.current.state = "not_started" => s.cred = None
    /\ s.current.models > 0 => s.current.identity \in Identities /\ s.current.models <= file[s.current.identity]

(* The catalog on disk is the one that was committed last.                 *)
IdentityOK(i) ==
    /\ file[i] = identitySlot[i].committedSequence
    /\ identitySlot[i].committedSequence <= identitySlot[i].nextSequence
    /\ identitySlot[i].committedConfig <= configGeneration

CallsOK == \A p \in Calls : KeyOK(call[p]) /\ CatalogOK(call[p]) /\ OutcomeOK(call[p]) /\ JoinOK(call[p])
SlotsOK == \A a \in Auths : SlotOK(slot[a])
IdentitiesOK == \A i \in Identities : IdentityOK(i)

ReadinessInv == ReadinessTypeOK /\ CallsOK /\ SlotsOK /\ IdentitiesOK

-----------------------------------------------------------------------------
(* One call moves, the others do not.                                      *)
LEMMA CallMoves ==
    ASSUME ReadinessTypeOK, NEW p \in Calls, NEW rec \in CallRecords, step(p, rec)
    PROVE  /\ call' \in [Calls -> CallRecords] /\ call'[p] = rec
           /\ \A q \in Calls : q # p => call'[q] = call[q]
BY DEF ReadinessTypeOK, step

(* Snapshots are built of their parts.                                     *)
LEMMA SnapshotFacts ==
    ASSUME NEW state \in {"not_started", "loading", "ready", "stale", "failed"}, NEW config \in Nat,
           NEW gen \in Nat, NEW i \in Identities \union {None}, NEW models \in Nat
    PROVE  /\ Snapshot(state, config, gen, i, models) \in Snapshots
           /\ Snapshot(state, config, gen, i, models).state = state
           /\ Snapshot(state, config, gen, i, models).config = config
           /\ Snapshot(state, config, gen, i, models).gen = gen
           /\ Snapshot(state, config, gen, i, models).identity = i
           /\ Snapshot(state, config, gen, i, models).models = models
BY DEF Snapshot, Snapshots

(* A request keeps the key of the account or makes it a new generation.    *)
LEMMA RekeyFacts ==
    ASSUME ReadinessTypeOK, NEW a \in Auths, NEW cred \in Creds \union {None}
    PROVE  /\ rekeyed(a, cred) \in Slots
           /\ rekeyed(a, cred).config = configGeneration /\ rekeyed(a, cred).cred = cred
           /\ rekeyed(a, cred).current = slot[a].current
           /\ \/ rekeyed(a, cred).nextAuth = slot[a].nextAuth + 1
              \/ /\ rekeyed(a, cred) = slot[a]
                 /\ slot[a].config = configGeneration /\ slot[a].cred = cred
<1>1. slot[a] \in Slots /\ configGeneration \in Nat
  BY DEF ReadinessTypeOK
<1>2. CASE slot[a].config = configGeneration /\ slot[a].cred = cred
  BY <1>1, <1>2 DEF rekeyed
<1>3. CASE ~(slot[a].config = configGeneration /\ slot[a].cred = cred)
  <2>1. rekeyed(a, cred) = [slot[a] EXCEPT !.config = configGeneration, !.cred = cred, !.nextAuth = @ + 1]
    BY <1>3 DEF rekeyed
  <2>2. slot[a].nextAuth + 1 \in Nat
    BY <1>1 DEF Slots
  <2>3. rekeyed(a, cred) \in Slots
    BY <1>1, <2>1, <2>2 DEF Slots
  <2>4. /\ rekeyed(a, cred).config = configGeneration /\ rekeyed(a, cred).cred = cred
        /\ rekeyed(a, cred).current = slot[a].current
        /\ rekeyed(a, cred).nextAuth = slot[a].nextAuth + 1
    BY <1>1, <2>1 DEF Slots
  <2> QED
    BY <2>3, <2>4
<1> QED
  BY <1>2, <1>3

(* Publishing changes nothing but the snapshot.                            *)
LEMMA PublishFacts ==
    ASSUME NEW s \in Slots, NEW snapshot \in Snapshots
    PROVE  /\ published(s, snapshot) \in Slots
           /\ published(s, snapshot).config = s.config /\ published(s, snapshot).cred = s.cred
           /\ published(s, snapshot).nextAuth = s.nextAuth /\ published(s, snapshot).current = snapshot
BY DEF published, Slots

(* A fresh call has no key and no catalog.                                 *)
LEMMA FreshFacts ==
    /\ Fresh \in CallRecords /\ Fresh.pc = "start" /\ Fresh.auth = None /\ Fresh.cred = None
    /\ Fresh.models = 0 /\ Fresh.abandoned = FALSE
<1>1. NotStarted(0) \in Snapshots
  BY SnapshotFacts DEF NotStarted
<1>2. Fresh \in CallRecords
  BY <1>1 DEF Fresh, CallRecords, Points, Sources, Flights
<1> QED
  BY <1>2 DEF Fresh

(* What a call returns leaves its key as it was.                           *)
LEMMA ReturnedFacts ==
    ASSUME NEW rec \in CallRecords, NEW result \in Snapshots
    PROVE  LET r == returned(rec, result) IN
           /\ r \in CallRecords /\ r.pc = "done" /\ r.result = result /\ r.models = 0 /\ r.abandoned = FALSE
           /\ r.auth = rec.auth /\ r.cred = rec.cred /\ r.config = rec.config /\ r.gen = rec.gen
<1> DEFINE r == returned(rec, result)
<1>1. r \in CallRecords
  BY DEF returned, CallRecords, Points, Sources
<1>2. r.pc = "done" /\ r.result = result /\ r.models = 0
  BY DEF returned, CallRecords
<1>3. r.abandoned = FALSE
  BY DEF returned, CallRecords
<1>4. r.auth = rec.auth /\ r.cred = rec.cred /\ r.config = rec.config /\ r.gen = rec.gen
  BY DEF returned, CallRecords
<1> QED
  BY <1>1, <1>2, <1>3, <1>4

(* So does settling its identity call.                                     *)
LEMMA SettledFacts ==
    ASSUME ReadinessTypeOK, NEW p \in Calls
    PROVE  /\ settled(p) \in CallRecords /\ settled(p).models = call[p].models
           /\ settled(p).abandoned = call[p].abandoned /\ settled(p).seq = call[p].seq
           /\ settled(p).auth = call[p].auth /\ settled(p).cred = call[p].cred
           /\ settled(p).config = call[p].config /\ settled(p).gen = call[p].gen
<1>1. call[p] \in CallRecords /\ active(identity(p)) \ {p} \in SUBSET Calls
  BY DEF ReadinessTypeOK, active
<1> QED
  BY <1>1 DEF settled, CallRecords

(* The identity of a usable credential.                                    *)
LEMMA IdentityFacts == \A cred \in Creds \ BadCreds : IdentityOf[cred] \in Identities
BY ReadinessAssumption

(* What is read of an account is a snapshot.                               *)
LEMMA ServedFacts ==
    ASSUME ReadinessTypeOK, NEW a \in Auths PROVE snapshotForAuthID(a) \in Snapshots
<1>1. slot[a].current \in Snapshots /\ NotStarted(configGeneration) \in Snapshots
  BY ZenonT(40), SnapshotFacts DEF ReadinessTypeOK, Slots, NotStarted
<1> QED
  BY <1>1 DEF snapshotForAuthID

-----------------------------------------------------------------------------
(* Entering.  A request that rekeys an account leaves the calls of its     *)
(* earlier generations replaced.                                           *)
Rekeys(a, cred, s) ==
    /\ s \in Slots /\ slot' = [slot EXCEPT ![a] = s]
    /\ s.config = configGeneration /\ s.cred = cred
    /\ \/ s.nextAuth = slot[a].nextAuth + 1
       \/ /\ s.nextAuth = slot[a].nextAuth
          /\ slot[a].config = configGeneration /\ slot[a].cred = cred
          /\ \/ cred = None \/ s.current = slot[a].current
             \/ slot[a].current.gen # slot[a].nextAuth \/ slot[a].current.state = "loading"
    /\ UNCHANGED <<configGeneration, identitySlot, file>>

(* The other calls are as they should be after it.                         *)
LEMMA RekeyOthers ==
    ASSUME ReadinessInv, NEW a \in Auths, NEW cred \in Creds \union {None}, NEW s, Rekeys(a, cred, s),
           NEW q \in Calls, call'[q] = call[q]
    PROVE  KeyOK(call[q])' /\ CatalogOK(call[q])' /\ OutcomeOK(call[q])'
<1> DEFINE rec == call[q]
<1>1. /\ rec \in CallRecords /\ slot \in [Auths -> Slots] /\ s \in Slots /\ slot[a] \in Slots
      /\ KeyOK(rec) /\ CatalogOK(rec) /\ OutcomeOK(rec) /\ configGeneration \in Nat
  BY DEF ReadinessInv, ReadinessTypeOK, CallsOK, Rekeys
<1>2. slot'[a] = s /\ configGeneration' = configGeneration /\ \A b \in Auths : b # a => slot'[b] = slot[b]
  BY <1>1 DEF Rekeys
<1>3. KeyOK(call[q])'
  BY <1>1, <1>2, FreshFacts DEF KeyOK, Rekeys, Slots, CallRecords
<1>4. CatalogOK(call[q])'
  BY <1>1 DEF CatalogOK, Rekeys
<1>5. OutcomeOK(call[q])'
  <2>1. CASE rec.auth \in Auths /\ rec.auth # a
    BY <1>1, <1>2, <2>1 DEF OutcomeOK, Replaced
  <2>2. CASE rec.auth = a
    <3>1. Replaced(rec) => Replaced(call[q])'
      BY <1>1, <1>2, <2>2 DEF Replaced, Rekeys, Slots, CallRecords
    <3>2. ASSUME rec.pc = "done", rec.cred # None, ~(Replaced(call[q])')
          PROVE  s.current = slot[a].current /\ s.nextAuth = slot[a].nextAuth
      <4>1. rec.gen = slot[a].nextAuth /\ s.nextAuth = slot[a].nextAuth /\ slot[a].cred = rec.cred
        BY <1>1, <1>2, <2>2, <3>2 DEF Replaced, KeyOK, Rekeys, Slots, CallRecords
      <4>2. slot[a].current.gen = slot[a].nextAuth /\ Final(slot[a].current.state)
        BY <1>1, <2>2, <3>1, <3>2 DEF OutcomeOK
      <4> QED
        BY <1>1, <3>2, <4>1, <4>2 DEF Rekeys, Final, Slots
    <3> QED
      BY <1>1, <1>2, <2>2, <3>1, <3>2 DEF OutcomeOK
  <2>3. CASE rec.auth \notin Auths
    <3>1. rec.pc = "start" /\ rec.abandoned = FALSE
      BY <1>1, <2>3, FreshFacts DEF KeyOK
    <3> QED
      BY <3>1 DEF OutcomeOK
  <2> QED
    BY <2>1, <2>2, <2>3
<1> QED
  BY <1>3, <1>4, <1>5

(* What a call that enters starts with.                                    *)
Enters(p, a, s, rec) ==
    /\ call[p].pc = "start" /\ step(p, rec) /\ rec \in CallRecords
    /\ rec.auth = a /\ rec.models = 0 /\ rec.abandoned = FALSE
    /\ rec.pc \in {"done", "join", "finish", "metaCheck", "begin"}
    /\ rec.cred # None => rec.cred = s.cred /\ rec.config = configGeneration /\ rec.gen = s.nextAuth
    /\ rec.cred = None => rec.pc = "done"
    /\ rec.pc = "done" => /\ Final(rec.result.state)
                          /\ rec.cred # None => s.current.gen = s.nextAuth /\ Final(s.current.state)
    /\ rec.pc = "join" => \E q \in Calls : /\ rec.waits = {q} /\ call[q].pc # "start" /\ call[q].cred # None
                                           /\ call[q].auth = a /\ call[q].gen = rec.gen
    /\ UNCHANGED metadata

(* Entering like that keeps the invariant.                                 *)
LEMMA EnterKeeps ==
    ASSUME ReadinessInv, NEW p \in Calls, NEW a \in Auths, NEW cred \in Creds \union {None},
           NEW s, Rekeys(a, cred, s), SlotOK(s), NEW rec, Enters(p, a, s, rec)
    PROVE  ReadinessInv'
<1>1. /\ ReadinessTypeOK /\ CallsOK /\ SlotsOK /\ IdentitiesOK /\ configGeneration \in Nat
      /\ s \in Slots /\ rec \in CallRecords /\ slot \in [Auths -> Slots]
  BY DEF ReadinessInv, ReadinessTypeOK, Rekeys, Enters
<1>2. /\ call' \in [Calls -> CallRecords] /\ call'[p] = rec /\ \A q \in Calls : q # p => call'[q] = call[q]
  BY <1>1, CallMoves DEF Enters
<1>3. /\ slot' \in [Auths -> Slots] /\ slot'[a] = s /\ \A b \in Auths : b # a => slot'[b] = slot[b]
      /\ configGeneration' = configGeneration /\ identitySlot' = identitySlot /\ file' = file
  BY <1>1 DEF Rekeys
<1>4. ReadinessTypeOK'
  BY <1>1, <1>2, <1>3 DEF ReadinessTypeOK, Enters
<1>5. IdentitiesOK' /\ SlotsOK'
  BY <1>1, <1>3 DEF IdentitiesOK, IdentityOK, SlotsOK, SlotOK
<1>6. ASSUME NEW q \in Calls, q # p
      PROVE  (KeyOK(call[q]) /\ CatalogOK(call[q]) /\ OutcomeOK(call[q]) /\ JoinOK(call[q]))'
  <2>1. call'[q] = call[q]
    BY <1>2, <1>6
  <2>2. (KeyOK(call[q]) /\ CatalogOK(call[q]) /\ OutcomeOK(call[q]))'
    BY <2>1, RekeyOthers
  <2>3. JoinOK(call[q])'
    <3> SUFFICES ASSUME call[q].pc = "join"
                 PROVE  \E r \in Calls : /\ call[q].waits = {r} /\ call'[r].pc # "start" /\ call'[r].cred # None
                                         /\ call'[r].auth = call[q].auth /\ call'[r].gen = call[q].gen
      BY <2>1 DEF JoinOK
    <3>1. PICK r \in Calls : /\ call[q].waits = {r} /\ call[r].pc # "start" /\ call[r].cred # None
                             /\ call[r].auth = call[q].auth /\ call[r].gen = call[q].gen
      BY <1>1 DEF CallsOK, JoinOK
    <3>2. call'[r] = call[r]
      BY <1>2, <3>1 DEF Enters
    <3> QED
      BY <3>1, <3>2
  <2> QED
    BY <2>2, <2>3
<1>7. (KeyOK(call[p]) /\ CatalogOK(call[p]) /\ OutcomeOK(call[p]) /\ JoinOK(call[p]))'
  <2>1. KeyOK(call[p])'
    BY <1>1, <1>2, <1>3 DEF KeyOK, Enters, Rekeys, Slots, CallRecords
  <2>2. CatalogOK(call[p])'
    BY <1>2 DEF CatalogOK, Enters, Fetching
  <2>3. OutcomeOK(call[p])'
    BY <1>2, <1>3 DEF OutcomeOK, Enters
  <2>4. JoinOK(call[p])'
    <3> SUFFICES ASSUME rec.pc = "join"
                 PROVE  \E r \in Calls : /\ rec.waits = {r} /\ call'[r].pc # "start" /\ call'[r].cred # None
                                         /\ call'[r].auth = a /\ call'[r].gen = rec.gen
      BY <1>2 DEF JoinOK, Enters
    <3>1. PICK r \in Calls : /\ rec.waits = {r} /\ call[r].pc # "start" /\ call[r].cred # None
                             /\ call[r].auth = a /\ call[r].gen = rec.gen
      BY DEF Enters
    <3>2. call'[r] = call[r]
      BY <1>2, <3>1 DEF Enters
    <3> QED
      BY <3>1, <3>2
  <2> QED
    BY <2>1, <2>2, <2>3, <2>4
<1> QED
  BY <1>4, <1>5, <1>6, <1>7 DEF ReadinessInv, CallsOK

(* An unusable credential fails the account.                               *)
LEMMA EnterInvalidKeeps ==
    ASSUME ReadinessInv, NEW p \in Calls, NEW a \in Auths, NEW cred \in Creds, EnterInvalid(p, a, cred)
    PROVE  ReadinessInv'
<1> DEFINE s == rekeyed(a, None)
           snap == Snapshot("failed", configGeneration, s.nextAuth, None, 0)
           s2 == published(s, snap)
           rec == [Fresh EXCEPT !.pc = "done", !.auth = a, !.result = snap]
<1>1. ReadinessTypeOK /\ SlotOK(slot[a]) /\ configGeneration \in Nat
  BY DEF ReadinessInv, ReadinessTypeOK, SlotsOK
<1>2. /\ s \in Slots /\ s.config = configGeneration /\ s.cred = None /\ s.current = slot[a].current
      /\ \/ s.nextAuth = slot[a].nextAuth + 1
         \/ s = slot[a] /\ slot[a].config = configGeneration /\ slot[a].cred = None
  BY <1>1, RekeyFacts
<1>3. /\ slot' = [slot EXCEPT ![a] = s2] /\ call[p].pc = "start" /\ step(p, rec)
      /\ UNCHANGED <<configGeneration, identitySlot, file, metadata>>
  BY DEF EnterInvalid
<1> HIDE DEF s
<1>4. s.nextAuth \in Nat
  BY <1>2 DEF Slots
<1>5. /\ snap \in Snapshots /\ snap.state = "failed" /\ snap.config = configGeneration
      /\ snap.gen = s.nextAuth /\ snap.models = 0
  BY <1>1, <1>4 DEF Snapshot, Snapshots
<1> HIDE DEF snap
<1>6. /\ s2 \in Slots /\ s2.config = configGeneration /\ s2.cred = None
      /\ s2.nextAuth = s.nextAuth /\ s2.current = snap
  BY <1>2, <1>5, PublishFacts
<1> HIDE DEF s2
<1>7. /\ rec \in CallRecords /\ rec.pc = "done" /\ rec.auth = a /\ rec.result = snap /\ rec.cred = None
      /\ rec.models = 0 /\ rec.abandoned = FALSE
  BY <1>5, FreshFacts DEF CallRecords, Points
<1> HIDE DEF rec
<1>8. Rekeys(a, None, s2)
  BY <1>2, <1>3, <1>6 DEF Rekeys
<1>9. SlotOK(s2)
  BY <1>4, <1>5, <1>6 DEF SlotOK
<1>10. Enters(p, a, s2, rec)
  BY <1>3, <1>5, <1>7 DEF Enters, Final
<1> QED
  BY <1>8, <1>9, <1>10, EnterKeeps

(* A settled generation is served.                                         *)
LEMMA EnterSettledKeeps ==
    ASSUME ReadinessInv, NEW p \in Calls, NEW a \in Auths, NEW cred \in Creds, EnterSettled(p, a, cred)
    PROVE  ReadinessInv'
<1> DEFINE s == rekeyed(a, cred)
           rec == [Fresh EXCEPT !.pc = "done", !.auth = a, !.cred = cred, !.config = s.config,
                                !.gen = s.nextAuth, !.result = s.current]
<1>1. /\ ReadinessTypeOK /\ SlotOK(slot[a]) /\ slot[a] \in Slots /\ configGeneration \in Nat
      /\ cred \notin BadCreds /\ cred # None
  BY ReadinessAssumption DEF ReadinessInv, ReadinessTypeOK, SlotsOK, EnterSettled
<1>2. /\ s \in Slots /\ s.config = configGeneration /\ s.cred = cred /\ s.current = slot[a].current
      /\ \/ s.nextAuth = slot[a].nextAuth + 1
         \/ s = slot[a] /\ slot[a].config = configGeneration /\ slot[a].cred = cred
  BY <1>1, RekeyFacts
<1>3. /\ slot' = [slot EXCEPT ![a] = s] /\ call[p].pc = "start" /\ step(p, rec)
      /\ s.current.gen = s.nextAuth /\ s.current.state # "loading"
      /\ UNCHANGED <<configGeneration, identitySlot, file, metadata>>
  BY DEF EnterSettled
<1> HIDE DEF s
<1>4. s = slot[a] /\ Final(s.current.state)
  BY <1>1, <1>2, <1>3 DEF SlotOK, Slots, Snapshots, Final
<1>5. /\ rec \in CallRecords /\ rec.pc = "done" /\ rec.auth = a /\ rec.cred = cred /\ rec.config = s.config
      /\ rec.gen = s.nextAuth /\ rec.result = s.current /\ rec.models = 0 /\ rec.abandoned = FALSE
  BY <1>1, <1>2, FreshFacts DEF CallRecords, Points, Slots
<1> HIDE DEF rec
<1>6. Rekeys(a, cred, s) /\ SlotOK(s)
  BY <1>1, <1>2, <1>3, <1>4 DEF Rekeys
<1>7. Enters(p, a, s, rec)
  BY <1>2, <1>3, <1>4, <1>5 DEF Enters
<1> QED
  BY <1>6, <1>7, EnterKeeps

(* A generation that another call loads is waited for.                     *)
LEMMA EnterJoinKeeps ==
    ASSUME ReadinessInv, NEW p \in Calls, NEW a \in Auths, NEW cred \in Creds, EnterJoin(p, a, cred)
    PROVE  ReadinessInv'
<1> DEFINE s == rekeyed(a, cred)
<1>1. /\ ReadinessTypeOK /\ SlotOK(slot[a]) /\ slot[a] \in Slots /\ configGeneration \in Nat
      /\ cred \notin BadCreds /\ cred # None /\ CallsOK
  BY ReadinessAssumption DEF ReadinessInv, ReadinessTypeOK, SlotsOK, EnterJoin
<1>2. /\ s \in Slots /\ s.config = configGeneration /\ s.cred = cred /\ s.current = slot[a].current
      /\ \/ s.nextAuth = slot[a].nextAuth + 1
         \/ s = slot[a] /\ slot[a].config = configGeneration /\ slot[a].cred = cred
  BY <1>1, RekeyFacts
<1>3. /\ slot' = [slot EXCEPT ![a] = s] /\ call[p].pc = "start"
      /\ UNCHANGED <<configGeneration, identitySlot, file, metadata>>
  BY DEF EnterJoin
<1>4. PICK q \in Calls : leads(q, a, s.nextAuth) /\ step(p, joining(p, a, s, q))
  BY DEF EnterJoin
<1> DEFINE rec == joining(p, a, s, q)
<1> HIDE DEF s
<1>5. /\ rec \in CallRecords /\ rec.pc = "join" /\ rec.auth = a /\ rec.cred = cred /\ rec.config = s.config
      /\ rec.gen = s.nextAuth /\ rec.waits = {q} /\ rec.models = 0 /\ rec.abandoned = FALSE
  BY <1>1, <1>2, FreshFacts DEF joining, CallRecords, Points, Slots
<1>6. step(p, rec) /\ call[q].auth = a /\ call[q].gen = s.nextAuth /\ call[q].pc \notin {"join", "done"}
  BY <1>4 DEF leads
<1> HIDE DEF rec
<1>7. call[q].pc # "start" /\ call[q].cred # None
  <2>1. KeyOK(call[q])
    BY <1>1 DEF CallsOK
  <2>2. call[q].pc # "start"
    BY <1>6, <2>1, FreshFacts, ReadinessAssumption DEF KeyOK
  <2> QED
    BY <1>6, <2>1, <2>2 DEF KeyOK
<1>8. s = slot[a]
  BY <1>1, <1>2, <1>6, <1>7 DEF CallsOK, KeyOK, Slots, ReadinessTypeOK, CallRecords
<1>9. Rekeys(a, cred, s) /\ SlotOK(s)
  BY <1>1, <1>2, <1>3, <1>8 DEF Rekeys
<1>10. Enters(p, a, s, rec)
  <2>1. \E r \in Calls : /\ rec.waits = {r} /\ call[r].pc # "start" /\ call[r].cred # None
                         /\ call[r].auth = a /\ call[r].gen = rec.gen
    BY <1>5, <1>6, <1>7
  <2> QED
    BY <1>1, <1>2, <1>3, <1>5, <1>6, <2>1 DEF Enters
<1> QED
  BY <1>9, <1>10, EnterKeeps

(* A generation nobody loads is loaded.                                    *)
LEMMA EnterLeadKeeps ==
    ASSUME ReadinessInv, NEW p \in Calls, NEW a \in Auths, NEW cred \in Creds, EnterLead(p, a, cred)
    PROVE  ReadinessInv'
<1> DEFINE s == rekeyed(a, cred)
           snap == Snapshot("loading", configGeneration, s.nextAuth, IdentityOf[cred], 0)
           s2 == published(s, snap)
           src == IF configured THEN "config" ELSE "none"
           next == IF ~StoreAvailable THEN "finish" ELSE IF configured THEN "metaCheck" ELSE "begin"
           rec == [Fresh EXCEPT !.auth = a, !.cred = cred, !.config = configGeneration,
                                !.gen = s.nextAuth, !.source = src, !.pc = next]
<1>1. /\ ReadinessTypeOK /\ SlotOK(slot[a]) /\ slot[a] \in Slots /\ configGeneration \in Nat
      /\ cred \in Creds \ BadCreds /\ cred # None
  BY ReadinessAssumption DEF ReadinessInv, ReadinessTypeOK, SlotsOK, EnterLead
<1>2. /\ s \in Slots /\ s.config = configGeneration /\ s.cred = cred /\ s.current = slot[a].current
      /\ \/ s.nextAuth = slot[a].nextAuth + 1
         \/ s = slot[a] /\ slot[a].config = configGeneration /\ slot[a].cred = cred
  BY <1>1, RekeyFacts
<1>3. /\ slot' = [slot EXCEPT ![a] = s2] /\ call[p].pc = "start" /\ step(p, rec)
      /\ s.current.gen # s.nextAuth \/ s.current.state = "loading"
      /\ UNCHANGED <<configGeneration, identitySlot, file, metadata>>
  BY DEF EnterLead
<1>4. src \in Sources /\ next \in {"finish", "metaCheck", "begin"}
  BY DEF Sources
<1> HIDE DEF s, src, next
<1>5. s.nextAuth \in Nat /\ IdentityOf[cred] \in Identities
  BY <1>1, <1>2, IdentityFacts DEF Slots
<1>6. /\ snap \in Snapshots /\ snap.state = "loading" /\ snap.config = configGeneration
      /\ snap.gen = s.nextAuth /\ snap.models = 0
  BY <1>1, <1>5 DEF Snapshot, Snapshots
<1> HIDE DEF snap
<1>7. /\ s2 \in Slots /\ s2.config = configGeneration /\ s2.cred = cred
      /\ s2.nextAuth = s.nextAuth /\ s2.current = snap
  BY <1>2, <1>6, PublishFacts
<1> HIDE DEF s2
<1>8. /\ rec \in CallRecords /\ rec.pc = next /\ rec.auth = a /\ rec.cred = cred
      /\ rec.config = configGeneration /\ rec.gen = s.nextAuth /\ rec.models = 0 /\ rec.abandoned = FALSE
  BY <1>1, <1>4, <1>5, FreshFacts DEF CallRecords, Points
<1> HIDE DEF rec
<1>9. Rekeys(a, cred, s2)
  BY <1>2, <1>3, <1>7 DEF Rekeys
<1>10. SlotOK(s2)
  BY <1>5, <1>6, <1>7 DEF SlotOK
<1>11. Enters(p, a, s2, rec)
  BY <1>1, <1>3, <1>4, <1>7, <1>8 DEF Enters
<1> QED
  BY <1>9, <1>10, <1>11, EnterKeeps

(* The host's refresh starts a new generation, or finds one without a      *)
(* credential.                                                             *)
LEMMA MarkKeeps ==
    ASSUME ReadinessInv, NEW a \in Auths, MarkAuthNotStarted(a) PROVE ReadinessInv'
<1> DEFINE s == rekeyed(a, None)
           snap == Snapshot("not_started", configGeneration, s.nextAuth, None, 0)
           s2 == published(s, snap)
<1>1. /\ ReadinessTypeOK /\ CallsOK /\ SlotsOK /\ IdentitiesOK /\ configGeneration \in Nat
      /\ slot \in [Auths -> Slots]
  BY DEF ReadinessInv, ReadinessTypeOK
<1>2. /\ s \in Slots /\ s.config = configGeneration /\ s.cred = None /\ s.current = slot[a].current
      /\ \/ s.nextAuth = slot[a].nextAuth + 1
         \/ s = slot[a] /\ slot[a].config = configGeneration /\ slot[a].cred = None
  BY <1>1, RekeyFacts
<1>3. slot' = [slot EXCEPT ![a] = s2] /\ UNCHANGED <<configGeneration, identitySlot, file, metadata, call>>
  BY DEF MarkAuthNotStarted
<1> HIDE DEF s
<1>4. s.nextAuth \in Nat
  BY <1>2 DEF Slots
<1>5. /\ snap \in Snapshots /\ snap.state = "not_started" /\ snap.config = configGeneration
      /\ snap.gen = s.nextAuth /\ snap.models = 0
  BY <1>1, <1>4 DEF Snapshot, Snapshots
<1> HIDE DEF snap
<1>6. /\ s2 \in Slots /\ s2.config = configGeneration /\ s2.cred = None
      /\ s2.nextAuth = s.nextAuth /\ s2.current = snap
  BY <1>2, <1>5, PublishFacts
<1> HIDE DEF s2
<1>7. Rekeys(a, None, s2)
  BY <1>2, <1>3, <1>6 DEF Rekeys
<1>8. SlotOK(s2)
  BY <1>4, <1>5, <1>6 DEF SlotOK
<1>9. ReadinessTypeOK'
  BY <1>1, <1>3, <1>6 DEF ReadinessTypeOK
<1>10. IdentitiesOK' /\ SlotsOK'
  BY <1>1, <1>3, <1>6, <1>8 DEF IdentitiesOK, IdentityOK, SlotsOK, SlotOK
<1>11. CallsOK'
  <2> SUFFICES ASSUME NEW q \in Calls
               PROVE  (KeyOK(call[q]) /\ CatalogOK(call[q]) /\ OutcomeOK(call[q]) /\ JoinOK(call[q]))'
    BY DEF CallsOK
  <2>1. JoinOK(call[q])'
    BY <1>1, <1>3 DEF CallsOK, JoinOK
  <2> QED
    BY <1>3, <1>7, <2>1, RekeyOthers
<1> QED
  BY <1>9, <1>10, <1>11 DEF ReadinessInv

(* A new configuration replaces every call under way.                      *)
LEMMA ConfigKeeps == ASSUME ReadinessInv, CommitFeatureRuntime PROVE ReadinessInv'
<1>1. /\ ReadinessTypeOK /\ CallsOK /\ SlotsOK /\ IdentitiesOK /\ configGeneration \in Nat
      /\ configGeneration' = configGeneration + 1
      /\ UNCHANGED <<slot, identitySlot, file, metadata, call>>
  BY DEF ReadinessInv, ReadinessTypeOK, CommitFeatureRuntime
<1>2. ReadinessTypeOK'
  BY <1>1 DEF ReadinessTypeOK
<1>3. SlotsOK'
  BY <1>1 DEF SlotsOK, SlotOK
<1>4. IdentitiesOK'
  BY <1>1 DEF IdentitiesOK, IdentityOK, ReadinessTypeOK, IdentitySlots
<1>5. CallsOK'
  <2> SUFFICES ASSUME NEW q \in Calls
               PROVE  (KeyOK(call[q]) /\ CatalogOK(call[q]) /\ OutcomeOK(call[q]) /\ JoinOK(call[q]))'
    BY DEF CallsOK
  <2>1. /\ KeyOK(call[q]) /\ CatalogOK(call[q]) /\ OutcomeOK(call[q]) /\ JoinOK(call[q])
        /\ call[q].config \in Nat
    BY <1>1 DEF CallsOK, ReadinessTypeOK, CallRecords
  <2>2. KeyOK(call[q])'
    BY <1>1, <2>1 DEF KeyOK
  <2>3. CatalogOK(call[q])'
    BY <1>1, <2>1 DEF CatalogOK
  <2>4. JoinOK(call[q])'
    BY <1>1, <2>1 DEF JoinOK
  <2>5. Replaced(call[q]) => Replaced(call[q])'
    BY <1>1, <2>1 DEF Replaced
  <2>6. OutcomeOK(call[q])'
    BY <1>1, <2>1, <2>5 DEF OutcomeOK
  <2> QED
    BY <2>2, <2>3, <2>4, <2>6
<1> QED
  BY <1>2, <1>3, <1>4, <1>5 DEF ReadinessInv

-----------------------------------------------------------------------------
(* Work.  A call at work keeps its key, and so do the accounts.            *)
Works(p, rec) ==
    /\ call[p].pc \notin {"start", "done"} /\ step(p, rec) /\ rec \in CallRecords
    /\ rec.auth = call[p].auth /\ rec.cred = call[p].cred
    /\ rec.config = call[p].config /\ rec.gen = call[p].gen
    /\ rec.pc \notin {"start", "join"}
    /\ metadata' \in [flight : Calls \union {None}, cached : BOOLEAN, source : Sources]
    /\ configGeneration' = configGeneration

(* It publishes a final state of the current generation, if anything.      *)
Publishes(p) ==
    /\ slot' \in [Auths -> Slots]
    /\ \A a \in Auths :
         /\ slot'[a].nextAuth = slot[a].nextAuth
         /\ slot'[a].config = slot[a].config /\ slot'[a].cred = slot[a].cred
         /\ slot'[a] = slot[a] \/ (slot'[a].current.gen = slot[a].nextAuth /\ Final(slot'[a].current.state))

(* Being replaced is a matter of the key.                                  *)
LEMMA ReplacedKept ==
    ASSUME ReadinessInv, NEW p \in Calls, Publishes(p), configGeneration' = configGeneration,
           NEW q \in Calls, call[q].pc # "start",
           call'[q].auth = call[q].auth, call'[q].gen = call[q].gen, call'[q].config = call[q].config
    PROVE  Replaced(call[q])' <=> Replaced(call[q])
<1>1. call[q].auth \in Auths
  BY DEF ReadinessInv, CallsOK, KeyOK
<1> QED
  BY <1>1 DEF Replaced, Publishes

(* A step of work keeps the invariant, if it keeps to the catalogs.        *)
LEMMA WorkKeeps ==
    ASSUME ReadinessInv, NEW p \in Calls, NEW rec, Works(p, rec), Publishes(p),
           SlotsOK', IdentitiesOK', file' \in [Identities -> Nat],
           identitySlot' \in [Identities -> IdentitySlots],
           \A q \in Calls : CatalogOK(call[q])',
           OutcomeOK(call[p])'
    PROVE  ReadinessInv'
<1>1. /\ ReadinessTypeOK /\ CallsOK /\ rec \in CallRecords /\ configGeneration \in Nat
      /\ configGeneration' = configGeneration /\ slot \in [Auths -> Slots]
  BY DEF ReadinessInv, ReadinessTypeOK, Works
<1>2. /\ call' \in [Calls -> CallRecords] /\ call'[p] = rec /\ \A q \in Calls : q # p => call'[q] = call[q]
  BY <1>1, CallMoves DEF Works
<1>3. ReadinessTypeOK'
  BY <1>1, <1>2 DEF ReadinessTypeOK, Works, Publishes
<1>4. ASSUME NEW q \in Calls
      PROVE  /\ call'[q].auth = call[q].auth /\ call'[q].cred = call[q].cred
             /\ call'[q].gen = call[q].gen /\ call'[q].config = call[q].config
             /\ call[q].pc # "start" => call'[q].pc # "start"
  BY <1>2 DEF Works
<1>5. ASSUME NEW q \in Calls PROVE KeyOK(call[q])'
  <2>1. KeyOK(call[q]) /\ call[q] \in CallRecords
    BY <1>1 DEF CallsOK, ReadinessTypeOK
  <2>2. CASE q = p
    BY <1>1, <1>2, <1>4, <2>1, <2>2 DEF KeyOK, Works, Publishes
  <2>3. CASE q # p
    BY <1>1, <1>2, <2>1, <2>3 DEF KeyOK, Publishes
  <2> QED
    BY <2>2, <2>3
<1>6. ASSUME NEW q \in Calls PROVE JoinOK(call[q])'
  <2> SUFFICES ASSUME call'[q].pc = "join"
               PROVE  \E r \in Calls : /\ call'[q].waits = {r} /\ call'[r].pc # "start" /\ call'[r].cred # None
                                       /\ call'[r].auth = call'[q].auth /\ call'[r].gen = call'[q].gen
    BY DEF JoinOK
  <2>1. call'[q] = call[q]
    BY <1>2 DEF Works
  <2>2. PICK r \in Calls : /\ call[q].waits = {r} /\ call[r].pc # "start" /\ call[r].cred # None
                           /\ call[r].auth = call[q].auth /\ call[r].gen = call[q].gen
    BY <1>1, <2>1 DEF CallsOK, JoinOK
  <2>3. /\ call'[r].pc # "start" /\ call'[r].cred # None
        /\ call'[r].auth = call[q].auth /\ call'[r].gen = call[q].gen
    BY <1>4, <2>2
  <2> QED
    BY <2>1, <2>2, <2>3
<1>7. ASSUME NEW q \in Calls, q # p PROVE OutcomeOK(call[q])'
  <2>1. OutcomeOK(call[q]) /\ KeyOK(call[q]) /\ call'[q] = call[q]
    BY <1>1, <1>2, <1>7 DEF CallsOK
  <2>2. CASE call[q].pc = "start"
    BY <2>1, <2>2, FreshFacts DEF OutcomeOK, KeyOK
  <2>3. CASE call[q].pc # "start"
    <3>1. Replaced(call[q])' <=> Replaced(call[q])
      BY <1>1, <2>1, <2>3, ReplacedKept
    <3>2. call[q].auth \in Auths
      BY <2>1, <2>3 DEF KeyOK
    <3> QED
      BY <2>1, <3>1, <3>2 DEF OutcomeOK, Publishes
  <2> QED
    BY <2>2, <2>3
<1> QED
  BY <1>3, <1>5, <1>6, <1>7 DEF ReadinessInv, CallsOK

(* A call's generation is current, or the call has been replaced.          *)
LEMMA CurrentOrReplaced ==
    ASSUME ReadinessInv, NEW p \in Calls, call[p].cred # None
    PROVE  authGenerationCurrent(p) <=> ~Replaced(call[p])
<1>1. KeyOK(call[p]) /\ call[p].auth \in Auths
  BY DEF ReadinessInv, CallsOK, KeyOK
<1>2. /\ configGeneration \in Nat /\ call[p].config \in Nat /\ call[p].gen \in Nat
      /\ slot[call[p].auth].nextAuth \in Nat
  BY <1>1 DEF ReadinessInv, ReadinessTypeOK, CallRecords, Slots
<1> QED
  BY <1>1, <1>2 DEF authGenerationCurrent, Replaced, KeyOK

(* Most steps of work change nothing but the call and the metadata.        *)
Local(p, rec) ==
    /\ Works(p, rec)
    /\ UNCHANGED <<slot, identitySlot, file>>
    /\ rec.models \in {0, call[p].models, file[IdentityOf[call[p].cred]]}
    /\ rec.pc \in Fetching => call[p].pc \in Fetching /\ rec.seq = call[p].seq
    /\ rec.abandoned => call[p].abandoned \/ ~authGenerationCurrent(p)
    /\ rec.pc = "done" => OutcomeOK(rec)

(* They keep the invariant.                                                *)
LEMMA LocalKeeps ==
    ASSUME ReadinessInv, NEW p \in Calls, NEW rec, Local(p, rec) PROVE ReadinessInv'
<1>1. /\ ReadinessTypeOK /\ CallsOK /\ SlotsOK /\ IdentitiesOK /\ Works(p, rec) /\ rec \in CallRecords
      /\ slot' = slot /\ identitySlot' = identitySlot /\ file' = file /\ configGeneration' = configGeneration
      /\ KeyOK(call[p]) /\ CatalogOK(call[p]) /\ OutcomeOK(call[p]) /\ call[p] \in CallRecords
      /\ call[p].cred \in Creds \ BadCreds /\ call[p].cred # None /\ call[p].auth \in Auths
  BY DEF ReadinessInv, ReadinessTypeOK, CallsOK, Local, Works, KeyOK, CallRecords
<1>2. /\ call' \in [Calls -> CallRecords] /\ call'[p] = rec /\ \A q \in Calls : q # p => call'[q] = call[q]
  BY <1>1, CallMoves DEF Works
<1>3. Publishes(p)
  BY <1>1 DEF Publishes, ReadinessTypeOK
<1>4. SlotsOK' /\ IdentitiesOK'
  BY <1>1 DEF SlotsOK, SlotOK, IdentitiesOK, IdentityOK
<1>5. \A q \in Calls : CatalogOK(call[q])'
  <2>1. CatalogOK(call[p])'
    <3>1. file[IdentityOf[call[p].cred]] \in Nat
      BY <1>1, IdentityFacts DEF ReadinessTypeOK
    <3> QED
      BY <1>1, <1>2, <3>1 DEF CatalogOK, Local, Works, CallRecords
  <2>2. ASSUME NEW q \in Calls, q # p PROVE CatalogOK(call[q])'
    BY <1>1, <1>2, <2>2 DEF CallsOK, CatalogOK
  <2> QED
    BY <2>1, <2>2
<1>6. OutcomeOK(call[p])'
  <2>1. Replaced(call[p])' <=> Replaced(call[p])
    BY <1>1, <1>2, <1>3, ReplacedKept DEF Works
  <2>2. Replaced(rec) <=> Replaced(call[p])
    BY <1>1 DEF Replaced, Works
  <2>3. ~authGenerationCurrent(p) => Replaced(call[p])
    BY <1>1, CurrentOrReplaced
  <2>4. rec.abandoned => Replaced(call[p])
    BY <1>1, <2>3 DEF Local, OutcomeOK
  <2> QED
    BY <1>1, <1>2, <2>1, <2>2, <2>4 DEF Local, OutcomeOK
<1> QED
  BY <1>1, <1>3, <1>4, <1>5, <1>6, WorkKeeps DEF ReadinessTypeOK

(* A call at work, for the steps below.                                    *)
AtWork(p) == /\ ReadinessTypeOK /\ call[p] \in CallRecords /\ call[p].cred # None
             /\ file[IdentityOf[call[p].cred]] \in Nat

(* Every call between start and end is one.                                *)
LEMMA AtWorkFacts ==
    ASSUME ReadinessInv, NEW p \in Calls, call[p].pc \notin {"start", "done"} PROVE AtWork(p)
<1>1. ReadinessTypeOK /\ call[p] \in CallRecords /\ call[p].cred # None
  BY DEF ReadinessInv, ReadinessTypeOK, CallsOK, KeyOK
<1>2. IdentityOf[call[p].cred] \in Identities
  BY <1>1, IdentityFacts DEF CallRecords
<1> QED
  BY <1>1, <1>2 DEF AtWork, ReadinessTypeOK

(* A call that waited has the state its leader left.                       *)
LEMMA JoinKeeps == ASSUME ReadinessInv, NEW p \in Calls, Join(p) PROVE ReadinessInv'
<1> DEFINE a == call[p].auth
           rec == returned(call[p], snapshotForAuthID(a))
<1>1. AtWork(p) /\ KeyOK(call[p]) /\ JoinOK(call[p]) /\ CallsOK /\ SlotsOK /\ call[p].pc = "join"
  BY AtWorkFacts DEF Join, ReadinessInv, CallsOK
<1>2. a \in Auths /\ configGeneration \in Nat /\ slot[a] \in Slots
  BY <1>1 DEF AtWork, KeyOK, ReadinessTypeOK
<1>3. /\ rec \in CallRecords /\ rec.pc = "done" /\ rec.result = snapshotForAuthID(a)
      /\ rec.models = 0 /\ rec.abandoned = FALSE
      /\ rec.auth = a /\ rec.cred = call[p].cred /\ rec.config = call[p].config /\ rec.gen = call[p].gen
  BY <1>1, <1>2, ReturnedFacts, ServedFacts DEF AtWork
<1>4. PICK q \in Calls : /\ call[p].waits = {q} /\ call[q].pc # "start" /\ call[q].cred # None
                         /\ call[q].auth = a /\ call[q].gen = call[p].gen
  BY <1>1 DEF JoinOK
<1>5. call[q].pc = "done" /\ KeyOK(call[q]) /\ OutcomeOK(call[q])
  BY <1>1, <1>4 DEF Join, CallsOK
<1>6. ASSUME ~Replaced(rec)
      PROVE  /\ slot[a].current.gen = slot[a].nextAuth /\ Final(slot[a].current.state)
             /\ slot[a].current.config = configGeneration
  <2>1. /\ call[p].gen \in Nat /\ call[p].config \in Nat /\ slot[a].nextAuth \in Nat
        /\ slot[a].config \in Nat
    BY <1>1, <1>2 DEF AtWork, CallRecords, Slots
  <2>2. call[p].gen = slot[a].nextAuth /\ call[p].config = configGeneration
    BY <1>1, <1>2, <1>3, <1>6, <2>1 DEF Replaced, KeyOK
  <2>3. slot[a].config = configGeneration /\ call[q].config = configGeneration
    BY <1>1, <1>4, <1>5, <2>2 DEF KeyOK
  <2>4. ~Replaced(call[q])
    BY <1>2, <1>4, <2>1, <2>2, <2>3 DEF Replaced
  <2>5. slot[a].current.gen = slot[a].nextAuth /\ Final(slot[a].current.state)
    BY <1>4, <1>5, <2>4 DEF OutcomeOK
  <2> QED
    BY <1>1, <1>2, <2>3, <2>5 DEF SlotsOK, SlotOK
<1>7. OutcomeOK(rec)
  BY <1>3, <1>6 DEF OutcomeOK, snapshotForAuthID
<1>8. step(p, rec) /\ UNCHANGED <<configGeneration, slot, identitySlot, file, metadata>>
  BY DEF Join
<1> HIDE DEF rec
<1>9. Local(p, rec)
  BY <1>1, <1>3, <1>7, <1>8 DEF Local, Works, AtWork, ReadinessTypeOK, Fetching
<1> QED
  BY <1>9, LocalKeeps

(* The catalog arrives.                                                    *)
LEMMA FetchCatalogKeeps == ASSUME ReadinessInv, NEW p \in Calls, FetchCatalog(p) PROVE ReadinessInv'
<1> DEFINE rec == [call[p] EXCEPT !.pc = "save"]
<1>1. AtWork(p) /\ call[p].pc \in Fetching
  BY AtWorkFacts DEF FetchCatalog, Fetching
<1>2. /\ rec \in CallRecords /\ rec.pc = "save" /\ rec.models = call[p].models
      /\ rec.abandoned = call[p].abandoned /\ rec.seq = call[p].seq /\ rec.auth = call[p].auth
      /\ rec.cred = call[p].cred /\ rec.config = call[p].config /\ rec.gen = call[p].gen
  BY <1>1 DEF AtWork, CallRecords, Points
<1>3. step(p, rec) /\ UNCHANGED <<configGeneration, slot, identitySlot, file, metadata>>
  BY DEF FetchCatalog
<1> HIDE DEF rec
<1>4. Local(p, rec)
  BY <1>1, <1>2, <1>3 DEF Local, Works, AtWork, ReadinessTypeOK, Fetching
<1> QED
  BY <1>4, LocalKeeps

(* It does not.                                                            *)
LEMMA FetchCatalogFailsKeeps == ASSUME ReadinessInv, NEW p \in Calls, FetchCatalogFails(p) PROVE ReadinessInv'
<1> DEFINE rec == [settled(p) EXCEPT !.pc = "wait"]
<1>1. AtWork(p) /\ call[p].pc \in Fetching
  BY AtWorkFacts DEF FetchCatalogFails, Fetching
<1>2. /\ rec \in CallRecords /\ rec.pc = "wait" /\ rec.models = call[p].models
      /\ rec.abandoned = call[p].abandoned /\ rec.seq = call[p].seq /\ rec.auth = call[p].auth
      /\ rec.cred = call[p].cred /\ rec.config = call[p].config /\ rec.gen = call[p].gen
  BY <1>1, SettledFacts DEF AtWork, CallRecords, Points
<1>3. step(p, rec) /\ UNCHANGED <<configGeneration, slot, identitySlot, file, metadata>>
  BY DEF FetchCatalogFails
<1> HIDE DEF rec
<1>4. Local(p, rec)
  BY <1>1, <1>2, <1>3 DEF Local, Works, AtWork, ReadinessTypeOK, Fetching
<1> QED
  BY <1>4, LocalKeeps

(* A later call has saved.                                                 *)
LEMMA SaveOvertakenKeeps == ASSUME ReadinessInv, NEW p \in Calls, SaveOvertaken(p) PROVE ReadinessInv'
<1> DEFINE rec == [settled(p) EXCEPT !.pc = "shared"]
<1>1. AtWork(p) /\ call[p].pc \in Fetching
  BY AtWorkFacts DEF SaveOvertaken, Fetching
<1>2. /\ rec \in CallRecords /\ rec.pc = "shared" /\ rec.models = call[p].models
      /\ rec.abandoned = call[p].abandoned /\ rec.seq = call[p].seq /\ rec.auth = call[p].auth
      /\ rec.cred = call[p].cred /\ rec.config = call[p].config /\ rec.gen = call[p].gen
  BY <1>1, SettledFacts DEF AtWork, CallRecords, Points
<1>3. step(p, rec) /\ UNCHANGED <<configGeneration, slot, identitySlot, file, metadata>>
  BY DEF SaveOvertaken
<1> HIDE DEF rec
<1>4. Local(p, rec)
  BY <1>1, <1>2, <1>3 DEF Local, Works, AtWork, ReadinessTypeOK, Fetching
<1> QED
  BY <1>4, LocalKeeps

(* A superseded call gives up.                                             *)
LEMMA SaveAbandonedKeeps == ASSUME ReadinessInv, NEW p \in Calls, SaveAbandoned(p) PROVE ReadinessInv'
<1> DEFINE rec == [settled(p) EXCEPT !.pc = "finish", !.abandoned = TRUE]
<1>1. AtWork(p) /\ call[p].pc \in Fetching /\ ~authGenerationCurrent(p)
  BY AtWorkFacts DEF SaveAbandoned, Fetching
<1>2. /\ rec \in CallRecords /\ rec.pc = "finish" /\ rec.models = call[p].models
      /\ rec.auth = call[p].auth
      /\ rec.cred = call[p].cred /\ rec.config = call[p].config /\ rec.gen = call[p].gen
  BY <1>1, SettledFacts DEF AtWork, CallRecords, Points
<1>3. step(p, rec) /\ UNCHANGED <<configGeneration, slot, identitySlot, file, metadata>>
  BY DEF SaveAbandoned
<1> HIDE DEF rec
<1>4. Local(p, rec)
  BY <1>1, <1>2, <1>3 DEF Local, Works, AtWork, ReadinessTypeOK, Fetching
<1> QED
  BY <1>4, LocalKeeps

(* Steps that read a catalog or the metadata, beside the fetch.            *)
Plain(p, rec) ==
    /\ step(p, rec) /\ rec \in CallRecords /\ call[p].pc \notin {"start", "done"}
    /\ rec.pc \notin {"start", "join", "done"} /\ (rec.pc \in Fetching => call[p].pc \in Fetching)
    /\ rec.auth = call[p].auth /\ rec.cred = call[p].cred /\ rec.config = call[p].config
    /\ rec.gen = call[p].gen /\ rec.abandoned = call[p].abandoned /\ rec.seq = call[p].seq
    /\ rec.models \in {0, call[p].models, file[IdentityOf[call[p].cred]]}

(* They keep the invariant.                                                *)
LEMMA PlainKeeps ==
    ASSUME ReadinessInv, NEW p \in Calls, NEW rec, Plain(p, rec),
           UNCHANGED <<configGeneration, slot, identitySlot, file>>,
           metadata' \in [flight : Calls \union {None}, cached : BOOLEAN, source : Sources]
    PROVE  ReadinessInv'
<1>1. Local(p, rec)
  BY DEF Plain, Local, Works
<1> QED
  BY <1>1, LocalKeeps

(* The types of the metadata, and of what stays as it is.                  *)
LEMMA MetadataKept ==
    ASSUME ReadinessInv, metadata' = metadata
    PROVE  metadata' \in [flight : Calls \union {None}, cached : BOOLEAN, source : Sources]
BY DEF ReadinessInv, ReadinessTypeOK

(* The choice of what the file holds.                                      *)
LEMMA ChoiceFacts ==
    ASSUME NEW rec \in CallRecords, NEW found \in Nat
    PROVE  LET r == cachedChoice(rec, found) IN
           /\ r \in CallRecords /\ r.models = found /\ r.abandoned = rec.abandoned /\ r.seq = rec.seq
           /\ r.auth = rec.auth /\ r.cred = rec.cred /\ r.config = rec.config /\ r.gen = rec.gen
<1> DEFINE src == IF found > 0 THEN "cache" ELSE "none"
<1>1. src \in Sources /\ cachedChoice(rec, found) = [rec EXCEPT !.models = found, !.source = src]
  BY DEF Sources, cachedChoice
<1> HIDE DEF src
<1> QED
  BY <1>1 DEF CallRecords

(* The cached catalog is loaded,                                           *)
LEMMA LoadModelsKeeps == ASSUME ReadinessInv, NEW p \in Calls, LoadModels(p) PROVE ReadinessInv'
<1>1. AtWork(p) /\ call[p].pc = "load" /\ UNCHANGED <<configGeneration, slot, identitySlot, file, metadata>>
  BY AtWorkFacts DEF LoadModels
<1>2. PICK found \in {file[IdentityOf[call[p].cred]], 0} :
        step(p, [cachedChoice(call[p], found) EXCEPT !.pc = "fetch"])
  BY DEF LoadModels, loadable, identity
<1> DEFINE r == cachedChoice(call[p], found)
           rec == [r EXCEPT !.pc = "fetch"]
<1>3. /\ r \in CallRecords /\ r.models = found /\ r.abandoned = call[p].abandoned /\ r.seq = call[p].seq
      /\ r.auth = call[p].auth /\ r.cred = call[p].cred /\ r.config = call[p].config /\ r.gen = call[p].gen
  BY <1>1, <1>2, ChoiceFacts DEF AtWork
<1> HIDE DEF r
<1>4. step(p, rec)
  BY <1>2 DEF r
<1>5. Plain(p, rec)
  BY <1>1, <1>2, <1>3, <1>4 DEF Plain, CallRecords, Points, Fetching
<1> QED
  BY <1>1, <1>5, PlainKeeps, MetadataKept

(* after the others are through once more,                                 *)
LEMMA WaitAndReloadKeeps == ASSUME ReadinessInv, NEW p \in Calls, WaitAndReload(p) PROVE ReadinessInv'
<1>1. AtWork(p) /\ call[p].pc = "wait" /\ UNCHANGED <<configGeneration, slot, identitySlot, file, metadata>>
  BY AtWorkFacts DEF WaitAndReload
<1>2. PICK found \in {file[IdentityOf[call[p].cred]], 0} :
        step(p, [cachedChoice(call[p], found) EXCEPT !.pc = "metaCheck"])
  BY DEF WaitAndReload, loadable, identity
<1> DEFINE r == cachedChoice(call[p], found)
           rec == [r EXCEPT !.pc = "metaCheck"]
<1>3. /\ r \in CallRecords /\ r.models = found /\ r.abandoned = call[p].abandoned /\ r.seq = call[p].seq
      /\ r.auth = call[p].auth /\ r.cred = call[p].cred /\ r.config = call[p].config /\ r.gen = call[p].gen
  BY <1>1, <1>2, ChoiceFacts DEF AtWork
<1> HIDE DEF r
<1>4. step(p, rec)
  BY <1>2 DEF r
<1>5. Plain(p, rec)
  BY <1>1, <1>2, <1>3, <1>4 DEF Plain, CallRecords, Points, Fetching
<1> QED
  BY <1>1, <1>5, PlainKeeps, MetadataKept

(* and what a later call has saved is shared.                              *)
LEMMA LoadSharedKeeps == ASSUME ReadinessInv, NEW p \in Calls, LoadShared(p) PROVE ReadinessInv'
<1>1. AtWork(p) /\ call[p].pc = "shared" /\ UNCHANGED <<configGeneration, slot, identitySlot, file, metadata>>
  BY AtWorkFacts DEF LoadShared
<1>2. PICK found \in {file[IdentityOf[call[p].cred]], 0} :
        \/ step(p, [call[p] EXCEPT !.pc = "metaCheck", !.source = "fresh", !.models = found])
        \/ step(p, [call[p] EXCEPT !.pc = "metaCheck"])
  BY DEF LoadShared, loadable, identity
<1>3. CASE step(p, [call[p] EXCEPT !.pc = "metaCheck", !.source = "fresh", !.models = found])
  <2> DEFINE rec == [call[p] EXCEPT !.pc = "metaCheck", !.source = "fresh", !.models = found]
  <2>2. found \in Nat
    BY <1>1, <1>2 DEF AtWork
  <2>3. rec \in CallRecords
    BY <1>1, <2>2 DEF AtWork, CallRecords, Points, Sources
  <2>4. /\ rec.pc = "metaCheck" /\ rec.models = found
        /\ rec.auth = call[p].auth /\ rec.cred = call[p].cred /\ rec.config = call[p].config
        /\ rec.gen = call[p].gen /\ rec.abandoned = call[p].abandoned /\ rec.seq = call[p].seq
    BY <1>1 DEF AtWork, CallRecords
  <2>5. step(p, rec)
    BY <1>3
  <2> HIDE DEF rec
  <2>1. Plain(p, rec)
    BY <1>1, <1>2, <2>3, <2>4, <2>5 DEF Plain, Fetching
  <2> QED
    BY <1>1, <2>1, PlainKeeps, MetadataKept
<1>4. CASE step(p, [call[p] EXCEPT !.pc = "metaCheck"])
  <2>1. Plain(p, [call[p] EXCEPT !.pc = "metaCheck"])
    BY <1>1, <1>4 DEF Plain, AtWork, CallRecords, Points, Fetching
  <2> QED
    BY <1>1, <2>1, PlainKeeps, MetadataKept
<1> QED
  BY <1>2, <1>3, <1>4

(* The metadata is entered,                                                *)
LEMMA MetaCheckKeeps == ASSUME ReadinessInv, NEW p \in Calls, MetaCheck(p) PROVE ReadinessInv'
<1>1. AtWork(p) /\ call[p].pc = "metaCheck" /\ UNCHANGED <<configGeneration, slot, identitySlot, file, metadata>>
  BY AtWorkFacts DEF MetaCheck
<1>2. PICK pc \in {"metaEnter", "finish"} : step(p, [call[p] EXCEPT !.pc = pc])
  BY DEF MetaCheck
<1>3. Plain(p, [call[p] EXCEPT !.pc = pc])
  BY <1>1, <1>2 DEF Plain, AtWork, CallRecords, Points, Fetching
<1> QED
  BY <1>1, <1>3, PlainKeeps, MetadataKept

(* found, waited for or flown for,                                         *)
LEMMA MetaEnterKeeps == ASSUME ReadinessInv, NEW p \in Calls, MetaEnter(p) PROVE ReadinessInv'
<1>1. AtWork(p) /\ call[p].pc = "metaEnter" /\ UNCHANGED <<configGeneration, slot, identitySlot, file>>
  BY AtWorkFacts DEF MetaEnter
<1>2. metadata \in [flight : Calls \union {None}, cached : BOOLEAN, source : Sources]
  BY <1>1 DEF AtWork, ReadinessTypeOK
<1>3. CASE step(p, [call[p] EXCEPT !.pc = "finish", !.metaSource = metadata.source]) /\ metadata' = metadata
  <2>1. Plain(p, [call[p] EXCEPT !.pc = "finish", !.metaSource = metadata.source])
    BY <1>1, <1>2, <1>3 DEF Plain, AtWork, CallRecords, Points, Fetching
  <2> QED
    BY <1>1, <1>3, <2>1, PlainKeeps, MetadataKept
<1>4. CASE /\ step(p, [call[p] EXCEPT !.pc = "metaWait", !.waits = {metadata.flight}]) /\ metadata' = metadata
           /\ metadata.flight # None
  <2>1. {metadata.flight} \in SUBSET Calls
    BY <1>2, <1>4
  <2>2. Plain(p, [call[p] EXCEPT !.pc = "metaWait", !.waits = {metadata.flight}])
    BY <1>1, <1>4, <2>1 DEF Plain, AtWork, CallRecords, Points, Fetching
  <2> QED
    BY <1>1, <1>4, <2>2, PlainKeeps, MetadataKept
<1>5. CASE /\ step(p, [call[p] EXCEPT !.pc = "metaFetch", !.flight = "flying"])
           /\ metadata' = [metadata EXCEPT !.flight = p]
  <2>1. Plain(p, [call[p] EXCEPT !.pc = "metaFetch", !.flight = "flying"])
    BY <1>1, <1>5 DEF Plain, AtWork, CallRecords, Points, Flights, Fetching
  <2>2. metadata' \in [flight : Calls \union {None}, cached : BOOLEAN, source : Sources]
    BY <1>2, <1>5
  <2> QED
    BY <1>1, <2>1, <2>2, PlainKeeps
<1> QED
  BY <1>3, <1>4, <1>5 DEF MetaEnter

(* come back,                                                              *)
LEMMA MetaWaitKeeps == ASSUME ReadinessInv, NEW p \in Calls, MetaWait(p) PROVE ReadinessInv'
<1>1. AtWork(p) /\ call[p].pc = "metaWait" /\ UNCHANGED <<configGeneration, slot, identitySlot, file, metadata>>
  BY AtWorkFacts DEF MetaWait
<1>2. PICK q \in call[p].waits :
        \/ step(p, [call[p] EXCEPT !.pc = "finish", !.metaSource = call[q].metaSource])
        \/ step(p, [call[p] EXCEPT !.pc = "metaCheck"])
  BY DEF MetaWait
<1>3. call[q].metaSource \in Sources
  BY <1>1 DEF AtWork, ReadinessTypeOK, CallRecords
<1>4. CASE step(p, [call[p] EXCEPT !.pc = "finish", !.metaSource = call[q].metaSource])
  <2>1. Plain(p, [call[p] EXCEPT !.pc = "finish", !.metaSource = call[q].metaSource])
    BY <1>1, <1>3, <1>4 DEF Plain, AtWork, CallRecords, Points, Fetching
  <2> QED
    BY <1>1, <2>1, PlainKeeps, MetadataKept
<1>5. CASE step(p, [call[p] EXCEPT !.pc = "metaCheck"])
  <2>1. Plain(p, [call[p] EXCEPT !.pc = "metaCheck"])
    BY <1>1, <1>5 DEF Plain, AtWork, CallRecords, Points, Fetching
  <2> QED
    BY <1>1, <2>1, PlainKeeps, MetadataKept
<1> QED
  BY <1>2, <1>4, <1>5

(* answered                                                                *)
LEMMA MetaFetchKeeps == ASSUME ReadinessInv, NEW p \in Calls, MetaFetch(p) PROVE ReadinessInv'
<1>1. AtWork(p) /\ call[p].pc = "metaFetch" /\ UNCHANGED <<configGeneration, slot, identitySlot, file, metadata>>
  BY AtWorkFacts DEF MetaFetch
<1>2. PICK pc \in {"metaNew", "metaSame", "metaFailed"} : step(p, [call[p] EXCEPT !.pc = pc])
  BY DEF MetaFetch
<1>3. Plain(p, [call[p] EXCEPT !.pc = pc])
  BY <1>1, <1>2 DEF Plain, AtWork, CallRecords, Points, Fetching
<1> QED
  BY <1>1, <1>3, PlainKeeps, MetadataKept

(* and committed or dropped.                                               *)
LEMMA MetaCommitKeeps == ASSUME ReadinessInv, NEW p \in Calls, MetaCommit(p) PROVE ReadinessInv'
<1>1. /\ AtWork(p) /\ call[p].pc \in {"metaNew", "metaSame", "metaFailed"}
      /\ UNCHANGED <<configGeneration, slot, identitySlot, file>>
  BY AtWorkFacts DEF MetaCommit
<1>2. metadata \in [flight : Calls \union {None}, cached : BOOLEAN, source : Sources]
  BY <1>1 DEF AtWork, ReadinessTypeOK
<1>3. CASE authGenerationCurrent(p)
  <2>1. PICK source : /\ source \in {"fresh", "cache", "none"}
                      /\ step(p, [call[p] EXCEPT !.pc = "finish", !.metaSource = source, !.flight = "committed"])
                      /\ metadata' = [flight |-> None, source |-> source,
                                      cached |-> metadata.cached \/ source /= "none"]
    BY <1>3 DEF MetaCommit, selectedMetadata
  <2> DEFINE rec == [call[p] EXCEPT !.pc = "finish", !.metaSource = source, !.flight = "committed"]
  <2>5. source \in Sources
    BY <2>1 DEF Sources
  <2>6. rec \in CallRecords
    BY <1>1, <2>5 DEF AtWork, CallRecords, Points, Flights
  <2>7. /\ rec.pc = "finish" /\ rec.models = call[p].models
        /\ rec.auth = call[p].auth /\ rec.cred = call[p].cred /\ rec.config = call[p].config
        /\ rec.gen = call[p].gen /\ rec.abandoned = call[p].abandoned /\ rec.seq = call[p].seq
    BY <1>1 DEF AtWork, CallRecords
  <2>8. step(p, rec)
    BY <2>1
  <2> HIDE DEF rec
  <2>2. Plain(p, rec)
    BY <1>1, <2>6, <2>7, <2>8 DEF Plain, Fetching
  <2>3. (metadata.cached \/ source /= "none") \in BOOLEAN
    OBVIOUS
  <2>4. metadata' \in [flight : Calls \union {None}, cached : BOOLEAN, source : Sources]
    BY <2>1, <2>3 DEF Sources
  <2> QED
    BY <1>1, <2>2, <2>4, PlainKeeps
<1>4. CASE ~authGenerationCurrent(p)
  <2>1. /\ step(p, [call[p] EXCEPT !.pc = "finish", !.flight = "dropped"])
        /\ metadata' = [metadata EXCEPT !.flight = None]
    BY <1>4 DEF MetaCommit
  <2>2. Plain(p, [call[p] EXCEPT !.pc = "finish", !.flight = "dropped"])
    BY <1>1, <2>1 DEF Plain, AtWork, CallRecords, Points, Flights, Fetching
  <2>3. metadata' \in [flight : Calls \union {None}, cached : BOOLEAN, source : Sources]
    BY <1>2, <2>1
  <2> QED
    BY <1>1, <2>2, <2>3, PlainKeeps
<1> QED
  BY <1>3, <1>4

(* An identity call gets the next number.                                  *)
LEMMA StartKeeps == ASSUME ReadinessInv, NEW p \in Calls, StartIdentityCall(p) PROVE ReadinessInv'
<1> DEFINE i == IdentityOf[call[p].cred]
           seq == identitySlot[i].nextSequence + 1
           rec == [call[p] EXCEPT !.pc = "load", !.seq = seq]
<1>1. /\ AtWork(p) /\ call[p].pc = "begin" /\ UNCHANGED <<configGeneration, slot, file, metadata>>
      /\ identitySlot' = [identitySlot EXCEPT ![i].nextSequence = seq] /\ step(p, rec)
  BY AtWorkFacts DEF StartIdentityCall, identity
<1>2. /\ ReadinessTypeOK /\ CallsOK /\ SlotsOK /\ IdentitiesOK /\ call[p] \in CallRecords
      /\ CatalogOK(call[p]) /\ OutcomeOK(call[p]) /\ call[p].auth \in Auths
  BY <1>1 DEF AtWork, ReadinessInv, CallsOK, KeyOK
<1>3. i \in Identities /\ identitySlot[i] \in IdentitySlots /\ seq \in Nat
  BY <1>1, <1>2, IdentityFacts DEF AtWork, CallRecords, ReadinessTypeOK, IdentitySlots
<1>4. IdentityOK(i)
  BY <1>2, <1>3 DEF IdentitiesOK
<1>5. /\ identitySlot' \in [Identities -> IdentitySlots] /\ identitySlot'[i].nextSequence = seq
      /\ identitySlot'[i].committedConfig = identitySlot[i].committedConfig
      /\ identitySlot'[i].committedSequence = identitySlot[i].committedSequence
      /\ \A k \in Identities : k # i => identitySlot'[k] = identitySlot[k]
  BY <1>1, <1>2, <1>3 DEF ReadinessTypeOK, IdentitySlots
<1>6. seq > identitySlot[i].nextSequence /\ seq > identitySlot[i].committedSequence
  BY <1>3, <1>4 DEF IdentityOK, IdentitySlots
<1> HIDE DEF seq
<1>7. /\ rec \in CallRecords /\ rec.pc = "load" /\ rec.seq = seq /\ rec.models = call[p].models
      /\ rec.abandoned = call[p].abandoned /\ rec.auth = call[p].auth
      /\ rec.cred = call[p].cred /\ rec.config = call[p].config /\ rec.gen = call[p].gen
  BY <1>2, <1>3 DEF CallRecords, Points
<1> HIDE DEF rec
<1>8. Works(p, rec)
  BY <1>1, <1>2, <1>7 DEF Works, ReadinessTypeOK
<1>9. Publishes(p)
  BY <1>1, <1>2 DEF Publishes, ReadinessTypeOK
<1>10. SlotsOK'
  BY <1>1, <1>2 DEF SlotsOK, SlotOK
<1>11. IdentitiesOK'
  <2>1. ASSUME NEW k \in Identities PROVE IdentityOK(k)'
    <3>1. CASE k = i
      <4>1. /\ seq \in Nat /\ identitySlot[i].nextSequence \in Nat
            /\ identitySlot[i].committedSequence \in Nat
        BY <1>3 DEF IdentitySlots
      <4>2. identitySlot[i].committedSequence <= seq
        BY <1>6, <4>1
      <4> QED
        BY <1>1, <1>4, <1>5, <3>1, <4>2 DEF IdentityOK
    <3>2. CASE k # i
      BY <1>1, <1>2, <1>5, <3>2 DEF IdentitiesOK, IdentityOK
    <3> QED
      BY <3>1, <3>2
  <2> QED
    BY <2>1 DEF IdentitiesOK
<1>12. /\ call' \in [Calls -> CallRecords] /\ call'[p] = rec /\ \A q \in Calls : q # p => call'[q] = call[q]
  BY <1>1, <1>2, <1>7, CallMoves
<1>13. ASSUME NEW q \in Calls PROVE CatalogOK(call[q])'
  <2>1. CASE q = p
    <3>1. /\ call'[q].cred = call[p].cred /\ call'[q].models = call[p].models
          /\ call'[q].seq = seq /\ UNCHANGED file
      BY <1>1, <1>7, <1>12, <2>1
    <3>2. call'[q].models > 0 =>
            call'[q].cred # None /\ call'[q].models <= file'[IdentityOf[call'[q].cred]]
      BY <1>2, <3>1 DEF CatalogOK
    <3>3. seq \in Nat /\ seq <= identitySlot'[i].nextSequence /\ seq > identitySlot'[i].committedSequence
      BY <1>3, <1>5, <1>6
    <3>4. IdentityOf[call'[q].cred] = i
      BY <3>1
    <3> HIDE DEF i
    <3> QED
      BY <3>1, <3>2, <3>3, <3>4 DEF CatalogOK
  <2>2. CASE q # p
    <3>1. CatalogOK(call[q]) /\ KeyOK(call[q]) /\ call[q] \in CallRecords /\ call'[q] = call[q]
      BY <1>2, <1>12, <2>2 DEF CallsOK, ReadinessTypeOK
    <3>2. CASE call[q].pc \in Fetching
      <4> DEFINE k == IdentityOf[call[q].cred]
      <4>1. k \in Identities
        BY <3>1, <3>2, IdentityFacts DEF KeyOK, CallRecords, Fetching
      <4>2. identitySlot[k] \in IdentitySlots /\ identitySlot'[k] \in IdentitySlots /\ call[q].seq \in Nat
        BY <1>2, <1>5, <3>1, <4>1 DEF ReadinessTypeOK, CallRecords
      <4>3. /\ identitySlot'[k].nextSequence >= identitySlot[k].nextSequence
            /\ identitySlot'[k].committedConfig = identitySlot[k].committedConfig
            /\ identitySlot'[k].committedSequence = identitySlot[k].committedSequence
        BY <1>3, <1>5, <1>6, <4>1, <4>2 DEF IdentitySlots
      <4> QED
        <5>1. /\ identitySlot[k].nextSequence \in Nat /\ identitySlot'[k].nextSequence \in Nat
              /\ call[q].seq <= identitySlot[k].nextSequence
          BY <3>1, <3>2, <4>2 DEF CatalogOK, IdentitySlots
        <5>2. call[q].seq <= identitySlot'[k].nextSequence
          BY <4>2, <4>3, <5>1
        <5> QED
          BY <1>1, <3>1, <3>2, <4>3, <5>2 DEF CatalogOK
    <3>3. CASE call[q].pc \notin Fetching
      BY <1>1, <3>1, <3>3 DEF CatalogOK
    <3> QED
      BY <3>2, <3>3
  <2> QED
    BY <2>1, <2>2
<1>14. OutcomeOK(call[p])'
  <2>1. Replaced(call[p])' <=> Replaced(call[p])
    BY <1>1, <1>7, <1>9, <1>12, ReplacedKept
  <2> QED
    BY <1>2, <1>7, <1>12, <2>1 DEF OutcomeOK
<1>15. file' \in [Identities -> Nat]
  BY <1>1, <1>2 DEF ReadinessTypeOK
<1> QED
  BY <1>5, <1>8, <1>9, <1>10, <1>11, <1>13, <1>14, <1>15, WorkKeeps

(* A catalog that is saved is later than the one on disk: a call of this   *)
(* configuration is, as it is not overtaken; one of a newer configuration  *)
(* started after all that an older one committed.                          *)
LEMMA SavedIsLater ==
    ASSUME ReadinessInv, NEW p \in Calls, call[p].pc = "save", authGenerationCurrent(p), ~overtaken(p)
    PROVE  LET i == IdentityOf[call[p].cred] IN
           i \in Identities /\ call[p].seq >= file[i] /\ call[p].seq <= identitySlot[i].nextSequence
<1> DEFINE i == IdentityOf[call[p].cred]
<1>1. AtWork(p) /\ CatalogOK(call[p]) /\ IdentitiesOK
  BY AtWorkFacts DEF ReadinessInv, CallsOK
<1>2. i \in Identities
  BY <1>1, IdentityFacts DEF AtWork, CallRecords
<1>3. /\ identitySlot[i] \in IdentitySlots /\ IdentityOK(i) /\ call[p].seq \in Nat /\ call[p].config \in Nat
      /\ configGeneration \in Nat
  BY <1>1, <1>2 DEF AtWork, ReadinessTypeOK, IdentitiesOK, CallRecords
<1>4. /\ call[p].seq <= identitySlot[i].nextSequence
      /\ call[p].config > identitySlot[i].committedConfig => call[p].seq > identitySlot[i].committedSequence
  BY <1>1 DEF CatalogOK, Fetching
<1>5. call[p].config = configGeneration
  BY DEF authGenerationCurrent
<1>6. ~(identitySlot[i].committedConfig = call[p].config /\ call[p].seq < identitySlot[i].committedSequence)
  BY DEF overtaken, identity
<1> QED
  BY <1>2, <1>3, <1>4, <1>5, <1>6 DEF IdentityOK, IdentitySlots

(* A catalog is saved, or its save is lost.                                *)
LEMMA SaveModelsKeeps == ASSUME ReadinessInv, NEW p \in Calls, SaveModels(p) PROVE ReadinessInv'
<1> DEFINE i == IdentityOf[call[p].cred]
           seq == call[p].seq
           committed == [identitySlot[i] EXCEPT !.committedConfig = call[p].config, !.committedSequence = seq]
<1>1. /\ AtWork(p) /\ call[p].pc = "save" /\ authGenerationCurrent(p) /\ ~overtaken(p)
      /\ UNCHANGED <<configGeneration, slot, metadata>>
  BY AtWorkFacts DEF SaveModels
<1>2. /\ ReadinessTypeOK /\ CallsOK /\ SlotsOK /\ IdentitiesOK /\ call[p] \in CallRecords
      /\ OutcomeOK(call[p]) /\ call[p].auth \in Auths /\ seq \in Nat /\ configGeneration \in Nat
      /\ call[p].config = configGeneration
  BY <1>1 DEF AtWork, ReadinessInv, ReadinessTypeOK, CallsOK, KeyOK, CallRecords, authGenerationCurrent
<1>3. CASE /\ file' = [file EXCEPT ![i] = seq]
           /\ identitySlot' = [identitySlot EXCEPT ![i] = committed]
           /\ step(p, [settled(p) EXCEPT !.pc = "metaCheck", !.source = "fresh", !.models = seq])
  <2> DEFINE rec == [settled(p) EXCEPT !.pc = "metaCheck", !.source = "fresh", !.models = seq]
  <2>1. i \in Identities /\ seq >= file[i] /\ seq <= identitySlot[i].nextSequence
    BY <1>1, SavedIsLater
  <2>2. /\ file' \in [Identities -> Nat] /\ file'[i] = seq /\ \A k \in Identities : file'[k] >= file[k]
    BY <1>2, <1>3, <2>1 DEF ReadinessTypeOK
  <2>3. /\ identitySlot' \in [Identities -> IdentitySlots]
        /\ identitySlot'[i].nextSequence = identitySlot[i].nextSequence
        /\ identitySlot'[i].committedConfig = configGeneration /\ identitySlot'[i].committedSequence = seq
        /\ \A k \in Identities : k # i => identitySlot'[k] = identitySlot[k] /\ file'[k] = file[k]
    <3>1. identitySlot[i] \in IdentitySlots /\ call[p].config \in Nat
      BY <1>2, <2>1 DEF ReadinessTypeOK
    <3>2. /\ committed \in IdentitySlots /\ committed.nextSequence = identitySlot[i].nextSequence
          /\ committed.committedConfig = call[p].config /\ committed.committedSequence = seq
      BY <1>2, <3>1 DEF IdentitySlots
    <3> HIDE DEF committed
    <3> QED
      BY <1>2, <1>3, <2>1, <3>2 DEF ReadinessTypeOK
  <2>4. /\ rec \in CallRecords /\ rec.pc = "metaCheck" /\ rec.models = seq
        /\ rec.abandoned = call[p].abandoned /\ rec.auth = call[p].auth
        /\ rec.cred = call[p].cred /\ rec.config = call[p].config /\ rec.gen = call[p].gen
    <3>1. rec \in CallRecords
      BY ZenonT(40), <1>2, SettledFacts DEF CallRecords, Points, Sources
    <3> QED
      BY <1>2, <3>1, SettledFacts DEF CallRecords
  <2>5. step(p, rec)
    BY <1>3
  <2> HIDE DEF rec
  <2>6. Works(p, rec)
    BY <1>1, <1>2, <2>4, <2>5 DEF Works, ReadinessTypeOK
  <2>7. Publishes(p)
    BY <1>1, <1>2 DEF Publishes, ReadinessTypeOK
  <2>8. SlotsOK'
    <3> SUFFICES ASSUME NEW a \in Auths PROVE SlotOK(slot[a])'
      BY DEF SlotsOK
    <3>1. SlotOK(slot[a]) /\ slot'[a] = slot[a] /\ slot[a].current.models \in Nat
      BY <1>1, <1>2 DEF SlotsOK, ReadinessTypeOK, Slots, Snapshots
    <3> QED
      BY <1>2, <2>2, <3>1 DEF SlotOK, ReadinessTypeOK
  <2>9. IdentitiesOK'
    BY <1>1, <1>2, <2>1, <2>2, <2>3 DEF IdentitiesOK, IdentityOK
  <2>10. /\ call' \in [Calls -> CallRecords] /\ call'[p] = rec /\ \A q \in Calls : q # p => call'[q] = call[q]
    BY <1>2, <2>4, <2>5, CallMoves
  <2>11. ASSUME NEW q \in Calls PROVE CatalogOK(call[q])'
    <3>1. CASE q = p
      BY <1>1, <1>2, <2>2, <2>4, <2>10, <3>1 DEF CatalogOK, Fetching, AtWork
    <3>2. CASE q # p
      <4>1. CatalogOK(call[q]) /\ KeyOK(call[q]) /\ call[q] \in CallRecords /\ call'[q] = call[q]
        BY <1>2, <2>10, <3>2 DEF CallsOK, ReadinessTypeOK
      <4> DEFINE k == IdentityOf[call[q].cred]
      <4>2. call[q].cred # None => k \in Identities
        BY <4>1, IdentityFacts DEF CallRecords
      <4>3. call[q].models > 0 => call[q].cred # None /\ call[q].models <= file'[k]
        BY <1>2, <2>2, <4>1, <4>2 DEF CatalogOK, CallRecords, ReadinessTypeOK
      <4>4. ASSUME call[q].pc \in Fetching
            PROVE  /\ call[q].seq <= identitySlot'[k].nextSequence
                   /\ call[q].config > identitySlot'[k].committedConfig
                        => call[q].seq > identitySlot'[k].committedSequence
        <5>1. k \in Identities /\ call[q].config <= configGeneration /\ call[q].config \in Nat
          BY <4>1, <4>2, <4>4 DEF KeyOK, Fetching, CallRecords
        <5>2. CASE k = i
          BY <1>2, <2>3, <4>1, <4>4, <5>1, <5>2 DEF CatalogOK
        <5>3. CASE k # i
          BY <2>3, <4>1, <4>4, <5>1, <5>3 DEF CatalogOK
        <5> QED
          BY <5>2, <5>3
      <4> QED
        BY <4>1, <4>3, <4>4 DEF CatalogOK
    <3> QED
      BY <3>1, <3>2
  <2>12. OutcomeOK(call[p])'
    <3>1. Replaced(call[p])' <=> Replaced(call[p])
      BY <1>1, <2>4, <2>7, <2>10, ReplacedKept
    <3> QED
      BY <1>2, <2>4, <2>10, <3>1 DEF OutcomeOK
  <2> QED
    BY <2>2, <2>3, <2>6, <2>7, <2>8, <2>9, <2>11, <2>12, WorkKeeps
<1>4. CASE step(p, afterLostSave(p)) /\ UNCHANGED <<file, identitySlot>>
  <2> DEFINE rec == [settled(p) EXCEPT !.pc = "wait"]
  <2>1. /\ rec \in CallRecords /\ rec.pc = "wait" /\ rec.models = call[p].models
        /\ rec.abandoned = call[p].abandoned /\ rec.seq = call[p].seq /\ rec.auth = call[p].auth
        /\ rec.cred = call[p].cred /\ rec.config = call[p].config /\ rec.gen = call[p].gen
    BY <1>2, SettledFacts DEF CallRecords, Points
  <2>2. step(p, rec)
    BY <1>4 DEF afterLostSave
  <2> HIDE DEF rec
  <2>3. Local(p, rec)
    BY <1>1, <1>2, <1>4, <2>1, <2>2 DEF Local, Works, ReadinessTypeOK, Fetching
  <2> QED
    BY <2>3, LocalKeeps
<1> QED
  BY <1>3, <1>4 DEF SaveModels, identity

(* The state that is published at the end is one of the four.              *)
LEMMA OutcomeFacts ==
    ASSUME NEW rec \in CallRecords
    PROVE  /\ outcome(rec) \in {"loading", "failed", "ready", "stale"}
           /\ ~rec.abandoned => Final(outcome(rec))
BY DEF outcome, Final

(* A call that ends publishes its state, unless it has been replaced.      *)
LEMMA FinishKeeps == ASSUME ReadinessInv, NEW p \in Calls, Finish(p) PROVE ReadinessInv'
<1> DEFINE a == call[p].auth
           i == IdentityOf[call[p].cred]
           snap == finalSnapshot(p)
<1>1. AtWork(p) /\ call[p].pc = "finish" /\ UNCHANGED <<configGeneration, identitySlot, file, metadata>>
  BY AtWorkFacts DEF Finish
<1>2. /\ ReadinessTypeOK /\ CallsOK /\ SlotsOK /\ IdentitiesOK /\ call[p] \in CallRecords
      /\ KeyOK(call[p]) /\ CatalogOK(call[p]) /\ OutcomeOK(call[p]) /\ a \in Auths /\ slot[a] \in Slots
      /\ i \in Identities /\ slot \in [Auths -> Slots]
  <2>1. ReadinessTypeOK /\ CallsOK /\ SlotsOK /\ IdentitiesOK /\ call[p] \in CallRecords /\ call[p].cred # None
    BY <1>1 DEF AtWork, ReadinessInv
  <2>2. KeyOK(call[p]) /\ CatalogOK(call[p]) /\ OutcomeOK(call[p])
    BY <2>1 DEF CallsOK
  <2>3. a \in Auths /\ i \in Identities
    BY <2>1, <2>2, IdentityFacts DEF KeyOK, CallRecords
  <2> QED
    BY <2>1, <2>2, <2>3 DEF ReadinessTypeOK
<1>3. /\ snap \in Snapshots /\ snap.state = outcome(call[p]) /\ snap.config = call[p].config
      /\ snap.gen = call[p].gen /\ snap.identity = i /\ snap.models \in {0, call[p].models}
  <2> DEFINE m == IF Executable(outcome(call[p])) THEN call[p].models ELSE 0
  <2>1. /\ m \in Nat /\ m \in {0, call[p].models} /\ call[p].config \in Nat /\ call[p].gen \in Nat
    BY <1>2 DEF CallRecords
  <2>2. snap = Snapshot(outcome(call[p]), call[p].config, call[p].gen, i, m)
    BY DEF finalSnapshot, identity
  <2>3. outcome(call[p]) \in {"not_started", "loading", "ready", "stale", "failed"}
    BY <1>2, OutcomeFacts
  <2> HIDE DEF m, snap
  <2> QED
    BY <1>2, <2>1, <2>2, <2>3 DEF Snapshot, Snapshots
<1> HIDE DEF snap
<1>4. publishes(p) <=> ~Replaced(call[p])
  BY <1>1, CurrentOrReplaced DEF publishes, AtWork
<1> DEFINE result == IF publishes(p) THEN snap ELSE snapshotForAuthID(a)
           rec == returned(call[p], result)
<1>5. result \in Snapshots
  BY <1>2, <1>3, ServedFacts
<1>6. step(p, rec)
  BY DEF Finish, snap
<1>7. slot' = IF publishes(p) THEN [slot EXCEPT ![a] = published(slot[a], snap)] ELSE slot
  BY DEF Finish, snap
<1> HIDE DEF result
<1>8. /\ rec \in CallRecords /\ rec.pc = "done" /\ rec.result = result /\ rec.models = 0 /\ rec.abandoned = FALSE
      /\ rec.auth = call[p].auth /\ rec.cred = call[p].cred /\ rec.config = call[p].config
      /\ rec.gen = call[p].gen
  BY <1>2, <1>5, ReturnedFacts
<1> HIDE DEF rec
<1>9. Works(p, rec)
  BY <1>1, <1>2, <1>6, <1>8 DEF Works, ReadinessTypeOK
<1>10. publishes(p) => /\ call[p].gen = slot[a].nextAuth /\ slot[a].config = call[p].config
                       /\ slot[a].cred = call[p].cred /\ Final(snap.state)
  BY <1>2, <1>3, <1>4, OutcomeFacts DEF publishes, authGenerationCurrent, OutcomeOK
<1>11. publishes(p) =>
         /\ slot' \in [Auths -> Slots] /\ \A b \in Auths : b # a => slot'[b] = slot[b]
         /\ slot'[a].nextAuth = slot[a].nextAuth /\ slot'[a].config = slot[a].config
         /\ slot'[a].cred = slot[a].cred /\ slot'[a].current = snap
  <2> SUFFICES ASSUME publishes(p)
               PROVE  /\ slot' \in [Auths -> Slots] /\ \A b \in Auths : b # a => slot'[b] = slot[b]
                      /\ slot'[a].nextAuth = slot[a].nextAuth /\ slot'[a].config = slot[a].config
                      /\ slot'[a].cred = slot[a].cred /\ slot'[a].current = snap
    OBVIOUS
  <2> DEFINE s == published(slot[a], snap)
  <2>1. /\ s \in Slots /\ s.nextAuth = slot[a].nextAuth /\ s.config = slot[a].config
        /\ s.cred = slot[a].cred /\ s.current = snap
    BY <1>2, <1>3, PublishFacts
  <2>2. slot' = [slot EXCEPT ![a] = s]
    BY <1>7
  <2> HIDE DEF s
  <2> QED
    BY <1>2, <2>1, <2>2
<1>12. Publishes(p)
  BY <1>2, <1>3, <1>7, <1>10, <1>11 DEF Publishes
<1>13. SlotsOK'
  <2> SUFFICES ASSUME NEW b \in Auths PROVE SlotOK(slot[b])'
    BY DEF SlotsOK
  <2>1. CASE slot'[b] = slot[b]
    BY <1>1, <1>2, <2>1 DEF SlotsOK, SlotOK
  <2>2. CASE publishes(p) /\ b = a
    <3>1. /\ slot'[b].current = snap /\ slot'[b].nextAuth = call[p].gen /\ slot'[b].config = call[p].config
          /\ snap.gen = call[p].gen /\ snap.config = call[p].config /\ call[p].gen \in Nat
          /\ snap.state # "not_started"
      BY <1>2, <1>3, <1>10, <1>11, <2>2, OutcomeFacts DEF CallRecords
    <3>2. snap.models > 0 => snap.identity \in Identities /\ snap.models <= file'[snap.identity]
      BY <1>1, <1>2, <1>3 DEF CatalogOK
    <3> QED
      BY <3>1, <3>2 DEF SlotOK
  <2> QED
    BY <1>7, <1>11, <2>1, <2>2
<1>14. IdentitiesOK'
  BY <1>1, <1>2 DEF IdentitiesOK, IdentityOK
<1>15. /\ call' \in [Calls -> CallRecords] /\ call'[p] = rec /\ \A q \in Calls : q # p => call'[q] = call[q]
  BY <1>2, <1>6, <1>8, CallMoves
<1>16. ASSUME NEW q \in Calls PROVE CatalogOK(call[q])'
  <2>1. CASE q = p
    BY <1>8, <1>15, <2>1 DEF CatalogOK, Fetching
  <2>2. CASE q # p
    BY <1>1, <1>2, <1>15, <2>2 DEF CallsOK, CatalogOK
  <2> QED
    BY <2>1, <2>2
<1>17. OutcomeOK(call[p])'
  <2>1. Replaced(call[p])' <=> Replaced(call[p])
    BY <1>1, <1>8, <1>12, <1>15, ReplacedKept
  <2>2. CASE publishes(p)
    BY <1>3, <1>8, <1>10, <1>11, <1>15, <2>2 DEF OutcomeOK, result
  <2>3. CASE ~publishes(p)
    BY <1>4, <1>8, <1>15, <2>1, <2>3 DEF OutcomeOK
  <2> QED
    BY <2>2, <2>3
<1>18. file' \in [Identities -> Nat] /\ identitySlot' \in [Identities -> IdentitySlots]
  BY <1>1, <1>2 DEF ReadinessTypeOK
<1> QED
  BY <1>9, <1>12, <1>13, <1>14, <1>16, <1>17, <1>18, WorkKeeps

-----------------------------------------------------------------------------
(* Every step keeps the invariant.                                         *)
LEMMA ReadinessStep == ReadinessInv /\ [Next]_vars => ReadinessInv'
<1> SUFFICES ASSUME ReadinessInv, [Next]_vars PROVE ReadinessInv'
  OBVIOUS
<1>1. ASSUME NEW p \in Calls, Enter(p) PROVE ReadinessInv'
  BY <1>1, EnterInvalidKeeps, EnterSettledKeeps, EnterJoinKeeps, EnterLeadKeeps DEF Enter
<1>2. ASSUME NEW p \in Calls, Work(p) PROVE ReadinessInv'
  BY <1>2, JoinKeeps, StartKeeps, LoadModelsKeeps, FetchCatalogKeeps, FetchCatalogFailsKeeps,
     SaveAbandonedKeeps, SaveOvertakenKeeps, SaveModelsKeeps, LoadSharedKeeps, WaitAndReloadKeeps,
     MetaCheckKeeps, MetaEnterKeeps, MetaWaitKeeps, MetaFetchKeeps, MetaCommitKeeps, FinishKeeps DEF Work
<1>3. ASSUME UNCHANGED vars PROVE ReadinessInv'
  BY SMTT(40), <1>3 DEF vars, ReadinessInv, ReadinessTypeOK, CallsOK, SlotsOK, IdentitiesOK, KeyOK, CatalogOK,
     OutcomeOK, JoinOK, Replaced, SlotOK, IdentityOK
<1> QED
  BY <1>1, <1>2, <1>3, ConfigKeeps, MarkKeeps DEF Next

(* It holds at the start.                                                  *)
LEMMA ReadinessStart == Init => ReadinessInv
<1> SUFFICES ASSUME Init PROVE ReadinessInv
  OBVIOUS
<1>1. /\ NotStarted(0) \in Snapshots /\ NotStarted(0).gen = 0 /\ NotStarted(0).config = 0
      /\ NotStarted(0).models = 0
  BY DEF NotStarted, Snapshot, Snapshots
<1>2. ReadinessTypeOK
  BY <1>1, FreshFacts DEF Init, ReadinessTypeOK, Slots, IdentitySlots, Sources
<1>3. CallsOK
  <2>1. \A p \in Calls : call[p] = Fresh
    BY DEF Init
  <2> QED
    BY <2>1, FreshFacts DEF CallsOK, KeyOK, CatalogOK, OutcomeOK, JoinOK, Fetching
<1>4. SlotsOK
  BY <1>1 DEF Init, SlotsOK, SlotOK
<1>5. IdentitiesOK
  BY DEF Init, IdentitiesOK, IdentityOK
<1> QED
  BY <1>2, <1>3, <1>4, <1>5 DEF ReadinessInv

(* The invariant holds in every behaviour.                                 *)
LEMMA ReadinessCorrect == Spec => []ReadinessInv
BY ReadinessStart, ReadinessStep, PTL DEF Spec

(* ServedCatalogWasSaved holds in every behaviour: no account serves a     *)
(* catalog that is not on disk, unless a later one is                      *)
(* (saveModelsForGeneration and finishAuthCall in model_readiness.go).     *)
THEOREM ServedCorrect == Spec => []ServedCatalogWasSaved
<1>1. ReadinessInv => ServedCatalogWasSaved
  BY DEF ReadinessInv, SlotsOK, SlotOK, ServedCatalogWasSaved
<1> QED
  BY <1>1, ReadinessCorrect, PTL

(* ReturnsFinalUnlessReplaced holds in every behaviour: leader, joiner and *)
(* latecomer alike return a final state, or one that a newer key has made  *)
(* void (ensureForAuth in model_readiness.go).                             *)
THEOREM ReturnsCorrect == Spec => []ReturnsFinalUnlessReplaced
<1>1. ReadinessInv => ReturnsFinalUnlessReplaced
  BY DEF ReadinessInv, CallsOK, OutcomeOK, Final, Replaced, ReturnsFinalUnlessReplaced
<1> QED
  BY <1>1, ReadinessCorrect, PTL

(* CatalogNeverRegresses holds in every behaviour: whichever of the calls  *)
(* for an identity ends last, through whichever account and under          *)
(* whichever configuration, the catalog on disk is not replaced by an      *)
(* earlier one (saveModelsForGeneration in model_readiness.go).            *)
THEOREM CatalogCorrect == Spec => CatalogNeverRegresses
<1>1. ReadinessInv /\ [Next]_vars => [\A i \in Identities : file'[i] >= file[i]]_vars
  <2> SUFFICES ASSUME ReadinessInv, Next, NEW i \in Identities PROVE file'[i] >= file[i]
    OBVIOUS
  <2>1. file \in [Identities -> Nat]
    BY DEF ReadinessInv, ReadinessTypeOK
  <2>2. CASE file' = file
    BY <2>1, <2>2
  <2>3. ASSUME NEW p \in Calls, SaveModels(p) PROVE file'[i] >= file[i]
    <3> DEFINE k == IdentityOf[call[p].cred]
    <3>1. k \in Identities /\ call[p].seq >= file[k]
      BY <2>3, SavedIsLater DEF SaveModels
    <3>2. file' = file \/ file' = [file EXCEPT ![k] = call[p].seq]
      BY <2>3 DEF SaveModels, identity
    <3> QED
      BY <2>1, <3>1, <3>2
  <2>4. (\E p \in Calls : SaveModels(p)) \/ file' = file
    <3>1. ASSUME NEW p \in Calls, Enter(p) PROVE file' = file
      BY <3>1 DEF Enter, EnterInvalid, EnterSettled, EnterJoin, EnterLead
    <3>2. ASSUME NEW p \in Calls, Work(p) PROVE SaveModels(p) \/ file' = file
      BY <3>2 DEF Work, Join, StartIdentityCall, LoadModels, FetchCatalog, FetchCatalogFails, SaveAbandoned,
         SaveOvertaken, LoadShared, WaitAndReload, MetaCheck, MetaEnter, MetaWait, MetaFetch, MetaCommit, Finish
    <3> QED
      BY <3>1, <3>2 DEF Next, CommitFeatureRuntime, MarkAuthNotStarted
  <2> QED
    BY <2>2, <2>3, <2>4
<1> QED
  BY <1>1, ReadinessCorrect, PTL DEF Spec, CatalogNeverRegresses

(* LateCallsDoNotPublish holds in every behaviour: a snapshot is replaced  *)
(* only by one of its own or a newer generation (finishAuthCall,           *)
(* ensureForAuth and markAuthNotStarted in model_readiness.go).            *)
THEOREM LateCorrect == Spec => LateCallsDoNotPublish
<1>1. ReadinessInv /\ [Next]_vars => [\A a \in Auths : slot'[a].current.gen >= slot[a].current.gen]_vars
  <2> SUFFICES ASSUME ReadinessInv, Next, NEW b \in Auths PROVE slot'[b].current.gen >= slot[b].current.gen
    OBVIOUS
  <2>1. /\ ReadinessTypeOK /\ slot \in [Auths -> Slots] /\ configGeneration \in Nat
        /\ \A a \in Auths : slot[a].current.gen \in Nat /\ slot[a].nextAuth \in Nat
                            /\ slot[a].current.gen <= slot[a].nextAuth
    BY DEF ReadinessInv, ReadinessTypeOK, SlotsOK, SlotOK, Slots, Snapshots
  <2>2. CASE slot' = slot
    BY <2>1, <2>2
  <2>3. ASSUME NEW a \in Auths, NEW cred \in Creds \union {None}, slot' = [slot EXCEPT ![a] = rekeyed(a, cred)]
        PROVE  slot'[b].current.gen >= slot[b].current.gen
    <3>1. rekeyed(a, cred).current = slot[a].current
      BY <2>1, RekeyFacts
    <3>2. slot'[a] = rekeyed(a, cred) /\ (b # a => slot'[b] = slot[b])
      BY <2>1, <2>3
    <3> QED
      BY <2>1, <3>1, <3>2
  <2>4. ASSUME NEW a \in Auths, NEW cred \in Creds \union {None}, NEW snap \in Snapshots,
               snap.gen = rekeyed(a, cred).nextAuth,
               slot' = [slot EXCEPT ![a] = published(rekeyed(a, cred), snap)]
        PROVE  slot'[b].current.gen >= slot[b].current.gen
    <3>1. /\ rekeyed(a, cred) \in Slots
          /\ rekeyed(a, cred).nextAuth = slot[a].nextAuth + 1 \/ rekeyed(a, cred) = slot[a]
      BY <2>1, RekeyFacts
    <3>2. snap.gen >= slot[a].nextAuth
      BY <2>1, <2>4, <3>1
    <3>3. published(rekeyed(a, cred), snap).current = snap /\ snap.gen \in Nat
      BY <3>1, <2>4, PublishFacts DEF Snapshots
    <3>4. slot'[a] = published(rekeyed(a, cred), snap) /\ (b # a => slot'[b] = slot[b])
      BY <2>1, <2>4
    <3> QED
      BY <2>1, <3>2, <3>3, <3>4
  <2>5. ASSUME NEW p \in Calls, NEW a \in Auths, NEW cred \in Creds, EnterInvalid(p, a, cred)
        PROVE  slot'[b].current.gen >= slot[b].current.gen
    <3> DEFINE s == rekeyed(a, None)
               snap == Snapshot("failed", configGeneration, s.nextAuth, None, 0)
    <3>1. s.nextAuth \in Nat
      BY <2>1, RekeyFacts DEF Slots
    <3>2. snap \in Snapshots /\ snap.gen = s.nextAuth
      BY <2>1, <3>1 DEF Snapshot, Snapshots
    <3>3. slot' = [slot EXCEPT ![a] = published(s, snap)]
      BY <2>5 DEF EnterInvalid
    <3> QED
      BY <3>2, <3>3, <2>4
  <2>6. ASSUME NEW p \in Calls, NEW a \in Auths, NEW cred \in Creds, EnterLead(p, a, cred)
        PROVE  slot'[b].current.gen >= slot[b].current.gen
    <3> DEFINE s == rekeyed(a, cred)
               snap == Snapshot("loading", configGeneration, s.nextAuth, IdentityOf[cred], 0)
    <3>1. s.nextAuth \in Nat /\ IdentityOf[cred] \in Identities
      BY <2>1, <2>6, RekeyFacts, IdentityFacts DEF Slots, EnterLead
    <3>2. snap \in Snapshots /\ snap.gen = s.nextAuth
      BY <2>1, <3>1 DEF Snapshot, Snapshots
    <3>3. slot' = [slot EXCEPT ![a] = published(s, snap)]
      BY <2>6 DEF EnterLead
    <3> QED
      BY <3>2, <3>3, <2>4
  <2>7. ASSUME NEW a \in Auths, MarkAuthNotStarted(a) PROVE slot'[b].current.gen >= slot[b].current.gen
    <3> DEFINE s == rekeyed(a, None)
               snap == Snapshot("not_started", configGeneration, s.nextAuth, None, 0)
    <3>1. s.nextAuth \in Nat
      BY <2>1, RekeyFacts DEF Slots
    <3>2. snap \in Snapshots /\ snap.gen = s.nextAuth
      BY <2>1, <3>1 DEF Snapshot, Snapshots
    <3>3. slot' = [slot EXCEPT ![a] = published(s, snap)]
      BY <2>7 DEF MarkAuthNotStarted
    <3> QED
      BY <3>2, <3>3, <2>4
  <2>8. ASSUME NEW p \in Calls, Finish(p) PROVE slot'[b].current.gen >= slot[b].current.gen
    <3> DEFINE a == call[p].auth
               snap == finalSnapshot(p)
    <3>1. CASE publishes(p)
      <4>1. slot' = [slot EXCEPT ![a] = published(slot[a], snap)] /\ slot[a].nextAuth = call[p].gen
        BY <2>8, <3>1 DEF Finish, publishes, authGenerationCurrent
      <4>2. a \in Auths
        BY <2>8 DEF Finish, ReadinessInv, CallsOK, KeyOK
      <4>3. snap.gen = call[p].gen
        BY DEF finalSnapshot, Snapshot
      <4>4. published(slot[a], snap).current = snap
        BY <2>1, <4>2 DEF published, Slots
      <4>5. slot'[a] = published(slot[a], snap) /\ (b # a => slot'[b] = slot[b])
        BY <2>1, <4>1, <4>2
      <4> QED
        BY <2>1, <4>1, <4>3, <4>4, <4>5
    <3>2. CASE ~publishes(p)
      BY <2>2, <2>8, <3>2 DEF Finish
    <3> QED
      BY <3>1, <3>2
  <2>9. ASSUME NEW p \in Calls, Work(p) PROVE Finish(p) \/ slot' = slot
    BY <2>9 DEF Work, Join, StartIdentityCall, LoadModels, FetchCatalog, FetchCatalogFails, SaveAbandoned,
       SaveOvertaken, SaveModels, LoadShared, WaitAndReload, MetaCheck, MetaEnter, MetaWait, MetaFetch, MetaCommit
  <2>10. ASSUME NEW p \in Calls, NEW a \in Auths, NEW cred \in Creds,
                EnterSettled(p, a, cred) \/ EnterJoin(p, a, cred)
         PROVE  slot'[b].current.gen >= slot[b].current.gen
    <3>1. slot' = [slot EXCEPT ![a] = rekeyed(a, cred)]
      BY <2>10 DEF EnterSettled, EnterJoin
    <3> QED
      BY <2>3, <3>1
  <2>11. CASE CommitFeatureRuntime
    BY <2>2, <2>11 DEF CommitFeatureRuntime
  <2> QED
    BY <2>2, <2>5, <2>6, <2>7, <2>8, <2>9, <2>10, <2>11 DEF Next, Enter
<1> QED
  BY <1>1, ReadinessCorrect, PTL DEF Spec, LateCallsDoNotPublish

=============================================================================
