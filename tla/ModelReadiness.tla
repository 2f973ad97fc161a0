--------------------------- MODULE ModelReadiness ---------------------------
(***************************************************************************)
(* The bootstrap of an account's model catalog (plugin/model_readiness.go):*)
(* model.for_auth calls ensureForAuth, which fetches the catalog of the    *)
(* account's identity and the global models.dev metadata, saves both, and  *)
(* publishes an immutable snapshot that the executor, the scheduler and    *)
(* the panel read without waiting.                                         *)
(*                                                                         *)
(* Calls run concurrently.  Between two of a call's steps the operator may *)
(* commit a configuration, the host may refresh or replace the credential, *)
(* and other calls of the same account, of other accounts of the same      *)
(* identity, and of unrelated ones, may take theirs.  A step is a critical *)
(* section of the code (configCommitMu, then the slot's mutex, then the    *)
(* identity's or the metadata's), a wait on a channel, or one file or      *)
(* network operation.  A member of Calls makes one call: a channel once    *)
(* closed stays closed.                                                    *)
(*                                                                         *)
(* A catalog is identified by the sequence number of the identity call     *)
(* that fetched it; 0 is no catalog.  Error codes, time stamps and what    *)
(* the metadata adds to a model are left out.                              *)
(***************************************************************************)
EXTENDS Integers, FiniteSets

CONSTANTS
    Calls, Auths,
    Creds,           \* stored credentials; a token refresh makes a new one
    BadCreds,        \* the ones that do not parse or name no realm
    IdentityOf,      \* Creds \ BadCreds -> Identities (provider, realm, uid...)
    Identities,
    StoreAvailable,  \* storeError = ""
    SaveOutcomes,    \* "saved", and "lost" if writing a cache may fail
    MaxConfig,       \* bound on reconfigurations
    MaxMarks         \* bound on markAuthNotStarted

None == "none"

ASSUME ReadinessAssumption ==
    /\ BadCreds \subseteq Creds
    /\ IdentityOf \in [Creds \ BadCreds -> Identities]
    /\ StoreAvailable \in BOOLEAN /\ SaveOutcomes \subseteq {"saved", "lost"}
    /\ MaxConfig \in Nat /\ MaxMarks \in Nat
    /\ None \notin Creds /\ None \notin Calls /\ None \notin Auths

VARIABLES
    configGeneration,
    configured,      \* the configuration lists its own models
    slot,            \* per account: key, nextAuth and the published snapshot
    identitySlot,    \* per identity: nextSequence, committed{Config,Sequence}
    file,            \* per identity: the catalog that loadModels returns
    metadata,        \* metadataCall, metadataCache, metadataResult
    call,            \* per call: program counter and locals
    marks

vars == <<configGeneration, configured, slot, identitySlot, file, metadata,
          call, marks>>

Executable(state) == state \in {"ready", "stale"}

Snapshot(state, config, gen, identity, models) ==
    [state |-> state, config |-> config, gen |-> gen, identity |-> identity,
     models |-> models]

NotStarted(config) == Snapshot("not_started", config, 0, None, 0)

(* Locals of a call: the key it works for, its sequence number, the catalog *)
(* it has chosen and where from, the metadata's source, what it waits for,  *)
(* whether its identity call is settled and its metadata flight flying.     *)
Fresh == [pc |-> "start", auth |-> None, cred |-> None, config |-> 0,
          gen |-> 0, seq |-> 0, source |-> "none", models |-> 0,
          metaSource |-> "none", abandoned |-> FALSE, waits |-> {},
          settled |-> FALSE, flight |-> "none", result |-> NotStarted(0)]

Init ==
    /\ configGeneration = 0 /\ configured \in BOOLEAN
    /\ slot = [a \in Auths |->
                [config |-> 0, cred |-> None, nextAuth |-> 0,
                 current |-> NotStarted(0)]]
    /\ identitySlot = [i \in Identities |->
                [nextSequence |-> 0, committedConfig |-> 0,
                 committedSequence |-> 0]]
    /\ file = [i \in Identities |-> 0]
    /\ metadata \in [flight : {None}, cached : BOOLEAN, source : {"none"}]
    /\ call = [p \in Calls |-> Fresh]
    /\ marks = 0

identity(p) == IdentityOf[call[p].cred]

authGenerationCurrent(p) ==
    /\ slot[call[p].auth].nextAuth = call[p].gen
    /\ slot[call[p].auth].config = call[p].config
    /\ slot[call[p].auth].cred = call[p].cred
    /\ configGeneration = call[p].config

(* snapshotForAuthID: a snapshot of an older configuration is not served.   *)
snapshotForAuthID(a) ==
    IF slot[a].current.config = configGeneration THEN slot[a].current
    ELSE NotStarted(configGeneration)

leads(p, a, gen) ==
    call[p].auth = a /\ call[p].gen = gen /\ call[p].pc \notin {"join", "done"}

step(p, rec) == call' = [call EXCEPT ![p] = rec]

(* The call has returned; its channels outlive its other locals.            *)
returned(rec, result) ==
    [rec EXCEPT !.pc = "done", !.seq = 0, !.source = "none", !.models = 0,
                !.abandoned = FALSE, !.waits = {}, !.result = result]

-----------------------------------------------------------------------------
(* Entering ensureForAuth.                                                  *)

(* The slot after a request for this key: a new key is a new generation.    *)
rekeyed(a, cred) ==
    IF slot[a].config = configGeneration /\ slot[a].cred = cred
    THEN slot[a]
    ELSE [slot[a] EXCEPT !.config = configGeneration, !.cred = cred,
                         !.nextAuth = @ + 1]

published(s, snapshot) == [s EXCEPT !.current = snapshot]

(* A credential that cannot be used fails the account at once.              *)
EnterInvalid(p, a, cred) ==
    LET s    == rekeyed(a, None)
        snap == Snapshot("failed", configGeneration, s.nextAuth, None, 0)
    IN  /\ call[p].pc = "start" /\ cred \in BadCreds
        /\ slot' = [slot EXCEPT ![a] = published(s, snap)]
        /\ step(p, [Fresh EXCEPT !.pc = "done", !.auth = a, !.result = snap])
        /\ UNCHANGED <<configGeneration, configured, identitySlot, file,
                       metadata, marks>>

(* The generation is settled already.                                       *)
EnterSettled(p, a, cred) ==
    LET s == rekeyed(a, cred)
    IN  /\ call[p].pc = "start" /\ cred \notin BadCreds
        /\ s.current.gen = s.nextAuth /\ s.current.state /= "loading"
        /\ step(p, [Fresh EXCEPT !.pc = "done", !.auth = a, !.cred = cred,
                                 !.config = s.config, !.gen = s.nextAuth,
                                 !.result = s.current])
        /\ slot' = [slot EXCEPT ![a] = s]
        /\ UNCHANGED <<configGeneration, configured, identitySlot, file,
                       metadata, marks>>

(* Mutant: the caller does not wait for the flight it found. *)
joiningAtOnce(p, a, s, q) ==
    [Fresh EXCEPT !.pc = "done", !.auth = a, !.cred = s.cred,
                  !.config = s.config, !.gen = s.nextAuth,
                  !.result = s.current]

joining(p, a, s, q) ==
    [Fresh EXCEPT !.pc = "join", !.auth = a, !.cred = s.cred,
                  !.config = s.config, !.gen = s.nextAuth, !.waits = {q}]

(* Another call is loading this generation.                                 *)
EnterJoin(p, a, cred) ==
    LET s == rekeyed(a, cred)
    IN  /\ call[p].pc = "start" /\ cred \notin BadCreds
        /\ s.current.gen /= s.nextAuth \/ s.current.state = "loading"
        /\ \E q \in Calls :
             /\ leads(q, a, s.nextAuth)
             /\ step(p, joining(p, a, s, q))
        /\ slot' = [slot EXCEPT ![a] = s]
        /\ UNCHANGED <<configGeneration, configured, identitySlot, file,
                       metadata, marks>>

(* This call leads: it publishes `loading` and goes to work.                *)
EnterLead(p, a, cred) ==
    LET s == rekeyed(a, cred)
    IN  /\ call[p].pc = "start" /\ cred \notin BadCreds
        /\ s.current.gen /= s.nextAuth \/ s.current.state = "loading"
        /\ \A q \in Calls : ~leads(q, a, s.nextAuth)
        /\ slot' = [slot EXCEPT ![a] =
             published(s, Snapshot("loading", configGeneration, s.nextAuth,
                                   IdentityOf[cred], 0))]
        /\ step(p, [Fresh EXCEPT
             !.auth = a, !.cred = cred, !.config = configGeneration,
             !.gen = s.nextAuth,
             !.source = IF configured THEN "config" ELSE "none",
             !.pc = IF ~StoreAvailable THEN "finish"
                    ELSE IF configured THEN "metaCheck" ELSE "begin"])
        /\ UNCHANGED <<configGeneration, configured, identitySlot, file,
                       metadata, marks>>

Join(p) ==
    /\ call[p].pc = "join"
    /\ \A q \in call[p].waits : call[q].pc = "done"
    /\ step(p, returned(call[p], snapshotForAuthID(call[p].auth)))
    /\ UNCHANGED <<configGeneration, configured, slot, identitySlot, file,
                   metadata, marks>>

-----------------------------------------------------------------------------
(* The catalog of the identity.                                             *)

(* The identity calls that have started and not settled.                    *)
active(i) ==
    {q \in Calls : /\ call[q].pc \in {"load", "fetch", "save"}
                   /\ identity(q) = i /\ ~call[q].settled}

StartIdentityCall(p) ==
    LET seq == identitySlot[identity(p)].nextSequence + 1
    IN  /\ call[p].pc = "begin"
        /\ identitySlot' = [identitySlot EXCEPT
                              ![identity(p)].nextSequence = seq]
        /\ step(p, [call[p] EXCEPT !.pc = "load", !.seq = seq])
        /\ UNCHANGED <<configGeneration, configured, slot, file, metadata,
                       marks>>

(* loadModels finds what the file holds, or the file cannot be read.        *)
loadable(i) == {file[i], 0}

cachedChoice(rec, found) ==
    [rec EXCEPT !.models = found,
                !.source = IF found > 0 THEN "cache" ELSE "none"]

LoadModels(p) ==
    /\ call[p].pc = "load"
    /\ \E found \in loadable(identity(p)) :
         step(p, [cachedChoice(call[p], found) EXCEPT !.pc = "fetch"])
    /\ UNCHANGED <<configGeneration, configured, slot, identitySlot, file,
                   metadata, marks>>

FetchCatalog(p) ==
    /\ call[p].pc = "fetch"
    /\ step(p, [call[p] EXCEPT !.pc = "save"])
    /\ UNCHANGED <<configGeneration, configured, slot, identitySlot, file,
                   metadata, marks>>

(* Mutant: the call leaves the active ones and its channel stays open. *)
settledUnclosed(p) == [call[p] EXCEPT !.waits = active(identity(p)) \ {p}]

(* settleIdentityCallLocked: the channel is closed first, then the caller   *)
(* waits for the calls that were active beside it.                          *)
settled(p) == [call[p] EXCEPT !.settled = TRUE,
                              !.waits = active(identity(p)) \ {p}]

FetchCatalogFails(p) ==
    /\ call[p].pc = "fetch"
    /\ step(p, [settled(p) EXCEPT !.pc = "wait"])
    /\ UNCHANGED <<configGeneration, configured, slot, identitySlot, file,
                   metadata, marks>>

(* Mutant: a call that started earlier still saves. *)
overtakenNever(p) == FALSE

(* A call of this configuration that started later has saved.               *)
overtaken(p) ==
    LET i == identitySlot[identity(p)]
    IN  i.committedConfig = call[p].config
        /\ call[p].seq < i.committedSequence

(* Mutant: what could not be saved is published all the same. *)
afterLostSaveFresh(p) ==
    [settled(p) EXCEPT !.pc = "metaCheck", !.source = "fresh",
                       !.models = call[p].seq]

(* The save failed: fall back on what the file holds once the others are    *)
(* through.                                                                 *)
afterLostSave(p) == [settled(p) EXCEPT !.pc = "wait"]

(* saveModelsForGeneration, under all three locks.                          *)
SaveAbandoned(p) ==
    /\ call[p].pc = "save" /\ ~authGenerationCurrent(p)
    /\ step(p, [settled(p) EXCEPT !.pc = "finish", !.abandoned = TRUE])
    /\ UNCHANGED <<configGeneration, configured, slot, identitySlot, file,
                   metadata, marks>>

SaveOvertaken(p) ==
    /\ call[p].pc = "save" /\ authGenerationCurrent(p) /\ overtaken(p)
    /\ step(p, [settled(p) EXCEPT !.pc = "shared"])
    /\ UNCHANGED <<configGeneration, configured, slot, identitySlot, file,
                   metadata, marks>>

SaveModels(p) ==
    /\ call[p].pc = "save" /\ authGenerationCurrent(p) /\ ~overtaken(p)
    /\ \/ /\ "saved" \in SaveOutcomes
          /\ file' = [file EXCEPT ![identity(p)] = call[p].seq]
          /\ identitySlot' = [identitySlot EXCEPT ![identity(p)] =
                [identitySlot[identity(p)] EXCEPT !.committedConfig = call[p].config,
                                                  !.committedSequence = call[p].seq]]
          /\ step(p, [settled(p) EXCEPT !.pc = "metaCheck",
                        !.source = "fresh", !.models = call[p].seq])
       \/ /\ "lost" \in SaveOutcomes
          /\ step(p, afterLostSave(p))
          /\ UNCHANGED <<file, identitySlot>>
    /\ UNCHANGED <<configGeneration, configured, slot, metadata, marks>>

(* The overtaken call serves what the later one saved.                      *)
LoadShared(p) ==
    /\ call[p].pc = "shared"
    /\ \E found \in loadable(identity(p)) :
         step(p, IF found > 0
                 THEN [call[p] EXCEPT !.pc = "metaCheck", !.source = "fresh",
                                      !.models = found]
                 ELSE [call[p] EXCEPT !.pc = "metaCheck"])
    /\ UNCHANGED <<configGeneration, configured, slot, identitySlot, file,
                   metadata, marks>>

WaitAndReload(p) ==
    /\ call[p].pc = "wait"
    /\ \A q \in call[p].waits : call[q].settled
    /\ \E found \in loadable(identity(p)) :
         step(p, [cachedChoice(call[p], found) EXCEPT !.pc = "metaCheck"])
    /\ UNCHANGED <<configGeneration, configured, slot, identitySlot, file,
                   metadata, marks>>

-----------------------------------------------------------------------------
(* metadataForAuth: one models.dev flight for the whole process.            *)

MetaCheck(p) ==
    /\ call[p].pc = "metaCheck"
    /\ step(p, [call[p] EXCEPT
                  !.pc = IF authGenerationCurrent(p) THEN "metaEnter"
                         ELSE "finish"])
    /\ UNCHANGED <<configGeneration, configured, slot, identitySlot, file,
                   metadata, marks>>

MetaEnter(p) ==
    /\ call[p].pc = "metaEnter"
    /\ \/ /\ metadata.source /= "none"
          /\ step(p, [call[p] EXCEPT !.pc = "finish",
                                     !.metaSource = metadata.source])
          /\ UNCHANGED metadata
       \/ /\ metadata.source = "none" /\ metadata.flight /= None
          /\ step(p, [call[p] EXCEPT !.pc = "metaWait",
                                     !.waits = {metadata.flight}])
          /\ UNCHANGED metadata
       \/ /\ metadata.source = "none" /\ metadata.flight = None
          /\ metadata' = [metadata EXCEPT !.flight = p]
          /\ step(p, [call[p] EXCEPT !.pc = "metaFetch", !.flight = "flying"])
    /\ UNCHANGED <<configGeneration, configured, slot, identitySlot, file,
                   marks>>

MetaWait(p) ==
    /\ call[p].pc = "metaWait"
    /\ \E q \in call[p].waits :
         /\ call[q].flight /= "flying"
         /\ step(p, IF call[q].flight = "committed"
                    THEN [call[p] EXCEPT !.pc = "finish",
                                         !.metaSource = call[q].metaSource]
                    ELSE [call[p] EXCEPT !.pc = "metaCheck"])
    /\ UNCHANGED <<configGeneration, configured, slot, identitySlot, file,
                   metadata, marks>>

(* The answer: new records, "not modified" or a failure.                    *)
MetaFetch(p) ==
    /\ call[p].pc = "metaFetch"
    /\ \E pc \in {"metaNew", "metaSame", "metaFailed"} :
         step(p, [call[p] EXCEPT !.pc = pc])
    /\ UNCHANGED <<configGeneration, configured, slot, identitySlot, file,
                   metadata, marks>>

(* selectMetadata for each answer, given whether a save succeeds.           *)
selectedMetadata(pc, saved) ==
    IF (pc = "metaNew" /\ saved) \/ (pc = "metaSame" /\ metadata.cached)
    THEN "fresh"
    ELSE IF metadata.cached THEN "cache" ELSE "none"

MetaCommit(p) ==
    /\ call[p].pc \in {"metaNew", "metaSame", "metaFailed"}
    /\ IF authGenerationCurrent(p)
       THEN \E outcome \in SaveOutcomes :
              LET source == selectedMetadata(call[p].pc, outcome = "saved")
              IN  /\ step(p, [call[p] EXCEPT !.pc = "finish",
                                !.metaSource = source, !.flight = "committed"])
                  /\ metadata' = [flight |-> None, source |-> source,
                                  cached |-> metadata.cached \/ source /= "none"]
       ELSE /\ step(p, [call[p] EXCEPT !.pc = "finish", !.flight = "dropped"])
            /\ metadata' = [metadata EXCEPT !.flight = None]
    /\ UNCHANGED <<configGeneration, configured, slot, identitySlot, file,
                   marks>>

-----------------------------------------------------------------------------
(* The state that a finished call reports.                                  *)
outcome(rec) ==
    IF rec.abandoned THEN "loading"
    ELSE IF ~StoreAvailable \/ rec.source = "none" \/ rec.metaSource = "none"
         THEN "failed"
    ELSE IF rec.source \in {"fresh", "config"} /\ rec.metaSource = "fresh"
         THEN "ready"
    ELSE "stale"

finalSnapshot(p) ==
    Snapshot(outcome(call[p]), call[p].config, call[p].gen, identity(p),
             IF Executable(outcome(call[p])) THEN call[p].models ELSE 0)

(* Mutant: whoever finishes publishes. *)
publishesAlways(p) == TRUE

publishes(p) == authGenerationCurrent(p)

(* finishAuthCall.                                                          *)
Finish(p) ==
    LET a == call[p].auth
    IN  /\ call[p].pc = "finish"
        /\ slot' = IF publishes(p)
                   THEN [slot EXCEPT ![a] = published(slot[a], finalSnapshot(p))]
                   ELSE slot
        /\ step(p, returned(call[p], IF publishes(p) THEN finalSnapshot(p)
                                     ELSE snapshotForAuthID(a)))
        /\ UNCHANGED <<configGeneration, configured, identitySlot, file,
                       metadata, marks>>

-----------------------------------------------------------------------------
(* The plugin is reconfigured.                                              *)
CommitFeatureRuntime ==
    /\ configGeneration < MaxConfig
    /\ configGeneration' = configGeneration + 1
    /\ configured' \in BOOLEAN
    /\ UNCHANGED <<slot, identitySlot, file, metadata, call, marks>>

(* The host's token refresh resets the account.                             *)
MarkAuthNotStarted(a) ==
    LET s == rekeyed(a, None)
    IN  /\ marks < MaxMarks
        /\ marks' = marks + 1
        /\ slot' = [slot EXCEPT ![a] = published(s,
             Snapshot("not_started", configGeneration, s.nextAuth, None, 0))]
        /\ UNCHANGED <<configGeneration, configured, identitySlot, file,
                       metadata, call>>

Enter(p) ==
    \E a \in Auths, cred \in Creds :
        \/ EnterInvalid(p, a, cred) \/ EnterSettled(p, a, cred)
        \/ EnterJoin(p, a, cred)    \/ EnterLead(p, a, cred)

Work(p) ==
    \/ Join(p) \/ StartIdentityCall(p) \/ LoadModels(p)
    \/ FetchCatalog(p) \/ FetchCatalogFails(p)
    \/ SaveAbandoned(p) \/ SaveOvertaken(p) \/ SaveModels(p)
    \/ LoadShared(p) \/ WaitAndReload(p)
    \/ MetaCheck(p) \/ MetaEnter(p) \/ MetaWait(p) \/ MetaFetch(p)
    \/ MetaCommit(p) \/ Finish(p)

Next ==
    \/ \E p \in Calls : Enter(p) \/ Work(p)
    \/ CommitFeatureRuntime
    \/ \E a \in Auths : MarkAuthNotStarted(a)

(* A goroutine that can go on does, and a fetch ends one way or the other:  *)
(* every request has a timeout.                                             *)
Spec == Init /\ [][Next]_vars /\ \A p \in Calls : WF_vars(Work(p))
-----------------------------------------------------------------------------
(* Properties.                                                              *)

(* docs/architecture.md: fresh data is never published if persistence       *)
(* fails.  A catalog that an account serves is on disk, or a later one is.  *)
ServedCatalogWasSaved ==
    \A a \in Auths :
        LET s == slot[a].current
        IN  s.models > 0 => s.models <= file[s.identity]

(* ensureForAuth comes back with a final state of its own generation; it    *)
(* answers `loading` or `not_started` only if its key has been replaced.    *)
ReturnsFinalUnlessReplaced ==
    \A p \in Calls :
        call[p].pc = "done" /\ call[p].result.state \in {"loading", "not_started"}
            => \/ slot[call[p].auth].nextAuth > call[p].gen
               \/ configGeneration > call[p].config

(* The generation gate: a call that a newer generation has overtaken does   *)
(* not publish over it.                                                     *)
LateCallsDoNotPublish ==
    [][\A a \in Auths : slot'[a].current.gen >= slot[a].current.gen]_vars

(* Calls for one identity finish in any order; the catalog on disk is never *)
(* replaced by one whose fetch began earlier, through whichever account and *)
(* under whichever configuration.                                           *)
CatalogNeverRegresses ==
    [][\A i \in Identities : file'[i] >= file[i]]_vars

(* Nobody waits for ever: neither a joiner for its leader, nor a failed     *)
(* fetch for the others of its identity, nor anyone for the metadata.  A    *)
(* call enters once, so one that has started is in the end done for good.   *)
CallsReturn ==
    \A p \in Calls : <>[](call[p].pc \in {"start", "done"})
=============================================================================
