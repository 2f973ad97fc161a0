------------------------------ MODULE AuthFile ------------------------------
(***************************************************************************)
(* The credential file of one account and everything in the plugin that    *)
(* rewrites it: the credit lifecycle (lifecycle.go, policy.go), the daily  *)
(* token refresh (keepalive.go), the check-in (checkin.go), the panel's    *)
(* notes and its toggle (panel.go, panel_extra.go), through the host's     *)
(* host.auth.get and host.auth.save (authfile.go).                         *)
(*                                                                         *)
(* A per-account mutex (checkinLockFor) covers each rewrite, but what is   *)
(* written was largely read before it was taken: a job reads the file,     *)
(* asks the billing API, decides, and only then locks.  A job is therefore *)
(* a process whose steps are its calls to the host and upstream.           *)
(*                                                                         *)
(* Abstractions.  A credential is the number of refreshes that made it.  A *)
(* balance is "some", "none" (known to be exhausted), "empty" (no package, *)
(* which decides nothing) or "unknown" (the lookup failed).  A note stands *)
(* for the kind of balance it shows; notes that the code tells apart by    *)
(* their numbers or by the mark of the manual shelf are told apart here by *)
(* Forget, which may come at any time.  The manual shelf itself is a bit   *)
(* of the pool (SetManualDisabled of module Account).                      *)
(***************************************************************************)
EXTENDS Naturals, FiniteSets

CONSTANTS
    Workers,         \* the jobs that may run at the same time
    JobsOf,          \* per worker: the kinds of job it starts
    Regions,         \* the regions an account may be of
    Happenings,      \* what may happen outside: "spend" "die" "login"
    MaxCred,         \* bound on the refreshes
    MaxGlitches      \* bound on the failures of the host and of upstream

Jobs == {"tick", "executor", "keepalive", "dashboard", "toggle", "checkin"}
None == "none"

ASSUME AuthFileAssumption ==
    /\ JobsOf \in [Workers -> SUBSET Jobs] /\ None \notin Workers
    /\ Regions \subseteq {"cn", "global"}
    /\ Happenings \subseteq {"spend", "die", "login"}
    /\ MaxCred \in Nat /\ MaxGlitches \in Nat

Balances == {"some", "none", "empty", "unknown"}

VARIABLES
    region,          \* accountRegion, fixed
    file,            \* the credential file
    lock,            \* the holder of checkinLockFor, or None
    lifecycleState,  \* what was last saved, to throttle saves
    worker,          \* per worker: its program counter and locals
    credits, live,   \* upstream: the balance, and the offline session
    glitches,        \* the failures that are still to come
    \* History.
    spent,           \* the account was out of credits at some time
    foundDead        \* since the last login a refresh found the session dead

shared == <<file, lock, lifecycleState>>
upstream == <<credits, live, spent>>
authVars == <<region, shared, worker, upstream, glitches, foundDead>>

Unsaved == [fresh |-> FALSE, disabled |-> FALSE, note |-> "unknown"]

Idle == [pc |-> "idle", cred |-> 0, disabled |-> FALSE,
         credits |-> "unknown", read |-> TRUE]

AuthInit ==
    /\ region \in Regions
    /\ file = [exists |-> TRUE, cred |-> 0, disabled |-> FALSE]
    /\ lock = None /\ lifecycleState = Unsaved
    /\ worker = [w \in Workers |-> Idle]
    /\ credits = "some" /\ live = TRUE /\ glitches = MaxGlitches
    /\ spent = FALSE /\ foundDead = FALSE

-----------------------------------------------------------------------------
(* The policy and the throttle of saves.                                    *)

lifecycleStateUnchanged(dis, note) ==
    /\ lifecycleState.fresh
    /\ lifecycleState.disabled = dis /\ lifecycleState.note = note

rememberLifecycleState(dis, note) ==
    lifecycleState' = [fresh |-> TRUE, disabled |-> dis, note |-> note]

shouldReenableCN(dis, cr) == dis /\ cr = "some"

(* Mutant: the first answer is enough to delete. *)
lifecycleActionForAtOnce(reg, cr) ==
    IF cr /= "none" THEN "noteCheck"
    ELSE IF reg = "global" THEN "delete" ELSE "disable"

(* The step that the policy asks for next; a delete is confirmed first.     *)
lifecycleActionFor(reg, cr) ==
    IF cr /= "none" THEN "noteCheck"
    ELSE IF reg = "global" THEN "confirm" ELSE "disable"

(* Mutant: a disabled account is skipped, with its note kept fresh. *)
decisionNoReturn(dis, cr) ==
    IF cr = "unknown" THEN "idle"
    ELSE IF region = "cn" /\ dis THEN "noteCheck"
         ELSE lifecycleActionFor(region, cr)

(* What reconcileOneAccount does once it knows the balance.                 *)
decision(dis, cr) ==
    IF cr = "unknown" THEN "idle"
    ELSE IF region = "cn" /\ dis
         THEN IF shouldReenableCN(dis, cr) THEN "reenable" ELSE "noteCheck"
         ELSE lifecycleActionFor(region, cr)

-----------------------------------------------------------------------------
(* Calls that may fail.                                                     *)

At(w, pc) == worker[w].pc = pc
Goes(w, rec) == worker' = [worker EXCEPT ![w] = rec]
Step(w, pc) == [worker[w] EXCEPT !.pc = pc]

Fails == glitches > 0 /\ glitches' = glitches - 1
Works == UNCHANGED glitches

(* host.auth.get: it also fails when there is no file.                      *)
hostAuthGetFails == \/ ~file.exists /\ Works
                    \/ file.exists /\ Fails
hostAuthGetWorks == file.exists /\ Works

(* A lookup of the balance answers with cr.  Without a session it fails; a  *)
(* failure of upstream may also look like an empty or exhausted account.    *)
billing(cr) ==
    \/ live /\ cr = credits /\ Works
    \/ ~live /\ cr = "unknown" /\ Works
    \/ live /\ cr \in {"unknown", "empty", "none"} \ {credits} /\ Fails

-----------------------------------------------------------------------------
(* Rewriting the file: a lock section of two steps, between which the host  *)
(* may rewrite the file too.                                                *)

(* disableAuth, reenableAuth, syncAuthNote: nothing to do if the same was   *)
(* saved a moment ago.                                                      *)
enterUnlessSaved(w, rec) ==
    IF lifecycleStateUnchanged(rec.disabled, rec.credits)
    THEN Goes(w, Idle) /\ UNCHANGED lock
    ELSE Goes(w, rec) /\ lock' = w

(* buildAuthFileJSONPreserving and hostAuthPersistMigrate: the credential   *)
(* is the job's own, read before the section.                               *)
saveAndRemember(w) ==
    /\ lock' = None /\ Goes(w, Idle)
    /\ \/ /\ Works
          /\ file' = [exists |-> TRUE, cred |-> worker[w].cred,
                      disabled |-> worker[w].disabled]
          /\ rememberLifecycleState(worker[w].disabled, worker[w].credits)
       \/ Fails /\ UNCHANGED <<file, lifecycleState>>
    /\ UNCHANGED <<region, upstream, foundDead>>

disableAuth(w) ==
    /\ At(w, "disable") /\ lock = None
    /\ enterUnlessSaved(w, [Step(w, "saveDisabled") EXCEPT !.disabled = TRUE])
    /\ UNCHANGED <<region, file, lifecycleState, upstream,
                   glitches, foundDead>>

saveDisabled(w) == At(w, "saveDisabled") /\ saveAndRemember(w)

reenableAuth(w) ==
    /\ At(w, "reenable") /\ lock = None
    /\ enterUnlessSaved(w, [Step(w, "saveEnabled") EXCEPT !.disabled = FALSE])
    /\ UNCHANGED <<region, file, lifecycleState, upstream,
                   glitches, foundDead>>

saveEnabled(w) == At(w, "saveEnabled") /\ saveAndRemember(w)

(* syncAuthNote, before the lock: the disabled bit is the one the job read. *)
syncAuthNote(w) ==
    /\ At(w, "noteCheck")
    /\ Goes(w, IF lifecycleStateUnchanged(worker[w].disabled, worker[w].credits)
               THEN Idle ELSE Step(w, "note"))
    /\ UNCHANGED <<region, shared, upstream, glitches, foundDead>>

(* Mutant: the bit that was read before the lock is written back. *)
bitToKeepStale(w) == worker[w].disabled

bitToKeep(w) == file.disabled

(* syncAuthNote, under the lock: the bit is read again, if that works.      *)
syncAuthNoteLocked(w) ==
    /\ At(w, "note") /\ lock = None
    /\ \/ /\ hostAuthGetWorks
          /\ enterUnlessSaved(w, [Step(w, "saveNote") EXCEPT
                                    !.disabled = bitToKeep(w)])
       \/ /\ hostAuthGetFails
          /\ enterUnlessSaved(w, [Step(w, "saveNote") EXCEPT !.read = FALSE])
    /\ UNCHANGED <<region, file, lifecycleState, upstream, foundDead>>

saveNote(w) == At(w, "saveNote") /\ saveAndRemember(w)

deleteAuth(w) ==
    /\ At(w, "delete") /\ lock = None
    /\ \/ hostAuthGetWorks /\ Goes(w, Step(w, "remove")) /\ lock' = w
       \/ hostAuthGetFails /\ Goes(w, Idle) /\ UNCHANGED lock
    /\ UNCHANGED <<region, file, lifecycleState, upstream,
                   foundDead>>

(* The file goes, unless its removal fails; a host that gives no path has   *)
(* it disabled instead.                                                     *)
remove(w) ==
    /\ At(w, "remove")
    /\ \/ /\ \/ Works /\ file' = [file EXCEPT !.exists = FALSE] /\ lifecycleState' = Unsaved
             \/ Fails /\ UNCHANGED <<file, lifecycleState>>
          /\ lock' = None /\ Goes(w, Idle)
          /\ UNCHANGED <<region, upstream, foundDead>>
       \/ /\ Goes(w, [Step(w, "saveDisabled") EXCEPT
                        !.disabled = TRUE, !.credits = "unknown"])
          /\ Works
          /\ UNCHANGED <<region, shared, upstream, foundDead>>

(* handleAccountToggle: beside the pool's bit, the note is rewritten with   *)
(* the disabled bit as the handler read it before the lock.                 *)
handleAccountToggle(w) ==
    /\ "toggle" \in JobsOf[w] /\ At(w, "idle") /\ file.exists
    /\ Goes(w, [Step(w, "toggleRead") EXCEPT !.cred = file.cred])
    /\ UNCHANGED <<region, shared, upstream, glitches, foundDead>>

toggleRead(w) ==
    /\ At(w, "toggleRead")
    /\ \/ /\ hostAuthGetWorks
          /\ Goes(w, [Step(w, "toggle") EXCEPT !.disabled = file.disabled])
       \/ /\ hostAuthGetFails
          /\ Goes(w, [Step(w, "toggle") EXCEPT !.disabled = FALSE])
    /\ UNCHANGED <<region, shared, upstream, foundDead>>

writeAuthDisabled(w) ==
    /\ At(w, "toggle") /\ lock = None
    /\ lock' = w /\ Goes(w, Step(w, "saveToggle"))
    /\ UNCHANGED <<region, file, lifecycleState, upstream,
                   glitches, foundDead>>

saveToggle(w) == At(w, "saveToggle") /\ saveAndRemember(w)

-----------------------------------------------------------------------------
(* Reconciling an account with its balance.                                 *)

(* runAutoCheckin's tick, with the check-in on or off.                      *)
processAutoCheckinAccount(w) ==
    /\ "tick" \in JobsOf[w] /\ At(w, "idle") /\ file.exists
    /\ \/ region = "cn" /\ Goes(w, Step(w, "checkin"))
       \/ Goes(w, Step(w, "bundle"))
    /\ UNCHANGED <<region, shared, upstream, glitches, foundDead>>

(* checkinOneAccount, from the panel: no reconcile follows.                 *)
checkinOneAccount(w) ==
    /\ "checkin" \in JobsOf[w] /\ At(w, "idle") /\ file.exists /\ region = "cn"
    /\ Goes(w, Step(w, "checkinOnly"))
    /\ UNCHANGED <<region, shared, upstream, glitches, foundDead>>

withCheckinLock(w) ==
    /\ lock = None /\ lock' = w
    /\ \/ At(w, "checkin") /\ Goes(w, Step(w, "checkinCall"))
       \/ At(w, "checkinOnly") /\ Goes(w, Step(w, "checkinOnlyCall"))
    /\ UNCHANGED <<region, file, lifecycleState, upstream,
                   glitches, foundDead>>

(* Mutant: the account is reconciled inside the lock of its check-in. *)
performCheckinCallLocked(w) ==
    /\ \/ At(w, "checkinCall") /\ Goes(w, Step(w, "bundle")) /\ UNCHANGED lock
       \/ At(w, "checkinOnlyCall") /\ Goes(w, Idle) /\ lock' = None
    /\ \/ UNCHANGED credits
       \/ live /\ credits' = "some"
    /\ UNCHANGED <<region, file, lifecycleState, live, spent,
                   glitches, foundDead>>

(* The check-in may grant credits; whatever comes of it, the lock goes.     *)
performCheckinCall(w) ==
    /\ \/ At(w, "checkinCall") /\ Goes(w, Step(w, "bundle"))
       \/ At(w, "checkinOnlyCall") /\ Goes(w, Idle)
    /\ lock' = None
    /\ \/ UNCHANGED credits
       \/ live /\ credits' = "some"
    /\ UNCHANGED <<region, file, lifecycleState, live, spent,
                   glitches, foundDead>>

(* reconcileAfterExecutorError: a hard credit error on the way of a chat.   *)
reconcileAfterExecutorError(w) ==
    /\ "executor" \in JobsOf[w] /\ At(w, "idle") /\ file.exists
    /\ Goes(w, Step(w, "bundle"))
    /\ UNCHANGED <<region, shared, upstream, glitches, foundDead>>

reconcileOneAccount(w) ==
    /\ At(w, "bundle")
    /\ \/ /\ hostAuthGetWorks
          /\ Goes(w, [Step(w, "fetch") EXCEPT
                        !.cred = file.cred, !.disabled = file.disabled])
       \/ hostAuthGetFails /\ Goes(w, Idle)
    /\ UNCHANGED <<region, shared, upstream, foundDead>>

(* The forced lookup of cachedAccountDetails, and what follows from it.     *)
reconcileCredits(w) ==
    /\ At(w, "fetch")
    /\ \E cr \in Balances :
         /\ billing(cr)
         /\ LET next == decision(worker[w].disabled, cr)
            IN  Goes(w, IF next = "idle" THEN Idle
                        ELSE [Step(w, next) EXCEPT !.credits = cr,
                                !.disabled = @ /\ region = "cn"])
    /\ UNCHANGED <<region, shared, upstream, foundDead>>

(* The second lookup before a delete.                                       *)
confirmExhausted(w) ==
    /\ At(w, "confirm")
    /\ \E cr \in Balances :
         billing(cr) /\ Goes(w, IF cr = "none" THEN Step(w, "delete") ELSE Idle)
    /\ UNCHANGED <<region, shared, upstream, foundDead>>

(* A row of the dashboard: the file, the balance, and the note.             *)
buildDashboard(w) ==
    /\ "dashboard" \in JobsOf[w] /\ At(w, "idle") /\ file.exists
    /\ Goes(w, [Step(w, "dashboard") EXCEPT
                  !.cred = file.cred, !.disabled = file.disabled])
    /\ UNCHANGED <<region, shared, upstream, glitches, foundDead>>

dashboardCredits(w) ==
    /\ At(w, "dashboard")
    /\ \E cr \in Balances :
         billing(cr) /\ Goes(w, [Step(w, "noteCheck") EXCEPT !.credits = cr])
    /\ UNCHANGED <<region, shared, upstream, foundDead>>

-----------------------------------------------------------------------------
(* The token refresh, under the lock from its first read.                   *)

release(w) == lock' = None /\ Goes(w, Idle)

refreshOneAuth(w) ==
    /\ "keepalive" \in JobsOf[w] /\ At(w, "idle") /\ lock = None /\ file.exists
    /\ lock' = w /\ Goes(w, [Step(w, "refresh") EXCEPT !.cred = file.cred])
    /\ UNCHANGED <<region, file, lifecycleState, upstream,
                   glitches, foundDead>>

renewed(cred) == IF cred < MaxCred THEN cred + 1 ELSE cred

refreshCall(w) ==
    /\ At(w, "refresh")
    /\ \/ /\ live /\ Works /\ UNCHANGED lock
          /\ Goes(w, [Step(w, "tokens") EXCEPT !.cred = renewed(@)])
       \/ ~live /\ Works /\ UNCHANGED lock /\ Goes(w, Step(w, "mark"))
       \/ Fails /\ release(w)
    /\ UNCHANGED <<region, file, lifecycleState, upstream,
                   foundDead>>

persistAuthTokens(w) ==
    /\ At(w, "tokens")
    /\ \/ /\ hostAuthGetWorks /\ UNCHANGED lock
          /\ Goes(w, [Step(w, "saveTokens") EXCEPT !.disabled = file.disabled])
       \/ hostAuthGetFails /\ release(w)
    /\ UNCHANGED <<region, file, lifecycleState, upstream,
                   foundDead>>

markSessionDead(w) ==
    /\ At(w, "mark")
    /\ \/ /\ hostAuthGetWorks /\ ~file.disabled /\ UNCHANGED <<lock, foundDead>>
          /\ Goes(w, [Step(w, "saveDead") EXCEPT
                        !.cred = file.cred, !.disabled = TRUE])
       \/ hostAuthGetWorks /\ file.disabled /\ release(w) /\ foundDead' = TRUE
       \/ hostAuthGetFails /\ release(w) /\ UNCHANGED foundDead
    /\ UNCHANGED <<region, file, lifecycleState, upstream>>

(* hostAuthSaveJSON of either.                                              *)
saveRefreshed(w) ==
    /\ \/ At(w, "saveTokens")
       \/ At(w, "saveDead")
    /\ release(w)
    /\ \/ /\ Works
          /\ file' = [exists |-> TRUE, cred |-> worker[w].cred,
                      disabled |-> worker[w].disabled]
          /\ foundDead' = (foundDead \/ At(w, "saveDead"))
       \/ Fails /\ UNCHANGED <<file, foundDead>>
    /\ UNCHANGED <<region, lifecycleState, upstream>>

-----------------------------------------------------------------------------
(* What happens outside.                                                    *)

Spend ==
    /\ "spend" \in Happenings /\ credits = "some"
    /\ credits' = "none" /\ spent' = TRUE
    /\ UNCHANGED <<region, shared, worker, live, glitches, foundDead>>

SessionDies ==
    /\ "die" \in Happenings /\ live /\ live' = FALSE
    /\ UNCHANGED <<region, shared, worker, credits, spent, glitches, foundDead>>

(* The user logs in again and the host writes a new file, without the lock. *)
Login ==
    /\ "login" \in Happenings
    /\ file' = [exists |-> TRUE, cred |-> 0, disabled |-> FALSE]
    /\ live' = TRUE /\ foundDead' = FALSE
    /\ UNCHANGED <<region, lock, lifecycleState, worker,
                   credits, spent, glitches>>

(* Mutant: what was saved is remembered for ever. *)
ForgetNever ==
    /\ lifecycleState = Unsaved /\ lifecycleState.fresh
    /\ UNCHANGED authVars

(* lifecycleSaveTTL runs out, or pruneLifecycleState drops the entry.       *)
Forget ==
    /\ lifecycleState.fresh /\ lifecycleState' = Unsaved
    /\ UNCHANGED <<region, file, lock, worker, upstream,
                   glitches, foundDead>>

-----------------------------------------------------------------------------
Start(w) ==
    \/ processAutoCheckinAccount(w)
    \/ checkinOneAccount(w)
    \/ reconcileAfterExecutorError(w)
    \/ buildDashboard(w)
    \/ handleAccountToggle(w)
    \/ refreshOneAuth(w)

Enter(w) ==
    \/ disableAuth(w)
    \/ reenableAuth(w)
    \/ syncAuthNoteLocked(w)
    \/ deleteAuth(w)
    \/ writeAuthDisabled(w)
    \/ withCheckinLock(w)

Advance(w) ==
    \/ saveDisabled(w)
    \/ saveEnabled(w)
    \/ syncAuthNote(w)
    \/ saveNote(w)
    \/ remove(w)
    \/ toggleRead(w)
    \/ saveToggle(w)
    \/ performCheckinCall(w)
    \/ reconcileOneAccount(w)
    \/ reconcileCredits(w)
    \/ confirmExhausted(w)
    \/ dashboardCredits(w)
    \/ refreshCall(w)
    \/ persistAuthTokens(w)
    \/ markSessionDead(w)
    \/ saveRefreshed(w)

AuthNext ==
    \/ \E w \in Workers : Start(w) \/ Enter(w) \/ Advance(w)
    \/ Spend
    \/ SessionDies
    \/ Login
    \/ Forget

(* Calls to the host and upstream end (they have timeouts), a sync.Mutex    *)
(* starves nobody, the ticks of 09:00 and 21:00 keep coming, and the TTL of *)
(* the throttle runs out.                                                   *)
Fairness ==
    /\ \A w \in Workers : WF_authVars(Advance(w)) /\ SF_authVars(Enter(w))
    /\ \A w \in Workers : WF_authVars(processAutoCheckinAccount(w))
    /\ WF_authVars(Forget)

AuthSpec == AuthInit /\ [][AuthNext]_authVars /\ Fairness

-----------------------------------------------------------------------------
(* Properties.                                                              *)

Waiting == {"disable", "reenable", "note", "delete", "toggle", "checkin",
            "checkinOnly"}
Inside == {"saveDisabled", "saveEnabled", "saveNote", "remove", "saveToggle",
           "checkinCall", "checkinOnlyCall", "refresh", "tokens", "mark",
           "saveTokens", "saveDead"}
Outside == {"idle", "bundle", "fetch", "confirm", "noteCheck", "dashboard",
            "toggleRead"}

(* Every variable has its type, and the lock is held by whoever is inside a *)
(* section of it, and by nobody else.                                       *)
AuthTypeOK ==
    /\ region \in Regions
    /\ file \in [exists : BOOLEAN, cred : 0..MaxCred, disabled : BOOLEAN]
    /\ lock \in Workers \cup {None}
    /\ lifecycleState \in [fresh : BOOLEAN, disabled : BOOLEAN, note : Balances]
    /\ live \in BOOLEAN
    /\ worker \in [Workers ->
         [pc : Waiting \cup Inside \cup Outside, cred : 0..MaxCred,
          disabled : BOOLEAN, credits : Balances, read : BOOLEAN]]
    /\ credits \in {"some", "none"} /\ glitches \in 0..MaxGlitches
    /\ spent \in BOOLEAN /\ foundDead \in BOOLEAN
    /\ \A w \in Workers : worker[w].pc \in Inside <=> lock = w

(* A single wrong answer of the billing API does not cost an account that   *)
(* always had credits its file, which cannot be undone: only Global ones    *)
(* that were exhausted at some time are deleted (reconcileOneAccount's      *)
(* second lookup).                                                          *)
OnlyExhaustedDeleted ==
    [][file.exists /\ ~file'.exists => region = "global" /\ spent]_authVars

(* A disabled account comes back only by a decision to enable it: a token   *)
(* refresh, and a note written by a job that could read the file, keep the  *)
(* bit however long ago that job started, whoever disabled the account      *)
(* meanwhile.                                                               *)
DisabledKept ==
    [][file.exists /\ file.disabled /\ file'.exists /\ ~file'.disabled
       => \/ Login
          \/ \E w \in Workers : \/ saveEnabled(w) \/ saveToggle(w)
                                \/ saveNote(w) /\ ~worker[w].read]_authVars

usable == file.exists /\ ~file.disabled

(* An account that stays out of credits does not keep receiving traffic:    *)
(* CN is disabled and Global deleted, whatever was saved a moment ago and   *)
(* whatever fails on the way.                                               *)
ExhaustedIsShelved ==
    usable /\ credits = "none" /\ live
        ~> ~usable \/ credits /= "none" \/ ~live

(* A CN account that was disabled comes back once it has credits again.     *)
CreditsBringBack ==
    region = "cn" /\ file.exists /\ file.disabled /\ credits = "some" /\ live
        ~> ~file.exists \/ ~file.disabled \/ credits /= "some" \/ ~live

(* The lock of the account always comes free again, so that every job that  *)
(* waits for it ends: none takes it twice, none keeps it on an error path.  *)
LockComesFree == lock /= None ~> lock = None

-----------------------------------------------------------------------------
(* What comments in the code say and the code does not guarantee.           *)

(* keepalive.go: an account whose session is dead is disabled and receives  *)
(* no traffic until the user logs in again.                                 *)
SessionDeadStaysDisabled == foundDead => ~usable

(* keepalive.go: the credential that a refresh obtained is persisted: until *)
(* the user logs in again, no older one takes its place.                    *)
RefreshedCredentialKept ==
    [][file.exists /\ file'.exists /\ file'.cred < file.cred => Login]_authVars
=============================================================================
