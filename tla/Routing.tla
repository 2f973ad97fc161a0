------------------------------ MODULE Routing ------------------------------
(***************************************************************************)
(* Which account a chat request goes to (scheduler_mode: credits): the     *)
(* host calls scheduler.pick with the accounts it offers, and the plugin   *)
(* answers with the panel's selection, with the only account there is, or  *)
(* with a draw from the pool (plugin/scheduler.go, active_auth.go,         *)
(* wb_pool.go).                                                            *)
(*                                                                         *)
(* The host calls concurrently and no lock spans a call: the selection     *)
(* activeAuthID is read and written under a mutex of its own, once each,   *)
(* and every draw takes and releases the pool's lock.  A request is        *)
(* therefore a process whose steps are those critical sections.  The       *)
(* offered set is the host's list after the filters of handleSchedulerPick *)
(* (provider, disabled, manually disabled, model readiness).               *)
(***************************************************************************)
EXTENDS Selection

CONSTANTS
    Requests,        \* concurrent scheduler.pick calls
    Offers,          \* the sets of accounts that the host offers
    PanelOpen,       \* whether the operator's panel is in use
    Billed           \* the accounts whose credits are looked up

ASSUME RoutingAssumption ==
    /\ Offers \subseteq (SUBSET Accounts) \ {{}}
    /\ PanelOpen \in BOOLEAN /\ Billed \subseteq Accounts

VARIABLES
    activeAuth,      \* activeAuthID, or None
    selectedBy,      \* who wrote it last: nobody, the operator, the plugin
    exhausted,       \* the accounts accountCache holds as out of credits
    request,         \* per request: its program counter and locals
    dashboard        \* the dashboard load that is about to write, if any

routingVars == <<activeAuth, selectedBy, exhausted, request, dashboard>>
vars == <<selectionVars, routingVars>>

Idle == [pc |-> "idle", model |-> None, offered |-> {}, spent |-> {},
         tried |-> {}, listed |-> 0, budget |-> 0, next |-> None, answer |-> None]

NoLoad == [pc |-> "idle", next |-> None]

Init ==
    /\ SelectionInit
    /\ activeAuth = None /\ selectedBy = "nobody" /\ exhausted = {}
    /\ request = [q \in Requests |-> Idle]
    /\ dashboard = NoLoad

-----------------------------------------------------------------------------
(* One scheduler.pick call.                                                 *)

answered(rec, a) ==
    [Idle EXCEPT !.pc = "done", !.offered = rec.offered, !.spent = rec.spent,
                 !.answer = a]

(* pickActiveAuth: what a call that reads `cur` as the selection decides,   *)
(* as pairs of the account and whether it is written back.  The host's      *)
(* order is not fixed, so its first candidate may be any.                   *)
activeChoices(offered, spent, cur) ==
    IF cur \in offered \ spent THEN {<<cur, FALSE>>}
    ELSE IF offered \ spent /= {}
         THEN {<<a, TRUE>> : a \in offered \ spent}
         ELSE IF cur \in offered THEN {<<cur, FALSE>>}
              ELSE {<<a, TRUE>> : a \in offered}

(* handleSchedulerPick up to its first decision.                            *)
Arrive(q, offered, m) ==
    /\ request[q].pc \in {"idle", "done"}
    /\ request' = [request EXCEPT ![q] =
         [Idle EXCEPT !.offered = offered, !.model = m,
                      !.pc = IF activeAuth /= None THEN "active"
                             ELSE IF Cardinality(offered) = 1 THEN "single"
                             ELSE "ensure"]]
    /\ UNCHANGED <<selectionVars, activeAuth, selectedBy, exhausted, dashboard>>

(* The panel's selection is asked first ("active"), and again when the pool *)
(* had nothing ("fallback").                                                *)
ReadActive(q) ==
    LET rec == request[q]
        now == [rec EXCEPT !.spent = exhausted \cap rec.offered]
    IN  /\ rec.pc \in {"active", "fallback"}
        /\ \E c \in activeChoices(rec.offered, now.spent, activeAuth) :
             request' = [request EXCEPT ![q] =
                IF c[2] THEN [now EXCEPT !.pc = "write", !.next = c[1]]
                ELSE answered(now, c[1])]
        /\ UNCHANGED <<selectionVars, activeAuth, selectedBy, exhausted,
                       dashboard>>

WriteActive(q) ==
    LET rec == request[q]
    IN  /\ rec.pc = "write"
        /\ activeAuth' = rec.next /\ selectedBy' = "plugin"
        /\ request' = [request EXCEPT ![q] = answered(rec, rec.next)]
        /\ UNCHANGED <<selectionVars, exhausted, dashboard>>

(* A single candidate is selected and answered without more ado.            *)
AnswerSingle(q) ==
    LET rec == request[q]
    IN  /\ rec.pc = "single"
        /\ \E a \in rec.offered :
             /\ activeAuth' = a /\ selectedBy' = "plugin"
             /\ request' = [request EXCEPT ![q] =
                  answered([rec EXCEPT !.spent = exhausted \cap rec.offered],
                           a)]
        /\ UNCHANGED <<selectionVars, exhausted, dashboard>>

(* Mutant: as many draws as there are candidates. *)
budgetOfCandidates(entries, offered) == Cardinality(offered)

(* Draws enough for every entry of the pool that is not a candidate.        *)
drawBudget(entries, offered) == Cardinality(entries) + Cardinality(offered)

(* ensurePoolCandidates, and pickFromPool up to its loop.                   *)
EnsureCandidates(q) ==
    LET rec     == request[q]
        entries == byUID \cup rec.offered
        spent   == exhausted \cap rec.offered
    IN  /\ rec.pc = "ensure"
        /\ byUID' = entries
        /\ request' = [request EXCEPT ![q] =
             [rec EXCEPT !.spent = spent, !.listed = Cardinality(entries),
                         !.budget = drawBudget(entries, rec.offered),
                         !.pc = IF spent = rec.offered THEN "fallback"
                                ELSE "draw"]]
        /\ UNCHANGED <<envVars, usedVars, sinceExplored, activeAuth,
                       selectedBy, exhausted, dashboard>>

(* Mutant: neither the draws nor the drawn accounts are counted. *)
afterDrawUncounted(rec, a) ==
    IF a = None THEN [rec EXCEPT !.pc = "fallback"]
    ELSE IF a \in rec.offered \ rec.spent THEN answered(rec, a)
    ELSE rec

(* One round of pickFromPool's loop, given what the pool drew.              *)
afterDraw(rec, a) ==
    IF a = None THEN [rec EXCEPT !.pc = "fallback"]
    ELSE IF a \in rec.offered \ rec.spent THEN answered(rec, a)
    ELSE [rec EXCEPT !.tried = @ \cup {a}, !.budget = @ - 1,
                     !.pc = IF rec.budget = 1 THEN "fallback" ELSE "draw"]

Draw(q) ==
    LET rec == request[q]
    IN  /\ rec.pc = "draw"
        /\ \E a \in Accounts \cup {None} :
             /\ pick(rec.tried, rec.model, None, a)
             /\ request' = [request EXCEPT ![q] = afterDraw(rec, a)]
        /\ UNCHANGED <<byUID, envVars, activeAuth, selectedBy, exhausted,
                       dashboard>>

-----------------------------------------------------------------------------
(* The panel.                                                               *)

(* The operator selects an account.                                         *)
SelectAuth(a) ==
    /\ PanelOpen
    /\ activeAuth' = a /\ selectedBy' = "operator"
    /\ UNCHANGED <<selectionVars, exhausted, request, dashboard>>

(* clearActiveAuthIfMatch: the account was deleted.                         *)
ClearActive ==
    /\ PanelOpen /\ activeAuth /= None
    /\ activeAuth' = None /\ selectedBy' = "nobody"
    /\ UNCHANGED <<selectionVars, exhausted, request, dashboard>>

(* What a dashboard load that lists these accounts, of which the live ones  *)
(* are not disabled, decides: any listed one where none is live.            *)
defaultChoices(list, live, spent, cur) ==
    IF live = {} THEN {<<a, a /= cur>> : a \in list}
    ELSE activeChoices(live, spent, cur)

(* ensureDefaultActiveAuth on a dashboard load.                             *)
ReadDefault(list, live) ==
    /\ PanelOpen /\ dashboard.pc = "idle"
    /\ \E c \in defaultChoices(list, live, exhausted \cap live, activeAuth) :
         /\ c[2]
         /\ dashboard' = [pc |-> "write", next |-> c[1]]
    /\ UNCHANGED <<selectionVars, activeAuth, selectedBy, exhausted, request>>

WriteDefault ==
    /\ dashboard.pc = "write"
    /\ activeAuth' = dashboard.next /\ selectedBy' = "plugin"
    /\ dashboard' = NoLoad
    /\ UNCHANGED <<selectionVars, exhausted, request>>

(* A billing answer was cached.                                             *)
CreditsCached(a) ==
    /\ a \in Billed
    /\ exhausted' \in {exhausted \cup {a}, exhausted \ {a}}
    /\ exhausted' /= exhausted
    /\ UNCHANGED <<selectionVars, activeAuth, selectedBy, request, dashboard>>

Environment ==
    /\ \/ \E a \in Accounts : HealthChanges(a)
       \/ Pass
    /\ UNCHANGED routingVars

Serve(q) ==
    ReadActive(q) \/ WriteActive(q) \/ AnswerSingle(q) \/ EnsureCandidates(q)
    \/ Draw(q)

Next ==
    \/ \E q \in Requests, offered \in Offers, m \in RequestModels :
          Arrive(q, offered, m)
    \/ \E q \in Requests : Serve(q)
    \/ \E a \in Accounts : SelectAuth(a) \/ CreditsCached(a)
    \/ ClearActive
    \/ \E list \in Offers : \E live \in SUBSET list : ReadDefault(list, live)
    \/ WriteDefault
    \/ Environment

(* A call runs on a goroutine of the host: it takes its next step.          *)
Spec == Init /\ [][Next]_vars /\ \A q \in Requests : WF_vars(Serve(q))

-----------------------------------------------------------------------------
(* Properties.                                                              *)

(* Since request q counted the pool, other calls added more entries to it   *)
(* than q was offered candidates.                                           *)
outgrown(q) ==
    Cardinality(byUID) > request[q].listed + Cardinality(request[q].offered)

(* The loop of pickFromPool gives up only when no candidate it has not      *)
(* drawn could be selected, although draws land on accounts nobody asked    *)
(* for and health changes between them.  The budget is counted once, before *)
(* the loop: a pool that outgrows it meanwhile is the one exception.        *)
DrawsSuffice ==
    [][\A q \in Requests :
         /\ request[q].pc = "draw" /\ request'[q].pc = "fallback"
         => \/ \A a \in request[q].offered
                           \ (request[q].spent \cup request'[q].tried) :
                  ~healthyFor(a, request[q].model) \/ health[a].full
            \/ outgrown(q)
      ]_vars

(* Every call of the host is answered, whatever the pool and the panel do   *)
(* meanwhile.                                                               *)
CallsReturn == \A q \in Requests : request[q].pc /= "idle" ~> request[q].pc = "done"

-----------------------------------------------------------------------------
(* What comments in the code say and the code does not guarantee.           *)

(* scheduler.go: a panel selection holds while the account is a live,       *)
(* non-exhausted candidate.                                                 *)
OperatorSelectionSticks ==
    [][\A q \in Requests :
         /\ WriteActive(q) /\ selectedBy = "operator"
         => activeAuth \notin request[q].offered \ request[q].spent]_vars
=============================================================================
