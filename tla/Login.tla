------------------------------- MODULE Login -------------------------------
(***************************************************************************)
(* Browser logins (oauth.go): a started login is kept under the state the  *)
(* backend issued (loginStates in main.go), the host polls it until the    *)
(* user has finished, a janitor drops abandoned ones, and a configuration  *)
(* may block all requests in between.  A poll makes two requests, and      *)
(* polls of one state may overlap.                                         *)
(***************************************************************************)
EXTENDS Naturals, FiniteSets

CONSTANTS
    States,        \* states the backend may issue
    Polls,         \* calls of auth.login.poll
    NoState,
    MaxUpsets      \* bound: failed requests and changes of the configuration

VARIABLES
    loginStates,   \* states of the logins under way
    expired,       \* states whose five minutes are over
    issued,        \* states handed to the host
    finished,      \* states whose user has logged in
    proxyMode,     \* "inherit" or "blocked"
    poll,          \* poll -> its step, its state and its answer
    upsets,
    verdict        \* history: states of which a poll told the end

loginVars == <<loginStates, expired, issued, finished, proxyMode, poll, upsets, verdict>>

ASSUME LoginAssumption == NoState \notin States /\ MaxUpsets \in Nat

Waiting == [pc |-> "start", state |-> NoState, late |-> FALSE, answer |-> "none"]

LoginInit ==
    /\ loginStates = {} /\ expired = {} /\ issued = {} /\ finished = {}
    /\ proxyMode = "inherit"
    /\ poll = [p \in Polls |-> Waiting]
    /\ upsets = 0 /\ verdict = {}

Upset == upsets < MaxUpsets /\ upsets' = upsets + 1

----------------------------------------------------------------------------
(* newLoginClient and loginClientForCurrentRouting: no client while blocked. *)
routed == proxyMode = "inherit"

(* handleStartLogin: nothing is kept of a login whose state request failed *)
(* or brought no state.                                                    *)
handleStartLogin ==
    /\ routed
    /\ \/ /\ \E s \in States \ issued : issued' = issued \union {s} /\ loginStates' = loginStates \union {s}
          /\ UNCHANGED upsets
       \/ Upset /\ UNCHANGED <<issued, loginStates>>
    /\ UNCHANGED <<expired, finished, proxyMode, poll, verdict>>

Answered(p, answer) == poll' = [poll EXCEPT ![p] = [poll[p] EXCEPT !.pc = "done", !.answer = answer]]

(* The poll ends the login. *)
Ends(p, answer) ==
    /\ Answered(p, answer)
    /\ loginStates' = loginStates \ {poll[p].state}
    /\ verdict' = verdict \union {poll[p].state}

(* handlePollLogin looks the login up; without one there is nothing to poll, *)
PollLookup(p) ==
    /\ poll[p].pc = "start"
    /\ \E s \in issued :
          poll' = [poll EXCEPT ![p] = [pc |-> IF s \in loginStates THEN "found" ELSE "done", state |-> s,
                                       late |-> s \in verdict,
                                       answer |-> IF s \in loginStates THEN "none" ELSE "unknown"]]
    /\ UNCHANGED <<loginStates, expired, issued, finished, proxyMode, upsets, verdict>>

(* refuses one that is too old or may not be routed, *)
PollCheck(p) ==
    /\ poll[p].pc = "found"
    /\ IF poll[p].state \in expired \/ ~routed
         THEN Ends(p, "error")
         ELSE poll' = [poll EXCEPT ![p].pc = "token"] /\ UNCHANGED <<loginStates, verdict>>
    /\ UNCHANGED <<expired, issued, finished, proxyMode, upsets>>

(* asks for the token: a broken transport or a 5xx ends the login, any     *)
(* other refusal means the user is not done; the routing is looked at      *)
(* again before the second request,                                        *)
PollToken(p) ==
    /\ poll[p].pc = "token"
    /\ \/ Upset /\ Ends(p, "error")
       \/ /\ poll[p].state \notin finished
          /\ Answered(p, "pending")
          /\ UNCHANGED <<upsets, loginStates, verdict>>
       \/ /\ poll[p].state \in finished
          /\ IF routed THEN poll' = [poll EXCEPT ![p].pc = "account"] /\ UNCHANGED <<loginStates, verdict>>
             ELSE Ends(p, "error")
          /\ UNCHANGED upsets
    /\ UNCHANGED <<expired, issued, finished, proxyMode>>

(* Mutant: a failed account lookup leaves the login for the next poll. *)
AccountFailsOpen(p) == Answered(p, "error") /\ verdict' = verdict \union {poll[p].state} /\ UNCHANGED loginStates

(* The lookup fails, cannot be parsed or has no uid. *)
AccountFails(p) == Ends(p, "error")

(* and fetches the account; buildLoginStoredAuth wants a token and a uid.  *)
PollAccount(p) ==
    /\ poll[p].pc = "account"
    /\ \/ Ends(p, "success") /\ UNCHANGED upsets
       \/ Upset /\ AccountFails(p)
    /\ UNCHANGED <<expired, issued, finished, proxyMode>>

----------------------------------------------------------------------------
(* The janitor of main.go drops what has expired. *)
PruneLogins ==
    /\ loginStates \intersect expired # {}
    /\ loginStates' = loginStates \ expired
    /\ UNCHANGED <<expired, issued, finished, proxyMode, poll, upsets, verdict>>

(* Five minutes are over. *)
ExpireLogin ==
    /\ \E s \in issued \ expired : expired' = expired \union {s}
    /\ UNCHANGED <<loginStates, issued, finished, proxyMode, poll, upsets, verdict>>

(* configureProxy: any proxy-url blocks, none unblocks. *)
configureProxy(url) == IF url = "" THEN "inherit" ELSE "blocked"

(* configure: what cannot be read blocks too, but faulty features leave    *)
(* the routing as it is.                                                   *)
configure ==
    /\ Upset
    /\ \/ proxyMode' = "blocked"
       \/ UNCHANGED proxyMode
       \/ \E url \in {"", "some"} : proxyMode' = configureProxy(url)
    /\ UNCHANGED <<loginStates, expired, issued, finished, poll, verdict>>

UserLogsIn ==
    /\ \E s \in issued \ finished : finished' = finished \union {s}
    /\ UNCHANGED <<loginStates, expired, issued, proxyMode, poll, upsets, verdict>>

AllPolled == (\A p \in Polls : poll[p].pc = "done") /\ UNCHANGED loginVars
BlockedForGood == ~routed /\ upsets = MaxUpsets /\ UNCHANGED loginVars

LoginNext ==
    \/ handleStartLogin
    \/ \E p \in Polls : PollLookup(p) \/ PollCheck(p) \/ PollToken(p) \/ PollAccount(p)
    \/ PruneLogins \/ ExpireLogin \/ configure \/ UserLogsIn \/ AllPolled \/ BlockedForGood

LoginSpec == LoginInit /\ [][LoginNext]_loginVars

----------------------------------------------------------------------------
(* A poll that tells the end of a login has the last word: no poll that    *)
(* begins later brings a credential for it.  Nor does a login vanish       *)
(* before: one that is no longer kept has expired or had its end told      *)
(* (handlePollLogin in oauth.go, the janitor of main.go).                  *)
VerdictFinal ==
    /\ \A p \in Polls : poll[p].answer = "success" => ~poll[p].late /\ poll[p].state \in finished
    /\ (issued \ expired) \ verdict \subseteq loginStates

=============================================================================
