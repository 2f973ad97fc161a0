------------------------------ MODULE MCTasks ------------------------------
(***************************************************************************)
(* The daily tasks over two days, the cache of an account beside three     *)
(* jobs, and the panel's record of what the tasks did.  They meet in the   *)
(* scheduled check-in, a task of the first, a job of the second and a row  *)
(* of the third; a behaviour follows one of them.                          *)
(***************************************************************************)
EXTENDS DailyTasks, AccountCache, PanelStore, TLC

CONSTANTS account, j1, j2, j3

MCAccounts == {account}

(* No buddy and no chat yet, yesterday missed and a card to make up for it; *)
(* and an account of the Global realm.                                      *)
New == [global |-> FALSE, chats |-> 0, lit |-> FALSE, missed |-> TRUE, days |-> 1,
        claimed |-> {}, cards |-> 1, gift |-> TRUE, chances |-> 1, buddy |-> "none",
        limited |-> FALSE]

MCStarts == {New, [New EXCEPT !.global = TRUE]}

MCKnown == {NoEntry, [checkin |-> FALSE, credits |-> 1, expired |-> FALSE]}

(* A chat beside every other job and beside two that share a flight or a   *)
(* mutex; a forced load is how the scheduled ones end.                     *)
MCTeams == {(j1 :> "chat" @@ j2 :> pair[1] @@ j3 :> pair[2]) : pair \in
              {<<"load", "load">>, <<"load", "global">>, <<"load", "manual">>, <<"manual", "manual">>,
               <<"load", "query">>, <<"manual", "query">>, <<"query", "trial">>}}
           \union {(j1 :> "auto" @@ j2 :> other) : other \in {"chat", "load", "manual"}}

MCFiles == {NoFile, Corrupt, <<-1, 0>>}

VARIABLE focus   \* the part this behaviour follows; the other stays as it starts

FirstDay == backend = [a \in Accounts |-> New]
FirstJobs == entry = NoEntry /\ job = (j1 :> NewJob("auto") @@ j2 :> NewJob("load"))
FirstFiles == file = [s \in Streams |-> NoFile]

TasksInit ==
    /\ Init /\ CacheInit /\ PanelInit
    /\ \/ focus = "days" /\ FirstJobs /\ FirstFiles
       \/ focus = "cache" /\ FirstDay /\ FirstFiles
       \/ focus = "panel" /\ FirstDay /\ FirstJobs

TasksNext ==
    /\ UNCHANGED focus
    /\ \/ focus = "days" /\ Next /\ UNCHANGED <<cacheVars, panelVars>>
       \/ focus = "cache" /\ CacheNext /\ UNCHANGED <<vars, panelVars>>
       \/ focus = "panel" /\ PanelNext /\ UNCHANGED <<vars, cacheVars>>

TasksSpec == TasksInit /\ [][TasksNext]_<<vars, cacheVars, panelVars, focus>>
=============================================================================
