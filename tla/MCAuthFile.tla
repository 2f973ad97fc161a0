----------------------------- MODULE MCAuthFile -----------------------------
(* Small sets of jobs around one credential file. *)
EXTENDS AuthFile, TLC

CONSTANTS w1, w2

(* The scheduler and everything else. *)
SchedulerAndRest ==
    (w1 :> {"tick", "executor"}) @@
    (w2 :> {"keepalive", "dashboard", "toggle", "checkin"})

SchedulerAndKeepalive == (w1 :> {"tick"}) @@ (w2 :> {"keepalive"})
=============================================================================
