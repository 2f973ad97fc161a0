------------------------------ MODULE MCPool ------------------------------
(***************************************************************************)
(* The pool (internal/pool): the health of one of its entries under every  *)
(* kind of outcome, and the selection among two entries.  Selection reads  *)
(* of an entry only what Selection takes as an input, so a behaviour       *)
(* follows one of the two.                                                 *)
(***************************************************************************)
EXTENDS Account, Selection

(* A reset clock in the past (clock skew), within and beyond the cap.       *)
SkewedResets == {-1, 1, 3}

(* Healthy, and softly cooled. *)
Soft == {[disabled |-> FALSE, hard |-> FALSE, expiry |-> e, cooled |-> {},
          full |-> FALSE] : e \in {0, 1}}

NoneTried == {{}}

InOneRealm == [a \in Accounts |-> "cn"]

VARIABLE focus   \* the part this behaviour follows; the other stays as it starts

PoolInit == Init /\ SelectionInit /\ focus \in {"entry", "selection"}

PoolNext ==
    /\ UNCHANGED focus
    /\ \/ focus = "entry" /\ Next /\ UNCHANGED selectionVars
       \/ focus = "selection" /\ SelectionNext /\ UNCHANGED vars

PoolSpec ==
    /\ PoolInit /\ [][PoolNext]_<<vars, selectionVars, focus>>
    /\ WF_selectionVars(focus = "selection" /\ Pass)
    /\ \A m \in RequestModels : WF_selectionVars(focus = "selection" /\ PickExcluding({}, m, None))

(* The entry alone, with its clock and its flusher. *)
EntryInit == Init /\ SelectionInit /\ focus = "entry"

EntrySpec ==
    /\ EntryInit /\ [][PoolNext]_<<vars, selectionVars, focus>>
    /\ WF_vars(Tick) /\ WF_vars(Flush)
=============================================================================
