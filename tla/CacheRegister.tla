--------------------------- MODULE CacheRegister ---------------------------
(***************************************************************************)
(* What a cache file of the model store promises its readers: a register   *)
(* that holds one value, is written by one save at a time, and survives a  *)
(* power loss with a value that was current since the last save that was   *)
(* made durable.  It never shows a state between two values.               *)
(***************************************************************************)
CONSTANTS Catalogs,   \* what a save can write
          Values,     \* what a load can report
          NoSave      \* no save is under way

VARIABLES value,      \* what a load reports
          recent,     \* what a load may report after a power loss
          pending     \* the catalog being saved, or NoSave

vars == <<value, recent, pending>>

Init == value \in Values /\ recent = {value} /\ pending = NoSave

Begin(v) == pending = NoSave /\ pending' = v /\ UNCHANGED <<value, recent>>

(* The save takes effect, durably at once or together with what was there. *)
Take ==
    /\ pending # NoSave
    /\ value' = pending
    /\ recent' \in {recent \union {pending}, {pending}}
    /\ UNCHANGED pending

Commit == pending # NoSave /\ value = pending /\ recent' = {value} /\ pending' = NoSave /\ UNCHANGED value

(* A save that fails leaves what it found, or what it has already put there. *)
GiveUp == pending # NoSave /\ pending' = NoSave /\ UNCHANGED <<value, recent>>

PowerLoss == value' \in recent /\ recent' = {value'} /\ pending' = NoSave

Next == (\E v \in Catalogs : Begin(v)) \/ Take \/ Commit \/ GiveUp \/ PowerLoss

Spec == Init /\ [][Next]_vars
=============================================================================
