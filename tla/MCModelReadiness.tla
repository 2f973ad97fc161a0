-------------------------- MODULE MCModelReadiness --------------------------
(* Instances of ModelReadiness for TLC.                                     *)
EXTENDS ModelReadiness, TLC

(* Every usable credential names the same identity. *)
SameIdentity == [c \in Creds \ BadCreds |-> CHOOSE i \in Identities : TRUE]

AnySave == {"saved", "lost"}

Interchangeable == Permutations(Calls) \cup Permutations(Auths)
=============================================================================
