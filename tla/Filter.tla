------------------------------- MODULE Filter -------------------------------
(***************************************************************************)
(* The elements of a list that are in a set, in their order: what          *)
(* SelectSeq gives, as a fold, so that it can be reasoned about.           *)
(***************************************************************************)
EXTENDS Sequences, SequencesExt

\* One turn of the loop: acc.of is the set, acc.seq what was kept so far.
keepMember(acc, x) == [acc EXCEPT !.seq = IF x \in acc.of THEN Append(@, x) ELSE @]

Only(s, S) == FoldLeft(keepMember, [of |-> S, seq |-> <<>>], s).seq
=============================================================================
