----------------------------- MODULE MCRouting -----------------------------
(* Small pools and hosts for the routing of requests. *)
EXTENDS Routing, TLC

CONSTANTS a1, a2, a3, q1, q2

With(d, h, e) ==
    [disabled |-> d, hard |-> h, expiry |-> e, cooled |-> {}, full |-> FALSE]

(* Healthy, softly cooled, and out of credits until the morning. *)
Cooling  == {With(FALSE, FALSE, 0), With(FALSE, FALSE, 1), With(FALSE, TRUE, 1)}
Soft     == {With(FALSE, FALSE, 1)}

Interchangeable == Permutations(Accounts) \cup Permutations(Requests)

NoneTried == {{}}
InOneRealm == [a \in Accounts |-> "cn"]

(* The host offers several accounts, or one. *)
AnyOffer     == (SUBSET Accounts) \ {{}}
PairsOfThree == {{a1, a2}, {a2, a3}, {a1}}
=============================================================================
