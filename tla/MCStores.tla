----------------------------- MODULE MCStores -----------------------------
(***************************************************************************)
(* What is kept from one call to the next and what is read page by page: a *)
(* cache file of the model store, the panel's usage answer, the logins     *)
(* under way, an account's balance.  A behaviour follows one of them.      *)
(***************************************************************************)
EXTENDS ModelStore, UsageQuery, Login, Balance, TLC

CONSTANTS c1, c2, u1, u2

MCCatalogs == {c1, c2}

File(schema, fits, owner, facts) == [schema |-> schema, fits |-> fits, owner |-> owner, facts |-> facts]

(* What may lie on the disk: nothing, a cut-off file, this account's       *)
(* catalog, another identity's, one of no version and two of a later one,  *)
(* of which the second changed the type of a field.                        *)
MCFound == {Absent, Torn, File(1, TRUE, "self", c1), File(1, TRUE, "other", c1),
            File(1, TRUE, "self", Unsound), File(0, TRUE, "self", c1),
            File(2, TRUE, "other", c1), File(2, FALSE, "self", c1)}

(* A bill of three pages of two rows, one row of it without an id, beside  *)
(* a short one; two more exceed the cap of pages.                          *)
MCBills == {(u1 :> <<11, 12, 13, 14, 15>> @@ u2 :> <<16>>)}

Package(cycleSize, cycleRemain, cycleUsed, size, remain, used) ==
    [cycleSize |-> cycleSize, cycleRemain |-> cycleRemain, cycleUsed |-> cycleUsed,
     size |-> size, remain |-> remain, used |-> used]

Holder(packs, tells, dosage, enterprise, credit, limit) ==
    [packs |-> packs, tells |-> tells, dosage |-> dosage, enterprise |-> enterprise,
     credit |-> credit, limit |-> limit, grants |-> 0]

Spent == Package(2, 0, 2, 2, 0, 2)
Half == Package(2, 1, 0, 2, 2, 0)
Gift == Package(0, 0, 0, 1, 1, 0)

(* One package with any figures; up to five of three kinds, over pages of  *)
(* two; enterprise accounts from nothing used to more than the limit.      *)
MCHolders ==
    LET figures == {-1, 0, 1, 3}
    IN  {Holder(<<Package(a, b, c, d, e, f)>>, TRUE, 0, "unasked", 0, 0) : a, b, c, d, e, f \in figures}
        \union {Holder(list, tells, dosage, "unsupported", 0, 0) : tells \in BOOLEAN, dosage \in {0, 4},
                  list \in UNION {[1 .. n -> {Spent, Half, Gift}] : n \in 0 .. 5}}
        \union {Holder(<<>>, TRUE, 0, "answering", c, l) : c, l \in 0 .. 13}
        \union {Holder(<<>>, TRUE, 0, "failing", 0, 0)}

VARIABLE focus   \* the part this behaviour follows; the others stay as they start

FirstFiles == platform = "unix" /\ kind = "catalog" /\ primary = Absent /\ backup = Absent
NoHolder == BalanceStart(Holder(<<>>, TRUE, 0, "failing", 0, 0))

StoresInit ==
    /\ Init /\ UsageInit /\ LoginInit
    /\ \/ focus = "models" /\ NoHolder
       \/ focus \in {"usage", "login"} /\ FirstFiles /\ NoHolder
       \/ focus = "balance" /\ FirstFiles /\ BalanceInit

StoresNext ==
    /\ UNCHANGED focus
    /\ \/ focus = "models" /\ Next /\ UNCHANGED <<usageVars, loginVars, balanceVars>>
       \/ focus = "usage" /\ UsageNext /\ UNCHANGED <<vars, loginVars, balanceVars>>
       \/ focus = "login" /\ LoginNext /\ UNCHANGED <<vars, usageVars, balanceVars>>
       \/ focus = "balance" /\ BalanceNext /\ UNCHANGED <<vars, usageVars, loginVars>>

StoresSpec == StoresInit /\ [][StoresNext]_<<vars, usageVars, loginVars, balanceVars, focus>>
=============================================================================
