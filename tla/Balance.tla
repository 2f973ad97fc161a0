------------------------------ MODULE Balance ------------------------------
(***************************************************************************)
(* How an account's balance is looked up (billing.go): the enterprise      *)
(* endpoint where it is configured, else the list of credit packages, page *)
(* by page, folded into totals.  The totals decide whether an account is   *)
(* shelved or deleted, which is where AuthFile goes on.                    *)
(*                                                                         *)
(* Amounts of the enterprise endpoint are fractions of a credit and are    *)
(* kept in quarters.                                                       *)
(***************************************************************************)
EXTENDS Integers, Sequences, SequencesExt

CONSTANTS
    Accounts,       \* what the backend may know: list of packages, whether it tells their
                    \* number, its TotalDosage, the use and the limit of an enterprise
    Granted,        \* the package a check-in adds
    pageSize,
    billingRetries, \* billingRetryDelays: repetitions after a 5xx
    MaxGrants

VARIABLES
    account,        \* what the backend knows
    lookup,         \* the lookup: step, page, attempts, packages read, totals
    listed,         \* history: the packages when the first page was read
    grown           \* history: a package came before what was "read", or among those the
                    \* backend had "counted" for the first page

balanceVars == <<account, lookup, listed, grown>>

(* The figures of a package may be anything; those of an enterprise that   *)
(* are negative or no numbers count as failing.                            *)
Packages == [cycleSize : Int, cycleRemain : Int, cycleUsed : Int, size : Int, remain : Int, used : Int]

Holders == [packs : Seq(Packages), tells : BOOLEAN, dosage : Int,
            enterprise : {"unasked", "unsupported", "failing", "answering"},
            credit : Nat, limit : Nat, grants : Nat]

ASSUME BalanceAssumption ==
    /\ pageSize \in Nat \ {0} /\ billingRetries \in Nat /\ MaxGrants \in Nat
    /\ Accounts \subseteq Holders /\ Granted \in Packages

NoTotals == [remain |-> 0, used |-> 0, size |-> 0, packs |-> 0]

BalanceStart(a) ==
    /\ account = a
    /\ lookup = [pc |-> "start", page |-> 1, attempts |-> 0, all |-> <<>>, totalCount |-> 0,
                 dosage |-> 0, sum |-> NoTotals]
    /\ listed = <<>>
    /\ grown = {}

BalanceInit == \E a \in Accounts : BalanceStart(a)

----------------------------------------------------------------------------
AtLeast(n, low) == IF n < low THEN low ELSE n
AtMost(n, high) == IF n > high THEN high ELSE n

Part(remain, used, size) == [remain |-> remain, used |-> used, size |-> size]

(* The current cycle; a larger explicit use counts, *)
cycleOf(p) ==
    LET left == AtMost(AtLeast(p.cycleRemain, 0), p.cycleSize)
        used == AtLeast(p.cycleUsed, p.cycleSize - left)
    IN  Part(IF used > p.cycleSize - left /\ used <= p.cycleSize THEN p.cycleSize - used ELSE left,
             used, p.cycleSize)

(* a cycle without a size, *)
unsizedCycleOf(p) ==
    LET left == AtLeast(p.cycleRemain, 0)
        used == AtLeast(p.cycleUsed, 0)
    IN  IF p.size > left + used THEN Part(left, p.size - left, p.size)
        ELSE Part(left, used, left + used)

(* and the lifetime figures. *)
lifetimeOf(p) ==
    LET left == AtLeast(p.remain, 0)
        used == AtLeast(p.used, 0)
        size == IF p.size <= 0 THEN left + used ELSE p.size
    IN  Part(left, IF used = 0 /\ size > left THEN size - left ELSE used, size)

packageRemainUsed(p) ==
    IF p.cycleSize > 0 THEN cycleOf(p)
    ELSE IF p.cycleRemain > 0 \/ p.cycleUsed > 0 THEN unsizedCycleOf(p)
    ELSE lifetimeOf(p)

Plus(sum, p) ==
    LET part == packageRemainUsed(p)
    IN  [remain |-> sum.remain + part.remain, used |-> sum.used + part.used,
         size |-> sum.size + part.size, packs |-> sum.packs + 1]

(* What the sizes say to be used, if that is more. *)
reconciled(sum) == [sum EXCEPT !.used = AtLeast(@, sum.size - sum.remain)]

(* TotalDosage is a floor of the size. *)
folded(all, dosage) ==
    LET sum == FoldLeft(Plus, NoTotals, all)
        sized == IF sum.size > 0 THEN reconciled(sum) ELSE sum
    IN  IF dosage > sized.size THEN reconciled([sized EXCEPT !.size = dosage]) ELSE sized

----------------------------------------------------------------------------
(* math.Round, of quarters. *)
rounded(quarters) == (quarters + 2) \div 4

Done(sum) == lookup' = [lookup EXCEPT !.pc = "done", !.sum = sum]
Fail == lookup' = [lookup EXCEPT !.pc = "failed"]

ReadList == lookup' = [lookup EXCEPT !.pc = "read"]

(* The limit must be positive before it is rounded. *)
parseEnterpriseCredits ==
    LET used == rounded(account.credit)
        size == rounded(account.limit)
    IN  IF account.limit <= 0 THEN Fail
        ELSE Done([remain |-> AtLeast(size - used, 0), used |-> used, size |-> size, packs |-> 1])

(* A 404 means that the account has packages; other refusals, and figures  *)
(* that are missing, negative or no numbers, fail.                         *)
fetchEnterpriseCreditsCN ==
    CASE account.enterprise = "unsupported" -> ReadList
      [] account.enterprise = "failing" -> Fail
      [] OTHER -> parseEnterpriseCredits

(* Where the configuration asks for it, the enterprise endpoint first. *)
fetchUserResource ==
    /\ lookup.pc = "start"
    /\ IF account.enterprise = "unasked" THEN ReadList ELSE fetchEnterpriseCreditsCN
    /\ UNCHANGED <<account, listed, grown>>

(* A 5xx is repeated, any other failure ends the lookup (billingCall). *)
CallFails ==
    /\ lookup.pc = "read"
    /\ \/ Fail
       \/ IF lookup.attempts < billingRetries THEN lookup' = [lookup EXCEPT !.attempts = @ + 1] ELSE Fail
    /\ UNCHANGED <<account, listed, grown>>

PageOf(list, page) == SubSeq(list, (page - 1) * pageSize + 1, AtMost(page * pageSize, Len(list)))

(* Mutant: a full page is taken for the last. *)
isLastFull(page, totalCount, read) == Len(page) <= pageSize \/ (totalCount > 0 /\ totalCount <= read)

isLast(page, totalCount, read) == Len(page) < pageSize \/ (totalCount > 0 /\ totalCount <= read)

(* fetchPersonalUserResource: the number of packages and the dosage are    *)
(* those of the first page.                                                *)
ReadPackages ==
    LET page == PageOf(account.packs, lookup.page)
        all == lookup.all \o page
        first == lookup.page = 1
        totalCount == IF ~first THEN lookup.totalCount ELSE IF account.tells THEN Len(account.packs) ELSE 0
        dosage == IF first THEN account.dosage ELSE lookup.dosage
    IN
    /\ lookup.pc = "read"
    /\ lookup' = IF isLast(page, totalCount, Len(all))
                   THEN [lookup EXCEPT !.pc = "done", !.all = all, !.sum = folded(all, dosage)]
                   ELSE [lookup EXCEPT !.page = @ + 1, !.attempts = 0, !.all = all,
                                       !.totalCount = totalCount, !.dosage = dosage]
    /\ listed' = IF first THEN account.packs ELSE listed
    /\ UNCHANGED <<account, grown>>

(* A check-in adds a package meanwhile.  The backend promises no order: it *)
(* comes behind any i of the others.                                       *)
Grant ==
    /\ lookup.pc = "read" /\ account.grants < MaxGrants
    /\ \E i \in 0 .. Len(account.packs) :
        /\ account' = [account EXCEPT !.grants = @ + 1, !.packs = InsertAt(@, i + 1, Granted)]
        /\ grown' = grown \union {part \in {"read", "counted"} :
                        i < IF part = "read" THEN Len(lookup.all) ELSE lookup.totalCount}
    /\ UNCHANGED <<lookup, listed>>

LookedUp == lookup.pc \in {"done", "failed"} /\ UNCHANGED balanceVars

BalanceNext == fetchUserResource \/ CallFails \/ ReadPackages \/ Grant \/ LookedUp

BalanceSpec == BalanceInit /\ [][BalanceNext]_balanceVars

----------------------------------------------------------------------------
isCreditsExhausted(sum) == sum.remain <= 0 /\ (sum.used > 0 \/ sum.size > 0 \/ sum.packs > 0)

(* What a package has left by its own figures: of a cycle with a size the  *)
(* smaller of what remains and what is not used, unless more is used than  *)
(* there is; else what remains.                                            *)
Left(p) ==
    LET unused == IF p.cycleUsed \in 0 .. p.cycleSize THEN p.cycleSize - p.cycleUsed ELSE p.cycleSize
        remains == IF p.cycleSize > 0 THEN AtMost(p.cycleRemain, unused)
                   ELSE IF p.cycleRemain > 0 \/ p.cycleUsed > 0 THEN p.cycleRemain ELSE p.remain
    IN  AtLeast(remains, 0)

PlusLeft(n, p) == n + Left(p)

LeftIn(list) == FoldLeft(PlusLeft, 0, list)

Finished == lookup.pc = "done"
ByPackages == account.enterprise \in {"unasked", "unsupported"}

(* The spending is never understated, and a balance that is reported is    *)
(* whole (fetchPersonalUserResource, packageRemainUsed): every package     *)
(* that was on the list when the reading began is in it, wherever the      *)
(* pages end, however often a page was asked for and wherever packages are *)
(* granted meanwhile, so that no account is called exhausted that had a    *)
(* credit left (isCreditsExhausted) -- unless the backend told the number  *)
(* of packages and a grant came among those, which pushes the last of them *)
(* behind the end of the reading.  And no package is in it twice, unless a *)
(* grant came before what was read, which pushes a package into the next   *)
(* page.                                                                   *)
BalanceIsWhole ==
    Finished =>
        IF ByPackages
          THEN /\ lookup.sum.used >= lookup.sum.size - lookup.sum.remain
               /\ "counted" \notin grown =>
                    /\ lookup.sum.remain >= LeftIn(listed)
                    /\ isCreditsExhausted(lookup.sum) => \A i \in DOMAIN listed : Left(listed[i]) = 0
               /\ "read" \notin grown => lookup.sum.remain <= LeftIn(account.packs)
          ELSE isCreditsExhausted(lookup.sum) => account.limit - account.credit < 4
=============================================================================
