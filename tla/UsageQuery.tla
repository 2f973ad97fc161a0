---------------------------- MODULE UsageQuery ----------------------------
(***************************************************************************)
(* The panel's usage view (wb_usage.go): queries share a cached answer and *)
(* one flight, the flight reads the bills of all accounts side by side,    *)
(* and a bill is read page by page from the first endpoint that delivers   *)
(* all of them.  A page is what the bill holds when it is read; rows are   *)
(* billed at the front meanwhile and shift the others.                     *)
(***************************************************************************)
EXTENDS Integers, Sequences, FiniteSets, SequencesExt

CONSTANTS
    Payers,           \* enabled accounts
    Bills,            \* bills at the start: functions from payers to rows, newest first
    NoRequestID,      \* rows without a request id
    usagePageSize, usageMaxPages,
    candidates,       \* number of endpoints tried
    Queries, Refreshing,   \* queries of the panel; those with refresh=1
    NoAnswer, BadGateway, Failed, Unread, NoOwner,
    MaxBilled,        \* bound: the largest row
    MaxFailures       \* bound: calls that fail

VARIABLES
    bill, billed,     \* per payer its rows, newest first; the last row billed
    usageCache,       \* NoAnswer, or an answer and whether its TTL is over
    usageFlight,      \* NoOwner or the query that fetches
    fetch,            \* payer -> the reading of its bill
    query,            \* query -> step and answer
    failures

usageVars == <<bill, billed, usageCache, usageFlight, fetch, query, failures>>

(* Rows are told apart, also those without an id: no bill has one twice.    *)
Distinct(rows) == \A i, j \in DOMAIN rows : rows[i] = rows[j] => i = j

ASSUME UsageAssumption ==
    /\ Bills \subseteq [Payers -> Seq(Int)]
    /\ \A b \in Bills : \A u \in Payers : Distinct(b[u]) /\ \A i \in DOMAIN b[u] : b[u][i] > MaxBilled
    /\ {usagePageSize, usageMaxPages, candidates} \subseteq Nat \ {0}
    /\ Refreshing \subseteq Queries
    /\ {MaxBilled, MaxFailures} \subseteq Nat

NoFetch == [pc |-> "none", endpoint |-> 1, pages |-> <<>>, since |-> <<>>, shifted |-> FALSE, counted |-> <<>>]

UsageInit ==
    /\ bill \in Bills
    /\ billed = 0
    /\ usageCache = NoAnswer
    /\ usageFlight = NoOwner
    /\ fetch = [u \in Payers |-> NoFetch]
    /\ query = [q \in Queries |-> [pc |-> "start", answer |-> NoAnswer]]
    /\ failures = 0

Breaks == failures < MaxFailures /\ failures' = failures + 1
Works == UNCHANGED failures

----------------------------------------------------------------------------
(* cachedUsage, before any flight is looked for. *)
cachedUsage(q) ==
    /\ query[q].pc = "start"
    /\ query' = [query EXCEPT ![q] =
                   IF q \notin Refreshing /\ usageCache # NoAnswer /\ ~usageCache.expired
                     THEN [pc |-> "done", answer |-> usageCache.answer]
                     ELSE [@ EXCEPT !.pc = "begin"]]
    /\ UNCHANGED <<bill, billed, usageCache, usageFlight, fetch, failures>>

(* beginUsageFlight: the first query fetches, the others wait, also those  *)
(* that ask for a refresh.                                                 *)
beginUsageFlight(q) ==
    /\ query[q].pc = "begin"
    /\ IF usageFlight = NoOwner
         THEN /\ usageFlight' = q
              /\ query' = [query EXCEPT ![q].pc = "list"]
         ELSE /\ query' = [query EXCEPT ![q].pc = "wait"]
              /\ UNCHANGED usageFlight
    /\ UNCHANGED <<bill, billed, usageCache, fetch, failures>>

(* handleUsageQueryFresh: without the list of accounts there is no answer. *)
handleUsageQueryFresh(q) ==
    /\ query[q].pc = "list"
    /\ \/ /\ Works
          /\ query' = [query EXCEPT ![q].pc = "fetch"]
          /\ fetch' = [u \in Payers |-> [NoFetch EXCEPT !.pc = "load"]]
       \/ /\ Breaks
          /\ query' = [query EXCEPT ![q] = [pc |-> "finish", answer |-> BadGateway]]
          /\ UNCHANGED fetch
    /\ UNCHANGED <<bill, billed, usageCache, usageFlight>>

----------------------------------------------------------------------------
(* One account: its credential, *)
hostAuthGetBundle(u) ==
    /\ fetch[u].pc = "load"
    /\ \/ Works /\ fetch' = [fetch EXCEPT ![u].pc = "first"]
       \/ Breaks /\ fetch' = [fetch EXCEPT ![u].pc = "failed"]
    /\ UNCHANGED <<bill, billed, usageCache, usageFlight, query>>

(* an endpoint that fails gives way to the next; after the last one the    *)
(* account is reported among the errors.                                   *)
NextEndpoint(f) ==
    IF f.endpoint = candidates THEN [f EXCEPT !.pc = "failed"]
    ELSE [NoFetch EXCEPT !.pc = "first", !.endpoint = f.endpoint + 1]

fetchUsagePage(rows, p) ==
    SubSeq(rows, (p - 1) * usagePageSize + 1,
           IF p * usagePageSize < Len(rows) THEN p * usagePageSize ELSE Len(rows))

(* the first page with the total: all there is, too much, or more pages to *)
(* read,                                                                   *)
firstPage(u) ==
    LET rows == bill[u]
        total == Len(rows)
        page == fetchUsagePage(rows, 1)
        read == [fetch[u] EXCEPT !.since = rows, !.shifted = FALSE]
    IN
    /\ fetch[u].pc = "first"
    /\ \/ /\ Works
          /\ fetch' = [fetch EXCEPT ![u] =
                CASE Len(page) < usagePageSize \/ Len(page) >= total ->
                       [read EXCEPT !.pc = "read", !.counted = page]
                  [] total > usageMaxPages * usagePageSize /\ Len(page) < total -> NextEndpoint(@)
                  [] OTHER ->
                       [read EXCEPT !.pc = "pages",
                          !.pages = [p \in 1..((total + usagePageSize - 1) \div usagePageSize) |->
                                        IF p = 1 THEN page ELSE Unread]]]
       \/ Breaks /\ fetch' = [fetch EXCEPT ![u] = NextEndpoint(@)]
    /\ UNCHANGED <<bill, billed, usageCache, usageFlight, query>>

(* the other pages, in any order, *)
otherPage(u) ==
    /\ fetch[u].pc = "pages"
    /\ \E p \in DOMAIN fetch[u].pages :
          /\ fetch[u].pages[p] = Unread
          /\ \/ Works /\ fetch' = [fetch EXCEPT ![u].pages[p] = fetchUsagePage(bill[u], p)]
             \/ Breaks /\ fetch' = [fetch EXCEPT ![u].pages[p] = Failed]
    /\ UNCHANGED <<bill, billed, usageCache, usageFlight, query>>

(* Mutant: rows are not recognised when they come a second time. *)
withRowRepeated(records, row) == Append(records, row)

(* and all of them in one list without the repeated request ids. *)
withRow(records, row) ==
    IF row \notin NoRequestID /\ Contains(records, row) THEN records ELSE Append(records, row)

Joined(rows, page) == rows \o page

collect(u) ==
    LET pages == fetch[u].pages IN
    /\ fetch[u].pc = "pages" /\ \A p \in DOMAIN pages : pages[p] # Unread
    /\ fetch' = [fetch EXCEPT ![u] =
                   IF \E p \in DOMAIN pages : pages[p] = Failed THEN NextEndpoint(@)
                   ELSE [@ EXCEPT !.pc = "read", !.counted = FoldLeft(withRow, <<>>, FoldLeft(Joined, <<>>, pages)),
                                  !.pages = <<>>]]
    /\ UNCHANGED <<bill, billed, usageCache, usageFlight, query, failures>>

----------------------------------------------------------------------------
(* aggregateUsage: how often a row went into the totals, the rollups by    *)
(* model, day and client being sums over the same rows; an account that    *)
(* failed is named and counts for nothing.                                 *)
aggregateUsage(f) ==
    IF f.pc = "failed" THEN Failed
    ELSE [count |-> [row \in ToSet(f.counted) \union ToSet(f.since) |->
                        Cardinality({i \in DOMAIN f.counted : f.counted[i] = row})],
          since |-> ToSet(f.since), shifted |-> f.shifted]

(* storeUsageCache *)
storeUsageCache(q) ==
    LET answer == [u \in Payers |-> aggregateUsage(fetch[u])] IN
    /\ query[q].pc = "fetch" /\ \A u \in Payers : fetch[u].pc \in {"read", "failed"}
    /\ usageCache' = [answer |-> answer, expired |-> FALSE]
    /\ query' = [query EXCEPT ![q] = [pc |-> "finish", answer |-> answer]]
    /\ fetch' = [u \in Payers |-> NoFetch]
    /\ UNCHANGED <<bill, billed, usageFlight, failures>>

(* finishUsageFlight: who waited gets the same answer. *)
finishUsageFlight(q) ==
    /\ query[q].pc = "finish"
    /\ usageFlight' = NoOwner
    /\ query' = [r \in Queries |->
                   IF r = q \/ query[r].pc = "wait" THEN [pc |-> "done", answer |-> query[q].answer]
                   ELSE query[r]]
    /\ UNCHANGED <<bill, billed, usageCache, fetch, failures>>

ExpireUsage ==
    /\ usageCache # NoAnswer /\ ~usageCache.expired
    /\ usageCache' = [usageCache EXCEPT !.expired = TRUE]
    /\ UNCHANGED <<bill, billed, usageFlight, fetch, query, failures>>

(* A request is billed. *)
BillRow(u) ==
    /\ billed < MaxBilled
    /\ billed' = billed + 1
    /\ bill' = [bill EXCEPT ![u] = <<billed'>> \o @]
    /\ fetch' = [fetch EXCEPT ![u].shifted = @ \/ fetch[u].pc = "pages"]
    /\ UNCHANGED <<usageCache, usageFlight, query, failures>>

AllAnswered == (\A q \in Queries : query[q].pc = "done") /\ UNCHANGED usageVars

UsageNext ==
    \/ \E q \in Queries : \/ cachedUsage(q) \/ beginUsageFlight(q) \/ handleUsageQueryFresh(q)
                          \/ storeUsageCache(q) \/ finishUsageFlight(q)
    \/ \E u \in Payers : hostAuthGetBundle(u) \/ firstPage(u) \/ otherPage(u) \/ collect(u) \/ BillRow(u)
    \/ ExpireUsage \/ AllAnswered

UsageSpec == UsageInit /\ [][UsageNext]_usageVars

----------------------------------------------------------------------------
(* What an answer says of one account: no row with an id counts twice, and  *)
(* a bill that stood still is counted whole.                                *)
RightlyCounted(a) ==
    a # Failed => /\ \A row \in DOMAIN a.count \ NoRequestID : a.count[row] <= 1
                  /\ ~a.shifted => \A row \in DOMAIN a.count :
                                     a.count[row] = IF row \in a.since THEN 1 ELSE 0

(* No request with an id is counted twice, however rows shift between the  *)
(* pages; and the totals of an account that is not among the errors are    *)
(* the whole bill, unless a row was billed between its first page and its  *)
(* last: never a part of it for a failed page, a lost endpoint or the cap  *)
(* on pages (fetchUsageRecords and aggregateUsage in wb_usage.go).         *)
CountedOnce ==
    \A q \in Queries : query[q].answer \notin {NoAnswer, BadGateway} =>
        \A u \in Payers : RightlyCounted(query[q].answer[u])

=============================================================================
