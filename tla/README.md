# Verification of the WorkBuddy plugin

TLA+ models of workbuddy2plus-plugin, a native plugin of CLIProxyAPI (CPA, the
*host*) that serves chat requests with Tencent CodeBuddy accounts: it keeps the
accounts' credentials alive, watches their credits, decides which account a
request goes to, discovers the models each account may use, and translates the
traffic. The models are checked by TLC on small instances; what is proved for
all values of the constants is checked by TLAPS.

## 1. Inventory

### Parts, state, operations

| Part | Source | State it keeps | Operations |
|---|---|---|---|
| account health | `internal/pool/{entry,cooldown,degrade,transition,state}.go` | per account: cooling deadline and kind, model cooldowns, breaker (strikes, exponent, deadline), degradation, dead-session strikes, `disabled`, `manualDisabled` | the outcome of a request (success, 429, 402, 5xx, 4xx, dead session, ban), check-in result, operator |
| pool persistence | `internal/pool/persist*.go` | `state.json`, `dirty`, Redis snapshot | periodic flush, flush on close, load |
| selection | `internal/pool/{pick,realm,pool}.go` | `usedSeq`, `lastUsed`, `exploreLast`, prices, leases | Pick and variants, Acquire/Release, SyncToDir |
| directory watch | `internal/pool/watch.go` | last fingerprint | poll and reload |
| routing | `plugin/{scheduler,active_auth,wb_pool}.go` | `activeAuthID` | `scheduler.pick`, panel selection, default selection on a dashboard load, report of outcomes to the pool |
| model readiness | `plugin/{model_readiness,models}.go` | per account a slot with a generation and a published snapshot, per identity a sequence, one metadata flight | `ensureForAuth`, `markAuthNotStarted`, replacing the configuration |
| model store, model sources | `plugin/model_store.go`, `plugin/model_source_*.go`, `internal/upstream/*models*.go`, `*_catalog.go` | cache files with backups | load, atomic save, fetch, merge |
| credential lifecycle | `plugin/{lifecycle,policy,authfile,host_auth}.go` | the host's credential files, save throttle | reconcile, disable, enable, delete, rewrite the note |
| keepalive | `plugin/keepalive.go` | – | daily refresh, mark a dead session |
| check-in | `plugin/checkin.go` | one mutex per account, statistics | daily and manual check-in |
| panel | `plugin/{panel*,management,overview}.go`, `panel.html` | settings, log ring | dashboard, toggle, select |
| account cache | `plugin/cache.go` | plan, check-in and credits per account; flights | single-flight fetch, invalidate |
| billing | `plugin/{billing,credits_handler}.go` | – | packages to a balance, check-in and trial calls |
| login | `plugin/oauth.go`, `internal/auth/auth.go` | pending login states | start, poll, refresh, parse |
| growth, travel, trial | `plugin/wb_{growth,travel}.go`, `internal/upstream/{growth_*,travel,trial,report}.go` | done-today marks, adoption generation | daily sweeps, claims |
| usage | `plugin/{usage,wb_usage}.go` | cached answer, flight | publish a request's usage, query the bills |
| panel record | `plugin/{panel_store,panel_metrics}.go` | rows per stream, dirty marks, files | append, load, flush |
| configuration | `plugin/{usage_config,desensitize}.go` | current configuration, proxy route | configure, reconfigure |
| dispatch, streaming | `plugin/{main,stream,payload,wb_upstream,host_bridge}.go` | streams, callbacks | execute, execute_stream |
| upstream client, SSE | `internal/upstream/{client,sse,idle,dsml,...}.go` | parser state of a stream | attempts, frame normalisation |
| request shaping | `internal/upstream/{payload,tool_pairing,headers,...}.go`, `internal/session` | session ids | pure transformations |
| proxy, redaction, logging | `plugin/{proxy,redact,desensitize}.go`, `internal/logfmt` | proxy snapshot | pure transformations |

### How the parts interact

The host calls the plugin concurrently: `scheduler.pick` for every chat request,
then an executor. Routing filters the host's candidates, honours the panel's
selection, else draws from the pool (selection), which reads the health of the
accounts. The executor's outcome goes back into the pool and, for a hard credit
error, starts a reconcile of the credential file. Beside the requests run the
flusher (5 s), the check-in and lifecycle ticks, the daily keepalive, and
whatever the operator does in the panel. They share, each under a lock of its
own: the pool (`p.mu`), `activeAuthID`, the account cache, the readiness slots,
and the credential file, which the host may rewrite at any time as well.

### What is hard

* outcomes of concurrent requests reach an account in any order;
* a crash between an outcome and its flush, and half-elapsed penalties that are
  read back;
* critical sections that are short: a value is read in one and acted upon in
  another (routing, credential files, cache);
* overlapping loads of one identity's models, with configuration and credential
  replaced under them;
* upstream answers that are wrong once;
* waiting: single flights, joiners, a non-reentrant mutex per account;
* files that are replaced in several system calls, with readers beside them;
* lists read page by page while they grow, at their end or anywhere;
* streams cut anywhere, and markup that a chunk boundary divides.

`PROJECT.json` lists each at its line under `hazards`, with the properties aimed
at it or the reason why none is.

### What makes each part correct

* *Account health*: a penalty fires exactly at its threshold, stays under its
  cap, ends at its deadline whatever else arrives, and only the events meant to
  lift it do. Across a restart the verdict is the one that was saved.
* *Selection*: all ways of selecting record use alike; bursts spread; nothing
  selectable is starved for want of a price.
* *Routing*: the answer is one of the offered accounts, with credits if one has;
  no healthy candidate is missed; every call is answered.
* *Model readiness*: newer generations win, the cache file never goes back, what
  is served was saved, and nobody waits for ever.
* *Credential lifecycle*: an account is deleted only when it was exhausted,
  disabled ones come back only on purpose, exhausted ones leave and refilled
  ones return, and the lock always comes free.
* *Requests*: the body is one the backend accepts; every request has one outcome
  on every path; streamed and folded answers are the same completion.
* *Stores*: a reader of the model cache sees a value that was saved, never a state
  in between; a file recognised as a later version's is left alone; a row reaches the disk.
* *Queries*: a bill and a balance are read whole and nothing is counted twice; a
  login has one end; spent credits do not come back from a cache.
* *Tasks*: a process asks for one reward a day; what the morning could not do the evening
  does; two check-ins of one account never overlap.

## 2. Modules

| Module | Models | Instance |
|---|---|---|
| `Account` | one entry of the pool and its record in `state.json` | `MCPool` |
| `Selection` | picking from several accounts | `MCPool` |
| `Routing` (extends `Selection`) | `scheduler.pick` over the pool and the panel's selection | `MCRouting` |
| `ModelReadiness` | loading and publishing model catalogs | `MCModelReadiness` |
| `AuthFile` | one credential file and all jobs that rewrite it | `MCAuthFile` |
| `Filter` | the loops that keep some elements of a list, as a fold | `MCExecutor` |
| `RequestBody` (uses `Filter`) | the passes that shape an outbound body | `MCExecutor` |
| `Markup`, `ChunkStream` (extends `Markup`) | tool calls written as text; the frame normaliser | `MCExecutor` |
| `Completion` (extends `ChunkStream`) | folding a stream into one completion, and its repair | `MCExecutor` |
| `UpstreamError` | classification of refusals | `MCExecutor` |
| `Executor` (extends these) | one request from body to outcome | `MCExecutor` |
| `ModelStore` | one cache file with its backup, call by call | `MCStores` |
| `CacheRegister` | what a cache file promises: the abstract specification of `ModelStore` | `MCStores` |
| `UsageQuery` | the panel's usage view over the accounts' bills | `MCStores` |
| `Login` | browser logins under way, and the configuration that blocks them | `MCStores` |
| `Balance` | the lookup of an account's credits | `MCStores` |
| `DailyTasks` | the scheduler, the activity and the travel sweep | `MCTasks` |
| `AccountCache` | the cached details of an account and the jobs that read and write them | `MCTasks` |
| `PanelStore` | the panel's record of requests, credits and tasks | `MCTasks` |
| `AccountProofs` | theorems about `Account`, and about `AuthFile` for any number of jobs | – |
| `StoreProofs` | theorems about `ModelStore` (with the refinement of `CacheRegister`), `Login`, `Balance` and `UsageQuery` | – |
| `ModelReadinessProofs` | theorems about `ModelReadiness` | – |
| `RoutingProofs` | theorems about `Selection` and `Routing` | – |
| `TaskProofs` | theorems about `DailyTasks`, `PanelStore` and `AccountCache` | – |
| `ExecutorProofs` | theorems about `Executor`: outcome and outbound body | – |
| `AnswerProofs` | theorems about `Executor`: the answer | – |
| `FoldTheorems` | what a left fold computes, for every sequence: induction over data | – |

Definitions carry the name of the function they model; `PROJECT.json` maps each
to its lines. An operator whose comment begins with "Mutant:" is no part of the
model: it is a plausible mistake in the definition that follows it, and
replacing that definition by it must violate the property `PROJECT.json` names.

**Account.** Every method of the pool holds `p.mu` and changes one entry, so an
action is a whole method. Time is discrete: a deadline is kept as the time left,
so a state does not grow with the clock. Go's zero time is told apart only where
the code does (`breakerUntil`, `Never`). `Tick` moves memory and file together,
since the file holds absolute times. `stateOverview` is what is written,
`Restart` what is read back, field by field with the same conditions.
`CooldownFixed`, `ReenableIfCredits` and a few others are methods of the pool
without a caller in the plugin; they are kept because the package exports them.

**Selection.** Health and prices are inputs. Weights bias a draw but exclude no
account (every weight is at least 1), so a draw is any member of the short list.
`usedSeq` is kept as a rank, `lastUsed` as the time since, both of which are all
that the code compares.

**Routing.** A call is a process; a step is a critical section: reading the
selection, writing it, one draw. The host's order of candidates and Go's random
draw are nondeterministic. `selectedBy` is a history variable.

**ModelReadiness.** A step is a section of `configCommitMu`, the slot's mutex and
the identity's or the metadata's mutex, a wait on a channel, or one file or
network operation. A catalog is the sequence number of the call that fetched it.
The configuration may list models of its own (`configured`).

**AuthFile.** A job is a process whose steps are its host and upstream calls. A
credential is the number of refreshes behind it; a balance is one of four
verdicts of `policy.go`. The mutex is held from `Enter` to the save. Failures of
the host and of upstream are counted down from `MaxGlitches`; a failing lookup
may look like an empty or an exhausted account. `spent` and `foundDead` are
history variables.

**RequestBody, Markup, ChunkStream, Completion, UpstreamError.** Pure operators
on abstract data. A message keeps its role, its calls and the call it answers; a
text is a sequence of pieces in which a marker of the markup is two pieces, so
that a chunk may end inside it; an error body is the set of markers it holds and
where. The passes of `PrepareBodyOptWithEffortsAndDefault` run in the order of
the code, and the normaliser keeps the state of the code's structs. A data line is
`framed` if it starts with `data: `, space included: `Aggregate` drops the others
(`sse.go:196`), while `stripDataPrefix` (`stream.go:301`) reads them all the same.

**Executor.** The thread of one request on one of the three paths (`execute`
folds, `collect` returns all frames, `pump` emits them from a goroutine), beside a
client that may leave. A step is the preparation, one answer or refusal, one line
read, one frame emitted, the end of the reader, the report. The outcome goes to
the log row, the pool's penalty and the credit check.

**ModelStore.** A save is its system calls in order (temporary file, sync, rotate
the backup, replace the primary, sync the directory), each of which may fail; the
process may die and, on Unix, the machine may lose power between any two. A power
loss leaves any directory entry written since the last sync. On Windows a rename
over a file is a removal and a rename. A load takes no lock and reads primary and
backup in two steps, each of which may fail though the file is there. A file is
decoded before its schema is looked at, so one whose fields have other types
(`fits`) is no file of a later version to this code. `CacheRegister` has one value,
the values a power loss may leave, and a pending save; the refinement mapping is in
`ModelStore`.

**UsageQuery.** Queries join the flight or the cache; the flight reads each
account's bill page by page, in any order after the first, from the first endpoint
that delivers all pages. Rows are billed at the front meanwhile.

**Login.** A state is started, polled (two requests per poll, polls overlap),
expires, and is dropped by the janitor. `configure` sets the proxy route and may
block requests.

**Balance.** The enterprise endpoint where configured, else the packages page by
page with retries; the folding of one package's figures; the verdict
`isCreditsExhausted`. Enterprise amounts are in quarters of a credit. Packages are
granted anywhere on the list while it is read, since nothing says how the backend
orders it; the history variable `grown` notes whether one came before what was read
or among those whose number was told.

**DailyTasks.** The scheduler wakes at each hour with work and launches what is
due; a sweep makes one call of the backend per step and keeps its marks in memory;
the panel starts sweeps and prunes marks; the process restarts. A call that fails
may have been carried out. `seen.redeems` counts the rewards asked for on a day,
through restarts, and how many of them an earlier process asked for. The backend is
external: it grants rewards to streaks and refuses an adoption without a chat.

**AccountCache.** A job is a dashboard load, a chat's invalidation, a scheduled or
a manual check-in, a credits query or the claim of a trial, step by step: the entry
read, the flight joined or started, the calls, the merge, the store. A balance is
a version number, so that an older one is recognised.

**PanelStore.** Append, load on first use, and a flush that takes a snapshot under
the mutex and writes the files without it; reads and writes fail, the process dies.

**MCPool, MCStores, MCTasks.** The parts in these instances share no variables. `focus`
chooses which part a behaviour follows while the others keep their initial state,
so one run explores the sum of the parts and not their product. TLC's coverage lists
such a run as one action; its counts line by line show that every action of the parts
takes place. `AccountRestart` is `MCPool` with the entry alone (`EntrySpec`).

## 3. Runs

Each `.cfg` states its bounds. TLC explores each instance completely.

| Run | Properties | Shows |
|---|---|---|
| `Pool` | `CountersBelowThreshold`, `HardCoolingEndsAtFour`, `PenaltiesBounded`, `UsedOrderConsistent`, `OnlySuccessLiftsBreaker`, `BurstSpreads`, `UnmeasuredKeepsBeingTried` | All outcomes, bans, check-ins and the operator in any order on one account: no strike counter rests at its threshold, hard cooling ends at the next 04:00, no penalty exceeds its cap, only a success lifts the breaker. Selecting among two accounts: `usedSeq` and `lastUsed` agree after every way of selecting; a burst goes round the winning tier; an unmeasured account keeps getting requests beside free ones. |
| `AccountRestart` | `BreakerConsistent`, `RestartKeepsVerdict`, `ManualStatePersisted`, `RetriesDoNotPinAccount` | With a crash at any moment: the breaker's exponent and deadline come back together or not at all; once flushed, a restart changes no verdict; the operator's decision reaches the file; failing retries do not postpone recovery. |
| `RoutingCalls` | `DrawsSuffice`, `CallsReturn` | The draw budget suffices although draws land on accounts that were not offered and health changes meanwhile; every call is answered. |
| `ReadinessCatalog` | `ServedCatalogWasSaved`, `ReturnsFinalUnlessReplaced`, `LateCallsDoNotPublish`, `CatalogNeverRegresses`, `CallsReturn` | Two calls over two accounts of one identity, a bad credential, resets, lost saves, a reconfiguration: late generations do not publish, the cache file never goes back, a served catalog was saved, a joiner returns a final state, every call returns. |
| `Requests` | `OneOutcome`, `NoTextLost`, `PathsAgree`, `BodyAccepted`, `ResultsFollowCalls`, `RequestEnds` | One request on each path with every body, answer, refusal, broken or cut stream of the instance and a client that leaves: one row, one close, one error frame if and only if it failed, the pool told of a success if and only if it is one, the credit checked whenever the pool bans the account for want of it; nothing of the text lost; streamed and folded completions agree; the body has no half pairs or unsupported levels; results stand behind their calls; the request ends. |
| `Stores` | `LoadLinearizes`, `CountedOnce`, `VerdictFinal`, `BalanceIsWhole`, `ImplementsRegister`, `FutureKept` | Saves and a load of a cache file with failures, deaths and power losses implement a register and leave a file alone that is recognised as a later version's; a usage answer counts each request once and is whole or an error; a poll that tells the end of a login has the last word; a balance is whole, wherever packages are granted meanwhile, and an account with credits is not called exhausted. |
| `Tasks` | `RedeemOncePerLife`, `AdoptedByEvening`, `SpentCreditsGone`, `CheckinsSerial`, `SettledRowsOnDisk` | Two days of daily tasks, the account cache beside two or three jobs, and the panel's record: a process asks for at most one reward of a day, whatever fails and whoever triggers a sweep, a rejected adoption is made up for the same evening, a dropped balance does not come back, check-ins of an account are serial, rows reach the disk. |
| `AuthLifecycle` | `OnlyExhaustedDeleted`, `DisabledKept`, `ExhaustedIsShelved`, `CreditsBringBack`, `LockComesFree` | The scheduler beside each other kind of job, with a login, a dying session and one failing call: deletion only of an account that was exhausted, the disabled bit kept by notes and refreshes, exhausted accounts shelved, refilled ones brought back, the lock free again. |
| `RoutingSelection`, `AuthSessionDead`, `AuthCredential`, `TasksRestart` | one each | Violations, see section 6. |

Where the code's promise has a gap, the property names it and leaves out exactly
that case: `SpentCreditsGone` a store that was under way when the balance was
dropped, `CheckinsSerial` a mutex pruned while held, `AdoptedByEvening` a day with
a failed call, a restart or a sweep that overran its hour, `SettledRowsOnDisk` a
file that could not be read and rows appended beside a flush, `LoadLinearizes` a
load whose read of a file failed and on Windows one that two saves overlap,
`NoTextLost` a closing line without a delta,
`PathsAgree` truncated answers, lines not framed by `data: ` and the other streams
listed in section 6, `RedeemOncePerLife` what an earlier process asked for,
`FutureKept` a later version's file that this version cannot decode,
`VerdictFinal` a poll that was past its lookup when the end was told,
`BalanceIsWhole` a package granted among those whose number was told (as to what
is missed) or before what was read (as to what is counted twice),
`DrawsSuffice` a pool that other calls outgrew (`outgrown`, section 4).
Section 6 lists what the code does in those cases.

**Bounds.** *Account, Selection, Routing, ModelReadiness, AuthFile*: thresholds are
1 or 2, so that both the counted and the firing strike occur; durations of 1 to 3
ticks with caps that are hit by the second doubling; a day of 2 or 4 ticks, so that
04:00 falls before, on and after an event. `MaxStreak`, `MaxRetry` and `MaxHits`
stop counters one step after the cap is reached, beyond which the durations no
longer change. Two workers, calls or accounts suffice for every race the code has
(each shared value is read and written by one actor with at most one other in
between); `RoutingCalls` uses three accounts, so that one is neither offered nor
drawn at first. `ReadinessCatalog` does not check deadlock: each member of `Calls`
makes one call, and a run in which all have returned is over.

*Requests*: answers of up to four lines (`MaxLines`), enough for a block whose
two markers are both cut, or for a call between two pieces of text, with an end
behind it; an unclosed block of more than six pieces (`MaxBlock`) is given up, and
the texts can be twice as long. Kinds of line that the instance leaves out (junk, usage,
several choices) are covered by the theorems about `OneOutcome` and `NoTextLost`. *Stores*: two catalogs, eight contents a file may have at
the start, up to three saves during one load (`MaxOverlap`); bills of three pages
of two rows, which is also the cap on pages, with two more rows billed meanwhile
and two failures; three polls over two states; a package with every combination of
six figures in {-1, 0, 1, 3}, lists of up to five packages over pages of two, so
that lists end inside, at and behind a page, one grant anywhere on them while they
are read,
enterprise figures from nothing used to over the limit, one retry. *Tasks*: a day
of five hours with a morning, an activity and an evening hour, run into the second
day (`LastHour`), two troubles; two or three jobs and one trouble; two streams of
at most two rows, three appends, two faults.

**Fairness.** `Account` (run `AccountRestart`): the clock runs and the
flusher's ticker fires. `Selection` (run `Pool`): requests for each model keep coming (without them nothing has to be
tried) and time passes. `Routing`, `ModelReadiness`: a goroutine that can take
its next step does; every fetch has a timeout, so it ends well or badly.
`Executor`: the same for the request's thread, whose reads end by the client's
timeout or the idle reader. `AuthFile`: the same for a job's steps; strong fairness
for taking the mutex, because a `sync.Mutex` hands itself to a waiter that starved
for 1 ms; the check-in ticker keeps starting jobs; the 30 s of the throttle pass.
Nothing is assumed of the operator, the host, logins, spending, clients or
failures. `Stores` and `Tasks` state safety only and assume no fairness.

## 4. Proofs

`AccountProofs` proves for all thresholds, durations, models, bounds and sets of
events, with saving that may fail:

* `TypeCorrect`: `Spec => []TypeOK`, by one step per action; the durations are
  typed by the lemma `BackoffDurations`, which also gives their caps.
* `BreakerCorrect`: `Spec => []BreakerConsistent`. The property is not inductive:
  a restart takes exponent and deadline from the file, where a deadline that ran
  out after the save is 0 while the exponent is still there. The inductive
  invariant adds the same agreement for the saved record and that an open
  breaker's remaining time is at most the duration of the last trip; the latter
  makes the next trip an extension and carries the third theorem.
* `BreakerOnlyLiftedBySuccess`: `Spec => OnlySuccessLiftsBreaker`.

The second half of the module is about penalties and the saved record. Its lemmas named `...Frame` say which
actions can touch a group of variables, so that each invariant is argued only
for those.

* `CountersCorrect`: `Spec => []CountersBelowThreshold`. The invariant also bounds
  the counts in the saved record, which a restart takes over.
* `OnlyOperatorReturns`: `Spec => OnlyOperatorReturnsAccount` (only the operator or a
  restart from an older record brings a shelved account back), from the types alone;
  this property has no run.
* `RestartCorrect`: `Spec => []RestartKeepsVerdict`, for `SaveMayFail = FALSE`. A
  failed save clears `dirty` all the same, so without this assumption the property
  is false (see section 6). The invariant `SavedInv` says what record and memory
  agree on while the pool is clean, where an elapsed breaker or model cooldown may
  differ; `DiskCooldownsNamed` says that the load drops no deadline that still runs.
* `HardCoolingCorrect`: `Spec => []HardCoolingEndsAtFour`. The invariant `CoolingInv`
  has hour plus time left in `{Four, Day + Four}` for memory and file alike, also
  when the clock passes midnight.
* `PenaltiesCorrect`: `Spec => []PenaltiesBounded`, from `CapInv` (degradation and
  model cooldowns, in memory and in the file), `CoolingInv` and the breaker's
  invariant.

The second half of `AccountProofs` is about any set of jobs of any kind on one
credential file.

* `LockCorrect`: `AuthSpec => []TypeInv`, and with the other variables `AuthTypeCorrect`:
  `AuthSpec => []AuthTypeOK`: the lock is held exactly by the job that is
  inside a section of it. Every step of a job is shown to be a `Move` (takes the
  lock, keeps it, leaves it, or has nothing to do with it, and writes the file only
  while holding it), once for all invariants.
* `DisabledCorrect`: `AuthSpec => DisabledKept`. The invariant `BitInv` says that a job
  about to write a note or tokens under the lock carries the bit that is in the
  file, however long ago it started.
* `DeleteCorrect`: `AuthSpec => OnlyExhaustedDeleted`, for `MaxGlitches <= 1`: with two
  wrong answers in a row the code does delete an account that had credits. The
  invariant `DeleteInv` counts what a job must have seen at each place on its way to
  the deletion.

`StoreProofs` has four parts, which share no variables. The model store, for any set
of catalogs and any contents of the two files, on both platforms:

* `StoreCorrect`: `Spec => []StoreInv`. The invariant has the types; `DiskCovers`,
  that what a power loss may bring back contains what is there now; `CopyFirst`,
  that the backup holds a copy of a good primary before that is touched and that no
  save gets past its reading while a file of a later version is there; and
  `FutureUntouched`, that such a file has no other entry beside it to fall back to.
* `StoreImplementsRegister`: `Spec => ImplementsRegister`. `InitRefines` maps the
  initial states; `StepRefines` shows, one case per action, that every step is a
  step of `CacheRegister` or leaves its variables alone. What a load reports changes
  at one step of a save only, the rename over the primary: on Windows the removal
  before it shows the backup, which by `CopyFirst` holds the same catalog.
* `FutureSafe`: `Spec => FutureKept`. Recognised means decoded: what is said of a
  later file does not hold of one whose fields have changed their types.
* `LoadCorrect`: `Spec => []LoadLinearizes`. Between its two reads a load depends on
  the backup alone. `BetweenReads` says that the backup then holds something that was
  readable, unless a read failed; on Windows that a single overlapping save touches the backup only before
  it makes the primary good, which is why the exception starts at the second save.

Logins, for any states, polls and number of upsets:

* `LoginCorrect` (`LoginSpec => []LoginInv`) and `VerdictCorrect`
  (`LoginSpec => []VerdictFinal`). A login is forgotten in the step that tells its
  end (`EndedIsGone`), so a later poll does not get past its lookup.

Balances, for lists of any length, any figures and any page size:

* `BalanceCorrect`: `BalanceSpec => []BalanceIsWhole`, wherever packages are granted.
  That the pages read so far are the beginning of the list, which serves when the list
  grows behind them, is no invariant once a package comes before their end. What stays
  true is `NothingSkipped`: what was read, and what is behind as many places of the list
  as it is now, amount to at least what was listed; a grant among or before the pages only
  pushes a package into what is still to be read (`LeftAfterGrant`), and a page moves what
  it holds from one side to the other (`PageContinues`). `CountHolds`: while no grant came
  among the packages whose number was told, these still begin the list. At the end
  `AllRead` has both bounds, which `LeftOfBoth` and `BehindSplits`, inductions over
  the list, turn into the totals.

The usage view, for any accounts, queries, page size, number of endpoints, failures
and rows billed meanwhile:

* `CountedCorrect`: `UsageSpec => []CountedOnce`. `PagesOK`: unless the bill moved, a
  page is its own part of the bill. `PagesAreTheBill` (the parts together are the
  bill), `RowsKeptOnce` (the loop keeps no id twice) and `AllRowsKept` (rows that
  differ are all kept) are inductions over pages and rows.

`ModelReadinessProofs`, for any calls, accounts, credentials, identities and
configurations. One invariant, `ReadinessInv`, carries four theorems: a call's
generation and configuration are never ahead of the account's and agree with its key
while they are equal (`KeyOK`); a catalog a call has chosen is on disk, and one it
may still save has a later sequence than what an older configuration committed
(`CatalogOK`); a call gives up only when replaced (`OutcomeOK`); a joiner waits for a
call of its own generation (`JoinOK`); the file is what was committed last
(`IdentityOK`).

* `ServedCorrect`: `[]ServedCatalogWasSaved`; `ReturnsCorrect`:
  `[]ReturnsFinalUnlessReplaced`; `CatalogCorrect`: `CatalogNeverRegresses`;
  `LateCorrect`: `LateCallsDoNotPublish`.

`RoutingProofs`, for any accounts, models, realms, calls and health.

* `UsedOrderCorrect`: `SelectionSpec => []UsedOrderConsistent`. Agreement of the two
  orders is not inductive. That a selection puts its account last needs every rank to
  be at most the number of accounts used, and that a removal keeps this bound needs
  the ranks to differ: two facts about cardinalities. `BurstCorrect`: `BurstSpreads`.
* `RoutingUsedOrderCorrect`: the same for concurrent calls of `scheduler.pick`.
* `DrawsCorrect`: `Spec => DrawsSuffice`. `DrawOK` says that draws are entries of the
  pool that are no open candidates, and that draws made and draws left add up to the
  budget. The attempt to prove the property as it stood before failed for a reason:
  the budget is counted once (`wb_pool.go:95`), and calls that add entries to the pool
  meanwhile can outgrow it by more than the number of candidates, which takes at least
  six accounts and two calls. The property now names this case (`outgrown`).

`TaskProofs`:

* `RedeemCorrect`: `Spec => []RedeemOncePerLife` for any accounts, hours, tiers and
  troubles. The count needs that a day asked for stays reserved while the process lives
  (`AskedReserved`) and that a sweep holding a reservation has not asked yet
  (`HeldNotAsked`). A restart empties the reservations and starts the count of a life
  anew; what becomes of the day is `RedeemOncePerDay`, which is violated (section 6).
* `AdoptedCorrect`: `Spec => []AdoptedByEvening` for any accounts and any hours with
  one of activity, not the first of the day, before the last one of travel
  (`ScheduleAssumption`; the code has 10:00, and 9:00 and 21:00). `LoopOK`: the
  scheduler does not sleep through the hour of a task (`NextTime`, by the least
  element of a set of hours). `DayOK`, for a clean day: in the hour of activity the
  sweep is awaited, or under way with every account still to be fed by it, the
  panel's sweeps too, or over, and then all are `Topped`: they have chatted enough
  and a try marked with the present generation is under way or has given a buddy. In
  the last hour of travel the same holds of the visits. `BackendStep` (chats and
  buddies are never taken back) and `MarksOK` (no mark is of a later generation)
  carry it from step to step.
* `SettledCorrect`: `PanelSpec => []SettledRowsOnDisk` for any streams, caps and
  faults. While something is marked the files may lag; `MemoryOK` says that memory
  has the rows due, `SnapshotOK` that a snapshot of a stream nobody appended to is
  that memory.
* `SerialCorrect`: `CacheSpec => []CheckinsSerial` for any jobs, from `LockInv`: whoever
  is past the lock holds a mutex of its own.
* `SpentCorrect`: `CacheSpec => []SpentCreditsGone`, from `FloorInv`: entry, flights and
  jobs about to store hold no balance below the floor that the last drop set, and a
  joiner gets one that is not below its own.

  Both rest on `CacheTypeOK`, which also says that a flight, and whom a joiner waits
  for, are jobs there are. One lemma per step of a job says what the step does to its
  record (`FetchDetailsEffect`, `StoreDetailsEffect`, ...); the invariants are shown
  from these effects and not from the actions.

`ExecutorProofs`, for all bodies, data lines, refusals and lengths of answer:

* `OutcomeCorrect`: `Spec => []OneOutcome`. The invariant follows the thread: before
  its outcome nothing is recorded (`NothingYet`), after it there is one row and the
  client was told what it says (`Recorded`), and only the deferred calls close the
  stream (`ClosedOnce`). What the pool was told agrees with the row and the credit check
  (`PoolTold`): the first test of `Classify` that holds exists (`ClassifyDecides`), only
  the two for credits lead to the ban until 04:00 (`HardIsCredit`), and the cut text of
  an error that `collect` classifies has no marker that the whole, which the check sees,
  has not.
* `OptionsCorrect`: `Spec => []OptionsSent`, the part of `BodyAccepted` that is about the
  options of a body: limits, tool choice, thinking and effort level. One lemma per
  pass says what it establishes and what it leaves; they are put together in the
  order in which the code runs the passes.

* `BodyCorrect`: `Spec => []BodyAccepted`, for histories of any length. `cleanupOrphanToolCalls`
  cuts calls and results down to one set of ids: `CleanedSymmetric` shows that this leaves
  no half pair when an id can be in two calls or two results, and the passes after it
  touch neither calls nor ids.
* `ResultsCorrect`: `Spec => []ResultsFollowCalls`. The loop of `repackToolResultBlocks` keeps
  `Sorted`: every batch in what it has laid out is followed by all results of its calls
  seen so far (`Run`), but for the open batch, whose results are in the group. At the end
  that is `Grouped`, and the cleanup, which cuts each batch to the calls with a result,
  makes it `Contiguous`.

`AnswerProofs`, for the same:

* `TextCorrect`: `Spec => []NoTextLost`, for answers of any length whose text is cut into
  lines anywhere. The argument has four layers, each a relation between what went in,
  what came out and what is held:
  `Balanced(t, k, u)` (of the text `u`, `t` is still text and the calls `k` were made), kept by
  each turn of the loop of `Feed` (`FeedTurn`) with the text still to be looked at as a
  part of `t`; `Calling`, kept by the loop of `encode`, which strips the name of no made
  call because their indexes are fresh (`NormOK`: all indexes seen are below `nextIndex`);
  `Carried(frames, held, u)`, which each line through `NormalizeFrames` keeps, composed
  line by line (`CarriedOn`); and `TextInv`, which says of the request that its text has
  arrived, is queued or is held, that nothing is held once the end was flushed, and
  that a client who is still there at the end has nothing on its way.

`FoldTheorems` makes induction over data available. The library's induction theorems
take an operator as a parameter, which the provers cannot instantiate, but its
theorem on minimal elements of a well-founded order does not: it gives induction for
*sets* of numbers (`SetInduction`). From it follow the existence of the function that
`FoldLeft` chooses (`Folded` repeats its definition, so that an instance brings little else
along), what a fold yields step by step (`FoldTrace`, `FoldOfTrace`), that
an element appended is a step more (`FoldAppend`), and that what every step keeps
holds at the end (`FoldInvariant`), that folding two lists behind each other is folding
the second from where the first ended (`FoldConcat`), that what holds
may depend on how far the loop has come (`FoldHistory`), and induction over the
sequences themselves (`SeqInduction`). The other modules
instantiate it with the body of a loop; the value it starts from is a parameter of
each theorem.

A caution for whoever extends the proofs: given `[f EXCEPT ![i].a = v, ![i].b = w]`,
tlapm 1.4.5 passes only the first of the two updates on to the SMT solver, and then
proves what is not so. No action is written in this form; a record is replaced as a
whole, `![i] = [f[i] EXCEPT !.a = v, !.b = w]` (`Becomes` in `AccountCache`).

The proofs rest on the named assumptions of the modules: thresholds and durations
positive, the base not above the cap, bounds natural (`Account`); markers that are no
values (`AuthFile`, `ModelStore`, `PanelStore`, `Login`); finitely many accounts
(`Selection`); the order of the hours and the fields of an account at the backend
(`DailyTasks`); packages of integer figures (`Balance`); rows that are told apart
(`UsageQuery`); bodies made of the fields of a chat body and of messages, and data lines made of text,
fragments and a finish reason, where only lines with a choice have text or calls and
no id of the upstream is one of the plugin's own (`Executor`).
`ShiftAssumption` states the two facts about powers of two that the provers do not
know. TLC evaluates all of them.

Only model-checked:

* every liveness property (`CallsReturn`, `RequestEnds`, `RetriesDoNotPinAccount`,
  `ManualStatePersisted`, `UnmeasuredKeepsBeingTried`, `ExhaustedIsShelved`,
  `CreditsBringBack`, `LockComesFree`): they need fairness and ENABLED, which the
  prover does not handle;
* `PathsAgree`: it compares two folds of different shape (frame by frame and over the
  whole text), and needs that `Feed` gives the same for every cutting of a text, and
  that the sort behind `SetToSortSeq` exists.

## 5. Not modelled

* *Without a caller in the plugin*: the Redis snapshot, leases and `SyncToDir` of the
  pool, the directory watch, the upstream client's own streaming loop, refresh, the file functions of `internal/auth`, `applyExhaustedPolicy`
  (`lifecycle.go:234`). `NoteModelCost` has no caller either, so that measured prices
  arise in the package `pool` only; `Selection` has them, being the package's contract. A model of them would say nothing about the running program.
* *Pure text*: HTML, headers, ids, YAML and loosely typed JSON, redaction, log lines,
  the rewriting of file names, desensitising of texts. No property is about them.
* *Catalog merging* (`model_source_*.go`, `*_catalog.go`, `modelsdev.go`): a function
  of two answers without shared state. That a fetch succeeds or fails is an action
  of `ModelReadiness`.
* *Plumbing*: the C ABI, the method table, the import of a credential, the credits
  query over all accounts (a loop over the one-account query of `AccountCache`).
* *Small branches left out*: `http.NewRequest` failing (`main.go:726`, `:817`), which
  would end a request without a row but needs an invalid constant URL; the tests for an
  empty account or model in `wb_pool.go:117` (a request has both); `mergeInto` asks
  whether a message has calls, the code whether it has the key `tool_calls`
  (`tool_pairing.go:286`), which tells apart a message with an empty list of calls;
  `makeupYesterday` and `claimGrowthLottery` are one step each, nothing else changing
  in between but the day; a package is neither removed nor spent while a balance is
  looked up.
* *Weights of a draw*: every weight is at least 1, so a draw is any member of the
  short list; probabilities are outside of TLA+.

## 6. Findings

1. `RoutingSelection` – *the operator's selection can be lost.* `scheduler.go:86`
   says that a panel selection holds while the account is a live, non-exhausted
   candidate. `pickActiveAuth` reads the selection and writes its own choice in
   two critical sections; a selection made in between is overwritten.
2. `AuthSessionDead` – *a dead session can be enabled.* `keepalive.go:19` says
   that an account whose session is dead receives no traffic until the user logs
   in. A reconcile that saw the account disabled and refilled before the session
   died enables it afterwards.
3. `AuthCredential` – *a refreshed credential can be lost.* The lifecycle writers
   save the whole credential they read before the lock, over a newer one that a
   refresh saved in between.
4. `TasksRestart` – *a restart replays the claims of the day.* `wb_growth.go:7` and
   `:33` say that a restart cannot replay the claim chain or claim twice. The
   reservation is in memory only, so a process that is restarted on the day it asked
   for a reward, with or without an answer, asks a second time.

Observed while modelling, without a run of their own:

* *Pool and routing.* A soft limit that arrives during hard cooling shortens it
  (`cooldown.go:198`); a failed save is not repeated until the next change
  (`persist.go:102`); the plugin's own write of `activeAuthID` makes later calls
  bypass the pool (`scheduler.go:99`); `pickFromPool` can return a softly cooled
  account through the earliest-expiry fallback (`pick.go:232`).
* *Credential files.* A note whose read failed writes the disabled bit its job read
  earlier, and creates a file deleted meanwhile (`lifecycle.go:264`, `:89`).
* *Model store.* On Windows a load that two saves overlap can report no cache
  although there always was one. A file is unmarshalled before its schema is
  looked at (`model_store.go:171`, `:206`), so a later version's file in which a
  field has another type is a decoding error and is overwritten by the next save. A
  primary that is there but cannot be read makes a load return the older backup
  (`model_store.go:152`).
* *Tasks.* The scheduler launches the activity and travel sweeps without asking
  `activityEnabled` and `travelEnabled` (`checkin.go:101`), only the panel's trigger
  does, while the repository's `README.md:74` says that every task can be switched
  off. An activity sweep still
  running at 21:00 makes the second adoption wait a day; a failed agreement keeps
  the adoption's mark.
* *Account cache.* A balance that is dropped while a flight or a merge is storing
  comes back for one TTL. A failed manual check-in followed by a failed status probe
  caches "checked in today". Two overlapping credits queries write the same increase
  to the panel's record twice.
* *Billing.* The comment of `isTransientBillingErr` (`billing.go:110`) names transport
  failures, only 5xx texts are matched. When the backend
  tells the number of packages, one that is granted among them while the list is read
  pushes the last one behind the end of the reading (`billing.go:353`); one that is
  granted before what was read makes a package count twice. A positive `TotalDosage` with an empty list reads
  as exhausted. A check-in or trial answer with `data: null` is assigned into a nil
  map.
* *Usage.* Rows in the middle of a bill can be missed when rows are billed while its
  pages are read; `refresh=1` joins a flight that began earlier.
* *Panel record.* Rows appended while a flush writes lose their mark until the next
  append. After a failed read an append and a flush overwrite the file, which the
  comment in `loadLocked` rules out; a later successful load replaces the rows in
  memory.
* *Answers.* A closing line without a delta drops the text held by the normaliser; a
  real call with index 0 behind a call converted from markup loses its name; where a
  streamed and a folded answer differ: lines that start with `data:` and no space, with a
  repeated prefix or with none (`sse.go:196` against `stream.go:301`), the final `[DONE]`
  among them, count on the streamed path only; markup with an error line inside or with the
  finish reason `tool_calls` becomes a call on one path only, a name that a later
  fragment repeats with a change counts on the folded path only; a data line `null` after the first id is written into a nil map; an error
  frame inside a stream is folded into an empty success; a fragment with neither
  index nor id goes to the most recent call; `RepairAggregatedResponse` leaves
  truncated answers alone; `collect` classifies the first 200 characters of an error
  only; repacking before the cleanup leaves batches with orphaned results apart;
  `ParseRetryAfter`'s limit of 16 digits does not prevent an overflow.

## 7. Plan

The parts with state that the plugin runs are modelled. What is left:

1. *Proofs*: `PathsAgree`, by a scanner that reads a text piece by piece.
2. *Refinement*: an abstract scheduler (any offered account with credits)
   implemented by `Routing`; `CacheRegister` in the place of `ModelReadiness`'
   file.
3. *Runs*: the overwritten file of `PanelStore` and the switched-off tasks of
   `DailyTasks` (`Off` is in the model) as violations, once the maintainers have
   said which side is meant.
