------------------------------ MODULE Executor ------------------------------
(***************************************************************************)
(* One chat request through the plugin: handleExecExecute, handleExecStream*)
(* and pumpUpstreamStream (plugin/main.go, plugin/stream.go), the stream   *)
(* handle of plugin/host_bridge.go and the outcome hook publishUsage       *)
(* (plugin/usage.go, plugin/panel_metrics.go). The request's thread runs   *)
(* beside the client, who may go away at any moment.                       *)
(*                                                                         *)
(* Three paths: "execute" folds the answer into one completion, "collect"  *)
(* returns the cleaned frames in one piece, "pump" emits them one by one   *)
(* to the host stream from a goroutine of its own.                         *)
(***************************************************************************)
EXTENDS RequestBody, Completion, UpstreamError

CONSTANTS
  Bodies,      \* chat bodies a client may send
  Lines,       \* data lines the upstream may send
  Refusals,    \* answers with a status of 400 and more: <<status, body>>
  MaxLines     \* bound: lines of one answer

ASSUME BodyAssumption == \A b \in Bodies : IsChatBody(b) /\ b.messages \in Seq(Messages)

ASSUME LineAssumption == \A p \in Lines : IsPayload(p)

VARIABLES
  mode,        \* the path of this request
  pc,          \* where its thread is
  input,       \* the messages as the client sent them, until the body is sent
  body,        \* the outbound body until it is sent
  received,    \* data lines read so far
  norm,        \* the MarkupChunkNormalizer
  queue,       \* frames not yet emitted
  out,         \* frames the client has got
  listening,   \* the host still accepts frames for the stream
  readErr,     \* the reader ended with an error
  valid,       \* validEvents > 0
  handle,      \* the upstream stream: none, open or closed
  host,        \* [errors |-> error frames sent, closes |-> host.stream.close calls]
  marks,       \* first-token marks kept in ttfbTracker for this request
  log,         \* rows of the request log
  penalty,     \* what the pool was told
  checks,      \* credit checks started in the background
  answer       \* what the RPC returned

upstream == <<input, body, received, readErr, valid, handle>>
client == <<queue, out, listening, host>>
records == <<marks, log, penalty, checks>>
vars == <<mode, pc, norm, answer, upstream, client, records>>

streams == mode \in {"collect", "pump"}

Init ==
  /\ mode \in {"execute", "collect", "pump"}
  /\ pc = "idle" /\ input = <<>> /\ body = <<>> /\ received = <<>>
  /\ norm = NewMarkupChunkNormalizer
  /\ queue = <<>> /\ out = <<>> /\ listening = TRUE
  /\ readErr = FALSE /\ valid = FALSE /\ handle = "none"
  /\ host = [errors |-> 0, closes |-> 0]
  /\ marks = 0 /\ log = <<>> /\ penalty = "none" /\ checks = 0 /\ answer = "none"

----------------------------------------------------------------------------
(* The outcome                                                             *)

hasAssistantText(p) == p.kind \in {"chunk", "multi"} /\ p.text # <<>>

\* noteFirstToken: the first line with text of a pumped stream is marked.
noteFirstToken(p) ==
  marks' = IF /\ mode = "pump" /\ hasAssistantText(p)
              /\ \A q \in ToSet(received) : ~hasAssistantText(q)
             THEN marks + 1 ELSE marks

\* Mutant: the first-token mark is left in the tracker.
takeTTFBNever == marks' = marks

\* The mark of this request is taken, whatever its outcome.
takeTTFB == marks' = 0

\* One row; a success without a status is shown as 200.
recordRequest(failed, status) ==
  log' = Append(log, [failed |-> failed, ttfb |-> marks > 0,
                      status |-> IF ~failed /\ status = 0 THEN 200 ELSE status])

\* publishUsage: one row, the first-token mark is taken, the pool is told.
publishUsage(failed, status, errBody) ==
  /\ recordRequest(failed, status) /\ takeTTFB
  /\ penalty' = IF failed THEN applyUpstreamError(status, errBody) ELSE notePoolSuccess

\* streamEmitError; its own failure is ignored.
streamEmitError ==
  host' = IF mode = "pump" /\ listening THEN [host EXCEPT !.errors = @ + 1] ELSE host

\* The RPC's answer: the pump returned its own before it started.
return(result) == answer' = IF mode = "pump" THEN answer ELSE result

\* A failure that ends the request: outcome, error frame, answer.
fail(status, errBody) ==
  /\ publishUsage(TRUE, status, errBody)
  /\ streamEmitError
  /\ return("error")
  /\ pc' = "closing"

----------------------------------------------------------------------------
(* Before the upstream is called                                           *)

\* guardExecutorReadiness or parseStored refuses: no attempt is recorded.
Reject ==
  /\ pc = "idle"
  /\ pc' = "over" /\ answer' = "refused"
  /\ UNCHANGED <<mode, norm, upstream, client, records>>

\* wbPrepareBody; the stream RPC returns its empty answer here.
Prepare(b) ==
  /\ pc = "idle"
  /\ input' = b.messages
  /\ body' = PrepareChatBodyForRealm(b)
  /\ pc' = "prepared"
  /\ answer' = IF mode = "pump" THEN "streaming" ELSE answer
  /\ UNCHANGED <<mode, norm, received, readErr, valid, handle, client, records>>

\* hostHTTPDoStreamWithCallback fails: the proxy setting blocks every call,
\* the host refuses, or it has no stream for us.
OpenFails ==
  /\ pc = "prepared"
  /\ input' = <<>> /\ body' = <<>>
  /\ fail(0, PlainText)
  /\ UNCHANGED <<mode, norm, received, readErr, valid, handle, queue, out, listening, checks>>

\* A status of 400 or more: the body is drained, the outcome recorded, and
\* the credit is checked in the background when the body says it ran out.
OpenRefused(status, errBody) ==
  /\ pc = "prepared"
  /\ input' = <<>> /\ body' = <<>> /\ handle' = "open"
  /\ fail(status, IF mode = "collect" THEN wrapped(errBody) ELSE errBody)
  /\ checks' = IF isHardCreditError(status, errBody) THEN checks + 1 ELSE checks
  /\ UNCHANGED <<mode, norm, received, readErr, valid, queue, out, listening>>

OpenOK ==
  /\ pc = "prepared"
  /\ input' = <<>> /\ body' = <<>> /\ handle' = "open" /\ pc' = "reading"
  /\ UNCHANGED <<mode, norm, answer, received, readErr, valid, client, records>>

----------------------------------------------------------------------------
(* Reading                                                                 *)

\* What a backend may send after what it has sent: nothing but usage and
\* [DONE] follows the finish reason.
maySend(p) ==
  /\ Len(received) < MaxLines
  /\ (\E q \in ToSet(received) : q.finish # "") => p.kind \in {"usage", "done"}

\* The next line is cleaned and its frames are queued; the first line with
\* text sets the first-token mark of a pumped stream.
ReadLine(p) ==
  /\ pc = "reading" /\ queue = <<>> /\ maySend(p)
  /\ received' = Append(received, p)
  /\ LET next == NormalizeFrames(norm, p)
     IN IF streams
          THEN /\ norm' = next.n /\ queue' = next.frames
               /\ valid' = (valid \/ next.valid)
               /\ pc' = IF next.done THEN "flushing" ELSE pc
          ELSE /\ valid' = (valid \/ (p.framed /\ p.kind \notin {"junk", "done"}))
               /\ pc' = IF p.framed /\ p.kind = "done" THEN "flushing" ELSE pc
               /\ UNCHANGED <<norm, queue>>
  /\ noteFirstToken(p)
  /\ UNCHANGED <<mode, answer, input, body, readErr, handle, out, listening, host, log, penalty, checks>>

\* The body ends, cleanly or not. A read error is met before anything else
\* by the folded path and after the loop by the other two.
ReadEnds(err) ==
  /\ pc = "reading" /\ queue = <<>>
  /\ readErr' = err
  /\ pc' = "flushing"
  /\ UNCHANGED <<mode, norm, answer, input, body, received, valid, handle, client, records>>

\* streamEmit of the next frame; collected frames are only appended.
Emit ==
  /\ pc \in {"reading", "flushing", "settling"} /\ queue # <<>>
  /\ mode = "pump" => listening
  /\ out' = Append(out, Head(queue)) /\ queue' = Tail(queue)
  /\ UNCHANGED <<mode, pc, norm, answer, upstream, listening, host, records>>

\* The host rejects the frame: the pump stops and says nothing more.
EmitFails ==
  /\ pc \in {"reading", "flushing", "settling"} /\ queue # <<>>
  /\ mode = "pump" /\ ~listening
  /\ publishUsage(TRUE, 0, PlainText)
  /\ pc' = "closing"
  /\ UNCHANGED <<mode, norm, answer, upstream, client, checks>>

\* FlushFrames after the loop.
FlushTail ==
  /\ pc = "flushing" /\ queue = <<>>
  /\ LET last == FlushFrames(norm)
     IN IF streams THEN norm' = last.n /\ queue' = last.frames
        ELSE UNCHANGED <<norm, queue>>
  /\ pc' = "settling"
  /\ UNCHANGED <<mode, answer, upstream, out, listening, host, records>>

\* A read error, or an answer without a single valid line.
SettleFailed ==
  /\ pc = "settling" /\ queue = <<>> /\ (readErr \/ ~valid)
  /\ fail(IF mode = "collect" THEN 200 ELSE 0, PlainText)
  /\ UNCHANGED <<mode, norm, upstream, queue, out, listening, checks>>

\* The attempt counts as a success and the cached credits are dropped.
SettleOK ==
  /\ pc = "settling" /\ queue = <<>> /\ ~readErr /\ valid
  /\ publishUsage(FALSE, 0, PlainText)
  /\ return("ok")
  /\ pc' = "closing"
  /\ UNCHANGED <<mode, norm, upstream, client, checks>>

\* hostHTTPStream.Close: safe without a stream.
closeHandle == handle' = IF handle = "open" THEN "closed" ELSE handle

\* closeOnce.
streamClose == host' = IF mode = "pump" THEN [host EXCEPT !.closes = @ + 1] ELSE host

\* Mutant: the last step after a lost client never comes.
CloseIfListening ==
  /\ pc = "closing" /\ listening
  /\ pc' = "over"
  /\ closeHandle /\ streamClose
  /\ UNCHANGED <<mode, norm, answer, input, body, received, readErr, valid, queue, out, listening, records>>

\* The deferred calls: the upstream handle, then the host stream.
Close ==
  /\ pc = "closing"
  /\ pc' = "over"
  /\ closeHandle /\ streamClose
  /\ UNCHANGED <<mode, norm, answer, input, body, received, readErr, valid, queue, out, listening, records>>

\* The client disconnects and the host closes the stream.
ClientLeaves ==
  /\ mode = "pump" /\ pc \notin {"idle", "over"} /\ listening
  /\ listening' = FALSE
  /\ UNCHANGED <<mode, pc, norm, answer, upstream, queue, out, host, records>>

Over == pc = "over" /\ UNCHANGED vars

Step ==
  \/ Reject \/ OpenFails \/ OpenOK \/ Emit \/ EmitFails \/ FlushTail
  \/ SettleFailed \/ SettleOK \/ Close
  \/ pc = "idle" /\ \E b \in Bodies : Prepare(b)
  \/ pc = "prepared" /\ \E r \in Refusals : OpenRefused(r[1], r[2])
  \/ pc = "reading" /\ \E p \in Lines : ReadLine(p)
  \/ \E err \in BOOLEAN : ReadEnds(err)

Next == Step \/ ClientLeaves \/ Over

\* The thread never stops between two steps; the upstream call and every read
\* end because the HTTP client or the host times them out.
Spec == Init /\ [][Next]_vars /\ WF_vars(Step)

----------------------------------------------------------------------------
(* Correctness                                                             *)

started == answer # "refused" /\ pc # "idle"

\* A request ends with exactly one row in the log, its first-token mark
\* taken, its upstream handle closed and its host stream closed once; the
\* client that still listens has got exactly one error frame if and only if
\* the row says failed ("Always close the host stream exactly once on every
\* exit path", publishUsage "called at every executor outcome"). The pool hears
\* of a success if and only if the row is one, and an account that it lets rest
\* until the morning for want of credits has its credits checked at once: two
\* tests decide, of which one may see a part of the body only (Classify,
\* isHardCreditError).
OneOutcome ==
  /\ Len(log) <= 1 /\ host.closes <= 1
  /\ pc = "over" /\ started =>
       /\ Len(log) = 1 /\ marks = 0 /\ handle # "open"
       /\ (penalty = notePoolSuccess) = ~log[1].failed
       /\ penalty = "CooldownUntilTomorrow4AM" => checks = 1
       /\ mode = "pump" => /\ host.closes = 1
                           /\ listening => host.errors = IF log[1].failed THEN 1 ELSE 0
       /\ mode # "pump" => host.closes = 0 /\ answer = IF log[1].failed THEN "error" ELSE "ok"

\* The whole text of the lines read.
UpstreamText == ClientText(received)

\* The converted calls among the fragments.
Made(frames) == LET all == ClientFragments(frames) IN Only(all, {c \in ToSet(all) : c.id = "made"})

Count(s, piece) == Len(Only(s, {piece}))

Prose == Pieces \ ({"run", "other"} \union ToSet(markupOpen \o markupClose))

delivered == pc = "over" /\ log # <<>> /\ handle = "closed" /\ streams
               /\ (mode = "pump" => listening)

\* Feed's promise across any chunking: apart from converted blocks nothing of
\* the text is lost, prose keeps its order, and an invoke is either still in
\* the text or became a call. (A closing line without a delta object drops
\* what is held, so such streams are left out.)
NoTextLost ==
  delivered /\ received # <<>> /\ (\A p \in ToSet(received) : p.delta) =>
    LET text  == ClientText(out)
        made(name) == Len(Only(Made(out), {c \in ToSet(Made(out)) : c.name = name}))
    IN /\ Only(text, Prose) = Only(UpstreamText, Prose)
       /\ \A name \in {"run", "other"} :
            Count(UpstreamText, name) = Count(text, name) + made(name)

\* Streams on which both paths are meant to give the same answer: every line
\* framed as the folded path demands (the streamed one takes the others, too),
\* one choice, complete, no error between the lines, every fragment with an index and only
\* the first of an index with a name, and either real calls or an answer of
\* text alone, whose blocks are within the limit and which ends with "stop".
comparable ==
  LET real  == \E p \in ToSet(received) : p.calls # <<>>
      calls == ClientFragments(received)
  IN /\ \A p \in ToSet(received) : p.framed /\ p.kind \notin {"multi", "error"} /\ p.delta /\ p.finish # "length"
     /\ Last(received).kind = "done"
     /\ \A c \in ToSet(calls) : c.index # NoIndex
     /\ \A i, j \in DOMAIN calls : i < j /\ calls[i].index = calls[j].index => calls[j].name = ""
     /\ IF real THEN Made(out) = <<>>
        ELSE Len(UpstreamText) <= MaxBlock /\ \A p \in ToSet(received) : p.finish \in {"", "stop"}

\* A client that puts the streamed frames together gets the text, the calls
\* and the finish reason that the folded path returns for the same lines,
\* when these are comparable.
PathsAgree ==
  delivered /\ ~log[1].failed /\ comparable =>
    LET whole == wbAggregate(received)
        built == FoldLeft(mergeFragment, NewAggregate, ClientFragments(out))
        names == {built.toolCalls[i].name : i \in DOMAIN built.toolCalls}
        finishes == ClientFinishes(out)
    IN /\ ClientText(out) = whole.text
       /\ Cardinality(DOMAIN built.toolCalls) = Len(whole.calls)
       /\ names = {c.name : c \in ToSet(whole.calls)}
       /\ {built.toolCalls[i].args : i \in DOMAIN built.toolCalls}
            = {c.args : c \in ToSet(whole.calls)}
       /\ finishes # <<>> => finishes = <<whole.finish>>

\* What the backend rejects is gone from the body: half pairs, options it
\* does not accept (an unsupported effort level, thinking without one, token
\* limits, tool choices), thinking beside assistants without reasoning, and
\* the developer role.
BodyAccepted ==
  pc = "prepared" =>
    /\ Symmetric(body.messages)
    /\ OptionsAccepted(body)
    /\ body.model = "deepseek" /\ body.thinking = "enabled" =>
         \A m \in ToSet(body.messages) :
           m.role = "assistant" => m.rc # "none" /\ m.reasoning \notin {"none", ""}
    /\ \A m \in ToSet(body.messages) : m.role # "developer"

\* repackToolResultBlocks: the results of a batch end up right behind it,
\* whatever notices were put between them.
ResultsFollowCalls ==
  pc = "prepared" /\ Repairable(normalizeRoles(input)) => Contiguous(body.messages)

\* Every request ends, and a pumped stream is closed.
RequestEnds == <>(pc = "over")
=============================================================================
