---------------------------- MODULE ChunkStream ----------------------------
(***************************************************************************)
(* The frame-by-frame pipeline of a streamed answer: NormalizeFrames and   *)
(* FlushFrames of internal/upstream/markup_chunks.go over the              *)
(* ChunkNormalizer of sse.go. Ids, usage figures and unknown fields of a   *)
(* frame are left out; its text, calls and finish reason are kept.         *)
(***************************************************************************)
EXTENDS Markup, FiniteSets, Filter

\* A tool call fragment without the index OpenAI requires.
NoIndex == -1

Fragment(index, id, name, args) == [index |-> index, id |-> id, name |-> name, args |-> args]

Fragments == [index : Int, id : STRING, name : STRING, args : Seq(STRING)]

\* One data line of the upstream; delta tells whether its choice has one,
\* framed whether the payload follows "data: " as it is.  The streamed paths
\* strip the prefix in every form (stripDataPrefix); the folded one passes
\* over a line in another.
Payload(kind, text, calls, finish) ==
  [kind |-> kind, text |-> text, calls |-> calls, finish |-> finish, delta |-> TRUE, framed |-> TRUE]

PayloadKinds == {"chunk", "multi", "usage", "junk", "error", "done"}

\* Only a line with a choice has text, calls or a finish reason, and the
\* upstream's ids are not the ones the plugin makes.
IsPayload(p) ==
  /\ p \in [kind : PayloadKinds, text : Seq(Pieces), calls : Seq(Fragments),
            finish : STRING, delta : BOOLEAN, framed : BOOLEAN]
  /\ p.kind \notin {"chunk", "multi"} => p.text = <<>> /\ p.calls = <<>> /\ p.finish = ""
  /\ \A c \in ToSet(p.calls) : c.id # "made"

Done == Payload("done", <<>>, <<>>, "")
Junk == Payload("junk", <<>>, <<>>, "")
ErrorLine == Payload("error", <<>>, <<>>, "")
UsageLine == Payload("usage", <<>>, <<>>, "")
TwoChoices(text) == Payload("multi", text, <<>>, "")
Text(text) == Payload("chunk", text, <<>>, "")
Calls(calls) == Payload("chunk", <<>>, calls, "")
Finish(text, reason) == Payload("chunk", text, <<>>, reason)
\* A closing line whose choice has a finish reason and no delta object.
BareFinish(reason) == [Finish(<<>>, reason) EXCEPT !.delta = FALSE]
\* A line with "data:" and no space, with the prefix twice or with none.
Unframed(p) == [p EXCEPT !.framed = FALSE]

\* One frame handed to the client.
Frame(kind, text, calls, finish) ==
  [kind |-> kind, text |-> text, calls |-> calls, finish |-> finish]

ChunkFrame(p) == Frame(p.kind, p.text, p.calls, p.finish)

\* MarkupChunkNormalizer: the repairer (gone when repair = FALSE), the next
\* index for a converted call, whether a finish went out, and the indexes
\* whose first fragment went out (toolCallSeen).
NewMarkupChunkNormalizer ==
  [repair |-> TRUE, hold |-> <<>>, inBlock |-> FALSE,
   nextIndex |-> 0, finished |-> FALSE, toolCallSeen |-> {}]

----------------------------------------------------------------------------
\* stripToolCallNames: only the first fragment of an index carries a name.
slot(call) == IF call.index = NoIndex THEN 0 ELSE call.index

stripToolCallNames(calls, seen) ==
  [i \in DOMAIN calls |->
     IF slot(calls[i]) \in seen \union {slot(calls[j]) : j \in 1 .. (i - 1)}
       THEN [calls[i] EXCEPT !.name = ""] ELSE calls[i]]

\* ChunkNormalizer.Normalize on a chunk; the other kinds pass as they are.
Normalize(n, frame) ==
  [n     |-> [n EXCEPT !.toolCallSeen = @ \union {slot(c) : c \in ToSet(frame.calls)}],
   frame |-> [frame EXCEPT !.calls = stripToolCallNames(@, n.toolCallSeen)]]

encodeNext(acc, frame) ==
  LET one == Normalize(acc.n, frame)
  IN [acc EXCEPT !.n = one.n, !.frames = Append(@, one.frame)]

encode(n, frames) ==
  LET acc == FoldLeft(encodeNext, [n |-> n, frames |-> <<>>], frames)
  IN [n |-> acc.n, frames |-> acc.frames, valid |-> TRUE, done |-> FALSE]

finishOnlyFrame(reason) == Frame("chunk", <<>>, <<>>, reason)

markupCallFrame(index, name) ==
  Frame("chunk", <<>>, <<Fragment(index, "made", name, <<"{", "}">>)>>, "")

----------------------------------------------------------------------------
\* FlushFrames: held text goes out verbatim, and converted calls whose
\* upstream never sent a finish reason get one.
FlushFrames(n) ==
  LET tail == Flush(n)
      text == IF tail = <<>> THEN <<>> ELSE <<Frame("chunk", tail, <<>>, "")>>
      ends == n.nextIndex > 0 /\ ~n.finished
      fin  == IF ends THEN <<finishOnlyFrame("tool_calls")>> ELSE <<>>
      left == [n EXCEPT !.hold = <<>>, !.inBlock = FALSE, !.finished = @ \/ ends]
  IN IF ~n.repair THEN [n |-> n, frames |-> <<>>, valid |-> TRUE, done |-> FALSE]
     ELSE encode(left, text \o fin)

\* Mutant: what is held is forgotten when a structured line comes.
passStructuredUnflushed(n, p) ==
  LET last == Normalize([n EXCEPT !.repair = FALSE], ChunkFrame(p))
  IN [n |-> last.n, frames |-> <<last.frame>>, valid |-> TRUE, done |-> FALSE]

\* A line that ends the repair: what is held goes out first.
passStructured(n, p) ==
  LET flushed == FlushFrames(n)
      last    == Normalize([flushed.n EXCEPT !.repair = FALSE], ChunkFrame(p))
  IN [n |-> last.n, frames |-> Append(flushed.frames, last.frame),
      valid |-> TRUE, done |-> FALSE]

\* A single choice with text: text, then converted calls, then the finish.
repairText(n, p) ==
  LET fed     == Feed(n, p.text)
      ending  == p.finish # ""
      visible == fed.emit \o (IF ending THEN Flush(fed) ELSE <<>>)
      shown   == IF p.delta THEN visible ELSE <<>>
      reason  == IF p.finish = "stop" /\ n.nextIndex + Len(fed.calls) > 0
                   THEN "tool_calls" ELSE p.finish
      made    == [i \in DOMAIN fed.calls |-> markupCallFrame(n.nextIndex + i - 1, fed.calls[i])]
      left    == [n EXCEPT !.hold = IF ending THEN <<>> ELSE fed.hold,
                           !.inBlock = ~ending /\ fed.inBlock,
                           !.nextIndex = @ + Len(fed.calls),
                           !.finished = @ \/ ending]
  IN encode(left,
       IF made = <<>> THEN <<Frame("chunk", shown, <<>>, reason)>>
       ELSE <<Frame("chunk", shown, <<>>, "")>> \o made
              \o (IF ending THEN <<finishOnlyFrame(reason)>> ELSE <<>>))

NormalizeFrames(n, p) ==
  CASE p.kind = "done" -> [FlushFrames(n) EXCEPT !.valid = FALSE, !.done = TRUE]
    [] p.kind = "junk" ->
         [n |-> n, frames |-> <<ChunkFrame(p)>>, valid |-> FALSE, done |-> FALSE]
    [] p.kind = "error" ->
         LET flushed == FlushFrames(n)
         IN [flushed EXCEPT !.frames = Append(@, ChunkFrame(p))]
    [] p.kind = "multi" \/ p.calls # <<>> -> passStructured(n, p)
    [] p.kind = "usage" \/ (p.kind = "chunk" /\ p.calls = <<>> /\ ~n.repair) ->
         encode(n, <<ChunkFrame(p)>>)
    [] OTHER -> repairText(n, p)

----------------------------------------------------------------------------
(* What the client puts together from the frames                           *)

\* All text, in order.
withText(acc, f) == acc \o f.text

ClientText(frames) == FoldLeft(withText, <<>>, frames)

\* All fragments, in order.
withCalls(acc, f) == acc \o f.calls

ClientFragments(frames) == FoldLeft(withCalls, <<>>, frames)

\* All finish reasons, in order.
withFinish(acc, f) == IF f.finish = "" THEN acc ELSE Append(acc, f.finish)

ClientFinishes(frames) == FoldLeft(withFinish, <<>>, frames)
=============================================================================
