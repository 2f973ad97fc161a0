------------------------------- MODULE Markup -------------------------------
(***************************************************************************)
(* MarkupRepair of internal/upstream/dsml.go: tool calls that a model      *)
(* wrote into its text are cut out of the stream and turned into calls.    *)
(*                                                                         *)
(* Text is a sequence of pieces. The opening and the closing marker are    *)
(* two pieces each, so that a chunk can end inside one; the other pieces   *)
(* are a well-formed invoke of a tool ("run", "other") and prose ("x").    *)
(***************************************************************************)
EXTENDS Integers, Sequences, SequencesExt

CONSTANTS
  MaxBlock,    \* markupMaxBlockBytes: longest unclosed block, in pieces
  Permitted    \* invokes parseMarkupBlock accepts: the tools of the request

markupOpen == <<"<", ">">>
markupClose == <<"</", "/>">>

Pieces == {"<", ">", "</", "/>", "run", "other", "x"}

ASSUME MarkupAssumption == MaxBlock \in Nat /\ Permitted \subseteq {"run", "other"}

\* Where pattern starts in s, 0 when it does not occur.
Index(s, pattern) ==
  LET at == {i \in 1 .. (Len(s) - Len(pattern) + 1) :
               SubSeq(s, i, i + Len(pattern) - 1) = pattern}
  IN IF at = {} THEN 0 ELSE CHOOSE i \in at : \A j \in at : i <= j

\* First place where the opening marker stands, or where s ends inside it.
markupStartCandidate(s) ==
  LET at == {i \in DOMAIN s :
               LET rest == SubSeq(s, i, Len(s))
               IN IsPrefix(markupOpen, rest) \/ IsStrictPrefix(rest, markupOpen)}
  IN IF at = {} THEN 0 ELSE CHOOSE i \in at : \A j \in at : i <= j

\* A block is converted when it holds permitted invokes and nothing else.
parseMarkupBlock(inner) == inner # <<>> /\ ToSet(inner) \subseteq Permitted

NewMarkupRepair == [hold |-> <<>>, inBlock |-> FALSE]

\* One turn of the loop of Feed: st.s is the text still to be looked at.
feedOutside(st) ==
  LET i == markupStartCandidate(st.s)
      before == SubSeq(st.s, 1, i - 1)
      from   == SubSeq(st.s, i, Len(st.s))
  IN CASE i = 0 -> [st EXCEPT !.emit = @ \o st.s, !.s = <<>>, !.stop = TRUE]
       [] i # 0 /\ Len(from) < Len(markupOpen) ->
            [st EXCEPT !.emit = @ \o before, !.hold = from, !.s = <<>>, !.stop = TRUE]
       [] OTHER -> [st EXCEPT !.emit = @ \o before, !.inBlock = TRUE,
                              !.s = SubSeq(from, Len(markupOpen) + 1, Len(from))]

feedInBlock(st) ==
  LET k     == Index(st.s, markupClose)
      inner == SubSeq(st.s, 1, k - 1)
      rest  == SubSeq(st.s, k + Len(markupClose), Len(st.s))
      left  == [st EXCEPT !.s = rest, !.inBlock = FALSE]
  IN CASE k = 0 /\ Len(st.s) > MaxBlock ->
            [st EXCEPT !.emit = @ \o markupOpen \o st.s, !.inBlock = FALSE,
                       !.s = <<>>, !.stop = TRUE]
       [] k = 0 /\ Len(st.s) <= MaxBlock ->
            [st EXCEPT !.hold = st.s, !.s = <<>>, !.stop = TRUE]
       [] k # 0 /\ parseMarkupBlock(inner) -> [left EXCEPT !.calls = @ \o inner]
       [] OTHER -> [left EXCEPT !.emit = @ \o markupOpen \o inner \o markupClose]

feedStep(st, turn) ==
  IF st.stop THEN st ELSE IF st.inBlock THEN feedInBlock(st) ELSE feedOutside(st)

\* Feed: [emit] goes on as text, [calls] become tool calls, the repairer
\* keeps [hold] and [inBlock]. A turn that does not stop consumes a marker.
Feed(r, text) ==
  LET s == r.hold \o text
      start == [s |-> s, inBlock |-> r.inBlock, hold |-> <<>>,
                emit |-> <<>>, calls |-> <<>>, stop |-> FALSE]
  IN FoldLeft(feedStep, start, [turn \in 1 .. (Len(s) + 1) |-> turn])

\* Flush: what is still undecided goes out as it came.
Flush(r) == IF r.inBlock THEN markupOpen \o r.hold ELSE r.hold
=============================================================================
