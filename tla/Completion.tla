----------------------------- MODULE Completion -----------------------------
(***************************************************************************)
(* The folded answer of the non-streaming path: Aggregate of               *)
(* internal/upstream/sse.go with truncation.go, then                       *)
(* RepairAggregatedResponse of dsml.go. Lines that begin with "data: " are *)
(* folded up to [DONE]; the whole-message form, which the streaming        *)
(* endpoint does not send, and the id, model and usage fields are left out.*)
(***************************************************************************)
EXTENDS ChunkStream, Functions, FiniteSetsExt

NoTools == [i \in {} |-> {}]

NewAggregate ==
  [content |-> <<>>, toolCalls |-> NoTools, toolOrder |-> <<>>, toolSeq |-> 0,
   idIndex |-> NoTools, finish |-> "stop", validEvents |-> 0, sawDone |-> FALSE]

\* nextToolIndex: the first free index from toolSeq on.
nextToolIndex(agg) ==
  CHOOSE i \in agg.toolSeq .. (agg.toolSeq + Cardinality(DOMAIN agg.toolCalls)) :
    /\ i \notin DOMAIN agg.toolCalls
    /\ \A j \in agg.toolSeq .. (i - 1) : j \in DOMAIN agg.toolCalls

\* The call a fragment belongs to: by index, by known id, a new one for a new
\* id, and the call opened last for a fragment with neither.
ownerOf(agg, call) ==
  CASE call.index # NoIndex -> call.index
    [] call.index = NoIndex /\ call.id \in DOMAIN agg.idIndex -> agg.idIndex[call.id]
    [] call.index = NoIndex /\ call.id = "" /\ agg.toolOrder # <<>> -> Last(agg.toolOrder)
    [] OTHER -> nextToolIndex(agg)

opensByNumber(agg, call) ==
  /\ call.index = NoIndex
  /\ call.id \notin DOMAIN agg.idIndex
  /\ call.id # "" \/ agg.toolOrder = <<>>

\* mergeToolCallDelta: identity and name are overwritten, arguments appended.
mergeToolCallDelta(merged, call) ==
  [id   |-> IF call.id # "" THEN call.id ELSE merged.id,
   name |-> IF call.name # "" THEN call.name ELSE merged.name,
   args |-> merged.args \o call.args]

\* One fragment of mergeToolCallsChunk.
mergeFragment(agg, call) ==
  LET idx    == ownerOf(agg, call)
      seen   == idx \in DOMAIN agg.toolCalls
      merged == IF seen THEN agg.toolCalls[idx] ELSE [id |-> "", name |-> "", args |-> <<>>]
      ids    == {call.id, merged.id} \ {""}
  IN [agg EXCEPT
        !.toolSeq   = IF opensByNumber(agg, call) THEN idx + 1 ELSE @,
        !.toolOrder = IF seen THEN @ ELSE Append(@, idx),
        !.idIndex   = [i \in ids |-> idx] @@ @,
        !.toolCalls = (idx :> mergeToolCallDelta(merged, call)) @@ @]

\* One line; nothing after [DONE] is read, and no line in another framing.
aggregateLine(agg, p) ==
  LET counted == [agg EXCEPT !.validEvents = @ + 1,
                             !.finish = IF p.finish # "" THEN p.finish ELSE @,
                             !.content = @ \o p.text]
  IN CASE agg.sawDone \/ ~p.framed \/ p.kind = "junk" -> agg
       [] ~agg.sawDone /\ p.framed /\ p.kind = "done" -> [agg EXCEPT !.sawDone = TRUE]
       [] OTHER -> FoldLeft(mergeFragment, counted, p.calls)

\* Arguments that are neither empty nor complete.
isTruncatedArguments(args) == args # <<>> /\ args # <<"{", "}">>

dropTruncatedToolCalls(calls) == Only(calls, {c \in ToSet(calls) : ~isTruncatedArguments(c.args)})

Aggregate(lines) ==
  LET agg   == FoldLeft(aggregateLine, NewAggregate, lines)
      order == SetToSortSeq(ToSet(agg.toolOrder), <)
      all   == [i \in DOMAIN order |-> agg.toolCalls[order[i]]]
      calls == IF agg.finish = "length" \/ ~agg.sawDone
                 THEN dropTruncatedToolCalls(all) ELSE all
  IN [ok |-> agg.validEvents > 0, text |-> agg.content,
      calls |-> calls, finish |-> agg.finish]

\* Mutant: the finish reason still says that nothing is to be called.
RepairAggregatedStops(resp) ==
  LET fed == Feed(NewMarkupRepair, resp.text)
  IN IF resp.calls # <<>> \/ resp.finish # "stop" \/ fed.calls = <<>> THEN resp
     ELSE [resp EXCEPT
             !.text = fed.emit \o Flush(fed),
             !.calls = [i \in DOMAIN fed.calls |->
                          [id |-> "made", name |-> fed.calls[i], args |-> <<"{", "}">>]]]

\* Markup in the text becomes calls only when there are no real ones and the
\* answer was not cut short.
RepairAggregatedResponse(resp) ==
  LET fed == Feed(NewMarkupRepair, resp.text)
  IN IF resp.calls # <<>> \/ resp.finish # "stop" \/ fed.calls = <<>> THEN resp
     ELSE [resp EXCEPT
             !.text = fed.emit \o Flush(fed),
             !.calls = [i \in DOMAIN fed.calls |->
                          [id |-> "made", name |-> fed.calls[i], args |-> <<"{", "}">>]],
             !.finish = "tool_calls"]

wbAggregate(lines) == RepairAggregatedResponse(Aggregate(lines))
=============================================================================
