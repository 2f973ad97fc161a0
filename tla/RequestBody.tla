---------------------------- MODULE RequestBody ----------------------------
(***************************************************************************)
(* The outbound chat body: PrepareBodyOptWithEffortsAndDefault of          *)
(* internal/upstream/payload.go with tool_pairing.go and thinking.go.      *)
(* The passes are operators on a body record and run in the order of the   *)
(* code. A text is only present or absent; a tool call is its id and       *)
(* whether it has a name; an effort level is its rank.                     *)
(***************************************************************************)
EXTENDS Integers, Sequences, FiniteSets, SequencesExt, Filter

CONSTANTS
  Supported,       \* ranks the model's supportedEfforts hold, {} when unknown
  DefaultEffort    \* rank of the model's declared default, Absent when none

\* A numeric field the body does not carry.
Absent == -1

\* A level that is not in effortRank.
OddEffort == 7

Ranks == 0 .. 6

ASSUME EffortAssumption == /\ Supported \subseteq Ranks
                           /\ DefaultEffort \in Ranks \union {Absent}

\* The hard-coded "high" of defaultDeepSeekEffort.
HighEffort == 4

\* The smallest max_tokens a gpt model accepts.
GptMinMaxTokens == 16

----------------------------------------------------------------------------
(* Messages                                                                *)

\* The fields of a body as the client sends it, besides its messages.
Models == {"deepseek", "gpt", "other"}
ThinkingTypes == {"absent", "enabled", "disabled", "odd"}
ToolChoices == {"absent", "auto", "required", "name", "none", "none object", "auto object",
                "required object", "function object", "nameless function object", "other object"}

IsChatBody(b) ==
  b \in [model : Models, global : BOOLEAN, messages : {b.messages}, tools : BOOLEAN,
         toolChoice : ToolChoices, maxTokens : Nat \union {Absent}, alias : Nat \union {Absent},
         thinking : ThinkingTypes, effort : Ranks \union {Absent, OddEffort}]

\* A message; text is its string content ("" when empty or absent), rc and
\* reasoning its reasoning_content and reasoning ("none": not a string).
Message(role, text, calls, id) ==
  [role |-> role, text |-> text, calls |-> calls, id |-> id,
   rc |-> "none", reasoning |-> "none"]

Call(id, named) == [id |-> id, named |-> named]

\* Every other role is treated as "user" is; a reasoning is not there ("none"),
\* empty, given ("r"), put together from two, or the blank of the backfill.
Roles == {"system", "developer", "user", "assistant", "tool"}
ReasoningTexts == {"none", "", "r", "joined", "blank"}

ToolCalls == [id : STRING, named : BOOLEAN]

Messages == [role : Roles, text : STRING, calls : Seq(ToolCalls), id : STRING,
             rc : ReasoningTexts, reasoning : ReasoningTexts]

HasCalls(m) == m.role = "assistant" /\ m.calls # <<>>

CallIds(m) == {c.id : c \in ToSet(m.calls)}

----------------------------------------------------------------------------
(* Tool pairing                                                            *)

\* mergeReasoningContent: the reasoning of the absorbed message is appended.
mergeReasoningContent(dst, src) ==
  IF src.rc \in {"none", ""} THEN dst
  ELSE [dst EXCEPT !.rc = IF dst.rc \in {"none", ""} THEN src.rc ELSE "joined"]

\* One step of mergeAdjacentToolCalls: an assistant message is folded into
\* the one before it when one of them only holds calls and the other can
\* take them.
mergeInto(out, m) ==
  LET prev == Last(out) IN
  IF m.role = "assistant" /\ out # <<>> /\ HasCalls(prev) /\ HasCalls(m) /\ m.text = ""
    THEN ReplaceAt(out, Len(out),
           mergeReasoningContent([prev EXCEPT !.calls = prev.calls \o m.calls], m))
  ELSE IF /\ m.role = "assistant" /\ out # <<>> /\ HasCalls(prev) /\ prev.text = ""
          /\ ~HasCalls(m) /\ m.text # ""
    THEN ReplaceAt(out, Len(out), mergeReasoningContent([prev EXCEPT !.text = m.text], m))
  ELSE Append(out, m)

mergeAdjacentToolCalls(messages) == FoldLeft(mergeInto, <<>>, messages)

\* The loop of repackToolResultBlocks. A group is open after an assistant
\* with calls: results of its calls are collected, what stands between them
\* is put behind them when the group ends.
NoGroup == [open |-> FALSE, want |-> {}, results |-> <<>>, between |-> <<>>]

NewGroup(ids) == [open |-> TRUE, want |-> ids, results |-> <<>>, between |-> <<>>]

closeGroup(st) == [out |-> st.out \o st.group.results \o st.group.between,
                   group |-> NoGroup]

outsideGroup(st, m) ==
  [out   |-> Append(st.out, m),
   group |-> IF HasCalls(m) THEN NewGroup(CallIds(m) \ {""}) ELSE NoGroup]

\* Mutant: whatever stands between two results ends the group.
repackStepStrict(st, m) ==
  LET g == st.group
  IN IF ~g.open THEN outsideGroup(st, m)
     ELSE IF m.role = "tool" /\ m.id \in g.want THEN [st EXCEPT !.group.results = Append(@, m)]
     ELSE outsideGroup(closeGroup(st), m)

repackStep(st, m) ==
  LET g == st.group
  IN CASE ~g.open -> outsideGroup(st, m)
       [] g.open /\ m.role = "tool" /\ m.id \in g.want ->
            [st EXCEPT !.group.results = Append(@, m)]
       [] g.open /\ \/ m.role = "tool" /\ m.id \notin g.want
                    \/ m.role # "tool" /\ g.results = <<>>
                    \/ m.role # "tool" /\ HasCalls(m) ->
            outsideGroup(closeGroup(st), m)
       [] OTHER -> [st EXCEPT !.group.between = Append(@, m)]

repackToolResultBlocks(messages) ==
  closeGroup(FoldLeft(repackStep, [out |-> <<>>, group |-> NoGroup], messages)).out

\* Ids of calls that have a name everywhere and a result somewhere.
keepCalls(messages) ==
  LET calls   == UNION {ToSet(m.calls) : m \in {x \in ToSet(messages) : HasCalls(x)}}
      results == {m.id : m \in {x \in ToSet(messages) : x.role = "tool"}}
  IN ({c.id : c \in calls} \intersect results)
       \ ({c.id : c \in {d \in calls : ~d.named}} \union {""})

hasTraffic(messages) ==
  \E m \in ToSet(messages) : \/ m.role = "tool" /\ m.id # ""
                             \/ HasCalls(m) /\ CallIds(m) # {""}

\* Mutant: only the results without a call are cut.
cleanupOrphanResults(messages) ==
  Only(messages, {m \in ToSet(messages) : m.role # "tool" \/ m.id \in keepCalls(messages)})

\* cleanupOrphanToolCalls: both sides are cut down to the same ids.
cleanupOrphanToolCalls(messages) ==
  LET keep    == keepCalls(messages)
      Cut(m)  == IF HasCalls(m)
                   THEN [m EXCEPT !.calls = Only(m.calls, {c \in ToSet(m.calls) : c.id \in keep})]
                   ELSE m
      cut     == [i \in DOMAIN messages |-> Cut(messages[i])]
  IN IF ~hasTraffic(messages) THEN messages
     ELSE Only(cut, {m \in ToSet(cut) : m.role # "tool" \/ m.id \in keep})

----------------------------------------------------------------------------
(* The other fields                                                        *)

normalizeRoles(messages) ==
  [i \in DOMAIN messages |->
     IF messages[i].role = "developer" THEN [messages[i] EXCEPT !.role = "system"]
     ELSE messages[i]]

\* Global accounts: the first message is a system message.
ensureConsoleSystem(messages) ==
  IF messages = <<>> \/ messages[1].role = "system" THEN messages
  ELSE <<Message("system", "fallback", <<>>, "")>> \o messages

\* The alias is always removed; its value is used only when it is positive
\* and max_tokens is not given.
translateMaxCompletionTokens(b) ==
  [b EXCEPT !.alias = Absent,
            !.maxTokens = IF b.maxTokens = Absent /\ b.alias > 0 THEN b.alias ELSE @]

clampGPTMinMaxTokens(b) ==
  IF b.model = "gpt" /\ b.maxTokens # Absent /\ b.maxTokens < GptMinMaxTokens
    THEN [b EXCEPT !.maxTokens = GptMinMaxTokens] ELSE b

\* tool_choice becomes a string or disappears; "none" takes the tools along.
normalizeToolChoice(b) ==
  CASE b.toolChoice \in {"none", "none object"} ->
         [b EXCEPT !.toolChoice = "absent", !.tools = FALSE]
    [] b.toolChoice = "auto object" -> [b EXCEPT !.toolChoice = "auto"]
    [] b.toolChoice = "required object" -> [b EXCEPT !.toolChoice = "required"]
    [] b.toolChoice = "function object" -> [b EXCEPT !.toolChoice = "name"]
    [] b.toolChoice = "nameless function object" -> [b EXCEPT !.toolChoice = "auto"]
    [] b.toolChoice = "other object" -> [b EXCEPT !.toolChoice = "absent"]
    [] OTHER -> b

ensureDeepSeekEffort(b) ==
  IF b.effort # Absent THEN b
  ELSE [b EXCEPT !.effort = IF DefaultEffort = Absent THEN HighEffort ELSE DefaultEffort]

\* injectThinking: deepseek thinks with an effort level, or not at all. A
\* type that is neither enabled nor disabled ("odd") is left as it is.
injectThinking(b) ==
  CASE b.model # "deepseek" -> b
    [] b.model = "deepseek" /\ b.thinking = "disabled" -> [b EXCEPT !.effort = Absent]
    [] b.model = "deepseek" /\ b.thinking \in {"enabled", "odd"} -> ensureDeepSeekEffort(b)
    [] OTHER -> ensureDeepSeekEffort([b EXCEPT !.thinking = "enabled"])

\* The loop that keeps the best rank seen so far not above the requested one,
\* then the loop that looks for the lowest.
normalizeReasoningEffort(b) ==
  LET below == {r \in Supported : r <= b.effort}
      best  == CHOOSE r \in below : \A s \in below : s <= r
      least == CHOOSE r \in Supported : \A s \in Supported : r <= s
  IN IF Supported = {} \/ b.effort \notin Ranks THEN b
     ELSE [b EXCEPT !.effort = IF below # {} THEN best ELSE least]

\* What backfillReasoningContent leaves on one assistant message.
backfilled(m) ==
  LET rc == CASE m.rc # "none" -> m.rc
              [] m.rc = "none" /\ m.reasoning # "none" -> m.reasoning
              [] OTHER -> ""
  IN [m EXCEPT !.rc = rc,
               !.reasoning = IF m.reasoning \notin {"none", ""} THEN @
                             ELSE IF rc # "" THEN rc ELSE "blank"]

backfillReasoningContent(b) ==
  LET trace == \E m \in ToSet(b.messages) : m.reasoning \notin {"none", ""} \/ m.rc # "none"
  IN IF b.model # "deepseek" \/ ~(b.thinking = "enabled" \/ trace) THEN b
     ELSE [b EXCEPT !.messages = [i \in DOMAIN b.messages |->
             IF b.messages[i].role = "assistant" THEN backfilled(b.messages[i])
             ELSE b.messages[i]]]

pairMessages(messages) ==
  cleanupOrphanToolCalls(repackToolResultBlocks(mergeAdjacentToolCalls(messages)))

PrepareBody(b) ==
  LET tokens == clampGPTMinMaxTokens(translateMaxCompletionTokens(b))
      roles  == [normalizeToolChoice(tokens) EXCEPT !.messages = normalizeRoles(@)]
      paired == [roles EXCEPT !.messages = pairMessages(@)]
  IN backfillReasoningContent(normalizeReasoningEffort(injectThinking(paired)))

PrepareChatBodyForRealm(b) ==
  LET prepared == PrepareBody(b)
  IN IF b.global THEN [prepared EXCEPT !.messages = ensureConsoleSystem(@)] ELSE prepared

----------------------------------------------------------------------------
(* What the backend accepts                                                *)

\* Every call has a result and every result a call.
Symmetric(messages) ==
  LET calls   == UNION {CallIds(m) : m \in {x \in ToSet(messages) : HasCalls(x)}}
      results == {m.id : m \in {x \in ToSet(messages) : x.role = "tool"}}
  IN calls \ {""} = results \ {""}

\* Fields without their messages: the effort level is one of the supported
\* ones or unknown to the table, deepseek thinks with a level or not at all,
\* the max_completion_tokens alias and too small a limit for a gpt model are
\* gone, and so are object-valued tool choices.
OptionsAccepted(b) ==
  /\ b.effort \in Ranks /\ Supported # {} => b.effort \in Supported
  /\ b.model = "deepseek" =>
       /\ b.thinking # "absent"
       /\ (b.thinking = "disabled") = (b.effort = Absent)
  /\ b.alias = Absent
  /\ b.model = "gpt" => b.maxTokens \notin 0 .. (GptMinMaxTokens - 1)
  /\ b.toolChoice \in {"absent", "auto", "required", "name"}

\* The results of a batch stand right behind it.
Contiguous(messages) ==
  \A i \in DOMAIN messages : HasCalls(messages[i]) =>
    LET n == Len(messages[i].calls)
    IN /\ i + n <= Len(messages)
       /\ {messages[j].id : j \in (i + 1) .. (i + n)} = CallIds(messages[i])

\* What a client may send and expect to be repaired: ids are used once, no
\* result without its call stands in the history, and the first result of a
\* batch comes right behind the batch (or behind its other half).
Repairable(messages) ==
  LET merged == mergeAdjacentToolCalls(messages)
      batch  == {i \in DOMAIN merged : HasCalls(merged[i])}
      Named(m) == \A c \in ToSet(m.calls) : c.named /\ c.id # ""
      Tools(id) == {j \in DOMAIN merged : merged[j].role = "tool" /\ merged[j].id = id}
  IN /\ \A i \in batch :
          /\ Named(merged[i])
          /\ \A x, y \in DOMAIN merged[i].calls :
               merged[i].calls[x].id = merged[i].calls[y].id => x = y
          /\ \A j \in batch \ {i} : CallIds(merged[i]) \intersect CallIds(merged[j]) = {}
          /\ i < Len(merged)
          /\ merged[i + 1].role = "tool" /\ merged[i + 1].id \in CallIds(merged[i])
     /\ \A j \in DOMAIN merged : merged[j].role = "tool" =>
          /\ Tools(merged[j].id) = {j}
          /\ \E i \in batch : /\ i < j
                              /\ merged[j].id \in CallIds(merged[i])
                              /\ \A k \in batch : k <= i \/ j < k
=============================================================================
