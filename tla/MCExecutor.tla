----------------------------- MODULE MCExecutor -----------------------------
(* Small instances of the request path.                                     *)
EXTENDS Executor

----------------------------------------------------------------------------
(* Histories                                                                *)

user == Message("user", "u", <<>>, "")
notice == Message("developer", "n", <<>>, "")
prose == Message("assistant", "p", <<>>, "")
call1 == Message("assistant", "", <<Call("c1", TRUE)>>, "")
call2 == Message("assistant", "", <<Call("c2", TRUE)>>, "")
both == Message("assistant", "", <<Call("c1", TRUE), Call("c2", TRUE)>>, "")
nameless == Message("assistant", "", <<Call("c2", FALSE)>>, "")
result(id) == Message("tool", "r", <<>>, id)

Histories ==
  LET all == {user, notice, prose, call1, call2, both, nameless, result("c1"), result("c2")}
      mid == {notice, prose, call2, result("c1"), result("c2"), result("c3")}
  IN UNION {[1 .. n -> all] : n \in 0 .. 2}
     \union {<<a, result("c1"), x, y, z>> : a \in {call1, both}, x, y, z \in mid}

Chat(messages) ==
  [model |-> "other", global |-> FALSE, messages |-> messages, tools |-> TRUE,
   toolChoice |-> "absent", maxTokens |-> Absent, alias |-> Absent,
   thinking |-> "absent", effort |-> Absent]

Reasonings == {[prose EXCEPT !.rc = rc, !.reasoning = r] :
                 rc, r \in {"none", "", "r"}}

ChatBodies ==
  {Chat(h) : h \in Histories}
  \union {[Chat(<<user, m>>) EXCEPT !.model = model, !.thinking = th, !.effort = e, !.global = TRUE] :
            m \in Reasonings, model \in {"deepseek", "other"},
            th \in ThinkingTypes, e \in {Absent, 0, 2, 4, 6, OddEffort}}
  \union {[Chat(<<notice>>) EXCEPT !.model = model, !.maxTokens = n, !.alias = a, !.toolChoice = tc] :
            model \in {"gpt", "other"}, n \in {Absent, 0, 15, 16}, a \in {Absent, 0, 1, 20},
            tc \in ToolChoices}

----------------------------------------------------------------------------
(* Answers                                                                  *)

\* Markup whose blocks are cut anywhere between two lines, the two calls of an
\* answer in fragments, and the ways in which an answer ends; one line of text
\* and one [DONE] in a framing that the folded path passes over.
AnswerLines ==
  {Text(c) : c \in {<<"<">>, <<">", "run">>, <<"<", ">", "run", "</">>, <<"/>", "x">>}}
  \union {Calls(<<Fragment(0, "a", "run", <<"{">>)>>),
          Calls(<<Fragment(0, "", "", <<"}">>), Fragment(1, "b", "other", <<"{", "}">>)>>),
          Calls(<<Fragment(NoIndex, "c", "run", <<>>)>>)}
  \union {Finish(<<"/>">>, "stop"), Finish(<<>>, "tool_calls"), BareFinish("stop"),
          Done, ErrorLine, Unframed(Done), Unframed(Text(<<"x">>))}

AnswerRefusals ==
  {<<402, Body(TRUE, {}, {})>>, <<404, Body(TRUE, {"modelCode", "envelope"}, {})>>,
   <<429, Body(TRUE, {"envelope"}, {"hard", "6004"})>>, <<503, PlainText>>,
   <<401, Body(TRUE, {"sessionDead", "softRate", "envelope"}, {})>>}
=============================================================================
