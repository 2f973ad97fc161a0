--------------------------- MODULE ExecutorProofs ---------------------------
(***************************************************************************)
(* Theorems about one chat request, for all bodies, data lines, refusals   *)
(* and lengths of answer: its outcome and its body (its answer is the      *)
(* subject of AnswerProofs).                                               *)
(*                                                                         *)
(* OneOutcome speaks of the end of a request; the invariant follows the    *)
(* request's thread. Until it has an outcome nothing is recorded and the   *)
(* host has heard nothing; from then on there is one row, no mark, and     *)
(* error frame and answer follow the row; only the deferred calls, which   *)
(* every way out runs once, close the host stream.                         *)
(***************************************************************************)
EXTENDS Executor, FiniteSetTheorems, TLAPS

\* The loop of the filter, as FoldTheorems speaks of it.
Filt == INSTANCE FoldTheorems WITH op <- keepMember

Working == {"idle", "prepared", "reading", "flushing", "settling"}

OutcomeTypeOK ==
  /\ mode \in {"execute", "collect", "pump"}
  /\ pc \in Working \union {"closing", "over"}
  /\ listening \in BOOLEAN
  /\ handle \in {"none", "open", "closed"}
  /\ host \in [errors : Nat, closes : Nat]

\* Before the outcome: no row, nothing sent to the host, no answer but the
\* empty one of the stream RPC.
NothingYet ==
  /\ log = <<>> /\ host.errors = 0 /\ host.closes = 0 /\ checks = 0
  /\ answer = IF mode = "pump" /\ pc # "idle" THEN "streaming" ELSE "none"

\* What the pool is told agrees with the row and with the credit check.
PoolTold(failed, told, checked) ==
  /\ failed => told # notePoolSuccess
  /\ ~failed => told = notePoolSuccess
  /\ told = "CooldownUntilTomorrow4AM" => checked = 1

\* From the outcome on: one row, and the client was told what the row says.
Recorded ==
  /\ Len(log) = 1 /\ log[1].failed \in BOOLEAN /\ marks = 0
  /\ PoolTold(log[1].failed, penalty, checks)
  /\ mode = "pump" => /\ answer = "streaming"
                      /\ listening => host.errors = IF log[1].failed THEN 1 ELSE 0
  /\ mode # "pump" => answer = IF log[1].failed THEN "error" ELSE "ok"

\* A refused request leaves nothing behind.
LeftAlone == answer = "refused" /\ log = <<>> /\ host.closes = 0

ClosedOnce == handle # "open" /\ host.closes = IF mode = "pump" THEN 1 ELSE 0

OutcomeInv ==
  /\ OutcomeTypeOK
  /\ pc \in Working => NothingYet
  /\ pc = "closing" => Recorded /\ host.closes = 0
  /\ pc = "over" => LeftAlone \/ (Recorded /\ ClosedOnce)

----------------------------------------------------------------------------

\* The first row of the log.
LEMMA FirstRow ==
  ASSUME NEW r
  PROVE  Len(Append(<<>>, r)) = 1 /\ Append(<<>>, r)[1] = r
OBVIOUS

\* A request without an outcome has one after publishUsage.
LEMMA PublishRecords ==
  ASSUME log = <<>>, NEW failed \in BOOLEAN, NEW status, NEW errBody,
         publishUsage(failed, status, errBody)
  PROVE  /\ Len(log') = 1 /\ log'[1].failed = failed /\ marks' = 0
         /\ penalty' = IF failed THEN applyUpstreamError(status, errBody) ELSE notePoolSuccess
BY FirstRow DEF publishUsage, recordRequest, takeTTFB

\* The kinds and what decides them.
Decided(status, text) ==
  \E i \in 1 .. 15 : classifyTests(status, text)[i][1] /\ Classify(status, text) = classifyTests(status, text)[i][2]

\* The first test that holds exists, since the last one always does.
LEMMA ClassifyDecides ==
  ASSUME NEW status, NEW text
  PROVE  Decided(status, text)
<1> DEFINE tests == classifyTests(status, text)
           holding == {i \in 1 .. 15 : tests[i][1]}
           isFirst(i) == i \in DOMAIN tests /\ tests[i][1] /\ \A j \in 1 .. (i - 1) : ~tests[j][1]
<1>1. DOMAIN tests = 1 .. 15 /\ tests[15][1]
  BY DEF classifyTests
<1> HIDE DEF tests
<1>2. holding \in SUBSET Nat /\ 15 \in holding
  BY <1>1
<1>3. PICK m \in holding : \A k \in holding : m <= k
  BY <1>2, Filt!LeastElement
<1>4. isFirst(m)
  BY <1>1, <1>3
<1>5. isFirst(CHOOSE i \in DOMAIN tests : tests[i][1] /\ \A j \in 1 .. (i - 1) : ~tests[j][1])
  BY <1>4
<1> QED  BY <1>1, <1>5 DEF Decided, Classify, tests

\* Only a test for credits finds that they ran out.
LEMMA HardIsCredit ==
  ASSUME NEW status, NEW text, applyUpstreamError(status, text) = "CooldownUntilTomorrow4AM"
  PROVE  isHardCreditError(status, text)
<1>1. Classify(status, text) = "hard_credit"
  BY DEF applyUpstreamError
<1>2. PICK i \in 1 .. 15 : /\ classifyTests(status, text)[i][1]
                          /\ Classify(status, text) = classifyTests(status, text)[i][2]
  BY ClassifyDecides DEF Decided
<1>3. i \in {2, 6}
  BY <1>1, <1>2 DEF classifyTests
<1>4. classifyTests(status, text)[2][1] = (status = 402)
  BY DEF classifyTests
<1>5. classifyTests(status, text)[6][1] = hit(text, "hard")
  BY DEF classifyTests
<1>6. classifyTests(status, text)[2][1] \/ classifyTests(status, text)[6][1]
  BY Zenon, <1>2, <1>3
<1> QED  BY Zenon, <1>4, <1>5, <1>6 DEF isHardCreditError

\* A failure is never told as a success.
LEMMA NeverSuccess ==
  ASSUME NEW status, NEW text
  PROVE  applyUpstreamError(status, text) # notePoolSuccess
BY DEF applyUpstreamError, notePoolSuccess

\* Text without markers says nothing of credits.
LEMMA PlainIsNotHard ==
  ASSUME NEW status, status # 402
  PROVE  applyUpstreamError(status, PlainText) # "CooldownUntilTomorrow4AM"
BY HardIsCredit DEF isHardCreditError, hit, PlainText, Body

\* Every failure that ends a request: row, error frame and answer agree.
LEMMA FailRecords ==
  ASSUME OutcomeTypeOK, NothingYet, pc \in Working \ {"idle"}, NEW status, NEW errBody,
         fail(status, errBody), UNCHANGED <<mode, listening>>,
         applyUpstreamError(status, errBody) = "CooldownUntilTomorrow4AM" => checks' = 1
  PROVE  /\ Recorded' /\ pc' = "closing"
         /\ host' \in [errors : Nat, closes : Nat] /\ host'.closes = 0
<1>1. Len(log') = 1 /\ log'[1].failed = TRUE /\ marks' = 0
  BY Zenon, PublishRecords DEF fail, NothingYet
<1>5. PoolTold(TRUE, penalty', checks')
  <2>1. penalty' = applyUpstreamError(status, errBody)
    BY Zenon, PublishRecords DEF fail, NothingYet
  <2> QED  BY <2>1, NeverSuccess DEF PoolTold
<1>2. /\ host' \in [errors : Nat, closes : Nat] /\ host'.closes = 0
      /\ mode = "pump" /\ listening => host'.errors = 1
  BY DEF fail, streamEmitError, OutcomeTypeOK, NothingYet
<1>3. answer' = IF mode = "pump" THEN "streaming" ELSE "error"
  BY DEF fail, return, NothingYet
<1>4. pc' = "closing"
  BY DEF fail
<1> QED  BY Zenon, <1>1, <1>2, <1>3, <1>4, <1>5 DEF Recorded

\* The inductive invariant implies the property of the run.
LEMMA OutcomeSuffices == OutcomeInv => OneOutcome
<1> SUFFICES ASSUME OutcomeInv PROVE OneOutcome
  OBVIOUS
<1> USE DEF OutcomeInv
<1>1. CASE pc \in Working
  BY <1>1 DEF NothingYet, OneOutcome, Working
<1>2. CASE pc = "closing"
  <2>1. Len(log) = 1 /\ host.closes = 0
    BY <1>2 DEF Recorded
  <2> QED  BY <1>2, <2>1 DEF OneOutcome
<1>3. CASE pc = "over" /\ LeftAlone
  BY <1>3 DEF LeftAlone, OneOutcome, started
<1>4. CASE pc = "over" /\ Recorded /\ ClosedOnce
  <2>1. Len(log) <= 1 /\ host.closes <= 1
    BY <1>4 DEF Recorded, ClosedOnce
  <2> QED  BY <1>4, <2>1 DEF Recorded, PoolTold, ClosedOnce, OneOutcome
<1> QED  BY <1>1, <1>2, <1>3, <1>4 DEF OutcomeTypeOK

\* A request that has not begun has no outcome.
LEMMA OutcomeInit == Init => OutcomeInv
BY DEF Init, OutcomeInv, OutcomeTypeOK, NothingYet, Working

\* Every step of the request and of its client keeps the invariant.
LEMMA OutcomeStep == OutcomeInv /\ [Next]_vars => OutcomeInv'
<1> SUFFICES ASSUME OutcomeInv, [Next]_vars PROVE OutcomeInv'
  OBVIOUS
<1> USE DEF OutcomeInv
<1>1. CASE Reject
  <2>1. /\ pc = "idle" /\ pc' = "over" /\ answer' = "refused"
        /\ UNCHANGED <<mode, handle, listening, host, log>>
    BY <1>1 DEF Reject, client, upstream, records
  <2> QED  BY <2>1 DEF OutcomeTypeOK, NothingYet, LeftAlone, Working
<1>2. ASSUME NEW b \in Bodies, Prepare(b) PROVE OutcomeInv'
  BY <1>2 DEF Prepare, OutcomeTypeOK, NothingYet, Working, client, records
<1>3. CASE OpenFails
  <2>1. Recorded' /\ pc' = "closing" /\ host' \in [errors : Nat, closes : Nat] /\ host'.closes = 0
    BY <1>3, FailRecords, PlainIsNotHard DEF OpenFails, Working
  <2> QED  BY <1>3, <2>1 DEF OpenFails, OutcomeTypeOK, Working
<1>4. ASSUME NEW r \in Refusals, OpenRefused(r[1], r[2]) PROVE OutcomeInv'
  <2> DEFINE told == IF mode = "collect" THEN wrapped(r[2]) ELSE r[2]
  <2>2. applyUpstreamError(r[1], told) = "CooldownUntilTomorrow4AM" => checks' = 1
    <3> SUFFICES ASSUME applyUpstreamError(r[1], told) = "CooldownUntilTomorrow4AM"
                 PROVE  checks' = 1
      OBVIOUS
    <3>1. isHardCreditError(r[1], told)
      BY HardIsCredit
    <3>2. isHardCreditError(r[1], r[2])
      BY <3>1 DEF isHardCreditError, hit, wrapped, Body
    <3> QED  BY <1>4, <3>2 DEF OpenRefused, NothingYet, Working
  <2>3. fail(r[1], told) /\ pc = "prepared" /\ UNCHANGED <<mode, listening>>
    BY <1>4 DEF OpenRefused
  <2> HIDE DEF told
  <2>1. Recorded' /\ pc' = "closing" /\ host' \in [errors : Nat, closes : Nat] /\ host'.closes = 0
    BY <2>2, <2>3, FailRecords DEF Working
  <2> QED  BY <1>4, <2>1 DEF OpenRefused, OutcomeTypeOK, Working
<1>5. CASE OpenOK
  BY <1>5 DEF OpenOK, OutcomeTypeOK, NothingYet, Working, client, records
<1>6. ASSUME NEW p \in Lines, ReadLine(p) PROVE OutcomeInv'
  <2>1. pc = "reading" /\ pc' \in {"reading", "flushing"}
    BY <1>6 DEF ReadLine
  <2>2. UNCHANGED <<mode, answer, handle, listening, host, log, checks>>
    BY <1>6 DEF ReadLine
  <2> QED  BY <2>1, <2>2 DEF OutcomeTypeOK, NothingYet, Working
<1>7. ASSUME NEW err \in BOOLEAN, ReadEnds(err) PROVE OutcomeInv'
  BY <1>7 DEF ReadEnds, OutcomeTypeOK, NothingYet, Working, client, records
<1>8. CASE Emit
  BY <1>8 DEF Emit, OutcomeTypeOK, NothingYet, Working, upstream, records
<1>9. CASE EmitFails
  <2>1. /\ Len(log') = 1 /\ log'[1].failed = TRUE /\ marks' = 0
        /\ penalty' = applyUpstreamError(0, PlainText)
    BY Zenon, <1>9, PublishRecords DEF EmitFails, NothingYet, Working
  <2>3. PoolTold(TRUE, penalty', checks')
    BY <2>1, PlainIsNotHard, NeverSuccess DEF PoolTold
  <2>2. /\ pc \in Working \ {"idle"} /\ pc' = "closing" /\ mode = "pump" /\ ~listening
        /\ UNCHANGED <<mode, answer, handle, listening, host>>
    BY <1>9 DEF EmitFails, Working, upstream, client
  <2> QED  BY Zenon, <2>1, <2>2, <2>3 DEF OutcomeTypeOK, NothingYet, Recorded, Working
<1>10. CASE FlushTail
  <2>1. pc = "flushing" /\ pc' = "settling" /\ UNCHANGED <<mode, answer, handle, listening, host, log, checks>>
    BY <1>10 DEF FlushTail, upstream, records
  <2> QED  BY <2>1 DEF OutcomeTypeOK, NothingYet, Working
<1>11. CASE SettleFailed
  <2>1. Recorded' /\ pc' = "closing" /\ host' \in [errors : Nat, closes : Nat] /\ host'.closes = 0
    BY <1>11, FailRecords, PlainIsNotHard DEF SettleFailed, Working
  <2> QED  BY <1>11, <2>1 DEF SettleFailed, OutcomeTypeOK, Working, upstream
<1>12. CASE SettleOK
  <2>1. Len(log') = 1 /\ log'[1].failed = FALSE /\ marks' = 0 /\ penalty' = notePoolSuccess
    BY Zenon, <1>12, PublishRecords DEF SettleOK, NothingYet, Working
  <2>3. PoolTold(FALSE, penalty', checks')
    BY <2>1 DEF PoolTold, notePoolSuccess
  <2>2. /\ pc = "settling" /\ pc' = "closing"
        /\ UNCHANGED <<mode, handle, listening, host>>
        /\ answer' = IF mode = "pump" THEN answer ELSE "ok"
    BY <1>12 DEF SettleOK, upstream, client, return
  <2> QED  BY Zenon, <2>1, <2>2, <2>3 DEF OutcomeTypeOK, NothingYet, Recorded, Working
<1>13. CASE Close
  <2>1. pc = "closing" /\ pc' = "over" /\ UNCHANGED <<mode, answer, listening, log, marks, penalty, checks>>
    BY <1>13 DEF Close, records
  <2>2. handle' \in {"none", "closed"}
    BY <1>13 DEF Close, closeHandle, OutcomeTypeOK
  <2>3. /\ host' \in [errors : Nat, closes : Nat] /\ host'.errors = host.errors
        /\ host'.closes = IF mode = "pump" THEN 1 ELSE 0
    BY <1>13, <2>1 DEF Close, streamClose, OutcomeTypeOK
  <2> QED  BY <2>1, <2>2, <2>3 DEF OutcomeTypeOK, Recorded, ClosedOnce, Working
<1>14. CASE ClientLeaves
  BY Zenon, <1>14 DEF ClientLeaves, OutcomeTypeOK, NothingYet, Recorded, LeftAlone, ClosedOnce, Working, upstream, records
<1>15. CASE UNCHANGED vars
  BY <1>15 DEF vars, upstream, client, records, OutcomeTypeOK, NothingYet, Recorded, LeftAlone, ClosedOnce, Working
<1> QED
  BY <1>1, <1>2, <1>3, <1>4, <1>5, <1>6, <1>7, <1>8, <1>9, <1>10, <1>11, <1>12, <1>13, <1>14, <1>15
     DEF Next, Step, Over

\* On every path, whatever the upstream sends, refuses or breaks off and
\* whenever the client leaves, a request that was started ends with one row,
\* one close of the host stream, no open upstream handle and the client told
\* what the row says.
THEOREM OutcomeCorrect == Spec => []OneOutcome
BY OutcomeInit, OutcomeStep, OutcomeSuffices, PTL DEF Spec
----------------------------------------------------------------------------
(* The options of the outbound body: what each pass of PrepareBody brings  *)
(* about, and that the later passes keep it.                               *)

Limited(b) == b.alias = Absent /\ (b.model = "gpt" => b.maxTokens \notin 0 .. (GptMinMaxTokens - 1))

ChoiceNamed(b) == b.toolChoice \in {"absent", "auto", "required", "name"}

ThinksWithLevel(b) ==
  b.model = "deepseek" => b.thinking # "absent" /\ (b.thinking = "disabled") = (b.effort = Absent)

\* The passes over the messages leave the other fields alone.
LEMMA MessagesOnly ==
  ASSUME NEW b, IsChatBody(b), NEW messages,
         NEW c, c = [b EXCEPT !.messages = messages]
  PROVE  /\ IsChatBody(c)
         /\ c.effort = b.effort /\ c.model = b.model /\ c.thinking = b.thinking
         /\ c.alias = b.alias /\ c.maxTokens = b.maxTokens /\ c.toolChoice = b.toolChoice
BY DEF IsChatBody

\* The alias is gone after the two passes over the limits, and a limit that
\* a gpt model has is large enough, also when it came from the alias.
LEMMA LimitsSet ==
  ASSUME NEW b, IsChatBody(b),
         NEW c, c = clampGPTMinMaxTokens(translateMaxCompletionTokens(b))
  PROVE  IsChatBody(c) /\ Limited(c)
<1> DEFINE t == translateMaxCompletionTokens(b)
<1>1. IsChatBody(t) /\ t.alias = Absent
  BY Zenon DEF IsChatBody, translateMaxCompletionTokens, Absent
<1> HIDE DEF t
<1>2. CASE t.model = "gpt" /\ t.maxTokens # Absent /\ t.maxTokens < GptMinMaxTokens
  <2>1. c = [t EXCEPT !.maxTokens = GptMinMaxTokens]
    BY <1>2 DEF t, clampGPTMinMaxTokens
  <2> QED  BY <1>1, <2>1 DEF IsChatBody, Limited, GptMinMaxTokens
<1>3. CASE ~(t.model = "gpt" /\ t.maxTokens # Absent /\ t.maxTokens < GptMinMaxTokens)
  <2>1. c = t
    BY <1>3 DEF t, clampGPTMinMaxTokens
  <2> QED  BY <1>1, <1>3, <2>1 DEF IsChatBody, Limited, GptMinMaxTokens, Absent
<1> QED  BY <1>2, <1>3

\* Every form of tool_choice becomes a string or disappears.
LEMMA ChoiceSet ==
  ASSUME NEW b, IsChatBody(b), Limited(b), NEW c, c = normalizeToolChoice(b)
  PROVE  IsChatBody(c) /\ Limited(c) /\ ChoiceNamed(c)
<1>1. CASE b.toolChoice \in {"none", "none object"}
  <2>1. c = [b EXCEPT !.toolChoice = "absent", !.tools = FALSE]
    BY Zenon, <1>1 DEF normalizeToolChoice
  <2> QED  BY Zenon, <2>1 DEF IsChatBody, Limited, ChoiceNamed, ToolChoices
<1>2. CASE b.toolChoice \notin {"none", "none object"}
  <2>1. \/ c = b /\ b.toolChoice \notin {"auto object", "required object", "function object",
                                        "nameless function object", "other object"}
        \/ \E tc \in {"auto", "required", "name", "absent"} : c = [b EXCEPT !.toolChoice = tc]
    BY Zenon, <1>2 DEF normalizeToolChoice
  <2> QED  BY ZenonT(40), <1>2, <2>1 DEF IsChatBody, Limited, ChoiceNamed, ToolChoices
<1> QED  BY Zenon, <1>1, <1>2

\* A level that is filled in is one the effort table knows.
LEMMA LevelFilled ==
  ASSUME NEW b, IsChatBody(b), Limited(b), ChoiceNamed(b), NEW c, c = ensureDeepSeekEffort(b)
  PROVE  /\ IsChatBody(c) /\ Limited(c) /\ ChoiceNamed(c)
         /\ c.effort # Absent /\ c.thinking = b.thinking /\ c.model = b.model
<1>1. CASE b.effort # Absent
  BY <1>1 DEF ensureDeepSeekEffort
<1>2. CASE b.effort = Absent
  <2>1. PICK e \in Ranks : c = [b EXCEPT !.effort = e]
    BY <1>2, EffortAssumption DEF ensureDeepSeekEffort, HighEffort, Ranks
  <2> QED  BY <2>1 DEF IsChatBody, Limited, ChoiceNamed, Absent, Ranks
<1> QED  BY <1>1, <1>2

\* deepseek gets a level unless the client switched thinking off.
LEMMA ThinkingSet ==
  ASSUME NEW b, IsChatBody(b), Limited(b), ChoiceNamed(b), NEW c, c = injectThinking(b)
  PROVE  IsChatBody(c) /\ Limited(c) /\ ChoiceNamed(c) /\ ThinksWithLevel(c)
<1>1. CASE b.model # "deepseek"
  BY <1>1 DEF injectThinking, ThinksWithLevel
<1>2. CASE b.model = "deepseek" /\ b.thinking = "disabled"
  <2>1. c = [b EXCEPT !.effort = Absent]
    BY <1>2 DEF injectThinking
  <2> QED  BY <1>2, <2>1 DEF IsChatBody, Limited, ChoiceNamed, ThinksWithLevel
<1>3. CASE b.model = "deepseek" /\ b.thinking \in {"enabled", "odd"}
  <2>1. c = ensureDeepSeekEffort(b)
    BY <1>3 DEF injectThinking
  <2> QED  BY <1>3, <2>1, LevelFilled DEF ThinksWithLevel
<1>4. CASE b.model = "deepseek" /\ b.thinking = "absent"
  <2> DEFINE e == [b EXCEPT !.thinking = "enabled"]
  <2>1. c = ensureDeepSeekEffort(e)
    BY <1>4 DEF injectThinking
  <2>2. IsChatBody(e) /\ Limited(e) /\ ChoiceNamed(e) /\ e.thinking = "enabled"
    BY DEF IsChatBody, Limited, ChoiceNamed, ThinkingTypes
  <2> HIDE DEF e
  <2> QED  BY <2>1, <2>2, LevelFilled DEF ThinksWithLevel
<1> QED  BY <1>1, <1>2, <1>3, <1>4 DEF IsChatBody, ThinkingTypes

\* A set of ranks that is not empty has a highest and a lowest one.
LEMMA RankExtremes ==
  ASSUME NEW S \in SUBSET Ranks, S # {}
  PROVE  /\ \E r \in S : \A s \in S : s <= r
         /\ \E r \in S : \A s \in S : r <= s
<1>1. \A s \in S : s \in Int /\ 0 <= s /\ s <= 6
  BY DEF Ranks
<1>2. \A s \in S : s = 0 \/ s = 1 \/ s = 2 \/ s = 3 \/ s = 4 \/ s = 5 \/ s = 6
  BY <1>1
<1>3. \E r \in S : \A s \in S : s <= r
  <2>1. CASE 6 \in S  BY <1>1, <2>1
  <2>2. CASE 6 \notin S /\ 5 \in S  BY <1>2, <2>2
  <2>3. CASE 6 \notin S /\ 5 \notin S /\ 4 \in S  BY <1>2, <2>3
  <2>4. CASE 6 \notin S /\ 5 \notin S /\ 4 \notin S /\ 3 \in S  BY <1>2, <2>4
  <2>5. CASE S \subseteq {0, 1, 2} /\ 2 \in S  BY <2>5
  <2>6. CASE S \subseteq {0, 1} /\ 1 \in S  BY <2>6
  <2>7. CASE S = {0}  BY <2>7
  <2> QED  BY <1>2, <2>1, <2>2, <2>3, <2>4, <2>5, <2>6, <2>7
<1>4. \E r \in S : \A s \in S : r <= s
  <2>1. CASE 0 \in S  BY <1>1, <2>1
  <2>2. CASE 0 \notin S /\ 1 \in S  BY <1>2, <2>2
  <2>3. CASE 0 \notin S /\ 1 \notin S /\ 2 \in S  BY <1>2, <2>3
  <2>4. CASE 0 \notin S /\ 1 \notin S /\ 2 \notin S /\ 3 \in S  BY <1>2, <2>4
  <2>5. CASE S \subseteq {4, 5, 6} /\ 4 \in S  BY <2>5
  <2>6. CASE S \subseteq {5, 6} /\ 5 \in S  BY <2>6
  <2>7. CASE S = {6}  BY <2>7
  <2> QED  BY <1>2, <2>1, <2>2, <2>3, <2>4, <2>5, <2>6, <2>7
<1> QED  BY <1>3, <1>4

\* The level that is sent is a supported one when the requested one is known;
\* it is never lost.
LEMMA LevelSupported ==
  ASSUME NEW b, IsChatBody(b), Limited(b), ChoiceNamed(b), ThinksWithLevel(b),
         NEW c, c = normalizeReasoningEffort(b)
  PROVE  IsChatBody(c) /\ OptionsAccepted(c)
<1>1. CASE Supported = {} \/ b.effort \notin Ranks
  <2>1. c = b
    BY <1>1 DEF normalizeReasoningEffort
  <2> QED  BY <1>1, <2>1 DEF Limited, ChoiceNamed, ThinksWithLevel, OptionsAccepted
<1>2. CASE Supported # {} /\ b.effort \in Ranks
  <2> DEFINE below == {r \in Supported : r <= b.effort}
             best  == CHOOSE r \in below : \A s \in below : s <= r
             least == CHOOSE r \in Supported : \A s \in Supported : r <= s
             level == IF below # {} THEN best ELSE least
  <2>1. below # {} => best \in below
    BY Zenon, RankExtremes, EffortAssumption
  <2>2. least \in Supported
    BY <1>2, RankExtremes, EffortAssumption
  <2>3. level \in Supported
    BY <2>1, <2>2
  <2>4. c = [b EXCEPT !.effort = level]
    BY <1>2 DEF normalizeReasoningEffort
  <2> HIDE DEF level
  <2>5. IsChatBody(c) /\ c.effort = level /\ Limited(c) /\ ChoiceNamed(c)
        /\ c.model = b.model /\ c.thinking = b.thinking
    BY <2>3, <2>4, EffortAssumption DEF IsChatBody, Limited, ChoiceNamed
  <2>6. level # Absent /\ b.effort # Absent
    BY <1>2, <2>3, EffortAssumption DEF Ranks, Absent
  <2> QED  BY <2>3, <2>5, <2>6 DEF Limited, ChoiceNamed, ThinksWithLevel, OptionsAccepted
<1> QED  BY <1>1, <1>2

\* The passes in the order of the code, for every body a client may send.
LEMMA OptionsPrepared ==
  ASSUME NEW b, IsChatBody(b)
  PROVE  OptionsAccepted(PrepareChatBodyForRealm(b))
<1> DEFINE tokens == clampGPTMinMaxTokens(translateMaxCompletionTokens(b))
           choice == normalizeToolChoice(tokens)
           roles  == [choice EXCEPT !.messages = normalizeRoles(@)]
           paired == [roles EXCEPT !.messages = pairMessages(@)]
           minded == injectThinking(paired)
           level  == normalizeReasoningEffort(minded)
           filled == backfillReasoningContent(level)
           sent   == PrepareChatBodyForRealm(b)
<1>1. IsChatBody(tokens) /\ Limited(tokens)
  BY LimitsSet
<1>2. IsChatBody(choice) /\ Limited(choice) /\ ChoiceNamed(choice)
  <2> HIDE DEF tokens
  <2> QED  BY <1>1, ChoiceSet
<1>3. IsChatBody(roles) /\ Limited(roles) /\ ChoiceNamed(roles)
  <2> HIDE DEF choice
  <2> QED  BY <1>2, MessagesOnly DEF Limited, ChoiceNamed
<1>4. IsChatBody(paired) /\ Limited(paired) /\ ChoiceNamed(paired)
  <2> HIDE DEF roles
  <2> QED  BY <1>3, MessagesOnly DEF Limited, ChoiceNamed
<1>5. IsChatBody(minded) /\ Limited(minded) /\ ChoiceNamed(minded) /\ ThinksWithLevel(minded)
  <2> HIDE DEF paired
  <2> QED  BY <1>4, ThinkingSet
<1>6. IsChatBody(level) /\ OptionsAccepted(level)
  <2> HIDE DEF minded
  <2> QED  BY <1>5, LevelSupported
<1>7. IsChatBody(filled) /\ OptionsAccepted(filled)
  <2>1. filled = level \/ \E ms : filled = [level EXCEPT !.messages = ms]
    <3> HIDE DEF level
    <3> QED  BY Zenon DEF backfillReasoningContent
  <2> HIDE DEF level, filled
  <2> QED  BY <1>6, <2>1, MessagesOnly DEF OptionsAccepted
<1>8. sent = filled \/ \E ms : sent = [filled EXCEPT !.messages = ms]
  <2>1. PrepareBody(b) = filled
    BY DEF PrepareBody
  <2> HIDE DEF filled
  <2> QED  BY Zenon, <2>1 DEF PrepareChatBodyForRealm
<1> HIDE DEF filled, sent
<1>9. OptionsAccepted(sent)
  BY <1>7, <1>8, MessagesOnly DEF OptionsAccepted
<1> QED  BY <1>9 DEF sent

OptionsSent == pc = "prepared" => OptionsAccepted(body)

\* For all supported levels, default levels and bodies, the options of the
\* body that is sent are ones the backend accepts: the part of BodyAccepted
\* that is not about the message history.
THEOREM OptionsCorrect == Spec => []OptionsSent
<1>1. Init => OptionsSent
  BY DEF Init, OptionsSent
<1>2. OptionsSent /\ [Next]_vars => OptionsSent'
  <2> SUFFICES ASSUME OptionsSent, [Next]_vars PROVE OptionsSent'
    OBVIOUS
  <2>1. ASSUME NEW b \in Bodies, Prepare(b) PROVE OptionsSent'
    BY <2>1, OptionsPrepared, BodyAssumption DEF Prepare, OptionsSent
  <2>2. ASSUME NEW p \in Lines, ReadLine(p) PROVE OptionsSent'
    <3>1. pc' \in {"reading", "flushing"}
      BY <2>2 DEF ReadLine
    <3> QED  BY <3>1 DEF OptionsSent
  <2>3. CASE Reject \/ OpenFails \/ OpenOK \/ EmitFails \/ FlushTail \/ SettleFailed \/ SettleOK \/ Close
             \/ (\E r \in Refusals : OpenRefused(r[1], r[2])) \/ (\E err \in BOOLEAN : ReadEnds(err))
    <3>1. pc' \in {"over", "closing", "reading", "settling", "flushing"}
      BY Zenon, <2>3 DEF Reject, OpenFails, OpenOK, EmitFails, FlushTail, SettleFailed, SettleOK, Close,
                  OpenRefused, ReadEnds, fail
    <3> QED  BY <3>1 DEF OptionsSent
  <2>4. CASE Emit \/ ClientLeaves \/ UNCHANGED vars
    BY <2>4 DEF Emit, ClientLeaves, vars, upstream, OptionsSent
  <2> QED  BY <2>1, <2>2, <2>3, <2>4 DEF Next, Step, Over
<1> QED  BY <1>1, <1>2, PTL DEF Spec

----------------------------------------------------------------------------
(* The history in the outbound body. The passes are folds over it, so that *)
(* FoldTheorems speaks of them.                                            *)

\* The filter is a loop of the theorems about folds.
LEMMA FilterIsFold ==
  ASSUME NEW s, NEW S
  PROVE  Only(s, S) = Filt!Folded([of |-> S, seq |-> <<>>], s).seq
BY DEF Only, Filt!Folded, FoldLeft, MapThenFoldSet, Max, Filt!MapThenFoldSet, Filt!Highest

\* What the loop of the filter carries along.
LEMMA FilterCarries ==
  ASSUME NEW T, NEW s \in Seq(T), NEW S
  PROVE  Filt!Folded([of |-> S, seq |-> <<>>], s) \in [of : {S}, seq : Seq(T)]
<1> DEFINE A == [of : {S}, seq : Seq(T)]
<1>1. Len(s) \in Nat /\ DOMAIN s = 1 .. Len(s) /\ \A i \in 1 .. Len(s) : s[i] \in T
  OBVIOUS
<1>2. [of |-> S, seq |-> <<>>] \in A
  OBVIOUS
<1>3. ASSUME NEW a \in A, NEW i \in 1 .. Len(s)
      PROVE  keepMember(a, s[i]) \in A
  <2>1. s[i] \in T /\ a.of = S /\ a.seq \in Seq(T) /\ Append(a.seq, s[i]) \in Seq(T)
    BY <1>1
  <2>2. \E q \in Seq(T) : keepMember(a, s[i]) = [a EXCEPT !.seq = q]
    BY Zenon, <2>1 DEF keepMember
  <2> QED  BY <2>1, <2>2
<1> HIDE DEF A
<1>4. Filt!Folded([of |-> S, seq |-> <<>>], s) \in A
  BY <1>1, <1>2, <1>3, Filt!FoldInvariant
<1> QED  BY <1>4 DEF A

\* Filtering element by element.
LEMMA OnlyAppend ==
  ASSUME NEW T, NEW s \in Seq(T), NEW e \in T, NEW S
  PROVE  Only(Append(s, e), S) = IF e \in S THEN Append(Only(s, S), e) ELSE Only(s, S)
<1> DEFINE start == [of |-> S, seq |-> <<>>]
           acc == Filt!Folded(start, s)
<1>1. Filt!Folded(start, Append(s, e)) = keepMember(acc, e)
  <2> HIDE DEF start
  <2> QED  BY Filt!FoldAppend
<1>2. acc \in [of : {S}, seq : Seq(T)]
  BY FilterCarries
<1>3. Only(s, S) = acc.seq /\ Only(Append(s, e), S) = keepMember(acc, e).seq
  BY <1>1, FilterIsFold
<1> HIDE DEF acc
<1> QED  BY <1>2, <1>3 DEF keepMember

\* The filter makes no elements.
LEMMA OnlyType ==
  ASSUME NEW T, NEW s \in Seq(T), NEW S
  PROVE  Only(s, S) \in Seq(T)
BY Zenon, FilterIsFold, FilterCarries

\* Nothing is left of nothing.
LEMMA OnlyEmpty == ASSUME NEW S PROVE Only(<<>>, S) = <<>>
<1>1. Filt!Folded([of |-> S, seq |-> <<>>], <<>>) = [of |-> S, seq |-> <<>>]
  BY Filt!FoldEmpty
<1> QED  BY <1>1, FilterIsFold

\* What the filter keeps of two lists is what it keeps of each.
LEMMA OnlyConcat ==
  ASSUME NEW T, NEW s \in Seq(T), NEW t \in Seq(T), NEW S
  PROVE  Only(s \o t, S) = Only(s, S) \o Only(t, S)
<1>1. Only(s \o <<>>, S) = Only(s, S) \o Only(<<>>, S)
  <2>1. s \o <<>> = s
    OBVIOUS
  <2>2. Only(s, S) \in Seq(T)
    BY OnlyType
  <2>3. Only(s, S) \o <<>> = Only(s, S)
    BY <2>2
  <2> QED  BY Zenon, <2>1, <2>3, OnlyEmpty
<1>2. ASSUME NEW u \in Seq(T), Only(s \o u, S) = Only(s, S) \o Only(u, S), NEW e \in T
      PROVE  Only(s \o Append(u, e), S) = Only(s, S) \o Only(Append(u, e), S)
  <2>1. s \o Append(u, e) = Append(s \o u, e) /\ s \o u \in Seq(T)
    OBVIOUS
  <2>2. Only(u, S) \in Seq(T) /\ Only(s, S) \in Seq(T)
    BY OnlyType
  <2>3. Only(Append(u, e), S) = IF e \in S THEN Append(Only(u, S), e) ELSE Only(u, S)
    BY OnlyAppend
  <2>4. Only(Append(s \o u, e), S) = IF e \in S THEN Append(Only(s \o u, S), e) ELSE Only(s \o u, S)
    BY Zenon, <2>1, OnlyAppend
  <2>5. Only(s, S) \o Append(Only(u, S), e) = Append(Only(s, S) \o Only(u, S), e)
    BY <2>2
  <2> QED  BY Zenon, <1>2, <2>1, <2>3, <2>4, <2>5
<1> DEFINE Q == {u \in Seq(T) : Only(s \o u, S) = Only(s, S) \o Only(u, S)}
<1>3. Q \in SUBSET Seq(T) /\ <<>> \in Q
  BY <1>1
<1>4. \A u \in Q : \A e \in T : Append(u, e) \in Q
  <2>1. \A u \in Seq(T) : \A e \in T : Append(u, e) \in Seq(T)
    OBVIOUS
  <2> QED  BY Zenon, <1>2, <2>1
<1> HIDE DEF Q
<1>5. Q = Seq(T)
  BY Zenon, <1>3, <1>4, Filt!SeqInduction
<1> QED  BY <1>5 DEF Q

\* The elements of a longer list.
LEMMA SetOfAppend ==
  ASSUME NEW T, NEW w \in Seq(T), NEW e \in T
  PROVE  ToSet(Append(w, e)) = ToSet(w) \union {e}
<1> DEFINE a == Append(w, e)
<1>1. /\ DOMAIN w = 1 .. Len(w) /\ DOMAIN a = 1 .. (Len(w) + 1) /\ Len(w) \in Nat
      /\ a[Len(w) + 1] = e /\ \A i \in 1 .. Len(w) : a[i] = w[i]
  OBVIOUS
<1> HIDE DEF a
<1>2. \A x \in ToSet(a) : x \in ToSet(w) \union {e}
  BY <1>1 DEF ToSet
<1>3. \A x \in ToSet(w) \union {e} : x \in ToSet(a)
  BY <1>1 DEF ToSet
<1> QED  BY <1>2, <1>3 DEF a

\* The filter keeps the members of the set and nothing else.
LEMMA OnlyMembers ==
  ASSUME NEW T, NEW s \in Seq(T), NEW S
  PROVE  ToSet(Only(s, S)) = ToSet(s) \intersect S
<1>1. ToSet(Only(<<>>, S)) = ToSet(<<>>) \intersect S
  BY OnlyEmpty DEF ToSet
<1>2. ASSUME NEW u \in Seq(T), ToSet(Only(u, S)) = ToSet(u) \intersect S, NEW e \in T
      PROVE  ToSet(Only(Append(u, e), S)) = ToSet(Append(u, e)) \intersect S
  <2>1. \A w \in Seq(T) : ToSet(Append(w, e)) = ToSet(w) \union {e}
    BY SetOfAppend
  <2>2. Only(Append(u, e), S) = IF e \in S THEN Append(Only(u, S), e) ELSE Only(u, S)
    BY OnlyAppend
  <2>3. Only(u, S) \in Seq(T)
    BY OnlyType
  <2> QED  BY <1>2, <2>1, <2>2, <2>3
<1> DEFINE Q == {u \in Seq(T) : ToSet(Only(u, S)) = ToSet(u) \intersect S}
<1>3. Q \in SUBSET Seq(T) /\ <<>> \in Q
  BY <1>1
<1>4. \A u \in Q : \A e \in T : Append(u, e) \in Q
  BY <1>2
<1> HIDE DEF Q
<1>5. Q = Seq(T)
  BY Zenon, <1>3, <1>4, Filt!SeqInduction
<1> QED  BY <1>5 DEF Q

\* What the cleanup leaves of one message.
Trim(m, keep) ==
  IF HasCalls(m) THEN [m EXCEPT !.calls = Only(m.calls, {c \in ToSet(m.calls) : c.id \in keep})]
  ELSE m

\* A trimmed message holds the calls that are kept.
LEMMA TrimKeeps ==
  ASSUME NEW m \in Messages, NEW keep
  PROVE  /\ Trim(m, keep) \in Messages
         /\ Trim(m, keep).role = m.role /\ Trim(m, keep).id = m.id
         /\ ~HasCalls(m) => Trim(m, keep) = m
         /\ HasCalls(m) => ToSet(Trim(m, keep).calls) = {c \in ToSet(m.calls) : c.id \in keep}
<1>1. m.calls \in Seq(ToolCalls)
  BY DEF Messages
<1> DEFINE S == {c \in ToSet(m.calls) : c.id \in keep}
           left == Only(m.calls, S)
<1>2. left \in Seq(ToolCalls) /\ ToSet(left) = ToSet(m.calls) \intersect S
  BY <1>1, OnlyType, OnlyMembers
<1>3. ToSet(left) = S
  BY <1>2
<1> HIDE DEF left
<1>4. CASE HasCalls(m)
  <2>1. Trim(m, keep) = [m EXCEPT !.calls = left]
    BY <1>4 DEF Trim, left
  <2> HIDE DEF S
  <2>2. ToSet(Trim(m, keep).calls) = S
    BY <1>3, <2>1 DEF Messages
  <2>3. Trim(m, keep) \in Messages /\ Trim(m, keep).role = m.role /\ Trim(m, keep).id = m.id
    BY <1>2, <2>1 DEF Messages
  <2> QED  BY <1>4, <2>2, <2>3 DEF S
<1>5. CASE ~HasCalls(m)
  BY <1>5 DEF Trim
<1> QED  BY <1>4, <1>5

\* There are calls when one of them can be named.
LEMMA CallsSet ==
  ASSUME NEW calls \in Seq(ToolCalls)
  PROVE  calls # <<>> <=> ToSet(calls) # {}
<1>1. DOMAIN calls = 1 .. Len(calls) /\ Len(calls) \in Nat /\ (calls # <<>> => Len(calls) > 0)
  OBVIOUS
<1>2. calls # <<>> => calls[1] \in ToSet(calls)
  BY <1>1 DEF ToSet
<1>3. ToSet(<<>>) = {}
  BY DEF ToSet
<1> QED  BY <1>2, <1>3

\* The elements of the cleaned history.
LEMMA CleanedSet ==
  ASSUME NEW ms \in Seq(Messages), hasTraffic(ms), NEW keep, keep = keepCalls(ms)
  PROVE  /\ cleanupOrphanToolCalls(ms) \in Seq(Messages)
         /\ ToSet(cleanupOrphanToolCalls(ms)) =
              {Trim(m, keep) : m \in {x \in ToSet(ms) : x.role # "tool" \/ x.id \in keep}}
<1> DEFINE cut == [i \in DOMAIN ms |-> Trim(ms[i], keep)]
           S == {m \in ToSet(cut) : m.role # "tool" \/ m.id \in keep}
           res == cleanupOrphanToolCalls(ms)
<1>1. res = Only(cut, S)
  BY DEF cleanupOrphanToolCalls, Trim
<1>2. \A i \in DOMAIN ms : Trim(ms[i], keep) \in Messages /\ Trim(ms[i], keep).role = ms[i].role /\ Trim(ms[i], keep).id = ms[i].id
  BY TrimKeeps
<1>3. cut \in Seq(Messages)
  BY <1>2
<1>4. res \in Seq(Messages) /\ ToSet(res) = ToSet(cut) \intersect S
  <2> HIDE DEF cut, S, res
  <2> QED  BY <1>1, <1>3, OnlyType, OnlyMembers
<1>5. ToSet(res) = S
  BY <1>4
<1>6. ToSet(cut) = {Trim(m, keep) : m \in ToSet(ms)}
  BY DEF ToSet
<1>7. \A m \in ToSet(ms) : m \in Messages
  BY DEF ToSet
<1> HIDE DEF cut
<1>8. S = {Trim(m, keep) : m \in {x \in ToSet(ms) : x.role # "tool" \/ x.id \in keep}}
  <2>1. \A m \in ToSet(ms) : Trim(m, keep).role = m.role /\ Trim(m, keep).id = m.id
    BY <1>7, TrimKeeps
  <2> QED  BY <1>6, <2>1
<1> QED  BY <1>4, <1>5, <1>8

\* The ids of all calls and of all results of a history.
CallsOf(ms) == UNION {CallIds(m) : m \in {x \in ToSet(ms) : HasCalls(x)}}
ResultsOf(ms) == {m.id : m \in {x \in ToSet(ms) : x.role = "tool"}}

\* What cleanupOrphanToolCalls leaves has a result for every call and a call
\* for every result.
LEMMA CleanedSymmetric ==
  ASSUME NEW ms \in Seq(Messages)
  PROVE  Symmetric(cleanupOrphanToolCalls(ms))
<1> DEFINE res == cleanupOrphanToolCalls(ms)
           keep == keepCalls(ms)
<1>1. CASE ~hasTraffic(ms)
  <2>1. res = ms
    BY <1>1 DEF cleanupOrphanToolCalls
  <2>2. \A m \in ToSet(ms) : m.role = "tool" => m.id = ""
    BY Zenon, <1>1 DEF hasTraffic
  <2>3. \A m \in ToSet(ms) : HasCalls(m) => CallIds(m) = {""}
    BY Zenon, <1>1 DEF hasTraffic
  <2>4. CallsOf(ms) \ {""} = {} /\ ResultsOf(ms) \ {""} = {}
    BY Zenon, <2>2, <2>3 DEF CallsOf, ResultsOf
  <2> QED  BY Zenon, <2>1, <2>4 DEF Symmetric, CallsOf, ResultsOf
<1>2. CASE hasTraffic(ms)
  <2>0. \A m \in ToSet(ms) : m \in Messages
    BY DEF ToSet
  <2>1. ToSet(res) = {Trim(m, keep) : m \in {x \in ToSet(ms) : x.role # "tool" \/ x.id \in keep}}
    BY <1>2, CleanedSet
  <2>2. \A i \in keep : /\ i # ""
                        /\ \E m \in ToSet(ms) : HasCalls(m) /\ \E c \in ToSet(m.calls) : c.id = i
                        /\ \E m \in ToSet(ms) : m.role = "tool" /\ m.id = i
    BY Zenon DEF keepCalls
  <2> HIDE DEF res, keep
  <2>3. ASSUME NEW x \in ToSet(res), HasCalls(x), NEW c \in ToSet(x.calls)
        PROVE  \E t \in ToSet(res) : t.role = "tool" /\ t.id = c.id
    <3>1. PICK m \in ToSet(ms) : x = Trim(m, keep)
      BY <2>1
    <3>2. HasCalls(m)
      BY <2>0, <2>3, <3>1, TrimKeeps
    <3>3. c.id \in keep
      BY <2>0, <2>3, <3>1, <3>2, TrimKeeps
    <3>4. PICK t \in ToSet(ms) : t.role = "tool" /\ t.id = c.id
      BY Zenon, <2>2, <3>3
    <3>5. Trim(t, keep) = t
      BY <3>4 DEF Trim, HasCalls
    <3> QED  BY <2>1, <3>3, <3>4, <3>5
  <2>4. ASSUME NEW t \in ToSet(res), t.role = "tool"
        PROVE  \E x \in ToSet(res) : HasCalls(x) /\ \E c \in ToSet(x.calls) : c.id = t.id
    <3>1. PICK m \in ToSet(ms) : t = Trim(m, keep) /\ (m.role # "tool" \/ m.id \in keep)
      BY <2>1
    <3>2. t.id \in keep
      BY <2>0, <2>4, <3>1, TrimKeeps
    <3>3. PICK y \in ToSet(ms) : HasCalls(y) /\ \E c \in ToSet(y.calls) : c.id = t.id
      BY Zenon, <2>2, <3>2
    <3>4. PICK c \in ToSet(y.calls) : c.id = t.id
      BY <3>3
    <3> DEFINE x == Trim(y, keep)
    <3>5. /\ x \in Messages /\ x.role = y.role /\ ToSet(x.calls) = {d \in ToSet(y.calls) : d.id \in keep}
      BY <2>0, <3>3, TrimKeeps
    <3>6. x \in ToSet(res)
      BY <2>1, <3>3 DEF HasCalls
    <3> HIDE DEF x
    <3>7. c \in ToSet(x.calls)
      BY <3>2, <3>4, <3>5
    <3>8. HasCalls(x)
      <4>1. x.calls \in Seq(ToolCalls)
        BY <3>5 DEF Messages
      <4>2. x.calls # <<>>
        BY <4>1, <3>7, CallsSet
      <4> QED  BY <4>2, <3>3, <3>5 DEF HasCalls
    <3> QED  BY <3>4, <3>6, <3>7, <3>8
  <2>5. \A i : i \in CallsOf(res) => i \in ResultsOf(res)
    BY <2>3 DEF CallsOf, ResultsOf, CallIds
  <2>6. \A i : i \in ResultsOf(res) => i \in CallsOf(res)
    BY <2>4 DEF CallsOf, ResultsOf, CallIds
  <2>7. CallsOf(res) = ResultsOf(res)
    BY Zenon, <2>5, <2>6
  <2>8. Symmetric(res) <=> CallsOf(res) \ {""} = ResultsOf(res) \ {""}
    BY DEF Symmetric, CallsOf, ResultsOf
  <2> QED  BY <2>7, <2>8 DEF res
<1> QED  BY <1>1, <1>2

\* The two loops over the history.
Merge == INSTANCE FoldTheorems WITH op <- mergeInto
Repack == INSTANCE FoldTheorems WITH op <- repackStep

\* The two passes over the history are loops of the theorems about folds.
LEMMA PassesAreFolds ==
  ASSUME NEW ms
  PROVE  /\ mergeAdjacentToolCalls(ms) = Merge!Folded(<<>>, ms)
         /\ repackToolResultBlocks(ms) = closeGroup(Repack!Folded([out |-> <<>>, group |-> NoGroup], ms)).out
<1>1. mergeAdjacentToolCalls(ms) = Merge!Folded(<<>>, ms)
  BY DEF mergeAdjacentToolCalls, Merge!Folded, FoldLeft, MapThenFoldSet, Max,
         Merge!MapThenFoldSet, Merge!Highest
<1>2. FoldLeft(repackStep, [out |-> <<>>, group |-> NoGroup], ms) = Repack!Folded([out |-> <<>>, group |-> NoGroup], ms)
  BY DEF Repack!Folded, FoldLeft, MapThenFoldSet, Max, Repack!MapThenFoldSet, Repack!Highest
<1> QED  BY <1>1, <1>2 DEF repackToolResultBlocks

\* Messages with the roles the backend knows.
Plain == {m \in Messages : m.role # "developer"}

\* Changing one field of a message gives a message.
LEMMA MessageUpdates ==
  ASSUME NEW m \in Messages
  PROVE  /\ \A r \in Roles : [m EXCEPT !.role = r] \in Messages /\ [m EXCEPT !.role = r].role = r
         /\ \A t \in STRING : [m EXCEPT !.text = t] \in Messages /\ [m EXCEPT !.text = t].role = m.role
         /\ \A calls \in Seq(ToolCalls) :
              [m EXCEPT !.calls = calls] \in Messages /\ [m EXCEPT !.calls = calls].role = m.role
         /\ \A t \in ReasoningTexts : [m EXCEPT !.rc = t] \in Messages /\ [m EXCEPT !.rc = t].role = m.role
<1> DEFINE C == Seq(ToolCalls)
           M == [role : Roles, text : STRING, calls : C, id : STRING, rc : ReasoningTexts, reasoning : ReasoningTexts]
<1>1. m \in M /\ Messages = M
  BY DEF Messages
<1> HIDE DEF C
<1>2. \A r \in Roles : [m EXCEPT !.role = r] \in M /\ [m EXCEPT !.role = r].role = r
  BY <1>1
<1>3. \A t \in STRING : [m EXCEPT !.text = t] \in M /\ [m EXCEPT !.text = t].role = m.role
  BY <1>1
<1>4. \A calls \in C : [m EXCEPT !.calls = calls] \in M /\ [m EXCEPT !.calls = calls].role = m.role
  BY <1>1
<1>5. \A t \in ReasoningTexts : [m EXCEPT !.rc = t] \in M /\ [m EXCEPT !.rc = t].role = m.role
  BY <1>1
<1> HIDE DEF M
<1> QED  BY <1>1, <1>2, <1>3, <1>4, <1>5 DEF C

\* normalizeRoles leaves no developer.
LEMMA RolesNormalized ==
  ASSUME NEW ms \in Seq(Messages)
  PROVE  normalizeRoles(ms) \in Seq(Plain)
<1> DEFINE R(m) == IF m.role = "developer" THEN [m EXCEPT !.role = "system"] ELSE m
<1>1. ASSUME NEW m \in Messages PROVE R(m) \in Plain
  <2>1. "system" \in Roles /\ "system" # "developer"
    BY DEF Roles
  <2>2. [m EXCEPT !.role = "system"] \in Plain
    BY Zenon, <2>1, MessageUpdates DEF Plain
  <2> QED  BY <2>2 DEF Plain
<1>2. \A i \in DOMAIN ms : ms[i] \in Messages
  OBVIOUS
<1>3. normalizeRoles(ms) = [i \in DOMAIN ms |-> R(ms[i])]
  BY DEF normalizeRoles
<1> HIDE DEF R
<1>4. \A i \in DOMAIN ms : R(ms[i]) \in Plain
  BY <1>1, <1>2
<1> QED  BY <1>3, <1>4

\* The reasoning of the absorbed message may be added, nothing else changes.
LEMMA ReasoningMerged ==
  ASSUME NEW dst \in Messages, NEW src \in Messages
  PROVE  \E t \in ReasoningTexts : mergeReasoningContent(dst, src) = [dst EXCEPT !.rc = t]
<1>1. dst.rc \in ReasoningTexts /\ src.rc \in ReasoningTexts /\ "joined" \in ReasoningTexts
  BY Zenon DEF Messages, ReasoningTexts
<1>2. [dst EXCEPT !.rc = dst.rc] = dst
  BY DEF Messages
<1> QED  BY Zenon, <1>1, <1>2 DEF mergeReasoningContent

\* Merging keeps the type of the messages.
LEMMA MergeStepType ==
  ASSUME NEW laid \in Seq(Plain), NEW m \in Plain
  PROVE  mergeInto(laid, m) \in Seq(Plain)
<1> DEFINE prev == Last(laid)
           joined == [prev EXCEPT !.calls = prev.calls \o m.calls]
           spoken == [prev EXCEPT !.text = m.text]
<1>1. \/ mergeInto(laid, m) = Append(laid, m)
      \/ laid # <<>> /\ mergeInto(laid, m) = ReplaceAt(laid, Len(laid), mergeReasoningContent(joined, m))
      \/ laid # <<>> /\ mergeInto(laid, m) = ReplaceAt(laid, Len(laid), mergeReasoningContent(spoken, m))
  BY Zenon DEF mergeInto
<1>2. ASSUME laid # <<>> PROVE prev \in Plain
  BY <1>2 DEF Last
<1> HIDE DEF prev
<1>3. ASSUME laid # <<>> PROVE joined \in Plain /\ spoken \in Plain
  <2>1. prev.calls \in Seq(ToolCalls) /\ m.calls \in Seq(ToolCalls) /\ m.text \in STRING
    BY <1>2, <1>3 DEF Plain, Messages
  <2>2. prev.calls \o m.calls \in Seq(ToolCalls)
    BY <2>1
  <2> QED  BY Zenon, <1>2, <1>3, <2>1, <2>2, MessageUpdates DEF Plain
<1> HIDE DEF joined, spoken
<1>4. ASSUME NEW x \in Plain PROVE mergeReasoningContent(x, m) \in Plain
  <2>1. PICK t \in ReasoningTexts : mergeReasoningContent(x, m) = [x EXCEPT !.rc = t]
    BY ReasoningMerged DEF Plain
  <2>2. [x EXCEPT !.rc = t] \in Messages /\ [x EXCEPT !.rc = t].role = x.role
    BY MessageUpdates DEF Plain
  <2>3. x.role # "developer"
    BY DEF Plain
  <2> QED  BY Zenon, <2>1, <2>2, <2>3 DEF Plain
<1>5. ASSUME laid # <<>>, NEW x \in Plain PROVE ReplaceAt(laid, Len(laid), x) \in Seq(Plain)
  BY <1>5 DEF ReplaceAt
<1>6. Append(laid, m) \in Seq(Plain)
  OBVIOUS
<1> QED  BY Zenon, <1>1, <1>3, <1>4, <1>5, <1>6

\* The merged history is one of known roles again.
LEMMA MergedPlain ==
  ASSUME NEW ms \in Seq(Plain)
  PROVE  mergeAdjacentToolCalls(ms) \in Seq(Plain)
<1>1. Len(ms) \in Nat /\ DOMAIN ms = 1 .. Len(ms) /\ \A i \in 1 .. Len(ms) : ms[i] \in Plain
  OBVIOUS
<1>2. <<>> \in Seq(Plain)
  OBVIOUS
<1>3. \A laid \in Seq(Plain) : \A i \in 1 .. Len(ms) : mergeInto(laid, ms[i]) \in Seq(Plain)
  BY <1>1, MergeStepType
<1>4. Merge!Folded(<<>>, ms) \in Seq(Plain)
  BY Zenon, <1>1, <1>2, <1>3, Merge!FoldInvariant
<1> QED  BY <1>4, PassesAreFolds

\* The group that repackToolResultBlocks collects.
Groups(T) == [open : BOOLEAN, want : SUBSET STRING, results : Seq(T), between : Seq(T)]

\* No group is a group with nothing in it.
LEMMA NoGroupType == ASSUME NEW T PROVE NoGroup \in Groups(T)
BY DEF NoGroup, Groups

\* What the loop of repackToolResultBlocks works on.
LEMMA RepackStepType ==
  ASSUME NEW st \in [out : Seq(Plain), group : Groups(Plain)], NEW m \in Plain
  PROVE  repackStep(st, m) \in [out : Seq(Plain), group : Groups(Plain)]
<1> DEFINE T == [out : Seq(Plain), group : Groups(Plain)]
<1>1. ASSUME NEW s \in T PROVE outsideGroup(s, m) \in T
  <2>1. CallIds(m) \in SUBSET STRING
    <3>1. m.calls \in Seq(ToolCalls)
      BY DEF Plain, Messages
    <3>2. \A i \in DOMAIN m.calls : m.calls[i] \in ToolCalls
      BY <3>1
    <3>3. \A c \in ToSet(m.calls) : c.id \in STRING
      BY <3>2 DEF ToSet, ToolCalls
    <3> QED  BY <3>3 DEF CallIds
  <2>2. ASSUME NEW w \in SUBSET STRING
        PROVE  NewGroup(w) \in Groups(Plain)
    BY DEF NewGroup, Groups
  <2>3. Append(s.out, m) \in Seq(Plain)
    OBVIOUS
  <2>4. CallIds(m) \ {""} \in SUBSET STRING
    BY Zenon, <2>1
  <2> QED  BY Zenon, <2>2, <2>3, <2>4, NoGroupType DEF outsideGroup
<1>2. closeGroup(st) \in T
  <2>1. st.out \o st.group.results \o st.group.between \in Seq(Plain)
    BY DEF Groups
  <2> QED  BY <2>1, NoGroupType DEF closeGroup
<1>0. ASSUME NEW q \in Seq(Plain)
      PROVE  [st EXCEPT !.group.results = q] \in T /\ [st EXCEPT !.group.between = q] \in T
  BY Zenon DEF Groups
<1>3. [st EXCEPT !.group.results = Append(@, m)] \in T
  <2>1. Append(st.group.results, m) \in Seq(Plain)
    BY DEF Groups
  <2> QED  BY Zenon, <1>0, <2>1
<1>4. [st EXCEPT !.group.between = Append(@, m)] \in T
  <2>1. Append(st.group.between, m) \in Seq(Plain)
    BY DEF Groups
  <2> QED  BY Zenon, <1>0, <2>1
<1>5. repackStep(st, m) \in {outsideGroup(st, m), [st EXCEPT !.group.results = Append(@, m)],
                            outsideGroup(closeGroup(st), m), [st EXCEPT !.group.between = Append(@, m)]}
  BY DEF repackStep
<1> HIDE DEF T
<1>6. repackStep(st, m) \in T
  BY Zenon, <1>1, <1>2, <1>3, <1>4, <1>5 DEF T
<1> QED  BY <1>6 DEF T

\* Repacking keeps the type of the messages.
LEMMA RepackedPlain ==
  ASSUME NEW ms \in Seq(Plain)
  PROVE  repackToolResultBlocks(ms) \in Seq(Plain)
<1> DEFINE T == [out : Seq(Plain), group : Groups(Plain)]
           start == [out |-> <<>>, group |-> NoGroup]
           st == Repack!Folded(start, ms)
<1>1. Len(ms) \in Nat /\ DOMAIN ms = 1 .. Len(ms) /\ \A i \in 1 .. Len(ms) : ms[i] \in Plain
  OBVIOUS
<1>2. start \in T
  BY NoGroupType
<1>3. \A a \in T : \A i \in 1 .. Len(ms) : repackStep(a, ms[i]) \in T
  BY <1>1, RepackStepType
<1> HIDE DEF T, start
<1>4. st \in T
  BY <1>1, <1>2, <1>3, Repack!FoldInvariant
<1> HIDE DEF st
<1>5. closeGroup(st).out \in Seq(Plain)
  BY <1>4 DEF T, closeGroup, Groups
<1>6. repackToolResultBlocks(ms) = closeGroup(st).out
  BY PassesAreFolds DEF st, start
<1> QED  BY <1>5, <1>6

\* The cleanup keeps the type of the messages.
LEMMA CleanedPlain ==
  ASSUME NEW ms \in Seq(Plain)
  PROVE  cleanupOrphanToolCalls(ms) \in Seq(Plain)
<1>0. ms \in Seq(Messages) /\ \A m \in ToSet(ms) : m \in Plain
  BY DEF Plain, ToSet
<1>1. CASE hasTraffic(ms)
  <2> DEFINE res == cleanupOrphanToolCalls(ms)
             keep == keepCalls(ms)
  <2>1. /\ res \in Seq(Messages)
        /\ \A x \in ToSet(res) : \E m \in ToSet(ms) : x = Trim(m, keep)
    BY <1>0, <1>1, CleanedSet
  <2> HIDE DEF res, keep
  <2>2. \A x \in ToSet(res) : x \in Plain
    BY <1>0, <2>1, TrimKeeps DEF Plain
  <2>3. \A i \in DOMAIN res : res[i] \in Plain
    BY <2>2 DEF ToSet
  <2> QED  BY <2>1, <2>3 DEF res
<1>2. CASE ~hasTraffic(ms)
  BY <1>2 DEF cleanupOrphanToolCalls
<1> QED  BY <1>1, <1>2

\* The passes over the options leave the messages alone.
LEMMA MessagesKept ==
  ASSUME NEW b, IsChatBody(b)
  PROVE  /\ clampGPTMinMaxTokens(b).messages = b.messages
         /\ translateMaxCompletionTokens(b).messages = b.messages
         /\ normalizeToolChoice(b).messages = b.messages
         /\ injectThinking(b).messages = b.messages
         /\ normalizeReasoningEffort(b).messages = b.messages
         /\ normalizeReasoningEffort(b).thinking = b.thinking /\ normalizeReasoningEffort(b).model = b.model
<1> DEFINE R == [model : Models, global : BOOLEAN, messages : {b.messages}, tools : BOOLEAN,
         toolChoice : ToolChoices, maxTokens : Nat \union {Absent}, alias : Nat \union {Absent},
         thinking : ThinkingTypes, effort : Ranks \union {Absent, OddEffort}]
<1>0. b \in R
  BY DEF IsChatBody
<1>1. \A x : /\ [b EXCEPT !.maxTokens = x].messages = b.messages
             /\ [b EXCEPT !.toolChoice = x].messages = b.messages
             /\ [b EXCEPT !.effort = x].messages = b.messages
             /\ [b EXCEPT !.effort = x].thinking = b.thinking
             /\ [b EXCEPT !.effort = x].model = b.model
             /\ [b EXCEPT !.thinking = x].messages = b.messages
             /\ \A y : /\ [b EXCEPT !.alias = x, !.maxTokens = y].messages = b.messages
                       /\ [b EXCEPT !.toolChoice = x, !.tools = y].messages = b.messages
                       /\ [[b EXCEPT !.thinking = x] EXCEPT !.effort = y].messages = b.messages
  BY <1>0
<1> HIDE DEF R
<1>2. clampGPTMinMaxTokens(b).messages = b.messages
  BY <1>1 DEF clampGPTMinMaxTokens
<1>3. translateMaxCompletionTokens(b).messages = b.messages
  BY <1>1 DEF translateMaxCompletionTokens
<1>4. normalizeToolChoice(b).messages = b.messages
  BY <1>1 DEF normalizeToolChoice
<1>5. ensureDeepSeekEffort(b).messages = b.messages
  BY <1>1 DEF ensureDeepSeekEffort
<1>6. ensureDeepSeekEffort([b EXCEPT !.thinking = "enabled"]).messages = b.messages
  BY <1>1 DEF ensureDeepSeekEffort
<1>7. injectThinking(b).messages = b.messages
  BY <1>1, <1>5, <1>6 DEF injectThinking
<1>8. normalizeReasoningEffort(b) = b \/ \E e : normalizeReasoningEffort(b) = [b EXCEPT !.effort = e]
  BY Zenon DEF normalizeReasoningEffort
<1> QED  BY ZenonT(60), <1>1, <1>2, <1>3, <1>4, <1>7, <1>8

\* Two histories with the same traffic: only what the backfill may change
\* differs.
SameTraffic(ms, ns) ==
  /\ DOMAIN ns = DOMAIN ms
  /\ \A i \in DOMAIN ms : ns[i].role = ms[i].role /\ ns[i].calls = ms[i].calls /\ ns[i].id = ms[i].id

\* Symmetry is a matter of the traffic alone.
LEMMA SymmetricKept ==
  ASSUME NEW ms, NEW ns, SameTraffic(ms, ns), Symmetric(ms)
  PROVE  Symmetric(ns)
<1>1. \A i \in DOMAIN ms : /\ HasCalls(ns[i]) <=> HasCalls(ms[i])
                           /\ CallIds(ns[i]) = CallIds(ms[i])
  BY DEF SameTraffic, HasCalls, CallIds
<1>2. CallsOf(ns) = CallsOf(ms)
  BY <1>1 DEF SameTraffic, CallsOf, ToSet
<1>3. ResultsOf(ns) = ResultsOf(ms)
  BY DEF SameTraffic, ResultsOf, ToSet
<1> QED  BY Zenon, <1>2, <1>3 DEF Symmetric, CallsOf, ResultsOf

\* What the backfill leaves of an assistant message.
LEMMA BackfilledMessage ==
  ASSUME NEW m \in Messages
  PROVE  /\ backfilled(m).role = m.role /\ backfilled(m).calls = m.calls /\ backfilled(m).id = m.id
         /\ backfilled(m).rc # "none" /\ backfilled(m).reasoning \notin {"none", ""}
<1> DEFINE C == Seq(ToolCalls)
           M == [role : Roles, text : STRING, calls : C, id : STRING, rc : ReasoningTexts, reasoning : ReasoningTexts]
           rc == CASE m.rc # "none" -> m.rc
                   [] m.rc = "none" /\ m.reasoning # "none" -> m.reasoning
                   [] OTHER -> ""
           rs == IF m.reasoning \notin {"none", ""} THEN m.reasoning ELSE IF rc # "" THEN rc ELSE "blank"
<1>1. m \in M
  BY DEF Messages
<1>2. backfilled(m) = [m EXCEPT !.rc = rc, !.reasoning = rs]
  BY DEF backfilled
<1>3. rc # "none"
  OBVIOUS
<1>4. rs \notin {"none", ""}
  BY Zenon, <1>3
<1> HIDE DEF rc, rs, C
<1> QED  BY Zenon, <1>1, <1>2, <1>3, <1>4

\* What BodyAccepted asks of the assistants and of the roles.
Reasons(ms) == \A m \in ToSet(ms) : m.role = "assistant" => m.rc # "none" /\ m.reasoning \notin {"none", ""}
NoDeveloper(ms) == \A m \in ToSet(ms) : m.role # "developer"

\* The backfill gives every assistant a reasoning when deepseek thinks.
LEMMA BackfillDone ==
  ASSUME NEW b, IsChatBody(b), b.messages \in Seq(Plain), NEW c, c = backfillReasoningContent(b)
  PROVE  /\ c.model = b.model /\ c.thinking = b.thinking
         /\ SameTraffic(b.messages, c.messages) /\ c.messages \in Seq(ToSet(c.messages))
         /\ b.model = "deepseek" /\ b.thinking = "enabled" => Reasons(c.messages)
<1> DEFINE ms == [i \in DOMAIN b.messages |->
                    IF b.messages[i].role = "assistant" THEN backfilled(b.messages[i]) ELSE b.messages[i]]
<1>1. \A i \in DOMAIN b.messages : b.messages[i] \in Messages
  BY DEF Plain
<1>2. CASE c = b /\ ~(b.model = "deepseek" /\ b.thinking = "enabled")
  <2>1. SameTraffic(b.messages, b.messages)
    BY DEF SameTraffic
  <2>2. b.messages \in Seq(ToSet(b.messages))
    BY DEF ToSet
  <2> QED  BY <1>2, <2>1, <2>2
<1>3. CASE c = [b EXCEPT !.messages = ms]
  <2>1. \A i \in DOMAIN ms :
          /\ ms[i].role = b.messages[i].role /\ ms[i].calls = b.messages[i].calls /\ ms[i].id = b.messages[i].id
          /\ ms[i].role = "assistant" => ms[i].rc # "none" /\ ms[i].reasoning \notin {"none", ""}
    BY Zenon, <1>1, BackfilledMessage
  <2>2. DOMAIN ms = DOMAIN b.messages
    OBVIOUS
  <2>3. ms \in Seq(ToSet(ms))
    <3>1. DOMAIN ms = 1 .. Len(b.messages) /\ Len(b.messages) \in Nat
      OBVIOUS
    <3>2. \A i \in DOMAIN ms : ms[i] \in ToSet(ms)
      BY DEF ToSet
    <3>3. ms = [i \in 1 .. Len(b.messages) |-> ms[i]]
      OBVIOUS
    <3> HIDE DEF ms
    <3> QED  BY <3>1, <3>2, <3>3
  <2> HIDE DEF ms
  <2>4. c.messages = ms /\ c.model = b.model /\ c.thinking = b.thinking
    BY <1>3 DEF IsChatBody
  <2>5. SameTraffic(b.messages, ms)
    BY Zenon, <2>1, <2>2 DEF SameTraffic
  <2>6. Reasons(ms)
    BY Zenon, <2>1 DEF Reasons, ToSet
  <2> QED  BY <2>3, <2>4, <2>5, <2>6
<1>4. \/ c = b /\ ~(b.model = "deepseek" /\ b.thinking = "enabled")
      \/ c = [b EXCEPT !.messages = ms]
  BY Zenon DEF backfillReasoningContent
<1> QED  BY <1>2, <1>3, <1>4

\* Putting other messages into a body keeps what the earlier passes did.
LEMMA MessagesReplaced ==
  ASSUME NEW b, IsChatBody(b), Limited(b), ChoiceNamed(b), NEW ms,
         NEW c, c = [b EXCEPT !.messages = ms]
  PROVE  IsChatBody(c) /\ Limited(c) /\ ChoiceNamed(c) /\ c.messages = ms
<1>1. c.messages = ms
  BY DEF IsChatBody
<1> QED  BY <1>1, MessagesOnly DEF Limited, ChoiceNamed

\* The messages that are sent: paired, then filled in, then perhaps put
\* behind a system message.
LEMMA HistoryShape ==
  ASSUME NEW b, IsChatBody(b), b.messages \in Seq(Messages), NEW c, c = PrepareChatBodyForRealm(b)
  PROVE  /\ pairMessages(normalizeRoles(b.messages)) \in Seq(Plain)
         /\ \E ns : /\ SameTraffic(pairMessages(normalizeRoles(b.messages)), ns)
                    /\ ns \in Seq(ToSet(ns))
                    /\ c.messages \in {ns, ensureConsoleSystem(ns)}
                    /\ c.model = "deepseek" /\ c.thinking = "enabled" => Reasons(ns)
<1> DEFINE tokens == clampGPTMinMaxTokens(translateMaxCompletionTokens(b))
           choice == normalizeToolChoice(tokens)
           roles  == [choice EXCEPT !.messages = normalizeRoles(@)]
           paired == [roles EXCEPT !.messages = pairMessages(@)]
           minded == injectThinking(paired)
           level  == normalizeReasoningEffort(minded)
           filled == backfillReasoningContent(level)
           P == pairMessages(normalizeRoles(b.messages))
<1>1. IsChatBody(tokens) /\ Limited(tokens) /\ tokens.messages = b.messages
  <2>1. IsChatBody(tokens) /\ Limited(tokens)
    BY LimitsSet
  <2> DEFINE t == translateMaxCompletionTokens(b)
  <2>2. IsChatBody(t)
    BY Zenon DEF IsChatBody, translateMaxCompletionTokens, Absent
  <2>3. t.messages = b.messages
    BY MessagesKept
  <2> HIDE DEF t
  <2>4. clampGPTMinMaxTokens(t).messages = t.messages
    BY <2>2, MessagesKept
  <2> QED  BY <2>1, <2>3, <2>4 DEF t
<1>2. IsChatBody(choice) /\ Limited(choice) /\ ChoiceNamed(choice)
  <2> HIDE DEF tokens
  <2> QED  BY <1>1, ChoiceSet
<1>2a. choice.messages = b.messages
  <2> HIDE DEF tokens
  <2> QED  BY <1>1, MessagesKept
<1>3. IsChatBody(roles) /\ Limited(roles) /\ ChoiceNamed(roles)
  <2> HIDE DEF choice
  <2> QED  BY Zenon, <1>2, MessagesReplaced
<1>4. roles.messages = normalizeRoles(b.messages)
  <2> HIDE DEF choice
  <2> QED  BY <1>2, <1>2a DEF IsChatBody
<1>5. IsChatBody(paired) /\ Limited(paired) /\ ChoiceNamed(paired)
  <2> HIDE DEF roles
  <2> QED  BY Zenon, <1>3, MessagesReplaced
<1>6. paired.messages = P
  <2> HIDE DEF roles
  <2> QED  BY <1>3, <1>4 DEF IsChatBody
<1>7. IsChatBody(minded) /\ Limited(minded) /\ ChoiceNamed(minded) /\ ThinksWithLevel(minded) /\ minded.messages = P
  <2> HIDE DEF paired, P
  <2> QED  BY <1>5, <1>6, ThinkingSet, MessagesKept
<1>8. IsChatBody(level) /\ level.messages = P
  <2> HIDE DEF minded, P
  <2>1. IsChatBody(level)
    BY <1>7, LevelSupported
  <2>2. level.messages = minded.messages
    BY <1>7, MessagesKept
  <2> QED  BY <1>7, <2>1, <2>2
<1>9. P \in Seq(Plain)
  <2> DEFINE n == normalizeRoles(b.messages)
             m == mergeAdjacentToolCalls(n)
             r == repackToolResultBlocks(m)
  <2>1. n \in Seq(Plain)
    BY RolesNormalized
  <2> HIDE DEF n
  <2>2. m \in Seq(Plain)
    BY <2>1, MergedPlain
  <2> HIDE DEF m
  <2>3. r \in Seq(Plain)
    BY <2>2, RepackedPlain
  <2> HIDE DEF r
  <2>4. cleanupOrphanToolCalls(r) \in Seq(Plain)
    BY <2>3, CleanedPlain
  <2> QED  BY <2>4 DEF r, m, n, pairMessages
<1>10. /\ filled.model = level.model /\ filled.thinking = level.thinking
       /\ SameTraffic(P, filled.messages) /\ filled.messages \in Seq(ToSet(filled.messages))
       /\ filled.model = "deepseek" /\ filled.thinking = "enabled" => Reasons(filled.messages)
  <2> HIDE DEF level, P
  <2> QED  BY <1>8, <1>9, BackfillDone
<1>11. IsChatBody(filled)
  <2>1. filled = level \/ \E ms : filled = [level EXCEPT !.messages = ms]
    <3> HIDE DEF level
    <3> QED  BY Zenon DEF backfillReasoningContent
  <2> HIDE DEF level, filled
  <2> QED  BY Zenon, <1>8, <2>1, MessagesOnly
<1>12. \/ c = filled
       \/ c = [filled EXCEPT !.messages = ensureConsoleSystem(filled.messages)]
  <2>1. PrepareBody(b) = filled
    BY DEF PrepareBody
  <2> HIDE DEF filled
  <2> QED  BY <2>1 DEF PrepareChatBodyForRealm
<1> HIDE DEF filled, level, P
<1>13. /\ c.model = filled.model /\ c.thinking = filled.thinking
       /\ c.messages \in {filled.messages, ensureConsoleSystem(filled.messages)}
  BY <1>11, <1>12 DEF IsChatBody
<1>14. /\ SameTraffic(P, filled.messages) /\ filled.messages \in Seq(ToSet(filled.messages))
       /\ c.messages \in {filled.messages, ensureConsoleSystem(filled.messages)}
       /\ c.model = "deepseek" /\ c.thinking = "enabled" => Reasons(filled.messages)
  BY <1>10, <1>13
<1> QED  BY <1>9, <1>14 DEF P

\* A system message in front is no traffic.
LEMMA ConsoleSystem ==
  ASSUME NEW T, NEW ns \in Seq(T)
  PROVE  \/ ensureConsoleSystem(ns) = ns
         \/ \E sys : /\ sys.role = "system" /\ ensureConsoleSystem(ns) = <<sys>> \o ns
                     /\ ToSet(<<sys>> \o ns) = {sys} \union ToSet(ns)
<1> DEFINE sys == Message("system", "fallback", <<>>, "")
           whole == <<sys>> \o ns
<1>1. ensureConsoleSystem(ns) = ns \/ ensureConsoleSystem(ns) = whole
  BY Zenon DEF ensureConsoleSystem
<1>2. sys.role = "system"
  BY DEF Message
<1> HIDE DEF sys
<1>3. /\ DOMAIN whole = 1 .. (Len(ns) + 1) /\ DOMAIN ns = 1 .. Len(ns) /\ Len(ns) \in Nat
      /\ whole[1] = sys /\ \A i \in 1 .. Len(ns) : whole[i + 1] = ns[i]
  OBVIOUS
<1> HIDE DEF whole
<1>4. \A i \in DOMAIN whole : i = 1 \/ (i - 1 \in DOMAIN ns /\ whole[i] = ns[i - 1])
  BY <1>3
<1>5. \A x \in ToSet(whole) : x \in {sys} \union ToSet(ns)
  BY <1>3, <1>4 DEF ToSet
<1>6. \A x \in {sys} \union ToSet(ns) : x \in ToSet(whole)
  <2>1. sys \in ToSet(whole)
    BY <1>3 DEF ToSet
  <2>2. \A i \in DOMAIN ns : i + 1 \in DOMAIN whole
    BY <1>3
  <2> QED  BY <1>3, <2>1, <2>2 DEF ToSet
<1>7. ToSet(whole) = {sys} \union ToSet(ns)
  BY <1>5, <1>6
<1> QED  BY Zenon, <1>1, <1>2, <1>7 DEF whole

\* The part of BodyAccepted that is about the messages.
HistoryAccepted(b) ==
  /\ Symmetric(b.messages)
  /\ b.model = "deepseek" /\ b.thinking = "enabled" => Reasons(b.messages)
  /\ NoDeveloper(b.messages)

\* The whole history that is sent is one the backend accepts.
LEMMA HistoryPrepared ==
  ASSUME NEW b, IsChatBody(b), b.messages \in Seq(Messages), NEW c, c = PrepareChatBodyForRealm(b)
  PROVE  HistoryAccepted(c)
<1> DEFINE P == pairMessages(normalizeRoles(b.messages))
           r == repackToolResultBlocks(mergeAdjacentToolCalls(normalizeRoles(b.messages)))
<1>1. P \in Seq(Plain)
  BY HistoryShape
<1>2. PICK ns : /\ SameTraffic(P, ns) /\ ns \in Seq(ToSet(ns))
                /\ c.messages \in {ns, ensureConsoleSystem(ns)}
                /\ c.model = "deepseek" /\ c.thinking = "enabled" => Reasons(ns)
  BY HistoryShape
<1>3. Symmetric(P)
  <2>1. r \in Seq(Plain)
    BY RolesNormalized, MergedPlain, RepackedPlain
  <2>2. r \in Seq(Messages)
    BY <2>1 DEF Plain
  <2> HIDE DEF r
  <2>3. Symmetric(cleanupOrphanToolCalls(r))
    BY <2>2, CleanedSymmetric
  <2> QED  BY <2>3 DEF r, pairMessages
<1> HIDE DEF P
<1>4. Symmetric(ns)
  BY <1>2, <1>3, SymmetricKept
<1>5. NoDeveloper(ns)
  <2>1. \A i \in DOMAIN P : P[i].role # "developer"
    BY <1>1 DEF Plain
  <2> QED  BY <1>2, <2>1 DEF SameTraffic, NoDeveloper, ToSet
<1>6. CASE c.messages = ns
  BY <1>2, <1>4, <1>5, <1>6 DEF HistoryAccepted
<1>7. CASE c.messages = ensureConsoleSystem(ns) /\ c.messages # ns
  <2>1. PICK sys : sys.role = "system" /\ ToSet(c.messages) = {sys} \union ToSet(ns)
    BY Zenon, <1>2, <1>7, ConsoleSystem
  <2>2. CallsOf(c.messages) = CallsOf(ns) /\ ResultsOf(c.messages) = ResultsOf(ns)
    BY <2>1 DEF CallsOf, ResultsOf, HasCalls
  <2>3. Symmetric(c.messages)
    BY Zenon, <1>4, <2>2 DEF Symmetric, CallsOf, ResultsOf
  <2> QED  BY Zenon, <1>2, <1>5, <2>1, <2>3 DEF HistoryAccepted, Reasons, NoDeveloper
<1> QED  BY <1>2, <1>6, <1>7

\* Nothing but wbPrepareBody makes a body to be sent.
LEMMA BodyStep ==
  ASSUME [Next]_vars, pc' = "prepared"
  PROVE  \/ \E b \in Bodies : Prepare(b)
         \/ pc = "prepared" /\ UNCHANGED <<input, body>>
<1>1. ASSUME NEW p \in Lines, ReadLine(p) PROVE pc' # "prepared"
  BY <1>1 DEF ReadLine
<1>2. ASSUME Reject \/ OpenFails \/ OpenOK \/ EmitFails \/ FlushTail \/ SettleFailed \/ SettleOK \/ Close
             \/ (\E r \in Refusals : OpenRefused(r[1], r[2])) \/ (\E err \in BOOLEAN : ReadEnds(err))
      PROVE  pc' # "prepared"
  BY <1>2 DEF Reject, OpenFails, OpenOK, EmitFails, FlushTail, SettleFailed, SettleOK, Close,
              OpenRefused, ReadEnds, fail
<1>3. CASE Emit \/ ClientLeaves \/ UNCHANGED vars
  BY <1>3 DEF Emit, ClientLeaves, vars, upstream
<1> QED  BY <1>1, <1>2, <1>3 DEF Next, Step, Over

\* PrepareBody: whatever history and options the client sends, the body that
\* is sent has a result for every call and a call for every result, options
\* the backend takes, a reasoning on every assistant when deepseek thinks, and
\* no developer.
THEOREM BodyCorrect == Spec => []BodyAccepted
<1>0. BodyAccepted <=> (pc = "prepared" => HistoryAccepted(body) /\ OptionsAccepted(body))
  BY Zenon DEF BodyAccepted, HistoryAccepted, Reasons, NoDeveloper
<1>1. Init => BodyAccepted
  BY Zenon DEF Init, BodyAccepted
<1>2. BodyAccepted /\ [Next]_vars => BodyAccepted'
  <2> SUFFICES ASSUME BodyAccepted, [Next]_vars, pc' = "prepared"
               PROVE  HistoryAccepted(body') /\ OptionsAccepted(body')
    BY Zenon DEF BodyAccepted, HistoryAccepted, Reasons, NoDeveloper, Symmetric, OptionsAccepted
  <2>1. ASSUME NEW b \in Bodies, Prepare(b) PROVE HistoryAccepted(body') /\ OptionsAccepted(body')
    BY <2>1, HistoryPrepared, OptionsPrepared, BodyAssumption DEF Prepare
  <2> QED  BY <1>0, <2>1, BodyStep
<1> QED  BY <1>1, <1>2, PTL DEF Spec

----------------------------------------------------------------------------
(* Where the results stand: the loop of repackToolResultBlocks keeps       *)
(* Sorted, its end gives Grouped, and the cleanup makes that Contiguous.   *)

\* Ids of the results among the first k messages.
ToolIds(ms, k) == {ms[j].id : j \in {x \in 1 .. k : ms[x].role = "tool"}}

\* A history whose results can be put behind their calls (Repairable, of the
\* merged history).
Tidy(ms) ==
  /\ \A i \in DOMAIN ms : HasCalls(ms[i]) =>
       /\ \A c \in ToSet(ms[i].calls) : c.named /\ c.id # ""
       /\ \A x, y \in DOMAIN ms[i].calls : ms[i].calls[x].id = ms[i].calls[y].id => x = y
       /\ i < Len(ms) /\ ms[i + 1].role = "tool" /\ ms[i + 1].id \in CallIds(ms[i])
  /\ \A i, j \in DOMAIN ms : HasCalls(ms[i]) /\ HasCalls(ms[j]) /\ i # j =>
       CallIds(ms[i]) \intersect CallIds(ms[j]) = {}
  /\ \A j \in DOMAIN ms : ms[j].role = "tool" =>
       /\ \A x \in DOMAIN ms : ms[x].role = "tool" /\ ms[x].id = ms[j].id => x = j
       /\ \E i \in DOMAIN ms : /\ HasCalls(ms[i]) /\ i < j /\ ms[j].id \in CallIds(ms[i])
                               /\ \A k \in DOMAIN ms : HasCalls(ms[k]) => k <= i \/ j < k

\* Repairable says that the merged history is tidy.
LEMMA RepairableTidy ==
  ASSUME NEW ms, Repairable(ms)
  PROVE  Tidy(mergeAdjacentToolCalls(ms))
<1> DEFINE merged == mergeAdjacentToolCalls(ms)
           batch  == {i \in DOMAIN merged : HasCalls(merged[i])}
<1>1. \A i \in batch :
        /\ \A c \in ToSet(merged[i].calls) : c.named /\ c.id # ""
        /\ \A x, y \in DOMAIN merged[i].calls : merged[i].calls[x].id = merged[i].calls[y].id => x = y
        /\ \A j \in batch \ {i} : CallIds(merged[i]) \intersect CallIds(merged[j]) = {}
        /\ i < Len(merged)
        /\ merged[i + 1].role = "tool" /\ merged[i + 1].id \in CallIds(merged[i])
  BY Zenon DEF Repairable
<1>2. \A j \in DOMAIN merged : merged[j].role = "tool" =>
        /\ {x \in DOMAIN merged : merged[x].role = "tool" /\ merged[x].id = merged[j].id} = {j}
        /\ \E i \in batch : /\ i < j
                            /\ merged[j].id \in CallIds(merged[i])
                            /\ \A k \in batch : k <= i \/ j < k
  BY Zenon DEF Repairable
<1> HIDE DEF merged
<1>3. \A j \in DOMAIN merged : merged[j].role = "tool" =>
        \A x \in DOMAIN merged : merged[x].role = "tool" /\ merged[x].id = merged[j].id => x = j
  BY <1>2
<1>4. \A j \in DOMAIN merged : merged[j].role = "tool" =>
        \E i \in DOMAIN merged : /\ HasCalls(merged[i]) /\ i < j /\ merged[j].id \in CallIds(merged[i])
                                 /\ \A k \in DOMAIN merged : HasCalls(merged[k]) => k <= i \/ j < k
  BY <1>2
<1>5. \A i, j \in DOMAIN merged : HasCalls(merged[i]) /\ HasCalls(merged[j]) /\ i # j =>
       CallIds(merged[i]) \intersect CallIds(merged[j]) = {}
  BY Zenon, <1>1
<1>6. \A i \in DOMAIN merged : HasCalls(merged[i]) =>
       /\ \A c \in ToSet(merged[i].calls) : c.named /\ c.id # ""
       /\ \A x, y \in DOMAIN merged[i].calls : merged[i].calls[x].id = merged[i].calls[y].id => x = y
       /\ i < Len(merged) /\ merged[i + 1].role = "tool" /\ merged[i + 1].id \in CallIds(merged[i])
  BY Zenon, <1>1
<1>7. Tidy(merged)
  BY Zenon, <1>3, <1>4, <1>5, <1>6 DEF Tidy
<1> QED  BY <1>7 DEF merged

\* The results of the batch at p, of those in ids, stand right behind it.
Run(laid, p, ids) ==
  \E n \in Nat :
    /\ p + n <= Len(laid)
    /\ \A q \in (p + 1) .. (p + n) : laid[q].role = "tool"
    /\ \A q, r \in (p + 1) .. (p + n) : laid[q].id = laid[r].id => q = r
    /\ {laid[q].id : q \in (p + 1) .. (p + n)} = CallIds(laid[p]) \intersect ids

\* The loop of repackToolResultBlocks after k messages, inside the group of
\* the batch b.
InGroup(ms, k, st, b) ==
  /\ b \in 1 .. k /\ HasCalls(ms[b])
  /\ \A i \in (b + 1) .. k : ~HasCalls(ms[i])
  /\ st.group.want = CallIds(ms[b])
  /\ st.out # <<>> /\ st.out[Len(st.out)] = ms[b]
  /\ ToSet(st.group.results) = {ms[j] : j \in {x \in (b + 1) .. k : ms[x].role = "tool"}}
  /\ \A x, y \in DOMAIN st.group.results : st.group.results[x].id = st.group.results[y].id => x = y
  /\ \A x \in DOMAIN st.group.between :
       st.group.between[x].role # "tool" /\ ~HasCalls(st.group.between[x])
  /\ \A p \in 1 .. (Len(st.out) - 1) : HasCalls(st.out[p]) =>
       /\ Run(st.out, p, ToolIds(ms, k))
       /\ \E i \in 1 .. (b - 1) : st.out[p] = ms[i]

\* The same before the first batch.
BeforeGroups(ms, k, st) ==
  /\ st.group.results = <<>> /\ st.group.between = <<>>
  /\ \A i \in 1 .. k : ~HasCalls(ms[i])
  /\ \A p \in DOMAIN st.out : ~HasCalls(st.out[p])

\* What the loop works on.
Loops == [out : Seq(Plain), group : Groups(Plain)]

\* The loop after k messages: nothing is lost, and what it has left behind is
\* in order.
Sorted(ms, k, st) ==
  /\ st \in Loops
  /\ IF st.group.open THEN \E b \in 1 .. k : InGroup(ms, k, st, b) ELSE BeforeGroups(ms, k, st)
  /\ ToSet(st.out) \union ToSet(st.group.results) \union ToSet(st.group.between) = {ms[j] : j \in 1 .. k}

\* A sequence of batches followed by their results.
Grouped(ms, k, laid) ==
  /\ laid \in Seq(Plain)
  /\ ToSet(laid) = {ms[j] : j \in 1 .. k}
  /\ \A p \in DOMAIN laid : HasCalls(laid[p]) =>
       Run(laid, p, ToolIds(ms, k)) /\ \E i \in 1 .. k : laid[p] = ms[i]

\* Appending keeps what stands behind a batch.
LEMMA RunPrefix ==
  ASSUME NEW s \in Seq(Plain), NEW t \in Seq(Plain), NEW p \in 1 .. Len(s), NEW ids, Run(s, p, ids)
  PROVE  Run(s \o t, p, ids)
<1> DEFINE w == s \o t
<1>1. PICK n \in Nat :
        /\ p + n <= Len(s)
        /\ \A q \in (p + 1) .. (p + n) : s[q].role = "tool"
        /\ \A q, r \in (p + 1) .. (p + n) : s[q].id = s[r].id => q = r
        /\ {s[q].id : q \in (p + 1) .. (p + n)} = CallIds(s[p]) \intersect ids
  BY Zenon DEF Run
<1>2. Len(w) = Len(s) + Len(t) /\ Len(s) \in Nat /\ Len(t) \in Nat /\ \A q \in 1 .. Len(s) : w[q] = s[q]
  OBVIOUS
<1> HIDE DEF w
<1>3. w[p] = s[p] /\ p + n <= Len(w) /\ \A q \in (p + 1) .. (p + n) : w[q] = s[q]
  <2>1. p + n <= Len(s)
    BY <1>1
  <2> QED  BY <1>2, <2>1
<1>4. {w[q].id : q \in (p + 1) .. (p + n)} = {s[q].id : q \in (p + 1) .. (p + n)}
  BY Zenon, <1>3
<1>5. Run(w, p, ids)
  BY Zenon, <1>1, <1>3, <1>4 DEF Run
<1> QED  BY <1>5 DEF w

\* The elements of two lists put together.
LEMMA SetOfConcat ==
  ASSUME NEW T, NEW s \in Seq(T), NEW t \in Seq(T)
  PROVE  ToSet(s \o t) = ToSet(s) \union ToSet(t)
<1> DEFINE w == s \o t
<1>1. /\ DOMAIN s = 1 .. Len(s) /\ DOMAIN t = 1 .. Len(t) /\ DOMAIN w = 1 .. (Len(s) + Len(t))
      /\ Len(s) \in Nat /\ Len(t) \in Nat
      /\ \A i \in 1 .. Len(s) : w[i] = s[i]
      /\ \A i \in 1 .. Len(t) : w[Len(s) + i] = t[i]
  OBVIOUS
<1> HIDE DEF w
<1>2. \A i \in DOMAIN w : i \in DOMAIN s \/ (i - Len(s) \in DOMAIN t /\ w[i] = t[i - Len(s)])
  <2> SUFFICES ASSUME NEW i \in DOMAIN w, i \notin DOMAIN s PROVE i - Len(s) \in DOMAIN t /\ w[i] = t[i - Len(s)]
    OBVIOUS
  <2>1. i - Len(s) \in 1 .. Len(t) /\ Len(s) + (i - Len(s)) = i
    BY <1>1
  <2>2. w[Len(s) + (i - Len(s))] = t[i - Len(s)]
    BY <1>1, <2>1
  <2> QED  BY <1>1, <2>1, <2>2
<1>3. \A x \in ToSet(w) : x \in ToSet(s) \union ToSet(t)
  BY <1>1, <1>2 DEF ToSet
<1>4. \A i \in DOMAIN t : Len(s) + i \in DOMAIN w
  BY <1>1
<1>5. \A i \in DOMAIN s : i \in DOMAIN w
  BY <1>1
<1>6. \A x \in ToSet(s) \union ToSet(t) : x \in ToSet(w)
  BY <1>1, <1>4, <1>5 DEF ToSet
<1> QED  BY <1>3, <1>6 DEF w

\* Where an element of three lists put together comes from.
LEMMA ThreeParts ==
  ASSUME NEW T, NEW a \in Seq(T), NEW b \in Seq(T), NEW c \in Seq(T)
  PROVE  /\ a \o b \o c \in Seq(T) /\ Len(a \o b \o c) = Len(a) + Len(b) + Len(c)
         /\ \A i \in 1 .. Len(a) : (a \o b \o c)[i] = a[i]
         /\ \A i \in 1 .. Len(b) : (a \o b \o c)[Len(a) + i] = b[i]
         /\ \A i \in 1 .. Len(c) : (a \o b \o c)[Len(a) + Len(b) + i] = c[i]
         /\ ToSet(a \o b \o c) = ToSet(a) \union ToSet(b) \union ToSet(c)
<1> DEFINE ab == a \o b
           w == a \o b \o c
<1>1. /\ ab \in Seq(T) /\ Len(ab) = Len(a) + Len(b) /\ Len(a) \in Nat /\ Len(b) \in Nat /\ Len(c) \in Nat
      /\ \A i \in 1 .. Len(a) : ab[i] = a[i]
      /\ \A i \in 1 .. Len(b) : ab[Len(a) + i] = b[i]
  OBVIOUS
<1>2. ToSet(ab) = ToSet(a) \union ToSet(b)
  BY SetOfConcat
<1> HIDE DEF ab
<1>3. w = ab \o c
  BY DEF ab
<1> HIDE DEF w
<1>4. /\ w \in Seq(T) /\ Len(w) = Len(ab) + Len(c)
      /\ \A i \in 1 .. Len(ab) : w[i] = ab[i]
      /\ \A i \in 1 .. Len(c) : w[Len(ab) + i] = c[i]
  <2>1. ab \in Seq(T)
    BY <1>1
  <2> QED  BY <1>3, <2>1
<1>5. ToSet(w) = ToSet(ab) \union ToSet(c)
  BY <1>1, <1>3, SetOfConcat
<1>6. \A i \in 1 .. Len(a) : i \in 1 .. Len(ab)
  BY <1>1
<1>7. \A i \in 1 .. Len(b) : Len(a) + i \in 1 .. Len(ab)
  BY <1>1
<1> QED  BY Zenon, <1>1, <1>2, <1>4, <1>5, <1>6, <1>7 DEF w

\* The batch of a result is the last one before it.
LEMMA BatchOf ==
  ASSUME NEW ms \in Seq(Plain), Tidy(ms), NEW j \in DOMAIN ms, ms[j].role = "tool",
         NEW b \in DOMAIN ms, HasCalls(ms[b]), b < j, \A i \in (b + 1) .. j : ~HasCalls(ms[i])
  PROVE  ms[j].id \in CallIds(ms[b])
<1>1. PICK i \in DOMAIN ms : /\ HasCalls(ms[i]) /\ i < j /\ ms[j].id \in CallIds(ms[i])
                             /\ \A k \in DOMAIN ms : HasCalls(ms[k]) => k <= i \/ j < k
  BY Zenon DEF Tidy
<1>2. b <= i
  BY <1>1
<1>3. i \notin (b + 1) .. j
  BY <1>1
<1>4. i = b
  BY <1>1, <1>2, <1>3
<1> QED  BY <1>1, <1>4

\* Results that stand behind a batch are results of no other.
LEMMA NotOfOther ==
  ASSUME NEW ms \in Seq(Plain), Tidy(ms), NEW i \in DOMAIN ms, NEW b \in DOMAIN ms,
         HasCalls(ms[i]), HasCalls(ms[b]), i # b, NEW id \in CallIds(ms[b])
  PROVE  id \notin CallIds(ms[i])
BY Zenon DEF Tidy

\* Ending a group puts its results behind the batch.
LEMMA CloseGroups ==
  ASSUME NEW ms \in Seq(Plain), Tidy(ms), NEW k \in 0 .. Len(ms), NEW st, Sorted(ms, k, st)
  PROVE  Grouped(ms, k, closeGroup(st).out)
<1> DEFINE a == st.out
           r == st.group.results
           c == st.group.between
           w == a \o r \o c
<1>1. a \in Seq(Plain) /\ r \in Seq(Plain) /\ c \in Seq(Plain) /\ closeGroup(st).out = w
  BY Zenon DEF Sorted, Loops, Groups, closeGroup
<1>2. /\ w \in Seq(Plain) /\ Len(w) = Len(a) + Len(r) + Len(c)
      /\ \A i \in 1 .. Len(a) : w[i] = a[i]
      /\ \A i \in 1 .. Len(r) : w[Len(a) + i] = r[i]
      /\ \A i \in 1 .. Len(c) : w[Len(a) + Len(r) + i] = c[i]
      /\ ToSet(w) = ToSet(a) \union ToSet(r) \union ToSet(c)
  <2> HIDE DEF a, r, c
  <2> QED  BY SMTT(30), <1>1, ThreeParts
<1>3. ToSet(w) = {ms[j] : j \in 1 .. k}
  BY <1>2 DEF Sorted
<1>4. Len(a) \in Nat /\ Len(r) \in Nat /\ Len(c) \in Nat /\ DOMAIN a = 1 .. Len(a) /\ DOMAIN r = 1 .. Len(r)
      /\ DOMAIN c = 1 .. Len(c) /\ DOMAIN w = 1 .. Len(w)
  BY <1>1, <1>2
<1>5. CASE ~st.group.open
  <2>1. r = <<>> /\ c = <<>> /\ \A p \in DOMAIN a : ~HasCalls(a[p])
    BY <1>5 DEF Sorted, BeforeGroups
  <2>2. \A p \in DOMAIN w : ~HasCalls(w[p])
    <3> HIDE DEF a, r, c, w
    <3>1. Len(r) = 0 /\ Len(c) = 0
      BY <2>1
    <3> QED  BY <1>2, <1>4, <2>1, <3>1
  <2> HIDE DEF a, r, c, w
  <2>3. Grouped(ms, k, w)
    BY <1>2, <1>3, <2>2 DEF Grouped
  <2> QED  BY <1>1, <2>3
<1>6. CASE st.group.open
  <2>1. PICK b \in 1 .. k : InGroup(ms, k, st, b)
    BY <1>6 DEF Sorted
  <2>2. /\ b \in 1 .. k /\ HasCalls(ms[b]) /\ \A i \in (b + 1) .. k : ~HasCalls(ms[i])
        /\ a # <<>> /\ a[Len(a)] = ms[b]
        /\ ToSet(r) = {ms[j] : j \in {x \in (b + 1) .. k : ms[x].role = "tool"}}
        /\ \A x, y \in DOMAIN r : r[x].id = r[y].id => x = y
        /\ \A x \in DOMAIN c : c[x].role # "tool" /\ ~HasCalls(c[x])
        /\ \A p \in 1 .. (Len(a) - 1) : HasCalls(a[p]) =>
             Run(a, p, ToolIds(ms, k)) /\ \E i \in 1 .. (b - 1) : a[p] = ms[i]
    BY <2>1 DEF InGroup
  <2> HIDE DEF a, r, c, w
  <2> DEFINE n == Len(r)
             p0 == Len(a)
  <2>3. \A j \in DOMAIN ms : j \in Int /\ 1 <= j /\ j <= Len(ms)
    OBVIOUS
  <2>4. DOMAIN ms = 1 .. Len(ms) /\ Len(ms) \in Nat /\ k <= Len(ms) /\ k \in Nat
    OBVIOUS
  <2>5. \A x \in DOMAIN r : r[x].role = "tool" /\ \E j \in (b + 1) .. k : r[x] = ms[j]
    <3>1. \A x \in DOMAIN r : r[x] \in ToSet(r)
      BY DEF ToSet
    <3> QED  BY <2>2, <3>1
  <2>6. {r[x].id : x \in DOMAIN r} = CallIds(ms[b]) \intersect ToolIds(ms, k)
    <3>1. ASSUME NEW x \in DOMAIN r PROVE r[x].id \in CallIds(ms[b]) /\ r[x].id \in ToolIds(ms, k)
      <4>1. PICK j \in (b + 1) .. k : r[x] = ms[j]
        BY <2>5
      <4>2. j \in DOMAIN ms /\ b \in DOMAIN ms /\ b < j /\ ms[j].role = "tool" /\ j \in 1 .. k
        BY <2>2, <2>4, <2>5, <4>1
      <4>3. \A i \in (b + 1) .. j : i \in (b + 1) .. k
        BY <4>1
      <4>4. ms[j].id \in CallIds(ms[b])
        BY <2>2, <4>2, <4>3, BatchOf
      <4> QED  BY <4>1, <4>2, <4>4 DEF ToolIds
    <3>2. ASSUME NEW id \in CallIds(ms[b]) \intersect ToolIds(ms, k) PROVE \E x \in DOMAIN r : r[x].id = id
      <4>1. PICK j \in 1 .. k : ms[j].role = "tool" /\ ms[j].id = id
        BY DEF ToolIds
      <4>2. j \in DOMAIN ms /\ b \in DOMAIN ms
        BY <2>2, <2>4, <4>1
      <4>3. PICK i \in DOMAIN ms : HasCalls(ms[i]) /\ i < j /\ ms[j].id \in CallIds(ms[i])
        BY Zenon, <4>1, <4>2 DEF Tidy
      <4>4. i = b
        BY <2>2, <4>1, <4>2, <4>3, NotOfOther
      <4>5. j \in (b + 1) .. k
        BY <2>4, <4>3, <4>4
      <4>6. ms[j] \in ToSet(r)
        BY <2>2, <4>1, <4>5
      <4> QED  BY <4>1, <4>6 DEF ToSet
    <3> QED  BY <3>1, <3>2
  <2>7. Run(w, p0, ToolIds(ms, k))
    <3>1. p0 + n <= Len(w) /\ n \in Nat /\ p0 \in Nat
      BY <1>2, <1>4
    <3>2. \A q \in (p0 + 1) .. (p0 + n) : q - p0 \in DOMAIN r /\ w[q] = r[q - p0]
      <4> SUFFICES ASSUME NEW q \in (p0 + 1) .. (p0 + n) PROVE q - p0 \in DOMAIN r /\ w[q] = r[q - p0]
        OBVIOUS
      <4>1. q - p0 \in 1 .. Len(r) /\ Len(a) + (q - p0) = q
        BY <1>4
      <4>2. w[Len(a) + (q - p0)] = r[q - p0]
        BY <1>2, <4>1
      <4> QED  BY <1>4, <4>1, <4>2
    <3>3. \A x \in DOMAIN r : p0 + x \in (p0 + 1) .. (p0 + n) /\ w[p0 + x] = r[x]
      BY <1>2, <1>4
    <3>4. w[p0] = ms[b]
      <4>1. p0 \in 1 .. Len(a)
        BY <1>1, <1>4, <2>2
      <4> QED  BY <1>2, <2>2, <4>1
    <3> HIDE DEF n, p0
    <3>5. \A q \in (p0 + 1) .. (p0 + n) : w[q].role = "tool"
      BY <2>5, <3>2
    <3>6. \A q, s \in (p0 + 1) .. (p0 + n) : w[q].id = w[s].id => q = s
      <4> SUFFICES ASSUME NEW q \in (p0 + 1) .. (p0 + n), NEW s \in (p0 + 1) .. (p0 + n), w[q].id = w[s].id
                   PROVE  q = s
        OBVIOUS
      <4>1. q - p0 = s - p0
        BY <2>2, <3>2
      <4> QED  BY <3>1, <4>1
    <3>7. {w[q].id : q \in (p0 + 1) .. (p0 + n)} = {r[x].id : x \in DOMAIN r}
      BY <3>2, <3>3
    <3> QED  BY Zenon, <2>6, <3>1, <3>4, <3>5, <3>6, <3>7 DEF Run
  <2>8. ASSUME NEW p \in DOMAIN w, HasCalls(w[p])
        PROVE  Run(w, p, ToolIds(ms, k)) /\ \E i \in 1 .. k : w[p] = ms[i]
    <3>1. CASE p \in 1 .. (Len(a) - 1)
      <4>1. p \in 1 .. Len(a) /\ a[p] = w[p]
        BY <1>2, <1>4, <3>1
      <4>2. Run(a, p, ToolIds(ms, k)) /\ \E i \in 1 .. (b - 1) : a[p] = ms[i]
        BY Zenon, <2>2, <2>8, <3>1, <4>1
      <4>3. w = a \o (r \o c) /\ r \o c \in Seq(Plain)
        BY <1>1 DEF w
      <4>4. Run(w, p, ToolIds(ms, k))
        BY Zenon, <1>1, <4>1, <4>2, <4>3, RunPrefix
      <4>5. \A i \in 1 .. (b - 1) : i \in 1 .. k
        OBVIOUS
      <4> QED  BY <4>1, <4>2, <4>4, <4>5
    <3>2. CASE p = Len(a)
      <4>1. p \in 1 .. Len(a)
        BY <1>4, <3>2
      <4> QED  BY <1>2, <2>2, <2>7, <3>2, <4>1
    <3>3. CASE p > Len(a) /\ p <= Len(a) + Len(r)
      <4>1. p - Len(a) \in DOMAIN r /\ w[p] = r[p - Len(a)]
        <5>1. p - Len(a) \in 1 .. Len(r) /\ Len(a) + (p - Len(a)) = p
          BY <1>4, <3>3
        <5>2. w[Len(a) + (p - Len(a))] = r[p - Len(a)]
          BY <1>2, <5>1
        <5> QED  BY <1>4, <5>1, <5>2
      <4> QED  BY <2>5, <2>8, <4>1 DEF HasCalls
    <3>4. CASE p > Len(a) + Len(r)
      <4> DEFINE x == p - (Len(a) + Len(r))
      <4>1. x \in 1 .. Len(c) /\ Len(a) + Len(r) + x = p
        BY <1>2, <1>4, <3>4
      <4>2. w[Len(a) + Len(r) + x] = c[x]
        BY <1>2, <4>1
      <4> HIDE DEF x
      <4>3. w[p] = c[x] /\ x \in DOMAIN c
        BY <1>4, <4>1, <4>2
      <4> QED  BY <2>2, <2>8, <4>3
    <3> QED  BY <1>4, <3>1, <3>2, <3>3, <3>4
  <2>9. Grouped(ms, k, w)
    BY <1>2, <1>3, <2>8 DEF Grouped
  <2> QED  BY <1>1, <2>9
<1> QED  BY <1>5, <1>6

\* What the turns of the loop of repackToolResultBlocks leave.
LEMMA LoopUpdates ==
  ASSUME NEW st \in Loops, NEW q \in Seq(Plain)
  PROVE  /\ [st EXCEPT !.group.results = q] \in Loops
         /\ [st EXCEPT !.group.results = q].out = st.out
         /\ [st EXCEPT !.group.results = q].group.open = st.group.open
         /\ [st EXCEPT !.group.results = q].group.want = st.group.want
         /\ [st EXCEPT !.group.results = q].group.results = q
         /\ [st EXCEPT !.group.results = q].group.between = st.group.between
         /\ [st EXCEPT !.group.between = q] \in Loops
         /\ [st EXCEPT !.group.between = q].out = st.out
         /\ [st EXCEPT !.group.between = q].group.open = st.group.open
         /\ [st EXCEPT !.group.between = q].group.want = st.group.want
         /\ [st EXCEPT !.group.between = q].group.results = st.group.results
         /\ [st EXCEPT !.group.between = q].group.between = q
<1> DEFINE S == Seq(Plain)
           G == [open : BOOLEAN, want : SUBSET STRING, results : S, between : S]
           L == [out : S, group : G]
<1>1. Loops = L /\ st \in L /\ q \in S
  BY DEF Loops, Groups
<1> HIDE DEF S
<1>2. st.group \in G /\ st.out \in S
  BY <1>1
<1>3. [st.group EXCEPT !.results = q] \in G /\ [st.group EXCEPT !.between = q] \in G
  BY Zenon, <1>1, <1>2
<1>4. /\ [st EXCEPT !.group.results = q] = [st EXCEPT !.group = [st.group EXCEPT !.results = q]]
      /\ [st EXCEPT !.group.between = q] = [st EXCEPT !.group = [st.group EXCEPT !.between = q]]
  BY <1>1, <1>2
<1>5. ASSUME NEW g \in G
      PROVE  [st EXCEPT !.group = g] \in L /\ [st EXCEPT !.group = g].out = st.out /\ [st EXCEPT !.group = g].group = g
  BY Zenon, <1>1
<1>6. /\ [st.group EXCEPT !.results = q].open = st.group.open
      /\ [st.group EXCEPT !.results = q].want = st.group.want
      /\ [st.group EXCEPT !.results = q].results = q
      /\ [st.group EXCEPT !.results = q].between = st.group.between
      /\ [st.group EXCEPT !.between = q].open = st.group.open
      /\ [st.group EXCEPT !.between = q].want = st.group.want
      /\ [st.group EXCEPT !.between = q].results = st.group.results
      /\ [st.group EXCEPT !.between = q].between = q
  BY <1>2
<1> HIDE DEF L, G
<1> QED  BY Zenon, <1>1, <1>3, <1>4, <1>5, <1>6

\* Ids of the results, with one more message.
LEMMA ToolIdsNext ==
  ASSUME NEW ms, NEW k \in Nat \ {0}
  PROVE  ToolIds(ms, k) = ToolIds(ms, k - 1) \union (IF ms[k].role = "tool" THEN {ms[k].id} ELSE {})
<1>1. 1 .. k = (1 .. (k - 1)) \union {k}
  OBVIOUS
<1> QED  BY <1>1 DEF ToolIds

\* The messages seen, with one more.
LEMMA SeenNext ==
  ASSUME NEW ms, NEW k \in Nat \ {0}
  PROVE  {ms[j] : j \in 1 .. k} = {ms[j] : j \in 1 .. (k - 1)} \union {ms[k]}
<1>1. 1 .. k = (1 .. (k - 1)) \union {k}
  OBVIOUS
<1> QED  BY <1>1

\* The last element of a longer list.
LEMMA AppendParts ==
  ASSUME NEW T, NEW s \in Seq(T), NEW e \in T
  PROVE  /\ Append(s, e) \in Seq(T) /\ Append(s, e) # <<>> /\ Len(Append(s, e)) = Len(s) + 1
         /\ Append(s, e)[Len(Append(s, e))] = e /\ Append(s, e) = s \o <<e>>
         /\ DOMAIN Append(s, e) = 1 .. (Len(s) + 1) /\ Len(s) \in Nat /\ DOMAIN s = 1 .. Len(s)
         /\ \A p \in 1 .. Len(s) : Append(s, e)[p] = s[p]
         /\ Append(s, e)[Len(s) + 1] = e
         /\ ToSet(Append(s, e)) = ToSet(s) \union {e}
<1>1. ToSet(Append(s, e)) = ToSet(s) \union {e}
  BY SetOfAppend
<1>2. Len(Append(s, e)) = Len(s) + 1 /\ Len(s) \in Nat
  OBVIOUS
<1>3. Append(s, e) # <<>>
  BY <1>2
<1>4. Append(s, e) = s \o <<e>>
  OBVIOUS
<1> QED  BY <1>1, <1>2, <1>3, <1>4

\* A batch that ends the first k messages opens a group.
LEMMA GroupOpens ==
  ASSUME NEW ms \in Seq(Plain), Tidy(ms), NEW k \in 1 .. Len(ms), HasCalls(ms[k]),
         NEW laid, Grouped(ms, k - 1, laid),
         NEW st, st.out = laid
  PROVE  Sorted(ms, k, outsideGroup(st, ms[k]))
<1> DEFINE m == ms[k]
           w == Append(laid, m)
           ns == outsideGroup(st, m)
<1>1. m \in Plain /\ laid \in Seq(Plain) /\ k \in Nat \ {0} /\ k \in 1 .. k
  BY DEF Grouped
<1>0. k \in DOMAIN ms
  OBVIOUS
<1>2. \A c \in ToSet(m.calls) : c.id # ""
  BY Zenon, <1>0 DEF Tidy
<1>3. CallIds(m) \ {""} = CallIds(m)
  BY Zenon, <1>2 DEF CallIds
<1>4. ns = [out |-> w, group |-> NewGroup(CallIds(m))]
  BY Zenon, <1>3 DEF outsideGroup
<1>5. CallIds(m) \in SUBSET STRING
  <2>1. m.calls \in Seq(ToolCalls)
    BY <1>1 DEF Plain, Messages
  <2>2. \A i \in DOMAIN m.calls : m.calls[i] \in ToolCalls
    BY <2>1
  <2>3. \A c \in ToSet(m.calls) : c.id \in STRING
    BY <2>2 DEF ToSet, ToolCalls
  <2> QED  BY <2>3 DEF CallIds
<1> DEFINE g == NewGroup(CallIds(m))
<1>6. /\ g.open /\ g.want = CallIds(m) /\ g.results = <<>> /\ g.between = <<>>
      /\ g \in Groups(Plain)
  BY <1>5 DEF NewGroup, Groups
<1>7. m.role # "tool"
  BY DEF HasCalls
<1>8. ToolIds(ms, k) = ToolIds(ms, k - 1)
  <2>1. ToolIds(ms, k) = ToolIds(ms, k - 1) \union {}
    BY Zenon, <1>1, <1>7, ToolIdsNext
  <2> QED  BY <2>1
<1>9. /\ w \in Seq(Plain) /\ w # <<>> /\ Len(w) = Len(laid) + 1 /\ w[Len(w)] = m /\ w = laid \o <<m>>
      /\ Len(laid) \in Nat /\ DOMAIN laid = 1 .. Len(laid) /\ \A p \in 1 .. Len(laid) : w[p] = laid[p]
      /\ ToSet(w) = ToSet(laid) \union {m}
  <2> HIDE DEF m
  <2> QED  BY <1>1, AppendParts
<1>10. <<m>> \in Seq(Plain)
  BY <1>1
<1> HIDE DEF g, w, m, ns
<1>11. ns.out = w /\ ns.group = g
  BY <1>4 DEF g
<1>12. ns \in Loops
  BY <1>4, <1>6, <1>9 DEF Loops, g
<1>13. ASSUME NEW p \in 1 .. (Len(w) - 1), HasCalls(w[p])
       PROVE  Run(w, p, ToolIds(ms, k)) /\ \E i \in 1 .. (k - 1) : w[p] = ms[i]
  <2>1. p \in 1 .. Len(laid) /\ w[p] = laid[p]
    BY <1>9
  <2>2. Run(laid, p, ToolIds(ms, k - 1)) /\ \E i \in 1 .. (k - 1) : laid[p] = ms[i]
    BY <1>9, <1>13, <2>1 DEF Grouped
  <2>3. Run(laid \o <<m>>, p, ToolIds(ms, k - 1))
    BY Zenon, <1>1, <1>10, <2>1, <2>2, RunPrefix
  <2> QED  BY <1>8, <1>9, <2>1, <2>2, <2>3
<1>14. {ms[j] : j \in {x \in (k + 1) .. k : ms[x].role = "tool"}} = {}
  OBVIOUS
<1>15. ToSet(<<>>) = {}
  BY DEF ToSet
<1>16. InGroup(ms, k, ns, k)
  <2>1. ToSet(ns.group.results) = {ms[j] : j \in {x \in (k + 1) .. k : ms[x].role = "tool"}}
    BY <1>6, <1>11, <1>14, <1>15
  <2>2. /\ \A x, y \in DOMAIN ns.group.results : ns.group.results[x].id = ns.group.results[y].id => x = y
        /\ \A x \in DOMAIN ns.group.between :
             ns.group.between[x].role # "tool" /\ ~HasCalls(ns.group.between[x])
    BY <1>6, <1>11
  <2>3. \A p \in 1 .. (Len(ns.out) - 1) : HasCalls(ns.out[p]) =>
          Run(ns.out, p, ToolIds(ms, k)) /\ \E i \in 1 .. (k - 1) : ns.out[p] = ms[i]
    BY <1>11, <1>13
  <2>4. ns.group.want = CallIds(ms[k]) /\ ns.out # <<>> /\ ns.out[Len(ns.out)] = ms[k]
    BY <1>6, <1>9, <1>11 DEF m
  <2>5. \A i \in (k + 1) .. k : ~HasCalls(ms[i])
    OBVIOUS
  <2> QED  BY <1>1, <2>1, <2>2, <2>3, <2>4, <2>5 DEF InGroup
<1>17. ToSet(ns.out) \union ToSet(ns.group.results) \union ToSet(ns.group.between) = {ms[j] : j \in 1 .. k}
  <2>1. ToSet(laid) = {ms[j] : j \in 1 .. (k - 1)}
    BY DEF Grouped
  <2>2. {ms[j] : j \in 1 .. k} = {ms[j] : j \in 1 .. (k - 1)} \union {ms[k]}
    BY <1>1, SeenNext
  <2> QED  BY Zenon, <1>6, <1>9, <1>11, <1>15, <2>1, <2>2 DEF m
<1>18. Sorted(ms, k, ns)
  BY <1>1, <1>6, <1>11, <1>12, <1>16, <1>17 DEF Sorted
<1> QED  BY <1>18 DEF ns, m

\* No result comes before the first batch.
LEMMA NoEarlyResult ==
  ASSUME NEW ms \in Seq(Plain), Tidy(ms), NEW k \in 1 .. Len(ms), \A i \in 1 .. (k - 1) : ~HasCalls(ms[i])
  PROVE  ms[k].role # "tool"
<1> SUFFICES ASSUME ms[k].role = "tool" PROVE FALSE
  OBVIOUS
<1>1. k \in DOMAIN ms
  OBVIOUS
<1>2. PICK i \in DOMAIN ms : HasCalls(ms[i]) /\ i < k
  BY Zenon, <1>1 DEF Tidy
<1>3. i \in 1 .. (k - 1)
  BY <1>2
<1> QED  BY <1>2, <1>3

\* A message before the first batch stays where it is.
LEMMA BeforeStep ==
  ASSUME NEW ms \in Seq(Plain), Tidy(ms), NEW k \in 1 .. Len(ms), NEW st, Sorted(ms, k - 1, st), ~st.group.open
  PROVE  Sorted(ms, k, outsideGroup(st, ms[k]))
<1> DEFINE m == ms[k]
<1>1. /\ st \in Loops /\ st.group.results = <<>> /\ st.group.between = <<>>
      /\ \A i \in 1 .. (k - 1) : ~HasCalls(ms[i])
      /\ \A p \in DOMAIN st.out : ~HasCalls(st.out[p])
      /\ ToSet(st.out) \union ToSet(st.group.results) \union ToSet(st.group.between) = {ms[j] : j \in 1 .. (k - 1)}
  BY DEF Sorted, BeforeGroups
<1>2. ToSet(<<>>) = {}
  BY DEF ToSet
<1>3. st.out \in Seq(Plain) /\ ToSet(st.out) = {ms[j] : j \in 1 .. (k - 1)}
  BY <1>1, <1>2 DEF Loops
<1>4. CASE HasCalls(m)
  <2>1. Grouped(ms, k - 1, st.out)
    BY <1>1, <1>3 DEF Grouped
  <2> QED  BY <1>4, <2>1, GroupOpens
<1>5. CASE ~HasCalls(m)
  <2> DEFINE w == Append(st.out, m)
             ns == outsideGroup(st, m)
  <2>1. ns = [out |-> w, group |-> NoGroup]
    BY <1>5 DEF outsideGroup
  <2>2. m \in Plain /\ k \in Nat \ {0}
    OBVIOUS
  <2> DEFINE o == st.out
  <2>0. o \in Seq(Plain) /\ w = Append(o, m) /\ \A p \in DOMAIN o : ~HasCalls(o[p])
    BY <1>1, <1>3
  <2> HIDE DEF o, w, ns, m
  <2>3. /\ w \in Seq(Plain) /\ DOMAIN w = 1 .. (Len(o) + 1) /\ Len(o) \in Nat /\ DOMAIN o = 1 .. Len(o)
        /\ \A p \in 1 .. Len(o) : w[p] = o[p]
        /\ w[Len(o) + 1] = m /\ ToSet(w) = ToSet(o) \union {m}
    <3> DEFINE a == Append(o, m)
    <3>1. /\ a \in Seq(Plain) /\ DOMAIN a = 1 .. (Len(o) + 1) /\ Len(o) \in Nat /\ DOMAIN o = 1 .. Len(o)
          /\ \A p \in 1 .. Len(o) : a[p] = o[p]
          /\ a[Len(o) + 1] = m
      BY <2>0, <2>2
    <3>2. ToSet(a) = ToSet(o) \union {m}
      BY <2>0, <2>2, SetOfAppend
    <3> QED  BY <2>0, <3>1, <3>2
  <2>4. \A p \in DOMAIN w : ~HasCalls(w[p])
    <3>1. \A p \in DOMAIN w : p \in DOMAIN o \/ p = Len(o) + 1
      BY <2>3
    <3> QED  BY <1>5, <2>0, <2>3, <3>1
  <2>5. \A i \in 1 .. k : ~HasCalls(ms[i])
    BY <1>1, <1>5 DEF m
  <2>6. ns \in Loops
    BY <2>1, <2>3, NoGroupType DEF Loops
  <2>7. ns.out = w /\ ns.group.results = <<>> /\ ns.group.between = <<>> /\ ~ns.group.open
    BY <2>1 DEF NoGroup
  <2>8. {ms[j] : j \in 1 .. k} = {ms[j] : j \in 1 .. (k - 1)} \union {m}
    BY <2>2, SeenNext DEF m
  <2>9. ToSet(ns.out) \union ToSet(ns.group.results) \union ToSet(ns.group.between) = {ms[j] : j \in 1 .. k}
    BY Zenon, <1>2, <1>3, <2>3, <2>7, <2>8 DEF o
  <2>10. BeforeGroups(ms, k, ns)
    BY <2>4, <2>5, <2>7 DEF BeforeGroups
  <2>11. Sorted(ms, k, ns)
    BY <2>6, <2>7, <2>9, <2>10 DEF Sorted
  <2> QED  BY <2>11 DEF ns, m
<1> QED  BY <1>4, <1>5

\* Inside a group: a result is collected, another message waits for the end
\* of the group, a batch ends it.
LEMMA InsideStep ==
  ASSUME NEW ms \in Seq(Plain), Tidy(ms), NEW k \in 1 .. Len(ms), NEW st, Sorted(ms, k - 1, st), st.group.open
  PROVE  Sorted(ms, k, repackStep(st, ms[k]))
<1> DEFINE m == ms[k]
           ns == repackStep(st, m)
           o == st.out
           r == st.group.results
           c == st.group.between
           Seen(n) == {ms[j] : j \in 1 .. n}
<1>1. /\ st \in Loops
      /\ ToSet(o) \union ToSet(r) \union ToSet(c) = Seen(k - 1)
  BY DEF Sorted
<1>2. PICK b \in 1 .. (k - 1) : InGroup(ms, k - 1, st, b)
  BY DEF Sorted
<1>3. /\ HasCalls(ms[b])
      /\ \A i \in (b + 1) .. (k - 1) : ~HasCalls(ms[i])
      /\ st.group.want = CallIds(ms[b])
      /\ o # <<>> /\ o[Len(o)] = ms[b]
      /\ ToSet(r) = {ms[j] : j \in {x \in (b + 1) .. (k - 1) : ms[x].role = "tool"}}
      /\ \A x, y \in DOMAIN r : r[x].id = r[y].id => x = y
      /\ \A x \in DOMAIN c :
           c[x].role # "tool" /\ ~HasCalls(c[x])
      /\ \A p \in 1 .. (Len(o) - 1) : HasCalls(o[p]) =>
           /\ Run(o, p, ToolIds(ms, k - 1))
           /\ \E i \in 1 .. (b - 1) : o[p] = ms[i]
  BY <1>2 DEF InGroup
<1>4. m \in Plain /\ k \in Nat \ {0} /\ k \in DOMAIN ms /\ b \in DOMAIN ms /\ b < k /\ b \in 1 .. k
  OBVIOUS
<1>5. r \in Seq(Plain) /\ c \in Seq(Plain) /\ o \in Seq(Plain)
  BY <1>1 DEF Loops, Groups
<1>6. Seen(k) = Seen(k - 1) \union {m}
  BY <1>4, SeenNext
<1>7. ToolIds(ms, k) = ToolIds(ms, k - 1) \union (IF m.role = "tool" THEN {m.id} ELSE {})
  BY <1>4, ToolIdsNext
<1>8. \A i \in (b + 1) .. k : i \in (b + 1) .. (k - 1) \/ i = k
  BY <1>4
<1> HIDE DEF Seen, o, r, c
<1>9. CASE m.role = "tool"
  <2>1. \A i \in (b + 1) .. k : ~HasCalls(ms[i])
    BY <1>3, <1>8, <1>9 DEF HasCalls
  <2>2. m.id \in CallIds(ms[b])
    BY <1>3, <1>4, <1>9, <2>1, BatchOf
  <2> DEFINE q == Append(r, m)
  <2>3. ns = [st EXCEPT !.group.results = q]
    BY <1>3, <1>9, <2>2 DEF repackStep, r
  <2> HIDE DEF m
  <2>4. /\ q \in Seq(Plain) /\ Len(r) \in Nat /\ DOMAIN r = 1 .. Len(r)
        /\ \A p \in DOMAIN q : p \in DOMAIN r \/ p = Len(r) + 1
        /\ \A p \in DOMAIN r : q[p] = r[p]
        /\ q[Len(r) + 1] = m /\ ToSet(q) = ToSet(r) \union {m}
    <3>2. /\ q \in Seq(Plain) /\ Len(r) \in Nat /\ DOMAIN r = 1 .. Len(r) /\ DOMAIN q = 1 .. (Len(r) + 1)
          /\ \A p \in 1 .. Len(r) : q[p] = r[p]
          /\ q[Len(r) + 1] = m
      BY <1>4, <1>5
    <3>3. ToSet(q) = ToSet(r) \union {m}
      BY <1>4, <1>5, SetOfAppend
    <3> HIDE DEF q
    <3> QED  BY <3>2, <3>3
  <2> HIDE DEF q, ns
  <2>5. /\ ns \in Loops /\ ns.out = o /\ ns.group.open = st.group.open /\ ns.group.want = st.group.want
        /\ ns.group.results = q /\ ns.group.between = c
    <3>1. q \in Seq(Plain)
      BY <2>4
    <3> DEFINE t == [st EXCEPT !.group.results = q]
    <3>2. /\ t \in Loops /\ t.out = st.out /\ t.group.open = st.group.open /\ t.group.want = st.group.want
          /\ t.group.results = q /\ t.group.between = st.group.between
      BY ZenonT(60), <1>1, <3>1, LoopUpdates
    <3> HIDE DEF t
    <3> QED  BY Zenon, <2>3, <3>2 DEF o, c, t
  <2>6. ToSet(q) = {ms[j] : j \in {x \in (b + 1) .. k : ms[x].role = "tool"}}
    <3>1. {x \in (b + 1) .. k : ms[x].role = "tool"} = {x \in (b + 1) .. (k - 1) : ms[x].role = "tool"} \union {k}
      <4>1. k \in (b + 1) .. k
        BY <1>4
      <4> QED  BY <1>4, <1>8, <1>9, <4>1 DEF m
    <3> QED  BY <1>3, <2>4, <3>1 DEF m
  <2>7. \A x \in DOMAIN r : r[x].id # m.id
    <3> SUFFICES ASSUME NEW x \in DOMAIN r, r[x].id = m.id PROVE FALSE
      OBVIOUS
    <3>1. r[x] \in ToSet(r)
      BY DEF ToSet
    <3>2. PICK j \in (b + 1) .. (k - 1) : ms[j].role = "tool" /\ r[x] = ms[j]
      BY <1>3, <3>1
    <3>3. j \in DOMAIN ms /\ j # k
      BY <1>4, <3>2
    <3> QED  BY Zenon, <1>4, <1>9, <3>2, <3>3 DEF Tidy, m
  <2>8. \A x, y \in DOMAIN q : q[x].id = q[y].id => x = y
    BY <1>3, <2>4, <2>7
  <2>9. ASSUME NEW p \in 1 .. (Len(o) - 1), HasCalls(o[p])
        PROVE  Run(o, p, ToolIds(ms, k))
    <3>1. Run(o, p, ToolIds(ms, k - 1))
      BY <1>3, <2>9
    <3>2. PICK i \in 1 .. (b - 1) : o[p] = ms[i]
      BY <1>3, <2>9
    <3>3. i \in DOMAIN ms /\ i # b
      BY <1>4, <3>2
    <3>4. m.id \notin CallIds(o[p])
      BY <1>3, <1>4, <2>2, <2>9, <3>2, <3>3, NotOfOther
    <3>5. CallIds(o[p]) \intersect ToolIds(ms, k) = CallIds(o[p]) \intersect ToolIds(ms, k - 1)
      BY <1>7, <3>4
    <3> QED  BY Zenon, <3>1, <3>5 DEF Run
  <2>10. InGroup(ms, k, ns, b)
    BY <1>3, <1>4, <2>1, <2>5, <2>6, <2>8, <2>9 DEF InGroup
  <2>11. ToSet(ns.out) \union ToSet(ns.group.results) \union ToSet(ns.group.between) = Seen(k)
    BY <1>1, <1>6, <2>4, <2>5
  <2>12. Sorted(ms, k, ns)
    BY <1>4, <2>5, <2>10, <2>11 DEF Sorted, Seen
  <2> QED  BY <2>12 DEF ns, m
<1>10. CASE HasCalls(m)
  <2>1. m.role # "tool"
    BY <1>10 DEF HasCalls
  <2>2. ns = outsideGroup(closeGroup(st), m)
    BY <1>10, <2>1 DEF repackStep
  <2>3. k - 1 \in 0 .. Len(ms)
    OBVIOUS
  <2>4. Grouped(ms, k - 1, closeGroup(st).out)
    BY <2>3, CloseGroups
  <2> QED  BY <1>10, <2>2, <2>4, GroupOpens
<1>11. CASE m.role # "tool" /\ ~HasCalls(m)
  <2>1. r # <<>>
    <3>1. /\ b + 1 \in DOMAIN ms /\ ms[b + 1].role = "tool"
      <4>1. b < Len(ms) /\ ms[b + 1].role = "tool"
        BY Zenon, <1>3, <1>4 DEF Tidy
      <4> QED  BY <1>4, <4>1
    <3>2. b + 1 # k
      BY <1>11, <3>1
    <3>3. b + 1 \in (b + 1) .. (k - 1)
      BY <1>4, <3>2
    <3>4. ms[b + 1] \in ToSet(r)
      BY <1>3, <3>1, <3>3
    <3> QED  BY <3>4 DEF ToSet
  <2> DEFINE q == Append(c, m)
  <2>2. ns = [st EXCEPT !.group.between = q]
    BY <1>11, <2>1 DEF repackStep, c, r
  <2> HIDE DEF m
  <2>3. /\ q \in Seq(Plain) /\ Len(c) \in Nat /\ DOMAIN c = 1 .. Len(c)
        /\ \A p \in DOMAIN q : p \in DOMAIN c \/ p = Len(c) + 1
        /\ \A p \in DOMAIN c : q[p] = c[p]
        /\ q[Len(c) + 1] = m /\ ToSet(q) = ToSet(c) \union {m}
    <3>2. /\ q \in Seq(Plain) /\ Len(c) \in Nat /\ DOMAIN c = 1 .. Len(c) /\ DOMAIN q = 1 .. (Len(c) + 1)
          /\ \A p \in 1 .. Len(c) : q[p] = c[p]
          /\ q[Len(c) + 1] = m
      BY <1>4, <1>5
    <3>3. ToSet(q) = ToSet(c) \union {m}
      BY <1>4, <1>5, SetOfAppend
    <3> HIDE DEF q
    <3> QED  BY <3>2, <3>3
  <2> HIDE DEF q, ns
  <2>4. /\ ns \in Loops /\ ns.out = o /\ ns.group.open = st.group.open /\ ns.group.want = st.group.want
        /\ ns.group.results = r /\ ns.group.between = q
    <3>1. q \in Seq(Plain)
      BY <2>3
    <3> DEFINE t == [st EXCEPT !.group.between = q]
    <3>2. /\ t \in Loops /\ t.out = st.out /\ t.group.open = st.group.open /\ t.group.want = st.group.want
          /\ t.group.results = st.group.results /\ t.group.between = q
      BY ZenonT(60), <1>1, <3>1, LoopUpdates
    <3> HIDE DEF t
    <3> QED  BY Zenon, <2>2, <3>2 DEF o, r, t
  <2>5. \A i \in (b + 1) .. k : ~HasCalls(ms[i])
    BY <1>3, <1>8, <1>11 DEF m
  <2>6. {x \in (b + 1) .. k : ms[x].role = "tool"} = {x \in (b + 1) .. (k - 1) : ms[x].role = "tool"}
    <3>1. \A x \in (b + 1) .. (k - 1) : x \in (b + 1) .. k
      BY <1>4
    <3> QED  BY <1>8, <1>11, <3>1 DEF m
  <2>7. ToolIds(ms, k) = ToolIds(ms, k - 1)
    <3>1. ToolIds(ms, k) = ToolIds(ms, k - 1) \union {}
      BY <1>7, <1>11
    <3> QED  BY <3>1
  <2>8. \A x \in DOMAIN q : q[x].role # "tool" /\ ~HasCalls(q[x])
    BY Zenon, <1>3, <1>11, <2>3
  <2>9. InGroup(ms, k, ns, b)
    BY <1>3, <1>4, <2>4, <2>5, <2>6, <2>7, <2>8 DEF InGroup
  <2>10. ToSet(ns.out) \union ToSet(ns.group.results) \union ToSet(ns.group.between) = Seen(k)
    BY <1>1, <1>6, <2>3, <2>4
  <2>11. Sorted(ms, k, ns)
    BY <1>4, <2>4, <2>9, <2>10 DEF Sorted, Seen
  <2> QED  BY <2>11 DEF ns, m
<1> QED  BY <1>9, <1>10, <1>11

\* repackToolResultBlocks puts the results of a tidy history behind their
\* batches, and loses no message.
LEMMA Repacked ==
  ASSUME NEW ms \in Seq(Plain), Tidy(ms)
  PROVE  Grouped(ms, Len(ms), repackToolResultBlocks(ms))
<1> DEFINE start == [out |-> <<>>, group |-> NoGroup]
           n == Len(ms)
           A == [i \in 0 .. n |-> {st \in Loops : Sorted(ms, i, st)}]
           st == Repack!Folded(start, ms)
<1>1. n \in Nat /\ DOMAIN ms = 1 .. n
  OBVIOUS
<1>2. start \in Loops
  BY NoGroupType DEF Loops
<1>3. Sorted(ms, 0, start)
  <2>1. ToSet(<<>>) = {} /\ {ms[j] : j \in 1 .. 0} = {}
    BY DEF ToSet
  <2>2. start.group.open = FALSE /\ start.group.results = <<>> /\ start.group.between = <<>> /\ start.out = <<>>
    BY DEF NoGroup
  <2> HIDE DEF start
  <2>3. BeforeGroups(ms, 0, start)
    BY <2>2 DEF BeforeGroups
  <2> QED  BY <1>2, <2>1, <2>2, <2>3 DEF Sorted
<1>4. ASSUME NEW k \in 1 .. n, NEW s, Sorted(ms, k - 1, s)
      PROVE  Sorted(ms, k, repackStep(s, ms[k]))
  <2>1. CASE s.group.open
    BY <1>4, <2>1, InsideStep
  <2>2. CASE ~s.group.open
    <3>1. repackStep(s, ms[k]) = outsideGroup(s, ms[k])
      BY <2>2 DEF repackStep
    <3> QED  BY <1>4, <2>2, <3>1, BeforeStep
  <2> QED  BY <2>1, <2>2
<1>5. \A i \in 0 .. n : \A s : s \in A[i] <=> Sorted(ms, i, s)
  BY DEF Sorted
<1> HIDE DEF A, start
<1>6. start \in A[0]
  BY <1>1, <1>3, <1>5
<1>7. \A i \in 1 .. n : \A s \in A[i - 1] : repackStep(s, ms[i]) \in A[i]
  <2>1. \A i \in 1 .. n : i - 1 \in 0 .. n /\ i \in 0 .. n
    BY <1>1
  <2> QED  BY <1>4, <1>5, <2>1
<1>8. st \in A[n]
  <2> HIDE DEF n
  <2> QED  BY <1>1, <1>6, <1>7, Repack!FoldHistory
<1>9. Sorted(ms, n, st) /\ n \in 0 .. Len(ms)
  BY <1>1, <1>5, <1>8
<1>10. Grouped(ms, n, closeGroup(st).out)
  <2> HIDE DEF st, n
  <2> QED  BY <1>9, CloseGroups
<1> QED  BY <1>10, PassesAreFolds DEF start

\* A list without repetition is as long as the set of its elements is large.
LEMMA ListCounts ==
  ASSUME NEW D, NEW k \in Nat, NEW h, \A i \in 1 .. k : h[i] \in D,
         \A d \in D : \E i \in 1 .. k : h[i] = d, \A i, j \in 1 .. k : h[i] = h[j] => i = j
  PROVE  Cardinality(D) = k
<1> DEFINE e == [i \in 1 .. k |-> h[i]]
<1>1. e \in [1 .. k -> D]
  OBVIOUS
<1>2. \A i, j \in DOMAIN e : e[i] = e[j] => i = j
  OBVIOUS
<1>3. \A d \in D : \E i \in 1 .. k : e[i] = d
  OBVIOUS
<1> HIDE DEF e
<1>4. e \in Bijection(1 .. k, D)
  BY <1>1, <1>2, <1>3 DEF Bijection, Injection, Surjection, IsInjective
<1>5. ExistsBijection(1 .. k, D)
  BY <1>4 DEF ExistsBijection
<1> QED  BY <1>5, FS_CountingElements

\* A filter that lets everything pass.
LEMMA OnlyAll ==
  ASSUME NEW T, NEW s \in Seq(T), NEW S, ToSet(s) \subseteq S
  PROVE  Only(s, S) = s
<1> DEFINE Q == {u \in Seq(T) : ToSet(u) \subseteq S => Only(u, S) = u}
<1>1. <<>> \in Q
  BY OnlyEmpty
<1>2. ASSUME NEW u \in Seq(T), ToSet(u) \subseteq S => Only(u, S) = u, NEW e \in T, ToSet(Append(u, e)) \subseteq S
      PROVE  Only(Append(u, e), S) = Append(u, e)
  <2>1. ToSet(Append(u, e)) = ToSet(u) \union {e}
    BY SetOfAppend
  <2>2. Only(Append(u, e), S) = IF e \in S THEN Append(Only(u, S), e) ELSE Only(u, S)
    BY OnlyAppend
  <2> QED  BY <1>2, <2>1, <2>2
<1>3. \A u \in Q : \A e \in T : Append(u, e) \in Q
  <2>1. \A u \in Seq(T) : \A e \in T : Append(u, e) \in Seq(T)
    OBVIOUS
  <2> QED  BY <1>2, <2>1
<1>4. Q \in SUBSET Seq(T)
  OBVIOUS
<1> HIDE DEF Q
<1>5. Q = Seq(T)
  BY Zenon, <1>1, <1>3, <1>4, Filt!SeqInduction
<1> QED  BY <1>5 DEF Q

\* No two calls have one id.
Distinct(calls) == \A x, y \in DOMAIN calls : calls[x].id = calls[y].id => x = y

\* A longer list without repetition.
LEMMA DistinctAppend ==
  ASSUME NEW u \in Seq(ToolCalls), NEW e \in ToolCalls
  PROVE  Distinct(Append(u, e)) <=> Distinct(u) /\ \A c \in ToSet(u) : c.id # e.id
<1> DEFINE a == Append(u, e)
           n == Len(u)
<1>1. /\ n \in Nat /\ DOMAIN u = 1 .. n /\ DOMAIN a = 1 .. (n + 1) /\ a[n + 1] = e
      /\ \A i \in 1 .. n : a[i] = u[i]
  OBVIOUS
<1> HIDE DEF a, n
<1>2. n + 1 \in DOMAIN a /\ n + 1 \notin DOMAIN u /\ \A i \in DOMAIN u : i \in DOMAIN a /\ a[i] = u[i]
  BY <1>1
<1>3. \A i \in DOMAIN a : i \in DOMAIN u \/ i = n + 1
  BY <1>1
<1>4. ASSUME Distinct(a) PROVE Distinct(u) /\ \A c \in ToSet(u) : c.id # e.id
  BY <1>1, <1>2, <1>4 DEF Distinct, ToSet
<1>5. ASSUME Distinct(u), \A c \in ToSet(u) : c.id # e.id PROVE Distinct(a)
  <2>1. \A i \in DOMAIN u : u[i].id # e.id
    BY <1>5 DEF ToSet
  <2> QED  BY <1>1, <1>2, <1>3, <1>5, <2>1 DEF Distinct
<1> QED  BY <1>4, <1>5 DEF a

\* Filtering repeats nothing.
LEMMA OnlyDistinct ==
  ASSUME NEW s \in Seq(ToolCalls), NEW S, Distinct(s)
  PROVE  Distinct(Only(s, S))
<1> DEFINE T == ToolCalls
           Q == {u \in Seq(T) : Distinct(u) => Distinct(Only(u, S))}
<1>1. <<>> \in Q
  BY OnlyEmpty DEF Distinct
<1>2. ASSUME NEW u \in Seq(T), Distinct(u) => Distinct(Only(u, S)), NEW e \in T, Distinct(Append(u, e))
      PROVE  Distinct(Only(Append(u, e), S))
  <2>1. Only(Append(u, e), S) = IF e \in S THEN Append(Only(u, S), e) ELSE Only(u, S)
    BY OnlyAppend
  <2>2. Only(u, S) \in Seq(T) /\ ToSet(Only(u, S)) = ToSet(u) \intersect S
    BY OnlyType, OnlyMembers
  <2>3. Distinct(u) /\ \A c \in ToSet(u) : c.id # e.id
    BY <1>2, DistinctAppend
  <2>4. Distinct(Only(u, S)) /\ \A c \in ToSet(Only(u, S)) : c.id # e.id
    BY <1>2, <2>2, <2>3
  <2>5. Distinct(Append(Only(u, S), e))
    BY <2>2, <2>4, DistinctAppend
  <2> QED  BY <2>1, <2>4, <2>5
<1>3. \A u \in Q : \A e \in T : Append(u, e) \in Q
  <2>1. \A u \in Seq(T) : \A e \in T : Append(u, e) \in Seq(T)
    OBVIOUS
  <2> QED  BY <1>2, <2>1
<1>4. Q \in SUBSET Seq(T)
  OBVIOUS
<1> HIDE DEF Q, T
<1>5. Q = Seq(T)
  BY Zenon, <1>1, <1>3, <1>4, Filt!SeqInduction
<1> QED  BY <1>5 DEF Q, T

\* The cleanup leaves of a grouped history the batches with their results.
LEMMA CleanedContiguous ==
  ASSUME NEW ms \in Seq(Plain), Tidy(ms), NEW laid, Grouped(ms, Len(ms), laid)
  PROVE  Contiguous(cleanupOrphanToolCalls(laid))
<1> DEFINE n == Len(ms)
           ids == ToolIds(ms, n)
           keep == keepCalls(laid)
           res == cleanupOrphanToolCalls(laid)
<1>1. /\ laid \in Seq(Plain) /\ ToSet(laid) = {ms[j] : j \in 1 .. n}
      /\ \A p \in DOMAIN laid : HasCalls(laid[p]) => Run(laid, p, ids)
  BY DEF Grouped
<1>2. DOMAIN ms = 1 .. n /\ n \in Nat /\ DOMAIN laid = 1 .. Len(laid) /\ Len(laid) \in Nat
  BY <1>1
<1>3. \A i \in DOMAIN laid : laid[i] \in Plain /\ laid[i] \in Messages /\ laid[i] \in ToSet(laid)
  BY <1>1 DEF Plain, ToSet
<1>4. \A m \in ToSet(laid) : HasCalls(m) =>
        /\ \A c \in ToSet(m.calls) : c.named /\ c.id # ""
        /\ Distinct(m.calls)
  <2>1. \A j \in DOMAIN ms : HasCalls(ms[j]) =>
          /\ \A c \in ToSet(ms[j].calls) : c.named /\ c.id # ""
          /\ Distinct(ms[j].calls)
    BY Zenon DEF Tidy, Distinct
  <2> QED  BY Zenon, <1>1, <1>2, <2>1
<1>5. \A i : i \in ids <=> \E m \in ToSet(laid) : m.role = "tool" /\ m.id = i
  BY <1>1 DEF ToolIds
<1>6. \A m \in ToSet(laid) : m.role = "tool" =>
        \E x \in ToSet(laid) : HasCalls(x) /\ \E c \in ToSet(x.calls) : c.id = m.id
  <2> SUFFICES ASSUME NEW j \in 1 .. n, ms[j].role = "tool"
               PROVE  \E x \in ToSet(laid) : HasCalls(x) /\ \E c \in ToSet(x.calls) : c.id = ms[j].id
    BY <1>1
  <2>1. PICK i \in DOMAIN ms : HasCalls(ms[i]) /\ ms[j].id \in CallIds(ms[i])
    BY Zenon, <1>2 DEF Tidy
  <2>2. ms[i] \in ToSet(laid)
    BY <1>1, <1>2, <2>1
  <2>3. \E c \in ToSet(ms[i].calls) : c.id = ms[j].id
    BY <2>1 DEF CallIds
  <2> QED  BY <2>1, <2>2, <2>3
<1>7. \A i \in keep : i \in ids
  BY Zenon, <1>5 DEF keepCalls
<1>8. ASSUME NEW m \in ToSet(laid), HasCalls(m), NEW c \in ToSet(m.calls), c.id \in ids
      PROVE  c.id \in keep
  <2> DEFINE calls == UNION {ToSet(x.calls) : x \in {y \in ToSet(laid) : HasCalls(y)}}
             results == {x.id : x \in {y \in ToSet(laid) : y.role = "tool"}}
  <2>1. keep = ({d.id : d \in calls} \intersect results) \ ({d.id : d \in {x \in calls : ~x.named}} \union {""})
    BY DEF keepCalls
  <2>2. c \in calls
    BY <1>8
  <2>3. c.id \in results
    BY <1>5, <1>8
  <2>4. \A d \in calls : d.named
    BY Zenon, <1>4
  <2>5. c.id # ""
    BY Zenon, <1>4, <1>8
  <2> HIDE DEF calls, results
  <2> QED  BY Zenon, <2>1, <2>2, <2>3, <2>4, <2>5
<1>9. CASE ~hasTraffic(laid)
  <2>1. res = laid
    BY <1>9 DEF cleanupOrphanToolCalls
  <2>2. \A i \in DOMAIN laid : ~HasCalls(laid[i])
    <3> SUFFICES ASSUME NEW i \in DOMAIN laid, HasCalls(laid[i]) PROVE FALSE
      OBVIOUS
    <3>1. laid[i].calls \in Seq(ToolCalls) /\ laid[i].calls # <<>>
      BY <1>3 DEF Messages, HasCalls
    <3>2. ToSet(laid[i].calls) # {}
      BY <3>1, CallsSet
    <3>3. CallIds(laid[i]) # {""}
      BY Zenon, <1>3, <1>4, <3>2 DEF CallIds
    <3> QED  BY Zenon, <1>3, <1>9, <3>3 DEF hasTraffic
  <2> QED  BY <2>1, <2>2 DEF Contiguous
<1>10. CASE hasTraffic(laid)
  <2> DEFINE cut == [i \in DOMAIN laid |-> Trim(laid[i], keep)]
             S == {m \in ToSet(cut) : m.role # "tool" \/ m.id \in keep}
  <2>1. res = Only(cut, S)
    BY <1>10 DEF cleanupOrphanToolCalls, Trim
  <2>2. \A i \in DOMAIN laid :
          /\ Trim(laid[i], keep) \in Messages
          /\ Trim(laid[i], keep).role = laid[i].role /\ Trim(laid[i], keep).id = laid[i].id
    BY <1>3, TrimKeeps
  <2>3. cut \in Seq(Messages)
    BY <1>1, <2>2
  <2>4. ToSet(cut) \subseteq S
    <3> SUFFICES ASSUME NEW m \in ToSet(cut), m.role = "tool" PROVE m.id \in keep
      OBVIOUS
    <3>1. PICK i \in DOMAIN laid : m = Trim(laid[i], keep)
      BY DEF ToSet
    <3>2. laid[i].role = "tool" /\ laid[i].id = m.id
      BY <2>2, <3>1
    <3>3. m.id \in ids
      BY <1>3, <1>5, <3>2
    <3>4. PICK x \in ToSet(laid) : HasCalls(x) /\ \E c \in ToSet(x.calls) : c.id = m.id
      BY <1>3, <1>6, <3>2
    <3> HIDE DEF keep, ids
    <3> QED  BY <1>8, <3>3, <3>4
  <2>5. res = cut
    <3> HIDE DEF cut, S, res
    <3> QED  BY <2>1, <2>3, <2>4, OnlyAll
  <2>6. ASSUME NEW i \in DOMAIN laid, HasCalls(cut[i])
        PROVE  LET k == Len(cut[i].calls)
               IN i + k <= Len(cut) /\ {cut[j].id : j \in (i + 1) .. (i + k)} = CallIds(cut[i])
    <3> DEFINE t == cut[i].calls
               k == Len(t)
    <3>1. HasCalls(laid[i])
      BY <1>3, <2>6, TrimKeeps
    <3>2. cut[i] = [laid[i] EXCEPT !.calls = Only(laid[i].calls, {c \in ToSet(laid[i].calls) : c.id \in keep})]
      BY <3>1 DEF Trim
    <3>3. /\ laid[i].calls \in Seq(ToolCalls)
          /\ t = Only(laid[i].calls, {c \in ToSet(laid[i].calls) : c.id \in keep})
      BY <1>3, <3>2 DEF Messages
    <3>4. Distinct(laid[i].calls)
      BY Zenon, <1>3, <1>4, <3>1
    <3>5. t \in Seq(ToolCalls) /\ Distinct(t)
      <4> HIDE DEF t
      <4> QED  BY <3>3, <3>4, OnlyType, OnlyDistinct
    <3>6. ToSet(t) = {c \in ToSet(laid[i].calls) : c.id \in keep}
      BY <1>3, <3>1, TrimKeeps
    <3>7. CallIds(cut[i]) = CallIds(laid[i]) \intersect ids
      <4> HIDE DEF keep, ids, cut
      <4>1. \A c \in ToSet(laid[i].calls) : c.id \in keep <=> c.id \in ids
        BY <1>3, <1>7, <1>8, <3>1
      <4> QED  BY <3>6, <4>1 DEF CallIds
    <3> DEFINE D == CallIds(cut[i])
    <3>8. PICK r \in Nat :
            /\ i + r <= Len(laid)
            /\ \A q \in (i + 1) .. (i + r) : laid[q].role = "tool"
            /\ \A q, p \in (i + 1) .. (i + r) : laid[q].id = laid[p].id => q = p
            /\ {laid[q].id : q \in (i + 1) .. (i + r)} = CallIds(laid[i]) \intersect ids
      BY Zenon, <1>1, <3>1 DEF Run
    <3> DEFINE f == [x \in 1 .. k |-> t[x].id]
               g == [x \in 1 .. r |-> laid[i + x].id]
    <3>9. k = r
      <4>1. k \in Nat /\ DOMAIN t = 1 .. k
        BY <3>5
      <4>2. (\A x \in 1 .. k : f[x] \in D) /\ \A d \in D : \E x \in 1 .. k : f[x] = d
        <5>1. D = {c.id : c \in ToSet(t)}
          BY DEF CallIds
        <5> HIDE DEF t, k, D
        <5> QED  BY <4>1, <5>1 DEF ToSet
      <4>3. \A x, y \in 1 .. k : f[x] = f[y] => x = y
        <5> HIDE DEF t, k
        <5> QED  BY <3>5, <4>1 DEF Distinct
      <4>4. (\A x \in 1 .. r : g[x] \in D) /\ \A d \in D : \E x \in 1 .. r : g[x] = d
        <5>1. D = {laid[q].id : q \in (i + 1) .. (i + r)}
          BY Zenon, <3>7, <3>8
        <5>2. \A x \in 1 .. r : i + x \in (i + 1) .. (i + r)
          BY <1>2
        <5>3. \A q \in (i + 1) .. (i + r) : q - i \in 1 .. r /\ i + (q - i) = q
          BY <1>2
        <5> HIDE DEF D
        <5>4. \A x \in 1 .. r : g[x] \in D
          BY <5>1, <5>2
        <5>5. \A d \in D : \E x \in 1 .. r : g[x] = d
          <6> SUFFICES ASSUME NEW q \in (i + 1) .. (i + r) PROVE \E x \in 1 .. r : g[x] = laid[q].id
            BY <5>1
          <6>1. g[q - i] = laid[i + (q - i)].id
            BY <5>3
          <6> QED  BY <5>3, <6>1
        <5> HIDE DEF g
        <5> QED  BY <5>4, <5>5
      <4>5. \A x, y \in 1 .. r : g[x] = g[y] => x = y
        <5> SUFFICES ASSUME NEW x \in 1 .. r, NEW y \in 1 .. r, g[x] = g[y] PROVE x = y
          OBVIOUS
        <5>1. i + x \in (i + 1) .. (i + r) /\ i + y \in (i + 1) .. (i + r)
          BY <1>2
        <5>2. laid[i + x].id = laid[i + y].id
          OBVIOUS
        <5>3. i + x = i + y
          BY Zenon, <3>8, <5>1, <5>2
        <5> QED  BY <1>2, <5>3
      <4> HIDE DEF f, g, D, k
      <4>6. Cardinality(D) = k
        BY <4>1, <4>2, <4>3, ListCounts
      <4>7. r \in Nat
        OBVIOUS
      <4>8. Cardinality(D) = r
        BY <4>4, <4>5, <4>7, ListCounts
      <4> QED  BY <4>6, <4>8
    <3>10. i + k <= Len(cut)
      <4>1. Len(cut) = Len(laid)
        BY <1>1
      <4> HIDE DEF cut, k
      <4> QED  BY <3>8, <3>9, <4>1
    <3>11. \A j \in (i + 1) .. (i + k) : cut[j].id = laid[j].id
      <4>1. \A j \in (i + 1) .. (i + r) : j \in DOMAIN laid
        BY <1>2, <3>8
      <4>2. \A j \in (i + 1) .. (i + r) : cut[j].id = laid[j].id
        BY <2>2, <4>1
      <4> HIDE DEF cut, k
      <4> QED  BY <3>9, <4>2
    <3> HIDE DEF cut, k
    <3>12. {cut[j].id : j \in (i + 1) .. (i + k)} = {laid[j].id : j \in (i + 1) .. (i + r)}
      BY <3>9, <3>11
    <3> QED  BY Zenon, <3>7, <3>8, <3>10, <3>12 DEF k
  <2>7. DOMAIN cut = DOMAIN laid
    OBVIOUS
  <2> HIDE DEF cut, res
  <2>8. Contiguous(cut)
    BY <2>6, <2>7 DEF Contiguous
  <2> QED  BY <2>5, <2>8 DEF res
<1> QED  BY <1>9, <1>10

\* Where the results stand does not depend on what the backfill changes.
LEMMA ContiguousKept ==
  ASSUME NEW ms \in Seq(Plain), NEW T, NEW ns \in Seq(T), SameTraffic(ms, ns), Contiguous(ms)
  PROVE  Contiguous(ns)
<1>1. DOMAIN ms = 1 .. Len(ms) /\ DOMAIN ns = 1 .. Len(ns) /\ Len(ms) \in Nat /\ Len(ns) \in Nat /\ DOMAIN ns = DOMAIN ms
  BY DEF SameTraffic
<1>2. Len(ns) = Len(ms)
  <2>1. ASSUME NEW x \in Nat, NEW y \in Nat, 1 .. x = 1 .. y PROVE x <= y
    <3>1. CASE x = 0
      BY <3>1
    <3>2. CASE x > 0
      <4>1. x \in 1 .. x
        BY <3>2
      <4>2. x \in 1 .. y
        BY <2>1, <4>1
      <4> QED  BY <4>2
    <3> QED  BY <3>1, <3>2
  <2>2. Len(ns) <= Len(ms) /\ Len(ms) <= Len(ns)
    BY <1>1, <2>1
  <2> DEFINE x == Len(ns)
             y == Len(ms)
  <2>3. x \in Nat /\ y \in Nat /\ x <= y /\ y <= x
    BY <1>1, <2>2
  <2> HIDE DEF x, y
  <2>4. x = y
    BY <2>3
  <2> QED  BY <2>4 DEF x, y
<1>3. SUFFICES ASSUME NEW i \in DOMAIN ns, HasCalls(ns[i])
      PROVE  LET n == Len(ns[i].calls)
             IN i + n <= Len(ns) /\ {ns[j].id : j \in (i + 1) .. (i + n)} = CallIds(ns[i])
  BY DEF Contiguous
<1> DEFINE n == Len(ns[i].calls)
<1>4. ns[i].calls = ms[i].calls /\ HasCalls(ms[i]) /\ CallIds(ns[i]) = CallIds(ms[i])
  BY <1>1, <1>3 DEF SameTraffic, HasCalls, CallIds
<1>5. n = Len(ms[i].calls)
  BY <1>4
<1>6. i + n <= Len(ms) /\ {ms[j].id : j \in (i + 1) .. (i + n)} = CallIds(ms[i])
  BY <1>1, <1>4, <1>5 DEF Contiguous
<1>7. n \in Nat
  <2>1. ms[i].calls \in Seq(ToolCalls)
    BY <1>1 DEF Plain, Messages
  <2> QED  BY <1>5, <2>1
<1> HIDE DEF n
<1>8. \A j \in (i + 1) .. (i + n) : j \in DOMAIN ms
  BY <1>1, <1>6, <1>7
<1>9. \A j \in (i + 1) .. (i + n) : ns[j].id = ms[j].id
  BY <1>8 DEF SameTraffic
<1>10. {ns[j].id : j \in (i + 1) .. (i + n)} = {ms[j].id : j \in (i + 1) .. (i + n)}
  BY Zenon, <1>9
<1> QED  BY Zenon, <1>2, <1>4, <1>6, <1>10 DEF n

\* A system message in front moves batches and results alike.
LEMMA ContiguousShift ==
  ASSUME NEW T, NEW ns \in Seq(T), Contiguous(ns), NEW sys, sys.role = "system",
         \A i \in DOMAIN ns : HasCalls(ns[i]) => Len(ns[i].calls) \in Nat
  PROVE  Contiguous(<<sys>> \o ns)
<1> DEFINE w == <<sys>> \o ns
<1>1. /\ DOMAIN w = 1 .. (Len(ns) + 1) /\ Len(w) = Len(ns) + 1 /\ DOMAIN ns = 1 .. Len(ns) /\ Len(ns) \in Nat
      /\ w[1] = sys /\ \A i \in 1 .. Len(ns) : w[i + 1] = ns[i]
  OBVIOUS
<1> HIDE DEF w
<1>2. ASSUME NEW i \in DOMAIN w, HasCalls(w[i])
      PROVE  LET n == Len(w[i].calls)
             IN i + n <= Len(w) /\ {w[j].id : j \in (i + 1) .. (i + n)} = CallIds(w[i])
  <2> DEFINE k == i - 1
             n == Len(w[i].calls)
  <2>1. i # 1
    BY <1>1, <1>2 DEF HasCalls
  <2>2. k \in DOMAIN ns /\ w[i] = ns[k] /\ i = k + 1 /\ k \in Nat
    <3>1. k \in 1 .. Len(ns) /\ k + 1 = i
      BY <1>1, <2>1
    <3>2. w[k + 1] = ns[k]
      BY <1>1, <3>1
    <3> QED  BY <1>1, <3>1, <3>2
  <2>3. n = Len(ns[k].calls) /\ n \in Nat
    BY <1>2, <2>2
  <2> HIDE DEF k, n
  <2>4. k + n <= Len(ns) /\ {ns[j].id : j \in (k + 1) .. (k + n)} = CallIds(ns[k])
    BY <1>2, <2>2, <2>3 DEF Contiguous
  <2>5. \A j \in (k + 1) .. (k + n) : j + 1 \in (i + 1) .. (i + n) /\ w[j + 1] = ns[j]
    BY <1>1, <2>2, <2>3, <2>4
  <2>6. \A j \in (i + 1) .. (i + n) : j - 1 \in (k + 1) .. (k + n) /\ w[j] = ns[j - 1]
    <3> SUFFICES ASSUME NEW j \in (i + 1) .. (i + n) PROVE j - 1 \in (k + 1) .. (k + n) /\ w[j] = ns[j - 1]
      OBVIOUS
    <3>1. j - 1 \in (k + 1) .. (k + n) /\ (j - 1) + 1 = j
      BY <2>2, <2>3
    <3>2. w[(j - 1) + 1] = ns[j - 1]
      BY <2>5, <3>1
    <3> QED  BY <3>1, <3>2
  <2>7. {w[j].id : j \in (i + 1) .. (i + n)} = {ns[j].id : j \in (k + 1) .. (k + n)}
    BY <2>5, <2>6
  <2>8. i + n <= Len(w)
    BY <1>1, <2>2, <2>3, <2>4
  <2> QED  BY Zenon, <2>2, <2>4, <2>7, <2>8 DEF n
<1>3. Contiguous(w)
  BY <1>2 DEF Contiguous
<1> QED  BY <1>3 DEF w

\* A history that can be repaired is sent with every result behind its call.
LEMMA ResultsPrepared ==
  ASSUME NEW b, IsChatBody(b), b.messages \in Seq(Messages), Repairable(normalizeRoles(b.messages)),
         NEW c, c = PrepareChatBodyForRealm(b)
  PROVE  Contiguous(c.messages)
<1> DEFINE r == normalizeRoles(b.messages)
           m == mergeAdjacentToolCalls(r)
           P == pairMessages(r)
<1>1. r \in Seq(Plain)
  BY RolesNormalized
<1>2. m \in Seq(Plain) /\ Tidy(m)
  <2> HIDE DEF r
  <2>1. Repairable(r)
    BY DEF r
  <2> QED  BY <1>1, <2>1, MergedPlain, RepairableTidy
<1>3. Contiguous(P)
  <2>1. P = cleanupOrphanToolCalls(repackToolResultBlocks(m))
    BY DEF pairMessages
  <2> HIDE DEF m, P
  <2>2. Grouped(m, Len(m), repackToolResultBlocks(m))
    BY <1>2, Repacked
  <2> QED  BY <1>2, <2>1, <2>2, CleanedContiguous
<1>4. P \in Seq(Plain)
  BY HistoryShape
<1>5. PICK ns : /\ SameTraffic(P, ns) /\ ns \in Seq(ToSet(ns))
                /\ c.messages \in {ns, ensureConsoleSystem(ns)}
  BY HistoryShape
<1> HIDE DEF P
<1>6. Contiguous(ns)
  BY <1>3, <1>4, <1>5, ContiguousKept
<1>7. CASE c.messages = ns
  BY <1>6, <1>7
<1>8. CASE c.messages = ensureConsoleSystem(ns) /\ c.messages # ns
  <2>1. PICK sys : sys.role = "system" /\ c.messages = <<sys>> \o ns
    BY Zenon, <1>5, <1>8, ConsoleSystem
  <2>2. \A i \in DOMAIN ns : Len(ns[i].calls) \in Nat
    <3>1. \A i \in DOMAIN P : P[i].calls \in Seq(ToolCalls)
      BY <1>4 DEF Plain, Messages
    <3> QED  BY <1>5, <3>1 DEF SameTraffic
  <2> QED  BY <1>5, <1>6, <2>1, <2>2, ContiguousShift
<1> QED  BY <1>5, <1>7, <1>8

\* repackToolResultBlocks and cleanupOrphanToolCalls: in every history that
\* can be repaired the results of a batch stand right behind it when the body
\* is sent, however long the history is.
THEOREM ResultsCorrect == Spec => []ResultsFollowCalls
<1>1. Init => ResultsFollowCalls
  BY DEF Init, ResultsFollowCalls
<1>2. ResultsFollowCalls /\ [Next]_vars => ResultsFollowCalls'
  <2> SUFFICES ASSUME ResultsFollowCalls, [Next]_vars, pc' = "prepared", Repairable(normalizeRoles(input'))
               PROVE  Contiguous(body'.messages)
    BY Zenon DEF ResultsFollowCalls, Repairable, normalizeRoles, Contiguous
  <2>1. ASSUME NEW b \in Bodies, Prepare(b) PROVE Contiguous(body'.messages)
    <3>1. body' = PrepareChatBodyForRealm(b) /\ input' = b.messages
      BY <2>1 DEF Prepare
    <3> QED  BY <3>1, ResultsPrepared, BodyAssumption
  <2>2. CASE pc = "prepared" /\ UNCHANGED <<input, body>>
    BY <2>2 DEF ResultsFollowCalls
  <2> QED  BY <2>1, <2>2, BodyStep
<1> QED  BY <1>1, <1>2, PTL DEF Spec
=============================================================================
