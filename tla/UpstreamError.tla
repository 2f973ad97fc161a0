--------------------------- MODULE UpstreamError ---------------------------
(***************************************************************************)
(* Classification of an upstream answer: Classify of                       *)
(* internal/upstream/client.go, the penalty applyUpstreamError of          *)
(* plugin/wb_pool.go derives from it, and the test of plugin/policy.go for *)
(* the credit check. An error body is the set of markers it holds, in its  *)
(* first 200 characters (head) or behind them (tail), and whether it       *)
(* parses as JSON.                                                         *)
(***************************************************************************)
EXTENDS Integers, Sequences

\* One marker per word list of client.go; "modelCode" is 11102 in its own
\* field, "6004" the model limit, "envelope" a "code" or "msg" field.
Markers == {"modelCode", "sessionDead", "accountFault", "hard", "softRate",
            "promptTooLong", "contentBlocked", "badParams", "6004", "envelope"}

Body(json, head, tail) == [json |-> json, head |-> head, tail |-> tail]

\* An error of the transport or of the reader: text without markers.
PlainText == Body(FALSE, {}, {})

hit(body, marker) == marker \in body.head \union body.tail

\* The error text collectUpstreamStream makes of an answer: a prefix and the
\* first 200 characters.
wrapped(body) == Body(FALSE, body.head, {})

\* Decided on parsed fields, never on the raw text.
IsModelBlocked(status, body) ==
  status \in {400, 404} /\ body.json /\ hit(body, "modelCode")

IsModelRateLimit(body) == hit(body, "6004")

IsWafBlocked(status, body) == status = 403 /\ ~hit(body, "envelope")

isPromptTooLongStatus(status) == status \in {400, 404, 413}

\* The tests of Classify in their order, each with the kind it decides.
classifyTests(status, body) ==
  << <<IsModelBlocked(status, body), "model_blocked">>,
     <<status = 402, "hard_credit">>,
     <<hit(body, "sessionDead"), "session_dead">>,
     <<hit(body, "accountFault"), "account_fault">>,
     <<status = 429, "soft_rate">>,
     <<hit(body, "hard"), "hard_credit">>,
     <<hit(body, "softRate"), "soft_rate">>,
     <<isPromptTooLongStatus(status) /\ hit(body, "promptTooLong"), "prompt_too_long">>,
     <<status = 404, "not_found">>,
     <<status >= 500, "server">>,
     <<IsWafBlocked(status, body), "waf_block">>,
     <<status >= 400 /\ hit(body, "contentBlocked"), "content_blocked">>,
     <<status >= 400 /\ hit(body, "badParams"), "bad_params">>,
     <<status >= 400, "client">>,
     <<TRUE, "none">> >>

\* The first test that holds decides.
Classify(status, body) ==
  LET tests == classifyTests(status, body)
      first == CHOOSE i \in DOMAIN tests : tests[i][1] /\ \A j \in 1 .. (i - 1) : ~tests[j][1]
  IN tests[first][2]

\* What the pool is told about the account and the model.
applyUpstreamError(status, body) ==
  LET kind == Classify(status, body)
  IN CASE kind = "model_blocked" -> "BlockModelBackoff"
       [] kind = "soft_rate" /\ IsModelRateLimit(body) -> "CooldownSoftForModel"
       [] kind = "soft_rate" /\ ~IsModelRateLimit(body) -> "CooldownSoftRate"
       [] kind = "hard_credit" -> "CooldownUntilTomorrow4AM"
       [] kind = "session_dead" -> "NoteSessionDead"
       [] kind = "server" -> "NoteError"
       [] OTHER -> "nothing"

notePoolSuccess == "NoteSuccess"

\* Whether the credit of the account is checked after this answer; its word
\* list and that of the pool's hard_credit share the marker.
isHardCreditError(status, body) == status = 402 \/ hit(body, "hard")
=============================================================================
