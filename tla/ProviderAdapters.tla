---------------- MODULE ProviderAdapters ----------------
(***************************************************************************)
(* What the five provider adapters (providers/openai.ts, xai.ts,           *)
(* anthropic.ts, gemini.ts, openai-responses.ts) make of the chunks of a   *)
(* provider's stream, as operators: Take reads a chunk and Finish the end  *)
(* of the stream.  Both answer with the adapter's new state, the events it *)
(* yields and the fault it throws.                                         *)
(*                                                                         *)
(* A chunk carries one thing; the text of a call's arguments is its length *)
(* and parses when it is 2; names follow identities; an amount of usage is *)
(* a number and 0 is none.                                                 *)
(***************************************************************************)
EXTENDS Naturals, Sequences, FiniteSets, TLC

Kinds == {"openai", "xai", "anthropic", "gemini", "responses"}
CallIds == {"c1", "c2"}
Whole == 2

Fresh == [calls |-> <<>>, usage |-> 0, finish |-> "none", opened |-> FALSE, stopped |-> FALSE]

Takes(state, events) == [state |-> state, events |-> events, fault |-> "none"]
Throws(state, cause) == [state |-> state, events |-> <<>>, fault |-> cause]
Malformed(state) == Throws(state, "malformed")

TextDelta == [type |-> "text"]
ToolCall(id) == [type |-> "tool_call", id |-> id]

\* A fragment keeps what earlier ones settled.
StableFragment(old, new) == new = "none" \/ old \in {"none", new}

FinishReason(state, reason) ==
    IF state.finish \in {"none", reason} THEN Takes([state EXCEPT !.finish = reason], <<>>) ELSE Malformed(state)

(***************************************************************************)
(* OpenAI chat completions and xAI.                                        *)
(***************************************************************************)
ChatChunks ==
    {[type |-> "text"], [type |-> "usage"], [type |-> "invalid"]}
    \cup [type : {"fragment"}, index : {0, 1}, id : CallIds \cup {"none"}, text : 1..Whole]
    \cup [type : {"finish"}, reason : {"stop", "length", "tool_calls", "content_filter", "other"}]

ChatCall(state, index) ==
    IF index \in DOMAIN state.calls THEN state.calls[index] ELSE [id |-> "none", text |-> 0]

ChatTake(state, c) ==
    CASE c.type = "text" -> Takes(state, <<TextDelta>>)
      [] c.type = "usage" -> IF state.usage > 0 THEN Malformed(state) ELSE Takes([state EXCEPT !.usage = 1], <<>>)
      [] c.type = "fragment" ->
             LET old == ChatCall(state, c.index)
                 new == [id |-> IF c.id = "none" THEN old.id ELSE c.id, text |-> old.text + c.text]
             IN IF StableFragment(old.id, c.id)
                THEN Takes([state EXCEPT !.calls = (c.index :> new) @@ @], <<>>)
                ELSE Malformed(state)
      [] c.type = "finish" -> FinishReason(state, c.reason)
      [] OTHER -> Malformed(state)

\* The assembled calls in the order of their indices, when they are contiguous,
\* named, parsable and told apart.
CallsComplete(calls) ==
    /\ \A i \in DOMAIN calls : calls[i].id # "none" /\ calls[i].text = Whole
    /\ \A i, j \in DOMAIN calls : i # j => calls[i].id # calls[j].id

Contiguous(calls) == DOMAIN calls = 0..(Cardinality(DOMAIN calls) - 1)

Completed(state, outcome, ids) ==
    Takes([state EXCEPT !.finish = outcome], [i \in DOMAIN ids |-> ToolCall(ids[i])])

\* A completion has calls exactly when its outcome says so.
Outcome(state, outcome, ids) ==
    IF (outcome = "tool_calls") = (ids # <<>>) THEN Completed(state, outcome, ids) ELSE Malformed(state)

ChatFinish(state) ==
    CASE state.usage = 0 \/ state.finish \in {"none", "other"} -> Malformed(state)
      [] state.finish = "content_filter" -> Throws(state, "policy_denied")
      [] ~(Contiguous(state.calls) /\ CallsComplete(state.calls)) -> Malformed(state)
      [] OTHER -> Outcome(state, state.finish,
                          [i \in 1..Cardinality(DOMAIN state.calls) |-> state.calls[i - 1].id])

(***************************************************************************)
(* Anthropic: a message of content blocks.                                 *)
(***************************************************************************)
ReportedFailures == {"rate_limited", "policy_denied", "invalid_request", "malformed"}

MessageChunks ==
    {[type |-> "ping"], [type |-> "message_start"], [type |-> "message_stop"], [type |-> "invalid"]}
    \cup [type : {"error"}, cause : ReportedFailures]
    \cup [type : {"block_start"}, index : 1..2, block : CallIds \cup {"text", "thinking"}]
    \cup [type : {"block_delta"}, index : 1..2, block : {"tool_use", "text", "thinking"}]
    \cup [type : {"block_stop"}, index : 1..2]
    \cup [type : {"message_delta"}, reason : {"none", "stop", "length", "tool_calls", "refusal", "other"}]

BlockKind(block) == IF block.id \in CallIds THEN "tool_use" ELSE block.id
OpenBlock(state, index) == index \in DOMAIN state.calls /\ ~state.calls[index].closed

MessageTake(state, c) ==
    CASE state.stopped -> Malformed(state)
      [] c.type = "ping" -> Takes(state, <<>>)
      [] c.type = "error" -> Throws(state, c.cause)
      [] c.type = "message_start" ->
             IF state.opened THEN Malformed(state) ELSE Takes([state EXCEPT !.opened = TRUE, !.usage = 1], <<>>)
      [] ~state.opened -> Malformed(state)
      [] c.type = "block_start" ->
             IF c.index # Len(state.calls) + 1 THEN Malformed(state)
             ELSE Takes([state EXCEPT !.calls = Append(@, [id |-> c.block, text |-> 0, closed |-> FALSE])],
                        IF c.block = "text" THEN <<TextDelta>> ELSE <<>>)
      [] c.type = "block_delta" ->
             IF ~OpenBlock(state, c.index) THEN Malformed(state)
             ELSE IF BlockKind(state.calls[c.index]) # c.block THEN Malformed(state)
             ELSE IF c.block = "text" THEN Takes(state, <<TextDelta>>)
             ELSE IF c.block = "thinking" THEN Takes(state, <<>>)
             ELSE Takes([state EXCEPT !.calls[c.index].text = @ + 1], <<>>)
      [] c.type = "block_stop" ->
             IF OpenBlock(state, c.index) THEN Takes([state EXCEPT !.calls[c.index].closed = TRUE], <<>>)
             ELSE Malformed(state)
      [] c.type = "message_delta" ->
             IF \E i \in DOMAIN state.calls : ~state.calls[i].closed THEN Malformed(state)
             ELSE IF c.reason = "none" THEN Takes(state, <<>>) ELSE FinishReason(state, c.reason)
      [] c.type = "message_stop" ->
             IF state.finish = "none" THEN Malformed(state) ELSE Takes([state EXCEPT !.stopped = TRUE], <<>>)
      [] OTHER -> Malformed(state)

ToolBlocks(state) == SelectSeq(state.calls, LAMBDA b : b.id \in CallIds)

MessageFinish(state) ==
    CASE ~state.stopped \/ state.finish = "other" -> Malformed(state)
      [] state.finish = "refusal" -> Throws(state, "policy_denied")
      [] ~CallsComplete(ToolBlocks(state)) -> Malformed(state)
      [] OTHER -> Outcome(state, state.finish,
                          [i \in DOMAIN ToolBlocks(state) |-> ToolBlocks(state)[i].id])

(***************************************************************************)
(* Gemini: cumulative usage, whole function calls and at most one of them. *)
(***************************************************************************)
ContentChunks ==
    {[type |-> "text"], [type |-> "thought"], [type |-> "blocked"], [type |-> "invalid"]}
    \cup [type : {"usage"}, amount : 1..2]
    \cup [type : {"call"}, id : CallIds]
    \cup [type : {"finish"}, reason : {"stop", "length", "policy", "other"}]

ContentTake(state, c) ==
    LET seen == [state EXCEPT !.opened = TRUE]
    IN CASE c.type = "usage" ->
                IF c.amount < state.usage THEN Malformed(state) ELSE Takes([state EXCEPT !.usage = c.amount], <<>>)
         [] c.type = "blocked" -> Throws(state, "policy_denied")
         [] c.type = "text" -> Takes(seen, <<TextDelta>>)
         [] c.type = "thought" -> Takes(seen, <<>>)
         [] c.type = "call" ->
                IF state.calls # <<>> THEN Malformed(state)
                ELSE Takes([seen EXCEPT !.calls = <<[id |-> c.id, text |-> Whole]>>], <<>>)
         [] c.type = "finish" -> FinishReason(seen, c.reason)
         [] OTHER -> Malformed(state)

ContentFinish(state) ==
    CASE ~state.opened \/ state.usage = 0 \/ state.finish \in {"none", "other"} -> Malformed(state)
      [] state.finish = "policy" -> Throws(state, "policy_denied")
      [] state.finish = "length" /\ state.calls # <<>> -> Malformed(state)
      [] OTHER -> Completed(state, IF state.calls = <<>> THEN state.finish ELSE "tool_calls",
                            [i \in DOMAIN state.calls |-> state.calls[i].id])

(***************************************************************************)
(* OpenAI Responses: a call is yielded when its arguments are done.        *)
(***************************************************************************)
ResponseChunks ==
    {[type |-> "text"], [type |-> "item"], [type |-> "completed"], [type |-> "failed"], [type |-> "invalid"]}
    \cup [type : {"call"}, id : CallIds, advertised : BOOLEAN]

ResponseTake(state, c) ==
    CASE c.type = "text" -> Takes(state, <<TextDelta>>)
      [] c.type = "item" -> Takes(state, <<>>)
      [] c.type = "call" ->
             IF c.advertised
             THEN Takes([state EXCEPT !.calls = Append(@, [id |-> c.id, text |-> Whole])], <<ToolCall(c.id)>>)
             ELSE Malformed(state)
      [] c.type = "completed" -> Takes([state EXCEPT !.usage = 1, !.stopped = TRUE], <<>>)
      [] OTHER -> Malformed(state)

ResponseFinish(state) ==
    IF ~state.stopped THEN Malformed(state)
    ELSE Takes([state EXCEPT !.finish = IF state.calls = <<>> THEN "stop" ELSE "tool_calls"], <<>>)

(***************************************************************************)
(* What requestPayload refuses before a request is made: parts of the      *)
(* content (the features of a request) and what the adapter was given to   *)
(* resolve them.                                                           *)
(***************************************************************************)
ImagesResolvable(content, supports) == "image" \in content => "images" \in supports
ToolsSupported(content, supports) == (content \cap {"result", "two_results"}) # {} => "tools" \in supports

OpenAIAccepts(content, supports) ==
    /\ ToolsSupported(content, supports) /\ ImagesResolvable(content, supports)
    /\ "document" \in content => "documents" \in supports

XAIAccepts(content, supports) ==
    ToolsSupported(content, supports) /\ ImagesResolvable(content, supports) /\ "document" \notin content

AnthropicAccepts(content, supports) ==
    /\ ToolsSupported(content, supports) /\ ImagesResolvable(content, supports)
    /\ content \cap {"document", "assistant_first"} = {}

GeminiAccepts(content, supports) ==
    /\ ToolsSupported(content, supports) /\ ImagesResolvable(content, supports)
    /\ content \cap {"document", "assistant_first", "two_results"} = {}

\* Tool results of Responses need the continuation of the request they answer.
ResponsesAccepts(content, supports, parent) ==
    /\ ImagesResolvable(content, supports) /\ ("document" \in content => "documents" \in supports)
    /\ content \cap {"result", "two_results"} # {} => parent

Accepts(kind, content, supports, parent) ==
    CASE kind = "openai" -> OpenAIAccepts(content, supports)
      [] kind = "xai" -> XAIAccepts(content, supports)
      [] kind = "anthropic" -> AnthropicAccepts(content, supports)
      [] kind = "gemini" -> GeminiAccepts(content, supports)
      [] kind = "responses" -> ResponsesAccepts(content, supports, parent)

(***************************************************************************)
(* The adapters.                                                           *)
(***************************************************************************)
Chunks(kind) ==
    CASE kind \in {"openai", "xai"} -> ChatChunks
      [] kind = "anthropic" -> MessageChunks
      [] kind = "gemini" -> ContentChunks
      [] kind = "responses" -> ResponseChunks

Take(kind, state, c) ==
    CASE kind \in {"openai", "xai"} -> ChatTake(state, c)
      [] kind = "anthropic" -> MessageTake(state, c)
      [] kind = "gemini" -> ContentTake(state, c)
      [] kind = "responses" -> ResponseTake(state, c)

Finish(kind, state) ==
    CASE kind \in {"openai", "xai"} -> ChatFinish(state)
      [] kind = "anthropic" -> MessageFinish(state)
      [] kind = "gemini" -> ContentFinish(state)
      [] kind = "responses" -> ResponseFinish(state)

\* Usage an adapter publishes and returns although the response fails: with a
\* policy stop, and in xAI whatever it has seen.
PublishedUsage(kind, state, cause) ==
    IF cause = "policy_denied" /\ (kind = "anthropic" => state.stopped) THEN state.usage ELSE 0
KeptUsage(kind, state, cause) == IF kind = "xai" THEN state.usage ELSE PublishedUsage(kind, state, cause)

\* normalizeFailure: what a provider's refusal or a malformed stream is called.
RequestFaults == {"rate_limited", "deadline_exceeded", "upstream_unavailable", "invalid_request",
                  "unauthenticated", "forbidden", "idempotency_conflict"}

NormalizeFailure(kind, cause) ==
    CASE cause = "malformed" -> "upstream_unavailable"
      [] kind = "responses" /\ cause \notin {"rate_limited", "preflight"} -> "upstream_unavailable"
      [] cause = "preflight" -> "invalid_request"
      [] OTHER -> cause

Retryable(code) == code \in {"rate_limited", "deadline_exceeded", "upstream_unavailable"}

\* publicError of the adapters: the category an error is published under.
ClientCategory(code) ==
    CASE code = "unauthenticated" -> "authentication" [] code = "forbidden" -> "authorization" [] OTHER -> "request"

PublicError(kind, code) ==
    CASE code = "policy_denied" -> "policy"
      [] kind = "responses" /\ code = "rate_limited" -> "capacity"
      [] Retryable(code) -> "upstream"
      [] kind = "responses" -> "request"
      [] OTHER -> ClientCategory(code)
================================================
