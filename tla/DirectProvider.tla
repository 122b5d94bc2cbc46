---------------- MODULE DirectProvider ----------------
(***************************************************************************)
(* A turn of the direct provider transport (transports/direct-provider.ts) *)
(* over a provider adapter: the adapter's generator reads the provider's   *)
(* stream, pumpProvider validates what it yields, and an observer reads    *)
(* the observation, leaves it or cancels the turn at any moment.           *)
(*                                                                         *)
(* The adapter stands still while an event it yielded is not taken, so its *)
(* steps need an empty `out`.  The provider sends any chunks, ends or      *)
(* breaks its stream wherever it likes; a stream that breaks the rules of  *)
(* its protocol is an ordinary behaviour here.                             *)
(***************************************************************************)
EXTENDS ProviderAdapters

CONSTANTS
    Invocations   \* the turns tried: the adapter (kind) and what it supports, the content
                  \* of the request, how startTurn finds it, bounds on chunks and moves

VARIABLES
    turn,      \* the entry of the turns map, the last answer and the moves of the observer
    adapter,   \* the generator: phase, assembled state, yielded events, result
    pumped,    \* pumpProvider: the events so far; the terminal one is held
    watcher,   \* the DirectObservation and what its reader has seen
    aborted,   \* the abort signal
    continuations   \* the continuation store holds the parent request

directVars == <<turn, adapter, pumped, watcher, aborted, continuations>>

NoAdapter == [phase |-> "none"]
Terminals == {"completed", "cancelled", "error"}
IsTerminal(e) == e.type \in Terminals
NoResult == [status |-> "none"]
kind == turn.invocation.kind

(***************************************************************************)
(* The transport's operations.                                             *)
(***************************************************************************)
Refusal ==
    CASE turn.invocation.request = "valid" -> IF turn.phase = "none" THEN "none" ELSE "conflict"
      [] turn.invocation.request = "context" -> "internal_error"
      [] OTHER -> "invalid_request"

\* Bound: the observer cancels, leaves or starts the turn again so often.
MayMove == turn.moves < turn.invocation.moves

StartTurn ==
    /\ turn.moves = 0 \/ MayMove
    /\ turn' = [turn EXCEPT !.moves = @ + 1, !.answer = Refusal,
                            !.phase = IF Refusal = "none" THEN "active" ELSE @]
    /\ adapter' = IF Refusal = "none"
                  THEN [phase |-> "started", state |-> Fresh, chunks |-> 0, sequence |-> 1, result |-> NoResult,
                        out |-> <<[type |-> "started", n |-> 0]>>]
                  ELSE adapter
    /\ UNCHANGED <<pumped, watcher, aborted, continuations>>

CancelTurn ==
    /\ MayMove /\ turn.moves > 0 /\ ~aborted
    /\ turn' = [turn EXCEPT !.moves = @ + 1, !.answer = CASE turn.phase = "none" -> "not_found"
                                         [] turn.phase = "terminal" -> "already_terminal"
                                         [] OTHER -> "cancellation_requested"]
    /\ aborted' = (turn.phase = "active")
    /\ UNCHANGED <<adapter, pumped, watcher, continuations>>

(***************************************************************************)
(* The adapter's generator.                                                *)
(***************************************************************************)
Runs(phase) == adapter.phase = phase /\ adapter.out = <<>>

\* The envelope numbers every event.
Envelope(events) == [i \in DOMAIN events |-> [n |-> adapter.sequence + i - 1] @@ events[i]]

Yields(phase, state, events, result) ==
    adapter' = [adapter EXCEPT !.phase = phase, !.state = state, !.out = Envelope(events),
                               !.sequence = @ + Len(events), !.result = result]

Continue(phase, state, events) == Yields(phase, state, events, NoResult)

UsageEvent == [type |-> "usage"]

Cancelled(state) ==
    Yields("done", state, <<[type |-> "cancelled"]>>,
           [status |-> "cancelled", usage |-> IF kind = "xai" THEN state.usage ELSE 0])

\* The catch block: an abort is a cancellation, whoever caused it.
Fails(state, cause) ==
    IF aborted \/ cause = "abort" THEN Cancelled(state)
    ELSE LET code == NormalizeFailure(kind, cause)
             error == [type |-> "error", code |-> code, category |-> PublicError(kind, code)]
         IN Yields("done", state,
                   (IF PublishedUsage(kind, state, cause) > 0 THEN <<UsageEvent>> ELSE <<>>) \o <<error>>,
                   [status |-> "failed", code |-> code, usage |-> KeptUsage(kind, state, cause)])

AdapterFrame == UNCHANGED <<turn, pumped, watcher, aborted>>

\* The signal is looked at before the request is built, not by Responses;
\* requestPayload may refuse it.
Begin ==
    /\ Runs("started")
    /\ IF aborted /\ kind # "responses" THEN Cancelled(adapter.state)
       ELSE IF Accepts(kind, turn.invocation.content, turn.invocation.supports, continuations)
       THEN Continue("requesting", adapter.state, <<>>)
       ELSE Fails(adapter.state, "preflight")
    /\ AdapterFrame /\ UNCHANGED continuations

\* A resolver of the host or its request function throws, or the stream opens.
Request ==
    /\ Runs("requesting")
    /\ \/ \E cause \in RequestFaults \cup {"malformed", "abort"} : Fails(adapter.state, cause)
       \/ IF aborted /\ kind # "responses" THEN Cancelled(adapter.state)
          ELSE Continue("reading", adapter.state, <<>>)
    /\ AdapterFrame /\ UNCHANGED continuations

ReadChunk ==
    /\ Runs("reading") /\ adapter.chunks < turn.invocation.chunks
    /\ IF aborted THEN Cancelled(adapter.state)
       ELSE \E c \in Chunks(kind) :
                LET step == Take(kind, adapter.state, c)
                IN IF step.fault = "none"
                   THEN adapter' = [adapter EXCEPT !.chunks = @ + 1, !.state = step.state,
                                        !.out = Envelope(step.events), !.sequence = @ + Len(step.events)]
                   ELSE Fails(step.state, step.fault)
    /\ AdapterFrame /\ UNCHANGED continuations

\* The stream ends, or breaks off with an error of the network.
StreamEnds ==
    /\ Runs("reading")
    /\ \/ LET step == Finish(kind, adapter.state)
          IN IF step.fault # "none" THEN Fails(step.state, step.fault)
             ELSE Continue("completing", step.state, Append(step.events, UsageEvent))
       \/ Fails(adapter.state, "upstream_unavailable")
    /\ AdapterFrame /\ UNCHANGED continuations

Complete ==
    Yields("done", adapter.state, <<[type |-> "completed", outcome |-> adapter.state.finish]>>,
           [status |-> "completed", outcome |-> adapter.state.finish, usage |-> adapter.state.usage])

\* Responses saves the continuation of its calls before it completes, and a
\* store that fails takes the published usage with it.
Completes ==
    /\ Runs("completing")
    /\ \/ Complete /\ continuations' = (continuations \/ (kind = "responses" /\ adapter.state.calls # <<>>))
       \/ /\ kind = "responses" /\ adapter.state.calls # <<>>
          /\ Fails(adapter.state, "upstream_unavailable") /\ UNCHANGED continuations
    /\ AdapterFrame

(***************************************************************************)
(* pumpProvider and the observation.                                       *)
(***************************************************************************)
\* validateIncrementalEvent.
ValidEvent(e) ==
    /\ e.n = Len(pumped) /\ (e.type = "started") = (pumped = <<>>)
    /\ \A i \in DOMAIN pumped : ~IsTerminal(pumped[i])

ToolCallsIn(events) == SelectSeq(events, LAMBDA e : e.type = "tool_call")

\* parseStreamEvents on the whole stream.
ValidStream(events) ==
    LET calls == ToolCallsIn(events)
        last == events[Len(events)]
    IN /\ events # <<>> /\ IsTerminal(last)
       /\ \A i, j \in DOMAIN calls : i # j => calls[i].id # calls[j].id
       /\ (last.type = "completed" /\ last.outcome = "tool_calls") => calls # <<>>

\* publicErrorFor.
PublicErrorFor(code) ==
    CASE code = "rate_limited" -> "capacity"
      [] Retryable(code) -> "upstream"
      [] code = "policy_denied" -> "policy"
      [] OTHER -> ClientCategory(code)

TerminalMatchesResult(e, result) ==
    CASE result.status = "completed" -> e.type = "completed" /\ e.outcome = result.outcome
      [] result.status = "cancelled" -> e.type = "cancelled"
      [] OTHER -> e.type = "error" /\ e.code = result.code /\ e.category = PublicErrorFor(result.code)

Pushed(w, e) == IF w.disconnected \/ w.result # NoResult THEN w ELSE [w EXCEPT !.buffer = Append(@, e)]
Closed(w, result) == IF w.result # NoResult THEN w ELSE [w EXCEPT !.result = result]

Internal == [status |-> "internal_error"]

\* Mutant: the terminal event is pushed as soon as it comes.
Forwarded(e) == Pushed(watcher, e)

\* A terminal event is held back until the adapter has returned.
Held(e) == IF IsTerminal(e) THEN watcher ELSE Pushed(watcher, e)

PumpTakes ==
    /\ turn.phase = "active" /\ adapter.out # <<>>
    /\ LET e == Head(adapter.out) IN
       IF ValidEvent(e)
       THEN /\ pumped' = Append(pumped, e) /\ watcher' = Held(e)
            /\ adapter' = [adapter EXCEPT !.out = Tail(@)] /\ UNCHANGED turn
       ELSE /\ watcher' = Closed(watcher, Internal) /\ turn' = [turn EXCEPT !.phase = "terminal"]
            /\ UNCHANGED <<pumped, adapter>>
    /\ UNCHANGED <<aborted, continuations>>

\* transportErrorFor and observationResult; a completed turn needs its receipt.
ObservationResult(result) ==
    IF result.status = "failed" THEN [status |-> "failed", code |-> result.code, receipt |-> result.usage > 0]
    ELSE [status |-> result.status, receipt |-> result.usage > 0]

PumpReturns ==
    /\ turn.phase = "active" /\ Runs("done")
    /\ LET last == pumped[Len(pumped)]
           accepted == /\ ValidStream(pumped) /\ TerminalMatchesResult(last, adapter.result)
                       /\ (adapter.result.status = "completed" => adapter.result.usage > 0)
       IN watcher' = IF accepted THEN Closed(Pushed(watcher, last), ObservationResult(adapter.result))
                     ELSE Closed(watcher, Internal)
    /\ turn' = [turn EXCEPT !.phase = "terminal"]
    /\ UNCHANGED <<adapter, pumped, aborted, continuations>>

WatcherReads ==
    /\ watcher.buffer # <<>>
    /\ watcher' = [watcher EXCEPT !.buffer = Tail(@), !.seen = Append(@, Head(watcher.buffer))]
    /\ UNCHANGED <<turn, adapter, pumped, aborted, continuations>>

\* The reader leaves; the provider is not stopped.
Disconnect ==
    /\ MayMove /\ turn.phase # "none" /\ watcher.result = NoResult
    /\ turn' = [turn EXCEPT !.moves = @ + 1]
    /\ watcher' = [watcher EXCEPT !.disconnected = TRUE, !.buffer = <<>>, !.result = [status |-> "disconnected"]]
    /\ UNCHANGED <<adapter, pumped, aborted, continuations>>

DirectInit ==
    /\ \E i \in Invocations : turn = [invocation |-> i, moves |-> 0, answer |-> "none", phase |-> "none"]
    /\ adapter = NoAdapter /\ pumped = <<>> /\ aborted = FALSE
    /\ continuations \in {FALSE, "result" \in turn.invocation.content}
    /\ watcher = [buffer |-> <<>>, seen |-> <<>>, disconnected |-> FALSE, result |-> NoResult]

DirectNext ==
    \/ StartTurn \/ CancelTurn
    \/ (turn.phase = "active" /\ (Begin \/ Request \/ ReadChunk \/ StreamEnds \/ Completes))
    \/ PumpTakes \/ PumpReturns \/ WatcherReads \/ Disconnect

(***************************************************************************)
(* Properties.                                                             *)
(***************************************************************************)
Seen(type) == {i \in DOMAIN watcher.seen : watcher.seen[i].type = type}

\* What the observer is told hangs together, whatever the provider sends and
\* whenever the turn is cancelled: a terminal event comes last and is the
\* result's; a completed turn shows calls exactly when its outcome is
\* tool_calls; calls are shown for nothing but a completed turn, except by
\* Responses, which yields them as they come; every call shown was assembled
\* whole; and usage that was shown has its receipt, except where Responses
\* failed to save its continuation (the adapters' streams, pumpProvider).
StreamTold ==
    /\ \A i \in DOMAIN watcher.seen : watcher.seen[i].n = i - 1
    /\ \A i \in Seen("completed") :
           /\ i = Len(watcher.seen) /\ watcher.result.status = "completed"
           /\ (watcher.seen[i].outcome = "tool_calls") = (Seen("tool_call") # {})
    /\ \A i \in Seen("cancelled") \cup Seen("error") :
           i = Len(watcher.seen) /\ watcher.result.status \in {"cancelled", "failed"}
    /\ \A i \in Seen("tool_call") :
           /\ kind # "responses" => watcher.result.status \in {"none", "completed", "disconnected"}
           /\ \E k \in DOMAIN adapter.state.calls :
                  adapter.state.calls[k].id = watcher.seen[i].id /\ adapter.state.calls[k].text = Whole
    /\ (Seen("usage") # {} /\ kind # "responses") =>
           watcher.result.status \in {"none", "internal_error", "disconnected"} \/ watcher.result.receipt

\* An adapter ends its stream with the terminal event of the result it returns.
EndsMatched ==
    (adapter # NoAdapter /\ turn.phase = "active" /\ Runs("done")) =>
        TerminalMatchesResult(pumped[Len(pumped)], adapter.result)
================================================
