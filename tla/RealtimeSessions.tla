---------------- MODULE RealtimeSessions ----------------
(***************************************************************************)
(* One realtime voice session on a trusted server: its bootstrap, the      *)
(* events of the provider, the tools the provider calls through the bridge *)
(* to the executor, and its end by hangup, by the provider or by cleanup.  *)
(* Handlers of events run concurrently and give way at every await.        *)
(***************************************************************************)
EXTENDS Integers, FiniteSets, Sequences

CONSTANTS
    Bootstraps,     \* requests to create the session, under one idempotency key
    Handlers,       \* calls of handleProviderEvent
    Tools,          \* tool calls of the provider
    Plans,          \* records with the fields
                    \*   event     [Handlers -> [kind, id, tool]]
                    \*   active    the actors that take part
    MaxTrackedCalls,    \* maximumTrackedToolCalls and ...PerSession
    MaxConcurrentTools, \* maximumConcurrentToolCalls
    MaxAttempts         \* how often a hangup or a cleanup is tried

VARIABLES
    plan,
    bootstrap,      \* [Bootstraps -> where it is]
    entry,          \* the status of the idempotency entry
    tracked,        \* MutableTrackedSession
    handler,        \* [Handlers -> where it is]
    bridge,         \* the bridge's SessionRecord
    operation,      \* [Tools -> the bridge's operation of the call]
    outputs,        \* [Tools -> how often its output reached the provider]
    authority,      \* IdempotentRealtimeVoiceSessionAuthority
    emitted,        \* session events handed to the client, in order
    client          \* RealtimeVoiceClientSession, which applies them

sessionVars == <<plan, bootstrap, entry, tracked, handler, bridge, operation, outputs, authority, emitted, client>>

------------------------------------------------
NoSession == [state |-> "none", cleanup |-> "pending", started |-> FALSE, response |-> FALSE,
              aborted |-> FALSE, sequence |-> 0, terminal |-> FALSE, ending |-> "none",
              seen |-> {}, calls |-> {}, running |-> {}, sent |-> {}]
NoOperation == [at |-> "none"]
SessionsInit ==
    /\ plan \in Plans
    /\ bootstrap = [b \in Bootstraps |-> "idle"] /\ entry = "none"
    /\ tracked = NoSession
    /\ handler = [h \in Handlers |-> "idle"]
    /\ bridge = [state |-> "none", calls |-> {}]
    /\ operation = [c \in Tools |-> NoOperation] /\ outputs = [c \in Tools |-> 0]
    /\ authority = [hangup |-> "idle", cleanup |-> "idle", ended |-> FALSE, cleaned |-> FALSE,
                    terminal |-> FALSE, hosts |-> 0, tries |-> 0]
    /\ emitted = <<>> /\ client = [status |-> "ready", response |-> FALSE, applied |-> 0]

\* bootstrap: authenticated, authorized and fingerprinted, a request enters
\* its key, asks the provider (the same key gives the same session), and
\* tracks the session it is given; the host then registers its tools.
BootstrapAsks(b) ==
    /\ b \in plan.active /\ bootstrap[b] = "idle"
    /\ bootstrap' = [bootstrap EXCEPT ![b] = "asked"]
    /\ entry' = IF entry = "none" THEN "pending" ELSE entry
    /\ UNCHANGED <<plan, tracked, handler, bridge, operation, outputs, authority, emitted, client>>
BootstrapReturns(b) ==
    /\ bootstrap[b] = "asked"
    /\ \/ /\ entry' = "tracked"
          /\ tracked' = IF tracked.state = "none" THEN [tracked EXCEPT !.state = "open"] ELSE tracked
          /\ bridge' = IF bridge.state = "none" THEN [bridge EXCEPT !.state = "live"] ELSE bridge
       \/ /\ entry' = IF entry = "pending" THEN "failed" ELSE entry
          /\ UNCHANGED <<tracked, bridge>>
    /\ bootstrap' = [bootstrap EXCEPT ![b] = "done"]
    /\ UNCHANGED <<plan, handler, operation, outputs, authority, emitted, client>>
\* #makeRoom: a new request at the limit forgets what is over.
MakeRoom ==
    /\ "room" \in plan.active
    /\ \/ tracked.state = "ended" /\ tracked.cleanup = "cleaned" /\ tracked' = [tracked EXCEPT !.state = "forgotten"]
       \/ entry = "failed" /\ UNCHANGED tracked
    /\ entry' = "none"
    /\ UNCHANGED <<plan, bootstrap, handler, bridge, operation, outputs, authority, emitted, client, client>>

------------------------------------------------
\* handleProviderEvent up to its first await: usage is retained whatever the
\* state; anything but another failure is refused once the session is over.
Terminal(t) == [t EXCEPT !.aborted = TRUE, !.response = FALSE, !.state = "provider_ended",
                         !.sequence = @ + 1, !.terminal = TRUE]
Begun(t) == IF t.terminal THEN t ELSE Terminal(t)
Terminating(t) == [Begun(t) EXCEPT !.ending = IF @ = "none" THEN "bridge" ELSE @]
Announce(old, new, kind) == IF new.sequence > old.sequence THEN Append(emitted, kind) ELSE emitted
EventArrives(h) ==
    /\ h \in plan.active /\ handler[h] = "idle" /\ tracked.state # "none"
    /\ IF tracked.state = "open" THEN handler' = [handler EXCEPT ![h] = "digest"] /\ UNCHANGED <<tracked, emitted>>
       ELSE /\ handler' = [handler EXCEPT ![h] = "done"]
            /\ tracked' = IF plan.event[h].kind = "failure" /\ tracked.terminal THEN Terminating(tracked) ELSE tracked
            /\ UNCHANGED emitted
    /\ UNCHANGED <<plan, bootstrap, entry, bridge, operation, outputs, authority, client>>
\* ... and after it: known events are dropped, the others take effect on the
\* session as it is now, without a second look at its state.
Effect(t, kind) ==
    CASE kind = "session_started" -> IF t.started THEN t ELSE [t EXCEPT !.started = TRUE, !.sequence = @ + 1]
      [] kind = "response_started" -> IF ~t.started \/ t.response THEN t ELSE [t EXCEPT !.response = TRUE, !.sequence = @ + 1]
      [] kind = "response_stopped" -> IF ~t.started \/ ~t.response THEN t ELSE [t EXCEPT !.response = FALSE, !.sequence = @ + 1]
      [] kind = "failure" -> Terminating(t)
      [] OTHER -> t
EventHandled(h) ==
    LET e == plan.event[h]
        known == e.id \in tracked.seen
        calls == e.kind = "tool_call" /\ ~known /\ tracked.started /\ tracked.response
        t == IF known THEN tracked ELSE Effect([tracked EXCEPT !.seen = @ \cup {e.id}], e.kind)
    IN /\ handler[h] = "digest"
       /\ tracked' = t
       /\ emitted' = Announce(tracked, t, e.kind)
       /\ handler' = [handler EXCEPT ![h] = IF calls THEN "call" ELSE "done"]
       /\ UNCHANGED <<plan, bootstrap, entry, bridge, operation, outputs, authority, client>>
\* providerTerminated: the provider says that the session is over.
ProviderTerminated ==
    /\ "provider" \in plan.active /\ tracked.state \in {"open", "provider_ended"} /\ ~tracked.terminal
    /\ tracked' = Terminating(tracked) /\ emitted' = Append(emitted, "session_ended")
    /\ UNCHANGED <<plan, bootstrap, entry, handler, bridge, operation, outputs, authority, client>>

------------------------------------------------
\* #handleToolCall, after its digest: one operation per call; a call whose
\* output was sent is over; beyond the limit a call is answered with a
\* failure and not remembered.
Tool(h) == plan.event[h].tool
HandleToolCall(h) ==
    LET c == Tool(h)
        starts == [tracked |-> [tracked EXCEPT !.calls = @ \cup {c}, !.running = @ \cup {c}], at |-> "execute"]
        leaves == [tracked |-> tracked, at |-> "done"]
    IN IF c \in tracked.calls
       THEN IF c \in tracked.sent \/ c \in tracked.running THEN leaves ELSE starts
       ELSE IF Cardinality(tracked.calls) >= MaxTrackedCalls THEN [tracked |-> tracked, at |-> "refuse"] ELSE starts
ToolCalled(h) ==
    /\ handler[h] = "call"
    /\ tracked' = HandleToolCall(h).tracked
    /\ handler' = [handler EXCEPT ![h] = HandleToolCall(h).at]
    /\ UNCHANGED <<plan, bootstrap, entry, bridge, operation, outputs, authority, emitted, client>>

\* #executeAndSendToolCall into the bridge: at the limit of concurrent tools
\* it is refused; the bridge looks the session up, and binds the call.
Executing == {h \in Handlers : handler[h] \in {"bind", "await"}}
Unremembered(h) == handler[h] = "refuse" /\ Tool(h) \notin tracked.calls
ExecuteToolCall(h) ==
    /\ handler[h] = "execute"
    /\ LET enters == bridge.state = "live" /\ (Tool(h) \in bridge.calls \/ Cardinality(bridge.calls) < MaxTrackedCalls) IN
       /\ handler' = [handler EXCEPT ![h] = IF Cardinality(Executing) >= MaxConcurrentTools THEN "refuse"
                                            ELSE IF enters THEN "bind" ELSE "answer"]
       /\ bridge' = IF enters /\ Cardinality(Executing) < MaxConcurrentTools
                    THEN [bridge EXCEPT !.calls = @ \cup {Tool(h)}] ELSE bridge
    /\ UNCHANGED <<plan, bootstrap, entry, tracked, operation, outputs, authority, emitted, client>>
\* Mutant: the session is not looked at again after the binding.
MayExecuteUnchecked == TRUE
\* ... and after the binding, if the session is still there, joins the
\* call's operation or starts it.
MayExecute == bridge.state = "live"
BindToolCall(h) ==
    /\ handler[h] = "bind"
    /\ IF MayExecute
       THEN /\ handler' = [handler EXCEPT ![h] = "await"]
            /\ operation' = [operation EXCEPT ![Tool(h)] = IF @.at = "running" THEN @ ELSE [at |-> "running"]]
       ELSE handler' = [handler EXCEPT ![h] = "answer"] /\ UNCHANGED operation
    /\ UNCHANGED <<plan, bootstrap, entry, tracked, bridge, outputs, authority, emitted, client>>
\* #executeOnce ends: with a result, an approval to wait for, or an error;
\* an aborted one ends as well.  Its callers go on.
OperationEnds(c) ==
    /\ operation[c].at = "running"
    /\ operation' = [operation EXCEPT ![c] = NoOperation]
    /\ handler' = [h \in Handlers |-> IF handler[h] = "await" /\ Tool(h) = c THEN "answer" ELSE handler[h]]
    /\ UNCHANGED <<plan, bootstrap, entry, tracked, bridge, outputs, authority, emitted, client>>
\* The output is sent unless the session's events were aborted.  The caller
\* may give up meanwhile: then it counts as not sent.
SendOutput(h) ==
    /\ handler[h] \in {"answer", "refuse"}
    /\ LET c == Tool(h)
           sends == handler[h] = "refuse" \/ ~tracked.aborted
       IN \E reaches, hears \in BOOLEAN :
            /\ hears => reaches
            /\ ~sends => ~reaches
            /\ "giveup" \notin plan.active => hears = sends
            /\ outputs' = [outputs EXCEPT ![c] = IF reaches THEN @ + 1 ELSE @]
            /\ tracked' = [tracked EXCEPT !.running = IF Unremembered(h) THEN @ ELSE @ \ {c},
                                          !.sent = IF hears THEN @ \cup {c} ELSE @]
    /\ handler' = [handler EXCEPT ![h] = "done"]
    /\ UNCHANGED <<plan, bootstrap, entry, bridge, operation, authority, emitted, client, client>>

------------------------------------------------
\* terminateSession: no tool starts any more, the running ones are aborted
\* and waited for, then the session is forgotten.
Terminated == [bridge EXCEPT !.state = IF @ = "live" THEN "terminal" ELSE @]
BridgeDone == bridge.state \notin {"live", "terminal"}
BridgeForgets ==
    /\ bridge.state = "terminal" /\ \A c \in Tools : operation[c].at = "none"
    /\ bridge' = [bridge EXCEPT !.state = "gone"]
    /\ UNCHANGED <<plan, bootstrap, entry, tracked, handler, operation, outputs, authority, emitted, client>>

\* hangup: aborts the session's events, then ends the tools, the provider's
\* session and cleans up; it is joined while it runs and final afterwards.
HangUp ==
    /\ "hangup" \in plan.active /\ tracked.state \notin {"none", "forgotten"} /\ authority.tries < MaxAttempts
    /\ authority.hangup = "idle" /\ ~authority.terminal
    /\ tracked' = [tracked EXCEPT !.aborted = TRUE]
    /\ authority' = [authority EXCEPT !.hangup = "bridge", !.tries = @ + 1]
    /\ bridge' = Terminated
    /\ UNCHANGED <<plan, bootstrap, entry, handler, operation, outputs, emitted, client>>
EndsAt(t) == IF t.state = "open" THEN [t EXCEPT !.state = "provider_ended"] ELSE t
HangupEndsProvider ==
    /\ authority.hangup = "bridge" /\ BridgeDone
    /\ \/ /\ tracked' = EndsAt(tracked)
          /\ authority' = [authority EXCEPT !.ended = TRUE, !.hangup = "cleanup",
                             !.cleanup = IF authority.cleaned \/ @ # "idle" THEN @ ELSE "bridge"]
       \/ /\ ~authority.ended /\ tracked.state = "open"
          /\ authority' = [authority EXCEPT !.hangup = "idle"]
          /\ UNCHANGED tracked
    /\ UNCHANGED <<plan, bootstrap, entry, handler, bridge, operation, outputs, emitted, client>>
HangupEnds ==
    /\ authority.hangup = "cleanup" /\ authority.cleanup \in {"idle", "failed"}
    /\ authority' = [authority EXCEPT !.hangup = "idle", !.terminal = authority.cleaned, !.cleanup = "idle"]
    /\ tracked' = IF authority.cleaned /\ tracked.state # "forgotten" THEN [tracked EXCEPT !.state = "ended"] ELSE tracked
    /\ UNCHANGED <<plan, bootstrap, entry, handler, bridge, operation, outputs, emitted, client>>
\* cleanup, by the host or a hangup: ends the tools, then lets the host
\* clean up, unless another path already did.
CleanUp ==
    /\ "cleanup" \in plan.active /\ authority.cleanup = "idle" /\ ~authority.cleaned /\ authority.tries < MaxAttempts
    /\ tracked.state \notin {"none", "forgotten"}
    /\ authority' = [authority EXCEPT !.cleanup = "bridge", !.tries = @ + 1]
    /\ bridge' = Terminated
    /\ UNCHANGED <<plan, bootstrap, entry, tracked, handler, operation, outputs, emitted, client>>
CleanUpReaches ==
    /\ authority.cleanup = "bridge" /\ BridgeDone
    /\ authority' = IF tracked.cleanup = "cleaned" THEN [authority EXCEPT !.cleanup = "idle", !.cleaned = TRUE]
                    ELSE [authority EXCEPT !.cleanup = "host", !.hosts = @ + 1]
    /\ UNCHANGED <<plan, bootstrap, entry, tracked, handler, bridge, operation, outputs, emitted, client>>
CleanUpReturns ==
    /\ authority.cleanup = "host"
    /\ \E ok \in BOOLEAN :
         /\ authority' = [authority EXCEPT !.hosts = @ - 1, !.cleaned = ok,
                            !.cleanup = IF ok \/ authority.hangup # "cleanup" THEN "idle" ELSE "failed"]
         /\ tracked' = IF ok THEN [tracked EXCEPT !.cleanup = "cleaned"] ELSE tracked
    /\ UNCHANGED <<plan, bootstrap, entry, handler, bridge, operation, outputs, emitted, client>>
\* #terminateFromProvider: the same, without asking the provider.
ProviderEnds ==
    /\ tracked.ending # "none"
    /\ \/ /\ tracked.ending = "bridge"
          /\ tracked' = [tracked EXCEPT !.ending = "wait"] /\ bridge' = Terminated /\ UNCHANGED authority
       \/ /\ tracked.ending = "wait" /\ BridgeDone /\ UNCHANGED bridge
          /\ IF tracked.cleanup = "cleaned"
             THEN tracked' = [tracked EXCEPT !.ending = "none", !.state = "ended"] /\ UNCHANGED authority
             ELSE tracked' = [tracked EXCEPT !.ending = "host"] /\ authority' = [authority EXCEPT !.hosts = @ + 1]
       \/ /\ tracked.ending = "host" /\ UNCHANGED bridge
          /\ authority' = [authority EXCEPT !.hosts = @ - 1]
          /\ \/ tracked' = [tracked EXCEPT !.ending = "none", !.cleanup = "cleaned", !.state = "ended"]
             \/ tracked' = [tracked EXCEPT !.ending = "none"]
    /\ UNCHANGED <<plan, bootstrap, entry, handler, operation, outputs, emitted, client>>

\* applyRealtimeVoiceSessionEvent, in the order of the sequence; an event
\* that does not fit the state is refused and leaves it alone.
TransitionPatch(c, kind) ==
    IF c.status \in {"ended", "failed"} THEN c
    ELSE CASE kind = "session_started" -> IF c.status = "ready" THEN [c EXCEPT !.status = "active"] ELSE c
           [] kind = "response_started" -> IF c.status = "active" /\ ~c.response THEN [c EXCEPT !.response = TRUE] ELSE c
           [] kind = "response_stopped" -> IF c.status = "active" /\ c.response THEN [c EXCEPT !.response = FALSE] ELSE c
           [] kind = "session_ended" -> [c EXCEPT !.status = "ended", !.response = FALSE]
           [] OTHER -> [c EXCEPT !.status = "failed", !.response = FALSE]
ClientApplies ==
    /\ "client" \in plan.active /\ client.applied < Len(emitted)
    /\ client' = [TransitionPatch(client, emitted[client.applied + 1]) EXCEPT !.applied = @ + 1]
    /\ UNCHANGED <<plan, bootstrap, entry, tracked, handler, bridge, operation, outputs, authority, emitted>>

SessionsNext ==
    \/ \E b \in Bootstraps : BootstrapAsks(b) \/ BootstrapReturns(b)
    \/ \E h \in Handlers : EventArrives(h) \/ EventHandled(h) \/ ToolCalled(h) \/ ExecuteToolCall(h) \/ BindToolCall(h) \/ SendOutput(h)
    \/ \E c \in Tools : OperationEnds(c)
    \/ MakeRoom \/ ProviderTerminated \/ BridgeForgets \/ HangUp \/ HangupEndsProvider \/ HangupEnds
    \/ ClientApplies \/ CleanUp \/ CleanUpReaches \/ CleanUpReturns \/ ProviderEnds

------------------------------------------------
\* While the host cleans a session up, and ever after, no tool of it runs: a
\* call that was being bound when the session ended included ("Optional
\* trusted-server bridge terminated before provider cleanup begins").
ToolsEndBeforeCleanup ==
    authority.hosts > 0 \/ tracked.cleanup = "cleaned" => \A c \in Tools : operation[c].at = "none"

\* The output of a remembered tool call reaches the provider once, however
\* often the provider repeats the call in new events, as long as no caller
\* gives up while it is being sent.
OutputOnce == "giveup" \notin plan.active => \A c \in tracked.calls : outputs[c] <= 1

\* A client that has applied every event of a running session agrees with
\* the server about it: what the server announces always fits the client's
\* state, in whatever order the provider's events were handled.
ClientAgrees ==
    client.applied = Len(emitted) /\ ~tracked.terminal =>
        client.status = (IF tracked.started THEN "active" ELSE "ready") /\ client.response = tracked.response

\* What a session's tools and events come to: all of it, in every state.
ToolsSettleInCall == ToolsEndBeforeCleanup /\ OutputOnce /\ ClientAgrees
================================================
