---------------- MODULE RemoteTurn ----------------
(***************************************************************************)
(* One turn watched over two networks: the managed runtime (external) is   *)
(* read by ManagedRuntimeTransport on an application server (transports/   *)
(* managed-runtime.ts, managed-runtime-state.ts), whose observation the    *)
(* application gateway streams to the gateway transport of a client        *)
(* (transports/application-gateway.ts, transports/sse.ts).                 *)
(*                                                                         *)
(* The client holds one connection at a time.  Any of the two connections  *)
(* may break at any point, the server process may crash, and the client    *)
(* starts again while it knows no turn and resumes after its last applied  *)
(* event otherwise, through any process.  An event stands for its sequence *)
(* number plus one, no checkpoint is 0, and the runtime replays the events *)
(* of an idempotency key from the first.                                   *)
(***************************************************************************)
EXTENDS Naturals, Sequences, FiniteSets

CONSTANTS
    Processes,       \* application server processes
    MaxEvents,       \* bound: events of the turn
    MaxConnections   \* bound: connections of the client

VARIABLES
    upstream,    \* external: the events of the idempotency key so far, and how they ended
    retained,    \* the processes whose #turns holds the turn
    store,       \* the turn state store: "none" (not configured), "empty", "saved"
    link,        \* the connection under way, server side and wire
    client       \* the gateway transport and what its caller applied

remoteVars == <<upstream, retained, store, link, client>>

Ends == {"completed", "cancelled", "failed"}
NoLink == [phase |-> "none"]
NewLink(kind, p, suppress) ==
    [phase |-> "requested", kind |-> kind, process |-> p, suppress |-> suppress, taken |-> 0,
     buffer |-> <<>>, outcome |-> "open", last |-> suppress, wire |-> <<>>]

(***************************************************************************)
(* The client.                                                             *)
(***************************************************************************)
MayConnect == link = NoLink /\ client.connections < MaxConnections

Waits == client' = [client EXCEPT !.phase = "waiting", !.connections = @ + 1, !.seen = 0]

StartTurn(p) ==
    /\ MayConnect /\ client.phase = "idle"
    /\ link' = NewLink("start", p, 0) /\ Waits
    /\ UNCHANGED <<upstream, retained, store>>

\* The caller resumes from what it has applied.
ResumeTurn(p) ==
    /\ MayConnect /\ client.phase = "disconnected"
    /\ link' = NewLink("resume", p, Len(client.applied)) /\ Waits
    /\ UNCHANGED <<upstream, retained, store>>

\* An error answer or an unreachable gateway: nothing is known of the turn yet
\* when this was a start.
Refused ==
    /\ link' = NoLink
    /\ client' = [client EXCEPT !.phase = IF link.kind = "start" THEN "idle" ELSE "disconnected"]

\* The response headers carry the turn's identity.
ClientOpens ==
    /\ link.phase \in {"piping", "over"} /\ client.phase = "waiting"
    /\ client' = [client EXCEPT !.phase = "reading"]
    /\ UNCHANGED <<upstream, retained, store, link>>

\* parseServerSentEvents: whole frames, in the order they were written; what is
\* left of a broken stream is no frame.
Framed(wire) == Head(wire)

\* readGatewayStream: an event, or the terminal message with the result.
ClientReads ==
    /\ client.phase = "reading" /\ link.wire # <<>>
    /\ LET m == Framed(link.wire) IN
       IF m.type = "event"
       THEN /\ client' = [client EXCEPT !.applied = Append(@, m.number), !.seen = m.number]
            /\ link' = [link EXCEPT !.wire = Tail(@)]
       ELSE /\ client' = [client EXCEPT !.phase = IF m.result \in Ends THEN "done" ELSE "disconnected",
                                        !.result = m.result, !.seen = m.checkpoint]
            /\ link' = NoLink
    /\ UNCHANGED <<upstream, retained, store>>

\* The connection to the gateway breaks or the client leaves it: the result is
\* disconnected with the last checkpoint of this connection, and the gateway
\* disconnects the observation.
Disconnect ==
    /\ link # NoLink
    /\ IF client.phase = "waiting" THEN Refused
       ELSE /\ client' = [client EXCEPT !.phase = "disconnected", !.result = "disconnected"]
            /\ link' = NoLink
    /\ UNCHANGED <<upstream, retained, store>>

(***************************************************************************)
(* The managed runtime transport.                                          *)
(***************************************************************************)
\* resumeTurn: the identity is in memory or loaded from the store.
Knows(p) == p \in retained \/ store = "saved"

OpenStream ==
    /\ link.phase = "requested" /\ (link.kind = "resume" => Knows(link.process))
    /\ upstream' = IF upstream.events = 0 THEN [upstream EXCEPT !.events = 1] ELSE upstream
    /\ link' = [link EXCEPT !.phase = IF link.kind = "start" THEN "saving" ELSE "piping",
                            !.taken = 1, !.buffer = IF 1 > link.suppress THEN <<1>> ELSE <<>>]
    /\ retained' = IF link.kind = "resume" THEN retained \cup {link.process} ELSE retained
    /\ UNCHANGED <<store, client>>

\* An unknown turn, a problem answer, a timeout, a malformed first event or a
\* store that is down; the runtime may have started all the same.
OpenFails ==
    /\ link.phase \in {"requested", "saving"}
    /\ \/ UNCHANGED upstream
       \/ upstream.events = 0 /\ upstream' = [upstream EXCEPT !.events = 1]
    /\ Refused
    /\ UNCHANGED <<retained, store>>

\* save of the turn state store: idempotent on the same record.
Saved(configured) == IF configured = "none" THEN "none" ELSE "saved"

SaveTurnState ==
    /\ link.phase = "saving"
    /\ store' = Saved(store)
    /\ retained' = retained \cup {link.process}
    /\ link' = [link EXCEPT !.phase = "piping"]
    /\ UNCHANGED <<upstream, client>>

\* Mutant: the event at the checkpoint is delivered again.
BeyondOrAt(n, suppress) == n >= suppress

Beyond(n, suppress) == n > suppress

Pushed(buffer, n) == IF Beyond(n, link.suppress) THEN Append(buffer, n) ELSE buffer

Piping == link.phase = "piping" /\ link.outcome = "open"

\* pumpStream: a frame the validator accepts; the terminal one waits.
Accept ==
    /\ Piping /\ link.taken < upstream.events
    /\ LET n == link.taken + 1 IN
       link' = [link EXCEPT !.taken = n,
                            !.buffer = IF n = upstream.events /\ upstream.result \in Ends THEN @ ELSE Pushed(@, n)]
    /\ UNCHANGED <<upstream, retained, store, client>>

\* The stream is read to its end: the usage receipt is made, the terminal
\* event pushed and the observation closed with its result.
FinishStream ==
    /\ Piping /\ upstream.result \in Ends /\ link.taken = upstream.events
    /\ link' = [link EXCEPT !.buffer = Pushed(@, link.taken), !.outcome = upstream.result]
    /\ UNCHANGED <<upstream, retained, store, client>>

\* The runtime's stream ends early (disconnected), or times out, breaks the
\* protocol or fails to get its receipt identity (an error).
BreakStream ==
    /\ Piping
    /\ \E outcome \in {"disconnected", "error"} : link' = [link EXCEPT !.outcome = outcome]
    /\ UNCHANGED <<upstream, retained, store, client>>

(***************************************************************************)
(* The gateway's event stream.                                             *)
(***************************************************************************)
SendEvent ==
    /\ link.phase = "piping" /\ link.buffer # <<>>
    /\ link' = [link EXCEPT !.buffer = Tail(@), !.last = Head(link.buffer),
                            !.wire = Append(@, [type |-> "event", number |-> Head(link.buffer)])]
    /\ UNCHANGED <<upstream, retained, store, client>>

SettledIfDrained == link.buffer = <<>> /\ link.outcome # "open"

SendTerminal ==
    /\ link.phase = "piping" /\ SettledIfDrained
    /\ link' = [link EXCEPT !.phase = "over", !.wire = Append(@,
           [type |-> "terminal", result |-> link.outcome, checkpoint |-> link.last])]
    /\ UNCHANGED <<upstream, retained, store, client>>

(***************************************************************************)
(* The environment.                                                        *)
(***************************************************************************)
Produce ==
    /\ upstream.events \in 1..(MaxEvents - 1) /\ upstream.result = "running"
    /\ \E result \in Ends \cup {"running"} :
           upstream' = [events |-> upstream.events + 1, result |-> result]
    /\ UNCHANGED <<retained, store, link, client>>

Crash(p) ==
    /\ p \in retained \/ (link # NoLink /\ link.process = p)
    /\ retained' = retained \ {p}
    /\ IF link # NoLink /\ link.process = p
       THEN IF client.phase = "waiting" THEN Refused
            ELSE link' = NoLink /\ client' = [client EXCEPT !.phase = "disconnected", !.result = "disconnected"]
       ELSE UNCHANGED <<link, client>>
    /\ UNCHANGED <<upstream, store>>

RemoteInit ==
    /\ upstream = [events |-> 0, result |-> "running"]
    /\ retained = {} /\ store \in {"none", "empty"} /\ link = NoLink
    /\ client = [phase |-> "idle", applied |-> <<>>, seen |-> 0, result |-> "none", connections |-> 0]

RemoteNext ==
    \/ \E p \in Processes : StartTurn(p) \/ ResumeTurn(p) \/ Crash(p)
    \/ ClientOpens \/ ClientReads \/ Disconnect
    \/ OpenStream \/ OpenFails \/ SaveTurnState \/ Accept \/ FinishStream \/ BreakStream
    \/ SendEvent \/ SendTerminal \/ Produce

(***************************************************************************)
(* Properties.                                                             *)
(***************************************************************************)

\* Through every break, crash and resumption the client applies the events of
\* the turn once each and in order; a final result reaches it only after every
\* event did and is the one the runtime ended with; and a result's checkpoint
\* never runs ahead of what was applied, which the conversation runtime would
\* refuse (pumpStream, ManagedObservation, sse, readGatewayStream).
ObservedExactly ==
    /\ \A i \in DOMAIN client.applied : client.applied[i] = i
    /\ client.phase = "done" =>
           client.result = upstream.result /\ Len(client.applied) = upstream.events
    /\ client.seen <= Len(client.applied)
================================================
