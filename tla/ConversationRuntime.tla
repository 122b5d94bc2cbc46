---------------- MODULE ConversationRuntime ----------------
(***************************************************************************)
(* createConversationRuntime of runtime.ts: several runtimes share one     *)
(* durable event log (ConversationEventStore, appended to by compare-and-  *)
(* swap on the revision) and one remote transport.  Each runtime keeps a   *)
(* snapshot of the log, the metadata it remembered from it, one driver per *)
(* turn (runTurnWithRetry around observeTransport), one cancellation per   *)
(* turn (cancelTurn) and a mutation boundary that serialises its appends.  *)
(*                                                                         *)
(* An append is one step: drafts are generated from the snapshot under the *)
(* boundary, so only the store's compare-and-swap can fail them.           *)
(***************************************************************************)
EXTENDS ConversationReducer

CONSTANTS
    Script,             \* the nonterminal frames the remote turn streams
    Outcomes,           \* the ways a remote turn may end by itself
    MaximumAttempts,    \* RetryPolicy.maximumAttempts
    RevisionRetries,    \* MAX_RUNTIME_APPEND_REVISION_RETRIES
    ProviderContext,    \* options.providerContext.capability.supported
    Cancellation,       \* capabilities.authoritativeCancellation.supported
    UsageReceipts,      \* whether observation results carry a usage receipt
    Calls,              \* the caller's optional operations a run explores
    Faults,             \* the faults a run explores
    MaxFaults,          \* bound: faults in a behaviour
    MaxResumes          \* bound: resumeTurn and stopObserving calls in a behaviour

FrameKinds == {"started", "text", "empty", "tool", "usage"}
AllCalls   == {"continue", "resume", "stop", "cancel", "synchronize"}
AllFaults  == {"unavailable", "lostAck", "startRejected", "invalidHandle", "resumeRejected",
               "disconnect", "observationFailed", "resultConflict", "badCheckpoint",
               "cancelRejected", "crash"}

ASSUME ScriptAssumption ==
    /\ Script \in Seq(FrameKinds)
    /\ Len(Script) > 0 /\ Script[1] = "started"
    /\ \A i \in 2..Len(Script) : Script[i] # "started"
ASSUME ConstantsAssumption ==
    /\ None \notin Turns /\ None \notin MessageIds
    /\ Outcomes \subseteq {"completed", "toolCalls", "error"} /\ Outcomes # {}
    /\ MaximumAttempts \in Nat \ {0} /\ RevisionRetries \in Nat
    /\ {ProviderContext, Cancellation, UsageReceipts} \subseteq BOOLEAN
    /\ Calls \subseteq AllCalls /\ Faults \subseteq AllFaults
    /\ MaxFaults \in Nat /\ MaxResumes \in Nat

VARIABLES
    log,        \* the durable log: each event with the projection it leads to
    rev,        \* rev[r]: revision of r's snapshot
    meta,       \* meta[r]: revision up to which r remembered runtime metadata
    proto,      \* proto[r][t]: r's TurnProtocolState
    drv,        \* drv[r][t]: the turn operation r runs for t, with its FrameState
    can,        \* can[r][t]: r's cancellation operation for t
    lock,       \* lock[r]: the holder of r's mutation boundary, and its conflicts
    stopped,    \* stopped[r]: locallyStoppedTurns
    asked,      \* asked[r]: cancellationRequestedTurns
    life,       \* life[r]: whether r is up, down or hydrating
    remote,     \* remote[t]: the turn as the remote transport runs it
    spent       \* how much of the bounds the behaviour has used

vars == <<log, rev, meta, proto, drv, can, lock, stopped, asked, life, remote, spent>>

Protocol == [transportId : BOOLEAN, request : BOOLEAN, safe : Sequence, checkpoint : Nat]
Pc == {"off", "admit", "admitting", "attempt", "call", "inflight", "queue", "stream",
       "frame", "usage", "settle", "checkpoint", "terminal", "scheduled", "exhausted", "fail"}
Driver == [pc : Pc, mode : {"start", "resume"}, attempt : Nat, pos : Nat, expected : Nat,
           message : MessageIds \cup {None}, unsafe : BOOLEAN, continues : Turns \cup {None},
           terminal : {"none", "completed", "toolCalls", "cancelled", "error"},
           failed : {"none", "protocol", "local"}, disconnected : BOOLEAN, aborted : BOOLEAN,
           result : {"none", "completed", "cancelled", "failed", "disconnected"},
           retryable : BOOLEAN, phase : {"start", "observation"}]
\* A cancellation that is "over" reported remoteMayStillBeRunning: false.
CancelPc == {"off", "preflight", "unsupported", "request", "wait", "send", "done", "over"}
Boundary == [op : {"free", "turn", "cancel"}, turn : Turns \cup {None}, conflicts : Nat]
Remote   == [started : BOOLEAN, produced : Nat, cancel : BOOLEAN,
             end : {"none", "completed", "toolCalls", "cancelled", "error"}]

\* One invariant of shape: every variable holds a value of its type.
TypeOK ==
    /\ log \in Seq([ev : Event, st : State])
    /\ rev \in [Runtimes -> Nat] /\ meta \in [Runtimes -> Nat]
    /\ proto \in [Runtimes -> [Turns -> Protocol]]
    /\ drv \in [Runtimes -> [Turns -> Driver]]
    /\ can \in [Runtimes -> [Turns -> CancelPc]]
    /\ lock \in [Runtimes -> Boundary]
    /\ stopped \in [Runtimes -> SUBSET Turns] /\ asked \in [Runtimes -> SUBSET Turns]
    /\ life \in [Runtimes -> {"up", "down", "replayed"}]
    /\ remote \in [Turns -> Remote]
    /\ spent \in [faults : Nat, resumes : Nat]

------------------------------------------------
\* The durable log and what each runtime knows of it.

Latest      == IF log = <<>> THEN InitialState ELSE log[Len(log)].st
Snapshot(r) == IF rev[r] = 0 THEN InitialState ELSE log[rev[r]].st

\* durableFrameKeys.has(frameKey(...))
KnownFrame(r, t, s) ==
    \E i \in 1..meta[r] : log[i].ev.turn = t /\ log[i].ev.seq = s

\* ConversationEventStore.append of a batch of at most two events.
Extended(drafts) ==
    LET first  == [ev |-> drafts[1], st |-> Reduce(Latest, drafts[1])]
        second == [ev |-> drafts[2], st |-> Reduce(first.st, drafts[2])]
    IN  CASE Len(drafts) = 1 -> Append(log, first)
          [] Len(drafts) = 2 -> Append(Append(log, first), second)
          [] OTHER           -> log

\* The largest member of S, or `otherwise` when S has none.
Highest(S, otherwise) ==
    IF \E x \in S : \A y \in S : y <= x THEN CHOOSE x \in S : \A y \in S : y <= x
    ELSE otherwise

NewProtocol == [transportId |-> FALSE, request |-> FALSE, safe |-> NoFrame, checkpoint |-> 0]

\* rememberRuntimeMetadata for the events of t at revisions from + 1 .. to.
Remember(p, t, entries, from, to) ==
    LET new   == {i \in (from + 1)..to : entries[i].ev.turn = t}
        safe  == {entries[i].ev.seq : i \in {j \in new : entries[j].ev.resumeSafe}}
        marks == {i \in new : entries[i].ev.checkpoint > 0}
    IN  [transportId |-> p.transportId \/ \E i \in new : entries[i].ev.transportId,
         request     |-> p.request \/ \E i \in new : entries[i].ev.seq # NoFrame,
         safe        |-> Highest({p.safe} \cup safe, p.safe),
         checkpoint  |-> IF Highest(marks, 0) = 0 THEN p.checkpoint
                         ELSE entries[Highest(marks, 0)].ev.checkpoint]

\* Mutant: a turn that the transport does not know yet counts as over.
InspectOnce(r, t, state) == IF proto[r][t].transportId THEN "send" ELSE "over"
\* waitForTransportTurnId: applyEvents notifies its subscribers before the
\* runtime remembers the metadata of the events it applied, so a waiting
\* cancellation is woken with the transport id known until then.
Inspect(r, t, state) ==
    IF proto[r][t].transportId THEN "send"
    ELSE IF ~IsOpenTurn(state, t) THEN "over" ELSE "wait"

\* store.notify
Notified(r, state) ==
    [t \in Turns |-> IF can[r][t] = "wait" THEN Inspect(r, t, state) ELSE can[r][t]]

\* store.applyEvents up to the end of `entries`, and what r remembers of the
\* events that its step applied.
Apply(r, entries) ==
    /\ rev'  = [rev EXCEPT ![r] = Len(entries)]
    /\ meta' = [meta EXCEPT ![r] = Len(entries)]
Remembered(r, t) == Remember(proto[r][t], t, log', rev[r], rev'[r])
RememberApplied(r) == proto' = [proto EXCEPT ![r] = [t \in Turns |-> Remembered(r, t)]]
Wake(r) == can' = IF rev'[r] = rev[r] THEN can
                  ELSE [can EXCEPT ![r] = Notified(r, Snapshot(r)')]

Stay == UNCHANGED <<rev, meta>>

------------------------------------------------
\* persistGenerated: one holder of the mutation boundary at a time.

FreeBoundary  == [op |-> "free", turn |-> None, conflicts |-> 0]
MayPersist(r, op, t) ==
    lock[r] = FreeBoundary \/ (lock[r].op = op /\ lock[r].turn = t)
Holds(r, op, t) == lock[r].op = op /\ lock[r].turn = t
Release(r) == lock' = [lock EXCEPT ![r] = FreeBoundary]

\* assertRebasedDraftsRemainCompatible, applied only after a conflict.
Compatible(r, drafts) ==
    lock[r].conflicts = 0 \/
    \A i \in 1..Len(drafts) :
        \/ drafts[i].kind \in {"turn.started", "message.created"}
        \/ /\ IsOpenTurn(Snapshot(r), drafts[i].turn)
           /\ Snapshot(r).active = drafts[i].turn

\* The append succeeds, or there was nothing to append.
Stored(r, op, t, drafts) ==
    /\ MayPersist(r, op, t) /\ Release(r)
    /\ \/ drafts = <<>> /\ log' = log /\ Stay
       \/ /\ drafts # <<>> /\ Compatible(r, drafts) /\ rev[r] = Len(log)
          /\ log' = Extended(drafts)
          /\ Apply(r, log')

\* A revision conflict within the retry ceiling: catchUpRuntimeStore, and again.
Rebased(r, op, t, drafts) ==
    /\ MayPersist(r, op, t)
    /\ drafts # <<>> /\ Compatible(r, drafts)
    /\ rev[r] # Len(log) /\ lock[r].conflicts < RevisionRetries
    /\ lock' = [lock EXCEPT ![r] = [op |-> op, turn |-> t, conflicts |-> @.conflicts + 1]]
    /\ log' = log /\ Apply(r, log) /\ UNCHANGED spent

Spend(fault) ==
    /\ fault \in Faults /\ spent.faults < MaxFaults
    /\ spent' = [spent EXCEPT !.faults = @ + 1]

\* persistGenerated throws: the rebased drafts are incompatible, the ceiling
\* is reached, the store is unavailable, or it stored the batch and the
\* acknowledgement was lost.
Thrown(r, op, t, drafts) ==
    /\ MayPersist(r, op, t) /\ Release(r) /\ drafts # <<>> /\ Stay
    /\ \/ ~Compatible(r, drafts) /\ UNCHANGED <<log, spent>>
       \/ /\ Compatible(r, drafts) /\ rev[r] # Len(log)
          /\ lock[r].conflicts >= RevisionRetries /\ UNCHANGED <<log, spent>>
       \/ Compatible(r, drafts) /\ Spend("unavailable") /\ log' = log
       \/ /\ Compatible(r, drafts) /\ rev[r] = Len(log)
          /\ Spend("lostAck") /\ log' = Extended(drafts)

------------------------------------------------
\* The turn driver.

Idle == [pc |-> "off", mode |-> "start", attempt |-> 1, pos |-> 0, expected |-> 0,
         message |-> None, unsafe |-> FALSE, continues |-> None, terminal |-> "none",
         failed |-> "none", disconnected |-> FALSE, aborted |-> FALSE, result |-> "none",
         retryable |-> FALSE, phase |-> "observation"]

Drive(r, t, d) == drv' = [drv EXCEPT ![r][t] = d]
At(r, t, pc)   == life[r] = "up" /\ drv[r][t].pc = pc
Running(r, t)  == drv[r][t].pc \notin {"off", "admit", "admitting"}
Observing(r, t) == drv[r][t].pc \in {"stream", "frame", "usage", "settle",
                                     "checkpoint", "terminal"}

\* turnAdmissionPending
AdmissionPending(r) == \E t \in Turns : drv[r][t].pc \in {"admit", "admitting"}
FreshTurn(t) ==
    /\ Latest.status[t] = "absent"
    /\ \A r \in Runtimes : drv[r][t].pc = "off"

RebaseTurn(r, t, drafts) ==
    Rebased(r, "turn", t, drafts) /\ RememberApplied(r) /\ Wake(r) /\ UNCHANGED drv
ThrowTurn(r, t, drafts, err) ==
    Thrown(r, "turn", t, drafts) /\ Drive(r, t, err) /\ UNCHANGED <<proto, can>>

\* The persistence of one driver step: `ok` and `err` are what the driver
\* does next.
PersistTurn(r, t, drafts, ok, err) ==
    \/ /\ Stored(r, "turn", t, drafts) /\ RememberApplied(r) /\ Wake(r)
       /\ Drive(r, t, ok) /\ UNCHANGED spent
    \/ RebaseTurn(r, t, drafts)
    \/ ThrowTurn(r, t, drafts, err)

Done(d) == [Idle EXCEPT !.mode = d.mode]

\* sendMessage and continueTurn up to persistAdmittedTurn's await.
BeginAdmission(r, t, continues) ==
    /\ life[r] = "up" /\ FreshTurn(t)
    /\ ~AdmissionPending(r) /\ Snapshot(r).active = None
    /\ Drive(r, t, [Idle EXCEPT !.pc = "admit", !.continues = continues])
    /\ UNCHANGED <<log, rev, meta, proto, can, lock, stopped, asked, life, remote, spent>>

SendMessage(r, t) == BeginAdmission(r, t, None)

ContinueTurn(r, t, preceding) ==
    /\ "continue" \in Calls
    /\ preceding \in Snapshot(r).toolCalls
    /\ \A u \in Turns : Snapshot(r).continues[u] # preceding
    /\ BeginAdmission(r, t, preceding)

\* beforeGenerate of persistAdmittedTurn, under the boundary.
AdmissionCatchUp(r, t) ==
    /\ At(r, t, "admit") /\ MayPersist(r, "turn", t)
    /\ lock' = [lock EXCEPT ![r] = [op |-> "turn", turn |-> t, conflicts |-> 0]]
    /\ Apply(r, log) /\ log' = log /\ RememberApplied(r) /\ Wake(r)
    /\ Drive(r, t, [drv[r][t] EXCEPT !.pc = "admitting"])
    /\ UNCHANGED <<stopped, asked, life, remote, spent>>

AdmissionDrafts(r, t) ==
    LET d     == drv[r][t]
        start == [NewEvent("turn.started", t) EXCEPT !.continues = d.continues]
    IN  IF d.continues = None THEN <<NewEvent("message.created", t), start>> ELSE <<start>>

\* Mutant: the generator does not look at the active turn again.
AdmitUnchecked(r, t) ==
    /\ At(r, t, "admitting")
    /\ PersistTurn(r, t, AdmissionDrafts(r, t),
                   [drv[r][t] EXCEPT !.pc = "attempt"], Done(drv[r][t]))
    /\ UNCHANGED <<stopped, asked, life, remote>>
\* Mutant: a failed admission goes on to the transport.
AdmitRegardless(r, t) ==
    /\ At(r, t, "admitting") /\ Snapshot(r).active = None
    /\ PersistTurn(r, t, AdmissionDrafts(r, t),
                   [drv[r][t] EXCEPT !.pc = "attempt"], [drv[r][t] EXCEPT !.pc = "attempt"])
    /\ UNCHANGED <<stopped, asked, life, remote>>
\* persistGenerated with persistAdmittedTurn's generator.
AdmitTurn(r, t) ==
    /\ At(r, t, "admitting") /\ Snapshot(r).active = None
    /\ PersistTurn(r, t, AdmissionDrafts(r, t),
                   [drv[r][t] EXCEPT !.pc = "attempt"], Done(drv[r][t]))
    /\ UNCHANGED <<stopped, asked, life, remote>>

\* ConversationRuntimeBusyError from the generator.
AdmissionBusy(r, t) ==
    /\ At(r, t, "admitting") /\ MayPersist(r, "turn", t) /\ Snapshot(r).active # None
    /\ Release(r) /\ Drive(r, t, Done(drv[r][t]))
    /\ UNCHANGED <<log, rev, meta, proto, can, stopped, asked, life, remote, spent>>

\* executeWithRetry: throwIfAborted, then onAttemptStarted.
StartAttempt(r, t) ==
    /\ At(r, t, "attempt") /\ (~drv[r][t].aborted \/ Holds(r, "turn", t))
    /\ PersistTurn(r, t, <<NewEvent("turn.attempt_started", t)>>,
                   [drv[r][t] EXCEPT !.pc = "call"], Done(drv[r][t]))
    /\ UNCHANGED <<stopped, asked, life, remote>>

LocalStep == UNCHANGED <<log, rev, meta, can, lock, stopped, asked, life>>

\* throwIfAborted before an attempt and before its transport call.
Abort(r, t) ==
    /\ At(r, t, "attempt") \/ At(r, t, "call")
    /\ drv[r][t].aborted /\ ~Holds(r, "turn", t)
    /\ Drive(r, t, Done(drv[r][t]))
    /\ LocalStep /\ UNCHANGED <<proto, remote, spent>>

\* What executeWithRetry does with a failed attempt.
AfterFailure(d, retryable, phase) ==
    LET f == [d EXCEPT !.phase = phase, !.retryable = retryable]
    IN  IF ~retryable THEN {IF phase = "start" THEN [f EXCEPT !.pc = "fail"] ELSE Done(d)}
        ELSE IF d.attempt >= MaximumAttempts THEN {[f EXCEPT !.pc = "exhausted"]}
        ELSE {[f EXCEPT !.pc = "scheduled"], [f EXCEPT !.pc = "exhausted"]}

StartsRemotely(r, t) == drv[r][t].mode = "start" /\ ~proto[r][t].transportId

\* transport.startTurn is in flight after throwIfRuntimeAborted.
StartCall(r, t) ==
    /\ At(r, t, "call") /\ StartsRemotely(r, t) /\ ~drv[r][t].aborted
    /\ Drive(r, t, [drv[r][t] EXCEPT !.pc = "inflight"])
    /\ LocalStep /\ UNCHANGED <<proto, remote, spent>>

RunRemotely(t) == remote' = [remote EXCEPT ![t].started = TRUE]

StartReply(r, t) ==
    /\ At(r, t, "inflight")
    /\ RunRemotely(t)
    /\ proto' = [proto EXCEPT ![r][t].transportId = TRUE]
    /\ Drive(r, t, [drv[r][t] EXCEPT !.pc = "queue"])
    /\ LocalStep /\ UNCHANGED spent

\* startTurn fails, perhaps after the remote accepted the turn.
StartRejected(r, t) ==
    /\ At(r, t, "inflight") /\ Spend("startRejected")
    /\ \E d \in AfterFailure(drv[r][t], TRUE, "start") \cup
                AfterFailure(drv[r][t], FALSE, "start") : Drive(r, t, d)
    /\ RunRemotely(t) \/ UNCHANGED remote
    /\ LocalStep /\ UNCHANGED proto

\* invalid_transport_handle: the attempt itself persists turn.failed.
InvalidHandle(r, t) ==
    /\ At(r, t, "inflight") /\ Spend("invalidHandle")
    /\ Drive(r, t, [drv[r][t] EXCEPT !.pc = "fail"])
    /\ LocalStep /\ UNCHANGED <<proto, remote>>

FailTurn(r, t) ==
    /\ At(r, t, "fail")
    /\ PersistTurn(r, t, <<NewEvent("turn.failed", t)>>, Done(drv[r][t]), Done(drv[r][t]))
    /\ UNCHANGED <<stopped, asked, life, remote>>

\* streamedAssistantMessageId, and whether it throws.
StreamedMessages(state, t) == state.messages[t]
StreamedMessage(state, t, otherwise) ==
    IF StreamedMessages(state, t) = {} THEN otherwise
    ELSE CHOOSE m \in StreamedMessages(state, t) : TRUE
ManyMessages(state, t) == \E m, n \in StreamedMessages(state, t) : m # n

\* Mutant: the observation expects the last safe frame again.
ObserveFromSafe(d, protocol, state, t, pos) ==
    IF ManyMessages(state, t) THEN Done(d)
    ELSE [d EXCEPT !.pc = "stream", !.pos = pos, !.expected = protocol.safe,
                   !.message = StreamedMessage(state, t, None), !.unsafe = FALSE]
\* observeTransport up to its frame loop, on a stream that starts at `pos`.
Observe(d, protocol, state, t, pos) ==
    IF ManyMessages(state, t) THEN Done(d)
    ELSE [d EXCEPT !.pc = "stream", !.pos = pos, !.expected = protocol.safe + 1,
                   !.message = StreamedMessage(state, t, None), !.unsafe = FALSE,
                   !.terminal = "none", !.failed = "none", !.disconnected = FALSE,
                   !.result = "none"]

\* The durable transport identity, unless the turn is already terminal.
QueueTurn(r, t) ==
    LET drafts == IF IsTerminalTurn(Snapshot(r), t) THEN <<>>
                  ELSE <<[NewEvent("turn.status_changed", t) EXCEPT !.transportId = TRUE]>>
    IN  /\ At(r, t, "queue")
        /\ PersistTurn(r, t, drafts, Observe(drv[r][t], proto'[r][t], Snapshot(r)', t, 0),
                       Done(drv[r][t]))
        /\ UNCHANGED <<stopped, asked, life, remote>>

ResumeCall(r, t) ==
    /\ At(r, t, "call") /\ ~StartsRemotely(r, t) /\ ~drv[r][t].aborted
    /\ Drive(r, t, Observe(drv[r][t], proto[r][t], Snapshot(r), t,
                           proto[r][t].checkpoint))
    /\ LocalStep /\ UNCHANGED <<proto, remote, spent>>

ResumeRejected(r, t) ==
    /\ At(r, t, "call") /\ ~StartsRemotely(r, t) /\ ~drv[r][t].aborted
    /\ Spend("resumeRejected")
    /\ \E d \in AfterFailure(drv[r][t], TRUE, "observation") \cup
                AfterFailure(drv[r][t], FALSE, "observation") : Drive(r, t, d)
    /\ LocalStep /\ UNCHANGED <<proto, remote>>

------------------------------------------------
\* The frame loop of observeTransport.

\* What the remote streams at sequence s: it produces frames as they are
\* first observed, and its terminal frame follows the last one produced.
Available(t, s) ==
    \/ s < remote[t].produced
    \/ s = remote[t].produced /\ (remote[t].end # "none" \/ s < Len(Script))
FrameAt(t, s) ==
    IF s = remote[t].produced /\ remote[t].end # "none" THEN remote[t].end ELSE Script[s + 1]
Produce(t, s) ==
    remote' = IF s = remote[t].produced /\ remote[t].end = "none"
              THEN [remote EXCEPT ![t].produced = s + 1] ELSE remote

\* Mutant: a failed append of a frame does not end the observation.
SwallowInterrupt(d, why) == [d EXCEPT !.pc = "stream"]
\* The loop's catch clause; the observation it closes ends as disconnected.
Interrupt(d, why) == [d EXCEPT !.failed = why, !.pc = "settle", !.result = "disconnected"]

\* acceptFrame
Accepts(d, protocol, s, known, kind) ==
    /\ s = d.expected /\ ~known /\ d.terminal = "none"
    /\ protocol.request \/ (kind = "started" /\ s = 0)
Duplicates(d, s, known) ==
    known /\ (s < d.expected \/ (s = d.expected /\ d.terminal = "none"))

\* acceptFrame, then draftsForNonterminalFrame for the frames without drafts.
Received(d, protocol, s, known, kind) ==
    LET next == [d EXCEPT !.pos = s + 1]
    IN  CASE Accepts(d, protocol, s, known, kind) ->
               IF kind \in {"completed", "toolCalls", "cancelled", "error"}
               THEN [next EXCEPT !.expected = s + 1, !.terminal = kind]
               ELSE IF kind \in {"usage", "empty"}
               THEN [next EXCEPT !.expected = s + 1, !.unsafe = @ \/ kind = "usage"]
               ELSE [next EXCEPT !.expected = s + 1, !.pc = "frame"]
          [] Duplicates(d, s, known) ->
               IF s < d.expected THEN next ELSE [next EXCEPT !.expected = s + 1]
          [] OTHER -> Interrupt(next, "protocol")

ReceiveFrame(r, t) ==
    LET d     == drv[r][t]
        kind  == FrameAt(t, d.pos)
        known == KnownFrame(r, t, d.pos)
    IN  /\ At(r, t, "stream") /\ ~d.disconnected
        /\ Available(t, d.pos) /\ Produce(t, d.pos)
        /\ Drive(r, t, Received(d, proto[r][t], d.pos, known, kind))
        /\ proto' = [proto EXCEPT ![r][t].request =
                        @ \/ Accepts(d, proto[r][t], d.pos, known, kind)]
        /\ LocalStep /\ UNCHANGED spent

\* draftsForNonterminalFrame for the frame at s.
FrameEvent(r, t, d, s) ==
    LET kind == Script[s + 1]
    IN  [NewEvent(CASE kind = "started" -> "turn.status_changed"
                    [] kind = "text"    -> "message.text_appended"
                    [] OTHER            -> "tool_call.requested", t)
         EXCEPT !.status = "running", !.seq = s, !.transportId = proto[r][t].transportId,
                !.resumeSafe = ~d.unsafe,
                !.message = IF kind # "text" THEN None
                            ELSE IF d.message = None THEN <<r, s>> ELSE d.message]

\* Mutant: another projector's frames are not filtered out.
UnfilteredDrafts(r, t, d, s) == <<FrameEvent(r, t, d, s)>>
\* persistFrameDrafts drops the draft of a frame that became durable meanwhile.
FrameDrafts(r, t, d, s) ==
    IF KnownFrame(r, t, s) THEN <<>> ELSE <<FrameEvent(r, t, d, s)>>

\* The message id after the append: that of the projector that won, if any.
RefreshedMessage(state, t, own) == StreamedMessage(state, t, own)

\* The append of the frame's draft, then the refresh of the message id and
\* of safeSequence.
ProjectFrame(r, t) ==
    LET d      == drv[r][t]
        s      == d.pos - 1
        drafts == FrameDrafts(r, t, d, s)
        minted == FrameEvent(r, t, d, s).message
        own    == IF minted = None THEN d.message ELSE minted
    IN  /\ At(r, t, "frame")
        /\ \/ /\ Stored(r, "turn", t, drafts) /\ Wake(r) /\ UNCHANGED spent
              /\ proto' = [proto EXCEPT ![r] = [u \in Turns |->
                    IF u = t /\ ~d.unsafe /\ ~ManyMessages(Snapshot(r)', t)
                    THEN [Remembered(r, u) EXCEPT !.safe = s] ELSE Remembered(r, u)]]
              /\ Drive(r, t, IF ManyMessages(Snapshot(r)', t) THEN Interrupt(d, "local")
                             ELSE [d EXCEPT !.pc = "stream",
                                            !.message = RefreshedMessage(Snapshot(r)', t, own)])
           \/ RebaseTurn(r, t, drafts)
           \/ ThrowTurn(r, t, drafts, Interrupt(d, "local"))
        /\ UNCHANGED <<stopped, asked, life, remote>>

------------------------------------------------
\* The end of an observation.

ResultOf(end) == CASE end \in {"completed", "toolCalls"} -> "completed"
                   [] end = "cancelled" -> "cancelled"
                   [] OTHER -> "failed"

\* captureUsageReceipt comes next when the result carries an unlinked receipt.
Ended(r, t, d, result, retryable) ==
    [d EXCEPT !.result = result, !.retryable = retryable,
              !.pc = IF /\ UsageReceipts /\ result # "disconnected"
                        /\ t \notin Snapshot(r).receipts
                     THEN "usage" ELSE "settle"]

EndObservation(r, t, result, retryable) ==
    /\ At(r, t, "stream")
    /\ Drive(r, t, Ended(r, t, drv[r][t], result, retryable))
    /\ LocalStep /\ UNCHANGED <<proto, remote>>

\* The stream closes after its terminal frame.
StreamCloses(r, t) ==
    /\ remote[t].end # "none" /\ drv[r][t].pos = remote[t].produced + 1
    /\ EndObservation(r, t, ResultOf(remote[t].end), FALSE) /\ UNCHANGED spent

\* observation.disconnect() was called by this runtime.
StreamDetached(r, t) ==
    /\ drv[r][t].disconnected
    /\ EndObservation(r, t, "disconnected", FALSE) /\ UNCHANGED spent

\* The connection is lost, the observation fails or ends without a terminal
\* frame, or its result contradicts the terminal frame.
StreamBreaks(r, t) ==
    \/ /\ Spend("disconnect") /\ drv[r][t].terminal = "none"
       /\ EndObservation(r, t, "disconnected", FALSE)
    \/ /\ Spend("observationFailed") /\ drv[r][t].terminal = "none"
       /\ \E retryable \in BOOLEAN : EndObservation(r, t, "failed", retryable)
    \/ /\ Spend("observationFailed") /\ drv[r][t].terminal = "none"
       /\ EndObservation(r, t, "completed", TRUE)
    \/ /\ Spend("resultConflict") /\ drv[r][t].terminal # "none"
       /\ \E result \in {"completed", "cancelled", "failed"} :
            /\ result # ResultOf(drv[r][t].terminal)
            /\ EndObservation(r, t, result, FALSE)

LinkReceipt(r, t) ==
    /\ At(r, t, "usage")
    /\ PersistTurn(r, t, <<NewEvent("usage.receipt_linked", t)>>,
                   [drv[r][t] EXCEPT !.pc = "settle"], Done(drv[r][t]))
    /\ UNCHANGED <<stopped, asked, life, remote>>

SuppressRetry(r, t) == t \in stopped[r] \cup asked[r]

\* retryResultForObservation of an observation that did not reach its end.
AfterObservation(r, t, d, retryable) ==
    IF SuppressRetry(r, t) THEN {Done(d)} ELSE AfterFailure(d, retryable, "observation")

\* observeTransport between captureUsageReceipt and its last append.
Settled(r, t, d) ==
    IF IsTerminalTurn(Snapshot(r), t) \/ d.failed # "none" THEN {Done(d)}
    ELSE IF d.terminal = "none" /\ d.result = "disconnected"
    THEN {[d EXCEPT !.pc = "checkpoint"]}
    ELSE IF d.terminal = "none" THEN AfterObservation(r, t, d, d.retryable)
    ELSE IF d.result # ResultOf(d.terminal) THEN {Done(d)}
    ELSE {[d EXCEPT !.pc = "terminal"]}

SettleObservation(r, t) ==
    /\ At(r, t, "settle")
    /\ \E d \in Settled(r, t, drv[r][t]) : Drive(r, t, d)
    /\ LocalStep /\ UNCHANGED <<proto, remote, spent>>

\* Mutant: the checkpoint names the next frame as the last one applied.
CheckpointBeyond(r, t, covered) ==
    IF covered = 0 \/ ~IsOpenTurn(Snapshot(r), t) THEN <<>>
    ELSE <<[NewEvent("turn.status_changed", t) EXCEPT
              !.status = Snapshot(r).status[t], !.checkpoint = covered + 1]>>
\* The transport acknowledges nothing, or every frame it delivered.
CheckpointDrafts(r, t, covered) ==
    IF covered = 0 \/ ~IsOpenTurn(Snapshot(r), t) THEN <<>>
    ELSE <<[NewEvent("turn.status_changed", t) EXCEPT
              !.status = Snapshot(r).status[t], !.checkpoint = covered]>>

PersistCheckpoint(r, t) ==
    LET d == drv[r][t]
    IN  /\ At(r, t, "checkpoint")
        /\ \/ \E covered \in {0, d.pos} : \E next \in AfterObservation(r, t, d, TRUE) :
                 PersistTurn(r, t, CheckpointDrafts(r, t, covered),
                     IF covered > 0 /\ ~IsOpenTurn(Snapshot(r), t) THEN Done(d) ELSE next,
                     Done(d))
           \/ /\ MayPersist(r, "turn", t) /\ Spend("badCheckpoint") /\ Release(r)
              /\ Drive(r, t, Done(d)) /\ UNCHANGED <<log, rev, meta, proto, can>>
        /\ UNCHANGED <<stopped, asked, life, remote>>

\* Mutant: a turn whose cancellation was requested is recorded as cancelled.
TerminalAsAsked(r, t, d) ==
    [NewEvent(IF t \in asked[r] THEN "turn.cancelled" ELSE "turn.completed", t)
     EXCEPT !.seq = d.expected - 1, !.resumeSafe = TRUE]
\* draftsForTerminal
TerminalEvent(r, t, d) ==
    [NewEvent(CASE d.terminal \in {"completed", "toolCalls"} -> "turn.completed"
                [] d.terminal = "cancelled" -> "turn.cancelled"
                [] OTHER -> "turn.failed", t)
     EXCEPT !.seq = d.expected - 1, !.transportId = proto[r][t].transportId,
            !.resumeSafe = TRUE, !.toolCalls = (d.terminal = "toolCalls")]

PersistTerminal(r, t) ==
    LET d      == drv[r][t]
        drafts == IF IsTerminalTurn(Snapshot(r), t) THEN <<>> ELSE <<TerminalEvent(r, t, d)>>
    IN  /\ At(r, t, "terminal")
        /\ IF drafts # <<>> /\ ManyMessages(Snapshot(r), t)
           THEN /\ MayPersist(r, "turn", t) /\ Release(r) /\ Drive(r, t, Done(d))
                /\ UNCHANGED <<log, rev, meta, proto, can, spent>>
           ELSE \/ /\ Stored(r, "turn", t, drafts) /\ Wake(r) /\ UNCHANGED spent
                   /\ proto' = [proto EXCEPT ![r] = [u \in Turns |->
                         IF u = t THEN [Remembered(r, u) EXCEPT !.safe = d.expected - 1]
                         ELSE Remembered(r, u)]]
                   /\ Drive(r, t, Done(d))
                \/ RebaseTurn(r, t, drafts)
                \/ ThrowTurn(r, t, drafts, Done(d))
                \/ /\ MayPersist(r, "turn", t) /\ Spend("badCheckpoint") /\ Release(r)
                   /\ Drive(r, t, Done(d)) /\ UNCHANGED <<log, rev, meta, proto, can>>
        /\ UNCHANGED <<stopped, asked, life, remote>>

ScheduleRetry(r, t) ==
    /\ At(r, t, "scheduled")
    /\ PersistTurn(r, t, <<NewEvent("turn.retry_scheduled", t)>>,
                   [drv[r][t] EXCEPT !.pc = "attempt", !.attempt = @ + 1], Done(drv[r][t]))
    /\ UNCHANGED <<stopped, asked, life, remote>>

ExhaustRetries(r, t) ==
    /\ At(r, t, "exhausted")
    /\ PersistTurn(r, t, <<NewEvent("turn.retry_exhausted", t)>>,
                   IF drv[r][t].phase = "start" THEN [drv[r][t] EXCEPT !.pc = "fail"]
                   ELSE Done(drv[r][t]), Done(drv[r][t]))
    /\ UNCHANGED <<stopped, asked, life, remote>>

------------------------------------------------
\* The caller's other operations.

SpendCall == /\ spent.resumes < MaxResumes
             /\ spent' = [spent EXCEPT !.resumes = @ + 1]

\* resumeTurn; restoreActiveTurn is resumeTurn of the active turn.
ResumeTurn(r, t) ==
    /\ "resume" \in Calls /\ life[r] = "up" /\ SpendCall
    /\ IsOpenTurn(Snapshot(r), t) /\ proto[r][t].transportId
    /\ stopped' = [stopped EXCEPT ![r] = @ \ {t}]
    /\ Drive(r, t, IF Running(r, t) THEN drv[r][t]
                   ELSE [Idle EXCEPT !.pc = "attempt", !.mode = "resume"])
    /\ UNCHANGED <<log, rev, meta, proto, can, lock, asked, life, remote>>

\* What stopObserving does to the driver.
Detach(r, t) ==
    [drv[r][t] EXCEPT !.aborted = TRUE, !.disconnected = @ \/ Observing(r, t)]

StopObserving(r, t) ==
    /\ "stop" \in Calls /\ life[r] = "up" /\ Running(r, t) /\ SpendCall
    /\ stopped' = [stopped EXCEPT ![r] = @ \cup {t}]
    /\ Drive(r, t, Detach(r, t))
    /\ UNCHANGED <<log, rev, meta, proto, can, lock, asked, life, remote>>

\* cancelTurn up to its first await; repeated calls share the first one.
CancelTurn(r, t) ==
    LET preflight == /\ ~proto[r][t].transportId /\ Running(r, t) /\ ProviderContext
        next == IF IsTerminalTurn(Snapshot(r), t) THEN "over"
                ELSE IF preflight THEN "preflight"
                ELSE IF ~Cancellation THEN "unsupported" ELSE "request"
    IN  /\ "cancel" \in Calls /\ life[r] = "up" /\ can[r][t] = "off"
        /\ Snapshot(r).status[t] # "absent"
        /\ can' = [can EXCEPT ![r][t] = next]
        /\ asked' = IF next \in {"preflight", "request"}
                    THEN [asked EXCEPT ![r] = @ \cup {t}] ELSE asked
        /\ Drive(r, t, IF next = "preflight"
                       THEN [drv[r][t] EXCEPT !.aborted = TRUE] ELSE drv[r][t])
        /\ UNCHANGED <<log, rev, meta, proto, lock, stopped, life, remote, spent>>

\* Mutant: the cancellation keeps the boundary while it waits.
CancelHoldingBoundary(r, t, drafts, ok) ==
    /\ MayPersist(r, "cancel", t) /\ drafts # <<>> /\ rev[r] = Len(log)
    /\ lock' = [lock EXCEPT ![r] = [op |-> "cancel", turn |-> t, conflicts |-> 0]]
    /\ log' = Extended(drafts) /\ Apply(r, log') /\ RememberApplied(r) /\ UNCHANGED spent
    /\ can' = [can EXCEPT ![r] = [Notified(r, Snapshot(r)') EXCEPT ![t] = ok]]
\* The persistence of one cancellation step.
PersistCancel(r, t, drafts, ok) ==
    \/ /\ Stored(r, "cancel", t, drafts) /\ RememberApplied(r) /\ UNCHANGED spent
       /\ can' = [can EXCEPT ![r] = [Notified(r, Snapshot(r)') EXCEPT ![t] = ok]]
    \/ Rebased(r, "cancel", t, drafts) /\ RememberApplied(r) /\ Wake(r)
    \/ /\ Thrown(r, "cancel", t, drafts) /\ UNCHANGED proto
       /\ can' = [can EXCEPT ![r][t] = "done"]

\* Cancellation before the transport knows the turn ends it in the log.
CancelPreflight(r, t) ==
    /\ life[r] = "up" /\ can[r][t] = "preflight"
    /\ PersistCancel(r, t, <<NewEvent("turn.cancellation_requested", t),
                             NewEvent("turn.cancelled", t)>>, "over")
    /\ UNCHANGED <<drv, stopped, asked, life, remote>>

\* cancellation_unsupported, then stopObserving.
CancelUnsupported(r, t) ==
    /\ life[r] = "up" /\ can[r][t] = "unsupported"
    /\ PersistCancel(r, t, <<NewEvent("turn.cancellation_unsupported", t)>>, "done")
    /\ IF can'[r][t] = "done" /\ rev'[r] > rev[r] /\ Running(r, t)
       THEN /\ Drive(r, t, Detach(r, t))
            /\ stopped' = [stopped EXCEPT ![r] = @ \cup {t}]
       ELSE UNCHANGED <<drv, stopped>>
    /\ UNCHANGED <<asked, life, remote>>

RequestCancellation(r, t) ==
    /\ life[r] = "up" /\ can[r][t] = "request"
    /\ PersistCancel(r, t, <<NewEvent("turn.cancellation_requested", t)>>,
           IF proto'[r][t].transportId THEN "send"
           ELSE IF ~IsOpenTurn(Snapshot(r)', t) THEN "over" ELSE "wait")
    /\ UNCHANGED <<drv, stopped, asked, life, remote>>

\* capability.cancelTurn: accepted, already terminal, or failed.
SendCancellation(r, t) ==
    /\ life[r] = "up" /\ can[r][t] = "send"
    /\ \/ /\ remote' = [remote EXCEPT ![t].cancel = TRUE] /\ UNCHANGED spent
          /\ can' = [can EXCEPT ![r][t] =
                        IF remote[t].end # "none" THEN "over" ELSE "done"]
       \/ /\ Spend("cancelRejected") /\ UNCHANGED remote
          /\ can' = [can EXCEPT ![r][t] = "done"]
    /\ UNCHANGED <<log, rev, meta, proto, drv, lock, stopped, asked, life>>

\* synchronize: catch up, then detach the observations of terminal turns.
Synchronize(r) ==
    /\ "synchronize" \in Calls /\ life[r] = "up" /\ lock[r] = FreeBoundary
    /\ log' = log /\ Apply(r, log) /\ RememberApplied(r) /\ Wake(r)
    /\ drv' = [drv EXCEPT ![r] = [t \in Turns |->
                 IF Observing(r, t) /\ IsTerminalTurn(Latest, t)
                 THEN [@[t] EXCEPT !.disconnected = TRUE] ELSE @[t]]]
    /\ UNCHANGED <<lock, stopped, asked, life, remote, spent>>

\* destroy, a closed tab or a killed worker: memory is lost, the log stays;
\* a startTurn in flight may still reach the remote.
Crash(r) ==
    /\ life[r] = "up" /\ Spend("crash")
    /\ life' = [life EXCEPT ![r] = "down"]
    /\ drv' = [drv EXCEPT ![r] = [t \in Turns |-> Idle]]
    /\ can' = [can EXCEPT ![r] = [t \in Turns |-> "off"]]
    /\ Release(r)
    /\ stopped' = [stopped EXCEPT ![r] = {}] /\ asked' = [asked EXCEPT ![r] = {}]
    /\ \/ UNCHANGED remote
       \/ \E t \in Turns : drv[r][t].pc = "inflight" /\ RunRemotely(t)
    /\ UNCHANGED <<log, rev, meta, proto>>

\* createConversationRuntime reads the log twice: replayConversation builds
\* the snapshot, hydrateRuntimeMetadata then remembers the metadata.
Restart(r) ==
    /\ life[r] = "down"
    /\ life' = [life EXCEPT ![r] = "replayed"]
    /\ rev' = [rev EXCEPT ![r] = Len(log)]
    /\ UNCHANGED <<log, meta, proto, drv, can, lock, stopped, asked, remote, spent>>

Hydrate(r) ==
    /\ life[r] = "replayed"
    /\ life' = [life EXCEPT ![r] = "up"]
    /\ meta' = [meta EXCEPT ![r] = Len(log)]
    /\ proto' = [proto EXCEPT ![r] =
                   [t \in Turns |-> Remember(NewProtocol, t, log, 0, Len(log))]]
    /\ UNCHANGED <<log, rev, drv, can, lock, stopped, asked, remote, spent>>

\* The remote turn ends by itself, or because it was cancelled.
RemoteEnds(t) ==
    /\ remote[t].started /\ remote[t].end = "none"
    /\ \E end \in Outcomes \cup {"cancelled"} : \E n \in 1..Len(Script) :
         /\ n >= remote[t].produced
         /\ end = "cancelled" => remote[t].cancel
         /\ end \in {"completed", "toolCalls"} => n = Len(Script)
         /\ remote' = [remote EXCEPT ![t].end = end, ![t].produced = n]
    /\ UNCHANGED <<log, rev, meta, proto, drv, can, lock, stopped, asked, life, spent>>

------------------------------------------------

Init ==
    /\ log = <<>>
    /\ rev = [r \in Runtimes |-> 0] /\ meta = [r \in Runtimes |-> 0]
    /\ proto = [r \in Runtimes |-> [t \in Turns |-> NewProtocol]]
    /\ drv = [r \in Runtimes |-> [t \in Turns |-> Idle]]
    /\ can = [r \in Runtimes |-> [t \in Turns |-> "off"]]
    /\ lock = [r \in Runtimes |-> FreeBoundary]
    /\ stopped = [r \in Runtimes |-> {}] /\ asked = [r \in Runtimes |-> {}]
    /\ life = [r \in Runtimes |-> "up"]
    /\ remote = [t \in Turns |-> [started |-> FALSE, produced |-> 0, cancel |-> FALSE,
                                  end |-> "none"]]
    /\ spent = [faults |-> 0, resumes |-> 0]

DriverStep(r, t) ==
    \/ AdmissionCatchUp(r, t) \/ AdmitTurn(r, t) \/ AdmissionBusy(r, t)
    \/ StartAttempt(r, t) \/ Abort(r, t) \/ StartCall(r, t) \/ StartReply(r, t)
    \/ QueueTurn(r, t) \/ ResumeCall(r, t) \/ ReceiveFrame(r, t) \/ ProjectFrame(r, t)
    \/ StreamCloses(r, t) \/ StreamDetached(r, t) \/ LinkReceipt(r, t)
    \/ SettleObservation(r, t) \/ PersistCheckpoint(r, t) \/ PersistTerminal(r, t)
    \/ ScheduleRetry(r, t) \/ ExhaustRetries(r, t) \/ FailTurn(r, t)

CancelStep(r, t) ==
    \/ CancelPreflight(r, t) \/ CancelUnsupported(r, t)
    \/ RequestCancellation(r, t) \/ SendCancellation(r, t)

CallerStep(r, t) ==
    \/ SendMessage(r, t) \/ (\E p \in Turns : ContinueTurn(r, t, p))
    \/ ResumeTurn(r, t) \/ StopObserving(r, t) \/ CancelTurn(r, t)

FaultStep(r, t) ==
    \/ StartRejected(r, t) \/ InvalidHandle(r, t) \/ ResumeRejected(r, t)
    \/ StreamBreaks(r, t)

Next ==
    \/ \E r \in Runtimes, t \in Turns :
         DriverStep(r, t) \/ CancelStep(r, t) \/ CallerStep(r, t) \/ FaultStep(r, t)
    \/ \E r \in Runtimes : Synchronize(r) \/ Crash(r) \/ Restart(r) \/ Hydrate(r)
    \/ \E t \in Turns : RemoteEnds(t)

Spec == Init /\ [][Next]_vars

\* Promise continuations run, a remote turn that was started ends, and the
\* synchronization timer fires.
Fairness ==
    /\ \A r \in Runtimes, t \in Turns :
         WF_vars(DriverStep(r, t)) /\ WF_vars(CancelStep(r, t))
    /\ \A r \in Runtimes : WF_vars(Synchronize(r)) /\ WF_vars(Restart(r) \/ Hydrate(r))
    /\ \A t \in Turns : WF_vars(RemoteEnds(t))

FairSpec == Spec /\ Fairness
------------------------------------------------
\* Properties.

\* At most one turn of the durable log is open, and it is the active one:
\* persistAdmittedTurn's recheck under the boundary holds against runtimes
\* that admit at the same time.
SingleActiveTurn ==
    \A t \in Turns : IsOpenTurn(Latest, t) <=> Latest.active = t

\* A stream frame is projected at most once, however many runtimes observe
\* the turn, resume it, or lose the acknowledgement of their append.
FramesOnce ==
    \A i, j \in 1..Len(log) :
        (/\ log[i].ev.seq # NoFrame /\ log[i].ev.seq = log[j].ev.seq
         /\ log[i].ev.turn = log[j].ev.turn) => i = j

\* The frames that leave a durable event.
Durable(s) == Script[s + 1] \notin {"empty", "usage"}

\* A checkpoint never covers a frame that is not in the log before it: a
\* resume from it loses nothing.
CheckpointCovered ==
    \A i \in 1..Len(log) : \A s \in 0..(log[i].ev.checkpoint - 1) :
        s < Len(Script) /\ Durable(s) =>
            \E j \in 1..(i - 1) : log[j].ev.turn = log[i].ev.turn /\ log[j].ev.seq = s

\* A turn has one streamed assistant message, whoever projects it.
OneAssistantMessage == \A t \in Turns : ~ManyMessages(Latest, t)

\* The projection of a turn is exact: each frame once, every checkpoint
\* behind the frames it covers, one message; whoever projects, resumes,
\* crashes or loses an acknowledgement (runtime.ts:476-760).
ProjectionExact == FramesOnce /\ CheckpointCovered /\ OneAssistantMessage

\* A transport that replays the frames of a turn faithfully, from its
\* checkpoint, is never refused as violating the frame protocol.
ReplayAccepted ==
    \A r \in Runtimes, t \in Turns : drv[r][t].failed # "protocol"

\* A usage receipt is linked to its turn by one event, however often the
\* observation that delivers it is repeated.
ReceiptLinkedOnce ==
    \A i, j \in 1..Len(log) :
        (/\ log[i].ev.kind = "usage.receipt_linked" /\ log[j].ev.kind = log[i].ev.kind
         /\ log[i].ev.turn = log[j].ev.turn) => i = j

\* After any fault a resumed observation is accepted where it left off, and
\* a receipt that is delivered again is linked once (runtime.ts:636-662).
RecoveryExact == ReplayAccepted /\ ReceiptLinkedOnce

\* The transport is never asked to run a turn that the log does not hold.
DurableBeforeRemote == \A t \in Turns : remote[t].started => t \in Latest.begun

\* A turn closes in the log the way it ended remotely.
OutcomeAgrees ==
    \A t \in Turns :
        /\ Latest.status[t] = "completed" => remote[t].end \in {"completed", "toolCalls"}
        /\ Latest.status[t] = "cancelled" => remote[t].end = "cancelled"

\* cancelTurn reports remoteMayStillBeRunning: false only of a remote turn
\* that is not running.
CancellationTruthful ==
    \A r \in Runtimes, t \in Turns :
        can[r][t] = "over" => ~(remote[t].started /\ remote[t].end = "none")

\* The log only grows, and what it says of a closed turn's status stands.
LogGrows ==
    [][/\ Len(log) <= Len(log')
       /\ \A i \in 1..Len(log) : log'[i] = log[i]
       /\ \A t \in Turns : IsTerminalTurn(Latest, t) =>
             Latest.status[t] = Latest.status[t]']_vars

\* A turn that was admitted ends in the log: projectors that race for the
\* same frames may each give up, but not all of them.
TurnEnds == \A t \in Turns : IsOpenTurn(Latest, t) ~> IsTerminalTurn(Latest, t)

\* sendMessage, continueTurn and resumeTurn return.
OperationsReturn == \A r \in Runtimes, t \in Turns : drv[r][t].pc # "off" ~> drv[r][t].pc = "off"

\* cancelTurn returns.
CancellationsReturn ==
    \A r \in Runtimes, t \in Turns :
        can[r][t] \in {"preflight", "unsupported", "request", "wait", "send"}
            ~> can[r][t] \in {"off", "done", "over"}

\* What was begun ends: the turn in the log, and every operation the caller
\* waits for, although appends wait for each other and cancellations for a
\* transport id (runtime.ts:91, 441, 1375).
EverythingEnds == TurnEnds /\ OperationsReturn /\ CancellationsReturn

\* A cancellation that waits for the transport's turn id goes on once its
\* runtime knows that id.
WaitingIsWoken ==
    \A r \in Runtimes, t \in Turns :
        (can[r][t] = "wait" /\ proto[r][t].transportId) ~> can[r][t] # "wait"

\* The frames of the script with text, in the order of the stream.
TextFrames == {s \in 0..(Len(Script) - 1) : Script[s + 1] = "text"}
TextSeqs == CHOOSE q \in UNION {[1..n -> TextFrames] : n \in 0..Len(Script)} :
    /\ \A i, j \in 1..Len(q) : i < j => q[i] < q[j]
    /\ \A s \in TextFrames : \E i \in 1..Len(q) : q[i] = s

\* The conversation as its readers see it.
Reader == INSTANCE Conversation WITH
    Stream <- TextSeqs,
    phase  <- [t \in Turns |-> IF IsOpenTurn(Latest, t) THEN "open" ELSE Latest.status[t]],
    shown  <- Latest.text

\* The runtimes implement the conversation of their readers.
ImplementsConversation == Reader!Spec
================================================
