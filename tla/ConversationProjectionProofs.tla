---------------- MODULE ConversationProjectionProofs ----------------
(***************************************************************************)
(* What readers of the log may rely on, for any number of runtimes and     *)
(* turns, any stream and any bounds.                                       *)
(*                                                                         *)
(* A step of the system is first summed up by what it may do to the log,   *)
(* to the remote and to one operation (Seen, NextSeen); all that follows   *)
(* is proved from that summary, not from the actions.                      *)
(*                                                                         *)
(* PInv    an observation that stands at a frame holds none that the log   *)
(*         has already, and everything before it is in the log: frames     *)
(*         are projected once, in order, and no checkpoint is ahead.       *)
(* Outcome the log shows a turn as completed or cancelled only as the      *)
(*         remote ended it, preflight cancellations excepted.              *)
(* SInv    a turn whose identity no runtime and no log entry knows is      *)
(*         either still being started, or nobody can act on it any more.   *)
(* Shown   the text of a turn is a beginning of the stream's text and      *)
(*         consists of the text frames in the log; as a terminal frame     *)
(*         comes after all others, the runtimes implement Conversation.    *)
(* MInv    the one assistant message that the frames of a turn write to.   *)
(*                                                                         *)
(* Two hypotheses on the calls appear by name. NoPreflight: without it a   *)
(* turn may be closed in the log before the transport knows it.            *)
(* OwnReadings: without it a runtime may learn of another's text between   *)
(* choosing a message and writing to it.                                   *)
(***************************************************************************)
EXTENDS ConversationRuntimeProofs, WellFoundedInduction

\* A step, seen from the log, from the remote and from one operation.

FrameNo(r, t)  == drv[r][t].pos - 1
ObservingPc    == {"stream", "frame", "usage", "settle", "checkpoint", "terminal"}
Linked         == {"queue"} \cup ObservingPc

\* An event that no frame of the stream caused, with what its runtime was
\* doing when it stored it.
PlainEvent(r, t, e) ==
    /\ e.turn = t /\ e.seq = NoFrame /\ e.checkpoint = 0
    /\ e.kind \notin {"turn.completed", "message.text_appended"}
    /\ e.kind = "turn.cancelled" => can[r][t] = "preflight"
    /\ e.kind = "turn.failed" => drv[r][t].pc = "fail" /\ drv'[r][t].pc = "off"
    /\ e.transportId => drv[r][t].pc = "queue"
    /\ e.kind = "turn.started" => drv[r][t].pc = "admitting"
    /\ e.kind = "usage.receipt_linked" => drv[r][t].pc = "usage"

\* The first draft of a batch of two.
Openers == {"message.created", "turn.cancellation_requested"}
AppendsPlain(r, t) ==
    \E drafts \in Drafts : /\ \A i \in 1..Len(drafts) : PlainEvent(r, t, drafts[i])
                           /\ Len(drafts) = 2 => drafts[1].kind \in Openers
                           /\ DraftsFit(drafts) /\ log' = Extended(drafts)
AppendsFrame(r, t) ==
    /\ drv[r][t].pc = "frame" /\ ~KnownFrame(r, t, FrameNo(r, t))
    /\ log' = Extended(<<FrameEvent(r, t, drv[r][t], FrameNo(r, t))>>)
AppendsCheckpoint(r, t) ==
    /\ drv[r][t].pc = "checkpoint" /\ drv[r][t].pos > 0 /\ IsOpenTurn(Snapshot(r), t)
    /\ log' = Extended(CheckpointDrafts(r, t, drv[r][t].pos))
AppendsTerminal(r, t) ==
    /\ drv[r][t].pc = "terminal" /\ ~IsTerminalTurn(Snapshot(r), t)
    /\ log' = Extended(<<TerminalEvent(r, t, drv[r][t])>>)

LogStep ==
    \/ log' = log
    \/ \E r \in Runtimes, t \in Turns :
         /\ life[r] = "up" /\ rev[r] = Len(log)
         /\ \/ AppendsPlain(r, t) \/ AppendsFrame(r, t)
            \/ AppendsCheckpoint(r, t) \/ AppendsTerminal(r, t)

\* What r has read of the log: nothing new, all of it, or the two readings
\* of a restart.
Waits == {"off", "call", "inflight", "stream", "settle"}
Busy(r) ==
    \/ "synchronize" \in Calls
    \/ \E u \in Turns : can[r][u] # "off"
    \/ \E u \in Turns : drv[r][u].pc \notin Waits
Reads(r) ==
    /\ rev'[r] = Len(log') /\ meta'[r] = Len(log')
    /\ Busy(r)
ReadStep(r) ==
    \/ rev'[r] = rev[r] /\ meta'[r] = meta[r] /\ (life'[r] = "up" => life[r] = "up")
    \/ life[r] = "up" /\ life'[r] = "up" /\ Reads(r)
    \/ life[r] = "down" /\ life'[r] = "replayed" /\ rev'[r] = Len(log) /\ meta'[r] = meta[r]
    \/ life[r] = "replayed" /\ meta'[r] = Len(log) /\ rev'[r] = rev[r]

RemoteStep(t) ==
    LET m == remote[t]
        n == remote'[t]
    IN  /\ m.started => n.started
        /\ m.produced <= n.produced
        /\ m.produced <= Len(Script) => n.produced <= Len(Script)
        /\ m.end # "none" => n.end = m.end /\ n.produced = m.produced
        /\ n.end # m.end => /\ m.started /\ n.end \in Outcomes \cup {"cancelled"}
                            /\ n.end \in {"completed", "toolCalls"} => n.produced = Len(Script)
        /\ n.started # m.started =>
              \E r \in Runtimes : /\ drv[r][t].pc = "inflight"
                                  /\ \/ drv'[r][t].pc \in {"queue", "off"}
                                     \/ "startRejected" \in Faults

\* What r remembers of t comes from the log, or from the transport's answer.
Told(t, n) == \E i \in 1..n : log[i].ev.turn = t /\ log[i].ev.transportId
ProtoStep(r, t) ==
    LET p == proto[r][t]
        n == proto'[r][t]
    IN  /\ n.transportId => \/ p.transportId \/ Told(t, Len(log))'
                            \/ /\ drv[r][t].pc = "inflight" /\ drv'[r][t].pc = "queue"
                               /\ remote'[t].started
        /\ p.transportId /\ life[r] = "up" => n.transportId
        /\ \/ n.checkpoint \in {0, p.checkpoint}
           \/ \E i \in 1..meta'[r] : log'[i].ev.turn = t /\ n.checkpoint = log'[i].ev.checkpoint

\* How a cancellation comes to report that nothing runs any more.
CancelMove(r, t) ==
    \/ can'[r][t] = can[r][t]
    \/ can'[r][t] \in {"off", "unsupported", "request", "wait", "send", "done"}
    \/ can'[r][t] = "preflight" /\ ProviderContext
    \/ /\ can'[r][t] = "over"
       /\ \/ IsTerminalTurn(Snapshot(r), t) \/ remote[t].end # "none"
          \/ can[r][t] = "preflight"
          \/ can[r][t] # "off" /\ ~IsOpenTurn(Latest', t)
Cancels(r, t) ==
    /\ CancelMove(r, t)
    /\ can'[r][t] # "off" => can[r][t] # "off" \/ "cancel" \in Calls

\* A runtime works only while it is up, and a crash takes all its work.
LifeStep(r) ==
    /\ life[r] # "up" => drv'[r] = drv[r] /\ can'[r] = can[r]
    /\ life'[r] # life[r] /\ life'[r] # "up" =>
         \/ \A t \in Turns : drv'[r][t].pc = "off" /\ can'[r][t] = "off"
         \/ life[r] # "up"

\* The moves of an operation, from d to n.
SameFrame(d, n) ==
    /\ n.mode = d.mode /\ n.pos = d.pos /\ n.expected = d.expected
    /\ n.terminal = d.terminal /\ n.failed = d.failed /\ n.message = d.message
Returns(d, n) == n.pc = "off" /\ n.terminal = "none" /\ n.failed = "none"
Remains(d, n) == SameFrame(d, n) /\ n.pc = d.pc /\ n.phase = d.phase
Begins(r, t, n) ==
    life[r] = "up" /\ FreshTurn(t) /\ n.pc = "admit" /\ n.mode = "start" /\ n.terminal = "none"
Resumes(r, t, n) ==
    /\ life[r] = "up" /\ IsOpenTurn(Snapshot(r), t) /\ proto[r][t].transportId
    /\ n.pc = "attempt" /\ n.mode = "resume" /\ n.terminal = "none"
Advances(r, t, d, n) ==
    /\ SameFrame(d, n)
    /\ \/ <<d.pc, n.pc>> \in {<<"admit", "admitting">>, <<"admitting", "attempt">>,
                              <<"scheduled", "attempt">>, <<"stream", "usage">>,
                              <<"stream", "settle">>, <<"usage", "settle">>}
       \/ d.pc = "attempt" /\ n.pc = "call" /\ rev'[r] = Len(log') /\ meta'[r] = Len(log')
       \/ d.pc = "call" /\ n.pc = "inflight" /\ StartsRemotely(r, t)
       \/ d.pc = "inflight" /\ n.pc = "queue" /\ proto'[r][t].transportId
       \/ d.pc = "inflight" /\ n.pc \in {"fail", "scheduled", "exhausted"}
       \/ d.pc = "exhausted" /\ n.pc = "fail" /\ d.phase = "start"
       \/ d.pc = "call" /\ n.pc \in {"scheduled", "exhausted"} /\ ~StartsRemotely(r, t)
          /\ n.phase = "observation"
       \/ d.pc \in {"settle", "checkpoint"} /\ n.pc \in {"scheduled", "exhausted"}
          /\ n.phase = "observation"
       \/ d.pc = "settle" /\ n.pc = "checkpoint" /\ d.terminal = "none" /\ d.failed = "none"
       \/ d.pc = "settle" /\ n.pc = "terminal" /\ d.terminal # "none" /\ d.failed = "none"
Observes(r, t, d, n) ==
    /\ \/ d.pc = "queue" /\ n.pos = 0
       \/ d.pc = "call" /\ ~StartsRemotely(r, t) /\ n.pos = proto[r][t].checkpoint
    /\ n.pc = "stream" /\ n.mode = d.mode /\ n.terminal = "none" /\ n.failed = "none"
    /\ ~ManyMessages(Snapshot(r)', t) /\ n.message = StreamedMessage(Snapshot(r)', t, None)
Receives(r, t, d, n) ==
    /\ d.pc = "stream" /\ Available(t, d.pos) /\ Produce(t, d.pos)
    /\ log' = log /\ meta'[r] = meta[r] /\ rev'[r] = rev[r]
    /\ n = Received(d, proto[r][t], d.pos, KnownFrame(r, t, d.pos), FrameAt(t, d.pos))
Projects(r, t, d, n) ==
    /\ d.pc = "frame" /\ n.mode = d.mode /\ n.pos = d.pos /\ n.expected = d.expected
    /\ n.terminal = d.terminal
    /\ \/ n.pc = "settle" /\ n.failed = "local"
       \/ /\ n.pc = "stream" /\ n.failed = d.failed /\ ~ManyMessages(Snapshot(r)', t)
          /\ \/ KnownFrame(r, t, FrameNo(r, t)) /\ log' = log /\ rev'[r] = rev[r]
             \/ AppendsFrame(r, t) /\ rev'[r] = Len(log') /\ meta'[r] = Len(log')
          /\ \E m : n.message = StreamedMessage(Snapshot(r)', t, m)
Moves(r, t) ==
    LET d == drv[r][t]
        n == drv'[r][t]
    IN  \/ Returns(d, n) \/ Remains(d, n) \/ Begins(r, t, n) \/ Resumes(r, t, n)
        \/ Advances(r, t, d, n) \/ Observes(r, t, d, n) \/ Receives(r, t, d, n)
        \/ Projects(r, t, d, n)

Reading     == \A r \in Runtimes : ReadStep(r)
Living      == \A r \in Runtimes : LifeStep(r)
Producing   == \A t \in Turns : RemoteStep(t)
Remembering == \A r \in Runtimes, t \in Turns : ProtoStep(r, t)
Cancelling  == \A r \in Runtimes, t \in Turns : Cancels(r, t)
Driving     == \A r \in Runtimes, t \in Turns : Moves(r, t)
Apart       == \A q, r \in Runtimes : q # r => drv'[q] = drv[q] \/ drv'[r] = drv[r]

\* Every step looks like this.
Seen == /\ LogStep /\ Reading /\ Living /\ Producing /\ Remembering /\ Cancelling /\ Driving
        /\ Apart

------------------------------------------------
\* What Remember takes from the log.

\* n is p with what the events of t at from + 1 .. to add.
Recalls(p, n, t, entries, from, to) ==
    /\ p.transportId => n.transportId
    /\ n.transportId => \/ p.transportId
                        \/ \E i \in (from + 1)..to : entries[i].ev.turn = t
                                                     /\ entries[i].ev.transportId
    /\ \/ n.checkpoint = p.checkpoint
       \/ \E i \in (from + 1)..to : entries[i].ev.turn = t
                                    /\ n.checkpoint = entries[i].ev.checkpoint

LEMMA RememberSpec ==
    ASSUME NEW p \in Protocol, NEW t, NEW entries \in Seq(Entry),
           NEW from \in Nat, NEW to \in Nat, to <= Len(entries)
    PROVE  Recalls(p, Remember(p, t, entries, from, to), t, entries, from, to)
  <1> DEFINE new   == {i \in (from + 1)..to : entries[i].ev.turn = t}
             marks == {i \in new : entries[i].ev.checkpoint > 0}
             n     == Remember(p, t, entries, from, to)
             id    == p.transportId \/ \E i \in new : entries[i].ev.transportId
             check == IF Highest(marks, 0) = 0 THEN p.checkpoint
                      ELSE entries[Highest(marks, 0)].ev.checkpoint
  <1>1. n.transportId = id /\ n.checkpoint = check BY DEF Remember
  <1>2. \A i \in new : i \in (from + 1)..to /\ entries[i].ev.turn = t OBVIOUS
  <1>3. Highest(marks, 0) \in new \/ Highest(marks, 0) = 0 BY HighestIn
  <1> HIDE DEF n, new, marks
  <1> QED BY <1>1, <1>2, <1>3 DEF n, Recalls

\* r remembers what it applies; the safe frame may be set besides.
RemembersApplied(r) ==
    /\ proto' \in [Runtimes -> [Turns -> Protocol]]
    /\ \A q \in Runtimes : q # r => proto'[q] = proto[q]
    /\ \A u \in Turns : /\ proto'[r][u].transportId = Remembered(r, u).transportId
                        /\ proto'[r][u].checkpoint = Remembered(r, u).checkpoint

LEMMA RemembersPlain ==
    ASSUME IInv, NEW r \in Runtimes, DataOK', RememberApplied(r)
    PROVE  RemembersApplied(r)
  <1>1. proto \in [Runtimes -> [Turns -> Protocol]] BY SameTypes
  <1>2. \A u \in Turns : proto'[r][u] = Remembered(r, u) BY <1>1 DEF RememberApplied
  <1> QED BY <1>1, <1>2 DEF RememberApplied, RemembersApplied, DataOK

LEMMA SameProto ==
    ASSUME NEW r \in Runtimes, NEW t \in Turns, proto'[r][t] = proto[r][t]
    PROVE  ProtoStep(r, t)
  BY DEF ProtoStep

LEMMA AppliedProto ==
    ASSUME IInv, NEW r \in Runtimes, DataOK', LogGrowth, Apply(r, log') \/ Stay,
           RemembersApplied(r)
    PROVE  Remembering
  <1>1. ASSUME NEW q \in Runtimes, NEW u \in Turns, q # r PROVE ProtoStep(q, u)
    BY <1>1, SameProto DEF RemembersApplied
  <1>2. ASSUME NEW u \in Turns PROVE ProtoStep(r, u)
    <2>0. rev[r] \in Nat /\ rev'[r] \in Nat /\ rev'[r] <= Len(log') /\ log' \in Seq(Entry)
          /\ proto[r][u] \in Protocol /\ rev \in [Runtimes -> Nat] /\ meta \in [Runtimes -> Nat]
          /\ Len(log') \in Nat
      BY DEF IInv, DataOK, LogOK, Bounds
    <2>1. rev'[r] # rev[r] => meta'[r] = rev'[r]
      BY <2>0 DEF Apply, Stay
    <2> DEFINE p == proto[r][u]
               n == Remembered(r, u)
    <2>2. Recalls(p, n, u, log', rev[r], rev'[r])
      BY <2>0, RememberSpec DEF Remembered
    <2> HIDE DEF n, p
    <2>3. \A i \in (rev[r] + 1)..rev'[r] : i \in 1..Len(log') /\ i \in 1..meta'[r]
      BY <2>0, <2>1
    <2>4. n.transportId => p.transportId \/ Told(u, Len(log))'
      BY <2>2, <2>3 DEF Told, Recalls
    <2>5. \/ n.checkpoint = p.checkpoint
          \/ \E i \in 1..meta'[r] : log'[i].ev.turn = u /\ n.checkpoint = log'[i].ev.checkpoint
      BY <2>2, <2>3 DEF Recalls
    <2>6. proto'[r][u].transportId = n.transportId /\ proto'[r][u].checkpoint = n.checkpoint
      BY DEF RemembersApplied, n
    <2> QED BY <2>2, <2>4, <2>5, <2>6 DEF ProtoStep, p, Recalls
  <1> QED BY <1>1, <1>2 DEF Remembering

LEMMA AppliedReading ==
    ASSUME IInv, NEW r \in Runtimes, life[r] = "up", UNCHANGED life, Busy(r),
           Apply(r, log') \/ Stay
    PROVE  Reading
  <1>1. rev \in [Runtimes -> Nat] /\ meta \in [Runtimes -> Nat] BY DEF IInv, DataOK
  <1> SUFFICES ASSUME NEW q \in Runtimes PROVE ReadStep(q) BY DEF Reading
  <1> QED BY <1>1 DEF ReadStep, Reads, Apply, Stay

LEMMA SameReading ==
    ASSUME UNCHANGED <<rev, meta>>, \A r \in Runtimes : life'[r] = "up" => life[r] = "up"
    PROVE  Reading
  BY DEF Reading, ReadStep

\* The snapshot of a runtime that has just applied the log.
LEMMA AppliedSnapshot ==
    ASSUME IInv, NEW r \in Runtimes, DataOK', Apply(r, log')
    PROVE  Snapshot(r)' = Latest' /\ rev'[r] = Len(log')
  <1>1. rev'[r] = Len(log') BY DEF Apply, IInv, DataOK
  <1>2. Len(log') = 0 => log' = <<>> BY DEF DataOK, LogOK
  <1>3. log' = <<>> => Len(log') = 0 OBVIOUS
  <1> QED BY <1>1, <1>2, <1>3 DEF Snapshot, Latest

LEMMA SameCancel ==
    ASSUME NEW r \in Runtimes, NEW t \in Turns, can'[r][t] = can[r][t]
    PROVE  Cancels(r, t)
  BY DEF Cancels, CancelMove

\* A runtime that applies the log wakes its cancellations.
LEMMA NotifiedCancel ==
    ASSUME IInv, NEW r \in Runtimes, NEW t \in Turns, DataOK', Apply(r, log'),
           can'[r][t] = Notified(r, Snapshot(r)')[t]
    PROVE  Cancels(r, t)
  <1>1. Snapshot(r)' = Latest' BY AppliedSnapshot
  <1>2. can'[r][t] = IF can[r][t] = "wait" THEN Inspect(r, t, Latest') ELSE can[r][t]
    BY <1>1 DEF Notified
  <1>3. CASE can[r][t] # "wait" BY <1>2, <1>3, SameCancel
  <1>4. CASE can[r][t] = "wait"
    BY <1>2, <1>4 DEF Inspect, Cancels, CancelMove
  <1> QED BY <1>3, <1>4

LEMMA WakeCancelling ==
    ASSUME IInv, NEW r \in Runtimes, DataOK', Apply(r, log') \/ Stay, Wake(r)
    PROVE  Cancelling
  <1>0. can \in [Runtimes -> [Turns -> CancelPc]] /\ rev \in [Runtimes -> Nat] BY DEF IInv, DataOK
  <1> SUFFICES ASSUME NEW q \in Runtimes, NEW u \in Turns PROVE Cancels(q, u) BY DEF Cancelling
  <1>1. CASE can' = can BY <1>1, SameCancel
  <1>2. CASE can' = [can EXCEPT ![r] = Notified(r, Snapshot(r)')] /\ rev'[r] # rev[r]
    <2>1. q # r => can'[q][u] = can[q][u] BY <1>0, <1>2
    <2>2. can'[r] = Notified(r, Snapshot(r)') BY <1>0, <1>2
    <2>3. Apply(r, log') BY <1>2 DEF Stay
    <2> QED BY <2>1, <2>2, <2>3, SameCancel, NotifiedCancel
  <1> QED BY <1>1, <1>2 DEF Wake

------------------------------------------------
\* Every step is Seen.

Others(r, t) == \A q \in Runtimes, u \in Turns : q # r \/ u # t => drv'[q][u] = drv[q][u]
Alone(r)     == \A q \in Runtimes : q # r => drv'[q] = drv[q] /\ can'[q] = can[q]

LEMMA DriveValue ==
    ASSUME IInv, NEW r \in Runtimes, NEW t \in Turns, NEW d, Drive(r, t, d)
    PROVE  drv'[r][t] = d /\ Others(r, t) /\ \A q \in Runtimes : q # r => drv'[q] = drv[q]
  <1>1. drv \in [Runtimes -> [Turns -> Driver]] BY DEF IInv, Shapes
  <1> QED BY <1>1 DEF Drive, Others

LEMMA SameMoves ==
    ASSUME NEW r \in Runtimes, NEW t \in Turns, drv'[r][t] = drv[r][t]
    PROVE  Moves(r, t)
  BY DEF Moves, Remains, SameFrame

LEMMA OthersDriving ==
    ASSUME NEW r \in Runtimes, NEW t \in Turns, Others(r, t), Moves(r, t)
    PROVE  Driving
  <1> SUFFICES ASSUME NEW q \in Runtimes, NEW u \in Turns PROVE Moves(q, u) BY DEF Driving
  <1> QED BY SameMoves DEF Others

LEMMA AloneLiving ==
    ASSUME NEW r \in Runtimes, life[r] = "up", UNCHANGED life, Alone(r)
    PROVE  Living /\ Apart
  BY DEF Living, LifeStep, Alone, Apart

LEMMA SameProducing == ASSUME IInv, UNCHANGED remote PROVE Producing
  <1> SUFFICES ASSUME NEW t \in Turns PROVE RemoteStep(t) BY DEF Producing
  <1>1. remote[t].produced \in Nat BY SameTypes DEF Remote
  <1> QED BY <1>1 DEF RemoteStep

Appends(r, t) ==
    AppendsPlain(r, t) \/ AppendsFrame(r, t) \/ AppendsCheckpoint(r, t) \/ AppendsTerminal(r, t)

\* A step of the driver of t that persists something, seen.
LEMMA SteppedSeen ==
    ASSUME IInv, Kept, NEW r \in Runtimes, NEW t \in Turns, life[r] = "up", Busy(r),
           UNCHANGED <<life, remote>>, Apply(r, log') \/ Stay,
           log' = log \/ (rev[r] = Len(log) /\ Appends(r, t)),
           (RemembersApplied(r) /\ Wake(r)) \/ UNCHANGED <<proto, can>>,
           Others(r, t), Alone(r), Moves(r, t)
    PROVE  Seen
  <1>0. DataOK' /\ LogGrowth BY DEF Kept, IInv
  <1>1. LogStep BY DEF LogStep, Appends
  <1>2. Reading BY AppliedReading
  <1>3. Living /\ Apart BY AloneLiving
  <1>4. Producing BY SameProducing
  <1>5. CASE RemembersApplied(r) /\ Wake(r)
    <2>1. Remembering BY <1>0, <1>5, AppliedProto
    <2>2. Cancelling BY <1>0, <1>5, WakeCancelling
    <2> QED BY <1>1, <1>2, <1>3, <1>4, <2>1, <2>2, OthersDriving DEF Seen
  <1>6. CASE UNCHANGED <<proto, can>>
    <2>1. Remembering BY <1>6, SameProto DEF Remembering
    <2>2. Cancelling BY <1>6, SameCancel DEF Cancelling
    <2> QED BY <1>1, <1>2, <1>3, <1>4, <2>1, <2>2, OthersDriving DEF Seen
  <1> QED BY <1>5, <1>6

LEMMA WakeAlone ==
    ASSUME IInv, NEW r \in Runtimes, Wake(r), \A q \in Runtimes : q # r => drv'[q] = drv[q]
    PROVE  Alone(r)
  <1>1. can \in [Runtimes -> [Turns -> CancelPc]] BY DEF IInv, DataOK
  <1> QED BY <1>1 DEF Wake, Alone

LEMMA PersistSeen ==
    ASSUME IInv, Kept, NEW r \in Runtimes, NEW t \in Turns, NEW drafts, NEW ok, NEW err,
           life[r] = "up", drv[r][t].pc \notin Waits, UNCHANGED <<life, remote>>,
           PersistTurn(r, t, drafts, ok, err),
           (/\ rev[r] = Len(log) /\ drafts # <<>> /\ log' = Extended(drafts)
            /\ Drive(r, t, ok) \/ Drive(r, t, err)) => Appends(r, t),
           Drive(r, t, ok) /\ Stored(r, "turn", t, drafts) => Moves(r, t),
           Drive(r, t, err) => Moves(r, t)
    PROVE  Seen
  <1>0. Busy(r) /\ DataOK' BY DEF Busy, Kept, IInv
  <1>1. CASE /\ Stored(r, "turn", t, drafts) /\ RememberApplied(r) /\ Wake(r)
             /\ Drive(r, t, ok) /\ UNCHANGED spent
    <2>1. Apply(r, log') \/ Stay BY <1>1 DEF Stored
    <2>2. log' = log \/ (rev[r] = Len(log) /\ Appends(r, t)) BY <1>1 DEF Stored
    <2>3. RemembersApplied(r) BY <1>0, <1>1, RemembersPlain
    <2>4. Others(r, t) /\ Moves(r, t) /\ Alone(r) BY <1>1, DriveValue, WakeAlone
    <2> QED BY <1>0, <1>1, <2>1, <2>2, <2>3, <2>4, SteppedSeen
  <1>2. CASE RebaseTurn(r, t, drafts)
    <2>1. Apply(r, log') /\ log' = log BY <1>2 DEF RebaseTurn, Rebased
    <2>2. RemembersApplied(r) /\ Wake(r) /\ drv' = drv
      BY <1>0, <1>2, RemembersPlain DEF RebaseTurn
    <2>3. Others(r, t) /\ Moves(r, t) /\ Alone(r) BY <2>2, SameMoves, WakeAlone DEF Others
    <2> QED BY <1>0, <2>1, <2>2, <2>3, SteppedSeen
  <1>3. CASE ThrowTurn(r, t, drafts, err)
    <2>1. Stay /\ UNCHANGED <<proto, can>> /\ Drive(r, t, err) /\ drafts # <<>>
      BY <1>3 DEF ThrowTurn, Thrown
    <2>2. log' = log \/ (rev[r] = Len(log) /\ Appends(r, t)) BY <1>3, <2>1 DEF ThrowTurn, Thrown
    <2>3. Others(r, t) /\ Moves(r, t) /\ Alone(r) BY <2>1, DriveValue DEF Alone
    <2> QED BY <1>0, <2>1, <2>2, <2>3, SteppedSeen
  <1> QED BY <1>1, <1>2, <1>3 DEF PersistTurn

LEMMA DoneReturns == \A d : Returns(d, Done(d))
  BY DEF Returns, Done, Idle

LEMMA DoneMoves ==
    ASSUME IInv, NEW r \in Runtimes, NEW t \in Turns, Drive(r, t, Done(drv[r][t]))
    PROVE  Moves(r, t)
  BY DriveValue, DoneReturns DEF Moves

\* Drafts of NewEvents about t.
LEMMA PlainAppends ==
    ASSUME IInv, NEW r \in Runtimes, NEW t \in Turns, NEW drafts \in Drafts, DraftsFit(drafts),
           \A i \in 1..Len(drafts) : PlainEvent(r, t, drafts[i]), log' = Extended(drafts),
           Len(drafts) = 2 => drafts[1].kind \in Openers
    PROVE  Appends(r, t)
  BY DEF Appends, AppendsPlain

LEMMA NewAppends ==
    ASSUME IInv, NEW r \in Runtimes, NEW t \in Turns,
           NEW k \in Kinds \ {"message.created", "turn.started", "turn.completed",
                              "message.text_appended"},
           t \in Latest.begun, PlainEvent(r, t, NewEvent(k, t)),
           log' = Extended(<<NewEvent(k, t)>>)
    PROVE  Appends(r, t)
  <1>1. <<NewEvent(k, t)>> \in Drafts /\ TurnDrafts(t, <<NewEvent(k, t)>>) BY NewDraft
  <1>2. DraftsFit(<<NewEvent(k, t)>>) BY <1>1, TurnDraftsFit DEF IInv, DataOK
  <1> QED BY <1>1, <1>2, PlainAppends

LEMMA AppliedRevisions ==
    ASSUME IInv, NEW r \in Runtimes, Apply(r, log')
    PROVE  rev'[r] = Len(log') /\ meta'[r] = Len(log')
  BY DEF Apply, IInv, DataOK

LEMMA AdvanceMoves ==
    ASSUME IInv, NEW r \in Runtimes, NEW t \in Turns, NEW d, Drive(r, t, d),
           Advances(r, t, drv[r][t], d)
    PROVE  Moves(r, t)
  BY DriveValue DEF Moves

LEMMA PcFrame ==
    ASSUME NEW d \in Driver, NEW pc
    PROVE  SameFrame(d, [d EXCEPT !.pc = pc]) /\ [d EXCEPT !.pc = pc].pc = pc
           /\ [d EXCEPT !.pc = pc].phase = d.phase
  BY DEF SameFrame, Driver

LEMMA StartAttemptSeen ==
    ASSUME IInv, Kept, NEW r \in Runtimes, NEW t \in Turns, StartAttempt(r, t)
    PROVE  Seen
  <1> DEFINE k == "turn.attempt_started"
             ok == [drv[r][t] EXCEPT !.pc = "call"]
             drafts == <<NewEvent(k, t)>>
  <1>1. drv[r][t] \in Driver /\ drv[r][t].pc = "attempt" /\ life[r] = "up"
    BY DriverTyped DEF StartAttempt, At
  <1>2. t \in Latest.begun BY <1>1, DriverBegun DEF Admission
  <1>3. log' = Extended(drafts) => Appends(r, t)
    <2>1. PlainEvent(r, t, NewEvent(k, t)) BY DEF PlainEvent, NewEvent
    <2>2. k \in Kinds \ {"message.created", "turn.started", "turn.completed",
                         "message.text_appended"} BY DEF Kinds, RetryKind
    <2> QED BY <1>2, <2>1, <2>2, NewAppends
  <1>4. Drive(r, t, ok) /\ Stored(r, "turn", t, drafts) => Moves(r, t)
    <2> SUFFICES ASSUME Drive(r, t, ok), Stored(r, "turn", t, drafts) PROVE Moves(r, t) OBVIOUS
    <2>1. rev'[r] = Len(log') /\ meta'[r] = Len(log') BY AppliedRevisions DEF Stored
    <2>2. SameFrame(drv[r][t], ok) /\ ok.pc = "call" BY <1>1, PcFrame
    <2> HIDE DEF ok
    <2>3. Advances(r, t, drv[r][t], ok) BY <1>1, <2>1, <2>2 DEF Advances
    <2> QED BY <2>3, AdvanceMoves
  <1>5. PersistTurn(r, t, drafts, ok, Done(drv[r][t])) /\ UNCHANGED <<life, remote>>
    BY DEF StartAttempt
  <1>6. drv[r][t].pc \notin Waits BY <1>1 DEF Waits
  <1> HIDE DEF drafts, ok
  <1> QED BY <1>1, <1>3, <1>4, <1>5, <1>6, DoneMoves, PersistSeen

LEMMA FailTurnSeen ==
    ASSUME IInv, Kept, NEW r \in Runtimes, NEW t \in Turns, FailTurn(r, t)
    PROVE  Seen
  <1> DEFINE k == "turn.failed"
             drafts == <<NewEvent(k, t)>>
  <1>1. drv[r][t].pc = "fail" /\ life[r] = "up" BY DEF FailTurn, At
  <1>2. t \in Latest.begun BY <1>1, DriverBegun DEF Admission
  <1>3. log' = Extended(drafts) /\ Drive(r, t, Done(drv[r][t])) => Appends(r, t)
    <2> SUFFICES ASSUME log' = Extended(drafts), Drive(r, t, Done(drv[r][t]))
                 PROVE  Appends(r, t) OBVIOUS
    <2>0. drv'[r][t].pc = "off" BY DriveValue, DoneReturns DEF Returns
    <2>1. PlainEvent(r, t, NewEvent(k, t)) BY <1>1, <2>0 DEF PlainEvent, NewEvent
    <2>2. k \in Kinds \ {"message.created", "turn.started", "turn.completed",
                         "message.text_appended"} BY DEF Kinds, TerminalKind
    <2> QED BY <1>2, <2>1, <2>2, NewAppends
  <1>4. PersistTurn(r, t, drafts, Done(drv[r][t]), Done(drv[r][t])) /\ UNCHANGED <<life, remote>>
    BY DEF FailTurn
  <1>5. drv[r][t].pc \notin Waits BY <1>1 DEF Waits
  <1> HIDE DEF drafts
  <1> QED BY <1>1, <1>3, <1>4, <1>5, DoneMoves, PersistSeen

LEMMA LinkReceiptSeen ==
    ASSUME IInv, Kept, NEW r \in Runtimes, NEW t \in Turns, LinkReceipt(r, t)
    PROVE  Seen
  <1> DEFINE k == "usage.receipt_linked"
             ok == [drv[r][t] EXCEPT !.pc = "settle"]
             drafts == <<NewEvent(k, t)>>
  <1>1. drv[r][t] \in Driver /\ drv[r][t].pc = "usage" /\ life[r] = "up"
    BY DriverTyped DEF LinkReceipt, At
  <1>2. t \in Latest.begun BY <1>1, DriverBegun DEF Admission
  <1>3. log' = Extended(drafts) => Appends(r, t)
    <2>1. PlainEvent(r, t, NewEvent(k, t)) BY <1>1 DEF PlainEvent, NewEvent
    <2>2. k \in Kinds \ {"message.created", "turn.started", "turn.completed",
                         "message.text_appended"} BY DEF Kinds, PlainKind
    <2> QED BY <1>2, <2>1, <2>2, NewAppends
  <1>4. Drive(r, t, ok) => Moves(r, t)
    <2>2. SameFrame(drv[r][t], ok) /\ ok.pc = "settle" BY <1>1, PcFrame
    <2> HIDE DEF ok
    <2>3. Advances(r, t, drv[r][t], ok) BY <1>1, <2>2 DEF Advances
    <2> QED BY <2>3, AdvanceMoves
  <1>5. PersistTurn(r, t, drafts, ok, Done(drv[r][t])) /\ UNCHANGED <<life, remote>>
    BY DEF LinkReceipt
  <1>6. drv[r][t].pc \notin Waits BY <1>1 DEF Waits
  <1> HIDE DEF drafts, ok
  <1> QED BY <1>1, <1>3, <1>4, <1>5, <1>6, DoneMoves, PersistSeen

LEMMA ScheduleRetrySeen ==
    ASSUME IInv, Kept, NEW r \in Runtimes, NEW t \in Turns, ScheduleRetry(r, t)
    PROVE  Seen
  <1> DEFINE k == "turn.retry_scheduled"
             ok == [drv[r][t] EXCEPT !.pc = "attempt", !.attempt = @ + 1]
             drafts == <<NewEvent(k, t)>>
  <1>1. drv[r][t] \in Driver /\ drv[r][t].pc = "scheduled" /\ life[r] = "up"
    BY DriverTyped DEF ScheduleRetry, At
  <1>2. t \in Latest.begun BY <1>1, DriverBegun DEF Admission
  <1>3. log' = Extended(drafts) => Appends(r, t)
    <2>1. PlainEvent(r, t, NewEvent(k, t)) BY DEF PlainEvent, NewEvent
    <2>2. k \in Kinds \ {"message.created", "turn.started", "turn.completed",
                         "message.text_appended"} BY DEF Kinds, RetryKind
    <2> QED BY <1>2, <2>1, <2>2, NewAppends
  <1>4. Drive(r, t, ok) => Moves(r, t)
    <2>2. SameFrame(drv[r][t], ok) /\ ok.pc = "attempt" BY <1>1 DEF SameFrame, Driver
    <2> HIDE DEF ok
    <2>3. Advances(r, t, drv[r][t], ok) BY <1>1, <2>2 DEF Advances
    <2> QED BY <2>3, AdvanceMoves
  <1>5. PersistTurn(r, t, drafts, ok, Done(drv[r][t])) /\ UNCHANGED <<life, remote>>
    BY DEF ScheduleRetry
  <1>6. drv[r][t].pc \notin Waits BY <1>1 DEF Waits
  <1> HIDE DEF drafts, ok
  <1> QED BY <1>1, <1>3, <1>4, <1>5, <1>6, DoneMoves, PersistSeen

LEMMA ExhaustRetriesSeen ==
    ASSUME IInv, Kept, NEW r \in Runtimes, NEW t \in Turns, ExhaustRetries(r, t)
    PROVE  Seen
  <1> DEFINE k == "turn.retry_exhausted"
             on == [drv[r][t] EXCEPT !.pc = "fail"]
             ok == IF drv[r][t].phase = "start" THEN on ELSE Done(drv[r][t])
             drafts == <<NewEvent(k, t)>>
  <1>1. drv[r][t] \in Driver /\ drv[r][t].pc = "exhausted" /\ life[r] = "up"
    BY DriverTyped DEF ExhaustRetries, At
  <1>2. t \in Latest.begun BY <1>1, DriverBegun DEF Admission
  <1>3. log' = Extended(drafts) => Appends(r, t)
    <2>1. PlainEvent(r, t, NewEvent(k, t)) BY DEF PlainEvent, NewEvent
    <2>2. k \in Kinds \ {"message.created", "turn.started", "turn.completed",
                         "message.text_appended"} BY DEF Kinds, RetryKind
    <2> QED BY <1>2, <2>1, <2>2, NewAppends
  <1>4. Drive(r, t, ok) => Moves(r, t)
    <2>2. SameFrame(drv[r][t], on) /\ on.pc = "fail" BY <1>1, PcFrame
    <2> HIDE DEF on
    <2>3. drv[r][t].phase = "start" => Advances(r, t, drv[r][t], on) BY <1>1, <2>2 DEF Advances
    <2> QED BY <2>3, AdvanceMoves, DoneMoves
  <1>5. PersistTurn(r, t, drafts, ok, Done(drv[r][t])) /\ UNCHANGED <<life, remote>>
    BY DEF ExhaustRetries
  <1>6. drv[r][t].pc \notin Waits BY <1>1 DEF Waits
  <1> HIDE DEF drafts, ok
  <1> QED BY <1>1, <1>3, <1>4, <1>5, <1>6, DoneMoves, PersistSeen

LEMMA AdmitTurnSeen ==
    ASSUME IInv, Kept, NEW r \in Runtimes, NEW t \in Turns, AdmitTurn(r, t)
    PROVE  Seen
  <1> DEFINE d      == drv[r][t]
             drafts == AdmissionDrafts(r, t)
             ok     == [d EXCEPT !.pc = "attempt"]
             start  == [NewEvent("turn.started", t) EXCEPT !.continues = d.continues]
             first  == NewEvent("message.created", t)
  <1>0. d \in Driver /\ DataOK /\ d.pc = "admitting" /\ life[r] = "up"
    BY DriverTyped DEF IInv, AdmitTurn, At
  <1>1. start \in Event /\ start.kind = "turn.started" /\ PlainEvent(r, t, start)
    <2>1. start \in Event BY <1>0, NewEventType DEF Event, Kinds, PlainKind, Driver
    <2> QED BY <1>0, <2>1 DEF PlainEvent, NewEvent
  <1>2. first \in Event /\ first.kind = "message.created" /\ PlainEvent(r, t, first)
    <2>1. first \in Event BY NewEventType DEF Kinds, PlainKind
    <2> QED BY <2>1 DEF PlainEvent, NewEvent
  <1>3. drafts = <<start>> \/ drafts = <<first, start>>
    BY DEF AdmissionDrafts
  <1> HIDE DEF start, first, drafts
  <1>4. rev[r] = Len(log) => Latest.active = None
    BY <1>0, SnapshotGood DEF AdmitTurn
  <1>5. rev[r] = Len(log) /\ log' = Extended(drafts) => Appends(r, t)
    <2> SUFFICES ASSUME Latest.active = None, log' = Extended(drafts) PROVE Appends(r, t)
      BY <1>4
    <2>1. CASE drafts = <<start>>
      <3>1. <<start>> \in Drafts /\ Len(<<start>>) = 1 /\ <<start>>[1] = start
        BY <1>1 DEF Drafts
      <3>2. DraftsFit(<<start>>) BY <1>1, <3>1 DEF DraftsFit, EventFits
      <3>3. \A i \in 1..Len(<<start>>) : PlainEvent(r, t, <<start>>[i]) BY <1>1, <3>1
      <3> QED BY <2>1, <3>1, <3>2, <3>3, PlainAppends
    <2>2. CASE drafts = <<first, start>>
      <3> DEFINE two == <<first, start>>
      <3>1. two \in Drafts /\ Len(two) = 2 /\ two[1] = first /\ two[2] = start
        BY <1>1, <1>2 DEF Drafts
      <3>2. Reduce(Latest, first) = Latest BY <1>2, ReduceCases
      <3> HIDE DEF two
      <3>3. DraftsFit(two) BY <1>1, <1>2, <3>1, <3>2 DEF DraftsFit, EventFits
      <3>4. \A i \in 1..Len(two) : PlainEvent(r, t, two[i])
        <4> SUFFICES ASSUME NEW i \in 1..Len(two) PROVE PlainEvent(r, t, two[i]) OBVIOUS
        <4>1. i = 1 \/ i = 2 BY <3>1
        <4> QED BY <1>1, <1>2, <3>1, <4>1
      <3>5. two[1].kind \in Openers BY <1>2, <3>1 DEF Openers
      <3> QED BY <2>2, <3>1, <3>3, <3>4, <3>5, PlainAppends DEF two
    <2> QED BY <1>3, <2>1, <2>2
  <1>6. Drive(r, t, ok) => Moves(r, t)
    <2>2. SameFrame(d, ok) /\ ok.pc = "attempt" BY <1>0, PcFrame
    <2> HIDE DEF ok
    <2>3. Advances(r, t, d, ok) BY <1>0, <2>2 DEF Advances
    <2> QED BY <2>3, AdvanceMoves
  <1>7. PersistTurn(r, t, drafts, ok, Done(d)) /\ UNCHANGED <<life, remote>>
    BY DEF AdmitTurn, drafts
  <1>8. d.pc \notin Waits BY <1>0 DEF Waits
  <1> HIDE DEF ok
  <1> QED BY <1>0, <1>5, <1>6, <1>7, <1>8, DoneMoves, PersistSeen

\* The driver's steps that leave the log and the snapshot alone.
LEMMA LocalSeen ==
    ASSUME IInv, NEW r \in Runtimes, NEW t \in Turns, NEW d, life[r] = "up",
           UNCHANGED <<log, rev, meta, can, life>>, Drive(r, t, d), Moves(r, t),
           Producing, Remembering
    PROVE  Seen
  <1>1. LogStep /\ Reading BY SameReading DEF LogStep
  <1>2. Others(r, t) /\ Alone(r) BY DriveValue DEF Alone
  <1>3. Living /\ Apart /\ Driving BY <1>2, AloneLiving, OthersDriving
  <1>4. Cancelling BY SameCancel DEF Cancelling
  <1> QED BY <1>1, <1>3, <1>4 DEF Seen

LEMMA SameRemembering == ASSUME UNCHANGED proto PROVE Remembering
  BY SameProto DEF Remembering

LEMMA GiveUpSeen ==
    ASSUME IInv, NEW r \in Runtimes, NEW t \in Turns, life[r] = "up",
           UNCHANGED <<log, rev, meta, proto, can, life, remote>>, Drive(r, t, Done(drv[r][t]))
    PROVE  Seen
  BY LocalSeen, DoneMoves, SameProducing, SameRemembering

LEMMA AdmissionSeen ==
    ASSUME IInv, Kept, NEW r \in Runtimes, NEW t \in Turns,
           AdmissionCatchUp(r, t) \/ AdmissionBusy(r, t)
    PROVE  Seen
  <1>1. CASE AdmissionBusy(r, t) BY <1>1, GiveUpSeen DEF AdmissionBusy, At
  <1>2. CASE AdmissionCatchUp(r, t)
    <2> DEFINE ok == [drv[r][t] EXCEPT !.pc = "admitting"]
    <2>1. drv[r][t] \in Driver /\ drv[r][t].pc = "admit" /\ life[r] = "up"
      BY <1>2, DriverTyped DEF AdmissionCatchUp, At
    <2>2. Drive(r, t, ok) BY <1>2 DEF AdmissionCatchUp
    <2>3. SameFrame(drv[r][t], ok) /\ ok.pc = "admitting" BY <2>1, PcFrame
    <2> HIDE DEF ok
    <2>4. Moves(r, t) BY <2>1, <2>2, <2>3, AdvanceMoves DEF Advances
    <2>5. Busy(r) /\ DataOK' BY <2>1 DEF Busy, Waits, Kept, IInv
    <2>6. Apply(r, log') /\ log' = log /\ RemembersApplied(r) /\ Wake(r)
          /\ UNCHANGED <<life, remote>>
      BY <1>2, <2>5, RemembersPlain DEF AdmissionCatchUp
    <2>7. Others(r, t) /\ Alone(r) BY <2>2, <2>6, DriveValue, WakeAlone
    <2> QED BY <2>1, <2>4, <2>5, <2>6, <2>7, SteppedSeen
  <1> QED BY <1>1, <1>2

LEMMA RunProducing ==
    ASSUME IInv, NEW r \in Runtimes, NEW t \in Turns, drv[r][t].pc = "inflight", RunRemotely(t),
           drv'[r][t].pc \in {"queue", "off"} \/ "startRejected" \in Faults
    PROVE  Producing /\ remote'[t].started
  <1>0. remote \in [Turns -> Remote] BY SameTypes
  <1>1. /\ remote'[t].started /\ remote'[t].produced = remote[t].produced
        /\ remote'[t].end = remote[t].end /\ remote[t].produced \in Nat
    BY <1>0 DEF RunRemotely, Remote
  <1>2. RemoteStep(t)
    <2> DEFINE m == remote[t]
               n == remote'[t]
    <2>1. n.started /\ n.produced = m.produced /\ n.end = m.end /\ m.produced \in Nat BY <1>1
    <2>2. \E q \in Runtimes : /\ drv[q][t].pc = "inflight"
                              /\ \/ drv'[q][t].pc \in {"queue", "off"}
                                 \/ "startRejected" \in Faults
      OBVIOUS
    <2>3. m.produced <= n.produced BY <2>1
    <2> HIDE DEF m, n
    <2> QED BY <2>1, <2>2, <2>3 DEF RemoteStep, m, n
  <1>3. \A u \in Turns : u # t => remote'[u] = remote[u] /\ remote[u].produced \in Nat
    BY <1>0 DEF RunRemotely, Remote
  <1>4. \A u \in Turns : u # t => RemoteStep(u) BY <1>3 DEF RemoteStep
  <1> QED BY <1>1, <1>2, <1>4 DEF Producing

LEMMA FailureMoves ==
    ASSUME NEW d \in Driver, NEW b \in BOOLEAN, NEW phase \in {"start", "observation"},
           NEW n \in AfterFailure(d, b, phase)
    PROVE  \/ n = Done(d) /\ phase = "observation"
           \/ /\ SameFrame(d, n) /\ n.phase = phase
              /\ n.pc \in {"scheduled", "exhausted"} \/ (n.pc = "fail" /\ phase = "start")
  <1> DEFINE f == [d EXCEPT !.phase = phase, !.retryable = b]
  <1>1. f \in Driver /\ SameFrame(d, f) /\ f.phase = phase BY DEF Driver, SameFrame
  <1>2. (n = Done(d) /\ phase = "observation") \/ n \in {[f EXCEPT !.pc = "scheduled"],
          [f EXCEPT !.pc = "exhausted"]} \/ (n = [f EXCEPT !.pc = "fail"] /\ phase = "start")
    BY DEF AfterFailure
  <1> HIDE DEF f
  <1>3. \A pc : SameFrame(f, [f EXCEPT !.pc = pc]) /\ [f EXCEPT !.pc = pc].pc = pc
                /\ [f EXCEPT !.pc = pc].phase = f.phase
    BY <1>1, PcFrame
  <1>4. \A pc : SameFrame(d, [f EXCEPT !.pc = pc]) BY <1>1, <1>3 DEF SameFrame
  <1>5. CASE n = Done(d) /\ phase = "observation" BY <1>5
  <1>6. CASE n = [f EXCEPT !.pc = "scheduled"] BY <1>1, <1>3, <1>4, <1>6
  <1>7. CASE n = [f EXCEPT !.pc = "exhausted"] BY <1>1, <1>3, <1>4, <1>7
  <1>8. CASE n = [f EXCEPT !.pc = "fail"] /\ phase = "start" BY <1>1, <1>3, <1>4, <1>8
  <1> QED BY <1>2, <1>5, <1>6, <1>7, <1>8

LEMMA StartFailures ==
    ASSUME NEW d \in Driver, NEW b \in BOOLEAN, NEW n \in AfterFailure(d, b, "start")
    PROVE  SameFrame(d, n) /\ n.pc \in {"scheduled", "exhausted", "fail"}
  BY FailureMoves

LEMMA CallsSeen ==
    ASSUME IInv, NEW r \in Runtimes, NEW t \in Turns,
           Abort(r, t) \/ StartCall(r, t) \/ InvalidHandle(r, t) \/ ResumeRejected(r, t)
    PROVE  Seen
  <1>0. drv[r][t] \in Driver BY DriverTyped
  <1>1. CASE Abort(r, t) BY <1>1, GiveUpSeen DEF Abort, At, LocalStep
  <1>2. CASE StartCall(r, t)
    <2> DEFINE n == [drv[r][t] EXCEPT !.pc = "inflight"]
    <2>1. SameFrame(drv[r][t], n) /\ n.pc = "inflight" BY <1>0, PcFrame
    <2>2. Drive(r, t, n) BY <1>2 DEF StartCall
    <2> HIDE DEF n
    <2>3. Moves(r, t) BY <1>2, <2>1, <2>2, AdvanceMoves DEF Advances, StartCall, At
    <2> QED BY <1>2, <2>2, <2>3, LocalSeen, SameProducing, SameRemembering
            DEF StartCall, At, LocalStep
  <1>3. CASE InvalidHandle(r, t)
    <2> DEFINE n == [drv[r][t] EXCEPT !.pc = "fail"]
    <2>1. SameFrame(drv[r][t], n) /\ n.pc = "fail" BY <1>0, PcFrame
    <2>2. Drive(r, t, n) BY <1>3 DEF InvalidHandle
    <2> HIDE DEF n
    <2>3. Moves(r, t) BY <1>3, <2>1, <2>2, AdvanceMoves DEF Advances, InvalidHandle, At
    <2> QED BY <1>3, <2>2, <2>3, LocalSeen, SameProducing, SameRemembering
            DEF InvalidHandle, At, LocalStep
  <1>4. CASE ResumeRejected(r, t)
    <2>1. PICK n \in AfterFailure(drv[r][t], TRUE, "observation")
                 \cup AfterFailure(drv[r][t], FALSE, "observation") : Drive(r, t, n)
      BY <1>4 DEF ResumeRejected
    <2>2. \/ n = Done(drv[r][t])
          \/ /\ SameFrame(drv[r][t], n) /\ n.phase = "observation"
             /\ n.pc \in {"scheduled", "exhausted"}
      BY <1>0, <2>1, FailureMoves
    <2>3. Moves(r, t)
      BY <1>4, <2>1, <2>2, AdvanceMoves, DoneMoves DEF Advances, ResumeRejected, At
    <2> QED BY <1>4, <2>1, <2>3, LocalSeen, SameProducing, SameRemembering
            DEF ResumeRejected, At, LocalStep
  <1> QED BY <1>1, <1>2, <1>3, <1>4

LEMMA StartReplySeen ==
    ASSUME IInv, NEW r \in Runtimes, NEW t \in Turns, StartReply(r, t)
    PROVE  Seen
  <1> DEFINE n == [drv[r][t] EXCEPT !.pc = "queue"]
  <1>0. drv[r][t] \in Driver /\ drv[r][t].pc = "inflight" /\ life[r] = "up"
    BY DriverTyped DEF StartReply, At
  <1>1. SameFrame(drv[r][t], n) /\ n.pc = "queue" /\ Drive(r, t, n)
    BY <1>0, PcFrame DEF StartReply
  <1> HIDE DEF n
  <1>2. drv'[r][t] = n BY <1>1, DriveValue
  <1>3. Producing /\ remote'[t].started BY <1>0, <1>1, <1>2, RunProducing DEF StartReply
  <1>4. proto \in [Runtimes -> [Turns -> Protocol]] BY SameTypes
  <1>5. /\ proto'[r][t].transportId /\ proto'[r][t].checkpoint = proto[r][t].checkpoint
        /\ \A q \in Runtimes, u \in Turns : q # r \/ u # t => proto'[q][u] = proto[q][u]
    BY <1>4 DEF StartReply, Protocol
  <1>6. ProtoStep(r, t) BY <1>0, <1>1, <1>2, <1>3, <1>5 DEF ProtoStep
  <1>7. Remembering
    <2> SUFFICES ASSUME NEW q \in Runtimes, NEW u \in Turns PROVE ProtoStep(q, u)
      BY DEF Remembering
    <2> QED BY <1>5, <1>6, SameProto
  <1>8. Moves(r, t) BY <1>0, <1>1, <1>5, AdvanceMoves DEF Advances
  <1> QED BY <1>0, <1>1, <1>3, <1>7, <1>8, LocalSeen DEF StartReply, LocalStep

LEMMA StartRejectedSeen ==
    ASSUME IInv, NEW r \in Runtimes, NEW t \in Turns, StartRejected(r, t)
    PROVE  Seen
  <1>0. drv[r][t] \in Driver /\ drv[r][t].pc = "inflight" /\ life[r] = "up"
    BY DriverTyped DEF StartRejected, At
  <1>1. PICK n \in AfterFailure(drv[r][t], TRUE, "start")
               \cup AfterFailure(drv[r][t], FALSE, "start") : Drive(r, t, n)
    BY DEF StartRejected
  <1>2. SameFrame(drv[r][t], n) /\ n.pc \in {"scheduled", "exhausted", "fail"}
    <2>1. CASE n \in AfterFailure(drv[r][t], TRUE, "start") BY <1>0, <2>1, StartFailures
    <2>2. CASE n \in AfterFailure(drv[r][t], FALSE, "start") BY <1>0, <2>2, StartFailures
    <2> QED BY <1>1, <2>1, <2>2
  <1>3. Moves(r, t) BY <1>0, <1>1, <1>2, AdvanceMoves DEF Advances
  <1>4. Producing BY <1>0, RunProducing, SameProducing DEF StartRejected, Spend
  <1> QED BY <1>0, <1>1, <1>3, <1>4, LocalSeen, SameRemembering DEF StartRejected, LocalStep

LEMMA ObserveFields ==
    ASSUME NEW d \in Driver, NEW p, NEW st, NEW t, NEW pos, ~ManyMessages(st, t)
    PROVE  LET n == Observe(d, p, st, t, pos)
           IN  /\ n.pc = "stream" /\ n.mode = d.mode /\ n.pos = pos
               /\ n.terminal = "none" /\ n.failed = "none"
               /\ n.message = StreamedMessage(st, t, None)
  <1> DEFINE m == StreamedMessage(st, t, None)
             x == p.safe + 1
             n == [d EXCEPT !.pc = "stream", !.pos = pos, !.expected = x,
                   !.message = m, !.unsafe = FALSE,
                   !.terminal = "none", !.failed = "none", !.disconnected = FALSE,
                   !.result = "none"]
  <1>1. Observe(d, p, st, t, pos) = n BY DEF Observe
  <1> HIDE DEF m, x
  <1>2. /\ n.pc = "stream" /\ n.mode = d.mode /\ n.pos = pos
        /\ n.terminal = "none" /\ n.failed = "none" /\ n.message = m
    BY DEF Driver
  <1> QED BY <1>1, <1>2 DEF m

LEMMA ObserveMoves ==
    ASSUME IInv, NEW r \in Runtimes, NEW t \in Turns, NEW p, NEW pos,
           Drive(r, t, Observe(drv[r][t], p, Snapshot(r)', t, pos)),
           \/ drv[r][t].pc = "queue" /\ pos = 0
           \/ /\ drv[r][t].pc = "call" /\ ~StartsRemotely(r, t)
              /\ pos = proto[r][t].checkpoint
    PROVE  Moves(r, t)
  <1> DEFINE n == Observe(drv[r][t], p, Snapshot(r)', t, pos)
  <1>1. drv[r][t] \in Driver /\ drv'[r][t] = n BY DriverTyped, DriveValue
  <1>2. CASE ManyMessages(Snapshot(r)', t)
    <2>1. n = Done(drv[r][t]) BY <1>2 DEF Observe
    <2> QED BY <1>1, <2>1, DoneReturns DEF Moves
  <1>3. CASE ~ManyMessages(Snapshot(r)', t)
    <2>1. /\ n.pc = "stream" /\ n.mode = drv[r][t].mode /\ n.pos = pos
          /\ n.terminal = "none" /\ n.failed = "none"
          /\ n.message = StreamedMessage(Snapshot(r)', t, None)
      BY <1>1, <1>3, ObserveFields
    <2> HIDE DEF n
    <2>2. Observes(r, t, drv[r][t], n) BY <1>3, <2>1 DEF Observes
    <2> QED BY <1>1, <2>2 DEF Moves
  <1> QED BY <1>2, <1>3

LEMMA ResumeCallSeen ==
    ASSUME IInv, NEW r \in Runtimes, NEW t \in Turns, ResumeCall(r, t)
    PROVE  Seen
  <1>1. drv[r][t].pc = "call" /\ ~StartsRemotely(r, t) /\ life[r] = "up"
    BY DEF ResumeCall, At
  <1>2. Snapshot(r)' = Snapshot(r) BY DEF ResumeCall, LocalStep, Snapshot
  <1>3. Drive(r, t, Observe(drv[r][t], proto[r][t], Snapshot(r)', t, proto[r][t].checkpoint))
    BY <1>2 DEF ResumeCall
  <1>4. Moves(r, t) BY <1>1, <1>3, ObserveMoves
  <1> QED BY <1>1, <1>3, <1>4, LocalSeen, SameProducing, SameRemembering
          DEF ResumeCall, LocalStep

LEMMA QueueTurnSeen ==
    ASSUME IInv, Kept, NEW r \in Runtimes, NEW t \in Turns, QueueTurn(r, t)
    PROVE  Seen
  <1> DEFINE d      == drv[r][t]
             e      == [NewEvent("turn.status_changed", t) EXCEPT !.transportId = TRUE]
             drafts == IF IsTerminalTurn(Snapshot(r), t) THEN <<>> ELSE <<e>>
             ok     == Observe(d, proto'[r][t], Snapshot(r)', t, 0)
  <1>1. d.pc = "queue" /\ life[r] = "up" BY DEF QueueTurn, At
  <1>2. e \in Event /\ e.kind = "turn.status_changed" /\ e.status = "queued" /\ e.turn = t
        /\ PlainEvent(r, t, e)
    <2> DEFINE n == NewEvent("turn.status_changed", t)
    <2>1. "turn.status_changed" \in Kinds BY DEF Kinds, PlainKind
    <2>2. /\ n \in Event /\ n.turn = t /\ n.kind = "turn.status_changed" /\ n.status = "queued"
          /\ n.seq = NoFrame /\ n.checkpoint = 0
      BY <2>1, NewEventType DEF NewEvent
    <2> HIDE DEF n
    <2>3. e = [n EXCEPT !.transportId = TRUE] BY DEF n
    <2>4. e \in Event /\ e.turn = t /\ e.kind = n.kind /\ e.status = "queued"
          /\ e.seq = NoFrame /\ e.checkpoint = 0
      BY <2>2, <2>3 DEF Event
    <2> QED BY <1>1, <2>2, <2>4 DEF PlainEvent
  <1> HIDE DEF e
  <1>3. log' = Extended(<<e>>) => Appends(r, t)
    <2>1. <<e>> \in Drafts /\ TurnDrafts(t, <<e>>) BY <1>2, OneDraft DEF OpenStatus
    <2>2. t \in Latest.begun BY <1>1, DriverBegun DEF Admission
    <2>3. DraftsFit(<<e>>) BY <2>1, <2>2, TurnDraftsFit DEF IInv, DataOK
    <2>4. \A i \in 1..Len(<<e>>) : PlainEvent(r, t, <<e>>[i]) BY <1>2
    <2> QED BY <2>1, <2>3, <2>4, PlainAppends
  <1>4. PersistTurn(r, t, drafts, ok, Done(d)) /\ UNCHANGED <<life, remote>>
    BY DEF QueueTurn, e
  <1>5. drafts = <<>> \/ drafts = <<e>> OBVIOUS
  <1>6. Drive(r, t, ok) => Moves(r, t) BY <1>1, ObserveMoves
  <1>7. d.pc \notin Waits BY <1>1 DEF Waits
  <1> HIDE DEF drafts, ok
  <1> QED BY <1>1, <1>3, <1>4, <1>5, <1>6, <1>7, DoneMoves, PersistSeen

LEMMA ReceiveFrameSeen ==
    ASSUME IInv, NEW r \in Runtimes, NEW t \in Turns, ReceiveFrame(r, t)
    PROVE  Seen
  <1> DEFINE d     == drv[r][t]
             kind  == FrameAt(t, d.pos)
             known == KnownFrame(r, t, d.pos)
             n     == Received(d, proto[r][t], d.pos, known, kind)
             acc   == Accepts(d, proto[r][t], d.pos, known, kind)
  <1>1. /\ d.pc = "stream" /\ life[r] = "up" /\ Available(t, d.pos) /\ Produce(t, d.pos)
        /\ Drive(r, t, n) /\ LocalStep /\ proto' = [proto EXCEPT ![r][t].request = @ \/ acc]
    BY DEF ReceiveFrame, At
  <1>2. d.pos \in Nat BY DriverTyped DEF Driver
  <1>3. Remembering
    <2>0. proto \in [Runtimes -> [Turns -> Protocol]] BY SameTypes
    <2> HIDE DEF acc
    <2>1. \A q \in Runtimes, u \in Turns :
            /\ proto'[q][u].transportId = proto[q][u].transportId
            /\ proto'[q][u].checkpoint = proto[q][u].checkpoint
      BY <1>1, <2>0 DEF Protocol
    <2> QED BY <2>1 DEF Remembering, ProtoStep
  <1>4. Producing
    <2>0. remote \in [Turns -> Remote] BY SameTypes
    <2>1. CASE remote' = remote BY <2>1, SameProducing
    <2>2. CASE remote' = [remote EXCEPT ![t].produced = d.pos + 1]
               /\ d.pos = remote[t].produced /\ remote[t].end = "none"
      <3> DEFINE x == d.pos
      <3>1. x < Len(Script) BY <1>1, <1>2, <2>2 DEF Available
      <3>2. Len(Script) \in Nat BY ScriptAssumption
      <3> HIDE DEF d
      <3>3. /\ remote'[t].produced = d.pos + 1 /\ remote'[t].started = remote[t].started
            /\ remote'[t].end = remote[t].end
            /\ \A u \in Turns : u # t => remote'[u] = remote[u] /\ remote[u].produced \in Nat
        BY <2>0, <2>2 DEF Remote
      <3>4. RemoteStep(t) BY <1>2, <2>2, <3>1, <3>2, <3>3 DEF RemoteStep
      <3>5. \A u \in Turns : u # t => RemoteStep(u) BY <3>3 DEF RemoteStep
      <3> QED BY <3>4, <3>5 DEF Producing
    <2> QED BY <1>1, <2>1, <2>2 DEF Produce
  <1>5. Moves(r, t)
    <2>1. drv'[r][t] = n BY <1>1, DriveValue
    <2>2. Receives(r, t, d, n) BY <1>1 DEF Receives, LocalStep
    <2> HIDE DEF n
    <2> QED BY <2>1, <2>2 DEF Moves
  <1> HIDE DEF n, d
  <1> QED BY <1>1, <1>3, <1>4, <1>5, LocalSeen DEF LocalStep

LEMMA StreamEndsSeen ==
    ASSUME IInv, NEW r \in Runtimes, NEW t \in Turns,
           StreamCloses(r, t) \/ StreamDetached(r, t) \/ StreamBreaks(r, t)
    PROVE  Seen
  <1>1. PICK result, retryable : EndObservation(r, t, result, retryable)
    BY DEF StreamCloses, StreamDetached, StreamBreaks
  <1> DEFINE pc == IF UsageReceipts /\ result # "disconnected" /\ t \notin Snapshot(r).receipts
                   THEN "usage" ELSE "settle"
             n  == Ended(r, t, drv[r][t], result, retryable)
  <1>2. drv[r][t] \in Driver /\ drv[r][t].pc = "stream" /\ life[r] = "up"
    BY <1>1, DriverTyped DEF EndObservation, At
  <1>3. pc \in {"usage", "settle"} OBVIOUS
  <1>4. n = [drv[r][t] EXCEPT !.result = result, !.retryable = retryable, !.pc = pc]
    BY DEF Ended
  <1>5. Drive(r, t, n) BY <1>1 DEF EndObservation
  <1> HIDE DEF pc, n
  <1>6. SameFrame(drv[r][t], n) /\ n.pc = pc BY <1>2, <1>4 DEF SameFrame, Driver
  <1>7. Moves(r, t) BY <1>2, <1>3, <1>5, <1>6, AdvanceMoves DEF Advances
  <1> QED BY <1>1, <1>2, <1>5, <1>7, LocalSeen, SameProducing, SameRemembering
          DEF EndObservation, LocalStep

LEMMA ObservationFailures ==
    ASSUME NEW r, NEW t, NEW d \in Driver, NEW b \in BOOLEAN,
           NEW n \in AfterObservation(r, t, d, b)
    PROVE  \/ n = Done(d)
           \/ /\ SameFrame(d, n) /\ n.phase = "observation" /\ n.pc \in {"scheduled", "exhausted"}
  BY FailureMoves DEF AfterObservation

LEMMA SettleObservationSeen ==
    ASSUME IInv, NEW r \in Runtimes, NEW t \in Turns, SettleObservation(r, t)
    PROVE  Seen
  <1> DEFINE d == drv[r][t]
  <1>1. d \in Driver /\ d.pc = "settle" /\ life[r] = "up" /\ d.retryable \in BOOLEAN
    BY DriverTyped DEF SettleObservation, At, Driver
  <1>2. PICK n \in Settled(r, t, d) : Drive(r, t, n) BY DEF SettleObservation
  <1> HIDE DEF d
  <1>3. \/ n = Done(d)
        \/ n \in AfterObservation(r, t, d, d.retryable)
        \/ n = [d EXCEPT !.pc = "checkpoint"] /\ d.terminal = "none" /\ d.failed = "none"
        \/ n = [d EXCEPT !.pc = "terminal"] /\ d.terminal # "none" /\ d.failed = "none"
    BY <1>2 DEF Settled
  <1>4. Moves(r, t)
    <2>1. CASE n = Done(d) BY <1>2, <2>1, DoneMoves DEF d
    <2>2. CASE n \in AfterObservation(r, t, d, d.retryable)
      <3>1. n = Done(d) \/ (SameFrame(d, n) /\ n.phase = "observation"
                            /\ n.pc \in {"scheduled", "exhausted"})
        BY <1>1, <2>2, ObservationFailures
      <3>2. n # Done(d) => Advances(r, t, d, n) BY <1>1, <3>1 DEF Advances
      <3> QED BY <1>2, <2>1, <3>2, AdvanceMoves DEF d
    <2>3. CASE n = [d EXCEPT !.pc = "checkpoint"] /\ d.terminal = "none" /\ d.failed = "none"
      <3>1. SameFrame(d, n) /\ n.pc = "checkpoint" BY <1>1, <2>3, PcFrame
      <3>2. Advances(r, t, d, n) BY <1>1, <2>3, <3>1 DEF Advances
      <3> QED BY <1>2, <3>2, AdvanceMoves DEF d
    <2>4. CASE n = [d EXCEPT !.pc = "terminal"] /\ d.terminal # "none" /\ d.failed = "none"
      <3>1. SameFrame(d, n) /\ n.pc = "terminal" BY <1>1, <2>4, PcFrame
      <3>2. Advances(r, t, d, n) BY <1>1, <2>4, <3>1 DEF Advances
      <3> QED BY <1>2, <3>2, AdvanceMoves DEF d
    <2> QED BY <1>3, <2>1, <2>2, <2>3, <2>4
  <1> QED BY <1>1, <1>2, <1>4, LocalSeen, SameProducing, SameRemembering
          DEF SettleObservation, LocalStep

LEMMA RemembersSafe ==
    ASSUME IInv, NEW r \in Runtimes, NEW t \in Turns, NEW s, NEW sets \in BOOLEAN, DataOK',
           LogGrowth,
           proto' = [proto EXCEPT ![r] = [u \in Turns |->
                        IF u = t /\ sets THEN [Remembered(r, u) EXCEPT !.safe = s]
                        ELSE Remembered(r, u)]]
    PROVE  RemembersApplied(r)
  <1>1. proto \in [Runtimes -> [Turns -> Protocol]] BY SameTypes
  <1>2. \A u \in Turns : Remembered(r, u) \in Protocol
    <2> SUFFICES ASSUME NEW u \in Turns PROVE Remembered(r, u) \in Protocol OBVIOUS
    <2>1. proto[r][u] \in Protocol /\ rev[r] \in Nat BY <1>1 DEF IInv, DataOK
    <2>2. rev'[r] \in Nat /\ log' \in Seq(Entry) /\ rev'[r] <= Len(log')
      BY DEF DataOK, LogOK, Bounds
    <2> QED BY <2>1, <2>2, RememberType DEF Remembered
  <1>3. \A p \in Protocol : /\ [p EXCEPT !.safe = s].transportId = p.transportId
                            /\ [p EXCEPT !.safe = s].checkpoint = p.checkpoint
    BY DEF Protocol
  <1>4. \A u \in Turns : /\ proto'[r][u].transportId = Remembered(r, u).transportId
                         /\ proto'[r][u].checkpoint = Remembered(r, u).checkpoint
    BY <1>1, <1>2, <1>3
  <1> QED BY <1>1, <1>4 DEF RemembersApplied, DataOK

LEMMA InterruptMoves ==
    ASSUME IInv, NEW r \in Runtimes, NEW t \in Turns, drv[r][t].pc = "frame",
           Drive(r, t, Interrupt(drv[r][t], "local"))
    PROVE  Moves(r, t)
  <1> DEFINE n == Interrupt(drv[r][t], "local")
  <1>1. drv[r][t] \in Driver /\ drv'[r][t] = n BY DriverTyped, DriveValue
  <1>2. /\ n.pc = "settle" /\ n.failed = "local" /\ n.mode = drv[r][t].mode
        /\ n.pos = drv[r][t].pos /\ n.expected = drv[r][t].expected
        /\ n.terminal = drv[r][t].terminal
    BY <1>1 DEF Interrupt, Driver
  <1> HIDE DEF n
  <1>3. Projects(r, t, drv[r][t], n) BY <1>2 DEF Projects
  <1> QED BY <1>1, <1>3 DEF Moves

LEMMA ProjectFrameSeen ==
    ASSUME IInv, Kept, NEW r \in Runtimes, NEW t \in Turns, ProjectFrame(r, t)
    PROVE  Seen
  <1> DEFINE d      == drv[r][t]
             s      == d.pos - 1
             e      == FrameEvent(r, t, d, s)
             drafts == FrameDrafts(r, t, d, s)
             own    == IF e.message = None THEN d.message ELSE e.message
             many   == ManyMessages(Snapshot(r)', t)
             sets   == ~d.unsafe /\ ~many
             failed == Interrupt(d, "local")
             m      == RefreshedMessage(Snapshot(r)', t, own)
             on     == [d EXCEPT !.pc = "stream", !.message = m]
             ok     == IF many THEN failed ELSE on
  <1>1. d \in Driver /\ d.pc = "frame" /\ life[r] = "up" /\ UNCHANGED <<life, remote>>
    BY DriverTyped DEF ProjectFrame, At
  <1>2. \/ /\ Stored(r, "turn", t, drafts) /\ Wake(r) /\ UNCHANGED spent
           /\ proto' = [proto EXCEPT ![r] = [u \in Turns |->
                 IF u = t /\ ~d.unsafe /\ ~many
                 THEN [Remembered(r, u) EXCEPT !.safe = s] ELSE Remembered(r, u)]]
           /\ Drive(r, t, ok)
        \/ RebaseTurn(r, t, drafts)
        \/ ThrowTurn(r, t, drafts, failed)
    BY DEF ProjectFrame
  <1>3. sets \in BOOLEAN /\ Busy(r) /\ DataOK' /\ LogGrowth BY <1>1 DEF Busy, Waits, Kept, IInv
  <1>4. \/ drafts = <<>> /\ KnownFrame(r, t, FrameNo(r, t))
        \/ drafts = <<e>> /\ drafts # <<>> /\ ~KnownFrame(r, t, FrameNo(r, t))
    BY DEF FrameDrafts, FrameNo
  <1>5. drafts # <<>> /\ log' = Extended(drafts) => AppendsFrame(r, t)
    BY <1>1, <1>4 DEF AppendsFrame, FrameNo
  <1> HIDE DEF drafts, e, own, s
  <1>6. CASE /\ Stored(r, "turn", t, drafts) /\ Wake(r) /\ UNCHANGED spent
             /\ proto' = [proto EXCEPT ![r] = [u \in Turns |->
                   IF u = t /\ ~d.unsafe /\ ~many
                   THEN [Remembered(r, u) EXCEPT !.safe = s] ELSE Remembered(r, u)]]
             /\ Drive(r, t, ok)
    <2>1. proto' = [proto EXCEPT ![r] = [u \in Turns |->
             IF u = t /\ sets THEN [Remembered(r, u) EXCEPT !.safe = s] ELSE Remembered(r, u)]]
      BY <1>6
    <2>2. Drive(r, t, ok) BY <1>6
    <2>3. RemembersApplied(r)
      <3> HIDE DEF sets
      <3> QED BY <1>3, <2>1, RemembersSafe
    <2>4. Moves(r, t)
      <3>1. CASE many BY <1>1, <2>2, <3>1, InterruptMoves
      <3>2. CASE ~many
        <4>1. drv'[r][t] = on BY <2>2, <3>2, DriveValue
        <4>2. \/ KnownFrame(r, t, FrameNo(r, t)) /\ log' = log /\ rev'[r] = rev[r]
              \/ AppendsFrame(r, t) /\ rev'[r] = Len(log') /\ meta'[r] = Len(log')
          BY <1>4, <1>5, <1>6, AppliedRevisions DEF Stored, Stay
        <4>3. \E x : m = StreamedMessage(Snapshot(r)', t, x) BY DEF RefreshedMessage
        <4> HIDE DEF m
        <4>4. /\ on.pc = "stream" /\ on.failed = d.failed /\ on.mode = d.mode
              /\ on.pos = d.pos /\ on.expected = d.expected /\ on.terminal = d.terminal
              /\ on.message = m
          BY <1>1 DEF Driver
        <4> HIDE DEF on, d
        <4>5. Projects(r, t, d, on) BY <1>1, <3>2, <4>2, <4>3, <4>4 DEF Projects
        <4> QED BY <4>1, <4>5 DEF Moves, d
      <3> QED BY <3>1, <3>2
    <2>5. Apply(r, log') \/ Stay BY <1>6 DEF Stored
    <2>6. log' = log \/ (rev[r] = Len(log) /\ Appends(r, t)) BY <1>5, <1>6 DEF Stored, Appends
    <2>7. Others(r, t) /\ Alone(r) BY <1>6, DriveValue, WakeAlone
    <2> QED BY <1>1, <1>3, <1>6, <2>3, <2>4, <2>5, <2>6, <2>7, SteppedSeen
  <1>7. CASE RebaseTurn(r, t, drafts) \/ ThrowTurn(r, t, drafts, failed)
    <2>1. PersistTurn(r, t, drafts, failed, failed) BY <1>7 DEF PersistTurn
    <2>2. d.pc \notin Waits BY <1>1 DEF Waits
    <2>3. Drive(r, t, failed) => Moves(r, t) BY <1>1, InterruptMoves
    <2>4. rev[r] = Len(log) /\ drafts # <<>> /\ log' = Extended(drafts) => Appends(r, t)
      BY <1>5 DEF Appends
    <2> HIDE DEF failed
    <2> QED BY <1>1, <2>1, <2>2, <2>3, <2>4, PersistSeen
  <1> HIDE DEF d, many, ok, failed
  <1> QED BY <1>2, <1>6, <1>7

LEMMA PersistCheckpointSeen ==
    ASSUME IInv, Kept, NEW r \in Runtimes, NEW t \in Turns, PersistCheckpoint(r, t)
    PROVE  Seen
  <1> DEFINE d == drv[r][t]
  <1>1. d \in Driver /\ d.pos \in Nat /\ d.pc = "checkpoint" /\ life[r] = "up"
        /\ UNCHANGED <<life, remote>>
    BY DriverTyped DEF Driver, PersistCheckpoint, At
  <1>2. CASE \E covered \in {0, d.pos} : \E next \in AfterObservation(r, t, d, TRUE) :
               PersistTurn(r, t, CheckpointDrafts(r, t, covered),
                   IF covered > 0 /\ ~IsOpenTurn(Snapshot(r), t) THEN Done(d) ELSE next,
                   Done(d))
    <2>1. PICK covered \in {0, d.pos}, next \in AfterObservation(r, t, d, TRUE) :
               PersistTurn(r, t, CheckpointDrafts(r, t, covered),
                   IF covered > 0 /\ ~IsOpenTurn(Snapshot(r), t) THEN Done(d) ELSE next,
                   Done(d))
      BY <1>2
    <2> DEFINE ok == IF covered > 0 /\ ~IsOpenTurn(Snapshot(r), t) THEN Done(d) ELSE next
               drafts == CheckpointDrafts(r, t, covered)
    <2>2. drafts # <<>> => covered = d.pos /\ d.pos > 0 /\ IsOpenTurn(Snapshot(r), t)
      BY <1>1 DEF CheckpointDrafts
    <2>3. drafts # <<>> /\ log' = Extended(drafts) => Appends(r, t)
      BY <1>1, <2>2 DEF Appends, AppendsCheckpoint
    <2>4. PersistTurn(r, t, drafts, ok, Done(d)) BY <2>1
    <2>5. ok = Done(d) \/ (SameFrame(d, ok) /\ ok.phase = "observation"
                           /\ ok.pc \in {"scheduled", "exhausted"})
      BY <1>1, ObservationFailures
    <2> HIDE DEF ok, drafts
    <2>6. ok # Done(d) => Advances(r, t, d, ok) BY <1>1, <2>5 DEF Advances
    <2>7. Drive(r, t, ok) => Moves(r, t) BY <2>6, AdvanceMoves, DoneMoves
    <2>8. d.pc \notin Waits BY <1>1 DEF Waits
    <2> QED BY <1>1, <2>3, <2>4, <2>7, <2>8, DoneMoves, PersistSeen
  <1>3. CASE Drive(r, t, Done(d)) /\ UNCHANGED <<log, rev, meta, proto, can>>
    BY <1>1, <1>3, GiveUpSeen
  <1> QED BY <1>2, <1>3 DEF PersistCheckpoint

LEMMA PersistTerminalSeen ==
    ASSUME IInv, Kept, NEW r \in Runtimes, NEW t \in Turns, PersistTerminal(r, t)
    PROVE  Seen
  <1> DEFINE d      == drv[r][t]
             s      == d.expected - 1
             e      == TerminalEvent(r, t, d)
             drafts == IF IsTerminalTurn(Snapshot(r), t) THEN <<>> ELSE <<e>>
  <1>1. d.pc = "terminal" /\ life[r] = "up" /\ UNCHANGED <<life, remote>> /\ d.pc \notin Waits
    BY DEF PersistTerminal, At, Waits
  <1>2. drafts # <<>> /\ log' = Extended(drafts) => Appends(r, t)
    BY <1>1 DEF Appends, AppendsTerminal
  <1>3. \/ Drive(r, t, Done(d)) /\ UNCHANGED <<log, rev, meta, proto, can>>
        \/ /\ Stored(r, "turn", t, drafts) /\ Wake(r) /\ Drive(r, t, Done(d))
           /\ proto' = [proto EXCEPT ![r] = [u \in Turns |->
                 IF u = t THEN [Remembered(r, u) EXCEPT !.safe = s] ELSE Remembered(r, u)]]
        \/ RebaseTurn(r, t, drafts) \/ ThrowTurn(r, t, drafts, Done(d))
    BY DEF PersistTerminal
  <1> HIDE DEF drafts, e, s
  <1>4. CASE Drive(r, t, Done(d)) /\ UNCHANGED <<log, rev, meta, proto, can>>
    BY <1>1, <1>4, GiveUpSeen
  <1>5. CASE /\ Stored(r, "turn", t, drafts) /\ Wake(r) /\ Drive(r, t, Done(d))
             /\ proto' = [proto EXCEPT ![r] = [u \in Turns |->
                   IF u = t THEN [Remembered(r, u) EXCEPT !.safe = s] ELSE Remembered(r, u)]]
    <2>0. Busy(r) /\ DataOK' /\ LogGrowth BY <1>1 DEF Busy, Kept, IInv
    <2>1. proto' = [proto EXCEPT ![r] = [u \in Turns |->
             IF u = t /\ TRUE THEN [Remembered(r, u) EXCEPT !.safe = s] ELSE Remembered(r, u)]]
      BY <1>5
    <2>2. RemembersApplied(r) BY <2>0, <2>1, RemembersSafe
    <2>3. Apply(r, log') \/ Stay BY <1>5 DEF Stored
    <2>4. log' = log \/ (rev[r] = Len(log) /\ Appends(r, t)) BY <1>2, <1>5 DEF Stored
    <2>5. Others(r, t) /\ Alone(r) BY <1>5, DriveValue, WakeAlone
    <2>6. Moves(r, t) BY <1>5, DoneMoves
    <2> QED BY <1>1, <1>5, <2>0, <2>2, <2>3, <2>4, <2>5, <2>6, SteppedSeen
  <1>6. CASE RebaseTurn(r, t, drafts) \/ ThrowTurn(r, t, drafts, Done(d))
    <2>1. PersistTurn(r, t, drafts, Done(d), Done(d)) BY <1>6 DEF PersistTurn
    <2> QED BY <1>1, <1>2, <2>1, DoneMoves, PersistSeen
  <1> QED BY <1>3, <1>4, <1>5, <1>6

\* The caller's operations.
LEMMA CallerSeen ==
    ASSUME IInv, NEW r \in Runtimes, NEW t \in Turns, life[r] = "up", NEW d,
           UNCHANGED <<log, rev, meta, proto, life, remote>>, Drive(r, t, d), Moves(r, t),
           can' = can \/ \E c : can' = [can EXCEPT ![r][t] = c],
           Cancels(r, t)
    PROVE  Seen
  <1>0. can \in [Runtimes -> [Turns -> CancelPc]] BY DEF IInv, DataOK
  <1>1. LogStep /\ Reading BY SameReading DEF LogStep
  <1>2. Others(r, t) /\ Alone(r) BY <1>0, DriveValue DEF Alone
  <1>3. Living /\ Apart /\ Driving BY <1>2, AloneLiving, OthersDriving
  <1>4. Cancelling
    <2> SUFFICES ASSUME NEW q \in Runtimes, NEW u \in Turns PROVE Cancels(q, u)
      BY DEF Cancelling
    <2>1. q # r \/ u # t => can'[q][u] = can[q][u] BY <1>0
    <2> QED BY <2>1, SameCancel
  <1> QED BY <1>1, <1>3, <1>4, SameProducing, SameRemembering DEF Seen

LEMMA BeginAdmissionSeen ==
    ASSUME IInv, NEW r \in Runtimes, NEW t \in Turns, NEW c, BeginAdmission(r, t, c)
    PROVE  Seen
  <1> DEFINE d == [Idle EXCEPT !.pc = "admit", !.continues = c]
  <1>1. d.pc = "admit" /\ d.mode = "start" /\ d.terminal = "none" BY DEF Idle
  <1>2. Drive(r, t, d) BY DEF BeginAdmission
  <1> HIDE DEF d
  <1>3. Begins(r, t, d) BY <1>1 DEF Begins, BeginAdmission
  <1>4. Moves(r, t) BY <1>2, <1>3, DriveValue DEF Moves
  <1> QED BY <1>2, <1>4, CallerSeen, SameCancel DEF BeginAdmission

LEMMA DetachRemains ==
    ASSUME IInv, NEW r \in Runtimes, NEW t \in Turns
    PROVE  Remains(drv[r][t], Detach(r, t))
  <1>1. drv[r][t] \in Driver BY DriverTyped
  <1> QED BY <1>1 DEF Detach, Remains, SameFrame, Driver

LEMMA ResumeTurnSeen ==
    ASSUME IInv, NEW r \in Runtimes, NEW t \in Turns, ResumeTurn(r, t)
    PROVE  Seen
  <1> DEFINE on == [Idle EXCEPT !.pc = "attempt", !.mode = "resume"]
             d  == IF Running(r, t) THEN drv[r][t] ELSE on
  <1>1. on.pc = "attempt" /\ on.mode = "resume" /\ on.terminal = "none" BY DEF Idle
  <1>2. Drive(r, t, d) /\ life[r] = "up" BY DEF ResumeTurn
  <1> HIDE DEF on
  <1>3. Resumes(r, t, on) BY <1>1 DEF Resumes, ResumeTurn
  <1>4. Moves(r, t) BY <1>2, <1>3, DriveValue, SameMoves DEF Moves
  <1> HIDE DEF d
  <1> QED BY <1>2, <1>4, CallerSeen, SameCancel DEF ResumeTurn

LEMMA StopObservingSeen ==
    ASSUME IInv, NEW r \in Runtimes, NEW t \in Turns, StopObserving(r, t)
    PROVE  Seen
  <1>1. Drive(r, t, Detach(r, t)) /\ life[r] = "up" BY DEF StopObserving
  <1>2. Moves(r, t) BY <1>1, DriveValue, DetachRemains DEF Moves
  <1> QED BY <1>1, <1>2, CallerSeen, SameCancel DEF StopObserving

LEMMA CancelTurnSeen ==
    ASSUME IInv, NEW r \in Runtimes, NEW t \in Turns, CancelTurn(r, t)
    PROVE  Seen
  <1> DEFINE preflight == ~proto[r][t].transportId /\ Running(r, t) /\ ProviderContext
             next == IF IsTerminalTurn(Snapshot(r), t) THEN "over"
                     ELSE IF preflight THEN "preflight"
                     ELSE IF ~Cancellation THEN "unsupported" ELSE "request"
             d == IF next = "preflight" THEN [drv[r][t] EXCEPT !.aborted = TRUE] ELSE drv[r][t]
  <1>1. /\ can' = [can EXCEPT ![r][t] = next] /\ Drive(r, t, d) /\ life[r] = "up"
        /\ "cancel" \in Calls
    BY DEF CancelTurn
  <1>2. \/ next = "over" /\ IsTerminalTurn(Snapshot(r), t)
        \/ next = "preflight" /\ ProviderContext
        \/ next \in {"unsupported", "request"}
    OBVIOUS
  <1>3. Remains(drv[r][t], d)
    <2>1. drv[r][t] \in Driver BY DriverTyped
    <2> QED BY <2>1 DEF Remains, SameFrame, Driver
  <1> HIDE DEF next, d
  <1>4. can'[r][t] = next BY <1>1 DEF IInv, DataOK
  <1>5. Cancels(r, t) BY <1>1, <1>2, <1>4 DEF Cancels, CancelMove
  <1>6. Moves(r, t) BY <1>1, <1>3, DriveValue DEF Moves
  <1> QED BY <1>1, <1>5, <1>6, CallerSeen DEF CancelTurn

\* The persistence of a cancellation step.
LEMMA PersistCancelSeen ==
    ASSUME IInv, Kept, NEW r \in Runtimes, NEW t \in Turns, NEW drafts, NEW ok,
           life[r] = "up", can[r][t] # "off", UNCHANGED <<life, remote>>,
           PersistCancel(r, t, drafts, ok), drafts # <<>>,
           log' = Extended(drafts) => Appends(r, t),
           Apply(r, log') /\ can'[r][t] = ok => Cancels(r, t),
           Others(r, t), Moves(r, t), \A q \in Runtimes : q # r => drv'[q] = drv[q]
    PROVE  Seen
  <1>0. can \in [Runtimes -> [Turns -> CancelPc]] /\ Busy(r) /\ DataOK' /\ LogGrowth
    BY DEF IInv, DataOK, Busy, Kept
  <1>1. CASE /\ Stored(r, "cancel", t, drafts) /\ RememberApplied(r) /\ UNCHANGED spent
             /\ can' = [can EXCEPT ![r] = [Notified(r, Snapshot(r)') EXCEPT ![t] = ok]]
    <2>1. Apply(r, log') /\ log' = Extended(drafts) /\ rev[r] = Len(log) BY <1>1 DEF Stored
    <2>2. LogStep BY <2>1 DEF LogStep, Appends
    <2>3. Reading BY <1>0, <2>1, AppliedReading
    <2>4. Remembering BY <1>0, <1>1, <2>1, RemembersPlain, AppliedProto
    <2>5. can'[r] = [Notified(r, Snapshot(r)') EXCEPT ![t] = ok]
          /\ \A q \in Runtimes : q # r => can'[q] = can[q]
      BY <1>0, <1>1
    <2>6. /\ can'[r][t] = ok
          /\ \A u \in Turns : u # t => can'[r][u] = Notified(r, Snapshot(r)')[u]
      BY <2>5 DEF Notified
    <2>7. Cancelling
      <3> SUFFICES ASSUME NEW q \in Runtimes, NEW u \in Turns PROVE Cancels(q, u)
        BY DEF Cancelling
      <3>1. CASE q # r BY <2>5, <3>1, SameCancel
      <3>2. CASE q = r /\ u # t BY <1>0, <2>1, <2>6, <3>2, NotifiedCancel
      <3>3. CASE q = r /\ u = t BY <2>1, <2>6, <3>3
      <3> QED BY <3>1, <3>2, <3>3
    <2>8. Living /\ Apart BY <2>5, AloneLiving DEF Alone
    <2> QED BY <2>2, <2>3, <2>4, <2>7, <2>8, SameProducing, OthersDriving DEF Seen
  <1>2. CASE Rebased(r, "cancel", t, drafts) /\ RememberApplied(r) /\ Wake(r)
    <2>1. Apply(r, log') /\ log' = log BY <1>2 DEF Rebased
    <2>2. RemembersApplied(r) BY <1>0, <1>2, RemembersPlain
    <2>3. Alone(r) BY <1>2, WakeAlone
    <2> QED BY <1>0, <1>2, <2>1, <2>2, <2>3, SteppedSeen
  <1>3. CASE /\ Thrown(r, "cancel", t, drafts) /\ UNCHANGED proto
             /\ can' = [can EXCEPT ![r][t] = "done"]
    <2>1. Stay /\ (log' = log \/ (rev[r] = Len(log) /\ log' = Extended(drafts)))
      BY <1>3 DEF Thrown
    <2>2. LogStep BY <2>1 DEF LogStep, Appends
    <2>3. Reading BY <1>0, <2>1, AppliedReading
    <2>4. /\ \A q \in Runtimes : q # r => can'[q] = can[q] /\ can'[r][t] = "done"
          /\ \A u \in Turns : u # t => can'[r][u] = can[r][u]
      BY <1>0, <1>3
    <2>5. Cancels(r, t) BY <1>0, <1>3 DEF Cancels, CancelMove
    <2>6. Cancelling
      <3> SUFFICES ASSUME NEW q \in Runtimes, NEW u \in Turns PROVE Cancels(q, u)
        BY DEF Cancelling
      <3> QED BY <2>4, <2>5, SameCancel
    <2>7. Living /\ Apart BY <2>4, AloneLiving DEF Alone
    <2> QED BY <1>3, <2>2, <2>3, <2>6, <2>7, SameProducing, SameRemembering, OthersDriving
            DEF Seen
  <1> QED BY <1>1, <1>2, <1>3 DEF PersistCancel

LEMMA SameOthers ==
    ASSUME NEW r \in Runtimes, NEW t \in Turns, UNCHANGED drv
    PROVE  Others(r, t) /\ Moves(r, t) /\ \A q \in Runtimes : q # r => drv'[q] = drv[q]
  BY SameMoves DEF Others

LEMMA CancelBegun ==
    ASSUME IInv, NEW r \in Runtimes, NEW t \in Turns, can[r][t] # "off"
    PROVE  t \in Latest.begun
  BY DEF IInv, OpsBegun

LEMMA CancelPreflightSeen ==
    ASSUME IInv, Kept, NEW r \in Runtimes, NEW t \in Turns, CancelPreflight(r, t)
    PROVE  Seen
  <1> DEFINE a == NewEvent("turn.cancellation_requested", t)
             b == NewEvent("turn.cancelled", t)
             drafts == <<a, b>>
  <1>0. can[r][t] = "preflight" /\ life[r] = "up" /\ UNCHANGED <<drv, life, remote>>
        /\ PersistCancel(r, t, drafts, "over")
    BY DEF CancelPreflight
  <1>1. "turn.cancellation_requested" \in Kinds /\ "turn.cancelled" \in Kinds
    BY DEF Kinds, CancelKind, TerminalKind
  <1>2. /\ a \in Event /\ a.turn = t /\ a.kind = "turn.cancellation_requested"
        /\ b \in Event /\ b.turn = t /\ b.kind = "turn.cancelled"
    BY <1>1, NewEventType
  <1>3. PlainEvent(r, t, a) /\ PlainEvent(r, t, b) BY <1>0 DEF PlainEvent, NewEvent
  <1> HIDE DEF a, b
  <1>4. drafts \in Drafts /\ TurnDrafts(t, drafts) /\ drafts # <<>>
    BY <1>2 DEF Drafts, TurnDrafts
  <1>5. t \in Latest.begun BY <1>0, CancelBegun
  <1>6. DraftsFit(drafts)
    <2> HIDE DEF drafts
    <2> QED BY <1>4, <1>5, TurnDraftsFit DEF IInv, DataOK
  <1>7. \A i \in 1..Len(drafts) : PlainEvent(r, t, drafts[i])
    <2> SUFFICES ASSUME NEW i \in 1..Len(drafts) PROVE PlainEvent(r, t, drafts[i]) OBVIOUS
    <2>1. i = 1 \/ i = 2 OBVIOUS
    <2> QED BY <1>3, <2>1
  <1>8. can'[r][t] = "over" => Cancels(r, t) BY <1>0 DEF Cancels, CancelMove
  <1>a. drafts[1].kind \in Openers BY <1>2 DEF Openers
  <1> HIDE DEF drafts
  <1>9. log' = Extended(drafts) => Appends(r, t) BY <1>4, <1>6, <1>7, <1>a, PlainAppends
  <1> QED BY <1>0, <1>4, <1>8, <1>9, SameOthers, PersistCancelSeen

LEMMA CancelUnsupportedSeen ==
    ASSUME IInv, Kept, NEW r \in Runtimes, NEW t \in Turns, CancelUnsupported(r, t)
    PROVE  Seen
  <1> DEFINE k == "turn.cancellation_unsupported"
             drafts == <<NewEvent(k, t)>>
  <1>0. /\ can[r][t] = "unsupported" /\ life[r] = "up" /\ UNCHANGED <<life, remote>>
        /\ PersistCancel(r, t, drafts, "done") /\ drafts # <<>>
        /\ UNCHANGED drv \/ Drive(r, t, Detach(r, t))
    BY DEF CancelUnsupported
  <1>1. k \in Kinds \ {"message.created", "turn.started", "turn.completed",
                       "message.text_appended"}
    BY DEF Kinds, CancelKind
  <1>2. t \in Latest.begun BY <1>0, CancelBegun
  <1>3. PlainEvent(r, t, NewEvent(k, t)) BY DEF PlainEvent, NewEvent
  <1>4. log' = Extended(drafts) => Appends(r, t) BY <1>1, <1>2, <1>3, NewAppends
  <1>5. can'[r][t] = "done" => Cancels(r, t) BY <1>0 DEF Cancels, CancelMove
  <1>6. Others(r, t) /\ Moves(r, t) /\ \A q \in Runtimes : q # r => drv'[q] = drv[q]
    <2>1. CASE UNCHANGED drv BY <2>1, SameOthers
    <2>2. CASE Drive(r, t, Detach(r, t)) BY <2>2, DriveValue, DetachRemains DEF Moves
    <2> QED BY <1>0, <2>1, <2>2
  <1> HIDE DEF drafts
  <1> QED BY <1>0, <1>4, <1>5, <1>6, PersistCancelSeen

LEMMA RequestCancellationSeen ==
    ASSUME IInv, Kept, NEW r \in Runtimes, NEW t \in Turns, RequestCancellation(r, t)
    PROVE  Seen
  <1> DEFINE k == "turn.cancellation_requested"
             drafts == <<NewEvent(k, t)>>
             ok == IF proto'[r][t].transportId THEN "send"
                   ELSE IF ~IsOpenTurn(Snapshot(r)', t) THEN "over" ELSE "wait"
  <1>0. /\ can[r][t] = "request" /\ life[r] = "up" /\ UNCHANGED <<drv, life, remote>>
        /\ PersistCancel(r, t, drafts, ok) /\ drafts # <<>>
    BY DEF RequestCancellation
  <1>1. k \in Kinds \ {"message.created", "turn.started", "turn.completed",
                       "message.text_appended"}
    BY DEF Kinds, CancelKind
  <1>2. t \in Latest.begun BY <1>0, CancelBegun
  <1>3. PlainEvent(r, t, NewEvent(k, t)) BY DEF PlainEvent, NewEvent
  <1>4. log' = Extended(drafts) => Appends(r, t) BY <1>1, <1>2, <1>3, NewAppends
  <1>5. Apply(r, log') /\ can'[r][t] = ok => Cancels(r, t)
    <2> SUFFICES ASSUME Apply(r, log'), can'[r][t] = ok PROVE Cancels(r, t) OBVIOUS
    <2>1. Snapshot(r)' = Latest' BY AppliedSnapshot DEF Kept, IInv
    <2>2. ok \in {"send", "wait"} \/ (ok = "over" /\ ~IsOpenTurn(Latest', t)) BY <2>1
    <2> HIDE DEF ok
    <2> QED BY <1>0, <2>2 DEF Cancels, CancelMove
  <1> HIDE DEF drafts, ok
  <1> QED BY <1>0, <1>4, <1>5, SameOthers, PersistCancelSeen

LEMMA SendCancellationSeen ==
    ASSUME IInv, NEW r \in Runtimes, NEW t \in Turns, SendCancellation(r, t)
    PROVE  Seen
  <1>0. can \in [Runtimes -> [Turns -> CancelPc]] /\ remote \in [Turns -> Remote]
    BY DEF IInv, DataOK, Shapes
  <1>1. /\ can[r][t] = "send" /\ life[r] = "up"
        /\ UNCHANGED <<log, rev, meta, proto, drv, life>>
        /\ remote' = [remote EXCEPT ![t].cancel = TRUE] \/ UNCHANGED remote
    BY DEF SendCancellation
  <1>2. PICK c \in {"over", "done"} : can' = [can EXCEPT ![r][t] = c]
                                      /\ (c = "over" => remote[t].end # "none")
    BY DEF SendCancellation
  <1>3. can'[r][t] = c BY <1>0, <1>2
  <1>4. Cancels(r, t) BY <1>1, <1>2, <1>3 DEF Cancels, CancelMove
  <1>5. Cancelling
    <2> SUFFICES ASSUME NEW q \in Runtimes, NEW u \in Turns PROVE Cancels(q, u)
      BY DEF Cancelling
    <2>1. q # r \/ u # t => can'[q][u] = can[q][u] BY <1>0, <1>2
    <2> QED BY <1>4, <2>1, SameCancel
  <1>6. Alone(r) BY <1>0, <1>1, <1>2 DEF Alone
  <1>7. Living /\ Apart BY <1>1, <1>6, AloneLiving
  <1>8. Producing
    <2>1. \A u \in Turns : /\ remote'[u].started = remote[u].started
                           /\ remote'[u].produced = remote[u].produced
                           /\ remote'[u].end = remote[u].end /\ remote[u].produced \in Nat
      BY <1>0, <1>1 DEF Remote
    <2> QED BY <2>1 DEF Producing, RemoteStep
  <1>9. LogStep /\ Reading BY <1>1, SameReading DEF LogStep
  <1> QED BY <1>1, <1>5, <1>7, <1>8, <1>9, SameOthers, OthersDriving, SameRemembering DEF Seen

\* Synchronization, restarts and the remote.
LEMMA SynchronizeSeen ==
    ASSUME IInv, Kept, NEW r \in Runtimes, Synchronize(r)
    PROVE  Seen
  <1>0. /\ life[r] = "up" /\ log' = log /\ Apply(r, log') /\ Wake(r) /\ UNCHANGED <<life, remote>>
        /\ Busy(r) /\ DataOK' /\ LogGrowth /\ RememberApplied(r)
    BY DEF Synchronize, Busy, Kept, IInv
  <1> DEFINE next(t) == IF Observing(r, t) /\ IsTerminalTurn(Latest, t)
                        THEN [drv[r][t] EXCEPT !.disconnected = TRUE] ELSE drv[r][t]
  <1>1. drv \in [Runtimes -> [Turns -> Driver]] BY DEF IInv, Shapes
  <1>2. drv' = [drv EXCEPT ![r] = [t \in Turns |-> next(t)]] BY <1>1 DEF Synchronize
  <1>3. \A t \in Turns : Remains(drv[r][t], next(t))
    <2> SUFFICES ASSUME NEW d \in Driver
                 PROVE  Remains(d, [d EXCEPT !.disconnected = TRUE]) /\ Remains(d, d)
      BY DriverTyped
    <2> QED BY DEF Driver, Remains, SameFrame
  <1> HIDE DEF next
  <1>4. /\ \A q \in Runtimes : q # r => drv'[q] = drv[q]
        /\ \A t \in Turns : drv'[r][t] = next(t)
    BY <1>1, <1>2
  <1>5. Driving
    <2> SUFFICES ASSUME NEW q \in Runtimes, NEW u \in Turns PROVE Moves(q, u)
      BY DEF Driving
    <2>1. CASE q = r BY <1>3, <1>4, <2>1 DEF Moves
    <2>2. CASE q # r BY <1>4, <2>2, SameMoves
    <2> QED BY <2>1, <2>2
  <1>6. Living /\ Apart BY <1>0, <1>4, WakeAlone, AloneLiving
  <1>7. Reading /\ LogStep BY <1>0, AppliedReading DEF LogStep
  <1>8. Remembering BY <1>0, RemembersPlain, AppliedProto
  <1>9. Cancelling BY <1>0, WakeCancelling
  <1> QED BY <1>0, <1>5, <1>6, <1>7, <1>8, <1>9, SameProducing DEF Seen

LEMMA CrashSeen ==
    ASSUME IInv, NEW r \in Runtimes, Crash(r)
    PROVE  Seen
  <1>0. /\ drv \in [Runtimes -> [Turns -> Driver]] /\ can \in [Runtimes -> [Turns -> CancelPc]]
        /\ life \in [Runtimes -> {"up", "down", "replayed"}]
    BY DEF IInv, Shapes, DataOK
  <1>1. /\ \A q \in Runtimes : q # r => drv'[q] = drv[q] /\ can'[q] = can[q] /\ life'[q] = life[q]
        /\ \A t \in Turns : drv'[r][t] = Idle /\ can'[r][t] = "off"
        /\ life[r] = "up" /\ life'[r] = "down" /\ UNCHANGED <<log, rev, meta, proto>>
    BY <1>0 DEF Crash
  <1>2. LogStep /\ Reading BY <1>1, SameReading DEF LogStep
  <1>3. Living
    <2> SUFFICES ASSUME NEW q \in Runtimes PROVE LifeStep(q) BY DEF Living
    <2>1. CASE q = r BY <1>1, <2>1, IdleType DEF LifeStep
    <2>2. CASE q # r BY <1>1, <2>2 DEF LifeStep
    <2> QED BY <2>1, <2>2
  <1>4. Producing
    <2>1. CASE UNCHANGED remote BY <2>1, SameProducing
    <2>2. CASE \E t \in Turns : drv[r][t].pc = "inflight" /\ RunRemotely(t)
      BY <1>1, <2>2, RunProducing, IdleType
    <2> QED BY <2>1, <2>2 DEF Crash
  <1>5. Cancelling
    <2> SUFFICES ASSUME NEW q \in Runtimes, NEW u \in Turns PROVE Cancels(q, u)
      BY DEF Cancelling
    <2>1. CASE q = r BY <1>1, <2>1 DEF Cancels, CancelMove
    <2>2. CASE q # r BY <1>1, <2>2, SameCancel
    <2> QED BY <2>1, <2>2
  <1>6. Driving
    <2>0. \A d : Returns(d, Idle) BY DEF Returns, Idle
    <2> SUFFICES ASSUME NEW q \in Runtimes, NEW u \in Turns PROVE Moves(q, u)
      BY DEF Driving
    <2>1. CASE q = r BY <1>1, <2>0, <2>1 DEF Moves
    <2>2. CASE q # r BY <1>1, <2>2, SameMoves
    <2> QED BY <2>1, <2>2
  <1>7. Apart BY <1>1 DEF Apart
  <1> QED BY <1>1, <1>2, <1>3, <1>4, <1>5, <1>6, <1>7, SameRemembering DEF Seen

LEMMA StillSeen ==
    ASSUME IInv, UNCHANGED <<log, drv, can>>, Reading, Living, Producing, Remembering
    PROVE  Seen
  <1>1. Driving BY SameMoves DEF Driving
  <1>2. Cancelling BY SameCancel DEF Cancelling
  <1> QED BY <1>1, <1>2 DEF Seen, LogStep, Apart

LEMMA RestartSeen ==
    ASSUME IInv, NEW r \in Runtimes, Restart(r) \/ Hydrate(r)
    PROVE  Seen
  <1>0. /\ rev \in [Runtimes -> Nat] /\ meta \in [Runtimes -> Nat]
        /\ life \in [Runtimes -> {"up", "down", "replayed"}]
        /\ proto \in [Runtimes -> [Turns -> Protocol]]
        /\ log \in Seq(Entry) /\ Len(log) \in Nat
    BY DEF IInv, Shapes, DataOK, LogOK
  <1>1. UNCHANGED <<log, drv, can, remote>> BY DEF Restart, Hydrate
  <1>2. CASE Restart(r)
    <2>1. Reading BY <1>0, <1>2 DEF Reading, ReadStep, Restart
    <2>2. Living BY <1>0, <1>2 DEF Living, LifeStep, Restart
    <2> QED BY <1>1, <1>2, <2>1, <2>2, StillSeen, SameProducing, SameRemembering DEF Restart
  <1>3. CASE Hydrate(r)
    <2>1. Reading BY <1>0, <1>3 DEF Reading, ReadStep, Hydrate
    <2>2. Living BY <1>0, <1>3 DEF Living, LifeStep, Hydrate
    <2>3. ASSUME NEW u \in Turns PROVE ProtoStep(r, u)
      <3> DEFINE n == Remember(NewProtocol, u, log, 0, Len(log))
      <3>0. proto'[r][u] = n /\ life[r] # "up" /\ meta'[r] = Len(log) /\ log' = log
        BY <1>0, <1>3 DEF Hydrate
      <3>1. NewProtocol \in Protocol BY DEF NewProtocol, Protocol, Sequence, NoFrame
      <3>2. Recalls(NewProtocol, n, u, log, 0, Len(log)) BY <1>0, <3>1, RememberSpec
      <3> HIDE DEF n
      <3>3. ~NewProtocol.transportId /\ NewProtocol.checkpoint = 0 BY DEF NewProtocol
      <3>4. \A i : i \in (0 + 1)..Len(log) <=> i \in 1..Len(log) BY <1>0
      <3>5. n.transportId => Told(u, Len(log))'
        BY <3>0, <3>2, <3>3, <3>4 DEF Recalls, Told
      <3>6. n.checkpoint = 0 \/ \E i \in 1..Len(log) : log[i].ev.turn = u
                                                       /\ n.checkpoint = log[i].ev.checkpoint
        BY <3>2, <3>3, <3>4 DEF Recalls
      <3> QED BY <3>0, <3>5, <3>6 DEF ProtoStep
    <2>4. \A q \in Runtimes : q # r => proto'[q] = proto[q] BY <1>0, <1>3 DEF Hydrate
    <2>5. Remembering
      <3> SUFFICES ASSUME NEW q \in Runtimes, NEW u \in Turns PROVE ProtoStep(q, u)
        BY DEF Remembering
      <3> QED BY <2>3, <2>4, SameProto
    <2> QED BY <1>1, <2>1, <2>2, <2>5, StillSeen, SameProducing
  <1> QED BY <1>2, <1>3

LEMMA RemoteEndsSeen ==
    ASSUME IInv, NEW t \in Turns, RemoteEnds(t)
    PROVE  Seen
  <1>0. remote \in [Turns -> Remote] /\ Len(Script) \in Nat BY ScriptAssumption, SameTypes
  <1>1. PICK end \in Outcomes \cup {"cancelled"}, n \in 1..Len(Script) :
          /\ n >= remote[t].produced
          /\ end \in {"completed", "toolCalls"} => n = Len(Script)
          /\ remote' = [remote EXCEPT ![t].end = end, ![t].produced = n]
    BY DEF RemoteEnds
  <1>2. /\ remote'[t].end = end /\ remote'[t].produced = n
        /\ remote'[t].started = remote[t].started /\ remote[t].produced \in Nat
        /\ \A u \in Turns : u # t => remote'[u] = remote[u] /\ remote[u].produced \in Nat
    BY <1>0, <1>1 DEF Remote
  <1>3. RemoteStep(t)
    <2> DEFINE m == remote[t]
               x == remote'[t]
    <2>1. m.started /\ m.end = "none" /\ x.started BY <1>2 DEF RemoteEnds
    <2>2. /\ m.produced <= x.produced /\ x.produced <= Len(Script)
          /\ x.end \in Outcomes \cup {"cancelled"} /\ x.started = m.started
          /\ x.end \in {"completed", "toolCalls"} => x.produced = Len(Script)
      BY <1>0, <1>1, <1>2
    <2> HIDE DEF m, x
    <2> QED BY <2>1, <2>2 DEF RemoteStep, m, x
  <1>4. \A u \in Turns : u # t => RemoteStep(u) BY <1>2 DEF RemoteStep
  <1>5. Producing BY <1>3, <1>4 DEF Producing
  <1>6. Reading BY SameReading DEF RemoteEnds
  <1>7. Living BY DEF RemoteEnds, Living, LifeStep
  <1> QED BY <1>5, <1>6, <1>7, StillSeen, SameRemembering DEF RemoteEnds

\* Every step of the runtimes looks like one of these.
LEMMA NextSeen == IInv /\ [Next]_vars => Seen
  <1> SUFFICES ASSUME IInv, [Next]_vars PROVE Seen OBVIOUS
  <1>0. Kept BY NextOK
  <1>1. ASSUME NEW r \in Runtimes, NEW t \in Turns, DriverStep(r, t) PROVE Seen
    BY <1>0, <1>1, AdmissionSeen, AdmitTurnSeen, StartAttemptSeen, CallsSeen, StartReplySeen,
       QueueTurnSeen, ResumeCallSeen, ReceiveFrameSeen, ProjectFrameSeen, StreamEndsSeen,
       LinkReceiptSeen, SettleObservationSeen, PersistCheckpointSeen, PersistTerminalSeen,
       ScheduleRetrySeen, ExhaustRetriesSeen, FailTurnSeen
       DEF DriverStep
  <1>2. ASSUME NEW r \in Runtimes, NEW t \in Turns, CancelStep(r, t) PROVE Seen
    BY <1>0, <1>2, CancelPreflightSeen, CancelUnsupportedSeen, RequestCancellationSeen,
       SendCancellationSeen DEF CancelStep
  <1>3. ASSUME NEW r \in Runtimes, NEW t \in Turns, CallerStep(r, t) PROVE Seen
    <2>1. CASE SendMessage(r, t) BY <2>1, BeginAdmissionSeen DEF SendMessage
    <2>2. CASE \E p \in Turns : ContinueTurn(r, t, p)
      BY <2>2, BeginAdmissionSeen DEF ContinueTurn
    <2> QED BY <1>3, <2>1, <2>2, ResumeTurnSeen, StopObservingSeen, CancelTurnSeen DEF CallerStep
  <1>4. ASSUME NEW r \in Runtimes, NEW t \in Turns, FaultStep(r, t) PROVE Seen
    BY <1>4, StartRejectedSeen, CallsSeen, StreamEndsSeen DEF FaultStep
  <1>5. ASSUME NEW r \in Runtimes, Synchronize(r) \/ Crash(r) \/ Restart(r) \/ Hydrate(r)
        PROVE  Seen
    BY <1>0, <1>5, SynchronizeSeen, CrashSeen, RestartSeen
  <1>6. ASSUME NEW t \in Turns, RemoteEnds(t) PROVE Seen
    BY <1>6, RemoteEndsSeen
  <1>7. CASE UNCHANGED vars
    <2>1. Reading /\ Living BY <1>7, SameReading DEF vars, Living, LifeStep
    <2> QED BY <1>7, <2>1, StillSeen, SameProducing, SameRemembering DEF vars
  <1> QED BY <1>1, <1>2, <1>3, <1>4, <1>5, <1>6, <1>7 DEF Next

------------------------------------------------
\* What the log's events do to its projection.

\* n is what the reducer makes of a good state st and an event e that fits.
Effect(st, e, n) ==
    /\ \A u \in Turns : u # e.turn => /\ n.status[u] = st.status[u]
                                      /\ n.text[u] = st.text[u]
                                      /\ n.messages[u] = st.messages[u]
    /\ e.kind # "message.text_appended" => /\ n.text[e.turn] = st.text[e.turn]
                                           /\ n.messages[e.turn] = st.messages[e.turn]
    /\ e.kind = "message.text_appended" =>
          /\ n.text[e.turn] = Append(st.text[e.turn], e.seq)
          /\ n.messages[e.turn] = st.messages[e.turn] \cup {e.message}
    /\ IsTerminalTurn(st, e.turn) => n.status[e.turn] = st.status[e.turn]
    /\ e.kind \in TerminalKind /\ ~IsTerminalTurn(st, e.turn) =>
          IsOpenTurn(st, e.turn) /\ n.status[e.turn] = ClosedBy(e.kind)
    /\ e.kind \notin TerminalKind =>
          \/ n.status[e.turn] = st.status[e.turn]
          \/ IsOpenTurn(st, e.turn) /\ IsOpenTurn(n, e.turn)
          \/ /\ e.kind = "turn.started" /\ st.status[e.turn] = "absent"
             /\ IsOpenTurn(n, e.turn) /\ st.active = None

LEMMA ReduceEffect ==
    ASSUME NEW st \in State, NEW e \in Event, GoodState(st), EventFits(st, e)
    PROVE  Effect(st, e, Reduce(st, e))
  <1>0. e.turn \in Turns BY DEF Event
  <1> USE DEF Effect, GoodState, IsOpenTurn, IsTerminalTurn, OpenStatus, TerminalStatus,
              Status, State
  <1>1. CASE e.kind = "turn.started"
    <2>1. Reduce(st, e) = ReduceTurnStarted(st, e) BY <1>1, ReduceCases
    <2>2. st.active = None /\ e.kind \notin TerminalKind BY <1>1 DEF EventFits, TerminalKind
    <2> QED BY <1>0, <1>1, <2>1, <2>2 DEF ReduceTurnStarted
  <1>2. CASE e.kind = "message.created"
    <2>1. Reduce(st, e) = st BY <1>2, ReduceCases
    <2> QED BY <1>0, <1>2, <2>1 DEF TerminalKind
  <1>3. CASE e.kind \notin {"turn.started", "message.created"}
    <2>0. e.turn \in st.begun /\ (e.kind = "turn.status_changed" => e.status \in OpenStatus)
          /\ st.status[e.turn] # "absent"
      BY <1>0, <1>3 DEF EventFits
    <2>1. CASE e.kind = "turn.status_changed"
      <3>1. Reduce(st, e) = ReduceStatusChanged(st, e) BY <2>1, ReduceCases
      <3> QED BY <1>0, <2>0, <2>1, <3>1 DEF ReduceStatusChanged, TerminalKind
    <2>2. CASE e.kind \in RetryKind
      <3>1. Reduce(st, e) = AppendTurnRetryRecord(st, e) BY <2>2, ReduceCases
      <3>2. Reduce(st, e) = st BY <2>0, <3>1 DEF AppendTurnRetryRecord
      <3> QED BY <1>0, <2>2, <3>2 DEF TerminalKind, RetryKind
    <2>3. CASE e.kind \in CancelKind
      <3>1. Reduce(st, e) = UpdateTurnCancellation(st, e) BY <2>3, ReduceCases
      <3>2. /\ Reduce(st, e).status = st.status /\ Reduce(st, e).text = st.text
            /\ Reduce(st, e).messages = st.messages
        BY <1>0, <2>0, <3>1 DEF UpdateTurnCancellation
      <3> QED BY <1>0, <2>3, <3>2 DEF TerminalKind, CancelKind
    <2>4. CASE e.kind \in TerminalKind
      <3>1. Reduce(st, e) = TerminateTurn(st, e) BY <2>4, ReduceCases
      <3>2. e.kind # "message.text_appended" BY <2>4 DEF TerminalKind
      <3>3. CASE IsTerminalTurn(st, e.turn)
        <4>1. Reduce(st, e) = st BY <3>1, <3>3 DEF TerminateTurn
        <4> QED BY <1>0, <2>4, <3>2, <3>3, <4>1
      <3>4. CASE ~IsTerminalTurn(st, e.turn)
        <4>1. /\ Reduce(st, e).status = [st.status EXCEPT ![e.turn] = ClosedBy(e.kind)]
              /\ Reduce(st, e).text = st.text /\ Reduce(st, e).messages = st.messages
          BY <1>0, <3>1, <3>4 DEF TerminateTurn
        <4> QED BY <1>0, <2>0, <2>4, <3>2, <3>4, <4>1
      <3> QED BY <3>3, <3>4
    <2>5. CASE e.kind = "message.text_appended"
      <3>1. Reduce(st, e) = AppendMessageText(st, e) BY <2>5, ReduceCases
      <3> QED BY <1>0, <2>5, <3>1 DEF AppendMessageText, TerminalKind
    <2>6. CASE e.kind = "tool_call.requested"
      <3>1. Reduce(st, e) = RequestToolCall(st, e) BY <2>6, ReduceCases
      <3>2. /\ Reduce(st, e).status = st.status /\ Reduce(st, e).text = st.text
            /\ Reduce(st, e).messages = st.messages
        BY <1>0, <3>1 DEF RequestToolCall
      <3> QED BY <1>0, <2>6, <3>2 DEF TerminalKind
    <2>7. CASE e.kind = "usage.receipt_linked"
      <3>1. Reduce(st, e) = [st EXCEPT !.receipts = @ \cup {e.turn}] BY <2>7, ReduceCases
      <3>2. /\ Reduce(st, e).status = st.status /\ Reduce(st, e).text = st.text
            /\ Reduce(st, e).messages = st.messages
        BY <1>0, <3>1
      <3> QED BY <1>0, <2>7, <3>2 DEF TerminalKind
    <2> QED BY <1>3, <2>1, <2>2, <2>3, <2>4, <2>5, <2>6, <2>7, ReduceCases
  <1> QED BY <1>1, <1>2, <1>3

\* The log after a batch of one event, and of two.
LEMMA OneEvent ==
    ASSUME IInv, NEW e \in Event, EventFits(Latest, e), log' = Extended(<<e>>)
    PROVE  /\ Len(log') = Len(log) + 1 /\ log'[Len(log) + 1].ev = e
           /\ Effect(Latest, e, Latest')
  <1>0. LogOK /\ log \in Seq(Entry) /\ Latest \in State /\ GoodState(Latest)
    BY LatestGood DEF IInv, DataOK, LogOK
  <1>1. log' = Append(log, [ev |-> e, st |-> Reduce(Latest, e)]) BY DEF Extended
  <1>2. Latest' = Reduce(Latest, e) /\ Len(log') = Len(log) + 1 BY <1>0, <1>1, AppendOne
  <1> DEFINE x == [ev |-> e, st |-> Reduce(Latest, e)]
  <1>3. x \in Entry /\ x.ev = e BY <1>0, ReduceType DEF Entry
  <1> HIDE DEF x
  <1>4. log'[Len(log) + 1] = x
    <2>1. log' = Append(log, x) BY <1>1 DEF x
    <2> QED BY <1>0, <1>3, <2>1
  <1> QED BY <1>0, <1>2, <1>3, <1>4, ReduceEffect

LEMMA TwoEvents ==
    ASSUME IInv, NEW e \in Event, NEW f \in Event, EventFits(Latest, e),
           EventFits(Reduce(Latest, e), f),
           NEW drafts, Len(drafts) = 2, drafts[1] = e, drafts[2] = f, log' = Extended(drafts)
    PROVE  /\ Len(log') = Len(log) + 2
           /\ log'[Len(log) + 1].ev = e /\ log'[Len(log) + 2].ev = f
           /\ Effect(Latest, e, Reduce(Latest, e)) /\ Effect(Reduce(Latest, e), f, Latest')
  <1>0. LogOK /\ log \in Seq(Entry) /\ Latest \in State /\ GoodState(Latest)
    BY LatestGood DEF IInv, DataOK, LogOK
  <1> DEFINE mid == Reduce(Latest, e)
             x == [ev |-> e, st |-> mid]
             y == [ev |-> f, st |-> Reduce(mid, f)]
  <1>1. log' = Append(Append(log, x), y) BY DEF Extended
  <1>2. Latest' = Reduce(mid, f) /\ Len(log') = Len(log) + 2 BY <1>0, <1>1, AppendTwo
  <1>3. mid \in State /\ GoodState(mid) BY <1>0, ReduceType, ReduceGood, NoneFresh
  <1>4. x \in Entry /\ x.ev = e /\ y \in Entry /\ y.ev = f BY <1>3, ReduceType DEF Entry
  <1> HIDE DEF x, y
  <1>5. log'[Len(log) + 1] = x /\ log'[Len(log) + 2] = y BY <1>0, <1>1, <1>4
  <1> QED BY <1>0, <1>2, <1>3, <1>4, <1>5, ReduceEffect

\* From st to n: nothing is said of the turns other than t and no text
\* appears; t stays as open as it was.
QuietIn(st, n, t) ==
    /\ \A u \in Turns : u # t => n.status[u] = st.status[u]
    /\ \A u \in Turns : n.text[u] = st.text[u] /\ n.messages[u] = st.messages[u]
StaysIn(st, n, t) ==
    n.status[t] = st.status[t] \/ (IsOpenTurn(st, t) /\ IsOpenTurn(n, t))
PlainIn(r, t, st, n) ==
    /\ QuietIn(st, n, t)
    /\ \/ StaysIn(st, n, t)
       \/ /\ st.status[t] = "absent" /\ st.active = None /\ IsOpenTurn(n, t)
          /\ drv[r][t].pc = "admitting"
       \/ IsOpenTurn(st, t) /\ n.status[t] = "cancelled" /\ can[r][t] = "preflight"
       \/ /\ IsOpenTurn(st, t) /\ n.status[t] = "failed"
          /\ drv[r][t].pc = "fail" /\ drv'[r][t].pc = "off"
Quiet(t) == QuietIn(Latest, Latest', t)
Stays(t) == StaysIn(Latest, Latest', t)

\* The event type of a frame, and that of a terminal frame.
FrameKind(s) == CASE Script[s + 1] = "started" -> "turn.status_changed"
                  [] Script[s + 1] = "text"    -> "message.text_appended"
                  [] OTHER                     -> "tool_call.requested"
EndKind(end) == CASE end \in {"completed", "toolCalls"} -> "turn.completed"
                  [] end = "cancelled" -> "turn.cancelled"
                  [] OTHER -> "turn.failed"

\* The four things a runtime stores, with what they do to the projection.
StoresPlain(r, t) ==
    /\ \A i \in (Len(log) + 1)..Len(log') :
         /\ PlainEvent(r, t, log'[i].ev)
         /\ log'[i].ev.kind \in TerminalKind => IsTerminalTurn(Latest', t)
    /\ PlainIn(r, t, Latest, Latest')
StoresFrame(r, t, e) ==
    /\ drv[r][t].pc = "frame" /\ ~KnownFrame(r, t, FrameNo(r, t))
    /\ Len(log') = Len(log) + 1 /\ log'[Len(log) + 1].ev = e
    /\ e.turn = t /\ e.seq = FrameNo(r, t) /\ e.kind = FrameKind(e.seq) /\ e.checkpoint = 0
    /\ e.transportId = proto[r][t].transportId
    /\ e.kind = "message.text_appended" =>
         e.message = IF drv[r][t].message = None THEN <<r, e.seq>> ELSE drv[r][t].message
    /\ Stays(t) /\ Effect(Latest, e, Latest')
StoresCheckpoint(r, t, e) ==
    /\ drv[r][t].pc = "checkpoint"
    /\ Len(log') = Len(log) + 1 /\ log'[Len(log) + 1].ev = e
    /\ e.turn = t /\ e.seq = NoFrame /\ e.kind = "turn.status_changed"
    /\ e.checkpoint = drv[r][t].pos /\ ~e.transportId
    /\ Stays(t) /\ Quiet(t)
StoresTerminal(r, t, e) ==
    /\ drv[r][t].pc = "terminal"
    /\ Len(log') = Len(log) + 1 /\ log'[Len(log) + 1].ev = e
    /\ e.turn = t /\ e.seq = drv[r][t].expected - 1 /\ e.kind = EndKind(drv[r][t].terminal)
    /\ e.checkpoint = 0 /\ e.transportId = proto[r][t].transportId
    /\ IsOpenTurn(Latest, t) /\ Latest'.status[t] = ClosedBy(e.kind) /\ Quiet(t)
Stores(r, t) ==
    /\ life[r] = "up" /\ rev[r] = Len(log)
    /\ \/ StoresPlain(r, t)
       \/ \E e \in Event : \/ StoresFrame(r, t, e) \/ StoresCheckpoint(r, t, e)
                           \/ StoresTerminal(r, t, e)

\* An event that appends no text is quiet.
LEMMA QuietEffect ==
    ASSUME NEW st, NEW n, NEW e \in Event, Effect(st, e, n), e.kind # "message.text_appended"
    PROVE  QuietIn(st, n, e.turn)
  BY DEF Effect, QuietIn, Event

LEMMA KindFacts ==
    /\ \A s : /\ FrameKind(s) \notin TerminalKind /\ FrameKind(s) # "turn.started"
              /\ FrameKind(s) = "message.text_appended" => Script[s + 1] = "text"
              /\ Script[s + 1] = "text" => FrameKind(s) = "message.text_appended"
    /\ \A end : EndKind(end) \in TerminalKind /\ EndKind(end) # "message.text_appended"
    /\ "turn.status_changed" \notin TerminalKind /\ "message.text_appended" \notin TerminalKind
    /\ "turn.started" \notin TerminalKind
    /\ \A k \in Openers : k \notin TerminalKind /\ k # "turn.started" /\ k # "message.text_appended"
  BY DEF FrameKind, EndKind, TerminalKind, Openers

LEMMA PlainOne ==
    ASSUME NEW r \in Runtimes, NEW t \in Turns, NEW e \in Event, PlainEvent(r, t, e),
           NEW st, NEW n, Effect(st, e, n)
    PROVE  PlainIn(r, t, st, n)
  <1>0. e.turn = t /\ e.kind \notin {"turn.completed", "message.text_appended"} BY DEF PlainEvent
  <1>1. QuietIn(st, n, t) BY <1>0, QuietEffect
  <1>2. CASE e.kind \notin TerminalKind
    BY <1>0, <1>1, <1>2 DEF Effect, StaysIn, PlainEvent, PlainIn
  <1>3. CASE e.kind \in TerminalKind
    <2>1. e.kind = "turn.cancelled" \/ e.kind = "turn.failed" BY <1>0, <1>3 DEF TerminalKind
    <2>2. ClosedBy("turn.cancelled") = "cancelled" /\ ClosedBy("turn.failed") = "failed"
      BY DEF ClosedBy
    <2>3. CASE IsTerminalTurn(st, t) BY <1>0, <1>1, <2>3 DEF Effect, StaysIn, PlainIn
    <2>4. CASE ~IsTerminalTurn(st, t)
      <3>1. IsOpenTurn(st, t) /\ n.status[t] = ClosedBy(e.kind)
        BY <1>0, <1>3, <2>4 DEF Effect
      <3> QED BY <1>1, <2>1, <2>2, <3>1 DEF PlainEvent, PlainIn
    <2> QED BY <2>3, <2>4
  <1> QED BY <1>2, <1>3

\* A batch of two opens with an event that closes and starts nothing.
LEMMA PlainTwo ==
    ASSUME NEW r \in Runtimes, NEW t \in Turns, NEW e \in Event, e.turn = t,
           e.kind \in Openers, NEW st \in State, NEW mid \in State, NEW n,
           GoodState(st), GoodState(mid), Effect(st, e, mid), PlainIn(r, t, mid, n)
    PROVE  PlainIn(r, t, st, n)
  <1>0. e.kind \notin TerminalKind /\ e.kind # "turn.started" /\ e.kind # "message.text_appended"
    BY KindFacts
  <1>1. QuietIn(st, mid, t) BY <1>0, QuietEffect
  <1>2. StaysIn(st, mid, t) BY <1>0 DEF Effect, StaysIn
  <1>3. QuietIn(st, n, t) BY <1>1 DEF QuietIn, PlainIn
  <1>4. mid.active = None /\ mid.status[t] = "absent" =>
           st.active = None /\ st.status[t] = "absent"
    <2> SUFFICES ASSUME mid.active = None, mid.status[t] = "absent"
                 PROVE  st.active = None /\ st.status[t] = "absent" OBVIOUS
    <2>1. st.status[t] = "absent" BY <1>2 DEF StaysIn, IsOpenTurn, OpenStatus
    <2>2. \A u \in Turns : mid.status[u] = st.status[u] BY <1>1, <2>1 DEF QuietIn
    <2>3. \A u \in Turns : ~IsOpenTurn(st, u)
      BY <2>2, NoneFresh DEF GoodState, IsOpenTurn
    <2>4. st.active \in Turns \cup {None} BY DEF State
    <2> QED BY <2>1, <2>3, <2>4 DEF GoodState
  <1>5. IsOpenTurn(mid, t) => IsOpenTurn(st, t) BY <1>2 DEF StaysIn, IsOpenTurn
  <1>6. StaysIn(mid, n, t) => StaysIn(st, n, t) BY <1>2 DEF StaysIn, IsOpenTurn
  <1> QED BY <1>3, <1>4, <1>5, <1>6 DEF PlainIn

LEMMA EffectCloses ==
    ASSUME NEW st, NEW n, NEW e, Effect(st, e, n), e.kind \in TerminalKind
    PROVE  IsTerminalTurn(n, e.turn)
  BY ClosedByType DEF Effect, IsTerminalTurn

LEMMA PlainStores ==
    ASSUME IInv, NEW r \in Runtimes, NEW t \in Turns, AppendsPlain(r, t)
    PROVE  StoresPlain(r, t)
  <1>1. PICK drafts \in Drafts : /\ \A i \in 1..Len(drafts) : PlainEvent(r, t, drafts[i])
                                 /\ Len(drafts) = 2 => drafts[1].kind \in Openers
                                 /\ DraftsFit(drafts) /\ log' = Extended(drafts)
    BY DEF AppendsPlain
  <1>0. Latest \in State /\ GoodState(Latest) /\ Len(log) \in Nat
    BY LatestGood DEF IInv, DataOK, LogOK
  <1>2. CASE Len(drafts) = 1
    <2> DEFINE e == drafts[1]
    <2>1. e \in Event /\ drafts = <<e>> BY <1>2 DEF Drafts
    <2>2. EventFits(Latest, e) /\ PlainEvent(r, t, e) BY <1>1, <1>2 DEF DraftsFit
    <2> HIDE DEF e
    <2>3. /\ Len(log') = Len(log) + 1 /\ log'[Len(log) + 1].ev = e
          /\ Effect(Latest, e, Latest')
      BY <1>1, <2>1, <2>2, OneEvent
    <2>4. PlainIn(r, t, Latest, Latest') BY <2>1, <2>2, <2>3, PlainOne
    <2>5. \A i \in (Len(log) + 1)..Len(log') : i = Len(log) + 1 BY <1>0, <2>3
    <2>6. e.kind \in TerminalKind => IsTerminalTurn(Latest', t)
      BY <2>2, <2>3, EffectCloses DEF PlainEvent
    <2> QED BY <2>2, <2>3, <2>4, <2>5, <2>6 DEF StoresPlain
  <1>3. CASE Len(drafts) = 2
    <2> DEFINE e == drafts[1]
               f == drafts[2]
    <2>1. e \in Event /\ f \in Event BY <1>3 DEF Drafts
    <2>2. /\ EventFits(Latest, e) /\ EventFits(Reduce(Latest, e), f)
          /\ PlainEvent(r, t, e) /\ PlainEvent(r, t, f) /\ e.kind \in Openers
      BY <1>1, <1>3 DEF DraftsFit
    <2> HIDE DEF e, f
    <2>3. /\ Len(log') = Len(log) + 2
          /\ log'[Len(log) + 1].ev = e /\ log'[Len(log) + 2].ev = f
          /\ Effect(Latest, e, Reduce(Latest, e)) /\ Effect(Reduce(Latest, e), f, Latest')
      BY <1>1, <1>3, <2>1, <2>2, TwoEvents DEF e, f
    <2>4. Reduce(Latest, e) \in State /\ GoodState(Reduce(Latest, e))
      BY <1>0, <2>1, <2>2, ReduceType, ReduceGood, NoneFresh
    <2>5. PlainIn(r, t, Reduce(Latest, e), Latest') BY <2>1, <2>2, <2>3, PlainOne
    <2>6. e.turn = t BY <2>2 DEF PlainEvent
    <2>7. PlainIn(r, t, Latest, Latest') BY <1>0, <2>1, <2>2, <2>3, <2>4, <2>5, <2>6, PlainTwo
    <2>8. \A i \in (Len(log) + 1)..Len(log') : i = Len(log) + 1 \/ i = Len(log) + 2
      BY <1>0, <2>3
    <2>9. e.kind \notin TerminalKind /\ (f.kind \in TerminalKind => IsTerminalTurn(Latest', t))
      BY <2>2, <2>3, EffectCloses, KindFacts DEF PlainEvent
    <2> QED BY <2>2, <2>3, <2>7, <2>8, <2>9 DEF StoresPlain
  <1> QED BY <1>2, <1>3 DEF Drafts

\* A draft of a driver past its admission fits.
LEMMA DriverEvent ==
    ASSUME IInv, NEW r \in Runtimes, NEW t \in Turns, drv[r][t].pc \notin Admission,
           NEW e \in Event, e.turn = t, e.kind \notin {"message.created", "turn.started"},
           e.kind = "turn.status_changed" => e.status \in OpenStatus,
           log' = Extended(<<e>>)
    PROVE  /\ Len(log') = Len(log) + 1 /\ log'[Len(log) + 1].ev = e
           /\ Effect(Latest, e, Latest')
  <1>1. t \in Latest.begun BY DriverBegun
  <1>2. EventFits(Latest, e) BY <1>1 DEF EventFits
  <1> QED BY <1>2, OneEvent

LEMMA FrameStores ==
    ASSUME IInv, NEW r \in Runtimes, NEW t \in Turns, AppendsFrame(r, t), FrameNo(r, t) \in Sequence
    PROVE  \E e \in Event : StoresFrame(r, t, e)
  <1> DEFINE d  == drv[r][t]
             s  == FrameNo(r, t)
             k  == FrameKind(s)
             id == proto[r][t].transportId
             m  == IF Script[s + 1] # "text" THEN None
                   ELSE IF d.message = None THEN <<r, s>> ELSE d.message
             b  == ~d.unsafe
             x  == NewEvent(k, t)
             e  == [x EXCEPT !.status = "running", !.seq = s, !.transportId = id,
                             !.resumeSafe = b, !.message = m]
  <1>0. d \in Driver /\ d.pc = "frame" /\ ~KnownFrame(r, t, s) BY DriverTyped DEF AppendsFrame
  <1>1. FrameEvent(r, t, d, s) = e BY DEF FrameEvent, FrameKind
  <1>2. FrameEvent(r, t, d, s) \in Event BY <1>0, FrameEventType
  <1>3. x.turn = t /\ x.kind = k /\ x.checkpoint = 0
        /\ DOMAIN x = {"kind", "turn", "status", "continues", "seq", "message", "toolCalls",
                       "transportId", "resumeSafe", "checkpoint"}
    BY DEF NewEvent
  <1>4. k = "message.text_appended" => m = IF d.message = None THEN <<r, s>> ELSE d.message
    BY KindFacts
  <1>5. k \notin TerminalKind /\ k # "turn.started" /\ k # "message.created"
    BY KindFacts DEF FrameKind
  <1> HIDE DEF x, k, m, id, b, s
  <1>6. e.turn = t /\ e.kind = k /\ e.seq = s /\ e.checkpoint = 0 /\ e.transportId = id
        /\ e.message = m /\ e.status = "running"
    BY <1>3
  <1>7. log' = Extended(<<e>>) BY <1>1 DEF AppendsFrame, s
  <1> HIDE DEF e, d
  <1>8. d.pc \notin Admission BY <1>0 DEF Admission
  <1>9. e \in Event /\ e.status \in OpenStatus BY <1>1, <1>2, <1>6 DEF OpenStatus
  <1>10. /\ Len(log') = Len(log) + 1 /\ log'[Len(log) + 1].ev = e /\ Effect(Latest, e, Latest')
    BY <1>5, <1>6, <1>7, <1>8, <1>9, DriverEvent DEF d
  <1>11. Stays(t) BY <1>5, <1>6, <1>10 DEF Stays, StaysIn, Effect
  <1>12. StoresFrame(r, t, e)
    BY <1>0, <1>4, <1>6, <1>10, <1>11 DEF StoresFrame, d, s, k, id
  <1> QED BY <1>9, <1>12

LEMMA CheckpointStores ==
    ASSUME IInv, NEW r \in Runtimes, NEW t \in Turns, rev[r] = Len(log), AppendsCheckpoint(r, t)
    PROVE  \E e \in Event : StoresCheckpoint(r, t, e)
  <1> DEFINE p == drv[r][t].pos
             x == NewEvent("turn.status_changed", t)
             y == Snapshot(r).status[t]
             e == [x EXCEPT !.status = y, !.checkpoint = p]
  <1>0. drv[r][t] \in Driver /\ drv[r][t].pc = "checkpoint" /\ p > 0 /\ p \in Nat
        /\ IsOpenTurn(Snapshot(r), t)
    BY DriverTyped DEF AppendsCheckpoint, Driver
  <1>1. log' = Extended(<<e>>) BY <1>0 DEF AppendsCheckpoint, CheckpointDrafts
  <1>2. x \in Event /\ x.turn = t /\ x.kind = "turn.status_changed" /\ x.seq = NoFrame
        /\ ~x.transportId
    BY NewEventType DEF NewEvent, Kinds, PlainKind
  <1>3. y \in OpenStatus /\ y \in Status BY <1>0 DEF IsOpenTurn, OpenStatus, Status
  <1> HIDE DEF x, y, p
  <1>4. e \in Event /\ e.turn = t /\ e.kind = "turn.status_changed" /\ e.seq = NoFrame
        /\ ~e.transportId /\ e.checkpoint = p /\ e.status = y
    BY <1>0, <1>2, <1>3 DEF Event
  <1> HIDE DEF e
  <1>5. drv[r][t].pc \notin Admission BY <1>0 DEF Admission
  <1>6. /\ Len(log') = Len(log) + 1 /\ log'[Len(log) + 1].ev = e /\ Effect(Latest, e, Latest')
    BY <1>1, <1>3, <1>4, <1>5, DriverEvent
  <1>7. Stays(t) /\ Quiet(t) BY <1>4, <1>6, KindFacts, QuietEffect DEF Stays, StaysIn, Quiet, Effect
  <1> QED BY <1>0, <1>4, <1>6, <1>7 DEF StoresCheckpoint, p

LEMMA TerminalStores ==
    ASSUME IInv, NEW r \in Runtimes, NEW t \in Turns, rev[r] = Len(log), AppendsTerminal(r, t)
    PROVE  \E e \in Event : StoresTerminal(r, t, e)
  <1> DEFINE d  == drv[r][t]
             s  == d.expected - 1
             k  == EndKind(d.terminal)
             id == proto[r][t].transportId
             c  == d.terminal = "toolCalls"
             x  == NewEvent(k, t)
             e  == [x EXCEPT !.seq = s, !.transportId = id, !.resumeSafe = TRUE, !.toolCalls = c]
  <1>0. d \in Driver /\ d.pc = "terminal" /\ ~IsTerminalTurn(Latest, t)
    BY DriverTyped, SnapshotGood DEF AppendsTerminal, IInv
  <1>1. TerminalEvent(r, t, d) = e BY DEF TerminalEvent, EndKind
  <1>2. k \in TerminalKind /\ k # "message.text_appended" BY KindFacts
  <1>3. s \in Sequence /\ id \in BOOLEAN /\ c \in BOOLEAN
    BY <1>0, DriverTyped DEF Driver, Sequence, NoFrame, Protocol
  <1>4. k \in Kinds /\ k \notin {"message.created", "turn.started", "turn.status_changed"}
    BY <1>2 DEF Kinds, TerminalKind
  <1>5. x \in Event /\ x.turn = t /\ x.kind = k /\ x.checkpoint = 0
    BY <1>4, NewEventType DEF NewEvent
  <1>6. log' = Extended(<<e>>) BY <1>1 DEF AppendsTerminal
  <1> HIDE DEF x, k, s, id, c
  <1>7. e \in Event /\ e.turn = t /\ e.kind = k /\ e.seq = s /\ e.checkpoint = 0
        /\ e.transportId = id
    BY <1>3, <1>5 DEF Event
  <1> HIDE DEF e, d
  <1>8. d.pc \notin Admission BY <1>0 DEF Admission
  <1>9. /\ Len(log') = Len(log) + 1 /\ log'[Len(log) + 1].ev = e /\ Effect(Latest, e, Latest')
    BY <1>4, <1>6, <1>7, <1>8, DriverEvent DEF d
  <1>10. IsOpenTurn(Latest, t) /\ Latest'.status[t] = ClosedBy(e.kind)
    BY <1>0, <1>2, <1>7, <1>9 DEF Effect
  <1>11. Quiet(t) BY <1>2, <1>7, <1>9, QuietEffect DEF Quiet
  <1>12. StoresTerminal(r, t, e)
    BY <1>0, <1>7, <1>9, <1>10, <1>11 DEF StoresTerminal, d, s, k, id
  <1> QED BY <1>7, <1>12

\* Every step leaves the log alone or stores one of the four things.
Storing == \/ UNCHANGED log
           \/ \E r \in Runtimes, t \in Turns : Stores(r, t)
LEMMA SeenStoring ==
    ASSUME IInv, LogStep, \A r \in Runtimes, t \in Turns :
                             drv[r][t].pc = "frame" => FrameNo(r, t) \in Sequence
    PROVE  Storing
  BY PlainStores, FrameStores, CheckpointStores, TerminalStores
     DEF LogStep, Storing, Stores, AppendsFrame

------------------------------------------------
\* Frames are projected in order.

\* The first k entries hold every durable frame of t below p.
InLog(entries, t, s, k) == \E j \in 1..k : entries[j].ev.turn = t /\ entries[j].ev.seq = s
CoveredTo(entries, t, p, k) ==
    \A s \in 0..(p - 1) : s < Len(Script) /\ Durable(s) => InLog(entries, t, s, k)

\* Where an observation has come: the frame it holds is not yet in the log.
Reached(d) == IF d.pc = "frame" \/ d.terminal # "none" THEN d.pos - 1 ELSE d.pos

\* What an operation knows of the stream.
HasEnd(r, t) ==
    drv[r][t].terminal # "none" =>
        /\ remote[t].end = drv[r][t].terminal
        /\ drv[r][t].expected = remote[t].produced + 1 /\ drv[r][t].pos = drv[r][t].expected
HasFrame(r, t) ==
    drv[r][t].pc = "frame" =>
        /\ drv[r][t].pos \in 1..remote[t].produced /\ Durable(drv[r][t].pos - 1)
        /\ drv[r][t].terminal = "none"
HasCovered(r, t) ==
    drv[r][t].pc \in ObservingPc /\ drv[r][t].failed = "none" =>
        CoveredTo(log, t, Reached(drv[r][t]), meta[r])
InPhase(r, t) ==
    /\ drv[r][t].pc \in {"stream", "frame"} => drv[r][t].failed = "none"
    /\ drv[r][t].pc = "terminal" => drv[r][t].terminal # "none" /\ drv[r][t].failed = "none"
    /\ drv[r][t].pc = "checkpoint" => drv[r][t].terminal = "none" /\ drv[r][t].failed = "none"
HasLink(r, t) ==
    /\ drv[r][t].pc \in Linked => proto[r][t].transportId
    /\ drv[r][t].mode = "resume" /\ drv[r][t].pc # "off" => proto[r][t].transportId
    /\ drv[r][t].pc \in {"call", "inflight"} \cup Linked => meta[r] = rev[r]
Knows(r, t) == /\ HasEnd(r, t) /\ HasFrame(r, t) /\ HasCovered(r, t)
               /\ InPhase(r, t) /\ HasLink(r, t)

\* What the log holds of the stream.
FrameOK(i) ==
    LET e == log[i].ev
    IN  /\ e.seq # NoFrame => CoveredTo(log, e.turn, e.seq, i - 1)
        /\ e.seq # NoFrame /\ e.kind \notin TerminalKind =>
             e.seq < remote[e.turn].produced /\ e.kind = FrameKind(e.seq) /\ Durable(e.seq)
        /\ e.seq # NoFrame /\ e.kind \in TerminalKind =>
             e.seq = remote[e.turn].produced /\ remote[e.turn].end # "none"
        /\ e.kind \in TerminalKind => IsTerminalTurn(Latest, e.turn)
        /\ e.kind = "message.text_appended" => e.seq # NoFrame
        /\ CoveredTo(log, e.turn, e.checkpoint, i - 1)

DownIdle == \A r \in Runtimes : life[r] # "up" =>
                \A t \in Turns : drv[r][t].pc = "off" /\ can[r][t] = "off"
RemoteBound == \A t \in Turns :
    /\ remote[t].produced <= Len(Script)
    /\ remote[t].end \in {"completed", "toolCalls"} => remote[t].produced = Len(Script)
LogFrames    == \A i \in 1..Len(log) : FrameOK(i)
ProtoCovered == \A r \in Runtimes, t \in Turns : CoveredTo(log, t, proto[r][t].checkpoint, meta[r])
AllKnow      == \A r \in Runtimes, t \in Turns : Knows(r, t)

\* The inductive invariant of the projection.
PInv == DownIdle /\ RemoteBound /\ AllKnow /\ LogFrames /\ ProtoCovered /\ FramesOnce

LEMMA Numbers ==
    ASSUME IInv
    PROVE  /\ Len(log) \in Nat /\ Len(Script) \in Nat
           /\ \A r \in Runtimes : /\ rev[r] \in Nat /\ meta[r] \in Nat
                                  /\ rev[r] <= Len(log) /\ meta[r] <= Len(log)
           /\ \A r \in Runtimes, t \in Turns :
                /\ drv[r][t].pos \in Nat /\ drv[r][t].expected \in Nat
                /\ drv[r][t].mode \in {"start", "resume"} /\ proto[r][t].checkpoint \in Nat
                /\ drv[r][t].pc \in Pc
           /\ \A t \in Turns : remote[t].produced \in Nat
  <1>1. Len(log) \in Nat /\ Len(Script) \in Nat BY ScriptAssumption DEF IInv, DataOK, LogOK
  <1>2. \A r \in Runtimes : /\ rev[r] \in Nat /\ meta[r] \in Nat
                            /\ rev[r] <= Len(log) /\ meta[r] <= Len(log)
    BY DEF IInv, DataOK, Bounds
  <1>3. \A r \in Runtimes, t \in Turns :
          /\ drv[r][t].pos \in Nat /\ drv[r][t].expected \in Nat
          /\ drv[r][t].mode \in {"start", "resume"} /\ proto[r][t].checkpoint \in Nat
          /\ drv[r][t].pc \in Pc
    BY DriverTyped DEF Driver, Protocol
  <1>4. \A t \in Turns : remote[t].produced \in Nat BY SameTypes DEF Remote
  <1> QED BY <1>1, <1>2, <1>3, <1>4

LEMMA NextNumbers ==
    ASSUME IInv'
    PROVE  /\ Len(log') \in Nat
           /\ \A r \in Runtimes : /\ rev'[r] \in Nat /\ meta'[r] \in Nat
                                  /\ rev'[r] <= Len(log') /\ meta'[r] <= Len(log')
           /\ \A r \in Runtimes, t \in Turns :
                drv'[r][t] \in Driver /\ proto'[r][t].checkpoint \in Nat
           /\ \A t \in Turns : remote'[t].produced \in Nat
  BY DEF IInv, DataOK, LogOK, Bounds, Shapes, Driver, Protocol, Remote

\* What is covered stays covered in a longer log.
LEMMA CoverGrows ==
    ASSUME NEW a, NEW b, NEW t, NEW p \in Nat, NEW j \in Nat, NEW k \in Nat, j <= k,
           \A i \in 1..j : b[i] = a[i], CoveredTo(a, t, p, j)
    PROVE  CoveredTo(b, t, p, k)
  <1> SUFFICES ASSUME NEW s \in 0..(p - 1), s < Len(Script), Durable(s)
               PROVE  InLog(b, t, s, k)
    BY DEF CoveredTo
  <1>1. PICK i \in 1..j : a[i].ev.turn = t /\ a[i].ev.seq = s BY DEF CoveredTo, InLog
  <1>2. i \in 1..k /\ b[i] = a[i] OBVIOUS
  <1> QED BY <1>1, <1>2 DEF InLog

\* One more frame.
LEMMA CoverNext ==
    ASSUME NEW a, NEW t, NEW p \in Nat, NEW k, CoveredTo(a, t, p, k),
           p < Len(Script) /\ Durable(p) => InLog(a, t, p, k)
    PROVE  CoveredTo(a, t, p + 1, k)
  <1> SUFFICES ASSUME NEW s \in 0..p, s < Len(Script), Durable(s)
               PROVE  InLog(a, t, s, k)
    BY DEF CoveredTo
  <1>1. s = p \/ s \in 0..(p - 1) OBVIOUS
  <1> QED BY <1>1 DEF CoveredTo

\* What every step keeps of a runtime's reading.
LEMMA Monotone ==
    ASSUME IInv, Kept, PInv, Seen, NEW r \in Runtimes, NEW t \in Turns
    PROVE  /\ meta[r] <= meta'[r]
           /\ \A p \in Nat : CoveredTo(log, t, p, meta[r]) => CoveredTo(log', t, p, meta'[r])
           /\ drv[r][t].pc # "off" => life[r] = "up"
           /\ drv[r][t].pc # "off" /\ meta[r] = rev[r] => meta'[r] = rev'[r]
           /\ drv[r][t].pc # "off" /\ proto[r][t].transportId => proto'[r][t].transportId
           /\ remote[t].produced <= remote'[t].produced
           /\ remote[t].end # "none" => /\ remote'[t].end = remote[t].end
                                        /\ remote'[t].produced = remote[t].produced
  <1>0. /\ Len(log) \in Nat /\ Len(log') \in Nat /\ Len(log) <= Len(log')
        /\ meta[r] \in Nat /\ meta'[r] \in Nat /\ meta[r] <= Len(log)
        /\ rev[r] \in Nat
    BY Numbers, NextNumbers DEF Kept, LogGrowth
  <1>1. ReadStep(r) BY DEF Seen, Reading
  <1>2. meta[r] <= meta'[r] BY <1>0, <1>1 DEF ReadStep, Reads
  <1>3. \A i \in 1..meta[r] : log'[i] = log[i] BY <1>0 DEF Kept, LogGrowth
  <1>4. \A p \in Nat : CoveredTo(log, t, p, meta[r]) => CoveredTo(log', t, p, meta'[r])
    BY <1>0, <1>2, <1>3, CoverGrows
  <1>5. drv[r][t].pc # "off" => life[r] = "up" BY DEF PInv, DownIdle
  <1>6. life[r] = "up" /\ meta[r] = rev[r] => meta'[r] = rev'[r]
    BY <1>1 DEF ReadStep, Reads
  <1>7. ProtoStep(r, t) BY DEF Seen, Remembering
  <1>8. drv[r][t].pc # "off" /\ proto[r][t].transportId => proto'[r][t].transportId
    BY <1>5, <1>7 DEF ProtoStep
  <1>9. RemoteStep(t) BY DEF Seen, Producing
  <1>10. /\ remote[t].produced <= remote'[t].produced
         /\ remote[t].end # "none" => /\ remote'[t].end = remote[t].end
                                      /\ remote'[t].produced = remote[t].produced
    BY <1>9 DEF RemoteStep
  <1> QED BY <1>2, <1>4, <1>5, <1>6, <1>8, <1>10

\* An operation whose frame state does not change keeps what it knows.
LEMMA SameKnows ==
    ASSUME IInv, Kept, PInv, Seen, NEW r \in Runtimes, NEW t \in Turns,
           SameFrame(drv[r][t], drv'[r][t]), drv[r][t].pc # "off",
           drv'[r][t].pc \notin {"frame", "stream"} \/ drv'[r][t].pc = drv[r][t].pc,
           drv'[r][t].pc \in ObservingPc => /\ drv[r][t].pc \in ObservingPc
                                            /\ drv'[r][t].pc = drv[r][t].pc \/ drv[r][t].pc # "frame",
           InPhase(r, t)',
           drv'[r][t].pc \in Linked =>
               drv[r][t].pc \in Linked \/ (drv[r][t].pc = "inflight" /\ proto'[r][t].transportId),
           drv'[r][t].pc \in {"call", "inflight"} =>
               drv[r][t].pc \in {"call", "inflight"} \/ meta'[r] = rev'[r]
    PROVE  Knows(r, t)'
  <1> DEFINE d == drv[r][t]
             x == drv'[r][t]
  <1>0. /\ x.mode = d.mode /\ x.pos = d.pos /\ x.expected = d.expected
        /\ x.terminal = d.terminal /\ x.failed = d.failed
    BY DEF SameFrame
  <1>1. Knows(r, t) BY DEF PInv, AllKnow
  <1>2. d.pos \in Nat /\ d.expected \in Nat /\ d.pc \in Pc BY Numbers
  <1>3. /\ \A p \in Nat : CoveredTo(log, t, p, meta[r]) => CoveredTo(log', t, p, meta'[r])
        /\ meta[r] = rev[r] => meta'[r] = rev'[r]
        /\ proto[r][t].transportId => proto'[r][t].transportId
        /\ remote[t].produced <= remote'[t].produced
        /\ remote[t].end # "none" => /\ remote'[t].end = remote[t].end
                                     /\ remote'[t].produced = remote[t].produced
    BY Monotone
  <1>4. remote[t].produced \in Nat /\ remote'[t].produced \in Nat
    BY Numbers, NextNumbers DEF Kept
  <1>5. HasEnd(r, t)'
    <2>1. drv'[r][t].terminal # "none" => d.terminal # "none" /\ remote[t].end # "none"
      BY <1>0, <1>1, NextNumbers DEF Knows, HasEnd
    <2> QED BY <1>0, <1>1, <1>3, <2>1 DEF Knows, HasEnd
  <1>6. HasFrame(r, t)'
    <2> SUFFICES ASSUME x.pc = "frame"
                 PROVE  x.pos \in 1..remote'[t].produced /\ Durable(x.pos - 1) /\ x.terminal = "none"
      BY DEF HasFrame
    <2>1. d.pc = "frame" OBVIOUS
    <2>2. d.pos \in 1..remote[t].produced /\ Durable(d.pos - 1) /\ d.terminal = "none"
      BY <1>1, <2>1 DEF Knows, HasFrame
    <2> HIDE DEF d, x
    <2> QED BY <1>0, <1>2, <1>3, <1>4, <2>2
  <1>7. HasCovered(r, t)'
    <2> SUFFICES ASSUME x.pc \in ObservingPc, x.failed = "none"
                 PROVE  CoveredTo(log', t, Reached(x), meta'[r])
      BY DEF HasCovered
    <2>1. d.pc \in ObservingPc /\ d.failed = "none" BY <1>0
    <2>2. CoveredTo(log, t, Reached(d), meta[r]) BY <1>1, <2>1 DEF Knows, HasCovered
    <2>3. Reached(x) = Reached(d) BY <1>0, <2>1 DEF Reached
    <2>4. Reached(d) \in Nat
      BY <1>1, <1>2, <1>4 DEF Reached, Knows, HasFrame, HasEnd
    <2> QED BY <1>3, <2>2, <2>3, <2>4
  <1>8. HasLink(r, t)'
    <2>1. x.pc \in Linked => proto'[r][t].transportId /\ meta'[r] = rev'[r]
      BY <1>1, <1>3 DEF Knows, HasLink
    <2>2. x.mode = "resume" => proto'[r][t].transportId
      BY <1>0, <1>1, <1>3 DEF Knows, HasLink
    <2>3. x.pc \in {"call", "inflight"} => meta'[r] = rev'[r]
      BY <1>1, <1>3 DEF Knows, HasLink
    <2> QED BY <2>1, <2>2, <2>3 DEF HasLink
  <1> QED BY <1>5, <1>6, <1>7, <1>8 DEF Knows

LEMMA OffKnows ==
    ASSUME NEW r \in Runtimes, NEW t \in Turns, drv[r][t].pc = "off",
           drv[r][t].terminal = "none"
    PROVE  Knows(r, t)
  BY DEF Knows, HasEnd, HasFrame, HasCovered, InPhase, HasLink, ObservingPc, Linked

LEMMA RemainsKnows ==
    ASSUME IInv, Kept, PInv, Seen, NEW r \in Runtimes, NEW t \in Turns,
           Remains(drv[r][t], drv'[r][t])
    PROVE  Knows(r, t)'
  <1>1. Knows(r, t) BY DEF PInv, AllKnow
  <1>2. CASE drv[r][t].pc = "off"
    <2>1. drv'[r][t].pc = "off" /\ drv'[r][t].terminal = drv[r][t].terminal
          /\ drv'[r][t].pos = drv[r][t].pos /\ drv'[r][t].expected = drv[r][t].expected
      BY <1>2 DEF Remains, SameFrame
    <2>2. /\ remote[t].end # "none" => /\ remote'[t].end = remote[t].end
                                       /\ remote'[t].produced = remote[t].produced
      BY Monotone
    <2>3. HasEnd(r, t)'
      BY <1>1, <2>1, <2>2 DEF Knows, HasEnd
    <2> QED BY <2>1, <2>3 DEF Knows, HasFrame, HasCovered, InPhase, HasLink, ObservingPc, Linked
  <1>3. CASE drv[r][t].pc # "off"
    <2>1. SameFrame(drv[r][t], drv'[r][t]) /\ drv'[r][t].pc = drv[r][t].pc BY DEF Remains
    <2>2. InPhase(r, t)' BY <1>1, <2>1 DEF Knows, InPhase, SameFrame
    <2> QED BY <1>3, <2>1, <2>2, SameKnows
  <1> QED BY <1>2, <1>3

LEMMA AdvancesKnows ==
    ASSUME IInv, Kept, PInv, Seen, NEW r \in Runtimes, NEW t \in Turns,
           Advances(r, t, drv[r][t], drv'[r][t])
    PROVE  Knows(r, t)'
  <1> DEFINE d == drv[r][t]
             x == drv'[r][t]
  <1>0. SameFrame(d, x) /\ x.terminal = d.terminal /\ x.failed = d.failed
    BY DEF Advances, SameFrame
  <1>1. /\ d.pc # "off" /\ x.pc \notin {"frame", "stream"}
        /\ x.pc \in ObservingPc => d.pc \in ObservingPc /\ d.pc # "frame"
        /\ x.pc \in Linked => d.pc \in Linked \/ (d.pc = "inflight" /\ proto'[r][t].transportId)
        /\ x.pc \in {"call", "inflight"} => d.pc \in {"call", "inflight"} \/ meta'[r] = rev'[r]
    BY DEF Advances, ObservingPc, Linked
  <1>2. x.pc \in {"terminal", "checkpoint"} => d.pc = "settle" /\ d.failed = "none"
        /\ (d.terminal = "none" <=> x.pc = "checkpoint")
    BY DEF Advances
  <1> HIDE DEF d, x
  <1>3. InPhase(r, t)' BY <1>0, <1>1, <1>2 DEF InPhase, x
  <1> QED BY <1>0, <1>1, <1>3, SameKnows DEF d, x

LEMMA ObservesKnows ==
    ASSUME IInv, Kept, PInv, Seen, NEW r \in Runtimes, NEW t \in Turns,
           Observes(r, t, drv[r][t], drv'[r][t])
    PROVE  Knows(r, t)'
  <1> DEFINE d == drv[r][t]
             x == drv'[r][t]
  <1>0. Knows(r, t) BY DEF PInv, AllKnow
  <1>1. /\ x.pc = "stream" /\ x.mode = d.mode /\ x.terminal = "none" /\ x.failed = "none"
        /\ d.pc \in {"queue", "call"}
    BY DEF Observes
  <1>2. proto[r][t].transportId /\ meta[r] = rev[r]
    <2>1. CASE d.pc = "queue" BY <1>0, <2>1 DEF Knows, HasLink, Linked
    <2>2. CASE d.pc = "call" /\ ~StartsRemotely(r, t)
      <3>1. d.mode \in {"start", "resume"} BY Numbers
      <3> QED BY <1>0, <2>2, <3>1 DEF Knows, HasLink, StartsRemotely
    <2> QED BY <2>1, <2>2 DEF Observes
  <1>3. proto'[r][t].transportId /\ meta'[r] = rev'[r] BY <1>1, <1>2, Monotone
  <1>4. HasLink(r, t)' BY <1>1, <1>3 DEF HasLink
  <1>5. CoveredTo(log', t, x.pos, meta'[r])
    <2>1. CASE x.pos = 0 BY <2>1 DEF CoveredTo
    <2>2. CASE x.pos = proto[r][t].checkpoint
      <3>1. CoveredTo(log, t, proto[r][t].checkpoint, meta[r]) BY DEF PInv, ProtoCovered
      <3>2. proto[r][t].checkpoint \in Nat BY Numbers
      <3> QED BY <2>2, <3>1, <3>2, Monotone
    <2> QED BY <2>1, <2>2 DEF Observes
  <1>6. Reached(x) = x.pos BY <1>1 DEF Reached
  <1> QED BY <1>1, <1>4, <1>5, <1>6 DEF Knows, HasEnd, HasFrame, HasCovered, InPhase

LEMMA ProjectsKnows ==
    ASSUME IInv, Kept, PInv, Seen, NEW r \in Runtimes, NEW t \in Turns,
           Projects(r, t, drv[r][t], drv'[r][t])
    PROVE  Knows(r, t)'
  <1> DEFINE d == drv[r][t]
             x == drv'[r][t]
             s == FrameNo(r, t)
  <1>0. Knows(r, t) BY DEF PInv, AllKnow
  <1>1. /\ d.pc = "frame" /\ x.mode = d.mode /\ x.pos = d.pos /\ x.terminal = d.terminal
        /\ x.pc \in {"settle", "stream"}
    BY DEF Projects
  <1>2. /\ d.pos \in 1..remote[t].produced /\ Durable(d.pos - 1) /\ d.terminal = "none"
        /\ d.failed = "none" /\ d.pos \in Nat /\ remote[t].produced \in Nat
    BY <1>0, <1>1, Numbers DEF Knows, HasFrame, InPhase
  <1>3. s \in Nat /\ s + 1 = d.pos /\ Reached(d) = s BY <1>1, <1>2 DEF FrameNo, Reached
  <1>4. proto'[r][t].transportId /\ meta'[r] = rev'[r]
    BY <1>0, <1>1, Monotone DEF Knows, HasLink, Linked, ObservingPc
  <1>5. HasLink(r, t)' BY <1>1, <1>4 DEF HasLink
  <1>6. CASE x.pc = "settle"
    <2>1. x.failed = "local" BY <1>6 DEF Projects
    <2> QED BY <1>1, <1>2, <1>5, <1>6, <2>1
               DEF Knows, HasEnd, HasFrame, HasCovered, InPhase
  <1>7. CASE x.pc = "stream"
    <2>1. x.failed = "none" BY <1>2, <1>7 DEF Projects
    <2>2. CoveredTo(log', t, s, meta'[r])
      BY <1>0, <1>1, <1>2, <1>3, Monotone DEF Knows, HasCovered, ObservingPc
    <2>3. meta[r] \in Nat /\ meta'[r] \in Nat /\ meta[r] <= meta'[r]
      BY Numbers, NextNumbers, Monotone DEF Kept
    <2>4. InLog(log', t, s, meta'[r])
      <3>1. CASE KnownFrame(r, t, s) /\ log' = log
        BY <2>3, <3>1 DEF KnownFrame, InLog
      <3>2. CASE AppendsFrame(r, t) /\ meta'[r] = Len(log')
        <4>1. PICK e \in Event : StoresFrame(r, t, e)
          BY <1>3, <3>2, FrameStores DEF Sequence
        <4>2. Len(log) \in Nat BY Numbers
        <4>3. Len(log) + 1 \in 1..meta'[r] BY <3>2, <4>1, <4>2 DEF StoresFrame
        <4> QED BY <4>1, <4>3 DEF StoresFrame, InLog
      <3> QED BY <1>7, <3>1, <3>2 DEF Projects
    <2>5. CoveredTo(log', t, s + 1, meta'[r]) BY <1>3, <2>2, <2>4, CoverNext
    <2>6. Reached(x) = s + 1 BY <1>1, <1>2, <1>3, <1>7 DEF Reached
    <2> QED BY <1>1, <1>2, <1>5, <1>7, <2>1, <2>5, <2>6
               DEF Knows, HasEnd, HasFrame, HasCovered, InPhase
  <1> QED BY <1>1, <1>6, <1>7

\* A frame that is received: accepted, known already, or refused.
LEMMA ReceivesKnows ==
    ASSUME IInv, Kept, PInv, Seen, NEW r \in Runtimes, NEW t \in Turns,
           Receives(r, t, drv[r][t], drv'[r][t])
    PROVE  Knows(r, t)'
  <1> DEFINE d == drv[r][t]
             x == drv'[r][t]
             s == d.pos
             k == FrameAt(t, s)
             known == KnownFrame(r, t, s)
             ends == {"completed", "toolCalls", "cancelled", "error"}
  <1>0. Knows(r, t) BY DEF PInv, AllKnow
  <1>1. /\ d.pc = "stream" /\ Available(t, s) /\ Produce(t, s) /\ log' = log
        /\ meta'[r] = meta[r] /\ rev'[r] = rev[r]
        /\ x = Received(d, proto[r][t], s, known, k)
    BY DEF Receives
  <1>2. /\ s \in Nat /\ d.expected \in Nat /\ d \in Driver /\ remote[t].produced \in Nat
        /\ Len(Script) \in Nat /\ remote \in [Turns -> Remote] /\ remote[t] \in Remote
    BY Numbers, DriverTyped, SameTypes
  <1>3. d.failed = "none" BY <1>0, <1>1 DEF Knows, InPhase
  <1>4. d.terminal = "none"
    BY <1>0, <1>1, <1>2 DEF Knows, HasEnd, Available
  <1>5. CoveredTo(log, t, s, meta[r])
    BY <1>0, <1>1, <1>3, <1>4 DEF Knows, HasCovered, Reached, ObservingPc
  <1>6. proto'[r][t].transportId /\ meta'[r] = rev'[r]
    BY <1>0, <1>1, Monotone DEF Knows, HasLink, Linked, ObservingPc
  <1>7. \/ k \in ends /\ s = remote[t].produced /\ remote[t].end = k /\ remote' = remote
        \/ /\ k \notin ends /\ s < Len(Script) /\ k = Script[s + 1]
           /\ s + 1 <= remote'[t].produced
    <2>1. CASE s = remote[t].produced /\ remote[t].end # "none"
      <3>1. k = remote[t].end BY <2>1 DEF FrameAt
      <3>2. k \in ends BY <1>2, <2>1, <3>1 DEF Remote
      <3> QED BY <1>1, <2>1, <3>1, <3>2 DEF Produce
    <2>2. CASE ~(s = remote[t].produced /\ remote[t].end # "none")
      <3>1. k = Script[s + 1] BY <2>2 DEF FrameAt
      <3>2. remote[t].produced <= Len(Script) BY DEF PInv, RemoteBound
      <3>3. s < Len(Script) BY <1>1, <1>2, <2>2, <3>2 DEF Available
      <3>4. k \notin ends
        <4>1. s + 1 \in 1..Len(Script) BY <1>2, <3>3
        <4>2. Script[s + 1] \in FrameKinds BY <4>1, ScriptAssumption
        <4> QED BY <3>1, <4>2 DEF FrameKinds
      <3>5. s + 1 <= remote'[t].produced
        <4>1. CASE s = remote[t].produced
          <5>1. remote' = [remote EXCEPT ![t].produced = s + 1]
            BY <1>1, <2>2, <4>1 DEF Produce
          <5>2. remote'[t].produced = s + 1 BY <1>2, <5>1 DEF Remote
          <5> QED BY <1>2, <5>2
        <4>2. CASE s # remote[t].produced
          <5>1. s < remote[t].produced BY <1>1, <4>2 DEF Available
          <5>2. remote' = remote BY <1>1, <4>2 DEF Produce
          <5> QED BY <1>2, <5>1, <5>2
        <4> QED BY <4>1, <4>2
      <3> QED BY <3>1, <3>3, <3>4, <3>5
    <2> QED BY <2>1, <2>2
  <1>8. remote'[t].produced \in Nat BY NextNumbers DEF Kept
  <1> DEFINE taken == Accepts(d, proto[r][t], s, known, k)
  <1> DEFINE next == [d EXCEPT !.pos = s + 1]
  <1>a. /\ taken /\ k \in ends => x = [next EXCEPT !.expected = s + 1, !.terminal = k]
        /\ taken /\ k \notin ends /\ k \in {"usage", "empty"} =>
              x = [next EXCEPT !.expected = s + 1, !.unsafe = @ \/ k = "usage"]
        /\ taken /\ k \notin ends /\ k \notin {"usage", "empty"} =>
              x = [next EXCEPT !.expected = s + 1, !.pc = "frame"]
    <2>1. taken => ~Duplicates(d, s, known) BY DEF Accepts, Duplicates
    <2> HIDE DEF k, known, s, d
    <2> QED BY <1>1, <2>1 DEF Received
  <1>9. taken => s = d.expected BY DEF Accepts
  <1>10. Duplicates(d, s, known) => known BY DEF Duplicates
  <1>11. known => InLog(log, t, s, meta[r]) BY DEF KnownFrame, InLog
  <1>12. CASE taken /\ k \in ends
    <2>1. x = [[d EXCEPT !.pos = s + 1] EXCEPT !.expected = s + 1, !.terminal = k]
      BY <1>a, <1>12
    <2> HIDE DEF k, s, ends
    <2>2. /\ x.pos = s + 1 /\ x.expected = s + 1 /\ x.terminal = k /\ x.pc = d.pc
          /\ x.failed = d.failed /\ x.mode = d.mode
      BY <1>2, <2>1 DEF Driver
    <2>3. k # "none" /\ remote'[t].end = k /\ remote'[t].produced = s
      BY <1>7, <1>12 DEF ends
    <2>4. Reached(x) = s BY <1>2, <2>2, <2>3 DEF Reached
    <2> QED BY <1>1, <1>3, <1>5, <1>6, <2>2, <2>3, <2>4
               DEF Knows, HasEnd, HasFrame, HasCovered, InPhase, HasLink
  <1>13. CASE taken /\ k \notin ends /\ k \in {"usage", "empty"}
    <2>1. x = [[d EXCEPT !.pos = s + 1] EXCEPT !.expected = s + 1, !.unsafe = @ \/ k = "usage"]
      BY <1>a, <1>13
    <2>0. s < Len(Script) /\ k = Script[s + 1] BY <1>7, <1>13
    <2>a. ~Durable(s) BY <1>13, <2>0 DEF Durable
    <2> HIDE DEF k, s
    <2>2. /\ x.pos = s + 1 /\ x.expected = s + 1 /\ x.terminal = d.terminal /\ x.pc = d.pc
          /\ x.failed = d.failed /\ x.mode = d.mode
      BY <1>2, <2>1 DEF Driver
    <2>3. CoveredTo(log, t, s + 1, meta[r]) BY <1>2, <1>5, <2>a, CoverNext
    <2>4. Reached(x) = s + 1 BY <1>1, <1>4, <2>2 DEF Reached
    <2> QED BY <1>1, <1>3, <1>4, <1>6, <2>2, <2>3, <2>4
               DEF Knows, HasEnd, HasFrame, HasCovered, InPhase, HasLink
  <1>14. CASE taken /\ k \notin ends /\ k \notin {"usage", "empty"}
    <2>1. x = [[d EXCEPT !.pos = s + 1] EXCEPT !.expected = s + 1, !.pc = "frame"]
      BY <1>a, <1>14
    <2>0. s + 1 <= remote'[t].produced /\ k = Script[s + 1] BY <1>7, <1>14
    <2>a. Durable(s) BY <1>14, <2>0 DEF Durable
    <2> HIDE DEF k, s
    <2>2. /\ x.pos = s + 1 /\ x.terminal = d.terminal /\ x.pc = "frame"
          /\ x.failed = d.failed /\ x.mode = d.mode
      BY <1>2, <2>1 DEF Driver
    <2>3. Reached(x) = s BY <1>2, <2>2 DEF Reached
    <2>4. x.pos \in 1..remote'[t].produced /\ x.pos - 1 = s BY <1>2, <1>8, <2>0, <2>2
    <2> QED BY <1>1, <1>3, <1>4, <1>5, <1>6, <2>2, <2>3, <2>4, <2>a
               DEF Knows, HasEnd, HasFrame, HasCovered, InPhase, HasLink
  <1>15. CASE ~taken /\ Duplicates(d, s, known)
    <2>1. \/ x = [d EXCEPT !.pos = s + 1]
          \/ x = [[d EXCEPT !.pos = s + 1] EXCEPT !.expected = s + 1]
      BY <1>1, <1>15 DEF Received
    <2> HIDE DEF k, s, known
    <2>2. /\ x.pos = s + 1 /\ x.terminal = d.terminal /\ x.pc = d.pc
          /\ x.failed = d.failed /\ x.mode = d.mode
      BY <1>2, <2>1 DEF Driver
    <2>3. CoveredTo(log, t, s + 1, meta[r]) BY <1>2, <1>5, <1>10, <1>11, <1>15, CoverNext
    <2>4. Reached(x) = s + 1 BY <1>1, <1>4, <2>2 DEF Reached
    <2> QED BY <1>1, <1>3, <1>4, <1>6, <2>2, <2>3, <2>4
               DEF Knows, HasEnd, HasFrame, HasCovered, InPhase, HasLink
  <1>16. CASE ~taken /\ ~Duplicates(d, s, known)
    <2>1. x = Interrupt([d EXCEPT !.pos = s + 1], "protocol")
      BY <1>1, <1>16 DEF Received
    <2> HIDE DEF k, s, known
    <2>2. /\ x.terminal = d.terminal /\ x.pc = "settle" /\ x.failed = "protocol" /\ x.mode = d.mode
      BY <1>2, <2>1 DEF Driver, Interrupt
    <2> QED BY <1>4, <1>6, <2>2 DEF Knows, HasEnd, HasFrame, HasCovered, InPhase, HasLink
  <1> QED BY <1>12, <1>13, <1>14, <1>15, <1>16

LEMMA StepKnows ==
    ASSUME IInv, Kept, PInv, Seen
    PROVE  AllKnow'
  <1> SUFFICES ASSUME NEW r \in Runtimes, NEW t \in Turns PROVE Knows(r, t)' BY DEF AllKnow
  <1> DEFINE d == drv[r][t]
             x == drv'[r][t]
  <1>1. \/ Returns(d, x) \/ Remains(d, x) \/ Begins(r, t, x) \/ Resumes(r, t, x)
        \/ Advances(r, t, d, x) \/ Observes(r, t, d, x) \/ Receives(r, t, d, x)
        \/ Projects(r, t, d, x)
    BY DEF Seen, Driving, Moves
  <1>2. CASE Returns(d, x)
    BY <1>2 DEF Returns, Knows, HasEnd, HasFrame, HasCovered, InPhase, HasLink, ObservingPc, Linked
  <1>3. CASE Begins(r, t, x)
    BY <1>3 DEF Begins, Knows, HasEnd, HasFrame, HasCovered, InPhase, HasLink, ObservingPc, Linked
  <1>4. CASE Resumes(r, t, x)
    <2>1. ProtoStep(r, t) BY DEF Seen, Remembering
    <2>2. proto'[r][t].transportId BY <1>4, <2>1 DEF Resumes, ProtoStep
    <2> QED BY <1>4, <2>2
       DEF Resumes, Knows, HasEnd, HasFrame, HasCovered, InPhase, HasLink, ObservingPc, Linked
  <1> QED BY <1>1, <1>2, <1>3, <1>4, RemainsKnows, AdvancesKnows, ObservesKnows, ReceivesKnows,
             ProjectsKnows

LEMMA FrameNumbers ==
    ASSUME IInv, PInv
    PROVE  \A r \in Runtimes, t \in Turns : drv[r][t].pc = "frame" => FrameNo(r, t) \in Sequence
  <1> SUFFICES ASSUME NEW r \in Runtimes, NEW t \in Turns, drv[r][t].pc = "frame"
               PROVE  FrameNo(r, t) \in Sequence
    OBVIOUS
  <1>1. Knows(r, t) /\ remote[t].produced \in Nat BY Numbers DEF PInv, AllKnow
  <1>2. drv[r][t].pos \in 1..remote[t].produced BY <1>1 DEF Knows, HasFrame
  <1> QED BY <1>1, <1>2 DEF FrameNo, Sequence

LEMMA StepStores == ASSUME IInv, PInv, Seen PROVE Storing
  BY FrameNumbers, SeenStoring DEF Seen

\* An event the log already holds stays as good as it was.
LEMMA OldFrames ==
    ASSUME IInv, Kept, PInv, Seen, NEW i \in 1..Len(log)
    PROVE  FrameOK(i)'
  <1> DEFINE e == log[i].ev
  <1>0. /\ Len(log) \in Nat /\ Len(log') \in Nat /\ Len(log) <= Len(log')
        /\ \A j \in 1..Len(log) : log'[j] = log[j]
    BY Numbers, NextNumbers DEF Kept, LogGrowth
  <1>1. e \in Event
    <2>1. log[i] \in Entry BY DEF IInv, DataOK, LogOK
    <2> QED BY <2>1 DEF Entry
  <1>2. e.turn \in Turns /\ e.seq \in Sequence /\ e.checkpoint \in Nat BY <1>1 DEF Event
  <1>3. log'[i].ev = e BY <1>0
  <1>4. FrameOK(i) BY DEF PInv, LogFrames
  <1>5. \A p \in Nat : CoveredTo(log, e.turn, p, i - 1) => CoveredTo(log', e.turn, p, i - 1)
    <2>1. i - 1 \in Nat /\ \A j \in 1..(i - 1) : log'[j] = log[j] BY <1>0
    <2> QED BY <2>1, CoverGrows
  <1>6. RemoteStep(e.turn) BY <1>2 DEF Seen, Producing
  <1>7. /\ remote[e.turn].produced <= remote'[e.turn].produced
        /\ remote[e.turn].end # "none" => /\ remote'[e.turn].end = remote[e.turn].end
                                          /\ remote'[e.turn].produced = remote[e.turn].produced
    BY <1>6 DEF RemoteStep
  <1>8. remote[e.turn].produced \in Nat /\ remote'[e.turn].produced \in Nat
    BY <1>2, Numbers, NextNumbers DEF Kept
  <1>9. IsTerminalTurn(Latest, e.turn) => IsTerminalTurn(Latest', e.turn)
    BY <1>2 DEF Kept, LogGrowth, IsTerminalTurn
  <1>10. e.seq # NoFrame => e.seq \in Nat BY <1>2 DEF Sequence
  <1> HIDE DEF e
  <1>11. e.seq # NoFrame => CoveredTo(log', e.turn, e.seq, i - 1)
    BY <1>4, <1>5, <1>10 DEF FrameOK, e
  <1>12. CoveredTo(log', e.turn, e.checkpoint, i - 1)
    BY <1>2, <1>4, <1>5 DEF FrameOK, e
  <1>13. e.seq # NoFrame /\ e.kind \notin TerminalKind =>
             e.seq < remote'[e.turn].produced /\ e.kind = FrameKind(e.seq) /\ Durable(e.seq)
    <2> SUFFICES ASSUME e.seq # NoFrame, e.kind \notin TerminalKind
                 PROVE  e.seq < remote'[e.turn].produced /\ e.kind = FrameKind(e.seq)
                        /\ Durable(e.seq)
      OBVIOUS
    <2>1. e.seq < remote[e.turn].produced /\ e.kind = FrameKind(e.seq) /\ Durable(e.seq)
      BY <1>4 DEF FrameOK, e
    <2> QED BY <1>7, <1>8, <1>10, <2>1
  <1>14. e.seq # NoFrame /\ e.kind \in TerminalKind =>
             e.seq = remote'[e.turn].produced /\ remote'[e.turn].end # "none"
    BY <1>4, <1>7 DEF FrameOK, e
  <1>15. /\ e.kind \in TerminalKind => IsTerminalTurn(Latest', e.turn)
         /\ e.kind = "message.text_appended" => e.seq # NoFrame
    BY <1>4, <1>9 DEF FrameOK, e
  <1> QED BY <1>3, <1>11, <1>12, <1>13, <1>14, <1>15 DEF FrameOK

\* No frame is in the log yet when the projector that holds it stores it.
LEMMA NewFrame ==
    ASSUME IInv, PInv, NEW r \in Runtimes, NEW t \in Turns, rev[r] = Len(log),
           NEW e \in Event, StoresFrame(r, t, e)
    PROVE  /\ e.seq \in Nat /\ e.seq < remote[t].produced /\ Durable(e.seq)
           /\ CoveredTo(log, t, e.seq, Len(log)) /\ ~InLog(log, t, e.seq, Len(log))
  <1> DEFINE d == drv[r][t]
  <1>0. Knows(r, t) /\ d.pc = "frame" BY DEF PInv, AllKnow, StoresFrame
  <1>1. remote[t].produced \in Nat /\ d.pos \in 1..remote[t].produced /\ Durable(d.pos - 1)
    BY <1>0, Numbers DEF Knows, HasFrame
  <1>2. e.seq = d.pos - 1 BY DEF StoresFrame, FrameNo
  <1>3. meta[r] = Len(log) BY <1>0 DEF Knows, HasLink, Linked, ObservingPc
  <1>4. CoveredTo(log, t, e.seq, Len(log))
    BY <1>0, <1>2, <1>3 DEF Knows, HasCovered, InPhase, ObservingPc, Reached
  <1>5. ~InLog(log, t, e.seq, Len(log)) BY <1>3 DEF StoresFrame, KnownFrame, InLog
  <1> HIDE DEF d
  <1> QED BY <1>1, <1>2, <1>4, <1>5

LEMMA NewTerminal ==
    ASSUME IInv, PInv, NEW r \in Runtimes, NEW t \in Turns, rev[r] = Len(log),
           NEW e \in Event, StoresTerminal(r, t, e)
    PROVE  /\ e.seq \in Nat /\ e.seq = remote[t].produced
           /\ remote[t].end = drv[r][t].terminal /\ remote[t].end # "none"
           /\ CoveredTo(log, t, e.seq, Len(log)) /\ ~InLog(log, t, e.seq, Len(log))
  <1> DEFINE d == drv[r][t]
  <1>0. Knows(r, t) /\ d.pc = "terminal" BY DEF PInv, AllKnow, StoresTerminal
  <1>1. d.terminal # "none" /\ d.failed = "none" BY <1>0 DEF Knows, InPhase
  <1>2. /\ remote[t].end = d.terminal /\ d.expected = remote[t].produced + 1
        /\ d.pos = d.expected /\ remote[t].produced \in Nat /\ d.pos \in Nat
    BY <1>0, <1>1, Numbers DEF Knows, HasEnd
  <1>3. e.seq = d.expected - 1 BY DEF StoresTerminal
  <1>4. e.seq = remote[t].produced /\ Reached(d) = e.seq BY <1>1, <1>2, <1>3 DEF Reached
  <1>5. meta[r] = Len(log) BY <1>0 DEF Knows, HasLink, Linked, ObservingPc
  <1>6. CoveredTo(log, t, e.seq, Len(log))
    BY <1>0, <1>1, <1>4, <1>5 DEF Knows, HasCovered, ObservingPc
  <1>7. ~InLog(log, t, e.seq, Len(log))
    <2> SUFFICES ASSUME NEW j \in 1..Len(log), log[j].ev.turn = t, log[j].ev.seq = e.seq
                 PROVE  FALSE
      BY DEF InLog
    <2>1. FrameOK(j) BY DEF PInv, LogFrames
    <2>2. e.seq # NoFrame BY <1>2, <1>4 DEF NoFrame
    <2>3. log[j].ev.kind \in TerminalKind
      <3> SUFFICES ASSUME log[j].ev.kind \notin TerminalKind PROVE FALSE OBVIOUS
      <3>1. log[j].ev.seq < remote[t].produced BY <2>1, <2>2 DEF FrameOK
      <3> QED BY <1>2, <1>4, <3>1
    <2>4. IsTerminalTurn(Latest, t) BY <2>1, <2>3 DEF FrameOK
    <2> QED BY <2>4 DEF StoresTerminal, IsOpenTurn, IsTerminalTurn, OpenStatus, TerminalStatus
  <1> QED BY <1>1, <1>2, <1>4, <1>6, <1>7

LEMMA ClosedTerminal == \A k : ClosedBy(k) \in TerminalStatus
  BY ClosedByType

\* An event that is new in the log is good as well.
LEMMA NewFrames ==
    ASSUME IInv, Kept, PInv, Seen, NEW i \in 1..Len(log'), i > Len(log)
    PROVE  FrameOK(i)'
  <1> DEFINE e == log'[i].ev
  <1>0. /\ Len(log) \in Nat /\ Len(log') \in Nat /\ Len(log) <= Len(log')
        /\ \A j \in 1..Len(log) : log'[j] = log[j]
    BY Numbers, NextNumbers DEF Kept, LogGrowth
  <1>1. PICK r \in Runtimes, t \in Turns : Stores(r, t)
    BY <1>0, StepStores DEF Storing
  <1>2. rev[r] = Len(log) BY <1>1 DEF Stores
  <1>3. /\ remote[t].produced <= remote'[t].produced
        /\ remote[t].end # "none" => /\ remote'[t].end = remote[t].end
                                     /\ remote'[t].produced = remote[t].produced
        /\ remote[t].produced \in Nat /\ remote'[t].produced \in Nat
    BY Monotone, Numbers, NextNumbers DEF Kept
  <1>4. \A p \in Nat : CoveredTo(log, t, p, Len(log)) => CoveredTo(log', t, p, i - 1)
    <2>1. i - 1 \in Nat /\ Len(log) <= i - 1 BY <1>0
    <2> QED BY <1>0, <2>1, CoverGrows
  <1>5. CoveredTo(log', t, 0, i - 1) BY DEF CoveredTo
  <1>6. CASE StoresPlain(r, t)
    <2>1. PlainEvent(r, t, e) BY <1>0, <1>6 DEF StoresPlain
    <2>2. e.turn = t /\ e.seq = NoFrame /\ e.checkpoint = 0 /\ e.kind # "message.text_appended"
      BY <2>1 DEF PlainEvent
    <2>3. e.kind \in TerminalKind => IsTerminalTurn(Latest, t)' BY <1>0, <1>6 DEF StoresPlain
    <2> HIDE DEF e
    <2> QED BY <1>5, <2>2, <2>3 DEF FrameOK, e
  <1>7. CASE \E f \in Event : StoresFrame(r, t, f)
    <2>1. PICK f \in Event : StoresFrame(r, t, f) BY <1>7
    <2>2. i = Len(log) + 1 /\ e = f BY <1>0, <2>1 DEF StoresFrame
    <2>3. /\ f.seq \in Nat /\ f.seq < remote[t].produced /\ Durable(f.seq)
          /\ CoveredTo(log, t, f.seq, Len(log))
      BY <1>2, <2>1, NewFrame
    <2>4. f.turn = t /\ f.checkpoint = 0 /\ f.kind = FrameKind(f.seq) BY <2>1 DEF StoresFrame
    <2>5. f.kind \notin TerminalKind BY <2>4, KindFacts
    <2>6. f.seq < remote'[t].produced BY <1>3, <2>3
    <2>7. CoveredTo(log', t, f.seq, i - 1) BY <1>4, <2>3
    <2>8. f.seq # NoFrame BY <2>3 DEF NoFrame
    <2> HIDE DEF e
    <2> QED BY <1>5, <2>2, <2>3, <2>4, <2>5, <2>6, <2>7, <2>8 DEF FrameOK, e
  <1>8. CASE \E f \in Event : StoresCheckpoint(r, t, f)
    <2>1. PICK f \in Event : StoresCheckpoint(r, t, f) BY <1>8
    <2>2. i = Len(log) + 1 /\ e = f BY <1>0, <2>1 DEF StoresCheckpoint
    <2>3. f.turn = t /\ f.seq = NoFrame /\ f.kind = "turn.status_changed"
          /\ f.checkpoint = drv[r][t].pos /\ drv[r][t].pc = "checkpoint"
      BY <2>1 DEF StoresCheckpoint
    <2>4. Knows(r, t) /\ drv[r][t].pos \in Nat BY Numbers DEF PInv, AllKnow
    <2>5. CoveredTo(log, t, drv[r][t].pos, meta[r])
      BY <2>3, <2>4 DEF Knows, InPhase, HasCovered, Reached, ObservingPc
    <2>6. meta[r] = Len(log) BY <1>2, <2>3, <2>4 DEF Knows, HasLink, Linked, ObservingPc
    <2>7. CoveredTo(log', t, f.checkpoint, i - 1) BY <1>4, <2>3, <2>4, <2>5, <2>6
    <2>8. f.kind \notin TerminalKind /\ f.kind # "message.text_appended" BY <2>3, KindFacts
    <2> HIDE DEF e
    <2> QED BY <2>2, <2>3, <2>7, <2>8 DEF FrameOK, e
  <1>9. CASE \E f \in Event : StoresTerminal(r, t, f)
    <2>1. PICK f \in Event : StoresTerminal(r, t, f) BY <1>9
    <2>2. i = Len(log) + 1 /\ e = f BY <1>0, <2>1 DEF StoresTerminal
    <2>3. /\ f.seq \in Nat /\ f.seq = remote[t].produced /\ remote[t].end # "none"
          /\ CoveredTo(log, t, f.seq, Len(log))
      BY <1>2, <2>1, NewTerminal
    <2>4. /\ f.turn = t /\ f.checkpoint = 0 /\ f.kind \in TerminalKind
          /\ f.kind # "message.text_appended" /\ Latest'.status[t] = ClosedBy(f.kind)
      BY <2>1, KindFacts DEF StoresTerminal
    <2>5. IsTerminalTurn(Latest, t)' BY <2>4, ClosedTerminal DEF IsTerminalTurn
    <2>6. f.seq = remote'[t].produced /\ remote'[t].end # "none" BY <1>3, <2>3
    <2>7. CoveredTo(log', t, f.seq, i - 1) BY <1>4, <2>3
    <2> HIDE DEF e
    <2> QED BY <1>5, <2>2, <2>4, <2>5, <2>6, <2>7 DEF FrameOK, e
  <1> QED BY <1>1, <1>6, <1>7, <1>8, <1>9 DEF Stores

LEMMA StepFrames == ASSUME IInv, Kept, PInv, Seen PROVE LogFrames'
  <1> SUFFICES ASSUME NEW i \in 1..Len(log') PROVE FrameOK(i)' BY DEF LogFrames
  <1>1. Len(log) \in Nat /\ Len(log') \in Nat BY Numbers, NextNumbers DEF Kept
  <1>2. i \in 1..Len(log) \/ i > Len(log) BY <1>1
  <1> QED BY <1>2, OldFrames, NewFrames

\* A checkpoint that a runtime remembers is one it read in the log.
LEMMA StepProto == ASSUME IInv, Kept, PInv, Seen PROVE ProtoCovered'
  <1> SUFFICES ASSUME NEW r \in Runtimes, NEW t \in Turns
               PROVE  CoveredTo(log', t, proto'[r][t].checkpoint, meta'[r])
    BY DEF ProtoCovered
  <1> DEFINE c == proto'[r][t].checkpoint
  <1>0. /\ c \in Nat /\ meta'[r] \in Nat /\ meta'[r] <= Len(log') /\ Len(log') \in Nat
        /\ proto[r][t].checkpoint \in Nat
    BY Numbers, NextNumbers DEF Kept
  <1>1. CASE c = 0 BY <1>1 DEF CoveredTo
  <1>2. CASE c = proto[r][t].checkpoint
    <2>1. CoveredTo(log, t, proto[r][t].checkpoint, meta[r]) BY DEF PInv, ProtoCovered
    <2> QED BY <1>0, <1>2, <2>1, Monotone
  <1>3. CASE \E i \in 1..meta'[r] : log'[i].ev.turn = t /\ c = log'[i].ev.checkpoint
    <2>1. PICK i \in 1..meta'[r] : log'[i].ev.turn = t /\ c = log'[i].ev.checkpoint BY <1>3
    <2>2. i \in 1..Len(log') BY <1>0
    <2>3. FrameOK(i)' BY <2>2, StepFrames DEF LogFrames
    <2>4. CoveredTo(log', t, c, i - 1) BY <2>1, <2>3 DEF FrameOK
    <2>5. i - 1 \in Nat /\ i - 1 <= meta'[r] BY <1>0
    <2> HIDE DEF c
    <2> QED BY <1>0, <2>4, <2>5, CoverGrows DEF c
  <1>4. ProtoStep(r, t) BY DEF Seen, Remembering
  <1> QED BY <1>1, <1>2, <1>3, <1>4 DEF ProtoStep

LEMMA StepOnce == ASSUME IInv, Kept, PInv, Seen PROVE FramesOnce'
  <1>0. /\ Len(log) \in Nat /\ Len(log') \in Nat /\ Len(log) <= Len(log')
        /\ \A j \in 1..Len(log) : log'[j] = log[j]
    BY Numbers, NextNumbers DEF Kept, LogGrowth
  <1>1. CASE UNCHANGED log BY <1>1 DEF PInv, FramesOnce
  <1>2. ASSUME NEW r \in Runtimes, NEW t \in Turns, StoresPlain(r, t) PROVE FramesOnce'
    <2>1. \A i \in 1..Len(log') : log'[i].ev.seq # NoFrame => i \in 1..Len(log)
      <3> SUFFICES ASSUME NEW i \in 1..Len(log'), i \notin 1..Len(log)
                   PROVE  log'[i].ev.seq = NoFrame
        OBVIOUS
      <3>1. i \in (Len(log) + 1)..Len(log') BY <1>0
      <3> QED BY <1>2, <3>1 DEF StoresPlain, PlainEvent
    <2> SUFFICES ASSUME NEW i \in 1..Len(log'), NEW j \in 1..Len(log'),
                        log'[i].ev.seq # NoFrame, log'[i].ev.seq = log'[j].ev.seq,
                        log'[i].ev.turn = log'[j].ev.turn
                 PROVE  i = j
      BY DEF FramesOnce
    <2>2. i \in 1..Len(log) /\ j \in 1..Len(log) BY <2>1
    <2> QED BY <1>0, <2>2 DEF PInv, FramesOnce
  <1>3. ASSUME NEW t \in Turns, NEW e \in Event, Len(log') = Len(log) + 1,
               log'[Len(log) + 1].ev = e, e.turn = t,
               e.seq = NoFrame \/ ~InLog(log, t, e.seq, Len(log))
        PROVE  FramesOnce'
    <2> SUFFICES ASSUME NEW i \in 1..Len(log'), NEW j \in 1..Len(log'),
                        log'[i].ev.seq # NoFrame, log'[i].ev.seq = log'[j].ev.seq,
                        log'[i].ev.turn = log'[j].ev.turn
                 PROVE  i = j
      BY DEF FramesOnce
    <2>1. \A k \in 1..Len(log') : k \in 1..Len(log) \/ k = Len(log) + 1 BY <1>0, <1>3
    <2>2. CASE i \in 1..Len(log) /\ j \in 1..Len(log)
      BY <1>0, <2>2 DEF PInv, FramesOnce
    <2>3. CASE i \in 1..Len(log) /\ j = Len(log) + 1
      BY <1>0, <1>3, <2>3 DEF InLog
    <2>4. CASE j \in 1..Len(log) /\ i = Len(log) + 1
      BY <1>0, <1>3, <2>4 DEF InLog
    <2> QED BY <2>1, <2>2, <2>3, <2>4
  <1>4. ASSUME NEW r \in Runtimes, NEW t \in Turns, rev[r] = Len(log), NEW e \in Event,
               StoresFrame(r, t, e) \/ StoresCheckpoint(r, t, e) \/ StoresTerminal(r, t, e)
        PROVE  FramesOnce'
    <2>1. Len(log') = Len(log) + 1 /\ log'[Len(log) + 1].ev = e /\ e.turn = t
      BY <1>4 DEF StoresFrame, StoresCheckpoint, StoresTerminal
    <2>2. e.seq = NoFrame \/ ~InLog(log, t, e.seq, Len(log))
      BY <1>4, NewFrame, NewTerminal DEF StoresCheckpoint
    <2> QED BY <1>3, <2>1, <2>2
  <1>5. ASSUME NEW r \in Runtimes, NEW t \in Turns, Stores(r, t) PROVE FramesOnce'
    BY <1>2, <1>4, <1>5 DEF Stores
  <1> QED BY <1>1, <1>5, StepStores DEF Storing

LEMMA StepDown == ASSUME IInv, Kept, PInv, Seen PROVE DownIdle'
  <1> SUFFICES ASSUME NEW r \in Runtimes, life'[r] # "up", NEW t \in Turns
               PROVE  drv'[r][t].pc = "off" /\ can'[r][t] = "off"
    BY DEF DownIdle
  <1>1. LifeStep(r) BY DEF Seen, Living
  <1>2. CASE life[r] # "up" BY <1>1, <1>2 DEF LifeStep, PInv, DownIdle
  <1>3. CASE life[r] = "up" BY <1>1, <1>3 DEF LifeStep
  <1> QED BY <1>2, <1>3

LEMMA StepBound == ASSUME IInv, Kept, PInv, Seen PROVE RemoteBound'
  <1> SUFFICES ASSUME NEW t \in Turns
               PROVE  /\ remote'[t].produced <= Len(Script)
                      /\ remote'[t].end \in {"completed", "toolCalls"} =>
                            remote'[t].produced = Len(Script)
    BY DEF RemoteBound
  <1>1. RemoteStep(t) BY DEF Seen, Producing
  <1>2. /\ remote[t].produced <= Len(Script)
        /\ remote[t].end \in {"completed", "toolCalls"} => remote[t].produced = Len(Script)
    BY DEF PInv, RemoteBound
  <1> QED BY <1>1, <1>2 DEF RemoteStep

LEMMA StepPInv == ASSUME IInv, PInv, [Next]_vars PROVE PInv'
  <1>1. Kept /\ Seen BY NextOK, NextSeen
  <1> QED BY <1>1, StepKnows, StepFrames, StepProto, StepOnce, StepDown, StepBound DEF PInv

LEMMA InitPInv == Init => PInv
  <1> SUFFICES ASSUME Init PROVE PInv OBVIOUS
  <1>0. Len(Script) \in Nat BY ScriptAssumption
  <1>1. /\ \A r \in Runtimes, t \in Turns : /\ drv[r][t].pc = "off" /\ drv[r][t].terminal = "none"
                                            /\ proto[r][t].checkpoint = 0
        /\ \A r \in Runtimes : life[r] = "up"
        /\ \A t \in Turns : remote[t].produced = 0 /\ remote[t].end = "none"
    BY DEF Init, Idle, NewProtocol
  <1>2. Len(log) = 0 BY DEF Init
  <1>3. DownIdle /\ RemoteBound BY <1>0, <1>1 DEF DownIdle, RemoteBound
  <1>4. AllKnow BY <1>1, OffKnows DEF AllKnow
  <1>5. LogFrames /\ FramesOnce BY <1>2 DEF LogFrames, FramesOnce
  <1>6. ProtoCovered BY <1>1 DEF ProtoCovered, CoveredTo
  <1> QED BY <1>3, <1>4, <1>5, <1>6 DEF PInv

\* The operations of all runtimes, what they remember and the log agree on
\* the frames that are projected: none twice, none left out.
THEOREM ProjectionHolds == Spec => []PInv
  <1>1. Init => PInv BY InitPInv
  <1>2. IInv /\ PInv /\ [Next]_vars => PInv' BY StepPInv
  <1> QED BY <1>1, <1>2, InvariantHolds, PTL DEF Spec

\* A frame of the stream is projected at most once and every checkpoint is
\* behind the frames it covers, however many runtimes project the turn,
\* resume it, crash, or lose the acknowledgement of an append.
THEOREM FramesProjectedOnce == Spec => [](FramesOnce /\ CheckpointCovered)
  <1>1. IInv /\ PInv => FramesOnce /\ CheckpointCovered
    <2> SUFFICES ASSUME IInv, PInv PROVE CheckpointCovered BY DEF PInv
    <2> SUFFICES ASSUME NEW i \in 1..Len(log), NEW s \in 0..(log[i].ev.checkpoint - 1),
                        s < Len(Script) /\ Durable(s)
                 PROVE  \E j \in 1..(i - 1) : log[j].ev.turn = log[i].ev.turn /\ log[j].ev.seq = s
      BY DEF CheckpointCovered
    <2>1. CoveredTo(log, log[i].ev.turn, log[i].ev.checkpoint, i - 1)
      BY DEF PInv, LogFrames, FrameOK
    <2> QED BY <2>1 DEF CoveredTo, InLog
  <1> QED BY <1>1, InvariantHolds, ProjectionHolds, PTL

------------------------------------------------
\* How a turn closes.

\* No turn is cancelled in the log before the transport knows it.
NoPreflight == ~ProviderContext \/ "cancel" \notin Calls

\* A cancellation before the transport knows the turn needs both.
Preflights == \A r \in Runtimes, t \in Turns :
    /\ can[r][t] = "preflight" => ProviderContext
    /\ can[r][t] # "off" => "cancel" \in Calls

\* OutcomeAgrees, with the one exception that a provider context allows.
Outcome == \A t \in Turns :
    /\ Latest.status[t] = "completed" => remote[t].end \in {"completed", "toolCalls"}
    /\ Latest.status[t] = "cancelled" => remote[t].end = "cancelled" \/ ~NoPreflight

LEMMA StepPreflights == ASSUME Seen, Preflights PROVE Preflights'
  <1> SUFFICES ASSUME NEW r \in Runtimes, NEW t \in Turns
               PROVE  /\ can'[r][t] = "preflight" => ProviderContext
                      /\ can'[r][t] # "off" => "cancel" \in Calls
    BY DEF Preflights
  <1>1. Cancels(r, t) BY DEF Seen, Cancelling
  <1> QED BY <1>1 DEF Cancels, CancelMove, Preflights

LEMMA SameLatest == ASSUME UNCHANGED log PROVE Latest' = Latest
  BY DEF Latest

\* How a step changes what the log says of t.
Closes(r, t) ==
    /\ life[r] = "up" /\ rev[r] = Len(log) /\ IsOpenTurn(Latest, t) /\ Quiet(t)
    /\ \/ Latest'.status[t] = "cancelled" /\ can[r][t] = "preflight"
       \/ Latest'.status[t] = "failed" /\ drv[r][t].pc = "fail" /\ drv'[r][t].pc = "off"
       \/ \E e \in Event : StoresTerminal(r, t, e)
Opens(r, t) ==
    /\ Latest.status[t] = "absent" /\ Latest.active = None /\ IsOpenTurn(Latest', t)
    /\ drv[r][t].pc = "admitting" /\ Quiet(t)
LEMMA StatusStep ==
    ASSUME IInv, PInv, Seen, NEW t \in Turns
    PROVE  \/ Stays(t)
           \/ \E r \in Runtimes : Opens(r, t) \/ Closes(r, t)
  <1>1. CASE UNCHANGED log BY <1>1, SameLatest DEF Stays, StaysIn
  <1>2. ASSUME NEW r \in Runtimes, NEW u \in Turns, Stores(r, u), u # t PROVE Stays(t)
    <2>1. CASE StoresPlain(r, u) \/ \E e \in Event : StoresCheckpoint(r, u, e) \/ StoresTerminal(r, u, e)
      <3>1. Quiet(u) BY <2>1 DEF StoresPlain, PlainIn, Quiet, StoresCheckpoint, StoresTerminal
      <3> QED BY <1>2, <3>1 DEF Quiet, QuietIn, Stays, StaysIn
    <2>2. CASE \E e \in Event : StoresFrame(r, u, e)
      BY <1>2, <2>2 DEF StoresFrame, Effect, Stays, StaysIn
    <2> QED BY <1>2, <2>1, <2>2 DEF Stores
  <1>3. ASSUME NEW r \in Runtimes, Stores(r, t)
        PROVE  Stays(t) \/ Opens(r, t) \/ Closes(r, t)
    <2>1. life[r] = "up" /\ rev[r] = Len(log) BY <1>3 DEF Stores
    <2>2. CASE StoresPlain(r, t)
      BY <2>1, <2>2 DEF StoresPlain, PlainIn, Quiet, Stays, Opens, Closes
    <2>3. CASE \E e \in Event : StoresFrame(r, t, e) \/ StoresCheckpoint(r, t, e)
      BY <2>3 DEF StoresFrame, StoresCheckpoint
    <2>4. CASE \E e \in Event : StoresTerminal(r, t, e)
      BY <2>1, <2>4 DEF StoresTerminal, Closes
    <2> QED BY <1>3, <2>2, <2>3, <2>4 DEF Stores
  <1> QED BY <1>1, <1>2, <1>3, StepStores DEF Storing

LEMMA StepOutcome == ASSUME IInv, Kept, PInv, Seen, Preflights, Outcome PROVE Outcome'
  <1> SUFFICES ASSUME NEW t \in Turns
               PROVE  /\ Latest'.status[t] = "completed" => remote'[t].end \in {"completed", "toolCalls"}
                      /\ Latest'.status[t] = "cancelled" => remote'[t].end = "cancelled" \/ ~NoPreflight
    BY DEF Outcome
  <1>1. RemoteStep(t) BY DEF Seen, Producing
  <1>2. remote[t].end # "none" => remote'[t].end = remote[t].end BY <1>1 DEF RemoteStep
  <1>3. CASE Stays(t)
    <2>1. Latest'.status[t] \in {"completed", "cancelled"} => Latest'.status[t] = Latest.status[t]
      BY <1>3 DEF Stays, StaysIn, IsOpenTurn, OpenStatus
    <2> QED BY <1>2, <2>1 DEF Outcome
  <1>4. ASSUME NEW r \in Runtimes, Opens(r, t)
        PROVE  Latest'.status[t] \notin {"completed", "cancelled"}
    BY <1>4 DEF Opens, IsOpenTurn, OpenStatus
  <1>5. ASSUME NEW r \in Runtimes, Closes(r, t)
        PROVE  /\ Latest'.status[t] = "completed" => remote'[t].end \in {"completed", "toolCalls"}
               /\ Latest'.status[t] = "cancelled" => remote'[t].end = "cancelled" \/ ~NoPreflight
    <2>1. CASE Latest'.status[t] = "cancelled" /\ can[r][t] = "preflight"
      BY <2>1 DEF Preflights, NoPreflight
    <2>2. CASE Latest'.status[t] = "failed" BY <2>2
    <2>3. CASE \E e \in Event : StoresTerminal(r, t, e)
      <3>1. PICK e \in Event : StoresTerminal(r, t, e) BY <2>3
      <3>2. rev[r] = Len(log) BY <1>5 DEF Closes
      <3>3. remote[t].end = drv[r][t].terminal /\ remote[t].end # "none" BY <3>1, <3>2, NewTerminal
      <3>4. Latest'.status[t] = ClosedBy(EndKind(remote[t].end)) BY <3>1, <3>3 DEF StoresTerminal
      <3>5. \A end : /\ ClosedBy(EndKind(end)) = "completed" => end \in {"completed", "toolCalls"}
                     /\ ClosedBy(EndKind(end)) = "cancelled" => end = "cancelled"
        BY DEF ClosedBy, EndKind
      <3> QED BY <1>2, <3>3, <3>4, <3>5
    <2> QED BY <1>5, <2>1, <2>2, <2>3 DEF Closes
  <1> QED BY <1>3, <1>4, <1>5, StatusStep

LEMMA InitOutcome == Init => Preflights /\ Outcome
  <1> SUFFICES ASSUME Init PROVE Preflights /\ Outcome OBVIOUS
  <1>1. log = <<>> /\ \A r \in Runtimes, t \in Turns : can[r][t] = "off" BY DEF Init
  <1>2. \A t \in Turns : Latest.status[t] = "absent" BY <1>1 DEF Latest, InitialState
  <1> QED BY <1>1, <1>2 DEF Preflights, Outcome

\* A turn that the log shows as completed was completed by the transport,
\* and one it shows as cancelled was cancelled there, or by a cancellation
\* that came before the transport knew the turn.
THEOREM OutcomeHolds == Spec => [](Preflights /\ Outcome)
  <1>1. Init => Preflights /\ Outcome BY InitOutcome
  <1>2. IInv /\ PInv /\ Preflights /\ Outcome /\ [Next]_vars => (Preflights /\ Outcome)'
    BY NextOK, NextSeen, StepPreflights, StepOutcome
  <1> QED BY <1>1, <1>2, InvariantHolds, ProjectionHolds, PTL DEF Spec

\* Where no turn is cancelled before the transport knows it, a turn closes
\* in the log the way it ended remotely.
THEOREM OutcomesAgree == ASSUME NoPreflight PROVE Spec => []OutcomeAgrees
  <1>1. Outcome => OutcomeAgrees BY DEF Outcome, OutcomeAgrees
  <1> QED BY <1>1, OutcomeHolds, PTL

------------------------------------------------
\* Turns that the transport does not know.

\* Some runtime, or the log, has the transport's identity of t.
Known(t) == (\E q \in Runtimes : proto[q][t].transportId) \/ Told(t, Len(log))
\* r is starting t and has no identity yet.
StartPhase(r, t) ==
    drv[r][t].mode = "start" /\ ~proto[r][t].transportId /\ drv[r][t].pc # "off"
\* Nobody can act on t any more: no operation runs, and none can be resumed.
Dead(t) == ~Known(t) /\ \A q \in Runtimes : drv[q][t].pc = "off"
Unstarted(t) == "startRejected" \notin Faults => ~remote[t].started
Abandoned(t) == Dead(t) /\ Unstarted(t)
\* The log holds the terminal frame of t.
TermLogged(t) == \E i \in 1..Len(log) :
    log[i].ev.turn = t /\ log[i].ev.kind \in TerminalKind /\ log[i].ev.seq # NoFrame
Over(t) == remote[t].end # "none" \/ Abandoned(t)

KnownStarted == \A t \in Turns : Known(t) => remote[t].started
Starts == \A r \in Runtimes, t \in Turns : StartPhase(r, t) =>
    /\ ~Known(t) /\ Unstarted(t)
    /\ \A q \in Runtimes : q # r => drv[q][t].pc = "off"
    /\ NoPreflight => ~IsTerminalTurn(Latest, t)
Phase == \A r \in Runtimes, t \in Turns :
    (\/ drv[r][t].pc \in {"inflight", "fail"}
     \/ drv[r][t].pc = "exhausted" /\ drv[r][t].phase = "start") => StartPhase(r, t)
Closure == NoPreflight => \A t \in Turns :
    IsTerminalTurn(Latest, t) => TermLogged(t) \/ Abandoned(t)
Overs == NoPreflight => \A r \in Runtimes, t \in Turns : can[r][t] = "over" => Over(t)

SInv == KnownStarted /\ Starts /\ Phase /\ Closure /\ Overs

\* The facts a step of the system is looked at with.
Step == /\ IInv /\ Kept /\ PInv /\ PInv' /\ Seen /\ Preflights /\ SInv

\* An event of the log carries an identity that its runtime had.
LEMMA ToldStep ==
    ASSUME Step, NEW t \in Turns, Told(t, Len(log))'
    PROVE  Known(t)
  <1>0. /\ IInv /\ Kept /\ PInv /\ Seen BY DEF Step
  <1>1. /\ Len(log) \in Nat /\ Len(log') \in Nat /\ Len(log) <= Len(log')
        /\ \A j \in 1..Len(log) : log'[j] = log[j]
    BY <1>0, Numbers, NextNumbers DEF Kept, LogGrowth
  <1>2. PICK i \in 1..Len(log') : log'[i].ev.turn = t /\ log'[i].ev.transportId BY DEF Told
  <1>3. CASE i \in 1..Len(log) BY <1>1, <1>2, <1>3 DEF Known, Told
  <1>4. CASE i \notin 1..Len(log)
    <2>0. i \in (Len(log) + 1)..Len(log') BY <1>1, <1>4
    <2>1. PICK r \in Runtimes, u \in Turns : Stores(r, u)
      BY <1>0, <1>1, <2>0, StepStores DEF Storing
    <2>2. CASE StoresPlain(r, u)
      <3>1. PlainEvent(r, u, log'[i].ev) BY <2>0, <2>2 DEF StoresPlain
      <3>2. u = t /\ drv[r][t].pc = "queue" BY <1>2, <3>1 DEF PlainEvent
      <3>3. Knows(r, t) BY <1>0 DEF PInv, AllKnow
      <3> QED BY <3>2, <3>3 DEF Knows, HasLink, Linked, Known
    <2>3. ASSUME NEW e \in Event,
                 StoresFrame(r, u, e) \/ StoresCheckpoint(r, u, e) \/ StoresTerminal(r, u, e)
          PROVE  Known(t)
      <3>1. /\ Len(log') = Len(log) + 1 /\ log'[Len(log) + 1].ev = e /\ e.turn = u
            /\ e.transportId => proto[r][u].transportId
        BY <2>3 DEF StoresFrame, StoresCheckpoint, StoresTerminal
      <3>2. i = Len(log) + 1 BY <1>1, <2>0, <3>1
      <3> QED BY <1>2, <3>1, <3>2 DEF Known
    <2> QED BY <2>1, <2>2, <2>3 DEF Stores
  <1> QED BY <1>3, <1>4

\* A turn becomes known by the transport's answer to startTurn.
LEMMA KnownStep ==
    ASSUME Step, NEW t \in Turns, Known(t)', ~Known(t)
    PROVE  \E q \in Runtimes : /\ drv[q][t].pc = "inflight" /\ drv'[q][t].pc = "queue"
                               /\ proto'[q][t].transportId /\ remote'[t].started
  <1>1. PICK q \in Runtimes : proto'[q][t].transportId BY ToldStep DEF Known
  <1>2. ProtoStep(q, t) BY DEF Step, Seen, Remembering
  <1>3. ~Told(t, Len(log))' BY ToldStep
  <1> QED BY <1>1, <1>2, <1>3 DEF ProtoStep, Known

LEMMA StepKnownStarted == ASSUME Step PROVE KnownStarted'
  <1> SUFFICES ASSUME NEW t \in Turns, Known(t)' PROVE remote'[t].started BY DEF KnownStarted
  <1>1. RemoteStep(t) BY DEF Step, Seen, Producing
  <1>2. CASE Known(t) BY <1>1, <1>2 DEF Step, SInv, KnownStarted, RemoteStep
  <1>3. CASE ~Known(t) BY <1>3, KnownStep
  <1> QED BY <1>2, <1>3

\* A turn that was never begun is neither known nor started.
LEMMA FreshUnknown ==
    ASSUME Step, NEW t \in Turns, FreshTurn(t)
    PROVE  ~Known(t) /\ ~remote[t].started
  <1>1. Latest \in State /\ GoodState(Latest) BY LatestGood DEF Step, IInv, DataOK
  <1>2. t \notin Latest.begun BY <1>1 DEF FreshTurn, GoodState
  <1> QED BY <1>2 DEF Step, IInv, DurableBeforeRemote, SInv, KnownStarted

\* How an operation that does not run begins.
LEMMA OffMoves ==
    ASSUME Step, NEW r \in Runtimes, NEW t \in Turns, drv[r][t].pc = "off"
    PROVE  \/ drv'[r][t].pc = "off"
           \/ Begins(r, t, drv'[r][t]) \/ Resumes(r, t, drv'[r][t])
  <1>1. Moves(r, t) BY DEF Step, Seen, Driving
  <1> QED BY <1>1 DEF Moves, Returns, Remains, Advances, Observes, Receives, Projects

\* What the frame loop does to an operation.
LEMMA ReceivedPc ==
    ASSUME NEW d, d.pc = "stream", NEW p, NEW s, NEW known, NEW kind, d \in Driver
    PROVE  /\ Received(d, p, s, known, kind).mode = d.mode
           /\ Received(d, p, s, known, kind).pc \in {"stream", "frame", "settle"}
  BY DEF Received, Interrupt, Driver

\* While r starts t, nobody else gets hold of it.
LEMMA StartingAlone ==
    ASSUME Step, NEW r \in Runtimes, NEW t \in Turns, StartPhase(r, t)
    PROVE  /\ \A q \in Runtimes : q # r => drv'[q][t].pc = "off"
           /\ drv'[r][t].pc # "queue" => ~Known(t)'
           /\ drv[r][t].pc = "inflight" => (drv'[r][t].pc \notin {"queue", "off"}
              => Unstarted(t)')
           /\ drv[r][t].pc # "inflight" => Unstarted(t)'
  <1>1. /\ ~Known(t) /\ Unstarted(t)
        /\ \A q \in Runtimes : q # r => drv[q][t].pc = "off"
    BY DEF Step, SInv, Starts
  <1>2. ASSUME NEW q \in Runtimes, q # r PROVE drv'[q][t].pc = "off"
    <2>1. drv[q][t].pc = "off" BY <1>1, <1>2
    <2>2. ~Begins(q, t, drv'[q][t]) BY DEF Begins, FreshTurn, StartPhase
    <2>3. ~Resumes(q, t, drv'[q][t]) BY <1>1 DEF Resumes, Known
    <2> QED BY <2>1, <2>2, <2>3, OffMoves
  <1>3. drv'[r][t].pc # "queue" => ~Known(t)'
    BY <1>1, KnownStep
  <1>4. RemoteStep(t) BY DEF Step, Seen, Producing
  <1>5. drv[r][t].pc = "inflight" /\ drv'[r][t].pc \notin {"queue", "off"} => Unstarted(t)'
    BY <1>1, <1>4 DEF RemoteStep, Unstarted
  <1>6. drv[r][t].pc # "inflight" => Unstarted(t)'
    BY <1>1, <1>4 DEF RemoteStep, Unstarted
  <1> QED BY <1>2, <1>3, <1>5, <1>6

\* An operation is in its start phase because it was, or because it begins.
LEMMA StartPhaseStep ==
    ASSUME Step, NEW r \in Runtimes, NEW t \in Turns, StartPhase(r, t)'
    PROVE  StartPhase(r, t) \/ Begins(r, t, drv'[r][t])
  <1> DEFINE d == drv[r][t]
             x == drv'[r][t]
  <1>0. x.mode = "start" /\ x.pc # "off" /\ ~proto'[r][t].transportId BY DEF StartPhase
  <1>1. Moves(r, t) BY DEF Step, Seen, Driving
  <1>2. d.pc # "off" /\ proto[r][t].transportId => proto'[r][t].transportId
    BY Monotone DEF Step
  <1>3. d \in Driver BY DriverTyped DEF Step
  <1>4. CASE Begins(r, t, x) BY <1>4
  <1>5. CASE d.pc # "off" /\ x.mode = d.mode
    BY <1>0, <1>2, <1>5 DEF StartPhase
  <1>6. Returns(d, x) => x.pc = "off" BY DEF Returns
  <1>7. Remains(d, x) => x.mode = d.mode /\ x.pc = d.pc BY DEF Remains, SameFrame
  <1>8. Resumes(r, t, x) => x.mode = "resume" BY DEF Resumes
  <1>9. Advances(r, t, d, x) => d.pc # "off" /\ x.mode = d.mode BY DEF Advances, SameFrame
  <1>10. Observes(r, t, d, x) => d.pc # "off" /\ x.mode = d.mode BY DEF Observes
  <1>11. Receives(r, t, d, x) => d.pc # "off" /\ x.mode = d.mode BY <1>3, ReceivedPc DEF Receives
  <1>12. Projects(r, t, d, x) => d.pc # "off" /\ x.mode = d.mode BY DEF Projects
  <1> HIDE DEF d, x
  <1> QED BY <1>0, <1>1, <1>4, <1>5, <1>6, <1>7, <1>8, <1>9, <1>10, <1>11, <1>12 DEF Moves, d, x

LEMMA StepStarts == ASSUME Step PROVE Starts'
  <1> SUFFICES ASSUME NEW r \in Runtimes, NEW t \in Turns, StartPhase(r, t)'
               PROVE  /\ ~Known(t)' /\ Unstarted(t)'
                      /\ \A q \in Runtimes : q # r => drv'[q][t].pc = "off"
                      /\ NoPreflight => ~IsTerminalTurn(Latest', t)
    BY DEF Starts
  <1>0. drv'[r][t].pc \notin {"queue", "off"}
    <2>1. HasLink(r, t)' BY DEF Step, PInv, AllKnow, Knows
    <2> QED BY <2>1 DEF HasLink, StartPhase, Linked
  <1>1. IInv /\ PInv /\ Seen BY DEF Step
  <1>2. CASE StartPhase(r, t)
    <2>1. /\ ~Known(t)' /\ Unstarted(t)' /\ \A q \in Runtimes : q # r => drv'[q][t].pc = "off"
      BY <1>0, <1>2, StartingAlone
    <2>2. ASSUME NoPreflight, IsTerminalTurn(Latest', t) PROVE FALSE
      <3>0. /\ ~IsTerminalTurn(Latest, t) /\ \A q \in Runtimes : q # r => drv[q][t].pc = "off"
            /\ ~Known(t)
        BY <1>2, <2>2 DEF Step, SInv, Starts
      <3>1. ~Stays(t)
        BY <2>2, <3>0 DEF Stays, StaysIn, IsTerminalTurn, IsOpenTurn, OpenStatus, TerminalStatus
      <3>2. \A q \in Runtimes : ~Opens(q, t)
        BY <2>2 DEF Opens, IsTerminalTurn, IsOpenTurn, OpenStatus, TerminalStatus
      <3>3. PICK q \in Runtimes : Closes(q, t) BY <1>1, <3>1, <3>2, StatusStep
      <3>4. can[q][t] # "preflight" BY <2>2 DEF Step, Preflights, NoPreflight
      <3>5. CASE drv[q][t].pc = "fail" /\ drv'[q][t].pc = "off"
        BY <1>0, <3>0, <3>5
      <3>6. CASE \E e \in Event : StoresTerminal(q, t, e)
        <4>1. drv[q][t].pc = "terminal" BY <3>6 DEF StoresTerminal
        <4>2. HasLink(q, t) BY <1>1 DEF PInv, AllKnow, Knows
        <4>3. proto[q][t].transportId BY <4>1, <4>2 DEF HasLink, Linked, ObservingPc
        <4> QED BY <3>0, <4>3 DEF Known
      <3> QED BY <3>3, <3>4, <3>5, <3>6 DEF Closes
    <2> QED BY <2>1, <2>2
  <1>3. CASE Begins(r, t, drv'[r][t])
    <2>0. FreshTurn(t) /\ drv'[r][t].pc = "admit" BY <1>3 DEF Begins
    <2>1. ~Known(t) /\ ~remote[t].started BY <2>0, FreshUnknown
    <2>2. \A q \in Runtimes : drv[q][t].pc = "off" BY <2>0 DEF FreshTurn
    <2>3. ~Known(t)' BY <2>1, <2>2, KnownStep
    <2>4. RemoteStep(t) BY DEF Step, Seen, Producing
    <2>5. Unstarted(t)' BY <2>1, <2>2, <2>4 DEF RemoteStep, Unstarted
    <2>6. drv'[r] # drv[r] BY <2>0, <2>2
    <2>7. \A q \in Runtimes : q # r => drv'[q][t].pc = "off"
      BY <1>1, <2>2, <2>6 DEF Seen, Apart
    <2>8. ~IsTerminalTurn(Latest', t)
      <3>1. Latest.status[t] = "absent" BY <2>0 DEF FreshTurn
      <3>2. \A q \in Runtimes : ~Closes(q, t) BY <3>1 DEF Closes, IsOpenTurn, OpenStatus, TerminalStatus
      <3>3. Stays(t) => ~IsTerminalTurn(Latest', t)
        BY <3>1 DEF Stays, StaysIn, IsTerminalTurn, IsOpenTurn, OpenStatus, TerminalStatus
      <3>4. \A q \in Runtimes : Opens(q, t) => ~IsTerminalTurn(Latest', t)
        BY DEF Opens, IsTerminalTurn, IsOpenTurn, OpenStatus, TerminalStatus
      <3> QED BY <1>1, <3>2, <3>3, <3>4, StatusStep
    <2> QED BY <2>3, <2>5, <2>7, <2>8
  <1> QED BY <1>2, <1>3, StartPhaseStep

LEMMA StepPhase == ASSUME Step PROVE Phase'
  <1> SUFFICES ASSUME NEW r \in Runtimes, NEW t \in Turns,
                      \/ drv'[r][t].pc \in {"inflight", "fail"}
                      \/ drv'[r][t].pc = "exhausted" /\ drv'[r][t].phase = "start"
               PROVE  StartPhase(r, t)'
    BY DEF Phase
  <1> DEFINE d == drv[r][t]
             x == drv'[r][t]
  <1>1. Moves(r, t) BY DEF Step, Seen, Driving
  <1>2. d \in Driver BY DriverTyped DEF Step
  <1>3. StartPhase(r, t) /\ x.mode = d.mode
    <2>1. ~Returns(d, x) BY DEF Returns
    <2>2. CASE Remains(d, x)
      BY <2>2 DEF Remains, SameFrame, Step, SInv, Phase
    <2>3. ~Begins(r, t, x) /\ ~Resumes(r, t, x) BY DEF Begins, Resumes
    <2>4. CASE Advances(r, t, d, x)
      <3>1. x.mode = d.mode BY <2>4 DEF Advances, SameFrame
      <3>2. \/ d.pc = "call" /\ StartsRemotely(r, t)
            \/ d.pc = "inflight"
            \/ d.pc = "exhausted" /\ d.phase = "start"
        BY <2>4 DEF Advances
      <3>3. CASE d.pc = "call" /\ StartsRemotely(r, t)
        BY <3>1, <3>3 DEF StartsRemotely, StartPhase
      <3>4. CASE d.pc = "inflight" \/ (d.pc = "exhausted" /\ d.phase = "start")
        BY <3>1, <3>4 DEF Step, SInv, Phase
      <3> QED BY <3>2, <3>3, <3>4
    <2>5. ~Observes(r, t, d, x) BY DEF Observes
    <2>6. ~Receives(r, t, d, x) BY <1>2, ReceivedPc DEF Receives
    <2>7. ~Projects(r, t, d, x) BY DEF Projects
    <2> HIDE DEF d, x
    <2> QED BY <1>1, <2>1, <2>2, <2>3, <2>4, <2>5, <2>6, <2>7 DEF Moves, d, x
  <1>4. ~Known(t)' BY <1>3, StartingAlone
  <1> QED BY <1>3, <1>4 DEF StartPhase, Known

\* A turn that was begun and that nobody can act on stays so.
LEMMA AbandonedStays ==
    ASSUME Step, NEW t \in Turns, Abandoned(t), t \in Latest.begun
    PROVE  Abandoned(t)'
  <1>1. ~Known(t) /\ \A q \in Runtimes : drv[q][t].pc = "off" BY DEF Abandoned, Dead
  <1>2. ~Known(t)' BY <1>1, KnownStep
  <1>3. RemoteStep(t) BY DEF Step, Seen, Producing
  <1>4. Unstarted(t)' BY <1>1, <1>3 DEF RemoteStep, Unstarted, Abandoned
  <1>5. Latest \in State /\ GoodState(Latest) BY LatestGood DEF Step, IInv, DataOK
  <1>6. Latest.status[t] # "absent" BY <1>5 DEF GoodState
  <1>7. ASSUME NEW q \in Runtimes PROVE drv'[q][t].pc = "off"
    BY <1>1, <1>6, OffMoves DEF Begins, FreshTurn, Resumes, Known
  <1> QED BY <1>2, <1>4, <1>7 DEF Abandoned, Dead

LEMMA StatusBegun ==
    ASSUME IInv, NEW t \in Turns PROVE Latest.status[t] # "absent" <=> t \in Latest.begun
  BY LatestGood DEF IInv, DataOK, GoodState

LEMMA StepClosure == ASSUME Step PROVE Closure'
  <1> SUFFICES ASSUME NoPreflight, NEW t \in Turns, IsTerminalTurn(Latest', t)
               PROVE  TermLogged(t)' \/ Abandoned(t)'
    BY DEF Closure
  <1>0. /\ IInv /\ PInv /\ Seen /\ Len(log) \in Nat /\ Len(log') \in Nat
        /\ Len(log) <= Len(log') /\ \A j \in 1..Len(log) : log'[j] = log[j]
    BY Numbers, NextNumbers DEF Step, Kept, LogGrowth
  <1>1. CASE IsTerminalTurn(Latest, t)
    <2>1. TermLogged(t) => TermLogged(t)'
      <3> SUFFICES ASSUME NEW i \in 1..Len(log), log[i].ev.turn = t,
                          log[i].ev.kind \in TerminalKind, log[i].ev.seq # NoFrame
                   PROVE  TermLogged(t)'
        BY DEF TermLogged
      <3> QED BY <1>0 DEF TermLogged
    <2>2. t \in Latest.begun
      BY <1>0, <1>1, StatusBegun DEF IsTerminalTurn, TerminalStatus
    <2> QED BY <1>1, <2>1, <2>2, AbandonedStays DEF Step, SInv, Closure
  <1>2. CASE ~IsTerminalTurn(Latest, t)
    <2>1. ~Stays(t) BY <1>2 DEF Stays, StaysIn, IsTerminalTurn, IsOpenTurn, OpenStatus, TerminalStatus
    <2>2. \A q \in Runtimes : ~Opens(q, t)
      BY DEF Opens, IsTerminalTurn, IsOpenTurn, OpenStatus, TerminalStatus
    <2>3. PICK q \in Runtimes : Closes(q, t) BY <1>0, <2>1, <2>2, StatusStep
    <2>4. can[q][t] # "preflight" BY DEF Step, Preflights, NoPreflight
    <2>5. CASE drv[q][t].pc = "fail" /\ drv'[q][t].pc = "off"
      <3>1. StartPhase(q, t) BY <2>5 DEF Step, SInv, Phase
      <3>2. /\ \A s \in Runtimes : s # q => drv'[s][t].pc = "off"
            /\ ~Known(t)' /\ Unstarted(t)'
        BY <2>5, <3>1, StartingAlone
      <3> QED BY <2>5, <3>2 DEF Abandoned, Dead
    <2>6. ASSUME NEW e \in Event, StoresTerminal(q, t, e) PROVE TermLogged(t)'
      <3>1. rev[q] = Len(log) BY <2>3 DEF Closes
      <3>2. e.seq \in Nat BY <1>0, <2>6, <3>1, NewTerminal
      <3>3. e.seq # NoFrame BY <3>2 DEF NoFrame
      <3>4. /\ Len(log') = Len(log) + 1 /\ log'[Len(log) + 1].ev = e /\ e.turn = t
            /\ e.kind = EndKind(drv[q][t].terminal)
        BY <2>6 DEF StoresTerminal
      <3>5. e.kind \in TerminalKind BY <3>4 DEF EndKind, TerminalKind
      <3>6. Len(log) + 1 \in 1..Len(log') BY <1>0, <3>4
      <3> QED BY <3>3, <3>4, <3>5, <3>6 DEF TermLogged
    <2> QED BY <2>3, <2>4, <2>5, <2>6 DEF Closes
  <1> QED BY <1>1, <1>2

\* A turn whose terminal frame is in the log has ended.
LEMMA LoggedEnded ==
    ASSUME PInv, NEW t \in Turns, TermLogged(t)
    PROVE  remote[t].end # "none"
  <1>1. PICK i \in 1..Len(log) : /\ log[i].ev.turn = t /\ log[i].ev.kind \in TerminalKind
                                 /\ log[i].ev.seq # NoFrame
    BY DEF TermLogged
  <1>2. FrameOK(i) BY DEF PInv, LogFrames
  <1> QED BY <1>1, <1>2 DEF FrameOK

LEMMA StepOvers == ASSUME Step PROVE Overs'
  <1> SUFFICES ASSUME NoPreflight, NEW r \in Runtimes, NEW t \in Turns, can'[r][t] = "over"
               PROVE  Over(t)'
    BY DEF Overs
  <1>1. ASSUME Over(t), t \in Latest.begun PROVE Over(t)'
    <2>1. RemoteStep(t) BY DEF Step, Seen, Producing
    <2>2. remote[t].end # "none" => remote'[t].end # "none" BY <2>1 DEF RemoteStep
    <2> QED BY <1>1, <2>2, AbandonedStays DEF Over
  <1>2. ASSUME IsTerminalTurn(Latest, t) PROVE Over(t) /\ t \in Latest.begun
    <2>1. TermLogged(t) \/ Abandoned(t) BY <1>2 DEF Step, SInv, Closure
    <2>2. t \in Latest.begun
      BY <1>2, StatusBegun DEF Step, IsTerminalTurn, TerminalStatus
    <2> QED BY <2>1, <2>2, LoggedEnded DEF Over, Step
  <1>3. ASSUME IsTerminalTurn(Latest', t) PROVE Over(t)'
    <2>1. TermLogged(t)' \/ Abandoned(t)' BY <1>3, StepClosure DEF Closure
    <2>2. TermLogged(t)' => remote'[t].end # "none"
      <3>1. PInv' BY DEF Step
      <3> SUFFICES ASSUME NEW i \in 1..Len(log'), log'[i].ev.turn = t,
                          log'[i].ev.kind \in TerminalKind, log'[i].ev.seq # NoFrame
                   PROVE  remote'[t].end # "none"
        BY DEF TermLogged
      <3>2. FrameOK(i)' BY <3>1 DEF PInv, LogFrames
      <3> QED BY <3>2 DEF FrameOK
    <2> QED BY <2>1, <2>2 DEF Over
  <1>4. Cancels(r, t) BY DEF Step, Seen, Cancelling
  <1>5. can[r][t] # "off" => t \in Latest.begun BY DEF Step, IInv, OpsBegun
  <1>6. CASE can[r][t] = "over"
    BY <1>1, <1>5, <1>6 DEF Step, SInv, Overs
  <1>7. CASE IsTerminalTurn(Snapshot(r), t)
    <2>1. IsTerminalTurn(Latest, t) BY <1>7, SnapshotClosed DEF Step, IInv
    <2> QED BY <1>1, <1>2, <2>1
  <1>8. CASE remote[t].end # "none"
    <2>1. RemoteStep(t) BY DEF Step, Seen, Producing
    <2> QED BY <1>8, <2>1 DEF RemoteStep, Over
  <1>9. can[r][t] # "preflight" BY DEF Step, Preflights, NoPreflight
  <1>10. CASE can[r][t] # "off" /\ ~IsOpenTurn(Latest', t)
    <2>1. t \in Latest'.begun BY <1>5, <1>10 DEF Step, Kept, LogGrowth
    <2>2. IInv' BY DEF Step, Kept
    <2>3. (LogOK => Latest \in State /\ GoodState(Latest))' BY LatestGood, PTL
    <2>4. Latest' \in State /\ GoodState(Latest)' BY <2>2, <2>3 DEF IInv, DataOK
    <2>5. IsTerminalTurn(Latest', t)
      BY <1>10, <2>1, <2>4 DEF GoodState, State, Status, IsOpenTurn, IsTerminalTurn
    <2> QED BY <1>3, <2>5
  <1> QED BY <1>4, <1>6, <1>7, <1>8, <1>9, <1>10 DEF Cancels, CancelMove

LEMMA InitSInv == Init => SInv
  <1> SUFFICES ASSUME Init PROVE SInv OBVIOUS
  <1>1. Len(log) = 0 /\ Latest = InitialState BY DEF Init, Latest
  <1>2. /\ \A r \in Runtimes, t \in Turns : drv[r][t].pc = "off" /\ ~proto[r][t].transportId
                                            /\ can[r][t] = "off"
    BY DEF Init, Idle, NewProtocol
  <1>3. \A t \in Turns : ~Known(t) BY <1>1, <1>2 DEF Known, Told
  <1>4. Starts /\ Phase /\ KnownStarted BY <1>2, <1>3 DEF Starts, StartPhase, Phase, KnownStarted
  <1>5. Closure BY <1>1 DEF Closure, IsTerminalTurn, InitialState, TerminalStatus
  <1> QED BY <1>2, <1>4, <1>5 DEF SInv, Overs

\* How turns start and close, and what a finished cancellation may claim: a
\* closed turn's terminal frame is in the log, or nobody can act on the turn.
THEOREM ClosureHolds == Spec => []SInv
  <1>1. Init => SInv BY InitSInv
  <1>2. IInv /\ PInv /\ Preflights /\ SInv /\ [Next]_vars => SInv'
    <2> SUFFICES ASSUME IInv, PInv, Preflights, SInv, [Next]_vars PROVE SInv' OBVIOUS
    <2>1. Step BY NextOK, NextSeen, StepPInv DEF Step
    <2> QED BY <2>1, StepKnownStarted, StepStarts, StepPhase, StepClosure, StepOvers DEF SInv
  <1> QED BY <1>1, <1>2, InvariantHolds, ProjectionHolds, OutcomeHolds, PTL DEF Spec

\* cancelTurn reports remoteMayStillBeRunning: false only of a remote turn
\* that is not running, where no turn is cancelled before the transport
\* knows it and no startTurn that failed was nevertheless accepted.
THEOREM CancellationsTruthful ==
    ASSUME NoPreflight, "startRejected" \notin Faults
    PROVE  Spec => []CancellationTruthful
  <1>1. SInv => CancellationTruthful
    BY DEF SInv, Overs, Over, Abandoned, Unstarted, CancellationTruthful
  <1> QED BY <1>1, ClosureHolds, PTL

------------------------------------------------
\* The text that readers see.

LEMMA NatMinimum ==
    ASSUME NEW T, T \subseteq Nat, T # {}
    PROVE  \E x \in T : \A y \in T : x <= y
  <1> DEFINE R == OpToRel(<, Nat)
  <1>1. IsWellFoundedOn(R, Nat) BY NatLessThanWellFounded
  <1>2. \A x, y \in Nat : y < x => <<y, x>> \in R BY DEF OpToRel
  <1> HIDE DEF R
  <1>3. PICK x \in T : \A y \in T : ~(<<y, x>> \in R) BY <1>1, WFMin
  <1>4. ASSUME NEW y \in T PROVE x <= y
    <2>1. x \in Nat /\ y \in Nat OBVIOUS
    <2>2. ~(y < x) BY <1>2, <1>3, <2>1
    <2> QED BY <2>1, <2>2
  <1> QED BY <1>4

\* Induction on the natural numbers, for a set.
LEMMA SetInduction ==
    ASSUME NEW S, 0 \in S, \A n \in Nat : n \in S => n + 1 \in S
    PROVE  Nat \subseteq S
  <1> DEFINE T == {n \in Nat : n \notin S}
  <1>1. CASE T = {} BY <1>1
  <1>2. CASE T # {}
    <2>1. PICK x \in T : \A y \in T : x <= y BY <1>2, NatMinimum
    <2>2. x # 0 OBVIOUS
    <2>3. x - 1 \in Nat BY <2>1, <2>2
    <2>4. x - 1 \in S BY <2>1, <2>3
    <2> QED BY <2>3, <2>4
  <1> QED BY <1>1, <1>2

Increasing(q) == \A i, j \in 1..Len(q) : i < j => q[i] < q[j]
Below(k)      == {s \in TextFrames : s < k}
Lists(q, k)   == /\ q \in Seq(TextFrames) /\ Len(q) <= k /\ Increasing(q)
                 /\ \A s \in Below(k) : \E i \in 1..Len(q) : q[i] = s
                 /\ \A i \in 1..Len(q) : q[i] \in Below(k)

LEMMA ListNext ==
    ASSUME NEW k \in Nat, NEW q, Lists(q, k)
    PROVE  \E p : Lists(p, k + 1)
  <1>0. (\A s \in TextFrames : s \in Nat) /\ Len(q) \in Nat /\ q \in Seq(TextFrames)
    BY ScriptAssumption DEF TextFrames, Lists
  <1>1. CASE k \notin TextFrames
    <2>1. Below(k + 1) = Below(k)
      <3>1. \A s \in TextFrames : s < k + 1 <=> s < k BY <1>0, <1>1
      <3> QED BY <3>1 DEF Below
    <2>2. Lists(q, k + 1) BY <1>0, <2>1 DEF Lists
    <2> QED BY <2>2
  <1>2. CASE k \in TextFrames
    <2> DEFINE p == Append(q, k)
    <2>1. /\ p \in Seq(TextFrames) /\ Len(p) = Len(q) + 1 /\ p[Len(q) + 1] = k
          /\ \A i \in 1..Len(q) : p[i] = q[i]
      BY <1>0, <1>2
    <2>2. \A s : s \in Below(k + 1) <=> s \in Below(k) \/ s = k
      <3>1. \A s \in TextFrames : s < k + 1 <=> s < k \/ s = k BY <1>0
      <3>2. k < k + 1 OBVIOUS
      <3> QED BY <1>2, <3>1, <3>2 DEF Below
    <2>3. \A i \in 1..Len(q) : q[i] \in Below(k) /\ q[i] \in Nat /\ q[i] < k
      BY <1>0 DEF Lists, Below
    <2>4. Len(q) <= k /\ Increasing(q) /\ \A s \in Below(k) : \E i \in 1..Len(q) : q[i] = s
      BY DEF Lists
    <2> HIDE DEF p
    <2>5. \A i \in 1..Len(p) : i \in 1..Len(q) \/ i = Len(q) + 1 BY <1>0, <2>1
    <2>6. Increasing(p)
      <3> SUFFICES ASSUME NEW i \in 1..Len(p), NEW j \in 1..Len(p), i < j PROVE p[i] < p[j]
        BY DEF Increasing
      <3>1. i \in 1..Len(q) /\ (j \in 1..Len(q) \/ j = Len(q) + 1)
        <4>1. Len(q) \in Nat /\ Len(p) = Len(q) + 1 BY <1>0, <2>1
        <4>2. i \in 1..(Len(q) + 1) /\ j \in 1..(Len(q) + 1) BY <4>1
        <4> DEFINE n == Len(q)
        <4> HIDE DEF n
        <4>3. n \in Nat /\ i \in 1..(n + 1) /\ j \in 1..(n + 1) BY <4>1, <4>2 DEF n
        <4>4. i \in 1..n /\ (j \in 1..n \/ j = n + 1) BY <4>3
        <4> QED BY <4>4 DEF n
      <3>2. CASE j \in 1..Len(q) BY <2>1, <2>4, <3>1, <3>2 DEF Increasing
      <3>3. CASE j = Len(q) + 1 BY <2>1, <2>3, <3>1, <3>3
      <3> QED BY <3>1, <3>2, <3>3
    <2>7. \A i \in 1..Len(p) : p[i] \in Below(k + 1) BY <2>1, <2>2, <2>3, <2>5
    <2>8. ASSUME NEW s \in Below(k + 1) PROVE \E i \in 1..Len(p) : p[i] = s
      <3>1. CASE s = k BY <1>0, <2>1, <3>1
      <3>2. CASE s \in Below(k)
        <4>1. PICK i \in 1..Len(q) : q[i] = s BY <2>4, <3>2
        <4>2. i \in 1..Len(p) /\ p[i] = s BY <1>0, <2>1, <4>1
        <4> QED BY <4>2
      <3> QED BY <2>2, <3>1, <3>2
    <2>9. Len(p) <= k + 1 BY <1>0, <2>1, <2>4
    <2>10. Lists(p, k + 1) BY <2>1, <2>6, <2>7, <2>8, <2>9 DEF Lists
    <2> QED BY <2>10
  <1> QED BY <1>1, <1>2

\* The stream that readers see lists the frames with text in order.
LEMMA StreamFacts ==
    /\ TextSeqs \in Seq(TextFrames) /\ Increasing(TextSeqs)
    /\ \A s \in TextFrames : \E i \in 1..Len(TextSeqs) : TextSeqs[i] = s
  <1> DEFINE S == {k \in Nat : \E q : Lists(q, k)}
  <1>0. Len(Script) \in Nat BY ScriptAssumption
  <1>1. 0 \in S
    <2>1. Below(0) = {} BY <1>0 DEF Below, TextFrames
    <2>2. Lists(<<>>, 0) BY <2>1 DEF Lists, Increasing
    <2> QED BY <2>2
  <1>2. ASSUME NEW n \in Nat, n \in S PROVE n + 1 \in S BY <1>2, ListNext
  <1> HIDE DEF S
  <1>3. Nat \subseteq S BY <1>1, <1>2, SetInduction
  <1>4. PICK q : Lists(q, Len(Script)) BY <1>0, <1>3 DEF S
  <1>5. Below(Len(Script)) = TextFrames BY <1>0 DEF Below, TextFrames
  <1> DEFINE Lines == UNION {[1..n -> TextFrames] : n \in 0..Len(Script)}
             Good(p) == /\ \A i, j \in 1..Len(p) : i < j => p[i] < p[j]
                        /\ \A s \in TextFrames : \E i \in 1..Len(p) : p[i] = s
  <1>6. q \in Lines /\ Good(q)
    <2>1. /\ q \in Seq(TextFrames) /\ Len(q) <= Len(Script) /\ Increasing(q)
          /\ \A s \in TextFrames : \E i \in 1..Len(q) : q[i] = s
      BY <1>4, <1>5 DEF Lists
    <2>2. Len(q) \in 0..Len(Script) /\ q \in [1..Len(q) -> TextFrames] BY <1>0, <2>1
    <2> QED BY <2>1, <2>2 DEF Increasing
  <1>7. TextSeqs \in Lines /\ Good(TextSeqs)
    <2>1. TextSeqs = CHOOSE p \in Lines : Good(p) BY DEF TextSeqs
    <2> HIDE DEF Lines, Good
    <2> QED BY <1>6, <2>1
  <1>8. PICK n \in 0..Len(Script) : TextSeqs \in [1..n -> TextFrames] BY <1>7
  <1>9. TextSeqs \in Seq(TextFrames) BY <1>0, <1>8
  <1> QED BY <1>7, <1>9 DEF Increasing

\* A beginning of the stream.
Shows(x)  == Len(x) <= Len(TextSeqs) /\ \A k \in 1..Len(x) : x[k] = TextSeqs[k]
Has(x, s) == \E k \in 1..Len(x) : x[k] = s

LEMMA StreamNumbers ==
    /\ Len(TextSeqs) \in Nat
    /\ \A k \in 1..Len(TextSeqs) : TextSeqs[k] \in TextFrames /\ TextSeqs[k] \in Nat
  <1>1. \A s \in TextFrames : s \in Nat BY ScriptAssumption DEF TextFrames
  <1> QED BY <1>1, StreamFacts

\* The next frame with text is the next of the stream.
LEMMA NextInStream ==
    ASSUME NEW x, Len(x) \in Nat, Shows(x), NEW s \in TextFrames, ~Has(x, s),
           \A p \in TextFrames : p < s => Has(x, p)
    PROVE  Len(x) < Len(TextSeqs) /\ TextSeqs[Len(x) + 1] = s
  <1> DEFINE n == Len(x)
  <1>0. PICK m \in 1..Len(TextSeqs) : TextSeqs[m] = s BY StreamFacts
  <1>1. Len(TextSeqs) \in Nat /\ n \in Nat BY StreamNumbers
  <1>2. ~(m <= n)
    <2> SUFFICES ASSUME m <= n PROVE FALSE OBVIOUS
    <2>1. m \in 1..Len(x) BY <1>1
    <2> QED BY <1>0, <2>1 DEF Shows, Has
  <1>3. n < Len(TextSeqs) /\ n + 1 \in 1..Len(TextSeqs) BY <1>1, <1>2
  <1>4. m = n + 1
    <2> SUFFICES ASSUME m # n + 1 PROVE FALSE OBVIOUS
    <2>1. n + 1 < m BY <1>1, <1>2
    <2>2. TextSeqs[n + 1] < s BY <1>0, <1>3, <2>1, StreamFacts DEF Increasing
    <2>3. Has(x, TextSeqs[n + 1]) BY <1>3, <2>2, StreamNumbers
    <2>4. PICK k \in 1..Len(x) : x[k] = TextSeqs[n + 1] BY <2>3 DEF Has
    <2>5. k \in 1..Len(TextSeqs) /\ k < n + 1 BY <1>1, <1>3
    <2>6. TextSeqs[k] < TextSeqs[n + 1] BY <1>3, <2>5, StreamFacts DEF Increasing
    <2>7. TextSeqs[k] = TextSeqs[n + 1] BY <2>4 DEF Shows
    <2> QED BY <1>3, <2>5, <2>6, <2>7, StreamNumbers
  <1> QED BY <1>0, <1>3, <1>4

LEMMA WholeStream ==
    ASSUME NEW x \in Seq(Sequence), Shows(x), \A p \in TextFrames : Has(x, p)
    PROVE  x = TextSeqs
  <1>1. Len(TextSeqs) \in Nat /\ Len(x) \in Nat /\ TextSeqs \in Seq(TextFrames)
    BY StreamNumbers, StreamFacts
  <1>2. Len(x) = Len(TextSeqs)
    <2> SUFFICES ASSUME Len(x) # Len(TextSeqs) PROVE FALSE OBVIOUS
    <2> DEFINE n == Len(x)
    <2>1. n + 1 \in 1..Len(TextSeqs) BY <1>1 DEF Shows
    <2>2. Has(x, TextSeqs[n + 1]) BY <2>1, StreamNumbers
    <2>3. PICK k \in 1..Len(x) : x[k] = TextSeqs[n + 1] BY <2>2 DEF Has
    <2>4. k \in 1..Len(TextSeqs) /\ k < n + 1 BY <1>1, <2>1
    <2>5. TextSeqs[k] < TextSeqs[n + 1] BY <2>1, <2>4, StreamFacts DEF Increasing
    <2>6. TextSeqs[k] = TextSeqs[n + 1] BY <2>3 DEF Shows
    <2> QED BY <2>1, <2>4, <2>5, <2>6, StreamNumbers
  <1>3. \A k \in 1..Len(x) : x[k] = TextSeqs[k] BY DEF Shows
  <1>4. /\ x \in [1..Len(x) -> Sequence] /\ TextSeqs \in [1..Len(x) -> TextFrames]
    BY <1>1, <1>2
  <1> QED BY <1>3, <1>4

\* What readers see of t is a beginning of the stream, and exactly the text
\* frames that the log holds.
TextLogged(t, s) == \E i \in 1..Len(log) :
    log[i].ev.turn = t /\ log[i].ev.kind = "message.text_appended" /\ log[i].ev.seq = s
TextOK(t) == /\ Shows(Latest.text[t])
             /\ \A s \in TextFrames : TextLogged(t, s) <=> Has(Latest.text[t], s)
Shown == \A t \in Turns : TextOK(t)

LEMMA TextTyped ==
    ASSUME IInv, NEW t \in Turns
    PROVE  Latest.text[t] \in Seq(Sequence) /\ Len(Latest.text[t]) \in Nat
  <1>1. Latest \in State BY LatestGood DEF IInv, DataOK
  <1>2. Latest.text[t] \in Seq(Sequence) BY <1>1 DEF State
  <1> QED BY <1>2

\* A text frame that the stream has passed and the log covers is in the log.
LEMMA CoveredText ==
    ASSUME IInv, PInv, NEW t \in Turns, NEW p \in Nat, p <= remote[t].produced,
           CoveredTo(log, t, p, Len(log)), NEW s \in TextFrames, s < p
    PROVE  TextLogged(t, s)
  <1>0. s \in 0..(p - 1) /\ s < Len(Script) /\ Script[s + 1] = "text" /\ s \in Nat
    BY ScriptAssumption DEF TextFrames
  <1>1. InLog(log, t, s, Len(log)) BY <1>0 DEF CoveredTo, Durable
  <1>2. PICK i \in 1..Len(log) : log[i].ev.turn = t /\ log[i].ev.seq = s BY <1>1 DEF InLog
  <1>3. FrameOK(i) /\ s # NoFrame /\ remote[t].produced \in Nat
    BY <1>0, Numbers DEF PInv, LogFrames, NoFrame
  <1>4. log[i].ev.kind \notin TerminalKind
    <2> SUFFICES ASSUME log[i].ev.kind \in TerminalKind PROVE FALSE OBVIOUS
    <2>1. s = remote[t].produced BY <1>2, <1>3 DEF FrameOK
    <2> QED BY <1>0, <1>3, <2>1
  <1>5. log[i].ev.kind = FrameKind(s) BY <1>2, <1>3, <1>4 DEF FrameOK
  <1>6. log[i].ev.kind = "message.text_appended" BY <1>0, <1>5, KindFacts
  <1> QED BY <1>2, <1>6 DEF TextLogged

\* What a step does to the text of t.
SameText(t) == /\ Latest'.text[t] = Latest.text[t]
               /\ \A s : TextLogged(t, s)' <=> TextLogged(t, s)
AddsText(r, t, e) == rev[r] = Len(log) /\ StoresFrame(r, t, e) /\ e.kind = "message.text_appended"

LEMMA SameTextLogged ==
    ASSUME IInv, Kept, NEW t \in Turns,
           \A i \in (Len(log) + 1)..Len(log') :
               log'[i].ev.turn = t => log'[i].ev.kind # "message.text_appended"
    PROVE  \A s : TextLogged(t, s)' <=> TextLogged(t, s)
  <1>0. /\ Len(log) \in Nat /\ Len(log') \in Nat /\ Len(log) <= Len(log')
        /\ \A j \in 1..Len(log) : log'[j] = log[j]
    BY Numbers, NextNumbers DEF Kept, LogGrowth
  <1> SUFFICES ASSUME NEW s PROVE TextLogged(t, s)' <=> TextLogged(t, s) OBVIOUS
  <1>1. ASSUME TextLogged(t, s) PROVE TextLogged(t, s)'
    <2>1. PICK i \in 1..Len(log) : /\ log[i].ev.turn = t /\ log[i].ev.seq = s
                                   /\ log[i].ev.kind = "message.text_appended"
      BY <1>1 DEF TextLogged
    <2>2. i \in 1..Len(log') /\ log'[i] = log[i] BY <1>0
    <2> QED BY <2>1, <2>2 DEF TextLogged
  <1>2. ASSUME TextLogged(t, s)' PROVE TextLogged(t, s)
    <2>1. PICK i \in 1..Len(log') : /\ log'[i].ev.turn = t /\ log'[i].ev.seq = s
                                    /\ log'[i].ev.kind = "message.text_appended"
      BY <1>2 DEF TextLogged
    <2>2. i \in 1..Len(log) \/ i \in (Len(log) + 1)..Len(log') BY <1>0
    <2>3. i \in 1..Len(log) /\ log'[i] = log[i] BY <1>0, <2>1, <2>2
    <2> QED BY <2>1, <2>3 DEF TextLogged
  <1> QED BY <1>1, <1>2

LEMMA TextStep ==
    ASSUME IInv, Kept, PInv, Seen, NEW t \in Turns
    PROVE  SameText(t) \/ \E r \in Runtimes, e \in Event : AddsText(r, t, e)
  <1>0. /\ Len(log) \in Nat /\ Len(log') \in Nat /\ Len(log) <= Len(log')
    BY Numbers, NextNumbers DEF Kept, LogGrowth
  <1>1. CASE UNCHANGED log BY <1>1, SameLatest DEF SameText, TextLogged
  <1>2. ASSUME NEW r \in Runtimes, NEW u \in Turns, Stores(r, u)
        PROVE  SameText(t) \/ \E e \in Event : AddsText(r, t, e)
    <2>1. CASE StoresPlain(r, u)
      <3>1. Latest'.text[t] = Latest.text[t] BY <2>1 DEF StoresPlain, PlainIn, QuietIn
      <3>2. \A i \in (Len(log) + 1)..Len(log') : log'[i].ev.kind # "message.text_appended"
        BY <2>1 DEF StoresPlain, PlainEvent
      <3> QED BY <3>1, <3>2, SameTextLogged DEF SameText
    <2>2. ASSUME NEW e \in Event, StoresCheckpoint(r, u, e) \/ StoresTerminal(r, u, e)
          PROVE  SameText(t)
      <3>1. Latest'.text[t] = Latest.text[t]
        BY <2>2 DEF StoresCheckpoint, StoresTerminal, Quiet, QuietIn
      <3>2. /\ Len(log') = Len(log) + 1 /\ log'[Len(log) + 1].ev = e
            /\ e.kind # "message.text_appended"
        BY <2>2, KindFacts DEF StoresCheckpoint, StoresTerminal
      <3>3. \A i \in (Len(log) + 1)..Len(log') : i = Len(log) + 1 BY <1>0, <3>2
      <3> QED BY <3>1, <3>2, <3>3, SameTextLogged DEF SameText
    <2>3. ASSUME NEW e \in Event, StoresFrame(r, u, e), ~AddsText(r, t, e) PROVE SameText(t)
      <3>1. u # t \/ e.kind # "message.text_appended" BY <1>2, <2>3 DEF AddsText, Stores
      <3>2. Len(log') = Len(log) + 1 /\ log'[Len(log) + 1].ev = e /\ e.turn = u
            /\ Effect(Latest, e, Latest')
        BY <2>3 DEF StoresFrame
      <3>3. Latest'.text[t] = Latest.text[t] BY <3>1, <3>2 DEF Effect
      <3>4. \A i \in (Len(log) + 1)..Len(log') : i = Len(log) + 1 BY <1>0, <3>2
      <3> QED BY <3>1, <3>2, <3>3, <3>4, SameTextLogged DEF SameText
    <2> QED BY <1>2, <2>1, <2>2, <2>3 DEF Stores
  <1> QED BY <1>1, <1>2, StepStores DEF Storing

\* A new text frame continues what readers see.
LEMMA NewText ==
    ASSUME IInv, PInv, Shown, NEW r \in Runtimes, NEW t \in Turns, NEW e \in Event,
           AddsText(r, t, e)
    PROVE  /\ Latest'.text[t] = Append(Latest.text[t], e.seq) /\ e.seq \in TextFrames
           /\ Len(Latest.text[t]) < Len(TextSeqs)
           /\ TextSeqs[Len(Latest.text[t]) + 1] = e.seq
  <1>0. /\ e.seq \in Nat /\ e.seq < remote[t].produced /\ remote[t].produced \in Nat
        /\ CoveredTo(log, t, e.seq, Len(log)) /\ ~InLog(log, t, e.seq, Len(log))
    BY NewFrame, Numbers DEF AddsText
  <1>1. e.turn = t /\ Effect(Latest, e, Latest') /\ e.kind = "message.text_appended"
        /\ e.kind = FrameKind(e.seq)
    BY DEF AddsText, StoresFrame
  <1>2. Latest'.text[t] = Append(Latest.text[t], e.seq) BY <1>1 DEF Effect
  <1>3. e.seq \in TextFrames
    <2>1. Script[e.seq + 1] = "text" BY <1>1, KindFacts
    <2>2. remote[t].produced <= Len(Script) /\ Len(Script) \in Nat
      BY ScriptAssumption DEF PInv, RemoteBound
    <2>3. e.seq \in 0..(Len(Script) - 1) BY <1>0, <2>2
    <2> QED BY <2>1, <2>3 DEF TextFrames
  <1>4. TextOK(t) BY DEF Shown
  <1>5. ~TextLogged(t, e.seq) BY <1>0 DEF TextLogged, InLog
  <1>6. ~Has(Latest.text[t], e.seq) BY <1>3, <1>4, <1>5 DEF TextOK
  <1>7. ASSUME NEW p \in TextFrames, p < e.seq PROVE Has(Latest.text[t], p)
    <2>1. TextLogged(t, p) BY <1>0, <1>7, CoveredText
    <2> QED BY <1>4, <2>1 DEF TextOK
  <1> QED BY <1>2, <1>3, <1>4, <1>6, <1>7, NextInStream, TextTyped DEF TextOK

LEMMA StepShown == ASSUME IInv, Kept, PInv, Seen, Shown PROVE Shown'
  <1> SUFFICES ASSUME NEW t \in Turns PROVE TextOK(t)' BY DEF Shown
  <1>0. /\ Len(log) \in Nat /\ Len(log') \in Nat /\ Len(log) <= Len(log')
        /\ \A j \in 1..Len(log) : log'[j] = log[j]
    BY Numbers, NextNumbers DEF Kept, LogGrowth
  <1>1. CASE SameText(t) BY <1>1 DEF SameText, Shown, TextOK
  <1>2. ASSUME NEW r \in Runtimes, NEW e \in Event, AddsText(r, t, e) PROVE TextOK(t)'
    <2> DEFINE x == Latest.text[t]
               y == Latest'.text[t]
               n == Len(x)
    <2>1. /\ y = Append(x, e.seq) /\ e.seq \in TextFrames
          /\ n < Len(TextSeqs) /\ TextSeqs[n + 1] = e.seq
      BY <1>2, NewText
    <2>2. x \in Seq(Sequence) /\ n \in Nat BY TextTyped
    <2>3. e.seq \in Sequence BY DEF Event
    <2>4. /\ Len(y) = n + 1 /\ y[n + 1] = e.seq /\ \A k \in 1..n : y[k] = x[k]
      BY <2>1, <2>2, <2>3
    <2>5. TextOK(t) BY DEF Shown
    <2>6. Shows(x) /\ \A s \in TextFrames : TextLogged(t, s) <=> Has(x, s) BY <2>5 DEF TextOK
    <2> HIDE DEF x, y
    <2>7. \A k \in 1..Len(y) : k \in 1..n \/ k = n + 1 BY <2>2, <2>4
    <2>8. Shows(y) BY <2>1, <2>2, <2>4, <2>6, <2>7, StreamNumbers DEF Shows
    <2>9. \A s : Has(y, s) <=> Has(x, s) \/ s = e.seq
      <3> SUFFICES ASSUME NEW s PROVE Has(y, s) <=> Has(x, s) \/ s = e.seq OBVIOUS
      <3>1. ASSUME Has(y, s) PROVE Has(x, s) \/ s = e.seq BY <2>4, <2>7, <3>1 DEF Has
      <3>2. 1..n \subseteq 1..Len(y) /\ n + 1 \in 1..Len(y) BY <2>2, <2>4
      <3>3. ASSUME Has(x, s) \/ s = e.seq PROVE Has(y, s) BY <2>4, <3>2, <3>3 DEF Has
      <3> QED BY <3>1, <3>3
    <2>10. /\ Len(log') = Len(log) + 1 /\ log'[Len(log) + 1].ev = e /\ e.turn = t
           /\ e.kind = "message.text_appended"
      BY <1>2 DEF AddsText, StoresFrame
    <2>11. \A s : TextLogged(t, s)' <=> TextLogged(t, s) \/ s = e.seq
      <3> SUFFICES ASSUME NEW s PROVE TextLogged(t, s)' <=> TextLogged(t, s) \/ s = e.seq OBVIOUS
      <3>1. 1..Len(log) \subseteq 1..Len(log') /\ Len(log) + 1 \in 1..Len(log') BY <1>0, <2>10
      <3>2. \A k \in 1..Len(log') : k \in 1..Len(log) \/ k = Len(log) + 1 BY <1>0, <2>10
      <3>3. ASSUME TextLogged(t, s)' PROVE TextLogged(t, s) \/ s = e.seq
        BY <1>0, <2>10, <3>2, <3>3 DEF TextLogged
      <3>4. ASSUME TextLogged(t, s) PROVE TextLogged(t, s)'
        BY <1>0, <3>1, <3>4 DEF TextLogged
      <3>5. ASSUME s = e.seq PROVE TextLogged(t, s)'
        BY <2>10, <3>1, <3>5 DEF TextLogged
      <3> QED BY <3>3, <3>4, <3>5
    <2> QED BY <2>6, <2>8, <2>9, <2>11 DEF TextOK, y
  <1> QED BY <1>1, <1>2, TextStep

------------------------------------------------
\* The runtimes implement the conversation of their readers.

PhaseIn(st, t) == IF IsOpenTurn(st, t) THEN "open" ELSE st.status[t]
ReaderPhase == [t \in Turns |-> PhaseIn(Latest, t)]
ReaderText  == Latest.text

\* The three steps of the conversation, of its readers' variables.
Admits(t) == /\ ReaderPhase[t] = "absent" /\ \A u \in Turns : ReaderPhase[u] # "open"
             /\ ReaderPhase' = [ReaderPhase EXCEPT ![t] = "open"]
             /\ ReaderText' = ReaderText
ShowsNext(t) == /\ ReaderPhase[t] = "open" /\ Len(ReaderText[t]) < Len(TextSeqs)
                /\ ReaderText' = [ReaderText EXCEPT ![t] = Append(@, TextSeqs[Len(@) + 1])]
                /\ ReaderPhase' = ReaderPhase
Ends(t) == /\ ReaderPhase[t] = "open"
           /\ \E end \in TerminalStatus :
                /\ end = "completed" => ReaderText[t] = TextSeqs
                /\ ReaderPhase' = [ReaderPhase EXCEPT ![t] = end]
           /\ ReaderText' = ReaderText
ReaderStep == \/ ReaderPhase' = ReaderPhase /\ ReaderText' = ReaderText
              \/ \E t \in Turns : Admits(t) \/ ShowsNext(t) \/ Ends(t)

LEMMA NextTyped ==
    ASSUME IInv, Kept
    PROVE  /\ Latest \in State /\ Latest' \in State /\ GoodState(Latest)
           /\ ReaderText \in [Turns -> Seq(Sequence)] /\ ReaderText' \in [Turns -> Seq(Sequence)]
  <1>1. Latest \in State /\ GoodState(Latest) BY LatestGood DEF IInv, DataOK
  <1>2. (LogOK => Latest \in State)' BY LatestGood, PTL
  <1>3. Latest' \in State BY <1>2 DEF Kept, IInv, DataOK
  <1> QED BY <1>1, <1>3 DEF State, ReaderText

\* A step that changes the status of t at most, and no text.
LEMMA QuietReader ==
    ASSUME IInv, Kept, NEW t \in Turns, Quiet(t)
    PROVE  /\ ReaderText' = ReaderText
           /\ ReaderPhase' = [ReaderPhase EXCEPT ![t] = PhaseIn(Latest', t)]
  <1>1. \A u \in Turns : Latest'.text[u] = Latest.text[u] BY DEF Quiet, QuietIn
  <1>2. ReaderText' = ReaderText BY <1>1, NextTyped DEF ReaderText
  <1>3. \A u \in Turns : u # t => PhaseIn(Latest', u) = PhaseIn(Latest, u)
    BY DEF Quiet, QuietIn, PhaseIn, IsOpenTurn
  <1>4. ReaderPhase' = [u \in Turns |-> PhaseIn(Latest', u)] BY DEF ReaderPhase
  <1> HIDE DEF PhaseIn
  <1> QED BY <1>2, <1>3, <1>4 DEF ReaderPhase

LEMMA StaysPhase ==
    ASSUME NEW t \in Turns, Stays(t)
    PROVE  PhaseIn(Latest', t) = PhaseIn(Latest, t)
  BY DEF Stays, StaysIn, PhaseIn, IsOpenTurn

LEMMA StaysReader ==
    ASSUME IInv, Kept, NEW t \in Turns, Quiet(t), Stays(t)
    PROVE  ReaderPhase' = ReaderPhase /\ ReaderText' = ReaderText
  <1>1. ReaderPhase[t] = PhaseIn(Latest', t) BY StaysPhase DEF ReaderPhase
  <1>2. ReaderPhase' = [ReaderPhase EXCEPT ![t] = PhaseIn(Latest', t)] /\ ReaderText' = ReaderText
    BY QuietReader
  <1>3. ReaderPhase = [u \in Turns |-> ReaderPhase[u]] BY DEF ReaderPhase
  <1> HIDE DEF ReaderPhase
  <1> QED BY <1>1, <1>2, <1>3

LEMMA OpensReader ==
    ASSUME IInv, Kept, NEW r \in Runtimes, NEW t \in Turns, Opens(r, t)
    PROVE  Admits(t)
  <1>1. /\ Latest.status[t] = "absent" /\ Latest.active = None /\ IsOpenTurn(Latest', t) /\ Quiet(t)
    BY DEF Opens
  <1>2. ReaderPhase[t] = "absent" BY <1>1 DEF ReaderPhase, PhaseIn, IsOpenTurn, OpenStatus
  <1>3. ASSUME NEW u \in Turns PROVE ReaderPhase[u] # "open"
    <2>1. ~IsOpenTurn(Latest, u) BY <1>1, NextTyped, NoneFresh DEF GoodState
    <2>2. Latest.status[u] # "open"
      <3>1. Latest.status[u] \in Status BY NextTyped DEF State
      <3> QED BY <3>1 DEF Status, OpenStatus, TerminalStatus
    <2> QED BY <2>1, <2>2 DEF ReaderPhase, PhaseIn
  <1>4. PhaseIn(Latest', t) = "open" BY <1>1 DEF PhaseIn
  <1> QED BY <1>1, <1>2, <1>3, <1>4, QuietReader DEF Admits

LEMMA ClosesReader ==
    ASSUME IInv, Kept, PInv, Shown, NEW r \in Runtimes, NEW t \in Turns, Closes(r, t)
    PROVE  Ends(t)
  <1>1. IsOpenTurn(Latest, t) /\ Quiet(t) /\ rev[r] = Len(log) BY DEF Closes
  <1>2. ReaderPhase[t] = "open" BY <1>1 DEF ReaderPhase, PhaseIn
  <1> DEFINE end == Latest'.status[t]
  <1>3. /\ end \in TerminalStatus
        /\ end = "completed" => ReaderText[t] = TextSeqs
    <2>1. CASE end \in {"cancelled", "failed"} BY <2>1 DEF TerminalStatus
    <2>2. ASSUME NEW e \in Event, StoresTerminal(r, t, e) PROVE <1>3
      <3>1. end = ClosedBy(EndKind(drv[r][t].terminal)) BY <2>2 DEF StoresTerminal
      <3>2. /\ e.seq \in Nat /\ e.seq = remote[t].produced /\ remote[t].end = drv[r][t].terminal
            /\ CoveredTo(log, t, e.seq, Len(log))
        BY <1>1, <2>2, NewTerminal
      <3>3. end \in TerminalStatus BY <3>1, ClosedTerminal
      <3>4. ASSUME end = "completed" PROVE ReaderText[t] = TextSeqs
        <4>1. remote[t].end \in {"completed", "toolCalls"}
          BY <3>1, <3>2, <3>4 DEF ClosedBy, EndKind
        <4>2. e.seq = Len(Script) BY <3>2, <4>1 DEF PInv, RemoteBound
        <4>3. TextOK(t) BY DEF Shown
        <4>4. ASSUME NEW p \in TextFrames PROVE Has(Latest.text[t], p)
          <5>1. p < e.seq BY <4>2, ScriptAssumption DEF TextFrames
          <5>2. e.seq <= remote[t].produced BY <3>2
          <5>3. TextLogged(t, p) BY <3>2, <5>1, <5>2, CoveredText
          <5> QED BY <4>3, <5>3 DEF TextOK
        <4> QED BY <4>3, <4>4, WholeStream, TextTyped DEF TextOK, ReaderText
      <3> QED BY <3>3, <3>4
    <2> QED BY <2>1, <2>2 DEF Closes
  <1>4. PhaseIn(Latest', t) = end
    BY <1>3 DEF PhaseIn, IsOpenTurn, OpenStatus, TerminalStatus
  <1> HIDE DEF end
  <1> QED BY <1>1, <1>2, <1>3, <1>4, QuietReader DEF Ends

\* Text appears only while its turn is open: the terminal frame of a closed
\* turn follows its text frames, and nobody acts on an abandoned turn.
LEMMA OpenText ==
    ASSUME IInv, PInv, SInv, NoPreflight, NEW r \in Runtimes, NEW t \in Turns, NEW e \in Event,
           AddsText(r, t, e)
    PROVE  IsOpenTurn(Latest, t)
  <1>0. /\ e.seq \in Nat /\ e.seq < remote[t].produced /\ Durable(e.seq)
        /\ remote[t].produced \in Nat /\ ~InLog(log, t, e.seq, Len(log))
    BY NewFrame, Numbers DEF AddsText
  <1>1. drv[r][t].pc = "frame" BY DEF AddsText, StoresFrame
  <1>2. ~Abandoned(t) BY <1>1 DEF Abandoned, Dead
  <1>3. ~TermLogged(t)
    <2> SUFFICES ASSUME NEW i \in 1..Len(log), log[i].ev.turn = t,
                        log[i].ev.kind \in TerminalKind, log[i].ev.seq # NoFrame
                 PROVE  FALSE
      BY DEF TermLogged
    <2>1. FrameOK(i) BY DEF PInv, LogFrames
    <2>2. log[i].ev.seq = remote[t].produced /\ CoveredTo(log, t, log[i].ev.seq, i - 1)
      BY <2>1 DEF FrameOK
    <2>3. e.seq \in 0..(remote[t].produced - 1) /\ e.seq < Len(Script)
      <3>1. remote[t].produced <= Len(Script) /\ Len(Script) \in Nat
        BY ScriptAssumption DEF PInv, RemoteBound
      <3> QED BY <1>0, <3>1
    <2>4. InLog(log, t, e.seq, i - 1) BY <1>0, <2>2, <2>3 DEF CoveredTo
    <2>5. Len(log) \in Nat /\ 1..(i - 1) \subseteq 1..Len(log) BY Numbers
    <2> QED BY <1>0, <2>4, <2>5 DEF InLog
  <1>4. ~IsTerminalTurn(Latest, t) BY <1>2, <1>3 DEF SInv, Closure
  <1>5. t \in Latest.begun BY <1>1 DEF IInv, OpsBegun, Running
  <1>6. Latest.status[t] # "absent" BY <1>5, StatusBegun
  <1>7. Latest.status[t] \in Status BY LatestGood DEF IInv, DataOK, State
  <1> QED BY <1>4, <1>6, <1>7 DEF Status, IsOpenTurn, IsTerminalTurn

LEMMA TextReader ==
    ASSUME IInv, Kept, PInv, SInv, Shown, NoPreflight, NEW r \in Runtimes, NEW t \in Turns,
           NEW e \in Event, AddsText(r, t, e)
    PROVE  ShowsNext(t)
  <1>1. /\ Latest'.text[t] = Append(Latest.text[t], e.seq)
        /\ Len(Latest.text[t]) < Len(TextSeqs) /\ TextSeqs[Len(Latest.text[t]) + 1] = e.seq
    BY NewText
  <1>2. Stays(t) /\ Effect(Latest, e, Latest') /\ e.turn = t BY DEF AddsText, StoresFrame
  <1>3. \A u \in Turns : u # t => /\ Latest'.text[u] = Latest.text[u]
                                  /\ Latest'.status[u] = Latest.status[u]
    BY <1>2 DEF Effect
  <1>4. ReaderText' = [ReaderText EXCEPT ![t] = Append(@, TextSeqs[Len(@) + 1])]
    BY <1>1, <1>3, NextTyped DEF ReaderText
  <1>5. \A u \in Turns : PhaseIn(Latest', u) = PhaseIn(Latest, u)
    BY <1>2, <1>3, StaysPhase DEF PhaseIn, IsOpenTurn
  <1>6. ReaderPhase' = ReaderPhase BY <1>5 DEF ReaderPhase
  <1>7. ReaderPhase[t] = "open" BY OpenText DEF ReaderPhase, PhaseIn
  <1> QED BY <1>1, <1>4, <1>6, <1>7 DEF ShowsNext, ReaderText

LEMMA StepReader ==
    ASSUME IInv, Kept, PInv, SInv, Shown, NoPreflight, Seen
    PROVE  ReaderStep
  <1>1. CASE UNCHANGED log
    BY <1>1, SameLatest DEF ReaderStep, ReaderPhase, ReaderText
  <1>2. ASSUME NEW r \in Runtimes, NEW t \in Turns, Stores(r, t), Quiet(t) PROVE ReaderStep
    <2>1. CASE Stays(t) BY <1>2, <2>1, StaysReader DEF ReaderStep
    <2>2. CASE ~Stays(t)
      <3>1. PICK q \in Runtimes : Opens(q, t) \/ Closes(q, t) BY <2>2, StatusStep
      <3> QED BY <3>1, OpensReader, ClosesReader DEF ReaderStep
    <2> QED BY <2>1, <2>2
  <1>3. ASSUME NEW r \in Runtimes, NEW t \in Turns, Stores(r, t) PROVE ReaderStep
    <2>1. CASE StoresPlain(r, t) BY <1>2, <1>3, <2>1 DEF StoresPlain, PlainIn, Quiet
    <2>2. ASSUME NEW e \in Event, StoresCheckpoint(r, t, e) \/ StoresTerminal(r, t, e)
          PROVE  ReaderStep
      BY <1>2, <1>3, <2>2 DEF StoresCheckpoint, StoresTerminal
    <2>3. ASSUME NEW e \in Event, StoresFrame(r, t, e) PROVE ReaderStep
      <3>1. CASE e.kind = "message.text_appended"
        BY <1>3, <2>3, <3>1, TextReader DEF ReaderStep, AddsText, Stores
      <3>2. CASE e.kind # "message.text_appended"
        <4>1. Effect(Latest, e, Latest') /\ e.turn = t BY <2>3 DEF StoresFrame
        <4>2. Quiet(t) BY <3>2, <4>1, QuietEffect DEF Quiet
        <4> QED BY <1>2, <1>3, <4>2
      <3> QED BY <3>1, <3>2
    <2> QED BY <1>3, <2>1, <2>2, <2>3 DEF Stores
  <1> QED BY <1>1, <1>3, StepStores DEF Storing

LEMMA ReaderNext == ReaderStep => [Reader!Next]_(Reader!abstractVars)
  <1> SUFFICES ASSUME ReaderStep PROVE [Reader!Next]_(Reader!abstractVars) OBVIOUS
  <1>1. CASE ReaderPhase' = ReaderPhase /\ ReaderText' = ReaderText
    BY <1>1 DEF Reader!abstractVars, ReaderPhase, ReaderText, PhaseIn
  <1>2. ASSUME NEW t \in Turns, Admits(t) PROVE Reader!Admit(t)
    BY <1>2 DEF Reader!Admit, Admits, ReaderPhase, ReaderText, PhaseIn
  <1>3. ASSUME NEW t \in Turns, ShowsNext(t) PROVE Reader!Show(t)
    BY <1>3 DEF Reader!Show, ShowsNext, ReaderPhase, ReaderText, PhaseIn
  <1>4. ASSUME NEW t \in Turns, Ends(t) PROVE Reader!Close(t)
    BY <1>4 DEF Reader!Close, Reader!Closed, TerminalStatus, Ends, ReaderPhase, ReaderText, PhaseIn
  <1> QED BY <1>1, <1>2, <1>3, <1>4 DEF ReaderStep, Reader!Next

LEMMA InitShown == Init => Shown /\ Reader!Init
  <1> SUFFICES ASSUME Init PROVE Shown /\ Reader!Init OBVIOUS
  <1>1. Len(log) = 0 /\ Latest = InitialState BY DEF Init, Latest
  <1>2. \A t \in Turns : Latest.text[t] = <<>> /\ Latest.status[t] = "absent"
    BY <1>1 DEF InitialState
  <1>3. Latest.text = [t \in Turns |-> <<>>] BY <1>1 DEF InitialState
  <1>4. Shown BY <1>1, <1>2, StreamNumbers DEF Shown, TextOK, Shows, Has, TextLogged
  <1>5. Reader!Init BY <1>2, <1>3 DEF Reader!Init, IsOpenTurn, OpenStatus
  <1> QED BY <1>4, <1>5

\* What readers see of a turn is always a beginning of its stream.
THEOREM TextInOrder == Spec => []Shown
  <1>1. Init => Shown BY InitShown
  <1>2. IInv /\ PInv /\ Shown /\ [Next]_vars => Shown' BY NextOK, NextSeen, StepShown
  <1> QED BY <1>1, <1>2, InvariantHolds, ProjectionHolds, PTL DEF Spec

\* Any number of runtimes that append to one log implement the conversation
\* of their readers, where no turn is cancelled before the transport knows
\* it: every append is a step of Conversation, or readers do not see it.
THEOREM ReadersServed == ASSUME NoPreflight PROVE Spec => ImplementsConversation
  <1>1. Init => Reader!Init BY InitShown
  <1>2. IInv /\ PInv /\ SInv /\ Shown /\ [Next]_vars => [Reader!Next]_(Reader!abstractVars)
    BY NextOK, NextSeen, StepReader, ReaderNext
  <1> QED BY <1>1, <1>2, InvariantHolds, ProjectionHolds, ClosureHolds, TextInOrder, PTL
          DEF Spec, ImplementsConversation, Reader!Spec

------------------------------------------------
\* One assistant message for a turn.

\* A runtime reads the log only when the driver of its one turn appends: its
\* caller neither cancels nor synchronizes, and no other turn runs.
OwnReadings == (\A t, u \in Turns : t = u) /\ {"cancel", "synchronize"} \cap Calls = {}

\* What r has not read of the log holds no text of t.
ReadText(r, t) == \A i \in (rev[r] + 1)..Len(log) :
    log[i].ev.turn = t => log[i].ev.kind # "message.text_appended"
SnapshotMessages == \A r \in Runtimes, t \in Turns :
    ReadText(r, t) => Snapshot(r).messages[t] = Latest.messages[t]
\* An operation that may store text has the message that r sees.
Streaming(r, t) == \/ drv[r][t].pc = "stream"
                   \/ drv[r][t].pc = "frame" /\ ~KnownFrame(r, t, FrameNo(r, t))
HasMessage(r, t) == Streaming(r, t) /\ Snapshot(r).messages[t] # {} =>
                        drv[r][t].message \in Snapshot(r).messages[t]

MInv == /\ \A t \in Turns : None \notin Latest.messages[t]
        /\ SnapshotMessages
        /\ OwnReadings => OneAssistantMessage /\ \A r \in Runtimes, t \in Turns : HasMessage(r, t)

\* A step that stores no text of t keeps its messages.
LEMMA MessagesStep ==
    ASSUME IInv, Kept, PInv, Seen, NEW t \in Turns
    PROVE  \/ Latest'.messages[t] = Latest.messages[t]
           \/ \E r \in Runtimes, e \in Event : AddsText(r, t, e)
  <1>1. CASE UNCHANGED log BY <1>1, SameLatest
  <1>2. ASSUME NEW r \in Runtimes, NEW u \in Turns, Stores(r, u), ~AddsText(r, t, log'[Len(log) + 1].ev)
        PROVE  Latest'.messages[t] = Latest.messages[t]
    <2>1. CASE StoresPlain(r, u) BY <2>1 DEF StoresPlain, PlainIn, QuietIn
    <2>2. ASSUME NEW e \in Event, StoresCheckpoint(r, u, e) \/ StoresTerminal(r, u, e)
          PROVE  Latest'.messages[t] = Latest.messages[t]
      BY <2>2 DEF StoresCheckpoint, StoresTerminal, Quiet, QuietIn
    <2>3. ASSUME NEW e \in Event, StoresFrame(r, u, e)
          PROVE  Latest'.messages[t] = Latest.messages[t]
      <3>1. e = log'[Len(log) + 1].ev /\ e.turn = u /\ Effect(Latest, e, Latest')
        BY <2>3 DEF StoresFrame
      <3>2. u # t \/ e.kind # "message.text_appended" BY <1>2, <2>3, <3>1 DEF AddsText, Stores
      <3> QED BY <3>1, <3>2 DEF Effect
    <2> QED BY <1>2, <2>1, <2>2, <2>3 DEF Stores
  <1>3. ASSUME NEW r \in Runtimes, NEW u \in Turns, Stores(r, u), AddsText(r, t, log'[Len(log) + 1].ev)
        PROVE  \E e \in Event : AddsText(r, t, e)
    <2>1. /\ Len(log') = Len(log) + 1 /\ Len(log) \in Nat BY <1>3, Numbers DEF AddsText, StoresFrame
    <2>2. log' \in Seq(Entry) BY DEF Kept, IInv, DataOK, LogOK
    <2>3. Len(log) + 1 \in 1..Len(log') BY <2>1
    <2>4. log'[Len(log) + 1] \in Entry BY <2>2, <2>3
    <2>5. log'[Len(log) + 1].ev \in Event BY <2>4 DEF Entry
    <2> QED BY <1>3, <2>5
  <1> QED BY <1>1, <1>2, <1>3, StepStores DEF Storing

\* The text of a new frame is an event of the log.
LEMMA NewTextEvent ==
    ASSUME NEW r, NEW t, NEW e, AddsText(r, t, e)
    PROVE  /\ Len(log') = Len(log) + 1 /\ log'[Len(log) + 1].ev = e
           /\ e.turn = t /\ e.kind = "message.text_appended"
  BY DEF AddsText, StoresFrame

LEMMA SnapshotKept ==
    ASSUME IInv, Kept, NEW r \in Runtimes
    PROVE  /\ rev'[r] = rev[r] => Snapshot(r)' = Snapshot(r)
           /\ rev'[r] = Len(log') => Snapshot(r)' = Latest'
           /\ rev'[r] = Len(log) => Snapshot(r)' = Latest
  <1>0. /\ Len(log) \in Nat /\ Len(log') \in Nat /\ Len(log) <= Len(log')
        /\ \A j \in 1..Len(log) : log'[j] = log[j]
        /\ rev[r] \in Nat /\ rev[r] <= Len(log)
    BY Numbers, NextNumbers DEF Kept, LogGrowth
  <1>1. log \in Seq(Entry) /\ log' \in Seq(Entry) BY DEF Kept, IInv, DataOK, LogOK
  <1>2. rev'[r] = rev[r] => Snapshot(r)' = Snapshot(r)
    <2>1. CASE rev[r] = 0 BY <2>1 DEF Snapshot
    <2>2. CASE rev[r] # 0
      <3>1. rev[r] \in 1..Len(log) BY <1>0, <2>2
      <3> QED BY <1>0, <2>2, <3>1 DEF Snapshot
    <2> QED BY <2>1, <2>2
  <1>3. (log' = <<>> <=> Len(log') = 0) /\ (log = <<>> <=> Len(log) = 0) BY <1>1
  <1>4. rev'[r] = Len(log') => Snapshot(r)' = Latest' BY <1>3 DEF Snapshot, Latest
  <1>5. rev'[r] = Len(log) => Snapshot(r)' = Latest
    <2>1. CASE Len(log) = 0 BY <1>3, <2>1 DEF Snapshot, Latest
    <2>2. CASE Len(log) # 0
      <3>1. Len(log) \in 1..Len(log) BY <1>0, <2>2
      <3> QED BY <1>0, <1>3, <2>2, <3>1 DEF Snapshot, Latest
    <2> QED BY <2>1, <2>2
  <1> QED BY <1>2, <1>4, <1>5

LEMMA StepSnapshotMessages ==
    ASSUME IInv, Kept, PInv, Seen, SnapshotMessages
    PROVE  SnapshotMessages'
  <1> SUFFICES ASSUME NEW r \in Runtimes, NEW t \in Turns, ReadText(r, t)'
               PROVE  Snapshot(r)'.messages[t] = Latest'.messages[t]
    BY DEF SnapshotMessages
  <1>0. /\ Len(log) \in Nat /\ Len(log') \in Nat /\ Len(log) <= Len(log')
        /\ \A j \in 1..Len(log) : log'[j] = log[j]
        /\ rev[r] \in Nat /\ rev[r] <= Len(log)
    BY Numbers, NextNumbers DEF Kept, LogGrowth
  <1>1. ReadStep(r) BY DEF Seen, Reading
  <1>2. rev'[r] = rev[r] \/ rev'[r] = Len(log') \/ rev'[r] = Len(log)
    BY <1>1 DEF ReadStep, Reads
  <1>3. CASE rev'[r] = Len(log') BY <1>3, SnapshotKept
  <1>4. CASE rev'[r] \in {rev[r], Len(log)}
    <2>1. \A i \in (rev'[r] + 1)..Len(log') :
            log'[i].ev.turn = t => log'[i].ev.kind # "message.text_appended"
      BY DEF ReadText
    <2>2. Latest'.messages[t] = Latest.messages[t]
      <3> SUFFICES ASSUME NEW q \in Runtimes, NEW e \in Event, AddsText(q, t, e) PROVE FALSE
        BY MessagesStep
      <3>1. /\ Len(log') = Len(log) + 1 /\ log'[Len(log) + 1].ev = e
            /\ e.turn = t /\ e.kind = "message.text_appended"
        BY NewTextEvent
      <3>2. Len(log) + 1 \in (rev'[r] + 1)..Len(log') BY <1>0, <1>4, <3>1
      <3> QED BY <2>1, <3>1, <3>2
    <2>3. CASE rev'[r] = Len(log) BY <2>2, <2>3, SnapshotKept
    <2>4. CASE rev'[r] = rev[r]
      <3>1. ReadText(r, t)
        <4> SUFFICES ASSUME NEW i \in (rev[r] + 1)..Len(log), log[i].ev.turn = t
                     PROVE  log[i].ev.kind # "message.text_appended"
          BY DEF ReadText
        <4>1. i \in (rev'[r] + 1)..Len(log') /\ log'[i] = log[i] BY <1>0, <2>4
        <4> QED BY <2>1, <4>1
      <3>2. Snapshot(r)' = Snapshot(r) BY <2>4, SnapshotKept
      <3> QED BY <2>2, <3>1, <3>2 DEF SnapshotMessages
    <2> QED BY <1>4, <2>3, <2>4
  <1> QED BY <1>2, <1>3, <1>4

\* A frame that is stored belongs to the one message of its turn.
LEMMA NewMessage ==
    ASSUME IInv, PInv, MInv, NEW r \in Runtimes, NEW t \in Turns, NEW e \in Event, AddsText(r, t, e)
    PROVE  /\ Latest'.messages[t] = Latest.messages[t] \cup {e.message} /\ e.message # None
           /\ OwnReadings /\ Latest.messages[t] # {} => e.message \in Latest.messages[t]
  <1> DEFINE d == drv[r][t]
  <1>1. /\ rev[r] = Len(log) /\ Effect(Latest, e, Latest') /\ e.turn = t
        /\ e.kind = "message.text_appended" /\ d.pc = "frame"
        /\ ~KnownFrame(r, t, FrameNo(r, t))
        /\ e.message = IF d.message = None THEN <<r, e.seq>> ELSE d.message
    BY DEF AddsText, StoresFrame
  <1>2. Latest'.messages[t] = Latest.messages[t] \cup {e.message} BY <1>1 DEF Effect
  <1>3. e.message # None
    <2>1. <<r, e.seq>> \in MessageIds BY DEF Event, MessageIds
    <2>2. <<r, e.seq>> # None BY <2>1, NoneFresh
    <2> QED BY <1>1, <2>2
  <1>4. Snapshot(r) = Latest BY <1>1, SnapshotGood DEF IInv
  <1>5. ASSUME OwnReadings, Latest.messages[t] # {} PROVE e.message \in Latest.messages[t]
    <2>1. HasMessage(r, t) BY <1>5 DEF MInv
    <2>2. d.message \in Latest.messages[t] BY <1>1, <1>4, <1>5, <2>1 DEF HasMessage, Streaming
    <2>3. d.message # None BY <2>2 DEF MInv
    <2> QED BY <1>1, <2>2, <2>3
  <1> QED BY <1>2, <1>3, <1>5

LEMMA StepOneMessage ==
    ASSUME IInv, Kept, PInv, Seen, MInv, OwnReadings
    PROVE  OneAssistantMessage'
  <1> SUFFICES ASSUME NEW t \in Turns PROVE ~ManyMessages(Latest', t)
    BY DEF OneAssistantMessage
  <1>0. ~ManyMessages(Latest, t) BY DEF MInv, OneAssistantMessage
  <1>1. CASE Latest'.messages[t] = Latest.messages[t]
    BY <1>0, <1>1 DEF ManyMessages, StreamedMessages
  <1>2. ASSUME NEW r \in Runtimes, NEW e \in Event, AddsText(r, t, e)
        PROVE  ~ManyMessages(Latest', t)
    BY <1>0, <1>2, NewMessage DEF ManyMessages, StreamedMessages
  <1> QED BY <1>1, <1>2, MessagesStep

LEMMA StreamedIn ==
    ASSUME NEW st, NEW t, NEW m, st.messages[t] # {}
    PROVE  StreamedMessage(st, t, m) \in st.messages[t]
  BY DEF StreamedMessage, StreamedMessages

LEMMA ReceivedMessage ==
    ASSUME NEW d \in Driver, NEW p, NEW s, NEW known, NEW kind
    PROVE  Received(d, p, s, known, kind).message = d.message
  BY DEF Received, Interrupt, Driver

\* While an operation streams, its runtime reads nothing else.
LEMMA StreamReads ==
    ASSUME IInv, PInv, Preflights, Seen, OwnReadings, NEW r \in Runtimes, NEW t \in Turns,
           drv[r][t].pc = "stream"
    PROVE  rev'[r] = rev[r]
  <1>1. life[r] = "up" BY DEF PInv, DownIdle
  <1>2. ~Busy(r) BY DEF OwnReadings, Preflights, Busy, Waits
  <1>3. ReadStep(r) BY DEF Seen, Reading
  <1> QED BY <1>1, <1>2, <1>3 DEF ReadStep, Reads

\* An operation that holds a frame catches up: unless it finds that frame in
\* the log, it finds no text at all.
LEMMA FrameReads ==
    ASSUME IInv, Kept, PInv, PInv', Seen, MInv, NEW r \in Runtimes, NEW t \in Turns,
           drv[r][t].pc = "frame", drv'[r][t].pc = "frame", drv'[r][t].pos = drv[r][t].pos,
           ~KnownFrame(r, t, FrameNo(r, t))'
    PROVE  Snapshot(r)'.messages[t] = Snapshot(r).messages[t]
  <1> DEFINE s == FrameNo(r, t)
  <1>0. /\ Len(log) \in Nat /\ Len(log') \in Nat /\ Len(log) <= Len(log')
        /\ \A j \in 1..Len(log) : log'[j] = log[j]
        /\ rev[r] \in Nat /\ rev[r] <= Len(log) /\ drv[r][t].pos \in Nat
    BY Numbers, NextNumbers DEF Kept, LogGrowth
  <1>1. Knows(r, t) /\ life[r] = "up" BY DEF PInv, AllKnow, DownIdle
  <1>2. /\ meta[r] = rev[r] /\ CoveredTo(log, t, s, rev[r])
        /\ s \in Nat /\ s < remote[t].produced /\ Durable(s)
    <2>1. drv[r][t].pos \in 1..remote[t].produced /\ remote[t].produced \in Nat
          /\ Durable(drv[r][t].pos - 1)
      BY <1>1, Numbers DEF Knows, HasFrame
    <2>2. meta[r] = rev[r] BY <1>1 DEF Knows, HasLink, Linked, ObservingPc
    <2>3. CoveredTo(log, t, s, rev[r])
      BY <1>1, <2>2 DEF Knows, HasCovered, InPhase, ObservingPc, Reached, FrameNo
    <2> QED BY <2>1, <2>2, <2>3 DEF FrameNo
  <1>3. s < Len(Script)
    <2>1. remote[t].produced <= Len(Script) /\ Len(Script) \in Nat /\ remote[t].produced \in Nat
      BY ScriptAssumption, Numbers DEF PInv, RemoteBound
    <2> QED BY <1>2, <2>1
  <1>4. ReadStep(r) BY DEF Seen, Reading
  <1>5. CASE rev'[r] = rev[r] BY <1>5, SnapshotKept
  <1>6. CASE rev'[r] = Len(log') /\ meta'[r] = Len(log')
    <2>1. ~InLog(log', t, s, Len(log'))
      <3>1. FrameNo(r, t)' = s BY DEF FrameNo
      <3> QED BY <1>6, <3>1 DEF KnownFrame, InLog
    <2>2. ASSUME NEW i \in (rev[r] + 1)..Len(log'), log'[i].ev.turn = t,
                 log'[i].ev.kind = "message.text_appended"
          PROVE  FALSE
      <3> DEFINE p == log'[i].ev.seq
      <3>0. i \in 1..Len(log') /\ i > rev[r] BY <1>0
      <3>1. FrameOK(i)' BY <3>0 DEF PInv, LogFrames
      <3>2. p # NoFrame /\ CoveredTo(log', t, p, i - 1) BY <2>2, <3>1 DEF FrameOK
      <3>3. p \in Nat
        <4>1. log'[i] \in Entry BY <3>0 DEF Kept, IInv, DataOK, LogOK
        <4>2. p \in Sequence BY <4>1 DEF Entry, Event
        <4> QED BY <3>2, <4>2 DEF Sequence
      <3>4. p # s BY <2>1, <2>2, <3>0 DEF InLog
      <3>5. CASE p < s
        <4>1. p \in 0..(s - 1) /\ p < Len(Script)
          <5>1. Len(Script) \in Nat BY ScriptAssumption
          <5> QED BY <1>2, <1>3, <3>3, <3>5, <5>1
        <4>2. Durable(p)
          <5>1. log'[i].ev.kind \notin TerminalKind BY <2>2, KindFacts
          <5> QED BY <3>1, <3>2, <5>1 DEF FrameOK
        <4>3. InLog(log, t, p, rev[r]) BY <1>2, <4>1, <4>2 DEF CoveredTo
        <4>4. PICK j \in 1..rev[r] : log[j].ev.turn = t /\ log[j].ev.seq = p BY <4>3 DEF InLog
        <4>5. j \in 1..Len(log') /\ log'[j] = log[j] /\ j # i BY <1>0, <3>0
        <4>6. FramesOnce' BY DEF PInv
        <4> QED BY <2>2, <3>0, <3>2, <4>4, <4>5, <4>6 DEF FramesOnce
      <3>6. CASE s < p
        <4>1. s \in 0..(p - 1) BY <1>2, <3>3, <3>6
        <4>2. InLog(log', t, s, i - 1) BY <1>2, <1>3, <3>2, <4>1 DEF CoveredTo
        <4>3. 1..(i - 1) \subseteq 1..Len(log') BY <1>0, <3>0
        <4> QED BY <2>1, <4>2, <4>3 DEF InLog
      <3> HIDE DEF p, s
      <3> QED BY <1>2, <3>3, <3>4, <3>5, <3>6
    <2>3. ReadText(r, t)
      <3> SUFFICES ASSUME NEW i \in (rev[r] + 1)..Len(log), log[i].ev.turn = t,
                          log[i].ev.kind = "message.text_appended"
                   PROVE  FALSE
        BY DEF ReadText
      <3>1. i \in (rev[r] + 1)..Len(log') /\ log'[i] = log[i] BY <1>0
      <3> QED BY <2>2, <3>1
    <2>4. Snapshot(r).messages[t] = Latest.messages[t] BY <2>3 DEF MInv, SnapshotMessages
    <2>5. Latest'.messages[t] = Latest.messages[t]
      <3> SUFFICES ASSUME NEW q \in Runtimes, NEW e \in Event, AddsText(q, t, e) PROVE FALSE
        BY MessagesStep
      <3>1. /\ Len(log') = Len(log) + 1 /\ log'[Len(log) + 1].ev = e
            /\ e.turn = t /\ e.kind = "message.text_appended"
        BY NewTextEvent
      <3>2. Len(log) + 1 \in (rev[r] + 1)..Len(log') BY <1>0, <3>1
      <3> QED BY <2>2, <3>1, <3>2
    <2> QED BY <1>6, <2>4, <2>5, SnapshotKept
  <1> QED BY <1>1, <1>4, <1>5, <1>6 DEF ReadStep, Reads

LEMMA StepHasMessage ==
    ASSUME IInv, Kept, PInv, PInv', Preflights, Seen, MInv, OwnReadings,
           NEW r \in Runtimes, NEW t \in Turns
    PROVE  HasMessage(r, t)'
  <1> SUFFICES ASSUME Streaming(r, t)', Snapshot(r)'.messages[t] # {}
               PROVE  drv'[r][t].message \in Snapshot(r)'.messages[t]
    BY DEF HasMessage
  <1> DEFINE d == drv[r][t]
             x == drv'[r][t]
  <1>0. x.pc \in {"stream", "frame"} BY DEF Streaming
  <1>1. Moves(r, t) BY DEF Seen, Driving
  <1>2. HasMessage(r, t) BY DEF MInv
  <1>3. d \in Driver BY DriverTyped
  <1>4. ASSUME x.message = d.message, d.pc = "stream" PROVE x.message \in Snapshot(r)'.messages[t]
    <2>1. Snapshot(r)' = Snapshot(r) BY <1>4, StreamReads, SnapshotKept
    <2> QED BY <1>2, <1>4, <2>1 DEF HasMessage, Streaming
  <1>5. CASE Remains(d, x)
    <2>1. x.message = d.message /\ x.pc = d.pc /\ x.pos = d.pos BY <1>5 DEF Remains, SameFrame
    <2>2. CASE d.pc = "stream" BY <1>4, <2>1, <2>2
    <2>3. CASE d.pc = "frame"
      <3>1. ~KnownFrame(r, t, FrameNo(r, t))' BY <2>1, <2>3 DEF Streaming
      <3>2. Snapshot(r)'.messages[t] = Snapshot(r).messages[t] BY <2>1, <2>3, <3>1, FrameReads
      <3>3. ~KnownFrame(r, t, FrameNo(r, t))
        <4> SUFFICES ASSUME NEW i \in 1..meta[r], log[i].ev.turn = t, log[i].ev.seq = FrameNo(r, t)
                     PROVE  FALSE
          BY DEF KnownFrame
        <4>1. /\ meta[r] \in Nat /\ meta[r] <= Len(log) /\ Len(log) \in Nat
              /\ \A j \in 1..Len(log) : log'[j] = log[j] /\ meta'[r] \in Nat
          BY Numbers, NextNumbers DEF Kept, LogGrowth
        <4>2. meta[r] <= meta'[r] BY Monotone
        <4>3. i \in 1..meta'[r] /\ log'[i] = log[i] BY <4>1, <4>2
        <4>4. FrameNo(r, t)' = FrameNo(r, t) BY <2>1 DEF FrameNo
        <4> QED BY <3>1, <4>3, <4>4 DEF KnownFrame
      <3> QED BY <1>2, <2>1, <2>3, <3>2, <3>3 DEF HasMessage, Streaming
    <2> QED BY <1>0, <2>1, <2>2, <2>3
  <1>6. CASE Observes(r, t, d, x)
    BY <1>6, StreamedIn DEF Observes
  <1>7. CASE Receives(r, t, d, x)
    <2>1. x.message = d.message /\ d.pc = "stream" BY <1>3, <1>7, ReceivedMessage DEF Receives
    <2> QED BY <1>4, <2>1
  <1>8. CASE Projects(r, t, d, x)
    BY <1>0, <1>8, StreamedIn DEF Projects
  <1>9. ~Returns(d, x) /\ ~Begins(r, t, x) /\ ~Resumes(r, t, x) /\ ~Advances(r, t, d, x)
    BY <1>0 DEF Returns, Begins, Resumes, Advances
  <1> HIDE DEF d, x
  <1> QED BY <1>1, <1>5, <1>6, <1>7, <1>8, <1>9 DEF Moves, d, x

LEMMA StepMInv ==
    ASSUME IInv, Kept, PInv, PInv', Preflights, Seen, MInv
    PROVE  MInv'
  <1>1. ASSUME NEW t \in Turns PROVE None \notin Latest'.messages[t]
    <2>1. None \notin Latest.messages[t] BY DEF MInv
    <2>2. CASE Latest'.messages[t] = Latest.messages[t] BY <2>1, <2>2
    <2>3. ASSUME NEW r \in Runtimes, NEW e \in Event, AddsText(r, t, e)
          PROVE  None \notin Latest'.messages[t]
      BY <2>1, <2>3, NewMessage
    <2> QED BY <2>2, <2>3, MessagesStep
  <1>2. SnapshotMessages' BY StepSnapshotMessages DEF MInv
  <1>3. ASSUME OwnReadings
        PROVE  OneAssistantMessage' /\ \A r \in Runtimes, t \in Turns : HasMessage(r, t)'
    BY <1>3, StepOneMessage, StepHasMessage
  <1> QED BY <1>1, <1>2, <1>3 DEF MInv

LEMMA InitMInv == Init => MInv
  <1> SUFFICES ASSUME Init PROVE MInv OBVIOUS
  <1>1. Len(log) = 0 /\ Latest = InitialState BY DEF Init, Latest
  <1>2. \A t \in Turns : Latest.messages[t] = {} BY <1>1 DEF InitialState
  <1>3. \A r \in Runtimes : Snapshot(r) = InitialState BY DEF Init, Snapshot
  <1>4. OneAssistantMessage BY <1>2 DEF OneAssistantMessage, ManyMessages, StreamedMessages
  <1>5. \A r \in Runtimes, t \in Turns : HasMessage(r, t)
    BY <1>1, <1>2, <1>3 DEF HasMessage
  <1> QED BY <1>1, <1>2, <1>3, <1>4, <1>5 DEF MInv, SnapshotMessages

\* A runtime that has not missed text sees the messages of the log, and the
\* operation of a runtime that reads only for itself has the one message.
THEOREM MessagesHold == Spec => []MInv
  <1>1. Init => MInv BY InitMInv
  <1>2. IInv /\ PInv /\ Preflights /\ MInv /\ [Next]_vars => MInv'
    <2> SUFFICES ASSUME IInv, PInv, Preflights, MInv, [Next]_vars PROVE MInv' OBVIOUS
    <2>1. Kept /\ Seen /\ PInv' BY NextOK, NextSeen, StepPInv
    <2> QED BY <2>1, StepMInv
  <1> QED BY <1>1, <1>2, InvariantHolds, ProjectionHolds, OutcomeHolds, PTL DEF Spec

\* The projection of a turn is exact, whoever projects, resumes, crashes or
\* loses an acknowledgement, as long as each runtime reads the log only for
\* the operation that streams; otherwise a turn can have two messages.
THEOREM ProjectionIsExact == ASSUME OwnReadings PROVE Spec => []ProjectionExact
  <1>1. MInv => OneAssistantMessage BY DEF MInv
  <1>2. FramesOnce /\ CheckpointCovered /\ OneAssistantMessage => ProjectionExact
    BY DEF ProjectionExact
  <1> QED BY <1>1, <1>2, MessagesHold, FramesProjectedOnce, PTL
================================================
