---------------- MODULE ConversationRuntimeProofs ----------------
(***************************************************************************)
(* Theorems about ConversationRuntime for any number of runtimes and turns *)
(* and any script, faults and calls: types, one active turn in the durable *)
(* log, no remote turn that the log does not hold, and an append-only log  *)
(* in which a closed turn stays closed.                                    *)
(*                                                                         *)
(* First come the lemmas about the reducer: what one event may do to a     *)
(* state, for every state and every event that fits it.                    *)
(*                                                                         *)
(* The inductive invariant says three things.  DataOK: every state of the  *)
(* log is good (its open turn is the active one and every turn in it was   *)
(* introduced by turn.started), later states know the turns of earlier     *)
(* ones, with the closed ones still closed, and no runtime is ahead of the *)
(* log.  OpsBegun: whatever a runtime still does for a turn beyond its     *)
(* admission, the log already holds that turn; so an append by compare-    *)
(* and-swap can open no other turn.  Shapes: the other variables have      *)
(* their types.                                                            *)
(***************************************************************************)
EXTENDS ConversationRuntime, TLAPS

------------------------------------------------
\* What one application of the reducer preserves, for every state and event.

\* A state in which the open turn is the active one, and only turn.started
\* introduced turns.
GoodState(st) ==
    /\ \A t \in Turns : IsOpenTurn(st, t) <=> st.active = t
    /\ \A t \in Turns : st.status[t] # "absent" <=> t \in st.begun

\* An event that may follow a state: it starts a turn while none is active,
\* or it is about a turn that was started.
EventFits(st, e) ==
    \/ e.kind = "message.created"
    \/ e.kind = "turn.started" /\ st.active = None
    \/ /\ e.kind \notin {"message.created", "turn.started"} /\ e.turn \in st.begun
       /\ e.kind = "turn.status_changed" => e.status \in OpenStatus

\* The initial projection is a good state.
LEMMA InitialStateGood ==
    ASSUME None \notin Turns
    PROVE  InitialState \in State /\ GoodState(InitialState)
  BY DEF InitialState, State, GoodState, IsOpenTurn, OpenStatus, TerminalStatus, Status

\* The branches of the reducer's switch.
LEMMA ReduceCases ==
    ASSUME NEW st, NEW e \in Event
    PROVE  /\ e.kind = "turn.started" => Reduce(st, e) = ReduceTurnStarted(st, e)
           /\ e.kind = "turn.status_changed" => Reduce(st, e) = ReduceStatusChanged(st, e)
           /\ e.kind \in RetryKind => Reduce(st, e) = AppendTurnRetryRecord(st, e)
           /\ e.kind \in CancelKind => Reduce(st, e) = UpdateTurnCancellation(st, e)
           /\ e.kind \in TerminalKind => Reduce(st, e) = TerminateTurn(st, e)
           /\ e.kind = "message.text_appended" => Reduce(st, e) = AppendMessageText(st, e)
           /\ e.kind = "tool_call.requested" => Reduce(st, e) = RequestToolCall(st, e)
           /\ e.kind = "usage.receipt_linked"
                 => Reduce(st, e) = [st EXCEPT !.receipts = @ \cup {e.turn}]
           /\ e.kind = "message.created" => Reduce(st, e) = st
           /\ e.kind \in {"turn.started", "turn.status_changed", "message.text_appended",
                          "tool_call.requested", "usage.receipt_linked", "message.created"}
                 \cup RetryKind \cup CancelKind \cup TerminalKind
  BY DEF Reduce, Event, Kinds, PlainKind, RetryKind, CancelKind, TerminalKind

LEMMA ClosedByType == \A k : ClosedBy(k) \in TerminalStatus
  BY DEF ClosedBy, TerminalStatus

\* Reducing an event of the event type yields a state of the state type.
LEMMA ReduceType ==
    ASSUME NEW st \in State, NEW e \in Event
    PROVE  Reduce(st, e) \in State
  <1>0. e.turn \in Turns /\ e.status \in Status /\ e.continues \in Turns \cup {None}
        /\ e.seq \in Sequence /\ e.message \in MessageIds \cup {None}
    BY DEF Event
  <1>1. ReduceTurnStarted(st, e) \in State
    BY <1>0 DEF ReduceTurnStarted, State, Status, OpenStatus
  <1>2. ReduceStatusChanged(st, e) \in State
    BY <1>0 DEF ReduceStatusChanged, State
  <1>3. AppendTurnRetryRecord(st, e) \in State
    BY <1>0 DEF AppendTurnRetryRecord, State, Status, OpenStatus
  <1>4. UpdateTurnCancellation(st, e) \in State
    BY <1>0 DEF UpdateTurnCancellation, State, Status, OpenStatus
  <1>5. TerminateTurn(st, e) \in State
    <2> DEFINE status == [st.status EXCEPT ![e.turn] = ClosedBy(e.kind)]
               cancellation == [st.cancellation EXCEPT ![e.turn] =
                                   IF e.kind = "turn.cancelled" THEN "cancelled" ELSE @]
               calls == IF e.toolCalls THEN st.toolCalls \cup {e.turn} ELSE st.toolCalls
               active == IF st.active = e.turn THEN None ELSE st.active
    <2>1. status \in [Turns -> Status]
      BY <1>0, ClosedByType DEF State, Status
    <2>2. cancellation \in [Turns -> {"none", "requested", "unsupported", "cancelled"}]
      BY <1>0 DEF State
    <2>3. calls \in SUBSET Turns /\ active \in Turns \cup {None}
      BY <1>0 DEF State
    <2>4. TerminateTurn(st, e) = IF IsTerminalTurn(st, e.turn) THEN st
            ELSE [st EXCEPT !.status = status, !.cancellation = cancellation,
                            !.toolCalls = calls, !.active = active]
      BY DEF TerminateTurn, State
    <2> HIDE DEF status, cancellation, calls, active
    <2>5. [st EXCEPT !.status = status, !.cancellation = cancellation,
                     !.toolCalls = calls, !.active = active] \in State
      BY <2>1, <2>2, <2>3 DEF State
    <2> QED BY <2>4, <2>5
  <1>6. AppendMessageText(st, e) \in State
    <2>1. Append(st.text[e.turn], e.seq) \in Seq(Sequence)
      BY <1>0 DEF State
    <2>2. st.messages[e.turn] \cup {e.message} \in SUBSET (MessageIds \cup {None})
      BY <1>0 DEF State
    <2> QED BY <1>0, <2>1, <2>2 DEF AppendMessageText, State
  <1>7. RequestToolCall(st, e) \in State
    BY <1>0 DEF RequestToolCall, State
  <1>8. [st EXCEPT !.receipts = @ \cup {e.turn}] \in State
    BY <1>0 DEF State
  <1> QED
    BY <1>1, <1>2, <1>3, <1>4, <1>5, <1>6, <1>7, <1>8, ReduceCases

\* A fitting event keeps a good state good.
LEMMA ReduceGood ==
    ASSUME NEW st \in State, NEW e \in Event, None \notin Turns,
           GoodState(st), EventFits(st, e)
    PROVE  GoodState(Reduce(st, e))
  <1>0. e.turn \in Turns BY DEF Event
  <1> USE DEF GoodState, IsOpenTurn, IsTerminalTurn, OpenStatus, TerminalStatus, Status, State
  <1>1. CASE e.kind = "turn.started"
    <2>1. st.active = None BY <1>1 DEF EventFits
    <2>2. Reduce(st, e) = ReduceTurnStarted(st, e) BY <1>1, ReduceCases
    <2> QED BY <1>0, <2>1, <2>2 DEF ReduceTurnStarted
  <1>2. CASE e.kind = "message.created"
    BY <1>2, ReduceCases
  <1>3. CASE e.kind \notin {"turn.started", "message.created"}
    <2>0. e.turn \in st.begun /\ (e.kind = "turn.status_changed" => e.status \in OpenStatus)
      BY <1>3 DEF EventFits
    <2>1. CASE e.kind = "turn.status_changed"
      <3>1. Reduce(st, e) = ReduceStatusChanged(st, e) BY <2>1, ReduceCases
      <3>2. CASE IsTerminalTurn(st, e.turn)
        BY <3>1, <3>2 DEF ReduceStatusChanged
      <3>3. CASE ~IsTerminalTurn(st, e.turn)
        <4>1. st.active = e.turn BY <1>0, <2>0, <3>3
        <4>2. Reduce(st, e) = [st EXCEPT !.status[e.turn] = e.status, !.active = e.turn]
          BY <3>1, <3>3 DEF ReduceStatusChanged
        <4>3. /\ Reduce(st, e).active = st.active /\ Reduce(st, e).begun = st.begun
              /\ Reduce(st, e).status[e.turn] = e.status
              /\ \A t \in Turns : t # e.turn => Reduce(st, e).status[t] = st.status[t]
          BY <1>0, <4>1, <4>2
        <4> QED BY <1>0, <2>0, <2>1, <4>1, <4>3
      <3> QED BY <3>2, <3>3
    <2>2. CASE e.kind \in RetryKind
      <3>1. Reduce(st, e) = AppendTurnRetryRecord(st, e) BY <2>2, ReduceCases
      <3> QED BY <1>0, <2>0, <3>1 DEF AppendTurnRetryRecord
    <2>3. CASE e.kind \in CancelKind
      <3>1. Reduce(st, e) = UpdateTurnCancellation(st, e) BY <2>3, ReduceCases
      <3> QED BY <1>0, <2>0, <3>1 DEF UpdateTurnCancellation
    <2>4. CASE e.kind \in TerminalKind
      <3>1. Reduce(st, e) = TerminateTurn(st, e) BY <2>4, ReduceCases
      <3>2. CASE IsTerminalTurn(st, e.turn)
        BY <3>1, <3>2 DEF TerminateTurn
      <3>3. CASE ~IsTerminalTurn(st, e.turn)
        <4>1. st.active = e.turn BY <1>0, <2>0, <3>3
        <4>2. /\ Reduce(st, e).active = None /\ Reduce(st, e).begun = st.begun
              /\ Reduce(st, e).status[e.turn] = ClosedBy(e.kind)
              /\ \A t \in Turns : t # e.turn => Reduce(st, e).status[t] = st.status[t]
          BY <1>0, <3>1, <3>3, <4>1 DEF TerminateTurn
        <4>3. ClosedBy(e.kind) \in {"completed", "cancelled", "failed"}
          BY ClosedByType
        <4> DEFINE n == Reduce(st, e)
        <4>4. ASSUME NEW t \in Turns
              PROVE  /\ n.status[t] \in {"queued", "running"} <=> n.active = t
                     /\ n.status[t] # "absent" <=> t \in n.begun
          <5> HIDE DEF n
          <5>1. CASE t = e.turn BY <1>0, <2>0, <4>1, <4>2, <4>3, <5>1 DEF n
          <5>2. CASE t # e.turn BY <1>0, <4>1, <4>2, <5>2 DEF n
          <5> QED BY <5>1, <5>2
        <4> QED BY <4>4
      <3> QED BY <3>2, <3>3
    <2>5. CASE e.kind = "message.text_appended"
      <3>1. Reduce(st, e) = AppendMessageText(st, e) BY <2>5, ReduceCases
      <3> QED BY <1>0, <3>1 DEF AppendMessageText
    <2>6. CASE e.kind = "tool_call.requested"
      <3>1. Reduce(st, e) = RequestToolCall(st, e) BY <2>6, ReduceCases
      <3> QED BY <1>0, <3>1 DEF RequestToolCall
    <2>7. CASE e.kind = "usage.receipt_linked"
      <3>1. Reduce(st, e) = [st EXCEPT !.receipts = @ \cup {e.turn}] BY <2>7, ReduceCases
      <3> QED BY <1>0, <3>1
    <2> QED BY <1>3, <2>1, <2>2, <2>3, <2>4, <2>5, <2>6, <2>7, ReduceCases
  <1> QED BY <1>1, <1>2, <1>3

\* No event reopens a terminal turn or forgets a turn that was started.
LEMMA ReduceStable ==
    ASSUME NEW st \in State, NEW e \in Event
    PROVE  /\ \A t \in Turns : IsTerminalTurn(st, t) => Reduce(st, e).status[t] = st.status[t]
           /\ st.begun \subseteq Reduce(st, e).begun
  <1>0. e.turn \in Turns BY DEF Event
  <1> USE DEF IsTerminalTurn, TerminalStatus, Status, State
  <1>1. CASE e.kind = "turn.started"
    <2>1. Reduce(st, e) = ReduceTurnStarted(st, e) BY <1>1, ReduceCases
    <2> QED BY <1>0, <2>1 DEF ReduceTurnStarted
  <1>2. CASE e.kind = "turn.status_changed"
    <2>1. Reduce(st, e) = ReduceStatusChanged(st, e) BY <1>2, ReduceCases
    <2> QED BY <1>0, <2>1 DEF ReduceStatusChanged
  <1>3. CASE e.kind \in RetryKind
    <2>1. Reduce(st, e) = AppendTurnRetryRecord(st, e) BY <1>3, ReduceCases
    <2> QED BY <1>0, <2>1 DEF AppendTurnRetryRecord
  <1>4. CASE e.kind \in CancelKind
    <2>1. Reduce(st, e) = UpdateTurnCancellation(st, e) BY <1>4, ReduceCases
    <2> QED BY <1>0, <2>1 DEF UpdateTurnCancellation
  <1>5. CASE e.kind \in TerminalKind
    <2>1. Reduce(st, e) = TerminateTurn(st, e) BY <1>5, ReduceCases
    <2> QED BY <1>0, <2>1 DEF TerminateTurn
  <1>6. CASE e.kind = "message.text_appended"
    <2>1. Reduce(st, e) = AppendMessageText(st, e) BY <1>6, ReduceCases
    <2> QED BY <1>0, <2>1 DEF AppendMessageText
  <1>7. CASE e.kind = "tool_call.requested"
    <2>1. Reduce(st, e) = RequestToolCall(st, e) BY <1>7, ReduceCases
    <2> QED BY <1>0, <2>1 DEF RequestToolCall
  <1>8. CASE e.kind = "usage.receipt_linked"
    <2>1. Reduce(st, e) = [st EXCEPT !.receipts = @ \cup {e.turn}] BY <1>8, ReduceCases
    <2> QED BY <1>0, <2>1
  <1>9. CASE e.kind = "message.created"
    <2>1. Reduce(st, e) = st BY <1>9, ReduceCases
    <2> QED BY <2>1
  <1> QED BY <1>1, <1>2, <1>3, <1>4, <1>5, <1>6, <1>7, <1>8, <1>9, ReduceCases

------------------------------------------------
\* The inductive invariant.

Entry  == [ev : Event, st : State]
Drafts == {d \in Seq(Event) : Len(d) \in 1..2}

Bounds    == \A r \in Runtimes : rev[r] <= Len(log) /\ meta[r] <= Len(log)
GoodLog   == \A i \in 1..Len(log) : GoodState(log[i].st)
BegunKept == \A i \in 1..Len(log) : log[i].st.begun \subseteq Latest.begun
ClosedKept == \A i \in 1..Len(log), t \in Turns :
                  IsTerminalTurn(log[i].st, t) => IsTerminalTurn(Latest, t)

LogOK  == log \in Seq(Entry) /\ GoodLog /\ BegunKept /\ ClosedKept
DataOK ==
    /\ LogOK
    /\ rev \in [Runtimes -> Nat] /\ meta \in [Runtimes -> Nat] /\ Bounds
    /\ proto \in [Runtimes -> [Turns -> Protocol]]
    /\ can \in [Runtimes -> [Turns -> CancelPc]]
    /\ lock \in [Runtimes -> Boundary]
    /\ spent \in [faults : Nat, resumes : Nat]

Shapes ==
    /\ drv \in [Runtimes -> [Turns -> Driver]]
    /\ stopped \in [Runtimes -> SUBSET Turns] /\ asked \in [Runtimes -> SUBSET Turns]
    /\ life \in [Runtimes -> {"up", "down", "replayed"}]
    /\ remote \in [Turns -> Remote]

OpsBegun ==
    \A r \in Runtimes, t \in Turns :
        (Running(r, t) \/ can[r][t] # "off") => t \in Latest.begun

IInv == DataOK /\ Shapes /\ OpsBegun /\ DurableBeforeRemote

------------------------------------------------
\* The log.

LEMMA NoneFresh == None \notin Turns /\ None \notin MessageIds
  BY ConstantsAssumption

\* The latest state is a good one.
LEMMA LatestGood ==
    ASSUME LogOK
    PROVE  Latest \in State /\ GoodState(Latest)
  <1>1. CASE log = <<>>
    BY <1>1, InitialStateGood, NoneFresh DEF Latest
  <1>2. CASE log # <<>>
    <2>1. Len(log) \in 1..Len(log) BY <1>2 DEF LogOK
    <2>2. log[Len(log)] \in Entry BY <2>1 DEF LogOK
    <2>3. log[Len(log)].st \in State BY <2>2 DEF Entry
    <2> QED BY <1>2, <2>1, <2>3 DEF Latest, LogOK, GoodLog
  <1> QED BY <1>1, <1>2

\* A runtime's snapshot is a good state, and the log holds its turns.
LEMMA SnapshotGood ==
    ASSUME DataOK, NEW r \in Runtimes
    PROVE  /\ Snapshot(r) \in State /\ GoodState(Snapshot(r))
           /\ Snapshot(r).begun \subseteq Latest.begun
           /\ rev[r] = Len(log) => Snapshot(r) = Latest
  <1>1. CASE rev[r] = 0
    <2>1. Snapshot(r) = InitialState BY <1>1 DEF Snapshot
    <2>2. InitialState.begun = {} BY DEF InitialState
    <2>3. rev[r] = Len(log) => log = <<>> BY <1>1 DEF DataOK, LogOK
    <2> QED BY <2>1, <2>2, <2>3, InitialStateGood, NoneFresh DEF Latest
  <1>2. CASE rev[r] # 0
    <2>1. rev[r] \in 1..Len(log) BY <1>2 DEF DataOK, LogOK, Bounds
    <2>2. Snapshot(r) = log[rev[r]].st BY <1>2 DEF Snapshot
    <2>3. rev[r] = Len(log) => Latest = log[rev[r]].st BY <2>1 DEF Latest
    <2>4. log[rev[r]].st \in State /\ GoodState(log[rev[r]].st)
      <3>1. log[rev[r]] \in Entry BY <2>1 DEF DataOK, LogOK
      <3>2. log[rev[r]].st \in State BY <3>1 DEF Entry
      <3> QED BY <2>1, <3>2 DEF DataOK, LogOK, GoodLog
    <2>5. log[rev[r]].st.begun \subseteq Latest.begun
      BY <2>1 DEF DataOK, LogOK, BegunKept
    <2> QED BY <2>2, <2>3, <2>4, <2>5
  <1> QED BY <1>1, <1>2

\* A turn that a runtime's snapshot shows as closed is closed.
LEMMA SnapshotClosed ==
    ASSUME DataOK, NEW r \in Runtimes, NEW t \in Turns, IsTerminalTurn(Snapshot(r), t)
    PROVE  IsTerminalTurn(Latest, t)
  <1>1. rev[r] # 0
    BY DEF Snapshot, InitialState, IsTerminalTurn, TerminalStatus
  <1>2. rev[r] \in 1..Len(log) BY <1>1 DEF DataOK, LogOK, Bounds
  <1>3. Snapshot(r) = log[rev[r]].st BY <1>1 DEF Snapshot
  <1> QED BY <1>2, <1>3 DEF DataOK, LogOK, ClosedKept

\* Each draft fits the state before it.
DraftsFit(drafts) ==
    /\ EventFits(Latest, drafts[1])
    /\ Len(drafts) = 2 => EventFits(Reduce(Latest, drafts[1]), drafts[2])

\* What an append to the log keeps.
LogGrowth ==
    /\ Len(log) <= Len(log')
    /\ \A i \in 1..Len(log) : log'[i] = log[i]
    /\ \A t \in Turns : IsTerminalTurn(Latest, t) => Latest'.status[t] = Latest.status[t]
    /\ Latest.begun \subseteq Latest'.begun

LEMMA AppendOne ==
    ASSUME LogOK, NEW e \in Event, EventFits(Latest, e),
           log' = Append(log, [ev |-> e, st |-> Reduce(Latest, e)])
    PROVE  LogOK' /\ LogGrowth /\ Latest' = Reduce(Latest, e) /\ Len(log') = Len(log) + 1
  <1> DEFINE n == [ev |-> e, st |-> Reduce(Latest, e)]
  <1>0. Latest \in State /\ GoodState(Latest) BY LatestGood
  <1>1. n \in Entry BY <1>0, ReduceType DEF Entry
  <1>2. GoodState(n.st) BY <1>0, ReduceGood, NoneFresh
  <1>3. /\ \A t \in Turns : IsTerminalTurn(Latest, t) => n.st.status[t] = Latest.status[t]
        /\ Latest.begun \subseteq n.st.begun
    BY <1>0, ReduceStable
  <1>4. n.st = Reduce(Latest, e) OBVIOUS
  <1> HIDE DEF n
  <1>5. /\ log' \in Seq(Entry) /\ Len(log') = Len(log) + 1
        /\ \A i \in 1..Len(log) : log'[i] = log[i]
        /\ log'[Len(log) + 1] = n
    BY <1>1 DEF LogOK, n
  <1>6. Latest' = n.st
    BY <1>5 DEF Latest, LogOK
  <1>7. GoodLog' BY <1>2, <1>5 DEF GoodLog, LogOK
  <1>8. BegunKept' BY <1>3, <1>5, <1>6 DEF BegunKept, LogOK
  <1>9. ClosedKept'
    BY <1>3, <1>5, <1>6 DEF ClosedKept, LogOK, IsTerminalTurn
  <1> QED BY <1>3, <1>4, <1>5, <1>6, <1>7, <1>8, <1>9 DEF LogOK, LogGrowth

LEMMA AppendTwo ==
    ASSUME LogOK, NEW e1 \in Event, NEW e2 \in Event,
           EventFits(Latest, e1), EventFits(Reduce(Latest, e1), e2),
           log' = Append(Append(log, [ev |-> e1, st |-> Reduce(Latest, e1)]),
                         [ev |-> e2, st |-> Reduce(Reduce(Latest, e1), e2)])
    PROVE  /\ LogOK' /\ LogGrowth /\ Len(log') = Len(log) + 2
           /\ Latest' = Reduce(Reduce(Latest, e1), e2)
  <1> DEFINE m == [ev |-> e1, st |-> Reduce(Latest, e1)]
             n == [ev |-> e2, st |-> Reduce(Reduce(Latest, e1), e2)]
  <1>0. Latest \in State /\ GoodState(Latest) BY LatestGood
  <1>1. m \in Entry /\ m.st \in State BY <1>0, ReduceType DEF Entry
  <1>2. GoodState(m.st) BY <1>0, ReduceGood, NoneFresh
  <1>3. /\ \A t \in Turns : IsTerminalTurn(Latest, t) => m.st.status[t] = Latest.status[t]
        /\ Latest.begun \subseteq m.st.begun
    BY <1>0, ReduceStable
  <1>4. n \in Entry BY <1>1, ReduceType DEF Entry
  <1>5. GoodState(n.st) BY <1>1, <1>2, ReduceGood, NoneFresh
  <1>6. /\ \A t \in Turns : IsTerminalTurn(m.st, t) => n.st.status[t] = m.st.status[t]
        /\ m.st.begun \subseteq n.st.begun
    BY <1>1, ReduceStable
  <1>7. /\ \A t \in Turns : IsTerminalTurn(Latest, t) => n.st.status[t] = Latest.status[t]
        /\ Latest.begun \subseteq n.st.begun
    <2> HIDE DEF m, n
    <2> QED BY <1>3, <1>6 DEF IsTerminalTurn
  <1>8. n.st = Reduce(Reduce(Latest, e1), e2) OBVIOUS
  <1> HIDE DEF m, n
  <1>9. /\ log' \in Seq(Entry) /\ Len(log') = Len(log) + 2
        /\ \A i \in 1..Len(log) : log'[i] = log[i]
        /\ log'[Len(log) + 1] = m /\ log'[Len(log) + 2] = n
    <2>1. log' = Append(Append(log, m), n) BY DEF m, n
    <2> QED BY <1>1, <1>4, <2>1 DEF LogOK
  <1>10. Latest' = n.st
    BY <1>9 DEF Latest, LogOK
  <1>11. GoodLog' BY <1>2, <1>5, <1>9 DEF GoodLog, LogOK
  <1>12. BegunKept' BY <1>6, <1>7, <1>9, <1>10 DEF BegunKept, LogOK
  <1>13. ClosedKept'
    BY <1>6, <1>7, <1>9, <1>10 DEF ClosedKept, LogOK, IsTerminalTurn
  <1> QED BY <1>7, <1>8, <1>9, <1>10, <1>11, <1>12, <1>13 DEF LogOK, LogGrowth

\* The store's append of drafts that fit.
LEMMA ExtendedOK ==
    ASSUME LogOK, NEW drafts \in Drafts, DraftsFit(drafts), log' = Extended(drafts)
    PROVE  LogOK' /\ LogGrowth
  <1>1. CASE Len(drafts) = 1
    <2>1. drafts[1] \in Event BY <1>1 DEF Drafts
    <2>2. log' = Append(log, [ev |-> drafts[1], st |-> Reduce(Latest, drafts[1])])
      BY <1>1 DEF Extended
    <2> QED BY <2>1, <2>2, AppendOne DEF DraftsFit
  <1>2. CASE Len(drafts) = 2
    <2>1. drafts[1] \in Event /\ drafts[2] \in Event BY <1>2 DEF Drafts
    <2>2. log' = Append(Append(log, [ev |-> drafts[1], st |-> Reduce(Latest, drafts[1])]),
                        [ev |-> drafts[2],
                         st |-> Reduce(Reduce(Latest, drafts[1]), drafts[2])])
      BY <1>2 DEF Extended
    <2> QED BY <1>2, <2>1, <2>2, AppendTwo DEF DraftsFit
  <1> QED BY <1>1, <1>2 DEF Drafts

\* Drafts about a turn that the log holds fit.
TurnDrafts(t, drafts) ==
    \A i \in 1..Len(drafts) :
        /\ drafts[i].turn = t
        /\ drafts[i].kind \notin {"message.created", "turn.started"}
        /\ drafts[i].kind = "turn.status_changed" => drafts[i].status \in OpenStatus

LEMMA TurnDraftsFit ==
    ASSUME LogOK, NEW t \in Turns, NEW drafts \in Drafts, TurnDrafts(t, drafts),
           t \in Latest.begun
    PROVE  DraftsFit(drafts)
  <1>1. drafts[1] \in Event /\ EventFits(Latest, drafts[1])
    BY DEF Drafts, TurnDrafts, EventFits
  <1>2. t \in Reduce(Latest, drafts[1]).begun
    BY <1>1, LatestGood, ReduceStable
  <1>3. Len(drafts) = 2 => EventFits(Reduce(Latest, drafts[1]), drafts[2])
    BY <1>2 DEF Drafts, TurnDrafts, EventFits
  <1> QED BY <1>1, <1>3 DEF DraftsFit

------------------------------------------------
\* What a runtime remembers, and its waiting cancellations.

LEMMA HighestIn ==
    ASSUME NEW S, NEW o
    PROVE  Highest(S, o) \in S \cup {o}
  BY DEF Highest

LEMMA RememberType ==
    ASSUME NEW p \in Protocol, NEW t, NEW entries \in Seq(Entry),
           NEW from \in Nat, NEW to \in Nat, to <= Len(entries)
    PROVE  Remember(p, t, entries, from, to) \in Protocol
  <1> DEFINE new   == {i \in (from + 1)..to : entries[i].ev.turn = t}
             safe  == {entries[i].ev.seq : i \in {j \in new : entries[j].ev.resumeSafe}}
             marks == {i \in new : entries[i].ev.checkpoint > 0}
  <1>1. \A i \in new : i \in 1..Len(entries) /\ i # 0
    OBVIOUS
  <1>2. \A i \in new : entries[i].ev \in Event
    <2> SUFFICES ASSUME NEW i \in 1..Len(entries) PROVE entries[i].ev \in Event
      BY <1>1
    <2>1. entries[i] \in Entry OBVIOUS
    <2> QED BY <2>1 DEF Entry
  <1>3. \A i \in new : entries[i].ev.seq \in Sequence /\ entries[i].ev.checkpoint \in Nat
    BY <1>2 DEF Event
  <1>4. p.safe \in Sequence /\ p.checkpoint \in Nat /\ p.transportId \in BOOLEAN
        /\ p.request \in BOOLEAN
    BY DEF Protocol
  <1>5. safe \subseteq Sequence /\ marks \subseteq new
    BY <1>3
  <1> HIDE DEF new, safe, marks
  <1>6. Highest({p.safe} \cup safe, p.safe) \in Sequence
    BY <1>4, <1>5, HighestIn
  <1>7. Highest(marks, 0) \in marks \/ Highest(marks, 0) = 0
    BY HighestIn
  <1>8. (IF Highest(marks, 0) = 0 THEN p.checkpoint
         ELSE entries[Highest(marks, 0)].ev.checkpoint) \in Nat
    BY <1>3, <1>4, <1>5, <1>7
  <1> DEFINE id  == p.transportId \/ \E i \in new : entries[i].ev.transportId
             req == p.request \/ \E i \in new : entries[i].ev.seq # NoFrame
  <1>9. id \in BOOLEAN /\ req \in BOOLEAN OBVIOUS
  <1>10. Remember(p, t, entries, from, to) =
           [transportId |-> id, request |-> req, safe |-> Highest({p.safe} \cup safe, p.safe),
            checkpoint |-> IF Highest(marks, 0) = 0 THEN p.checkpoint
                           ELSE entries[Highest(marks, 0)].ev.checkpoint]
    BY DEF Remember, new, safe, marks
  <1> HIDE DEF id, req
  <1> QED BY <1>6, <1>8, <1>9, <1>10 DEF Protocol

\* Applying events keeps the protocol states well formed.
LEMMA RememberAppliedType ==
    ASSUME DataOK, NEW r \in Runtimes, log' \in Seq(Entry),
           rev' \in [Runtimes -> Nat], rev'[r] <= Len(log'), RememberApplied(r)
    PROVE  proto' \in [Runtimes -> [Turns -> Protocol]]
  <1>1. \A t \in Turns : Remembered(r, t) \in Protocol
    <2> SUFFICES ASSUME NEW t \in Turns PROVE Remembered(r, t) \in Protocol OBVIOUS
    <2>1. proto[r][t] \in Protocol /\ rev[r] \in Nat /\ rev'[r] \in Nat BY DEF DataOK
    <2> QED BY <2>1, RememberType DEF Remembered
  <1> QED BY <1>1 DEF RememberApplied, DataOK

\* Waking a cancellation neither starts one nor ends one.
LEMMA WakeType ==
    ASSUME DataOK, NEW r \in Runtimes, Wake(r)
    PROVE  /\ can' \in [Runtimes -> [Turns -> CancelPc]]
           /\ \A q \in Runtimes, t \in Turns : can'[q][t] # "off" => can[q][t] # "off"
  <1>1. \A st, t : Inspect(r, t, st) \in {"send", "over", "wait"} BY DEF Inspect
  <1>2. can \in [Runtimes -> [Turns -> CancelPc]] BY DEF DataOK
  <1>3. \A st : Notified(r, st) \in [Turns -> CancelPc]
    BY <1>1, <1>2 DEF Notified, CancelPc
  <1>4. \A st : \A t \in Turns : Notified(r, st)[t] # "off" => can[r][t] # "off"
    BY <1>1, <1>2 DEF Notified
  <1> QED BY <1>2, <1>3, <1>4 DEF Wake

------------------------------------------------
\* persistGenerated.

\* The drafts of a step fit whenever its runtime is up to date.
Fits(r, drafts) ==
    drafts = <<>> \/ (drafts \in Drafts /\ (rev[r] = Len(log) => DraftsFit(drafts)))

\* The store's part of DataOK after a step, and what the step kept.
StoreOK ==
    /\ LogOK' /\ LogGrowth
    /\ rev' \in [Runtimes -> Nat] /\ meta' \in [Runtimes -> Nat] /\ Bounds'
    /\ lock' \in [Runtimes -> Boundary]

LEMMA LogStays == ASSUME LogOK, log' = log PROVE LogOK' /\ LogGrowth /\ Latest' = Latest
  <1>1. Latest' = Latest BY DEF Latest
  <1> QED BY <1>1 DEF LogOK, LogGrowth, GoodLog, BegunKept, ClosedKept

LEMMA ApplyBounds ==
    ASSUME DataOK, LogOK', LogGrowth, NEW r \in Runtimes, Apply(r, log')
    PROVE  /\ rev' \in [Runtimes -> Nat] /\ meta' \in [Runtimes -> Nat] /\ Bounds'
           /\ rev'[r] = Len(log')
  <1>1. Len(log) \in Nat /\ Len(log') \in Nat /\ Len(log) <= Len(log')
    BY DEF DataOK, LogOK, LogGrowth
  <1>2. rev \in [Runtimes -> Nat] /\ meta \in [Runtimes -> Nat] /\ Bounds BY DEF DataOK
  <1> QED BY <1>1, <1>2 DEF Apply, Bounds

LEMMA StayBounds ==
    ASSUME DataOK, LogOK', LogGrowth, Stay
    PROVE  rev' \in [Runtimes -> Nat] /\ meta' \in [Runtimes -> Nat] /\ Bounds'
  <1>1. Len(log) \in Nat /\ Len(log') \in Nat /\ Len(log) <= Len(log')
    BY DEF DataOK, LogOK, LogGrowth
  <1> QED BY <1>1 DEF Stay, Bounds, DataOK

LEMMA ReleaseType ==
    ASSUME DataOK, NEW r \in Runtimes, Release(r)
    PROVE  lock' \in [Runtimes -> Boundary]
  BY DEF Release, FreeBoundary, Boundary, DataOK

LEMMA StoredOK ==
    ASSUME DataOK, NEW r \in Runtimes, NEW op, NEW t, NEW drafts, Fits(r, drafts),
           Stored(r, op, t, drafts)
    PROVE  StoreOK /\ rev'[r] <= Len(log')
  <1>1. lock' \in [Runtimes -> Boundary] BY ReleaseType DEF Stored
  <1>2. CASE drafts = <<>> /\ log' = log /\ Stay
    BY <1>1, <1>2, LogStays, StayBounds DEF StoreOK, DataOK, Bounds
  <1>3. CASE drafts # <<>> /\ rev[r] = Len(log) /\ log' = Extended(drafts) /\ Apply(r, log')
    <2>1. LogOK' /\ LogGrowth
      BY <1>3, ExtendedOK DEF Fits, DataOK
    <2> QED BY <1>1, <1>3, <2>1, ApplyBounds DEF StoreOK, LogOK
  <1> QED BY <1>2, <1>3 DEF Stored

LEMMA RebasedOK ==
    ASSUME DataOK, NEW r \in Runtimes, NEW op \in {"turn", "cancel"}, NEW t \in Turns,
           NEW drafts, Rebased(r, op, t, drafts)
    PROVE  StoreOK /\ rev'[r] = Len(log') /\ spent' = spent
  <1>1. lock' \in [Runtimes -> Boundary]
    BY DEF Rebased, Boundary, DataOK
  <1>2. log' = log /\ Apply(r, log') BY DEF Rebased
  <1>3. LogOK' /\ LogGrowth BY <1>2, LogStays DEF DataOK
  <1> QED BY <1>1, <1>2, <1>3, ApplyBounds DEF StoreOK, Rebased

LEMMA SpendType ==
    ASSUME DataOK, NEW f, Spend(f)
    PROVE  spent' \in [faults : Nat, resumes : Nat]
  BY DEF Spend, DataOK

LEMMA ThrownOK ==
    ASSUME DataOK, NEW r \in Runtimes, NEW op, NEW t, NEW drafts, Fits(r, drafts),
           Thrown(r, op, t, drafts)
    PROVE  StoreOK /\ spent' \in [faults : Nat, resumes : Nat]
  <1>1. lock' \in [Runtimes -> Boundary] BY ReleaseType DEF Thrown
  <1>2. spent' \in [faults : Nat, resumes : Nat]
    <2>1. CASE UNCHANGED spent BY <2>1 DEF DataOK
    <2>2. CASE Spend("unavailable") \/ Spend("lostAck") BY <2>2, SpendType
    <2> QED BY <2>1, <2>2 DEF Thrown
  <1>3. LogOK' /\ LogGrowth
    <2>1. CASE log' = log BY <2>1, LogStays DEF DataOK
    <2>2. CASE rev[r] = Len(log) /\ log' = Extended(drafts)
      BY <2>2, ExtendedOK DEF Thrown, Fits, DataOK
    <2> QED BY <2>1, <2>2 DEF Thrown
  <1> QED BY <1>1, <1>2, <1>3, StayBounds DEF Thrown, StoreOK

------------------------------------------------
\* A step keeps the invariant when it keeps these three.

Admission == {"off", "admit", "admitting"}
DriversOK ==
    /\ drv' \in [Runtimes -> [Turns -> Driver]]
    /\ \A q \in Runtimes, u \in Turns :
         drv'[q][u].pc \notin Admission => Running(q, u) \/ u \in Latest'.begun
CancelsOK ==
    \A q \in Runtimes, u \in Turns :
        can'[q][u] # "off" => can[q][u] # "off" \/ u \in Latest'.begun
RestOK ==
    /\ stopped' \in [Runtimes -> SUBSET Turns] /\ asked' \in [Runtimes -> SUBSET Turns]
    /\ life' \in [Runtimes -> {"up", "down", "replayed"}]
    /\ remote' \in [Turns -> Remote]
    /\ \A u \in Turns : remote'[u].started => remote[u].started \/ u \in Latest'.begun

Kept == IInv' /\ LogGrowth

LEMMA Combine ==
    ASSUME IInv, DataOK', LogGrowth, DriversOK, CancelsOK, RestOK
    PROVE  Kept
  <1>1. Shapes' BY DEF DriversOK, RestOK, Shapes
  <1>2. OpsBegun' BY DEF IInv, OpsBegun, DriversOK, CancelsOK, LogGrowth, Running, Admission
  <1>3. DurableBeforeRemote' BY DEF IInv, DurableBeforeRemote, RestOK, LogGrowth
  <1> QED BY <1>1, <1>2, <1>3 DEF IInv, Kept

LEMMA DriveOK ==
    ASSUME IInv, NEW r \in Runtimes, NEW t \in Turns, NEW d \in Driver, Drive(r, t, d),
           d.pc \in Admission \/ t \in Latest'.begun
    PROVE  DriversOK
  <1>1. drv \in [Runtimes -> [Turns -> Driver]] BY DEF IInv, Shapes
  <1>2. drv' = [drv EXCEPT ![r][t] = d] BY DEF Drive
  <1>3. drv' \in [Runtimes -> [Turns -> Driver]] BY <1>1, <1>2
  <1>4. \A q \in Runtimes, u \in Turns :
           drv'[q][u] = IF q = r /\ u = t THEN d ELSE drv[q][u]
    BY <1>1, <1>2
  <1> QED BY <1>3, <1>4 DEF DriversOK, Running, Admission

LEMMA StillOK == ASSUME IInv, UNCHANGED drv PROVE DriversOK
  BY DEF IInv, Shapes, DriversOK, Running, Admission

LEMMA RestUnchanged == ASSUME IInv, UNCHANGED <<stopped, asked, life, remote>> PROVE RestOK
  BY DEF IInv, Shapes, RestOK

\* A driver past its admission has its turn in the log.
LEMMA DriverBegun ==
    ASSUME IInv, NEW r \in Runtimes, NEW t \in Turns, drv[r][t].pc \notin Admission
    PROVE  t \in Latest.begun
  BY DEF IInv, OpsBegun, Running, Admission

------------------------------------------------
\* The values a driver takes.

LEMMA DoneType ==
    ASSUME NEW d \in Driver
    PROVE  /\ Done(d) \in Driver /\ Done(d).pc = "off"
  BY DEF Done, Idle, Driver, Pc

LEMMA IdleType == Idle \in Driver /\ Idle.pc = "off"
  BY DEF Idle, Driver, Pc

LEMMA PcType ==
    ASSUME NEW d \in Driver, NEW pc \in Pc
    PROVE  [d EXCEPT !.pc = pc] \in Driver /\ [d EXCEPT !.pc = pc].pc = pc
  BY DEF Driver

LEMMA AfterFailureType ==
    ASSUME NEW d \in Driver, NEW retryable \in BOOLEAN, NEW phase \in {"start", "observation"}
    PROVE  AfterFailure(d, retryable, phase) \subseteq Driver
  <1> DEFINE f == [d EXCEPT !.phase = phase, !.retryable = retryable]
  <1>1. f \in Driver BY DEF Driver
  <1> HIDE DEF f
  <1>2. \A pc \in Pc : [f EXCEPT !.pc = pc] \in Driver BY <1>1, PcType
  <1>3. [f EXCEPT !.pc = "fail"] \in Driver /\ [f EXCEPT !.pc = "exhausted"] \in Driver
        /\ [f EXCEPT !.pc = "scheduled"] \in Driver
    BY <1>2 DEF Pc
  <1>4. AfterFailure(d, retryable, phase) \subseteq
          {Done(d), [f EXCEPT !.pc = "fail"], [f EXCEPT !.pc = "exhausted"],
           [f EXCEPT !.pc = "scheduled"]}
    BY DEF AfterFailure, f
  <1> QED BY <1>3, <1>4, DoneType

LEMMA AfterObservationType ==
    ASSUME NEW r, NEW t, NEW d \in Driver, NEW retryable \in BOOLEAN
    PROVE  AfterObservation(r, t, d, retryable) \subseteq Driver
  BY AfterFailureType, DoneType DEF AfterObservation

LEMMA StreamedMessageType ==
    ASSUME NEW st \in State, NEW t \in Turns, NEW o \in MessageIds \cup {None}
    PROVE  StreamedMessage(st, t, o) \in MessageIds \cup {None}
  <1>1. st.messages[t] \subseteq MessageIds \cup {None} BY DEF State
  <1> QED BY <1>1 DEF StreamedMessage, StreamedMessages

LEMMA ObserveType ==
    ASSUME NEW d \in Driver, NEW p \in Protocol, NEW st \in State, NEW t \in Turns,
           NEW pos \in Nat
    PROVE  Observe(d, p, st, t, pos) \in Driver
  <1>1. StreamedMessage(st, t, None) \in MessageIds \cup {None} BY StreamedMessageType
  <1>2. p.safe + 1 \in Nat BY DEF Protocol, Sequence, NoFrame
  <1> DEFINE m == StreamedMessage(st, t, None)
             x == p.safe + 1
             n == [d EXCEPT !.pc = "stream", !.pos = pos, !.expected = x,
                   !.message = m, !.unsafe = FALSE,
                   !.terminal = "none", !.failed = "none", !.disconnected = FALSE,
                   !.result = "none"]
  <1>3. n \in Driver
    <2> HIDE DEF m, x
    <2>1. m \in MessageIds \cup {None} /\ x \in Nat BY <1>1, <1>2 DEF m, x
    <2>2. "stream" \in Pc BY DEF Pc
    <2> QED BY <2>1, <2>2, ZenonT(40) DEF Driver
  <1> HIDE DEF n
  <1>4. Observe(d, p, st, t, pos) = IF ManyMessages(st, t) THEN Done(d) ELSE n
    BY DEF Observe, n
  <1> QED BY <1>3, <1>4, DoneType

LEMMA InterruptType ==
    ASSUME NEW d \in Driver, NEW why \in {"protocol", "local"}
    PROVE  Interrupt(d, why) \in Driver
  <1>1. "settle" \in Pc BY DEF Pc
  <1> QED BY <1>1 DEF Interrupt, Driver

LEMMA ReceivedType ==
    ASSUME NEW d \in Driver, NEW p, NEW s \in Nat, NEW known, NEW kind
    PROVE  Received(d, p, s, known, kind) \in Driver
  <1> DEFINE x == s + 1
             u == d.unsafe \/ kind = "usage"
             next == [d EXCEPT !.pos = x]
             a == [next EXCEPT !.expected = x, !.terminal = kind]
             b == [next EXCEPT !.expected = x, !.unsafe = @ \/ kind = "usage"]
             c == [next EXCEPT !.expected = x, !.pc = "frame"]
             e == [next EXCEPT !.expected = x]
             i == Interrupt(next, "protocol")
  <1>0. x \in Nat /\ u \in BOOLEAN /\ "frame" \in Pc BY DEF Pc
  <1>7. Received(d, p, s, known, kind) \in {next, b, c, e, i}
        \/ (/\ kind \in {"completed", "toolCalls", "cancelled", "error"}
            /\ Received(d, p, s, known, kind) = a)
    BY DEF Received
  <1>8. b = [next EXCEPT !.expected = x, !.unsafe = u] BY DEF Driver
  <1> HIDE DEF x, u
  <1>1. next \in Driver BY <1>0 DEF Driver
  <1>2. i \in Driver BY <1>1, InterruptType
  <1> HIDE DEF next
  <1>3. kind \in {"completed", "toolCalls", "cancelled", "error"} => a \in Driver
    BY <1>0, <1>1 DEF Driver
  <1>4. b \in Driver BY <1>0, <1>1, <1>8 DEF Driver
  <1>5. c \in Driver BY <1>0, <1>1 DEF Driver
  <1>6. e \in Driver BY <1>0, <1>1 DEF Driver
  <1> HIDE DEF a, b, c, e, i
  <1> QED BY <1>1, <1>2, <1>3, <1>4, <1>5, <1>6, <1>7

LEMMA EndedType ==
    ASSUME NEW r, NEW t, NEW d \in Driver, NEW retryable \in BOOLEAN,
           NEW result \in {"completed", "cancelled", "failed", "disconnected"}
    PROVE  Ended(r, t, d, result, retryable) \in Driver
  <1> DEFINE pc == IF UsageReceipts /\ result # "disconnected" /\ t \notin Snapshot(r).receipts
                   THEN "usage" ELSE "settle"
  <1>1. pc \in Pc BY DEF Pc
  <1>2. Ended(r, t, d, result, retryable) =
          [d EXCEPT !.result = result, !.retryable = retryable, !.pc = pc]
    BY DEF Ended
  <1> HIDE DEF pc
  <1> QED BY <1>1, <1>2, ZenonT(40) DEF Driver

LEMMA SettledType ==
    ASSUME NEW r, NEW t, NEW d \in Driver
    PROVE  Settled(r, t, d) \subseteq Driver
  <1>1. d.retryable \in BOOLEAN BY DEF Driver
  <1>2. [d EXCEPT !.pc = "checkpoint"] \in Driver /\ [d EXCEPT !.pc = "terminal"] \in Driver
    BY DEF Driver, Pc
  <1>3. AfterObservation(r, t, d, d.retryable) \subseteq Driver BY <1>1, AfterObservationType
  <1> QED BY <1>2, <1>3, DoneType DEF Settled

LEMMA DetachType ==
    ASSUME IInv, NEW r \in Runtimes, NEW t \in Turns
    PROVE  Detach(r, t) \in Driver /\ Detach(r, t).pc = drv[r][t].pc
  <1>1. drv[r][t] \in Driver BY DEF IInv, Shapes
  <1> QED BY <1>1 DEF Detach, Driver

------------------------------------------------
\* The persistence of a driver step.

LEMMA ApplyData ==
    ASSUME IInv, NEW r \in Runtimes, StoreOK, rev'[r] <= Len(log'), RememberApplied(r), Wake(r),
           spent' \in [faults : Nat, resumes : Nat]
    PROVE  DataOK' /\ LogGrowth /\ CancelsOK
  <1>1. DataOK BY DEF IInv
  <1>2. proto' \in [Runtimes -> [Turns -> Protocol]]
    BY <1>1, RememberAppliedType DEF StoreOK, LogOK
  <1>3. can' \in [Runtimes -> [Turns -> CancelPc]] /\ CancelsOK
    BY <1>1, WakeType DEF CancelsOK
  <1> QED BY <1>2, <1>3 DEF StoreOK, DataOK

LEMMA RebaseTurnOK ==
    ASSUME IInv, NEW r \in Runtimes, NEW t \in Turns, NEW drafts, RebaseTurn(r, t, drafts)
    PROVE  DataOK' /\ LogGrowth /\ CancelsOK /\ UNCHANGED drv
  <1>1. DataOK BY DEF IInv
  <1>2. StoreOK /\ rev'[r] = Len(log') /\ spent' = spent
    BY <1>1, RebasedOK DEF RebaseTurn
  <1>3. spent' \in [faults : Nat, resumes : Nat] BY <1>1, <1>2 DEF DataOK
  <1>4. rev'[r] <= Len(log') BY <1>2 DEF StoreOK, LogOK
  <1> QED BY <1>2, <1>3, <1>4, ApplyData DEF RebaseTurn

LEMMA ThrowTurnOK ==
    ASSUME IInv, NEW r \in Runtimes, NEW t \in Turns, NEW drafts, NEW err,
           Fits(r, drafts), ThrowTurn(r, t, drafts, err)
    PROVE  DataOK' /\ LogGrowth /\ CancelsOK /\ Drive(r, t, err)
  <1>1. DataOK BY DEF IInv
  <1>2. StoreOK /\ spent' \in [faults : Nat, resumes : Nat]
    BY <1>1, ThrownOK DEF ThrowTurn
  <1>3. UNCHANGED <<proto, can>> BY DEF ThrowTurn
  <1> QED BY <1>1, <1>2, <1>3 DEF ThrowTurn, StoreOK, DataOK, CancelsOK

LEMMA PersistTurnOK ==
    ASSUME IInv, NEW r \in Runtimes, NEW t \in Turns, NEW drafts, NEW ok, NEW err,
           Fits(r, drafts), PersistTurn(r, t, drafts, ok, err)
    PROVE  /\ DataOK' /\ LogGrowth /\ CancelsOK
           /\ \/ Drive(r, t, ok) /\ Stored(r, "turn", t, drafts)
              \/ UNCHANGED drv
              \/ Drive(r, t, err)
  <1>1. DataOK BY DEF IInv
  <1>2. CASE /\ Stored(r, "turn", t, drafts) /\ RememberApplied(r) /\ Wake(r)
             /\ Drive(r, t, ok) /\ UNCHANGED spent
    <2>1. StoreOK /\ rev'[r] <= Len(log') BY <1>1, <1>2, StoredOK
    <2>2. spent' \in [faults : Nat, resumes : Nat] BY <1>1, <1>2 DEF DataOK
    <2> QED BY <1>2, <2>1, <2>2, ApplyData
  <1>3. CASE RebaseTurn(r, t, drafts) BY <1>3, RebaseTurnOK
  <1>4. CASE ThrowTurn(r, t, drafts, err) BY <1>4, ThrowTurnOK
  <1> QED BY <1>2, <1>3, <1>4 DEF PersistTurn

\* A driver step that persists drafts about its own turn.
LEMMA DriverStepOK ==
    ASSUME IInv, NEW r \in Runtimes, NEW t \in Turns, NEW drafts,
           NEW ok \in Driver, NEW err \in Driver,
           drafts = <<>> \/ (drafts \in Drafts /\ TurnDrafts(t, drafts)),
           drv[r][t].pc \notin Admission,
           PersistTurn(r, t, drafts, ok, err), UNCHANGED <<stopped, asked, life, remote>>
    PROVE  Kept
  <1>1. t \in Latest.begun BY DriverBegun
  <1>2. Fits(r, drafts) BY <1>1, TurnDraftsFit DEF Fits, IInv, DataOK
  <1>3. /\ DataOK' /\ LogGrowth /\ CancelsOK
        /\ Drive(r, t, ok) \/ UNCHANGED drv \/ Drive(r, t, err)
    BY <1>2, PersistTurnOK
  <1>4. t \in Latest'.begun BY <1>1, <1>3 DEF LogGrowth
  <1>5. DriversOK BY <1>3, <1>4, DriveOK, StillOK
  <1> QED BY <1>3, <1>5, Combine, RestUnchanged

LEMMA NewEventType ==
    ASSUME NEW k \in Kinds, NEW t \in Turns
    PROVE  NewEvent(k, t) \in Event /\ NewEvent(k, t).turn = t /\ NewEvent(k, t).kind = k
           /\ NewEvent(k, t).status = "queued"
  BY NoneFresh DEF NewEvent, Event, Status, OpenStatus, Sequence, NoFrame

\* One draft about a turn.
LEMMA OneDraft ==
    ASSUME NEW t, NEW e \in Event, e.turn = t,
           e.kind \notin {"message.created", "turn.started"},
           e.kind = "turn.status_changed" => e.status \in OpenStatus
    PROVE  <<e>> \in Drafts /\ TurnDrafts(t, <<e>>)
  BY DEF Drafts, TurnDrafts

LEMMA NewDraft ==
    ASSUME NEW t \in Turns, NEW k \in Kinds \ {"message.created", "turn.started"}
    PROVE  <<NewEvent(k, t)>> \in Drafts /\ TurnDrafts(t, <<NewEvent(k, t)>>)
  BY OneDraft, NewEventType DEF OpenStatus

------------------------------------------------
\* The next snapshot is a state as well.

SnapshotsOK == \A r \in Runtimes : Snapshot(r) \in State
LEMMA SnapshotsTyped == DataOK => SnapshotsOK
  BY SnapshotGood DEF SnapshotsOK
LEMMA NextSnapshotsTyped == DataOK' => SnapshotsOK'
  BY SnapshotsTyped, PTL

LEMMA DriverTyped ==
    ASSUME IInv, NEW r \in Runtimes, NEW t \in Turns
    PROVE  drv[r][t] \in Driver /\ proto[r][t] \in Protocol /\ Snapshot(r) \in State
  <1>1. drv[r][t] \in Driver BY DEF IInv, Shapes
  <1>2. proto[r][t] \in Protocol BY DEF IInv, DataOK
  <1>3. Snapshot(r) \in State BY SnapshotGood DEF IInv
  <1> QED BY <1>1, <1>2, <1>3

\* A step that leaves the log, the snapshot and the cancellations alone.
LEMMA LocalOK ==
    ASSUME IInv, UNCHANGED <<log, rev, meta, can, lock>>,
           proto' \in [Runtimes -> [Turns -> Protocol]],
           spent' \in [faults : Nat, resumes : Nat]
    PROVE  DataOK' /\ LogGrowth /\ CancelsOK /\ Latest' = Latest
  <1>1. DataOK BY DEF IInv
  <1>2. LogOK' /\ LogGrowth /\ Latest' = Latest BY <1>1, LogStays DEF DataOK
  <1>3. Bounds' BY <1>1 DEF DataOK, Bounds
  <1> QED BY <1>1, <1>2, <1>3 DEF DataOK, CancelsOK

\* A local step of a driver past its admission.
LEMMA LocalDriverOK ==
    ASSUME IInv, NEW r \in Runtimes, NEW t \in Turns, NEW d \in Driver,
           drv[r][t].pc \notin Admission, Drive(r, t, d), LocalStep,
           proto' \in [Runtimes -> [Turns -> Protocol]],
           spent' \in [faults : Nat, resumes : Nat],
           remote' \in [Turns -> Remote],
           \A u \in Turns : remote'[u].started => remote[u].started \/ u = t
    PROVE  Kept
  <1>1. DataOK' /\ LogGrowth /\ CancelsOK /\ Latest' = Latest BY LocalOK DEF LocalStep
  <1>2. t \in Latest'.begun BY <1>1, DriverBegun
  <1>3. DriversOK BY <1>2, DriveOK
  <1>4. RestOK BY <1>2 DEF RestOK, LocalStep, IInv, Shapes
  <1> QED BY <1>1, <1>3, <1>4, Combine

LEMMA SameTypes ==
    ASSUME IInv
    PROVE  /\ proto \in [Runtimes -> [Turns -> Protocol]]
           /\ spent \in [faults : Nat, resumes : Nat]
           /\ remote \in [Turns -> Remote]
  BY DEF IInv, DataOK, Shapes

LEMMA RunRemotelyType ==
    ASSUME IInv, NEW t \in Turns, RunRemotely(t)
    PROVE  /\ remote' \in [Turns -> Remote]
           /\ \A u \in Turns : remote'[u].started => remote[u].started \/ u = t
  BY SameTypes DEF RunRemotely, Remote

------------------------------------------------
\* Admission.

LEMMA BeginAdmissionOK ==
    ASSUME IInv, NEW r \in Runtimes, NEW t \in Turns, NEW c \in Turns \cup {None},
           BeginAdmission(r, t, c)
    PROVE  Kept
  <1> DEFINE d == [Idle EXCEPT !.pc = "admit", !.continues = c]
  <1>1. d \in Driver /\ d.pc \in Admission BY DEF Idle, Driver, Pc, Admission
  <1>2. DataOK' /\ LogGrowth /\ CancelsOK
    BY LocalOK, SameTypes DEF BeginAdmission
  <1> HIDE DEF d
  <1>3. DriversOK BY <1>1, DriveOK DEF BeginAdmission, d
  <1> QED BY <1>2, <1>3, Combine, RestUnchanged DEF BeginAdmission

\* Catching up with the log.
LEMMA CatchUpOK ==
    ASSUME IInv, NEW r \in Runtimes, log' = log, Apply(r, log), RememberApplied(r), Wake(r),
           lock' \in [Runtimes -> Boundary], spent' \in [faults : Nat, resumes : Nat]
    PROVE  DataOK' /\ LogGrowth /\ CancelsOK
  <1>1. DataOK BY DEF IInv
  <1>2. LogOK' /\ LogGrowth BY <1>1, LogStays DEF DataOK
  <1>3. Apply(r, log') OBVIOUS
  <1>4. StoreOK /\ rev'[r] = Len(log') BY <1>1, <1>2, <1>3, ApplyBounds DEF StoreOK
  <1>5. rev'[r] <= Len(log') BY <1>2, <1>4 DEF LogOK
  <1> QED BY <1>4, <1>5, ApplyData

LEMMA AdmissionCatchUpOK ==
    ASSUME IInv, NEW r \in Runtimes, NEW t \in Turns, AdmissionCatchUp(r, t)
    PROVE  Kept
  <1>1. lock' \in [Runtimes -> Boundary] BY DEF AdmissionCatchUp, Boundary, IInv, DataOK
  <1>2. DataOK' /\ LogGrowth /\ CancelsOK
    BY <1>1, CatchUpOK, SameTypes DEF AdmissionCatchUp
  <1> DEFINE d == [drv[r][t] EXCEPT !.pc = "admitting"]
  <1>3. d \in Driver /\ d.pc \in Admission
    <2>1. "admitting" \in Pc /\ "admitting" \in Admission BY DEF Pc, Admission
    <2> QED BY <2>1, DriverTyped, PcType
  <1> HIDE DEF d
  <1>4. DriversOK BY <1>3, DriveOK DEF AdmissionCatchUp, d
  <1> QED BY <1>2, <1>4, Combine, RestUnchanged DEF AdmissionCatchUp

LEMMA AdmissionBusyOK ==
    ASSUME IInv, NEW r \in Runtimes, NEW t \in Turns, AdmissionBusy(r, t)
    PROVE  Kept
  <1>1. lock' \in [Runtimes -> Boundary] BY ReleaseType DEF AdmissionBusy, IInv
  <1>2. DataOK' /\ LogGrowth /\ CancelsOK
    <2>1. LogOK' /\ LogGrowth BY LogStays DEF AdmissionBusy, IInv, DataOK
    <2>2. Bounds' BY DEF AdmissionBusy, IInv, DataOK, Bounds
    <2> QED BY <1>1, <2>1, <2>2 DEF AdmissionBusy, IInv, DataOK, CancelsOK
  <1>3. DriversOK BY DriverTyped, DoneType, DriveOK DEF AdmissionBusy, Admission
  <1> QED BY <1>2, <1>3, Combine, RestUnchanged DEF AdmissionBusy

LEMMA AdmitTurnOK ==
    ASSUME IInv, NEW r \in Runtimes, NEW t \in Turns, AdmitTurn(r, t)
    PROVE  Kept
  <1> DEFINE d      == drv[r][t]
             drafts == AdmissionDrafts(r, t)
             ok     == [d EXCEPT !.pc = "attempt"]
             start  == [NewEvent("turn.started", t) EXCEPT !.continues = d.continues]
             first  == NewEvent("message.created", t)
  <1>0. d \in Driver /\ DataOK /\ LogOK BY DriverTyped DEF IInv, DataOK
  <1>1. start \in Event /\ start.kind = "turn.started" /\ start.turn = t
    BY <1>0, NewEventType DEF Event, Kinds, PlainKind, Driver
  <1>2. first \in Event /\ first.kind = "message.created"
    BY NewEventType DEF Kinds, PlainKind
  <1>3. drafts = <<start>> \/ drafts = <<first, start>>
    BY DEF AdmissionDrafts
  <1> HIDE DEF start, first, drafts
  <1>4. drafts \in Drafts /\ drafts # <<>>
    <2>1. <<start>> \in Drafts /\ <<start>> # <<>> BY <1>1 DEF Drafts
    <2>2. <<first, start>> \in Drafts /\ <<first, start>> # <<>> BY <1>1, <1>2 DEF Drafts
    <2> QED BY <1>3, <2>1, <2>2
  <1>5. rev[r] = Len(log) => Latest.active = None
    BY <1>0, SnapshotGood DEF AdmitTurn
  <1>6. Latest.active = None => DraftsFit(drafts)
    <2> SUFFICES ASSUME Latest.active = None PROVE DraftsFit(drafts) OBVIOUS
    <2>1. CASE drafts = <<start>>
      BY <1>1, <2>1 DEF DraftsFit, EventFits
    <2>2. CASE drafts = <<first, start>>
      <3>1. Reduce(Latest, first) = Latest BY <1>2, ReduceCases
      <3> QED BY <1>1, <1>2, <2>2, <3>1 DEF DraftsFit, EventFits
    <2> QED BY <1>3, <2>1, <2>2
  <1>7. Fits(r, drafts) BY <1>4, <1>5, <1>6 DEF Fits
  <1>8. /\ DataOK' /\ LogGrowth /\ CancelsOK
        /\ \/ Drive(r, t, ok) /\ Stored(r, "turn", t, drafts)
           \/ UNCHANGED drv
           \/ Drive(r, t, Done(d))
    BY <1>7, PersistTurnOK DEF AdmitTurn, drafts
  <1>9. Stored(r, "turn", t, drafts) => t \in Latest'.begun
    <2> SUFFICES ASSUME Stored(r, "turn", t, drafts) PROVE t \in Latest'.begun OBVIOUS
    <2>1. rev[r] = Len(log) /\ log' = Extended(drafts) BY <1>4 DEF Stored
    <2>2. DraftsFit(drafts) BY <1>5, <1>6, <2>1
    <2>3. Latest \in State BY <1>0, LatestGood
    <2>4. t \in Reduce(Latest, start).begun
      <3>1. Reduce(Latest, start) = ReduceTurnStarted(Latest, start) BY <1>1, ReduceCases
      <3>2. CASE IsTerminalTurn(Latest, t)
        <4>1. GoodState(Latest) BY <1>0, LatestGood
        <4> QED BY <1>1, <3>1, <3>2, <4>1
               DEF ReduceTurnStarted, GoodState, IsTerminalTurn, TerminalStatus
      <3>3. CASE ~IsTerminalTurn(Latest, t)
        BY <1>1, <2>3, <3>1, <3>3 DEF ReduceTurnStarted, State
      <3> QED BY <3>2, <3>3
    <2>5. CASE drafts = <<start>>
      <3>1. log' = Append(log, [ev |-> start, st |-> Reduce(Latest, start)])
        BY <2>1, <2>5 DEF Extended
      <3>2. EventFits(Latest, start) BY <2>2, <2>5 DEF DraftsFit
      <3>3. Latest' = Reduce(Latest, start) BY <1>0, <1>1, <3>1, <3>2, AppendOne
      <3> QED BY <2>4, <3>3
    <2>6. CASE drafts = <<first, start>>
      <3>1. Reduce(Latest, first) = Latest BY <1>2, ReduceCases
      <3>2. log' = Append(Append(log, [ev |-> first, st |-> Reduce(Latest, first)]),
                          [ev |-> start, st |-> Reduce(Reduce(Latest, first), start)])
        BY <2>1, <2>6 DEF Extended
      <3>3. EventFits(Latest, first) /\ EventFits(Reduce(Latest, first), start)
        BY <2>2, <2>6 DEF DraftsFit
      <3>4. Latest' = Reduce(Reduce(Latest, first), start)
        BY <1>0, <1>1, <1>2, <3>2, <3>3, AppendTwo
      <3> QED BY <2>4, <3>1, <3>4
    <2> QED BY <1>3, <2>5, <2>6
  <1>10. ok \in Driver BY <1>0, PcType DEF Pc
  <1>11. Done(d) \in Driver /\ Done(d).pc \in Admission BY <1>0, DoneType DEF Admission
  <1> HIDE DEF ok, d
  <1>12. DriversOK BY <1>8, <1>9, <1>10, <1>11, DriveOK, StillOK
  <1> QED BY <1>8, <1>12, Combine, RestUnchanged DEF AdmitTurn

------------------------------------------------
\* The driver's steps that append one event.

LEMMA StartAttemptOK ==
    ASSUME IInv, NEW r \in Runtimes, NEW t \in Turns, StartAttempt(r, t)
    PROVE  Kept
  <1>1. drv[r][t] \in Driver BY DriverTyped
  <1>2. "call" \in Pc /\ drv[r][t].pc \notin Admission
    BY DEF Pc, StartAttempt, At, Admission
  <1>3. [drv[r][t] EXCEPT !.pc = "call"] \in Driver /\ Done(drv[r][t]) \in Driver
    BY <1>1, <1>2, PcType, DoneType
  <1>4. "turn.attempt_started" \in Kinds \ {"message.created", "turn.started"}
    BY DEF Kinds, RetryKind
  <1> QED BY <1>2, <1>3, <1>4, NewDraft, DriverStepOK DEF StartAttempt

LEMMA FailTurnOK ==
    ASSUME IInv, NEW r \in Runtimes, NEW t \in Turns, FailTurn(r, t)
    PROVE  Kept
  <1>1. drv[r][t] \in Driver BY DriverTyped
  <1>2. drv[r][t].pc \notin Admission BY DEF FailTurn, At, Admission
  <1>3. "turn.failed" \in Kinds \ {"message.created", "turn.started"}
    BY DEF Kinds, TerminalKind
  <1> QED BY <1>1, <1>2, <1>3, DoneType, NewDraft, DriverStepOK DEF FailTurn

LEMMA LinkReceiptOK ==
    ASSUME IInv, NEW r \in Runtimes, NEW t \in Turns, LinkReceipt(r, t)
    PROVE  Kept
  <1>1. drv[r][t] \in Driver BY DriverTyped
  <1>2. "settle" \in Pc /\ drv[r][t].pc \notin Admission
    BY DEF Pc, LinkReceipt, At, Admission
  <1>3. [drv[r][t] EXCEPT !.pc = "settle"] \in Driver /\ Done(drv[r][t]) \in Driver
    BY <1>1, <1>2, PcType, DoneType
  <1>4. "usage.receipt_linked" \in Kinds \ {"message.created", "turn.started"}
    BY DEF Kinds, PlainKind
  <1> QED BY <1>2, <1>3, <1>4, NewDraft, DriverStepOK DEF LinkReceipt

LEMMA ScheduleRetryOK ==
    ASSUME IInv, NEW r \in Runtimes, NEW t \in Turns, ScheduleRetry(r, t)
    PROVE  Kept
  <1> DEFINE ok == [drv[r][t] EXCEPT !.pc = "attempt", !.attempt = @ + 1]
  <1>1. drv[r][t] \in Driver BY DriverTyped
  <1>2. "attempt" \in Pc /\ drv[r][t].pc \notin Admission
    BY DEF Pc, ScheduleRetry, At, Admission
  <1>3. ok \in Driver
    <2> DEFINE n == drv[r][t].attempt + 1
    <2>1. n \in Nat /\ ok = [drv[r][t] EXCEPT !.pc = "attempt", !.attempt = n]
      BY <1>1 DEF Driver
    <2> HIDE DEF n, ok
    <2> QED BY <1>1, <1>2, <2>1 DEF Driver
  <1>4. "turn.retry_scheduled" \in Kinds \ {"message.created", "turn.started"}
    BY DEF Kinds, RetryKind
  <1>5. PersistTurn(r, t, <<NewEvent("turn.retry_scheduled", t)>>, ok, Done(drv[r][t]))
        /\ UNCHANGED <<stopped, asked, life, remote>>
    BY DEF ScheduleRetry
  <1> HIDE DEF ok
  <1> QED BY <1>1, <1>2, <1>3, <1>4, <1>5, DoneType, NewDraft, DriverStepOK

LEMMA ExhaustRetriesOK ==
    ASSUME IInv, NEW r \in Runtimes, NEW t \in Turns, ExhaustRetries(r, t)
    PROVE  Kept
  <1> DEFINE ok == IF drv[r][t].phase = "start" THEN [drv[r][t] EXCEPT !.pc = "fail"]
                   ELSE Done(drv[r][t])
  <1>1. drv[r][t] \in Driver BY DriverTyped
  <1>2. "fail" \in Pc /\ drv[r][t].pc \notin Admission
    BY DEF Pc, ExhaustRetries, At, Admission
  <1>3. ok \in Driver BY <1>1, <1>2, PcType, DoneType
  <1>4. "turn.retry_exhausted" \in Kinds \ {"message.created", "turn.started"}
    BY DEF Kinds, RetryKind
  <1>5. PersistTurn(r, t, <<NewEvent("turn.retry_exhausted", t)>>, ok, Done(drv[r][t]))
        /\ UNCHANGED <<stopped, asked, life, remote>>
    BY DEF ExhaustRetries
  <1> HIDE DEF ok
  <1> QED BY <1>1, <1>2, <1>3, <1>4, <1>5, DoneType, NewDraft, DriverStepOK

------------------------------------------------
\* The driver's local steps.

LEMMA AbortOK ==
    ASSUME IInv, NEW r \in Runtimes, NEW t \in Turns, Abort(r, t)
    PROVE  Kept
  <1>1. drv[r][t] \in Driver BY DriverTyped
  <1>2. drv[r][t].pc \notin Admission BY DEF Abort, At, Admission
  <1> QED BY <1>1, <1>2, DoneType, SameTypes, LocalDriverOK DEF Abort

LEMMA StartCallOK ==
    ASSUME IInv, NEW r \in Runtimes, NEW t \in Turns, StartCall(r, t)
    PROVE  Kept
  <1>1. drv[r][t] \in Driver BY DriverTyped
  <1>2. "inflight" \in Pc /\ drv[r][t].pc \notin Admission
    BY DEF Pc, StartCall, At, Admission
  <1>3. [drv[r][t] EXCEPT !.pc = "inflight"] \in Driver BY <1>1, <1>2, PcType
  <1> QED BY <1>2, <1>3, SameTypes, LocalDriverOK DEF StartCall

LEMMA StartReplyOK ==
    ASSUME IInv, NEW r \in Runtimes, NEW t \in Turns, StartReply(r, t)
    PROVE  Kept
  <1>1. drv[r][t] \in Driver BY DriverTyped
  <1>2. "queue" \in Pc /\ drv[r][t].pc \notin Admission
    BY DEF Pc, StartReply, At, Admission
  <1>3. [drv[r][t] EXCEPT !.pc = "queue"] \in Driver BY <1>1, <1>2, PcType
  <1>4. proto' \in [Runtimes -> [Turns -> Protocol]]
    <2>1. [proto[r][t] EXCEPT !.transportId = TRUE] \in Protocol
      BY DriverTyped DEF Protocol
    <2> QED BY <2>1, SameTypes DEF StartReply
  <1>5. spent' \in [faults : Nat, resumes : Nat] BY SameTypes DEF StartReply
  <1> QED BY <1>2, <1>3, <1>4, <1>5, RunRemotelyType, LocalDriverOK DEF StartReply

\* A failed attempt.
LEMMA FailureStates ==
    ASSUME IInv, NEW r \in Runtimes, NEW t \in Turns, NEW phase \in {"start", "observation"}
    PROVE  AfterFailure(drv[r][t], TRUE, phase) \cup AfterFailure(drv[r][t], FALSE, phase)
              \subseteq Driver
  BY DriverTyped, AfterFailureType

LEMMA StartRejectedOK ==
    ASSUME IInv, NEW r \in Runtimes, NEW t \in Turns, StartRejected(r, t)
    PROVE  Kept
  <1>1. drv[r][t].pc \notin Admission BY DEF StartRejected, At, Admission
  <1>2. PICK d \in Driver : Drive(r, t, d) BY FailureStates DEF StartRejected
  <1>3. spent' \in [faults : Nat, resumes : Nat] BY SpendType DEF StartRejected, IInv
  <1>4. /\ remote' \in [Turns -> Remote]
        /\ \A u \in Turns : remote'[u].started => remote[u].started \/ u = t
    <2>1. CASE RunRemotely(t) BY <2>1, RunRemotelyType
    <2>2. CASE UNCHANGED remote BY <2>2, SameTypes
    <2> QED BY <2>1, <2>2 DEF StartRejected
  <1>5. LocalStep /\ proto' \in [Runtimes -> [Turns -> Protocol]]
    BY SameTypes DEF StartRejected
  <1> QED BY <1>1, <1>2, <1>3, <1>4, <1>5, LocalDriverOK

LEMMA InvalidHandleOK ==
    ASSUME IInv, NEW r \in Runtimes, NEW t \in Turns, InvalidHandle(r, t)
    PROVE  Kept
  <1>1. drv[r][t] \in Driver BY DriverTyped
  <1>2. "fail" \in Pc /\ drv[r][t].pc \notin Admission
    BY DEF Pc, InvalidHandle, At, Admission
  <1>3. [drv[r][t] EXCEPT !.pc = "fail"] \in Driver BY <1>1, <1>2, PcType
  <1>4. spent' \in [faults : Nat, resumes : Nat] BY SpendType DEF InvalidHandle, IInv
  <1> QED BY <1>2, <1>3, <1>4, SameTypes, LocalDriverOK DEF InvalidHandle

LEMMA ResumeCallOK ==
    ASSUME IInv, NEW r \in Runtimes, NEW t \in Turns, ResumeCall(r, t)
    PROVE  Kept
  <1> DEFINE d == Observe(drv[r][t], proto[r][t], Snapshot(r), t, proto[r][t].checkpoint)
  <1>1. proto[r][t].checkpoint \in Nat BY DriverTyped DEF Protocol
  <1>2. d \in Driver BY <1>1, DriverTyped, ObserveType
  <1>3. drv[r][t].pc \notin Admission BY DEF ResumeCall, At, Admission
  <1>4. Drive(r, t, d) BY DEF ResumeCall
  <1> HIDE DEF d
  <1> QED BY <1>2, <1>3, <1>4, SameTypes, LocalDriverOK DEF ResumeCall

LEMMA ResumeRejectedOK ==
    ASSUME IInv, NEW r \in Runtimes, NEW t \in Turns, ResumeRejected(r, t)
    PROVE  Kept
  <1>1. drv[r][t].pc \notin Admission BY DEF ResumeRejected, At, Admission
  <1>2. PICK d \in Driver : Drive(r, t, d) BY FailureStates DEF ResumeRejected
  <1>3. spent' \in [faults : Nat, resumes : Nat] BY SpendType DEF ResumeRejected, IInv
  <1> QED BY <1>1, <1>2, <1>3, SameTypes, LocalDriverOK DEF ResumeRejected

LEMMA ReceiveFrameOK ==
    ASSUME IInv, NEW r \in Runtimes, NEW t \in Turns, ReceiveFrame(r, t)
    PROVE  Kept
  <1> DEFINE d     == drv[r][t]
             kind  == FrameAt(t, d.pos)
             known == KnownFrame(r, t, d.pos)
             next  == Received(d, proto[r][t], d.pos, known, kind)
             acc   == Accepts(d, proto[r][t], d.pos, known, kind)
  <1>1. d \in Driver /\ d.pos \in Nat BY DriverTyped DEF Driver
  <1>2. next \in Driver BY <1>1, ReceivedType
  <1>3. d.pc \notin Admission BY DEF ReceiveFrame, At, Admission
  <1>4. /\ remote' \in [Turns -> Remote]
        /\ \A u \in Turns : remote'[u].started => remote[u].started \/ u = t
    <2>1. Produce(t, d.pos) BY DEF ReceiveFrame
    <2> HIDE DEF d
    <2>2. d.pos + 1 \in Nat BY <1>1
    <2> QED BY <2>1, <2>2, SameTypes DEF Produce, Remote
  <1>5. proto' = [proto EXCEPT ![r][t].request = @ \/ acc] BY DEF ReceiveFrame
  <1>6. Drive(r, t, next) /\ LocalStep /\ UNCHANGED spent BY DEF ReceiveFrame
  <1>7. proto' \in [Runtimes -> [Turns -> Protocol]]
    <2> HIDE DEF acc
    <2>1. [proto[r][t] EXCEPT !.request = @ \/ acc] \in Protocol BY DriverTyped DEF Protocol
    <2> QED BY <1>5, <2>1, SameTypes
  <1> HIDE DEF d, next
  <1> QED BY <1>2, <1>3, <1>4, <1>6, <1>7, SameTypes, LocalDriverOK DEF d

LEMMA EndObservationOK ==
    ASSUME IInv, NEW r \in Runtimes, NEW t \in Turns, NEW retryable \in BOOLEAN,
           NEW result \in {"completed", "cancelled", "failed", "disconnected"},
           EndObservation(r, t, result, retryable),
           spent' \in [faults : Nat, resumes : Nat]
    PROVE  Kept
  <1> DEFINE d == Ended(r, t, drv[r][t], result, retryable)
  <1>1. d \in Driver BY DriverTyped, EndedType
  <1>2. drv[r][t].pc \notin Admission BY DEF EndObservation, At, Admission
  <1>3. Drive(r, t, d) BY DEF EndObservation
  <1> HIDE DEF d
  <1> QED BY <1>1, <1>2, <1>3, SameTypes, LocalDriverOK DEF EndObservation

LEMMA ResultType ==
    ASSUME NEW end PROVE ResultOf(end) \in {"completed", "cancelled", "failed", "disconnected"}
  BY DEF ResultOf

LEMMA StreamEndsOK ==
    ASSUME IInv, NEW r \in Runtimes, NEW t \in Turns,
           StreamCloses(r, t) \/ StreamDetached(r, t) \/ StreamBreaks(r, t)
    PROVE  Kept
  <1>1. CASE StreamCloses(r, t)
    BY <1>1, ResultType, SameTypes, EndObservationOK DEF StreamCloses
  <1>2. CASE StreamDetached(r, t)
    BY <1>2, SameTypes, EndObservationOK DEF StreamDetached
  <1>3. CASE StreamBreaks(r, t)
    <2>1. spent' \in [faults : Nat, resumes : Nat]
      BY <1>3, SpendType DEF StreamBreaks, IInv
    <2>2. PICK result \in {"completed", "cancelled", "failed", "disconnected"},
               retryable \in BOOLEAN : EndObservation(r, t, result, retryable)
      BY <1>3 DEF StreamBreaks
    <2> QED BY <2>1, <2>2, EndObservationOK
  <1> QED BY <1>1, <1>2, <1>3

LEMMA SettleObservationOK ==
    ASSUME IInv, NEW r \in Runtimes, NEW t \in Turns, SettleObservation(r, t)
    PROVE  Kept
  <1>1. PICK d \in Driver : Drive(r, t, d)
    BY DriverTyped, SettledType DEF SettleObservation
  <1>2. drv[r][t].pc \notin Admission BY DEF SettleObservation, At, Admission
  <1> QED BY <1>1, <1>2, SameTypes, LocalDriverOK DEF SettleObservation

------------------------------------------------
\* The driver's steps with drafts of their own.

LEMMA QueueTurnOK ==
    ASSUME IInv, NEW r \in Runtimes, NEW t \in Turns, QueueTurn(r, t)
    PROVE  Kept
  <1> DEFINE d      == drv[r][t]
             e      == [NewEvent("turn.status_changed", t) EXCEPT !.transportId = TRUE]
             drafts == IF IsTerminalTurn(Snapshot(r), t) THEN <<>> ELSE <<e>>
             ok     == Observe(d, proto'[r][t], Snapshot(r)', t, 0)
  <1>1. d \in Driver /\ Done(d) \in Driver BY DriverTyped, DoneType
  <1>2. d.pc \notin Admission BY DEF QueueTurn, At, Admission
  <1>3. e \in Event /\ e.turn = t /\ e.kind = "turn.status_changed" /\ e.status = "queued"
    <2> DEFINE n == NewEvent("turn.status_changed", t)
    <2>1. "turn.status_changed" \in Kinds BY DEF Kinds, PlainKind
    <2>2. n \in Event /\ n.turn = t /\ n.kind = "turn.status_changed" /\ n.status = "queued"
      BY <2>1, NewEventType
    <2> HIDE DEF n
    <2>3. e = [n EXCEPT !.transportId = TRUE] BY DEF n
    <2> QED BY <2>2, <2>3 DEF Event
  <1> HIDE DEF e
  <1>4. drafts = <<>> \/ (drafts \in Drafts /\ TurnDrafts(t, drafts))
    BY <1>3, OneDraft DEF OpenStatus
  <1>5. PersistTurn(r, t, drafts, ok, Done(d)) /\ UNCHANGED <<stopped, asked, life, remote>>
    BY DEF QueueTurn, e
  <1> HIDE DEF drafts
  <1>6. t \in Latest.begun BY <1>2, DriverBegun
  <1>7. Fits(r, drafts) BY <1>4, <1>6, TurnDraftsFit DEF Fits, IInv, DataOK
  <1> HIDE DEF ok
  <1>8. DataOK' BY <1>5, <1>7, PersistTurnOK
  <1>9. ok \in Driver
    <2>1. Snapshot(r)' \in State BY <1>8, NextSnapshotsTyped DEF SnapshotsOK
    <2>2. proto'[r][t] \in Protocol BY <1>8 DEF DataOK
    <2> QED BY <1>1, <2>1, <2>2, ObserveType DEF ok
  <1> QED BY <1>1, <1>2, <1>4, <1>5, <1>9, DriverStepOK

\* The event of a frame is an event about its turn.
LEMMA FrameEventType ==
    ASSUME IInv, NEW r \in Runtimes, NEW t \in Turns, NEW d \in Driver, NEW s \in Sequence
    PROVE  /\ FrameEvent(r, t, d, s) \in Event
           /\ <<FrameEvent(r, t, d, s)>> \in Drafts /\ TurnDrafts(t, <<FrameEvent(r, t, d, s)>>)
  <1> DEFINE kind == Script[s + 1]
             k == CASE kind = "started" -> "turn.status_changed"
                    [] kind = "text"    -> "message.text_appended"
                    [] OTHER            -> "tool_call.requested"
             id == proto[r][t].transportId
             m == IF kind # "text" THEN None ELSE IF d.message = None THEN <<r, s>> ELSE d.message
             f == ~d.unsafe
             e == [NewEvent(k, t) EXCEPT !.status = "running", !.seq = s, !.transportId = id,
                                         !.resumeSafe = f, !.message = m]
  <1>1. FrameEvent(r, t, d, s) = e BY DEF FrameEvent
  <1>2. k \in Kinds \ {"message.created", "turn.started"} BY DEF Kinds, PlainKind
  <1>3. id \in BOOLEAN BY DriverTyped DEF Protocol
  <1>4. m \in MessageIds \cup {None} BY DEF Driver, MessageIds
  <1>5. f \in BOOLEAN OBVIOUS
  <1> HIDE DEF k, id, m, f
  <1>6. e \in Event /\ e.turn = t /\ e.kind = k /\ e.status = "running"
    <2>1. NewEvent(k, t) \in Event /\ NewEvent(k, t).turn = t /\ NewEvent(k, t).kind = k
      BY <1>2, NewEventType
    <2>2. "running" \in Status BY DEF Status, OpenStatus
    <2> QED BY <1>3, <1>4, <1>5, <2>1, <2>2 DEF Event
  <1> HIDE DEF e
  <1>7. e.status \in OpenStatus BY <1>6 DEF OpenStatus
  <1> QED BY <1>1, <1>2, <1>6, <1>7, OneDraft

\* Storing a step's drafts and setting safeSequence of its turn.
LEMMA StoredSafeOK ==
    ASSUME IInv, NEW r \in Runtimes, NEW t \in Turns, NEW drafts, NEW s \in Sequence,
           NEW sets \in BOOLEAN, Fits(r, drafts), Stored(r, "turn", t, drafts), Wake(r),
           UNCHANGED spent,
           proto' = [proto EXCEPT ![r] = [u \in Turns |->
                        IF u = t /\ sets THEN [Remembered(r, u) EXCEPT !.safe = s]
                        ELSE Remembered(r, u)]]
    PROVE  DataOK' /\ LogGrowth /\ CancelsOK
  <1>1. DataOK BY DEF IInv
  <1>2. StoreOK /\ rev'[r] <= Len(log') BY <1>1, StoredOK
  <1>3. \A u \in Turns : Remembered(r, u) \in Protocol
    <2> SUFFICES ASSUME NEW u \in Turns PROVE Remembered(r, u) \in Protocol OBVIOUS
    <2>1. proto[r][u] \in Protocol /\ rev[r] \in Nat BY <1>1 DEF DataOK
    <2>2. rev'[r] \in Nat /\ log' \in Seq(Entry) BY <1>2 DEF StoreOK, LogOK
    <2> QED BY <1>2, <2>1, <2>2, RememberType DEF Remembered
  <1>4. \A u \in Turns : [Remembered(r, u) EXCEPT !.safe = s] \in Protocol
    <2> SUFFICES ASSUME NEW p \in Protocol PROVE [p EXCEPT !.safe = s] \in Protocol
      BY <1>3
    <2> QED BY DEF Protocol
  <1>5. proto' \in [Runtimes -> [Turns -> Protocol]]
    BY <1>3, <1>4, SameTypes
  <1>6. can' \in [Runtimes -> [Turns -> CancelPc]] /\ CancelsOK
    BY <1>1, WakeType DEF CancelsOK
  <1> QED BY <1>1, <1>2, <1>5, <1>6 DEF StoreOK, DataOK

LEMMA ProjectFrameOK ==
    ASSUME IInv, NEW r \in Runtimes, NEW t \in Turns, ProjectFrame(r, t)
    PROVE  Kept
  <1> DEFINE d      == drv[r][t]
             s      == d.pos - 1
             drafts == FrameDrafts(r, t, d, s)
             minted == FrameEvent(r, t, d, s).message
             own    == IF minted = None THEN d.message ELSE minted
             many   == ManyMessages(Snapshot(r)', t)
             sets   == ~d.unsafe /\ ~many
             failed == Interrupt(d, "local")
             m      == RefreshedMessage(Snapshot(r)', t, own)
             on     == [d EXCEPT !.pc = "stream", !.message = m]
             ok     == IF many THEN failed ELSE on
  <1>1. d \in Driver BY DriverTyped
  <1>2. s \in Sequence BY <1>1 DEF Driver, Sequence, NoFrame
  <1>3. d.pc \notin Admission BY DEF ProjectFrame, At, Admission
  <1>4. t \in Latest.begun BY <1>3, DriverBegun
  <1>5. drafts = <<>> \/ (drafts \in Drafts /\ TurnDrafts(t, drafts))
    BY <1>1, <1>2, FrameEventType DEF FrameDrafts
  <1>6. Fits(r, drafts) BY <1>4, <1>5, TurnDraftsFit DEF Fits, IInv, DataOK
  <1>7. own \in MessageIds \cup {None}
    <2>1. FrameEvent(r, t, d, s) \in Event BY <1>1, <1>2, FrameEventType
    <2>2. minted \in MessageIds \cup {None} BY <2>1 DEF Event
    <2> QED BY <1>1, <2>2 DEF Driver
  <1>8. failed \in Driver BY <1>1, InterruptType
  <1>9. \/ /\ Stored(r, "turn", t, drafts) /\ Wake(r) /\ UNCHANGED spent
            /\ proto' = [proto EXCEPT ![r] = [u \in Turns |->
                  IF u = t /\ ~d.unsafe /\ ~many
                  THEN [Remembered(r, u) EXCEPT !.safe = s] ELSE Remembered(r, u)]]
            /\ Drive(r, t, ok)
        \/ RebaseTurn(r, t, drafts)
        \/ ThrowTurn(r, t, drafts, failed)
    BY DEF ProjectFrame
  <1>10. UNCHANGED <<stopped, asked, life, remote>> BY DEF ProjectFrame
  <1>11. sets \in BOOLEAN OBVIOUS
  <1> HIDE DEF drafts, failed, own, s
  <1>12. CASE /\ Stored(r, "turn", t, drafts) /\ Wake(r) /\ UNCHANGED spent
              /\ proto' = [proto EXCEPT ![r] = [u \in Turns |->
                    IF u = t /\ ~d.unsafe /\ ~many
                    THEN [Remembered(r, u) EXCEPT !.safe = s] ELSE Remembered(r, u)]]
              /\ Drive(r, t, ok)
    <2>1. proto' = [proto EXCEPT ![r] = [u \in Turns |->
             IF u = t /\ sets THEN [Remembered(r, u) EXCEPT !.safe = s] ELSE Remembered(r, u)]]
      BY <1>12
    <2>2. Drive(r, t, ok) BY <1>12
    <2>3. DataOK' /\ LogGrowth /\ CancelsOK
      <3> HIDE DEF sets
      <3> QED BY <1>2, <1>6, <1>11, <1>12, <2>1, StoredSafeOK
    <2>4. m \in MessageIds \cup {None}
      <3>1. Snapshot(r)' \in State BY <2>3, NextSnapshotsTyped DEF SnapshotsOK
      <3> QED BY <1>7, <3>1, StreamedMessageType DEF RefreshedMessage
    <2> HIDE DEF m, many
    <2>5. on \in Driver
      <3>1. "stream" \in Pc BY DEF Pc
      <3> HIDE DEF d
      <3> QED BY <1>1, <2>4, <3>1 DEF Driver
    <2>6. ok \in Driver BY <1>8, <2>5
    <2> HIDE DEF ok
    <2>7. t \in Latest'.begun BY <1>4, <2>3 DEF LogGrowth
    <2>8. DriversOK BY <2>2, <2>6, <2>7, DriveOK
    <2> QED BY <1>10, <2>3, <2>8, Combine, RestUnchanged
  <1>13. CASE RebaseTurn(r, t, drafts)
    BY <1>10, <1>13, RebaseTurnOK, StillOK, Combine, RestUnchanged
  <1>14. CASE ThrowTurn(r, t, drafts, failed)
    <2>1. DataOK' /\ LogGrowth /\ CancelsOK /\ Drive(r, t, failed)
      BY <1>6, <1>14, ThrowTurnOK
    <2>2. t \in Latest'.begun BY <1>4, <2>1 DEF LogGrowth
    <2>3. DriversOK BY <1>8, <2>1, <2>2, DriveOK
    <2> QED BY <1>10, <2>1, <2>3, Combine, RestUnchanged
  <1> HIDE DEF d, many, ok
  <1> QED BY <1>9, <1>12, <1>13, <1>14

\* A step that only gives up its observation.
LEMMA GiveUpOK ==
    ASSUME IInv, NEW r \in Runtimes, NEW t \in Turns, Release(r), Drive(r, t, Done(drv[r][t])),
           UNCHANGED <<log, rev, meta, proto, can>>,
           spent' \in [faults : Nat, resumes : Nat], UNCHANGED <<stopped, asked, life, remote>>
    PROVE  Kept
  <1>1. lock' \in [Runtimes -> Boundary] BY ReleaseType DEF IInv
  <1>2. LogOK' /\ LogGrowth BY LogStays DEF IInv, DataOK
  <1>3. Bounds' BY DEF IInv, DataOK, Bounds
  <1>4. DataOK' /\ CancelsOK BY <1>1, <1>2, <1>3 DEF IInv, DataOK, CancelsOK
  <1>5. Done(drv[r][t]) \in Driver /\ Done(drv[r][t]).pc \in Admission
    BY DriverTyped, DoneType DEF Admission
  <1>6. DriversOK BY <1>5, DriveOK
  <1> QED BY <1>2, <1>4, <1>6, Combine, RestUnchanged

LEMMA CheckpointDraftsFit ==
    ASSUME IInv, NEW r \in Runtimes, NEW t \in Turns, NEW covered \in Nat
    PROVE  \/ CheckpointDrafts(r, t, covered) = <<>>
           \/ /\ CheckpointDrafts(r, t, covered) \in Drafts
              /\ TurnDrafts(t, CheckpointDrafts(r, t, covered))
  <1> DEFINE n == NewEvent("turn.status_changed", t)
             x == Snapshot(r).status[t]
             e == [n EXCEPT !.status = x, !.checkpoint = covered]
  <1>1. "turn.status_changed" \in Kinds BY DEF Kinds, PlainKind
  <1>2. n \in Event /\ n.turn = t /\ n.kind = "turn.status_changed" BY <1>1, NewEventType
  <1>3. x \in Status BY DriverTyped DEF State
  <1>4. CheckpointDrafts(r, t, covered) = <<>>
        \/ (x \in OpenStatus /\ CheckpointDrafts(r, t, covered) = <<e>>)
    BY DEF CheckpointDrafts, IsOpenTurn
  <1> HIDE DEF n, x
  <1>5. e \in Event /\ e.turn = t /\ e.kind = "turn.status_changed" /\ e.status = x
    BY <1>2, <1>3 DEF Event
  <1> HIDE DEF e
  <1> QED BY <1>4, <1>5, OneDraft

LEMMA PersistCheckpointOK ==
    ASSUME IInv, NEW r \in Runtimes, NEW t \in Turns, PersistCheckpoint(r, t)
    PROVE  Kept
  <1> DEFINE d == drv[r][t]
  <1>1. d \in Driver /\ d.pos \in Nat /\ Done(d) \in Driver
    BY DriverTyped, DoneType DEF Driver
  <1>2. d.pc \notin Admission BY DEF PersistCheckpoint, At, Admission
  <1>3. UNCHANGED <<stopped, asked, life, remote>> BY DEF PersistCheckpoint
  <1>4. CASE \E covered \in {0, d.pos} : \E next \in AfterObservation(r, t, d, TRUE) :
               PersistTurn(r, t, CheckpointDrafts(r, t, covered),
                   IF covered > 0 /\ ~IsOpenTurn(Snapshot(r), t) THEN Done(d) ELSE next,
                   Done(d))
    <2>1. PICK covered \in {0, d.pos}, next \in AfterObservation(r, t, d, TRUE) :
               PersistTurn(r, t, CheckpointDrafts(r, t, covered),
                   IF covered > 0 /\ ~IsOpenTurn(Snapshot(r), t) THEN Done(d) ELSE next,
                   Done(d))
      BY <1>4
    <2> DEFINE ok == IF covered > 0 /\ ~IsOpenTurn(Snapshot(r), t) THEN Done(d) ELSE next
    <2>2. covered \in Nat BY <1>1
    <2>3. ok \in Driver BY <1>1, AfterObservationType
    <2>4. PersistTurn(r, t, CheckpointDrafts(r, t, covered), ok, Done(d)) BY <2>1
    <2> HIDE DEF ok, d
    <2> QED BY <1>1, <1>2, <1>3, <2>2, <2>3, <2>4, CheckpointDraftsFit, DriverStepOK DEF d
  <1>5. CASE /\ MayPersist(r, "turn", t) /\ Spend("badCheckpoint") /\ Release(r)
             /\ Drive(r, t, Done(d)) /\ UNCHANGED <<log, rev, meta, proto, can>>
    <2>1. spent' \in [faults : Nat, resumes : Nat] BY <1>5, SpendType DEF IInv
    <2> QED BY <1>3, <1>5, <2>1, GiveUpOK
  <1> QED BY <1>4, <1>5 DEF PersistCheckpoint

LEMMA TerminalEventFits ==
    ASSUME IInv, NEW r \in Runtimes, NEW t \in Turns, NEW d \in Driver
    PROVE  <<TerminalEvent(r, t, d)>> \in Drafts /\ TurnDrafts(t, <<TerminalEvent(r, t, d)>>)
  <1> DEFINE k == CASE d.terminal \in {"completed", "toolCalls"} -> "turn.completed"
                    [] d.terminal = "cancelled" -> "turn.cancelled"
                    [] OTHER -> "turn.failed"
             n == NewEvent(k, t)
             s == d.expected - 1
             id == proto[r][t].transportId
             c == d.terminal = "toolCalls"
             e == [n EXCEPT !.seq = s, !.transportId = id, !.resumeSafe = TRUE, !.toolCalls = c]
  <1>1. TerminalEvent(r, t, d) = e BY DEF TerminalEvent
  <1>2. k \in TerminalKind BY DEF TerminalKind
  <1>3. s \in Sequence BY DEF Driver, Sequence, NoFrame
  <1>4. id \in BOOLEAN BY DriverTyped DEF Protocol
  <1>5. c \in BOOLEAN OBVIOUS
  <1> HIDE DEF k, s, id, c
  <1>6. k \in Kinds /\ k \notin {"message.created", "turn.started", "turn.status_changed"}
    BY <1>2 DEF Kinds, TerminalKind
  <1>7. n \in Event /\ n.turn = t /\ n.kind = k BY <1>6, NewEventType
  <1> HIDE DEF n
  <1>8. e \in Event /\ e.turn = t /\ e.kind = k BY <1>3, <1>4, <1>5, <1>7 DEF Event
  <1> HIDE DEF e
  <1> QED BY <1>1, <1>6, <1>8, OneDraft

LEMMA PersistTerminalOK ==
    ASSUME IInv, NEW r \in Runtimes, NEW t \in Turns, PersistTerminal(r, t)
    PROVE  Kept
  <1> DEFINE d      == drv[r][t]
             drafts == IF IsTerminalTurn(Snapshot(r), t) THEN <<>> ELSE <<TerminalEvent(r, t, d)>>
             s      == d.expected - 1
  <1>1. d \in Driver /\ Done(d) \in Driver /\ Done(d).pc \in Admission
    BY DriverTyped, DoneType DEF Admission
  <1>2. d.pc \notin Admission BY DEF PersistTerminal, At, Admission
  <1>3. t \in Latest.begun BY <1>2, DriverBegun
  <1>4. drafts = <<>> \/ (drafts \in Drafts /\ TurnDrafts(t, drafts))
    BY <1>1, TerminalEventFits
  <1>5. Fits(r, drafts) BY <1>3, <1>4, TurnDraftsFit DEF Fits, IInv, DataOK
  <1>6. s \in Sequence BY <1>1 DEF Driver, Sequence, NoFrame
  <1>7. UNCHANGED <<stopped, asked, life, remote>> BY DEF PersistTerminal
  <1>8. \/ /\ Stored(r, "turn", t, drafts) /\ Wake(r) /\ UNCHANGED spent
            /\ proto' = [proto EXCEPT ![r] = [u \in Turns |->
                  IF u = t THEN [Remembered(r, u) EXCEPT !.safe = s] ELSE Remembered(r, u)]]
            /\ Drive(r, t, Done(d))
        \/ RebaseTurn(r, t, drafts)
        \/ ThrowTurn(r, t, drafts, Done(d))
        \/ /\ Release(r) /\ Drive(r, t, Done(d)) /\ UNCHANGED <<log, rev, meta, proto, can>>
           /\ Spend("badCheckpoint") \/ UNCHANGED spent
    BY DEF PersistTerminal
  <1> HIDE DEF drafts, s
  <1>9. CASE /\ Stored(r, "turn", t, drafts) /\ Wake(r) /\ UNCHANGED spent
             /\ proto' = [proto EXCEPT ![r] = [u \in Turns |->
                  IF u = t THEN [Remembered(r, u) EXCEPT !.safe = s] ELSE Remembered(r, u)]]
             /\ Drive(r, t, Done(d))
    <2>1. DataOK' /\ LogGrowth /\ CancelsOK
      <3>1. proto' = [proto EXCEPT ![r] = [u \in Turns |->
              IF u = t /\ TRUE THEN [Remembered(r, u) EXCEPT !.safe = s] ELSE Remembered(r, u)]]
        BY <1>9
      <3> QED BY <1>5, <1>6, <1>9, <3>1, StoredSafeOK
    <2>2. DriversOK BY <1>1, <1>9, DriveOK
    <2> QED BY <1>7, <2>1, <2>2, Combine, RestUnchanged
  <1>10. CASE RebaseTurn(r, t, drafts)
    BY <1>7, <1>10, RebaseTurnOK, StillOK, Combine, RestUnchanged
  <1>11. CASE ThrowTurn(r, t, drafts, Done(d))
    <2>1. DataOK' /\ LogGrowth /\ CancelsOK /\ Drive(r, t, Done(d))
      BY <1>5, <1>11, ThrowTurnOK
    <2>2. DriversOK BY <1>1, <2>1, DriveOK
    <2> QED BY <1>7, <2>1, <2>2, Combine, RestUnchanged
  <1>12. CASE /\ Release(r) /\ Drive(r, t, Done(d)) /\ UNCHANGED <<log, rev, meta, proto, can>>
              /\ Spend("badCheckpoint") \/ UNCHANGED spent
    <2>1. spent' \in [faults : Nat, resumes : Nat] BY <1>12, SpendType, SameTypes DEF IInv
    <2> QED BY <1>7, <1>12, <2>1, GiveUpOK
  <1> QED BY <1>8, <1>9, <1>10, <1>11, <1>12

------------------------------------------------
\* The caller's other operations.

\* The log holds every turn that a snapshot knows.
LEMMA KnownTurn ==
    ASSUME IInv, NEW r \in Runtimes, NEW t \in Turns, Snapshot(r).status[t] # "absent"
    PROVE  t \in Latest.begun
  BY SnapshotGood DEF IInv, GoodState

LEMMA SpendCallType ==
    ASSUME IInv, SpendCall PROVE spent' \in [faults : Nat, resumes : Nat]
  BY SameTypes DEF SpendCall

\* A call that changes a driver, stoppedTurns and the cancellations only.
LEMMA CallOK ==
    ASSUME IInv, NEW r \in Runtimes, NEW t \in Turns, NEW d \in Driver,
           t \in Latest.begun, Drive(r, t, d),
           UNCHANGED <<log, rev, meta, proto, lock, life, remote>>,
           spent' \in [faults : Nat, resumes : Nat],
           can' \in [Runtimes -> [Turns -> CancelPc]],
           \A q \in Runtimes, u \in Turns :
               can'[q][u] # "off" => can[q][u] # "off" \/ u = t,
           stopped' \in [Runtimes -> SUBSET Turns], asked' \in [Runtimes -> SUBSET Turns]
    PROVE  Kept
  <1>1. LogOK' /\ LogGrowth /\ Latest' = Latest BY LogStays DEF IInv, DataOK
  <1>2. Bounds' BY DEF IInv, DataOK, Bounds
  <1>3. DataOK' BY <1>1, <1>2 DEF IInv, DataOK
  <1>4. CancelsOK BY <1>1 DEF CancelsOK
  <1>5. RestOK BY DEF RestOK, IInv, Shapes
  <1>6. DriversOK BY <1>1, DriveOK
  <1> QED BY <1>1, <1>3, <1>4, <1>5, <1>6, Combine

LEMMA ResumeTurnOK ==
    ASSUME IInv, NEW r \in Runtimes, NEW t \in Turns, ResumeTurn(r, t)
    PROVE  Kept
  <1> DEFINE d == IF Running(r, t) THEN drv[r][t]
                  ELSE [Idle EXCEPT !.pc = "attempt", !.mode = "resume"]
  <1>1. d \in Driver
    <2>1. [Idle EXCEPT !.pc = "attempt", !.mode = "resume"] \in Driver
      BY DEF Idle, Driver, Pc
    <2> QED BY <2>1, DriverTyped
  <1>2. t \in Latest.begun BY KnownTurn DEF ResumeTurn, IsOpenTurn, OpenStatus
  <1>3. Drive(r, t, d) BY DEF ResumeTurn
  <1>4. stopped' \in [Runtimes -> SUBSET Turns] /\ asked' \in [Runtimes -> SUBSET Turns]
    BY DEF ResumeTurn, IInv, Shapes
  <1>5. spent' \in [faults : Nat, resumes : Nat] BY SpendCallType DEF ResumeTurn
  <1>6. can' \in [Runtimes -> [Turns -> CancelPc]] /\ UNCHANGED can
    BY DEF ResumeTurn, IInv, DataOK
  <1> HIDE DEF d
  <1> QED BY <1>1, <1>2, <1>3, <1>4, <1>5, <1>6, CallOK DEF ResumeTurn

LEMMA StopObservingOK ==
    ASSUME IInv, NEW r \in Runtimes, NEW t \in Turns, StopObserving(r, t)
    PROVE  Kept
  <1>1. Detach(r, t) \in Driver BY DetachType
  <1>2. t \in Latest.begun BY DEF StopObserving, IInv, OpsBegun
  <1>3. stopped' \in [Runtimes -> SUBSET Turns] /\ asked' \in [Runtimes -> SUBSET Turns]
    BY DEF StopObserving, IInv, Shapes
  <1>4. spent' \in [faults : Nat, resumes : Nat] BY SpendCallType DEF StopObserving
  <1>5. can' \in [Runtimes -> [Turns -> CancelPc]] /\ UNCHANGED can
    BY DEF StopObserving, IInv, DataOK
  <1> QED BY <1>1, <1>2, <1>3, <1>4, <1>5, CallOK DEF StopObserving

LEMMA CancelTurnOK ==
    ASSUME IInv, NEW r \in Runtimes, NEW t \in Turns, CancelTurn(r, t)
    PROVE  Kept
  <1>1. PICK next \in {"over", "preflight", "unsupported", "request"} :
          /\ can' = [can EXCEPT ![r][t] = next]
          /\ asked' = IF next \in {"preflight", "request"}
                       THEN [asked EXCEPT ![r] = @ \cup {t}] ELSE asked
          /\ Drive(r, t, IF next = "preflight"
                         THEN [drv[r][t] EXCEPT !.aborted = TRUE] ELSE drv[r][t])
    BY DEF CancelTurn
  <1> DEFINE d == IF next = "preflight" THEN [drv[r][t] EXCEPT !.aborted = TRUE] ELSE drv[r][t]
  <1>2. d \in Driver
    <2>0. drv[r][t] \in Driver BY DriverTyped
    <2>1. [drv[r][t] EXCEPT !.aborted = TRUE] \in Driver BY <2>0 DEF Driver
    <2> QED BY <2>1, DriverTyped
  <1>3. t \in Latest.begun BY KnownTurn DEF CancelTurn
  <1>4. can \in [Runtimes -> [Turns -> CancelPc]] /\ next \in CancelPc
    BY DEF IInv, DataOK, CancelPc
  <1>5. /\ can' \in [Runtimes -> [Turns -> CancelPc]]
        /\ \A q \in Runtimes, u \in Turns :
             can'[q][u] # "off" => can[q][u] # "off" \/ u = t
    BY <1>1, <1>4
  <1>6. stopped' \in [Runtimes -> SUBSET Turns] /\ asked' \in [Runtimes -> SUBSET Turns]
    BY <1>1 DEF CancelTurn, IInv, Shapes
  <1>7. spent' \in [faults : Nat, resumes : Nat] BY SameTypes DEF CancelTurn
  <1>8. Drive(r, t, d) BY <1>1
  <1> HIDE DEF d
  <1> QED BY <1>2, <1>3, <1>5, <1>6, <1>7, <1>8, CallOK DEF CancelTurn

\* The persistence of a cancellation step.
LEMMA PersistCancelOK ==
    ASSUME IInv, NEW r \in Runtimes, NEW t \in Turns, NEW drafts, NEW ok \in CancelPc,
           can[r][t] # "off", drafts \in Drafts, TurnDrafts(t, drafts),
           PersistCancel(r, t, drafts, ok)
    PROVE  DataOK' /\ LogGrowth /\ CancelsOK
  <1>0. DataOK /\ can \in [Runtimes -> [Turns -> CancelPc]] BY DEF IInv, DataOK
  <1>1. t \in Latest.begun BY DEF IInv, OpsBegun
  <1>2. Fits(r, drafts) BY <1>1, TurnDraftsFit DEF Fits, IInv, DataOK
  <1>3. CASE /\ Stored(r, "cancel", t, drafts) /\ RememberApplied(r) /\ UNCHANGED spent
             /\ can' = [can EXCEPT ![r] = [Notified(r, Snapshot(r)') EXCEPT ![t] = ok]]
    <2>1. StoreOK /\ rev'[r] <= Len(log') BY <1>0, <1>2, <1>3, StoredOK
    <2>2. proto' \in [Runtimes -> [Turns -> Protocol]]
      BY <1>0, <1>3, <2>1, RememberAppliedType DEF StoreOK, LogOK
    <2> DEFINE n == Notified(r, Snapshot(r)')
    <2>3. \A st, u : Inspect(r, u, st) \in {"send", "over", "wait"} BY DEF Inspect
    <2>4. n \in [Turns -> CancelPc] /\ \A u \in Turns : n[u] # "off" => can[r][u] # "off"
      BY <1>0, <2>3 DEF Notified, CancelPc
    <2> HIDE DEF n
    <2>5. can' = [can EXCEPT ![r] = [n EXCEPT ![t] = ok]] BY <1>3 DEF n
    <2>6. can' \in [Runtimes -> [Turns -> CancelPc]] /\ CancelsOK
      BY <1>0, <2>4, <2>5 DEF CancelsOK
    <2> QED BY <1>0, <1>3, <2>1, <2>2, <2>6 DEF StoreOK, DataOK
  <1>4. CASE Rebased(r, "cancel", t, drafts) /\ RememberApplied(r) /\ Wake(r)
    <2>1. StoreOK /\ rev'[r] = Len(log') /\ spent' = spent BY <1>0, <1>4, RebasedOK
    <2>2. rev'[r] <= Len(log') BY <2>1 DEF StoreOK, LogOK
    <2>3. spent' \in [faults : Nat, resumes : Nat] BY <2>1, SameTypes
    <2> QED BY <1>4, <2>1, <2>2, <2>3, ApplyData
  <1>5. CASE /\ Thrown(r, "cancel", t, drafts) /\ UNCHANGED proto
             /\ can' = [can EXCEPT ![r][t] = "done"]
    <2>1. StoreOK /\ spent' \in [faults : Nat, resumes : Nat] BY <1>0, <1>2, <1>5, ThrownOK
    <2>2. can' \in [Runtimes -> [Turns -> CancelPc]] /\ CancelsOK
      BY <1>0, <1>5 DEF CancelsOK, CancelPc
    <2> QED BY <1>0, <1>5, <2>1, <2>2 DEF StoreOK, DataOK
  <1> QED BY <1>3, <1>4, <1>5 DEF PersistCancel

LEMMA CancelPreflightOK ==
    ASSUME IInv, NEW r \in Runtimes, NEW t \in Turns, CancelPreflight(r, t)
    PROVE  Kept
  <1> DEFINE a == NewEvent("turn.cancellation_requested", t)
             b == NewEvent("turn.cancelled", t)
  <1>1. "turn.cancellation_requested" \in Kinds /\ "turn.cancelled" \in Kinds
    BY DEF Kinds, CancelKind, TerminalKind
  <1>2. /\ a \in Event /\ a.turn = t /\ a.kind = "turn.cancellation_requested"
        /\ b \in Event /\ b.turn = t /\ b.kind = "turn.cancelled"
    BY <1>1, NewEventType
  <1>3. can[r][t] # "off" /\ PersistCancel(r, t, <<a, b>>, "over") BY DEF CancelPreflight
  <1> HIDE DEF a, b
  <1>4. <<a, b>> \in Drafts /\ TurnDrafts(t, <<a, b>>) BY <1>2 DEF Drafts, TurnDrafts
  <1>5. "over" \in CancelPc BY DEF CancelPc
  <1>6. DataOK' /\ LogGrowth /\ CancelsOK BY <1>3, <1>4, <1>5, PersistCancelOK
  <1> QED BY <1>6, StillOK, Combine, RestUnchanged DEF CancelPreflight

LEMMA CancelUnsupportedOK ==
    ASSUME IInv, NEW r \in Runtimes, NEW t \in Turns, CancelUnsupported(r, t)
    PROVE  Kept
  <1>1. "turn.cancellation_unsupported" \in Kinds \ {"message.created", "turn.started"}
    BY DEF Kinds, CancelKind
  <1>2. "done" \in CancelPc /\ can[r][t] # "off" BY DEF CancelPc, CancelUnsupported
  <1>3. DataOK' /\ LogGrowth /\ CancelsOK
    BY <1>1, <1>2, NewDraft, PersistCancelOK DEF CancelUnsupported
  <1>4. t \in Latest'.begun BY <1>2, <1>3 DEF IInv, OpsBegun, LogGrowth
  <1>5. CASE /\ Drive(r, t, Detach(r, t))
             /\ stopped' = [stopped EXCEPT ![r] = @ \cup {t}]
    <2>1. DriversOK BY <1>4, <1>5, DetachType, DriveOK
    <2>2. RestOK BY <1>5 DEF RestOK, CancelUnsupported, IInv, Shapes
    <2> QED BY <1>3, <2>1, <2>2, Combine
  <1>6. CASE UNCHANGED <<drv, stopped>>
    BY <1>3, <1>6, StillOK, Combine, RestUnchanged DEF CancelUnsupported
  <1> QED BY <1>5, <1>6 DEF CancelUnsupported

LEMMA RequestCancellationOK ==
    ASSUME IInv, NEW r \in Runtimes, NEW t \in Turns, RequestCancellation(r, t)
    PROVE  Kept
  <1> DEFINE ok == IF proto'[r][t].transportId THEN "send"
                   ELSE IF ~IsOpenTurn(Snapshot(r)', t) THEN "over" ELSE "wait"
  <1>1. "turn.cancellation_requested" \in Kinds \ {"message.created", "turn.started"}
    BY DEF Kinds, CancelKind
  <1>2. ok \in CancelPc /\ can[r][t] # "off" BY DEF CancelPc, RequestCancellation
  <1>3. PersistCancel(r, t, <<NewEvent("turn.cancellation_requested", t)>>, ok)
    BY DEF RequestCancellation
  <1> HIDE DEF ok
  <1>4. DataOK' /\ LogGrowth /\ CancelsOK
    BY <1>1, <1>2, <1>3, NewDraft, PersistCancelOK
  <1> QED BY <1>4, StillOK, Combine, RestUnchanged DEF RequestCancellation

LEMMA SendCancellationOK ==
    ASSUME IInv, NEW r \in Runtimes, NEW t \in Turns, SendCancellation(r, t)
    PROVE  Kept
  <1>1. LogOK' /\ LogGrowth /\ Latest' = Latest
    BY LogStays DEF SendCancellation, IInv, DataOK
  <1>2. can \in [Runtimes -> [Turns -> CancelPc]] /\ can[r][t] # "off"
    BY DEF IInv, DataOK, SendCancellation
  <1>3. PICK c \in {"over", "done"} : can' = [can EXCEPT ![r][t] = c]
    BY DEF SendCancellation
  <1>4. can' \in [Runtimes -> [Turns -> CancelPc]] /\ CancelsOK
    BY <1>2, <1>3 DEF CancelsOK, CancelPc
  <1>5. spent' \in [faults : Nat, resumes : Nat]
    BY SpendType, SameTypes DEF SendCancellation, IInv
  <1>6. DataOK'
    <2>1. Bounds' BY DEF SendCancellation, IInv, DataOK, Bounds
    <2> QED BY <1>1, <1>4, <1>5, <2>1 DEF SendCancellation, IInv, DataOK
  <1>7. RestOK
    <2>1. CASE remote' = [remote EXCEPT ![t].cancel = TRUE]
      <3>0. remote[t] \in Remote BY SameTypes
      <3>1. [remote[t] EXCEPT !.cancel = TRUE] \in Remote BY <3>0 DEF Remote
      <3>2. [remote[t] EXCEPT !.cancel = TRUE].started = remote[t].started
        BY <3>0 DEF Remote
      <3>3. /\ remote' \in [Turns -> Remote]
            /\ \A u \in Turns : remote'[u].started => remote[u].started
        BY <2>1, <3>1, <3>2, SameTypes
      <3> QED BY <3>3 DEF RestOK, SendCancellation, IInv, Shapes
    <2>2. CASE UNCHANGED remote BY <2>2, RestUnchanged DEF SendCancellation
    <2> QED BY <2>1, <2>2 DEF SendCancellation
  <1>8. DriversOK BY StillOK DEF SendCancellation
  <1> QED BY <1>1, <1>4, <1>6, <1>7, <1>8, Combine

------------------------------------------------
\* Synchronization, restarts and the remote.

LEMMA SynchronizeOK ==
    ASSUME IInv, NEW r \in Runtimes, Synchronize(r)
    PROVE  Kept
  <1>1. lock' \in [Runtimes -> Boundary] /\ spent' \in [faults : Nat, resumes : Nat]
    BY DEF Synchronize, IInv, DataOK
  <1>2. DataOK' /\ LogGrowth /\ CancelsOK BY <1>1, CatchUpOK DEF Synchronize
  <1> DEFINE next(t) == IF Observing(r, t) /\ IsTerminalTurn(Latest, t)
                        THEN [drv[r][t] EXCEPT !.disconnected = TRUE] ELSE drv[r][t]
  <1>3. \A t \in Turns : next(t) \in Driver /\ next(t).pc = drv[r][t].pc
    <2> SUFFICES ASSUME NEW d \in Driver
                 PROVE  [d EXCEPT !.disconnected = TRUE] \in Driver
                        /\ [d EXCEPT !.disconnected = TRUE].pc = d.pc
      BY DriverTyped
    <2> QED BY DEF Driver
  <1>4. drv' = [drv EXCEPT ![r] = [t \in Turns |-> next(t)]] BY DEF Synchronize, IInv, Shapes
  <1> HIDE DEF next
  <1>5. drv \in [Runtimes -> [Turns -> Driver]] BY DEF IInv, Shapes
  <1>6. /\ drv' \in [Runtimes -> [Turns -> Driver]]
        /\ \A q \in Runtimes, u \in Turns : drv'[q][u].pc = drv[q][u].pc
    BY <1>3, <1>4, <1>5
  <1>7. DriversOK BY <1>6 DEF DriversOK, Running, Admission
  <1> QED BY <1>2, <1>7, Combine, RestUnchanged DEF Synchronize

LEMMA CrashOK ==
    ASSUME IInv, NEW r \in Runtimes, Crash(r)
    PROVE  Kept
  <1>1. LogOK' /\ LogGrowth /\ Latest' = Latest BY LogStays DEF Crash, IInv, DataOK
  <1>2. lock' \in [Runtimes -> Boundary] BY ReleaseType DEF Crash, IInv
  <1>3. spent' \in [faults : Nat, resumes : Nat] BY SpendType DEF Crash, IInv
  <1>4. can' \in [Runtimes -> [Turns -> CancelPc]] /\ CancelsOK
    BY DEF Crash, IInv, DataOK, CancelsOK, CancelPc
  <1>5. DataOK'
    <2>1. Bounds' BY DEF Crash, IInv, DataOK, Bounds
    <2> QED BY <1>1, <1>2, <1>3, <1>4, <2>1 DEF Crash, IInv, DataOK
  <1>6. DriversOK
    <2>1. drv \in [Runtimes -> [Turns -> Driver]] BY DEF IInv, Shapes
    <2>2. drv' = [drv EXCEPT ![r] = [t \in Turns |-> Idle]] BY DEF Crash
    <2> QED BY <2>1, <2>2, IdleType DEF DriversOK, Running, Admission
  <1>7. /\ remote' \in [Turns -> Remote]
        /\ \A u \in Turns : remote'[u].started => remote[u].started \/ u \in Latest'.begun
    <2>1. CASE UNCHANGED remote BY <2>1, SameTypes
    <2>2. CASE \E t \in Turns : drv[r][t].pc = "inflight" /\ RunRemotely(t)
      <3>1. PICK t \in Turns : drv[r][t].pc = "inflight" /\ RunRemotely(t) BY <2>2
      <3>2. t \in Latest.begun BY <3>1, DriverBegun DEF Admission
      <3> QED BY <1>1, <3>1, <3>2, RunRemotelyType
    <2> QED BY <2>1, <2>2 DEF Crash
  <1>8. RestOK BY <1>7 DEF RestOK, Crash, IInv, Shapes
  <1> QED BY <1>1, <1>4, <1>5, <1>6, <1>8, Combine

LEMMA RestartOK ==
    ASSUME IInv, NEW r \in Runtimes, Restart(r) \/ Hydrate(r)
    PROVE  Kept
  <1>1. LogOK' /\ LogGrowth /\ Latest' = Latest
    BY LogStays DEF Restart, Hydrate, IInv, DataOK
  <1>2. log' = log /\ Len(log) \in Nat BY <1>1 DEF Restart, Hydrate, IInv, DataOK, LogOK
  <1>3. rev' \in [Runtimes -> Nat] /\ meta' \in [Runtimes -> Nat] /\ Bounds'
    <2>1. rev \in [Runtimes -> Nat] /\ meta \in [Runtimes -> Nat] /\ Bounds
      BY DEF IInv, DataOK
    <2>2. CASE Restart(r) BY <1>2, <2>1, <2>2 DEF Restart, Bounds
    <2>3. CASE Hydrate(r) BY <1>2, <2>1, <2>3 DEF Hydrate, Bounds
    <2> QED BY <2>2, <2>3
  <1>4. proto' \in [Runtimes -> [Turns -> Protocol]]
    <2>1. CASE Restart(r) BY <2>1, SameTypes DEF Restart
    <2>2. CASE Hydrate(r)
      <3>1. NewProtocol \in Protocol BY DEF NewProtocol, Protocol, Sequence, NoFrame
      <3>2. log \in Seq(Entry) BY DEF IInv, DataOK, LogOK
      <3>3. \A t \in Turns : Remember(NewProtocol, t, log, 0, Len(log)) \in Protocol
        BY <1>2, <3>1, <3>2, RememberType
      <3> QED BY <2>2, <3>3, SameTypes DEF Hydrate
    <2> QED BY <2>1, <2>2
  <1>5. DataOK' /\ CancelsOK
    BY <1>1, <1>3, <1>4 DEF Restart, Hydrate, IInv, DataOK, CancelsOK
  <1>6. RestOK BY DEF RestOK, Restart, Hydrate, IInv, Shapes
  <1>7. DriversOK BY StillOK DEF Restart, Hydrate
  <1> QED BY <1>1, <1>5, <1>6, <1>7, Combine

LEMMA RemoteEndsOK ==
    ASSUME IInv, NEW t \in Turns, RemoteEnds(t)
    PROVE  Kept
  <1>1. DataOK' /\ LogGrowth /\ CancelsOK BY LocalOK, SameTypes DEF RemoteEnds
  <1>2. PICK end \in Outcomes \cup {"cancelled"}, n \in 1..Len(Script) :
          remote' = [remote EXCEPT ![t].end = end, ![t].produced = n]
    BY DEF RemoteEnds
  <1>3. end \in {"completed", "toolCalls", "cancelled", "error"} /\ n \in Nat
    BY ConstantsAssumption
  <1>4. remote[t] \in Remote BY SameTypes
  <1> DEFINE x == [remote[t] EXCEPT !.end = end, !.produced = n]
  <1>5. x \in Remote /\ x.started = remote[t].started BY <1>3, <1>4 DEF Remote
  <1>6. remote' = [remote EXCEPT ![t] = x] BY <1>2, SameTypes
  <1> HIDE DEF x
  <1>7. /\ remote' \in [Turns -> Remote]
        /\ \A u \in Turns : remote'[u].started => remote[u].started
    BY <1>5, <1>6, SameTypes
  <1>8. RestOK BY <1>7 DEF RestOK, RemoteEnds, IInv, Shapes
  <1>9. DriversOK BY StillOK DEF RemoteEnds
  <1> QED BY <1>1, <1>8, <1>9, Combine

LEMMA StutterOK == ASSUME IInv, UNCHANGED vars PROVE Kept
  <1> USE DEF vars
  <1>1. DataOK' /\ LogGrowth /\ CancelsOK BY LocalOK, SameTypes
  <1> QED BY <1>1, StillOK, Combine, RestUnchanged

------------------------------------------------
\* The invariant.

LEMMA InitOK == Init => IInv
  <1> SUFFICES ASSUME Init PROVE IInv OBVIOUS
  <1> USE DEF Init
  <1>1. log \in Seq(Entry) /\ Len(log) = 0 /\ Latest = InitialState BY DEF Latest
  <1>2. LogOK BY <1>1 DEF LogOK, GoodLog, BegunKept, ClosedKept
  <1>3. Bounds
    <2> SUFFICES ASSUME NEW r \in Runtimes PROVE rev[r] <= Len(log) /\ meta[r] <= Len(log)
      BY DEF Bounds
    <2>1. rev[r] = 0 /\ meta[r] = 0 OBVIOUS
    <2>2. 0 <= Len(log) BY <1>1
    <2> QED BY <2>1, <2>2
  <1>4. NewProtocol \in Protocol BY DEF NewProtocol, Protocol, Sequence, NoFrame
  <1>5. FreeBoundary \in Boundary BY DEF FreeBoundary, Boundary
  <1>6. DataOK BY <1>2, <1>3, <1>4, <1>5 DEF DataOK, CancelPc
  <1>7. Shapes BY IdleType DEF Shapes, Remote
  <1>8. OpsBegun BY IdleType DEF OpsBegun, Running
  <1>9. DurableBeforeRemote BY DEF DurableBeforeRemote
  <1> QED BY <1>6, <1>7, <1>8, <1>9 DEF IInv

\* Every step keeps the inductive invariant, and the log only grows.
LEMMA NextOK == IInv /\ [Next]_vars => Kept
  <1> SUFFICES ASSUME IInv, [Next]_vars PROVE Kept OBVIOUS
  <1>1. ASSUME NEW r \in Runtimes, NEW t \in Turns, DriverStep(r, t) PROVE Kept
    BY <1>1, AdmissionCatchUpOK, AdmitTurnOK, AdmissionBusyOK, StartAttemptOK, AbortOK,
       StartCallOK, StartReplyOK, QueueTurnOK, ResumeCallOK, ReceiveFrameOK, ProjectFrameOK,
       StreamEndsOK, LinkReceiptOK, SettleObservationOK, PersistCheckpointOK,
       PersistTerminalOK, ScheduleRetryOK, ExhaustRetriesOK, FailTurnOK
       DEF DriverStep
  <1>2. ASSUME NEW r \in Runtimes, NEW t \in Turns, CancelStep(r, t) PROVE Kept
    BY <1>2, CancelPreflightOK, CancelUnsupportedOK, RequestCancellationOK, SendCancellationOK
       DEF CancelStep
  <1>3. ASSUME NEW r \in Runtimes, NEW t \in Turns, CallerStep(r, t) PROVE Kept
    <2>1. CASE SendMessage(r, t) BY <2>1, BeginAdmissionOK DEF SendMessage
    <2>2. CASE \E p \in Turns : ContinueTurn(r, t, p)
      BY <2>2, BeginAdmissionOK DEF ContinueTurn
    <2> QED BY <1>3, <2>1, <2>2, ResumeTurnOK, StopObservingOK, CancelTurnOK DEF CallerStep
  <1>4. ASSUME NEW r \in Runtimes, NEW t \in Turns, FaultStep(r, t) PROVE Kept
    BY <1>4, StartRejectedOK, InvalidHandleOK, ResumeRejectedOK, StreamEndsOK DEF FaultStep
  <1>5. ASSUME NEW r \in Runtimes, Synchronize(r) \/ Crash(r) \/ Restart(r) \/ Hydrate(r)
        PROVE  Kept
    BY <1>5, SynchronizeOK, CrashOK, RestartOK
  <1>6. ASSUME NEW t \in Turns, RemoteEnds(t) PROVE Kept
    BY <1>6, RemoteEndsOK
  <1>7. CASE UNCHANGED vars BY <1>7, StutterOK
  <1> QED BY <1>1, <1>2, <1>3, <1>4, <1>5, <1>6, <1>7 DEF Next

\* What the inductive invariant implies.
LEMMA Implied == IInv => TypeOK /\ SingleActiveTurn /\ DurableBeforeRemote
  <1> SUFFICES ASSUME IInv PROVE TypeOK /\ SingleActiveTurn BY DEF IInv
  <1>1. TypeOK BY DEF IInv, DataOK, LogOK, Shapes, TypeOK, Entry
  <1>2. SingleActiveTurn BY LatestGood DEF IInv, DataOK, GoodState, SingleActiveTurn
  <1> QED BY <1>1, <1>2

\* The inductive invariant holds in every behaviour of the runtimes.
THEOREM InvariantHolds == Spec => []IInv
  <1>1. IInv /\ [Next]_vars => IInv' BY NextOK DEF Kept
  <1> QED BY <1>1, InitOK, PTL DEF Spec

\* Every variable of the runtimes, the log and the remote keeps its type.
THEOREM TypesHold == Spec => []TypeOK
  <1>1. IInv => TypeOK BY Implied
  <1> QED BY <1>1, InvariantHolds, PTL

\* persistAdmittedTurn: however many runtimes admit turns at the same time,
\* at most one turn of the log is open and it is the active one.
THEOREM OneActiveTurn == Spec => []SingleActiveTurn
  <1>1. IInv => SingleActiveTurn BY Implied
  <1> QED BY <1>1, InvariantHolds, PTL

\* startPersistedTurn: the transport is asked to run a turn only after the
\* log holds it, whatever fails, crashes or is retried.
THEOREM RemoteIsDurable == Spec => []DurableBeforeRemote
  <1>1. IInv => DurableBeforeRemote BY Implied
  <1> QED BY <1>1, InvariantHolds, PTL

\* The log is append-only and terminal statuses are final: an event that
\* reaches a closed turn does not reopen it or close it differently.
THEOREM TerminalIsFinal == Spec => LogGrows
  <1> DEFINE Growth == /\ Len(log) <= Len(log')
                       /\ \A i \in 1..Len(log) : log'[i] = log[i]
                       /\ \A t \in Turns : IsTerminalTurn(Latest, t) =>
                             Latest.status[t] = Latest.status[t]'
  <1>1. LogGrowth => Growth BY DEF LogGrowth
  <1>2. IInv /\ [Next]_vars => [Growth]_vars BY <1>1, NextOK DEF Kept
  <1>3. Spec => [][Growth]_vars BY <1>2, InvariantHolds, PTL DEF Spec
  <1> QED BY <1>3 DEF LogGrows
================================================
