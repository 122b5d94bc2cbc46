---------------- MODULE ConversationReducer ----------------
(***************************************************************************)
(* The projection of a conversation's durable events, reduceConversation-  *)
(* Event of conversation/reducer.ts.  A turn record keeps what the runtime *)
(* reads back: its status, the state of a cancellation, the turn it        *)
(* continues, and whether turn.started introduced it.  Message content is  *)
(* the sequence of the frame numbers whose text was appended, so that a    *)
(* lost, repeated or reordered delta is visible; wording, attribution,     *)
(* timestamps and retry history are left out.                              *)
(***************************************************************************)
EXTENDS Integers, Sequences

CONSTANTS
    Runtimes,   \* the conversation runtimes (tabs, devices, workers)
    Turns,      \* the turn ids createId("turn") can return
    None        \* the null of the source

NoFrame  == -1  \* the sequence of an event that no stream frame caused
Sequence == Nat \cup {NoFrame}

TerminalStatus == {"completed", "cancelled", "failed"}
OpenStatus     == {"queued", "running"}
Status         == {"absent"} \cup OpenStatus \cup TerminalStatus

TerminalKind   == {"turn.completed", "turn.cancelled", "turn.failed"}
RetryKind      == {"turn.attempt_started", "turn.retry_scheduled", "turn.retry_exhausted"}
CancelKind     == {"turn.cancellation_requested", "turn.cancellation_unsupported"}
PlainKind      == {"message.created", "turn.started", "turn.status_changed",
                   "message.text_appended", "tool_call.requested", "usage.receipt_linked"}
Kinds          == PlainKind \cup RetryKind \cup CancelKind \cup TerminalKind

\* A message id is the runtime that minted it and the frame it minted it for.
MessageIds == Runtimes \X Sequence

Event == [kind : Kinds, turn : Turns, status : Status, continues : Turns \cup {None},
          seq : Sequence, message : MessageIds \cup {None}, toolCalls : BOOLEAN,
          transportId : BOOLEAN, resumeSafe : BOOLEAN, checkpoint : Nat]

\* An event with the metadata that rememberRuntimeMetadata ignores.
NewEvent(kind, t) ==
    [kind |-> kind, turn |-> t, status |-> "queued", continues |-> None,
     seq |-> NoFrame, message |-> None, toolCalls |-> FALSE,
     transportId |-> FALSE, resumeSafe |-> FALSE, checkpoint |-> 0]

\* ConversationState, reduced to the fields above.
State == [active : Turns \cup {None}, status : [Turns -> Status], begun : SUBSET Turns,
          continues : [Turns -> Turns \cup {None}], toolCalls : SUBSET Turns,
          cancellation : [Turns -> {"none", "requested", "unsupported", "cancelled"}],
          messages : [Turns -> SUBSET (MessageIds \cup {None})],
          text : [Turns -> Seq(Sequence)],
          calls : [Turns -> SUBSET Sequence], receipts : SUBSET Turns]

InitialState ==
    [active |-> None, status |-> [t \in Turns |-> "absent"], begun |-> {},
     continues |-> [t \in Turns |-> None], toolCalls |-> {},
     cancellation |-> [t \in Turns |-> "none"], messages |-> [t \in Turns |-> {}],
     text |-> [t \in Turns |-> <<>>], calls |-> [t \in Turns |-> {}], receipts |-> {}]

IsTerminalTurn(state, t) == state.status[t] \in TerminalStatus
IsOpenTurn(state, t)     == state.status[t] \in OpenStatus

ReduceTurnStarted(state, e) ==
    IF IsTerminalTurn(state, e.turn) \/ e.turn \in state.begun THEN state
    ELSE [state EXCEPT !.status[e.turn] = IF @ = "absent" THEN "queued" ELSE @,
                       !.continues[e.turn] = e.continues,
                       !.begun = @ \cup {e.turn},
                       !.active = e.turn]

ReduceStatusChanged(state, e) ==
    IF IsTerminalTurn(state, e.turn) THEN state
    ELSE [state EXCEPT !.status[e.turn] = e.status, !.active = e.turn]

AppendTurnRetryRecord(state, e) ==
    IF state.status[e.turn] # "absent" THEN state
    ELSE [state EXCEPT !.status[e.turn] = "queued", !.active = e.turn]

UpdateTurnCancellation(state, e) ==
    LET value == IF e.kind = "turn.cancellation_requested" THEN "requested" ELSE "unsupported"
    IN  IF IsTerminalTurn(state, e.turn) THEN state
        ELSE IF state.status[e.turn] = "absent"
        THEN [state EXCEPT !.status[e.turn] = "queued", !.active = e.turn,
                           !.cancellation[e.turn] = value]
        ELSE [state EXCEPT !.cancellation[e.turn] = value]

ClosedBy(kind) == CASE kind = "turn.completed" -> "completed"
                    [] kind = "turn.cancelled" -> "cancelled"
                    [] OTHER                   -> "failed"
TerminateTurn(state, e) ==
    IF IsTerminalTurn(state, e.turn) THEN state
    ELSE [state EXCEPT !.status[e.turn] = ClosedBy(e.kind),
                       !.cancellation[e.turn] = IF e.kind = "turn.cancelled"
                                                THEN "cancelled" ELSE @,
                       !.toolCalls = IF e.toolCalls THEN @ \cup {e.turn} ELSE @,
                       !.active = IF @ = e.turn THEN None ELSE @]

\* message.text_appended never looks at the turn's status.
AppendMessageText(state, e) ==
    [state EXCEPT !.messages[e.turn] = @ \cup {e.message},
                  !.text[e.turn] = Append(@, e.seq)]

RequestToolCall(state, e) ==
    IF IsTerminalTurn(state, e.turn) THEN state
    ELSE [state EXCEPT !.calls[e.turn] = @ \cup {e.seq}]

Reduce(state, e) ==
    CASE e.kind = "turn.started"          -> ReduceTurnStarted(state, e)
      [] e.kind = "turn.status_changed"   -> ReduceStatusChanged(state, e)
      [] e.kind \in RetryKind             -> AppendTurnRetryRecord(state, e)
      [] e.kind \in CancelKind            -> UpdateTurnCancellation(state, e)
      [] e.kind \in TerminalKind          -> TerminateTurn(state, e)
      [] e.kind = "message.text_appended" -> AppendMessageText(state, e)
      [] e.kind = "tool_call.requested"   -> RequestToolCall(state, e)
      [] e.kind = "usage.receipt_linked"  -> [state EXCEPT !.receipts = @ \cup {e.turn}]
      [] e.kind = "message.created"       -> state
================================================
