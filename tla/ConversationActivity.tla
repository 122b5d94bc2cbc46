---------------- MODULE ConversationActivity ----------------
(***************************************************************************)
(* What the launcher shows of a conversation that may be running elsewhere *)
(* (conversation/activity.ts): server workers reconcile the durable turn   *)
(* into an activity record (server/assistant.ts, reconcileFor) with a      *)
(* compare-and-set loop (postgres/index.ts, PostgresConversationActivity-  *)
(* Store), publish it live (in-memory delivery bridged by postgres/        *)
(* live-pubsub.ts), and a client merges the live stream with a poll of the *)
(* store.                                                                  *)
(*                                                                         *)
(* One conversation, turns in the order they were admitted.  A worker      *)
(* waits between reading the turn, writing the record and publishing it.   *)
(* The live bridge may delay, reorder or lose a record; a poll answer is   *)
(* as old as the moment the server read it.  Every record has the turn and *)
(* the position reconcileFor gives it; records of a plain reporter, which  *)
(* may lack both, and remove() are left out.                               *)
(***************************************************************************)
EXTENDS Naturals, FiniteSets

CONSTANTS
    Workers,       \* server workers that reconcile
    MaxTurns,      \* bound: turns admitted
    MaxReconciles  \* bound: reconciliations of each worker

VARIABLES
    turn,      \* external: the conversation's last turn and its durable status
    stored,    \* the activity record in the store
    worker,    \* each worker's reconciliation
    wire,      \* published records not yet delivered or lost
    shown,     \* the client's record
    poll,      \* the client's poll: whether it waits, what the server read, live updates since
    live       \* whether the live subscription is open

activityVars == <<turn, stored, worker, wire, shown, poll, live>>

NoRecord == [turn |-> 0, status |-> "idle", unread |-> FALSE]
Finished == {"completed", "error"}
NoPoll == [phase |-> "idle", read |-> NoRecord, updated |-> FALSE]

\* retainConversationActivity: the record a reader keeps of two.
Retain(current, incoming) ==
    IF current = NoRecord THEN incoming
    ELSE IF current.turn > incoming.turn THEN current
    ELSE IF current.turn = incoming.turn /\ current.status \in Finished
         THEN IF incoming.status = current.status /\ current.unread /\ ~incoming.unread
              THEN incoming ELSE current
    ELSE incoming

(***************************************************************************)
(* The server.                                                             *)
(***************************************************************************)
TurnAdmitted ==
    /\ turn.number < MaxTurns /\ turn.status # "running"
    /\ turn' = [number |-> turn.number + 1, status |-> "running"]
    /\ UNCHANGED <<stored, worker, wire, shown, poll, live>>

TurnFinished ==
    /\ turn.status = "running"
    /\ \E s \in Finished : turn' = [turn EXCEPT !.status = s]
    /\ UNCHANGED <<stored, worker, wire, shown, poll, live>>

\* reconcileFor reads the durable turn; nothing to do when the record tells it.
ReconcileReads(w) ==
    /\ worker[w].phase = "idle" /\ worker[w].runs < MaxReconciles /\ turn.number > 0
    /\ ~(stored.turn = turn.number /\ stored.status = turn.status)
    /\ worker' = [worker EXCEPT ![w] = [phase |-> "upsert", runs |-> @.runs + 1,
           record |-> [turn |-> turn.number, status |-> turn.status,
                       unread |-> turn.status # "running"]]]
    /\ UNCHANGED <<turn, stored, wire, shown, poll, live>>

\* upsert: the compare-and-set loop settles on the retained record, which is
\* what the worker publishes.
ReconcileWrites(w) ==
    /\ worker[w].phase = "upsert"
    /\ stored' = Retain(stored, worker[w].record)
    /\ worker' = [worker EXCEPT ![w].phase = "publish", ![w].record = stored']
    /\ UNCHANGED <<turn, wire, shown, poll, live>>

Publish(w) ==
    /\ worker[w].phase = "publish"
    /\ wire' = wire \cup {worker[w].record}
    /\ worker' = [worker EXCEPT ![w].phase = "idle"]
    /\ UNCHANGED <<turn, stored, shown, poll, live>>

MarkReadStored ==
    /\ stored.unread /\ ~shown.unread /\ shown.turn = stored.turn
    /\ stored' = [stored EXCEPT !.unread = FALSE]
    /\ UNCHANGED <<turn, worker, wire, shown, poll, live>>

(***************************************************************************)
(* The client.                                                             *)
(***************************************************************************)
\* start opens the live subscription; a stream that ends or fails stays
\* closed until start is called again, and the poll goes on.
StartLive == ~live /\ live' = TRUE /\ UNCHANGED <<turn, stored, worker, wire, shown, poll>>
LiveEnds == live /\ live' = FALSE /\ UNCHANGED <<turn, stored, worker, wire, shown, poll>>

LiveUpdate(r) ==
    /\ r \in wire
    /\ wire' = wire \ {r}
    /\ IF live
       THEN /\ shown' = Retain(shown, r)
            /\ poll' = [poll EXCEPT !.updated = @ \/ poll.phase # "idle"]
       ELSE UNCHANGED <<shown, poll>>
    /\ UNCHANGED <<turn, stored, worker, live>>

Refresh ==
    /\ poll.phase = "idle"
    /\ poll' = [NoPoll EXCEPT !.phase = "asked"]
    /\ UNCHANGED <<turn, stored, worker, wire, shown, live>>

Load ==
    /\ poll.phase = "asked"
    /\ poll' = [poll EXCEPT !.phase = "answered", !.read = stored]
    /\ UNCHANGED <<turn, stored, worker, wire, shown, live>>

\* Mutant: the answer replaces what is shown whatever arrived meanwhile.
ReplacedBlindly == IF poll.read = NoRecord THEN NoRecord ELSE Retain(shown, poll.read)

\* replace: a conversation updated live while the poll was pending keeps what
\* it shows; one the answer does not list goes.
Replaced ==
    IF poll.updated THEN shown
    ELSE IF poll.read = NoRecord THEN NoRecord
    ELSE Retain(shown, poll.read)

PollAnswered ==
    /\ poll.phase = "answered"
    /\ shown' = Replaced
    /\ poll' = NoPoll
    /\ UNCHANGED <<turn, stored, worker, wire, live>>

PollFails ==
    /\ poll.phase # "idle" /\ poll' = NoPoll
    /\ UNCHANGED <<turn, stored, worker, wire, shown, live>>

MarkRead ==
    /\ shown.unread /\ shown' = [shown EXCEPT !.unread = FALSE]
    /\ UNCHANGED <<turn, stored, worker, wire, poll, live>>

ActivityInit ==
    /\ turn = [number |-> 0, status |-> "idle"]
    /\ stored = NoRecord /\ wire = {} /\ shown = NoRecord /\ poll = NoPoll /\ live = FALSE
    /\ worker = [w \in Workers |-> [phase |-> "idle", runs |-> 0, record |-> NoRecord]]

ActivityNext ==
    \/ TurnAdmitted \/ TurnFinished \/ MarkReadStored
    \/ \E w \in Workers : ReconcileReads(w) \/ ReconcileWrites(w) \/ Publish(w)
    \/ StartLive \/ LiveEnds \/ Refresh \/ Load \/ PollAnswered \/ PollFails \/ MarkRead
    \/ \E r \in wire : LiveUpdate(r)

(***************************************************************************)
(* Properties.                                                             *)
(***************************************************************************)
Rank(r) == 2 * r.turn + (IF r.status \in Finished THEN 1 ELSE 0)

\* "Prevent delayed writers from reviving finished work or replacing a newer
\* turn" (activity.ts): neither the store nor what the client shows ever goes
\* back to an older turn or from finished to running, and work the user has
\* read never becomes unread again, whatever the live stream and the poll
\* deliver in whatever order.
ActivityForward ==
    [][/\ Rank(stored') >= Rank(stored)
       /\ Rank(shown') >= Rank(shown)
       /\ Rank(shown') = Rank(shown) /\ shown.turn > 0 => (shown'.unread => shown.unread)]_activityVars
================================================
