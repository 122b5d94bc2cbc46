---------------- MODULE Presence ----------------
(***************************************************************************)
(* Ephemeral presence (presence/controller.ts, presence/types.ts): one     *)
(* participant publishes heartbeats, typing and idle transitions from a    *)
(* controller with timers, and another controller shows what it receives.  *)
(*                                                                         *)
(* The delivery hub (presence/live-delivery.ts, postgres/live-pubsub.ts)   *)
(* keeps no order between instances: a published record may reach a        *)
(* subscription of its conversation late, out of order, more than once or  *)
(* never.  A timer may fire at any time after it was armed; identities and *)
(* participant summaries are left out.                                     *)
(***************************************************************************)
EXTENDS Integers, FiniteSets, FiniteSetsExt

CONSTANTS
    Rooms,         \* conversations
    Ttl,           \* presenceTtlMilliseconds
    TypingTtl,     \* typingTtlMilliseconds
    IdleTime,      \* idleMilliseconds
    MaxClock,      \* bound on the clock
    MaxPublished,  \* bound on published records
    MaxMoves       \* bound on the receiver's connects, disconnects and switches

VARIABLES
    now,        \* the clock of both controllers
    local,      \* the publishing controller
    timers,     \* its armed timers
    air,        \* every record published
    viewer,     \* the receiving controller: room, connected, generation, moves
    streams,    \* its subscriptions, pending and open
    remote,     \* its remoteRecords for the one remote session
    received    \* history: what reached remoteRecords since the room was entered

presenceVars == <<now, local, timers, air, viewer, streams, remote, received>>

Idling == now - local.lastActivity >= IdleTime

(***************************************************************************)
(* Publishing.                                                             *)
(***************************************************************************)
\* Mutant: two publications of one millisecond have one timestamp.
NextTimestampObserved(last) == Max({now, last})

\* nextLogicalTimestamp.
NextTimestamp(last) == Max({now, last + 1})

\* publishLocal with its force and coalesceSameTick arguments, on a controller
\* whose state the caller has already changed.  An offline record never types.
PublishLocal(me, force, coalesce) ==
    LET typing   == me.state # "offline" /\ me.typingActive
        semantic == <<me.state, typing>>
        silent   == \/ ~force /\ semantic = me.semantic
                    \/ force /\ coalesce /\ me.attemptAt = now /\ semantic = me.semantic
        ts       == NextTimestamp(me.last)
    IN  IF silent THEN [me |-> me, out |-> {}]
        ELSE [me  |-> [me EXCEPT !.last = ts, !.semantic = semantic, !.attemptAt = now, !.count = @ + 1],
              out |-> {[number |-> me.count + 1, room |-> me.room, state |-> me.state,
                        typing |-> typing, at |-> ts]}]

Publishes(p) == local' = p.me /\ air' = air \cup p.out
May == local.count + 2 <= MaxPublished /\ ~local.destroyed
KeepViewer == UNCHANGED <<viewer, streams, remote, received>>

Connect ==
    /\ May
    /\ LET state == IF local.connected THEN local.state ELSE IF Idling THEN "idle" ELSE "active"
           me    == [local EXCEPT !.connected = TRUE, !.state = state]
       IN  /\ Publishes(PublishLocal(me, TRUE, FALSE))
           /\ timers' = {"heartbeat", "idle"}
                        \cup (IF me.typingActive THEN {"typingRefresh"}
                              ELSE IF me.typingRequested THEN {"typingStart"} ELSE {})
    /\ UNCHANGED now /\ KeepViewer

\* noteActivity, and setTyping(true), which asks for the typing timer as well.
NoteActivity(typing) ==
    /\ May /\ local.connected
    /\ LET me == [local EXCEPT !.lastActivity = now, !.state = "active",
                               !.typingRequested = @ \/ typing]
       IN  /\ Publishes(IF local.state # "active" THEN PublishLocal(me, FALSE, TRUE)
                        ELSE [me |-> me, out |-> {}])
           /\ timers' = timers \cup {"idle"}
                        \cup (IF typing /\ ~local.typingRequested THEN {"typingStart"} ELSE {})
    /\ UNCHANGED now /\ KeepViewer

NotTyping(me) == [me EXCEPT !.typingRequested = FALSE, !.typingActive = FALSE]

StopTyping ==
    /\ May /\ local.connected
    /\ Publishes(PublishLocal(NotTyping(local), TRUE, FALSE))
    /\ timers' = timers \ {"typingStart", "typingRefresh"}
    /\ UNCHANGED now /\ KeepViewer

\* A non-typing record, then the offline tombstone.
Disconnect ==
    /\ May /\ local.connected
    /\ LET first  == PublishLocal(NotTyping(local), TRUE, FALSE)
           second == PublishLocal([first.me EXCEPT !.connected = FALSE, !.state = "offline"], TRUE, FALSE)
       IN  Publishes([me |-> second.me, out |-> first.out \cup second.out])
    /\ timers' = {}
    /\ UNCHANGED now /\ KeepViewer

\* switchConversation: a last non-typing record in the old conversation (no
\* tombstone while connected), then an active one in the new conversation.
SwitchConversation(c) ==
    /\ May /\ c # local.room
    /\ LET first  == PublishLocal(NotTyping(local), TRUE, FALSE)
           moved  == [first.me EXCEPT !.room = c, !.semantic = <<>>, !.attemptAt = -1,
                          !.lastActivity = now, !.state = IF local.connected THEN "active" ELSE "offline"]
           second == IF local.connected THEN PublishLocal(moved, TRUE, FALSE) ELSE [me |-> moved, out |-> {}]
       IN  Publishes([me |-> second.me, out |-> first.out \cup second.out])
    /\ timers' = IF local.connected THEN {"heartbeat", "idle"} ELSE {}
    /\ UNCHANGED now /\ KeepViewer

Destroy ==
    /\ May
    /\ LET first  == IF local.connected THEN PublishLocal(NotTyping(local), TRUE, FALSE)
                     ELSE [me |-> NotTyping(local), out |-> {}]
           second == PublishLocal([first.me EXCEPT !.connected = FALSE, !.state = "offline"], TRUE, FALSE)
       IN  Publishes([me |-> [second.me EXCEPT !.destroyed = TRUE], out |-> first.out \cup second.out])
    /\ timers' = {}
    /\ UNCHANGED now /\ KeepViewer

Heartbeat ==
    /\ May /\ "heartbeat" \in timers
    /\ Publishes(PublishLocal(local, TRUE, TRUE))
    /\ UNCHANGED <<now, timers>> /\ KeepViewer

\* An idle timer that fires early because of later activity is armed again.
IdleTimer ==
    /\ May /\ "idle" \in timers /\ Idling
    /\ Publishes(PublishLocal([NotTyping(local) EXCEPT !.state = "idle"], FALSE, TRUE))
    /\ timers' = timers \ {"idle", "typingStart", "typingRefresh"}
    /\ UNCHANGED now /\ KeepViewer

TypingStart ==
    /\ May /\ "typingStart" \in timers
    /\ Publishes(PublishLocal([local EXCEPT !.typingActive = TRUE], FALSE, TRUE))
    /\ timers' = (timers \ {"typingStart"}) \cup {"typingRefresh"}
    /\ UNCHANGED now /\ KeepViewer

TypingRefresh ==
    /\ May /\ "typingRefresh" \in timers
    /\ Publishes(PublishLocal(local, TRUE, TRUE))
    /\ UNCHANGED <<now, timers>> /\ KeepViewer

Elapse == now < MaxClock /\ now' = now + 1 /\ UNCHANGED <<local, timers, air>> /\ KeepViewer

(***************************************************************************)
(* Receiving.                                                              *)
(***************************************************************************)
KeepLocal == UNCHANGED <<now, local, timers, air>>

\* compareRecords: later wins; at one timestamp offline wins, then the
\* greater canonical text ("active" < "idle", false < true).
Greater(a, b) ==
    \/ a.at > b.at
    \/ a.at = b.at /\ a.state = "offline" /\ b.state # "offline"
    \/ /\ a.at = b.at /\ (a.state = "offline") = (b.state = "offline")
       /\ \/ a.state = "idle" /\ b.state = "active"
          \/ a.state = b.state /\ a.typing /\ ~b.typing

\* mergePresenceRecords for one session.
Merge(current, r) == IF \E x \in current : ~Greater(r, x) THEN current ELSE {r}

\* pruneExpiredPresenceRecords.
Prune(rs) == {[r EXCEPT !.typing = @ /\ r.at + TypingTtl > now] : r \in {x \in rs : x.at + Ttl > now}}

\* selectActivePresenceRecords: what the snapshot lists now.
Listed == {r \in Prune(remote) : r.state # "offline"}

\* connect and disconnect close the subscription by taking a new generation.
ViewerMoves == viewer.moves < MaxMoves

Subscribe(c, generation) == streams' = streams \cup {[room |-> c, generation |-> generation, open |-> FALSE]}

ViewerConnects ==
    /\ ViewerMoves
    /\ viewer' = [viewer EXCEPT !.connected = TRUE, !.generation = @ + 1, !.moves = @ + 1]
    /\ Subscribe(viewer.room, viewer.generation + 1)
    /\ UNCHANGED <<remote, received>> /\ KeepLocal

ViewerDisconnects ==
    /\ ViewerMoves /\ viewer.connected
    /\ viewer' = [viewer EXCEPT !.connected = FALSE, !.generation = @ + 1, !.moves = @ + 1]
    /\ UNCHANGED <<streams, remote, received>> /\ KeepLocal

ViewerSwitches(c) ==
    /\ ViewerMoves /\ c # viewer.room
    /\ viewer' = [viewer EXCEPT !.room = c, !.generation = @ + 1, !.moves = @ + 1]
    /\ remote' = {} /\ received' = {}
    /\ IF viewer.connected THEN Subscribe(c, viewer.generation + 1) ELSE UNCHANGED streams
    /\ KeepLocal

CurrentStream(s) == viewer.connected /\ s.generation = viewer.generation

\* openTransportSubscription: the subscription arrives, current or not.
StreamOpens(s) ==
    /\ ~s.open
    /\ streams' = IF CurrentStream(s) THEN (streams \ {s}) \cup {[s EXCEPT !.open = TRUE]}
                  ELSE streams \ {s}
    /\ UNCHANGED <<viewer, remote, received>> /\ KeepLocal

\* An update of an open stream; an outdated stream ends instead.
StreamDelivers(s, r) ==
    /\ s.open /\ r.room = s.room
    /\ IF CurrentStream(s)
       THEN /\ remote' = Prune(Merge(remote, r))
            /\ received' = received \cup {r}
            /\ UNCHANGED streams
       ELSE streams' = streams \ {s} /\ UNCHANGED <<remote, received>>
    /\ UNCHANGED viewer /\ KeepLocal

StreamFails(s) ==
    /\ streams' = streams \ {s}
    /\ UNCHANGED <<viewer, remote, received>> /\ KeepLocal

\* The expiry timer and getSnapshot rebuild the records.
Rebuild == remote' = Prune(remote) /\ remote' # remote /\ UNCHANGED <<viewer, streams, received>> /\ KeepLocal

PresenceInit ==
    /\ now = 0
    /\ \E c \in Rooms :
        /\ local = [room |-> c, connected |-> FALSE, destroyed |-> FALSE, state |-> "offline",
                    typingRequested |-> FALSE, typingActive |-> FALSE, lastActivity |-> 0,
                    last |-> -1, semantic |-> <<>>, attemptAt |-> -1, count |-> 0]
        /\ viewer = [room |-> c, connected |-> FALSE, generation |-> 0, moves |-> 0]
    /\ timers = {} /\ air = {} /\ streams = {} /\ remote = {} /\ received = {}

PresenceNext ==
    \/ Connect \/ StopTyping \/ Disconnect \/ Destroy \/ Elapse
    \/ Heartbeat \/ IdleTimer \/ TypingStart \/ TypingRefresh
    \/ \E typing \in BOOLEAN : NoteActivity(typing)
    \/ \E c \in Rooms : SwitchConversation(c) \/ ViewerSwitches(c)
    \/ ViewerConnects \/ ViewerDisconnects \/ Rebuild
    \/ \E s \in streams : StreamOpens(s) \/ StreamFails(s) \/ \E r \in air : StreamDelivers(s, r)

(***************************************************************************)
(* Properties.                                                             *)
(***************************************************************************)

\* Out-of-order delivery never brings back an older state: what the viewer
\* lists belongs to the conversation it shows and is the last published of
\* everything it received there, so a tombstone or a stopped typing that has
\* arrived stays, whatever arrives later (nextLogicalTimestamp,
\* mergePresenceRecords, openTransportSubscription).
ShowsNewest ==
    \A r \in Listed :
        /\ r.room = viewer.room
        /\ \A x \in received : x.number <= r.number
================================================
