---------------- MODULE ConversationSync ----------------
(***************************************************************************)
(* The client's half of synchronization: the coordinator of                *)
(* src/sync/coordinator.ts, which keeps one conversation's local event log,*)
(* its saved baseline and its pending mutations while it follows a server  *)
(* (SyncAdapter).  Its operations run one at a time; a step here is what   *)
(* an operation does between two awaits.  stop, the reconnect timer, the   *)
(* loss of a connection and a crash come between any two of them.          *)
(*                                                                         *)
(* Tabs of one browser share the stores of src/browser/indexeddb-*.ts.     *)
(***************************************************************************)
EXTENDS SyncAdapter

CONSTANTS
    Devices,        \* coordinators
    Scenarios,      \* the situations to consider, records with the fields
                    \*   active  the devices and writers that take part
                    \*   store   [Devices -> the name of its stores]
                    \*   queue   [Devices -> Seq(Mutations)], what its user does
                    \*   faults  the kinds of fault that can occur
                    \*   limit   how many of them do
    Stores,         \* the names of stores
    MaxConflicts    \* conflicts a flush answers with a snapshot (8 in the code)

\* Mutation identities are unique: nobody proposes another's, or one twice.
\* (A device repeats what it sends, but its user queues a mutation once.)
ASSUME SyncAssumption ==
    /\ ReadLimit \in Nat \ {0} /\ Writers \cap Devices = {}
    /\ \A w \in Writers : BatchOf[w] \in Seq(Mutations) /\ IsInjective(BatchOf[w])
    /\ \A v, w \in Writers : v # w => ToSet(BatchOf[v]) \cap ToSet(BatchOf[w]) = {}
    /\ \A sc \in Scenarios : \A d \in Devices :
        /\ sc.store[d] \in Stores /\ sc.queue[d] \in Seq(Mutations) /\ IsInjective(sc.queue[d])
        /\ \A e \in Devices : d # e => ToSet(sc.queue[d]) \cap ToSet(sc.queue[e]) = {}
        /\ \A w \in Writers : ToSet(sc.queue[d]) \cap ToSet(BatchOf[w]) = {}

VARIABLES
    scenario,       \* the situation chosen
    local,          \* [Stores -> Seq(Mutations)], the durable local event log
    saved,          \* [Stores -> the saved sync state; known, the coordinators
                    \*   whose generation is the stored one, stands for it]
    co,             \* [Devices -> the memory of its coordinator]
    task,           \* [Devices -> the operation it runs]
    asked,          \* [Devices -> how many of its queue it has been given]
    resolved,       \* mutations whose queueMutation has resolved
    refused,        \* mutations dropped because the server denied access
    syncFaults      \* faults so far

clientVars == <<scenario, local, saved, co, task, asked, resolved, refused, syncFaults>>
syncVars == <<adapterVars, clientVars>>

Store(d) == scenario.store[d]
NoTask == [op |-> "none", at |-> "idle", then |-> "idle", conflicts |-> 0, latest |-> 0, batch |-> <<>>]
Asleep == [started |-> FALSE, status |-> "idle", auth |-> <<>>, localRevision |-> 0, pending |-> <<>>,
           view |-> {}, subscribed |-> FALSE, ending |-> FALSE, timer |-> FALSE]

SyncInit ==
    /\ log = <<>> /\ scenario \in Scenarios
    /\ handlers = [p \in Devices \cup Writers |-> {}]
    /\ late = [p \in Devices \cup Writers |-> {}]
    /\ writer = [w \in Writers |-> Idle]
    /\ local = [s \in Stores |-> <<>>]
    /\ saved = [s \in Stores |-> [exists |-> FALSE, known |-> Devices, auth |-> <<>>, pending |-> <<>>]]
    /\ co = [d \in Devices |-> Asleep]
    /\ task = [d \in Devices |-> NoTask]
    /\ asked = [d \in Devices |-> 0]
    /\ resolved = {} /\ refused = {} /\ syncFaults = 0

Fault(kind) ==
    /\ kind \in scenario.faults /\ syncFaults < scenario.limit
    /\ syncFaults' = syncFaults + 1
NoFault == UNCHANGED syncFaults

------------------------------------------------
\* How an operation ends.  c is what the coordinator's memory has become.
RebuildView(c) == [c EXCEPT !.view = ToSet(c.auth) \cup ToSet(c.pending)]
CloseConnection(c) == [c EXCEPT !.subscribed = FALSE, !.timer = FALSE, !.ending = @ \/ c.subscribed]
\* Mutant: the reconnect timer is not set.
ScheduleReconnectLost(c) ==
    IF ~c.started \/ c.timer THEN c
    ELSE [CloseConnection(c) EXCEPT !.status = "reconnecting"]
ScheduleReconnect(c) ==
    IF ~c.started \/ c.timer THEN c
    ELSE [CloseConnection(c) EXCEPT !.status = "reconnecting", !.timer = TRUE]
FailPermanently(c) ==
    [CloseConnection(c) EXCEPT !.started = FALSE, !.ending = FALSE, !.status = "error"]

LastAsked(d) == {scenario.queue[d][asked[d]]}
Ends(d, c, done) ==
    /\ task' = [task EXCEPT ![d] = NoTask]
    /\ co' = [co EXCEPT ![d] = c]
    /\ resolved' = resolved \cup done
Finishes(d, c) == Ends(d, c, IF task[d].op = "queue" THEN LastAsked(d) ELSE {})

\* An exception: the caller of start, queueMutation and flush hears of it,
\* and only a start or a background operation changes the connection.
Throws(d, c) ==
    Ends(d, IF task[d].op = "start" THEN FailPermanently(c)
            ELSE IF task[d].op \in {"connect", "update"} THEN ScheduleReconnect(c)
            ELSE c, {})

\* What follows a finished part of an operation; connect looks again whether
\* the coordinator is started, a queued mutation whether it is online.
Following(c, then) ==
    IF then = "connect" THEN IF c.started THEN "catchup" ELSE "idle"
    ELSE IF then = "gate" THEN IF c.started /\ c.status = "online" THEN "push" ELSE "idle"
    ELSE then
Continues(d, then, c) ==
    IF Following(c, then) = "idle" THEN Finishes(d, c)
    ELSE /\ task' = [task EXCEPT ![d].at = Following(c, then)]
         /\ co' = [co EXCEPT ![d] = c]
         /\ UNCHANGED resolved

------------------------------------------------
\* Mutant: the stored generation is not compared.
IsCurrentUnchecked(d) == TRUE
\* persistCoordinatorState: the save succeeds for a coordinator that knows
\* the stored generation, and from then on only for it.
IsCurrent(d) == d \in saved[Store(d)].known
Persisted(d, c) ==
    [saved EXCEPT ![Store(d)] = [exists |-> TRUE, known |-> {d}, auth |-> c.auth, pending |-> c.pending]]

Saves(d, then, c) ==
    /\ task' = [task EXCEPT ![d].at = "save", ![d].then = then]
    /\ co' = [co EXCEPT ![d] = c] /\ UNCHANGED resolved

\* The save and the rebuilt view.  When the save fails, or another tab has
\* saved a newer generation, the memory keeps what it has.
Save(d) ==
    /\ task[d].at = "save"
    /\ \/ /\ IsCurrent(d) /\ NoFault
          /\ saved' = Persisted(d, co[d])
          /\ Continues(d, task[d].then, RebuildView(co[d]))
       \/ /\ IF IsCurrent(d) THEN Fault("store") ELSE NoFault
          /\ Throws(d, co[d]) /\ UNCHANGED saved
    /\ UNCHANGED <<adapterVars, scenario, local, asked, refused>>

\* applyAuthoritativeEvents: while the local log ends where the projection
\* does, the events go to it first; another tab may have written them.
InStep(c) == c.localRevision = Len(c.auth)
LocalAccepts(d, events) ==
    Len(local[Store(d)]) = co[d].localRevision \/ Len(local[Store(d)]) >= co[d].localRevision + Len(events)
Applied(c, events) ==
    [c EXCEPT !.auth = @ \o events, !.localRevision = IF InStep(c) THEN @ + Len(events) ELSE @]
ApplyAuthoritative(d, events, Next(_)) ==
    IF events # <<>> /\ InStep(co[d]) /\ ~LocalAccepts(d, events)
    THEN Throws(d, co[d]) /\ UNCHANGED local
    ELSE /\ Next(Applied(co[d], events))
         /\ local' = IF InStep(co[d]) /\ Len(local[Store(d)]) = co[d].localRevision
                     THEN [local EXCEPT ![Store(d)] = @ \o events] ELSE local

------------------------------------------------
\* A failure the server answers.  Without an answer the connection is tried
\* again.  A denial drops every pending mutation for good, although the save
\* that follows may fail; a denied snapshot for an update only reconnects.
Unavailable(d) ==
    Finishes(d, ScheduleReconnect(co[d])) /\ UNCHANGED <<saved, refused>>
Denied(d) ==
    LET c == [FailPermanently(co[d]) EXCEPT !.pending = <<>>] IN
    IF task[d].op = "update" /\ task[d].at = "pull"
    THEN Unavailable(d)
    ELSE /\ refused' = refused \cup ToSet(co[d].pending)
         /\ \/ /\ co[d].pending # <<>> /\ (~IsCurrent(d) \/ "store" \in scenario.faults)
               /\ Throws(d, [c EXCEPT !.status = co[d].status]) /\ UNCHANGED saved
            \/ /\ co[d].pending = <<>> \/ IsCurrent(d)
               /\ saved' = IF co[d].pending = <<>> THEN saved ELSE Persisted(d, c)
               /\ Finishes(d, RebuildView(c))
ServerFails(d) ==
    /\ task[d].at \in {"catchup", "pull", "subscribe", "await", "recover"}
           \/ (task[d].at = "idle" /\ co[d].subscribed)
    /\ \/ Fault("lose") /\ Unavailable(d) /\ late' = [late EXCEPT ![d] = @ \cup handlers[d]]
       \/ Fault("deny") /\ Denied(d) /\ UNCHANGED late
    /\ handlers' = [handlers EXCEPT ![d] = {}]
    /\ UNCHANGED <<log, writer, scenario, local, asked>>

------------------------------------------------
\* start: the local log is replayed and the saved state loaded, whichever is
\* newer is the baseline, and the saved mutations are pending again.
Start(d) ==
    /\ d \in scenario.active
    /\ task[d].at = "idle" /\ ~co[d].started
    /\ task' = [task EXCEPT ![d].op = "start", ![d].at = "load"]
    /\ co' = [co EXCEPT ![d].started = TRUE, ![d].status = "connecting"]
    /\ UNCHANGED <<adapterVars, scenario, local, saved, asked, resolved, refused, syncFaults>>
Baseline(d) ==
    LET s == Store(d) IN IF Len(saved[s].auth) > Len(local[s]) THEN saved[s].auth ELSE local[s]
Load(d) ==
    LET s == Store(d) IN
    /\ task[d].at = "load"
    /\ saved' = [saved EXCEPT ![s].known = @ \cup {d}]
    /\ Saves(d, "connect", [co[d] EXCEPT !.auth = Baseline(d), !.localRevision = Len(local[s]),
                                         !.pending = saved[s].pending])
    /\ UNCHANGED <<adapterVars, scenario, local, asked, refused, syncFaults>>

\* catchUp reads page after page; then a connection is subscribed.
CatchUp(d) ==
    LET after == Len(co[d].auth)
        then == IF HasMore(after) THEN "catchup"
                ELSE IF task[d].op = "update" THEN "idle" ELSE "subscribe"
    IN /\ task[d].at = "catchup"
       /\ IF Page(after) = <<>> THEN Continues(d, then, co[d]) /\ UNCHANGED local
          ELSE ApplyAuthoritative(d, Page(after), LAMBDA c : Saves(d, then, c))
       /\ UNCHANGED <<adapterVars, scenario, saved, asked, refused, syncFaults>>
Subscribe(d) ==
    /\ task[d].at = "subscribe"
    /\ Continues(d, "push", IF co[d].started THEN [co[d] EXCEPT !.subscribed = TRUE, !.status = "online"]
                            ELSE co[d])
    /\ UNCHANGED <<adapterVars, scenario, local, saved, asked, refused, syncFaults>>

\* consume: the next page of a subscription, read after what the projection
\* has (older events of a page are dropped as processed).
Update(d) ==
    LET after == Len(co[d].auth) IN
    /\ task[d].at = "idle" /\ co[d].subscribed /\ Page(after) # <<>>
    /\ LET c == Applied(co[d], Page(after)) IN
       IF InStep(co[d]) /\ ~LocalAccepts(d, Page(after))
       THEN /\ co' = [co EXCEPT ![d] = ScheduleReconnect(@)]
            /\ UNCHANGED <<local, task>>
       ELSE /\ task' = [task EXCEPT ![d] = [NoTask EXCEPT !.op = "update", !.at = "save",
                                              !.then = IF HasMore(after) THEN "catchup" ELSE "idle"]]
            /\ co' = [co EXCEPT ![d] = c]
            /\ local' = IF InStep(co[d]) /\ Len(local[Store(d)]) = co[d].localRevision
                        THEN [local EXCEPT ![Store(d)] = @ \o Page(after)] ELSE local
    /\ UNCHANGED <<adapterVars, scenario, saved, asked, resolved, refused, syncFaults>>

\* A consumer whose subscription was closed ends later, and asks for a
\* reconnection even if there has been one since.
ConsumerEnds(d) ==
    /\ co[d].ending
    /\ co' = [co EXCEPT ![d] = ScheduleReconnect([@ EXCEPT !.ending = FALSE])]
    /\ UNCHANGED <<adapterVars, scenario, local, saved, task, asked, resolved, refused, syncFaults>>
Reconnect(d) ==
    /\ task[d].at = "idle" /\ co[d].timer /\ co[d].started
    /\ task' = [task EXCEPT ![d].op = "connect", ![d].at = "catchup"]
    /\ co' = [co EXCEPT ![d].timer = FALSE]
    /\ UNCHANGED <<adapterVars, scenario, local, saved, asked, resolved, refused, syncFaults>>

------------------------------------------------
\* queueMutation: a mutation that is pending or processed is not queued
\* again; a new one is saved, shown and, online, sent.  flush sends.
QueueMutation(d) ==
    LET m == scenario.queue[d][asked[d] + 1] IN
    /\ task[d].at = "idle" /\ asked[d] < Len(scenario.queue[d])
    /\ asked' = [asked EXCEPT ![d] = @ + 1]
    /\ IF m \in ToSet(co[d].pending) \cup ToSet(co[d].auth)
       THEN resolved' = resolved \cup {m} /\ UNCHANGED <<co, task>>
       ELSE /\ task' = [task EXCEPT ![d].op = "queue", ![d].at = "save", ![d].then = "gate"]
            /\ co' = [co EXCEPT ![d].pending = Append(@, m)]
            /\ UNCHANGED resolved
    /\ UNCHANGED <<adapterVars, scenario, local, saved, refused, syncFaults>>
Flush(d) ==
    /\ task[d].at = "idle" /\ co[d].started /\ co[d].status = "online" /\ co[d].pending # <<>>
    /\ task' = [task EXCEPT ![d].op = "flush", ![d].at = "push"]
    /\ UNCHANGED <<adapterVars, scenario, local, saved, co, asked, resolved, refused, syncFaults>>

\* flushPending: all pending mutations, rebased on the projection, are sent
\* as one batch until none is left.
Push(d) ==
    /\ task[d].at = "push"
    /\ IF ~co[d].started \/ co[d].pending = <<>>
       THEN Finishes(d, co[d]) /\ UNCHANGED handlers
       ELSE /\ handlers' = [handlers EXCEPT ![d] = {Handler(co[d].pending, Len(co[d].auth))}]
            /\ Continues(d, "await", co[d])
    /\ UNCHANGED <<log, late, writer, scenario, local, saved, asked, refused, syncFaults>>

\* What is left of a sequence without some of its members (SelectSeq, put in
\* terms of the places that stay so that the proofs can reason about it).
Nth(places, k) == CHOOSE i \in places : Cardinality({j \in places : j <= i}) = k
Leaving(s, gone) ==
    LET places == {i \in 1..Len(s) : s[i] \notin gone} IN
    [k \in 1..Cardinality(places) |-> s[Nth(places, k)]]
Without(pending, batch) == Leaving(pending, ToSet(batch))
Fresh(d, batch) == Leaving(batch, ToSet(co[d].auth))
\* validateAuthoritativeEvents and validateAppendMutationHead: the new
\* events must follow the projection, and the answer's latest revision must
\* be where they end.
Follows(d, fresh, f) == \A i \in 1..Len(fresh) : Revision(f, fresh[i]) = Len(co[d].auth) + i
HeadMatches(revision, fresh, latest) == latest = revision + Len(fresh)
ProtocolError(d) == Ends(d, FailPermanently(co[d]), {}) /\ UNCHANGED local

Acknowledged(d, batch, latest) ==
    LET fresh == Fresh(d, batch) IN
    IF ~Follows(d, fresh, log')
    THEN /\ task' = [task EXCEPT ![d].at = "recover", ![d].batch = batch, ![d].latest = latest]
         /\ UNCHANGED <<co, resolved, local>>
    ELSE IF ~HeadMatches(Len(co[d].auth), fresh, latest)
    THEN ProtocolError(d)
    ELSE ApplyAuthoritative(d, fresh,
             LAMBDA c : Saves(d, "push", [c EXCEPT !.pending = Without(@, batch)]))
Conflicted(d) ==
    /\ IF task[d].conflicts = MaxConflicts THEN Throws(d, co[d])
       ELSE /\ task' = [task EXCEPT ![d].at = "pull", ![d].then = "push", ![d].conflicts = @ + 1]
            /\ UNCHANGED <<co, resolved>>
    /\ UNCHANGED local
Served(d) ==
    \E h \in handlers[d] :
        /\ task[d].at = "await"
        /\ IF Begins(h)
           THEN /\ handlers' = [handlers EXCEPT ![d] = {Observes(h)}]
                /\ UNCHANGED <<log, co, task, resolved, local>>
           ELSE /\ handlers' = [handlers EXCEPT ![d] = {}]
                /\ log' = LogAfter(h)
                /\ IF AppendResult(h).status = "conflict" THEN Conflicted(d)
                   ELSE Acknowledged(d, h.batch, AppendResult(h).latest)
        /\ UNCHANGED <<late, writer, scenario, saved, asked, refused, syncFaults>>

\* The server's snapshot replaces the projection, after a conflict or to
\* recover from acknowledged events that do not follow it.
Pull(d) ==
    /\ task[d].at = "pull"
    /\ Saves(d, task[d].then, [co[d] EXCEPT !.auth = log])
    /\ UNCHANGED <<adapterVars, scenario, local, saved, asked, refused, syncFaults>>
Recover(d) ==
    /\ task[d].at = "recover"
    /\ IF HeadMatches(Len(log), <<>>, task[d].latest)
       THEN Saves(d, "settle", [co[d] EXCEPT !.auth = log]) /\ UNCHANGED local
       ELSE ProtocolError(d)
    /\ UNCHANGED <<adapterVars, scenario, saved, asked, refused, syncFaults>>
Settle(d) ==
    /\ task[d].at = "settle"
    /\ Saves(d, "push", [co[d] EXCEPT !.pending = Without(@, task[d].batch)])
    /\ UNCHANGED <<adapterVars, scenario, local, saved, asked, refused, syncFaults>>

------------------------------------------------
\* stop closes the connection; an operation under way runs to its end.  A
\* crash or a reload loses the memory; the server goes on with its append.
Stop(d) ==
    /\ co[d].started /\ Fault("stop")
    /\ co' = [co EXCEPT ![d] = [CloseConnection(@) EXCEPT !.started = FALSE, !.ending = FALSE,
                                                          !.status = "offline"]]
    /\ UNCHANGED <<adapterVars, scenario, local, saved, task, asked, resolved, refused>>
Crash(d) ==
    /\ co[d] # Asleep /\ Fault("crash")
    /\ co' = [co EXCEPT ![d] = Asleep]
    /\ task' = [task EXCEPT ![d] = NoTask]
    /\ late' = [late EXCEPT ![d] = @ \cup handlers[d]]
    /\ handlers' = [handlers EXCEPT ![d] = {}]
    /\ saved' = [saved EXCEPT ![Store(d)].known = IF saved[Store(d)].exists THEN @ \ {d} ELSE @]
    /\ UNCHANGED <<log, writer, scenario, local, asked, resolved, refused>>

DeviceStep(d) ==
    \/ Save(d) \/ Load(d) \/ CatchUp(d) \/ Subscribe(d) \/ Update(d)
    \/ ConsumerEnds(d) \/ Reconnect(d) \/ Push(d) \/ Served(d) \/ Pull(d) \/ Recover(d) \/ Settle(d)
SyncNext ==
    \/ \E d \in Devices : DeviceStep(d) \/ Start(d) \/ QueueMutation(d) \/ Flush(d)
                        \/ ServerFails(d) \/ Stop(d) \/ Crash(d)
    \/ \E p \in Devices \cup Writers : LateStep(p) /\ UNCHANGED clientVars
    \/ \E w \in Writers \cap scenario.active : WriterStep(w) /\ UNCHANGED clientVars
SyncSpec == SyncInit /\ [][SyncNext]_syncVars

------------------------------------------------
IsPrefixOf(f, g) == Len(f) <= Len(g) /\ SubSeq(g, 1, Len(f)) = f

\* A mutation whose queueMutation resolved is never lost: it is in the
\* canonical log, or saved to be sent, or was dropped by a denial; whatever
\* crashed, whichever save failed, and with a second tab on the same stores.
MutationsKept ==
    \A d \in Devices : \A m \in ToSet(scenario.queue[d]) \cap resolved :
        \/ m \in ToSet(log) \cup refused
        \/ m \in ToSet(saved[Store(d)].pending)

\* No replica ever leaves the canonical log: the projection, the saved
\* baseline and the local log are each a beginning of it, through snapshots,
\* lost answers, restarts and a tab that writes the same local log.
ReplicasFollow ==
    /\ \A d \in Devices : IsPrefixOf(co[d].auth, log)
    /\ \A s \in Stores : IsPrefixOf(local[s], log) /\ IsPrefixOf(saved[s].auth, log)

\* The canonical log keeps every mutation once, whoever repeats it and
\* however late an abandoned append is carried out, and what the facade
\* answered about an append stays true (append, event-store-adapter.ts).
ServerLogSound == LogHoldsOnce /\ AnswersTruthful

\* No mutation whose queueMutation resolved is lost, and no projection,
\* saved baseline or local log ever leaves the canonical log, through
\* crashes, lost answers, failed saves and two tabs (coordinator.ts).
ReplicasSound == MutationsKept /\ ReplicasFollow

\* What the user sees does not go back: a mutation leaves the view of a
\* coordinator only when it was refused or when the coordinator starts anew.
ViewKeeps ==
    [][\A d \in Devices : \A m \in co[d].view \ co'[d].view :
            m \in refused' \/ co'[d] = Asleep \/ task[d].op = "start" ]_syncVars

\* A coordinator that keeps running settles what it has accepted, unless its
\* pending batch is one the server holds in part.
PartlyStored(d) ==
    HoldsSome(log, co[d].pending) /\ ~Holds(log, co[d].pending)
Settled(d) ==
    \A m \in ToSet(scenario.queue[d]) \cap resolved : m \in ToSet(log) \cup refused
MutationsSettle ==
    <>[](\A d \in Devices : Settled(d) \/ ~co[d].started \/ PartlyStored(d))

\* The same without the exception.
LostResponsesRecovered ==
    <>[](\A d \in Devices : Settled(d) \/ ~co[d].started)
================================================
