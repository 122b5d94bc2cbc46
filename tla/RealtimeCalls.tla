---------------- MODULE RealtimeCalls ----------------
(***************************************************************************)
(* One durable realtime call: its record in PostgreSQL, changed by read,   *)
(* change and compare-and-set; the lease a worker renews while it works;   *)
(* the display records of the call's tools and the marker of what was read *)
(* of them; and the monitor that polls all this for a browser.  The worker *)
(* and whoever ends a call are the host's, as the store's users.           *)
(***************************************************************************)
EXTENDS Integers, FiniteSets

CONSTANTS
    Workers,        \* processes that create the call (external: the host)
    BeatOf,         \* [Workers -> the heartbeat of its lease]
    Enders,         \* whoever ends it (external: the host)
    ToolCalls,      \* tool calls of the call
    Recorders,      \* callbacks that record tool activity
    Viewers,        \* pages that show a finished call and mark it read
    Scenarios,      \* records with the fields
                    \*   active    the actors that take part
                    \*   tool      [Recorders -> the tool call it is about]
                    \*   end       [Recorders -> the outcome it records]
                    \*   time      how far the clock goes
                    \*   ends      how often an ender asks
                    \*   beats     how many heartbeats a lease gets
                    \*   lose      whether replies of the store may be lost
    LeaseTime,      \* leaseMs, in ticks
    MaxAttempts     \* rounds of #update and of record

VARIABLES
    scenario, now,
    call,           \* the row of kind realtime_call
    op,             \* [Workers \cup Enders \cup Beats -> the update in flight]
    pc,             \* [Workers \cup Enders -> where the host is]
    lease,          \* [Workers -> createRealtimeCallLease]
    provider,       \* [Workers -> the remote call it created], external
    tool, recorder, \* rows of kind realtime_tool_activity; calls of record
    marker, viewer, \* the row of kind realtime_activity_read; its readers
    shown,          \* every token a page has displayed
    monitor         \* RealtimeWorkspaceMonitor

callVars == <<now, call, op, pc, lease, provider>>
toolVars == <<tool, recorder>>
readVars == <<marker, viewer, shown>>
realtimeVars == <<scenario, callVars, toolVars, readVars, monitor>>

Actors == Workers \cup Enders \cup {BeatOf[w] : w \in Workers}
Statuses == <<"admitted", "starting", "active", "uncertain", "ending", "ended">>
IndexOf(s) == CHOOSE i \in 1..6 : Statuses[i] = s
NoCall == [status |-> "none", started |-> FALSE, ref |-> "none", worker |-> "none", lease |-> 0, version |-> 0]

------------------------------------------------
\* PostgresRealtimeCallStore: what a reader is shown, the records the store
\* accepts, and the changes of a record, none where the store refuses.
Snapshot == IF call.lease <= now /\ call.status \in {"admitted", "starting", "active"}
            THEN [call EXCEPT !.status = "uncertain"] ELSE call
ValidRecord(c) ==
    /\ c.status = "active" => c.ref # "none"
    /\ c.status \in {"starting", "active", "ending"} => c.started
    /\ c.status = "admitted" => ~c.started
    /\ c.status = "ended" /\ c.started => c.ref # "none"
    /\ ~c.started => c.ref = "none"
BeginCreation(c, w) == IF c.worker # w \/ c.status # "admitted" THEN {}
                       ELSE {[c EXCEPT !.status = "starting", !.started = TRUE]}
AttachProviderCall(c, w) ==
    IF c.worker # w \/ ~c.started \/ c.ref \notin {"none", w} THEN {}
    ELSE {[c EXCEPT !.ref = w, !.status = IF @ = "starting" THEN "active" ELSE @]}
RenewLease(c, w) == IF c.worker # w \/ c.status \notin {"admitted", "starting", "active"} THEN {}
                    ELSE {[c EXCEPT !.lease = now + LeaseTime]}
\* Mutant: asking for the end ends the call.
RequestEndAtOnce(c) == {[c EXCEPT !.status = "ended"]}
RequestEnd(c) == {[c EXCEPT !.status = IF @ = "ended" \/ ~c.started THEN "ended" ELSE "ending"]}
ConfirmEnded(c, ref) == IF c.status \notin {"ending", "ended"} \/ c.ref # ref THEN {}
                        ELSE {[c EXCEPT !.status = "ended"]}
Change(o, c) == CASE o.kind = "begin" -> BeginCreation(c, o.by)
                  [] o.kind = "attach" -> AttachProviderCall(c, o.by)
                  [] o.kind = "renew" -> RenewLease(c, o.by)
                  [] o.kind = "end" -> RequestEnd(c)
                  [] o.kind = "confirm" -> ConfirmEnded(c, o.by)
                  [] OTHER -> {}

Calm == [kind |-> "none", by |-> "none", at |-> "idle", tries |-> 0, value |-> NoCall]
Ask(kind, by) == [Calm EXCEPT !.kind = kind, !.by = by, !.at = "read"]
Answered(o, ok, value) == [o EXCEPT !.at = IF ok THEN "ok" ELSE "failed", !.value = value]

\* #update, read: the change is made to what a reader is shown.
UpdateReads(a) ==
    /\ op[a].at = "read" /\ op[a].kind # "admit"
    /\ LET changes == IF call.version = 0 THEN {} ELSE Change(op[a], Snapshot) IN
       op' = [op EXCEPT ![a] =
         IF changes = {} \/ \E c \in changes : c # Snapshot /\ ~ValidRecord(c) THEN Answered(@, FALSE, NoCall)
         ELSE IF Snapshot \in changes THEN Answered(@, TRUE, Snapshot)
         ELSE [@ EXCEPT !.at = "write", !.value = CHOOSE c \in changes : TRUE]]
    /\ UNCHANGED <<scenario, now, call, pc, lease, provider, toolVars, readVars, monitor>>
\* ... and write, under the version that was read; the reply may be lost.
UpdateWrites(a) ==
    /\ op[a].at = "write" /\ op[a].kind # "admit"
    /\ IF op[a].value.version = call.version
       THEN /\ call' = [op[a].value EXCEPT !.version = @ + 1]
            /\ \E ok \in {TRUE, ~scenario.lose} : op' = [op EXCEPT ![a] = Answered(@, ok, call')]
       ELSE /\ op' = [op EXCEPT ![a] = IF @.tries + 1 < MaxAttempts
                                       THEN [@ EXCEPT !.at = "read", !.tries = op[a].tries + 1] ELSE Answered(@, FALSE, NoCall)]
            /\ UNCHANGED call
    /\ UNCHANGED <<scenario, now, pc, lease, provider, toolVars, readVars, monitor>>
\* admit: whoever inserts the row has created the call; a lost reply creates
\* nothing for its caller.
Admits(a) ==
    /\ op[a].kind = "admit" /\ op[a].at \in {"read", "write"}
    /\ \/ /\ op[a].at = "read"
          /\ op' = [op EXCEPT ![a] = IF call.version > 0 THEN Answered(@, FALSE, NoCall)
                                     ELSE [@ EXCEPT !.at = "write", !.value =
                [NoCall EXCEPT !.status = "admitted", !.worker = a, !.lease = now + LeaseTime, !.version = 1]]]
          /\ UNCHANGED call
       \/ /\ op[a].at = "write"
          /\ call' = IF call.version = 0 THEN op[a].value ELSE call
          /\ \E ok \in {call.version = 0, call.version = 0 /\ ~scenario.lose} : op' = [op EXCEPT ![a] = Answered(@, ok, call')]
    /\ UNCHANGED <<scenario, now, pc, lease, provider, toolVars, readVars, monitor>>
CallStep(a) == UpdateReads(a) \/ UpdateWrites(a) \/ Admits(a)

------------------------------------------------
\* createRealtimeCallLease: a committed renewal arms the watchdog and the
\* next heartbeat; a refusal, a late deadline or the watchdog closes it.
Unarmed == [live |-> FALSE, closed |-> FALSE, deadline |-> 0, beats |-> 0]
Close(l) == [l EXCEPT !.live = FALSE, !.closed = TRUE]
Arm(l, deadline) == IF l.closed THEN l
                    ELSE IF deadline <= now THEN Close(l) ELSE [l EXCEPT !.live = TRUE, !.deadline = deadline]
Heartbeat(w) ==
    /\ lease[w].live /\ op[BeatOf[w]].at = "idle" /\ lease[w].beats < scenario.beats
    /\ op' = [op EXCEPT ![BeatOf[w]] = Ask("renew", w)]
    /\ lease' = [lease EXCEPT ![w].beats = @ + 1]
    /\ UNCHANGED <<scenario, now, call, pc, provider, toolVars, readVars, monitor>>
HeartbeatReturns(w) ==
    /\ op[BeatOf[w]].at \in {"ok", "failed"}
    /\ lease' = [lease EXCEPT ![w] = IF op[BeatOf[w]].at = "ok" THEN Arm(@, op[BeatOf[w]].value.lease) ELSE Close(@)]
    /\ op' = [op EXCEPT ![BeatOf[w]] = Calm]
    /\ UNCHANGED <<scenario, now, call, pc, provider, toolVars, readVars, monitor>>
Watchdog(w) ==
    /\ lease[w].live /\ lease[w].deadline <= now
    /\ lease' = [lease EXCEPT ![w] = Close(@)]
    /\ UNCHANGED <<scenario, now, call, op, pc, provider, toolVars, readVars, monitor>>
\* The clock; a due watchdog fires first.
Tick ==
    /\ now < scenario.time /\ \A w \in Workers : ~(lease[w].live /\ lease[w].deadline <= now)
    /\ now' = now + 1
    /\ UNCHANGED <<scenario, call, op, pc, lease, provider, toolVars, readVars, monitor>>

------------------------------------------------
\* The worker: admit, take the lease, claim the creation, dial, attach the
\* provider's reference, and work until the lease ends.
Follows(kind) == CASE kind = "admit" -> "renew" [] kind = "renew" -> "begin"
                   [] kind = "begin" -> "dial" [] OTHER -> "connected"
WorkerAsks(w) ==
    /\ w \in scenario.active /\ op[w].at = "idle" /\ pc[w] \in {"admit", "renew", "begin", "attach"}
    /\ op' = [op EXCEPT ![w] = Ask(pc[w], w)]
    /\ UNCHANGED <<scenario, now, call, pc, lease, provider, toolVars, readVars, monitor>>
WorkerHears(w) ==
    /\ op[w].at \in {"ok", "failed"}
    /\ LET goes == /\ op[w].at = "ok" /\ ~lease[w].closed
                   /\ op[w].kind = "attach" => op[w].value.status = "active" IN
       /\ pc' = [pc EXCEPT ![w] = IF goes THEN Follows(op[w].kind) ELSE "stopped"]
       /\ lease' = [lease EXCEPT ![w] = IF goes /\ op[w].kind = "renew" THEN Arm(@, op[w].value.lease)
                                        ELSE IF goes THEN @ ELSE Close(@)]
    /\ op' = [op EXCEPT ![w] = Calm]
    /\ UNCHANGED <<scenario, now, call, provider, toolVars, readVars, monitor>>
Dial(w) ==
    /\ pc[w] = "dial"
    /\ provider' = [provider EXCEPT ![w] = IF lease[w].closed THEN @ ELSE "running"]
    /\ pc' = [pc EXCEPT ![w] = IF lease[w].closed THEN "stopped" ELSE "attach"]
    /\ UNCHANGED <<scenario, now, call, op, lease, toolVars, readVars, monitor>>
\* Whoever ends the call: commit the request, hang up by the stored
\* reference, confirm; without a reference it has to come back.
EnderAsks(e) ==
    /\ e \in scenario.active /\ op[e].at = "idle" /\ pc[e] \in 1..scenario.ends
    /\ op' = [op EXCEPT ![e] = Ask("end", e)]
    /\ UNCHANGED <<scenario, now, call, pc, lease, provider, toolVars, readVars, monitor>>
EnderHears(e) ==
    /\ op[e].at \in {"ok", "failed"}
    /\ pc' = [pc EXCEPT ![e] = @ - 1]
    /\ \E hungUp \in BOOLEAN :
         LET ref == op[e].value.ref
             confirms == op[e].kind = "end" /\ op[e].at = "ok" /\ ref # "none" /\ hungUp
         IN /\ op' = [op EXCEPT ![e] = IF confirms THEN Ask("confirm", ref) ELSE Calm]
            /\ provider' = IF confirms THEN [provider EXCEPT ![ref] = "ended"] ELSE provider
    /\ UNCHANGED <<scenario, now, call, lease, toolVars, readVars, monitor>>

------------------------------------------------
\* PostgresRealtimeToolActivityStore.record: the call and the tool's row are
\* read, then the row is written under its version.
Resting == [at |-> "idle", want |-> "running", tries |-> 0, call |-> "none", status |-> "none", version |-> 0]
RecordReadsCall(r) ==
    /\ r \in scenario.active /\ recorder[r].at \in {"idle", "again"}
    /\ \E w \in Workers : provider[w] # "none" /\ pc[w] \in {"connected", "stopped"}
    /\ recorder' = [recorder EXCEPT ![r].call = Snapshot.status,
                      ![r].at = "read"]
    /\ UNCHANGED <<scenario, callVars, tool, readVars, monitor>>
Ends(r, k, ok) == [k EXCEPT !.at = IF k.want = "running" /\ ok THEN "idle" ELSE "done",
                            !.want = scenario.end[r], !.tries = 0]
RecordReadsTool(r) ==
    LET k == recorder[r]  t == tool[scenario.tool[r]] IN
    /\ k.at = "read"
    /\ recorder' = [recorder EXCEPT ![r] =
         IF t.version > 0 /\ (t.status = k.want \/ k.want = "running") THEN Ends(r, k, TRUE)
         ELSE IF t.version > 0 /\ t.status # "running" THEN Ends(r, k, FALSE)
         ELSE IF t.version = 0 /\ (k.want # "running" \/ k.call # "active") THEN Ends(r, k, FALSE)
         ELSE [k EXCEPT !.at = "write", !.status = k.want, !.version = t.version]]
    /\ UNCHANGED <<scenario, callVars, tool, readVars, monitor>>
RecordWrites(r) ==
    LET k == recorder[r]  t == scenario.tool[r] IN
    /\ k.at = "write"
    /\ IF tool[t].version = k.version
       THEN /\ tool' = [tool EXCEPT ![t] = [status |-> k.status, version |-> @.version + 1]]
            /\ recorder' = [recorder EXCEPT ![r] = Ends(r, k, TRUE)]
       ELSE /\ recorder' = [recorder EXCEPT ![r] = IF k.tries + 1 < MaxAttempts
                                                   THEN [k EXCEPT !.at = "again", !.tries = k.tries + 1] ELSE Ends(r, k, FALSE)]
            /\ UNCHANGED tool
    /\ UNCHANGED <<scenario, callVars, readVars, monitor>>

\* summary, readState and markRead.  A token names the counts a page shows.
Count(s) == Cardinality({t \in ToolCalls : tool[t].version > 0 /\ tool[t].status \in s})
Summary == [total |-> Count({"running", "completed", "failed"}), completed |-> Count({"completed"}),
            failed |-> Count({"failed"})]
Token(version, counts) == [version |-> version, total |-> counts.total,
                           completed |-> counts.completed, failed |-> counts.failed]
NoToken == [version |-> 0, total |-> 0, completed |-> 0, failed |-> 0]
Behind(t, u) == \/ t.version < u.version \/ t.total < u.total
                \/ t.completed < u.completed \/ t.failed < u.failed
Greater(a, b) == IF a < b THEN b ELSE a
Merged(t, u) == IF t.version = u.version
                THEN [version |-> u.version, total |-> Greater(t.total, u.total),
                      completed |-> Greater(t.completed, u.completed), failed |-> Greater(t.failed, u.failed)]
                ELSE u
HasToken == call.status = "ended" /\ call.started
Unread == HasToken /\ Behind(marker.token, Token(call.version, Summary))
ReadState(v) ==
    /\ v \in scenario.active /\ viewer[v].at = "idle" /\ HasToken /\ Unread
    /\ viewer' = [viewer EXCEPT ![v] = [at |-> "shown", token |-> Token(call.version, Summary), saved |-> 0, next |-> NoToken]]
    /\ shown' = shown \cup {Token(call.version, Summary)}
    /\ UNCHANGED <<scenario, callVars, toolVars, marker, monitor>>
\* Mutant: what is there now is marked, not what the page showed.
MarkReadCurrent(v) ==
    [viewer[v] EXCEPT !.at = "write", !.saved = marker.version, !.next = Token(call.version, Summary)]
MarkReadToken(v) ==
    LET next == Merged(marker.token, viewer[v].token) IN
    IF viewer[v].token.version # call.version \/ Behind(Token(call.version, Summary), viewer[v].token)
       \/ marker.token.version > viewer[v].token.version \/ marker.token = next
    THEN [viewer[v] EXCEPT !.at = "idle"]
    ELSE [viewer[v] EXCEPT !.at = "write", !.saved = marker.version, !.next = next]
MarkReads(v) ==
    /\ viewer[v].at = "shown"
    /\ viewer' = [viewer EXCEPT ![v] = MarkReadToken(v)]
    /\ UNCHANGED <<scenario, callVars, toolVars, marker, shown, monitor>>
MarkWrites(v) ==
    /\ viewer[v].at = "write"
    /\ IF viewer[v].saved = marker.version
       THEN /\ marker' = [version |-> marker.version + 1, token |-> viewer[v].next]
            /\ viewer' = [viewer EXCEPT ![v].at = "idle"]
       ELSE viewer' = [viewer EXCEPT ![v].at = "shown"] /\ UNCHANGED marker
    /\ UNCHANGED <<scenario, callVars, toolVars, shown, monitor>>

------------------------------------------------
\* RealtimeWorkspaceMonitor: one read at a time; a changed selection makes
\* it void; evidence that went back is refused and the old one kept.
NoView == [status |-> "none", counts |-> Token(0, [total |-> 0, completed |-> 0, failed |-> 0])]
MonitorOff == [selected |-> TRUE, generation |-> 0, view |-> NoView, at |-> "idle", of |-> 0,
               read |-> NoView, regressed |-> FALSE, disposed |-> FALSE]
SetConversations ==
    /\ "monitor" \in scenario.active /\ ~monitor.disposed /\ monitor.generation < 2
    /\ monitor' = [monitor EXCEPT !.selected = ~@, !.generation = @ + 1,
                     !.view = IF monitor.selected THEN NoView ELSE @]
    /\ UNCHANGED <<scenario, callVars, toolVars, readVars>>
Refresh ==
    /\ "monitor" \in scenario.active /\ ~monitor.disposed /\ monitor.at = "idle"
    /\ monitor' = [monitor EXCEPT !.at = "call", !.of = monitor.generation, !.read = NoView]
    /\ UNCHANGED <<scenario, callVars, toolVars, readVars>>
ReadsCall ==
    /\ monitor.at = "call"
    /\ monitor' = IF monitor.selected /\ call.version > 0
                  THEN [monitor EXCEPT !.at = "counts", !.read.status = Snapshot.status]
                  ELSE [monitor EXCEPT !.at = "page"]
    /\ UNCHANGED <<scenario, callVars, toolVars, readVars>>
ReadsCounts ==
    /\ monitor.at = "counts"
    /\ monitor' = [monitor EXCEPT !.at = "page", !.read.counts = Token(0, Summary)]
    /\ UNCHANGED <<scenario, callVars, toolVars, readVars>>
Regressed(old, new) == \/ new.status = "none" \/ Behind(new.counts, old.counts)
                       \/ IndexOf(new.status) < IndexOf(old.status)
RefreshEnds(ok) ==
    LET stale == monitor.of # monitor.generation
        back == monitor.view.status # "none" /\ Regressed(monitor.view, monitor.read)
    IN [monitor EXCEPT !.at = "idle", !.regressed = ok /\ ~stale /\ back,
                       !.view = IF ok /\ ~stale /\ ~back THEN monitor.read ELSE @]
\* A page that does not come in time, or at all, is an error of the refresh.
RefreshReturns ==
    /\ monitor.at # "idle" /\ ~monitor.disposed
    /\ monitor' = RefreshEnds(monitor.at = "page")
    /\ UNCHANGED <<scenario, callVars, toolVars, readVars>>
DisposeMonitor ==
    /\ "monitor" \in scenario.active /\ ~monitor.disposed
    /\ monitor' = [monitor EXCEPT !.disposed = TRUE, !.at = "idle"]
    /\ UNCHANGED <<scenario, callVars, toolVars, readVars>>

------------------------------------------------
CallsInit ==
    /\ scenario \in Scenarios /\ now = 0 /\ call = NoCall
    /\ op = [a \in Actors |-> Calm]
    /\ pc = [a \in Workers \cup Enders |-> IF a \in Workers THEN "admit" ELSE scenario.ends]
    /\ lease = [w \in Workers |-> Unarmed]
    /\ provider = [w \in Workers |-> "none"]
    /\ tool = [t \in ToolCalls |-> [status |-> "none", version |-> 0]]
    /\ recorder = [r \in Recorders |-> Resting]
    /\ marker = [version |-> 0, token |-> NoToken]
    /\ viewer = [v \in Viewers |-> [at |-> "idle", token |-> NoToken, saved |-> 0, next |-> NoToken]]
    /\ shown = {}
    /\ monitor = MonitorOff
CallsNext ==
    \/ \E a \in Actors : CallStep(a)
    \/ \E w \in Workers : Heartbeat(w) \/ HeartbeatReturns(w) \/ Watchdog(w) \/ WorkerAsks(w) \/ WorkerHears(w) \/ Dial(w)
    \/ \E e \in Enders : EnderAsks(e) \/ EnderHears(e)
    \/ \E r \in Recorders : RecordReadsCall(r) \/ RecordReadsTool(r) \/ RecordWrites(r)
    \/ \E v \in Viewers : ReadState(v) \/ MarkReads(v) \/ MarkWrites(v)
    \/ Tick \/ SetConversations \/ Refresh \/ ReadsCall \/ ReadsCounts \/ RefreshReturns \/ DisposeMonitor

------------------------------------------------
\* The provider is asked for one call at most, whoever admits, retries or
\* loses a reply; and a record that says "ended" has no call running at the
\* provider, then or later ("Only confirmed remote termination permits
\* confirmEnded").
ProviderCallTruthful ==
    /\ \A v, w \in Workers : provider[v] # "none" /\ provider[w] # "none" => v = w
    /\ call.status = "ended" => \A w \in Workers : provider[w] # "running"

\* While a worker's lease signal lets it work, nobody reads its call as
\* uncertain: renewals that are slow, fail or come back late included.
LeaseCoversWork ==
    \A w \in Workers : lease[w].live /\ lease[w].deadline > now => call.worker = w /\ call.lease > now

\* The promise of the call's record: both, in every state.
CallTruthful == ProviderCallTruthful /\ LeaseCoversWork

\* What counts as read was on a page: no outcome is marked read unseen,
\* however pages, late outcomes and other markers interleave.
ReadWasShown == HasToken /\ ~Unread => Token(call.version, Summary) \in shown

\* The monitor shows only calls of the conversations selected now, a read
\* that was under way when the selection changed included.
ViewIsSelected == monitor.view # NoView => monitor.selected

\* What is shown of a call's tools, as read or as running, is the truth.
ReadingsTruthful == ReadWasShown /\ ViewIsSelected

\* The server's evidence never goes back, so the monitor never has to refuse
\* it ("Voice workspace evidence regressed.").
EvidenceNeverRegresses == ~monitor.regressed
================================================
