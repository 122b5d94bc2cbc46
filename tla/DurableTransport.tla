---------------- MODULE DurableTransport ----------------
(***************************************************************************)
(* createDurableApplicationTransport of transports/durable.ts, for one     *)
(* turn: server processes (workers) share the turn's durable record and    *)
(* race to run it under a lease.  A worker claims the record, decodes the  *)
(* request, starts the delegate transport, appends its frames and settles; *)
(* clients observe the record, cancel it and resume after a process dies.  *)
(*                                                                         *)
(* update() retries a pure function of the record until its compare-and-   *)
(* set succeeds, so an update is one step here; giving up after            *)
(* maximumCasAttempts is one of the ways it fails.  Publication of status  *)
(* changes and diagnostics are left out.                                   *)
(***************************************************************************)
EXTENDS Integers, Sequences

CONSTANTS
    Workers,                \* the processes, by workerId
    Observers,              \* the clients that observe the turn
    CancelKeys,             \* idempotency keys of cancellation requests
    None,                   \* the null of the source
    Frames,                 \* how many frames the delegate streams for the turn
    MaximumAttempts,        \* options.maximumAttempts
    DelegateCancellation,   \* delegate.capabilities.authoritativeCancellation.supported
    Faults,                 \* the faults a run explores
    MaxFaults               \* bound: faults in a behaviour

DurableFaults == {"crash", "store", "decode", "start", "stream", "monitor", "disconnect"}

ASSUME DurableAssumption ==
    /\ None \notin Workers \cup CancelKeys
    /\ Frames \in Nat /\ MaximumAttempts \in Nat \ {0} /\ MaxFaults \in Nat
    /\ DelegateCancellation \in BOOLEAN /\ Faults \subseteq DurableFaults

VARIABLES
    rec,        \* the durable record
    expired,    \* whether the clock has passed rec's lease
    run,        \* run[w]: the run() of w for the turn, if any
    up,         \* the workers that are alive
    can,        \* can[k]: the cancellation request with key k
    obs,        \* obs[o]: the observation of o
    starts,     \* how often the delegate was started
    forwards,   \* how often the delegate was asked to cancel
    faults      \* the faults so far

vars == <<rec, expired, run, up, can, obs, starts, forwards, faults>>

TerminalStatus == {"completed", "cancelled", "failed"}
Record ==
    [status : {"absent", "pending", "running"} \cup TerminalStatus, attempt : Nat,
     events : Seq([attempt : Nat, frame : Nat]), cancellation : CancelKeys \cup {None},
     owner : Workers \cup {None}, early : BOOLEAN]
RunPc == {"off", "claim", "decode", "ready", "dispatch", "bind", "stream", "settle", "catch"}
Run   == [pc : RunPc, attempt : Nat, sent : Nat, monitor : BOOLEAN, forwarded : BOOLEAN,
          disconnected : BOOLEAN,
          outcome : {"none", "completed", "cancelled", "failed", "disconnected"}]
Cancel == [pc : {"update"}, at : Workers]
          \cup [pc : {"off", "requested", "terminal", "refused"}, at : {None}]
\* cursor is the frame an observer saw last, count what the observation has
\* delivered of the record it loaded, seen everything that o was ever shown.
Observation ==
    [pc : {"off", "open", "lost", "done"}, at : Workers \cup {None}, count : Nat,
     loaded : Nat, terminal : {"none"} \cup TerminalStatus, cursor : Nat \cup {-1},
     seen : SUBSET Nat]

\* Every variable holds a value of its type.
DurableTypeOK ==
    /\ rec \in Record /\ expired \in BOOLEAN /\ up \subseteq Workers
    /\ run \in [Workers -> Run] /\ can \in [CancelKeys -> Cancel]
    /\ obs \in [Observers -> Observation]
    /\ starts \in Nat /\ forwards \in Nat /\ faults \in Nat

------------------------------------------------
\* The record.

IsTerminal == rec.status \in TerminalStatus
IsOpen     == rec.status \in {"pending", "running"}

Off == [pc |-> "off", attempt |-> 0, sent |-> 0, monitor |-> FALSE, forwarded |-> FALSE,
        disconnected |-> FALSE, outcome |-> "none"]

Spend(fault) == fault \in Faults /\ faults < MaxFaults /\ faults' = faults + 1

\* kick: one run of the turn per process.
Kicked(w) == IF run[w].pc = "off" THEN [run EXCEPT ![w] = [Off EXCEPT !.pc = "claim"]] ELSE run

At(w, pc) == w \in up /\ run[w].pc = pc
Go(w, d)  == run' = [run EXCEPT ![w] = d]
\* The catch clause of run(): one attempt to settle the turn as failed.
Caught(d) == IF d.pc = "catch" THEN Off ELSE [Off EXCEPT !.pc = "catch", !.outcome = "failed"]
\* The end of the try block; its monitor goes on until settle returns.
Settling(d, outcome) ==
    [Off EXCEPT !.pc = "settle", !.outcome = outcome, !.monitor = d.monitor]

\* update() by w's run to `new`, which renews the lease when it leaves w
\* one; the store may fail before or after the write.
Update(w, new, next) ==
    LET written == rec' = new /\ expired' = (expired /\ new.owner \notin {w, None})
    IN  \/ written /\ Go(w, next) /\ UNCHANGED faults
        \/ /\ Spend("store") /\ Go(w, Caught(run[w]))
           /\ written \/ UNCHANGED <<rec, expired>>

------------------------------------------------
\* run()

\* Mutant: an expired lease is not taken over.
ClaimReleased(w) == IsOpen /\ rec.owner = None
Claimable(w) == IsOpen /\ (rec.owner \in {None, w} \/ expired)

\* The first update of run(): skip, exhaust the attempts, or take the lease.
Claim(w) ==
    /\ At(w, "claim")
    /\ \/ ~Claimable(w) /\ Go(w, Off) /\ UNCHANGED <<rec, expired, faults>>
       \/ /\ Claimable(w) /\ rec.attempt >= MaximumAttempts
          /\ Update(w, [rec EXCEPT !.status = "failed", !.owner = None], Off)
       \/ /\ Claimable(w) /\ rec.attempt < MaximumAttempts
          /\ Update(w, [rec EXCEPT !.status = "running", !.attempt = @ + 1, !.owner = w],
                    IF rec.cancellation # None THEN Settling(run[w], "cancelled")
                    ELSE [Off EXCEPT !.pc = "decode", !.attempt = rec.attempt + 1])
    /\ UNCHANGED <<up, can, obs, starts, forwards>>

Current(w) == ~IsTerminal /\ rec.owner = w /\ rec.attempt = run[w].attempt

\* decodeRequest returns, its monitor interrupts it, or the codec fails.
Decode(w) ==
    /\ At(w, "decode")
    /\ \/ Go(w, [run[w] EXCEPT !.pc = "ready"]) /\ UNCHANGED faults
       \/ ~Current(w) /\ Go(w, Off) /\ UNCHANGED faults
       \/ /\ Current(w) /\ rec.cancellation # None /\ UNCHANGED faults
          /\ Go(w, [Off EXCEPT !.pc = "catch", !.outcome = "cancelled"])
       \/ Spend("decode") /\ Go(w, Caught(run[w]))
    /\ UNCHANGED <<rec, expired, up, can, obs, starts, forwards>>

\* decodeRequest's monitor renews the lease.
DecodeRenew(w) ==
    /\ At(w, "decode") /\ Current(w) /\ rec.cancellation = None /\ expired
    /\ Update(w, rec, run[w])
    /\ UNCHANGED <<up, can, obs, starts, forwards>>

\* The update between decoding and dispatch.
Ready(w) ==
    /\ At(w, "ready")
    /\ \/ ~Current(w) /\ Go(w, Off) /\ UNCHANGED <<rec, expired, faults>>
       \/ /\ Current(w)
          /\ Update(w, rec, IF rec.cancellation = None THEN [run[w] EXCEPT !.pc = "dispatch"]
                            ELSE Settling(run[w], "cancelled"))
    /\ UNCHANGED <<up, can, obs, starts, forwards>>

\* delegate.startTurn
Dispatch(w) ==
    /\ At(w, "dispatch") /\ starts' = starts + 1
    /\ \/ Go(w, [run[w] EXCEPT !.pc = "bind"]) /\ UNCHANGED faults
       \/ Spend("start") /\ Go(w, Settling(run[w], "failed"))
    /\ UNCHANGED <<rec, expired, up, can, obs, forwards>>

\* The update that records delegateTurnId; LeaseLostError ends the run.
Bind(w) ==
    /\ At(w, "bind")
    /\ \/ rec.owner # w /\ Go(w, Off) /\ UNCHANGED faults
       \/ /\ rec.owner = w /\ UNCHANGED faults
          /\ Go(w, [run[w] EXCEPT !.pc = "stream", !.monitor = TRUE])
       \/ rec.owner = w /\ Spend("store") /\ Go(w, Caught(run[w]))
    /\ UNCHANGED <<rec, expired, up, can, obs, starts, forwards>>

\* Mutant: a frame is appended without looking at the lease.
AppendUnleased(w) == TRUE
HoldsLease(w) == rec.owner = w

\* A frame of the delegate is appended.
Frame(w) ==
    /\ At(w, "stream") /\ run[w].sent < Frames
    /\ \/ ~HoldsLease(w) /\ Go(w, Off) /\ UNCHANGED <<rec, expired, faults>>
       \/ /\ HoldsLease(w)
          /\ Update(w, [rec EXCEPT !.events = Append(@, [attempt |-> run[w].attempt,
                                                         frame |-> run[w].sent])],
                    [run[w] EXCEPT !.sent = @ + 1])
    /\ UNCHANGED <<up, can, obs, starts, forwards>>

\* The observation ends: completed, cancelled as asked, disconnected, or
\* failed.
StreamEnds(w) ==
    LET ends(outcome) == Go(w, Settling(run[w], outcome))
    IN  /\ At(w, "stream")
        /\ \/ run[w].sent = Frames /\ ends("completed") /\ UNCHANGED faults
           \/ run[w].forwarded /\ ends("cancelled") /\ UNCHANGED faults
           \/ run[w].disconnected /\ ends("disconnected") /\ UNCHANGED faults
           \/ Spend("stream") /\ (ends("failed") \/ ends("disconnected"))
        /\ UNCHANGED <<rec, expired, up, can, obs, starts, forwards>>

Monitoring(w) == run[w].monitor

\* monitor(): one poll until settle returns.  A monitor that loses the
\* lease between its poll and its renewal ends without disconnecting.
Monitor(w) ==
    /\ At(w, "stream") \/ At(w, "settle")
    /\ Monitoring(w)
    /\ \/ /\ rec.owner # w
          /\ \E noticed \in BOOLEAN :
                Go(w, [run[w] EXCEPT !.monitor = FALSE, !.disconnected = noticed])
          /\ UNCHANGED <<rec, expired, forwards, faults>>
       \/ /\ rec.owner = w /\ rec.cancellation # None
          /\ Go(w, [run[w] EXCEPT !.monitor = FALSE, !.forwarded = DelegateCancellation,
                                  !.disconnected = ~DelegateCancellation])
          /\ forwards' = IF DelegateCancellation THEN forwards + 1 ELSE forwards
          /\ UNCHANGED <<rec, expired, faults>>
       \/ /\ rec.owner = w /\ rec.cancellation = None /\ expired
          /\ expired' = FALSE /\ UNCHANGED <<rec, run, forwards, faults>>
       \/ /\ Spend("monitor") /\ Go(w, [run[w] EXCEPT !.monitor = FALSE])
          /\ UNCHANGED <<rec, expired, forwards>>
    /\ UNCHANGED <<up, can, obs, starts>>

\* Mutant: the delegate's outcome alone decides.
SettledByOutcome(outcome) ==
    IF outcome \in {"completed", "cancelled"} THEN outcome ELSE "failed"
SettledStatus(outcome) ==
    IF rec.cancellation # None \/ outcome = "cancelled" THEN "cancelled"
    ELSE IF outcome = "completed" THEN "completed" ELSE "failed"

\* settle, inside the try block and in the catch clause.
Settle(w) ==
    /\ At(w, "settle") \/ At(w, "catch")
    /\ \/ (IsTerminal \/ rec.owner # w) /\ Go(w, Off) /\ UNCHANGED <<rec, expired, faults>>
       \/ /\ ~IsTerminal /\ rec.owner = w
          /\ Update(w, [rec EXCEPT !.status = SettledStatus(run[w].outcome), !.owner = None], Off)
    /\ UNCHANGED <<up, can, obs, starts, forwards>>

------------------------------------------------
\* Cancellation.

\* store.create finds no record.
Creates == rec.status = "absent"

NewRecord == [status |-> "pending", attempt |-> 0, events |-> <<>>, cancellation |-> None,
              owner |-> None, early |-> FALSE]

\* cancelTurnBeforeStart wins the creation of the record, though its reply
\* may be lost; otherwise it is CancelTurn.
CancelTurnBeforeStart(k, w) ==
    /\ w \in up /\ can[k].pc \in {"off", "refused"} /\ Creates
    /\ rec' = [NewRecord EXCEPT !.status = "cancelled", !.cancellation = k, !.early = TRUE]
    /\ \/ can' = [can EXCEPT ![k] = [pc |-> "terminal", at |-> None]] /\ UNCHANGED faults
       \/ can' = [can EXCEPT ![k] = [pc |-> "refused", at |-> None]] /\ Spend("store")
    /\ UNCHANGED <<expired, run, up, obs, starts, forwards>>

\* cancelTurn up to its update.
CancelTurn(k, w) ==
    LET result == IF rec.status = "absent" THEN "refused"
                  ELSE IF IsTerminal THEN "terminal"
                  ELSE IF rec.cancellation \notin {None, k} THEN "refused"
                  ELSE IF rec.cancellation = k THEN "requested" ELSE "update"
    IN  /\ w \in up /\ can[k].pc \in {"off", "refused"}
        /\ can' = [can EXCEPT ![k] = [pc |-> result,
                                      at |-> IF result = "update" THEN w ELSE None]]
        /\ run' = IF result = "requested" THEN Kicked(w) ELSE run
        /\ UNCHANGED <<rec, expired, up, obs, starts, forwards, faults>>

\* The update of cancelTurn writes whatever the record has become.
RecordCancellation(k) ==
    LET done(result) == can' = [can EXCEPT ![k] = [pc |-> result, at |-> None]]
        written == rec' = [rec EXCEPT !.cancellation = k]
    IN  /\ can[k].pc = "update"
        /\ \/ written /\ done("requested") /\ run' = Kicked(can[k].at) /\ UNCHANGED faults
           \/ /\ Spend("store") /\ done("refused") /\ UNCHANGED run
              /\ written \/ UNCHANGED rec
        /\ UNCHANGED <<expired, up, obs, starts, forwards>>

------------------------------------------------
\* Observation.

\* observationStart: the first event with the cursor.  A later attempt may
\* repeat the cursors of an earlier one.
ObservationStart(cursor) ==
    IF cursor = -1 THEN 0
    ELSE CHOOSE i \in 1..Len(rec.events) :
           /\ rec.events[i].frame = cursor
           /\ \A j \in 1..(i - 1) : rec.events[j].frame # cursor

Observing(o, w) ==
    obs' = [obs EXCEPT ![o] = [@ EXCEPT !.pc = "open", !.at = w, !.terminal = "none",
                                       !.count = ObservationStart(obs[o].cursor),
                                       !.loaded = ObservationStart(obs[o].cursor)]]

\* startTurn: creates the record or finds its own, and observes it.
StartTurn(o, w) ==
    /\ w \in up /\ obs[o].pc = "off"
    /\ \/ /\ Observing(o, w) /\ rec' = (IF Creates THEN NewRecord ELSE rec)
          /\ run' = IF rec.early THEN run ELSE Kicked(w)
          /\ UNCHANGED faults
       \/ /\ Spend("store") /\ UNCHANGED <<obs, run>>
          /\ (Creates /\ rec' = NewRecord) \/ UNCHANGED rec
    /\ UNCHANGED <<expired, up, can, starts, forwards>>

\* resumeTurn of an observer whose connection was lost.
ResumeTurn(o, w) ==
    /\ w \in up /\ obs[o].pc = "lost" /\ Observing(o, w)
    /\ run' = IF IsOpen THEN Kicked(w) ELSE run
    /\ UNCHANGED <<rec, expired, up, can, starts, forwards, faults>>

\* One turn of the observation's loop: load the record ...
Load(o) ==
    /\ obs[o].pc = "open" /\ obs[o].count = obs[o].loaded /\ obs[o].terminal = "none"
    /\ obs' = [obs EXCEPT ![o].loaded = Len(rec.events),
                          ![o].terminal = IF IsTerminal THEN rec.status ELSE "none"]
    /\ UNCHANGED <<rec, expired, run, up, can, starts, forwards, faults>>

\* ... yield its new events one by one ...
Yield(o) ==
    LET i == obs[o].count + 1
    IN  /\ obs[o].pc = "open" /\ i <= obs[o].loaded
        /\ obs' = [obs EXCEPT ![o].count = i, ![o].cursor = rec.events[i].frame,
                              ![o].seen = @ \cup {i}]
        /\ UNCHANGED <<rec, expired, run, up, can, starts, forwards, faults>>

\* ... and end when that record was terminal.
EndsWith(o) == obs[o].terminal

ObservationEnds(o) ==
    /\ obs[o].pc = "open" /\ obs[o].count = obs[o].loaded /\ EndsWith(o) # "none"
    /\ obs' = [obs EXCEPT ![o].pc = "done", ![o].terminal = EndsWith(o)]
    /\ UNCHANGED <<rec, expired, run, up, can, starts, forwards, faults>>

Disconnect(o) ==
    /\ obs[o].pc = "open" /\ Spend("disconnect")
    /\ obs' = [obs EXCEPT ![o].pc = "lost", ![o].at = None]
    /\ UNCHANGED <<rec, expired, run, up, can, starts, forwards>>

------------------------------------------------
\* Processes and time.

\* recoverTurn, also for each record that recoverPending lists.
RecoverTurn(w) ==
    /\ w \in up /\ run[w].pc = "off" /\ Claimable(w)
    /\ run' = Kicked(w)
    /\ UNCHANGED <<rec, expired, up, can, obs, starts, forwards, faults>>

LeaseExpires ==
    /\ rec.owner # None /\ ~expired
    /\ expired' = TRUE
    /\ UNCHANGED <<rec, run, up, can, obs, starts, forwards, faults>>

Crash(w) ==
    /\ w \in up /\ Spend("crash")
    /\ up' = up \ {w} /\ Go(w, Off)
    /\ obs' = [o \in Observers |-> IF obs[o].at = w
                 THEN [obs[o] EXCEPT !.pc = IF @ = "open" THEN "lost" ELSE @, !.at = None]
                 ELSE obs[o]]
    /\ can' = [k \in CancelKeys |-> IF can[k].at = w THEN [pc |-> "refused", at |-> None]
                                    ELSE can[k]]
    /\ UNCHANGED <<rec, expired, starts, forwards>>

Restart(w) ==
    /\ w \notin up /\ up' = up \cup {w}
    /\ UNCHANGED <<rec, expired, run, can, obs, starts, forwards, faults>>

Init ==
    /\ rec = [NewRecord EXCEPT !.status = "absent"] /\ expired = FALSE
    /\ run = [w \in Workers |-> Off] /\ up = Workers
    /\ can = [k \in CancelKeys |-> [pc |-> "off", at |-> None]]
    /\ obs = [o \in Observers |-> [pc |-> "off", at |-> None, count |-> 0, loaded |-> 0,
                                   terminal |-> "none", cursor |-> -1, seen |-> {}]]
    /\ starts = 0 /\ forwards = 0 /\ faults = 0

RunStep(w) ==
    \/ Claim(w) \/ Decode(w) \/ Ready(w) \/ Dispatch(w) \/ Bind(w) \/ Frame(w)
    \/ StreamEnds(w) \/ Settle(w)
ObserverStep(o) == Load(o) \/ Yield(o) \/ ObservationEnds(o)

Next ==
    \/ \E w \in Workers : \/ RunStep(w) \/ DecodeRenew(w) \/ Monitor(w)
                           \/ RecoverTurn(w) \/ Crash(w) \/ Restart(w)
    \/ \E k \in CancelKeys : \/ RecordCancellation(k)
                              \/ \E w \in Workers : CancelTurn(k, w) \/ CancelTurnBeforeStart(k, w)
    \/ \E o \in Observers : \/ ObserverStep(o) \/ Disconnect(o)
                             \/ \E w \in Workers : StartTurn(o, w) \/ ResumeTurn(o, w)
    \/ LeaseExpires

Spec == Init /\ [][Next]_vars

\* A live process continues its run and its observations, the clock goes on,
\* a dead process is restarted and hosts scan for recoverable turns.
Fairness ==
    /\ \A w \in Workers : WF_vars(RunStep(w)) /\ WF_vars(RecoverTurn(w)) /\ WF_vars(Restart(w))
    /\ \A o \in Observers : WF_vars(ObserverStep(o))
    /\ WF_vars(LeaseExpires)

FairSpec == Spec /\ Fairness
------------------------------------------------
\* Properties.

\* The record holds the frames of one attempt after those of the one before:
\* a worker that lost the turn adds nothing, although its run goes on.
AttemptsInOrder ==
    \A i, j \in 1..Len(rec.events) : i <= j => rec.events[i].attempt <= rec.events[j].attempt

\* A closed record keeps its status and its events: no append, claim or
\* settlement of another worker that raced the one that closed it.
ClosedIsFinal ==
    [][IsTerminal => rec'.status = rec.status /\ rec'.events = rec.events]_vars

\* A cancellation that the record holds while the turn is open keeps the
\* turn from completing, even if its delegate completes.
CancellationHonoured == [][IsOpen /\ rec.cancellation # None => rec'.status # "completed"]_vars

\* The delegate of a turn is asked to cancel once, whoever runs the turn.
ForwardedOnce == forwards <= 1

\* A turn that was cancelled before it started is never started.
CancelledEarlyNeverRuns == rec.early => starts = 0

\* An observation that ended has shown its client all of the record, over
\* all its connections, and ended as the record did.
ObserverComplete ==
    \A o \in Observers : obs[o].pc = "done" =>
        obs[o].seen = 1..Len(rec.events) /\ obs[o].terminal = rec.status

\* A resumed observation skips nothing: what a client saw has no gaps.
NothingSkipped == \A o \in Observers : \A i \in obs[o].seen : 1..i \subseteq obs[o].seen

\* Leases, takeovers, cancellations and reconnections leave the record and
\* its readers right: frames in the order of attempts, one forwarded
\* cancellation, none run that was cancelled early, and observers that miss
\* nothing and end as the record did (durable.ts:135-426).
TransportSafe ==
    /\ AttemptsInOrder /\ ForwardedOnce /\ CancelledEarlyNeverRuns
    /\ ObserverComplete /\ NothingSkipped

\* No step reopens or changes a closed record, or completes a turn whose
\* cancellation the record holds (durable.ts:207-219).
RecordMovesOn == ClosedIsFinal /\ CancellationHonoured

\* A turn whose record exists is closed: some worker finishes it, or its
\* attempts run out, whatever process or lease is lost.
RecordEnds == IsOpen ~> IsTerminal

\* An observation ends, with the record's result or with its connection.
ObservationsEnd == \A o \in Observers : obs[o].pc = "open" ~> obs[o].pc \in {"done", "lost"}

\* The record of a turn is closed and every observation of it ends, whatever
\* worker died with the lease or stopped polling (durable.ts:282-398).
TransportEnds == RecordEnds /\ ObservationsEnd
================================================
