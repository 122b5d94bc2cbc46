---------------- MODULE Approvals ----------------
(***************************************************************************)
(* Human approval of a tool call: the proposal store (the in-memory store  *)
(* of conversation/approval-proposal-store.ts and the Postgres one of      *)
(* postgres/index.ts), the conversation's audit events about proposals,    *)
(* and the decision coordinator of conversation/approval-coordinator.ts.   *)
(*                                                                         *)
(* A decision is two writes with a gap between them: the store's versioned *)
(* transition, then the audit event.  A proposal is represented by the     *)
(* statuses it has had, so its version is the length of its history; the   *)
(* store keeps the last status and the version.  Texts, arguments, actors  *)
(* and timestamps are left out, except that the clock may pass expires_at. *)
(***************************************************************************)
EXTENDS Integers, Sequences, SequencesExt

CONSTANTS
    Proposals,          \* proposal ids
    DecisionKeys,       \* idempotency keys of decisions
    Decision,           \* Decision[k]: the proposal and status that key k asks for
    Plans,              \* the workloads explored: the store, the decisions made, the decision
                        \* keys of one group decision in proposal order, the proposals that
                        \* may lapse, what each worker runs and the faults that may happen
    MaxIdempotency,     \* limits.maxIdempotencyRecords of the in-memory store
    MaxRetries,         \* bound: how often a caller repeats one decision
    MaxApprovalFaults   \* bound: faults in a behaviour

ASSUME ApprovalsAssumption ==
    /\ Decision \in [DecisionKeys -> [proposal : Proposals, status : {"confirmed", "rejected", "expired"}]]
    /\ MaxIdempotency \in Nat \ {0} /\ MaxRetries \in Nat /\ MaxApprovalFaults \in Nat
    /\ \A pl \in Plans : pl.group \in Seq(DecisionKeys) /\ pl.lapses \subseteq Proposals

VARIABLES
    plan,       \* the workload
    history,    \* history[p]: the statuses of proposal p so far, <<>> before it is created
    idem,       \* the retained idempotency records, oldest first
    due,        \* the proposals whose expires_at the clock has passed
    log,        \* the conversation's proposal events, in revision order
    dec,        \* dec[k]: the call deciding with key k
    grp,        \* the group decision
    apFaults    \* the faults so far

approvalVars == <<plan, history, idem, due, log, dec, grp, apFaults>>

DecisionStatus == {"confirmed", "rejected", "expired"}
ExecutionStatus == {"executing", "executed", "failed"}
ProposalStatus == {"pending"} \cup DecisionStatus \cup ExecutionStatus

\* APPROVAL_PROPOSAL_TRANSITIONS: what may follow a status.
IsLegalTransition(from, to) ==
    \/ from = "pending" /\ to \in DecisionStatus
    \/ from = "confirmed" /\ to = "executing"
    \/ from = "executing" /\ to \in {"executed", "failed"}
    \/ from = "failed" /\ to = "executing"

Version(p) == Len(history[p])
Status(p) == IF history[p] = <<>> THEN "absent" ELSE Last(history[p])
Record(p) == [proposal |-> p, version |-> Version(p), status |-> Status(p)]
NoRecord == [proposal |-> "none", version |-> 0, status |-> "absent"]

\* The in-memory store evicts its oldest record when it is full; Postgres
\* keeps every one.
RetainIdempotency(key, request, result) ==
    LET room == IF plan.store = "memory" /\ Len(idem) >= MaxIdempotency THEN Tail(idem) ELSE idem
    IN  Append(room, [key |-> key, request |-> request, result |-> result])
Retained(key) == {idem[i] : i \in {j \in DOMAIN idem : idem[j].key = key}}

\* What create answers for a request with this expiry, which is in the
\* future.  The request's signature holds expires_at, so a repeat with
\* another expiry conflicts.
CreateKey(p) == <<"create", p>>
CreateCode(p, expiry) ==
    LET kept == Retained(CreateKey(p)) IN
    IF \E r \in kept : r.request = expiry THEN "replayed"
    ELSE IF kept # {} \/ history[p] # <<>> THEN "idempotency_conflict"
    ELSE "moved"
CreateProposal(p, expiry) ==
    IF CreateCode(p, expiry) = "moved"
    THEN /\ history' = [history EXCEPT ![p] = <<"pending">>]
         /\ idem' = RetainIdempotency(CreateKey(p), expiry,
                        [proposal |-> p, version |-> 1, status |-> "pending"])
    ELSE UNCHANGED <<history, idem>>

\* expireIfDue: reading a pending proposal whose time has passed expires it.
IsLapsed(p) == Status(p) = "pending" /\ p \in due
ExpireIfDue(ps) ==
    history' = [p \in Proposals |->
        IF p \in ps /\ IsLapsed(p) THEN Append(history[p], "expired") ELSE history[p]]
SeenBy(p) == IF IsLapsed(p)
             THEN [proposal |-> p, version |-> Version(p) + 1, status |-> "expired"]
             ELSE Record(p)

\* What transition answers.  A pending proposal whose time has passed is
\* refused; the in-memory store expires it on the way, the Postgres
\* transaction rolls back and leaves that to the next read.
TransitionRequest(p, expected, to) == [proposal |-> p, expected |-> expected, to |-> to]
TransitionCode(key, p, expected, to) ==
    LET kept == Retained(key) IN
    IF kept # {} THEN
        IF \E r \in kept : r.request = TransitionRequest(p, expected, to)
        THEN "replayed" ELSE "idempotency_conflict"
    ELSE IF Status(p) = "absent" THEN "not_found"
    ELSE IF Version(p) # expected THEN "version_conflict"
    ELSE IF IsLapsed(p) /\ to # "expired" THEN "lapsed"
    ELSE IF to = "expired" /\ p \notin due THEN "not_expired"
    ELSE IF to = "executing" /\ p \in due THEN "invalid_transition"
    ELSE IF ~IsLegalTransition(Status(p), to) THEN "invalid_transition"
    ELSE "moved"
Transition(key, p, expected, to) ==
    LET code == TransitionCode(key, p, expected, to) IN
    /\ IF code = "moved" THEN history' = [history EXCEPT ![p] = Append(@, to)]
       ELSE IF code = "lapsed" /\ plan.store = "memory" THEN ExpireIfDue({p})
       ELSE UNCHANGED history
    /\ idem' = IF code = "moved"
               THEN RetainIdempotency(key, TransitionRequest(p, expected, to),
                        [proposal |-> p, version |-> expected + 1, status |-> to])
               ELSE idem
\* The record a successful transition returns: on a replay the retained one.
TransitionResult(key, p, expected, to) ==
    IF Retained(key) # {} THEN (CHOOSE r \in Retained(key) : TRUE).result
    ELSE [proposal |-> p, version |-> expected + 1, status |-> to]

\* Appending an event with a fixed identity: getLatestRevision and append
\* repeat until no other writer intervenes; if the identity is already there
\* the caller compares the event it finds with its own.
EventOf(id, rec) == [id |-> id, proposal |-> rec.proposal, version |-> rec.version,
                     status |-> rec.status]
HasEvent(id) == \E i \in DOMAIN log : log[i].id = id
Matches(id, rec) == \E i \in DOMAIN log : log[i] = EventOf(id, rec)
AppendOnce(id, rec) == log' = IF HasEvent(id) THEN log ELSE Append(log, EventOf(id, rec))

Fault(kind) == /\ kind \in plan.faults /\ apFaults < MaxApprovalFaults
               /\ apFaults' = apFaults + 1
------------------------------------------------
\* The decision coordinator.
DecisionOutcome == {"accepted", "conflict", "forbidden", "expired", "already_decided",
                    "not_found", "invalid_input", "cancelled", "persistence_failure", "lost"}
Repeatable == {"persistence_failure", "lost"}
DecisionCall == [pc : {"idle", "transition", "classify", "append", "end"},
                 outcome : DecisionOutcome \cup {"none"}, tries : 0..MaxRetries,
                 stored : [proposal : Proposals \cup {"none"}, version : Nat,
                           status : ProposalStatus \cup {"absent"}]]
NoDecision == [pc |-> "idle", outcome |-> "none", tries |-> 0, stored |-> NoRecord]
GroupCall == [pc : {"idle", "run", "end"}, at : 0..Len(plan.group),
              outcome : {"none", "completed", "partial", "invalid_input", "persistence_failure"}]

CreatedEventId(p) == <<"created", p>>
DecisionEventId(k) == <<"decision", k>>
DecisionKey(k) == <<"decide", k>>
Ends(k, outcome) == dec' = [dec EXCEPT ![k].pc = "end", ![k].outcome = outcome]
InGroup(k) == \E i \in DOMAIN plan.group : plan.group[i] = k

\* decide(): a caller asks, and repeats a call that failed or was lost with
\* the same key.  The targets of a group are decided by decideGroup alone.
\* The gateway knows no proposal whose creation is not in the log.
Decide(k) ==
    /\ k \in plan.decisions
    /\ InGroup(k) => dec[k].pc = "end"
    /\ \/ dec[k].pc = "idle"
       \/ dec[k].outcome \in Repeatable /\ dec[k].tries < MaxRetries
    /\ IF HasEvent(CreatedEventId(Decision[k].proposal))
       THEN dec' = [dec EXCEPT ![k] = [pc |-> "transition", outcome |-> "none", stored |-> NoRecord,
                                       tries |-> IF @.pc = "idle" THEN 0 ELSE @.tries + 1]]
       ELSE Ends(k, "not_found")
    /\ UNCHANGED <<plan, history, idem, due, log, grp, apFaults>>

\* The host's authorization refuses, or the caller aborts before the store
\* is touched.
DecisionDenied(k) ==
    /\ dec[k].pc = "transition" /\ Fault("denial")
    /\ \E outcome \in {"forbidden", "cancelled"} : Ends(k, outcome)
    /\ UNCHANGED <<plan, history, idem, due, log, grp>>

\* Mutant: a proposal that someone else decided counts as decided.
DecisionTransitionLenient(k) ==
    LET p == Decision[k].proposal  to == Decision[k].status
        code == TransitionCode(DecisionKey(k), p, 1, to)
    IN  /\ dec[k].pc = "transition"
        /\ Transition(DecisionKey(k), p, 1, to)
        /\ \/ /\ code \in {"moved", "replayed", "version_conflict"}
              /\ dec' = [dec EXCEPT ![k].pc = "append", ![k].stored = Record(p)']
           \/ code = "lapsed" /\ dec' = [dec EXCEPT ![k].pc = "classify"]
           \/ code \notin {"moved", "replayed", "version_conflict", "lapsed"} /\ Ends(k, "conflict")
        /\ UNCHANGED <<plan, due, log, grp, apFaults>>
\* Mutant: a replayed transition is taken for a finished decision.
DecisionTransitionShort(k) ==
    LET p == Decision[k].proposal  to == Decision[k].status
        code == TransitionCode(DecisionKey(k), p, 1, to)
    IN  /\ dec[k].pc = "transition"
        /\ Transition(DecisionKey(k), p, 1, to)
        /\ IF code = "moved"
           THEN dec' = [dec EXCEPT ![k].pc = "append", ![k].stored = Record(p)']
           ELSE Ends(k, IF code = "replayed" THEN "accepted" ELSE "conflict")
        /\ UNCHANGED <<plan, due, log, grp, apFaults>>
\* store.transition, and the outcome of each of its refusals.
DecisionTransition(k) ==
    LET p == Decision[k].proposal  to == Decision[k].status
        code == TransitionCode(DecisionKey(k), p, 1, to)
    IN  /\ dec[k].pc = "transition"
        /\ Transition(DecisionKey(k), p, 1, to)
        /\ \/ /\ code \in {"moved", "replayed"}
              /\ dec' = [dec EXCEPT ![k].pc = "append",
                                    ![k].stored = TransitionResult(DecisionKey(k), p, 1, to)]
           \/ /\ code \in {"version_conflict", "invalid_transition", "lapsed"}
              /\ dec' = [dec EXCEPT ![k].pc = "classify"]
           \/ code = "not_found" /\ Ends(k, "not_found")
           \/ code = "idempotency_conflict" /\ Ends(k, "conflict")
           \/ code = "not_expired" /\ Ends(k, "invalid_input")
        /\ UNCHANGED <<plan, due, log, grp, apFaults>>

\* The store is unavailable, before or after its write took effect.
DecisionStoreFails(k) ==
    LET p == Decision[k].proposal  to == Decision[k].status
    IN  /\ dec[k].pc = "transition" /\ Fault("store")
        /\ \/ UNCHANGED <<history, idem>>
           \/ Transition(DecisionKey(k), p, 1, to)
        /\ Ends(k, "persistence_failure")
        /\ UNCHANGED <<plan, due, log, grp>>

\* classifyCurrentProposal reads the proposal again, which may expire it.
ClassifyCurrentProposal(k) ==
    LET p == Decision[k].proposal  seen == SeenBy(p).status
    IN  /\ dec[k].pc = "classify"
        /\ ExpireIfDue({p})
        /\ Ends(k, IF seen = "expired" THEN "expired"
                   ELSE IF seen = "pending" THEN "conflict" ELSE "already_decided")
        /\ UNCHANGED <<plan, idem, due, log, grp, apFaults>>

\* appendDecisionEvent and reconcileEvent.
AppendDecisionEvent(k) ==
    /\ dec[k].pc = "append"
    /\ AppendOnce(DecisionEventId(k), dec[k].stored)
    /\ Ends(k, IF HasEvent(DecisionEventId(k)) /\ ~Matches(DecisionEventId(k), dec[k].stored)
               THEN "conflict" ELSE "accepted")
    /\ UNCHANGED <<plan, history, idem, due, grp, apFaults>>

\* The append fails, or succeeds and its answer is lost.
DecisionAppendFails(k) ==
    /\ dec[k].pc = "append" /\ Fault("append")
    /\ \/ UNCHANGED log
       \/ AppendOnce(DecisionEventId(k), dec[k].stored)
    /\ Ends(k, "persistence_failure")
    /\ UNCHANGED <<plan, history, idem, due, grp>>

\* The deciding process dies between its steps; the caller sees no answer.
DecisionCrash(k) ==
    /\ dec[k].pc \in {"transition", "classify", "append"} /\ Fault("crash")
    /\ Ends(k, "lost")
    /\ UNCHANGED <<plan, history, idem, due, log, grp>>

\* decideGroup, once the group's proposals are in the log: the targets must
\* be exactly those proposals, and are then decided one after the other.
DecideGroup ==
    /\ grp.pc = "idle" /\ plan.group # <<>>
    /\ \A p \in Proposals : history[p] # <<>> => HasEvent(CreatedEventId(p))
    /\ \E p \in Proposals : history[p] # <<>>
    /\ ExpireIfDue(Proposals)
    /\ grp' = IF {Decision[plan.group[i]].proposal : i \in DOMAIN plan.group} =
                  {p \in Proposals : history[p] # <<>>}
              THEN [pc |-> "run", at |-> 0, outcome |-> "none"]
              ELSE [pc |-> "end", at |-> 0, outcome |-> "invalid_input"]
    /\ UNCHANGED <<plan, idem, due, log, dec, apFaults>>

GroupListFails ==
    /\ grp.pc = "idle" /\ plan.group # <<>> /\ Fault("store")
    /\ grp' = [pc |-> "end", at |-> 0, outcome |-> "persistence_failure"]
    /\ UNCHANGED <<plan, history, idem, due, log, dec>>

GroupStep ==
    LET ended == grp.at > 0 => dec[plan.group[grp.at]].pc = "end"
        next == plan.group[grp.at + 1]
        complete == \A i \in DOMAIN plan.group : dec[plan.group[i]].outcome = "accepted"
    IN  /\ grp.pc = "run" /\ ended
        /\ \/ /\ grp.at < Len(plan.group)
              /\ grp' = [grp EXCEPT !.at = @ + 1]
              /\ dec' = [dec EXCEPT ![next].pc = "transition"]
           \/ /\ grp.at = Len(plan.group)
              /\ grp' = [grp EXCEPT !.pc = "end",
                                    !.outcome = IF complete THEN "completed" ELSE "partial"]
              /\ UNCHANGED dec
        /\ UNCHANGED <<plan, history, idem, due, log, apFaults>>

\* The clock passes a proposal's expires_at.
Lapse(p) ==
    /\ p \in plan.lapses /\ history[p] # <<>> /\ p \notin due
    /\ due' = due \cup {p}
    /\ UNCHANGED <<plan, history, idem, log, dec, grp, apFaults>>

ApprovalInit ==
    /\ plan \in Plans
    /\ history = [p \in Proposals |-> <<>>]
    /\ idem = <<>> /\ due = {} /\ log = <<>> /\ apFaults = 0
    /\ dec = [k \in DecisionKeys |-> NoDecision]
    /\ grp = [pc |-> "idle", at |-> 0, outcome |-> "none"]

DecisionStep(k) ==
    \/ DecisionTransition(k) \/ ClassifyCurrentProposal(k) \/ AppendDecisionEvent(k)
ApprovalNext ==
    \/ \E k \in DecisionKeys :
          \/ Decide(k) \/ DecisionStep(k)
          \/ DecisionDenied(k) \/ DecisionStoreFails(k) \/ DecisionAppendFails(k) \/ DecisionCrash(k)
    \/ DecideGroup \/ GroupListFails \/ GroupStep
    \/ \E p \in Proposals : Lapse(p)
------------------------------------------------
\* The audit log tells the store's history: every proposal event names a
\* version the proposal has reached with the status it had then, no version
\* is told twice, and a proposal's events are in version order.  Decisions
\* and executions append their events after, and apart from, the transition
\* they report, with retries, takeovers and lost answers in between.
AuditTellsHistory ==
    \A i \in DOMAIN log :
        /\ log[i].version \in DOMAIN history[log[i].proposal]
        /\ history[log[i].proposal][log[i].version] = log[i].status
        /\ \A j \in DOMAIN log :
              i < j /\ log[i].proposal = log[j].proposal => log[i].version < log[j].version

\* "approvals exactly once, including stale and repeated decisions"
\* (docs/adoption-standard.md): a call that is told "accepted" has its own
\* decision in the store and in the log, and no two keys are told so about
\* one proposal, whatever was retried, lost, evicted or decided concurrently
AcceptedOnce ==
    \A k \in DecisionKeys : dec[k].outcome = "accepted" =>
        /\ history[Decision[k].proposal][2] = Decision[k].status
        /\ \E i \in DOMAIN log : log[i].id = DecisionEventId(k)
        /\ \A l \in DecisionKeys \ {k} :
              Decision[l].proposal = Decision[k].proposal => dec[l].outcome # "accepted"

\* A decision that reached the store reaches the audit log in the end:
\* without its event a confirmed proposal could never be executed.  The
\* caller's repeats carry it there, because the store still answers the key.
StoredDecisionIsLogged ==
    <>[](\A k \in DecisionKeys : Retained(DecisionKey(k)) # {} => HasEvent(DecisionEventId(k)))
================================================
