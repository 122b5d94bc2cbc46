---------------- MODULE ApprovedTools ----------------
(***************************************************************************)
(* Running a tool that needs approval: server processes (workers) that     *)
(* create the proposal and poll it (awaitApproval of server/assistant.ts), *)
(* or resume it with the host's evidence (resolveApprovalResume of         *)
(* tools/loop.ts), claim its execution (tools/approval-execution.ts), run  *)
(* the tool behind the durable ledger (executeAuthorized of                *)
(* tools/executor.ts over getOrExecuteTool of postgres/index.ts) and       *)
(* settle the proposal.  A worker may die anywhere and another may already *)
(* be running: both use the execution identity derived from the call.      *)
(***************************************************************************)
EXTENDS Approvals, FiniteSets

CONSTANT ToolWorkers    \* processes, each running one call

ASSUME ToolPlansAssumption ==
    \A pl \in Plans : /\ DOMAIN pl.call \subseteq ToolWorkers
                      /\ \A w \in DOMAIN pl.call : pl.call[w] \in Proposals

VARIABLES
    wrk,        \* wrk[w]: the run of w
    ledger,     \* ledger[p]: the durable ledger's row for the call
    invoked,    \* invoked[p]: how often the tool was dispatched
    returned    \* returned[p]: what the tool's dispatches have returned

approvedVars == <<wrk, ledger, invoked, returned>>
toolVars == <<plan, history, idem, due, log, dec, grp, apFaults, wrk, ledger, invoked, returned>>

WorkerPc == {"idle", "record", "poll", "get", "audit", "transition", "append", "admit", "start",
             "acquire", "invoke", "settle", "settleAppend", "save", "end", "dead"}
\* result is what the loop is given; expected and claimed the versions the
\* claim is about; repair whether the claim repairs a missing audit event.
Worker == [pc : WorkerPc, seen : [proposal : Proposals \cup {"none"}, version : Nat,
                                  status : ProposalStatus \cup {"absent"}],
           expected : Nat, claimed : Nat, repair : BOOLEAN, aborted : BOOLEAN,
           verdict : {"none", "executed", "failed"},
           result : {"none", "success", "error", "approval_required", "conflict"}]
NewWorker == [pc |-> "idle", seen |-> NoRecord, expected |-> 0, claimed |-> 0, repair |-> FALSE,
              aborted |-> FALSE, verdict |-> "none", result |-> "none"]

LifecycleEventId(p, status) == <<"execution", p, status>>
TransitionKey(p, status) == <<"execute", p, status>>

\* The proposal of the call that w runs, and how: "await" (awaitApproval) or
\* "resume" (a resumed tool loop).
CallOf(w) == plan.call[w]
Route(w) == plan.route[w]
Alive(w) == wrk[w].pc \notin {"idle", "end", "dead"}
\* A result already returned to an aborted caller is not replaced.
Returns(w, result) ==
    wrk' = [wrk EXCEPT ![w].pc = "end", ![w].result = IF @ = "none" THEN result ELSE @]
Goes(w, pc) == wrk' = [wrk EXCEPT ![w].pc = pc]
KeepApprovals == UNCHANGED <<plan, history, idem, due, log, dec, grp, apFaults>>
KeepTools == UNCHANGED <<ledger, invoked, returned>>
------------------------------------------------
\* awaitApproval creates the proposal under a key derived from the call,
\* with an expiry computed from its own clock.
AwaitApproval(w) ==
    LET p == CallOf(w)  code == CreateCode(p, w) IN
    /\ w \in DOMAIN plan.call /\ wrk[w].pc = "idle" /\ Route(w) = "await"
    /\ CreateProposal(p, w)
    /\ IF code = "idempotency_conflict" THEN Returns(w, "conflict") ELSE Goes(w, "record")
    /\ UNCHANGED <<plan, due, log, dec, grp, apFaults>> /\ KeepTools

\* recordProposalCreated: an event that is already there with another
\* revision is an idempotency conflict, which it rethrows.
RecordProposalCreated(w) ==
    LET p == CallOf(w) IN
    /\ wrk[w].pc = "record"
    /\ AppendOnce(CreatedEventId(p), [proposal |-> p, version |-> 1, status |-> "pending"])
    /\ IF HasEvent(CreatedEventId(p)) THEN Returns(w, "conflict") ELSE Goes(w, "poll")
    /\ UNCHANGED <<plan, history, idem, due, dec, grp, apFaults>> /\ KeepTools

\* One poll of the wait; the wait ends when it times out or is aborted.
Poll(w) ==
    LET p == CallOf(w)  seen == SeenBy(p) IN
    /\ wrk[w].pc = "poll"
    /\ ExpireIfDue({p})
    /\ \/ /\ seen.status = "confirmed"
          /\ wrk' = [wrk EXCEPT ![w].pc = "get", ![w].expected = seen.version]
       \/ /\ seen.status \in {"executing", "executed"}
          /\ wrk' = [wrk EXCEPT ![w].pc = "get", ![w].expected = 2]
       \/ /\ seen.status \in {"rejected", "expired", "failed"}
          /\ Returns(w, "error")
       \/ /\ wrk[w].aborted \/ p \in due
          /\ Returns(w, "error")
    /\ UNCHANGED <<plan, idem, due, log, dec, grp, apFaults>> /\ KeepTools

\* A resumed tool loop: the host's resolver offers the confirmed version, or
\* nothing, and then the executor pauses for approval.
ResumeCall(w) ==
    /\ w \in DOMAIN plan.call /\ wrk[w].pc = "idle" /\ Route(w) = "resume" /\ history[CallOf(w)] # <<>>
    /\ \/ wrk' = [wrk EXCEPT ![w].pc = "get", ![w].expected = 2]
       \/ Returns(w, "approval_required")
    /\ KeepApprovals /\ KeepTools

\* claim(): the proposal is read first ...
ClaimGet(w) ==
    LET p == CallOf(w) IN
    /\ wrk[w].pc = "get"
    /\ ExpireIfDue({p})
    /\ IF wrk[w].aborted THEN Returns(w, "error")
       ELSE wrk' = [wrk EXCEPT ![w].pc = "audit", ![w].seen = SeenBy(p)]
    /\ UNCHANGED <<plan, idem, due, log, dec, grp, apFaults>> /\ KeepTools

\* ... the audit events later: readProposalAudit, matchesProposalIdentity
\* and hasExactConfirmation.
Confirmed(p, expected) ==
    /\ HasEvent(CreatedEventId(p))
    /\ \E i \in DOMAIN log : /\ log[i].proposal = p /\ log[i].status = "confirmed"
                             /\ log[i].version = expected
\* Mutant: the status is trusted without the confirmation in the log.
HasConfirmedStatus(w) == wrk[w].seen.status \notin {"pending", "rejected", "expired"}
HasExactConfirmation(w) ==
    /\ wrk[w].seen.status \notin {"pending", "rejected", "expired"}
    /\ Confirmed(CallOf(w), wrk[w].expected)
\* repairMissingLifecycleAudit: a transition whose event was never appended.
MissingAudit(w) ==
    LET p == CallOf(w)  seen == wrk[w].seen.status IN
    \/ seen = "executing" /\ ~HasEvent(LifecycleEventId(p, "executing"))
    \/ /\ seen \in {"executed", "failed"}
       /\ \A s \in {"executed", "failed"} : ~HasEvent(LifecycleEventId(p, s))
\* The ledger of the assistant cannot be read by identity, so a reused
\* execution has no result to return.
ClaimAudit(w) ==
    /\ wrk[w].pc = "audit"
    /\ \/ /\ ~HasExactConfirmation(w)
          /\ Returns(w, IF wrk[w].seen.status = "pending" THEN "approval_required" ELSE "error")
       \/ /\ HasExactConfirmation(w) /\ wrk[w].aborted
          /\ Returns(w, "error")
       \/ /\ HasExactConfirmation(w) /\ ~wrk[w].aborted
          /\ IF wrk[w].seen.status = "confirmed" \/ MissingAudit(w)
             THEN wrk' = [wrk EXCEPT ![w].pc = "transition",
                                     ![w].repair = wrk[w].seen.status # "confirmed"]
             ELSE Returns(w, "error")
    /\ KeepApprovals /\ KeepTools

\* The transition of a claim, or the replay of one whose event is missing:
\* every worker of the call uses the same execution identity.
ClaimStatus(w) == IF wrk[w].repair THEN wrk[w].seen.status ELSE "executing"
ClaimVersion(w) == IF ClaimStatus(w) = "executing" THEN wrk[w].expected ELSE wrk[w].expected + 1
ClaimTransition(w) ==
    LET p == CallOf(w)  to == ClaimStatus(w)  v == ClaimVersion(w)
        key == TransitionKey(p, to)  code == TransitionCode(key, p, v, to)
    IN  /\ wrk[w].pc = "transition"
        /\ Transition(key, p, v, to)
        /\ IF code \in {"moved", "replayed"}
           THEN wrk' = [wrk EXCEPT ![w].pc = "append", ![w].claimed = v + 1]
           ELSE Returns(w, "error")
        /\ UNCHANGED <<plan, due, log, dec, grp, apFaults>> /\ KeepTools

\* appendLifecycleEvent: the execution is claimed, or an ended one is reused.
ClaimAppend(w) ==
    LET p == CallOf(w)  to == ClaimStatus(w)
        rec == [proposal |-> p, version |-> wrk[w].claimed, status |-> to]
    IN  /\ wrk[w].pc = "append"
        /\ AppendOnce(LifecycleEventId(p, to), rec)
        /\ IF to = "executing" /\ (HasEvent(LifecycleEventId(p, to)) => Matches(LifecycleEventId(p, to), rec))
           THEN Goes(w, "admit") ELSE Returns(w, "error")
        /\ UNCHANGED <<plan, history, idem, due, dec, grp, apFaults>> /\ KeepTools

\* The store or the event log fails a step of the claim, before or after the
\* write took effect; the claim answers "unavailable".
ClaimFails(w) ==
    LET p == CallOf(w)  to == ClaimStatus(w) IN
    /\ \/ /\ wrk[w].pc = "transition" /\ Fault("store") /\ UNCHANGED log
          /\ \/ UNCHANGED <<history, idem>>
             \/ Transition(TransitionKey(p, to), p, ClaimVersion(w), to)
       \/ /\ wrk[w].pc = "append" /\ Fault("append") /\ UNCHANGED <<history, idem>>
          /\ \/ UNCHANGED log
             \/ AppendOnce(LifecycleEventId(p, to),
                    [proposal |-> p, version |-> wrk[w].claimed, status |-> to])
    /\ Returns(w, "error")
    /\ UNCHANGED <<plan, due, dec, grp>> /\ KeepTools
------------------------------------------------
\* Mutant: an uncertain execution is repeated.
LedgerAdmitAgain(w) ==
    LET p == CallOf(w) IN
    /\ wrk[w].pc = "admit"
    /\ ledger' = [ledger EXCEPT ![p] = "claimed"]
    /\ Goes(w, "start")
    /\ KeepApprovals /\ UNCHANGED <<invoked, returned>>
\* getOrExecuteTool commits a claim before the dispatch; a claim without a
\* result is an uncertain execution, which no one may repeat.
LedgerAdmit(w) ==
    LET p == CallOf(w) IN
    /\ wrk[w].pc = "admit"
    /\ \/ /\ ledger[p] = "absent"
          /\ ledger' = [ledger EXCEPT ![p] = "claimed"]
          /\ Goes(w, "start")
       \/ /\ ledger[p] = "claimed"
          /\ Returns(w, "error") /\ UNCHANGED ledger
       \/ /\ ledger[p] \in {"success", "error"}
          /\ Returns(w, ledger[p]) /\ UNCHANGED ledger
    /\ KeepApprovals /\ UNCHANGED <<invoked, returned>>

\* onExecutionStarted records the start; when it fails the tool is not run.
RecordStarted(w) ==
    /\ wrk[w].pc = "start"
    /\ \/ Goes(w, "acquire") /\ UNCHANGED apFaults
       \/ /\ Fault("append")
          /\ wrk' = [wrk EXCEPT ![w].pc = "settle", ![w].verdict = "failed"]
    /\ UNCHANGED <<plan, history, idem, due, log, dec, grp>> /\ KeepTools

\* A slot of the limiter, then the dispatch; an aborted call gets no slot.
Dispatch(w) ==
    LET p == CallOf(w) IN
    /\ wrk[w].pc = "acquire"
    /\ IF wrk[w].aborted
       THEN /\ wrk' = [wrk EXCEPT ![w].pc = "settle", ![w].verdict = "failed"]
            /\ UNCHANGED invoked
       ELSE /\ Goes(w, "invoke")
            /\ invoked' = [invoked EXCEPT ![p] = @ + 1]
    /\ KeepApprovals /\ UNCHANGED <<ledger, returned>>

\* The tool returns, throws, or is no longer waited for once aborted.
ToolReturns(w) ==
    LET p == CallOf(w) IN
    /\ wrk[w].pc = "invoke"
    /\ \E verdict \in {"executed", "failed"} :
          /\ wrk[w].aborted => verdict = "failed"
          /\ wrk' = [wrk EXCEPT ![w].pc = "settle", ![w].verdict = verdict]
          /\ returned' = [returned EXCEPT ![p] = @ \cup {verdict}]
    /\ KeepApprovals /\ UNCHANGED <<ledger, invoked>>

\* settle(): it runs to its end even for an aborted caller.
Settle(w) ==
    LET p == CallOf(w)  to == wrk[w].verdict  key == TransitionKey(p, to)
    IN  /\ wrk[w].pc = "settle"
        /\ Transition(key, p, wrk[w].claimed, to)
        /\ IF TransitionCode(key, p, wrk[w].claimed, to) \in {"moved", "replayed"}
           THEN Goes(w, "settleAppend")
           ELSE wrk' = [wrk EXCEPT ![w].pc = "save", ![w].verdict = "none"]
        /\ UNCHANGED <<plan, due, log, dec, grp, apFaults>> /\ KeepTools
LogsSettlement(w) ==
    LET p == CallOf(w)  to == wrk[w].verdict IN
    AppendOnce(LifecycleEventId(p, to), [proposal |-> p, version |-> wrk[w].claimed + 1, status |-> to])
SettleAppend(w) ==
    /\ wrk[w].pc = "settleAppend" /\ LogsSettlement(w)
    /\ Goes(w, "save")
    /\ UNCHANGED <<plan, history, idem, due, dec, grp, apFaults>> /\ KeepTools
\* A settlement that fails, before or after its write took effect, leaves
\* "could not be recorded" as the result.
SettleFails(w) ==
    LET p == CallOf(w)  to == wrk[w].verdict IN
    /\ \/ /\ wrk[w].pc = "settle" /\ Fault("store") /\ UNCHANGED log
          /\ \/ UNCHANGED <<history, idem>>
             \/ Transition(TransitionKey(p, to), p, wrk[w].claimed, to)
       \/ /\ wrk[w].pc = "settleAppend" /\ Fault("append") /\ UNCHANGED <<history, idem>>
          /\ UNCHANGED log \/ LogsSettlement(w)
    /\ wrk' = [wrk EXCEPT ![w].pc = "save", ![w].verdict = "none"]
    /\ UNCHANGED <<plan, due, dec, grp>> /\ KeepTools

\* The ledger retains the result, and the caller receives it.
LedgerSave(w) ==
    LET p == CallOf(w)  result == IF wrk[w].verdict = "executed" THEN "success" ELSE "error" IN
    /\ wrk[w].pc = "save"
    /\ \/ /\ ledger' = [ledger EXCEPT ![p] = result]
          /\ Returns(w, result) /\ UNCHANGED apFaults
       \/ /\ Fault("store")
          /\ Returns(w, "error") /\ UNCHANGED ledger
    /\ UNCHANGED <<plan, history, idem, due, log, dec, grp, invoked, returned>>

\* The caller aborts, or the executor's timeout fires: the caller gets an
\* error at once, what the ledger runs goes on.
Abort(w) ==
    /\ Alive(w) /\ ~wrk[w].aborted /\ Fault("abort")
    /\ wrk' = [wrk EXCEPT ![w].aborted = TRUE,
                          ![w].result = IF wrk[w].pc \in {"record", "poll"} THEN @ ELSE "error"]
    /\ UNCHANGED <<plan, history, idem, due, log, dec, grp>> /\ KeepTools

WorkerCrash(w) ==
    /\ Alive(w) /\ Fault("crash") /\ Goes(w, "dead")
    /\ UNCHANGED <<plan, history, idem, due, log, dec, grp>> /\ KeepTools

ToolsInit ==
    /\ ApprovalInit
    /\ wrk = [w \in ToolWorkers |-> NewWorker]
    /\ ledger = [p \in Proposals |-> "absent"]
    /\ invoked = [p \in Proposals |-> 0]
    /\ returned = [p \in Proposals |-> {}]

WorkerStep(w) ==
    \/ RecordProposalCreated(w) \/ Poll(w) \/ ClaimGet(w) \/ ClaimAudit(w) \/ ClaimTransition(w)
    \/ ClaimAppend(w) \/ LedgerAdmit(w) \/ RecordStarted(w) \/ Dispatch(w) \/ ToolReturns(w)
    \/ Settle(w) \/ SettleAppend(w) \/ LedgerSave(w)
ToolsNext ==
    \/ ApprovalNext /\ UNCHANGED approvedVars
    \/ \E w \in ToolWorkers :
          \/ AwaitApproval(w) \/ ResumeCall(w) \/ WorkerStep(w)
          \/ ClaimFails(w) \/ SettleFails(w) \/ Abort(w) \/ WorkerCrash(w)
ToolsSpec == ToolsInit /\ [][ToolsNext]_toolVars

------------------------------------------------
ToolsTypeOK ==
    /\ \A p \in Proposals : history[p] \in Seq(ProposalStatus) /\ invoked[p] \in Nat
    /\ \A k \in DecisionKeys : dec[k] \in DecisionCall
    /\ grp \in GroupCall /\ due \subseteq Proposals
    /\ \A w \in ToolWorkers : wrk[w] \in Worker
    /\ ledger \in [Proposals -> {"absent", "claimed", "success", "error"}]

\* The audit log tells the proposal store's history in order and once, and
\* of the decisions on a proposal one at most is told "accepted", which is
\* then the one in the store and in the log (decide, decideGroup,
\* transition, appendOnce), whatever was repeated, lost or concurrent.
AuditSound == ToolsTypeOK /\ AuditTellsHistory /\ AcceptedOnce

\* "Expired, mismatched, stale, rejected, or unauthorized proposals cannot
\* execute" (README.md): when a tool is dispatched its proposal was created,
\* confirmed at the version the worker was given and set to executing, and
\* the log says all of it, although every one of these was read or written
\* by some other step, of some other process, before.
DispatchedIsApproved ==
    [][\A p \in Proposals : invoked'[p] # invoked[p] =>
          /\ HasEvent(CreatedEventId(p)) /\ Confirmed(p, 2)
          /\ HasEvent(LifecycleEventId(p, "executing"))
          /\ SubSeq(history[p], 1, 3) = <<"pending", "confirmed", "executing">>]_toolVars

\* A side effect is dispatched at most once, whatever dies, repeats or takes
\* over and although two workers can both be told that they claimed it; and
\* what the store, the ledger and the callers are told agrees with what the
\* tool did: "executed" and success only after the tool returned, and no
\* success while the proposal or the log says otherwise.
VerdictAgrees ==
    \A p \in Proposals :
        /\ invoked[p] <= 1
        /\ Status(p) = "executed" => returned[p] = {"executed"}
        /\ ledger[p] = "success" => Status(p) = "executed" /\ HasEvent(LifecycleEventId(p, "executed"))
        /\ \A w \in DOMAIN plan.call : CallOf(w) = p /\ wrk[w].result = "success" => ledger[p] = "success"

\* A worker that takes over the wait for an approval goes on with it:
\* "Stable proposal, decision, and execution identities make confirm,
\* reject, claim, settlement, retries, and restart/resume idempotent"
\* (README.md).
ResumeIsIdempotent == \A w \in ToolWorkers : wrk[w].result # "conflict"
================================================
