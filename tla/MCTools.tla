---------------- MODULE MCTools ----------------
(***************************************************************************)
(* An instance for TLC of everything that runs tools: approvals and their  *)
(* execution, the executor of one process, and the two tool loops.  They   *)
(* share no state here, so a behaviour is about one of them, its focus.    *)
(***************************************************************************)
EXTENDS ApprovedTools, ToolExecutor, ToolLoop

VARIABLE focus
mcVars == <<toolVars, executorVars, loopVars, focus>>

MCDecision == [k1 |-> [proposal |-> "p", status |-> "confirmed"],
               k2 |-> [proposal |-> "p", status |-> "rejected"],
               k3 |-> [proposal |-> "q", status |-> "confirmed"]]
\* A worker takes over the call of another while two decisions compete; two
\* calls decided as one group; a group decision that fails, names a proposal
\* that is not there or misses one.
Takeover(store, faults) ==
    [store |-> store, decisions |-> {"k1", "k2"}, group |-> <<>>, lapses |-> {"p"},
     call |-> [a |-> "p", b |-> "p"], route |-> [a |-> "await", b |-> "resume"],
     faults |-> faults]
Pair == [store |-> "postgres", decisions |-> {}, group |-> <<"k1", "k3">>, lapses |-> {},
         call |-> [a |-> "p", b |-> "q"], route |-> [a |-> "await", b |-> "await"],
         faults |-> {}]
Single(store) ==
    [store |-> store, decisions |-> {"k1"}, group |-> <<"k1">>, lapses |-> {"p"},
     call |-> [a |-> "p"], route |-> [a |-> "await"], faults |-> {"store"}]
MCPlans == {Takeover("memory", {"denial", "append", "abort"}), Takeover("postgres", {"store", "crash"}),
            Pair, Single("memory")}

\* Two requests for one call while another competes for the slot; the same
\* while one with an approval asks for another call under the same key.
Request(key, fingerprint, approval) ==
    [key |-> key, fingerprint |-> fingerprint, approval |-> approval]
MCWorkloads == {[r1 |-> Request("k", 1, FALSE), r2 |-> Request("k", 1, FALSE), r3 |-> Request("l", 2, FALSE)],
                [r1 |-> Request("k", 1, FALSE), r2 |-> Request("k", 1, TRUE), r3 |-> Request("k", 2, TRUE)],
                [r1 |-> Request("k", 1, FALSE), r2 |-> Request("k", 2, FALSE), r3 |-> Request("l", 3, TRUE)]}

MCInit ==
    /\ focus \in {"approval", "executor", "loop", "stream"}
    /\ ToolsInit /\ ExecutorInit
    /\ focus # "approval" => plan = Pair
    /\ focus # "executor" => requestOf.r3.fingerprint = 3
    /\ IF focus = "loop" THEN LoopInit ELSE StreamInit
MCNext ==
    /\ UNCHANGED focus
    /\ \/ focus = "approval" /\ ToolsNext /\ UNCHANGED <<executorVars, loopVars>>
       \/ focus = "executor" /\ ExecutorNext /\ UNCHANGED <<toolVars, loopVars>>
       \/ focus = "loop" /\ LoopNext /\ UNCHANGED <<toolVars, executorVars>>
       \/ focus = "stream" /\ StreamNext /\ UNCHANGED <<toolVars, executorVars>>

\* Something goes on while a live process can: a worker with its call, a
\* decision, which its caller repeats until it has an answer, the executor
\* and its timeouts.  No tool and no policy need ever answer.
MCProgress ==
    /\ UNCHANGED <<loopVars, focus>>
    /\ \/ /\ focus = "approval" /\ UNCHANGED executorVars
          /\ \/ \E w \in ToolWorkers : WorkerStep(w)
             \/ GroupStep /\ UNCHANGED approvedVars
             \/ \E k \in DecisionKeys : (Decide(k) \/ DecisionStep(k)) /\ UNCHANGED approvedVars
       \/ /\ focus = "executor" /\ UNCHANGED toolVars
          /\ \E r \in Requests : ExecutorStep(r) \/ AbortCall(r)
MCFairness == WF_mcVars(MCProgress)
MCSpec == MCInit /\ [][MCNext]_mcVars /\ MCFairness
================================================
