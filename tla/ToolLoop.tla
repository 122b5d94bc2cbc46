---------------- MODULE ToolLoop ----------------
(***************************************************************************)
(* The two loops that answer a model's tool calls.                         *)
(*                                                                         *)
(* runToolLoop (tools/loop.ts) works on a conversation runtime: it records *)
(* discovered calls, results, approval pauses and exhausted budgets as     *)
(* durable events, and is run again by the host after a crash or a pause.  *)
(* createProviderToolLoopTransport (server/provider-tool-loop.ts) calls    *)
(* the provider directly and presents all its invocations as one stream.   *)
(*                                                                         *)
(* Turn t is the t-th turn of one logical input; the provider decides how  *)
(* it ends.  Tool results are verdicts; elapsed time is a flag.            *)
(***************************************************************************)
EXTENDS Integers, Sequences, SequencesExt, FiniteSets

CONSTANTS
    MaxIterations,      \* limits.maxIterations
    MaxTotalToolCalls,  \* limits.maxTotalToolCalls
    CallCounts,         \* how many tool calls a provider may ask for in a turn
    MaxTurns,           \* bound: turns of a behaviour
    MaxLoopRuns         \* bound: how often the host runs the loop

\* limits checks that they are positive integers.
ASSUME LoopAssumption ==
    MaxIterations \in Nat \ {0} /\ MaxTotalToolCalls \in Nat \ {0} /\ CallCounts \subseteq Nat

VARIABLES
    turns,      \* turns[t]: what the provider asked for, and the durable records of turn t
    loop,       \* the running loop
    progress,   \* the progress value the last run returned, or NoProgress
    dispatched, \* dispatched[t]: the calls of turn t given to the executor so far
    stream      \* the provider loop: what it emitted, asked for and did

loopVars == <<turns, loop, progress, dispatched, stream>>

\* A turn's durable part: how it ended, its calls, which are discovered,
\* which have a result, which wait for approval, and an exhausted budget.
TurnEnd == {"tool_calls", "stop", "failed", "cancelled"}
Budget == {"none", "iterations", "total_tool_calls", "wall_clock"}
NewTurn(end, n) == [end |-> end, calls |-> 1..n, discovered |-> FALSE, results |-> {},
                    approval |-> {}, exhausted |-> "none"]
NoProgress == [iterations |-> 0, total |-> 0, given |-> FALSE]
LoopStatus == {"none", "completed", "cancelled", "failed", "external_approval_required",
               "budget_exhausted"}
NoLoop == [pc |-> "off", turn |-> 0, iterations |-> 0, total |-> 0, newly |-> 0,
           pending |-> {}, results |-> {}, approvals |-> {}, status |-> "none", runs |-> 0]

LoopReturns(status) ==
    /\ loop' = [loop EXCEPT !.pc = "off", !.status = status]
    /\ progress' = [iterations |-> loop.iterations, total |-> loop.total, given |-> TRUE]
KeepTurns == UNCHANGED <<turns, dispatched, stream>>

\* The provider ends a turn: its tool calls are in the log.
ProviderTurns == {NewTurn("tool_calls", n) : n \in CallCounts}
                 \cup {NewTurn(end, 0) : end \in TurnEnd}
Discovered == {t \in DOMAIN turns : turns[t].discovered}
CallsOf(ts) == UNION {{<<t, c>> : c \in turns[t].calls} : t \in ts}

\* Mutant: a run without progress starts counting at zero.
RunToolLoopForgetful ==
    /\ loop.pc = "off" /\ loop.runs < MaxLoopRuns
    /\ loop.status \in {"none", "external_approval_required"}
    /\ loop' = [NoLoop EXCEPT !.pc = "check", !.turn = Len(turns), !.runs = loop.runs + 1,
                              !.iterations = progress.iterations, !.total = progress.total]
    /\ UNCHANGED progress /\ KeepTurns
\* The host runs the loop on the newest turn, the first time, after a pause
\* with the progress it was given, or after a crash with none: then what is
\* durable says how far it came.
RunToolLoop ==
    /\ loop.pc = "off" /\ loop.runs < MaxLoopRuns
    /\ loop.status \in {"none", "external_approval_required"}
    /\ loop' = [NoLoop EXCEPT
           !.pc = "check", !.turn = Len(turns), !.runs = loop.runs + 1,
           !.iterations = IF progress.given THEN progress.iterations ELSE Cardinality(Discovered),
           !.total = IF progress.given THEN progress.total ELSE Cardinality(CallsOf(Discovered))]
    /\ UNCHANGED progress /\ KeepTurns

\* The head of the loop: an abort, the wall clock, how the turn ended, an
\* exhaustion already recorded; then the new calls are recorded.
Exhaust(budget) == loop' = [loop EXCEPT !.pc = budget]
CheckTurn ==
    LET turn == turns[loop.turn] IN
    /\ loop.pc = "check"
    /\ \/ LoopReturns("cancelled") /\ KeepTurns
       \/ Exhaust("wall_clock") /\ UNCHANGED progress /\ KeepTurns
       \/ /\ turn.end = "cancelled" /\ LoopReturns("cancelled") /\ KeepTurns
       \/ /\ turn.end = "failed" \/ (turn.end = "tool_calls" /\ turn.calls = {})
          /\ LoopReturns("failed") /\ KeepTurns
       \/ /\ turn.end = "stop" /\ LoopReturns("completed") /\ KeepTurns
       \/ /\ turn.end = "tool_calls" /\ turn.calls # {} /\ turn.exhausted # "none"
          /\ LoopReturns("budget_exhausted") /\ KeepTurns
       \/ /\ turn.end = "tool_calls" /\ turn.calls # {} /\ turn.exhausted = "none"
          /\ turns' = [turns EXCEPT ![loop.turn].discovered = TRUE]
          /\ loop' = [loop EXCEPT !.pc = "budget",
                          !.newly = IF turn.discovered THEN 0 ELSE Cardinality(turn.calls)]
          /\ UNCHANGED <<progress, dispatched, stream>>

\* The budgets are looked at after the calls are durable.
CheckBudget ==
    LET newly == loop.newly IN
    /\ loop.pc = "budget"
    /\ \/ /\ newly > 0 /\ loop.iterations >= MaxIterations
          /\ Exhaust("iterations")
       \/ /\ ~(newly > 0 /\ loop.iterations >= MaxIterations)
          /\ loop.total + newly > MaxTotalToolCalls
          /\ Exhaust("total_tool_calls")
       \/ /\ ~(newly > 0 /\ loop.iterations >= MaxIterations)
          /\ loop.total + newly <= MaxTotalToolCalls
          /\ loop' = [loop EXCEPT
                 !.pc = "work", !.total = @ + newly,
                 !.iterations = IF newly > 0 THEN @ + 1 ELSE @,
                 !.results = turns[loop.turn].results, !.approvals = {},
                 !.pending = turns[loop.turn].calls \ turns[loop.turn].results]
    /\ UNCHANGED progress /\ KeepTurns
RecordExhaustion ==
    /\ loop.pc \in Budget \ {"none"}
    /\ turns' = [turns EXCEPT ![loop.turn].exhausted = IF @ = "none" THEN loop.pc ELSE @]
    /\ LoopReturns("budget_exhausted")
    /\ UNCHANGED <<dispatched, stream>>

\* The workers: each pending call goes to the executor, which answers with a
\* result or an approval pause.
RunCall(c) ==
    /\ loop.pc = "work" /\ c \in loop.pending
    /\ dispatched' = [dispatched EXCEPT ![loop.turn] = @ \cup {c}]
    /\ \/ loop' = [loop EXCEPT !.pending = @ \ {c}, !.results = @ \cup {c}]
       \/ loop' = [loop EXCEPT !.pending = @ \ {c}, !.approvals = @ \cup {c}]
    /\ UNCHANGED <<turns, progress, stream>>
\* A record without a name or arguments ends its worker; no other need be left.
WorkerQuits ==
    /\ loop.pc = "work"
    /\ \E c \in loop.pending : \E left \in {loop.pending \ {c}, {}} :
          loop' = [loop EXCEPT !.pending = left]
    /\ UNCHANGED progress /\ KeepTurns
\* The signal or the wall clock stops the workers or what follows them.
WorkersStop ==
    /\ \/ loop.pc \in {"work", "continue"} /\ LoopReturns("cancelled")
       \/ loop.pc = "work" /\ Exhaust("wall_clock") /\ UNCHANGED progress
    /\ KeepTurns

\* The results become durable, and then the pauses.
RecordResults ==
    /\ loop.pc = "work" /\ loop.pending = {}
    /\ turns' = [turns EXCEPT ![loop.turn].results = @ \cup loop.results]
    /\ loop' = [loop EXCEPT !.pc = "approvals"]
    /\ UNCHANGED <<progress, dispatched, stream>>
RecordApprovals ==
    /\ loop.pc = "approvals"
    /\ turns' = [turns EXCEPT ![loop.turn].approval = @ \cup loop.approvals]
    /\ IF loop.approvals # {} THEN LoopReturns("external_approval_required")
       ELSE IF loop.results # turns[loop.turn].calls THEN LoopReturns("failed")
       ELSE loop' = [loop EXCEPT !.pc = "continue"] /\ UNCHANGED progress
    /\ UNCHANGED <<dispatched, stream>>

\* continueTurn: the next turn of the provider.
ContinueTurn ==
    /\ loop.pc = "continue" /\ Len(turns) < MaxTurns
    /\ \E next \in ProviderTurns : turns' = Append(turns, next)
    /\ dispatched' = Append(dispatched, {})
    /\ loop' = [loop EXCEPT !.pc = "check", !.turn = @ + 1]
    /\ UNCHANGED <<progress, stream>>

\* The process dies; its progress value with it.
LoopCrash ==
    /\ loop.pc # "off" \/ loop.status = "external_approval_required"
    /\ loop' = [NoLoop EXCEPT !.runs = loop.runs]
    /\ progress' = NoProgress
    /\ KeepTurns
------------------------------------------------
\* createProviderToolLoopTransport: one turn's execute().
NoStream == [pc |-> "off", iteration |-> 0, emitted |-> <<>>, sequence |-> 0, ids |-> <<>>,
             found |-> 0, calls |-> 0, ran |-> 0, usages |-> 0, final |-> "none"]
Emit(s, kind) == [s EXCEPT !.emitted = Append(@, kind), !.ids = Append(@, s.sequence),
                           !.sequence = @ + 1]
KeepLoop == UNCHANGED <<turns, loop, progress, dispatched>>

\* An iteration begins; an abort ends the turn, an exhausted wall clock
\* throws.
Iterate ==
    /\ stream.pc = "iterate"
    /\ stream' = IF stream.iteration < MaxIterations THEN [stream EXCEPT !.pc = "invoke", !.found = 0]
                 ELSE [stream EXCEPT !.pc = "finish"]
    /\ KeepLoop
IterationRefused ==
    /\ stream.pc = "iterate" /\ stream.iteration < MaxIterations
    /\ \E pc \in {"cancelled", "thrown"} : stream' = [stream EXCEPT !.pc = pc]
    /\ KeepLoop

\* The adapter's stream: started, then deltas and tool calls.  Only the
\* first started, and nothing about usage or the end, is passed on.
AdapterStarts ==
    /\ stream.pc = "invoke"
    /\ stream' = [(IF stream.sequence = 0 THEN Emit(stream, "started") ELSE stream)
                     EXCEPT !.pc = "stream"]
    /\ KeepLoop
AdapterCalls ==
    /\ stream.pc = "stream" /\ stream.found < MaxTotalToolCalls + 1
    /\ stream' = [Emit(stream, "tool_call") EXCEPT !.found = @ + 1]
    /\ KeepLoop
AdapterEnds ==
    /\ stream.pc = "stream"
    /\ \E final \in {"tool_calls", "stop", "failed", "cancelled"}, usage \in {0, 1} :
          stream' = [stream EXCEPT !.pc = IF final = "tool_calls" THEN "tools" ELSE "finish",
                                   !.final = final, !.usages = @ + usage]
    /\ KeepLoop

\* The calls of the iteration are counted, then executed in batches; a call
\* that needs an approval nobody can give ends the turn.
ExecuteBatches ==
    LET calls == stream.calls + stream.found IN
    /\ stream.pc = "tools"
    /\ \/ /\ stream.found = 0 \/ calls > MaxTotalToolCalls
          /\ stream' = [stream EXCEPT !.pc = "thrown", !.calls = calls]
       \/ /\ stream.found > 0 /\ calls <= MaxTotalToolCalls
          /\ stream' = [stream EXCEPT !.pc = "iterate", !.iteration = @ + 1, !.calls = calls,
                                      !.ran = @ + stream.found]
       \/ /\ stream.found > 0 /\ calls <= MaxTotalToolCalls
          /\ \E ran \in 1..stream.found :
                stream' = [stream EXCEPT !.pc = "finish", !.calls = calls, !.ran = @ + ran,
                                         !.final = "failed"]
    /\ KeepLoop

\* The total usage, then one terminal event: tool calls that are left over
\* at the iteration limit end the turn with "length".
Finish ==
    LET s == IF stream.usages > 0 THEN Emit(stream, "usage") ELSE stream
        terminal == IF stream.final = "tool_calls" THEN "length" ELSE stream.final
    IN  /\ stream.pc = "finish"
        /\ stream' = [Emit(s, terminal) EXCEPT !.pc = "ended"]
        /\ KeepLoop

LoopInit ==
    /\ \E first \in ProviderTurns : turns = <<first>>
    /\ dispatched = <<{}>>
    /\ loop = NoLoop /\ progress = NoProgress
    /\ stream = NoStream
StreamInit ==
    /\ turns = <<NewTurn("stop", 0)>> /\ dispatched = <<{}>>
    /\ loop = NoLoop /\ progress = NoProgress
    /\ stream = [NoStream EXCEPT !.pc = "iterate"]
LoopNext ==
    \/ RunToolLoop \/ CheckTurn \/ CheckBudget \/ RecordExhaustion \/ WorkerQuits \/ WorkersStop
    \/ \E c \in 1..MaxTotalToolCalls + 1 : RunCall(c)
    \/ RecordResults \/ RecordApprovals \/ ContinueTurn \/ LoopCrash
StreamNext ==
    \/ Iterate \/ IterationRefused \/ AdapterStarts \/ AdapterCalls \/ AdapterEnds
    \/ ExecuteBatches \/ Finish

LoopSpec == LoopInit /\ [][LoopNext]_loopVars
StreamSpec == StreamInit /\ [][StreamNext]_loopVars
------------------------------------------------
\* The total call budget survives crashes, pauses and resumes, although the
\* calls of an over-budget turn are recorded as discovered before the budget
\* is looked at: never are more calls given to the executor than allowed.
\* "Every side-effect decision is durably recorded by ConversationRuntime
\* before the next protocol request is submitted" (tools/loop.ts): when a
\* turn is continued each of its calls has a durable result, and no later
\* run gives a call that has one to the executor again.
LoopWithinBudget ==
    /\ Cardinality(UNION {{<<t, c>> : c \in dispatched[t]} : t \in DOMAIN turns}) <= MaxTotalToolCalls
    /\ \A t \in 1..Len(turns) - 1 : turns[t].results = turns[t].calls
    /\ loop.pc = "work" => loop.pending \cap turns[loop.turn].results = {}

\* However many invocations, tool batches and failures it is made of, what
\* the provider loop emits is one well-formed response: it begins with
\* started, its sequence numbers count up from 0 without a gap, it ends with
\* one terminal event, and the budgets hold.
OneResponse ==
    LET kinds == stream.emitted
        terminal == {"stop", "length", "failed", "cancelled"}
    IN  /\ \A i \in DOMAIN stream.ids : stream.ids[i] = i - 1
        /\ kinds # <<>> => Head(kinds) = "started"
        /\ \A i \in DOMAIN kinds :
              /\ i > 1 => kinds[i] # "started"
              /\ (kinds[i] \in terminal) <=> (i = Len(kinds) /\ stream.pc = "ended")
        /\ stream.ran <= MaxTotalToolCalls

\* The call budget of the durable loop survives crashes and resumes, no call
\* with a durable result runs again, and the provider loop's invocations
\* make one well-formed response (runToolLoop, ProviderToolLoop.stream).
LoopSound == LoopWithinBudget /\ OneResponse

\* "exhausts iteration, total-call, and wall-clock budgets durably"
\* (test/tool-loop.test.ts:661): no run of the loop executes the calls of
\* more turns than maxIterations.
WithinIterations ==
    Cardinality({t \in DOMAIN turns : dispatched[t] # {}}) <= MaxIterations
================================================
