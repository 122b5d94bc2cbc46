---------------- MODULE ToolExecutor ----------------
(***************************************************************************)
(* BoundedToolExecutor of tools/executor.ts in one process: concurrent     *)
(* requests for tool calls, the in-memory ledger, the table of operations  *)
(* under way, and the limiter of concurrent invocations.                   *)
(*                                                                         *)
(* A caller that is aborted or times out stops waiting at once; the body   *)
(* that the ledger runs, and the tool itself, may go on after that.  So a  *)
(* request has a caller (call), a body (body) and an invocation (tool).    *)
(* Arguments, schemas and outputs are abstracted to their verdicts.        *)
(***************************************************************************)
EXTENDS Integers, Sequences, SequencesExt, FiniteSets

CONSTANTS
    Requests,       \* requests to the executor
    RequestKeys,    \* execution keys
    Workloads,      \* the workloads explored: for each request its key, its fingerprint,
                    \* and whether it carries the evidence of an approval
    MaxConcurrency, \* limits.maxConcurrency
    MaxAborts       \* bound: how many requests are aborted or time out

Nobody == "nobody"

ASSUME ExecutorAssumption ==
    /\ IsFiniteSet(Requests) /\ Nobody \notin Requests /\ MaxConcurrency \in Nat \ {0}
    /\ \A load \in Workloads : \A r \in Requests : load[r].key \in RequestKeys

VARIABLES
    requestOf,  \* requestOf[r]: the request
    call,       \* call[r]: the caller's state and outcome
    body,       \* body[r]: the closure given to the ledger
    tool,       \* tool[r]: the tool's invocation
    entries,    \* entries[k]: the ledger's entry: the request whose body runs
    operations, \* operations[k]: the request whose operation is under way
    waiters,    \* the limiter's queue
    active      \* the limiter's count of slots in use

executorVars == <<requestOf, call, body, tool, entries, operations, waiters, active>>

Key(r) == requestOf[r].key
SameRequest(r, s) == requestOf[r].fingerprint = requestOf[s].fingerprint

CallOutcome == {"none", "success", "error", "cancelled", "denied", "approval_required",
                "invalid", "conflict"}
Caller == [pc : {"idle", "policy", "ledger", "joinLedger", "joinOperation", "end"},
           outcome : CallOutcome, aborted : BOOLEAN]
Body == [pc : {"none", "start", "wait", "invoke", "end"},
         outcome : {"none", "success", "error", "cancelled"}]

\* An operation that ends leaves the table.
CallEnds(r, outcome) ==
    /\ call' = [call EXCEPT ![r].pc = "end", ![r].outcome = outcome]
    /\ operations' = [operations EXCEPT ![Key(r)] = IF @ = r THEN Nobody ELSE @]
Joins(r, owner, pc) ==
    IF SameRequest(r, owner)
    THEN call' = [call EXCEPT ![r].pc = pc] /\ UNCHANGED operations
    ELSE CallEnds(r, "conflict")
KeepLimiter == UNCHANGED <<requestOf, waiters, active, tool>>
------------------------------------------------
\* executeDetailed: the ledger's entry or the operation under way for the
\* key is shared by a request with the same fingerprint and conflicts with
\* any other; a request with approval evidence goes its own way.
ExecuteDetailed(r) ==
    LET k == Key(r)  shares == ~requestOf[r].approval IN
    /\ call[r].pc = "idle"
    /\ \/ shares /\ entries[k] # Nobody /\ Joins(r, entries[k], "joinLedger")
       \/ /\ shares /\ entries[k] = Nobody /\ operations[k] # Nobody
          /\ Joins(r, operations[k], "joinOperation")
       \/ /\ shares => entries[k] = Nobody /\ operations[k] = Nobody
          /\ call' = [call EXCEPT ![r].pc = "policy"]
          /\ operations' = IF shares THEN [operations EXCEPT ![k] = r] ELSE operations
    /\ UNCHANGED <<body, entries>> /\ KeepLimiter
\* A malformed identifier or argument is answered before anything else.
ExecuteMalformed(r) ==
    /\ call[r].pc = "idle" /\ CallEnds(r, "invalid")
    /\ UNCHANGED <<body, entries>> /\ KeepLimiter

\* The registry, the schema and the application's policy refuse, or an
\* approval is missing or its claim fails.
PolicyRefuses(r) ==
    /\ call[r].pc = "policy" /\ ~call[r].aborted
    /\ \E outcome \in {"denied", "invalid", "approval_required"} : CallEnds(r, outcome)
    /\ UNCHANGED <<body, entries>> /\ KeepLimiter
\* getOrCreate: the ledger keeps the first body for a key.
CreatesEntry(r) ==
    /\ entries[Key(r)] = Nobody
    /\ entries' = [entries EXCEPT ![Key(r)] = r]
    /\ body' = [body EXCEPT ![r].pc = "start"]
\* An authorized call asks the ledger.
PolicyAllows(r) ==
    /\ call[r].pc = "policy" /\ ~call[r].aborted
    /\ \/ /\ entries[Key(r)] # Nobody /\ Joins(r, entries[Key(r)], "ledger")
          /\ UNCHANGED <<body, entries>>
       \/ /\ CreatesEntry(r)
          /\ call' = [call EXCEPT ![r].pc = "ledger"] /\ UNCHANGED operations
    /\ KeepLimiter
\* The claim of an approval is not raced with the signal: one that succeeds
\* after the abort still makes the entry, whose body then ends by itself.
ClaimedLate(r) ==
    /\ requestOf[r].approval /\ call[r].pc = "policy" /\ call[r].aborted
    /\ CreatesEntry(r) /\ CallEnds(r, "cancelled")
    /\ KeepLimiter

\* The body records the start, which may fail, and then asks for a slot.
BodyStarts(r) ==
    /\ body[r].pc = "start"
    /\ \/ /\ body' = [body EXCEPT ![r].pc = "end", ![r].outcome = "error"]
          /\ KeepLimiter
       \/ /\ call[r].aborted
          /\ body' = [body EXCEPT ![r].pc = "end", ![r].outcome = "cancelled"]
          /\ KeepLimiter
       \/ /\ ~call[r].aborted /\ active < MaxConcurrency
          /\ active' = active + 1
          /\ body' = [body EXCEPT ![r].pc = "invoke"]
          /\ tool' = [tool EXCEPT ![r] = "running"]
          /\ UNCHANGED waiters
       \/ /\ ~call[r].aborted /\ active >= MaxConcurrency
          /\ waiters' = Append(waiters, r)
          /\ body' = [body EXCEPT ![r].pc = "wait"]
          /\ UNCHANGED <<active, tool>>
    /\ UNCHANGED <<requestOf, call, entries, operations>>

\* The tool ends, however late: its slot is released and startNext hands it
\* to the first waiter.
NormalizeOutput == {"success", "error"}   \* an unsafe output is an error
Started(rest) == IF rest = <<>> \/ active > MaxConcurrency THEN {} ELSE {Head(rest)}
ToolEnds(r) ==
    LET next == Started(waiters) IN
    /\ tool[r] = "running"
    /\ active' = active - 1 + Cardinality(next)
    /\ waiters' = IF next = {} THEN waiters ELSE Tail(waiters)
    /\ tool' = [s \in Requests |-> IF s = r THEN "ended" ELSE IF s \in next THEN "running" ELSE tool[s]]
    /\ \E outcome \in NormalizeOutput :
          body' = [s \in Requests |->
              IF s = r /\ body[r].pc = "invoke" /\ ~call[r].aborted
              THEN [pc |-> "end", outcome |-> outcome]
              ELSE IF s \in next THEN [body[s] EXCEPT !.pc = "invoke"] ELSE body[s]]
    /\ UNCHANGED <<requestOf, call, entries, operations>>

\* onAbort of a waiter: it is spliced out of the queue.
WithoutWaiter(r) == IF r \in ToSet(waiters)
                    THEN RemoveAt(waiters, CHOOSE i \in DOMAIN waiters : waiters[i] = r) ELSE waiters
\* Mutant: the timeout covers the execution only, not the policy.
AbortExecution(r) ==
    /\ call[r].pc = "ledger" /\ ~call[r].aborted
    /\ Cardinality({s \in Requests : call[s].aborted}) < MaxAborts
    /\ call' = [call EXCEPT ![r].aborted = TRUE]
    /\ waiters' = WithoutWaiter(r)
    /\ body' = IF body[r].pc = "wait"
               THEN [body EXCEPT ![r] = [pc |-> "end", outcome |-> "cancelled"]] ELSE body
    /\ UNCHANGED <<requestOf, entries, operations, active, tool>>
\* The caller aborts or the timeout fires, while the operation is under way;
\* a waiter leaves the queue.
AbortCall(r) ==
    /\ call[r].pc \in {"policy", "ledger"} /\ ~call[r].aborted
    /\ Cardinality({s \in Requests : call[s].aborted}) < MaxAborts
    /\ call' = [call EXCEPT ![r].aborted = TRUE]
    /\ waiters' = WithoutWaiter(r)
    /\ body' = IF body[r].pc = "wait"
               THEN [body EXCEPT ![r] = [pc |-> "end", outcome |-> "cancelled"]] ELSE body
    /\ UNCHANGED <<requestOf, entries, operations, active, tool>>
\* raceWithSignal: the caller, and the body that waits for its tool, go on
\* without the tool.
CallerLeaves(r) ==
    /\ call[r].pc \in {"policy", "ledger"} /\ call[r].aborted
    /\ CallEnds(r, "cancelled")
    /\ UNCHANGED <<body, entries>> /\ KeepLimiter
\* Mutant: the slot is released when the caller leaves, not when the tool ends.
BodyLeavesWithSlot(r) ==
    /\ body[r].pc = "invoke" /\ call[r].aborted
    /\ body' = [body EXCEPT ![r] = [pc |-> "end", outcome |-> "cancelled"]]
    /\ active' = active - 1
    /\ UNCHANGED <<requestOf, call, entries, operations, waiters, tool>>
BodyLeaves(r) ==
    /\ body[r].pc = "invoke" /\ call[r].aborted
    /\ body' = [body EXCEPT ![r] = [pc |-> "end", outcome |-> "cancelled"]]
    /\ UNCHANGED <<call, entries, operations>> /\ KeepLimiter

\* What the ledger's entry, or the shared operation, ends with.
LedgerAnswers(r) ==
    /\ call[r].pc = "joinLedger" \/ (call[r].pc = "ledger" /\ ~call[r].aborted)
    /\ body[entries[Key(r)]].pc = "end"
    /\ CallEnds(r, body[entries[Key(r)]].outcome)
    /\ UNCHANGED <<body, entries>> /\ KeepLimiter
SharedWith(r) == {s \in Requests \ {r} :
    Key(s) = Key(r) /\ call[s].pc \notin {"idle", "joinOperation", "joinLedger"} /\ SameRequest(r, s)
    /\ ~requestOf[s].approval}
OperationAnswers(r) ==
    /\ call[r].pc = "joinOperation"
    /\ \E s \in SharedWith(r) : call[s].pc = "end" /\ CallEnds(r, call[s].outcome)
    /\ UNCHANGED <<body, entries>> /\ KeepLimiter

ExecutorInit ==
    /\ requestOf \in Workloads
    /\ call = [r \in Requests |-> [pc |-> "idle", outcome |-> "none", aborted |-> FALSE]]
    /\ body = [r \in Requests |-> [pc |-> "none", outcome |-> "none"]]
    /\ tool = [r \in Requests |-> "none"]
    /\ entries = [k \in RequestKeys |-> Nobody]
    /\ operations = [k \in RequestKeys |-> Nobody]
    /\ waiters = <<>> /\ active = 0
ExecutorStep(r) ==
    \/ BodyStarts(r) \/ CallerLeaves(r) \/ BodyLeaves(r) \/ LedgerAnswers(r) \/ OperationAnswers(r)
ExecutorNext ==
    \E r \in Requests : \/ ExecuteDetailed(r) \/ ExecuteMalformed(r) \/ PolicyRefuses(r)
                        \/ PolicyAllows(r) \/ ClaimedLate(r) \/ ExecutorStep(r) \/ ToolEnds(r) \/ AbortCall(r)
ExecutorSpec == ExecutorInit /\ [][ExecutorNext]_executorVars
------------------------------------------------
ExecutorTypeOK ==
    /\ call \in [Requests -> Caller] /\ body \in [Requests -> Body]
    /\ tool \in [Requests -> {"none", "running", "ended"}]
    /\ entries \in [RequestKeys -> Requests \cup {Nobody}] /\ operations \in [RequestKeys -> Requests \cup {Nobody}]
    /\ active \in Int /\ waiters \in Seq(Requests)

\* The limiter counts the tools that really run, those whose caller left
\* long ago included: never more than maxConcurrency run, a slot is neither
\* lost nor released twice, nobody waits while a slot is free, and those who
\* wait are in the queue once.
SlotsAccounted ==
    /\ active = Cardinality({r \in Requests : tool[r] = "running"})
    /\ active <= MaxConcurrency
    /\ waiters # <<>> => active = MaxConcurrency
    /\ IsInjective(waiters) /\ ToSet(waiters) = {r \in Requests : body[r].pc = "wait"}

\* A key is executed once, whoever asks again, joins, aborts or brings an
\* approval; nobody is told of a success that no run of the key produced,
\* and who was refused has run nothing.
ExecutedOncePerKey ==
    \A r \in Requests :
        /\ tool[r] # "none" =>
              /\ call[r].outcome \notin {"denied", "invalid", "conflict", "approval_required"}
              /\ \A s \in Requests \ {r} : Key(s) = Key(r) => tool[s] = "none"
        /\ call[r].outcome = "success" =>
              \E s \in Requests : SameRequest(r, s) /\ body[s].outcome = "success"

\* The executor's limiter counts the tools that really run, and a key is
\* executed once, whoever repeats, joins, aborts or hangs (executeDetailed).
ExecutorSound == ExecutorTypeOK /\ SlotsAccounted /\ ExecutedOncePerKey

\* Every request is answered in the end, although tools and policies may
\* hang for ever: the timeout covers every wait, a wait for another
\* request's run included.
RequestsEnd == <>[](\A r \in Requests : call[r].pc \in {"idle", "end"})
================================================
