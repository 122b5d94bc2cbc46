---------------- MODULE UsageReceipts ----------------
(***************************************************************************)
(* Usage from a provider's report to Telemetry: the normalisation of the   *)
(* five adapters, the validation of a receipt (usage.ts), and the outbox   *)
(* of PostgresAIRuntimeUsageOutbox (postgres/index.ts) that the receipt    *)
(* sink of each server process (server/usage-control.ts) flushes after a   *)
(* capture and on a timer (server/assistant.ts).                           *)
(*                                                                         *)
(* A scenario is either one report to normalise or a set of receipts to    *)
(* deliver.  Telemetry (external) accepts a receipt once per identity; its *)
(* answer may be lost, and it may refuse for now or for good.  A document  *)
(* of the outbox has a version that compareAndSetDocument checks.          *)
(***************************************************************************)
EXTENDS Naturals, Sequences, FiniteSets

CONSTANTS
    Processes,    \* server processes
    Receipts,     \* receipt identities, 1..n in the order of their capture times
    BatchSize,    \* entries a flush lists
    MaxTries,     \* compare-and-set attempts of acknowledge and failed
    MaxTokens,    \* bound: amounts in a report
    MaxFaults     \* bound: faults of Telemetry, the database and the processes

VARIABLES
    report,     \* a provider's report, or none
    outbox,     \* receipt -> its document
    accepted,   \* external: the receipts Telemetry holds
    flush,      \* process -> its flush under way
    faults

usageVars == <<report, outbox, accepted, flush, faults>>

(***************************************************************************)
(* Normalisation: a usage, or Thrown.                                      *)
(***************************************************************************)
NoReport == [kind |-> "none"]
Amounts == 0..MaxTokens
Natives == [input : Amounts, output : Amounts, total : 0..(2 * MaxTokens), cached : Amounts,
            written : Amounts, reasoning : Amounts]

Thrown == [input |-> 0, cached |-> 0, written |-> 0, output |-> 0, reasoning |-> 0, total |-> MaxTokens + 1]

Usage(input, cached, written, output, reasoning, total) ==
    [input |-> input, cached |-> cached, written |-> written, output |-> output,
     reasoning |-> reasoning, total |-> total]

OpenAIUsage(u) ==
    IF u.total # u.input + u.output \/ u.cached + u.written > u.input \/ u.reasoning > u.output THEN Thrown
    ELSE Usage(u.input, u.cached, u.written, u.output, u.reasoning, u.total)

ResponsesUsage(u) ==
    IF u.total # u.input + u.output \/ u.cached > u.input \/ u.cached + u.written > u.input
       \/ u.reasoning > u.output
    THEN Thrown ELSE Usage(u.input, u.cached, u.written, u.output, u.reasoning, u.total)

\* Reasoning is in or beside the completion tokens.
XAIUsage(u) ==
    IF u.total < u.input \/ u.total \notin {u.input + u.output, u.input + u.output + u.reasoning}
       \/ u.cached > u.input \/ u.reasoning > u.total - u.input
    THEN Thrown ELSE Usage(u.input, u.cached, 0, u.total - u.input, u.reasoning, u.total)

\* Cached and written input come beside the input tokens.
AnthropicUsage(u) ==
    LET input == u.input + u.cached + u.written
    IN IF u.reasoning > u.output THEN Thrown
       ELSE Usage(input, u.cached, u.written, u.output, u.reasoning, input + u.output)

\* Reasoning comes beside the candidate tokens; tool prompts are input.
GeminiUsage(u) ==
    IF u.cached > u.input \/ u.written > u.input \/ u.total # u.input + u.output + u.reasoning THEN Thrown
    ELSE Usage(u.input, u.cached, 0, u.output + u.reasoning, u.reasoning, u.total)

Normalised(r) ==
    CASE r.kind = "openai" -> OpenAIUsage(r.native)
      [] r.kind = "responses" -> ResponsesUsage(r.native)
      [] r.kind = "xai" -> XAIUsage(r.native)
      [] r.kind = "anthropic" -> AnthropicUsage(r.native)
      [] r.kind = "gemini" -> GeminiUsage(r.native)

\* validateTokenUsage.
ValidTokens(u) ==
    u.total = u.input + u.output /\ u.cached + u.written <= u.input /\ u.reasoning <= u.output

(***************************************************************************)
(* The outbox.                                                             *)
(***************************************************************************)
Absent == [status |-> "absent", version |-> 0]
NoFlush == [phase |-> "idle"]

Fault == faults < MaxFaults /\ faults' = faults + 1

\* capture: the receipt is enqueued unless it is there, in whatever state.
Enqueued(document) == IF document = Absent THEN [status |-> "pending", version |-> 1] ELSE document

\* Telemetry's retries and the flush that runs already are joined.
Begun(p) == IF flush[p] = NoFlush THEN [flush EXCEPT ![p] = [phase |-> "listing"]] ELSE flush

Capture(p, r) ==
    /\ report = NoReport
    /\ outbox' = [outbox EXCEPT ![r] = Enqueued(@)]
    /\ flush' = Begun(p)
    /\ UNCHANGED <<report, accepted, faults>>

RunUsageFlush(p) ==
    /\ report = NoReport /\ flush[p] = NoFlush
    /\ flush' = Begun(p) /\ UNCHANGED <<report, outbox, accepted, faults>>

Pending == {r \in Receipts : outbox[r].status = "pending"}

\* pending: the oldest first.
Listed ==
    LET n == IF Cardinality(Pending) < BatchSize THEN Cardinality(Pending) ELSE BatchSize
        oldest(k) == CHOOSE r \in Pending : Cardinality({o \in Pending : o <= r}) = k
    IN [k \in 1..n |-> oldest(k)]

Goes(p, phase) == flush' = [flush EXCEPT ![p].phase = phase, ![p].tries = 0]

\* The next entry, or the end of the flush, which frees it whatever happened.
Ends(p) == flush' = [flush EXCEPT ![p] = NoFlush]
NextEntry(p) ==
    IF Len(flush[p].entries) = 1 THEN Ends(p)
    ELSE flush' = [flush EXCEPT ![p].entries = Tail(@), ![p].phase = "settling", ![p].version = 0, ![p].tries = 0]

ListPending(p) ==
    /\ flush[p].phase = "listing"
    /\ flush' = [flush EXCEPT ![p] = IF Listed = <<>> THEN NoFlush
                                     ELSE [phase |-> "settling", entries |-> Listed, version |-> 0, tries |-> 0]]
    /\ UNCHANGED <<report, outbox, accepted, faults>>

Entry(p) == Head(flush[p].entries)

\* settle: posted, with the client's own retries inside.
Settle(p) ==
    /\ flush[p].phase = "settling"
    /\ accepted' = accepted \cup {Entry(p)} /\ Goes(p, "acknowledging")
    /\ UNCHANGED <<report, outbox, faults>>

\* The answer is lost, or Telemetry is down: retryable.  Or it refuses for good.
SettleFails(p) ==
    /\ flush[p].phase = "settling" /\ Fault
    /\ \/ accepted' \in {accepted, accepted \cup {Entry(p)}} /\ Goes(p, "failing")
       \/ UNCHANGED accepted /\ Goes(p, "rejecting")
    /\ UNCHANGED <<report, outbox>>

Writing == {"acknowledging", "failing", "rejecting"}

\* A retryable failure ends the flush.
After(p) == IF flush[p].phase = "failing" THEN Ends(p) ELSE NextEntry(p)

\* getDocument of acknowledge and failed; a delivered document is left alone.
ReadDocument(p) ==
    /\ flush[p].phase \in Writing /\ flush[p].version = 0
    /\ IF outbox[Entry(p)].status = "delivered"
       THEN After(p)
       ELSE flush' = [flush EXCEPT ![p].version = outbox[Entry(p)].version]
    /\ UNCHANGED <<report, outbox, accepted, faults>>

Written(phase) == CASE phase = "acknowledging" -> "delivered" [] phase = "failing" -> "pending" [] OTHER -> "failed"

\* Mutant: the document is overwritten whatever has become of it.
CurrentAlways(p) == TRUE

\* The version compareAndSetDocument finds is the one that was read.
Current(p) == outbox[Entry(p)].version = flush[p].version

Rewritten(p) == [outbox EXCEPT ![Entry(p)] = [status |-> Written(flush[p].phase), version |-> @.version + 1]]

WriteDocument(p) ==
    /\ flush[p].phase \in Writing /\ flush[p].version > 0
    /\ IF Current(p)
       THEN outbox' = Rewritten(p) /\ After(p)
       ELSE /\ UNCHANGED outbox
            /\ IF flush[p].tries + 1 < MaxTries
               THEN flush' = [flush EXCEPT ![p].version = 0, ![p].tries = @ + 1]
               ELSE IF flush[p].phase = "acknowledging"
               THEN flush' = [flush EXCEPT ![p].phase = "failing", ![p].version = 0, ![p].tries = 0]
               ELSE Ends(p)
    /\ UNCHANGED <<report, accepted, faults>>

\* The database fails, before or after a write took effect: an
\* acknowledgement becomes a retryable failure, any other step ends the flush.
DatabaseFails(p) ==
    /\ flush[p].phase \in Writing \cup {"listing"} /\ Fault
    /\ IF flush[p].phase = "acknowledging"
       THEN flush' = [flush EXCEPT ![p].phase = "failing", ![p].version = 0, ![p].tries = 0]
       ELSE Ends(p)
    /\ \/ UNCHANGED outbox
       \/ flush[p].phase \in Writing /\ flush[p].version > 0 /\ Current(p) /\ outbox' = Rewritten(p)
    /\ UNCHANGED <<report, accepted>>

Crash(p) ==
    /\ flush[p] # NoFlush /\ Fault
    /\ Ends(p) /\ UNCHANGED <<report, outbox, accepted>>

UsageInit ==
    /\ report \in {NoReport} \cup [kind : {"openai", "responses", "xai", "anthropic", "gemini"}, native : Natives]
    /\ outbox = [r \in Receipts |-> Absent] /\ accepted = {}
    /\ flush = [p \in Processes |-> NoFlush] /\ faults = 0

Flushes(p) == ListPending(p) \/ Settle(p) \/ ReadDocument(p) \/ WriteDocument(p)

UsageNext ==
    \E p \in Processes :
        \/ \E r \in Receipts : Capture(p, r)
        \/ RunUsageFlush(p) \/ Flushes(p) \/ SettleFails(p) \/ DatabaseFails(p) \/ Crash(p)

\* The timer of every process goes off again and again, and its flush runs on.
UsageFairness == \A p \in Processes : WF_usageVars(RunUsageFlush(p)) /\ WF_usageVars(Flushes(p))

(***************************************************************************)
(* Properties.                                                             *)
(***************************************************************************)

\* Whatever a provider reports, usage an adapter accepts makes a receipt that
\* validateTokenUsage accepts: otherwise a completed turn would end in an
\* internal failure (the adapters' parseUsage, projectProviderUsageToReceipt).
UsageValid == report # NoReport => (Normalised(report) = Thrown \/ ValidTokens(Normalised(report)))

\* A receipt becomes delivered only when Telemetry holds it, and stays so: lost
\* answers, a second process flushing the same entry, a late failure and a
\* repeated capture neither mark an unsent receipt nor put a delivered one back
\* (flush, acknowledge, failed, enqueue).
DeliveredFinal ==
    [][\A r \in Receipts :
           /\ outbox[r].status = "delivered" => outbox'[r].status = "delivered"
           /\ outbox'[r].status = "delivered" => r \in accepted']_usageVars

\* Every receipt that was captured is delivered or parked as failed in the end
\* (the retry worker of createHandrailAssistant).
ReceiptsSettle == \A r \in Receipts : (outbox[r] # Absent) ~> (outbox[r].status \in {"delivered", "failed"})
================================================
