---------------- MODULE SyncAdapter ----------------
(***************************************************************************)
(* The server's half of conversation synchronization: the adapter over an  *)
(* event store (src/sync/event-store-adapter.ts) that turns the mutations  *)
(* clients propose into the one canonical log, and the event store facade  *)
(* a runtime uses on top of it (src/sync/conversation-event-store.ts).     *)
(* A mutation is one event; the log is a sequence of mutations, and an     *)
(* event's revision is its place in it.                                    *)
(***************************************************************************)
EXTENDS Integers, Sequences, SequencesExt, FiniteSets

CONSTANTS
    Mutations,      \* the identities of what clients and runtimes propose
    Writers,        \* runtimes that write through the facade
    BatchOf,        \* [Writers -> Seq(Mutations)], what each of them appends
    ReadLimit,      \* how many events one page holds
    MaxAttempts     \* maximumAppendAttempts of the facade

VARIABLES
    log,            \* the canonical log
    handlers,       \* appends the server is working on whose caller waits
    late,           \* the same, once the caller has stopped waiting
    writer          \* [Writers -> what its append has come to]

adapterVars == <<log, handlers, late, writer>>

Holds(f, batch) == ToSet(batch) \subseteq ToSet(f)
HoldsSome(f, batch) == ToSet(batch) \cap ToSet(f) # {}
Revision(f, m) == CHOOSE i \in 1..Len(f) : f[i] = m

\* readSince: the page after a revision, and whether it is the last one.
Page(after) == SubSeq(log, after + 1, IF after + ReadLimit < Len(log) THEN after + ReadLimit ELSE Len(log))
HasMore(after) == after + ReadLimit < Len(log)

------------------------------------------------
\* appendMutations.  It reads the store's revision, and only then looks for
\* the mutations it may already hold and appends: two steps, between which
\* other appends take place.
Handler(batch, expected) == [batch |-> batch, expected |-> expected, observed |-> -1]
Observes(h) == [h EXCEPT !.observed = Len(log)]
Begins(h) == h.observed = -1

\* Mutant: what the log already holds is not looked for.
AppendsRepeated(h) == h.observed <= h.expected /\ h.expected = Len(log)
\* What the second step answers: the original events when the store holds
\* all of them, a conflict when it has moved on or holds some, and otherwise
\* the events it has just appended.  The latest revision of a duplicate is
\* the one read first when that one already differed from the expected one.
Appends(h) == h.observed <= h.expected /\ h.expected = Len(log) /\ ~HoldsSome(log, h.batch)
AppendResult(h) ==
    IF Holds(log, h.batch)
    THEN [status |-> "duplicate",
          latest |-> IF h.expected # h.observed THEN h.observed ELSE Len(log)]
    ELSE IF Appends(h)
    THEN [status |-> "accepted", latest |-> h.expected + Len(h.batch)]
    ELSE [status |-> "conflict", latest |-> Len(log)]
LogAfter(h) == IF AppendResult(h).status = "accepted" THEN log \o h.batch ELSE log

\* An abandoned append goes on; nobody hears its answer.
LateStep(p) ==
    \E h \in late[p] :
        /\ IF Begins(h)
           THEN late' = [late EXCEPT ![p] = (@ \ {h}) \cup {Observes(h)}] /\ UNCHANGED log
           ELSE late' = [late EXCEPT ![p] = @ \ {h}] /\ log' = LogAfter(h)
        /\ UNCHANGED <<handlers, writer>>

------------------------------------------------
\* The facade: append proposes the whole batch, asks again when it heard
\* nothing, and turns the answer into the event store's vocabulary.
Idle == [status |-> "idle", attempt |-> 0]

WriterAsks(w) ==
    /\ writer[w].status = "idle"
    /\ \E expected \in 0..Len(log) :
        handlers' = [handlers EXCEPT ![w] = {Handler(BatchOf[w], expected)}]
    /\ writer' = [writer EXCEPT ![w] = [status |-> "asking", attempt |-> 1]]
    /\ UNCHANGED <<log, late>>

\* appendResult refuses an acknowledgement whose last event is not the
\* latest revision, so a duplicate that others have written past is an error.
WriterOutcome(w, result, f) ==
    IF result.status = "conflict" THEN "conflict"
    ELSE IF Revision(f, Last(BatchOf[w])) # result.latest THEN "failed"
    ELSE IF result.status = "duplicate" THEN "idempotent" ELSE "appended"

\* The facade's second attempt, on a conflict whose revision is below the
\* expected one, cannot arise here: one log answers, and it only grows.
WriterServed(w) ==
    \E h \in handlers[w] :
        /\ IF Begins(h)
           THEN /\ handlers' = [handlers EXCEPT ![w] = {Observes(h)}]
                /\ UNCHANGED <<log, writer>>
           ELSE /\ handlers' = [handlers EXCEPT ![w] = {}]
                /\ log' = LogAfter(h)
                /\ writer' = [writer EXCEPT ![w].status = WriterOutcome(w, AppendResult(h), log')]
        /\ UNCHANGED late

\* The answer is lost, before or after the append took place.
WriterUnheard(w) ==
    /\ writer[w].status = "asking"
    /\ late' = [late EXCEPT ![w] = @ \cup handlers[w]]
    /\ IF writer[w].attempt < MaxAttempts
       THEN /\ writer' = [writer EXCEPT ![w].attempt = @ + 1]
            /\ handlers' = [handlers EXCEPT ![w] = {[h EXCEPT !.observed = -1] : h \in @}]
       ELSE /\ writer' = [writer EXCEPT ![w].status = "unavailable"]
            /\ handlers' = [handlers EXCEPT ![w] = {}]
    /\ UNCHANGED log

WriterStep(w) == WriterAsks(w) \/ WriterServed(w) \/ WriterUnheard(w)

------------------------------------------------
\* The log keeps every mutation once, whoever repeats it and however late an
\* abandoned append is carried out.
LogHoldsOnce == \A i, j \in 1..Len(log) : log[i] = log[j] => i = j

\* What the facade answers stays true: an append it calls stored is in the
\* log, and one it calls a conflict is not and never will be, although an
\* earlier attempt of it may still be running on the server.
AnswersTruthful ==
    \A w \in Writers :
        /\ writer[w].status \in {"appended", "idempotent"} => Holds(log, BatchOf[w])
        /\ writer[w].status = "conflict" => ~HoldsSome(log, BatchOf[w])
================================================
