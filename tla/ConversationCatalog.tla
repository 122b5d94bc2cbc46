---------------- MODULE ConversationCatalog ----------------
(***************************************************************************)
(* The conversation catalog: descriptors with a version, idempotent        *)
(* compare-and-set mutations, and keyset pages over a list that changes    *)
(* while it is read.  Two implementations share the contract and differ in *)
(* what they retain: InMemoryConversationCatalog (conversation/            *)
(* in-memory-catalog.ts) keeps tombstones and a bounded, oldest-first      *)
(* idempotency map over all operations; PostgresConversationCatalog        *)
(* (postgres/index.ts) keeps one unbounded idempotency domain per          *)
(* operation and no tombstones.  Mutations run one at a time in both (the  *)
(* mutation tail; the transaction and its locks).                          *)
(*                                                                         *)
(* Conversation identities are numbers, so that the tie-breaker of the     *)
(* order is <; titles and metadata are left out.  Callers read a version,  *)
(* send one mutation under one key and may send it again when the answer   *)
(* is lost.                                                                *)
(***************************************************************************)
EXTENDS Naturals, Sequences, FiniteSets, SequencesExt

CONSTANTS
    Callers,      \* callers, each with one mutation to make
    MaxTime,      \* timestamps are 1..MaxTime
    MaxSends,     \* times a caller sends its mutation
    Setups        \* [store, records, requests, order, limits]

VARIABLES
    setup,        \* the setup of this behaviour
    records,      \* #records / the conversations table
    tombstones,   \* #tombstones (in memory only)
    idempotency,  \* #idempotency / the idempotency table, oldest first
    callers,      \* each caller's progress, version read and answer
    pager,        \* a reader that walks the list page by page
    effects       \* history: [key, conversation, version] of every mutation made

catalogVars == <<setup, records, tombstones, idempotency, callers, pager, effects>>

Absent == 0
Known == DOMAIN records
InMemory == setup.store = "memory"
Descriptor(created, updated, version, lifecycle) ==
    [created |-> created, updated |-> updated, version |-> version, lifecycle |-> lifecycle]

(***************************************************************************)
(* Pages.  The order is by a timestamp in one direction with the identity  *)
(* ascending as the tie-breaker in both.                                   *)
(***************************************************************************)
Primary(c) == IF setup.order.field = "updated_at" THEN records[c].updated ELSE records[c].created

CompareKey(p1, c1, p2, c2) ==
    \/ p1 # p2 /\ (p1 < p2) = (setup.order.direction = "asc")
    \/ p1 = p2 /\ c1 < c2

Paginate(cursor) ==
    LET listed == {c \in Known : records[c].lifecycle = "active"}
        after  == {c \in listed : cursor = <<>> \/ CompareKey(cursor[1], cursor[2], Primary(c), c)}
        sorted == SetToSortSeq(after, LAMBDA a, b : CompareKey(Primary(a), a, Primary(b), b))
        size   == setup.order.pageSize
        items  == SubSeq(sorted, 1, IF Len(sorted) < size THEN Len(sorted) ELSE size)
    IN  [items  |-> items,
         cursor |-> IF Len(sorted) > size THEN <<Primary(Last(items)), Last(items)>> ELSE <<>>]

\* The pager keeps, for the property below, the active conversations nobody
\* has changed since its first page.
ListPage ==
    /\ pager.phase \in {"idle", "paging"}
    /\ LET page == Paginate(pager.cursor) IN
       pager' = [phase  |-> IF page.cursor = <<>> THEN "done" ELSE "paging",
                 cursor |-> page.cursor,
                 shown  |-> pager.shown \o page.items,
                 steady |-> IF pager.phase = "idle"
                            THEN {c \in Known : records[c].lifecycle = "active"}
                            ELSE pager.steady]
    /\ UNCHANGED <<setup, records, tombstones, idempotency, callers, effects>>

(***************************************************************************)
(* Mutations.                                                              *)
(***************************************************************************)
Signature(q, v) == <<q.op, q.conversation, v>>

Retained(q) ==
    SelectSeq(idempotency, LAMBDA e : e.key = q.key /\ (InMemory \/ e.op = q.op))

\* One step of the oldest-first eviction: the map holds at most maxIdempotency.
Commit(entry) ==
    LET full == InMemory /\ Len(idempotency) >= setup.limits.maxIdempotency
    IN  idempotency' = Append(IF full THEN Tail(idempotency) ELSE idempotency, entry)

Failed(code) == [code |-> code, conversation |-> Absent, version |-> 0]

\* Mutant: the row is found but its version is not compared.
CurrentUnversioned(q, v) == IF q.conversation \notin Known THEN "not_found" ELSE "ok"

\* #current / lookup and the version check.
Current(q, v) ==
    CASE q.conversation \notin Known -> "not_found"
      [] q.conversation \in Known /\ records[q.conversation].version # v -> "version_conflict"
      [] OTHER -> "ok"

\* The lifecycle an operation needs, and the one it leaves.
Needs(op) == CASE op \in {"clear", "archive"} -> {"active"}
               [] op = "restore" -> {"archived"}
               [] OTHER -> {"active", "archived"}
Leaves(op, lifecycle) == CASE op = "archive" -> "archived"
                           [] op = "restore" -> "active"
                           [] OTHER -> lifecycle

\* Why a mutation that is not a replay is refused, or "ok".
Refusal(q, v, now) ==
    LET current == Current(q, v)
        record  == records[q.conversation]
    IN  IF current # "ok" THEN current
        ELSE IF record.lifecycle \notin Needs(q.op)
             THEN IF InMemory THEN "not_found" ELSE "invalid_input"
        ELSE IF q.op = "permanent_delete"
             THEN IF InMemory /\ Cardinality(tombstones) >= setup.limits.maxTombstones
                  THEN "unavailable" ELSE "ok"
        ELSE IF InMemory /\ now < record.updated THEN "unavailable" ELSE "ok"

CreateRefusal(c) ==
    IF InMemory /\ Cardinality(Known) >= setup.limits.maxRecords THEN "unavailable"
    ELSE IF InMemory /\ c \in Known \cup tombstones THEN "idempotency_conflict"
    ELSE IF c \in Known THEN "unavailable" ELSE "ok"

Without(c) == [d \in Known \ {c} |-> records[d]]
With(c, d) == [e \in Known \cup {c} |-> IF e = c THEN d ELSE records[e]]

Touched(c) == pager' = [pager EXCEPT !.steady = @ \ {c}]

\* The answer reaches the caller or is lost; a lost answer is asked for again.
Answer(r, answer) ==
    \E lost \in BOOLEAN :
        /\ lost => callers[r].sends + 1 < MaxSends
        /\ callers' = [callers EXCEPT ![r] = [@ EXCEPT !.sends = @ + 1,
               !.phase = IF lost THEN "ready" ELSE "done",
               !.answer = IF lost THEN @ ELSE answer]]

Refuse(r, code) == Answer(r, Failed(code)) /\ UNCHANGED <<records, tombstones, idempotency, pager, effects>>

Accept(r, q, v, result) ==
    /\ Commit([key |-> q.key, op |-> q.op, signature |-> Signature(q, v), result |-> result])
    /\ effects' = Append(effects, [key |-> q.key, op |-> q.op, result |-> result])
    /\ Touched(result.conversation)
    /\ Answer(r, result)

Replay(r, q, v) ==
    LET e == Retained(q)[1] IN
    IF e.signature = Signature(q, v)
    THEN /\ Answer(r, [e.result EXCEPT !.code = "idempotent"])
         /\ UNCHANGED <<records, tombstones, idempotency, pager, effects>>
    ELSE Refuse(r, "idempotency_conflict")

\* create: the identity is the caller's or a fresh one of the host's factory.
Create(r) ==
    LET q == setup.requests[r] IN
    /\ callers[r].phase = "ready" /\ q.op = "create"
    /\ IF Retained(q) # <<>> THEN Replay(r, q, 0)
       ELSE \E now \in 1..MaxTime,
               c \in IF q.conversation # Absent THEN {q.conversation}
                     ELSE setup.fresh \ (Known \cup tombstones) :
            IF CreateRefusal(c) # "ok" THEN Refuse(r, CreateRefusal(c))
            ELSE /\ records' = With(c, Descriptor(now, now, 1, "active"))
                 /\ Accept(r, q, 0, [code |-> "done", conversation |-> c, version |-> 1])
                 /\ UNCHANGED tombstones
    /\ UNCHANGED setup

\* rename, clear, archive and restore.
Mutate(r) ==
    LET q == setup.requests[r]
        v == callers[r].expected
        c == q.conversation
    IN  /\ callers[r].phase = "ready" /\ q.op \in {"rename", "clear", "archive", "restore"}
        /\ IF Retained(q) # <<>> THEN Replay(r, q, v)
           ELSE \E now \in 1..MaxTime :
                IF Refusal(q, v, now) # "ok" THEN Refuse(r, Refusal(q, v, now))
                ELSE /\ records' = With(c, Descriptor(records[c].created, now,
                            records[c].version + 1, Leaves(q.op, records[c].lifecycle)))
                     /\ Accept(r, q, v, [code |-> "done", conversation |-> c,
                                         version |-> records[c].version + 1])
                     /\ UNCHANGED tombstones
        /\ UNCHANGED setup

\* In memory the deleted version is the next one, in Postgres the last one.
PermanentlyDelete(r) ==
    LET q == setup.requests[r]
        v == callers[r].expected
        c == q.conversation
    IN  /\ callers[r].phase = "ready" /\ q.op = "permanent_delete"
        /\ IF Retained(q) # <<>> THEN Replay(r, q, v)
           ELSE IF Refusal(q, v, MaxTime) # "ok" THEN Refuse(r, Refusal(q, v, MaxTime))
           ELSE /\ records' = Without(c)
                /\ tombstones' = IF InMemory THEN tombstones \cup {c} ELSE tombstones
                /\ Accept(r, q, v, [code |-> "done", conversation |-> c,
                                    version |-> IF InMemory THEN v + 1 ELSE v])
        /\ UNCHANGED setup

\* get: the caller learns the version its mutation will expect.
Get(r) ==
    LET q == setup.requests[r] IN
    /\ callers[r].phase = "idle"
    /\ callers' = [callers EXCEPT ![r] =
           IF q.op = "create" THEN [@ EXCEPT !.phase = "ready"]
           ELSE IF q.conversation \in Known
                THEN [@ EXCEPT !.phase = "ready", !.expected = records[q.conversation].version]
                ELSE [@ EXCEPT !.phase = "done", !.answer = Failed("not_found")]]
    /\ UNCHANGED <<setup, records, tombstones, idempotency, pager, effects>>

CatalogInit ==
    /\ setup \in Setups
    /\ records = setup.records /\ tombstones = {} /\ idempotency = <<>>
    /\ callers = [r \in Callers |-> [phase |-> IF r \in DOMAIN setup.requests THEN "idle" ELSE "done",
                                     expected |-> 0, sends |-> 0, answer |-> Failed("none")]]
    /\ pager = [phase |-> "idle", cursor |-> <<>>, shown |-> <<>>, steady |-> {}]
    /\ effects = <<>>

CatalogNext ==
    \/ ListPage
    \/ \E r \in Callers : Get(r) \/ Create(r) \/ Mutate(r) \/ PermanentlyDelete(r)

(***************************************************************************)
(* Properties.                                                             *)
(***************************************************************************)

\* A reader that pages through the list while others mutate it sees every
\* conversation that stayed as it was exactly once: the keyset cursor names a
\* place in the order, not an offset, and the identity breaks ties between
\* equal timestamps (paginateConversationCatalogDescriptors, compareKey).
PagesExact ==
    LET times(c) == Cardinality({i \in DOMAIN pager.shown : pager.shown[i] = c}) IN
    \A c \in pager.steady :
        /\ times(c) <= 1
        /\ pager.phase = "done" => times(c) = 1

\* A mutation of an existing conversation takes effect once however often it
\* is sent, even after its idempotency entry was evicted: the version it
\* expects is gone then (#current, #commit).  An answer that reports success
\* reports the effect this very key had.
MutationsOnce ==
    /\ \A i, j \in DOMAIN effects :
           /\ effects[i].key = effects[j].key
           /\ effects[i].op = effects[j].op
           /\ effects[i].op # "create"
           => i = j
    /\ \A r \in DOMAIN setup.requests :
           callers[r].answer.code \in {"done", "idempotent"} =>
               \E i \in DOMAIN effects :
                   /\ effects[i].key = setup.requests[r].key
                   /\ effects[i].op = setup.requests[r].op
                   /\ effects[i].result.version = callers[r].answer.version
                   /\ effects[i].result.conversation = callers[r].answer.conversation
================================================
