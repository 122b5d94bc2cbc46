---------------- MODULE EventStores ----------------
(***************************************************************************)
(* The event stores of one conversation: the reference semantics of append *)
(* that the in-memory and the IndexedDB store share, the one PostgreSQL    *)
(* implements, and the dual-write store that mirrors a primary into a      *)
(* shadow and repairs it.  An append is one transaction.                   *)
(***************************************************************************)
EXTENDS Integers, Sequences, SequencesExt, FiniteSets

CONSTANTS
    Callers,        \* whoever appends
    Batches,        \* [Callers -> what it appends], records with the fields
                    \*   expected   expectedRevision, 0 for null
                    \*   events     Seq of [id, mutation, body]
    PageSize,       \* reconciliationPageSize
    MaxRepeats      \* how often a caller repeats its append

\* Two events that may not both be stored: one event identity or one mutation
\* identity, which are kept apart (eventIds, mutationIds).
SameIdentity(e, f) == e.id = f.id \/ (e.mutation # "none" /\ e.mutation = f.mutation)

\* validateAppend lets no batch pass that repeats an identity (PostgreSQL's
\* unique indexes refuse it); "none" stands for no mutation identity.
ASSUME StoresAssumption ==
    /\ PageSize \in Nat \ {0}
    /\ \A c \in Callers :
          /\ Batches[c].expected \in Nat
          /\ Batches[c].events \in Seq(ToSet(Batches[c].events))
          /\ \A i \in DOMAIN Batches[c].events : Batches[c].events[i].id # "none"
          /\ \A i, j \in DOMAIN Batches[c].events :
                SameIdentity(Batches[c].events[i], Batches[c].events[j]) => i = j

VARIABLES
    kind,           \* which semantics the primary store has
    primary,        \* its events, in order of revision
    shadow,         \* the shadow's events
    caller,         \* [Callers -> its append and how it stands]
    repair          \* the reconciliation under way

storeVars == <<kind, primary, shadow, caller, repair>>

------------------------------------------------
\* The events of a batch with the revisions the append gives them.
Envelopes(b) == [i \in 1..Len(b.events) |->
    [id |-> b.events[i].id, mutation |-> b.events[i].mutation, body |-> b.events[i].body,
     revision |-> b.expected + i]]

\* findIdempotentMatch: an event the store has under the same event or
\* mutation identity, NoMatch, or a conflict of identities.  A mutation may
\* come back in a new envelope.
ByEventId(rows, e) == {r \in ToSet(rows) : r.id = e.id}
ByMutationId(rows, e) == {r \in ToSet(rows) : r.mutation # "none" /\ r.mutation = e.mutation}
SameClientMutation(r, e) == r.mutation = e.mutation /\ r.body = e.body
Contradicts(rows, e) ==
    \/ \E r \in ByEventId(rows, e) : r # e
    \/ \E r \in ByMutationId(rows, e) : ~SameClientMutation(r, e)
    \/ \E r \in ByEventId(rows, e), q \in ByMutationId(rows, e) : r # q
Match(rows, e) == ByEventId(rows, e) \cup ByMutationId(rows, e)

\* append: all of the batch is there where it belongs, or none of it is and
\* the store is at the expected revision.
CompleteRetry(rows, events) ==
    \A i \in DOMAIN events : \E r \in Match(rows, events[i]) : r.revision = events[i].revision
ReferenceAppend(rows, b) ==
    LET events == Envelopes(b)
        matched == {i \in DOMAIN events : Match(rows, events[i]) # {}}
    IN IF \E i \in DOMAIN events : Contradicts(rows, events[i]) THEN "idempotency_conflict"
       ELSE IF matched # {} /\ (matched # DOMAIN events \/ ~CompleteRetry(rows, events))
            THEN "idempotency_conflict"
       ELSE IF matched # {} THEN "idempotent"
       ELSE IF b.expected # Len(rows) THEN "revision_conflict" ELSE "appended"

\* PostgreSQL compares whole envelopes: the rows it finds under any identity
\* of the batch must be the batch.
Identities(e) == {e.id, e.mutation} \ {"none"}
Duplicates(rows, events) ==
    {r \in ToSet(rows) : \E i \in DOMAIN events : Identities(r) \cap Identities(events[i]) # {}}
\* Mutant: what the batch repeats is not looked up.
PostgresAppendUnchecked(rows, b) ==
    IF ToSet(Envelopes(b)) \subseteq ToSet(rows) THEN "idempotent"
    ELSE IF b.expected # Len(rows) THEN "revision_conflict" ELSE "appended"
PostgresAppend(rows, b) ==
    LET events == Envelopes(b)
        durable == Duplicates(rows, events)
    IN IF durable # {}
       THEN IF ToSet(events) \subseteq durable /\ Cardinality(durable) = Len(events)
            THEN "idempotent" ELSE "idempotency_conflict"
       ELSE IF b.expected # Len(rows) THEN "revision_conflict" ELSE "appended"

AppendStatus(k, rows, b) == IF k = "postgres" THEN PostgresAppend(rows, b) ELSE ReferenceAppend(rows, b)
Stored(k, rows, b) == IF AppendStatus(k, rows, b) = "appended" THEN rows \o Envelopes(b) ELSE rows

------------------------------------------------
NoRepair == [at |-> "idle", primary |-> <<>>, shadow |-> <<>>, result |-> "none"]
StoresInit ==
    /\ kind \in {"reference", "postgres"}
    /\ primary = <<>> /\ shadow = <<>>
    /\ caller = [c \in Callers |-> [batch |-> Batches[c], at |-> "idle", repeats |-> 0]]
    /\ repair = NoRepair

\* DualWriteConversationEventStore.append: the primary decides; the shadow
\* is written afterwards and its failures only reported.  A caller whose
\* answer was lost repeats the same append.
AppendPrimary(c) ==
    /\ caller[c].at = "idle" /\ caller[c].repeats <= MaxRepeats
    /\ primary' = Stored(kind, primary, caller[c].batch)
    /\ caller' = [caller EXCEPT ![c].repeats = @ + 1,
                    ![c].at = IF AppendStatus(kind, primary, caller[c].batch) \in {"appended", "idempotent"}
                              THEN "shadow" ELSE "idle"]
    /\ UNCHANGED <<kind, shadow, repair>>
AppendShadow(c) ==
    /\ caller[c].at = "shadow"
    /\ shadow' \in {Stored("reference", shadow, caller[c].batch), shadow}
    /\ caller' = [caller EXCEPT ![c].at = "idle"]
    /\ UNCHANGED <<kind, primary, repair>>
\* reconcile: both logs are read, one after the other; a shadow that is
\* behind gets what it misses, page by page.
ReadPrimary ==
    /\ repair.at = "idle"
    /\ repair' = [NoRepair EXCEPT !.at = "read", !.primary = primary]
    /\ UNCHANGED <<kind, primary, shadow, caller>>
Shared(p, s) == SubSeq(p, 1, IF Len(p) < Len(s) THEN Len(p) ELSE Len(s))
Finished(result) == [NoRepair EXCEPT !.result = result]
ReadShadow ==
    /\ repair.at = "read"
    /\ repair' = IF Shared(repair.primary, shadow) # shadow
                 THEN Finished("divergent")
                 ELSE [repair EXCEPT !.at = "repair", !.shadow = shadow]
    /\ UNCHANGED <<kind, primary, shadow, caller>>
Missing(r) == SubSeq(r.primary, Len(r.shadow) + 1,
                     IF Len(r.shadow) + PageSize < Len(r.primary) THEN Len(r.shadow) + PageSize ELSE Len(r.primary))
RepairBatch(r) == [expected |-> Len(r.shadow), events |-> Missing(r)]
RepairShadow ==
    /\ repair.at = "repair"
    /\ LET status == ReferenceAppend(shadow, RepairBatch(repair)) IN
       IF Missing(repair) = <<>>
       THEN repair' = Finished("converged") /\ UNCHANGED shadow
       ELSE IF status \in {"appended", "idempotent"}
       THEN /\ shadow' = Stored("reference", shadow, RepairBatch(repair))
            /\ repair' = [repair EXCEPT !.shadow = @ \o Missing(repair)]
       ELSE repair' = Finished("failed") /\ UNCHANGED shadow
    /\ UNCHANGED <<kind, primary, caller>>

StoresNext ==
    \/ \E c \in Callers : AppendPrimary(c) \/ AppendShadow(c)
    \/ ReadPrimary \/ ReadShadow \/ RepairShadow

StoresSpec == StoresInit /\ [][StoresNext]_storeVars

------------------------------------------------
\* The shadow is at every moment a beginning of the primary, although its
\* writes come later, out of order, fail or race with a repair ("Primary
\* remains authoritative; shadow failures are observable and rollback-safe").
ShadowFollows == IsPrefix(shadow, primary)

\* It is so over PostgreSQL, which accepts no mutation in a new envelope.
ShadowFollowsPostgres == kind = "postgres" => ShadowFollows

\* Whatever is repeated, in the same envelope, a new one or as part of
\* another batch, the log keeps contiguous revisions and every identity once.
IdentitiesOnce ==
    /\ \A i \in 1..Len(primary) : primary[i].revision = i
    /\ \A i, j \in 1..Len(primary) : SameIdentity(primary[i], primary[j]) => i = j

\* PostgreSQL is never more lenient than the reference: on any log reached
\* and any batch, what it accepts the reference accepts with the same answer.
PostgresNoMoreLenient ==
    \A c \in Callers :
        LET status == PostgresAppend(primary, caller[c].batch) IN
        status \in {"appended", "idempotent"} => ReferenceAppend(primary, caller[c].batch) = status

\* An event store keeps contiguous revisions and every identity once,
\* PostgreSQL accepts nothing that the reference refuses, and over it the
\* shadow is always a beginning of the primary (append, dual-write).
StoresSound == IdentitiesOnce /\ PostgresNoMoreLenient /\ ShadowFollowsPostgres
================================================
