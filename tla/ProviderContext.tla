---------------- MODULE ProviderContext ----------------
(***************************************************************************)
(* Optional provider-context compaction.  Before a turn starts,            *)
(* prepareProviderContextRequest (runtime.ts) loads a checkpoint, measures *)
(* the context, compacts it and saves the new checkpoint.  Several         *)
(* preflights, of runtimes that have read the conversation up to different *)
(* positions, share one InMemoryProviderContextCheckpointStore and one     *)
(* OpenAIProviderContextCapability.                                        *)
(*                                                                         *)
(* A scope stands for conversation and fingerprint.  A history position is *)
(* a revision and the event there.  The host's store and the provider may  *)
(* fail, before or after they took effect.                                 *)
(***************************************************************************)
EXTENDS Integers, Sequences

CONSTANTS
    Plans,         \* records [jobs, faults, aborts]: a job is a record
                   \* [scope, revision, event, key]
    MaxSlots,      \* limits.maxCheckpoints
    MaxRemembered, \* limits.maxIdempotencyRecords
    MaxEntries,    \* OPENAI_PROVIDER_CONTEXT_LIMITS.idempotencyEntries
    MaxAttempts    \* threshold.maximumAttempts

VARIABLES
    plan,       \* the plan of this behaviour
    slots,      \* the store's slots, least recently mutated first
    remembered, \* the store's idempotency records, oldest first
    entries,    \* the capability's compactions, least recently used first
    job,        \* job[j]: the preflight j
    aborted     \* the preflights whose signal is aborted

contextVars == <<plan, slots, remembered, entries, job, aborted>>

Jobs == DOMAIN plan.jobs

NoCheckpoint == [maker |-> 0, scope |-> "", revision |-> 0, event |-> ""]
Null == 0   \* an expected_version of null

Checkpoint(j) ==
    [maker |-> j, scope |-> plan.jobs[j].scope, revision |-> plan.jobs[j].revision,
     event |-> plan.jobs[j].event]

NoRecord == [checkpoint |-> NoCheckpoint, version |-> Null]

------------------------------------------------
\* assessProviderContextCheckpoint and what relies on it.

\* The checkpoint belongs to this context and covers no more of the
\* canonical history than the preflight has read.
Assess(c, j) ==
    /\ c.scope = plan.jobs[j].scope
    /\ c.revision <= plan.jobs[j].revision
    /\ c.revision = plan.jobs[j].revision => c.event = plan.jobs[j].event

\* parseRequestBase refuses a checkpoint ahead of the request's position.
RequestAccepted(c, j) == c = NoCheckpoint \/ Assess(c, j)

\* Mutant: the winner of a conflicting save is adopted whatever it is.
AdoptsAny(c, j) == TRUE
\* A conflicting save adopts the winner only at the very same position.
Adopts(c, j) ==
    /\ Assess(c, j)
    /\ c.revision = plan.jobs[j].revision /\ c.event = plan.jobs[j].event

------------------------------------------------
\* InMemoryProviderContextCheckpointStore.  A result has an ok flag; the
\* failures that matter are version_conflict and idempotency_conflict.

SlotsOf(scope) == SelectSeq(slots, LAMBDA s : s.scope = scope)

Slot(scope) ==
    IF SlotsOf(scope) = <<>>
    THEN [scope |-> scope, version |-> 0, checkpoint |-> NoCheckpoint]
    ELSE Head(SlotsOf(scope))

\* What load returns: nothing for an absent slot and for a tombstone.
Loaded(scope) ==
    LET s == Slot(scope)
    IN  IF s.checkpoint = NoCheckpoint THEN NoRecord
        ELSE [checkpoint |-> s.checkpoint, version |-> s.version]

VersionMatches(scope, want) ==
    IF want = Null THEN Slot(scope).checkpoint = NoCheckpoint
    ELSE Slot(scope).version = want

Touched(scope, s) ==
    LET room == IF SlotsOf(scope) = <<>> /\ Len(slots) >= MaxSlots THEN Tail(slots) ELSE slots
    IN  Append(SelectSeq(room, LAMBDA x : x.scope # scope), s)

Remembered(key, op, signature, result) ==
    LET room == IF Len(remembered) >= MaxRemembered THEN Tail(remembered) ELSE remembered
    IN  Append(room, [key |-> key, op |-> op, signature |-> signature, result |-> result])

\* The request and the outcome of a mutation: "done", "conflict" or
\* "refused" (the key belongs to another request).
Replays(key) == SelectSeq(remembered, LAMBDA x : x.key = key)
Outcome(op, key, signature, scope, want) ==
    IF Replays(key) # <<>>
    THEN IF Head(Replays(key)).op = op /\ Head(Replays(key)).signature = signature
         THEN "replayed" ELSE "refused"
    ELSE IF VersionMatches(scope, want) THEN "done" ELSE "conflict"

SaveSignature(j, want) == <<job[j].made, want>>
InvalidateSignature(j, want) == <<plan.jobs[j].scope, want>>

SaveOutcome(j, want) ==
    Outcome("save", <<plan.jobs[j].key, "save">>, SaveSignature(j, want),
            plan.jobs[j].scope, want)

\* #save: the slot's next version, its place as the latest touched, and
\* the result a retry replays.
Save(j, want) ==
    LET scope == plan.jobs[j].scope
    IN  /\ slots' = Touched(scope, [scope |-> scope, version |-> Slot(scope).version + 1,
                                    checkpoint |-> job[j].made])
        /\ remembered' = Remembered(<<plan.jobs[j].key, "save">>, "save",
                                    SaveSignature(j, want), job[j].made)

InvalidateOutcome(j, name, want) ==
    Outcome("invalidate", <<plan.jobs[j].key, name>>, InvalidateSignature(j, want),
            plan.jobs[j].scope, want)

\* #invalidate: a tombstone keeps the version; nothing to invalidate is
\* still remembered.
Invalidate(j, name, want) ==
    LET scope == plan.jobs[j].scope
    IN  /\ slots' = IF Slot(scope).checkpoint = NoCheckpoint THEN slots
                    ELSE Touched(scope, [scope |-> scope, version |-> Slot(scope).version + 1,
                                         checkpoint |-> NoCheckpoint])
        /\ remembered' = Remembered(<<plan.jobs[j].key, name>>, "invalidate",
                                    InvalidateSignature(j, want), NoCheckpoint)

------------------------------------------------
\* The preflight.

Idle == [pc |-> "load", seen |-> NoRecord, with |-> NoCheckpoint, made |-> NoCheckpoint,
         want |-> Null, tries |-> 1, attempts |-> 1]

\* A preflight goes on: some fields change, and retries count anew.
Onward(r, fields) ==
    [f \in DOMAIN r |-> IF f \in DOMAIN fields THEN fields[f]
                        ELSE IF f = "tries" THEN 1 ELSE r[f]]
Go(j, fields) == job' = [job EXCEPT ![j] = Onward(@, fields)]

\* throwIfRuntimeAborted, checked around every await.
May(j, pc) == job[j].pc = pc /\ j \notin aborted

\* retryCheckpointStoreOperation and retryProviderContextOperation: once
\* more, or give up and go on with what a failure falls back to.
Retry(j, fallback) ==
    IF job[j].tries < MaxAttempts
    THEN job' = [job EXCEPT ![j].tries = @ + 1]
    ELSE Go(j, fallback)

\* A fault of the host's store or of the provider, within the budget.
Faults == plan.faults > 0 /\ plan' = [plan EXCEPT !.faults = @ - 1]

\* providerContextFallback: the turn starts with the request as it was.
Plain == [pc |-> "sent", with |-> NoCheckpoint]

KeepStore == UNCHANGED <<slots, remembered>>
KeepRest == UNCHANGED <<entries, aborted>>

LoadCheckpoint(j) ==
    /\ May(j, "load")
    /\ LET r == Loaded(plan.jobs[j].scope)
       IN  Go(j, IF r = NoRecord THEN [pc |-> "measure"]
                 ELSE IF Assess(r.checkpoint, j)
                 THEN [pc |-> "measure", seen |-> r, with |-> r.checkpoint]
                 ELSE [pc |-> "invalidate", want |-> r.version])
    /\ KeepStore /\ KeepRest /\ UNCHANGED plan

LoadFails(j) ==
    /\ May(j, "load") /\ Faults
    /\ Retry(j, [pc |-> "measure"])
    /\ KeepStore /\ KeepRest

\* The two invalidations differ in their key and in what follows.
InvalidateThen(j, name, next) ==
    LET o == InvalidateOutcome(j, name, job[j].want)
    IN  /\ IF o = "done" THEN Invalidate(j, name, job[j].want) ELSE KeepStore
        /\ IF o = "conflict" THEN Retry(j, next) ELSE Go(j, next)
        /\ KeepRest /\ UNCHANGED plan

\* Its answer, or the request itself, is lost.
InvalidateLost(j, name, next) ==
    /\ Faults /\ Retry(j, next) /\ KeepRest
    /\ \/ KeepStore
       \/ /\ InvalidateOutcome(j, name, job[j].want) = "done"
          /\ Invalidate(j, name, job[j].want)

InvalidateStale(j) ==
    /\ May(j, "invalidate")
    /\ \/ InvalidateThen(j, "invalidate", [pc |-> "measure"])
       \/ InvalidateLost(j, "invalidate", [pc |-> "measure"])

InvalidateRejected(j) ==
    /\ May(j, "reject")
    /\ \/ InvalidateThen(j, "invalidate-result", Plain)
       \/ InvalidateLost(j, "invalidate-result", Plain)

\* measure: the capability validates the request; the context fits, or it
\* is to be compacted, or the answer is of another position or broken.
MeasureContext(j) ==
    /\ May(j, "measure")
    /\ IF ~RequestAccepted(job[j].with, j) THEN Go(j, Plain)
       ELSE \/ Go(j, [pc |-> "sent"])
            \/ Go(j, [pc |-> "compact"])
            \/ Go(j, Plain)
    /\ KeepStore /\ KeepRest /\ UNCHANGED plan

MeasureUnavailable(j) ==
    /\ May(j, "measure") /\ Faults /\ Retry(j, Plain)
    /\ KeepStore /\ KeepRest

\* compact: the identical compaction is joined, another under its key is a
\* conflict, and a new one takes a place, of a settled one if need be.
Identity(j) == <<plan.jobs[j].scope, plan.jobs[j].revision, plan.jobs[j].event, job[j].with>>
EntriesOf(key) == {i \in DOMAIN entries : entries[i].key = key}
Settled(e) == e.result # "running"
Without(i) == SubSeq(entries, 1, i - 1) \o SubSeq(entries, i + 1, Len(entries))

ReserveCapacity ==
    LET settled == {i \in DOMAIN entries : Settled(entries[i])}
        oldest == {i \in settled : \A k \in settled : i <= k}
    IN  IF Len(entries) < MaxEntries \/ oldest = {} THEN entries
        ELSE Without(CHOOSE i \in oldest : TRUE)

\* What the preflight does with a compaction's result; "dropped" is an
\* unchanged context whose checkpoint the provider did not return.
Compacted(j, result, maker) ==
    CASE result = "compacted"   -> [pc |-> "save", made |-> Checkpoint(maker),
                                    want |-> job[j].seen.version, attempts |-> 1]
      [] result = "unchanged"   -> [pc |-> "sent"]
      [] result = "dropped"     -> Plain
      [] result = "invalidated" -> IF job[j].with = NoCheckpoint THEN Plain
                                   ELSE [pc |-> "reject", want |-> job[j].seen.version]
      [] result = "cancelled"   -> [pc |-> "cancelled"]
      [] OTHER                  -> Plain

CompactContext(j) ==
    LET key  == plan.jobs[j].key
        room == ReserveCapacity
    IN  /\ May(j, "compact")
        /\ \/ \E i \in EntriesOf(key) :
                 IF entries[i].identity # Identity(j)
                 THEN Go(j, Plain) /\ UNCHANGED entries
                 ELSE /\ entries' = Append(Without(i), entries[i])
                      /\ IF Settled(entries[i])
                         THEN Go(j, Compacted(j, entries[i].result, entries[i].owner))
                         ELSE job' = [job EXCEPT ![j].pc = "compacting"]
           \/ /\ EntriesOf(key) = {} /\ Len(room) >= MaxEntries
              /\ Retry(j, Plain) /\ UNCHANGED entries
           \/ /\ EntriesOf(key) = {} /\ Len(room) < MaxEntries
              /\ entries' = Append(room, [key |-> key, identity |-> Identity(j),
                                          owner |-> j, result |-> "running"])
              /\ job' = [job EXCEPT ![j].pc = "compacting"]
        /\ KeepStore /\ UNCHANGED <<plan, aborted>>

\* performCompaction ends.  Every preflight that waits for it learns the
\* result; a failure leaves no entry, and an unavailable provider is asked
\* again.
Waiting(e) == {j \in Jobs : job[j].pc = "compacting" /\ plan.jobs[j].key = e.key}

CompactionEnds(i, result) ==
    LET e == entries[i]
    IN  /\ ~Settled(e)
        /\ result = "unavailable" => plan.faults > 0
        /\ result = "cancelled" <=> e.owner \in aborted
        /\ plan' = [plan EXCEPT !.faults = IF result = "unavailable" THEN @ - 1 ELSE @]
        /\ entries' = IF result \in {"unavailable", "broken", "cancelled"} THEN Without(i)
                      ELSE [entries EXCEPT ![i].result = result]
        /\ job' = [j \in Jobs |->
                     IF j \notin Waiting(e) THEN job[j]
                     ELSE IF result # "unavailable" THEN Onward(job[j], Compacted(j, result, e.owner))
                     ELSE IF job[j].tries < MaxAttempts
                     THEN [job[j] EXCEPT !.pc = "compact", !.tries = @ + 1]
                     ELSE Onward(job[j], Plain)]
        /\ KeepStore /\ UNCHANGED aborted

\* saveProviderContextCheckpoint: at most MaxAttempts rounds of saving,
\* and after a conflict of loading what won.
UseMade(j) == [pc |-> "sent", with |-> job[j].made]
NextRound(j, pc, want) ==
    IF job[j].attempts < MaxAttempts
    THEN [pc |-> pc, want |-> want, attempts |-> job[j].attempts + 1]
    ELSE UseMade(j)

SaveCheckpoint(j) ==
    /\ May(j, "save")
    /\ LET o == SaveOutcome(j, job[j].want)
       IN  /\ IF o = "done" THEN Save(j, job[j].want) ELSE KeepStore
           /\ Go(j, IF o = "conflict" THEN [pc |-> "reload"] ELSE UseMade(j))
    /\ KeepRest /\ UNCHANGED plan

SaveLost(j) ==
    /\ May(j, "save") /\ Faults
    /\ Go(j, NextRound(j, "save", job[j].want))
    /\ \/ KeepStore
       \/ SaveOutcome(j, job[j].want) = "done" /\ Save(j, job[j].want)
    /\ KeepRest

Reload(j) ==
    /\ May(j, "reload")
    /\ LET r == Loaded(plan.jobs[j].scope)
       IN  Go(j, IF r # NoRecord /\ Adopts(r.checkpoint, j)
                 THEN [pc |-> "sent", with |-> r.checkpoint]
                 ELSE NextRound(j, "save", r.version))
    /\ KeepStore /\ KeepRest /\ UNCHANGED plan

ReloadFails(j) ==
    /\ May(j, "reload") /\ Faults /\ Retry(j, UseMade(j))
    /\ KeepStore /\ KeepRest

\* The turn is cancelled, or its runtime destroyed, during the preflight;
\* the preflight notices at its next await.
Abort(j) ==
    /\ plan.aborts /\ j \notin aborted /\ job[j].pc \notin {"sent", "cancelled"}
    /\ aborted' = aborted \union {j}
    /\ UNCHANGED <<plan, slots, remembered, entries, job>>

NoticeAbort(j) ==
    /\ j \in aborted /\ job[j].pc \notin {"sent", "cancelled"}
    /\ Go(j, [pc |-> "cancelled"])
    /\ KeepStore /\ KeepRest /\ UNCHANGED plan

------------------------------------------------
ContextInit ==
    /\ plan \in Plans
    /\ slots = <<>> /\ remembered = <<>> /\ entries = <<>> /\ aborted = {}
    /\ job = [j \in Jobs |-> Idle]

ContextNext ==
    \/ \E j \in Jobs :
          \/ LoadCheckpoint(j) \/ LoadFails(j) \/ InvalidateStale(j) \/ InvalidateRejected(j)
          \/ MeasureContext(j) \/ MeasureUnavailable(j) \/ CompactContext(j)
          \/ SaveCheckpoint(j) \/ SaveLost(j) \/ Reload(j) \/ ReloadFails(j)
          \/ Abort(j) \/ NoticeAbort(j)
    \/ \E i \in DOMAIN entries, result \in {"compacted", "unchanged", "dropped", "invalidated",
                                            "unavailable", "broken", "cancelled"} :
          CompactionEnds(i, result)

------------------------------------------------
\* A turn never starts from a provider checkpoint that belongs to another
\* context or that covers history its own runtime has not read, whoever
\* stored it and whichever of two concurrent saves won.
ContextMatchesHistory ==
    \A j \in Jobs :
        job[j].pc = "sent" /\ job[j].with # NoCheckpoint => Assess(job[j].with, j)
================================================
