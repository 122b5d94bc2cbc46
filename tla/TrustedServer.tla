---------------- MODULE TrustedServer ----------------
(***************************************************************************)
(* createTrustedServerRequestProtectorV1 (server/trusted-server.ts): every *)
(* request passes origin, authentication, authorization and rate limit,    *)
(* reserves its idempotency key, takes a concurrency lease, runs the       *)
(* protected operation, and cleans up.  protectedAwait lets a cancellation *)
(* or the deadline overtake a hook that has not replied yet; the reply is  *)
(* then dropped.                                                           *)
(*                                                                         *)
(* The host's hooks are external: one table of idempotency keys and a pool *)
(* of leases, as the repository's tests build them.  A hook that reserves  *)
(* or acquires commits at the host first and replies in a later step; it   *)
(* honours the signal and commits nothing once that has aborted, as        *)
(* createTrustedServerRequestProtectorV1 asks of it.                       *)
(***************************************************************************)
EXTENDS Integers, Sequences, FiniteSets

CONSTANTS
    Plans,  \* records [requests, leases, aborts, faults]: a request is
            \* a record [key, print]
    Keys    \* the idempotency keys

VARIABLES
    plan,   \* the plan of this behaviour
    req,    \* req[q]: the request q
    calls,  \* the hook calls in flight, as pairs of a request and a hook
    table,  \* table[k]: what the host holds for key k
    leases  \* the requests that hold a lease

serverVars == <<plan, req, calls, table, leases>>

Requests == DOMAIN plan.requests

Gates == <<"origin", "authentication", "authorization", "rate_limit">>
Free == [status |-> "free", by |-> 0, print |-> ""]

NewRequest ==
    [pc |-> "validation", gate |-> 1, aborted |-> FALSE, reserved |-> FALSE, leased |-> FALSE,
     reply |-> "none", answer |-> "none", unsure |-> FALSE]

Set(q, r) == req' = [req EXCEPT ![q] = r]
At(q, stage) == [req[q] EXCEPT !.pc = stage]
Ends(q, stage, answer) == [req[q] EXCEPT !.pc = stage, !.answer = answer]
Call(q, hook) == calls' = calls \union {<<q, hook>>}
Answered(q, hook) == calls' = calls \ {<<q, hook>>}
Listens(q, hook) == <<q, hook>> \in calls /\ ~req[q].aborted
Fault == plan.faults > 0 /\ plan' = [plan EXCEPT !.faults = @ - 1]
KeepHost == UNCHANGED <<table, leases>>

\* Mutant: the reservation is settled before the lease is released.
SettlesFirst(r) ==
    IF r.reserved THEN "settle" ELSE IF r.leased THEN "release" ELSE "retain"
\* Where cleanup begins: the lease first, then the reservation, then the
\* terminal record.
Cleanup(r) ==
    IF r.leased THEN "release" ELSE IF r.reserved THEN "settle" ELSE "retain"

------------------------------------------------
\* validateRequest and the deadline's bounds; then the gates, whose hooks
\* allow, refuse or throw.
Validate(q) ==
    /\ req[q].pc = "validation"
    /\ \/ Set(q, At(q, "gates")) /\ Call(q, "gate")
       \/ Set(q, Ends(q, "retain", "failure")) /\ UNCHANGED calls
    /\ KeepHost /\ UNCHANGED plan

PassGate(q) ==
    /\ Listens(q, "gate")
    /\ IF req[q].gate < Len(Gates)
       THEN Set(q, [req[q] EXCEPT !.gate = @ + 1]) /\ UNCHANGED calls
       ELSE /\ Set(q, At(q, "idempotency"))
            /\ calls' = (calls \ {<<q, "gate">>}) \union {<<q, "reserve">>}
    /\ KeepHost /\ UNCHANGED plan

RefuseGate(q) ==
    /\ Listens(q, "gate")
    /\ Answered(q, "gate")
    /\ Set(q, Ends(q, "retain", "failure"))
    /\ KeepHost /\ UNCHANGED plan

------------------------------------------------
\* reserveIdempotency, of the host: what it decides, and commits, while the
\* signal is not aborted.
HostEntry(q) == table[plan.requests[q].key]

Grants(q) == HostEntry(q).status \in {"free", "failed"}

Reserve(q) ==
    table' = [table EXCEPT ![plan.requests[q].key] =
                 [status |-> "in_flight", by |-> q, print |-> plan.requests[q].print]]

Decision(q) ==
    IF HostEntry(q).print # plan.requests[q].print THEN "failure"
    ELSE IF HostEntry(q).status = "completed" THEN "replay" ELSE "failure"

HostReserves(q) ==
    /\ Listens(q, "reserve") /\ req[q].reply = "none"
    /\ IF Grants(q)
       THEN Reserve(q) /\ Set(q, [req[q] EXCEPT !.reply = "granted"])
       ELSE Set(q, [req[q] EXCEPT !.reply = Decision(q)]) /\ UNCHANGED table
    /\ UNCHANGED <<plan, calls, leases>>

\* The reply arrives.
ReserveIdempotency(q) ==
    /\ Listens(q, "reserve") /\ req[q].reply # "none"
    /\ IF req[q].reply = "granted"
       THEN /\ Set(q, [At(q, "concurrency") EXCEPT !.reserved = TRUE, !.reply = "none"])
            /\ calls' = (calls \ {<<q, "reserve">>}) \union {<<q, "acquire">>}
       ELSE /\ Set(q, Ends(q, "retain", req[q].reply))
            /\ Answered(q, "reserve")
    /\ KeepHost /\ UNCHANGED plan

\* acquireConcurrency, of the host, and its reply.
HostLeases(q) ==
    /\ Listens(q, "acquire") /\ req[q].reply = "none"
    /\ IF Cardinality(leases) < plan.leases
       THEN leases' = leases \union {q} /\ Set(q, [req[q] EXCEPT !.reply = "granted"])
       ELSE Set(q, [req[q] EXCEPT !.reply = "failure"]) /\ UNCHANGED leases
    /\ UNCHANGED <<plan, calls, table>>

AcquireConcurrency(q) ==
    /\ Listens(q, "acquire") /\ req[q].reply # "none"
    /\ IF req[q].reply = "granted"
       THEN /\ Set(q, [At(q, "operation") EXCEPT !.leased = TRUE])
            /\ calls' = (calls \ {<<q, "acquire">>}) \union {<<q, "operate">>}
       ELSE /\ Set(q, Ends(q, "settle", "failure"))
            /\ Answered(q, "acquire")
    /\ KeepHost /\ UNCHANGED plan

\* What the operation returns is cloned and bounded, or refused.
Stored == {"success", "failure"}

Operate(q) ==
    /\ Listens(q, "operate")
    /\ Answered(q, "operate")
    /\ \E answer \in Stored :
          Set(q, Ends(q, Cleanup(req[q]), answer))
    /\ KeepHost /\ UNCHANGED plan

\* A hook throws: the request fails and cleans up what it has.
HookThrows(q) ==
    /\ Fault /\ req[q].reply = "none"
    /\ \E hook \in {"gate", "reserve", "acquire"} :
          Listens(q, hook) /\ Answered(q, hook)
    /\ Set(q, Ends(q, Cleanup(req[q]), "failure"))
    /\ KeepHost

\* The caller's abort or the deadline: protectedAwait rejects at once, and
\* the reply of the hook that was being awaited is dropped when it comes.
Abort(q) ==
    /\ plan.aborts > 0 /\ plan' = [plan EXCEPT !.aborts = @ - 1]
    /\ ~req[q].aborted /\ req[q].pc \in {"gates", "idempotency", "concurrency", "operation"}
    /\ Set(q, [Ends(q, Cleanup(req[q]), "failure") EXCEPT !.aborted = TRUE])
    /\ KeepHost /\ UNCHANGED calls

HookEndsLate(q) ==
    /\ req[q].aborted
    /\ \E hook \in {"gate", "reserve", "acquire", "operate"} :
          <<q, hook>> \in calls /\ Answered(q, hook)
    /\ KeepHost /\ UNCHANGED <<plan, req>>

------------------------------------------------
\* Cleanup.  A hook that throws turns the answer into a failure.
After(q, stage) == Cleanup([req[q] EXCEPT ![stage] = FALSE])

ReleaseConcurrency(q) ==
    /\ req[q].pc = "release"
    /\ leases' = leases \ {q}
    /\ Set(q, [At(q, After(q, "leased")) EXCEPT !.leased = FALSE])
    /\ UNCHANGED <<plan, calls, table>>

ReleaseThrows(q) ==
    /\ req[q].pc = "release" /\ Fault
    /\ leases' \in {leases, leases \ {q}}
    /\ Set(q, [Ends(q, After(q, "leased"), "failure") EXCEPT !.leased = FALSE])
    /\ UNCHANGED <<calls, table>>

Settle(q) ==
    table' = [table EXCEPT ![plan.requests[q].key].status =
                 IF req[q].answer = "success" THEN "completed" ELSE "failed"]

SettleIdempotency(q) ==
    /\ req[q].pc = "settle"
    /\ Settle(q)
    /\ Set(q, [At(q, After(q, "reserved")) EXCEPT !.reserved = FALSE])
    /\ UNCHANGED <<plan, calls, leases>>

SettleThrows(q) ==
    /\ req[q].pc = "settle" /\ Fault
    /\ Settle(q) \/ UNCHANGED table
    /\ Set(q, [Ends(q, After(q, "reserved"), "failure") EXCEPT !.reserved = FALSE, !.unsure = TRUE])
    /\ UNCHANGED <<calls, leases>>

\* retainAndReturn: a failure to retain changes nothing.
RetainAndReturn(q) ==
    /\ req[q].pc = "retain"
    /\ Set(q, At(q, "returned"))
    /\ KeepHost /\ UNCHANGED <<plan, calls>>

------------------------------------------------
ServerInit ==
    /\ plan \in Plans
    /\ req = [q \in Requests |-> NewRequest]
    /\ calls = {} /\ leases = {}
    /\ table = [k \in Keys |-> Free]

ServerNext ==
    \E q \in Requests :
        \/ Validate(q) \/ PassGate(q) \/ RefuseGate(q) \/ HostReserves(q)
        \/ ReserveIdempotency(q) \/ HostLeases(q) \/ AcquireConcurrency(q) \/ Operate(q)
        \/ HookThrows(q) \/ Abort(q) \/ HookEndsLate(q)
        \/ ReleaseConcurrency(q) \/ ReleaseThrows(q) \/ SettleIdempotency(q) \/ SettleThrows(q)
        \/ RetainAndReturn(q)

------------------------------------------------
\* What the caller is told is what a retry under the same key will find: a
\* success is recorded as completed, and a request answered with a failure
\* has left no completed record, unless the settlement itself was the hook
\* that failed.
AnswerStands ==
    \A q \in Requests :
        LET e == table[plan.requests[q].key]
        IN  req[q].pc = "returned" /\ ~req[q].unsure =>
                /\ req[q].answer = "success" => e.by = q /\ e.status = "completed"
                /\ req[q].answer = "failure" => ~(e.by = q /\ e.status = "completed")

\* "Records exactly one bounded public result or fixed public failure per
\* reservation": once a request has returned and none of its hooks runs
\* any more, what the host reserved for it has been settled.
ReservationsSettled ==
    \A q \in Requests :
        req[q].pc = "returned" /\ ~req[q].unsure /\ (\A c \in calls : c[1] # q) =>
            \A k \in Keys : table[k].by = q => table[k].status # "in_flight"
================================================
