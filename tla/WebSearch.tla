---------------- MODULE WebSearch ----------------
(***************************************************************************)
(* WebSearchService (web-search.ts): one bounded search per idempotency    *)
(* key.  A call that finds its key joins the search under way, or gets the *)
(* answer of the one that ended; a search asks the host's authorization,   *)
(* the adapter and, for every candidate, the URL and result policies, each *)
(* raced against the first caller's abort signal and deadline.             *)
(*                                                                         *)
(* A call waits for its fingerprint before it looks at the entries; the    *)
(* rest up to the first wait of the search is one action.  A candidate is  *)
(* [source, url, public, verdict]: whether its URLs are public HTTPS ones  *)
(* without credentials, and the policies' answer to it.                    *)
(***************************************************************************)
EXTENDS Naturals, FiniteSets, Sequences

CONSTANTS
    Requests,       \* sets of calls: sequences of [key, query, max, deadline, aborts]
    Outputs,        \* what the adapter may return: sequences of candidates
    MaxEntries,     \* limits.idempotencyEntries
    MaxResults,     \* limits.adapterResults
    Timeout         \* limits.timeoutMs

VARIABLES
    requests,       \* the calls of this behaviour
    clock,
    callers,        \* each call: its phase, whether its caller aborted, its answer
    entries,        \* #entries in insertion order: [key, print, operation]
    operations      \* #executeOnce of each call that ran one: its phase, candidates, answer

searchVars == <<requests, clock, callers, entries, operations>>

Calls == DOMAIN requests
Pending == [code |-> "pending", results |-> <<>>]
Failure(code) == [code |-> code, results |-> <<>>]
Running(o) == operations[o].phase \in {"authorizing", "searching", "checking"}
\* fingerprint: two calls of one key are the same when they agree in this.
Fingerprint(request) == <<request.query, request.max>>
Settled(entry) == ~Running(entry.operation)

\* normalizeInput, the signal and the deadline: what a call fails with at once.
Admission(c) ==
    CASE callers[c].aborted -> "cancelled"
      [] requests[c].max = 0 -> "invalid_request"
      [] requests[c].deadline <= clock -> "timeout"
      [] requests[c].deadline > clock + Timeout -> "invalid_request"
      [] OTHER -> "admitted"

Answer(c, answer) == callers' = [callers EXCEPT ![c].phase = "done", ![c].answer = answer]

Search(c) ==
    /\ callers[c].phase = "idle"
    /\ IF Admission(c) = "admitted" THEN callers' = [callers EXCEPT ![c].phase = "fingerprint"]
       ELSE Answer(c, Failure(Admission(c)))
    /\ UNCHANGED <<requests, clock, entries, operations>>

Keyed(key) == {i \in DOMAIN entries : entries[i].key = key}

\* Mutant: room is made by dropping the oldest entry, settled or not.
MakeRoomOfOldest == IF Len(entries) < MaxEntries THEN entries ELSE Tail(entries)

\* #makeRoom: the oldest settled entries go until there is room for one.
MakeRoom ==
    LET settled == {i \in DOMAIN entries : Settled(entries[i])}
        oldest == {i \in settled : \A j \in settled : i <= j}
        i == CHOOSE o \in oldest : TRUE
    IN  IF Len(entries) < MaxEntries \/ oldest = {} THEN entries
        ELSE SubSeq(entries, 1, i - 1) \o SubSeq(entries, i + 1, Len(entries))

\* search after its fingerprint: join, conflict, no room, or execute.
LookUp(c) ==
    LET found == Keyed(requests[c].key)
        room == MakeRoom
    IN  /\ callers[c].phase = "fingerprint"
        /\ \/ \E i \in found :
                 /\ entries[i].print = Fingerprint(requests[c])
                 /\ callers' = [callers EXCEPT ![c].phase = "joined",
                                               ![c].operation = entries[i].operation]
                 /\ UNCHANGED <<entries, operations>>
           \/ /\ \E i \in found : entries[i].print # Fingerprint(requests[c])
              /\ Answer(c, Failure("idempotency_conflict"))
              /\ UNCHANGED <<entries, operations>>
           \/ /\ found = {} /\ Len(room) >= MaxEntries
              /\ Answer(c, Failure("capacity_exceeded"))
              /\ UNCHANGED <<entries, operations>>
           \/ /\ found = {} /\ Len(room) < MaxEntries
              /\ entries' = Append(room, [key |-> requests[c].key, operation |-> c,
                                          print |-> Fingerprint(requests[c])])
              /\ operations' = [operations EXCEPT ![c].phase = "authorizing"]
              /\ callers' = [callers EXCEPT ![c].phase = "joined", ![c].operation = c]
        /\ UNCHANGED <<requests, clock>>

SettlesWith(o, answer) ==
    operations' = [operations EXCEPT ![o].phase = "settled", ![o].answer = answer]

\* #executeOnce: the host's authorization, then the adapter.
Authorize(o) ==
    /\ operations[o].phase = "authorizing"
    /\ \/ operations' = [operations EXCEPT ![o].phase = "searching"]
       \/ \E code \in {"authorization_unavailable", "authorization_denied"} :
             SettlesWith(o, Failure(code))
    /\ UNCHANGED <<requests, clock, callers, entries>>

\* canonicalUrl and the address tests it makes of a candidate's URLs.
Public(candidate) == candidate.public

\* normalizeAdapterOutput: one candidate the service cannot show spoils all.
Normalizes(output) ==
    /\ Len(output) <= MaxResults
    /\ \A i \in DOMAIN output : Public(output[i])

AdapterSearches(o) ==
    /\ operations[o].phase = "searching"
    /\ \/ \E output \in Outputs :
             IF Normalizes(output)
             THEN operations' = [operations EXCEPT ![o].phase = "checking",
                                                   ![o].candidates = output]
             ELSE SettlesWith(o, Failure("invalid_response"))
       \/ SettlesWith(o, Failure("adapter_unavailable"))
    /\ UNCHANGED <<requests, clock, callers, entries>>

\* An accepted candidate is retained unless there are enough, or its URL or
\* its source is one already retained.
Retains(results, candidate, max) ==
    /\ Len(results) < max
    /\ \A i \in DOMAIN results :
          results[i].url # candidate.url /\ results[i].source # candidate.source

\* The policies are asked about the next candidate, retained or not.
CheckCandidate(o) ==
    LET operation == operations[o]
        candidate == Head(operation.candidates)
    IN  /\ operation.phase = "checking" /\ operation.candidates # <<>>
        /\ IF candidate.verdict = "accepted"
           THEN operations' = [operations EXCEPT
                   ![o].candidates = Tail(@),
                   ![o].results = IF Retains(@, candidate, requests[o].max)
                                  THEN Append(@, candidate) ELSE @]
           ELSE SettlesWith(o, Failure(candidate.verdict))
        /\ UNCHANGED <<requests, clock, callers, entries>>

\* The accepted results, unless together they are too large to return.
Complete(o) ==
    /\ operations[o].phase = "checking" /\ operations[o].candidates = <<>>
    /\ \/ SettlesWith(o, [code |-> "ok", results |-> operations[o].results])
       \/ operations[o].results # <<>> /\ SettlesWith(o, Failure("invalid_response"))
    /\ UNCHANGED <<requests, clock, callers, entries>>

\* raceWithSignal: the wait ends with the first caller's abort or deadline.
Overtaken(o) ==
    /\ Running(o)
    /\ \/ callers[o].aborted /\ SettlesWith(o, Failure("cancelled"))
       \/ requests[o].deadline <= clock /\ SettlesWith(o, Failure("timeout"))
    /\ UNCHANGED <<requests, clock, callers, entries>>

Receive(c) ==
    /\ callers[c].phase = "joined"
    /\ operations[callers[c].operation].phase = "settled"
    /\ Answer(c, operations[callers[c].operation].answer)
    /\ UNCHANGED <<requests, clock, entries, operations>>

Abort(c) ==
    /\ requests[c].aborts /\ callers[c].phase # "done" /\ ~callers[c].aborted
    /\ callers' = [callers EXCEPT ![c].aborted = TRUE]
    /\ UNCHANGED <<requests, clock, entries, operations>>

Tick ==
    /\ \E c \in Calls : callers[c].phase # "done" /\ requests[c].deadline > clock
    /\ clock' = clock + 1
    /\ UNCHANGED <<requests, callers, entries, operations>>

SearchInit ==
    /\ requests \in Requests
    /\ clock = 0
    /\ callers = [c \in Calls |-> [phase |-> "idle", aborted |-> FALSE, operation |-> c,
                                   answer |-> Pending]]
    /\ entries = <<>>
    /\ operations = [c \in Calls |-> [phase |-> "none", candidates |-> <<>>, results |-> <<>>,
                                      answer |-> Pending]]

SearchNext ==
    \/ \E c \in Calls : Search(c) \/ LookUp(c) \/ Receive(c) \/ Abort(c)
    \/ \E o \in Calls : Authorize(o) \/ AdapterSearches(o) \/ CheckCandidate(o)
                        \/ Complete(o) \/ Overtaken(o)
    \/ Tick

(***************************************************************************)
(* Properties.                                                             *)
(***************************************************************************)
\* However calls join, abort, time out and push each other's entries out, no
\* two searches of one key are waited for at the same time (one that its signal
\* has overtaken is over; what the adapter still does is dropped), and a call
\* that is answered with results is answered with results of its own query and
\* limit, each public and accepted by the policies and no URL twice
\* (search, #makeRoom, #executeOnce).
SearchedOncePerKey ==
    /\ \A o, p \in Calls :
          Running(o) /\ Running(p) /\ requests[o].key = requests[p].key => o = p
    /\ \A c \in Calls :
          LET results == callers[c].answer.results
          IN  /\ results # <<>> =>
                    Fingerprint(requests[callers[c].operation]) = Fingerprint(requests[c])
              /\ \A i, j \in DOMAIN results :
                    /\ results[i].verdict = "accepted" /\ results[i].public
                    /\ results[i].url = results[j].url => i = j
================================================
