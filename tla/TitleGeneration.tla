---------------- MODULE TitleGeneration ----------------
(***************************************************************************)
(* ConversationTitleGenerationService (conversation/title-generation.ts):  *)
(* a title per idempotency key, asked of the host's hook with a bounded    *)
(* excerpt of the user's messages.  A repeated key joins the operation     *)
(* under way or gets its title; the hook works under the first caller's    *)
(* abort signal, and everyone waits under his own.                         *)
(*                                                                         *)
(* A message is [role, text, length]; sanitizing and truncation keep its   *)
(* identity and what is left of its length.                                *)
(***************************************************************************)
EXTENDS Naturals, SequencesExt

CONSTANTS
    Requests,    \* sets of calls: sequences of [key, messages, aborts]
    MaxItems,    \* userTextItems
    MaxLength,   \* userTextLength
    MaxTotal,    \* userTextTotalLength
    MaxEntries   \* idempotencyEntries

VARIABLES
    requests,    \* the calls of this behaviour
    callers,     \* each call: its phase, whether its signal is aborted, its operation, its answer
    entries,     \* #idempotency in insertion order: [key, operation]
    operations   \* #invoke of each call that ran one

titleVars == <<requests, callers, entries, operations>>

Calls == DOMAIN requests
Smaller(a, b) == IF a < b THEN a ELSE b

\* createConversationTitleGenerationContext: at most MaxItems texts of the
\* user, each cut to MaxLength and all of them to MaxTotal.
Excerpt(acc, message) ==
    LET length == Smaller(message.length, Smaller(acc.remaining, MaxLength))
    IN  IF message.role # "user" \/ Len(acc.texts) >= MaxItems \/ length = 0 THEN acc
        ELSE [texts |-> Append(acc.texts, <<message.text, length>>), remaining |-> acc.remaining - length]
Context(messages) == FoldLeft(Excerpt, [texts |-> <<>>, remaining |-> MaxTotal], messages).texts
Signature(c) == Context(requests[c].messages)

\* fallbackTitle: the first text of the user, or the default title.
FallbackTitle(c) == IF Signature(c) = <<>> THEN "New conversation" ELSE Head(Signature(c))[1]

Running(o) == operations[o].phase = "running"
Keyed(key) == {i \in DOMAIN entries : entries[i].key = key}
Unkeyed(o) == SelectSeq(entries, LAMBDA e : e.operation # o)
Answers(c, answer) == callers' = [callers EXCEPT ![c].phase = "done", ![c].answer = answer]

\* #makeCapacity: the oldest settled entry goes when there is no room.
Settled == {i \in DOMAIN entries : ~Running(entries[i].operation)}
HasCapacity == Len(entries) < MaxEntries \/ Settled # {}
MakeCapacity ==
    IF Len(entries) < MaxEntries THEN entries
    ELSE RemoveAt(entries, CHOOSE i \in Settled : \A j \in Settled : i <= j)

\* generateTitle up to its wait.
Refuse(c, code) == Answers(c, code) /\ UNCHANGED <<entries, operations>>
Join(c, i) ==
    /\ callers' = [callers EXCEPT ![c].phase = "waiting", ![c].operation = entries[i].operation]
    /\ entries' = Append(RemoveAt(entries, i), entries[i])
    /\ UNCHANGED operations
Invoke(c) ==
    /\ callers' = [callers EXCEPT ![c].phase = "waiting", ![c].operation = c]
    /\ entries' = Append(MakeCapacity, [key |-> requests[c].key, operation |-> c])
    /\ operations' = [operations EXCEPT ![c].phase = "running"]
GenerateTitle(c) ==
    LET same == Keyed(requests[c].key)
    IN  /\ callers[c].phase = "idle"
        /\ IF callers[c].aborted THEN Refuse(c, "aborted")
           ELSE IF same = {} THEN IF HasCapacity THEN Invoke(c) ELSE Refuse(c, "capacity_exceeded")
           ELSE \E i \in same : IF Signature(entries[i].operation) = Signature(c) THEN Join(c, i)
                                ELSE Refuse(c, "idempotency_conflict")
        /\ UNCHANGED requests

\* The hook's output, normalised, or the fallback for one that is no title.
HookReturns(o) ==
    /\ Running(o) /\ ~callers[o].aborted
    /\ \E title \in {"generated", FallbackTitle(o)} :
          operations' = [operations EXCEPT ![o] = [phase |-> "settled", title |-> title]]
    /\ UNCHANGED <<requests, callers, entries>>
\* The hook fails, or its caller's signal is aborted: the entry is forgotten.
InvokeRejects(o) ==
    /\ Running(o)
    /\ operations' = [operations EXCEPT ![o].phase = "failed"]
    /\ entries' = Unkeyed(o)
    /\ UNCHANGED <<requests, callers>>

\* awaitWithSignal: the operation's end, or the caller's own abort.
AwaitEnds(c) ==
    LET o == operations[callers[c].operation]
    IN  /\ callers[c].phase = "waiting"
        /\ \/ callers[c].aborted /\ Answers(c, "aborted")
           \/ o.phase = "settled" /\ Answers(c, o.title)
           \/ o.phase = "failed" /\ Answers(c, "failed")
        /\ UNCHANGED <<requests, entries, operations>>
Abort(c) ==
    /\ requests[c].aborts /\ callers[c].phase # "done" /\ ~callers[c].aborted
    /\ callers' = [callers EXCEPT ![c].aborted = TRUE]
    /\ UNCHANGED <<requests, entries, operations>>

TitlesInit ==
    /\ requests \in Requests
    /\ callers = [c \in Calls |-> [phase |-> "idle", aborted |-> FALSE, operation |-> c, answer |-> "none"]]
    /\ entries = <<>>
    /\ operations = [c \in Calls |-> [phase |-> "none", title |-> "none"]]
TitlesNext ==
    \E c \in Calls : \/ GenerateTitle(c) \/ AwaitEnds(c) \/ Abort(c)
                     \/ HookReturns(c) \/ InvokeRejects(c)

------------------------------------------------
\* However calls repeat a key, abort and fill the table, no two hooks of one
\* key run at once and the table keeps its bound; and a call that is given a
\* title is given the one made of its own excerpt (generateTitle, #invoke,
\* #makeCapacity).
TitledOnce ==
    /\ \A o, p \in Calls : Running(o) /\ Running(p) /\ requests[o].key = requests[p].key => o = p
    /\ Len(entries) <= MaxEntries
    /\ \A c \in Calls :
          callers[c].answer \notin {"none", "aborted", "failed", "capacity_exceeded", "idempotency_conflict"} =>
              callers[c].answer \in {"generated", FallbackTitle(c)}
================================================
