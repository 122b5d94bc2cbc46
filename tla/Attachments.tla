---------------- MODULE Attachments ----------------
(***************************************************************************)
(* Attachments from selection to message: the composer (react/             *)
(* use-conversation-composer.ts) that owns the files of a draft, the       *)
(* uploader (attachments/uploader.ts) that runs a bounded number of        *)
(* uploads with run tokens, and the staging service (attachments/          *)
(* staging.ts over the blob and metadata stores of postgres/index.ts)      *)
(* that keeps the bytes until they expire.                                 *)
(*                                                                         *)
(* Several tabs may stage the same file for the same conversation under    *)
(* the same idempotency key.  A stage call waits between the lookup, the   *)
(* blob and the metadata, and its answer may be lost.  Bytes, media types, *)
(* previews and progress are left out; a file stands for its fingerprint,  *)
(* from which browser/attachments.ts makes the key, so that one key never  *)
(* comes with two fingerprints.  consume, which only a host calls, is left *)
(* out.                                                                    *)
(***************************************************************************)
EXTENDS Naturals, FiniteSets

CONSTANTS
    Tabs,            \* composers
    Conversations,   \* conversations a composer can show
    Concurrency,     \* the uploader's concurrency
    MaxOwned,        \* maxSelectionCount
    TimeToLive,      \* ttlMilliseconds
    Drafts           \* [tabs, files, switch] and the bounds [items, calls, clock]

VARIABLES
    plan,        \* the draft scenario
    showing,     \* the conversation each composer shows
    items,       \* each uploader's #items; the older one has the smaller id
    calls,       \* each uploader's adapter calls under way
    owned,       \* the item ids of the draft
    sending,     \* the submission under way
    records,     \* staged metadata
    blobs,       \* staged bytes, by content reference
    clock,
    sent,        \* history: [reference, conversation] of every message sent
    spent        \* counters behind the bounds

attachmentVars == <<plan, showing, items, calls, owned, sending, records, blobs, clock, sent, spent>>

NoReference == <<>>
NotSending == [on |-> FALSE, ids |-> {}]
Live(r) == r.expires > clock
ById(t, id) == CHOOSE x \in items[t] : x.id = id
Ids(t) == {x.id : x \in items[t]}
Update(t, id, new) == {IF x.id = id THEN new ELSE x : x \in items[t]}
Drop(t, ids) == {x \in items[t] : x.id \notin ids}

(***************************************************************************)
(* #pump: the oldest queued items take the free slots.  A slot is held by  *)
(* the adapter call, cancelled or not, until it settles.                   *)
(***************************************************************************)
Started(x) == [x EXCEPT !.status = "uploading", !.token = @ + 1]

Upload(x) ==
    [id |-> x.id, token |-> x.token + 1, file |-> x.file, conversation |-> x.conversation,
     at |-> "lookup", expires |-> 0, answer |-> NoReference]

Pump(t, queue, running, added) ==
    LET queued == {x \in queue : x.status = "queued"}
        free   == Concurrency - Cardinality(running)
        chosen == {x \in queued : Cardinality({y \in queued : y.id < x.id}) < free}
    IN  /\ items' = [items EXCEPT ![t] = (queue \ chosen) \cup {Started(x) : x \in chosen}]
        /\ calls' = [calls EXCEPT ![t] = running \cup {Upload(x) : x \in chosen}]
        /\ spent' = [spent EXCEPT ![t] = [items |-> @.items + added,
                                           calls |-> @.calls + Cardinality(chosen)]]

MayCall(t) == spent[t].calls + Concurrency <= plan.calls

(***************************************************************************)
(* The composer.                                                           *)
(***************************************************************************)
\* intakeImages and intakePdfs reject a file already in the draft and one too
\* many; a file is of one kind, and combineIntake keeps what its kind accepted.
Duplicate(t, f) == f \in {ById(t, id).file : id \in owned[t]}
Accepts(t, f) == ~Duplicate(t, f) /\ Cardinality(owned[t]) < MaxOwned

Enqueue(t, f) ==
    [id |-> spent[t].items + 1, file |-> f, conversation |-> showing[t],
     status |-> "queued", token |-> 0, reference |-> NoReference]

Select(t, f) ==
    /\ Accepts(t, f)
    /\ spent[t].items < plan.items /\ MayCall(t)
    /\ owned' = [owned EXCEPT ![t] = @ \cup {Enqueue(t, f).id}]
    /\ Pump(t, items[t] \cup {Enqueue(t, f)}, calls[t], 1)
    /\ UNCHANGED <<plan, showing, sending, records, blobs, clock, sent>>

\* removeAttachment and cancelAttachment: the item leaves the uploader and the
\* draft; its adapter call is aborted but keeps its slot until it settles.
RemoveAttachment(t, id) ==
    /\ id \in owned[t] /\ MayCall(t)
    /\ owned' = [owned EXCEPT ![t] = @ \ {id}]
    /\ Pump(t, Drop(t, {id}), calls[t], 0)
    /\ UNCHANGED <<plan, showing, sending, records, blobs, clock, sent>>

RetryAttachment(t, id) ==
    /\ id \in owned[t] /\ id \in Ids(t) /\ ById(t, id).status = "failed" /\ MayCall(t)
    /\ Pump(t, Update(t, id, [ById(t, id) EXCEPT !.status = "queued"]), calls[t], 0)
    /\ UNCHANGED <<plan, showing, owned, sending, records, blobs, clock, sent>>

\* submit: every file of the draft must be ready; the message carries their
\* references.
Submit(t) ==
    LET ready == {id \in owned[t] : id \in Ids(t) /\ ById(t, id).status = "ready"} IN
    /\ ~sending[t].on /\ owned[t] # {} /\ ready = owned[t]
    /\ sending' = [sending EXCEPT ![t] = [on |-> TRUE, ids |-> owned[t]]]
    /\ sent' = sent \cup {[reference |-> ById(t, id).reference,
                           conversation |-> showing[t]] : id \in owned[t]}
    /\ UNCHANGED <<plan, showing, items, calls, owned, records, blobs, clock, spent>>

\* A completed turn releases what was submitted; any other outcome keeps it.
SendEnds(t) ==
    /\ sending[t].on /\ MayCall(t)
    /\ sending' = [sending EXCEPT ![t] = NotSending]
    /\ \E completed \in BOOLEAN :
           IF completed
           THEN /\ owned' = [owned EXCEPT ![t] = @ \ sending[t].ids]
                /\ Pump(t, Drop(t, sending[t].ids), calls[t], 0)
           ELSE UNCHANGED <<owned, items, calls, spent>>
    /\ UNCHANGED <<plan, showing, records, blobs, clock, sent>>

\* The conversation changes under the composer: the draft is released.
SwitchConversation(t) ==
    /\ plan.switch /\ MayCall(t)
    /\ \E c \in Conversations \ {showing[t]} : showing' = [showing EXCEPT ![t] = c]
    /\ owned' = [owned EXCEPT ![t] = {}]
    /\ Pump(t, Drop(t, owned[t]), calls[t], 0)
    /\ UNCHANGED <<plan, sending, records, blobs, clock, sent>>

(***************************************************************************)
(* stage.                                                                  *)
(***************************************************************************)
Held(c) == {r \in records : r.conversation = c.conversation /\ r.file = c.file}
\* A fresh reference; its expiry is kept in it for the property below.
Reference(t, c) == <<t, c.id, c.token, c.expires>>
Step(t, c, new) == calls' = [calls EXCEPT ![t] = (@ \ {c}) \cup {new}]
Answered(t, c, ref) == Step(t, c, [c EXCEPT !.at = "answer", !.answer = ref])

StageLookup(t, c) ==
    /\ c.at = "lookup"
    /\ IF Held(c) = {} THEN Step(t, c, [c EXCEPT !.at = "put", !.expires = clock + TimeToLive])
       ELSE LET r == CHOOSE x \in Held(c) : TRUE IN
            Answered(t, c, IF Live(r) THEN r.reference ELSE NoReference)
    /\ UNCHANGED <<plan, showing, items, owned, sending, records, blobs, clock, sent, spent>>

StagePut(t, c) ==
    /\ c.at = "put"
    /\ blobs' = blobs \cup {Reference(t, c)}
    /\ Step(t, c, [c EXCEPT !.at = "create"])
    /\ UNCHANGED <<plan, showing, items, owned, sending, records, clock, sent, spent>>

\* Mutant: the loser answers with the reference it made.
WinnerIsSelf(t, c) == Reference(t, c)

\* Another call created the record first: its reference is the answer, if
\* the record is still there.
Winner(t, c) ==
    LET live == {r \in Held(c) : Live(r)} IN
    IF live = {} THEN NoReference ELSE (CHOOSE r \in live : TRUE).reference

StageCreate(t, c) ==
    /\ c.at = "create"
    /\ IF Held(c) = {}
       THEN /\ records' = records \cup {[reference |-> Reference(t, c), file |-> c.file,
                   conversation |-> c.conversation, expires |-> c.expires]}
            /\ Answered(t, c, Reference(t, c))
            /\ UNCHANGED blobs
       ELSE /\ blobs' = blobs \ {Reference(t, c)}
            /\ Step(t, c, [c EXCEPT !.at = "winner"])
            /\ UNCHANGED records
    /\ UNCHANGED <<plan, showing, items, owned, sending, clock, sent, spent>>

StageWinner(t, c) ==
    /\ c.at = "winner"
    /\ Answered(t, c, Winner(t, c))
    /\ UNCHANGED <<plan, showing, items, owned, sending, records, blobs, clock, sent, spent>>

\* The upload settles in the uploader, with the answer or with a failure (a
\* refusal, a lost answer, a crashed worker).  A result whose token is not the
\* item's any more is ignored; the slot is free either way.
UploadSettles(t, c) ==
    LET current == {x \in items[t] : x.id = c.id /\ x.token = c.token /\ x.status = "uploading"}
    IN  /\ MayCall(t)
        /\ \E ok \in BOOLEAN :
           /\ ok => c.at = "answer" /\ c.answer # NoReference
           /\ LET queue == IF current = {} THEN items[t]
                           ELSE Update(t, c.id, [ById(t, c.id) EXCEPT
                                    !.status = IF ok THEN "ready" ELSE "failed",
                                    !.reference = IF ok THEN c.answer ELSE NoReference])
              IN  Pump(t, queue, calls[t] \ {c}, 0)
        /\ UNCHANGED <<plan, showing, owned, sending, records, blobs, clock, sent>>

\* Expired records go, bytes first.
Expired(r) == r.expires <= clock

CleanupExpired ==
    /\ \E r \in records : Expired(r)
    /\ blobs' = blobs \ {r.reference : r \in {x \in records : Expired(x)}}
    /\ records' = {r \in records : ~Expired(r)}
    /\ UNCHANGED <<plan, showing, items, calls, owned, sending, clock, sent, spent>>

Tick ==
    /\ clock < plan.clock /\ clock' = clock + 1
    /\ UNCHANGED <<plan, showing, items, calls, owned, sending, records, blobs, sent, spent>>

AttachmentsInit ==
    /\ plan \in Drafts
    /\ showing \in {s \in [Tabs -> Conversations] : \A t, u \in Tabs : s[t] = s[u]}
    /\ items = [t \in Tabs |-> {}] /\ calls = [t \in Tabs |-> {}]
    /\ owned = [t \in Tabs |-> {}] /\ sending = [t \in Tabs |-> NotSending]
    /\ records = {} /\ blobs = {} /\ clock = 0 /\ sent = {}
    /\ spent = [t \in Tabs |-> [items |-> 0, calls |-> 0]]

AttachmentsNext ==
    \/ \E t \in plan.tabs, f \in plan.files : Select(t, f)
    \/ \E t \in plan.tabs : \/ Submit(t) \/ SendEnds(t) \/ SwitchConversation(t)
                       \/ \E id \in owned[t] : RemoveAttachment(t, id) \/ RetryAttachment(t, id)
                       \/ \E c \in calls[t] : \/ StageLookup(t, c) \/ StagePut(t, c)
                                              \/ StageCreate(t, c) \/ StageWinner(t, c)
                                              \/ UploadSettles(t, c)
    \/ CleanupExpired \/ Tick

(***************************************************************************)
(* Properties.                                                             *)
(***************************************************************************)

\* A message is sent with references the server can resolve for its
\* conversation until they expire: the record exists, it belongs to that
\* conversation and its bytes are there, however uploads of the same file
\* raced, were cancelled, failed, or were answered late (stage, #upload,
\* submit).
SentResolves ==
    \A m \in sent :
        \/ \E r \in records : /\ r.reference = m.reference
                              /\ r.conversation = m.conversation
                              /\ r.reference \in blobs
        \/ m.reference[4] <= clock
================================================
