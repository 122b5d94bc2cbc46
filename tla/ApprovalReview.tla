---------------- MODULE ApprovalReview ----------------
(***************************************************************************)
(* The two React hooks with which a user decides on proposals.             *)
(* useApprovalReview (react/approval-review.tsx) loads them when the host  *)
(* signals a change, keeps one decision in flight per proposal version and *)
(* reuses a decision's idempotency key when the user repeats it.           *)
(* useConversationApprovals (react/use-conversation-approvals.ts) polls    *)
(* one conversation's proposals and merges what a decision returned.       *)
(*                                                                         *)
(* Loads and decisions are answered by a store others decide in as well    *)
(* (module Approvals); an answer may be lost, or arrive after the hook has *)
(* reloaded, changed its permission context or conversation, or gone.  A   *)
(* proposal is the sequence of its statuses, so its version is a length.   *)
(***************************************************************************)
EXTENDS Naturals, Sequences, FiniteSets

CONSTANTS
    Conversations, \* conversation ids
    HolderOf,      \* HolderOf[p]: the conversation of proposal p
    Keys,          \* idempotency keys createDecisionIdentity may answer
    Plans          \* records [hook, via, initial, moves, others]: the hook used, how
                   \* useApprovalReview reaches the store, whether it was given
                   \* initialProposals, and bounds on the user's moves and on
                   \* what other reviewers and workers do

VARIABLES
    plan,   \* the plan of this behaviour
    store,  \* the proposals' histories, the decisions stored by key, the clock
    review, \* the refs and state of useApprovalReview
    loads,  \* its calls of loadProposals in flight
    calls,  \* its decisions in flight
    card,   \* the state and the lifecycle of useConversationApprovals
    reads,  \* its calls of listApprovalGroup in flight
    choices \* its calls of transitionApproval in flight

approvalReviewVars == <<plan, store, review, loads, calls, card, reads, choices>>

Proposals == DOMAIN HolderOf
Decided == [confirm |-> "confirmed", reject |-> "rejected"]

------------------------------------------------
\* The store, as the hooks see it.

LastStatus(history) == history[Len(history)]
Row(p) == [id |-> p, version |-> Len(store.history[p]), status |-> LastStatus(store.history[p])]
Pending(p) == Row(p).status = "pending"
Moved(p, status) == [store EXCEPT !.history[p] = Append(@, status)]
Stored(request) == [key |-> request.key, id |-> request.id, decision |-> request.decision]

\* Reading a proposal that is due lets it expire.
Read(of) == [store EXCEPT !.history =
                [p \in Proposals |-> IF p \in of /\ Pending(p) /\ store.clock > 0
                                     THEN Append(@[p], "expired") ELSE @[p]]]
RowsIn(st, of) == {[id |-> p, version |-> Len(st.history[p]), status |-> LastStatus(st.history[p])]
                       : p \in of}

\* What the coordinator makes of a decision: repeat what it answered to
\* this key, accept, or say what the proposal has become.  A pending
\* proposal is in its first version, the one a pending row is of.
Outcome(request) ==
    LET same == {s \in store.idempotency : s.key = request.key}
        found == LastStatus(Read({request.id}).history[request.id])
    IN  IF Stored(request) \in same THEN "accepted"
        ELSE IF same # {} THEN "idempotency"
        ELSE IF found = "pending" THEN "accepts"
        ELSE IF found = "expired" THEN "expired" ELSE "already_decided"
Succeeds(request) == Outcome(request) \in {"accepts", "accepted"}
StoreAfter(request) ==
    IF Outcome(request) = "accepts"
    THEN [Moved(request.id, Decided[request.decision])
              EXCEPT !.idempotency = @ \union {Stored(request)}]
    ELSE IF Outcome(request) = "expired" THEN Read({request.id}) ELSE store

\* Another reviewer decides, a worker executes, the clock passes.
OthersMove(p) ==
    /\ plan.others > 0
    /\ \/ Pending(p) /\ \E status \in {"confirmed", "rejected"} : store' = Moved(p, status)
       \/ Row(p).status = "confirmed" /\ store' = Moved(p, "executing")
    /\ plan' = [plan EXCEPT !.others = @ - 1]
    /\ UNCHANGED <<review, loads, calls, card, reads, choices>>

Expire ==
    /\ store.clock = 0 /\ store' = [store EXCEPT !.clock = 1]
    /\ UNCHANGED <<plan, review, loads, calls, card, reads, choices>>

------------------------------------------------
\* useApprovalReview.  r stands for a value of review.

SameKey(a, b) == a.id = b.id /\ a.version = b.version          \* proposalKey
SameDecision(a, b) == SameKey(a, b) /\ a.decision = b.decision \* decisionKey

\* Only the newest decision of a proposal version is the hook's own; the
\* map from versions to controllers is the set of their calls.
AbortCalls(gone) == {IF gone[c] THEN [c EXCEPT !.aborted = TRUE, !.held = FALSE] ELSE c
                         : c \in calls}

\* A state is kept with the decision and the generation it is of.
Publish(r, call, code) ==
    [r EXCEPT !.states = {s \in @ : ~SameKey(s, call)} \union
        {[id |-> call.id, version |-> call.version, code |-> code, decision |-> call.decision,
          generation |-> call.generation]}]

\* applyProposals: what is shown of a version is dropped with its row, and
\* its decision is aborted.
Live(rows, x) == \E row \in rows : SameKey(row, x)
ApplyProposals(r, rows) ==
    [r EXCEPT !.rows = rows, !.states = {s \in @ : Live(rows, s)}]
CallsAfter(rows) == AbortCalls([c \in calls |-> c.held /\ ~Live(rows, c)])

\* refresh: the newest request wins.
Refresh(r) ==
    [r EXCEPT !.request = @ + 1, !.error = FALSE,
              !.initialLoading = @ \/ r.rows = {}, !.refreshing = @ \/ r.rows # {}]
LoadsAfter(r) ==
    {[l EXCEPT !.aborted = TRUE] : l \in loads} \union
        {[generation |-> r.generation, request |-> r.request + 1, aborted |-> FALSE,
          read |-> FALSE, rows |-> {}]}

Initial == IF plan.initial THEN {[id |-> p, version |-> 1, status |-> "pending"] : p \in Proposals}
                           ELSE {}

\* The effect's cleanup.
Cleanup(r) ==
    IF r.mounted THEN [r EXCEPT !.mounted = FALSE, !.generation = @ + 1, !.request = @ + 1] ELSE r
\* ... and its setup, with the refresh it starts.
Setup(r) ==
    ApplyProposals([r EXCEPT !.mounted = TRUE, !.rendered = FALSE, !.generation = @ + 1,
                             !.request = @ + 1, !.identities = {}, !.error = FALSE,
                             !.now = store.clock], Initial)

RunEffect ==
    /\ plan.hook = "review" /\ review.rendered
    /\ LET r == Setup(Cleanup(review)) IN review' = Refresh(r) /\ loads' = LoadsAfter(r)
    /\ calls' = AbortCalls([c \in calls |-> c.held])
    /\ UNCHANGED <<plan, store, card, reads, choices>>

\* The host renders another permission context; its effect follows.
RenderContext ==
    /\ plan.hook = "review" /\ review.mounted /\ ~review.rendered /\ plan.moves > 0
    /\ review' = [review EXCEPT !.rendered = TRUE]
    /\ plan' = [plan EXCEPT !.moves = @ - 1]
    /\ UNCHANGED <<store, loads, calls, card, reads, choices>>

Unmount ==
    /\ plan.hook = "review" /\ review.mounted /\ plan.moves > 0
    /\ review' = [Cleanup(review) EXCEPT !.rendered = FALSE]
    /\ loads' = {[l EXCEPT !.aborted = TRUE] : l \in loads}
    /\ calls' = AbortCalls([c \in calls |-> c.held])
    /\ plan' = [plan EXCEPT !.moves = 0]
    /\ UNCHANGED <<store, card, reads, choices>>

\* The user, or the host's subscription, asks for another load.
AskRefresh ==
    /\ review.mounted /\ plan.moves > 0
    /\ review' = Refresh(review) /\ loads' = LoadsAfter(review)
    /\ plan' = [plan EXCEPT !.moves = @ - 1]
    /\ UNCHANGED <<store, calls, card, reads, choices>>

LoadReads(l) ==
    /\ ~l.read
    /\ store' = Read(Proposals)
    /\ loads' = (loads \ {l}) \union {[l EXCEPT !.read = TRUE, !.rows = RowsIn(store', Proposals)]}
    /\ UNCHANGED <<plan, review, calls, card, reads, choices>>

LoadIsNewest(l) ==
    review.mounted /\ review.generation = l.generation /\ review.request = l.request
LoadEnds(r, l) ==
    IF LoadIsNewest(l) THEN [r EXCEPT !.initialLoading = FALSE, !.refreshing = FALSE] ELSE r

LoadSettles(l) ==
    /\ l.read
    /\ IF LoadIsNewest(l) /\ ~l.aborted
       THEN /\ review' = LoadEnds([ApplyProposals(review, l.rows) EXCEPT !.now = store.clock], l)
            /\ calls' = CallsAfter(l.rows)
       ELSE review' = LoadEnds(review, l) /\ UNCHANGED calls
    /\ loads' = loads \ {l}
    /\ UNCHANGED <<plan, store, card, reads, choices>>

LoadFails(l) ==
    /\ review' = LoadEnds([review EXCEPT !.error = @ \/ (LoadIsNewest(l) /\ ~l.aborted)], l)
    /\ loads' = loads \ {l}
    /\ UNCHANGED <<plan, store, calls, card, reads, choices>>

ClearError ==
    /\ review.error /\ review' = [review EXCEPT !.error = FALSE]
    /\ UNCHANGED <<plan, store, loads, calls, card, reads, choices>>

\* The timer set for the next expiry of a pending row.
ExpiryTimer ==
    /\ review.mounted /\ review.now < store.clock
    /\ \E row \in review.rows : row.status = "pending"
    /\ review' = [review EXCEPT !.now = store.clock]
    /\ UNCHANGED <<plan, store, loads, calls, card, reads, choices>>

CanDecide(row) ==
    /\ row.status = "pending" /\ review.now = 0
    /\ \A s \in review.states : SameKey(s, row) => s.code \in {"cancelled", "persistence_failure"}

\* decide: without an identity of its own the decision is refused here;
\* otherwise it is sent under the identity kept for it.
Known(request) == {i \in review.identities : SameDecision(i, request)}
Owned(request, key) == \E i \in review.identities : i.key = key /\ ~SameDecision(i, request)

Refused(request) ==
    /\ Known(request) = {}
    /\ review' = Publish(review, request, "invalid_input")
    /\ UNCHANGED calls

Send(request, key) ==
    /\ IF Known(request) = {} THEN ~Owned(request, key) ELSE \E i \in Known(request) : i.key = key
    /\ review' = [Publish(review, request, "busy") EXCEPT !.identities = @ \union
                     {[id |-> request.id, version |-> request.version,
                       decision |-> request.decision, key |-> key]}]
    /\ calls' = calls \union
          {[id |-> request.id, version |-> request.version, decision |-> request.decision,
            generation |-> request.generation, key |-> key, aborted |-> FALSE, held |-> TRUE,
            answer |-> "none", number |-> plan.moves]}

Decide(row, decision) ==
    LET request == [id |-> row.id, version |-> row.version, decision |-> decision,
                    generation |-> review.generation]
    IN  /\ review.mounted /\ plan.moves > 0
        /\ CanDecide(row) /\ ~\E c \in calls : c.held /\ SameKey(c, row)
        /\ \/ Refused(request)
           \/ \E key \in Keys : Send(request, key)
        /\ plan' = [plan EXCEPT !.moves = @ - 1]
        /\ UNCHANGED <<store, loads, card, reads, choices>>

Answer(c, answer) == calls' = (calls \ {c}) \union {[c EXCEPT !.answer = answer]}

\* The status of the record a transition handler answers: the one stored
\* for the decision, or what the proposal is now.
RecordStatus(c) ==
    IF Succeeds(c) THEN Decided[c.decision] ELSE LastStatus(StoreAfter(c).history[c.id])

\* The store serves the decision and its answer gets through or not.
CallServed(c) ==
    /\ c.answer = "none"
    /\ store' = StoreAfter(c)
    /\ \/ Answer(c, IF plan.via = "transition" THEN RecordStatus(c) ELSE Outcome(c))
       \/ Answer(c, "throws")
    /\ UNCHANGED <<plan, review, loads, card, reads, choices>>

\* It fails, is refused or heeds the abort signal before anything is done.
Refusals(c) ==
    IF plan.via = "transition" THEN {"throws", Row(c.id).status}
    ELSE {"throws", "forbidden", "persistence_failure"} \union
             (IF c.aborted THEN {"cancelled"} ELSE {})
CallRefused(c) ==
    /\ c.answer = "none"
    /\ \E answer \in Refusals(c) : Answer(c, answer)
    /\ UNCHANGED <<plan, store, review, loads, card, reads, choices>>

\* safeResult, whose codes are mostly those of the coordinator, and what
\* decide makes of a transition handler's record and of an exception.
SafeResult(answer) ==
    IF answer = "accepts" THEN "accepted"
    ELSE IF answer = "idempotency" THEN "idempotency_conflict" ELSE answer
Transitioned(c) ==
    IF c.answer = Decided[c.decision] THEN "accepted"
    ELSE IF c.answer = "pending" THEN "persistence_failure" ELSE "already_decided"
Result(c) ==
    IF c.answer = "throws" THEN (IF c.aborted THEN "cancelled" ELSE "persistence_failure")
    ELSE IF plan.via = "transition" THEN Transitioned(c) ELSE SafeResult(c.answer)

\* A result is shown while its decision is still the hook's and its row is
\* still there.
CallSettles(c) ==
    /\ c.answer # "none"
    /\ calls' = calls \ {c}
    /\ review' = IF c.held /\ review.mounted /\ ~c.aborted /\ Live(review.rows, c)
                 THEN Publish(review, c, Result(c)) ELSE review
    /\ UNCHANGED <<plan, store, loads, card, reads, choices>>

------------------------------------------------
\* useConversationApprovals.  k stands for a value of card.

\* The hook's effect: another lifecycle, and nothing of the last one.
NewLifecycle(k) ==
    [k EXCEPT !.life = @ + 1, !.active = k.rendered # "none", !.busy = FALSE, !.revision = 0,
              !.loading = FALSE, !.again = FALSE, !.shown = k.rendered, !.rows = {},
              !.showsBusy = "none", !.error = "none", !.settled = {}]

\* load(): one read at a time; a second one waits for it.
Load(k, inFlight) ==
    IF ~k.active THEN card' = k /\ reads' = inFlight
    ELSE IF k.loading THEN card' = [k EXCEPT !.again = TRUE] /\ reads' = inFlight
    ELSE /\ card' = [k EXCEPT !.loading = TRUE]
         /\ reads' = inFlight \union {[life |-> k.life, conversation |-> k.shown,
                                       revision |-> k.revision, read |-> FALSE, rows |-> {}]}

RenderCard(conversation) ==
    /\ plan.hook = "card" /\ plan.moves > 0 /\ conversation # card.rendered
    /\ card' = [card EXCEPT !.rendered = conversation]
    /\ plan' = [plan EXCEPT !.moves = @ - 1]
    /\ UNCHANGED <<store, review, loads, calls, reads, choices>>

CardEffect ==
    /\ plan.hook = "card" /\ card.rendered # card.shown
    /\ Load(NewLifecycle(card), reads)
    /\ UNCHANGED <<plan, store, review, loads, calls, choices>>

UnmountCard ==
    /\ card.active /\ card.rendered = card.shown /\ plan.moves > 0
    /\ card' = [card EXCEPT !.active = FALSE]
    /\ plan' = [plan EXCEPT !.moves = 0]
    /\ UNCHANGED <<store, review, loads, calls, reads, choices>>

\* The interval, and the refresh the hook returns.
Poll ==
    /\ card.active /\ plan.moves > 0
    /\ Load(card, reads)
    /\ plan' = [plan EXCEPT !.moves = @ - 1]
    /\ UNCHANGED <<store, review, loads, calls, choices>>

ReadServed(l) ==
    /\ ~l.read
    /\ LET group == {p \in Proposals : HolderOf[p] = l.conversation} IN
          /\ store' = Read(group)
          /\ reads' = (reads \ {l}) \union {[l EXCEPT !.read = TRUE, !.rows = RowsIn(store', group)]}
    /\ UNCHANGED <<plan, review, loads, calls, card, choices>>

ReadCounts(l) == card.active /\ card.life = l.life /\ card.revision = l.revision

\* finally: the refresh that waited follows.
ReadEnds(k, l) ==
    IF k.life # l.life THEN card' = k /\ reads' = reads \ {l}
    ELSE IF k.again /\ k.active
    THEN Load([k EXCEPT !.loading = FALSE, !.again = FALSE], reads \ {l})
    ELSE card' = [k EXCEPT !.loading = FALSE] /\ reads' = reads \ {l}

ReadSettles(l) ==
    /\ l.read
    /\ ReadEnds(IF ReadCounts(l) THEN [card EXCEPT !.rows = l.rows, !.error = "none"] ELSE card, l)
    /\ UNCHANGED <<plan, store, review, loads, calls, choices>>

ReadFails(l) ==
    /\ ReadEnds(IF ReadCounts(l) THEN [card EXCEPT !.error = "refresh"] ELSE card, l)
    /\ UNCHANGED <<plan, store, review, loads, calls, choices>>

Visible == IF card.shown = card.rendered THEN card.rows ELSE {}

\* decide: one at a time, named after what it decides.
Choose(row, decision) ==
    /\ card.active /\ ~card.busy /\ card.shown = card.rendered /\ plan.moves > 0
    /\ card' = [card EXCEPT !.busy = TRUE, !.revision = @ + 1, !.showsBusy = row.id,
                            !.error = "none"]
    /\ choices' = choices \union
          {[life |-> card.life, id |-> row.id, version |-> row.version, decision |-> decision,
            key |-> <<row.id, row.version, decision>>, answer |-> "none", row |-> row]}
    /\ plan' = [plan EXCEPT !.moves = @ - 1]
    /\ UNCHANGED <<store, review, loads, calls, reads>>

\* The transition answers the record it stored; what it refuses, and what
\* is lost on the way, throws.
ChoiceServed(c) ==
    /\ c.answer = "none"
    /\ store' = StoreAfter(c)
    /\ \E answer \in IF Succeeds(c) THEN {"row", "nothing", "throws"} ELSE {"throws"} :
          choices' = (choices \ {c}) \union
              {[c EXCEPT !.answer = answer,
                         !.row = [id |-> c.id, version |-> c.version + 1,
                                  status |-> Decided[c.decision]]]}
    /\ UNCHANGED <<plan, review, loads, calls, card, reads>>

ChoiceLost(c) ==
    /\ c.answer = "none"
    /\ choices' = (choices \ {c}) \union {[c EXCEPT !.answer = "throws"]}
    /\ UNCHANGED <<plan, store, review, loads, calls, card, reads>>

\* Mutant: a read under way when the choice settled still counts.
ChoiceEndsUnmarked(k) == [k EXCEPT !.busy = FALSE, !.showsBusy = "none"]

\* finally: the card is no longer busy.
ChoiceEnds(k) == [k EXCEPT !.busy = FALSE, !.showsBusy = "none", !.revision = @ + 1]

ChoiceSettles(c) ==
    /\ c.answer \in {"row", "nothing"}
    /\ choices' = choices \ {c}
    /\ IF card.active /\ card.life = c.life
       THEN Load([ChoiceEnds(card) EXCEPT
                     !.rows = {row \in @ : row.id # c.id} \union
                                  (IF c.answer = "row" THEN {c.row} ELSE {}),
                     !.settled = @ \union {c.row}], reads)
       ELSE UNCHANGED <<card, reads>>
    /\ UNCHANGED <<plan, store, review, loads, calls>>

ChoiceFails(c) ==
    /\ c.answer = "throws"
    /\ choices' = choices \ {c}
    /\ card' = IF card.active /\ card.life = c.life
               THEN [ChoiceEnds(card) EXCEPT !.error = "decision"] ELSE card
    /\ UNCHANGED <<plan, store, review, loads, calls, reads>>

------------------------------------------------
ApprovalReviewInit ==
    /\ plan \in Plans
    /\ store = [history |-> [p \in Proposals |-> <<"pending">>], idempotency |-> {}, clock |-> 0]
    /\ review = [mounted |-> FALSE, rendered |-> TRUE, generation |-> 0, request |-> 0,
                 rows |-> Initial, states |-> {}, identities |-> {}, now |-> 0, error |-> FALSE,
                 initialLoading |-> ~plan.initial, refreshing |-> FALSE]
    /\ card = [life |-> 0, active |-> FALSE, busy |-> FALSE, revision |-> 0, loading |-> FALSE,
               again |-> FALSE, rendered |-> "none", shown |-> "none", rows |-> {},
               showsBusy |-> "none", error |-> "none", settled |-> {}]
    /\ loads = {} /\ calls = {} /\ reads = {} /\ choices = {}

ReviewStep ==
    \/ RunEffect \/ RenderContext \/ Unmount \/ AskRefresh \/ ClearError \/ ExpiryTimer
    \/ \E l \in loads : LoadReads(l) \/ LoadSettles(l) \/ LoadFails(l)
    \/ \E row \in review.rows, decision \in DOMAIN Decided : Decide(row, decision)
    \/ \E c \in calls : CallServed(c) \/ CallRefused(c) \/ CallSettles(c)

CardStep ==
    \/ \E conversation \in Conversations \union {"none"} : RenderCard(conversation)
    \/ CardEffect \/ UnmountCard \/ Poll
    \/ \E l \in reads : ReadServed(l) \/ ReadSettles(l) \/ ReadFails(l)
    \/ \E row \in Visible, decision \in DOMAIN Decided : Choose(row, decision)
    \/ \E c \in choices : ChoiceServed(c) \/ ChoiceLost(c) \/ ChoiceSettles(c) \/ ChoiceFails(c)

ApprovalReviewNext == ReviewStep \/ CardStep \/ Expire \/ \E p \in Proposals : OthersMove(p)

------------------------------------------------
\* What is shown as accepted is what the store recorded for that version,
\* and a decision repeated after a lost answer is not told that somebody
\* else was faster (decide, identities, safeResult).
DecisionsTruthful ==
    \A s \in review.states :
       /\ s.code = "accepted" => /\ s.version < Len(store.history[s.id])
                                 /\ store.history[s.id][s.version + 1] = Decided[s.decision]
       /\ s.code = "already_decided" /\ plan.via = "coordinator" =>
             ~\E i \in review.identities : SameDecision(i, s) /\ Stored(i) \in store.idempotency

\* At most one decision per proposal version is under way, whatever was
\* reloaded meanwhile; without initialProposals a version shown as busy
\* has one, and no result shown was asked for under another permission
\* context (decide, applyProposals and the effect's cleanup).
OneDecisionShown ==
    /\ \A c, d \in calls : ~c.aborted /\ ~d.aborted /\ SameKey(c, d) => c = d
    /\ review.mounted /\ ~plan.initial =>
          \A s \in review.states :
             /\ s.generation = review.generation
             /\ s.code = "busy" => \E c \in calls : c.held /\ ~c.aborted /\ SameKey(c, s)

\* A decision that settled is never undone on the card by a read that was
\* under way, and the card shows the rendered conversation's proposals
\* only (revision, life and visible of useConversationApprovals).
CardFresh ==
    /\ \A row \in card.rows, s \in card.settled : row.id = s.id => row.version >= s.version
    /\ \A row \in Visible : HolderOf[row.id] = card.rendered

ApprovalsShown == DecisionsTruthful /\ OneDecisionShown /\ CardFresh
================================================
