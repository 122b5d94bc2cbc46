---------------- MODULE MCClient ----------------
(***************************************************************************)
(* An instance for TLC of what surrounds a conversation for its user:      *)
(* realtime calls and voice sessions, the catalog, the runtime registry    *)
(* and the picker over them, titles, attachments, activity, presence,      *)
(* dictation and the review of approvals.  The components share no state   *)
(* here, so a behaviour is about one of them, its focus, and the others    *)
(* stay where they started.                                                *)
(***************************************************************************)
EXTENDS RealtimeComponents, ClientComponents

VARIABLES
    focus,
    setup, records, tombstones, idempotency, callers, pager, effects,
    titleCalls, titleCallers, titleEntries, titling,
    reviewPlan, proposals, review, loads, decisions, card, reads, choices

callPart == <<scenario, clock, call, op, pc, lease, provider, tool, recorder, marker,
              page, displayed, monitor>>
sessionPart == <<session, bootstrap, entry, tracked, handler, bridge, operation, outputs,
                 authority, emitted, peer>>
catalogPart == <<setup, records, tombstones, idempotency, callers, pager, effects>>
registryPart == <<case, listed, entries, opening, mutating, alive, disposed, workspace, selected,
                  turns>>
attachmentPart == <<drafted, showing, items, uploads, owned, sending, staged, blobs, time, sent,
                    spent>>
activityPart == <<turn, stored, worker, wire, shown, poll, subscribed>>
presencePart == <<now, local, timers, air, viewer, streams, remote, received>>
dictationPart == <<dictated, ui, caps, runs, applied, dropped>>
pickerPart == <<picked, picker, asked, catalog, registry, views>>
titlePart == <<titleCalls, titleCallers, titleEntries, titling>>
reviewPart == <<reviewPlan, proposals, review, loads, decisions, card, reads, choices>>
mcVars == <<focus, callPart, sessionPart, voice, catalogPart, registryPart, attachmentPart,
            activityPart, presencePart, dictationPart, pickerPart, titlePart, reviewPart>>

(***************************************************************************)
(* Realtime: two workers create the call while it is ended and a reply is  *)
(* lost; a lease runs out; tools are recorded while the call ends and      *)
(* their outcomes are read; a call whose workspace is watched.             *)
(***************************************************************************)
BeatOfWorker == [w1 |-> "b1", w2 |-> "b2"]
OneTool == [r \in Recorders |-> "t1"]
TwoTools == [r1 |-> "t1", r2 |-> "t2"]
Scenario(active, tools, ticks, ends, beats, lose) ==
    [active |-> active, tool |-> tools, end |-> [r1 |-> "completed", r2 |-> "failed"],
     time |-> ticks, ends |-> ends, beats |-> beats, lose |-> lose]
CallScenarios ==
    {Scenario({"w1", "w2", "e1"}, OneTool, 1, 1, 0, TRUE),
     Scenario({"w1", "e1"}, OneTool, 3, 1, 1, FALSE),
     Scenario({"w1", "e1", "r1", "r2", "v1"}, TwoTools, 0, 1, 0, FALSE),
     Scenario({"w1", "r1", "r2"}, OneTool, 2, 1, 0, FALSE),
     Scenario({"w1", "e1", "monitor"}, TwoTools, 0, 1, 0, FALSE)}

\* A repeated and a surplus tool call; hanging up, cleaning up, a failure and
\* a second bootstrap while tools run.
Event(kind, id, tl) == [kind |-> kind, id |-> id, tool |-> tl]
Events == [h1 |-> Event("session_started", "i1", "c1"), h2 |-> Event("response_started", "i2", "c1"),
           h3 |-> Event("tool_call", "i3", "c1"), h4 |-> Event("tool_call", "i4", "c1"),
           h5 |-> Event("tool_call", "i5", "c2")]
Failing == [Events EXCEPT !.h4 = Event("failure", "i6", "c1"),
                          !.h5 = Event("response_stopped", "i7", "c1")]
ToolPlans ==
    {[event |-> Events, active |-> {"b1", "h1", "h2", "h3", "h4", "h5"}],
     [event |-> Events, active |-> {"b1", "h1", "h2", "h3", "hangup", "cleanup", "provider"}],
     [event |-> Failing, active |-> {"b1", "h1", "h2", "h3", "h4", "hangup", "giveup"}],
     [event |-> Failing, active |-> {"b1", "b2", "h1", "h2", "h5", "hangup", "room", "giveup",
                                     "client"}]}

(***************************************************************************)
(* Catalog: two callers that retry, over three conversations of which two  *)
(* have the same times, in both stores and every order.                    *)
(***************************************************************************)
Listed(updated) ==
    [created |-> 1, updated |-> updated, version |-> 1, lifecycle |-> "active"]
Start == <<Listed(1), Listed(1), Listed(2)>>
Asks(operationName, conversation, key) ==
    [op |-> operationName, conversation |-> conversation, key |-> key]
Setup(store, a, b, field, direction) ==
    [store |-> store, records |-> Start, requests |-> [a |-> a, b |-> b],
     order |-> [field |-> field, direction |-> direction, pageSize |-> 1],
     limits |-> [maxIdempotency |-> 1, maxRecords |-> 4, maxTombstones |-> 1], fresh |-> {4, 5}]
Setups ==
    {Setup("memory", Asks("rename", 1, "k1"), Asks("permanent_delete", 2, "k2"), "updated_at", "desc"),
     Setup("memory", Asks("create", 0, "k1"), Asks("create", 4, "k2"), "created_at", "desc"),
     Setup("memory", Asks("permanent_delete", 1, "k1"), Asks("permanent_delete", 2, "k1"),
           "created_at", "asc"),
     Setup("memory", Asks("archive", 1, "k1"), Asks("clear", 1, "k2"), "updated_at", "asc"),
     Setup("postgres", Asks("archive", 1, "k1"), Asks("restore", 1, "k1"), "updated_at", "desc"),
     Setup("postgres", Asks("create", 1, "k1"), Asks("permanent_delete", 1, "k2"),
           "updated_at", "asc")}
Catalog == INSTANCE ConversationCatalog WITH Callers <- {"a", "b"}, MaxTime <- 2, MaxSends <- 2

\* Three openers of one conversation that is released and cleared; the
\* workspace while it is deleted and disposed of; a registry with one place.
Opens(conversation, via) == [conversation |-> conversation, via |-> via]
Case(opens, mutations, entriesMax, constructions, release, dispose, running) ==
    [opens |-> opens, mutations |-> mutations, maxEntries |-> entriesMax,
     maxConstructions |-> constructions, release |-> release, dispose |-> dispose,
     turns |-> running]
Mutation(operationName, via) == [op |-> operationName, conversation |-> "x", via |-> via]
OpenCases ==
    {Case([a |-> Opens("x", "direct"), b |-> Opens("x", "direct"), c |-> Opens("x", "direct")],
          [m |-> Mutation("clear", "direct")], 2, 3, TRUE, FALSE, FALSE),
     Case([a |-> Opens("x", "workspace"), b |-> Opens("x", "workspace")],
          [m |-> Mutation("permanent_delete", "workspace")], 2, 2, FALSE, TRUE, TRUE),
     Case([a |-> Opens("x", "workspace"), b |-> Opens("y", "workspace")],
          [m |-> Mutation("archive", "workspace"), n |-> Mutation("restore", "direct")],
          1, 1, FALSE, FALSE, TRUE)}

\* What the user does in the picker while its requests are under way.
Picks ==
    {[moves |-> 4, kinds |-> {"list", "open", "rename"}],
     [moves |-> 4, kinds |-> {"list", "open", "scope"}],
     [moves |-> 4, kinds |-> {"open", "archive", "restore", "unmount"}],
     [moves |-> 4, kinds |-> {"list", "open", "create", "clear", "permanent_delete"}]}

\* Titles: joined and repeated calls, another excerpt under the same key, a
\* table with one place.
Said(text, length) == [role |-> "user", text |-> text, length |-> length]
Titled(key, messages, aborts) == [key |-> key, messages |-> messages, aborts |-> aborts]
TitleRequests ==
    {<<Titled("k", <<Said("x", 2), Said("y", 2), Said("z", 2)>>, TRUE),
       Titled("k", <<Said("x", 2), Said("y", 2), Said("w", 1)>>, TRUE),
       Titled("j", <<[Said("y", 1) EXCEPT !.role = "assistant"]>>, FALSE)>>,
     <<Titled("k", <<Said("x", 2)>>, FALSE), Titled("k", <<Said("y", 0), Said("y", 1)>>, TRUE),
       Titled("k", <<Said("x", 2)>>, TRUE)>>}
Titles == INSTANCE TitleGeneration
    WITH Requests <- TitleRequests, MaxItems <- 2, MaxLength <- 2, MaxTotal <- 3, MaxEntries <- 1,
         requests <- titleCalls, callers <- titleCallers, entries <- titleEntries,
         operations <- titling

(***************************************************************************)
(* Attachments, activity, presence and dictation.                          *)
(***************************************************************************)
Draft(tabs, files, switch, count, calls, ticks) ==
    [tabs |-> tabs, files |-> files, switch |-> switch, items |-> count, calls |-> calls,
     clock |-> ticks]
DraftPlans ==
    {Draft({"t1", "t2"}, {"f"}, FALSE, 1, 2, 1), Draft({"t1"}, {"f", "g"}, FALSE, 2, 3, 2),
     Draft({"t1"}, {"f"}, TRUE, 2, 3, 0)}

Dictations == {[moves |-> 4, stray |-> 0], [moves |-> 3, stray |-> 1]}

\* One proposal of conversation x: the reviewer's context changes and answers
\* are lost; others decide meanwhile; the card while its user looks elsewhere.
Reviewing(hook, via, initial, moves, others) ==
    [hook |-> hook, via |-> via, initial |-> initial, moves |-> moves, others |-> others]
ReviewPlans == {Reviewing("review", "coordinator", FALSE, 3, 0),
                Reviewing("review", "transition", TRUE, 2, 1),
                Reviewing("card", "transition", FALSE, 4, 1)}
Reviews == INSTANCE ApprovalReview
    WITH Conversations <- {"x", "y"}, HolderOf <- [p |-> "x"], Keys <- {"i1", "i2"},
         Plans <- ReviewPlans, plan <- reviewPlan, store <- proposals, calls <- decisions

(***************************************************************************)
(* One behaviour, one component.                                           *)
(***************************************************************************)
Components == {"calls", "sessions", "voice", "catalog", "registry", "picker", "attachments",
               "activity", "presence", "dictation", "titles", "reviews"}

MCInit ==
    /\ focus \in Components
    /\ Calls!CallsInit /\ (focus = "calls" \/ scenario = CHOOSE s \in Scenarios : TRUE)
    /\ Sessions!SessionsInit
    /\ focus = "sessions" \/ session = CHOOSE p \in SessionPlans : TRUE
    /\ Voice!VoiceInit
    /\ Catalog!CatalogInit /\ (focus = "catalog" \/ setup = CHOOSE s \in Setups : TRUE)
    /\ Registry!RegistryInit /\ (focus = "registry" \/ case = CHOOSE c \in Cases : TRUE)
    /\ Uploads!AttachmentsInit
    /\ focus = "attachments" \/ drafted = CHOOSE d \in Drafts : TRUE
    /\ focus = "attachments" \/ showing.t1 = "x"
    /\ Activity!ActivityInit
    /\ Nearby!PresenceInit /\ (focus = "presence" \/ local.room = "x")
    /\ Dictation!DictationInit /\ (focus = "dictation" \/ dictated = CHOOSE d \in DictationPlans : TRUE)
    /\ Picker!PickerInit /\ (focus = "picker" \/ picked = CHOOSE p \in PickerPlans : TRUE)
    /\ Titles!TitlesInit /\ (focus = "titles" \/ titleCalls = CHOOSE r \in TitleRequests : TRUE)
    /\ Reviews!ApprovalReviewInit
    /\ focus = "reviews" \/ reviewPlan = CHOOSE p \in ReviewPlans : TRUE

\* The components other than the one named stay as they are.
OnlyCalls == UNCHANGED <<focus, sessionPart, voice, catalogPart, registryPart, attachmentPart,
                         activityPart, presencePart, dictationPart, pickerPart, titlePart, reviewPart>>
OnlySessions == UNCHANGED <<focus, callPart, voice, catalogPart, registryPart, attachmentPart,
                            activityPart, presencePart, dictationPart, pickerPart, titlePart, reviewPart>>
OnlyVoice == UNCHANGED <<focus, callPart, sessionPart, catalogPart, registryPart, attachmentPart,
                         activityPart, presencePart, dictationPart, pickerPart, titlePart, reviewPart>>
OnlyCatalog == UNCHANGED <<focus, callPart, sessionPart, voice, registryPart, attachmentPart,
                           activityPart, presencePart, dictationPart, pickerPart, titlePart, reviewPart>>
OnlyRegistry == UNCHANGED <<focus, callPart, sessionPart, voice, catalogPart, attachmentPart,
                            activityPart, presencePart, dictationPart, pickerPart, titlePart, reviewPart>>
OnlyUploads == UNCHANGED <<focus, callPart, sessionPart, voice, catalogPart, registryPart,
                           activityPart, presencePart, dictationPart, pickerPart, titlePart, reviewPart>>
OnlyActivity == UNCHANGED <<focus, callPart, sessionPart, voice, catalogPart, registryPart,
                            attachmentPart, presencePart, dictationPart, pickerPart, titlePart, reviewPart>>
OnlyPresence == UNCHANGED <<focus, callPart, sessionPart, voice, catalogPart, registryPart,
                            attachmentPart, activityPart, dictationPart, pickerPart, titlePart, reviewPart>>
OnlyDictation == UNCHANGED <<focus, callPart, sessionPart, voice, catalogPart, registryPart,
                             attachmentPart, activityPart, presencePart, pickerPart, titlePart, reviewPart>>
OnlyPicker == UNCHANGED <<focus, callPart, sessionPart, voice, catalogPart, registryPart,
                          attachmentPart, activityPart, presencePart, dictationPart, titlePart, reviewPart>>
OnlyTitles == UNCHANGED <<focus, callPart, sessionPart, voice, catalogPart, registryPart,
                          attachmentPart, activityPart, presencePart, dictationPart, pickerPart,
                          reviewPart>>
OnlyReviews == UNCHANGED <<focus, callPart, sessionPart, voice, catalogPart, registryPart,
                           attachmentPart, activityPart, presencePart, dictationPart, pickerPart,
                           titlePart>>

MCNext ==
    \/ focus = "calls" /\ Calls!CallsNext /\ OnlyCalls
    \/ focus = "sessions" /\ Sessions!SessionsNext /\ OnlySessions
    \/ focus = "voice" /\ Voice!VoiceNext /\ OnlyVoice
    \/ focus = "catalog" /\ Catalog!CatalogNext /\ OnlyCatalog
    \/ focus = "registry" /\ Registry!RegistryNext /\ OnlyRegistry
    \/ focus = "attachments" /\ Uploads!AttachmentsNext /\ OnlyUploads
    \/ focus = "activity" /\ Activity!ActivityNext /\ OnlyActivity
    \/ focus = "presence" /\ Nearby!PresenceNext /\ OnlyPresence
    \/ focus = "dictation" /\ Dictation!DictationNext /\ OnlyDictation
    \/ focus = "picker" /\ Picker!PickerNext /\ OnlyPicker
    \/ focus = "titles" /\ Titles!TitlesNext /\ OnlyTitles
    \/ focus = "reviews" /\ Reviews!ApprovalReviewNext /\ OnlyReviews

Spec == MCInit /\ [][MCNext]_mcVars

(***************************************************************************)
(* Properties.                                                             *)
(***************************************************************************)
\* Paging through the catalog lists what did not change once and in order, a
\* retried mutation has its effect once, and a title is generated once per key,
\* from the excerpt of the call it answers (list, create, mutate, generateTitle);
\* and what the review of approvals shows as decided is what the store says,
\* asked for once and under the present context, and no read under way undoes it
\* (useApprovalReview, useConversationApprovals).
ViewsSound ==
    Catalog!PagesExact /\ Catalog!MutationsOnce /\ Titles!TitledOnce /\ Reviews!ApprovalsShown
================================================
