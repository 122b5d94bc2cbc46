---------------- MODULE ClientComponents ----------------
(***************************************************************************)
(* Components that surround a conversation for its user and share no       *)
(* state, with their constants open: the registry of runtimes, the picker, *)
(* dictation, presence, activity and attachments.  MCClient gives the      *)
(* constants values for TLC; ComponentProofs proves the properties for all *)
(* of them.                                                                *)
(***************************************************************************)
EXTENDS Integers, Sequences, FiniteSets

CONSTANTS Cases, Choices, PickerPlans, DictationPlans, MaxBytes,
          Rooms, Ttl, TypingTtl, IdleTime, MaxClock, MaxPublished, MaxMoves,
          Workers, MaxTurns, MaxReconciles,
          Tabs, Chats, Concurrency, MaxOwned, TimeToLive, Drafts
VARIABLES case, listed, entries, opening, mutating, alive, disposed, workspace, selected, turns,
          picked, picker, asked, catalog, registry, views,
          dictated, ui, caps, runs, applied, dropped,
          now, local, timers, air, viewer, streams, remote, received,
          turn, stored, worker, wire, shown, poll, subscribed,
          drafted, showing, items, uploads, owned, sending, staged, blobs, time, sent, spent

Registry == INSTANCE RuntimeRegistry
Picker == INSTANCE ConversationPicker
    WITH Ids <- Choices, Plans <- PickerPlans, plan <- picked, calls <- asked
Dictation == INSTANCE Transcription WITH Plans <- DictationPlans, plan <- dictated
Nearby == INSTANCE Presence
Activity == INSTANCE ConversationActivity WITH live <- subscribed
Uploads == INSTANCE Attachments
    WITH Conversations <- Chats, plan <- drafted, calls <- uploads, records <- staged, clock <- time

\* A runtime lives exactly as long as the registry holds it, however opens,
\* releases and mutations of its conversation interleave (open, release).
RuntimesHeld == Registry!RuntimesHeld

\* The picker shows rows of the present authorization context only and keeps
\* runtimes and views only of the conversation it holds open, however late a
\* list, an open or a mutation is answered (useConversationPicker).
PickerHoldsOwn == Picker!PickerHoldsOwn

\* A sent message's attachments can be resolved for its conversation until
\* they expire, however uploads raced (stage, #upload, submit).
SentResolves == Uploads!SentResolves

\* Neither the stored activity nor the one shown returns to an older turn or
\* from finished to running, whatever live updates and polls deliver.
ActivityForward == Activity!ActivityForward

\* Out-of-order presence updates never bring back an older state.
ShowsNewest == Nearby!ShowsNewest

\* The text of a recording is applied once at most, and never after the user
\* cancelled it, recorded again, switched the conversation or left.
TranscriptWanted == Dictation!TranscriptWanted
================================================
