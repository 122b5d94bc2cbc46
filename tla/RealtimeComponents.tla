---------------- MODULE RealtimeComponents ----------------
(***************************************************************************)
(* Realtime voice, with the constants of its components open: the          *)
(* controller in the browser, the record of a call with what is read of    *)
(* it, and a session with its tools.  MCClient gives the constants values  *)
(* for TLC; RealtimeProofs proves the properties for all of them.          *)
(***************************************************************************)
EXTENDS Integers, Sequences, FiniteSets

CONSTANTS MaxMessages,
          CallWorkers, BeatOf, Enders, ToolCalls, Recorders, Viewers, Scenarios, LeaseTime, MaxAttempts,
          Bootstraps, Handlers, Tools, SessionPlans, MaxTrackedCalls, MaxConcurrentTools, MaxTries
VARIABLES voice,
          scenario, clock, call, op, pc, lease, provider, tool, recorder, marker, page, displayed, monitor,
          session, bootstrap, entry, tracked, handler, bridge, operation, outputs, authority, emitted, peer

Voice == INSTANCE RealtimeVoice
Calls == INSTANCE RealtimeCalls WITH Workers <- CallWorkers, now <- clock, viewer <- page, shown <- displayed
Sessions == INSTANCE RealtimeSessions WITH Plans <- SessionPlans, plan <- session, client <- peer,
                                           MaxAttempts <- MaxTries

\* The provider is asked for one call at most, a record that says "ended" has
\* no call running at the provider, and while a worker's lease signal lets it
\* work nobody reads its call as uncertain (requestEnd, beginCreation, attach,
\* confirmEnded and the renewals of realtime-calls.ts, replies lost or late).
CallTruthful == Calls!CallTruthful

\* No outcome is marked read that no page has shown, and the voice workspace
\* shows calls of the present selection only, reads that were under way when
\* it changed included (markRead, RealtimeWorkspace.refresh).
ReadingsTruthful == Calls!ReadingsTruthful

\* No tool of a session runs while or after the host cleans it up, a repeated
\* tool call has its output sent once, and a client that has applied every
\* event agrees with the server (RealtimeToolBridge, handleEvent, hangup).
ToolsSettleInCall == Sessions!ToolsSettleInCall

\* However the browser's call ended and whatever settled late, no microphone,
\* playback, connection or timer is left, and no server session without a
\* hangup (terminate and the late adoptions of browser/realtime-voice.ts).
NothingLeftOpen == Voice!NothingLeftOpen
================================================
