---------------- MODULE RealtimeVoice ----------------
(***************************************************************************)
(* The browser's controller of one realtime voice call: it bootstraps a    *)
(* session, opens a peer connection and the microphone, exchanges SDP, and *)
(* ends by hangup, cancel, dispose, failure, expiry or the server's word.  *)
(* Promises of the page (bootstrap, getUserMedia, playback) settle when    *)
(* they like, also after the end; an event and the microtasks it causes    *)
(* are one step.                                                           *)
(***************************************************************************)
EXTENDS Integers

CONSTANTS
    MaxMessages     \* maximumDataChannelMessages

VARIABLE voice      \* BrowserRealtimeVoiceController and what it holds open

\* step: the await start() is at.  server: what the server has of a session.
Idle == [status |-> "idle", step |-> "none", boot |-> "none", session |-> FALSE, peer |-> FALSE,
         mic |-> "none", media |-> "inactive", play |-> "none", response |-> FALSE, timer |-> FALSE,
         aborted |-> FALSE, over |-> FALSE, hungUp |-> FALSE, server |-> "none", messages |-> 0]
VoiceInit == voice = Idle
IsTerminal(v) == v.status \in {"ended", "failed", "cancelled", "disposed"}

------------------------------------------------
\* #invokeHangup, #closeResources and #terminate, which the first caller
\* decides; a hangup that fails counts as one.
InvokeHangup(v) == IF v.session THEN [v EXCEPT !.hungUp = TRUE] ELSE v
CloseResources(v) ==
    [v EXCEPT !.mic = IF @ = "live" THEN "stopped" ELSE @, !.play = IF @ = "live" THEN "closed" ELSE @,
              !.peer = FALSE, !.timer = FALSE]
Terminate(v, status, authoritative) ==
    IF v.over THEN v
    ELSE LET closed == [CloseResources(v) EXCEPT !.over = TRUE, !.aborted = TRUE, !.status = status,
                          !.media = "stopped", !.response = FALSE, !.step = "none"]
         IN IF authoritative THEN InvokeHangup(closed) ELSE closed
Fail(v) == Terminate(v, "failed", TRUE)

\* start, await by await.
Start ==
    /\ voice.status = "idle"
    /\ voice' = [voice EXCEPT !.status = "starting", !.step = "bootstrap", !.boot = "asked"]
AdoptLate(v) == IF v.session THEN v ELSE InvokeHangup([v EXCEPT !.session = TRUE])
\* Without input audio no microphone is asked for.
Connected(v) == [v EXCEPT !.peer = TRUE, !.step = "media", !.mic = "asked", !.media = "requesting"]
ConnectedUnheard(v) == [v EXCEPT !.peer = TRUE, !.step = "offer"]
\* An invalid or expired result may be of a session, which nobody can name.
BootstrapSettles ==
    /\ voice.boot = "asked"
    /\ LET v == [voice EXCEPT !.boot = "settled"]
           unnamed == [v EXCEPT !.server = "unnamed"]
           created == [v EXCEPT !.server = "open"]
           known == [created EXCEPT !.session = TRUE]
       IN voice' \in
            IF v.step # "bootstrap" THEN {v, unnamed, AdoptLate(created)}
            ELSE {Fail(v), Fail(unnamed), Fail(known), Connected(known), ConnectedUnheard(known)}
\* Mutant: a late microphone is kept.
MediaSettlesAnyway(v) == [v EXCEPT !.mic = "live"]
MediaSettles(v) ==
    IF v.aborted THEN [v EXCEPT !.mic = "stopped"]
    ELSE [v EXCEPT !.mic = "live", !.media = "active", !.step = "offer"]
GetUserMediaSettles ==
    /\ voice.mic = "asked"
    /\ voice' \in {MediaSettles(voice), Fail([voice EXCEPT !.mic = "none"])}
Negotiated(v) == IF v.step = "offer" THEN [v EXCEPT !.step = "answer"]
                 ELSE [v EXCEPT !.step = "none", !.status = "active", !.timer = TRUE]
NegotiationSettles ==
    /\ voice.step \in {"offer", "answer"}
    /\ voice' \in {Negotiated(voice), Fail(voice)}
\* The caller's signal, cancel, hangup, dispose or a hidden page.
StartAborted ==
    /\ voice.step # "none" /\ voice' = Terminate(voice, "cancelled", TRUE)
Cancel ==
    /\ voice' = IF voice.status = "idle" THEN [voice EXCEPT !.status = "cancelled", !.media = "stopped"]
                ELSE Terminate(voice, "cancelled", TRUE)
Hangup == voice.status # "idle" /\ voice' = Terminate(voice, "ended", TRUE)
Dispose == voice.status # "disposed" /\ voice' = [Terminate(voice, "disposed", TRUE) EXCEPT !.status = "disposed"]
Expires == voice.timer /\ voice' = Terminate(voice, "ended", TRUE)

------------------------------------------------
\* A remote track starts its playback; the promise may settle late.
OnTrack ==
    /\ voice.peer /\ ~IsTerminal(voice) /\ voice.play = "none"
    /\ voice' \in {[voice EXCEPT !.play = "asked"], Fail(voice)}
PlaybackSettles ==
    /\ voice.play = "asked"
    /\ voice' \in {[voice EXCEPT !.play = IF IsTerminal(voice) THEN "closed" ELSE "live"],
                   IF IsTerminal(voice) THEN [voice EXCEPT !.play = "none"] ELSE Fail([voice EXCEPT !.play = "none"])}
OnConnectionLost ==
    /\ voice.peer /\ ~IsTerminal(voice) /\ voice.status # "ending"
    /\ voice' = Fail(voice)
\* The user: microphone and interruption.
Mute == voice.status = "active" /\ voice.media = "active" /\ voice' = [voice EXCEPT !.media = "muted"]
Unmute == voice.status = "active" /\ voice.media = "muted" /\ voice' = [voice EXCEPT !.media = "active"]
StopMicrophone(v) == [v EXCEPT !.mic = IF @ = "live" THEN "stopped" ELSE @, !.media = "stopped"]
StopLocalMedia == voice.status = "active" /\ voice' = StopMicrophone(voice)
Interrupt ==
    /\ voice.status = "active" /\ voice.peer /\ voice.messages < MaxMessages
    /\ voice' = [voice EXCEPT !.messages = @ + 1, !.response = FALSE]
\* A message on the data channel: counted, parsed, applied; what cannot be
\* applied, or is one too many, fails the call.
ApplyServerEvent(v, type) ==
    CASE type = "response_started" -> IF v.status = "active" THEN [v EXCEPT !.response = TRUE] ELSE v
      [] type = "response_interrupted" -> [v EXCEPT !.response = FALSE]
      [] type = "local_media_stopped" -> IF v.media = "stopped" THEN v
                                         ELSE IF v.status # "active" THEN Fail(v) ELSE StopMicrophone(v)
      [] type = "hangup_started" -> [v EXCEPT !.status = "ending", !.response = FALSE]
      [] type = "session_ended" -> Terminate([v EXCEPT !.server = "ended"], "ended", FALSE)
      [] type = "session_failed" -> Terminate([v EXCEPT !.server = "ended"], "failed", FALSE)
      [] type = "invalid" -> Fail(v)
      [] OTHER -> v
OnChannelMessage ==
    /\ voice.peer /\ ~IsTerminal(voice)
    /\ \E type \in {"session_started", "response_started", "response_interrupted", "local_media_stopped",
                    "hangup_started", "session_ended", "session_failed", "invalid"} :
         LET v == [voice EXCEPT !.messages = @ + 1] IN
         voice' = IF voice.messages >= MaxMessages THEN Fail(voice) ELSE ApplyServerEvent(v, type)

VoiceNext ==
    \/ Start \/ BootstrapSettles \/ GetUserMediaSettles \/ NegotiationSettles
    \/ StartAborted \/ Cancel \/ Hangup \/ Dispose \/ Expires
    \/ OnTrack \/ PlaybackSettles \/ OnConnectionLost
    \/ Mute \/ Unmute \/ StopLocalMedia \/ Interrupt \/ OnChannelMessage

------------------------------------------------
\* After the end nothing is left: no microphone, playback, connection or
\* timer, and no session that a valid result named is open without a
\* hangup, whichever way the call ended and whatever settled too late ("A
\* bootstrap implementation may ignore cancellation. Adopt and close its
\* late session.").
NothingLeftOpen ==
    IsTerminal(voice) =>
        /\ voice.mic # "live" /\ voice.play # "live" /\ ~voice.peer /\ ~voice.timer
        /\ voice.server = "open" => voice.hungUp
================================================
