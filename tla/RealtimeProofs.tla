---------------- MODULE RealtimeProofs ----------------
(***************************************************************************)
(* Theorems about realtime voice: the controller in the browser, the       *)
(* record of a call with what is read of it, and a session with its tools. *)
(*                                                                         *)
(*   - Whoever terminates the browser's call first decides, and leaves     *)
(*     nothing behind that a bootstrap, a microphone or a playback yet to  *)
(*     settle could put back.                                              *)
(*   - The provider is asked by the worker that claimed the creation, and  *)
(*     a change of the call's record that the version admits succeeds the  *)
(*     record it replaces.                                                 *)
(*   - Counts of tool calls only grow, so what was displayed of a version  *)
(*     is in a line, and the greatest of it is what a marker may reach.    *)
(*   - A remembered tool call has one handler, the bridge forgets a        *)
(*     session before the host cleans it up, and the number of a session's *)
(*     events tells what each of them is.                                  *)
(***************************************************************************)
EXTENDS RealtimeComponents, SequenceTheorems, FiniteSetTheorems, TLAPS

------------------------------------------------
\* The browser's controller of a voice call.

VoiceSpec == Voice!VoiceInit /\ [][Voice!VoiceNext]_voice

VoiceEnd == {"ended", "failed", "cancelled", "disposed"}
VoiceCall ==
    [status : {"idle", "starting", "active", "ending"} \cup VoiceEnd,
     step : {"none", "bootstrap", "media", "offer", "answer"},
     boot : {"none", "asked", "settled"}, session : BOOLEAN, peer : BOOLEAN,
     mic : {"none", "asked", "live", "stopped"},
     media : {"inactive", "requesting", "active", "muted", "stopped"},
     play : {"none", "asked", "live", "closed"}, response : BOOLEAN, timer : BOOLEAN,
     aborted : BOOLEAN, over : BOOLEAN, hungUp : BOOLEAN,
     server : {"none", "unnamed", "open", "ended"}, messages : Nat]

\* Before the bootstrap has settled there is nothing; a session that is open
\* is known.
SessionKnown(v) ==
    /\ v.boot # "settled" => /\ ~v.session /\ ~v.peer /\ ~v.timer /\ v.server = "none"
                             /\ v.mic = "none" /\ v.play = "none"
    /\ v.server = "open" => v.session

\* Nothing is held.  A bootstrap, microphone or playback may still be asked.
Released(v) ==
    /\ v.mic # "live" /\ v.play # "live" /\ ~v.peer /\ ~v.timer
    /\ v.server = "open" => v.hungUp

\* Whoever terminates the call first decides, and start waits for nothing
\* then; a call that was cancelled before it started has nothing to close.
VoiceSettled(v) ==
    /\ v.over = v.aborted
    /\ v.over => v.status \in VoiceEnd /\ v.step = "none" /\ Released(v)
    /\ v.status \in VoiceEnd /\ ~v.over => v.status = "cancelled" /\ v.boot = "none"
    /\ v.status = "idle" => v.boot = "none"
    /\ v.boot = "asked" /\ v.step # "bootstrap" => v.over
    /\ v.step = "bootstrap" => v.boot = "asked"
    /\ v.step # "none" => v.status \notin VoiceEnd
    /\ v.boot = "none" => v.step = "none"
VoiceGood(v) == v \in VoiceCall /\ SessionKnown(v) /\ VoiceSettled(v)

LEMMA ClosedFields ==
    ASSUME NEW v \in VoiceCall
    PROVE  /\ Voice!CloseResources(v) \in VoiceCall
           /\ Voice!CloseResources(v).mic # "live" /\ Voice!CloseResources(v).play # "live"
           /\ ~Voice!CloseResources(v).peer /\ ~Voice!CloseResources(v).timer
           /\ Voice!CloseResources(v).session = v.session /\ Voice!CloseResources(v).boot = v.boot
           /\ Voice!CloseResources(v).server = v.server /\ Voice!CloseResources(v).hungUp = v.hungUp
           /\ v.mic = "none" => Voice!CloseResources(v).mic = "none"
           /\ v.play = "none" => Voice!CloseResources(v).play = "none"
  <1> DEFINE m == IF v.mic = "live" THEN "stopped" ELSE v.mic
             p == IF v.play = "live" THEN "closed" ELSE v.play
             c == [v EXCEPT !.mic = m, !.play = p, !.peer = FALSE, !.timer = FALSE]
  <1>1. Voice!CloseResources(v) = c BY DEF Voice!CloseResources, VoiceCall
  <1>2. /\ m \in {"none", "asked", "stopped"} /\ p \in {"none", "asked", "closed"}
        /\ (v.mic = "none" => m = "none") /\ (v.play = "none" => p = "none")
    BY DEF VoiceCall
  <1> HIDE DEF m, p
  <1>3. c \in VoiceCall BY <1>2 DEF VoiceCall
  <1>4. /\ c.mic = m /\ c.play = p /\ ~c.peer /\ ~c.timer /\ c.session = v.session /\ c.boot = v.boot
        /\ c.server = v.server /\ c.hungUp = v.hungUp
    BY DEF VoiceCall
  <1> QED BY <1>1, <1>2, <1>3, <1>4

LEMMA EndedTyped ==
    ASSUME NEW c \in VoiceCall, NEW s \in VoiceEnd
    PROVE  [c EXCEPT !.over = TRUE, !.aborted = TRUE, !.status = s,
                     !.media = "stopped", !.response = FALSE, !.step = "none"] \in VoiceCall
  BY DEF VoiceCall

\* #terminate leaves nothing open, except a session that the server ended.
LEMMA TerminateGood ==
    ASSUME NEW v \in VoiceCall, NEW s \in VoiceEnd, NEW b \in BOOLEAN,
           SessionKnown(v), v.over => VoiceGood(v),
           ~b => v.server # "open"
    PROVE  VoiceGood(Voice!Terminate(v, s, b)) /\ Voice!Terminate(v, s, b).over
  <1>1. CASE v.over BY <1>1 DEF Voice!Terminate
  <1>2. CASE ~v.over
    <2> DEFINE c == Voice!CloseResources(v)
               d == [c EXCEPT !.over = TRUE, !.aborted = TRUE, !.status = s,
                              !.media = "stopped", !.response = FALSE, !.step = "none"]
               h == Voice!InvokeHangup(d)
    <2>1. /\ c \in VoiceCall /\ c.mic # "live" /\ c.play # "live" /\ ~c.peer /\ ~c.timer
          /\ c.session = v.session /\ c.boot = v.boot /\ c.server = v.server
          /\ c.hungUp = v.hungUp /\ (v.mic = "none" => c.mic = "none")
          /\ (v.play = "none" => c.play = "none")
      BY ClosedFields
    <2> HIDE DEF c
    <2>0. d \in VoiceCall BY <2>1, EndedTyped
    <2>2. /\ d.mic = c.mic /\ d.play = c.play /\ ~d.peer /\ ~d.timer
          /\ d.session = v.session /\ d.boot = v.boot /\ d.server = v.server
          /\ d.over /\ d.aborted /\ d.status = s /\ d.step = "none"
      BY <2>1 DEF VoiceCall
    <2>3. Voice!Terminate(v, s, b) = IF b THEN h ELSE d BY <1>2 DEF Voice!Terminate, c
    <2> HIDE DEF d
    <2>4. ~b => VoiceGood(d)
      BY <2>0, <2>1, <2>2 DEF VoiceGood, SessionKnown, VoiceSettled, Released, VoiceEnd
    <2>7. d.session =>
              /\ h \in VoiceCall /\ h.mic = d.mic /\ h.play = d.play /\ h.peer = d.peer
              /\ h.timer = d.timer /\ h.session = d.session /\ h.boot = d.boot /\ h.server = d.server
              /\ h.over = d.over /\ h.aborted = d.aborted /\ h.status = d.status /\ h.step = d.step
              /\ h.hungUp
      <3> HAVE d.session
      <3>1. h = [d EXCEPT !.hungUp = TRUE] BY DEF Voice!InvokeHangup
      <3>2. h \in VoiceCall BY <2>0, <3>1 DEF VoiceCall
      <3>3. /\ h.mic = d.mic /\ h.play = d.play /\ h.peer = d.peer /\ h.timer = d.timer
            /\ h.session = d.session /\ h.boot = d.boot /\ h.server = d.server /\ h.over = d.over
            /\ h.aborted = d.aborted /\ h.status = d.status /\ h.step = d.step /\ h.hungUp
        BY <2>0, <3>1 DEF VoiceCall
      <3> QED BY <3>2, <3>3
    <2>8. ~d.session => h = d BY DEF Voice!InvokeHangup
    <2>5. /\ h \in VoiceCall /\ h.mic = c.mic /\ h.play = c.play /\ ~h.peer /\ ~h.timer
          /\ h.session = v.session /\ h.boot = v.boot /\ h.server = v.server
          /\ h.over /\ h.aborted /\ h.status = s /\ h.step = "none"
          /\ h.session => h.hungUp
      BY <2>0, <2>2, <2>7, <2>8
    <2> HIDE DEF h
    <2>6. VoiceGood(h)
      BY <2>1, <2>5 DEF VoiceGood, SessionKnown, VoiceSettled, Released, VoiceEnd
    <2> QED BY <2>2, <2>3, <2>4, <2>5, <2>6
  <1> QED BY <1>1, <1>2

LEMMA FailGood ==
    ASSUME NEW v \in VoiceCall, SessionKnown(v), v.over => VoiceGood(v)
    PROVE  VoiceGood(Voice!Fail(v))
  BY TerminateGood DEF Voice!Fail, VoiceEnd

\* A field is set to a value of its type.
LEMMA SetTyped ==
    ASSUME NEW v \in VoiceCall
    PROVE  /\ [v EXCEPT !.boot = "settled"] \in VoiceCall
           /\ \A x \in {"unnamed", "open", "ended"} : [v EXCEPT !.server = x] \in VoiceCall
           /\ [v EXCEPT !.session = TRUE] \in VoiceCall /\ [v EXCEPT !.hungUp = TRUE] \in VoiceCall
           /\ \A m \in {"none", "asked", "live", "stopped"} : [v EXCEPT !.mic = m] \in VoiceCall
           /\ \A p \in {"none", "asked", "live", "closed"} : [v EXCEPT !.play = p] \in VoiceCall
           /\ \A m \in {"active", "muted", "stopped"} : [v EXCEPT !.media = m] \in VoiceCall
           /\ \A x \in BOOLEAN : [v EXCEPT !.response = x] \in VoiceCall
           /\ [v EXCEPT !.messages = v.messages + 1] \in VoiceCall
           /\ \A x \in VoiceEnd \cup {"ending"} : [v EXCEPT !.status = x] \in VoiceCall
  <1>1. /\ [v EXCEPT !.boot = "settled"] \in VoiceCall
        /\ \A x \in {"unnamed", "open", "ended"} : [v EXCEPT !.server = x] \in VoiceCall
    BY DEF VoiceCall
  <1>2. [v EXCEPT !.session = TRUE] \in VoiceCall /\ [v EXCEPT !.hungUp = TRUE] \in VoiceCall
    BY DEF VoiceCall
  <1>3. \A m \in {"none", "asked", "live", "stopped"} : [v EXCEPT !.mic = m] \in VoiceCall
    BY DEF VoiceCall
  <1>4. \A p \in {"none", "asked", "live", "closed"} : [v EXCEPT !.play = p] \in VoiceCall
    BY DEF VoiceCall
  <1>5. \A m \in {"active", "muted", "stopped"} : [v EXCEPT !.media = m] \in VoiceCall
    BY DEF VoiceCall
  <1>6. \A x \in BOOLEAN : [v EXCEPT !.response = x] \in VoiceCall BY DEF VoiceCall
  <1>7. v.messages + 1 \in Nat BY DEF VoiceCall
  <1>8. [v EXCEPT !.messages = v.messages + 1] \in VoiceCall BY <1>7 DEF VoiceCall
  <1>9. \A x \in VoiceEnd \cup {"ending"} : [v EXCEPT !.status = x] \in VoiceCall BY DEF VoiceCall
  <1> QED BY <1>1, <1>2, <1>3, <1>4, <1>5, <1>6, <1>8, <1>9

LEMMA ConnectedTyped ==
    ASSUME NEW v \in VoiceCall
    PROVE  [v EXCEPT !.peer = TRUE, !.step = "media", !.mic = "asked", !.media = "requesting"]
               \in VoiceCall
  BY DEF VoiceCall

LEMMA StoppedGood ==
    ASSUME NEW v, VoiceGood(v)
    PROVE  VoiceGood(Voice!StopMicrophone(v))
  <1> DEFINE m == IF v.mic = "live" THEN "stopped" ELSE v.mic
             w == [v EXCEPT !.mic = m, !.media = "stopped"]
  <1>0. v \in VoiceCall /\ SessionKnown(v) /\ VoiceSettled(v) BY DEF VoiceGood
  <1>1. Voice!StopMicrophone(v) = w BY <1>0 DEF Voice!StopMicrophone, VoiceCall
  <1>2. m \in {"none", "asked", "stopped"} /\ (v.mic = "none" => m = "none") BY <1>0 DEF VoiceCall
  <1> HIDE DEF m
  <1>3. w \in VoiceCall BY <1>0, <1>2 DEF VoiceCall
  <1>4. SessionKnown(w) /\ VoiceSettled(w)
    BY <1>0, <1>2 DEF VoiceCall, SessionKnown, VoiceSettled, Released
  <1> QED BY <1>1, <1>3, <1>4 DEF VoiceGood

LEMMA VoiceStep ==
    ASSUME VoiceGood(voice), Voice!VoiceNext
    PROVE  VoiceGood(voice')
  <1>0. voice \in VoiceCall /\ SessionKnown(voice) /\ VoiceSettled(voice) BY DEF VoiceGood
  <1>t. \A s \in VoiceEnd : VoiceGood(Voice!Terminate(voice, s, TRUE)) BY <1>0, TerminateGood
  <1>f. VoiceGood(Voice!Fail(voice)) BY <1>0, FailGood
  <1>e. {"ended", "failed", "cancelled", "disposed"} \subseteq VoiceEnd BY DEF VoiceEnd
  <1>1. CASE Voice!Start
    <2> DEFINE v == [voice EXCEPT !.status = "starting", !.step = "bootstrap", !.boot = "asked"]
    <2>1. v \in VoiceCall BY <1>0 DEF VoiceCall
    <2>2. SessionKnown(v) /\ VoiceSettled(v)
      BY <1>0, <1>1 DEF Voice!Start, VoiceCall, SessionKnown, VoiceSettled, Released, VoiceEnd
    <2> QED BY <1>1, <2>1, <2>2 DEF VoiceGood, Voice!Start
  <1>2. CASE Voice!BootstrapSettles
    <2> DEFINE v == [voice EXCEPT !.boot = "settled"]
               unnamed == [v EXCEPT !.server = "unnamed"]
               created == [v EXCEPT !.server = "open"]
               known == [created EXCEPT !.session = TRUE]
               late == [known EXCEPT !.hungUp = TRUE]
    <2>1. voice.boot = "asked" /\ ~voice.session BY <1>0, <1>2 DEF Voice!BootstrapSettles, SessionKnown
    <2>2. v \in VoiceCall /\ unnamed \in VoiceCall /\ created \in VoiceCall /\ known \in VoiceCall /\ late \in VoiceCall
      BY <1>0, SetTyped
    <2>3. voice' \in IF v.step # "bootstrap" THEN {v, unnamed, Voice!AdoptLate(created)}
                     ELSE {Voice!Fail(v), Voice!Fail(unnamed), Voice!Fail(known), Voice!Connected(known),
                           Voice!ConnectedUnheard(known)}
      BY <1>2 DEF Voice!BootstrapSettles
    <2>4. /\ v.step = voice.step /\ v.over = voice.over /\ v.boot = "settled"
          /\ v.session = voice.session /\ v.server = voice.server
          /\ created.session = voice.session /\ unnamed.over = voice.over /\ unnamed.boot = "settled"
          /\ known.over = voice.over /\ known.boot = "settled" /\ known.session
      BY <1>0 DEF VoiceCall
    <2>5. CASE voice.step # "bootstrap"
      <3>1. voice.over BY <1>0, <2>1, <2>5 DEF VoiceSettled
      <3>2. SessionKnown(v) /\ VoiceSettled(v) /\ SessionKnown(unnamed) /\ VoiceSettled(unnamed)
        BY <1>0, <2>1, <3>1 DEF VoiceCall, SessionKnown, VoiceSettled, Released, VoiceEnd
      <3>3. SessionKnown(late) /\ VoiceSettled(late)
        BY <1>0, <2>1, <3>1 DEF VoiceCall, SessionKnown, VoiceSettled, Released, VoiceEnd
      <3>4. Voice!AdoptLate(created) = late
        BY <2>1, <2>4 DEF Voice!AdoptLate, Voice!InvokeHangup
      <3> QED BY <2>2, <2>3, <2>4, <2>5, <3>2, <3>3, <3>4 DEF VoiceGood
    <2>6. CASE voice.step = "bootstrap"
      <3>1. ~voice.over BY <1>0, <2>6 DEF VoiceSettled
      <3>2. SessionKnown(v) /\ SessionKnown(unnamed) /\ SessionKnown(known)
        BY <1>0, <2>1, <2>4 DEF SessionKnown, VoiceCall
      <3>3. VoiceGood(Voice!Fail(v)) /\ VoiceGood(Voice!Fail(unnamed)) BY <2>2, <2>4, <3>1, <3>2, FailGood
      <3>4. VoiceGood(Voice!Fail(known)) BY <2>2, <2>4, <3>1, <3>2, FailGood
      <3> DEFINE w == [known EXCEPT !.peer = TRUE, !.step = "media", !.mic = "asked", !.media = "requesting"]
      <3>5. Voice!Connected(known) = w BY DEF Voice!Connected
      <3>6. w \in VoiceCall BY <2>2, ConnectedTyped
      <3>7. SessionKnown(w) /\ VoiceSettled(w)
        BY <1>0, <2>1, <2>6, <3>1 DEF VoiceCall, SessionKnown, VoiceSettled, Released, VoiceEnd
      <3>8. VoiceGood(w) BY <3>6, <3>7 DEF VoiceGood
      <3> DEFINE u == [known EXCEPT !.peer = TRUE, !.step = "offer"]
      <3>9. Voice!ConnectedUnheard(known) = u BY DEF Voice!ConnectedUnheard
      <3>10. u \in VoiceCall /\ SessionKnown(u) /\ VoiceSettled(u)
        BY <1>0, <2>1, <2>6, <3>1 DEF VoiceCall, SessionKnown, VoiceSettled, Released, VoiceEnd
      <3>11. VoiceGood(u) BY <3>10 DEF VoiceGood
      <3> QED BY <2>3, <2>4, <2>6, <3>3, <3>4, <3>5, <3>8, <3>9, <3>11
    <2> QED BY <2>5, <2>6
  <1>3. CASE Voice!GetUserMediaSettles
    <2> DEFINE v == [voice EXCEPT !.mic = "none"]
               w == [voice EXCEPT !.mic = "stopped"]
               x == [voice EXCEPT !.mic = "live", !.media = "active", !.step = "offer"]
    <2>1. voice.mic = "asked" /\ voice.boot = "settled"
      BY <1>0, <1>3 DEF Voice!GetUserMediaSettles, SessionKnown
    <2>2. voice' = Voice!Fail(v) \/ voice' = Voice!MediaSettles(voice)
      BY <1>3 DEF Voice!GetUserMediaSettles
    <2>3. v \in VoiceCall /\ w \in VoiceCall BY <1>0, SetTyped
    <2>4. SessionKnown(v) /\ VoiceSettled(v)
      BY <1>0, <2>1 DEF VoiceCall, SessionKnown, VoiceSettled, Released, VoiceEnd
    <2>5. VoiceGood(Voice!Fail(v)) BY <2>3, <2>4, FailGood DEF VoiceGood
    <2>6. CASE voice.aborted
      <3>1. SessionKnown(w) /\ VoiceSettled(w)
        BY <1>0, <2>1 DEF VoiceCall, SessionKnown, VoiceSettled, Released, VoiceEnd
      <3> QED BY <2>2, <2>3, <2>5, <2>6, <3>1 DEF VoiceGood, Voice!MediaSettles
    <2>7. CASE ~voice.aborted
      <3>1. x \in VoiceCall BY <1>0 DEF VoiceCall
      <3>2. SessionKnown(x) /\ VoiceSettled(x)
        BY <1>0, <2>1, <2>7 DEF VoiceCall, SessionKnown, VoiceSettled, Released, VoiceEnd
      <3> QED BY <2>2, <2>5, <2>7, <3>1, <3>2 DEF VoiceGood, Voice!MediaSettles
    <2> QED BY <2>6, <2>7
  <1>4. CASE Voice!NegotiationSettles
    <2> DEFINE v == [voice EXCEPT !.step = "answer"]
               w == [voice EXCEPT !.step = "none", !.status = "active", !.timer = TRUE]
    <2>1. voice.step \in {"offer", "answer"} /\ voice.boot = "settled" /\ ~voice.over
      BY <1>0, <1>4 DEF Voice!NegotiationSettles, VoiceSettled, VoiceCall
    <2>2. v \in VoiceCall /\ SessionKnown(v) /\ VoiceSettled(v)
      BY <1>0, <2>1 DEF VoiceCall, SessionKnown, VoiceSettled, Released, VoiceEnd
    <2>3. w \in VoiceCall BY <1>0 DEF VoiceCall
    <2>4. SessionKnown(w) /\ VoiceSettled(w)
      BY <1>0, <2>1 DEF VoiceCall, SessionKnown, VoiceSettled, Released, VoiceEnd
    <2>5. VoiceGood(Voice!Negotiated(voice))
      BY <2>2, <2>3, <2>4 DEF VoiceGood, Voice!Negotiated
    <2> QED BY <1>4, <1>f, <2>5 DEF Voice!NegotiationSettles
  <1>5. CASE Voice!StartAborted BY <1>t, <1>e, <1>5 DEF Voice!StartAborted
  <1>6. CASE Voice!Cancel
    <2>1. CASE voice.status = "idle"
      <3> DEFINE v == [voice EXCEPT !.status = "cancelled", !.media = "stopped"]
      <3>1. v \in VoiceCall BY <1>0, <1>e DEF VoiceCall
      <3>2. SessionKnown(v) /\ VoiceSettled(v)
        BY <1>0, <2>1 DEF VoiceCall, SessionKnown, VoiceSettled, Released, VoiceEnd
      <3> QED BY <1>6, <2>1, <3>1, <3>2 DEF VoiceGood, Voice!Cancel
    <2>2. CASE voice.status # "idle" BY <1>t, <1>e, <1>6, <2>2 DEF Voice!Cancel
    <2> QED BY <2>1, <2>2
  <1>7. CASE Voice!Hangup BY <1>t, <1>e, <1>7 DEF Voice!Hangup
  <1>8. CASE Voice!Dispose
    <2> DEFINE v == Voice!Terminate(voice, "disposed", TRUE)
               w == [v EXCEPT !.status = "disposed"]
    <2>1. VoiceGood(v) /\ v.over BY <1>0, <1>e, TerminateGood
    <2>2. voice' = w BY <1>8 DEF Voice!Dispose
    <2> HIDE DEF v
    <2>3. v \in VoiceCall BY <2>1 DEF VoiceGood
    <2>4. w \in VoiceCall BY <2>3, <1>e, SetTyped
    <2>5. SessionKnown(w) /\ VoiceSettled(w)
      BY <2>1 DEF VoiceGood, VoiceCall, SessionKnown, VoiceSettled, Released, VoiceEnd
    <2> QED BY <2>2, <2>4, <2>5 DEF VoiceGood
  <1>9. CASE Voice!Expires BY <1>t, <1>e, <1>9 DEF Voice!Expires
  <1>10. CASE Voice!OnTrack
    <2> DEFINE v == [voice EXCEPT !.play = "asked"]
    <2>1. v \in VoiceCall BY <1>0, SetTyped
    <2>2. SessionKnown(v) /\ VoiceSettled(v)
      BY <1>0, <1>10 DEF Voice!OnTrack, VoiceCall, SessionKnown, VoiceSettled, Released, VoiceEnd
    <2> QED BY <1>10, <1>f, <2>1, <2>2 DEF Voice!OnTrack, VoiceGood
  <1>11. CASE Voice!PlaybackSettles
    <2> DEFINE v == [voice EXCEPT !.play = "none"]
               w == [voice EXCEPT !.play = "closed"]
               x == [voice EXCEPT !.play = "live"]
    <2>1. v \in VoiceCall /\ w \in VoiceCall /\ x \in VoiceCall BY <1>0, SetTyped
    <2>2. SessionKnown(v) /\ VoiceSettled(v) /\ SessionKnown(w) /\ VoiceSettled(w)
      BY <1>0, <1>11 DEF Voice!PlaybackSettles, VoiceCall, SessionKnown, VoiceSettled, Released, VoiceEnd
    <2>3. VoiceGood(Voice!Fail(v)) BY <2>1, <2>2, FailGood DEF VoiceGood
    <2>4. ~Voice!IsTerminal(voice) => SessionKnown(x) /\ VoiceSettled(x)
      BY <1>0, <1>11 DEF Voice!PlaybackSettles, Voice!IsTerminal, VoiceCall, SessionKnown, VoiceSettled,
                         Released, VoiceEnd
    <2> QED BY <1>11, <2>1, <2>2, <2>3, <2>4 DEF Voice!PlaybackSettles, VoiceGood
  <1>12. CASE Voice!OnConnectionLost BY <1>f, <1>12 DEF Voice!OnConnectionLost
  <1>13. CASE Voice!Mute \/ Voice!Unmute \/ Voice!StopLocalMedia
    <2>1. \A m \in {"active", "muted"} : VoiceGood([voice EXCEPT !.media = m])
      <3> SUFFICES ASSUME NEW m \in {"active", "muted"} PROVE VoiceGood([voice EXCEPT !.media = m])
        OBVIOUS
      <3>1. [voice EXCEPT !.media = m] \in VoiceCall BY <1>0, SetTyped
      <3>2. SessionKnown([voice EXCEPT !.media = m]) /\ VoiceSettled([voice EXCEPT !.media = m])
        BY <1>0 DEF VoiceCall, SessionKnown, VoiceSettled, Released
      <3> QED BY <3>1, <3>2 DEF VoiceGood
    <2>2. VoiceGood(Voice!StopMicrophone(voice)) BY <1>0, StoppedGood DEF VoiceGood
    <2> QED BY <1>13, <2>1, <2>2 DEF Voice!Mute, Voice!Unmute, Voice!StopLocalMedia
  <1>14. CASE Voice!Interrupt
    <2> DEFINE v == [voice EXCEPT !.messages = @ + 1, !.response = FALSE]
    <2>0. voice.messages + 1 \in Nat BY <1>0 DEF VoiceCall
    <2>1. v \in VoiceCall BY <1>0, <2>0 DEF VoiceCall
    <2>2. SessionKnown(v) /\ VoiceSettled(v)
      BY <1>0 DEF VoiceCall, SessionKnown, VoiceSettled, Released
    <2> QED BY <1>14, <2>1, <2>2 DEF Voice!Interrupt, VoiceGood
  <1>15. CASE Voice!OnChannelMessage
    <2> DEFINE v == [voice EXCEPT !.messages = @ + 1]
               gone == [v EXCEPT !.server = "ended"]
    <2>0. voice.peer /\ ~voice.over /\ voice.boot = "settled" /\ voice.status \notin VoiceEnd
      BY <1>0, <1>15 DEF Voice!OnChannelMessage, Voice!IsTerminal, SessionKnown, VoiceSettled, VoiceEnd
    <2>1. v \in VoiceCall BY <1>0, SetTyped
    <2>2. SessionKnown(v) /\ VoiceSettled(v) /\ ~v.over /\ v.boot = "settled" /\ v.status \notin VoiceEnd
      BY <1>0, <2>0 DEF VoiceCall, SessionKnown, VoiceSettled, Released
    <2>3. PICK type : voice' = IF voice.messages >= MaxMessages THEN Voice!Fail(voice)
                               ELSE Voice!ApplyServerEvent(v, type)
      BY <1>15 DEF Voice!OnChannelMessage
    <2> HIDE DEF v
    <2>4. gone \in VoiceCall BY <2>1, SetTyped
    <2>5. SessionKnown(gone) /\ ~gone.over /\ gone.server # "open"
      BY <2>1, <2>2 DEF VoiceCall, SessionKnown
    <2>6. \A s \in VoiceEnd : VoiceGood(Voice!Terminate(gone, s, FALSE)) BY <2>4, <2>5, TerminateGood
    <2>7. VoiceGood(Voice!Fail(v)) BY <2>1, <2>2, FailGood
    <2>8. \A x \in BOOLEAN : VoiceGood([v EXCEPT !.response = x])
      <3> SUFFICES ASSUME NEW x \in BOOLEAN PROVE VoiceGood([v EXCEPT !.response = x])
        OBVIOUS
      <3>1. [v EXCEPT !.response = x] \in VoiceCall BY <2>1, SetTyped
      <3>2. SessionKnown([v EXCEPT !.response = x]) /\ VoiceSettled([v EXCEPT !.response = x])
        BY <2>1, <2>2 DEF VoiceCall, SessionKnown, VoiceSettled, Released
      <3> QED BY <3>1, <3>2 DEF VoiceGood
    <2>9. VoiceGood([v EXCEPT !.status = "ending", !.response = FALSE])
      <3> DEFINE w == [v EXCEPT !.status = "ending", !.response = FALSE]
      <3>1. w \in VoiceCall BY <2>1 DEF VoiceCall
      <3>2. SessionKnown(w) /\ VoiceSettled(w)
        BY <2>1, <2>2 DEF VoiceCall, SessionKnown, VoiceSettled, Released, VoiceEnd
      <3> QED BY <3>1, <3>2 DEF VoiceGood
    <2>10. VoiceGood(v) BY <2>1, <2>2 DEF VoiceGood
    <2>11. VoiceGood(Voice!StopMicrophone(v)) BY <2>10, StoppedGood
    <2>12. VoiceGood(Voice!ApplyServerEvent(v, type))
      BY <1>e, <2>6, <2>7, <2>8, <2>9, <2>10, <2>11 DEF Voice!ApplyServerEvent
    <2> QED BY <1>f, <2>3, <2>12
  <1> QED BY <1>1, <1>2, <1>3, <1>4, <1>5, <1>6, <1>7, <1>8, <1>9, <1>10, <1>11, <1>12, <1>13,
             <1>14, <1>15 DEF Voice!VoiceNext

\* After the end of a voice call nothing is left open, however it ended and
\* whatever settled too late: no microphone, playback, connection or timer,
\* and no server session without a hangup.
THEOREM NothingIsLeftOpen == VoiceSpec => []NothingLeftOpen
  <1>1. Voice!VoiceInit => VoiceGood(voice)
    BY DEF Voice!VoiceInit, Voice!Idle, VoiceGood, VoiceCall, SessionKnown, VoiceSettled, VoiceEnd
  <1>2. VoiceGood(voice) /\ [Voice!VoiceNext]_voice => VoiceGood(voice)'
    BY VoiceStep
  <1>3. VoiceGood(voice) => Voice!NothingLeftOpen
    BY DEF VoiceGood, VoiceCall, SessionKnown, VoiceSettled, Released, VoiceEnd, Voice!NothingLeftOpen,
           Voice!IsTerminal
  <1> QED BY <1>1, <1>2, <1>3, PTL DEF VoiceSpec, NothingLeftOpen

------------------------------------------------
\* The record of a realtime call.

CallsSpec == Calls!CallsInit /\ [][Calls!CallsNext]_Calls!realtimeVars

\* Whoever acts on the call is told apart: a worker, its heartbeat, whoever
\* ends the call.
CallActors ==
    /\ "none" \notin CallWorkers /\ CallWorkers \cap Enders = {} /\ LeaseTime \in Nat
    /\ \A w \in CallWorkers : BeatOf[w] \notin CallWorkers \cup Enders
    /\ \A v, w \in CallWorkers : BeatOf[v] = BeatOf[w] => v = w

CallStatus == {"none", "admitted", "starting", "active", "uncertain", "ending", "ended"}
CallRecord ==
    [status : CallStatus, started : BOOLEAN, ref : CallWorkers \cup {"none"},
     worker : CallWorkers \cup {"none"}, lease : Int, version : Nat]
CallUpdate ==
    [kind : {"none", "admit", "renew", "begin", "attach", "end", "confirm"},
     by : CallWorkers \cup Enders \cup {"none"}, at : {"idle", "read", "write", "ok", "failed"},
     tries : Nat, value : CallRecord]

\* Only the worker that was admitted can be referred to, and a call that was
\* started is recorded as ended once the provider has ended it.
CallGood(c, P, n) ==
    /\ c \in CallRecord /\ c.lease <= n + LeaseTime
    /\ c.version > 0 => c.worker # "none"
    /\ c.ref # "none" => c.ref = c.worker /\ c.started /\ P[c.ref] # "none"
    /\ c.status \in {"starting", "active", "ending"} => c.started
    /\ c.status = "ended" /\ c.started => c.ref # "none" /\ P[c.ref] = "ended"

\* What a change of the record leaves of it.
Succeeds(c, d) ==
    c.version > 0 => /\ d.version > 0 /\ d.worker = c.worker /\ c.lease <= d.lease
                     /\ c.started => d.started
                     /\ c.ref # "none" => d.ref = c.ref

\* A change that is made to the present version succeeds it; an answer holds
\* for good.
Pending(o, c, P, n) ==
    /\ o.value.version <= c.version /\ o.value.version > 0
    /\ o.value.version = c.version =>
         /\ CallGood(o.value, P, n) /\ Succeeds(c, o.value)
         /\ o.kind = "begin" => o.value.started /\ o.value.worker = o.by
         /\ o.kind = "renew" => o.value.worker = o.by
Confirmed(o, c) ==
    /\ o.kind = "begin" => c.version > 0 /\ c.started /\ c.worker = o.by
    /\ o.kind = "renew" => c.version > 0 /\ c.worker = o.by /\ o.value.lease <= c.lease
    /\ o.value.ref # "none" => c.version > 0 /\ c.ref = o.value.ref
UpdateGood(o, c, P, n) ==
    /\ o \in CallUpdate
    /\ o.at = "write" /\ o.kind # "admit" => Pending(o, c, P, n)
    /\ o.at = "write" /\ o.kind = "admit" => CallGood(o.value, P, n) /\ o.value.version > 0
    /\ o.at = "ok" => Confirmed(o, c)
    /\ o.kind = "attach" => o.by \in CallWorkers /\ P[o.by] # "none"
    /\ o.kind = "confirm" => o.by \in CallWorkers /\ P[o.by] = "ended"

\* The provider is asked by the worker that has claimed the creation; while
\* its lease is live, the record runs at least as long.
HostGood(w, c, at, prov, l) ==
    /\ prov \in {"none", "running", "ended"}
    /\ prov # "none" \/ at \in {"dial", "attach"} => c.version > 0 /\ c.worker = w /\ c.started
    /\ prov # "none" => at \in {"attach", "connected", "stopped"}
    /\ at = "attach" => prov # "none"
    /\ l \in [live : BOOLEAN, closed : BOOLEAN, deadline : Int, beats : Nat]
    /\ l.live => c.version > 0 /\ c.worker = w /\ l.deadline <= c.lease
OwnersGood(O, at) ==
    /\ \A w \in CallWorkers : O[w].at # "idle" =>
         O[w].kind = at[w] /\ O[w].by = w /\ at[w] \in {"admit", "renew", "begin", "attach"}
    /\ \A w \in CallWorkers : O[BeatOf[w]].at # "idle" => O[BeatOf[w]].kind = "renew" /\ O[BeatOf[w]].by = w
    /\ \A e \in Enders : O[e].at # "idle" => O[e].kind \in {"end", "confirm"}
Maps ==
    /\ op = [a \in Calls!Actors |-> op[a]] /\ pc = [a \in CallWorkers \cup Enders |-> pc[a]]
    /\ lease = [w \in CallWorkers |-> lease[w]] /\ provider = [w \in CallWorkers |-> provider[w]]

CallsInv ==
    /\ clock \in Nat /\ Maps
    /\ CallGood(call, provider, clock)
    /\ \A a \in Calls!Actors : UpdateGood(op[a], call, provider, clock)
    /\ \A w \in CallWorkers : HostGood(w, call, pc[w], provider[w], lease[w])
    /\ OwnersGood(op, pc)

LEMMA CallsInvImplies == CallsInv => Calls!CallTruthful
  <1> SUFFICES ASSUME CallsInv PROVE Calls!CallTruthful OBVIOUS
  <1>1. Calls!ProviderCallTruthful
    <2>1. \A w \in CallWorkers : provider[w] # "none" => call.worker = w /\ call.started
      BY DEF CallsInv, HostGood
    <2>2. call.status = "ended" => \A w \in CallWorkers : provider[w] # "running"
      <3> SUFFICES ASSUME call.status = "ended", NEW w \in CallWorkers, provider[w] = "running" PROVE FALSE
        OBVIOUS
      <3>1. call.worker = w /\ call.started BY <2>1
      <3>2. call.ref = w /\ provider[call.ref] = "ended" BY <3>1 DEF CallsInv, CallGood
      <3> QED BY <3>2
    <2> QED BY <2>1, <2>2 DEF Calls!ProviderCallTruthful
  <1>2. Calls!LeaseCoversWork
    <2> SUFFICES ASSUME NEW w \in CallWorkers, lease[w].live, lease[w].deadline > clock
                 PROVE  call.worker = w /\ call.lease > clock
      BY DEF Calls!LeaseCoversWork
    <2> QED BY DEF CallsInv, HostGood, CallGood, CallRecord
  <1> QED BY <1>1, <1>2 DEF Calls!CallTruthful

\* Replies and requests do not spoil: the provider's calls only go on, the
\* clock too.
GoesOn(P, Q) == \A w \in CallWorkers : /\ P[w] # "none" => Q[w] # "none"
                                       /\ P[w] = "ended" => Q[w] = "ended"

LEMMA SucceedsRefl == ASSUME NEW c \in CallRecord PROVE Succeeds(c, c)
  BY DEF Succeeds, CallRecord

LEMMA CallKeeps ==
    ASSUME NEW c, NEW P, NEW Q, NEW n \in Nat, NEW m \in Nat, CallGood(c, P, n), GoesOn(P, Q), n <= m,
           CallActors
    PROVE  CallGood(c, Q, m)
  <1>1. c \in CallRecord /\ c.lease <= m + LeaseTime BY DEF CallGood, CallRecord, CallActors
  <1>2. c.ref # "none" => c.ref \in CallWorkers BY <1>1 DEF CallRecord
  <1> QED BY <1>1, <1>2 DEF CallGood, GoesOn

LEMMA UpdateKeeps ==
    ASSUME NEW o, NEW c \in CallRecord, NEW d \in CallRecord, NEW P, NEW Q, NEW n \in Nat, NEW m \in Nat,
           UpdateGood(o, c, P, n), GoesOn(P, Q), n <= m, CallActors,
           Succeeds(c, d), d = c \/ d.version > c.version
    PROVE  UpdateGood(o, d, Q, m)
  <1>1. o \in CallUpdate /\ o.value \in CallRecord BY DEF UpdateGood, CallUpdate
  <1>2. CallGood(o.value, P, n) => CallGood(o.value, Q, m) BY CallKeeps
  <1>3. o.at = "write" /\ o.kind # "admit" => Pending(o, d, Q, m)
    <2> SUFFICES ASSUME o.at = "write", o.kind # "admit" PROVE Pending(o, d, Q, m) OBVIOUS
    <2>1. Pending(o, c, P, n) BY DEF UpdateGood
    <2>2. CASE d = c BY <1>2, <2>1, <2>2 DEF Pending
    <2>3. CASE d.version > c.version
      <3>1. o.value.version < d.version BY <1>1, <2>1, <2>3 DEF Pending, CallRecord
      <3> QED BY <1>1, <2>1, <3>1 DEF Pending, CallRecord
    <2> QED BY <2>2, <2>3
  <1>4. o.at = "ok" => Confirmed(o, d)
    <2> SUFFICES ASSUME o.at = "ok" PROVE Confirmed(o, d) OBVIOUS
    <2>1. Confirmed(o, c) BY DEF UpdateGood
    <2> QED BY <1>1, <2>1 DEF Confirmed, Succeeds, CallRecord
  <1>5. /\ o.kind = "attach" => o.by \in CallWorkers /\ Q[o.by] # "none"
        /\ o.kind = "confirm" => o.by \in CallWorkers /\ Q[o.by] = "ended"
    BY DEF UpdateGood, GoesOn
  <1> QED BY <1>1, <1>2, <1>3, <1>4, <1>5 DEF UpdateGood

LEMMA HostKeeps ==
    ASSUME NEW w, NEW c \in CallRecord, NEW d \in CallRecord, NEW at, NEW prov, NEW l,
           HostGood(w, c, at, prov, l), Succeeds(c, d)
    PROVE  HostGood(w, d, at, prov, l)
  BY DEF HostGood, Succeeds, CallRecord

\* A step of an update of the record.
LEMMA UpdateAssembles ==
    ASSUME CallsInv, CallActors, NEW a \in Calls!Actors, NEW o,
           op' = [op EXCEPT ![a] = o], op[a].at # "idle", o.kind = op[a].kind, o.by = op[a].by,
           UNCHANGED <<clock, pc, lease, provider>>,
           CallGood(call', provider, clock), Succeeds(call, call'), call' = call \/ call'.version > call.version,
           UpdateGood(o, call', provider, clock)
    PROVE  CallsInv'
  <1>1. op' = [b \in Calls!Actors |-> op'[b]] /\ \A b \in Calls!Actors : op'[b] = IF b = a THEN o ELSE op[b]
    BY DEF CallsInv, Maps
  <1>2. call \in CallRecord /\ call' \in CallRecord BY DEF CallsInv, CallGood
  <1>3. GoesOn(provider, provider) BY DEF GoesOn
  <1>4. \A b \in Calls!Actors : UpdateGood(op'[b], call', provider', clock')
    <2> SUFFICES ASSUME NEW b \in Calls!Actors PROVE UpdateGood(op'[b], call', provider, clock) OBVIOUS
    <2>1. CASE b = a BY <1>1, <2>1
    <2>2. CASE b # a
      <3>1. UpdateGood(op[b], call, provider, clock) /\ op'[b] = op[b] /\ clock \in Nat /\ clock <= clock
        BY <1>1, <2>2 DEF CallsInv
      <3> QED BY <1>2, <1>3, <3>1, UpdateKeeps
    <2> QED BY <2>1, <2>2
  <1>5. \A w \in CallWorkers : HostGood(w, call', pc'[w], provider'[w], lease'[w])
    BY <1>2, HostKeeps DEF CallsInv
  <1>6. OwnersGood(op', pc')
    <2>1. \A b \in Calls!Actors : op'[b].at # "idle" =>
            op[b].at # "idle" /\ op'[b].kind = op[b].kind /\ op'[b].by = op[b].by
      BY <1>1
    <2>2. \A w \in CallWorkers : w \in Calls!Actors /\ BeatOf[w] \in Calls!Actors BY DEF Calls!Actors
    <2>3. \A e \in Enders : e \in Calls!Actors BY DEF Calls!Actors
    <2> QED BY <2>1, <2>2, <2>3 DEF CallsInv, OwnersGood
  <1> QED BY <1>1, <1>4, <1>5, <1>6 DEF CallsInv, Maps

LEMMA SnapshotGood ==
    ASSUME CallsInv, CallActors
    PROVE  /\ CallGood(Calls!Snapshot, provider, clock) /\ Succeeds(call, Calls!Snapshot)
           /\ Calls!Snapshot.version = call.version /\ Calls!Snapshot.worker = call.worker
           /\ Calls!Snapshot.ref = call.ref /\ Calls!Snapshot.lease = call.lease
  <1> DEFINE u == [call EXCEPT !.status = "uncertain"]
  <1>1. Calls!Snapshot \in {call, u} BY DEF Calls!Snapshot
  <1>2. call \in CallRecord /\ CallGood(call, provider, clock) BY DEF CallsInv, CallGood
  <1>3. u \in CallRecord BY <1>2 DEF CallRecord, CallStatus
  <1>4. /\ u.status = "uncertain" /\ u.version = call.version /\ u.worker = call.worker
        /\ u.ref = call.ref /\ u.lease = call.lease /\ u.started = call.started
    BY <1>2 DEF CallRecord
  <1> HIDE DEF u
  <1>5. CallGood(u, provider, clock) BY <1>2, <1>3, <1>4 DEF CallGood
  <1>6. Succeeds(call, u) /\ Succeeds(call, call) BY <1>2, <1>4 DEF Succeeds, CallRecord
  <1> QED BY <1>1, <1>2, <1>4, <1>5, <1>6

\* What the store makes of a record: one that is good, and succeeds it.
LEMMA ChangeGood ==
    ASSUME CallActors, NEW o \in CallUpdate, NEW s, NEW P, CallGood(s, P, clock), clock \in Nat, s.version > 0,
           o.kind = "attach" => o.by \in CallWorkers /\ P[o.by] # "none",
           o.kind = "confirm" => o.by \in CallWorkers /\ P[o.by] = "ended",
           NEW d \in Calls!Change(o, s)
    PROVE  /\ CallGood(d, P, clock) /\ Succeeds(s, d) /\ d.version = s.version
           /\ o.kind = "begin" => d # s /\ d.started /\ d.worker = o.by
           /\ o.kind = "renew" => d.worker = o.by
  <1>1. s \in CallRecord /\ "none" \notin CallWorkers /\ LeaseTime \in Nat BY DEF CallGood, CallActors
  <1>2. CASE o.kind = "begin"
    <2>1. d = [s EXCEPT !.status = "starting", !.started = TRUE] /\ s.worker = o.by /\ s.status = "admitted"
      BY <1>2 DEF Calls!Change, Calls!BeginCreation
    <2>2. d \in CallRecord BY <1>1, <2>1 DEF CallRecord, CallStatus
    <2>3. /\ d.status = "starting" /\ d.started /\ d.ref = s.ref /\ d.worker = s.worker
          /\ d.lease = s.lease /\ d.version = s.version
      BY <1>1, <2>1 DEF CallRecord
    <2>4. CallGood(d, P, clock) BY <2>2, <2>3 DEF CallGood
    <2>5. Succeeds(s, d) BY <1>1, <2>3 DEF Succeeds, CallRecord
    <2>6. d # s BY <2>1, <2>3
    <2> QED BY <1>2, <2>1, <2>3, <2>4, <2>5, <2>6
  <1>3. CASE o.kind = "attach"
    <2> DEFINE x == IF s.status = "starting" THEN "active" ELSE s.status
    <2>1. d = [s EXCEPT !.ref = o.by, !.status = x] /\ s.worker = o.by /\ s.started /\ s.ref \in {"none", o.by}
      BY <1>3 DEF Calls!Change, Calls!AttachProviderCall
    <2>2. x \in CallStatus /\ (x = "ended" => s.status = "ended") BY <1>1 DEF CallRecord, CallStatus
    <2> HIDE DEF x
    <2>3. d \in CallRecord BY <1>1, <1>3, <2>1, <2>2 DEF CallRecord
    <2>4. /\ d.status = x /\ d.started /\ d.ref = o.by /\ d.worker = s.worker
          /\ d.lease = s.lease /\ d.version = s.version
      BY <1>1, <2>1 DEF CallRecord
    <2>5. CallGood(d, P, clock) BY <1>1, <1>3, <2>1, <2>2, <2>3, <2>4 DEF CallGood
    <2>6. Succeeds(s, d) BY <1>1, <2>1, <2>4 DEF Succeeds, CallRecord
    <2> QED BY <1>3, <2>4, <2>5, <2>6
  <1>4. CASE o.kind = "renew"
    <2>1. d = [s EXCEPT !.lease = clock + LeaseTime] /\ s.worker = o.by
      BY <1>4 DEF Calls!Change, Calls!RenewLease
    <2>2. d \in CallRecord BY <1>1, <2>1 DEF CallRecord
    <2>3. /\ d.status = s.status /\ d.started = s.started /\ d.ref = s.ref /\ d.worker = s.worker
          /\ d.lease = clock + LeaseTime /\ d.version = s.version
      BY <1>1, <2>1 DEF CallRecord
    <2>4. CallGood(d, P, clock) BY <1>1, <2>2, <2>3 DEF CallGood
    <2>5. Succeeds(s, d) BY <1>1, <2>3 DEF Succeeds, CallGood, CallRecord
    <2> QED BY <1>4, <2>1, <2>3, <2>4, <2>5
  <1>5. CASE o.kind \in {"end", "confirm"}
    <2>1. \E x \in {"ended", "ending"} :
            /\ d = [s EXCEPT !.status = x]
            /\ x = "ending" => s.started
            /\ x = "ended" /\ s.started => s.status = "ended" \/ (s.ref # "none" /\ P[s.ref] = "ended")
      BY <1>1, <1>5 DEF Calls!Change, Calls!RequestEnd, Calls!ConfirmEnded
    <2>2. PICK x \in {"ended", "ending"} :
            /\ d = [s EXCEPT !.status = x]
            /\ x = "ending" => s.started
            /\ x = "ended" /\ s.started => s.status = "ended" \/ (s.ref # "none" /\ P[s.ref] = "ended")
      BY <2>1
    <2>3. d = [s EXCEPT !.status = x] BY <2>2
    <2>4. d \in CallRecord BY <1>1, <2>3 DEF CallRecord, CallStatus
    <2>5. /\ d.status = x /\ d.started = s.started /\ d.ref = s.ref /\ d.worker = s.worker
          /\ d.lease = s.lease /\ d.version = s.version
      BY <1>1, <2>3 DEF CallRecord
    <2>6. CallGood(d, P, clock) BY <1>1, <2>2, <2>4, <2>5 DEF CallGood
    <2>7. Succeeds(s, d) BY <1>1, <2>5 DEF Succeeds, CallRecord
    <2> QED BY <1>5, <2>5, <2>6, <2>7
  <1>6. CASE o.kind \in {"none", "admit"} BY <1>6 DEF Calls!Change
  <1> QED BY <1>2, <1>3, <1>4, <1>5, <1>6 DEF CallUpdate

LEMMA NoCallGood == CallActors => /\ Calls!NoCall \in CallRecord /\ Calls!NoCall.ref = "none"
                                  /\ Calls!NoCall.version = 0
  BY DEF Calls!NoCall, CallRecord, CallStatus

\* An update that is answered: a failure says nothing.
LEMMA FailedGood ==
    ASSUME NEW o, NEW c, NEW P, NEW n, UpdateGood(o, c, P, n), NEW v \in CallRecord
    PROVE  LET x == [o EXCEPT !.at = "failed", !.value = v]
           IN  UpdateGood(x, c, P, n) /\ x.kind = o.kind /\ x.by = o.by
  <1> DEFINE x == [o EXCEPT !.at = "failed", !.value = v]
  <1>1. x \in CallUpdate BY DEF UpdateGood, CallUpdate
  <1>2. x.at = "failed" /\ x.kind = o.kind /\ x.by = o.by BY DEF UpdateGood, CallUpdate
  <1> HIDE DEF x
  <1>3. UpdateGood(x, c, P, n) BY <1>1, <1>2 DEF UpdateGood
  <1> QED BY <1>2, <1>3 DEF x

LEMMA AnsweredGood ==
    ASSUME NEW o, NEW c, NEW P, NEW n, UpdateGood(o, c, P, n), NEW v \in CallRecord,
           o.kind = "begin" => c.version > 0 /\ c.started /\ c.worker = o.by,
           o.kind = "renew" => c.version > 0 /\ c.worker = o.by /\ v.lease <= c.lease,
           v.ref # "none" => c.version > 0 /\ c.ref = v.ref
    PROVE  LET x == [o EXCEPT !.at = "ok", !.value = v]
           IN  UpdateGood(x, c, P, n) /\ x.kind = o.kind /\ x.by = o.by
  <1> DEFINE x == [o EXCEPT !.at = "ok", !.value = v]
  <1>1. x \in CallUpdate BY DEF UpdateGood, CallUpdate
  <1>2. x.at = "ok" /\ x.value = v /\ x.kind = o.kind /\ x.by = o.by BY DEF UpdateGood, CallUpdate
  <1> HIDE DEF x
  <1>3. Confirmed(x, c) BY <1>2 DEF Confirmed
  <1>4. UpdateGood(x, c, P, n) BY <1>1, <1>2, <1>3 DEF UpdateGood
  <1> QED BY <1>2, <1>4 DEF x

LEMMA UpdateReadsStep ==
    ASSUME CallsInv, CallActors, NEW a \in Calls!Actors, Calls!UpdateReads(a)
    PROVE  CallsInv'
  <1> DEFINE s == Calls!Snapshot
             changes == IF call.version = 0 THEN {} ELSE Calls!Change(op[a], s)
             f == Calls!Answered(op[a], FALSE, Calls!NoCall)
             g == Calls!Answered(op[a], TRUE, s)
             h == [op[a] EXCEPT !.at = "write", !.value = CHOOSE c \in changes : TRUE]
  <1>1. UNCHANGED <<clock, pc, lease, provider, call>> /\ op[a].at # "idle" /\ op[a].at = "read" /\ op[a].kind # "admit"
    BY DEF Calls!UpdateReads
  <1>2. \/ op' = [op EXCEPT ![a] = f]
        \/ op' = [op EXCEPT ![a] = g] /\ s \in changes
        \/ op' = [op EXCEPT ![a] = h] /\ changes # {}
    BY DEF Calls!UpdateReads
  <1>3. /\ UpdateGood(op[a], call, provider, clock) /\ CallGood(call, provider, clock) /\ call \in CallRecord
        /\ clock \in Nat
    BY DEF CallsInv, CallGood
  <1>4. /\ CallGood(s, provider, clock) /\ Succeeds(call, s) /\ s.version = call.version
        /\ s.worker = call.worker /\ s.ref = call.ref /\ s.lease = call.lease /\ s \in CallRecord
    BY SnapshotGood DEF CallGood
  <1>5. Succeeds(call, call) BY <1>3, SucceedsRefl
  <1>6. \A d \in changes : /\ call.version > 0
                           /\ CallGood(d, provider, clock) /\ Succeeds(s, d) /\ d.version = s.version
                           /\ op[a].kind = "begin" => d # s /\ d.started /\ d.worker = op[a].by
                           /\ op[a].kind = "renew" => d.worker = op[a].by
    <2> SUFFICES ASSUME NEW d \in changes
                 PROVE  /\ call.version > 0
                        /\ CallGood(d, provider, clock) /\ Succeeds(s, d) /\ d.version = s.version
                        /\ op[a].kind = "begin" => d # s /\ d.started /\ d.worker = op[a].by
                        /\ op[a].kind = "renew" => d.worker = op[a].by
      OBVIOUS
    <2>1. call.version > 0 /\ d \in Calls!Change(op[a], s) BY <1>3 DEF CallRecord
    <2>2. /\ op[a] \in CallUpdate
          /\ op[a].kind = "attach" => op[a].by \in CallWorkers /\ provider[op[a].by] # "none"
          /\ op[a].kind = "confirm" => op[a].by \in CallWorkers /\ provider[op[a].by] = "ended"
      BY <1>3 DEF UpdateGood
    <2> HIDE DEF changes, s
    <2> QED BY <1>3, <1>4, <2>1, <2>2, ChangeGood
  <1> HIDE DEF s, changes, f, g, h
  <1>7. CASE op' = [op EXCEPT ![a] = f]
    <2>1. f = [op[a] EXCEPT !.at = "failed", !.value = Calls!NoCall] BY DEF f, Calls!Answered
    <2>2. UpdateGood(f, call, provider, clock) /\ f.kind = op[a].kind /\ f.by = op[a].by
      BY <1>3, <2>1, FailedGood, NoCallGood
    <2> QED BY <1>1, <1>3, <1>5, <1>7, <2>2, UpdateAssembles
  <1>8. CASE op' = [op EXCEPT ![a] = g] /\ s \in changes
    <2>1. /\ op[a].kind = "begin" => call.version > 0 /\ call.started /\ call.worker = op[a].by
          /\ op[a].kind = "renew" => call.version > 0 /\ call.worker = op[a].by /\ s.lease <= call.lease
          /\ s.ref # "none" => call.version > 0 /\ call.ref = s.ref
      BY <1>3, <1>4, <1>6, <1>8 DEF CallRecord
    <2>2. g = [op[a] EXCEPT !.at = "ok", !.value = s] BY DEF g, Calls!Answered
    <2>3. UpdateGood(g, call, provider, clock) /\ g.kind = op[a].kind /\ g.by = op[a].by
      <3>1. UpdateGood(op[a], call, provider, clock) /\ s \in CallRecord BY <1>3, <1>4
      <3>2. LET x == [op[a] EXCEPT !.at = "ok", !.value = s]
            IN  UpdateGood(x, call, provider, clock) /\ x.kind = op[a].kind /\ x.by = op[a].by
        BY <2>1, <3>1, AnsweredGood
      <3> QED BY <2>2, <3>2
    <2> QED BY <1>1, <1>3, <1>5, <1>8, <2>3, UpdateAssembles
  <1>9. CASE op' = [op EXCEPT ![a] = h] /\ changes # {}
    <2> DEFINE d == CHOOSE c \in changes : TRUE
    <2>1. d \in changes BY <1>9
    <2> HIDE DEF d
    <2>2. h = [op[a] EXCEPT !.at = "write", !.value = d] BY DEF h, d
    <2>3. d \in CallRecord BY <1>6, <2>1 DEF CallGood
    <2>4. h \in CallUpdate BY <1>3, <2>2, <2>3 DEF UpdateGood, CallUpdate
    <2>5. h.at = "write" /\ h.value = d /\ h.kind = op[a].kind /\ h.by = op[a].by
      BY <1>3, <2>2 DEF UpdateGood, CallUpdate
    <2>6. Succeeds(call, d) BY <1>3, <1>4, <1>6, <2>1, <2>3 DEF Succeeds, CallRecord
    <2>7. Pending(h, call, provider, clock)
      BY <1>3, <1>4, <1>6, <2>1, <2>3, <2>5, <2>6 DEF Pending, CallRecord
    <2>8. UpdateGood(h, call, provider, clock) BY <1>1, <1>3, <2>4, <2>5, <2>7 DEF UpdateGood
    <2> QED BY <1>1, <1>3, <1>5, <1>9, <2>5, <2>8, UpdateAssembles
  <1> QED BY <1>2, <1>7, <1>8, <1>9

LEMMA UpdateWritesStep ==
    ASSUME CallsInv, CallActors, NEW a \in Calls!Actors, Calls!UpdateWrites(a)
    PROVE  CallsInv'
  <1> DEFINE v == op[a].value
  <1>1. UNCHANGED <<clock, pc, lease, provider>> /\ op[a].at # "idle" /\ op[a].at = "write" /\ op[a].kind # "admit"
    BY DEF Calls!UpdateWrites
  <1>2. /\ UpdateGood(op[a], call, provider, clock) /\ CallGood(call, provider, clock) /\ call \in CallRecord
        /\ clock \in Nat /\ clock <= clock /\ v \in CallRecord
    BY DEF CallsInv, CallGood, UpdateGood, CallUpdate
  <1>3. Pending(op[a], call, provider, clock) BY <1>1, <1>2 DEF UpdateGood
  <1>4. CASE v.version = call.version
    <2> DEFINE c == [v EXCEPT !.version = v.version + 1]
               y == [op[a] EXCEPT !.at = "ok", !.value = c]
               f == [op[a] EXCEPT !.at = "failed", !.value = c]
    <2>1. call' = c /\ (op' = [op EXCEPT ![a] = y] \/ op' = [op EXCEPT ![a] = f])
      BY <1>4 DEF Calls!UpdateWrites, Calls!Answered
    <2>2. c \in CallRecord BY <1>2 DEF CallRecord
    <2>3. /\ c.version = v.version + 1 /\ c.worker = v.worker /\ c.started = v.started /\ c.ref = v.ref
          /\ c.lease = v.lease /\ c.status = v.status
      BY <1>2 DEF CallRecord
    <2> HIDE DEF c
    <2>4. CallGood(v, provider, clock) /\ Succeeds(call, v) /\ v.version > 0 BY <1>3, <1>4 DEF Pending
    <2>5. CallGood(c, provider, clock) BY <1>2, <2>2, <2>3, <2>4 DEF CallGood, CallRecord
    <2>6. Succeeds(call, c) /\ c.version > call.version /\ c.version > 0
      BY <1>2, <1>4, <2>2, <2>3, <2>4 DEF Succeeds, CallRecord
    <2>7. GoesOn(provider, provider) BY DEF GoesOn
    <2>8. UpdateGood(op[a], c, provider, clock) BY <1>2, <2>2, <2>6, <2>7, UpdateKeeps
    <2>9. /\ op[a].kind = "begin" => c.version > 0 /\ c.started /\ c.worker = op[a].by
          /\ op[a].kind = "renew" => c.version > 0 /\ c.worker = op[a].by /\ c.lease <= c.lease
          /\ c.ref # "none" => c.version > 0 /\ c.ref = c.ref
      BY <1>3, <1>4, <2>2, <2>3, <2>6 DEF Pending, CallRecord
    <2>10. UpdateGood(y, c, provider, clock) /\ y.kind = op[a].kind /\ y.by = op[a].by
      BY <2>2, <2>8, <2>9, AnsweredGood
    <2>11. UpdateGood(f, c, provider, clock) /\ f.kind = op[a].kind /\ f.by = op[a].by
      BY <2>2, <2>8, FailedGood
    <2> HIDE DEF y, f
    <2>12. CASE op' = [op EXCEPT ![a] = y]
      BY <1>1, <2>1, <2>5, <2>6, <2>10, <2>12, UpdateAssembles
    <2>13. CASE op' = [op EXCEPT ![a] = f]
      BY <1>1, <2>1, <2>5, <2>6, <2>11, <2>13, UpdateAssembles
    <2> QED BY <2>1, <2>12, <2>13
  <1>5. CASE v.version # call.version
    <2> DEFINE g == [op[a] EXCEPT !.at = "read", !.tries = op[a].tries + 1]
               f == [op[a] EXCEPT !.at = "failed", !.value = Calls!NoCall]
    <2>1. call' = call /\ (op' = [op EXCEPT ![a] = g] \/ op' = [op EXCEPT ![a] = f])
      <3>1. /\ call' = call
            /\ op' = [op EXCEPT ![a] = IF op[a].tries + 1 < MaxAttempts THEN g
                                       ELSE Calls!Answered(op[a], FALSE, Calls!NoCall)]
        BY <1>5 DEF Calls!UpdateWrites
      <3> HIDE DEF g
      <3>2. CASE op[a].tries + 1 < MaxAttempts BY <3>1, <3>2
      <3>3. CASE ~(op[a].tries + 1 < MaxAttempts) BY <3>1, <3>3 DEF Calls!Answered
      <3> QED BY <3>2, <3>3
    <2>2. op[a].tries + 1 \in Nat BY <1>2 DEF UpdateGood, CallUpdate
    <2>3. g \in CallUpdate BY <1>2, <2>2 DEF UpdateGood, CallUpdate
    <2>4. g.at = "read" /\ g.kind = op[a].kind /\ g.by = op[a].by BY <1>2 DEF UpdateGood, CallUpdate
    <2> HIDE DEF g
    <2>5. UpdateGood(g, call, provider, clock) BY <1>2, <2>3, <2>4 DEF UpdateGood
    <2>6. UpdateGood(f, call, provider, clock) /\ f.kind = op[a].kind /\ f.by = op[a].by
      BY <1>2, FailedGood, NoCallGood
    <2>7. Succeeds(call, call) BY <1>2, SucceedsRefl
    <2> HIDE DEF f
    <2>8. CASE op' = [op EXCEPT ![a] = g] BY <1>1, <1>2, <2>1, <2>4, <2>5, <2>7, <2>8, UpdateAssembles
    <2>9. CASE op' = [op EXCEPT ![a] = f] BY <1>1, <1>2, <2>1, <2>6, <2>7, <2>9, UpdateAssembles
    <2> QED BY <2>1, <2>8, <2>9
  <1> QED BY <1>4, <1>5

LEMMA AdmitsStep ==
    ASSUME CallsInv, CallActors, NEW a \in Calls!Actors, Calls!Admits(a)
    PROVE  CallsInv'
  <1> DEFINE f == [op[a] EXCEPT !.at = "failed", !.value = Calls!NoCall]
  <1>1. UNCHANGED <<clock, pc, lease, provider>> /\ op[a].at # "idle" /\ op[a].kind = "admit"
    BY DEF Calls!Admits
  <1>2. /\ UpdateGood(op[a], call, provider, clock) /\ CallGood(call, provider, clock) /\ call \in CallRecord
        /\ clock \in Nat /\ clock <= clock /\ op[a].value \in CallRecord
    BY DEF CallsInv, CallGood, UpdateGood, CallUpdate
  <1>3. Succeeds(call, call) BY <1>2, SucceedsRefl
  <1>4. CASE op[a].at = "read"
    <2> DEFINE v == [Calls!NoCall EXCEPT !.status = "admitted", !.worker = a, !.lease = clock + LeaseTime, !.version = 1]
               h == [op[a] EXCEPT !.at = "write", !.value = v]
    <2>1. call' = call /\ (op' = [op EXCEPT ![a] = f] \/ op' = [op EXCEPT ![a] = h])
      BY <1>4 DEF Calls!Admits, Calls!Answered
    <2>2. UpdateGood(f, call, provider, clock) /\ f.kind = op[a].kind /\ f.by = op[a].by
      BY <1>2, FailedGood, NoCallGood
    <2>3. a \in CallWorkers
      <3>1. op[a].kind = "admit" /\ op[a].at # "idle" BY <1>1
      <3>2. a \notin Enders /\ \A w \in CallWorkers : a # BeatOf[w] BY <3>1 DEF CallsInv, OwnersGood
      <3> QED BY <3>2 DEF Calls!Actors
    <2>4. v \in CallRecord
      <3> DEFINE n == clock + LeaseTime
      <3>1. n \in Int BY <1>2 DEF CallActors
      <3> HIDE DEF n
      <3>2. v = [Calls!NoCall EXCEPT !.status = "admitted", !.worker = a, !.lease = n, !.version = 1]
        BY DEF n
      <3> HIDE DEF v
      <3> QED BY <2>3, <3>1, <3>2, NoCallGood DEF CallRecord, CallStatus
    <2>5. /\ v.version = 1 /\ v.worker = a /\ v.ref = "none" /\ v.status = "admitted" /\ ~v.started
          /\ v.lease = clock + LeaseTime
      BY DEF Calls!NoCall
    <2> HIDE DEF v
    <2>6. CallGood(v, provider, clock) /\ v.version > 0
      BY <1>2, <2>3, <2>4, <2>5 DEF CallGood, CallActors, CallRecord
    <2>7. h \in CallUpdate BY <1>2, <2>4 DEF UpdateGood, CallUpdate
    <2>8. h.at = "write" /\ h.value = v /\ h.kind = op[a].kind /\ h.by = op[a].by
      BY <1>2 DEF UpdateGood, CallUpdate
    <2> HIDE DEF f, h
    <2>9. UpdateGood(h, call, provider, clock) BY <1>1, <2>6, <2>7, <2>8 DEF UpdateGood
    <2>10. CASE op' = [op EXCEPT ![a] = f] BY <1>1, <1>2, <1>3, <2>1, <2>2, <2>10, UpdateAssembles
    <2>11. CASE op' = [op EXCEPT ![a] = h] BY <1>1, <1>2, <1>3, <2>1, <2>8, <2>9, <2>11, UpdateAssembles
    <2> QED BY <2>1, <2>10, <2>11
  <1>5. CASE op[a].at = "write"
    <2> DEFINE c == IF call.version = 0 THEN op[a].value ELSE call
               y == [op[a] EXCEPT !.at = "ok", !.value = c]
               g == [op[a] EXCEPT !.at = "failed", !.value = c]
    <2>1. call' = c /\ (op' = [op EXCEPT ![a] = y] \/ op' = [op EXCEPT ![a] = g])
      BY <1>5 DEF Calls!Admits, Calls!Answered
    <2>2. c \in CallRecord /\ CallGood(c, provider, clock) BY <1>1, <1>2, <1>5 DEF UpdateGood
    <2>3. Succeeds(call, c) /\ (c = call \/ c.version > call.version) /\ c.version > 0
      BY <1>1, <1>2, <1>3, <1>5 DEF UpdateGood, Succeeds, CallRecord
    <2> HIDE DEF c
    <2>4. GoesOn(provider, provider) BY DEF GoesOn
    <2>5. UpdateGood(op[a], c, provider, clock) BY <1>2, <2>2, <2>3, <2>4, UpdateKeeps
    <2>6. UpdateGood(y, c, provider, clock) /\ y.kind = op[a].kind /\ y.by = op[a].by
      BY <1>1, <2>2, <2>3, <2>5, AnsweredGood
    <2>7. UpdateGood(g, c, provider, clock) /\ g.kind = op[a].kind /\ g.by = op[a].by
      BY <2>2, <2>5, FailedGood
    <2> HIDE DEF y, g
    <2>8. CASE op' = [op EXCEPT ![a] = y] BY <1>1, <2>1, <2>2, <2>3, <2>6, <2>8, UpdateAssembles
    <2>9. CASE op' = [op EXCEPT ![a] = g] BY <1>1, <2>1, <2>2, <2>3, <2>7, <2>9, UpdateAssembles
    <2> QED BY <2>1, <2>8, <2>9
  <1> QED BY <1>4, <1>5 DEF Calls!Admits

\* A step of a host: what it asks or hears changes one update.
LEMMA OwnersKept ==
    ASSUME CallActors, CallsInv, NEW a \in Calls!Actors, NEW o, op' = [op EXCEPT ![a] = o],
           \A v \in CallWorkers : v # a => pc'[v] = pc[v],
           o.at # "idle" =>
             /\ a \in CallWorkers =>
                  o.kind = pc'[a] /\ o.by = a /\ pc'[a] \in {"admit", "renew", "begin", "attach"}
             /\ \A w \in CallWorkers : a = BeatOf[w] => o.kind = "renew" /\ o.by = w
             /\ a \in Enders => o.kind \in {"end", "confirm"}
    PROVE  OwnersGood(op', pc')
  <1>1. \A b \in Calls!Actors : op'[b] = IF b = a THEN o ELSE op[b] BY DEF CallsInv, Maps
  <1>2. \A w \in CallWorkers : w \in Calls!Actors /\ BeatOf[w] \in Calls!Actors BY DEF Calls!Actors
  <1>3. \A e \in Enders : e \in Calls!Actors BY DEF Calls!Actors
  <1>4. OwnersGood(op, pc) BY DEF CallsInv
  <1>5. \A w \in CallWorkers : op'[w].at # "idle" =>
          op'[w].kind = pc'[w] /\ op'[w].by = w /\ pc'[w] \in {"admit", "renew", "begin", "attach"}
    BY <1>1, <1>2, <1>4 DEF OwnersGood
  <1>6. \A w \in CallWorkers : op'[BeatOf[w]].at # "idle" => op'[BeatOf[w]].kind = "renew" /\ op'[BeatOf[w]].by = w
    BY <1>1, <1>2, <1>4 DEF OwnersGood
  <1>7. \A e \in Enders : op'[e].at # "idle" => op'[e].kind \in {"end", "confirm"}
    BY <1>1, <1>3, <1>4 DEF OwnersGood
  <1> QED BY <1>5, <1>6, <1>7 DEF OwnersGood

LEMMA HostAssembles ==
    ASSUME CallsInv, CallActors, NEW a \in Calls!Actors, NEW o, op' = [op EXCEPT ![a] = o],
           UNCHANGED <<clock, call>>, pc' = [b \in CallWorkers \cup Enders |-> pc'[b]],
           lease' = [w \in CallWorkers |-> lease'[w]], provider' = [w \in CallWorkers |-> provider'[w]],
           GoesOn(provider, provider'), UpdateGood(o, call, provider', clock),
           \A w \in CallWorkers : HostGood(w, call, pc'[w], provider'[w], lease'[w]),
           OwnersGood(op', pc')
    PROVE  CallsInv'
  <1>1. op' = [b \in Calls!Actors |-> op'[b]] /\ \A b \in Calls!Actors : op'[b] = IF b = a THEN o ELSE op[b]
    BY DEF CallsInv, Maps
  <1>2. call \in CallRecord /\ clock \in Nat /\ clock <= clock BY DEF CallsInv, CallGood
  <1>3. Succeeds(call, call) BY <1>2, SucceedsRefl
  <1>4. \A b \in Calls!Actors : UpdateGood(op'[b], call', provider', clock')
    <2> SUFFICES ASSUME NEW b \in Calls!Actors PROVE UpdateGood(op'[b], call, provider', clock) OBVIOUS
    <2>1. CASE b = a BY <1>1, <2>1
    <2>2. CASE b # a
      <3>1. UpdateGood(op[b], call, provider, clock) /\ op'[b] = op[b] BY <1>1, <2>2 DEF CallsInv
      <3> QED BY <1>2, <1>3, <3>1, UpdateKeeps
    <2> QED BY <2>1, <2>2
  <1>5. CallGood(call', provider', clock') BY <1>2, CallKeeps DEF CallsInv
  <1> QED BY <1>1, <1>2, <1>4, <1>5 DEF CallsInv, Maps

LEMMA CalmGood ==
    ASSUME CallActors, NEW c, NEW P, NEW n
    PROVE  UpdateGood(Calls!Calm, c, P, n) /\ Calls!Calm.at = "idle"
  <1>1. Calls!Calm \in CallUpdate BY NoCallGood DEF Calls!Calm, CallUpdate
  <1>2. Calls!Calm.at = "idle" /\ Calls!Calm.kind = "none" BY DEF Calls!Calm
  <1> QED BY <1>1, <1>2 DEF UpdateGood

LEMMA AskGood ==
    ASSUME CallActors, NEW k \in {"admit", "renew", "begin", "attach", "end", "confirm"},
           NEW b \in CallWorkers \cup Enders, NEW c, NEW P, NEW n,
           k = "attach" => b \in CallWorkers /\ P[b] # "none",
           k = "confirm" => b \in CallWorkers /\ P[b] = "ended"
    PROVE  /\ UpdateGood(Calls!Ask(k, b), c, P, n) /\ Calls!Ask(k, b).kind = k /\ Calls!Ask(k, b).by = b
  <1> DEFINE x == Calls!Ask(k, b)
  <1>1. x = [Calls!Calm EXCEPT !.kind = k, !.by = b, !.at = "read"] BY DEF Calls!Ask
  <1>2. Calls!Calm \in CallUpdate BY CalmGood DEF UpdateGood
  <1> HIDE DEF x
  <1>3. x \in CallUpdate /\ x.kind = k /\ x.by = b /\ x.at = "read" BY <1>1, <1>2 DEF CallUpdate
  <1>4. UpdateGood(x, c, P, n) BY <1>3 DEF UpdateGood
  <1> QED BY <1>3, <1>4 DEF x

LEMMA CloseGood ==
    ASSUME NEW w, NEW c, NEW at, NEW prov, NEW l, HostGood(w, c, at, prov, l)
    PROVE  HostGood(w, c, at, prov, Calls!Close(l))
  <1> DEFINE x == Calls!Close(l)
  <1>1. x \in [live : BOOLEAN, closed : BOOLEAN, deadline : Int, beats : Nat] /\ ~x.live
    BY DEF HostGood, Calls!Close
  <1> HIDE DEF x
  <1> QED BY <1>1 DEF HostGood, x

LEMMA ArmGood ==
    ASSUME NEW w, NEW c \in CallRecord, NEW at, NEW prov, NEW l, HostGood(w, c, at, prov, l),
           NEW d \in Int, c.version > 0, c.worker = w, d <= c.lease
    PROVE  HostGood(w, c, at, prov, Calls!Arm(l, d))
  <1> DEFINE x == [l EXCEPT !.live = TRUE, !.deadline = d]
  <1>1. x \in [live : BOOLEAN, closed : BOOLEAN, deadline : Int, beats : Nat] /\ x.deadline = d
    BY DEF HostGood
  <1> HIDE DEF x
  <1>2. HostGood(w, c, at, prov, x) BY <1>1 DEF HostGood
  <1>3. Calls!Arm(l, d) \in {l, Calls!Close(l), x} BY DEF Calls!Arm, x
  <1> QED BY <1>2, <1>3, CloseGood

LEMMA HeartbeatStep ==
    ASSUME CallsInv, CallActors, NEW w \in CallWorkers, Calls!Heartbeat(w)
    PROVE  CallsInv'
  <1> DEFINE a == BeatOf[w]
             o == Calls!Ask("renew", w)
             l == [lease[w] EXCEPT !.beats = lease[w].beats + 1]
  <1>1. op' = [op EXCEPT ![a] = o] /\ lease' = [lease EXCEPT ![w] = l] /\ UNCHANGED <<clock, call, pc, provider>>
    BY DEF Calls!Heartbeat, CallsInv, Maps
  <1>2. a \in Calls!Actors /\ a \notin CallWorkers \cup Enders BY DEF Calls!Actors, CallActors
  <1>3. UpdateGood(o, call, provider, clock) /\ o.kind = "renew" /\ o.by = w BY AskGood
  <1>4. HostGood(w, call, pc[w], provider[w], lease[w]) BY DEF CallsInv
  <1>5. l \in [live : BOOLEAN, closed : BOOLEAN, deadline : Int, beats : Nat]
        /\ l.live = lease[w].live /\ l.deadline = lease[w].deadline
    BY <1>4 DEF HostGood
  <1> HIDE DEF l, o
  <1>6. HostGood(w, call, pc[w], provider[w], l) BY <1>4, <1>5 DEF HostGood
  <1>7. \A v \in CallWorkers : lease'[v] = IF v = w THEN l ELSE lease[v] BY <1>1 DEF CallsInv, Maps
  <1>8. \A v \in CallWorkers : HostGood(v, call, pc'[v], provider'[v], lease'[v])
    BY <1>1, <1>6, <1>7 DEF CallsInv
  <1>9. OwnersGood(op', pc')
    <2>1. \A v \in CallWorkers : a = BeatOf[v] => o.kind = "renew" /\ o.by = v BY <1>3 DEF CallActors
    <2> HIDE DEF a
    <2> QED BY <1>1, <1>2, <2>1, OwnersKept
  <1>10. GoesOn(provider, provider') BY <1>1 DEF GoesOn
  <1>11. lease' = [v \in CallWorkers |-> lease'[v]] /\ pc' = [b \in CallWorkers \cup Enders |-> pc'[b]]
         /\ provider' = [v \in CallWorkers |-> provider'[v]]
    BY <1>1 DEF CallsInv, Maps
  <1> HIDE DEF a
  <1> QED BY <1>1, <1>2, <1>3, <1>8, <1>9, <1>10, <1>11, HostAssembles

LEMMA HeartbeatReturnsStep ==
    ASSUME CallsInv, CallActors, NEW w \in CallWorkers, Calls!HeartbeatReturns(w)
    PROVE  CallsInv'
  <1> DEFINE a == BeatOf[w]
             l == IF op[a].at = "ok" THEN Calls!Arm(lease[w], op[a].value.lease) ELSE Calls!Close(lease[w])
  <1>1. op' = [op EXCEPT ![a] = Calls!Calm] /\ lease' = [lease EXCEPT ![w] = l] /\ UNCHANGED <<clock, call, pc, provider>>
    BY DEF Calls!HeartbeatReturns, CallsInv, Maps
  <1>2. a \in Calls!Actors /\ a \notin CallWorkers \cup Enders BY DEF Calls!Actors, CallActors
  <1>3. HostGood(w, call, pc[w], provider[w], lease[w]) /\ call \in CallRecord BY DEF CallsInv, CallGood
  <1>4. UpdateGood(op[a], call, provider, clock) /\ op[a].value.lease \in Int
    BY <1>2 DEF CallsInv, UpdateGood, CallUpdate, CallRecord
  <1>5. op[a].at = "ok" => call.version > 0 /\ call.worker = w /\ op[a].value.lease <= call.lease
    BY <1>4 DEF CallsInv, OwnersGood, UpdateGood, Confirmed
  <1>6. HostGood(w, call, pc[w], provider[w], l) BY <1>3, <1>4, <1>5, ArmGood, CloseGood
  <1> HIDE DEF l
  <1>7. \A v \in CallWorkers : lease'[v] = IF v = w THEN l ELSE lease[v] BY <1>1 DEF CallsInv, Maps
  <1>8. \A v \in CallWorkers : HostGood(v, call, pc'[v], provider'[v], lease'[v])
    BY <1>1, <1>6, <1>7 DEF CallsInv
  <1>9. UpdateGood(Calls!Calm, call, provider, clock) /\ Calls!Calm.at = "idle" BY CalmGood
  <1> HIDE DEF a
  <1>10. OwnersGood(op', pc') BY <1>1, <1>2, <1>9, OwnersKept
  <1>11. GoesOn(provider, provider') BY <1>1 DEF GoesOn
  <1>12. lease' = [v \in CallWorkers |-> lease'[v]] /\ pc' = [b \in CallWorkers \cup Enders |-> pc'[b]]
         /\ provider' = [v \in CallWorkers |-> provider'[v]]
    BY <1>1 DEF CallsInv, Maps
  <1> QED BY <1>1, <1>2, <1>8, <1>9, <1>10, <1>11, <1>12, HostAssembles

LEMMA WorkerAsksStep ==
    ASSUME CallsInv, CallActors, NEW w \in CallWorkers, Calls!WorkerAsks(w)
    PROVE  CallsInv'
  <1> DEFINE o == Calls!Ask(pc[w], w)
  <1>1. /\ op' = [op EXCEPT ![w] = o] /\ UNCHANGED <<clock, call, pc, lease, provider>>
        /\ pc[w] \in {"admit", "renew", "begin", "attach"}
    BY DEF Calls!WorkerAsks
  <1>2. w \in Calls!Actors /\ w \notin Enders /\ \A v \in CallWorkers : w # BeatOf[v] BY DEF Calls!Actors, CallActors
  <1>3. pc[w] = "attach" => provider[w] # "none" BY DEF CallsInv, HostGood
  <1>4. UpdateGood(o, call, provider, clock) /\ o.kind = pc[w] /\ o.by = w BY <1>1, <1>3, AskGood
  <1> HIDE DEF o
  <1>5. OwnersGood(op', pc') BY <1>1, <1>2, <1>4, OwnersKept
  <1>6. GoesOn(provider, provider') BY <1>1 DEF GoesOn
  <1>7. lease' = [v \in CallWorkers |-> lease'[v]] /\ pc' = [b \in CallWorkers \cup Enders |-> pc'[b]]
        /\ provider' = [v \in CallWorkers |-> provider'[v]]
    BY <1>1 DEF CallsInv, Maps
  <1>8. \A v \in CallWorkers : HostGood(v, call, pc'[v], provider'[v], lease'[v]) BY <1>1 DEF CallsInv
  <1> QED BY <1>1, <1>2, <1>4, <1>5, <1>6, <1>7, <1>8, HostAssembles

LEMMA WorkerHearsStep ==
    ASSUME CallsInv, CallActors, NEW w \in CallWorkers, Calls!WorkerHears(w)
    PROVE  CallsInv'
  <1> DEFINE goes == /\ op[w].at = "ok" /\ ~lease[w].closed
                     /\ op[w].kind = "attach" => op[w].value.status = "active"
             at == IF goes THEN Calls!Follows(op[w].kind) ELSE "stopped"
             l == IF goes /\ op[w].kind = "renew" THEN Calls!Arm(lease[w], op[w].value.lease)
                  ELSE IF goes THEN lease[w] ELSE Calls!Close(lease[w])
  <1>1. /\ op' = [op EXCEPT ![w] = Calls!Calm] /\ pc' = [pc EXCEPT ![w] = at] /\ lease' = [lease EXCEPT ![w] = l]
        /\ UNCHANGED <<clock, call, provider>> /\ op[w].at \in {"ok", "failed"}
    BY DEF Calls!WorkerHears
  <1>2. w \in Calls!Actors /\ w \notin Enders /\ \A v \in CallWorkers : w # BeatOf[v] BY DEF Calls!Actors, CallActors
  <1>3. HostGood(w, call, pc[w], provider[w], lease[w]) /\ call \in CallRecord BY DEF CallsInv, CallGood
  <1>4. UpdateGood(op[w], call, provider, clock) /\ op[w].value.lease \in Int
    BY <1>2 DEF CallsInv, UpdateGood, CallUpdate, CallRecord
  <1>5. op[w].kind = pc[w] /\ op[w].by = w /\ pc[w] \in {"admit", "renew", "begin", "attach"}
    BY <1>1 DEF CallsInv, OwnersGood
  <1>6. goes => Confirmed(op[w], call) BY <1>4 DEF UpdateGood
  <1>7. HostGood(w, call, at, provider[w], lease[w])
    <2>1. CASE ~goes
      <3>1. at = "stopped" BY <2>1
      <3> HIDE DEF at, goes
      <3> QED BY <1>3, <3>1 DEF HostGood
    <2>2. CASE goes
      <3>1. at = Calls!Follows(pc[w]) BY <1>5, <2>2
      <3>2. pc[w] = "begin" => call.version > 0 /\ call.started /\ call.worker = w
        BY <1>5, <1>6, <2>2 DEF Confirmed
      <3> HIDE DEF at, goes
      <3>3. \/ pc[w] \in {"admit", "renew"} /\ at \in {"renew", "begin"}
            \/ pc[w] = "begin" /\ at = "dial"
            \/ pc[w] = "attach" /\ at = "connected"
        BY <1>5, <3>1 DEF Calls!Follows
      <3> QED BY <1>3, <3>2, <3>3 DEF HostGood
    <2> QED BY <2>1, <2>2
  <1>8. HostGood(w, call, at, provider[w], l)
    <2>1. CASE goes /\ op[w].kind = "renew"
      <3>1. call.version > 0 /\ call.worker = w /\ op[w].value.lease <= call.lease
        BY <1>5, <1>6, <2>1 DEF Confirmed
      <3>2. l = Calls!Arm(lease[w], op[w].value.lease) BY <2>1
      <3> HIDE DEF l, at, goes
      <3> QED BY <1>3, <1>4, <1>7, <3>1, <3>2, ArmGood
    <2>2. CASE ~(goes /\ op[w].kind = "renew")
      <3>1. l = lease[w] \/ l = Calls!Close(lease[w]) BY <2>2
      <3> HIDE DEF l, at, goes
      <3> QED BY <1>7, <3>1, CloseGood
    <2> QED BY <2>1, <2>2
  <1> HIDE DEF goes, at, l
  <1>9. \A v \in CallWorkers : /\ lease'[v] = IF v = w THEN l ELSE lease[v]
                               /\ pc'[v] = IF v = w THEN at ELSE pc[v]
    BY <1>1 DEF CallsInv, Maps
  <1>10. \A v \in CallWorkers : HostGood(v, call, pc'[v], provider'[v], lease'[v])
    BY <1>1, <1>8, <1>9 DEF CallsInv
  <1>11. UpdateGood(Calls!Calm, call, provider, clock) /\ Calls!Calm.at = "idle" BY CalmGood
  <1>12. OwnersGood(op', pc') BY <1>1, <1>2, <1>9, <1>11, OwnersKept
  <1>13. GoesOn(provider, provider') BY <1>1 DEF GoesOn
  <1>14. lease' = [v \in CallWorkers |-> lease'[v]] /\ pc' = [b \in CallWorkers \cup Enders |-> pc'[b]]
         /\ provider' = [v \in CallWorkers |-> provider'[v]]
    BY <1>1 DEF CallsInv, Maps
  <1> QED BY <1>1, <1>2, <1>10, <1>11, <1>12, <1>13, <1>14, HostAssembles

LEMMA EnderAsksStep ==
    ASSUME CallsInv, CallActors, NEW e \in Enders, Calls!EnderAsks(e)
    PROVE  CallsInv'
  <1> DEFINE o == Calls!Ask("end", e)
  <1>1. op' = [op EXCEPT ![e] = o] /\ UNCHANGED <<clock, call, pc, lease, provider>> BY DEF Calls!EnderAsks
  <1>2. e \in Calls!Actors /\ e \notin CallWorkers /\ \A v \in CallWorkers : e # BeatOf[v]
    BY DEF Calls!Actors, CallActors
  <1>3. UpdateGood(o, call, provider, clock) /\ o.kind = "end" /\ o.by = e BY AskGood
  <1> HIDE DEF o
  <1>4. OwnersGood(op', pc') BY <1>1, <1>2, <1>3, OwnersKept
  <1>5. GoesOn(provider, provider') BY <1>1 DEF GoesOn
  <1>6. lease' = [v \in CallWorkers |-> lease'[v]] /\ pc' = [b \in CallWorkers \cup Enders |-> pc'[b]]
        /\ provider' = [v \in CallWorkers |-> provider'[v]]
    BY <1>1 DEF CallsInv, Maps
  <1>7. \A v \in CallWorkers : HostGood(v, call, pc'[v], provider'[v], lease'[v]) BY <1>1 DEF CallsInv
  <1> QED BY <1>1, <1>2, <1>3, <1>4, <1>5, <1>6, <1>7, HostAssembles

\* The provider ends the call that the record refers to.
LEMMA EnderHearsStep ==
    ASSUME CallsInv, CallActors, NEW e \in Enders, Calls!EnderHears(e)
    PROVE  CallsInv'
  <1> DEFINE ref == op[e].value.ref
  <1>1. /\ UNCHANGED <<clock, call, lease>> /\ pc' = [pc EXCEPT ![e] = @ - 1]
        /\ \/ op' = [op EXCEPT ![e] = Calls!Calm] /\ provider' = provider
           \/ /\ op' = [op EXCEPT ![e] = Calls!Ask("confirm", ref)] /\ provider' = [provider EXCEPT ![ref] = "ended"]
              /\ op[e].at = "ok" /\ ref # "none"
    BY DEF Calls!EnderHears
  <1>2. e \in Calls!Actors /\ e \notin CallWorkers /\ \A v \in CallWorkers : e # BeatOf[v]
    BY DEF Calls!Actors, CallActors
  <1>3. UpdateGood(op[e], call, provider, clock) /\ CallGood(call, provider, clock) /\ call \in CallRecord
    BY <1>2 DEF CallsInv, CallGood
  <1>4. \A v \in CallWorkers : pc'[v] = pc[v] BY <1>1, <1>2 DEF CallsInv, Maps
  <1>5. lease' = [v \in CallWorkers |-> lease'[v]] /\ pc' = [b \in CallWorkers \cup Enders |-> pc'[b]]
    BY <1>1 DEF CallsInv, Maps
  <1> HIDE DEF ref
  <1>6. CASE op' = [op EXCEPT ![e] = Calls!Calm] /\ provider' = provider
    <2>1. UpdateGood(Calls!Calm, call, provider, clock) /\ Calls!Calm.at = "idle" BY CalmGood
    <2>2. OwnersGood(op', pc') BY <1>2, <1>4, <1>6, <2>1, OwnersKept
    <2>3. GoesOn(provider, provider') /\ provider' = [v \in CallWorkers |-> provider'[v]]
      BY <1>6 DEF GoesOn, CallsInv, Maps
    <2>4. \A v \in CallWorkers : HostGood(v, call, pc'[v], provider'[v], lease'[v])
      BY <1>1, <1>4, <1>6 DEF CallsInv
    <2> QED BY <1>1, <1>2, <1>5, <1>6, <2>1, <2>2, <2>3, <2>4, HostAssembles
  <1>7. CASE /\ op' = [op EXCEPT ![e] = Calls!Ask("confirm", ref)] /\ provider' = [provider EXCEPT ![ref] = "ended"]
             /\ op[e].at = "ok" /\ ref # "none"
    <2>1. call.ref = ref BY <1>3, <1>7 DEF UpdateGood, Confirmed, ref
    <2>2. ref \in CallWorkers /\ provider[ref] # "none"
      BY <1>3, <1>7, <2>1 DEF CallGood, CallRecord
    <2>3. \A v \in CallWorkers : provider'[v] = IF v = ref THEN "ended" ELSE provider[v]
      BY <1>7, <2>2 DEF CallsInv, Maps
    <2>4. GoesOn(provider, provider') BY <2>2, <2>3 DEF GoesOn
    <2> DEFINE o == Calls!Ask("confirm", ref)
    <2>5. provider'[ref] = "ended" BY <2>2, <2>3
    <2>6. UpdateGood(o, call, provider', clock) /\ o.kind = "confirm" /\ o.by = ref BY <2>2, <2>5, AskGood
    <2> HIDE DEF o
    <2>7. op' = [op EXCEPT ![e] = o] BY <1>7 DEF o
    <2>8. OwnersGood(op', pc') BY <1>2, <1>4, <2>6, <2>7, OwnersKept
    <2>9. \A v \in CallWorkers : HostGood(v, call, pc'[v], provider'[v], lease'[v])
      <3> SUFFICES ASSUME NEW v \in CallWorkers PROVE HostGood(v, call, pc[v], provider'[v], lease[v])
        BY <1>1, <1>4
      <3>1. HostGood(v, call, pc[v], provider[v], lease[v]) BY DEF CallsInv
      <3> QED BY <2>2, <2>3, <3>1 DEF HostGood
    <2>10. provider' = [v \in CallWorkers |-> provider'[v]] BY <1>7 DEF CallsInv, Maps
    <2> QED BY <1>1, <1>2, <1>5, <2>4, <2>6, <2>7, <2>8, <2>9, <2>10, HostAssembles
  <1> QED BY <1>1, <1>6, <1>7

\* The watchdog, the call at the provider and the clock: no update changes.
LEMMA CallIdleStep ==
    ASSUME CallsInv, CallActors,
           Calls!Tick \/ \E w \in CallWorkers : Calls!Watchdog(w) \/ Calls!Dial(w)
    PROVE  CallsInv'
  <1>1. UNCHANGED <<call, op>> BY DEF Calls!Tick, Calls!Watchdog, Calls!Dial
  <1>2. clock \in Nat /\ clock' \in Nat /\ clock <= clock'
    BY DEF CallsInv, Calls!Tick, Calls!Watchdog, Calls!Dial
  <1>3. Maps'
    BY <1>1 DEF CallsInv, Maps, Calls!Actors, Calls!Tick, Calls!Watchdog, Calls!Dial
  <1>4. /\ GoesOn(provider, provider')
        /\ \A v \in CallWorkers : HostGood(v, call, pc'[v], provider'[v], lease'[v])
        /\ \A v \in CallWorkers : op[v].at # "idle" => pc'[v] = pc[v]
    <2>1. CASE Calls!Tick BY <2>1 DEF CallsInv, Calls!Tick, GoesOn
    <2>2. ASSUME NEW w \in CallWorkers, Calls!Watchdog(w)
          PROVE  /\ GoesOn(provider, provider')
                 /\ \A v \in CallWorkers : HostGood(v, call, pc'[v], provider'[v], lease'[v])
                 /\ \A v \in CallWorkers : op[v].at # "idle" => pc'[v] = pc[v]
      <3>1. lease' = [lease EXCEPT ![w] = Calls!Close(lease[w])] /\ UNCHANGED <<pc, provider>>
        BY <2>2 DEF Calls!Watchdog
      <3>2. \A v \in CallWorkers : lease'[v] = IF v = w THEN Calls!Close(lease[v]) ELSE lease[v]
        BY <3>1 DEF CallsInv, Maps
      <3>3. \A v \in CallWorkers : HostGood(v, call, pc[v], provider[v], lease[v]) BY DEF CallsInv
      <3> QED BY <3>1, <3>2, <3>3, CloseGood DEF GoesOn
    <2>3. ASSUME NEW w \in CallWorkers, Calls!Dial(w)
          PROVE  /\ GoesOn(provider, provider')
                 /\ \A v \in CallWorkers : HostGood(v, call, pc'[v], provider'[v], lease'[v])
                 /\ \A v \in CallWorkers : op[v].at # "idle" => pc'[v] = pc[v]
      <3>1. pc[w] = "dial" /\ UNCHANGED lease BY <2>3 DEF Calls!Dial
      <3>2. HostGood(w, call, pc[w], provider[w], lease[w]) BY DEF CallsInv
      <3>3. op[w].at = "idle" BY <3>1 DEF CallsInv, OwnersGood
      <3>4. PICK p, s : /\ provider' = [provider EXCEPT ![w] = p] /\ pc' = [pc EXCEPT ![w] = s]
                        /\ (p = "running" /\ s = "attach") \/ (p = provider[w] /\ s = "stopped")
        BY <2>3 DEF Calls!Dial
      <3>5. \A v \in CallWorkers : /\ provider'[v] = IF v = w THEN p ELSE provider[v]
                                   /\ pc'[v] = IF v = w THEN s ELSE pc[v]
        BY <3>4 DEF CallsInv, Maps
      <3>6. provider[w] = "none" BY <3>1, <3>2 DEF HostGood
      <3>7. HostGood(w, call, s, p, lease[w]) BY <3>1, <3>2, <3>4, <3>6 DEF HostGood
      <3>8. GoesOn(provider, provider') BY <3>5, <3>6 DEF GoesOn
      <3> QED BY <3>1, <3>3, <3>5, <3>7, <3>8 DEF CallsInv
    <2> QED BY <2>1, <2>2, <2>3
  <1>5. call \in CallRecord /\ CallGood(call, provider, clock) BY DEF CallsInv, CallGood
  <1>6. CallGood(call', provider', clock') BY <1>1, <1>2, <1>4, <1>5, CallKeeps
  <1>7. \A a \in Calls!Actors : UpdateGood(op'[a], call', provider', clock')
    <2> SUFFICES ASSUME NEW a \in Calls!Actors PROVE UpdateGood(op[a], call, provider', clock') BY <1>1
    <2>1. UpdateGood(op[a], call, provider, clock) /\ Succeeds(call, call)
      BY <1>5, SucceedsRefl DEF CallsInv
    <2> QED BY <1>2, <1>4, <1>5, <2>1, UpdateKeeps
  <1>8. OwnersGood(op', pc') BY <1>1, <1>4 DEF CallsInv, OwnersGood
  <1>9. Calls!Actors' = Calls!Actors BY DEF Calls!Actors
  <1> QED BY <1>1, <1>2, <1>3, <1>4, <1>6, <1>7, <1>8, <1>9 DEF CallsInv

LEMMA CallsStart == ASSUME CallActors, Calls!CallsInit PROVE CallsInv
  <1>1. /\ \A a \in Calls!Actors : op[a] = Calls!Calm
        /\ \A w \in CallWorkers : pc[w] = "admit" /\ lease[w] = Calls!Unarmed /\ provider[w] = "none"
    BY DEF Calls!CallsInit
  <1>2. Maps BY DEF Maps, Calls!CallsInit
  <1>3. CallGood(call, provider, clock) /\ clock \in Nat
    <2>1. call = Calls!NoCall /\ clock = 0 BY DEF Calls!CallsInit
    <2>2. /\ Calls!NoCall \in CallRecord /\ Calls!NoCall.ref = "none" /\ Calls!NoCall.version = 0
          /\ Calls!NoCall.status = "none" /\ Calls!NoCall.lease = 0
      BY NoCallGood DEF Calls!NoCall
    <2> QED BY <2>1, <2>2 DEF CallGood, CallActors
  <1>4. \A a \in Calls!Actors : UpdateGood(op[a], call, provider, clock) /\ op[a].at = "idle" BY <1>1, CalmGood
  <1>5. \A w \in CallWorkers : HostGood(w, call, pc[w], provider[w], lease[w])
    <2>1. Calls!Unarmed \in [live : BOOLEAN, closed : BOOLEAN, deadline : Int, beats : Nat] /\ ~Calls!Unarmed.live
      BY DEF Calls!Unarmed
    <2> QED BY <1>1, <2>1 DEF HostGood
  <1>6. OwnersGood(op, pc) BY <1>4 DEF OwnersGood, Calls!Actors
  <1> QED BY <1>2, <1>3, <1>4, <1>5, <1>6 DEF CallsInv

LEMMA CallsStay ==
    ASSUME CallsInv, CallActors, [Calls!CallsNext]_Calls!realtimeVars
    PROVE  CallsInv'
  <1>1. CASE UNCHANGED Calls!callVars
    <2>1. UNCHANGED <<clock, call, op, pc, lease, provider>> BY <1>1 DEF Calls!callVars
    <2> QED BY <2>1 DEF CallsInv, Maps, OwnersGood, Calls!Actors
  <1>2. CASE \E a \in Calls!Actors : Calls!CallStep(a)
    BY <1>2, UpdateReadsStep, UpdateWritesStep, AdmitsStep DEF Calls!CallStep
  <1>3. CASE \E w \in CallWorkers : \/ Calls!Heartbeat(w) \/ Calls!HeartbeatReturns(w) \/ Calls!Watchdog(w)
                                    \/ Calls!WorkerAsks(w) \/ Calls!WorkerHears(w) \/ Calls!Dial(w)
    BY <1>3, HeartbeatStep, HeartbeatReturnsStep, WorkerAsksStep, WorkerHearsStep, CallIdleStep
  <1>4. CASE \E e \in Enders : Calls!EnderAsks(e) \/ Calls!EnderHears(e)
    BY <1>4, EnderAsksStep, EnderHearsStep
  <1>5. CASE Calls!Tick BY <1>5, CallIdleStep
  <1>6. CASE \/ \E r \in Recorders : Calls!RecordReadsCall(r) \/ Calls!RecordReadsTool(r) \/ Calls!RecordWrites(r)
             \/ \E v \in Viewers : Calls!ReadState(v) \/ Calls!MarkReads(v) \/ Calls!MarkWrites(v)
             \/ Calls!SetConversations \/ Calls!Refresh \/ Calls!ReadsCall \/ Calls!ReadsCounts
             \/ Calls!RefreshReturns \/ Calls!DisposeMonitor
    <2>1. UNCHANGED Calls!callVars
      BY <1>6 DEF Calls!RecordReadsCall, Calls!RecordReadsTool, Calls!RecordWrites, Calls!ReadState,
         Calls!MarkReads, Calls!MarkWrites, Calls!SetConversations, Calls!Refresh, Calls!ReadsCall,
         Calls!ReadsCounts, Calls!RefreshReturns, Calls!DisposeMonitor
    <2> QED BY <1>1, <2>1
  <1> QED BY <1>1, <1>2, <1>3, <1>4, <1>5, <1>6 DEF Calls!CallsNext, Calls!realtimeVars

\* Whoever creates, renews and ends a realtime call, and whichever replies
\* of the store are lost or late: the provider is asked for one call at
\* most, a record that says "ended" has none running there, and a worker
\* whose lease lets it work is not read as uncertain (beginCreation, attach,
\* requestEnd, confirmEnded and renewLease of realtime-calls.ts), for any
\* workers, scenarios and lease time.
THEOREM CallsAreTruthful == ASSUME CallActors PROVE CallsSpec => []CallTruthful
  <1>1. Calls!CallsInit => CallsInv BY CallsStart
  <1>2. CallsInv /\ [Calls!CallsNext]_Calls!realtimeVars => CallsInv' BY CallsStay
  <1>3. CallsInv => Calls!CallTruthful BY CallsInvImplies
  <1> QED BY <1>1, <1>2, <1>3, PTL DEF CallsSpec, CallTruthful

\* What is read of the call's tools: a token names counts that only grow,
\* so the tokens that pages have displayed are in a line.
ToolsFinish ==
    /\ IsFiniteSet(ToolCalls)
    /\ \A x \in Scenarios : \A r \in Recorders : x.tool[r] \in ToolCalls /\ x.end[r] \in {"completed", "failed"}

TokenRecord == [version : Nat, total : Nat, completed : Nat, failed : Nat]
ToolRecord == [status : {"none", "running", "completed", "failed"}, version : Nat]
Below(t, u) == /\ t.version <= u.version /\ t.total <= u.total
               /\ t.completed <= u.completed /\ t.failed <= u.failed
Present == Calls!Token(call.version, Calls!Summary)

\* A row of a tool is inserted as running and ends once.
Proceeds(t, s) ==
    \/ t.version = 0 /\ s = "running"
    \/ t.version > 0 /\ t.status = "running" /\ s \in {"completed", "failed"}
RecorderGood(k, t) ==
    /\ k \in [at : {"idle", "again", "read", "write", "done"}, want : {"running", "completed", "failed"},
              tries : Nat, call : CallStatus, status : {"none", "running", "completed", "failed"}, version : Nat]
    /\ k.at = "write" => k.version <= t.version /\ (k.version = t.version => Proceeds(t, k.status))
ToolsGood ==
    /\ scenario \in Scenarios
    /\ tool \in [ToolCalls -> ToolRecord]
    /\ recorder = [r \in Recorders |-> recorder[r]]
    /\ \A r \in Recorders : RecorderGood(recorder[r], tool[scenario.tool[r]])
ShownGood ==
    /\ displayed \subseteq TokenRecord
    /\ \A t \in displayed : t.version > 0 /\ Below(t, Present)
    /\ \A t, u \in displayed : Below(t, u) \/ Below(u, t)
PageGood(v) ==
    /\ v \in [at : {"idle", "shown", "write"}, token : TokenRecord, saved : Nat, next : TokenRecord]
    /\ v.at # "idle" => v.token \in displayed
    /\ v.at = "write" => v.next \in displayed
MarksGood ==
    /\ marker \in [version : Nat, token : TokenRecord] /\ marker.token \in displayed \cup {Calls!NoToken}
    /\ page = [v \in Viewers |-> page[v]] /\ \A v \in Viewers : PageGood(page[v])

\* A read of the monitor is of the selection under which it began.
MonitorView == [status : CallStatus, counts : TokenRecord]
MonitorGood ==
    /\ monitor \in [selected : BOOLEAN, generation : Nat, view : MonitorView, at : {"idle", "call", "counts", "page"},
                    of : Nat, read : MonitorView, regressed : BOOLEAN, disposed : BOOLEAN]
    /\ monitor.of <= monitor.generation
    /\ monitor.view # Calls!NoView => monitor.selected
    /\ monitor.of = monitor.generation /\ monitor.at # "idle"
       /\ (monitor.read # Calls!NoView \/ monitor.at = "counts") => monitor.selected

ReadInv ==
    /\ call.started => call.version > 0
    /\ ToolsGood /\ ShownGood /\ MarksGood /\ MonitorGood

LEMMA CallsCardinality == ASSUME NEW S PROVE Calls!Cardinality(S) = Cardinality(S)
  BY DEF Calls!Cardinality, Cardinality

LEMMA CountsGrow ==
    ASSUME ToolsFinish, tool \in [ToolCalls -> ToolRecord], tool' \in [ToolCalls -> ToolRecord], NEW s,
           \A t \in ToolCalls : tool[t].version > 0 /\ tool[t].status \in s =>
                                  tool'[t].version > 0 /\ tool'[t].status \in s
    PROVE  Calls!Count(s) \in Nat /\ Calls!Count(s)' \in Nat /\ Calls!Count(s) <= Calls!Count(s)'
  <1> DEFINE A == {t \in ToolCalls : tool[t].version > 0 /\ tool[t].status \in s}
             B == {t \in ToolCalls : tool'[t].version > 0 /\ tool'[t].status \in s}
  <1>1. A \subseteq B /\ B \subseteq ToolCalls OBVIOUS
  <1>2. IsFiniteSet(B) BY <1>1, FS_Subset DEF ToolsFinish
  <1>3. Cardinality(A) <= Cardinality(B) /\ IsFiniteSet(A) BY <1>1, <1>2, FS_Subset
  <1>4. Cardinality(A) \in Nat /\ Cardinality(B) \in Nat BY <1>2, <1>3, FS_CardinalityType
  <1>5. Calls!Count(s) = Cardinality(A) BY CallsCardinality DEF Calls!Count
  <1>6. Calls!Count(s)' = Cardinality(B) BY CallsCardinality DEF Calls!Count
  <1> HIDE DEF A, B
  <1> QED BY <1>3, <1>4, <1>5, <1>6

LEMMA CountIsNat ==
    ASSUME ToolsFinish, NEW s
    PROVE  Calls!Count(s) \in Nat
  <1> DEFINE A == {t \in ToolCalls : tool[t].version > 0 /\ tool[t].status \in s}
  <1>1. IsFiniteSet(A) BY FS_Subset DEF ToolsFinish
  <1>2. Calls!Count(s) = Cardinality(A) BY CallsCardinality DEF Calls!Count
  <1> HIDE DEF A
  <1> QED BY <1>1, <1>2, FS_CardinalityType

LEMMA PresentGood ==
    ASSUME ToolsFinish, call \in CallRecord
    PROVE  /\ Present \in TokenRecord /\ Present.version = call.version
           /\ Present.total = Calls!Count({"running", "completed", "failed"})
           /\ Present.completed = Calls!Count({"completed"}) /\ Present.failed = Calls!Count({"failed"})
           /\ Calls!Token(0, Calls!Summary) \in TokenRecord
  <1> DEFINE a == Calls!Count({"running", "completed", "failed"})
             b == Calls!Count({"completed"})
             c == Calls!Count({"failed"})
  <1>1. a \in Nat /\ b \in Nat /\ c \in Nat /\ call.version \in Nat BY CountIsNat DEF CallRecord
  <1>2. \A n : Calls!Token(n, Calls!Summary) = [version |-> n, total |-> a, completed |-> b, failed |-> c]
    BY DEF Calls!Token, Calls!Summary
  <1> HIDE DEF a, b, c
  <1>3. Present = [version |-> call.version, total |-> a, completed |-> b, failed |-> c] BY <1>2 DEF Present
  <1>4. Calls!Token(0, Calls!Summary) = [version |-> 0, total |-> a, completed |-> b, failed |-> c] BY <1>2
  <1>5. Present \in TokenRecord /\ Calls!Token(0, Calls!Summary) \in TokenRecord
    BY <1>1, <1>3, <1>4 DEF TokenRecord
  <1> QED BY <1>3, <1>5 DEF a, b, c

Counted ==
    /\ Present \in TokenRecord /\ Present.version = call.version
    /\ Present.total = Calls!Count({"running", "completed", "failed"})
    /\ Present.completed = Calls!Count({"completed"}) /\ Present.failed = Calls!Count({"failed"})

LEMMA PresentIsCounted == ToolsFinish /\ call \in CallRecord => Counted
  BY PresentGood DEF Counted

LEMMA PresentStaysGood == ASSUME ToolsFinish, call' \in CallRecord PROVE Counted'
  <1>1. (ToolsFinish /\ call \in CallRecord => Counted)' BY PresentIsCounted, PTL
  <1>2. ToolsFinish' BY DEF ToolsFinish
  <1>3. CallRecord' = CallRecord BY DEF CallRecord, CallStatus
  <1> QED BY <1>1, <1>2, <1>3

\* What is there to be read only grows.
LEMMA PresentGrows ==
    ASSUME ToolsFinish, call \in CallRecord, call' \in CallRecord, call.version <= call'.version,
           tool \in [ToolCalls -> ToolRecord], tool' \in [ToolCalls -> ToolRecord],
           \A t \in ToolCalls : /\ tool[t].version > 0 => tool'[t].version > 0
                                /\ tool[t].version > 0 /\ tool[t].status # "none" => tool'[t].status # "none"
                                /\ tool[t].version > 0 /\ tool[t].status \in {"completed", "failed"} => tool'[t].status = tool[t].status
    PROVE  Below(Present, Present') /\ Present \in TokenRecord /\ Present' \in TokenRecord
  <1> DEFINE S == {"running", "completed", "failed"}
  <1>1. Calls!Count(S) <= Calls!Count(S)'
    <2>1. \A t \in ToolCalls : tool[t].version > 0 /\ tool[t].status \in S =>
                                  tool'[t].version > 0 /\ tool'[t].status \in S
      BY DEF ToolRecord
    <2> HIDE DEF S
    <2> QED BY <2>1, CountsGrow
  <1>2. Calls!Count({"completed"}) <= Calls!Count({"completed"})' BY CountsGrow
  <1>3. Calls!Count({"failed"}) <= Calls!Count({"failed"})' BY CountsGrow
  <1>4. /\ Present.version = call.version /\ Present.total = Calls!Count(S)
        /\ Present.completed = Calls!Count({"completed"}) /\ Present.failed = Calls!Count({"failed"})
        /\ Present \in TokenRecord
    BY PresentGood
  <1>5. /\ Present'.version = call'.version /\ Present'.total = Calls!Count(S)'
        /\ Present'.completed = Calls!Count({"completed"})' /\ Present'.failed = Calls!Count({"failed"})'
        /\ Present' \in TokenRecord
    BY PresentStaysGood DEF Counted
  <1> HIDE DEF S
  <1> QED BY <1>1, <1>2, <1>3, <1>4, <1>5 DEF Below

LEMMA BelowTrans ==
    ASSUME NEW t \in TokenRecord, NEW u \in TokenRecord, NEW v \in TokenRecord, Below(t, u), Below(u, v)
    PROVE  Below(t, v)
  BY DEF Below, TokenRecord

LEMMA BelowSame ==
    ASSUME NEW t \in TokenRecord, NEW u \in TokenRecord, Below(t, u), Below(u, t)
    PROVE  t = u
  BY DEF Below, TokenRecord

LEMMA ReadInvImplies ==
    ASSUME ReadInv, ToolsFinish, call \in CallRecord PROVE Calls!ReadingsTruthful
  <1>1. Calls!ViewIsSelected BY DEF Calls!ViewIsSelected, ReadInv, MonitorGood
  <1>2. Calls!ReadWasShown
    <2> SUFFICES ASSUME Calls!HasToken, ~Calls!Unread PROVE Present \in displayed
      BY DEF Calls!ReadWasShown, Present
    <2>1. call.version > 0 /\ ~Calls!Behind(marker.token, Present)
      BY DEF ReadInv, Calls!HasToken, Calls!Unread, Present
    <2>2. Present \in TokenRecord /\ marker.token \in TokenRecord /\ Present.version = call.version
      BY PresentGood DEF ReadInv, MarksGood
    <2>3. Below(Present, marker.token) BY <2>1, <2>2 DEF Below, Calls!Behind, TokenRecord
    <2>4. marker.token # Calls!NoToken
      BY <2>1, <2>2, <2>3 DEF Below, Calls!NoToken, TokenRecord
    <2>5. marker.token \in displayed /\ Below(marker.token, Present) BY <2>4 DEF ReadInv, MarksGood, ShownGood
    <2> QED BY <2>2, <2>3, <2>5, BelowSame
  <1> QED BY <1>1, <1>2 DEF Calls!ReadingsTruthful

LEMMA VersionGrows ==
    ASSUME CallsInv, [Calls!CallsNext]_Calls!realtimeVars
    PROVE  call' = call \/ (call'.version > call.version)
  <1>1. call \in CallRecord /\ \A a \in Calls!Actors : UpdateGood(op[a], call, provider, clock)
    BY DEF CallsInv, CallGood
  <1>2. ASSUME NEW a \in Calls!Actors, Calls!CallStep(a) PROVE call' = call \/ (call'.version > call.version)
    <2>1. op[a].value \in CallRecord BY <1>1 DEF UpdateGood, CallUpdate
    <2>2. CASE Calls!UpdateReads(a) BY <2>2 DEF Calls!UpdateReads
    <2>3. CASE Calls!UpdateWrites(a)
      <3>1. CASE op[a].value.version = call.version
        <4>1. call' = [op[a].value EXCEPT !.version = op[a].value.version + 1] BY <2>3, <3>1 DEF Calls!UpdateWrites
        <4>2. call'.version = op[a].value.version + 1 BY <2>1, <4>1 DEF CallRecord
        <4> QED BY <1>1, <3>1, <4>2 DEF CallRecord
      <3>2. CASE op[a].value.version # call.version BY <2>3, <3>2 DEF Calls!UpdateWrites
      <3> QED BY <3>1, <3>2
    <2>4. CASE Calls!Admits(a)
      <3>1. CASE op[a].at = "read" BY <2>4, <3>1 DEF Calls!Admits
      <3>2. CASE op[a].at = "write" /\ call.version = 0
        <4>1. call' = op[a].value BY <2>4, <3>2 DEF Calls!Admits
        <4>2. op[a].value.version > 0 BY <1>1, <2>4, <3>2 DEF UpdateGood, Calls!Admits
        <4> QED BY <3>2, <4>1, <4>2
      <3>3. CASE op[a].at = "write" /\ call.version # 0 BY <2>4, <3>3 DEF Calls!Admits
      <3> QED BY <2>4, <3>1, <3>2, <3>3 DEF Calls!Admits
    <2> QED BY <1>2, <2>2, <2>3, <2>4 DEF Calls!CallStep
  <1>3. CASE ~\E a \in Calls!Actors : Calls!CallStep(a)
    BY <1>3 DEF Calls!CallsNext, Calls!realtimeVars, Calls!callVars, Calls!Heartbeat, Calls!HeartbeatReturns,
       Calls!Watchdog, Calls!WorkerAsks, Calls!WorkerHears, Calls!Dial, Calls!EnderAsks, Calls!EnderHears,
       Calls!RecordReadsCall, Calls!RecordReadsTool, Calls!RecordWrites, Calls!ReadState, Calls!MarkReads,
       Calls!MarkWrites, Calls!Tick, Calls!SetConversations, Calls!Refresh, Calls!ReadsCall, Calls!ReadsCounts,
       Calls!RefreshReturns, Calls!DisposeMonitor
  <1> QED BY <1>2, <1>3

LEMMA StartedKept ==
    ASSUME call \in CallRecord, call' \in CallRecord, call' = call \/ (call'.version > call.version),
           call.started => call.version > 0
    PROVE  (call'.started => call'.version > 0) /\ call.version <= call'.version
  BY DEF CallRecord

LEMMA ShownKept ==
    ASSUME ShownGood, Below(Present, Present'), Present \in TokenRecord, Present' \in TokenRecord, UNCHANGED displayed
    PROVE  ShownGood'
  <1>1. \A t \in displayed : Below(t, Present') BY BelowTrans DEF ShownGood
  <1>2. (\A t, u \in displayed : Below(t, u) \/ Below(u, t))' BY DEF ShownGood, Below
  <1>3. (\A t \in displayed : t.version > 0 /\ Below(t, Present))' BY <1>1 DEF ShownGood, Below
  <1>4. TokenRecord' = TokenRecord BY DEF TokenRecord
  <1> QED BY <1>2, <1>3, <1>4 DEF ShownGood

\* Any step of the call or of a monitor leaves what is read alone.
LEMMA ReadsElsewhere ==
    ASSUME ReadInv, ToolsFinish, call \in CallRecord, call' \in CallRecord, call' = call \/ (call'.version > call.version),
           UNCHANGED <<scenario, tool, recorder, marker, page, displayed>>, MonitorGood'
    PROVE  ReadInv'
  <1>1. (call'.started => call'.version > 0) /\ call.version <= call'.version BY StartedKept DEF ReadInv
  <1>2. tool \in [ToolCalls -> ToolRecord] BY DEF ReadInv, ToolsGood
  <1>3. Below(Present, Present') /\ Present \in TokenRecord /\ Present' \in TokenRecord
    BY <1>1, <1>2, PresentGrows
  <1>4. ShownGood' BY <1>3, ShownKept DEF ReadInv
  <1>5. ToolsGood' BY DEF ReadInv, ToolsGood
  <1>6. MarksGood' BY DEF ReadInv, MarksGood, PageGood
  <1> QED BY <1>1, <1>4, <1>5, <1>6 DEF ReadInv

\* The callbacks that record tools.
LEMMA ToolRecordStep ==
    ASSUME ReadInv, ToolsFinish, CallsInv, CallActors, NEW r \in Recorders,
           Calls!RecordReadsCall(r) \/ Calls!RecordReadsTool(r) \/ Calls!RecordWrites(r)
    PROVE  ReadInv'
  <1> DEFINE k == recorder[r]
             t == tool[scenario.tool[r]]
             Final == {"completed", "failed"}
  <1>1. UNCHANGED <<scenario, call, marker, page, displayed, monitor>>
    BY DEF Calls!RecordReadsCall, Calls!RecordReadsTool, Calls!RecordWrites, Calls!callVars, Calls!readVars
  <1>2. /\ RecorderGood(k, t) /\ scenario.tool[r] \in ToolCalls /\ scenario.end[r] \in {"completed", "failed"}
        /\ t \in ToolRecord /\ call \in CallRecord
    BY DEF ReadInv, ToolsGood, ToolsFinish, CallsInv, CallGood
  <1>3. \A ok \in BOOLEAN : RecorderGood(Calls!Ends(r, k, ok), t)
    <2> SUFFICES ASSUME NEW ok \in BOOLEAN PROVE RecorderGood(Calls!Ends(r, k, ok), t) OBVIOUS
    <2> DEFINE s == IF k.want = "running" /\ ok THEN "idle" ELSE "done"
               x == [k EXCEPT !.at = s, !.want = scenario.end[r], !.tries = 0]
    <2>1. s \in {"idle", "done"} /\ x = Calls!Ends(r, k, ok) BY DEF Calls!Ends
    <2> HIDE DEF s
    <2>2. x.at = s BY <1>2 DEF RecorderGood
    <2>3. x \in [at : {"idle", "again", "read", "write", "done"}, want : {"running", "completed", "failed"},
                 tries : Nat, call : CallStatus, status : {"none", "running", "completed", "failed"}, version : Nat]
      BY <1>2, <2>1 DEF RecorderGood
    <2> HIDE DEF x
    <2> QED BY <2>1, <2>2, <2>3 DEF RecorderGood
  <1>4. CASE tool' = tool /\ \E x : recorder' = [recorder EXCEPT ![r] = x] /\ RecorderGood(x, t)
    <2>1. PICK x : recorder' = [recorder EXCEPT ![r] = x] /\ RecorderGood(x, t) BY <1>4
    <2>2. \A q \in Recorders : recorder'[q] = IF q = r THEN x ELSE recorder[q] BY <2>1 DEF ReadInv, ToolsGood
    <2>3. \A q \in Recorders : RecorderGood(recorder'[q], tool'[scenario.tool[q]])
      BY <1>4, <2>1, <2>2 DEF ReadInv, ToolsGood
    <2>4. recorder' = [q \in Recorders |-> recorder'[q]] BY <2>1 DEF ReadInv, ToolsGood
    <2>5. ToolsGood' BY <1>1, <1>4, <2>3, <2>4 DEF ReadInv, ToolsGood, RecorderGood
    <2>6. ShownGood'
      <3>1. Present' = Present BY <1>1, <1>4 DEF Present, Calls!Summary, Calls!Count
      <3> QED BY <1>1, <3>1 DEF ReadInv, ShownGood
    <2>7. MarksGood' /\ MonitorGood' BY <1>1 DEF ReadInv, MarksGood, PageGood, MonitorGood
    <2> QED BY <1>1, <2>5, <2>6, <2>7 DEF ReadInv
  <1>5. CASE Calls!RecordReadsCall(r)
    <2> DEFINE c == Calls!Snapshot.status
               x == [k EXCEPT !.call = c, !.at = "read"]
    <2>1. tool' = tool /\ recorder' = [recorder EXCEPT ![r] = x] BY <1>5 DEF Calls!RecordReadsCall
    <2>2. c \in CallStatus BY SnapshotGood DEF CallGood, CallRecord
    <2> HIDE DEF c
    <2>3. x \in [at : {"idle", "again", "read", "write", "done"}, want : {"running", "completed", "failed"},
                 tries : Nat, call : CallStatus, status : {"none", "running", "completed", "failed"}, version : Nat]
          /\ x.at = "read"
      BY <1>2, <2>2 DEF RecorderGood
    <2> HIDE DEF x
    <2>4. RecorderGood(x, t) BY <2>3 DEF RecorderGood
    <2> QED BY <1>4, <2>1, <2>4
  <1>6. CASE Calls!RecordReadsTool(r)
    <2> DEFINE x == [k EXCEPT !.at = "write", !.status = k.want, !.version = t.version]
    <2>1. /\ tool' = tool
          /\ \/ \E ok \in BOOLEAN : recorder' = [recorder EXCEPT ![r] = Calls!Ends(r, k, ok)]
             \/ recorder' = [recorder EXCEPT ![r] = x] /\ ~(t.version > 0 /\ (t.status = k.want \/ k.want = "running"))
                /\ ~(t.version > 0 /\ t.status # "running") /\ ~(t.version = 0 /\ k.want # "running")
      BY <1>6 DEF Calls!RecordReadsTool
    <2>2. x \in [at : {"idle", "again", "read", "write", "done"}, want : {"running", "completed", "failed"},
                 tries : Nat, call : CallStatus, status : {"none", "running", "completed", "failed"}, version : Nat]
          /\ x.status = k.want /\ x.version = t.version /\ k.want \in {"running", "completed", "failed"}
          /\ t.version \in Nat
      BY <1>2 DEF RecorderGood, ToolRecord
    <2> HIDE DEF x, k, t
    <2>3. CASE \E ok \in BOOLEAN : recorder' = [recorder EXCEPT ![r] = Calls!Ends(r, k, ok)]
      BY <1>3, <1>4, <2>1, <2>3
    <2>4. CASE recorder' = [recorder EXCEPT ![r] = x] /\ ~(t.version > 0 /\ (t.status = k.want \/ k.want = "running"))
               /\ ~(t.version > 0 /\ t.status # "running") /\ ~(t.version = 0 /\ k.want # "running")
      <3>1. Proceeds(t, x.status) BY <2>2, <2>4 DEF Proceeds
      <3>2. RecorderGood(x, t) BY <2>2, <3>1 DEF RecorderGood
      <3> QED BY <1>4, <2>1, <2>4, <3>2
    <2> QED BY <2>1, <2>3, <2>4
  <1>7. CASE Calls!RecordWrites(r)
    <2>1. CASE t.version # k.version
      <3> DEFINE n == k.tries + 1
                 x == [k EXCEPT !.at = "again", !.tries = n]
      <3>1. /\ tool' = tool
            /\ \/ recorder' = [recorder EXCEPT ![r] = Calls!Ends(r, k, FALSE)]
               \/ recorder' = [recorder EXCEPT ![r] = x]
        BY <1>7, <2>1 DEF Calls!RecordWrites
      <3>2. n \in Nat BY <1>2 DEF RecorderGood
      <3> HIDE DEF n
      <3>3. x \in [at : {"idle", "again", "read", "write", "done"}, want : {"running", "completed", "failed"},
                   tries : Nat, call : CallStatus, status : {"none", "running", "completed", "failed"}, version : Nat]
            /\ x.at = "again"
        BY <1>2, <3>2 DEF RecorderGood
      <3> HIDE DEF x, k, t
      <3>4. RecorderGood(x, t) BY <3>3 DEF RecorderGood
      <3> QED BY <1>3, <1>4, <3>1, <3>4
    <2>2. CASE t.version = k.version
      <3> DEFINE c == scenario.tool[r]
                 d == [status |-> k.status, version |-> t.version + 1]
                 x == Calls!Ends(r, k, TRUE)
      <3>1. /\ k.at = "write" /\ tool' = [tool EXCEPT ![c] = d]
            /\ recorder' = [recorder EXCEPT ![r] = x]
        BY <1>7, <2>2 DEF Calls!RecordWrites
      <3>2. Proceeds(t, k.status) BY <1>2, <2>2, <3>1 DEF RecorderGood
      <3>3. d \in ToolRecord /\ d.status = k.status /\ d.version = t.version + 1
        BY <1>2 DEF RecorderGood, ToolRecord
      <3>4. tool' \in [ToolCalls -> ToolRecord] /\ \A b \in ToolCalls : tool'[b] = IF b = c THEN d ELSE tool[b]
        BY <3>1, <3>3 DEF ReadInv, ToolsGood
      <3>5. x.at # "write"
        <4>1. x = [k EXCEPT !.at = IF k.want = "running" THEN "idle" ELSE "done", !.want = scenario.end[r], !.tries = 0]
          BY DEF Calls!Ends
        <4>2. x.at = IF k.want = "running" THEN "idle" ELSE "done" BY <1>2, <4>1 DEF RecorderGood
        <4> QED BY <4>2
      <3>6. RecorderGood(x, t) BY <1>3
      <3> HIDE DEF x
      <3>7. \A q \in Recorders : recorder'[q] = IF q = r THEN x ELSE recorder[q] BY <3>1 DEF ReadInv, ToolsGood
      <3>8. \A q \in Recorders : RecorderGood(recorder'[q], tool'[scenario.tool[q]])
        <4> SUFFICES ASSUME NEW q \in Recorders PROVE RecorderGood(recorder'[q], tool'[scenario.tool[q]]) OBVIOUS
        <4>1. scenario.tool[q] \in ToolCalls /\ RecorderGood(recorder[q], tool[scenario.tool[q]])
          BY DEF ReadInv, ToolsGood, ToolsFinish
        <4>2. CASE q = r BY <3>5, <3>6, <3>7, <4>2 DEF RecorderGood
        <4>3. CASE q # r /\ scenario.tool[q] # c BY <3>4, <3>7, <4>1, <4>3
        <4>4. CASE q # r /\ scenario.tool[q] = c
          <5>1. tool'[scenario.tool[q]] = d /\ recorder'[q] = recorder[q] /\ RecorderGood(recorder[q], t)
            BY <3>4, <3>7, <4>1, <4>4
          <5> HIDE DEF d, t
          <5>2. t.version \in Nat BY <1>2 DEF ToolRecord
          <5> QED BY <3>3, <5>1, <5>2 DEF RecorderGood
        <4> QED BY <4>2, <4>3, <4>4
      <3>9. recorder' = [q \in Recorders |-> recorder'[q]] BY <3>1 DEF ReadInv, ToolsGood
      <3>10. ToolsGood' BY <1>1, <3>4, <3>8, <3>9 DEF ReadInv, ToolsGood, RecorderGood, ToolRecord
      <3>11. \A b \in ToolCalls : /\ tool[b].version > 0 => tool'[b].version > 0
                                  /\ tool[b].version > 0 /\ tool[b].status # "none" => tool'[b].status # "none"
                                  /\ tool[b].version > 0 /\ tool[b].status \in {"completed", "failed"} => tool'[b].status = tool[b].status
        <4> HIDE DEF d
        <4> QED BY <1>2, <3>2, <3>3, <3>4 DEF Proceeds, ToolRecord
      <3>12. Below(Present, Present') /\ Present \in TokenRecord /\ Present' \in TokenRecord
        <4>1. call' \in CallRecord /\ call.version <= call'.version BY <1>1, <1>2 DEF CallRecord
        <4>2. tool \in [ToolCalls -> ToolRecord] BY DEF ReadInv, ToolsGood
        <4> QED BY <1>2, <3>4, <3>11, <4>1, <4>2, PresentGrows
      <3>13. ShownGood' BY <1>1, <3>12, ShownKept DEF ReadInv
      <3>14. MarksGood' /\ MonitorGood' BY <1>1 DEF ReadInv, MarksGood, PageGood, MonitorGood
      <3> QED BY <1>1, <3>10, <3>13, <3>14 DEF ReadInv
    <2> QED BY <2>1, <2>2
  <1> QED BY <1>5, <1>6, <1>7

\* Two tokens in a line merge into the later one.
LEMMA MergedShown ==
    ASSUME ShownGood, NEW t \in displayed \cup {Calls!NoToken}, NEW u \in displayed
    PROVE  Calls!Merged(t, u) \in displayed
  <1>1. CASE t.version # u.version BY <1>1 DEF Calls!Merged
  <1>2. CASE t.version = u.version
    <2>1. u \in TokenRecord /\ u.version > 0 BY DEF ShownGood
    <2>2. t \in displayed /\ t \in TokenRecord
      BY <1>2, <2>1 DEF ShownGood, Calls!NoToken
    <2> DEFINE m == Calls!Merged(t, u)
               a == Calls!Greater(t.total, u.total)
               b == Calls!Greater(t.completed, u.completed)
               c == Calls!Greater(t.failed, u.failed)
    <2>3. m = [version |-> u.version, total |-> a, completed |-> b, failed |-> c]
      BY <1>2 DEF Calls!Merged
    <2>4. a \in Nat /\ b \in Nat /\ c \in Nat BY <2>1, <2>2 DEF Calls!Greater, TokenRecord
    <2>5. \/ a = u.total /\ b = u.completed /\ c = u.failed
          \/ a = t.total /\ b = t.completed /\ c = t.failed
      <3>1. Below(t, u) \/ Below(u, t) BY <2>2 DEF ShownGood
      <3> QED BY <2>1, <2>2, <3>1 DEF Below, Calls!Greater, TokenRecord
    <2> HIDE DEF a, b, c, m
    <2>6. m \in TokenRecord /\ m.version = u.version /\ m.total = a /\ m.completed = b /\ m.failed = c
      BY <2>1, <2>3, <2>4 DEF TokenRecord
    <2>7. m = u \/ m = t
      <3>1. (Below(m, u) /\ Below(u, m)) \/ (Below(m, t) /\ Below(t, m))
        BY <1>2, <2>1, <2>2, <2>4, <2>5, <2>6 DEF Below, TokenRecord
      <3> QED BY <2>1, <2>2, <2>6, <3>1, BelowSame
    <2> QED BY <2>2, <2>7 DEF m
  <1> QED BY <1>1, <1>2

\* The pages.
LEMMA ReaderStep ==
    ASSUME ReadInv, ToolsFinish, call \in CallRecord, NEW v \in Viewers,
           Calls!ReadState(v) \/ Calls!MarkReads(v) \/ Calls!MarkWrites(v)
    PROVE  ReadInv'
  <1>1. UNCHANGED <<scenario, call, tool, recorder, monitor>>
    BY DEF Calls!ReadState, Calls!MarkReads, Calls!MarkWrites, Calls!callVars, Calls!toolVars
  <1>2. Present' = Present BY <1>1 DEF Present, Calls!Summary, Calls!Count
  <1>3. ToolsGood' /\ MonitorGood' BY <1>1 DEF ReadInv, ToolsGood, RecorderGood, MonitorGood
  <1>4. PageGood(page[v]) /\ ShownGood /\ marker \in [version : Nat, token : TokenRecord]
    BY DEF ReadInv, MarksGood
  <1>5. Calls!NoToken \in TokenRecord BY DEF Calls!NoToken, TokenRecord
  <1>6. Present \in TokenRecord /\ Present.version = call.version BY PresentGood
  <1>7. ASSUME NEW x, page' = [page EXCEPT ![v] = x], PageGood(x), marker' = marker, displayed' = displayed
        PROVE  ReadInv'
    <2>1. \A q \in Viewers : page'[q] = IF q = v THEN x ELSE page[q] BY <1>7 DEF ReadInv, MarksGood
    <2>2. page' = [q \in Viewers |-> page'[q]] BY <1>7 DEF ReadInv, MarksGood
    <2>3. \A q \in Viewers : PageGood(page'[q]) BY <1>7, <2>1 DEF ReadInv, MarksGood
    <2>4. MarksGood' BY <1>7, <2>2, <2>3 DEF ReadInv, MarksGood, PageGood
    <2>5. ShownGood' BY <1>2, <1>7 DEF ReadInv, ShownGood
    <2> QED BY <1>1, <1>3, <2>4, <2>5 DEF ReadInv
  <1>8. CASE Calls!ReadState(v)
    <2> DEFINE x == [at |-> "shown", token |-> Present, saved |-> 0, next |-> Calls!NoToken]
    <2>1. /\ page' = [page EXCEPT ![v] = x] /\ displayed' = displayed \cup {Present} /\ marker' = marker
          /\ call.version > 0
      BY <1>8 DEF Calls!ReadState, Calls!HasToken, ReadInv, Present
    <2>2. x \in [at : {"idle", "shown", "write"}, token : TokenRecord, saved : Nat, next : TokenRecord]
          /\ x.at = "shown" /\ x.token = Present
      BY <1>5, <1>6
    <2> HIDE DEF x
    <2>3. \A q \in Viewers : page'[q] = IF q = v THEN x ELSE page[q] BY <2>1 DEF ReadInv, MarksGood
    <2>4. page' = [q \in Viewers |-> page'[q]] BY <2>1 DEF ReadInv, MarksGood
    <2>5. \A q \in Viewers : PageGood(page[q])' BY <2>1, <2>2, <2>3 DEF ReadInv, MarksGood, PageGood
    <2>6. MarksGood' BY <2>1, <2>4, <2>5 DEF ReadInv, MarksGood
    <2>7. ShownGood'
      <3>1. displayed' \subseteq TokenRecord BY <1>4, <1>6, <2>1 DEF ShownGood
      <3>2. Below(Present, Present) BY <1>6 DEF Below, TokenRecord
      <3>3. \A t \in displayed' : t.version > 0 /\ Below(t, Present) BY <1>4, <1>6, <2>1, <3>2 DEF ShownGood
      <3>4. \A t, u \in displayed' : Below(t, u) \/ Below(u, t) BY <1>4, <2>1, <3>2 DEF ShownGood
      <3> QED BY <1>2, <3>1, <3>3, <3>4 DEF ShownGood
    <2> QED BY <1>1, <1>3, <2>6, <2>7 DEF ReadInv
  <1>9. CASE Calls!MarkReads(v)
    <2> DEFINE n == Calls!Merged(marker.token, page[v].token)
               x == [page[v] EXCEPT !.at = "idle"]
               y == [page[v] EXCEPT !.at = "write", !.saved = marker.version, !.next = n]
    <2>1. /\ page[v].at = "shown" /\ UNCHANGED <<marker, displayed>>
          /\ page' = [page EXCEPT ![v] = x] \/ page' = [page EXCEPT ![v] = y]
      BY <1>9 DEF Calls!MarkReads, Calls!MarkReadToken
    <2>2. n \in displayed /\ page[v].token \in displayed
      <3>1. page[v].token \in displayed /\ marker.token \in displayed \cup {Calls!NoToken}
        BY <1>4, <2>1 DEF PageGood, ReadInv, MarksGood
      <3> QED BY <1>4, <3>1, MergedShown
    <2>3. n \in TokenRecord /\ marker.version \in Nat BY <1>4, <2>2 DEF ShownGood
    <2> HIDE DEF n
    <2>4. PageGood(x) BY <1>4 DEF PageGood
    <2>5. PageGood(y)
      <3>1. y \in [at : {"idle", "shown", "write"}, token : TokenRecord, saved : Nat, next : TokenRecord]
            /\ y.token = page[v].token /\ y.next = n
        BY <1>4, <2>3 DEF PageGood
      <3> HIDE DEF y
      <3> QED BY <2>2, <3>1 DEF PageGood
    <2> HIDE DEF x, y
    <2> QED BY <1>7, <2>1, <2>4, <2>5
  <1>10. CASE Calls!MarkWrites(v)
    <2>1. CASE page[v].saved # marker.version
      <3> DEFINE x == [page[v] EXCEPT !.at = "shown"]
      <3>1. page[v].at = "write" /\ page' = [page EXCEPT ![v] = x] /\ UNCHANGED <<marker, displayed>>
        BY <1>10, <2>1 DEF Calls!MarkWrites
      <3>2. PageGood(x) BY <1>4, <3>1 DEF PageGood
      <3> HIDE DEF x
      <3> QED BY <1>7, <3>1, <3>2
    <2>2. CASE page[v].saved = marker.version
      <3> DEFINE x == [page[v] EXCEPT !.at = "idle"]
                 m == [version |-> marker.version + 1, token |-> page[v].next]
      <3>1. page[v].at = "write" /\ page' = [page EXCEPT ![v] = x] /\ marker' = m /\ displayed' = displayed
        BY <1>10, <2>2 DEF Calls!MarkWrites
      <3>2. PageGood(x) /\ page[v].next \in displayed BY <1>4, <3>1 DEF PageGood
      <3>3. m \in [version : Nat, token : TokenRecord] /\ m.token \in displayed
        BY <1>4, <3>2 DEF ShownGood
      <3> HIDE DEF x, m
      <3>4. \A q \in Viewers : page'[q] = IF q = v THEN x ELSE page[q] BY <3>1 DEF ReadInv, MarksGood
      <3>5. page' = [q \in Viewers |-> page'[q]] BY <3>1 DEF ReadInv, MarksGood
      <3>6. \A q \in Viewers : PageGood(page'[q]) BY <3>2, <3>4 DEF ReadInv, MarksGood
      <3>7. MarksGood' BY <3>1, <3>3, <3>5, <3>6 DEF MarksGood, PageGood
      <3>8. ShownGood' BY <1>2, <3>1 DEF ReadInv, ShownGood
      <3> QED BY <1>1, <1>3, <3>7, <3>8 DEF ReadInv
    <2> QED BY <2>1, <2>2
  <1> QED BY <1>8, <1>9, <1>10

\* The monitor.
MonitorRecord ==
    [selected : BOOLEAN, generation : Nat, view : MonitorView, at : {"idle", "call", "counts", "page"},
     of : Nat, read : MonitorView, regressed : BOOLEAN, disposed : BOOLEAN]

LEMMA MonitorStep ==
    ASSUME ReadInv, ToolsFinish, CallsInv, CallActors,
           \/ Calls!SetConversations \/ Calls!Refresh \/ Calls!ReadsCall \/ Calls!ReadsCounts
           \/ Calls!RefreshReturns \/ Calls!DisposeMonitor
    PROVE  ReadInv'
  <1>1. UNCHANGED <<scenario, call, tool, recorder, marker, page, displayed>>
    BY DEF Calls!SetConversations, Calls!Refresh, Calls!ReadsCall, Calls!ReadsCounts, Calls!RefreshReturns,
       Calls!DisposeMonitor, Calls!callVars, Calls!toolVars, Calls!readVars
  <1>2. monitor \in MonitorRecord /\ MonitorGood BY DEF ReadInv, MonitorGood, MonitorRecord
  <1>3. call \in CallRecord BY DEF CallsInv, CallGood
  <1>4. Calls!NoView \in MonitorView
    <2>1. Calls!Token(0, [total |-> 0, completed |-> 0, failed |-> 0]) \in TokenRecord
      BY DEF Calls!Token, TokenRecord
    <2> QED BY <2>1 DEF Calls!NoView, MonitorView, CallStatus
  <1> HIDE DEF Calls!NoView
  <1>5. ASSUME NEW m \in MonitorRecord, monitor' = m, m.of <= m.generation,
               m.view # Calls!NoView => m.selected,
               m.of = m.generation /\ m.at # "idle"
                 /\ (m.read # Calls!NoView \/ m.at = "counts") => m.selected
        PROVE  ReadInv'
    <2>1. Calls!NoView' = Calls!NoView BY DEF Calls!NoView, Calls!Token
    <2>2. MonitorGood' BY <1>5, <2>1 DEF MonitorGood, MonitorRecord, MonitorView, TokenRecord, CallStatus
    <2> QED BY <1>1, <1>3, <2>2, ReadsElsewhere
  <1>6. CASE Calls!SetConversations
    <2> DEFINE w == IF monitor.selected THEN Calls!NoView ELSE monitor.view
               g == monitor.generation + 1
               b == ~monitor.selected
               m == [monitor EXCEPT !.selected = b, !.generation = g, !.view = w]
    <2>1. monitor' = m BY <1>6 DEF Calls!SetConversations
    <2>2. w \in MonitorView /\ g \in Nat /\ b \in BOOLEAN /\ (w # Calls!NoView => b) /\ monitor.of < g
      BY <1>2, <1>4 DEF MonitorRecord, MonitorGood
    <2> HIDE DEF w, g, b
    <2>3. m \in MonitorRecord BY <1>2, <2>2 DEF MonitorRecord
    <2>4. m.selected = b /\ m.generation = g /\ m.view = w /\ m.of = monitor.of BY <1>2 DEF MonitorRecord
    <2> HIDE DEF m
    <2>5. m.of < m.generation /\ m.of \in Nat /\ m.generation \in Nat BY <2>2, <2>3, <2>4 DEF MonitorRecord
    <2> QED BY <1>5, <2>1, <2>2, <2>3, <2>4, <2>5
  <1>7. CASE Calls!Refresh
    <2> DEFINE m == [monitor EXCEPT !.at = "call", !.of = monitor.generation, !.read = Calls!NoView]
    <2>1. monitor' = m BY <1>7 DEF Calls!Refresh
    <2>2. m \in MonitorRecord BY <1>2, <1>4 DEF MonitorRecord
    <2>3. /\ m.of = m.generation /\ m.read = Calls!NoView /\ m.view = monitor.view /\ m.selected = monitor.selected
          /\ m.generation \in Nat /\ m.at = "call"
      BY <1>2 DEF MonitorRecord
    <2> HIDE DEF m
    <2> QED BY <1>2, <1>5, <2>1, <2>2, <2>3 DEF MonitorGood
  <1>8. CASE Calls!ReadsCall
    <2> DEFINE s == Calls!Snapshot.status
               w == [monitor.read EXCEPT !.status = s]
               m == [monitor EXCEPT !.at = "counts", !.read = w]
               n == [monitor EXCEPT !.at = "page"]
    <2>1. /\ (monitor' = m /\ monitor.selected) \/ monitor' = n
          /\ monitor.at = "call"
      <3>1. CASE monitor.selected /\ call.version > 0
        BY <1>2, <1>8, <3>1 DEF Calls!ReadsCall, MonitorRecord
      <3>2. CASE ~(monitor.selected /\ call.version > 0) BY <1>8, <3>2 DEF Calls!ReadsCall
      <3> QED BY <3>1, <3>2
    <2>2. s \in CallStatus BY SnapshotGood DEF CallGood, CallRecord
    <2> HIDE DEF s
    <2>3. w \in MonitorView BY <1>2, <2>2 DEF MonitorRecord, MonitorView
    <2> HIDE DEF w
    <2>4. m \in MonitorRecord /\ n \in MonitorRecord BY <1>2, <2>3 DEF MonitorRecord
    <2>5. /\ m.of = monitor.of /\ m.generation = monitor.generation /\ m.view = monitor.view
          /\ m.selected = monitor.selected
          /\ n.of = monitor.of /\ n.generation = monitor.generation /\ n.view = monitor.view
          /\ n.selected = monitor.selected /\ n.read = monitor.read /\ n.at = "page"
      BY <1>2 DEF MonitorRecord
    <2> HIDE DEF m, n
    <2>6. CASE monitor' = m /\ monitor.selected BY <1>2, <1>5, <2>4, <2>5, <2>6 DEF MonitorGood
    <2>7. CASE monitor' = n BY <1>2, <1>5, <2>1, <2>4, <2>5, <2>7 DEF MonitorGood
    <2> QED BY <2>1, <2>6, <2>7
  <1>9. CASE Calls!ReadsCounts
    <2> DEFINE c == Calls!Token(0, Calls!Summary)
               w == [monitor.read EXCEPT !.counts = c]
               m == [monitor EXCEPT !.at = "page", !.read = w]
    <2>1. monitor' = m /\ monitor.at = "counts"
      BY <1>2, <1>9 DEF Calls!ReadsCounts, MonitorRecord
    <2>2. c \in TokenRecord BY <1>3, PresentGood
    <2> HIDE DEF c
    <2>3. w \in MonitorView BY <1>2, <2>2 DEF MonitorRecord, MonitorView
    <2> HIDE DEF w
    <2>4. m \in MonitorRecord BY <1>2, <2>3 DEF MonitorRecord
    <2>5. /\ m.of = monitor.of /\ m.generation = monitor.generation /\ m.view = monitor.view
          /\ m.selected = monitor.selected /\ m.at = "page"
      BY <1>2 DEF MonitorRecord
    <2> HIDE DEF m
    <2> QED BY <1>2, <1>5, <2>1, <2>4, <2>5 DEF MonitorGood
  <1>10. CASE Calls!RefreshReturns
    <2> DEFINE ok == monitor.at = "page"
               stale == monitor.of # monitor.generation
               back == monitor.view.status # "none" /\ Calls!Regressed(monitor.view, monitor.read)
               w == IF ok /\ ~stale /\ ~back THEN monitor.read ELSE monitor.view
               b == ok /\ ~stale /\ back
               m == [monitor EXCEPT !.at = "idle", !.regressed = b, !.view = w]
    <2>1. monitor' = m BY <1>10 DEF Calls!RefreshReturns, Calls!RefreshEnds
    <2>2. b \in BOOLEAN BY DEF b
    <2>3. w \in MonitorView /\ (w # Calls!NoView => monitor.selected)
      BY <1>2 DEF MonitorRecord, MonitorGood
    <2> HIDE DEF b, w
    <2>4. m \in MonitorRecord BY <1>2, <2>2, <2>3 DEF MonitorRecord
    <2>5. /\ m.of = monitor.of /\ m.generation = monitor.generation /\ m.view = w /\ m.at = "idle"
          /\ m.selected = monitor.selected
      BY <1>2 DEF MonitorRecord
    <2> HIDE DEF m
    <2> QED BY <1>2, <1>5, <2>1, <2>3, <2>4, <2>5 DEF MonitorGood
  <1>11. CASE Calls!DisposeMonitor
    <2> DEFINE m == [monitor EXCEPT !.disposed = TRUE, !.at = "idle"]
    <2>1. monitor' = m BY <1>11 DEF Calls!DisposeMonitor
    <2>2. m \in MonitorRecord BY <1>2 DEF MonitorRecord
    <2>3. /\ m.of = monitor.of /\ m.generation = monitor.generation /\ m.view = monitor.view /\ m.at = "idle"
          /\ m.selected = monitor.selected
      BY <1>2 DEF MonitorRecord
    <2> HIDE DEF m
    <2> QED BY <1>2, <1>5, <2>1, <2>2, <2>3 DEF MonitorGood
  <1> QED BY <1>6, <1>7, <1>8, <1>9, <1>10, <1>11

LEMMA ReadStarts ==
    ASSUME Calls!CallsInit, ToolsFinish, CallActors PROVE ReadInv
  <1>1. call = Calls!NoCall /\ displayed = {} /\ marker = [version |-> 0, token |-> Calls!NoToken] /\ scenario \in Scenarios
    BY DEF Calls!CallsInit
  <1>2. Calls!NoToken \in TokenRecord BY DEF Calls!NoToken, TokenRecord
  <1>3. ~call.started BY <1>1 DEF Calls!NoCall
  <1>4. ToolsGood
    <2>1. tool \in [ToolCalls -> ToolRecord] BY DEF Calls!CallsInit, ToolRecord
    <2>2. Calls!Resting \in [at : {"idle", "again", "read", "write", "done"}, want : {"running", "completed", "failed"},
             tries : Nat, call : CallStatus, status : {"none", "running", "completed", "failed"}, version : Nat]
          /\ Calls!Resting.at = "idle"
      BY DEF Calls!Resting, CallStatus
    <2>3. \A t : RecorderGood(Calls!Resting, t) BY <2>2 DEF RecorderGood
    <2>4. recorder = [r \in Recorders |-> recorder[r]] /\ \A r \in Recorders : recorder[r] = Calls!Resting
      BY DEF Calls!CallsInit
    <2> QED BY <1>1, <2>1, <2>3, <2>4 DEF ToolsGood
  <1>5. ShownGood BY <1>1 DEF ShownGood
  <1>6. MarksGood
    <2> DEFINE x == [at |-> "idle", token |-> Calls!NoToken, saved |-> 0, next |-> Calls!NoToken]
    <2>1. x \in [at : {"idle", "shown", "write"}, token : TokenRecord, saved : Nat, next : TokenRecord] /\ x.at = "idle"
      BY <1>2
    <2>2. page = [v \in Viewers |-> page[v]] /\ \A v \in Viewers : page[v] = x BY DEF Calls!CallsInit
    <2> HIDE DEF x
    <2>3. \A v \in Viewers : PageGood(page[v]) BY <2>1, <2>2 DEF PageGood
    <2> QED BY <1>1, <1>2, <2>2, <2>3 DEF MarksGood
  <1>7. MonitorGood
    <2>1. Calls!NoView \in MonitorView
      <3>1. Calls!Token(0, [total |-> 0, completed |-> 0, failed |-> 0]) \in TokenRecord
        BY DEF Calls!Token, TokenRecord
      <3> QED BY <3>1 DEF Calls!NoView, MonitorView, CallStatus
    <2> HIDE DEF Calls!NoView
    <2>2. monitor = Calls!MonitorOff BY DEF Calls!CallsInit
    <2>3. Calls!MonitorOff \in MonitorRecord BY <2>1 DEF Calls!MonitorOff, MonitorRecord
    <2>4. /\ Calls!MonitorOff.of = 0 /\ Calls!MonitorOff.generation = 0 /\ Calls!MonitorOff.view = Calls!NoView
          /\ Calls!MonitorOff.at = "idle"
      BY DEF Calls!MonitorOff
    <2> QED BY <2>2, <2>3, <2>4 DEF MonitorGood, MonitorRecord
  <1> QED BY <1>3, <1>4, <1>5, <1>6, <1>7 DEF ReadInv

LEMMA ReadStays ==
    ASSUME ReadInv, ToolsFinish, CallActors, CallsInv, CallsInv', [Calls!CallsNext]_Calls!realtimeVars
    PROVE  ReadInv'
  <1>1. call \in CallRecord /\ call' \in CallRecord BY DEF CallsInv, CallGood, CallRecord, CallStatus
  <1>2. call' = call \/ (call'.version > call.version) BY VersionGrows
  <1>3. CASE UNCHANGED <<scenario, tool, recorder, marker, page, displayed, monitor>>
    <2>1. MonitorGood'
      BY <1>3 DEF ReadInv, MonitorGood, MonitorView, TokenRecord, CallStatus, Calls!NoView, Calls!Token
    <2> QED BY <1>1, <1>2, <1>3, <2>1, ReadsElsewhere
  <1>4. CASE UNCHANGED Calls!realtimeVars
    BY <1>3, <1>4 DEF Calls!realtimeVars, Calls!toolVars, Calls!readVars
  <1>5. CASE \/ \E a \in Calls!Actors : Calls!CallStep(a)
             \/ \E w \in CallWorkers : \/ Calls!Heartbeat(w) \/ Calls!HeartbeatReturns(w) \/ Calls!Watchdog(w)
                                       \/ Calls!WorkerAsks(w) \/ Calls!WorkerHears(w) \/ Calls!Dial(w)
             \/ \E e \in Enders : Calls!EnderAsks(e) \/ Calls!EnderHears(e)
             \/ Calls!Tick
    <2>1. UNCHANGED <<scenario, tool, recorder, marker, page, displayed, monitor>>
      BY <1>5 DEF Calls!CallStep, Calls!UpdateReads, Calls!UpdateWrites, Calls!Admits, Calls!Heartbeat,
         Calls!HeartbeatReturns, Calls!Watchdog, Calls!WorkerAsks, Calls!WorkerHears, Calls!Dial,
         Calls!EnderAsks, Calls!EnderHears, Calls!Tick, Calls!toolVars, Calls!readVars
    <2> QED BY <1>3, <2>1
  <1>6. CASE \E r \in Recorders : Calls!RecordReadsCall(r) \/ Calls!RecordReadsTool(r) \/ Calls!RecordWrites(r)
    BY <1>6, ToolRecordStep
  <1>7. CASE \E v \in Viewers : Calls!ReadState(v) \/ Calls!MarkReads(v) \/ Calls!MarkWrites(v)
    BY <1>1, <1>7, ReaderStep
  <1>8. CASE \/ Calls!SetConversations \/ Calls!Refresh \/ Calls!ReadsCall \/ Calls!ReadsCounts
             \/ Calls!RefreshReturns \/ Calls!DisposeMonitor
    BY <1>8, MonitorStep
  <1> QED BY <1>4, <1>5, <1>6, <1>7, <1>8 DEF Calls!CallsNext

\* What counts as read was displayed by a page, and the monitor shows calls
\* of the present selection only (markRead and summary of
\* realtime-tool-activity.ts, refresh of realtime-workspace.ts), for any
\* finite set of tool calls and any pages, recorders and scenarios.
THEOREM ReadingsAreTruthful ==
    ASSUME CallActors, ToolsFinish PROVE CallsSpec => []ReadingsTruthful
  <1>1. Calls!CallsInit => CallsInv /\ ReadInv BY CallsStart, ReadStarts
  <1>2. CallsInv /\ ReadInv /\ [Calls!CallsNext]_Calls!realtimeVars => (CallsInv /\ ReadInv)'
    BY CallsStay, ReadStays
  <1>3. CallsInv /\ ReadInv => Calls!ReadingsTruthful BY ReadInvImplies DEF CallsInv, CallGood
  <1> QED BY <1>1, <1>2, <1>3, PTL DEF CallsSpec, ReadingsTruthful

------------------------------------------------
\* A realtime session, its tools and its events.

SessionsSpec == Sessions!SessionsInit /\ [][Sessions!SessionsNext]_Sessions!sessionVars

\* An event of the provider names one of the tool calls.
SessionEvents == \A p \in SessionPlans, h \in Handlers : p.event[h].tool \in Tools

EventIds == {p.event[h].id : p \in SessionPlans, h \in Handlers}
EventKinds == {"session_started", "response_started", "response_stopped", "failure", "session_ended"}
TrackedSession ==
    [state : {"none", "open", "provider_ended", "ended", "forgotten"}, cleanup : {"pending", "cleaned"},
     started : BOOLEAN, response : BOOLEAN, aborted : BOOLEAN, sequence : Int, terminal : BOOLEAN,
     ending : {"none", "bridge", "wait", "host"},
     seen : SUBSET EventIds,
     calls : SUBSET Tools, running : SUBSET Tools, sent : SUBSET Tools]
HandlerAt == {"idle", "digest", "call", "execute", "bind", "await", "answer", "refuse", "done"}
SessionAuthority ==
    [hangup : {"idle", "bridge", "cleanup"}, cleanup : {"idle", "bridge", "host", "failed"},
     ended : BOOLEAN, cleaned : BOOLEAN, terminal : BOOLEAN, hosts : Int, tries : Int]
ClientSession == [status : {"ready", "active", "ended", "failed"}, response : BOOLEAN, applied : Nat]
BridgeSession == [state : {"none", "live", "terminal", "gone"}, calls : SUBSET Tools]
SessionsTyped ==
    /\ session \in SessionPlans
    /\ tracked \in TrackedSession
    /\ handler \in [Handlers -> HandlerAt]
    /\ bridge \in BridgeSession
    /\ operation \in [Tools -> {[at |-> "none"], [at |-> "running"]}]
    /\ outputs \in [Tools -> Nat]
    /\ authority \in SessionAuthority
    /\ emitted \in Seq(EventKinds) /\ peer \in ClientSession

\* Tools run only while the bridge knows the session; before it does there
\* is nothing to end, and the host is asked to clean up once it has
\* forgotten it.
BridgeKnows ==
    /\ \A c \in Tools : operation[c].at = "running" => bridge.state \in {"live", "terminal"}
    /\ bridge.state = "none" =>
          /\ tracked.state = "none" /\ tracked.ending = "none" /\ tracked.cleanup = "pending"
          /\ authority.hangup = "idle" /\ authority.cleanup = "idle"
          /\ \A h \in Handlers : handler[h] \in {"idle", "done"}
    /\ (authority.hosts > 0 \/ authority.cleanup = "host" \/ tracked.ending = "host" \/ tracked.cleanup = "cleaned")
          => bridge.state = "gone"

\* One handler at most is busy with a remembered call, and then its output
\* was not sent; what was answered without being remembered found no room.
CallsFull == Cardinality(tracked.calls) >= MaxTrackedCalls
BusyWith(h, c) ==
    /\ Sessions!Tool(h) = c
    /\ handler[h] \in {"execute", "bind", "await", "answer"} \/ (handler[h] = "refuse" /\ c \in tracked.calls)
OneAtATime ==
    /\ tracked.running \subseteq tracked.calls
    /\ \A h \in Handlers, c \in Tools : BusyWith(h, c) => c \in tracked.running /\ c \notin tracked.sent
    /\ \A h, k \in Handlers, c \in Tools : BusyWith(h, c) /\ BusyWith(k, c) => h = k
    /\ \A h \in Handlers : handler[h] = "refuse" /\ Sessions!Tool(h) \notin tracked.calls => CallsFull
    /\ \A c \in Tools : c \notin tracked.calls /\ (c \in tracked.sent \/ outputs[c] > 0) => CallsFull
OutputsSent ==
    "giveup" \notin session.active =>
        \A c \in tracked.calls : outputs[c] = 0 \/ (outputs[c] = 1 /\ c \in tracked.sent)

\* As long as the session runs its events are the start, and then responses
\* that start and stop in turn: how many there are tells the rest.
Responding(n) == n > 0 /\ n % 2 = 0
EventNumber(n) == IF n = 1 THEN "session_started" ELSE IF n % 2 = 0 THEN "response_started" ELSE "response_stopped"
EventsInTurn ==
    /\ peer.applied <= Len(emitted)
    /\ ~tracked.terminal =>
         /\ \A i \in 1..Len(emitted) : emitted[i] = EventNumber(i)
         /\ (tracked.started <=> Len(emitted) > 0) /\ (tracked.response <=> Responding(Len(emitted)))
         /\ peer.status = (IF peer.applied > 0 THEN "active" ELSE "ready")
         /\ (peer.response <=> Responding(peer.applied))

SessionsInv == SessionsTyped /\ BridgeKnows /\ OneAtATime /\ OutputsSent /\ EventsInTurn

LEMMA SessionsSettle == ASSUME SessionsInv PROVE Sessions!ToolsSettleInCall
  <1>1. Sessions!ToolsEndBeforeCleanup
    BY DEF SessionsInv, SessionsTyped, BridgeKnows, Sessions!ToolsEndBeforeCleanup, SessionAuthority
  <1>2. Sessions!OutputOnce BY DEF SessionsInv, OutputsSent, Sessions!OutputOnce
  <1>3. Sessions!ClientAgrees
    BY DEF SessionsInv, EventsInTurn, Sessions!ClientAgrees, SessionsTyped, ClientSession, TrackedSession
  <1> QED BY <1>1, <1>2, <1>3 DEF Sessions!ToolsSettleInCall

LEMMA SessionsBegin == ASSUME Sessions!SessionsInit PROVE SessionsInv
  <1>1. /\ session \in SessionPlans /\ tracked = Sessions!NoSession /\ handler = [h \in Handlers |-> "idle"]
        /\ bridge \in BridgeSession /\ bridge.state = "none" /\ operation = [c \in Tools |-> Sessions!NoOperation]
        /\ outputs = [c \in Tools |-> 0] /\ emitted = <<>>
    BY DEF Sessions!SessionsInit, BridgeSession
  <1>2. /\ authority \in SessionAuthority /\ authority.hosts = 0
        /\ authority.hangup = "idle" /\ authority.cleanup = "idle"
    BY DEF Sessions!SessionsInit, SessionAuthority
  <1>3. peer \in ClientSession /\ peer.applied = 0 /\ peer.status = "ready" /\ ~peer.response
    BY DEF Sessions!SessionsInit, ClientSession
  <1>4. /\ tracked \in TrackedSession /\ tracked.state = "none" /\ tracked.ending = "none"
        /\ tracked.cleanup = "pending" /\ ~tracked.started /\ ~tracked.response
        /\ tracked.calls = {} /\ tracked.running = {} /\ tracked.sent = {}
    BY <1>1 DEF Sessions!NoSession, TrackedSession
  <1>5. SessionsTyped BY <1>1, <1>2, <1>3, <1>4 DEF SessionsTyped, HandlerAt, Sessions!NoOperation
  <1>6. BridgeKnows BY <1>1, <1>2, <1>4 DEF BridgeKnows, Sessions!NoOperation
  <1>7. OneAtATime BY <1>1, <1>4 DEF OneAtATime, BusyWith
  <1>8. OutputsSent BY <1>4 DEF OutputsSent
  <1>9. EventsInTurn
    <2>1. Len(emitted) = 0 BY <1>1
    <2> QED BY <1>3, <1>4, <2>1 DEF EventsInTurn, Responding
  <1> QED BY <1>5, <1>6, <1>7, <1>8, <1>9 DEF SessionsInv

\* What steps leave alone.
SameTools(t, u) == u.calls = t.calls /\ u.running = t.running /\ u.sent = t.sent
SameTalk(t, u) == u.started = t.started /\ u.response = t.response /\ u.terminal = t.terminal
AtWork == {"execute", "bind", "await", "answer"}

LEMMA EventsName == ASSUME SessionsTyped, SessionEvents PROVE \A h \in Handlers : Sessions!Tool(h) \in Tools
  BY DEF SessionsTyped, SessionEvents, Sessions!Tool

LEMMA ToolsUntouched ==
    ASSUME SessionsInv, SessionEvents, session' = session, outputs' = outputs, SameTools(tracked, tracked'),
           \A h \in Handlers : \/ handler'[h] = handler[h] \/ handler'[h] \notin AtWork \cup {"refuse"}
                               \/ handler[h] \in AtWork /\ handler'[h] \in AtWork \cup {"refuse"}
    PROVE  OneAtATime' /\ OutputsSent'
  <1>1. OneAtATime /\ OutputsSent /\ \A h \in Handlers : Sessions!Tool(h) \in Tools BY EventsName DEF SessionsInv
  <1>2. \A h : Sessions!Tool(h)' = Sessions!Tool(h) BY DEF Sessions!Tool
  <1>3. CallsFull' <=> CallsFull BY DEF CallsFull, SameTools
  <1>4. \A h \in Handlers, c \in Tools : BusyWith(h, c)' => BusyWith(h, c)
    <2> SUFFICES ASSUME NEW h \in Handlers, NEW c \in Tools, BusyWith(h, c)' PROVE BusyWith(h, c) OBVIOUS
    <2> QED BY <1>2 DEF BusyWith, AtWork, SameTools
  <1>5. \A h \in Handlers : handler'[h] = "refuse" /\ Sessions!Tool(h) \notin tracked.calls => handler[h] = "refuse"
    <2> SUFFICES ASSUME NEW h \in Handlers, handler[h] \in AtWork PROVE Sessions!Tool(h) \in tracked.calls
      BY DEF AtWork
    <2>1. BusyWith(h, Sessions!Tool(h)) BY DEF BusyWith, AtWork
    <2> QED BY <1>1, <2>1 DEF OneAtATime
  <1>6. OneAtATime'
    <2>1. (tracked.running \subseteq tracked.calls)' BY <1>1 DEF OneAtATime, SameTools
    <2>2. (\A h \in Handlers, c \in Tools : BusyWith(h, c) => c \in tracked.running /\ c \notin tracked.sent)'
      BY <1>1, <1>4 DEF OneAtATime, SameTools
    <2>3. (\A h, k \in Handlers, c \in Tools : BusyWith(h, c) /\ BusyWith(k, c) => h = k)'
      BY <1>1, <1>4 DEF OneAtATime
    <2>4. (\A h \in Handlers : handler[h] = "refuse" /\ Sessions!Tool(h) \notin tracked.calls => CallsFull)'
      BY <1>1, <1>2, <1>3, <1>5 DEF OneAtATime, SameTools
    <2>5. (\A c \in Tools : c \notin tracked.calls /\ (c \in tracked.sent \/ outputs[c] > 0) => CallsFull)'
      BY <1>1, <1>3 DEF OneAtATime, SameTools
    <2> QED BY <2>1, <2>2, <2>3, <2>4, <2>5 DEF OneAtATime
  <1>7. OutputsSent' BY <1>1 DEF OutputsSent, SameTools
  <1> QED BY <1>6, <1>7

LEMMA TalkUntouched ==
    ASSUME SessionsInv, emitted' = emitted, peer' = peer, tracked'.terminal \/ SameTalk(tracked, tracked')
    PROVE  EventsInTurn'
  <1>1. EventsInTurn BY DEF SessionsInv
  <1>2. \A n : EventNumber(n)' = EventNumber(n) BY DEF EventNumber
  <1> QED BY <1>1, <1>2 DEF EventsInTurn, SameTalk, Responding

LEMMA BridgeGoesOn ==
    ASSUME SessionsInv, operation' = operation, bridge.state # "none",
           bridge'.state = bridge.state \/ (bridge.state = "live" /\ bridge'.state = "terminal"),
           (authority'.hosts > 0 \/ authority'.cleanup = "host" \/ tracked'.ending = "host" \/ tracked'.cleanup = "cleaned")
             => bridge.state = "gone"
    PROVE  BridgeKnows'
  BY DEF SessionsInv, BridgeKnows

LEMMA BridgeEnds ==
    ASSUME SessionsInv, bridge' = bridge \/ bridge' = Sessions!Terminated
    PROVE  /\ bridge' \in BridgeSession
           /\ bridge'.state = bridge.state \/ (bridge.state = "live" /\ bridge'.state = "terminal")
  <1> DEFINE s == IF bridge.state = "live" THEN "terminal" ELSE bridge.state
  <1>1. bridge \in BridgeSession BY DEF SessionsInv, SessionsTyped
  <1>2. Sessions!Terminated = [bridge EXCEPT !.state = s] BY DEF Sessions!Terminated
  <1>3. s \in {"none", "live", "terminal", "gone"} /\ (s = bridge.state \/ (bridge.state = "live" /\ s = "terminal"))
    BY <1>1 DEF BridgeSession
  <1> HIDE DEF s
  <1> QED BY <1>1, <1>2, <1>3 DEF BridgeSession

\* A step that says nothing, and answers no tool.
LEMMA SessionGoesOn ==
    ASSUME SessionsInv, SessionEvents, session' = session, outputs' = outputs, operation' = operation,
           emitted' = emitted, peer' = peer, handler' = handler,
           NEW t \in TrackedSession, NEW a \in SessionAuthority, tracked' = t, authority' = a,
           SameTools(tracked, t), t.terminal \/ SameTalk(tracked, t),
           bridge.state # "none", bridge' = bridge \/ bridge' = Sessions!Terminated,
           (a.hosts > 0 \/ a.cleanup = "host" \/ t.ending = "host" \/ t.cleanup = "cleaned") => bridge.state = "gone"
    PROVE  SessionsInv'
  <1>1. /\ bridge' \in BridgeSession
        /\ bridge'.state = bridge.state \/ (bridge.state = "live" /\ bridge'.state = "terminal")
    BY BridgeEnds
  <1>2. SessionsTyped'
    BY <1>1 DEF SessionsInv, SessionsTyped, TrackedSession, SessionAuthority, BridgeSession, ClientSession, HandlerAt
  <1>5. BridgeKnows' BY <1>1, BridgeGoesOn
  <1>3. OneAtATime' /\ OutputsSent' BY ToolsUntouched
  <1>4. EventsInTurn' BY TalkUntouched
  <1> QED BY <1>2, <1>3, <1>4, <1>5 DEF SessionsInv

LEMMA Terminates ==
    ASSUME NEW t \in TrackedSession
    PROVE  /\ Sessions!Terminating(t) \in TrackedSession /\ SameTools(t, Sessions!Terminating(t))
           /\ Sessions!Terminating(t).terminal
           /\ Sessions!Terminating(t).cleanup = t.cleanup
           /\ Sessions!Terminating(t).ending = (IF t.ending = "none" THEN "bridge" ELSE t.ending)
           /\ Sessions!Terminating(t).state = (IF t.terminal THEN t.state ELSE "provider_ended")
           /\ Sessions!Terminating(t).sequence = (IF t.terminal THEN t.sequence ELSE t.sequence + 1)
  <1> DEFINE u == Sessions!Begun(t)
             e == IF u.ending = "none" THEN "bridge" ELSE u.ending
             v == [u EXCEPT !.ending = e]
  <1> HIDE DEF u, e, v
  <1>1. /\ Sessions!Terminal(t) \in TrackedSession /\ SameTools(t, Sessions!Terminal(t))
        /\ Sessions!Terminal(t).terminal /\ Sessions!Terminal(t).cleanup = t.cleanup
        /\ Sessions!Terminal(t).ending = t.ending /\ Sessions!Terminal(t).state = "provider_ended"
        /\ Sessions!Terminal(t).sequence = t.sequence + 1
    <2>1. Sessions!Terminal(t) \in TrackedSession
      <3> DEFINE n == t.sequence + 1
      <3>1. n \in Int BY DEF TrackedSession
      <3> HIDE DEF n
      <3>2. [t EXCEPT !.aborted = TRUE, !.response = FALSE, !.state = "provider_ended", !.sequence = n,
                      !.terminal = TRUE] \in TrackedSession
        BY <3>1 DEF TrackedSession
      <3> QED BY <3>2 DEF Sessions!Terminal, n
    <2>2. SameTools(t, Sessions!Terminal(t))
      <3>1. Sessions!Terminal(t).calls = t.calls BY DEF Sessions!Terminal, TrackedSession
      <3>2. Sessions!Terminal(t).running = t.running BY DEF Sessions!Terminal, TrackedSession
      <3>3. Sessions!Terminal(t).sent = t.sent BY DEF Sessions!Terminal, TrackedSession
      <3> QED BY <3>1, <3>2, <3>3 DEF SameTools
    <2> QED BY <2>1, <2>2 DEF Sessions!Terminal, TrackedSession
  <1>2. /\ u \in TrackedSession /\ SameTools(t, u) /\ u.terminal /\ u.cleanup = t.cleanup /\ u.ending = t.ending
        /\ u.state = (IF t.terminal THEN t.state ELSE "provider_ended")
        /\ u.sequence = (IF t.terminal THEN t.sequence ELSE t.sequence + 1)
    <2>1. CASE t.terminal BY <2>1 DEF Sessions!Begun, SameTools, u
    <2>2. CASE ~t.terminal BY <1>1, <2>2 DEF Sessions!Begun, u
    <2> QED BY <2>1, <2>2
  <1>3. Sessions!Terminating(t) = v BY DEF Sessions!Terminating, u, e, v
  <1>4. e \in {"none", "bridge", "wait", "host"} BY <1>2 DEF TrackedSession, e
  <1>5. e = (IF t.ending = "none" THEN "bridge" ELSE t.ending) BY <1>2 DEF e
  <1> USE DEF v
  <1>6. v \in TrackedSession BY <1>2, <1>4 DEF TrackedSession
  <1>7. /\ SameTools(u, v) /\ v.terminal = u.terminal /\ v.cleanup = u.cleanup /\ v.ending = e
        /\ v.state = u.state /\ v.sequence = u.sequence
    <2>1. SameTools(u, v) BY <1>2 DEF TrackedSession, SameTools
    <2> QED BY <1>2, <2>1 DEF TrackedSession
  <1> HIDE DEF v
  <1> QED BY <1>2, <1>3, <1>5, <1>6, <1>7 DEF SameTools

\* The steps of a session that leave its tools alone and say nothing.
LEMMA SessionQuiet ==
    ASSUME SessionsInv, SessionEvents, UNCHANGED <<session, tracked, handler, bridge, operation, outputs, authority, emitted, peer>>
    PROVE  SessionsInv'
  <1>1. SameTools(tracked, tracked') /\ SameTalk(tracked, tracked') BY DEF SameTools, SameTalk
  <1>2. OneAtATime' /\ OutputsSent' BY <1>1, ToolsUntouched
  <1>3. EventsInTurn' BY <1>1, TalkUntouched
  <1>4. SessionsTyped'
    BY DEF SessionsInv, SessionsTyped, TrackedSession, SessionAuthority, BridgeSession, ClientSession, HandlerAt
  <1>5. BridgeKnows' BY DEF SessionsInv, BridgeKnows
  <1> QED BY <1>2, <1>3, <1>4, <1>5 DEF SessionsInv

LEMMA BootstrapStep ==
    ASSUME SessionsInv, SessionEvents, NEW b \in Bootstraps, Sessions!BootstrapReturns(b)
    PROVE  SessionsInv'
  <1>1. /\ tracked \in TrackedSession /\ authority \in SessionAuthority /\ bridge \in BridgeSession /\ BridgeKnows
        /\ UNCHANGED <<session, handler, operation, outputs, authority, emitted, peer>>
    BY DEF SessionsInv, SessionsTyped, Sessions!BootstrapReturns
  <1> DEFINE t == [tracked EXCEPT !.state = "open"]
  <1>2. t \in TrackedSession BY <1>1 DEF TrackedSession
  <1>3. SameTools(tracked, t) /\ SameTalk(tracked, t) /\ t.ending = tracked.ending /\ t.cleanup = tracked.cleanup
    <2>1. SameTools(tracked, t) BY <1>1 DEF TrackedSession, SameTools
    <2>2. SameTalk(tracked, t) BY <1>1 DEF TrackedSession, SameTalk
    <2> QED BY <1>1, <2>1, <2>2 DEF TrackedSession
  <1>4. SameTools(tracked, tracked) /\ SameTalk(tracked, tracked) BY DEF SameTools, SameTalk
  <1> HIDE DEF t
  <1>5. tracked' \in {t, tracked} BY DEF Sessions!BootstrapReturns, t
  <1>6. CASE bridge.state # "none"
    <2>1. bridge' = bridge BY <1>6 DEF Sessions!BootstrapReturns
    <2>2. (authority.hosts > 0 \/ authority.cleanup = "host" \/ tracked.ending = "host" \/ tracked.cleanup = "cleaned")
          => bridge.state = "gone"
      BY <1>1 DEF BridgeKnows
    <2>3. CASE tracked' = t BY <1>1, <1>2, <1>3, <1>6, <2>1, <2>2, <2>3, SessionGoesOn
    <2>4. CASE tracked' = tracked BY <1>1, <1>4, <1>6, <2>1, <2>2, <2>4, SessionGoesOn
    <2> QED BY <1>5, <2>3, <2>4
  <1>7. CASE bridge.state = "none"
    <2>1. CASE UNCHANGED <<tracked, bridge>> BY <1>1, <2>1, SessionQuiet
    <2>2. CASE bridge' = [bridge EXCEPT !.state = "live"]
      <3>1. bridge' \in BridgeSession /\ bridge'.state = "live" BY <1>1, <2>2 DEF BridgeSession
      <3>2. SameTools(tracked, tracked') /\ SameTalk(tracked, tracked') /\ tracked' \in TrackedSession
            /\ tracked'.ending = tracked.ending /\ tracked'.cleanup = tracked.cleanup
        BY <1>1, <1>2, <1>3, <1>4, <1>5
      <3>3. OneAtATime' /\ OutputsSent' BY <1>1, <3>2, ToolsUntouched
      <3>4. EventsInTurn' BY <1>1, <3>2, TalkUntouched
      <3>5. SessionsTyped'
        BY <1>1, <3>1, <3>2
        DEF SessionsInv, SessionsTyped, TrackedSession, SessionAuthority, BridgeSession, ClientSession, HandlerAt
      <3>6. BridgeKnows' BY <1>1, <1>7, <3>1, <3>2 DEF BridgeKnows
      <3> QED BY <3>3, <3>4, <3>5, <3>6 DEF SessionsInv
    <2> QED BY <1>7, <2>1, <2>2 DEF Sessions!BootstrapReturns
  <1> QED BY <1>6, <1>7

LEMMA MakeRoomStep == ASSUME SessionsInv, SessionEvents, Sessions!MakeRoom PROVE SessionsInv'
  <1>1. /\ tracked \in TrackedSession /\ authority \in SessionAuthority /\ BridgeKnows
        /\ UNCHANGED <<session, handler, bridge, operation, outputs, authority, emitted, peer>>
    BY DEF SessionsInv, SessionsTyped, Sessions!MakeRoom
  <1>2. CASE UNCHANGED tracked BY <1>1, <1>2, SessionQuiet
  <1>3. CASE tracked.state = "ended" /\ tracked' = [tracked EXCEPT !.state = "forgotten"]
    <2> DEFINE t == [tracked EXCEPT !.state = "forgotten"]
    <2>1. t \in TrackedSession BY <1>1 DEF TrackedSession
    <2>2. SameTools(tracked, t) BY <1>1 DEF TrackedSession, SameTools
    <2>3. SameTalk(tracked, t) BY <1>1 DEF TrackedSession, SameTalk
    <2>4. t.ending = tracked.ending /\ t.cleanup = tracked.cleanup BY <1>1 DEF TrackedSession
    <2>5. tracked' = t BY <1>3
    <2> HIDE DEF t
    <2>6. bridge.state # "none" BY <1>1, <1>3 DEF BridgeKnows
    <2>7. (authority.hosts > 0 \/ authority.cleanup = "host" \/ t.ending = "host" \/ t.cleanup = "cleaned")
          => bridge.state = "gone"
      BY <1>1, <2>4 DEF BridgeKnows
    <2> QED BY <1>1, <2>1, <2>2, <2>3, <2>5, <2>6, <2>7, SessionGoesOn
  <1> QED BY <1>2, <1>3 DEF Sessions!MakeRoom

LEMMA ArrivesStep ==
    ASSUME SessionsInv, SessionEvents, NEW h \in Handlers, Sessions!EventArrives(h)
    PROVE  SessionsInv'
  <1>1. /\ tracked \in TrackedSession /\ handler \in [Handlers -> HandlerAt] /\ BridgeKnows
        /\ UNCHANGED <<session, bridge, operation, outputs, authority, emitted, peer>>
        /\ tracked.state # "none" /\ tracked' \in {tracked, Sessions!Terminating(tracked)}
    BY DEF SessionsInv, SessionsTyped, Sessions!EventArrives
  <1>2. /\ tracked' \in TrackedSession /\ SameTools(tracked, tracked')
        /\ tracked'.terminal \/ SameTalk(tracked, tracked')
        /\ tracked'.ending = "host" => tracked.ending = "host"
        /\ tracked'.cleanup = tracked.cleanup
    <2>1. CASE tracked' = tracked BY <1>1, <2>1 DEF SameTools, SameTalk
    <2>2. CASE tracked' = Sessions!Terminating(tracked)
      <3>1. /\ tracked' \in TrackedSession /\ SameTools(tracked, tracked') /\ tracked'.terminal
            /\ tracked'.cleanup = tracked.cleanup
            /\ tracked'.ending = (IF tracked.ending = "none" THEN "bridge" ELSE tracked.ending)
        BY <1>1, <2>2, Terminates
      <3> QED BY <3>1
    <2> QED BY <1>1, <2>1, <2>2
  <1>3. \E x \in {"digest", "done"} : handler' = [handler EXCEPT ![h] = x] BY DEF Sessions!EventArrives
  <1>4. handler' \in [Handlers -> HandlerAt]
        /\ \A k \in Handlers : handler'[k] = handler[k] \/ handler'[k] \notin AtWork \cup {"refuse"}
    BY <1>1, <1>3 DEF HandlerAt, AtWork
  <1>5. OneAtATime' /\ OutputsSent' BY <1>1, <1>2, <1>4, ToolsUntouched
  <1>6. EventsInTurn' BY <1>1, <1>2, TalkUntouched
  <1>7. SessionsTyped'
    BY <1>1, <1>2, <1>4
    DEF SessionsInv, SessionsTyped, TrackedSession, SessionAuthority, BridgeSession, ClientSession, HandlerAt
  <1>8. BridgeKnows'
    <2>1. bridge.state # "none" BY <1>1 DEF BridgeKnows
    <2> QED BY <1>1, <1>2, <2>1, BridgeGoesOn DEF BridgeKnows
  <1> QED BY <1>5, <1>6, <1>7, <1>8 DEF SessionsInv

LEMMA ProviderTerminatedStep ==
    ASSUME SessionsInv, SessionEvents, Sessions!ProviderTerminated
    PROVE  SessionsInv'
  <1>1. /\ tracked \in TrackedSession /\ BridgeKnows /\ EventsInTurn
        /\ UNCHANGED <<session, handler, bridge, operation, outputs, authority, peer>>
        /\ tracked.state # "none" /\ tracked' = Sessions!Terminating(tracked)
        /\ emitted' = Append(emitted, "session_ended") /\ emitted \in Seq(EventKinds) /\ peer \in ClientSession
    BY DEF SessionsInv, SessionsTyped, Sessions!ProviderTerminated
  <1>2. /\ tracked' \in TrackedSession /\ SameTools(tracked, tracked') /\ tracked'.terminal
        /\ tracked'.ending = (IF tracked.ending = "none" THEN "bridge" ELSE tracked.ending)
        /\ tracked'.cleanup = tracked.cleanup
    BY <1>1, Terminates
  <1>3. OneAtATime' /\ OutputsSent' BY <1>1, <1>2, ToolsUntouched
  <1>4. emitted' \in Seq(EventKinds) /\ Len(emitted') = Len(emitted) + 1 /\ Len(emitted) \in Nat
    <2>1. "session_ended" \in EventKinds BY DEF EventKinds
    <2> HIDE DEF EventKinds
    <2> QED BY <1>1, <2>1
  <1>5. EventsInTurn' BY <1>1, <1>2, <1>4 DEF EventsInTurn, ClientSession
  <1>6. SessionsTyped'
    BY <1>1, <1>2, <1>4
    DEF SessionsInv, SessionsTyped, TrackedSession, SessionAuthority, BridgeSession, ClientSession, HandlerAt
  <1>7. BridgeKnows'
    <2>1. bridge.state # "none" BY <1>1 DEF BridgeKnows
    <2> QED BY <1>1, <1>2, <2>1, BridgeGoesOn DEF BridgeKnows
  <1> QED BY <1>3, <1>5, <1>6, <1>7 DEF SessionsInv

\* An event takes effect just if it is the next in turn.
LEMMA EffectOf ==
    ASSUME NEW t \in TrackedSession, NEW k, NEW u, u = Sessions!Effect(t, k)
    PROVE  /\ u \in TrackedSession /\ SameTools(t, u) /\ u.cleanup = t.cleanup
           /\ u.ending = "host" => t.ending = "host"
           /\ u.terminal \/ u.terminal = t.terminal
           /\ \/ u.sequence = t.sequence /\ (u.terminal \/ SameTalk(t, u))
              \/ k \in {"session_started", "response_started", "response_stopped", "failure"} /\ u.sequence = t.sequence + 1
           /\ u.sequence # t.sequence /\ ~u.terminal =>
                 \/ k = "session_started" /\ ~t.started /\ u.started /\ u.response = t.response
                 \/ k = "response_started" /\ t.started /\ ~t.response /\ u.started /\ u.response
                 \/ k = "response_stopped" /\ t.started /\ t.response /\ u.started /\ ~u.response
  <1> DEFINE n == t.sequence + 1
             a == [t EXCEPT !.started = TRUE, !.sequence = n]
             b == [t EXCEPT !.response = TRUE, !.sequence = n]
             c == [t EXCEPT !.response = FALSE, !.sequence = n]
             z == Sessions!Terminating(t)
  <1>1. n \in Int /\ n # t.sequence /\ t.sequence \in Int BY DEF TrackedSession
  <1>2. /\ z \in TrackedSession /\ SameTools(t, z) /\ z.terminal /\ z.cleanup = t.cleanup
        /\ z.ending = (IF t.ending = "none" THEN "bridge" ELSE t.ending)
        /\ z.sequence = (IF t.terminal THEN t.sequence ELSE n)
    BY Terminates
  <1>3. \/ u = t
        \/ k = "session_started" /\ ~t.started /\ u = a
        \/ k = "response_started" /\ t.started /\ ~t.response /\ u = b
        \/ k = "response_stopped" /\ t.started /\ t.response /\ u = c
        \/ k = "failure" /\ u = z
    <2> HIDE DEF z
    <2>1. CASE k = "session_started" BY <2>1 DEF Sessions!Effect
    <2>2. CASE k = "response_started" BY <2>2 DEF Sessions!Effect
    <2>3. CASE k = "response_stopped" BY <2>3 DEF Sessions!Effect
    <2>4. CASE k = "failure" BY <2>4 DEF Sessions!Effect, z
    <2>5. CASE k \notin {"session_started", "response_started", "response_stopped", "failure"}
      BY <2>5 DEF Sessions!Effect
    <2> QED BY <2>1, <2>2, <2>3, <2>4, <2>5
  <1> HIDE DEF n, z
  <1>4. /\ a \in TrackedSession /\ a.cleanup = t.cleanup /\ a.ending = t.ending /\ a.terminal = t.terminal
        /\ a.sequence = n /\ a.started /\ a.response = t.response
    <2>1. a \in TrackedSession BY <1>1 DEF TrackedSession
    <2> QED BY <2>1 DEF TrackedSession
  <1>5. /\ b \in TrackedSession /\ b.cleanup = t.cleanup /\ b.ending = t.ending /\ b.terminal = t.terminal
        /\ b.sequence = n /\ b.started = t.started /\ b.response
    <2>1. b \in TrackedSession BY <1>1 DEF TrackedSession
    <2> QED BY <2>1 DEF TrackedSession
  <1>6. /\ c \in TrackedSession /\ c.cleanup = t.cleanup /\ c.ending = t.ending /\ c.terminal = t.terminal
        /\ c.sequence = n /\ c.started = t.started /\ ~c.response
    <2>1. c \in TrackedSession BY <1>1 DEF TrackedSession
    <2> QED BY <2>1 DEF TrackedSession
  <1>7. SameTools(t, a) /\ SameTools(t, b) /\ SameTools(t, c) /\ SameTools(t, t) /\ SameTalk(t, t)
    <2>1. SameTools(t, a) BY DEF TrackedSession, SameTools
    <2>2. SameTools(t, b) BY DEF TrackedSession, SameTools
    <2>3. SameTools(t, c) BY DEF TrackedSession, SameTools
    <2> QED BY <2>1, <2>2, <2>3 DEF SameTools, SameTalk
  <1> HIDE DEF a, b, c
  <1>8. CASE u = t BY <1>7, <1>8
  <1>9. CASE k = "session_started" /\ ~t.started /\ u = a BY <1>1, <1>4, <1>7, <1>9 DEF n
  <1>10. CASE k = "response_started" /\ t.started /\ ~t.response /\ u = b BY <1>1, <1>5, <1>7, <1>10 DEF n
  <1>11. CASE k = "response_stopped" /\ t.started /\ t.response /\ u = c BY <1>1, <1>6, <1>7, <1>11 DEF n
  <1>12. CASE k = "failure" /\ u = z BY <1>1, <1>2, <1>12 DEF n
  <1> QED BY <1>3, <1>8, <1>9, <1>10, <1>11, <1>12

LEMMA HandledStep ==
    ASSUME SessionsInv, SessionEvents, NEW h \in Handlers, Sessions!EventHandled(h)
    PROVE  SessionsInv'
  <1> DEFINE e == session.event[h]
             s == [tracked EXCEPT !.seen = tracked.seen \cup {e.id}]
             u == Sessions!Effect(s, e.kind)
  <1>1. /\ tracked \in TrackedSession /\ handler \in [Handlers -> HandlerAt] /\ BridgeKnows /\ EventsInTurn
        /\ session \in SessionPlans /\ emitted \in Seq(EventKinds) /\ peer \in ClientSession
        /\ UNCHANGED <<session, bridge, operation, outputs, authority, peer>> /\ handler[h] = "digest"
        /\ emitted' = Sessions!Announce(tracked, tracked', e.kind)
        /\ tracked' \in {tracked, u}
    BY DEF SessionsInv, SessionsTyped, Sessions!EventHandled
  <1>2. e.id \in EventIds BY <1>1 DEF EventIds
  <1> HIDE DEF e
  <1>3. s \in TrackedSession BY <1>1, <1>2 DEF TrackedSession
  <1>4. /\ SameTools(tracked, s) /\ SameTalk(tracked, s)
        /\ s.cleanup = tracked.cleanup /\ s.ending = tracked.ending /\ s.sequence = tracked.sequence
    <2>1. SameTools(tracked, s) BY <1>1 DEF TrackedSession, SameTools
    <2>2. SameTalk(tracked, s) BY <1>1 DEF TrackedSession, SameTalk
    <2> QED BY <1>1, <2>1, <2>2 DEF TrackedSession
  <1> HIDE DEF s, u
  <1>5. /\ u \in TrackedSession /\ SameTools(s, u) /\ u.cleanup = s.cleanup
        /\ u.ending = "host" => s.ending = "host"
        /\ u.terminal \/ u.terminal = s.terminal
        /\ \/ u.sequence = s.sequence /\ (u.terminal \/ SameTalk(s, u))
           \/ e.kind \in {"session_started", "response_started", "response_stopped", "failure"} /\ u.sequence = s.sequence + 1
        /\ u.sequence # s.sequence /\ ~u.terminal =>
              \/ e.kind = "session_started" /\ ~s.started /\ u.started /\ u.response = s.response
              \/ e.kind = "response_started" /\ s.started /\ ~s.response /\ u.started /\ u.response
              \/ e.kind = "response_stopped" /\ s.started /\ s.response /\ u.started /\ ~u.response
    BY <1>3, EffectOf DEF u
  <1>6. /\ tracked' \in TrackedSession /\ SameTools(tracked, tracked') /\ tracked'.cleanup = tracked.cleanup
        /\ tracked'.ending = "host" => tracked.ending = "host"
    <2>1. CASE tracked' = tracked BY <1>1, <2>1 DEF SameTools
    <2>2. CASE tracked' = u BY <1>4, <1>5, <2>2 DEF SameTools
    <2> QED BY <1>1, <2>1, <2>2
  <1>7. \E x \in {"call", "done"} : handler' = [handler EXCEPT ![h] = x] BY DEF Sessions!EventHandled
  <1>8. handler' \in [Handlers -> HandlerAt]
        /\ \A k \in Handlers : handler'[k] = handler[k] \/ handler'[k] \notin AtWork \cup {"refuse"}
    BY <1>1, <1>7 DEF HandlerAt, AtWork
  <1>9. OneAtATime' /\ OutputsSent' BY <1>1, <1>6, <1>8, ToolsUntouched
  <1>10. emitted' \in Seq(EventKinds) /\ EventsInTurn'
    <2>1. CASE tracked'.sequence = tracked.sequence
      <3>1. emitted' = emitted BY <1>1, <2>1 DEF Sessions!Announce, TrackedSession
      <3>2. tracked'.terminal \/ SameTalk(tracked, tracked')
        <4>1. CASE tracked' = tracked BY <4>1 DEF SameTalk
        <4>2. CASE tracked' = u
          <5>1. s.sequence \in Int BY <1>3 DEF TrackedSession
          <5> QED BY <1>4, <1>5, <2>1, <4>2, <5>1 DEF SameTalk
        <4> QED BY <1>1, <4>1, <4>2
      <3> QED BY <1>1, <3>1, <3>2, TalkUntouched
    <2>2. CASE tracked'.sequence # tracked.sequence
      <3>1. tracked' = u /\ u.sequence = tracked.sequence + 1 /\ e.kind \in EventKinds
            /\ u.sequence > tracked.sequence
        BY <1>1, <1>4, <1>5, <2>2 DEF EventKinds, TrackedSession
      <3>2. emitted' = Append(emitted, e.kind) BY <1>1, <3>1 DEF Sessions!Announce
      <3>3. /\ emitted' \in Seq(EventKinds) /\ Len(emitted') = Len(emitted) + 1 /\ Len(emitted) \in Nat
            /\ \A i \in 1..Len(emitted) : emitted'[i] = emitted[i]
            /\ emitted'[Len(emitted) + 1] = e.kind
        <4>1. emitted \in Seq(EventKinds) /\ e.kind \in EventKinds BY <1>1, <3>1
        <4> HIDE DEF EventKinds
        <4> QED BY <3>2, <4>1
      <3>4. CASE u.terminal BY <1>1, <3>1, <3>3, <3>4 DEF EventsInTurn, ClientSession
      <3>5. CASE ~u.terminal
        <4>1. /\ ~tracked.terminal /\ (tracked.started <=> Len(emitted) > 0) /\ (tracked.response <=> Responding(Len(emitted)))
              /\ \A i \in 1..Len(emitted) : emitted[i] = EventNumber(i)
              /\ peer.status = (IF peer.applied > 0 THEN "active" ELSE "ready")
              /\ (peer.response <=> Responding(peer.applied)) /\ peer.applied <= Len(emitted)
          <5>1. ~tracked.terminal BY <1>4, <1>5, <3>5 DEF SameTalk
          <5> QED BY <1>1, <5>1 DEF EventsInTurn
        <4>2. /\ e.kind = EventNumber(Len(emitted) + 1) /\ u.started
              /\ (u.response <=> Responding(Len(emitted) + 1))
          <5>1. CASE e.kind = "session_started" /\ ~s.started /\ u.started /\ u.response = s.response
            <6>1. Len(emitted) = 0 /\ ~s.response BY <1>4, <3>3, <4>1, <5>1 DEF SameTalk, Responding
            <6> QED BY <5>1, <6>1 DEF EventNumber, Responding
          <5>2. CASE e.kind = "response_started" /\ s.started /\ ~s.response /\ u.started /\ u.response
            <6>1. Len(emitted) > 0 /\ ~Responding(Len(emitted)) BY <1>4, <4>1, <5>2 DEF SameTalk
            <6> QED BY <3>3, <5>2, <6>1 DEF EventNumber, Responding
          <5>3. CASE e.kind = "response_stopped" /\ s.started /\ s.response /\ u.started /\ ~u.response
            <6>1. Len(emitted) > 0 /\ Responding(Len(emitted)) BY <1>4, <4>1, <5>3 DEF SameTalk
            <6> QED BY <3>3, <5>3, <6>1 DEF EventNumber, Responding
          <5>4. u.sequence # s.sequence BY <1>1, <1>4, <3>1 DEF TrackedSession
          <5> QED BY <1>5, <3>5, <5>1, <5>2, <5>3, <5>4
        <4>3. \A i \in 1..Len(emitted') : emitted'[i] = EventNumber(i) BY <3>3, <4>1, <4>2
        <4>4. \A n : EventNumber(n)' = EventNumber(n) BY DEF EventNumber
        <4> QED BY <1>1, <3>1, <3>3, <3>5, <4>1, <4>2, <4>3, <4>4 DEF EventsInTurn, Responding, ClientSession
      <3> QED BY <3>3, <3>4, <3>5
    <2> QED BY <2>1, <2>2
  <1>11. SessionsTyped'
    BY <1>1, <1>6, <1>8, <1>10
    DEF SessionsInv, SessionsTyped, TrackedSession, SessionAuthority, BridgeSession, ClientSession, HandlerAt
  <1>12. BridgeKnows'
    <2>1. bridge.state # "none" BY <1>1 DEF BridgeKnows
    <2> QED BY <1>1, <1>6, <2>1, BridgeGoesOn DEF BridgeKnows
  <1> QED BY <1>9, <1>10, <1>11, <1>12 DEF SessionsInv

LEMMA AppliesStep == ASSUME SessionsInv, SessionEvents, Sessions!ClientApplies PROVE SessionsInv'
  <1> DEFINE n == peer.applied + 1
             k == emitted[n]
             q == Sessions!TransitionPatch(peer, k)
             r == [q EXCEPT !.applied = n]
  <1>1. /\ UNCHANGED <<session, tracked, handler, bridge, operation, outputs, authority, emitted>>
        /\ peer.applied < Len(emitted) /\ peer \in ClientSession /\ emitted \in Seq(EventKinds)
        /\ EventsInTurn /\ BridgeKnows /\ SessionsTyped
    BY DEF SessionsInv, SessionsTyped, Sessions!ClientApplies
  <1>2. n \in 1..Len(emitted) /\ n \in Nat /\ peer.applied \in Nat /\ Len(emitted) \in Nat BY <1>1 DEF ClientSession
  <1>3. q \in ClientSession /\ q.applied = peer.applied
    <2> HIDE DEF k
    <2>1. q \in {peer, [peer EXCEPT !.status = "active"], [peer EXCEPT !.response = TRUE],
                 [peer EXCEPT !.response = FALSE], [peer EXCEPT !.status = "ended", !.response = FALSE],
                 [peer EXCEPT !.status = "failed", !.response = FALSE]}
      <3>1. CASE peer.status \in {"ended", "failed"} BY <3>1 DEF Sessions!TransitionPatch
      <3>2. CASE peer.status \notin {"ended", "failed"}
        <4>1. CASE k = "session_started" BY <3>2, <4>1 DEF Sessions!TransitionPatch
        <4>2. CASE k = "response_started" BY <3>2, <4>2 DEF Sessions!TransitionPatch
        <4>3. CASE k = "response_stopped" BY <3>2, <4>3 DEF Sessions!TransitionPatch
        <4>4. CASE k = "session_ended" BY <3>2, <4>4 DEF Sessions!TransitionPatch
        <4>5. CASE k \notin {"session_started", "response_started", "response_stopped", "session_ended"}
          BY <3>2, <4>5 DEF Sessions!TransitionPatch
        <4> QED BY <4>1, <4>2, <4>3, <4>4, <4>5
      <3> QED BY <3>1, <3>2
    <2> HIDE DEF q
    <2> QED BY <1>1, <2>1 DEF ClientSession
  <1>4. peer' = r
    <2>1. peer' = [q EXCEPT !.applied = q.applied + 1] BY DEF Sessions!ClientApplies
    <2> QED BY <1>3, <2>1
  <1>5. r \in ClientSession /\ r.applied = n /\ r.status = q.status /\ r.response = q.response
    <2> HIDE DEF q, n
    <2> QED BY <1>2, <1>3 DEF ClientSession
  <1>6. EventsInTurn'
    <2>1. CASE tracked.terminal BY <1>1, <1>2, <1>4, <1>5, <2>1 DEF EventsInTurn
    <2>2. CASE ~tracked.terminal
      <3>1. /\ \A i \in 1..Len(emitted) : emitted[i] = EventNumber(i)
            /\ peer.status = (IF peer.applied > 0 THEN "active" ELSE "ready")
            /\ (peer.response <=> Responding(peer.applied))
        BY <1>1, <2>2 DEF EventsInTurn
      <3>2. k = EventNumber(n) BY <1>2, <3>1
      <3>3. q.status = "active" /\ (q.response <=> Responding(n))
        <4> HIDE DEF k
        <4>1. CASE n = 1
          <5>1. k = "session_started" /\ peer.status = "ready" /\ ~peer.response
            BY <1>2, <3>1, <3>2, <4>1 DEF EventNumber, Responding
          <5>2. q = [peer EXCEPT !.status = "active"] BY <5>1 DEF Sessions!TransitionPatch
          <5> QED BY <1>1, <4>1, <5>1, <5>2 DEF ClientSession, Responding
        <4>2. CASE n # 1 /\ n % 2 = 0
          <5>1. k = "response_started" /\ peer.status = "active" /\ ~peer.response
            BY <1>2, <3>1, <3>2, <4>2 DEF EventNumber, Responding
          <5>2. q = [peer EXCEPT !.response = TRUE] BY <5>1 DEF Sessions!TransitionPatch
          <5> QED BY <1>1, <1>2, <4>2, <5>1, <5>2 DEF ClientSession, Responding
        <4>3. CASE n # 1 /\ n % 2 # 0
          <5>1. k = "response_stopped" BY <3>2, <4>3 DEF EventNumber
          <5>3. peer.applied > 0 BY <1>2, <4>3
          <5>4. peer.applied % 2 = 0 BY <1>2, <4>3
          <5>5. peer.status = "active" /\ peer.response BY <3>1, <5>3, <5>4 DEF Responding
          <5>2. q = [peer EXCEPT !.response = FALSE] BY <5>1, <5>5 DEF Sessions!TransitionPatch
          <5> QED BY <1>1, <1>2, <4>3, <5>2, <5>5 DEF ClientSession, Responding
        <4> QED BY <4>1, <4>2, <4>3
      <3>4. \A i : EventNumber(i)' = EventNumber(i) BY DEF EventNumber
      <3>5. (tracked.started <=> Len(emitted) > 0) /\ (tracked.response <=> Responding(Len(emitted)))
        BY <1>1, <2>2 DEF EventsInTurn
      <3> HIDE DEF q, r, k
      <3> QED BY <1>1, <1>2, <1>4, <1>5, <3>1, <3>3, <3>4, <3>5 DEF EventsInTurn, Responding
    <2> QED BY <2>1, <2>2
  <1>7. SameTools(tracked, tracked') BY <1>1 DEF SameTools
  <1>8. OneAtATime' /\ OutputsSent' BY <1>1, <1>7, ToolsUntouched
  <1> HIDE DEF r
  <1>9. SessionsTyped'
    BY <1>1, <1>4, <1>5
    DEF SessionsTyped, TrackedSession, SessionAuthority, BridgeSession, ClientSession, HandlerAt
  <1>10. BridgeKnows' BY <1>1 DEF BridgeKnows
  <1> QED BY <1>6, <1>8, <1>9, <1>10 DEF SessionsInv

\* A call that starts is remembered and had no handler, a call that is not
\* remembered leaves everything as it is.
LEMMA ToolCalledStep ==
    ASSUME SessionsInv, SessionEvents, NEW h \in Handlers, Sessions!ToolCalled(h)
    PROVE  SessionsInv'
  <1> DEFINE c == Sessions!Tool(h)
             ca == tracked.calls \cup {c}
             ru == tracked.running \cup {c}
             t == [tracked EXCEPT !.calls = ca, !.running = ru]
  <1>1. /\ tracked \in TrackedSession /\ handler \in [Handlers -> HandlerAt] /\ BridgeKnows /\ OneAtATime /\ OutputsSent
        /\ UNCHANGED <<session, bridge, operation, outputs, authority, emitted, peer>> /\ handler[h] = "call"
        /\ c \in Tools /\ outputs \in [Tools -> Nat]
        /\ \A k \in Handlers : Sessions!Tool(k) \in Tools
    BY EventsName DEF SessionsInv, SessionsTyped, Sessions!ToolCalled
  <1>2. \/ tracked' = tracked /\ handler' = [handler EXCEPT ![h] = "done"]
        \/ tracked' = tracked /\ handler' = [handler EXCEPT ![h] = "refuse"] /\ c \notin tracked.calls /\ CallsFull
        \/ /\ tracked' = t /\ handler' = [handler EXCEPT ![h] = "execute"]
           /\ c \in tracked.calls => c \notin tracked.sent /\ c \notin tracked.running
           /\ c \notin tracked.calls => ~CallsFull
    BY DEF Sessions!ToolCalled, Sessions!HandleToolCall, CallsFull, Sessions!Cardinality, Cardinality
  <1>3. \A k : Sessions!Tool(k)' = Sessions!Tool(k) BY <1>1 DEF Sessions!Tool
  <1> HIDE DEF c
  <1>4. ca \in SUBSET Tools /\ ru \in SUBSET Tools BY <1>1 DEF TrackedSession
  <1> HIDE DEF ca, ru
  <1>5. /\ t \in TrackedSession /\ SameTalk(tracked, t) /\ t.cleanup = tracked.cleanup /\ t.ending = tracked.ending
        /\ t.calls = ca /\ t.running = ru /\ t.sent = tracked.sent
    <2>1. t \in TrackedSession BY <1>1, <1>4 DEF TrackedSession
    <2>2. SameTalk(tracked, t) BY <1>1 DEF TrackedSession, SameTalk
    <2> QED BY <1>1, <2>1, <2>2 DEF TrackedSession
  <1> HIDE DEF t
  <1>6. /\ tracked' \in TrackedSession /\ SameTalk(tracked, tracked')
        /\ tracked'.cleanup = tracked.cleanup /\ tracked'.ending = tracked.ending
    BY <1>1, <1>2, <1>5 DEF SameTalk
  <1>7. handler' \in [Handlers -> HandlerAt] BY <1>1, <1>2 DEF HandlerAt
  <1>8. SessionsTyped'
    BY <1>1, <1>6, <1>7
    DEF SessionsInv, SessionsTyped, TrackedSession, SessionAuthority, BridgeSession, ClientSession, HandlerAt
  <1>9. EventsInTurn' BY <1>1, <1>6, TalkUntouched
  <1>10. BridgeKnows'
    <2>1. bridge.state # "none" BY <1>1 DEF BridgeKnows
    <2> QED BY <1>1, <1>6, <2>1, BridgeGoesOn DEF BridgeKnows
  <1>11. OneAtATime' /\ OutputsSent'
    <2>1. CASE tracked' = tracked /\ handler' = [handler EXCEPT ![h] = "done"]
      <3>1. SameTools(tracked, tracked') BY <2>1 DEF SameTools
      <3>2. \A k \in Handlers : handler'[k] = handler[k] \/ handler'[k] \notin AtWork \cup {"refuse"}
        BY <1>1, <2>1 DEF AtWork
      <3> QED BY <1>1, <3>1, <3>2, ToolsUntouched
    <2>2. CASE tracked' = tracked /\ handler' = [handler EXCEPT ![h] = "refuse"] /\ c \notin tracked.calls /\ CallsFull
      <3>1. \A k \in Handlers : k # h => handler'[k] = handler[k] BY <1>1, <2>2
      <3>2. handler'[h] = "refuse" BY <1>1, <2>2
      <3>3. \A k \in Handlers, d \in Tools : BusyWith(k, d)' => BusyWith(k, d)
        <4> SUFFICES ASSUME NEW k \in Handlers, NEW d \in Tools, BusyWith(k, d)' PROVE BusyWith(k, d) OBVIOUS
        <4>1. CASE k = h BY <1>3, <2>2, <3>2, <4>1 DEF BusyWith, c
        <4>2. CASE k # h BY <1>3, <2>2, <3>1, <4>2 DEF BusyWith
        <4> QED BY <4>1, <4>2
      <3>4. CallsFull' BY <2>2 DEF CallsFull
      <3>5. OneAtATime' BY <1>1, <2>2, <3>3, <3>4 DEF OneAtATime
      <3> QED BY <1>1, <2>2, <3>5 DEF OutputsSent
    <2>3. CASE /\ tracked' = t /\ handler' = [handler EXCEPT ![h] = "execute"]
               /\ c \in tracked.calls => c \notin tracked.sent /\ c \notin tracked.running
               /\ c \notin tracked.calls => ~CallsFull
      <3>1. \A k \in Handlers : k # h => handler'[k] = handler[k] BY <1>1, <2>3
      <3>2. handler'[h] = "execute" BY <1>1, <2>3
      <3>3. /\ tracked'.calls = tracked.calls \cup {c} /\ tracked'.running = tracked.running \cup {c}
            /\ tracked'.sent = tracked.sent
        BY <1>5, <2>3 DEF ca, ru
      <3>4. c \notin tracked.sent /\ c \notin tracked.running
        BY <1>1, <2>3 DEF OneAtATime
      <3>5. \A k \in Handlers : ~BusyWith(k, c) BY <1>1, <3>4 DEF OneAtATime
      <3>6. \A k \in Handlers, d \in Tools : k # h /\ d = c => ~BusyWith(k, d)'
        <4> SUFFICES ASSUME NEW k \in Handlers, NEW d \in Tools, k # h, d = c, BusyWith(k, d)' PROVE FALSE OBVIOUS
        <4>1. Sessions!Tool(k) = c BY <1>3 DEF BusyWith
        <4>2. CASE handler[k] = "refuse" BY <1>1, <2>3, <3>5, <4>1, <4>2 DEF OneAtATime, BusyWith
        <4>3. CASE handler[k] # "refuse" BY <3>1, <3>5, <4>1, <4>3 DEF BusyWith
        <4> QED BY <4>2, <4>3
      <3>7. \A k \in Handlers, d \in Tools : d # c /\ BusyWith(k, d)' => BusyWith(k, d)
        <4> SUFFICES ASSUME NEW k \in Handlers, NEW d \in Tools, d # c, BusyWith(k, d)' PROVE BusyWith(k, d) OBVIOUS
        <4>1. CASE k = h BY <1>3, <4>1 DEF BusyWith, c
        <4>2. CASE k # h BY <1>3, <3>1, <3>3, <4>2 DEF BusyWith
        <4> QED BY <4>1, <4>2
      <3>8. CallsFull => tracked'.calls = tracked.calls /\ CallsFull'
        BY <2>3, <3>3 DEF CallsFull
      <3>9. OneAtATime'
        <4>1. (tracked.running \subseteq tracked.calls)' BY <1>1, <3>3 DEF OneAtATime
        <4>2. (\A k \in Handlers, d \in Tools : BusyWith(k, d) => d \in tracked.running /\ d \notin tracked.sent)'
          BY <1>1, <3>3, <3>4, <3>7 DEF OneAtATime
        <4>3. (\A j, k \in Handlers, d \in Tools : BusyWith(j, d) /\ BusyWith(k, d) => j = k)'
          BY <1>1, <3>6, <3>7 DEF OneAtATime
        <4>4. (\A k \in Handlers : handler[k] = "refuse" /\ Sessions!Tool(k) \notin tracked.calls => CallsFull)'
          BY <1>1, <1>3, <3>1, <3>2, <3>3, <3>8 DEF OneAtATime
        <4>5. (\A d \in Tools : d \notin tracked.calls /\ (d \in tracked.sent \/ outputs[d] > 0) => CallsFull)'
          BY <1>1, <3>3, <3>8 DEF OneAtATime
        <4> QED BY <4>1, <4>2, <4>3, <4>4, <4>5 DEF OneAtATime
      <3>10. OutputsSent'
        <4>1. c \notin tracked.calls => outputs[c] = 0 BY <1>1, <2>3 DEF OneAtATime
        <4> QED BY <1>1, <3>3, <4>1 DEF OutputsSent
      <3> QED BY <3>9, <3>10
    <2> QED BY <1>2, <2>1, <2>2, <2>3
  <1> QED BY <1>8, <1>9, <1>10, <1>11 DEF SessionsInv

LEMMA ExecuteStep ==
    ASSUME SessionsInv, SessionEvents, NEW h \in Handlers, Sessions!ExecuteToolCall(h)
    PROVE  SessionsInv'
  <1>1. /\ tracked \in TrackedSession /\ handler \in [Handlers -> HandlerAt] /\ BridgeKnows /\ bridge \in BridgeSession
        /\ UNCHANGED <<session, tracked, operation, outputs, authority, emitted, peer>> /\ handler[h] = "execute"
        /\ Sessions!Tool(h) \in Tools
    BY EventsName DEF SessionsInv, SessionsTyped, Sessions!ExecuteToolCall
  <1>2. \E x \in {"refuse", "bind", "answer"} : handler' = [handler EXCEPT ![h] = x]
    BY DEF Sessions!ExecuteToolCall
  <1>3. bridge' = bridge \/ bridge' = [bridge EXCEPT !.calls = bridge.calls \cup {Sessions!Tool(h)}]
    BY DEF Sessions!ExecuteToolCall
  <1>4. bridge' \in BridgeSession /\ bridge'.state = bridge.state BY <1>1, <1>3 DEF BridgeSession
  <1>5. /\ handler' \in [Handlers -> HandlerAt]
        /\ \A k \in Handlers : handler'[k] = handler[k] \/ (handler[k] \in AtWork /\ handler'[k] \in AtWork \cup {"refuse"})
    BY <1>1, <1>2 DEF HandlerAt, AtWork
  <1>6. SameTools(tracked, tracked') /\ SameTalk(tracked, tracked') BY <1>1 DEF SameTools, SameTalk
  <1>7. OneAtATime' /\ OutputsSent' BY <1>1, <1>5, <1>6, ToolsUntouched
  <1>8. EventsInTurn' BY <1>1, <1>6, TalkUntouched
  <1>9. SessionsTyped'
    BY <1>1, <1>4, <1>5
    DEF SessionsInv, SessionsTyped, TrackedSession, SessionAuthority, BridgeSession, ClientSession, HandlerAt
  <1>10. BridgeKnows'
    <2>1. bridge.state # "none" BY <1>1 DEF BridgeKnows
    <2> QED BY <1>1, <1>4, <2>1, BridgeGoesOn DEF BridgeKnows
  <1> QED BY <1>7, <1>8, <1>9, <1>10 DEF SessionsInv

LEMMA OperationMoves ==
    ASSUME SessionsInv, SessionEvents, UNCHANGED <<session, tracked, bridge, outputs, authority, emitted, peer>>,
           handler' \in [Handlers -> HandlerAt],
           \A k \in Handlers : handler'[k] = handler[k] \/ (handler[k] \in AtWork /\ handler'[k] \in AtWork),
           operation' \in [Tools -> {[at |-> "none"], [at |-> "running"]}],
           bridge.state # "none",
           \A c \in Tools : operation'[c].at = "running" => operation[c].at = "running" \/ bridge.state = "live"
    PROVE  SessionsInv'
  <1>1. SameTools(tracked, tracked') /\ SameTalk(tracked, tracked') BY DEF SameTools, SameTalk
  <1>2. OneAtATime' /\ OutputsSent' BY <1>1, ToolsUntouched
  <1>3. EventsInTurn' BY <1>1, TalkUntouched
  <1>4. SessionsTyped'
    BY DEF SessionsInv, SessionsTyped, TrackedSession, SessionAuthority, BridgeSession, ClientSession, HandlerAt
  <1>5. BridgeKnows' BY DEF SessionsInv, BridgeKnows
  <1> QED BY <1>2, <1>3, <1>4, <1>5 DEF SessionsInv

LEMMA BindStep ==
    ASSUME SessionsInv, SessionEvents, NEW h \in Handlers, Sessions!BindToolCall(h)
    PROVE  SessionsInv'
  <1>1. /\ handler \in [Handlers -> HandlerAt] /\ BridgeKnows
        /\ UNCHANGED <<session, tracked, bridge, outputs, authority, emitted, peer>>
        /\ operation \in [Tools -> {[at |-> "none"], [at |-> "running"]}]
    BY DEF SessionsInv, SessionsTyped, Sessions!BindToolCall
  <1>2. handler[h] = "bind" /\ \E x \in {"await", "answer"} : handler' = [handler EXCEPT ![h] = x]
    BY DEF Sessions!BindToolCall
  <1>3. handler' \in [Handlers -> HandlerAt] BY <1>1, <1>2 DEF HandlerAt
  <1>4. \A k \in Handlers : handler'[k] = handler[k] \/ (handler[k] \in AtWork /\ handler'[k] \in AtWork)
    BY <1>1, <1>2 DEF AtWork
  <1>5. bridge.state # "none" BY <1>1, <1>2 DEF BridgeKnows
  <1>6. \/ operation' = operation
        \/ bridge.state = "live" /\ \E x \in {operation[Sessions!Tool(h)], [at |-> "running"]} :
              operation' = [operation EXCEPT ![Sessions!Tool(h)] = x]
    BY DEF Sessions!BindToolCall, Sessions!MayExecute
  <1>7. /\ operation' \in [Tools -> {[at |-> "none"], [at |-> "running"]}]
        /\ \A c \in Tools : operation'[c].at = "running" => operation[c].at = "running" \/ bridge.state = "live"
    <2>1. Sessions!Tool(h) \in Tools BY EventsName DEF SessionsInv
    <2> QED BY <1>1, <1>6, <2>1
  <1> QED BY <1>1, <1>3, <1>4, <1>5, <1>7, OperationMoves

LEMMA OperationEndsStep ==
    ASSUME SessionsInv, SessionEvents, NEW c \in Tools, Sessions!OperationEnds(c)
    PROVE  SessionsInv'
  <1>1. /\ handler \in [Handlers -> HandlerAt] /\ BridgeKnows
        /\ UNCHANGED <<session, tracked, bridge, outputs, authority, emitted, peer>>
        /\ operation \in [Tools -> {[at |-> "none"], [at |-> "running"]}]
        /\ operation[c].at = "running" /\ operation' = [operation EXCEPT ![c] = [at |-> "none"]]
    BY DEF SessionsInv, SessionsTyped, Sessions!OperationEnds, Sessions!NoOperation
  <1>2. handler' = [k \in Handlers |-> IF handler[k] = "await" /\ Sessions!Tool(k) = c THEN "answer" ELSE handler[k]]
    BY DEF Sessions!OperationEnds
  <1>3. handler' \in [Handlers -> HandlerAt] BY <1>1, <1>2 DEF HandlerAt
  <1>4. \A k \in Handlers : handler'[k] = handler[k] \/ (handler[k] \in AtWork /\ handler'[k] \in AtWork)
    BY <1>2 DEF AtWork
  <1>5. bridge.state # "none" BY <1>1 DEF BridgeKnows
  <1>6. /\ operation' \in [Tools -> {[at |-> "none"], [at |-> "running"]}]
        /\ \A d \in Tools : operation'[d].at = "running" => operation[d].at = "running"
    BY <1>1
  <1> QED BY <1>1, <1>3, <1>4, <1>5, <1>6, OperationMoves

\* The one handler that is busy with a call sends its output, and is done.
LEMMA SendStep ==
    ASSUME SessionsInv, SessionEvents, NEW h \in Handlers, Sessions!SendOutput(h)
    PROVE  SessionsInv'
  <1> DEFINE c == Sessions!Tool(h)
             loose == handler[h] = "refuse" /\ c \notin tracked.calls
             sends == handler[h] = "refuse" \/ ~tracked.aborted
  <1>1. /\ tracked \in TrackedSession /\ handler \in [Handlers -> HandlerAt] /\ BridgeKnows /\ OneAtATime /\ OutputsSent
        /\ UNCHANGED <<session, bridge, operation, authority, emitted, peer>> /\ handler[h] \in {"answer", "refuse"}
        /\ c \in Tools /\ outputs \in [Tools -> Nat]
        /\ handler' = [handler EXCEPT ![h] = "done"]
    BY EventsName DEF SessionsInv, SessionsTyped, Sessions!SendOutput
  <1>2. PICK reaches \in BOOLEAN, hears \in BOOLEAN :
          /\ hears => reaches
          /\ ~sends => ~reaches
          /\ "giveup" \notin session.active => hears = sends
          /\ outputs' = [outputs EXCEPT ![c] = IF reaches THEN outputs[c] + 1 ELSE outputs[c]]
          /\ tracked' = [tracked EXCEPT !.running = IF loose THEN tracked.running ELSE tracked.running \ {c},
                                        !.sent = IF hears THEN tracked.sent \cup {c} ELSE tracked.sent]
    BY DEF Sessions!SendOutput, Sessions!Unremembered
  <1> DEFINE ru == IF loose THEN tracked.running ELSE tracked.running \ {c}
             se == IF hears THEN tracked.sent \cup {c} ELSE tracked.sent
             t == [tracked EXCEPT !.running = ru, !.sent = se]
             o == IF reaches THEN outputs[c] + 1 ELSE outputs[c]
  <1>3. tracked' = t /\ outputs' = [outputs EXCEPT ![c] = o] BY <1>2
  <1>4. ~loose => BusyWith(h, c) BY <1>1 DEF BusyWith
  <1>5. loose => CallsFull BY <1>1 DEF OneAtATime
  <1>6. \A k : Sessions!Tool(k)' = Sessions!Tool(k) BY <1>1 DEF Sessions!Tool
  <1>7. "giveup" \notin session.active => hears = reaches BY <1>2
  <1>8. loose => c \notin tracked.calls OBVIOUS
  <1> HIDE DEF c, loose, sends
  <1>9. ru \in SUBSET Tools /\ se \in SUBSET Tools /\ o \in Nat BY <1>1 DEF TrackedSession
  <1> HIDE DEF ru, se, o
  <1>10. /\ t \in TrackedSession /\ SameTalk(tracked, t) /\ t.cleanup = tracked.cleanup /\ t.ending = tracked.ending
         /\ t.calls = tracked.calls /\ t.running = ru /\ t.sent = se
    <2>1. t \in TrackedSession BY <1>1, <1>9 DEF TrackedSession
    <2>2. SameTalk(tracked, t) BY <1>1 DEF TrackedSession, SameTalk
    <2> QED BY <1>1, <2>1, <2>2 DEF TrackedSession
  <1> HIDE DEF t
  <1>11. handler' \in [Handlers -> HandlerAt] BY <1>1 DEF HandlerAt
  <1>12. outputs' \in [Tools -> Nat] /\ outputs'[c] = o /\ \A d \in Tools : d # c => outputs'[d] = outputs[d]
    BY <1>1, <1>3, <1>9
  <1>13. SessionsTyped'
    BY <1>1, <1>3, <1>10, <1>11, <1>12
    DEF SessionsInv, SessionsTyped, TrackedSession, SessionAuthority, BridgeSession, ClientSession, HandlerAt
  <1>14. EventsInTurn' BY <1>1, <1>3, <1>10, TalkUntouched
  <1>15. BridgeKnows'
    <2>1. bridge.state # "none" BY <1>1 DEF BridgeKnows
    <2> QED BY <1>1, <1>3, <1>10, <2>1, BridgeGoesOn DEF BridgeKnows
  <1>16. handler'[h] = "done" /\ \A k \in Handlers : k # h => handler'[k] = handler[k] BY <1>1
  <1>17. /\ tracked'.calls = tracked.calls
         /\ tracked'.running = (IF loose THEN tracked.running ELSE tracked.running \ {c})
         /\ tracked'.sent = (IF hears THEN tracked.sent \cup {c} ELSE tracked.sent)
    BY <1>3, <1>10 DEF ru, se
  <1>18. \A k \in Handlers, d \in Tools : BusyWith(k, d)' => BusyWith(k, d) /\ k # h
    <2> SUFFICES ASSUME NEW k \in Handlers, NEW d \in Tools, BusyWith(k, d)' PROVE BusyWith(k, d) /\ k # h OBVIOUS
    <2>1. k # h BY <1>16 DEF BusyWith
    <2> QED BY <1>6, <1>16, <1>17, <2>1 DEF BusyWith
  <1>19. \A k \in Handlers, d \in Tools : BusyWith(k, d)' => d # c
    BY <1>1, <1>4, <1>8, <1>18 DEF OneAtATime
  <1>20. CallsFull' <=> CallsFull BY <1>17 DEF CallsFull
  <1>21. OneAtATime'
    <2>1. (tracked.running \subseteq tracked.calls)' BY <1>1, <1>17 DEF OneAtATime
    <2>2. (\A k \in Handlers, d \in Tools : BusyWith(k, d) => d \in tracked.running /\ d \notin tracked.sent)'
      BY <1>1, <1>17, <1>18, <1>19 DEF OneAtATime
    <2>3. (\A j, k \in Handlers, d \in Tools : BusyWith(j, d) /\ BusyWith(k, d) => j = k)'
      BY <1>1, <1>18 DEF OneAtATime
    <2>4. (\A k \in Handlers : handler[k] = "refuse" /\ Sessions!Tool(k) \notin tracked.calls => CallsFull)'
      BY <1>1, <1>6, <1>16, <1>17, <1>20 DEF OneAtATime
    <2>5. (\A d \in Tools : d \notin tracked.calls /\ (d \in tracked.sent \/ outputs[d] > 0) => CallsFull)'
      <3>1. c \notin tracked.calls => CallsFull BY <1>1, <1>4, <1>5 DEF OneAtATime
      <3> QED BY <1>1, <1>12, <1>17, <1>20, <3>1 DEF OneAtATime
    <2> QED BY <2>1, <2>2, <2>3, <2>4, <2>5 DEF OneAtATime
  <1>22. OutputsSent'
    <2> SUFFICES ASSUME "giveup" \notin session.active, NEW d \in tracked.calls
                 PROVE  outputs'[d] = 0 \/ (outputs'[d] = 1 /\ d \in tracked'.sent)
      BY <1>1, <1>17 DEF OutputsSent
    <2>1. d \in Tools /\ (outputs[d] = 0 \/ (outputs[d] = 1 /\ d \in tracked.sent))
      BY <1>1 DEF OutputsSent, TrackedSession
    <2>2. CASE d # c BY <1>12, <1>17, <2>1, <2>2
    <2>3. CASE d = c
      <3>1. c \notin tracked.sent BY <1>1, <1>4, <1>8, <2>3 DEF OneAtATime
      <3>2. outputs[c] = 0 BY <2>1, <2>3, <3>1
      <3>3. CASE hears BY <1>7, <1>12, <1>17, <2>3, <3>2, <3>3 DEF o
      <3>4. CASE ~hears BY <1>7, <1>12, <2>3, <3>2, <3>4 DEF o
      <3> QED BY <3>3, <3>4
    <2> QED BY <2>2, <2>3
  <1> QED BY <1>13, <1>14, <1>15, <1>21, <1>22 DEF SessionsInv

\* The bridge forgets a session none of whose tools runs; until then nobody
\* asks the host to clean it up.
LEMMA ForgetsStep == ASSUME SessionsInv, SessionEvents, Sessions!BridgeForgets PROVE SessionsInv'
  <1>1. /\ UNCHANGED <<session, tracked, handler, operation, outputs, authority, emitted, peer>> /\ BridgeKnows
        /\ bridge \in BridgeSession /\ bridge.state = "terminal" /\ bridge' = [bridge EXCEPT !.state = "gone"]
        /\ \A c \in Tools : operation[c].at = "none"
    BY DEF SessionsInv, SessionsTyped, Sessions!BridgeForgets
  <1>2. bridge' \in BridgeSession /\ bridge'.state = "gone" BY <1>1 DEF BridgeSession
  <1>3. SameTools(tracked, tracked') /\ SameTalk(tracked, tracked') BY <1>1 DEF SameTools, SameTalk
  <1>4. OneAtATime' /\ OutputsSent' BY <1>1, <1>3, ToolsUntouched
  <1>5. EventsInTurn' BY <1>1, <1>3, TalkUntouched
  <1>6. SessionsTyped'
    <2>1. UNCHANGED <<session, tracked, handler, operation, outputs, authority, emitted, peer>> BY <1>1
    <2> QED BY <1>2, <2>1
        DEF SessionsInv, SessionsTyped, TrackedSession, SessionAuthority, BridgeSession, ClientSession, HandlerAt
  <1>7. BridgeKnows' BY <1>1, <1>2 DEF BridgeKnows
  <1> QED BY <1>4, <1>5, <1>6, <1>7 DEF SessionsInv

LEMMA HangUpStep == ASSUME SessionsInv, SessionEvents, Sessions!HangUp PROVE SessionsInv'
  <1> DEFINE t == [tracked EXCEPT !.aborted = TRUE]
             n == authority.tries + 1
             a == [authority EXCEPT !.hangup = "bridge", !.tries = n]
  <1>1. /\ tracked \in TrackedSession /\ authority \in SessionAuthority /\ BridgeKnows
        /\ UNCHANGED <<session, handler, operation, outputs, emitted, peer>>
        /\ tracked.state # "none" /\ tracked' = t /\ authority' = a /\ bridge' = Sessions!Terminated
    BY DEF SessionsInv, SessionsTyped, Sessions!HangUp
  <1>2. n \in Int BY <1>1 DEF SessionAuthority
  <1> HIDE DEF n
  <1>3. /\ a \in SessionAuthority /\ a.hosts = authority.hosts /\ a.cleanup = authority.cleanup
    <2>1. a \in SessionAuthority BY <1>1, <1>2 DEF SessionAuthority
    <2> QED BY <1>1, <2>1 DEF SessionAuthority
  <1>4. /\ t \in TrackedSession /\ SameTools(tracked, t) /\ SameTalk(tracked, t)
        /\ t.ending = tracked.ending /\ t.cleanup = tracked.cleanup
    <2>1. t \in TrackedSession BY <1>1 DEF TrackedSession
    <2>2. SameTools(tracked, t) BY <1>1 DEF TrackedSession, SameTools
    <2>3. SameTalk(tracked, t) BY <1>1 DEF TrackedSession, SameTalk
    <2> QED BY <1>1, <2>1, <2>2, <2>3 DEF TrackedSession
  <1> HIDE DEF t, a
  <1>5. bridge.state # "none" BY <1>1 DEF BridgeKnows
  <1>6. (a.hosts > 0 \/ a.cleanup = "host" \/ t.ending = "host" \/ t.cleanup = "cleaned") => bridge.state = "gone"
    BY <1>1, <1>3, <1>4 DEF BridgeKnows
  <1> QED BY <1>1, <1>3, <1>4, <1>5, <1>6, SessionGoesOn

LEMMA HangupEndsProviderStep == ASSUME SessionsInv, SessionEvents, Sessions!HangupEndsProvider PROVE SessionsInv'
  <1> DEFINE s == IF tracked.state = "open" THEN "provider_ended" ELSE tracked.state
             t == [tracked EXCEPT !.state = s]
             c == IF authority.cleaned \/ authority.cleanup # "idle" THEN authority.cleanup ELSE "bridge"
             a == [authority EXCEPT !.ended = TRUE, !.hangup = "cleanup", !.cleanup = c]
             b == [authority EXCEPT !.hangup = "idle"]
  <1>1. /\ tracked \in TrackedSession /\ authority \in SessionAuthority /\ BridgeKnows
        /\ UNCHANGED <<session, handler, bridge, operation, outputs, emitted, peer>>
        /\ authority.hangup = "bridge"
    BY DEF SessionsInv, SessionsTyped, Sessions!HangupEndsProvider
  <1>11. \/ tracked' = Sessions!EndsAt(tracked) /\ authority' = a
         \/ tracked' = tracked /\ authority' = b
    BY DEF Sessions!HangupEndsProvider
  <1>2. Sessions!EndsAt(tracked) = t BY <1>1 DEF Sessions!EndsAt, TrackedSession
  <1>3. /\ s \in {"none", "open", "provider_ended", "ended", "forgotten"}
        /\ c \in {"idle", "bridge", "host", "failed"} /\ (c = "host" => authority.cleanup = "host")
    BY <1>1 DEF TrackedSession, SessionAuthority
  <1> HIDE DEF s, c
  <1>4. /\ t \in TrackedSession /\ SameTools(tracked, t) /\ SameTalk(tracked, t)
        /\ t.ending = tracked.ending /\ t.cleanup = tracked.cleanup
    <2>1. t \in TrackedSession BY <1>1, <1>3 DEF TrackedSession
    <2>2. SameTools(tracked, t) BY <1>1 DEF TrackedSession, SameTools
    <2>3. SameTalk(tracked, t) BY <1>1 DEF TrackedSession, SameTalk
    <2> QED BY <1>1, <2>1, <2>2, <2>3 DEF TrackedSession
  <1>5. /\ a \in SessionAuthority /\ a.hosts = authority.hosts /\ a.cleanup = c
        /\ b \in SessionAuthority /\ b.hosts = authority.hosts /\ b.cleanup = authority.cleanup
    <2>1. a \in SessionAuthority BY <1>1, <1>3 DEF SessionAuthority
    <2>2. b \in SessionAuthority BY <1>1 DEF SessionAuthority
    <2> QED BY <1>1, <2>1, <2>2 DEF SessionAuthority
  <1> HIDE DEF t, a, b
  <1>6. bridge.state # "none" BY <1>1 DEF BridgeKnows
  <1>7. SameTools(tracked, tracked) /\ SameTalk(tracked, tracked) BY DEF SameTools, SameTalk
  <1>8. /\ (a.hosts > 0 \/ a.cleanup = "host" \/ t.ending = "host" \/ t.cleanup = "cleaned") => bridge.state = "gone"
        /\ (b.hosts > 0 \/ b.cleanup = "host" \/ tracked.ending = "host" \/ tracked.cleanup = "cleaned") => bridge.state = "gone"
    BY <1>1, <1>3, <1>4, <1>5 DEF BridgeKnows
  <1>9. CASE tracked' = t /\ authority' = a BY <1>1, <1>4, <1>5, <1>6, <1>8, <1>9, SessionGoesOn
  <1>10. CASE tracked' = tracked /\ authority' = b BY <1>1, <1>5, <1>6, <1>7, <1>8, <1>10, SessionGoesOn
  <1> QED BY <1>2, <1>9, <1>10, <1>11

LEMMA HangupEndsStep == ASSUME SessionsInv, SessionEvents, Sessions!HangupEnds PROVE SessionsInv'
  <1> DEFINE t == [tracked EXCEPT !.state = "ended"]
             a == [authority EXCEPT !.hangup = "idle", !.terminal = authority.cleaned, !.cleanup = "idle"]
  <1>1. /\ tracked \in TrackedSession /\ authority \in SessionAuthority /\ BridgeKnows
        /\ UNCHANGED <<session, handler, bridge, operation, outputs, emitted, peer>>
        /\ authority.hangup = "cleanup" /\ authority' = a /\ tracked' \in {t, tracked}
    BY DEF SessionsInv, SessionsTyped, Sessions!HangupEnds
  <1>2. a \in SessionAuthority /\ a.hosts = authority.hosts /\ a.cleanup = "idle"
    <2>1. a \in SessionAuthority BY <1>1 DEF SessionAuthority
    <2> QED BY <1>1, <2>1 DEF SessionAuthority
  <1>3. /\ t \in TrackedSession /\ SameTools(tracked, t) /\ SameTalk(tracked, t)
        /\ t.ending = tracked.ending /\ t.cleanup = tracked.cleanup
    <2>1. t \in TrackedSession BY <1>1 DEF TrackedSession
    <2>2. SameTools(tracked, t) BY <1>1 DEF TrackedSession, SameTools
    <2>3. SameTalk(tracked, t) BY <1>1 DEF TrackedSession, SameTalk
    <2> QED BY <1>1, <2>1, <2>2, <2>3 DEF TrackedSession
  <1> HIDE DEF t, a
  <1>4. SameTools(tracked, tracked) /\ SameTalk(tracked, tracked) BY DEF SameTools, SameTalk
  <1>5. bridge.state # "none" BY <1>1 DEF BridgeKnows
  <1>6. (a.hosts > 0 \/ a.cleanup = "host" \/ tracked.ending = "host" \/ tracked.cleanup = "cleaned") => bridge.state = "gone"
    BY <1>1, <1>2 DEF BridgeKnows
  <1>7. CASE tracked' = t BY <1>1, <1>2, <1>3, <1>5, <1>6, <1>7, SessionGoesOn
  <1>8. CASE tracked' = tracked BY <1>1, <1>2, <1>4, <1>5, <1>6, <1>8, SessionGoesOn
  <1> QED BY <1>1, <1>7, <1>8

LEMMA CleanUpStep ==
    ASSUME SessionsInv, SessionEvents, Sessions!CleanUp \/ Sessions!CleanUpReaches
    PROVE  SessionsInv'
  <1> DEFINE n == authority.tries + 1
             m == authority.hosts + 1
             a == [authority EXCEPT !.cleanup = "bridge", !.tries = n]
             b == [authority EXCEPT !.cleanup = "idle", !.cleaned = TRUE]
             c == [authority EXCEPT !.cleanup = "host", !.hosts = m]
  <1>1. /\ tracked \in TrackedSession /\ authority \in SessionAuthority /\ BridgeKnows /\ bridge \in BridgeSession
        /\ UNCHANGED <<session, tracked, handler, operation, outputs, emitted, peer>>
    BY DEF SessionsInv, SessionsTyped, Sessions!CleanUp, Sessions!CleanUpReaches
  <1>2. n \in Int /\ m \in Int BY <1>1 DEF SessionAuthority
  <1>3. \/ tracked.state # "none" /\ authority' = a /\ bridge' = Sessions!Terminated
        \/ authority.cleanup = "bridge" /\ Sessions!BridgeDone /\ authority' \in {b, c} /\ bridge' = bridge
    BY DEF Sessions!CleanUp, Sessions!CleanUpReaches
  <1> HIDE DEF n, m
  <1>4. /\ a \in SessionAuthority /\ a.hosts = authority.hosts /\ a.cleanup = "bridge"
        /\ b \in SessionAuthority /\ b.hosts = authority.hosts /\ b.cleanup = "idle"
        /\ c \in SessionAuthority
    <2>1. a \in SessionAuthority BY <1>1, <1>2 DEF SessionAuthority
    <2>2. b \in SessionAuthority BY <1>1 DEF SessionAuthority
    <2>3. c \in SessionAuthority BY <1>1, <1>2 DEF SessionAuthority
    <2> QED BY <1>1, <2>1, <2>2, <2>3 DEF SessionAuthority
  <1> HIDE DEF a, b, c
  <1>5. bridge.state # "none" BY <1>1, <1>3 DEF BridgeKnows
  <1>6. Sessions!BridgeDone => bridge.state = "gone" BY <1>1, <1>5 DEF Sessions!BridgeDone, BridgeSession
  <1>7. /\ (a.hosts > 0 \/ a.cleanup = "host" \/ tracked.ending = "host" \/ tracked.cleanup = "cleaned") => bridge.state = "gone"
        /\ (b.hosts > 0 \/ b.cleanup = "host" \/ tracked.ending = "host" \/ tracked.cleanup = "cleaned") => bridge.state = "gone"
    BY <1>1, <1>4 DEF BridgeKnows
  <1>8. SameTools(tracked, tracked) /\ SameTalk(tracked, tracked) BY DEF SameTools, SameTalk
  <1>9. CASE authority' = a /\ bridge' = Sessions!Terminated
    BY <1>1, <1>4, <1>5, <1>7, <1>8, <1>9, SessionGoesOn
  <1>10. CASE authority' = b /\ bridge' = bridge
    BY <1>1, <1>4, <1>5, <1>7, <1>8, <1>10, SessionGoesOn
  <1>11. CASE authority' = c /\ bridge' = bridge /\ Sessions!BridgeDone
    BY <1>1, <1>4, <1>5, <1>6, <1>8, <1>11, SessionGoesOn
  <1> QED BY <1>3, <1>9, <1>10, <1>11

LEMMA CleanedStep == ASSUME SessionsInv, SessionEvents, Sessions!CleanUpReturns PROVE SessionsInv'
  <1>1. /\ tracked \in TrackedSession /\ authority \in SessionAuthority /\ BridgeKnows
        /\ UNCHANGED <<session, handler, bridge, operation, outputs, emitted, peer>>
        /\ authority.cleanup = "host"
    BY DEF SessionsInv, SessionsTyped, Sessions!CleanUpReturns
  <1>2. PICK ok \in BOOLEAN :
          /\ authority' = [authority EXCEPT !.hosts = authority.hosts - 1, !.cleaned = ok,
                             !.cleanup = IF ok \/ authority.hangup # "cleanup" THEN "idle" ELSE "failed"]
          /\ tracked' = IF ok THEN [tracked EXCEPT !.cleanup = "cleaned"] ELSE tracked
    BY DEF Sessions!CleanUpReturns
  <1> DEFINE n == authority.hosts - 1
             c == IF ok \/ authority.hangup # "cleanup" THEN "idle" ELSE "failed"
             a == [authority EXCEPT !.hosts = n, !.cleaned = ok, !.cleanup = c]
             t == [tracked EXCEPT !.cleanup = "cleaned"]
  <1>3. authority' = a /\ tracked' \in {t, tracked} BY <1>2
  <1>4. n \in Int /\ c \in {"idle", "bridge", "host", "failed"} BY <1>1 DEF SessionAuthority
  <1> HIDE DEF n, c
  <1>5. a \in SessionAuthority BY <1>1, <1>4 DEF SessionAuthority
  <1>6. t \in TrackedSession /\ SameTools(tracked, t) /\ SameTalk(tracked, t)
    <2>1. t \in TrackedSession BY <1>1 DEF TrackedSession
    <2>2. SameTools(tracked, t) BY <1>1 DEF TrackedSession, SameTools
    <2>3. SameTalk(tracked, t) BY <1>1 DEF TrackedSession, SameTalk
    <2> QED BY <1>1, <2>1, <2>2, <2>3 DEF TrackedSession
  <1> HIDE DEF a, t
  <1>7. bridge.state = "gone" BY <1>1 DEF BridgeKnows
  <1>8. SameTools(tracked, tracked) /\ SameTalk(tracked, tracked) BY DEF SameTools, SameTalk
  <1>9. CASE tracked' = t BY <1>1, <1>3, <1>5, <1>6, <1>7, <1>9, SessionGoesOn
  <1>10. CASE tracked' = tracked BY <1>1, <1>3, <1>5, <1>7, <1>8, <1>10, SessionGoesOn
  <1> QED BY <1>3, <1>9, <1>10

LEMMA ProviderEndsStep == ASSUME SessionsInv, SessionEvents, Sessions!ProviderEnds PROVE SessionsInv'
  <1> DEFINE n == authority.hosts + 1
             m == authority.hosts - 1
             a == [authority EXCEPT !.hosts = n]
             b == [authority EXCEPT !.hosts = m]
             t == [tracked EXCEPT !.ending = "wait"]
             u == [tracked EXCEPT !.ending = "none", !.state = "ended"]
             v == [tracked EXCEPT !.ending = "host"]
             w == [tracked EXCEPT !.ending = "none", !.cleanup = "cleaned", !.state = "ended"]
             x == [tracked EXCEPT !.ending = "none"]
  <1>1. /\ tracked \in TrackedSession /\ authority \in SessionAuthority /\ BridgeKnows /\ bridge \in BridgeSession
        /\ UNCHANGED <<session, handler, operation, outputs, emitted, peer>>
        /\ tracked.ending # "none"
    BY DEF SessionsInv, SessionsTyped, Sessions!ProviderEnds
  <1>2. \/ tracked' = t /\ bridge' = Sessions!Terminated /\ authority' = authority
        \/ /\ Sessions!BridgeDone /\ bridge' = bridge
           /\ (tracked' = u /\ authority' = authority) \/ (tracked' = v /\ authority' = a)
        \/ tracked.ending = "host" /\ bridge' = bridge /\ tracked' \in {w, x} /\ authority' = b
    BY DEF Sessions!ProviderEnds
  <1>3. n \in Int /\ m \in Int /\ m < authority.hosts BY <1>1 DEF SessionAuthority
  <1> HIDE DEF n, m
  <1>4. /\ a \in SessionAuthority /\ b \in SessionAuthority
    <2>1. a \in SessionAuthority BY <1>1, <1>3 DEF SessionAuthority
    <2>2. b \in SessionAuthority BY <1>1, <1>3 DEF SessionAuthority
    <2> QED BY <1>1, <2>1, <2>2 DEF SessionAuthority
  <1>5. \A y \in {t, u, v, w, x} : y \in TrackedSession /\ SameTools(tracked, y) /\ SameTalk(tracked, y)
    <2>1. t \in TrackedSession /\ SameTools(tracked, t) /\ SameTalk(tracked, t)
      <3>1. t \in TrackedSession BY <1>1 DEF TrackedSession
      <3>2. SameTools(tracked, t) BY <1>1 DEF TrackedSession, SameTools
      <3>3. SameTalk(tracked, t) BY <1>1 DEF TrackedSession, SameTalk
      <3> QED BY <3>1, <3>2, <3>3
    <2>2. u \in TrackedSession /\ SameTools(tracked, u) /\ SameTalk(tracked, u)
      <3>1. u \in TrackedSession BY <1>1 DEF TrackedSession
      <3>2. SameTools(tracked, u) BY <1>1 DEF TrackedSession, SameTools
      <3>3. SameTalk(tracked, u) BY <1>1 DEF TrackedSession, SameTalk
      <3> QED BY <3>1, <3>2, <3>3
    <2>3. v \in TrackedSession /\ SameTools(tracked, v) /\ SameTalk(tracked, v)
      <3>1. v \in TrackedSession BY <1>1 DEF TrackedSession
      <3>2. SameTools(tracked, v) BY <1>1 DEF TrackedSession, SameTools
      <3>3. SameTalk(tracked, v) BY <1>1 DEF TrackedSession, SameTalk
      <3> QED BY <3>1, <3>2, <3>3
    <2>4. w \in TrackedSession /\ SameTools(tracked, w) /\ SameTalk(tracked, w)
      <3>1. w \in TrackedSession BY <1>1 DEF TrackedSession
      <3>2. SameTools(tracked, w) BY <1>1 DEF TrackedSession, SameTools
      <3>3. SameTalk(tracked, w) BY <1>1 DEF TrackedSession, SameTalk
      <3> QED BY <3>1, <3>2, <3>3
    <2>5. x \in TrackedSession /\ SameTools(tracked, x) /\ SameTalk(tracked, x)
      <3>1. x \in TrackedSession BY <1>1 DEF TrackedSession
      <3>2. SameTools(tracked, x) BY <1>1 DEF TrackedSession, SameTools
      <3>3. SameTalk(tracked, x) BY <1>1 DEF TrackedSession, SameTalk
      <3> QED BY <3>1, <3>2, <3>3
    <2> HIDE DEF t, u, v, w, x
    <2> QED BY <2>1, <2>2, <2>3, <2>4, <2>5
  <1>6. t.ending = "wait" /\ t.cleanup = tracked.cleanup /\ u.ending = "none" /\ u.cleanup = tracked.cleanup
    BY <1>1 DEF TrackedSession
  <1> HIDE DEF a, b, t, u, v, w, x
  <1>7. bridge.state # "none" BY <1>1 DEF BridgeKnows
  <1>8. Sessions!BridgeDone \/ tracked.ending = "host" => bridge.state = "gone"
    BY <1>1, <1>7 DEF Sessions!BridgeDone, BridgeSession, BridgeKnows
  <1>9. CASE tracked' = t /\ bridge' = Sessions!Terminated /\ authority' = authority
    <2>1. (authority.hosts > 0 \/ authority.cleanup = "host" \/ t.ending = "host" \/ t.cleanup = "cleaned") => bridge.state = "gone"
      BY <1>1, <1>6 DEF BridgeKnows
    <2>2. t \in TrackedSession /\ SameTools(tracked, t) /\ SameTalk(tracked, t) BY <1>5
    <2> QED BY <1>1, <1>7, <1>9, <2>1, <2>2, SessionGoesOn
  <1>10. ASSUME bridge.state = "gone", bridge' = bridge, NEW y \in {t, u, v, w, x}, tracked' = y,
                NEW d \in SessionAuthority, authority' = d
         PROVE  SessionsInv'
    <2>1. y \in TrackedSession /\ SameTools(tracked, y) /\ SameTalk(tracked, y) BY <1>5
    <2> QED BY <1>1, <1>7, <1>10, <2>1, SessionGoesOn
  <1> QED BY <1>1, <1>2, <1>4, <1>8, <1>9, <1>10

LEMMA SessionsStay ==
    ASSUME SessionsInv, SessionEvents, [Sessions!SessionsNext]_Sessions!sessionVars
    PROVE  SessionsInv'
  <1>1. CASE UNCHANGED Sessions!sessionVars BY <1>1, SessionQuiet DEF Sessions!sessionVars
  <1>2. ASSUME NEW b \in Bootstraps, Sessions!BootstrapAsks(b) PROVE SessionsInv'
    BY <1>2, SessionQuiet DEF Sessions!BootstrapAsks
  <1>3. CASE \E b \in Bootstraps : Sessions!BootstrapReturns(b) BY <1>3, BootstrapStep
  <1>4. CASE \E h \in Handlers : Sessions!EventArrives(h) \/ Sessions!EventHandled(h) \/ Sessions!ToolCalled(h)
                                 \/ Sessions!ExecuteToolCall(h) \/ Sessions!BindToolCall(h) \/ Sessions!SendOutput(h)
    BY <1>4, ArrivesStep, HandledStep, ToolCalledStep, ExecuteStep, BindStep, SendStep
  <1>5. CASE \E c \in Tools : Sessions!OperationEnds(c) BY <1>5, OperationEndsStep
  <1>6. CASE \/ Sessions!MakeRoom \/ Sessions!ProviderTerminated \/ Sessions!BridgeForgets \/ Sessions!HangUp
             \/ Sessions!HangupEndsProvider \/ Sessions!HangupEnds
    BY <1>6, MakeRoomStep, ProviderTerminatedStep, ForgetsStep, HangUpStep, HangupEndsProviderStep, HangupEndsStep
  <1>7. CASE \/ Sessions!ClientApplies \/ Sessions!CleanUp \/ Sessions!CleanUpReaches \/ Sessions!CleanUpReturns
             \/ Sessions!ProviderEnds
    BY <1>7, AppliesStep, CleanUpStep, CleanedStep, ProviderEndsStep
  <1> QED BY <1>1, <1>2, <1>3, <1>4, <1>5, <1>6, <1>7 DEF Sessions!SessionsNext

\* While the host cleans a session up, and ever after, none of its tools
\* runs; the output of a remembered tool call is sent once, however often
\* the provider repeats the call; and a client that has applied every event
\* of a running session agrees with the server, in whatever order the
\* handlers of events, hangup, cleanup and the provider's end interleave
\* (RealtimeToolBridge, handleProviderEvent, hangup, cleanup).
THEOREM SessionsAreSettled ==
    ASSUME SessionEvents PROVE SessionsSpec => []ToolsSettleInCall
  <1>1. Sessions!SessionsInit => SessionsInv BY SessionsBegin
  <1>2. SessionsInv /\ [Sessions!SessionsNext]_Sessions!sessionVars => SessionsInv' BY SessionsStay
  <1>3. SessionsInv => Sessions!ToolsSettleInCall BY SessionsSettle
  <1> QED BY <1>1, <1>2, <1>3, PTL DEF SessionsSpec, ToolsSettleInCall
================================================
