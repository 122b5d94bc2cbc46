---------------- MODULE Transcription ----------------
(***************************************************************************)
(* Dictation in the browser.  useTranscriptionControls                     *)
(* (react/transcription.tsx) owns one capture controller at a time         *)
(* (browser/audio.ts), uploads what it recorded, has it transcribed        *)
(* (transcription.ts, providers/openai-transcription.ts) and applies the   *)
(* text.  Every await of the hook may end after the user has cancelled,    *)
(* started again, switched the conversation or left.                       *)
(*                                                                         *)
(* Capture c is the c-th controller the hook made and also names what it   *)
(* recorded.  Bytes are counted in data events.  React renders a new       *)
(* conversation and runs the hook's effect in two steps.                   *)
(***************************************************************************)
EXTENDS Integers, Sequences, FiniteSets

CONSTANTS
    Plans,    \* records [moves, stray]: user moves, and browser events that
              \* nobody asked for (errors, a recorder that stops by itself)
    MaxBytes  \* options.maxBytes, in data events

VARIABLES
    plan,    \* the plan of this behaviour
    ui,      \* the hook's refs and published status
    caps,    \* caps[c]: capture controller c
    runs,    \* the upload and transcription runs in flight
    applied, \* the recordings whose text was applied, in order
    dropped  \* the recordings given up before their text was applied

dictationVars == <<plan, ui, caps, runs, applied, dropped>>

Startable == {"idle", "success", "error", "cancelled"}
Stoppable == {"requesting", "recording"}
Cancellable == {"requesting", "recording", "stopping", "uploading", "transcribing"}

------------------------------------------------
\* The hook's bookkeeping.  u stands for a value of ui.

\* Mutant: only the hook has to be mounted, whatever it does now.
IsCurrentUnchecked(u, run) == u.mounted
IsCurrent(u, run) == u.mounted /\ u.generation = run.generation /\ ~run.aborted

Publish(u, status, retryable) ==
    IF u.mounted THEN [u EXCEPT !.status = status, !.retryable = retryable] ELSE u

\* operation.current?.abort().
Aborted(rs) == {[r EXCEPT !.aborted = TRUE] : r \in rs}

\* What the hook still meant to apply, when it turns to something else.
GivenUp(u) ==
    {c \in DOMAIN caps : c = u.attempt \/ caps[c].generation = u.generation}
        \ {applied[i] : i \in DOMAIN applied}

------------------------------------------------
\* The capture controller.

NewCapture(generation) ==
    [generation |-> generation, status |-> "requesting", media |-> "asked", live |-> FALSE,
     recorder |-> "none", bytes |-> 0, stop |-> "none", left |-> FALSE]

\* releaseActive and publish({status: "failed"}): no track, no recorder.
Released(k, status) ==
    [k EXCEPT !.live = FALSE, !.recorder = "none", !.status = status, !.stop = "none"]

\* fail(code), and the subscriber that hears of it: the hook shows the
\* error and forgets the controller.
Fail(c) ==
    /\ caps' = [caps EXCEPT ![c] = Released(@, "failed")]
    /\ ui' = IF ui.capture = c /\ ui.mounted /\ ui.generation = caps[c].generation
             THEN [Publish(ui, "error", FALSE) EXCEPT !.capture = 0, !.stopping = FALSE]
             ELSE ui
    /\ UNCHANGED <<runs, dropped, applied>>

\* releaseCapture(TRUE): unsubscribe, cancel and dispose the controller.
Abandoned(c) ==
    IF c = 0 \/ caps[c].status \in {"failed", "stopped"}
    THEN caps ELSE [caps EXCEPT ![c] = [Released(@, "failed") EXCEPT !.left = TRUE]]

\* acceptCaptureResult: the first to hand over a current recording starts
\* its upload; stop() and onResult both hand it over.
AcceptCapture(c) ==
    IF ui.handled \/ ~(ui.mounted /\ ui.generation = caps[c].generation)
    THEN /\ ui' = [ui EXCEPT !.stopping = FALSE]
         /\ UNCHANGED runs
    ELSE /\ ui' = [Publish(ui, "uploading", FALSE) EXCEPT !.handled = TRUE, !.stopping = FALSE]
         /\ runs' = Aborted(runs) \union
                        {[kind |-> "upload", rec |-> c, generation |-> ui.generation,
                          aborted |-> FALSE]}

\* complete(): an empty recording and one beyond the limit fail; otherwise
\* the tracks are released before the result is handed over.
Complete(c) ==
    IF caps[c].bytes = 0 \/ caps[c].bytes > MaxBytes THEN Fail(c)
    ELSE /\ caps' = [caps EXCEPT ![c] = Released(@, "stopped")]
         /\ AcceptCapture(c)
         /\ UNCHANGED <<dropped, applied>>

\* initiateStop: a recorder that has already stopped completes at once.
InitiateStop(c, u) ==
    IF caps[c].recorder = "inactive" THEN Complete(c)
    ELSE /\ caps' = [caps EXCEPT ![c].stop = "operating"]
         /\ ui' = u
         /\ UNCHANGED <<runs, dropped, applied>>

\* getUserMedia answers.  A controller that was cancelled or disposed
\* meanwhile stops the tracks it is given.
MediaSettlesLate(c) ==
    /\ caps[c].media = "asked" /\ caps[c].left
    /\ caps' = [caps EXCEPT ![c].media = "settled"]
    /\ UNCHANGED <<plan, ui, runs, applied, dropped>>

MediaDenied(c) ==
    /\ caps[c].media = "asked" /\ ~caps[c].left
    /\ caps' = [caps EXCEPT ![c] = [Released(@, "failed") EXCEPT !.media = "settled"]]
    /\ ui' = [Publish(ui, "error", FALSE)
                  EXCEPT !.capture = 0, !.starting = FALSE, !.stopping = FALSE]
    /\ UNCHANGED <<plan, runs, applied, dropped>>

\* The recorder starts; a stop that was waiting for it follows.
MediaGranted(c) ==
    /\ caps[c].media = "asked" /\ ~caps[c].left
    /\ caps' = [caps EXCEPT ![c].media = "settled", ![c].live = TRUE,
                            ![c].recorder = "active", ![c].status = "recording",
                            ![c].stop = IF @ = "pending" THEN "operating" ELSE "none"]
    /\ ui' = [Publish(ui, IF ui.stopping THEN "stopping" ELSE "recording", FALSE)
                  EXCEPT !.starting = FALSE]
    /\ UNCHANGED <<plan, runs, applied, dropped>>

Records(c) == caps[c].status = "recording"

\* dataavailable: the limit stops the recording; one more event may come
\* before the recorder has stopped.
DataAvailable(c) ==
    /\ Records(c) /\ caps[c].recorder = "active" /\ caps[c].bytes <= MaxBytes
    /\ LET bytes == caps[c].bytes + 1
       IN  caps' = [caps EXCEPT ![c].bytes = bytes,
                                ![c].stop = IF bytes >= MaxBytes THEN "operating" ELSE @]
    /\ ui' = Publish(ui, IF ui.stopping THEN "stopping" ELSE "recording", FALSE)
    /\ UNCHANGED <<plan, runs, applied, dropped>>

\* The longest duration is over.
TimerFires(c) ==
    /\ Records(c) /\ caps[c].stop = "none"
    /\ InitiateStop(c, ui) /\ UNCHANGED plan

\* The recorder's stop event, asked for or not.
RecorderStops(c) ==
    /\ Records(c) /\ caps[c].recorder = "active"
    /\ IF caps[c].stop = "operating" THEN Complete(c) /\ UNCHANGED plan
       ELSE /\ plan.stray > 0 /\ plan' = [plan EXCEPT !.stray = @ - 1]
            /\ caps' = [caps EXCEPT ![c].recorder = "inactive"]
            /\ UNCHANGED <<ui, runs, applied, dropped>>

RecorderFails(c) ==
    /\ Records(c) /\ plan.stray > 0 /\ plan' = [plan EXCEPT !.stray = @ - 1]
    /\ Fail(c)

------------------------------------------------
\* What the user does.

Move == plan.moves > 0 /\ plan' = [plan EXCEPT !.moves = @ - 1]

Start ==
    /\ Move /\ ui.mounted /\ ~ui.starting /\ ui.status \in Startable
    /\ LET g == ui.generation + 1
           u == [Publish(ui, "requesting", FALSE)
                     EXCEPT !.generation = g, !.handled = FALSE, !.attempt = 0]
       IN  /\ dropped' = dropped \union GivenUp(ui)
           /\ runs' = Aborted(runs)
           /\ \/ /\ caps' = Append(caps, NewCapture(g))
                 /\ ui' = [u EXCEPT !.capture = Len(caps) + 1, !.starting = TRUE]
              \/ /\ ui' = Publish(u, "error", FALSE)   \* no recorder, no format
                 /\ UNCHANGED caps
    /\ UNCHANGED applied

Stop ==
    /\ Move /\ ~ui.stopping /\ ui.status \in Stoppable /\ ui.capture # 0
    /\ LET c == ui.capture
           u == [Publish(ui, "stopping", FALSE) EXCEPT !.stopping = TRUE]
       IN  IF caps[c].status = "requesting"
           THEN /\ caps' = [caps EXCEPT ![c].stop = "pending"]
                /\ ui' = u
                /\ UNCHANGED <<runs, dropped, applied>>
           ELSE InitiateStop(c, u)

\* What cancel, the effect and its cleanup have in common.
Turned(u, handled) ==
    [u EXCEPT !.generation = @ + 1, !.starting = FALSE, !.stopping = FALSE,
              !.running = FALSE, !.attempt = 0, !.handled = handled, !.capture = 0]

Cancel ==
    /\ Move /\ ui.mounted /\ ui.status \in Cancellable
    /\ ui' = Turned(Publish(ui, "cancelled", FALSE), TRUE)
    /\ caps' = Abandoned(ui.capture)
    /\ runs' = Aborted(runs)
    /\ dropped' = dropped \union GivenUp(ui)
    /\ UNCHANGED applied

\* Another conversation is rendered; the effect follows later.
Render ==
    /\ Move /\ ui.mounted /\ ~ui.switching
    /\ ui' = [ui EXCEPT !.switching = TRUE]
    /\ UNCHANGED <<caps, runs, applied, dropped>>

RunEffect ==
    /\ ui.mounted /\ ui.switching
    /\ ui' = [Turned(Publish(ui, "idle", FALSE), FALSE) EXCEPT !.switching = FALSE]
    /\ caps' = Abandoned(ui.capture)
    /\ runs' = Aborted(runs)
    /\ dropped' = dropped \union GivenUp(ui)
    /\ UNCHANGED <<plan, applied>>

Unmount ==
    /\ Move /\ ui.mounted
    /\ ui' = [Turned(ui, TRUE) EXCEPT !.mounted = FALSE]
    /\ caps' = Abandoned(ui.capture)
    /\ runs' = Aborted(runs)
    /\ dropped' = dropped \union GivenUp(ui)
    /\ UNCHANGED applied

------------------------------------------------
\* Upload, transcription and application.

\* runTranscription: at most one at a time.
RunTranscription(u, rs, c) ==
    IF u.running THEN ui' = u /\ runs' = rs
    ELSE /\ ui' = [Publish(u, "transcribing", FALSE) EXCEPT !.running = TRUE]
         /\ runs' = Aborted(rs) \union
                        {[kind |-> "transcribe", rec |-> c, generation |-> u.generation,
                          aborted |-> FALSE]}

Uploaded(run) ==
    /\ run.kind = "upload"
    /\ LET u == [ui EXCEPT !.capture = IF @ = run.rec THEN 0 ELSE @]
       IN  IF IsCurrent(ui, run)
           THEN RunTranscription([u EXCEPT !.attempt = run.rec], runs \ {run}, run.rec)
           ELSE ui' = u /\ runs' = runs \ {run}
    /\ UNCHANGED <<plan, caps, applied, dropped>>

\* A failed upload leaves nothing to retry; neither does a request that
\* could not be named.
UploadFails(run) ==
    /\ run.kind = "upload"
    /\ LET u == [ui EXCEPT !.capture = IF @ = run.rec THEN 0 ELSE @]
       IN  ui' = IF IsCurrent(ui, run) THEN Publish(u, "error", FALSE) ELSE u
    /\ runs' = runs \ {run}
    /\ UNCHANGED <<plan, caps, applied, dropped>>

\* executeTranscription: an aborted request ends as cancelled whatever the
\* provider does; a failure is retryable or not.
Ended(run, u) ==
    [u EXCEPT !.running = IF u.generation = run.generation THEN FALSE ELSE @]

TranscriptionFails(run, retryable) ==
    /\ run.kind = "transcribe"
    /\ ui' = IF IsCurrent(ui, run) THEN Publish(Ended(run, ui), "error", retryable)
             ELSE Ended(run, ui)
    /\ runs' = runs \ {run}
    /\ UNCHANGED <<plan, caps, applied, dropped>>

Transcribed(run) ==
    /\ run.kind = "transcribe"
    /\ IF IsCurrent(ui, run)
       THEN /\ applied' = Append(applied, run.rec)
            /\ runs' = (runs \ {run}) \union {[run EXCEPT !.kind = "apply"]}
            /\ UNCHANGED ui
       ELSE /\ ui' = Ended(run, ui)
            /\ runs' = runs \ {run}
            /\ UNCHANGED applied
    /\ UNCHANGED <<plan, caps, dropped>>

\* applyTranscript settles.
Applied(run, ok) ==
    /\ run.kind = "apply"
    /\ ui' = IF ~IsCurrent(ui, run) THEN Ended(run, ui)
             ELSE IF ok THEN [Publish(Ended(run, ui), "success", FALSE) EXCEPT !.attempt = 0]
             ELSE Publish(Ended(run, ui), "error", FALSE)
    /\ runs' = runs \ {run}
    /\ UNCHANGED <<plan, caps, applied, dropped>>

\* retry: the same recording under the same identity.
Retry ==
    /\ Move /\ ui.status = "error" /\ ui.retryable /\ ui.attempt # 0 /\ ~ui.running
    /\ RunTranscription([ui EXCEPT !.generation = @ + 1], Aborted(runs), ui.attempt)
    /\ UNCHANGED <<caps, applied, dropped>>

------------------------------------------------
DictationInit ==
    /\ plan \in Plans
    /\ ui = [status |-> "idle", retryable |-> FALSE, mounted |-> TRUE, switching |-> FALSE,
             generation |-> 1, capture |-> 0, handled |-> FALSE, attempt |-> 0,
             starting |-> FALSE, stopping |-> FALSE, running |-> FALSE]
    /\ caps = <<>> /\ runs = {} /\ applied = <<>> /\ dropped = {}

DictationNext ==
    \/ Start \/ Stop \/ Cancel \/ Retry \/ Render \/ RunEffect \/ Unmount
    \/ \E c \in DOMAIN caps :
          \/ MediaSettlesLate(c) \/ MediaDenied(c) \/ MediaGranted(c) \/ DataAvailable(c)
          \/ TimerFires(c) \/ RecorderStops(c) \/ RecorderFails(c)
    \/ \E run \in runs :
          \/ Uploaded(run) \/ UploadFails(run) \/ Transcribed(run)
          \/ \E b \in BOOLEAN : TranscriptionFails(run, b) \/ Applied(run, b)

------------------------------------------------
\* The text of a recording is applied at most once, and never after the
\* user cancelled it, recorded again, switched the conversation or left:
\* answers that arrive late are discarded.
TranscriptWanted ==
    /\ \A i, k \in DOMAIN applied : applied[i] = applied[k] => i = k
    /\ \A i \in DOMAIN applied : applied[i] \notin dropped
================================================
