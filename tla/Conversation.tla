---------------- MODULE Conversation ----------------
(***************************************************************************)
(* What a conversation promises its readers, whoever projects it: turns    *)
(* are admitted one at a time; while a turn is open its streamed frames    *)
(* appear one by one, in stream order and each once; a turn closes once,   *)
(* and nothing is shown of it afterwards; a completed turn shows the whole *)
(* stream.                                                                 *)
(***************************************************************************)
EXTENDS Naturals, Sequences

CONSTANTS
    Turns,      \* the turns of the conversation
    Stream      \* the frames of a turn that readers see, in order

VARIABLES
    phase,      \* phase[t]: absent, open, or how the turn closed
    shown       \* shown[t]: the frames of t that readers see, as they appeared

abstractVars == <<phase, shown>>

Closed == {"completed", "cancelled", "failed"}

Init ==
    /\ phase = [t \in Turns |-> "absent"]
    /\ shown = [t \in Turns |-> <<>>]

Admit(t) ==
    /\ phase[t] = "absent"
    /\ \A u \in Turns : phase[u] # "open"
    /\ phase' = [phase EXCEPT ![t] = "open"]
    /\ UNCHANGED shown

Show(t) ==
    /\ phase[t] = "open"
    /\ Len(shown[t]) < Len(Stream)
    /\ shown' = [shown EXCEPT ![t] = Append(@, Stream[Len(@) + 1])]
    /\ UNCHANGED phase

Close(t) ==
    /\ phase[t] = "open"
    /\ \E end \in Closed :
         /\ end = "completed" => shown[t] = Stream
         /\ phase' = [phase EXCEPT ![t] = end]
    /\ UNCHANGED shown

Next == \E t \in Turns : Admit(t) \/ Show(t) \/ Close(t)

Spec == Init /\ [][Next]_abstractVars
================================================
