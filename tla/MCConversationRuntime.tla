---------------- MODULE MCConversationRuntime ----------------
\* Instances of ConversationRuntime for TLC: scripts and symmetry.
EXTENDS ConversationRuntime, TLC

ShortScript  == <<"started", "text">>
TextScript   == <<"started", "text", "text">>
ToolScript   == <<"started", "text", "tool">>
StartScript  == <<"started">>

RuntimeSymmetry == Permutations(Runtimes)
================================================
