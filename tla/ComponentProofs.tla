---------------- MODULE ComponentProofs ----------------
(***************************************************************************)
(* Theorems about components that share no state with each other: the      *)
(* registry of runtimes, a turn that is observed through the gateway, the  *)
(* request protector of the server, dictation, presence, the activity of   *)
(* conversations, web search, the provider's context, attachments and the  *)
(* picker.                                                                 *)
(* Each part names the specification of its component, the invariant that  *)
(* its theorem is proved from, and why each step keeps it:                 *)
(*   - an entry of the registry that is replaced gives up its runtime;     *)
(*   - the applied events, those on the wire, those in the buffer and the  *)
(*     last one taken line up without a gap;                               *)
(*   - a reservation is the host's record of its key until it is settled,  *)
(*     and a record is completed just when its request was answered with   *)
(*     success;                                                            *)
(*   - one run of dictation at most has not been aborted, it is of the     *)
(*     hook's generation, and what was given up is of an earlier one;      *)
(*   - the later a presence record was published, the later its timestamp, *)
(*     and what is held is the latest received unless all has expired;     *)
(*   - what is published or shown of a conversation has been stored, and   *)
(*     its records only go on;                                             *)
(*   - a search that runs is remembered under its key, and who waits for   *)
(*     one waits for a search of its own query;                            *)
(*   - whatever a preflight holds fits its history, and it waits only for  *)
(*     a compaction of its own position;                                   *)
(*   - a staged record keeps its bytes, the call that made it has been     *)
(*     answered, and each reference handed on resolves or has expired;     *)
(*   - what the picker owns was asked for by an open call of it, and a call *)
(*     of its generation was made in its scope.                            *)
(***************************************************************************)
EXTENDS ClientComponents, ServerComponents, SequenceTheorems, TLAPS

CONSTANTS Prints,       \* what a request of the server may ask for
          Candidates    \* what the adapter of web search may return

------------------------------------------------
\* The registry of a user's runtimes.

RegistrySpec == Registry!RegistryInit /\ [][Registry!RegistryNext]_Registry!registryVars

RegistryInv ==
    /\ DOMAIN entries = Registry!Conversations /\ entries = [c \in Registry!Conversations |-> entries[c]]
    /\ DOMAIN opening = DOMAIN case.opens /\ DOMAIN mutating = DOMAIN case.mutations
    /\ alive \subseteq DOMAIN case.opens
    /\ Registry!RuntimesHeld

\* An entry that is replaced gives up its runtime, if it has one.
LEMMA EntryReplaced ==
    ASSUME RegistryInv, NEW c \in Registry!Conversations, NEW e, UNCHANGED case,
           DOMAIN opening' = DOMAIN opening, DOMAIN mutating' = DOMAIN mutating,
           entries' = [entries EXCEPT ![c] = e], alive' = alive \ Registry!Destroyed(c)
    PROVE  RegistryInv'
  <1>1. Registry!Conversations' = Registry!Conversations BY DEF Registry!Conversations
  <1>2. \A o : Registry!ConversationOf(o)' = Registry!ConversationOf(o) BY DEF Registry!ConversationOf
  <1>3. ASSUME NEW o \in alive'
        PROVE  entries'[Registry!ConversationOf(o)] = Registry!Entry("live", o)
    <2>1. entries[Registry!ConversationOf(o)] = Registry!Entry("live", o) /\ o \in alive
      BY <1>3 DEF RegistryInv, Registry!RuntimesHeld
    <2>2. Registry!ConversationOf(o) # c BY <1>3, <2>1 DEF Registry!Destroyed, Registry!Entry
    <2> QED BY <2>1, <2>2 DEF RegistryInv
  <1>4. Registry!RuntimesHeld' BY <1>2, <1>3 DEF Registry!RuntimesHeld, Registry!Entry
  <1> QED BY <1>1, <1>4 DEF RegistryInv

\* One that holds no runtime may be replaced without that.
LEMMA VacantReplaced ==
    ASSUME RegistryInv, NEW c \in Registry!Conversations, NEW e, UNCHANGED <<case, alive>>,
           DOMAIN opening' = DOMAIN opening, DOMAIN mutating' = DOMAIN mutating,
           entries[c].kind # "live", entries' = [entries EXCEPT ![c] = e]
    PROVE  RegistryInv'
  BY EntryReplaced DEF Registry!Destroyed

LEMMA EntriesKept ==
    ASSUME RegistryInv, UNCHANGED <<case, entries, alive>>,
           DOMAIN opening' = DOMAIN opening, DOMAIN mutating' = DOMAIN mutating
    PROVE  RegistryInv'
  BY DEF RegistryInv, Registry!Conversations, Registry!RuntimesHeld, Registry!ConversationOf, Registry!Entry

\* A construction that ends drops the entry only while it is its own.
LEMMA EntryDropped ==
    ASSUME RegistryInv, NEW o \in DOMAIN case.opens, UNCHANGED <<case, alive>>,
           DOMAIN opening' = DOMAIN opening, DOMAIN mutating' = DOMAIN mutating,
           entries' = Registry!Dropped(o)
    PROVE  RegistryInv'
  <1>1. Registry!ConversationOf(o) \in Registry!Conversations
    BY DEF Registry!ConversationOf, Registry!Conversations
  <1>2. CASE entries[Registry!ConversationOf(o)] = Registry!Entry("pending", o)
    <2>1. entries' = [entries EXCEPT ![Registry!ConversationOf(o)] = Registry!Vacant]
      BY <1>2 DEF Registry!Dropped
    <2>2. entries[Registry!ConversationOf(o)].kind # "live" BY <1>2 DEF Registry!Entry
    <2> QED BY <1>1, <2>1, <2>2, VacantReplaced
  <1>3. CASE entries[Registry!ConversationOf(o)] # Registry!Entry("pending", o)
    BY <1>3, EntriesKept DEF Registry!Dropped
  <1> QED BY <1>2, <1>3

LEMMA RegistryStep ==
    ASSUME RegistryInv, Registry!RegistryNext
    PROVE  RegistryInv'
  <1>0. /\ DOMAIN opening = DOMAIN case.opens /\ DOMAIN mutating = DOMAIN case.mutations
        /\ \A o \in DOMAIN opening : Registry!ConversationOf(o) \in Registry!Conversations
        /\ \A m \in DOMAIN mutating : Registry!Mutation(m).conversation \in Registry!Conversations
    BY DEF RegistryInv, Registry!ConversationOf, Registry!Mutation, Registry!Conversations
  <1>1. ASSUME NEW o \in DOMAIN opening, Registry!Open(o) PROVE RegistryInv'
    <2>1. DOMAIN opening' = DOMAIN opening BY <1>1 DEF Registry!Open
    <2>2. CASE UNCHANGED entries BY <1>1, <2>1, <2>2, EntriesKept DEF Registry!Open
    <2>3. CASE ~UNCHANGED entries
      BY <1>0, <1>1, <2>1, <2>3, VacantReplaced DEF Registry!Open
    <2> QED BY <2>2, <2>3
  <1>2. ASSUME NEW o \in DOMAIN opening, Registry!Load(o) PROVE RegistryInv'
    <2>1. DOMAIN opening' = DOMAIN opening BY <1>2 DEF Registry!Load, Registry!Settle
    <2> QED BY <1>0, <1>2, <2>1, EntriesKept, EntryDropped DEF Registry!Load
  <1>3. ASSUME NEW o \in DOMAIN opening, Registry!Build(o) PROVE RegistryInv'
    <2>1. DOMAIN opening' = DOMAIN opening BY <1>3 DEF Registry!Build, Registry!Settle
    <2>2. CASE entries' = Registry!Dropped(o) /\ UNCHANGED alive
      BY <1>0, <1>3, <2>1, <2>2, EntryDropped DEF Registry!Build
    <2>3. CASE /\ Registry!StillWanted(o) /\ alive' = alive \cup {o}
               /\ entries' = [entries EXCEPT ![Registry!ConversationOf(o)] = Registry!Entry("live", o)]
      <3>1. UNCHANGED <<case, mutating>> BY <1>3 DEF Registry!Build
      <3>2. ASSUME NEW x \in alive'
            PROVE  entries'[Registry!ConversationOf(x)] = Registry!Entry("live", x)
        <4>1. CASE x = o BY <1>0, <2>3, <4>1 DEF RegistryInv
        <4>2. CASE x # o
          <5>1. entries[Registry!ConversationOf(x)] = Registry!Entry("live", x)
            BY <2>3, <3>2, <4>2 DEF RegistryInv, Registry!RuntimesHeld
          <5>2. Registry!ConversationOf(x) # Registry!ConversationOf(o)
            BY <2>3, <5>1 DEF Registry!StillWanted, Registry!Entry
          <5> QED BY <2>3, <5>1, <5>2 DEF RegistryInv
        <4> QED BY <4>1, <4>2
      <3>3. Registry!RuntimesHeld'
        BY <3>1, <3>2 DEF Registry!RuntimesHeld, Registry!ConversationOf, Registry!Entry
      <3>4. Registry!Conversations' = Registry!Conversations BY <3>1 DEF Registry!Conversations
      <3> QED BY <1>0, <2>1, <2>3, <3>1, <3>3, <3>4 DEF RegistryInv
    <2> QED BY <1>3, <2>2, <2>3 DEF Registry!Build
  <1>4. ASSUME NEW o \in DOMAIN opening, Registry!WorkspaceOpened(o) PROVE RegistryInv'
    BY <1>4, EntriesKept DEF Registry!WorkspaceOpened
  <1>5. ASSUME NEW m \in DOMAIN mutating, Registry!MutateRead(m) PROVE RegistryInv'
    BY <1>5, EntriesKept DEF Registry!MutateRead
  <1>6. ASSUME NEW m \in DOMAIN mutating, Registry!MutateTake(m) PROVE RegistryInv'
    <2>1. DOMAIN opening' = DOMAIN opening /\ DOMAIN mutating' = DOMAIN mutating
      BY <1>6 DEF Registry!MutateTake, Registry!Invalidated
    <2> QED BY <1>0, <1>6, <2>1, EntriesKept, EntryReplaced DEF Registry!MutateTake
  <1>7. ASSUME NEW m \in DOMAIN mutating, Registry!MutateExecute(m) PROVE RegistryInv'
    <2>1. DOMAIN opening' = DOMAIN opening /\ DOMAIN mutating' = DOMAIN mutating
      BY <1>7 DEF Registry!MutateExecute
    <2>2. CASE entries[Registry!Mutation(m).conversation] = Registry!Entry("lifecycle", m)
      <3>1. entries[Registry!Mutation(m).conversation].kind # "live" BY <2>2 DEF Registry!Entry
      <3> QED BY <1>0, <1>7, <2>1, <2>2, <3>1, VacantReplaced DEF Registry!MutateExecute
    <2>3. CASE entries[Registry!Mutation(m).conversation] # Registry!Entry("lifecycle", m)
      BY <1>7, <2>1, <2>3, EntriesKept DEF Registry!MutateExecute
    <2> QED BY <2>2, <2>3
  <1>8. ASSUME NEW m \in DOMAIN mutating, Registry!WorkspaceClose(m) PROVE RegistryInv'
    <2>1. DOMAIN opening' = DOMAIN opening /\ DOMAIN mutating' = DOMAIN mutating
      BY <1>8 DEF Registry!WorkspaceClose, Registry!Invalidated
    <2> QED BY <1>0, <1>8, <2>1, EntriesKept, EntryReplaced DEF Registry!WorkspaceClose, Registry!Released
  <1>9. ASSUME NEW c \in Registry!Conversations, Registry!Release(c) PROVE RegistryInv'
    <2>1. DOMAIN opening' = DOMAIN opening /\ DOMAIN mutating' = DOMAIN mutating
      BY <1>9 DEF Registry!Release, Registry!Invalidated
    <2> QED BY <1>9, <2>1, EntryReplaced DEF Registry!Release, Registry!Released
  <1>10. ASSUME NEW c \in Registry!Conversations, Registry!Select(c) \/ Registry!TurnChanges(c)
         PROVE  RegistryInv'
    BY <1>10, EntriesKept DEF Registry!Select, Registry!TurnChanges
  <1>11. ASSUME Registry!Dispose PROVE RegistryInv'
    <2>1. DOMAIN opening' = DOMAIN opening /\ UNCHANGED <<case, mutating>>
      BY <1>11 DEF Registry!Dispose, Registry!Invalidated
    <2>2. Registry!Conversations' = Registry!Conversations BY <2>1 DEF Registry!Conversations
    <2>3. alive' = {}
      <3> SUFFICES ASSUME NEW o \in alive' PROVE FALSE BY <1>11 DEF Registry!Dispose
      <3>1. o \in alive /\ \A c \in Registry!Conversations : o \notin Registry!Destroyed(c)
        BY <1>11 DEF Registry!Dispose
      <3>2. entries[Registry!ConversationOf(o)] = Registry!Entry("live", o) /\ o \in DOMAIN opening
        BY <1>0, <3>1 DEF RegistryInv, Registry!RuntimesHeld
      <3> QED BY <1>0, <3>1, <3>2 DEF Registry!Destroyed, Registry!Entry
    <2> QED BY <1>0, <1>11, <2>1, <2>2, <2>3 DEF RegistryInv, Registry!Dispose, Registry!RuntimesHeld
  <1> QED BY <1>1, <1>2, <1>3, <1>4, <1>5, <1>6, <1>7, <1>8, <1>9, <1>10, <1>11 DEF Registry!RegistryNext

\* However opens, releases, lifecycle operations and a disposal interleave,
\* every runtime that was built and not destroyed is the one its
\* conversation's entry holds: none is lost track of.
THEOREM RuntimesAreHeld == RegistrySpec => []RuntimesHeld
  <1>1. Registry!RegistryInit => RegistryInv
    BY DEF Registry!RegistryInit, RegistryInv, Registry!RuntimesHeld
  <1>2. RegistryInv /\ UNCHANGED Registry!registryVars => RegistryInv'
    BY EntriesKept DEF Registry!registryVars
  <1>3. RegistryInv /\ [Registry!RegistryNext]_Registry!registryVars => RegistryInv'
    BY <1>2, RegistryStep
  <1>4. RegistryInv => Registry!RuntimesHeld BY DEF RegistryInv
  <1> QED BY <1>1, <1>3, <1>4, PTL DEF RegistrySpec, RuntimesHeld

------------------------------------------------
\* A turn observed through the gateway.

RemoteSpec == Remote!RemoteInit /\ [][Remote!RemoteNext]_Remote!remoteVars

RemoteEnd == {"completed", "cancelled", "failed"}
Broken == {"disconnected", "error"}
Message == [type : {"event"}, number : Nat]
           \cup [type : {"terminal"}, result : RemoteEnd \cup Broken, checkpoint : Nat]
Connection ==
    [phase : {"requested", "saving", "piping", "over"}, kind : {"start", "resume"}, process : Processes,
     suppress : Nat, taken : Nat, buffer : Seq(Nat), outcome : {"open"} \cup RemoteEnd \cup Broken,
     last : Nat, wire : Seq(Message)]
RemoteTypeOK ==
    /\ upstream \in [events : Nat, result : {"running"} \cup RemoteEnd]
    /\ client \in [phase : {"idle", "waiting", "reading", "disconnected", "done"}, applied : Seq(Nat),
                   seen : Nat, result : {"none"} \cup RemoteEnd \cup Broken, connections : Nat]
    /\ link \in Connection \cup {Remote!NoLink}

\* The events of a connection that have gone to the client's wire and not
\* yet to its caller, and the last event that the observation was given: the
\* terminal one waits until the stream has been read to its end.
Sent(l) == IF l.phase = "over" THEN Len(l.wire) - 1 ELSE Len(l.wire)
Given(u, l) ==
    IF l.outcome \notin RemoteEnd /\ u.result \in RemoteEnd /\ l.taken = u.events
    THEN l.taken - 1 ELSE l.taken

\* The applied events, the wire, the buffer and what is yet to be taken line
\* up without a gap; a applied events and upstream u.
LinesUp(u, a, l) ==
    /\ l.suppress <= u.events /\ l.taken <= u.events
    /\ l.last = a + Sent(l)
    /\ \A i \in 1..Sent(l) : l.wire[i] = [type |-> "event", number |-> a + i]
    /\ \A i \in 1..Len(l.buffer) : l.buffer[i] = l.last + i
    /\ l.last + Len(l.buffer) = IF Given(u, l) > l.suppress THEN Given(u, l) ELSE l.suppress
Ending(u, l) ==
    /\ l.outcome \in RemoteEnd => l.outcome = u.result /\ l.taken = u.events
    /\ l.phase = "over" =>
           /\ Len(l.wire) > 0 /\ l.buffer = <<>> /\ l.outcome # "open"
           /\ l.wire[Len(l.wire)] = [type |-> "terminal", result |-> l.outcome, checkpoint |-> l.last]
    /\ l.phase \in {"requested", "saving"} => l.wire = <<>> /\ l.outcome = "open"
    /\ l.phase = "requested" => l.taken = 0 /\ l.buffer = <<>>
    /\ l.phase # "requested" => l.taken > 0
RemoteControl ==
    /\ link = Remote!NoLink <=> client.phase \in {"idle", "disconnected", "done"}
    /\ client.phase = "idle" => client.applied = <<>>
    /\ client.phase = "waiting" /\ link.kind = "start" => client.applied = <<>>
    /\ link.phase \in {"requested", "saving"} => client.phase = "waiting"
    /\ client.phase = "done" => client.result \in RemoteEnd
    /\ upstream.result \in RemoteEnd => upstream.events > 1
    /\ Len(client.applied) <= upstream.events
RemoteInv ==
    /\ RemoteTypeOK /\ RemoteControl /\ Remote!ObservedExactly
    /\ link # Remote!NoLink => LinesUp(upstream, Len(client.applied), link) /\ Ending(upstream, link)

LEMMA RemoteTyped ==
    ASSUME RemoteInv
    PROVE  /\ upstream.events \in Nat /\ upstream.result \in {"running"} \cup RemoteEnd
           /\ client.applied \in Seq(Nat) /\ Len(client.applied) \in Nat
           /\ link # Remote!NoLink => link \in Connection
           /\ link.phase # "none" => link # Remote!NoLink
           /\ Remote!NoLink.phase = "none"
           /\ Remote!Ends = RemoteEnd
  <1>1. /\ upstream.events \in Nat /\ upstream.result \in {"running"} \cup RemoteEnd
        /\ client.applied \in Seq(Nat)
    BY DEF RemoteInv, RemoteTypeOK
  <1>2. link # Remote!NoLink => link \in Connection BY DEF RemoteInv, RemoteTypeOK
  <1> QED BY <1>1, <1>2 DEF Remote!NoLink, Remote!Ends, RemoteEnd

\* A step of the connection, which its client does not see yet.
LEMMA ConnectionMoves ==
    ASSUME RemoteInv, link # Remote!NoLink, UNCHANGED client,
           upstream' \in [events : Nat, result : {"running"} \cup RemoteEnd],
           upstream.events <= upstream'.events,
           upstream'.result \in RemoteEnd => upstream'.events > 1,
           link' \in Connection, link'.kind = link.kind,
           link'.phase \in {"requested", "saving"} => link.phase \in {"requested", "saving"},
           LinesUp(upstream', Len(client.applied), link'), Ending(upstream', link')
    PROVE  RemoteInv'
  <1>1. link' # Remote!NoLink BY DEF Connection, Remote!NoLink
  <1>2. client.phase \in {"waiting", "reading"}
    BY DEF RemoteInv, RemoteControl, RemoteTypeOK
  <1>3. RemoteTypeOK' BY DEF RemoteInv, RemoteTypeOK, Remote!NoLink
  <1>4. RemoteControl'
    <2>1. Len(client.applied) <= upstream'.events
      BY RemoteTyped DEF RemoteInv, RemoteControl
    <2> QED BY <1>1, <1>2, <2>1 DEF RemoteInv, RemoteControl, Remote!NoLink
  <1>5. Remote!ObservedExactly' BY <1>2 DEF RemoteInv, Remote!ObservedExactly
  <1> QED BY <1>1, <1>3, <1>4, <1>5 DEF RemoteInv

\* The connection is gone.
LEMMA ConnectionGone ==
    ASSUME RemoteInv, link # Remote!NoLink, link' = Remote!NoLink,
           upstream' \in [events : Nat, result : {"running"} \cup RemoteEnd],
           upstream.events <= upstream'.events,
           upstream'.result \in RemoteEnd => upstream'.events > 1,
           client' \in [phase : {"idle", "disconnected"}, applied : {client.applied},
                        seen : {client.seen}, result : {"none"} \cup RemoteEnd \cup Broken,
                        connections : Nat],
           client'.phase = "idle" => client.phase = "waiting" /\ link.kind = "start"
    PROVE  RemoteInv'
  <1>1. client'.applied = client.applied /\ client'.seen = client.seen
        /\ client'.phase \in {"idle", "disconnected"}
    OBVIOUS
  <1>2. RemoteTypeOK' BY DEF RemoteInv, RemoteTypeOK, Remote!NoLink
  <1>3. Len(client.applied) <= upstream'.events
    BY RemoteTyped DEF RemoteInv, RemoteControl
  <1>4. RemoteControl' BY <1>1, <1>3 DEF RemoteInv, RemoteControl, Remote!NoLink
  <1>5. Remote!ObservedExactly' BY <1>1 DEF RemoteInv, Remote!ObservedExactly
  <1> QED BY <1>2, <1>4, <1>5 DEF RemoteInv

\* A refused request or a connection that breaks.
LEMMA RefusedGone ==
    ASSUME RemoteInv, link # Remote!NoLink,
           upstream' \in [events : Nat, result : {"running"} \cup RemoteEnd],
           upstream.events <= upstream'.events,
           upstream'.result \in RemoteEnd => upstream'.events > 1,
           \/ client.phase = "waiting" /\ Remote!Refused
           \/ /\ link' = Remote!NoLink
              /\ client' = [client EXCEPT !.phase = "disconnected", !.result = "disconnected"]
    PROVE  RemoteInv'
  <1>1. CASE client.phase = "waiting" /\ Remote!Refused
    <2> DEFINE p == IF link.kind = "start" THEN "idle" ELSE "disconnected"
    <2>1. client' = [client EXCEPT !.phase = p] /\ link' = Remote!NoLink BY <1>1 DEF Remote!Refused
    <2>2. p \in {"idle", "disconnected"} /\ (p = "idle" => link.kind = "start") OBVIOUS
    <2> HIDE DEF p
    <2> QED BY <1>1, <2>1, <2>2, ConnectionGone DEF RemoteInv, RemoteTypeOK
  <1>2. CASE /\ link' = Remote!NoLink
             /\ client' = [client EXCEPT !.phase = "disconnected", !.result = "disconnected"]
    BY <1>2, ConnectionGone DEF RemoteInv, RemoteTypeOK, Broken
  <1> QED BY <1>1, <1>2

LEMMA SameUpstream ==
    ASSUME RemoteInv, UNCHANGED upstream
    PROVE  /\ upstream' \in [events : Nat, result : {"running"} \cup RemoteEnd]
           /\ upstream.events <= upstream'.events
           /\ upstream'.result \in RemoteEnd => upstream'.events > 1
  BY DEF RemoteInv, RemoteTypeOK, RemoteControl

\* A new connection of the client.
LEMMA Connects ==
    ASSUME RemoteInv, NEW p \in Processes, Remote!StartTurn(p) \/ Remote!ResumeTurn(p)
    PROVE  RemoteInv'
  <1> DEFINE k == IF client.phase = "idle" THEN "start" ELSE "resume"
             n == Len(client.applied)
  <1>1. n \in Nat /\ client.applied \in Seq(Nat) /\ n <= upstream.events
    BY RemoteTyped DEF RemoteInv, RemoteControl
  <1>2. client.phase = "idle" => n = 0 BY DEF RemoteInv, RemoteControl
  <1>3. /\ link' = Remote!NewLink(k, p, n) /\ Remote!Waits /\ UNCHANGED upstream
        /\ client.phase = "idle" \/ k = "resume"
    BY <1>2 DEF Remote!StartTurn, Remote!ResumeTurn
  <1>4. k \in {"start", "resume"} /\ (k = "start" => client.applied = <<>>)
    BY DEF RemoteInv, RemoteControl
  <1> HIDE DEF k
  <1>5. link' \in Connection
    BY <1>1, <1>3, <1>4 DEF Remote!NewLink, Connection
  <1>6. /\ link'.phase = "requested" /\ link'.kind = k /\ link'.suppress = n /\ link'.taken = 0
        /\ link'.buffer = <<>> /\ link'.wire = <<>> /\ link'.last = n /\ link'.outcome = "open"
    BY <1>3 DEF Remote!NewLink
  <1>7. client' \in [phase : {"waiting"}, applied : {client.applied}, seen : {0},
                     result : {"none"} \cup RemoteEnd \cup Broken, connections : Nat]
    <2>1. client.connections + 1 \in Nat BY DEF RemoteInv, RemoteTypeOK
    <2> QED BY <1>3, <2>1 DEF Remote!Waits, RemoteInv, RemoteTypeOK
  <1>8. RemoteTypeOK' BY <1>3, <1>5, <1>7 DEF RemoteInv, RemoteTypeOK
  <1>9. link' # Remote!NoLink BY <1>6 DEF Remote!NoLink
  <1>10. RemoteControl'
    BY <1>1, <1>3, <1>4, <1>6, <1>7, <1>9 DEF RemoteInv, RemoteControl, Remote!NoLink
  <1>11. Remote!ObservedExactly' BY <1>1, <1>7 DEF RemoteInv, Remote!ObservedExactly
  <1>12. LinesUp(upstream, n, link')
    <2>1. Sent(link') = 0 /\ Len(link'.buffer) = 0 BY <1>6 DEF Sent
    <2>2. Given(upstream, link') <= n BY <1>1, <1>6, RemoteTyped DEF Given
    <2> QED BY <1>1, <1>6, <2>1, <2>2, RemoteTyped DEF LinesUp, Given
  <1>13. Ending(upstream, link') BY <1>6 DEF Ending, RemoteEnd
  <1> QED BY <1>3, <1>7, <1>8, <1>10, <1>11, <1>12, <1>13 DEF RemoteInv

LEMMA GivenBound ==
    ASSUME NEW u, NEW l \in Connection
    PROVE  Given(u, l) \in Int /\ Given(u, l) <= l.taken
  BY DEF Given, Connection

\* The first message on the wire.
LEMMA WireHead ==
    ASSUME RemoteInv, link # Remote!NoLink, link.wire # <<>>
    PROVE  \/ /\ Sent(link) > 0 /\ Len(client.applied) < upstream.events
              /\ Head(link.wire) = [type |-> "event", number |-> Len(client.applied) + 1]
           \/ /\ link.phase = "over" /\ Sent(link) = 0 /\ link.last = Len(client.applied)
              /\ Head(link.wire) = [type |-> "terminal", result |-> link.outcome,
                                    checkpoint |-> Len(client.applied)]
  <1> DEFINE a == Len(client.applied)
  <1>1. /\ link \in Connection /\ a \in Nat /\ LinesUp(upstream, a, link) /\ Ending(upstream, link)
        /\ upstream.events \in Nat
    BY RemoteTyped DEF RemoteInv
  <1>2. /\ link.wire \in Seq(Message) /\ Len(link.wire) \in Nat /\ Len(link.wire) > 0
        /\ Head(link.wire) = link.wire[1] /\ Len(link.buffer) \in Nat /\ link.last \in Nat
        /\ link.taken \in Nat /\ link.suppress \in Nat
    BY <1>1 DEF Connection
  <1> HIDE DEF a
  <1>3. CASE Sent(link) > 0
    <2>1. link.wire[1] = [type |-> "event", number |-> a + 1]
      BY <1>1, <1>2, <1>3 DEF LinesUp, Sent
    <2>2. a < upstream.events
      <3>1. Sent(link) \in Nat BY <1>2 DEF Sent
      <3>2. link.last + Len(link.buffer) <= upstream.events
        BY <1>1, <1>2, GivenBound DEF LinesUp
      <3>3. link.last = a + Sent(link) BY <1>1 DEF LinesUp
      <3>4. a \in Nat BY <1>1
      <3> QED BY <1>1, <1>2, <1>3, <3>1, <3>2, <3>3, <3>4
    <2> QED BY <1>2, <1>3, <2>1, <2>2 DEF a
  <1>4. CASE ~(Sent(link) > 0)
    <2>0. link.phase # "over" => Sent(link) = Len(link.wire) BY DEF Sent
    <2>3. link.phase = "over" BY <1>2, <1>4, <2>0
    <2>4. Sent(link) = Len(link.wire) - 1 BY <2>3 DEF Sent
    <2> DEFINE n == Len(link.wire)
               k == Sent(link)
    <2>5. n \in Nat /\ n > 0 /\ k = n - 1 /\ ~(k > 0) BY <1>2, <1>4, <2>4
    <2> HIDE DEF n, k
    <2>6. k = 0 /\ n = 1 BY <2>5
    <2>1. link.phase = "over" /\ Sent(link) = 0 /\ Len(link.wire) = 1 BY <2>3, <2>6 DEF n, k
    <2> QED BY <1>1, <1>2, <2>1 DEF LinesUp, Ending, a
  <1> QED BY <1>3, <1>4

LEMMA ClientReadsEvent ==
    ASSUME RemoteInv, Remote!ClientReads, Head(link.wire).type = "event"
    PROVE  RemoteInv'
  <1> DEFINE a == Len(client.applied)
             w == Tail(link.wire)
  <1>0. /\ client.phase = "reading" /\ link.wire # <<>> /\ UNCHANGED upstream
        /\ client' = [client EXCEPT !.applied = Append(@, Head(link.wire).number),
                                    !.seen = Head(link.wire).number]
        /\ link' = [link EXCEPT !.wire = w]
    BY DEF Remote!ClientReads, Remote!Framed
  <1>1. link # Remote!NoLink BY <1>0 DEF RemoteInv, RemoteControl
  <1>2. Sent(link) > 0 /\ Head(link.wire).number = a + 1 /\ a < upstream.events
    BY <1>0, <1>1, WireHead
  <1>3. /\ link \in Connection /\ a \in Nat /\ client.applied \in Seq(Nat)
        /\ LinesUp(upstream, a, link) /\ Ending(upstream, link)
    BY <1>1, RemoteTyped DEF RemoteInv
  <1>4. link.wire \in Seq(Message) /\ Len(link.wire) \in Nat /\ Len(link.wire) > 0
    BY <1>0, <1>3 DEF Connection
  <1>5. w \in Seq(Message) /\ Len(w) = Len(link.wire) - 1 /\ \A i \in 1..Len(w) : w[i] = link.wire[i + 1]
    BY <1>4
  <1> HIDE DEF w
  <1>6. link' \in Connection BY <1>0, <1>3, <1>5 DEF Connection
  <1>7. /\ link'.wire = w /\ link'.phase = link.phase /\ link'.kind = link.kind
        /\ link'.suppress = link.suppress /\ link'.taken = link.taken /\ link'.buffer = link.buffer
        /\ link'.last = link.last /\ link'.outcome = link.outcome
    BY <1>0, <1>3 DEF Connection
  <1> DEFINE b == Append(client.applied, a + 1)
  <1>8. b \in Seq(Nat) /\ Len(b) = a + 1 /\ \A i \in 1..(a + 1) : b[i] = i
    BY <1>3 DEF RemoteInv, Remote!ObservedExactly
  <1> HIDE DEF b
  <1>9. client' \in [phase : {"reading"}, applied : {b}, seen : {a + 1},
                     result : {"none"} \cup RemoteEnd \cup Broken, connections : Nat]
    BY <1>0, <1>2 DEF b, RemoteInv, RemoteTypeOK
  <1> HIDE DEF a
  <1>10. Sent(link') = Sent(link) - 1 /\ Sent(link) \in Nat
    BY <1>2, <1>4, <1>5, <1>7 DEF Sent
  <1>11. LinesUp(upstream, a + 1, link')
    <2>1. Given(upstream, link') = Given(upstream, link) BY <1>7 DEF Given
    <2>2. link'.last = (a + 1) + Sent(link') BY <1>3, <1>7, <1>10 DEF LinesUp
    <2>3. ASSUME NEW i \in 1..Sent(link')
          PROVE  link'.wire[i] = [type |-> "event", number |-> (a + 1) + i]
      <3>1. i \in 1..Len(w) /\ i + 1 \in 1..Sent(link) BY <1>4, <1>5, <1>7, <1>10 DEF Sent
      <3>2. link.wire[i + 1] = [type |-> "event", number |-> a + (i + 1)] BY <1>3, <3>1 DEF LinesUp
      <3>3. a + (i + 1) = (a + 1) + i BY <1>3
      <3> QED BY <1>5, <1>7, <3>1, <3>2, <3>3
    <2> QED BY <1>3, <1>7, <2>1, <2>2, <2>3 DEF LinesUp
  <1>12. Ending(upstream, link')
    <2>1. link.phase = "over" => Len(w) > 0 /\ w[Len(w)] = link.wire[Len(link.wire)]
      BY <1>2, <1>4, <1>5 DEF Sent
    <2>2. link.phase \notin {"requested", "saving"} BY <1>0 DEF RemoteInv, RemoteControl
    <2> QED BY <1>3, <1>7, <2>1, <2>2 DEF Ending
  <1>13. RemoteTypeOK' BY <1>0, <1>3, <1>6, <1>8, <1>9 DEF RemoteInv, RemoteTypeOK
  <1>14. link' # Remote!NoLink BY <1>6 DEF Connection, Remote!NoLink
  <1>15. RemoteControl'
    <2>1. client'.phase = "reading" /\ client'.applied = b BY <1>9
    <2>2. link'.phase \notin {"requested", "saving"} BY <1>0, <1>7 DEF RemoteInv, RemoteControl
    <2>3. Len(client'.applied) <= upstream'.events
      BY <1>0, <1>2, <1>3, <1>8, <2>1, RemoteTyped
    <2> QED BY <1>0, <1>14, <2>1, <2>2, <2>3 DEF RemoteInv, RemoteControl
  <1>16. Remote!ObservedExactly' BY <1>3, <1>8, <1>9 DEF Remote!ObservedExactly
  <1> QED BY <1>0, <1>8, <1>9, <1>11, <1>12, <1>13, <1>15, <1>16 DEF RemoteInv

LEMMA ClientReadsTerminal ==
    ASSUME RemoteInv, Remote!ClientReads, Head(link.wire).type # "event"
    PROVE  RemoteInv'
  <1> DEFINE a == Len(client.applied)
             m == Head(link.wire)
             p == IF m.result \in RemoteEnd THEN "done" ELSE "disconnected"
  <1>0. /\ client.phase = "reading" /\ link.wire # <<>> /\ UNCHANGED upstream
        /\ client' = [client EXCEPT !.phase = p, !.result = m.result, !.seen = m.checkpoint]
        /\ link' = Remote!NoLink
    BY RemoteTyped DEF Remote!ClientReads, Remote!Framed
  <1>1. link # Remote!NoLink BY <1>0 DEF RemoteInv, RemoteControl
  <1>2. /\ link.phase = "over" /\ Sent(link) = 0 /\ link.last = a
        /\ m.result = link.outcome /\ m.checkpoint = a
    BY <1>0, <1>1, WireHead
  <1>3. /\ link \in Connection /\ a \in Nat /\ upstream.events \in Nat
        /\ LinesUp(upstream, a, link) /\ Ending(upstream, link)
    BY <1>1, RemoteTyped DEF RemoteInv
  <1>4. link.outcome \in RemoteEnd \cup Broken BY <1>2, <1>3 DEF Connection, Ending
  <1>5. p \in {"done", "disconnected"} /\ (p = "done" => link.outcome \in RemoteEnd) BY <1>2
  <1> HIDE DEF p, m
  <1>6. client' \in [phase : {p}, applied : {client.applied}, seen : {a}, result : {link.outcome},
                     connections : Nat]
    BY <1>0, <1>2 DEF RemoteInv, RemoteTypeOK
  <1>7. link.outcome \in RemoteEnd => link.outcome = upstream.result /\ a = upstream.events
    <2> SUFFICES ASSUME link.outcome \in RemoteEnd
                 PROVE  link.outcome = upstream.result /\ a = upstream.events
      OBVIOUS
    <2>1. link.outcome = upstream.result /\ link.taken = upstream.events /\ Len(link.buffer) = 0
      BY <1>2, <1>3 DEF Ending
    <2>2. Given(upstream, link) = upstream.events BY <2>1 DEF Given
    <2>3. link.suppress \in Nat /\ link.suppress <= upstream.events BY <1>3 DEF Connection, LinesUp
    <2> QED BY <1>2, <1>3, <2>1, <2>2, <2>3 DEF LinesUp
  <1>8. RemoteTypeOK'
    BY <1>0, <1>3, <1>4, <1>5, <1>6 DEF RemoteInv, RemoteTypeOK
  <1>9. RemoteControl' BY <1>0, <1>5, <1>6 DEF RemoteInv, RemoteControl, Remote!NoLink
  <1>10. Remote!ObservedExactly'
    <2>1. /\ client'.phase = p /\ client'.applied = client.applied /\ client'.seen = a
          /\ client'.result = link.outcome
      BY <1>6
    <2> QED BY <1>0, <1>3, <1>5, <1>7, <2>1 DEF RemoteInv, Remote!ObservedExactly
  <1> QED BY <1>0, <1>8, <1>9, <1>10 DEF RemoteInv

\* The next event is pushed.
LEMMA NextNumber ==
    ASSUME NEW x \in Nat, NEW k \in Nat, NEW n \in Nat, NEW s \in Nat, n > s,
           x + k = IF n - 1 > s THEN n - 1 ELSE s
    PROVE  x + (k + 1) = n
  OBVIOUS
LEMMA PushLinesUp ==
    ASSUME NEW b \in Seq(Nat), NEW x \in Nat, NEW n \in Nat, n = x + (Len(b) + 1),
           \A i \in 1..Len(b) : b[i] = x + i
    PROVE  /\ Append(b, n) \in Seq(Nat) /\ Len(Append(b, n)) = Len(b) + 1 /\ Append(b, n) # b
           /\ \A i \in 1..Len(Append(b, n)) : Append(b, n)[i] = x + i
  <1> DEFINE k == Len(b)
             c == Append(b, n)
  <1>1. k \in Nat /\ c \in Seq(Nat) /\ Len(c) = k + 1 /\ c[k + 1] = n /\ \A i \in 1..k : c[i] = b[i]
    OBVIOUS
  <1> HIDE DEF k, c
  <1>2. ASSUME NEW i \in 1..(k + 1) PROVE c[i] = x + i
    <2>1. CASE i = k + 1 BY <1>1, <2>1 DEF k
    <2>2. CASE i # k + 1
      <3>1. i \in 1..k BY <1>1, <2>2
      <3> QED BY <1>1, <3>1 DEF k
    <2> QED BY <2>1, <2>2
  <1>3. c # b BY <1>1 DEF k
  <1> QED BY <1>1, <1>2, <1>3 DEF c, k

\* The managed runtime transport takes an event, or the stream ends.
LEMMA TransportStep ==
    ASSUME RemoteInv, MaxEvents \in Nat,
           \/ Remote!OpenStream \/ Remote!SaveTurnState \/ Remote!Accept \/ Remote!FinishStream
           \/ Remote!BreakStream
    PROVE  RemoteInv'
  <1> DEFINE a == Len(client.applied)
  <1>0. link # Remote!NoLink /\ UNCHANGED client
    BY RemoteTyped DEF Remote!OpenStream, Remote!SaveTurnState, Remote!Accept, Remote!FinishStream,
       Remote!BreakStream, Remote!Piping
  <1>1. /\ link \in Connection /\ a \in Nat /\ upstream.events \in Nat
        /\ upstream.result \in {"running"} \cup RemoteEnd /\ Remote!Ends = RemoteEnd
        /\ LinesUp(upstream, a, link) /\ Ending(upstream, link)
    BY <1>0, RemoteTyped DEF RemoteInv
  <1>2. /\ link.buffer \in Seq(Nat) /\ Len(link.buffer) \in Nat /\ link.last \in Nat
        /\ link.taken \in Nat /\ link.suppress \in Nat
    BY <1>1 DEF Connection
  <1> HIDE DEF a
  <1>3. CASE Remote!OpenStream
    <2> DEFINE p == IF link.kind = "start" THEN "saving" ELSE "piping"
               b == IF 1 > link.suppress THEN <<1>> ELSE <<>>
               u == IF upstream.events = 0 THEN [upstream EXCEPT !.events = 1] ELSE upstream
    <2>1. /\ link.phase = "requested" /\ upstream' = u
          /\ link' = [link EXCEPT !.phase = p, !.taken = 1, !.buffer = b]
      BY <1>3 DEF Remote!OpenStream
    <2>2. /\ u \in [events : Nat, result : {"running"} \cup RemoteEnd] /\ upstream.events <= u.events
          /\ u.events >= 1 /\ u.result = upstream.result /\ (u.result \in RemoteEnd => u.events > 1)
      BY <1>1 DEF RemoteInv, RemoteTypeOK, RemoteControl
    <2>3. /\ p \in {"saving", "piping"} /\ b \in Seq(Nat) /\ Len(b) \in Nat
          /\ \A i \in 1..Len(b) : b[i] = i
          /\ Len(b) = IF 1 > link.suppress THEN 1 ELSE 0
      BY <1>2
    <2> HIDE DEF p, b, u
    <2>4. link' \in Connection BY <1>1, <2>1, <2>3 DEF Connection
    <2>5. /\ link'.phase = p /\ link'.taken = 1 /\ link'.buffer = b /\ link'.kind = link.kind
          /\ link'.suppress = link.suppress /\ link'.last = link.last /\ link'.wire = link.wire
          /\ link'.outcome = link.outcome
      BY <1>1, <2>1 DEF Connection
    <2>6. link.wire = <<>> /\ link.outcome = "open" /\ link.taken = 0 /\ link.buffer = <<>>
      BY <1>1, <2>1 DEF Ending
    <2>7. Sent(link) = 0 /\ Sent(link') = 0 BY <2>1, <2>3, <2>5, <2>6 DEF Sent
    <2>8. link.last = link.suppress
      <3>1. Given(upstream, link) <= 0 BY <1>1, <2>6, GivenBound
      <3>2. link.last + Len(link.buffer) = link.suppress
        BY <1>1, <1>2, <3>1, GivenBound DEF LinesUp
      <3> QED BY <1>2, <2>6, <3>2
    <2>9. Given(u, link') = 1 BY <2>2, <2>5 DEF Given
    <2>10. LinesUp(u, a, link')
      <3>1. link'.suppress <= u.events /\ link'.taken <= u.events /\ link'.last = a + Sent(link')
        BY <1>1, <1>2, <2>2, <2>5, <2>7 DEF LinesUp
      <3>2. \A i \in 1..Len(link'.buffer) : link'.buffer[i] = link'.last + i
        BY <1>2, <2>3, <2>5, <2>8
      <3>3. link'.last + Len(link'.buffer) = IF 1 > link.suppress THEN 1 ELSE link.suppress
        <4>1. link'.last = link.suppress /\ Len(link'.buffer) = IF 1 > link.suppress THEN 1 ELSE 0
          BY <2>3, <2>5, <2>8
        <4>2. CASE 1 > link.suppress
          <5>1. link.suppress = 0 BY <1>2, <4>2
          <5> QED BY <4>1, <4>2, <5>1
        <4>3. CASE ~(1 > link.suppress) BY <1>2, <4>1, <4>3
        <4> QED BY <4>2, <4>3
      <3> QED BY <2>5, <2>7, <2>9, <3>1, <3>2, <3>3 DEF LinesUp
    <2>11. Ending(u, link') BY <2>3, <2>5, <2>6 DEF Ending, RemoteEnd
    <2> QED BY <1>0, <2>1, <2>2, <2>4, <2>5, <2>10, <2>11, ConnectionMoves DEF a
  <1>4. CASE Remote!SaveTurnState
    <2>1. link.phase = "saving" /\ link' = [link EXCEPT !.phase = "piping"] /\ UNCHANGED upstream
      BY <1>4 DEF Remote!SaveTurnState
    <2>2. link' \in Connection BY <1>1, <2>1 DEF Connection
    <2>3. /\ link'.phase = "piping" /\ link'.taken = link.taken /\ link'.buffer = link.buffer
          /\ link'.suppress = link.suppress /\ link'.last = link.last /\ link'.wire = link.wire
          /\ link'.outcome = link.outcome /\ link'.kind = link.kind
      BY <1>1, <2>1 DEF Connection
    <2>4. LinesUp(upstream, a, link') /\ Ending(upstream, link')
      BY <1>1, <2>1, <2>3 DEF LinesUp, Ending, Sent, Given
    <2> QED BY <1>0, <2>1, <2>2, <2>3, <2>4, ConnectionMoves, SameUpstream DEF a
  <1>5. CASE Remote!BreakStream
    <2>1. PICK outcome \in Broken : link' = [link EXCEPT !.outcome = outcome]
      BY <1>5 DEF Remote!BreakStream, Broken
    <2>2. link.phase = "piping" /\ link.outcome = "open" /\ UNCHANGED upstream
      BY <1>5 DEF Remote!BreakStream, Remote!Piping
    <2>3. link' \in Connection BY <1>1, <2>1 DEF Connection
    <2>4. /\ link'.phase = link.phase /\ link'.taken = link.taken /\ link'.buffer = link.buffer
          /\ link'.suppress = link.suppress /\ link'.last = link.last /\ link'.wire = link.wire
          /\ link'.outcome = outcome /\ link'.kind = link.kind
      BY <1>1, <2>1 DEF Connection
    <2>5. outcome \notin RemoteEnd /\ "open" \notin RemoteEnd BY DEF RemoteEnd, Broken
    <2>6. LinesUp(upstream, a, link') /\ Ending(upstream, link')
      BY <1>1, <2>2, <2>4, <2>5 DEF LinesUp, Ending, Sent, Given
    <2> QED BY <1>0, <2>2, <2>3, <2>4, <2>6, ConnectionMoves, SameUpstream DEF a
  <1>6. CASE Remote!Accept
    <2> DEFINE n == link.taken + 1
               b == IF n = upstream.events /\ upstream.result \in RemoteEnd THEN link.buffer
                    ELSE Remote!Pushed(link.buffer, n)
    <2>1. /\ link.phase = "piping" /\ link.outcome = "open" /\ UNCHANGED upstream
          /\ link.taken < upstream.events /\ link' = [link EXCEPT !.taken = n, !.buffer = b]
      BY <1>1, <1>6 DEF Remote!Accept, Remote!Piping
    <2>2. n \in Nat /\ n <= upstream.events /\ n > 0 BY <1>1, <1>2, <2>1
    <2>3. Given(upstream, link) = link.taken BY <1>1, <1>2, <2>1 DEF Given
    <2>4. /\ b \in Seq(Nat) /\ Len(b) \in Nat
          /\ b = link.buffer \/ (b = Append(link.buffer, n) /\ n > link.suppress)
      BY <1>2, <2>2 DEF Remote!Pushed, Remote!Beyond
    <2>5. b = link.buffer => n <= link.suppress \/ (n = upstream.events /\ upstream.result \in RemoteEnd)
      <3> SUFFICES ASSUME n > link.suppress, b = link.buffer,
                          ~(n = upstream.events /\ upstream.result \in RemoteEnd)
                   PROVE  FALSE
        BY <1>2, <2>2
      <3>1. b = Append(link.buffer, n) BY DEF Remote!Pushed, Remote!Beyond
      <3>2. Len(Append(link.buffer, n)) = Len(link.buffer) + 1 BY <1>2, <2>2
      <3> QED BY <1>2, <3>1, <3>2
    <2>6. b # link.buffer => ~(n = upstream.events /\ upstream.result \in RemoteEnd)
      OBVIOUS
    <2> HIDE DEF b
    <2>7. link' \in Connection BY <1>1, <2>1, <2>2, <2>4 DEF Connection
    <2>8. /\ link'.phase = link.phase /\ link'.taken = n /\ link'.buffer = b
          /\ link'.suppress = link.suppress /\ link'.last = link.last /\ link'.wire = link.wire
          /\ link'.outcome = link.outcome /\ link'.kind = link.kind
      BY <1>1, <2>1 DEF Connection
    <2>9. Given(upstream, link') = IF upstream.result \in RemoteEnd /\ n = upstream.events
                                   THEN link.taken ELSE n
      BY <1>2, <2>1, <2>8 DEF Given, RemoteEnd
    <2>10. Sent(link') = Sent(link) BY <2>8 DEF Sent
    <2>11. link.last + Len(link.buffer) = IF link.taken > link.suppress THEN link.taken ELSE link.suppress
      BY <1>1, <2>3 DEF LinesUp
    <2>12. link.last + Len(b) = IF Given(upstream, link') > link.suppress
                                THEN Given(upstream, link') ELSE link.suppress
      <3>1. CASE b = link.buffer BY <1>2, <2>2, <2>5, <2>9, <2>11, <3>1
      <3>2. CASE b # link.buffer
        <4>1. Len(b) = Len(link.buffer) + 1 /\ n > link.suppress BY <1>2, <2>2, <2>4, <3>2
        <4>2. Given(upstream, link') = n BY <2>6, <2>9, <3>2
        <4> QED BY <1>2, <2>2, <2>11, <4>1, <4>2
      <3> QED BY <3>1, <3>2
    <2>13. \A i \in 1..Len(b) : b[i] = link.last + i
      <3>1. CASE b = link.buffer BY <1>1, <3>1 DEF LinesUp
      <3>2. CASE b # link.buffer
        <4>1. b = Append(link.buffer, n) /\ n > link.suppress BY <2>4, <3>2
        <4>2. n = link.last + (Len(link.buffer) + 1) BY <1>2, <2>2, <2>11, <4>1, NextNumber
        <4>3. \A i \in 1..Len(link.buffer) : link.buffer[i] = link.last + i BY <1>1 DEF LinesUp
        <4> HIDE DEF n
        <4> QED BY <1>2, <2>2, <4>1, <4>2, <4>3, PushLinesUp
      <3> QED BY <3>1, <3>2
    <2>14. LinesUp(upstream, a, link') BY <1>1, <2>2, <2>8, <2>10, <2>12, <2>13 DEF LinesUp
    <2>15. Ending(upstream, link') BY <1>1, <2>1, <2>2, <2>8 DEF Ending, RemoteEnd
    <2> QED BY <1>0, <2>1, <2>7, <2>8, <2>14, <2>15, ConnectionMoves, SameUpstream DEF a
  <1>7. CASE Remote!FinishStream
    <2> DEFINE n == link.taken
               b == Remote!Pushed(link.buffer, n)
    <2>1. /\ link.phase = "piping" /\ link.outcome = "open" /\ UNCHANGED upstream
          /\ n = upstream.events /\ upstream.result \in RemoteEnd
          /\ link' = [link EXCEPT !.buffer = b, !.outcome = upstream.result]
      BY <1>1, <1>7 DEF Remote!FinishStream, Remote!Piping
    <2>2. n \in Nat /\ n > 1 BY <1>2, <2>1 DEF RemoteInv, RemoteControl
    <2>3. Given(upstream, link) = n - 1 BY <2>1 DEF Given, RemoteEnd
    <2>4. b \in Seq(Nat) /\ Len(b) \in Nat /\ b = IF n > link.suppress THEN Append(link.buffer, n) ELSE link.buffer
      BY <1>2, <2>2 DEF Remote!Pushed, Remote!Beyond
    <2> HIDE DEF b
    <2>5. link' \in Connection BY <1>1, <2>1, <2>4 DEF Connection
    <2>6. /\ link'.phase = link.phase /\ link'.taken = n /\ link'.buffer = b
          /\ link'.suppress = link.suppress /\ link'.last = link.last /\ link'.wire = link.wire
          /\ link'.outcome = upstream.result /\ link'.kind = link.kind
      BY <1>1, <2>1 DEF Connection
    <2>7. Given(upstream, link') = n BY <2>1, <2>6 DEF Given
    <2>8. Sent(link') = Sent(link) BY <2>6 DEF Sent
    <2> HIDE DEF n
    <2>9. link.last + Len(link.buffer) = IF n - 1 > link.suppress THEN n - 1 ELSE link.suppress
      BY <1>1, <2>3 DEF LinesUp
    <2>10. link.last + Len(b) = IF n > link.suppress THEN n ELSE link.suppress
      <3>1. CASE n > link.suppress
        <4>1. Len(b) = Len(link.buffer) + 1 BY <1>2, <2>2, <2>4, <3>1
        <4>2. link.last + (Len(link.buffer) + 1) = n BY <1>2, <2>2, <2>9, <3>1, NextNumber
        <4> QED BY <3>1, <4>1, <4>2
      <3>2. CASE ~(n > link.suppress) BY <1>2, <2>2, <2>4, <2>9, <3>2
      <3> QED BY <3>1, <3>2
    <2>11. \A i \in 1..Len(b) : b[i] = link.last + i
      <3>0. \A i \in 1..Len(link.buffer) : link.buffer[i] = link.last + i BY <1>1 DEF LinesUp
      <3>1. CASE n > link.suppress
        <4>1. n = link.last + (Len(link.buffer) + 1) BY <1>2, <2>2, <2>9, <3>1, NextNumber
        <4> QED BY <1>2, <2>2, <2>4, <3>0, <3>1, <4>1, PushLinesUp
      <3>2. CASE ~(n > link.suppress) BY <2>4, <3>0, <3>2
      <3> QED BY <3>1, <3>2
    <2>12. LinesUp(upstream, a, link') BY <1>1, <2>1, <2>6, <2>7, <2>8, <2>10, <2>11 DEF LinesUp, n
    <2>13. Ending(upstream, link') BY <1>1, <2>1, <2>2, <2>6 DEF Ending
    <2> QED BY <1>0, <2>1, <2>5, <2>6, <2>12, <2>13, ConnectionMoves, SameUpstream DEF a
  <1> QED BY <1>3, <1>4, <1>5, <1>6, <1>7

\* The gateway writes an event, or the terminal message, to the wire.
LEMMA GatewayStep ==
    ASSUME RemoteInv, Remote!SendEvent \/ Remote!SendTerminal
    PROVE  RemoteInv'
  <1> DEFINE a == Len(client.applied)
             w == link.wire
  <1>0. link # Remote!NoLink /\ UNCHANGED <<client, upstream>> /\ link.phase = "piping"
    BY RemoteTyped DEF Remote!SendEvent, Remote!SendTerminal
  <1>1. /\ link \in Connection /\ a \in Nat /\ LinesUp(upstream, a, link) /\ Ending(upstream, link)
    BY <1>0, RemoteTyped DEF RemoteInv
  <1>2. /\ link.buffer \in Seq(Nat) /\ Len(link.buffer) \in Nat /\ link.last \in Nat
        /\ w \in Seq(Message) /\ Len(w) \in Nat
    BY <1>1 DEF Connection
  <1>3. Sent(link) = Len(w) BY <1>0 DEF Sent
  <1>4. /\ link.last = a + Len(w)
        /\ \A i \in 1..Len(w) : w[i] = [type |-> "event", number |-> a + i]
        /\ \A i \in 1..Len(link.buffer) : link.buffer[i] = link.last + i
    BY <1>1, <1>3 DEF LinesUp
  <1> HIDE DEF a, w
  <1>5. CASE Remote!SendEvent
    <2> DEFINE h == Head(link.buffer)
               m == [type |-> "event", number |-> h]
               b == Tail(link.buffer)
               v == Append(w, m)
    <2>1. link.buffer # <<>> /\ link' = [link EXCEPT !.buffer = b, !.last = h, !.wire = v]
      BY <1>5 DEF Remote!SendEvent, w
    <2>2. /\ Len(link.buffer) > 0 /\ h = link.last + 1 /\ h \in Nat /\ b \in Seq(Nat)
          /\ Len(b) = Len(link.buffer) - 1 /\ \A i \in 1..Len(b) : b[i] = link.buffer[i + 1]
      BY <1>2, <1>4, <2>1
    <2>3. m \in Message BY <2>2 DEF Message
    <2>4. /\ v \in Seq(Message) /\ Len(v) = Len(w) + 1 /\ v[Len(w) + 1] = m
          /\ \A i \in 1..Len(w) : v[i] = w[i]
      BY <1>2, <2>3
    <2> HIDE DEF b, v
    <2>5. link' \in Connection BY <1>1, <2>1, <2>2, <2>4 DEF Connection
    <2>6. /\ link'.phase = link.phase /\ link'.taken = link.taken /\ link'.buffer = b
          /\ link'.suppress = link.suppress /\ link'.last = h /\ link'.wire = v
          /\ link'.outcome = link.outcome /\ link'.kind = link.kind
      BY <1>1, <2>1 DEF Connection
    <2>7. Sent(link') = Len(w) + 1 BY <1>0, <2>4, <2>6 DEF Sent
    <2>8. Given(upstream, link') = Given(upstream, link) BY <2>6 DEF Given
    <2>9. h = a + (Len(w) + 1) BY <1>1, <1>2, <1>4, <2>2
    <2>10. \A i \in 1..(Len(w) + 1) : v[i] = [type |-> "event", number |-> a + i]
      <3> SUFFICES ASSUME NEW i \in 1..(Len(w) + 1) PROVE v[i] = [type |-> "event", number |-> a + i]
        OBVIOUS
      <3>1. CASE i = Len(w) + 1 BY <2>4, <2>9, <3>1
      <3>2. CASE i # Len(w) + 1
        <4>1. i \in 1..Len(w) BY <1>2, <3>2
        <4> QED BY <1>4, <2>4, <4>1
      <3> QED BY <3>1, <3>2
    <2> HIDE DEF h
    <2>11. h + Len(b) = link.last + Len(link.buffer) /\ \A i \in Nat : link.last + (i + 1) = h + i
      <3> DEFINE k == Len(link.buffer)
                 j == Len(b)
                 x == link.last
      <3>1. x \in Nat /\ h \in Nat /\ k \in Nat /\ j \in Nat BY <1>2, <2>2
      <3>2. h = x + 1 BY <2>2
      <3>3. j = k - 1 BY <2>2
      <3> HIDE DEF k, j, x
      <3>4. h + j = x + k BY <3>1, <3>2, <3>3
      <3>5. \A i \in Nat : x + (i + 1) = h + i BY <3>1, <3>2
      <3> QED BY <3>4, <3>5 DEF k, j, x
    <2>12. \A i \in 1..Len(b) : b[i] = h + i
      <3> SUFFICES ASSUME NEW i \in 1..Len(b) PROVE b[i] = h + i OBVIOUS
      <3>1. i \in Nat /\ i + 1 \in 1..Len(link.buffer) BY <1>2, <2>2
      <3>2. link.buffer[i + 1] = link.last + (i + 1) BY <1>4, <3>1
      <3>3. link.last + (i + 1) = h + i BY <2>11, <3>1
      <3> QED BY <2>2, <3>2, <3>3
    <2>13. LinesUp(upstream, a, link')
      BY <1>1, <2>6, <2>7, <2>8, <2>9, <2>10, <2>11, <2>12 DEF LinesUp
    <2>14. Ending(upstream, link') BY <1>0, <1>1, <2>6 DEF Ending
    <2> QED BY <1>0, <2>5, <2>6, <2>13, <2>14, ConnectionMoves, SameUpstream DEF a
  <1>6. CASE Remote!SendTerminal
    <2> DEFINE m == [type |-> "terminal", result |-> link.outcome, checkpoint |-> link.last]
               v == Append(w, m)
    <2>1. /\ link.buffer = <<>> /\ link.outcome # "open"
          /\ link' = [link EXCEPT !.phase = "over", !.wire = v]
      BY <1>6 DEF Remote!SendTerminal, Remote!SettledIfDrained, w
    <2>2. m \in Message BY <1>1, <1>2, <2>1 DEF Message, Connection
    <2>3. /\ v \in Seq(Message) /\ Len(v) = Len(w) + 1 /\ v[Len(w) + 1] = m
          /\ \A i \in 1..Len(w) : v[i] = w[i]
      BY <1>2, <2>2
    <2> HIDE DEF v
    <2>4. link' \in Connection BY <1>1, <2>1, <2>3 DEF Connection
    <2>5. /\ link'.phase = "over" /\ link'.taken = link.taken /\ link'.buffer = link.buffer
          /\ link'.suppress = link.suppress /\ link'.last = link.last /\ link'.wire = v
          /\ link'.outcome = link.outcome /\ link'.kind = link.kind
      BY <1>1, <2>1 DEF Connection
    <2>6. Sent(link') = Len(w) BY <1>2, <2>3, <2>5 DEF Sent
    <2>7. Given(upstream, link') = Given(upstream, link) BY <2>5 DEF Given
    <2>8. LinesUp(upstream, a, link')
      BY <1>1, <1>3, <1>4, <2>3, <2>5, <2>6, <2>7 DEF LinesUp
    <2>9. Ending(upstream, link')
      <3>1. Len(v) > 0 /\ v[Len(v)] = m BY <1>2, <2>3
      <3> QED BY <1>0, <1>1, <2>1, <2>5, <3>1 DEF Ending
    <2> QED BY <1>0, <2>4, <2>5, <2>8, <2>9, ConnectionMoves, SameUpstream DEF a
  <1> QED BY <1>5, <1>6

LEMMA ProduceStep ==
    ASSUME RemoteInv, MaxEvents \in Nat, Remote!Produce
    PROVE  RemoteInv'
  <1> DEFINE a == Len(client.applied)
  <1>1. /\ upstream.events \in Nat /\ upstream.events >= 1 /\ upstream.result = "running"
        /\ UNCHANGED <<link, client>> /\ a \in Nat
    BY RemoteTyped DEF Remote!Produce
  <1>2. PICK r \in RemoteEnd \cup {"running"} : upstream' = [events |-> upstream.events + 1, result |-> r]
    BY RemoteTyped DEF Remote!Produce
  <1>3. /\ upstream' \in [events : Nat, result : {"running"} \cup RemoteEnd]
        /\ upstream'.events = upstream.events + 1 /\ upstream'.events > 1
    BY <1>1, <1>2
  <1>4. "running" \notin RemoteEnd BY DEF RemoteEnd
  <1>5. RemoteTypeOK' BY <1>1, <1>3 DEF RemoteInv, RemoteTypeOK
  <1>6. client.phase # "done" BY <1>1, <1>4 DEF RemoteInv, RemoteControl, Remote!ObservedExactly
  <1>7. RemoteControl' BY <1>1, <1>3 DEF RemoteInv, RemoteControl
  <1>8. Remote!ObservedExactly' BY <1>1, <1>6 DEF RemoteInv, Remote!ObservedExactly
  <1>9. ASSUME link # Remote!NoLink PROVE LinesUp(upstream', a, link) /\ Ending(upstream', link)
    <2>1. /\ link \in Connection /\ LinesUp(upstream, a, link) /\ Ending(upstream, link)
      BY <1>9, RemoteTyped DEF RemoteInv
    <2>2. link.taken \in Nat /\ link.suppress \in Nat BY <2>1 DEF Connection
    <2>3. link.taken <= upstream.events /\ link.suppress <= upstream.events BY <2>1 DEF LinesUp
    <2>4. Given(upstream, link) = link.taken BY <1>1, <1>4 DEF Given
    <2>5. Given(upstream', link) = link.taken BY <1>1, <1>3, <2>2, <2>3 DEF Given
    <2>6. link.taken <= upstream'.events /\ link.suppress <= upstream'.events
      BY <1>1, <1>3, <2>2, <2>3
    <2>7. LinesUp(upstream', a, link) BY <2>1, <2>4, <2>5, <2>6 DEF LinesUp
    <2>8. Ending(upstream', link) BY <1>1, <1>4, <2>1 DEF Ending
    <2> QED BY <2>7, <2>8
  <1> QED BY <1>1, <1>5, <1>7, <1>8, <1>9 DEF RemoteInv

LEMMA RemoteStep ==
    ASSUME RemoteInv, MaxEvents \in Nat, Remote!RemoteNext
    PROVE  RemoteInv'
  <1>1. CASE \E p \in Processes : Remote!StartTurn(p) \/ Remote!ResumeTurn(p)
    BY <1>1, Connects
  <1>2. ASSUME NEW p \in Processes, Remote!Crash(p) PROVE RemoteInv'
    <2>1. CASE link # Remote!NoLink /\ link.process = p
      BY <1>2, <2>1, RefusedGone, SameUpstream DEF Remote!Crash
    <2>2. CASE ~(link # Remote!NoLink /\ link.process = p)
      <3>1. UNCHANGED <<upstream, link, client>> BY <1>2, <2>2 DEF Remote!Crash
      <3> QED BY <3>1 DEF RemoteInv, RemoteTypeOK, RemoteControl, Remote!ObservedExactly
    <2> QED BY <2>1, <2>2
  <1>3. CASE Remote!ClientOpens
    <2>1. /\ client.phase = "waiting" /\ link.phase \in {"piping", "over"} /\ UNCHANGED <<upstream, link>>
          /\ client' = [client EXCEPT !.phase = "reading"]
      BY <1>3 DEF Remote!ClientOpens
    <2>2. link # Remote!NoLink BY <2>1, RemoteTyped
    <2>3. /\ client'.phase = "reading" /\ client'.applied = client.applied /\ client'.seen = client.seen
          /\ RemoteTypeOK'
      BY <2>1 DEF RemoteInv, RemoteTypeOK
    <2>4. RemoteControl' BY <2>1, <2>2, <2>3 DEF RemoteInv, RemoteControl
    <2>5. Remote!ObservedExactly' BY <2>3 DEF RemoteInv, Remote!ObservedExactly
    <2> QED BY <2>1, <2>3, <2>4, <2>5 DEF RemoteInv
  <1>4. CASE Remote!ClientReads BY <1>4, ClientReadsEvent, ClientReadsTerminal
  <1>5. CASE Remote!Disconnect BY <1>5, RefusedGone, SameUpstream DEF Remote!Disconnect
  <1>6. CASE Remote!OpenFails
    <2>1. link.phase \in {"requested", "saving"} /\ Remote!Refused BY <1>6 DEF Remote!OpenFails
    <2>2. link # Remote!NoLink /\ client.phase = "waiting"
      BY <2>1, RemoteTyped DEF RemoteInv, RemoteControl
    <2>3. CASE UNCHANGED upstream BY <2>1, <2>2, <2>3, RefusedGone, SameUpstream
    <2>4. CASE upstream.events = 0 /\ upstream' = [upstream EXCEPT !.events = 1]
      <3>1. upstream.result \notin RemoteEnd BY <2>4 DEF RemoteInv, RemoteControl
      <3>2. /\ upstream' \in [events : Nat, result : {"running"} \cup RemoteEnd]
            /\ upstream.events <= upstream'.events /\ upstream'.result = upstream.result
        BY <2>4 DEF RemoteInv, RemoteTypeOK
      <3> QED BY <2>1, <2>2, <3>1, <3>2, RefusedGone
    <2> QED BY <1>6, <2>3, <2>4 DEF Remote!OpenFails
  <1>7. CASE \/ Remote!OpenStream \/ Remote!SaveTurnState \/ Remote!Accept \/ Remote!FinishStream
             \/ Remote!BreakStream
    BY <1>7, TransportStep
  <1>8. CASE Remote!SendEvent \/ Remote!SendTerminal BY <1>8, GatewayStep
  <1>9. CASE Remote!Produce BY <1>9, ProduceStep
  <1> QED BY <1>1, <1>2, <1>3, <1>4, <1>5, <1>6, <1>7, <1>8, <1>9 DEF Remote!RemoteNext

\* Through any breaks, crashes and resumptions, over any processes, with or
\* without a turn state store, the client of the gateway applies every event
\* of its turn once and in order, and a final result after all of them.
THEOREM EventsObservedExactly ==
    ASSUME MaxEvents \in Nat
    PROVE  RemoteSpec => []ObservedExactly
  <1>1. Remote!RemoteInit => RemoteInv
    BY DEF Remote!RemoteInit, RemoteInv, RemoteTypeOK, RemoteControl, Remote!ObservedExactly,
           Remote!NoLink, RemoteEnd
  <1>2. RemoteInv /\ UNCHANGED Remote!remoteVars => RemoteInv'
    BY DEF Remote!remoteVars, RemoteInv, RemoteTypeOK, RemoteControl, Remote!ObservedExactly
  <1>3. RemoteInv /\ [Remote!RemoteNext]_Remote!remoteVars => RemoteInv'
    BY <1>2, RemoteStep
  <1>4. RemoteInv => Remote!ObservedExactly BY DEF RemoteInv
  <1> QED BY <1>1, <1>3, <1>4, PTL DEF RemoteSpec, ObservedExactly

------------------------------------------------
\* The request protector of the server.

ServerSpec == Server!ServerInit /\ [][Server!ServerNext]_Server!serverVars

ServerPlan == [requests : Seq([key : Keys, print : Prints]), leases : Nat, aborts : Nat, faults : Nat]
Stages == {"validation", "gates", "idempotency", "concurrency", "operation", "release", "settle",
           "retain", "returned"}
ServerRequest ==
    [pc : Stages, gate : Nat, aborted : BOOLEAN, reserved : BOOLEAN, leased : BOOLEAN,
     reply : {"none", "granted", "replay", "failure"},
     answer : {"none", "success", "failure", "replay"}, unsure : BOOLEAN]
HostRecord ==
    [status : {"free", "in_flight", "completed", "failed"}, by : Nat, print : Prints \cup {""}]

\* What a request has at each stage, and which hook it waits for.
Holds(r) ==
    /\ r.pc \in {"validation", "gates", "idempotency", "retain", "returned"} => ~r.reserved /\ ~r.leased
    /\ r.pc \in {"concurrency", "settle"} => r.reserved /\ ~r.leased
    /\ r.pc \in {"operation", "release"} => r.reserved /\ r.leased
    /\ r.aborted => r.answer = "failure" /\ r.pc \in {"release", "settle", "retain", "returned"}
    /\ r.unsure => r.pc \in {"retain", "returned"}
    /\ r.pc \in {"validation", "gates"} => r.reply = "none"
Waits(q, r, cs) ==
    /\ ~r.aborted => /\ <<q, "gate">> \in cs => r.pc = "gates"
                     /\ <<q, "reserve">> \in cs => r.pc = "idempotency"
                     /\ <<q, "acquire">> \in cs => r.pc = "concurrency"
                     /\ <<q, "operate">> \in cs => r.pc = "operation"
    /\ <<q, "reserve">> \in cs => ~r.reserved

\* A reservation, from the host's grant on, is the host's record of its key
\* until it is settled; a completed record has been settled by a request that is answered with
\* success, and the other way round.
Recorded(q, r, e) ==
    /\ r.reserved \/ (r.pc = "idempotency" /\ r.reply = "granted") =>
           e.by = q /\ e.status = "in_flight"
    /\ e.by = q /\ e.status = "completed" =>
           r.pc \in {"retain", "returned"} /\ (r.unsure \/ r.answer = "success")
    /\ r.pc \in {"retain", "returned"} /\ ~r.unsure /\ r.answer = "success" =>
           e.by = q /\ e.status = "completed"

RequestGood(q, r, e, cs) == Holds(r) /\ Waits(q, r, cs) /\ Recorded(q, r, e)

KeyOf(q) == hosted.requests[q].key
ServerInv ==
    /\ hosted \in ServerPlan
    /\ req \in [Server!Requests -> ServerRequest]
    /\ table \in [Keys -> HostRecord]
    /\ \A q \in Server!Requests : RequestGood(q, req[q], table[KeyOf(q)], calls)

LEMMA RequestKey ==
    ASSUME hosted \in ServerPlan, NEW q \in Server!Requests
    PROVE  KeyOf(q) \in Keys /\ q \in Nat /\ q > 0 /\ hosted.requests[q].print \in Prints
  <1> DEFINE A == [key : Keys, print : Prints]
  <1>1. hosted.requests \in Seq(A) BY DEF ServerPlan
  <1> HIDE DEF A
  <1>2. q \in 1..Len(hosted.requests) BY <1>1 DEF Server!Requests
  <1>3. hosted.requests[q] \in A BY <1>1, <1>2
  <1>4. q \in Nat /\ q > 0 BY <1>1, <1>2
  <1> QED BY <1>3, <1>4 DEF KeyOf, A

\* One request and, at most, the record of its key change; the record was
\* nobody else's.
LEMMA RequestMoves ==
    ASSUME ServerInv, NEW q \in Server!Requests, NEW r \in ServerRequest, NEW e \in HostRecord,
           hosted' \in ServerPlan, hosted'.requests = hosted.requests,
           req' = [req EXCEPT ![q] = r], table' = [table EXCEPT ![KeyOf(q)] = e],
           \/ e = table[KeyOf(q)]
           \/ /\ e.by = q
              /\ table[KeyOf(q)].by = q \/ table[KeyOf(q)].status \in {"free", "failed"},
           \A p, h : p # q /\ <<p, h>> \in calls' => <<p, h>> \in calls,
           RequestGood(q, r, e, calls')
    PROVE  ServerInv'
  <1>1. Server!Requests' = Server!Requests BY DEF Server!Requests
  <1>2. \A p : KeyOf(p)' = KeyOf(p) BY DEF KeyOf
  <1>3. req' \in [Server!Requests -> ServerRequest] BY DEF ServerInv
  <1>4. KeyOf(q) \in Keys BY RequestKey DEF ServerInv
  <1>5. table' \in [Keys -> HostRecord] /\ table'[KeyOf(q)] = e BY <1>4 DEF ServerInv
  <1>6. ASSUME NEW p \in Server!Requests
        PROVE  RequestGood(p, req'[p], table'[KeyOf(p)], calls')
    <2>1. CASE p = q BY <1>3, <1>5, <2>1 DEF ServerInv
    <2>2. CASE p # q
      <3>1. req'[p] = req[p] BY <2>2 DEF ServerInv
      <3>2. RequestGood(p, req[p], table[KeyOf(p)], calls) BY DEF ServerInv
      <3>3. Holds(req[p]) BY <3>2 DEF RequestGood
      <3>4. Waits(p, req[p], calls') BY <2>2, <3>2 DEF RequestGood, Waits
      <3>5. Recorded(p, req[p], table'[KeyOf(p)])
        <4>1. KeyOf(p) \in Keys BY RequestKey DEF ServerInv
        <4>2. CASE KeyOf(p) # KeyOf(q) \/ e = table[KeyOf(q)]
          <5>1. table'[KeyOf(p)] = table[KeyOf(p)] BY <4>1, <4>2, <1>4 DEF ServerInv
          <5> QED BY <3>2, <5>1 DEF RequestGood
        <4>3. CASE KeyOf(p) = KeyOf(q) /\ e # table[KeyOf(q)]
          <5>1. table'[KeyOf(p)] = e /\ e.by = q BY <1>5, <4>3
          <5> QED BY <2>2, <3>2, <4>3, <5>1 DEF RequestGood, Recorded
        <4> QED BY <4>2, <4>3
      <3> QED BY <3>1, <3>3, <3>4, <3>5 DEF RequestGood
    <2> QED BY <2>1, <2>2
  <1> QED BY <1>1, <1>2, <1>3, <1>5, <1>6 DEF ServerInv

LEMMA PlanKept ==
    ASSUME ServerInv, \/ UNCHANGED hosted
                      \/ Server!Fault
                      \/ hosted.aborts > 0 /\ hosted' = [hosted EXCEPT !.aborts = @ - 1]
    PROVE  hosted' \in ServerPlan /\ hosted'.requests = hosted.requests
  BY DEF ServerInv, ServerPlan, Server!Fault

LEMMA StageAt ==
    ASSUME NEW q, req[q] \in ServerRequest, NEW s \in Stages
    PROVE  /\ Server!At(q, s) \in ServerRequest
           /\ Server!At(q, s).pc = s /\ Server!At(q, s).aborted = req[q].aborted
           /\ Server!At(q, s).reserved = req[q].reserved /\ Server!At(q, s).leased = req[q].leased
           /\ Server!At(q, s).answer = req[q].answer /\ Server!At(q, s).unsure = req[q].unsure
           /\ Server!At(q, s).reply = req[q].reply
  BY DEF ServerRequest, Server!At, Stages

LEMMA StageEnds ==
    ASSUME NEW q, req[q] \in ServerRequest, NEW s \in Stages,
           NEW a \in {"none", "success", "failure", "replay"}
    PROVE  /\ Server!Ends(q, s, a) \in ServerRequest
           /\ Server!Ends(q, s, a).pc = s /\ Server!Ends(q, s, a).aborted = req[q].aborted
           /\ Server!Ends(q, s, a).reserved = req[q].reserved
           /\ Server!Ends(q, s, a).leased = req[q].leased
           /\ Server!Ends(q, s, a).answer = a /\ Server!Ends(q, s, a).unsure = req[q].unsure
  BY DEF ServerRequest, Server!Ends, Stages

\* A flag of a request that changes.
LEMMA CleanupStage ==
    ASSUME NEW r \in ServerRequest
    PROVE  /\ Server!Cleanup(r) \in Stages
           /\ r.leased => Server!Cleanup(r) = "release"
           /\ ~r.leased /\ r.reserved => Server!Cleanup(r) = "settle"
           /\ ~r.leased /\ ~r.reserved => Server!Cleanup(r) = "retain"
  BY DEF Server!Cleanup, Stages, ServerRequest

LEMMA AfterStage ==
    ASSUME NEW q, req[q] \in ServerRequest
    PROVE  /\ Server!After(q, "leased") \in Stages /\ Server!After(q, "reserved") \in Stages
           /\ req[q].reserved => Server!After(q, "leased") = "settle"
           /\ ~req[q].leased => Server!After(q, "reserved") = "retain"
  BY DEF Server!After, Server!Cleanup, Stages, ServerRequest

Shape(r, stage, aborted, reserved, leased, answer, unsure) ==
    /\ r \in ServerRequest /\ r.pc = stage /\ r.aborted = aborted /\ r.reserved = reserved
    /\ r.leased = leased /\ r.answer = answer /\ r.unsure = unsure

LEMMA RequestOnly ==
    ASSUME ServerInv, NEW q \in Server!Requests, NEW r \in ServerRequest,
           hosted' \in ServerPlan, hosted'.requests = hosted.requests,
           Server!Set(q, r), UNCHANGED table,
           \A p, h : p # q /\ <<p, h>> \in calls' => <<p, h>> \in calls,
           RequestGood(q, r, table[KeyOf(q)], calls')
    PROVE  ServerInv'
  <1>1. KeyOf(q) \in Keys BY RequestKey DEF ServerInv
  <1> DEFINE e == table[KeyOf(q)]
  <1>2. e \in HostRecord /\ table' = [table EXCEPT ![KeyOf(q)] = e] BY <1>1 DEF ServerInv
  <1> HIDE DEF e
  <1>3. req' = [req EXCEPT ![q] = r] BY DEF Server!Set
  <1>4. RequestGood(q, r, e, calls') /\ e = table[KeyOf(q)] BY DEF e
  <1> QED BY <1>2, <1>3, <1>4, RequestMoves

\* The steps before the host is asked to reserve.
LEMMA GateStep ==
    ASSUME ServerInv, NEW q \in Server!Requests,
           Server!Validate(q) \/ Server!PassGate(q) \/ Server!RefuseGate(q)
    PROVE  ServerInv'
  <1>1. req[q] \in ServerRequest /\ RequestGood(q, req[q], table[KeyOf(q)], calls) BY DEF ServerInv
  <1>2. /\ UNCHANGED table /\ hosted' \in ServerPlan /\ hosted'.requests = hosted.requests
    BY PlanKept DEF Server!Validate, Server!PassGate, Server!RefuseGate, Server!KeepHost
  <1>3. \A p, h : p # q /\ <<p, h>> \in calls' => <<p, h>> \in calls
    BY DEF Server!Validate, Server!PassGate, Server!RefuseGate, Server!Call, Server!Answered
  <1>4. CASE Server!Validate(q)
    <2>1. req[q].pc = "validation" /\ ~req[q].aborted
      BY <1>1, <1>4 DEF Server!Validate, RequestGood, Holds
    <2>2. CASE Server!Set(q, Server!At(q, "gates")) /\ Server!Call(q, "gate")
      <3> DEFINE r == Server!At(q, "gates")
      <3>1. /\ Shape(r, "gates", FALSE, req[q].reserved, req[q].leased, req[q].answer, req[q].unsure)
            /\ r.reply = req[q].reply
        BY <1>1, <2>1, StageAt DEF Stages, Shape
      <3> HIDE DEF r
      <3>2. RequestGood(q, r, table[KeyOf(q)], calls')
        BY <1>1, <2>1, <2>2, <3>1 DEF RequestGood, Holds, Waits, Recorded, Server!Call, Shape
      <3> QED BY <1>2, <1>3, <2>2, <3>1, <3>2, RequestOnly DEF r, Shape
    <2>3. CASE Server!Set(q, Server!Ends(q, "retain", "failure")) /\ UNCHANGED calls
      <3> DEFINE r == Server!Ends(q, "retain", "failure")
      <3>1. Shape(r, "retain", FALSE, req[q].reserved, req[q].leased, "failure", req[q].unsure)
        BY <1>1, <2>1, StageEnds DEF Stages, Shape
      <3> HIDE DEF r
      <3>2. RequestGood(q, r, table[KeyOf(q)], calls')
        BY <1>1, <2>1, <2>3, <3>1 DEF RequestGood, Holds, Waits, Recorded, Shape
      <3> QED BY <1>2, <1>3, <2>3, <3>1, <3>2, RequestOnly DEF r, Shape
    <2> QED BY <1>4, <2>2, <2>3 DEF Server!Validate
  <1>5. CASE Server!PassGate(q)
    <2>1. req[q].pc = "gates" /\ ~req[q].aborted
      BY <1>1, <1>5 DEF Server!PassGate, Server!Listens, RequestGood, Waits
    <2>2. CASE Server!Set(q, [req[q] EXCEPT !.gate = @ + 1]) /\ UNCHANGED calls
      <3> DEFINE r == [req[q] EXCEPT !.gate = @ + 1]
      <3>1. /\ Shape(r, "gates", FALSE, req[q].reserved, req[q].leased, req[q].answer, req[q].unsure)
            /\ r.reply = req[q].reply
        BY <1>1, <2>1 DEF ServerRequest, Shape
      <3> HIDE DEF r
      <3>2. RequestGood(q, r, table[KeyOf(q)], calls')
        BY <1>1, <2>1, <2>2, <3>1 DEF RequestGood, Holds, Waits, Recorded, Shape
      <3> QED BY <1>2, <1>3, <2>2, <3>1, <3>2, RequestOnly DEF r, Shape
    <2>3. CASE /\ Server!Set(q, Server!At(q, "idempotency"))
               /\ calls' = (calls \ {<<q, "gate">>}) \union {<<q, "reserve">>}
      <3> DEFINE r == Server!At(q, "idempotency")
      <3>1. /\ Shape(r, "idempotency", FALSE, req[q].reserved, req[q].leased, req[q].answer, req[q].unsure)
            /\ r.reply = req[q].reply
        BY <1>1, <2>1, StageAt DEF Stages, Shape
      <3> HIDE DEF r
      <3>2. RequestGood(q, r, table[KeyOf(q)], calls')
        BY <1>1, <2>1, <2>3, <3>1 DEF RequestGood, Holds, Waits, Recorded, Shape
      <3> QED BY <1>2, <1>3, <2>3, <3>1, <3>2, RequestOnly DEF r, Shape
    <2> QED BY <1>5, <2>2, <2>3 DEF Server!PassGate
  <1>6. CASE Server!RefuseGate(q)
    <2>1. req[q].pc = "gates" /\ ~req[q].aborted
      BY <1>1, <1>6 DEF Server!RefuseGate, Server!Listens, RequestGood, Waits
    <2> DEFINE r == Server!Ends(q, "retain", "failure")
    <2>2. Shape(r, "retain", FALSE, req[q].reserved, req[q].leased, "failure", req[q].unsure)
      BY <1>1, <2>1, StageEnds DEF Stages, Shape
    <2> HIDE DEF r
    <2>3. RequestGood(q, r, table[KeyOf(q)], calls')
      BY <1>1, <1>6, <2>1, <2>2
      DEF RequestGood, Holds, Waits, Recorded, Shape, Server!RefuseGate, Server!Answered
    <2> QED BY <1>2, <1>3, <1>6, <2>2, <2>3, RequestOnly DEF r, Shape, Server!RefuseGate
  <1> QED BY <1>4, <1>5, <1>6

\* The host reserves the key of q: nobody holds it.
LEMMA Reserves ==
    ASSUME ServerInv, NEW q \in Server!Requests, Server!Grants(q), Server!Reserve(q),
           NEW r \in ServerRequest, Server!Set(q, r),
           hosted' \in ServerPlan, hosted'.requests = hosted.requests,
           \A p, h : p # q /\ <<p, h>> \in calls' => <<p, h>> \in calls,
           Holds(r), Waits(q, r, calls'),
           ~(r.pc \in {"retain", "returned"} /\ ~r.unsure /\ r.answer = "success")
    PROVE  ServerInv'
  <1> DEFINE e == [status |-> "in_flight", by |-> q, print |-> hosted.requests[q].print]
  <1>1. q \in Nat /\ hosted.requests[q].print \in Prints BY RequestKey DEF ServerInv
  <1>2. e \in HostRecord /\ e.by = q /\ e.status = "in_flight" BY <1>1 DEF HostRecord
  <1> HIDE DEF e
  <1>3. /\ req' = [req EXCEPT ![q] = r] /\ table' = [table EXCEPT ![KeyOf(q)] = e]
        /\ table[KeyOf(q)].status \in {"free", "failed"}
    BY DEF Server!Set, Server!Reserve, Server!Grants, Server!HostEntry, KeyOf, e
  <1>4. RequestGood(q, r, e, calls') BY <1>2 DEF RequestGood, Recorded
  <1> QED BY <1>2, <1>3, <1>4, RequestMoves

\* The host decides, on a reservation or a lease, before the reply arrives.
LEMMA HostStep ==
    ASSUME ServerInv, NEW q \in Server!Requests, Server!HostReserves(q) \/ Server!HostLeases(q)
    PROVE  ServerInv'
  <1>1. req[q] \in ServerRequest /\ RequestGood(q, req[q], table[KeyOf(q)], calls) BY DEF ServerInv
  <1>2. hosted' \in ServerPlan /\ hosted'.requests = hosted.requests /\ UNCHANGED calls
    BY PlanKept DEF Server!HostReserves, Server!HostLeases
  <1>3. \A p, h : p # q /\ <<p, h>> \in calls' => <<p, h>> \in calls BY <1>2
  <1>4. PICK x \in {"granted", "replay", "failure"} :
          /\ Server!Set(q, [req[q] EXCEPT !.reply = x])
          /\ \/ Server!HostReserves(q) /\ Server!Grants(q) /\ Server!Reserve(q)
             \/ UNCHANGED table /\ (Server!HostReserves(q) => x # "granted")
    BY DEF Server!HostReserves, Server!HostLeases, Server!Decision
  <1>5. req[q].pc \in {"idempotency", "concurrency"} /\ ~req[q].aborted
        /\ (req[q].pc = "idempotency" => Server!HostReserves(q))
    BY <1>1 DEF Server!HostReserves, Server!HostLeases, Server!Listens, RequestGood, Waits
  <1> DEFINE r == [req[q] EXCEPT !.reply = x]
  <1>6. /\ Shape(r, req[q].pc, req[q].aborted, req[q].reserved, req[q].leased, req[q].answer, req[q].unsure)
        /\ r.reply = x /\ Server!Set(q, r)
    BY <1>1, <1>4 DEF Shape, ServerRequest
  <1> HIDE DEF r
  <1>7. Holds(r) /\ Waits(q, r, calls') /\ r \in ServerRequest
    BY <1>1, <1>2, <1>5, <1>6 DEF RequestGood, Holds, Waits, Shape
  <1>8. CASE Server!Grants(q) /\ Server!Reserve(q)
    <2>1. ~(r.pc \in {"retain", "returned"} /\ ~r.unsure /\ r.answer = "success")
      BY <1>5, <1>6 DEF Shape
    <2> QED BY <1>2, <1>3, <1>6, <1>7, <1>8, <2>1, Reserves
  <1>9. CASE UNCHANGED table /\ (Server!HostReserves(q) => x # "granted")
    <2>1. Recorded(q, r, table[KeyOf(q)]) BY <1>1, <1>5, <1>6, <1>9 DEF RequestGood, Recorded, Shape
    <2>2. RequestGood(q, r, table[KeyOf(q)], calls') BY <1>7, <2>1 DEF RequestGood
    <2> QED BY <1>2, <1>3, <1>6, <1>7, <1>9, <2>2, RequestOnly
  <1> QED BY <1>4, <1>8, <1>9

LEMMA ReserveStep ==
    ASSUME ServerInv, NEW q \in Server!Requests, Server!ReserveIdempotency(q)
    PROVE  ServerInv'
  <1>1. req[q] \in ServerRequest /\ RequestGood(q, req[q], table[KeyOf(q)], calls) BY DEF ServerInv
  <1>2. hosted' \in ServerPlan /\ hosted'.requests = hosted.requests /\ UNCHANGED table
    BY PlanKept DEF Server!ReserveIdempotency, Server!KeepHost
  <1>3. \A p, h : p # q /\ <<p, h>> \in calls' => <<p, h>> \in calls
    BY DEF Server!ReserveIdempotency, Server!Answered
  <1>4. req[q].pc = "idempotency" /\ ~req[q].aborted
    BY <1>1 DEF Server!ReserveIdempotency, Server!Listens, RequestGood, Waits
  <1>5. CASE req[q].reply = "granted"
    <2> DEFINE r == [Server!At(q, "concurrency") EXCEPT !.reserved = TRUE, !.reply = "none"]
    <2>1. Server!Set(q, r) /\ calls' = (calls \ {<<q, "reserve">>}) \union {<<q, "acquire">>}
      BY <1>5 DEF Server!ReserveIdempotency
    <2>2. Shape(r, "concurrency", FALSE, TRUE, req[q].leased, req[q].answer, req[q].unsure)
      BY <1>1, <1>4 DEF Stages, Shape, Server!At, ServerRequest
    <2> HIDE DEF r
    <2>3. Holds(r) /\ Waits(q, r, calls')
      BY <1>1, <1>4, <2>1, <2>2 DEF RequestGood, Holds, Waits, Shape
    <2>4. Recorded(q, r, table[KeyOf(q)]) BY <1>1, <1>4, <1>5, <2>2 DEF RequestGood, Recorded, Shape
    <2>5. r \in ServerRequest /\ RequestGood(q, r, table[KeyOf(q)], calls')
      BY <2>2, <2>3, <2>4 DEF Shape, RequestGood
    <2> QED BY <1>2, <1>3, <2>1, <2>5, RequestOnly
  <1>6. CASE req[q].reply # "granted"
    <2> DEFINE d == req[q].reply
               r == Server!Ends(q, "retain", d)
    <2>1. Server!Set(q, r) /\ calls' = calls \ {<<q, "reserve">>}
      BY <1>6 DEF Server!ReserveIdempotency, Server!Answered
    <2>2. d \in {"failure", "replay"} BY <1>1, <1>6 DEF Server!ReserveIdempotency, ServerRequest
    <2> HIDE DEF d
    <2>3. Shape(r, "retain", FALSE, req[q].reserved, req[q].leased, d, req[q].unsure)
      BY <1>1, <1>4, <2>2, StageEnds DEF Stages, Shape
    <2> HIDE DEF r
    <2>4. Holds(r) /\ Waits(q, r, calls')
      BY <1>1, <1>4, <2>1, <2>2, <2>3 DEF RequestGood, Holds, Waits, Shape
    <2>5. Recorded(q, r, table[KeyOf(q)])
      BY <1>1, <1>4, <2>2, <2>3 DEF RequestGood, Recorded, Holds, Shape
    <2>6. r \in ServerRequest /\ RequestGood(q, r, table[KeyOf(q)], calls')
      BY <2>3, <2>4, <2>5 DEF Shape, RequestGood
    <2> QED BY <1>2, <1>3, <2>1, <2>6, RequestOnly
  <1> QED BY <1>5, <1>6

\* A request that fails or ends its operation, and cleans up what it has.
LEMMA CleansUp ==
    ASSUME ServerInv, NEW q \in Server!Requests, NEW a \in {"success", "failure"},
           NEW r \in ServerRequest, NEW b \in BOOLEAN,
           Shape(r, Server!Cleanup(req[q]), b, req[q].reserved, req[q].leased, a, FALSE),
           b => a = "failure",
           a = "success" => req[q].reserved,
           req[q].pc \in {"gates", "idempotency", "concurrency", "operation"},
           hosted' \in ServerPlan, hosted'.requests = hosted.requests,
           Server!Set(q, r), UNCHANGED table,
           \A p, h : p # q /\ <<p, h>> \in calls' => <<p, h>> \in calls,
           Waits(q, r, calls')
    PROVE  ServerInv'
  <1>1. req[q] \in ServerRequest /\ RequestGood(q, req[q], table[KeyOf(q)], calls) BY DEF ServerInv
  <1>2. r.pc = Server!Cleanup(req[q]) /\ r.reserved = req[q].reserved /\ r.leased = req[q].leased
        /\ r.answer = a /\ r.aborted = b /\ ~r.unsure
    BY DEF Shape
  <1>3. /\ req[q].leased => r.pc = "release" /\ req[q].reserved
        /\ ~req[q].leased /\ req[q].reserved => r.pc = "settle"
        /\ ~req[q].leased /\ ~req[q].reserved => r.pc = "retain"
    BY <1>1, <1>2, CleanupStage DEF RequestGood, Holds
  <1>4. req[q].leased \in BOOLEAN /\ req[q].reserved \in BOOLEAN BY <1>1 DEF ServerRequest
  <1>5. Holds(r)
    <2>1. CASE req[q].leased BY <1>2, <1>3, <2>1 DEF Holds
    <2>2. CASE ~req[q].leased /\ req[q].reserved BY <1>2, <1>3, <2>2 DEF Holds
    <2>3. CASE ~req[q].leased /\ ~req[q].reserved BY <1>2, <1>3, <2>3 DEF Holds
    <2> QED BY <1>4, <2>1, <2>2, <2>3
  <1>6. Recorded(q, r, table[KeyOf(q)])
    <2>1. /\ r.reserved => table[KeyOf(q)].by = q /\ table[KeyOf(q)].status = "in_flight"
          /\ ~(table[KeyOf(q)].by = q /\ table[KeyOf(q)].status = "completed")
      BY <1>1, <1>2 DEF RequestGood, Recorded
    <2>2. ~(r.pc \in {"retain", "returned"} /\ r.answer = "success") /\ r.pc # "idempotency"
      BY <1>2, <1>3, <1>4
    <2> QED BY <2>1, <2>2 DEF Recorded
  <1> QED BY <1>5, <1>6, RequestOnly DEF RequestGood

LEMMA AcquireStep ==
    ASSUME ServerInv, NEW q \in Server!Requests, Server!AcquireConcurrency(q)
    PROVE  ServerInv'
  <1>1. req[q] \in ServerRequest /\ RequestGood(q, req[q], table[KeyOf(q)], calls) BY DEF ServerInv
  <1>2. hosted' \in ServerPlan /\ hosted'.requests = hosted.requests /\ UNCHANGED table
    BY PlanKept DEF Server!AcquireConcurrency, Server!KeepHost
  <1>3. \A p, h : p # q /\ <<p, h>> \in calls' => <<p, h>> \in calls
    BY DEF Server!AcquireConcurrency, Server!Answered
  <1>4. req[q].pc = "concurrency" /\ ~req[q].aborted
    BY <1>1 DEF Server!AcquireConcurrency, Server!Listens, RequestGood, Waits
  <1>5. req[q].reserved /\ ~req[q].leased /\ ~req[q].unsure BY <1>1, <1>4 DEF RequestGood, Holds
  <1>6. CASE /\ Server!Set(q, [Server!At(q, "operation") EXCEPT !.leased = TRUE])
             /\ calls' = (calls \ {<<q, "acquire">>}) \union {<<q, "operate">>}
    <2> DEFINE r == [Server!At(q, "operation") EXCEPT !.leased = TRUE]
    <2>1. Server!Set(q, r) /\ calls' = (calls \ {<<q, "acquire">>}) \union {<<q, "operate">>}
      BY <1>6
    <2>2. Shape(r, "operation", FALSE, req[q].reserved, TRUE, req[q].answer, req[q].unsure)
      BY <1>1, <1>4 DEF Stages, Shape, Server!At, ServerRequest
    <2> HIDE DEF r
    <2>3. Holds(r) /\ Waits(q, r, calls') BY <1>1, <1>4, <1>5, <2>1, <2>2 DEF RequestGood, Holds, Waits, Shape
    <2>4. Recorded(q, r, table[KeyOf(q)]) BY <1>1, <1>4, <1>5, <2>2 DEF RequestGood, Recorded, Shape
    <2>5. r \in ServerRequest /\ RequestGood(q, r, table[KeyOf(q)], calls')
      BY <2>2, <2>3, <2>4 DEF Shape, RequestGood
    <2> QED BY <1>2, <1>3, <2>1, <2>5, RequestOnly
  <1>7. CASE Server!Set(q, Server!Ends(q, "settle", "failure")) /\ Server!Answered(q, "acquire")
    <2> DEFINE r == Server!Ends(q, "settle", "failure")
    <2>1. Server!Set(q, r) /\ calls' = calls \ {<<q, "acquire">>}
      BY <1>7 DEF Server!Answered
    <2>2. Shape(r, "settle", FALSE, req[q].reserved, req[q].leased, "failure", req[q].unsure)
      BY <1>1, <1>4, StageEnds DEF Stages, Shape
    <2> HIDE DEF r
    <2>3. Holds(r) /\ Waits(q, r, calls') BY <1>1, <1>4, <1>5, <2>1, <2>2 DEF RequestGood, Holds, Waits, Shape
    <2>4. Recorded(q, r, table[KeyOf(q)]) BY <1>1, <1>4, <1>5, <2>2 DEF RequestGood, Recorded, Shape
    <2>5. r \in ServerRequest /\ RequestGood(q, r, table[KeyOf(q)], calls')
      BY <2>2, <2>3, <2>4 DEF Shape, RequestGood
    <2> QED BY <1>2, <1>3, <2>1, <2>5, RequestOnly
  <1> QED BY <1>6, <1>7 DEF Server!AcquireConcurrency

LEMMA OperateStep ==
    ASSUME ServerInv, NEW q \in Server!Requests,
           Server!Operate(q) \/ Server!HookThrows(q) \/ Server!Abort(q)
    PROVE  ServerInv'
  <1>1. req[q] \in ServerRequest /\ RequestGood(q, req[q], table[KeyOf(q)], calls) BY DEF ServerInv
  <1>2. hosted' \in ServerPlan /\ hosted'.requests = hosted.requests /\ UNCHANGED table
    <2>1. UNCHANGED table BY DEF Server!Operate, Server!HookThrows, Server!Abort, Server!KeepHost
    <2>2. \/ UNCHANGED hosted \/ Server!Fault
          \/ hosted.aborts > 0 /\ hosted' = [hosted EXCEPT !.aborts = @ - 1]
      BY DEF Server!Operate, Server!HookThrows, Server!Abort
    <2> QED BY <2>1, <2>2, PlanKept
  <1>3. \A p, h : p # q /\ <<p, h>> \in calls' => <<p, h>> \in calls
    BY DEF Server!Operate, Server!HookThrows, Server!Abort, Server!Answered
  <1> DEFINE c == Server!Cleanup(req[q])
  <1>4. c \in Stages BY <1>1, CleanupStage
  <1> HIDE DEF c
  <1>5. CASE Server!Operate(q)
    <2>1. req[q].pc = "operation" /\ ~req[q].aborted
      BY <1>1, <1>5 DEF Server!Operate, Server!Listens, RequestGood, Waits
    <2>2. PICK a \in {"success", "failure"} : Server!Set(q, Server!Ends(q, c, a))
      BY <1>5 DEF Server!Operate, Server!Stored, c
    <2> DEFINE r == Server!Ends(q, c, a)
    <2>3. Shape(r, c, FALSE, req[q].reserved, req[q].leased, a, FALSE) /\ req[q].reserved
      <3>1. ~req[q].unsure /\ req[q].reserved BY <1>1, <2>1 DEF RequestGood, Holds
      <3>2. Shape(r, c, FALSE, req[q].reserved, req[q].leased, a, req[q].unsure)
        BY <1>1, <1>4, <2>1, StageEnds DEF Shape
      <3>3. req[q].unsure = FALSE BY <1>1, <3>1 DEF ServerRequest
      <3> QED BY <3>1, <3>2, <3>3
    <2> HIDE DEF r
    <2>4. Waits(q, r, calls')
      BY <1>1, <1>5, <2>1, <2>3 DEF RequestGood, Waits, Shape, Server!Operate, Server!Answered
    <2>5. r \in ServerRequest /\ Server!Set(q, r) BY <2>2, <2>3 DEF Shape, r
    <2> QED BY <1>2, <1>3, <2>1, <2>3, <2>4, <2>5, CleansUp DEF c
  <1>6. CASE Server!HookThrows(q)
    <2>1. PICK h \in {"gate", "reserve", "acquire"} : Server!Listens(q, h) /\ Server!Answered(q, h)
      BY <1>6 DEF Server!HookThrows
    <2>2. req[q].pc \in {"gates", "idempotency", "concurrency"} /\ ~req[q].aborted
      BY <1>1, <2>1 DEF Server!Listens, RequestGood, Waits
    <2> DEFINE r == Server!Ends(q, c, "failure")
    <2>3. Shape(r, c, FALSE, req[q].reserved, req[q].leased, "failure", FALSE)
      <3>1. ~req[q].unsure BY <1>1, <2>2 DEF RequestGood, Holds
      <3>2. Shape(r, c, FALSE, req[q].reserved, req[q].leased, "failure", req[q].unsure)
        BY <1>1, <1>4, <2>2, StageEnds DEF Shape
      <3>3. req[q].unsure = FALSE BY <1>1, <3>1 DEF ServerRequest
      <3> QED BY <3>2, <3>3
    <2> HIDE DEF r
    <2>4. Waits(q, r, calls')
      BY <1>1, <2>1, <2>2, <2>3 DEF RequestGood, Waits, Shape, Server!Listens, Server!Answered
    <2>5. r \in ServerRequest /\ Server!Set(q, r) BY <1>6, <2>3 DEF Shape, r, c, Server!HookThrows
    <2> QED BY <1>2, <1>3, <2>2, <2>3, <2>4, <2>5, CleansUp DEF c
  <1>7. CASE Server!Abort(q)
    <2>1. req[q].pc \in {"gates", "idempotency", "concurrency", "operation"} /\ ~req[q].aborted
          /\ UNCHANGED calls
      BY <1>7 DEF Server!Abort
    <2> DEFINE r == [Server!Ends(q, c, "failure") EXCEPT !.aborted = TRUE]
    <2>2. Shape(r, c, TRUE, req[q].reserved, req[q].leased, "failure", FALSE)
      <3>1. ~req[q].unsure BY <1>1, <2>1 DEF RequestGood, Holds
      <3>2. Shape(r, c, TRUE, req[q].reserved, req[q].leased, "failure", req[q].unsure)
        BY <1>1, <1>4 DEF Shape, Server!Ends, ServerRequest
      <3>3. req[q].unsure = FALSE BY <1>1, <3>1 DEF ServerRequest
      <3> QED BY <3>2, <3>3
    <2> HIDE DEF r
    <2>3. Waits(q, r, calls') BY <1>1, <2>1, <2>2 DEF RequestGood, Waits, Shape
    <2>4. r \in ServerRequest /\ Server!Set(q, r) BY <1>7, <2>2 DEF Shape, r, c, Server!Abort
    <2> QED BY <1>2, <1>3, <2>1, <2>2, <2>3, <2>4, CleansUp DEF c
  <1> QED BY <1>5, <1>6, <1>7

\* A hook that nobody waits for any more.
LEMMA LateStep ==
    ASSUME ServerInv, NEW q \in Server!Requests, Server!HookEndsLate(q)
    PROVE  ServerInv'
  <1>1. req[q] \in ServerRequest /\ RequestGood(q, req[q], table[KeyOf(q)], calls) BY DEF ServerInv
  <1>2. hosted' \in ServerPlan /\ hosted'.requests = hosted.requests /\ UNCHANGED table
    BY PlanKept DEF Server!HookEndsLate, Server!KeepHost
  <1>3. /\ \A p, h : <<p, h>> \in calls' => <<p, h>> \in calls
        /\ \A p, h : p # q /\ <<p, h>> \in calls' => <<p, h>> \in calls
    BY DEF Server!HookEndsLate, Server!Answered
  <1>4. Server!Set(q, req[q]) BY DEF Server!HookEndsLate, Server!Set, ServerInv
  <1>5. RequestGood(q, req[q], table[KeyOf(q)], calls') BY <1>1, <1>3 DEF RequestGood, Waits
  <1> QED BY <1>1, <1>2, <1>3, <1>4, <1>5, RequestOnly

\* Cleanup.
LEMMA ReleaseStep ==
    ASSUME ServerInv, NEW q \in Server!Requests,
           \/ Server!ReleaseConcurrency(q) \/ Server!ReleaseThrows(q) \/ Server!RetainAndReturn(q)
    PROVE  ServerInv'
  <1>1. req[q] \in ServerRequest /\ RequestGood(q, req[q], table[KeyOf(q)], calls) BY DEF ServerInv
  <1>2. hosted' \in ServerPlan /\ hosted'.requests = hosted.requests /\ UNCHANGED <<table, calls>>
    BY PlanKept DEF Server!ReleaseConcurrency, Server!ReleaseThrows, Server!RetainAndReturn, Server!KeepHost
  <1>3. \A p, h : p # q /\ <<p, h>> \in calls' => <<p, h>> \in calls BY <1>2
  <1>4. CASE req[q].pc = "release"
    <2>1. req[q].reserved /\ req[q].leased /\ ~req[q].unsure BY <1>1, <1>4 DEF RequestGood, Holds
    <2>2. Server!After(q, "leased") = "settle" BY <1>1, <2>1, AfterStage
    <2> DEFINE r == [Server!At(q, "settle") EXCEPT !.leased = FALSE]
               f == [Server!Ends(q, "settle", "failure") EXCEPT !.leased = FALSE]
    <2>3. Server!Set(q, r) \/ Server!Set(q, f)
      BY <1>4, <2>2 DEF Server!ReleaseConcurrency, Server!ReleaseThrows, Server!RetainAndReturn
    <2>4. /\ Shape(r, "settle", req[q].aborted, req[q].reserved, FALSE, req[q].answer, req[q].unsure)
          /\ Shape(f, "settle", req[q].aborted, req[q].reserved, FALSE, "failure", req[q].unsure)
      BY <1>1 DEF Shape, Server!At, Server!Ends, ServerRequest, Stages
    <2> HIDE DEF r, f
    <2>5. PICK x \in {r, f}, a \in {req[q].answer, "failure"} : /\ Server!Set(q, x)
            /\ Shape(x, "settle", req[q].aborted, req[q].reserved, FALSE, a, req[q].unsure)
      BY <2>3, <2>4
    <2>6. Holds(x) /\ Waits(q, x, calls')
      BY <1>1, <1>2, <1>4, <2>1, <2>5 DEF RequestGood, Holds, Waits, Shape
    <2>7. Recorded(q, x, table[KeyOf(q)])
      BY <1>1, <1>4, <2>1, <2>5 DEF RequestGood, Recorded, Shape
    <2>8. x \in ServerRequest /\ RequestGood(q, x, table[KeyOf(q)], calls')
      BY <2>5, <2>6, <2>7 DEF Shape, RequestGood
    <2> QED BY <1>2, <1>3, <2>5, <2>8, RequestOnly
  <1>5. CASE Server!RetainAndReturn(q)
    <2> DEFINE r == Server!At(q, "returned")
    <2>1. req[q].pc = "retain" /\ Server!Set(q, r) BY <1>5 DEF Server!RetainAndReturn
    <2>2. Shape(r, "returned", req[q].aborted, req[q].reserved, req[q].leased, req[q].answer, req[q].unsure)
      BY <1>1, StageAt DEF Shape, Stages
    <2> HIDE DEF r
    <2>3. Holds(r) /\ Waits(q, r, calls')
      BY <1>1, <1>2, <2>1, <2>2 DEF RequestGood, Holds, Waits, Shape
    <2>4. Recorded(q, r, table[KeyOf(q)]) BY <1>1, <2>1, <2>2 DEF RequestGood, Recorded, Shape
    <2>5. r \in ServerRequest /\ RequestGood(q, r, table[KeyOf(q)], calls')
      BY <2>2, <2>3, <2>4 DEF Shape, RequestGood
    <2> QED BY <1>2, <1>3, <2>1, <2>5, RequestOnly
  <1> QED BY <1>4, <1>5 DEF Server!ReleaseConcurrency, Server!ReleaseThrows

LEMMA SettleStep ==
    ASSUME ServerInv, NEW q \in Server!Requests,
           Server!SettleIdempotency(q) \/ Server!SettleThrows(q)
    PROVE  ServerInv'
  <1>1. req[q] \in ServerRequest /\ RequestGood(q, req[q], table[KeyOf(q)], calls) BY DEF ServerInv
  <1>2. hosted' \in ServerPlan /\ hosted'.requests = hosted.requests /\ UNCHANGED calls
    BY PlanKept DEF Server!SettleIdempotency, Server!SettleThrows
  <1>3. \A p, h : p # q /\ <<p, h>> \in calls' => <<p, h>> \in calls BY <1>2
  <1>4. req[q].pc = "settle" BY DEF Server!SettleIdempotency, Server!SettleThrows
  <1>5. req[q].reserved /\ ~req[q].leased /\ ~req[q].unsure BY <1>1, <1>4 DEF RequestGood, Holds
  <1>6. Server!After(q, "reserved") = "retain" BY <1>1, <1>5, AfterStage
  <1>7. KeyOf(q) \in Keys /\ table[KeyOf(q)] \in HostRecord BY RequestKey DEF ServerInv
  <1>8. table[KeyOf(q)].by = q /\ table[KeyOf(q)].status = "in_flight"
    BY <1>1, <1>5 DEF RequestGood, Recorded
  <1> DEFINE s == IF req[q].answer = "success" THEN "completed" ELSE "failed"
             e == [table[KeyOf(q)] EXCEPT !.status = s]
  <1>9. s \in {"completed", "failed"} /\ (s = "completed" <=> req[q].answer = "success") OBVIOUS
  <1> HIDE DEF s
  <1>10. e \in HostRecord /\ e.by = q /\ e.status = s BY <1>7, <1>8, <1>9 DEF HostRecord
  <1> HIDE DEF e
  <1>11. Server!Settle(q) => table' = [table EXCEPT ![KeyOf(q)] = e]
    BY DEF Server!Settle, KeyOf, s, e, ServerInv
  <1>12. CASE Server!SettleIdempotency(q)
    <2> DEFINE r == [Server!At(q, "retain") EXCEPT !.reserved = FALSE]
    <2>1. Server!Set(q, r) /\ table' = [table EXCEPT ![KeyOf(q)] = e]
      BY <1>6, <1>11, <1>12 DEF Server!SettleIdempotency
    <2>2. Shape(r, "retain", req[q].aborted, FALSE, req[q].leased, req[q].answer, req[q].unsure)
      BY <1>1 DEF Shape, Server!At, ServerRequest, Stages
    <2> HIDE DEF r
    <2>3. Holds(r) /\ Waits(q, r, calls')
      BY <1>1, <1>2, <1>4, <1>5, <2>2 DEF RequestGood, Holds, Waits, Shape
    <2>4. Recorded(q, r, e) BY <1>5, <1>9, <1>10, <2>2 DEF Recorded, Shape
    <2>5. r \in ServerRequest /\ RequestGood(q, r, e, calls') BY <2>2, <2>3, <2>4 DEF Shape, RequestGood
    <2>6. req' = [req EXCEPT ![q] = r] BY <2>1 DEF Server!Set
    <2> QED BY <1>2, <1>3, <1>8, <1>10, <2>1, <2>5, <2>6, RequestMoves
  <1>13. CASE Server!SettleThrows(q)
    <2> DEFINE r == [Server!Ends(q, "retain", "failure") EXCEPT !.reserved = FALSE, !.unsure = TRUE]
    <2>1. Server!Set(q, r) BY <1>6, <1>13 DEF Server!SettleThrows
    <2>2. Shape(r, "retain", req[q].aborted, FALSE, req[q].leased, "failure", TRUE)
      BY <1>1 DEF Shape, Server!Ends, ServerRequest, Stages
    <2> HIDE DEF r
    <2>3. Holds(r) /\ Waits(q, r, calls')
      BY <1>1, <1>2, <1>4, <1>5, <2>2 DEF RequestGood, Holds, Waits, Shape
    <2>4. \A x : Recorded(q, r, x) BY <2>2 DEF Recorded, Shape
    <2>5. r \in ServerRequest /\ \A x : RequestGood(q, r, x, calls')
      BY <2>2, <2>3, <2>4 DEF Shape, RequestGood
    <2>6. req' = [req EXCEPT ![q] = r] BY <2>1 DEF Server!Set
    <2>7. CASE Server!Settle(q)
      <3>1. RequestGood(q, r, e, calls') BY <2>5
      <3> QED BY <1>2, <1>3, <1>8, <1>10, <1>11, <2>5, <2>6, <2>7, <3>1, RequestMoves
    <2>8. CASE UNCHANGED table
      <3>1. RequestGood(q, r, table[KeyOf(q)], calls') BY <2>5
      <3> QED BY <1>2, <1>3, <2>1, <2>5, <2>8, <3>1, RequestOnly
    <2> QED BY <1>13, <2>7, <2>8 DEF Server!SettleThrows
  <1> QED BY <1>12, <1>13

LEMMA ServerStep ==
    ASSUME ServerInv, [Server!ServerNext]_Server!serverVars
    PROVE  ServerInv'
  <1>1. CASE UNCHANGED Server!serverVars
    BY <1>1 DEF Server!serverVars, ServerInv, Server!Requests, KeyOf
  <1>2. CASE Server!ServerNext
    <2>1. PICK q \in Server!Requests :
            \/ Server!Validate(q) \/ Server!PassGate(q) \/ Server!RefuseGate(q)
            \/ Server!HostReserves(q) \/ Server!ReserveIdempotency(q)
            \/ Server!HostLeases(q) \/ Server!AcquireConcurrency(q) \/ Server!Operate(q)
            \/ Server!HookThrows(q) \/ Server!Abort(q) \/ Server!HookEndsLate(q)
            \/ Server!ReleaseConcurrency(q) \/ Server!ReleaseThrows(q) \/ Server!SettleIdempotency(q)
            \/ Server!SettleThrows(q) \/ Server!RetainAndReturn(q)
      BY <1>2 DEF Server!ServerNext
    <2> QED BY <2>1, GateStep, HostStep, ReserveStep, AcquireStep, OperateStep, LateStep, ReleaseStep, SettleStep
  <1> QED BY <1>1, <1>2

(***************************************************************************)
(* What the caller is told is what a retry under the same key finds, for   *)
(* any number of requests, keys, leases, aborts and faults (execute,       *)
(* protectedAwait and the cleanup of server/trusted-server.ts).            *)
(***************************************************************************)
THEOREM AnswersStand ==
    ASSUME ServerPlans \subseteq ServerPlan
    PROVE  ServerSpec => []AnswerStands
  <1>1. Server!ServerInit => ServerInv
    <2> SUFFICES ASSUME Server!ServerInit PROVE ServerInv OBVIOUS
    <2>1. hosted \in ServerPlan /\ req = [q \in Server!Requests |-> Server!NewRequest] /\ calls = {}
          /\ table = [k \in Keys |-> Server!Free]
      BY DEF Server!ServerInit
    <2>2. /\ Shape(Server!NewRequest, "validation", FALSE, FALSE, FALSE, "none", FALSE)
          /\ Server!NewRequest.reply = "none"
      BY DEF Server!NewRequest, Shape, ServerRequest, Stages
    <2>3. Server!Free \in HostRecord /\ Server!Free.by = 0 BY DEF Server!Free, HostRecord
    <2>4. req \in [Server!Requests -> ServerRequest] /\ table \in [Keys -> HostRecord]
      BY <2>1, <2>2, <2>3 DEF Shape
    <2>5. ASSUME NEW q \in Server!Requests PROVE RequestGood(q, req[q], table[KeyOf(q)], calls)
      <3>1. q > 0 /\ KeyOf(q) \in Keys BY <2>1, RequestKey
      <3>2. req[q] = Server!NewRequest /\ table[KeyOf(q)].by = 0 BY <2>1, <2>3, <3>1
      <3> QED BY <2>1, <2>2, <3>1, <3>2 DEF RequestGood, Holds, Waits, Recorded, Shape
    <2> QED BY <2>1, <2>4, <2>5 DEF ServerInv
  <1>2. ServerInv => Server!AnswerStands
    <2> SUFFICES ASSUME ServerInv, NEW q \in Server!Requests, req[q].pc = "returned", ~req[q].unsure
                 PROVE  LET e == table[hosted.requests[q].key] IN
                        /\ req[q].answer = "success" => e.by = q /\ e.status = "completed"
                        /\ req[q].answer = "failure" => ~(e.by = q /\ e.status = "completed")
      BY DEF Server!AnswerStands
    <2>1. Recorded(q, req[q], table[KeyOf(q)]) BY DEF ServerInv, RequestGood
    <2> QED BY <2>1 DEF Recorded, KeyOf
  <1> QED BY <1>1, <1>2, ServerStep, PTL DEF ServerSpec, AnswerStands

------------------------------------------------
\* Dictation.

DictationSpec == Dictation!DictationInit /\ [][Dictation!DictationNext]_Dictation!dictationVars

Shown == {"idle", "requesting", "recording", "stopping", "uploading", "transcribing", "success",
          "error", "cancelled"}
DictationState ==
    [status : Shown, retryable : BOOLEAN, mounted : BOOLEAN, switching : BOOLEAN, generation : Nat,
     capture : Nat, handled : BOOLEAN, attempt : Nat, starting : BOOLEAN, stopping : BOOLEAN,
     running : BOOLEAN]
Capture ==
    [generation : Nat, status : {"requesting", "recording", "failed", "stopped"},
     media : {"asked", "settled"}, live : BOOLEAN, recorder : {"none", "active", "inactive"},
     bytes : Nat, stop : {"none", "pending", "operating"}, left : BOOLEAN]
DictationRun ==
    [kind : {"upload", "transcribe", "apply"}, rec : Nat, generation : Nat, aborted : BOOLEAN]

\* A capture records only after it was granted, and no capture is of a later
\* generation than the hook.
CaptureGood(k, g) ==
    /\ k.generation <= g
    /\ k.media = "asked" /\ ~k.left => k.status = "requesting"
    /\ k.recorder # "none" => k.status = "recording"
Over(K) == {c \in 1..Len(K) : K[c].status \in {"failed", "stopped"}}
Texts(A) == {A[i] : i \in 1..Len(A)}

CapturesGood(u, K) ==
    /\ u \in DictationState /\ K \in Seq(Capture)
    /\ u.capture \in 0..Len(K)
    /\ \A c \in 1..Len(K) : CaptureGood(K[c], u.generation)

\* One run at most has not been aborted; it is of the hook's generation and
\* its text, unless it is being applied, was neither applied nor given up.
RunsGood(u, K, R, A, D) ==
    /\ R \subseteq DictationRun
    /\ \A r \in R : r.rec \in Over(K)
    /\ \A r, s \in R : ~r.aborted /\ ~s.aborted => r = s
    /\ \A r \in R : ~r.aborted =>
          /\ r.generation = u.generation
          /\ r.kind # "apply" => r.rec \notin Texts(A) /\ r.rec \notin D
          /\ r.kind # "upload" => r.rec = u.attempt /\ ~u.retryable

\* What may be retried was neither applied nor given up; what was given up
\* is of an earlier generation, so that nothing will still upload it.
TextsGood(u, K, A, D) ==
    /\ u.attempt # 0 => u.attempt \in Over(K) /\ u.attempt \notin D /\ u.mounted
    /\ u.attempt # 0 /\ u.retryable => u.attempt \notin Texts(A)
    /\ A \in Seq(Nat)
    /\ \A i, k \in 1..Len(A) : A[i] = A[k] => i = k
    /\ \A i \in 1..Len(A) : A[i] \in Over(K) /\ A[i] \notin D
    /\ \A c \in D : c \in 1..Len(K) /\ K[c].generation < u.generation

DictationGood(u, K, R, A, D) == CapturesGood(u, K) /\ RunsGood(u, K, R, A, D) /\ TextsGood(u, K, A, D)
DictationInv == DictationGood(ui, caps, runs, applied, dropped)

\* Captures may come to their end and keep their generation.
CapturesMove(K) ==
    /\ K \in Seq(Capture) /\ Len(K) = Len(caps)
    /\ \A c \in 1..Len(caps) : /\ CaptureGood(K[c], ui.generation)
                               /\ K[c].generation = caps[c].generation
                               /\ c \in Over(caps) => c \in Over(K)

LEMMA NoCaptureMoves == ASSUME DictationInv PROVE CapturesMove(caps)
  BY DEF DictationInv, DictationGood, CapturesGood, CapturesMove

LEMMA CaptureBecomes ==
    ASSUME DictationInv, NEW c \in 1..Len(caps), NEW k \in Capture,
           k.generation = caps[c].generation, CaptureGood(k, ui.generation),
           caps[c].status \in {"failed", "stopped"} => k.status \in {"failed", "stopped"}
    PROVE  CapturesMove([caps EXCEPT ![c] = k])
  <1> DEFINE K == [caps EXCEPT ![c] = k]
  <1>1. caps \in Seq(Capture) /\ \A d \in 1..Len(caps) : CaptureGood(caps[d], ui.generation)
    BY DEF DictationInv, DictationGood, CapturesGood
  <1>2. /\ K \in Seq(Capture) /\ Len(K) = Len(caps)
        /\ \A d \in 1..Len(caps) : K[d] = IF d = c THEN k ELSE caps[d]
    BY <1>1
  <1> HIDE DEF K
  <1>3. \A d \in 1..Len(caps) : d \in Over(caps) => d \in Over(K) BY <1>2 DEF Over
  <1>4. \A d \in 1..Len(caps) : CaptureGood(K[d], ui.generation) /\ K[d].generation = caps[d].generation
    BY <1>1, <1>2
  <1>5. CapturesMove(K) BY <1>2, <1>3, <1>4 DEF CapturesMove
  <1> QED BY <1>5 DEF K

\* The hook stays at the recording it was at, whatever it shows.
Same(u) ==
    /\ u \in DictationState /\ u.capture \in 0..Len(caps)
    /\ u.generation = ui.generation /\ u.attempt = ui.attempt /\ u.mounted = ui.mounted
    /\ u.retryable => ui.retryable

LEMMA QuietTexts ==
    ASSUME DictationInv, NEW u, NEW K, Same(u), CapturesMove(K)
    PROVE  CapturesGood(u, K) /\ TextsGood(u, K, applied, dropped)
  <1>1. CapturesGood(ui, caps) /\ TextsGood(ui, caps, applied, dropped) BY DEF DictationInv, DictationGood
  <1>2. CapturesGood(u, K) BY <1>1 DEF Same, CapturesMove, CapturesGood
  <1>3. /\ Len(K) = Len(caps) /\ \A c \in 1..Len(caps) : K[c].generation = caps[c].generation
        /\ \A c \in Over(caps) : c \in Over(K)
    BY DEF CapturesMove, Over
  <1>4. TextsGood(u, K, applied, dropped)
    <2>1. u.attempt = ui.attempt /\ u.mounted = ui.mounted /\ u.generation = ui.generation
          /\ (u.retryable => ui.retryable)
      BY DEF Same
    <2> QED BY <1>1, <1>3, <2>1 DEF TextsGood
  <1> QED BY <1>2, <1>4

LEMMA QuietStep ==
    ASSUME DictationInv, Same(ui'), CapturesMove(caps'), UNCHANGED <<runs, applied, dropped>>
    PROVE  DictationInv'
  <1>1. CapturesGood(ui', caps') /\ TextsGood(ui', caps', applied', dropped') BY QuietTexts
  <1>2. RunsGood(ui, caps, runs, applied, dropped) BY DEF DictationInv, DictationGood
  <1>3. \A c \in Over(caps) : c \in Over(caps') BY DEF CapturesMove, Over
  <1>4. RunsGood(ui', caps', runs', applied', dropped') BY <1>2, <1>3 DEF RunsGood, Same
  <1> QED BY <1>1, <1>4 DEF DictationInv, DictationGood

LEMMA PublishFields ==
    ASSUME NEW u \in DictationState, NEW s \in Shown, NEW b \in BOOLEAN
    PROVE  /\ Dictation!Publish(u, s, b) \in DictationState
           /\ Dictation!Publish(u, s, b).generation = u.generation
           /\ Dictation!Publish(u, s, b).attempt = u.attempt
           /\ Dictation!Publish(u, s, b).mounted = u.mounted
           /\ Dictation!Publish(u, s, b).capture = u.capture
           /\ Dictation!Publish(u, s, b).running = u.running
           /\ u.mounted => Dictation!Publish(u, s, b).retryable = b
           /\ ~u.mounted => Dictation!Publish(u, s, b) = u
  <1>1. CASE u.mounted BY <1>1 DEF Dictation!Publish, DictationState
  <1>2. CASE ~u.mounted BY <1>2 DEF Dictation!Publish
  <1> QED BY <1>1, <1>2

LEMMA PublishSame ==
    ASSUME DictationInv, NEW s \in Shown
    PROVE  Same(Dictation!Publish(ui, s, FALSE))
  <1>1. ui \in DictationState /\ ui.capture \in 0..Len(caps)
    BY DEF DictationInv, DictationGood, CapturesGood
  <1>2. ui.mounted \in BOOLEAN BY <1>1 DEF DictationState
  <1> DEFINE p == Dictation!Publish(ui, s, FALSE)
  <1>3. /\ p \in DictationState /\ p.generation = ui.generation /\ p.attempt = ui.attempt
        /\ p.mounted = ui.mounted /\ p.capture = ui.capture
        /\ (ui.mounted => p.retryable = FALSE) /\ (~ui.mounted => p = ui)
    BY <1>1, PublishFields
  <1> HIDE DEF p
  <1>4. Same(p)
    <2>1. CASE ui.mounted BY <1>1, <1>3, <2>1 DEF Same
    <2>2. CASE ~ui.mounted BY <1>1, <1>3, <2>2 DEF Same
    <2> QED BY <1>2, <2>1, <2>2
  <1> QED BY <1>4 DEF p

LEMMA UiSame == ASSUME DictationInv PROVE Same(ui)
  BY DEF DictationInv, DictationGood, CapturesGood, Same

\* Fields that the invariant does not speak of.
LEMMA FieldsSame ==
    ASSUME NEW u, Same(u), NEW b \in BOOLEAN
    PROVE  /\ Same([u EXCEPT !.stopping = b]) /\ Same([u EXCEPT !.starting = b])
           /\ Same([u EXCEPT !.switching = b]) /\ Same([u EXCEPT !.handled = b])
           /\ Same([u EXCEPT !.running = b])
  BY DEF Same, DictationState

LEMMA CaptureSame ==
    ASSUME NEW u, Same(u), Len(caps) \in Nat
    PROVE  Same([u EXCEPT !.capture = 0])
  BY DEF Same, DictationState

LEMMA AbortedRuns ==
    ASSUME NEW R, R \subseteq DictationRun
    PROVE  /\ Dictation!Aborted(R) \subseteq DictationRun
           /\ \A r \in Dictation!Aborted(R) : r.aborted /\ \E s \in R : r.rec = s.rec
  BY DEF Dictation!Aborted, DictationRun

\* The hook turns to something else: what it still meant to apply is given
\* up and every run aborted.
LEMMA TurnStep ==
    ASSUME DictationInv, ui' \in DictationState, ui'.generation = ui.generation + 1, ui'.attempt = 0,
           ui'.capture \in 0..Len(caps'), caps' \in Seq(Capture), Len(caps') >= Len(caps),
           \A c \in 1..Len(caps) : /\ caps'[c].generation = caps[c].generation
                                   /\ c \in Over(caps) => c \in Over(caps'),
           \A c \in 1..Len(caps') : CaptureGood(caps'[c], ui.generation + 1),
           runs' = Dictation!Aborted(runs), dropped' = dropped \union Dictation!GivenUp(ui),
           UNCHANGED applied
    PROVE  DictationInv'
  <1>1. CapturesGood(ui, caps) /\ RunsGood(ui, caps, runs, applied, dropped)
        /\ TextsGood(ui, caps, applied, dropped)
    BY DEF DictationInv, DictationGood
  <1>2. CapturesGood(ui', caps') BY DEF CapturesGood
  <1>3. \A c \in Over(caps) : c \in Over(caps') BY DEF Over
  <1>4. RunsGood(ui', caps', runs', applied', dropped')
    <2>1. runs \subseteq DictationRun BY <1>1 DEF RunsGood
    <2>2. runs' \subseteq DictationRun /\ \A r \in runs' : r.aborted /\ \E s \in runs : r.rec = s.rec
      BY <2>1, AbortedRuns
    <2>3. \A r \in runs' : r.rec \in Over(caps') BY <1>1, <1>3, <2>2 DEF RunsGood
    <2> QED BY <2>2, <2>3 DEF RunsGood
  <1>5. TextsGood(ui', caps', applied', dropped')
    <2>1. applied \in Seq(Nat) /\ caps \in Seq(Capture) /\ ui \in DictationState
      BY <1>1 DEF TextsGood, CapturesGood
    <2>2. DOMAIN applied = 1..Len(applied) /\ DOMAIN caps = 1..Len(caps) BY <2>1
    <2>3. \A c \in Dictation!GivenUp(ui) : /\ c \in 1..Len(caps) /\ c \notin Texts(applied)
      BY <2>2 DEF Dictation!GivenUp, Texts
    <2>4. \A i \in 1..Len(applied) : applied[i] \in Texts(applied) BY DEF Texts
    <2>5. \A c \in dropped' : c \in 1..Len(caps) /\ caps[c].generation < ui.generation + 1
      <3> SUFFICES ASSUME NEW c \in dropped'
                   PROVE  c \in 1..Len(caps) /\ caps[c].generation < ui.generation + 1
        OBVIOUS
      <3>1. c \in 1..Len(caps) BY <1>1, <2>3 DEF TextsGood
      <3>2. caps[c].generation <= ui.generation BY <1>1, <3>1 DEF CapturesGood, CaptureGood
      <3>3. caps[c] \in Capture BY <2>1, <3>1
      <3>4. caps[c].generation \in Nat /\ ui.generation \in Nat BY <2>1, <3>3 DEF Capture, DictationState
      <3> QED BY <3>1, <3>2, <3>4
    <2>6. Len(caps) \in Nat /\ Len(caps') \in Nat BY <2>1
    <2>7. \A c \in 1..Len(caps) : c \in 1..Len(caps') BY <2>6
    <2>8. \A c \in dropped' : c \in 1..Len(caps') /\ caps'[c].generation < ui'.generation
      BY <2>5, <2>7
    <2>9. \A i \in 1..Len(applied) : applied[i] \in Over(caps') /\ applied[i] \notin dropped'
      BY <1>1, <1>3, <2>3, <2>4 DEF TextsGood
    <2> QED BY <1>1, <2>1, <2>8, <2>9 DEF TextsGood
  <1> QED BY <1>2, <1>4, <1>5 DEF DictationInv, DictationGood

\* A capture that lets go of its track and recorder.
LEMMA ReleasedCapture ==
    ASSUME NEW k \in Capture, NEW s \in {"failed", "stopped"}, NEW g, CaptureGood(k, g),
           k.media = "settled" \/ k.left
    PROVE  /\ Dictation!Released(k, s) \in Capture
           /\ Dictation!Released(k, s).generation = k.generation
           /\ Dictation!Released(k, s).status = s
           /\ CaptureGood(Dictation!Released(k, s), g)
  <1> DEFINE r == Dictation!Released(k, s)
  <1>1. r \in Capture /\ r.generation = k.generation /\ r.status = s /\ r.recorder = "none"
        /\ r.media = k.media /\ r.left = k.left
    BY DEF Dictation!Released, Capture
  <1> HIDE DEF r
  <1>2. CaptureGood(r, g) BY <1>1 DEF CaptureGood
  <1> QED BY <1>1, <1>2 DEF r

LEMMA Recording ==
    ASSUME DictationInv, NEW c \in 1..Len(caps)
    PROVE  /\ caps[c] \in Capture /\ CaptureGood(caps[c], ui.generation)
           /\ caps[c].status = "recording" => caps[c].media = "settled" \/ caps[c].left
  <1>1. caps \in Seq(Capture) /\ CaptureGood(caps[c], ui.generation)
    BY DEF DictationInv, DictationGood, CapturesGood
  <1>2. caps[c] \in Capture BY <1>1
  <1>3. caps[c].media \in {"asked", "settled"} /\ caps[c].left \in BOOLEAN BY <1>2 DEF Capture
  <1> QED BY <1>1, <1>2, <1>3 DEF CaptureGood

LEMMA FailStep ==
    ASSUME DictationInv, NEW c \in 1..Len(caps), caps[c].status = "recording", Dictation!Fail(c)
    PROVE  DictationInv'
  <1> DEFINE k == Dictation!Released(caps[c], "failed")
  <1>1. caps' = [caps EXCEPT ![c] = k] /\ UNCHANGED <<runs, applied, dropped>>
    BY DEF Dictation!Fail
  <1>2. k \in Capture /\ k.generation = caps[c].generation /\ k.status = "failed"
        /\ CaptureGood(k, ui.generation)
    BY Recording, ReleasedCapture
  <1> HIDE DEF k
  <1>3. CapturesMove(caps') BY <1>1, <1>2, CaptureBecomes
  <1> DEFINE p == Dictation!Publish(ui, "error", FALSE)
             p0 == [p EXCEPT !.capture = 0]
  <1>4. Same(p) BY PublishSame DEF Shown
  <1>5. Len(caps) \in Nat BY DEF DictationInv, DictationGood, CapturesGood
  <1>6. Same(p0) BY <1>4, <1>5, CaptureSame
  <1>7. Same([p0 EXCEPT !.stopping = FALSE]) BY <1>6, <1>5, FieldsSame
  <1>8. [p EXCEPT !.capture = 0, !.stopping = FALSE] = [p0 EXCEPT !.stopping = FALSE]
    BY <1>4 DEF Same, DictationState
  <1>9. ui' \in {ui, [p EXCEPT !.capture = 0, !.stopping = FALSE]} BY DEF Dictation!Fail
  <1>10. Same(ui') BY <1>7, <1>8, <1>9, UiSame
  <1> QED BY <1>1, <1>3, <1>10, QuietStep

\* The recording is handed over, and its upload begins.
LEMMA CompleteStep ==
    ASSUME DictationInv, NEW c \in 1..Len(caps), caps[c].status = "recording", Dictation!Complete(c)
    PROVE  DictationInv'
  <1>1. CASE Dictation!Fail(c) BY <1>1, FailStep
  <1>2. CASE ~Dictation!Fail(c)
    <2> DEFINE k == Dictation!Released(caps[c], "stopped")
    <2>1. /\ caps' = [caps EXCEPT ![c] = k] /\ Dictation!AcceptCapture(c) /\ UNCHANGED <<applied, dropped>>
      BY <1>2 DEF Dictation!Complete
    <2>2. k \in Capture /\ k.generation = caps[c].generation /\ k.status = "stopped"
          /\ CaptureGood(k, ui.generation)
      BY Recording, ReleasedCapture
    <2> HIDE DEF k
    <2>3. CapturesMove(caps') BY <2>1, <2>2, CaptureBecomes
    <2>4. /\ ui \in DictationState /\ Len(caps) \in Nat /\ caps \in Seq(Capture)
          /\ RunsGood(ui, caps, runs, applied, dropped) /\ TextsGood(ui, caps, applied, dropped)
      BY DEF DictationInv, DictationGood, CapturesGood
    <2>5. CASE ui' = [ui EXCEPT !.stopping = FALSE] /\ UNCHANGED runs
      <3>1. Same(ui') BY <2>5, <2>4, UiSame, FieldsSame
      <3> QED BY <2>1, <2>3, <2>5, <3>1, QuietStep
    <2>6. CASE /\ ui.generation = caps[c].generation
               /\ ui' = [Dictation!Publish(ui, "uploading", FALSE) EXCEPT !.handled = TRUE, !.stopping = FALSE]
               /\ runs' = Dictation!Aborted(runs) \union
                            {[kind |-> "upload", rec |-> c, generation |-> ui.generation, aborted |-> FALSE]}
      <3> DEFINE p == Dictation!Publish(ui, "uploading", FALSE)
                 h == [p EXCEPT !.handled = TRUE]
                 n == [kind |-> "upload", rec |-> c, generation |-> ui.generation, aborted |-> FALSE]
      <3>1. Same(p) BY PublishSame DEF Shown
      <3>2. Same(h) BY <2>4, <3>1, FieldsSame
      <3>3. Same([h EXCEPT !.stopping = FALSE]) BY <2>4, <3>2, FieldsSame
      <3>4. ui' = [h EXCEPT !.stopping = FALSE] BY <2>6, <3>1 DEF Same, DictationState
      <3>5. Same(ui') BY <3>3, <3>4
      <3>6. CapturesGood(ui', caps') /\ TextsGood(ui', caps', applied', dropped')
        BY <2>1, <2>3, <3>5, QuietTexts
      <3>7. c \in Over(caps') /\ \A d \in Over(caps) : d \in Over(caps')
        <4>1. caps'[c] = k /\ Len(caps') = Len(caps) BY <2>1, <2>4
        <4> QED BY <2>2, <2>3, <4>1 DEF Over, CapturesMove
      <3>8. c \notin Texts(applied) /\ c \notin dropped
        <4>1. c \notin Over(caps) BY DEF Over
        <4>2. c \notin Texts(applied) BY <2>4, <4>1 DEF TextsGood, Texts
        <4>3. ui.generation \in Nat /\ ~(ui.generation < ui.generation) BY <2>4 DEF DictationState
        <4> QED BY <2>4, <2>6, <4>2, <4>3 DEF TextsGood
      <3>9. n \in DictationRun /\ n.rec = c /\ n.generation = ui.generation /\ n.kind = "upload"
            /\ ~n.aborted
        <4>1. ui.generation \in Nat /\ c \in Nat BY <2>4 DEF DictationState
        <4> QED BY <4>1 DEF DictationRun
      <3>10. runs' = Dictation!Aborted(runs) \union {n} BY <2>6
      <3> HIDE DEF n
      <3>11. runs \subseteq DictationRun BY <2>4 DEF RunsGood
      <3>12. /\ runs' \subseteq DictationRun
             /\ \A r \in runs' : r = n \/ (r.aborted /\ \E s \in runs : r.rec = s.rec)
        BY <3>9, <3>10, <3>11, AbortedRuns
      <3>13. \A r \in runs' : r.rec \in Over(caps') BY <2>4, <3>7, <3>9, <3>12 DEF RunsGood
      <3>14. RunsGood(ui', caps', runs', applied', dropped')
        BY <2>1, <3>5, <3>8, <3>9, <3>12, <3>13 DEF RunsGood, Same
      <3> QED BY <3>6, <3>14 DEF DictationInv, DictationGood
    <2> QED BY <2>1, <2>5, <2>6 DEF Dictation!AcceptCapture
  <1> QED BY <1>1, <1>2

\* What the browser does to a capture that does not complete it.
LEMMA MediaStep ==
    ASSUME DictationInv, NEW c \in 1..Len(caps),
           \/ Dictation!MediaSettlesLate(c) \/ Dictation!MediaDenied(c) \/ Dictation!MediaGranted(c)
           \/ Dictation!DataAvailable(c)
    PROVE  DictationInv'
  <1>1. caps[c] \in Capture /\ CaptureGood(caps[c], ui.generation) BY Recording
  <1>2. UNCHANGED <<runs, applied, dropped>>
    BY DEF Dictation!MediaSettlesLate, Dictation!MediaDenied, Dictation!MediaGranted, Dictation!DataAvailable
  <1>3. Len(caps) \in Nat /\ caps \in Seq(Capture) BY DEF DictationInv, DictationGood, CapturesGood
  <1>4. CASE Dictation!MediaSettlesLate(c)
    <2> DEFINE k == [caps[c] EXCEPT !.media = "settled"]
    <2>1. caps' = [caps EXCEPT ![c] = k] /\ ui' = ui
      BY <1>4 DEF Dictation!MediaSettlesLate
    <2>2. k \in Capture /\ k.generation = caps[c].generation /\ k.status = caps[c].status
          /\ k.media = "settled" /\ k.recorder = caps[c].recorder
      BY <1>1 DEF Capture
    <2> HIDE DEF k
    <2>3. CaptureGood(k, ui.generation) BY <1>1, <2>2 DEF CaptureGood
    <2>4. CapturesMove(caps') BY <2>1, <2>2, <2>3, CaptureBecomes
    <2> QED BY <1>2, <2>1, <2>4, UiSame, QuietStep
  <1>5. CASE Dictation!MediaDenied(c)
    <2> DEFINE m == Dictation!Released(caps[c], "failed")
               k == [m EXCEPT !.media = "settled"]
               p == Dictation!Publish(ui, "error", FALSE)
               q == [p EXCEPT !.capture = 0]
               s == [q EXCEPT !.starting = FALSE]
    <2>1. caps' = [caps EXCEPT ![c] = k]
          /\ ui' = [p EXCEPT !.capture = 0, !.starting = FALSE, !.stopping = FALSE]
      BY <1>5 DEF Dictation!MediaDenied
    <2>2. k \in Capture /\ k.generation = caps[c].generation /\ k.status = "failed"
          /\ k.media = "settled" /\ k.recorder = "none"
      BY <1>1 DEF Capture, Dictation!Released
    <2>3. Same(p) BY PublishSame DEF Shown
    <2>4. Same(q) BY <1>3, <2>3, CaptureSame
    <2>5. Same(s) BY <2>4, FieldsSame
    <2>6. Same([s EXCEPT !.stopping = FALSE]) BY <2>5, FieldsSame
    <2>7. ui' = [s EXCEPT !.stopping = FALSE] BY <2>1, <2>3 DEF Same, DictationState
    <2> HIDE DEF k, s
    <2>8. CaptureGood(k, ui.generation) BY <1>1, <2>2 DEF CaptureGood
    <2>9. CapturesMove(caps') BY <2>1, <2>2, <2>8, CaptureBecomes
    <2> QED BY <1>2, <2>6, <2>7, <2>9, QuietStep
  <1>6. CASE Dictation!MediaGranted(c)
    <2> DEFINE t == IF caps[c].stop = "pending" THEN "operating" ELSE "none"
               k == [caps[c] EXCEPT !.media = "settled", !.live = TRUE, !.recorder = "active",
                                    !.status = "recording", !.stop = t]
               w == IF ui.stopping THEN "stopping" ELSE "recording"
               p == Dictation!Publish(ui, w, FALSE)
    <2>1. /\ caps[c].media = "asked" /\ ~caps[c].left
          /\ caps' = [caps EXCEPT ![c] = k] /\ ui' = [p EXCEPT !.starting = FALSE]
      BY <1>1, <1>3, <1>6 DEF Dictation!MediaGranted
    <2>2. t \in {"none", "operating"} /\ w \in Shown BY DEF Shown
    <2> HIDE DEF t, w
    <2>3. k \in Capture /\ k.generation = caps[c].generation /\ k.status = "recording"
          /\ k.media = "settled"
      BY <1>1, <2>2 DEF Capture
    <2> HIDE DEF k
    <2>4. caps[c].status = "requesting" /\ CaptureGood(k, ui.generation)
      BY <1>1, <2>1, <2>3 DEF CaptureGood
    <2>5. CapturesMove(caps') BY <2>1, <2>3, <2>4, CaptureBecomes
    <2>6. Same(p) BY <2>2, PublishSame
    <2> HIDE DEF p
    <2>7. Same(ui') BY <2>1, <2>6, FieldsSame
    <2> QED BY <1>2, <2>5, <2>7, QuietStep
  <1>7. CASE Dictation!DataAvailable(c)
    <2> DEFINE n == caps[c].bytes + 1
               t == IF n >= MaxBytes THEN "operating" ELSE caps[c].stop
               k == [caps[c] EXCEPT !.bytes = n, !.stop = t]
               w == IF ui.stopping THEN "stopping" ELSE "recording"
    <2>1. /\ caps[c].status = "recording" /\ ui' = Dictation!Publish(ui, w, FALSE)
          /\ caps' = [caps EXCEPT ![c] = k]
      BY <1>1, <1>3, <1>7 DEF Dictation!DataAvailable, Dictation!Records
    <2>2. n \in Nat /\ t \in {"none", "pending", "operating"} /\ w \in Shown BY <1>1 DEF Capture, Shown
    <2> HIDE DEF n, t, w
    <2>3. k \in Capture /\ k.generation = caps[c].generation /\ k.status = caps[c].status
          /\ k.media = caps[c].media /\ k.left = caps[c].left /\ k.recorder = caps[c].recorder
      BY <1>1, <2>2 DEF Capture
    <2> HIDE DEF k
    <2>4. CaptureGood(k, ui.generation) BY <1>1, <2>3 DEF CaptureGood
    <2>5. CapturesMove(caps') BY <2>1, <2>3, <2>4, CaptureBecomes
    <2>6. Same(ui') BY <2>1, <2>2, PublishSame
    <2> QED BY <1>2, <2>5, <2>6, QuietStep
  <1> QED BY <1>4, <1>5, <1>6, <1>7

\* A stop that is asked for.
LEMMA StopAsked ==
    ASSUME DictationInv, NEW c \in 1..Len(caps), NEW t \in {"none", "pending", "operating"}, NEW u, Same(u),
           caps' = [caps EXCEPT ![c].stop = t], ui' = u, UNCHANGED <<runs, applied, dropped>>
    PROVE  DictationInv'
  <1>1. caps[c] \in Capture /\ CaptureGood(caps[c], ui.generation) /\ caps \in Seq(Capture)
    BY Recording DEF DictationInv, DictationGood, CapturesGood
  <1> DEFINE k == [caps[c] EXCEPT !.stop = t]
  <1>2. caps' = [caps EXCEPT ![c] = k] OBVIOUS
  <1>3. k \in Capture /\ k.generation = caps[c].generation /\ k.status = caps[c].status
        /\ k.media = caps[c].media /\ k.left = caps[c].left /\ k.recorder = caps[c].recorder
    BY <1>1 DEF Capture
  <1> HIDE DEF k
  <1>4. CaptureGood(k, ui.generation) BY <1>1, <1>3 DEF CaptureGood
  <1>5. CapturesMove(caps') BY <1>2, <1>3, <1>4, CaptureBecomes
  <1> QED BY <1>5, QuietStep

LEMMA InitiateStopStep ==
    ASSUME DictationInv, NEW c \in 1..Len(caps), NEW u, Same(u), Dictation!InitiateStop(c, u)
    PROVE  DictationInv'
  <1>1. CASE caps[c].recorder = "inactive"
    <2>1. caps[c].status = "recording" /\ Dictation!Complete(c)
      BY <1>1, Recording DEF CaptureGood, Dictation!InitiateStop
    <2> QED BY <2>1, CompleteStep
  <1>2. CASE caps[c].recorder # "inactive"
    BY <1>2, StopAsked DEF Dictation!InitiateStop
  <1> QED BY <1>1, <1>2

LEMMA RecorderStep ==
    ASSUME DictationInv, NEW c \in 1..Len(caps),
           Dictation!TimerFires(c) \/ Dictation!RecorderStops(c) \/ Dictation!RecorderFails(c)
    PROVE  DictationInv'
  <1>1. caps[c].status = "recording"
    BY DEF Dictation!TimerFires, Dictation!RecorderStops, Dictation!RecorderFails, Dictation!Records
  <1>2. CASE Dictation!TimerFires(c)
    BY <1>2, UiSame, InitiateStopStep DEF Dictation!TimerFires
  <1>3. CASE Dictation!RecorderFails(c) BY <1>1, <1>3, FailStep DEF Dictation!RecorderFails
  <1>4. CASE Dictation!Complete(c) BY <1>1, <1>4, CompleteStep
  <1>5. CASE caps' = [caps EXCEPT ![c].recorder = "inactive"] /\ UNCHANGED <<ui, runs, applied, dropped>>
    <2>1. caps[c] \in Capture /\ CaptureGood(caps[c], ui.generation) /\ caps \in Seq(Capture)
      BY Recording DEF DictationInv, DictationGood, CapturesGood
    <2> DEFINE k == [caps[c] EXCEPT !.recorder = "inactive"]
    <2>2. caps' = [caps EXCEPT ![c] = k] BY <1>5
    <2>3. k \in Capture /\ k.generation = caps[c].generation /\ k.status = caps[c].status
          /\ k.media = caps[c].media /\ k.left = caps[c].left
      BY <2>1 DEF Capture
    <2> HIDE DEF k
    <2>4. CaptureGood(k, ui.generation) BY <1>1, <2>1, <2>3 DEF CaptureGood
    <2>5. CapturesMove(caps') BY <2>2, <2>3, <2>4, CaptureBecomes
    <2> QED BY <1>5, <2>5, UiSame, QuietStep
  <1> QED BY <1>2, <1>3, <1>4, <1>5 DEF Dictation!RecorderStops

LEMMA StopStep ==
    ASSUME DictationInv, Dictation!Stop
    PROVE  DictationInv'
  <1> DEFINE c == ui.capture
             p == Dictation!Publish(ui, "stopping", FALSE)
             u == [p EXCEPT !.stopping = TRUE]
  <1>1. c \in 1..Len(caps) BY DEF Dictation!Stop, DictationInv, DictationGood, CapturesGood
  <1>2. Same(u) BY PublishSame, FieldsSame DEF Shown
  <1> HIDE DEF u
  <1>3. CASE caps[c].status = "requesting"
    <2>1. caps' = [caps EXCEPT ![c].stop = "pending"] /\ ui' = u /\ UNCHANGED <<runs, applied, dropped>>
      BY <1>3 DEF Dictation!Stop, u
    <2> HIDE DEF c
    <2> QED BY <1>1, <1>2, <2>1, StopAsked
  <1>4. CASE caps[c].status # "requesting"
    <2>1. Dictation!InitiateStop(c, u) BY <1>4 DEF Dictation!Stop, u
    <2> QED BY <1>1, <1>2, <2>1, InitiateStopStep
  <1> QED BY <1>3, <1>4

LEMMA LaterGood ==
    ASSUME NEW k \in Capture, NEW g \in Nat, CaptureGood(k, g)
    PROVE  CaptureGood(k, g + 1)
  <1>1. k.generation \in Nat BY DEF Capture
  <1>2. k.generation <= g + 1 BY <1>1 DEF CaptureGood
  <1> QED BY <1>2 DEF CaptureGood

\* releaseCapture(TRUE).
LEMMA AbandonedMoves ==
    ASSUME DictationInv
    PROVE  CapturesMove(Dictation!Abandoned(ui.capture))
  <1> DEFINE c == ui.capture
             m == Dictation!Released(caps[c], "failed")
             k == [m EXCEPT !.left = TRUE]
  <1>1. Dictation!Abandoned(c) \in {caps, [caps EXCEPT ![c] = k]}
        /\ (c = 0 => Dictation!Abandoned(c) = caps)
    BY DEF Dictation!Abandoned
  <1>2. c \in 0..Len(caps) /\ Len(caps) \in Nat BY DEF DictationInv, DictationGood, CapturesGood
  <1>3. CASE c \in 1..Len(caps)
    <2>1. caps[c] \in Capture /\ CaptureGood(caps[c], ui.generation) BY <1>3, Recording
    <2>2. k \in Capture /\ k.generation = caps[c].generation /\ k.status = "failed"
          /\ k.left /\ k.recorder = "none"
      BY <2>1 DEF Capture, Dictation!Released
    <2> HIDE DEF k
    <2>3. CaptureGood(k, ui.generation) BY <2>1, <2>2 DEF CaptureGood
    <2> HIDE DEF c
    <2>4. CapturesMove([caps EXCEPT ![c] = k]) BY <1>3, <2>2, <2>3, CaptureBecomes
    <2> QED BY <1>1, <2>4, NoCaptureMoves DEF c
  <1>4. CASE c = 0 BY <1>1, <1>4, NoCaptureMoves
  <1> QED BY <1>2, <1>3, <1>4

LEMMA LeaveStep ==
    ASSUME DictationInv, ui' \in DictationState, ui'.generation = ui.generation + 1, ui'.attempt = 0,
           ui'.capture = 0, caps' = Dictation!Abandoned(ui.capture),
           runs' = Dictation!Aborted(runs), dropped' = dropped \union Dictation!GivenUp(ui),
           UNCHANGED applied
    PROVE  DictationInv'
  <1>1. CapturesMove(caps') BY AbandonedMoves
  <1>2. caps' \in Seq(Capture) /\ Len(caps') = Len(caps) BY <1>1 DEF CapturesMove
  <1>3. Len(caps') \in Nat BY <1>2
  <1>4. ui.generation \in Nat BY DEF DictationInv, DictationGood, CapturesGood, DictationState
  <1>5. \A c \in 1..Len(caps') : CaptureGood(caps'[c], ui.generation + 1)
    <2> SUFFICES ASSUME NEW c \in 1..Len(caps') PROVE CaptureGood(caps'[c], ui.generation + 1)
      OBVIOUS
    <2>1. caps'[c] \in Capture BY <1>2
    <2>2. CaptureGood(caps'[c], ui.generation) BY <1>1, <1>2 DEF CapturesMove
    <2> QED BY <1>4, <2>1, <2>2, LaterGood
  <1>6. \A c \in 1..Len(caps) : /\ caps'[c].generation = caps[c].generation
                                /\ c \in Over(caps) => c \in Over(caps')
    BY <1>1 DEF CapturesMove
  <1>7. ui'.capture \in 0..Len(caps') /\ Len(caps') >= Len(caps) BY <1>2, <1>3
  <1> QED BY <1>2, <1>5, <1>6, <1>7, TurnStep

LEMMA TurnedFields ==
    ASSUME NEW u \in DictationState, NEW b \in BOOLEAN
    PROVE  /\ Dictation!Turned(u, b) \in DictationState
           /\ Dictation!Turned(u, b).generation = u.generation + 1
           /\ Dictation!Turned(u, b).attempt = 0 /\ Dictation!Turned(u, b).capture = 0
  <1>1. u.generation + 1 \in Nat BY DEF DictationState
  <1> DEFINE g == u.generation + 1
  <1>2. g \in Nat /\ Dictation!Turned(u, b) =
            [u EXCEPT !.generation = g, !.starting = FALSE, !.stopping = FALSE,
                      !.running = FALSE, !.attempt = 0, !.handled = b, !.capture = 0]
    BY <1>1 DEF Dictation!Turned
  <1> HIDE DEF g
  <1> DEFINE v == [u EXCEPT !.generation = g, !.starting = FALSE, !.stopping = FALSE]
             w == [v EXCEPT !.running = FALSE, !.attempt = 0]
             x == [w EXCEPT !.handled = b, !.capture = 0]
  <1>3. v \in DictationState /\ v.generation = g BY <1>2 DEF DictationState
  <1>4. Dictation!Turned(u, b) = x BY <1>2 DEF DictationState
  <1> HIDE DEF v
  <1>5. w \in DictationState /\ w.generation = g /\ w.attempt = 0 BY <1>3 DEF DictationState
  <1> HIDE DEF w
  <1>6. x \in DictationState /\ x.generation = g /\ x.attempt = 0 /\ x.capture = 0
    BY <1>5 DEF DictationState
  <1> QED BY <1>4, <1>6 DEF g

LEMMA UserLeaves ==
    ASSUME DictationInv, Dictation!Cancel \/ Dictation!RunEffect \/ Dictation!Unmount
    PROVE  DictationInv'
  <1>1. ui \in DictationState BY DEF DictationInv, DictationGood, CapturesGood
  <1>2. /\ caps' = Dictation!Abandoned(ui.capture) /\ runs' = Dictation!Aborted(runs)
        /\ dropped' = dropped \union Dictation!GivenUp(ui) /\ UNCHANGED applied
    BY DEF Dictation!Cancel, Dictation!RunEffect, Dictation!Unmount
  <1>3. CASE Dictation!Cancel
    <2> DEFINE p == Dictation!Publish(ui, "cancelled", FALSE)
    <2>1. p \in DictationState /\ p.generation = ui.generation BY <1>1, PublishFields DEF Shown
    <2>2. ui' = Dictation!Turned(p, TRUE) BY <1>3 DEF Dictation!Cancel
    <2> HIDE DEF p
    <2> QED BY <1>2, <2>1, <2>2, TurnedFields, LeaveStep
  <1>4. CASE Dictation!RunEffect
    <2> DEFINE p == Dictation!Publish(ui, "idle", FALSE)
               t == Dictation!Turned(p, FALSE)
    <2>1. p \in DictationState /\ p.generation = ui.generation BY <1>1, PublishFields DEF Shown
    <2>2. ui' = [t EXCEPT !.switching = FALSE] BY <1>4 DEF Dictation!RunEffect
    <2> HIDE DEF p
    <2>3. t \in DictationState /\ t.generation = ui.generation + 1 /\ t.attempt = 0 /\ t.capture = 0
      BY <2>1, TurnedFields
    <2> HIDE DEF t
    <2>4. ui' \in DictationState /\ ui'.generation = ui.generation + 1 /\ ui'.attempt = 0 /\ ui'.capture = 0
      BY <2>2, <2>3 DEF DictationState
    <2> QED BY <1>2, <2>4, LeaveStep
  <1>5. CASE Dictation!Unmount
    <2> DEFINE t == Dictation!Turned(ui, TRUE)
    <2>1. ui' = [t EXCEPT !.mounted = FALSE] BY <1>5 DEF Dictation!Unmount
    <2>2. t \in DictationState /\ t.generation = ui.generation + 1 /\ t.attempt = 0 /\ t.capture = 0
      BY <1>1, TurnedFields
    <2> HIDE DEF t
    <2>3. ui' \in DictationState /\ ui'.generation = ui.generation + 1 /\ ui'.attempt = 0 /\ ui'.capture = 0
      BY <2>1, <2>2 DEF DictationState
    <2> QED BY <1>2, <2>3, LeaveStep
  <1> QED BY <1>3, <1>4, <1>5

LEMMA StartStep ==
    ASSUME DictationInv, Dictation!Start
    PROVE  DictationInv'
  <1> DEFINE g == ui.generation + 1
             p == Dictation!Publish(ui, "requesting", FALSE)
             u == [p EXCEPT !.generation = g, !.handled = FALSE, !.attempt = 0]
             n == Dictation!NewCapture(g)
  <1>1. /\ ui \in DictationState /\ caps \in Seq(Capture) /\ Len(caps) \in Nat /\ ui.capture \in 0..Len(caps)
        /\ \A c \in 1..Len(caps) : CaptureGood(caps[c], ui.generation)
    BY DEF DictationInv, DictationGood, CapturesGood
  <1>2. g \in Nat /\ ui.generation \in Nat /\ g = ui.generation + 1 BY <1>1 DEF DictationState
  <1>3. /\ runs' = Dictation!Aborted(runs) /\ dropped' = dropped \union Dictation!GivenUp(ui)
        /\ UNCHANGED applied
    BY DEF Dictation!Start
  <1>4. p \in DictationState /\ p.capture = ui.capture BY <1>1, PublishFields DEF Shown
  <1>5. \/ caps' = Append(caps, n) /\ ui' = [u EXCEPT !.capture = Len(caps) + 1, !.starting = TRUE]
        \/ ui' = Dictation!Publish(u, "error", FALSE) /\ UNCHANGED caps
    BY DEF Dictation!Start
  <1> HIDE DEF p
  <1>6. n \in Capture /\ CaptureGood(n, g) /\ n.generation = g
    <2> HIDE DEF g
    <2>1. n \in Capture /\ n.generation = g /\ n.status = "requesting" /\ n.recorder = "none"
      BY <1>2 DEF Dictation!NewCapture, Capture
    <2>2. n.generation <= g BY <1>2, <2>1
    <2> QED BY <2>1, <2>2 DEF CaptureGood
  <1> HIDE DEF n, g
  <1>7. u \in DictationState /\ u.generation = g /\ u.attempt = 0 /\ u.capture = ui.capture
    BY <1>2, <1>4 DEF DictationState
  <1> HIDE DEF u
  <1>8. \A c \in 1..Len(caps) : CaptureGood(caps[c], g)
    <2> SUFFICES ASSUME NEW c \in 1..Len(caps) PROVE CaptureGood(caps[c], g) OBVIOUS
    <2>1. caps[c] \in Capture BY <1>1
    <2> QED BY <1>1, <1>2, <2>1, LaterGood
  <1>9. CASE caps' = Append(caps, n) /\ ui' = [u EXCEPT !.capture = Len(caps) + 1, !.starting = TRUE]
    <2> DEFINE l == Len(caps) + 1
    <2>1. /\ caps' \in Seq(Capture) /\ Len(caps') = l /\ l \in Nat /\ caps'[l] = n
          /\ \A c \in 1..Len(caps) : caps'[c] = caps[c]
      BY <1>1, <1>6, <1>9
    <2>2. Len(caps') >= Len(caps) /\ l \in 0..Len(caps') /\ \A c \in 1..Len(caps) : c \in 1..Len(caps')
      BY <1>1, <2>1
    <2>3. \A c \in 1..Len(caps') : c = l \/ c \in 1..Len(caps) BY <1>1, <2>1
    <2>4. ui' = [u EXCEPT !.capture = l, !.starting = TRUE] BY <1>9
    <2> HIDE DEF l
    <2>5. \A c \in 1..Len(caps') : CaptureGood(caps'[c], g) BY <1>6, <1>8, <2>1, <2>3
    <2>6. \A c \in 1..Len(caps) : /\ caps'[c].generation = caps[c].generation
                                  /\ c \in Over(caps) => c \in Over(caps')
      BY <2>1, <2>2 DEF Over
    <2>7. ui' \in DictationState /\ ui'.generation = g /\ ui'.attempt = 0 /\ ui'.capture = l
      BY <1>7, <2>1, <2>4 DEF DictationState
    <2> QED BY <1>2, <1>3, <2>1, <2>2, <2>5, <2>6, <2>7, TurnStep
  <1>10. CASE ui' = Dictation!Publish(u, "error", FALSE) /\ UNCHANGED caps
    <2>1. ui' \in DictationState /\ ui'.generation = g /\ ui'.attempt = 0 /\ ui'.capture = ui.capture
      BY <1>7, <1>10, PublishFields DEF Shown
    <2>2. caps' = caps /\ Len(caps) >= Len(caps) BY <1>1, <1>10
    <2>3. /\ caps' \in Seq(Capture) /\ Len(caps') >= Len(caps) /\ ui'.capture \in 0..Len(caps')
          /\ \A c \in 1..Len(caps') : CaptureGood(caps'[c], ui.generation + 1)
          /\ \A c \in 1..Len(caps) : /\ caps'[c].generation = caps[c].generation
                                     /\ c \in Over(caps) => c \in Over(caps')
      BY <1>1, <1>2, <1>8, <2>1, <2>2
    <2> QED BY <1>2, <1>3, <2>1, <2>3, TurnStep
  <1> QED BY <1>5, <1>9, <1>10

LEMMA RenderStep ==
    ASSUME DictationInv, Dictation!Render
    PROVE  DictationInv'
  <1>1. Same(ui') BY UiSame, FieldsSame DEF Dictation!Render
  <1>2. CapturesMove(caps') BY NoCaptureMoves DEF Dictation!Render
  <1> QED BY <1>1, <1>2, QuietStep DEF Dictation!Render

LEMMA RunFacts ==
    ASSUME DictationInv, NEW run \in runs
    PROVE  /\ run \in DictationRun /\ run.rec \in Over(caps)
           /\ Dictation!IsCurrent(ui, run) =>
                  /\ ui.mounted /\ ~run.aborted /\ run.generation = ui.generation
                  /\ \A r \in runs \ {run} : r.aborted
                  /\ run.kind # "apply" => run.rec \notin Texts(applied) /\ run.rec \notin dropped
                  /\ run.kind # "upload" => run.rec = ui.attempt /\ ~ui.retryable
  <1>1. RunsGood(ui, caps, runs, applied, dropped) BY DEF DictationInv, DictationGood
  <1>2. runs \subseteq DictationRun BY <1>1 DEF RunsGood
  <1>3. \A r \in runs : r.aborted \in BOOLEAN BY <1>2 DEF DictationRun
  <1> QED BY <1>1, <1>2, <1>3 DEF RunsGood, Dictation!IsCurrent

\* A run ends, and the hook stays where it is.
LEMMA RunGone ==
    ASSUME DictationInv, Same(ui'), runs' \subseteq runs, UNCHANGED <<caps, applied, dropped>>
    PROVE  DictationInv'
  <1>1. CapturesGood(ui', caps') /\ TextsGood(ui', caps', applied', dropped')
    BY NoCaptureMoves, QuietTexts
  <1>2. RunsGood(ui, caps, runs, applied, dropped) BY DEF DictationInv, DictationGood
  <1>3. RunsGood(ui', caps', runs', applied', dropped') BY <1>2 DEF RunsGood, Same
  <1> QED BY <1>1, <1>3 DEF DictationInv, DictationGood

\* The current run ends, and with it the attempt or not.
LEMMA CurrentGone ==
    ASSUME DictationInv, ui' \in DictationState, ui'.generation = ui.generation,
           ui'.capture \in 0..Len(caps), ui'.mounted = ui.mounted,
           ui'.attempt = 0 \/ (ui'.attempt = ui.attempt /\ (ui'.retryable => ui'.attempt \notin Texts(applied))),
           runs' \subseteq runs, \A r \in runs' : r.aborted, UNCHANGED <<caps, applied, dropped>>
    PROVE  DictationInv'
  <1>1. CapturesGood(ui, caps) /\ RunsGood(ui, caps, runs, applied, dropped)
        /\ TextsGood(ui, caps, applied, dropped)
    BY DEF DictationInv, DictationGood
  <1>2. CapturesGood(ui', caps') BY <1>1 DEF CapturesGood
  <1>3. RunsGood(ui', caps', runs', applied', dropped') BY <1>1 DEF RunsGood
  <1>4. TextsGood(ui', caps', applied', dropped') BY <1>1 DEF TextsGood
  <1> QED BY <1>2, <1>3, <1>4 DEF DictationInv, DictationGood

\* runTranscription, when every other run has been aborted.
LEMMA TranscriptionBegins ==
    ASSUME DictationInv, NEW c \in Over(caps), c \notin Texts(applied), c \notin dropped,
           NEW u \in DictationState, u.attempt = c, u.mounted, u.capture \in 0..Len(caps),
           u.generation >= ui.generation, NEW R, R \subseteq DictationRun,
           \A r \in R : r.aborted /\ r.rec \in Over(caps),
           Dictation!RunTranscription(u, R, c), UNCHANGED <<caps, applied, dropped>>
    PROVE  DictationInv'
  <1>1. CapturesGood(ui, caps) /\ TextsGood(ui, caps, applied, dropped)
    BY DEF DictationInv, DictationGood
  <1>2. ui.generation \in Nat /\ u.generation \in Nat BY <1>1 DEF CapturesGood, DictationState
  <1>3. /\ ui' \in DictationState /\ ui'.generation = u.generation /\ ui'.attempt = c /\ ui'.mounted
        /\ ui'.capture = u.capture /\ (~u.running => ~ui'.retryable)
    <2>1. CASE u.running BY <2>1 DEF Dictation!RunTranscription
    <2>2. CASE ~u.running
      <3> DEFINE p == Dictation!Publish(u, "transcribing", FALSE)
      <3>1. /\ p \in DictationState /\ p.generation = u.generation /\ p.attempt = c /\ p.mounted
            /\ p.capture = u.capture /\ p.retryable = FALSE
        BY PublishFields DEF Shown
      <3>2. ui' = [p EXCEPT !.running = TRUE] BY <2>2 DEF Dictation!RunTranscription
      <3> HIDE DEF p
      <3> QED BY <3>1, <3>2 DEF DictationState
    <2> QED BY <2>1, <2>2
  <1>4. CapturesGood(ui', caps')
    <2>1. caps \in Seq(Capture) BY <1>1 DEF CapturesGood
    <2>2. ASSUME NEW d \in 1..Len(caps) PROVE CaptureGood(caps[d], u.generation)
      <3>1. caps[d] \in Capture BY <2>1
      <3>2. caps[d].generation \in Nat BY <3>1 DEF Capture
      <3>3. CaptureGood(caps[d], ui.generation) BY <1>1 DEF CapturesGood
      <3>4. caps[d].generation <= u.generation BY <1>2, <3>2, <3>3 DEF CaptureGood
      <3> QED BY <3>3, <3>4 DEF CaptureGood
    <2> QED BY <1>1, <1>3, <2>2 DEF CapturesGood
  <1>5. TextsGood(ui', caps', applied', dropped')
    <2>1. ASSUME NEW d \in dropped PROVE d \in 1..Len(caps) /\ caps[d].generation < u.generation
      <3>1. d \in 1..Len(caps) /\ caps[d].generation < ui.generation BY <1>1 DEF TextsGood
      <3>2. caps[d] \in Capture BY <1>1, <3>1 DEF CapturesGood
      <3>3. caps[d].generation \in Nat BY <3>2 DEF Capture
      <3> QED BY <1>2, <3>1, <3>3
    <2> QED BY <1>1, <1>3, <2>1 DEF TextsGood
  <1>6. RunsGood(ui', caps', runs', applied', dropped')
    <2>1. CASE runs' = R BY <1>3, <2>1 DEF RunsGood
    <2>2. CASE ~u.running
      <3> DEFINE n == [kind |-> "transcribe", rec |-> c, generation |-> u.generation, aborted |-> FALSE]
      <3>1. c \in Nat BY DEF Over
      <3>2. n \in DictationRun /\ n.rec = c /\ n.generation = u.generation /\ n.kind = "transcribe"
            /\ ~n.aborted
        BY <1>2, <3>1 DEF DictationRun
      <3>3. runs' = Dictation!Aborted(R) \union {n} BY <2>2 DEF Dictation!RunTranscription
      <3> HIDE DEF n
      <3>4. /\ runs' \subseteq DictationRun
            /\ \A r \in runs' : r = n \/ (r.aborted /\ \E s \in R : r.rec = s.rec)
        BY <3>2, <3>3, AbortedRuns
      <3>5. \A r \in runs' : r.rec \in Over(caps') BY <3>2, <3>4
      <3> QED BY <1>3, <2>2, <3>2, <3>4, <3>5 DEF RunsGood
    <2> QED BY <2>1, <2>2 DEF Dictation!RunTranscription
  <1> QED BY <1>4, <1>5, <1>6 DEF DictationInv, DictationGood

LEMMA UploadStep ==
    ASSUME DictationInv, NEW run \in runs, Dictation!Uploaded(run) \/ Dictation!UploadFails(run)
    PROVE  DictationInv'
  <1> DEFINE d == IF ui.capture = run.rec THEN 0 ELSE ui.capture
             u == [ui EXCEPT !.capture = d]
  <1>1. /\ run.kind = "upload" /\ UNCHANGED <<caps, applied, dropped>>
    BY DEF Dictation!Uploaded, Dictation!UploadFails
  <1>2. ui \in DictationState /\ ui.capture \in 0..Len(caps) /\ Len(caps) \in Nat
    BY DEF DictationInv, DictationGood, CapturesGood
  <1>3. d \in 0..Len(caps) /\ d \in Nat BY <1>2
  <1> HIDE DEF d
  <1>4. Same(u) BY <1>2, <1>3 DEF Same, DictationState
  <1>5. CASE Dictation!Uploaded(run)
    <2>1. CASE Dictation!IsCurrent(ui, run)
      <3> DEFINE a == [u EXCEPT !.attempt = run.rec]
                 R == runs \ {run}
      <3>1. Dictation!RunTranscription(a, R, run.rec) BY <1>5, <2>1 DEF Dictation!Uploaded, d
      <3>2. /\ run.rec \in Over(caps) /\ run.rec \notin Texts(applied) /\ run.rec \notin dropped
            /\ ui.mounted /\ \A r \in R : r.aborted
        BY <1>1, <2>1, RunFacts
      <3>3. run.rec \in Nat BY RunFacts DEF DictationRun
      <3> HIDE DEF u
      <3>4. /\ a \in DictationState /\ a.attempt = run.rec /\ a.mounted = u.mounted
            /\ a.capture = u.capture /\ a.generation = u.generation
        BY <1>4, <3>3 DEF Same, DictationState
      <3>5. a.mounted /\ a.capture \in 0..Len(caps) /\ a.generation = ui.generation
        BY <1>4, <3>2, <3>4 DEF Same
      <3>6. ui.generation \in Nat BY <1>2 DEF DictationState
      <3>7. a.generation >= ui.generation BY <3>5, <3>6
      <3>8. R \subseteq DictationRun /\ \A r \in R : r.rec \in Over(caps) BY RunFacts
      <3> HIDE DEF a, R
      <3> QED BY <1>1, <3>1, <3>2, <3>4, <3>5, <3>7, <3>8, TranscriptionBegins
    <2>2. CASE ~Dictation!IsCurrent(ui, run)
      <3>1. ui' = u /\ runs' = runs \ {run} BY <1>5, <2>2 DEF Dictation!Uploaded, d
      <3> QED BY <1>1, <1>4, <3>1, RunGone
    <2> QED BY <2>1, <2>2
  <1>6. CASE Dictation!UploadFails(run)
    <2>1. runs' = runs \ {run} /\ ui' \in {u, Dictation!Publish(u, "error", FALSE)}
      BY <1>6 DEF Dictation!UploadFails, d
    <2>2. Same(Dictation!Publish(u, "error", FALSE))
      <3> HIDE DEF u
      <3> DEFINE p == Dictation!Publish(u, "error", FALSE)
      <3>1. u \in DictationState /\ u.mounted \in BOOLEAN BY <1>4 DEF Same, DictationState
      <3>2. /\ p \in DictationState /\ p.generation = u.generation /\ p.attempt = u.attempt
            /\ p.mounted = u.mounted /\ p.capture = u.capture
            /\ (u.mounted => p.retryable = FALSE) /\ (~u.mounted => p = u)
        BY <3>1, PublishFields DEF Shown
      <3> HIDE DEF p
      <3>3. p.retryable => u.retryable BY <3>1, <3>2
      <3>4. Same(p) BY <1>4, <3>2, <3>3 DEF Same
      <3> QED BY <3>4 DEF p
    <2> QED BY <1>1, <1>4, <2>1, <2>2, RunGone
  <1> QED BY <1>5, <1>6

LEMMA EndedSame ==
    ASSUME DictationInv, NEW run \in runs
    PROVE  Same(Dictation!Ended(run, ui))
  <1> DEFINE b == IF ui.generation = run.generation THEN FALSE ELSE ui.running
  <1>1. ui \in DictationState BY DEF DictationInv, DictationGood, CapturesGood
  <1>2. b \in BOOLEAN BY <1>1 DEF DictationState
  <1>3. Dictation!Ended(run, ui) = [ui EXCEPT !.running = b] BY DEF Dictation!Ended
  <1> HIDE DEF b
  <1> QED BY <1>2, <1>3, UiSame, FieldsSame

LEMMA TranscriptionStep ==
    ASSUME DictationInv, NEW run \in runs, NEW b \in BOOLEAN,
           Dictation!TranscriptionFails(run, b) \/ Dictation!Applied(run, b)
    PROVE  DictationInv'
  <1> DEFINE e == Dictation!Ended(run, ui)
  <1>1. runs' = runs \ {run} /\ UNCHANGED <<caps, applied, dropped>>
    BY DEF Dictation!TranscriptionFails, Dictation!Applied
  <1>2. Same(e) BY EndedSame
  <1>3. CASE ~Dictation!IsCurrent(ui, run)
    <2>1. ui' = e BY <1>3 DEF Dictation!TranscriptionFails, Dictation!Applied
    <2> QED BY <1>1, <1>2, <2>1, RunGone
  <1>4. CASE Dictation!IsCurrent(ui, run)
    <2>1. ui.mounted /\ \A r \in runs' : r.aborted BY <1>1, <1>4, RunFacts
    <2>2. /\ e \in DictationState /\ e.capture \in 0..Len(caps) /\ e.generation = ui.generation
          /\ e.attempt = ui.attempt /\ e.mounted = ui.mounted
      BY <1>2 DEF Same
    <2> HIDE DEF e
    <2>3. CASE Dictation!TranscriptionFails(run, b)
      <3> DEFINE p == Dictation!Publish(e, "error", b)
      <3>1. ui' = p BY <1>4, <2>3 DEF Dictation!TranscriptionFails, e
      <3>2. /\ p \in DictationState /\ p.capture = e.capture /\ p.generation = e.generation
            /\ p.attempt = e.attempt /\ p.mounted = e.mounted
        BY <2>2, PublishFields DEF Shown
      <3> HIDE DEF p
      <3>3. ui.attempt \notin Texts(applied)
        <4>1. run.kind = "transcribe" BY <2>3 DEF Dictation!TranscriptionFails
        <4> QED BY <1>4, <4>1, RunFacts
      <3> QED BY <1>1, <2>1, <2>2, <3>1, <3>2, <3>3, CurrentGone
    <2>4. CASE Dictation!Applied(run, b)
      <3> DEFINE p == Dictation!Publish(e, "success", FALSE)
                 f == Dictation!Publish(e, "error", FALSE)
      <3>1. ui' \in {f, [p EXCEPT !.attempt = 0]} BY <1>4, <2>4 DEF Dictation!Applied, e
      <3>2. /\ p \in DictationState /\ p.capture = e.capture /\ p.generation = e.generation
            /\ p.mounted = e.mounted
        BY <2>2, PublishFields DEF Shown
      <3>3. /\ f \in DictationState /\ f.capture = e.capture /\ f.generation = e.generation
            /\ f.attempt = e.attempt /\ f.mounted = e.mounted /\ f.retryable = FALSE
        BY <2>1, <2>2, PublishFields DEF Shown
      <3> HIDE DEF p, f
      <3>4. CASE ui' = f BY <1>1, <2>1, <2>2, <3>3, <3>4, CurrentGone
      <3>5. CASE ui' = [p EXCEPT !.attempt = 0]
        <4>1. /\ ui' \in DictationState /\ ui'.capture = p.capture /\ ui'.generation = p.generation
              /\ ui'.mounted = p.mounted /\ ui'.attempt = 0
          BY <3>2, <3>5 DEF DictationState
        <4> QED BY <1>1, <2>1, <2>2, <3>2, <4>1, CurrentGone
      <3> QED BY <3>1, <3>4, <3>5
    <2> QED BY <2>3, <2>4
  <1> QED BY <1>3, <1>4

LEMMA TranscribedStep ==
    ASSUME DictationInv, NEW run \in runs, Dictation!Transcribed(run)
    PROVE  DictationInv'
  <1>1. run.kind = "transcribe" /\ UNCHANGED <<caps, dropped>> BY DEF Dictation!Transcribed
  <1>2. CASE ~Dictation!IsCurrent(ui, run)
    <2>1. ui' = Dictation!Ended(run, ui) /\ runs' = runs \ {run} /\ UNCHANGED applied
      BY <1>2 DEF Dictation!Transcribed
    <2> QED BY <1>1, <2>1, EndedSame, RunGone
  <1>3. CASE Dictation!IsCurrent(ui, run)
    <2> DEFINE c == run.rec
               n == [run EXCEPT !.kind = "apply"]
    <2>1. applied' = Append(applied, c) /\ runs' = (runs \ {run}) \union {n} /\ UNCHANGED ui
      BY <1>3 DEF Dictation!Transcribed
    <2>2. /\ run \in DictationRun /\ c \in Over(caps) /\ c \notin Texts(applied) /\ c \notin dropped
          /\ ~run.aborted /\ run.generation = ui.generation /\ \A r \in runs \ {run} : r.aborted
          /\ c = ui.attempt /\ ~ui.retryable
      BY <1>1, <1>3, RunFacts
    <2>3. n \in DictationRun /\ n.rec = c /\ n.generation = ui.generation /\ n.kind = "apply" /\ ~n.aborted
      BY <2>2 DEF DictationRun
    <2>4. c \in Nat BY <2>2 DEF DictationRun
    <2> HIDE DEF n, c
    <2>5. CapturesGood(ui, caps) /\ RunsGood(ui, caps, runs, applied, dropped)
          /\ TextsGood(ui, caps, applied, dropped)
      BY DEF DictationInv, DictationGood
    <2>6. CapturesGood(ui', caps') BY <1>1, <2>1, <2>5
    <2> DEFINE l == Len(applied)
    <2>7. applied \in Seq(Nat) BY <2>5 DEF TextsGood
    <2>8. /\ applied' \in Seq(Nat) /\ Len(applied') = l + 1 /\ l \in Nat /\ applied'[l + 1] = c
          /\ \A i \in 1..l : applied'[i] = applied[i]
      BY <2>1, <2>4, <2>7
    <2> HIDE DEF l
    <2>9. \A i \in 1..(l + 1) : i = l + 1 \/ i \in 1..l BY <2>8
    <2>10. \A i \in 1..l : applied[i] # c BY <2>2 DEF Texts, l
    <2>11. /\ \A i, k \in 1..(l + 1) : applied'[i] = applied'[k] => i = k
           /\ \A i \in 1..(l + 1) : applied'[i] \in Over(caps) /\ applied'[i] \notin dropped
      BY <2>2, <2>5, <2>8, <2>9, <2>10 DEF TextsGood, l
    <2>12. TextsGood(ui', caps', applied', dropped')
      BY <1>1, <2>1, <2>2, <2>5, <2>8, <2>11 DEF TextsGood
    <2>13. RunsGood(ui', caps', runs', applied', dropped')
      <3>1. runs' \subseteq DictationRun /\ \A r \in runs' : r.rec \in Over(caps)
        BY <2>1, <2>2, <2>3, <2>5 DEF RunsGood
      <3>2. \A r \in runs' : r = n \/ r.aborted BY <2>1, <2>2
      <3> QED BY <1>1, <2>1, <2>2, <2>3, <3>1, <3>2 DEF RunsGood
    <2> QED BY <2>6, <2>12, <2>13 DEF DictationInv, DictationGood
  <1> QED BY <1>2, <1>3

LEMMA RetryStep ==
    ASSUME DictationInv, Dictation!Retry
    PROVE  DictationInv'
  <1> DEFINE c == ui.attempt
             g == ui.generation + 1
             u == [ui EXCEPT !.generation = g]
             R == Dictation!Aborted(runs)
  <1>1. /\ c # 0 /\ ui.retryable /\ Dictation!RunTranscription(u, R, c) /\ UNCHANGED <<caps, applied, dropped>>
    BY DEF Dictation!Retry
  <1>2. CapturesGood(ui, caps) /\ RunsGood(ui, caps, runs, applied, dropped)
        /\ TextsGood(ui, caps, applied, dropped)
    BY DEF DictationInv, DictationGood
  <1>3. c \in Over(caps) /\ c \notin Texts(applied) /\ c \notin dropped /\ ui.mounted
    BY <1>1, <1>2 DEF TextsGood
  <1>4. ui \in DictationState /\ ui.generation \in Nat /\ g \in Nat /\ g >= ui.generation
        /\ ui.capture \in 0..Len(caps)
    BY <1>2 DEF CapturesGood, DictationState
  <1> HIDE DEF g
  <1>5. /\ u \in DictationState /\ u.generation = g /\ u.attempt = c /\ u.mounted = ui.mounted
        /\ u.capture = ui.capture
    BY <1>4 DEF DictationState
  <1>6. runs \subseteq DictationRun /\ \A r \in runs : r.rec \in Over(caps) BY <1>2 DEF RunsGood
  <1>7. R \subseteq DictationRun /\ \A r \in R : r.aborted /\ r.rec \in Over(caps)
    BY <1>6, AbortedRuns
  <1> HIDE DEF u, R, c
  <1> QED BY <1>1, <1>3, <1>4, <1>5, <1>7, TranscriptionBegins

LEMMA DictationStep ==
    ASSUME DictationInv, [Dictation!DictationNext]_Dictation!dictationVars
    PROVE  DictationInv'
  <1>1. CASE UNCHANGED Dictation!dictationVars
    BY <1>1 DEF Dictation!dictationVars, DictationInv
  <1>2. CASE Dictation!DictationNext
    <2>1. DOMAIN caps = 1..Len(caps) BY DEF DictationInv, DictationGood, CapturesGood
    <2>2. CASE Dictation!Start BY <2>2, StartStep
    <2>3. CASE Dictation!Stop BY <2>3, StopStep
    <2>4. CASE Dictation!Retry BY <2>4, RetryStep
    <2>5. CASE Dictation!Render BY <2>5, RenderStep
    <2>6. CASE Dictation!Cancel \/ Dictation!RunEffect \/ Dictation!Unmount BY <2>6, UserLeaves
    <2>7. ASSUME NEW c \in DOMAIN caps,
                 \/ Dictation!MediaSettlesLate(c) \/ Dictation!MediaDenied(c) \/ Dictation!MediaGranted(c)
                 \/ Dictation!DataAvailable(c)
                 \/ Dictation!TimerFires(c) \/ Dictation!RecorderStops(c) \/ Dictation!RecorderFails(c)
          PROVE  DictationInv'
      <3>1. c \in 1..Len(caps) BY <2>1
      <3> QED BY <2>7, <3>1, MediaStep, RecorderStep
    <2>8. ASSUME NEW run \in runs,
                 \/ Dictation!Uploaded(run) \/ Dictation!UploadFails(run) \/ Dictation!Transcribed(run)
                 \/ \E b \in BOOLEAN : Dictation!TranscriptionFails(run, b) \/ Dictation!Applied(run, b)
          PROVE  DictationInv'
      BY <2>8, UploadStep, TranscribedStep, TranscriptionStep
    <2> QED BY <1>2, <2>2, <2>3, <2>4, <2>5, <2>6, <2>7, <2>8 DEF Dictation!DictationNext
  <1> QED BY <1>1, <1>2

(***************************************************************************)
(* The text of a recording is applied at most once and never after it was  *)
(* given up, for any number of recordings, moves of the user and strays of *)
(* the browser, and whatever the limit of a recording is (the generations  *)
(* and aborts of useTranscriptionControls, react/transcription.tsx).       *)
(***************************************************************************)
THEOREM TranscriptsAreWanted == DictationSpec => []TranscriptWanted
  <1>1. Dictation!DictationInit => DictationInv
    <2> SUFFICES ASSUME Dictation!DictationInit PROVE DictationInv OBVIOUS
    <2>1. ui \in DictationState /\ ui.attempt = 0 /\ ui.capture = 0
      BY DEF Dictation!DictationInit, DictationState, Shown
    <2>2. caps = <<>> /\ runs = {} /\ applied = <<>> /\ dropped = {} BY DEF Dictation!DictationInit
    <2>3. caps \in Seq(Capture) /\ Len(caps) = 0 /\ applied \in Seq(Nat) /\ Len(applied) = 0 BY <2>2
    <2>4. CapturesGood(ui, caps) BY <2>1, <2>3 DEF CapturesGood
    <2>5. RunsGood(ui, caps, runs, applied, dropped) BY <2>2 DEF RunsGood
    <2>6. TextsGood(ui, caps, applied, dropped) BY <2>1, <2>2, <2>3 DEF TextsGood
    <2> QED BY <2>4, <2>5, <2>6 DEF DictationInv, DictationGood
  <1>2. DictationInv => Dictation!TranscriptWanted
    <2> SUFFICES ASSUME DictationInv PROVE Dictation!TranscriptWanted OBVIOUS
    <2>1. TextsGood(ui, caps, applied, dropped) BY DEF DictationInv, DictationGood
    <2>2. DOMAIN applied = 1..Len(applied) BY <2>1 DEF TextsGood
    <2> QED BY <2>1, <2>2 DEF TextsGood, Dictation!TranscriptWanted
  <1> QED BY <1>1, <1>2, DictationStep, PTL DEF DictationSpec, TranscriptWanted

------------------------------------------------
\* Presence.

PresenceSpec == Nearby!PresenceInit /\ [][Nearby!PresenceNext]_Nearby!presenceVars

PresenceState == {"offline", "active", "idle"}
Publisher ==
    [room : Rooms, connected : BOOLEAN, destroyed : BOOLEAN, state : PresenceState,
     typingRequested : BOOLEAN, typingActive : BOOLEAN, lastActivity : Int, last : Int,
     semantic : {<<>>} \cup (PresenceState \X BOOLEAN), attemptAt : Int, count : Nat]
PresenceRecord == [number : Nat, room : Rooms, state : PresenceState, typing : BOOLEAN, at : Int]

\* The later a record was published, the later its timestamp.
AirGood(me, A) ==
    /\ me \in Publisher /\ A \subseteq PresenceRecord
    /\ \A r \in A : r.at <= me.last /\ r.number <= me.count
    /\ \A r, s \in A : r.at <= s.at => r.number <= s.number

\* An outdated stream aside, streams are of the room that is shown; what has
\* been received is of that room; what is held is the latest of it, and when
\* nothing is held, all of it has expired.
StreamsGood ==
    /\ viewer \in [room : Rooms, connected : BOOLEAN, generation : Nat, moves : Nat]
    /\ streams \subseteq [room : Rooms, generation : Nat, open : BOOLEAN]
    /\ \A s \in streams : /\ s.generation <= viewer.generation
                          /\ s.generation = viewer.generation => s.room = viewer.room
Latest(rs, seen, t) ==
    /\ \A r, s \in rs : r = s
    /\ \A r \in rs : \E x \in seen : x.number = r.number /\ x.at = r.at /\ x.room = r.room
    /\ \A r \in rs : \A x \in seen : x.at <= r.at
    /\ rs = {} => \A x \in seen : x.at + Ttl <= t
HeldGood ==
    /\ now \in Int /\ remote \subseteq PresenceRecord
    /\ received \subseteq air /\ \A x \in received : x.room = viewer.room
    /\ Latest(remote, received, now)

PresenceInv == AirGood(local, air) /\ StreamsGood /\ HeldGood

LEMMA TimestampGrows ==
    ASSUME NEW l \in Int, now \in Int
    PROVE  Nearby!NextTimestamp(l) \in Int /\ Nearby!NextTimestamp(l) > l
  <1> DEFINE S == {now, l + 1}
  <1>1. PICK m \in S : \A y \in S : m >= y
    <2>1. CASE now >= l + 1 BY <2>1
    <2>2. CASE ~(now >= l + 1) BY <2>2
    <2> QED BY <2>1, <2>2
  <1> DEFINE x == Nearby!Max(S)
  <1>2. x \in S /\ \A y \in S : x >= y BY <1>1 DEF Nearby!Max
  <1>3. Nearby!NextTimestamp(l) = x BY DEF Nearby!NextTimestamp
  <1> HIDE DEF x
  <1>4. x \in Int /\ x >= l + 1 BY <1>2
  <1> QED BY <1>3, <1>4

LEMMA PublishGood ==
    ASSUME now \in Int, NEW me, NEW A, AirGood(me, A), NEW f \in BOOLEAN, NEW c \in BOOLEAN
    PROVE  AirGood(Nearby!PublishLocal(me, f, c).me, A \cup Nearby!PublishLocal(me, f, c).out)
  <1> DEFINE t == me.state # "offline" /\ me.typingActive
             s == <<me.state, t>>
             q == \/ ~f /\ s = me.semantic
                  \/ f /\ c /\ me.attemptAt = now /\ s = me.semantic
             ts == Nearby!NextTimestamp(me.last)
             m == [me EXCEPT !.last = ts, !.semantic = s, !.attemptAt = now, !.count = @ + 1]
             n == [number |-> me.count + 1, room |-> me.room, state |-> me.state, typing |-> t, at |-> ts]
             p == Nearby!PublishLocal(me, f, c)
  <1>1. \/ p = [me |-> me, out |-> {}]
        \/ p = [me |-> m, out |-> {n}]
    BY DEF Nearby!PublishLocal
  <1>2. CASE p = [me |-> me, out |-> {}]
    <2>1. p.me = me /\ A \cup p.out = A BY <1>2
    <2> QED BY <2>1
  <1>3. CASE p = [me |-> m, out |-> {n}]
    <2>1. me \in Publisher /\ me.last \in Int /\ me.count \in Nat BY DEF AirGood, Publisher
    <2>2. ts \in Int /\ ts > me.last BY <2>1, TimestampGrows
    <2>3. me.state \in PresenceState /\ t \in BOOLEAN /\ me.room \in Rooms BY <2>1 DEF Publisher
    <2>4. s \in PresenceState \X BOOLEAN BY <2>3
    <2> HIDE DEF t, s, ts
    <2> DEFINE k == me.count + 1
    <2>5. k \in Nat /\ k > me.count BY <2>1
    <2>6. m = [me EXCEPT !.last = ts, !.semantic = s, !.attemptAt = now, !.count = k]
          /\ n = [number |-> k, room |-> me.room, state |-> me.state, typing |-> t, at |-> ts]
      OBVIOUS
    <2> HIDE DEF k, m, n, p
    <2>7. m \in Publisher /\ m.last = ts /\ m.count = k BY <2>1, <2>2, <2>4, <2>5, <2>6 DEF Publisher
    <2>8. n \in PresenceRecord /\ n.at = ts /\ n.number = k BY <2>2, <2>3, <2>5, <2>6 DEF PresenceRecord
    <2>9. p.me = m /\ p.out = {n} BY <1>3
    <2>10. A \cup {n} \subseteq PresenceRecord BY <2>8 DEF AirGood
    <2>11. \A r \in A : r.at \in Int /\ r.number \in Nat BY DEF AirGood, PresenceRecord
    <2>12. \A r \in A : r.at < ts /\ r.number < k
      BY <2>1, <2>2, <2>5, <2>11 DEF AirGood
    <2>13. \A r \in A \cup {n} : r.at <= m.last /\ r.number <= m.count
      BY <2>2, <2>5, <2>7, <2>8, <2>11, <2>12
    <2>14. \A r, z \in A \cup {n} : r.at <= z.at => r.number <= z.number
      <3> SUFFICES ASSUME NEW r \in A \cup {n}, NEW z \in A \cup {n}, r.at <= z.at PROVE r.number <= z.number
        OBVIOUS
      <3>1. CASE z = n BY <2>7, <2>8, <2>13, <3>1
      <3>2. CASE z \in A /\ r = n
        <4>1. z.at < ts /\ z.at \in Int /\ r.at = ts BY <2>8, <2>11, <2>12, <3>2
        <4> QED BY <2>2, <4>1
      <3>3. CASE z \in A /\ r \in A BY <3>3 DEF AirGood
      <3> QED BY <3>1, <3>2, <3>3
    <2>15. AirGood(m, A \cup {n}) BY <2>7, <2>10, <2>13, <2>14 DEF AirGood
    <2> QED BY <2>9, <2>15 DEF p
  <1> QED BY <1>1, <1>2, <1>3

LEMMA AirKept ==
    ASSUME NEW me, NEW A, AirGood(me, A), NEW u \in Publisher, u.last = me.last, u.count = me.count
    PROVE  AirGood(u, A)
  BY DEF AirGood

LEMMA PublisherStep ==
    ASSUME PresenceInv, AirGood(local', air'), air \subseteq air',
           UNCHANGED now, Nearby!KeepViewer
    PROVE  PresenceInv'
  <1>1. UNCHANGED <<viewer, streams, remote, received, now>> BY DEF Nearby!KeepViewer
  <1>2. StreamsGood' BY <1>1 DEF PresenceInv, StreamsGood
  <1>3. HeldGood' BY <1>1 DEF PresenceInv, HeldGood, Latest
  <1> QED BY <1>2, <1>3 DEF PresenceInv

\* One publication of a controller that has changed its state.
LEMMA PublishOnce ==
    ASSUME PresenceInv, NEW me \in Publisher, me.last = local.last, me.count = local.count,
           NEW f \in BOOLEAN, NEW c \in BOOLEAN, Nearby!Publishes(Nearby!PublishLocal(me, f, c)),
           UNCHANGED now, Nearby!KeepViewer
    PROVE  PresenceInv'
  <1> DEFINE p == Nearby!PublishLocal(me, f, c)
  <1>1. now \in Int /\ AirGood(local, air) BY DEF PresenceInv, HeldGood
  <1>2. AirGood(p.me, air \cup p.out) BY <1>1, AirKept, PublishGood
  <1> HIDE DEF p
  <1>3. local' = p.me /\ air' = air \cup p.out BY DEF Nearby!Publishes, p
  <1> QED BY <1>2, <1>3, PublisherStep

LEMMA PublishNothing ==
    ASSUME PresenceInv, NEW me \in Publisher, me.last = local.last, me.count = local.count,
           Nearby!Publishes([me |-> me, out |-> {}]), UNCHANGED now, Nearby!KeepViewer
    PROVE  PresenceInv'
  <1>1. local' = me /\ air' = air BY DEF Nearby!Publishes
  <1>2. AirGood(local, air) BY DEF PresenceInv
  <1> QED BY <1>1, <1>2, AirKept, PublisherStep

LEMMA NotTypingFields ==
    ASSUME NEW me \in Publisher
    PROVE  /\ Nearby!NotTyping(me) \in Publisher /\ Nearby!NotTyping(me).last = me.last
           /\ Nearby!NotTyping(me).count = me.count
  BY DEF Nearby!NotTyping, Publisher

LEMMA LocalTyped ==
    ASSUME PresenceInv
    PROVE  /\ local \in Publisher /\ now \in Int /\ AirGood(local, air)
           /\ local.room \in Rooms /\ local.last \in Int /\ local.count \in Nat
  BY DEF PresenceInv, AirGood, HeldGood, Publisher

LEMMA SingleStep ==
    ASSUME PresenceInv,
           \/ Nearby!Connect \/ Nearby!StopTyping \/ Nearby!Heartbeat \/ Nearby!IdleTimer
           \/ Nearby!TypingStart \/ Nearby!TypingRefresh
           \/ \E typing \in BOOLEAN : Nearby!NoteActivity(typing)
    PROVE  PresenceInv'
  <1>1. CASE Nearby!Connect
    <2> DEFINE s == IF local.connected THEN local.state ELSE IF Nearby!Idling THEN "idle" ELSE "active"
               me == [local EXCEPT !.connected = TRUE, !.state = s]
    <2>1. Nearby!Publishes(Nearby!PublishLocal(me, TRUE, FALSE)) /\ UNCHANGED now /\ Nearby!KeepViewer
      BY <1>1 DEF Nearby!Connect
    <2>2. s \in PresenceState BY LocalTyped DEF Publisher, PresenceState
    <2> HIDE DEF s
    <2>3. me \in Publisher /\ me.last = local.last /\ me.count = local.count
      BY <2>2, LocalTyped DEF Publisher
    <2> QED BY <2>1, <2>3, PublishOnce
  <1>2. CASE Nearby!StopTyping
    <2> DEFINE me == Nearby!NotTyping(local)
    <2>1. me \in Publisher /\ me.last = local.last /\ me.count = local.count
      BY LocalTyped, NotTypingFields
    <2>2. Nearby!Publishes(Nearby!PublishLocal(me, TRUE, FALSE)) /\ UNCHANGED now /\ Nearby!KeepViewer
      BY <1>2 DEF Nearby!StopTyping
    <2> QED BY <2>1, <2>2, PublishOnce
  <1>3. CASE Nearby!Heartbeat \/ Nearby!TypingRefresh
    <2>1. Nearby!Publishes(Nearby!PublishLocal(local, TRUE, TRUE)) /\ UNCHANGED now /\ Nearby!KeepViewer
      BY <1>3 DEF Nearby!Heartbeat, Nearby!TypingRefresh
    <2> QED BY <2>1, LocalTyped, PublishOnce
  <1>4. CASE Nearby!IdleTimer
    <2> DEFINE n == Nearby!NotTyping(local)
               me == [n EXCEPT !.state = "idle"]
    <2>1. n \in Publisher /\ n.last = local.last /\ n.count = local.count BY LocalTyped, NotTypingFields
    <2>2. Nearby!Publishes(Nearby!PublishLocal(me, FALSE, TRUE)) /\ UNCHANGED now /\ Nearby!KeepViewer
      BY <1>4 DEF Nearby!IdleTimer
    <2> HIDE DEF n
    <2>3. me \in Publisher /\ me.last = local.last /\ me.count = local.count
      BY <2>1 DEF Publisher, PresenceState
    <2> QED BY <2>2, <2>3, PublishOnce
  <1>5. CASE Nearby!TypingStart
    <2> DEFINE me == [local EXCEPT !.typingActive = TRUE]
    <2>1. me \in Publisher /\ me.last = local.last /\ me.count = local.count BY LocalTyped DEF Publisher
    <2>2. Nearby!Publishes(Nearby!PublishLocal(me, FALSE, TRUE)) /\ UNCHANGED now /\ Nearby!KeepViewer
      BY <1>5 DEF Nearby!TypingStart
    <2> QED BY <2>1, <2>2, PublishOnce
  <1>6. ASSUME NEW typing \in BOOLEAN, Nearby!NoteActivity(typing) PROVE PresenceInv'
    <2> DEFINE b == local.typingRequested \/ typing
               me == [local EXCEPT !.lastActivity = now, !.state = "active", !.typingRequested = b]
    <2>1. /\ UNCHANGED now /\ Nearby!KeepViewer
          /\ \/ Nearby!Publishes(Nearby!PublishLocal(me, FALSE, TRUE))
             \/ Nearby!Publishes([me |-> me, out |-> {}])
      BY <1>6 DEF Nearby!NoteActivity
    <2>2. b \in BOOLEAN BY LocalTyped DEF Publisher
    <2> HIDE DEF b
    <2>3. me \in Publisher /\ me.last = local.last /\ me.count = local.count
      BY <2>2, LocalTyped DEF Publisher, PresenceState
    <2> HIDE DEF me
    <2> QED BY <2>1, <2>3, PublishOnce, PublishNothing
  <1> QED BY <1>1, <1>2, <1>3, <1>4, <1>5, <1>6

\* Disconnecting, switching the conversation and leaving publish twice.
LEMMA DoubleStep ==
    ASSUME PresenceInv,
           Nearby!Disconnect \/ Nearby!Destroy \/ \E c \in Rooms : Nearby!SwitchConversation(c)
    PROVE  PresenceInv'
  <1> DEFINE n == Nearby!NotTyping(local)
             p == Nearby!PublishLocal(n, TRUE, FALSE)
             P == p.me
  <1>1. n \in Publisher /\ n.last = local.last /\ n.count = local.count BY LocalTyped, NotTypingFields
  <1>2. AirGood(n, air) BY <1>1, LocalTyped, AirKept
  <1> HIDE DEF n
  <1>3. AirGood(P, air \cup p.out) BY <1>2, LocalTyped, PublishGood
  <1> HIDE DEF p
  <1>4. P \in Publisher BY <1>3 DEF AirGood
  <1>5. CASE Nearby!Disconnect
    <2> DEFINE me == [P EXCEPT !.connected = FALSE, !.state = "offline"]
               q == Nearby!PublishLocal(me, TRUE, FALSE)
    <2>1. local' = q.me /\ air' = (air \cup p.out) \cup q.out /\ UNCHANGED now /\ Nearby!KeepViewer
      BY <1>5 DEF Nearby!Disconnect, Nearby!Publishes, n, p
    <2> HIDE DEF P
    <2>2. me \in Publisher /\ me.last = P.last /\ me.count = P.count BY <1>4 DEF Publisher, PresenceState
    <2> HIDE DEF me
    <2>3. AirGood(q.me, (air \cup p.out) \cup q.out) BY <1>3, <2>2, LocalTyped, AirKept, PublishGood
    <2> HIDE DEF q
    <2> QED BY <2>1, <2>3, PublisherStep
  <1>6. CASE Nearby!Destroy
    <2> DEFINE a == IF local.connected THEN p ELSE [me |-> n, out |-> {}]
               A == a.me
               me == [A EXCEPT !.connected = FALSE, !.state = "offline"]
               q == Nearby!PublishLocal(me, TRUE, FALSE)
               Q == q.me
    <2>1. local' = [Q EXCEPT !.destroyed = TRUE] /\ air' = (air \cup a.out) \cup q.out
          /\ UNCHANGED now /\ Nearby!KeepViewer
      BY <1>6 DEF Nearby!Destroy, Nearby!Publishes, n, p
    <2>2. AirGood(A, air \cup a.out)
      <3>1. CASE local.connected BY <1>3, <3>1
      <3>2. CASE ~local.connected
        <4>1. A = n /\ air \cup a.out = air BY <3>2
        <4> QED BY <1>2, <4>1
      <3> QED BY <3>1, <3>2
    <2> HIDE DEF a, A
    <2>3. A \in Publisher BY <2>2 DEF AirGood
    <2>4. me \in Publisher /\ me.last = A.last /\ me.count = A.count BY <2>3 DEF Publisher, PresenceState
    <2> HIDE DEF me
    <2>5. AirGood(Q, (air \cup a.out) \cup q.out) BY <2>2, <2>4, LocalTyped, AirKept, PublishGood
    <2> HIDE DEF q, Q
    <2>6. Q \in Publisher BY <2>5 DEF AirGood
    <2>7. local' \in Publisher /\ local'.last = Q.last /\ local'.count = Q.count
      BY <2>1, <2>6 DEF Publisher
    <2>8. AirGood(local', (air \cup a.out) \cup q.out) BY <2>5, <2>7, AirKept
    <2> QED BY <2>1, <2>8, PublisherStep
  <1>7. ASSUME NEW c \in Rooms, Nearby!SwitchConversation(c) PROVE PresenceInv'
    <2> DEFINE s == IF local.connected THEN "active" ELSE "offline"
               m == [P EXCEPT !.room = c, !.semantic = <<>>, !.attemptAt = -1, !.lastActivity = now, !.state = s]
               b == IF local.connected THEN Nearby!PublishLocal(m, TRUE, FALSE) ELSE [me |-> m, out |-> {}]
               B == b.me
    <2>1. local' = B /\ air' = (air \cup p.out) \cup b.out /\ UNCHANGED now /\ Nearby!KeepViewer
      BY <1>7 DEF Nearby!SwitchConversation, Nearby!Publishes, n, p
    <2>2. s \in PresenceState BY DEF PresenceState
    <2> HIDE DEF s, P
    <2>3. m \in Publisher /\ m.last = P.last /\ m.count = P.count
      <3> DEFINE e == <<>>
                 y == -1
                 v == [P EXCEPT !.room = c, !.lastActivity = now, !.state = s]
                 w == [v EXCEPT !.semantic = e, !.attemptAt = y]
      <3>1. v \in Publisher /\ v.last = P.last /\ v.count = P.count
        BY <1>4, <2>2, LocalTyped DEF Publisher
      <3>2. m = w BY <1>4 DEF Publisher
      <3>3. e \in {<<>>} \cup (PresenceState \X BOOLEAN) /\ y \in Int OBVIOUS
      <3> HIDE DEF e, y, v
      <3>4. w \in Publisher /\ w.last = v.last /\ w.count = v.count BY <3>1, <3>3 DEF Publisher
      <3> QED BY <3>1, <3>2, <3>4
    <2> HIDE DEF m
    <2>4. AirGood(m, air \cup p.out) BY <1>3, <2>3, AirKept
    <2>5. AirGood(B, (air \cup p.out) \cup b.out)
      <3>1. CASE local.connected
        <4>1. b = Nearby!PublishLocal(m, TRUE, FALSE) BY <3>1
        <4> QED BY <2>4, <4>1, LocalTyped, PublishGood
      <3>2. CASE ~local.connected
        <4>1. B = m /\ (air \cup p.out) \cup b.out = air \cup p.out BY <3>2
        <4> QED BY <2>4, <4>1
      <3> QED BY <3>1, <3>2
    <2> HIDE DEF b, B
    <2> QED BY <2>1, <2>5, PublisherStep
  <1> QED BY <1>5, <1>6, <1>7

\* Pruning lowers typing and drops what has expired, and nothing else.
LEMMA PruneKeeps ==
    ASSUME NEW rs, rs \subseteq PresenceRecord, now \in Int
    PROVE  /\ Nearby!Prune(rs) \subseteq PresenceRecord
           /\ \A r \in Nearby!Prune(rs) :
                 \E x \in rs : x.number = r.number /\ x.at = r.at /\ x.room = r.room
           /\ (\A x, y \in rs : x = y) => \A r, s \in Nearby!Prune(rs) : r = s
           /\ Nearby!Prune(rs) = {} => \A x \in rs : ~(x.at + Ttl > now)
           /\ \A r \in Nearby!Prune(rs) : r.at + Ttl > now
  <1> DEFINE t(r) == r.typing /\ r.at + TypingTtl > now
             l(r) == [r EXCEPT !.typing = t(r)]
             live == {x \in rs : x.at + Ttl > now}
  <1>1. Nearby!Prune(rs) = {l(r) : r \in live} BY DEF Nearby!Prune
  <1>2. \A r \in rs : /\ l(r) \in PresenceRecord /\ l(r).number = r.number /\ l(r).at = r.at
                      /\ l(r).room = r.room
    <2> SUFFICES ASSUME NEW r \in rs
                 PROVE  /\ l(r) \in PresenceRecord /\ l(r).number = r.number /\ l(r).at = r.at
                        /\ l(r).room = r.room
      OBVIOUS
    <2>1. r \in PresenceRecord OBVIOUS
    <2>2. t(r) \in BOOLEAN OBVIOUS
    <2> HIDE DEF t
    <2> QED BY <2>1, <2>2 DEF PresenceRecord
  <1> HIDE DEF l
  <1> QED BY <1>1, <1>2

\* What is held after pruning is the latest of what was received, as before.
LEMMA PruneLatest ==
    ASSUME Ttl \in Int, now \in Int, NEW rs, rs \subseteq PresenceRecord,
           NEW seen, seen \subseteq PresenceRecord, Latest(rs, seen, now)
    PROVE  Latest(Nearby!Prune(rs), seen, now)
  <1> DEFINE ps == Nearby!Prune(rs)
  <1>1. /\ \A r \in ps : \E x \in rs : x.number = r.number /\ x.at = r.at /\ x.room = r.room
        /\ ((\A x, y \in rs : x = y) => \A r, s \in ps : r = s)
        /\ (ps = {} => \A x \in rs : ~(x.at + Ttl > now))
    BY PruneKeeps
  <1> HIDE DEF ps
  <1>2. \A r, s \in ps : r = s BY <1>1 DEF Latest
  <1>3. \A r \in ps : \E x \in seen : x.number = r.number /\ x.at = r.at /\ x.room = r.room
    BY <1>1 DEF Latest
  <1>4. \A r \in ps : \A x \in seen : x.at <= r.at BY <1>1 DEF Latest
  <1>5. ASSUME ps = {}, NEW x \in seen PROVE x.at + Ttl <= now
    <2>1. CASE rs = {} BY <2>1 DEF Latest
    <2>2. CASE rs # {}
      <3>1. PICK r \in rs : TRUE BY <2>2
      <3>2. r.at \in Int /\ x.at \in Int BY <3>1 DEF PresenceRecord
      <3>3. x.at <= r.at /\ ~(r.at + Ttl > now) BY <1>1, <1>5, <3>1 DEF Latest
      <3> QED BY <3>2, <3>3
    <2> QED BY <2>1, <2>2
  <1>6. Latest(ps, seen, now) BY <1>2, <1>3, <1>4, <1>5 DEF Latest
  <1> QED BY <1>6 DEF ps

LEMMA GreaterIsLater ==
    ASSUME NEW a \in PresenceRecord, NEW b \in PresenceRecord
    PROVE  /\ Nearby!Greater(a, b) => a.at >= b.at
           /\ ~Nearby!Greater(a, b) => a.at <= b.at
  <1>1. a.at \in Int /\ b.at \in Int BY DEF PresenceRecord
  <1> QED BY <1>1 DEF Nearby!Greater

\* A record that arrives, in whatever order.
LEMMA MergeLatest ==
    ASSUME Ttl \in Int, now \in Int, NEW rs, rs \subseteq PresenceRecord,
           NEW seen, seen \subseteq PresenceRecord, NEW r \in PresenceRecord, Latest(rs, seen, now)
    PROVE  Latest(Nearby!Prune(Nearby!Merge(rs, r)), seen \cup {r}, now)
  <1> DEFINE m == Nearby!Merge(rs, r)
             now2 == seen \cup {r}
  <1>1. \A x \in now2 : x.at \in Int BY DEF PresenceRecord
  <1>2. \A x \in rs : x.at \in Int BY DEF PresenceRecord
  <1>3. CASE \E x \in rs : ~Nearby!Greater(r, x)
    <2>1. m = rs BY <1>3 DEF Nearby!Merge
    <2>2. PICK x \in rs : ~Nearby!Greater(r, x) BY <1>3
    <2>3. r.at <= x.at BY <2>2, GreaterIsLater
    <2>4. rs # {} /\ \A y \in rs : r.at <= y.at BY <2>2, <2>3 DEF Latest
    <2>5. Latest(rs, now2, now) BY <2>4 DEF Latest
    <2> QED BY <2>1, <2>5, PruneLatest
  <1>4. CASE \A x \in rs : Nearby!Greater(r, x)
    <2>1. m = {r} BY <1>4 DEF Nearby!Merge
    <2>2. CASE rs # {}
      <3>1. PICK x \in rs : TRUE BY <2>2
      <3>2. r.at >= x.at BY <1>4, <3>1, GreaterIsLater
      <3>3. \A y \in now2 : y.at <= r.at
        <4> SUFFICES ASSUME NEW y \in now2 PROVE y.at <= r.at OBVIOUS
        <4>1. CASE y = r BY <1>1, <4>1
        <4>2. CASE y \in seen
          <5>1. y.at <= x.at BY <3>1, <4>2 DEF Latest
          <5>2. y.at \in Int /\ x.at \in Int /\ r.at \in Int BY <1>1, <1>2, <3>1
          <5> QED BY <3>2, <5>1, <5>2
        <4> QED BY <4>1, <4>2
      <3>4. Latest({r}, now2, now) BY <3>3 DEF Latest
      <3>5. {r} \subseteq PresenceRecord /\ now2 \subseteq PresenceRecord OBVIOUS
      <3> QED BY <2>1, <3>4, <3>5, PruneLatest
    <2>3. CASE rs = {}
      <3> DEFINE ps == Nearby!Prune({r})
      <3>1. {r} \subseteq PresenceRecord /\ \A x, y \in {r} : x = y OBVIOUS
      <3>2. /\ \A q \in ps : \E x \in {r} : x.number = q.number /\ x.at = q.at /\ x.room = q.room
            /\ \A q, s \in ps : q = s
            /\ (ps = {} => \A x \in {r} : ~(x.at + Ttl > now))
            /\ \A q \in ps : q.at + Ttl > now
        BY <3>1, PruneKeeps
      <3> HIDE DEF ps
      <3>3. \A x \in seen : x.at + Ttl <= now BY <2>3 DEF Latest
      <3>4. ASSUME NEW q \in ps, NEW x \in now2 PROVE x.at <= q.at
        <4>1. q.at = r.at /\ r.at + Ttl > now BY <3>2
        <4>2. CASE x = r BY <1>1, <4>1, <4>2
        <4>3. CASE x \in seen
          <5>1. x.at + Ttl <= now BY <3>3, <4>3
          <5>2. x.at \in Int /\ r.at \in Int BY <1>1
          <5> QED BY <4>1, <5>1, <5>2
        <4> QED BY <4>2, <4>3
      <3>5. ASSUME ps = {}, NEW x \in now2 PROVE x.at + Ttl <= now
        <4>1. CASE x = r
          <5>1. x.at \in Int /\ ~(x.at + Ttl > now) BY <1>1, <3>2, <3>5, <4>1
          <5> QED BY <5>1
        <4>2. CASE x \in seen BY <3>3, <4>2
        <4> QED BY <4>1, <4>2
      <3>6. Latest(ps, now2, now) BY <3>2, <3>4, <3>5 DEF Latest
      <3> QED BY <2>1, <3>6 DEF ps
    <2> QED BY <2>2, <2>3
  <1> QED BY <1>3, <1>4

LEMMA MergeTyped ==
    ASSUME NEW rs, rs \subseteq PresenceRecord, NEW r \in PresenceRecord
    PROVE  Nearby!Merge(rs, r) \subseteq PresenceRecord
  BY DEF Nearby!Merge

LEMMA ElapseStep ==
    ASSUME PresenceInv, Ttl \in Int, Nearby!Elapse
    PROVE  PresenceInv'
  <1>1. /\ now' = now + 1 /\ UNCHANGED <<local, air, viewer, streams, remote, received>>
    BY DEF Nearby!Elapse, Nearby!KeepViewer
  <1>2. now \in Int /\ Latest(remote, received, now) /\ received \subseteq PresenceRecord
    BY DEF PresenceInv, HeldGood, AirGood
  <1>3. \A x \in received : x.at \in Int BY <1>2 DEF PresenceRecord
  <1>4. \A x \in received : x.at + Ttl <= now => x.at + Ttl <= now + 1 BY <1>2, <1>3
  <1>5. Latest(remote, received, now + 1) BY <1>2, <1>4 DEF Latest
  <1>6. now + 1 \in Int BY <1>2
  <1>7. HeldGood' BY <1>1, <1>5, <1>6 DEF PresenceInv, HeldGood
  <1>8. StreamsGood' BY <1>1 DEF PresenceInv, StreamsGood
  <1> QED BY <1>1, <1>7, <1>8 DEF PresenceInv

LEMMA ReceiverTyped ==
    ASSUME PresenceInv
    PROVE  /\ now \in Int /\ remote \subseteq PresenceRecord /\ air \subseteq PresenceRecord
           /\ received \subseteq PresenceRecord /\ Latest(remote, received, now)
           /\ viewer \in [room : Rooms, connected : BOOLEAN, generation : Nat, moves : Nat]
           /\ viewer.room \in Rooms /\ viewer.generation \in Nat /\ viewer.moves \in Nat
  BY DEF PresenceInv, HeldGood, AirGood, StreamsGood

\* The streams change, and the viewer stays in its room.
LEMMA SubscriptionStep ==
    ASSUME PresenceInv, StreamsGood', viewer'.room = viewer.room, UNCHANGED <<remote, received>>,
           Nearby!KeepLocal
    PROVE  PresenceInv'
  <1>1. UNCHANGED <<now, local, air>> BY DEF Nearby!KeepLocal
  <1>2. HeldGood' BY <1>1 DEF PresenceInv, HeldGood
  <1> QED BY <1>1, <1>2 DEF PresenceInv

\* A new generation: the streams there are belong to an earlier one.
LEMMA GenerationStep ==
    ASSUME PresenceInv, viewer' \in [room : Rooms, connected : BOOLEAN, generation : Nat, moves : Nat],
           viewer'.generation = viewer.generation + 1,
           \/ Nearby!Subscribe(viewer'.room, viewer.generation + 1)
           \/ UNCHANGED streams
    PROVE  StreamsGood'
  <1> DEFINE n == [room |-> viewer'.room, generation |-> viewer.generation + 1, open |-> FALSE]
             T == [room : Rooms, generation : Nat, open : BOOLEAN]
  <1>1. streams' = streams \/ streams' = streams \cup {n} BY DEF Nearby!Subscribe
  <1>2. viewer.generation \in Nat BY ReceiverTyped
  <1>3. n \in T /\ n.generation = viewer'.generation /\ n.room = viewer'.room BY <1>2
  <1>4. streams \subseteq T /\ \A s \in streams : s.generation <= viewer.generation
    BY DEF PresenceInv, StreamsGood
  <1>5. \A s \in streams : s.generation \in Nat BY <1>4
  <1>6. \A s \in streams : s.generation < viewer'.generation BY <1>2, <1>4, <1>5
  <1>7. viewer'.generation \in Nat /\ viewer'.generation <= viewer'.generation BY <1>2
  <1> HIDE DEF n, T
  <1>8. streams' \subseteq T BY <1>1, <1>3, <1>4
  <1>9. \A s \in streams' : s = n \/ s \in streams BY <1>1
  <1>10. \A s \in streams' : /\ s.generation <= viewer'.generation
                             /\ s.generation = viewer'.generation => s.room = viewer'.room
    <2> SUFFICES ASSUME NEW s \in streams'
                 PROVE  /\ s.generation <= viewer'.generation
                        /\ s.generation = viewer'.generation => s.room = viewer'.room
      OBVIOUS
    <2>1. CASE s = n BY <1>3, <1>7, <2>1
    <2>2. CASE s \in streams
      <3>1. s.generation < viewer'.generation /\ s.generation \in Nat BY <1>5, <1>6, <2>2
      <3> QED BY <1>7, <3>1
    <2> QED BY <1>9, <2>1, <2>2
  <1> QED BY <1>8, <1>10 DEF StreamsGood, T

LEMMA ViewerStep ==
    ASSUME PresenceInv, Ttl \in Int,
           \/ Nearby!ViewerConnects \/ Nearby!ViewerDisconnects
           \/ \E c \in Rooms : Nearby!ViewerSwitches(c)
    PROVE  PresenceInv'
  <1> DEFINE g == viewer.generation + 1
             k == viewer.moves + 1
  <1>1. g \in Nat /\ k \in Nat BY ReceiverTyped
  <1>2. CASE Nearby!ViewerConnects
    <2>1. /\ viewer' = [viewer EXCEPT !.connected = TRUE, !.generation = g, !.moves = k]
          /\ Nearby!Subscribe(viewer.room, g) /\ UNCHANGED <<remote, received>> /\ Nearby!KeepLocal
      BY <1>2 DEF Nearby!ViewerConnects
    <2>2. g = viewer.generation + 1 OBVIOUS
    <2> HIDE DEF g, k
    <2>3. /\ viewer' \in [room : Rooms, connected : BOOLEAN, generation : Nat, moves : Nat]
          /\ viewer'.generation = g /\ viewer'.room = viewer.room
      BY <1>1, <2>1, ReceiverTyped
    <2>4. StreamsGood' BY <2>1, <2>2, <2>3, GenerationStep
    <2> QED BY <2>1, <2>3, <2>4, SubscriptionStep
  <1>3. CASE Nearby!ViewerDisconnects
    <2>1. /\ viewer' = [viewer EXCEPT !.connected = FALSE, !.generation = g, !.moves = k]
          /\ UNCHANGED <<streams, remote, received>> /\ Nearby!KeepLocal
      BY <1>3 DEF Nearby!ViewerDisconnects
    <2>2. g = viewer.generation + 1 OBVIOUS
    <2> HIDE DEF g, k
    <2>3. /\ viewer' \in [room : Rooms, connected : BOOLEAN, generation : Nat, moves : Nat]
          /\ viewer'.generation = g /\ viewer'.room = viewer.room
      BY <1>1, <2>1, ReceiverTyped
    <2>4. StreamsGood' BY <2>1, <2>2, <2>3, GenerationStep
    <2> QED BY <2>1, <2>3, <2>4, SubscriptionStep
  <1>4. ASSUME NEW c \in Rooms, Nearby!ViewerSwitches(c) PROVE PresenceInv'
    <2>1. /\ viewer' = [viewer EXCEPT !.room = c, !.generation = g, !.moves = k]
          /\ remote' = {} /\ received' = {} /\ Nearby!KeepLocal
          /\ Nearby!Subscribe(c, g) \/ UNCHANGED streams
      BY <1>4 DEF Nearby!ViewerSwitches
    <2>2. g = viewer.generation + 1 OBVIOUS
    <2> HIDE DEF g, k
    <2>3. /\ viewer' \in [room : Rooms, connected : BOOLEAN, generation : Nat, moves : Nat]
          /\ viewer'.generation = g /\ viewer'.room = c
      BY <1>1, <2>1, ReceiverTyped
    <2>4. StreamsGood' BY <2>1, <2>2, <2>3, GenerationStep
    <2>5. UNCHANGED <<now, local, air>> BY <2>1 DEF Nearby!KeepLocal
    <2>6. HeldGood' BY <2>1, <2>5, ReceiverTyped DEF HeldGood, Latest
    <2> QED BY <2>4, <2>5, <2>6 DEF PresenceInv
  <1> QED BY <1>2, <1>3, <1>4

\* Streams that open, fail or turn out to be outdated.
LEMMA StreamStep ==
    ASSUME PresenceInv, NEW s \in streams, Nearby!StreamOpens(s) \/ Nearby!StreamFails(s)
    PROVE  PresenceInv'
  <1> DEFINE o == [s EXCEPT !.open = TRUE]
             T == [room : Rooms, generation : Nat, open : BOOLEAN]
  <1>1. /\ UNCHANGED <<viewer, remote, received>> /\ Nearby!KeepLocal
        /\ streams' = streams \ {s} \/ streams' = (streams \ {s}) \cup {o}
    BY DEF Nearby!StreamOpens, Nearby!StreamFails
  <1>2. streams \subseteq T BY DEF PresenceInv, StreamsGood
  <1>3. o \in T /\ o.generation = s.generation /\ o.room = s.room BY <1>2
  <1> HIDE DEF o, T
  <1>4. streams' \subseteq T BY <1>1, <1>2, <1>3
  <1>5. \A z \in streams' : \E y \in streams : z.generation = y.generation /\ z.room = y.room
    BY <1>1, <1>3
  <1>6. StreamsGood' BY <1>1, <1>4, <1>5 DEF PresenceInv, StreamsGood, T
  <1> QED BY <1>1, <1>6, SubscriptionStep

LEMMA DeliverStep ==
    ASSUME PresenceInv, Ttl \in Int, NEW s \in streams, NEW r \in air, Nearby!StreamDelivers(s, r)
    PROVE  PresenceInv'
  <1>1. r.room = s.room /\ UNCHANGED viewer /\ Nearby!KeepLocal BY DEF Nearby!StreamDelivers
  <1>2. UNCHANGED <<now, local, air>> BY <1>1 DEF Nearby!KeepLocal
  <1>3. CASE Nearby!CurrentStream(s)
    <2>1. /\ remote' = Nearby!Prune(Nearby!Merge(remote, r)) /\ received' = received \cup {r}
          /\ UNCHANGED streams
      BY <1>3 DEF Nearby!StreamDelivers
    <2>2. s.room = viewer.room BY <1>3 DEF Nearby!CurrentStream, PresenceInv, StreamsGood
    <2>3. r \in PresenceRecord BY ReceiverTyped
    <2>4. Latest(remote', received', now) BY <2>1, <2>3, ReceiverTyped, MergeLatest
    <2>5. Nearby!Merge(remote, r) \subseteq PresenceRecord BY <2>3, ReceiverTyped, MergeTyped
    <2>6. remote' \subseteq PresenceRecord BY <2>1, <2>5, ReceiverTyped, PruneKeeps
    <2>7. received' \subseteq air /\ \A x \in received' : x.room = viewer.room
      BY <1>1, <2>1, <2>2 DEF PresenceInv, HeldGood
    <2>8. HeldGood' BY <1>1, <1>2, <2>4, <2>6, <2>7, ReceiverTyped DEF HeldGood
    <2>9. StreamsGood' BY <1>1, <2>1 DEF PresenceInv, StreamsGood
    <2> QED BY <1>2, <2>8, <2>9 DEF PresenceInv
  <1>4. CASE ~Nearby!CurrentStream(s)
    <2>1. streams' = streams \ {s} /\ UNCHANGED <<remote, received>>
      BY <1>4 DEF Nearby!StreamDelivers
    <2>2. StreamsGood' BY <1>1, <2>1 DEF PresenceInv, StreamsGood
    <2> QED BY <1>1, <2>1, <2>2, SubscriptionStep
  <1> QED BY <1>3, <1>4

LEMMA RebuildStep ==
    ASSUME PresenceInv, Ttl \in Int, Nearby!Rebuild
    PROVE  PresenceInv'
  <1>1. remote' = Nearby!Prune(remote) /\ UNCHANGED <<viewer, streams, received, now, local, air>>
    BY DEF Nearby!Rebuild, Nearby!KeepLocal
  <1>2. Latest(remote', received, now) BY <1>1, ReceiverTyped, PruneLatest
  <1>3. remote' \subseteq PresenceRecord BY <1>1, ReceiverTyped, PruneKeeps
  <1>4. HeldGood' BY <1>1, <1>2, <1>3 DEF PresenceInv, HeldGood
  <1>5. StreamsGood' BY <1>1 DEF PresenceInv, StreamsGood
  <1> QED BY <1>1, <1>4, <1>5 DEF PresenceInv

LEMMA PresenceStep ==
    ASSUME PresenceInv, Ttl \in Int, [Nearby!PresenceNext]_Nearby!presenceVars
    PROVE  PresenceInv'
  <1>1. CASE UNCHANGED Nearby!presenceVars
    BY <1>1 DEF Nearby!presenceVars, PresenceInv, StreamsGood, HeldGood
  <1>2. CASE Nearby!PresenceNext
    <2>1. CASE \/ Nearby!Connect \/ Nearby!StopTyping \/ Nearby!Heartbeat \/ Nearby!IdleTimer
               \/ Nearby!TypingStart \/ Nearby!TypingRefresh
               \/ \E typing \in BOOLEAN : Nearby!NoteActivity(typing)
      BY <2>1, SingleStep
    <2>2. CASE Nearby!Disconnect \/ Nearby!Destroy \/ \E c \in Rooms : Nearby!SwitchConversation(c)
      BY <2>2, DoubleStep
    <2>3. CASE \/ Nearby!ViewerConnects \/ Nearby!ViewerDisconnects
               \/ \E c \in Rooms : Nearby!ViewerSwitches(c)
      BY <2>3, ViewerStep
    <2>4. CASE Nearby!Elapse BY <2>4, ElapseStep
    <2>5. CASE Nearby!Rebuild BY <2>5, RebuildStep
    <2>6. ASSUME NEW s \in streams,
                 \/ Nearby!StreamOpens(s) \/ Nearby!StreamFails(s)
                 \/ \E r \in air : Nearby!StreamDelivers(s, r)
          PROVE  PresenceInv'
      BY <2>6, StreamStep, DeliverStep
    <2> QED BY <1>2, <2>1, <2>2, <2>3, <2>4, <2>5, <2>6 DEF Nearby!PresenceNext
  <1> QED BY <1>1, <1>2

(***************************************************************************)
(* Out-of-order, repeated and lost delivery never brings back an older     *)
(* state, for any conversations, times to live and number of publications  *)
(* (nextLogicalTimestamp and openTransportSubscription of                  *)
(* presence/controller.ts, mergePresenceRecords of presence/types.ts).     *)
(***************************************************************************)
THEOREM NewestIsShown ==
    ASSUME Ttl \in Int
    PROVE  PresenceSpec => []ShowsNewest
  <1>1. Nearby!PresenceInit => PresenceInv
    <2> SUFFICES ASSUME Nearby!PresenceInit PROVE PresenceInv OBVIOUS
    <2>1. PICK c \in Rooms :
            /\ local = [room |-> c, connected |-> FALSE, destroyed |-> FALSE, state |-> "offline",
                        typingRequested |-> FALSE, typingActive |-> FALSE, lastActivity |-> 0,
                        last |-> -1, semantic |-> <<>>, attemptAt |-> -1, count |-> 0]
            /\ viewer = [room |-> c, connected |-> FALSE, generation |-> 0, moves |-> 0]
      BY DEF Nearby!PresenceInit
    <2>2. now = 0 /\ air = {} /\ streams = {} /\ remote = {} /\ received = {} BY DEF Nearby!PresenceInit
    <2>3. local \in Publisher
      <3> DEFINE e == <<>>
                 y == -1
      <3>1. local = [room |-> c, connected |-> FALSE, destroyed |-> FALSE, state |-> "offline",
                     typingRequested |-> FALSE, typingActive |-> FALSE, lastActivity |-> 0,
                     last |-> y, semantic |-> e, attemptAt |-> y, count |-> 0]
        BY <2>1
      <3>2. e \in {<<>>} \cup (PresenceState \X BOOLEAN) /\ y \in Int OBVIOUS
      <3> HIDE DEF e, y
      <3> QED BY <3>1, <3>2 DEF Publisher, PresenceState
    <2>4. AirGood(local, air) BY <2>2, <2>3 DEF AirGood
    <2>5. StreamsGood BY <2>1, <2>2 DEF StreamsGood
    <2>6. HeldGood BY <2>2 DEF HeldGood, Latest
    <2> QED BY <2>4, <2>5, <2>6 DEF PresenceInv
  <1>2. PresenceInv => Nearby!ShowsNewest
    <2> SUFFICES ASSUME PresenceInv, NEW r \in Nearby!Listed
                 PROVE  r.room = viewer.room /\ \A x \in received : x.number <= r.number
      BY DEF Nearby!ShowsNewest
    <2>1. r \in Nearby!Prune(remote) BY DEF Nearby!Listed
    <2>2. PICK h \in remote : h.number = r.number /\ h.at = r.at /\ h.room = r.room
      BY <2>1, ReceiverTyped, PruneKeeps
    <2>3. PICK y \in received : y.number = h.number /\ y.at = h.at /\ y.room = h.room
      BY <2>2, ReceiverTyped DEF Latest
    <2>4. \A x \in received : x.at <= y.at BY <2>2, <2>3, ReceiverTyped DEF Latest
    <2>5. \A x \in received : x.number <= y.number
      BY <2>3, <2>4 DEF PresenceInv, HeldGood, AirGood
    <2>6. y.room = viewer.room BY <2>3 DEF PresenceInv, HeldGood
    <2> QED BY <2>2, <2>3, <2>5, <2>6
  <1> QED BY <1>1, <1>2, PresenceStep, PTL DEF PresenceSpec, ShowsNewest
------------------------------------------------
\* What the launcher shows of a conversation that runs elsewhere.

ActivitySpec == Activity!ActivityInit /\ [][Activity!ActivityNext]_Activity!activityVars

ActivityStatus == {"idle", "running", "completed", "error"}
ActivityRecord == [turn : Nat, status : ActivityStatus, unread : BOOLEAN]

\* Work that was never admitted has no record, only finished work is unread.
ActivityGood(r) ==
    /\ r \in ActivityRecord
    /\ r.turn = 0 => r = Activity!NoRecord
    /\ r.unread => r.status \in {"completed", "error"}

\* What is published or shown has been stored, and the record of a
\* conversation never goes: a poll that found none is outdated once anything
\* is shown.
PollGood(P, s) ==
    /\ P \in [phase : {"idle", "asked", "answered"}, read : ActivityRecord, updated : BOOLEAN]
    /\ ActivityGood(P.read)
    /\ P.phase = "answered" /\ ~P.updated /\ P.read = Activity!NoRecord => s.turn = 0
WorkerGood(k, kept) ==
    /\ k \in [phase : {"idle", "upsert", "publish"}, runs : Nat, record : ActivityRecord]
    /\ ActivityGood(k.record)
    /\ k.phase # "idle" => k.record.turn > 0
    /\ k.phase = "publish" => kept.turn > 0
TurnGood ==
    /\ turn \in [number : Nat, status : ActivityStatus]
    /\ turn.number > 0 => turn.status # "idle"
ActivityInv ==
    /\ TurnGood
    /\ ActivityGood(stored) /\ ActivityGood(shown)
    /\ shown.turn > 0 \/ poll.read.turn > 0 => stored.turn > 0
    /\ PollGood(poll, shown)
    /\ \A r \in wire : ActivityGood(r) /\ r.turn > 0 /\ stored.turn > 0
    /\ worker = [w \in Workers |-> worker[w]]
    /\ \A w \in Workers : WorkerGood(worker[w], stored)

\* What is left of a record never goes back.
Onwards(old, new) ==
    /\ Activity!Rank(new) >= Activity!Rank(old)
    /\ Activity!Rank(new) = Activity!Rank(old) /\ old.turn > 0 => (new.unread => old.unread)
    /\ old.turn > 0 => new.turn > 0

LEMMA OnwardsSame == ASSUME NEW r, ActivityGood(r) PROVE Onwards(r, r)
  BY DEF Onwards, ActivityGood, ActivityRecord, Activity!Rank

LEMMA OnwardsRead ==
    ASSUME NEW r, ActivityGood(r), r.unread
    PROVE  ActivityGood([r EXCEPT !.unread = FALSE]) /\ Onwards(r, [r EXCEPT !.unread = FALSE])
           /\ [r EXCEPT !.unread = FALSE].turn = r.turn
  <1> DEFINE s == [r EXCEPT !.unread = FALSE]
  <1>1. s \in ActivityRecord /\ s.turn = r.turn /\ s.status = r.status /\ ~s.unread
    BY DEF ActivityGood, ActivityRecord
  <1>2. r.turn # 0 BY DEF ActivityGood, Activity!NoRecord
  <1> HIDE DEF s
  <1>3. ActivityGood(s) /\ Onwards(r, s)
    BY <1>1, <1>2 DEF ActivityGood, Onwards, ActivityRecord, Activity!Rank
  <1> QED BY <1>1, <1>3 DEF s

\* A reader keeps one of two records, and goes on with it.
LEMMA RetainOnwards ==
    ASSUME NEW r, NEW s, ActivityGood(r), ActivityGood(s)
    PROVE  /\ ActivityGood(Activity!Retain(r, s)) /\ Onwards(r, Activity!Retain(r, s))
           /\ s.turn > 0 => Activity!Retain(r, s).turn > 0
  <1>1. Activity!Retain(r, s) \in {r, s} BY DEF Activity!Retain
  <1>2. CASE Activity!Retain(r, s) = r
    <2>1. r.turn = 0 => s = r
      BY <1>2 DEF Activity!Retain, ActivityGood, Activity!NoRecord
    <2> QED BY <1>2, <2>1, OnwardsSame DEF ActivityGood, ActivityRecord
  <1>3. CASE Activity!Retain(r, s) = s /\ s # r
    <2>1. r = Activity!NoRecord => Onwards(r, s)
      BY DEF Onwards, ActivityGood, ActivityRecord, Activity!Rank, Activity!NoRecord, Activity!Finished
    <2>2. CASE r # Activity!NoRecord
      <3>1. /\ r.turn <= s.turn
            /\ r.turn = s.turn /\ r.status \in {"completed", "error"} => s.status = r.status /\ r.unread
        BY <1>3, <2>2 DEF Activity!Retain, ActivityGood, ActivityRecord, Activity!Finished
      <3>2. r.turn \in Nat /\ s.turn \in Nat /\ (s.unread => s.status \in {"completed", "error"})
        BY DEF ActivityGood, ActivityRecord
      <3>3. r.turn < s.turn => Onwards(r, s) BY <3>2 DEF Onwards, Activity!Rank
      <3>4. r.turn = s.turn => Onwards(r, s) BY <3>1, <3>2 DEF Onwards, Activity!Rank, Activity!Finished
      <3> QED BY <1>3, <3>1, <3>2, <3>3, <3>4
    <2> QED BY <1>3, <2>1, <2>2
  <1> QED BY <1>1, <1>2, <1>3

LEMMA ActivityStarts == Activity!ActivityInit => ActivityInv
  <1> SUFFICES ASSUME Activity!ActivityInit PROVE ActivityInv OBVIOUS
  <1>1. ActivityGood(Activity!NoRecord)
    BY DEF ActivityGood, ActivityRecord, ActivityStatus, Activity!NoRecord
  <1>2. Activity!NoRecord \in ActivityRecord /\ Activity!NoRecord.turn = 0
    BY <1>1 DEF ActivityGood, Activity!NoRecord
  <1>3. PollGood(Activity!NoPoll, Activity!NoRecord)
    BY <1>1, <1>2 DEF PollGood, Activity!NoPoll
  <1>4. WorkerGood([phase |-> "idle", runs |-> 0, record |-> Activity!NoRecord], stored)
    BY <1>1, <1>2 DEF WorkerGood
  <1>5. TurnGood BY DEF TurnGood, ActivityStatus, Activity!ActivityInit
  <1>6. \A w \in Workers : worker[w] = [phase |-> "idle", runs |-> 0, record |-> Activity!NoRecord]
    BY DEF Activity!ActivityInit
  <1>7. worker = [w \in Workers |-> worker[w]] /\ poll.read.turn = 0
    BY <1>2 DEF Activity!ActivityInit, Activity!NoPoll
  <1> QED BY <1>1, <1>2, <1>3, <1>4, <1>5, <1>6, <1>7 DEF ActivityInv, Activity!ActivityInit

\* The durable turn and the live subscription: no record moves.
LEMMA DurableTurnStep ==
    ASSUME ActivityInv, Activity!TurnAdmitted \/ Activity!TurnFinished \/ Activity!StartLive \/ Activity!LiveEnds
    PROVE  ActivityInv' /\ UNCHANGED <<stored, shown>>
  <1>1. UNCHANGED <<stored, worker, wire, shown, poll>>
    BY DEF Activity!TurnAdmitted, Activity!TurnFinished, Activity!StartLive, Activity!LiveEnds
  <1>2. TurnGood'
    <2>1. CASE Activity!TurnAdmitted
      BY <2>1 DEF ActivityInv, TurnGood, Activity!TurnAdmitted, ActivityStatus
    <2>2. CASE Activity!TurnFinished
      BY <2>2 DEF ActivityInv, TurnGood, Activity!TurnFinished, ActivityStatus, Activity!Finished
    <2>3. CASE UNCHANGED turn BY <2>3 DEF ActivityInv, TurnGood
    <2> QED BY <2>1, <2>2, <2>3 DEF Activity!StartLive, Activity!LiveEnds
  <1> QED BY <1>1, <1>2 DEF ActivityInv

LEMMA ReconcileStep ==
    ASSUME ActivityInv, NEW w \in Workers,
           Activity!ReconcileReads(w) \/ Activity!ReconcileWrites(w) \/ Activity!Publish(w)
    PROVE  ActivityInv' /\ Onwards(stored, stored') /\ UNCHANGED shown
  <1>1. WorkerGood(worker[w], stored) /\ ActivityGood(stored) BY DEF ActivityInv
  <1>2. CASE Activity!ReconcileReads(w)
    <2> DEFINE r == [turn |-> turn.number, status |-> turn.status, unread |-> turn.status # "running"]
               k == [phase |-> "upsert", runs |-> worker[w].runs + 1, record |-> r]
    <2>1. worker' = [worker EXCEPT ![w] = k] /\ UNCHANGED <<turn, stored, wire, shown, poll>> /\ turn.number > 0
      BY <1>2 DEF Activity!ReconcileReads
    <2>2. r \in ActivityRecord /\ r.turn > 0 BY <2>1 DEF ActivityInv, TurnGood, ActivityRecord
    <2>3. r.unread => r.status \in {"completed", "error"}
      BY <2>1 DEF ActivityInv, TurnGood, ActivityStatus
    <2> HIDE DEF r
    <2>4. ActivityGood(r) BY <2>2, <2>3 DEF ActivityGood, ActivityRecord
    <2>5. WorkerGood(k, stored) BY <1>1, <2>2, <2>4 DEF WorkerGood
    <2> HIDE DEF k
    <2>6. worker' = [v \in Workers |-> worker'[v]]
          /\ \A v \in Workers : worker'[v] = IF v = w THEN k ELSE worker[v]
      BY <2>1 DEF ActivityInv
    <2>7. \A v \in Workers : WorkerGood(worker'[v], stored') BY <2>1, <2>5, <2>6 DEF ActivityInv
    <2>8. TurnGood' BY <2>1 DEF ActivityInv, TurnGood
    <2> QED BY <1>1, <2>1, <2>6, <2>7, <2>8, OnwardsSame DEF ActivityInv
  <1>3. CASE Activity!ReconcileWrites(w)
    <2> DEFINE r == worker[w].record
               s == Activity!Retain(stored, r)
               k == [worker[w] EXCEPT !.phase = "publish", !.record = s]
    <2>1. worker' = [worker EXCEPT ![w] = k] /\ stored' = s /\ UNCHANGED <<turn, wire, shown, poll>>
          /\ worker[w].phase = "upsert"
      BY <1>3 DEF Activity!ReconcileWrites, ActivityInv
    <2>2. ActivityGood(r) /\ r.turn > 0 BY <1>1, <2>1 DEF WorkerGood
    <2>3. ActivityGood(s) /\ Onwards(stored, s) /\ s.turn > 0 BY <1>1, <2>2, RetainOnwards
    <2> HIDE DEF r, s
    <2>4. WorkerGood(k, s) BY <1>1, <2>3 DEF WorkerGood, ActivityGood
    <2> HIDE DEF k
    <2>5. worker' = [v \in Workers |-> worker'[v]]
          /\ \A v \in Workers : worker'[v] = IF v = w THEN k ELSE worker[v]
      BY <2>1 DEF ActivityInv
    <2>6. \A v \in Workers : WorkerGood(worker'[v], stored')
      BY <2>1, <2>3, <2>4, <2>5 DEF ActivityInv, WorkerGood
    <2>7. TurnGood' BY <2>1 DEF ActivityInv, TurnGood
    <2> QED BY <2>1, <2>3, <2>5, <2>6, <2>7 DEF ActivityInv
  <1>4. CASE Activity!Publish(w)
    <2> DEFINE k == [worker[w] EXCEPT !.phase = "idle"]
    <2>1. worker' = [worker EXCEPT ![w] = k] /\ UNCHANGED <<turn, stored, shown, poll>>
          /\ wire' = wire \cup {worker[w].record} /\ worker[w].phase = "publish"
      BY <1>4 DEF Activity!Publish
    <2>2. ActivityGood(worker[w].record) /\ worker[w].record.turn > 0 /\ stored.turn > 0
      BY <1>1, <2>1 DEF WorkerGood
    <2>3. WorkerGood(k, stored) BY <1>1 DEF WorkerGood
    <2> HIDE DEF k
    <2>4. worker' = [v \in Workers |-> worker'[v]]
          /\ \A v \in Workers : worker'[v] = IF v = w THEN k ELSE worker[v]
      BY <2>1 DEF ActivityInv
    <2>5. \A v \in Workers : WorkerGood(worker'[v], stored') BY <2>1, <2>3, <2>4 DEF ActivityInv
    <2>6. TurnGood' BY <2>1 DEF ActivityInv, TurnGood
    <2> QED BY <1>1, <2>1, <2>2, <2>4, <2>5, <2>6, OnwardsSame DEF ActivityInv
  <1> QED BY <1>2, <1>3, <1>4

LEMMA MarkStep ==
    ASSUME ActivityInv, Activity!MarkReadStored \/ Activity!MarkRead
    PROVE  ActivityInv' /\ Onwards(stored, stored') /\ Onwards(shown, shown')
  <1>1. TurnGood' BY DEF ActivityInv, TurnGood, Activity!MarkReadStored, Activity!MarkRead
  <1>2. ActivityGood(stored) /\ ActivityGood(shown) BY DEF ActivityInv
  <1>3. CASE Activity!MarkReadStored
    <2>1. stored' = [stored EXCEPT !.unread = FALSE] /\ stored.unread /\ UNCHANGED <<worker, wire, shown, poll>>
      BY <1>3 DEF Activity!MarkReadStored
    <2>2. ActivityGood(stored') /\ Onwards(stored, stored') /\ stored'.turn = stored.turn
      BY <1>2, <2>1, OnwardsRead
    <2> QED BY <1>1, <1>2, <2>1, <2>2, OnwardsSame DEF ActivityInv, WorkerGood
  <1>4. CASE Activity!MarkRead
    <2>1. shown' = [shown EXCEPT !.unread = FALSE] /\ shown.unread /\ UNCHANGED <<worker, wire, stored, poll>>
      BY <1>4 DEF Activity!MarkRead
    <2>2. ActivityGood(shown') /\ Onwards(shown, shown') /\ shown'.turn = shown.turn
      BY <1>2, <2>1, OnwardsRead
    <2> QED BY <1>1, <1>2, <2>1, <2>2, OnwardsSame DEF ActivityInv, PollGood
  <1> QED BY <1>3, <1>4

\* What arrives live is kept, and outdates a poll that is pending.
LEMMA LiveStep ==
    ASSUME ActivityInv, NEW r \in wire, Activity!LiveUpdate(r)
    PROVE  ActivityInv' /\ UNCHANGED stored /\ Onwards(shown, shown')
  <1>1. UNCHANGED <<turn, stored, worker>> /\ wire' \subseteq wire BY DEF Activity!LiveUpdate
  <1>2. TurnGood' BY <1>1 DEF ActivityInv, TurnGood
  <1>3. ActivityGood(r) /\ r.turn > 0 /\ stored.turn > 0 /\ ActivityGood(shown) BY DEF ActivityInv
  <1>4. CASE subscribed
    <2>1. shown' = Activity!Retain(shown, r) /\ poll' = [poll EXCEPT !.updated = @ \/ poll.phase # "idle"]
      BY <1>4 DEF Activity!LiveUpdate
    <2>2. ActivityGood(shown') /\ Onwards(shown, shown') BY <1>3, <2>1, RetainOnwards
    <2> DEFINE b == poll.updated \/ poll.phase # "idle"
    <2>3. b \in BOOLEAN /\ (poll.phase = "answered" => b) BY DEF ActivityInv, PollGood
    <2>4. poll' = [poll EXCEPT !.updated = b] BY <2>1
    <2> HIDE DEF b
    <2>5. PollGood(poll', shown') BY <2>3, <2>4 DEF ActivityInv, PollGood
    <2> QED BY <1>1, <1>2, <1>3, <2>2, <2>5 DEF ActivityInv
  <1>5. CASE ~subscribed
    <2>1. UNCHANGED <<shown, poll>> BY <1>5 DEF Activity!LiveUpdate
    <2> QED BY <1>1, <1>2, <1>3, <2>1, OnwardsSame DEF ActivityInv
  <1> QED BY <1>4, <1>5

LEMMA PollStep ==
    ASSUME ActivityInv,
           Activity!Refresh \/ Activity!Load \/ Activity!PollAnswered \/ Activity!PollFails
    PROVE  ActivityInv' /\ UNCHANGED stored /\ Onwards(shown, shown')
  <1>1. UNCHANGED <<turn, stored, worker, wire>>
    BY DEF Activity!Refresh, Activity!Load, Activity!PollAnswered, Activity!PollFails
  <1>2. TurnGood' BY <1>1 DEF ActivityInv, TurnGood
  <1>3. ActivityGood(stored) /\ ActivityGood(shown) /\ PollGood(poll, shown) BY DEF ActivityInv
  <1>4. ActivityGood(Activity!NoRecord) /\ Activity!NoRecord.turn = 0
    BY DEF ActivityGood, ActivityRecord, ActivityStatus, Activity!NoRecord
  <1>5. Activity!NoPoll \in [phase : {"idle", "asked", "answered"}, read : ActivityRecord, updated : BOOLEAN]
        /\ Activity!NoPoll.read = Activity!NoRecord /\ Activity!NoPoll.phase = "idle"
    BY <1>4 DEF Activity!NoPoll, ActivityGood
  <1>6. CASE Activity!Refresh
    <2>1. poll' = [Activity!NoPoll EXCEPT !.phase = "asked"] /\ UNCHANGED shown BY <1>6 DEF Activity!Refresh
    <2>2. PollGood(poll', shown) /\ poll'.read.turn = 0 BY <1>4, <1>5, <2>1 DEF PollGood
    <2> QED BY <1>1, <1>2, <1>3, <2>1, <2>2, OnwardsSame DEF ActivityInv
  <1>7. CASE Activity!Load
    <2>1. poll' = [poll EXCEPT !.phase = "answered", !.read = stored] /\ UNCHANGED shown BY <1>7 DEF Activity!Load
    <2>2. stored = Activity!NoRecord => shown.turn = 0
      BY <1>3, <1>4 DEF ActivityInv, ActivityGood, ActivityRecord
    <2>3. PollGood(poll', shown) BY <1>3, <2>1, <2>2 DEF PollGood, ActivityGood
    <2> QED BY <1>1, <1>2, <1>3, <2>1, <2>3, OnwardsSame DEF ActivityInv
  <1>8. CASE Activity!PollAnswered
    <2>1. shown' = Activity!Replaced /\ poll' = Activity!NoPoll /\ poll.phase = "answered" BY <1>8 DEF Activity!PollAnswered
    <2>2. PollGood(poll', shown') /\ poll'.read.turn = 0 BY <1>4, <1>5, <2>1 DEF PollGood
    <2>3. ActivityGood(shown') /\ Onwards(shown, shown') /\ (shown'.turn > 0 => stored.turn > 0)
      <3>1. CASE poll.updated
        BY <1>3, <2>1, <3>1, OnwardsSame DEF Activity!Replaced, ActivityInv
      <3>2. CASE ~poll.updated /\ poll.read = Activity!NoRecord
        <4>1. shown.turn = 0 BY <1>3, <2>1, <3>2 DEF PollGood
        <4>2. shown = Activity!NoRecord BY <1>3, <4>1 DEF ActivityGood
        <4> QED BY <1>3, <1>4, <2>1, <3>2, <4>2, OnwardsSame DEF Activity!Replaced
      <3>3. CASE ~poll.updated /\ poll.read # Activity!NoRecord
        <4>1. shown' = Activity!Retain(shown, poll.read) /\ ActivityGood(poll.read)
          BY <1>3, <2>1, <3>3 DEF Activity!Replaced, PollGood
        <4>2. shown' \in {shown, poll.read} BY <4>1 DEF Activity!Retain
        <4> QED BY <1>3, <4>1, <4>2, RetainOnwards DEF ActivityInv
      <3> QED BY <3>1, <3>2, <3>3
    <2> QED BY <1>1, <1>2, <2>2, <2>3 DEF ActivityInv
  <1>9. CASE Activity!PollFails
    <2>1. poll' = Activity!NoPoll /\ UNCHANGED shown BY <1>9 DEF Activity!PollFails
    <2>2. PollGood(poll', shown) /\ poll'.read.turn = 0 BY <1>4, <1>5, <2>1 DEF PollGood
    <2> QED BY <1>1, <1>2, <1>3, <2>1, <2>2, OnwardsSame DEF ActivityInv
  <1> QED BY <1>6, <1>7, <1>8, <1>9

LEMMA ActivityStays ==
    ASSUME ActivityInv, [Activity!ActivityNext]_Activity!activityVars
    PROVE  ActivityInv' /\ Onwards(stored, stored') /\ Onwards(shown, shown')
  <1>1. ActivityGood(stored) /\ ActivityGood(shown) BY DEF ActivityInv
  <1>2. CASE UNCHANGED Activity!activityVars
    BY <1>1, <1>2, OnwardsSame DEF Activity!activityVars, ActivityInv, TurnGood
  <1>3. CASE Activity!TurnAdmitted \/ Activity!TurnFinished \/ Activity!StartLive \/ Activity!LiveEnds
    BY <1>1, <1>3, DurableTurnStep, OnwardsSame
  <1>4. CASE \E w \in Workers :
               Activity!ReconcileReads(w) \/ Activity!ReconcileWrites(w) \/ Activity!Publish(w)
    BY <1>1, <1>4, ReconcileStep, OnwardsSame
  <1>5. CASE Activity!MarkReadStored \/ Activity!MarkRead BY <1>5, MarkStep
  <1>6. CASE \E r \in wire : Activity!LiveUpdate(r) BY <1>1, <1>6, LiveStep, OnwardsSame
  <1>7. CASE Activity!Refresh \/ Activity!Load \/ Activity!PollAnswered \/ Activity!PollFails
    BY <1>1, <1>7, PollStep, OnwardsSame
  <1> QED BY <1>2, <1>3, <1>4, <1>5, <1>6, <1>7 DEF Activity!ActivityNext

\* Neither the store nor what the launcher shows goes back to an older turn
\* or from finished to running, and work that was read does not become
\* unread, whatever the workers, the live stream and the poll deliver
\* (retainConversationActivity and replace of activity.ts), for any number
\* of workers and turns.
THEOREM ActivityGoesForward == ActivitySpec => ActivityForward
  <1>1. Activity!ActivityInit => ActivityInv BY ActivityStarts
  <1>2. ActivityInv /\ [Activity!ActivityNext]_Activity!activityVars => ActivityInv' BY ActivityStays
  <1>3. ActivityInv /\ [Activity!ActivityNext]_Activity!activityVars =>
          [/\ Activity!Rank(stored') >= Activity!Rank(stored)
           /\ Activity!Rank(shown') >= Activity!Rank(shown)
           /\ Activity!Rank(shown') = Activity!Rank(shown) /\ shown.turn > 0 =>
                (shown'.unread => shown.unread)]_Activity!activityVars
    BY ActivityStays DEF Onwards
  <1> QED BY <1>1, <1>2, <1>3, PTL DEF ActivitySpec, Activity!ActivityForward, ActivityForward

------------------------------------------------
\* Web search: one search per idempotency key.

SearchSpec == Web!SearchInit /\ [][Web!SearchNext]_Web!searchVars

\* What the adapter returns is a list of candidates.
AdapterReturns == Outputs \subseteq Seq(Candidates)

\* Results that may be shown: public, accepted, and no URL twice.
Showable ==
    {results \in Seq(Candidates) :
        /\ \A i \in DOMAIN results : results[i].verdict = "accepted" /\ results[i].public
        /\ \A i, j \in DOMAIN results : results[i].url = results[j].url => i = j}
Checkable ==
    {candidates \in Seq(Candidates) : \A i \in DOMAIN candidates : candidates[i].public}
SearchCodes ==
    {"pending", "ok", "cancelled", "timeout", "invalid_request", "idempotency_conflict",
     "capacity_exceeded", "authorization_unavailable", "authorization_denied", "invalid_response",
     "adapter_unavailable"} \cup {candidate.verdict : candidate \in Candidates}
SearchAnswers == [code : SearchCodes, results : Showable]
SearchOperations ==
    [phase : {"none", "authorizing", "searching", "checking", "settled"},
     candidates : Checkable, results : Showable, answer : SearchAnswers]
SearchCallers ==
    [phase : {"idle", "fingerprint", "joined", "done"}, aborted : BOOLEAN,
     operation : Web!Calls, answer : SearchAnswers]

\* An entry carries the key and the query of the call that runs it.
EntrySound(e) ==
    /\ e.operation \in Web!Calls
    /\ e.key = requests[e.operation].key /\ e.print = Web!Fingerprint(requests[e.operation])

SearchEntries ==
    [key : {requests[c].key : c \in Web!Calls}, print : {Web!Fingerprint(requests[c]) : c \in Web!Calls},
     operation : Web!Calls]

\* A search that runs is remembered, and no two of one key run.
EntriesInv ==
    /\ remembered \in Seq(SearchEntries)
    /\ \A i \in DOMAIN remembered : EntrySound(remembered[i])
    /\ \A o \in Web!Calls : Web!Running(o) => \E i \in DOMAIN remembered : remembered[i].operation = o
    /\ \A o, p \in Web!Calls :
          Web!Running(o) /\ Web!Running(p) /\ requests[o].key = requests[p].key => o = p

\* Who waits for a search waits for one of its own query.
SearchInv ==
    /\ callers \in [Web!Calls -> SearchCallers] /\ operations \in [Web!Calls -> SearchOperations]
    /\ \A c \in Web!Calls : Web!Fingerprint(requests[callers[c].operation]) = Web!Fingerprint(requests[c])
    /\ EntriesInv

LEMMA NothingShowable == << >> \in Showable /\ << >> \in Checkable
  BY DEF Showable, Checkable

LEMMA FailureAnswers == ASSUME NEW code \in SearchCodes PROVE Web!Failure(code) \in SearchAnswers
  BY NothingShowable DEF Web!Failure, SearchAnswers

LEMMA SearchStarts == Web!SearchInit => SearchInv
  <1> SUFFICES ASSUME Web!SearchInit PROVE SearchInv OBVIOUS
  <1>1. /\ callers = [c \in Web!Calls |-> [phase |-> "idle", aborted |-> FALSE, operation |-> c,
                                           answer |-> Web!Pending]]
        /\ operations = [c \in Web!Calls |-> [phase |-> "none", candidates |-> << >>, results |-> << >>,
                                              answer |-> Web!Pending]]
        /\ remembered = << >>
    BY DEF Web!SearchInit
  <1>2. Web!Pending \in SearchAnswers
    BY NothingShowable DEF Web!Pending, SearchAnswers, SearchCodes
  <1>3. ASSUME NEW c \in Web!Calls
        PROVE  callers[c] \in SearchCallers /\ callers[c].operation = c
    BY <1>1, <1>2 DEF SearchCallers
  <1>4. ASSUME NEW o \in Web!Calls PROVE operations[o] \in SearchOperations /\ ~Web!Running(o)
    BY <1>1, <1>2, NothingShowable DEF SearchOperations, Web!Running
  <1>5. EntriesInv BY <1>1, <1>4 DEF EntriesInv
  <1> QED BY <1>1, <1>3, <1>4, <1>5 DEF SearchInv

\* A sequence without one of its elements.
RemovedAt(s, i) == SubSeq(s, 1, i - 1) \o SubSeq(s, i + 1, Len(s))

LEMMA RemovedAtProperties ==
    ASSUME NEW S, NEW s \in Seq(S), NEW k \in 1..Len(s)
    PROVE  /\ RemovedAt(s, k) \in Seq(S) /\ Len(RemovedAt(s, k)) = Len(s) - 1
           /\ \A i \in 1..(Len(s) - 1) : RemovedAt(s, k)[i] = IF i < k THEN s[i] ELSE s[i + 1]
  <1> DEFINE before == SubSeq(s, 1, k - 1)
             after == SubSeq(s, k + 1, Len(s))
  <1>1. Len(s) \in Nat /\ k \in Nat /\ 1 <= k /\ k <= Len(s) OBVIOUS
  <1>2. \A i \in 1..Len(s) : s[i] \in S OBVIOUS
  <1>3. /\ before \in Seq(S) /\ Len(before) = k - 1
        /\ \A i \in 1..(k - 1) : before[i] = s[i]
    <2>1. \A i \in 1..(k - 1) : s[i] \in S BY <1>1, <1>2
    <2>2. /\ before \in Seq(S) /\ Len(before) = IF 1 <= k - 1 THEN k - 1 - 1 + 1 ELSE 0
          /\ \A i \in 1..(k - 1 - 1 + 1) : before[i] = s[1 + i - 1]
      BY <1>1, <2>1, SubSeqProperties
    <2> HIDE DEF before
    <2>3. k - 1 - 1 + 1 = k - 1 BY <1>1
    <2>4. \A i \in 1..(k - 1) : 1 + i - 1 = i BY <1>1
    <2>5. Len(before) = k - 1 BY <1>1, <2>2, <2>3
    <2> QED BY <2>2, <2>3, <2>4, <2>5
  <1>4. /\ after \in Seq(S) /\ Len(after) = Len(s) - k
        /\ \A i \in 1..(Len(s) - k) : after[i] = s[k + i]
    <2>1. \A i \in (k + 1)..Len(s) : s[i] \in S BY <1>1, <1>2
    <2>2. /\ after \in Seq(S)
          /\ Len(after) = IF k + 1 <= Len(s) THEN Len(s) - (k + 1) + 1 ELSE 0
          /\ \A i \in 1..(Len(s) - (k + 1) + 1) : after[i] = s[(k + 1) + i - 1]
      BY <1>1, <2>1, SubSeqProperties
    <2> HIDE DEF after
    <2>3. Len(s) - (k + 1) + 1 = Len(s) - k BY <1>1
    <2>4. Len(after) = Len(s) - k
      <3>1. CASE k + 1 <= Len(s) BY <3>1, <2>2, <2>3
      <3>2. CASE ~(k + 1 <= Len(s))
        <4>1. Len(s) - k = 0 BY <3>2, <1>1
        <4> QED BY <3>2, <4>1, <2>2
      <3> QED BY <3>1, <3>2
    <2>5. ASSUME NEW i \in 1..(Len(s) - k) PROVE after[i] = s[k + i]
      <3>1. i \in 1..(Len(s) - (k + 1) + 1) BY <2>3
      <3>2. after[i] = s[(k + 1) + i - 1] BY <2>2, <3>1
      <3>3. (k + 1) + i - 1 = k + i BY <1>1
      <3> QED BY <3>2, <3>3
    <2> QED BY <2>2, <2>4, <2>5
  <1> HIDE DEF before, after
  <1>5. before \o after \in Seq(S) /\ Len(before \o after) = Len(s) - 1
    <2>1. before \o after \in Seq(S) /\ Len(before \o after) = Len(before) + Len(after)
      BY <1>3, <1>4, ConcatProperties
    <2> QED BY <2>1, <1>1, <1>3, <1>4
  <1>6. ASSUME NEW i \in 1..(Len(s) - 1)
        PROVE  (before \o after)[i] = IF i < k THEN s[i] ELSE s[i + 1]
    <2>1. CASE i < k
      <3>1. i \in 1..Len(before) BY <2>1, <1>1, <1>3
      <3>2. (before \o after)[i] = before[i] BY <3>1, <1>1, <1>3, <1>4
      <3> QED BY <2>1, <3>1, <3>2, <1>1, <1>3
    <2>2. CASE ~(i < k)
      <3>1. i - (k - 1) \in 1..(Len(s) - k) BY <2>2, <1>1
      <3>2. (before \o after)[i] = after[i - (k - 1)] BY <2>2, <3>1, <1>1, <1>3, <1>4
      <3>3. after[i - (k - 1)] = s[k + (i - (k - 1))] BY <3>1, <1>4
      <3>4. k + (i - (k - 1)) = i + 1 BY <1>1
      <3> QED BY <2>2, <3>2, <3>3, <3>4
    <2> QED BY <2>1, <2>2
  <1>7. RemovedAt(s, k) = before \o after BY DEF RemovedAt, before, after
  <1> QED BY <1>5, <1>6, <1>7

\* #makeRoom keeps the searches that run and adds nothing.
LEMMA RoomKeeps ==
    ASSUME EntriesInv
    PROVE  /\ Web!MakeRoom \in Seq(SearchEntries)
           /\ \A i \in DOMAIN Web!MakeRoom :
                 \E j \in DOMAIN remembered : Web!MakeRoom[i] = remembered[j]
           /\ \A j \in DOMAIN remembered :
                 Web!Running(remembered[j].operation) =>
                    \E i \in DOMAIN Web!MakeRoom : Web!MakeRoom[i] = remembered[j]
  <1> DEFINE settled == {i \in DOMAIN remembered : Web!Settled(remembered[i])}
             oldest == {i \in settled : \A j \in settled : i <= j}
             k == CHOOSE o \in oldest : TRUE
  <1>1. CASE Web!MakeRoom = remembered
    BY <1>1 DEF EntriesInv
  <1>2. CASE Web!MakeRoom # remembered
    <2>1. oldest # {} /\ Web!MakeRoom =
             SubSeq(remembered, 1, k - 1) \o SubSeq(remembered, k + 1, Len(remembered))
      BY <1>2 DEF Web!MakeRoom
    <2>2. k \in oldest BY <2>1
    <2>3. k \in DOMAIN remembered /\ Web!Settled(remembered[k]) BY <2>2
    <2>4. remembered \in Seq(SearchEntries) /\ DOMAIN remembered = 1..Len(remembered) /\ Len(remembered) \in Nat
      BY DEF EntriesInv
    <2> HIDE DEF k
    <2>5. k \in 1..Len(remembered) BY <2>3, <2>4
    <2>8. /\ Web!MakeRoom \in Seq(SearchEntries)
          /\ \A i \in 1..(Len(remembered) - 1) :
                Web!MakeRoom[i] = IF i < k THEN remembered[i] ELSE remembered[i + 1]
          /\ Len(Web!MakeRoom) = Len(remembered) - 1
      <3>1. Web!MakeRoom = RemovedAt(remembered, k) BY <2>1 DEF RemovedAt
      <3> QED BY <3>1, <2>4, <2>5, RemovedAtProperties
    <2>9. DOMAIN Web!MakeRoom = 1..(Len(remembered) - 1) BY <2>8
    <2>10. ASSUME NEW i \in DOMAIN Web!MakeRoom
           PROVE  \E j \in DOMAIN remembered : Web!MakeRoom[i] = remembered[j]
      <3>1. i \in 1..(Len(remembered) - 1) BY <2>9
      <3>2. CASE i < k BY <3>1, <3>2, <2>4, <2>5, <2>8
      <3>3. CASE ~(i < k)
        <4>1. i + 1 \in DOMAIN remembered BY <3>1, <2>4, <2>5
        <4> QED BY <3>1, <3>3, <4>1, <2>8
      <3> QED BY <3>2, <3>3
    <2>11. ASSUME NEW j \in DOMAIN remembered, Web!Running(remembered[j].operation)
           PROVE  \E i \in DOMAIN Web!MakeRoom : Web!MakeRoom[i] = remembered[j]
      <3>1. j # k BY <2>3, <2>11 DEF Web!Settled
      <3>2. CASE j < k
        <4>1. j \in DOMAIN Web!MakeRoom BY <3>2, <2>4, <2>5, <2>9
        <4> QED BY <3>2, <4>1, <2>4, <2>8, <2>9
      <3>3. CASE j > k
        <4>1. j - 1 \in DOMAIN Web!MakeRoom /\ ~(j - 1 < k) /\ j - 1 + 1 = j
          BY <3>3, <2>4, <2>5, <2>9
        <4> QED BY <4>1, <2>8, <2>9
      <3> QED BY <3>1, <3>2, <3>3, <2>4, <2>5
    <2> QED BY <2>8, <2>10, <2>11
  <1> QED BY <1>1, <1>2

\* A step that leaves the entries and what runs alone.
LEMMA EntriesStay ==
    ASSUME EntriesInv, UNCHANGED <<requests, remembered>>,
           \A o \in Web!Calls : Web!Running(o)' => Web!Running(o)
    PROVE  EntriesInv'
  <1>1. Web!Calls' = Web!Calls BY DEF Web!Calls
  <1>2. SearchEntries' = SearchEntries BY <1>1 DEF SearchEntries
  <1>3. \A e : EntrySound(e)' <=> EntrySound(e) BY <1>1 DEF EntrySound
  <1>4. \A i \in DOMAIN remembered' : EntrySound(remembered[i])' BY <1>1 DEF EntriesInv, EntrySound
  <1> QED BY <1>1, <1>2, <1>4 DEF EntriesInv

\* Steps of a caller that leave the searches alone, and steps of a search.
LEMMA CallerChanged ==
    ASSUME SearchInv, NEW c \in Web!Calls, NEW r \in SearchCallers,
           Web!Fingerprint(requests[r.operation]) = Web!Fingerprint(requests[c]),
           callers' = [callers EXCEPT ![c] = r], UNCHANGED requests
    PROVE  /\ callers' \in [Web!Calls' -> SearchCallers']
           /\ \A d \in Web!Calls' : Web!Fingerprint(requests'[callers'[d].operation]) = Web!Fingerprint(requests'[d])
  <1>1. Web!Calls' = Web!Calls BY DEF Web!Calls
  <1>2. SearchCallers' = SearchCallers BY <1>1 DEF SearchCallers
  <1> QED BY <1>1, <1>2 DEF SearchInv

LEMMA CallersStay ==
    ASSUME SearchInv, UNCHANGED <<requests, callers>>
    PROVE  /\ callers' \in [Web!Calls' -> SearchCallers']
           /\ \A d \in Web!Calls' : Web!Fingerprint(requests'[callers'[d].operation]) = Web!Fingerprint(requests'[d])
  <1>1. Web!Calls' = Web!Calls BY DEF Web!Calls
  <1>2. SearchCallers' = SearchCallers BY <1>1 DEF SearchCallers
  <1> QED BY <1>1, <1>2 DEF SearchInv

LEMMA CallerStep ==
    ASSUME SearchInv, NEW c \in Web!Calls, NEW r \in SearchCallers,
           Web!Fingerprint(requests[r.operation]) = Web!Fingerprint(requests[c]),
           callers' = [callers EXCEPT ![c] = r], UNCHANGED <<requests, remembered, operations>>
    PROVE  SearchInv'
  <1>1. \A o \in Web!Calls : Web!Running(o)' => Web!Running(o) BY DEF Web!Running
  <1>2. EntriesInv' BY <1>1, EntriesStay DEF SearchInv
  <1>3. operations' \in [Web!Calls' -> SearchOperations] BY DEF SearchInv, Web!Calls
  <1> QED BY <1>2, <1>3, CallerChanged DEF SearchInv

LEMMA OperationStep ==
    ASSUME SearchInv, NEW o \in Web!Calls, Web!Running(o), NEW r \in SearchOperations,
           operations' = [operations EXCEPT ![o] = r], UNCHANGED <<requests, remembered, callers>>
    PROVE  SearchInv'
  <1>0. \A d \in Web!Calls : d # o => operations'[d] = operations[d] BY DEF SearchInv
  <1>1. \A d \in Web!Calls : Web!Running(d)' => Web!Running(d) BY <1>0 DEF Web!Running
  <1>2. EntriesInv' BY <1>1, EntriesStay DEF SearchInv
  <1>3. operations' \in [Web!Calls' -> SearchOperations] BY DEF SearchInv, Web!Calls
  <1> QED BY <1>2, <1>3, CallersStay DEF SearchInv

\* An answer, whatever it says.
LEMMA AnswerStep ==
    ASSUME SearchInv, NEW c \in Web!Calls, NEW a \in SearchAnswers, Web!Answer(c, a),
           UNCHANGED <<requests, remembered, operations>>
    PROVE  SearchInv'
  <1> DEFINE r == [callers[c] EXCEPT !.phase = "done", !.answer = a]
  <1>1. callers[c] \in SearchCallers BY DEF SearchInv
  <1>2. r \in SearchCallers BY <1>1 DEF SearchCallers
  <1>3. r.operation = callers[c].operation BY <1>1 DEF SearchCallers
  <1>4. callers' = [callers EXCEPT ![c] = r] BY DEF Web!Answer, SearchInv
  <1> HIDE DEF r
  <1> QED BY <1>2, <1>3, <1>4, CallerStep DEF SearchInv

\* A call: refused at once, or on to its fingerprint.
LEMMA SearchStep ==
    ASSUME SearchInv, NEW c \in Web!Calls, Web!Search(c)
    PROVE  SearchInv'
  <1>1. CASE callers' = [callers EXCEPT ![c].phase = "fingerprint"]
    <2> DEFINE r == [callers[c] EXCEPT !.phase = "fingerprint"]
    <2>1. callers[c] \in SearchCallers BY DEF SearchInv
    <2>2. r \in SearchCallers /\ r.operation = callers[c].operation BY <2>1 DEF SearchCallers
    <2>3. callers' = [callers EXCEPT ![c] = r] BY <1>1 DEF SearchInv
    <2> HIDE DEF r
    <2> QED BY <2>2, <2>3, CallerStep DEF SearchInv, Web!Search
  <1>2. CASE Web!Admission(c) # "admitted" /\ Web!Answer(c, Web!Failure(Web!Admission(c)))
    <2>1. Web!Admission(c) \in SearchCodes BY <1>2 DEF Web!Admission, SearchCodes
    <2> QED BY <1>2, <2>1, FailureAnswers, AnswerStep DEF Web!Search
  <1> QED BY <1>1, <1>2 DEF Web!Search

\* Who joins a search joins one of its own query.
LEMMA JoinStep ==
    ASSUME SearchInv, NEW c \in Web!Calls, NEW o \in Web!Calls,
           Web!Fingerprint(requests[o]) = Web!Fingerprint(requests[c]),
           callers' = [callers EXCEPT ![c].phase = "joined", ![c].operation = o],
           UNCHANGED requests
    PROVE  /\ callers' \in [Web!Calls' -> SearchCallers']
           /\ \A d \in Web!Calls' : Web!Fingerprint(requests'[callers'[d].operation]) = Web!Fingerprint(requests'[d])
  <1> DEFINE r == [callers[c] EXCEPT !.phase = "joined", !.operation = o]
  <1>1. callers[c] \in SearchCallers BY DEF SearchInv
  <1>2. r \in SearchCallers /\ r.operation = o BY <1>1 DEF SearchCallers
  <1>3. callers' = [callers EXCEPT ![c] = r] BY DEF SearchInv
  <1> HIDE DEF r
  <1> QED BY <1>2, <1>3, CallerChanged

\* A new search finds no entry of its key, so none of its key runs; the room
\* that was made for it has cost no search that runs its entry.
LEMMA ExecuteEntries ==
    ASSUME SearchInv, NEW c \in Web!Calls, Web!Keyed(requests[c].key) = {},
           remembered' = Append(Web!MakeRoom, [key |-> requests[c].key, operation |-> c,
                                               print |-> Web!Fingerprint(requests[c])]),
           \A d \in Web!Calls : d # c => (Web!Running(d)' => Web!Running(d)), UNCHANGED requests
    PROVE  EntriesInv'
  <1> DEFINE room == Web!MakeRoom
             e == [key |-> requests[c].key, operation |-> c, print |-> Web!Fingerprint(requests[c])]
  <1>1. EntriesInv BY DEF SearchInv
  <1>2. /\ room \in Seq(SearchEntries)
        /\ \A i \in DOMAIN room : \E j \in DOMAIN remembered : room[i] = remembered[j]
        /\ \A j \in DOMAIN remembered : Web!Running(remembered[j].operation) =>
              \E i \in DOMAIN room : room[i] = remembered[j]
    BY <1>1, RoomKeeps
  <1>3. e \in SearchEntries /\ EntrySound(e) BY DEF SearchEntries, EntrySound
  <1> HIDE DEF room
  <1>4. /\ Append(room, e) \in Seq(SearchEntries) /\ Len(Append(room, e)) = Len(room) + 1
        /\ \A i \in 1..Len(room) : Append(room, e)[i] = room[i]
        /\ Append(room, e)[Len(room) + 1] = e
    BY <1>2, <1>3, AppendProperties
  <1>5. remembered' = Append(room, e) BY DEF room
  <1>6. e.operation = c BY DEF e
  <1> HIDE DEF e
  <1>7. DOMAIN room = 1..Len(room) /\ Len(room) \in Nat BY <1>2
  <1>8. DOMAIN remembered' = 1..(Len(room) + 1) BY <1>4, <1>5
  <1>9. Web!Calls' = Web!Calls BY DEF Web!Calls
  <1>10. SearchEntries' = SearchEntries BY <1>9 DEF SearchEntries
  <1>11. ASSUME NEW i \in DOMAIN remembered' PROVE EntrySound(remembered'[i])
    <2>1. CASE i \in DOMAIN room BY <2>1, <1>1, <1>2, <1>4, <1>5, <1>7 DEF EntriesInv
    <2>2. CASE i = Len(room) + 1 BY <2>2, <1>3, <1>4, <1>5
    <2> QED BY <2>1, <2>2, <1>7, <1>8
  <1>12. ASSUME NEW o \in Web!Calls, Web!Running(o)'
         PROVE  \E i \in DOMAIN remembered' : remembered'[i].operation = o
    <2>1. CASE o = c BY <2>1, <1>4, <1>5, <1>6, <1>7, <1>8
    <2>2. CASE o # c
      <3>1. Web!Running(o) BY <2>2, <1>12
      <3>2. PICK j \in DOMAIN remembered : remembered[j].operation = o BY <3>1, <1>1 DEF EntriesInv
      <3>3. PICK i \in DOMAIN room : room[i] = remembered[j] BY <3>1, <3>2, <1>2
      <3> QED BY <3>2, <3>3, <1>4, <1>5, <1>7, <1>8
    <2> QED BY <2>1, <2>2
  <1>13. ASSUME NEW o \in Web!Calls, Web!Running(o), requests[o].key = requests[c].key PROVE FALSE
    <2>1. PICK j \in DOMAIN remembered : remembered[j].operation = o BY <1>13, <1>1 DEF EntriesInv
    <2>2. remembered[j].key = requests[c].key BY <2>1, <1>1, <1>13 DEF EntriesInv, EntrySound
    <2> QED BY <2>2 DEF Web!Keyed
  <1>14. ASSUME NEW o \in Web!Calls, NEW p \in Web!Calls, Web!Running(o)', Web!Running(p)',
                requests[o].key = requests[p].key
         PROVE  o = p
    BY <1>1, <1>13, <1>14 DEF EntriesInv
  <1>15. \A i \in DOMAIN remembered' : EntrySound(remembered[i])' BY <1>9, <1>11 DEF EntrySound
  <1> QED BY <1>4, <1>5, <1>9, <1>10, <1>12, <1>14, <1>15 DEF EntriesInv

LEMMA LookUpStep ==
    ASSUME SearchInv, NEW c \in Web!Calls, Web!LookUp(c)
    PROVE  SearchInv'
  <1>0. UNCHANGED requests BY DEF Web!LookUp
  <1>1. ASSUME NEW i \in Web!Keyed(requests[c].key), remembered[i].print = Web!Fingerprint(requests[c]),
               callers' = [callers EXCEPT ![c].phase = "joined",
                                          ![c].operation = remembered[i].operation],
               UNCHANGED <<remembered, operations>>
        PROVE  SearchInv'
    <2>1. EntrySound(remembered[i]) BY DEF SearchInv, EntriesInv, Web!Keyed
    <2> DEFINE o == remembered[i].operation
    <2>2. o \in Web!Calls /\ Web!Fingerprint(requests[o]) = Web!Fingerprint(requests[c]) BY <1>1, <2>1 DEF EntrySound
    <2>3. callers' = [callers EXCEPT ![c].phase = "joined", ![c].operation = o] BY <1>1
    <2> HIDE DEF o
    <2>4. \A d \in Web!Calls : Web!Running(d)' => Web!Running(d) BY <1>1 DEF Web!Running
    <2>5. EntriesInv' BY <1>0, <1>1, <2>4, EntriesStay DEF SearchInv
    <2>6. operations' \in [Web!Calls' -> SearchOperations] BY <1>0, <1>1 DEF SearchInv, Web!Calls
    <2> QED BY <1>0, <2>2, <2>3, <2>5, <2>6, JoinStep DEF SearchInv
  <1>2. ASSUME NEW code \in SearchCodes, Web!Answer(c, Web!Failure(code)), UNCHANGED <<remembered, operations>>
        PROVE  SearchInv'
    BY <1>0, <1>2, FailureAnswers, AnswerStep
  <1>3. ASSUME Web!Keyed(requests[c].key) = {},
               remembered' = Append(Web!MakeRoom, [key |-> requests[c].key, operation |-> c,
                                                   print |-> Web!Fingerprint(requests[c])]),
               operations' = [operations EXCEPT ![c].phase = "authorizing"],
               callers' = [callers EXCEPT ![c].phase = "joined", ![c].operation = c]
        PROVE  SearchInv'
    <2> DEFINE r == [operations[c] EXCEPT !.phase = "authorizing"]
    <2>1. operations[c] \in SearchOperations BY DEF SearchInv
    <2>2. r \in SearchOperations BY <2>1 DEF SearchOperations
    <2>3. operations' = [operations EXCEPT ![c] = r] BY <1>3 DEF SearchInv
    <2> HIDE DEF r
    <2>4. \A d \in Web!Calls : d # c => operations'[d] = operations[d] BY <2>3 DEF SearchInv
    <2>5. operations' \in [Web!Calls' -> SearchOperations] BY <1>0, <2>2, <2>3 DEF SearchInv, Web!Calls
    <2>6. \A d \in Web!Calls : d # c => (Web!Running(d)' => Web!Running(d)) BY <2>4 DEF Web!Running
    <2>7. EntriesInv' BY <1>0, <1>3, <2>6, ExecuteEntries
    <2>8. /\ callers' \in [Web!Calls' -> SearchCallers']
          /\ \A d \in Web!Calls' : Web!Fingerprint(requests'[callers'[d].operation]) = Web!Fingerprint(requests'[d])
      BY <1>0, <1>3, JoinStep
    <2> QED BY <2>5, <2>7, <2>8 DEF SearchInv
  <1>4. "idempotency_conflict" \in SearchCodes /\ "capacity_exceeded" \in SearchCodes BY DEF SearchCodes
  <1> QED BY <1>1, <1>2, <1>3, <1>4 DEF Web!LookUp

\* A search that ends, whatever its answer.
LEMMA SearchSettleStep ==
    ASSUME SearchInv, NEW o \in Web!Calls, Web!Running(o), NEW a \in SearchAnswers,
           Web!SettlesWith(o, a), UNCHANGED <<requests, remembered, callers>>
    PROVE  SearchInv'
  <1> DEFINE r == [operations[o] EXCEPT !.phase = "settled", !.answer = a]
  <1>1. operations[o] \in SearchOperations BY DEF SearchInv
  <1>2. r \in SearchOperations BY <1>1 DEF SearchOperations
  <1>3. operations' = [operations EXCEPT ![o] = r] BY DEF Web!SettlesWith, SearchInv
  <1> HIDE DEF r
  <1> QED BY <1>2, <1>3, OperationStep

LEMMA SearchAuthorizeStep ==
    ASSUME SearchInv, NEW o \in Web!Calls, Web!Authorize(o)
    PROVE  SearchInv'
  <1>1. Web!Running(o) BY DEF Web!Authorize, Web!Running
  <1>2. CASE operations' = [operations EXCEPT ![o].phase = "searching"]
    <2> DEFINE r == [operations[o] EXCEPT !.phase = "searching"]
    <2>1. operations[o] \in SearchOperations BY DEF SearchInv
    <2>2. r \in SearchOperations BY <2>1 DEF SearchOperations
    <2>3. operations' = [operations EXCEPT ![o] = r] BY <1>2 DEF SearchInv
    <2> HIDE DEF r
    <2> QED BY <1>1, <2>2, <2>3, OperationStep DEF Web!Authorize
  <1>3. ASSUME NEW code \in {"authorization_unavailable", "authorization_denied"},
               Web!SettlesWith(o, Web!Failure(code))
        PROVE  SearchInv'
    <2>1. code \in SearchCodes BY DEF SearchCodes
    <2> QED BY <1>1, <1>3, <2>1, FailureAnswers, SearchSettleStep DEF Web!Authorize
  <1> QED BY <1>2, <1>3 DEF Web!Authorize

LEMMA AdapterStep ==
    ASSUME SearchInv, AdapterReturns, NEW o \in Web!Calls, Web!AdapterSearches(o)
    PROVE  SearchInv'
  <1>1. Web!Running(o) BY DEF Web!AdapterSearches, Web!Running
  <1>2. ASSUME NEW output \in Outputs, Web!Normalizes(output),
               operations' = [operations EXCEPT ![o].phase = "checking", ![o].candidates = output]
        PROVE  SearchInv'
    <2> DEFINE r == [operations[o] EXCEPT !.phase = "checking", !.candidates = output]
    <2>1. operations[o] \in SearchOperations BY DEF SearchInv
    <2>2. output \in Checkable BY <1>2 DEF AdapterReturns, Checkable, Web!Normalizes, Web!Public
    <2>3. r \in SearchOperations BY <2>1, <2>2 DEF SearchOperations
    <2>4. operations' = [operations EXCEPT ![o] = r] BY <1>2 DEF SearchInv
    <2> HIDE DEF r
    <2> QED BY <1>1, <2>3, <2>4, OperationStep DEF Web!AdapterSearches
  <1>3. ASSUME NEW code \in {"invalid_response", "adapter_unavailable"},
               Web!SettlesWith(o, Web!Failure(code))
        PROVE  SearchInv'
    <2>1. code \in SearchCodes BY DEF SearchCodes
    <2> QED BY <1>1, <1>3, <2>1, FailureAnswers, SearchSettleStep DEF Web!AdapterSearches
  <1> QED BY <1>2, <1>3 DEF Web!AdapterSearches

\* A candidate that is retained has a URL none of the results has.
LEMMA RetainedShowable ==
    ASSUME NEW results \in Showable, NEW candidate \in Candidates, NEW max,
           candidate.verdict = "accepted", candidate.public, Web!Retains(results, candidate, max)
    PROVE  Append(results, candidate) \in Showable
  <1> DEFINE more == Append(results, candidate)
  <1>1. results \in Seq(Candidates) /\ Len(results) \in Nat /\ DOMAIN results = 1..Len(results)
    BY DEF Showable
  <1>2. /\ more \in Seq(Candidates) /\ Len(more) = Len(results) + 1
        /\ \A i \in 1..Len(results) : more[i] = results[i]
        /\ more[Len(results) + 1] = candidate
    BY <1>1, AppendProperties
  <1> HIDE DEF more
  <1>3. DOMAIN more = 1..(Len(results) + 1) BY <1>2
  <1>4. \A i \in DOMAIN more : i \in DOMAIN results \/ i = Len(results) + 1 BY <1>1, <1>3
  <1>5. \A i \in DOMAIN results : more[i] = results[i] BY <1>1, <1>2
  <1>6. \A i \in DOMAIN more : more[i].verdict = "accepted" /\ more[i].public
    BY <1>2, <1>4, <1>5 DEF Showable
  <1>7. \A i \in DOMAIN results : results[i].url # candidate.url BY DEF Web!Retains
  <1>8. \A i, j \in DOMAIN more : more[i].url = more[j].url => i = j
    BY <1>2, <1>4, <1>5, <1>7 DEF Showable
  <1>9. more \in Showable BY <1>2, <1>6, <1>8 DEF Showable
  <1> QED BY <1>9 DEF more

LEMMA SearchCheckStep ==
    ASSUME SearchInv, NEW o \in Web!Calls, Web!CheckCandidate(o)
    PROVE  SearchInv'
  <1> DEFINE candidate == Head(operations[o].candidates)
             rest == Tail(operations[o].candidates)
             kept == IF Web!Retains(operations[o].results, candidate, requests[o].max)
                     THEN Append(operations[o].results, candidate) ELSE operations[o].results
  <1>1. Web!Running(o) BY DEF Web!CheckCandidate, Web!Running
  <1>2. operations[o] \in SearchOperations BY DEF SearchInv
  <1>3. /\ operations[o].candidates \in Checkable /\ operations[o].results \in Showable
        /\ operations[o].candidates # << >>
    BY <1>2 DEF SearchOperations, Web!CheckCandidate
  <1>4. candidate \in Candidates /\ candidate.public /\ rest \in Checkable
    <2>1. operations[o].candidates \in Seq(Candidates) /\ operations[o].candidates # << >>
      BY <1>3 DEF Checkable
    <2>2. candidate = operations[o].candidates[1] /\ 1 \in DOMAIN operations[o].candidates
      BY <2>1
    <2>3. candidate \in Candidates BY <2>1
    <2>4. rest \in Seq(Candidates) /\ \A i \in DOMAIN rest :
             rest[i] = operations[o].candidates[i + 1] /\ i + 1 \in DOMAIN operations[o].candidates
      BY <2>1
    <2> HIDE DEF candidate, rest
    <2> QED BY <1>3, <2>2, <2>3, <2>4 DEF Checkable
  <1>5. CASE candidate.verdict = "accepted"
    <2> DEFINE r == [operations[o] EXCEPT !.candidates = rest, !.results = kept]
    <2>1. operations' = [operations EXCEPT ![o] = r] BY <1>5 DEF SearchInv, Web!CheckCandidate
    <2>2. kept \in Showable BY <1>3, <1>4, <1>5, RetainedShowable
    <2> HIDE DEF kept, rest, candidate
    <2>3. r \in SearchOperations BY <1>2, <1>4, <2>2 DEF SearchOperations
    <2> HIDE DEF r
    <2> QED BY <1>1, <2>1, <2>3, OperationStep DEF Web!CheckCandidate
  <1>6. CASE candidate.verdict # "accepted"
    <2>1. candidate.verdict \in SearchCodes BY <1>4 DEF SearchCodes
    <2>2. Web!Failure(candidate.verdict) \in SearchAnswers BY <2>1, FailureAnswers
    <2>3. Web!SettlesWith(o, Web!Failure(candidate.verdict)) BY <1>6 DEF Web!CheckCandidate
    <2> QED BY <1>1, <2>2, <2>3, SearchSettleStep DEF Web!CheckCandidate
  <1> QED BY <1>5, <1>6

LEMMA SearchCompleteStep ==
    ASSUME SearchInv, NEW o \in Web!Calls, Web!Complete(o)
    PROVE  SearchInv'
  <1> DEFINE found == [code |-> "ok", results |-> operations[o].results]
  <1>1. Web!Running(o) BY DEF Web!Complete, Web!Running
  <1>2. operations[o] \in SearchOperations BY DEF SearchInv
  <1>3. "ok" \in SearchCodes /\ "invalid_response" \in SearchCodes BY DEF SearchCodes
  <1>4. found \in SearchAnswers BY <1>2, <1>3 DEF SearchOperations, SearchAnswers
  <1>5. Web!SettlesWith(o, found) \/ Web!SettlesWith(o, Web!Failure("invalid_response"))
    BY DEF Web!Complete
  <1> HIDE DEF found
  <1> QED BY <1>1, <1>3, <1>4, <1>5, FailureAnswers, SearchSettleStep DEF Web!Complete

LEMMA OvertakenStep ==
    ASSUME SearchInv, NEW o \in Web!Calls, Web!Overtaken(o)
    PROVE  SearchInv'
  <1>1. "cancelled" \in SearchCodes /\ "timeout" \in SearchCodes BY DEF SearchCodes
  <1> QED BY <1>1, FailureAnswers, SearchSettleStep DEF Web!Overtaken

LEMMA ReceiveStep ==
    ASSUME SearchInv, NEW c \in Web!Calls, Web!Receive(c)
    PROVE  SearchInv'
  <1> DEFINE a == operations[callers[c].operation].answer
  <1>1. callers[c].operation \in Web!Calls BY DEF SearchInv, SearchCallers
  <1>2. a \in SearchAnswers BY <1>1 DEF SearchInv, SearchOperations
  <1>3. Web!Answer(c, a) BY DEF Web!Receive
  <1> HIDE DEF a
  <1> QED BY <1>2, <1>3, AnswerStep DEF Web!Receive

LEMMA AbortStep ==
    ASSUME SearchInv, NEW c \in Web!Calls, Web!Abort(c)
    PROVE  SearchInv'
  <1> DEFINE r == [callers[c] EXCEPT !.aborted = TRUE]
  <1>1. callers[c] \in SearchCallers BY DEF SearchInv
  <1>2. r \in SearchCallers /\ r.operation = callers[c].operation BY <1>1 DEF SearchCallers
  <1>3. callers' = [callers EXCEPT ![c] = r] BY DEF SearchInv, Web!Abort
  <1> HIDE DEF r
  <1> QED BY <1>2, <1>3, CallerStep DEF SearchInv, Web!Abort

\* The clock, and stuttering.
LEMMA SearchStutters ==
    ASSUME SearchInv, UNCHANGED <<requests, callers, remembered, operations>>
    PROVE  SearchInv'
  <1>1. \A o \in Web!Calls : Web!Running(o)' => Web!Running(o) BY DEF Web!Running
  <1>2. EntriesInv' BY <1>1, EntriesStay DEF SearchInv
  <1>3. operations' \in [Web!Calls' -> SearchOperations] BY DEF SearchInv, Web!Calls
  <1> QED BY <1>2, <1>3, CallersStay DEF SearchInv

LEMMA SearchedOnce == SearchInv => Web!SearchedOncePerKey
  <1> SUFFICES ASSUME SearchInv PROVE Web!SearchedOncePerKey OBVIOUS
  <1>1. \A o, p \in Web!Calls :
           Web!Running(o) /\ Web!Running(p) /\ requests[o].key = requests[p].key => o = p
    BY DEF SearchInv, EntriesInv
  <1>2. ASSUME NEW c \in Web!Calls
        PROVE  /\ Web!Fingerprint(requests[callers[c].operation]) = Web!Fingerprint(requests[c])
               /\ callers[c].answer.results \in Showable
    BY DEF SearchInv, SearchCallers, SearchAnswers
  <1> QED BY <1>1, <1>2 DEF Web!SearchedOncePerKey, Showable

\* For any calls, adapter output, number of entries, results and timeout: no
\* two searches of one key run at the same time, however calls join, abort,
\* time out and push each other's entries out (#makeRoom drops only what is
\* settled), and a call that gets results gets those of its own query, each
\* public, accepted by the policies, and no URL twice (search, #executeOnce).
THEOREM SearchesRunOnce ==
    ASSUME AdapterReturns
    PROVE  SearchSpec => []SearchedOncePerKey
  <1>1. SearchInv /\ [Web!SearchNext]_Web!searchVars => SearchInv'
    <2> SUFFICES ASSUME SearchInv, [Web!SearchNext]_Web!searchVars PROVE SearchInv' OBVIOUS
    <2>1. ASSUME NEW c \in Web!Calls, Web!Search(c) \/ Web!LookUp(c) \/ Web!Receive(c) \/ Web!Abort(c)
          PROVE  SearchInv'
      BY <2>1, SearchStep, LookUpStep, ReceiveStep, AbortStep
    <2>2. ASSUME NEW o \in Web!Calls,
                 \/ Web!Authorize(o) \/ Web!AdapterSearches(o) \/ Web!CheckCandidate(o)
                 \/ Web!Complete(o) \/ Web!Overtaken(o)
          PROVE  SearchInv'
      BY <2>2, SearchAuthorizeStep, AdapterStep, SearchCheckStep, SearchCompleteStep, OvertakenStep
    <2>3. CASE Web!Tick BY <2>3, SearchStutters DEF Web!Tick
    <2>4. CASE UNCHANGED Web!searchVars BY <2>4, SearchStutters DEF Web!searchVars
    <2> QED BY <2>1, <2>2, <2>3, <2>4 DEF Web!SearchNext
  <1> QED BY <1>1, SearchStarts, SearchedOnce, PTL DEF SearchSpec, SearchedOncePerKey

------------------------------------------------
\* Provider context: the checkpoint that a turn starts from.

ContextSpec == Context!ContextInit /\ [][Context!ContextNext]_Context!contextVars

\* A preflight reads the conversation up to a revision.
PreflightPlans ==
    \A p \in ContextPlans :
        /\ p = [jobs |-> p.jobs, faults |-> p.faults, aborts |-> p.aborts]
        /\ \A j \in DOMAIN p.jobs : p.jobs[j].revision \in Int

JobFields == {"pc", "seen", "with", "made", "want", "tries", "attempts"}

\* What the job uses, or is about to use, fits the history it has read.
JobFits(r, j) ==
    /\ DOMAIN r = JobFields /\ r = [f \in JobFields |-> r[f]]
    /\ r.with = Context!NoCheckpoint \/ Context!Assess(r.with, j)
    /\ r.pc \in {"save", "reload"} => Context!Assess(r.made, j)

\* A compaction is of the position of the job that began it.
CompactionOf(e) ==
    /\ e.owner \in Context!Jobs
    /\ e.identity[1] = preflights.jobs[e.owner].scope
    /\ e.identity[2] = preflights.jobs[e.owner].revision
    /\ e.identity[3] = preflights.jobs[e.owner].event

\* At most one compaction of a key.
Compactions(es) ==
    /\ es \in Seq({es[i] : i \in DOMAIN es})
    /\ \A i \in DOMAIN es : CompactionOf(es[i])
    /\ \A i, k \in DOMAIN es : es[i].key = es[k].key => i = k

Awaits(j, e) ==
    /\ e.key = preflights.jobs[j].key /\ e.identity = Context!Identity(j)
    /\ ~Context!Settled(e)

\* Who waits for a compaction waits for one of its own position.
CompactionsInv ==
    /\ Compactions(compactions)
    /\ \A j \in Context!Jobs : job[j].pc = "compacting" =>
          \E i \in DOMAIN compactions : Awaits(j, compactions[i])

PlanShape ==
    preflights = [jobs |-> preflights.jobs, faults |-> preflights.faults, aborts |-> preflights.aborts]

ContextInv ==
    /\ PlanShape
    /\ \A j \in Context!Jobs : preflights.jobs[j].revision \in Int
    /\ DOMAIN job = Context!Jobs /\ job = [j \in Context!Jobs |-> job[j]]
    /\ \A j \in Context!Jobs : JobFits(job[j], j)
    /\ CompactionsInv

LEMMA ContextStarts ==
    ASSUME PreflightPlans
    PROVE  Context!ContextInit => ContextInv
  <1> SUFFICES ASSUME Context!ContextInit PROVE ContextInv OBVIOUS
  <1>1. preflights \in ContextPlans /\ job = [j \in Context!Jobs |-> Context!Idle] /\ compactions = << >>
    BY DEF Context!ContextInit
  <1>2. PlanShape /\ \A j \in Context!Jobs : preflights.jobs[j].revision \in Int
    BY <1>1 DEF PreflightPlans, Context!Jobs, PlanShape
  <1>3. /\ DOMAIN Context!Idle = JobFields /\ Context!Idle.pc = "load"
        /\ Context!Idle.with = Context!NoCheckpoint
    BY DEF Context!Idle, JobFields
  <1>4. Context!Idle = [f \in JobFields |-> Context!Idle[f]] BY DEF Context!Idle, JobFields
  <1>5. \A j \in Context!Jobs : JobFits(job[j], j) /\ job[j].pc # "compacting" BY <1>1, <1>3, <1>4 DEF JobFits
  <1>6. CompactionsInv BY <1>1, <1>5 DEF CompactionsInv, Compactions
  <1> QED BY <1>1, <1>2, <1>5, <1>6 DEF ContextInv

LEMMA FieldsSet ==
    ASSUME NEW r, DOMAIN r = JobFields, NEW fields
    PROVE  /\ DOMAIN Context!Onward(r, fields) = JobFields
           /\ Context!Onward(r, fields) = [f \in JobFields |-> Context!Onward(r, fields)[f]]
           /\ \A f \in JobFields : f \in DOMAIN fields => Context!Onward(r, fields)[f] = fields[f]
           /\ \A f \in JobFields : f \notin DOMAIN fields /\ f # "tries" => Context!Onward(r, fields)[f] = r[f]
  BY DEF Context!Onward

\* What a step makes of a plan: its jobs stay.
JobsKept == PlanShape' /\ preflights'.jobs = preflights.jobs

LEMMA PlanStays == ASSUME ContextInv, UNCHANGED preflights PROVE JobsKept
  BY DEF ContextInv, JobsKept, PlanShape

LEMMA FaultsSpent ==
    ASSUME ContextInv, NEW n, preflights' = [preflights EXCEPT !.faults = n]
    PROVE  JobsKept
  <1>1. PICK js, fs, as : preflights = [jobs |-> js, faults |-> fs, aborts |-> as]
    BY DEF ContextInv, PlanShape
  <1>2. preflights' = [jobs |-> js, faults |-> n, aborts |-> as] BY <1>1
  <1> QED BY <1>1, <1>2 DEF JobsKept, PlanShape

LEMMA FitsStill ==
    ASSUME JobsKept
    PROVE  /\ Context!Jobs' = Context!Jobs
           /\ \A r, j : JobFits(r, j)' <=> JobFits(r, j)
           /\ \A e : CompactionOf(e)' <=> CompactionOf(e)
  <1>1. Context!Jobs' = Context!Jobs BY DEF JobsKept, Context!Jobs
  <1>2. \A c, j : Context!Assess(c, j)' <=> Context!Assess(c, j) BY DEF JobsKept, Context!Assess
  <1>3. \A r, j : JobFits(r, j)' <=> JobFits(r, j) BY <1>2 DEF JobFits, Context!NoCheckpoint
  <1>4. \A e : CompactionOf(e)' <=> CompactionOf(e) BY <1>1 DEF CompactionOf, JobsKept
  <1> QED BY <1>1, <1>3, <1>4

LEMMA CompactionsKept == ASSUME JobsKept, NEW es PROVE Compactions(es) => Compactions(es)'
  <1>1. \A e : CompactionOf(e)' <=> CompactionOf(e) BY FitsStill
  <1> QED BY <1>1 DEF Compactions

LEMMA AwaitsStill ==
    ASSUME JobsKept, NEW j \in Context!Jobs, job'[j].with = job[j].with, NEW e, Awaits(j, e)
    PROVE  Awaits(j, e)'
  <1>1. Context!Identity(j)' = Context!Identity(j) BY DEF Context!Identity, JobsKept
  <1> QED BY <1>1 DEF Awaits, Context!Settled, JobsKept

LEMMA CompactionsFrom ==
    ASSUME ContextInv, JobsKept, NEW es, compactions' = es, Compactions(es),
           \A j \in Context!Jobs : job'[j].pc = "compacting" =>
              \E i \in DOMAIN es : \E e : e = es[i] /\ Awaits(j, e)'
    PROVE  CompactionsInv'
  <1>1. Compactions(es)' BY CompactionsKept
  <1>2. Context!Jobs' = Context!Jobs BY FitsStill
  <1>3. Compactions(compactions)' BY <1>1 DEF Compactions, CompactionOf
  <1>4. ASSUME NEW j \in Context!Jobs, job'[j].pc = "compacting"
        PROVE  \E i \in DOMAIN compactions' : Awaits(j, compactions[i])'
    BY <1>4 DEF Awaits, Context!Settled
  <1> QED BY <1>2, <1>3, <1>4 DEF CompactionsInv

\* Compactions that stay, while nobody new waits.
LEMMA CompactionsStay ==
    ASSUME ContextInv, JobsKept, UNCHANGED compactions,
           \A k \in Context!Jobs : job'[k].pc = "compacting" =>
              job[k].pc = "compacting" /\ job'[k].with = job[k].with
    PROVE  CompactionsInv'
  <1> DEFINE es == compactions'
  <1>2. Compactions(es) BY DEF ContextInv, CompactionsInv
  <1>3. ASSUME NEW j \in Context!Jobs, job'[j].pc = "compacting"
        PROVE  \E i \in DOMAIN es : \E e : e = es[i] /\ Awaits(j, e)'
    <2>1. PICK i \in DOMAIN compactions : Awaits(j, compactions[i]) BY <1>3 DEF ContextInv, CompactionsInv
    <2> QED BY <1>3, <2>1, AwaitsStill
  <1>4. compactions' = es OBVIOUS
  <1> HIDE DEF es
  <1> QED BY <1>2, <1>3, <1>4, CompactionsFrom

LEMMA ContextFrom ==
    ASSUME ContextInv, JobsKept, CompactionsInv',
           DOMAIN job' = Context!Jobs, job' = [k \in Context!Jobs |-> job'[k]],
           \A k \in Context!Jobs : JobFits(job'[k], k)
    PROVE  ContextInv'
  <1>1. Context!Jobs' = Context!Jobs BY FitsStill
  <1>2. \A k \in Context!Jobs' : JobFits(job[k], k)'
    <2> SUFFICES ASSUME NEW k \in Context!Jobs PROVE JobFits(job[k], k)' BY <1>1
    <2> DEFINE r == job'[k]
    <2>1. /\ DOMAIN r = JobFields /\ r = [f \in JobFields |-> r[f]]
          /\ r.with = Context!NoCheckpoint \/ Context!Assess(r.with, k)
          /\ r.pc \in {"save", "reload"} => Context!Assess(r.made, k)
      BY DEF JobFits
    <2>3. Context!Assess(job[k].with, k)' \/ r.with = Context!NoCheckpoint
      BY <2>1 DEF Context!Assess, JobsKept
    <2>4. r.pc \in {"save", "reload"} => Context!Assess(job[k].made, k)'
      BY <2>1 DEF Context!Assess, JobsKept
    <2> QED BY <2>1, <2>3, <2>4 DEF JobFits, Context!NoCheckpoint
  <1> QED BY <1>1, <1>2 DEF ContextInv, JobsKept

LEMMA JobStep ==
    ASSUME ContextInv, JobsKept, NEW j \in Context!Jobs, NEW r, JobFits(r, j), r.pc # "compacting",
           job' = [job EXCEPT ![j] = r], UNCHANGED compactions
    PROVE  ContextInv'
  <1>1. /\ DOMAIN job' = Context!Jobs /\ job' = [k \in Context!Jobs |-> job'[k]]
        /\ job'[j] = r /\ \A k \in Context!Jobs : k # j => job'[k] = job[k]
    BY DEF ContextInv
  <1>2. \A k \in Context!Jobs : JobFits(job'[k], k) BY <1>1 DEF ContextInv
  <1>3. CompactionsInv' BY <1>1, CompactionsStay
  <1> QED BY <1>1, <1>2, <1>3, ContextFrom

\* The fields that a step may set.
MaySet(j, fields) ==
    /\ "pc" \in DOMAIN fields /\ fields["pc"] # "compacting"
    /\ "with" \in DOMAIN fields =>
          fields["with"] = Context!NoCheckpoint \/ Context!Assess(fields["with"], j)
    /\ fields["pc"] \in {"save", "reload"} =>
          IF "made" \in DOMAIN fields THEN Context!Assess(fields["made"], j)
          ELSE job[j].pc \in {"save", "reload"}

LEMMA OnwardFits ==
    ASSUME ContextInv, NEW j \in Context!Jobs, NEW fields, MaySet(j, fields)
    PROVE  /\ JobFits(Context!Onward(job[j], fields), j)
           /\ Context!Onward(job[j], fields).pc # "compacting"
  <1> DEFINE r == Context!Onward(job[j], fields)
  <1>1. JobFits(job[j], j) BY DEF ContextInv
  <1>2. /\ DOMAIN r = JobFields /\ r = [f \in JobFields |-> r[f]]
        /\ \A f \in JobFields : f \in DOMAIN fields => r[f] = fields[f]
        /\ \A f \in JobFields : f \notin DOMAIN fields /\ f # "tries" => r[f] = job[j][f]
    BY <1>1, FieldsSet DEF JobFits
  <1> HIDE DEF r
  <1>3. r["pc"] = fields["pc"] BY <1>2 DEF MaySet, JobFields
  <1>4. r["with"] = Context!NoCheckpoint \/ Context!Assess(r["with"], j)
    BY <1>1, <1>2 DEF MaySet, JobFields, JobFits
  <1>5. r["pc"] \in {"save", "reload"} => Context!Assess(r["made"], j)
    BY <1>1, <1>2, <1>3 DEF MaySet, JobFields, JobFits
  <1>6. JobFits(r, j) /\ r.pc # "compacting" BY <1>2, <1>3, <1>4, <1>5 DEF JobFits, MaySet
  <1> QED BY <1>6 DEF r

LEMMA GoStep ==
    ASSUME ContextInv, JobsKept, NEW j \in Context!Jobs, NEW fields, MaySet(j, fields),
           Context!Go(j, fields), UNCHANGED compactions
    PROVE  ContextInv'
  <1>1. job' = [job EXCEPT ![j] = Context!Onward(job[j], fields)] BY DEF Context!Go, ContextInv
  <1> QED BY <1>1, OnwardFits, JobStep

LEMMA PreflightRetried ==
    ASSUME ContextInv, JobsKept, NEW j \in Context!Jobs, NEW fields, MaySet(j, fields),
           job[j].pc # "compacting", Context!Retry(j, fields), UNCHANGED compactions
    PROVE  ContextInv'
  <1>1. CASE job' = [job EXCEPT ![j].tries = @ + 1]
    <2> DEFINE r == [job[j] EXCEPT !.tries = @ + 1]
    <2>1. job' = [job EXCEPT ![j] = r] BY <1>1 DEF ContextInv
    <2>2. JobFits(job[j], j) BY DEF ContextInv
    <2>3. /\ DOMAIN r = JobFields /\ r = [f \in JobFields |-> r[f]]
          /\ r.pc = job[j].pc /\ r.with = job[j].with /\ r.made = job[j].made
      BY <2>2 DEF JobFits, JobFields
    <2> HIDE DEF r
    <2>4. JobFits(r, j) BY <2>2, <2>3 DEF JobFits
    <2> QED BY <2>1, <2>3, <2>4, JobStep
  <1>2. CASE Context!Go(j, fields) BY <1>2, GoStep
  <1> QED BY <1>1, <1>2 DEF Context!Retry

\* The fields that the steps set.
LEMMA PlainFields ==
    ASSUME NEW j, NEW p, p \notin {"save", "reload", "compacting"}
    PROVE  /\ MaySet(j, [pc |-> p]) /\ MaySet(j, Context!Plain)
           /\ \A w : MaySet(j, [pc |-> p, want |-> w])
  <1>1. MaySet(j, [pc |-> p]) BY DEF MaySet
  <1>2. MaySet(j, Context!Plain) BY DEF MaySet, Context!Plain
  <1>3. ASSUME NEW w PROVE MaySet(j, [pc |-> p, want |-> w]) BY DEF MaySet
  <1> QED BY <1>1, <1>2, <1>3

LEMMA MadeFields ==
    ASSUME ContextInv, NEW j \in Context!Jobs, job[j].pc \in {"save", "reload"}
    PROVE  /\ MaySet(j, Context!UseMade(j)) /\ MaySet(j, [pc |-> "reload"])
           /\ \A w : MaySet(j, Context!NextRound(j, "save", w))
  <1>1. Context!Assess(job[j].made, j) BY DEF ContextInv, JobFits
  <1>2. MaySet(j, Context!UseMade(j)) BY <1>1 DEF MaySet, Context!UseMade
  <1>3. MaySet(j, [pc |-> "reload"]) BY DEF MaySet
  <1>4. ASSUME NEW w, NEW n PROVE MaySet(j, [pc |-> "save", want |-> w, attempts |-> n])
    BY DEF MaySet
  <1> QED BY <1>2, <1>3, <1>4 DEF Context!NextRound

\* A compaction of the same position makes a checkpoint that fits.
LEMMA CompactedFields ==
    ASSUME ContextInv, NEW j \in Context!Jobs, NEW e, CompactionOf(e), e.identity = Context!Identity(j),
           NEW result
    PROVE  MaySet(j, Context!Compacted(j, result, e.owner))
  <1>1. e.owner \in Context!Jobs BY DEF CompactionOf
  <1>2. /\ preflights.jobs[e.owner].scope = preflights.jobs[j].scope
        /\ preflights.jobs[e.owner].revision = preflights.jobs[j].revision
        /\ preflights.jobs[e.owner].event = preflights.jobs[j].event
    BY DEF CompactionOf, Context!Identity
  <1>3. preflights.jobs[j].revision \in Int BY DEF ContextInv
  <1>4. Context!Assess(Context!Checkpoint(e.owner), j)
    BY <1>2, <1>3 DEF Context!Assess, Context!Checkpoint
  <1>5. ASSUME NEW m, NEW w, Context!Assess(m, j)
        PROVE  MaySet(j, [pc |-> "save", made |-> m, want |-> w, attempts |-> 1])
    BY <1>5 DEF MaySet
  <1>6. \A w : MaySet(j, [pc |-> "reject", want |-> w]) BY PlainFields
  <1>7. MaySet(j, [pc |-> "sent"]) /\ MaySet(j, [pc |-> "cancelled"]) /\ MaySet(j, Context!Plain)
    BY PlainFields
  <1>8. CASE result = "compacted" BY <1>4, <1>5, <1>8 DEF Context!Compacted
  <1>9. CASE result # "compacted"
    <2>1. CASE result = "unchanged" BY <2>1, <1>7 DEF Context!Compacted
    <2>2. CASE result = "dropped" BY <2>2, <1>7 DEF Context!Compacted
    <2>3. CASE result = "invalidated" BY <2>3, <1>6, <1>7 DEF Context!Compacted
    <2>4. CASE result = "cancelled" BY <2>4, <1>7 DEF Context!Compacted
    <2>5. CASE result \notin {"unchanged", "dropped", "invalidated", "cancelled"}
      BY <1>9, <2>5, <1>7 DEF Context!Compacted
    <2> QED BY <2>1, <2>2, <2>3, <2>4, <2>5
  <1> QED BY <1>8, <1>9

LEMMA LoadSteps ==
    ASSUME ContextInv, NEW j \in Context!Jobs, Context!LoadCheckpoint(j) \/ Context!LoadFails(j)
    PROVE  ContextInv'
  <1>1. CASE Context!LoadCheckpoint(j)
    <2> DEFINE record == Context!Loaded(preflights.jobs[j].scope)
    <2>1. JobsKept /\ UNCHANGED compactions BY <1>1, PlanStays DEF Context!LoadCheckpoint, Context!KeepRest
    <2>2. \/ Context!Go(j, [pc |-> "measure"])
          \/ /\ Context!Assess(record.checkpoint, j)
             /\ Context!Go(j, [pc |-> "measure", seen |-> record, with |-> record.checkpoint])
          \/ Context!Go(j, [pc |-> "invalidate", want |-> record.version])
      BY <1>1 DEF Context!LoadCheckpoint
    <2> HIDE DEF record
    <2>3. Context!Assess(record.checkpoint, j) =>
             MaySet(j, [pc |-> "measure", seen |-> record, with |-> record.checkpoint])
      BY DEF MaySet
    <2>4. MaySet(j, [pc |-> "measure"]) /\ \A w : MaySet(j, [pc |-> "invalidate", want |-> w])
      BY PlainFields
    <2> QED BY <2>1, <2>2, <2>3, <2>4, GoStep
  <1>2. CASE Context!LoadFails(j)
    <2>1. JobsKept BY <1>2, FaultsSpent DEF Context!LoadFails, Context!Faults
    <2>2. job[j].pc # "compacting" BY <1>2 DEF Context!LoadFails, Context!May
    <2>3. MaySet(j, [pc |-> "measure"]) BY PlainFields
    <2> QED BY <1>2, <2>1, <2>2, <2>3, PreflightRetried DEF Context!LoadFails, Context!KeepRest
  <1> QED BY <1>1, <1>2

LEMMA InvalidateSteps ==
    ASSUME ContextInv, NEW j \in Context!Jobs, job[j].pc # "compacting", NEW name, NEW next, MaySet(j, next),
           Context!InvalidateThen(j, name, next) \/ Context!InvalidateLost(j, name, next)
    PROVE  ContextInv'
  <1>1. CASE Context!InvalidateThen(j, name, next)
    <2>1. JobsKept /\ UNCHANGED compactions
      BY <1>1, PlanStays DEF Context!InvalidateThen, Context!KeepRest
    <2>2. Context!Retry(j, next) \/ Context!Go(j, next) BY <1>1 DEF Context!InvalidateThen
    <2> QED BY <2>1, <2>2, GoStep, PreflightRetried
  <1>2. CASE Context!InvalidateLost(j, name, next)
    <2>1. JobsKept /\ UNCHANGED compactions
      BY <1>2, FaultsSpent DEF Context!InvalidateLost, Context!KeepRest, Context!Faults
    <2> QED BY <1>2, <2>1, PreflightRetried DEF Context!InvalidateLost
  <1> QED BY <1>1, <1>2

LEMMA StaleSteps ==
    ASSUME ContextInv, NEW j \in Context!Jobs, Context!InvalidateStale(j) \/ Context!InvalidateRejected(j)
    PROVE  ContextInv'
  <1>1. job[j].pc # "compacting"
    BY DEF Context!InvalidateStale, Context!InvalidateRejected, Context!May
  <1>2. MaySet(j, [pc |-> "measure"]) /\ MaySet(j, Context!Plain) BY PlainFields
  <1> QED BY <1>1, <1>2, InvalidateSteps DEF Context!InvalidateStale, Context!InvalidateRejected

LEMMA MeasureSteps ==
    ASSUME ContextInv, NEW j \in Context!Jobs, Context!MeasureContext(j) \/ Context!MeasureUnavailable(j)
    PROVE  ContextInv'
  <1>1. MaySet(j, [pc |-> "sent"]) /\ MaySet(j, [pc |-> "compact"]) /\ MaySet(j, Context!Plain)
    BY PlainFields
  <1>2. CASE Context!MeasureContext(j)
    <2>1. JobsKept /\ UNCHANGED compactions BY <1>2, PlanStays DEF Context!MeasureContext, Context!KeepRest
    <2>2. \/ Context!Go(j, [pc |-> "sent"]) \/ Context!Go(j, [pc |-> "compact"])
          \/ Context!Go(j, Context!Plain)
      BY <1>2 DEF Context!MeasureContext
    <2> QED BY <1>1, <2>1, <2>2, GoStep
  <1>3. CASE Context!MeasureUnavailable(j)
    <2>1. JobsKept BY <1>3, FaultsSpent DEF Context!MeasureUnavailable, Context!Faults
    <2>2. job[j].pc # "compacting" BY <1>3 DEF Context!MeasureUnavailable, Context!May
    <2> QED BY <1>1, <1>3, <2>1, <2>2, PreflightRetried DEF Context!MeasureUnavailable, Context!KeepRest
  <1> QED BY <1>2, <1>3

LEMMA SaveSteps ==
    ASSUME ContextInv, NEW j \in Context!Jobs, Context!SaveCheckpoint(j) \/ Context!SaveLost(j)
    PROVE  ContextInv'
  <1>1. job[j].pc = "save" BY DEF Context!SaveCheckpoint, Context!SaveLost, Context!May
  <1>2. /\ MaySet(j, Context!UseMade(j)) /\ MaySet(j, [pc |-> "reload"])
        /\ \A w : MaySet(j, Context!NextRound(j, "save", w))
    BY <1>1, MadeFields
  <1>3. CASE Context!SaveCheckpoint(j)
    <2>1. JobsKept /\ UNCHANGED compactions BY <1>3, PlanStays DEF Context!SaveCheckpoint, Context!KeepRest
    <2>2. Context!Go(j, [pc |-> "reload"]) \/ Context!Go(j, Context!UseMade(j))
      BY <1>3 DEF Context!SaveCheckpoint
    <2> QED BY <1>2, <2>1, <2>2, GoStep
  <1>4. CASE Context!SaveLost(j)
    <2>1. JobsKept /\ UNCHANGED compactions
      BY <1>4, FaultsSpent DEF Context!SaveLost, Context!Faults, Context!KeepRest
    <2>2. Context!Go(j, Context!NextRound(j, "save", job[j].want)) BY <1>4 DEF Context!SaveLost
    <2> QED BY <1>2, <2>1, <2>2, GoStep
  <1> QED BY <1>3, <1>4

LEMMA ReloadSteps ==
    ASSUME ContextInv, NEW j \in Context!Jobs, Context!Reload(j) \/ Context!ReloadFails(j)
    PROVE  ContextInv'
  <1>1. job[j].pc = "reload" BY DEF Context!Reload, Context!ReloadFails, Context!May
  <1>2. /\ MaySet(j, Context!UseMade(j)) /\ \A w : MaySet(j, Context!NextRound(j, "save", w))
    BY <1>1, MadeFields
  <1>3. CASE Context!Reload(j)
    <2> DEFINE record == Context!Loaded(preflights.jobs[j].scope)
    <2>1. JobsKept /\ UNCHANGED compactions BY <1>3, PlanStays DEF Context!Reload, Context!KeepRest
    <2>2. \/ /\ Context!Adopts(record.checkpoint, j)
             /\ Context!Go(j, [pc |-> "sent", with |-> record.checkpoint])
          \/ Context!Go(j, Context!NextRound(j, "save", record.version))
      BY <1>3 DEF Context!Reload
    <2> HIDE DEF record
    <2>3. Context!Adopts(record.checkpoint, j) => MaySet(j, [pc |-> "sent", with |-> record.checkpoint])
      BY DEF MaySet, Context!Adopts
    <2> QED BY <1>2, <2>1, <2>2, <2>3, GoStep
  <1>4. CASE Context!ReloadFails(j)
    <2>1. JobsKept BY <1>4, FaultsSpent DEF Context!ReloadFails, Context!Faults
    <2> QED BY <1>1, <1>2, <1>4, <2>1, PreflightRetried DEF Context!ReloadFails, Context!KeepRest
  <1> QED BY <1>3, <1>4

\* A compaction that goes takes no other with it.
LEMMA WithoutKeeps ==
    ASSUME Compactions(compactions), NEW i \in DOMAIN compactions
    PROVE  /\ Compactions(Context!Without(i))
           /\ \A k \in DOMAIN Context!Without(i) :
                 \E m \in DOMAIN compactions : m # i /\ Context!Without(i)[k] = compactions[m]
           /\ \A m \in DOMAIN compactions : m # i =>
                 \E k \in DOMAIN Context!Without(i) : Context!Without(i)[k] = compactions[m]
  <1> DEFINE S == {compactions[k] : k \in DOMAIN compactions}
             w == Context!Without(i)
             at(k) == IF k < i THEN k ELSE k + 1
  <1>1. compactions \in Seq(S) BY DEF Compactions
  <1> HIDE DEF S
  <1>2. /\ i \in 1..Len(compactions) /\ Len(compactions) \in Nat
        /\ DOMAIN compactions = 1..Len(compactions)
    BY <1>1
  <1>3. /\ w \in Seq(S) /\ Len(w) = Len(compactions) - 1
        /\ \A k \in 1..(Len(compactions) - 1) :
              w[k] = IF k < i THEN compactions[k] ELSE compactions[k + 1]
    <2>1. w = RemovedAt(compactions, i) BY DEF Context!Without, RemovedAt
    <2> QED BY <1>1, <1>2, <2>1, RemovedAtProperties
  <1>4. DOMAIN w = 1..(Len(compactions) - 1) BY <1>3
  <1> HIDE DEF w
  <1>5. ASSUME NEW k \in DOMAIN w
        PROVE  at(k) \in DOMAIN compactions /\ at(k) # i /\ w[k] = compactions[at(k)]
    <2>1. CASE k < i BY <2>1, <1>2, <1>3, <1>4
    <2>2. CASE ~(k < i) BY <2>2, <1>2, <1>3, <1>4
    <2> QED BY <2>1, <2>2
  <1>6. ASSUME NEW m \in DOMAIN compactions, m # i PROVE \E k \in DOMAIN w : w[k] = compactions[m]
    <2>1. CASE m < i
      <3>1. m \in DOMAIN w BY <2>1, <1>2, <1>4
      <3> QED BY <2>1, <3>1, <1>3, <1>4
    <2>2. CASE m > i
      <3>1. m - 1 \in DOMAIN w /\ ~(m - 1 < i) /\ m - 1 + 1 = m BY <2>2, <1>2, <1>4
      <3> QED BY <3>1, <1>3, <1>4
    <2> QED BY <2>1, <2>2, <1>2, <1>6
  <1>7. \A k \in DOMAIN w : CompactionOf(w[k]) BY <1>5 DEF Compactions
  <1>8. ASSUME NEW k \in DOMAIN w, NEW l \in DOMAIN w, w[k].key = w[l].key PROVE k = l
    <2>1. at(k) = at(l) BY <1>5, <1>8 DEF Compactions
    <2> QED BY <1>2, <1>4, <2>1
  <1>9. w \in Seq({w[k] : k \in DOMAIN w}) BY <1>3
  <1>10. Compactions(w) BY <1>7, <1>8, <1>9 DEF Compactions
  <1> HIDE DEF at
  <1> QED BY <1>5, <1>6, <1>10 DEF w

\* A compaction of a new key.
LEMMA AppendKeeps ==
    ASSUME NEW es, Compactions(es), NEW e, CompactionOf(e), \A i \in DOMAIN es : es[i].key # e.key
    PROVE  /\ Compactions(Append(es, e))
           /\ \A i \in DOMAIN es : \E k \in DOMAIN Append(es, e) : Append(es, e)[k] = es[i]
           /\ \E k \in DOMAIN Append(es, e) : Append(es, e)[k] = e
  <1> DEFINE S == {es[k] : k \in DOMAIN es} \cup {e}
             a == Append(es, e)
  <1>1. es \in Seq(S) /\ e \in S
    <2>1. es \in Seq({es[k] : k \in DOMAIN es}) BY DEF Compactions
    <2> QED BY <2>1
  <1> HIDE DEF S
  <1>2. Len(es) \in Nat /\ DOMAIN es = 1..Len(es) BY <1>1
  <1>3. /\ a \in Seq(S) /\ Len(a) = Len(es) + 1
        /\ \A i \in 1..Len(es) : a[i] = es[i]
        /\ a[Len(es) + 1] = e
    BY <1>1, AppendProperties
  <1> HIDE DEF a
  <1>4. DOMAIN a = 1..(Len(es) + 1) BY <1>3
  <1>5. \A i \in DOMAIN a : i \in DOMAIN es \/ i = Len(es) + 1 BY <1>2, <1>4
  <1>6. \A i \in DOMAIN es : i \in DOMAIN a /\ a[i] = es[i] BY <1>2, <1>3, <1>4
  <1>7. Len(es) + 1 \in DOMAIN a BY <1>2, <1>4
  <1>8. \A i \in DOMAIN a : CompactionOf(a[i]) BY <1>3, <1>5, <1>6 DEF Compactions
  <1>9. \A i, k \in DOMAIN a : a[i].key = a[k].key => i = k BY <1>3, <1>5, <1>6 DEF Compactions
  <1>10. a \in Seq({a[k] : k \in DOMAIN a}) BY <1>3
  <1>11. Compactions(a) BY <1>8, <1>9, <1>10 DEF Compactions
  <1> QED BY <1>3, <1>6, <1>7, <1>11 DEF a

\* Room is made by a settled compaction, for which nobody waits.
LEMMA ReserveKeeps ==
    ASSUME Compactions(compactions)
    PROVE  /\ Compactions(Context!ReserveCapacity)
           /\ \A k \in DOMAIN Context!ReserveCapacity :
                 \E m \in DOMAIN compactions : Context!ReserveCapacity[k] = compactions[m]
           /\ \A m \in DOMAIN compactions : ~Context!Settled(compactions[m]) =>
                 \E k \in DOMAIN Context!ReserveCapacity : Context!ReserveCapacity[k] = compactions[m]
  <1> DEFINE settled == {i \in DOMAIN compactions : Context!Settled(compactions[i])}
             oldest == {i \in settled : \A k \in settled : i <= k}
             i == CHOOSE o \in oldest : TRUE
  <1>1. CASE Context!ReserveCapacity = compactions BY <1>1
  <1>2. CASE Context!ReserveCapacity # compactions
    <2>1. oldest # {} /\ Context!ReserveCapacity = Context!Without(i) BY <1>2 DEF Context!ReserveCapacity
    <2>2. i \in oldest BY <2>1
    <2>3. i \in DOMAIN compactions /\ Context!Settled(compactions[i]) BY <2>2
    <2> HIDE DEF i
    <2> QED BY <2>1, <2>3, WithoutKeeps
  <1> QED BY <1>1, <1>2

\* A job and the compactions change, and no compaction that runs goes.
LEMMA CompactionsStep ==
    ASSUME ContextInv, JobsKept, NEW j \in Context!Jobs, NEW r, JobFits(r, j),
           job' = [job EXCEPT ![j] = r], NEW es, compactions' = es, Compactions(es),
           \A m \in DOMAIN compactions : ~Context!Settled(compactions[m]) =>
              \E k \in DOMAIN es : es[k] = compactions[m],
           r.pc = "compacting" => r.with = job[j].with /\ \E k \in DOMAIN es : Awaits(j, es[k])
    PROVE  ContextInv'
  <1>1. /\ DOMAIN job' = Context!Jobs /\ job' = [k \in Context!Jobs |-> job'[k]]
        /\ job'[j] = r /\ \A k \in Context!Jobs : k # j => job'[k] = job[k]
    BY DEF ContextInv
  <1>2. \A k \in Context!Jobs : JobFits(job'[k], k) BY <1>1 DEF ContextInv
  <1>3. ASSUME NEW k \in Context!Jobs, job'[k].pc = "compacting"
        PROVE  \E i \in DOMAIN es : \E e : e = es[i] /\ Awaits(k, e)'
    <2>1. job'[k].with = job[k].with BY <1>1, <1>3
    <2>2. PICK i \in DOMAIN es : Awaits(k, es[i])
      <3>1. CASE k = j BY <3>1, <1>1, <1>3
      <3>2. CASE k # j
        <4>1. PICK m \in DOMAIN compactions : Awaits(k, compactions[m])
          BY <3>2, <1>1, <1>3 DEF ContextInv, CompactionsInv
        <4>2. ~Context!Settled(compactions[m]) BY <4>1 DEF Awaits
        <4> QED BY <4>1, <4>2
      <3> QED BY <3>1, <3>2
    <2> DEFINE e == es[i]
    <2>3. Awaits(k, e) BY <2>2
    <2>4. e = es[i] OBVIOUS
    <2> HIDE DEF e
    <2>5. \A d : d = e => Awaits(k, d)' BY <2>1, <2>3, AwaitsStill
    <2> QED BY <2>4, <2>5
  <1>4. CompactionsInv' BY <1>3, CompactionsFrom
  <1> QED BY <1>1, <1>2, <1>4, ContextFrom

LEMMA WaitingFits ==
    ASSUME ContextInv, NEW j \in Context!Jobs
    PROVE  /\ JobFits([job[j] EXCEPT !.pc = "compacting"], j)
           /\ [job[j] EXCEPT !.pc = "compacting"].with = job[j].with
  <1> DEFINE r == [job[j] EXCEPT !.pc = "compacting"]
  <1>1. JobFits(job[j], j) BY DEF ContextInv
  <1>2. /\ DOMAIN r = JobFields /\ r = [f \in JobFields |-> r[f]]
        /\ r.pc = "compacting" /\ r.with = job[j].with
    BY <1>1 DEF JobFits, JobFields
  <1> HIDE DEF r
  <1>3. JobFits(r, j) /\ r.with = job[j].with BY <1>1, <1>2 DEF JobFits
  <1> QED BY <1>3 DEF r

LEMMA CompactStep ==
    ASSUME ContextInv, NEW j \in Context!Jobs, Context!CompactContext(j)
    PROVE  ContextInv'
  <1>1. JobsKept BY PlanStays DEF Context!CompactContext
  <1>2. job[j].pc # "compacting" BY DEF Context!CompactContext, Context!May
  <1>3. Compactions(compactions) BY DEF ContextInv, CompactionsInv
  <1>4. MaySet(j, [pc |-> "sent"]) /\ MaySet(j, Context!Plain) BY PlainFields
  <1>5. ASSUME NEW i \in Context!EntriesOf(preflights.jobs[j].key),
               compactions[i].identity # Context!Identity(j),
               Context!Go(j, Context!Plain), UNCHANGED compactions
        PROVE  ContextInv'
    BY <1>1, <1>4, <1>5, GoStep
  <1>6. ASSUME NEW i \in Context!EntriesOf(preflights.jobs[j].key),
               compactions[i].identity = Context!Identity(j),
               compactions' = Append(Context!Without(i), compactions[i]),
               \/ /\ Context!Settled(compactions[i])
                  /\ Context!Go(j, Context!Compacted(j, compactions[i].result, compactions[i].owner))
               \/ /\ ~Context!Settled(compactions[i])
                  /\ job' = [job EXCEPT ![j].pc = "compacting"]
        PROVE  ContextInv'
    <2> DEFINE e == compactions[i]
               es == Append(Context!Without(i), e)
    <2>1. i \in DOMAIN compactions /\ e.key = preflights.jobs[j].key BY DEF Context!EntriesOf
    <2>2. CompactionOf(e) BY <1>3, <2>1 DEF Compactions
    <2>3. \A k \in DOMAIN Context!Without(i) : Context!Without(i)[k].key # e.key
      <3>1. \A k \in DOMAIN Context!Without(i) :
               \E m \in DOMAIN compactions : m # i /\ Context!Without(i)[k] = compactions[m]
        BY <1>3, <2>1, WithoutKeeps
      <3>2. \A m \in DOMAIN compactions : m # i => compactions[m].key # e.key
        BY <1>3, <2>1 DEF Compactions
      <3> QED BY <3>1, <3>2
    <2>4. /\ Compactions(es)
          /\ \A k \in DOMAIN Context!Without(i) : \E l \in DOMAIN es : es[l] = Context!Without(i)[k]
          /\ \E l \in DOMAIN es : es[l] = e
      <3>1. Compactions(Context!Without(i)) BY <1>3, <2>1, WithoutKeeps
      <3> QED BY <2>2, <2>3, <3>1, AppendKeeps
    <2>5. compactions' = es /\ e.identity = Context!Identity(j) BY <1>6
    <2> HIDE DEF es
    <2>6. \A m \in DOMAIN compactions : \E k \in DOMAIN es : es[k] = compactions[m]
      <3> SUFFICES ASSUME NEW m \in DOMAIN compactions PROVE \E k \in DOMAIN es : es[k] = compactions[m]
        OBVIOUS
      <3>1. CASE m = i BY <3>1, <2>4
      <3>2. CASE m # i
        <4>1. PICK k \in DOMAIN Context!Without(i) : Context!Without(i)[k] = compactions[m]
          BY <1>3, <2>1, <3>2, WithoutKeeps
        <4> QED BY <4>1, <2>4
      <3> QED BY <3>1, <3>2
    <2>7. CASE Context!Settled(e)
      <3> DEFINE fields == Context!Compacted(j, e.result, e.owner)
                 r == Context!Onward(job[j], fields)
      <3>1. MaySet(j, fields) BY <2>2, <2>5, CompactedFields
      <3>2. job' = [job EXCEPT ![j] = r] BY <1>6, <2>7 DEF Context!Go, ContextInv
      <3> HIDE DEF fields
      <3>3. JobFits(r, j) /\ r.pc # "compacting" BY <3>1, OnwardFits
      <3> HIDE DEF r
      <3> QED BY <1>1, <2>4, <2>5, <2>6, <3>2, <3>3, CompactionsStep
    <2>8. CASE ~Context!Settled(e)
      <3> DEFINE r == [job[j] EXCEPT !.pc = "compacting"]
      <3>1. job' = [job EXCEPT ![j] = r] BY <1>6, <2>8 DEF ContextInv
      <3>2. JobFits(r, j) /\ r.with = job[j].with BY WaitingFits
      <3>3. \E k \in DOMAIN es : Awaits(j, es[k]) BY <2>1, <2>4, <2>5, <2>8 DEF Awaits
      <3> HIDE DEF r
      <3> QED BY <1>1, <2>4, <2>5, <2>6, <3>1, <3>2, <3>3, CompactionsStep
    <2> QED BY <2>7, <2>8
  <1>7. CASE Context!Retry(j, Context!Plain) /\ UNCHANGED compactions
    BY <1>1, <1>2, <1>4, <1>7, PreflightRetried
  <1>8. ASSUME Context!EntriesOf(preflights.jobs[j].key) = {},
               compactions' = Append(Context!ReserveCapacity,
                   [key |-> preflights.jobs[j].key, identity |-> Context!Identity(j),
                    owner |-> j, result |-> "running"]),
               job' = [job EXCEPT ![j].pc = "compacting"]
        PROVE  ContextInv'
    <2> DEFINE e == [key |-> preflights.jobs[j].key, identity |-> Context!Identity(j),
                     owner |-> j, result |-> "running"]
               room == Context!ReserveCapacity
               es == Append(room, e)
               r == [job[j] EXCEPT !.pc = "compacting"]
    <2>1. CompactionOf(e) BY DEF CompactionOf, Context!Identity
    <2>2. Awaits(j, e) BY DEF Awaits, Context!Settled
    <2>3. e.key = preflights.jobs[j].key /\ compactions' = es BY <1>8
    <2> HIDE DEF e
    <2>4. /\ Compactions(room)
          /\ \A k \in DOMAIN room : \E m \in DOMAIN compactions : room[k] = compactions[m]
          /\ \A m \in DOMAIN compactions : ~Context!Settled(compactions[m]) =>
                \E k \in DOMAIN room : room[k] = compactions[m]
      BY <1>3, ReserveKeeps
    <2> HIDE DEF room
    <2>5. \A k \in DOMAIN room : room[k].key # e.key BY <1>8, <2>3, <2>4 DEF Context!EntriesOf
    <2>6. /\ Compactions(es) /\ \A k \in DOMAIN room : \E l \in DOMAIN es : es[l] = room[k]
          /\ \E l \in DOMAIN es : es[l] = e
      BY <2>1, <2>4, <2>5, AppendKeeps
    <2> HIDE DEF es
    <2>7. \A m \in DOMAIN compactions : ~Context!Settled(compactions[m]) =>
             \E k \in DOMAIN es : es[k] = compactions[m]
      BY <2>4, <2>6
    <2>8. job' = [job EXCEPT ![j] = r] BY <1>8 DEF ContextInv
    <2>9. JobFits(r, j) /\ r.with = job[j].with BY WaitingFits
    <2>10. \E k \in DOMAIN es : Awaits(j, es[k]) BY <2>2, <2>6
    <2> HIDE DEF r
    <2> QED BY <1>1, <2>3, <2>6, <2>7, <2>8, <2>9, <2>10, CompactionsStep
  <1> QED BY <1>5, <1>6, <1>7, <1>8 DEF Context!CompactContext

\* Who waits for a compaction that ends waited for its very position.
LEMMA CompactionEndStep ==
    ASSUME ContextInv, NEW i \in DOMAIN compactions, NEW result, Context!CompactionEnds(i, result)
    PROVE  ContextInv'
  <1> DEFINE e == compactions[i]
             W == Context!Waiting(e)
             n == IF result = "unavailable" THEN preflights.faults - 1 ELSE preflights.faults
  <1>1. JobsKept
    <2>1. preflights' = [preflights EXCEPT !.faults = n]
      BY DEF Context!CompactionEnds, ContextInv, PlanShape
    <2> HIDE DEF n
    <2> QED BY <2>1, FaultsSpent
  <1>2. Compactions(compactions) /\ CompactionOf(e) BY DEF ContextInv, CompactionsInv, Compactions
  <1>3. ASSUME NEW j \in Context!Jobs, job[j].pc = "compacting"
        PROVE  \E m \in DOMAIN compactions : Awaits(j, compactions[m])
    BY <1>3 DEF ContextInv, CompactionsInv
  <1>4. ASSUME NEW j \in W PROVE j \in Context!Jobs /\ e.identity = Context!Identity(j)
    <2>1. j \in Context!Jobs /\ job[j].pc = "compacting" /\ preflights.jobs[j].key = e.key
      BY DEF Context!Waiting
    <2>2. PICK m \in DOMAIN compactions : Awaits(j, compactions[m]) BY <1>3, <2>1
    <2>3. m = i BY <1>2, <2>1, <2>2 DEF Compactions, Awaits
    <2> QED BY <2>1, <2>2, <2>3 DEF Awaits
  <1>5. ASSUME NEW j \in Context!Jobs
        PROVE  /\ j \notin W => job'[j] = job[j]
               /\ j \in W => JobFits(job'[j], j) /\ job'[j].pc # "compacting"
    <2>1. CASE j \notin W BY <2>1 DEF Context!CompactionEnds
    <2>2. CASE j \in W /\ result # "unavailable"
      <3>1. job'[j] = Context!Onward(job[j], Context!Compacted(j, result, e.owner))
        BY <2>2 DEF Context!CompactionEnds
      <3>2. MaySet(j, Context!Compacted(j, result, e.owner)) BY <1>2, <1>4, <2>2, CompactedFields
      <3> QED BY <2>2, <3>1, <3>2, OnwardFits
    <2>3. CASE j \in W /\ result = "unavailable"
      <3>1. \/ job'[j] = [job[j] EXCEPT !.pc = "compact", !.tries = @ + 1]
            \/ job'[j] = Context!Onward(job[j], Context!Plain)
        BY <2>3 DEF Context!CompactionEnds
      <3>2. CASE job'[j] = Context!Onward(job[j], Context!Plain)
        <4>1. MaySet(j, [pc |-> "sent"]) /\ MaySet(j, Context!Plain) BY PlainFields
        <4> QED BY <2>3, <3>2, <4>1, OnwardFits
      <3>3. CASE job'[j] = [job[j] EXCEPT !.pc = "compact", !.tries = @ + 1]
        <4> DEFINE r == [job[j] EXCEPT !.pc = "compact", !.tries = @ + 1]
        <4>1. JobFits(job[j], j) BY DEF ContextInv
        <4>2. /\ DOMAIN r = JobFields /\ r = [f \in JobFields |-> r[f]]
              /\ r.pc = "compact" /\ r.with = job[j].with
          BY <4>1 DEF JobFits, JobFields
        <4>3. job'[j] = r BY <3>3
        <4> HIDE DEF r
        <4>4. JobFits(r, j) /\ r.pc # "compacting" BY <4>1, <4>2 DEF JobFits
        <4> QED BY <2>3, <4>3, <4>4
      <3> QED BY <3>1, <3>2, <3>3
    <2> QED BY <2>1, <2>2, <2>3
  <1>6. DOMAIN job' = Context!Jobs /\ job' = [k \in Context!Jobs |-> job'[k]]
    BY DEF Context!CompactionEnds
  <1>7. \A j \in Context!Jobs : JobFits(job'[j], j) BY <1>5 DEF ContextInv
  <1>8. ASSUME NEW j \in Context!Jobs, job'[j].pc = "compacting"
        PROVE  /\ job'[j].with = job[j].with
               /\ \E m \in DOMAIN compactions : m # i /\ Awaits(j, compactions[m])
    <2>1. j \notin W /\ job'[j] = job[j] BY <1>5, <1>8
    <2>2. PICK m \in DOMAIN compactions : Awaits(j, compactions[m]) BY <1>3, <1>8, <2>1
    <2>3. m # i BY <1>8, <2>1, <2>2 DEF Context!Waiting, Awaits
    <2> QED BY <2>1, <2>2, <2>3
  <1>9. ASSUME NEW es, Compactions(es), compactions' = es,
               \A m \in DOMAIN compactions : m # i => \E k \in DOMAIN es : es[k] = compactions[m]
        PROVE  CompactionsInv'
    <2>1. ASSUME NEW j \in Context!Jobs, job'[j].pc = "compacting"
          PROVE  \E k \in DOMAIN es : \E d : d = es[k] /\ Awaits(j, d)'
      <3>1. PICK m \in DOMAIN compactions : m # i /\ Awaits(j, compactions[m]) BY <1>8, <2>1
      <3>2. PICK k \in DOMAIN es : es[k] = compactions[m] BY <1>9, <3>1
      <3>3. job'[j].with = job[j].with BY <1>8, <2>1
      <3>4. \A d : d = es[k] => Awaits(j, d)' BY <1>1, <3>1, <3>2, <3>3, AwaitsStill
      <3> QED BY <3>4
    <2> QED BY <1>1, <1>9, <2>1, CompactionsFrom
  <1>10. CompactionsInv'
    <2>1. CASE compactions' = Context!Without(i)
      <3>1. /\ Compactions(Context!Without(i))
            /\ \A m \in DOMAIN compactions : m # i =>
                  \E k \in DOMAIN Context!Without(i) : Context!Without(i)[k] = compactions[m]
        BY <1>2, WithoutKeeps
      <3> QED BY <1>9, <2>1, <3>1
    <2>2. CASE compactions' = [compactions EXCEPT ![i].result = result]
      <3> DEFINE d == [e EXCEPT !.result = result]
                 es == [compactions EXCEPT ![i] = d]
      <3>1. compactions' = es BY <2>2
      <3>2. compactions \in Seq({compactions[k] : k \in DOMAIN compactions}) BY <1>2 DEF Compactions
      <3>3. d.key = e.key /\ d.owner = e.owner /\ d.identity = e.identity
        OBVIOUS
      <3> HIDE DEF d
      <3>4. /\ DOMAIN es = DOMAIN compactions /\ es[i] = d
            /\ \A k \in DOMAIN compactions : k # i => es[k] = compactions[k]
        BY <3>2
      <3>5. es \in Seq({es[k] : k \in DOMAIN es})
        <4>1. Len(compactions) \in Nat /\ DOMAIN compactions = 1..Len(compactions) BY <3>2
        <4>2. es = [k \in 1..Len(compactions) |-> es[k]] BY <3>2, <4>1
        <4> HIDE DEF es
        <4>3. \A k \in 1..Len(compactions) : es[k] \in {es[l] : l \in DOMAIN es} BY <3>4, <4>1
        <4> QED BY <4>1, <4>2, <4>3
      <3> HIDE DEF es
      <3>6. CompactionOf(d) BY <1>2, <3>3 DEF CompactionOf
      <3>7. \A k \in DOMAIN es : CompactionOf(es[k]) BY <1>2, <3>4, <3>6 DEF Compactions
      <3>8. \A k \in DOMAIN es : es[k].key = compactions[k].key BY <3>3, <3>4
      <3>9. \A k, l \in DOMAIN es : es[k].key = es[l].key => k = l BY <1>2, <3>4, <3>8 DEF Compactions
      <3>10. Compactions(es) BY <3>5, <3>7, <3>9 DEF Compactions
      <3> QED BY <1>9, <3>1, <3>4, <3>10
    <2> QED BY <2>1, <2>2 DEF Context!CompactionEnds
  <1> QED BY <1>1, <1>6, <1>7, <1>10, ContextFrom

LEMMA AbortSteps ==
    ASSUME ContextInv, NEW j \in Context!Jobs, Context!Abort(j) \/ Context!NoticeAbort(j)
    PROVE  ContextInv'
  <1>1. JobsKept BY PlanStays DEF Context!Abort, Context!NoticeAbort
  <1>2. CASE UNCHANGED <<job, compactions>>
    <2>1. CompactionsInv' BY <1>1, <1>2, CompactionsStay
    <2> QED BY <1>1, <1>2, <2>1, ContextFrom DEF ContextInv
  <1>3. CASE Context!NoticeAbort(j)
    <2>1. MaySet(j, [pc |-> "cancelled"]) BY PlainFields
    <2> QED BY <1>1, <1>3, <2>1, GoStep DEF Context!NoticeAbort, Context!KeepRest
  <1> QED BY <1>2, <1>3 DEF Context!Abort

LEMMA ContextStays == ContextInv /\ [Context!ContextNext]_Context!contextVars => ContextInv'
  <1> SUFFICES ASSUME ContextInv, [Context!ContextNext]_Context!contextVars PROVE ContextInv' OBVIOUS
  <1>1. ASSUME NEW j \in Context!Jobs,
               \/ Context!LoadCheckpoint(j) \/ Context!LoadFails(j)
               \/ Context!InvalidateStale(j) \/ Context!InvalidateRejected(j)
               \/ Context!MeasureContext(j) \/ Context!MeasureUnavailable(j) \/ Context!CompactContext(j)
        PROVE  ContextInv'
    BY <1>1, LoadSteps, StaleSteps, MeasureSteps, CompactStep
  <1>2. ASSUME NEW j \in Context!Jobs,
               \/ Context!SaveCheckpoint(j) \/ Context!SaveLost(j)
               \/ Context!Reload(j) \/ Context!ReloadFails(j)
               \/ Context!Abort(j) \/ Context!NoticeAbort(j)
        PROVE  ContextInv'
    BY <1>2, SaveSteps, ReloadSteps, AbortSteps
  <1>3. ASSUME NEW i \in DOMAIN compactions, NEW result, Context!CompactionEnds(i, result)
        PROVE  ContextInv'
    BY <1>3, CompactionEndStep
  <1>4. CASE UNCHANGED Context!contextVars
    <2>1. JobsKept /\ UNCHANGED <<job, compactions>> BY <1>4, PlanStays DEF Context!contextVars
    <2>2. CompactionsInv' BY <2>1, CompactionsStay
    <2> QED BY <2>1, <2>2, ContextFrom DEF ContextInv
  <1> QED BY <1>1, <1>2, <1>3, <1>4 DEF Context!ContextNext

\* For any preflights, faults, limits of the stores and number of attempts:
\* a turn never starts from a provider checkpoint of another context, or one
\* that covers history its own runtime has not read, whichever of concurrent
\* saves won, whoever joined a compaction, and whatever answers were lost
\* (prepareProviderContextRequest of runtime.ts, openai-context.ts).
THEOREM ContextsMatchHistory ==
    ASSUME PreflightPlans
    PROVE  ContextSpec => []ContextMatchesHistory
  <1>1. ContextInv => Context!ContextMatchesHistory
    BY DEF ContextInv, JobFits, Context!ContextMatchesHistory
  <1> QED BY <1>1, ContextStarts, ContextStays, PTL DEF ContextSpec, ContextMatchesHistory

------------------------------------------------
\* Attachments: what a message refers to.

UploadsSpec == Uploads!AttachmentsInit /\ [][Uploads!AttachmentsNext]_Uploads!attachmentVars

\* The tabs of a draft are composers, and bytes are kept for some time.
DraftsOfTabs == TimeToLive \in Nat /\ \A d \in Drafts : d.tabs \subseteq Tabs

DraftFiles == UNION {d.files : d \in Drafts}
References == Tabs \X Nat \X Nat \X Nat
UploadItems ==
    [id : Nat, file : DraftFiles, conversation : Chats,
     status : {"queued", "uploading", "ready", "failed"}, token : Nat,
     reference : References \cup {Uploads!NoReference}]
UploadCalls ==
    [id : Nat, token : Nat, file : DraftFiles, conversation : Chats,
     at : {"lookup", "put", "create", "winner", "answer"}, expires : Nat,
     answer : References \cup {Uploads!NoReference}]
StagedRecords ==
    [reference : References, file : DraftFiles, conversation : Chats, expires : Nat]

\* The server can resolve the reference for the conversation, or it expired.
Resolves(ref, conversation) ==
    /\ ref \in References
    /\ \/ \E r \in staged : r.reference = ref /\ r.conversation = conversation /\ ref \in blobs
       \/ ref[4] <= time

\* An upload of that item and token has begun.
Begun(t, id, token) ==
    /\ id <= spent[t].items
    /\ \A x \in items[t] : x.id = id => token <= x.token

\* The uploader of a tab: an item's calls have its tokens so far.
TabQueue(t) ==
    /\ items[t] \subseteq UploadItems /\ spent[t].items \in Nat
    /\ \A x, y \in items[t] : x.id = y.id => x = y
    /\ \A x \in items[t] : x.id <= spent[t].items
    /\ \A x \in items[t] : x.id \in owned[t] => x.conversation = showing[t]
    /\ \A x \in items[t] : x.status = "ready" => Resolves(x.reference, x.conversation)

TabCalls(t) ==
    /\ uploads[t] \subseteq UploadCalls
    /\ \A c, d \in uploads[t] : c.id = d.id /\ c.token = d.token => c = d
    /\ \A c \in uploads[t] : Begun(t, c.id, c.token)
    /\ \A c \in uploads[t], x \in items[t] : x.id = c.id => x.conversation = c.conversation
    /\ \A c \in uploads[t] : c.answer # Uploads!NoReference => Resolves(c.answer, c.conversation)
    /\ \A c \in uploads[t] : c.at = "create" => Uploads!Reference(t, c) \in blobs

\* A record has its bytes, and the call that made it has been answered.
RecordSound(r) ==
    /\ r \in StagedRecords
    /\ r.reference[4] = r.expires /\ r.reference \in blobs
    /\ Begun(r.reference[1], r.reference[2], r.reference[3])
    /\ \A c \in uploads[r.reference[1]] :
          c.id = r.reference[2] /\ c.token = r.reference[3] => c.at = "answer"

UploadShapes ==
    /\ drafted \in Drafts /\ time \in Nat
    /\ showing \in [Tabs -> Chats]
    /\ DOMAIN items = Tabs /\ items = [t \in Tabs |-> items[t]]
    /\ DOMAIN uploads = Tabs /\ uploads = [t \in Tabs |-> uploads[t]]
    /\ DOMAIN owned = Tabs /\ owned = [t \in Tabs |-> owned[t]]
    /\ DOMAIN spent = Tabs /\ spent = [t \in Tabs |-> spent[t]]

UploadsInv ==
    /\ UploadShapes
    /\ \A t \in Tabs : TabQueue(t) /\ TabCalls(t)
    /\ \A r \in staged : RecordSound(r)
    /\ \A m \in sent : Resolves(m.reference, m.conversation)

LEMMA UploadsStart == Uploads!AttachmentsInit => UploadsInv
  <1> SUFFICES ASSUME Uploads!AttachmentsInit PROVE UploadsInv OBVIOUS
  <1>1. /\ drafted \in Drafts /\ showing \in [Tabs -> Chats]
        /\ items = [t \in Tabs |-> {}] /\ uploads = [t \in Tabs |-> {}] /\ owned = [t \in Tabs |-> {}]
        /\ staged = {} /\ time = 0 /\ sent = {}
        /\ spent = [t \in Tabs |-> [items |-> 0, calls |-> 0]]
    BY DEF Uploads!AttachmentsInit
  <1>2. UploadShapes BY <1>1 DEF UploadShapes
  <1>3. \A t \in Tabs : TabQueue(t) BY <1>1 DEF TabQueue
  <1>4. \A t \in Tabs : TabCalls(t) BY <1>1 DEF TabCalls
  <1> QED BY <1>1, <1>2, <1>3, <1>4 DEF UploadsInv

LEMMA ReferenceTyped ==
    ASSUME NEW t \in Tabs, NEW c \in UploadCalls
    PROVE  /\ Uploads!Reference(t, c) \in References /\ Uploads!Reference(t, c)[1] = t
           /\ Uploads!Reference(t, c)[2] = c.id /\ Uploads!Reference(t, c)[3] = c.token
           /\ Uploads!Reference(t, c)[4] = c.expires
  BY DEF Uploads!Reference, References, UploadCalls

\* A record's reference is not that of a call that has not been answered.
LEMMA ReferenceFresh ==
    ASSUME UploadsInv, NEW r \in staged, NEW t \in Tabs, NEW c \in uploads[t], c.at # "answer"
    PROVE  r.reference # Uploads!Reference(t, c)
  <1>1. c \in UploadCalls BY DEF UploadsInv, TabCalls
  <1>2. RecordSound(r) BY DEF UploadsInv
  <1> QED BY <1>1, <1>2, ReferenceTyped DEF RecordSound

\* What is resolved stays so when records go only with their time.
StillResolves ==
    \A ref, conversation : Resolves(ref, conversation) =>
        /\ ref \in References
        /\ \/ \E r \in staged' : r.reference = ref /\ r.conversation = conversation /\ ref \in blobs'
           \/ ref[4] <= time'

LEMMA ResolvesOn ==
    ASSUME StillResolves, NEW ref, NEW conversation, Resolves(ref, conversation)
    PROVE  Resolves(ref, conversation)'
  BY DEF StillResolves, Resolves

LEMMA StoreStays == ASSUME UNCHANGED <<staged, blobs, time>> PROVE StillResolves
  BY DEF StillResolves, Resolves

LEMMA BegunSame ==
    ASSUME UNCHANGED <<items, spent>>
    PROVE  \A t, id, token : Begun(t, id, token)' <=> Begun(t, id, token)
  BY DEF Begun

LEMMA QueuesStay ==
    ASSUME UploadsInv, StillResolves, UNCHANGED <<items, spent, owned, showing>>
    PROVE  \A t \in Tabs : TabQueue(t)'
  <1> SUFFICES ASSUME NEW t \in Tabs PROVE TabQueue(t)' OBVIOUS
  <1>1. TabQueue(t) BY DEF UploadsInv
  <1>2. ASSUME NEW x \in items[t], x.status = "ready" PROVE Resolves(x.reference, x.conversation)'
    BY <1>1, <1>2, ResolvesOn DEF TabQueue
  <1> QED BY <1>1, <1>2 DEF TabQueue

LEMMA SentStays ==
    ASSUME UploadsInv, StillResolves, UNCHANGED sent
    PROVE  \A m \in sent' : Resolves(m.reference, m.conversation)'
  <1> SUFFICES ASSUME NEW m \in sent PROVE Resolves(m.reference, m.conversation)' OBVIOUS
  <1>1. Resolves(m.reference, m.conversation) BY DEF UploadsInv
  <1> QED BY <1>1, ResolvesOn

\* A call takes a step of stage.
StageStep(t, c, new) ==
    /\ new \in UploadCalls /\ new.id = c.id /\ new.token = c.token
    /\ new.conversation = c.conversation /\ new.expires \in Nat
    /\ uploads' = [uploads EXCEPT ![t] = (uploads[t] \ {c}) \cup {new}]
    /\ UNCHANGED <<drafted, showing, items, owned, spent, time, sent>>

LEMMA StageCalls ==
    ASSUME UploadsInv, StillResolves, NEW t \in Tabs, NEW c \in uploads[t], NEW new, StageStep(t, c, new),
           new.answer # Uploads!NoReference => Resolves(new.answer, new.conversation)',
           new.at = "create" => Uploads!Reference(t, new) \in blobs',
           \A u \in Tabs : \A d \in uploads[u] :
              d.at = "create" /\ ~(u = t /\ d = c) => Uploads!Reference(u, d) \in blobs'
    PROVE  \A u \in Tabs : TabCalls(u)'
  <1> SUFFICES ASSUME NEW u \in Tabs PROVE TabCalls(u)' OBVIOUS
  <1>1. TabCalls(u) /\ TabCalls(t) BY DEF UploadsInv
  <1>2. \A d \in uploads'[u] : (d \in uploads[u] /\ ~(u = t /\ d = c)) \/ (u = t /\ d = new)
    BY DEF StageStep, UploadsInv, UploadShapes
  <1>3. UNCHANGED <<items, spent>> BY DEF StageStep
  <1>4. \A d \in uploads'[u] : \E o \in uploads[u] :
           /\ o.id = d.id /\ o.token = d.token /\ o.conversation = d.conversation
           /\ (d = new /\ u = t /\ o = c) \/ (d = o /\ ~(u = t /\ d = c))
    BY <1>2 DEF StageStep
  <1>5. uploads'[u] \subseteq UploadCalls BY <1>1, <1>2 DEF TabCalls, StageStep
  <1>6. \A d, e \in uploads'[u] : d.id = e.id /\ d.token = e.token => d = e
    BY <1>1, <1>4 DEF TabCalls
  <1>7. \A d \in uploads'[u] : Begun(u, d.id, d.token) BY <1>1, <1>4 DEF TabCalls
  <1>8. \A d \in uploads'[u] : Begun(u, d.id, d.token)' BY <1>3, <1>7, BegunSame
  <1>9. \A d \in uploads'[u], x \in items'[u] : x.id = d.id => x.conversation = d.conversation
    BY <1>1, <1>3, <1>4 DEF TabCalls
  <1>10. ASSUME NEW d \in uploads'[u], d.answer # Uploads!NoReference
         PROVE  Resolves(d.answer, d.conversation)'
    <2>1. CASE d = new BY <2>1, <1>10
    <2>2. CASE d # new
      <3>1. Resolves(d.answer, d.conversation) BY <1>1, <1>2, <1>10, <2>2 DEF TabCalls
      <3> QED BY <3>1, ResolvesOn
    <2> QED BY <2>1, <2>2
  <1>11. \A d \in uploads'[u] : d.at = "create" => Uploads!Reference(u, d) \in blobs' BY <1>2
  <1>12. \A d : Uploads!Reference(u, d)' = Uploads!Reference(u, d) BY DEF Uploads!Reference
  <1> QED BY <1>5, <1>6, <1>8, <1>9, <1>10, <1>11, <1>12 DEF TabCalls, Uploads!NoReference

LEMMA StageRecords ==
    ASSUME UploadsInv, NEW t \in Tabs, NEW c \in uploads[t], c.at # "answer", NEW new, StageStep(t, c, new),
           NEW r \in staged, r.reference \in blobs'
    PROVE  RecordSound(r)'
  <1>1. RecordSound(r) BY DEF UploadsInv
  <1>2. UNCHANGED <<items, spent>> BY DEF StageStep
  <1>3. Begun(r.reference[1], r.reference[2], r.reference[3])' BY <1>1, <1>2, BegunSame DEF RecordSound
  <1>4. r.reference[1] \in Tabs BY <1>1 DEF RecordSound, StagedRecords, References
  <1>5. \A d \in uploads'[r.reference[1]] : d \in uploads[r.reference[1]] \/ (r.reference[1] = t /\ d = new)
    BY <1>4 DEF StageStep, UploadsInv, UploadShapes
  <1>6. ~(r.reference[1] = t /\ c.id = r.reference[2] /\ c.token = r.reference[3])
    BY <1>1 DEF RecordSound
  <1>7. \A d \in uploads'[r.reference[1]] :
           d.id = r.reference[2] /\ d.token = r.reference[3] => d.at = "answer"
    BY <1>1, <1>5, <1>6 DEF RecordSound, StageStep
  <1> QED BY <1>1, <1>3, <1>7 DEF RecordSound

LEMMA StageInv ==
    ASSUME UploadsInv, StillResolves, NEW t \in Tabs, NEW c \in uploads[t], NEW new, StageStep(t, c, new),
           \A u \in Tabs : TabCalls(u)', \A r \in staged' : RecordSound(r)'
    PROVE  UploadsInv'
  <1>1. UploadShapes' BY DEF UploadsInv, UploadShapes, StageStep
  <1>2. \A u \in Tabs : TabQueue(u)' BY QueuesStay DEF StageStep
  <1>3. \A m \in sent' : Resolves(m.reference, m.conversation)' BY SentStays DEF StageStep
  <1> QED BY <1>1, <1>2, <1>3 DEF UploadsInv

LEMMA StepIsStage ==
    ASSUME UploadsInv, NEW t \in Tabs, NEW c \in uploads[t], NEW new \in UploadCalls,
           new.id = c.id, new.token = c.token, new.conversation = c.conversation,
           Uploads!Step(t, c, new), UNCHANGED <<drafted, showing, items, owned, spent, time, sent>>
    PROVE  StageStep(t, c, new)
  BY DEF Uploads!Step, StageStep, UploadsInv, UploadShapes, UploadCalls

\* An answer of NoReference, or of a record that lives.
LEMMA HeldResolves ==
    ASSUME UploadsInv, NEW t \in Tabs, NEW c \in uploads[t], Uploads!Held(c) # {}
    PROVE  LET r == CHOOSE x \in Uploads!Held(c) : TRUE
           IN  Resolves(r.reference, c.conversation)
  <1> DEFINE r == CHOOSE x \in Uploads!Held(c) : TRUE
  <1>1. r \in Uploads!Held(c) OBVIOUS
  <1>2. r \in staged /\ r.conversation = c.conversation BY <1>1 DEF Uploads!Held
  <1> HIDE DEF r
  <1>3. RecordSound(r) BY <1>2 DEF UploadsInv
  <1>4. Resolves(r.reference, c.conversation) BY <1>2, <1>3 DEF RecordSound, Resolves, StagedRecords
  <1> QED BY <1>4 DEF r

LEMMA AnsweredCall ==
    ASSUME NEW c \in UploadCalls, NEW ref \in References \cup {Uploads!NoReference}
    PROVE  LET new == [c EXCEPT !.at = "answer", !.answer = ref]
           IN  /\ new \in UploadCalls /\ new.id = c.id /\ new.token = c.token
               /\ new.conversation = c.conversation /\ new.at = "answer" /\ new.answer = ref
  BY DEF UploadCalls

\* A call is answered, and neither bytes nor records of others go.
LEMMA AnsweredStep ==
    ASSUME UploadsInv, StillResolves, NEW t \in Tabs, NEW c \in uploads[t], c.at # "answer",
           NEW ref \in References \cup {Uploads!NoReference}, Uploads!Answered(t, c, ref),
           UNCHANGED <<drafted, showing, items, owned, spent, time, sent>>,
           ref # Uploads!NoReference => Resolves(ref, c.conversation)',
           \A u \in Tabs : \A d \in uploads[u] :
              d.at = "create" /\ ~(u = t /\ d = c) => Uploads!Reference(u, d) \in blobs',
           \A r \in staged' : RecordSound(r)' \/ (r \in staged /\ r.reference \in blobs')
    PROVE  UploadsInv'
  <1> DEFINE new == [c EXCEPT !.at = "answer", !.answer = ref]
  <1>1. c \in UploadCalls BY DEF UploadsInv, TabCalls
  <1>2. /\ new \in UploadCalls /\ new.id = c.id /\ new.token = c.token
        /\ new.conversation = c.conversation /\ new.at = "answer" /\ new.answer = ref
    BY <1>1, AnsweredCall
  <1>3. Uploads!Step(t, c, new) BY DEF Uploads!Answered
  <1> HIDE DEF new
  <1>4. StageStep(t, c, new) BY <1>2, <1>3, StepIsStage
  <1>5. \A u \in Tabs : TabCalls(u)' BY <1>2, <1>4, StageCalls
  <1>6. \A r \in staged' : RecordSound(r)' BY <1>4, StageRecords
  <1> QED BY <1>4, <1>5, <1>6, StageInv

LEMMA LookupStep ==
    ASSUME UploadsInv, DraftsOfTabs, NEW t \in Tabs, NEW c \in uploads[t], Uploads!StageLookup(t, c)
    PROVE  UploadsInv'
  <1>1. c \in UploadCalls /\ c.at = "lookup" BY DEF UploadsInv, TabCalls, Uploads!StageLookup
  <1>2. UNCHANGED <<drafted, showing, items, owned, spent, time, sent, staged, blobs>>
    BY DEF Uploads!StageLookup
  <1>3. StillResolves BY <1>2, StoreStays
  <1>4. \A u \in Tabs : \A d \in uploads[u] : d.at = "create" => Uploads!Reference(u, d) \in blobs'
    BY <1>2 DEF UploadsInv, TabCalls
  <1>5. \A r \in staged' : r \in staged /\ r.reference \in blobs'
    BY <1>2 DEF UploadsInv, RecordSound
  <1>6. CASE Uploads!Held(c) = {}
    <2>0. PICK new : new = [c EXCEPT !.at = "put", !.expires = time + TimeToLive] OBVIOUS
    <2>1. time + TimeToLive \in Nat BY DEF UploadsInv, UploadShapes, DraftsOfTabs
    <2>2. /\ new \in UploadCalls /\ new.id = c.id /\ new.token = c.token
          /\ new.conversation = c.conversation /\ new.at = "put" /\ new.answer = c.answer
      BY <1>1, <2>0, <2>1 DEF UploadCalls
    <2>3. Uploads!Step(t, c, new) BY <1>6, <2>0 DEF Uploads!StageLookup
    <2>4. StageStep(t, c, new) BY <1>2, <2>2, <2>3, StepIsStage
    <2>5. new.answer # Uploads!NoReference => Resolves(new.answer, new.conversation)'
      <3>1. new.answer # Uploads!NoReference => Resolves(new.answer, new.conversation)
        BY <2>2 DEF UploadsInv, TabCalls
      <3> QED BY <3>1, <1>3, ResolvesOn
    <2>6. \A u \in Tabs : TabCalls(u)' BY <1>3, <1>4, <2>2, <2>4, <2>5, StageCalls
    <2>7. \A r \in staged' : RecordSound(r)' BY <1>1, <1>5, <2>4, StageRecords
    <2> QED BY <1>3, <2>4, <2>6, <2>7, StageInv
  <1>7. CASE Uploads!Held(c) # {}
    <2> DEFINE r == CHOOSE x \in Uploads!Held(c) : TRUE
               ref == IF Uploads!Live(r) THEN r.reference ELSE Uploads!NoReference
    <2>1. Uploads!Answered(t, c, ref) BY <1>7 DEF Uploads!StageLookup
    <2>2. Resolves(r.reference, c.conversation) BY <1>7, HeldResolves
    <2> HIDE DEF r
    <2>3. Resolves(ref, c.conversation) \/ ref = Uploads!NoReference BY <2>2
    <2>4. ref \in References \cup {Uploads!NoReference} BY <2>2 DEF Resolves
    <2> HIDE DEF ref
    <2>5. \A d : d = ref /\ d # Uploads!NoReference => Resolves(d, c.conversation)'
      BY <1>3, <2>3, ResolvesOn
    <2> QED BY <1>1, <1>2, <1>3, <1>4, <1>5, <2>1, <2>4, <2>5, AnsweredStep
  <1> QED BY <1>6, <1>7

LEMMA PutStep ==
    ASSUME UploadsInv, NEW t \in Tabs, NEW c \in uploads[t], Uploads!StagePut(t, c)
    PROVE  UploadsInv'
  <1> DEFINE new == [c EXCEPT !.at = "create"]
  <1>1. c \in UploadCalls /\ c.at = "put" BY DEF UploadsInv, TabCalls, Uploads!StagePut
  <1>2. /\ UNCHANGED <<drafted, showing, items, owned, spent, time, sent, staged>>
        /\ blobs' = blobs \cup {Uploads!Reference(t, c)}
    BY DEF Uploads!StagePut
  <1>3. StillResolves BY <1>2 DEF StillResolves, Resolves
  <1>4. /\ new \in UploadCalls /\ new.id = c.id /\ new.token = c.token /\ new.expires = c.expires
        /\ new.conversation = c.conversation /\ new.answer = c.answer
    BY <1>1 DEF UploadCalls
  <1>5. Uploads!Step(t, c, new) BY DEF Uploads!StagePut
  <1> HIDE DEF new
  <1>6. StageStep(t, c, new) BY <1>2, <1>4, <1>5, StepIsStage
  <1>7. Uploads!Reference(t, new) \in blobs' BY <1>2, <1>4 DEF Uploads!Reference
  <1>8. \A u \in Tabs : \A d \in uploads[u] : d.at = "create" => Uploads!Reference(u, d) \in blobs'
    BY <1>2 DEF UploadsInv, TabCalls
  <1>9. new.answer # Uploads!NoReference => Resolves(new.answer, new.conversation)'
    <2>1. new.answer # Uploads!NoReference => Resolves(new.answer, new.conversation)
      BY <1>4 DEF UploadsInv, TabCalls
    <2> QED BY <2>1, <1>3, ResolvesOn
  <1>10. \A u \in Tabs : TabCalls(u)' BY <1>3, <1>6, <1>7, <1>8, <1>9, StageCalls
  <1>11. \A r \in staged' : r \in staged /\ r.reference \in blobs'
    BY <1>2 DEF UploadsInv, RecordSound
  <1>12. \A r \in staged' : RecordSound(r)' BY <1>1, <1>6, <1>11, StageRecords
  <1> QED BY <1>3, <1>6, <1>10, <1>12, StageInv

\* The reference of another call is another one.
LEMMA OtherReference ==
    ASSUME UploadsInv, NEW t \in Tabs, NEW c \in uploads[t], NEW u \in Tabs, NEW d \in uploads[u],
           ~(u = t /\ d = c)
    PROVE  Uploads!Reference(u, d) # Uploads!Reference(t, c)
  <1>1. c \in UploadCalls /\ d \in UploadCalls BY DEF UploadsInv, TabCalls
  <1>2. u = t => ~(c.id = d.id /\ c.token = d.token) BY DEF UploadsInv, TabCalls
  <1> QED BY <1>1, <1>2, ReferenceTyped

LEMMA CreateStep ==
    ASSUME UploadsInv, NEW t \in Tabs, NEW c \in uploads[t], Uploads!StageCreate(t, c)
    PROVE  UploadsInv'
  <1> DEFINE mine == Uploads!Reference(t, c)
  <1>1. c \in UploadCalls /\ c.at = "create" BY DEF UploadsInv, TabCalls, Uploads!StageCreate
  <1>2. UNCHANGED <<drafted, showing, items, owned, spent, time, sent>> BY DEF Uploads!StageCreate
  <1>3. mine \in blobs BY <1>1 DEF UploadsInv, TabCalls
  <1>4. /\ mine \in References /\ mine[1] = t /\ mine[2] = c.id /\ mine[3] = c.token
        /\ mine[4] = c.expires
    BY <1>1, ReferenceTyped
  <1>5. \A u \in Tabs : \A d \in uploads[u] :
           d.at = "create" => Uploads!Reference(u, d) \in blobs
    BY DEF UploadsInv, TabCalls
  <1>6. \A u \in Tabs : \A d \in uploads[u] : ~(u = t /\ d = c) => Uploads!Reference(u, d) # mine
    BY OtherReference
  <1>7. \A r \in staged : r.reference # mine /\ r.reference \in blobs
    BY <1>1, ReferenceFresh DEF UploadsInv, RecordSound
  <1> HIDE DEF mine
  <1>8. CASE Uploads!Held(c) = {}
    <2> DEFINE r == [reference |-> mine, file |-> c.file, conversation |-> c.conversation,
                     expires |-> c.expires]
    <2>1. staged' = staged \cup {r} /\ Uploads!Answered(t, c, mine) /\ UNCHANGED blobs
      BY <1>8 DEF Uploads!StageCreate, mine
    <2>2. r \in StagedRecords BY <1>1, <1>4 DEF StagedRecords, UploadCalls
    <2>3. r.reference = mine /\ r.conversation = c.conversation /\ r.expires = c.expires OBVIOUS
    <2> HIDE DEF r
    <2>4. StillResolves BY <1>2, <2>1 DEF StillResolves, Resolves
    <2>5. Resolves(mine, c.conversation)' BY <1>3, <1>4, <2>1, <2>3 DEF Resolves, mine, Uploads!Reference
    <2>6. Begun(t, c.id, c.token)
      BY DEF UploadsInv, TabCalls
    <2>7. Begun(t, c.id, c.token)' BY <1>2, <2>6, BegunSame
    <2>8. uploads'[t] = (uploads[t] \ {c}) \cup {[c EXCEPT !.at = "answer", !.answer = mine]}
      BY <2>1 DEF Uploads!Answered, Uploads!Step, UploadsInv, UploadShapes
    <2>9. \A d \in uploads[t] : d.id = c.id /\ d.token = c.token => d = c
      BY DEF UploadsInv, TabCalls
    <2>10. \A d \in uploads'[t] : d.id = c.id /\ d.token = c.token => d.at = "answer"
      <3>1. [c EXCEPT !.at = "answer", !.answer = mine].at = "answer" BY <1>1 DEF UploadCalls
      <3> QED BY <2>8, <2>9, <3>1
    <2>11. ASSUME NEW s, s = r PROVE RecordSound(s)'
      <3>1. s \in StagedRecords /\ s.reference[4] = s.expires /\ s.reference \in blobs'
        BY <1>3, <1>4, <2>1, <2>2, <2>3, <2>11
      <3>2. s.reference[1] = t /\ s.reference[2] = c.id /\ s.reference[3] = c.token
        BY <1>4, <2>3, <2>11
      <3>3. Begun(s.reference[1], s.reference[2], s.reference[3])' BY <2>7, <3>2
      <3>4. \A d \in uploads'[s.reference[1]] :
               d.id = s.reference[2] /\ d.token = s.reference[3] => d.at = "answer"
        BY <2>10, <3>2
      <3> QED BY <3>1, <3>3, <3>4 DEF RecordSound
    <2>12. \A s \in staged' : RecordSound(s)' \/ (s \in staged /\ s.reference \in blobs')
      <3> SUFFICES ASSUME NEW s \in staged'
                   PROVE  RecordSound(s)' \/ (s \in staged /\ s.reference \in blobs')
        OBVIOUS
      <3>1. CASE s \in staged BY <3>1, <1>7, <2>1
      <3>2. CASE s = r BY <3>2, <2>11
      <3> QED BY <3>1, <3>2, <2>1
    <2>13. \A d : d = mine => Resolves(d, c.conversation)' BY <2>5
    <2> QED BY <1>1, <1>2, <1>4, <1>5, <2>1, <2>4, <2>12, <2>13, AnsweredStep
  <1>9. CASE Uploads!Held(c) # {}
    <2>0. PICK new : new = [c EXCEPT !.at = "winner"] OBVIOUS
    <2>1. Uploads!Step(t, c, new) /\ blobs' = blobs \ {mine} /\ UNCHANGED staged
      BY <1>9, <2>0 DEF Uploads!StageCreate, mine
    <2>2. /\ new \in UploadCalls /\ new.id = c.id /\ new.token = c.token
          /\ new.conversation = c.conversation /\ new.at = "winner" /\ new.answer = c.answer
      BY <1>1, <2>0 DEF UploadCalls
    <2>3. StageStep(t, c, new) BY <1>2, <2>1, <2>2, StepIsStage
    <2>4. StillResolves BY <1>2, <1>7, <2>1 DEF StillResolves, Resolves
    <2>5. new.answer # Uploads!NoReference => Resolves(new.answer, new.conversation)'
      <3>1. new.answer # Uploads!NoReference => Resolves(new.answer, new.conversation)
        BY <2>2 DEF UploadsInv, TabCalls
      <3> QED BY <3>1, <2>4, ResolvesOn
    <2>6. \A u \in Tabs : \A d \in uploads[u] :
             d.at = "create" /\ ~(u = t /\ d = c) => Uploads!Reference(u, d) \in blobs'
      BY <1>5, <1>6, <2>1
    <2>7. \A s \in staged' : s \in staged /\ s.reference \in blobs' BY <1>7, <2>1
    <2>8. \A u \in Tabs : TabCalls(u)' BY <2>2, <2>3, <2>4, <2>5, <2>6, StageCalls
    <2>9. \A s \in staged' : RecordSound(s)' BY <1>1, <2>3, <2>7, StageRecords
    <2> QED BY <2>3, <2>4, <2>8, <2>9, StageInv
  <1> QED BY <1>8, <1>9

LEMMA WinnerStep ==
    ASSUME UploadsInv, NEW t \in Tabs, NEW c \in uploads[t], Uploads!StageWinner(t, c)
    PROVE  UploadsInv'
  <1> DEFINE live == {r \in Uploads!Held(c) : Uploads!Live(r)}
  <1>1. c \in UploadCalls /\ c.at = "winner" BY DEF UploadsInv, TabCalls, Uploads!StageWinner
  <1>2. UNCHANGED <<drafted, showing, items, owned, spent, time, sent, staged, blobs>>
    BY DEF Uploads!StageWinner
  <1>3. StillResolves BY <1>2, StoreStays
  <1>4. \A u \in Tabs : \A d \in uploads[u] : d.at = "create" => Uploads!Reference(u, d) \in blobs'
    BY <1>2 DEF UploadsInv, TabCalls
  <1>5. \A r \in staged' : r \in staged /\ r.reference \in blobs'
    BY <1>2 DEF UploadsInv, RecordSound
  <1>6. PICK ref : /\ ref = Uploads!Winner(t, c)
                   /\ ref = Uploads!NoReference \/ \E r \in live : ref = r.reference
    <2>1. CASE live = {} BY <2>1 DEF Uploads!Winner
    <2>2. CASE live # {}
      <3>1. (CHOOSE r \in live : TRUE) \in live BY <2>2
      <3> QED BY <2>2, <3>1 DEF Uploads!Winner
    <2> QED BY <2>1, <2>2
  <1>7. Resolves(ref, c.conversation) \/ ref = Uploads!NoReference
    <2> SUFFICES ASSUME NEW r \in live, ref = r.reference PROVE Resolves(ref, c.conversation)
      BY <1>6
    <2>1. r \in staged /\ r.conversation = c.conversation BY DEF Uploads!Held
    <2>2. RecordSound(r) BY <2>1 DEF UploadsInv
    <2> QED BY <2>1, <2>2 DEF RecordSound, Resolves, StagedRecords
  <1>8. ref \in References \cup {Uploads!NoReference} BY <1>7 DEF Resolves
  <1>9. ref # Uploads!NoReference => Resolves(ref, c.conversation)' BY <1>3, <1>7, ResolvesOn
  <1>10. Uploads!Answered(t, c, ref) BY <1>6 DEF Uploads!StageWinner
  <1> HIDE DEF live
  <1> QED BY <1>1, <1>2, <1>3, <1>4, <1>5, <1>8, <1>9, <1>10, AnsweredStep

\* The uploader's queue as a handler leaves it to #pump: the items there were,
\* with their tokens, and perhaps a new one.
QueueFits(t, queue, running, added) ==
    /\ added \in Nat /\ running \subseteq uploads[t]
    /\ queue \subseteq UploadItems
    /\ \A x, y \in queue : x.id = y.id => x = y
    /\ \A x \in queue : x.id <= spent[t].items + added
    /\ \A x \in queue : x.id \in owned'[t] => x.conversation = showing'[t]
    /\ \A x \in queue : x.status = "ready" => Resolves(x.reference, x.conversation)
    /\ \A x \in queue : x.id > spent[t].items \/ \E y \in items[t] :
                           y.id = x.id /\ y.token = x.token /\ y.conversation = x.conversation

\* #pump, of whichever queued items it chooses.
Pumped(t, queue, running, added, chosen) ==
    /\ chosen \subseteq queue /\ \A x \in chosen : x.status = "queued"
    /\ items' = [items EXCEPT ![t] = (queue \ chosen) \cup {Uploads!Started(x) : x \in chosen}]
    /\ uploads' = [uploads EXCEPT ![t] = running \cup {Uploads!Upload(x) : x \in chosen}]
    /\ DOMAIN spent' = Tabs /\ spent' = [u \in Tabs |-> spent'[u]]
    /\ \A u \in Tabs : u # t => spent'[u] = spent[u]
    /\ spent'[t].items = spent[t].items + added

LEMMA PumpIsPumped ==
    ASSUME UploadsInv, NEW t \in Tabs, NEW queue, NEW running, NEW added,
           Uploads!Pump(t, queue, running, added)
    PROVE  \E chosen : Pumped(t, queue, running, added, chosen)
  <1> DEFINE queued == {x \in queue : x.status = "queued"}
             free   == Concurrency - Uploads!Cardinality(running)
             chosen == {x \in queued : Uploads!Cardinality({y \in queued : y.id < x.id}) < free}
             counts == [items |-> spent[t].items + added,
                        calls |-> spent[t].calls + Uploads!Cardinality(chosen)]
  <1>1. /\ items' = [items EXCEPT ![t] = (queue \ chosen) \cup {Uploads!Started(x) : x \in chosen}]
        /\ uploads' = [uploads EXCEPT ![t] = running \cup {Uploads!Upload(x) : x \in chosen}]
        /\ spent' = [spent EXCEPT ![t] = counts]
    BY DEF Uploads!Pump
  <1>2. chosen \subseteq queue /\ \A x \in chosen : x.status = "queued" OBVIOUS
  <1>3. counts.items = spent[t].items + added OBVIOUS
  <1> HIDE DEF counts, chosen
  <1>4. /\ DOMAIN spent' = Tabs /\ spent' = [u \in Tabs |-> spent'[u]]
        /\ \A u \in Tabs : u # t => spent'[u] = spent[u]
        /\ spent'[t].items = spent[t].items + added
    BY <1>1, <1>3 DEF UploadsInv, UploadShapes
  <1>5. Pumped(t, queue, running, added, chosen) BY <1>1, <1>2, <1>4 DEF Pumped
  <1> QED BY <1>5

LEMMA StartedFields ==
    ASSUME NEW x \in UploadItems
    PROVE  /\ Uploads!Started(x) \in UploadItems /\ Uploads!Started(x).id = x.id
           /\ Uploads!Started(x).conversation = x.conversation
           /\ Uploads!Started(x).token = x.token + 1 /\ Uploads!Started(x).status = "uploading"
  <1> DEFINE token == x.token + 1
             new == [x EXCEPT !.status = "uploading", !.token = token]
  <1>1. token \in Nat BY DEF UploadItems
  <1>2. Uploads!Started(x) = new BY DEF Uploads!Started
  <1> HIDE DEF token
  <1>3. new \in UploadItems BY <1>1 DEF UploadItems
  <1>4. new.id = x.id /\ new.conversation = x.conversation /\ new.token = token
        /\ new.status = "uploading"
    BY DEF UploadItems
  <1> QED BY <1>2, <1>3, <1>4 DEF token

LEMMA UploadFields ==
    ASSUME NEW x \in UploadItems
    PROVE  /\ Uploads!Upload(x) \in UploadCalls /\ Uploads!Upload(x).id = x.id
           /\ Uploads!Upload(x).conversation = x.conversation
           /\ Uploads!Upload(x).token = x.token + 1 /\ Uploads!Upload(x).at = "lookup"
           /\ Uploads!Upload(x).answer = Uploads!NoReference
  BY DEF Uploads!Upload, UploadItems, UploadCalls

\* What #pump leaves of an item.
LEMMA PumpedItem ==
    ASSUME UploadsInv, NEW t \in Tabs, NEW queue, NEW running, NEW added, NEW chosen,
           QueueFits(t, queue, running, added), Pumped(t, queue, running, added, chosen),
           NEW z \in items'[t]
    PROVE  /\ z \in UploadItems
           /\ \E x \in queue : /\ z.id = x.id /\ z.conversation = x.conversation
                               /\ \/ x \in chosen /\ z = Uploads!Started(x)
                                  \/ x \notin chosen /\ z = x
  <1>1. items'[t] = (queue \ chosen) \cup {Uploads!Started(x) : x \in chosen}
    BY DEF Pumped, UploadsInv, UploadShapes
  <1>2. chosen \subseteq queue /\ queue \subseteq UploadItems BY DEF Pumped, QueueFits
  <1>3. CASE z \in queue \ chosen BY <1>2, <1>3
  <1>4. CASE z \in {Uploads!Started(x) : x \in chosen}
    <2>1. PICK x \in chosen : z = Uploads!Started(x) BY <1>4
    <2> QED BY <1>2, <2>1, StartedFields
  <1> QED BY <1>1, <1>3, <1>4

\* Begun uploads stay begun, and #pump begins none of them again.
LEMMA PumpedBegun ==
    ASSUME UploadsInv, NEW t \in Tabs, NEW queue, NEW running, NEW added, NEW chosen,
           QueueFits(t, queue, running, added), Pumped(t, queue, running, added, chosen),
           NEW id \in Nat, NEW token \in Nat, Begun(t, id, token)
    PROVE  /\ Begun(t, id, token)'
           /\ \A x \in chosen : ~(Uploads!Upload(x).id = id /\ Uploads!Upload(x).token = token)
  <1>1. id <= spent[t].items /\ spent[t].items \in Nat /\ added \in Nat
    BY DEF Begun, UploadsInv, TabQueue, QueueFits
  <1>2. id <= spent'[t].items BY <1>1 DEF Pumped
  <1>3. items[t] \subseteq UploadItems /\ queue \subseteq UploadItems
    BY DEF UploadsInv, TabQueue, QueueFits
  <1>4. ASSUME NEW x \in queue, x.id = id PROVE token <= x.token
    <2>1. PICK y \in items[t] : y.id = x.id /\ y.token = x.token
      BY <1>1, <1>4 DEF QueueFits
    <2> QED BY <1>4, <2>1 DEF Begun
  <1>5. ASSUME NEW z \in items'[t], z.id = id PROVE token <= z.token
    <2>1. PICK x \in queue : z.id = x.id /\ (z = Uploads!Started(x) \/ z = x)
      BY PumpedItem
    <2>2. token <= x.token /\ x.token \in Nat BY <1>3, <1>4, <1>5, <2>1 DEF UploadItems
    <2>3. z.token = x.token + 1 \/ z.token = x.token BY <1>3, <2>1, StartedFields
    <2> QED BY <2>2, <2>3
  <1>6. ASSUME NEW x \in chosen, Uploads!Upload(x).id = id, Uploads!Upload(x).token = token PROVE FALSE
    <2>1. x \in queue /\ x \in UploadItems BY <1>3 DEF Pumped
    <2>2. x.id = id /\ x.token + 1 = token BY <1>6, <2>1, UploadFields
    <2>3. token <= x.token /\ x.token \in Nat BY <1>4, <2>1, <2>2 DEF UploadItems
    <2> QED BY <2>2, <2>3
  <1> QED BY <1>2, <1>5, <1>6 DEF Begun

LEMMA PumpedQueue ==
    ASSUME UploadsInv, StillResolves, NEW t \in Tabs, NEW queue, NEW running, NEW added, NEW chosen,
           QueueFits(t, queue, running, added), Pumped(t, queue, running, added, chosen)
    PROVE  TabQueue(t)'
  <1>1. items'[t] \subseteq UploadItems BY PumpedItem
  <1>2. spent'[t].items \in Nat /\ spent'[t].items = spent[t].items + added
    BY DEF Pumped, QueueFits, UploadsInv, TabQueue
  <1>3. \A x, y \in items'[t] : x.id = y.id => x = y
    <2> SUFFICES ASSUME NEW x \in items'[t], NEW y \in items'[t], x.id = y.id PROVE x = y OBVIOUS
    <2>1. PICK a \in queue : /\ x.id = a.id
                             /\ (a \in chosen /\ x = Uploads!Started(a)) \/ (a \notin chosen /\ x = a)
      BY PumpedItem
    <2>2. PICK b \in queue : /\ y.id = b.id
                             /\ (b \in chosen /\ y = Uploads!Started(b)) \/ (b \notin chosen /\ y = b)
      BY PumpedItem
    <2>3. a = b BY <2>1, <2>2 DEF QueueFits
    <2> QED BY <2>1, <2>2, <2>3
  <1>4. ASSUME NEW z \in items'[t]
        PROVE  /\ z.id <= spent'[t].items
               /\ z.id \in owned'[t] => z.conversation = showing'[t]
               /\ z.status = "ready" => Resolves(z.reference, z.conversation)'
    <2>1. PICK x \in queue : /\ z.id = x.id /\ z.conversation = x.conversation
                             /\ (x \in chosen /\ z = Uploads!Started(x)) \/ z = x
      BY PumpedItem
    <2>2. z.id <= spent'[t].items BY <1>2, <2>1 DEF QueueFits
    <2>3. z.id \in owned'[t] => z.conversation = showing'[t] BY <2>1 DEF QueueFits
    <2>4. x \in UploadItems BY DEF QueueFits
    <2>5. z.status = "ready" => z = x BY <2>1, <2>4, StartedFields
    <2>6. z.status = "ready" => Resolves(z.reference, z.conversation) BY <2>5 DEF QueueFits
    <2>7. z.status = "ready" => Resolves(z.reference, z.conversation)' BY <2>6, ResolvesOn
    <2> QED BY <2>2, <2>3, <2>7
  <1> QED BY <1>1, <1>2, <1>3, <1>4 DEF TabQueue

\* What #pump leaves of the calls.
LEMMA PumpedCall ==
    ASSUME UploadsInv, NEW t \in Tabs, NEW queue, NEW running, NEW added, NEW chosen,
           QueueFits(t, queue, running, added), Pumped(t, queue, running, added, chosen),
           NEW c \in uploads'[t]
    PROVE  \/ c \in uploads[t]
           \/ \E x \in chosen : /\ x \in queue /\ x \in UploadItems /\ c = Uploads!Upload(x)
  <1>1. uploads'[t] = running \cup {Uploads!Upload(x) : x \in chosen}
    BY DEF Pumped, UploadsInv, UploadShapes
  <1>2. running \subseteq uploads[t] /\ chosen \subseteq queue /\ queue \subseteq UploadItems
    BY DEF Pumped, QueueFits
  <1> QED BY <1>1, <1>2

LEMMA PumpedCalls ==
    ASSUME UploadsInv, StillResolves, UNCHANGED blobs,
           NEW t \in Tabs, NEW queue, NEW running, NEW added, NEW chosen,
           QueueFits(t, queue, running, added), Pumped(t, queue, running, added, chosen)
    PROVE  TabCalls(t)'
  <1>1. TabCalls(t) /\ TabQueue(t) BY DEF UploadsInv
  <1>2. queue \subseteq UploadItems BY DEF QueueFits
  <1>3. uploads'[t] \subseteq UploadCalls BY <1>1, PumpedCall, UploadFields DEF TabCalls
  <1>4. ASSUME NEW c \in uploads[t], NEW x \in chosen
        PROVE  ~(Uploads!Upload(x).id = c.id /\ Uploads!Upload(x).token = c.token)
    <2>1. c.id \in Nat /\ c.token \in Nat /\ Begun(t, c.id, c.token)
      BY <1>1 DEF TabCalls, UploadCalls
    <2> QED BY <2>1, PumpedBegun
  <1>5. ASSUME NEW x \in chosen, NEW y \in chosen, Uploads!Upload(x).id = Uploads!Upload(y).id
        PROVE  x = y
    <2>1. x \in queue /\ y \in queue BY DEF Pumped
    <2>2. x.id = y.id BY <1>2, <1>5, <2>1, UploadFields
    <2> QED BY <2>1, <2>2 DEF QueueFits
  <1>6. \A c, d \in uploads'[t] : c.id = d.id /\ c.token = d.token => c = d
    <2> SUFFICES ASSUME NEW c \in uploads'[t], NEW d \in uploads'[t], c.id = d.id, c.token = d.token
                 PROVE  c = d
      OBVIOUS
    <2>1. CASE c \in uploads[t] /\ d \in uploads[t] BY <1>1, <2>1 DEF TabCalls
    <2>2. CASE c \in uploads[t] /\ d \notin uploads[t] BY <1>4, <2>2, PumpedCall
    <2>3. CASE c \notin uploads[t] /\ d \in uploads[t] BY <1>4, <2>3, PumpedCall
    <2>4. CASE c \notin uploads[t] /\ d \notin uploads[t] BY <1>5, <2>4, PumpedCall
    <2> QED BY <2>1, <2>2, <2>3, <2>4
  <1>7. ASSUME NEW x \in chosen, NEW z \in items'[t], z.id = Uploads!Upload(x).id
        PROVE  z.conversation = Uploads!Upload(x).conversation /\ z.token = Uploads!Upload(x).token
    <2>1. PICK a \in queue : /\ z.id = a.id /\ z.conversation = a.conversation
                             /\ (a \in chosen /\ z = Uploads!Started(a)) \/ (a \notin chosen /\ z = a)
      BY PumpedItem
    <2>2. x \in queue /\ x \in UploadItems BY <1>2 DEF Pumped
    <2>3. a.id = x.id BY <1>7, <2>1, <2>2, UploadFields
    <2>4. a = x BY <2>2, <2>3 DEF QueueFits
    <2> QED BY <2>1, <2>2, <2>4, UploadFields, StartedFields
  <1>8. ASSUME NEW c \in uploads'[t] PROVE Begun(t, c.id, c.token)'
    <2>1. CASE c \in uploads[t]
      <3>1. c.id \in Nat /\ c.token \in Nat /\ Begun(t, c.id, c.token)
        BY <1>1, <2>1 DEF TabCalls, UploadCalls
      <3> QED BY <3>1, PumpedBegun
    <2>2. ASSUME NEW x \in chosen, x \in queue, x \in UploadItems, c = Uploads!Upload(x)
          PROVE  Begun(t, c.id, c.token)'
      <3>1. c.id <= spent'[t].items BY <2>2, UploadFields DEF Pumped, QueueFits
      <3>2. c.token \in Nat BY <1>3 DEF UploadCalls
      <3>3. \A z \in items'[t] : z.id = c.id => c.token <= z.token BY <1>7, <2>2, <3>2
      <3> QED BY <3>1, <3>3 DEF Begun
    <2> QED BY <2>1, <2>2, PumpedCall
  <1>9. ASSUME NEW c \in uploads'[t], NEW z \in items'[t], z.id = c.id
        PROVE  z.conversation = c.conversation
    <2>1. CASE c \in uploads[t]
      <3>1. PICK x \in queue : z.id = x.id /\ z.conversation = x.conversation BY PumpedItem
      <3>2. c.id \in Nat /\ c.id <= spent[t].items /\ spent[t].items \in Nat
        BY <1>1, <2>1 DEF TabCalls, TabQueue, Begun, UploadCalls
      <3>3. PICK y \in items[t] : y.id = x.id /\ y.conversation = x.conversation
        BY <1>9, <3>1, <3>2 DEF QueueFits
      <3> QED BY <1>1, <1>9, <2>1, <3>1, <3>3 DEF TabCalls
    <2>2. CASE c \notin uploads[t] BY <1>7, <1>9, <2>2, PumpedCall
    <2> QED BY <2>1, <2>2
  <1>10. ASSUME NEW c \in uploads'[t], c.answer # Uploads!NoReference
         PROVE  Resolves(c.answer, c.conversation)'
    <2>1. c \in uploads[t] BY <1>10, PumpedCall, UploadFields
    <2>2. Resolves(c.answer, c.conversation) BY <1>1, <1>10, <2>1 DEF TabCalls
    <2> QED BY <2>2, ResolvesOn
  <1>11. ASSUME NEW c \in uploads'[t], c.at = "create" PROVE Uploads!Reference(t, c) \in blobs'
    <2>1. c \in uploads[t] BY <1>11, PumpedCall, UploadFields
    <2> QED BY <1>1, <1>11, <2>1 DEF TabCalls
  <1>12. \A d : Uploads!Reference(t, d)' = Uploads!Reference(t, d) BY DEF Uploads!Reference
  <1> QED BY <1>3, <1>6, <1>8, <1>9, <1>10, <1>11, <1>12 DEF TabCalls, Uploads!NoReference

LEMMA PumpedRecords ==
    ASSUME UploadsInv, UNCHANGED blobs,
           NEW t \in Tabs, NEW queue, NEW running, NEW added, NEW chosen,
           QueueFits(t, queue, running, added), Pumped(t, queue, running, added, chosen),
           NEW r \in staged
    PROVE  RecordSound(r)'
  <1>1. RecordSound(r) BY DEF UploadsInv
  <1>2. r.reference[1] \in Tabs /\ r.reference[2] \in Nat /\ r.reference[3] \in Nat
    BY <1>1 DEF RecordSound, StagedRecords, References
  <1>3. /\ Begun(r.reference[1], r.reference[2], r.reference[3])
        /\ \A c \in uploads[r.reference[1]] :
              c.id = r.reference[2] /\ c.token = r.reference[3] => c.at = "answer"
    BY <1>1 DEF RecordSound
  <1>4. /\ Begun(r.reference[1], r.reference[2], r.reference[3])'
        /\ \A c \in uploads'[r.reference[1]] :
              c.id = r.reference[2] /\ c.token = r.reference[3] => c.at = "answer"
    <2>1. CASE r.reference[1] = t
      <3>1. Begun(t, r.reference[2], r.reference[3]) BY <1>3, <2>1
      <3>2. /\ Begun(t, r.reference[2], r.reference[3])'
            /\ \A x \in chosen : ~(/\ Uploads!Upload(x).id = r.reference[2]
                                   /\ Uploads!Upload(x).token = r.reference[3])
        BY <1>2, <3>1, PumpedBegun
      <3> QED BY <1>3, <2>1, <3>2, PumpedCall
    <2>2. CASE r.reference[1] # t
      <3>1. /\ items'[r.reference[1]] = items[r.reference[1]]
            /\ uploads'[r.reference[1]] = uploads[r.reference[1]]
            /\ spent'[r.reference[1]] = spent[r.reference[1]]
        BY <1>2, <2>2 DEF Pumped, UploadsInv, UploadShapes
      <3> QED BY <1>3, <3>1 DEF Begun
    <2> QED BY <2>1, <2>2
  <1> QED BY <1>1, <1>4 DEF RecordSound

\* The uploader of another composer is not touched.
LEMMA OtherUploader ==
    ASSUME UploadsInv, StillResolves, UNCHANGED blobs, NEW u \in Tabs,
           items'[u] = items[u], uploads'[u] = uploads[u], spent'[u] = spent[u],
           owned'[u] = owned[u], showing'[u] = showing[u]
    PROVE  TabQueue(u)' /\ TabCalls(u)'
  <1>1. TabQueue(u) /\ TabCalls(u) BY DEF UploadsInv
  <1>2. ASSUME NEW x \in items[u], x.status = "ready" PROVE Resolves(x.reference, x.conversation)'
    BY <1>1, <1>2, ResolvesOn DEF TabQueue
  <1>3. TabQueue(u)' BY <1>1, <1>2 DEF TabQueue
  <1>4. ASSUME NEW c \in uploads[u], c.answer # Uploads!NoReference
        PROVE  Resolves(c.answer, c.conversation)'
    BY <1>1, <1>4, ResolvesOn DEF TabCalls
  <1>5. \A c \in uploads[u] : Begun(u, c.id, c.token)' BY <1>1 DEF TabCalls, Begun
  <1>6. \A d : Uploads!Reference(u, d)' = Uploads!Reference(u, d) BY DEF Uploads!Reference
  <1>7. TabCalls(u)' BY <1>1, <1>4, <1>5, <1>6 DEF TabCalls, Uploads!NoReference
  <1> QED BY <1>3, <1>7

\* What a handler of the composer does besides: nothing to the store.
ComposerStep(t) ==
    /\ UNCHANGED <<drafted, staged, blobs, time, sent>>
    /\ showing' \in [Tabs -> Chats]
    /\ DOMAIN owned' = Tabs /\ owned' = [u \in Tabs |-> owned'[u]]
    /\ \A u \in Tabs : u # t => owned'[u] = owned[u] /\ showing'[u] = showing[u]

LEMMA PumpStep ==
    ASSUME UploadsInv, NEW t \in Tabs, NEW queue, NEW running, NEW added,
           Uploads!Pump(t, queue, running, added), QueueFits(t, queue, running, added), ComposerStep(t)
    PROVE  UploadsInv'
  <1>1. PICK chosen : Pumped(t, queue, running, added, chosen) BY PumpIsPumped
  <1>2. UNCHANGED <<drafted, staged, blobs, time, sent>> BY DEF ComposerStep
  <1>3. StillResolves BY <1>2, StoreStays
  <1>4. UploadShapes'
    BY <1>1 DEF UploadsInv, UploadShapes, Pumped, ComposerStep
  <1>5. TabQueue(t)' BY <1>1, <1>3, PumpedQueue
  <1>6. TabCalls(t)' BY <1>1, <1>2, <1>3, PumpedCalls
  <1>7. ASSUME NEW u \in Tabs, u # t PROVE TabQueue(u)' /\ TabCalls(u)'
    <2>1. items'[u] = items[u] /\ uploads'[u] = uploads[u] /\ spent'[u] = spent[u]
      BY <1>1, <1>7 DEF Pumped, UploadsInv, UploadShapes
    <2>2. owned'[u] = owned[u] /\ showing'[u] = showing[u] BY <1>7 DEF ComposerStep
    <2> QED BY <1>2, <1>3, <2>1, <2>2, OtherUploader
  <1>8. \A r \in staged' : RecordSound(r)' BY <1>1, <1>2, PumpedRecords
  <1>9. \A m \in sent' : Resolves(m.reference, m.conversation)' BY <1>2, <1>3, SentStays
  <1> QED BY <1>4, <1>5, <1>6, <1>7, <1>8, <1>9 DEF UploadsInv

\* A handler that only drops items, or changes one in place.
LEMMA QueueShrinks ==
    ASSUME UploadsInv, NEW t \in Tabs, NEW queue, queue \subseteq items[t],
           NEW running, running \subseteq uploads[t],
           \A x \in queue : x.id \in owned'[t] => x.id \in owned[t] /\ showing'[t] = showing[t]
    PROVE  QueueFits(t, queue, running, 0)
  <1>1. TabQueue(t) BY DEF UploadsInv
  <1>2. \A x \in queue : x.id <= spent[t].items + 0
    BY <1>1 DEF TabQueue
  <1>3. \A x \in queue : x.id \in owned'[t] => x.conversation = showing'[t] BY <1>1 DEF TabQueue
  <1> QED BY <1>1, <1>2, <1>3 DEF TabQueue, QueueFits

LEMMA QueueUpdates ==
    ASSUME UploadsInv, UNCHANGED <<owned, showing>>, NEW t \in Tabs, NEW o \in items[t],
           NEW new \in UploadItems, new.id = o.id, new.token = o.token, new.conversation = o.conversation,
           new.status = "ready" => Resolves(new.reference, new.conversation),
           NEW running, running \subseteq uploads[t]
    PROVE  QueueFits(t, Uploads!Update(t, o.id, new), running, 0)
  <1> DEFINE queue == Uploads!Update(t, o.id, new)
  <1>1. TabQueue(t) BY DEF UploadsInv
  <1>2. \A z \in queue : (z \in items[t] /\ z.id # o.id) \/ z = new BY DEF Uploads!Update
  <1> HIDE DEF queue
  <1>3. queue \subseteq UploadItems BY <1>1, <1>2 DEF TabQueue
  <1>4. \A z \in queue : \E x \in items[t] :
           x.id = z.id /\ x.token = z.token /\ x.conversation = z.conversation
    BY <1>2
  <1>5. \A x, y \in queue : x.id = y.id => x = y BY <1>1, <1>2 DEF TabQueue
  <1>6. \A z \in queue : z.id <= spent[t].items + 0 BY <1>1, <1>4 DEF TabQueue
  <1>7. \A z \in queue : z.id \in owned'[t] => z.conversation = showing'[t] BY <1>1, <1>4 DEF TabQueue
  <1>8. \A z \in queue : z.status = "ready" => Resolves(z.reference, z.conversation)
    BY <1>1, <1>2 DEF TabQueue
  <1>9. QueueFits(t, queue, running, 0) BY <1>3, <1>4, <1>5, <1>6, <1>7, <1>8 DEF QueueFits
  <1> QED BY <1>9 DEF queue

LEMMA ItemById ==
    ASSUME NEW t, NEW id, id \in Uploads!Ids(t)
    PROVE  Uploads!ById(t, id) \in items[t] /\ Uploads!ById(t, id).id = id
  BY DEF Uploads!Ids, Uploads!ById

LEMMA SelectStep ==
    ASSUME UploadsInv, NEW t \in Tabs, NEW f \in DraftFiles, Uploads!Select(t, f)
    PROVE  UploadsInv'
  <1> DEFINE new == Uploads!Enqueue(t, f)
             queue == items[t] \cup {new}
  <1>1. TabQueue(t) BY DEF UploadsInv
  <1>2. spent[t].items \in Nat /\ showing[t] \in Chats
    BY <1>1 DEF TabQueue, UploadsInv, UploadShapes
  <1>3. /\ new \in UploadItems /\ new.id = spent[t].items + 1 /\ new.status = "queued"
        /\ new.conversation = showing[t]
    BY <1>2 DEF Uploads!Enqueue, UploadItems
  <1>4. /\ owned' = [owned EXCEPT ![t] = owned[t] \cup {new.id}]
        /\ Uploads!Pump(t, queue, uploads[t], 1)
        /\ UNCHANGED <<drafted, showing, staged, blobs, time, sent>>
    BY DEF Uploads!Select
  <1> HIDE DEF new
  <1>5. ComposerStep(t) BY <1>4 DEF ComposerStep, UploadsInv, UploadShapes
  <1>6. \A x \in queue : x \in items[t] \/ x = new OBVIOUS
  <1> HIDE DEF queue
  <1>7. \A x \in items[t] : x.id \in Nat /\ x.id <= spent[t].items BY <1>1 DEF TabQueue, UploadItems
  <1>8. \A x, y \in queue : x.id = y.id => x = y BY <1>1, <1>2, <1>3, <1>6, <1>7 DEF TabQueue
  <1>9. \A x \in queue : x.id <= spent[t].items + 1 BY <1>2, <1>3, <1>6, <1>7
  <1>10. owned'[t] = owned[t] \cup {new.id} BY <1>4 DEF UploadsInv, UploadShapes
  <1>11. \A x \in items[t] : x.id # new.id BY <1>2, <1>3, <1>7
  <1>12. \A x \in queue : x.id \in owned'[t] => x.conversation = showing'[t]
    BY <1>1, <1>3, <1>4, <1>6, <1>10, <1>11 DEF TabQueue
  <1>13. \A x \in queue : x.status = "ready" => Resolves(x.reference, x.conversation)
    BY <1>1, <1>3, <1>6 DEF TabQueue
  <1>14. new.id > spent[t].items BY <1>2, <1>3
  <1>15. queue \subseteq UploadItems BY <1>1, <1>3, <1>6 DEF TabQueue
  <1>16. QueueFits(t, queue, uploads[t], 1)
    BY <1>6, <1>8, <1>9, <1>12, <1>13, <1>14, <1>15 DEF QueueFits
  <1> QED BY <1>4, <1>5, <1>16, PumpStep

LEMMA RemoveStep ==
    ASSUME UploadsInv, NEW t \in Tabs, NEW id, Uploads!RemoveAttachment(t, id)
    PROVE  UploadsInv'
  <1>1. /\ owned' = [owned EXCEPT ![t] = owned[t] \ {id}]
        /\ Uploads!Pump(t, Uploads!Drop(t, {id}), uploads[t], 0)
        /\ UNCHANGED <<drafted, showing, staged, blobs, time, sent>>
    BY DEF Uploads!RemoveAttachment
  <1>2. ComposerStep(t) BY <1>1 DEF ComposerStep, UploadsInv, UploadShapes
  <1>3. owned'[t] = owned[t] \ {id} BY <1>1 DEF UploadsInv, UploadShapes
  <1>4. Uploads!Drop(t, {id}) \subseteq items[t] BY DEF Uploads!Drop
  <1>5. QueueFits(t, Uploads!Drop(t, {id}), uploads[t], 0) BY <1>1, <1>3, <1>4, QueueShrinks
  <1> QED BY <1>1, <1>2, <1>5, PumpStep

LEMMA RetryUploadStep ==
    ASSUME UploadsInv, NEW t \in Tabs, NEW id, Uploads!RetryAttachment(t, id)
    PROVE  UploadsInv'
  <1> DEFINE o == Uploads!ById(t, id)
             new == [o EXCEPT !.status = "queued"]
  <1>1. /\ id \in Uploads!Ids(t)
        /\ Uploads!Pump(t, Uploads!Update(t, id, new), uploads[t], 0)
        /\ UNCHANGED <<drafted, showing, owned, staged, blobs, time, sent>>
    BY DEF Uploads!RetryAttachment
  <1>2. o \in items[t] /\ o.id = id BY <1>1, ItemById
  <1> HIDE DEF o
  <1>3. o \in UploadItems BY <1>2 DEF UploadsInv, TabQueue
  <1>4. /\ new \in UploadItems /\ new.id = o.id /\ new.token = o.token
        /\ new.conversation = o.conversation /\ new.status = "queued"
    BY <1>3 DEF UploadItems
  <1> HIDE DEF new
  <1>5. QueueFits(t, Uploads!Update(t, id, new), uploads[t], 0) BY <1>1, <1>2, <1>4, QueueUpdates
  <1>6. ComposerStep(t) BY <1>1 DEF ComposerStep, UploadsInv, UploadShapes
  <1> QED BY <1>1, <1>5, <1>6, PumpStep

LEMMA SwitchStep ==
    ASSUME UploadsInv, NEW t \in Tabs, Uploads!SwitchConversation(t)
    PROVE  UploadsInv'
  <1>1. /\ \E c \in Chats : showing' = [showing EXCEPT ![t] = c]
        /\ owned' = [owned EXCEPT ![t] = {}]
        /\ Uploads!Pump(t, Uploads!Drop(t, owned[t]), uploads[t], 0)
        /\ UNCHANGED <<drafted, staged, blobs, time, sent>>
    BY DEF Uploads!SwitchConversation
  <1>2. ComposerStep(t) BY <1>1 DEF ComposerStep, UploadsInv, UploadShapes
  <1>3. owned'[t] = {} BY <1>1 DEF UploadsInv, UploadShapes
  <1>4. Uploads!Drop(t, owned[t]) \subseteq items[t] BY DEF Uploads!Drop
  <1>5. QueueFits(t, Uploads!Drop(t, owned[t]), uploads[t], 0) BY <1>3, <1>4, QueueShrinks
  <1> QED BY <1>1, <1>2, <1>5, PumpStep

LEMMA CallsStay ==
    ASSUME UploadsInv, StillResolves, UNCHANGED <<items, uploads, spent>>,
           \A u \in Tabs : \A d \in uploads[u] : d.at = "create" => Uploads!Reference(u, d) \in blobs'
    PROVE  \A u \in Tabs : TabCalls(u)'
  <1> SUFFICES ASSUME NEW u \in Tabs PROVE TabCalls(u)' OBVIOUS
  <1>1. TabCalls(u) BY DEF UploadsInv
  <1>2. ASSUME NEW c \in uploads[u], c.answer # Uploads!NoReference
        PROVE  Resolves(c.answer, c.conversation)'
    BY <1>1, <1>2, ResolvesOn DEF TabCalls
  <1>3. \A c \in uploads[u] : Begun(u, c.id, c.token)' BY <1>1, BegunSame DEF TabCalls
  <1>4. \A d : Uploads!Reference(u, d)' = Uploads!Reference(u, d) BY DEF Uploads!Reference
  <1> QED BY <1>1, <1>2, <1>3, <1>4 DEF TabCalls, Uploads!NoReference

LEMMA RecordsStay ==
    ASSUME UploadsInv, UNCHANGED <<items, uploads, spent>>, staged' \subseteq staged,
           \A r \in staged' : r.reference \in blobs'
    PROVE  \A r \in staged' : RecordSound(r)'
  <1> SUFFICES ASSUME NEW r \in staged' PROVE RecordSound(r)' OBVIOUS
  <1>1. RecordSound(r) BY DEF UploadsInv
  <1>2. Begun(r.reference[1], r.reference[2], r.reference[3])' BY <1>1, BegunSame DEF RecordSound
  <1> QED BY <1>1, <1>2 DEF RecordSound

\* The uploaders stand still: the store may lose what expired.
LEMMA UploadersStand ==
    ASSUME UploadsInv, StillResolves, UNCHANGED <<drafted, showing, items, uploads, owned, spent>>,
           time' \in Nat, staged' \subseteq staged, \A r \in staged' : r.reference \in blobs',
           \A u \in Tabs : \A d \in uploads[u] : d.at = "create" => Uploads!Reference(u, d) \in blobs',
           \A m \in sent' : Resolves(m.reference, m.conversation)'
    PROVE  UploadsInv'
  <1>1. UploadShapes' BY DEF UploadsInv, UploadShapes
  <1>2. \A u \in Tabs : TabQueue(u)' BY QueuesStay
  <1>3. \A u \in Tabs : TabCalls(u)' BY CallsStay
  <1>4. \A r \in staged' : RecordSound(r)' BY RecordsStay
  <1> QED BY <1>1, <1>2, <1>3, <1>4 DEF UploadsInv

\* Nothing of the store changes but the clock, which goes on.
LEMMA StoreStands ==
    ASSUME UploadsInv, UNCHANGED <<drafted, showing, items, uploads, owned, spent, staged, blobs>>,
           time' \in Nat, time <= time', \A m \in sent' : m \in sent \/ Resolves(m.reference, m.conversation)
    PROVE  UploadsInv'
  <1>1. time \in Nat BY DEF UploadsInv, UploadShapes
  <1>2. StillResolves
    <2> SUFFICES ASSUME NEW ref, NEW conversation, Resolves(ref, conversation)
                 PROVE  /\ ref \in References
                        /\ \/ \E r \in staged' : /\ r.reference = ref /\ r.conversation = conversation
                                                 /\ ref \in blobs'
                           \/ ref[4] <= time'
      BY DEF StillResolves
    <2>1. ref \in References /\ ref[4] \in Nat BY DEF Resolves, References
    <2>2. ref[4] <= time => ref[4] <= time' BY <1>1, <2>1
    <2> QED BY <2>1, <2>2 DEF Resolves
  <1>3. \A r \in staged' : r.reference \in blobs' BY DEF UploadsInv, RecordSound
  <1>4. \A u \in Tabs : \A d \in uploads[u] : d.at = "create" => Uploads!Reference(u, d) \in blobs'
    BY DEF UploadsInv, TabCalls
  <1>5. ASSUME NEW m \in sent' PROVE Resolves(m.reference, m.conversation)'
    <2>1. Resolves(m.reference, m.conversation) BY DEF UploadsInv
    <2> QED BY <1>2, <2>1, ResolvesOn
  <1> QED BY <1>2, <1>3, <1>4, <1>5, UploadersStand

LEMMA SendEndsStep ==
    ASSUME UploadsInv, NEW t \in Tabs, Uploads!SendEnds(t)
    PROVE  UploadsInv'
  <1>1. UNCHANGED <<drafted, showing, staged, blobs, time, sent>> BY DEF Uploads!SendEnds
  <1>2. CASE UNCHANGED <<owned, items, uploads, spent>>
    <2>1. time' \in Nat /\ time <= time' BY <1>1 DEF UploadsInv, UploadShapes
    <2> QED BY <1>1, <1>2, <2>1, StoreStands
  <1>3. CASE /\ owned' = [owned EXCEPT ![t] = @ \ sending[t].ids]
             /\ Uploads!Pump(t, Uploads!Drop(t, sending[t].ids), uploads[t], 0)
    <2>1. ComposerStep(t) BY <1>1, <1>3 DEF ComposerStep, UploadsInv, UploadShapes
    <2>2. owned'[t] \subseteq owned[t] BY <1>3 DEF UploadsInv, UploadShapes
    <2>3. Uploads!Drop(t, sending[t].ids) \subseteq items[t] BY DEF Uploads!Drop
    <2>4. QueueFits(t, Uploads!Drop(t, sending[t].ids), uploads[t], 0)
      BY <1>1, <2>2, <2>3, QueueShrinks
    <2> QED BY <1>3, <2>1, <2>4, PumpStep
  <1> QED BY <1>2, <1>3 DEF Uploads!SendEnds

\* The message carries what its items refer to, in the conversation shown.
LEMMA SubmitStep ==
    ASSUME UploadsInv, NEW t \in Tabs, Uploads!Submit(t)
    PROVE  UploadsInv'
  <1>1. /\ sent' = sent \cup {[reference |-> Uploads!ById(t, id).reference,
                               conversation |-> showing[t]] : id \in owned[t]}
        /\ UNCHANGED <<drafted, showing, items, uploads, owned, spent, staged, blobs, time>>
    BY DEF Uploads!Submit
  <1>2. \A id \in owned[t] : id \in Uploads!Ids(t) /\ Uploads!ById(t, id).status = "ready"
    BY DEF Uploads!Submit
  <1>3. ASSUME NEW id \in owned[t] PROVE Resolves(Uploads!ById(t, id).reference, showing[t])
    <2>1. /\ Uploads!ById(t, id) \in items[t] /\ Uploads!ById(t, id).id = id
          /\ Uploads!ById(t, id).status = "ready"
      BY <1>2, ItemById
    <2>2. TabQueue(t) BY DEF UploadsInv
    <2>3. Uploads!ById(t, id).conversation = showing[t] BY <2>1, <2>2 DEF TabQueue
    <2>4. Resolves(Uploads!ById(t, id).reference, Uploads!ById(t, id).conversation)
      BY <2>1, <2>2 DEF TabQueue
    <2> QED BY <2>3, <2>4
  <1>4. ASSUME NEW m \in sent', m \notin sent PROVE Resolves(m.reference, m.conversation)
    <2>1. PICK id \in owned[t] : m = [reference |-> Uploads!ById(t, id).reference,
                                      conversation |-> showing[t]]
      BY <1>1, <1>4
    <2>2. m.reference = Uploads!ById(t, id).reference /\ m.conversation = showing[t] BY <2>1
    <2> QED BY <1>3, <2>2
  <1>5. time' \in Nat /\ time <= time' BY <1>1 DEF UploadsInv, UploadShapes
  <1> QED BY <1>1, <1>4, <1>5, StoreStands

\* A result counts only for the item that still has its token.
LEMMA SettlesStep ==
    ASSUME UploadsInv, NEW t \in Tabs, NEW c \in uploads[t], Uploads!UploadSettles(t, c)
    PROVE  UploadsInv'
  <1> DEFINE current == {x \in items[t] :
                            x.id = c.id /\ x.token = c.token /\ x.status = "uploading"}
             o == Uploads!ById(t, c.id)
             NewStatus(ok) == IF ok THEN "ready" ELSE "failed"
             NewReference(ok) == IF ok THEN c.answer ELSE Uploads!NoReference
             New(ok) == [o EXCEPT !.status = NewStatus(ok), !.reference = NewReference(ok)]
             Queue(ok) == IF current = {} THEN items[t] ELSE Uploads!Update(t, c.id, New(ok))
  <1>1. PICK ok \in BOOLEAN : /\ ok => c.at = "answer" /\ c.answer # Uploads!NoReference
                              /\ Uploads!Pump(t, Queue(ok), uploads[t] \ {c}, 0)
    BY DEF Uploads!UploadSettles
  <1>2. UNCHANGED <<drafted, showing, owned, staged, blobs, time, sent>> BY DEF Uploads!UploadSettles
  <1>3. ComposerStep(t) BY <1>2 DEF ComposerStep, UploadsInv, UploadShapes
  <1>4. TabQueue(t) /\ TabCalls(t) BY DEF UploadsInv
  <1>5. CASE current = {}
    <2>1. Uploads!Pump(t, items[t], uploads[t] \ {c}, 0) BY <1>1, <1>5
    <2>2. QueueFits(t, items[t], uploads[t] \ {c}, 0) BY <1>2, QueueShrinks
    <2> QED BY <1>3, <2>1, <2>2, PumpStep
  <1>6. CASE current # {}
    <2> DEFINE status == NewStatus(ok)
               reference == NewReference(ok)
               new == [o EXCEPT !.status = status, !.reference = reference]
    <2>1. Uploads!Pump(t, Uploads!Update(t, c.id, new), uploads[t] \ {c}, 0) BY <1>1, <1>6
    <2>2. c.id \in Uploads!Ids(t) BY <1>6 DEF Uploads!Ids
    <2>3. o \in items[t] /\ o.id = c.id BY <2>2, ItemById
    <2>4. o.conversation = c.conversation /\ o \in UploadItems BY <1>4, <2>3 DEF TabCalls, TabQueue
    <2>5. status \in {"ready", "failed"} /\ (status = "ready" => ok) OBVIOUS
    <2>6. c.answer \in References \cup {Uploads!NoReference}
      BY <1>4 DEF TabCalls, UploadCalls
    <2>7. reference \in References \cup {Uploads!NoReference} /\ (ok => reference = c.answer) BY <2>6
    <2>8. ok => Resolves(c.answer, c.conversation) BY <1>1, <1>4 DEF TabCalls
    <2> HIDE DEF status, reference, o, current, NewStatus, NewReference
    <2>9. new \in UploadItems BY <2>4, <2>5, <2>7 DEF UploadItems
    <2>10. /\ new.id = o.id /\ new.token = o.token /\ new.conversation = o.conversation
           /\ new.status = status /\ new.reference = reference
      BY <2>4 DEF UploadItems
    <2> HIDE DEF new
    <2>11. new.status = "ready" => Resolves(new.reference, new.conversation)
      BY <2>4, <2>5, <2>7, <2>8, <2>10
    <2>12. QueueFits(t, Uploads!Update(t, c.id, new), uploads[t] \ {c}, 0)
      BY <1>2, <2>3, <2>9, <2>10, <2>11, QueueUpdates
    <2> QED BY <1>3, <2>1, <2>12, PumpStep
  <1> QED BY <1>5, <1>6

\* Bytes go with the record that expired, and no other one refers to them.
LEMMA CleanupStep ==
    ASSUME UploadsInv, Uploads!CleanupExpired
    PROVE  UploadsInv'
  <1>1. /\ blobs' = blobs \ {r.reference : r \in {x \in staged : Uploads!Expired(x)}}
        /\ staged' = {r \in staged : ~Uploads!Expired(r)}
        /\ UNCHANGED <<drafted, showing, items, uploads, owned, time, sent, spent>>
    BY DEF Uploads!CleanupExpired
  <1>2. \A r \in staged : RecordSound(r) BY DEF UploadsInv
  <1>3. \A r, s \in staged : r.reference = s.reference => r.expires = s.expires
    BY <1>2 DEF RecordSound
  <1>4. \A r \in staged' : r \in staged /\ r.reference \in blobs'
    BY <1>1, <1>2, <1>3 DEF RecordSound, Uploads!Expired
  <1>5. ASSUME NEW ref, NEW conversation, Resolves(ref, conversation)
        PROVE  /\ ref \in References
               /\ \/ \E r \in staged' : /\ r.reference = ref /\ r.conversation = conversation
                                        /\ ref \in blobs'
                  \/ ref[4] <= time'
    <2>1. ref \in References BY <1>5 DEF Resolves
    <2>2. CASE ref[4] <= time BY <1>1, <2>1, <2>2
    <2>3. ASSUME NEW r \in staged, r.reference = ref, r.conversation = conversation
          PROVE  \/ \E s \in staged' : /\ s.reference = ref /\ s.conversation = conversation
                                       /\ ref \in blobs'
                 \/ ref[4] <= time'
      <3>1. ref[4] = r.expires BY <1>2, <2>3 DEF RecordSound
      <3>2. CASE Uploads!Expired(r) BY <1>1, <3>1, <3>2 DEF Uploads!Expired
      <3>3. CASE ~Uploads!Expired(r)
        <4>1. r \in staged' BY <1>1, <3>3
        <4> QED BY <1>4, <2>3, <4>1
      <3> QED BY <3>2, <3>3
    <2> QED BY <1>5, <2>1, <2>2, <2>3 DEF Resolves
  <1>6. StillResolves BY <1>5 DEF StillResolves
  <1>7. ASSUME NEW u \in Tabs, NEW d \in uploads[u], d.at = "create"
        PROVE  Uploads!Reference(u, d) \in blobs'
    <2>1. Uploads!Reference(u, d) \in blobs BY <1>7 DEF UploadsInv, TabCalls
    <2>2. \A r \in staged : r.reference # Uploads!Reference(u, d) BY <1>7, ReferenceFresh
    <2> QED BY <1>1, <2>1, <2>2
  <1>8. \A m \in sent' : Resolves(m.reference, m.conversation)' BY <1>1, <1>6, SentStays
  <1>9. time' \in Nat /\ staged' \subseteq staged BY <1>1 DEF UploadsInv, UploadShapes
  <1> QED BY <1>1, <1>4, <1>6, <1>7, <1>8, <1>9, UploadersStand

LEMMA UploadsStay ==
    ASSUME UploadsInv, DraftsOfTabs, [Uploads!AttachmentsNext]_Uploads!attachmentVars
    PROVE  UploadsInv'
  <1>1. \A t \in drafted.tabs : t \in Tabs BY DEF UploadsInv, UploadShapes, DraftsOfTabs
  <1>2. \A f \in drafted.files : f \in DraftFiles BY DEF UploadsInv, UploadShapes, DraftFiles
  <1>3. CASE \E t \in drafted.tabs, f \in drafted.files : Uploads!Select(t, f)
    BY <1>1, <1>2, <1>3, SelectStep
  <1>4. ASSUME NEW t \in drafted.tabs,
               \/ Uploads!Submit(t) \/ Uploads!SendEnds(t) \/ Uploads!SwitchConversation(t)
               \/ \E id \in owned[t] : Uploads!RemoveAttachment(t, id) \/ Uploads!RetryAttachment(t, id)
               \/ \E c \in uploads[t] : \/ Uploads!StageLookup(t, c) \/ Uploads!StagePut(t, c)
                                        \/ Uploads!StageCreate(t, c) \/ Uploads!StageWinner(t, c)
                                        \/ Uploads!UploadSettles(t, c)
        PROVE  UploadsInv'
    <2>1. t \in Tabs BY <1>1
    <2> QED BY <1>4, <2>1, SubmitStep, SendEndsStep, SwitchStep, RemoveStep, RetryUploadStep,
               LookupStep, PutStep, CreateStep, WinnerStep, SettlesStep
  <1>5. CASE Uploads!CleanupExpired BY <1>5, CleanupStep
  <1>6. time \in Nat BY DEF UploadsInv, UploadShapes
  <1>7. CASE Uploads!Tick
    <2>1. /\ time' = time + 1
          /\ UNCHANGED <<drafted, showing, items, uploads, owned, spent, staged, blobs, sent>>
      BY <1>7 DEF Uploads!Tick
    <2>2. time' \in Nat /\ time <= time' BY <1>6, <2>1
    <2> QED BY <2>1, <2>2, StoreStands
  <1>8. CASE UNCHANGED Uploads!attachmentVars
    <2>1. UNCHANGED <<drafted, showing, items, uploads, owned, spent, staged, blobs, time, sent>>
      BY <1>8 DEF Uploads!attachmentVars
    <2>2. time' \in Nat /\ time <= time' BY <1>6, <2>1
    <2> QED BY <2>1, <2>2, StoreStands
  <1> QED BY <1>3, <1>4, <1>5, <1>7, <1>8 DEF Uploads!AttachmentsNext

\* The references of a message resolve until they expire (stage, #upload,
\* submit, cleanupExpired): for any number of composers that stage the same
\* files, of draft limits and of concurrent uploads, an answer names a
\* record that keeps its bytes, the loser of a race removes only its own,
\* and a ready item keeps the conversation it was uploaded for.
THEOREM SentReferencesResolve ==
    ASSUME DraftsOfTabs
    PROVE  UploadsSpec => []SentResolves
  <1>1. UploadsInv => Uploads!SentResolves
    BY DEF UploadsInv, Resolves, Uploads!SentResolves
  <1> QED BY <1>1, UploadsStart, UploadsStay, PTL DEF UploadsSpec, SentResolves

------------------------------------------------
\* The picker of conversations.

PickerSpec == Picker!PickerInit /\ [][Picker!PickerNext]_Picker!pickerVars

\* Conversations are numbered from one: nothing owned has the number none.
PickerIds == Choices \subseteq Nat \ {0}

PickerRow == [scope : {0, 1, 2}, id : Choices, lifecycle : {"active", "archived", "deleted"}]
PickerState ==
    [scope : {0, 1, 2}, items : SUBSET PickerRow, selected : Choices \cup {0}, hasMore : BOOLEAN,
     cursor : Choices \cup {0}, loading : BOOLEAN, generation : Int, listRequest : Int,
     mutationRequest : Int, owned : [call : Nat, id : Choices \cup {0}]]
PickerAnswer == [kind : {"none", "failed", "page", "row"}, rows : SUBSET PickerRow, more : BOOLEAN]
PickerKinds == {"list", "open", "create", "rename", "clear", "archive", "permanent_delete", "restore", "unmount"}
PickerPhases ==
    {"asked", "answered", "opening", "refused", "handing", "confirming", "executing", "executed", "done"}
PickerCall ==
    [kind : PickerKinds, id : Choices \cup {0}, phase : PickerPhases, answer : PickerAnswer, append : BOOLEAN,
     generation : Int, request : Int, scope : {0, 1, 2}, after : Choices \cup {0}]
PickerEntry == [kind : {"none", "pending", "live", "lifecycle"}, call : Nat]

\* A mutation names its conversation; a call of the present generation was
\* made in the present scope, and it is answered for the scope it was made
\* in.
CallFits(p, d) ==
    /\ d \in PickerCall
    /\ d.phase \in {"confirming", "executing"} => d.id \in Choices
    /\ d.generation <= p.generation
    /\ d.generation = p.generation => d.scope = p.scope
    /\ \A r \in d.answer.rows : r.scope = d.scope
CallsFit(p, cs) == cs \in Seq(PickerCall) /\ \A c \in DOMAIN cs : CallFits(p, cs[c])

\* What is owned was asked for by an open call of that conversation.
OwnedAsked(p, cs) ==
    IF p.owned.call = 0 THEN p.owned = [call |-> 0, id |-> 0]
    ELSE p.owned.call \in DOMAIN cs /\ cs[p.owned.call].id = p.owned.id
RowsFit(p) == p \in PickerState /\ \A r \in p.items : r.scope = p.scope
Replaces(p) ==
    RowsFit(p) /\ p.owned = picker.owned /\ p.scope = picker.scope /\ p.generation = picker.generation
KeepsOwn(p, entry, vs) ==
    /\ entry \in [Choices -> PickerEntry]
    /\ \A i \in Choices : entry[i].kind = "live" => p.owned.id = i
    /\ vs \subseteq {p.owned.call}
PickerInv ==
    RowsFit(picker) /\ CallsFit(picker, asked) /\ OwnedAsked(picker, asked) /\ KeepsOwn(picker, registry, views)

\* A released entry is not live.
LEMMA ReleaseEnds ==
    ASSUME NEW entry \in [Choices -> PickerEntry], NEW x
    PROVE  /\ Picker!Release(entry, x) \in [Choices -> PickerEntry]
           /\ \A i \in Choices : Picker!Release(entry, x)[i].kind = "live" => entry[i].kind = "live" /\ i # x
  <1> DEFINE v == Picker!Vacant
             e == Picker!Release(entry, x)
  <1>1. v \in PickerEntry /\ v.kind # "live" BY DEF Picker!Vacant, Picker!None, PickerEntry
  <1>2. e = IF entry[x].kind = "lifecycle" THEN entry ELSE [entry EXCEPT ![x] = v] BY DEF Picker!Release
  <1> HIDE DEF v, e
  <1>3. e \in [Choices -> PickerEntry] BY <1>1, <1>2
  <1>4. \A i \in Choices : e[i].kind = "live" => entry[i].kind = "live" /\ i # x BY <1>1, <1>2
  <1> QED BY <1>3, <1>4 DEF e

\* Giving up what is owned leaves no runtime and no view.
LEMMA GivesUp ==
    ASSUME PickerIds, NEW p, NEW q, KeepsOwn(p, registry, views), OwnedAsked(p, asked), q.owned = p.owned
    PROVE  /\ Picker!Released(registry, q) \in [Choices -> PickerEntry]
           /\ \A i \in Choices : Picker!Released(registry, q)[i].kind # "live"
           /\ Picker!CleanedUp(q) = {}
  <1>1. registry \in [Choices -> PickerEntry] BY DEF KeepsOwn
  <1>2. CASE q.owned = Picker!NotOwned
    <2>1. p.owned.id = 0 BY <1>2 DEF Picker!NotOwned, Picker!None
    <2> QED BY <1>1, <1>2, <2>1 DEF Picker!Released, Picker!CleanedUp, KeepsOwn, PickerIds
  <1>3. CASE q.owned # Picker!NotOwned
    BY <1>1, <1>3, ReleaseEnds DEF Picker!Released, Picker!CleanedUp, KeepsOwn
  <1> QED BY <1>2, <1>3

\* The picker may give up what it owns whenever its state is replaced; no
\* entry of the registry becomes live by that.
LEMMA AdoptKeeps ==
    ASSUME PickerIds, PickerInv, NEW p, NEW cancel \in BOOLEAN,
           picker' = IF cancel THEN Picker!CancelOwned(p) ELSE p,
           views' = IF cancel THEN Picker!CleanedUp(p) ELSE views,
           NEW entry, entry = IF cancel THEN Picker!Released(registry, p) ELSE registry,
           registry' \in [Choices -> PickerEntry], \A i \in Choices : registry'[i].kind = "live" => entry[i].kind = "live",
           Replaces(p), CallsFit(picker, asked'), OwnedAsked(picker, asked')
    PROVE  PickerInv'
  <1>1. CASE cancel
    <2> DEFINE q == Picker!CancelOwned(p)
    <2>1. /\ picker' = q /\ views' = {} /\ entry \in [Choices -> PickerEntry]
          /\ \A i \in Choices : entry[i].kind # "live"
      BY <1>1, GivesUp DEF PickerInv, Replaces
    <2>2. /\ RowsFit(q) /\ q.owned = [call |-> 0, id |-> 0] /\ q.scope = p.scope
          /\ q.generation = p.generation
      BY DEF Replaces, RowsFit, PickerState, Picker!CancelOwned, Picker!NotOwned, Picker!None
    <2> HIDE DEF q
    <2>3. CallsFit(q, asked') BY <2>2 DEF Replaces, CallsFit, CallFits
    <2>4. OwnedAsked(q, asked') BY <2>2 DEF OwnedAsked
    <2>5. KeepsOwn(q, registry', views') BY <2>1 DEF KeepsOwn
    <2> QED BY <2>1, <2>2, <2>3, <2>4, <2>5 DEF PickerInv
  <1>2. CASE ~cancel
    <2>1. picker' = p /\ entry = registry /\ views' = views BY <1>2
    <2>2. CallsFit(p, asked') BY DEF Replaces, CallsFit, CallFits
    <2>3. OwnedAsked(p, asked') BY DEF Replaces, OwnedAsked
    <2>4. KeepsOwn(p, registry', views) BY <2>1 DEF Replaces, PickerInv, KeepsOwn
    <2> QED BY <2>1, <2>2, <2>3, <2>4 DEF Replaces, PickerInv
  <1> QED BY <1>1, <1>2

LEMMA Adopted ==
    ASSUME PickerIds, PickerInv, NEW p, NEW cancel \in BOOLEAN, Picker!Adopt(p, cancel),
           Replaces(p), CallsFit(picker, asked'), OwnedAsked(picker, asked')
    PROVE  PickerInv'
  <1>1. registry' \in [Choices -> PickerEntry] BY GivesUp DEF Picker!Adopt, Replaces, PickerInv, KeepsOwn
  <1> QED BY <1>1, AdoptKeeps DEF Picker!Adopt

\* A call that goes on stays the call it was.
LEMMA CallGoesOn ==
    ASSUME PickerInv, NEW c \in DOMAIN asked, NEW d, asked' = [asked EXCEPT ![c] = d], CallFits(picker, d),
           d.id = asked[c].id
    PROVE  CallsFit(picker, asked') /\ OwnedAsked(picker, asked')
  <1>1. asked \in Seq(PickerCall) /\ d \in PickerCall BY DEF PickerInv, CallsFit, CallFits
  <1>2. asked' \in Seq(PickerCall) /\ DOMAIN asked' = DOMAIN asked BY <1>1
  <1>3. \A e \in DOMAIN asked : asked'[e] = IF e = c THEN d ELSE asked[e] BY <1>1
  <1> QED BY <1>2, <1>3 DEF PickerInv, CallsFit, OwnedAsked

LEMMA PhaseGoesOn ==
    ASSUME PickerInv, NEW c \in DOMAIN asked, NEW s \in PickerPhases, asked' = [asked EXCEPT ![c].phase = s],
           s \in {"confirming", "executing"} => asked[c].id \in Choices
    PROVE  CallsFit(picker, asked') /\ OwnedAsked(picker, asked')
  <1> DEFINE d == [asked[c] EXCEPT !.phase = s]
  <1>1. CallFits(picker, asked[c]) BY DEF PickerInv, CallsFit
  <1>2. CallFits(picker, d) /\ d.id = asked[c].id BY <1>1 DEF CallFits, PickerCall, PickerPhases
  <1>3. asked' = [asked EXCEPT ![c] = d] OBVIOUS
  <1> HIDE DEF d
  <1> QED BY <1>2, <1>3, CallGoesOn

LEMMA AnswerComes ==
    ASSUME PickerInv, NEW c \in DOMAIN asked, NEW s \in {"answered", "executed"}, NEW a \in PickerAnswer,
           \A r \in a.rows : r.scope = asked[c].scope,
           asked' = [asked EXCEPT ![c].phase = s, ![c].answer = a]
    PROVE  CallsFit(picker, asked') /\ OwnedAsked(picker, asked')
  <1> DEFINE d == [asked[c] EXCEPT !.phase = s, !.answer = a]
  <1>1. CallFits(picker, asked[c]) BY DEF PickerInv, CallsFit
  <1>2. CallFits(picker, d) /\ d.id = asked[c].id BY <1>1 DEF CallFits, PickerCall, PickerPhases
  <1>3. asked' = [asked EXCEPT ![c] = d] OBVIOUS
  <1> HIDE DEF d
  <1> QED BY <1>2, <1>3, CallGoesOn

\* A new call, made by a picker whose generation may have gone on.
LEMMA CallIssued ==
    ASSUME PickerInv, NEW p, NEW d, Picker!Issue(d), CallFits(p, d), picker.generation <= p.generation,
           picker.generation = p.generation => p.scope = picker.scope, p.generation \in Int
    PROVE  /\ CallsFit(p, asked')
           /\ p.owned = picker.owned => OwnedAsked(p, asked')
           /\ \A i : p.owned = [call |-> Len(asked) + 1, id |-> i] /\ d.id = i => OwnedAsked(p, asked')
  <1>1. asked \in Seq(PickerCall) /\ d \in PickerCall /\ picker.generation \in Int
    BY DEF PickerInv, CallsFit, CallFits, RowsFit, PickerState
  <1>2. /\ asked' \in Seq(PickerCall) /\ DOMAIN asked' = DOMAIN asked \cup {Len(asked) + 1}
        /\ asked'[Len(asked) + 1] = d /\ \A e \in DOMAIN asked : asked'[e] = asked[e]
        /\ Len(asked) \in Nat
    BY <1>1 DEF Picker!Issue
  <1>3. ASSUME NEW e \in DOMAIN asked PROVE CallFits(p, asked[e])
    BY <1>1, <1>3 DEF PickerInv, CallsFit, CallFits, PickerCall
  <1>4. CallsFit(p, asked') BY <1>2, <1>3 DEF CallsFit
  <1>5. p.owned = picker.owned => OwnedAsked(p, asked') BY <1>2 DEF PickerInv, OwnedAsked
  <1>6. \A i : p.owned = [call |-> Len(asked) + 1, id |-> i] /\ d.id = i => OwnedAsked(p, asked')
    BY <1>2 DEF OwnedAsked
  <1> QED BY <1>4, <1>5, <1>6

\* A call of the picker fits it, whatever is set of its request.
LEMMA OwnCallFits ==
    ASSUME PickerInv, NEW k \in PickerKinds, NEW i \in Choices \cup {0}, NEW ph \in PickerPhases,
           ph \in {"confirming", "executing"} => i \in Choices
    PROVE  CallFits(picker, Picker!Call(k, i, ph)) /\ Picker!Call(k, i, ph).id = i
  <1> DEFINE n == Picker!NoAnswer
             d == Picker!Call(k, i, ph)
  <1>1. n \in PickerAnswer /\ n.rows = {} BY DEF Picker!NoAnswer, PickerAnswer
  <1>2. picker.generation \in Int /\ picker.scope \in {0, 1, 2} BY DEF PickerInv, RowsFit, PickerState
  <1>3. d = [kind |-> k, id |-> i, phase |-> ph, answer |-> n, append |-> FALSE,
             generation |-> picker.generation, request |-> 0, scope |-> picker.scope, after |-> 0]
    BY DEF Picker!Call, Picker!None
  <1> HIDE DEF n, d
  <1>4. /\ d \in PickerCall /\ d.answer = n /\ d.generation = picker.generation /\ d.scope = picker.scope
        /\ d.id = i /\ d.phase = ph
    BY <1>1, <1>2, <1>3 DEF PickerCall
  <1> QED BY <1>1, <1>2, <1>4 DEF CallFits, d

LEMMA PageIsSet ==
    ASSUME NEW p, NEW d, CallFits(p, d), NEW r \in Int, NEW b \in BOOLEAN, NEW a \in Choices \cup {0}
    PROVE  CallFits(p, [d EXCEPT !.append = b, !.request = r, !.after = a])
  BY DEF CallFits, PickerCall

LEMMA RequestIsSet ==
    ASSUME NEW p, NEW d, CallFits(p, d), NEW r \in Int
    PROVE  CallFits(p, [d EXCEPT !.request = r]) /\ [d EXCEPT !.request = r].id = d.id
  BY DEF CallFits, PickerCall

LEMMA PhaseIsSet ==
    ASSUME NEW p, NEW d, CallFits(p, d), NEW s \in PickerPhases, d.id \in Choices \/ s = "done"
    PROVE  CallFits(p, [d EXCEPT !.phase = s]) /\ [d EXCEPT !.phase = s].id = d.id
  BY DEF CallFits, PickerCall

LEMMA PageIsRequested ==
    ASSUME PickerIds, PickerInv, NEW append \in BOOLEAN, Picker!RequestPage(append) PROVE PickerInv'
  <1>1. picker \in PickerState BY DEF PickerInv, RowsFit
  <1> DEFINE r == picker.listRequest + 1
             a == IF append THEN picker.cursor ELSE 0
             p == [picker EXCEPT !.listRequest = r, !.loading = append]
             call == Picker!Call("list", 0, "asked")
             d == [call EXCEPT !.append = append, !.request = r, !.after = a]
  <1>2. r \in Int /\ a \in Choices \cup {0} BY <1>1 DEF PickerState
  <1>3. Picker!Adopt(p, FALSE) BY DEF Picker!RequestPage, Picker!Adopt
  <1>4. Picker!Issue(d) BY DEF Picker!RequestPage, Picker!None
  <1> HIDE DEF r, a
  <1>5. Replaces(p) BY <1>1, <1>2 DEF Replaces, PickerInv, RowsFit, PickerState
  <1>6. CallFits(picker, call) BY OwnCallFits DEF PickerKinds, PickerPhases
  <1> HIDE DEF call
  <1>7. CallFits(picker, d) BY <1>2, <1>6, PageIsSet
  <1> HIDE DEF d, p
  <1>8. CallsFit(picker, asked') /\ OwnedAsked(picker, asked')
    BY <1>1, <1>4, <1>7, CallIssued DEF PickerState
  <1> QED BY <1>3, <1>5, <1>8, Adopted

\* Rows of the present scope are taken.
LEMMA ListIsApplied ==
    ASSUME PickerIds, PickerInv, NEW rows, rows \in SUBSET PickerRow, \A r \in rows : r.scope = picker.scope,
           NEW more \in BOOLEAN, NEW append \in BOOLEAN, Picker!ApplyList(rows, more, append),
           CallsFit(picker, asked'), OwnedAsked(picker, asked')
    PROVE  PickerInv'
  <1> DEFINE kept == Picker!UniqueRows(picker.items, rows, append)
             lost == picker.selected # 0 /\ ~more /\ picker.selected \notin {r.id : r \in kept}
             last == IF more THEN (IF rows = {} THEN 0 ELSE (CHOOSE r \in rows : TRUE).id) ELSE 0
             left == IF lost THEN 0 ELSE picker.selected
             p == [picker EXCEPT !.items = kept, !.hasMore = more, !.cursor = last, !.selected = left,
                                 !.loading = FALSE]
  <1>1. picker \in PickerState BY DEF PickerInv, RowsFit
  <1>2. Picker!Adopt(p, lost) BY DEF Picker!ApplyList, Picker!None
  <1>3. kept \subseteq picker.items \cup rows BY DEF Picker!UniqueRows
  <1>4. kept \in SUBSET PickerRow /\ \A r \in kept : r.scope = picker.scope
    BY <1>1, <1>3 DEF PickerInv, RowsFit, PickerState
  <1>5. last \in Choices \cup {0}
    <2>1. rows # {} => (CHOOSE r \in rows : TRUE) \in rows OBVIOUS
    <2> QED BY <2>1 DEF PickerRow
  <1>6. left \in Choices \cup {0} /\ lost \in BOOLEAN BY <1>1 DEF PickerState
  <1> HIDE DEF kept, lost, last, left
  <1>7. Replaces(p) BY <1>1, <1>4, <1>5, <1>6 DEF Replaces, RowsFit, PickerState
  <1> HIDE DEF p
  <1> QED BY <1>2, <1>6, <1>7, Adopted

LEMMA PageIsReceived ==
    ASSUME PickerIds, PickerInv, NEW c \in DOMAIN asked, Picker!ReceivePage(c) PROVE PickerInv'
  <1>1. CallsFit(picker, asked') /\ OwnedAsked(picker, asked')
    BY PhaseGoesOn DEF Picker!ReceivePage, Picker!Ends, PickerPhases
  <1>2. CASE Picker!WantedList(c) /\ asked[c].answer.kind = "page"
    <2>1. CallFits(picker, asked[c]) /\ asked[c].generation = picker.generation
      BY <1>2 DEF PickerInv, CallsFit, Picker!WantedList
    <2>2. /\ asked[c].answer.rows \in SUBSET PickerRow /\ asked[c].answer.more \in BOOLEAN
          /\ asked[c].append \in BOOLEAN /\ \A r \in asked[c].answer.rows : r.scope = picker.scope
      BY <2>1 DEF CallFits, PickerCall, PickerAnswer
    <2>3. Picker!ApplyList(asked[c].answer.rows, asked[c].answer.more, asked[c].append)
      BY <1>2 DEF Picker!ReceivePage
    <2> QED BY <1>1, <2>2, <2>3, ListIsApplied
  <1>3. CASE ~(Picker!WantedList(c) /\ asked[c].answer.kind = "page")
    <2> DEFINE l == picker.loading /\ ~Picker!WantedList(c)
               p == [picker EXCEPT !.loading = l]
    <2>1. picker \in PickerState BY DEF PickerInv, RowsFit
    <2>2. Picker!Adopt(p, FALSE) BY <1>3 DEF Picker!ReceivePage, Picker!Adopt
    <2>3. l \in BOOLEAN OBVIOUS
    <2> HIDE DEF l
    <2>4. Replaces(p) BY <2>1, <2>3 DEF Replaces, PickerInv, RowsFit, PickerState
    <2> QED BY <1>1, <2>2, <2>4, Adopted
  <1> QED BY <1>2, <1>3

LEMMA CatalogAnswersList ==
    ASSUME PickerIds, PickerInv, NEW c \in DOMAIN asked, Picker!CatalogLists(c) PROVE PickerInv'
  <1>1. CallFits(picker, asked[c]) BY DEF PickerInv, CallsFit
  <1>2. PICK failed \in BOOLEAN :
          asked' = [asked EXCEPT ![c].phase = "answered",
                      ![c].answer = IF failed THEN [Picker!NoAnswer EXCEPT !.kind = "failed"]
                                    ELSE Picker!Page(asked[c].scope, asked[c].after)]
    BY DEF Picker!CatalogLists
  <1> DEFINE a == IF failed THEN [Picker!NoAnswer EXCEPT !.kind = "failed"]
                  ELSE Picker!Page(asked[c].scope, asked[c].after)
  <1>3. a \in PickerAnswer /\ \A r \in a.rows : r.scope = asked[c].scope
    <2>1. CASE failed BY <2>1 DEF Picker!NoAnswer, PickerAnswer
    <2>2. CASE ~failed
      <3> DEFINE found == Picker!Active(asked[c].after)
                 first == {i \in found : \A j \in found : i <= j}
                 rows == {Picker!Row(asked[c].scope, i, "active") : i \in first}
                 more == found # first
      <3>1. a = [kind |-> "page", rows |-> rows, more |-> more] BY <2>2 DEF Picker!Page
      <3>2. first \subseteq Choices BY DEF Picker!Active
      <3> HIDE DEF first
      <3>3. asked[c].scope \in {0, 1, 2} BY <1>1 DEF CallFits, PickerCall
      <3>4. rows \in SUBSET PickerRow /\ \A r \in rows : r.scope = asked[c].scope
        BY <3>2, <3>3 DEF PickerRow, Picker!Row
      <3>5. more \in BOOLEAN OBVIOUS
      <3> HIDE DEF rows, more
      <3> QED BY <3>1, <3>4, <3>5 DEF PickerAnswer
    <2> QED BY <2>1, <2>2
  <1>4. asked' = [asked EXCEPT ![c].phase = "answered", ![c].answer = a] BY <1>2
  <1> HIDE DEF a
  <1>5. CallsFit(picker, asked') /\ OwnedAsked(picker, asked')
    BY <1>3, <1>4, AnswerComes DEF PickerPhases
  <1> QED BY <1>5 DEF PickerInv, Picker!CatalogLists

LEMMA ConversationIsOpened ==
    ASSUME PickerIds, PickerInv, NEW row, Picker!OpenConversation(row) PROVE PickerInv'
  <1> DEFINE id == row.id
             r == picker.mutationRequest + 1
             call == Picker!Call("open", id, "opening")
             open == [call EXCEPT !.request = r]
  <1>1. picker \in PickerState BY DEF PickerInv, RowsFit
  <1>2. id \in Choices /\ r \in Int /\ asked \in Seq(PickerCall)
    BY <1>1 DEF Picker!OpenConversation, PickerState, PickerRow, PickerInv, CallsFit
  <1>3. CallFits(picker, call) /\ call.id = id BY <1>2, OwnCallFits DEF PickerKinds, PickerPhases
  <1>4. CASE picker.owned # Picker!NotOwned /\ picker.owned.id = id
    <2> DEFINE p == [picker EXCEPT !.selected = id]
               d == [open EXCEPT !.phase = "done"]
    <2>1. Picker!Adopt(p, FALSE) /\ Picker!Issue(d)
      BY <1>4 DEF Picker!OpenConversation, Picker!Adopt
    <2> HIDE DEF r, call
    <2>2. CallFits(picker, open) BY <1>2, <1>3, RequestIsSet
    <2> HIDE DEF open, id
    <2>3. CallFits(picker, d) BY <2>2, PhaseIsSet DEF PickerPhases
    <2>4. Replaces(p) BY <1>1, <1>2 DEF Replaces, PickerInv, RowsFit, PickerState
    <2> HIDE DEF d, p
    <2>5. CallsFit(picker, asked') /\ OwnedAsked(picker, asked')
      BY <1>1, <2>1, <2>3, CallIssued DEF PickerState
    <2> QED BY <2>1, <2>4, <2>5, Adopted
  <1>5. CASE ~(picker.owned # Picker!NotOwned /\ picker.owned.id = id)
    <2> DEFINE released == Picker!Released(registry, picker)
               own == [call |-> Len(asked) + 1, id |-> id]
               p == [picker EXCEPT !.mutationRequest = r, !.selected = id, !.owned = own]
               s == IF released[id].kind = "lifecycle" THEN "refused" ELSE "opening"
               d == [open EXCEPT !.phase = s]
               pending == [kind |-> "pending", call |-> Len(asked) + 1]
    <2>1. picker.owned.id # id
      BY <1>2, <1>5 DEF PickerIds, Picker!NotOwned, Picker!None
    <2>2. /\ picker' = p /\ views' = Picker!CleanedUp(picker) /\ Picker!Issue(d)
          /\ registry' = IF released[id].kind = "none" THEN [released EXCEPT ![id] = pending] ELSE released
      BY <1>5, <2>1 DEF Picker!OpenConversation, Picker!Moves
    <2>3. /\ released \in [Choices -> PickerEntry] /\ views' = {}
          /\ \A i \in Choices : released[i].kind # "live"
      BY <2>2, GivesUp DEF PickerInv
    <2>4. own \in [call : Nat, id : Choices \cup {0}] /\ s \in PickerPhases BY <1>2 DEF PickerPhases
    <2>5. pending \in PickerEntry /\ pending.kind = "pending" BY <1>2 DEF PickerEntry
    <2> HIDE DEF released, s, pending
    <2>6. registry' \in [Choices -> PickerEntry] /\ \A i \in Choices : registry'[i].kind # "live"
      BY <2>2, <2>3, <2>5
    <2> HIDE DEF r, call
    <2>7. CallFits(picker, open) /\ open.id = id BY <1>2, <1>3, RequestIsSet
    <2> HIDE DEF open
    <2>8. CallFits(picker, d) /\ d.id = id BY <1>2, <2>4, <2>7, PhaseIsSet
    <2> HIDE DEF d, id
    <2>9. PICK o : o = own OBVIOUS
    <2> HIDE DEF own
    <2>10. /\ RowsFit(p) /\ p.owned = own /\ p.scope = picker.scope /\ p.generation = picker.generation
           /\ p.generation \in Int
      BY <1>1, <1>2, <2>4 DEF PickerInv, RowsFit, PickerState
    <2> HIDE DEF p
    <2>11. CallFits(p, d) BY <2>8, <2>10 DEF CallFits
    <2>12. CallsFit(p, asked') /\ OwnedAsked(p, asked')
      BY <2>2, <2>8, <2>10, <2>11, CallIssued DEF own
    <2>13. KeepsOwn(p, registry', views') BY <2>3, <2>6 DEF KeepsOwn
    <2> QED BY <2>2, <2>10, <2>12, <2>13 DEF PickerInv
  <1> QED BY <1>4, <1>5

\* A live runtime is one of a wanted call, which is of what is owned.
LEMMA WantedIsOwned ==
    ASSUME PickerInv, NEW c \in DOMAIN asked, Picker!WantedOpen(c)
    PROVE  picker.owned.call = c /\ picker.owned.id = asked[c].id
  <1>1. asked \in Seq(PickerCall) BY DEF PickerInv, CallsFit
  <1>2. c # 0 BY <1>1
  <1> QED BY <1>2 DEF Picker!WantedOpen, PickerInv, OwnedAsked

LEMMA RuntimeIsBuilt ==
    ASSUME PickerIds, PickerInv, NEW c \in DOMAIN asked, Picker!RegistryBuilds(c) PROVE PickerInv'
  <1>1. UNCHANGED <<picker, views>> BY DEF Picker!RegistryBuilds
  <1>2. registry \in [Choices -> PickerEntry] BY DEF PickerInv, KeepsOwn
  <1>3. CallsFit(picker, asked') /\ OwnedAsked(picker, asked')
    BY PhaseGoesOn DEF Picker!RegistryBuilds, Picker!Ends, PickerPhases
  <1>4. CASE Picker!WantedOpen(c) /\ registry' = [registry EXCEPT ![asked[c].id].kind = "live"]
    <2> DEFINE x == asked[c].id
               e == [registry[x] EXCEPT !.kind = "live"]
    <2>1. picker.owned.id = x BY <1>4, WantedIsOwned
    <2>2. registry' = [registry EXCEPT ![x] = e] BY <1>4
    <2>3. x \in Choices => e \in PickerEntry BY <1>2 DEF PickerEntry
    <2> HIDE DEF x, e
    <2>4. registry' \in [Choices -> PickerEntry] /\ \A i \in Choices : i # x => registry'[i] = registry[i]
      BY <1>2, <2>2, <2>3
    <2>5. KeepsOwn(picker, registry', views) BY <2>1, <2>4 DEF PickerInv, KeepsOwn
    <2> QED BY <1>1, <1>3, <2>5 DEF PickerInv
  <1>5. CASE registry' = [registry EXCEPT ![asked[c].id] = Picker!Vacant]
    <2> DEFINE v == Picker!Vacant
    <2>1. v \in PickerEntry /\ v.kind # "live" BY DEF Picker!Vacant, Picker!None, PickerEntry
    <2>2. registry' = [registry EXCEPT ![asked[c].id] = v] BY <1>5
    <2> HIDE DEF v
    <2>3. /\ registry' \in [Choices -> PickerEntry]
          /\ \A i \in Choices : registry'[i].kind = "live" => registry[i].kind = "live"
      BY <1>2, <2>1, <2>2
    <2>4. KeepsOwn(picker, registry', views) BY <2>3 DEF PickerInv, KeepsOwn
    <2> QED BY <1>1, <1>3, <2>4 DEF PickerInv
  <1> QED BY <1>4, <1>5 DEF Picker!RegistryBuilds

LEMMA ViewIsOpened ==
    ASSUME PickerIds, PickerInv, NEW c \in DOMAIN asked, Picker!HandedOver(c) PROVE PickerInv'
  <1>1. picker' = picker BY DEF Picker!HandedOver
  <1>2. CallsFit(picker, asked') /\ OwnedAsked(picker, asked')
    BY PhaseGoesOn DEF Picker!HandedOver, Picker!Ends, PickerPhases
  <1>3. KeepsOwn(picker, registry', views')
    <2>1. CASE Picker!WantedOpen(c)
      BY <2>1, WantedIsOwned DEF Picker!HandedOver, PickerInv, KeepsOwn
    <2>2. CASE ~Picker!WantedOpen(c)
      BY <2>2, ReleaseEnds DEF Picker!HandedOver, PickerInv, KeepsOwn
    <2> QED BY <2>1, <2>2
  <1> QED BY <1>1, <1>2, <1>3 DEF PickerInv

LEMMA OpenHasFailed ==
    ASSUME PickerIds, PickerInv, NEW c \in DOMAIN asked, Picker!OpenFails(c) PROVE PickerInv'
  <1> DEFINE w == Picker!WantedOpen(c)
  <1>1. CallsFit(picker, asked') /\ OwnedAsked(picker, asked')
    BY PhaseGoesOn DEF Picker!OpenFails, Picker!Ends, PickerPhases
  <1>2. w \in BOOLEAN BY DEF Picker!WantedOpen, Picker!WantedMutation
  <1>3. Picker!Adopt(picker, w) BY DEF Picker!OpenFails
  <1> HIDE DEF w
  <1> QED BY <1>1, <1>2, <1>3, Adopted DEF PickerInv, Replaces

\* A mutation gives up its conversation first; the entry it takes is not
\* live.
LEMMA MutationRuns ==
    ASSUME PickerIds, PickerInv, NEW p, NEW k, NEW x, Picker!RunMutation(p, k, x),
           Replaces(p), CallsFit(picker, asked'), OwnedAsked(picker, asked')
    PROVE  PickerInv'
  <1> DEFINE own == k \in Picker!Lifecycle /\ p.owned # Picker!NotOwned /\ p.owned.id = x
             base == IF own THEN Picker!Released(registry, p) ELSE registry
             taken == [kind |-> "lifecycle", call |-> 0]
  <1>1. /\ picker' = IF own THEN Picker!CancelOwned(p) ELSE p
        /\ views' = IF own THEN Picker!CleanedUp(p) ELSE views
        /\ registry' = IF k \in Picker!Lifecycle THEN [base EXCEPT ![x] = taken] ELSE base
    BY DEF Picker!RunMutation, Picker!Takes, Picker!None
  <1>2. base \in [Choices -> PickerEntry] BY GivesUp DEF Replaces, PickerInv, KeepsOwn
  <1>3. taken \in PickerEntry /\ taken.kind # "live" BY DEF PickerEntry
  <1>4. own \in BOOLEAN OBVIOUS
  <1> HIDE DEF taken
  <1>5. PICK b : b = base OBVIOUS
  <1> HIDE DEF own, base
  <1>6. /\ registry' \in [Choices -> PickerEntry]
        /\ \A i \in Choices : registry'[i].kind = "live" => b[i].kind = "live"
    BY <1>1, <1>2, <1>3, <1>5
  <1>7. b = IF own THEN Picker!Released(registry, p) ELSE registry BY <1>5 DEF base
  <1> QED BY <1>1, <1>4, <1>6, <1>7, AdoptKeeps

LEMMA MutationIsAsked ==
    ASSUME PickerIds, PickerInv, NEW k \in Picker!Lifecycle \cup {"create", "rename"}, NEW x \in Choices,
           Picker!Mutate(k, x)
    PROVE  PickerInv'
  <1> DEFINE r == picker.mutationRequest + 1
             p == [picker EXCEPT !.mutationRequest = r]
             first == Picker!Call(k, x, "executing")
             call == [first EXCEPT !.request = r]
  <1>1. picker \in PickerState /\ r \in Int BY DEF PickerInv, RowsFit, PickerState
  <1>2. k \in PickerKinds BY DEF Picker!Lifecycle, Picker!Confirmed, PickerKinds
  <1>3. CallFits(picker, first) /\ first.id = x BY <1>2, OwnCallFits DEF PickerPhases
  <1>4. p.mutationRequest = r BY <1>1 DEF PickerState
  <1>5. PICK s \in PickerPhases :
          /\ Picker!Issue([call EXCEPT !.phase = s])
          /\ \/ Picker!Adopt(p, FALSE)
             \/ Picker!RunMutation(p, k, x)
    <2>1. \/ Picker!Issue([call EXCEPT !.phase = "confirming"]) /\ Picker!Adopt(p, FALSE)
          \/ /\ Picker!Issue([call EXCEPT !.phase = Picker!Accepted(k, x)])
             /\ Picker!RunMutation(p, k, x)
      BY <1>4 DEF Picker!Mutate, Picker!Adopt
    <2>2. "confirming" \in PickerPhases /\ Picker!Accepted(k, x) \in PickerPhases
      BY DEF PickerPhases, Picker!Accepted
    <2> QED BY <2>1, <2>2
  <1> HIDE DEF r, first
  <1>6. CallFits(picker, call) /\ call.id = x BY <1>1, <1>3, RequestIsSet
  <1> HIDE DEF call
  <1>7. CallFits(picker, [call EXCEPT !.phase = s]) BY <1>6, PhaseIsSet
  <1>8. CallsFit(picker, asked') /\ OwnedAsked(picker, asked')
    BY <1>1, <1>5, <1>7, CallIssued DEF PickerState
  <1>9. Replaces(p) BY <1>1 DEF Replaces, PickerInv, RowsFit, PickerState
  <1> HIDE DEF p
  <1> QED BY <1>5, <1>8, <1>9, Adopted, MutationRuns

LEMMA MutationIsConfirmed ==
    ASSUME PickerIds, PickerInv, NEW c \in DOMAIN asked, Picker!ConfirmDestructive(c)
    PROVE  PickerInv'
  <1>1. Picker!Accepted(asked[c].kind, asked[c].id) \in PickerPhases /\ asked[c].id \in Choices
    BY DEF PickerPhases, Picker!Accepted, Picker!ConfirmDestructive, PickerInv, CallsFit, CallFits
  <1>2. CallsFit(picker, asked') /\ OwnedAsked(picker, asked')
    BY <1>1, PhaseGoesOn DEF Picker!ConfirmDestructive, Picker!Ends, PickerPhases
  <1>3. \/ Picker!RunMutation(picker, asked[c].kind, asked[c].id)
        \/ UNCHANGED <<picker, registry, views>>
    BY DEF Picker!ConfirmDestructive
  <1> QED BY <1>2, <1>3, MutationRuns DEF PickerInv, Replaces

LEMMA MutationIsExecuted ==
    ASSUME PickerIds, PickerInv, NEW c \in DOMAIN asked, Picker!CatalogExecutes(c)
    PROVE  PickerInv'
  <1> DEFINE call == asked[c]
             held == catalog[call.id]
             legal == IF call.kind = "create" THEN held = "none"
                      ELSE held = IF call.kind = "restore" THEN "archived" ELSE "active"
             row == Picker!Row(call.scope, call.id, Picker!Result(call.kind, held))
             a == [kind |-> "row", more |-> FALSE, rows |-> {row}]
             v == Picker!Vacant
  <1>1. CallFits(picker, call) /\ registry \in [Choices -> PickerEntry]
    BY DEF PickerInv, CallsFit, KeepsOwn
  <1>2. CallsFit(picker, asked') /\ OwnedAsked(picker, asked')
    <2>1. CASE legal /\ asked' = [asked EXCEPT ![c].phase = "executed", ![c].answer = a]
      <3>1. Picker!Result(call.kind, held) \in {"active", "archived", "deleted"}
        BY <2>1 DEF Picker!Result
      <3>2. call.scope \in {0, 1, 2} /\ call.id \in Choices
        BY <1>1 DEF CallFits, PickerCall, Picker!CatalogExecutes
      <3>3. row \in PickerRow /\ row.scope = call.scope BY <3>1, <3>2 DEF Picker!Row, PickerRow
      <3> HIDE DEF row
      <3>4. a \in PickerAnswer /\ a.rows = {row} BY <3>3 DEF PickerAnswer
      <3> HIDE DEF a
      <3> QED BY <2>1, <3>3, <3>4, AnswerComes DEF PickerPhases
    <2>2. CASE asked' = [asked EXCEPT ![c].phase = "executed"] BY <2>2, PhaseGoesOn DEF PickerPhases
    <2> QED BY <2>1, <2>2 DEF Picker!CatalogExecutes
  <1>3. v \in PickerEntry /\ v.kind # "live" BY DEF Picker!Vacant, Picker!None, PickerEntry
  <1>4. registry' \in {registry, [registry EXCEPT ![call.id] = v]} /\ UNCHANGED <<picker, views>>
    BY DEF Picker!CatalogExecutes
  <1> HIDE DEF v
  <1>5. /\ registry' \in [Choices -> PickerEntry]
        /\ \A i \in Choices : registry'[i].kind = "live" => registry[i].kind = "live"
    BY <1>1, <1>3, <1>4
  <1>6. KeepsOwn(picker, registry', views) BY <1>5 DEF PickerInv, KeepsOwn
  <1> QED BY <1>2, <1>4, <1>6 DEF PickerInv

LEMMA MutationIsApplied ==
    ASSUME PickerIds, PickerInv, NEW c \in DOMAIN asked, Picker!ApplyMutation(c) PROVE PickerInv'
  <1>1. CallsFit(picker, asked') /\ OwnedAsked(picker, asked')
    BY PhaseGoesOn DEF Picker!ApplyMutation, Picker!Ends, PickerPhases
  <1>2. picker \in PickerState BY DEF PickerInv, RowsFit
  <1>3. CASE UNCHANGED <<picker, registry, views>> BY <1>1, <1>3 DEF PickerInv
  <1>4. CASE Picker!RemoveRow(asked[c].id)
    <2> DEFINE lost == picker.selected = asked[c].id
               left == IF lost THEN 0 ELSE picker.selected
               kept == {r \in picker.items : r.id # asked[c].id}
               p == [picker EXCEPT !.items = kept, !.selected = left]
    <2>1. Picker!Adopt(p, lost) BY <1>4 DEF Picker!RemoveRow, Picker!None
    <2>2. lost \in BOOLEAN /\ left \in Choices \cup {0} /\ kept \subseteq picker.items BY <1>2 DEF PickerState
    <2> HIDE DEF lost, left, kept
    <2>3. Replaces(p) BY <1>2, <2>2 DEF Replaces, PickerInv, RowsFit, PickerState
    <2> HIDE DEF p
    <2> QED BY <1>1, <2>1, <2>2, <2>3, Adopted
  <1>5. ASSUME NEW row \in asked[c].answer.rows, Picker!ReplaceDescriptor(row), Picker!WantedMutation(c)
        PROVE  PickerInv'
    <2> DEFINE others == {r \in picker.items : r.id # row.id}
               lost == picker.selected = row.id /\ ~Picker!LifecycleMatches(row)
               left == IF lost THEN 0 ELSE picker.selected
               kept == IF Picker!LifecycleMatches(row) THEN others \cup {row} ELSE others
               p == [picker EXCEPT !.items = kept, !.selected = left]
    <2>1. Picker!Adopt(p, lost) BY <1>5 DEF Picker!ReplaceDescriptor, Picker!None
    <2>2. row \in PickerRow /\ row.scope = picker.scope
      BY <1>5 DEF PickerInv, CallsFit, CallFits, PickerCall, PickerAnswer, Picker!WantedMutation
    <2>3. lost \in BOOLEAN /\ left \in Choices \cup {0} /\ kept \subseteq picker.items \cup {row}
      BY <1>2 DEF PickerState
    <2> HIDE DEF lost, left, kept
    <2>4. Replaces(p) BY <1>2, <2>2, <2>3 DEF Replaces, PickerInv, RowsFit, PickerState
    <2> HIDE DEF p
    <2> QED BY <1>1, <2>1, <2>3, <2>4, Adopted
  <1> QED BY <1>3, <1>4, <1>5 DEF Picker!ApplyMutation

\* Another scope, or none: the generation goes on, and nothing is owned.
LEMMA ScopeIsLeft ==
    ASSUME PickerIds, PickerInv, NEW p, NEW d, picker' = p, Picker!Issue(d), CallFits(p, d), RowsFit(p),
           picker.generation < p.generation, p.owned = Picker!NotOwned,
           registry' = Picker!Released(registry, picker), views' = Picker!CleanedUp(picker)
    PROVE  PickerInv'
  <1>1. picker.generation \in Int /\ p.generation \in Int BY DEF PickerInv, RowsFit, PickerState
  <1>2. CallsFit(p, asked') BY <1>1, CallIssued
  <1>3. p.owned = [call |-> 0, id |-> 0] BY DEF Picker!NotOwned, Picker!None
  <1>4. OwnedAsked(p, asked') BY <1>3 DEF OwnedAsked
  <1>5. KeepsOwn(p, registry', views') BY GivesUp DEF PickerInv, KeepsOwn
  <1> QED BY <1>2, <1>4, <1>5 DEF PickerInv

LEMMA Invalidated ==
    ASSUME PickerInv, NEW by \in {1, 2}, NEW q, q = Picker!Invalidate(picker, by)
    PROVE  q \in PickerState /\ q.generation = picker.generation + by /\ q.owned = Picker!NotOwned
  <1> DEFINE n == Picker!NotOwned
             o == [picker EXCEPT !.owned = n]
             g == o.generation + by
             l == o.listRequest + by
             m == o.mutationRequest + by
  <1>1. n \in [call : Nat, id : Choices \cup {0}] BY DEF Picker!NotOwned, Picker!None
  <1>2. q = [o EXCEPT !.generation = g, !.listRequest = l, !.mutationRequest = m]
    BY DEF Picker!Invalidate, Picker!CancelOwned
  <1> HIDE DEF n
  <1>3. o \in PickerState /\ o.generation = picker.generation /\ o.owned = n
    BY <1>1 DEF PickerInv, RowsFit, PickerState
  <1> HIDE DEF o
  <1>4. g \in Int /\ l \in Int /\ m \in Int BY <1>3 DEF PickerState
  <1>5. g = picker.generation + by BY <1>3
  <1> HIDE DEF g, l, m
  <1>6. q \in PickerState /\ q.generation = g /\ q.owned = n BY <1>2, <1>3, <1>4 DEF PickerState
  <1> QED BY <1>5, <1>6 DEF n

LEMMA ScopeIsEntered ==
    ASSUME PickerIds, PickerInv, NEW scope \in Picker!Scopes, Picker!EnterScope(scope) PROVE PickerInv'
  <1> DEFINE q == Picker!Invalidate(picker, 2)
             l == q.listRequest + 1
             p == [q EXCEPT !.scope = scope, !.items = {}, !.hasMore = FALSE, !.cursor = 0, !.loading = FALSE,
                            !.listRequest = l]
             g == picker.generation + 2
             r == picker.listRequest + 3
             call == Picker!Call("list", 0, "asked")
             d == [call EXCEPT !.scope = scope, !.generation = g, !.request = r]
  <1>1. picker \in PickerState BY DEF PickerInv, RowsFit
  <1>2. q \in PickerState /\ q.generation = g /\ q.owned = Picker!NotOwned BY Invalidated
  <1>3. /\ picker' = p /\ Picker!Issue(d) /\ registry' = Picker!Released(registry, picker)
        /\ views' = Picker!CleanedUp(picker)
    BY DEF Picker!EnterScope, Picker!None
  <1> HIDE DEF q
  <1>4. l \in Int /\ g \in Int /\ r \in Int /\ picker.generation < g /\ scope \in {0, 1, 2}
    BY <1>1, <1>2 DEF PickerState, Picker!Scopes
  <1> HIDE DEF g, l, r
  <1>5. RowsFit(p) /\ p.owned = Picker!NotOwned /\ p.generation = g /\ p.scope = scope
    BY <1>2, <1>4 DEF RowsFit, PickerState
  <1>6. CallFits(picker, call) BY OwnCallFits DEF PickerKinds, PickerPhases
  <1>7. call.answer.rows = {} BY DEF Picker!Call, Picker!NoAnswer
  <1> HIDE DEF call, p
  <1>8. /\ d \in PickerCall /\ d.generation = g /\ d.scope = scope /\ d.answer = call.answer
        /\ d.phase = call.phase /\ d.id = call.id
    BY <1>4, <1>6 DEF CallFits, PickerCall
  <1> HIDE DEF d
  <1>9. CallFits(p, d) BY <1>4, <1>5, <1>6, <1>7, <1>8 DEF CallFits
  <1> QED BY <1>3, <1>4, <1>5, <1>9, ScopeIsLeft

LEMMA PickerIsLeft ==
    ASSUME PickerIds, PickerInv, Picker!Unmount PROVE PickerInv'
  <1> DEFINE q == Picker!Invalidate(picker, 1)
             p == [q EXCEPT !.scope = 0, !.items = {}]
             d == Picker!Call("unmount", 0, "done")
  <1>1. picker.generation \in Int BY DEF PickerInv, RowsFit, PickerState
  <1>2. q \in PickerState /\ q.generation = picker.generation + 1 /\ q.owned = Picker!NotOwned BY Invalidated
  <1>3. /\ picker' = p /\ Picker!Issue(d) /\ registry' = Picker!Released(registry, picker)
        /\ views' = Picker!CleanedUp(picker)
    BY DEF Picker!Unmount, Picker!None
  <1>4. CallFits(picker, d) BY OwnCallFits DEF PickerKinds, PickerPhases
  <1>5. d.generation = picker.generation BY DEF Picker!Call
  <1> HIDE DEF q, d
  <1>6. RowsFit(p) /\ p.owned = Picker!NotOwned /\ p.generation = picker.generation + 1
    BY <1>2 DEF RowsFit, PickerState
  <1> HIDE DEF p
  <1>7. CallFits(p, d) BY <1>1, <1>4, <1>5, <1>6 DEF CallFits
  <1> QED BY <1>1, <1>3, <1>6, <1>7, ScopeIsLeft

LEMMA PickerStarts == ASSUME PickerIds, Picker!PickerInit PROVE PickerInv
  <1> DEFINE n == Picker!NotOwned
             a == Picker!NoAnswer
             d == asked[1]
             v == Picker!Vacant
  <1>1. n \in [call : Nat, id : Choices \cup {0}] /\ n.call = 0 /\ n = [call |-> 0, id |-> 0]
    BY DEF Picker!NotOwned, Picker!None
  <1>2. a \in PickerAnswer /\ a.rows = {} BY DEF Picker!NoAnswer, PickerAnswer
  <1>3. v \in PickerEntry /\ v.kind # "live" BY DEF Picker!Vacant, Picker!None, PickerEntry
  <1>4. /\ picker = [scope |-> 1, items |-> {}, selected |-> 0, hasMore |-> FALSE, cursor |-> 0, loading |-> FALSE,
                     generation |-> 1, listRequest |-> 2, mutationRequest |-> 1, owned |-> n]
        /\ registry = [i \in Choices |-> v] /\ views = {}
    BY DEF Picker!PickerInit, Picker!None
  <1>5. /\ asked = <<d>>
        /\ d = [kind |-> "list", id |-> 0, phase |-> "asked", answer |-> a, append |-> FALSE, generation |-> 1,
                request |-> 2, scope |-> 1, after |-> 0]
    BY DEF Picker!PickerInit, Picker!None
  <1> HIDE DEF n, a, d, v
  <1>6. RowsFit(picker) /\ picker.owned = n /\ picker.generation = 1 /\ picker.scope = 1
    BY <1>1, <1>4 DEF RowsFit, PickerState
  <1>7. CallFits(picker, d) BY <1>2, <1>5, <1>6 DEF CallFits, PickerCall, PickerKinds, PickerPhases
  <1>8. asked \in Seq(PickerCall) /\ \A c \in DOMAIN asked : asked[c] = d
    <2>1. d \in PickerCall BY <1>7 DEF CallFits
    <2>2. asked \in Seq(PickerCall) /\ Len(asked) = 1 BY <1>5, <2>1
    <2>3. DOMAIN asked = 1..1 /\ asked[1] = d BY <2>2 DEF d
    <2>4. \A c \in 1..1 : c = 1 OBVIOUS
    <2> QED BY <2>2, <2>3, <2>4
  <1>9. KeepsOwn(picker, registry, views) BY <1>3, <1>4 DEF KeepsOwn
  <1> QED BY <1>1, <1>6, <1>7, <1>8, <1>9 DEF PickerInv, CallsFit, OwnedAsked

\* The picker shows rows of the present authorization context only, and
\* keeps a runtime and a view only of the conversation it holds open
\* (useConversationPicker).
THEOREM PickerKeepsItsOwn ==
    ASSUME PickerIds
    PROVE  PickerSpec => []PickerHoldsOwn
  <1>1. PickerInv /\ [Picker!PickerNext]_Picker!pickerVars => PickerInv'
    <2> SUFFICES ASSUME PickerInv, [Picker!PickerNext]_Picker!pickerVars PROVE PickerInv' OBVIOUS
    <2>1. ASSUME NEW c \in DOMAIN asked, Picker!CatalogLists(c) \/ Picker!ReceivePage(c)
          PROVE  PickerInv'
      BY <2>1, CatalogAnswersList, PageIsReceived
    <2>2. ASSUME NEW c \in DOMAIN asked,
                 \/ Picker!RegistryBuilds(c) \/ Picker!RegistryInvalidates(c)
                 \/ Picker!HandedOver(c) \/ Picker!OpenFails(c)
          PROVE  PickerInv'
      <3>1. ASSUME Picker!RegistryInvalidates(c) PROVE PickerInv'
        BY <3>1, PhaseGoesOn DEF Picker!RegistryInvalidates, PickerPhases, PickerInv
      <3> QED BY <2>2, <3>1, RuntimeIsBuilt, ViewIsOpened, OpenHasFailed
    <2>3. ASSUME NEW c \in DOMAIN asked,
                 Picker!ConfirmDestructive(c) \/ Picker!CatalogExecutes(c) \/ Picker!ApplyMutation(c)
          PROVE  PickerInv'
      BY <2>3, MutationIsConfirmed, MutationIsExecuted, MutationIsApplied
    <2>4. ASSUME UNCHANGED Picker!pickerVars PROVE PickerInv' BY <2>4 DEF Picker!pickerVars, PickerInv
    <2> QED
      BY <2>1, <2>2, <2>3, <2>4, PageIsRequested, ConversationIsOpened, MutationIsAsked, ScopeIsEntered,
         PickerIsLeft DEF Picker!PickerNext
  <1>2. PickerInv => Picker!PickerHoldsOwn BY DEF PickerInv, RowsFit, KeepsOwn, Picker!PickerHoldsOwn
  <1> QED BY <1>1, <1>2, PickerStarts, PTL DEF PickerSpec, PickerHoldsOwn
================================================
