---------------- MODULE ConversationSyncProofs ----------------
(***************************************************************************)
(* Proofs about synchronization, for any number of devices, tabs and       *)
(* writers, any queues and batches and any faults.                         *)
(*                                                                         *)
(* The log is only ever extended, by the batch of one append, which the    *)
(* adapter first looks for in it.  LogHoldsOnce needs that no batch names  *)
(* a mutation twice; what a writer was answered stays true because its     *)
(* batch is stored as a whole or not at all, and because all the attempts  *)
(* of one append expect the same revision, which a conflict has shown to   *)
(* be gone.  A mutation is not lost because a coordinator that may still   *)
(* save has, in memory, whatever the saved state has pending (Known).      *)
(***************************************************************************)
EXTENDS ConversationSync, SequenceTheorems, FiniteSetTheorems, WellFoundedInduction, TLAPS

Clients == Devices \cup Writers
Coordinator ==
    [started : BOOLEAN, status : {"idle", "connecting", "online", "offline", "reconnecting", "error"},
     auth : Seq(Mutations), localRevision : Nat, pending : Seq(Mutations), view : SUBSET Mutations,
     subscribed : BOOLEAN, ending : BOOLEAN, timer : BOOLEAN]
Places == {"idle", "load", "save", "catchup", "subscribe", "push", "await", "pull", "recover", "settle"}
Task == [op : {"none", "start", "connect", "update", "queue", "flush"}, at : Places,
         then : {"idle", "connect", "catchup", "subscribe", "push", "gate", "settle"},
         conflicts : Nat, latest : Int, batch : Seq(Mutations)]
SavedState == [exists : BOOLEAN, known : SUBSET Devices, auth : Seq(Mutations), pending : Seq(Mutations)]
Appending == [batch : Seq(Mutations), expected : Nat, observed : Int]
WriterState == [status : {"idle", "asking", "conflict", "failed", "idempotent", "appended", "unavailable"},
                attempt : Nat]

SyncTypeOK ==
    /\ log \in Seq(Mutations) /\ scenario \in Scenarios
    /\ handlers \in [Clients -> SUBSET Appending] /\ late \in [Clients -> SUBSET Appending]
    /\ writer \in [Writers -> WriterState]
    /\ local \in [Stores -> Seq(Mutations)] /\ saved \in [Stores -> SavedState]
    /\ co \in [Devices -> Coordinator] /\ task \in [Devices -> Task]
    /\ asked \in [Devices -> Nat]
    /\ \A d \in Devices : asked[d] <= Len(scenario.queue[d])

------------------------------------------------
\* The server.  Appends under way name no mutation twice and have read no
\* revision that is still to come; a device's are of mutations of queues.
Proposed == UNION {ToSet(scenario.queue[d]) : d \in Devices}
FitsLog(h) == IsInjective(h.batch) /\ h.expected <= Len(log) /\ h.observed <= Len(log)
AppendsFit ==
    /\ \A p \in Clients : \A h \in handlers[p] \cup late[p] : FitsLog(h)
    /\ \A d \in Devices : \A h \in handlers[d] \cup late[d] : ToSet(h.batch) \subseteq Proposed

\* The attempts of a writer's append are the same append; its batch is in
\* the log as a whole or not at all, and after a conflict never will be.
WriterFits(w) ==
    /\ \A g, h \in handlers[w] \cup late[w] : h.batch = BatchOf[w] /\ g.expected = h.expected
    /\ writer[w].status = "idle" => handlers[w] = {} /\ late[w] = {}
    /\ Holds(log, BatchOf[w]) \/ ~HoldsSome(log, BatchOf[w])
    /\ writer[w].status # "asking" => handlers[w] = {}
    /\ writer[w].status \in {"appended", "idempotent"} => Holds(log, BatchOf[w])
    /\ writer[w].status = "conflict" =>
          ~HoldsSome(log, BatchOf[w]) /\ \A h \in late[w] : h.expected < Len(log)
WritersFit == \A w \in Writers : WriterFits(w)

------------------------------------------------
\* The client.  What is pending was queued, once, by a device that has the
\* same stores.
QueuedAt(s) ==
    {m \in Mutations : \E d \in Devices : /\ Store(d) = s
                                          /\ \E i \in 1..asked[d] : scenario.queue[d][i] = m}
PendingOK ==
    /\ \A d \in Devices : /\ IsInjective(co[d].pending)
                          /\ ToSet(co[d].pending) \subseteq QueuedAt(Store(d))
    /\ \A s \in Stores : /\ IsInjective(saved[s].pending)
                         /\ ToSet(saved[s].pending) \subseteq QueuedAt(s)
                         /\ ~saved[s].exists => saved[s].pending = <<>>

\* Who may still save has in memory what the saved state has pending, unless
\* it is settled; what the server acknowledged is in the log.
Settling(t) == t.at \in {"recover", "settle"} \/ (t.at = "save" /\ t.then = "settle")
Known(d) ==
    d \in saved[Store(d)].known =>
        ToSet(saved[Store(d)].pending) \subseteq ToSet(co[d].pending) \cup ToSet(log) \cup refused
TaskFits(d) ==
    /\ task[d].at = "idle" => task[d].op = "none"
    /\ task[d].at = "pull" => task[d].then = "push"
    /\ Settling(task[d]) => ToSet(task[d].batch) \subseteq ToSet(log)

\* A mutation that is queued is first put into memory, then saved.
Unsaved(t) == t.at = "save" /\ t.then = "gate"
Kept(d, m) == m \in ToSet(log) \cup refused \cup ToSet(saved[Store(d)].pending)
Queueing(d) ==
    task[d].op = "queue" =>
        /\ asked[d] > 0
        /\ IF Unsaved(task[d]) THEN scenario.queue[d][asked[d]] \in ToSet(co[d].pending)
           ELSE Kept(d, scenario.queue[d][asked[d]])
KeptOK == MutationsKept /\ \A d \in Devices : Known(d) /\ TaskFits(d) /\ Queueing(d)

SyncIInv ==
    /\ SyncTypeOK /\ LogHoldsOnce /\ AppendsFit /\ WritersFit
    /\ ReplicasFollow /\ PendingOK /\ KeptOK

------------------------------------------------
\* Sequences and beginnings of sequences.

Starts(s, t) == Len(s) <= Len(t) /\ \A i \in 1..Len(s) : s[i] = t[i]

LEMMA PrefixIsStart ==
    ASSUME NEW S, NEW s \in Seq(S), NEW t \in Seq(S)
    PROVE  IsPrefixOf(s, t) <=> Starts(s, t)
  <1> DEFINE n == Len(s)
             u == SubSeq(t, 1, n)
  <1>1. /\ n \in Nat /\ Len(t) \in Nat /\ \A i \in 1..Len(t) : t[i] \in S
        /\ IsPrefixOf(s, t) <=> (n <= Len(t) /\ u = s)
        /\ Starts(s, t) <=> (n <= Len(t) /\ \A i \in 1..n : s[i] = t[i])
    BY LenProperties, ElementOfSeq DEF IsPrefixOf, Starts
  <1> SUFFICES ASSUME n <= Len(t) PROVE u = s <=> \A i \in 1..n : s[i] = t[i]
    BY <1>1, Zenon
  <1>2. \A i \in 1..n : t[i] \in S BY <1>1
  <1>3. u \in Seq(S) /\ Len(u) = n /\ \A i \in 1..n : u[i] = t[i]
    <2>1. /\ u \in Seq(S) /\ Len(u) = IF 1 <= n THEN n - 1 + 1 ELSE 0
          /\ \A i \in 1..n - 1 + 1 : u[i] = t[1 + i - 1]
      BY <1>1, <1>2, SubSeqProperties
    <2> HIDE DEF n, u
    <2> QED BY <1>1, <2>1
  <1>4. u = s => \A i \in 1..n : s[i] = t[i] BY <1>3
  <1>5. (\A i \in 1..n : s[i] = t[i]) => u = s
    <2> HAVE \A i \in 1..n : s[i] = t[i]
    <2>1. Len(u) = Len(s) /\ \A i \in 1..Len(u) : u[i] = s[i] BY <1>3
    <2> QED BY <1>3, <2>1, SeqEqual
  <1> QED BY <1>4, <1>5

LEMMA StartsTransitive ==
    ASSUME NEW S, NEW s \in Seq(S), NEW t \in Seq(S), NEW u \in Seq(S), Starts(s, t), Starts(t, u)
    PROVE  Starts(s, u)
  BY LenProperties DEF Starts

LEMMA StartsMembers ==
    ASSUME NEW S, NEW s \in Seq(S), NEW t \in Seq(S), Starts(s, t)
    PROVE  ToSet(s) \subseteq ToSet(t)
  <1>1. /\ Len(s) \in Nat /\ Len(t) \in Nat /\ DOMAIN s = 1..Len(s) /\ DOMAIN t = 1..Len(t)
        /\ Len(s) <= Len(t) /\ \A i \in 1..Len(s) : s[i] = t[i]
    BY LenProperties DEF Starts
  <1> QED BY <1>1 DEF ToSet

LEMMA Concatenated ==
    ASSUME NEW S, NEW s \in Seq(S), NEW b \in Seq(S)
    PROVE  /\ s \o b \in Seq(S) /\ Len(s \o b) = Len(s) + Len(b) /\ Starts(s, s \o b)
           /\ ToSet(s \o b) = ToSet(s) \cup ToSet(b)
           /\ IsInjective(s) /\ IsInjective(b) /\ ToSet(s) \cap ToSet(b) = {} => IsInjective(s \o b)
  <1> DEFINE u == s \o b
             m == Len(s)
             n == Len(b)
  <1>1. /\ u \in Seq(S) /\ Len(u) = m + n /\ m \in Nat /\ n \in Nat
        /\ \A i \in 1..m + n : u[i] = IF i <= m THEN s[i] ELSE b[i - m]
        /\ DOMAIN s = 1..m /\ DOMAIN b = 1..n /\ DOMAIN u = 1..m + n
    BY ConcatProperties, LenProperties
  <1>2. ToSet(s) = {s[i] : i \in 1..m} /\ ToSet(b) = {b[i] : i \in 1..n} /\ ToSet(u) = {u[i] : i \in 1..m + n}
    BY <1>1 DEF ToSet
  <1>3. Len(s \o b) = Len(s) + Len(b) BY <1>1
  <1>4. s \o b \in Seq(S) BY <1>1
  <1> SUFFICES /\ m <= m + n /\ \A i \in 1..m : s[i] = u[i]
               /\ ToSet(u) = ToSet(s) \cup ToSet(b)
               /\ IsInjective(s) /\ IsInjective(b) /\ ToSet(s) \cap ToSet(b) = {} => IsInjective(u)
    BY <1>3, <1>4 DEF Starts
  <1> HIDE DEF u, m, n
  <1>5. \A i \in 1..m : i \in 1..m + n /\ u[i] = s[i] BY <1>1
  <1>6. \A j \in 1..n : m + j \in 1..m + n /\ ~(m + j <= m) /\ (m + j) - m = j BY <1>1
  <1>7. \A j \in 1..n : u[m + j] = b[j] BY <1>1, <1>6
  <1>8. \A i \in 1..m + n : i \in 1..m \/ \E j \in 1..n : i = m + j
    <2> TAKE i \in 1..m + n
    <2>1. i <= m \/ (i - m \in 1..n /\ i = m + (i - m)) BY <1>1
    <2> QED BY <1>1, <2>1
  <1>9. ToSet(u) = ToSet(s) \cup ToSet(b) BY <1>2, <1>5, <1>6, <1>7, <1>8
  <1>10. IsInjective(s) /\ IsInjective(b) /\ ToSet(s) \cap ToSet(b) = {} => IsInjective(u)
    <2> HAVE IsInjective(s) /\ IsInjective(b) /\ ToSet(s) \cap ToSet(b) = {}
    <2> SUFFICES ASSUME NEW i \in 1..m + n, NEW j \in 1..m + n, u[i] = u[j] PROVE i = j
      BY <1>1 DEF IsInjective
    <2>1. CASE i \in 1..m /\ j \in 1..m BY <1>1, <1>5, <2>1 DEF IsInjective
    <2>2. CASE i \in 1..m /\ j \notin 1..m
      <3>1. PICK k \in 1..n : j = m + k BY <1>8, <2>2
      <3>2. s[i] = b[k] BY <1>5, <1>7, <2>2, <3>1
      <3> QED BY <1>2, <2>2, <3>1, <3>2
    <2>3. CASE i \notin 1..m /\ j \in 1..m
      <3>1. PICK k \in 1..n : i = m + k BY <1>8, <2>3
      <3>2. s[j] = b[k] BY <1>5, <1>7, <2>3, <3>1
      <3> QED BY <1>2, <2>3, <3>1, <3>2
    <2>4. CASE i \notin 1..m /\ j \notin 1..m
      <3>1. PICK k \in 1..n : i = m + k BY <1>8, <2>4
      <3>2. PICK l \in 1..n : j = m + l BY <1>8, <2>4
      <3>3. b[k] = b[l] BY <1>7, <3>1, <3>2
      <3> QED BY <1>1, <3>1, <3>2, <3>3 DEF IsInjective
    <2> QED BY <2>1, <2>2, <2>3, <2>4
  <1> QED BY <1>1, <1>5, <1>9, <1>10

\* Every set of naturals has a least member.
LEMMA LeastIn ==
    ASSUME NEW R, NEW T, T \subseteq Nat, T # {}, IsWellFoundedOn(R, Nat),
           \A x, y \in Nat : y < x => <<y, x>> \in R
    PROVE  \E x \in T : \A y \in T : x <= y
  <1>1. PICK x \in T : \A y \in T : ~(<<y, x>> \in R) BY WFMin
  <1>2. \A y \in T : ~(y < x) BY <1>1
  <1> QED BY <1>2

LEMMA Least ==
    ASSUME NEW T, T \subseteq Nat, T # {}
    PROVE  \E x \in T : \A y \in T : x <= y
  <1>1. \A x, y \in Nat : y < x => <<y, x>> \in OpToRel(<, Nat) BY DEF OpToRel
  <1>2. \E R : IsWellFoundedOn(R, Nat) /\ \A x, y \in Nat : y < x => <<y, x>> \in R
    BY <1>1, NatLessThanWellFounded, Zenon
  <1> QED BY <1>2, LeastIn

\* Every place has its number among the places, and every number its place.
Upto(places, i) == {j \in places : j <= i}

LEMMA PlacesNumbered ==
    ASSUME NEW n \in Nat, NEW P, P \subseteq 1..n
    PROVE  /\ Cardinality(P) \in Nat
           /\ \A i \in P : Cardinality(Upto(P, i)) \in 1..Cardinality(P)
           /\ \A k \in 1..Cardinality(P) : \E i \in P : Cardinality(Upto(P, i)) = k
           /\ \A i, j \in P : Cardinality(Upto(P, i)) = Cardinality(Upto(P, j)) => i = j
  <1> DEFINE c(i) == Cardinality(Upto(P, i))
  <1>0. /\ \A j \in P : j \in Int /\ 1 <= j /\ j <= n
        /\ \A i \in Int : \A j \in P : j \in Upto(P, i) <=> j <= i
        /\ \A i \in Int : \A j \in Upto(P, i) : j \in P
    BY DEF Upto
  <1>1. IsFiniteSet(P) /\ Cardinality(P) \in Nat
    <2>1. IsFiniteSet(1..n) BY FS_Interval
    <2> QED BY <2>1, FS_Subset, FS_CardinalityType
  <1>2. \A i \in 0..n : IsFiniteSet(Upto(P, i)) /\ c(i) \in Nat /\ c(i) <= Cardinality(P)
    <2> TAKE i \in 0..n
    <2>1. Upto(P, i) \in SUBSET P BY DEF Upto
    <2> QED BY <1>1, <2>1, FS_Subset, FS_CardinalityType
  <1>3. c(0) = 0
    <2>1. \A j \in P : j \notin Upto(P, 0) BY <1>0
    <2>2. Upto(P, 0) = {} BY <1>0, <2>1, 0 \in Int
    <2> QED BY <2>2, FS_EmptySet
  <1>4. c(n) = Cardinality(P)
    <2>1. \A j \in P : j \in Upto(P, n) BY <1>0
    <2>2. \A j \in Upto(P, n) : j \in P BY <1>0
    <2>3. Upto(P, n) = P BY <2>1, <2>2, Zenon
    <2> QED BY <2>3
  <1>5. \A i \in 1..n : c(i) = IF i \in P THEN c(i - 1) + 1 ELSE c(i - 1)
    <2> TAKE i \in 1..n
    <2>1. i - 1 \in 0..n OBVIOUS
    <2>2. CASE i \in P
      <3>1. Upto(P, i) = Upto(P, i - 1) \cup {i} /\ i \notin Upto(P, i - 1)
        <4>1. i - 1 \in Int /\ i \in Int OBVIOUS
        <4>2. \A j \in P : j \in Upto(P, i) <=> j \in Upto(P, i - 1) \/ j = i BY <1>0, <4>1
        <4>3. \A j \in Upto(P, i) \cup Upto(P, i - 1) : j \in P BY <1>0, <4>1
        <4>4. i \notin Upto(P, i - 1) BY <1>0, <2>2, <4>1
        <4> QED BY <2>2, <4>2, <4>3, <4>4, Zenon
      <3> QED BY <1>2, <2>1, <2>2, <3>1, FS_AddElement
    <2>3. CASE i \notin P
      <3>1. Upto(P, i) = Upto(P, i - 1)
        <4>1. i - 1 \in Int /\ i \in Int OBVIOUS
        <4>2. \A j \in P : j \in Upto(P, i) <=> j \in Upto(P, i - 1) BY <1>0, <2>3, <4>1
        <4>3. \A j \in Upto(P, i) \cup Upto(P, i - 1) : j \in P BY <1>0, <4>1
        <4> QED BY <4>2, <4>3, Zenon
      <3> QED BY <2>3, <3>1
    <2> QED BY <2>2, <2>3
  <1>6. \A i, j \in 0..n : i <= j => c(i) <= c(j)
    <2> TAKE i, j \in 0..n
    <2> HAVE i <= j
    <2>1. \A k \in P : k \in Upto(P, i) => k \in Upto(P, j) BY <1>0
    <2>2. \A k \in Upto(P, i) : k \in P BY <1>0
    <2>3. Upto(P, i) \in SUBSET Upto(P, j) BY <2>1, <2>2, Zenon
    <2> QED BY <1>2, <2>3, FS_Subset
  <1> HIDE DEF c
  <1>7. \A i \in P : c(i) \in 1..Cardinality(P) /\ i \in 1..n /\ i - 1 \in 0..n /\ c(i) = c(i - 1) + 1
    BY <1>2, <1>5
  <1>8. \A i, j \in P : c(i) = c(j) => i = j
    <2> SUFFICES ASSUME NEW i \in P, NEW j \in P, i < j PROVE c(i) # c(j)
      OBVIOUS
    <2>1. c(i) <= c(j - 1) BY <1>6, <1>7
    <2> QED BY <1>2, <1>7, <2>1
  <1>9. ASSUME NEW k \in 1..Cardinality(P) PROVE \E i \in P : c(i) = k
    <2> DEFINE T == {i \in 0..n : c(i) >= k}
    <2>1. T \subseteq Nat /\ n \in T BY <1>1, <1>4
    <2>2. PICK i \in T : \A j \in T : i <= j BY <2>1, Least
    <2>3. i \in 0..n /\ c(i) >= k /\ i # 0 BY <1>1, <1>3, <2>2
    <2>4. i \in 1..n /\ i - 1 \in 0..n /\ ~(i <= i - 1) BY <2>3
    <2>5. i - 1 \notin T BY <2>2, <2>4
    <2>6. c(i - 1) < k BY <1>1, <1>2, <2>4, <2>5
    <2> HIDE DEF T
    <2>7. i \in P /\ c(i) = c(i - 1) + 1
      <3>1. c(i) \in Nat /\ c(i - 1) \in Nat BY <1>2, <2>3, <2>4
      <3>2. c(i) # c(i - 1) BY <1>1, <2>3, <2>6, <3>1
      <3> QED BY <1>5, <2>4, <3>2
    <2>8. c(i) = k BY <1>1, <1>2, <2>3, <2>4, <2>6, <2>7
    <2> QED BY <2>7, <2>8
  <1> QED BY <1>1, <1>7, <1>8, <1>9 DEF c

\* What Leaving leaves: the members that do not go, each as often as before.
LEMMA LeavingMembers ==
    ASSUME NEW S, NEW s \in Seq(S), NEW gone
    PROVE  /\ Leaving(s, gone) \in Seq(S)
           /\ ToSet(Leaving(s, gone)) = ToSet(s) \ gone
           /\ IsInjective(s) => IsInjective(Leaving(s, gone))
  <1> DEFINE n == Len(s)
             P == {i \in 1..n : s[i] \notin gone}
             m == Cardinality(P)
             t == [k \in 1..m |-> s[Nth(P, k)]]
             c(i) == Cardinality(Upto(P, i))
  <1>1. n \in Nat /\ DOMAIN s = 1..n /\ \A i \in 1..n : s[i] \in S BY LenProperties, ElementOfSeq
  <1>2. Leaving(s, gone) = t BY DEF Leaving
  <1>3. P \subseteq 1..n /\ (\A i \in P : s[i] \notin gone) /\ \A i \in 1..n : s[i] \notin gone => i \in P
    OBVIOUS
  <1>4. ToSet(s) = {s[i] : i \in 1..n} BY <1>1 DEF ToSet
  <1>5. /\ m \in Nat /\ \A i \in P : c(i) \in 1..m
        /\ \A k \in 1..m : \E i \in P : c(i) = k
        /\ \A i, j \in P : c(i) = c(j) => i = j
    <2> HIDE DEF P, n
    <2> QED BY <1>1, <1>3, PlacesNumbered
  <1>6. \A k \in 1..m : Nth(P, k) \in P /\ c(Nth(P, k)) = k
    <2> HIDE DEF P, n, m
    <2> TAKE k \in 1..m
    <2>1. Nth(P, k) = CHOOSE i \in P : c(i) = k BY DEF Nth, Upto
    <2> HIDE DEF c
    <2>2. \E i \in P : c(i) = k BY <1>5
    <2> QED BY <2>1, <2>2
  <1> HIDE DEF P, n, m, c
  <1>7. \A k \in 1..m : t[k] \in S /\ t[k] = s[Nth(P, k)] BY <1>1, <1>3, <1>6
  <1>8. t \in Seq(S) /\ DOMAIN t = 1..m
    <2>1. t \in [1..m -> S] BY <1>7
    <2> QED BY <1>5, <2>1, SeqDef
  <1>9. ToSet(t) = {t[k] : k \in 1..m} BY <1>8 DEF ToSet
  <1> HIDE DEF t
  <1>10. ToSet(t) \subseteq ToSet(s) \ gone BY <1>3, <1>4, <1>6, <1>7, <1>9
  <1>11. ToSet(s) \ gone \subseteq ToSet(t)
    <2> SUFFICES ASSUME NEW i \in P PROVE s[i] \in ToSet(t)
      BY <1>3, <1>4
    <2>1. c(i) \in 1..m /\ Nth(P, c(i)) = i BY <1>5, <1>6
    <2>2. t[c(i)] = s[i] BY <1>7, <2>1
    <2> QED BY <1>9, <2>1, <2>2
  <1>12. IsInjective(s) => IsInjective(t)
    <2> SUFFICES ASSUME IsInjective(s), NEW k \in 1..m, NEW l \in 1..m, t[k] = t[l] PROVE k = l
      BY <1>8 DEF IsInjective
    <2>1. Nth(P, k) = Nth(P, l) BY <1>1, <1>3, <1>6, <1>7 DEF IsInjective
    <2> QED BY <1>6, <2>1
  <1> QED BY <1>2, <1>8, <1>10, <1>11, <1>12

------------------------------------------------
\* The parts of a coordinator's memory that outlive an operation.
Same(b, c) == b.auth = c.auth /\ b.pending = c.pending /\ b.localRevision = c.localRevision

LEMMA Closed ==
    ASSUME NEW c \in Coordinator
    PROVE  CloseConnection(c) \in Coordinator /\ Same(CloseConnection(c), c)
  <1> DEFINE ending == c.ending \/ c.subscribed
  <1>1. ending \in BOOLEAN /\ CloseConnection(c) = [c EXCEPT !.subscribed = FALSE, !.timer = FALSE, !.ending = ending]
    BY DEF CloseConnection
  <1> HIDE DEF ending
  <1> QED BY <1>1 DEF Coordinator, Same

LEMMA Reconnecting ==
    ASSUME NEW c \in Coordinator
    PROVE  ScheduleReconnect(c) \in Coordinator /\ Same(ScheduleReconnect(c), c)
  <1> DEFINE b == CloseConnection(c)
  <1>1. b \in Coordinator /\ Same(b, c) BY Closed
  <1>2. ScheduleReconnect(c) = c \/ ScheduleReconnect(c) = [b EXCEPT !.status = "reconnecting", !.timer = TRUE]
    BY DEF ScheduleReconnect
  <1> HIDE DEF b
  <1> QED BY <1>1, <1>2 DEF Coordinator, Same

LEMMA Failing ==
    ASSUME NEW c \in Coordinator
    PROVE  FailPermanently(c) \in Coordinator /\ Same(FailPermanently(c), c)
  <1> DEFINE b == CloseConnection(c)
  <1>1. b \in Coordinator /\ Same(b, c) BY Closed
  <1>2. FailPermanently(c) = [b EXCEPT !.started = FALSE, !.ending = FALSE, !.status = "error"]
    BY DEF FailPermanently
  <1> HIDE DEF b
  <1> QED BY <1>1, <1>2 DEF Coordinator, Same

LEMMA Rebuilt ==
    ASSUME NEW c \in Coordinator
    PROVE  RebuildView(c) \in Coordinator /\ Same(RebuildView(c), c)
  <1> DEFINE view == ToSet(c.auth) \cup ToSet(c.pending)
  <1>1. c.auth \in Seq(Mutations) /\ c.pending \in Seq(Mutations) BY DEF Coordinator
  <1>2. view \in SUBSET Mutations BY <1>1, LenProperties, ElementOfSeq DEF ToSet
  <1>3. RebuildView(c) = [c EXCEPT !.view = view] BY DEF RebuildView
  <1> HIDE DEF view
  <1> QED BY <1>2, <1>3 DEF Coordinator, Same

------------------------------------------------
\* The server: an append leaves the log, or adds a batch none of which it
\* holds, where the append expects its end to be.
LEMMA BatchTypes ==
    ASSUME SyncTypeOK, NEW p \in Clients, NEW h \in handlers[p] \cup late[p]
    PROVE  h \in Appending /\ h.batch \in Seq(Mutations) /\ h.expected \in Nat /\ h.observed \in Int
  BY DEF SyncTypeOK, Appending

LEMMA AppendEffect ==
    ASSUME SyncIInv, NEW p \in Clients, NEW h \in handlers[p] \cup late[p]
    PROVE  /\ \/ LogAfter(h) = log /\ AppendResult(h).status # "accepted"
              \/ /\ LogAfter(h) = log \o h.batch /\ AppendResult(h).status = "accepted"
                 /\ h.expected = Len(log) /\ ToSet(h.batch) \cap ToSet(log) = {}
           /\ AppendResult(h).status # "conflict" =>
                 ToSet(h.batch) \subseteq ToSet(LogAfter(h)) /\ AppendResult(h).latest <= Len(LogAfter(h))
           /\ AppendResult(h).status = "conflict" => ~Holds(log, h.batch) /\ ~Appends(h)
           /\ AppendResult(h).status \in {"duplicate", "accepted", "conflict"} /\ AppendResult(h).latest \in Int
  <1>1. h \in Appending /\ h.batch \in Seq(Mutations) /\ h.expected \in Nat /\ h.observed \in Int /\ FitsLog(h)
    BY BatchTypes DEF SyncIInv, AppendsFit
  <1>2. log \in Seq(Mutations) /\ Len(log) \in Nat /\ Len(h.batch) \in Nat BY <1>1, LenProperties DEF SyncIInv, SyncTypeOK
  <1>3. ToSet(log \o h.batch) = ToSet(log) \cup ToSet(h.batch) /\ Len(log \o h.batch) = Len(log) + Len(h.batch)
    BY <1>1, <1>2, Concatenated
  <1>4. CASE Holds(log, h.batch)
    <2> DEFINE latest == IF h.expected # h.observed THEN h.observed ELSE Len(log)
    <2>1. AppendResult(h) = [status |-> "duplicate", latest |-> latest] BY <1>4 DEF AppendResult
    <2>2. LogAfter(h) = log BY <2>1 DEF LogAfter
    <2>3. latest \in Int /\ latest <= Len(log) BY <1>1, <1>2 DEF FitsLog
    <2> HIDE DEF latest
    <2> QED BY <1>4, <2>1, <2>2, <2>3 DEF Holds
  <1>5. CASE ~Holds(log, h.batch) /\ Appends(h)
    <2>1. AppendResult(h) = [status |-> "accepted", latest |-> h.expected + Len(h.batch)]
      BY <1>5 DEF AppendResult
    <2>2. LogAfter(h) = log \o h.batch BY <2>1 DEF LogAfter
    <2>3. h.expected = Len(log) /\ ToSet(h.batch) \cap ToSet(log) = {} BY <1>5 DEF Appends, HoldsSome
    <2> DEFINE latest == h.expected + Len(h.batch)
    <2>4. latest \in Int /\ latest <= Len(LogAfter(h)) BY <1>1, <1>2, <1>3, <2>2, <2>3
    <2> HIDE DEF latest
    <2>5. AppendResult(h) = [status |-> "accepted", latest |-> latest] BY <2>1 DEF latest
    <2> QED BY <1>3, <2>2, <2>3, <2>4, <2>5
  <1>6. CASE ~Holds(log, h.batch) /\ ~Appends(h)
    <2>1. AppendResult(h) = [status |-> "conflict", latest |-> Len(log)] BY <1>6 DEF AppendResult
    <2>2. LogAfter(h) = log BY <2>1 DEF LogAfter
    <2> QED BY <1>2, <1>6, <2>1, <2>2
  <1> QED BY <1>4, <1>5, <1>6

\* What every step does to the log.
LogStep == log' = log \/ \E p \in Clients : \E h \in handlers[p] \cup late[p] : log' = LogAfter(h)

LEMMA LogGrowth ==
    ASSUME SyncIInv, LogStep
    PROVE  /\ log' \in Seq(Mutations) /\ LogHoldsOnce' /\ Starts(log, log')
           /\ ToSet(log) \subseteq ToSet(log') /\ Len(log) \in Nat /\ Len(log') \in Nat /\ Len(log) <= Len(log')
  <1>1. log \in Seq(Mutations) /\ LogHoldsOnce BY DEF SyncIInv, SyncTypeOK
  <1>2. CASE log' = log BY <1>1, <1>2, LenProperties DEF LogHoldsOnce, Starts
  <1>3. CASE log' # log
    <2>1. PICK p \in Clients : \E h \in handlers[p] \cup late[p] : log' = LogAfter(h) BY <1>3 DEF LogStep
    <2>2. PICK h \in handlers[p] \cup late[p] : log' = LogAfter(h) BY <2>1
    <2>3. log' = log \o h.batch /\ ToSet(h.batch) \cap ToSet(log) = {} BY <1>3, <2>2, AppendEffect
    <2>4. h.batch \in Seq(Mutations) /\ IsInjective(h.batch)
      BY BatchTypes DEF SyncIInv, AppendsFit, FitsLog
    <2>5. DOMAIN log = 1..Len(log) /\ Len(log) \in Nat /\ Len(h.batch) \in Nat BY <1>1, <2>4, LenProperties
    <2>6. IsInjective(log) BY <1>1, <2>5 DEF LogHoldsOnce, IsInjective
    <2>7. /\ log' \in Seq(Mutations) /\ IsInjective(log') /\ Starts(log, log')
          /\ ToSet(log') = ToSet(log) \cup ToSet(h.batch) /\ Len(log') = Len(log) + Len(h.batch)
      BY <1>1, <2>3, <2>4, <2>6, Concatenated
    <2>8. LogHoldsOnce' BY <2>7, LenProperties DEF LogHoldsOnce, IsInjective
    <2> QED BY <2>5, <2>7, <2>8
  <1> QED BY <1>2, <1>3

\* The appends under way after a step are those of before, further on, or
\* new ones.
SameAppend(g, h) == g.batch = h.batch /\ g.expected = h.expected
NewAppend(p, g) ==
    /\ IsInjective(g.batch) /\ g.expected <= Len(log)
    /\ p \in Devices => ToSet(g.batch) \subseteq Proposed

LEMMA AppendsPreserved ==
    ASSUME SyncIInv, LogStep, scenario' = scenario,
           handlers' \in [Clients -> SUBSET Appending], late' \in [Clients -> SUBSET Appending],
           \A p \in Clients : \A g \in handlers'[p] \cup late'[p] :
              /\ g.observed <= Len(log')
              /\ (\E h \in handlers[p] \cup late[p] : SameAppend(g, h)) \/ NewAppend(p, g)
    PROVE  AppendsFit'
  <1>1. AppendsFit /\ Len(log) \in Nat /\ Len(log') \in Nat /\ Len(log) <= Len(log') BY LogGrowth DEF SyncIInv
  <1>2. ASSUME NEW p \in Clients, NEW g \in handlers'[p] \cup late'[p]
        PROVE  /\ IsInjective(g.batch) /\ g.expected <= Len(log') /\ g.observed <= Len(log')
               /\ p \in Devices => ToSet(g.batch) \subseteq Proposed
    <2>1. g \in Appending /\ g.expected \in Nat BY <1>2 DEF Appending
    <2>2. CASE \E h \in handlers[p] \cup late[p] : SameAppend(g, h)
      <3>1. PICK h \in handlers[p] \cup late[p] : SameAppend(g, h) BY <2>2
      <3>2. FitsLog(h) /\ (p \in Devices => ToSet(h.batch) \subseteq Proposed) BY <1>1 DEF AppendsFit
      <3> QED BY <1>1, <2>1, <3>1, <3>2 DEF FitsLog, SameAppend
    <2>3. CASE NewAppend(p, g) BY <1>1, <2>1, <2>3 DEF NewAppend
    <2> QED BY <2>2, <2>3
  <1>3. Proposed' = Proposed BY DEF Proposed
  <1>4. \A p \in Devices : p \in Clients BY DEF Clients
  <1> QED BY <1>2, <1>3, <1>4 DEF AppendsFit, FitsLog

\* A step that is not the writer's own keeps what holds of it: only its own
\* appends touch its batch.
LEMMA BatchApart ==
    ASSUME SyncIInv, NEW w \in Writers, NEW p \in Clients \ {w}, NEW h \in handlers[p] \cup late[p]
    PROVE  ToSet(h.batch) \cap ToSet(BatchOf[w]) = {}
  <1>1. CASE p \in Writers
    <2>1. h.batch = BatchOf[p] BY <1>1 DEF SyncIInv, WritersFit, WriterFits
    <2> QED BY <1>1, <2>1, SyncAssumption
  <1>2. CASE p \in Devices
    <2>1. ToSet(h.batch) \subseteq Proposed BY <1>2 DEF SyncIInv, AppendsFit
    <2>2. scenario \in Scenarios BY DEF SyncIInv, SyncTypeOK
    <2>3. \A d \in Devices : ToSet(scenario.queue[d]) \cap ToSet(BatchOf[w]) = {} BY <2>2, SyncAssumption
    <2>4. Proposed \cap ToSet(BatchOf[w]) = {} BY <2>3 DEF Proposed
    <2> QED BY <2>1, <2>4
  <1> QED BY <1>1, <1>2 DEF Clients

LEMMA WriterKept ==
    ASSUME SyncIInv, LogStep, NEW w \in Writers, writer'[w] = writer[w],
           \A g \in handlers'[w] : \E h \in handlers[w] : SameAppend(g, h),
           \A g \in late'[w] : \E h \in late[w] : SameAppend(g, h)
    PROVE  WriterFits(w)'
  <1>1. /\ WriterFits(w) /\ w \in Clients /\ Len(log) \in Nat /\ Len(log') \in Nat /\ Len(log) <= Len(log')
        /\ ToSet(log) \subseteq ToSet(log')
    BY LogGrowth DEF SyncIInv, WritersFit, Clients
  <1>2. \A h \in handlers[w] \cup late[w] : h.expected \in Nat BY <1>1, BatchTypes DEF SyncIInv
  <1>3. \A g, h \in handlers'[w] \cup late'[w] : h.batch = BatchOf[w] /\ g.expected = h.expected
    BY <1>1 DEF WriterFits, SameAppend
  <1>4. (handlers[w] = {} => handlers'[w] = {}) /\ (late[w] = {} => late'[w] = {}) OBVIOUS
  <1>5. \/ ToSet(log') \cap ToSet(BatchOf[w]) = ToSet(log) \cap ToSet(BatchOf[w])
        \/ Holds(log', BatchOf[w]) /\ writer[w].status # "conflict"
    <2>1. CASE log' = log BY <2>1
    <2>2. CASE log' # log
      <3>1. PICK p \in Clients : \E h \in handlers[p] \cup late[p] : log' = LogAfter(h) BY <2>2 DEF LogStep
      <3>2. PICK h \in handlers[p] \cup late[p] : log' = LogAfter(h) BY <3>1
      <3>3. /\ log' = log \o h.batch /\ h.expected = Len(log) /\ h.batch \in Seq(Mutations)
            /\ log \in Seq(Mutations)
        BY <2>2, <3>2, AppendEffect, BatchTypes DEF SyncIInv, SyncTypeOK
      <3>4. ToSet(log') = ToSet(log) \cup ToSet(h.batch) BY <3>3, Concatenated
      <3>5. CASE p = w
        <4>1. h.batch = BatchOf[w] BY <1>1, <3>5 DEF WriterFits
        <4>2. writer[w].status # "conflict"
          <5> SUFFICES ASSUME writer[w].status = "conflict" PROVE FALSE
            OBVIOUS
          <5>1. h \in late[w] /\ h.expected < Len(log) BY <1>1, <3>5 DEF WriterFits
          <5> QED BY <1>1, <3>3, <5>1
        <4> QED BY <3>4, <4>1, <4>2 DEF Holds
      <3>6. CASE p # w
        <4>1. ToSet(h.batch) \cap ToSet(BatchOf[w]) = {} BY <3>6, BatchApart
        <4> QED BY <3>4, <4>1
      <3> QED BY <3>5, <3>6
    <2> QED BY <2>1, <2>2
  <1>6. /\ Holds(log', BatchOf[w]) \/ ~HoldsSome(log', BatchOf[w])
        /\ Holds(log, BatchOf[w]) => Holds(log', BatchOf[w])
        /\ writer[w].status = "conflict" => ~HoldsSome(log', BatchOf[w])
    BY <1>1, <1>5 DEF WriterFits, Holds, HoldsSome
  <1>7. writer[w].status = "conflict" => \A g \in late'[w] : g.expected < Len(log')
    BY <1>1, <1>2 DEF WriterFits, SameAppend
  <1> QED BY <1>1, <1>3, <1>4, <1>6, <1>7 DEF WriterFits

\* When only the server acts, what holds of the clients stays so.
LEMMA FollowsOn ==
    ASSUME SyncIInv, LogStep, NEW s \in Seq(Mutations), Starts(s, log)
    PROVE  Starts(s, log') /\ IsPrefixOf(s, log')
  <1>1. log \in Seq(Mutations) /\ log' \in Seq(Mutations) /\ Starts(log, log') BY LogGrowth DEF SyncIInv, SyncTypeOK
  <1>2. Starts(s, log') BY <1>1, StartsTransitive
  <1> QED BY <1>1, <1>2, PrefixIsStart

LEMMA ReplicaTypes ==
    ASSUME SyncIInv
    PROVE  /\ log \in Seq(Mutations) /\ scenario \in Scenarios
           /\ \A d \in Devices : /\ co[d] \in Coordinator /\ task[d] \in Task /\ Store(d) \in Stores
                                 /\ co[d].auth \in Seq(Mutations) /\ co[d].pending \in Seq(Mutations)
                                 /\ co[d].localRevision \in Nat
                                 /\ asked[d] \in Nat /\ asked[d] <= Len(scenario.queue[d])
                                 /\ scenario.queue[d] \in Seq(Mutations)
                                 /\ Starts(co[d].auth, log)
           /\ \A s \in Stores : /\ local[s] \in Seq(Mutations) /\ saved[s] \in SavedState
                                /\ saved[s].auth \in Seq(Mutations) /\ saved[s].pending \in Seq(Mutations)
                                /\ Starts(local[s], log) /\ Starts(saved[s].auth, log)
  <1>1. SyncTypeOK /\ ReplicasFollow BY DEF SyncIInv
  <1>2. /\ log \in Seq(Mutations) /\ scenario \in Scenarios
        /\ \A d \in Devices : /\ co[d] \in Coordinator /\ task[d] \in Task /\ asked[d] \in Nat
                              /\ asked[d] <= Len(scenario.queue[d])
        /\ \A s \in Stores : local[s] \in Seq(Mutations) /\ saved[s] \in SavedState
    BY <1>1 DEF SyncTypeOK
  <1>3. \A d \in Devices : Store(d) \in Stores /\ scenario.queue[d] \in Seq(Mutations)
    BY <1>2, SyncAssumption DEF Store
  <1>4. \A d \in Devices : /\ co[d].auth \in Seq(Mutations) /\ co[d].pending \in Seq(Mutations)
                           /\ co[d].localRevision \in Nat
    BY <1>2 DEF Coordinator
  <1>5. \A s \in Stores : saved[s].auth \in Seq(Mutations) /\ saved[s].pending \in Seq(Mutations)
    BY <1>2 DEF SavedState
  <1>6. \A d \in Devices : Starts(co[d].auth, log) BY <1>1, <1>2, <1>4, PrefixIsStart DEF ReplicasFollow
  <1>7. \A s \in Stores : Starts(local[s], log) /\ Starts(saved[s].auth, log)
    BY <1>1, <1>2, <1>5, PrefixIsStart DEF ReplicasFollow
  <1> QED BY <1>2, <1>3, <1>4, <1>5, <1>6, <1>7

LEMMA ClientUnmoved ==
    ASSUME SyncIInv, LogStep, UNCHANGED clientVars
    PROVE  ReplicasFollow' /\ PendingOK' /\ KeptOK'
  <1>1. ToSet(log) \subseteq ToSet(log') BY LogGrowth
  <1>2. UNCHANGED <<scenario, local, saved, co, task, asked, resolved, refused>> BY DEF clientVars
  <1>3. ReplicasFollow' BY <1>2, ReplicaTypes, FollowsOn DEF ReplicasFollow
  <1>4. PendingOK' BY <1>2 DEF SyncIInv, PendingOK, QueuedAt, Store
  <1>5. MutationsKept' BY <1>1, <1>2 DEF SyncIInv, KeptOK, MutationsKept, Store
  <1>6. ASSUME NEW d \in Devices PROVE (Known(d) /\ TaskFits(d) /\ Queueing(d))'
    <2>1. Known(d) /\ TaskFits(d) /\ Queueing(d) BY DEF SyncIInv, KeptOK
    <2>2. Known(d)' BY <1>1, <1>2, <2>1 DEF Known, Store
    <2>3. TaskFits(d)' BY <1>1, <1>2, <2>1 DEF TaskFits, Settling
    <2>4. Queueing(d)' BY <1>1, <1>2, <2>1 DEF Queueing, Unsaved, Kept, Store
    <2> QED BY <2>2, <2>3, <2>4
  <1> QED BY <1>3, <1>4, <1>5, <1>6 DEF KeptOK

LEMMA LateStepPreserves ==
    ASSUME SyncIInv, NEW p \in Clients, LateStep(p), UNCHANGED clientVars
    PROVE  SyncIInv'
  <1>1. PICK h \in late[p] :
          /\ IF Begins(h)
             THEN late' = [late EXCEPT ![p] = (@ \ {h}) \cup {Observes(h)}] /\ UNCHANGED log
             ELSE late' = [late EXCEPT ![p] = @ \ {h}] /\ log' = LogAfter(h)
          /\ UNCHANGED <<handlers, writer>>
    BY DEF LateStep
  <1>2. LogStep BY <1>1 DEF LogStep
  <1>3. SyncTypeOK /\ h \in Appending /\ Len(log) \in Nat /\ Len(log') \in Nat /\ Len(log) <= Len(log')
    BY <1>2, BatchTypes, LogGrowth DEF SyncIInv
  <1>4. Observes(h) \in Appending /\ SameAppend(Observes(h), h) /\ Observes(h).observed = Len(log)
    BY <1>3 DEF Observes, Appending, SameAppend
  <1>5. /\ late' \in [Clients -> SUBSET Appending]
        /\ \A q \in Clients : \A g \in late'[q] : g \in late[q] \/ (q = p /\ g = Observes(h) /\ h \in late[q])
    <2>1. late \in [Clients -> SUBSET Appending] BY <1>3 DEF SyncTypeOK
    <2> QED BY <1>1, <1>4, <2>1
  <1>6. \A q \in Clients : \A g \in late'[q] : /\ \E x \in late[q] : SameAppend(g, x)
                                               /\ g.observed <= Len(log')
    <2> TAKE q \in Clients
    <2> TAKE g \in late'[q]
    <2>1. CASE g \in late[q]
      <3>1. g.observed \in Int /\ g.observed <= Len(log) BY <2>1, BatchTypes DEF SyncIInv, AppendsFit, FitsLog
      <3> QED BY <1>3, <2>1, <3>1 DEF SameAppend
    <2>2. CASE q = p /\ g = Observes(h) BY <1>3, <1>4, <2>2
    <2> QED BY <1>5, <2>1, <2>2
  <1>7. \A q \in Clients : \A g \in handlers[q] : g.observed <= Len(log')
    <2> TAKE q \in Clients
    <2> TAKE g \in handlers[q]
    <2>1. g.observed \in Int /\ g.observed <= Len(log) BY BatchTypes DEF SyncIInv, AppendsFit, FitsLog
    <2> QED BY <1>3, <2>1
  <1>8. UNCHANGED <<handlers, writer, scenario, local, saved, co, task, asked>> BY <1>1 DEF clientVars
  <1>9. AppendsFit' BY <1>2, <1>3, <1>5, <1>6, <1>7, <1>8, AppendsPreserved DEF SyncTypeOK, SameAppend
  <1>10. WritersFit'
    <2> SUFFICES ASSUME NEW w \in Writers PROVE WriterFits(w)'
      BY DEF WritersFit
    <2>1. w \in Clients BY DEF Clients
    <2> QED BY <1>2, <1>6, <1>8, <2>1, WriterKept DEF SameAppend
  <1>11. SyncTypeOK' BY <1>2, <1>3, <1>5, <1>8, LogGrowth DEF SyncTypeOK
  <1> QED BY <1>2, <1>9, <1>10, <1>11, LogGrowth, ClientUnmoved DEF SyncIInv

LEMMA ObservedSoFar ==
    ASSUME SyncIInv, LogStep, NEW p \in Clients, NEW g \in handlers[p] \cup late[p]
    PROVE  g.observed <= Len(log') /\ g \in Appending
  <1>1. g.observed \in Int /\ g.observed <= Len(log) /\ g \in Appending
    BY BatchTypes DEF SyncIInv, AppendsFit, FitsLog
  <1> QED BY <1>1, LogGrowth

LEMMA WriterAsksPreserves ==
    ASSUME SyncIInv, NEW w \in Writers, WriterAsks(w), UNCHANGED clientVars
    PROVE  SyncIInv'
  <1>1. /\ SyncTypeOK /\ w \in Clients /\ Len(log) \in Nat /\ log' = log /\ late' = late
        /\ UNCHANGED <<scenario, local, saved, co, task, asked>>
        /\ writer[w].status = "idle" /\ writer' = [writer EXCEPT ![w] = [status |-> "asking", attempt |-> 1]]
    BY LenProperties DEF SyncIInv, SyncTypeOK, Clients, WriterAsks, clientVars
  <1>2. PICK expected \in 0..Len(log) : handlers' = [handlers EXCEPT ![w] = {Handler(BatchOf[w], expected)}]
    BY DEF WriterAsks
  <1> DEFINE h == Handler(BatchOf[w], expected)
  <1>3. /\ h \in Appending /\ h.batch = BatchOf[w] /\ IsInjective(h.batch)
        /\ h.expected = expected /\ h.expected <= Len(log) /\ h.observed = -1
    BY <1>1, SyncAssumption DEF Handler, Appending
  <1> HIDE DEF h
  <1>4. LogStep BY <1>1 DEF LogStep
  <1>5. /\ handlers' \in [Clients -> SUBSET Appending] /\ handlers'[w] = {h} /\ late[w] = {}
        /\ \A q \in Clients \ {w} : handlers'[q] = handlers[q]
    <2>1. handlers' = [handlers EXCEPT ![w] = {h}] BY <1>2 DEF h
    <2>2. late[w] = {} BY <1>1 DEF SyncIInv, WritersFit, WriterFits
    <2> QED BY <1>1, <1>3, <2>1, <2>2 DEF SyncTypeOK
  <1>6. AppendsFit'
    <2> SUFFICES ASSUME NEW p \in Clients, NEW g \in handlers'[p] \cup late'[p]
                 PROVE  /\ g.observed <= Len(log')
                        /\ (\E x \in handlers[p] \cup late[p] : SameAppend(g, x)) \/ NewAppend(p, g)
      BY <1>1, <1>4, <1>5, AppendsPreserved DEF SyncTypeOK
    <2>1. CASE g \in handlers[p] \cup late[p] BY <1>4, <2>1, ObservedSoFar DEF SameAppend
    <2>2. CASE p = w /\ g = h
      <3>1. p \notin Devices BY <2>2, SyncAssumption
      <3> QED BY <1>1, <1>3, <2>2, <3>1 DEF NewAppend
    <2> QED BY <1>1, <1>5, <2>1, <2>2
  <1>7. ASSUME NEW v \in Writers PROVE WriterFits(v)'
    <2>1. CASE v # w
      <3>1. v \in Clients BY DEF Clients
      <3> QED BY <1>1, <1>4, <1>5, <2>1, <3>1, WriterKept DEF SyncTypeOK, SameAppend
    <2>2. CASE v = w
      <3>1. writer'[w].status = "asking" BY <1>1 DEF SyncTypeOK
      <3>2. Holds(log, BatchOf[w]) \/ ~HoldsSome(log, BatchOf[w]) BY DEF SyncIInv, WritersFit, WriterFits
      <3> QED BY <1>1, <1>3, <1>5, <2>2, <3>1, <3>2 DEF WriterFits
    <2> QED BY <2>1, <2>2
  <1>8. SyncTypeOK'
    <2>1. [status |-> "asking", attempt |-> 1] \in WriterState BY DEF WriterState
    <2>2. writer' \in [Writers -> WriterState] BY <1>1, <2>1 DEF SyncTypeOK
    <2> QED BY <1>1, <1>5, <2>2 DEF SyncTypeOK
  <1> QED BY <1>4, <1>6, <1>7, <1>8, LogGrowth, ClientUnmoved DEF SyncIInv, WritersFit

LEMMA WriterServedPreserves ==
    ASSUME SyncIInv, NEW w \in Writers, WriterServed(w), UNCHANGED clientVars
    PROVE  SyncIInv'
  <1>1. PICK h \in handlers[w] :
          /\ IF Begins(h)
             THEN /\ handlers' = [handlers EXCEPT ![w] = {Observes(h)}]
                  /\ UNCHANGED <<log, writer>>
             ELSE /\ handlers' = [handlers EXCEPT ![w] = {}]
                  /\ log' = LogAfter(h)
                  /\ writer' = [writer EXCEPT ![w].status = WriterOutcome(w, AppendResult(h), log')]
          /\ UNCHANGED late
    BY DEF WriterServed
  <1>2. /\ SyncTypeOK /\ w \in Clients /\ h \in Appending /\ h.batch = BatchOf[w] /\ WriterFits(w)
        /\ UNCHANGED <<scenario, local, saved, co, task, asked>>
    BY BatchTypes DEF SyncIInv, Clients, WritersFit, WriterFits, clientVars
  <1>3. LogStep BY <1>1, <1>2 DEF LogStep
  <1>4. Len(log) \in Nat /\ Len(log') \in Nat /\ Len(log) <= Len(log') /\ ToSet(log) \subseteq ToSet(log') BY <1>3, LogGrowth
  <1>5. Observes(h) \in Appending /\ SameAppend(Observes(h), h) /\ Observes(h).observed = Len(log)
    BY <1>2, <1>4 DEF Observes, Appending, SameAppend
  <1>6. /\ handlers' \in [Clients -> SUBSET Appending]
        /\ \A q \in Clients \ {w} : handlers'[q] = handlers[q]
        /\ handlers'[w] = IF Begins(h) THEN {Observes(h)} ELSE {}
    <2>1. handlers \in [Clients -> SUBSET Appending] BY <1>2 DEF SyncTypeOK
    <2>2. CASE Begins(h)
      <3>1. handlers' = [handlers EXCEPT ![w] = {Observes(h)}] BY <1>1, <2>2
      <3>2. {Observes(h)} \in SUBSET Appending BY <1>5
      <3> QED BY <1>2, <2>1, <2>2, <3>1, <3>2
    <2>3. CASE ~Begins(h)
      <3>1. handlers' = [handlers EXCEPT ![w] = {}] BY <1>1, <2>3
      <3> QED BY <1>2, <2>1, <2>3, <3>1
    <2> QED BY <2>2, <2>3
  <1>7. AppendsFit'
    <2> SUFFICES ASSUME NEW p \in Clients, NEW g \in handlers'[p] \cup late'[p]
                 PROVE  g.observed <= Len(log') /\ \E x \in handlers[p] \cup late[p] : SameAppend(g, x)
      BY <1>1, <1>2, <1>3, <1>6, AppendsPreserved DEF SyncTypeOK
    <2>1. CASE g \in handlers[p] \cup late[p] BY <1>3, <2>1, ObservedSoFar DEF SameAppend
    <2>2. CASE p = w /\ g = Observes(h) BY <1>4, <1>5, <2>2
    <2> QED BY <1>1, <1>6, <2>1, <2>2
  <1>8. ASSUME NEW v \in Writers, v # w PROVE WriterFits(v)'
    <2>1. v \in Clients /\ writer'[v] = writer[v] BY <1>1, <1>2, <1>8 DEF Clients, SyncTypeOK
    <2> QED BY <1>1, <1>3, <1>6, <1>8, <2>1, WriterKept DEF SameAppend
  <1>9. WriterFits(w)' /\ writer' \in [Writers -> WriterState]
    <2>1. CASE Begins(h)
      <3>1. writer' = writer BY <1>1, <2>1
      <3>2. \A g \in handlers'[w] : \E x \in handlers[w] : SameAppend(g, x) BY <1>5, <1>6, <2>1
      <3>3. \A g \in late'[w] : \E x \in late[w] : SameAppend(g, x) BY <1>1 DEF SameAppend
      <3> QED BY <1>2, <1>3, <3>1, <3>2, <3>3, WriterKept DEF SyncTypeOK
    <2>2. CASE ~Begins(h)
      <3> DEFINE out == WriterOutcome(w, AppendResult(h), log')
      <3>1. /\ log' = LogAfter(h) /\ handlers'[w] = {} /\ late' = late
            /\ writer' = [writer EXCEPT ![w].status = out]
        BY <1>1, <1>6, <2>2
      <3>2. /\ out \in {"conflict", "failed", "idempotent", "appended"}
            /\ out = "conflict" => AppendResult(h).status = "conflict"
            /\ out \in {"idempotent", "appended"} => AppendResult(h).status # "conflict"
        BY DEF WriterOutcome
      <3> HIDE DEF out
      <3>3. /\ writer \in [Writers -> WriterState] /\ writer[w] \in WriterState
        BY <1>2 DEF SyncTypeOK
      <3>4. [writer[w] EXCEPT !.status = out] \in WriterState /\ [writer[w] EXCEPT !.status = out].status = out
        BY <3>2, <3>3 DEF WriterState
      <3>5. writer' \in [Writers -> WriterState] /\ writer'[w].status = out BY <3>1, <3>3, <3>4
      <3>6. \A g, x \in handlers'[w] \cup late'[w] : x.batch = BatchOf[w] /\ g.expected = x.expected
        BY <1>2, <3>1 DEF WriterFits
      <3>7. out \in {"idempotent", "appended"} => Holds(log', BatchOf[w])
        BY <1>2, <3>1, <3>2, AppendEffect DEF Holds
      <3>8. Holds(log', BatchOf[w]) \/ ~HoldsSome(log', BatchOf[w])
        <4>1. log' = log \/ AppendResult(h).status = "accepted" BY <1>2, <3>1, AppendEffect
        <4>2. AppendResult(h).status = "accepted" => Holds(log', BatchOf[w]) BY <1>2, <3>1, AppendEffect DEF Holds
        <4>3. log' = log => Holds(log', BatchOf[w]) \/ ~HoldsSome(log', BatchOf[w]) BY <1>2 DEF WriterFits
        <4> QED BY <4>1, <4>2, <4>3
      <3>9. out = "conflict" => ~HoldsSome(log', BatchOf[w]) /\ \A g \in late'[w] : g.expected < Len(log')
        <4> SUFFICES ASSUME out = "conflict"
                     PROVE  ~HoldsSome(log', BatchOf[w]) /\ \A g \in late'[w] : g.expected < Len(log')
          OBVIOUS
        <4>1. /\ AppendResult(h).status = "conflict" /\ log' = log /\ ~Holds(log, BatchOf[w]) /\ ~Appends(h)
          BY <1>2, <3>1, <3>2, AppendEffect
        <4>2. ~HoldsSome(log, BatchOf[w]) BY <1>2, <4>1 DEF WriterFits
        <4>3. h.expected \in Nat /\ h.observed \in Int /\ h.expected <= Len(log) /\ h.observed <= Len(log)
          BY <1>2, BatchTypes DEF SyncIInv, AppendsFit, FitsLog
        <4>4. h.expected < Len(log) BY <1>2, <1>4, <4>1, <4>2, <4>3 DEF Appends
        <4>5. \A g \in late[w] : g.expected = h.expected BY <1>2 DEF WriterFits
        <4> QED BY <3>1, <4>1, <4>2, <4>4, <4>5
      <3> QED BY <3>1, <3>2, <3>5, <3>6, <3>7, <3>8, <3>9 DEF WriterFits
    <2> QED BY <2>1, <2>2
  <1>10. SyncTypeOK' BY <1>1, <1>2, <1>3, <1>6, <1>9, LogGrowth DEF SyncTypeOK
  <1> QED BY <1>3, <1>7, <1>8, <1>9, <1>10, LogGrowth, ClientUnmoved DEF SyncIInv, WritersFit

LEMMA WriterUnheardPreserves ==
    ASSUME SyncIInv, NEW w \in Writers, WriterUnheard(w), UNCHANGED clientVars
    PROVE  SyncIInv'
  <1>1. /\ SyncTypeOK /\ w \in Clients /\ WriterFits(w) /\ log' = log /\ Len(log) \in Nat
        /\ UNCHANGED <<scenario, local, saved, co, task, asked>>
        /\ writer[w].status = "asking" /\ late' = [late EXCEPT ![w] = @ \cup handlers[w]]
    BY LenProperties DEF SyncIInv, SyncTypeOK, Clients, WritersFit, WriterUnheard, clientVars
  <1> DEFINE again == {[h EXCEPT !.observed = -1] : h \in handlers[w]}
  <1>2. LogStep BY <1>1 DEF LogStep
  <1>3. /\ handlers' = [handlers EXCEPT ![w] = again] \/ handlers' = [handlers EXCEPT ![w] = {}]
        /\ writer' = [writer EXCEPT ![w].status = "unavailable"] => handlers' = [handlers EXCEPT ![w] = {}]
        /\ \/ writer' = [writer EXCEPT ![w].attempt = @ + 1]
           \/ writer' = [writer EXCEPT ![w].status = "unavailable"]
    <2>1. CASE writer[w].attempt < MaxAttempts
      <3>1. handlers' = [handlers EXCEPT ![w] = again] /\ writer' = [writer EXCEPT ![w].attempt = @ + 1]
        BY <2>1 DEF WriterUnheard
      <3>2. writer[w] \in WriterState BY <1>1 DEF SyncTypeOK
      <3>3. writer'[w].status = "asking" BY <1>1, <3>1, <3>2 DEF SyncTypeOK, WriterState
      <3>4. writer' # [writer EXCEPT ![w].status = "unavailable"]
        BY <1>1, <3>2, <3>3 DEF SyncTypeOK, WriterState
      <3> QED BY <3>1, <3>4
    <2>2. CASE ~(writer[w].attempt < MaxAttempts) BY <2>2 DEF WriterUnheard
    <2> QED BY <2>1, <2>2
  <1>4. \A g \in again : /\ g \in Appending /\ g.observed = -1
                         /\ \E h \in handlers[w] : SameAppend(g, h)
    <2> TAKE g \in again
    <2>1. PICK h \in handlers[w] : g = [h EXCEPT !.observed = -1] OBVIOUS
    <2>2. h \in Appending BY <1>1, BatchTypes
    <2>3. g \in Appending /\ g.observed = -1 /\ SameAppend(g, h) BY <2>1, <2>2 DEF Appending, SameAppend
    <2> QED BY <2>3
  <1> HIDE DEF again
  <1>5. /\ handlers' \in [Clients -> SUBSET Appending] /\ late' \in [Clients -> SUBSET Appending]
        /\ handlers'[w] \subseteq again /\ late'[w] = late[w] \cup handlers[w]
        /\ \A q \in Clients \ {w} : handlers'[q] = handlers[q] /\ late'[q] = late[q]
    <2>1. handlers \in [Clients -> SUBSET Appending] /\ late \in [Clients -> SUBSET Appending]
      BY <1>1 DEF SyncTypeOK
    <2>2. again \in SUBSET Appending BY <1>4
    <2> QED BY <1>1, <1>3, <2>1, <2>2
  <1>6. AppendsFit'
    <2> SUFFICES ASSUME NEW p \in Clients, NEW g \in handlers'[p] \cup late'[p]
                 PROVE  g.observed <= Len(log') /\ \E x \in handlers[p] \cup late[p] : SameAppend(g, x)
      BY <1>1, <1>2, <1>5, AppendsPreserved DEF SyncTypeOK
    <2>1. CASE g \in handlers[p] \cup late[p] BY <1>2, <2>1, ObservedSoFar DEF SameAppend
    <2>2. CASE p = w /\ g \in again BY <1>1, <1>4, <2>2
    <2> QED BY <1>5, <2>1, <2>2
  <1>7. writer' \in [Writers -> WriterState] /\ writer'[w].status \in {"asking", "unavailable"}
        /\ \A v \in Writers \ {w} : writer'[v] = writer[v]
    <2>1. writer \in [Writers -> WriterState] /\ writer[w] \in WriterState BY <1>1 DEF SyncTypeOK
    <2> DEFINE more == writer[w].attempt + 1
    <2>2. more \in Nat BY <2>1 DEF WriterState
    <2>3. writer' = [writer EXCEPT ![w].attempt = more] \/ writer' = [writer EXCEPT ![w].status = "unavailable"]
      BY <1>3, <2>1
    <2> HIDE DEF more
    <2>4. /\ [writer[w] EXCEPT !.attempt = more] \in WriterState
          /\ [writer[w] EXCEPT !.attempt = more].status = "asking"
          /\ [writer[w] EXCEPT !.status = "unavailable"] \in WriterState
          /\ [writer[w] EXCEPT !.status = "unavailable"].status = "unavailable"
      BY <1>1, <2>1, <2>2 DEF WriterState
    <2> QED BY <2>1, <2>3, <2>4
  <1>8. ASSUME NEW v \in Writers PROVE WriterFits(v)'
    <2>1. CASE v # w
      <3>1. v \in Clients BY DEF Clients
      <3> QED BY <1>2, <1>5, <1>7, <2>1, <3>1, WriterKept DEF SameAppend
    <2>2. CASE v = w
      <3>1. \A g \in handlers'[w] \cup late'[w] : \E x \in handlers[w] \cup late[w] : SameAppend(g, x)
        BY <1>4, <1>5 DEF SameAppend
      <3>2. \A g, x \in handlers'[w] \cup late'[w] : x.batch = BatchOf[w] /\ g.expected = x.expected
        BY <1>1, <3>1 DEF WriterFits, SameAppend
      <3>3. writer'[w].status # "asking" => handlers'[w] = {}
        <4>1. writer[w] \in WriterState /\ writer \in [Writers -> WriterState] BY <1>1 DEF SyncTypeOK
        <4>2. writer' = [writer EXCEPT ![w].attempt = @ + 1] => writer'[w].status = "asking"
          BY <1>1, <4>1 DEF WriterState
        <4>3. handlers \in [Clients -> SUBSET Appending] BY <1>1 DEF SyncTypeOK
        <4> QED BY <1>1, <1>3, <4>2, <4>3
      <3>4. Holds(log, BatchOf[w]) \/ ~HoldsSome(log, BatchOf[w]) BY <1>1 DEF WriterFits
      <3> QED BY <1>1, <1>7, <2>2, <3>2, <3>3, <3>4 DEF WriterFits
    <2> QED BY <2>1, <2>2
  <1>9. SyncTypeOK' BY <1>1, <1>5, <1>7 DEF SyncTypeOK
  <1> QED BY <1>2, <1>6, <1>8, <1>9, LogGrowth, ClientUnmoved DEF SyncIInv, WritersFit

------------------------------------------------
\* A step of a device.  What was saved and pending is carried over; the step
\* leaves the device's memory, its operation and what it has resolved so
\* that the invariant holds of them.
Carries(d) ==
    /\ LogStep /\ scenario' = scenario /\ refused \subseteq refused'
    /\ ToSet(saved[Store(d)].pending) \subseteq ToSet(saved'[Store(d)].pending) \cup ToSet(log') \cup refused'
Turn(d, c) ==
    /\ co' = [co EXCEPT ![d] = c]
    /\ task' \in [Devices -> Task] /\ \A e \in Devices \ {d} : task'[e] = task[e]
    /\ TaskFits(d)' /\ Queueing(d)'
    /\ \A m \in resolved' \ resolved : m \in ToSet(scenario.queue[d]) /\ Kept(d, m)'
ServerKept ==
    /\ handlers' \in [Clients -> SUBSET Appending] /\ late' \in [Clients -> SUBSET Appending]
    /\ writer' \in [Writers -> WriterState] /\ AppendsFit' /\ WritersFit'
AskedMore(d) ==
    /\ asked' \in [Devices -> Nat] /\ \A e \in Devices \ {d} : asked'[e] = asked[e]
    /\ asked[d] <= asked'[d] /\ asked'[d] <= Len(scenario.queue[d])
LocalFollows == local' \in [Stores -> Seq(Mutations)] /\ \A s \in Stores : Starts(local'[s], log')

LEMMA KeptOn ==
    ASSUME SyncIInv, NEW d \in Devices, Carries(d), NEW m, Kept(d, m)
    PROVE  Kept(d, m)'
  <1>1. ToSet(log) \subseteq ToSet(log') BY LogGrowth DEF Carries
  <1>2. Store(d)' = Store(d) BY DEF Carries, Store
  <1> QED BY <1>1, <1>2 DEF Carries, Kept

LEMMA DeviceKeeps ==
    ASSUME SyncIInv, NEW d \in Devices, NEW c \in Coordinator, NEW v \in SavedState,
           Carries(d), ServerKept, AskedMore(d), LocalFollows, Turn(d, c),
           saved' = [saved EXCEPT ![Store(d)] = v],
           Starts(c.auth, log'), Starts(v.auth, log'),
           IsInjective(c.pending), ToSet(c.pending) \subseteq QueuedAt(Store(d))',
           IsInjective(v.pending), ToSet(v.pending) \subseteq QueuedAt(Store(d))',
           ~v.exists => v.pending = <<>>,
           d \in v.known => ToSet(v.pending) \subseteq ToSet(c.pending) \cup ToSet(log') \cup refused',
           \A e \in Devices \ {d} : Store(e) = Store(d) /\ e \in v.known =>
              ToSet(v.pending) \subseteq ToSet(co[e].pending) \cup ToSet(log') \cup refused'
    PROVE  SyncIInv'
  <1> DEFINE s == Store(d)
  <1>1. /\ LogStep /\ scenario' = scenario /\ refused \subseteq refused' /\ s \in Stores
        /\ co \in [Devices -> Coordinator] /\ saved \in [Stores -> SavedState]
        /\ log' \in Seq(Mutations) /\ ToSet(log) \subseteq ToSet(log') /\ LogHoldsOnce'
    BY ReplicaTypes, LogGrowth DEF Carries, SyncIInv, SyncTypeOK
  <1>2. /\ co' \in [Devices -> Coordinator] /\ co'[d] = c /\ \A e \in Devices \ {d} : co'[e] = co[e]
        /\ saved' \in [Stores -> SavedState] /\ saved'[s] = v /\ \A r \in Stores \ {s} : saved'[r] = saved[r]
    BY <1>1 DEF Turn
  <1>3. \A e \in Devices : Store(e)' = Store(e) BY <1>1 DEF Store
  <1>4. SyncTypeOK'
    <2>1. asked' \in [Devices -> Nat] /\ \A e \in Devices : asked'[e] <= Len(scenario.queue[e])
      BY ReplicaTypes DEF AskedMore
    <2> QED BY <1>1, <1>2, <2>1, ReplicaTypes DEF SyncTypeOK, ServerKept, LocalFollows, Turn
  <1>5. ReplicasFollow'
    <2>1. \A e \in Devices : IsPrefixOf(co'[e].auth, log')
      <3> TAKE e \in Devices
      <3>1. CASE e = d
        <4>1. c.auth \in Seq(Mutations) BY DEF Coordinator
        <4> QED BY <1>1, <1>2, <3>1, <4>1, PrefixIsStart
      <3>2. CASE e # d BY <1>1, <1>2, <3>2, ReplicaTypes, FollowsOn
      <3> QED BY <3>1, <3>2
    <2>2. \A r \in Stores : IsPrefixOf(local'[r], log') BY <1>1, PrefixIsStart DEF LocalFollows
    <2>3. \A r \in Stores : IsPrefixOf(saved'[r].auth, log')
      <3> TAKE r \in Stores
      <3>1. CASE r = s
        <4>1. v.auth \in Seq(Mutations) BY DEF SavedState
        <4> QED BY <1>1, <1>2, <3>1, <4>1, PrefixIsStart
      <3>2. CASE r # s BY <1>1, <1>2, <3>2, ReplicaTypes, FollowsOn
      <3> QED BY <3>1, <3>2
    <2> QED BY <2>1, <2>2, <2>3 DEF ReplicasFollow
  <1>6. \A r \in Stores : QueuedAt(r) \subseteq QueuedAt(r)'
    <2> SUFFICES ASSUME NEW r \in Stores, NEW e \in Devices, Store(e) = r,
                        NEW i \in 1..asked[e], scenario.queue[e][i] \in Mutations
                 PROVE  scenario.queue[e][i] \in QueuedAt(r)'
      BY DEF QueuedAt
    <2>1. asked[e] \in Nat /\ asked'[e] \in Nat /\ (asked[e] <= asked'[e] \/ asked'[e] = asked[e])
      <3>1. asked[e] \in Nat /\ asked'[e] \in Nat BY ReplicaTypes DEF AskedMore
      <3>2. e = d \/ asked'[e] = asked[e] BY DEF AskedMore
      <3> QED BY <3>1, <3>2 DEF AskedMore
    <2>2. i \in 1..asked'[e] BY <2>1
    <2> QED BY <1>1, <1>3, <2>2 DEF QueuedAt
  <1>7. PendingOK'
    <2>0. PendingOK BY DEF SyncIInv
    <2>1. ASSUME NEW e \in Devices PROVE IsInjective(co'[e].pending) /\ ToSet(co'[e].pending) \subseteq QueuedAt(Store(e))'
      <3>1. CASE e = d BY <1>2, <3>1
      <3>2. CASE e # d
        <4>1. PICK r \in Stores : r = Store(e) BY ReplicaTypes
        <4>2. QueuedAt(r)' = QueuedAt(Store(e))' BY <1>3, <4>1 DEF QueuedAt
        <4>3. IsInjective(co[e].pending) /\ ToSet(co[e].pending) \subseteq QueuedAt(r) BY <2>0, <4>1 DEF PendingOK
        <4> QED BY <1>2, <1>6, <3>2, <4>2, <4>3
      <3> QED BY <3>1, <3>2
    <2>2. ASSUME NEW r \in Stores
          PROVE  /\ IsInjective(saved'[r].pending) /\ ToSet(saved'[r].pending) \subseteq QueuedAt(r)'
                 /\ ~saved'[r].exists => saved'[r].pending = <<>>
      <3>1. CASE r = s
        <4>1. QueuedAt(r)' = QueuedAt(Store(d))' BY <1>1, <3>1 DEF QueuedAt, Store
        <4> QED BY <1>2, <3>1, <4>1
      <3>2. CASE r # s BY <1>2, <1>6, <2>0, <3>2 DEF PendingOK
      <3> QED BY <3>1, <3>2
    <2> QED BY <2>1, <2>2 DEF PendingOK
  <1>8. MutationsKept'
    <2> SUFFICES ASSUME NEW e \in Devices, NEW m \in ToSet(scenario.queue[e]), m \in resolved'
                 PROVE  Kept(e, m)'
      BY <1>1 DEF MutationsKept, Kept
    <2>1. CASE m \in resolved
      <3>1. Kept(e, m) BY <2>1 DEF SyncIInv, KeptOK, MutationsKept, Kept
      <3>2. CASE Store(e) = s
        <4>1. Kept(d, m) BY <3>1, <3>2 DEF Kept
        <4>2. Kept(d, m)' BY <4>1, KeptOn
        <4> QED BY <1>3, <3>2, <4>2 DEF Kept
      <3>3. CASE Store(e) # s
        <4>1. Store(e) \in Stores BY ReplicaTypes
        <4> QED BY <1>1, <1>2, <1>3, <3>1, <3>3, <4>1 DEF Kept
      <3> QED BY <3>2, <3>3
    <2>2. CASE m \notin resolved
      <3>1. m \in ToSet(scenario.queue[d]) /\ Kept(d, m)' BY <2>2 DEF Turn
      <3>2. scenario \in Scenarios BY ReplicaTypes
      <3>3. e = d BY <3>1, <3>2, SyncAssumption
      <3> QED BY <3>1, <3>3
    <2> QED BY <2>1, <2>2
  <1>9. ASSUME NEW e \in Devices, e # d PROVE (Known(e) /\ TaskFits(e) /\ Queueing(e))'
    <2>1. Known(e) /\ TaskFits(e) /\ Queueing(e) /\ Store(e) \in Stores BY ReplicaTypes DEF SyncIInv, KeptOK
    <2>2. task'[e] = task[e] /\ asked'[e] = asked[e] /\ co'[e] = co[e] BY <1>2, <1>9 DEF Turn, AskedMore
    <2>3. Known(e)'
      <3>1. CASE Store(e) = s BY <1>2, <1>3, <1>9, <2>2, <3>1 DEF Known
      <3>2. CASE Store(e) # s BY <1>1, <1>2, <1>3, <2>1, <2>2, <3>2 DEF Known
      <3> QED BY <3>1, <3>2
    <2>4. TaskFits(e)' BY <1>1, <2>1, <2>2 DEF TaskFits, Settling
    <2>5. \A m : Kept(e, m) => Kept(e, m)'
      <3>1. CASE Store(e) = s
        <4> TAKE m
        <4> HAVE Kept(e, m)
        <4>1. Kept(d, m) BY <3>1 DEF Kept
        <4>2. Kept(d, m)' BY <4>1, KeptOn
        <4> QED BY <1>3, <3>1, <4>2 DEF Kept
      <3>2. CASE Store(e) # s BY <1>1, <1>2, <1>3, <2>1, <3>2 DEF Kept
      <3> QED BY <3>1, <3>2
    <2>6. Queueing(e)'
      <3>0. PICK m : m = scenario.queue[e][asked[e]] OBVIOUS
      <3>1. Kept(e, m) => Kept(e, m)' BY <2>5
      <3>2. scenario'.queue[e][asked'[e]] = m BY <1>1, <2>2, <3>0
      <3>3. Kept(e, m)' => Kept(e, scenario.queue[e][asked[e]])' BY <3>2 DEF Kept
      <3> QED BY <1>1, <2>1, <2>2, <3>0, <3>1, <3>2, <3>3 DEF Queueing, Unsaved
    <2> QED BY <2>3, <2>4, <2>6
  <1>10. (Known(d) /\ TaskFits(d) /\ Queueing(d))'
    <2>1. Known(d)' BY <1>2, <1>3 DEF Known
    <2> QED BY <2>1 DEF Turn
  <1>11. KeptOK' BY <1>8, <1>9, <1>10 DEF KeptOK
  <1> QED BY <1>1, <1>4, <1>5, <1>7, <1>11 DEF SyncIInv, ServerKept

LEMMA ServerQuiet ==
    ASSUME SyncIInv, UNCHANGED adapterVars, scenario' = scenario
    PROVE  ServerKept /\ LogStep /\ log' = log
  <1>1. UNCHANGED <<log, handlers, late, writer>> BY DEF adapterVars
  <1>2. LogStep BY <1>1 DEF LogStep
  <1>3. AppendsFit' BY <1>1 DEF SyncIInv, AppendsFit, FitsLog, Proposed
  <1>4. WritersFit' BY <1>1 DEF SyncIInv, WritersFit, WriterFits
  <1> QED BY <1>1, <1>2, <1>3, <1>4 DEF SyncIInv, SyncTypeOK, ServerKept

\* A device's step touches only its own appends.
LEMMA ServerDevice ==
    ASSUME SyncIInv, LogStep, scenario' = scenario, writer' = writer, NEW d \in Devices,
           NEW H \in SUBSET Appending, NEW L \in SUBSET Appending,
           handlers' = [handlers EXCEPT ![d] = H], late' = [late EXCEPT ![d] = L],
           \A g \in H \cup L : /\ g.observed <= Len(log')
                               /\ (\E h \in handlers[d] \cup late[d] : SameAppend(g, h)) \/ NewAppend(d, g)
    PROVE  ServerKept
  <1>1. /\ handlers \in [Clients -> SUBSET Appending] /\ late \in [Clients -> SUBSET Appending]
        /\ d \in Clients /\ writer' \in [Writers -> WriterState]
    BY DEF SyncIInv, SyncTypeOK, Clients
  <1>2. /\ handlers' \in [Clients -> SUBSET Appending] /\ late' \in [Clients -> SUBSET Appending]
        /\ handlers'[d] = H /\ late'[d] = L
        /\ \A p \in Clients \ {d} : handlers'[p] = handlers[p] /\ late'[p] = late[p]
    BY <1>1
  <1>3. AppendsFit'
    <2> SUFFICES ASSUME NEW p \in Clients, NEW g \in handlers'[p] \cup late'[p]
                 PROVE  /\ g.observed <= Len(log')
                        /\ (\E x \in handlers[p] \cup late[p] : SameAppend(g, x)) \/ NewAppend(p, g)
      BY <1>2, AppendsPreserved
    <2>1. CASE p = d BY <1>2, <2>1
    <2>2. CASE p # d
      <3>1. g \in handlers[p] \cup late[p] BY <1>2, <2>2
      <3> QED BY <3>1, ObservedSoFar DEF SameAppend
    <2> QED BY <2>1, <2>2
  <1>4. WritersFit'
    <2> SUFFICES ASSUME NEW w \in Writers PROVE WriterFits(w)'
      BY DEF WritersFit
    <2>1. w \in Clients \ {d} BY SyncAssumption DEF Clients
    <2> QED BY <1>2, <2>1, WriterKept DEF SameAppend
  <1> QED BY <1>1, <1>2, <1>3, <1>4 DEF ServerKept

------------------------------------------------
\* How an operation ends or goes on.

LEMMA TaskParts ==
    ASSUME SyncIInv, NEW d \in Devices
    PROVE  /\ task \in [Devices -> Task] /\ task[d] \in Task /\ NoTask \in Task
           /\ co \in [Devices -> Coordinator] /\ TaskFits(d) /\ Queueing(d) /\ Known(d)
  <1>1. task \in [Devices -> Task] /\ co \in [Devices -> Coordinator] BY DEF SyncIInv, SyncTypeOK
  <1>2. NoTask \in Task
    <2>1. <<>> \in Seq(Mutations) OBVIOUS
    <2> QED BY <2>1 DEF NoTask, Task, Places
  <1> QED BY <1>1, <1>2 DEF SyncIInv, KeptOK

LEMMA QueuedMember ==
    ASSUME SyncIInv, NEW d \in Devices, NEW i \in 1..Len(scenario.queue[d])
    PROVE  scenario.queue[d][i] \in ToSet(scenario.queue[d]) /\ scenario.queue[d][i] \in Mutations
  <1>1. scenario.queue[d] \in Seq(Mutations) BY ReplicaTypes
  <1> QED BY <1>1, LenProperties, ElementOfSeq DEF ToSet

LEMMA EndsTurn ==
    ASSUME SyncIInv, NEW d \in Devices, NEW c \in Coordinator, NEW done, Ends(d, c, done),
           \A m \in done : m \in ToSet(scenario.queue[d]) /\ Kept(d, m)'
    PROVE  Turn(d, c)
  <1>1. task' = [task EXCEPT ![d] = NoTask] /\ co' = [co EXCEPT ![d] = c] /\ resolved' = resolved \cup done
    BY DEF Ends
  <1>2. task \in [Devices -> Task] /\ NoTask \in Task BY TaskParts
  <1>3. task' \in [Devices -> Task] /\ task'[d] = NoTask /\ \A e \in Devices \ {d} : task'[e] = task[e]
    BY <1>1, <1>2
  <1>4. TaskFits(d)' /\ Queueing(d)' BY <1>3 DEF TaskFits, Queueing, Settling, NoTask
  <1> QED BY <1>1, <1>3, <1>4 DEF Turn

LEMMA FinishesTurn ==
    ASSUME SyncIInv, NEW d \in Devices, NEW c \in Coordinator, Carries(d), Finishes(d, c),
           Unsaved(task[d]) => ToSet(co[d].pending) \subseteq ToSet(saved'[Store(d)].pending)
    PROVE  Turn(d, c)
  <1>1. PICK done : done = IF task[d].op = "queue" THEN LastAsked(d) ELSE {} OBVIOUS
  <1>2. Ends(d, c, done) BY <1>1 DEF Finishes
  <1>3. ASSUME NEW m \in done PROVE m \in ToSet(scenario.queue[d]) /\ Kept(d, m)'
    <2>1. task[d].op = "queue" /\ m = scenario.queue[d][asked[d]] BY <1>1, <1>3 DEF LastAsked
    <2>2. /\ asked[d] \in Nat /\ asked[d] <= Len(scenario.queue[d]) /\ Queueing(d) /\ asked[d] > 0
          /\ scenario.queue[d] \in Seq(Mutations)
      BY <2>1, ReplicaTypes, TaskParts DEF Queueing
    <2>3. asked[d] \in 1..Len(scenario.queue[d]) BY <2>2, LenProperties
    <2>4. m \in ToSet(scenario.queue[d]) BY <2>1, <2>3, QueuedMember
    <2>5. CASE Unsaved(task[d])
      <3>1. m \in ToSet(co[d].pending) BY <2>1, <2>2, <2>5 DEF Queueing
      <3>2. Store(d)' = Store(d) BY DEF Carries, Store
      <3> QED BY <2>4, <2>5, <3>1, <3>2 DEF Kept
    <2>6. CASE ~Unsaved(task[d])
      <3>1. Kept(d, m) BY <2>1, <2>2, <2>6 DEF Queueing
      <3> QED BY <2>4, <3>1, KeptOn
    <2> QED BY <2>5, <2>6
  <1> QED BY <1>2, <1>3, EndsTurn

LEMMA ThrowsTurn ==
    ASSUME SyncIInv, NEW d \in Devices, NEW c \in Coordinator, Throws(d, c)
    PROVE  \E x \in Coordinator : Same(x, c) /\ Turn(d, x)
  <1>1. PICK x : x = IF task[d].op = "start" THEN FailPermanently(c)
                     ELSE IF task[d].op \in {"connect", "update"} THEN ScheduleReconnect(c) ELSE c
    OBVIOUS
  <1>2. Ends(d, x, {}) BY <1>1 DEF Throws
  <1>3. x \in Coordinator /\ Same(x, c) BY <1>1, Failing, Reconnecting DEF Same
  <1> QED BY <1>2, <1>3, EndsTurn

\* While an operation goes on, the mutation it queued is kept.
LEMMA QueueingOn ==
    ASSUME SyncIInv, NEW d \in Devices, Carries(d), asked' = asked, ~Unsaved(task'[d]), task'[d].op = task[d].op,
           Unsaved(task[d]) => ToSet(co[d].pending) \subseteq ToSet(saved'[Store(d)].pending)
    PROVE  Queueing(d)'
  <1> SUFFICES ASSUME task[d].op = "queue"
               PROVE  asked'[d] > 0 /\ Kept(d, scenario.queue[d][asked[d]])'
    BY DEF Queueing, Unsaved
  <1>1. PICK m : m = scenario.queue[d][asked[d]] OBVIOUS
  <1>2. Queueing(d) /\ asked[d] > 0 /\ Store(d)' = Store(d) /\ m = scenario'.queue[d][asked'[d]]
    BY <1>1, TaskParts DEF Queueing, Carries, Store
  <1>3. CASE Unsaved(task[d])
    <2>1. m \in ToSet(co[d].pending) BY <1>1, <1>2, <1>3 DEF Queueing
    <2> QED BY <1>2, <1>3, <2>1 DEF Kept
  <1>4. CASE ~Unsaved(task[d])
    <2>1. Kept(d, m) BY <1>1, <1>2, <1>4 DEF Queueing
    <2>2. Kept(d, m)' BY <2>1, KeptOn
    <2> QED BY <1>2, <2>2 DEF Kept
  <1> QED BY <1>3, <1>4

LEMMA ContinuesTurn ==
    ASSUME SyncIInv, NEW d \in Devices, NEW c \in Coordinator, Carries(d), asked' = asked,
           NEW then \in {"idle", "connect", "gate", "catchup", "subscribe", "push", "settle", "await"},
           Continues(d, then, c), then = "settle" => ToSet(task[d].batch) \subseteq ToSet(log'),
           Unsaved(task[d]) => ToSet(co[d].pending) \subseteq ToSet(saved'[Store(d)].pending)
    PROVE  Turn(d, c)
  <1>1. PICK at : at = Following(c, then) OBVIOUS
  <1>2. at \in {"idle", "catchup", "subscribe", "push", "settle", "await"} /\ (at = "settle" => then = "settle")
    BY <1>1 DEF Following
  <1>3. CASE at = "idle"
    <2>1. Finishes(d, c) BY <1>1, <1>3 DEF Continues
    <2> QED BY <2>1, FinishesTurn
  <1>4. CASE at # "idle"
    <2>1. task' = [task EXCEPT ![d].at = at] /\ co' = [co EXCEPT ![d] = c] /\ resolved' = resolved
      BY <1>1, <1>4 DEF Continues
    <2>2. task \in [Devices -> Task] /\ task[d] \in Task BY TaskParts
    <2>3. PICK t : t = [task[d] EXCEPT !.at = at] OBVIOUS
    <2>4. t \in Task /\ t.at = at /\ t.op = task[d].op /\ t.then = task[d].then /\ t.batch = task[d].batch
      BY <1>2, <2>2, <2>3 DEF Task, Places
    <2>5. task' \in [Devices -> Task] /\ task'[d] = t /\ \A e \in Devices \ {d} : task'[e] = task[e]
      BY <2>1, <2>2, <2>3, <2>4
    <2>6. TaskFits(d)' BY <1>2, <1>4, <2>4, <2>5 DEF TaskFits, Settling
    <2>7. ~Unsaved(t) BY <1>2, <2>4 DEF Unsaved
    <2>8. Queueing(d)' BY <2>4, <2>5, <2>7, QueueingOn
    <2> QED BY <2>1, <2>5, <2>6, <2>8 DEF Turn
  <1> QED BY <1>3, <1>4

LEMMA SavesTurn ==
    ASSUME SyncIInv, NEW d \in Devices, NEW c \in Coordinator, Carries(d), asked' = asked,
           NEW then \in {"idle", "connect", "catchup", "subscribe", "push", "settle"}, task[d].at # "save",
           Saves(d, then, c), then = "settle" => ToSet(task[d].batch) \subseteq ToSet(log')
    PROVE  Turn(d, c)
  <1>1. /\ task' = [task EXCEPT ![d].at = "save", ![d].then = then] /\ co' = [co EXCEPT ![d] = c]
        /\ resolved' = resolved
    BY DEF Saves
  <1>2. task \in [Devices -> Task] /\ task[d] \in Task BY TaskParts
  <1>3. PICK t : t = [task[d] EXCEPT !.at = "save", !.then = then] OBVIOUS
  <1>4. t \in Task /\ t.at = "save" /\ t.op = task[d].op /\ t.then = then /\ t.batch = task[d].batch
    BY <1>2, <1>3 DEF Task, Places
  <1>5. task' \in [Devices -> Task] /\ task'[d] = t /\ \A e \in Devices \ {d} : task'[e] = task[e]
    BY <1>1, <1>2, <1>3, <1>4
  <1>6. TaskFits(d)' BY <1>4, <1>5 DEF TaskFits, Settling
  <1>7. ~Unsaved(t) /\ ~Unsaved(task[d]) BY <1>4 DEF Unsaved
  <1>8. Queueing(d)' BY <1>4, <1>5, <1>7, QueueingOn
  <1> QED BY <1>1, <1>5, <1>6, <1>8 DEF Turn

------------------------------------------------
\* Steps that leave what is saved.
LEMMA LocalStays ==
    ASSUME SyncIInv, LogStep, local' = local
    PROVE  LocalFollows
  BY ReplicaTypes, FollowsOn DEF LocalFollows, SyncIInv, SyncTypeOK

LEMMA SavedStays ==
    ASSUME SyncIInv, LogStep, UNCHANGED <<scenario, saved>>, refused \subseteq refused', NEW d \in Devices
    PROVE  /\ Carries(d) /\ Store(d) \in Stores /\ saved[Store(d)] \in SavedState
           /\ saved' = [saved EXCEPT ![Store(d)] = saved[Store(d)]]
  <1>1. saved \in [Stores -> SavedState] /\ Store(d) \in Stores BY ReplicaTypes DEF SyncIInv, SyncTypeOK
  <1> QED BY <1>1 DEF Carries

LEMMA AskedStays ==
    ASSUME SyncIInv, asked' = asked, NEW d \in Devices
    PROVE  AskedMore(d)
  <1>1. asked \in [Devices -> Nat] /\ asked[d] \in Nat /\ asked[d] <= Len(scenario.queue[d])
    BY DEF SyncIInv, SyncTypeOK
  <1>2. asked[d] <= asked[d] BY <1>1
  <1> QED BY <1>1, <1>2 DEF AskedMore

LEMMA MemoryKeeps ==
    ASSUME SyncIInv, LogStep, ServerKept, NEW d \in Devices, NEW c \in Coordinator, Turn(d, c), AskedMore(d),
           LocalFollows, UNCHANGED <<scenario, saved, refused>>, Starts(c.auth, log'), IsInjective(c.pending),
           ToSet(c.pending) \subseteq QueuedAt(Store(d))',
           ToSet(co[d].pending) \subseteq ToSet(c.pending) \cup ToSet(log')
    PROVE  SyncIInv'
  <1> DEFINE s == Store(d)
             v == saved[s]
  <1>1. Carries(d) /\ s \in Stores /\ v \in SavedState /\ saved' = [saved EXCEPT ![s] = v] BY SavedStays
  <1>2. ToSet(log) \subseteq ToSet(log') BY LogGrowth
  <1>3. /\ IsInjective(v.pending) /\ ToSet(v.pending) \subseteq QueuedAt(s) /\ (~v.exists => v.pending = <<>>)
    BY <1>1 DEF SyncIInv, PendingOK
  <1>4. QueuedAt(s) \subseteq QueuedAt(Store(d))'
    <2>1. \A e \in Devices : asked[e] \in Nat /\ asked'[e] \in Nat /\ (asked'[e] = asked[e] \/ asked[e] <= asked'[e])
      <3> TAKE e \in Devices
      <3>1. asked[e] \in Nat /\ asked'[e] \in Nat BY ReplicaTypes DEF AskedMore
      <3>2. e = d \/ asked'[e] = asked[e] BY DEF AskedMore
      <3> QED BY <3>1, <3>2 DEF AskedMore
    <2>2. \A e \in Devices : \A i \in 1..asked[e] : i \in 1..asked'[e] BY <2>1
    <2> QED BY <2>2 DEF QueuedAt, Store
  <1>5. Starts(v.auth, log') BY <1>1, ReplicaTypes, FollowsOn
  <1>6. \A e \in Devices : Store(e) = s /\ e \in v.known =>
           ToSet(v.pending) \subseteq ToSet(co[e].pending) \cup ToSet(log') \cup refused'
    <2> TAKE e \in Devices
    <2>1. Known(e) BY TaskParts
    <2> QED BY <1>2, <2>1 DEF Known
  <1>7. d \in v.known => ToSet(v.pending) \subseteq ToSet(c.pending) \cup ToSet(log') \cup refused' BY <1>6
  <1>8. ToSet(v.pending) \subseteq QueuedAt(Store(d))' BY <1>3, <1>4
  <1> QED BY <1>1, <1>3, <1>5, <1>6, <1>7, <1>8, DeviceKeeps

LEMMA QueuedStill ==
    ASSUME SyncIInv, NEW d \in Devices, UNCHANGED <<scenario, asked>>
    PROVE  QueuedAt(Store(d))' = QueuedAt(Store(d))
  BY DEF QueuedAt, Store

\* ... and what the coordinator has pending, or more of it than the log has.
LEMMA CalmKeeps ==
    ASSUME SyncIInv, LogStep, ServerKept, NEW d \in Devices, NEW c \in Coordinator, Turn(d, c),
           LocalFollows, UNCHANGED <<scenario, saved, refused, asked>>, Starts(c.auth, log'),
           c.pending = co[d].pending
    PROVE  SyncIInv'
  <1>1. IsInjective(c.pending) /\ ToSet(c.pending) \subseteq QueuedAt(Store(d)) BY DEF SyncIInv, PendingOK
  <1>2. QueuedAt(Store(d))' = QueuedAt(Store(d)) BY QueuedStill
  <1>3. AskedMore(d) BY AskedStays
  <1> QED BY <1>1, <1>2, <1>3, MemoryKeeps

\* A device's own step that leaves the server, its stores and what it has
\* read and has pending.
LEMMA IdleKeeps ==
    ASSUME SyncIInv, NEW d \in Devices, NEW c \in Coordinator, Turn(d, c), Same(c, co[d]),
           UNCHANGED <<adapterVars, scenario, local, saved, refused, asked>>
    PROVE  SyncIInv'
  <1>1. ServerKept /\ LogStep /\ log' = log BY ServerQuiet
  <1>2. LocalFollows BY <1>1, LocalStays
  <1>3. Starts(c.auth, log') BY <1>1, ReplicaTypes DEF Same
  <1> QED BY <1>1, <1>2, <1>3, CalmKeeps DEF Same

------------------------------------------------
\* Events that follow a beginning of the log extend it.
LEMMA Extended ==
    ASSUME NEW S, NEW s \in Seq(S), NEW f \in Seq(S), NEW e \in Seq(S), Starts(s, f),
           \A i \in 1..Len(e) : Len(s) + i \in 1..Len(f) /\ f[Len(s) + i] = e[i]
    PROVE  Starts(s \o e, f)
  <1> DEFINE m == Len(s)
             n == Len(e)
             u == s \o e
  <1>1. /\ m \in Nat /\ n \in Nat /\ Len(f) \in Nat /\ Len(u) = m + n
        /\ \A i \in 1..m + n : u[i] = IF i <= m THEN s[i] ELSE e[i - m]
        /\ m <= Len(f) /\ \A i \in 1..m : s[i] = f[i]
        /\ \A i \in 1..n : m + i \in 1..Len(f) /\ f[m + i] = e[i]
    BY ConcatProperties, LenProperties DEF Starts
  <1> SUFFICES m + n <= Len(f) /\ \A i \in 1..m + n : u[i] = f[i]
    BY <1>1 DEF Starts
  <1> HIDE DEF m, n, u
  <1>2. m + n <= Len(f)
    <2>1. CASE n = 0 BY <1>1, <2>1
    <2>2. CASE n # 0
      <3>1. n \in 1..n BY <1>1, <2>2
      <3> QED BY <1>1, <3>1
    <2> QED BY <2>1, <2>2
  <1>3. ASSUME NEW i \in 1..m + n PROVE u[i] = f[i]
    <2>1. CASE i <= m
      <3>1. i \in 1..m BY <1>1, <2>1
      <3> QED BY <1>1, <2>1, <3>1
    <2>2. CASE ~(i <= m)
      <3>1. i - m \in 1..n /\ m + (i - m) = i BY <1>1, <2>2
      <3>2. f[m + (i - m)] = e[i - m] BY <1>1, <3>1
      <3> QED BY <1>1, <2>2, <3>1, <3>2
    <2> QED BY <2>1, <2>2
  <1> QED BY <1>2, <1>3

\* A page follows what it is read after.
FollowOn(after, e, f) == \A i \in 1..Len(e) : after + i \in 1..Len(f) /\ f[after + i] = e[i]

LEMMA PageFollows ==
    ASSUME SyncIInv, NEW after \in Nat, after <= Len(log)
    PROVE  Page(after) \in Seq(Mutations) /\ FollowOn(after, Page(after), log)
  <1> DEFINE n == IF after + ReadLimit < Len(log) THEN after + ReadLimit ELSE Len(log)
             k == after + 1
             u == SubSeq(log, k, n)
  <1>1. /\ log \in Seq(Mutations) /\ Len(log) \in Nat /\ ReadLimit \in Nat /\ Page(after) = u
        /\ \A i \in 1..Len(log) : log[i] \in Mutations
    BY ReplicaTypes, LenProperties, ElementOfSeq, SyncAssumption DEF Page
  <1>2. n \in Nat /\ n <= Len(log) /\ k \in 1..Len(log) + 1 /\ k = after + 1 BY <1>1
  <1>3. \A i \in k..n : log[i] \in Mutations
    <2> HIDE DEF n, k
    <2> QED BY <1>1, <1>2
  <1>4. /\ u \in Seq(Mutations) /\ Len(u) = IF k <= n THEN n - k + 1 ELSE 0
        /\ \A i \in 1..n - k + 1 : u[i] = log[k + i - 1]
    <2> HIDE DEF n, k
    <2>1. k \in Int /\ n \in Int /\ k..n \subseteq 1..Len(log) BY <1>1, <1>2
    <2> QED BY <1>1, <1>3, <2>1, SubSeqProperties
  <1> HIDE DEF n, k, u
  <1>5. ASSUME NEW i \in 1..Len(u) PROVE after + i \in 1..Len(log) /\ log[after + i] = u[i]
    <2>1. i \in 1..n - k + 1 /\ k + i - 1 = after + i /\ after + i \in 1..Len(log) BY <1>1, <1>2, <1>4
    <2> QED BY <1>4, <2>1
  <1> QED BY <1>1, <1>4, <1>5 DEF FollowOn

\* What is applied of events that follow the projection.
LEMMA AppliedFollows ==
    ASSUME SyncIInv, LogStep, NEW d \in Devices, NEW e \in Seq(Mutations), FollowOn(Len(co[d].auth), e, log')
    PROVE  /\ Applied(co[d], e) \in Coordinator /\ Starts(Applied(co[d], e).auth, log')
           /\ Applied(co[d], e).pending = co[d].pending
  <1> DEFINE c == co[d]
             a == c.auth \o e
             r == IF InStep(c) THEN c.localRevision + Len(e) ELSE c.localRevision
  <1>1. /\ c \in Coordinator /\ c.auth \in Seq(Mutations) /\ c.localRevision \in Nat /\ Starts(c.auth, log)
        /\ log' \in Seq(Mutations)
    BY ReplicaTypes, LogGrowth
  <1>2. a \in Seq(Mutations) BY <1>1, Concatenated
  <1>3. r \in Nat BY <1>1, LenProperties
  <1>4. Starts(c.auth, log') BY <1>1, FollowsOn
  <1>5. Starts(a, log') BY <1>1, <1>4, Extended DEF FollowOn
  <1>6. Applied(c, e) = [c EXCEPT !.auth = a, !.localRevision = r] BY DEF Applied
  <1> HIDE DEF c, a, r
  <1>7. /\ Applied(c, e) \in Coordinator /\ Applied(c, e).auth = a /\ Applied(c, e).pending = c.pending
    BY <1>1, <1>2, <1>3, <1>6 DEF Coordinator
  <1> QED BY <1>5, <1>7 DEF c

LEMMA LocalExtended ==
    ASSUME SyncIInv, LogStep, NEW d \in Devices, NEW e \in Seq(Mutations), FollowOn(Len(co[d].auth), e, log'),
           local' = IF InStep(co[d]) /\ Len(local[Store(d)]) = co[d].localRevision
                    THEN [local EXCEPT ![Store(d)] = @ \o e] ELSE local
    PROVE  LocalFollows
  <1>1. CASE local' = local BY <1>1, LocalStays
  <1>2. CASE local' # local
    <2> DEFINE s == Store(d)
    <2>1. /\ Len(local[s]) = Len(co[d].auth) /\ local' = [local EXCEPT ![s] = @ \o e]
      BY <1>2 DEF InStep
    <2>2. /\ s \in Stores /\ local \in [Stores -> Seq(Mutations)] /\ local[s] \in Seq(Mutations)
          /\ \A r \in Stores : Starts(local[r], log) /\ local[r] \in Seq(Mutations)
          /\ log' \in Seq(Mutations)
      BY ReplicaTypes, LogGrowth DEF SyncIInv, SyncTypeOK
    <2>3. \A r \in Stores : Starts(local[r], log') BY <2>2, FollowsOn
    <2>4. local[s] \o e \in Seq(Mutations) BY <2>2, Concatenated
    <2>5. Starts(local[s] \o e, log') BY <2>1, <2>2, <2>3, Extended DEF FollowOn
    <2> DEFINE u == local[s] \o e
    <2>6. local' = [local EXCEPT ![s] = u] BY <2>1, <2>2
    <2> HIDE DEF s, u
    <2>7. local'[s] = u /\ \A r \in Stores \ {s} : local'[r] = local[r] BY <2>2, <2>6
    <2>8. local' \in [Stores -> Seq(Mutations)] BY <2>2, <2>4, <2>6 DEF u
    <2> QED BY <2>3, <2>5, <2>7, <2>8 DEF LocalFollows, u
  <1> QED BY <1>1, <1>2

------------------------------------------------
\* The operations.

\* What a coordinator that knows the stored generation saves of its memory.
LEMMA PersistedFits ==
    ASSUME SyncIInv, LogStep, NEW d \in Devices, NEW c \in Coordinator, IsCurrent(d),
           saved' = Persisted(d, c), UNCHANGED <<scenario, asked>>, refused \subseteq refused',
           ToSet(co[d].pending) \subseteq ToSet(c.pending) \cup ToSet(log') \cup refused'
    PROVE  /\ Carries(d) /\ Store(d) \in Stores
           /\ saved'[Store(d)].pending = c.pending
           /\ \E v \in SavedState : /\ saved' = [saved EXCEPT ![Store(d)] = v] /\ v.exists
                                    /\ v.known = {d} /\ v.auth = c.auth /\ v.pending = c.pending
  <1> DEFINE s == Store(d)
             v == [exists |-> TRUE, known |-> {d}, auth |-> c.auth, pending |-> c.pending]
  <1>1. s \in Stores /\ saved \in [Stores -> SavedState] /\ ToSet(log) \subseteq ToSet(log')
    BY ReplicaTypes, LogGrowth DEF SyncIInv, SyncTypeOK
  <1>2. c.auth \in Seq(Mutations) /\ c.pending \in Seq(Mutations) BY DEF Coordinator
  <1>3. v \in SavedState BY <1>2 DEF SavedState
  <1>4. saved' = [saved EXCEPT ![s] = v] BY DEF Persisted
  <1>5. saved'[s] = v BY <1>1, <1>4
  <1>6. ToSet(saved[s].pending) \subseteq ToSet(co[d].pending) \cup ToSet(log) \cup refused
    BY TaskParts DEF Known, IsCurrent
  <1>7. Carries(d) BY <1>1, <1>5, <1>6 DEF Carries
  <1>8. v.exists /\ v.known = {d} /\ v.auth = c.auth /\ v.pending = c.pending OBVIOUS
  <1> HIDE DEF v
  <1> QED BY <1>1, <1>3, <1>4, <1>5, <1>7, <1>8

LEMMA SavePreserves ==
    ASSUME SyncIInv, NEW d \in Devices, Save(d)
    PROVE  SyncIInv'
  <1>1. task[d].at = "save" /\ UNCHANGED <<adapterVars, scenario, local, asked, refused>> BY DEF Save
  <1>2. ServerKept /\ LogStep /\ log' = log BY <1>1, ServerQuiet
  <1>3. co[d] \in Coordinator /\ task[d] \in Task BY ReplicaTypes
  <1>4. CASE /\ IsCurrent(d) /\ saved' = Persisted(d, co[d])
             /\ Continues(d, task[d].then, RebuildView(co[d]))
    <2> DEFINE c == RebuildView(co[d])
    <2>1. c \in Coordinator /\ Same(c, co[d]) BY <1>3, Rebuilt
    <2>2. saved' = Persisted(d, c) BY <1>4, <2>1 DEF Persisted, Same
    <2>3. Continues(d, task[d].then, c) BY <1>4
    <2> HIDE DEF c
    <2>4. PICK v \in SavedState : /\ saved' = [saved EXCEPT ![Store(d)] = v] /\ v.exists
                                  /\ v.known = {d} /\ v.auth = c.auth /\ v.pending = c.pending
      BY <1>1, <1>2, <1>4, <2>1, <2>2, PersistedFits DEF Same
    <2>5. Carries(d) /\ saved'[Store(d)].pending = c.pending
      BY <1>1, <1>2, <1>4, <2>1, <2>2, PersistedFits DEF Same
    <2>6. Turn(d, c)
      <3>1. task[d].then \in {"idle", "connect", "gate", "catchup", "subscribe", "push", "settle", "await"}
        BY <1>3 DEF Task
      <3>2. task[d].then = "settle" => ToSet(task[d].batch) \subseteq ToSet(log')
        BY <1>1, <1>2, TaskParts DEF TaskFits, Settling
      <3>3. ToSet(co[d].pending) \subseteq ToSet(saved'[Store(d)].pending) BY <2>1, <2>5 DEF Same
      <3> QED BY <1>1, <2>1, <2>3, <2>5, <3>1, <3>2, <3>3, ContinuesTurn
    <2>7. AskedMore(d) /\ LocalFollows BY <1>1, <1>2, AskedStays, LocalStays
    <2>8. Starts(c.auth, log') BY <1>2, <2>1, ReplicaTypes DEF Same
    <2>9. IsInjective(c.pending) /\ ToSet(c.pending) \subseteq QueuedAt(Store(d))'
      BY <1>1, <2>1, QueuedStill DEF Same, SyncIInv, PendingOK
    <2> QED BY <1>2, <2>1, <2>4, <2>5, <2>6, <2>7, <2>8, <2>9, DeviceKeeps
  <1>5. CASE Throws(d, co[d]) /\ UNCHANGED saved
    <2>1. PICK x \in Coordinator : Same(x, co[d]) /\ Turn(d, x) BY <1>3, <1>5, ThrowsTurn
    <2> QED BY <1>1, <1>5, <2>1, IdleKeeps
  <1> QED BY <1>4, <1>5 DEF Save

\* Operations that begin or end: the task changes, and of the memory only
\* the state of the connection.
LEMMA TurnOf ==
    ASSUME SyncIInv, NEW d \in Devices, NEW c \in Coordinator, NEW t \in Task,
           co' = [co EXCEPT ![d] = c], task' = [task EXCEPT ![d] = t], resolved' = resolved,
           t.at # "idle", t.at # "pull", ~Settling(t), t.op # "queue"
    PROVE  Turn(d, c)
  <1>1. task \in [Devices -> Task] BY TaskParts
  <1>2. task' \in [Devices -> Task] /\ task'[d] = t /\ \A e \in Devices \ {d} : task'[e] = task[e]
    BY <1>1
  <1>3. TaskFits(d)' /\ Queueing(d)' BY <1>2 DEF TaskFits, Queueing, Settling
  <1> QED BY <1>2, <1>3 DEF Turn

LEMMA StillTurn ==
    ASSUME SyncIInv, NEW d \in Devices, NEW c \in Coordinator, Carries(d), co' = [co EXCEPT ![d] = c],
           UNCHANGED <<task, resolved, asked>>, saved' = saved, refused' = refused,
           Unsaved(task[d]) => ToSet(co[d].pending) \subseteq ToSet(c.pending)
    PROVE  Turn(d, c)
  <1>1. /\ task \in [Devices -> Task] /\ TaskFits(d) /\ Queueing(d) /\ co \in [Devices -> Coordinator]
    BY TaskParts
  <1>2. ToSet(log) \subseteq ToSet(log') BY LogGrowth DEF Carries
  <1>3. TaskFits(d)' BY <1>1, <1>2 DEF TaskFits, Settling
  <1>4. co'[d] = c BY <1>1
  <1>5. Queueing(d)'
    <2>1. PICK m : m = scenario.queue[d][asked[d]] OBVIOUS
    <2>2. m = scenario'.queue[d][asked'[d]] BY <2>1 DEF Carries
    <2>3. Kept(d, m) => Kept(d, m)' BY KeptOn
    <2>4. Kept(d, m)' => Kept(d, scenario.queue[d][asked[d]])' BY <2>2 DEF Kept
    <2> QED BY <1>1, <1>4, <2>1, <2>2, <2>3, <2>4 DEF Queueing, Unsaved
  <1> QED BY <1>1, <1>3, <1>5 DEF Turn

LEMMA StartPreserves ==
    ASSUME SyncIInv, NEW d \in Devices, Start(d)
    PROVE  SyncIInv'
  <1> DEFINE c == [co[d] EXCEPT !.started = TRUE, !.status = "connecting"]
             t == [task[d] EXCEPT !.op = "start", !.at = "load"]
  <1>1. /\ co' = [co EXCEPT ![d].started = TRUE, ![d].status = "connecting"]
        /\ task' = [task EXCEPT ![d].op = "start", ![d].at = "load"]
        /\ UNCHANGED <<adapterVars, scenario, local, saved, asked, resolved, refused>>
    BY DEF Start
  <1>2. co[d] \in Coordinator /\ task[d] \in Task /\ co \in [Devices -> Coordinator] /\ task \in [Devices -> Task]
    BY ReplicaTypes, TaskParts
  <1>3. co' = [co EXCEPT ![d] = c] /\ task' = [task EXCEPT ![d] = t] BY <1>1, <1>2
  <1>4. c \in Coordinator /\ Same(c, co[d]) BY <1>2 DEF Coordinator, Same
  <1>5. t \in Task /\ t.at = "load" /\ t.op = "start" BY <1>2 DEF Task, Places
  <1> HIDE DEF c, t
  <1>6. Turn(d, c) BY <1>1, <1>3, <1>4, <1>5, TurnOf DEF Settling
  <1> QED BY <1>1, <1>4, <1>6, IdleKeeps

LEMMA ReconnectPreserves ==
    ASSUME SyncIInv, NEW d \in Devices, Reconnect(d)
    PROVE  SyncIInv'
  <1> DEFINE c == [co[d] EXCEPT !.timer = FALSE]
             t == [task[d] EXCEPT !.op = "connect", !.at = "catchup"]
  <1>1. /\ co' = [co EXCEPT ![d].timer = FALSE]
        /\ task' = [task EXCEPT ![d].op = "connect", ![d].at = "catchup"]
        /\ UNCHANGED <<adapterVars, scenario, local, saved, asked, resolved, refused>>
    BY DEF Reconnect
  <1>2. co[d] \in Coordinator /\ task[d] \in Task /\ co \in [Devices -> Coordinator] /\ task \in [Devices -> Task]
    BY ReplicaTypes, TaskParts
  <1>3. co' = [co EXCEPT ![d] = c] /\ task' = [task EXCEPT ![d] = t] BY <1>1, <1>2
  <1>4. c \in Coordinator /\ Same(c, co[d]) BY <1>2 DEF Coordinator, Same
  <1>5. t \in Task /\ t.at = "catchup" /\ t.op = "connect" BY <1>2 DEF Task, Places
  <1> HIDE DEF c, t
  <1>6. Turn(d, c) BY <1>1, <1>3, <1>4, <1>5, TurnOf DEF Settling
  <1> QED BY <1>1, <1>4, <1>6, IdleKeeps

LEMMA FlushPreserves ==
    ASSUME SyncIInv, NEW d \in Devices, Flush(d)
    PROVE  SyncIInv'
  <1> DEFINE c == co[d]
             t == [task[d] EXCEPT !.op = "flush", !.at = "push"]
  <1>1. /\ co' = co /\ task' = [task EXCEPT ![d].op = "flush", ![d].at = "push"]
        /\ UNCHANGED <<adapterVars, scenario, local, saved, asked, resolved, refused>>
    BY DEF Flush
  <1>2. co[d] \in Coordinator /\ task[d] \in Task /\ co \in [Devices -> Coordinator] /\ task \in [Devices -> Task]
    BY ReplicaTypes, TaskParts
  <1>3. co' = [co EXCEPT ![d] = c] /\ task' = [task EXCEPT ![d] = t] BY <1>1, <1>2
  <1>4. c \in Coordinator /\ Same(c, co[d]) BY <1>2 DEF Same
  <1>5. t \in Task /\ t.at = "push" /\ t.op = "flush" BY <1>2 DEF Task, Places
  <1> HIDE DEF c, t
  <1>6. Turn(d, c) BY <1>1, <1>3, <1>4, <1>5, TurnOf DEF Settling
  <1> QED BY <1>1, <1>4, <1>6, IdleKeeps

LEMMA ConsumerEndsPreserves ==
    ASSUME SyncIInv, NEW d \in Devices, ConsumerEnds(d)
    PROVE  SyncIInv'
  <1> DEFINE b == [co[d] EXCEPT !.ending = FALSE]
             c == ScheduleReconnect(b)
  <1>1. /\ co' = [co EXCEPT ![d] = c]
        /\ UNCHANGED <<adapterVars, scenario, local, saved, task, asked, resolved, refused>>
    BY DEF ConsumerEnds
  <1>2. co[d] \in Coordinator BY ReplicaTypes
  <1>3. b \in Coordinator /\ Same(b, co[d]) BY <1>2 DEF Coordinator, Same
  <1> HIDE DEF b
  <1>4. c \in Coordinator /\ Same(c, co[d]) BY <1>3, Reconnecting DEF Same
  <1> HIDE DEF c
  <1>5. LogStep BY <1>1, ServerQuiet
  <1>6. Carries(d) BY <1>1, <1>5, SavedStays
  <1>7. Turn(d, c) BY <1>1, <1>4, <1>6, StillTurn DEF Same
  <1> QED BY <1>1, <1>4, <1>7, IdleKeeps

LEMMA StopPreserves ==
    ASSUME SyncIInv, NEW d \in Devices, Stop(d)
    PROVE  SyncIInv'
  <1> DEFINE b == CloseConnection(co[d])
             c == [b EXCEPT !.started = FALSE, !.ending = FALSE, !.status = "offline"]
  <1>1. /\ co' = [co EXCEPT ![d] = c]
        /\ UNCHANGED <<adapterVars, scenario, local, saved, task, asked, resolved, refused>>
    BY DEF Stop
  <1>2. b \in Coordinator /\ Same(b, co[d]) BY ReplicaTypes, Closed
  <1> HIDE DEF b
  <1>3. c \in Coordinator /\ Same(c, co[d]) BY <1>2 DEF Coordinator, Same
  <1> HIDE DEF c
  <1>4. LogStep BY <1>1, ServerQuiet
  <1>5. Carries(d) BY <1>1, <1>4, SavedStays
  <1>6. Turn(d, c) BY <1>1, <1>3, <1>5, StillTurn DEF Same
  <1> QED BY <1>1, <1>3, <1>6, IdleKeeps

LEMMA SubscribePreserves ==
    ASSUME SyncIInv, NEW d \in Devices, Subscribe(d)
    PROVE  SyncIInv'
  <1>1. PICK c : c = IF co[d].started THEN [co[d] EXCEPT !.subscribed = TRUE, !.status = "online"] ELSE co[d]
    OBVIOUS
  <1>2. /\ task[d].at = "subscribe" /\ Continues(d, "push", c)
        /\ UNCHANGED <<adapterVars, scenario, local, saved, asked, refused>>
    BY <1>1 DEF Subscribe
  <1>3. c \in Coordinator /\ Same(c, co[d])
    <2>1. co[d] \in Coordinator BY ReplicaTypes
    <2> QED BY <1>1, <2>1 DEF Coordinator, Same
  <1>4. LogStep BY <1>2, ServerQuiet
  <1>5. Carries(d) BY <1>2, <1>4, SavedStays
  <1>6. ~Unsaved(task[d]) BY <1>2 DEF Unsaved
  <1>7. Turn(d, c) BY <1>2, <1>3, <1>5, <1>6, ContinuesTurn
  <1> QED BY <1>2, <1>3, <1>7, IdleKeeps

LEMMA LoadPreserves ==
    ASSUME SyncIInv, NEW d \in Devices, Load(d)
    PROVE  SyncIInv'
  <1> DEFINE s == Store(d)
             base == Baseline(d)
             replayed == Len(local[s])
             c == [co[d] EXCEPT !.auth = base, !.localRevision = replayed, !.pending = saved[s].pending]
             knows == saved[s].known \cup {d}
             v == [saved[s] EXCEPT !.known = knows]
  <1>1. /\ task[d].at = "load" /\ Saves(d, "connect", c) /\ saved' = [saved EXCEPT ![s].known = @ \cup {d}]
        /\ UNCHANGED <<adapterVars, scenario, local, asked, refused>>
    BY DEF Load
  <1>2. /\ s \in Stores /\ saved \in [Stores -> SavedState] /\ saved[s] \in SavedState /\ co[d] \in Coordinator
        /\ local[s] \in Seq(Mutations) /\ saved[s].auth \in Seq(Mutations) /\ saved[s].pending \in Seq(Mutations)
        /\ Starts(local[s], log) /\ Starts(saved[s].auth, log)
    BY ReplicaTypes DEF SyncIInv, SyncTypeOK
  <1>3. ServerKept /\ LogStep /\ log' = log BY <1>1, ServerQuiet
  <1>4. base \in Seq(Mutations) /\ Starts(base, log') BY <1>2, <1>3 DEF Baseline
  <1>5. replayed \in Nat BY <1>2, LenProperties
  <1>6. v \in SavedState /\ v.auth = saved[s].auth /\ v.pending = saved[s].pending /\ v.exists = saved[s].exists
        /\ v.known = knows
    BY <1>2 DEF SavedState
  <1>7. saved' = [saved EXCEPT ![s] = v] BY <1>1, <1>2
  <1> HIDE DEF base, replayed, v
  <1>8. c \in Coordinator /\ c.auth = base /\ c.pending = saved[s].pending BY <1>2, <1>4, <1>5 DEF Coordinator
  <1> HIDE DEF c
  <1>9. saved'[s] = v BY <1>2, <1>7
  <1>10. Carries(d) BY <1>1, <1>3, <1>6, <1>9 DEF Carries
  <1>11. Turn(d, c) BY <1>1, <1>8, <1>10, SavesTurn
  <1>12. AskedMore(d) /\ LocalFollows BY <1>1, <1>3, AskedStays, LocalStays
  <1>13. /\ IsInjective(saved[s].pending) /\ ToSet(saved[s].pending) \subseteq QueuedAt(Store(d))'
         /\ ~saved[s].exists => saved[s].pending = <<>>
    BY <1>1, <1>2, QueuedStill DEF SyncIInv, PendingOK
  <1>14. \A e \in Devices \ {d} : Store(e) = Store(d) /\ e \in v.known =>
            ToSet(v.pending) \subseteq ToSet(co[e].pending) \cup ToSet(log') \cup refused'
    <2> TAKE e \in Devices \ {d}
    <2>1. Known(e) BY TaskParts
    <2> QED BY <1>1, <1>3, <1>6, <2>1 DEF Known
  <1> QED BY <1>2, <1>3, <1>4, <1>6, <1>7, <1>8, <1>10, <1>11, <1>12, <1>13, <1>14, DeviceKeeps

\* applyAuthoritativeEvents, for the events of a page.
LEMMA PageOf ==
    ASSUME SyncIInv, NEW d \in Devices
    PROVE  LET e == Page(Len(co[d].auth)) IN e \in Seq(Mutations) /\ FollowOn(Len(co[d].auth), e, log)
  <1>1. co[d].auth \in Seq(Mutations) /\ Starts(co[d].auth, log) BY ReplicaTypes
  <1>2. Len(co[d].auth) \in Nat /\ Len(co[d].auth) <= Len(log) BY <1>1, LenProperties DEF Starts
  <1> QED BY <1>2, PageFollows

LEMMA CatchUpPreserves ==
    ASSUME SyncIInv, NEW d \in Devices, CatchUp(d)
    PROVE  SyncIInv'
  <1>1. PICK e : e = Page(Len(co[d].auth)) OBVIOUS
  <1>2. PICK then : then = IF HasMore(Len(co[d].auth)) THEN "catchup"
                           ELSE IF task[d].op = "update" THEN "idle" ELSE "subscribe"
    OBVIOUS
  <1>3. then \in {"catchup", "idle", "subscribe"} BY <1>2
  <1>4. task[d].at = "catchup" /\ UNCHANGED <<adapterVars, scenario, saved, asked, refused>> BY DEF CatchUp
  <1>5. \/ Continues(d, then, co[d]) /\ UNCHANGED local
        \/ Throws(d, co[d]) /\ UNCHANGED local
        \/ /\ Saves(d, then, Applied(co[d], e))
           /\ local' = IF InStep(co[d]) /\ Len(local[Store(d)]) = co[d].localRevision
                       THEN [local EXCEPT ![Store(d)] = @ \o e] ELSE local
    BY <1>1, <1>2 DEF CatchUp, ApplyAuthoritative
  <1>6. ServerKept /\ LogStep /\ log' = log /\ co[d] \in Coordinator BY <1>4, ServerQuiet, ReplicaTypes
  <1>7. Carries(d) /\ ~Unsaved(task[d]) BY <1>4, <1>6, SavedStays DEF Unsaved
  <1>8. CASE Continues(d, then, co[d]) /\ UNCHANGED local
    <2>1. Turn(d, co[d]) BY <1>3, <1>4, <1>6, <1>7, <1>8, ContinuesTurn
    <2> QED BY <1>4, <1>6, <1>8, <2>1, IdleKeeps DEF Same
  <1>9. CASE Throws(d, co[d]) /\ UNCHANGED local
    <2>1. PICK x \in Coordinator : Same(x, co[d]) /\ Turn(d, x) BY <1>6, <1>9, ThrowsTurn
    <2> QED BY <1>4, <1>9, <2>1, IdleKeeps
  <1>10. CASE /\ Saves(d, then, Applied(co[d], e))
              /\ local' = IF InStep(co[d]) /\ Len(local[Store(d)]) = co[d].localRevision
                          THEN [local EXCEPT ![Store(d)] = @ \o e] ELSE local
    <2>1. e \in Seq(Mutations) /\ FollowOn(Len(co[d].auth), e, log') BY <1>1, <1>6, PageOf
    <2>2. /\ Applied(co[d], e) \in Coordinator /\ Starts(Applied(co[d], e).auth, log')
          /\ Applied(co[d], e).pending = co[d].pending
      BY <1>6, <2>1, AppliedFollows
    <2>3. LocalFollows BY <1>6, <1>10, <2>1, LocalExtended
    <2>4. Turn(d, Applied(co[d], e)) BY <1>3, <1>4, <1>7, <1>10, <2>2, SavesTurn
    <2> QED BY <1>4, <1>6, <2>2, <2>3, <2>4, CalmKeeps
  <1> QED BY <1>5, <1>8, <1>9, <1>10

LEMMA UpdatePreserves ==
    ASSUME SyncIInv, NEW d \in Devices, Update(d)
    PROVE  SyncIInv'
  <1>1. PICK e : e = Page(Len(co[d].auth)) OBVIOUS
  <1>2. PICK then : then = IF HasMore(Len(co[d].auth)) THEN "catchup" ELSE "idle" OBVIOUS
  <1>3. then \in {"catchup", "idle"} BY <1>2
  <1>4. task[d].at = "idle" /\ UNCHANGED <<adapterVars, scenario, saved, asked, resolved, refused>> BY DEF Update
  <1>5. PICK t : t = [NoTask EXCEPT !.op = "update", !.at = "save", !.then = then] OBVIOUS
  <1>6. \/ co' = [co EXCEPT ![d] = ScheduleReconnect(@)] /\ UNCHANGED <<local, task>>
        \/ /\ task' = [task EXCEPT ![d] = t] /\ co' = [co EXCEPT ![d] = Applied(co[d], e)]
           /\ local' = IF InStep(co[d]) /\ Len(local[Store(d)]) = co[d].localRevision
                       THEN [local EXCEPT ![Store(d)] = @ \o e] ELSE local
    BY <1>1, <1>2, <1>5 DEF Update
  <1>7. ServerKept /\ LogStep /\ log' = log /\ co[d] \in Coordinator BY <1>4, ServerQuiet, ReplicaTypes
  <1>8. Carries(d) /\ ~Unsaved(task[d]) BY <1>4, <1>7, SavedStays DEF Unsaved
  <1>9. CASE co' = [co EXCEPT ![d] = ScheduleReconnect(@)] /\ UNCHANGED <<local, task>>
    <2>1. PICK c : c = ScheduleReconnect(co[d]) OBVIOUS
    <2>2. c \in Coordinator /\ Same(c, co[d]) BY <1>7, <2>1, Reconnecting
    <2>3. co' = [co EXCEPT ![d] = c] BY <1>9, <2>1
    <2>4. Turn(d, c) BY <1>4, <1>8, <1>9, <2>2, <2>3, StillTurn
    <2> QED BY <1>4, <1>9, <2>2, <2>4, IdleKeeps
  <1>10. CASE /\ task' = [task EXCEPT ![d] = t] /\ co' = [co EXCEPT ![d] = Applied(co[d], e)]
              /\ local' = IF InStep(co[d]) /\ Len(local[Store(d)]) = co[d].localRevision
                          THEN [local EXCEPT ![Store(d)] = @ \o e] ELSE local
    <2>1. e \in Seq(Mutations) /\ FollowOn(Len(co[d].auth), e, log') BY <1>1, <1>7, PageOf
    <2>2. /\ Applied(co[d], e) \in Coordinator /\ Starts(Applied(co[d], e).auth, log')
          /\ Applied(co[d], e).pending = co[d].pending
      BY <1>7, <2>1, AppliedFollows
    <2>3. LocalFollows BY <1>7, <1>10, <2>1, LocalExtended
    <2>4. t \in Task /\ t.at = "save" /\ t.op = "update" /\ t.then = then
      BY <1>3, <1>5, TaskParts DEF Task, Places
    <2>5. Turn(d, Applied(co[d], e)) BY <1>3, <1>4, <1>10, <2>2, <2>4, TurnOf DEF Settling
    <2> QED BY <1>4, <1>7, <2>2, <2>3, <2>5, CalmKeeps
  <1> QED BY <1>6, <1>9, <1>10

\* A snapshot is all of the log.
LEMMA SnapshotFits ==
    ASSUME SyncIInv, log' = log, NEW d \in Devices
    PROVE  LET c == [co[d] EXCEPT !.auth = log] IN
           c \in Coordinator /\ Starts(c.auth, log') /\ c.pending = co[d].pending
  <1>1. co[d] \in Coordinator /\ log \in Seq(Mutations) /\ Len(log) \in Nat BY ReplicaTypes, LenProperties
  <1>2. Starts(log, log) BY <1>1 DEF Starts
  <1> QED BY <1>1, <1>2 DEF Coordinator

LEMMA PullPreserves ==
    ASSUME SyncIInv, NEW d \in Devices, Pull(d)
    PROVE  SyncIInv'
  <1>1. PICK c : c = [co[d] EXCEPT !.auth = log] OBVIOUS
  <1>2. /\ task[d].at = "pull" /\ Saves(d, task[d].then, c)
        /\ UNCHANGED <<adapterVars, scenario, local, saved, asked, refused>>
    BY <1>1 DEF Pull
  <1>3. ServerKept /\ LogStep /\ log' = log BY <1>2, ServerQuiet
  <1>4. Carries(d) /\ LocalFollows BY <1>2, <1>3, SavedStays, LocalStays
  <1>5. c \in Coordinator /\ Starts(c.auth, log') /\ c.pending = co[d].pending BY <1>1, <1>3, SnapshotFits
  <1>6. task[d].then = "push" BY <1>2, TaskParts DEF TaskFits
  <1>7. Turn(d, c) BY <1>2, <1>4, <1>5, <1>6, SavesTurn
  <1> QED BY <1>2, <1>3, <1>4, <1>5, <1>7, CalmKeeps

LEMMA ProtocolErrorTurn ==
    ASSUME SyncIInv, NEW d \in Devices, ProtocolError(d)
    PROVE  local' = local /\ \E c \in Coordinator : Same(c, co[d]) /\ Turn(d, c)
  <1>1. PICK c : c = FailPermanently(co[d]) OBVIOUS
  <1>2. Ends(d, c, {}) /\ local' = local BY <1>1 DEF ProtocolError
  <1>3. c \in Coordinator /\ Same(c, co[d]) BY <1>1, ReplicaTypes, Failing
  <1>4. Turn(d, c) BY <1>2, <1>3, EndsTurn
  <1> QED BY <1>2, <1>3, <1>4

LEMMA RecoverPreserves ==
    ASSUME SyncIInv, NEW d \in Devices, Recover(d)
    PROVE  SyncIInv'
  <1>1. PICK c : c = [co[d] EXCEPT !.auth = log] OBVIOUS
  <1>2. task[d].at = "recover" /\ UNCHANGED <<adapterVars, scenario, saved, asked, refused>> BY DEF Recover
  <1>3. ServerKept /\ LogStep /\ log' = log BY <1>2, ServerQuiet
  <1>4. CASE Saves(d, "settle", c) /\ UNCHANGED local
    <2>1. Carries(d) /\ LocalFollows BY <1>2, <1>3, <1>4, SavedStays, LocalStays
    <2>2. c \in Coordinator /\ Starts(c.auth, log') /\ c.pending = co[d].pending BY <1>1, <1>3, SnapshotFits
    <2>3. ToSet(task[d].batch) \subseteq ToSet(log') BY <1>2, <1>3, TaskParts DEF TaskFits, Settling
    <2>4. Turn(d, c) BY <1>2, <1>4, <2>1, <2>2, <2>3, SavesTurn
    <2> QED BY <1>2, <1>3, <2>1, <2>2, <2>4, CalmKeeps
  <1>5. CASE ProtocolError(d)
    <2>1. PICK x \in Coordinator : Same(x, co[d]) /\ Turn(d, x) BY <1>5, ProtocolErrorTurn
    <2>2. local' = local BY <1>5, ProtocolErrorTurn
    <2> QED BY <1>2, <2>1, <2>2, IdleKeeps
  <1> QED BY <1>1, <1>4, <1>5 DEF Recover

\* What is left pending once a batch is settled.
LEMMA SettledFits ==
    ASSUME SyncIInv, LogStep, NEW d \in Devices, NEW c \in Coordinator, c.pending = co[d].pending,
           NEW batch, ToSet(batch) \subseteq ToSet(log')
    PROVE  LET b == [c EXCEPT !.pending = Without(@, batch)] IN
           /\ b \in Coordinator /\ b.auth = c.auth /\ IsInjective(b.pending)
           /\ ToSet(b.pending) \subseteq QueuedAt(Store(d))
           /\ ToSet(co[d].pending) \subseteq ToSet(b.pending) \cup ToSet(log')
  <1> DEFINE p == Without(c.pending, batch)
             b == [c EXCEPT !.pending = p]
  <1>1. c.pending \in Seq(Mutations) BY DEF Coordinator
  <1>2. IsInjective(c.pending) /\ ToSet(c.pending) \subseteq QueuedAt(Store(d)) BY DEF SyncIInv, PendingOK
  <1>3. p \in Seq(Mutations) /\ ToSet(p) = ToSet(c.pending) \ ToSet(batch) /\ IsInjective(p)
    BY <1>1, <1>2, LeavingMembers DEF Without
  <1> HIDE DEF p
  <1>4. b \in Coordinator /\ b.auth = c.auth /\ b.pending = p BY <1>3 DEF Coordinator
  <1> HIDE DEF b
  <1>5. b = [c EXCEPT !.pending = Without(@, batch)] BY DEF b, p
  <1> QED BY <1>2, <1>3, <1>4, <1>5

LEMMA SettlePreserves ==
    ASSUME SyncIInv, NEW d \in Devices, Settle(d)
    PROVE  SyncIInv'
  <1>1. PICK c : c = [co[d] EXCEPT !.pending = Without(@, task[d].batch)] OBVIOUS
  <1>2. /\ task[d].at = "settle" /\ Saves(d, "push", c)
        /\ UNCHANGED <<adapterVars, scenario, local, saved, asked, refused>>
    BY <1>1 DEF Settle
  <1>3. ServerKept /\ LogStep /\ log' = log BY <1>2, ServerQuiet
  <1>4. Carries(d) /\ LocalFollows /\ AskedMore(d) BY <1>2, <1>3, SavedStays, LocalStays, AskedStays
  <1>5. ToSet(task[d].batch) \subseteq ToSet(log') BY <1>2, <1>3, TaskParts DEF TaskFits, Settling
  <1>6. co[d] \in Coordinator /\ Starts(co[d].auth, log') BY <1>3, ReplicaTypes
  <1>7. /\ c \in Coordinator /\ c.auth = co[d].auth /\ IsInjective(c.pending)
        /\ ToSet(c.pending) \subseteq QueuedAt(Store(d))
        /\ ToSet(co[d].pending) \subseteq ToSet(c.pending) \cup ToSet(log')
    BY <1>1, <1>3, <1>5, <1>6, SettledFits
  <1>8. Turn(d, c) BY <1>2, <1>4, <1>7, SavesTurn
  <1>9. QueuedAt(Store(d))' = QueuedAt(Store(d)) BY <1>2, QueuedStill
  <1> QED BY <1>2, <1>3, <1>4, <1>6, <1>7, <1>8, <1>9, MemoryKeeps

LEMMA Appended ==
    ASSUME NEW S, NEW s \in Seq(S), NEW m \in S
    PROVE  /\ Append(s, m) \in Seq(S) /\ ToSet(Append(s, m)) = ToSet(s) \cup {m}
           /\ IsInjective(s) /\ m \notin ToSet(s) => IsInjective(Append(s, m))
  <1> DEFINE u == Append(s, m)
             n == Len(s)
  <1>1. /\ u \in Seq(S) /\ n \in Nat /\ DOMAIN s = 1..n /\ DOMAIN u = 1..n + 1
        /\ \A i \in 1..n : u[i] = s[i]
        /\ u[n + 1] = m
    BY AppendProperties, LenProperties
  <1>2. ToSet(s) = {s[i] : i \in 1..n} /\ ToSet(u) = {u[i] : i \in 1..n + 1} BY <1>1 DEF ToSet
  <1> HIDE DEF u, n
  <1>3. \A i \in 1..n + 1 : i \in 1..n \/ i = n + 1 BY <1>1
  <1>4. (\A i \in 1..n : i \in 1..n + 1) /\ n + 1 \in 1..n + 1 BY <1>1
  <1>5. ToSet(u) = ToSet(s) \cup {m} BY <1>1, <1>2, <1>3, <1>4
  <1>6. ASSUME IsInjective(s), m \notin ToSet(s) PROVE IsInjective(u)
    <2> SUFFICES ASSUME NEW i \in 1..n + 1, NEW j \in 1..n + 1, u[i] = u[j] PROVE i = j
      BY <1>1 DEF IsInjective
    <2>1. CASE i \in 1..n /\ j \in 1..n BY <1>1, <1>6, <2>1 DEF IsInjective
    <2>2. CASE i \in 1..n /\ j = n + 1 BY <1>1, <1>2, <1>6, <2>2
    <2>3. CASE i = n + 1 /\ j \in 1..n BY <1>1, <1>2, <1>6, <2>3
    <2> QED BY <1>3, <2>1, <2>2, <2>3
  <1> QED BY <1>1, <1>5, <1>6 DEF u

\* A mutation that is queued now is not pending: it would have been queued
\* before.
LEMMA QueuedNow ==
    ASSUME SyncIInv, NEW d \in Devices, asked[d] < Len(scenario.queue[d])
    PROVE  scenario.queue[d][asked[d] + 1] \notin ToSet(co[d].pending)
  <1> DEFINE k == asked[d] + 1
             q == scenario.queue[d]
  <1>1. asked[d] \in Nat /\ scenario \in Scenarios /\ q \in Seq(Mutations) /\ Len(q) \in Nat /\ DOMAIN q = 1..Len(q)
    BY ReplicaTypes, LenProperties
  <1>2. k \in 1..Len(q) /\ ~(k <= asked[d]) BY <1>1
  <1> SUFFICES ASSUME q[k] \in ToSet(co[d].pending) PROVE FALSE
    OBVIOUS
  <1>3. q[k] \in QueuedAt(Store(d)) BY DEF SyncIInv, PendingOK
  <1> HIDE DEF k
  <1>4. PICK e \in Devices : \E i \in 1..asked[e] : scenario.queue[e][i] = q[k] BY <1>3 DEF QueuedAt
  <1>5. PICK i \in 1..asked[e] : scenario.queue[e][i] = q[k] BY <1>4
  <1>6. asked[e] \in Nat /\ asked[e] <= Len(scenario.queue[e]) /\ scenario.queue[e] \in Seq(Mutations) BY ReplicaTypes
  <1>7. i \in 1..Len(scenario.queue[e]) BY <1>6, LenProperties
  <1>8. q[k] \in ToSet(scenario.queue[e]) BY <1>5, <1>7, QueuedMember
  <1>9. q[k] \in ToSet(q) BY <1>2, QueuedMember
  <1>10. e = d BY <1>1, <1>8, <1>9, SyncAssumption
  <1>11. IsInjective(q) BY <1>1, SyncAssumption
  <1>12. i = k BY <1>1, <1>2, <1>5, <1>7, <1>10, <1>11 DEF IsInjective
  <1> QED BY <1>1, <1>2, <1>10, <1>12

LEMMA QueueMutationPreserves ==
    ASSUME SyncIInv, NEW d \in Devices, QueueMutation(d)
    PROVE  SyncIInv'
  <1>1. PICK m : m = scenario.queue[d][asked[d] + 1] OBVIOUS
  <1>2. /\ task[d].at = "idle" /\ asked[d] < Len(scenario.queue[d]) /\ asked' = [asked EXCEPT ![d] = @ + 1]
        /\ UNCHANGED <<adapterVars, scenario, local, saved, refused>>
    BY DEF QueueMutation
  <1>3. /\ asked \in [Devices -> Nat] /\ asked[d] \in Nat /\ scenario.queue[d] \in Seq(Mutations)
        /\ Len(scenario.queue[d]) \in Nat
    BY ReplicaTypes, LenProperties DEF SyncIInv, SyncTypeOK
  <1>4. asked'[d] = asked[d] + 1 /\ asked[d] + 1 \in 1..Len(scenario.queue[d]) BY <1>2, <1>3
  <1>5. AskedMore(d)
    <2>1. asked' \in [Devices -> Nat] /\ \A e \in Devices \ {d} : asked'[e] = asked[e] BY <1>2, <1>3
    <2> QED BY <1>3, <1>4, <2>1 DEF AskedMore
  <1>6. m \in ToSet(scenario.queue[d]) /\ m \in Mutations BY <1>1, <1>4, QueuedMember
  <1>7. m \notin ToSet(co[d].pending) BY <1>1, <1>2, QueuedNow
  <1>8. ServerKept /\ LogStep /\ log' = log BY <1>2, ServerQuiet
  <1>9. Carries(d) /\ LocalFollows BY <1>2, <1>8, SavedStays, LocalStays
  <1>10. /\ co[d] \in Coordinator /\ co \in [Devices -> Coordinator] /\ task[d] \in Task
         /\ task \in [Devices -> Task] /\ Starts(co[d].auth, log')
         /\ TaskFits(d) /\ task[d].op = "none" /\ co[d].pending \in Seq(Mutations)
    BY <1>2, <1>8, ReplicaTypes, TaskParts DEF TaskFits
  <1>11. m \in QueuedAt(Store(d))' /\ ToSet(co[d].pending) \subseteq QueuedAt(Store(d))' /\ IsInjective(co[d].pending)
    <2>1. \A e \in Devices : asked[e] \in Nat /\ asked'[e] \in Nat /\ (asked'[e] = asked[e] \/ asked[e] <= asked'[e])
      <3> TAKE e \in Devices
      <3>1. asked[e] \in Nat /\ asked'[e] \in Nat BY <1>5, ReplicaTypes DEF AskedMore
      <3>2. e = d \/ asked'[e] = asked[e] BY <1>5 DEF AskedMore
      <3> QED BY <1>5, <3>1, <3>2 DEF AskedMore
    <2>2. \A e \in Devices : \A i \in 1..asked[e] : i \in 1..asked'[e] BY <2>1
    <2>3. QueuedAt(Store(d)) \subseteq QueuedAt(Store(d))' BY <1>2, <2>2 DEF QueuedAt, Store
    <2>4. asked'[d] \in 1..asked'[d] /\ scenario'.queue[d][asked'[d]] = m BY <1>1, <1>2, <1>3, <1>4
    <2>5. m \in QueuedAt(Store(d))' BY <1>6, <2>4 DEF QueuedAt
    <2> QED BY <2>3, <2>5 DEF SyncIInv, PendingOK
  <1>12. CASE m \in ToSet(co[d].auth) /\ resolved' = resolved \cup {m} /\ UNCHANGED <<co, task>>
    <2>1. m \in ToSet(log')
      <3>1. co[d].auth \in Seq(Mutations) /\ log' \in Seq(Mutations) BY <1>8, ReplicaTypes
      <3> QED BY <1>10, <1>12, <3>1, StartsMembers
    <2>2. Kept(d, m)' BY <2>1 DEF Kept
    <2>3. TaskFits(d)' BY <1>8, <1>10, <1>12 DEF TaskFits, Settling
    <2>4. Queueing(d)' BY <1>10, <1>12 DEF Queueing
    <2>5. co' = [co EXCEPT ![d] = co[d]] BY <1>10, <1>12
    <2>6. Turn(d, co[d]) BY <1>6, <1>10, <1>12, <2>2, <2>3, <2>4, <2>5 DEF Turn
    <2> QED BY <1>2, <1>5, <1>8, <1>9, <1>10, <1>11, <2>6, MemoryKeeps
  <1>13. CASE /\ task' = [task EXCEPT ![d].op = "queue", ![d].at = "save", ![d].then = "gate"]
              /\ co' = [co EXCEPT ![d].pending = Append(@, m)] /\ UNCHANGED resolved
    <2> DEFINE p == Append(co[d].pending, m)
               c == [co[d] EXCEPT !.pending = p]
               t == [task[d] EXCEPT !.op = "queue", !.at = "save", !.then = "gate"]
    <2>1. /\ p \in Seq(Mutations) /\ ToSet(p) = ToSet(co[d].pending) \cup {m} /\ IsInjective(p)
      BY <1>6, <1>7, <1>10, <1>11, Appended
    <2>2. co' = [co EXCEPT ![d] = c] /\ task' = [task EXCEPT ![d] = t] BY <1>10, <1>13
    <2> HIDE DEF p
    <2>3. c \in Coordinator /\ c.pending = p /\ c.auth = co[d].auth BY <1>10, <2>1 DEF Coordinator
    <2>4. t \in Task /\ t.op = "queue" /\ t.at = "save" /\ t.then = "gate" BY <1>10 DEF Task, Places
    <2> HIDE DEF c, t
    <2>5. task' \in [Devices -> Task] /\ task'[d] = t /\ \A e \in Devices \ {d} : task'[e] = task[e]
      BY <1>10, <2>2, <2>4
    <2>6. TaskFits(d)' BY <2>4, <2>5 DEF TaskFits, Settling
    <2>7. co'[d] = c BY <1>10, <2>2
    <2>8. Queueing(d)'
      <3>1. asked'[d] > 0 /\ scenario'.queue[d][asked'[d]] = m BY <1>1, <1>2, <1>3, <1>4
      <3>2. m \in ToSet(co'[d].pending) BY <2>1, <2>3, <2>7
      <3> QED BY <2>4, <2>5, <3>1, <3>2 DEF Queueing, Unsaved
    <2>9. Turn(d, c) BY <1>13, <2>2, <2>5, <2>6, <2>8 DEF Turn
    <2>10. ToSet(c.pending) \subseteq QueuedAt(Store(d))' BY <1>11, <2>1, <2>3
    <2> QED BY <1>2, <1>5, <1>8, <1>9, <1>10, <2>1, <2>3, <2>9, <2>10, MemoryKeeps
  <1> QED BY <1>1, <1>7, <1>12, <1>13 DEF QueueMutation

LEMMA PushPreserves ==
    ASSUME SyncIInv, NEW d \in Devices, Push(d)
    PROVE  SyncIInv'
  <1>1. /\ task[d].at = "push" /\ UNCHANGED <<log, late, writer, scenario, local, saved, asked, refused>>
    BY DEF Push
  <1>2. LogStep BY <1>1 DEF LogStep
  <1>3. Carries(d) /\ LocalFollows /\ ~Unsaved(task[d]) BY <1>1, <1>2, SavedStays, LocalStays DEF Unsaved
  <1>4. co[d] \in Coordinator /\ Starts(co[d].auth, log') BY <1>1, ReplicaTypes
  <1>5. CASE Finishes(d, co[d]) /\ UNCHANGED handlers
    <2>1. Turn(d, co[d]) BY <1>3, <1>4, <1>5, FinishesTurn
    <2>2. UNCHANGED adapterVars BY <1>1, <1>5 DEF adapterVars
    <2> QED BY <1>1, <1>4, <2>1, <2>2, IdleKeeps DEF Same
  <1>6. CASE /\ handlers' = [handlers EXCEPT ![d] = {Handler(co[d].pending, Len(co[d].auth))}]
             /\ Continues(d, "await", co[d])
    <2>1. PICK g : g = Handler(co[d].pending, Len(co[d].auth)) OBVIOUS
    <2>2. /\ co[d].pending \in Seq(Mutations) /\ co[d].auth \in Seq(Mutations) /\ Len(co[d].auth) \in Nat
          /\ Len(log) \in Nat /\ Len(co[d].auth) <= Len(log)
      BY <1>1, <1>4, ReplicaTypes, LenProperties DEF Starts
    <2>3. /\ g \in Appending /\ g.batch = co[d].pending /\ g.expected = Len(co[d].auth) /\ g.observed = -1
      BY <2>1, <2>2 DEF Handler, Appending
    <2>4. NewAppend(d, g)
      <3>1. IsInjective(co[d].pending) /\ ToSet(co[d].pending) \subseteq QueuedAt(Store(d))
        BY DEF SyncIInv, PendingOK
      <3>2. QueuedAt(Store(d)) \subseteq Proposed
        <4> SUFFICES ASSUME NEW e \in Devices, NEW i \in 1..asked[e] PROVE scenario.queue[e][i] \in Proposed
          BY DEF QueuedAt
        <4>1. /\ asked[e] \in Nat /\ asked[e] <= Len(scenario.queue[e]) /\ scenario.queue[e] \in Seq(Mutations)
          BY ReplicaTypes
        <4>2. i \in 1..Len(scenario.queue[e]) BY <4>1, LenProperties
        <4>3. scenario.queue[e][i] \in ToSet(scenario.queue[e]) BY <4>2, QueuedMember
        <4> QED BY <4>3 DEF Proposed
      <3> QED BY <2>2, <2>3, <3>1, <3>2 DEF NewAppend
    <2>5. late \in [Clients -> SUBSET Appending] /\ d \in Clients BY DEF SyncIInv, SyncTypeOK, Clients
    <2>6. late' = [late EXCEPT ![d] = late[d]] /\ late[d] \in SUBSET Appending BY <1>1, <2>5
    <2>7. \A h \in late[d] : h.observed <= Len(log') /\ SameAppend(h, h)
      BY <1>2, <2>5, ObservedSoFar DEF SameAppend
    <2>8. -1 <= Len(log') BY <1>1, <2>2
    <2>9. handlers' = [handlers EXCEPT ![d] = {g}] /\ {g} \in SUBSET Appending BY <1>6, <2>1, <2>3
    <2>10. ServerKept
      <3>1. \A h \in {g} \cup late[d] : /\ h.observed <= Len(log')
                                        /\ (\E x \in handlers[d] \cup late[d] : SameAppend(h, x)) \/ NewAppend(d, h)
        BY <2>3, <2>4, <2>7, <2>8
      <3> QED BY <1>1, <1>2, <2>6, <2>9, <3>1, ServerDevice
    <2>11. Turn(d, co[d]) BY <1>1, <1>3, <1>4, <1>6, ContinuesTurn
    <2> QED BY <1>1, <1>2, <1>3, <1>4, <2>10, <2>11, CalmKeeps
  <1> QED BY <1>5, <1>6 DEF Push

\* The appends of a device once one of them has been answered or given up.
LEMMA ServerLeaves ==
    ASSUME SyncIInv, LogStep, scenario' = scenario, writer' = writer, NEW d \in Devices,
           handlers' = [handlers EXCEPT ![d] = {}],
           late' = late \/ late' = [late EXCEPT ![d] = @ \cup handlers[d]]
    PROVE  ServerKept
  <1>1. /\ handlers \in [Clients -> SUBSET Appending] /\ late \in [Clients -> SUBSET Appending] /\ d \in Clients
    BY DEF SyncIInv, SyncTypeOK, Clients
  <1>2. PICK L : late' = [late EXCEPT ![d] = L] /\ L \in SUBSET Appending /\ L \subseteq handlers[d] \cup late[d]
    <2>1. CASE late' = late
      <3>1. late' = [late EXCEPT ![d] = late[d]] /\ late[d] \in SUBSET Appending BY <1>1, <2>1
      <3> QED BY <3>1
    <2>2. CASE late' = [late EXCEPT ![d] = @ \cup handlers[d]]
      <3>1. late' = [late EXCEPT ![d] = late[d] \cup handlers[d]] /\ late[d] \cup handlers[d] \in SUBSET Appending
        BY <1>1, <2>2
      <3> QED BY <3>1
    <2> QED BY <2>1, <2>2
  <1>3. \A g \in {} \cup L : /\ g.observed <= Len(log')
                             /\ (\E h \in handlers[d] \cup late[d] : SameAppend(g, h)) \/ NewAppend(d, g)
    BY <1>1, <1>2, ObservedSoFar DEF SameAppend
  <1>4. {} \in SUBSET Appending OBVIOUS
  <1> QED BY <1>2, <1>3, <1>4, ServerDevice

LEMMA CrashPreserves ==
    ASSUME SyncIInv, NEW d \in Devices, Crash(d)
    PROVE  SyncIInv'
  <1> DEFINE s == Store(d)
             knows == IF saved[s].exists THEN saved[s].known \ {d} ELSE saved[s].known
             v == [saved[s] EXCEPT !.known = knows]
  <1>1. /\ co' = [co EXCEPT ![d] = Asleep] /\ task' = [task EXCEPT ![d] = NoTask]
        /\ late' = [late EXCEPT ![d] = @ \cup handlers[d]] /\ handlers' = [handlers EXCEPT ![d] = {}]
        /\ saved' = [saved EXCEPT ![s].known = IF saved[s].exists THEN @ \ {d} ELSE @]
        /\ log' = log /\ writer' = writer /\ scenario' = scenario /\ local' = local /\ asked' = asked
        /\ resolved' = resolved /\ refused' = refused
    BY DEF Crash
  <1>2. s \in Stores /\ saved \in [Stores -> SavedState] /\ saved[s] \in SavedState
    BY ReplicaTypes DEF SyncIInv, SyncTypeOK
  <1>3. LogStep BY <1>1 DEF LogStep
  <1>4. ServerKept BY <1>1, <1>3, ServerLeaves
  <1>5. Asleep \in Coordinator /\ Asleep.auth = <<>> /\ Asleep.pending = <<>>
    <2>1. <<>> \in Seq(Mutations) OBVIOUS
    <2> QED BY <2>1 DEF Asleep, Coordinator
  <1>6. knows \in SUBSET Devices /\ knows \subseteq saved[s].known /\ (saved[s].exists => d \notin knows)
    BY <1>2 DEF SavedState
  <1>7. saved' = [saved EXCEPT ![s] = v] BY <1>1, <1>2
  <1> HIDE DEF knows
  <1>8. /\ v \in SavedState /\ v.auth = saved[s].auth /\ v.pending = saved[s].pending /\ v.exists = saved[s].exists
        /\ v.known = knows
    BY <1>2, <1>6 DEF SavedState
  <1> HIDE DEF v
  <1>9. saved'[s] = v BY <1>2, <1>7
  <1>10. Carries(d) BY <1>1, <1>3, <1>8, <1>9 DEF Carries
  <1>11. AskedMore(d) /\ LocalFollows BY <1>1, <1>3, AskedStays, LocalStays
  <1>12. Turn(d, Asleep)
    <2>1. Ends(d, Asleep, {}) BY <1>1 DEF Ends
    <2> QED BY <1>5, <2>1, EndsTurn
  <1>13. /\ IsInjective(saved[s].pending) /\ ToSet(saved[s].pending) \subseteq QueuedAt(Store(d))'
         /\ ~saved[s].exists => saved[s].pending = <<>>
    BY <1>1, <1>2, QueuedStill DEF SyncIInv, PendingOK
  <1>14. ToSet(<<>>) = {} /\ IsInjective(<<>>) /\ Starts(<<>>, log')
    <2>1. <<>> \in Seq(Mutations) /\ Len(<<>>) = 0 /\ DOMAIN <<>> = {} BY LenProperties
    <2>2. Len(log') \in Nat BY <1>1, ReplicaTypes, LenProperties
    <2> QED BY <2>1, <2>2 DEF ToSet, IsInjective, Starts
  <1>15. Starts(v.auth, log') BY <1>1, <1>2, <1>8, ReplicaTypes
  <1>16. \A e \in Devices \ {d} : Store(e) = Store(d) /\ e \in v.known =>
            ToSet(v.pending) \subseteq ToSet(co[e].pending) \cup ToSet(log') \cup refused'
    <2> TAKE e \in Devices \ {d}
    <2>1. Known(e) BY TaskParts
    <2> QED BY <1>1, <1>6, <1>8, <2>1 DEF Known
  <1>17. d \in v.known => ToSet(v.pending) \subseteq ToSet(Asleep.pending) \cup ToSet(log') \cup refused'
    BY <1>6, <1>8, <1>13, <1>14
  <1> QED BY <1>4, <1>5, <1>7, <1>8, <1>10, <1>11, <1>12, <1>13, <1>14, <1>15, <1>16, <1>17, DeviceKeeps

LEMMA UnavailablePreserves ==
    ASSUME SyncIInv, LogStep, ServerKept, NEW d \in Devices, Unavailable(d), ~Unsaved(task[d]),
           UNCHANGED <<scenario, local, asked>>
    PROVE  SyncIInv'
  <1>1. PICK c : c = ScheduleReconnect(co[d]) OBVIOUS
  <1>2. Finishes(d, c) /\ saved' = saved /\ refused' = refused BY <1>1 DEF Unavailable
  <1>3. c \in Coordinator /\ Same(c, co[d]) BY <1>1, ReplicaTypes, Reconnecting
  <1>4. Carries(d) /\ LocalFollows BY <1>2, SavedStays, LocalStays
  <1>5. Turn(d, c) BY <1>2, <1>3, <1>4, FinishesTurn
  <1>6. Starts(c.auth, log') BY <1>3, ReplicaTypes, FollowsOn DEF Same
  <1> QED BY <1>2, <1>3, <1>4, <1>5, <1>6, CalmKeeps DEF Same

LEMMA DeniedPreserves ==
    ASSUME SyncIInv, log' = log, ServerKept, NEW d \in Devices, Denied(d), ~Unsaved(task[d]),
           UNCHANGED <<scenario, local, asked>>
    PROVE  SyncIInv'
  <1> DEFINE b == FailPermanently(co[d])
             c == [b EXCEPT !.pending = <<>>]
             s == Store(d)
  <1>1. LogStep BY DEF LogStep
  <1>2. co[d] \in Coordinator /\ Starts(co[d].auth, log') /\ s \in Stores BY ReplicaTypes
  <1>3. b \in Coordinator /\ Same(b, co[d]) BY <1>2, Failing
  <1>4. c = [FailPermanently(co[d]) EXCEPT !.pending = <<>>] OBVIOUS
  <1> HIDE DEF b
  <1>5. c \in Coordinator /\ c.pending = <<>> /\ c.auth = co[d].auth
    <2>1. <<>> \in Seq(Mutations) OBVIOUS
    <2> QED BY <1>3, <2>1 DEF Coordinator, Same
  <1> HIDE DEF c
  <1>6. LocalFollows /\ AskedMore(d) BY <1>1, LocalStays, AskedStays
  <1>7. ToSet(<<>>) = {} /\ IsInjective(<<>>)
    <2>1. <<>> \in Seq(Mutations) /\ Len(<<>>) = 0 /\ DOMAIN <<>> = {} BY LenProperties
    <2> QED BY <2>1 DEF ToSet, IsInjective
  <1>8. CASE Unavailable(d) BY <1>1, <1>8, UnavailablePreserves
  <1>9. CASE /\ refused' = refused \cup ToSet(co[d].pending) /\ saved' = saved
             /\ Throws(d, [c EXCEPT !.status = co[d].status])
    <2>1. PICK a : a = [c EXCEPT !.status = co[d].status] OBVIOUS
    <2>2. a \in Coordinator /\ a.pending = <<>> /\ a.auth = co[d].auth BY <1>2, <1>5, <2>1 DEF Coordinator
    <2>3. PICK x \in Coordinator : Same(x, a) /\ Turn(d, x) BY <1>9, <2>1, <2>2, ThrowsTurn
    <2>4. /\ Carries(d) /\ saved[s] \in SavedState /\ saved' = [saved EXCEPT ![s] = saved[s]]
      BY <1>1, <1>9, SavedStays
    <2>5. /\ IsInjective(saved[s].pending) /\ ToSet(saved[s].pending) \subseteq QueuedAt(Store(d))'
          /\ ~saved[s].exists => saved[s].pending = <<>>
      BY <1>2, QueuedStill DEF SyncIInv, PendingOK
    <2>6. Starts(saved[s].auth, log') BY <1>2, ReplicaTypes
    <2>7. d \in saved[s].known => ToSet(saved[s].pending) \subseteq ToSet(log') \cup refused'
      <3>1. Known(d) BY TaskParts
      <3> QED BY <1>9, <3>1 DEF Known
    <2>8. \A e \in Devices \ {d} : Store(e) = Store(d) /\ e \in saved[s].known =>
             ToSet(saved[s].pending) \subseteq ToSet(co[e].pending) \cup ToSet(log') \cup refused'
      <3> TAKE e \in Devices \ {d}
      <3>1. Known(e) BY TaskParts
      <3> QED BY <1>9, <3>1 DEF Known
    <2>9. x.pending = <<>> /\ x.auth = co[d].auth BY <2>2, <2>3 DEF Same
    <2>10. ToSet(x.pending) = {} /\ IsInjective(x.pending) /\ Starts(x.auth, log') BY <1>2, <1>7, <2>9
    <2> QED BY <1>6, <2>3, <2>4, <2>5, <2>6, <2>7, <2>8, <2>10, DeviceKeeps
  <1>10. CASE /\ co[d].pending = <<>> \/ IsCurrent(d)
              /\ saved' = IF co[d].pending = <<>> THEN saved ELSE Persisted(d, c)
              /\ refused' = refused \cup ToSet(co[d].pending)
              /\ Finishes(d, RebuildView(c))
    <2>1. PICK x : x = RebuildView(c) OBVIOUS
    <2>2. x \in Coordinator /\ x.pending = <<>> /\ x.auth = co[d].auth BY <1>5, <2>1, Rebuilt DEF Same
    <2>3. ToSet(x.pending) = {} /\ IsInjective(x.pending) /\ Starts(x.auth, log') BY <1>2, <1>7, <2>2
    <2>4. CASE co[d].pending = <<>>
      <3>1. saved' = saved /\ refused' = refused BY <1>7, <1>10, <2>4
      <3>2. Carries(d) BY <1>1, <3>1, SavedStays
      <3>3. Turn(d, x) BY <1>10, <2>1, <2>2, <3>2, FinishesTurn
      <3> QED BY <1>1, <1>6, <2>2, <2>3, <2>4, <3>1, <3>3, CalmKeeps
    <2>5. CASE co[d].pending # <<>>
      <3>1. IsCurrent(d) /\ saved' = Persisted(d, x) BY <1>5, <1>10, <2>2, <2>5 DEF Persisted
      <3>2. refused \subseteq refused' /\ ToSet(co[d].pending) \subseteq refused' BY <1>10
      <3>3. PICK v \in SavedState : /\ saved' = [saved EXCEPT ![Store(d)] = v] /\ v.exists
                                    /\ v.known = {d} /\ v.auth = x.auth /\ v.pending = x.pending
        BY <1>1, <2>2, <3>1, <3>2, PersistedFits
      <3>4. Carries(d) BY <1>1, <2>2, <3>1, <3>2, PersistedFits
      <3>5. Turn(d, x) BY <1>10, <2>1, <2>2, <3>4, FinishesTurn
      <3> QED BY <1>6, <2>2, <2>3, <3>3, <3>4, <3>5, DeviceKeeps
    <2> QED BY <2>4, <2>5
  <1> QED BY <1>4, <1>8, <1>9, <1>10 DEF Denied

LEMMA ServerFailsPreserves ==
    ASSUME SyncIInv, NEW d \in Devices, ServerFails(d)
    PROVE  SyncIInv'
  <1>1. /\ ~Unsaved(task[d]) /\ handlers' = [handlers EXCEPT ![d] = {}]
        /\ log' = log /\ writer' = writer /\ scenario' = scenario /\ local' = local /\ asked' = asked
        /\ \/ Unavailable(d) /\ late' = [late EXCEPT ![d] = @ \cup handlers[d]]
           \/ Denied(d) /\ late' = late
    BY DEF ServerFails, Unsaved
  <1>2. LogStep BY <1>1 DEF LogStep
  <1>3. ServerKept BY <1>1, <1>2, ServerLeaves
  <1> QED BY <1>1, <1>2, <1>3, UnavailablePreserves, DeniedPreserves

\* New events of an acknowledged batch that follow the projection are where
\* the log has them.
LEMMA FreshFollows ==
    ASSUME SyncIInv, LogStep, NEW d \in Devices, NEW batch \in Seq(Mutations),
           ToSet(batch) \subseteq ToSet(log'), Follows(d, Fresh(d, batch), log')
    PROVE  Fresh(d, batch) \in Seq(Mutations) /\ FollowOn(Len(co[d].auth), Fresh(d, batch), log')
  <1> DEFINE e == Fresh(d, batch)
             a == Len(co[d].auth)
  <1>1. e \in Seq(Mutations) /\ ToSet(e) \subseteq ToSet(batch) BY LeavingMembers DEF Fresh
  <1>2. log' \in Seq(Mutations) /\ DOMAIN log' = 1..Len(log') BY LogGrowth, LenProperties
  <1>3. \A i \in 1..Len(e) : Revision(log', e[i]) = a + i BY DEF Follows
  <1> HIDE DEF e, a
  <1>4. ASSUME NEW i \in 1..Len(e) PROVE a + i \in 1..Len(log') /\ log'[a + i] = e[i]
    <2>1. e[i] \in ToSet(log') BY <1>1, LenProperties DEF ToSet
    <2>2. \E j \in 1..Len(log') : log'[j] = e[i] BY <1>2, <2>1 DEF ToSet
    <2>3. Revision(log', e[i]) \in 1..Len(log') /\ log'[Revision(log', e[i])] = e[i] BY <2>2 DEF Revision
    <2> QED BY <1>3, <2>3
  <1>5. FollowOn(a, e, log') BY <1>4 DEF FollowOn
  <1> QED BY <1>1, <1>5 DEF e, a

LEMMA AcknowledgedPreserves ==
    ASSUME SyncIInv, LogStep, ServerKept, NEW d \in Devices, NEW batch \in Seq(Mutations), NEW latest \in Int,
           ToSet(batch) \subseteq ToSet(log'), Acknowledged(d, batch, latest), task[d].at = "await",
           UNCHANGED <<scenario, saved, asked, refused>>
    PROVE  SyncIInv'
  <1>1. PICK e : e = Fresh(d, batch) OBVIOUS
  <1>2. Carries(d) /\ AskedMore(d) /\ ~Unsaved(task[d]) BY SavedStays, AskedStays DEF Unsaved
  <1>3. co[d] \in Coordinator /\ co \in [Devices -> Coordinator] /\ task[d] \in Task /\ task \in [Devices -> Task]
    BY ReplicaTypes, TaskParts
  <1>4. Starts(co[d].auth, log') BY ReplicaTypes, FollowsOn
  <1>5. CASE /\ task' = [task EXCEPT ![d].at = "recover", ![d].batch = batch, ![d].latest = latest]
             /\ UNCHANGED <<co, resolved, local>>
    <2> DEFINE t == [task[d] EXCEPT !.at = "recover", !.batch = batch, !.latest = latest]
    <2>1. task' = [task EXCEPT ![d] = t] BY <1>3, <1>5
    <2>2. t \in Task /\ t.at = "recover" /\ t.batch = batch /\ t.op = task[d].op BY <1>3 DEF Task, Places
    <2> HIDE DEF t
    <2>3. task' \in [Devices -> Task] /\ task'[d] = t /\ \A x \in Devices \ {d} : task'[x] = task[x]
      BY <1>3, <2>1, <2>2
    <2>4. TaskFits(d)' BY <2>2, <2>3 DEF TaskFits, Settling
    <2>5. ~Unsaved(t) BY <2>2 DEF Unsaved
    <2>6. Queueing(d)' BY <1>2, <2>2, <2>3, <2>5, QueueingOn
    <2>7. co' = [co EXCEPT ![d] = co[d]] BY <1>3, <1>5
    <2>8. Turn(d, co[d]) BY <1>5, <2>3, <2>4, <2>6, <2>7 DEF Turn
    <2>9. LocalFollows BY <1>5, LocalStays
    <2> QED BY <1>3, <1>4, <2>8, <2>9, CalmKeeps
  <1>6. CASE ProtocolError(d)
    <2>1. PICK x \in Coordinator : Same(x, co[d]) /\ Turn(d, x) BY <1>6, ProtocolErrorTurn
    <2>2. local' = local BY <1>6, ProtocolErrorTurn
    <2>3. LocalFollows BY <2>2, LocalStays
    <2> QED BY <1>4, <2>1, <2>3, CalmKeeps DEF Same
  <1>7. CASE Throws(d, co[d]) /\ UNCHANGED local
    <2>1. PICK x \in Coordinator : Same(x, co[d]) /\ Turn(d, x) BY <1>3, <1>7, ThrowsTurn
    <2>2. LocalFollows BY <1>7, LocalStays
    <2> QED BY <1>4, <2>1, <2>2, CalmKeeps DEF Same
  <1>8. CASE /\ Follows(d, e, log')
             /\ Saves(d, "push", [Applied(co[d], e) EXCEPT !.pending = Without(@, batch)])
             /\ local' = IF InStep(co[d]) /\ Len(local[Store(d)]) = co[d].localRevision
                         THEN [local EXCEPT ![Store(d)] = @ \o e] ELSE local
    <2>1. e \in Seq(Mutations) /\ FollowOn(Len(co[d].auth), e, log') BY <1>1, <1>8, FreshFollows
    <2>2. /\ Applied(co[d], e) \in Coordinator /\ Starts(Applied(co[d], e).auth, log')
          /\ Applied(co[d], e).pending = co[d].pending
      BY <2>1, AppliedFollows
    <2>3. LocalFollows BY <1>8, <2>1, LocalExtended
    <2>4. PICK c : c = [Applied(co[d], e) EXCEPT !.pending = Without(@, batch)] OBVIOUS
    <2>5. /\ c \in Coordinator /\ c.auth = Applied(co[d], e).auth /\ IsInjective(c.pending)
          /\ ToSet(c.pending) \subseteq QueuedAt(Store(d))
          /\ ToSet(co[d].pending) \subseteq ToSet(c.pending) \cup ToSet(log')
      BY <2>2, <2>4, SettledFits
    <2>6. Turn(d, c) BY <1>2, <1>8, <2>4, <2>5, SavesTurn
    <2>7. QueuedAt(Store(d))' = QueuedAt(Store(d)) BY QueuedStill
    <2> QED BY <1>2, <2>2, <2>3, <2>5, <2>6, <2>7, MemoryKeeps
  <1> QED BY <1>1, <1>5, <1>6, <1>7, <1>8 DEF Acknowledged, ApplyAuthoritative

LEMMA ConflictedPreserves ==
    ASSUME SyncIInv, LogStep, ServerKept, NEW d \in Devices, Conflicted(d), task[d].at = "await",
           UNCHANGED <<scenario, saved, asked, refused>>
    PROVE  SyncIInv'
  <1>1. co[d] \in Coordinator /\ co \in [Devices -> Coordinator] /\ task[d] \in Task /\ task \in [Devices -> Task]
    BY ReplicaTypes, TaskParts
  <1>2. Starts(co[d].auth, log') BY ReplicaTypes, FollowsOn
  <1>3. local' = local BY DEF Conflicted
  <1>4. LocalFollows BY <1>3, LocalStays
  <1>5. Carries(d) /\ ~Unsaved(task[d]) BY SavedStays DEF Unsaved
  <1>6. CASE Throws(d, co[d])
    <2>1. PICK x \in Coordinator : Same(x, co[d]) /\ Turn(d, x) BY <1>1, <1>6, ThrowsTurn
    <2> QED BY <1>2, <1>4, <2>1, CalmKeeps DEF Same
  <1>7. CASE /\ task' = [task EXCEPT ![d].at = "pull", ![d].then = "push", ![d].conflicts = @ + 1]
             /\ UNCHANGED <<co, resolved>>
    <2> DEFINE n == task[d].conflicts + 1
               t == [task[d] EXCEPT !.at = "pull", !.then = "push", !.conflicts = n]
    <2>1. n \in Nat BY <1>1 DEF Task
    <2>2. task' = [task EXCEPT ![d] = t] BY <1>1, <1>7
    <2> HIDE DEF n
    <2>3. t \in Task /\ t.at = "pull" /\ t.then = "push" /\ t.op = task[d].op BY <1>1, <2>1 DEF Task, Places
    <2> HIDE DEF t
    <2>4. task' \in [Devices -> Task] /\ task'[d] = t /\ \A x \in Devices \ {d} : task'[x] = task[x]
      BY <1>1, <2>2, <2>3
    <2>5. TaskFits(d)' BY <2>3, <2>4 DEF TaskFits, Settling
    <2>6. ~Unsaved(t) BY <2>3 DEF Unsaved
    <2>7. Queueing(d)' BY <1>5, <2>3, <2>4, <2>6, QueueingOn
    <2>8. co' = [co EXCEPT ![d] = co[d]] BY <1>1, <1>7
    <2>9. Turn(d, co[d]) BY <1>7, <2>4, <2>5, <2>7, <2>8 DEF Turn
    <2> QED BY <1>1, <1>2, <1>4, <2>9, CalmKeeps
  <1> QED BY <1>6, <1>7 DEF Conflicted

LEMMA ServedPreserves ==
    ASSUME SyncIInv, NEW d \in Devices, Served(d)
    PROVE  SyncIInv'
  <1>1. PICK h \in handlers[d] :
        /\ task[d].at = "await"
        /\ IF Begins(h)
           THEN /\ handlers' = [handlers EXCEPT ![d] = {Observes(h)}]
                /\ UNCHANGED <<log, co, task, resolved, local>>
           ELSE /\ handlers' = [handlers EXCEPT ![d] = {}]
                /\ log' = LogAfter(h)
                /\ IF AppendResult(h).status = "conflict" THEN Conflicted(d)
                   ELSE Acknowledged(d, h.batch, AppendResult(h).latest)
        /\ UNCHANGED <<late, writer, scenario, saved, asked, refused, syncFaults>>
    BY DEF Served
  <1>2. d \in Clients /\ late \in [Clients -> SUBSET Appending] BY DEF Clients, SyncIInv, SyncTypeOK
  <1>3. LogStep BY <1>1, <1>2 DEF LogStep
  <1>4. h \in Appending /\ h.batch \in Seq(Mutations) BY <1>2, BatchTypes DEF SyncIInv
  <1>5. CASE Begins(h)
    <2>1. handlers' = [handlers EXCEPT ![d] = {Observes(h)}] /\ UNCHANGED <<log, co, task, resolved, local>>
      BY <1>1, <1>5
    <2>2. Len(log) \in Nat BY ReplicaTypes, LenProperties
    <2>3. Observes(h) \in Appending /\ SameAppend(Observes(h), h) /\ Observes(h).observed <= Len(log')
      BY <1>4, <2>1, <2>2 DEF Observes, Appending, SameAppend
    <2>4. late' = [late EXCEPT ![d] = late[d]] /\ late[d] \in SUBSET Appending BY <1>1, <1>2
    <2>5. \A g \in {Observes(h)} \cup late[d] :
             /\ g.observed <= Len(log')
             /\ (\E x \in handlers[d] \cup late[d] : SameAppend(g, x)) \/ NewAppend(d, g)
      <3>1. \A g \in late[d] : g.observed <= Len(log') /\ SameAppend(g, g)
        BY <1>2, <1>3, ObservedSoFar DEF SameAppend
      <3> QED BY <2>3, <3>1
    <2>6. {Observes(h)} \in SUBSET Appending BY <2>3
    <2>7. ServerKept BY <1>1, <1>3, <2>1, <2>4, <2>5, <2>6, ServerDevice
    <2>8. co[d] \in Coordinator /\ co \in [Devices -> Coordinator] /\ Starts(co[d].auth, log')
      BY <2>1, ReplicaTypes, TaskParts
    <2>9. Carries(d) /\ LocalFollows BY <1>1, <1>3, <2>1, SavedStays, LocalStays
    <2>10. co' = [co EXCEPT ![d] = co[d]] BY <2>1, <2>8
    <2>11. Turn(d, co[d]) BY <1>1, <2>1, <2>8, <2>9, <2>10, StillTurn
    <2> QED BY <1>1, <1>3, <2>7, <2>8, <2>9, <2>11, CalmKeeps
  <1>6. CASE ~Begins(h)
    <2>1. /\ handlers' = [handlers EXCEPT ![d] = {}] /\ log' = LogAfter(h)
          /\ IF AppendResult(h).status = "conflict" THEN Conflicted(d)
             ELSE Acknowledged(d, h.batch, AppendResult(h).latest)
      BY <1>1, <1>6
    <2>2. ServerKept BY <1>1, <1>3, <2>1, ServerLeaves
    <2>3. CASE AppendResult(h).status = "conflict" BY <1>1, <1>3, <2>1, <2>2, <2>3, ConflictedPreserves
    <2>4. CASE AppendResult(h).status # "conflict"
      <3>1. ToSet(h.batch) \subseteq ToSet(log') /\ AppendResult(h).latest \in Int
        BY <1>2, <2>1, <2>4, AppendEffect
      <3> QED BY <1>1, <1>3, <1>4, <2>1, <2>2, <2>4, <3>1, AcknowledgedPreserves
    <2> QED BY <2>3, <2>4
  <1> QED BY <1>5, <1>6

------------------------------------------------
LEMMA SyncInitHolds == SyncInit => SyncIInv
  <1> SUFFICES ASSUME SyncInit PROVE SyncIInv
    OBVIOUS
  <1>1. <<>> \in Seq(Mutations) /\ Len(<<>>) = 0 /\ DOMAIN <<>> = {} BY LenProperties
  <1>2. ToSet(<<>>) = {} /\ IsInjective(<<>>) BY <1>1 DEF ToSet, IsInjective
  <1>3. Asleep \in Coordinator /\ Asleep.auth = <<>> /\ Asleep.pending = <<>> BY <1>1 DEF Asleep, Coordinator
  <1>4. NoTask \in Task /\ NoTask.op = "none" /\ NoTask.at = "idle" BY <1>1 DEF NoTask, Task, Places
  <1>5. Idle \in WriterState /\ Idle.status = "idle" BY DEF Idle, WriterState
  <1> DEFINE v == [exists |-> FALSE, known |-> Devices, auth |-> <<>>, pending |-> <<>>]
  <1>6. v \in SavedState /\ v.auth = <<>> /\ v.pending = <<>> BY <1>1 DEF SavedState
  <1> HIDE DEF v
  <1>7. /\ log = <<>> /\ scenario \in Scenarios /\ handlers = [p \in Clients |-> {}] /\ late = [p \in Clients |-> {}]
        /\ writer = [w \in Writers |-> Idle] /\ local = [s \in Stores |-> <<>>] /\ saved = [s \in Stores |-> v]
        /\ co = [d \in Devices |-> Asleep] /\ task = [d \in Devices |-> NoTask] /\ asked = [d \in Devices |-> 0]
        /\ resolved = {} /\ refused = {}
    BY DEF SyncInit, Clients, v
  <1>8. SyncTypeOK
    <2>1. \A d \in Devices : asked[d] = 0 /\ scenario.queue[d] \in Seq(Mutations) BY <1>7, SyncAssumption
    <2>2. \A d \in Devices : asked[d] <= Len(scenario.queue[d]) BY <2>1, LenProperties
    <2>3. /\ handlers \in [Clients -> SUBSET Appending] /\ late \in [Clients -> SUBSET Appending]
          /\ writer \in [Writers -> WriterState] /\ asked \in [Devices -> Nat]
      BY <1>5, <1>7
    <2>4. /\ local \in [Stores -> Seq(Mutations)] /\ saved \in [Stores -> SavedState]
          /\ co \in [Devices -> Coordinator] /\ task \in [Devices -> Task]
      BY <1>1, <1>3, <1>4, <1>6, <1>7
    <2> QED BY <1>1, <1>7, <2>2, <2>3, <2>4 DEF SyncTypeOK
  <1>9. LogHoldsOnce BY <1>1, <1>7 DEF LogHoldsOnce
  <1>10. AppendsFit BY <1>7 DEF AppendsFit, Clients
  <1>11. WritersFit
    <2> SUFFICES ASSUME NEW w \in Writers PROVE WriterFits(w)
      BY DEF WritersFit
    <2>1. handlers[w] = {} /\ late[w] = {} /\ writer[w].status = "idle" BY <1>5, <1>7 DEF Clients
    <2>2. ~HoldsSome(log, BatchOf[w]) BY <1>2, <1>7 DEF HoldsSome
    <2> QED BY <2>1, <2>2 DEF WriterFits
  <1>12. ReplicasFollow
    <2>1. Starts(<<>>, <<>>) BY <1>1 DEF Starts
    <2>2. IsPrefixOf(<<>>, <<>>) BY <1>1, <2>1, PrefixIsStart
    <2> QED BY <1>3, <1>6, <1>7, <2>2 DEF ReplicasFollow
  <1>13. PendingOK BY <1>2, <1>3, <1>6, <1>7 DEF PendingOK
  <1>14. KeptOK
    <2>1. MutationsKept BY <1>7 DEF MutationsKept
    <2>2. ASSUME NEW d \in Devices PROVE Known(d) /\ TaskFits(d) /\ Queueing(d)
      <3>1. Store(d) \in Stores BY <1>7, SyncAssumption DEF Store
      <3>2. Known(d) BY <1>2, <1>6, <1>7, <3>1 DEF Known
      <3>3. TaskFits(d) /\ Queueing(d) BY <1>4, <1>7 DEF TaskFits, Queueing, Settling
      <3> QED BY <3>2, <3>3
    <2> QED BY <2>1, <2>2 DEF KeptOK
  <1> QED BY <1>8, <1>9, <1>10, <1>11, <1>12, <1>13, <1>14 DEF SyncIInv

LEMMA SyncNextPreserves == SyncIInv /\ [SyncNext]_syncVars => SyncIInv'
  <1> SUFFICES ASSUME SyncIInv, [SyncNext]_syncVars PROVE SyncIInv'
    OBVIOUS
  <1>1. CASE UNCHANGED syncVars
    <2>1. UNCHANGED adapterVars /\ UNCHANGED clientVars BY <1>1 DEF syncVars
    <2>2. /\ scenario' = scenario
          /\ UNCHANGED <<scenario, local, saved, co, task, asked, resolved, refused>>
      BY <2>1 DEF clientVars
    <2>3. ServerKept /\ LogStep /\ log' = log BY <2>1, <2>2, ServerQuiet
    <2>4. SyncTypeOK' BY <2>2, <2>3 DEF SyncIInv, SyncTypeOK, ServerKept
    <2> QED BY <2>1, <2>3, <2>4, LogGrowth, ClientUnmoved DEF SyncIInv, ServerKept
  <1>2. ASSUME NEW d \in Devices, DeviceStep(d) \/ Start(d) PROVE SyncIInv'
    BY <1>2, SavePreserves, StartPreserves, LoadPreserves, CatchUpPreserves, SubscribePreserves, UpdatePreserves,
       ConsumerEndsPreserves, ReconnectPreserves, PushPreserves, ServedPreserves, PullPreserves,
       RecoverPreserves, SettlePreserves DEF DeviceStep
  <1>3. ASSUME NEW d \in Devices, QueueMutation(d) \/ Flush(d) \/ ServerFails(d) \/ Stop(d) \/ Crash(d)
        PROVE  SyncIInv'
    BY <1>3, QueueMutationPreserves, FlushPreserves, ServerFailsPreserves, StopPreserves, CrashPreserves
  <1>4. ASSUME NEW p \in Devices \cup Writers, LateStep(p) /\ UNCHANGED clientVars PROVE SyncIInv'
    BY <1>4, LateStepPreserves DEF Clients
  <1>5. ASSUME NEW w \in Writers, WriterStep(w) /\ UNCHANGED clientVars PROVE SyncIInv'
    BY <1>5, WriterAsksPreserves, WriterServedPreserves, WriterUnheardPreserves DEF WriterStep
  <1> QED BY <1>1, <1>2, <1>3, <1>4, <1>5 DEF SyncNext

\* The inductive invariant of synchronization: types, the appends under way
\* and the writers' answers on the server, and on the client that replicas
\* follow the log and that who may save knows what is saved.
THEOREM SyncInvariant == SyncSpec => []SyncIInv
  BY SyncInitHolds, SyncNextPreserves, PTL DEF SyncSpec

\* The canonical log holds every mutation once and what the facade answered
\* stays true, however many writers and devices append, repeat and abandon.
THEOREM ServerLogIsSound == SyncSpec => []ServerLogSound
  <1>1. SyncIInv => ServerLogSound
    BY DEF SyncIInv, ServerLogSound, AnswersTruthful, WritersFit, WriterFits
  <1> QED BY <1>1, SyncInvariant, PTL

\* No resolved mutation is lost and no replica leaves the log, through any
\* crashes, lost answers, failed saves, denials and shared stores.
THEOREM ReplicasAreSound == SyncSpec => []ReplicasSound
  <1>1. SyncIInv => ReplicasSound BY DEF SyncIInv, ReplicasSound, KeptOK
  <1> QED BY <1>1, SyncInvariant, PTL
================================================
