---------------- MODULE ToolProofs ----------------
(***************************************************************************)
(* What the executor of a process and the two tool loops promise.          *)
(*                                                                         *)
(* ToolExecutor, for any finite set of requests, any keys and workloads    *)
(* and any limit of concurrency: THEOREM ExecutorIsSound.  The safety      *)
(* properties speak of tools that run; what keeps them is where the run    *)
(* came from.  A body exists only for the request its key's ledger entry   *)
(* names (Runs), an entry is never replaced, and who waits for the ledger  *)
(* asked for the same as the entry (Joined).                               *)
(*                                                                         *)
(* ToolLoop, for any limits and any number of turns and runs: THEOREMs     *)
(* LoopIsSound and StreamIsSound.  The call budget of the durable loop is  *)
(* not inductive by itself.  What carries it is the count: the running     *)
(* total, the progress a paused run returned and the number of discovered  *)
(* calls are the same number, except that a turn whose calls were just     *)
(* discovered is not in the total yet.                                     *)
(***************************************************************************)
EXTENDS ToolExecutor, ToolLoop, SequenceTheorems, FiniteSetTheorems, TLAPS

------------------------------------------------
\* The executor.

Runs ==
    \A r \in Requests :
        /\ body[r].pc # "none" => /\ entries[Key(r)] = r /\ call[r].pc \in {"ledger", "end"}
                                  /\ call[r].outcome \in {"none", "success", "error", "cancelled"}
        /\ tool[r] # "none" => body[r].pc \in {"invoke", "end"}
        /\ body[r].pc = "end" => body[r].outcome # "none"
        /\ body[r].outcome = "success" => body[r].pc = "end"
        /\ call[r].pc # "end" <=> call[r].outcome = "none"
Joined ==
    \A r \in Requests : call[r].pc \in {"joinLedger", "ledger"} =>
        entries[Key(r)] # Nobody /\ SameRequest(r, entries[Key(r)])
Produced == \A r \in Requests : call[r].outcome = "success" =>
                \E s \in Requests : SameRequest(r, s) /\ body[s].outcome = "success"

ExecutorIInv ==
    /\ requestOf \in Workloads /\ ExecutorTypeOK /\ SlotsAccounted
    /\ Runs /\ Joined /\ Produced
------------------------------------------------
\* The limiter's queue.

LEMMA Queued ==
    ASSUME NEW S, NEW s \in Seq(S), NEW e \in S, IsInjective(s), e \notin ToSet(s)
    PROVE  /\ Append(s, e) \in Seq(S) /\ IsInjective(Append(s, e))
           /\ ToSet(Append(s, e)) = ToSet(s) \cup {e}
  <1> DEFINE t == Append(s, e)
             n == Len(s)
  <1>1. /\ t \in Seq(S) /\ n \in Nat /\ DOMAIN s = 1..n /\ DOMAIN t = 1..(n + 1) /\ t[n + 1] = e
        /\ \A i \in 1..n : t[i] = s[i]
    OBVIOUS
  <1>2. \A i \in DOMAIN s : s[i] # e BY DEF ToSet
  <1> HIDE DEF t, n
  <1>3. \A i \in DOMAIN t : i = n + 1 \/ i \in DOMAIN s BY <1>1
  <1>4. IsInjective(t)
    <2> SUFFICES ASSUME NEW i \in DOMAIN t, NEW j \in DOMAIN t, t[i] = t[j] PROVE i = j
      BY DEF IsInjective
    <2> QED BY <1>1, <1>2, <1>3 DEF IsInjective
  <1>5. ToSet(t) = ToSet(s) \cup {e} BY <1>1, <1>3 DEF ToSet
  <1> QED BY <1>1, <1>4, <1>5 DEF t

LEMMA Shifted ==
    ASSUME NEW S, NEW s \in Seq(S), s # <<>>, IsInjective(s)
    PROVE  /\ Tail(s) \in Seq(S) /\ IsInjective(Tail(s)) /\ Head(s) \in ToSet(s) /\ Head(s) \in S
           /\ ToSet(Tail(s)) = ToSet(s) \ {Head(s)}
  <1> DEFINE t == Tail(s)
             n == Len(s)
  <1>1. /\ t \in Seq(S) /\ n \in Nat /\ n > 0 /\ DOMAIN s = 1..n /\ DOMAIN t = 1..(n - 1)
        /\ Head(s) = s[1] /\ \A i \in 1..(n - 1) : t[i] = s[i + 1]
    OBVIOUS
  <1>2. s[1] \in S /\ 1 \in DOMAIN s BY <1>1
  <1> HIDE DEF t, n
  <1>3. \A i \in DOMAIN t : i \in Int /\ i + 1 \in DOMAIN s /\ t[i] = s[i + 1] /\ i + 1 # 1 BY <1>1
  <1>4. IsInjective(t)
    <2> SUFFICES ASSUME NEW i \in DOMAIN t, NEW j \in DOMAIN t, t[i] = t[j] PROVE i = j
      BY DEF IsInjective
    <2>1. i + 1 = j + 1 BY <1>3 DEF IsInjective
    <2> QED BY <1>3, <2>1
  <1>5. \A i \in DOMAIN s : i # 1 => i - 1 \in DOMAIN t /\ t[i - 1] = s[i] BY <1>1
  <1>6. ToSet(t) = ToSet(s) \ {s[1]}
    <2>1. ASSUME NEW x \in ToSet(t) PROVE x \in ToSet(s) \ {s[1]}
      <3>1. PICK i \in DOMAIN t : x = t[i] BY DEF ToSet
      <3> QED BY <1>2, <1>3, <3>1 DEF ToSet, IsInjective
    <2>2. ASSUME NEW x \in ToSet(s) \ {s[1]} PROVE x \in ToSet(t)
      <3>1. PICK i \in DOMAIN s : x = s[i] BY DEF ToSet
      <3> QED BY <1>5, <2>2, <3>1 DEF ToSet
    <2> QED BY <2>1, <2>2
  <1> QED BY <1>1, <1>2, <1>4, <1>6 DEF t, ToSet

LEMMA Spliced ==
    ASSUME NEW S, NEW s \in Seq(S), IsInjective(s), NEW i \in DOMAIN s
    PROVE  /\ RemoveAt(s, i) \in Seq(S) /\ IsInjective(RemoveAt(s, i))
           /\ ToSet(RemoveAt(s, i)) = ToSet(s) \ {s[i]}
  <1> DEFINE t == RemoveAt(s, i)
             n == Len(s)
  <1>1. n \in Nat /\ DOMAIN s = 1..n /\ i \in 1..n OBVIOUS
  <1>2. /\ t \in Seq(S) /\ DOMAIN t = 1..(n - 1)
        /\ \A j \in 1..(n - 1) : t[j] = IF j < i THEN s[j] ELSE s[j + 1]
    <2> DEFINE a == SubSeq(s, 1, i - 1)
               b == SubSeq(s, i + 1, n)
    <2>1. /\ a \in Seq(S) /\ Len(a) = i - 1 /\ \A j \in 1..(i - 1) : a[j] = s[j]
      BY <1>1, SubSeqProperties
    <2>2. /\ b \in Seq(S) /\ Len(b) = n - i /\ \A j \in 1..(n - i) : b[j] = s[j + i]
      BY <1>1, SubSeqProperties
    <2>3. t = a \o b BY DEF RemoveAt
    <2> HIDE DEF a, b, t, n
    <2>4. t \in Seq(S) /\ Len(t) = n - 1
      <3>1. t \in Seq(S) /\ Len(t) = Len(a) + Len(b) BY <2>1, <2>2, <2>3, ConcatProperties
      <3> QED BY <1>1, <2>1, <2>2, <3>1
    <2>5. \A j \in 1..(n - 1) : t[j] = IF j < i THEN a[j] ELSE b[j - (i - 1)]
      BY <1>1, <2>1, <2>2, <2>3
    <2>6. \A j \in 1..(n - 1) : t[j] = IF j < i THEN s[j] ELSE s[j + 1]
      <3> TAKE j \in 1..(n - 1)
      <3>1. CASE j < i BY <1>1, <2>1, <2>5, <3>1
      <3>2. CASE ~(j < i)
        <4>1. j - (i - 1) \in 1..(n - i) /\ (j - (i - 1)) + i = j + 1 BY <1>1, <3>2
        <4> QED BY <2>2, <2>5, <3>2, <4>1
      <3> QED BY <3>1, <3>2
    <2> QED BY <2>4, <2>6
  <1> HIDE DEF t, n
  <1> DEFINE Old(j) == IF j < i THEN j ELSE j + 1
  <1>3. \A j \in DOMAIN t : Old(j) \in DOMAIN s /\ Old(j) # i /\ t[j] = s[Old(j)] BY <1>1, <1>2
  <1>4. \A j, k \in DOMAIN t : Old(j) = Old(k) => j = k BY <1>1, <1>2
  <1>5. \A k \in DOMAIN s : k # i => \E j \in DOMAIN t : Old(j) = k
    <2> SUFFICES ASSUME NEW k \in DOMAIN s, k # i PROVE \E j \in DOMAIN t : Old(j) = k OBVIOUS
    <2>1. CASE k < i BY <1>1, <1>2, <2>1
    <2>2. CASE ~(k < i)
      <3>1. k - 1 \in DOMAIN t /\ Old(k - 1) = k BY <1>1, <1>2, <2>2
      <3> QED BY <3>1
    <2> QED BY <2>1, <2>2
  <1> HIDE DEF Old
  <1>6. IsInjective(t) BY <1>3, <1>4 DEF IsInjective
  <1>7. ToSet(t) = ToSet(s) \ {s[i]}
    <2>1. ASSUME NEW x \in ToSet(t) PROVE x \in ToSet(s) \ {s[i]}
      <3>1. PICK j \in DOMAIN t : x = t[j] BY DEF ToSet
      <3> QED BY <1>3, <3>1 DEF ToSet, IsInjective
    <2>2. ASSUME NEW x \in ToSet(s) \ {s[i]} PROVE x \in ToSet(t)
      <3>1. PICK k \in DOMAIN s : x = s[k] BY DEF ToSet
      <3>2. PICK j \in DOMAIN t : Old(j) = k BY <1>5, <2>2, <3>1
      <3> QED BY <1>3, <3>1, <3>2 DEF ToSet
    <2> QED BY <2>1, <2>2
  <1> QED BY <1>2, <1>6, <1>7 DEF t

LEMMA QueueLeft ==
    ASSUME ExecutorTypeOK, IsInjective(waiters), NEW r
    PROVE  /\ WithoutWaiter(r) \in Seq(Requests) /\ IsInjective(WithoutWaiter(r))
           /\ ToSet(WithoutWaiter(r)) = ToSet(waiters) \ {r}
           /\ waiters = <<>> => WithoutWaiter(r) = <<>>
  <1>0. waiters \in Seq(Requests) BY DEF ExecutorTypeOK
  <1>1. CASE r \in ToSet(waiters)
    <2>1. PICK i \in DOMAIN waiters : waiters[i] = r /\ WithoutWaiter(r) = RemoveAt(waiters, i)
      <3> DEFINE i == CHOOSE j \in DOMAIN waiters : waiters[j] = r
      <3>1. i \in DOMAIN waiters /\ waiters[i] = r BY <1>1 DEF ToSet
      <3> QED BY <1>1, <3>1 DEF WithoutWaiter
    <2>2. waiters # <<>> BY <1>1 DEF ToSet
    <2> QED BY <1>0, <2>1, <2>2, Spliced
  <1>2. CASE r \notin ToSet(waiters) BY <1>0, <1>2 DEF WithoutWaiter
  <1> QED BY <1>1, <1>2

------------------------------------------------
\* The callers.

LEMMA KeyType ==
    ASSUME ExecutorIInv, NEW r \in Requests
    PROVE  /\ Key(r) \in RequestKeys /\ call[r] \in Caller /\ body[r] \in Body
           /\ entries[Key(r)] \in Requests \cup {Nobody} /\ operations[Key(r)] \in Requests \cup {Nobody}
           /\ call[r].pc \in {"idle", "policy", "joinLedger", "joinOperation"} => body[r].pc = "none"
  <1>1. Key(r) \in RequestKeys BY ExecutorAssumption DEF ExecutorIInv, Key
  <1> QED BY <1>1 DEF ExecutorIInv, ExecutorTypeOK, Runs

\* Only the state of the caller of r, and the operations, change.
LEMMA CallerPreserves ==
    ASSUME ExecutorIInv, NEW r \in Requests, NEW me \in Caller, call' = [call EXCEPT ![r] = me],
           operations' \in [RequestKeys -> Requests \cup {Nobody}], UNCHANGED <<body, entries>>, KeepLimiter,
           body[r].pc # "none" => /\ me.pc \in {"ledger", "end"}
                                  /\ me.outcome \in {"none", "success", "error", "cancelled"},
           me.pc # "end" <=> me.outcome = "none",
           me.pc \in {"joinLedger", "ledger"} =>
               entries[Key(r)] # Nobody /\ SameRequest(r, entries[Key(r)]),
           me.outcome = "success" => \E s \in Requests : SameRequest(r, s) /\ body[s].outcome = "success"
    PROVE  ExecutorIInv'
  <1>1. UNCHANGED <<requestOf, waiters, active, tool, body, entries>> BY DEF KeepLimiter
  <1>2. call'[r] = me /\ \A s \in Requests \ {r} : call'[s] = call[s]
    BY DEF ExecutorIInv, ExecutorTypeOK
  <1>3. ExecutorTypeOK' BY <1>1 DEF ExecutorIInv, ExecutorTypeOK
  <1>4. SlotsAccounted' BY <1>1 DEF ExecutorIInv, SlotsAccounted
  <1>5. Runs' BY <1>1, <1>2 DEF ExecutorIInv, Runs, Key
  <1>6. Joined' BY <1>1, <1>2 DEF ExecutorIInv, Joined, Key, SameRequest
  <1>7. Produced' BY <1>1, <1>2 DEF ExecutorIInv, Produced, SameRequest
  <1> QED BY <1>1, <1>3, <1>4, <1>5, <1>6, <1>7 DEF ExecutorIInv

LEMMA EndPreserves ==
    ASSUME ExecutorIInv, NEW r \in Requests, NEW outcome \in CallOutcome \ {"none"}, CallEnds(r, outcome),
           UNCHANGED <<body, entries>>, KeepLimiter,
           body[r].pc # "none" => outcome \in {"success", "error", "cancelled"},
           outcome = "success" => \E s \in Requests : SameRequest(r, s) /\ body[s].outcome = "success"
    PROVE  ExecutorIInv'
  <1> DEFINE me == [call[r] EXCEPT !.pc = "end", !.outcome = outcome]
  <1>1. call[r] \in Caller /\ Key(r) \in RequestKeys BY KeyType
  <1>2. me \in Caller /\ me.pc = "end" /\ me.outcome = outcome BY <1>1 DEF Caller
  <1>3. call' = [call EXCEPT ![r] = me] BY DEF CallEnds
  <1>4. operations' \in [RequestKeys -> Requests \cup {Nobody}]
    BY <1>1 DEF CallEnds, ExecutorIInv, ExecutorTypeOK
  <1> HIDE DEF me
  <1> QED BY <1>2, <1>3, <1>4, CallerPreserves

LEMMA JoinPreserves ==
    ASSUME ExecutorIInv, NEW r \in Requests, call[r].pc \in {"idle", "policy"}, NEW owner \in Requests,
           NEW pc, Joins(r, owner, pc), UNCHANGED <<body, entries>>, KeepLimiter,
           pc = "joinOperation" \/ (pc \in {"joinLedger", "ledger"} /\ owner = entries[Key(r)])
    PROVE  ExecutorIInv'
  <1>1. call[r] \in Caller /\ body[r].pc = "none" BY KeyType
  <1>2. CASE ~SameRequest(r, owner)
    <2>1. CallEnds(r, "conflict") BY <1>2 DEF Joins
    <2> QED BY <1>1, <2>1, EndPreserves DEF CallOutcome
  <1>3. CASE SameRequest(r, owner)
    <2> DEFINE me == [call[r] EXCEPT !.pc = pc]
    <2>1. call' = [call EXCEPT ![r] = me] /\ operations' = operations BY <1>3 DEF Joins
    <2>2. me \in Caller /\ me.pc = pc /\ me.outcome = call[r].outcome BY <1>1 DEF Caller
    <2>3. me.outcome = "none" BY <2>2 DEF ExecutorIInv, Runs
    <2>4. operations' \in [RequestKeys -> Requests \cup {Nobody}]
      BY <2>1 DEF ExecutorIInv, ExecutorTypeOK
    <2>5. owner # Nobody BY ExecutorAssumption
    <2> HIDE DEF me
    <2> QED BY <1>1, <1>3, <2>1, <2>2, <2>3, <2>4, <2>5, CallerPreserves
  <1> QED BY <1>2, <1>3

LEMMA ExecuteDetailedPreserves ==
    ASSUME ExecutorIInv, NEW r \in Requests, ExecuteDetailed(r)
    PROVE  ExecutorIInv'
  <1>1. call[r].pc = "idle" /\ UNCHANGED <<body, entries>> /\ KeepLimiter BY DEF ExecuteDetailed
  <1>2. /\ Key(r) \in RequestKeys /\ call[r] \in Caller /\ body[r].pc = "none"
        /\ entries[Key(r)] \in Requests \cup {Nobody} /\ operations[Key(r)] \in Requests \cup {Nobody}
    BY <1>1, KeyType
  <1>3. CASE entries[Key(r)] # Nobody /\ Joins(r, entries[Key(r)], "joinLedger")
    BY <1>1, <1>2, <1>3, JoinPreserves
  <1>4. CASE operations[Key(r)] # Nobody /\ Joins(r, operations[Key(r)], "joinOperation")
    BY <1>1, <1>2, <1>4, JoinPreserves
  <1>5. CASE /\ call' = [call EXCEPT ![r].pc = "policy"]
             /\ operations' = operations \/ operations' = [operations EXCEPT ![Key(r)] = r]
    <2> DEFINE me == [call[r] EXCEPT !.pc = "policy"]
    <2>1. call' = [call EXCEPT ![r] = me] BY <1>5
    <2>2. me \in Caller /\ me.pc = "policy" /\ me.outcome = call[r].outcome BY <1>2 DEF Caller
    <2>3. me.outcome = "none" BY <1>1, <2>2 DEF ExecutorIInv, Runs
    <2>4. operations' \in [RequestKeys -> Requests \cup {Nobody}]
      BY <1>5 DEF ExecutorIInv, ExecutorTypeOK
    <2> HIDE DEF me
    <2> QED BY <1>1, <1>2, <2>1, <2>2, <2>3, <2>4, CallerPreserves
  <1> QED BY <1>3, <1>4, <1>5 DEF ExecuteDetailed

LEMMA EndingPreserves ==
    ASSUME ExecutorIInv, NEW r \in Requests, ExecuteMalformed(r) \/ PolicyRefuses(r) \/ CallerLeaves(r)
    PROVE  ExecutorIInv'
  <1>1. CASE ExecuteMalformed(r)
    BY <1>1, KeyType, EndPreserves DEF ExecuteMalformed, CallOutcome
  <1>2. CASE PolicyRefuses(r)
    <2>1. PICK outcome \in {"denied", "invalid", "approval_required"} : CallEnds(r, outcome)
      BY <1>2 DEF PolicyRefuses
    <2>2. body[r].pc = "none" /\ UNCHANGED <<body, entries>> /\ KeepLimiter
      BY <1>2, KeyType DEF PolicyRefuses
    <2> QED BY <2>1, <2>2, EndPreserves DEF CallOutcome
  <1>3. CASE CallerLeaves(r) BY <1>3, EndPreserves DEF CallerLeaves, CallOutcome
  <1> QED BY <1>1, <1>2, <1>3

LEMMA AnswersPreserve ==
    ASSUME ExecutorIInv, NEW r \in Requests, LedgerAnswers(r) \/ OperationAnswers(r)
    PROVE  ExecutorIInv'
  <1>1. CASE LedgerAnswers(r)
    <2>1. entries[Key(r)] \in Requests /\ SameRequest(r, entries[Key(r)])
      BY <1>1, KeyType DEF LedgerAnswers, ExecutorIInv, Joined
    <2>2. PICK s \in Requests : s = entries[Key(r)] BY <2>1
    <2>3. body[s].outcome \in {"success", "error", "cancelled"} /\ CallEnds(r, body[s].outcome)
      BY <1>1, <2>2, KeyType DEF LedgerAnswers, ExecutorIInv, Runs, Body
    <2>4. UNCHANGED <<body, entries>> /\ KeepLimiter BY <1>1 DEF LedgerAnswers
    <2> QED BY <2>1, <2>2, <2>3, <2>4, EndPreserves DEF CallOutcome
  <1>2. CASE OperationAnswers(r)
    <2>1. PICK s \in SharedWith(r) : call[s].pc = "end" /\ CallEnds(r, call[s].outcome)
      BY <1>2 DEF OperationAnswers
    <2>2. body[r].pc = "none" /\ UNCHANGED <<body, entries>> /\ KeepLimiter
      BY <1>2, KeyType DEF OperationAnswers
    <2>3. s \in Requests /\ SameRequest(r, s) BY DEF SharedWith
    <2>4. call[s].outcome \in CallOutcome \ {"none"}
      BY <2>1, <2>3, KeyType DEF Caller, ExecutorIInv, Runs
    <2>5. call[s].outcome = "success" => \E t \in Requests : SameRequest(r, t) /\ body[t].outcome = "success"
      BY <2>3 DEF ExecutorIInv, Produced, SameRequest
    <2> QED BY <2>1, <2>2, <2>4, <2>5, EndPreserves
  <1> QED BY <1>1, <1>2

------------------------------------------------
\* The bodies and the limiter.

Running == {r \in Requests : tool[r] = "running"}
LEMMA RunningFinite == IsFiniteSet(Running) /\ Cardinality(Running) \in Nat
  BY ExecutorAssumption, FS_Subset, FS_CardinalityType DEF Running

LEMMA EntryPreserves ==
    ASSUME ExecutorIInv, NEW r \in Requests, NEW me \in Caller, call[r].pc = "policy",
           CreatesEntry(r), KeepLimiter, call' = [call EXCEPT ![r] = me],
           operations' \in [RequestKeys -> Requests \cup {Nobody}],
           \/ me.pc = "ledger" /\ me.outcome = "none"
           \/ me.pc = "end" /\ me.outcome = "cancelled"
    PROVE  ExecutorIInv'
  <1>0. /\ Key(r) \in RequestKeys /\ body[r].pc = "none" /\ body[r] \in Body
        /\ entries' = [entries EXCEPT ![Key(r)] = r] /\ body' = [body EXCEPT ![r].pc = "start"]
        /\ entries[Key(r)] = Nobody
    BY KeyType DEF CreatesEntry
  <1>1. UNCHANGED <<requestOf, waiters, active, tool>> BY DEF KeepLimiter
  <1>2. ExecutorTypeOK /\ Runs /\ r # Nobody BY ExecutorAssumption DEF ExecutorIInv
  <1>3. /\ call'[r] = me /\ \A s \in Requests \ {r} : call'[s] = call[s]
        /\ body'[r] = [body[r] EXCEPT !.pc = "start"] /\ \A s \in Requests \ {r} : body'[s] = body[s]
    BY <1>0, <1>2 DEF ExecutorTypeOK
  <1>4. /\ body'[r] \in Body /\ body'[r].pc = "start" /\ body'[r].outcome = body[r].outcome
    BY <1>0, <1>3 DEF Body
  <1>5. /\ entries'[Key(r)] = r /\ \A s \in Requests : Key(s) # Key(r) => entries'[Key(s)] = entries[Key(s)]
    BY <1>0, <1>2, KeyType DEF ExecutorTypeOK
  <1>6. \A s \in Requests \ {r} : Key(s) = Key(r) => body[s].pc = "none" /\ tool[s] = "none"
    BY <1>0, <1>2, ExecutorAssumption DEF Runs, ExecutorTypeOK
  <1>7. tool[r] = "none" /\ body[r].outcome # "success" BY <1>0, <1>2 DEF Runs, ExecutorTypeOK
  <1>8. ExecutorTypeOK'
    <2>1. call' \in [Requests -> Caller] /\ body' \in [Requests -> Body]
      BY <1>0, <1>2, <1>3, <1>4 DEF ExecutorTypeOK
    <2>2. entries' \in [RequestKeys -> Requests \cup {Nobody}] BY <1>0, <1>2 DEF ExecutorTypeOK
    <2> QED BY <1>1, <1>2, <2>1, <2>2 DEF ExecutorTypeOK
  <1>9. SlotsAccounted'
    <2>1. \A s \in Requests : body'[s].pc = "wait" <=> body[s].pc = "wait"
      <3> TAKE s \in Requests
      <3>1. CASE s = r BY <1>0, <1>4, <3>1
      <3>2. CASE s # r BY <1>3, <3>2
      <3> QED BY <3>1, <3>2
    <2>2. {s \in Requests : body'[s].pc = "wait"} = {s \in Requests : body[s].pc = "wait"} BY <2>1
    <2> QED BY <1>1, <2>2 DEF ExecutorIInv, SlotsAccounted
  <1>10. Runs'
    <2> SUFFICES ASSUME NEW s \in Requests
                 PROVE  /\ body'[s].pc # "none" =>
                             /\ entries'[Key(s)] = s /\ call'[s].pc \in {"ledger", "end"}
                             /\ call'[s].outcome \in {"none", "success", "error", "cancelled"}
                        /\ tool[s] # "none" => body'[s].pc \in {"invoke", "end"}
                        /\ body'[s].pc = "end" => body'[s].outcome # "none"
                        /\ body'[s].outcome = "success" => body'[s].pc = "end"
                        /\ call'[s].pc # "end" <=> call'[s].outcome = "none"
      BY <1>1 DEF Runs, Key
    <2>1. CASE s = r BY <1>3, <1>4, <1>5, <1>7, <2>1
    <2>2. CASE s # r BY <1>2, <1>3, <1>5, <1>6, <2>2 DEF Runs
    <2> QED BY <2>1, <2>2
  <1>11. Joined'
    <2> SUFFICES ASSUME NEW s \in Requests, call'[s].pc \in {"joinLedger", "ledger"}
                 PROVE  entries'[Key(s)] # Nobody /\ SameRequest(s, entries'[Key(s)])
      BY <1>1 DEF Joined, Key, SameRequest
    <2>1. CASE s = r BY <1>2, <1>5, <2>1 DEF SameRequest
    <2>2. CASE s # r
      <3>1. entries[Key(s)] # Nobody /\ SameRequest(s, entries[Key(s)])
        BY <1>3, <2>2 DEF ExecutorIInv, Joined
      <3> QED BY <1>0, <1>5, <3>1
    <2> QED BY <2>1, <2>2
  <1>12. Produced'
    <2>1. \A s \in Requests : /\ body'[s].outcome = body[s].outcome
                              /\ call'[s].outcome = "success" => call[s].outcome = "success"
      BY <1>3, <1>4
    <2> QED BY <1>1, <2>1 DEF ExecutorIInv, Produced, SameRequest
  <1> QED BY <1>1, <1>8, <1>9, <1>10, <1>11, <1>12 DEF ExecutorIInv

LEMMA PolicyAllowsPreserves ==
    ASSUME ExecutorIInv, NEW r \in Requests, PolicyAllows(r) \/ ClaimedLate(r)
    PROVE  ExecutorIInv'
  <1>1. call[r].pc = "policy" /\ KeepLimiter BY DEF PolicyAllows, ClaimedLate
  <1>2. /\ Key(r) \in RequestKeys /\ call[r] \in Caller /\ call[r].outcome = "none"
        /\ entries[Key(r)] \in Requests \cup {Nobody}
    BY <1>1, KeyType DEF ExecutorIInv, Runs
  <1>3. CASE entries[Key(r)] # Nobody /\ Joins(r, entries[Key(r)], "ledger") /\ UNCHANGED <<body, entries>>
    BY <1>1, <1>2, <1>3, JoinPreserves
  <1>4. CASE CreatesEntry(r) /\ call' = [call EXCEPT ![r].pc = "ledger"] /\ UNCHANGED operations
    <2> DEFINE me == [call[r] EXCEPT !.pc = "ledger"]
    <2>1. call' = [call EXCEPT ![r] = me] BY <1>4
    <2>2. me \in Caller /\ me.pc = "ledger" /\ me.outcome = "none" BY <1>2 DEF Caller
    <2>3. operations' \in [RequestKeys -> Requests \cup {Nobody}] BY <1>4 DEF ExecutorIInv, ExecutorTypeOK
    <2> HIDE DEF me
    <2> QED BY <1>1, <1>4, <2>1, <2>2, <2>3, EntryPreserves
  <1>5. CASE CreatesEntry(r) /\ CallEnds(r, "cancelled")
    <2> DEFINE me == [call[r] EXCEPT !.pc = "end", !.outcome = "cancelled"]
    <2>1. call' = [call EXCEPT ![r] = me] BY <1>5 DEF CallEnds
    <2>2. me \in Caller /\ me.pc = "end" /\ me.outcome = "cancelled" BY <1>2 DEF Caller, CallOutcome
    <2>3. operations' \in [RequestKeys -> Requests \cup {Nobody}]
      BY <1>2, <1>5 DEF CallEnds, ExecutorIInv, ExecutorTypeOK
    <2> HIDE DEF me
    <2> QED BY <1>1, <1>5, <2>1, <2>2, <2>3, EntryPreserves
  <1> QED BY <1>3, <1>4, <1>5 DEF PolicyAllows, ClaimedLate

\* Only bodies, invocations and the limiter change.
LEMMA BodyFrame ==
    ASSUME ExecutorIInv, UNCHANGED <<requestOf, entries, operations>>,
           call' \in [Requests -> Caller],
           \A s \in Requests : call'[s].pc = call[s].pc /\ call'[s].outcome = call[s].outcome,
           ExecutorTypeOK', SlotsAccounted',
           \A s \in Requests : /\ body'[s].pc # "none" => body[s].pc # "none"
                               /\ tool'[s] # "none" => body'[s].pc \in {"invoke", "end"}
                               /\ body'[s].pc = "end" => body'[s].outcome # "none"
                               /\ body'[s].outcome = "success" => body'[s].pc = "end"
                               /\ body[s].outcome = "success" => body'[s].outcome = "success"
    PROVE  ExecutorIInv'
  <1>1. Runs' BY DEF ExecutorIInv, Runs, Key
  <1>2. Joined' BY DEF ExecutorIInv, Joined, Key, SameRequest
  <1>3. Produced' BY DEF ExecutorIInv, Produced, SameRequest
  <1> QED BY <1>1, <1>2, <1>3 DEF ExecutorIInv

\* The body of r changes and no one else's.
LEMMA OneBody ==
    ASSUME ExecutorIInv, NEW r \in Requests, NEW me \in Body, body' = [body EXCEPT ![r] = me]
    PROVE  /\ body' \in [Requests -> Body] /\ body'[r] = me /\ \A s \in Requests \ {r} : body'[s] = body[s]
           /\ {s \in Requests : body'[s].pc = "wait"} =
                IF me.pc = "wait" THEN {s \in Requests : body[s].pc = "wait"} \cup {r}
                ELSE {s \in Requests : body[s].pc = "wait"} \ {r}
  BY DEF ExecutorIInv, ExecutorTypeOK

LEMMA BodyLeavesPreserves ==
    ASSUME ExecutorIInv, NEW r \in Requests, BodyLeaves(r)
    PROVE  ExecutorIInv'
  <1> DEFINE me == [pc |-> "end", outcome |-> "cancelled"]
  <1>1. /\ body[r].pc = "invoke" /\ body' = [body EXCEPT ![r] = me]
        /\ UNCHANGED <<call, requestOf, entries, operations, waiters, active, tool>>
    BY DEF BodyLeaves, KeepLimiter
  <1>2. me \in Body /\ me.pc = "end" /\ me.outcome = "cancelled" BY DEF Body
  <1> HIDE DEF me
  <1>3. /\ body' \in [Requests -> Body] /\ body'[r] = me /\ \A s \in Requests \ {r} : body'[s] = body[s]
        /\ {s \in Requests : body'[s].pc = "wait"} = {s \in Requests : body[s].pc = "wait"}
    BY <1>1, <1>2, OneBody
  <1>4. ExecutorTypeOK' BY <1>1, <1>3 DEF ExecutorIInv, ExecutorTypeOK
  <1>5. SlotsAccounted' BY <1>1, <1>3 DEF ExecutorIInv, SlotsAccounted
  <1>6. body[r].outcome # "success" BY <1>1 DEF ExecutorIInv, Runs
  <1>7. \A s \in Requests : /\ body'[s].pc # "none" => body[s].pc # "none"
                            /\ tool'[s] # "none" => body'[s].pc \in {"invoke", "end"}
                            /\ body'[s].pc = "end" => body'[s].outcome # "none"
                            /\ body'[s].outcome = "success" => body'[s].pc = "end"
                            /\ body[s].outcome = "success" => body'[s].outcome = "success"
    BY <1>1, <1>2, <1>3, <1>6 DEF ExecutorIInv, Runs
  <1>8. call' \in [Requests -> Caller] BY <1>1 DEF ExecutorIInv, ExecutorTypeOK
  <1> QED BY <1>1, <1>4, <1>5, <1>7, <1>8, BodyFrame

LEMMA BodyStartsPreserves ==
    ASSUME ExecutorIInv, NEW r \in Requests, BodyStarts(r)
    PROVE  ExecutorIInv'
  <1>1. body[r].pc = "start" /\ UNCHANGED <<requestOf, call, entries, operations>> BY DEF BodyStarts
  <1>2. ExecutorTypeOK /\ SlotsAccounted /\ body[r] \in Body BY KeyType DEF ExecutorIInv
  <1>3. tool[r] = "none" /\ body[r].outcome # "success" BY <1>1, <1>2 DEF ExecutorIInv, Runs, ExecutorTypeOK
  <1>4. call' \in [Requests -> Caller] BY <1>1, <1>2 DEF ExecutorTypeOK
  <1>5. ASSUME NEW me \in Body, body' = [body EXCEPT ![r] = me], me.pc # "none",
               tool' = tool \/ (tool' = [tool EXCEPT ![r] = "running"] /\ me.pc = "invoke"),
               me.pc = "end" => me.outcome # "none", me.outcome # "success",
               ExecutorTypeOK', SlotsAccounted'
        PROVE  ExecutorIInv'
    <2>1. body'[r] = me /\ \A s \in Requests \ {r} : body'[s] = body[s] BY <1>5, OneBody
    <2>2. \A s \in Requests \ {r} : tool'[s] = tool[s] BY <1>2, <1>5 DEF ExecutorTypeOK
    <2>3. tool'[r] # "none" => me.pc = "invoke" BY <1>3, <1>5
    <2>4. \A s \in Requests : /\ body'[s].pc # "none" => body[s].pc # "none"
                              /\ tool'[s] # "none" => body'[s].pc \in {"invoke", "end"}
                              /\ body'[s].pc = "end" => body'[s].outcome # "none"
                              /\ body'[s].outcome = "success" => body'[s].pc = "end"
                              /\ body[s].outcome = "success" => body'[s].outcome = "success"
      <3> TAKE s \in Requests
      <3>1. CASE s = r BY <1>1, <1>3, <1>5, <2>1, <2>3, <3>1
      <3>2. CASE s # r BY <2>1, <2>2, <3>2 DEF ExecutorIInv, Runs
      <3> QED BY <3>1, <3>2
    <2> QED BY <1>1, <1>4, <1>5, <2>4, BodyFrame
  <1>6. ASSUME NEW outcome \in {"error", "cancelled"}, KeepLimiter,
               body' = [body EXCEPT ![r].pc = "end", ![r].outcome = outcome]
        PROVE  ExecutorIInv'
    <2> DEFINE me == [body[r] EXCEPT !.pc = "end", !.outcome = outcome]
    <2>1. body' = [body EXCEPT ![r] = me] BY <1>6
    <2>2. me \in Body /\ me.pc = "end" /\ me.outcome = outcome BY <1>2 DEF Body
    <2> HIDE DEF me
    <2>3. UNCHANGED <<waiters, active, tool>> BY <1>6 DEF KeepLimiter
    <2>4. /\ body' \in [Requests -> Body]
          /\ {s \in Requests : body'[s].pc = "wait"} = {s \in Requests : body[s].pc = "wait"}
      BY <1>1, <2>1, <2>2, OneBody
    <2>5. ExecutorTypeOK' BY <1>1, <1>2, <2>3, <2>4 DEF ExecutorTypeOK
    <2>6. SlotsAccounted' BY <1>2, <2>3, <2>4 DEF SlotsAccounted
    <2> QED BY <1>5, <2>1, <2>2, <2>3, <2>5, <2>6
  <1>7. CASE /\ active < MaxConcurrency /\ active' = active + 1 /\ body' = [body EXCEPT ![r].pc = "invoke"]
             /\ tool' = [tool EXCEPT ![r] = "running"] /\ UNCHANGED waiters
    <2> DEFINE me == [body[r] EXCEPT !.pc = "invoke"]
    <2>1. body' = [body EXCEPT ![r] = me] BY <1>7
    <2>2. me \in Body /\ me.pc = "invoke" /\ me.outcome = body[r].outcome BY <1>2 DEF Body
    <2> HIDE DEF me
    <2>3. /\ body' \in [Requests -> Body]
          /\ {s \in Requests : body'[s].pc = "wait"} = {s \in Requests : body[s].pc = "wait"}
      BY <1>1, <2>1, <2>2, OneBody
    <2>4. tool' \in [Requests -> {"none", "running", "ended"}] /\ Running' = Running \cup {r} /\ r \notin Running
      BY <1>2, <1>3, <1>7 DEF ExecutorTypeOK, Running
    <2>5. Cardinality(Running') = Cardinality(Running) + 1 /\ Cardinality(Running) = active
      BY <1>2, <2>4, RunningFinite, FS_AddElement DEF SlotsAccounted, Running
    <2>6. ExecutorTypeOK' BY <1>1, <1>2, <1>7, <2>3, <2>4 DEF ExecutorTypeOK
    <2>7. active' <= MaxConcurrency /\ waiters = <<>>
      <3>1. active \in Int /\ MaxConcurrency \in Int /\ active # MaxConcurrency
        BY <1>2, <1>7, ExecutorAssumption DEF ExecutorTypeOK
      <3> QED BY <1>2, <1>7, <3>1 DEF SlotsAccounted
    <2>8. SlotsAccounted' BY <1>2, <1>7, <2>3, <2>5, <2>7 DEF SlotsAccounted, Running
    <2> QED BY <1>3, <1>5, <1>7, <2>1, <2>2, <2>6, <2>8
  <1>8. CASE /\ active >= MaxConcurrency /\ waiters' = Append(waiters, r)
             /\ body' = [body EXCEPT ![r].pc = "wait"] /\ UNCHANGED <<active, tool>>
    <2> DEFINE me == [body[r] EXCEPT !.pc = "wait"]
    <2>1. body' = [body EXCEPT ![r] = me] BY <1>8
    <2>2. me \in Body /\ me.pc = "wait" /\ me.outcome = body[r].outcome BY <1>2 DEF Body
    <2> HIDE DEF me
    <2>3. /\ body' \in [Requests -> Body]
          /\ {s \in Requests : body'[s].pc = "wait"} = {s \in Requests : body[s].pc = "wait"} \cup {r}
      BY <1>1, <2>1, <2>2, OneBody
    <2>4. r \notin ToSet(waiters) BY <1>1, <1>2 DEF SlotsAccounted
    <2>5. waiters' \in Seq(Requests) /\ IsInjective(waiters') /\ ToSet(waiters') = ToSet(waiters) \cup {r}
      BY <1>2, <1>8, <2>4, Queued DEF ExecutorTypeOK, SlotsAccounted
    <2>6. ExecutorTypeOK' BY <1>1, <1>2, <1>8, <2>3, <2>5 DEF ExecutorTypeOK
    <2>7. active = MaxConcurrency
      BY <1>2, <1>8, ExecutorAssumption DEF ExecutorTypeOK, SlotsAccounted
    <2>8. SlotsAccounted' BY <1>2, <1>8, <2>3, <2>5, <2>7 DEF SlotsAccounted
    <2> QED BY <1>3, <1>5, <1>8, <2>1, <2>2, <2>6, <2>8
  <1> QED BY <1>6, <1>7, <1>8 DEF BodyStarts

LEMMA AbortCallPreserves ==
    ASSUME ExecutorIInv, NEW r \in Requests, AbortCall(r)
    PROVE  ExecutorIInv'
  <1>1. /\ call' = [call EXCEPT ![r].aborted = TRUE] /\ waiters' = WithoutWaiter(r)
        /\ UNCHANGED <<requestOf, entries, operations, active, tool>>
    BY DEF AbortCall
  <1>2. ExecutorTypeOK /\ SlotsAccounted /\ body[r] \in Body /\ call[r] \in Caller BY KeyType DEF ExecutorIInv
  <1> DEFINE caller == [call[r] EXCEPT !.aborted = TRUE]
             me == IF body[r].pc = "wait" THEN [pc |-> "end", outcome |-> "cancelled"] ELSE body[r]
  <1>3. call' = [call EXCEPT ![r] = caller] BY <1>1
  <1>4. caller \in Caller /\ caller.pc = call[r].pc /\ caller.outcome = call[r].outcome BY <1>2 DEF Caller
  <1> HIDE DEF caller
  <1>5. /\ call' \in [Requests -> Caller]
        /\ \A s \in Requests : call'[s].pc = call[s].pc /\ call'[s].outcome = call[s].outcome
    BY <1>2, <1>3, <1>4 DEF ExecutorTypeOK
  <1>6. body' = [body EXCEPT ![r] = me] BY <1>2 DEF AbortCall, ExecutorTypeOK
  <1>7. /\ me \in Body /\ me.pc # "wait"
        /\ body[r].pc = "wait" => me.pc = "end" /\ me.outcome = "cancelled"
        /\ body[r].pc # "wait" => me = body[r]
    BY <1>2 DEF Body
  <1> HIDE DEF me
  <1>8. /\ body' \in [Requests -> Body] /\ body'[r] = me /\ \A s \in Requests \ {r} : body'[s] = body[s]
        /\ {s \in Requests : body'[s].pc = "wait"} = {s \in Requests : body[s].pc = "wait"} \ {r}
    BY <1>6, <1>7, OneBody
  <1>9. /\ waiters' \in Seq(Requests) /\ IsInjective(waiters') /\ ToSet(waiters') = ToSet(waiters) \ {r}
        /\ waiters = <<>> => waiters' = <<>>
    BY <1>1, <1>2, QueueLeft DEF SlotsAccounted
  <1>10. ExecutorTypeOK' BY <1>1, <1>2, <1>5, <1>8, <1>9 DEF ExecutorTypeOK
  <1>11. SlotsAccounted' BY <1>1, <1>2, <1>8, <1>9 DEF SlotsAccounted
  <1>12. \A s \in Requests : /\ body'[s].pc # "none" => body[s].pc # "none"
                             /\ tool'[s] # "none" => body'[s].pc \in {"invoke", "end"}
                             /\ body'[s].pc = "end" => body'[s].outcome # "none"
                             /\ body'[s].outcome = "success" => body'[s].pc = "end"
                             /\ body[s].outcome = "success" => body'[s].outcome = "success"
    <2> TAKE s \in Requests
    <2>1. /\ tool[s] # "none" => body[s].pc \in {"invoke", "end"}
          /\ body[s].pc = "end" => body[s].outcome # "none"
          /\ body[s].outcome = "success" => body[s].pc = "end"
      BY DEF ExecutorIInv, Runs
    <2>2. CASE body'[s] = body[s] BY <1>1, <2>1, <2>2
    <2>3. CASE s = r /\ body[r].pc = "wait" BY <1>1, <1>7, <1>8, <2>1, <2>3
    <2> QED BY <1>7, <1>8, <2>2, <2>3
  <1> QED BY <1>1, <1>5, <1>10, <1>11, <1>12, BodyFrame

LEMMA ToolEndsPreserves ==
    ASSUME ExecutorIInv, NEW r \in Requests, ToolEnds(r)
    PROVE  ExecutorIInv'
  <1> DEFINE next == Started(waiters)
  <1>1. tool[r] = "running" /\ UNCHANGED <<requestOf, call, entries, operations>> BY DEF ToolEnds
  <1>2. ExecutorTypeOK /\ SlotsAccounted BY DEF ExecutorIInv
  <1>3. /\ active' = active - 1 + Cardinality(next)
        /\ waiters' = IF next = {} THEN waiters ELSE Tail(waiters)
        /\ tool' = [s \in Requests |-> IF s = r THEN "ended" ELSE IF s \in next THEN "running" ELSE tool[s]]
    BY DEF ToolEnds
  <1>4. PICK outcome \in {"success", "error"} :
           body' = [s \in Requests |->
              IF s = r /\ body[r].pc = "invoke" /\ ~call[r].aborted
              THEN [pc |-> "end", outcome |-> outcome]
              ELSE IF s \in next THEN [body[s] EXCEPT !.pc = "invoke"] ELSE body[s]]
    BY DEF ToolEnds, NormalizeOutput
  <1>5. /\ active \in Int /\ MaxConcurrency \in Int /\ active <= MaxConcurrency /\ waiters \in Seq(Requests)
        /\ active = Cardinality(Running)
    BY <1>2, ExecutorAssumption DEF ExecutorTypeOK, SlotsAccounted, Running
  <1>6. next = IF waiters = <<>> THEN {} ELSE {Head(waiters)} BY <1>5 DEF Started
  <1> HIDE DEF next
  <1>7. \A s \in next : s \in Requests /\ s \in ToSet(waiters) /\ body[s].pc = "wait" /\ tool[s] = "none" /\ s # r
    <2> SUFFICES ASSUME waiters # <<>>
                 PROVE  LET h == Head(waiters) IN
                        /\ h \in Requests /\ h \in ToSet(waiters) /\ body[h].pc = "wait" /\ tool[h] = "none" /\ h # r
      BY <1>6
    <2>1. Head(waiters) \in Requests /\ Head(waiters) \in ToSet(waiters)
      BY <1>2, <1>5, Shifted DEF SlotsAccounted
    <2>2. body[Head(waiters)].pc = "wait" BY <1>2, <2>1 DEF SlotsAccounted
    <2>3. tool[Head(waiters)] = "none" BY <2>1, <2>2 DEF ExecutorIInv, Runs
    <2> QED BY <1>1, <2>1, <2>2, <2>3
  <1>8. body[r].pc \in {"invoke", "end"} BY <1>1 DEF ExecutorIInv, Runs
  <1>9. /\ waiters' \in Seq(Requests) /\ IsInjective(waiters') /\ ToSet(waiters') = ToSet(waiters) \ next
        /\ waiters = <<>> => waiters' = <<>>
    <2>1. CASE waiters = <<>>
      <3>1. next = {} /\ waiters' = waiters BY <1>3, <1>6, <2>1
      <3> QED BY <1>2, <1>5, <2>1, <3>1 DEF SlotsAccounted
    <2>2. CASE waiters # <<>>
      <3>1. next = {Head(waiters)} /\ waiters' = Tail(waiters) BY <1>3, <1>6, <2>2
      <3> QED BY <1>2, <1>5, <2>2, <3>1, Shifted DEF SlotsAccounted
    <2> QED BY <2>1, <2>2
  <1>10. tool' \in [Requests -> {"none", "running", "ended"}] BY <1>2, <1>3 DEF ExecutorTypeOK
  <1>11. Running' = (Running \ {r}) \cup next
    BY <1>3, <1>7 DEF Running
  <1>12. active' = Cardinality(Running') /\ active' \in Int /\ active' <= MaxConcurrency
         /\ (waiters # <<>> => active' = active)
    <2>1. r \in Running /\ r \in Requests BY <1>1 DEF Running
    <2>2. IsFiniteSet(Running \ {r}) /\ Cardinality(Running \ {r}) = active - 1
      BY <1>5, <2>1, RunningFinite, FS_RemoveElement
    <2>3. CASE waiters = <<>>
      <3>1. next = {} /\ Cardinality(next) = 0 BY <1>6, <2>3, FS_EmptySet
      <3>2. Running' = Running \ {r} BY <1>11, <3>1
      <3> QED BY <1>3, <1>5, <2>2, <2>3, <3>1, <3>2
    <2>4. CASE waiters # <<>>
      <3> DEFINE h == Head(waiters)
      <3>1. next = {h} /\ Cardinality(next) = 1 BY <1>6, <2>4, FS_Singleton
      <3>2. h \notin Running \ {r} BY <1>7, <3>1 DEF Running
      <3> HIDE DEF h
      <3>3. Running' = (Running \ {r}) \cup {h} BY <1>11, <3>1
      <3>4. Cardinality((Running \ {r}) \cup {h}) = Cardinality(Running \ {r}) + 1 BY <2>2, <3>2, FS_AddElement
      <3> QED BY <1>3, <1>5, <2>2, <3>1, <3>3, <3>4
    <2> QED BY <2>3, <2>4
  <1>13. \A s \in Requests :
           \/ s = r /\ body[r].pc = "invoke" /\ body'[s] = [pc |-> "end", outcome |-> outcome]
           \/ s \in next /\ body'[s] = [body[s] EXCEPT !.pc = "invoke"]
           \/ s \notin next /\ body'[s] = body[s]
    BY <1>4, <1>7
  <1>14. \A s \in Requests :
           /\ body[s] \in Body /\ body'[s] \in Body
           /\ body'[s].pc = "wait" <=> body[s].pc = "wait" /\ s \notin next
           /\ body'[s].pc # "none" => body[s].pc # "none"
           /\ tool'[s] # "none" => body'[s].pc \in {"invoke", "end"}
           /\ body'[s].pc = "end" => body'[s].outcome # "none"
           /\ body'[s].outcome = "success" => body'[s].pc = "end"
           /\ body[s].outcome = "success" => body'[s].outcome = "success"
    <2> TAKE s \in Requests
    <2>1. /\ body[s] \in Body /\ (tool[s] # "none" => body[s].pc \in {"invoke", "end"})
          /\ body[s].pc = "end" => body[s].outcome # "none"
          /\ body[s].outcome = "success" => body[s].pc = "end"
      BY <1>2 DEF ExecutorIInv, Runs, ExecutorTypeOK
    <2>2. tool'[s] = IF s = r THEN "ended" ELSE IF s \in next THEN "running" ELSE tool[s] BY <1>3
    <2>3. CASE s = r /\ body[r].pc = "invoke" /\ body'[s] = [pc |-> "end", outcome |-> outcome]
      BY <1>7, <2>1, <2>2, <2>3 DEF Body
    <2>4. CASE s \in next /\ body'[s] = [body[s] EXCEPT !.pc = "invoke"]
      <3>1. body[s].pc = "wait" /\ s # r BY <1>7, <2>4
      <3>2. body'[s] \in Body /\ body'[s].pc = "invoke" /\ body'[s].outcome = body[s].outcome
        BY <2>1, <2>4 DEF Body
      <3> QED BY <2>1, <2>2, <2>4, <3>1, <3>2
    <2>5. CASE s \notin next /\ body'[s] = body[s] BY <1>8, <2>1, <2>2, <2>5
    <2> QED BY <1>13, <2>3, <2>4, <2>5
  <1>15. body' \in [Requests -> Body] BY <1>4, <1>14
  <1>16. ExecutorTypeOK' BY <1>1, <1>2, <1>9, <1>10, <1>12, <1>15 DEF ExecutorTypeOK
  <1>17. SlotsAccounted'
    <2>1. {s \in Requests : body'[s].pc = "wait"} = {s \in Requests : body[s].pc = "wait"} \ next BY <1>14
    <2>2. ToSet(waiters) = {s \in Requests : body[s].pc = "wait"} BY <1>2 DEF SlotsAccounted
    <2>3. waiters' # <<>> => active' = MaxConcurrency BY <1>2, <1>9, <1>12 DEF SlotsAccounted
    <2> QED BY <1>9, <1>12, <2>1, <2>2, <2>3 DEF SlotsAccounted, Running
  <1>18. call' \in [Requests -> Caller] BY <1>1, <1>2 DEF ExecutorTypeOK
  <1> QED BY <1>1, <1>14, <1>16, <1>17, <1>18, BodyFrame

------------------------------------------------
LEMMA ExecutorInitially ==
    ASSUME ExecutorInit
    PROVE  ExecutorIInv
  <1>1. /\ requestOf \in Workloads /\ waiters = <<>> /\ active = 0
        /\ call = [r \in Requests |-> [pc |-> "idle", outcome |-> "none", aborted |-> FALSE]]
        /\ body = [r \in Requests |-> [pc |-> "none", outcome |-> "none"]]
        /\ tool = [r \in Requests |-> "none"] /\ entries = [k \in RequestKeys |-> Nobody]
        /\ operations = [k \in RequestKeys |-> Nobody]
    BY DEF ExecutorInit
  <1>2. ExecutorTypeOK
    <2>1. [pc |-> "idle", outcome |-> "none", aborted |-> FALSE] \in Caller BY DEF Caller, CallOutcome
    <2>2. [pc |-> "none", outcome |-> "none"] \in Body BY DEF Body
    <2> QED BY <1>1, <2>1, <2>2 DEF ExecutorTypeOK
  <1>3. SlotsAccounted
    <2>1. {r \in Requests : tool[r] = "running"} = {} /\ {r \in Requests : body[r].pc = "wait"} = {} BY <1>1
    <2>2. Cardinality({}) = 0 BY FS_EmptySet
    <2>3. IsInjective(<<>>) /\ ToSet(<<>>) = {} BY DEF IsInjective, ToSet
    <2>4. active = Cardinality({r \in Requests : tool[r] = "running"})
      <3>1. Cardinality({r \in Requests : tool[r] = "running"}) = Cardinality({}) BY <2>1
      <3>2. active = 0 BY <1>1
      <3> QED BY <2>2, <3>1, <3>2
    <2>5. active <= MaxConcurrency
      <3>1. active = 0 BY <1>1
      <3> QED BY <3>1, ExecutorAssumption
    <2>6. waiters = <<>> BY <1>1
    <2> QED BY <2>1, <2>3, <2>4, <2>5, <2>6 DEF SlotsAccounted
  <1>4. Runs /\ Joined /\ Produced BY <1>1 DEF Runs, Joined, Produced
  <1> QED BY <1>1, <1>2, <1>3, <1>4 DEF ExecutorIInv

LEMMA ExecutorSteps ==
    ASSUME ExecutorIInv, [ExecutorNext]_executorVars
    PROVE  ExecutorIInv'
  <1>1. CASE UNCHANGED executorVars
    BY <1>1 DEF executorVars, ExecutorIInv, ExecutorTypeOK, SlotsAccounted, Runs, Joined, Produced, Key, SameRequest
  <1>2. ASSUME NEW r \in Requests,
               \/ ExecuteDetailed(r) \/ ExecuteMalformed(r) \/ PolicyRefuses(r)
               \/ PolicyAllows(r) \/ ClaimedLate(r) \/ ExecutorStep(r) \/ ToolEnds(r) \/ AbortCall(r)
        PROVE  ExecutorIInv'
    BY <1>2, ExecuteDetailedPreserves, EndingPreserves, PolicyAllowsPreserves, BodyStartsPreserves,
       BodyLeavesPreserves, AnswersPreserve, ToolEndsPreserves, AbortCallPreserves DEF ExecutorStep
  <1> QED BY <1>1, <1>2 DEF ExecutorNext

\* The inductive invariant: a body runs only for the request that its key's
\* ledger entry names, and who joined the entry asked for the same
\* (executeDetailed, executeAuthorized and the in-memory ledger).
THEOREM ExecutorInvariant == ExecutorSpec => []ExecutorIInv
  <1>1. ExecutorInit => ExecutorIInv BY ExecutorInitially
  <1>2. ExecutorIInv /\ [ExecutorNext]_executorVars => ExecutorIInv' BY ExecutorSteps
  <1> QED BY <1>1, <1>2, PTL DEF ExecutorSpec

LEMMA ExecutorFollows ==
    ASSUME ExecutorIInv
    PROVE  ExecutorSound
  <1>1. ExecutedOncePerKey
    <2> SUFFICES ASSUME NEW r \in Requests
                 PROVE  /\ tool[r] # "none" =>
                             /\ call[r].outcome \notin {"denied", "invalid", "conflict", "approval_required"}
                             /\ \A s \in Requests \ {r} : Key(s) = Key(r) => tool[s] = "none"
                        /\ call[r].outcome = "success" =>
                             \E s \in Requests : SameRequest(r, s) /\ body[s].outcome = "success"
      BY DEF ExecutedOncePerKey
    <2> QED BY DEF ExecutorIInv, Runs, Produced
  <1> QED BY <1>1 DEF ExecutorIInv, ExecutorSound

\* For any number of requests and keys and any maxConcurrency: the limiter
\* (acquire, releaseFunction, startNext) counts exactly the tools that run,
\* nobody waits beside a free slot, and a key is executed once whoever asks
\* again, joins, aborts or brings an approval (executeDetailed).
THEOREM ExecutorIsSound == ExecutorSpec => []ExecutorSound
  <1>1. ExecutorIInv => ExecutorSound BY ExecutorFollows
  <1> QED BY <1>1, ExecutorInvariant, PTL

------------------------------------------------
\* The loops.

Turn == [end : TurnEnd, calls : {1..n : n \in Nat}, discovered : BOOLEAN, results : SUBSET Nat,
         approval : SUBSET Nat, exhausted : Budget]
Loop == [pc : {"off", "check", "budget", "work", "approvals", "continue"} \cup (Budget \ {"none"}),
         turn : Nat, iterations : Nat, total : Nat, newly : Nat, pending : SUBSET Nat,
         results : SUBSET Nat, approvals : SUBSET Nat, status : LoopStatus, runs : Nat]
Progress == [iterations : Nat, total : Nat, given : BOOLEAN]

LoopTypeOK ==
    /\ turns \in Seq(Turn) /\ Len(turns) > 0
    /\ dispatched \in Seq(SUBSET Nat) /\ Len(dispatched) = Len(turns)
    /\ loop \in Loop /\ progress \in Progress

\* The calls that are durably discovered, and those given to the executor.
Recorded == CallsOf(Discovered)
Count == Cardinality(Recorded)
Given == UNION {{<<t, c>> : c \in dispatched[t]} : t \in DOMAIN turns}

\* What is durable: only discovered calls are given to the executor, within
\* the budget, and every turn but the newest has all its results.
DurableOK ==
    /\ IsFiniteSet(Recorded)
    /\ Cardinality(Given) <= MaxTotalToolCalls
    /\ \A t \in 1..Len(turns) :
          /\ dispatched[t] \subseteq turns[t].calls
          /\ dispatched[t] # {} => turns[t].discovered
          /\ turns[t].results \subseteq turns[t].calls
          /\ t < Len(turns) => turns[t].results = turns[t].calls

\* How a run l of the loop, with the progress p of the last one, agrees with
\* what is durable.
LoopFits(l, p) ==
    /\ l.pc # "off" => l.turn = Len(turns)
    /\ l.pc \in {"check", "work", "approvals", "continue"} => l.total = Count
    /\ l.pc = "budget" => l.total + l.newly = Count /\ turns[l.turn].discovered
    /\ l.pc = "work" =>
          /\ Count <= MaxTotalToolCalls /\ turns[l.turn].discovered
          /\ l.pending \cup l.results \subseteq turns[l.turn].calls
          /\ turns[l.turn].results \subseteq l.results
          /\ l.pending \cap turns[l.turn].results = {}
    /\ l.pc = "approvals" => turns[l.turn].results = l.results
    /\ l.pc = "continue" => turns[l.turn].results = turns[l.turn].calls
    /\ l.pc = "off" /\ l.status = "external_approval_required" => p.total = Count
    /\ l.pc = "off" /\ l.status = "none" => ~p.given

LoopIInv == LoopTypeOK /\ DurableOK /\ LoopFits(loop, progress) /\ stream = NoStream

\* The provider loop: what it has emitted is what its sequence number says,
\* it starts before it emits anything else, and it ends with its last event.
Kinds == {"started", "tool_call", "usage", "length"} \cup TurnEnd
Stream == [pc : {"iterate", "invoke", "stream", "tools", "finish", "cancelled", "thrown", "ended"},
           iteration : Nat, emitted : Seq(Kinds), sequence : Nat, ids : Seq(Nat), found : Nat,
           calls : Nat, ran : Nat, usages : Nat, final : {"none"} \cup TurnEnd]
Numbered(s) ==
    /\ Len(s.ids) = s.sequence /\ Len(s.emitted) = s.sequence
    /\ \A i \in 1..s.sequence : s.ids[i] = i - 1 /\ (s.emitted[i] = "started" <=> i = 1)
Terminal == {"stop", "length", "failed", "cancelled"}
StreamFits(s) ==
    /\ s.pc # "ended" => \A i \in 1..s.sequence : s.emitted[i] \notin Terminal
    /\ s.pc = "ended" => \A i \in 1..s.sequence : s.emitted[i] \in Terminal <=> i = s.sequence
    /\ s.sequence = 0 => s.iteration = 0 /\ s.pc \in {"iterate", "invoke", "cancelled", "thrown"}
    /\ s.pc = "iterate" /\ s.iteration > 0 => s.final = "tool_calls"
    /\ s.pc = "tools" => s.final = "tool_calls"
    /\ s.pc = "finish" => s.final # "none"
    /\ s.ran <= s.calls /\ s.ran <= MaxTotalToolCalls
StreamIInv ==
    /\ stream \in Stream /\ Numbered(stream) /\ StreamFits(stream)
    /\ turns = <<NewTurn("stop", 0)>> /\ dispatched = <<{}>> /\ loop = NoLoop

------------------------------------------------
LEMMA TurnsByPlace ==
    ASSUME LoopTypeOK
    PROVE  /\ Len(turns) \in Nat \ {0} /\ DOMAIN turns = 1..Len(turns) /\ DOMAIN dispatched = 1..Len(turns)
           /\ \A t \in 1..Len(turns) : turns[t] \in Turn /\ dispatched[t] \in SUBSET Nat
  <1>1. /\ turns \in Seq(Turn) /\ Len(turns) > 0
        /\ dispatched \in Seq(SUBSET Nat) /\ Len(dispatched) = Len(turns)
    BY DEF LoopTypeOK
  <1>2. Len(turns) \in Nat /\ DOMAIN turns = 1..Len(turns) /\ DOMAIN dispatched = 1..Len(dispatched)
    BY <1>1, LenProperties
  <1> QED BY <1>1, <1>2, ElementOfSeq

\* As many pairs with one turn as calls of it.
LEMMA TaggedCount ==
    ASSUME NEW t, NEW n \in Nat
    PROVE  /\ IsFiniteSet({<<t, c>> : c \in 1..n})
           /\ Cardinality({<<t, c>> : c \in 1..n}) = Cardinality(1..n)
  <1> DEFINE pairs == {<<t, c>> : c \in 1..n}
             f == [c \in 1..n |-> <<t, c>>]
  <1>1. IsFiniteSet(1..n) BY FS_Interval
  <1>2. f \in [1..n -> pairs] OBVIOUS
  <1>3. \A a, b \in 1..n : f[a] = f[b] => a = b OBVIOUS
  <1>4. \A p \in pairs : \E c \in 1..n : f[c] = p OBVIOUS
  <1>5. f \in Bijection(1..n, pairs)
    <2> HIDE DEF f, pairs
    <2>1. DOMAIN f = 1..n BY <1>2
    <2>2. IsInjective(f) BY <1>3, <2>1 DEF IsInjective
    <2> QED BY <1>2, <1>4, <2>2 DEF Bijection, Injection, Surjection
  <1>6. ExistsBijection(1..n, pairs) BY <1>5 DEF ExistsBijection
  <1> QED BY <1>1, <1>6, FS_Bijection

LEMMA DisjointCount ==
    ASSUME NEW S, NEW T, IsFiniteSet(S), IsFiniteSet(T), S \cap T = {}
    PROVE  Cardinality(S \cup T) = Cardinality(S) + Cardinality(T)
  <1>1. Cardinality(S \cup T) = Cardinality(S) + Cardinality(T) - Cardinality(S \cap T) BY FS_Union
  <1>2. Cardinality(S \cap T) = 0 BY FS_EmptySet
  <1>3. Cardinality(S) \in Nat /\ Cardinality(T) \in Nat BY FS_CardinalityType
  <1> QED BY <1>1, <1>2, <1>3

\* The records of the newest turn change and no other.
LEMMA NewestChanges ==
    ASSUME LoopTypeOK, NEW e \in Turn, turns' = [turns EXCEPT ![Len(turns)] = e]
    PROVE  /\ turns' \in Seq(Turn) /\ Len(turns') = Len(turns) /\ DOMAIN turns' = DOMAIN turns
           /\ \A t \in 1..Len(turns) : turns'[t] = IF t = Len(turns) THEN e ELSE turns[t]
  <1> DEFINE k == Len(turns)
  <1>1. turns \in Seq(Turn) BY DEF LoopTypeOK
  <1>2. k \in Nat \ {0} /\ DOMAIN turns = 1..k BY TurnsByPlace
  <1>3. k \in 1..Len(turns) BY <1>2
  <1>4. /\ [turns EXCEPT ![k] = e] \in Seq(Turn) /\ Len([turns EXCEPT ![k] = e]) = Len(turns)
        /\ \A j \in 1..Len(turns) : [turns EXCEPT ![k] = e][j] = IF j = k THEN e ELSE turns[j]
    <2> HIDE DEF k
    <2> QED BY <1>1, <1>3, ExceptSeq
  <1> QED BY <1>2, <1>4

\* The counts depend on nothing but the calls and what is discovered.
LEMMA CountStays ==
    ASSUME LoopTypeOK, Len(turns') = Len(turns), DOMAIN turns' = DOMAIN turns,
           \A t \in 1..Len(turns) : turns'[t].calls = turns[t].calls /\ turns'[t].discovered = turns[t].discovered
    PROVE  Recorded' = Recorded /\ Count' = Count
  <1>1. DOMAIN turns = 1..Len(turns) BY TurnsByPlace
  <1>2. {t \in DOMAIN turns' : turns'[t].discovered} = {t \in DOMAIN turns : turns[t].discovered} BY <1>1
  <1>3. Recorded' = Recorded
    <2> DEFINE D == {t \in DOMAIN turns : turns[t].discovered}
    <2>1. Recorded' = UNION {{<<t, c>> : c \in turns'[t].calls} : t \in D}
      BY <1>2 DEF Recorded, CallsOf, Discovered
    <2>2. Recorded = UNION {{<<t, c>> : c \in turns[t].calls} : t \in D} BY DEF Recorded, CallsOf, Discovered
    <2>3. \A t \in D : {<<t, c>> : c \in turns'[t].calls} = {<<t, c>> : c \in turns[t].calls} BY <1>1
    <2> HIDE DEF D
    <2> QED BY <2>1, <2>2, <2>3
  <1> QED BY <1>3 DEF Count

LEMMA CountIsNat ==
    ASSUME LoopTypeOK, DurableOK
    PROVE  Count \in Nat
  BY FS_CardinalityType DEF DurableOK, Count

\* A step that leaves what is durable alone.
LEMMA LoopFrame ==
    ASSUME LoopIInv, UNCHANGED <<turns, dispatched, stream>>, loop' \in Loop, progress' \in Progress,
           NEW l, NEW p, l = loop', p = progress', LoopFits(l, p)
    PROVE  LoopIInv'
  <1>1. LoopTypeOK' BY DEF LoopIInv, LoopTypeOK
  <1>2. Recorded' = Recorded /\ Count' = Count BY CountStays DEF LoopIInv
  <1>3. DurableOK' BY <1>2 DEF LoopIInv, DurableOK, Given
  <1>4. LoopFits(loop, progress)' BY <1>2 DEF LoopFits
  <1> QED BY <1>1, <1>3, <1>4 DEF LoopIInv

\* A run that has returned, or is about to record that a budget is gone,
\* claims nothing.
LEMMA LoopReturnsPreserves ==
    ASSUME LoopIInv, KeepTurns, NEW status \in LoopStatus \ {"none", "external_approval_required"},
           LoopReturns(status)
    PROVE  LoopIInv'
  <1>1. loop \in Loop BY DEF LoopIInv, LoopTypeOK
  <1>2. loop' = [loop EXCEPT !.pc = "off", !.status = status] BY DEF LoopReturns
  <1>3. loop' \in Loop /\ loop'.pc = "off" /\ loop'.status = status BY <1>1, <1>2 DEF Loop
  <1>4. progress' \in Progress BY <1>1 DEF LoopReturns, Progress, Loop
  <1> DEFINE l == loop'
             p == progress'
  <1>5. LoopFits(l, p) BY <1>3 DEF LoopFits
  <1> HIDE DEF l, p
  <1> QED BY <1>3, <1>4, <1>5, LoopFrame DEF KeepTurns, l, p

LEMMA ExhaustPreserves ==
    ASSUME LoopIInv, KeepTurns, UNCHANGED progress, NEW budget \in Budget \ {"none"}, Exhaust(budget),
           loop.pc # "off"
    PROVE  LoopIInv'
  <1>1. loop \in Loop /\ progress \in Progress /\ loop.turn = Len(turns) BY DEF LoopIInv, LoopTypeOK, LoopFits
  <1>2. loop' = [loop EXCEPT !.pc = budget] BY DEF Exhaust
  <1>3. loop' \in Loop /\ loop'.pc = budget /\ loop'.turn = loop.turn BY <1>1, <1>2 DEF Loop
  <1> DEFINE l == loop'
             p == progress'
  <1>4. LoopFits(l, p) BY <1>1, <1>3 DEF LoopFits, Budget
  <1> HIDE DEF l, p
  <1> QED BY <1>1, <1>3, <1>4, LoopFrame DEF KeepTurns, l, p

LEMMA RunToolLoopPreserves ==
    ASSUME LoopIInv, RunToolLoop
    PROVE  LoopIInv'
  <1>1. loop \in Loop /\ progress \in Progress /\ LoopTypeOK /\ DurableOK /\ LoopFits(loop, progress)
    BY DEF LoopIInv, LoopTypeOK
  <1> DEFINE iterations == IF progress.given THEN progress.iterations ELSE Cardinality(Discovered)
             total == IF progress.given THEN progress.total ELSE Count
  <1>2. loop' = [NoLoop EXCEPT !.pc = "check", !.turn = Len(turns), !.runs = loop.runs + 1,
                               !.iterations = iterations, !.total = total]
    BY DEF RunToolLoop, Count, Recorded
  <1>3. UNCHANGED progress /\ KeepTurns BY DEF RunToolLoop
  <1>4. iterations \in Nat
    <2>1. IsFiniteSet(1..Len(turns)) BY <1>1, TurnsByPlace, FS_Interval
    <2>2. Discovered \in SUBSET (1..Len(turns)) BY <1>1, TurnsByPlace DEF Discovered
    <2>3. Cardinality(Discovered) \in Nat BY <2>1, <2>2, FS_Subset, FS_CardinalityType
    <2> QED BY <1>1, <2>3 DEF Progress
  <1>5. total \in Nat /\ total = Count
    <2>1. Count \in Nat BY <1>1, CountIsNat
    <2>2. loop.pc = "off" /\ loop.status \in {"none", "external_approval_required"} BY DEF RunToolLoop
    <2> QED BY <1>1, <2>1, <2>2 DEF LoopFits
  <1> HIDE DEF iterations, total
  <1>6. Len(turns) \in Nat /\ loop.runs + 1 \in Nat BY <1>1, TurnsByPlace DEF Loop
  <1>7. loop' = [pc |-> "check", turn |-> Len(turns), iterations |-> iterations, total |-> total, newly |-> 0,
                 pending |-> {}, results |-> {}, approvals |-> {}, status |-> "none", runs |-> loop.runs + 1]
    BY <1>2 DEF NoLoop
  <1>8. loop' \in Loop /\ loop'.pc = "check" /\ loop'.turn = Len(turns) /\ loop'.total = Count
    BY <1>4, <1>5, <1>6, <1>7 DEF Loop, LoopStatus
  <1> DEFINE l == loop'
             p == progress'
  <1>9. LoopFits(l, p) BY <1>8 DEF LoopFits
  <1> HIDE DEF l, p
  <1> QED BY <1>1, <1>3, <1>8, <1>9, LoopFrame DEF KeepTurns, l, p

\* The calls of the newest turn are recorded as discovered.
LEMMA DiscoverPreserves ==
    ASSUME LoopIInv, loop.pc = "check",
           turns' = [turns EXCEPT ![loop.turn].discovered = TRUE],
           loop' = [loop EXCEPT !.pc = "budget",
                       !.newly = IF turns[loop.turn].discovered THEN 0 ELSE Cardinality(turns[loop.turn].calls)],
           UNCHANGED <<progress, dispatched, stream>>
    PROVE  LoopIInv'
  <1> DEFINE k == Len(turns)
             turn == turns[k]
  <1>1. loop \in Loop /\ progress \in Progress /\ LoopTypeOK /\ DurableOK /\ LoopFits(loop, progress)
    BY DEF LoopIInv, LoopTypeOK
  <1>2. loop.turn = k /\ loop.total = Count BY <1>1 DEF LoopFits
  <1>3. /\ k \in Nat \ {0} /\ k \in 1..k /\ DOMAIN turns = 1..k
        /\ \A t \in 1..k : turns[t] \in Turn
    BY <1>1, TurnsByPlace
  <1>4. turns \in Seq(Turn) /\ turn \in Turn BY <1>1, <1>3 DEF LoopTypeOK
  <1>5. [turn EXCEPT !.discovered = TRUE] \in Turn BY <1>4 DEF Turn
  <1>6. turns' = [turns EXCEPT ![k] = [turn EXCEPT !.discovered = TRUE]] BY <1>2, <1>3
  <1>7. /\ turns' \in Seq(Turn) /\ Len(turns') = k
        /\ \A t \in 1..k : turns'[t] = IF t = k THEN [turn EXCEPT !.discovered = TRUE] ELSE turns[t]
    BY <1>1, <1>5, <1>6, NewestChanges
  <1>8. DOMAIN turns' = 1..k BY <1>3, <1>6
  <1>9. /\ \A t \in 1..k : /\ turns'[t].calls = turns[t].calls /\ turns'[t].results = turns[t].results
                           /\ turns[t].discovered => turns'[t].discovered
                           /\ t # k => turns'[t] = turns[t]
        /\ turns'[k].discovered
    BY <1>3, <1>4, <1>7 DEF Turn
  <1>10. PICK n \in Nat : turn.calls = 1..n BY <1>4 DEF Turn
  <1> DEFINE pairs == {<<k, c>> : c \in turn.calls}
             newly == IF turn.discovered THEN 0 ELSE Cardinality(turn.calls)
  <1>11. IsFiniteSet(pairs) /\ Cardinality(pairs) = Cardinality(turn.calls) /\ Cardinality(turn.calls) \in Nat
    <2>1. Cardinality(1..n) \in Nat BY FS_Interval, FS_CardinalityType
    <2>2. /\ IsFiniteSet({<<k, c>> : c \in 1..n})
          /\ Cardinality({<<k, c>> : c \in 1..n}) = Cardinality(1..n)
      BY TaggedCount
    <2>3. pairs = {<<k, c>> : c \in 1..n} BY <1>10
    <2> HIDE DEF pairs, turn, k
    <2> QED BY <1>10, <2>1, <2>2, <2>3
  <1>12. Recorded' = Recorded \cup pairs
    <2>1. Discovered' = Discovered \cup {k}
      <3>1. \A t \in 1..k : turns'[t].discovered <=> (t = k \/ turns[t].discovered) BY <1>3, <1>9
      <3> QED BY <1>3, <1>8, <3>1 DEF Discovered
    <2>2. \A q : q \in Recorded' <=> \E t \in Discovered' : \E c \in turns'[t].calls : q = <<t, c>>
      BY DEF Recorded, CallsOf
    <2>3. \A q : q \in Recorded <=> \E t \in Discovered : \E c \in turns[t].calls : q = <<t, c>>
      BY DEF Recorded, CallsOf
    <2>4. Discovered \subseteq 1..k BY <1>3 DEF Discovered
    <2>5. \A q : q \in pairs <=> \E c \in turn.calls : q = <<k, c>> OBVIOUS
    <2> HIDE DEF pairs
    <2>6. ASSUME NEW q PROVE q \in Recorded' <=> q \in Recorded \/ q \in pairs
      BY <1>3, <1>9, <2>1, <2>2, <2>3, <2>4, <2>5
    <2> QED BY <2>6
  <1>13. turn.discovered => pairs \subseteq Recorded
    BY <1>3 DEF Recorded, CallsOf, Discovered
  <1>14. ~turn.discovered => Recorded \cap pairs = {}
    <2>1. \A q \in Recorded : \E t \in 1..k : turns[t].discovered /\ \E c \in turns[t].calls : q = <<t, c>>
      BY <1>3 DEF Recorded, CallsOf, Discovered
    <2> QED BY <2>1
  <1>15. IsFiniteSet(Recorded) BY <1>1 DEF DurableOK
  <1> HIDE DEF pairs
  <1>16. IsFiniteSet(Recorded') BY <1>11, <1>12, <1>15, FS_Union
  <1>17. Count' = Count + newly
    <2>1. CASE turn.discovered
      <3>1. Recorded' = Recorded BY <1>12, <1>13, <2>1
      <3>2. Count \in Nat BY <1>1, CountIsNat
      <3> QED BY <2>1, <3>1, <3>2 DEF Count
    <2>2. CASE ~turn.discovered
      <3>1. Cardinality(Recorded \cup pairs) = Cardinality(Recorded) + Cardinality(pairs)
        BY <1>11, <1>14, <1>15, <2>2, DisjointCount
      <3> QED BY <1>11, <1>12, <2>2, <3>1 DEF Count
    <2> QED BY <2>1, <2>2
  <1>18. newly \in Nat /\ loop' = [loop EXCEPT !.pc = "budget", !.newly = newly] BY <1>2, <1>11
  <1> HIDE DEF newly
  <1>19. /\ loop' \in Loop /\ loop'.pc = "budget" /\ loop'.newly = newly /\ loop'.turn = k
         /\ loop'.total = Count
    BY <1>1, <1>2, <1>18 DEF Loop
  <1>20. LoopTypeOK' BY <1>1, <1>3, <1>7, <1>19 DEF LoopTypeOK
  <1>21. DurableOK'
    <2>1. Given' = Given BY <1>3, <1>8 DEF Given
    <2>2. \A t \in 1..Len(turns') :
              /\ dispatched'[t] \subseteq turns'[t].calls
              /\ dispatched'[t] # {} => turns'[t].discovered
              /\ turns'[t].results \subseteq turns'[t].calls
              /\ t < Len(turns') => turns'[t].results = turns'[t].calls
      BY <1>1, <1>7, <1>9 DEF DurableOK
    <2> QED BY <1>1, <1>16, <2>1, <2>2 DEF DurableOK
  <1>22. LoopFits(loop, progress)' BY <1>7, <1>9, <1>17, <1>19 DEF LoopFits
  <1> QED BY <1>20, <1>21, <1>22 DEF LoopIInv

LEMMA CheckTurnPreserves ==
    ASSUME LoopIInv, CheckTurn
    PROVE  LoopIInv'
  <1> DEFINE turn == turns[loop.turn]
  <1>1. loop.pc = "check" BY DEF CheckTurn
  <1>2. \/ \E status \in {"cancelled", "failed", "completed", "budget_exhausted"} : LoopReturns(status) /\ KeepTurns
        \/ Exhaust("wall_clock") /\ UNCHANGED progress /\ KeepTurns
        \/ /\ turns' = [turns EXCEPT ![loop.turn].discovered = TRUE]
           /\ loop' = [loop EXCEPT !.pc = "budget",
                           !.newly = IF turn.discovered THEN 0 ELSE Cardinality(turn.calls)]
           /\ UNCHANGED <<progress, dispatched, stream>>
    BY Zenon DEF CheckTurn
  <1>3. ASSUME NEW status \in {"cancelled", "failed", "completed", "budget_exhausted"},
               LoopReturns(status), KeepTurns
        PROVE  LoopIInv'
    <2>1. status \in LoopStatus \ {"none", "external_approval_required"} BY DEF LoopStatus
    <2> QED BY <1>3, <2>1, LoopReturnsPreserves
  <1>4. CASE Exhaust("wall_clock") /\ UNCHANGED progress /\ KeepTurns
    <2>1. "wall_clock" \in Budget \ {"none"} /\ loop.pc # "off" BY <1>1 DEF Budget
    <2> QED BY <1>4, <2>1, ExhaustPreserves
  <1>5. CASE /\ turns' = [turns EXCEPT ![loop.turn].discovered = TRUE]
             /\ loop' = [loop EXCEPT !.pc = "budget",
                             !.newly = IF turn.discovered THEN 0 ELSE Cardinality(turn.calls)]
             /\ UNCHANGED <<progress, dispatched, stream>>
    BY <1>1, <1>5, DiscoverPreserves
  <1> QED BY <1>2, <1>3, <1>4, <1>5

LEMMA CheckBudgetPreserves ==
    ASSUME LoopIInv, CheckBudget
    PROVE  LoopIInv'
  <1> DEFINE k == Len(turns)
             turn == turns[k]
  <1>1. loop \in Loop /\ progress \in Progress /\ LoopTypeOK /\ DurableOK /\ LoopFits(loop, progress)
    BY DEF LoopIInv, LoopTypeOK
  <1>2. loop.pc = "budget" /\ UNCHANGED progress /\ KeepTurns BY DEF CheckBudget
  <1>3. loop.turn = k /\ loop.total + loop.newly = Count /\ turn.discovered BY <1>1, <1>2 DEF LoopFits
  <1>4. CASE Exhaust("iterations") \/ Exhaust("total_tool_calls")
    <2>1. "iterations" \in Budget \ {"none"} /\ "total_tool_calls" \in Budget \ {"none"} /\ loop.pc # "off"
      BY <1>2 DEF Budget
    <2> QED BY <1>2, <1>4, <2>1, ExhaustPreserves
  <1>5. CASE /\ loop.total + loop.newly <= MaxTotalToolCalls
             /\ loop' = [loop EXCEPT !.pc = "work", !.total = loop.total + loop.newly,
                    !.iterations = IF loop.newly > 0 THEN loop.iterations + 1 ELSE loop.iterations,
                    !.results = turn.results, !.approvals = {}, !.pending = turn.calls \ turn.results]
    <2> DEFINE iterations == IF loop.newly > 0 THEN loop.iterations + 1 ELSE loop.iterations
    <2>1. k \in 1..k /\ turn \in Turn BY <1>1, TurnsByPlace
    <2>2. /\ iterations \in Nat /\ Count \in Nat /\ turn.results \in SUBSET Nat
          /\ turn.results \subseteq turn.calls /\ turn.calls \in SUBSET Nat
      <3>1. turn.calls \in SUBSET Nat BY <2>1 DEF Turn
      <3>2. iterations \in Nat BY <1>1 DEF Loop
      <3>3. turn.results \subseteq turn.calls BY <1>1, <2>1 DEF DurableOK
      <3> QED BY <1>1, <2>1, <3>1, <3>2, <3>3, CountIsNat DEF Turn
    <2>3. loop' = [loop EXCEPT !.pc = "work", !.total = Count, !.iterations = iterations,
                    !.results = turn.results, !.approvals = {}, !.pending = turn.calls \ turn.results]
      BY <1>3, <1>5
    <2> HIDE DEF iterations
    <2>4. /\ loop' \in Loop /\ loop'.pc = "work" /\ loop'.turn = k /\ loop'.total = Count
          /\ loop'.results = turn.results /\ loop'.approvals = {}
          /\ loop'.pending = turn.calls \ turn.results
      BY <1>1, <1>3, <2>2, <2>3 DEF Loop
    <2> DEFINE l == loop'
               p == progress'
    <2>5. LoopFits(l, p)
      <3>1. Count <= MaxTotalToolCalls BY <1>3, <1>5
      <3>2. /\ l.pending \cup l.results \subseteq turn.calls /\ turn.results \subseteq l.results
            /\ l.pending \cap turn.results = {}
        BY <2>2, <2>4
      <3> QED BY <1>3, <2>4, <3>1, <3>2 DEF LoopFits
    <2> HIDE DEF l, p
    <2> QED BY <1>1, <1>2, <2>4, <2>5, LoopFrame DEF KeepTurns, l, p
  <1> QED BY <1>3, <1>4, <1>5 DEF CheckBudget

LEMMA WorkersStopPreserves ==
    ASSUME LoopIInv, WorkersStop
    PROVE  LoopIInv'
  <1>1. loop.pc # "off" /\ KeepTurns BY DEF WorkersStop
  <1>2. CASE LoopReturns("cancelled")
    <2>1. "cancelled" \in LoopStatus \ {"none", "external_approval_required"} BY DEF LoopStatus
    <2> QED BY <1>1, <1>2, <2>1, LoopReturnsPreserves
  <1>3. CASE Exhaust("wall_clock") /\ UNCHANGED progress
    <2>1. "wall_clock" \in Budget \ {"none"} BY DEF Budget
    <2> QED BY <1>1, <1>3, <2>1, ExhaustPreserves
  <1> QED BY <1>2, <1>3 DEF WorkersStop

LEMMA WorkerQuitsPreserves ==
    ASSUME LoopIInv, WorkerQuits
    PROVE  LoopIInv'
  <1>1. loop \in Loop /\ loop.pc = "work" /\ KeepTurns /\ UNCHANGED progress BY DEF WorkerQuits, LoopIInv, LoopTypeOK
  <1>2. PICK left \in SUBSET loop.pending : loop' = [loop EXCEPT !.pending = left] BY DEF WorkerQuits
  <1>3. /\ loop' \in Loop /\ loop'.pending \subseteq loop.pending /\ loop'.pc = "work" /\ loop'.turn = loop.turn
        /\ loop'.total = loop.total /\ loop'.results = loop.results
    BY <1>1, <1>2 DEF Loop
  <1>4. progress' \in Progress BY <1>1 DEF LoopIInv, LoopTypeOK
  <1> DEFINE l == loop'
             p == progress'
  <1>5. LoopFits(l, p) BY <1>1, <1>3 DEF LoopIInv, LoopFits
  <1> HIDE DEF l, p
  <1> QED BY <1>1, <1>3, <1>4, <1>5, LoopFrame DEF KeepTurns, l, p

LEMMA LoopCrashPreserves ==
    ASSUME LoopIInv, LoopCrash
    PROVE  LoopIInv'
  <1>1. loop \in Loop BY DEF LoopIInv, LoopTypeOK
  <1>2. loop' = [pc |-> "off", turn |-> 0, iterations |-> 0, total |-> 0, newly |-> 0, pending |-> {},
                 results |-> {}, approvals |-> {}, status |-> "none", runs |-> loop.runs]
    BY DEF LoopCrash, NoLoop
  <1>3. progress' = [iterations |-> 0, total |-> 0, given |-> FALSE] /\ KeepTurns BY DEF LoopCrash, NoProgress
  <1>4. loop' \in Loop /\ progress' \in Progress BY <1>1, <1>2, <1>3 DEF Loop, LoopStatus, Progress
  <1> DEFINE l == loop'
             p == progress'
  <1>5. LoopFits(l, p) BY <1>2, <1>3 DEF LoopFits
  <1> HIDE DEF l, p
  <1> QED BY <1>3, <1>4, <1>5, LoopFrame DEF KeepTurns, l, p

------------------------------------------------
\* A step that changes the newest turn's results, pauses or exhaustion.
LEMMA NewestFrame ==
    ASSUME LoopIInv, NEW e \in Turn, turns' = [turns EXCEPT ![Len(turns)] = e],
           e.calls = turns[Len(turns)].calls, e.discovered = turns[Len(turns)].discovered,
           e.results \subseteq e.calls,
           UNCHANGED <<dispatched, stream>>, loop' \in Loop, progress' \in Progress,
           NEW l, NEW p, l = loop', p = progress',
           l.pc \in {"off", "approvals", "continue"}, l.pc # "off" => l.turn = Len(turns) /\ l.total = Count,
           l.pc = "approvals" => e.results = l.results,
           l.pc = "continue" => e.results = e.calls,
           l.pc = "off" => l.status # "none" /\ (l.status = "external_approval_required" => p.total = Count)
    PROVE  LoopIInv'
  <1> DEFINE k == Len(turns)
  <1>1. LoopTypeOK /\ DurableOK BY DEF LoopIInv
  <1>2. k \in Nat \ {0} /\ k \in 1..k BY <1>1, TurnsByPlace
  <1>3. /\ turns' \in Seq(Turn) /\ Len(turns') = k /\ DOMAIN turns' = DOMAIN turns
        /\ \A t \in 1..k : turns'[t] = IF t = k THEN e ELSE turns[t]
    BY <1>1, NewestChanges
  <1>4. /\ \A t \in 1..k : /\ turns'[t].calls = turns[t].calls /\ turns'[t].discovered = turns[t].discovered
                           /\ t < k => turns'[t] = turns[t]
        /\ turns'[k] = e
    <2>1. turns'[k] = e BY <1>2, <1>3
    <2>2. ASSUME NEW t \in 1..k
          PROVE  /\ turns'[t].calls = turns[t].calls /\ turns'[t].discovered = turns[t].discovered
                 /\ t < k => turns'[t] = turns[t]
      <3>1. CASE t = k BY <1>2, <2>1, <3>1
      <3>2. CASE t # k
        <4>1. turns'[t] = turns[t] BY <1>3, <3>2
        <4> QED BY <4>1
      <3> QED BY <3>1, <3>2
    <2> QED BY <2>1, <2>2
  <1>5. Recorded' = Recorded /\ Count' = Count BY <1>1, <1>3, <1>4, CountStays
  <1>6. LoopTypeOK' BY <1>1, <1>3 DEF LoopTypeOK
  <1>7. DurableOK'
    <2>1. Given' = Given BY <1>3 DEF Given
    <2>2. \A t \in 1..Len(turns') :
              /\ dispatched'[t] \subseteq turns'[t].calls
              /\ dispatched'[t] # {} => turns'[t].discovered
              /\ turns'[t].results \subseteq turns'[t].calls
              /\ t < Len(turns') => turns'[t].results = turns'[t].calls
      <3>1. \A t \in 1..k :
               /\ dispatched[t] \subseteq turns[t].calls
               /\ dispatched[t] # {} => turns[t].discovered
               /\ turns[t].results \subseteq turns[t].calls
               /\ t < k => turns[t].results = turns[t].calls
        BY <1>1 DEF DurableOK
      <3> HIDE DEF k
      <3> SUFFICES ASSUME NEW t \in 1..k
                   PROVE  /\ dispatched[t] \subseteq turns'[t].calls
                          /\ dispatched[t] # {} => turns'[t].discovered
                          /\ turns'[t].results \subseteq turns'[t].calls
                          /\ t < k => turns'[t].results = turns'[t].calls
        BY <1>3
      <3>2. CASE t = k
        <4>1. turns'[t] = e /\ ~(t < k) BY <1>2, <1>4, <3>2
        <4> QED BY <1>4, <3>1, <4>1
      <3>3. CASE t < k BY <1>4, <3>1, <3>3
      <3>4. t = k \/ t < k BY <1>2
      <3> QED BY <3>2, <3>3, <3>4
    <2> QED BY <1>1, <1>5, <2>1, <2>2 DEF DurableOK
  <1>8. LoopFits(loop, progress)' BY <1>3, <1>4, <1>5 DEF LoopFits
  <1> QED BY <1>6, <1>7, <1>8 DEF LoopIInv

LEMMA RecordExhaustionPreserves ==
    ASSUME LoopIInv, RecordExhaustion
    PROVE  LoopIInv'
  <1> DEFINE k == Len(turns)
             turn == turns[k]
             exhausted == IF turn.exhausted = "none" THEN loop.pc ELSE turn.exhausted
             e == [turn EXCEPT !.exhausted = exhausted]
  <1>1. LoopTypeOK /\ DurableOK /\ loop \in Loop BY DEF LoopIInv, LoopTypeOK
  <1>2. k \in 1..k /\ DOMAIN turns = 1..k /\ turn \in Turn BY <1>1, TurnsByPlace
  <1>3. loop.pc \in Budget \ {"none"} /\ loop.turn = k
    BY DEF RecordExhaustion, LoopIInv, LoopFits, Budget
  <1>4. exhausted \in Budget BY <1>2, <1>3 DEF Turn
  <1>5. turns' = [turns EXCEPT ![k] = e] BY <1>2, <1>3 DEF RecordExhaustion
  <1> HIDE DEF exhausted
  <1>6. e \in Turn /\ e.calls = turn.calls /\ e.discovered = turn.discovered /\ e.results = turn.results
    BY <1>2, <1>4 DEF Turn
  <1>7. turn.results \subseteq turn.calls BY <1>1, <1>2 DEF DurableOK
  <1>8. loop' = [loop EXCEPT !.pc = "off", !.status = "budget_exhausted"] BY DEF RecordExhaustion, LoopReturns
  <1>9. loop' \in Loop /\ loop'.pc = "off" /\ loop'.status = "budget_exhausted" BY <1>1, <1>8 DEF Loop, LoopStatus
  <1>10. progress' \in Progress BY <1>1 DEF RecordExhaustion, LoopReturns, Progress, Loop
  <1>11. UNCHANGED <<dispatched, stream>> BY DEF RecordExhaustion
  <1> DEFINE l == loop'
             p == progress'
  <1> HIDE DEF e, l, p
  <1> QED BY <1>5, <1>6, <1>7, <1>9, <1>10, <1>11, NewestFrame DEF l, p

LEMMA RecordResultsPreserves ==
    ASSUME LoopIInv, RecordResults
    PROVE  LoopIInv'
  <1> DEFINE k == Len(turns)
             turn == turns[k]
             e == [turn EXCEPT !.results = turn.results \cup loop.results]
  <1>1. LoopTypeOK /\ DurableOK /\ loop \in Loop /\ progress \in Progress BY DEF LoopIInv, LoopTypeOK
  <1>2. k \in 1..k /\ DOMAIN turns = 1..k /\ turn \in Turn BY <1>1, TurnsByPlace
  <1>3. /\ loop.pc = "work" /\ loop.turn = k /\ loop.total = Count /\ loop.pending = {}
        /\ loop.results \subseteq turn.calls /\ turn.results \subseteq loop.results
    BY DEF RecordResults, LoopIInv, LoopFits
  <1>4. turns' = [turns EXCEPT ![k] = e] BY <1>2, <1>3 DEF RecordResults
  <1>5. turn.results \subseteq turn.calls BY <1>1, <1>2 DEF DurableOK
  <1>6. /\ e \in Turn /\ e.calls = turn.calls /\ e.discovered = turn.discovered
        /\ e.results = turn.results \cup loop.results
    BY <1>1, <1>2 DEF Turn, Loop
  <1>7. loop' = [loop EXCEPT !.pc = "approvals"] /\ UNCHANGED <<progress, dispatched, stream>> BY DEF RecordResults
  <1>8. /\ loop' \in Loop /\ loop'.pc = "approvals" /\ loop'.turn = k /\ loop'.total = Count
        /\ loop'.results = loop.results
    BY <1>1, <1>3, <1>7 DEF Loop
  <1>9. e.results \subseteq e.calls /\ e.results = loop'.results BY <1>3, <1>5, <1>6, <1>8
  <1> DEFINE l == loop'
             p == progress'
  <1> HIDE DEF e, l, p
  <1> QED BY <1>1, <1>4, <1>6, <1>7, <1>8, <1>9, NewestFrame DEF l, p

LEMMA RecordApprovalsPreserves ==
    ASSUME LoopIInv, RecordApprovals
    PROVE  LoopIInv'
  <1> DEFINE k == Len(turns)
             turn == turns[k]
             e == [turn EXCEPT !.approval = turn.approval \cup loop.approvals]
  <1>1. LoopTypeOK /\ DurableOK /\ loop \in Loop /\ progress \in Progress BY DEF LoopIInv, LoopTypeOK
  <1>2. k \in 1..k /\ DOMAIN turns = 1..k /\ turn \in Turn BY <1>1, TurnsByPlace
  <1>3. /\ loop.pc = "approvals" /\ loop.turn = k /\ loop.total = Count
        /\ turn.results = loop.results
    BY DEF RecordApprovals, LoopIInv, LoopFits
  <1>4. turns' = [turns EXCEPT ![k] = e] /\ UNCHANGED <<dispatched, stream>> BY <1>2, <1>3 DEF RecordApprovals
  <1>5. turn.results \subseteq turn.calls BY <1>1, <1>2 DEF DurableOK
  <1>6. e \in Turn /\ e.calls = turn.calls /\ e.discovered = turn.discovered /\ e.results = turn.results
    BY <1>1, <1>2 DEF Turn, Loop
  <1> DEFINE l == loop'
             p == progress'
  <1>7. CASE loop.approvals # {}
    <2>1. /\ loop' = [loop EXCEPT !.pc = "off", !.status = "external_approval_required"]
          /\ progress' = [iterations |-> loop.iterations, total |-> loop.total, given |-> TRUE]
      BY <1>7 DEF RecordApprovals, LoopReturns
    <2>2. /\ loop' \in Loop /\ loop'.pc = "off" /\ loop'.status = "external_approval_required"
          /\ progress' \in Progress /\ progress'.total = Count
      BY <1>1, <1>3, <2>1 DEF Loop, LoopStatus, Progress
    <2> HIDE DEF e, l, p
    <2> QED BY <1>4, <1>5, <1>6, <2>2, NewestFrame DEF l, p
  <1>9. CASE loop.approvals = {} /\ loop.results # turn.calls
    <2>1. /\ loop' = [loop EXCEPT !.pc = "off", !.status = "failed"]
          /\ progress' = [iterations |-> loop.iterations, total |-> loop.total, given |-> TRUE]
      BY <1>3, <1>9 DEF RecordApprovals, LoopReturns
    <2>2. /\ loop' \in Loop /\ loop'.pc = "off" /\ loop'.status = "failed" /\ progress' \in Progress
      BY <1>1, <2>1 DEF Loop, LoopStatus, Progress
    <2> HIDE DEF e, l, p
    <2> QED BY <1>4, <1>5, <1>6, <2>2, NewestFrame DEF l, p
  <1>8. CASE loop.approvals = {} /\ loop.results = turn.calls
    <2>1. loop' = [loop EXCEPT !.pc = "continue"] /\ UNCHANGED progress BY <1>3, <1>8 DEF RecordApprovals
    <2>2. loop' \in Loop /\ loop'.pc = "continue" /\ loop'.turn = k /\ loop'.total = Count
      BY <1>1, <1>3, <2>1 DEF Loop
    <2>3. e.results = e.calls BY <1>3, <1>6, <1>8
    <2> HIDE DEF e, l, p
    <2> QED BY <1>1, <1>4, <1>5, <1>6, <2>1, <2>2, <2>3, NewestFrame DEF l, p
  <1> QED BY <1>7, <1>8, <1>9

\* A call given to the executor is one of the discovered calls, which the
\* budget was found to allow.
LEMMA RunCallPreserves ==
    ASSUME LoopIInv, NEW c, RunCall(c)
    PROVE  LoopIInv'
  <1> DEFINE k == Len(turns)
             turn == turns[k]
  <1>1. LoopTypeOK /\ DurableOK /\ loop \in Loop /\ progress \in Progress /\ LoopFits(loop, progress)
    BY DEF LoopIInv, LoopTypeOK
  <1>2. /\ k \in Nat \ {0} /\ k \in 1..k /\ DOMAIN turns = 1..k /\ DOMAIN dispatched = 1..k /\ turn \in Turn
        /\ dispatched \in Seq(SUBSET Nat) /\ Len(dispatched) = k
    BY <1>1, TurnsByPlace DEF LoopTypeOK
  <1>3. /\ loop.pc = "work" /\ c \in loop.pending /\ loop.turn = k /\ loop.total = Count
        /\ Count <= MaxTotalToolCalls /\ turn.discovered
        /\ loop.pending \cup loop.results \subseteq turn.calls
        /\ turn.results \subseteq loop.results /\ loop.pending \cap turn.results = {}
    BY <1>1 DEF RunCall, LoopFits
  <1>4. UNCHANGED <<turns, progress, stream>> /\ dispatched' = [dispatched EXCEPT ![k] = @ \cup {c}]
    BY <1>3 DEF RunCall
  <1>5. c \in Nat /\ c \in turn.calls BY <1>1, <1>3 DEF Loop
  <1>6. /\ dispatched' \in Seq(SUBSET Nat) /\ Len(dispatched') = k
        /\ \A t \in 1..k : dispatched'[t] = IF t = k THEN dispatched[k] \cup {c} ELSE dispatched[t]
    <2> DEFINE e == dispatched[k] \cup {c}
    <2>1. e \in SUBSET Nat BY <1>1, <1>2, <1>5, TurnsByPlace
    <2>2. dispatched' = [dispatched EXCEPT ![k] = e] BY <1>2, <1>4
    <2>3. k \in 1..Len(dispatched) BY <1>2
    <2> HIDE DEF e, k
    <2>4. /\ dispatched' \in Seq(SUBSET Nat) /\ Len(dispatched') = Len(dispatched)
          /\ \A j \in 1..Len(dispatched) : dispatched'[j] = IF j = k THEN e ELSE dispatched[j]
      BY <1>2, <2>1, <2>2, <2>3, ExceptSeq
    <2> QED BY <1>2, <2>4 DEF e
  <1>7. /\ loop' \in Loop /\ loop'.pc = "work" /\ loop'.turn = k /\ loop'.total = Count
        /\ loop'.pending = loop.pending \ {c}
        /\ loop.results \subseteq loop'.results /\ loop'.results \subseteq loop.results \cup {c}
    <2>1. CASE loop' = [loop EXCEPT !.pending = @ \ {c}, !.results = @ \cup {c}]
      <3>1. /\ loop' = [loop EXCEPT !.pending = loop.pending \ {c}, !.results = loop.results \cup {c}]
            /\ loop.pending \ {c} \in SUBSET Nat /\ loop.results \cup {c} \in SUBSET Nat
        BY <1>1, <1>5, <2>1 DEF Loop
      <3>2. /\ loop' \in Loop /\ loop'.pc = loop.pc /\ loop'.turn = loop.turn /\ loop'.total = loop.total
            /\ loop'.pending = loop.pending \ {c} /\ loop'.results = loop.results \cup {c}
        BY <1>1, <3>1 DEF Loop
      <3> QED BY <1>3, <3>2
    <2>2. CASE loop' = [loop EXCEPT !.pending = @ \ {c}, !.approvals = @ \cup {c}]
      <3>1. /\ loop' = [loop EXCEPT !.pending = loop.pending \ {c}, !.approvals = loop.approvals \cup {c}]
            /\ loop.pending \ {c} \in SUBSET Nat /\ loop.approvals \cup {c} \in SUBSET Nat
        BY <1>1, <1>5, <2>2 DEF Loop
      <3>2. /\ loop' \in Loop /\ loop'.pc = loop.pc /\ loop'.turn = loop.turn /\ loop'.total = loop.total
            /\ loop'.pending = loop.pending \ {c} /\ loop'.results = loop.results
        BY <1>1, <3>1 DEF Loop
      <3> QED BY <1>3, <3>2
    <2> QED BY <2>1, <2>2 DEF RunCall
  <1>8. Recorded' = Recorded /\ Count' = Count BY <1>1, <1>4, CountStays
  <1>9. LoopTypeOK' BY <1>1, <1>4, <1>6, <1>7 DEF LoopTypeOK
  <1>10. \A t \in 1..k : /\ dispatched'[t] \subseteq turns[t].calls
                         /\ dispatched'[t] # {} => turns[t].discovered
    <2> TAKE t \in 1..k
    <2>1. dispatched[t] \subseteq turns[t].calls /\ (dispatched[t] # {} => turns[t].discovered)
      BY <1>1 DEF DurableOK
    <2>2. CASE t = k BY <1>3, <1>5, <1>6, <2>1, <2>2
    <2>3. CASE t # k BY <1>6, <2>1, <2>3
    <2> QED BY <2>2, <2>3
  <1>11. Cardinality(Given') <= MaxTotalToolCalls
    <2>1. ASSUME NEW q \in Given' PROVE q \in Recorded
      <3>1. PICK t \in DOMAIN turns' : q \in {<<t, d>> : d \in dispatched'[t]} BY DEF Given
      <3>2. PICK d \in dispatched'[t] : q = <<t, d>> BY <3>1
      <3>3. t \in 1..k BY <1>2, <1>4
      <3>4. d \in turns[t].calls /\ turns[t].discovered BY <1>10, <3>2, <3>3
      <3> QED BY <1>2, <3>2, <3>3, <3>4 DEF Recorded, CallsOf, Discovered
    <2>2. Given' \in SUBSET Recorded /\ IsFiniteSet(Recorded) BY <1>1, <2>1 DEF DurableOK
    <2>3. Cardinality(Given') <= Count /\ Cardinality(Given') \in Nat
      BY <2>2, FS_Subset, FS_CardinalityType DEF Count
    <2>4. Count \in Nat /\ MaxTotalToolCalls \in Nat BY <1>1, CountIsNat, LoopAssumption
    <2> QED BY <1>3, <2>3, <2>4
  <1>12. DurableOK' BY <1>1, <1>4, <1>8, <1>10, <1>11 DEF DurableOK
  <1>13. LoopFits(loop, progress)'
    <2>1. /\ loop'.pending \cup loop'.results \subseteq turn.calls /\ turn.results \subseteq loop'.results
          /\ loop'.pending \cap turn.results = {}
      BY <1>3, <1>5, <1>7
    <2> QED BY <1>3, <1>4, <1>7, <1>8, <2>1 DEF LoopFits
  <1> QED BY <1>4, <1>9, <1>12, <1>13 DEF LoopIInv

LEMMA ProviderTurnShape ==
    ASSUME NEW next \in ProviderTurns
    PROVE  /\ next \in Turn /\ ~next.discovered /\ next.results = {} /\ next.calls \subseteq Nat
  <1>1. PICK end \in TurnEnd, n \in Nat : next = NewTurn(end, n)
    BY LoopAssumption DEF ProviderTurns, TurnEnd
  <1> QED BY <1>1 DEF NewTurn, Turn, Budget

LEMMA ContinueTurnPreserves ==
    ASSUME LoopIInv, ContinueTurn
    PROVE  LoopIInv'
  <1> DEFINE k == Len(turns)
  <1>1. LoopTypeOK /\ DurableOK /\ loop \in Loop /\ progress \in Progress /\ LoopFits(loop, progress)
    BY DEF LoopIInv, LoopTypeOK
  <1>2. /\ k \in Nat \ {0} /\ k \in 1..k /\ DOMAIN turns = 1..k /\ turns \in Seq(Turn)
        /\ dispatched \in Seq(SUBSET Nat) /\ Len(dispatched) = k
    BY <1>1, TurnsByPlace DEF LoopTypeOK
  <1>3. loop.turn = k /\ loop.total = Count /\ turns[k].results = turns[k].calls
    BY <1>1 DEF ContinueTurn, LoopFits
  <1>4. PICK next \in ProviderTurns : turns' = Append(turns, next) BY DEF ContinueTurn
  <1>5. /\ dispatched' = Append(dispatched, {}) /\ UNCHANGED <<progress, stream>>
        /\ loop' = [loop EXCEPT !.pc = "check", !.turn = k + 1]
    BY <1>3 DEF ContinueTurn
  <1>6. next \in Turn /\ ~next.discovered /\ next.results = {} BY ProviderTurnShape
  <1>7. /\ turns' \in Seq(Turn) /\ Len(turns') = k + 1 /\ turns'[k + 1] = next
        /\ \A t \in 1..k : turns'[t] = turns[t]
    BY <1>2, <1>4, <1>6, AppendProperties
  <1>8. DOMAIN turns' = 1..k + 1 BY <1>7, LenProperties
  <1>9. /\ dispatched' \in Seq(SUBSET Nat) /\ Len(dispatched') = k + 1 /\ dispatched'[k + 1] = {}
        /\ \A t \in 1..k : dispatched'[t] = dispatched[t]
    <2>1. {} \in SUBSET Nat OBVIOUS
    <2>2. /\ Append(dispatched, {}) \in Seq(SUBSET Nat) /\ Len(Append(dispatched, {})) = Len(dispatched) + 1
          /\ \A t \in 1..Len(dispatched) : Append(dispatched, {})[t] = dispatched[t]
          /\ Append(dispatched, {})[Len(dispatched) + 1] = {}
      BY <1>2, <2>1, AppendProperties
    <2> HIDE DEF k
    <2> QED BY <1>2, <1>5, <2>2
  <1>10. loop' \in Loop /\ loop'.pc = "check" /\ loop'.turn = k + 1 /\ loop'.total = Count
    <2>1. k + 1 \in Nat BY <1>2
    <2> HIDE DEF k
    <2> QED BY <1>1, <1>3, <1>5, <2>1 DEF Loop
  <1> HIDE DEF k
  <1>11. \A t : t \in DOMAIN turns' <=> t \in 1..k \/ t = k + 1 BY <1>2, <1>8
  <1>12. Recorded' = Recorded
    <2>1. \A q : q \in Recorded' <=>
             \E t \in DOMAIN turns' : turns'[t].discovered /\ \E c \in turns'[t].calls : q = <<t, c>>
      BY DEF Recorded, CallsOf, Discovered
    <2>2. \A q : q \in Recorded <=>
             \E t \in DOMAIN turns : turns[t].discovered /\ \E c \in turns[t].calls : q = <<t, c>>
      BY DEF Recorded, CallsOf, Discovered
    <2>3. ASSUME NEW q PROVE q \in Recorded' <=> q \in Recorded
      BY <1>2, <1>6, <1>7, <1>11, <2>1, <2>2
    <2> QED BY <2>3
  <1>13. Given' = Given
    <2>1. \A q : q \in Given' <=> \E t \in DOMAIN turns' : \E c \in dispatched'[t] : q = <<t, c>> BY DEF Given
    <2>2. \A q : q \in Given <=> \E t \in DOMAIN turns : \E c \in dispatched[t] : q = <<t, c>> BY DEF Given
    <2>3. ASSUME NEW q PROVE q \in Given' <=> q \in Given
      BY <1>2, <1>9, <1>11, <2>1, <2>2
    <2> QED BY <2>3
  <1>14. LoopTypeOK'
    <2>1. Len(turns') > 0 BY <1>2, <1>7
    <2> QED BY <1>1, <1>5, <1>7, <1>9, <1>10, <2>1 DEF LoopTypeOK
  <1>15. DurableOK'
    <2>1. \A t \in 1..k : /\ dispatched[t] \subseteq turns[t].calls
                          /\ dispatched[t] # {} => turns[t].discovered
                          /\ turns[t].results \subseteq turns[t].calls
                          /\ t < k => turns[t].results = turns[t].calls
      BY <1>1 DEF DurableOK, k
    <2>2. ASSUME NEW t \in 1..k + 1
          PROVE  /\ dispatched'[t] \subseteq turns'[t].calls
                 /\ dispatched'[t] # {} => turns'[t].discovered
                 /\ turns'[t].results \subseteq turns'[t].calls
                 /\ t < k + 1 => turns'[t].results = turns'[t].calls
      <3>1. CASE t = k + 1
        <4>1. ~(t < k + 1) BY <1>2, <3>1
        <4> QED BY <1>6, <1>7, <1>9, <3>1, <4>1
      <3>2. CASE t \in 1..k
        <4>1. turns[t].results = turns[t].calls
          <5>1. t < k \/ t = k BY <1>2, <3>2
          <5> QED BY <1>3, <2>1, <3>2, <5>1
        <4> QED BY <1>7, <1>9, <2>1, <3>2, <4>1
      <3>3. t = k + 1 \/ t \in 1..k BY <1>2
      <3> QED BY <3>1, <3>2, <3>3
    <2> QED BY <1>1, <1>7, <1>12, <1>13, <2>2 DEF DurableOK
  <1>16. LoopFits(loop, progress)' BY <1>7, <1>10, <1>12 DEF LoopFits, Count
  <1> QED BY <1>5, <1>14, <1>15, <1>16 DEF LoopIInv

------------------------------------------------
LEMMA OneTurn ==
    ASSUME NEW first \in Turn, ~first.discovered, first.results = {},
           turns = <<first>>, dispatched = <<{}>>
    PROVE  /\ turns \in Seq(Turn) /\ Len(turns) = 1 /\ turns[1] = first
           /\ dispatched \in Seq(SUBSET Nat) /\ Len(dispatched) = 1 /\ dispatched[1] = {}
           /\ Recorded = {} /\ Given = {}
  <1>1. turns \in Seq(Turn) /\ Len(turns) = 1 /\ turns[1] = first /\ DOMAIN turns = {1} OBVIOUS
  <1>2. dispatched \in Seq(SUBSET Nat) /\ Len(dispatched) = 1 /\ dispatched[1] = {} OBVIOUS
  <1>3. Recorded = {}
    <2>1. Discovered = {} BY <1>1 DEF Discovered
    <2> QED BY <2>1 DEF Recorded, CallsOf
  <1>4. Given = {}
    <2>1. \A q \in Given : \E t \in {1} : \E c \in dispatched[t] : q = <<t, c>> BY <1>1 DEF Given
    <2> QED BY <1>2, <2>1
  <1> QED BY <1>1, <1>2, <1>3, <1>4

LEMMA LoopInitially ==
    ASSUME LoopInit
    PROVE  LoopIInv
  <1>1. PICK first \in ProviderTurns : turns = <<first>> BY DEF LoopInit
  <1>2. first \in Turn /\ ~first.discovered /\ first.results = {} BY ProviderTurnShape
  <1>3. dispatched = <<{}>> /\ loop = NoLoop /\ progress = NoProgress /\ stream = NoStream BY DEF LoopInit
  <1>4. /\ turns \in Seq(Turn) /\ Len(turns) = 1 /\ turns[1] = first
        /\ dispatched \in Seq(SUBSET Nat) /\ Len(dispatched) = 1 /\ dispatched[1] = {}
        /\ Recorded = {} /\ Given = {}
    BY <1>1, <1>2, <1>3, OneTurn
  <1>5. loop \in Loop /\ progress \in Progress BY <1>3 DEF NoLoop, NoProgress, Loop, LoopStatus, Progress
  <1>6. LoopTypeOK BY <1>4, <1>5 DEF LoopTypeOK
  <1>7. DurableOK
    <2>1. IsFiniteSet(Recorded) /\ Cardinality(Given) = 0 BY <1>4, FS_EmptySet
    <2>2. Cardinality(Given) <= MaxTotalToolCalls BY <2>1, LoopAssumption
    <2> QED BY <1>2, <1>4, <2>1, <2>2 DEF DurableOK
  <1>8. LoopFits(loop, progress) BY <1>3 DEF LoopFits, NoLoop, NoProgress
  <1> QED BY <1>3, <1>6, <1>7, <1>8 DEF LoopIInv

LEMMA LoopSteps ==
    ASSUME LoopIInv, [LoopNext]_loopVars
    PROVE  LoopIInv'
  <1>1. CASE UNCHANGED loopVars
    <2> DEFINE l == loop'
               p == progress'
    <2>1. UNCHANGED <<turns, loop, progress, dispatched, stream>> BY <1>1 DEF loopVars
    <2>2. loop' \in Loop /\ progress' \in Progress BY <2>1 DEF LoopIInv, LoopTypeOK
    <2>3. LoopFits(l, p) BY <2>1 DEF LoopIInv
    <2> HIDE DEF l, p
    <2> QED BY <2>1, <2>2, <2>3, LoopFrame DEF l, p
  <1>2. ASSUME NEW c, RunCall(c) PROVE LoopIInv' BY <1>2, RunCallPreserves
  <1>3. CASE RunToolLoop \/ CheckTurn \/ CheckBudget \/ RecordExhaustion \/ WorkerQuits \/ WorkersStop
    BY <1>3, RunToolLoopPreserves, CheckTurnPreserves, CheckBudgetPreserves, RecordExhaustionPreserves,
       WorkerQuitsPreserves, WorkersStopPreserves
  <1>4. CASE RecordResults \/ RecordApprovals \/ ContinueTurn \/ LoopCrash
    BY <1>4, RecordResultsPreserves, RecordApprovalsPreserves, ContinueTurnPreserves, LoopCrashPreserves
  <1> QED BY <1>1, <1>2, <1>3, <1>4 DEF LoopNext

\* The inductive invariant of runToolLoop: the running total, the progress a
\* paused run returned and the count of the discovered calls agree.
THEOREM LoopInvariant == LoopSpec => []LoopIInv
  <1>1. LoopInit => LoopIInv BY LoopInitially
  <1>2. LoopIInv /\ [LoopNext]_loopVars => LoopIInv' BY LoopSteps
  <1> QED BY <1>1, <1>2, PTL DEF LoopSpec

LEMMA LoopFollows ==
    ASSUME LoopIInv
    PROVE  LoopSound
  <1>1. LoopTypeOK /\ DurableOK /\ LoopFits(loop, progress) /\ stream = NoStream BY DEF LoopIInv
  <1>2. LoopWithinBudget
    <2>1. Len(turns) \in Nat BY <1>1, TurnsByPlace
    <2>2. \A t \in 1..Len(turns) - 1 : turns[t].results = turns[t].calls
      <3> TAKE t \in 1..Len(turns) - 1
      <3>1. t \in 1..Len(turns) /\ t < Len(turns) BY <2>1
      <3> QED BY <1>1, <3>1 DEF DurableOK
    <2>3. loop.pc = "work" => loop.pending \cap turns[loop.turn].results = {} BY <1>1 DEF LoopFits
    <2>4. Cardinality(UNION {{<<t, c>> : c \in dispatched[t]} : t \in DOMAIN turns}) <= MaxTotalToolCalls
      BY <1>1 DEF DurableOK, Given
    <2> QED BY <2>2, <2>3, <2>4 DEF LoopWithinBudget
  <1>3. OneResponse
    <2>1. stream.emitted = <<>> /\ stream.ids = <<>> /\ stream.ran = 0 BY <1>1 DEF NoStream
    <2>2. stream.ran <= MaxTotalToolCalls BY <2>1, LoopAssumption
    <2> QED BY <2>1, <2>2 DEF OneResponse
  <1> QED BY <1>2, <1>3 DEF LoopSound

\* For any limits, turns, crashes, pauses and resumes: never are more calls
\* given to the executor than maxTotalToolCalls allows, a turn is continued
\* only when each of its calls has a durable result, and no run gives a call
\* with a durable result to the executor again (runToolLoop, loop.ts).
THEOREM LoopIsSound == LoopSpec => []LoopSound
  <1>1. LoopIInv => LoopSound BY LoopFollows
  <1> QED BY <1>1, LoopInvariant, PTL

------------------------------------------------
\* What the provider loop emits is numbered on from the last event.
LEMMA EmitNumbers ==
    ASSUME NEW s \in Stream, Numbered(s), NEW kind \in Kinds, (kind = "started" <=> s.sequence = 0)
    PROVE  LET u == Emit(s, kind) IN
           /\ u \in Stream /\ Numbered(u) /\ u.sequence = s.sequence + 1
           /\ \A i \in 1..s.sequence : u.emitted[i] = s.emitted[i]
           /\ u.emitted[s.sequence + 1] = kind
           /\ u.pc = s.pc /\ u.iteration = s.iteration /\ u.found = s.found /\ u.calls = s.calls
           /\ u.ran = s.ran /\ u.usages = s.usages /\ u.final = s.final
  <1> DEFINE n == s.sequence
             u == Emit(s, kind)
             kinds == Append(s.emitted, kind)
             ids == Append(s.ids, n)
  <1>1. n \in Nat /\ s.emitted \in Seq(Kinds) /\ s.ids \in Seq(Nat) BY DEF Stream
  <1>2. /\ Len(s.ids) = n /\ Len(s.emitted) = n
        /\ \A i \in 1..n : s.ids[i] = i - 1 /\ (s.emitted[i] = "started" <=> i = 1)
    BY DEF Numbered
  <1>3. /\ kinds \in Seq(Kinds) /\ Len(kinds) = n + 1 /\ kinds[n + 1] = kind
        /\ \A i \in 1..n : kinds[i] = s.emitted[i]
    BY <1>1, <1>2, AppendProperties
  <1>4. /\ ids \in Seq(Nat) /\ Len(ids) = n + 1 /\ ids[n + 1] = n /\ \A i \in 1..n : ids[i] = s.ids[i]
    BY <1>1, <1>2, AppendProperties
  <1>5. u = [s EXCEPT !.emitted = kinds, !.ids = ids, !.sequence = n + 1] BY DEF Emit
  <1> HIDE DEF kinds, ids, u
  <1>6. /\ u \in Stream /\ u.emitted = kinds /\ u.ids = ids /\ u.sequence = n + 1
        /\ u.pc = s.pc /\ u.iteration = s.iteration /\ u.found = s.found /\ u.calls = s.calls
        /\ u.ran = s.ran /\ u.usages = s.usages /\ u.final = s.final
    <2>1. n + 1 \in Nat BY <1>1
    <2> HIDE DEF n
    <2> QED BY <1>3, <1>4, <1>5, <2>1 DEF Stream
  <1>7. Numbered(u)
    <2> SUFFICES ASSUME NEW i \in 1..n + 1
                 PROVE  ids[i] = i - 1 /\ (kinds[i] = "started" <=> i = 1)
      BY <1>3, <1>4, <1>6 DEF Numbered
    <2>1. CASE i \in 1..n BY <1>2, <1>3, <1>4, <2>1
    <2>2. CASE i = n + 1
      <3>1. i - 1 = n /\ (i = 1 <=> n = 0) BY <1>1, <2>2
      <3> QED BY <1>3, <1>4, <2>2, <3>1
    <2>3. i \in 1..n \/ i = n + 1 BY <1>1
    <2> QED BY <2>1, <2>2, <2>3
  <1> QED BY <1>3, <1>6, <1>7 DEF u

LEMMA StreamFrame ==
    ASSUME StreamIInv, KeepLoop, NEW s, s = stream', s \in Stream, Numbered(s), StreamFits(s)
    PROVE  StreamIInv'
  BY DEF StreamIInv, KeepLoop, Numbered, StreamFits

\* A step that emits nothing and does not end the response.
LEMMA SilentStep ==
    ASSUME StreamIInv, stream.pc # "ended", NEW s \in Stream, s.pc # "ended",
           s.ids = stream.ids, s.emitted = stream.emitted, s.sequence = stream.sequence,
           s.sequence = 0 => s.iteration = 0 /\ s.pc \in {"iterate", "invoke", "cancelled", "thrown"},
           s.pc = "iterate" /\ s.iteration > 0 => s.final = "tool_calls",
           s.pc = "tools" => s.final = "tool_calls",
           s.pc = "finish" => s.final # "none",
           s.ran <= s.calls, s.ran <= MaxTotalToolCalls
    PROVE  Numbered(s) /\ StreamFits(s)
  <1>1. Numbered(s) BY DEF StreamIInv, Numbered
  <1>2. StreamFits(s) BY DEF StreamIInv, StreamFits
  <1> QED BY <1>1, <1>2

LEMMA StreamBudget ==
    ASSUME StreamIInv
    PROVE  /\ stream \in Stream /\ stream.ran <= stream.calls /\ stream.ran <= MaxTotalToolCalls
           /\ stream.iteration \in Nat /\ stream.sequence \in Nat /\ stream.ran \in Nat /\ stream.calls \in Nat
           /\ stream.found \in Nat /\ stream.usages \in Nat
           /\ stream.pc \notin {"iterate", "invoke", "cancelled", "thrown"} => stream.sequence > 0
           /\ stream.iteration > 0 => stream.sequence > 0
  <1>1. stream \in Stream /\ StreamFits(stream) BY DEF StreamIInv
  <1>2. /\ stream.iteration \in Nat /\ stream.sequence \in Nat /\ stream.ran \in Nat /\ stream.calls \in Nat
        /\ stream.found \in Nat /\ stream.usages \in Nat
    BY <1>1 DEF Stream
  <1>3. stream.sequence = 0 => stream.iteration = 0 /\ stream.pc \in {"iterate", "invoke", "cancelled", "thrown"}
    BY <1>1 DEF StreamFits
  <1> QED BY <1>1, <1>2, <1>3 DEF StreamFits

LEMMA IteratePreserves ==
    ASSUME StreamIInv, Iterate
    PROVE  StreamIInv'
  <1>1. /\ stream \in Stream /\ stream.ran <= stream.calls /\ stream.ran <= MaxTotalToolCalls
        /\ stream.iteration \in Nat /\ stream.sequence \in Nat
        /\ stream.iteration > 0 => stream.sequence > 0
    BY StreamBudget
  <1>2. stream.pc = "iterate" /\ KeepLoop BY DEF Iterate
  <1>3. CASE stream.iteration < MaxIterations
    <2> DEFINE s == [stream EXCEPT !.pc = "invoke", !.found = 0]
    <2>1. stream' = s BY <1>3 DEF Iterate
    <2>2. /\ s \in Stream /\ s.pc = "invoke" /\ s.ids = stream.ids /\ s.emitted = stream.emitted
          /\ s.sequence = stream.sequence /\ s.iteration = stream.iteration /\ s.final = stream.final
          /\ s.ran = stream.ran /\ s.calls = stream.calls
      BY <1>1 DEF Stream
    <2> HIDE DEF s
    <2>3. Numbered(s) /\ StreamFits(s) BY <1>1, <1>2, <2>2, SilentStep
    <2> QED BY <1>2, <2>1, <2>2, <2>3, StreamFrame
  <1>4. CASE ~(stream.iteration < MaxIterations)
    <2> DEFINE s == [stream EXCEPT !.pc = "finish"]
    <2>1. stream' = s BY <1>4 DEF Iterate
    <2>2. /\ s \in Stream /\ s.pc = "finish" /\ s.ids = stream.ids /\ s.emitted = stream.emitted
          /\ s.sequence = stream.sequence /\ s.iteration = stream.iteration /\ s.final = stream.final
          /\ s.ran = stream.ran /\ s.calls = stream.calls
      BY <1>1 DEF Stream
    <2> HIDE DEF s
    <2>3. stream.iteration > 0 BY <1>1, <1>4, LoopAssumption
    <2>4. stream.final = "tool_calls" BY <1>2, <2>3 DEF StreamIInv, StreamFits
    <2>5. Numbered(s) /\ StreamFits(s) BY <1>1, <1>2, <2>2, <2>3, <2>4, SilentStep
    <2> QED BY <1>2, <2>1, <2>2, <2>5, StreamFrame
  <1> QED BY <1>3, <1>4

LEMMA IterationRefusedPreserves ==
    ASSUME StreamIInv, IterationRefused
    PROVE  StreamIInv'
  <1>1. /\ stream \in Stream /\ stream.ran <= stream.calls /\ stream.ran <= MaxTotalToolCalls
        /\ stream.iteration \in Nat /\ stream.sequence \in Nat
        /\ stream.iteration > 0 => stream.sequence > 0
    BY StreamBudget
  <1>2. stream.pc = "iterate" /\ KeepLoop BY DEF IterationRefused
  <1>3. PICK pc \in {"cancelled", "thrown"} : stream' = [stream EXCEPT !.pc = pc] BY DEF IterationRefused
  <1> DEFINE s == [stream EXCEPT !.pc = pc]
  <1>4. /\ s \in Stream /\ s.pc = pc /\ s.ids = stream.ids /\ s.emitted = stream.emitted
        /\ s.sequence = stream.sequence /\ s.iteration = stream.iteration
        /\ s.ran = stream.ran /\ s.calls = stream.calls
    BY <1>1 DEF Stream
  <1>5. stream' = s BY <1>3
  <1> HIDE DEF s
  <1>6. Numbered(s) /\ StreamFits(s) BY <1>1, <1>2, <1>4, SilentStep
  <1> QED BY <1>2, <1>4, <1>5, <1>6, StreamFrame

\* A step that emits an event which does not end the response.
LEMMA EmitStep ==
    ASSUME StreamIInv, stream.pc # "ended", NEW kind \in Kinds \ Terminal,
           (kind = "started" <=> stream.sequence = 0)
    PROVE  LET u == Emit(stream, kind) IN
           /\ u \in Stream /\ Numbered(u) /\ u.sequence = stream.sequence + 1 /\ u.sequence > 0
           /\ \A i \in 1..u.sequence : u.emitted[i] \notin Terminal
           /\ u.pc = stream.pc /\ u.iteration = stream.iteration /\ u.found = stream.found
           /\ u.calls = stream.calls /\ u.ran = stream.ran /\ u.usages = stream.usages /\ u.final = stream.final
  <1> DEFINE n == stream.sequence
             u == Emit(stream, kind)
  <1>1. stream \in Stream /\ Numbered(stream) /\ n \in Nat BY StreamBudget DEF StreamIInv
  <1>2. \A i \in 1..n : stream.emitted[i] \notin Terminal BY DEF StreamIInv, StreamFits
  <1>3. /\ u \in Stream /\ Numbered(u) /\ u.sequence = n + 1
        /\ \A i \in 1..n : u.emitted[i] = stream.emitted[i]
        /\ u.emitted[n + 1] = kind
        /\ u.pc = stream.pc /\ u.iteration = stream.iteration /\ u.found = stream.found /\ u.calls = stream.calls
        /\ u.ran = stream.ran /\ u.usages = stream.usages /\ u.final = stream.final
    BY <1>1, EmitNumbers
  <1> HIDE DEF u, n
  <1>4. ASSUME NEW i \in 1..n + 1 PROVE u.emitted[i] \notin Terminal
    <2>1. i \in 1..n \/ i = n + 1 BY <1>1
    <2> QED BY <1>2, <1>3, <2>1
  <1>5. n + 1 > 0 BY <1>1
  <1> QED BY <1>3, <1>4, <1>5 DEF u, n

LEMMA AdapterStartsPreserves ==
    ASSUME StreamIInv, AdapterStarts
    PROVE  StreamIInv'
  <1> DEFINE u == IF stream.sequence = 0 THEN Emit(stream, "started") ELSE stream
             s == [u EXCEPT !.pc = "stream"]
  <1>1. stream.pc = "invoke" /\ KeepLoop /\ stream' = s BY DEF AdapterStarts
  <1>2. /\ u \in Stream /\ Numbered(u) /\ u.sequence > 0
        /\ \A i \in 1..u.sequence : u.emitted[i] \notin Terminal
        /\ u.ran <= u.calls /\ u.ran <= MaxTotalToolCalls
    <2>1. /\ stream \in Stream /\ stream.ran <= stream.calls /\ stream.ran <= MaxTotalToolCalls
          /\ stream.sequence \in Nat
      BY StreamBudget
    <2>2. CASE stream.sequence = 0
      <3>1. "started" \in Kinds \ Terminal /\ stream.pc # "ended" BY <1>1 DEF Kinds, Terminal
      <3> HIDE DEF s
      <3> QED BY <2>1, <2>2, <3>1, EmitStep
    <2>3. CASE stream.sequence # 0 BY <1>1, <2>1, <2>3 DEF StreamIInv, StreamFits
    <2> QED BY <2>2, <2>3
  <1> HIDE DEF u
  <1>3. /\ s \in Stream /\ s.pc = "stream" /\ s.ids = u.ids /\ s.emitted = u.emitted
        /\ s.sequence = u.sequence /\ s.ran = u.ran /\ s.calls = u.calls
    BY <1>2 DEF Stream
  <1> HIDE DEF s
  <1>4. u.sequence \in Nat BY <1>2 DEF Stream
  <1>5. Numbered(s) BY <1>2, <1>3 DEF Numbered
  <1>6. StreamFits(s) BY <1>2, <1>3, <1>4 DEF StreamFits
  <1> QED BY <1>1, <1>3, <1>5, <1>6, StreamFrame

LEMMA AdapterCallsPreserves ==
    ASSUME StreamIInv, AdapterCalls
    PROVE  StreamIInv'
  <1> DEFINE u == Emit(stream, "tool_call")
             s == [u EXCEPT !.found = u.found + 1]
  <1>1. stream.pc = "stream" /\ KeepLoop /\ stream' = s BY DEF AdapterCalls
  <1>2. /\ stream.ran <= stream.calls /\ stream.ran <= MaxTotalToolCalls /\ stream.sequence > 0
        /\ stream.sequence \in Nat
    BY <1>1, StreamBudget
  <1>3. "tool_call" \in Kinds \ Terminal /\ "tool_call" # "started" /\ stream.sequence # 0
    BY <1>2 DEF Kinds, Terminal, TurnEnd
  <1>4. /\ u \in Stream /\ Numbered(u) /\ u.sequence > 0 /\ u.pc = "stream"
        /\ \A i \in 1..u.sequence : u.emitted[i] \notin Terminal
        /\ u.ran = stream.ran /\ u.calls = stream.calls
    <2> HIDE DEF s
    <2> QED BY <1>1, <1>3, EmitStep
  <1> HIDE DEF u
  <1>5. u.found + 1 \in Nat /\ u.sequence \in Nat BY <1>4 DEF Stream
  <1>6. /\ s \in Stream /\ s.pc = "stream" /\ s.ids = u.ids /\ s.emitted = u.emitted
        /\ s.sequence = u.sequence /\ s.ran = u.ran /\ s.calls = u.calls
    <2> DEFINE more == u.found + 1
    <2>1. more \in Nat /\ s = [u EXCEPT !.found = more] BY <1>5
    <2> HIDE DEF more, s
    <2> QED BY <1>4, <2>1 DEF Stream
  <1> HIDE DEF s
  <1>7. Numbered(s) BY <1>4, <1>6 DEF Numbered
  <1>8. StreamFits(s) BY <1>2, <1>4, <1>5, <1>6 DEF StreamFits
  <1> QED BY <1>1, <1>6, <1>7, <1>8, StreamFrame

LEMMA AdapterEndsPreserves ==
    ASSUME StreamIInv, AdapterEnds
    PROVE  StreamIInv'
  <1>1. stream.pc = "stream" /\ KeepLoop BY DEF AdapterEnds
  <1>2. PICK final \in {"tool_calls", "stop", "failed", "cancelled"}, usage \in {0, 1} :
            stream' = [stream EXCEPT !.pc = IF final = "tool_calls" THEN "tools" ELSE "finish",
                                     !.final = final, !.usages = stream.usages + usage]
    BY DEF AdapterEnds
  <1> DEFINE pc == IF final = "tool_calls" THEN "tools" ELSE "finish"
             usages == stream.usages + usage
             s == [stream EXCEPT !.pc = pc, !.final = final, !.usages = usages]
  <1>3. /\ stream \in Stream /\ stream.ran <= stream.calls /\ stream.ran <= MaxTotalToolCalls
        /\ stream.sequence > 0 /\ stream.sequence \in Nat /\ usages \in Nat
    BY <1>1, StreamBudget
  <1>4. stream' = s /\ pc \in {"tools", "finish"} /\ (pc = "tools" => final = "tool_calls") BY <1>2
  <1> HIDE DEF pc, usages
  <1>5. /\ s \in Stream /\ s.pc = pc /\ s.ids = stream.ids /\ s.emitted = stream.emitted
        /\ s.sequence = stream.sequence /\ s.iteration = stream.iteration /\ s.final = final
        /\ s.ran = stream.ran /\ s.calls = stream.calls
    BY <1>3, <1>4 DEF Stream, TurnEnd
  <1> HIDE DEF s
  <1>6. Numbered(s) /\ StreamFits(s) BY <1>1, <1>3, <1>4, <1>5, SilentStep
  <1> QED BY <1>1, <1>4, <1>5, <1>6, StreamFrame

LEMMA ExecuteBatchesPreserves ==
    ASSUME StreamIInv, ExecuteBatches
    PROVE  StreamIInv'
  <1> DEFINE calls == stream.calls + stream.found
  <1>1. stream.pc = "tools" /\ KeepLoop BY DEF ExecuteBatches
  <1>2. /\ stream \in Stream /\ stream.ran <= stream.calls /\ stream.ran <= MaxTotalToolCalls
        /\ stream.sequence > 0 /\ stream.sequence \in Nat /\ calls \in Nat /\ stream.ran \in Nat
        /\ stream.iteration + 1 \in Nat /\ stream.found \in Nat /\ stream.calls \in Nat
    BY <1>1, StreamBudget
  <1>3. MaxTotalToolCalls \in Nat BY LoopAssumption
  <1>4. CASE stream' = [stream EXCEPT !.pc = "thrown", !.calls = calls]
    <2> DEFINE s == [stream EXCEPT !.pc = "thrown", !.calls = calls]
    <2>1. stream.ran <= calls BY <1>2
    <2> HIDE DEF calls
    <2>2. /\ s \in Stream /\ s.pc = "thrown" /\ s.ids = stream.ids /\ s.emitted = stream.emitted
          /\ s.sequence = stream.sequence /\ s.ran = stream.ran /\ s.calls = calls
      BY <1>2 DEF Stream
    <2>3. stream' = s BY <1>4
    <2> HIDE DEF s
    <2>4. Numbered(s) /\ StreamFits(s) BY <1>1, <1>2, <2>1, <2>2, SilentStep
    <2> QED BY <1>1, <2>2, <2>3, <2>4, StreamFrame
  <1>5. CASE /\ calls <= MaxTotalToolCalls
             /\ stream' = [stream EXCEPT !.pc = "iterate", !.iteration = stream.iteration + 1, !.calls = calls,
                                         !.ran = stream.ran + stream.found]
    <2> DEFINE ran == stream.ran + stream.found
               iteration == stream.iteration + 1
               s == [stream EXCEPT !.pc = "iterate", !.iteration = iteration, !.calls = calls, !.ran = ran]
    <2>1. ran <= calls /\ ran \in Nat /\ ran <= MaxTotalToolCalls /\ iteration \in Nat BY <1>2, <1>3, <1>5
    <2>2. stream' = s BY <1>5
    <2> HIDE DEF calls, ran, iteration
    <2>3. /\ s \in Stream /\ s.pc = "iterate" /\ s.ids = stream.ids /\ s.emitted = stream.emitted
          /\ s.sequence = stream.sequence /\ s.ran = ran /\ s.calls = calls /\ s.final = stream.final
      BY <1>2, <2>1 DEF Stream
    <2> HIDE DEF s
    <2>4. stream.final = "tool_calls" BY <1>1 DEF StreamIInv, StreamFits
    <2>5. Numbered(s) /\ StreamFits(s) BY <1>1, <1>2, <2>1, <2>3, <2>4, SilentStep
    <2> QED BY <1>1, <2>2, <2>3, <2>5, StreamFrame
  <1>6. ASSUME NEW r \in 1..stream.found, calls <= MaxTotalToolCalls,
               stream' = [stream EXCEPT !.pc = "finish", !.calls = calls, !.ran = stream.ran + r, !.final = "failed"]
        PROVE  StreamIInv'
    <2> DEFINE ran == stream.ran + r
               s == [stream EXCEPT !.pc = "finish", !.calls = calls, !.ran = ran, !.final = "failed"]
    <2>1. ran <= calls /\ ran \in Nat /\ ran <= MaxTotalToolCalls BY <1>2, <1>3, <1>6
    <2>2. stream' = s BY <1>6
    <2> HIDE DEF calls, ran
    <2>3. /\ s \in Stream /\ s.pc = "finish" /\ s.ids = stream.ids /\ s.emitted = stream.emitted
          /\ s.sequence = stream.sequence /\ s.ran = ran /\ s.calls = calls /\ s.final = "failed"
      BY <1>2, <2>1 DEF Stream, TurnEnd
    <2> HIDE DEF s
    <2>4. Numbered(s) /\ StreamFits(s) BY <1>1, <1>2, <2>1, <2>3, SilentStep
    <2> QED BY <1>1, <2>2, <2>3, <2>4, StreamFrame
  <1> QED BY <1>4, <1>5, <1>6 DEF ExecuteBatches

\* The total usage, if any was reported, and the one event that ends it.
LEMMA FinishPreserves ==
    ASSUME StreamIInv, Finish
    PROVE  StreamIInv'
  <1> DEFINE u == IF stream.usages > 0 THEN Emit(stream, "usage") ELSE stream
             kind == IF stream.final = "tool_calls" THEN "length" ELSE stream.final
             v == Emit(u, kind)
             s == [v EXCEPT !.pc = "ended"]
  <1>1. stream.pc = "finish" /\ KeepLoop /\ stream' = s BY DEF Finish
  <1>2. /\ stream \in Stream /\ stream.ran <= stream.calls /\ stream.ran <= MaxTotalToolCalls
        /\ stream.sequence > 0 /\ stream.sequence \in Nat
    BY <1>1, StreamBudget
  <1>3. kind \in Terminal /\ kind \in Kinds /\ kind # "started"
    <2>1. stream.final \in TurnEnd BY <1>1, <1>2 DEF StreamIInv, StreamFits, Stream
    <2> QED BY <2>1 DEF Terminal, Kinds, TurnEnd
  <1>4. /\ u \in Stream /\ Numbered(u) /\ u.sequence > 0 /\ u.sequence \in Nat
        /\ \A i \in 1..u.sequence : u.emitted[i] \notin Terminal
        /\ u.ran = stream.ran /\ u.calls = stream.calls
    <2>1. CASE stream.usages > 0
      <3>1. "usage" \in Kinds \ Terminal /\ "usage" # "started" /\ stream.sequence # 0
        BY <1>2 DEF Kinds, Terminal, TurnEnd
      <3>2. stream.pc # "ended" BY <1>1
      <3> DEFINE w == Emit(stream, "usage")
      <3>3. /\ w \in Stream /\ Numbered(w) /\ w.sequence > 0
            /\ \A i \in 1..w.sequence : w.emitted[i] \notin Terminal
            /\ w.ran = stream.ran /\ w.calls = stream.calls
        <4> HIDE DEF u, v, s, kind
        <4> QED BY <3>1, <3>2, EmitStep
      <3>4. u = w BY <2>1
      <3> HIDE DEF u, w
      <3> QED BY <3>3, <3>4 DEF Stream
    <2>2. CASE ~(stream.usages > 0)
      <3>1. u = stream BY <2>2
      <3> HIDE DEF u
      <3> QED BY <1>1, <1>2, <3>1 DEF StreamIInv, StreamFits
    <2> QED BY <2>1, <2>2
  <1> HIDE DEF u, kind
  <1> DEFINE n == u.sequence
  <1>5. /\ v \in Stream /\ Numbered(v) /\ v.sequence = n + 1
        /\ \A i \in 1..n : v.emitted[i] = u.emitted[i]
        /\ v.emitted[n + 1] = kind /\ v.ran = stream.ran /\ v.calls = stream.calls
    <2>1. kind = "started" <=> u.sequence = 0 BY <1>3, <1>4
    <2> HIDE DEF s
    <2> QED BY <1>3, <1>4, <2>1, EmitNumbers
  <1> HIDE DEF v
  <1>6. /\ s \in Stream /\ s.pc = "ended" /\ s.ids = v.ids /\ s.emitted = v.emitted
        /\ s.sequence = v.sequence /\ s.ran = v.ran /\ s.calls = v.calls
    BY <1>5 DEF Stream
  <1> HIDE DEF s
  <1>7. Numbered(s) BY <1>5, <1>6 DEF Numbered
  <1>8. StreamFits(s)
    <2>1. n \in Nat /\ s.sequence = n + 1 BY <1>4, <1>5, <1>6
    <2>2. \A i \in 1..n : u.emitted[i] \notin Terminal BY <1>4
    <2> HIDE DEF n
    <2>3. ASSUME NEW i \in 1..s.sequence PROVE s.emitted[i] \in Terminal <=> i = s.sequence
      <3>1. CASE i \in 1..n
        <4>1. i # n + 1 BY <2>1, <3>1
        <4> QED BY <1>5, <1>6, <2>1, <2>2, <3>1, <4>1
      <3>2. CASE i = n + 1 BY <1>3, <1>5, <1>6, <2>1, <3>2
      <3>3. i \in 1..n \/ i = n + 1 BY <2>1
      <3> QED BY <3>1, <3>2, <3>3
    <2>4. s.sequence # 0 BY <2>1
    <2> QED BY <1>2, <1>5, <1>6, <2>3, <2>4 DEF StreamFits
  <1> QED BY <1>1, <1>6, <1>7, <1>8, StreamFrame

LEMMA StreamInitially ==
    ASSUME StreamInit
    PROVE  StreamIInv
  <1>1. /\ turns = <<NewTurn("stop", 0)>> /\ dispatched = <<{}>> /\ loop = NoLoop
        /\ stream = [pc |-> "iterate", iteration |-> 0, emitted |-> <<>>, sequence |-> 0, ids |-> <<>>,
                     found |-> 0, calls |-> 0, ran |-> 0, usages |-> 0, final |-> "none"]
    BY DEF StreamInit, NoStream
  <1>2. <<>> \in Seq(Kinds) /\ <<>> \in Seq(Nat) /\ Len(<<>>) = 0 BY EmptySeq
  <1>3. stream \in Stream BY <1>1, <1>2 DEF Stream
  <1>4. Numbered(stream) BY <1>1, <1>2 DEF Numbered
  <1>5. StreamFits(stream) BY <1>1, LoopAssumption DEF StreamFits
  <1> QED BY <1>1, <1>3, <1>4, <1>5 DEF StreamIInv

LEMMA StreamSteps ==
    ASSUME StreamIInv, [StreamNext]_loopVars
    PROVE  StreamIInv'
  <1>1. CASE UNCHANGED loopVars BY <1>1 DEF loopVars, StreamIInv, Numbered, StreamFits
  <1>2. CASE StreamNext
    BY <1>2, IteratePreserves, IterationRefusedPreserves, AdapterStartsPreserves, AdapterCallsPreserves,
       AdapterEndsPreserves, ExecuteBatchesPreserves, FinishPreserves DEF StreamNext
  <1> QED BY <1>1, <1>2

LEMMA StreamFollows ==
    ASSUME StreamIInv
    PROVE  LoopSound
  <1>1. stream \in Stream /\ Numbered(stream) /\ StreamFits(stream) BY DEF StreamIInv
  <1>2. OneResponse
    <2> DEFINE n == stream.sequence
               kinds == stream.emitted
    <2>1. /\ n \in Nat /\ Len(kinds) = n /\ Len(stream.ids) = n
          /\ kinds \in Seq(Kinds) /\ stream.ids \in Seq(Nat)
      BY <1>1 DEF Stream, Numbered
    <2>2. DOMAIN stream.ids = 1..n /\ DOMAIN kinds = 1..n BY <2>1, LenProperties
    <2>3. \A i \in 1..n : stream.ids[i] = i - 1 /\ (kinds[i] = "started" <=> i = 1) BY <1>1 DEF Numbered
    <2>4. /\ stream.pc # "ended" => \A i \in 1..n : kinds[i] \notin Terminal
          /\ stream.pc = "ended" => \A i \in 1..n : kinds[i] \in Terminal <=> i = n
          /\ stream.ran <= MaxTotalToolCalls
      BY <1>1 DEF StreamFits
    <2>5. kinds # <<>> => Head(kinds) = "started"
      <3> SUFFICES ASSUME kinds # <<>> PROVE Head(kinds) = "started" OBVIOUS
      <3>1. n \in Nat \ {0} BY <2>1, EmptySeq
      <3>2. 1 \in 1..n BY <3>1
      <3>3. Head(kinds) = kinds[1] BY <2>1, HeadTailProperties
      <3> QED BY <2>3, <3>2, <3>3
    <2> HIDE DEF n, kinds
    <2>6. ASSUME NEW i \in 1..n
          PROVE  /\ i > 1 => kinds[i] # "started"
                 /\ (kinds[i] \in {"stop", "length", "failed", "cancelled"}) <=> (i = n /\ stream.pc = "ended")
      <3>1. i > 1 => i # 1 OBVIOUS
      <3> QED BY <2>3, <2>4, <3>1 DEF Terminal
    <2> QED BY <2>1, <2>2, <2>3, <2>4, <2>5, <2>6 DEF OneResponse, kinds
  <1>3. LoopWithinBudget
    <2>1. turns = <<NewTurn("stop", 0)>> /\ dispatched = <<{}>> /\ loop = NoLoop BY DEF StreamIInv
    <2>2. NewTurn("stop", 0) \in Turn /\ ~NewTurn("stop", 0).discovered /\ NewTurn("stop", 0).results = {}
      BY DEF NewTurn, Turn, TurnEnd, Budget
    <2>3. Len(turns) = 1 /\ Given = {} BY <2>1, <2>2, OneTurn
    <2>4. Cardinality(Given) = 0 BY <2>3, FS_EmptySet
    <2>5. Cardinality(Given) <= MaxTotalToolCalls BY <2>4, LoopAssumption
    <2>6. loop.pc # "work" BY <2>1 DEF NoLoop
    <2> QED BY <2>3, <2>5, <2>6 DEF LoopWithinBudget, Given
  <1> QED BY <1>2, <1>3 DEF LoopSound

\* For any limits: however many invocations, tool batches and failures a
\* turn of createProviderToolLoopTransport is made of, it emits one response
\* that begins with started, is numbered without a gap and ends with one
\* terminal event, and it runs no more tools than maxTotalToolCalls allows.
THEOREM StreamIsSound == StreamSpec => []LoopSound
  <1>1. StreamInit => StreamIInv BY StreamInitially
  <1>2. StreamIInv /\ [StreamNext]_loopVars => StreamIInv' BY StreamSteps
  <1>3. StreamIInv => LoopSound BY StreamFollows
  <1> QED BY <1>1, <1>2, <1>3, PTL DEF StreamSpec
================================================
