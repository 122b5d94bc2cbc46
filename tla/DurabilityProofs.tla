---------------- MODULE DurabilityProofs ----------------
(***************************************************************************)
(* Theorems about what is kept for good: the record of a turn and the      *)
(* stores of events.                                                       *)
(*                                                                         *)
(* DurableTransport, for any number of processes, clients and cancellation *)
(* keys, any stream and any faults.                                        *)
(*                                                                         *)
(* A record that a worker owns is running (Owned), and a worker that owns  *)
(* it and is still at work is at work on the record's attempt (Held).  A   *)
(* takeover makes another worker the owner, so the old one can neither     *)
(* append nor settle, and what the owner appends belongs to the latest     *)
(* attempt (EventsBounded).  Before a record exists, or when it was        *)
(* created cancelled, nobody is past the claim (NotBegun).  Once the       *)
(* delegate was asked to cancel, the record holds a cancellation, and who  *)
(* claims it then settles at once (Asked).                                 *)
(*                                                                         *)
(* EventStores, for any callers, any batches that pass validateAppend and  *)
(* any page size: THEOREM StoresAreSound.                                  *)
(*                                                                         *)
(* That the shadow stays a beginning of a PostgreSQL primary is not        *)
(* inductive by itself: the shadow is written long after the primary was,  *)
(* so it must be known that a batch on its way to the shadow still stands  *)
(* in the primary where its revisions say, and that the two logs a         *)
(* reconciliation has read are beginnings of the primary.                  *)
(***************************************************************************)
EXTENDS DurableTransport, EventStores, SequenceTheorems, WellFoundedInduction, TLAPS

------------------------------------------------
\* The record of a turn.

Preparing == {"decode", "ready", "dispatch", "bind"}
Working   == Preparing \cup {"stream"}

Owned         == rec.owner # None => rec.status = "running"
EventsBounded == \A i \in 1..Len(rec.events) : rec.events[i].attempt <= rec.attempt
Held          == \A w \in Workers : rec.owner = w /\ run[w].pc \in Working =>
                                        run[w].attempt = rec.attempt
Begun         == rec.status # "absent" /\ ~rec.early
NotBegun      ==
    /\ ~Begun => /\ starts = 0 /\ forwards = 0
                 /\ \A w \in Workers : run[w].pc \in {"off", "claim"}
    /\ rec.status = "absent" => rec.events = <<>>
    /\ rec.early => rec.status = "cancelled"
Monitored     == \A w \in Workers : run[w].monitor => run[w].pc \in {"stream", "settle"}
Asked         ==
    /\ forwards <= 1
    /\ forwards = 1 =>
         /\ rec.cancellation # None
         /\ \A w \in Workers : rec.owner = w => ~run[w].monitor /\ run[w].pc \notin Preparing

IInv ==
    /\ DurableTypeOK /\ AttemptsInOrder /\ EventsBounded /\ Owned /\ Held
    /\ NotBegun /\ Monitored /\ Asked

\* What a step may do to the record.
Final    == IsTerminal => rec'.status = rec.status /\ rec'.events = rec.events
Honoured == IsOpen /\ rec.cancellation # None => rec'.status # "completed"
Grows    == /\ Len(rec.events) <= Len(rec'.events)
            /\ \A i \in 1..Len(rec.events) : rec'.events[i] = rec.events[i]
Kept     == IInv' /\ Final /\ Honoured /\ Grows

OtherTypes ==
    /\ expired \in BOOLEAN /\ up \subseteq Workers /\ can \in [CancelKeys -> Cancel]
    /\ obs \in [Observers -> Observation] /\ faults \in Nat

------------------------------------------------
\* Steps of one worker.

EventSeq   == Seq([attempt : Nat, frame : Nat])
Ordered(s) == \A i, j \in 1..Len(s) : i <= j => s[i].attempt <= s[j].attempt
UpTo(s, n) == \A i \in 1..Len(s) : s[i].attempt <= n

LEMMA Element ==
    ASSUME NEW S, NEW s \in Seq(S), NEW i \in 1..Len(s)
    PROVE  s[i] \in S
  OBVIOUS

LEMMA EventTypes ==
    ASSUME NEW s \in EventSeq
    PROVE  Len(s) \in Nat /\ \A i \in 1..Len(s) : s[i].attempt \in Nat /\ s[i].frame \in Nat
  <1> SUFFICES ASSUME NEW i \in 1..Len(s) PROVE s[i].attempt \in Nat /\ s[i].frame \in Nat
    BY DEF EventSeq
  <1>1. s[i] \in [attempt : Nat, frame : Nat] BY Element DEF EventSeq
  <1> QED BY <1>1

\* An event of the latest attempt may follow the others.
LEMMA AppendEvent ==
    ASSUME NEW s \in EventSeq, NEW n \in Nat, NEW f \in Nat, Ordered(s), UpTo(s, n)
    PROVE  LET t == Append(s, [attempt |-> n, frame |-> f])
           IN  /\ t \in EventSeq /\ Len(t) = Len(s) + 1 /\ Ordered(t) /\ UpTo(t, n)
               /\ \A i \in 1..Len(s) : t[i] = s[i]
  <1> DEFINE e == [attempt |-> n, frame |-> f]
             t == Append(s, e)
  <1>1. e \in [attempt : Nat, frame : Nat] /\ e.attempt = n OBVIOUS
  <1> HIDE DEF e
  <1>2. /\ t \in EventSeq /\ Len(t) = Len(s) + 1 /\ t[Len(s) + 1] = e
        /\ \A i \in 1..Len(s) : t[i] = s[i]
    BY <1>1 DEF EventSeq
  <1> HIDE DEF t
  <1>3. Len(s) \in Nat /\ \A i \in 1..Len(s) : s[i].attempt \in Nat BY EventTypes
  <1>4. \A i \in 1..Len(t) : t[i].attempt \in Nat BY <1>2, EventTypes
  <1>5. UpTo(t, n)
    <2> SUFFICES ASSUME NEW i \in 1..Len(t) PROVE t[i].attempt <= n BY DEF UpTo
    <2>1. CASE i = Len(s) + 1 BY <1>1, <1>2, <2>1
    <2>2. CASE i # Len(s) + 1
      <3>1. i \in 1..Len(s) BY <1>2, <1>3, <2>2
      <3> QED BY <1>2, <3>1 DEF UpTo
    <2> QED BY <2>1, <2>2
  <1>6. Ordered(t)
    <2> SUFFICES ASSUME NEW i \in 1..Len(t), NEW j \in 1..Len(t), i <= j
                 PROVE  t[i].attempt <= t[j].attempt
      BY DEF Ordered
    <2>1. CASE j = Len(s) + 1
      <3>1. t[j].attempt = n BY <1>1, <1>2, <2>1
      <3> QED BY <1>5, <3>1 DEF UpTo
    <2>2. CASE j # Len(s) + 1
      <3>1. i \in 1..Len(s) /\ j \in 1..Len(s) BY <1>2, <1>3, <2>2
      <3> QED BY <1>2, <3>1 DEF Ordered
    <2> QED BY <2>1, <2>2
  <1> QED BY <1>2, <1>5, <1>6 DEF t, e

\* A write by w keeps the record's history.
GoodRecord(w, new) ==
    /\ new \in Record
    /\ new.early = rec.early /\ (rec.cancellation # None => new.cancellation # None)
    /\ \/ new.events = rec.events
       \/ /\ rec.owner = w
          /\ \E f \in Nat :
                new.events = Append(rec.events, [attempt |-> rec.attempt, frame |-> f])
    /\ new.owner # None => new.status = "running"
    /\ \/ new.attempt = rec.attempt /\ new.owner \in {rec.owner, None}
       \/ new.attempt > rec.attempt /\ new.owner = w
    /\ new.status = "absent" => rec.status = "absent"
    /\ ~Begun \/ IsTerminal => new.status = rec.status
    /\ IsOpen /\ rec.cancellation # None => new.status # "completed"

\* The run of w fits the record.
GoodRun(w, new, next) ==
    /\ next \in Run
    /\ next.monitor => next.pc \in {"stream", "settle"}
    /\ new.owner = w /\ next.pc \in Working => next.attempt = new.attempt
    /\ ~Begun => next.pc \in {"off", "claim"}
    /\ forwards' = 1 /\ new.owner = w => ~next.monitor /\ next.pc \notin Preparing

GoodCounts(w, new) ==
    /\ starts' \in Nat /\ forwards' \in Nat /\ forwards' <= 1
    /\ ~Begun => starts' = 0 /\ forwards' = 0
    /\ \/ forwards' = forwards
       \/ rec.owner = w /\ new.owner = w /\ new.cancellation # None

LEMMA WorkerStep ==
    ASSUME IInv, NEW w \in Workers, NEW new, NEW next,
           GoodRecord(w, new), GoodRun(w, new, next), GoodCounts(w, new),
           rec' = new, run' = [run EXCEPT ![w] = next], OtherTypes'
    PROVE  Kept
  <1> USE DurableAssumption
  <1>1. /\ rec \in Record /\ rec' \in Record /\ run \in [Workers -> Run] /\ next \in Run
        /\ run' \in [Workers -> Run] /\ starts \in Nat /\ forwards \in Nat
        /\ run'[w] = next /\ \A v \in Workers \ {w} : run'[v] = run[v]
    BY DEF IInv, DurableTypeOK, GoodRecord, GoodRun
  <1>2. /\ rec.attempt \in Nat /\ rec'.attempt \in Nat
        /\ rec.events \in Seq([attempt : Nat, frame : Nat])
        /\ rec'.events \in Seq([attempt : Nat, frame : Nat])
    BY <1>1 DEF Record
  <1>3. DurableTypeOK'
    BY <1>1 DEF DurableTypeOK, OtherTypes, GoodCounts
  <1>4. Owned' BY DEF GoodRecord, Owned
  <1>5. IsTerminal => rec.owner = None
    BY DEF IInv, Owned, IsTerminal, TerminalStatus
  <1>6. Final /\ Honoured
    BY <1>5 DEF GoodRecord, Final, Honoured
  <1>7. rec'.attempt >= rec.attempt BY <1>2 DEF GoodRecord
  <1>8. Grows /\ AttemptsInOrder' /\ EventsBounded'
    <2>0. /\ rec.events \in EventSeq /\ Ordered(rec.events) /\ UpTo(rec.events, rec.attempt)
          /\ \A i \in 1..Len(rec.events) : rec.events[i].attempt \in Nat
      BY <1>2, EventTypes DEF IInv, AttemptsInOrder, EventsBounded, Ordered, UpTo, EventSeq
    <2>1. /\ Len(rec.events) <= Len(rec'.events)
          /\ \A i \in 1..Len(rec.events) : rec'.events[i] = rec.events[i]
          /\ Ordered(rec'.events) /\ UpTo(rec'.events, rec.attempt)
      <3>1. CASE new.events = rec.events BY <1>2, <2>0, <3>1
      <3>2. CASE new.events # rec.events
        <4>1. PICK f \in Nat :
                new.events = Append(rec.events, [attempt |-> rec.attempt, frame |-> f])
          BY <3>2 DEF GoodRecord
        <4>2. Len(rec.events) \in Nat BY <1>2
        <4> QED BY <1>2, <2>0, <4>1, <4>2, AppendEvent
      <3> QED BY <3>1, <3>2
    <2>2. \A i \in 1..Len(rec'.events) : rec'.events[i].attempt \in Nat
      BY <1>2, EventTypes DEF EventSeq
    <2>3. UpTo(rec'.events, rec'.attempt)
      <3> SUFFICES ASSUME NEW i \in 1..Len(rec'.events)
                   PROVE  rec'.events[i].attempt <= rec'.attempt
        BY DEF UpTo
      <3>1. rec'.events[i].attempt <= rec.attempt BY <2>1 DEF UpTo
      <3> QED BY <1>2, <1>7, <2>2, <3>1
    <2> QED BY <2>1, <2>3 DEF Grows, AttemptsInOrder, EventsBounded, Ordered, UpTo
  <1>9. Held'
    <2> SUFFICES ASSUME NEW v \in Workers, rec'.owner = v, run'[v].pc \in Working
                 PROVE  run'[v].attempt = rec'.attempt
      BY DEF Held
    <2>1. CASE v = w BY <1>1, <2>1 DEF GoodRun
    <2>2. CASE v # w BY <1>1, <2>2 DEF GoodRecord, IInv, Held
    <2> QED BY <2>1, <2>2
  <1>10. NotBegun'
    <2>1. Begun' => Begun BY DEF Begun, GoodRecord
    <2>2. Begun => Begun' BY DEF Begun, GoodRecord
    <2>3. CASE Begun BY <2>2, <2>3, <1>8 DEF NotBegun, Begun
    <2>4. CASE ~Begun
      <3>1. starts' = 0 /\ forwards' = 0 BY <2>4 DEF GoodCounts
      <3>2. \A v \in Workers : run'[v].pc \in {"off", "claim"}
        BY <1>1, <2>4 DEF GoodRun, IInv, NotBegun
      <3>3. rec'.status = rec.status /\ rec'.early = rec.early BY <2>4 DEF GoodRecord
      <3>4. rec.owner # w /\ rec'.events = rec.events
        BY <2>4 DEF GoodRecord, IInv, Owned, NotBegun, Begun
      <3> QED BY <3>1, <3>2, <3>3, <3>4 DEF IInv, NotBegun
    <2> QED BY <2>3, <2>4
  <1>11. Monitored' BY <1>1 DEF IInv, Monitored, GoodRun
  <1>12. Asked'
    <2> SUFFICES ASSUME forwards' = 1
                 PROVE  /\ rec'.cancellation # None
                        /\ \A v \in Workers : rec'.owner = v =>
                              ~run'[v].monitor /\ run'[v].pc \notin Preparing
      BY DEF Asked, GoodCounts
    <2>1. rec'.cancellation # None BY DEF GoodCounts, GoodRecord, IInv, Asked
    <2>2. ASSUME NEW v \in Workers, rec'.owner = v
          PROVE  ~run'[v].monitor /\ run'[v].pc \notin Preparing
      <3>1. CASE v = w BY <1>1, <2>2, <3>1 DEF GoodRun
      <3>2. CASE v # w
        <4>1. rec.owner = v /\ forwards = 1 BY <2>2, <3>2 DEF GoodRecord, GoodCounts
        <4> QED BY <1>1, <3>2, <4>1 DEF IInv, Asked
      <3> QED BY <3>1, <3>2
    <2> QED BY <2>1, <2>2
  <1> QED BY <1>3, <1>4, <1>6, <1>8, <1>9, <1>10, <1>11, <1>12 DEF Kept, IInv

LEMMA SameRecord ==
    ASSUME IInv, NEW w \in Workers
    PROVE  GoodRecord(w, rec)
  <1>1. rec \in Record /\ rec.attempt = rec.attempt BY DEF IInv, DurableTypeOK
  <1>2. IsOpen => rec.status # "completed" BY DEF IsOpen
  <1> QED BY <1>1, <1>2 DEF IInv, Owned, GoodRecord

LEMMA SameCounts ==
    ASSUME IInv, NEW w \in Workers, NEW new, UNCHANGED <<starts, forwards>>
    PROVE  GoodCounts(w, new)
  BY DEF IInv, DurableTypeOK, NotBegun, Asked, GoodCounts

LEMMA RunTypes ==
    /\ Off \in Run
    /\ \A pc \in RunPc, o \in {"none", "completed", "cancelled", "failed", "disconnected"} :
          [Off EXCEPT !.pc = pc, !.outcome = o] \in Run
  BY DEF Off, Run, RunPc

\* The run that goes on after a failure is past its work.
LEMMA CaughtOK ==
    ASSUME IInv, NEW w \in Workers, NEW new, Begun
    PROVE  GoodRun(w, new, Caught(run[w]))
  <1>1. Caught(run[w]) \in Run /\ Caught(run[w]).pc \in {"off", "catch"}
        /\ Caught(run[w]).monitor = FALSE
    BY DEF Caught, Off, Run, RunPc
  <1> HIDE DEF Caught
  <1> QED BY <1>1 DEF GoodRun, Working, Preparing

LEMMA OffOK ==
    ASSUME NEW w \in Workers, NEW new
    PROVE  GoodRun(w, new, Off)
  BY RunTypes DEF GoodRun, Working, Preparing, Off

LEMMA SettlingOK ==
    ASSUME IInv, NEW w \in Workers, NEW new, Begun, UNCHANGED forwards,
           new.owner = w => run[w].pc = "claim" \/ rec.owner = w,
           NEW outcome \in {"completed", "cancelled", "failed", "disconnected"}
    PROVE  GoodRun(w, new, Settling(run[w], outcome))
  <1>1. run[w] \in Run BY DEF IInv, DurableTypeOK
  <1>2. run[w].monitor \in BOOLEAN BY <1>1 DEF Run
  <1>3. /\ Settling(run[w], outcome) \in Run
        /\ Settling(run[w], outcome).pc = "settle"
        /\ Settling(run[w], outcome).monitor = run[w].monitor
    BY <1>2 DEF Settling, Off, Run, RunPc
  <1> HIDE DEF Settling
  <1>4. run[w].pc = "claim" => ~run[w].monitor BY DEF IInv, Monitored
  <1> QED BY <1>3, <1>4 DEF GoodRun, Working, Preparing, IInv, Asked

\* update() and what run() does after it.
LEMMA UpdateOK ==
    ASSUME IInv, NEW w \in Workers, NEW new, NEW next, Begun,
           GoodRecord(w, new), GoodRun(w, new, next),
           Update(w, new, next), UNCHANGED <<up, can, obs, starts, forwards>>
    PROVE  Kept
  <1>1. OtherTypes'
    <2>1. faults' \in Nat
      <3>1. faults \in Nat BY DEF IInv, DurableTypeOK
      <3>2. faults' \in {faults, faults + 1} BY DEF Update, Spend
      <3> QED BY <3>1, <3>2
    <2>2. expired' \in BOOLEAN
      <3>1. expired \in BOOLEAN BY DEF IInv, DurableTypeOK
      <3>2. expired' = expired \/ expired' = (expired /\ new.owner \notin {w, None})
        BY DEF Update
      <3> QED BY <3>1, <3>2, Zenon
    <2> QED BY <2>1, <2>2 DEF IInv, DurableTypeOK, OtherTypes
  <1>2. GoodCounts(w, new) /\ GoodCounts(w, rec) BY SameCounts
  <1>3. GoodRun(w, new, Caught(run[w])) /\ GoodRun(w, rec, Caught(run[w])) BY CaughtOK
  <1>4. GoodRecord(w, rec) BY SameRecord
  <1>5. CASE rec' = new /\ run' = [run EXCEPT ![w] = next]
    BY <1>1, <1>2, <1>5, WorkerStep
  <1>6. CASE rec' = new /\ run' = [run EXCEPT ![w] = Caught(run[w])]
    BY <1>1, <1>2, <1>3, <1>6, WorkerStep
  <1>7. CASE rec' = rec /\ run' = [run EXCEPT ![w] = Caught(run[w])]
    BY <1>1, <1>2, <1>3, <1>4, <1>7, WorkerStep
  <1> QED BY <1>5, <1>6, <1>7 DEF Update, Go

------------------------------------------------
\* The actions of run().

\* A worker that is past its claim has a record to work on.
LEMMA PastClaim ==
    ASSUME IInv, NEW w \in Workers, run[w].pc \notin {"off", "claim"}
    PROVE  Begun
  BY DEF IInv, NotBegun

\* A step of w's run that leaves the record alone.
LEMMA RunOnly ==
    ASSUME IInv, NEW w \in Workers, NEW next, Go(w, next), GoodRun(w, rec, next),
           GoodCounts(w, rec), UNCHANGED rec, OtherTypes'
    PROVE  Kept
  BY SameRecord, WorkerStep DEF Go

LEMMA FaultTypes ==
    ASSUME IInv, UNCHANGED <<expired, up, can, obs>>,
           UNCHANGED faults \/ \E f \in DurableFaults : Spend(f)
    PROVE  OtherTypes'
  <1>1. faults \in Nat /\ faults' \in {faults, faults + 1} BY DEF IInv, DurableTypeOK, Spend
  <1> QED BY <1>1 DEF IInv, DurableTypeOK, OtherTypes

LEMMA ClaimOK == ASSUME IInv, NEW w \in Workers, Claim(w) PROVE Kept
  <1>0. rec \in Record /\ run[w] \in Run /\ w # None /\ rec.attempt \in Nat
        /\ MaximumAttempts \in Nat
    BY DurableAssumption DEF IInv, DurableTypeOK, Record
  <1>1. run[w].pc = "claim" /\ UNCHANGED <<up, can, obs, starts, forwards>> BY DEF Claim, At
  <1>2. CASE ~Claimable(w) /\ Go(w, Off) /\ UNCHANGED <<rec, expired, faults>>
    BY <1>1, <1>2, OffOK, SameCounts, FaultTypes, RunOnly
  <1>3. Claimable(w) => Begun /\ ~IsTerminal
    BY DEF Claimable, IsOpen, Begun, IsTerminal, TerminalStatus, IInv, NotBegun
  <1>4. CASE /\ Claimable(w) /\ rec.attempt >= MaximumAttempts
             /\ Update(w, [rec EXCEPT !.status = "failed", !.owner = None], Off)
    <2> DEFINE new == [rec EXCEPT !.status = "failed", !.owner = None]
    <2>1. new \in Record BY <1>0 DEF Record, TerminalStatus
    <2>2. /\ new.status = "failed" /\ new.owner = None /\ new.early = rec.early
          /\ new.cancellation = rec.cancellation /\ new.events = rec.events
          /\ new.attempt = rec.attempt
      BY <1>0 DEF Record
    <2> HIDE DEF new
    <2>3. GoodRecord(w, new) BY <1>3, <1>4, <2>1, <2>2 DEF GoodRecord
    <2> QED BY <1>1, <1>3, <1>4, <2>3, OffOK, UpdateOK DEF new
  <1>5. CASE /\ Claimable(w) /\ rec.attempt < MaximumAttempts
             /\ Update(w, [rec EXCEPT !.status = "running", !.attempt = @ + 1, !.owner = w],
                       IF rec.cancellation # None THEN Settling(run[w], "cancelled")
                       ELSE [Off EXCEPT !.pc = "decode", !.attempt = rec.attempt + 1])
    <2> DEFINE new  == [rec EXCEPT !.status = "running", !.attempt = @ + 1, !.owner = w]
               next == [Off EXCEPT !.pc = "decode", !.attempt = rec.attempt + 1]
    <2>0. rec.attempt + 1 \in Nat BY <1>0
    <2>1. new \in Record BY <1>0, <2>0, Zenon DEF Record
    <2>2. /\ new.status = "running" /\ new.owner = w /\ new.early = rec.early
          /\ new.cancellation = rec.cancellation /\ new.events = rec.events
          /\ new.attempt = rec.attempt + 1
      BY <1>0 DEF Record
    <2>3. next \in Run /\ next.pc = "decode" /\ next.attempt = rec.attempt + 1
          /\ next.monitor = FALSE
      BY <2>0 DEF Run, RunPc, Off
    <2> HIDE DEF new, next
    <2>4. GoodRecord(w, new) BY <1>0, <1>3, <1>5, <2>1, <2>2 DEF GoodRecord
    <2>5. CASE rec.cancellation # None
      <3>1. GoodRun(w, new, Settling(run[w], "cancelled")) BY <1>1, <1>3, <1>5, SettlingOK
      <3> QED BY <1>1, <1>3, <1>5, <2>4, <2>5, <3>1, UpdateOK DEF new
    <2>6. CASE rec.cancellation = None
      <3>1. forwards' # 1 BY <1>1, <2>6 DEF IInv, Asked
      <3>2. GoodRun(w, new, next) BY <1>3, <1>5, <2>2, <2>3, <3>1 DEF GoodRun
      <3> QED BY <1>1, <1>3, <1>5, <2>4, <2>6, <3>2, UpdateOK DEF new, next
    <2> QED BY <2>5, <2>6
  <1> QED BY <1>2, <1>4, <1>5 DEF Claim

\* The run of a worker that moves on without leaving its attempt.
LEMMA MoveOnOK ==
    ASSUME IInv, NEW w \in Workers, NEW pc \in RunPc \ {"off", "claim"}, UNCHANGED forwards,
           run[w].pc \in Preparing
    PROVE  GoodRun(w, rec, [run[w] EXCEPT !.pc = pc])
  <1>1. run[w] \in Run BY DEF IInv, DurableTypeOK
  <1> DEFINE next == [run[w] EXCEPT !.pc = pc]
  <1>2. next \in Run /\ next.pc = pc /\ next.attempt = run[w].attempt
        /\ next.monitor = run[w].monitor
    BY <1>1 DEF Run
  <1> HIDE DEF next
  <1>3. Begun BY PastClaim DEF Preparing
  <1>4. ~run[w].monitor BY DEF IInv, Monitored, Preparing
  <1>5. forwards' # 1 \/ rec.owner # w BY DEF IInv, Asked
  <1> QED BY <1>2, <1>3, <1>4, <1>5 DEF GoodRun, IInv, Held, Working, next

LEMMA DecodeOK == ASSUME IInv, NEW w \in Workers, Decode(w) PROVE Kept
  <1>1. run[w].pc = "decode" /\ UNCHANGED <<rec, expired, up, can, obs, starts, forwards>>
    BY DEF Decode, At
  <1>2. Begun BY <1>1, PastClaim
  <1>3. OtherTypes' BY <1>1, FaultTypes DEF Decode, DurableFaults
  <1>4. GoodCounts(w, rec) BY <1>1, SameCounts
  <1>5. CASE Go(w, [run[w] EXCEPT !.pc = "ready"])
    <2>1. GoodRun(w, rec, [run[w] EXCEPT !.pc = "ready"])
      BY <1>1, MoveOnOK DEF RunPc, Preparing
    <2> QED BY <1>1, <1>3, <1>4, <1>5, <2>1, RunOnly
  <1>6. CASE Go(w, Off) BY <1>1, <1>3, <1>4, <1>6, OffOK, RunOnly
  <1>7. CASE Go(w, [Off EXCEPT !.pc = "catch", !.outcome = "cancelled"])
    <2> DEFINE next == [Off EXCEPT !.pc = "catch", !.outcome = "cancelled"]
    <2>1. next \in Run /\ next.pc = "catch" /\ next.monitor = FALSE BY DEF Off, Run, RunPc
    <2> HIDE DEF next
    <2>2. GoodRun(w, rec, next) BY <1>2, <2>1 DEF GoodRun, Working, Preparing
    <2> QED BY <1>1, <1>3, <1>4, <1>7, <2>2, RunOnly DEF next
  <1>8. CASE Go(w, Caught(run[w]))
    BY <1>1, <1>2, <1>3, <1>4, <1>8, CaughtOK, RunOnly
  <1> QED BY <1>5, <1>6, <1>7, <1>8 DEF Decode

LEMMA DecodeRenewOK == ASSUME IInv, NEW w \in Workers, DecodeRenew(w) PROVE Kept
  <1>1. run[w].pc = "decode" /\ UNCHANGED <<up, can, obs, starts, forwards>>
    BY DEF DecodeRenew, At
  <1>2. Begun BY <1>1, PastClaim
  <1>3. run[w] \in Run BY DEF IInv, DurableTypeOK
  <1>4. GoodRun(w, rec, run[w])
    BY <1>1, <1>2, <1>3 DEF GoodRun, IInv, Held, Monitored, Asked, Working, Preparing
  <1> QED BY <1>1, <1>2, <1>4, SameRecord, UpdateOK DEF DecodeRenew

LEMMA ReadyOK == ASSUME IInv, NEW w \in Workers, Ready(w) PROVE Kept
  <1>1. run[w].pc = "ready" /\ UNCHANGED <<up, can, obs, starts, forwards>> BY DEF Ready, At
  <1>2. Begun BY <1>1, PastClaim
  <1>3. CASE ~Current(w) /\ Go(w, Off) /\ UNCHANGED <<rec, expired, faults>>
    BY <1>1, <1>3, OffOK, SameCounts, FaultTypes, RunOnly
  <1>4. CASE /\ Current(w)
             /\ Update(w, rec, IF rec.cancellation = None THEN [run[w] EXCEPT !.pc = "dispatch"]
                               ELSE Settling(run[w], "cancelled"))
    <2>1. rec.owner = w BY <1>4 DEF Current
    <2>2. GoodRun(w, rec, [run[w] EXCEPT !.pc = "dispatch"])
      BY <1>1, MoveOnOK DEF RunPc, Preparing
    <2>3. GoodRun(w, rec, Settling(run[w], "cancelled")) BY <1>1, <1>2, <2>1, SettlingOK
    <2>4. CASE rec.cancellation = None BY <1>1, <1>2, <1>4, <2>2, <2>4, SameRecord, UpdateOK
    <2>5. CASE rec.cancellation # None BY <1>1, <1>2, <1>4, <2>3, <2>5, SameRecord, UpdateOK
    <2> QED BY <2>4, <2>5
  <1> QED BY <1>3, <1>4 DEF Ready

LEMMA DispatchOK == ASSUME IInv, NEW w \in Workers, Dispatch(w) PROVE Kept
  <1>1. /\ run[w].pc = "dispatch" /\ starts' = starts + 1
        /\ UNCHANGED <<rec, expired, up, can, obs, forwards>>
    BY DEF Dispatch, At
  <1>2. Begun BY <1>1, PastClaim
  <1>3. OtherTypes' BY <1>1, FaultTypes DEF Dispatch, DurableFaults
  <1>4. GoodCounts(w, rec)
    <2>1. starts' \in Nat /\ forwards \in Nat BY <1>1 DEF IInv, DurableTypeOK
    <2> QED BY <1>1, <1>2, <2>1 DEF GoodCounts, IInv, Asked
  <1>5. CASE Go(w, [run[w] EXCEPT !.pc = "bind"])
    <2>1. GoodRun(w, rec, [run[w] EXCEPT !.pc = "bind"])
      BY <1>1, MoveOnOK DEF RunPc, Preparing
    <2> QED BY <1>1, <1>3, <1>4, <1>5, <2>1, RunOnly
  <1>6. CASE Go(w, Settling(run[w], "failed"))
    <2>1. Settling(run[w], "failed").monitor = FALSE
          /\ Settling(run[w], "failed") \in Run /\ Settling(run[w], "failed").pc = "settle"
      <3>1. run[w].monitor = FALSE
        <4>1. run[w].monitor \in BOOLEAN BY DEF IInv, DurableTypeOK, Run
        <4> QED BY <1>1, <4>1 DEF IInv, Monitored
      <3> QED BY <3>1 DEF Settling, Off, Run, RunPc
    <2>2. GoodRun(w, rec, Settling(run[w], "failed"))
      BY <1>2, <2>1 DEF GoodRun, Working, Preparing
    <2> QED BY <1>1, <1>3, <1>4, <1>6, <2>2, RunOnly
  <1> QED BY <1>5, <1>6 DEF Dispatch

LEMMA BindOK == ASSUME IInv, NEW w \in Workers, Bind(w) PROVE Kept
  <1>1. run[w].pc = "bind" /\ UNCHANGED <<rec, expired, up, can, obs, starts, forwards>>
    BY DEF Bind, At
  <1>2. Begun BY <1>1, PastClaim
  <1>3. OtherTypes' BY <1>1, FaultTypes DEF Bind, DurableFaults
  <1>4. GoodCounts(w, rec) BY <1>1, SameCounts
  <1>5. CASE Go(w, Off) BY <1>1, <1>3, <1>4, <1>5, OffOK, RunOnly
  <1>6. CASE rec.owner = w /\ Go(w, [run[w] EXCEPT !.pc = "stream", !.monitor = TRUE])
    <2> DEFINE next == [run[w] EXCEPT !.pc = "stream", !.monitor = TRUE]
    <2>1. run[w] \in Run BY DEF IInv, DurableTypeOK
    <2>2. next \in Run /\ next.pc = "stream" /\ next.attempt = run[w].attempt
      BY <2>1 DEF Run, RunPc
    <2> HIDE DEF next
    <2>3. forwards' # 1 BY <1>1, <1>6 DEF IInv, Asked, Preparing
    <2>4. run[w].attempt = rec.attempt BY <1>1, <1>6 DEF IInv, Held, Working, Preparing
    <2>5. GoodRun(w, rec, next) BY <1>2, <2>2, <2>3, <2>4 DEF GoodRun
    <2> QED BY <1>1, <1>3, <1>4, <1>6, <2>5, RunOnly DEF next
  <1>7. CASE Go(w, Caught(run[w]))
    BY <1>1, <1>2, <1>3, <1>4, <1>7, CaughtOK, RunOnly
  <1> QED BY <1>5, <1>6, <1>7 DEF Bind

LEMMA FrameOK == ASSUME IInv, NEW w \in Workers, Frame(w) PROVE Kept
  <1>0. rec \in Record /\ run[w] \in Run /\ w # None
    BY DurableAssumption DEF IInv, DurableTypeOK
  <1>1. run[w].pc = "stream" /\ UNCHANGED <<up, can, obs, starts, forwards>> BY DEF Frame, At
  <1>2. Begun BY <1>1, PastClaim
  <1>3. CASE ~HoldsLease(w) /\ Go(w, Off) /\ UNCHANGED <<rec, expired, faults>>
    BY <1>1, <1>3, OffOK, SameCounts, FaultTypes, RunOnly
  <1>4. CASE /\ HoldsLease(w)
             /\ Update(w, [rec EXCEPT !.events = Append(@, [attempt |-> run[w].attempt,
                                                            frame |-> run[w].sent])],
                       [run[w] EXCEPT !.sent = @ + 1])
    <2> DEFINE e    == [attempt |-> run[w].attempt, frame |-> run[w].sent]
               new  == [rec EXCEPT !.events = Append(@, e)]
               next == [run[w] EXCEPT !.sent = @ + 1]
    <2>1. rec.owner = w /\ rec.status = "running" /\ run[w].attempt = rec.attempt
      BY <1>0, <1>1, <1>4 DEF HoldsLease, IInv, Owned, Held, Working
    <2>2. rec.attempt \in Nat /\ rec.events \in EventSeq /\ run[w].sent \in Nat
      BY <1>0 DEF Record, Run, EventSeq
    <2>3. e = [attempt |-> rec.attempt, frame |-> run[w].sent] BY <2>1
    <2>4. Ordered(rec.events) /\ UpTo(rec.events, rec.attempt)
      BY DEF IInv, AttemptsInOrder, EventsBounded, Ordered, UpTo
    <2>5. Append(rec.events, e) \in EventSeq BY <2>2, <2>3, <2>4, AppendEvent
    <2> HIDE DEF e
    <2>6. new \in Record
      <3> DEFINE t == Append(rec.events, e)
      <3>1. t \in EventSeq BY <2>5
      <3>2. new = [rec EXCEPT !.events = t] OBVIOUS
      <3> HIDE DEF t, new
      <3> QED BY <1>0, <3>1, <3>2, Zenon DEF Record, EventSeq
    <2>7. /\ new.early = rec.early /\ new.cancellation = rec.cancellation
          /\ new.events = Append(rec.events, e) /\ new.owner = rec.owner
          /\ new.status = rec.status /\ new.attempt = rec.attempt
      BY <1>0, Zenon DEF Record
    <2>8. run[w].sent + 1 \in Nat BY <2>2
    <2>9. /\ next \in Run /\ next.pc = "stream" /\ next.attempt = run[w].attempt
          /\ next.monitor = run[w].monitor
      BY <1>0, <1>1, <2>8 DEF Run
    <2> HIDE DEF new, next
    <2>10. ~IsTerminal BY <2>1 DEF IsTerminal, TerminalStatus
    <2>11. GoodRecord(w, new)
      BY <1>2, <2>1, <2>2, <2>3, <2>6, <2>7, <2>10 DEF GoodRecord
    <2>12. forwards = 1 => ~run[w].monitor BY <2>1 DEF IInv, Asked
    <2>13. GoodRun(w, new, next)
      BY <1>1, <1>2, <2>1, <2>7, <2>9, <2>12 DEF GoodRun, Preparing
    <2> QED BY <1>1, <1>2, <1>4, <2>11, <2>13, UpdateOK DEF new, next, e
  <1> QED BY <1>3, <1>4 DEF Frame

LEMMA StreamEndsOK == ASSUME IInv, NEW w \in Workers, StreamEnds(w) PROVE Kept
  <1>1. run[w].pc = "stream" /\ UNCHANGED <<rec, expired, up, can, obs, starts, forwards>>
    BY DEF StreamEnds, At
  <1>2. Begun BY <1>1, PastClaim
  <1>3. OtherTypes' BY <1>1, FaultTypes DEF StreamEnds, DurableFaults
  <1>4. GoodCounts(w, rec) BY <1>1, SameCounts
  <1>5. PICK outcome \in {"completed", "cancelled", "failed", "disconnected"} :
            Go(w, Settling(run[w], outcome))
    BY DEF StreamEnds
  <1>6. GoodRun(w, rec, Settling(run[w], outcome)) BY <1>1, <1>2, SettlingOK
  <1> QED BY <1>1, <1>3, <1>4, <1>5, <1>6, RunOnly

LEMMA MonitorOK == ASSUME IInv, NEW w \in Workers, Monitor(w) PROVE Kept
  <1>0. run \in [Workers -> Run] /\ run[w] \in Run /\ forwards \in Nat
        /\ expired \in BOOLEAN /\ starts \in Nat
    BY DEF IInv, DurableTypeOK
  <1>1. /\ run[w].pc \in {"stream", "settle"} /\ run[w].monitor /\ UNCHANGED rec
        /\ UNCHANGED <<up, can, obs, starts>>
    BY DEF Monitor, At, Monitoring
  <1>2. Begun BY <1>1, PastClaim
  <1>3. CASE /\ expired' = FALSE /\ UNCHANGED <<rec, run, forwards, faults>>
    <2>1. OtherTypes' BY <1>1, <1>3 DEF IInv, DurableTypeOK, OtherTypes
    <2>2. GoodRun(w, rec, run[w])
      BY <1>0, <1>1, <1>2, <1>3 DEF GoodRun, IInv, Held, Monitored, Asked
    <2>3. Go(w, run[w]) BY <1>0, <1>3 DEF Go
    <2> QED BY <1>1, <1>3, <2>1, <2>2, <2>3, SameCounts, RunOnly
  <1>4. ASSUME NEW f \in BOOLEAN, NEW d \in BOOLEAN,
               Go(w, [run[w] EXCEPT !.monitor = FALSE, !.forwarded = f, !.disconnected = d]),
               UNCHANGED expired, UNCHANGED faults \/ Spend("monitor"), GoodCounts(w, rec)
        PROVE  Kept
    <2> DEFINE next == [run[w] EXCEPT !.monitor = FALSE, !.forwarded = f, !.disconnected = d]
    <2>1. next \in Run /\ next.pc = run[w].pc /\ next.attempt = run[w].attempt
          /\ next.monitor = FALSE
      BY <1>0 DEF Run
    <2> HIDE DEF next
    <2>2. OtherTypes' BY <1>1, <1>4, FaultTypes DEF DurableFaults
    <2>3. GoodRun(w, rec, next)
      BY <1>1, <1>2, <2>1 DEF GoodRun, IInv, Held, Preparing
    <2> QED BY <1>1, <1>4, <2>2, <2>3, RunOnly DEF next
  <1>5. ASSUME NEW next, Go(w, next), UNCHANGED expired,
               UNCHANGED faults \/ Spend("monitor"), GoodCounts(w, rec),
               \/ next = [run[w] EXCEPT !.monitor = FALSE]
               \/ \E n \in BOOLEAN : next = [run[w] EXCEPT !.monitor = FALSE, !.disconnected = n]
               \/ next = [run[w] EXCEPT !.monitor = FALSE, !.forwarded = DelegateCancellation,
                                        !.disconnected = ~DelegateCancellation]
        PROVE  Kept
    <2>1. \E f, d \in BOOLEAN :
             next = [run[w] EXCEPT !.monitor = FALSE, !.forwarded = f, !.disconnected = d]
      <3>1. run[w].forwarded \in BOOLEAN /\ run[w].disconnected \in BOOLEAN BY <1>0 DEF Run
      <3>2. CASE next = [run[w] EXCEPT !.monitor = FALSE]
        <4>1. next = [run[w] EXCEPT !.monitor = FALSE, !.forwarded = run[w].forwarded,
                                    !.disconnected = run[w].disconnected]
          BY <1>0, <3>2 DEF Run
        <4> QED BY <3>1, <4>1
      <3>3. CASE \E n \in BOOLEAN :
                    next = [run[w] EXCEPT !.monitor = FALSE, !.disconnected = n]
        <4>1. PICK n \in BOOLEAN : next = [run[w] EXCEPT !.monitor = FALSE, !.disconnected = n]
          BY <3>3
        <4>2. next = [run[w] EXCEPT !.monitor = FALSE, !.forwarded = run[w].forwarded,
                                    !.disconnected = n]
          BY <1>0, <4>1 DEF Run
        <4> QED BY <3>1, <4>2
      <3>4. CASE next = [run[w] EXCEPT !.monitor = FALSE, !.forwarded = DelegateCancellation,
                                       !.disconnected = ~DelegateCancellation]
        <4>1. DelegateCancellation \in BOOLEAN /\ (~DelegateCancellation) \in BOOLEAN
          BY DurableAssumption
        <4> QED BY <3>4, <4>1, Zenon
      <3> QED BY <1>5, <3>2, <3>3, <3>4
    <2>2. PICK f, d \in BOOLEAN :
             next = [run[w] EXCEPT !.monitor = FALSE, !.forwarded = f, !.disconnected = d]
      BY <2>1
    <2> QED BY <1>4, <1>5, <2>2
  <1>6. CASE /\ rec.owner # w
             /\ \E noticed \in BOOLEAN :
                   Go(w, [run[w] EXCEPT !.monitor = FALSE, !.disconnected = noticed])
             /\ UNCHANGED <<rec, expired, forwards, faults>>
    BY <1>1, <1>5, <1>6, SameCounts
  <1>7. CASE /\ rec.owner = w /\ rec.cancellation # None
             /\ Go(w, [run[w] EXCEPT !.monitor = FALSE, !.forwarded = DelegateCancellation,
                                     !.disconnected = ~DelegateCancellation])
             /\ forwards' = IF DelegateCancellation THEN forwards + 1 ELSE forwards
             /\ UNCHANGED <<rec, expired, faults>>
    <2>1. forwards = 0 BY <1>0, <1>1, <1>7 DEF IInv, Asked
    <2>2. forwards' \in {0, 1} BY <1>7, <2>1
    <2>3. GoodCounts(w, rec) BY <1>0, <1>1, <1>2, <1>7, <2>2 DEF GoodCounts
    <2> QED BY <1>5, <1>7, <2>3
  <1>8. CASE /\ Spend("monitor") /\ Go(w, [run[w] EXCEPT !.monitor = FALSE])
             /\ UNCHANGED <<rec, expired, forwards>>
    BY <1>1, <1>5, <1>8, SameCounts
  <1> QED BY <1>3, <1>6, <1>7, <1>8 DEF Monitor

LEMMA SettleOK == ASSUME IInv, NEW w \in Workers, Settle(w) PROVE Kept
  <1>0. rec \in Record BY DEF IInv, DurableTypeOK
  <1>1. /\ run[w].pc \in {"settle", "catch"} /\ UNCHANGED <<up, can, obs, starts, forwards>>
    BY DEF Settle, At
  <1>2. Begun BY <1>1, PastClaim
  <1>3. CASE Go(w, Off) /\ UNCHANGED <<rec, expired, faults>>
    BY <1>1, <1>3, OffOK, SameCounts, FaultTypes, RunOnly
  <1>4. CASE /\ ~IsTerminal /\ rec.owner = w
             /\ Update(w, [rec EXCEPT !.status = SettledStatus(run[w].outcome),
                                      !.owner = None], Off)
    <2> DEFINE status == SettledStatus(run[w].outcome)
               new    == [rec EXCEPT !.status = status, !.owner = None]
    <2>1. status \in TerminalStatus /\ (rec.cancellation # None => status = "cancelled")
      BY DEF SettledStatus, TerminalStatus
    <2> HIDE DEF status
    <2>2. new \in Record BY <1>0, <2>1, Zenon DEF Record
    <2>3. /\ new.status = status /\ new.owner = None /\ new.early = rec.early
          /\ new.cancellation = rec.cancellation /\ new.events = rec.events
          /\ new.attempt = rec.attempt
      BY <1>0, Zenon DEF Record
    <2> HIDE DEF new
    <2>4. status # "absent" BY <2>1 DEF TerminalStatus
    <2>5. GoodRecord(w, new) BY <1>2, <1>4, <2>1, <2>2, <2>3, <2>4 DEF GoodRecord
    <2> QED BY <1>1, <1>2, <1>4, <2>5, OffOK, UpdateOK DEF new, status
  <1> QED BY <1>3, <1>4 DEF Settle

------------------------------------------------
\* Observations.

\* A client has seen the first m events; its connection is somewhere below
\* them and its cursor is one of theirs.
ShownTo(b, m) ==
    /\ b.seen = 1..m /\ b.count <= m /\ m <= Len(rec.events)
    /\ b.count <= b.loaded /\ b.loaded <= Len(rec.events)
    /\ b.cursor = -1 => m = 0
    /\ b.cursor # -1 => \E i \in 1..m : rec.events[i].frame = b.cursor
\* A connection that loaded a closed record loaded all of it.
Closing(b) ==
    /\ b.terminal # "none" /\ b.pc \in {"open", "done"} =>
          IsTerminal /\ b.terminal = rec.status /\ b.loaded = Len(rec.events)
    /\ b.pc = "done" => b.terminal # "none" /\ b.count = b.loaded
Shown == \A o \in Observers : Closing(obs[o]) /\ \E m \in Nat : ShownTo(obs[o], m)

LEMMA LeastIn ==
    ASSUME NEW R, NEW T, T \subseteq Nat, T # {}, IsWellFoundedOn(R, Nat),
           \A x, y \in Nat : y < x => <<y, x>> \in R
    PROVE  \E x \in T : \A y \in T : x <= y
  <1>1. PICK x \in T : \A y \in T : ~(<<y, x>> \in R) BY WFMin
  <1>2. \A y \in T : ~(y < x) BY <1>1
  <1> QED BY <1>2

LEMMA NatOrder ==
    \E R : IsWellFoundedOn(R, Nat) /\ \A x, y \in Nat : y < x => <<y, x>> \in R
  <1>1. \A x, y \in Nat : y < x => <<y, x>> \in OpToRel(<, Nat) BY DEF OpToRel
  <1> QED BY <1>1, NatLessThanWellFounded, Zenon

LEMMA Least ==
    ASSUME NEW T, T \subseteq Nat, T # {}
    PROVE  \E x \in T : \A y \in T : x <= y
  BY LeastIn, NatOrder

\* observationStart finds the cursor among the events its client has seen.
LEMMA StartOK ==
    ASSUME IInv, NEW b \in Observation, NEW m \in Nat, ShownTo(b, m)
    PROVE  ObservationStart(b.cursor) \in 0..m
  <1> DEFINE c == b.cursor
  <1>1. rec.events \in EventSeq BY DEF IInv, DurableTypeOK, Record, EventSeq
  <1>2. Len(rec.events) \in Nat BY <1>1, EventTypes
  <1>3. CASE c = -1 BY <1>3 DEF ObservationStart
  <1>4. CASE c # -1
    <2> DEFINE T == {i \in 1..m : rec.events[i].frame = c}
    <2>1. T # {} /\ T \subseteq Nat BY <1>4 DEF ShownTo
    <2>2. PICK i \in T : \A j \in T : i <= j BY <2>1, Least
    <2>3. i \in 1..m /\ i \in 1..Len(rec.events) BY <1>2, <2>2 DEF ShownTo
    <2>4. \A j \in 1..(i - 1) : rec.events[j].frame # c BY <2>2, <2>3
    <2> DEFINE First(x) == /\ rec.events[x].frame = c
                           /\ \A j \in 1..(x - 1) : rec.events[j].frame # c
    <2>5. First(i) BY <2>2, <2>4
    <2>6. \A x \in 1..Len(rec.events) : First(x) => x = i
      <3> SUFFICES ASSUME NEW x \in 1..Len(rec.events), First(x) PROVE x = i OBVIOUS
      <3>1. ~(x < i) BY <2>3, <2>4
      <3>2. ~(i < x) BY <2>2, <2>3
      <3> QED BY <2>3, <3>1, <3>2
    <2>7. ObservationStart(c) = CHOOSE x \in 1..Len(rec.events) : First(x)
      BY <1>4 DEF ObservationStart
    <2> HIDE DEF First, T, c
    <2>8. ObservationStart(c) = i BY <2>3, <2>5, <2>6, <2>7
    <2> QED BY <2>3, <2>8 DEF c
  <1> QED BY <1>3, <1>4 DEF c

\* Steps that leave the observations alone, but for a lost connection.
LEMMA ShownKept ==
    ASSUME IInv, IInv', Shown, Final, Grows,
           \A o \in Observers :
              /\ obs'[o].seen = obs[o].seen /\ obs'[o].count = obs[o].count
              /\ obs'[o].loaded = obs[o].loaded /\ obs'[o].cursor = obs[o].cursor
              /\ obs'[o].terminal = obs[o].terminal /\ obs'[o].pc \in {obs[o].pc, "lost"}
    PROVE  Shown'
  <1> SUFFICES ASSUME NEW o \in Observers
               PROVE  Closing(obs[o])' /\ \E m \in Nat : ShownTo(obs[o], m)'
    BY DEF Shown
  <1>1. obs[o] \in Observation BY DEF IInv, DurableTypeOK
  <1>2. obs[o].count \in Nat /\ obs[o].loaded \in Nat BY <1>1 DEF Observation
  <1>3. Len(rec.events) \in Nat /\ Len(rec'.events) \in Nat
    BY DEF IInv, DurableTypeOK, Record
  <1>4. Closing(obs[o])'
    BY DEF Closing, Shown, Final, IsTerminal
  <1>5. PICK m \in Nat : ShownTo(obs[o], m) BY DEF Shown
  <1>6. ShownTo(obs[o], m)'
    <2>1. m <= Len(rec.events) /\ obs[o].loaded <= Len(rec.events) BY <1>5 DEF ShownTo
    <2>2. m <= Len(rec'.events) /\ obs[o].loaded <= Len(rec'.events)
      BY <1>2, <1>3, <2>1 DEF Grows
    <2>3. \A i \in 1..m : rec'.events[i] = rec.events[i] BY <1>3, <2>1 DEF Grows
    <2> QED BY <1>5, <2>2, <2>3 DEF ShownTo
  <1> QED BY <1>4, <1>6

\* A step of the clients or of the clock.
LEMMA StillOK ==
    ASSUME IInv, UNCHANGED <<rec, run, starts, forwards>>, OtherTypes'
    PROVE  Kept
  <1>1. IInv'
    BY DEF IInv, DurableTypeOK, OtherTypes, AttemptsInOrder, EventsBounded, Owned, Held,
           NotBegun, Begun, Monitored, Asked
  <1>2. Len(rec.events) \in Nat BY DEF IInv, DurableTypeOK, Record
  <1> QED BY <1>1, <1>2 DEF Kept, Final, Honoured, Grows, IsOpen

AllKept == Kept /\ Shown'

LEMMA ObservationsKept ==
    ASSUME IInv, Shown, Kept, UNCHANGED obs
    PROVE  AllKept
  BY ShownKept DEF AllKept, Kept

LEMMA Kicks ==
    ASSUME IInv, NEW w \in Workers, UNCHANGED forwards
    PROVE  \E next : Kicked(w) = [run EXCEPT ![w] = next] /\ GoodRun(w, rec, next)
  <1>0. run \in [Workers -> Run] /\ run[w] \in Run BY DEF IInv, DurableTypeOK
  <1>1. CASE run[w].pc = "off"
    <2> DEFINE next == [Off EXCEPT !.pc = "claim"]
    <2>1. next \in Run /\ next.pc = "claim" /\ next.monitor = FALSE BY DEF Off, Run, RunPc
    <2>2. Kicked(w) = [run EXCEPT ![w] = next] BY <1>1 DEF Kicked
    <2> HIDE DEF next
    <2>3. GoodRun(w, rec, next) BY <2>1 DEF GoodRun, Working, Preparing
    <2> QED BY <2>2, <2>3
  <1>2. CASE run[w].pc # "off"
    <2>1. Kicked(w) = [run EXCEPT ![w] = run[w]] BY <1>0, <1>2 DEF Kicked
    <2>2. GoodRun(w, rec, run[w])
      BY <1>0 DEF GoodRun, IInv, Held, Monitored, Asked, NotBegun
    <2> QED BY <2>1, <2>2
  <1> QED BY <1>1, <1>2

\* A step that only kicks a worker, if anything.
LEMMA KickOK ==
    ASSUME IInv, NEW w \in Workers, run' \in {run, Kicked(w)},
           UNCHANGED <<rec, starts, forwards>>, OtherTypes'
    PROVE  Kept
  <1>1. CASE run' = run BY <1>1, StillOK
  <1>2. CASE run' = Kicked(w)
    <2>1. PICK next : Kicked(w) = [run EXCEPT ![w] = next] /\ GoodRun(w, rec, next) BY Kicks
    <2> QED BY <1>2, <2>1, SameCounts, RunOnly DEF Go
  <1> QED BY <1>1, <1>2

\* store.create: nobody worked for a record that did not exist.
Created ==
    \/ rec' = NewRecord
    \/ \E k \in CancelKeys :
          rec' = [NewRecord EXCEPT !.status = "cancelled", !.cancellation = k, !.early = TRUE]

LEMMA CreatedRecord ==
    ASSUME Created
    PROVE  /\ rec' \in Record /\ rec'.events = <<>> /\ Len(rec'.events) = 0
           /\ rec'.owner = None /\ rec'.status \in {"pending", "cancelled"}
           /\ rec'.early => rec'.status = "cancelled"
  <1>1. PICK status \in {"pending", "cancelled"}, cancellation \in CancelKeys \cup {None},
             early \in BOOLEAN :
          /\ early => status = "cancelled"
          /\ rec' = [status |-> status, attempt |-> 0, events |-> <<>>,
                     cancellation |-> cancellation, owner |-> None, early |-> early]
    BY Zenon DEF NewRecord, Created
  <1>2. <<>> \in EventSeq /\ Len(<<>>) = 0 BY DEF EventSeq
  <1>3. rec' \in Record BY <1>1, <1>2 DEF Record, EventSeq, TerminalStatus
  <1>4. /\ rec'.events = <<>> /\ rec'.owner = None /\ rec'.status = status
        /\ rec'.early = early
    BY <1>1, Zenon
  <1> QED BY <1>1, <1>2, <1>3, <1>4

LEMMA CreateOK ==
    ASSUME IInv, rec.status = "absent", NEW w \in Workers, run' \in {run, Kicked(w)}, Created,
           UNCHANGED <<starts, forwards>>, OtherTypes'
    PROVE  Kept
  <1>1. ~Begun BY DEF Begun
  <1>2. /\ starts = 0 /\ forwards = 0 /\ rec.events = <<>>
        /\ \A v \in Workers : run[v].pc \in {"off", "claim"}
    BY <1>1 DEF IInv, NotBegun
  <1>3. run \in [Workers -> Run] BY DEF IInv, DurableTypeOK
  <1>4. run' \in [Workers -> Run] /\ \A v \in Workers :
           run'[v].pc \in {"off", "claim"} /\ run'[v].monitor = FALSE
    <2>1. \A v \in Workers : run[v].monitor = FALSE
      <3> SUFFICES ASSUME NEW v \in Workers PROVE run[v].monitor = FALSE OBVIOUS
      <3>1. run[v].monitor \in BOOLEAN BY <1>3 DEF Run
      <3> QED BY <1>2, <3>1 DEF IInv, Monitored
    <2>2. CASE run' = run BY <1>2, <1>3, <2>1, <2>2
    <2>3. CASE run' = Kicked(w)
      <3> DEFINE next == [Off EXCEPT !.pc = "claim"]
      <3>1. next \in Run /\ next.pc = "claim" /\ next.monitor = FALSE BY DEF Off, Run, RunPc
      <3>2. Kicked(w) = run \/ Kicked(w) = [run EXCEPT ![w] = next] BY DEF Kicked
      <3> HIDE DEF next
      <3> QED BY <1>2, <1>3, <2>1, <2>3, <3>1, <3>2
    <2> QED BY <2>2, <2>3
  <1>5. /\ rec' \in Record /\ rec'.events = <<>> /\ Len(rec'.events) = 0
        /\ rec'.owner = None /\ rec'.status \in {"pending", "cancelled"}
        /\ rec'.early => rec'.status = "cancelled"
    BY CreatedRecord
  <1>6. Len(rec.events) = 0 BY <1>2, <1>5
  <1>7. DurableTypeOK'
    <2>1. starts \in Nat /\ forwards \in Nat BY DEF IInv, DurableTypeOK
    <2> QED BY <1>4, <1>5, <2>1 DEF DurableTypeOK, OtherTypes
  <1>8. AttemptsInOrder' /\ EventsBounded' /\ Owned'
    BY <1>5 DEF AttemptsInOrder, EventsBounded, Owned
  <1>9. Held' BY <1>4 DEF Held, Working, Preparing
  <1>10. NotBegun' BY <1>2, <1>4, <1>5 DEF NotBegun
  <1>11. Monitored' /\ Asked' BY <1>2, <1>4 DEF Monitored, Asked
  <1>12. Final /\ Honoured /\ Grows
    BY <1>5, <1>6 DEF Final, Honoured, Grows, IsTerminal, IsOpen, TerminalStatus
  <1> QED BY <1>7, <1>8, <1>9, <1>10, <1>11, <1>12 DEF Kept, IInv

------------------------------------------------
\* The actions of clients and processes.

LEMMA ReplyTypes ==
    ASSUME IInv, NEW k \in CancelKeys, NEW c \in Cancel, can' = [can EXCEPT ![k] = c],
           UNCHANGED <<expired, up, obs>>, UNCHANGED faults \/ Spend("store")
    PROVE  OtherTypes'
  <1>1. faults \in Nat /\ faults' \in {faults, faults + 1} BY DEF IInv, DurableTypeOK, Spend
  <1>2. can \in [CancelKeys -> Cancel] BY DEF IInv, DurableTypeOK
  <1>3. can' \in [CancelKeys -> Cancel] BY <1>2
  <1> QED BY <1>1, <1>3 DEF IInv, DurableTypeOK, OtherTypes

LEMMA CancelBeforeStartOK ==
    ASSUME IInv, NEW k \in CancelKeys, NEW w \in Workers, CancelTurnBeforeStart(k, w)
    PROVE  Kept
  <1>1. rec.status = "absent" /\ Created BY DEF CancelTurnBeforeStart, Creates, Created
  <1>2. OtherTypes'
    <2>1. [pc |-> "terminal", at |-> None] \in Cancel /\ [pc |-> "refused", at |-> None] \in Cancel
      BY DEF Cancel
    <2> QED BY <2>1, ReplyTypes DEF CancelTurnBeforeStart
  <1> QED BY <1>1, <1>2, CreateOK DEF CancelTurnBeforeStart

LEMMA CancelTurnOK ==
    ASSUME IInv, NEW k \in CancelKeys, NEW w \in Workers, CancelTurn(k, w)
    PROVE  Kept
  <1>1. /\ UNCHANGED <<rec, expired, up, obs, starts, forwards, faults>>
        /\ run' \in {run, Kicked(w)}
    BY DEF CancelTurn
  <1>2. \E c \in Cancel : can' = [can EXCEPT ![k] = c]
    <2>1. \E result \in {"refused", "terminal", "requested", "update"} :
             can' = [can EXCEPT ![k] = [pc |-> result,
                                        at |-> IF result = "update" THEN w ELSE None]]
      BY DEF CancelTurn
    <2>2. \A result \in {"refused", "terminal", "requested", "update"} :
             [pc |-> result, at |-> IF result = "update" THEN w ELSE None] \in Cancel
      BY DEF Cancel
    <2> QED BY <2>1, <2>2
  <1>3. OtherTypes' BY <1>1, <1>2, ReplyTypes
  <1> QED BY <1>1, <1>3, KickOK

LEMMA RecordCancellationOK ==
    ASSUME IInv, NEW k \in CancelKeys, RecordCancellation(k)
    PROVE  Kept
  <1>0. rec \in Record /\ can[k] \in Cancel /\ k # None
    BY DurableAssumption DEF IInv, DurableTypeOK
  <1>1. can[k].pc = "update" /\ UNCHANGED <<expired, up, obs, starts, forwards>>
    BY DEF RecordCancellation
  <1>2. can[k].at \in Workers BY <1>0, <1>1 DEF Cancel
  <1>3. OtherTypes'
    <2>1. [pc |-> "requested", at |-> None] \in Cancel /\ [pc |-> "refused", at |-> None] \in Cancel
      BY DEF Cancel
    <2> QED BY <1>1, <2>1, ReplyTypes DEF RecordCancellation
  <1>4. run' \in {run, Kicked(can[k].at)} BY DEF RecordCancellation
  <1>5. CASE rec' = rec BY <1>1, <1>2, <1>3, <1>4, <1>5, KickOK
  <1>6. CASE rec' = [rec EXCEPT !.cancellation = k]
    <2> DEFINE new == [rec EXCEPT !.cancellation = k]
    <2>1. new \in Record BY <1>0, Zenon DEF Record
    <2>2. /\ new.early = rec.early /\ new.cancellation = k /\ new.events = rec.events
          /\ new.owner = rec.owner /\ new.attempt = rec.attempt /\ new.status = rec.status
      BY <1>0, Zenon DEF Record
    <2> HIDE DEF new
    <2>3. GoodRecord(can[k].at, new)
      BY <1>0, <2>1, <2>2 DEF GoodRecord, IInv, Owned, IsOpen
    <2>4. \E next : run' = [run EXCEPT ![can[k].at] = next] /\ GoodRun(can[k].at, rec, next)
      <3>1. CASE run' = Kicked(can[k].at) BY <1>1, <1>2, <3>1, Kicks
      <3>2. CASE run' = run
        <4>1. run \in [Workers -> Run] BY DEF IInv, DurableTypeOK
        <4>2. run' = [run EXCEPT ![can[k].at] = run[can[k].at]] BY <1>2, <3>2, <4>1
        <4>3. GoodRun(can[k].at, rec, run[can[k].at])
          BY <1>1, <1>2, <4>1 DEF GoodRun, IInv, Held, Monitored, Asked, NotBegun
        <4> QED BY <4>2, <4>3
      <3> QED BY <1>4, <3>1, <3>2
    <2>5. PICK next : /\ run' = [run EXCEPT ![can[k].at] = next]
                      /\ GoodRun(can[k].at, rec, next)
      BY <2>4
    <2>6. GoodRun(can[k].at, new, next) BY <2>2, <2>5 DEF GoodRun
    <2>7. GoodCounts(can[k].at, new) BY <1>1, <1>2, SameCounts
    <2> QED BY <1>2, <1>3, <1>6, <2>3, <2>5, <2>6, <2>7, WorkerStep DEF new
  <1> QED BY <1>5, <1>6 DEF RecordCancellation

\* A new connection starts among the events that its client has seen.
LEMMA ObservingOK ==
    ASSUME IInv, Shown, NEW o \in Observers, NEW w \in Workers, Observing(o, w)
    PROVE  /\ obs' \in [Observers -> Observation]
           /\ Kept => Shown'
  <1>0. obs \in [Observers -> Observation] /\ obs[o] \in Observation
    BY DEF IInv, DurableTypeOK
  <1>1. PICK m \in Nat : ShownTo(obs[o], m) BY DEF Shown
  <1> DEFINE n == ObservationStart(obs[o].cursor)
             b == [obs[o] EXCEPT !.pc = "open", !.at = w, !.terminal = "none",
                                 !.count = n, !.loaded = n]
  <1>2. n \in 0..m BY <1>0, <1>1, StartOK
  <1>3. obs' = [obs EXCEPT ![o] = b] BY DEF Observing
  <1> HIDE DEF n
  <1>4. n \in Nat /\ n <= m BY <1>2
  <1>5. b \in Observation BY <1>0, <1>4, Zenon DEF Observation, TerminalStatus
  <1>6. /\ b.seen = obs[o].seen /\ b.cursor = obs[o].cursor /\ b.count = n /\ b.loaded = n
        /\ b.terminal = "none" /\ b.pc = "open"
    BY <1>0, Zenon DEF Observation
  <1> HIDE DEF b
  <1>7. obs' \in [Observers -> Observation] BY <1>0, <1>3, <1>5
  <1>8. ASSUME Kept PROVE Shown'
    <2>0. Len(rec.events) \in Nat /\ Len(rec'.events) \in Nat
      BY <1>8 DEF Kept, IInv, DurableTypeOK, Record
    <2> SUFFICES ASSUME NEW p \in Observers
                 PROVE  Closing(obs[p])' /\ \E i \in Nat : ShownTo(obs[p], i)'
      BY DEF Shown
    <2>1. CASE p = o
      <3>1. obs'[p] = b BY <1>0, <1>3, <2>1
      <3>2. m <= Len(rec'.events) BY <1>1, <2>0, <1>8 DEF ShownTo, Kept, Grows
      <3>3. \A i \in 1..m : rec'.events[i] = rec.events[i]
        BY <1>1, <1>8, <2>0 DEF ShownTo, Kept, Grows
      <3>4. n <= Len(rec'.events) BY <1>4, <2>0, <3>2
      <3>5. ShownTo(obs[p], m)'
        BY <1>1, <1>4, <1>6, <3>1, <3>2, <3>3, <3>4 DEF ShownTo
      <3>6. Closing(obs[p])' BY <1>6, <3>1 DEF Closing
      <3> QED BY <3>5, <3>6
    <2>2. CASE p # o
      <3>1. obs'[p] = obs[p] BY <1>0, <1>3, <2>2
      <3>2. PICK i \in Nat : ShownTo(obs[p], i) BY DEF Shown
      <3>3. obs[p].loaded \in Nat BY <1>0 DEF Observation
      <3>4. i <= Len(rec'.events) /\ obs[p].loaded <= Len(rec'.events)
            /\ \A j \in 1..i : rec'.events[j] = rec.events[j]
        BY <1>8, <2>0, <3>2, <3>3 DEF ShownTo, Kept, Grows
      <3>5. ShownTo(obs[p], i)' BY <3>1, <3>2, <3>4 DEF ShownTo
      <3>6. Closing(obs[p])' BY <1>8, <3>1 DEF Closing, Shown, Kept, Final, IsTerminal
      <3> QED BY <3>5, <3>6
    <2> QED BY <2>1, <2>2
  <1> QED BY <1>7, <1>8

LEMMA StartTurnOK ==
    ASSUME IInv, Shown, NEW o \in Observers, NEW w \in Workers, StartTurn(o, w)
    PROVE  AllKept
  <1>1. UNCHANGED <<expired, up, can, starts, forwards>> BY DEF StartTurn
  <1>2. CASE /\ Observing(o, w) /\ rec' = (IF Creates THEN NewRecord ELSE rec)
             /\ run' = (IF rec.early THEN run ELSE Kicked(w)) /\ UNCHANGED faults
    <2>1. obs' \in [Observers -> Observation] /\ (Kept => Shown') BY <1>2, ObservingOK
    <2>2. OtherTypes' BY <1>1, <1>2, <2>1 DEF IInv, DurableTypeOK, OtherTypes
    <2>3. run' \in {run, Kicked(w)} BY <1>2
    <2>4. CASE Creates
      <3>1. rec.status = "absent" /\ Created BY <1>2, <2>4 DEF Creates, Created
      <3> QED BY <1>1, <2>1, <2>2, <2>3, <3>1, CreateOK DEF AllKept
    <2>5. CASE ~Creates
      <3>1. rec' = rec BY <1>2, <2>5
      <3> QED BY <1>1, <2>1, <2>2, <2>3, <3>1, KickOK DEF AllKept
    <2> QED BY <2>4, <2>5
  <1>3. CASE /\ Spend("store") /\ UNCHANGED <<obs, run>>
             /\ (Creates /\ rec' = NewRecord) \/ UNCHANGED rec
    <2>1. OtherTypes' BY <1>1, <1>3, FaultTypes DEF DurableFaults
    <2>2. CASE UNCHANGED rec BY <1>1, <1>3, <2>1, <2>2, StillOK, ObservationsKept
    <2>3. CASE Creates /\ rec' = NewRecord
      <3>1. rec.status = "absent" /\ Created BY <2>3 DEF Creates, Created
      <3>2. run' \in {run, Kicked(w)} BY <1>3
      <3> QED BY <1>1, <1>3, <2>1, <3>1, <3>2, CreateOK, ObservationsKept
    <2> QED BY <1>3, <2>2, <2>3
  <1> QED BY <1>2, <1>3 DEF StartTurn

LEMMA ResumeTurnOK ==
    ASSUME IInv, Shown, NEW o \in Observers, NEW w \in Workers, ResumeTurn(o, w)
    PROVE  AllKept
  <1>1. /\ UNCHANGED <<rec, expired, up, can, starts, forwards, faults>>
        /\ run' \in {run, Kicked(w)} /\ Observing(o, w)
    BY DEF ResumeTurn
  <1>2. obs' \in [Observers -> Observation] /\ (Kept => Shown') BY <1>1, ObservingOK
  <1>3. OtherTypes' BY <1>1, <1>2 DEF IInv, DurableTypeOK, OtherTypes
  <1> QED BY <1>1, <1>2, <1>3, KickOK DEF AllKept

\* A step of one observation that leaves everything else alone.
LEMMA ObserverOnly ==
    ASSUME IInv, Shown, NEW o \in Observers, NEW b \in Observation, NEW m \in Nat,
           obs' = [obs EXCEPT ![o] = b], ShownTo(b, m), Closing(b), faults' \in Nat,
           UNCHANGED <<rec, expired, run, up, can, starts, forwards>>
    PROVE  AllKept
  <1>0. obs \in [Observers -> Observation] BY DEF IInv, DurableTypeOK
  <1>1. obs' \in [Observers -> Observation] BY <1>0
  <1>2. OtherTypes' BY <1>1 DEF IInv, DurableTypeOK, OtherTypes
  <1>3. Shown'
    <2> SUFFICES ASSUME NEW p \in Observers
                 PROVE  Closing(obs[p])' /\ \E i \in Nat : ShownTo(obs[p], i)'
      BY DEF Shown
    <2>1. CASE p = o
      <3>1. obs'[p] = b BY <1>0, <2>1
      <3>2. ShownTo(obs[p], m)' BY <3>1 DEF ShownTo
      <3>3. Closing(obs[p])' BY <3>1 DEF Closing, IsTerminal
      <3> QED BY <3>2, <3>3
    <2>2. CASE p # o
      <3>1. obs'[p] = obs[p] BY <1>0, <2>2
      <3>2. PICK i \in Nat : ShownTo(obs[p], i) BY DEF Shown
      <3>3. ShownTo(obs[p], i)' BY <3>1, <3>2 DEF ShownTo
      <3>4. Closing(obs[p])' BY <3>1 DEF Closing, IsTerminal, Shown
      <3> QED BY <3>3, <3>4
    <2> QED BY <2>1, <2>2
  <1> QED BY <1>2, <1>3, StillOK DEF AllKept

LEMMA ObserverStepOK ==
    ASSUME IInv, Shown, NEW o \in Observers, ObserverStep(o) \/ Disconnect(o)
    PROVE  AllKept
  <1>0. obs \in [Observers -> Observation] /\ obs[o] \in Observation /\ faults \in Nat
    BY DEF IInv, DurableTypeOK
  <1>1. obs[o].count \in Nat /\ obs[o].loaded \in Nat /\ obs[o].seen \subseteq Nat
    BY <1>0 DEF Observation
  <1>2. rec.events \in EventSeq /\ rec \in Record
    BY DEF IInv, DurableTypeOK, Record, EventSeq
  <1>3. Len(rec.events) \in Nat BY <1>2, EventTypes
  <1>4. PICK m \in Nat : ShownTo(obs[o], m) BY DEF Shown
  <1>5. Closing(obs[o]) BY DEF Shown
  <1>6. CASE Load(o)
    <2> DEFINE t == IF IsTerminal THEN rec.status ELSE "none"
               b == [obs[o] EXCEPT !.loaded = Len(rec.events), !.terminal = t]
    <2>1. t \in {"none"} \cup TerminalStatus BY DEF IsTerminal
    <2>2. t # "none" => IsTerminal /\ t = rec.status OBVIOUS
    <2> HIDE DEF t
    <2>3. b \in Observation BY <1>0, <1>3, <2>1, Zenon DEF Observation
    <2>4. /\ b.seen = obs[o].seen /\ b.count = obs[o].count /\ b.cursor = obs[o].cursor
          /\ b.loaded = Len(rec.events) /\ b.terminal = t /\ b.pc = obs[o].pc
      BY <1>0, Zenon DEF Observation
    <2>5. obs' = [obs EXCEPT ![o] = b] BY <1>0, <1>6 DEF Load, t
    <2> HIDE DEF b
    <2>6. obs[o].count <= Len(rec.events) /\ obs[o].pc = "open"
      BY <1>1, <1>3, <1>4, <1>6 DEF ShownTo, Load
    <2>7. ShownTo(b, m) BY <1>3, <1>4, <2>4, <2>6 DEF ShownTo
    <2>8. Closing(b) BY <2>2, <2>4, <2>6 DEF Closing
    <2> QED BY <1>0, <1>6, <2>3, <2>5, <2>7, <2>8, ObserverOnly DEF Load
  <1>7. CASE Yield(o)
    <2> DEFINE i == obs[o].count + 1
               f == rec.events[i].frame
               b == [obs[o] EXCEPT !.count = i, !.cursor = f, !.seen = @ \cup {i}]
               n == IF i <= m THEN m ELSE i
    <2>1. i <= obs[o].loaded /\ obs' = [obs EXCEPT ![o] = b] /\ obs[o].pc = "open"
      BY <1>0, <1>7 DEF Yield
    <2>2. i \in Nat /\ i \in 1..Len(rec.events)
      BY <1>1, <1>3, <1>4, <2>1 DEF ShownTo
    <2>3. f \in Nat BY <1>2, <2>2, EventTypes
    <2>4. i <= m + 1 BY <1>1, <1>4 DEF ShownTo
    <2>5. n \in Nat /\ 1..n = (1..m) \cup {i} /\ i \in 1..n /\ n <= Len(rec.events) /\ i <= n
      BY <1>3, <1>4, <2>2, <2>4 DEF ShownTo
    <2>6. obs[o].seen \cup {i} = 1..n /\ obs[o].seen \cup {i} \subseteq Nat
      BY <1>1, <1>4, <2>2, <2>5 DEF ShownTo
    <2>7. rec.events[i].frame = f /\ f # -1 BY <2>3
    <2> HIDE DEF i, f, n
    <2>8. b \in Observation BY <1>0, <2>2, <2>3, <2>6, Zenon DEF Observation
    <2>9. /\ b.seen = 1..n /\ b.count = i /\ b.cursor = f /\ b.loaded = obs[o].loaded
          /\ b.terminal = obs[o].terminal /\ b.pc = obs[o].pc
      BY <1>0, <2>6, Zenon DEF Observation
    <2> HIDE DEF b
    <2>10. ShownTo(b, n)
      BY <1>4, <2>1, <2>5, <2>7, <2>9 DEF ShownTo
    <2>11. Closing(b) BY <1>5, <2>1, <2>9 DEF Closing
    <2> QED BY <1>0, <1>7, <2>1, <2>5, <2>8, <2>10, <2>11, ObserverOnly DEF Yield
  <1>8. CASE ObservationEnds(o)
    <2> DEFINE b == [obs[o] EXCEPT !.pc = "done", !.terminal = EndsWith(o)]
    <2>1. EndsWith(o) = obs[o].terminal BY DEF EndsWith
    <2>2. obs[o].terminal # "none" /\ obs[o].pc = "open" /\ obs[o].count = obs[o].loaded
          /\ obs' = [obs EXCEPT ![o] = b]
      BY <1>0, <1>8, <2>1 DEF ObservationEnds
    <2>3. b \in Observation BY <1>0, <2>1, Zenon DEF Observation
    <2>4. /\ b.seen = obs[o].seen /\ b.count = obs[o].count /\ b.cursor = obs[o].cursor
          /\ b.loaded = obs[o].loaded /\ b.terminal = obs[o].terminal /\ b.pc = "done"
      BY <1>0, <2>1, Zenon DEF Observation
    <2> HIDE DEF b
    <2>5. ShownTo(b, m) BY <1>4, <2>4 DEF ShownTo
    <2>6. Closing(b) BY <1>5, <2>2, <2>4 DEF Closing
    <2> QED BY <1>0, <1>8, <2>2, <2>3, <2>5, <2>6, ObserverOnly DEF ObservationEnds
  <1>9. CASE Disconnect(o)
    <2> DEFINE b == [obs[o] EXCEPT !.pc = "lost", !.at = None]
    <2>1. obs' = [obs EXCEPT ![o] = b] /\ faults' = faults + 1
      BY <1>0, <1>9 DEF Disconnect, Spend
    <2>2. b \in Observation BY <1>0, Zenon DEF Observation
    <2>3. /\ b.seen = obs[o].seen /\ b.count = obs[o].count /\ b.cursor = obs[o].cursor
          /\ b.loaded = obs[o].loaded /\ b.pc = "lost"
      BY <1>0, Zenon DEF Observation
    <2> HIDE DEF b
    <2>4. ShownTo(b, m) BY <1>4, <2>3 DEF ShownTo
    <2>5. Closing(b) BY <2>3 DEF Closing
    <2>6. faults' \in Nat BY <1>0, <2>1
    <2> QED BY <1>9, <2>1, <2>2, <2>4, <2>5, <2>6, ObserverOnly DEF Disconnect
  <1> QED BY <1>6, <1>7, <1>8, <1>9 DEF ObserverStep

LEMMA CrashOK == ASSUME IInv, Shown, NEW w \in Workers, Crash(w) PROVE AllKept
  <1>0. /\ obs \in [Observers -> Observation] /\ can \in [CancelKeys -> Cancel]
        /\ faults \in Nat /\ up \subseteq Workers /\ expired \in BOOLEAN
    BY DEF IInv, DurableTypeOK
  <1>1. UNCHANGED <<rec, expired, starts, forwards>> /\ Go(w, Off) BY DEF Crash
  <1>2. \A o \in Observers :
          \/ obs'[o] = obs[o]
          \/ obs'[o] = [obs[o] EXCEPT !.pc = IF @ = "open" THEN "lost" ELSE @, !.at = None]
    BY DEF Crash
  <1>3. ASSUME NEW o \in Observers
        PROVE  /\ obs'[o] \in Observation
               /\ obs'[o].seen = obs[o].seen /\ obs'[o].count = obs[o].count
               /\ obs'[o].loaded = obs[o].loaded /\ obs'[o].cursor = obs[o].cursor
               /\ obs'[o].terminal = obs[o].terminal /\ obs'[o].pc \in {obs[o].pc, "lost"}
    <2>1. obs[o] \in Observation BY <1>0
    <2>2. CASE obs'[o] = obs[o] BY <2>1, <2>2
    <2>3. CASE obs'[o] = [obs[o] EXCEPT !.pc = IF @ = "open" THEN "lost" ELSE @, !.at = None]
      <3>1. PICK pc \in {obs[o].pc, "lost"} : obs'[o] = [obs[o] EXCEPT !.pc = pc, !.at = None]
        BY <2>3
      <3>2. obs[o].pc \in {"off", "open", "lost", "done"} BY <2>1 DEF Observation
      <3>3. pc \in {"off", "open", "lost", "done"} BY <3>2
      <3>4. obs'[o] \in Observation BY <2>1, <3>1, <3>3, Zenon DEF Observation
      <3>5. /\ obs'[o].seen = obs[o].seen /\ obs'[o].count = obs[o].count
            /\ obs'[o].loaded = obs[o].loaded /\ obs'[o].cursor = obs[o].cursor
            /\ obs'[o].terminal = obs[o].terminal /\ obs'[o].pc = pc
        BY <2>1, <3>1, Zenon DEF Observation
      <3> QED BY <3>4, <3>5
    <2> QED BY <1>2, <2>2, <2>3
  <1>4. OtherTypes'
    <2>1. obs' \in [Observers -> Observation]
      <3>1. obs' = [o \in Observers |-> obs'[o]] BY DEF Crash
      <3> QED BY <1>3, <3>1
    <2>2. can' \in [CancelKeys -> Cancel]
      <3>1. [pc |-> "refused", at |-> None] \in Cancel BY DEF Cancel
      <3> QED BY <1>0, <3>1 DEF Crash
    <2>3. faults' \in Nat /\ up' \subseteq Workers
      <3>1. faults' = faults + 1 /\ up' = up \ {w} BY DEF Crash, Spend
      <3> QED BY <1>0, <3>1
    <2> QED BY <1>0, <1>1, <2>1, <2>2, <2>3 DEF OtherTypes
  <1>5. Kept BY <1>1, <1>4, OffOK, SameCounts, RunOnly
  <1> QED BY <1>3, <1>5, ShownKept DEF AllKept, Kept

LEMMA ProcessOK ==
    ASSUME IInv, Shown, LeaseExpires \/ \E w \in Workers : RecoverTurn(w) \/ Restart(w)
    PROVE  AllKept
  <1>1. CASE LeaseExpires
    <2>1. OtherTypes' BY <1>1 DEF LeaseExpires, IInv, DurableTypeOK, OtherTypes
    <2> QED BY <1>1, <2>1, StillOK, ObservationsKept DEF LeaseExpires
  <1>2. ASSUME NEW w \in Workers, RecoverTurn(w) PROVE AllKept
    <2>1. OtherTypes' BY <1>2 DEF RecoverTurn, IInv, DurableTypeOK, OtherTypes
    <2> QED BY <1>2, <2>1, KickOK, ObservationsKept DEF RecoverTurn
  <1>3. ASSUME NEW w \in Workers, Restart(w) PROVE AllKept
    <2>1. OtherTypes' BY <1>3 DEF Restart, IInv, DurableTypeOK, OtherTypes
    <2> QED BY <1>3, <2>1, StillOK, ObservationsKept DEF Restart
  <1> QED BY <1>1, <1>2, <1>3

------------------------------------------------
\* The theorems.

LEMMA DurableInit == Init => IInv /\ Shown
  <1> SUFFICES ASSUME Init PROVE IInv /\ Shown OBVIOUS
  <1>0. rec = [status |-> "absent", attempt |-> 0, events |-> <<>>, cancellation |-> None,
               owner |-> None, early |-> FALSE]
    BY Zenon DEF Init, NewRecord
  <1>1. <<>> \in EventSeq /\ Len(<<>>) = 0 BY DEF EventSeq
  <1>2. rec \in Record BY <1>0, <1>1 DEF Record, EventSeq
  <1>3. /\ rec.status = "absent" /\ rec.events = <<>> /\ rec.owner = None /\ rec.early = FALSE
        /\ Len(rec.events) = 0
    BY <1>0, <1>1
  <1>4. run = [w \in Workers |-> Off] /\ Off \in Run /\ Off.pc = "off" /\ Off.monitor = FALSE
    BY RunTypes DEF Init, Off
  <1>5. can \in [CancelKeys -> Cancel] BY DEF Init, Cancel
  <1>6. ASSUME NEW o \in Observers
        PROVE  obs[o] \in Observation /\ ShownTo(obs[o], 0) /\ Closing(obs[o])
    <2>1. obs[o] = [pc |-> "off", at |-> None, count |-> 0, loaded |-> 0,
                    terminal |-> "none", cursor |-> -1, seen |-> {}]
      BY DEF Init
    <2>2. obs[o] \in Observation BY <2>1 DEF Observation
    <2>3. {} = 1..0 OBVIOUS
    <2>4. ShownTo(obs[o], 0) BY <1>3, <2>1, <2>3 DEF ShownTo
    <2>5. Closing(obs[o]) BY <2>1 DEF Closing
    <2> QED BY <2>2, <2>4, <2>5
  <1>7. obs \in [Observers -> Observation]
    <2>1. obs = [o \in Observers |-> obs[o]] BY DEF Init
    <2> QED BY <1>6, <2>1
  <1>8. starts = 0 /\ forwards = 0 /\ faults = 0 /\ up = Workers /\ expired = FALSE BY DEF Init
  <1>9. DurableTypeOK BY <1>2, <1>4, <1>5, <1>7, <1>8 DEF DurableTypeOK
  <1>10. AttemptsInOrder /\ EventsBounded BY <1>3 DEF AttemptsInOrder, EventsBounded
  <1>11. Owned /\ NotBegun /\ Asked BY <1>3, <1>4, <1>8 DEF Owned, NotBegun, Asked
  <1>12. Held /\ Monitored BY <1>4 DEF Held, Monitored, Working, Preparing
  <1>13. Shown BY <1>6 DEF Shown
  <1> QED BY <1>9, <1>10, <1>11, <1>12, <1>13 DEF IInv

LEMMA DurableNext == IInv /\ Shown /\ [Next]_vars => AllKept
  <1> SUFFICES ASSUME IInv, Shown, [Next]_vars PROVE AllKept OBVIOUS
  <1>1. ASSUME NEW w \in Workers, RunStep(w) \/ DecodeRenew(w) \/ Monitor(w) PROVE AllKept
    <2>1. Kept
      BY <1>1, ClaimOK, DecodeOK, DecodeRenewOK, ReadyOK, DispatchOK, BindOK, FrameOK,
         StreamEndsOK, SettleOK, MonitorOK DEF RunStep
    <2>2. UNCHANGED obs
      BY <1>1 DEF RunStep, DecodeRenew, Monitor, Claim, Decode, Ready, Dispatch, Bind, Frame,
                  StreamEnds, Settle
    <2> QED BY <2>1, <2>2, ObservationsKept
  <1>2. ASSUME NEW k \in CancelKeys, RecordCancellation(k) PROVE AllKept
    BY <1>2, RecordCancellationOK, ObservationsKept DEF RecordCancellation
  <1>3. ASSUME NEW k \in CancelKeys, NEW w \in Workers, CancelTurn(k, w) PROVE AllKept
    BY <1>3, CancelTurnOK, ObservationsKept DEF CancelTurn
  <1>4. ASSUME NEW k \in CancelKeys, NEW w \in Workers, CancelTurnBeforeStart(k, w)
        PROVE  AllKept
    BY <1>4, CancelBeforeStartOK, ObservationsKept DEF CancelTurnBeforeStart
  <1>5. ASSUME NEW o \in Observers, NEW w \in Workers, StartTurn(o, w) \/ ResumeTurn(o, w)
        PROVE  AllKept
    BY <1>5, StartTurnOK, ResumeTurnOK
  <1>6. CASE UNCHANGED vars
    <2>1. OtherTypes' BY <1>6 DEF vars, IInv, DurableTypeOK, OtherTypes
    <2> QED BY <1>6, <2>1, StillOK, ObservationsKept DEF vars
  <1> QED BY <1>1, <1>2, <1>3, <1>4, <1>5, <1>6, ObserverStepOK, CrashOK, ProcessOK DEF Next

\* What the inductive invariant implies.
LEMMA DurableImplied ==
    IInv /\ Shown => /\ DurableTypeOK /\ AttemptsInOrder /\ ForwardedOnce
                     /\ CancelledEarlyNeverRuns /\ ObserverComplete /\ NothingSkipped
  <1> SUFFICES ASSUME IInv, Shown
               PROVE  ForwardedOnce /\ CancelledEarlyNeverRuns /\ ObserverComplete /\ NothingSkipped
    BY DEF IInv
  <1>1. ForwardedOnce /\ CancelledEarlyNeverRuns
    BY DEF IInv, Asked, NotBegun, Begun, ForwardedOnce, CancelledEarlyNeverRuns
  <1>2. ASSUME NEW o \in Observers, obs[o].pc = "done"
        PROVE  obs[o].seen = 1..Len(rec.events) /\ obs[o].terminal = rec.status
    <2>1. PICK m \in Nat : ShownTo(obs[o], m) BY DEF Shown
    <2>2. Closing(obs[o]) BY DEF Shown
    <2>3. obs[o].count = Len(rec.events) /\ obs[o].terminal = rec.status
      BY <1>2, <2>2 DEF Closing
    <2>4. Len(rec.events) \in Nat BY DEF IInv, DurableTypeOK, Record
    <2>5. m = Len(rec.events) BY <2>1, <2>3, <2>4 DEF ShownTo
    <2> QED BY <2>1, <2>3, <2>5 DEF ShownTo
  <1>3. NothingSkipped
    <2> SUFFICES ASSUME NEW o \in Observers, NEW i \in obs[o].seen
                 PROVE  1..i \subseteq obs[o].seen
      BY DEF NothingSkipped
    <2>1. PICK m \in Nat : ShownTo(obs[o], m) BY DEF Shown
    <2>2. obs[o].seen = 1..m BY <2>1 DEF ShownTo
    <2> QED BY <2>2
  <1> QED BY <1>1, <1>2, <1>3 DEF ObserverComplete

\* The inductive invariant holds in every behaviour of the workers and
\* clients of a turn.
THEOREM DurableInvariant == Spec => [](IInv /\ Shown)
  <1>1. IInv /\ Shown /\ [Next]_vars => (IInv /\ Shown)'
    BY DurableNext DEF AllKept, Kept
  <1> QED BY <1>1, DurableInit, PTL DEF Spec

\* Every variable of the durable transport keeps its type.
THEOREM DurableTypesHold == Spec => []DurableTypeOK
  <1>1. IInv /\ Shown => DurableTypeOK BY DurableImplied
  <1> QED BY <1>1, DurableInvariant, PTL

\* run(), line 356: the frames of a turn are in the order of its attempts,
\* however often the turn is taken over while its old worker still streams.
THEOREM TakeoverKeepsOrder == Spec => []AttemptsInOrder
  <1>1. IInv /\ Shown => AttemptsInOrder BY DurableImplied
  <1> QED BY <1>1, DurableInvariant, PTL

\* monitor(): the delegate is asked to cancel once over all workers.
THEOREM CancelForwardedOnce == Spec => []ForwardedOnce
  <1>1. IInv /\ Shown => ForwardedOnce BY DurableImplied
  <1> QED BY <1>1, DurableInvariant, PTL

\* cancelTurnBeforeStart: a turn it closed never reaches the delegate.
THEOREM EarlyCancellationHolds == Spec => []CancelledEarlyNeverRuns
  <1>1. IInv /\ Shown => CancelledEarlyNeverRuns BY DurableImplied
  <1> QED BY <1>1, DurableInvariant, PTL

\* observe(): a client whose observation ended saw the whole record, and the
\* result it was given is the record's.
THEOREM ObserversSeeAll == Spec => []ObserverComplete
  <1>1. IInv /\ Shown => ObserverComplete BY DurableImplied
  <1> QED BY <1>1, DurableInvariant, PTL

\* observationStart: resuming at a cursor that a later attempt repeats never
\* skips an event.
THEOREM ResumeSkipsNothing == Spec => []NothingSkipped
  <1>1. IInv /\ Shown => NothingSkipped BY DurableImplied
  <1> QED BY <1>1, DurableInvariant, PTL

\* settle and update: a closed record keeps its status and its events.
THEOREM ClosedStaysClosed == Spec => ClosedIsFinal
  <1>1. IInv /\ Shown /\ [Next]_vars =>
           [IsTerminal => rec'.status = rec.status /\ rec'.events = rec.events]_vars
    BY DurableNext DEF AllKept, Kept, Final
  <1>2. Spec => [][IsTerminal => rec'.status = rec.status /\ rec'.events = rec.events]_vars
    BY <1>1, DurableInvariant, PTL DEF Spec
  <1> QED BY <1>2 DEF ClosedIsFinal

\* settle: a turn whose cancellation was recorded while it was open does not
\* complete.
THEOREM CancellationIsHonoured == Spec => CancellationHonoured
  <1>1. IInv /\ Shown /\ [Next]_vars =>
           [IsOpen /\ rec.cancellation # None => rec'.status # "completed"]_vars
    BY DurableNext DEF AllKept, Kept, Honoured
  <1>2. Spec => [][IsOpen /\ rec.cancellation # None => rec'.status # "completed"]_vars
    BY <1>1, DurableInvariant, PTL DEF Spec
  <1> QED BY <1>2 DEF CancellationHonoured

\* The safety of leases, takeovers, cancellations and reconnections, for any
\* number of workers, observers, frames and attempts.
THEOREM TransportIsSafe == Spec => []TransportSafe
  <1>1. AttemptsInOrder /\ ForwardedOnce /\ CancelledEarlyNeverRuns /\ ObserverComplete
          /\ NothingSkipped => TransportSafe
    BY DEF TransportSafe
  <1> QED BY <1>1, TakeoverKeepsOrder, CancelForwardedOnce, EarlyCancellationHolds,
             ObserversSeeAll, ResumeSkipsNothing, PTL

\* What a step may never do to a record: reopen it, or complete it against a
\* recorded cancellation.
THEOREM RecordOnlyMovesOn == Spec => RecordMovesOn
  BY ClosedStaysClosed, CancellationIsHonoured DEF RecordMovesOn

------------------------------------------------
\* The stores of events.

\* The events that can be stored at all: those of the callers' batches, with
\* the revisions the batches ask for.
Row == UNION {ToSet(Envelopes(Batches[c])) : c \in Callers}

Starts(s, t) == Len(s) <= Len(t) /\ \A i \in 1..Len(s) : s[i] = t[i]

StoresTypeOK ==
    /\ kind \in {"reference", "postgres"}
    /\ primary \in Seq(Row) /\ shadow \in Seq(Row)
    /\ caller \in [Callers -> [batch : {Batches[c] : c \in Callers}, at : {"idle", "shadow"}, repeats : Nat]]
    /\ repair \in [at : {"idle", "read", "repair"}, primary : Seq(Row), shadow : Seq(Row),
                   result : {"none", "divergent", "converged", "failed"}]

\* A batch stands in the primary under its revisions.
Stands(rows, b) ==
    /\ b.expected + Len(b.events) <= Len(rows)
    /\ \A i \in 1..Len(b.events) : rows[b.expected + i] = Envelopes(b)[i]
OnTheWay ==
    \A c \in Callers :
        /\ caller[c].batch = Batches[c]
        /\ kind = "postgres" /\ caller[c].at = "shadow" => Stands(primary, Batches[c])

\* What a reconciliation has read is a beginning of the primary.
ReadBefore ==
    /\ repair.at # "idle" => Starts(repair.primary, primary)
    /\ repair.at = "repair" => Len(repair.shadow) <= Len(repair.primary)
ShadowStarts == kind = "postgres" => Starts(shadow, primary)

StoresIInv == StoresTypeOK /\ IdentitiesOnce /\ OnTheWay /\ ReadBefore /\ ShadowStarts

------------------------------------------------
\* What validateAppend leaves of a batch: its envelopes are rows, with
\* contiguous revisions after the expected one and no identity twice.
LEMMA EnvelopesOfBatch ==
    ASSUME NEW c \in Callers
    PROVE  LET b == Batches[c] IN
           /\ b.expected \in Nat /\ Len(b.events) \in Nat
           /\ Envelopes(b) \in Seq(Row) /\ Len(Envelopes(b)) = Len(b.events)
           /\ DOMAIN Envelopes(b) = 1..Len(b.events)
           /\ \A i \in 1..Len(b.events) :
                 Envelopes(b)[i].id # "none" /\ Envelopes(b)[i].revision = b.expected + i
           /\ \A i, j \in 1..Len(b.events) : SameIdentity(Envelopes(b)[i], Envelopes(b)[j]) => i = j
  <1> DEFINE b == Batches[c]
             n == Len(b.events)
  <1>1. b.expected \in Nat /\ b.events \in Seq(ToSet(b.events)) BY StoresAssumption
  <1>2. n \in Nat /\ DOMAIN b.events = 1..n BY <1>1, LenProperties
  <1>3. /\ \A i \in 1..n : b.events[i].id # "none"
        /\ \A i, j \in 1..n : SameIdentity(b.events[i], b.events[j]) => i = j
    BY <1>2, StoresAssumption
  <1>4. /\ Envelopes(b) = [i \in 1..n |-> [id |-> b.events[i].id, mutation |-> b.events[i].mutation,
                                           body |-> b.events[i].body, revision |-> b.expected + i]]
    BY DEF Envelopes
  <1> HIDE DEF n
  <1>5. /\ DOMAIN Envelopes(b) = 1..n
        /\ \A i \in 1..n : /\ Envelopes(b)[i].id = b.events[i].id
                           /\ Envelopes(b)[i].mutation = b.events[i].mutation
                           /\ Envelopes(b)[i].revision = b.expected + i
    BY <1>4
  <1>6. \A i \in 1..n : Envelopes(b)[i] \in Row
    <2> TAKE i \in 1..n
    <2>1. Envelopes(b)[i] \in ToSet(Envelopes(b)) BY <1>5 DEF ToSet
    <2> QED BY <2>1 DEF Row
  <1>7. Envelopes(b) \in [1..n -> Row] BY <1>4, <1>5, <1>6
  <1>8. Envelopes(b) \in Seq(Row) /\ Len(Envelopes(b)) = n
    <2>1. Envelopes(b) \in Seq(Row) BY <1>2, <1>7, SeqDef
    <2>2. Len(Envelopes(b)) \in Nat /\ DOMAIN Envelopes(b) = 1..Len(Envelopes(b)) BY <2>1, LenProperties
    <2> QED BY <1>2, <1>5, <2>1, <2>2
  <1>9. \A i, j \in 1..n : SameIdentity(Envelopes(b)[i], Envelopes(b)[j]) => i = j
    BY <1>3, <1>5 DEF SameIdentity
  <1> QED BY <1>1, <1>2, <1>3, <1>5, <1>8, <1>9 DEF n

LEMMA RowShape ==
    ASSUME NEW r \in Row
    PROVE  /\ r = [id |-> r.id, mutation |-> r.mutation, body |-> r.body, revision |-> r.revision]
           /\ r.id # "none" /\ r.revision \in Nat
  <1>1. PICK c \in Callers : r \in ToSet(Envelopes(Batches[c])) BY DEF Row
  <1>2. PICK i \in 1..Len(Batches[c].events) : r = Envelopes(Batches[c])[i] BY <1>1, EnvelopesOfBatch DEF ToSet
  <1>3. r = [id |-> Batches[c].events[i].id, mutation |-> Batches[c].events[i].mutation,
             body |-> Batches[c].events[i].body, revision |-> Batches[c].expected + i]
    BY <1>2 DEF Envelopes
  <1>4. r.id # "none" /\ r.revision = Batches[c].expected + i /\ Batches[c].expected \in Nat
    BY <1>2, EnvelopesOfBatch
  <1>5. r.revision \in Nat
    <2>1. Len(Batches[c].events) \in Nat BY EnvelopesOfBatch
    <2>2. i \in Nat BY <2>1
    <2> QED BY <1>4, <2>2
  <1> QED BY <1>3, <1>4, <1>5

\* The elements of a sequence of rows, by their places.
LEMMA RowsByPlace ==
    ASSUME NEW rows \in Seq(Row)
    PROVE  /\ Len(rows) \in Nat /\ DOMAIN rows = 1..Len(rows)
           /\ \A i \in 1..Len(rows) : rows[i] \in Row /\ rows[i] \in ToSet(rows)
           /\ \A r \in ToSet(rows) : \E i \in 1..Len(rows) : r = rows[i]
  <1>1. Len(rows) \in Nat /\ DOMAIN rows = 1..Len(rows) BY LenProperties
  <1>2. \A i \in 1..Len(rows) : rows[i] \in Row BY ElementOfSeq
  <1> QED BY <1>1, <1>2 DEF ToSet

------------------------------------------------
\* An append that a store carries out follows its last event and repeats no
\* identity it holds: the reference semantics (findIdempotentMatch).
LEMMA ReferenceAppends ==
    ASSUME NEW rows, NEW b, ReferenceAppend(rows, b) = "appended"
    PROVE  /\ b.expected = Len(rows)
           /\ \A i \in DOMAIN Envelopes(b) : \A r \in ToSet(rows) : ~SameIdentity(r, Envelopes(b)[i])
  <1> DEFINE events == Envelopes(b)
             matched == {i \in DOMAIN events : Match(rows, events[i]) # {}}
  <1>1. matched = {} /\ b.expected = Len(rows) BY DEF ReferenceAppend
  <1>2. \A i \in DOMAIN events : ByEventId(rows, events[i]) = {} /\ ByMutationId(rows, events[i]) = {}
    BY <1>1 DEF Match
  <1> QED BY <1>1, <1>2 DEF ByEventId, ByMutationId, SameIdentity

\* The same for PostgreSQL, which looks for both identities at once.
LEMMA PostgresAppends ==
    ASSUME NEW rows \in Seq(Row), NEW c \in Callers, PostgresAppend(rows, Batches[c]) = "appended"
    PROVE  /\ Batches[c].expected = Len(rows)
           /\ \A i \in DOMAIN Envelopes(Batches[c]) : \A r \in ToSet(rows) :
                 ~SameIdentity(r, Envelopes(Batches[c])[i])
  <1> DEFINE events == Envelopes(Batches[c])
  <1>1. Duplicates(rows, events) = {} /\ Batches[c].expected = Len(rows) BY DEF PostgresAppend
  <1>2. ASSUME NEW i \in DOMAIN events, NEW r \in ToSet(rows), SameIdentity(r, events[i]) PROVE FALSE
    <2>1. r.id # "none" BY RowsByPlace, RowShape
    <2>2. r.id \in Identities(r) /\ (r.mutation # "none" => r.mutation \in Identities(r))
      BY <2>1 DEF Identities
    <2>3. \/ r.id = events[i].id /\ r.id \in Identities(events[i])
          \/ r.mutation # "none" /\ r.mutation = events[i].mutation /\ r.mutation \in Identities(events[i])
      BY <1>2, <2>1 DEF Identities, SameIdentity
    <2>4. Identities(r) \cap Identities(events[i]) # {} BY <2>2, <2>3
    <2>5. r \in Duplicates(rows, events) BY <2>4 DEF Duplicates
    <2> QED BY <1>1, <2>5
  <1> QED BY <1>1, <1>2

\* What PostgreSQL takes for the batch repeated stands in the log where the
\* batch's revisions say.
LEMMA PostgresRepeats ==
    ASSUME NEW rows \in Seq(Row), \A i \in 1..Len(rows) : rows[i].revision = i,
           NEW c \in Callers, PostgresAppend(rows, Batches[c]) = "idempotent"
    PROVE  /\ Stands(rows, Batches[c])
           /\ Len(Batches[c].events) > 0
  <1> DEFINE b == Batches[c]
             n == Len(b.events)
             events == Envelopes(b)
             durable == Duplicates(rows, events)
  <1>1. durable # {} /\ ToSet(events) \subseteq durable BY DEF PostgresAppend
  <1>2. /\ n \in Nat /\ b.expected \in Nat /\ DOMAIN events = 1..n
        /\ \A i \in 1..n : events[i].revision = b.expected + i
    BY EnvelopesOfBatch
  <1>3. \A i \in 1..n : events[i] \in ToSet(rows) BY <1>1, <1>2 DEF Duplicates, ToSet
  <1>4. Len(rows) \in Nat BY RowsByPlace
  <1> HIDE DEF n, events, durable, b
  <1>5. ASSUME NEW i \in 1..n
        PROVE  b.expected + i \in 1..Len(rows) /\ rows[b.expected + i] = events[i]
    <2>1. PICK k \in 1..Len(rows) : events[i] = rows[k] BY <1>3, RowsByPlace
    <2>2. events[i].revision = k BY <2>1
    <2>3. k = b.expected + i BY <1>2, <2>2
    <2> QED BY <2>1, <2>3
  <1>6. n > 0
    <2>1. PICK r \in durable : TRUE BY <1>1
    <2>2. PICK i \in DOMAIN events : Identities(r) \cap Identities(events[i]) # {} BY DEF durable, Duplicates
    <2> QED BY <1>2, <2>2
  <1>7. b.expected + n <= Len(rows)
    <2>1. n \in 1..n BY <1>2, <1>6
    <2>2. b.expected + n \in 1..Len(rows) BY <1>5, <2>1
    <2> QED BY <1>4, <2>2
  <1> QED BY <1>5, <1>6, <1>7 DEF Stands, n, events, b

\* On a log that holds every identity once, what PostgreSQL accepts the
\* reference accepts with the same answer.
LEMMA NoMoreLenient ==
    ASSUME StoresTypeOK, IdentitiesOnce, NEW c \in Callers,
           PostgresAppend(primary, Batches[c]) \in {"appended", "idempotent"}
    PROVE  ReferenceAppend(primary, Batches[c]) = PostgresAppend(primary, Batches[c])
  <1> DEFINE b == Batches[c]
             n == Len(b.events)
             events == Envelopes(b)
             matched == {i \in DOMAIN events : Match(primary, events[i]) # {}}
  <1>1. /\ n \in Nat /\ b.expected \in Nat /\ DOMAIN events = 1..n
        /\ \A i \in 1..n : events[i].revision = b.expected + i
    BY EnvelopesOfBatch
  <1>2. primary \in Seq(Row) BY DEF StoresTypeOK
  <1>3. CASE PostgresAppend(primary, b) = "appended"
    <2>1. /\ b.expected = Len(primary)
          /\ \A i \in DOMAIN events : \A r \in ToSet(primary) : ~SameIdentity(r, events[i])
      BY <1>2, <1>3, PostgresAppends
    <2>2. \A i \in DOMAIN events : ByEventId(primary, events[i]) = {} /\ ByMutationId(primary, events[i]) = {}
      BY <2>1 DEF ByEventId, ByMutationId, SameIdentity
    <2>3. matched = {} BY <2>2 DEF Match
    <2>4. ~\E i \in DOMAIN events : Contradicts(primary, events[i]) BY <2>2 DEF Contradicts
    <2> QED BY <1>3, <2>1, <2>3, <2>4 DEF ReferenceAppend
  <1>4. CASE PostgresAppend(primary, b) = "idempotent"
    <2>1. Stands(primary, b) /\ n > 0 BY <1>2, <1>4, PostgresRepeats DEF IdentitiesOnce
    <2>2. Len(primary) \in Nat BY <1>2, RowsByPlace
    <2>3. ASSUME NEW i \in 1..n
          PROVE  /\ ByEventId(primary, events[i]) = {events[i]}
                 /\ ByMutationId(primary, events[i]) \subseteq {events[i]}
      <3> DEFINE k == b.expected + i
      <3>1. k \in 1..Len(primary) /\ primary[k] = events[i] BY <1>1, <2>1, <2>2 DEF Stands
      <3>2. ASSUME NEW r \in ToSet(primary), SameIdentity(r, events[i]) PROVE r = events[i]
        <4>1. PICK j \in 1..Len(primary) : r = primary[j] BY <1>2, RowsByPlace
        <4>2. j = k BY <3>1, <3>2, <4>1 DEF IdentitiesOnce
        <4> QED BY <3>1, <4>1, <4>2
      <3>3. events[i] \in ToSet(primary) BY <1>2, <3>1, RowsByPlace
      <3> QED BY <3>2, <3>3 DEF ByEventId, ByMutationId, SameIdentity
    <2>4. ~\E i \in DOMAIN events : Contradicts(primary, events[i])
      BY <1>1, <2>3 DEF Contradicts, ByMutationId, SameClientMutation
    <2>5. matched = DOMAIN events /\ matched # {}
      <3>1. \A i \in DOMAIN events : Match(primary, events[i]) # {} BY <1>1, <2>3 DEF Match
      <3>2. 1 \in DOMAIN events BY <1>1, <2>1
      <3> QED BY <3>1, <3>2
    <2>6. CompleteRetry(primary, events) BY <1>1, <2>3 DEF CompleteRetry, Match
    <2> QED BY <1>4, <2>4, <2>5, <2>6 DEF ReferenceAppend
  <1> QED BY <1>3, <1>4

------------------------------------------------
\* A store's log only grows, and grows by the batch or not at all.
LEMMA StoredRows ==
    ASSUME NEW k, NEW rows \in Seq(Row), NEW b, Envelopes(b) \in Seq(Row)
    PROVE  /\ Stored(k, rows, b) \in Seq(Row)
           /\ Starts(rows, Stored(k, rows, b))
  <1>1. CASE AppendStatus(k, rows, b) = "appended"
    <2>1. Stored(k, rows, b) = rows \o Envelopes(b) BY <1>1 DEF Stored
    <2> QED BY <2>1, ConcatProperties, LenProperties DEF Starts
  <1>2. CASE AppendStatus(k, rows, b) # "appended"
    <2>1. Stored(k, rows, b) = rows BY <1>2 DEF Stored
    <2> QED BY <2>1, LenProperties DEF Starts
  <1> QED BY <1>1, <1>2

LEMMA StartsTransitive ==
    ASSUME NEW s \in Seq(Row), NEW t \in Seq(Row), NEW u \in Seq(Row), Starts(s, t), Starts(t, u)
    PROVE  Starts(s, u)
  <1>1. Len(s) \in Nat /\ Len(t) \in Nat /\ Len(u) \in Nat BY RowsByPlace
  <1>2. Len(s) <= Len(u) BY <1>1 DEF Starts
  <1>3. \A i \in 1..Len(s) : s[i] = u[i]
    <2> TAKE i \in 1..Len(s)
    <2>1. i \in 1..Len(t) BY <1>1 DEF Starts
    <2> QED BY <2>1 DEF Starts
  <1> QED BY <1>2, <1>3 DEF Starts

LEMMA StandsOn ==
    ASSUME NEW c \in Callers, NEW s \in Seq(Row), NEW t \in Seq(Row), Stands(s, Batches[c]), Starts(s, t)
    PROVE  Stands(t, Batches[c])
  <1> DEFINE b == Batches[c]
             n == Len(b.events)
  <1>1. Len(s) \in Nat /\ Len(t) \in Nat /\ n \in Nat /\ b.expected \in Nat BY RowsByPlace, EnvelopesOfBatch
  <1>2. b.expected + n <= Len(s) /\ Len(s) <= Len(t) BY DEF Stands, Starts
  <1>3. ASSUME NEW i \in 1..n PROVE t[b.expected + i] = Envelopes(b)[i]
    <2>1. b.expected + i \in 1..Len(s) BY <1>1, <1>2
    <2>2. s[b.expected + i] = Envelopes(b)[i] BY DEF Stands
    <2> QED BY <2>1, <2>2 DEF Starts
  <1> QED BY <1>1, <1>2, <1>3 DEF Stands

\* A log that stays within another, and is appended to there, stays within.
LEMMA AppendedWithin ==
    ASSUME NEW c \in Callers, NEW s \in Seq(Row), NEW t \in Seq(Row), Starts(s, t), Stands(t, Batches[c])
    PROVE  Starts(Stored("reference", s, Batches[c]), t)
  <1> DEFINE b == Batches[c]
             n == Len(b.events)
  <1>1. CASE ReferenceAppend(s, b) = "appended"
    <2>1. Stored("reference", s, b) = s \o Envelopes(b) BY <1>1 DEF Stored, AppendStatus
    <2>2. b.expected = Len(s) BY <1>1, ReferenceAppends
    <2>3. /\ Len(s) \in Nat /\ Len(t) \in Nat /\ n \in Nat /\ b.expected \in Nat
          /\ Len(Envelopes(b)) = n /\ Envelopes(b) \in Seq(Row)
      BY RowsByPlace, EnvelopesOfBatch
    <2>4. /\ Len(s \o Envelopes(b)) = Len(s) + n
          /\ \A i \in 1..Len(s) + n :
                (s \o Envelopes(b))[i] = IF i <= Len(s) THEN s[i] ELSE Envelopes(b)[i - Len(s)]
      <3> DEFINE e == Envelopes(b)
      <3>1. e \in Seq(Row) /\ Len(e) = n BY <2>3
      <3> HIDE DEF e, n
      <3>2. /\ Len(s \o e) = Len(s) + Len(e)
            /\ \A i \in 1..Len(s) + Len(e) : (s \o e)[i] = IF i <= Len(s) THEN s[i] ELSE e[i - Len(s)]
        BY <3>1, ConcatProperties
      <3> QED BY <3>1, <3>2 DEF e
    <2>5. Len(s) + n <= Len(t) BY <2>2 DEF Stands
    <2>6. ASSUME NEW i \in 1..Len(s) + n PROVE (s \o Envelopes(b))[i] = t[i]
      <3>1. CASE i <= Len(s) BY <2>3, <2>4, <3>1 DEF Starts
      <3>2. CASE i > Len(s)
        <4>1. i - Len(s) \in 1..n BY <2>3, <3>2
        <4>2. t[b.expected + (i - Len(s))] = Envelopes(b)[i - Len(s)] BY <4>1 DEF Stands
        <4>3. b.expected + (i - Len(s)) = i BY <2>2, <2>3
        <4> QED BY <2>3, <2>4, <3>2, <4>2, <4>3
      <3> QED BY <2>3, <3>1, <3>2
    <2> QED BY <2>1, <2>4, <2>5, <2>6 DEF Starts
  <1>2. CASE ReferenceAppend(s, b) # "appended"
    BY <1>2 DEF Stored, AppendStatus
  <1> QED BY <1>1, <1>2

------------------------------------------------
LEMMA StoresInitially ==
    ASSUME StoresInit
    PROVE  StoresIInv
  <1>1. <<>> \in Seq(Row) /\ Len(<<>>) = 0 BY EmptySeq
  <1>2. /\ kind \in {"reference", "postgres"} /\ primary = <<>> /\ shadow = <<>>
        /\ caller = [c \in Callers |-> [batch |-> Batches[c], at |-> "idle", repeats |-> 0]]
        /\ repair = [at |-> "idle", primary |-> <<>>, shadow |-> <<>>, result |-> "none"]
    BY DEF StoresInit, NoRepair
  <1>3. StoresTypeOK BY <1>1, <1>2 DEF StoresTypeOK
  <1>4. IdentitiesOnce BY <1>1, <1>2 DEF IdentitiesOnce
  <1>5. OnTheWay BY <1>2 DEF OnTheWay
  <1>6. ReadBefore BY <1>2 DEF ReadBefore
  <1>7. ShadowStarts BY <1>1, <1>2 DEF ShadowStarts, Starts
  <1> QED BY <1>3, <1>4, <1>5, <1>6, <1>7 DEF StoresIInv

\* The primary keeps every identity once, whichever semantics it has.
LEMMA PrimaryHoldsOnce ==
    ASSUME StoresIInv, NEW c \in Callers, primary' = Stored(kind, primary, Batches[c])
    PROVE  IdentitiesOnce'
  <1> DEFINE b == Batches[c]
             n == Len(b.events)
             m == Len(primary)
             e == Envelopes(b)
  <1>1. primary \in Seq(Row) /\ IdentitiesOnce BY DEF StoresIInv, StoresTypeOK
  <1>2. CASE AppendStatus(kind, primary, b) = "appended"
    <2>1. primary' = primary \o e BY <1>2 DEF Stored
    <2>2. /\ b.expected = m
          /\ \A i \in DOMAIN e : \A r \in ToSet(primary) : ~SameIdentity(r, e[i])
      BY <1>1, <1>2, ReferenceAppends, PostgresAppends DEF AppendStatus
    <2>3. /\ n \in Nat /\ e \in Seq(Row) /\ Len(e) = n /\ DOMAIN e = 1..n
          /\ \A i \in 1..n : e[i].revision = b.expected + i
          /\ \A i, j \in 1..n : SameIdentity(e[i], e[j]) => i = j
      BY EnvelopesOfBatch
    <2>4. m \in Nat /\ \A i \in 1..m : primary[i] \in ToSet(primary) BY <1>1, RowsByPlace
    <2>5. /\ \A i \in 1..m : primary[i].revision = i
          /\ \A i, j \in 1..m : SameIdentity(primary[i], primary[j]) => i = j
      BY <1>1 DEF IdentitiesOnce
    <2> HIDE DEF e, n, b
    <2>6. /\ Len(primary') = m + n
          /\ \A i \in 1..m + n : primary'[i] = IF i <= m THEN primary[i] ELSE e[i - m]
      BY <1>1, <2>1, <2>3, ConcatProperties
    <2> HIDE DEF m
    <2>7. \A i \in 1..m + n : primary'[i].revision = i
      <3> TAKE i \in 1..m + n
      <3>1. CASE i <= m BY <2>4, <2>5, <2>6, <3>1
      <3>2. CASE i > m
        <4>1. i - m \in 1..n /\ primary'[i] = e[i - m] BY <2>3, <2>4, <2>6, <3>2
        <4>2. e[i - m].revision = m + (i - m) BY <2>2, <2>3, <4>1
        <4> QED BY <2>4, <4>1, <4>2
      <3> QED BY <2>4, <3>1, <3>2
    <2>8. \A i, j \in 1..m + n : SameIdentity(primary'[i], primary'[j]) => i = j
      <3> SUFFICES ASSUME NEW i \in 1..m + n, NEW j \in 1..m + n, SameIdentity(primary'[i], primary'[j])
                   PROVE  i = j
        OBVIOUS
      <3>1. \A k \in 1..m + n : k <= m => k \in 1..m /\ primary'[k] = primary[k] BY <2>4, <2>6
      <3>2. \A k \in 1..m + n : k > m => k - m \in 1..n /\ primary'[k] = e[k - m] BY <2>3, <2>4, <2>6
      <3>3. SameIdentity(primary'[j], primary'[i]) BY DEF SameIdentity
      <3>4. CASE i <= m /\ j <= m BY <2>5, <3>1, <3>4
      <3>5. CASE i <= m /\ j > m BY <2>2, <2>3, <2>4, <3>1, <3>2, <3>5
      <3>6. CASE i > m /\ j <= m BY <2>2, <2>3, <2>4, <3>1, <3>2, <3>3, <3>6
      <3>7. CASE i > m /\ j > m
        <4>1. i - m = j - m BY <2>3, <3>2, <3>7
        <4> QED BY <2>4, <4>1
      <3> QED BY <2>4, <3>4, <3>5, <3>6, <3>7
    <2> QED BY <2>6, <2>7, <2>8 DEF IdentitiesOnce
  <1>3. CASE AppendStatus(kind, primary, b) # "appended"
    <2>1. primary' = primary BY <1>3 DEF Stored
    <2> QED BY <1>1, <2>1 DEF IdentitiesOnce
  <1> QED BY <1>2, <1>3

\* After the primary has answered, the batch stands in it.
LEMMA AnsweredStands ==
    ASSUME StoresIInv, kind = "postgres", NEW c \in Callers, primary' = Stored(kind, primary, Batches[c]),
           AppendStatus(kind, primary, Batches[c]) \in {"appended", "idempotent"}
    PROVE  Stands(primary', Batches[c])
  <1> DEFINE b == Batches[c]
             n == Len(b.events)
             m == Len(primary)
             e == Envelopes(b)
  <1>1. primary \in Seq(Row) /\ \A i \in 1..m : primary[i].revision = i
    BY DEF StoresIInv, StoresTypeOK, IdentitiesOnce
  <1>2. CASE AppendStatus(kind, primary, b) = "appended"
    <2>1. primary' = primary \o e /\ b.expected = m
      BY <1>1, <1>2, PostgresAppends DEF Stored, AppendStatus
    <2>2. n \in Nat /\ e \in Seq(Row) /\ Len(e) = n BY EnvelopesOfBatch
    <2>3. m \in Nat BY <1>1, RowsByPlace
    <2> HIDE DEF e, n, b
    <2>4. /\ Len(primary') = m + n
          /\ \A i \in 1..m + n : primary'[i] = IF i <= m THEN primary[i] ELSE e[i - m]
      BY <1>1, <2>1, <2>2, ConcatProperties
    <2> HIDE DEF m
    <2>5. ASSUME NEW i \in 1..n PROVE primary'[b.expected + i] = e[i]
      <3>1. m + i \in 1..m + n /\ ~(m + i <= m) /\ (m + i) - m = i BY <2>2, <2>3
      <3> QED BY <2>1, <2>4, <3>1
    <2> QED BY <2>1, <2>2, <2>3, <2>4, <2>5 DEF Stands, e, n, b
  <1>3. CASE AppendStatus(kind, primary, b) = "idempotent"
    <2>1. primary' = primary BY <1>3 DEF Stored
    <2> QED BY <1>1, <1>3, <2>1, PostgresRepeats DEF AppendStatus
  <1> QED BY <1>2, <1>3

------------------------------------------------
LEMMA AppendPrimaryPreserves ==
    ASSUME StoresIInv, NEW c \in Callers, AppendPrimary(c)
    PROVE  StoresIInv'
  <1> DEFINE b == Batches[c]
  <1>1. /\ StoresTypeOK /\ OnTheWay /\ ReadBefore /\ ShadowStarts /\ caller[c].batch = b
    BY DEF StoresIInv, OnTheWay
  <1>2. /\ primary' = Stored(kind, primary, b)
        /\ caller' = [caller EXCEPT ![c].repeats = @ + 1,
                        ![c].at = IF AppendStatus(kind, primary, b) \in {"appended", "idempotent"}
                                  THEN "shadow" ELSE "idle"]
        /\ UNCHANGED <<kind, shadow, repair>>
    BY <1>1 DEF AppendPrimary
  <1>3. primary \in Seq(Row) /\ shadow \in Seq(Row) /\ Envelopes(b) \in Seq(Row)
    BY <1>1, EnvelopesOfBatch DEF StoresTypeOK
  <1>4. primary' \in Seq(Row) /\ Starts(primary, primary') BY <1>2, <1>3, StoredRows
  <1>5. StoresTypeOK'
    <2>1. caller' \in [Callers -> [batch : {Batches[d] : d \in Callers}, at : {"idle", "shadow"}, repeats : Nat]]
      <3> DEFINE batches == {Batches[d] : d \in Callers}
                 at == IF AppendStatus(kind, primary, b) \in {"appended", "idempotent"} THEN "shadow" ELSE "idle"
      <3>1. caller \in [Callers -> [batch : batches, at : {"idle", "shadow"}, repeats : Nat]]
        BY <1>1 DEF StoresTypeOK
      <3>2. caller' = [caller EXCEPT ![c].repeats = @ + 1, ![c].at = at] /\ at \in {"idle", "shadow"} BY <1>2
      <3> HIDE DEF batches, at
      <3>3. caller'[c] \in [batch : batches, at : {"idle", "shadow"}, repeats : Nat]
        <4>1. caller[c] \in [batch : batches, at : {"idle", "shadow"}, repeats : Nat] BY <3>1
        <4>2. caller'[c] = [[caller[c] EXCEPT !.repeats = caller[c].repeats + 1] EXCEPT !.at = at] BY <3>1, <3>2
        <4>3. [caller[c] EXCEPT !.repeats = caller[c].repeats + 1]
                \in [batch : batches, at : {"idle", "shadow"}, repeats : Nat]
          <5>1. caller[c].repeats + 1 \in Nat BY <4>1
          <5> DEFINE more == caller[c].repeats + 1
          <5> HIDE DEF more
          <5>2. [caller[c] EXCEPT !.repeats = more] \in [batch : batches, at : {"idle", "shadow"}, repeats : Nat]
            BY <4>1, <5>1 DEF more
          <5> QED BY <5>2 DEF more
        <4> DEFINE one == [caller[c] EXCEPT !.repeats = caller[c].repeats + 1]
        <4>4. caller'[c] = [one EXCEPT !.at = at] /\ one \in [batch : batches, at : {"idle", "shadow"}, repeats : Nat]
          BY <4>2, <4>3
        <4> HIDE DEF one
        <4> QED BY <3>2, <4>4
      <3>4. caller' \in [Callers -> [batch : batches, at : {"idle", "shadow"}, repeats : Nat]] BY <3>1, <3>2, <3>3
      <3> QED BY <3>4 DEF batches
    <2> QED BY <1>1, <1>2, <1>4, <2>1 DEF StoresTypeOK
  <1>6. IdentitiesOnce' BY <1>2, PrimaryHoldsOnce
  <1>7. OnTheWay'
    <2> SUFFICES ASSUME NEW d \in Callers
                 PROVE  /\ caller'[d].batch = Batches[d]
                        /\ kind' = "postgres" /\ caller'[d].at = "shadow" => Stands(primary', Batches[d])
      BY DEF OnTheWay
    <2>1. caller'[d].batch = Batches[d]
      <3> DEFINE more == caller[c].repeats + 1
                 at == IF AppendStatus(kind, primary, b) \in {"appended", "idempotent"} THEN "shadow" ELSE "idle"
                 one == [caller[c] EXCEPT !.repeats = more]
      <3>1. /\ caller[d] \in [batch : {Batches[e] : e \in Callers}, at : {"idle", "shadow"}, repeats : Nat]
            /\ caller[c] \in [batch : {Batches[e] : e \in Callers}, at : {"idle", "shadow"}, repeats : Nat]
            /\ c \in DOMAIN caller /\ d \in DOMAIN caller
        BY <1>1 DEF StoresTypeOK
      <3>2. caller'[d] = IF d = c THEN [one EXCEPT !.at = at] ELSE caller[d] BY <1>2, <3>1
      <3> HIDE DEF more, at
      <3>3. one.batch = caller[c].batch /\ [one EXCEPT !.at = at].batch = one.batch BY <3>1
      <3> QED BY <1>1, <3>2, <3>3 DEF OnTheWay
    <2>2. CASE d = c
      <3>1. caller'[c].at = "shadow" => AppendStatus(kind, primary, b) \in {"appended", "idempotent"}
        BY <1>1, <1>2 DEF StoresTypeOK
      <3> QED BY <1>2, <2>1, <2>2, <3>1, AnsweredStands
    <2>3. CASE d # c
      <3>1. caller'[d] = caller[d] BY <1>1, <1>2, <2>3 DEF StoresTypeOK
      <3> QED BY <1>1, <1>2, <1>3, <1>4, <2>1, <3>1, StandsOn DEF OnTheWay
    <2> QED BY <2>2, <2>3
  <1>8. ReadBefore'
    <2>1. repair.primary \in Seq(Row) BY <1>1 DEF StoresTypeOK
    <2> QED BY <1>1, <1>2, <1>3, <1>4, <2>1, StartsTransitive DEF ReadBefore
  <1>9. ShadowStarts' BY <1>1, <1>2, <1>3, <1>4, StartsTransitive DEF ShadowStarts
  <1> QED BY <1>5, <1>6, <1>7, <1>8, <1>9 DEF StoresIInv

LEMMA AppendShadowPreserves ==
    ASSUME StoresIInv, NEW c \in Callers, AppendShadow(c)
    PROVE  StoresIInv'
  <1> DEFINE b == Batches[c]
  <1>1. /\ StoresTypeOK /\ IdentitiesOnce /\ OnTheWay /\ ReadBefore /\ ShadowStarts /\ caller[c].batch = b
    BY DEF StoresIInv, OnTheWay
  <1>2. /\ caller[c].at = "shadow" /\ shadow' \in {Stored("reference", shadow, b), shadow}
        /\ caller' = [caller EXCEPT ![c].at = "idle"]
        /\ UNCHANGED <<kind, primary, repair>>
    BY <1>1 DEF AppendShadow
  <1>3. primary \in Seq(Row) /\ shadow \in Seq(Row) /\ Envelopes(b) \in Seq(Row)
    BY <1>1, EnvelopesOfBatch DEF StoresTypeOK
  <1>4. shadow' \in Seq(Row) BY <1>2, <1>3, StoredRows
  <1>5. StoresTypeOK'
    <2>1. caller' \in [Callers -> [batch : {Batches[d] : d \in Callers}, at : {"idle", "shadow"}, repeats : Nat]]
      BY <1>1, <1>2 DEF StoresTypeOK
    <2> QED BY <1>1, <1>2, <1>4, <2>1 DEF StoresTypeOK
  <1>6. IdentitiesOnce' BY <1>1, <1>2 DEF IdentitiesOnce
  <1>7. OnTheWay'
    <2> SUFFICES ASSUME NEW d \in Callers
                 PROVE  /\ caller'[d].batch = Batches[d]
                        /\ kind' = "postgres" /\ caller'[d].at = "shadow" => Stands(primary', Batches[d])
      BY DEF OnTheWay
    <2>1. caller'[d].batch = caller[d].batch /\ (caller'[d].at = "shadow" => caller[d].at = "shadow")
      BY <1>1, <1>2 DEF StoresTypeOK
    <2> QED BY <1>1, <1>2, <2>1 DEF OnTheWay
  <1>8. ReadBefore' BY <1>1, <1>2 DEF ReadBefore
  <1>9. ShadowStarts'
    <2>1. CASE kind = "postgres"
      <3>1. Stands(primary, b) /\ Starts(shadow, primary) BY <1>1, <1>2, <2>1 DEF OnTheWay, ShadowStarts
      <3> QED BY <1>2, <1>3, <3>1, AppendedWithin DEF ShadowStarts
    <2> QED BY <1>2, <2>1 DEF ShadowStarts
  <1> QED BY <1>5, <1>6, <1>7, <1>8, <1>9 DEF StoresIInv

\* A step of the reconciliation leaves the primary and the callers alone.
LEMMA RepairFrame ==
    ASSUME StoresIInv, UNCHANGED <<kind, primary, caller>>, shadow' \in Seq(Row),
           repair' \in [at : {"idle", "read", "repair"}, primary : Seq(Row), shadow : Seq(Row),
                        result : {"none", "divergent", "converged", "failed"}],
           ReadBefore', ShadowStarts'
    PROVE  StoresIInv'
  <1>1. StoresTypeOK' BY DEF StoresIInv, StoresTypeOK
  <1>2. IdentitiesOnce' BY DEF StoresIInv, IdentitiesOnce
  <1>3. OnTheWay' BY DEF StoresIInv, OnTheWay
  <1> QED BY <1>1, <1>2, <1>3 DEF StoresIInv

LEMMA FinishedType ==
    ASSUME NEW result \in {"divergent", "converged", "failed"}
    PROVE  /\ Finished(result) \in [at : {"idle", "read", "repair"}, primary : Seq(Row), shadow : Seq(Row),
                                    result : {"none", "divergent", "converged", "failed"}]
           /\ Finished(result).at = "idle"
  <1>1. <<>> \in Seq(Row) BY EmptySeq
  <1> QED BY <1>1 DEF Finished, NoRepair

LEMMA ReadPrimaryPreserves ==
    ASSUME StoresIInv, ReadPrimary
    PROVE  StoresIInv'
  <1>1. StoresTypeOK /\ ShadowStarts BY DEF StoresIInv
  <1>2. primary \in Seq(Row) /\ shadow \in Seq(Row) BY <1>1 DEF StoresTypeOK
  <1>3. repair' = [at |-> "read", primary |-> primary, shadow |-> <<>>, result |-> "none"]
    BY DEF ReadPrimary, NoRepair
  <1>4. UNCHANGED <<kind, primary, shadow, caller>> BY DEF ReadPrimary
  <1>5. <<>> \in Seq(Row) BY EmptySeq
  <1>6. Starts(primary, primary) BY <1>2, RowsByPlace DEF Starts
  <1>7. ReadBefore' BY <1>3, <1>4, <1>6 DEF ReadBefore
  <1>8. ShadowStarts' BY <1>1, <1>4 DEF ShadowStarts
  <1> QED BY <1>2, <1>3, <1>4, <1>5, <1>7, <1>8, RepairFrame

LEMMA ReadShadowPreserves ==
    ASSUME StoresIInv, ReadShadow
    PROVE  StoresIInv'
  <1>1. StoresTypeOK /\ ReadBefore /\ ShadowStarts BY DEF StoresIInv
  <1>2. primary \in Seq(Row) /\ shadow \in Seq(Row) /\ repair.primary \in Seq(Row) BY <1>1 DEF StoresTypeOK
  <1>3. UNCHANGED <<kind, primary, shadow, caller>> /\ repair.at = "read" BY DEF ReadShadow
  <1>4. ShadowStarts' BY <1>1, <1>3 DEF ShadowStarts
  <1>5. CASE Shared(repair.primary, shadow) # shadow
    <2>1. repair' = Finished("divergent") BY <1>5 DEF ReadShadow
    <2>2. ReadBefore' BY <2>1, FinishedType DEF ReadBefore
    <2> QED BY <1>2, <1>3, <1>4, <2>1, <2>2, FinishedType, RepairFrame
  <1>6. CASE Shared(repair.primary, shadow) = shadow
    <2>1. repair' = [repair EXCEPT !.at = "repair", !.shadow = shadow] BY <1>6 DEF ReadShadow
    <2>2. /\ repair' \in [at : {"idle", "read", "repair"}, primary : Seq(Row), shadow : Seq(Row),
                          result : {"none", "divergent", "converged", "failed"}]
          /\ repair'.primary = repair.primary /\ repair'.shadow = shadow
      BY <1>1, <1>2, <2>1 DEF StoresTypeOK
    <2>3. Len(shadow) <= Len(repair.primary)
      <3> DEFINE p == repair.primary
                 k == IF Len(p) < Len(shadow) THEN Len(p) ELSE Len(shadow)
      <3>1. Len(p) \in Nat /\ Len(shadow) \in Nat /\ \A i \in 1..Len(p) : p[i] \in Row BY <1>2, RowsByPlace
      <3>2. k \in Nat /\ k <= Len(p) BY <3>1
      <3>3. shadow = SubSeq(p, 1, k) BY <1>6 DEF Shared
      <3> HIDE DEF k, p
      <3>4. \A i \in 1..k : p[i] \in Row BY <3>1, <3>2
      <3>5. Len(SubSeq(p, 1, k)) = k BY <3>2, <3>4, SubSeqProperties
      <3> QED BY <3>2, <3>3, <3>5 DEF p
    <2>4. ReadBefore' BY <1>1, <1>3, <2>2, <2>3 DEF ReadBefore
    <2> QED BY <1>2, <1>3, <1>4, <2>2, <2>4, RepairFrame
  <1> QED BY <1>5, <1>6

\* What a repair appends is what the primary holds there.
LEMMA MissingRows ==
    ASSUME StoresIInv, repair.at = "repair"
    PROVE  LET k == Len(repair.shadow)
               n == Len(Missing(repair)) IN
           /\ k \in Nat /\ n \in Nat /\ k + n <= Len(repair.primary)
           /\ Missing(repair) \in Seq(Row) /\ Envelopes(RepairBatch(repair)) = Missing(repair)
           /\ \A i \in 1..n : Missing(repair)[i] = primary[k + i]
  <1> DEFINE p == repair.primary
             k == Len(repair.shadow)
             hi == IF k + PageSize < Len(p) THEN k + PageSize ELSE Len(p)
             missing == Missing(repair)
             n == Len(missing)
  <1>1. p \in Seq(Row) /\ repair.shadow \in Seq(Row) /\ primary \in Seq(Row)
    BY DEF StoresIInv, StoresTypeOK
  <1>2. /\ k \in Nat /\ Len(p) \in Nat /\ \A i \in 1..Len(p) : p[i] \in Row
        /\ Len(primary) \in Nat
    BY <1>1, RowsByPlace
  <1>3. k <= Len(p) /\ Len(p) <= Len(primary) /\ \A i \in 1..Len(p) : p[i] = primary[i]
    BY DEF StoresIInv, ReadBefore, Starts
  <1>4. PageSize \in Nat BY StoresAssumption
  <1>5. hi \in Nat /\ k <= hi /\ hi <= Len(p) BY <1>2, <1>3, <1>4
  <1>6. missing = SubSeq(p, k + 1, hi) BY DEF Missing
  <1>7. \A i \in 1..Len(p) : p[i].revision = i BY <1>2, <1>3 DEF StoresIInv, IdentitiesOnce
  <1> HIDE DEF p, k, hi, missing
  <1>8. /\ missing \in Seq(Row) /\ n = hi - k
        /\ \A i \in 1..n : missing[i] = p[k + i] /\ k + i \in 1..Len(p)
    <2>1. \A i \in k + 1..hi : p[i] \in Row BY <1>2, <1>5
    <2>2. /\ SubSeq(p, k + 1, hi) \in Seq(Row)
          /\ Len(SubSeq(p, k + 1, hi)) = IF k + 1 <= hi THEN hi - (k + 1) + 1 ELSE 0
          /\ \A i \in 1..hi - (k + 1) + 1 : SubSeq(p, k + 1, hi)[i] = p[(k + 1) + i - 1]
      BY <1>2, <1>5, <2>1, SubSeqProperties
    <2>3. n = hi - k BY <1>2, <1>5, <1>6, <2>2
    <2>4. \A i \in 1..n : missing[i] = p[k + i] /\ k + i \in 1..Len(p)
      <3> TAKE i \in 1..n
      <3>1. i \in 1..hi - (k + 1) + 1 /\ (k + 1) + i - 1 = k + i BY <1>2, <1>5, <2>3
      <3>2. missing[i] = p[k + i] BY <1>6, <2>2, <3>1
      <3>3. k + i \in 1..Len(p) BY <1>2, <1>5, <2>3
      <3> QED BY <3>2, <3>3
    <2> QED BY <1>6, <2>2, <2>3, <2>4
  <1>9. n \in Nat /\ k + n <= Len(p) BY <1>2, <1>5, <1>8
  <1>10. Envelopes(RepairBatch(repair)) = missing
    <2>1. RepairBatch(repair) = [expected |-> k, events |-> missing] BY DEF RepairBatch, k, missing
    <2>2. Envelopes(RepairBatch(repair)) =
            [i \in 1..n |-> [id |-> missing[i].id, mutation |-> missing[i].mutation,
                             body |-> missing[i].body, revision |-> k + i]]
      BY <2>1 DEF Envelopes
    <2>3. \A i \in 1..n : missing[i] = [id |-> missing[i].id, mutation |-> missing[i].mutation,
                                        body |-> missing[i].body, revision |-> k + i]
      <3> TAKE i \in 1..n
      <3>1. missing[i] \in Row /\ missing[i].revision = k + i BY <1>2, <1>7, <1>8
      <3> QED BY <3>1, RowShape
    <2>4. missing = [i \in 1..n |-> missing[i]] BY <1>8, LenProperties
    <2> QED BY <2>2, <2>3, <2>4
  <1>11. \A i \in 1..n : missing[i] = primary[k + i] BY <1>3, <1>8
  <1> QED BY <1>2, <1>8, <1>9, <1>10, <1>11 DEF p, k, missing

LEMMA RepairShadowPreserves ==
    ASSUME StoresIInv, RepairShadow
    PROVE  StoresIInv'
  <1> DEFINE k == Len(repair.shadow)
             missing == Missing(repair)
             n == Len(missing)
             b == RepairBatch(repair)
             status == ReferenceAppend(shadow, b)
  <1>1. StoresTypeOK /\ ReadBefore /\ ShadowStarts BY DEF StoresIInv
  <1>2. primary \in Seq(Row) /\ shadow \in Seq(Row) /\ repair.primary \in Seq(Row) /\ repair.shadow \in Seq(Row)
    BY <1>1 DEF StoresTypeOK
  <1>3. UNCHANGED <<kind, primary, caller>> /\ repair.at = "repair" BY DEF RepairShadow
  <1>4. /\ k \in Nat /\ n \in Nat /\ k + n <= Len(repair.primary)
        /\ missing \in Seq(Row) /\ Envelopes(b) = missing
        /\ \A i \in 1..n : missing[i] = primary[k + i]
    BY <1>3, MissingRows
  <1>5. CASE missing = <<>> \/ (missing # <<>> /\ status \notin {"appended", "idempotent"})
    <2>1. /\ repair' = Finished("converged") \/ repair' = Finished("failed")
          /\ shadow' = shadow
      BY <1>5 DEF RepairShadow
    <2>2. ReadBefore' BY <2>1, FinishedType DEF ReadBefore
    <2>3. ShadowStarts' BY <1>1, <1>3, <2>1 DEF ShadowStarts
    <2> QED BY <1>2, <1>3, <2>1, <2>2, <2>3, FinishedType, RepairFrame
  <1>6. CASE missing # <<>> /\ status \in {"appended", "idempotent"}
    <2>1. /\ shadow' = Stored("reference", shadow, b)
          /\ repair' = [repair EXCEPT !.shadow = repair.shadow \o missing]
      BY <1>6 DEF RepairShadow
    <2>2. repair.shadow \o missing \in Seq(Row) /\ Len(repair.shadow \o missing) = k + n
      BY <1>2, <1>4, ConcatProperties
    <2>3. /\ repair' \in [at : {"idle", "read", "repair"}, primary : Seq(Row), shadow : Seq(Row),
                          result : {"none", "divergent", "converged", "failed"}]
          /\ repair'.primary = repair.primary /\ repair'.shadow = repair.shadow \o missing
          /\ repair'.at = "repair"
      BY <1>1, <1>3, <2>1, <2>2 DEF StoresTypeOK
    <2>4. ReadBefore' BY <1>1, <1>3, <1>4, <2>2, <2>3 DEF ReadBefore
    <2>5. shadow' \in Seq(Row) BY <1>2, <1>4, <2>1, StoredRows
    <2>6. ShadowStarts'
      <3> SUFFICES ASSUME kind = "postgres" PROVE Starts(shadow', primary) BY <1>3 DEF ShadowStarts
      <3>1. Starts(shadow, primary) BY <1>1 DEF ShadowStarts
      <3>2. CASE status # "appended" BY <2>1, <3>1, <3>2 DEF Stored, AppendStatus
      <3>3. CASE status = "appended"
        <4>1. shadow' = shadow \o missing BY <1>4, <2>1, <3>3 DEF Stored, AppendStatus
        <4>2. Len(shadow) = k BY <3>3, ReferenceAppends DEF RepairBatch
        <4>3. /\ Len(shadow \o missing) = k + n
              /\ \A i \in 1..k + n : (shadow \o missing)[i] = IF i <= k THEN shadow[i] ELSE missing[i - k]
          <5>1. missing \in Seq(Row) BY <1>4
          <5> HIDE DEF missing
          <5>2. /\ Len(shadow \o missing) = Len(shadow) + Len(missing)
                /\ \A i \in 1..Len(shadow) + Len(missing) :
                      (shadow \o missing)[i] = IF i <= Len(shadow) THEN shadow[i] ELSE missing[i - Len(shadow)]
            BY <1>2, <5>1, ConcatProperties
          <5> HIDE DEF k
          <5> QED BY <4>2, <5>2
        <4>4. Len(repair.primary) <= Len(primary) /\ Len(primary) \in Nat /\ Len(repair.primary) \in Nat
          BY <1>1, <1>2, <1>3, RowsByPlace DEF ReadBefore, Starts
        <4>5. \A i \in 1..k : shadow[i] = primary[i] BY <3>1, <4>2 DEF Starts
        <4> HIDE DEF k, missing, n
        <4>6. ASSUME NEW i \in 1..k + n PROVE (shadow \o missing)[i] = primary[i]
          <5>1. CASE i <= k BY <1>4, <4>3, <4>5, <5>1
          <5>2. CASE i > k
            <6>1. i - k \in 1..n /\ k + (i - k) = i BY <1>4, <5>2
            <6> QED BY <1>4, <4>3, <5>2, <6>1
          <5>3. i <= k \/ i > k
            <6>1. i \in Nat /\ k \in Nat BY <1>4
            <6> QED BY <6>1
          <5> QED BY <5>1, <5>2, <5>3
        <4>7. k + n <= Len(primary) BY <1>4, <4>4
        <4> QED BY <4>1, <4>3, <4>6, <4>7 DEF Starts
      <3> QED BY <3>2, <3>3
    <2> QED BY <1>3, <2>3, <2>4, <2>5, <2>6, RepairFrame
  <1> QED BY <1>5, <1>6

------------------------------------------------
LEMMA StoresStep ==
    ASSUME StoresIInv, [StoresNext]_storeVars
    PROVE  StoresIInv'
  <1>1. CASE UNCHANGED storeVars
    BY <1>1 DEF storeVars, StoresIInv, StoresTypeOK, IdentitiesOnce, OnTheWay, ReadBefore, ShadowStarts
  <1>2. ASSUME NEW c \in Callers, AppendPrimary(c) \/ AppendShadow(c) PROVE StoresIInv'
    BY <1>2, AppendPrimaryPreserves, AppendShadowPreserves
  <1>3. CASE ReadPrimary \/ ReadShadow \/ RepairShadow
    BY <1>3, ReadPrimaryPreserves, ReadShadowPreserves, RepairShadowPreserves
  <1> QED BY <1>1, <1>2, <1>3 DEF StoresNext

\* The inductive invariant of the stores: every log is made of the batches'
\* envelopes, a batch on its way to the shadow stands in a PostgreSQL
\* primary, and what a reconciliation read is a beginning of the primary
\* (append and reconcile, dual-write-event-store.ts).
THEOREM StoresInvariant == StoresSpec => []StoresIInv
  <1>1. StoresInit => StoresIInv BY StoresInitially
  <1>2. StoresIInv /\ [StoresNext]_storeVars => StoresIInv' BY StoresStep
  <1> QED BY <1>1, <1>2, PTL DEF StoresSpec

LEMMA StartsIsPrefix ==
    ASSUME NEW s \in Seq(Row), NEW t \in Seq(Row), Starts(s, t)
    PROVE  IsPrefix(s, t)
  <1> DEFINE k == Len(s)
  <1>1. k \in Nat /\ Len(t) \in Nat /\ \A i \in 1..Len(t) : t[i] \in Row BY RowsByPlace
  <1>2. k <= Len(t) /\ \A i \in 1..k : s[i] = t[i] BY DEF Starts
  <1>3. SubSeq(s, 1, k) = s BY SubSeqFull
  <1>4. SubSeq(t, 1, k) = s
    <2> DEFINE u == SubSeq(t, 1, k)
    <2>1. \A i \in 1..k : t[i] \in Row BY <1>1, <1>2
    <2>2. u \in Seq(Row) /\ Len(u) = k /\ \A i \in 1..k : u[i] = t[i]
      <3> HIDE DEF k
      <3>1. /\ u \in Seq(Row) /\ Len(u) = IF 1 <= k THEN k - 1 + 1 ELSE 0
            /\ \A i \in 1..k - 1 + 1 : u[i] = t[1 + i - 1]
        BY <1>1, <2>1, SubSeqProperties
      <3> HIDE DEF u
      <3> QED BY <1>1, <3>1
    <2> HIDE DEF u
    <2>3. \A i \in 1..Len(u) : u[i] = s[i] BY <1>2, <2>2
    <2>4. u = s BY <2>2, <2>3, SeqEqual
    <2> QED BY <2>4 DEF u
  <1> QED BY <1>2, <1>3, <1>4 DEF IsPrefix

LEMMA StoresFollow ==
    ASSUME StoresIInv
    PROVE  StoresSound
  <1>1. StoresTypeOK /\ IdentitiesOnce /\ OnTheWay /\ ShadowStarts BY DEF StoresIInv
  <1>2. PostgresNoMoreLenient
    <2> SUFFICES ASSUME NEW c \in Callers, PostgresAppend(primary, Batches[c]) \in {"appended", "idempotent"}
                 PROVE  ReferenceAppend(primary, Batches[c]) = PostgresAppend(primary, Batches[c])
      BY <1>1 DEF PostgresNoMoreLenient, OnTheWay
    <2> QED BY <1>1, NoMoreLenient
  <1>3. ShadowFollowsPostgres
    <2>1. primary \in Seq(Row) /\ shadow \in Seq(Row) BY <1>1 DEF StoresTypeOK
    <2> QED BY <1>1, <2>1, StartsIsPrefix DEF ShadowFollowsPostgres, ShadowFollows, ShadowStarts
  <1> QED BY <1>1, <1>2, <1>3 DEF StoresSound

\* For any callers and batches: the primary store keeps contiguous revisions
\* and every event and mutation identity once, PostgreSQL accepts nothing
\* that the reference refuses, and over it the shadow is always a beginning
\* of the primary, whatever fails, repeats or races (append, reconcile).
THEOREM StoresAreSound == StoresSpec => []StoresSound
  <1>1. StoresIInv => StoresSound BY StoresFollow
  <1> QED BY <1>1, StoresInvariant, PTL
================================================
