---------------- MODULE ApprovedToolsProofs ----------------
(***************************************************************************)
(* Theorems about ApprovedTools for any proposals, decisions, workloads,   *)
(* workers and faults, and for any size of the idempotency cache.          *)
(*                                                                         *)
(* A proposal's history only grows, along pending, a decision, executing   *)
(* and a verdict (Shape), so "version v had status s" is stable once true  *)
(* (Stands).  What the idempotency cache, the audit log, the deciding      *)
(* calls and the workers remember are such facts.  One key at most decides *)
(* a proposal (Decides), although its record may be evicted; the log holds *)
(* a version only after the ones before it (LogClosed); and between the    *)
(* ledger's claim and its result one worker at most owns the call, which   *)
(* alone may take the history to its fourth version (Owners).              *)
(***************************************************************************)
EXTENDS ApprovedTools, SequenceTheorems, TLAPS

\* The version a proposal has when it takes a status.
VersionOf(s) == IF s = "pending" THEN 1 ELSE IF s \in DecisionStatus THEN 2
                ELSE IF s = "executing" THEN 3 ELSE 4
Told(p, s)   == [proposal |-> p, version |-> VersionOf(s), status |-> s]
Stands(p, s) == VersionOf(s) <= Len(history[p]) /\ history[p][VersionOf(s)] = s

CreateRecord(p, w)    == [key |-> CreateKey(p), request |-> w, result |-> Told(p, "pending")]
DecisionRecord(k)     ==
    [key |-> DecisionKey(k),
     request |-> TransitionRequest(Decision[k].proposal, 1, Decision[k].status),
     result |-> Told(Decision[k].proposal, Decision[k].status)]
ExecutionRecord(p, s) ==
    [key |-> TransitionKey(p, s), request |-> TransitionRequest(p, VersionOf(s) - 1, s),
     result |-> Told(p, s)]

KeptRecords == {CreateRecord(p, w) : p \in Proposals, w \in ToolWorkers}
                 \cup {DecisionRecord(k) : k \in DecisionKeys}
                 \cup {ExecutionRecord(p, s) : p \in Proposals, s \in ExecutionStatus}
LogEvents   == {EventOf(CreatedEventId(p), Told(p, "pending")) : p \in Proposals}
                 \cup {EventOf(DecisionEventId(k), Told(Decision[k].proposal, Decision[k].status)) :
                          k \in DecisionKeys}
                 \cup {EventOf(LifecycleEventId(p, s), Told(p, s)) : p \in Proposals, s \in ExecutionStatus}

CallsOK ==
    /\ plan \in Plans /\ due \subseteq Proposals
    /\ dec \in [DecisionKeys -> DecisionCall] /\ grp \in GroupCall
    /\ wrk \in [ToolWorkers -> Worker]
    /\ ledger \in [Proposals -> {"absent", "claimed", "success", "error"}]
    /\ invoked \in [Proposals -> {0, 1}] /\ returned \in [Proposals -> SUBSET {"executed", "failed"}]

Shape ==
    \A p \in Proposals :
        /\ Len(history[p]) <= 4
        /\ Len(history[p]) >= 1 => history[p][1] = "pending"
        /\ Len(history[p]) >= 2 => history[p][2] \in DecisionStatus
        /\ Len(history[p]) >= 3 => history[p][2] = "confirmed" /\ history[p][3] = "executing"
        /\ Len(history[p]) >= 4 => history[p][4] \in {"executed", "failed"}

KeptStands == \A i \in DOMAIN idem : Stands(idem[i].result.proposal, idem[i].result.status)
LogStands  == \A i \in DOMAIN log : Stands(log[i].proposal, log[i].status)

\* Key k has decided its proposal.
Decides(k)  == \/ Retained(DecisionKey(k)) # {} \/ HasEvent(DecisionEventId(k))
               \/ dec[k].pc = "append"
DecidedOnce == \A k, l \in DecisionKeys :
                  Decides(k) /\ Decides(l) /\ Decision[k].proposal = Decision[l].proposal => k = l
Deciding    ==
    \A k \in DecisionKeys :
        /\ dec[k].pc \in {"transition", "classify", "append"} => HasEvent(CreatedEventId(Decision[k].proposal))
        /\ dec[k].pc = "append" => /\ dec[k].stored = Told(Decision[k].proposal, Decision[k].status)
                                   /\ Stands(Decision[k].proposal, Decision[k].status)
        /\ dec[k].outcome = "accepted" => HasEvent(DecisionEventId(k))
GroupKnown  == grp.pc = "run" => \A i \in DOMAIN plan.group :
                                    HasEvent(CreatedEventId(Decision[plan.group[i]].proposal))

LogOrdered == \A i, j \in DOMAIN log :
                 i < j /\ log[i].proposal = log[j].proposal => log[i].version < log[j].version
LogClosed  ==
    \A i \in DOMAIN log :
        /\ log[i].version >= 2 => HasEvent(CreatedEventId(log[i].proposal))
        /\ log[i].version >= 3 => Confirmed(log[i].proposal, 2)
        /\ log[i].version >= 4 => HasEvent(LifecycleEventId(log[i].proposal, "executing"))
SettledLogged == \A p \in Proposals :
                    Version(p) >= 4 => HasEvent(LifecycleEventId(p, "executing"))

Claiming == {"get", "audit", "transition", "append"}
Owning   == {"start", "acquire", "invoke", "settle", "settleAppend", "save"}

ClaimOf(me) == IF me.repair THEN me.seen.status ELSE "executing"
WorkerSound(w) ==
    LET p == CallOf(w)  me == wrk[w] IN
    /\ me.pc # "idle" \/ me.result = "success" => w \in DOMAIN plan.call
    /\ me.pc \in {"record", "poll"} \cup Claiming => Stands(p, "pending")
    /\ me.pc \in Claiming => me.expected = 2
    /\ me.pc \in {"audit", "transition", "append"} =>
         me.seen.status \in ProposalStatus /\ Stands(p, me.seen.status)
    /\ me.pc \in {"transition", "append"} =>
         /\ Confirmed(p, 2)
         /\ IF me.repair THEN me.seen.status \in ExecutionStatus ELSE me.seen.status = "confirmed"
    /\ me.pc = "append" => me.claimed = VersionOf(ClaimOf(me)) /\ Stands(p, ClaimOf(me))
    /\ me.pc \in {"admit"} \cup Owning =>
         /\ me.claimed = 3 /\ Stands(p, "executing")
         /\ Confirmed(p, 2) /\ HasEvent(LifecycleEventId(p, "executing"))
    /\ me.pc \in Owning => ledger[p] = "claimed"
    /\ me.pc \in {"start", "acquire"} => invoked[p] = 0
    /\ me.pc \in {"start", "acquire", "invoke"} => returned[p] = {} /\ Version(p) = 3
    /\ me.pc = "settle" => /\ me.verdict \in {"executed", "failed"} /\ Version(p) = 3
                           /\ me.verdict = "executed" => returned[p] = {"executed"}
    /\ me.pc = "settleAppend" => me.verdict \in {"executed", "failed"} /\ Stands(p, me.verdict)
    /\ me.pc = "save" /\ me.verdict = "executed" =>
         Stands(p, "executed") /\ HasEvent(LifecycleEventId(p, "executed"))
    /\ me.result = "success" => ledger[p] = "success"
Workers == \A w \in ToolWorkers : WorkerSound(w)
Owners  == \A v, w \in ToolWorkers : wrk[v].pc \in Owning /\ wrk[w].pc \in Owning /\ CallOf(v) = CallOf(w)
                                        => v = w
Ledger  ==
    \A p \in Proposals :
        /\ ledger[p] = "absent" => invoked[p] = 0 /\ returned[p] = {} /\ Version(p) <= 3
        /\ ledger[p] = "success" => Stands(p, "executed") /\ HasEvent(LifecycleEventId(p, "executed"))
        /\ Stands(p, "executed") => returned[p] = {"executed"}

HistoryOK   == history \in [Proposals -> Seq(ProposalStatus)] /\ Shape
StoreOK     == HistoryOK /\ idem \in Seq(KeptRecords) /\ KeptStands
LogOK       == log \in Seq(LogEvents) /\ LogStands /\ LogOrdered /\ LogClosed
DecisionsOK == DecidedOnce /\ Deciding
IInv ==
    /\ StoreOK /\ LogOK /\ CallsOK /\ DecisionsOK /\ GroupKnown /\ SettledLogged
    /\ Workers /\ Owners /\ Ledger
------------------------------------------------
\* Versions, keys and identities.

LEMMA Versions ==
    /\ VersionOf("pending") = 1 /\ \A s \in DecisionStatus : VersionOf(s) = 2
    /\ VersionOf("executing") = 3 /\ \A s \in {"executed", "failed"} : VersionOf(s) = 4
    /\ \A s \in ProposalStatus : VersionOf(s) \in 1..4
    /\ \A s \in ProposalStatus : VersionOf(s) = 1 => s = "pending"
    /\ \A s \in ProposalStatus : VersionOf(s) = 2 => s \in DecisionStatus
    /\ \A s \in ProposalStatus : VersionOf(s) = 3 => s = "executing"
    /\ \A s \in ProposalStatus : VersionOf(s) = 4 => s \in {"executed", "failed"}
  <1>1. \A s \in ProposalStatus :
           s = "pending" \/ s \in DecisionStatus \/ s = "executing" \/ s \in {"executed", "failed"}
    BY DEF ProposalStatus, ExecutionStatus
  <1>2. VersionOf("pending") = 1 /\ \A s \in DecisionStatus : VersionOf(s) = 2
    BY DEF VersionOf, DecisionStatus
  <1>3. VersionOf("executing") = 3 /\ \A s \in {"executed", "failed"} : VersionOf(s) = 4
    BY DEF VersionOf, DecisionStatus
  <1> QED BY <1>1, <1>2, <1>3

LEMMA Statuses ==
    /\ "pending" \in ProposalStatus /\ DecisionStatus \subseteq ProposalStatus
    /\ ExecutionStatus \subseteq ProposalStatus /\ "confirmed" \in DecisionStatus
    /\ "expired" \in DecisionStatus /\ "executing" \in ExecutionStatus
    /\ {"executed", "failed"} \subseteq ExecutionStatus /\ "absent" \notin ProposalStatus
    /\ "pending" \notin DecisionStatus /\ "executing" \notin DecisionStatus
    /\ "executed" \notin DecisionStatus /\ "failed" \notin DecisionStatus
    /\ "pending" \notin ExecutionStatus
  BY DEF ProposalStatus, DecisionStatus, ExecutionStatus

LEMMA Keys ==
    /\ \A p, q : CreateKey(p) = CreateKey(q) => p = q
    /\ \A k, l : DecisionKey(k) = DecisionKey(l) => k = l
    /\ \A p, s, q, t : TransitionKey(p, s) = TransitionKey(q, t) => p = q /\ s = t
    /\ \A p, k : CreateKey(p) # DecisionKey(k)
    /\ \A p, q, s : CreateKey(p) # TransitionKey(q, s)
    /\ \A k, q, s : DecisionKey(k) # TransitionKey(q, s)
  <1>1. \A p, q, s : CreateKey(p) # TransitionKey(q, s) /\ DecisionKey(p) # TransitionKey(q, s)
    <2> TAKE p, q, s
    <2>1. Len(TransitionKey(q, s)) = 3 /\ Len(CreateKey(p)) = 2 /\ Len(DecisionKey(p)) = 2
      BY DEF TransitionKey, CreateKey, DecisionKey
    <2> QED BY <2>1
  <1>2. \A p, k : CreateKey(p) # DecisionKey(k)
    BY DEF CreateKey, DecisionKey
  <1>3. \A p, s, q, t : TransitionKey(p, s) = TransitionKey(q, t) => p = q /\ s = t
    BY DEF TransitionKey
  <1> QED BY <1>1, <1>2, <1>3 DEF CreateKey, DecisionKey

LEMMA EventIds ==
    /\ \A p, q : CreatedEventId(p) = CreatedEventId(q) => p = q
    /\ \A k, l : DecisionEventId(k) = DecisionEventId(l) => k = l
    /\ \A p, s, q, t : LifecycleEventId(p, s) = LifecycleEventId(q, t) => p = q /\ s = t
    /\ \A p, k : CreatedEventId(p) # DecisionEventId(k)
    /\ \A p, q, s : CreatedEventId(p) # LifecycleEventId(q, s)
    /\ \A k, q, s : DecisionEventId(k) # LifecycleEventId(q, s)
  <1>1. \A p, q, s : CreatedEventId(p) # LifecycleEventId(q, s) /\ DecisionEventId(p) # LifecycleEventId(q, s)
    <2> TAKE p, q, s
    <2>1. Len(LifecycleEventId(q, s)) = 3 /\ Len(CreatedEventId(p)) = 2 /\ Len(DecisionEventId(p)) = 2
      BY DEF LifecycleEventId, CreatedEventId, DecisionEventId
    <2> QED BY <2>1
  <1>2. \A p, k : CreatedEventId(p) # DecisionEventId(k)
    BY DEF CreatedEventId, DecisionEventId
  <1>3. \A p, s, q, t : LifecycleEventId(p, s) = LifecycleEventId(q, t) => p = q /\ s = t
    BY DEF LifecycleEventId
  <1> QED BY <1>1, <1>2, <1>3 DEF CreatedEventId, DecisionEventId

LEMMA DecisionType ==
    ASSUME NEW k \in DecisionKeys
    PROVE  Decision[k].proposal \in Proposals /\ Decision[k].status \in DecisionStatus
  BY ApprovalsAssumption DEF DecisionStatus

------------------------------------------------
\* A proposal's history.

Extends(p)   == \E s \in ProposalStatus :
                   /\ history'[p] = Append(history[p], s) /\ VersionOf(s) = Len(history[p]) + 1
                   /\ s = "executing" => history[p][2] = "confirmed"
HistoryGrows == /\ history' \in [Proposals -> Seq(ProposalStatus)]
                /\ \A p \in Proposals : history'[p] = history[p] \/ Extends(p)
\* The history of p does not reach its verdict in this step.
Calm(p)      == Version(p) >= 3 => history'[p] = history[p]

LEMMA HistoryLength ==
    ASSUME HistoryOK, NEW p \in Proposals
    PROVE  /\ history[p] \in Seq(ProposalStatus)
           /\ Version(p) \in Nat /\ Version(p) <= 4
           /\ history[p] = <<>> <=> Version(p) = 0
           /\ \A i \in 1..Len(history[p]) : history[p][i] \in ProposalStatus
  <1>1. history[p] \in Seq(ProposalStatus) BY DEF HistoryOK
  <1>2. Len(history[p]) \in Nat /\ Len(history[p]) <= 4 BY <1>1 DEF HistoryOK, Shape
  <1>3. history[p] = <<>> <=> Len(history[p]) = 0
    <2>1. history[p] = <<>> => Len(history[p]) = 0 OBVIOUS
    <2>2. history[p] # <<>> => Len(history[p]) # 0 BY <1>1
    <2> QED BY <2>1, <2>2
  <1>4. \A i \in 1..Len(history[p]) : history[p][i] \in ProposalStatus BY <1>1
  <1> QED BY <1>1, <1>2, <1>3, <1>4 DEF Version

LEMMA StatusStands ==
    ASSUME HistoryOK, NEW p \in Proposals
    PROVE  /\ history[p] = <<>> => Status(p) = "absent"
           /\ history[p] # <<>> => /\ Status(p) \in ProposalStatus
                                   /\ Version(p) = VersionOf(Status(p)) /\ Stands(p, Status(p))
  <1> DEFINE n == Version(p)
  <1>0. n \in Nat /\ n <= 4 /\ (history[p] = <<>> <=> n = 0) BY HistoryLength
  <1>1. /\ n = Len(history[p])
        /\ \A i \in 1..Len(history[p]) : history[p][i] \in ProposalStatus
    BY HistoryLength DEF Version
  <1>2. SUFFICES ASSUME history[p] # <<>>
                 PROVE  /\ Status(p) \in ProposalStatus
                        /\ n = VersionOf(Status(p)) /\ Stands(p, Status(p))
    BY DEF Status
  <1>3. Status(p) = history[p][n] BY <1>0, <1>1, <1>2 DEF Status, Last
  <1>4. /\ n >= 1 => history[p][1] = "pending"
        /\ n >= 2 => history[p][2] \in DecisionStatus
        /\ n >= 3 => history[p][3] = "executing"
        /\ n >= 4 => history[p][4] \in {"executed", "failed"}
    BY DEF HistoryOK, Shape, Version
  <1> HIDE DEF n
  <1>5. n = 1 \/ n = 2 \/ n = 3 \/ n = 4 BY <1>0, <1>2
  <1>6. VersionOf(history[p][n]) = n BY <1>4, <1>5, Versions
  <1>7. history[p][n] \in ProposalStatus BY <1>4, <1>5, Statuses
  <1> QED BY <1>1, <1>3, <1>5, <1>6, <1>7 DEF Stands

StandsNext(p, s) == VersionOf(s) <= Len(history'[p]) /\ history'[p][VersionOf(s)] = s
Lasting(p) == \A s \in ProposalStatus : Stands(p, s) => StandsNext(p, s)

LEMMA Growth ==
    ASSUME HistoryOK, HistoryGrows
    PROVE  /\ HistoryOK'
           /\ \A p \in Proposals : /\ Lasting(p) /\ Version(p) <= Version(p)'
                                   /\ history'[p] # history[p] => Version(p)' = Version(p) + 1
  <1>1. SUFFICES ASSUME NEW p \in Proposals
                 PROVE  /\ Len(history'[p]) <= 4
                        /\ Len(history'[p]) >= 1 => history'[p][1] = "pending"
                        /\ Len(history'[p]) >= 2 => history'[p][2] \in DecisionStatus
                        /\ Len(history'[p]) >= 3 => history'[p][2] = "confirmed" /\ history'[p][3] = "executing"
                        /\ Len(history'[p]) >= 4 => history'[p][4] \in {"executed", "failed"}
                        /\ Lasting(p)
                        /\ Version(p) <= Version(p)'
                        /\ history'[p] # history[p] => Version(p)' = Version(p) + 1
    BY DEF HistoryOK, HistoryGrows, Shape
  <1> DEFINE n == Version(p)
             h == history[p]
             g == history'[p]
             m == Version(p)'
  <1>0. n \in Nat /\ n <= 4 BY HistoryLength
  <1>2. h \in Seq(ProposalStatus) /\ n = Len(h)
    BY HistoryLength DEF Version
  <1>3. /\ n >= 1 => h[1] = "pending"
        /\ n >= 2 => h[2] \in DecisionStatus
        /\ n >= 3 => h[2] = "confirmed" /\ h[3] = "executing"
        /\ n >= 4 => h[4] \in {"executed", "failed"}
    BY DEF HistoryOK, Shape, Version
  <1>4. m = Len(g) BY DEF Version
  <1>5. CASE g = h
    <2>1. Lasting(p) BY <1>5 DEF Lasting, Stands, StandsNext
    <2>2. m = n BY <1>2, <1>4, <1>5
    <2> HIDE DEF n, m
    <2>3. m <= 4 /\ n <= m BY <1>0, <2>2
    <2> QED BY <1>3, <1>4, <1>5, <2>1, <2>2, <2>3 DEF n, m
  <1>6. CASE Extends(p)
    <2>1. PICK s \in ProposalStatus :
             /\ g = Append(h, s) /\ VersionOf(s) = Len(h) + 1
             /\ s = "executing" => h[2] = "confirmed"
      BY <1>6 DEF Extends
    <2>2. m = n + 1 /\ g[n + 1] = s /\ \A i \in 1..n : g[i] = h[i]
      BY <1>2, <1>4, <2>1
    <2>3. VersionOf(s) = n + 1 BY <1>2, <2>1
    <2>4. Lasting(p) BY <1>2, <1>4, <2>2, Versions DEF Lasting, Stands, StandsNext
    <2> HIDE DEF n, m
    <2>5. n = 0 \/ n = 1 \/ n = 2 \/ n = 3 BY <1>0, <2>3, Versions
    <2>6. /\ m >= 1 => g[1] = "pending"
          /\ m >= 2 => g[2] \in DecisionStatus
          /\ m >= 3 => g[2] = "confirmed" /\ g[3] = "executing"
          /\ m >= 4 => g[4] \in {"executed", "failed"}
      <3>1. CASE n = 0 BY <2>1, <2>2, <2>3, <3>1, Versions
      <3>2. CASE n = 1 BY <2>1, <2>2, <2>3, <3>2, <1>3, Versions
      <3>3. CASE n = 2 BY <2>1, <2>2, <2>3, <3>3, <1>3, Versions
      <3>4. CASE n = 3 BY <2>1, <2>2, <2>3, <3>4, <1>3, Versions
      <3> QED BY <2>5, <3>1, <3>2, <3>3, <3>4
    <2>7. m <= 4 /\ n <= m BY <2>2, <2>5
    <2> QED BY <1>4, <2>2, <2>4, <2>6, <2>7 DEF n, m
  <1> QED BY <1>5, <1>6 DEF HistoryGrows

LEMMA Expiry ==
    ASSUME HistoryOK, NEW ps \in SUBSET Proposals, ExpireIfDue(ps)
    PROVE  HistoryGrows /\ \A p \in Proposals : Calm(p)
  <1>1. SUFFICES ASSUME NEW p \in Proposals
                 PROVE  /\ history'[p] \in Seq(ProposalStatus)
                        /\ history'[p] = history[p] \/ Extends(p)
                        /\ Calm(p)
    BY DEF HistoryGrows, ExpireIfDue
  <1>2. history[p] \in Seq(ProposalStatus) BY HistoryLength
  <1>3. CASE history'[p] = history[p] BY <1>2, <1>3 DEF Calm
  <1>4. CASE history'[p] = Append(history[p], "expired") /\ IsLapsed(p)
    <2>1. history[p] # <<>> /\ Status(p) = "pending" BY <1>4 DEF IsLapsed, Status
    <2>2. Len(history[p]) = 1 BY <2>1, StatusStands, Versions, Statuses DEF Version
    <2>3. VersionOf("expired") = 2 /\ "expired" \in ProposalStatus BY Versions, Statuses
    <2> QED BY <1>2, <1>4, <2>2, <2>3 DEF Extends, Calm, Version
  <1> QED BY <1>3, <1>4 DEF ExpireIfDue

------------------------------------------------
\* The proposal store: the idempotency cache and the transition.

LEMMA KeptByKey ==
    ASSUME NEW r \in KeptRecords
    PROVE  /\ r.result.proposal \in Proposals /\ r.result.status \in ProposalStatus
           /\ \A p \in Proposals : r.key = CreateKey(p) => r.result = Told(p, "pending")
           /\ \A k \in DecisionKeys : r.key = DecisionKey(k) => r = DecisionRecord(k)
           /\ \A p \in Proposals, s \in ExecutionStatus :
                 r.key = TransitionKey(p, s) => r = ExecutionRecord(p, s)
  <1>1. CASE \E p \in Proposals, w \in ToolWorkers : r = CreateRecord(p, w)
    <2>1. PICK p \in Proposals, w \in ToolWorkers : r = CreateRecord(p, w) BY <1>1
    <2>2. r.key = CreateKey(p) /\ r.result = Told(p, "pending") BY <2>1 DEF CreateRecord
    <2> QED BY <2>2, Keys, Statuses DEF Told
  <1>2. CASE \E k \in DecisionKeys : r = DecisionRecord(k)
    <2>1. PICK k \in DecisionKeys : r = DecisionRecord(k) BY <1>2
    <2>2. r.key = DecisionKey(k) /\ r.result = Told(Decision[k].proposal, Decision[k].status)
      BY <2>1 DEF DecisionRecord
    <2> QED BY <2>1, <2>2, Keys, Statuses, DecisionType DEF Told
  <1>3. CASE \E p \in Proposals, s \in ExecutionStatus : r = ExecutionRecord(p, s)
    <2>1. PICK p \in Proposals, s \in ExecutionStatus : r = ExecutionRecord(p, s) BY <1>3
    <2>2. r.key = TransitionKey(p, s) /\ r.result = Told(p, s) BY <2>1 DEF ExecutionRecord
    <2> QED BY <2>1, <2>2, Keys, Statuses DEF Told
  <1> QED BY <1>1, <1>2, <1>3 DEF KeptRecords

LEMMA RetainedIs ==
    ASSUME NEW key
    PROVE  /\ Retained(key) # {} <=> \E i \in DOMAIN idem : idem[i].key = key
           /\ \A r \in Retained(key) : \E i \in DOMAIN idem : r = idem[i] /\ idem[i].key = key
  BY DEF Retained

\* The cache holds r besides some of what it held.
IdemGrows(r) ==
    /\ idem' \in Seq(KeptRecords)
    /\ \A i \in DOMAIN idem' : idem'[i] = r \/ \E j \in DOMAIN idem : idem'[i] = idem[j]
    /\ \E i \in DOMAIN idem' : idem'[i] = r

LEMMA AppendTo ==
    ASSUME NEW S, NEW s \in Seq(S), NEW e \in S
    PROVE  /\ Append(s, e) \in Seq(S) /\ Len(s) \in Nat /\ DOMAIN s = 1..Len(s)
           /\ DOMAIN Append(s, e) = 1..(Len(s) + 1) /\ Len(Append(s, e)) = Len(s) + 1
           /\ Append(s, e)[Len(s) + 1] = e
           /\ \A i \in 1..Len(s) : Append(s, e)[i] = s[i]
           /\ \A i \in DOMAIN Append(s, e) : i \in DOMAIN s \/ i = Len(s) + 1
  OBVIOUS

LEMMA TailOf ==
    ASSUME NEW S, NEW s \in Seq(S), Len(s) > 0
    PROVE  /\ Tail(s) \in Seq(S)
           /\ \A i \in DOMAIN Tail(s) : \E j \in DOMAIN s : Tail(s)[i] = s[j]
  <1>1. Tail(s) \in Seq(S) OBVIOUS
  <1>2. \A i \in DOMAIN Tail(s) : i + 1 \in DOMAIN s /\ Tail(s)[i] = s[i + 1] OBVIOUS
  <1> QED BY <1>1, <1>2

LEMMA Retention ==
    ASSUME idem \in Seq(KeptRecords), NEW key, NEW request, NEW result,
           [key |-> key, request |-> request, result |-> result] \in KeptRecords,
           idem' = RetainIdempotency(key, request, result)
    PROVE  IdemGrows([key |-> key, request |-> request, result |-> result])
  <1> DEFINE r == [key |-> key, request |-> request, result |-> result]
             room == IF plan.store = "memory" /\ Len(idem) >= MaxIdempotency THEN Tail(idem) ELSE idem
  <1>1. idem' = Append(room, r) BY DEF RetainIdempotency
  <1>2. room \in Seq(KeptRecords) /\ \A i \in DOMAIN room : \E j \in DOMAIN idem : room[i] = idem[j]
    <2>1. CASE room = idem BY <2>1
    <2>2. CASE room # idem
      <3>1. room = Tail(idem) /\ Len(idem) > 0
        BY <2>2, ApprovalsAssumption
      <3> QED BY <3>1, TailOf
    <2> QED BY <2>1, <2>2
  <1>3. r \in KeptRecords OBVIOUS
  <1> HIDE DEF room, r
  <1>4. /\ idem' \in Seq(KeptRecords) /\ Len(room) + 1 \in DOMAIN idem' /\ idem'[Len(room) + 1] = r
        /\ \A i \in DOMAIN idem' : i = Len(room) + 1 \/ (i \in DOMAIN room /\ idem'[i] = room[i])
    BY <1>1, <1>2, <1>3, AppendTo
  <1> QED BY <1>2, <1>4 DEF IdemGrows, r

NewRecord == \E r \in KeptRecords :
                /\ IdemGrows(r) /\ StandsNext(r.result.proposal, r.result.status)
                /\ \A k \in DecisionKeys : r = DecisionRecord(k) => Version(Decision[k].proposal) = 1
StoreStep == HistoryGrows /\ (idem' = idem \/ NewRecord)

LEMMA StoreKept ==
    ASSUME StoreOK, StoreStep
    PROVE  StoreOK' /\ \A p \in Proposals : Lasting(p)
  <1>1. HistoryOK' /\ \A p \in Proposals : Lasting(p) BY Growth DEF StoreOK, StoreStep
  <1>2. \A i \in DOMAIN idem : StandsNext(idem[i].result.proposal, idem[i].result.status)
    <2> TAKE i \in DOMAIN idem
    <2>1. idem[i] \in KeptRecords BY DEF StoreOK
    <2> QED BY <1>1, <2>1, KeptByKey DEF StoreOK, KeptStands, Lasting
  <1>3. CASE idem' = idem BY <1>1, <1>2, <1>3 DEF StoreOK, KeptStands, Stands, StandsNext
  <1>4. CASE NewRecord
    <2>1. PICK r \in KeptRecords : IdemGrows(r) /\ StandsNext(r.result.proposal, r.result.status)
      BY <1>4 DEF NewRecord
    <2>2. KeptStands'
      <3> SUFFICES ASSUME NEW i \in DOMAIN idem'
                   PROVE  StandsNext(idem'[i].result.proposal, idem'[i].result.status)
        BY DEF KeptStands, Stands, StandsNext
      <3>1. CASE idem'[i] = r BY <2>1, <3>1
      <3>2. CASE \E j \in DOMAIN idem : idem'[i] = idem[j]
        <4>1. PICK j \in DOMAIN idem : idem'[i] = idem[j] BY <3>2
        <4>2. StandsNext(idem[j].result.proposal, idem[j].result.status) BY <1>2
        <4> QED BY <4>1, <4>2
      <3> QED BY <2>1, <3>1, <3>2 DEF IdemGrows
    <2> QED BY <1>1, <2>1, <2>2 DEF StoreOK, IdemGrows
  <1> QED BY <1>1, <1>3, <1>4 DEF StoreStep

Moves(p, to) == Version(p) = VersionOf(to) - 1
LEMMA TransitionStep ==
    ASSUME StoreOK, NEW p \in Proposals, NEW to \in ProposalStatus, to # "pending", NEW key, NEW e,
           e = VersionOf(to) - 1, NEW R \in KeptRecords,
           R = [key |-> key, request |-> TransitionRequest(p, e, to), result |-> Told(p, to)],
           \A r \in KeptRecords : r.key = key => r = R,
           \A k \in DecisionKeys : R = DecisionRecord(k) => Decision[k].proposal = p /\ e = 1,
           Transition(key, p, e, to)
    PROVE  LET code == TransitionCode(key, p, e, to) IN
           /\ StoreStep /\ \A q \in Proposals \ {p} : history'[q] = history[q]
           /\ (Moves(p, to) /\ VersionOf(to) = 4) \/ Calm(p)
           /\ code # "moved" => Calm(p)
           /\ code = "replayed" => Stands(p, to) /\ history' = history /\ idem' = idem
           /\ code = "moved" => Moves(p, to)
           /\ code \in {"moved", "replayed"} => StandsNext(p, to) /\ Retained(key)' # {}
  <1> DEFINE code == TransitionCode(key, p, e, to)
  <1>1. HistoryOK /\ idem \in Seq(KeptRecords) BY DEF StoreOK
  <1>2. history[p] \in Seq(ProposalStatus) /\ history \in [Proposals -> Seq(ProposalStatus)]
    BY <1>1, HistoryLength DEF HistoryOK
  <1>3. CASE code = "moved"
    <2>1. /\ Version(p) = e /\ IsLegalTransition(Status(p), to) /\ Status(p) # "absent"
      BY <1>3 DEF TransitionCode
    <2>2. /\ history' = [history EXCEPT ![p] = Append(@, to)]
          /\ idem' = RetainIdempotency(key, TransitionRequest(p, e, to),
                        [proposal |-> p, version |-> e + 1, status |-> to])
      BY <1>3 DEF Transition
    <2>3. VersionOf(to) \in Nat /\ e + 1 = VersionOf(to) BY Versions
    <2>4. idem' = RetainIdempotency(key, TransitionRequest(p, e, to), Told(p, to))
      BY <2>2, <2>3 DEF Told
    <2>5. IdemGrows(R) BY <1>1, <2>4, Retention
    <2>6. /\ history'[p] = Append(history[p], to) /\ \A q \in Proposals \ {p} : history'[q] = history[q]
          /\ history' \in [Proposals -> Seq(ProposalStatus)]
      BY <1>2, <2>2
    <2>7. Status(p) \in ProposalStatus /\ Version(p) = VersionOf(Status(p)) /\ Stands(p, Status(p))
      BY <1>1, <2>1, StatusStands
    <2>8. to = "executing" => history[p][2] = "confirmed"
      <3> SUFFICES ASSUME to = "executing" PROVE history[p][2] = "confirmed" OBVIOUS
      <3>1. e = 2 BY Versions
      <3>2. Status(p) = "confirmed" BY <2>1, <2>7, <3>1, Versions DEF IsLegalTransition, DecisionStatus
      <3> QED BY <2>7, <3>2, Versions, Statuses DEF Stands
    <2>9. Extends(p) BY <2>1, <2>3, <2>6, <2>8 DEF Extends, Version
    <2>10. HistoryGrows BY <2>6, <2>9 DEF HistoryGrows
    <2>11. StandsNext(p, to)
      <3>1. Len(history[p]) = e /\ Len(history[p]) \in Nat BY <1>2, <2>1 DEF Version
      <3>2. Len(history'[p]) = e + 1 /\ history'[p][e + 1] = to BY <1>2, <2>6, <3>1
      <3> QED BY <2>3, <3>2, Versions DEF StandsNext
    <2>12. NewRecord
      <3>1. R.result.proposal = p /\ R.result.status = to BY DEF Told
      <3>2. StandsNext(R.result.proposal, R.result.status) BY <2>11, <3>1
      <3> QED BY <2>1, <2>5, <3>2 DEF NewRecord
    <2>13. Retained(key)' # {}
      <3>1. PICK i \in DOMAIN idem' : idem'[i] = R BY <2>5 DEF IdemGrows
      <3>2. idem'[i].key = key BY <3>1
      <3> QED BY <3>2 DEF Retained
    <2>14. Moves(p, to) BY <2>1 DEF Moves
    <2>15. VersionOf(to) = 4 \/ Calm(p)
      <3> SUFFICES ASSUME VersionOf(to) # 4 PROVE Calm(p) OBVIOUS
      <3>1. Version(p) < 3 BY <2>1, Versions
      <3> QED BY <3>1, <2>1, Versions DEF Calm
    <2> QED BY <1>3, <2>6, <2>10, <2>11, <2>12, <2>13, <2>14, <2>15 DEF StoreStep
  <1>4. CASE code # "moved"
    <2>1. idem' = idem BY <1>4 DEF Transition
    <2>2. HistoryGrows /\ Calm(p) /\ \A q \in Proposals \ {p} : history'[q] = history[q]
      <3>1. CASE history' = history BY <1>2, <3>1 DEF HistoryGrows, Calm
      <3>2. CASE ExpireIfDue({p}) BY <1>1, <3>2, Expiry DEF ExpireIfDue
      <3> QED BY <1>4, <3>1, <3>2 DEF Transition
    <2>3. ASSUME code = "replayed" PROVE Stands(p, to) /\ history' = history /\ Retained(key)' # {}
      <3>1. Retained(key) # {} BY <2>3 DEF TransitionCode
      <3>2. history' = history BY <2>3 DEF Transition
      <3>3. PICK i \in DOMAIN idem : idem[i].key = key BY <3>1, RetainedIs
      <3>4. idem[i] = R BY <1>1, <3>3
      <3>5. Stands(R.result.proposal, R.result.status) BY <3>4 DEF StoreOK, KeptStands
      <3>6. R.result.proposal = p /\ R.result.status = to BY DEF Told
      <3> QED BY <2>1, <3>1, <3>2, <3>5, <3>6 DEF Retained
    <2>4. Stands(p, to) => StandsNext(p, to)
      BY <1>1, <2>2, Growth DEF Lasting
    <2> QED BY <1>4, <2>1, <2>2, <2>3, <2>4 DEF StoreStep
  <1> QED BY <1>3, <1>4

------------------------------------------------
\* The audit log.

LEMMA EventKinds ==
    ASSUME NEW e \in LogEvents
    PROVE  /\ e.proposal \in Proposals /\ e.status \in ProposalStatus /\ e.version = VersionOf(e.status)
           /\ e.version = 1 => e.id = CreatedEventId(e.proposal)
           /\ e.version = 2 => \E k \in DecisionKeys : /\ e.id = DecisionEventId(k)
                                                       /\ Decision[k].proposal = e.proposal
                                                       /\ Decision[k].status = e.status
           /\ e.version >= 3 => e.id = LifecycleEventId(e.proposal, e.status)
           /\ \A p, s : e.id = LifecycleEventId(p, s) => e.proposal = p /\ e.status = s
           /\ \A p : e.id = CreatedEventId(p) => e.proposal = p
           /\ \A k : e.id = DecisionEventId(k) => Decision[k].proposal = e.proposal /\ Decision[k].status = e.status
  <1>1. CASE \E p \in Proposals : e = EventOf(CreatedEventId(p), Told(p, "pending"))
    <2>1. PICK p \in Proposals : e = EventOf(CreatedEventId(p), Told(p, "pending")) BY <1>1
    <2>2. e.id = CreatedEventId(p) /\ e.proposal = p /\ e.status = "pending" /\ e.version = VersionOf("pending")
      BY <2>1 DEF EventOf, Told
    <2> QED BY <2>2, Versions, Statuses, EventIds
  <1>2. CASE \E k \in DecisionKeys :
                e = EventOf(DecisionEventId(k), Told(Decision[k].proposal, Decision[k].status))
    <2>1. PICK k \in DecisionKeys :
             e = EventOf(DecisionEventId(k), Told(Decision[k].proposal, Decision[k].status))
      BY <1>2
    <2>2. /\ e.id = DecisionEventId(k) /\ e.proposal = Decision[k].proposal
          /\ e.status = Decision[k].status /\ e.version = VersionOf(Decision[k].status)
      BY <2>1 DEF EventOf, Told
    <2>3. e.version = 2 BY <2>2, Versions, DecisionType
    <2> QED BY <2>2, <2>3, Statuses, EventIds, DecisionType
  <1>3. CASE \E p \in Proposals, s \in ExecutionStatus : e = EventOf(LifecycleEventId(p, s), Told(p, s))
    <2>1. PICK p \in Proposals, s \in ExecutionStatus : e = EventOf(LifecycleEventId(p, s), Told(p, s))
      BY <1>3
    <2>2. e.id = LifecycleEventId(p, s) /\ e.proposal = p /\ e.status = s /\ e.version = VersionOf(s)
      BY <2>1 DEF EventOf, Told
    <2>3. VersionOf(s) = 3 \/ VersionOf(s) = 4 BY Versions DEF ExecutionStatus
    <2> QED BY <2>2, <2>3, Statuses, EventIds
  <1> QED BY <1>1, <1>2, <1>3 DEF LogEvents

HasNext(id)      == \E i \in DOMAIN log' : log'[i].id = id
ConfirmedNext(p) == /\ HasNext(CreatedEventId(p))
                    /\ \E i \in DOMAIN log' : /\ log'[i].proposal = p /\ log'[i].status = "confirmed"
                                              /\ log'[i].version = 2
Remembered == /\ \A id : HasEvent(id) => HasNext(id)
              /\ \A p : Confirmed(p, 2) => ConfirmedNext(p)

\* Event e may be appended.
Follows(e) ==
    /\ Stands(e.proposal, e.status)
    /\ e.version >= 2 => HasEvent(CreatedEventId(e.proposal))
    /\ e.version >= 3 => Confirmed(e.proposal, 2)
    /\ e.version >= 4 => HasEvent(LifecycleEventId(e.proposal, "executing"))
    /\ \A i \in DOMAIN log : log[i].proposal = e.proposal => log[i].version < e.version
LogGrows == log' = log \/ \E e \in LogEvents : Follows(e) /\ log' = Append(log, e)

LEMMA LogRemembers ==
    ASSUME log \in Seq(LogEvents), LogGrows
    PROVE  Remembered
  <1>1. CASE log' = log BY <1>1 DEF Remembered, HasEvent, HasNext, Confirmed, ConfirmedNext
  <1>2. CASE \E e \in LogEvents : log' = Append(log, e)
    <2>1. PICK e \in LogEvents : log' = Append(log, e) BY <1>2
    <2>2. \A i \in DOMAIN log : i \in DOMAIN log' /\ log'[i] = log[i] BY <2>1
    <2>3. \A id : HasEvent(id) => HasNext(id) BY <2>2 DEF HasEvent, HasNext
    <2> QED BY <2>2, <2>3 DEF Remembered, Confirmed, ConfirmedNext
  <1> QED BY <1>1, <1>2 DEF LogGrows

LEMMA LogKept ==
    ASSUME LogOK, LogGrows, \A p \in Proposals : Lasting(p)
    PROVE  LogOK'
  <1>1. Remembered BY LogRemembers DEF LogOK
  <1>2. \A i \in DOMAIN log : log[i] \in LogEvents BY DEF LogOK
  <1>3. \A i \in DOMAIN log : StandsNext(log[i].proposal, log[i].status)
    BY <1>2, EventKinds DEF LogOK, LogStands, Lasting
  <1>4. CASE log' = log
    <2>1. LogStands' BY <1>3, <1>4 DEF LogStands, Stands, StandsNext
    <2>2. LogOrdered' BY <1>4 DEF LogOK, LogOrdered
    <2>3. LogClosed' BY <1>4 DEF LogOK, LogClosed, HasEvent, Confirmed
    <2> QED BY <1>4, <2>1, <2>2, <2>3 DEF LogOK
  <1>5. CASE \E e \in LogEvents : Follows(e) /\ log' = Append(log, e)
    <2>1. PICK e \in LogEvents : Follows(e) /\ log' = Append(log, e) BY <1>5
    <2> DEFINE n == Len(log) + 1
    <2>2. /\ log' \in Seq(LogEvents) /\ log'[n] = e /\ n \in DOMAIN log'
          /\ \A i \in DOMAIN log' : i = n \/ (i \in DOMAIN log /\ log'[i] = log[i])
          /\ \A i \in DOMAIN log : i < n
          /\ \A i \in DOMAIN log' : i \in Int
      BY <2>1, AppendTo DEF LogOK
    <2> HIDE DEF n
    <2>3. StandsNext(e.proposal, e.status) BY <2>1, EventKinds DEF Follows, Lasting
    <2>4. LogStands'
      <3> SUFFICES ASSUME NEW i \in DOMAIN log' PROVE StandsNext(log'[i].proposal, log'[i].status)
        BY DEF LogStands, Stands, StandsNext
      <3> QED BY <1>3, <2>2, <2>3
    <2>5. LogOrdered'
      <3> SUFFICES ASSUME NEW i \in DOMAIN log', NEW j \in DOMAIN log', i < j,
                          log'[i].proposal = log'[j].proposal
                   PROVE  log'[i].version < log'[j].version
        BY DEF LogOrdered
      <3>1. i # n
        <4> SUFFICES ASSUME i = n PROVE FALSE OBVIOUS
        <4>1. j = n \/ j < n BY <2>2
        <4>2. n \in Int /\ j \in Int BY <2>2
        <4> QED BY <4>1, <4>2
      <3>2. i \in DOMAIN log /\ log'[i] = log[i] BY <2>2, <3>1
      <3>3. CASE j = n BY <2>1, <2>2, <3>2, <3>3 DEF Follows
      <3>4. CASE j # n
        <4>1. j \in DOMAIN log /\ log'[j] = log[j] BY <2>2, <3>4
        <4> QED BY <3>2, <4>1 DEF LogOK, LogOrdered
      <3> QED BY <3>3, <3>4
    <2>6. LogClosed'
      <3> SUFFICES ASSUME NEW i \in DOMAIN log'
                   PROVE  /\ log'[i].version >= 2 => HasNext(CreatedEventId(log'[i].proposal))
                          /\ log'[i].version >= 3 => ConfirmedNext(log'[i].proposal)
                          /\ log'[i].version >= 4 => HasNext(LifecycleEventId(log'[i].proposal, "executing"))
        BY DEF LogClosed, HasEvent, Confirmed, HasNext, ConfirmedNext, CreatedEventId, LifecycleEventId
      <3>1. CASE i = n BY <1>1, <2>1, <2>2, <3>1 DEF Follows, Remembered
      <3>2. CASE i # n
        <4>1. i \in DOMAIN log /\ log'[i] = log[i] BY <2>2, <3>2
        <4> QED BY <1>1, <4>1 DEF LogOK, LogClosed, Remembered
      <3> QED BY <3>1, <3>2
    <2> QED BY <2>2, <2>4, <2>5, <2>6 DEF LogOK
  <1> QED BY <1>4, <1>5 DEF LogGrows

\* An identity that is not in the log may be appended.
LEMMA EventInLog ==
    ASSUME LogOK, NEW i \in DOMAIN log
    PROVE  /\ log[i] \in LogEvents /\ Stands(log[i].proposal, log[i].status)
           /\ HasEvent(log[i].id) /\ log[i].version \in Nat /\ log[i].version >= 1
           /\ log[i].version = VersionOf(log[i].status)
  <1>1. log[i] \in LogEvents BY DEF LogOK
  <1>2. VersionOf(log[i].status) \in 1..4 /\ log[i].version = VersionOf(log[i].status)
    BY <1>1, EventKinds, Versions
  <1> QED BY <1>1, <1>2 DEF LogOK, LogStands, HasEvent

LEMMA CreatedFollows ==
    ASSUME LogOK, NEW p \in Proposals, Stands(p, "pending"), ~HasEvent(CreatedEventId(p))
    PROVE  /\ EventOf(CreatedEventId(p), Told(p, "pending")) \in LogEvents
           /\ Follows(EventOf(CreatedEventId(p), Told(p, "pending")))
  <1> DEFINE e == EventOf(CreatedEventId(p), Told(p, "pending"))
  <1>1. e \in LogEvents BY DEF LogEvents
  <1>2. e.proposal = p /\ e.status = "pending" /\ e.version = 1 BY Versions DEF EventOf, Told
  <1>3. ASSUME NEW i \in DOMAIN log, log[i].proposal = p PROVE FALSE
    <2>1. log[i] \in LogEvents /\ log[i].version \in Nat /\ log[i].version >= 1 /\ HasEvent(log[i].id)
      BY EventInLog
    <2>2. log[i].version = 1 \/ log[i].version >= 2 BY <2>1
    <2>3. HasEvent(CreatedEventId(p)) BY <1>3, <2>1, <2>2, EventKinds DEF LogOK, LogClosed
    <2> QED BY <2>3
  <1> HIDE DEF e
  <1> QED BY <1>1, <1>2, <1>3 DEF Follows, e

LEMMA DecidesStands ==
    ASSUME StoreOK, LogOK, Deciding, NEW k \in DecisionKeys, Decides(k)
    PROVE  Stands(Decision[k].proposal, Decision[k].status)
  <1>1. CASE Retained(DecisionKey(k)) # {}
    <2>1. PICK i \in DOMAIN idem : idem[i].key = DecisionKey(k) BY <1>1, RetainedIs
    <2>2. idem[i] = DecisionRecord(k) BY <2>1, KeptByKey DEF StoreOK
    <2>3. idem[i].result = Told(Decision[k].proposal, Decision[k].status) BY <2>2 DEF DecisionRecord
    <2>4. Stands(idem[i].result.proposal, idem[i].result.status) BY DEF StoreOK, KeptStands
    <2> QED BY <2>3, <2>4 DEF Told
  <1>2. CASE HasEvent(DecisionEventId(k))
    <2>1. PICK i \in DOMAIN log : log[i].id = DecisionEventId(k) BY <1>2 DEF HasEvent
    <2> QED BY <2>1, EventInLog, EventKinds
  <1>3. CASE dec[k].pc = "append" BY <1>3 DEF Deciding
  <1> QED BY <1>1, <1>2, <1>3 DEF Decides

LEMMA DecisionFollows ==
    ASSUME LogOK, DecisionsOK, NEW k \in DecisionKeys, dec[k].pc = "append",
           ~HasEvent(DecisionEventId(k))
    PROVE  LET e == EventOf(DecisionEventId(k), dec[k].stored)
           IN  e \in LogEvents /\ Follows(e)
  <1> DEFINE p == Decision[k].proposal
             s == Decision[k].status
             e == EventOf(DecisionEventId(k), Told(p, s))
  <1>1. dec[k].stored = Told(p, s) /\ Stands(p, s) /\ HasEvent(CreatedEventId(p))
    BY DEF DecisionsOK, Deciding
  <1>2. e \in LogEvents BY DEF LogEvents
  <1>3. e.proposal = p /\ e.status = s /\ e.version = 2
    BY Versions, DecisionType DEF EventOf, Told
  <1>4. ASSUME NEW i \in DOMAIN log, log[i].proposal = p, log[i].version = 2 PROVE FALSE
    <2>1. log[i] \in LogEvents /\ HasEvent(log[i].id) BY EventInLog
    <2>2. PICK l \in DecisionKeys : log[i].id = DecisionEventId(l) /\ Decision[l].proposal = p
      BY <1>4, <2>1, EventKinds
    <2>3. Decides(l) /\ Decides(k) BY <2>1, <2>2 DEF Decides
    <2>4. l = k BY <2>2, <2>3 DEF DecisionsOK, DecidedOnce
    <2> QED BY <2>1, <2>2, <2>4
  <1>5. ASSUME NEW i \in DOMAIN log, log[i].proposal = p PROVE log[i].version < 2
    <2>1. log[i].version \in Nat BY EventInLog
    <2>2. ASSUME log[i].version >= 3 PROVE FALSE
      <3>1. Confirmed(p, 2) BY <1>5, <2>2 DEF LogOK, LogClosed
      <3> QED BY <3>1, <1>4 DEF Confirmed
    <2> QED BY <1>4, <1>5, <2>1, <2>2
  <1> HIDE DEF e, p, s
  <1>6. Follows(e) BY <1>1, <1>3, <1>5 DEF Follows
  <1> QED BY <1>1, <1>2, <1>6 DEF e

LEMMA LifecycleFollows ==
    ASSUME HistoryOK, LogOK, NEW p \in Proposals, NEW s \in ExecutionStatus,
           Stands(p, s), Confirmed(p, 2), s = "executing" \/ HasEvent(LifecycleEventId(p, "executing")),
           ~HasEvent(LifecycleEventId(p, s))
    PROVE  LET e == EventOf(LifecycleEventId(p, s), Told(p, s))
           IN  e \in LogEvents /\ Follows(e)
  <1> DEFINE e == EventOf(LifecycleEventId(p, s), Told(p, s))
  <1>1. e \in LogEvents BY DEF LogEvents
  <1>2. e.proposal = p /\ e.status = s /\ e.version = VersionOf(s) BY DEF EventOf, Told
  <1>3. (VersionOf(s) = 3 /\ s = "executing") \/ (VersionOf(s) = 4 /\ s # "executing")
    BY Versions DEF ExecutionStatus
  <1>4. ASSUME NEW i \in DOMAIN log, log[i].proposal = p PROVE log[i].version < VersionOf(s)
    <2> DEFINE v == log[i].version
    <2>1. v \in Nat /\ log[i] \in LogEvents /\ HasEvent(log[i].id) /\ Stands(p, log[i].status)
          /\ v = VersionOf(log[i].status) /\ log[i].status \in ProposalStatus
      BY <1>4, EventInLog, EventKinds
    <2>2. v >= 3 => log[i].id = LifecycleEventId(p, log[i].status) BY <1>4, <2>1, EventKinds
    <2>3. v >= 4 => HasEvent(LifecycleEventId(p, "executing")) BY <1>4 DEF LogOK, LogClosed
    <2>4. v <= 4 BY <2>1, Versions
    <2>5. v # VersionOf(s)
      <3> SUFFICES ASSUME v = VersionOf(s) PROVE FALSE OBVIOUS
      <3>1. log[i].status = s BY <2>1 DEF Stands
      <3> QED BY <1>3, <2>1, <2>2, <3>1
    <2> HIDE DEF v
    <2>6. CASE VersionOf(s) = 4 BY <2>1, <2>4, <2>5, <2>6 DEF v
    <2>7. CASE s = "executing" /\ VersionOf(s) = 3 BY <2>1, <2>3, <2>4, <2>5, <2>7 DEF v
    <2> QED BY <1>3, <2>6, <2>7
  <1>5. HasEvent(CreatedEventId(p)) BY DEF Confirmed
  <1> HIDE DEF e
  <1>6. Follows(e) BY <1>2, <1>3, <1>4, <1>5 DEF Follows
  <1> QED BY <1>1, <1>6 DEF e

------------------------------------------------
\* What a step may do to the deciding calls.

DecisionNext(k) ==
    LET p == Decision[k].proposal  s == Decision[k].status IN
    /\ dec'[k].pc \in {"transition", "classify", "append"} => HasNext(CreatedEventId(p))
    /\ dec'[k].pc = "append" => /\ dec'[k].stored = Told(p, s) /\ StandsNext(p, s)
                                /\ Retained(DecisionKey(k))' # {}
    /\ dec'[k].outcome = "accepted" => HasNext(DecisionEventId(k))
DecisionChange ==
    /\ dec' \in [DecisionKeys -> DecisionCall]
    /\ \A k \in DecisionKeys : dec'[k] = dec[k] \/ DecisionNext(k)
\* Decision events come from the calls that decided.
NoForeignDecision ==
    \A k \in DecisionKeys : HasNext(DecisionEventId(k)) =>
        HasEvent(DecisionEventId(k)) \/ dec[k].pc = "append"

LEMMA DecisionsKept ==
    ASSUME StoreOK, LogOK, DecisionsOK, StoreStep, LogGrows, DecisionChange, NoForeignDecision
    PROVE  DecisionsOK'
  <1>1. Remembered /\ \A p \in Proposals : Lasting(p) BY LogRemembers, StoreKept DEF LogOK
  <1>2. Deciding'
    <2> SUFFICES ASSUME NEW k \in DecisionKeys
                 PROVE  LET p == Decision[k].proposal  s == Decision[k].status IN
                        /\ dec'[k].pc \in {"transition", "classify", "append"} => HasNext(CreatedEventId(p))
                        /\ dec'[k].pc = "append" => dec'[k].stored = Told(p, s) /\ StandsNext(p, s)
                        /\ dec'[k].outcome = "accepted" => HasNext(DecisionEventId(k))
      BY DEF Deciding, HasNext, HasEvent, Stands, StandsNext
    <2>1. CASE DecisionNext(k) BY <2>1 DEF DecisionNext
    <2>2. CASE dec'[k] = dec[k]
      <3>1. Decision[k].proposal \in Proposals /\ Decision[k].status \in ProposalStatus
        BY DecisionType, Statuses
      <3> QED BY <1>1, <2>2, <3>1 DEF DecisionsOK, Deciding, Remembered, Lasting
    <2> QED BY <2>1, <2>2 DEF DecisionChange
  <1> DEFINE New(k) == \E r \in KeptRecords : /\ IdemGrows(r) /\ r = DecisionRecord(k)
                                              /\ Version(Decision[k].proposal) = 1
  <1>3. ASSUME NEW k \in DecisionKeys, Retained(DecisionKey(k))' # {}
        PROVE  Decides(k) \/ New(k)
    <2>1. PICK i \in DOMAIN idem' : idem'[i].key = DecisionKey(k) BY <1>3 DEF Retained
    <2>2. CASE idem' = idem BY <2>1, <2>2 DEF Decides, Retained
    <2>3. CASE NewRecord
      <3>1. PICK r \in KeptRecords :
               /\ IdemGrows(r)
               /\ \A l \in DecisionKeys : r = DecisionRecord(l) => Version(Decision[l].proposal) = 1
        BY <2>3 DEF NewRecord
      <3>2. CASE idem'[i] = r
        <4>1. r = DecisionRecord(k) BY <2>1, <3>2, KeptByKey
        <4> QED BY <3>1, <4>1
      <3>3. CASE \E j \in DOMAIN idem : idem'[i] = idem[j] BY <2>1, <3>3 DEF Decides, Retained
      <3> QED BY <3>1, <3>2, <3>3 DEF IdemGrows
    <2> QED BY <2>2, <2>3 DEF StoreStep
  <1>4. ASSUME NEW k \in DecisionKeys, Decides(k)' PROVE Decides(k) \/ New(k)
    <2>1. CASE Retained(DecisionKey(k))' # {} BY <1>3, <2>1
    <2>2. CASE HasEvent(DecisionEventId(k))'
      <3>1. HasNext(DecisionEventId(k)) BY <2>2 DEF HasEvent, HasNext, DecisionEventId
      <3> QED BY <3>1 DEF NoForeignDecision, Decides
    <2>3. CASE dec'[k].pc = "append"
      <3>1. CASE dec'[k] = dec[k] BY <2>3, <3>1 DEF Decides
      <3>2. CASE DecisionNext(k) BY <1>3, <2>3, <3>2 DEF DecisionNext
      <3> QED BY <3>1, <3>2 DEF DecisionChange
    <2> QED BY <1>4, <2>1, <2>2, <2>3 DEF Decides
  <1>5. ASSUME NEW k \in DecisionKeys, Decides(k) PROVE Version(Decision[k].proposal) # 1
    <2>1. Stands(Decision[k].proposal, Decision[k].status) BY <1>5, DecidesStands DEF DecisionsOK
    <2>2. VersionOf(Decision[k].status) = 2 BY DecisionType, Versions
    <2> DEFINE n == Version(Decision[k].proposal)
    <2>3. 2 <= n BY <2>1, <2>2 DEF Stands, Version
    <2> HIDE DEF n
    <2>4. n # 1 BY <2>3
    <2> QED BY <2>4 DEF n
  <1>6. DecidedOnce'
    <2> SUFFICES ASSUME NEW k \in DecisionKeys, NEW l \in DecisionKeys, Decides(k)', Decides(l)',
                        Decision[k].proposal = Decision[l].proposal
                 PROVE  k = l
      BY DEF DecidedOnce
    <2>1. CASE Decides(k) /\ Decides(l) BY <2>1 DEF DecisionsOK, DecidedOnce
    <2>2. CASE New(k) /\ New(l)
      <3>1. PICK r \in KeptRecords : IdemGrows(r) /\ r = DecisionRecord(k) BY <2>2
      <3>2. PICK t \in KeptRecords : IdemGrows(t) /\ t = DecisionRecord(l) BY <2>2
      <3>3. CASE r = t
        <4>1. r.key = DecisionKey(k) /\ t.key = DecisionKey(l) BY <3>1, <3>2 DEF DecisionRecord
        <4> QED BY <3>3, <4>1, Keys
      <3>4. CASE r # t
        <4>1. PICK i \in DOMAIN idem' : idem'[i] = r BY <3>1 DEF IdemGrows
        <4>2. \E j \in DOMAIN idem : idem[j] = r BY <3>2, <3>4, <4>1 DEF IdemGrows
        <4>3. r.key = DecisionKey(k) BY <3>1 DEF DecisionRecord
        <4>4. Decides(k) BY <4>2, <4>3 DEF Decides, Retained
        <4> QED BY <1>5, <2>2, <4>4
      <3> QED BY <3>3, <3>4
    <2> QED BY <1>4, <1>5, <2>1, <2>2
  <1> QED BY <1>2, <1>6 DEF DecisionsOK

------------------------------------------------
\* What a step may do to the workers.

\* WorkerSound after the step, for the call p in the state me.
WorkerNext(p, me) ==
    /\ me.pc \in {"record", "poll"} \cup Claiming => StandsNext(p, "pending")
    /\ me.pc \in Claiming => me.expected = 2
    /\ me.pc \in {"audit", "transition", "append"} =>
         me.seen.status \in ProposalStatus /\ StandsNext(p, me.seen.status)
    /\ me.pc \in {"transition", "append"} =>
         /\ ConfirmedNext(p)
         /\ IF me.repair THEN me.seen.status \in ExecutionStatus ELSE me.seen.status = "confirmed"
    /\ me.pc = "append" => me.claimed = VersionOf(ClaimOf(me)) /\ StandsNext(p, ClaimOf(me))
    /\ me.pc \in {"admit"} \cup Owning =>
         /\ me.claimed = 3 /\ StandsNext(p, "executing")
         /\ ConfirmedNext(p) /\ HasNext(LifecycleEventId(p, "executing"))
    /\ me.pc \in Owning => ledger'[p] = "claimed"
    /\ me.pc \in {"start", "acquire"} => invoked'[p] = 0
    /\ me.pc \in {"start", "acquire", "invoke"} => returned'[p] = {} /\ Len(history'[p]) = 3
    /\ me.pc = "settle" => /\ me.verdict \in {"executed", "failed"} /\ Len(history'[p]) = 3
                           /\ me.verdict = "executed" => returned'[p] = {"executed"}
    /\ me.pc = "settleAppend" => me.verdict \in {"executed", "failed"} /\ StandsNext(p, me.verdict)
    /\ me.pc = "save" /\ me.verdict = "executed" =>
         StandsNext(p, "executed") /\ HasNext(LifecycleEventId(p, "executed"))
    /\ me.result = "success" => ledger'[p] = "success"

LEMMA WorkerNextSound ==
    ASSUME plan' = plan, NEW w, w \in DOMAIN plan.call, NEW p, p = CallOf(w), WorkerNext(p, wrk'[w])
    PROVE  WorkerSound(w)'
  <1>1. CallOf(w)' = p BY DEF CallOf
  <1> QED BY <1>1 DEF WorkerSound, WorkerNext, Stands, StandsNext, Version, CallOf, HasEvent, HasNext,
            Confirmed, ConfirmedNext, LifecycleEventId, CreatedEventId

Undisturbed(p) == /\ ledger'[p] = ledger[p] /\ invoked'[p] = invoked[p] /\ returned'[p] = returned[p]
                  /\ Calm(p)
LedgerNext(p)  ==
    /\ ledger'[p] = "absent" => invoked'[p] = 0 /\ returned'[p] = {} /\ Len(history'[p]) <= 3
    /\ ledger'[p] = "success" => StandsNext(p, "executed") /\ HasNext(LifecycleEventId(p, "executed"))
    /\ StandsNext(p, "executed") => returned'[p] = {"executed"}
ToolTypes == /\ ledger \in [Proposals -> {"absent", "claimed", "success", "error"}]
             /\ invoked \in [Proposals -> {0, 1}] /\ returned \in [Proposals -> SUBSET {"executed", "failed"}]

LEMMA CalmVersion ==
    ASSUME HistoryOK, HistoryGrows, NEW p \in Proposals, Calm(p)
    PROVE  /\ Version(p) <= 3 => Len(history'[p]) <= 3
           /\ Version(p) = 3 => Len(history'[p]) = 3
           /\ \A s \in {"executed", "failed"} : StandsNext(p, s) => Stands(p, s)
           /\ Len(history'[p]) >= 4 => Version(p) >= 4
  <1> DEFINE n == Version(p)
             m == Version(p)'
  <1>1. /\ n \in Nat /\ n <= m
        /\ history'[p] # history[p] => m = n + 1
        /\ n >= 3 => history'[p] = history[p]
    BY HistoryLength, Growth DEF Calm
  <1>2. history'[p] = history[p] => m = n BY DEF Version
  <1>3. m = Len(history'[p]) BY DEF Version
  <1> HIDE DEF n, m
  <1>4. (n <= 3 => m <= 3) /\ (n = 3 => m = 3) /\ (m >= 4 => n >= 4) BY <1>1, <1>2
  <1>5. \A s \in {"executed", "failed"} : StandsNext(p, s) => Stands(p, s)
    <2> SUFFICES ASSUME NEW s \in {"executed", "failed"}, StandsNext(p, s) PROVE Stands(p, s) OBVIOUS
    <2>1. 4 <= m BY <1>3, Versions DEF StandsNext
    <2>2. n >= 3 BY <1>1, <1>4, <2>1
    <2>3. history'[p] = history[p] BY <1>1, <2>2
    <2> QED BY <2>3 DEF Stands, StandsNext
  <1> QED BY <1>3, <1>4, <1>5 DEF n

LEMMA LedgerFrame ==
    ASSUME HistoryOK, HistoryGrows, Remembered, Ledger, NEW p \in Proposals, Undisturbed(p)
    PROVE  LedgerNext(p)
  <1>1. Lasting(p) /\ "executed" \in ProposalStatus BY Growth, Statuses
  <1>2. Stands(p, "executed") => StandsNext(p, "executed") BY <1>1 DEF Lasting
  <1> QED BY <1>2, CalmVersion DEF LedgerNext, Ledger, Undisturbed, Remembered

LEMMA OtherWorker ==
    ASSUME HistoryOK, HistoryGrows, Remembered, plan' = plan, NEW v \in ToolWorkers, WorkerSound(v),
           wrk[v] \in Worker, wrk'[v] = wrk[v], NEW p \in Proposals, v \in DOMAIN plan.call => p = CallOf(v),
           wrk[v].pc \in Owning => Undisturbed(p),
           ledger[p] = "success" => ledger'[p] = "success"
    PROVE  WorkerSound(v)'
  <1>1. CASE v \in DOMAIN plan.call
    <2> DEFINE me == wrk[v]
    <2>1. p = CallOf(v) BY <1>1
    <2>2. \A s \in ProposalStatus : Stands(p, s) => StandsNext(p, s) BY Growth DEF Lasting
    <2>3. /\ \A id : HasEvent(id) => HasNext(id)
          /\ Confirmed(p, 2) => ConfirmedNext(p)
      BY DEF Remembered
    <2>4. me.pc \in Owning => Undisturbed(p) /\ (Version(p) = 3 => Len(history'[p]) = 3)
      BY CalmVersion DEF Undisturbed
    <2>5. me.pc \in {"transition", "append"} => ClaimOf(me) \in ProposalStatus
      BY <2>1, Statuses DEF WorkerSound, ClaimOf
    <2>6. {"start", "acquire", "invoke", "settle", "settleAppend", "save"} = Owning BY DEF Owning
    <2>7. WorkerNext(p, me)
      BY <2>1, <2>2, <2>3, <2>4, <2>5, <2>6, Statuses DEF WorkerNext, WorkerSound, Undisturbed
    <2> QED BY <1>1, <2>1, <2>7, WorkerNextSound
  <1>2. CASE v \notin DOMAIN plan.call
    <2>1. wrk[v].pc = "idle" /\ wrk[v].result # "success" BY <1>2 DEF WorkerSound
    <2> QED BY <2>1 DEF WorkerSound, Owning, Claiming
  <1> QED BY <1>1, <1>2

LEMMA SettledKept ==
    ASSUME HistoryOK, HistoryGrows, Remembered, SettledLogged,
           \A p \in Proposals : Calm(p) \/ HasEvent(LifecycleEventId(p, "executing"))
    PROVE  SettledLogged'
  <1> SUFFICES ASSUME NEW p \in Proposals, Len(history'[p]) >= 4
               PROVE  HasNext(LifecycleEventId(p, "executing"))
    BY DEF SettledLogged, Version, HasEvent, HasNext, LifecycleEventId
  <1>1. CASE Calm(p) BY <1>1, CalmVersion DEF SettledLogged, Remembered
  <1>2. CASE HasEvent(LifecycleEventId(p, "executing")) BY <1>2 DEF Remembered
  <1> QED BY <1>1, <1>2

LEMMA LedgerKept ==
    ASSUME \A p \in Proposals : LedgerNext(p)
    PROVE  Ledger'
  BY DEF LedgerNext, Ledger, Version, Stands, StandsNext, HasEvent, HasNext, LifecycleEventId

\* A step of the deciding side.
LEMMA ApprovalKept ==
    ASSUME IInv, StoreStep, LogGrows, DecisionChange, NoForeignDecision, plan' = plan,
           due' \subseteq Proposals, grp' \in GroupCall', GroupKnown',
           \A p \in Proposals : Calm(p), UNCHANGED approvedVars
    PROVE  IInv'
  <1>1. StoreOK' /\ HistoryOK /\ HistoryGrows BY StoreKept DEF IInv, StoreOK, StoreStep
  <1>2. LogOK' BY StoreKept, LogKept DEF IInv
  <1>3. DecisionsOK' BY DecisionsKept DEF IInv
  <1>4. Remembered BY LogRemembers DEF IInv, LogOK
  <1>5. \A p \in Proposals : Undisturbed(p) BY DEF Undisturbed, approvedVars
  <1>6. Ledger' BY <1>1, <1>4, <1>5, LedgerFrame, LedgerKept DEF IInv
  <1>7. SettledLogged' BY <1>1, <1>4, SettledKept DEF IInv
  <1>8. CallsOK' BY DEF IInv, CallsOK, DecisionChange, approvedVars
  <1>9. Workers'
    <2> SUFFICES ASSUME NEW v \in ToolWorkers PROVE WorkerSound(v)' BY DEF Workers
    <2>1. WorkerSound(v) /\ wrk[v] \in Worker /\ wrk'[v] = wrk[v] BY DEF IInv, Workers, CallsOK, approvedVars
    <2>2. CASE v \in DOMAIN plan.call
      <3>1. CallOf(v) \in Proposals BY <2>2, ToolPlansAssumption DEF IInv, CallsOK, CallOf
      <3>2. PICK p \in Proposals : p = CallOf(v) BY <3>1
      <3> QED BY <1>1, <1>4, <1>5, <2>1, <3>2, OtherWorker DEF Undisturbed
    <2>3. CASE v \notin DOMAIN plan.call
      <3>1. wrk[v].pc = "idle" /\ wrk[v].result # "success" BY <2>1, <2>3 DEF WorkerSound
      <3> QED BY <2>1, <3>1 DEF WorkerSound, Owning, Claiming
    <2> QED BY <2>2, <2>3
  <1>10. Owners' BY DEF IInv, Owners, CallOf, approvedVars
  <1> QED BY <1>1, <1>2, <1>3, <1>6, <1>7, <1>8, <1>9, <1>10 DEF IInv

\* Worker w is in the state me after the step, and only its call changed.
WorkerChange(w, p, me) ==
    /\ me \in Worker /\ wrk' = [wrk EXCEPT ![w] = me] /\ WorkerNext(p, me)
    /\ ToolTypes' /\ LedgerNext(p)
    /\ \A q \in Proposals \ {p} : Undisturbed(q)
    /\ wrk[w].pc \notin Owning =>
         /\ invoked'[p] = invoked[p] /\ returned'[p] = returned[p] /\ Calm(p)
         /\ ledger'[p] = ledger[p] \/ ledger[p] = "absent"
    /\ me.pc \in Owning => wrk[w].pc \in Owning \/ ledger[p] = "absent"

LEMMA WorkerKept ==
    ASSUME IInv, StoreStep, LogGrows, NoForeignDecision, UNCHANGED <<plan, due, dec, grp>>,
           NEW w \in ToolWorkers, w \in DOMAIN plan.call, NEW p \in Proposals, p = CallOf(w),
           NEW me, WorkerChange(w, p, me)
    PROVE  IInv'
  <1>1. StoreOK' /\ HistoryOK /\ HistoryGrows BY StoreKept DEF IInv, StoreOK, StoreStep
  <1>2. LogOK' BY StoreKept, LogKept DEF IInv
  <1>3. DecisionsOK'
    <2>1. DecisionChange BY DEF DecisionChange, IInv, CallsOK
    <2> QED BY <2>1, DecisionsKept DEF IInv
  <1>4. Remembered BY LogRemembers DEF IInv, LogOK
  <1>5. Ledger'
    <2>1. \A q \in Proposals \ {p} : LedgerNext(q) BY <1>1, <1>4, LedgerFrame DEF IInv, WorkerChange
    <2> QED BY <2>1, LedgerKept DEF WorkerChange
  <1>6. SettledLogged'
    <2>1. wrk[w].pc \in Owning => HasEvent(LifecycleEventId(p, "executing"))
      BY DEF IInv, Workers, WorkerSound
    <2>2. \A q \in Proposals : Calm(q) \/ HasEvent(LifecycleEventId(q, "executing"))
      BY <2>1 DEF WorkerChange, Undisturbed
    <2> QED BY <1>1, <1>4, <2>2, SettledKept DEF IInv
  <1>7. wrk \in [ToolWorkers -> Worker] BY DEF IInv, CallsOK
  <1>8. CallsOK'
    BY <1>7 DEF IInv, CallsOK, GroupCall, WorkerChange, ToolTypes
  <1>9. GroupKnown'
    <2> SUFFICES ASSUME grp.pc = "run", NEW i \in DOMAIN plan.group
                 PROVE  HasNext(CreatedEventId(Decision[plan.group[i]].proposal))
      BY DEF GroupKnown, HasEvent, HasNext, CreatedEventId
    <2> QED BY <1>4 DEF IInv, GroupKnown, Remembered
  <1>10. wrk'[w] = me /\ \A v \in ToolWorkers \ {w} : wrk'[v] = wrk[v] BY <1>7 DEF WorkerChange
  <1>11. ASSUME NEW v \in ToolWorkers, wrk[v].pc \in Owning, CallOf(v) = p, v # w
         PROVE  wrk[w].pc \notin Owning /\ ledger[p] = "claimed"
    BY <1>11 DEF IInv, Workers, WorkerSound, Owners
  <1>12. Workers'
    <2> SUFFICES ASSUME NEW v \in ToolWorkers PROVE WorkerSound(v)' BY DEF Workers
    <2>1. CASE v = w BY <1>10, <2>1, WorkerNextSound DEF WorkerChange
    <2>2. CASE v # w /\ v \in DOMAIN plan.call
      <3>1. CallOf(v) \in Proposals BY <2>2, ToolPlansAssumption DEF IInv, CallsOK, CallOf
      <3>2. PICK q \in Proposals : q = CallOf(v) BY <3>1
      <3>3. wrk[v].pc \in Owning => Undisturbed(q)
        <4>1. CASE q = p BY <1>11, <2>2, <3>2, <4>1 DEF WorkerChange, Undisturbed
        <4>2. CASE q # p BY <4>2 DEF WorkerChange
        <4> QED BY <4>1, <4>2
      <3>4. ledger[q] = "success" => ledger'[q] = "success"
        <4>1. CASE q = p
          <5>1. wrk[w].pc \in Owning => ledger[p] = "claimed" BY DEF IInv, Workers, WorkerSound
          <5> QED BY <4>1, <5>1 DEF WorkerChange
        <4>2. CASE q # p BY <4>2 DEF WorkerChange, Undisturbed
        <4> QED BY <4>1, <4>2
      <3>5. WorkerSound(v) /\ wrk[v] \in Worker /\ wrk'[v] = wrk[v] BY <1>7, <1>10, <2>2 DEF IInv, Workers
      <3> QED BY <1>1, <1>4, <3>2, <3>3, <3>4, <3>5, OtherWorker
    <2>3. CASE v # w /\ v \notin DOMAIN plan.call
      <3>1. wrk[v].pc = "idle" /\ wrk[v].result # "success" BY <2>3 DEF IInv, Workers, WorkerSound
      <3>2. wrk'[v] = wrk[v] BY <1>10, <2>3
      <3> QED BY <3>1, <3>2 DEF WorkerSound, Owning, Claiming
    <2> QED BY <2>1, <2>2, <2>3
  <1>13. Owners'
    <2> SUFFICES ASSUME NEW u \in ToolWorkers, NEW v \in ToolWorkers, wrk'[u].pc \in Owning,
                        wrk'[v].pc \in Owning, CallOf(u) = CallOf(v), u # v
                 PROVE  FALSE
      BY DEF Owners, CallOf
    <2>1. ASSUME NEW x \in ToolWorkers, x # w, wrk'[x].pc \in Owning, CallOf(x) = p,
                 wrk'[w].pc \in Owning
          PROVE  FALSE
      <3>1. wrk[x].pc \in Owning BY <1>10, <2>1
      <3>2. wrk[w].pc \notin Owning /\ ledger[p] = "claimed" BY <1>11, <2>1, <3>1
      <3> QED BY <1>10, <2>1, <3>2 DEF WorkerChange
    <2>2. u # w /\ v # w BY <2>1
    <2> QED BY <1>10, <2>2 DEF IInv, Owners
  <1> QED BY <1>1, <1>2, <1>3, <1>5, <1>6, <1>8, <1>9, <1>12, <1>13 DEF IInv

------------------------------------------------
\* The steps of the deciding side.

LEMMA QuietStore ==
    ASSUME StoreOK, history' = history, idem' = idem
    PROVE  StoreStep /\ \A p \in Proposals : Calm(p)
  BY DEF StoreOK, HistoryOK, StoreStep, HistoryGrows, Calm

LEMMA QuietLog ==
    ASSUME log' = log
    PROVE  LogGrows /\ NoForeignDecision
  BY DEF LogGrows, NoForeignDecision, HasNext, HasEvent

LEMMA GroupFrame ==
    ASSUME IInv, LogGrows, plan' = plan, grp' = grp
    PROVE  grp' \in GroupCall' /\ GroupKnown'
  <1>1. Remembered BY LogRemembers DEF IInv, LogOK
  <1>2. grp' \in GroupCall' BY DEF IInv, CallsOK, GroupCall
  <1>3. SUFFICES ASSUME grp.pc = "run", NEW i \in DOMAIN plan.group
                 PROVE  HasNext(CreatedEventId(Decision[plan.group[i]].proposal))
    BY <1>2 DEF GroupKnown, HasEvent, HasNext, CreatedEventId
  <1> QED BY <1>1, <1>3 DEF IInv, GroupKnown, Remembered

LEMMA EndsChange ==
    ASSUME CallsOK, NEW k \in DecisionKeys, NEW outcome \in DecisionOutcome, Ends(k, outcome),
           outcome = "accepted" => HasNext(DecisionEventId(k))
    PROVE  DecisionChange
  <1>1. dec \in [DecisionKeys -> DecisionCall] BY DEF CallsOK
  <1>2. dec' \in [DecisionKeys -> DecisionCall]
    <2>1. dec' = [dec EXCEPT ![k] = [@ EXCEPT !.pc = "end", !.outcome = outcome]] BY <1>1 DEF Ends
    <2>2. [dec[k] EXCEPT !.pc = "end", !.outcome = outcome] \in DecisionCall BY <1>1 DEF DecisionCall
    <2> QED BY <1>1, <2>1, <2>2
  <1>3. dec'[k].pc = "end" /\ dec'[k].outcome = outcome BY <1>1 DEF Ends, DecisionCall
  <1>4. DecisionNext(k) BY <1>3 DEF DecisionNext
  <1>5. \A l \in DecisionKeys \ {k} : dec'[l] = dec[l] BY <1>1 DEF Ends
  <1> QED BY <1>2, <1>4, <1>5 DEF DecisionChange

LEMMA DecisionTransitionStep ==
    ASSUME IInv, NEW k \in DecisionKeys,
           Transition(DecisionKey(k), Decision[k].proposal, 1, Decision[k].status)
    PROVE  LET p == Decision[k].proposal  to == Decision[k].status
               code == TransitionCode(DecisionKey(k), p, 1, to)
           IN  /\ StoreStep /\ \A q \in Proposals : Calm(q)
               /\ code \in {"moved", "replayed"} =>
                    /\ StandsNext(p, to) /\ Retained(DecisionKey(k))' # {}
                    /\ TransitionResult(DecisionKey(k), p, 1, to) = Told(p, to)
  <1> DEFINE p == Decision[k].proposal
             to == Decision[k].status
             R == DecisionRecord(k)
  <1>1. p \in Proposals /\ to \in ProposalStatus /\ to # "pending" /\ VersionOf(to) = 2
    BY DecisionType, Statuses, Versions
  <1>2. R \in KeptRecords BY DEF KeptRecords
  <1>3. R = [key |-> DecisionKey(k), request |-> TransitionRequest(p, 1, to), result |-> Told(p, to)]
    BY DEF DecisionRecord
  <1>4. \A r \in KeptRecords : r.key = DecisionKey(k) => r = R BY KeptByKey
  <1>5. \A l \in DecisionKeys : R = DecisionRecord(l) => Decision[l].proposal = p
    <2> SUFFICES ASSUME NEW l \in DecisionKeys, R = DecisionRecord(l) PROVE l = k OBVIOUS
    <2>1. R.key = DecisionKey(k) /\ DecisionRecord(l).key = DecisionKey(l) BY DEF DecisionRecord
    <2> QED BY <2>1, Keys
  <1>6. StoreOK /\ Transition(DecisionKey(k), p, 1, to) BY DEF IInv
  <1>7. PICK key : key = DecisionKey(k) OBVIOUS
  <1>8. 1 = VersionOf(to) - 1 BY <1>1
  <1> HIDE DEF p, to, R
  <1>9. /\ StoreStep /\ \A q \in Proposals \ {p} : history'[q] = history[q]
        /\ (Moves(p, to) /\ VersionOf(to) = 4) \/ Calm(p)
        /\ TransitionCode(key, p, 1, to) \in {"moved", "replayed"} =>
             StandsNext(p, to) /\ Retained(key)' # {}
    BY <1>1, <1>2, <1>3, <1>4, <1>5, <1>6, <1>7, <1>8, TransitionStep
  <1>10. \A q \in Proposals : Calm(q) BY <1>1, <1>9 DEF Calm
  <1>11. TransitionResult(DecisionKey(k), p, 1, to) = Told(p, to)
    <2>1. CASE Retained(DecisionKey(k)) # {}
      <3>1. \A r \in Retained(DecisionKey(k)) : r = R
        BY <1>4, <1>6, RetainedIs DEF StoreOK
      <3>2. (CHOOSE r \in Retained(DecisionKey(k)) : TRUE) \in Retained(DecisionKey(k)) BY <2>1
      <3>3. (CHOOSE r \in Retained(DecisionKey(k)) : TRUE) = R BY <3>1, <3>2
      <3>4. TransitionResult(DecisionKey(k), p, 1, to) = R.result BY <2>1, <3>3 DEF TransitionResult
      <3> QED BY <1>3, <3>4
    <2>2. CASE Retained(DecisionKey(k)) = {} BY <1>1, <2>2 DEF TransitionResult, Told
    <2> QED BY <2>1, <2>2
  <1>12. TransitionCode(DecisionKey(k), p, 1, to) \in {"moved", "replayed"} =>
            StandsNext(p, to) /\ Retained(DecisionKey(k))' # {}
    BY <1>7, <1>9 DEF Retained, DecisionKey
  <1> QED BY <1>9, <1>10, <1>11, <1>12 DEF p, to

LEMMA DecidePreserves ==
    ASSUME IInv, NEW k \in DecisionKeys, Decide(k), UNCHANGED approvedVars
    PROVE  IInv'
  <1>1. UNCHANGED <<plan, history, idem, due, log, grp>> BY DEF Decide
  <1>2. StoreStep /\ (\A p \in Proposals : Calm(p)) /\ LogGrows /\ NoForeignDecision
    BY <1>1, QuietStore, QuietLog DEF IInv
  <1>3. DecisionChange
    <2>1. CASE Ends(k, "not_found") BY <2>1, EndsChange DEF IInv, DecisionOutcome
    <2>2. CASE ~Ends(k, "not_found")
      <3> DEFINE new == [pc |-> "transition", outcome |-> "none", stored |-> NoRecord,
                         tries |-> IF dec[k].pc = "idle" THEN 0 ELSE dec[k].tries + 1]
      <3>1. HasEvent(CreatedEventId(Decision[k].proposal)) /\ dec' = [dec EXCEPT ![k] = new]
        BY <2>2 DEF Decide
      <3>2. dec \in [DecisionKeys -> DecisionCall] BY DEF IInv, CallsOK
      <3>3. dec[k].pc = "idle" \/ dec[k].tries < MaxRetries BY DEF Decide
      <3>4. dec[k].tries \in 0..MaxRetries BY <3>2 DEF DecisionCall
      <3>5. new.tries \in 0..MaxRetries BY <3>3, <3>4, ApprovalsAssumption
      <3>6. new \in DecisionCall BY <3>5 DEF DecisionCall, NoRecord
      <3>7. new.pc = "transition" /\ new.outcome = "none" OBVIOUS
      <3> HIDE DEF new
      <3>8. dec' \in [DecisionKeys -> DecisionCall] /\ dec'[k] = new
            /\ \A l \in DecisionKeys \ {k} : dec'[l] = dec[l]
        BY <3>1, <3>2, <3>6
      <3>9. HasNext(CreatedEventId(Decision[k].proposal)) BY <1>1, <3>1 DEF HasEvent, HasNext
      <3>10. DecisionNext(k) BY <3>7, <3>8, <3>9 DEF DecisionNext
      <3> QED BY <3>8, <3>10 DEF DecisionChange
    <2> QED BY <2>1, <2>2
  <1>4. due' \subseteq Proposals BY <1>1 DEF IInv, CallsOK
  <1> QED BY <1>1, <1>2, <1>3, <1>4, GroupFrame, ApprovalKept

LEMMA DecisionTransitionPreserves ==
    ASSUME IInv, NEW k \in DecisionKeys, DecisionTransition(k) \/ DecisionStoreFails(k),
           UNCHANGED approvedVars
    PROVE  IInv'
  <1> DEFINE p == Decision[k].proposal
             to == Decision[k].status
             code == TransitionCode(DecisionKey(k), p, 1, to)
  <1>1. UNCHANGED <<plan, due, log, grp>> /\ dec[k].pc = "transition"
    BY DEF DecisionTransition, DecisionStoreFails
  <1>2. /\ StoreStep /\ \A q \in Proposals : Calm(q)
        /\ Transition(DecisionKey(k), p, 1, to) /\ code \in {"moved", "replayed"} =>
             /\ StandsNext(p, to) /\ Retained(DecisionKey(k))' # {}
             /\ TransitionResult(DecisionKey(k), p, 1, to) = Told(p, to)
    <2>1. CASE Transition(DecisionKey(k), p, 1, to) BY <2>1, DecisionTransitionStep
    <2>2. CASE ~Transition(DecisionKey(k), p, 1, to)
      BY <2>2, QuietStore DEF IInv, DecisionTransition, DecisionStoreFails
    <2> QED BY <2>1, <2>2
  <1>3. HasNext(CreatedEventId(p)) BY <1>1 DEF IInv, DecisionsOK, Deciding, HasEvent, HasNext
  <1>4. dec \in [DecisionKeys -> DecisionCall] BY DEF IInv, CallsOK
  <1>5. DecisionChange
    <2>1. ASSUME NEW outcome \in DecisionOutcome \ {"accepted"}, Ends(k, outcome) PROVE DecisionChange
      BY <2>1, EndsChange DEF IInv
    <2>2. CASE dec' = [dec EXCEPT ![k].pc = "classify"]
      <3>1. dec' \in [DecisionKeys -> DecisionCall] /\ dec'[k].pc = "classify"
            /\ dec'[k].outcome = dec[k].outcome /\ \A l \in DecisionKeys \ {k} : dec'[l] = dec[l]
        BY <1>4, <2>2 DEF DecisionCall
      <3>2. dec[k].outcome = "accepted" => HasNext(DecisionEventId(k))
        BY <1>1 DEF IInv, DecisionsOK, Deciding, HasEvent, HasNext
      <3>3. DecisionNext(k) BY <1>3, <3>1, <3>2 DEF DecisionNext
      <3> QED BY <3>1, <3>3 DEF DecisionChange
    <2>3. CASE /\ DecisionTransition(k) /\ code \in {"moved", "replayed"}
               /\ dec' = [dec EXCEPT ![k].pc = "append",
                                     ![k].stored = TransitionResult(DecisionKey(k), p, 1, to)]
      <3>1. StandsNext(p, to) /\ Retained(DecisionKey(k))' # {}
            /\ TransitionResult(DecisionKey(k), p, 1, to) = Told(p, to)
        BY <1>2, <2>3 DEF DecisionTransition
      <3>2. p \in Proposals /\ to \in ProposalStatus /\ VersionOf(to) \in Nat
        BY DecisionType, Statuses, Versions
      <3>3. Told(p, to) \in [proposal : Proposals \cup {"none"}, version : Nat,
                             status : ProposalStatus \cup {"absent"}]
        BY <3>2 DEF Told
      <3>4. dec' = [dec EXCEPT ![k] = [@ EXCEPT !.pc = "append", !.stored = Told(p, to)]]
        BY <1>4, <2>3, <3>1
      <3>5. [dec[k] EXCEPT !.pc = "append", !.stored = Told(p, to)] \in DecisionCall
        BY <1>4, <3>3 DEF DecisionCall
      <3>6. dec' \in [DecisionKeys -> DecisionCall] /\ dec'[k].pc = "append" /\ dec'[k].stored = Told(p, to)
            /\ dec'[k].outcome = dec[k].outcome /\ \A l \in DecisionKeys \ {k} : dec'[l] = dec[l]
        BY <1>4, <3>4, <3>5 DEF DecisionCall
      <3>7. dec[k].outcome = "accepted" => HasNext(DecisionEventId(k))
        BY <1>1 DEF IInv, DecisionsOK, Deciding, HasEvent, HasNext
      <3>8. DecisionNext(k) BY <1>3, <3>1, <3>6, <3>7 DEF DecisionNext
      <3> QED BY <3>6, <3>8 DEF DecisionChange
    <2>4. {"not_found", "conflict", "invalid_input", "persistence_failure"} \subseteq DecisionOutcome \ {"accepted"}
      BY DEF DecisionOutcome
    <2>5. CASE DecisionStoreFails(k) BY <2>1, <2>4, <2>5 DEF DecisionStoreFails
    <2>6. CASE DecisionTransition(k) BY <2>1, <2>2, <2>3, <2>4, <2>6 DEF DecisionTransition
    <2> QED BY <2>5, <2>6
  <1>6. due' \subseteq Proposals BY <1>1 DEF IInv, CallsOK
  <1>7. LogGrows /\ NoForeignDecision BY <1>1, QuietLog
  <1> QED BY <1>1, <1>2, <1>5, <1>6, <1>7, GroupFrame, ApprovalKept

LEMMA AppendPreserves ==
    ASSUME IInv, NEW k \in DecisionKeys, AppendDecisionEvent(k) \/ DecisionAppendFails(k),
           UNCHANGED approvedVars
    PROVE  IInv'
  <1> DEFINE id == DecisionEventId(k)
             e == EventOf(id, dec[k].stored)
  <1>1. UNCHANGED <<plan, history, idem, due, grp>> /\ dec[k].pc = "append"
        /\ (log' = log \/ AppendOnce(id, dec[k].stored))
    BY DEF AppendDecisionEvent, DecisionAppendFails
  <1>2. StoreStep /\ \A p \in Proposals : Calm(p) BY <1>1, QuietStore DEF IInv
  <1>3. CASE log' = log
    <2>1. LogGrows /\ NoForeignDecision BY <1>3, QuietLog
    <2>2. AppendDecisionEvent(k) => HasNext(id)
      <3> SUFFICES ASSUME AppendDecisionEvent(k), ~HasEvent(id) PROVE FALSE
        BY <1>3 DEF HasNext, HasEvent
      <3>1. log' = Append(log, e) /\ log \in Seq(LogEvents) BY DEF AppendDecisionEvent, AppendOnce, IInv, LogOK
      <3>2. e \in LogEvents BY <1>1, DecisionFollows DEF IInv
      <3>3. Len(log') = Len(log) + 1 /\ Len(log) \in Nat BY <3>1, <3>2, AppendTo
      <3> QED BY <1>3, <3>3
    <2>3. DecisionChange
      <3>1. {"accepted", "conflict", "persistence_failure"} \subseteq DecisionOutcome BY DEF DecisionOutcome
      <3> QED BY <2>2, <3>1, EndsChange DEF IInv, AppendDecisionEvent, DecisionAppendFails
    <2> QED BY <1>1, <1>2, <2>1, <2>3, GroupFrame, ApprovalKept DEF IInv, CallsOK
  <1>4. CASE log' # log
    <2>1. ~HasEvent(id) /\ log' = Append(log, e) BY <1>1, <1>4 DEF AppendOnce
    <2>2. e \in LogEvents /\ Follows(e) BY <1>1, <2>1, DecisionFollows DEF IInv
    <2>3. LogGrows BY <2>1, <2>2 DEF LogGrows
    <2>4. e.id = id BY DEF EventOf
    <2> HIDE DEF e
    <2>5. /\ log'[Len(log) + 1] = e /\ Len(log) + 1 \in DOMAIN log'
          /\ \A i \in DOMAIN log' : i = Len(log) + 1 \/ (i \in DOMAIN log /\ log'[i] = log[i])
      BY <2>1, <2>2, AppendTo DEF IInv, LogOK
    <2>6. HasNext(id) BY <2>4, <2>5 DEF HasNext
    <2>7. NoForeignDecision
      <3> SUFFICES ASSUME NEW l \in DecisionKeys, NEW i \in DOMAIN log', log'[i].id = DecisionEventId(l)
                   PROVE  HasEvent(DecisionEventId(l)) \/ dec[l].pc = "append"
        BY DEF NoForeignDecision, HasNext
      <3>1. CASE i = Len(log) + 1
        <4>1. DecisionEventId(l) = DecisionEventId(k) BY <2>4, <2>5, <3>1
        <4>2. l = k BY <4>1, EventIds
        <4> QED BY <1>1, <4>2
      <3>2. CASE i # Len(log) + 1 BY <2>5, <3>2 DEF HasEvent
      <3> QED BY <3>1, <3>2
    <2>8. DecisionChange
      <3>1. {"accepted", "conflict", "persistence_failure"} \subseteq DecisionOutcome BY DEF DecisionOutcome
      <3> QED BY <2>6, <3>1, EndsChange DEF IInv, AppendDecisionEvent, DecisionAppendFails
    <2> QED BY <1>1, <1>2, <2>3, <2>7, <2>8, GroupFrame, ApprovalKept DEF IInv, CallsOK
  <1> QED BY <1>3, <1>4

LEMMA EndPreserves ==
    ASSUME IInv, NEW k \in DecisionKeys,
           DecisionDenied(k) \/ DecisionCrash(k) \/ ClassifyCurrentProposal(k), UNCHANGED approvedVars
    PROVE  IInv'
  <1>1. UNCHANGED <<plan, idem, due, log, grp>>
    BY DEF DecisionDenied, DecisionCrash, ClassifyCurrentProposal
  <1>2. StoreStep /\ \A p \in Proposals : Calm(p)
    <2>1. CASE history' = history BY <1>1, <2>1, QuietStore DEF IInv
    <2>2. CASE ExpireIfDue({Decision[k].proposal})
      <3>1. {Decision[k].proposal} \in SUBSET Proposals BY DecisionType
      <3> QED BY <1>1, <2>2, <3>1, Expiry DEF IInv, StoreOK, StoreStep
    <2> QED BY <2>1, <2>2 DEF DecisionDenied, DecisionCrash, ClassifyCurrentProposal
  <1>3. DecisionChange
    <2>1. {"forbidden", "cancelled", "lost", "expired", "conflict", "already_decided"} \subseteq DecisionOutcome
      BY DEF DecisionOutcome
    <2>2. PICK outcome \in {"forbidden", "cancelled", "lost", "expired", "conflict", "already_decided"} :
             Ends(k, outcome)
      BY DEF DecisionDenied, DecisionCrash, ClassifyCurrentProposal
    <2> QED BY <2>1, <2>2, EndsChange DEF IInv
  <1>4. LogGrows /\ NoForeignDecision BY <1>1, QuietLog
  <1> QED BY <1>1, <1>2, <1>3, <1>4, GroupFrame, ApprovalKept DEF IInv, CallsOK

LEMMA GroupPreserves ==
    ASSUME IInv, DecideGroup \/ GroupListFails \/ GroupStep, UNCHANGED approvedVars
    PROVE  IInv'
  <1>1. UNCHANGED <<plan, idem, due, log>> BY DEF DecideGroup, GroupListFails, GroupStep
  <1>2. LogGrows /\ NoForeignDecision BY <1>1, QuietLog
  <1>3. due' \subseteq Proposals BY <1>1 DEF IInv, CallsOK
  <1>4. grp \in GroupCall /\ plan \in Plans /\ dec \in [DecisionKeys -> DecisionCall]
    BY DEF IInv, CallsOK
  <1>5. plan.group \in Seq(DecisionKeys) BY <1>4, ApprovalsAssumption
  <1>6. GroupCall' = GroupCall BY <1>1 DEF GroupCall
  <1>7. CASE GroupListFails
    <2>1. StoreStep /\ \A p \in Proposals : Calm(p) BY <1>1, <1>7, QuietStore DEF IInv, GroupListFails
    <2>2. DecisionChange BY <1>4, <1>7 DEF DecisionChange, GroupListFails
    <2>3. grp' = [pc |-> "end", at |-> 0, outcome |-> "persistence_failure"] BY <1>7 DEF GroupListFails
    <2>4. grp' \in GroupCall' BY <1>5, <1>6, <2>3 DEF GroupCall
    <2>5. GroupKnown' BY <2>3 DEF GroupKnown
    <2> QED BY <1>1, <1>2, <1>3, <2>1, <2>2, <2>4, <2>5, ApprovalKept
  <1>8. CASE DecideGroup
    <2>1. StoreStep /\ \A p \in Proposals : Calm(p)
      BY <1>1, <1>8, Expiry DEF DecideGroup, IInv, StoreOK, StoreStep
    <2>2. DecisionChange BY <1>4, <1>8 DEF DecisionChange, DecideGroup
    <2>3. 0 \in 0..Len(plan.group) BY <1>5
    <2>4. grp' \in GroupCall' BY <1>6, <1>8, <2>3 DEF GroupCall, DecideGroup
    <2>5. GroupKnown'
      <3> SUFFICES ASSUME grp'.pc = "run", NEW i \in DOMAIN plan.group
                   PROVE  HasEvent(CreatedEventId(Decision[plan.group[i]].proposal))
        BY <1>1 DEF GroupKnown, HasEvent, CreatedEventId
      <3>1. {Decision[plan.group[j]].proposal : j \in DOMAIN plan.group} = {p \in Proposals : history[p] # <<>>}
        BY <1>8 DEF DecideGroup
      <3>2. Decision[plan.group[i]].proposal \in {p \in Proposals : history[p] # <<>>} BY <3>1
      <3> QED BY <1>8, <3>2 DEF DecideGroup
    <2> QED BY <1>1, <1>2, <1>3, <2>1, <2>2, <2>4, <2>5, ApprovalKept
  <1>9. CASE GroupStep
    <2>1. StoreStep /\ \A p \in Proposals : Calm(p) BY <1>1, <1>9, QuietStore DEF IInv, GroupStep
    <2> DEFINE next == plan.group[grp.at + 1]
    <2>2. CASE grp.at < Len(plan.group) /\ grp' = [grp EXCEPT !.at = @ + 1]
               /\ dec' = [dec EXCEPT ![next].pc = "transition"]
      <3>1. grp.at \in 0..Len(plan.group) /\ grp.pc = "run" BY <1>4, <1>9 DEF GroupCall, GroupStep
      <3>2. grp.at + 1 \in DOMAIN plan.group /\ grp.at + 1 \in 0..Len(plan.group) BY <1>5, <2>2, <3>1
      <3>3. grp' \in GroupCall' BY <1>4, <1>6, <2>2, <3>2 DEF GroupCall
      <3>4. next \in DecisionKeys BY <1>5, <3>2
      <3>5. HasEvent(CreatedEventId(Decision[next].proposal)) BY <3>1, <3>2 DEF IInv, GroupKnown
      <3>6. GroupKnown' BY <1>1, <3>1 DEF IInv, GroupKnown, HasEvent, CreatedEventId
      <3>7. PICK k \in DecisionKeys : k = next BY <3>4
      <3> HIDE DEF next
      <3>8. /\ dec' \in [DecisionKeys -> DecisionCall] /\ dec'[k].pc = "transition"
            /\ dec'[k].outcome = dec[k].outcome /\ \A l \in DecisionKeys \ {k} : dec'[l] = dec[l]
        BY <1>4, <2>2, <3>7 DEF DecisionCall
      <3>9. HasNext(CreatedEventId(Decision[k].proposal)) BY <1>1, <3>5, <3>7 DEF HasEvent, HasNext
      <3>10. dec[k].outcome = "accepted" => HasNext(DecisionEventId(k))
        BY <1>1 DEF IInv, DecisionsOK, Deciding, HasEvent, HasNext
      <3>11. DecisionNext(k) BY <3>8, <3>9, <3>10 DEF DecisionNext
      <3>12. DecisionChange BY <3>8, <3>11 DEF DecisionChange
      <3> QED BY <1>1, <1>2, <1>3, <2>1, <3>3, <3>6, <3>12, ApprovalKept
    <2>3. CASE dec' = dec /\ \E outcome \in {"completed", "partial"} :
                                grp' = [grp EXCEPT !.pc = "end", !.outcome = outcome]
      <3>1. DecisionChange BY <1>4, <2>3 DEF DecisionChange
      <3>2. grp' \in GroupCall' /\ grp'.pc = "end" BY <1>4, <1>6, <2>3 DEF GroupCall
      <3>3. GroupKnown' BY <3>2 DEF GroupKnown
      <3> QED BY <1>1, <1>2, <1>3, <2>1, <3>1, <3>2, <3>3, ApprovalKept
    <2> QED BY <1>9, <2>2, <2>3 DEF GroupStep
  <1> QED BY <1>7, <1>8, <1>9

LEMMA LapsePreserves ==
    ASSUME IInv, NEW p \in Proposals, Lapse(p), UNCHANGED approvedVars
    PROVE  IInv'
  <1>1. UNCHANGED <<plan, history, idem, log, dec, grp>> /\ due' \subseteq Proposals
    BY DEF Lapse, IInv, CallsOK
  <1>2. StoreStep /\ (\A q \in Proposals : Calm(q)) /\ LogGrows /\ NoForeignDecision
    BY <1>1, QuietStore, QuietLog DEF IInv
  <1>3. DecisionChange BY <1>1 DEF DecisionChange, IInv, CallsOK
  <1> QED BY <1>1, <1>2, <1>3, GroupFrame, ApprovalKept

------------------------------------------------
\* The steps of a worker.

LEMMA CallType ==
    ASSUME IInv, NEW w \in ToolWorkers, w \in DOMAIN plan.call \/ wrk[w].pc # "idle"
    PROVE  w \in DOMAIN plan.call /\ CallOf(w) \in Proposals /\ wrk[w] \in Worker /\ WorkerSound(w)
  <1>1. WorkerSound(w) /\ plan \in Plans /\ wrk[w] \in Worker BY DEF IInv, Workers, CallsOK
  <1>2. w \in DOMAIN plan.call BY <1>1 DEF WorkerSound
  <1> QED BY <1>1, <1>2, ToolPlansAssumption DEF CallOf

\* A step that leaves the ledger alone.
LEMMA QuietWorker ==
    ASSUME IInv, StoreStep, LogGrows, NEW w \in ToolWorkers, NEW p \in Proposals, NEW me \in Worker,
           wrk' = [wrk EXCEPT ![w] = me], WorkerNext(p, me), KeepTools, \A q \in Proposals : Calm(q),
           me.pc \in Owning => wrk[w].pc \in Owning
    PROVE  WorkerChange(w, p, me)
  <1>1. Remembered /\ HistoryOK /\ HistoryGrows BY LogRemembers DEF IInv, LogOK, StoreOK, StoreStep
  <1>2. \A q \in Proposals : Undisturbed(q) BY DEF Undisturbed, KeepTools
  <1>3. LedgerNext(p) BY <1>1, <1>2, LedgerFrame DEF IInv
  <1>4. ToolTypes' BY DEF ToolTypes, KeepTools, IInv, CallsOK
  <1> QED BY <1>2, <1>3, <1>4 DEF WorkerChange, KeepTools

Results == {"none", "success", "error", "approval_required", "conflict"}
Ended(me, result) == [me EXCEPT !.pc = "end", !.result = IF @ = "none" THEN result ELSE @]
LEMMA EndedNext ==
    ASSUME NEW me \in Worker, NEW result \in Results, NEW p,
           me.result = "success" => ledger'[p] = "success", result = "success" => ledger'[p] = "success"
    PROVE  Ended(me, result) \in Worker /\ WorkerNext(p, Ended(me, result)) /\ Ended(me, result).pc = "end"
  <1> DEFINE new == Ended(me, result)
  <1>1. new \in Worker BY DEF Worker, Ended, Results, WorkerPc
  <1>2. new.pc = "end" /\ new.result = (IF me.result = "none" THEN result ELSE me.result)
    BY DEF Ended, Worker
  <1> HIDE DEF new
  <1>3. WorkerNext(p, new) BY <1>2 DEF WorkerNext, Owning, Claiming
  <1> QED BY <1>1, <1>2, <1>3 DEF new

\* The worker returns without having run anything.
LEMMA ReturnPreserves ==
    ASSUME IInv, StoreStep, LogGrows, NoForeignDecision, UNCHANGED <<plan, due, dec, grp>>, KeepTools,
           \A q \in Proposals : Calm(q), NEW w \in ToolWorkers, w \in DOMAIN plan.call,
           NEW result \in Results, result = "success" => ledger[CallOf(w)] = "success", Returns(w, result)
    PROVE  IInv'
  <1>1. CallOf(w) \in Proposals /\ wrk[w] \in Worker /\ WorkerSound(w) BY CallType
  <1>2. PICK p \in Proposals : p = CallOf(w) BY <1>1
  <1> DEFINE me == Ended(wrk[w], result)
  <1>3. wrk \in [ToolWorkers -> Worker] BY DEF IInv, CallsOK
  <1>4. wrk' = [wrk EXCEPT ![w] = me] BY <1>3 DEF Returns, Ended
  <1>5. wrk[w].result = "success" => ledger[p] = "success" BY <1>1, <1>2 DEF WorkerSound
  <1>6. me \in Worker /\ WorkerNext(p, me) /\ me.pc = "end" BY <1>1, <1>2, <1>5, EndedNext DEF KeepTools
  <1> HIDE DEF me
  <1>7. WorkerChange(w, p, me) BY <1>4, <1>6, QuietWorker DEF Owning
  <1> QED BY <1>2, <1>7, WorkerKept

LEMMA CreateStep ==
    ASSUME StoreOK, NEW p \in Proposals, NEW w \in ToolWorkers, CreateProposal(p, w)
    PROVE  /\ StoreStep /\ \A q \in Proposals : Calm(q)
           /\ CreateCode(p, w) # "idempotency_conflict" => StandsNext(p, "pending")
  <1>1. HistoryOK /\ idem \in Seq(KeptRecords) /\ history \in [Proposals -> Seq(ProposalStatus)]
    BY DEF StoreOK, HistoryOK
  <1>2. CASE CreateCode(p, w) = "moved"
    <2>1. history[p] = <<>> BY <1>2 DEF CreateCode
    <2>2. /\ history' = [history EXCEPT ![p] = <<"pending">>]
          /\ idem' = RetainIdempotency(CreateKey(p), w, [proposal |-> p, version |-> 1, status |-> "pending"])
      BY <1>2 DEF CreateProposal
    <2>3. [proposal |-> p, version |-> 1, status |-> "pending"] = Told(p, "pending") BY Versions DEF Told
    <2> DEFINE R == CreateRecord(p, w)
    <2>4. R \in KeptRecords /\ R = [key |-> CreateKey(p), request |-> w, result |-> Told(p, "pending")]
      BY DEF KeptRecords, CreateRecord
    <2>5. IdemGrows(R) BY <1>1, <2>2, <2>3, <2>4, Retention
    <2>6. history'[p] = <<"pending">> /\ \A q \in Proposals \ {p} : history'[q] = history[q] BY <1>1, <2>2
    <2>7. <<"pending">> \in Seq(ProposalStatus) /\ <<"pending">> = Append(<<>>, "pending")
      BY Statuses
    <2>8. history' \in [Proposals -> Seq(ProposalStatus)] BY <1>1, <2>2, <2>7
    <2>9. Extends(p) BY <2>1, <2>6, <2>7, Versions, Statuses DEF Extends
    <2>10. HistoryGrows BY <2>6, <2>8, <2>9 DEF HistoryGrows
    <2>11. StandsNext(p, "pending") BY <2>6, Versions DEF StandsNext
    <2>12. NewRecord
      <3>1. R.result.proposal = p /\ R.result.status = "pending" BY <2>4 DEF Told
      <3>2. \A k \in DecisionKeys : R # DecisionRecord(k)
        <4> SUFFICES ASSUME NEW k \in DecisionKeys, R = DecisionRecord(k) PROVE FALSE OBVIOUS
        <4>1. R.key = CreateKey(p) /\ DecisionRecord(k).key = DecisionKey(k) BY <2>4 DEF DecisionRecord
        <4> QED BY <4>1, Keys
      <3>3. StandsNext(R.result.proposal, R.result.status) BY <2>11, <3>1
      <3> QED BY <2>4, <2>5, <3>2, <3>3 DEF NewRecord
    <2>13. Version(p) = 0 BY <1>1, <2>1, HistoryLength
    <2>14. \A q \in Proposals : Calm(q) BY <2>6, <2>13 DEF Calm
    <2> QED BY <2>10, <2>11, <2>12, <2>14 DEF StoreStep
  <1>3. CASE CreateCode(p, w) # "moved"
    <2>1. history' = history /\ idem' = idem BY <1>3 DEF CreateProposal
    <2>2. StoreStep /\ \A q \in Proposals : Calm(q) BY <2>1, QuietStore
    <2>3. ASSUME CreateCode(p, w) # "idempotency_conflict" PROVE StandsNext(p, "pending")
      <3>1. PICK r \in Retained(CreateKey(p)) : TRUE BY <1>3, <2>3 DEF CreateCode
      <3>2. PICK i \in DOMAIN idem : r = idem[i] /\ idem[i].key = CreateKey(p) BY RetainedIs
      <3>3. idem[i].result = Told(p, "pending") BY <1>1, <3>2, KeptByKey
      <3>4. Stands(idem[i].result.proposal, idem[i].result.status) BY DEF StoreOK, KeptStands
      <3>5. Stands(p, "pending") BY <3>3, <3>4 DEF Told
      <3> QED BY <2>1, <3>5 DEF Stands, StandsNext
    <2> QED BY <2>2, <2>3
  <1> QED BY <1>2, <1>3

\* Reading a proposal that exists.
LEMMA SeenStep ==
    ASSUME HistoryOK, NEW p \in Proposals, Stands(p, "pending"), ExpireIfDue({p})
    PROVE  /\ SeenBy(p).status \in ProposalStatus /\ StandsNext(p, SeenBy(p).status)
           /\ SeenBy(p).version = VersionOf(SeenBy(p).status)
           /\ SeenBy(p) \in [proposal : Proposals \cup {"none"}, version : Nat,
                             status : ProposalStatus \cup {"absent"}]
  <1>1. history[p] # <<>> /\ Version(p) \in Nat
    <2>1. Len(history[p]) >= 1 BY Versions DEF Stands
    <2> QED BY <2>1, HistoryLength
  <1>2. Status(p) \in ProposalStatus /\ Version(p) = VersionOf(Status(p)) /\ Stands(p, Status(p))
    BY <1>1, StatusStands
  <1>3. {p} \in SUBSET Proposals OBVIOUS
  <1>4. HistoryGrows BY <1>3, Expiry
  <1>5. CASE IsLapsed(p)
    <2>1. Version(p) = 1 BY <1>2, <1>5, Versions DEF IsLapsed
    <2>2. SeenBy(p) = [proposal |-> p, version |-> 2, status |-> "expired"] BY <1>5, <2>1 DEF SeenBy
    <2>3. history'[p] = Append(history[p], "expired") BY <1>5 DEF ExpireIfDue
    <2>4. history[p] \in Seq(ProposalStatus) /\ Len(history[p]) = 1 BY <2>1, HistoryLength DEF Version
    <2>5. Len(history'[p]) = 2 /\ history'[p][2] = "expired" BY <2>3, <2>4
    <2>6. VersionOf("expired") = 2 /\ "expired" \in ProposalStatus BY Versions, Statuses
    <2>7. StandsNext(p, "expired") BY <2>5, <2>6 DEF StandsNext
    <2> QED BY <2>2, <2>6, <2>7
  <1>6. CASE ~IsLapsed(p)
    <2>1. SeenBy(p) = [proposal |-> p, version |-> Version(p), status |-> Status(p)]
      BY <1>6 DEF SeenBy, Record
    <2>2. StandsNext(p, Status(p)) BY <1>2, <1>4, Growth DEF Lasting
    <2> QED BY <1>1, <1>2, <2>1, <2>2
  <1> QED BY <1>5, <1>6

\* The worker goes to another step and leaves the ledger alone.
LEMMA MovePreserves ==
    ASSUME IInv, StoreStep, LogGrows, NoForeignDecision, UNCHANGED <<plan, due, dec, grp>>, KeepTools,
           \A q \in Proposals : Calm(q), NEW w \in ToolWorkers, w \in DOMAIN plan.call,
           NEW me \in Worker, WorkerNext(CallOf(w), me), wrk' = [wrk EXCEPT ![w] = me],
           me.pc \in Owning => wrk[w].pc \in Owning
    PROVE  IInv'
  <1>1. CallOf(w) \in Proposals BY CallType
  <1>2. PICK p \in Proposals : p = CallOf(w) BY <1>1
  <1>3. WorkerChange(w, p, me) BY <1>2, QuietWorker
  <1> QED BY <1>2, <1>3, WorkerKept

\* Worker w in an earlier state of the call still fits after a quiet step.
LEMMA SuccessFrame ==
    ASSUME IInv, NEW w \in ToolWorkers, KeepTools
    PROVE  wrk[w].result = "success" => ledger'[CallOf(w)] = "success"
  BY DEF IInv, Workers, WorkerSound, KeepTools

LEMMA AwaitApprovalPreserves ==
    ASSUME IInv, NEW w \in ToolWorkers, AwaitApproval(w)
    PROVE  IInv'
  <1> DEFINE p == CallOf(w)
             me == [wrk[w] EXCEPT !.pc = "record"]
  <1>1. /\ w \in DOMAIN plan.call /\ CreateProposal(p, w) /\ KeepTools
        /\ UNCHANGED <<plan, due, log, dec, grp>>
    BY DEF AwaitApproval
  <1>2. p \in Proposals /\ wrk[w] \in Worker BY <1>1, CallType
  <1>3. StoreStep /\ (\A q \in Proposals : Calm(q))
        /\ (CreateCode(p, w) # "idempotency_conflict" => StandsNext(p, "pending"))
    BY <1>1, <1>2, CreateStep DEF IInv
  <1>4. LogGrows /\ NoForeignDecision BY <1>1, QuietLog
  <1>5. CASE CreateCode(p, w) = "idempotency_conflict"
    <2>1. Returns(w, "conflict") BY <1>5 DEF AwaitApproval
    <2> QED BY <1>1, <1>3, <1>4, <2>1, ReturnPreserves DEF Results
  <1>6. CASE CreateCode(p, w) # "idempotency_conflict"
    <2>1. wrk' = [wrk EXCEPT ![w] = me] BY <1>6 DEF AwaitApproval, Goes
    <2>2. me \in Worker /\ me.pc = "record" /\ me.result = wrk[w].result BY <1>2 DEF Worker, WorkerPc
    <2>3. wrk[w].result = "success" => ledger'[p] = "success" BY <1>1, SuccessFrame
    <2> HIDE DEF me
    <2>4. WorkerNext(p, me) BY <1>3, <1>6, <2>2, <2>3 DEF WorkerNext, Owning, Claiming
    <2> QED BY <1>1, <1>3, <1>4, <2>1, <2>2, <2>4, MovePreserves DEF Owning
  <1> QED BY <1>5, <1>6

LEMMA NoDecisionEvent ==
    ASSUME log \in Seq(LogEvents), NEW e \in LogEvents, log' = Append(log, e),
           \A k : e.id # DecisionEventId(k)
    PROVE  NoForeignDecision /\ HasNext(e.id)
  <1>1. /\ log'[Len(log) + 1] = e /\ Len(log) + 1 \in DOMAIN log'
        /\ \A i \in DOMAIN log' : i = Len(log) + 1 \/ (i \in DOMAIN log /\ log'[i] = log[i])
    BY AppendTo
  <1> QED BY <1>1 DEF NoForeignDecision, HasNext, HasEvent

LEMMA RecordProposalCreatedPreserves ==
    ASSUME IInv, NEW w \in ToolWorkers, RecordProposalCreated(w)
    PROVE  IInv'
  <1> DEFINE p == CallOf(w)
             me == [wrk[w] EXCEPT !.pc = "poll"]
             rec == [proposal |-> p, version |-> 1, status |-> "pending"]
             e == EventOf(CreatedEventId(p), rec)
  <1>1. /\ wrk[w].pc = "record" /\ KeepTools /\ AppendOnce(CreatedEventId(p), rec)
        /\ UNCHANGED <<plan, history, idem, due, dec, grp>>
    BY DEF RecordProposalCreated
  <1>2. p \in Proposals /\ wrk[w] \in Worker /\ w \in DOMAIN plan.call /\ Stands(p, "pending")
    BY <1>1, CallType DEF WorkerSound
  <1>3. StoreStep /\ \A q \in Proposals : Calm(q) BY <1>1, QuietStore DEF IInv
  <1>4. CASE HasEvent(CreatedEventId(p))
    <2>1. log' = log /\ Returns(w, "conflict") BY <1>1, <1>4 DEF RecordProposalCreated, AppendOnce
    <2>2. LogGrows /\ NoForeignDecision BY <2>1, QuietLog
    <2> QED BY <1>1, <1>2, <1>3, <2>1, <2>2, ReturnPreserves DEF Results
  <1>5. CASE ~HasEvent(CreatedEventId(p))
    <2>1. log' = Append(log, e) /\ wrk' = [wrk EXCEPT ![w] = me]
      BY <1>1, <1>5 DEF RecordProposalCreated, AppendOnce, Goes
    <2>2. rec = Told(p, "pending") BY Versions DEF Told
    <2>3. e \in LogEvents /\ Follows(e) BY <1>2, <1>5, <2>2, CreatedFollows DEF IInv
    <2>4. LogGrows BY <2>1, <2>3 DEF LogGrows
    <2>5. e.id = CreatedEventId(p) BY DEF EventOf
    <2>6. NoForeignDecision BY <2>1, <2>3, <2>5, EventIds, NoDecisionEvent DEF IInv, LogOK
    <2>7. me \in Worker /\ me.pc = "poll" /\ me.result = wrk[w].result BY <1>2 DEF Worker, WorkerPc
    <2>8. wrk[w].result = "success" => ledger'[p] = "success" BY <1>1, SuccessFrame
    <2>9. StandsNext(p, "pending") BY <1>1, <1>2 DEF Stands, StandsNext
    <2> HIDE DEF me
    <2>10. WorkerNext(p, me) BY <2>7, <2>8, <2>9 DEF WorkerNext, Owning, Claiming
    <2> QED BY <1>1, <1>2, <1>3, <2>1, <2>4, <2>6, <2>7, <2>10, MovePreserves DEF Owning
  <1> QED BY <1>4, <1>5

LEMMA PollPreserves ==
    ASSUME IInv, NEW w \in ToolWorkers, Poll(w)
    PROVE  IInv'
  <1> DEFINE p == CallOf(w)
             me == [wrk[w] EXCEPT !.pc = "get", !.expected = 2]
  <1>1. wrk[w].pc = "poll" /\ ExpireIfDue({p}) /\ KeepTools /\ UNCHANGED <<plan, idem, due, log, dec, grp>>
    BY DEF Poll
  <1>2. p \in Proposals /\ wrk[w] \in Worker /\ w \in DOMAIN plan.call /\ Stands(p, "pending")
    BY <1>1, CallType DEF WorkerSound
  <1>3. PICK q \in Proposals : q = p BY <1>2
  <1>4. {q} \in SUBSET Proposals /\ HistoryOK BY DEF IInv, StoreOK
  <1>5. StoreStep /\ \A r \in Proposals : Calm(r) BY <1>1, <1>3, <1>4, Expiry DEF StoreStep
  <1>6. LogGrows /\ NoForeignDecision BY <1>1, QuietLog
  <1>7. SeenBy(q).status \in ProposalStatus /\ SeenBy(q).version = VersionOf(SeenBy(q).status)
    BY <1>1, <1>2, <1>3, <1>4, SeenStep
  <1>8. CASE Returns(w, "error") BY <1>1, <1>2, <1>5, <1>6, <1>8, ReturnPreserves DEF Results
  <1>9. CASE ~Returns(w, "error")
    <2>1. wrk' = [wrk EXCEPT ![w].pc = "get", ![w].expected = 2]
      <3>1. SeenBy(q).status = "confirmed" => SeenBy(q).version = 2 BY <1>7, Versions, Statuses
      <3> QED BY <1>3, <1>9, <3>1 DEF Poll
    <2>2. wrk' = [wrk EXCEPT ![w] = me] BY <2>1
    <2>3. /\ me \in Worker /\ me.pc = "get" /\ me.expected = 2 /\ me.result = wrk[w].result
      BY <1>2 DEF Worker, WorkerPc
    <2>4. wrk[w].result = "success" => ledger'[p] = "success" BY <1>1, SuccessFrame
    <2>5. Lasting(p) BY <1>2, <1>4, <1>5, Growth DEF StoreStep
    <2>6. StandsNext(p, "pending") BY <1>2, <2>5, Statuses DEF Lasting
    <2> HIDE DEF me
    <2>7. WorkerNext(p, me) BY <2>3, <2>4, <2>6 DEF WorkerNext, Owning, Claiming
    <2> QED BY <1>1, <1>2, <1>5, <1>6, <2>2, <2>3, <2>7, MovePreserves DEF Owning
  <1> QED BY <1>8, <1>9

LEMMA ResumeCallPreserves ==
    ASSUME IInv, NEW w \in ToolWorkers, ResumeCall(w)
    PROVE  IInv'
  <1> DEFINE p == CallOf(w)
             me == [wrk[w] EXCEPT !.pc = "get", !.expected = 2]
  <1>1. w \in DOMAIN plan.call /\ history[p] # <<>> /\ KeepTools /\ KeepApprovals BY DEF ResumeCall
  <1>2. p \in Proposals /\ wrk[w] \in Worker BY <1>1, CallType
  <1>3. StoreStep /\ (\A q \in Proposals : Calm(q)) /\ LogGrows /\ NoForeignDecision
    BY <1>1, QuietStore, QuietLog DEF IInv, KeepApprovals
  <1>4. CASE Returns(w, "approval_required")
    BY <1>1, <1>3, <1>4, ReturnPreserves DEF Results, KeepApprovals
  <1>5. CASE wrk' = [wrk EXCEPT ![w].pc = "get", ![w].expected = 2]
    <2>1. wrk' = [wrk EXCEPT ![w] = me] BY <1>5
    <2>2. /\ me \in Worker /\ me.pc = "get" /\ me.expected = 2 /\ me.result = wrk[w].result
      BY <1>2 DEF Worker, WorkerPc
    <2>3. wrk[w].result = "success" => ledger'[p] = "success" BY <1>1, SuccessFrame
    <2>4. Stands(p, "pending")
      <3>1. HistoryOK BY DEF IInv, StoreOK
      <3>2. Status(p) \in ProposalStatus /\ Stands(p, Status(p)) BY <1>1, <1>2, <3>1, StatusStands
      <3>3. Len(history[p]) >= 1 => history[p][1] = "pending" BY <1>2, <3>1 DEF HistoryOK, Shape
      <3>4. Len(history[p]) >= 1 BY <3>2, Versions DEF Stands
      <3> QED BY <3>3, <3>4, Versions DEF Stands
    <2>5. StandsNext(p, "pending") BY <1>1, <2>4 DEF Stands, StandsNext, KeepApprovals
    <2> HIDE DEF me
    <2>6. WorkerNext(p, me) BY <2>2, <2>3, <2>5 DEF WorkerNext, Owning, Claiming
    <2> QED BY <1>1, <1>3, <2>1, <2>2, <2>6, MovePreserves DEF Owning, KeepApprovals
  <1> QED BY <1>4, <1>5 DEF ResumeCall

\* What worker w knows still holds after the step.
LEMMA WorkerFrame ==
    ASSUME IInv, StoreStep, LogGrows, NEW w \in ToolWorkers, w \in DOMAIN plan.call,
           NEW p \in Proposals, p = CallOf(w), wrk[w].pc \in Owning => Undisturbed(p),
           ledger[p] = "success" => ledger'[p] = "success"
    PROVE  WorkerNext(p, wrk[w])
  <1> DEFINE me == wrk[w]
  <1>1. Remembered /\ HistoryOK /\ HistoryGrows /\ WorkerSound(w)
    BY LogRemembers DEF IInv, LogOK, StoreOK, StoreStep, Workers
  <1>2. \A s \in ProposalStatus : Stands(p, s) => StandsNext(p, s) BY <1>1, Growth DEF Lasting
  <1>3. (\A id : HasEvent(id) => HasNext(id)) /\ (Confirmed(p, 2) => ConfirmedNext(p))
    BY <1>1 DEF Remembered
  <1>4. me.pc \in Owning => Undisturbed(p) /\ (Version(p) = 3 => Len(history'[p]) = 3)
    BY <1>1, CalmVersion DEF Undisturbed
  <1>5. me.pc \in {"transition", "append"} => ClaimOf(me) \in ProposalStatus
    BY <1>1, Statuses DEF WorkerSound, ClaimOf
  <1>6. {"start", "acquire", "invoke", "settle", "settleAppend", "save"} = Owning BY DEF Owning
  <1> QED BY <1>1, <1>2, <1>3, <1>4, <1>5, <1>6, Statuses DEF WorkerNext, WorkerSound, Undisturbed

LEMMA ClaimGetPreserves ==
    ASSUME IInv, NEW w \in ToolWorkers, ClaimGet(w)
    PROVE  IInv'
  <1> DEFINE me == [wrk[w] EXCEPT !.pc = "audit", !.seen = SeenBy(CallOf(w))]
  <1>1. /\ wrk[w].pc = "get" /\ ExpireIfDue({CallOf(w)}) /\ KeepTools
        /\ UNCHANGED <<plan, idem, due, log, dec, grp>>
    BY DEF ClaimGet
  <1>2. CallOf(w) \in Proposals /\ wrk[w] \in Worker /\ w \in DOMAIN plan.call /\ Stands(CallOf(w), "pending")
    BY <1>1, CallType DEF WorkerSound, Claiming
  <1>3. PICK p \in Proposals : p = CallOf(w) BY <1>2
  <1>4. {p} \in SUBSET Proposals /\ HistoryOK BY DEF IInv, StoreOK
  <1>5. StoreStep /\ \A r \in Proposals : Calm(r) BY <1>1, <1>3, <1>4, Expiry DEF StoreStep
  <1>6. LogGrows /\ NoForeignDecision BY <1>1, QuietLog
  <1>7. /\ SeenBy(p).status \in ProposalStatus /\ StandsNext(p, SeenBy(p).status)
        /\ SeenBy(p) \in [proposal : Proposals \cup {"none"}, version : Nat,
                          status : ProposalStatus \cup {"absent"}]
    BY <1>1, <1>2, <1>3, <1>4, SeenStep
  <1>8. CASE Returns(w, "error") BY <1>1, <1>2, <1>5, <1>6, <1>8, ReturnPreserves DEF Results
  <1>9. CASE wrk' = [wrk EXCEPT ![w].pc = "audit", ![w].seen = SeenBy(CallOf(w))]
    <2>1. wrk' = [wrk EXCEPT ![w] = me] BY <1>9
    <2>2. /\ me.pc = "audit" /\ me.seen = SeenBy(p) /\ me.result = wrk[w].result
          /\ me.expected = wrk[w].expected
      BY <1>2, <1>3 DEF Worker
    <2>3. me \in Worker BY <1>2, <1>3, <1>7 DEF Worker, WorkerPc
    <2>4. WorkerNext(p, wrk[w]) BY <1>1, <1>2, <1>3, <1>5, <1>6, WorkerFrame DEF Owning, KeepTools
    <2> HIDE DEF me
    <2>5. WorkerNext(p, me) BY <1>1, <1>7, <2>2, <2>4 DEF WorkerNext, Owning, Claiming
    <2> QED BY <1>1, <1>2, <1>3, <1>5, <1>6, <2>1, <2>2, <2>3, <2>5, MovePreserves DEF Owning
  <1> QED BY <1>8, <1>9 DEF ClaimGet

LEMMA ClaimAuditPreserves ==
    ASSUME IInv, NEW w \in ToolWorkers, ClaimAudit(w)
    PROVE  IInv'
  <1> DEFINE me == [wrk[w] EXCEPT !.pc = "transition", !.repair = wrk[w].seen.status # "confirmed"]
  <1>1. wrk[w].pc = "audit" /\ KeepTools /\ KeepApprovals BY DEF ClaimAudit
  <1>2. /\ CallOf(w) \in Proposals /\ wrk[w] \in Worker /\ w \in DOMAIN plan.call
        /\ wrk[w].expected = 2
    BY <1>1, CallType DEF WorkerSound, Claiming
  <1>3. PICK p \in Proposals : p = CallOf(w) BY <1>2
  <1>4. StoreStep /\ (\A q \in Proposals : Calm(q)) /\ LogGrows /\ NoForeignDecision
    BY <1>1, QuietStore, QuietLog DEF IInv, KeepApprovals
  <1>5. ASSUME NEW result \in Results, result # "success", Returns(w, result) PROVE IInv'
    BY <1>1, <1>2, <1>4, <1>5, ReturnPreserves DEF KeepApprovals
  <1>6. CASE HasExactConfirmation(w)
             /\ wrk' = [wrk EXCEPT ![w].pc = "transition", ![w].repair = wrk[w].seen.status # "confirmed"]
             /\ (wrk[w].seen.status = "confirmed" \/ MissingAudit(w))
    <2>1. wrk' = [wrk EXCEPT ![w] = me] BY <1>6
    <2>2. /\ me.pc = "transition" /\ me.seen = wrk[w].seen /\ me.result = wrk[w].result
          /\ me.expected = wrk[w].expected /\ me.repair = (wrk[w].seen.status # "confirmed")
      BY <1>2 DEF Worker
    <2>3. me \in Worker BY <1>2 DEF Worker, WorkerPc
    <2>4. WorkerNext(p, wrk[w]) BY <1>1, <1>2, <1>3, <1>4, WorkerFrame DEF Owning, KeepTools
    <2>5. ConfirmedNext(p)
      <3>1. Confirmed(p, 2) BY <1>2, <1>3, <1>6 DEF HasExactConfirmation
      <3> QED BY <1>1, <3>1 DEF Confirmed, ConfirmedNext, HasEvent, HasNext, KeepApprovals
    <2>6. wrk[w].seen.status # "confirmed" => wrk[w].seen.status \in ExecutionStatus
      BY <1>6 DEF MissingAudit, ExecutionStatus
    <2> HIDE DEF me
    <2>7. WorkerNext(p, me) BY <1>1, <2>2, <2>4, <2>5, <2>6 DEF WorkerNext, Owning, Claiming
    <2> QED BY <1>1, <1>2, <1>3, <1>4, <2>1, <2>2, <2>3, <2>7, MovePreserves DEF Owning, KeepApprovals
  <1> QED BY <1>5, <1>6 DEF ClaimAudit, Results

LEMMA ExecutionStep ==
    ASSUME StoreOK, NEW p \in Proposals, NEW to \in ExecutionStatus, NEW e, e = VersionOf(to) - 1,
           Transition(TransitionKey(p, to), p, e, to)
    PROVE  LET code == TransitionCode(TransitionKey(p, to), p, e, to) IN
           /\ StoreStep /\ \A q \in Proposals \ {p} : history'[q] = history[q]
           /\ (Moves(p, to) /\ VersionOf(to) = 4) \/ Calm(p)
           /\ code # "moved" => Calm(p)
           /\ code \in {"moved", "replayed"} => StandsNext(p, to)
  <1> DEFINE key == TransitionKey(p, to)
             R == ExecutionRecord(p, to)
  <1>1. R \in KeptRecords /\ R = [key |-> key, request |-> TransitionRequest(p, e, to), result |-> Told(p, to)]
    BY DEF KeptRecords, ExecutionRecord
  <1>2. \A r \in KeptRecords : r.key = key => r = R BY KeptByKey
  <1>3. \A k \in DecisionKeys : R # DecisionRecord(k)
    <2> SUFFICES ASSUME NEW k \in DecisionKeys, R = DecisionRecord(k) PROVE FALSE OBVIOUS
    <2>1. R.key = key /\ DecisionRecord(k).key = DecisionKey(k) BY <1>1 DEF DecisionRecord
    <2> QED BY <2>1, Keys
  <1>4. to \in ProposalStatus /\ to # "pending" BY Statuses
  <1> HIDE DEF key, R
  <1>5. Transition(key, p, e, to) BY DEF key
  <1>6. LET code == TransitionCode(key, p, e, to) IN
        /\ StoreStep /\ \A q \in Proposals \ {p} : history'[q] = history[q]
        /\ (Moves(p, to) /\ VersionOf(to) = 4) \/ Calm(p)
        /\ code # "moved" => Calm(p)
        /\ code \in {"moved", "replayed"} => StandsNext(p, to)
    BY <1>1, <1>2, <1>3, <1>4, <1>5, TransitionStep
  <1> QED BY <1>6 DEF key

LEMMA LifecycleStep ==
    ASSUME IInv, NEW p \in Proposals, NEW s \in ExecutionStatus, Stands(p, s), Confirmed(p, 2),
           s = "executing" \/ HasEvent(LifecycleEventId(p, "executing")),
           NEW rec, rec = Told(p, s), AppendOnce(LifecycleEventId(p, s), rec)
    PROVE  LogGrows /\ NoForeignDecision /\ HasNext(LifecycleEventId(p, s))
  <1> DEFINE id == LifecycleEventId(p, s)
             e == EventOf(id, rec)
  <1>1. CASE HasEvent(id)
    <2>1. log' = log BY <1>1 DEF AppendOnce
    <2> QED BY <1>1, <2>1, QuietLog DEF HasEvent, HasNext
  <1>2. CASE ~HasEvent(id)
    <2>1. log' = Append(log, e) BY <1>2 DEF AppendOnce
    <2>2. e \in LogEvents /\ Follows(e) BY <1>2, LifecycleFollows DEF IInv, StoreOK
    <2>3. LogGrows BY <2>1, <2>2 DEF LogGrows
    <2>4. e.id = id BY DEF EventOf
    <2>5. NoForeignDecision /\ HasNext(e.id) BY <2>1, <2>2, <2>4, EventIds, NoDecisionEvent DEF IInv, LogOK
    <2> QED BY <2>3, <2>4, <2>5
  <1> QED BY <1>1, <1>2

LEMMA ClaimStep ==
    ASSUME IInv, NEW w \in ToolWorkers, wrk[w].pc = "transition", NEW p \in Proposals, p = CallOf(w)
    PROVE  /\ ClaimStatus(w) \in ExecutionStatus /\ ClaimStatus(w) = ClaimOf(wrk[w])
           /\ ClaimVersion(w) + 1 = VersionOf(ClaimStatus(w))
           /\ Transition(TransitionKey(p, ClaimStatus(w)), p, ClaimVersion(w), ClaimStatus(w)) =>
                /\ StoreStep /\ \A q \in Proposals : Calm(q)
                /\ TransitionCode(TransitionKey(p, ClaimStatus(w)), p, ClaimVersion(w), ClaimStatus(w))
                     \in {"moved", "replayed"} => StandsNext(p, ClaimStatus(w))
  <1>1. WorkerSound(w) /\ wrk[w].expected = 2 BY CallType DEF WorkerSound, Claiming
  <1>2. PICK to : to = ClaimStatus(w) OBVIOUS
  <1>3. PICK v : v = ClaimVersion(w) OBVIOUS
  <1>4. to \in ExecutionStatus /\ to = ClaimOf(wrk[w]) /\ (to = "executing" \/ Stands(p, to))
    BY <1>1, <1>2, Statuses DEF WorkerSound, ClaimStatus, ClaimOf
  <1>5. v = VersionOf(to) - 1 /\ v + 1 = VersionOf(to)
    <2>1. CASE to = "executing" BY <1>1, <1>2, <1>3, <2>1, Versions DEF ClaimVersion
    <2>2. CASE to # "executing"
      <3>1. VersionOf(to) = 4 BY <1>4, <2>2, Versions DEF ExecutionStatus
      <3> QED BY <1>1, <1>2, <1>3, <2>2, <3>1 DEF ClaimVersion
    <2> QED BY <2>1, <2>2
  <1>6. ASSUME Transition(TransitionKey(p, to), p, v, to)
        PROVE  /\ StoreStep /\ \A q \in Proposals : Calm(q)
               /\ TransitionCode(TransitionKey(p, to), p, v, to) \in {"moved", "replayed"} => StandsNext(p, to)
    <2>1. /\ StoreStep /\ \A q \in Proposals \ {p} : history'[q] = history[q]
          /\ (Moves(p, to) /\ VersionOf(to) = 4) \/ Calm(p)
          /\ TransitionCode(TransitionKey(p, to), p, v, to) \in {"moved", "replayed"} => StandsNext(p, to)
      BY <1>4, <1>5, <1>6, ExecutionStep DEF IInv
    <2>2. ~(Moves(p, to) /\ VersionOf(to) = 4)
      <3> SUFFICES ASSUME Moves(p, to), VersionOf(to) = 4 PROVE FALSE OBVIOUS
      <3>1. to # "executing" BY Versions
      <3> DEFINE n == Version(p)
      <3>2. 4 <= n BY <1>4, <3>1 DEF Stands, Version
      <3>3. n = 4 - 1 BY DEF Moves
      <3> HIDE DEF n
      <3> QED BY <3>2, <3>3
    <2>3. \A q \in Proposals : Calm(q) BY <2>1, <2>2 DEF Calm
    <2> QED BY <2>1, <2>3
  <1> QED BY <1>2, <1>3, <1>4, <1>5, <1>6

LEMMA ClaimTransitionPreserves ==
    ASSUME IInv, NEW w \in ToolWorkers, ClaimTransition(w)
    PROVE  IInv'
  <1> DEFINE me == [wrk[w] EXCEPT !.pc = "append", !.claimed = ClaimVersion(w) + 1]
  <1>1. /\ wrk[w].pc = "transition" /\ KeepTools /\ UNCHANGED <<plan, due, log, dec, grp>>
        /\ Transition(TransitionKey(CallOf(w), ClaimStatus(w)), CallOf(w), ClaimVersion(w), ClaimStatus(w))
    BY DEF ClaimTransition
  <1>2. CallOf(w) \in Proposals /\ wrk[w] \in Worker /\ w \in DOMAIN plan.call BY <1>1, CallType
  <1>3. PICK p \in Proposals : p = CallOf(w) BY <1>2
  <1>4. ClaimStatus(w) = ClaimOf(wrk[w]) /\ ClaimVersion(w) + 1 = VersionOf(ClaimStatus(w))
        /\ ClaimStatus(w) \in ProposalStatus
    BY <1>1, <1>3, ClaimStep, Statuses
  <1>5. StoreStep /\ \A q \in Proposals : Calm(q) BY <1>1, <1>3, ClaimStep
  <1>6. LogGrows /\ NoForeignDecision BY <1>1, QuietLog
  <1>7. CASE Returns(w, "error") BY <1>1, <1>2, <1>5, <1>6, <1>7, ReturnPreserves DEF Results
  <1>8. CASE ~Returns(w, "error")
    <2>1. /\ wrk' = [wrk EXCEPT ![w].pc = "append", ![w].claimed = ClaimVersion(w) + 1]
          /\ StandsNext(p, ClaimStatus(w))
      BY <1>1, <1>3, <1>8, ClaimStep DEF ClaimTransition
    <2>2. wrk' = [wrk EXCEPT ![w] = me] BY <2>1
    <2>3. /\ me.pc = "append" /\ me.seen = wrk[w].seen /\ me.result = wrk[w].result
          /\ me.expected = wrk[w].expected /\ me.repair = wrk[w].repair /\ me.claimed = ClaimVersion(w) + 1
      BY <1>2 DEF Worker
    <2>4. me \in Worker
      <3>1. ClaimVersion(w) + 1 \in Nat BY <1>4, Versions
      <3> QED BY <1>2, <3>1 DEF Worker, WorkerPc
    <2>5. WorkerNext(p, wrk[w]) BY <1>1, <1>2, <1>3, <1>5, <1>6, WorkerFrame DEF Owning, KeepTools
    <2> HIDE DEF me
    <2>6. ClaimOf(me) = ClaimStatus(w) BY <1>4, <2>3 DEF ClaimOf
    <2>7. WorkerNext(p, me)
      BY <1>1, <1>4, <2>1, <2>3, <2>5, <2>6 DEF WorkerNext, Owning, Claiming
    <2> QED BY <1>1, <1>2, <1>3, <1>5, <1>6, <2>2, <2>3, <2>4, <2>7, MovePreserves DEF Owning
  <1> QED BY <1>7, <1>8

\* The event of a claim: the status it claims stands, and what comes before
\* it is in the log.
LEMMA ClaimAppendStep ==
    ASSUME IInv, NEW w \in ToolWorkers, wrk[w].pc = "append", NEW p \in Proposals, p = CallOf(w)
    PROVE  /\ ClaimStatus(w) = ClaimOf(wrk[w])
           /\ AppendOnce(LifecycleEventId(p, ClaimStatus(w)),
                  [proposal |-> p, version |-> wrk[w].claimed, status |-> ClaimStatus(w)]) =>
                LogGrows /\ NoForeignDecision /\ HasNext(LifecycleEventId(p, ClaimStatus(w)))
  <1>1. WorkerSound(w) BY CallType
  <1>2. PICK s : s = ClaimStatus(w) OBVIOUS
  <1>3. s \in ExecutionStatus /\ s = ClaimOf(wrk[w])
    BY <1>1, <1>2, Statuses DEF WorkerSound, ClaimStatus, ClaimOf
  <1>4. wrk[w].claimed = VersionOf(s) /\ Stands(p, s) /\ Confirmed(p, 2) BY <1>1, <1>3 DEF WorkerSound
  <1>5. s = "executing" \/ HasEvent(LifecycleEventId(p, "executing"))
    <2> SUFFICES ASSUME s # "executing" PROVE HasEvent(LifecycleEventId(p, "executing")) OBVIOUS
    <2>1. VersionOf(s) = 4 BY <1>3, Versions DEF ExecutionStatus
    <2>2. 4 <= Version(p) BY <1>4, <2>1 DEF Stands, Version
    <2>3. Version(p) \in Nat BY HistoryLength DEF IInv, StoreOK
    <2>4. Version(p) >= 4 BY <2>2, <2>3
    <2> QED BY <2>4 DEF IInv, SettledLogged
  <1>6. [proposal |-> p, version |-> wrk[w].claimed, status |-> s] = Told(p, s) BY <1>4 DEF Told
  <1> QED BY <1>2, <1>3, <1>4, <1>5, <1>6, LifecycleStep

LEMMA ClaimAppendPreserves ==
    ASSUME IInv, NEW w \in ToolWorkers, ClaimAppend(w)
    PROVE  IInv'
  <1> DEFINE me == [wrk[w] EXCEPT !.pc = "admit"]
  <1>1. /\ wrk[w].pc = "append" /\ KeepTools /\ UNCHANGED <<plan, history, idem, due, dec, grp>>
        /\ AppendOnce(LifecycleEventId(CallOf(w), ClaimStatus(w)),
              [proposal |-> CallOf(w), version |-> wrk[w].claimed, status |-> ClaimStatus(w)])
    BY DEF ClaimAppend
  <1>2. CallOf(w) \in Proposals /\ wrk[w] \in Worker /\ w \in DOMAIN plan.call BY <1>1, CallType
  <1>3. PICK p \in Proposals : p = CallOf(w) BY <1>2
  <1>4. /\ ClaimStatus(w) = ClaimOf(wrk[w]) /\ LogGrows /\ NoForeignDecision
        /\ HasNext(LifecycleEventId(p, ClaimStatus(w)))
    BY <1>1, <1>3, ClaimAppendStep
  <1>5. StoreStep /\ \A q \in Proposals : Calm(q) BY <1>1, QuietStore DEF IInv
  <1>6. CASE Returns(w, "error") BY <1>1, <1>2, <1>4, <1>5, <1>6, ReturnPreserves DEF Results
  <1>7. CASE ~Returns(w, "error")
    <2>1. wrk' = [wrk EXCEPT ![w].pc = "admit"] /\ ClaimStatus(w) = "executing"
      BY <1>7 DEF ClaimAppend, Goes
    <2>2. wrk' = [wrk EXCEPT ![w] = me] BY <2>1
    <2>3. me.pc = "admit" /\ me.claimed = wrk[w].claimed /\ me.result = wrk[w].result
      BY <1>2 DEF Worker
    <2>4. me \in Worker BY <1>2 DEF Worker, WorkerPc
    <2>5. WorkerNext(p, wrk[w]) BY <1>1, <1>2, <1>3, <1>4, <1>5, WorkerFrame DEF Owning, KeepTools
    <2> HIDE DEF me
    <2>6. WorkerNext(p, me)
      BY <1>1, <1>4, <2>1, <2>3, <2>5, Versions DEF WorkerNext, Owning, Claiming
    <2> QED BY <1>1, <1>2, <1>3, <1>4, <1>5, <2>2, <2>3, <2>4, <2>6, MovePreserves DEF Owning
  <1> QED BY <1>6, <1>7

LEMMA ClaimFailsPreserves ==
    ASSUME IInv, NEW w \in ToolWorkers, ClaimFails(w)
    PROVE  IInv'
  <1>1. /\ wrk[w].pc \in {"transition", "append"} /\ KeepTools /\ UNCHANGED <<plan, due, dec, grp>>
        /\ Returns(w, "error")
    BY DEF ClaimFails
  <1>2. CallOf(w) \in Proposals /\ wrk[w] \in Worker /\ w \in DOMAIN plan.call BY <1>1, CallType
  <1>3. PICK p \in Proposals : p = CallOf(w) BY <1>2
  <1>4. StoreStep /\ \A q \in Proposals : Calm(q)
    <2>1. CASE UNCHANGED <<history, idem>> BY <2>1, QuietStore DEF IInv
    <2>2. CASE wrk[w].pc = "transition"
               /\ Transition(TransitionKey(p, ClaimStatus(w)), p, ClaimVersion(w), ClaimStatus(w))
      BY <1>3, <2>2, ClaimStep
    <2> QED BY <1>3, <2>1, <2>2 DEF ClaimFails
  <1>5. LogGrows /\ NoForeignDecision
    <2>1. CASE UNCHANGED log BY <2>1, QuietLog
    <2>2. CASE wrk[w].pc = "append"
               /\ AppendOnce(LifecycleEventId(p, ClaimStatus(w)),
                     [proposal |-> p, version |-> wrk[w].claimed, status |-> ClaimStatus(w)])
      BY <1>3, <2>2, ClaimAppendStep
    <2> QED BY <1>3, <2>1, <2>2 DEF ClaimFails
  <1> QED BY <1>1, <1>2, <1>4, <1>5, ReturnPreserves DEF Results

------------------------------------------------
\* The steps of the worker that owns the call.

LEMMA OwnerKnows ==
    ASSUME IInv, StoreStep, LogGrows, NEW w \in ToolWorkers, wrk[w].pc \in {"admit"} \cup Owning,
           NEW p \in Proposals, p = CallOf(w)
    PROVE  /\ wrk[w].claimed = 3 /\ StandsNext(p, "executing") /\ ConfirmedNext(p)
           /\ HasNext(LifecycleEventId(p, "executing"))
           /\ wrk[w].pc \in Owning => ledger[p] = "claimed" /\ wrk[w].result # "success"
  <1>1. WorkerSound(w) BY DEF IInv, Workers
  <1>2. Remembered /\ Lasting(p) BY LogRemembers, StoreKept DEF IInv, LogOK
  <1>3. wrk[w].claimed = 3 /\ Stands(p, "executing") /\ Confirmed(p, 2) /\ HasEvent(LifecycleEventId(p, "executing"))
    BY <1>1 DEF WorkerSound
  <1>4. wrk[w].pc \in Owning => ledger[p] = "claimed" /\ wrk[w].result # "success" BY <1>1 DEF WorkerSound
  <1> QED BY <1>2, <1>3, <1>4, Statuses DEF Remembered, Lasting

LEMMA LedgerAdmitPreserves ==
    ASSUME IInv, NEW w \in ToolWorkers, LedgerAdmit(w)
    PROVE  IInv'
  <1> DEFINE me == [wrk[w] EXCEPT !.pc = "start"]
  <1>1. /\ wrk[w].pc = "admit" /\ KeepApprovals /\ UNCHANGED <<invoked, returned>>
    BY DEF LedgerAdmit
  <1>2. CallOf(w) \in Proposals /\ wrk[w] \in Worker /\ w \in DOMAIN plan.call /\ WorkerSound(w)
    BY <1>1, CallType
  <1>3. PICK p \in Proposals : p = CallOf(w) BY <1>2
  <1>4. StoreStep /\ (\A q \in Proposals : Calm(q)) /\ LogGrows /\ NoForeignDecision
    BY <1>1, QuietStore, QuietLog DEF IInv, KeepApprovals
  <1>5. CASE UNCHANGED ledger /\ \E result \in Results : /\ result = "success" => ledger[p] = "success"
                                                         /\ Returns(w, result)
    <2>1. KeepTools BY <1>1, <1>5 DEF KeepTools
    <2> QED BY <1>1, <1>2, <1>3, <1>4, <1>5, <2>1, ReturnPreserves DEF KeepApprovals
  <1>6. CASE ledger[p] = "absent" /\ ledger' = [ledger EXCEPT ![p] = "claimed"] /\ Goes(w, "start")
    <2>1. wrk' = [wrk EXCEPT ![w] = me] BY <1>6 DEF Goes
    <2>2. me.pc = "start" /\ me.claimed = wrk[w].claimed /\ me.result = wrk[w].result
      BY <1>2 DEF Worker
    <2>3. me \in Worker BY <1>2 DEF Worker, WorkerPc
    <2>4. /\ wrk[w].claimed = 3 /\ StandsNext(p, "executing") /\ ConfirmedNext(p)
          /\ HasNext(LifecycleEventId(p, "executing"))
      BY <1>1, <1>3, <1>4, OwnerKnows
    <2>5. ledger'[p] = "claimed" /\ (\A q \in Proposals \ {p} : ledger'[q] = ledger[q]) /\ ToolTypes'
      BY <1>1, <1>6 DEF ToolTypes, IInv, CallsOK
    <2>6. invoked[p] = 0 /\ returned[p] = {} /\ Version(p) <= 3 BY <1>6 DEF IInv, Ledger
    <2>7. Version(p) = 3
      <3>1. 3 <= Version(p)
        BY <1>1, <1>2, <1>3, Versions DEF WorkerSound, Stands, Version
      <3>2. Version(p) \in Nat BY HistoryLength DEF IInv, StoreOK
      <3> QED BY <2>6, <3>1, <3>2
    <2>8. Len(history'[p]) = 3 BY <1>1, <2>7 DEF Version, KeepApprovals
    <2>9. wrk[w].result # "success" BY <1>2, <1>3, <1>6 DEF WorkerSound
    <2> HIDE DEF me
    <2>10. WorkerNext(p, me)
      BY <1>1, <2>2, <2>4, <2>5, <2>6, <2>8, <2>9 DEF WorkerNext, Owning, Claiming
    <2>11. LedgerNext(p)
      <3>1. StandsNext(p, "executed") => Stands(p, "executed") BY <1>1 DEF Stands, StandsNext, KeepApprovals
      <3> QED BY <1>1, <2>5, <3>1 DEF LedgerNext, IInv, Ledger
    <2>12. \A q \in Proposals \ {p} : Undisturbed(q) BY <1>1, <1>4, <2>5 DEF Undisturbed
    <2>13. WorkerChange(w, p, me)
      BY <1>1, <1>4, <1>6, <2>1, <2>3, <2>5, <2>10, <2>11, <2>12 DEF WorkerChange, Owning
    <2> QED BY <1>1, <1>2, <1>3, <1>4, <2>13, WorkerKept DEF KeepApprovals
  <1> QED BY <1>3, <1>5, <1>6 DEF LedgerAdmit, Results

LEMMA RecordStartedPreserves ==
    ASSUME IInv, NEW w \in ToolWorkers, RecordStarted(w)
    PROVE  IInv'
  <1>1. wrk[w].pc = "start" /\ KeepTools /\ UNCHANGED <<plan, history, idem, due, log, dec, grp>>
    BY DEF RecordStarted
  <1>2. CallOf(w) \in Proposals /\ wrk[w] \in Worker /\ w \in DOMAIN plan.call BY <1>1, CallType
  <1>3. PICK p \in Proposals : p = CallOf(w) BY <1>2
  <1>4. StoreStep /\ (\A q \in Proposals : Calm(q)) /\ LogGrows /\ NoForeignDecision
    BY <1>1, QuietStore, QuietLog DEF IInv
  <1>5. WorkerNext(p, wrk[w]) BY <1>1, <1>2, <1>3, <1>4, WorkerFrame DEF Undisturbed, KeepTools
  <1>6. ASSUME NEW new \in Worker, wrk' = [wrk EXCEPT ![w] = new], new.claimed = wrk[w].claimed,
               new.result = wrk[w].result, new.pc = "acquire" \/ (new.pc = "settle" /\ new.verdict = "failed")
        PROVE  IInv'
    <2>1. WorkerNext(p, new) BY <1>1, <1>5, <1>6 DEF WorkerNext, Owning, Claiming
    <2> QED BY <1>1, <1>2, <1>3, <1>4, <1>6, <2>1, MovePreserves DEF Owning
  <1>7. CASE Goes(w, "acquire")
    <2> DEFINE new == [wrk[w] EXCEPT !.pc = "acquire"]
    <2>1. wrk' = [wrk EXCEPT ![w] = new] BY <1>7 DEF Goes
    <2>2. new \in Worker /\ new.claimed = wrk[w].claimed /\ new.result = wrk[w].result /\ new.pc = "acquire"
      BY <1>2 DEF Worker, WorkerPc
    <2> QED BY <1>6, <2>1, <2>2
  <1>8. CASE wrk' = [wrk EXCEPT ![w].pc = "settle", ![w].verdict = "failed"]
    <2> DEFINE new == [wrk[w] EXCEPT !.pc = "settle", !.verdict = "failed"]
    <2>1. wrk' = [wrk EXCEPT ![w] = new] BY <1>8
    <2>2. /\ new \in Worker /\ new.claimed = wrk[w].claimed /\ new.result = wrk[w].result
          /\ new.pc = "settle" /\ new.verdict = "failed"
      BY <1>2 DEF Worker, WorkerPc
    <2> QED BY <1>6, <2>1, <2>2
  <1> QED BY <1>7, <1>8 DEF RecordStarted

LEMMA OwnerPreserves ==
    ASSUME IInv, StoreStep, LogGrows, NoForeignDecision, UNCHANGED <<plan, due, dec, grp>>,
           NEW w \in ToolWorkers, wrk[w].pc \in Owning, NEW p \in Proposals, p = CallOf(w),
           NEW me \in Worker, wrk' = [wrk EXCEPT ![w] = me], WorkerNext(p, me), ToolTypes', LedgerNext(p),
           \A q \in Proposals \ {p} : Undisturbed(q)
    PROVE  IInv'
  <1>1. w \in DOMAIN plan.call BY CallType DEF Owning
  <1>2. WorkerChange(w, p, me) BY DEF WorkerChange
  <1> QED BY <1>1, <1>2, WorkerKept

LEMMA DispatchPreserves ==
    ASSUME IInv, NEW w \in ToolWorkers, Dispatch(w)
    PROVE  IInv'
  <1>1. wrk[w].pc = "acquire" /\ KeepApprovals /\ UNCHANGED <<ledger, returned>> BY DEF Dispatch
  <1>2. CallOf(w) \in Proposals /\ wrk[w] \in Worker /\ w \in DOMAIN plan.call /\ WorkerSound(w)
    BY <1>1, CallType
  <1>3. PICK p \in Proposals : p = CallOf(w) BY <1>2
  <1>4. StoreStep /\ (\A q \in Proposals : Calm(q)) /\ LogGrows /\ NoForeignDecision
    BY <1>1, QuietStore, QuietLog DEF IInv, KeepApprovals
  <1>5. /\ wrk[w].claimed = 3 /\ StandsNext(p, "executing") /\ ConfirmedNext(p)
        /\ HasNext(LifecycleEventId(p, "executing")) /\ ledger[p] = "claimed" /\ wrk[w].result # "success"
    BY <1>1, <1>3, <1>4, OwnerKnows DEF Owning
  <1>6. invoked[p] = 0 /\ returned[p] = {} /\ Len(history'[p]) = 3
    BY <1>1, <1>2, <1>3 DEF WorkerSound, Version, KeepApprovals
  <1>7. CASE wrk[w].aborted
    <2> DEFINE me == [wrk[w] EXCEPT !.pc = "settle", !.verdict = "failed"]
    <2>1. wrk' = [wrk EXCEPT ![w] = me] /\ KeepTools BY <1>1, <1>7 DEF Dispatch, KeepTools
    <2>2. /\ me \in Worker /\ me.claimed = wrk[w].claimed /\ me.result = wrk[w].result
          /\ me.pc = "settle" /\ me.verdict = "failed"
      BY <1>2 DEF Worker, WorkerPc
    <2> HIDE DEF me
    <2>3. WorkerNext(p, me) BY <1>1, <1>5, <1>6, <2>2 DEF WorkerNext, Owning, Claiming
    <2> QED BY <1>1, <1>2, <1>3, <1>4, <2>1, <2>2, <2>3, MovePreserves DEF Owning, KeepApprovals
  <1>8. CASE ~wrk[w].aborted
    <2> DEFINE me == [wrk[w] EXCEPT !.pc = "invoke"]
    <2>1. wrk' = [wrk EXCEPT ![w] = me] /\ invoked' = [invoked EXCEPT ![p] = @ + 1]
      BY <1>3, <1>8 DEF Dispatch, Goes
    <2>2. /\ me \in Worker /\ me.claimed = wrk[w].claimed /\ me.result = wrk[w].result /\ me.pc = "invoke"
      BY <1>2 DEF Worker, WorkerPc
    <2> HIDE DEF me
    <2>3. WorkerNext(p, me) BY <1>1, <1>5, <1>6, <2>2 DEF WorkerNext, Owning, Claiming
    <2>4. ToolTypes' BY <1>1, <1>6, <2>1 DEF ToolTypes, IInv, CallsOK
    <2>5. \A q \in Proposals \ {p} : Undisturbed(q) BY <1>1, <1>4, <2>1 DEF Undisturbed, IInv, CallsOK
    <2>6. LedgerNext(p)
      <3>1. StandsNext(p, "executed") => Stands(p, "executed") BY <1>1 DEF Stands, StandsNext, KeepApprovals
      <3> QED BY <1>1, <1>5, <3>1 DEF LedgerNext, IInv, Ledger
    <2>7. UNCHANGED <<plan, due, dec, grp>> /\ wrk[w].pc \in Owning BY <1>1 DEF KeepApprovals, Owning
    <2> QED BY <1>3, <1>4, <2>1, <2>2, <2>3, <2>4, <2>5, <2>6, <2>7, OwnerPreserves
  <1> QED BY <1>7, <1>8

LEMMA ToolReturnsPreserves ==
    ASSUME IInv, NEW w \in ToolWorkers, ToolReturns(w)
    PROVE  IInv'
  <1>1. wrk[w].pc = "invoke" /\ KeepApprovals /\ UNCHANGED <<ledger, invoked>> BY DEF ToolReturns
  <1>2. CallOf(w) \in Proposals /\ wrk[w] \in Worker /\ w \in DOMAIN plan.call /\ WorkerSound(w)
    BY <1>1, CallType
  <1>3. PICK p \in Proposals : p = CallOf(w) BY <1>2
  <1>4. PICK verdict \in {"executed", "failed"} :
           /\ wrk' = [wrk EXCEPT ![w].pc = "settle", ![w].verdict = verdict]
           /\ returned' = [returned EXCEPT ![p] = @ \cup {verdict}]
    BY <1>3 DEF ToolReturns
  <1>5. StoreStep /\ (\A q \in Proposals : Calm(q)) /\ LogGrows /\ NoForeignDecision
    BY <1>1, QuietStore, QuietLog DEF IInv, KeepApprovals
  <1>6. /\ wrk[w].claimed = 3 /\ StandsNext(p, "executing") /\ ConfirmedNext(p)
        /\ HasNext(LifecycleEventId(p, "executing")) /\ ledger[p] = "claimed" /\ wrk[w].result # "success"
    BY <1>1, <1>3, <1>5, OwnerKnows DEF Owning
  <1>7. returned[p] = {} /\ Len(history'[p]) = 3
    BY <1>1, <1>2, <1>3 DEF WorkerSound, Version, KeepApprovals
  <1> DEFINE me == [wrk[w] EXCEPT !.pc = "settle", !.verdict = verdict]
  <1>8. wrk' = [wrk EXCEPT ![w] = me] BY <1>4
  <1>9. /\ me \in Worker /\ me.claimed = wrk[w].claimed /\ me.result = wrk[w].result /\ me.pc = "settle"
        /\ me.verdict = verdict
    BY <1>2 DEF Worker, WorkerPc
  <1> HIDE DEF me
  <1>10. returned \in [Proposals -> SUBSET {"executed", "failed"}] BY DEF IInv, CallsOK
  <1>11. returned'[p] = {verdict} /\ \A q \in Proposals \ {p} : returned'[q] = returned[q]
    BY <1>4, <1>7, <1>10
  <1>12. WorkerNext(p, me) BY <1>1, <1>6, <1>7, <1>9, <1>11 DEF WorkerNext, Owning, Claiming
  <1>13. ToolTypes' BY <1>1, <1>4, <1>10 DEF ToolTypes, IInv, CallsOK
  <1>14. \A q \in Proposals \ {p} : Undisturbed(q) BY <1>1, <1>5, <1>11 DEF Undisturbed
  <1>15. ~StandsNext(p, "executed") BY <1>7, Versions DEF StandsNext
  <1>16. LedgerNext(p) BY <1>1, <1>6, <1>15 DEF LedgerNext
  <1>17. UNCHANGED <<plan, due, dec, grp>> /\ wrk[w].pc \in Owning BY <1>1 DEF KeepApprovals, Owning
  <1> QED BY <1>3, <1>5, <1>8, <1>9, <1>12, <1>13, <1>14, <1>16, <1>17, OwnerPreserves

\* The transition of a settlement, whether or not its answer arrives.
LEMMA SettleStep ==
    ASSUME IInv, NEW w \in ToolWorkers, wrk[w].pc = "settle", NEW p \in Proposals, p = CallOf(w),
           Transition(TransitionKey(p, wrk[w].verdict), p, wrk[w].claimed, wrk[w].verdict),
           UNCHANGED log, KeepTools
    PROVE  /\ StoreStep /\ LogGrows /\ NoForeignDecision /\ LedgerNext(p) /\ ToolTypes'
           /\ \A q \in Proposals \ {p} : Undisturbed(q)
           /\ TransitionCode(TransitionKey(p, wrk[w].verdict), p, wrk[w].claimed, wrk[w].verdict)
                \in {"moved", "replayed"} => StandsNext(p, wrk[w].verdict)
  <1>1. WorkerSound(w) BY DEF IInv, Workers
  <1>2. PICK to \in {"executed", "failed"} : to = wrk[w].verdict BY <1>1 DEF WorkerSound
  <1>3. /\ wrk[w].claimed = 3 /\ Version(p) = 3 /\ ledger[p] = "claimed"
        /\ to = "executed" => returned[p] = {"executed"}
    BY <1>1, <1>2 DEF WorkerSound, Owning
  <1>4. VersionOf(to) - 1 = 3 /\ VersionOf(to) = 4 /\ to \in ExecutionStatus BY Versions, Statuses
  <1> DEFINE code == TransitionCode(TransitionKey(p, to), p, 3, to)
  <1>5. /\ StoreStep /\ \A q \in Proposals \ {p} : history'[q] = history[q]
        /\ code # "moved" => Calm(p)
        /\ code \in {"moved", "replayed"} => StandsNext(p, to)
    BY <1>2, <1>3, <1>4, ExecutionStep DEF IInv
  <1> HIDE DEF code
  <1>6. LogGrows /\ NoForeignDecision BY QuietLog
  <1>7. StandsNext(p, "executed") => returned[p] = {"executed"}
    <2> SUFFICES ASSUME StandsNext(p, "executed") PROVE returned[p] = {"executed"} OBVIOUS
    <2>1. CASE code = "moved"
      <3>1. history'[p][4] = to /\ history'[p][4] = "executed" BY <1>4, <1>5, <2>1, Versions DEF StandsNext
      <3> QED BY <1>3, <3>1
    <2>2. CASE code # "moved"
      <3>1. Stands(p, "executed") BY <1>5, <2>2, CalmVersion DEF IInv, StoreOK, StoreStep
      <3> QED BY <3>1 DEF IInv, Ledger
    <2> QED BY <2>1, <2>2
  <1>8. LedgerNext(p) BY <1>3, <1>7 DEF LedgerNext, KeepTools
  <1>9. ToolTypes' BY DEF ToolTypes, KeepTools, IInv, CallsOK
  <1>10. \A q \in Proposals \ {p} : Undisturbed(q) BY <1>5 DEF Undisturbed, KeepTools, Calm
  <1> QED BY <1>2, <1>3, <1>5, <1>6, <1>8, <1>9, <1>10 DEF code

LEMMA SettlePreserves ==
    ASSUME IInv, NEW w \in ToolWorkers, Settle(w)
    PROVE  IInv'
  <1>1. wrk[w].pc = "settle" /\ KeepTools /\ UNCHANGED <<plan, due, log, dec, grp>> BY DEF Settle
  <1>2. CallOf(w) \in Proposals /\ wrk[w] \in Worker /\ WorkerSound(w) BY <1>1, CallType
  <1>3. PICK p \in Proposals : p = CallOf(w) BY <1>2
  <1>4. /\ StoreStep /\ LogGrows /\ NoForeignDecision /\ LedgerNext(p) /\ ToolTypes'
        /\ \A q \in Proposals \ {p} : Undisturbed(q)
    BY <1>1, <1>3, SettleStep DEF Settle
  <1>5. /\ wrk[w].claimed = 3 /\ StandsNext(p, "executing") /\ ConfirmedNext(p)
        /\ HasNext(LifecycleEventId(p, "executing")) /\ ledger'[p] = "claimed" /\ wrk[w].result # "success"
    BY <1>1, <1>3, <1>4, OwnerKnows DEF Owning, KeepTools
  <1>6. ASSUME NEW me \in Worker, wrk' = [wrk EXCEPT ![w] = me], me.claimed = wrk[w].claimed,
               me.result = wrk[w].result,
               \/ me.pc = "settleAppend" /\ me.verdict \in {"executed", "failed"} /\ StandsNext(p, me.verdict)
               \/ me.pc = "save" /\ me.verdict = "none"
        PROVE  IInv'
    <2>1. WorkerNext(p, me) BY <1>5, <1>6 DEF WorkerNext, Owning, Claiming
    <2> QED BY <1>1, <1>3, <1>4, <1>6, <2>1, OwnerPreserves DEF Owning
  <1>7. CASE Goes(w, "settleAppend") /\ StandsNext(p, wrk[w].verdict)
    <2> DEFINE me == [wrk[w] EXCEPT !.pc = "settleAppend"]
    <2>1. wrk' = [wrk EXCEPT ![w] = me] BY <1>7 DEF Goes
    <2>2. /\ me \in Worker /\ me.claimed = wrk[w].claimed /\ me.result = wrk[w].result
          /\ me.pc = "settleAppend" /\ me.verdict = wrk[w].verdict
      BY <1>2 DEF Worker, WorkerPc
    <2>3. wrk[w].verdict \in {"executed", "failed"} BY <1>1, <1>2 DEF WorkerSound
    <2> HIDE DEF me
    <2> QED BY <1>6, <1>7, <2>1, <2>2, <2>3
  <1>8. CASE wrk' = [wrk EXCEPT ![w].pc = "save", ![w].verdict = "none"]
    <2> DEFINE me == [wrk[w] EXCEPT !.pc = "save", !.verdict = "none"]
    <2>1. wrk' = [wrk EXCEPT ![w] = me] BY <1>8
    <2>2. /\ me \in Worker /\ me.claimed = wrk[w].claimed /\ me.result = wrk[w].result
          /\ me.pc = "save" /\ me.verdict = "none"
      BY <1>2 DEF Worker, WorkerPc
    <2> HIDE DEF me
    <2> QED BY <1>6, <2>1, <2>2
  <1> QED BY <1>1, <1>3, <1>7, <1>8, SettleStep DEF Settle

LEMMA SettlementLogged ==
    ASSUME IInv, NEW w \in ToolWorkers, wrk[w].pc = "settleAppend", LogsSettlement(w), KeepTools,
           UNCHANGED <<plan, history, idem, due, dec, grp>>
    PROVE  /\ LogGrows /\ NoForeignDecision /\ HasNext(LifecycleEventId(CallOf(w), wrk[w].verdict))
           /\ wrk[w].verdict \in {"executed", "failed"}
           /\ StoreStep /\ \A q \in Proposals : Calm(q)
  <1>2. CallOf(w) \in Proposals /\ wrk[w] \in Worker /\ WorkerSound(w) BY CallType
  <1>3. PICK p \in Proposals : p = CallOf(w) BY <1>2
  <1>4. PICK to \in {"executed", "failed"} : to = wrk[w].verdict BY <1>2 DEF WorkerSound
  <1>5. /\ Stands(p, to) /\ Confirmed(p, 2) /\ HasEvent(LifecycleEventId(p, "executing")) /\ wrk[w].claimed = 3
    BY <1>2, <1>3, <1>4 DEF WorkerSound, Owning
  <1>6. [proposal |-> p, version |-> wrk[w].claimed + 1, status |-> to] = Told(p, to)
        /\ to \in ExecutionStatus
    BY <1>5, Versions, Statuses DEF Told
  <1>7. LogGrows /\ NoForeignDecision /\ HasNext(LifecycleEventId(p, to))
    BY <1>3, <1>4, <1>5, <1>6, LifecycleStep DEF LogsSettlement
  <1>8. StoreStep /\ \A q \in Proposals : Calm(q) BY QuietStore DEF IInv
  <1> QED BY <1>3, <1>4, <1>7, <1>8

LEMMA SettleAppendPreserves ==
    ASSUME IInv, NEW w \in ToolWorkers, SettleAppend(w)
    PROVE  IInv'
  <1>1. wrk[w].pc = "settleAppend" /\ KeepTools /\ UNCHANGED <<plan, history, idem, due, dec, grp>>
    BY DEF SettleAppend
  <1>2. CallOf(w) \in Proposals /\ wrk[w] \in Worker /\ w \in DOMAIN plan.call /\ WorkerSound(w)
    BY <1>1, CallType
  <1>3. PICK p \in Proposals : p = CallOf(w) BY <1>2
  <1>4. PICK to \in {"executed", "failed"} : to = wrk[w].verdict BY <1>1, <1>2 DEF WorkerSound
  <1>7. /\ LogGrows /\ NoForeignDecision /\ HasNext(LifecycleEventId(p, to))
        /\ StoreStep /\ \A q \in Proposals : Calm(q)
    BY <1>1, <1>3, <1>4, SettlementLogged DEF SettleAppend
  <1>9. WorkerNext(p, wrk[w]) BY <1>1, <1>2, <1>3, <1>7, WorkerFrame DEF Undisturbed, KeepTools
  <1> DEFINE me == [wrk[w] EXCEPT !.pc = "save"]
  <1>10. wrk' = [wrk EXCEPT ![w] = me] BY DEF SettleAppend, Goes
  <1>11. /\ me \in Worker /\ me.claimed = wrk[w].claimed /\ me.result = wrk[w].result
         /\ me.pc = "save" /\ me.verdict = to
    BY <1>2, <1>4 DEF Worker, WorkerPc
  <1> HIDE DEF me
  <1>12. WorkerNext(p, me) BY <1>1, <1>4, <1>7, <1>9, <1>11 DEF WorkerNext, Owning, Claiming
  <1> QED BY <1>1, <1>2, <1>3, <1>7, <1>10, <1>11, <1>12, MovePreserves DEF Owning

LEMMA SettleFailsPreserves ==
    ASSUME IInv, NEW w \in ToolWorkers, SettleFails(w)
    PROVE  IInv'
  <1>1. /\ wrk[w].pc \in {"settle", "settleAppend"} /\ KeepTools /\ UNCHANGED <<plan, due, dec, grp>>
        /\ wrk' = [wrk EXCEPT ![w].pc = "save", ![w].verdict = "none"]
    BY DEF SettleFails
  <1>2. CallOf(w) \in Proposals /\ wrk[w] \in Worker /\ w \in DOMAIN plan.call BY <1>1, CallType
  <1>3. PICK p \in Proposals : p = CallOf(w) BY <1>2
  <1> DEFINE me == [wrk[w] EXCEPT !.pc = "save", !.verdict = "none"]
  <1>4. wrk' = [wrk EXCEPT ![w] = me] BY <1>1
  <1>5. /\ me \in Worker /\ me.claimed = wrk[w].claimed /\ me.result = wrk[w].result
        /\ me.pc = "save" /\ me.verdict = "none"
    BY <1>2 DEF Worker, WorkerPc
  <1> HIDE DEF me
  <1>6. ASSUME StoreStep, LogGrows PROVE WorkerNext(p, me)
    <2>1. /\ wrk[w].claimed = 3 /\ StandsNext(p, "executing") /\ ConfirmedNext(p)
          /\ HasNext(LifecycleEventId(p, "executing")) /\ ledger'[p] = "claimed" /\ wrk[w].result # "success"
      BY <1>1, <1>3, <1>6, OwnerKnows DEF Owning, KeepTools
    <2> QED BY <1>5, <2>1 DEF WorkerNext, Owning, Claiming
  <1>7. CASE UNCHANGED <<history, idem, log>>
    <2>1. StoreStep /\ (\A q \in Proposals : Calm(q)) /\ LogGrows /\ NoForeignDecision
      BY <1>1, <1>7, QuietStore, QuietLog DEF IInv
    <2> QED BY <1>1, <1>2, <1>3, <1>4, <1>5, <1>6, <2>1, MovePreserves DEF Owning
  <1>8. CASE wrk[w].pc = "settle" /\ UNCHANGED log
             /\ Transition(TransitionKey(p, wrk[w].verdict), p, wrk[w].claimed, wrk[w].verdict)
    <2>1. /\ StoreStep /\ LogGrows /\ NoForeignDecision /\ LedgerNext(p) /\ ToolTypes'
          /\ \A q \in Proposals \ {p} : Undisturbed(q)
      BY <1>1, <1>3, <1>8, SettleStep
    <2> QED BY <1>1, <1>3, <1>4, <1>5, <1>6, <2>1, OwnerPreserves DEF Owning
  <1>9. CASE wrk[w].pc = "settleAppend" /\ LogsSettlement(w) /\ UNCHANGED <<history, idem>>
    <2>1. StoreStep /\ (\A q \in Proposals : Calm(q)) /\ LogGrows /\ NoForeignDecision
      BY <1>1, <1>9, SettlementLogged
    <2> QED BY <1>1, <1>2, <1>3, <1>4, <1>5, <1>6, <2>1, MovePreserves DEF Owning
  <1> QED BY <1>3, <1>7, <1>8, <1>9 DEF SettleFails

LEMMA LedgerSavePreserves ==
    ASSUME IInv, NEW w \in ToolWorkers, LedgerSave(w)
    PROVE  IInv'
  <1>1. /\ wrk[w].pc = "save" /\ UNCHANGED <<plan, history, idem, due, log, dec, grp, invoked, returned>>
    BY DEF LedgerSave
  <1>2. CallOf(w) \in Proposals /\ wrk[w] \in Worker /\ w \in DOMAIN plan.call /\ WorkerSound(w)
    BY <1>1, CallType
  <1>3. PICK p \in Proposals : p = CallOf(w) BY <1>2
  <1>4. StoreStep /\ (\A q \in Proposals : Calm(q)) /\ LogGrows /\ NoForeignDecision
    BY <1>1, QuietStore, QuietLog DEF IInv
  <1>5. CASE Returns(w, "error") /\ UNCHANGED ledger
    <2>1. KeepTools BY <1>1, <1>5 DEF KeepTools
    <2> QED BY <1>1, <1>2, <1>4, <1>5, <2>1, ReturnPreserves DEF Results
  <1>6. ASSUME NEW result \in {"success", "error"}, ledger' = [ledger EXCEPT ![p] = result],
               Returns(w, result), result = "success" => wrk[w].verdict = "executed"
        PROVE  IInv'
    <2> DEFINE me == Ended(wrk[w], result)
    <2>1. wrk \in [ToolWorkers -> Worker] /\ ledger \in [Proposals -> {"absent", "claimed", "success", "error"}]
      BY DEF IInv, CallsOK
    <2>2. wrk' = [wrk EXCEPT ![w] = me] BY <1>6, <2>1 DEF Returns, Ended
    <2>3. ledger'[p] = result /\ (\A q \in Proposals \ {p} : ledger'[q] = ledger[q]) /\ ToolTypes'
      BY <1>1, <1>6, <2>1 DEF ToolTypes, IInv, CallsOK
    <2>4. wrk[w].result # "success" BY <1>1, <1>3, <1>4, OwnerKnows DEF Owning
    <2>5. me \in Worker /\ WorkerNext(p, me) BY <1>2, <2>3, <2>4, EndedNext DEF Results
    <2> HIDE DEF me
    <2>6. result = "success" => Stands(p, "executed") /\ HasEvent(LifecycleEventId(p, "executed"))
      BY <1>1, <1>2, <1>3, <1>6 DEF WorkerSound
    <2>7. LedgerNext(p)
      BY <1>1, <2>3, <2>6 DEF LedgerNext, Stands, StandsNext, HasEvent, HasNext, IInv, Ledger
    <2>8. \A q \in Proposals \ {p} : Undisturbed(q) BY <1>1, <1>4, <2>3 DEF Undisturbed
    <2> QED BY <1>1, <1>3, <1>4, <2>2, <2>3, <2>5, <2>7, <2>8, OwnerPreserves DEF Owning
  <1> QED BY <1>3, <1>5, <1>6 DEF LedgerSave

LEMMA AbortPreserves ==
    ASSUME IInv, NEW w \in ToolWorkers, Abort(w) \/ WorkerCrash(w)
    PROVE  IInv'
  <1>1. wrk[w].pc # "idle" /\ KeepTools /\ UNCHANGED <<plan, history, idem, due, log, dec, grp>>
    BY DEF Abort, WorkerCrash, Alive
  <1>2. CallOf(w) \in Proposals /\ wrk[w] \in Worker /\ w \in DOMAIN plan.call BY <1>1, CallType
  <1>3. PICK p \in Proposals : p = CallOf(w) BY <1>2
  <1>4. StoreStep /\ (\A q \in Proposals : Calm(q)) /\ LogGrows /\ NoForeignDecision
    BY <1>1, QuietStore, QuietLog DEF IInv
  <1>5. WorkerNext(p, wrk[w]) BY <1>1, <1>2, <1>3, <1>4, WorkerFrame DEF Undisturbed, KeepTools
  <1>6. CASE Abort(w)
    <2> DEFINE me == [wrk[w] EXCEPT !.aborted = TRUE,
                                    !.result = IF wrk[w].pc \in {"record", "poll"} THEN @ ELSE "error"]
    <2>1. wrk' = [wrk EXCEPT ![w] = me] BY <1>6 DEF Abort
    <2>2. /\ me \in Worker /\ me.pc = wrk[w].pc /\ me.seen = wrk[w].seen /\ me.expected = wrk[w].expected
          /\ me.claimed = wrk[w].claimed /\ me.repair = wrk[w].repair /\ me.verdict = wrk[w].verdict
          /\ me.result = wrk[w].result \/ me.result = "error"
      BY <1>2 DEF Worker
    <2> HIDE DEF me
    <2>3. ClaimOf(me) = ClaimOf(wrk[w]) BY <2>2 DEF ClaimOf
    <2>4. WorkerNext(p, me) BY <1>5, <2>2, <2>3 DEF WorkerNext
    <2> QED BY <1>1, <1>2, <1>3, <1>4, <2>1, <2>2, <2>4, MovePreserves
  <1>7. CASE WorkerCrash(w)
    <2> DEFINE me == [wrk[w] EXCEPT !.pc = "dead"]
    <2>1. wrk' = [wrk EXCEPT ![w] = me] BY <1>7 DEF WorkerCrash, Goes
    <2>2. me \in Worker /\ me.pc = "dead" /\ me.result = wrk[w].result BY <1>2 DEF Worker, WorkerPc
    <2> HIDE DEF me
    <2>3. WorkerNext(p, me) BY <1>5, <2>2 DEF WorkerNext, Owning, Claiming
    <2> QED BY <1>1, <1>2, <1>3, <1>4, <2>1, <2>2, <2>3, MovePreserves DEF Owning
  <1> QED BY <1>6, <1>7

------------------------------------------------
LEMMA ToolsInitially ==
    ASSUME ToolsInit
    PROVE  IInv
  <1>1. /\ plan \in Plans /\ history = [p \in Proposals |-> <<>>] /\ idem = <<>> /\ due = {} /\ log = <<>>
        /\ dec = [k \in DecisionKeys |-> NoDecision] /\ grp = [pc |-> "idle", at |-> 0, outcome |-> "none"]
    BY DEF ToolsInit, ApprovalInit
  <1>2. /\ wrk = [w \in ToolWorkers |-> NewWorker] /\ ledger = [p \in Proposals |-> "absent"]
        /\ invoked = [p \in Proposals |-> 0] /\ returned = [p \in Proposals |-> {}]
    BY DEF ToolsInit
  <1>3. \A p \in Proposals : history[p] = <<>> /\ Len(history[p]) = 0 BY <1>1
  <1>4. \A p \in Proposals, s \in ProposalStatus : ~Stands(p, s)
    <2> TAKE p \in Proposals, s \in ProposalStatus
    <2>1. Len(history[p]) = 0 BY <1>3
    <2> QED BY <2>1, Versions DEF Stands
  <1>5. StoreOK
    <2>1. history \in [Proposals -> Seq(ProposalStatus)] BY <1>1
    <2>2. Shape BY <1>3 DEF Shape
    <2>3. idem \in Seq(KeptRecords) /\ KeptStands BY <1>1 DEF KeptStands
    <2> QED BY <2>1, <2>2, <2>3 DEF StoreOK, HistoryOK
  <1>6. LogOK /\ \A id : ~HasEvent(id)
    BY <1>1 DEF LogOK, LogStands, LogOrdered, LogClosed, HasEvent
  <1>7. CallsOK
    <2>1. NoDecision \in DecisionCall
      BY ApprovalsAssumption DEF NoDecision, DecisionCall, NoRecord
    <2>2. NewWorker \in Worker BY DEF NewWorker, Worker, NoRecord, WorkerPc
    <2>3. grp \in GroupCall
      <3>1. plan.group \in Seq(DecisionKeys) BY <1>1, ApprovalsAssumption
      <3>2. 0 \in 0..Len(plan.group) BY <3>1
      <3> QED BY <1>1, <3>2 DEF GroupCall
    <2> QED BY <1>1, <1>2, <2>1, <2>2, <2>3 DEF CallsOK
  <1>8. DecisionsOK
    <2>1. \A k \in DecisionKeys : dec[k].pc = "idle" /\ dec[k].outcome = "none" BY <1>1 DEF NoDecision
    <2>2. \A k \in DecisionKeys : ~Decides(k) BY <1>1, <1>6, <2>1 DEF Decides, Retained
    <2> QED BY <2>1, <2>2 DEF DecisionsOK, DecidedOnce, Deciding
  <1>9. GroupKnown BY <1>1 DEF GroupKnown
  <1>10. \A p \in Proposals : Version(p) = 0 BY <1>3 DEF Version
  <1>11. SettledLogged BY <1>10 DEF SettledLogged
  <1>12. \A w \in ToolWorkers : wrk[w].pc = "idle" /\ wrk[w].result = "none" BY <1>2 DEF NewWorker
  <1>13. Workers /\ Owners BY <1>12 DEF Workers, WorkerSound, Owners, Owning, Claiming
  <1>14. Ledger BY <1>2, <1>4, <1>10, Statuses DEF Ledger
  <1> QED BY <1>5, <1>6, <1>7, <1>8, <1>9, <1>11, <1>13, <1>14 DEF IInv

LEMMA ToolsStep ==
    ASSUME IInv, [ToolsNext]_toolVars
    PROVE  IInv'
  <1>1. CASE UNCHANGED toolVars
    <2>1. /\ plan' = plan /\ due' = due /\ grp' = grp /\ dec' = dec /\ history' = history /\ idem' = idem
          /\ log' = log /\ UNCHANGED approvedVars
      BY <1>1 DEF toolVars, approvedVars
    <2>2. StoreStep /\ LogGrows /\ NoForeignDecision /\ \A p \in Proposals : Calm(p)
      BY <2>1, QuietStore, QuietLog DEF IInv
    <2>3. DecisionChange BY <2>1 DEF DecisionChange, IInv, CallsOK
    <2>4. GroupKnown' BY <2>1 DEF IInv, GroupKnown, HasEvent
    <2>5. due' \subseteq Proposals /\ grp' \in GroupCall' BY <2>1 DEF IInv, CallsOK, GroupCall
    <2> QED BY <2>1, <2>2, <2>3, <2>4, <2>5, ApprovalKept
  <1>2. CASE ApprovalNext /\ UNCHANGED approvedVars
    <2>1. ASSUME NEW k \in DecisionKeys,
                 \/ Decide(k) \/ DecisionStep(k) \/ DecisionDenied(k) \/ DecisionStoreFails(k)
                 \/ DecisionAppendFails(k) \/ DecisionCrash(k)
          PROVE  IInv'
      BY <1>2, <2>1, DecidePreserves, DecisionTransitionPreserves, AppendPreserves, EndPreserves
         DEF DecisionStep
    <2>2. CASE DecideGroup \/ GroupListFails \/ GroupStep BY <1>2, <2>2, GroupPreserves
    <2>3. ASSUME NEW p \in Proposals, Lapse(p) PROVE IInv' BY <1>2, <2>3, LapsePreserves
    <2> QED BY <1>2, <2>1, <2>2, <2>3 DEF ApprovalNext
  <1>3. ASSUME NEW w \in ToolWorkers,
               \/ AwaitApproval(w) \/ ResumeCall(w) \/ WorkerStep(w)
               \/ ClaimFails(w) \/ SettleFails(w) \/ Abort(w) \/ WorkerCrash(w)
        PROVE  IInv'
    <2>1. CASE AwaitApproval(w) BY <2>1, AwaitApprovalPreserves
    <2>2. CASE ResumeCall(w) BY <2>2, ResumeCallPreserves
    <2>3. CASE RecordProposalCreated(w) BY <2>3, RecordProposalCreatedPreserves
    <2>4. CASE Poll(w) BY <2>4, PollPreserves
    <2>5. CASE ClaimGet(w) BY <2>5, ClaimGetPreserves
    <2>6. CASE ClaimAudit(w) BY <2>6, ClaimAuditPreserves
    <2>7. CASE ClaimTransition(w) BY <2>7, ClaimTransitionPreserves
    <2>8. CASE ClaimAppend(w) BY <2>8, ClaimAppendPreserves
    <2>9. CASE LedgerAdmit(w) BY <2>9, LedgerAdmitPreserves
    <2>10. CASE RecordStarted(w) BY <2>10, RecordStartedPreserves
    <2>11. CASE Dispatch(w) BY <2>11, DispatchPreserves
    <2>12. CASE ToolReturns(w) BY <2>12, ToolReturnsPreserves
    <2>13. CASE Settle(w) BY <2>13, SettlePreserves
    <2>14. CASE SettleAppend(w) BY <2>14, SettleAppendPreserves
    <2>15. CASE LedgerSave(w) BY <2>15, LedgerSavePreserves
    <2>16. CASE ClaimFails(w) BY <2>16, ClaimFailsPreserves
    <2>17. CASE SettleFails(w) BY <2>17, SettleFailsPreserves
    <2>18. CASE Abort(w) \/ WorkerCrash(w) BY <2>18, AbortPreserves
    <2> QED BY <1>3, <2>1, <2>2, <2>3, <2>4, <2>5, <2>6, <2>7, <2>8, <2>9, <2>10, <2>11, <2>12, <2>13,
               <2>14, <2>15, <2>16, <2>17, <2>18 DEF WorkerStep
  <1> QED BY <1>1, <1>2, <1>3 DEF ToolsNext

\* The inductive invariant: what the store, its idempotency cache, the audit
\* log, the deciding calls, the workers and the ledger know of a proposal
\* agrees, in every reachable state (approval-proposal-store.ts,
\* approval-coordinator.ts, approval-execution.ts, postgres/index.ts).
THEOREM ToolsInvariant == ToolsSpec => []IInv
  <1>1. ToolsInit => IInv BY ToolsInitially
  <1>2. IInv /\ [ToolsNext]_toolVars => IInv' BY ToolsStep
  <1> QED BY <1>1, <1>2, PTL DEF ToolsSpec

LEMMA AuditFollows ==
    ASSUME IInv
    PROVE  AuditSound
  <1>1. ToolsTypeOK
    <2>1. \A p \in Proposals : history[p] \in Seq(ProposalStatus) BY DEF IInv, StoreOK, HistoryOK
    <2>2. CallsOK BY DEF IInv
    <2>3. \A p \in Proposals : invoked[p] \in Nat
      <3>1. invoked \in [Proposals -> {0, 1}] BY <2>2 DEF CallsOK
      <3> QED BY <3>1
    <2>4. (\A k \in DecisionKeys : dec[k] \in DecisionCall) /\ (\A w \in ToolWorkers : wrk[w] \in Worker)
      BY <2>2 DEF CallsOK
    <2> QED BY <2>1, <2>2, <2>3, <2>4 DEF ToolsTypeOK, CallsOK
  <1>2. AuditTellsHistory
    <2> SUFFICES ASSUME NEW i \in DOMAIN log
                 PROVE  /\ log[i].version \in DOMAIN history[log[i].proposal]
                        /\ history[log[i].proposal][log[i].version] = log[i].status
                        /\ \A j \in DOMAIN log : i < j /\ log[i].proposal = log[j].proposal
                                                   => log[i].version < log[j].version
      BY DEF AuditTellsHistory
    <2>1. PICK p \in Proposals : p = log[i].proposal BY EventInLog, EventKinds DEF IInv
    <2>2. /\ Stands(p, log[i].status) /\ log[i].version \in Nat /\ log[i].version >= 1
          /\ log[i].version = VersionOf(log[i].status)
      BY <2>1, EventInLog DEF IInv
    <2>3. log[i].version <= Len(history[p]) /\ history[p][log[i].version] = log[i].status
      BY <2>2 DEF Stands
    <2>4. history[p] \in Seq(ProposalStatus) BY HistoryLength DEF IInv, StoreOK
    <2>5. log[i].version \in DOMAIN history[p] BY <2>2, <2>3, <2>4
    <2> QED BY <2>1, <2>3, <2>5 DEF IInv, LogOK, LogOrdered
  <1>3. AcceptedOnce
    <2>1. ASSUME NEW k \in DecisionKeys, dec[k].outcome = "accepted"
          PROVE  HasEvent(DecisionEventId(k)) /\ Decides(k)
      BY <2>1 DEF IInv, DecisionsOK, Deciding, Decides
    <2> SUFFICES ASSUME NEW k \in DecisionKeys, dec[k].outcome = "accepted"
                 PROVE  /\ history[Decision[k].proposal][2] = Decision[k].status
                        /\ \A l \in DecisionKeys \ {k} :
                              Decision[l].proposal = Decision[k].proposal => dec[l].outcome # "accepted"
      BY <2>1 DEF AcceptedOnce, HasEvent
    <2>2. Stands(Decision[k].proposal, Decision[k].status) /\ VersionOf(Decision[k].status) = 2
      BY <2>1, DecidesStands, DecisionType, Versions DEF IInv, DecisionsOK
    <2> QED BY <2>1, <2>2 DEF Stands, IInv, DecisionsOK, DecidedOnce
  <1> QED BY <1>1, <1>2, <1>3 DEF AuditSound

\* The audit log tells the proposal store's history, in order and once, and
\* one decision at most on a proposal is told "accepted", which is then the
\* one in the store and the log: for any number of proposals, decision keys,
\* retries, workers and faults and whatever the idempotency cache evicts
\* (decide, decideGroup, transition and appendDecisionEvent).
THEOREM AuditIsSound == ToolsSpec => []AuditSound
  <1>1. IInv => AuditSound BY AuditFollows
  <1> QED BY <1>1, ToolsInvariant, PTL

LEMMA VerdictFollows ==
    ASSUME IInv
    PROVE  VerdictAgrees
  <1> SUFFICES ASSUME NEW p \in Proposals
               PROVE  /\ invoked[p] <= 1
                      /\ Status(p) = "executed" => returned[p] = {"executed"}
                      /\ ledger[p] = "success" => /\ Status(p) = "executed"
                                                  /\ HasEvent(LifecycleEventId(p, "executed"))
                      /\ \A w \in DOMAIN plan.call :
                            CallOf(w) = p /\ wrk[w].result = "success" => ledger[p] = "success"
    BY DEF VerdictAgrees
  <1>1. HistoryOK BY DEF IInv, StoreOK
  <1>2. invoked[p] <= 1
    <2>1. invoked[p] \in {0, 1} BY DEF IInv, CallsOK
    <2> QED BY <2>1
  <1>3. Status(p) = "executed" => Stands(p, "executed")
    BY <1>1, StatusStands
  <1>4. Stands(p, "executed") => Status(p) = "executed"
    <2> SUFFICES ASSUME Stands(p, "executed") PROVE Status(p) = "executed" OBVIOUS
    <2> DEFINE n == Version(p)
    <2>1. 4 <= n /\ history[p][4] = "executed" BY Versions DEF Stands, Version
    <2>2. n \in Nat /\ n <= 4 /\ (history[p] = <<>> <=> n = 0) BY <1>1, HistoryLength
    <2>3. history[p] # <<>> => n = VersionOf(Status(p)) /\ Stands(p, Status(p)) BY <1>1, StatusStands
    <2> HIDE DEF n
    <2>4. n = 4 BY <2>1, <2>2
    <2> QED BY <2>1, <2>2, <2>3, <2>4 DEF Stands
  <1>5. ASSUME NEW w \in DOMAIN plan.call, CallOf(w) = p, wrk[w].result = "success"
        PROVE  ledger[p] = "success"
    <2>1. w \in ToolWorkers BY ToolPlansAssumption DEF IInv, CallsOK
    <2> QED BY <1>5, <2>1 DEF IInv, Workers, WorkerSound
  <1> QED BY <1>2, <1>3, <1>4, <1>5 DEF IInv, Ledger

\* A side effect is dispatched at most once whatever dies, repeats or takes
\* over, and the proposal, the ledger and the callers are told success only
\* after the tool returned it (executeAuthorized, getOrExecuteTool, settle).
THEOREM VerdictsAgree == ToolsSpec => []VerdictAgrees
  <1>1. IInv => VerdictAgrees BY VerdictFollows
  <1> QED BY <1>1, ToolsInvariant, PTL

Approved(p) ==
    /\ HasEvent(CreatedEventId(p)) /\ Confirmed(p, 2)
    /\ HasEvent(LifecycleEventId(p, "executing"))
    /\ SubSeq(history[p], 1, 3) = <<"pending", "confirmed", "executing">>
LEMMA DispatchApproved ==
    ASSUME IInv, NEW w \in ToolWorkers, Dispatch(w)
    PROVE  Approved(CallOf(w)) /\ \A p \in Proposals \ {CallOf(w)} : invoked'[p] = invoked[p]
  <1>1. wrk[w].pc = "acquire" BY DEF Dispatch
  <1>2. CallOf(w) \in Proposals /\ WorkerSound(w) BY <1>1, CallType
  <1>3. PICK p \in Proposals : p = CallOf(w) BY <1>2
  <1>4. /\ Confirmed(p, 2) /\ HasEvent(CreatedEventId(p)) /\ HasEvent(LifecycleEventId(p, "executing"))
        /\ Version(p) = 3
    BY <1>1, <1>2, <1>3 DEF WorkerSound, Owning, Confirmed
  <1>5. SubSeq(history[p], 1, 3) = <<"pending", "confirmed", "executing">>
    <2> DEFINE h == history[p]
    <2>1. h \in Seq(ProposalStatus) /\ Len(h) = 3 BY <1>4, HistoryLength DEF IInv, StoreOK, Version
    <2>2. /\ Version(p) >= 1 => h[1] = "pending"
          /\ Version(p) >= 3 => h[2] = "confirmed" /\ h[3] = "executing"
      BY DEF IInv, StoreOK, HistoryOK, Shape, Version
    <2>3. h[1] = "pending" /\ h[2] = "confirmed" /\ h[3] = "executing" BY <1>4, <2>2
    <2> HIDE DEF h
    <2>4. SubSeq(h, 1, 3) = h BY <2>1, SubSeqFull
    <2>5. h = <<h[1], h[2], h[3]>> BY <2>1
    <2> QED BY <2>3, <2>4, <2>5 DEF h
  <1>6. \A q \in Proposals \ {p} : invoked'[q] = invoked[q] BY <1>3 DEF Dispatch, IInv, CallsOK
  <1> QED BY <1>3, <1>4, <1>5, <1>6 DEF Approved

LEMMA OnlyDispatchInvokes ==
    ASSUME IInv, [ToolsNext]_toolVars, NEW p \in Proposals, invoked'[p] # invoked[p]
    PROVE  Approved(p)
  <1>1. invoked' # invoked OBVIOUS
  <1>2. PICK w \in ToolWorkers : Dispatch(w)
    BY <1>1, ZenonT(60) DEF ToolsNext, toolVars, approvedVars, AwaitApproval, ResumeCall, WorkerStep, ClaimFails,
                SettleFails, Abort, WorkerCrash, RecordProposalCreated, Poll, ClaimGet, ClaimAudit,
                ClaimTransition, ClaimAppend, LedgerAdmit, RecordStarted, ToolReturns, Settle,
                SettleAppend, LedgerSave, KeepTools
  <1> QED BY <1>2, DispatchApproved

\* When a tool is dispatched its proposal was created, confirmed at the
\* version the worker was given and set to executing, and the log says so
\* (hasExactConfirmation, appendLifecycleEvent and executeAuthorized).
THEOREM DispatchNeedsApproval == ToolsSpec => DispatchedIsApproved
  <1>1. IInv /\ [ToolsNext]_toolVars =>
          [\A p \in Proposals : invoked'[p] # invoked[p] =>
              /\ HasEvent(CreatedEventId(p)) /\ Confirmed(p, 2)
              /\ HasEvent(LifecycleEventId(p, "executing"))
              /\ SubSeq(history[p], 1, 3) = <<"pending", "confirmed", "executing">>]_toolVars
    BY OnlyDispatchInvokes DEF Approved
  <1> QED BY <1>1, ToolsInvariant, PTL DEF ToolsSpec, DispatchedIsApproved
================================================
