# Verification of handrail-ai

TLA+ models of the parts of handrail-ai that several processes, tabs or network
calls touch at once, the TLC runs that check them on small instances, and
TLAPS proofs of the safety of the runtime, the durable transport, the tools, the
event stores and synchronization for every instance. Paths below are relative
to the repository's `src/`; `runtime.ts` is `src/runtime.ts`.

## The system

handrail-ai keeps an assistant conversation as a durable, append-only log of
events. A *runtime* in a browser tab, a device or a server admits turns, asks a
*transport* to run them, and projects the frames it streams into the log; other
runtimes on the same conversation do the same concurrently. Behind the
transport a server keeps a durable record of each turn, which worker processes
run under a lease, calls a model provider, and runs tools, some of them only
after a human approved. Around that, clients synchronize the log, hold realtime
voice calls, upload attachments, dictate, and show catalogs, activity and
presence.

| Component | State | Operations | What is hard | What makes it correct |
|---|---|---|---|---|
| Conversation runtime (`runtime.ts`, `retry.ts`) | snapshot and revision, per-turn protocol state, drivers, cancellations, the mutation boundary | `sendMessage`, `continueTurn`, `resumeTurn`, `stopObserving`, `cancelTurn`, `synchronize`, `destroy`, hydration; retries | several runtimes on one log; every `await` between a check and an append; lost acknowledgements; disconnects and resumes; a cancellation racing the start | one active turn, each frame projected once, checkpoints behind the log, truthful cancellation results, every call returns |
| Reducer and snapshot store (`conversation/reducer.ts`, `store.ts`) | the projection, subscribers | `reduceConversationEvent`, `applyEvents` | late and duplicate events; notification order | terminal turns are final |
| Event stores (`conversation/event-store.ts`, `dual-write-event-store.ts`, `browser/indexeddb-event-store.ts`, `postgres/index.ts`) | logs | `append`, `load`, repair | retries in a new envelope, a shadow that fails | identities once, no store more lenient than the reference, the shadow a prefix |
| Durable transport (`transports/durable.ts`) | one record per turn with lease, attempt, events, cancellation and terminal | claim, decode, dispatch, append, monitor, settle, cancel, observe, resume, recover | takeover while the old worker still streams, lost replies, process loss, stale reads | frames in the order of attempts, a closed record is final, cancellation honoured and forwarded once, observers see all of it, every turn ends |
| Gateway and managed transports (`transports/application-gateway.ts`, `managed-runtime*.ts`, `sse.ts`) | retained turns, resume tokens, connections | start, stream, resume | two connections that break independently, processes that do not know the turn | every event once and in order |
| Direct transport and adapters (`transports/direct-provider.ts`, `providers/*`) | adapter state, observation | start, pump, cancel, continue | streams that end early or break their protocol | one terminal event that matches the result |
| Usage (`usage.ts`, `server/usage-control.ts`, `postgres/index.ts`) | outbox | capture, flush, acknowledge | processes that flush the same receipts, lost answers | counted once, delivered or parked |
| Provider context (`provider-context*.ts`, `providers/openai-context.ts`) | compaction checkpoints | load, measure, compact, save | concurrent preflights at different revisions | a turn never starts from history it has not read |
| Trusted server (`server/trusted-server.ts`) | reservations, leases | one protected request | deadlines that overtake hooks | the answer agrees with the record |
| Web search (`web-search.ts`) | entries by key | `search` | joined calls, a full table | one search per key at a time |
| Approvals (`conversation/approval-*.ts`, `tools/approval-execution.ts`) | versioned proposals, audit events | create, decide, decide a group, expire, claim, settle | a decision and its event in two stores; execution retried | approved before it runs, run at most once, verdicts agree |
| Tool executor and loops (`tools/executor.ts`, `loop.ts`, `server/provider-tool-loop.ts`) | ledger, limiter, budgets | execute, join, abort; iterate, pause, resume | timeouts racing results, crashes between results | executed once per key, slots accounted, within budget |
| Synchronization (`sync/*`) | pending mutations, baseline, local log | start, queue, push, pull, reconnect, stop | retries of applied mutations, tabs sharing a store | nothing lost or applied twice, everything settles |
| Realtime calls and sessions (`realtime/*`, `postgres/realtime-*.ts`, `providers/openai-realtime.ts`, `browser/realtime-voice.ts`) | call record, lease, session, bridge, media | create, attach, renew, end; tools; start, hangup | leases that run out, tools that outlive a call, media that arrives late | one call at the provider, tools end with it, nothing left open |
| Catalog, registry, workspace, picker, titles (`conversation/*`, `react/conversation-picker.tsx`) | descriptors, runtimes, rows | list and mutate, open and release, pick | destroy racing open, pages of a changing list | mutations once, a runtime lives while it is held |
| Activity and presence (`conversation/activity.ts`, `presence/*`) | records with positions and times | reconcile, publish, merge, poll | records late, reordered or lost | nothing older replaces something newer |
| Attachments and dictation (`attachments/*`, `react/use-conversation-composer.ts`, `react/transcription.tsx`, `browser/audio.ts`) | drafts, staged files, captures | add, upload, send; record, transcribe | answers that come after a switch | what was sent resolves, what was dropped stays dropped |
| Approval review (`react/approval-review.tsx`, `react/use-conversation-approvals.ts`) | rows, decision states, idempotency keys, polls | load, poll, decide, change context or conversation, unmount | answers that are lost, or come after a reload | what is shown as decided is stored, and no late read undoes it |
| Protocol records, React rendering, integrations | record shapes, views | validation, rendering | data conversion | not modelled |

`PROJECT.json` lists every component with its sources and status, and under
`hazards` what is hard to test at the line where it bites.

## Modules

| Module | Models |
|---|---|
| `Conversation` | the abstract specification: what a reader of a conversation may see |
| `ConversationReducer` | `reduceConversationEvent`: turn, message, tool-call, cancellation and receipt cases |
| `ConversationRuntime` | any number of runtimes on one log and one remote transport |
| `DurableTransport` | any number of workers, observers and cancellation keys on one turn record |
| `Approvals`, `ApprovedTools` | proposals, decisions and their audit; workers that await or resume a call, claim it and run it. `ApprovedTools` extends `Approvals` |
| `ToolExecutor`, `ToolLoop` | the executor of one process; the durable and the provider tool loop |
| `SyncAdapter`, `ConversationSync` | the server's and the client's half of synchronization. `ConversationSync` extends `SyncAdapter` |
| `EventStores` | reference, PostgreSQL and dual-write append |
| `RemoteTurn` | a turn through gateway and managed runtime |
| `ProviderAdapters`, `DirectProvider` | what five adapters make of a stream; the transport over them, which extends the first |
| `UsageReceipts`, `ProviderContext`, `TrustedServer`, `WebSearch` | the components of these names |
| `RealtimeCalls`, `RealtimeSessions`, `RealtimeVoice` | the call's record and lease; the server's session; the browser's controller |
| `ConversationCatalog`, `RuntimeRegistry`, `ConversationPicker`, `TitleGeneration` | the components of these names |
| `ConversationActivity`, `Presence`, `Attachments`, `Transcription`, `ApprovalReview` | the components of these names |
| `RealtimeComponents`, `ClientComponents`, `ServerComponents` | components with open constants, and their properties; `MCClient` and `MCServer` give values, the proofs extend them |
| `MC...` | instances and symmetry for TLC |
| `ConversationRuntimeProofs`, `ConversationProjectionProofs` | theorems about the reducer and the runtimes; about what readers of the log see, which extends the first |
| `DurabilityProofs` | theorems about `DurableTransport` and `EventStores` |
| `ToolProofs`, `ApprovedToolsProofs` | theorems about `ToolExecutor` and `ToolLoop`; about `Approvals` and `ApprovedTools` |
| `ConversationSyncProofs` | theorems about `SyncAdapter` and `ConversationSync` |
| `RealtimeProofs` | theorems about `RealtimeCalls`, `RealtimeSessions` and `RealtimeVoice` |
| `ComponentProofs` | theorems about `RuntimeRegistry`, `RemoteTurn`, `TrustedServer`, `Transcription`, `Presence`, `ConversationActivity`, `WebSearch`, `ProviderContext`, `Attachments` and `ConversationPicker` |

Everywhere, an action is the code between two awaits: its guard is the check
made after the wait, so a value read before an await is stale in the model
whenever it can be in the code. Every other actor may step between two actions.
The comment at the head of a module names its files and what it abstracts.

### ConversationRuntime

`log` is the store's log, each event with the projection it leads to, so that
the state at revision *n* is `log[n].st`. `rev[r]` and `meta[r]` are the
revisions of `r`'s snapshot and of its remembered metadata; they differ while a
runtime hydrates, because it reads the log twice (`runtime.ts:409`). `proto` is
`protocolByTurn`, `drv[r][t]` the program counter and frame state of
`runTurnWithRetry` and `observeTransport`, `can` the cancellation operation,
`lock` the mutation boundary and the number of revision conflicts its holder
met, `stopped` and `asked` the two sets of suppressed turns, and `remote[t]`
the turn as the transport runs it.

The actions are admission (`AdmissionCatchUp`, `AdmitTurn`), an attempt
(`StartAttempt`, `StartCall`, `StartReply`, `QueueTurn`, `ResumeCall`), frames
(`ReceiveFrame`, `ProjectFrame`), the end of an observation (`LinkReceipt`,
`SettleObservation`, `PersistCheckpoint`, `PersistTerminal`), retries
(`ScheduleRetry`, `ExhaustRetries`, `FailTurn`), cancellation (`CancelTurn`,
`CancelPreflight`, `CancelUnsupported`, `RequestCancellation`,
`SendCancellation`), and `Synchronize`, `Crash`, `Restart`, `Hydrate`.

An append has four outcomes. It is stored; the store reports a conflict, the
snapshot catches up and the drafts are generated again, up to
`RevisionRetries` times; the store is unavailable; or it stored the events and
the acknowledgement was lost. The first is one step because generation and
compare-and-swap happen under the boundary: what another runtime does in
between either makes the swap fail, or commutes.

Abstractions: a frame is its position in `Script`, a message id the runtime
and frame that minted it, text the sequence of frame numbers. Attribution,
timestamps, validation, citations and the contents of tool calls are left out.
After a frame that failed, the observation is taken to end as disconnected, so
the receipt of a result that still arrives (`runtime.ts:721-728`) is not linked;
a catch-up read that fails and `waiting_for_tool_result` are left out too.

### DurableTransport

`rec` is the record, `expired` whether the clock has passed its lease,
`run[w]` the `run()` of worker `w`, `can[k]` the cancellation call with
idempotency key `k`, `obs[o]` a client's observation, with `seen`, everything
it was ever shown. `starts` and `forwards` count calls to the delegate.
`update()` retries a pure function until its compare-and-set succeeds and is
one step; a store failure before or after the write, and giving up, lead to the
catch clause. `cancelTurn` loads the record and updates it in a second step,
as in the code. A frame's checkpoint is its number in the delegate's stream,
which a later attempt repeats. The delegate may ignore a cancellation and
complete. Status publication and diagnostics are left out.

### Tools

`Approvals` represents a proposal by the statuses it has had, so its version is
the length of its history. A decision is two writes (`DecisionTransition`,
`AppendDecisionEvent`) with a gap in which it may fail, crash or be repeated;
a group decision is the same over several. `ApprovedTools` adds workers: one
creates the proposal and polls it (`AwaitApproval`, `Poll`), another resumes
the call with the host's evidence (`ResumeCall`); both claim it (`ClaimGet` to
`ClaimAppend`), run the tool behind the durable ledger (`LedgerAdmit`,
`Dispatch`, `ToolReturns`, `LedgerSave`) and settle the proposal. `ToolExecutor`
separates a request's caller, the body that the ledger runs and the invocation
itself, because a caller leaves on abort or timeout while the others go on; a
claim that is answered after the abort still makes a ledger entry.
`ToolLoop` runs the durable loop again after a crash or a pause, from what its
events say, and the provider loop as one stream over several invocations; a
worker quits at an abort or an unnamed call (`WorkerQuits`), and calls left
without a result end the run as failed.

### Synchronization

`SyncAdapter` keeps the canonical log and the appends that clients gave up but
the server may still carry out (`LateStep`). `ConversationSync` has one record
per device: view, pending mutations, the task of the operation that runs, the
connection, and, per browser, the saved baseline and local log that tabs share.
`EventStores` runs the same batches against the reference and PostgreSQL, and
the dual-write store with its repair. `Load` reads both stores in one step
(`sync/coordinator.ts:694`).

### Server side

`RemoteTurn` has one connection of the client to a process and one of that
process to the managed runtime; either may break between any two events, and a
resume may reach a process that must read the turn's token from the shared
store. `ProviderAdapters` are pure operators, one `Take` and `Finish` for the
five adapters; `DirectProvider` lets the provider send any chunks, the pump
check what is yielded, and an observer leave or cancel. `UsageReceipts`
normalises every small usage report of every adapter and delivers receipts
through an outbox with versions, claims and two flushing processes.
`ProviderContext` lets preflights at different positions of the conversation
load, compact and save through one bounded store. In `TrustedServer` a hook
commits at the host in one step and its reply arrives in another; a deadline or
cancellation may come before, between or after the two, and no hook commits
once the signal has aborted, as the protector asks of its host. In `WebSearch`
they may overtake any hook, whose later answer is dropped.

### Client side

`RealtimeCalls` has a global clock for leases; replies may be lost after the
write. `RealtimeSessions` runs event handlers concurrently and gives way at
each await. In `RealtimeVoice` the page's promises settle at any time, also
after the end. `ConversationCatalog` compares with what each caller should have
caused and what each page should have shown. `RuntimeRegistry` names a runtime
after the opener that built it. `ApprovalReview` has the two hooks side by side
over one store in which others decide; a decision's call carries the hook's
`generation`, so that a result shown can be told from one asked for under an
earlier permission context. The remaining modules follow the same pattern:
counters, tokens or generations in the code tell a late answer from a wanted
one, and the model lets every answer be late.

## Runs

Symmetry is over runtimes, in `projection` and `admission`, which check no
liveness. Deadlock is not checked, because these systems stop when the work is
over; progress is stated by temporal properties instead.

| Run | Instance | Shows |
|---|---|---|
| `projection` | 2 runtimes, 1 turn, started and two text frames, disconnect, crash, unavailable store and lost acknowledgement (2 faults, 2 resumes) | `ProjectionExact`: each frame once, checkpoints never ahead of the log, one assistant message; readers see `Conversation` (refinement) |
| `cancellation` | 2 runtimes, 1 turn, two frames, cancel and synchronize, a rejected cancellation; fairness | the log agrees with the remote outcome, results are truthful, turn and calls end |
| `admission` | 2 runtimes, 2 turns, continuation and synchronize, failing appends and starts, lost acknowledgements, crashes (2 faults) | one active turn; nothing runs remotely before it is durable |
| `recovery` | 1 runtime, text and tool frames, provider context, receipts, no authoritative cancellation, eight kinds of fault (2 in a behaviour) | faithful replays are accepted and receipts linked once |
| `durable` | 2 workers, 1 observer, 1 key, 1 frame, 2 attempts, seven kinds of fault (1 in a behaviour); fairness | `TransportSafe`, `RecordMovesOn`, and that every turn and observation ends |
| `tools` | 2 workers on one call or two, two competing decisions, a group, expiry, crashes and failing stores; 3 requests with 1 slot; 2 iterations, 2 calls, 3 runs of a loop; fairness | dispatched only when approved, at most once, verdicts and audit agree, a stored decision is logged, requests end |
| `sync` | 1 device with two mutations and every fault; 1 device and a writer; 2 devices; 2 tabs; 5 callers of an event store; fairness | nothing accepted is lost or applied twice; replicas follow the log; views do not go back and mutations settle |
| `client` | twelve components, each with several scenarios (`MCClient`) | see the properties' comments |
| `server` | six components, each with several scenarios (`MCServer`); fairness of the usage flush | see the properties' comments |
| `two_messages`, `rate_limited`, `stranded_reservation` | the instances above or smaller ones | see Findings |

The bounds suffice for the cases the properties are about: two runtimes,
workers, tabs or processes make every race between them; two frames let one be
projected by each; two faults allow a failure and a failure of its recovery;
two attempts allow a takeover and exhaustion; tables with one place are full at
the second key; three turns of a loop exceed its two iterations. `durable` has
one fault and one frame because it also checks liveness; what it checks of
safety is proved for every value of both. The same is true of all the
invariants of `tools` and `sync`, and of most of the others (see Proofs).
`MCClient`, `MCServer`, `MCTools` and `MCSync` put components that share no
state into one run: `focus` chooses one per behaviour, which keeps the state
spaces additive.

`PROJECT.json` gives, for each property, a mutant of the code's model that
violates it: a dropped lease check, a checkpoint that runs ahead, a missing
recheck after an await, a slot given back with the caller, and so on.

### Fairness

Of the runtimes: promise continuations run (`DriverStep`, `CancelStep`), the
synchronization timer fires (`runtime.ts:1566-1577`, README "Poll failures are
diagnosed and retried"), a host reopens a runtime that crashed, and a remote
turn that was started ends. Nothing is assumed of the caller: no call is ever
made fairly, nor retried.

Of the durable transport: a live process continues its run and its
observations, the clock passes a lease that is not renewed, a dead process is
restarted, and hosts scan for recoverable turns: `docs/platform-contracts.md`
asks them to run a bounded `recoverPending` scan from one or more workers. The
monitor is not assumed to run, nor is a client assumed to come back. Delegate
streams end.

Of the tools: a live process goes on and its timeouts fire; a decision whose
answer was lost is repeated by its caller, as the repeatable outcomes of the
coordinator ask. No tool and no policy is assumed to answer.

Of synchronization: a coordinator that is not stopped goes on, which includes
that the server answers or is given up and that the reconnect timer fires.
`start()` is the host's call and is not assumed, first or after an error.

Of usage: the retry timer of every process fires (`server/assistant.ts`) and
its flush goes on. Faults are bounded, so the retries meet a working store.

### Findings

Shown by a run:

- `two_messages`: a runtime that learns another projector's first text frame
  through `synchronize()` mints a second assistant message (`runtime.ts:698`).
- `rate_limited`: adapters publish a rate limit as "upstream" where the direct
  transport expects "capacity" and turns it into a non-retryable
  `internal_error` (`providers/openai.ts:811`, `direct-provider.ts:155-243`).
- `stranded_reservation`: the host commits a reservation or a lease, and the
  deadline overtakes the reply, which `protectedAwait` drops; nobody settles or
  releases what was granted (`server/trusted-server.ts:830`). The hook keeps to
  the contract of lines 323-324 and commits nothing after the abort.

Met while modelling, with the model's property that fails when it is checked,
where there is one:

- A cancellation waiting for the transport's turn id is notified before the
  runtime remembers that id, and goes on waiting when no later event comes
  (`runtime.ts:489`, `1375`; `WaitingIsWoken` with `synchronize` and `stop`).
- `cancelTurn` answers `remoteMayStillBeRunning: false` while `startTurn` is in
  flight (`runtime.ts:1434`; `CancellationTruthful` with `ProviderContext` and
  `cancel`).
- After a usage frame the checkpoint and the expected sequence differ, and a
  resumed turn's next frame is refused (`runtime.ts:662`, `2258`;
  `ReplayAccepted` with a usage frame).
- A conversation cleared through the workspace leaves a destroyed runtime open
  in it (`conversation/workspace.ts:83-102`, `138`, against "Cleared identities
  remain openable", `runtime-registry.ts:180`; `WorkspaceServesLive`).
- A mutation batch of which the server holds a part is refused for good
  (`sync/event-store-adapter.ts:236-250`, `coordinator.ts:445-465`, against
  README "Lost-response retries return the original durable event";
  `LostResponsesRecovered`).
- The dual-write store over the in-memory reference can leave its shadow beside
  the primary (`conversation/dual-write-event-store.ts:33-38`; `ShadowFollows`).
- A lease that ran out is revived by a late renewal, so the workspace's evidence
  goes back (`postgres/realtime-calls.ts:135-169`, `realtime/workspace.ts:170`;
  `EvidenceNeverRegresses`).
- A denied batch whose removal cannot be saved is dropped without
  `onMutationRejected` (`sync/coordinator.ts:429-443`); the model counts it as
  refused.
- A worker that takes over an awaited call may find its own creation key
  answered with an older version (`server/assistant.ts:455-463`,
  `conversation/approval-proposal-store.ts:866-880`; `ResumeIsIdempotent`).
- A resumed tool loop counts iterations anew (`tools/loop.ts:339-356`;
  `WithinIterations`).
- A caller that joins a search, a title, a compaction or a tool run is cancelled
  with the first caller (`web-search.ts:608-633`, `title-generation.ts:190-217`,
  `providers/openai-context.ts:513`, `tools/executor.ts:745`); a failed search
  stays cached (`web-search.ts:573-590`).
- Opening A, B and A again in the picker can end with the first answer
  (`react/conversation-picker.tsx:488-497`); a list under way brings back a
  deleted row (`372-399`).
- A decision in flight when the permission context changes stays "busy" for good
  if `initialProposals` holds its row: the cleanup forgets the decision and
  `applyProposals` keeps its state (`react/approval-review.tsx:323-331`,
  `376-384`; `OneDecisionShown` without its condition on `plan.initial`).
- Two concurrent opens of one conversation in a workspace keep one of them
  (`conversation/workspace.ts:84-92`); an expired staged record blocks a new
  upload under its key (`attachments/staging.ts:71`), and one the host consumed
  is found by key without its bytes (`69-72`, `101-104`, not modelled); a failed `LISTEN` stays
  cached (`postgres/live-pubsub.ts:243-261`).

The passing runs avoid the calls that trigger the runtime's findings, one at a
time, so that everything else is checked beyond them: `projection` has no
`synchronize` call, `cancellation` no provider context, `recovery` no usage
frame. The lost wakeup stays possible in `cancellation`: its calls
still return, because the turn's end wakes the waiter. `ViewsSettle` excepts a
batch that the server holds in part, and `StoresSound` states the shadow's
property over PostgreSQL.

## Proofs

Every theorem holds for every value of the constants that satisfies the
assumptions of the module it is about. Each proof is of one shape: the initial
states satisfy an inductive invariant, every action preserves it, and the
property follows. The inductive invariants were checked by TLC on instances of
the runs before they were proved.

The assumptions say that constants have their types, that `None` and `Nobody`
are fresh, that limits are positive, that the requests of an executor are
finitely many, and three things about the inputs:

- `ScriptAssumption`: a script begins with its only started frame;
- `StoresAssumption`: a batch passes `validateAppend`, which refuses one that
  repeats an identity (`conversation/event-store.ts`);
- `SyncAssumption`: mutation identities are unique. `queueMutation` returns at
  once for a mutation that is already pending (`sync/coordinator.ts:733-748`),
  so if the caller queued one again after a save of it had failed, the second
  call would resolve although nothing is saved. No mutation is queued twice in
  the model.

Where a theorem needs more, its statement says so with `ASSUME` and a named
hypothesis; the paragraphs below say what each means. The constants of the
passing runs satisfy them.

`ConversationRuntimeProofs`: `TypesHold`, `OneActiveTurn`, `RemoteIsDurable`,
`TerminalIsFinal`. Of the reducer: `Reduce` preserves types; a good state (its
open turn is the active one, every known turn was introduced) stays good under
any event that fits; terminal turns are stable. `SingleActiveTurn` is not
inductive alone: an event for an unknown turn would open it beside the active
one. `IInv` adds that every state of the log is good, that turns once begun
stay begun, that no runtime is ahead of the log, and `OpsBegun`: whatever a
runtime does for a turn beyond its admission, the log holds that turn. So
admission, which rechecks the active turn on the revision it appends to, is the
only step that can open one.

`ConversationProjectionProofs`: `FramesProjectedOnce`, `ProjectionIsExact`,
`OutcomesAgree`, `CancellationsTruthful`, and the refinement `ReadersServed`.
A step of the system is first summed up by what it may do to the log, to the
remote and to one operation (`Seen`, `NextSeen`); the rest is proved from that
summary, in layers that each use the ones before:

- `PInv`: an observation that stands at a frame has everything before it in
  the log, and holds that frame only if the log does not. Hence frames are
  projected once and in order, and no checkpoint is ahead of the log, whoever
  resumes, crashes or loses an acknowledgement. No hypothesis.
- `Outcome`: the log shows a turn completed or cancelled only as the remote
  ended it, except for a preflight cancellation. `OutcomesAgree` assumes
  `NoPreflight`: there is no provider context, or nobody cancels. With both, a
  cancellation closes the turn in the log before the transport knows it (a
  finding above).
- `SInv`: a turn whose transport id nobody knows is still being started, or
  nobody can act on it any more. `CancellationsTruthful` assumes `NoPreflight`
  and that no `startTurn` fails which the remote has accepted nevertheless
  (`"startRejected"` is not among the faults): such a turn runs and no runtime
  can learn its id.
- `Shown`: the text of a turn is made of the text frames that the log holds, in
  the order of the stream. As the terminal frame comes last, a completed turn
  shows all of it. From this and `SInv`, `ReadersServed`: every append is a step
  of `Conversation` or changes nothing that readers see, under `NoPreflight`.
- `MInv`: an operation that may write text has the one message of its turn.
  `ProjectionIsExact` assumes `OwnReadings` (one turn, whose callers neither
  cancel nor synchronize), without which a runtime can learn of another's text
  between choosing a message and writing to it: that is `two_messages`.

`DurabilityProofs`, of the transport: `TransportIsSafe` and
`RecordOnlyMovesOn`, all that run `durable` checks of safety, from a theorem
for each part. A record with an owner is running (`Owned`); an owner still at
work is at work on the record's attempt (`Held`), so a takeover deprives the
old worker of every write, and what the owner appends belongs to the latest
attempt; before the record exists, and for a turn cancelled early, no worker is
past its claim (`NotBegun`); once the delegate was asked to cancel, whoever
claims the turn settles it at once (`Asked`). `Shown` says that a client has
seen a prefix of the events and that its cursor names one of them. A resumed
observation starts at the first event with the cursor, hence inside that
prefix; the existence of a first one is the well-foundedness of the naturals.

Of the stores: `StoresAreSound`. The shadow is written long after the
primary, so the invariant says that a batch on its way to the shadow still
stands in the primary where its revisions say (`OnTheWay`), and that what a
reconciliation has read is a beginning of the primary (`ReadBefore`).

`ApprovedToolsProofs`: `DispatchNeedsApproval`, `VerdictsAgree` and
`AuditIsSound`, for any workers, competing decisions, groups and faults and any
size of the idempotency cache. A proposal's history only grows, along pending,
a decision, executing and a verdict, so that "version v had status s" stays
true once it is; what the cache, the audit log, the deciding calls and the
workers remember are facts of this kind (`StoreOK`, `LogOK`, `CallsOK`,
`DecisionsOK`, `Workers`). One key at most decides a proposal, although its
record may have been evicted; the log holds a version only after the earlier
ones; and between the ledger's claim and its result at most one worker owns the
call, which alone may take the history to its verdict (`Owners`, `Ledger`). The
last is what makes the dispatch unique: two workers may both be told that they
claimed the call, but the ledger admits one.

`ToolProofs`, of the executor: `ExecutorIsSound`. The invariant says where a
run came from: a body exists only for the request its key's ledger entry names
(`Runs`), who waits for the ledger asked for the same as the entry (`Joined`),
and a success that a caller was told comes from a body that succeeded
(`Produced`).

Of the loops: `LoopIsSound` for the durable loop, `StreamIsSound` for the
provider loop. The call budget is not inductive by itself. The running total,
the progress a paused run returned and the number of durably discovered calls
are the same number, except that a turn whose calls were just discovered is not
in the total yet (`LoopFits`); every turn but the newest has all its results
(`DurableOK`). The provider loop's sequence number counts what it has emitted
(`Numbered`).

`ConversationSyncProofs`: `ServerLogIsSound` and `ReplicasAreSound`, for any
devices, shared stores and writers. On the server, appends under way name no
mutation twice and expect no revision beyond the log (`AppendsFit`); all
attempts of one writer's append are the same append, whose batch is in the log
as a whole or not at all, and a conflict has shown that the revision they all
expect is gone (`WritersFit`), so that an abandoned attempt cannot make the
answer "conflict" false later. On the client, a coordinator that knows the
stored generation has in memory whatever is saved and pending, unless it is
settled (`Known`); this is why its next save loses nothing, and why the
generation check is needed with two tabs. What an acknowledgement lets a
coordinator drop is in the log (`TaskFits`), and a mutation is saved before its
`queueMutation` resolves (`Queueing`). What a page, an acknowledgement or a
snapshot adds to a projection or a local log stands at that place in the
canonical log, hence each stays a beginning of it.

`RealtimeProofs`:

- `NothingIsLeftOpen`. What terminates the call first decides how it ended
  (`VoiceGood`): from then on every resource is released or belongs to a promise
  that will release it when it settles, and a session that the server knows of
  has been hung up or will be by the bootstrap that is still under way.
- `CallsAreTruthful`, where workers, their heartbeats and those who end the call
  are told apart (`CallActors`). An update carries the version it read, so one
  that is stored succeeds the record it replaces (`CallsInv`); the worker that
  claimed the creation is the one that asks the provider; a lease is renewed in
  the record before the worker's own deadline moves.
- `ReadingsAreTruthful`, where there are finitely many tool calls that end
  completed or failed (`ToolsFinish`). The counts of a version only grow, so the
  tokens displayed are in a line, and the greatest one is what a marker may
  reach (`ReadInv`).
- `SessionsAreSettled`, where an event of the provider names a tool call
  (`SessionEvents`). A remembered call has one handler (`OneAtATime`), which
  makes its output unique (`OutputsSent`); the bridge forgets a session, and
  refuses whatever was being bound, before the host cleans it up
  (`BridgeKnows`); and the number of an event tells what state it announces
  (`EventsInTurn`), so a client that has applied them all agrees.

`ComponentProofs`, each over an instance of the component's module:

- `RuntimesAreHeld`: whoever replaces an entry of the registry destroys the
  runtime it held, and a construction that is no longer wanted destroys its own.
- `EventsObservedExactly` (the number of events is a natural): what the client
  applied, what is on the wire, what is buffered and the last event taken line
  up without a gap, on both connections, so that a token names the place to
  resume from.
- `AnswersStand` (plans are those of the host's hooks): a reservation is the
  host's record of its key until settled, and a record is completed just when
  its request is about to be, or was, answered with success.
- `TranscriptsAreWanted`: at most one run of dictation has not been aborted, it
  is of the hook's generation, and what was given up is of an earlier one.
- `NewestIsShown` (the time to live is an integer): the later a record was
  published the later its logical timestamp, and what the viewer holds is the
  latest it received unless all of it has expired.
- `ActivityGoesForward`, an action property: what is published, on its way or
  shown has been stored, and the stored record only goes on.
- `SearchesRunOnce` (the adapter returns lists of candidates): a search that
  runs is remembered under its key, because room is made only of what is
  settled; who waits for a search waits for one of its own query.
- `ContextsMatchHistory` (a preflight's revision is an integer): whatever a
  preflight holds, also between two awaits, fits the history it has read; there
  is one compaction per key, of its owner's position, and who joins one has
  that position.
- `SentReferencesResolve` (a draft's tabs are composers, the time to live is a
  natural): a reference carries the tab, item and token of the call that made
  it, and tokens only grow, so references are never made twice; a staged record
  has its bytes and its maker is answered, hence the loser of a race, which is
  not, removes bytes that no record names; and every reference that an answer,
  an item or a message carries resolves or has expired, because records go only
  after their time.
- `PickerKeepsItsOwn` (conversations are numbered from one): a runtime that is
  owned was asked for by an open call of its conversation; a call of the present
  generation was made in the present scope, so that late answers of an earlier
  one change nothing; no entry or view lives but of what is owned.

Only model-checked:

- liveness and `ENABLED`, which are beyond the prover: `EverythingEnds`,
  `TransportEnds`, `RequestsEnd`, `StoredDecisionIsLogged`, `ViewsSettle`,
  `UsageAccounted`, and with the last the usage outbox;
- `RecoveryExact` of the runtime, which is about scripts whose frames are all
  durable and one runtime, and does not hold for every value of the constants
  (the usage-frame finding);
- `StreamTold`: what `Take` and `Finish` of the adapters make of a whole stream
  would need induction over it;
- `ViewsSound`: that the catalog's pages are sorted and exact needs induction
  over the list, and a mutation is found again only while its key is retained;
  the inductive invariant of the approval review is yet to be found.

## Plan

Left to prove: the parts of `ViewsSound` that are about the approval review,
and about versions and retained keys of the catalog; and the safety of the usage
outbox apart from its delivery.

Then the composition of `DurableTransport` with a runtime that projects what an
observer sees, and of `ToolLoop` with `ApprovedTools`; the dual-write approval
store; reconciliation of server-run conversations; the remaining events of the
reducer.

## Not modelled

Protocol and event validation, citation records and diagnostics: checks of
shapes without state, of which the models keep what callers refuse. Request
bodies and wire formats of the providers beyond what is refused or changes the
stream. React rendering, styled components and the Flutter client:
presentation over the modelled controllers. Integrations, the MCP bridge,
configuration and routing of the server assembly, examples and scripts.
`PROJECT.json` says for each component which of its operations are left out.
