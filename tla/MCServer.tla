---------------- MODULE MCServer ----------------
(***************************************************************************)
(* An instance for TLC of what stands between a conversation and a model:  *)
(* a turn observed through the application gateway, a turn of the direct   *)
(* provider transport over each adapter, usage receipts and their          *)
(* delivery, the provider context of a turn, the trusted server's          *)
(* lifecycle of an operation and web search.  The components share no      *)
(* state here, so a behaviour is about one of them, its focus, and the     *)
(* others stay where they started.                                         *)
(***************************************************************************)
EXTENDS ServerComponents

VARIABLES
    focus,
    turn, adapter, pumped, watcher, signal, continuations,
    report, outbox, accepted, flush, faults

remotePart == <<upstream, retained, store, link, client>>
directPart == <<turn, adapter, pumped, watcher, signal, continuations>>
usagePart == <<report, outbox, accepted, flush, faults>>
contextPart == <<preflights, slots, replies, compactions, job, stopped>>
trustedPart == <<hosted, req, calls, table, leases>>
searchPart == <<requests, clock, callers, remembered, operations>>
mcVars == <<focus, remotePart, directPart, usagePart, contextPart, trustedPart, searchPart>>

(***************************************************************************)
(* Every adapter with streams long enough for a whole tool call, content   *)
(* it supports and content it does not, and requests that startTurn        *)
(* refuses.                                                                *)
(***************************************************************************)
Invocation(kind, request, content, supports, chunks, moves) ==
    [kind |-> kind, request |-> request, content |-> content, supports |-> supports,
     chunks |-> chunks, moves |-> moves]
Kinds == {"openai", "responses", "xai", "anthropic", "gemini"}
Invocations ==
    {Invocation("openai", "valid", {}, {}, 4, 1), Invocation("openai", "valid", {}, {}, 1, 3),
     Invocation("xai", "valid", {"result"}, {"tools"}, 2, 2),
     Invocation("anthropic", "valid", {}, {}, 7, 1), Invocation("anthropic", "valid", {}, {}, 2, 3),
     Invocation("gemini", "valid", {}, {}, 3, 2),
     Invocation("responses", "valid", {"result"}, {}, 3, 2)}
    \cup {Invocation(kind, "valid", {content}, supports, 0, 2) :
             kind \in Kinds, content \in {"image", "document", "two_results"},
             supports \in {{}, {"images", "documents", "tools"}}}
    \cup {Invocation("openai", request, {}, {}, 0, 2) : request \in {"invalid", "documents", "context"}}
Direct == INSTANCE DirectProvider WITH aborted <- signal

\* Two processes flush two receipts, with two faults.
Usage == INSTANCE UsageReceipts
    WITH Receipts <- {1, 2}, BatchSize <- 2, MaxTries <- 2, MaxTokens <- 2, MaxFaults <- 2

(***************************************************************************)
(* Preflights of one conversation at two revisions, of two branches of one *)
(* revision, under one key, of two scopes; three in stores with one place. *)
(***************************************************************************)
Preflight(scope, revision, event, key) ==
    [scope |-> scope, revision |-> revision, event |-> event, key |-> key]
Pair(a, b, aborts) == [jobs |-> <<a, b>>, faults |-> 1, aborts |-> aborts]
Preflights ==
    {Pair(Preflight("x", 2, "a", "k1"), Preflight("x", 1, "b", "k2"), FALSE),
     Pair(Preflight("x", 2, "a", "k1"), Preflight("x", 2, "c", "k2"), FALSE),
     Pair(Preflight("x", 2, "a", "k1"), Preflight("x", 2, "a", "k1"), TRUE),
     Pair(Preflight("x", 2, "a", "k1"), Preflight("y", 2, "a", "k1"), FALSE),
     [jobs |-> <<Preflight("x", 1, "a", "k1"), Preflight("y", 2, "b", "k2"),
                 Preflight("x", 2, "b", "k3")>>, faults |-> 0, aborts |-> FALSE]}

\* A request repeated, a key used for another operation, two keys and one lease.
Asked(key, print) == [key |-> key, print |-> print]
Asks ==
    {[requests |-> <<Asked("k", "p"), Asked("k", "p")>>, leases |-> 1, aborts |-> 1, faults |-> 1],
     [requests |-> <<Asked("k", "p"), Asked("k", "o")>>, leases |-> 1, aborts |-> 0, faults |-> 1],
     [requests |-> <<Asked("k", "p"), Asked("j", "p")>>, leases |-> 1, aborts |-> 1, faults |-> 0]}

\* Joined searches with another key at the limit; one key for two limits.
Query(key, query, max, deadline, aborts) ==
    [key |-> key, query |-> query, max |-> max, deadline |-> deadline, aborts |-> aborts]
Found(source, url, public, verdict) ==
    [source |-> source, url |-> url, public |-> public, verdict |-> verdict]
Queries ==
    {<<Query("k", "q", 2, 1, TRUE), Query("k", "q", 2, 1, FALSE), Query("j", "q", 1, 1, FALSE)>>,
     <<Query("k", "q", 2, 1, FALSE), Query("k", "r", 0, 1, FALSE), Query("k", "q", 1, 2, TRUE)>>}
Results ==
    {<<Found(1, 1, TRUE, "accepted"), Found(2, 1, TRUE, "accepted"), Found(2, 2, TRUE, "accepted")>>,
     <<Found(1, 1, TRUE, "accepted"), Found(2, 2, TRUE, "result_denied")>>,
     <<Found(1, 1, TRUE, "accepted"), Found(2, 2, FALSE, "accepted")>>}

(***************************************************************************)
(* One behaviour, one component.                                           *)
(***************************************************************************)
MCInit ==
    /\ focus \in {"remote", "direct", "usage", "context", "trusted", "search"}
    /\ Remote!RemoteInit /\ (focus = "remote" \/ store = "none")
    /\ Direct!DirectInit /\ (focus = "direct" \/ turn.invocation.request = "invalid")
    /\ Usage!UsageInit /\ (focus = "usage" \/ report = Usage!NoReport)
    /\ Context!ContextInit /\ (focus = "context" \/ preflights = CHOOSE p \in ContextPlans : TRUE)
    /\ Server!ServerInit /\ (focus = "trusted" \/ hosted = CHOOSE p \in ServerPlans : TRUE)
    /\ Web!SearchInit /\ (focus = "search" \/ requests = CHOOSE q \in Searches : TRUE)

\* The components other than the one named stay as they are.
OnlyRemote == UNCHANGED <<focus, directPart, usagePart, contextPart, trustedPart, searchPart>>
OnlyDirect == UNCHANGED <<focus, remotePart, usagePart, contextPart, trustedPart, searchPart>>
OnlyUsage == UNCHANGED <<focus, remotePart, directPart, contextPart, trustedPart, searchPart>>
OnlyContext == UNCHANGED <<focus, remotePart, directPart, usagePart, trustedPart, searchPart>>
OnlyTrusted == UNCHANGED <<focus, remotePart, directPart, usagePart, contextPart, searchPart>>
OnlySearch == UNCHANGED <<focus, remotePart, directPart, usagePart, contextPart, trustedPart>>

MCNext ==
    \/ focus = "remote" /\ Remote!RemoteNext /\ OnlyRemote
    \/ focus = "direct" /\ Direct!DirectNext /\ OnlyDirect
    \/ focus = "usage" /\ Usage!UsageNext /\ OnlyUsage
    \/ focus = "context" /\ Context!ContextNext /\ OnlyContext
    \/ focus = "trusted" /\ Server!ServerNext /\ OnlyTrusted
    \/ focus = "search" /\ Web!SearchNext /\ OnlySearch

\* The usage retry worker of every process goes on.
UsageGoesOn(p) == focus = "usage" /\ (Usage!RunUsageFlush(p) \/ Usage!Flushes(p)) /\ OnlyUsage
Fairness == \A p \in Processes : WF_mcVars(UsageGoesOn(p))

Spec == MCInit /\ [][MCNext]_mcVars /\ Fairness

(***************************************************************************)
(* Properties.                                                             *)
(***************************************************************************)
\* What the reader of a direct turn sees is what the provider told: deltas
\* before a single terminal event that agrees with the result, whole tool
\* calls only, usage only with a receipt (pumpProvider, the adapters).
StreamTold == Direct!StreamTold

\* Usage an adapter accepts makes a valid receipt; a receipt becomes delivered
\* only when Telemetry holds it, and stays so; and every captured receipt is
\* delivered or parked in the end (parseUsage, flush, acknowledge, failed).
UsageAccounted == []Usage!UsageValid /\ Usage!DeliveredFinal /\ Usage!ReceiptsSettle

\* "Implementations yield only v1 StreamEvent values, ending with exactly one
\* matching terminal event before returning the normalized terminal result"
\* (ProviderAdapter in providers/index.ts): the last event an adapter yields
\* is the terminal event of the result it returns.
EndsMatched == Direct!EndsMatched

\* "Records exactly one bounded public result or fixed public failure per
\* reservation" (settleIdempotency in trusted-server.ts): a reservation whose
\* request returned, and that no hook still works on, has been settled.
ReservationsSettled == Server!ReservationsSettled
================================================
