---------------- MODULE ServerComponents ----------------
(***************************************************************************)
(* Components that stand between a conversation and a model and share no   *)
(* state, with their constants open: a turn that is observed through the   *)
(* gateway, the request protector of the server, web search and the        *)
(* provider's context.  MCServer gives the constants values for TLC;       *)
(* ComponentProofs proves the properties for all of them.                  *)
(***************************************************************************)
EXTENDS Integers, Sequences, FiniteSets

CONSTANTS Processes, MaxEvents, MaxConnections,
          Keys, ServerPlans, Searches, Outputs, MaxEntries, MaxResults, Timeout,
          ContextPlans, MaxSlots, MaxRemembered, MaxAttempts
VARIABLES upstream, retained, store, link, client,
          hosted, req, calls, table, leases,
          requests, clock, callers, remembered, operations,
          preflights, slots, replies, compactions, job, stopped

Remote == INSTANCE RemoteTurn
Server == INSTANCE TrustedServer WITH Plans <- ServerPlans, plan <- hosted
Web == INSTANCE WebSearch WITH Requests <- Searches, entries <- remembered
Context == INSTANCE ProviderContext
    WITH Plans <- ContextPlans, plan <- preflights, remembered <- replies, entries <- compactions,
         aborted <- stopped

\* A caller of the gateway applies every event of its turn once and in order,
\* however often the connection is cut, the process crashes or another one
\* answers the resumption (the gateway's observe, the durable resume tokens).
ObservedExactly == Remote!ObservedExactly

\* A turn never starts from a provider checkpoint of another context, or one
\* that covers history its own runtime has not read, whichever of concurrent
\* saves and compactions won (the preflight of runtime.ts, openai-context.ts).
ContextMatchesHistory == Context!ContextMatchesHistory

\* The answer a caller of the trusted server has agrees with what the host
\* recorded for its reservation (settle, cleanup, release).
AnswerStands == Server!AnswerStands

\* No two searches of one key run at once, and results are those of the
\* caller's own query, accepted by the policies (search, #makeRoom, #executeOnce).
SearchedOncePerKey == Web!SearchedOncePerKey
================================================
