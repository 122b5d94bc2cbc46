---------------- MODULE RuntimeRegistry ----------------
(***************************************************************************)
(* ConversationRuntimeRegistry (conversation/runtime-registry.ts): at most *)
(* one lazily built runtime per conversation, shared by everyone who opens *)
(* it, destroyed when the conversation is released, cleared, archived,     *)
(* restored or deleted; and ConversationWorkspace (conversation/           *)
(* workspace.ts), which keeps the runtimes a user interface has open.      *)
(*                                                                         *)
(* Opening waits three times: for the catalog, for the policy and for the  *)
(* host's runtime factory.  A lifecycle operation waits for the catalog    *)
(* before it takes the entry and again while the catalog executes it.      *)
(* Everything between two waits is one action.  A runtime is named after   *)
(* the opener whose construction built it.                                 *)
(***************************************************************************)
EXTENDS Naturals, FiniteSets

CONSTANT
    Cases           \* [opens, mutations, maxEntries, maxConstructions, release, dispose, turns]

VARIABLES
    case,           \* the calls of this behaviour
    listed,         \* external: conversations the catalog has
    entries,        \* #entries
    opening,        \* each open call and the construction it owns
    mutating,       \* each lifecycle call
    alive,          \* runtimes built and not destroyed
    disposed,       \* #disposed
    workspace,      \* workspace #entries: runtime, turn status and unread mark
    selected,       \* #selectedConversationId
    turns           \* external: what the turn of each runtime is doing

registryVars == <<case, listed, entries, opening, mutating, alive, disposed,
                  workspace, selected, turns>>

None == "none"
Conversations == {case.opens[o].conversation : o \in DOMAIN case.opens}
                 \cup {case.mutations[m].conversation : m \in DOMAIN case.mutations}
ConversationOf(o) == case.opens[o].conversation

Vacant == [kind |-> None, owner |-> None]
Entry(kind, owner) == [kind |-> kind, owner |-> owner]
EntryCount == Cardinality({c \in Conversations : entries[c] # Vacant})
ActiveConstructions == Cardinality({o \in DOMAIN opening : opening[o].phase \in {"loading", "building"}})
Closed == [runtime |-> None, status |-> "idle", unread |-> FALSE]

\* The runtime an entry holds is destroyed; a pending one is invalidated.
Destroyed(c) == IF entries[c].kind = "live" THEN {entries[c].owner} ELSE {}
Invalidated(cs) ==
    [o \in DOMAIN opening |->
        IF \E c \in cs : entries[c] = Entry("pending", o)
        THEN [opening[o] EXCEPT !.invalid = TRUE] ELSE opening[o]]

(***************************************************************************)
(* open.                                                                   *)
(***************************************************************************)
\* Everyone who joined the construction of `owner` settles with it.
Settle(base, owner, outcome) ==
    [o \in DOMAIN base |->
        IF o = owner \/ (base[o].phase = "joined" /\ base[o].owner = owner)
        THEN [base[o] EXCEPT !.phase = outcome, !.owner = owner] ELSE base[o]]

Open(o) ==
    LET c == ConversationOf(o)
        e == entries[c]
        held == case.opens[o].via = "workspace" /\ workspace[c].runtime # None
    IN  /\ opening[o].phase = "idle"
        /\ IF held
           THEN /\ opening' = [opening EXCEPT ![o].phase = "done", ![o].owner = workspace[c].runtime]
                /\ workspace' = [workspace EXCEPT ![c].unread = FALSE]
                /\ selected' = c
                /\ UNCHANGED entries
           ELSE /\ UNCHANGED <<workspace, selected>>
                /\ IF disposed \/ e.kind \in {"deleted", "lifecycle"}
                      \/ (e = Vacant /\ (EntryCount >= case.maxEntries
                                         \/ ActiveConstructions >= case.maxConstructions))
                   THEN opening' = [opening EXCEPT ![o].phase = "failed"] /\ UNCHANGED entries
                   ELSE IF e.kind = "live"
                   THEN opening' = [opening EXCEPT ![o].phase = "opened", ![o].owner = e.owner]
                        /\ UNCHANGED entries
                   ELSE IF e.kind = "pending"
                   THEN opening' = [opening EXCEPT ![o].phase = "joined", ![o].owner = e.owner]
                        /\ UNCHANGED entries
                   ELSE /\ entries' = [entries EXCEPT ![c] = Entry("pending", o)]
                        /\ opening' = [opening EXCEPT ![o].phase = "loading", ![o].owner = o]
        /\ UNCHANGED <<case, listed, mutating, alive, disposed, turns>>

\* The entry is dropped only while it is still this construction's.
Dropped(o) ==
    LET c == ConversationOf(o) IN
    IF entries[c] = Entry("pending", o) THEN [entries EXCEPT ![c] = Vacant] ELSE entries

\* #construct: catalog.get and the policy, then the factory is called.
Load(o) ==
    /\ opening[o].phase = "loading"
    /\ \E allowed \in BOOLEAN :
           IF allowed /\ ConversationOf(o) \in listed
           THEN opening' = [opening EXCEPT ![o].phase = "building"] /\ UNCHANGED entries
           ELSE opening' = Settle(opening, o, "failed") /\ entries' = Dropped(o)
    /\ UNCHANGED <<case, listed, mutating, alive, disposed, workspace, selected, turns>>

\* Mutant: the entry is not compared with the construction that ends.
StillWantedLoosely(o) == ~disposed

StillWanted(o) == ~disposed /\ entries[ConversationOf(o)] = Entry("pending", o)

\* The factory settles: its runtime is installed, destroyed at once when the
\* entry is no longer this construction's, or never built.
Build(o) ==
    LET c == ConversationOf(o) IN
    /\ opening[o].phase = "building"
    /\ \/ /\ IF StillWanted(o)
             THEN /\ entries' = [entries EXCEPT ![c] = Entry("live", o)]
                  /\ alive' = alive \cup {o}
                  /\ opening' = Settle(opening, o, "opened")
             ELSE /\ opening' = Settle(opening, o, "failed")
                  /\ entries' = Dropped(o)
                  /\ UNCHANGED alive
       \/ opening' = Settle(opening, o, "failed") /\ entries' = Dropped(o) /\ UNCHANGED alive
    /\ UNCHANGED <<case, listed, mutating, disposed, workspace, selected, turns>>

\* release: the entry goes at once; a pending construction is told to stop.
Released(c) ==
    /\ entries' = [entries EXCEPT ![c] = Vacant]
    /\ alive' = alive \ Destroyed(c)

Release(c) ==
    /\ case.release /\ ~disposed /\ entries[c].kind \in {"pending", "live"}
    /\ Released(c) /\ opening' = Invalidated({c})
    /\ UNCHANGED <<case, listed, mutating, disposed, workspace, selected, turns>>

(***************************************************************************)
(* clear, archive, restore and permanentlyDelete.                          *)
(***************************************************************************)
Mutation(m) == case.mutations[m]

MutateRead(m) ==
    /\ mutating[m] = "idle"
    /\ \E allowed \in BOOLEAN :
           mutating' = [mutating EXCEPT ![m] =
               IF allowed /\ ~disposed /\ Mutation(m).conversation \in listed THEN "read" ELSE "failed"]
    /\ UNCHANGED <<case, listed, entries, opening, alive, disposed, workspace, selected, turns>>

MutateTake(m) ==
    LET c == Mutation(m).conversation
        e == entries[c]
    IN  /\ mutating[m] = "read"
        /\ IF disposed \/ e.kind \in {"deleted", "lifecycle"} \/ (e = Vacant /\ EntryCount >= case.maxEntries)
           THEN /\ mutating' = [mutating EXCEPT ![m] = "failed"]
                /\ UNCHANGED <<entries, alive, opening>>
           ELSE /\ entries' = [entries EXCEPT ![c] = Entry("lifecycle", m)]
                /\ alive' = alive \ Destroyed(c)
                /\ opening' = Invalidated({c})
                /\ mutating' = [mutating EXCEPT ![m] = "executing"]
        /\ UNCHANGED <<case, listed, disposed, workspace, selected, turns>>

\* The catalog executes the operation or fails.  Archiving and deleting
\* through the workspace go on to close the conversation there.
MutateExecute(m) ==
    LET c == Mutation(m).conversation
        deletes == Mutation(m).op = "permanent_delete"
        mine == entries[c] = Entry("lifecycle", m)
    IN  /\ mutating[m] = "executing"
        /\ \E succeeds \in BOOLEAN :
           /\ listed' = IF succeeds /\ deletes THEN listed \ {c} ELSE listed
           /\ entries' = IF ~mine THEN entries
                         ELSE [entries EXCEPT ![c] = IF succeeds /\ deletes /\ ~disposed
                                                     THEN Entry("deleted", None) ELSE Vacant]
           /\ mutating' = [mutating EXCEPT ![m] =
                  IF ~succeeds THEN "failed"
                  ELSE IF Mutation(m).op \in {"archive", "permanent_delete"} /\ Mutation(m).via = "workspace"
                       THEN "closing" ELSE "done"]
        /\ UNCHANGED <<case, opening, alive, disposed, workspace, selected, turns>>

(***************************************************************************)
(* The workspace.                                                          *)
(***************************************************************************)
\* open resumes with the registry's runtime, replaces whatever entry there is
\* by now, and selects the conversation.
WorkspaceOpened(o) ==
    LET c == ConversationOf(o)
        r == opening[o].owner
    IN  /\ opening[o].phase = "opened"
        /\ opening' = [opening EXCEPT ![o].phase = "done"]
        /\ IF case.opens[o].via = "workspace"
           THEN /\ workspace' = [workspace EXCEPT ![c] =
                       [runtime |-> r, status |-> turns[r], unread |-> FALSE]]
                /\ selected' = c
           ELSE UNCHANGED <<workspace, selected>>
        /\ UNCHANGED <<case, listed, entries, mutating, alive, disposed, turns>>

\* close: the entry is forgotten and the registry releases the runtime.
WorkspaceClose(m) ==
    LET c == Mutation(m).conversation IN
    /\ mutating[m] = "closing"
    /\ mutating' = [mutating EXCEPT ![m] = "done"]
    /\ workspace' = [workspace EXCEPT ![c] = Closed]
    /\ selected' = IF selected = c THEN None ELSE selected
    /\ IF workspace[c] # Closed /\ ~disposed /\ entries[c].kind \in {"pending", "live"}
       THEN Released(c) /\ opening' = Invalidated({c})
       ELSE UNCHANGED <<entries, alive, opening>>
    /\ UNCHANGED <<case, listed, disposed, turns>>

Select(c) ==
    /\ selected' = c /\ selected # c
    /\ workspace' = [workspace EXCEPT ![c].unread = FALSE]
    /\ UNCHANGED <<case, listed, entries, opening, mutating, alive, disposed, turns>>

\* statusOf and #update: a live runtime's turn starts or finishes.
TurnChanges(c) ==
    LET r == workspace[c].runtime
        before == workspace[c].status
    IN  /\ case.turns /\ r # None /\ r \in alive
        /\ \E status \in {"running", "completed", "error"} :
           /\ turns[r] # status /\ (status = "running" <=> turns[r] = "idle")
           /\ turns[r] \in {"idle", "running"}
           /\ turns' = [turns EXCEPT ![r] = status]
           /\ workspace' = [workspace EXCEPT ![c].status = status,
                  ![c].unread = @ \/ (selected # c /\ before = "running" /\ status # "running")]
        /\ UNCHANGED <<case, listed, entries, opening, mutating, alive, disposed, selected>>

Dispose ==
    /\ case.dispose /\ ~disposed
    /\ disposed' = TRUE
    /\ alive' = alive \ UNION {Destroyed(c) : c \in Conversations}
    /\ opening' = Invalidated(Conversations)
    /\ entries' = [c \in Conversations |-> Vacant]
    /\ workspace' = [c \in Conversations |-> Closed]
    /\ selected' = None
    /\ UNCHANGED <<case, listed, mutating, turns>>

RegistryInit ==
    /\ case \in Cases
    /\ listed = Conversations
    /\ entries = [c \in Conversations |-> Vacant]
    /\ opening = [o \in DOMAIN case.opens |-> [phase |-> "idle", owner |-> None, invalid |-> FALSE]]
    /\ mutating = [m \in DOMAIN case.mutations |-> "idle"]
    /\ alive = {} /\ disposed = FALSE
    /\ workspace = [c \in Conversations |-> Closed]
    /\ selected = None
    /\ turns = [o \in DOMAIN case.opens |-> "idle"]

RegistryNext ==
    \/ \E o \in DOMAIN opening : Open(o) \/ Load(o) \/ Build(o) \/ WorkspaceOpened(o)
    \/ \E m \in DOMAIN mutating : MutateRead(m) \/ MutateTake(m) \/ MutateExecute(m) \/ WorkspaceClose(m)
    \/ \E c \in Conversations : Release(c) \/ Select(c) \/ TurnChanges(c)
    \/ Dispose

(***************************************************************************)
(* Properties.                                                             *)
(***************************************************************************)

\* No runtime is lost track of: every runtime that was built and not
\* destroyed is the one its conversation's entry holds.  A construction that
\* ends after the conversation was released, reopened, deleted or the
\* registry disposed destroys what it built (#construct).
RuntimesHeld ==
    \A o \in alive : entries[ConversationOf(o)] = Entry("live", o)

\* "Cleared identities remain openable" (runtime-registry.ts): the runtime the
\* workspace hands out for a conversation it has open is a running one unless
\* the workspace is about to close the conversation.
WorkspaceServesLive ==
    \A c \in Conversations :
        ~disposed /\ workspace[c].runtime # None =>
            \/ workspace[c].runtime \in alive
            \/ \E m \in DOMAIN mutating :
                   Mutation(m).conversation = c /\ mutating[m] \in {"executing", "closing"}
================================================
