---------------- MODULE ConversationPicker ----------------
(***************************************************************************)
(* useConversationPicker (react/conversation-picker.tsx): the rows of the  *)
(* catalog a user picks from, the selection, the one conversation the      *)
(* picker holds open and the lifecycle operations on the rows.             *)
(*                                                                         *)
(* Every request waits for the catalog, the registry, the host's open      *)
(* handler or the host's confirmation; the user goes on meanwhile, and     *)
(* three counters (generation, listRequest, mutationRequest) tell a late   *)
(* answer from a wanted one.  Everything between two waits is one action.  *)
(* A runtime and a view of the host are named after the call they belong   *)
(* to.  A row remembers the authorization context it was read under.       *)
(***************************************************************************)
EXTENDS Naturals, FiniteSets, Sequences

CONSTANTS
    Ids,            \* conversations, numbers in page order
    Plans           \* [moves, kinds]: how many things the user does, of which kinds

VARIABLES
    plan,
    picker,         \* the hook's state and refs
    calls,          \* the hook's asynchronous functions that were called
    catalog,        \* external: the lifecycle of each conversation
    registry,       \* external: the runtime registry's entry of each conversation
    views           \* external: calls whose view the host has open

pickerVars == <<plan, picker, calls, catalog, registry, views>>

Scopes == {1, 2}
None == 0
NotOwned == [call |-> None, id |-> None]
NoAnswer == [kind |-> "none", rows |-> {}, more |-> FALSE]
Row(scope, id, lifecycle) == [scope |-> scope, id |-> id, lifecycle |-> lifecycle]
Vacant == [kind |-> "none", call |-> None]
Moves == Len(calls)

(***************************************************************************)
(* The catalog (external): a page holds one row; deleted ones are gone.    *)
(***************************************************************************)
Active(after) == {i \in Ids : i > after /\ catalog[i] = "active"}
Page(scope, after) ==
    LET found == Active(after)
        first == {i \in found : \A j \in found : i <= j}
    IN  [kind |-> "page", rows |-> {Row(scope, i, "active") : i \in first},
         more |-> found # first]

(***************************************************************************)
(* Rows and selection.                                                     *)
(***************************************************************************)
UniqueRows(current, incoming, append) ==
    IF append THEN current \cup {r \in incoming : r.id \notin {c.id : c \in current}}
    ELSE incoming

LifecycleMatches(row) == row.lifecycle = "active"

\* release: the cached runtime is destroyed, a pending construction is
\* invalidated; while a lifecycle operation holds the entry it is refused.
Release(entries, id) ==
    IF entries[id].kind = "lifecycle" THEN entries ELSE [entries EXCEPT ![id] = Vacant]

\* cancelOwnedOpen: forget, abort, clean up the host's view, release.
CancelOwned(p) == [p EXCEPT !.owned = NotOwned]
Released(entries, p) == IF p.owned = NotOwned THEN entries ELSE Release(entries, p.owned.id)
CleanedUp(p) == views \ {p.owned.call}

\* The picker after a step that may give up the open conversation.
Adopt(p, cancel) ==
    /\ picker' = IF cancel THEN CancelOwned(p) ELSE p
    /\ registry' = IF cancel THEN Released(registry, p) ELSE registry
    /\ views' = IF cancel THEN CleanedUp(p) ELSE views

ApplyList(rows, more, append) ==
    LET kept == UniqueRows(picker.items, rows, append)
        lost == picker.selected # None /\ ~more /\ picker.selected \notin {r.id : r \in kept}
        last == IF rows = {} THEN None ELSE (CHOOSE r \in rows : TRUE).id
    IN  Adopt([picker EXCEPT !.items = kept, !.hasMore = more,
                             !.cursor = IF more THEN last ELSE None,
                             !.selected = IF lost THEN None ELSE @,
                             !.loading = FALSE], lost)

ReplaceDescriptor(row) ==
    LET others == {r \in picker.items : r.id # row.id}
        lost == picker.selected = row.id /\ ~LifecycleMatches(row)
    IN  Adopt([picker EXCEPT !.items = IF LifecycleMatches(row) THEN others \cup {row} ELSE others,
                             !.selected = IF lost THEN None ELSE @], lost)

RemoveRow(id) ==
    LET lost == picker.selected = id
    IN  Adopt([picker EXCEPT !.items = {r \in @ : r.id # id},
                             !.selected = IF lost THEN None ELSE @], lost)

(***************************************************************************)
(* Calls.                                                                  *)
(***************************************************************************)
Call(kind, id, phase) ==
    [kind |-> kind, id |-> id, phase |-> phase, answer |-> NoAnswer, append |-> FALSE,
     generation |-> picker.generation, request |-> None, scope |-> picker.scope,
     after |-> None]
Issue(call) == calls' = Append(calls, call)
Ends(c) == calls' = [calls EXCEPT ![c].phase = "done"]
May(kind) == picker.scope # None /\ Moves < plan.moves /\ kind \in plan.kinds

\* The answer is still wanted (the list's and the mutation's test).
WantedList(c) == calls[c].generation = picker.generation /\ calls[c].request = picker.listRequest
WantedMutation(c) ==
    calls[c].generation = picker.generation /\ calls[c].request = picker.mutationRequest

\* refresh, loadMore: requestPage(append, cursor).
RequestPage(append) ==
    /\ May("list")
    /\ append => picker.hasMore /\ ~picker.loading
    /\ picker' = [picker EXCEPT !.listRequest = @ + 1, !.loading = append]
    /\ Issue([Call("list", None, "asked") EXCEPT !.append = append,
                !.request = picker.listRequest + 1,
                !.after = IF append THEN picker.cursor ELSE None])
    /\ UNCHANGED <<plan, catalog, registry, views>>

ReceivePage(c) ==
    /\ calls[c].kind = "list" /\ calls[c].phase = "answered"
    /\ IF WantedList(c) /\ calls[c].answer.kind = "page"
       THEN ApplyList(calls[c].answer.rows, calls[c].answer.more, calls[c].append)
       ELSE /\ picker' = [picker EXCEPT !.loading = @ /\ ~WantedList(c)]
            /\ UNCHANGED <<registry, views>>
    /\ Ends(c)
    /\ UNCHANGED <<plan, catalog>>

\* The catalog answers a list with what it holds now, or fails.
CatalogLists(c) ==
    /\ calls[c].kind = "list" /\ calls[c].phase = "asked"
    /\ \E failed \in BOOLEAN :
          calls' = [calls EXCEPT ![c].phase = "answered",
                      ![c].answer = IF failed THEN [NoAnswer EXCEPT !.kind = "failed"]
                                    ELSE Page(calls[c].scope, calls[c].after)]
    /\ UNCHANGED <<plan, picker, catalog, registry, views>>

\* openConversation up to registry.open, which joins what it has or builds.
OpenConversation(row) ==
    /\ May("open") /\ row \in picker.items
    /\ LET id == row.id
           call == Moves + 1
           released == IF picker.owned.id = id THEN registry ELSE Released(registry, picker)
           open == [Call("open", id, "opening") EXCEPT !.request = picker.mutationRequest + 1]
       IN  IF picker.owned # NotOwned /\ picker.owned.id = id
           THEN \* already held: only the selection is published
                /\ picker' = [picker EXCEPT !.selected = id]
                /\ Issue([open EXCEPT !.phase = "done"])
                /\ UNCHANGED <<registry, views>>
           ELSE /\ picker' = [picker EXCEPT !.mutationRequest = @ + 1, !.selected = id,
                                            !.owned = [call |-> call, id |-> id]]
                /\ views' = CleanedUp(picker)
                /\ Issue([open EXCEPT !.phase = IF released[id].kind = "lifecycle"
                                                THEN "refused" ELSE "opening"])
                /\ registry' = IF released[id].kind = "none"
                               THEN [released EXCEPT ![id] = [kind |-> "pending", call |-> call]]
                               ELSE released
    /\ UNCHANGED <<plan, catalog>>

\* The construction was invalidated by a release or a lifecycle operation.
RegistryInvalidates(c) ==
    /\ calls[c].kind = "open" /\ calls[c].phase = "opening"
    /\ registry[calls[c].id].call # c
    /\ calls' = [calls EXCEPT ![c].phase = "refused"]
    /\ UNCHANGED <<plan, picker, catalog, registry, views>>

WantedOpen(c) == WantedMutation(c) /\ picker.owned.call = c

\* The registry has built the runtime, or cannot; openConversation goes on
\* with the host's handler, or gives back a runtime nobody wants any more.
RegistryBuilds(c) ==
    /\ calls[c].kind = "open" /\ calls[c].phase = "opening"
    /\ registry[calls[c].id] = [kind |-> "pending", call |-> c]
    /\ \/ /\ WantedOpen(c)
          /\ registry' = [registry EXCEPT ![calls[c].id].kind = "live"]
          /\ calls' = [calls EXCEPT ![c].phase = "handing"]
       \/ /\ ~WantedOpen(c)
          /\ registry' = [registry EXCEPT ![calls[c].id] = Vacant]
          /\ Ends(c)
       \/ /\ registry' = [registry EXCEPT ![calls[c].id] = Vacant]
          /\ calls' = [calls EXCEPT ![c].phase = "refused"]
    /\ UNCHANGED <<plan, picker, catalog, views>>

\* Mutant: the view is kept without asking again whether it is wanted.
HandedOverUnchecked(c) ==
    /\ calls[c].phase = "handing"
    /\ Ends(c)
    /\ views' = views \cup {c}
    /\ UNCHANGED <<plan, picker, catalog, registry>>

\* The host's handler has opened a view, which is torn down if it came late.
HandedOver(c) ==
    /\ calls[c].phase = "handing"
    /\ Ends(c)
    /\ IF WantedOpen(c) THEN views' = views \cup {c} /\ UNCHANGED registry
       ELSE registry' = Release(registry, calls[c].id) /\ UNCHANGED views
    /\ UNCHANGED <<plan, picker, catalog>>

\* The registry or the host's handler failed.
OpenFails(c) ==
    /\ calls[c].phase \in {"refused", "handing"}
    /\ Ends(c)
    /\ Adopt(picker, WantedOpen(c))
    /\ UNCHANGED <<plan, catalog>>

(***************************************************************************)
(* Mutations: create, rename and restore run at once; clear, archive and   *)
(* permanent deletion wait for the host's confirmation first.              *)
(***************************************************************************)
Confirmed == {"clear", "archive", "permanent_delete"}
Lifecycle == Confirmed \cup {"restore"}

\* A lifecycle operation takes the registry's entry: the runtime goes.
Takes(entries, kind, id) ==
    IF kind \in Lifecycle THEN [entries EXCEPT ![id] = [kind |-> "lifecycle", call |-> None]]
    ELSE entries

\* cancelOwnedOpenFor, then the request.
RunMutation(p, kind, id) ==
    LET own == kind \in Lifecycle /\ p.owned # NotOwned /\ p.owned.id = id
    IN  /\ picker' = IF own THEN CancelOwned(p) ELSE p
        /\ registry' = Takes(IF own THEN Released(registry, p) ELSE registry, kind, id)
        /\ views' = IF own THEN CleanedUp(p) ELSE views

\* The registry refuses a second lifecycle operation on a conversation.
Accepted(kind, id) ==
    IF kind \in Lifecycle /\ registry[id].kind = "lifecycle" THEN "executed" ELSE "executing"

Mutate(kind, id) ==
    /\ May(kind)
    /\ kind \in {"rename"} \cup Confirmed => \E r \in picker.items : r.id = id
    /\ LET p == [picker EXCEPT !.mutationRequest = @ + 1]
           call == [Call(kind, id, "executing") EXCEPT !.request = p.mutationRequest]
       IN  \/ /\ kind \in Confirmed
              /\ picker' = p
              /\ Issue([call EXCEPT !.phase = "confirming"])
              /\ UNCHANGED <<registry, views>>
           \/ /\ kind \notin Confirmed
              /\ RunMutation(p, kind, id)
              /\ Issue([call EXCEPT !.phase = Accepted(kind, id)])
    /\ UNCHANGED <<plan, catalog>>

ConfirmDestructive(c) ==
    /\ calls[c].phase = "confirming"
    /\ \E confirmed \in BOOLEAN :
          IF WantedMutation(c) /\ confirmed
          THEN /\ calls' = [calls EXCEPT ![c].phase = Accepted(calls[c].kind, calls[c].id)]
               /\ RunMutation(picker, calls[c].kind, calls[c].id)
          ELSE Ends(c) /\ UNCHANGED <<picker, registry, views>>
    /\ UNCHANGED <<plan, catalog>>

Result(kind, held) ==
    CASE kind \in {"create", "restore"} -> "active"
      [] kind = "archive" -> "archived"
      [] kind = "permanent_delete" -> "deleted"
      [] OTHER -> held

\* The catalog executes or refuses; the registry gives its entry back.
CatalogExecutes(c) ==
    LET call == calls[c]
        held == catalog[call.id]
        legal == IF call.kind = "create" THEN held = "none"
                 ELSE held = IF call.kind = "restore" THEN "archived" ELSE "active"
    IN  /\ call.phase = "executing"
        /\ registry' = IF call.kind \in Lifecycle
                       THEN [registry EXCEPT ![call.id] = Vacant] ELSE registry
        /\ \E failed \in BOOLEAN :
              IF legal /\ ~failed
              THEN /\ catalog' = [catalog EXCEPT ![call.id] = Result(call.kind, held)]
                   /\ calls' = [calls EXCEPT ![c].phase = "executed",
                          ![c].answer = [kind |-> "row", more |-> FALSE,
                             rows |-> {Row(call.scope, call.id, Result(call.kind, held))}]]
              ELSE calls' = [calls EXCEPT ![c].phase = "executed"] /\ UNCHANGED catalog
        /\ UNCHANGED <<plan, picker, views>>

ApplyMutation(c) ==
    /\ calls[c].phase = "executed"
    /\ Ends(c)
    /\ IF WantedMutation(c) /\ calls[c].answer.kind = "row"
       THEN IF calls[c].kind = "permanent_delete" THEN RemoveRow(calls[c].id)
            ELSE \E row \in calls[c].answer.rows : ReplaceDescriptor(row)
       ELSE UNCHANGED <<picker, registry, views>>
    /\ UNCHANGED <<plan, catalog>>

(***************************************************************************)
(* The effect: another authorization context (or the first one) resets the *)
(* picker and lists afresh; unmounting only invalidates.                   *)
(***************************************************************************)
Invalidate(p, by) ==
    [CancelOwned(p) EXCEPT !.generation = @ + by, !.listRequest = @ + by,
                           !.mutationRequest = @ + by]

EnterScope(scope) ==
    /\ May("scope") /\ scope # picker.scope
    /\ picker' = [Invalidate(picker, 2) EXCEPT !.scope = scope, !.items = {},
                    !.hasMore = FALSE, !.cursor = None, !.loading = FALSE, !.listRequest = @ + 1]
    /\ registry' = Released(registry, picker)
    /\ views' = CleanedUp(picker)
    /\ Issue([Call("list", None, "asked") EXCEPT !.scope = scope,
                !.generation = picker.generation + 2, !.request = picker.listRequest + 3])
    /\ UNCHANGED <<plan, catalog>>

Unmount ==
    /\ May("unmount")
    /\ picker' = [Invalidate(picker, 1) EXCEPT !.scope = None, !.items = {}]
    /\ registry' = Released(registry, picker)
    /\ views' = CleanedUp(picker)
    /\ Issue(Call("unmount", None, "done"))
    /\ UNCHANGED <<plan, catalog>>

PickerInit ==
    /\ plan \in Plans
    /\ picker = [scope |-> 1, items |-> {}, selected |-> None, hasMore |-> FALSE, cursor |-> None,
                 loading |-> FALSE, generation |-> 1, listRequest |-> 2, mutationRequest |-> 1,
                 owned |-> NotOwned]
    /\ calls = <<[kind |-> "list", id |-> None, phase |-> "asked", answer |-> NoAnswer,
                  append |-> FALSE, generation |-> 1, request |-> 2, scope |-> 1,
                  after |-> None]>>
    /\ catalog = [i \in Ids |-> IF i = 3 THEN "none" ELSE "active"]
    /\ registry = [i \in Ids |-> Vacant]
    /\ views = {}

PickerNext ==
    \/ \E append \in BOOLEAN : RequestPage(append)
    \/ \E row \in picker.items : OpenConversation(row)
    \/ \E kind \in Lifecycle \cup {"create", "rename"}, id \in Ids : Mutate(kind, id)
    \/ \E scope \in Scopes : EnterScope(scope)
    \/ Unmount
    \/ \E c \in DOMAIN calls :
          \/ CatalogLists(c) \/ ReceivePage(c)
          \/ RegistryBuilds(c) \/ RegistryInvalidates(c)
          \/ HandedOver(c) \/ OpenFails(c)
          \/ ConfirmDestructive(c) \/ CatalogExecutes(c) \/ ApplyMutation(c)

(***************************************************************************)
(* Properties.                                                             *)
(***************************************************************************)
\* Whatever the user did while a list, an open or a mutation was under way,
\* the picker shows rows of the present authorization context only, a
\* runtime it had built stays alive only while it holds that conversation
\* open, and a view the host opened for it is cleaned up once it does not
\* (cancelOwnedOpen and the three staleness tests of openConversation).
PickerHoldsOwn ==
    /\ \A r \in picker.items : r.scope = picker.scope
    /\ \A i \in Ids : registry[i].kind = "live" => picker.owned.id = i
    /\ views \subseteq {picker.owned.call}
================================================
