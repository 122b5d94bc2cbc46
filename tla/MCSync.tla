---------------- MODULE MCSync ----------------
(***************************************************************************)
(* An instance of synchronization for TLC: two devices, or two tabs of one *)
(* browser, and a runtime that writes to the same conversation; and of the *)
(* event stores underneath.  A behaviour is about one of the two.          *)
(***************************************************************************)
EXTENDS ConversationSync, EventStores

VARIABLE focus
mcVars == <<syncVars, storeVars, focus>>

MCBatchOf == [w |-> <<"x", "y">>]
Apart == [a |-> "s", b |-> "t"]
Tabs == [a |-> "s", b |-> "s"]
MCScenarios ==
    {[active |-> {"a"}, store |-> Apart, queue |-> [a |-> <<"m", "n">>, b |-> <<>>],
      faults |-> {"lose", "crash", "stop", "store", "deny"}, limit |-> 2],
     [active |-> {"a", "w"}, store |-> Apart, queue |-> [a |-> <<"m">>, b |-> <<>>],
      faults |-> {"lose"}, limit |-> 1],
     [active |-> {"a", "b"}, store |-> Apart, queue |-> [a |-> <<"m">>, b |-> <<"n">>],
      faults |-> {"lose"}, limit |-> 1],
     [active |-> {"a", "b"}, store |-> Tabs, queue |-> [a |-> <<"m">>, b |-> <<"n">>],
      faults |-> {"crash"}, limit |-> 1]}

\* Two callers race for a revision; one repeats another's mutation in a new
\* envelope, one another's identity with new content, one part of a batch.
Event(id, mutation, body) == [id |-> id, mutation |-> mutation, body |-> body]
MCBatches ==
    [c1 |-> [expected |-> 0, events |-> <<Event("e1", "m1", 1), Event("e2", "none", 2)>>],
     c2 |-> [expected |-> 0, events |-> <<Event("e3", "m1", 1)>>],
     c3 |-> [expected |-> 2, events |-> <<Event("e2", "none", 3)>>],
     c4 |-> [expected |-> 1, events |-> <<Event("e2", "none", 2), Event("e4", "m4", 4)>>],
     c5 |-> [expected |-> 2, events |-> <<Event("e5", "none", 5)>>]]

MCInit ==
    /\ focus \in {"sync", "stores"}
    /\ SyncInit /\ StoresInit
    /\ focus = "sync" => kind = "reference"
    /\ focus = "stores" => scenario.active = {"a"}
MCNext ==
    /\ UNCHANGED focus
    /\ \/ focus = "sync" /\ SyncNext /\ UNCHANGED storeVars
       \/ focus = "stores" /\ StoresNext /\ UNCHANGED syncVars

\* Every coordinator goes on while it runs: the server answers or is given
\* up, and the reconnect timer fires.
MCFairness == \A d \in Devices : WF_mcVars(focus = "sync" /\ DeviceStep(d) /\ UNCHANGED <<storeVars, focus>>)
MCSpec == MCInit /\ [][MCNext]_mcVars /\ MCFairness

------------------------------------------------
\* What the user sees does not go back, and a coordinator that keeps running
\* settles what it accepted, through conflicts and reconnections, unless its
\* pending batch is one the server holds in part (scheduleReconnect, flush).
ViewsSettle == ViewKeeps /\ MutationsSettle
================================================
