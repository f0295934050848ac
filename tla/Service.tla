------------------------------ MODULE Service ------------------------------
(***************************************************************************)
(* service.py: the threads of one `serve`, `mcp` or embedding process and  *)
(* the re-entrant lock between them.  The owner thread calls start and     *)
(* stop; timer threads call _on_change; transports (HTTP threads, MCP      *)
(* handlers under graph_lock) read the graph and the store.  What a        *)
(* reindex does inside is module Indexer; here it reads the changed file   *)
(* and then rebuilds the graph.                                            *)
(*                                                                         *)
(* Files carry version numbers; `indexed` is the version of each file that *)
(* the index was last brought up to.                                       *)
(***************************************************************************)
EXTENDS Watcher

CONSTANTS Readers,   \* transport threads
          Owner, NoOne,
          MaxEdits, MaxReads  \* bounds

ASSUME ThreadsAssumption ==
  /\ NoOne \notin Readers \cup TimerIds \cup {Owner}
  /\ Owner \notin Readers \cup TimerIds /\ Readers \cap TimerIds = {}
ASSUME BoundsAssumption == {MaxEdits, MaxReads} \subseteq Nat

VARIABLES lock,     \* who holds self._lock
          pc,       \* where the owner is in start or stop
          running,  \* self._running
          opened,   \* the indexer's store is open
          graph,    \* "whole", "building", or "bare" (a build that raised)
          version,  \* of each file on disk
          indexed,  \* of each file in the index
          missed,   \* files changed while none observed, since last indexed
          failed,   \* files whose last reindex raised
          reading,  \* transports in the middle of a read
          reads

serviceVars == <<lock, pc, running, opened, graph, version, indexed, missed,
                 failed, reading, reads>>
vars == <<watcherVars, serviceVars>>

TypeOK ==
  /\ WatcherTypeOK
  /\ lock \in Readers \cup TimerIds \cup {Owner, NoOne}
  /\ pc \in {"off", "rebuild", "watch", "started", "on",
             "detach", "join", "cancel", "close"}
  /\ running \in BOOLEAN /\ opened \in BOOLEAN
  /\ graph \in {"whole", "building", "bare"}
  /\ version \in [Paths -> 0..MaxEdits] /\ indexed \in [Paths -> 0..MaxEdits]
  /\ missed \subseteq Paths /\ failed \subseteq Paths /\ reading \subseteq Readers
  /\ reads \in 0..MaxReads

Init == /\ WatcherInit
        /\ lock = NoOne /\ pc = "off"
        /\ running = FALSE /\ opened = FALSE
        /\ graph = "whole"
        /\ version = [p \in Paths |-> 0] /\ indexed = version
        /\ missed = {} /\ failed = {} /\ reading = {}
        /\ reads = 0
-----------------------------------------------------------------------------
\* A file changes.
Change(p) ==
  /\ version[p] < MaxEdits
  /\ version' = [version EXCEPT ![p] = @ + 1]
  /\ Queue(p)
  /\ missed' = IF observing THEN missed ELSE missed \cup {p}
  /\ UNCHANGED <<observing, timers, record, lock, pc, running, opened, graph,
                 indexed, failed, reading, reads>>

\* The steps of the watcher's own threads.
Observe == /\ \E p \in Paths, i \in TimerIds : Emit(p, i)
           /\ UNCHANGED serviceVars
Tick == /\ \E t \in timers : Expire(t) \/ Fire(t)
        /\ UNCHANGED serviceVars
-----------------------------------------------------------------------------
(* start: one critical section, up to `self._running = True`. *)

StartOpen ==
  /\ pc = "off"
  /\ lock = NoOne /\ lock' = Owner
  /\ opened' = TRUE
  /\ pc' = "rebuild"
  /\ UNCHANGED <<watcherVars, running, graph, version, indexed, missed, failed,
                 reading, reads>>

StartRebuild ==
  /\ pc = "rebuild"
  /\ indexed' = version
  /\ missed' = {} /\ failed' = {}
  /\ graph' = "whole"
  /\ pc' = "watch"
  /\ UNCHANGED <<watcherVars, lock, running, opened, version, reading, reads>>

\* rebuild raises, or watcher.start (the system's watches are used up, say):
\* the store stays open, the service does not run.
StartRaises ==
  /\ pc \in {"rebuild", "watch"}
  /\ lock' = NoOne /\ pc' = "off"
  /\ UNCHANGED <<watcherVars, running, opened, graph, version, indexed, missed,
                 failed, reading, reads>>

StartWatch ==
  /\ pc = "watch"
  /\ WatcherStart
  /\ pc' = "started"
  /\ UNCHANGED <<lock, running, opened, graph, version, indexed, missed, failed,
                 reading, reads>>

StartDone ==
  /\ pc = "started"
  /\ running' = TRUE /\ lock' = NoOne
  /\ pc' = "on"
  /\ UNCHANGED <<watcherVars, opened, graph, version, indexed, missed, failed,
                 reading, reads>>
-----------------------------------------------------------------------------
(* stop: detach under the lock, stop the watcher without it, close under it. *)

StopCall ==
  /\ pc = "on"
  /\ pc' = "detach"
  /\ UNCHANGED <<watcherVars, lock, running, opened, graph, version, indexed,
                 missed, failed, reading, reads>>

\* Not the code: a stop that gives up when the lock is taken.
StopDetachTry ==
  /\ pc = "detach"
  /\ running' = (lock # NoOne)
  /\ pc' = IF lock = NoOne THEN "join" ELSE "on"
  /\ UNCHANGED <<watcherVars, lock, opened, graph, version, indexed, missed,
                 failed, reading, reads>>

StopDetach ==
  /\ pc = "detach" /\ lock = NoOne
  /\ running' = FALSE
  /\ pc' = "join"
  /\ UNCHANGED <<watcherVars, lock, opened, graph, version, indexed, missed,
                 failed, reading, reads>>

StopObserver ==
  /\ pc = "join"
  /\ ObserverStop
  /\ missed' = missed \cup events
  /\ pc' = "cancel"
  /\ UNCHANGED <<lock, running, opened, graph, version, indexed, failed, reading, reads>>

StopTimers ==
  /\ pc = "cancel"
  /\ CancelPending
  /\ missed' = missed \cup {t.path : t \in timers}
  /\ pc' = "close"
  /\ UNCHANGED <<lock, running, opened, graph, version, indexed, failed, reading, reads>>

StopClose ==
  /\ pc = "close" /\ lock = NoOne
  /\ opened' = FALSE
  /\ pc' = "off"
  /\ UNCHANGED <<watcherVars, lock, running, graph, version, indexed, missed,
                 failed, reading, reads>>
-----------------------------------------------------------------------------
(* _on_change, in a timer thread. *)

\* Not the code: no check of self._running once the lock is held.
EnterUnchecked(t) ==
  /\ t \in timers /\ t.stage = "calling"
  /\ lock = NoOne /\ lock' = t.id
  /\ Becomes(t, At(t, "reading"))
  /\ UNCHANGED <<observing, events, record, pc, running, opened, graph, version,
                 indexed, missed, failed, reading, reads>>

\* Not the code: a callback that gives up when the lock is taken.
EnterTry(t) ==
  /\ t \in timers /\ t.stage = "calling"
  /\ IF lock = NoOne /\ running THEN /\ lock' = t.id
                                     /\ Becomes(t, At(t, "reading"))
                                ELSE Ends(t) /\ UNCHANGED lock
  /\ UNCHANGED <<observing, events, record, pc, running, opened, graph, version,
                 indexed, missed, failed, reading, reads>>

\* With the lock held: bail out unless the service runs.
Enter(t) ==
  /\ t \in timers /\ t.stage = "calling"
  /\ lock = NoOne
  /\ IF running THEN /\ lock' = t.id
                     /\ Becomes(t, At(t, "reading"))
                     /\ UNCHANGED missed
                ELSE /\ Ends(t)
                     /\ missed' = missed \cup {t.path}
                     /\ UNCHANGED lock
  /\ UNCHANGED <<observing, events, record, pc, running, opened, graph, version,
                 indexed, failed, reading, reads>>

\* reindex_page reads the file as it is now, writes the store, walks the vault
\* and reassigns the graph.
Reindex(t) ==
  /\ t \in timers /\ t.stage = "reading"
  /\ Becomes(t, At(t, "building"))
  /\ indexed' = [indexed EXCEPT ![t.path] = version[t.path]]
  /\ missed' = missed \ {t.path}
  /\ failed' = failed \ {t.path}
  /\ graph' = "building"
  /\ UNCHANGED <<observing, events, record, lock, pc, running, opened, version,
                 reading, reads>>

\* finalize_build, and the lock is released.
ReindexDone(t) ==
  /\ t \in timers /\ t.stage = "building"
  /\ Ends(t)
  /\ graph' = "whole" /\ lock' = NoOne
  /\ UNCHANGED <<observing, events, record, pc, running, opened, version, indexed,
                 missed, failed, reading, reads>>

\* `except Exception`: logged; before the store is written, or while the new
\* graph is completed.
ReindexRaises(t) ==
  /\ t \in timers /\ t.stage \in {"reading", "building"}
  /\ Ends(t)
  /\ lock' = NoOne
  /\ failed' = failed \cup {t.path}
  /\ graph' = IF graph = "building" THEN "bare" ELSE graph
  /\ UNCHANGED <<observing, events, record, pc, running, opened, version, indexed,
                 missed, reading, reads>>
-----------------------------------------------------------------------------
(* query, graph_node, graph_stats, and MCP handlers inside graph_lock. *)

\* Not the code: a handler that iterates svc.graph without graph_lock.
ReadBeginUnlocked(r) ==
  /\ r \notin reading /\ reads < MaxReads
  /\ reading' = reading \cup {r} /\ reads' = reads + 1
  /\ UNCHANGED <<watcherVars, lock, pc, running, opened, graph, version,
                 indexed, missed, failed>>

ReadBegin(r) ==
  /\ r \notin reading /\ reads < MaxReads
  /\ lock = NoOne /\ lock' = r
  /\ reading' = reading \cup {r} /\ reads' = reads + 1
  /\ UNCHANGED <<watcherVars, pc, running, opened, graph, version, indexed,
                 missed, failed>>

ReadEnd(r) ==
  /\ r \in reading /\ reading' = reading \ {r}
  /\ lock' = IF lock = r THEN NoOne ELSE lock
  /\ UNCHANGED <<watcherVars, pc, running, opened, graph, version, indexed,
                 missed, failed, reads>>
-----------------------------------------------------------------------------
\* What goes on once begun: the observer and the timers, the owner inside start
\* or stop, a read under way.
Steps == \/ Observe \/ Tick
         \/ StartRebuild \/ StartWatch \/ StartDone
         \/ StopDetach \/ StopObserver \/ StopTimers \/ StopClose
         \/ \E t \in timers : Enter(t) \/ Reindex(t) \/ ReindexDone(t)
         \/ \E r \in Readers : ReadEnd(r)

Next == \/ \E p \in Paths : Change(p)
        \/ StartOpen \/ StartRaises \/ StopCall
        \/ \E t \in timers : ReindexRaises(t)
        \/ \E r \in Readers : ReadBegin(r)
        \/ Steps

Spec == Init /\ [][Next]_vars

\* Threads run on, and a lock that is free is granted to somebody who waits for
\* it.  No order among the waiting threads is assumed.
FairSpec == Spec /\ WF_vars(Steps)
-----------------------------------------------------------------------------
\* A reindex runs only while the service does and the store is open, though a
\* timer may fire after cancel_pending and call back during or after stop.
Working(t) == t.stage \in {"reading", "building"}
NoUseAfterClose == \A t \in timers : Working(t) => running /\ opened

\* The last change of a file is never dropped while the service runs: until it
\* is indexed there is an event or a timer that will read the file later,
\* whatever bursts, cancelled timers and late callbacks there were.
Noticed(p) == \/ indexed[p] = version[p]
              \/ p \in events \cup missed \cup failed
              \/ \E t \in timers : t.path = p /\ t.stage # "building"
LastChangeNoticed == running => \A p \in Paths : Noticed(p)

\* A transport that reads the graph and the store in several statements sees one
\* state of them, and never a graph that is being rebuilt.
StableReads ==
  [][reading # {} => /\ graph # "building"
                     /\ reading' # {} => UNCHANGED <<graph, indexed>>]_vars

\* stop comes to its end, with the stores closed: whatever callbacks, failing
\* reindexes and readers it meets, it gets the lock both times.  (The observer,
\* which stop waits for in between, never wants it: the service's watcher
\* debounces, so only timer threads call back.)
StopReturns == pc = "detach" ~> pc = "off"

\* A service that stays up catches up with every change it could notice.
CatchesUp == <>[]running =>
  <>[](\A p \in Paths : indexed[p] = version[p] \/ p \in missed \cup failed)
-----------------------------------------------------------------------------
\* The inductive invariant.  A step of start, a reindex and a read each happen
\* with the lock held, so there is one of them at a time, and the service runs
\* and its store is open whenever a timer works.  The record names only timers of
\* the path, so that cancelling drops no other file's change; and every change is
\* accounted for from the end of the rebuild on, before the service runs.
LockHeld == /\ pc \in {"rebuild", "watch", "started"} => lock = Owner
            /\ \A r \in reading : lock = r
            /\ \A t \in timers : Working(t) => lock = t.id /\ running
            /\ running <=> pc \in {"on", "detach"}
            /\ pc # "off" => opened
            /\ graph = "building" => \E t \in timers : t.stage = "building"

RecordNames == \A p \in Paths : record[p] # NoTimer =>
  \E t \in timers : /\ t.id = record[p] /\ t.path = p /\ t.own
                    /\ t.stage \in {"armed", "fired"}

AllNoticed == pc \in {"watch", "started", "on", "detach"} => \A p \in Paths : Noticed(p)

Inv == TypeOK /\ LockHeld /\ RecordNames /\ AllNoticed
=============================================================================
