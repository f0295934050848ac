------------------------------ MODULE Watcher ------------------------------
(***************************************************************************)
(* watcher.py: the observer thread turns file events into debounce timers, *)
(* one per path; a timer that runs out delivers the path to on_change.     *)
(*                                                                         *)
(* Each timer is a thread.  Between the moment its wait ends and the moment*)
(* _fire takes the handler's lock, cancel() no longer stops it, and a new  *)
(* event may already have armed another timer for the path: so timers have *)
(* identities, and `_timers` (the record) may name another timer than the  *)
(* one that pops it.  VaultWatcher.start makes a new handler each time;    *)
(* timers that survive from an earlier one are not `own`.                  *)
(*                                                                         *)
(* The debounce is positive (the service's 2.0 seconds): the synchronous   *)
(* mode is for unit tests.  Module Service says what on_change does.       *)
(***************************************************************************)
EXTENDS Integers, FiniteSets

CONSTANTS Paths,     \* files that _is_relevant lets through
          TimerIds,  \* bound: timer threads alive at once
          NoTimer

ASSUME NoTimerAssumption == NoTimer \notin TimerIds

VARIABLES observing, \* the observer thread runs
          events,    \* paths with a file event the observer has not handled
          timers,    \* the timer threads
          record     \* the handler's _timers: path -> timer

watcherVars == <<observing, events, timers, record>>

\* armed: waiting; fired: the wait is over; calling: in on_change, waiting for
\* the service's lock; reading, building: reindexing under that lock.
Stages == {"armed", "fired", "calling", "reading", "building"}
Timers == [id : TimerIds, path : Paths, stage : Stages, own : BOOLEAN]

WatcherTypeOK ==
  /\ observing \in BOOLEAN
  /\ events \subseteq Paths
  /\ timers \subseteq Timers
  /\ \A t, u \in timers : t.id = u.id => t = u
  /\ record \in [Paths -> TimerIds \cup {NoTimer}]

WatcherInit == /\ observing = FALSE
               /\ events = {} /\ timers = {}
               /\ record = [p \in Paths |-> NoTimer]

At(t, stage) == [t EXCEPT !.stage = stage]
BecomesToo(t, u) == timers' = timers \cup {u}  \* Not the code.
Becomes(t, u) == timers' = (timers \ {t}) \cup {u}
Ends(t) == timers' = timers \ {t}

\* cancel() stops a timer that is still waiting, and no other.
Cancelled(ids) == {t \in timers : t.own /\ t.id \in ids /\ t.stage = "armed"}
-----------------------------------------------------------------------------
\* VaultWatcher.start: a new handler with no timers.
WatcherStart == /\ observing' = TRUE
                /\ record' = [p \in Paths |-> NoTimer]
                /\ UNCHANGED <<events, timers>>

\* VaultWatcher.stop, first half: the observer thread ends, its queue with it.
ObserverStop == /\ observing' = FALSE
                /\ events' = {}
                /\ UNCHANGED <<timers, record>>

\* VaultWatcher.stop, second half: the handler is dropped after cancel_pending.
CancelPending ==
  /\ timers' = {[t EXCEPT !.own = FALSE] :
                  t \in timers \ Cancelled({record[p] : p \in Paths})}
  /\ record' = [p \in Paths |-> NoTimer]
  /\ UNCHANGED <<observing, events>>

\* What a change of the file at p leaves in the observer's queue.
Queue(p) == events' = IF observing THEN events \cup {p} ELSE events

\* Not the code: events are ignored while the path has a callback under way.
EmitThrottled(p, i) ==
  /\ observing /\ p \in events
  /\ \A t \in timers : t.id # i
  /\ events' = events \ {p}
  /\ IF \E t \in timers : t.path = p
       THEN UNCHANGED <<timers, record>>
       ELSE /\ record' = [record EXCEPT ![p] = i]
            /\ timers' = timers \cup
                 {[id |-> i, path |-> p, stage |-> "armed", own |-> TRUE]}
  /\ UNCHANGED observing

\* _maybe_emit, in the observer thread: cancel the path's timer and arm another.
Emit(p, i) ==
  /\ observing /\ p \in events
  /\ \A t \in timers : t.id # i
  /\ events' = events \ {p}
  /\ timers' = (timers \ Cancelled({record[p]})) \cup
                 {[id |-> i, path |-> p, stage |-> "armed", own |-> TRUE]}
  /\ record' = [record EXCEPT ![p] = i]
  /\ UNCHANGED observing

\* The wait of a timer thread ends.
Expire(t) == /\ t \in timers /\ t.stage = "armed"
             /\ Becomes(t, At(t, "fired"))
             /\ UNCHANGED <<observing, events, record>>

\* _fire pops whatever timer its handler has on record for the path.
Fire(t) == /\ t \in timers /\ t.stage = "fired"
           /\ Becomes(t, At(t, "calling"))
           /\ record' = IF t.own THEN [record EXCEPT ![t.path] = NoTimer] ELSE record
           /\ UNCHANGED <<observing, events>>
=============================================================================
