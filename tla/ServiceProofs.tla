---------------------------- MODULE ServiceProofs ----------------------------
(***************************************************************************)
(* What Service promises, for any files, timer threads, transports and     *)
(* bounds.  Inv is inductive.                                              *)
(***************************************************************************)
EXTENDS Service, TLAPS

\* A timer thread that moves on is the same thread, about the same file.
LEMMA TimerMoves ==
  ASSUME WatcherTypeOK, NEW t \in timers, NEW stage \in Stages
  PROVE  /\ t \in Timers /\ t.id \in TimerIds /\ t.path \in Paths /\ t.stage \in Stages
         /\ At(t, stage) \in Timers
         /\ At(t, stage).id = t.id /\ At(t, stage).path = t.path
         /\ At(t, stage).own = t.own /\ At(t, stage).stage = stage
BY DEF WatcherTypeOK, Timers, At

LEMMA BecomesTyped ==
  ASSUME WatcherTypeOK, NEW t \in timers, NEW stage \in Stages, Becomes(t, At(t, stage)),
         observing' = observing, events' \subseteq Paths,
         record' \in [Paths -> TimerIds \cup {NoTimer}]
  PROVE  WatcherTypeOK'
<1>1. timers' \subseteq Timers
  BY TimerMoves DEF WatcherTypeOK, Becomes
<1>2. \A u, v \in timers' : u.id = v.id => u = v
  BY TimerMoves DEF WatcherTypeOK, Becomes
<1> QED
  BY <1>1, <1>2 DEF WatcherTypeOK

\* The lock has one holder: when it is free, or the owner's, nobody reads and
\* no timer works.
LEMMA NobodyElse ==
  ASSUME Inv, lock \in {NoOne, Owner}
  PROVE  reading = {} /\ (\A t \in timers : ~ Working(t)) /\ graph # "building"
<1>1. reading = {}
  BY ThreadsAssumption DEF Inv, LockHeld, TypeOK
<1>2. \A t \in timers : ~ Working(t)
  BY ThreadsAssumption, TimerMoves DEF Inv, LockHeld, TypeOK, Stages
<1> QED
  BY <1>1, <1>2 DEF Inv, LockHeld, Working

\* A reader or a timer that holds the lock holds it alone.
LEMMA OneTimer ==
  ASSUME Inv, NEW t \in timers, Working(t)
  PROVE  /\ lock = t.id /\ running /\ pc \in {"on", "detach"} /\ reading = {}
         /\ \A u \in timers : Working(u) => u = t
<1>1. t.id \in TimerIds
  BY TimerMoves DEF Inv, TypeOK, Stages
<1>2. lock = t.id /\ running /\ pc \in {"on", "detach"}
  BY DEF Inv, LockHeld
<1>3. reading = {}
  BY <1>1, <1>2, ThreadsAssumption DEF Inv, LockHeld, TypeOK
<1>4. \A u \in timers : Working(u) => u = t
  BY <1>2 DEF Inv, LockHeld, TypeOK, WatcherTypeOK
<1> QED
  BY <1>2, <1>3, <1>4

LEMMA InitInv == Init => Inv
<1> SUFFICES ASSUME Init PROVE Inv
  OBVIOUS
<1>1. TypeOK
  <2>1. version \in [Paths -> 0..MaxEdits] /\ indexed \in [Paths -> 0..MaxEdits]
    BY BoundsAssumption DEF Init
  <2>2. reads \in 0..MaxReads
    BY BoundsAssumption DEF Init
  <2>3. WatcherTypeOK
    BY DEF Init, WatcherInit, WatcherTypeOK
  <2> QED
    BY <2>1, <2>2, <2>3 DEF Init, TypeOK
<1> QED
  BY <1>1 DEF Init, WatcherInit, Inv, LockHeld, RecordNames, AllNoticed
-----------------------------------------------------------------------------
(* The observer thread and the timers' own steps. *)

LEMMA ChangeStep ==
  ASSUME Inv, NEW p \in Paths, Change(p)
  PROVE  Inv'
<1>1. /\ version[p] < MaxEdits /\ version' = [version EXCEPT ![p] = @ + 1]
      /\ events' = (IF observing THEN events \cup {p} ELSE events)
      /\ missed' = (IF observing THEN missed ELSE missed \cup {p})
      /\ UNCHANGED <<observing, timers, record, lock, pc, running, opened, graph,
                     indexed, failed, reading, reads>>
  BY DEF Change, Queue
<1>2. version' \in [Paths -> 0..MaxEdits]
  BY <1>1, BoundsAssumption DEF Inv, TypeOK
<1>3. TypeOK'
  BY <1>1, <1>2 DEF Inv, TypeOK, WatcherTypeOK
<1>4. LockHeld' /\ RecordNames'
  BY <1>1 DEF Inv, LockHeld, RecordNames, Working
<1>5. ASSUME NEW q \in Paths, Noticed(q)
      PROVE  Noticed(q)'
  <2>1. CASE q = p
    BY <1>1, <2>1 DEF Noticed
  <2>2. CASE q # p
    BY <1>1, <1>5, <2>2 DEF Noticed, Inv, TypeOK
  <2> QED
    BY <2>1, <2>2
<1>6. AllNoticed'
  BY <1>1, <1>5 DEF Inv, AllNoticed
<1> QED
  BY <1>3, <1>4, <1>6 DEF Inv

LEMMA EmitStep ==
  ASSUME Inv, NEW p \in Paths, NEW i \in TimerIds, Emit(p, i), UNCHANGED serviceVars
  PROVE  Inv'
<1> DEFINE new == [id |-> i, path |-> p, stage |-> "armed", own |-> TRUE]
<1>1. /\ p \in events /\ \A t \in timers : t.id # i
      /\ events' = events \ {p}
      /\ timers' = (timers \ Cancelled({record[p]})) \cup {new}
      /\ record' = [record EXCEPT ![p] = i]
      /\ UNCHANGED <<observing, lock, pc, running, opened, graph, version, indexed,
                     missed, failed, reading, reads>>
  BY DEF Emit, serviceVars
<1>2. /\ new \in Timers /\ new.id = i /\ new.path = p /\ new.stage = "armed" /\ new.own
  BY DEF Timers, Stages
<1> HIDE DEF new
<1>3. \A t \in Cancelled({record[p]}) : t.path = p /\ t.stage = "armed"
  BY NoTimerAssumption DEF Cancelled, Inv, RecordNames, TypeOK, WatcherTypeOK, Timers
<1>4. TypeOK'
  <2>1. timers' \subseteq Timers /\ \A t, u \in timers' : t.id = u.id => t = u
    BY <1>1, <1>2 DEF Inv, TypeOK, WatcherTypeOK
  <2>2. record' \in [Paths -> TimerIds \cup {NoTimer}]
    BY <1>1 DEF Inv, TypeOK, WatcherTypeOK
  <2> QED
    BY <1>1, <2>1, <2>2 DEF Inv, TypeOK, WatcherTypeOK
<1>5. LockHeld'
  BY <1>1, <1>2, <1>3 DEF Inv, LockHeld, Working
<1>6. RecordNames'
  <2>1. SUFFICES ASSUME NEW q \in Paths, record'[q] # NoTimer
                 PROVE  \E t \in timers' : /\ t.id = record'[q] /\ t.path = q /\ t.own
                                           /\ t.stage \in {"armed", "fired"}
    BY DEF RecordNames
  <2>2. CASE q = p
    BY <1>1, <1>2, <2>2 DEF Inv, TypeOK, WatcherTypeOK
  <2>3. CASE q # p
    BY <1>1, <1>3, <2>1, <2>3 DEF Inv, RecordNames, TypeOK, WatcherTypeOK
  <2> QED
    BY <2>2, <2>3
<1>7. AllNoticed'
  BY <1>1, <1>2, <1>3 DEF Inv, AllNoticed, Noticed
<1> QED
  BY <1>4, <1>5, <1>6, <1>7 DEF Inv

LEMMA TickStep ==
  ASSUME Inv, NEW t \in timers, Expire(t) \/ Fire(t), UNCHANGED serviceVars
  PROVE  Inv'
<1>1. PICK stage \in Stages :
        /\ Becomes(t, At(t, stage))
        /\ \/ t.stage = "armed" /\ stage = "fired" /\ record' = record
           \/ /\ t.stage = "fired" /\ stage = "calling"
              /\ record' = IF t.own THEN [record EXCEPT ![t.path] = NoTimer] ELSE record
        /\ UNCHANGED <<observing, events>>
  BY DEF Expire, Fire, Stages
<1>2. /\ t.id \in TimerIds /\ t.path \in Paths
      /\ At(t, stage).id = t.id /\ At(t, stage).path = t.path
      /\ At(t, stage).own = t.own /\ At(t, stage).stage = stage
  BY TimerMoves DEF Inv, TypeOK
<1>3. timers' = (timers \ {t}) \cup {At(t, stage)}
  BY <1>1 DEF Becomes
<1>4. UNCHANGED <<lock, pc, running, opened, graph, version, indexed, missed, failed,
                  reading, reads>>
  BY DEF serviceVars
<1>5. TypeOK'
  <2>1. record' \in [Paths -> TimerIds \cup {NoTimer}] /\ events' \subseteq Paths
    BY <1>1 DEF Inv, TypeOK, WatcherTypeOK
  <2>2. WatcherTypeOK'
    BY <1>1, <2>1, BecomesTyped DEF Inv, TypeOK
  <2> QED
    BY <1>4, <2>2 DEF Inv, TypeOK
<1>6. LockHeld'
  BY <1>1, <1>2, <1>3, <1>4 DEF Inv, LockHeld, Working
<1>7. RecordNames'
  <2>1. SUFFICES ASSUME NEW q \in Paths, record'[q] # NoTimer
                 PROVE  \E u \in timers' : /\ u.id = record'[q] /\ u.path = q /\ u.own
                                           /\ u.stage \in {"armed", "fired"}
    BY DEF RecordNames
  <2>2. record'[q] = record[q]
    BY <1>1, <1>2, <2>1 DEF Inv, TypeOK, WatcherTypeOK
  <2>3. PICK u \in timers : /\ u.id = record[q] /\ u.path = q /\ u.own
                            /\ u.stage \in {"armed", "fired"}
    BY <2>1, <2>2 DEF Inv, RecordNames
  <2>4. CASE u # t
    BY <1>3, <2>2, <2>3, <2>4
  <2>5. CASE u = t
    BY <1>1, <1>2, <1>3, <2>1, <2>2, <2>3, <2>5 DEF Inv, TypeOK, WatcherTypeOK
  <2> QED
    BY <2>4, <2>5
<1>8. AllNoticed'
  BY <1>1, <1>2, <1>3, <1>4 DEF Inv, AllNoticed, Noticed
<1> QED
  BY <1>5, <1>6, <1>7, <1>8 DEF Inv
-----------------------------------------------------------------------------
(* The owner, inside start and stop. *)

\* The steps that leave the watcher alone.
LEMMA OwnerStep ==
  ASSUME Inv,
         \/ StartOpen \/ StartRebuild \/ StartRaises \/ StartDone
         \/ StopCall \/ StopDetach \/ StopClose
  PROVE  Inv'
<1>1. UNCHANGED <<watcherVars, version, reading, reads>>
  BY DEF StartOpen, StartRebuild, StartRaises, StartDone, StopCall, StopDetach, StopClose
<1>2. WatcherTypeOK' /\ RecordNames'
  BY <1>1 DEF Inv, TypeOK, WatcherTypeOK, watcherVars, RecordNames
<1>3. TypeOK'
  BY <1>1, <1>2 DEF Inv, TypeOK, StartOpen, StartRebuild, StartRaises, StartDone, StopCall,
                    StopDetach, StopClose
<1>4. LockHeld'
  <2>1. CASE StartOpen \/ StopClose
    BY <1>1, <2>1, NobodyElse, ThreadsAssumption
       DEF Inv, LockHeld, StartOpen, StopClose, watcherVars
  <2>2. CASE StartRebuild \/ StartRaises \/ StartDone
    BY <1>1, <2>2, NobodyElse, ThreadsAssumption
       DEF Inv, LockHeld, StartRebuild, StartRaises, StartDone, watcherVars
  <2>3. CASE StopCall
    BY <1>1, <2>3 DEF Inv, LockHeld, StopCall, watcherVars
  <2>4. CASE StopDetach
    BY <1>1, <2>4, NobodyElse DEF Inv, LockHeld, StopDetach, watcherVars
  <2> QED
    BY <2>1, <2>2, <2>3, <2>4
<1>5. AllNoticed'
  BY <1>1 DEF Inv, AllNoticed, Noticed, watcherVars, StartOpen, StartRebuild,
              StartRaises, StartDone, StopCall, StopDetach, StopClose
<1> QED
  BY <1>2, <1>3, <1>4, <1>5 DEF Inv

LEMMA StartWatchStep ==
  ASSUME Inv, StartWatch
  PROVE  Inv'
<1>1. /\ pc = "watch" /\ pc' = "started" /\ observing' = TRUE
      /\ record' = [p \in Paths |-> NoTimer]
      /\ UNCHANGED <<events, timers, lock, running, opened, graph, version, indexed,
                     missed, failed, reading, reads>>
  BY DEF StartWatch, WatcherStart
<1>2. TypeOK'
  BY <1>1 DEF Inv, TypeOK, WatcherTypeOK
<1>3. LockHeld' /\ RecordNames'
  BY <1>1 DEF Inv, LockHeld, RecordNames, Working
<1>4. AllNoticed'
  BY <1>1 DEF Inv, AllNoticed, Noticed
<1> QED
  BY <1>2, <1>3, <1>4 DEF Inv

LEMMA StopObserverStep ==
  ASSUME Inv, StopObserver
  PROVE  Inv'
<1>1. /\ pc = "join" /\ pc' = "cancel" /\ observing' = FALSE /\ events' = {}
      /\ missed' = missed \cup events
      /\ UNCHANGED <<timers, record, lock, running, opened, graph, version, indexed,
                     failed, reading, reads>>
  BY DEF StopObserver, ObserverStop
<1>2. TypeOK'
  BY <1>1 DEF Inv, TypeOK, WatcherTypeOK
<1>3. LockHeld' /\ RecordNames' /\ AllNoticed'
  BY <1>1 DEF Inv, LockHeld, RecordNames, Working, AllNoticed
<1> QED
  BY <1>2, <1>3 DEF Inv

LEMMA StopTimersStep ==
  ASSUME Inv, StopTimers
  PROVE  Inv'
<1> DEFINE kept == timers \ Cancelled({record[p] : p \in Paths})
           dropped(t) == [t EXCEPT !.own = FALSE]
<1>1. /\ pc = "cancel" /\ pc' = "close"
      /\ timers' = {dropped(t) : t \in kept}
      /\ record' = [p \in Paths |-> NoTimer]
      /\ missed' = missed \cup {t.path : t \in timers}
      /\ UNCHANGED <<observing, events, lock, running, opened, graph, version, indexed,
                     failed, reading, reads>>
  BY DEF StopTimers, CancelPending
<1>2. \A t \in timers : /\ dropped(t) \in Timers /\ dropped(t).id = t.id
                        /\ dropped(t).stage = t.stage /\ t.path \in Paths
  BY DEF Inv, TypeOK, WatcherTypeOK, Timers
<1>3. \A t \in timers : t.stage = "building" => t \in kept
  BY DEF Cancelled
<1>4. kept \subseteq timers
  OBVIOUS
<1> HIDE DEF kept, dropped
<1>5. TypeOK'
  <2>1. timers' \subseteq Timers /\ missed' \subseteq Paths
    BY <1>1, <1>2, <1>4 DEF Inv, TypeOK
  <2>2. \A u, v \in timers' : u.id = v.id => u = v
    BY <1>1, <1>2, <1>4 DEF Inv, TypeOK, WatcherTypeOK
  <2>3. record' \in [Paths -> TimerIds \cup {NoTimer}]
    BY <1>1
  <2> QED
    BY <1>1, <2>1, <2>2, <2>3 DEF Inv, TypeOK, WatcherTypeOK
<1>6. LockHeld'
  <2>1. ASSUME NEW u \in timers', Working(u)
        PROVE  lock' = u.id /\ running'
    BY <1>1, <1>2, <1>4, <2>1 DEF Inv, LockHeld, Working
  <2>2. graph' = "building" => \E u \in timers' : u.stage = "building"
    BY <1>1, <1>2, <1>3 DEF Inv, LockHeld
  <2> QED
    BY <1>1, <2>1, <2>2 DEF Inv, LockHeld
<1>7. RecordNames' /\ AllNoticed'
  BY <1>1 DEF RecordNames, AllNoticed
<1> QED
  BY <1>5, <1>6, <1>7 DEF Inv
-----------------------------------------------------------------------------
(* Callbacks and reads. *)

\* A timer that is on no record's list may go without a trace in the records.
LEMMA RecordsStay ==
  ASSUME Inv, NEW t \in timers, t.stage \notin {"armed", "fired"},
         record' = record, timers \ {t} \subseteq timers'
  PROVE  RecordNames'
BY DEF Inv, RecordNames

LEMMA EndsTyped ==
  ASSUME WatcherTypeOK, NEW t \in timers, Ends(t), UNCHANGED <<observing, events, record>>
  PROVE  WatcherTypeOK'
BY DEF WatcherTypeOK, Ends

LEMMA EnterStep ==
  ASSUME Inv, NEW t \in timers, Enter(t)
  PROVE  Inv'
<1>1. /\ t.stage = "calling" /\ lock = NoOne
      /\ UNCHANGED <<observing, events, record, pc, running, opened, graph, version,
                     indexed, failed, reading, reads>>
  BY DEF Enter
<1>2. reading = {} /\ (\A u \in timers : ~ Working(u)) /\ graph # "building"
  BY <1>1, NobodyElse
<1>3. CASE running
  <2>1. lock' = t.id /\ Becomes(t, At(t, "reading")) /\ missed' = missed
    BY <1>3 DEF Enter
  <2>2. /\ t.id \in TimerIds /\ At(t, "reading").id = t.id
        /\ At(t, "reading").path = t.path /\ At(t, "reading").stage = "reading"
    BY TimerMoves DEF Inv, TypeOK, Stages
  <2>3. timers' = (timers \ {t}) \cup {At(t, "reading")}
    BY <2>1 DEF Becomes
  <2>4. WatcherTypeOK'
    BY <1>1, <2>1, BecomesTyped DEF Inv, TypeOK, WatcherTypeOK, Stages
  <2>5. TypeOK'
    BY <1>1, <2>1, <2>2, <2>4 DEF Inv, TypeOK
  <2>6. LockHeld'
    BY <1>1, <1>2, <1>3, <2>1, <2>2, <2>3 DEF Inv, LockHeld, Working
  <2>7. RecordNames'
    BY <1>1, <2>3, RecordsStay
  <2>8. AllNoticed'
    BY <1>1, <2>1, <2>2, <2>3 DEF Inv, AllNoticed, Noticed
  <2> QED
    BY <2>5, <2>6, <2>7, <2>8 DEF Inv
<1>4. CASE ~ running
  <2>1. lock' = lock /\ timers' = timers \ {t} /\ missed' = missed \cup {t.path} /\ Ends(t)
    BY <1>4 DEF Enter, Ends
  <2>2. TypeOK'
    BY <1>1, <2>1, EndsTyped, TimerMoves DEF Inv, TypeOK, Stages
  <2>3. LockHeld'
    BY <1>1, <1>2, <2>1 DEF Inv, LockHeld
  <2>4. RecordNames'
    BY <1>1, <2>1, RecordsStay
  <2>5. AllNoticed'
    BY <1>1, <2>1 DEF Inv, AllNoticed, Noticed
  <2> QED
    BY <2>2, <2>3, <2>4, <2>5 DEF Inv
<1> QED
  BY <1>3, <1>4

LEMMA ReindexStep ==
  ASSUME Inv, NEW t \in timers, Reindex(t)
  PROVE  Inv'
<1>1. /\ t.stage = "reading" /\ Becomes(t, At(t, "building"))
      /\ indexed' = [indexed EXCEPT ![t.path] = version[t.path]]
      /\ missed' = missed \ {t.path} /\ failed' = failed \ {t.path}
      /\ graph' = "building"
      /\ UNCHANGED <<observing, events, record, lock, pc, running, opened, version,
                     reading, reads>>
  BY DEF Reindex
<1>2. /\ lock = t.id /\ running /\ reading = {}
      /\ \A u \in timers : Working(u) => u = t
  BY <1>1, OneTimer DEF Working
<1>3. /\ t.path \in Paths /\ At(t, "building").id = t.id
      /\ At(t, "building").path = t.path /\ At(t, "building").stage = "building"
  BY TimerMoves DEF Inv, TypeOK, Stages
<1>4. timers' = (timers \ {t}) \cup {At(t, "building")}
  BY <1>1 DEF Becomes
<1>5. TypeOK'
  <2>1. WatcherTypeOK'
    BY <1>1, BecomesTyped DEF Inv, TypeOK, WatcherTypeOK, Stages
  <2>2. indexed' \in [Paths -> 0..MaxEdits]
    BY <1>1, <1>3 DEF Inv, TypeOK
  <2> QED
    BY <1>1, <2>1, <2>2 DEF Inv, TypeOK
<1>6. LockHeld'
  BY <1>1, <1>2, <1>3, <1>4 DEF Inv, LockHeld, Working
<1>7. RecordNames'
  BY <1>1, <1>4, RecordsStay
<1>8. ASSUME NEW p \in Paths, Noticed(p)
      PROVE  Noticed(p)'
  <2>1. CASE p = t.path
    BY <1>1, <1>3, <2>1 DEF Noticed, Inv, TypeOK
  <2>2. CASE p # t.path
    BY <1>1, <1>3, <1>4, <1>8, <2>2 DEF Noticed, Inv, TypeOK
  <2> QED
    BY <2>1, <2>2
<1>9. AllNoticed'
  BY <1>1, <1>8 DEF Inv, AllNoticed
<1> QED
  BY <1>5, <1>6, <1>7, <1>9 DEF Inv

\* A reindex that ends, well or badly, gives the lock back.
LEMMA ReindexEndStep ==
  ASSUME Inv, NEW t \in timers, ReindexDone(t) \/ ReindexRaises(t)
  PROVE  Inv'
<1>1. /\ t.stage \in {"reading", "building"} /\ Ends(t) /\ lock' = NoOne
      /\ UNCHANGED <<observing, events, record, pc, running, opened, version, indexed,
                     missed, reading, reads>>
      /\ \/ t.stage = "building" /\ graph' = "whole" /\ failed' = failed
         \/ /\ graph' = (IF graph = "building" THEN "bare" ELSE graph)
            /\ failed' = failed \cup {t.path}
  BY DEF ReindexDone, ReindexRaises
<1>2. /\ lock = t.id /\ running /\ pc \in {"on", "detach"} /\ reading = {}
      /\ \A u \in timers : Working(u) => u = t
  BY <1>1, OneTimer DEF Working
<1>3. timers' = timers \ {t} /\ t.path \in Paths
  BY <1>1, TimerMoves DEF Ends, Inv, TypeOK, Stages
<1>4. TypeOK'
  BY <1>1, <1>3, EndsTyped DEF Inv, TypeOK
<1>5. LockHeld'
  BY <1>1, <1>2, <1>3 DEF Inv, LockHeld
<1>6. RecordNames'
  BY <1>1, <1>3, RecordsStay
<1>7. AllNoticed'
  BY <1>1, <1>3 DEF Inv, AllNoticed, Noticed
<1> QED
  BY <1>4, <1>5, <1>6, <1>7 DEF Inv

LEMMA ReadStep ==
  ASSUME Inv, NEW r \in Readers, ReadBegin(r) \/ ReadEnd(r)
  PROVE  Inv'
<1>1. /\ UNCHANGED <<watcherVars, pc, running, opened, graph, version, indexed,
                     missed, failed>>
      /\ reading' \subseteq Readers
      /\ reads' \in 0..MaxReads
      /\ lock' \in {r, NoOne, lock}
  <2>1. reads' \in 0..MaxReads
    BY BoundsAssumption DEF Inv, TypeOK, ReadBegin, ReadEnd
  <2> QED
    BY <2>1 DEF Inv, TypeOK, ReadBegin, ReadEnd
<1>2. TypeOK' /\ RecordNames' /\ AllNoticed'
  BY <1>1 DEF Inv, TypeOK, WatcherTypeOK, watcherVars, RecordNames, AllNoticed, Noticed
<1>3. CASE ReadBegin(r)
  <2>1. lock = NoOne /\ lock' = r /\ reading' = reading \cup {r}
    BY <1>3 DEF ReadBegin
  <2>2. /\ reading = {} /\ (\A t \in timers : ~ Working(t)) /\ graph # "building"
        /\ pc \notin {"rebuild", "watch", "started"}
    BY <2>1, NobodyElse, ThreadsAssumption DEF Inv, LockHeld
  <2>3. LockHeld'
    BY <1>1, <2>1, <2>2 DEF Inv, LockHeld, watcherVars
  <2> QED
    BY <1>2, <2>3 DEF Inv
<1>4. CASE ReadEnd(r)
  <2>1. lock = r /\ lock' = NoOne /\ reading' = {}
    BY <1>4 DEF ReadEnd, Inv, LockHeld
  <2>2. (\A t \in timers : ~ Working(t)) /\ pc \notin {"rebuild", "watch", "started"}
    BY <2>1, OneTimer, ThreadsAssumption, TimerMoves DEF Inv, LockHeld, TypeOK, Stages
  <2> QED
    BY <1>1, <1>2, <2>1, <2>2 DEF Inv, LockHeld, watcherVars, Working
<1> QED
  BY <1>2, <1>3, <1>4 DEF Inv
-----------------------------------------------------------------------------
LEMMA Step == Inv /\ [Next]_vars => Inv'
<1>1. SUFFICES ASSUME Inv, [Next]_vars
               PROVE  Inv'
  OBVIOUS
<1>2. ASSUME NEW p \in Paths, Change(p)
      PROVE  Inv'
  BY <1>1, <1>2, ChangeStep
<1>3. CASE Observe
  BY <1>1, <1>3, EmitStep DEF Observe
<1>4. CASE Tick
  BY <1>1, <1>4, TickStep DEF Tick
<1>5. CASE \/ StartOpen \/ StartRebuild \/ StartRaises \/ StartDone
           \/ StopCall \/ StopDetach \/ StopClose
  BY <1>1, <1>5, OwnerStep
<1>6. CASE StartWatch \/ StopObserver \/ StopTimers
  BY <1>1, <1>6, StartWatchStep, StopObserverStep, StopTimersStep
<1>7. ASSUME NEW t \in timers,
             Enter(t) \/ Reindex(t) \/ ReindexDone(t) \/ ReindexRaises(t)
      PROVE  Inv'
  BY <1>1, <1>7, EnterStep, ReindexStep, ReindexEndStep
<1>8. ASSUME NEW r \in Readers, ReadBegin(r) \/ ReadEnd(r)
      PROVE  Inv'
  BY <1>1, <1>8, ReadStep
<1>9. CASE UNCHANGED vars
  BY <1>1, <1>9 DEF vars, watcherVars, serviceVars, Inv, TypeOK, WatcherTypeOK, LockHeld,
                    RecordNames, AllNoticed, Noticed, Working
<1> QED
  BY <1>1, <1>2, <1>3, <1>4, <1>5, <1>6, <1>7, <1>8, <1>9 DEF Next, Steps

\* Inv is inductive: what follows is drawn from it.
THEOREM Invariance == Spec => []Inv
BY InitInv, Step, PTL DEF Spec

\* Threads, lock, versions and histories keep their types.
THEOREM TypeCorrect == Spec => []TypeOK
<1>1. Inv => TypeOK
  BY DEF Inv
<1> QED
  BY <1>1, Invariance, PTL

\* No timer thread reindexes into a store that stop has closed: the test of
\* self._running under the lock is enough, however late the timer fires.
THEOREM ClosedStoreUnused == Spec => []NoUseAfterClose
<1>1. Inv => NoUseAfterClose
  BY DEF Inv, LockHeld, NoUseAfterClose
<1> QED
  BY <1>1, Invariance, PTL

\* No debouncing, cancelling or late callback drops the last change of a file,
\* whatever the number of timer threads alive at once.
THEOREM ChangesAreNoticed == Spec => []LastChangeNoticed
<1>1. Inv => LastChangeNoticed
  BY DEF Inv, LockHeld, AllNoticed, LastChangeNoticed
<1> QED
  BY <1>1, Invariance, PTL

\* Whatever a transport reads between ReadBegin and ReadEnd belongs to one state
\* of the graph and the store.
THEOREM ReadsAreStable == Spec => StableReads
<1>1. ASSUME Inv, [Next]_vars, reading # {}
      PROVE  graph # "building" /\ (reading' # {} => UNCHANGED <<graph, indexed>>)
  <2>1. \A t \in timers : ~ Working(t)
    BY <1>1, OneTimer
  <2>2. pc \notin {"rebuild", "watch", "started"}
    BY <1>1, NobodyElse DEF Inv, LockHeld
  <2>3. graph # "building"
    BY <1>1, <2>1 DEF Inv, LockHeld, Working
  <2>4. ~ StartRebuild
    BY <2>2 DEF StartRebuild
  <2>5. \A t \in timers : ~ Reindex(t) /\ ~ ReindexDone(t) /\ ~ ReindexRaises(t)
    BY <2>1 DEF Working, Reindex, ReindexDone, ReindexRaises
  <2>6. UNCHANGED <<graph, indexed>>
    BY <1>1, <2>4, <2>5
       DEF Next, Steps, Change, Observe, Tick, StartOpen, StartRaises, StartWatch,
           StartDone, StopCall, StopDetach, StopObserver, StopTimers, StopClose, Enter,
           ReadBegin, ReadEnd, vars, serviceVars
  <2> QED
    BY <2>3, <2>6
<1>2. Inv /\ [Next]_vars =>
        [reading # {} => /\ graph # "building"
                         /\ reading' # {} => UNCHANGED <<graph, indexed>>]_vars
  BY <1>1
<1> QED
  BY <1>2, Invariance, PTL DEF Spec, StableReads
=============================================================================
