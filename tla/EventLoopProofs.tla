--------------------------- MODULE EventLoopProofs ---------------------------
(***************************************************************************)
(* For any receivers, callers, events and timers: a removed receiver is    *)
(* never called, events are delivered in order, the loop never sleeps on   *)
(* work.  LoopInv and LoopTypeOK together are inductive.                       *)
(***************************************************************************)
EXTENDS EventLoop, TLAPS, NaturalsInduction, WellFoundedInduction

\* A nonempty set of naturals has a least element.
LEMMA LeastExists ==
    ASSUME NEW S, S \subseteq Nat, S # {}
    PROVE  \E n \in S : \A m \in S : n <= m
<1>1. PICK n \in S : \A y \in S : ~(<<y, n>> \in OpToRel(<, Nat))
  BY WFMin, NatLessThanWellFounded
<1>2. \A y \in S : ~(y < n)
  BY <1>1 DEF OpToRel
<1> QED BY <1>2

\* The front of a deque is its least number.
LEMMA FirstIsLeast ==
    ASSUME NEW S, S \subseteq Nat, S # {}
    PROVE  FirstOf(S) \in S /\ \A m \in S : FirstOf(S) <= m
BY LeastExists DEF FirstOf

\* What next_trigger_ is when it is computed from the timers.
LEMMA SmallestIsLeast ==
    ASSUME NEW S, S \subseteq Nat
    PROVE  /\ Smallest(S) \in Nat
           /\ S # {} => Smallest(S) \in S /\ \A m \in S : Smallest(S) <= m
<1>1. CASE S = {}
  BY <1>1 DEF Smallest
<1>2. CASE S # {}
  BY <1>2, LeastExists DEF Smallest
<1> QED BY <1>1, <1>2

\* Numbers in the bounds are naturals.
LEMMA IdsAreNat == EventIds \subseteq Nat \ {0} /\ TimerIds \subseteq Nat \ {0}
BY LoopBoundAssumption DEF EventIds, TimerIds

\* A wakeup leaves the loop's position where it was or at the top.
LEMMA NotifyLoopIs ==
    \A when : NotifyLoop(when) \in {loop, "top"} /\ (NotifyLoop(when) # loop => Waiting)
BY DEF NotifyLoop

-----------------------------------------------------------------------------
(* What the steps of the loop do to next_trigger_.                         *)

LEMMA NextTriggerNowOK ==
    ASSUME LoopTypeOK, TriggerIsNotLate
    PROVE  /\ NextTriggerNow \in Nat
           /\ timers # {} => NextTriggerNow # 0
                             /\ \A h \in timers : NextTriggerNow <= trigger[h]
<1> DEFINE S == {trigger[i] : i \in timers}
<1>1. S \subseteq Nat /\ nextTrigger \in Nat
  BY DEF LoopTypeOK
<1>2. Smallest(S) \in Nat /\ (S # {} => Smallest(S) \in S /\ \A m \in S : Smallest(S) <= m)
  BY <1>1, SmallestIsLeast
<1>3. \A h \in timers : trigger[h] \in Nat \ {0} /\ trigger[h] \in S
  BY <1>1 DEF TriggerIsNotLate, LoopTypeOK
<1>4. timers # {} => Smallest(S) # 0 /\ \A h \in timers : Smallest(S) <= trigger[h]
  BY <1>2, <1>3
<1>5. NextTriggerNow \in {Smallest(S), nextTrigger}
  BY DEF NextTriggerNow
<1> HIDE DEF S
<1> QED BY <1>1, <1>2, <1>4, <1>5 DEF TriggerIsNotLate

LEMMA FireTimerIs ==
    ASSUME LoopTypeOK, LoopInv, FireTimer
    PROVE  /\ timers' \subseteq timers
           /\ trigger' \in [TimerIds -> Nat]
           /\ nextTrigger' \in Nat
           /\ timers' # {} => nextTrigger' # 0 /\ \A h \in timers' : nextTrigger' <= trigger'[h]
           /\ activeHandler' \in active
           /\ fired' \subseteq TimerIds
<1> DEFINE h == FirstOf(Due)
           S == {trigger'[i] : i \in timers'}
<1>1. Due \subseteq timers /\ timers \subseteq TimerIds /\ Due \subseteq Nat /\ Due # {}
  BY IdsAreNat DEF Due, LoopTypeOK, FireTimer
<1>2. h \in timers /\ h \in TimerIds
  BY <1>1, FirstIsLeast
<1>3. timers' \subseteq timers
  BY DEF FireTimer
<1>4. trigger' \in [TimerIds -> Nat]
      /\ \A i \in timers : trigger'[i] \in {trigger[i], clock + interval[i]}
      /\ (trigger'[h] # trigger[h] => interval[h] # 0)
  BY <1>2 DEF FireTimer, LoopTypeOK
<1>5. \A i \in timers : trigger'[i] \in Nat \ {0}
  BY <1>4 DEF LoopTypeOK, LoopInv, TriggerIsNotLate
<1>6. nextTrigger' = Smallest(S) /\ S \subseteq Nat
  BY <1>3, <1>5 DEF FireTimer
<1>7. nextTrigger' \in Nat /\ (S # {} => nextTrigger' \in S /\ \A m \in S : nextTrigger' <= m)
  BY <1>6, SmallestIsLeast
<1>8. timers' # {} => nextTrigger' # 0 /\ \A i \in timers' : nextTrigger' <= trigger'[i]
  BY <1>3, <1>5, <1>7
<1>9. activeHandler' \in active
  BY <1>2 DEF FireTimer, LoopInv, QueuedAreActive
<1>10. fired' \subseteq TimerIds
  BY <1>2 DEF FireTimer, LoopTypeOK
<1> HIDE DEF S, h
<1> QED BY <1>3, <1>4, <1>7, <1>8, <1>9, <1>10

LEMMA TakeEventIs ==
    ASSUME LoopTypeOK, LoopInv, TakeEvent
    PROVE  \E n \in events : /\ \A m \in events : n <= m
                             /\ events' = events \ {n}
                             /\ delivered' = delivered \cup {n}
                             /\ activeHandler' = to[n] /\ to[n] \in active
<1>1. events \subseteq Nat /\ events # {}
  BY IdsAreNat DEF LoopTypeOK, TakeEvent
<1>2. FirstOf(events) \in events /\ \A m \in events : FirstOf(events) <= m
  BY <1>1, FirstIsLeast
<1>3. /\ events' = events \ {FirstOf(events)} /\ delivered' = delivered \cup {FirstOf(events)}
      /\ activeHandler' = to[FirstOf(events)]
  BY DEF TakeEvent
<1> QED BY <1>2, <1>3 DEF LoopInv, QueuedAreActive
-----------------------------------------------------------------------------
(* Types.                                                                  *)

\* The initial state has the types.
LEMMA TypeInit == LoopInit => LoopTypeOK
<1> SUFFICES ASSUME LoopInit PROVE LoopTypeOK
  OBVIOUS
<1>1. to \in [EventIds -> Receivers \cup {NoReceiver}] /\ handler \in [TimerIds -> Receivers \cup {NoReceiver}]
      /\ removing \in [Others -> Receivers \cup {NoReceiver}]
  BY DEF LoopInit
<1>2. trigger \in [TimerIds -> Nat] /\ interval \in [TimerIds -> Nat]
  BY DEF LoopInit
<1>3. lastEvent \in 0..MaxEvents /\ lastTimer \in 0..MaxTimers /\ nextTrigger \in Nat
      /\ clock \in Nat \ {0}
  BY LoopBoundAssumption DEF LoopInit
<1>4. events \subseteq EventIds /\ timers \subseteq TimerIds /\ delivered \subseteq EventIds
      /\ fired \subseteq TimerIds /\ stoppedTimers \subseteq TimerIds /\ removed \subseteq Receivers
      /\ active \subseteq Receivers /\ activeHandler \in Receivers \cup {NoReceiver}
  BY DEF LoopInit
<1>5. quit \in BOOLEAN /\ fromTimer \in BOOLEAN /\ own \in BOOLEAN
      /\ loop \in {"top", "handler", "wait", "wait_until", "exited"}
      /\ stopping \in {"no", "join", "done"}
  BY DEF LoopInit
<1> QED BY <1>1, <1>2, <1>3, <1>4, <1>5 DEF LoopTypeOK

\* Every step keeps the types.
LEMMA TypeStep ==
    ASSUME LoopTypeOK, LoopInv, [LoopNext]_loopVars
    PROVE  LoopTypeOK'
<1> USE LoopBoundAssumption, ReceiverAssumption, CallerAssumption
<1>1. ASSUME NEW t \in Threads, NEW r \in Receivers, emit(t, r) PROVE LoopTypeOK'
  <2>1. lastEvent + 1 \in EventIds /\ lastEvent' \in 0..MaxEvents
    BY <1>1 DEF emit, LoopTypeOK, EventIds
  <2>2. loop' \in {loop, "top"}
    BY <1>1, NotifyLoopIs DEF emit
  <2> QED BY <1>1, <2>1, <2>2 DEF emit, LoopTypeOK, timerVars, hist
<1>2. ASSUME NEW t \in Threads, NEW r \in Receivers, remove_receiver(t, r) PROVE LoopTypeOK'
  <2>1. removing' \in [Others -> Receivers \cup {NoReceiver}]
    BY <1>2 DEF remove_receiver, MustWait, LoopTypeOK, Threads
  <2> QED BY <1>2, <2>1 DEF remove_receiver, EventsWithout, TimersWithout, LoopTypeOK, handlerVars
<1>3. ASSUME NEW t \in Threads, NEW r \in Receivers, NEW d \in Delays, NEW repeat \in Repeating,
             start_timer(t, r, d, repeat)
      PROVE  LoopTypeOK'
  <2>1. lastTimer + 1 \in TimerIds /\ lastTimer' \in 0..MaxTimers
    BY <1>3 DEF start_timer, LoopTypeOK, TimerIds
  <2>2. loop' \in {loop, "top"}
    BY <1>3, NotifyLoopIs DEF start_timer
  <2>3. d \in Nat /\ clock \in Nat /\ nextTrigger' \in Nat
    BY <1>3 DEF start_timer, UpdateNextTrigger, LoopTypeOK
  <2>4. trigger' \in [TimerIds -> Nat] /\ interval' \in [TimerIds -> Nat]
    BY <1>3, <2>1, <2>3 DEF start_timer, NewHandle, LoopTypeOK
  <2>5. timers' \subseteq TimerIds /\ handler' \in [TimerIds -> Receivers \cup {NoReceiver}]
    BY <1>3, <2>1 DEF start_timer, NewHandle, LoopTypeOK
  <2> QED BY <1>3, <2>1, <2>2, <2>3, <2>4, <2>5 DEF start_timer, LoopTypeOK, queues, hist
<1>4. ASSUME NEW t \in Threads, NEW h \in TimerIds, stop_timer(t, h) PROVE LoopTypeOK'
  BY <1>4 DEF stop_timer, LoopTypeOK, queues, handlerVars
<1>5. ASSUME NEW t \in Others, RemoveReturns(t) PROVE LoopTypeOK'
  BY <1>5 DEF RemoveReturns, LoopTypeOK, queues, timerVars, handlerVars
<1>6. CASE FireTimer
  <2>1. activeHandler' \in Receivers
    BY <1>6, FireTimerIs DEF LoopTypeOK
  <2> QED BY <1>6, <2>1, FireTimerIs DEF FireTimer, LoopTypeOK, queues
<1>7. CASE TakeEvent
  <2>1. PICK n \in events : /\ events' = events \ {n} /\ delivered' = delivered \cup {n}
                            /\ activeHandler' \in active
    BY <1>7, TakeEventIs
  <2>2. nextTrigger' \in Nat
    BY <1>7, NextTriggerNowOK DEF TakeEvent, LoopInv
  <2> QED BY <1>7, <2>1, <2>2 DEF TakeEvent, LoopTypeOK
<1>8. CASE NothingToDo
  <2>1. nextTrigger' \in Nat
    BY <1>8, NextTriggerNowOK DEF NothingToDo, LoopInv
  <2> QED BY <1>8, <2>1 DEF NothingToDo, WaitFor, LoopTypeOK, queues, hist
<1>9. CASE HandlerReturns
  <2>1. removed' \subseteq Receivers
    BY <1>9 DEF HandlerReturns, LoopTypeOK, LoopInv, RemovedAreInactive
  <2> QED BY <1>9, <2>1 DEF HandlerReturns, HandlerAfter, WaitFor, LoopTypeOK, queues, timerVars
<1>10. CASE LoopExits
  BY <1>10 DEF LoopExits, LoopTypeOK, queues, timerVars, hist
<1>11. CASE Timeout
  BY <1>11 DEF Timeout, LoopTypeOK, queues, timerVars, hist
<1>12. CASE SpuriousWakeup
  BY <1>12 DEF SpuriousWakeup, LoopTypeOK, queues, timerVars, hist
<1>13. CASE Tick
  BY <1>13 DEF Tick, LoopTypeOK, queues, timerVars, handlerVars, hist
<1>14. CASE stop
  <2>1. loop' \in {loop, "top"}
    BY <1>14, NotifyLoopIs DEF stop
  <2> QED BY <1>14, <2>1 DEF stop, LoopTypeOK, queues, timerVars, hist
<1>15. CASE StopJoins
  BY <1>15 DEF StopJoins, LoopTypeOK, handlerVars, hist
<1>16. CASE UNCHANGED loopVars
  BY <1>16 DEF loopVars, LoopTypeOK, queues, timerVars, handlerVars, hist
<1> QED
  BY <1>1, <1>2, <1>3, <1>4, <1>5, <1>6, <1>7, <1>8, <1>9, <1>10, <1>11, <1>12, <1>13,
     <1>14, <1>15, <1>16 DEF LoopNext, LoopStep
-----------------------------------------------------------------------------
(* The inductive invariant.                                                *)

\* A step that leaves the queues, the receivers and the sleeper alone.
LEMMA InvFrame ==
    ASSUME LoopInv,
           UNCHANGED <<events, lastEvent, to, timers, lastTimer, handler, trigger, nextTrigger,
                       activeHandler, active, quit, loop, removing, stopping, delivered, own, removed>>
    PROVE  LoopInv'
BY DEF LoopInv, QueuedAreActive, RemovedAreInactive, TriggerIsNotLate, NoCallAfterRemoval,
       InOrderOnce, NeverSleepsOnWork, Waiting

\* The loop's thread moves between the places where it runs no handler and
\* does not sleep.
LEMMA InvWake ==
    ASSUME LoopInv, loop # "handler", loop' \in {"top", "exited"},
           UNCHANGED <<events, lastEvent, to, timers, lastTimer, handler, trigger, nextTrigger,
                       activeHandler, active, removing, stopping, delivered, own, removed>>,
           stopping # "no" => quit'
    PROVE  LoopInv'
BY DEF LoopInv, QueuedAreActive, RemovedAreInactive, TriggerIsNotLate, NoCallAfterRemoval,
       InOrderOnce, NeverSleepsOnWork, Waiting

\* Every step keeps LoopInv.
LEMMA InvStep ==
    ASSUME LoopTypeOK, LoopInv, [LoopNext]_loopVars, LoopTypeOK'
    PROVE  LoopInv'
<1> USE ReceiverAssumption, CallerAssumption, IdsAreNat
<1>1. ASSUME NEW t \in Threads, NEW r \in Receivers, emit(t, r) PROVE LoopInv'
  <2>1. /\ lastEvent + 1 \in EventIds /\ lastEvent \in Nat /\ lastEvent' = lastEvent + 1
        /\ events' = events \cup {lastEvent + 1} /\ events \subseteq EventIds
        /\ to'[lastEvent + 1] = r /\ r \in active /\ r \notin removed /\ ~quit
        /\ \A n \in EventIds : n # lastEvent + 1 => to'[n] = to[n]
        /\ UNCHANGED <<timers, lastTimer, handler, trigger, nextTrigger, activeHandler, active,
                       quit, removing, stopping, delivered, own, removed>>
    BY <1>1 DEF emit, Accepting, LoopTypeOK, EventIds, timerVars, hist
  <2>2. loop' = (IF events = {} /\ Waiting THEN "top" ELSE loop)
    BY <1>1 DEF emit, NotifyLoop
  <2>3. QueuedAreActive'
    <3>1. ASSUME NEW n \in events
          PROVE  n \in Nat /\ n <= lastEvent /\ to[n] \in active /\ to'[n] = to[n]
      <4>1. n \in Nat /\ n \in EventIds
        BY <2>1
      <4>2. n <= lastEvent /\ to[n] \in active
        BY DEF LoopInv, QueuedAreActive
      <4>3. n # lastEvent + 1
        BY <2>1, <4>1, <4>2
      <4> QED BY <2>1, <4>1, <4>2, <4>3
    <3>2. \A n \in delivered : n \in Nat /\ n <= lastEvent
      BY DEF LoopInv, QueuedAreActive, LoopTypeOK
    <3>3. \A n \in events' : n <= lastEvent' /\ to'[n] \in active'
      BY <2>1, <3>1
    <3>4. \A n \in delivered' : n <= lastEvent'
      BY <2>1, <3>2
    <3> QED BY <2>1, <3>3, <3>4 DEF LoopInv, QueuedAreActive
  <2>4. RemovedAreInactive' /\ TriggerIsNotLate' /\ NoCallAfterRemoval'
    <3>1. (loop' = "handler" <=> loop = "handler") /\ (loop' = "wait" => loop = "wait")
      BY <2>2 DEF Waiting
    <3>2. RemovedAreInactive'
      BY <2>1, <3>1 DEF LoopInv, RemovedAreInactive
    <3>3. TriggerIsNotLate'
      BY <2>1, <3>1 DEF LoopInv, TriggerIsNotLate
    <3>4. NoCallAfterRemoval'
      <4>1. \A n \in events : n # lastEvent + 1 /\ n \in EventIds
        BY <2>1 DEF LoopInv, QueuedAreActive
      <4> QED BY <2>1, <4>1 DEF LoopInv, NoCallAfterRemoval
    <3> QED BY <3>2, <3>3, <3>4
  <2>5. InOrderOnce'
    <3>1. \A n \in 1..lastEvent' : n \in 1..lastEvent \/ n = lastEvent + 1
      BY <2>1
    <3>2. \A n \in 1..lastEvent : n \in EventIds /\ n # lastEvent + 1
      BY <2>1, LoopBoundAssumption DEF EventIds
    <3>3. \A n \in delivered : n \in Nat /\ n <= lastEvent
      BY DEF LoopInv, QueuedAreActive, LoopTypeOK
    <3> QED BY <2>1, <3>1, <3>2, <3>3 DEF LoopInv, InOrderOnce
  <2>6. NeverSleepsOnWork'
    <3>1. ~Waiting'
      BY <2>2 DEF LoopInv, NeverSleepsOnWork, Waiting
    <3> QED BY <3>1 DEF NeverSleepsOnWork
  <2> QED BY <2>3, <2>4, <2>5, <2>6 DEF LoopInv
<1>2. ASSUME NEW t \in Threads, NEW r \in Receivers, remove_receiver(t, r) PROVE LoopInv'
  <2>1. /\ active' = active \ {r}
        /\ events' = {n \in events : to[n] # r} /\ timers' = {h \in timers : handler[h] # r}
        /\ UNCHANGED <<lastEvent, to, lastTimer, handler, trigger, nextTrigger, activeHandler,
                       loop, quit, stopping, delivered>>
    BY <1>2 DEF remove_receiver, EventsWithout, TimersWithout, handlerVars
  <2>2. removed' \subseteq removed \cup {r} /\ (r \in removed' => activeHandler # r)
    BY <1>2 DEF remove_receiver, MustWait, Threads
  <2>3. \A u \in Others : removing'[u] \in {removing[u], r}
    BY <1>2 DEF remove_receiver, LoopTypeOK
  <2>4. own' => own \/ (loop = "handler" /\ activeHandler = r)
    BY <1>2 DEF remove_receiver, CanCall
  <2>5. QueuedAreActive' /\ TriggerIsNotLate' /\ InOrderOnce'
    BY <2>1 DEF LoopInv, QueuedAreActive, TriggerIsNotLate, InOrderOnce
  <2>6. RemovedAreInactive'
    <3>1. (removed \cap active)' = {} /\ \A u \in Others : removing'[u] \notin active'
      BY <2>1, <2>2, <2>3 DEF LoopInv, RemovedAreInactive
    <3>2. own' => loop' = "handler" /\ activeHandler' \in Receivers \ active'
      BY <2>1, <2>4 DEF LoopInv, RemovedAreInactive
    <3> QED BY <2>1, <3>1, <3>2 DEF LoopInv, RemovedAreInactive
  <2>7. NoCallAfterRemoval'
    BY <2>1, <2>2 DEF LoopInv, NoCallAfterRemoval
  <2>8. NeverSleepsOnWork'
    BY <2>1 DEF LoopInv, NeverSleepsOnWork, Waiting
  <2> QED BY <2>5, <2>6, <2>7, <2>8 DEF LoopInv
<1>3. ASSUME NEW t \in Threads, NEW r \in Receivers, NEW d \in Delays, NEW repeat \in Repeating,
             start_timer(t, r, d, repeat)
      PROVE  LoopInv'
  <2> DEFINE h == lastTimer + 1
             at == clock + d
  <2>1. /\ h \in TimerIds /\ lastTimer \in Nat /\ lastTimer' = lastTimer + 1
        /\ timers' = timers \cup {h} /\ timers \subseteq TimerIds
        /\ handler'[h] = r /\ r \in active /\ r \notin removed
        /\ \A i \in TimerIds : i # h => handler'[i] = handler[i] /\ trigger'[i] = trigger[i]
        /\ UNCHANGED <<events, lastEvent, to, activeHandler, active,
                       quit, removing, stopping, delivered, own, removed>>
    BY <1>3, LoopBoundAssumption DEF start_timer, NewHandle, Accepting, LoopTypeOK, TimerIds, queues, hist
  <2>2. trigger'[h] = at /\ at \in Nat \ {0} /\ nextTrigger \in Nat
        /\ \A i \in timers : trigger[i] \in Nat
    BY <1>3, <2>1, LoopBoundAssumption DEF start_timer, NewHandle, LoopTypeOK
  <2>3. nextTrigger' = (IF nextTrigger = 0 \/ at < nextTrigger THEN at ELSE nextTrigger)
    BY <1>3 DEF start_timer, UpdateNextTrigger
  <2>4. loop' = (IF (events = {} /\ (nextTrigger = 0 \/ at < nextTrigger)) /\ Waiting
                 THEN "top" ELSE loop)
    BY <1>3 DEF start_timer, NotifyLoop
  <2>5. \A i \in timers : i # h
    BY <2>1 DEF LoopInv, QueuedAreActive
  <2> HIDE DEF h, at
  <2>6. QueuedAreActive'
    <3>1. \A i \in timers' : i <= lastTimer' /\ handler'[i] \in active'
      BY <2>1, <2>5 DEF LoopInv, QueuedAreActive, h
    <3> QED BY <2>1, <3>1 DEF LoopInv, QueuedAreActive
  <2>7. RemovedAreInactive' /\ NoCallAfterRemoval' /\ InOrderOnce'
    <3>1. loop' = "handler" <=> loop = "handler"
      BY <2>4 DEF Waiting
    <3>2. RemovedAreInactive' /\ InOrderOnce'
      BY <2>1, <3>1 DEF LoopInv, RemovedAreInactive, InOrderOnce
    <3>3. NoCallAfterRemoval'
      BY <2>1, <2>5 DEF LoopInv, NoCallAfterRemoval
    <3> QED BY <3>2, <3>3
  <2>8. nextTrigger' # 0 /\ \A i \in timers' : nextTrigger' <= trigger'[i]
    <3>1. nextTrigger' # 0 /\ nextTrigger' <= at /\ (nextTrigger # 0 => nextTrigger' <= nextTrigger)
      BY <2>2, <2>3
    <3>2. ASSUME NEW i \in timers PROVE nextTrigger' <= trigger'[i]
      <4>1. nextTrigger # 0 /\ nextTrigger <= trigger[i] /\ trigger'[i] = trigger[i]
        BY <2>1, <2>5 DEF LoopInv, TriggerIsNotLate
      <4> QED BY <2>2, <2>3, <4>1
    <3> QED BY <2>1, <2>2, <3>1, <3>2
  <2>9. TriggerIsNotLate'
    <3>1. loop' # "wait"
      BY <2>4, <2>1 DEF LoopInv, TriggerIsNotLate, NeverSleepsOnWork, Waiting
    <3> QED BY <2>8, <3>1 DEF TriggerIsNotLate
  <2>10. NeverSleepsOnWork'
    <3>1. Waiting' => loop' = "wait_until" /\ events = {} /\ ~quit
      BY <2>4 DEF Waiting, LoopInv, NeverSleepsOnWork, TriggerIsNotLate
    <3> QED BY <2>1, <2>8, <3>1 DEF LoopInv, NeverSleepsOnWork, Waiting
  <2> QED BY <2>6, <2>7, <2>9, <2>10 DEF LoopInv
<1>4. ASSUME NEW t \in Threads, NEW h \in TimerIds, stop_timer(t, h) PROVE LoopInv'
  <2>1. /\ timers' = timers \ {h} /\ h \in timers
        /\ nextTrigger' = (IF timers = {h} THEN 0 ELSE nextTrigger)
        /\ UNCHANGED <<events, lastEvent, to, lastTimer, handler, trigger, activeHandler, active,
                       quit, loop, removing, stopping, delivered, own, removed>>
    BY <1>4 DEF stop_timer, queues, handlerVars
  <2>2. timers' # {} => nextTrigger' = nextTrigger
    BY <2>1
  <2>3. QueuedAreActive' /\ RemovedAreInactive' /\ NoCallAfterRemoval' /\ InOrderOnce'
    BY <2>1 DEF LoopInv, QueuedAreActive, RemovedAreInactive, NoCallAfterRemoval, InOrderOnce
  <2>4. TriggerIsNotLate' /\ NeverSleepsOnWork'
    BY <2>1, <2>2 DEF LoopInv, TriggerIsNotLate, NeverSleepsOnWork, Waiting
  <2> QED BY <2>3, <2>4 DEF LoopInv
<1>5. ASSUME NEW t \in Others, RemoveReturns(t) PROVE LoopInv'
  <2>1. /\ removing[t] # NoReceiver /\ activeHandler # removing[t]
        /\ removed' = removed \cup {removing[t]}
        /\ \A u \in Others : removing'[u] \in {removing[u], NoReceiver}
        /\ UNCHANGED <<events, lastEvent, to, timers, lastTimer, handler, trigger, nextTrigger,
                       activeHandler, active, quit, loop, stopping, delivered, own>>
    BY <1>5 DEF RemoveReturns, LoopTypeOK, queues, timerVars, handlerVars
  <2>2. removing[t] \notin active /\ NoReceiver \notin active
    BY DEF LoopInv, RemovedAreInactive, LoopTypeOK
  <2>3. RemovedAreInactive' /\ NoCallAfterRemoval'
    BY <2>1, <2>2 DEF LoopInv, RemovedAreInactive, QueuedAreActive, NoCallAfterRemoval
  <2>4. QueuedAreActive' /\ TriggerIsNotLate' /\ InOrderOnce' /\ NeverSleepsOnWork'
    BY <2>1 DEF LoopInv, QueuedAreActive, TriggerIsNotLate, InOrderOnce, NeverSleepsOnWork, Waiting
  <2> QED BY <2>3, <2>4 DEF LoopInv
<1>6. CASE FireTimer
  <2>1. /\ loop = "top" /\ loop' = "handler"
        /\ UNCHANGED <<events, lastEvent, to, lastTimer, handler, active,
                       quit, removing, stopping, delivered, own, removed>>
    BY <1>6 DEF FireTimer, LoopFree, queues
  <2>2. /\ timers' \subseteq timers /\ activeHandler' \in active
        /\ timers' # {} => nextTrigger' # 0 /\ \A h \in timers' : nextTrigger' <= trigger'[h]
    BY <1>6, FireTimerIs
  <2>3. NoReceiver \notin active /\ activeHandler' \notin removed /\ ~own
    BY <2>1, <2>2 DEF LoopInv, RemovedAreInactive, LoopTypeOK
  <2>4. QueuedAreActive' /\ InOrderOnce'
    BY <2>1, <2>2 DEF LoopInv, QueuedAreActive, InOrderOnce
  <2>5. RemovedAreInactive' /\ NoCallAfterRemoval'
    BY <2>1, <2>2, <2>3 DEF LoopInv, RemovedAreInactive, NoCallAfterRemoval
  <2>6. TriggerIsNotLate' /\ NeverSleepsOnWork'
    BY <2>1, <2>2 DEF TriggerIsNotLate, NeverSleepsOnWork, Waiting
  <2> QED BY <2>4, <2>5, <2>6 DEF LoopInv
<1>7. CASE TakeEvent
  <2>1. /\ loop = "top" /\ loop' = "handler" /\ ~quit /\ nextTrigger' = NextTriggerNow
        /\ UNCHANGED <<lastEvent, to, timers, lastTimer, handler, trigger, active,
                       quit, removing, stopping, own, removed>>
    BY <1>7 DEF TakeEvent, LoopFree
  <2>2. PICK n \in events : /\ \A m \in events : n <= m
                            /\ events' = events \ {n} /\ delivered' = delivered \cup {n}
                            /\ activeHandler' \in active
    BY <1>7, TakeEventIs
  <2>3. events \subseteq Nat /\ n \in Nat
    BY <2>2 DEF LoopTypeOK
  <2>4. QueuedAreActive'
    BY <2>1, <2>2 DEF LoopInv, QueuedAreActive
  <2>5. InOrderOnce'
    <3>1. \A k \in events' : n < k
      BY <2>2, <2>3
    <3>2. delivered' \cup events' = delivered \cup events
      BY <2>2
    <3>3. \A m \in delivered', k \in events' : m < k
      BY <2>2, <3>1 DEF LoopInv, InOrderOnce
    <3> QED BY <2>1, <3>2, <3>3 DEF LoopInv, InOrderOnce
  <2>6. NoReceiver \notin active /\ activeHandler' \notin removed /\ ~own
    BY <2>1, <2>2 DEF LoopInv, RemovedAreInactive, LoopTypeOK
  <2>7. RemovedAreInactive' /\ NoCallAfterRemoval'
    BY <2>1, <2>2, <2>6 DEF LoopInv, RemovedAreInactive, NoCallAfterRemoval
  <2>8. TriggerIsNotLate' /\ NeverSleepsOnWork'
    BY <2>1, NextTriggerNowOK DEF LoopInv, TriggerIsNotLate, NeverSleepsOnWork, Waiting
  <2> QED BY <2>4, <2>5, <2>7, <2>8 DEF LoopInv
<1>8. CASE NothingToDo
  <2>1. /\ loop = "top" /\ events = {} /\ ~quit /\ nextTrigger' = NextTriggerNow
        /\ loop' = (IF NextTriggerNow # 0 THEN "wait_until" ELSE "wait")
        /\ UNCHANGED <<events, lastEvent, to, timers, lastTimer, handler, trigger, activeHandler,
                       active, quit, removing, stopping, delivered, own, removed>>
    BY <1>8 DEF NothingToDo, LoopFree, WaitFor, queues, hist
  <2>2. QueuedAreActive' /\ RemovedAreInactive' /\ NoCallAfterRemoval' /\ InOrderOnce'
    BY <2>1 DEF LoopInv, QueuedAreActive, RemovedAreInactive, NoCallAfterRemoval, InOrderOnce
  <2>3. TriggerIsNotLate' /\ NeverSleepsOnWork'
    BY <2>1, NextTriggerNowOK DEF LoopInv, TriggerIsNotLate, NeverSleepsOnWork, Waiting
  <2> QED BY <2>2, <2>3 DEF LoopInv
<1>9. CASE HandlerReturns
  <2>1. /\ loop = "handler" /\ activeHandler' = NoReceiver
        /\ loop' \in {"top", "wait", "wait_until"}
        /\ loop' # "top" => ~quit /\ events = {}
        /\ loop' = "wait_until" => nextTrigger # 0
        /\ loop' = "wait" => nextTrigger = 0
        /\ removed' = (IF own THEN removed \cup {activeHandler} ELSE removed) /\ own' = FALSE
        /\ UNCHANGED <<events, lastEvent, to, timers, lastTimer, handler, trigger, nextTrigger,
                       active, quit, removing, stopping, delivered>>
    BY <1>9 DEF HandlerReturns, HandlerAfter, WaitFor, queues, timerVars
  <2>2. removed' \cap active = {} /\ NoReceiver \notin removed'
    BY <2>1 DEF LoopInv, RemovedAreInactive, LoopTypeOK
  <2>3. QueuedAreActive' /\ InOrderOnce' /\ TriggerIsNotLate'
    BY <2>1 DEF LoopInv, QueuedAreActive, InOrderOnce, TriggerIsNotLate
  <2>4. RemovedAreInactive' /\ NoCallAfterRemoval'
    BY <2>1, <2>2 DEF LoopInv, QueuedAreActive, RemovedAreInactive, NoCallAfterRemoval
  <2>5. NeverSleepsOnWork'
    BY <2>1 DEF LoopInv, TriggerIsNotLate, NeverSleepsOnWork, Waiting
  <2> QED BY <2>3, <2>4, <2>5 DEF LoopInv
<1>10. CASE LoopExits
  BY <1>10, InvWake DEF LoopExits, LoopInv, RemovedAreInactive, queues, timerVars, hist
<1>11. CASE Timeout
  BY <1>11, InvWake DEF Timeout, LoopInv, RemovedAreInactive, queues, timerVars, hist
<1>12. CASE SpuriousWakeup
  BY <1>12, InvWake DEF SpuriousWakeup, Waiting, LoopInv, RemovedAreInactive, queues, timerVars, hist
<1>13. CASE Tick
  BY <1>13, InvFrame DEF Tick, queues, timerVars, handlerVars, hist
<1>14. CASE stop
  <2>1. /\ stopping' = "join" /\ quit'
        /\ loop' = (IF Waiting THEN "top" ELSE loop)
        /\ UNCHANGED <<events, lastEvent, to, timers, lastTimer, handler, trigger, nextTrigger,
                       activeHandler, active, removing, delivered, own, removed>>
        /\ stopping = "no"
    BY <1>14 DEF stop, NotifyLoop, queues, timerVars, hist
  <2>2. ~Waiting' /\ (loop' = "handler" <=> loop = "handler")
    BY <2>1 DEF Waiting
  <2>3. QueuedAreActive' /\ RemovedAreInactive' /\ TriggerIsNotLate' /\ NoCallAfterRemoval'
    BY <2>1, <2>2 DEF LoopInv, QueuedAreActive, RemovedAreInactive, TriggerIsNotLate,
                      NoCallAfterRemoval, Waiting
  <2>4. InOrderOnce' /\ NeverSleepsOnWork'
    BY <2>1, <2>2 DEF LoopInv, InOrderOnce, NeverSleepsOnWork
  <2> QED BY <2>3, <2>4 DEF LoopInv
<1>15. CASE StopJoins
  <2>1. /\ stopping = "join" /\ stopping' = "done" /\ loop = "exited"
        /\ events' = {} /\ timers' = {}
        /\ UNCHANGED <<lastEvent, to, lastTimer, handler, trigger, nextTrigger, loop, activeHandler,
                       active, quit, removing, delivered, own, removed>>
    BY <1>15 DEF StopJoins, handlerVars, hist
  <2>2. quit
    BY <2>1 DEF LoopInv, RemovedAreInactive
  <2>3. QueuedAreActive' /\ RemovedAreInactive' /\ TriggerIsNotLate' /\ NoCallAfterRemoval'
    BY <2>1, <2>2 DEF LoopInv, QueuedAreActive, RemovedAreInactive, TriggerIsNotLate,
                      NoCallAfterRemoval
  <2>4. InOrderOnce' /\ NeverSleepsOnWork'
    BY <2>1 DEF LoopInv, InOrderOnce, NeverSleepsOnWork, Waiting
  <2> QED BY <2>3, <2>4 DEF LoopInv
<1>16. CASE UNCHANGED loopVars
  BY <1>16, InvFrame DEF loopVars, queues, timerVars, handlerVars, hist
<1> QED
  BY <1>1, <1>2, <1>3, <1>4, <1>5, <1>6, <1>7, <1>8, <1>9, <1>10, <1>11, <1>12, <1>13,
     <1>14, <1>15, <1>16 DEF LoopNext, LoopStep

-----------------------------------------------------------------------------
\* The event loop keeps its types and its inductive invariant.
THEOREM EventLoopInvariant == LoopSpec => [](LoopTypeOK /\ LoopInv)
<1>1. LoopInit => LoopTypeOK /\ LoopInv
  <2> SUFFICES ASSUME LoopInit PROVE LoopInv
    BY TypeInit
  <2>1. QueuedAreActive /\ NoCallAfterRemoval /\ TriggerIsNotLate /\ NeverSleepsOnWork
    BY DEF LoopInit, QueuedAreActive, NoCallAfterRemoval, TriggerIsNotLate, NeverSleepsOnWork, Waiting
  <2>2. RemovedAreInactive
    BY ReceiverAssumption DEF LoopInit, RemovedAreInactive
  <2>3. InOrderOnce
    BY DEF LoopInit, InOrderOnce
  <2> QED BY <2>1, <2>2, <2>3 DEF LoopInv
<1>2. LoopTypeOK /\ LoopInv /\ [LoopNext]_loopVars => (LoopTypeOK /\ LoopInv)'
  BY TypeStep, InvStep
<1> QED BY <1>1, <1>2, PTL DEF LoopSpec

\* basic_event_loop::emit and remove_receiver: a receiver's events are delivered in order, once,
\* and not lost, and when its removal has returned it is not running and is never called again.
THEOREM ReceiversAreServed == LoopSpec => []ReceiversServed
<1>1. LoopInv => ReceiversServed
  BY DEF LoopInv, ReceiversServed
<1> QED BY EventLoopInvariant, <1>1, PTL

\* single_thread_event_loop::thread_entry: no wakeup is lost.
THEOREM NoLostWakeup == LoopSpec => []NeverSleepsOnWork
<1>1. LoopInv => NeverSleepsOnWork
  BY DEF LoopInv
<1> QED BY EventLoopInvariant, <1>1, PTL
=============================================================================
