------------------------------ MODULE EventLoop ------------------------------
(***************************************************************************)
(* event_system: single_thread_event_loop and the event handlers that use  *)
(* it.  One thread takes events and timers and calls handle_event without  *)
(* the mutex; other threads, and handlers on the loop's own thread, emit,  *)
(* start and stop timers and remove receivers.  Each action is a critical  *)
(* section of mutex_.                                                      *)
(***************************************************************************)
EXTENDS Integers, FiniteSets

CONSTANTS
    Receivers,
    Others,         \* threads other than the loop's
    NoReceiver,     \* a null receiver
    Delays,         \* durations given to start_timer
    Repeating,      \* values of !single_shot given to start_timer
    MaxEvents,      \* bound: events emitted
    MaxTimers,      \* bound: timers started
    MaxTime         \* bound: the clock

Loop == "loop"      \* the loop's thread
Threads == Others \cup {Loop}

ASSUME ReceiverAssumption == NoReceiver \notin Receivers
ASSUME CallerAssumption == Loop \notin Others
ASSUME LoopBoundAssumption ==
    /\ MaxEvents \in Nat /\ MaxTimers \in Nat /\ MaxTime \in Nat
    /\ Delays \subseteq Nat \ {0} /\ Repeating \subseteq BOOLEAN

VARIABLES
    \* Deques that grow at the back only are sets of numbers: an event's is
    \* its place in the order of emission, a timer's is its handle.
    events,         \* events_: the numbers of the queued events
    lastEvent, to,  \* events emitted so far; the receiver of each
    timers,         \* timers_: the handles in it
    lastTimer,      \* last_timer_handle_
    handler,        \* timer_holder::handler
    trigger,        \* timer_holder::next_trigger
    interval,       \* timer_holder::interval, 0 for a single shot
    nextTrigger,    \* next_trigger_, 0 for time_point{}
    activeHandler,  \* active_handler_
    active,         \* receivers whose active_ is true
    quit,           \* quit_
    \* the threads
    loop,           \* where thread_entry is
    fromTimer,      \* ret of process_timers in the call that runs a handler
    removing,       \* per caller: the receiver remove_receiver waits for, or NoReceiver
    stopping,       \* where stop() is
    clock,
    \* history
    delivered,      \* events handed to handle_event
    fired,          \* handles of the timer events handed to handle_event
    stoppedTimers,  \* handles stop_timer removed
    own,            \* the running handler removed its own receiver
    removed         \* receivers that may be destroyed: remove_receiver returned
                    \* and, when they removed themselves, their handler too

queues == <<events, lastEvent, to>>
timerVars == <<timers, lastTimer, handler, trigger, interval, nextTrigger>>
handlerVars == <<activeHandler, loop, fromTimer>>
hist == <<delivered, fired, stoppedTimers, own, removed>>
loopVars == <<queues, timerVars, handlerVars, active, quit, removing, stopping, clock, hist>>

EventIds == 1..MaxEvents
TimerIds == 1..MaxTimers

LoopInit ==
    /\ events = {} /\ lastEvent = 0 /\ to = [n \in EventIds |-> NoReceiver]
    /\ timers = {} /\ lastTimer = 0 /\ handler = [h \in TimerIds |-> NoReceiver]
    /\ trigger = [h \in TimerIds |-> 0] /\ interval = [h \in TimerIds |-> 0]
    /\ nextTrigger = 0
    /\ activeHandler = NoReceiver /\ active = Receivers /\ quit = FALSE
    /\ loop = "top" /\ fromTimer = FALSE
    /\ removing = [t \in Others |-> NoReceiver]
    /\ stopping = "no" /\ clock = 1
    /\ delivered = {} /\ fired = {} /\ stoppedTimers = {} /\ own = FALSE /\ removed = {}

Waiting == loop \in {"wait", "wait_until"}

\* Mutation: nobody is notified.
NotifyLoop_Never(when) == loop

\* cond_.notify_one() under a condition: the loop is the only waiter.
NotifyLoop(when) == IF when /\ Waiting THEN "top" ELSE loop

-----------------------------------------------------------------------------
(* Calls.  A handler makes them on the loop's thread, the owners of         *)
(* receivers on other threads; nobody uses a receiver he removed.          *)

CanCall(t) == IF t = Loop THEN loop = "handler" ELSE removing[t] = NoReceiver

Accepting(r) == ~quit /\ r \in active

emit(t, r) ==
    /\ CanCall(t) /\ r \notin removed
    /\ lastEvent < MaxEvents
    /\ Accepting(r)
    /\ loop' = NotifyLoop(events = {})
    /\ lastEvent' = lastEvent + 1
    /\ events' = events \cup {lastEvent + 1}
    /\ to' = [to EXCEPT ![lastEvent + 1] = r]
    /\ UNCHANGED <<timerVars, activeHandler, fromTimer, active, quit, removing, stopping,
                   clock, hist>>

EventsWithout(r) == {n \in events : to[n] # r}
TimersWithout(r) == {h \in timers : handler[h] # r}

\* Mutation: the caller does not wait.
MustWait_Never(t, r) == FALSE

\* if(active_handler_ == r && my_thread_id_ != std::this_thread::get_id())
MustWait(t, r) == activeHandler = r /\ t # Loop

remove_receiver(t, r) ==
    /\ CanCall(t) /\ r \notin removed
    /\ active' = active \ {r}
    /\ events' = EventsWithout(r)
    /\ timers' = TimersWithout(r)
    /\ removing' = IF MustWait(t, r) THEN [removing EXCEPT ![t] = r] ELSE removing
    /\ own' = (own \/ (t = Loop /\ activeHandler = r))
    /\ removed' = IF MustWait(t, r) \/ (t = Loop /\ activeHandler = r) THEN removed ELSE removed \cup {r}
    /\ UNCHANGED <<lastEvent, to, lastTimer, handler, trigger, interval, nextTrigger,
                   handlerVars, quit, stopping, clock, delivered, fired, stoppedTimers>>

\* The loop around yield() ends.
RemoveReturns(t) ==
    /\ removing[t] # NoReceiver
    /\ activeHandler # removing[t]
    /\ removed' = removed \cup {removing[t]}
    /\ removing' = [removing EXCEPT ![t] = NoReceiver]
    /\ UNCHANGED <<queues, timerVars, handlerVars, active, quit, stopping, clock,
                   delivered, fired, stoppedTimers, own>>

\* Mutation: the comparison is the wrong way round.
UpdateNextTrigger_Later(next, at) == IF next = 0 \/ at > next THEN at ELSE next

\* update_next_trigger.
UpdateNextTrigger(next, at) == IF next = 0 \/ at < next THEN at ELSE next

NewHandle == lastTimer + 1

start_timer(t, r, d, repeat) ==
    LET h == NewHandle
        at == clock + d
    IN  /\ CanCall(t) /\ r \notin removed
        /\ lastTimer < MaxTimers /\ at <= MaxTime
        /\ Accepting(r)
        /\ lastTimer' = lastTimer + 1
        /\ timers' = timers \cup {h}
        /\ handler' = [handler EXCEPT ![h] = r]
        /\ trigger' = [trigger EXCEPT ![h] = at]
        /\ interval' = [interval EXCEPT ![h] = IF repeat THEN d ELSE 0]
        /\ loop' = NotifyLoop(events = {} /\ (nextTrigger = 0 \/ at < nextTrigger))
        /\ nextTrigger' = UpdateNextTrigger(nextTrigger, at)
        /\ UNCHANGED <<queues, activeHandler, fromTimer, active, quit, removing, stopping,
                       clock, hist>>

stop_timer(t, h) ==
    /\ CanCall(t)
    /\ h \in timers
    /\ timers' = timers \ {h}
    /\ stoppedTimers' = stoppedTimers \cup {h}
    /\ nextTrigger' = IF timers = {h} THEN 0 ELSE nextTrigger
    /\ UNCHANGED <<queues, lastTimer, handler, trigger, interval, handlerVars, active, quit,
                   removing, stopping, clock, delivered, fired, own, removed>>

-----------------------------------------------------------------------------
(* thread_entry, process_single_event, process_timers, handle_event.       *)

FirstOf(S) == CHOOSE n \in S : \A m \in S : n <= m

Due == {h \in timers : trigger[h] <= clock}

TimersLookedAt == nextTrigger # 0 /\ nextTrigger <= clock

\* The smallest of the triggers, folded with update_next_trigger from
\* time_point{}.
Smallest(S) == IF S = {} THEN 0 ELSE CHOOSE a \in S : \A b \in S : a <= b

LoopFree == loop = "top" /\ ~quit

\* process_timers finds the first timer of the deque that is due.
FireTimer ==
    LET h == FirstOf(Due)
        repeat == interval[h] # 0
        at == [trigger EXCEPT ![h] = IF repeat THEN clock + interval[h] ELSE @]
    IN  /\ LoopFree /\ TimersLookedAt /\ Due # {}
        /\ timers' = IF repeat THEN timers ELSE timers \ {h}
        /\ trigger' = at
        /\ nextTrigger' = Smallest({at[i] : i \in timers'})
        /\ activeHandler' = handler[h]
        /\ fired' = fired \cup {h}
        /\ fromTimer' = TRUE
        /\ loop' = "handler"
        /\ UNCHANGED <<queues, lastTimer, handler, interval, active, quit, removing, stopping,
                       clock, delivered, stoppedTimers, own, removed>>

\* No timer is due: next_trigger_ is computed again when it was reached.
NextTriggerNow ==
    IF TimersLookedAt THEN Smallest({trigger[i] : i \in timers}) ELSE nextTrigger

TakeEvent ==
    LET n == FirstOf(events)
    IN  /\ LoopFree /\ ~(TimersLookedAt /\ Due # {}) /\ events # {}
        /\ nextTrigger' = NextTriggerNow
        /\ events' = events \ {n}
        /\ activeHandler' = to[n]
        /\ delivered' = delivered \cup {n}
        /\ fromTimer' = FALSE
        /\ loop' = "handler"
        /\ UNCHANGED <<lastEvent, to, timers, lastTimer, handler, trigger, interval, active,
                       quit, removing, stopping, clock, fired, stoppedTimers, own, removed>>

\* wait_until(l, next_trigger_) or wait(l).
WaitFor(next) == IF next # 0 THEN "wait_until" ELSE "wait"

NothingToDo ==
    /\ LoopFree /\ ~(TimersLookedAt /\ Due # {}) /\ events = {}
    /\ nextTrigger' = NextTriggerNow
    /\ loop' = WaitFor(NextTriggerNow)
    /\ UNCHANGED <<queues, timers, lastTimer, handler, trigger, interval, activeHandler,
                   fromTimer, active, quit, removing, stopping, clock, hist>>

HandlerAfter == NoReceiver

\* The handler returns or throws; the mutex is taken again.
HandlerReturns ==
    /\ loop = "handler"
    /\ activeHandler' = HandlerAfter
    /\ loop' = IF ~quit /\ ~fromTimer /\ events = {} THEN WaitFor(nextTrigger) ELSE "top"
    /\ removed' = IF own THEN removed \cup {activeHandler} ELSE removed
    /\ own' = FALSE
    /\ UNCHANGED <<queues, timerVars, fromTimer, active, quit, removing, stopping, clock,
                   delivered, fired, stoppedTimers>>

LoopExits ==
    /\ loop = "top" /\ quit
    /\ loop' = "exited"
    /\ UNCHANGED <<queues, timerVars, activeHandler, fromTimer, active, quit, removing,
                   stopping, clock, hist>>

\* The condition variable wakes up at its time or for no reason.
Timeout ==
    /\ loop = "wait_until" /\ nextTrigger # 0 /\ nextTrigger <= clock
    /\ loop' = "top"
    /\ UNCHANGED <<queues, timerVars, activeHandler, fromTimer, active, quit, removing,
                   stopping, clock, hist>>

SpuriousWakeup ==
    /\ Waiting
    /\ loop' = "top"
    /\ UNCHANGED <<queues, timerVars, activeHandler, fromTimer, active, quit, removing,
                   stopping, clock, hist>>

Tick ==
    /\ clock < MaxTime
    /\ clock' = clock + 1
    /\ UNCHANGED <<queues, timerVars, handlerVars, active, quit, removing, stopping, hist>>

-----------------------------------------------------------------------------
(* stop(), from a thread that is not the loop's.                           *)

stop ==
    /\ stopping = "no"
    /\ quit' = TRUE
    /\ loop' = NotifyLoop(TRUE)
    /\ stopping' = "join"
    /\ UNCHANGED <<queues, timerVars, activeHandler, fromTimer, active, removing, clock, hist>>

StopJoins ==
    /\ stopping = "join" /\ loop = "exited"
    /\ stopping' = "done"
    /\ events' = {} /\ timers' = {}
    /\ UNCHANGED <<lastEvent, to, lastTimer, handler, trigger, interval, nextTrigger,
                   handlerVars, active, quit, removing, clock, hist>>

-----------------------------------------------------------------------------
LoopStep == FireTimer \/ TakeEvent \/ NothingToDo \/ HandlerReturns \/ LoopExits \/ Timeout

LoopNext ==
    \/ \E t \in Threads, r \in Receivers :
          emit(t, r) \/ remove_receiver(t, r)
          \/ \E d \in Delays, repeat \in Repeating : start_timer(t, r, d, repeat)
    \/ \E t \in Threads, h \in TimerIds : stop_timer(t, h)
    \/ \E t \in Others : RemoveReturns(t)
    \/ LoopStep \/ SpuriousWakeup \/ Tick
    \/ stop \/ StopJoins

LoopSpec == LoopInit /\ [][LoopNext]_loopVars

-----------------------------------------------------------------------------
(* Properties.                                                             *)

LoopTypeOK ==
    /\ events \subseteq EventIds /\ lastEvent \in 0..MaxEvents
    /\ to \in [EventIds -> Receivers \cup {NoReceiver}]
    /\ timers \subseteq TimerIds /\ lastTimer \in 0..MaxTimers
    /\ handler \in [TimerIds -> Receivers \cup {NoReceiver}]
    /\ trigger \in [TimerIds -> Nat] /\ interval \in [TimerIds -> Nat]
    /\ nextTrigger \in Nat
    /\ activeHandler \in Receivers \cup {NoReceiver}
    /\ active \subseteq Receivers /\ quit \in BOOLEAN
    /\ loop \in {"top", "handler", "wait", "wait_until", "exited"}
    /\ fromTimer \in BOOLEAN
    /\ removing \in [Others -> Receivers \cup {NoReceiver}]
    /\ stopping \in {"no", "join", "done"}
    /\ clock \in Nat \ {0}
    /\ delivered \subseteq EventIds /\ fired \subseteq TimerIds /\ stoppedTimers \subseteq TimerIds
    /\ own \in BOOLEAN
    /\ removed \subseteq Receivers

\* remove_receiver makes destruction safe: when it has returned, the handler
\* is not running, and nothing in the loop points to it any more.
NoCallAfterRemoval ==
    /\ activeHandler \notin removed
    /\ \A n \in events : to[n] \notin removed
    /\ \A h \in timers : handler[h] \notin removed

\* Events are delivered in the order of emission, each at most once, and
\* none is lost while its receiver is there.
InOrderOnce ==
    /\ \A m \in delivered, n \in events : m < n
    /\ \A n \in 1..lastEvent :
          to[n] \in active /\ stopping # "done" => n \in delivered \cup events

\* A receiver gets what was emitted to it, in order and once, until remove_receiver returns.
ReceiversServed == NoCallAfterRemoval /\ InOrderOnce

\* The loop never sleeps on work: when it waits, no event is queued, nobody
\* asked it to quit, and it wakes up before any timer is due.
NeverSleepsOnWork ==
    Waiting =>
        /\ events = {} /\ ~quit
        /\ timers # {} => /\ loop = "wait_until" /\ nextTrigger # 0
                          /\ \A h \in timers : nextTrigger <= trigger[h]

\* Why they hold: what is queued belongs to an active receiver, a receiver
\* under removal is not active, next_trigger_ is never late.
QueuedAreActive ==
    /\ \A n \in events : n <= lastEvent /\ to[n] \in active
    /\ \A h \in timers : h <= lastTimer /\ handler[h] \in active
    /\ \A n \in delivered : n <= lastEvent
RemovedAreInactive ==
    /\ removed \cap active = {}
    /\ \A t \in Others : removing[t] \notin active
    /\ own => loop = "handler" /\ activeHandler \in Receivers \ active
    /\ loop = "handler" => activeHandler # NoReceiver
    /\ loop # "handler" => activeHandler = NoReceiver
    /\ stopping # "no" => quit
TriggerIsNotLate ==
    /\ timers # {} => nextTrigger # 0 /\ \A h \in timers : nextTrigger <= trigger[h]
    /\ loop = "wait" => nextTrigger = 0
LoopInv ==
    /\ QueuedAreActive /\ RemovedAreInactive /\ TriggerIsNotLate
    /\ NoCallAfterRemoval /\ InOrderOnce /\ NeverSleepsOnWork

\* Another timer that repeats can keep the loop busy for ever: process_timers
\* comes first, and a handler may take longer than the interval.
MayStarve(h) == \E i \in timers \ {h} : interval[i] # 0

\* Every emitted event is delivered, unless its receiver is removed, the loop
\* stopped or starved by a repeating timer.
EmittedIsDelivered ==
    \A n \in EventIds :
        n <= lastEvent ~> (n \in delivered \/ to[n] \notin active \/ quit \/ MayStarve(0))

\* Every started timer fires, unless it is stopped, its receiver removed, the
\* loop stopped or starved.
StartedTimerFires ==
    \A h \in TimerIds :
        h <= lastTimer ~> (h \in fired \cup stoppedTimers \/ handler[h] \notin active \/ quit
                           \/ MayStarve(h))

\* remove_receiver returns: the receiver it waits for gets no further event.
RemoveReceiverReturns ==
    \A t \in Others : removing[t] # NoReceiver ~> removing[t] = NoReceiver

\* Nobody waits for the loop for ever: events are delivered, timers fire and remove_receiver
\* returns, whichever of them came between the loop's look at its queues and its wait.
LoopAnswers == EmittedIsDelivered /\ StartedTimerFires /\ RemoveReceiverReturns
=============================================================================
