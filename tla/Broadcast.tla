------------------------------ MODULE Broadcast ------------------------------
(***************************************************************************)
(* event_system: broadcast_event_handler and an asio_broadcast_observer.   *)
(* Threads emit events; the observer's owner connects, disconnects and     *)
(* destroys it; the io_context runs what was posted on the strand, one at  *)
(* a time.  The handler's mutex is held over a whole emit, the observer's  *)
(* for its handle_event within that.  An event is numbered when its emit   *)
(* has the mutex; each connect() adds one function.                        *)
(***************************************************************************)
EXTENDS Naturals, Sequences, SequencesExt

CONSTANTS
    Emitters,
    MaxEvents,      \* bound: events emitted
    MaxConnects     \* bound: calls of connect

ASSUME EmitterAssumption == "free" \notin Emitters /\ MaxEvents \in Nat /\ MaxConnects \in Nat

VARIABLES
    lock,           \* the emitter that has the handler's mutex, or "free"
    observers,      \* the observer is registered
    funcs,          \* the functions connected, in order
    emitting,       \* emitter -> 0, or the event it emits
    owner,          \* what the owner does next
    posted,         \* <<event, function>> posted on the strand
    called,         \* the calls made
    inCall,         \* the call that runs with the caller's mutex, or <<>>
    enabled,        \* enabled_
    events, connects,
    wanted          \* <<event, function>> whose function was connected all through the emit

bcVars == <<lock, observers, funcs, emitting, owner, posted, called, inCall, enabled, events,
            connects, wanted>>
callVars == <<posted, called, inCall>>

BroadcastInit ==
    /\ lock = "free" /\ observers = FALSE /\ funcs = <<>>
    /\ emitting = [e \in Emitters |-> 0] /\ owner = "idle"
    /\ posted = <<>> /\ called = <<>> /\ inCall = <<>> /\ enabled = TRUE
    /\ events = 0 /\ connects = 0 /\ wanted = {}

-----------------------------------------------------------------------------
emit_event(e) ==
    /\ emitting[e] = 0 /\ events < MaxEvents /\ lock = "free" /\ lock' = e
    /\ events' = events + 1 /\ emitting' = [emitting EXCEPT ![e] = events']
    /\ wanted' = wanted \cup {<<events', f>> : f \in IF owner = "idle" THEN Range(funcs) ELSE {}}
    /\ UNCHANGED <<observers, funcs, owner, callVars, enabled, connects>>

\* handle_event: every function posts its call.
handle_event(e) ==
    /\ lock = e /\ emitting[e] # 0
    /\ posted' = (IF observers THEN posted \o [i \in DOMAIN funcs |-> <<emitting[e], funcs[i]>>] ELSE posted)
    /\ lock' = "free" /\ emitting' = [emitting EXCEPT ![e] = 0]
    /\ UNCHANGED <<observers, funcs, owner, called, inCall, enabled, events, connects, wanted>>

\* connect: the function first, under the observer's mutex, then the registration.
connect ==
    /\ owner = "idle" /\ connects < MaxConnects
    /\ connects' = connects + 1 /\ funcs' = Append(funcs, connects') /\ owner' = "register"
    /\ UNCHANGED <<lock, observers, emitting, callVars, enabled, events, wanted>>

register_observer ==
    /\ owner = "register" /\ lock = "free" /\ observers' = TRUE /\ owner' = "idle"
    /\ UNCHANGED <<lock, funcs, emitting, callVars, enabled, events, connects, wanted>>

\* disconnect and disconnect_all: the functions go first.
disconnect ==
    /\ owner = "idle" /\ funcs # <<>>
    /\ funcs' = <<>> /\ owner' = "deregister"
    /\ wanted' = {p \in wanted : \A e \in Emitters : emitting[e] # p[1]}
    /\ UNCHANGED <<lock, observers, emitting, callVars, enabled, events, connects>>

deregister_observer ==
    /\ owner = "deregister" /\ lock = "free" /\ observers' = FALSE /\ owner' = "idle"
    /\ UNCHANGED <<lock, funcs, emitting, callVars, enabled, events, connects, wanted>>

\* ~asio_broadcast_observer: no emit is in it after the first step and no call after the last.
destroy ==
    /\ owner = "idle" /\ lock = "free" /\ observers' = FALSE /\ owner' = "disable"
    /\ UNCHANGED <<lock, funcs, emitting, callVars, enabled, events, connects, wanted>>

disable ==
    /\ owner = "disable" /\ enabled' = FALSE /\ owner' = "wait"
    /\ UNCHANGED <<lock, observers, funcs, emitting, callVars, events, connects, wanted>>

disable_waits_Not ==
    /\ owner = "wait" /\ owner' = "gone" /\ funcs' = <<>>
    /\ UNCHANGED <<lock, observers, emitting, callVars, enabled, events, connects, wanted>>

disable_waits ==
    /\ owner = "wait" /\ inCall = <<>> /\ owner' = "gone" /\ funcs' = <<>>
    /\ UNCHANGED <<lock, observers, emitting, callVars, enabled, events, connects, wanted>>

\* asio_bc_observer_caller: enabled_ is read before and after the mutex is taken.
run_posted ==
    /\ posted # <<>> /\ inCall = <<>>
    /\ \/ enabled /\ inCall' = Head(posted)
       \/ ~enabled /\ UNCHANGED inCall
    /\ posted' = Tail(posted)
    /\ UNCHANGED <<lock, observers, funcs, emitting, owner, called, enabled, events, connects, wanted>>

call_ends ==
    /\ inCall # <<>> /\ called' = Append(called, inCall) /\ inCall' = <<>>
    /\ UNCHANGED <<lock, observers, funcs, emitting, owner, posted, enabled, events, connects, wanted>>

BroadcastNext ==
    \/ \E e \in Emitters : emit_event(e) \/ handle_event(e)
    \/ connect \/ register_observer \/ disconnect \/ deregister_observer
    \/ destroy \/ disable \/ disable_waits \/ run_posted \/ call_ends

-----------------------------------------------------------------------------
\* Whoever emits while the owner connects and disconnects, a function that was connected when an
\* event was emitted, and stayed so, is called with it once, in the order of the events; and once
\* the observer is destroyed no call runs in what it referred to, though events were posted.
BroadcastsHeard ==
    LET calls_made == called \o (IF inCall = <<>> THEN <<>> ELSE <<inCall>>) \o posted
    IN  /\ \A i, j \in DOMAIN called :
              i < j => \/ called[i][1] < called[j][1]
                       \/ called[i][1] = called[j][1] /\ called[i][2] < called[j][2]
        /\ enabled /\ owner # "disable" =>
              \A p \in wanted : p \in Range(calls_made) \/ \E e \in Emitters : emitting[e] = p[1]
        /\ owner = "gone" => inCall = <<>>
=============================================================================
