------------------------------- MODULE Console -------------------------------
(***************************************************************************)
(* console/context: the thread that reads keys and draws the widgets, and  *)
(* other threads that add and remove widgets, move the focus, ask for a    *)
(* redraw and end it.  The thread holds the mutex but where it reads a     *)
(* key, draws, hands a key to a widget or sleeps; processing_ keeps the    *)
(* widgets still meanwhile.  widgets_, the application and the thread own  *)
(* the widgets together; the focus is a weak_ptr to any of them, listed in *)
(* widgets_ or not.  Keys are read without blocking (nodelay); the events  *)
(* that the context also runs are EventLoop's.                             *)
(***************************************************************************)
EXTENDS Naturals, FiniteSets

CONSTANTS
    Widgets, Callers,
    NoWidget,
    MaxInputs,      \* bound: keys that are valid
    MaxCalls        \* bound: calls of the other threads

VARIABLES
    ui,             \* "start", "draw", "getch", "key", "sleep", "ended"
    first, valid,   \* the draw is the one before the loop; the input was valid
    processing, redraw, quitting, \* processing_, redraw_, quit_
    widgets, focus, \* widgets_; focus_widget_, which does not keep its widget alive
    owned,          \* the widgets that the application has a shared_ptr to
    walked,         \* what the thread that draws walks over: widgets_ as it was at the start
    locked,         \* its shared_ptr to the focus that it draws last, or that gets the key
    call,           \* caller -> [pc, op, w]
    inputs, calls

consoleVars == <<ui, first, valid, processing, redraw, quitting, widgets, focus, owned,
                walked, locked, call, inputs, calls>>

ConsoleInit ==
    /\ ui = "start" /\ first = TRUE /\ valid = FALSE
    /\ processing = FALSE /\ redraw = FALSE /\ quitting = FALSE
    /\ widgets = {} /\ focus = NoWidget /\ owned = Widgets /\ walked = {} /\ locked = {}
    /\ call = [c \in Callers |-> [pc |-> "idle", op |-> "add", w |-> NoWidget]]
    /\ inputs = 0 /\ calls = 0

\* notify_one on process_cond_
notify_one ==
    LET waiting == {c \in Callers : call[c].pc = "waiting"}
    IN  IF waiting = {} THEN UNCHANGED call
        ELSE \E c \in waiting : call' = [call EXCEPT ![c].pc = "woken"]

LoopTop == ui' = (IF quitting THEN "ended" ELSE "getch")

\* What some shared_ptr keeps: widgets_, the application, the argument of a waiting add_widget;
\* and the thread that draws.
Kept ==
    widgets \cup owned
    \cup {call[c].w : c \in {d \in Callers : call[d].pc # "idle" /\ call[d].op = "add"}}
Alive == Kept \cup locked

\* focus_widget_.lock(): the focus, if there is one and it has not been destroyed.  The thread
\* has let go of what it locked before.
lock_focus == {focus} \cap Kept

\* draw_widgets: from here to draw_done without the mutex.
draw_widgets == ui' = "draw" /\ processing' = TRUE /\ walked' = widgets /\ locked' = lock_focus

thread_entry ==
    /\ ui = "start" /\ draw_widgets
    /\ UNCHANGED <<first, valid, redraw, quitting, widgets, focus, owned, call, inputs, calls>>

draw_done_Silent ==
    /\ ui = "draw" /\ processing' = FALSE /\ walked' = {} /\ locked' = {}
    /\ redraw' = (redraw /\ first) /\ first' = FALSE
    /\ IF first \/ valid THEN LoopTop ELSE ui' = "sleep"
    /\ UNCHANGED <<valid, quitting, widgets, focus, owned, call, inputs, calls>>

draw_done ==
    /\ ui = "draw" /\ processing' = FALSE /\ walked' = {} /\ locked' = {} /\ notify_one
    /\ redraw' = (redraw /\ first) /\ first' = FALSE
    /\ IF first \/ valid THEN LoopTop ELSE ui' = "sleep"
    /\ UNCHANGED <<valid, quitting, widgets, focus, owned, inputs, calls>>

\* handle_input: the focus gets the key without the mutex.
handle_input ==
    /\ ui' = "key" /\ processing' = TRUE /\ locked' = lock_focus
    /\ UNCHANGED <<walked, redraw>>

\* get_input has returned: a key goes to the focus, if it is still there.
get_input(is_valid) ==
    /\ ui = "getch" /\ valid' = is_valid
    /\ is_valid => inputs < MaxInputs
    /\ inputs' = inputs + (IF is_valid THEN 1 ELSE 0)
    /\ \/ is_valid /\ lock_focus # {} /\ handle_input
       \/ is_valid /\ lock_focus = {} /\ redraw' = TRUE /\ draw_widgets
       \/ ~is_valid /\ redraw /\ draw_widgets /\ redraw' = redraw
       \/ ~is_valid /\ ~redraw /\ ui' = "sleep" /\ UNCHANGED <<processing, walked,
                                                               locked, redraw>>
    /\ UNCHANGED <<first, quitting, widgets, focus, owned, call, calls>>

\* key_event has returned; the mutex is not let go of before the draw.
key_done ==
    /\ ui = "key" /\ notify_one /\ redraw' = TRUE /\ draw_widgets
    /\ UNCHANGED <<first, valid, quitting, widgets, focus, owned, inputs, calls>>

\* wait_for returned.
sleep_done ==
    /\ ui = "sleep" /\ LoopTop
    /\ UNCHANGED <<first, valid, processing, redraw, quitting, widgets, focus, owned,
                   walked, locked, call, inputs, calls>>

-----------------------------------------------------------------------------
wait_for_processing_Skips(c, op, w) ==
    /\ call' = [call EXCEPT ![c].pc = "idle"]
    /\ widgets' = (IF op = "add" THEN widgets \cup {w} ELSE widgets \ {w})

\* add_widget and remove_widget, at the call and each time they are woken.  The caller of
\* add_widget has a shared_ptr to give.
wait_for_processing(c, op, w) ==
    IF processing
    THEN call' = [call EXCEPT ![c] = [pc |-> "waiting", op |-> op, w |-> w]] /\ UNCHANGED widgets
    ELSE /\ call' = [call EXCEPT ![c].pc = "idle"]
         /\ widgets' = (IF op = "add" THEN widgets \cup {w} ELSE widgets \ {w})

change_widgets(c, op, w) ==
    /\ call[c].pc = "idle" /\ calls < MaxCalls /\ calls' = calls + 1
    /\ op = "add" => w \in owned
    /\ wait_for_processing(c, op, w)
    /\ UNCHANGED <<ui, first, valid, processing, redraw, quitting, focus, owned, walked,
                   locked, inputs>>

change_again(c) ==
    /\ call[c].pc = "woken" /\ wait_for_processing(c, call[c].op, call[c].w)
    /\ UNCHANGED <<ui, first, valid, processing, redraw, quitting, focus, owned, walked,
                   locked, inputs, calls>>

set_focus(w) ==
    /\ calls < MaxCalls /\ calls' = calls + 1 /\ focus' = w
    /\ UNCHANGED <<ui, first, valid, processing, redraw, quitting, widgets, owned,
                   walked, locked, call, inputs>>

\* The application lets go of its shared_ptr to a widget.
LetGo(w) ==
    /\ w \in owned /\ owned' = owned \ {w}
    /\ UNCHANGED <<ui, first, valid, processing, redraw, quitting, widgets, focus,
                   walked, locked, call,
                   inputs, calls>>

redraw_wanted ==
    /\ calls < MaxCalls /\ calls' = calls + 1 /\ redraw' = TRUE
    /\ UNCHANGED <<ui, first, valid, processing, quitting, widgets, focus, owned, walked,
                   locked, call, inputs>>

quit ==
    /\ ~quitting /\ quitting' = TRUE
    /\ UNCHANGED <<ui, first, valid, processing, redraw, widgets, focus, owned, walked,
                   locked, call, inputs, calls>>

UiStep == thread_entry \/ draw_done \/ key_done \/ sleep_done \/ \E v \in BOOLEAN : get_input(v)

ConsoleNext ==
    \/ thread_entry \/ draw_done \/ key_done \/ sleep_done
    \/ \E v \in BOOLEAN : get_input(v)
    \/ \E c \in Callers : change_again(c)
    \/ \E c \in Callers, op \in {"add", "remove"}, w \in Widgets : change_widgets(c, op, w)
    \/ \E w \in Widgets : set_focus(w) \/ LetGo(w)
    \/ redraw_wanted \/ quit

-----------------------------------------------------------------------------
\* No widget goes away or joins while the thread walks over widgets_ without the mutex, whatever
\* the other threads do meanwhile: none that it draws or that has the key, the focus outside
\* widgets_ included, is destroyed; and nobody waits for a processing_ that nobody is in.
WidgetsStill ==
    /\ ui = "draw" => widgets = walked
    /\ walked \cup locked \subseteq Alive
    /\ processing <=> ui \in {"draw", "key"}

\* quit() ends the thread; and an add_widget or remove_widget that waits for the end of a draw
\* returns when keys and redraws pause, also when the draw is the thread's last.  (With two
\* callers it need not: notify_one wakes one of them, and the other waits for the next draw.)
ConsoleAnswers ==
    /\ quitting ~> ui = "ended"
    /\ \A c \in Callers : (call[c].pc = "waiting") ~> (call[c].pc = "idle")
=============================================================================
