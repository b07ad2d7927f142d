---------------------------- MODULE LibraryProofs ----------------------------
(***************************************************************************)
(* What the library's parts keep, for any number of threads, widgets,      *)
(* events, calls, frames, keys, messages and files: the console its        *)
(* widgets and its line, broadcast events their observers, tasks their     *)
(* results, streams and envelopes what was sealed in them, devices the     *)
(* frames of the sound they play, and files and buffers their samples.     *)
(***************************************************************************)
EXTENDS Console, Broadcast, Tasks, InputLine, Sealing, AudioDevices, AudioFiles, SequenceTheorems, WellFoundedInduction, TLAPS

-----------------------------------------------------------------------------
(* Console.                                                                *)

ConsoleSpec == ConsoleInit /\ [][ConsoleNext]_consoleVars

\* The thread walks over widgets_ as it is, while it draws.
ConsoleInv ==
    /\ ui = "draw" => widgets = walked
    /\ ui # "draw" => walked = {}
    /\ processing <=> ui \in {"draw", "key"}

LEMMA ConsoleStep == ConsoleInv /\ [ConsoleNext]_consoleVars => ConsoleInv'
<1> SUFFICES ASSUME ConsoleInv, [ConsoleNext]_consoleVars PROVE ConsoleInv'
  OBVIOUS
<1>1. CASE thread_entry
  BY <1>1 DEF ConsoleInv, thread_entry, draw_widgets
<1>2. CASE draw_done
  BY <1>2 DEF ConsoleInv, draw_done, LoopTop
<1>3. CASE key_done
  BY <1>3 DEF ConsoleInv, key_done, draw_widgets
<1>4. CASE sleep_done
  BY <1>4 DEF ConsoleInv, sleep_done, LoopTop
<1>5. ASSUME NEW v \in BOOLEAN, get_input(v) PROVE ConsoleInv'
  BY <1>5 DEF ConsoleInv, get_input, handle_input, draw_widgets
\* A caller that finds processing_ set waits and leaves the widgets alone.
<1>6. ASSUME NEW c, NEW op, NEW w, wait_for_processing(c, op, w), UNCHANGED <<ui, processing, walked>>
      PROVE  ConsoleInv'
  BY <1>6 DEF ConsoleInv, wait_for_processing
<1>7. ASSUME NEW c \in Callers, change_again(c) PROVE ConsoleInv'
  BY <1>6, <1>7 DEF change_again
<1>8. ASSUME NEW c \in Callers, NEW op \in {"add", "remove"}, NEW w \in Widgets, change_widgets(c, op, w)
      PROVE  ConsoleInv'
  BY <1>6, <1>8 DEF change_widgets
<1>9. ASSUME NEW w \in Widgets, set_focus(w) \/ LetGo(w) PROVE ConsoleInv'
  BY <1>9 DEF ConsoleInv, set_focus, LetGo
<1>10. CASE redraw_wanted \/ quit \/ UNCHANGED consoleVars
  BY <1>10 DEF ConsoleInv, redraw_wanted, quit, consoleVars
<1> QED BY <1>1, <1>2, <1>3, <1>4, <1>5, <1>7, <1>8, <1>9, <1>10 DEF ConsoleNext

\* The console's thread draws and hands keys to widgets without the mutex, and no add_widget or
\* remove_widget of another thread changes widgets_ meanwhile, so that none is destroyed under it,
\* whatever the focus is and whoever lets go of a widget: processing_ is set exactly then.
THEOREM WidgetsAreStill == ConsoleSpec => []WidgetsStill
<1>1. ConsoleInit => ConsoleInv
  BY DEF ConsoleInit, ConsoleInv
<1>2. ConsoleInv => WidgetsStill
  <2>1. ConsoleInv => walked \subseteq widgets
    BY DEF ConsoleInv
  <2> QED BY <2>1 DEF ConsoleInv, WidgetsStill, Alive, Kept
<1> QED BY <1>1, <1>2, ConsoleStep, PTL DEF ConsoleSpec

-----------------------------------------------------------------------------
(* Broadcast.                                                              *)

BroadcastSpec == BroadcastInit /\ [][BroadcastNext]_bcVars

Pairs == Nat \X Nat
BroadcastTypes ==
    /\ lock \in Emitters \cup {"free"} /\ observers \in BOOLEAN /\ enabled \in BOOLEAN
    /\ owner \in {"idle", "register", "deregister", "disable", "wait", "gone"}
    /\ emitting \in [Emitters -> Nat] /\ funcs \in Seq(Nat)
    /\ posted \in Seq(Pairs) /\ called \in Seq(Pairs) /\ inCall \in Pairs \cup {<<>>}
    /\ events \in Nat /\ connects \in Nat /\ wanted \subseteq Pairs

\* The order of calls: by event, then by function.
Before(a, b) == a[1] < b[1] \/ (a[1] = b[1] /\ a[2] < b[2])
Rising(q) == \A i, j \in DOMAIN q : i < j => Before(q[i], q[j])
Items(q) == {q[i] : i \in DOMAIN q}
AllBefore(A, B) == \A a \in A, b \in B : Before(a, b)
Running == IF inCall = <<>> THEN {} ELSE {inCall}
CallsMade == Items(called) \cup Running \cup Items(posted)

\* Only the emitter that has the mutex emits, and it emits the latest event.
OneEmits ==
    /\ \A e \in Emitters : emitting[e] # 0 => lock = e /\ emitting[e] = events
    /\ lock # "free" => emitting[lock] # 0

\* The functions are connected in order, and the observer is registered while there are any, but for the
\* owner's connect and destructor.
Connected ==
    /\ \A i \in DOMAIN funcs : funcs[i] <= connects
    /\ \A i, j \in DOMAIN funcs : i < j => funcs[i] < funcs[j]
    /\ owner = "idle" /\ funcs # <<>> => observers
    /\ owner = "deregister" => funcs = <<>>

\* The calls that were made, run and posted are in order, and none of them is of the event being emitted.
CallsInOrder ==
    /\ Rising(called) /\ Rising(posted)
    /\ AllBefore(Items(called), Running \cup Items(posted)) /\ AllBefore(Running, Items(posted))
    /\ \A p \in CallsMade : p[1] \in 1..events /\ \A e \in Emitters : emitting[e] # p[1]

\* What is wanted of an event that is being emitted will be posted; of others it was.
WantedHeard ==
    /\ \A p \in wanted : p[1] \in 1..events
    /\ \A p \in wanted, e \in Emitters : emitting[e] = p[1] => observers /\ p[2] \in {funcs[i] : i \in DOMAIN funcs}
    /\ owner \in {"disable", "wait", "gone"} => \A p \in wanted, e \in Emitters : emitting[e] # p[1]
    /\ enabled /\ owner # "disable" =>
          \A p \in wanted : p \in CallsMade \/ \E e \in Emitters : emitting[e] = p[1]

Disabled == (owner \in {"wait", "gone"} => ~enabled) /\ (owner = "gone" => inCall = <<>>)

BroadcastInv == BroadcastTypes /\ OneEmits /\ Connected /\ CallsInOrder /\ WantedHeard /\ Disabled

\* What is in a sequence that got another one behind it, and how it is ordered.
LEMMA Joined ==
    ASSUME NEW a \in Seq(Pairs), NEW b \in Seq(Pairs)
    PROVE  /\ a \o b \in Seq(Pairs) /\ Items(a \o b) = Items(a) \cup Items(b)
           /\ Rising(a) /\ Rising(b) /\ AllBefore(Items(a), Items(b)) => Rising(a \o b)
<1>1. PICK r : r = a \o b
  OBVIOUS
<1>2. /\ r \in Seq(Pairs) /\ Len(a) \in Nat /\ Len(b) \in Nat
      /\ DOMAIN a = 1..Len(a) /\ DOMAIN b = 1..Len(b) /\ DOMAIN r = 1..(Len(a) + Len(b))
      /\ \A i \in DOMAIN r : IF i <= Len(a) THEN r[i] = a[i] ELSE r[i] = b[i - Len(a)]
  BY <1>1
<1>3. \A i \in DOMAIN r : \/ i \in DOMAIN a /\ r[i] = a[i]
                          \/ i > Len(a) /\ i - Len(a) \in DOMAIN b /\ r[i] = b[i - Len(a)]
  BY <1>2
<1>4. (\A i \in DOMAIN a : i \in DOMAIN r /\ r[i] = a[i]) /\ \A i \in DOMAIN b : Len(a) + i \in DOMAIN r /\ r[Len(a) + i] = b[i]
  <2>1. \A i \in DOMAIN a : i \in DOMAIN r /\ r[i] = a[i]
    BY <1>2
  <2>2. ASSUME NEW i \in DOMAIN b PROVE Len(a) + i \in DOMAIN r /\ r[Len(a) + i] = b[i]
    <3>1. Len(a) + i \in 1..(Len(a) + Len(b)) /\ ~(Len(a) + i <= Len(a)) /\ (Len(a) + i) - Len(a) = i
      BY <1>2
    <3> QED BY <1>2, <3>1
  <2> QED BY <2>1, <2>2
<1>5. Items(r) = Items(a) \cup Items(b)
  <2>1. Items(r) \subseteq Items(a) \cup Items(b)
    BY <1>3 DEF Items
  <2>2. Items(a) \subseteq Items(r)
    BY <1>4 DEF Items
  <2>3. Items(b) \subseteq Items(r)
    BY <1>4 DEF Items
  <2> QED BY <2>1, <2>2, <2>3
<1>6. ASSUME Rising(a), Rising(b), AllBefore(Items(a), Items(b)) PROVE Rising(r)
  <2> SUFFICES ASSUME NEW i \in DOMAIN r, NEW j \in DOMAIN r, i < j PROVE Before(r[i], r[j])
    BY DEF Rising
  <2>1. CASE i \in DOMAIN a /\ r[i] = a[i] /\ j \in DOMAIN a /\ r[j] = a[j]
    BY <1>6, <2>1 DEF Rising
  <2>2. CASE i \in DOMAIN a /\ r[i] = a[i] /\ j - Len(a) \in DOMAIN b /\ r[j] = b[j - Len(a)]
    BY <1>6, <2>2 DEF AllBefore, Items
  <2>3. CASE i > Len(a) /\ i - Len(a) \in DOMAIN b /\ r[i] = b[i - Len(a)]
    <3>1. j > Len(a) /\ i - Len(a) < j - Len(a) /\ ~(j \in DOMAIN a)
      BY <1>2, <2>3
    <3>2. j - Len(a) \in DOMAIN b /\ r[j] = b[j - Len(a)]
      BY <1>3, <3>1
    <3> QED BY <1>6, <2>3, <3>1, <3>2 DEF Rising
  <2> QED BY <1>3, <2>1, <2>2, <2>3
<1> QED BY <1>1, <1>2, <1>5, <1>6

LEMMA AppendedCall ==
    ASSUME NEW a \in Seq(Pairs), NEW p \in Pairs
    PROVE  /\ Append(a, p) \in Seq(Pairs) /\ Items(Append(a, p)) = Items(a) \cup {p}
           /\ Rising(a) /\ AllBefore(Items(a), {p}) => Rising(Append(a, p))
<1>1. PICK b : b = <<p>>
  OBVIOUS
<1>2. b \in Seq(Pairs) /\ Len(b) = 1 /\ b[1] = p /\ DOMAIN b = {1}
  BY <1>1
<1>3. Items(b) = {p} /\ Rising(b)
  BY <1>2 DEF Items, Rising
<1>4. Append(a, p) = a \o b
  BY <1>1
<1> QED BY <1>2, <1>3, <1>4, Joined

LEMMA FirstCall ==
    ASSUME NEW a \in Seq(Pairs), a # <<>>
    PROVE  /\ Head(a) \in Pairs /\ Tail(a) \in Seq(Pairs) /\ Items(a) = {Head(a)} \cup Items(Tail(a))
           /\ Rising(a) => Rising(Tail(a)) /\ AllBefore({Head(a)}, Items(Tail(a)))
<1>1. PICK t : t = Tail(a)
  OBVIOUS
<1>2. /\ t \in Seq(Pairs) /\ Len(a) \in Nat /\ Len(a) >= 1 /\ DOMAIN a = 1..Len(a) /\ DOMAIN t = 1..(Len(a) - 1)
      /\ Head(a) = a[1] /\ a[1] \in Pairs /\ \A i \in DOMAIN t : t[i] = a[i + 1]
  BY <1>1
<1>3. \A i \in DOMAIN t : i \in Nat /\ 1 < i + 1 /\ i + 1 \in DOMAIN a /\ t[i] = a[i + 1]
  BY <1>2
<1>4. \A i \in DOMAIN a : i = 1 \/ (i - 1 \in DOMAIN t /\ t[i - 1] = a[i])
  <2> SUFFICES ASSUME NEW i \in DOMAIN a, i # 1 PROVE i - 1 \in DOMAIN t /\ t[i - 1] = a[i]
    OBVIOUS
  <2>1. i - 1 \in 1..(Len(a) - 1) /\ (i - 1) + 1 = i
    BY <1>2
  <2> QED BY <1>2, <2>1
<1>5. 1 \in DOMAIN a
  BY <1>2
<1>6. Items(a) = {a[1]} \cup Items(t)
  BY <1>3, <1>4, <1>5 DEF Items
<1>7. ASSUME Rising(a) PROVE Rising(t) /\ AllBefore({a[1]}, Items(t))
  <2>1. Rising(t)
    <3> SUFFICES ASSUME NEW i \in DOMAIN t, NEW j \in DOMAIN t, i < j PROVE Before(t[i], t[j])
      BY DEF Rising
    <3>1. i + 1 < j + 1
      BY <1>3
    <3> QED BY <1>3, <1>7, <3>1 DEF Rising
  <2>2. AllBefore({a[1]}, Items(t))
    BY <1>3, <1>5, <1>7 DEF Rising, AllBefore, Items
  <2> QED BY <2>1, <2>2
<1> QED BY <1>1, <1>2, <1>6, <1>7

-----------------------------------------------------------------------------
\* The calls that an emit posts: one of each function, in order.
LEMMA PostedCalls ==
    ASSUME NEW f \in Seq(Nat), \A i, j \in DOMAIN f : i < j => f[i] < f[j], NEW n \in Nat,
           NEW b, b = [i \in DOMAIN f |-> <<n, f[i]>>]
    PROVE  /\ b \in Seq(Pairs) /\ Rising(b) /\ \A p \in Items(b) : p[1] = n
           /\ \A i \in DOMAIN f : <<n, f[i]>> \in Items(b)
<1>1. DOMAIN b = DOMAIN f /\ \A i \in DOMAIN f : b[i] = <<n, f[i]>> /\ f[i] \in Nat
  OBVIOUS
<1>2. b \in Seq(Pairs)
  <2>1. DOMAIN f = 1..Len(f) /\ Len(f) \in Nat
    OBVIOUS
  <2>2. \A i \in DOMAIN f : b[i] \in Pairs
    BY <1>1 DEF Pairs
  <2>3. b \in [1..Len(f) -> Pairs]
    BY <1>1, <2>1, <2>2
  <2> QED BY <2>1, <2>3
<1>3. Rising(b)
  BY <1>1 DEF Rising, Before
<1>4. \A p \in Items(b) : p[1] = n
  BY <1>1 DEF Items
<1>5. \A i \in DOMAIN f : <<n, f[i]>> \in Items(b)
  BY <1>1 DEF Items
<1> QED BY <1>2, <1>3, <1>4, <1>5

LEMMA NobodyEmits ==
    ASSUME BroadcastInv, lock = "free"
    PROVE  \A e \in Emitters : emitting[e] = 0
BY EmitterAssumption DEF BroadcastInv, OneEmits

\* Steps of the owner: they touch neither the calls nor what is emitted.
OwnerStep ==
    /\ lock' = lock /\ emitting' = emitting /\ events' = events
    /\ posted' = posted /\ called' = called /\ inCall' = inCall

LEMMA OwnerKeeps ==
    ASSUME BroadcastInv, OwnerStep
    PROVE  OneEmits' /\ CallsInOrder' /\ CallsMade' = CallsMade
<1>1. CallsMade' = CallsMade /\ Running' = Running
  BY DEF OwnerStep, CallsMade, Running, Items
<1>2. OneEmits'
  BY DEF BroadcastInv, OwnerStep, OneEmits
<1>3. CallsInOrder'
  <2>1. CallsInOrder
    BY DEF BroadcastInv
  <2> QED BY <1>1, <2>1 DEF OwnerStep, CallsInOrder
<1> QED BY <1>1, <1>2, <1>3

LEMMA EmitStep ==
    ASSUME BroadcastInv, NEW e \in Emitters, emit_event(e)
    PROVE  BroadcastInv'
<1>1. /\ lock = "free" /\ lock' = e /\ events' = events + 1 /\ emitting' = [emitting EXCEPT ![e] = events + 1]
      /\ observers' = observers /\ funcs' = funcs /\ owner' = owner /\ enabled' = enabled /\ connects' = connects
      /\ posted' = posted /\ called' = called /\ inCall' = inCall
      /\ wanted' = wanted \cup {<<events + 1, f>> : f \in IF owner = "idle" THEN Range(funcs) ELSE {}}
  BY DEF emit_event, callVars
<1>2. /\ BroadcastTypes /\ OneEmits /\ Connected /\ CallsInOrder /\ WantedHeard /\ Disabled
      /\ events \in Nat /\ emitting \in [Emitters -> Nat] /\ funcs \in Seq(Nat)
  BY DEF BroadcastInv, BroadcastTypes
<1>3. \A x \in Emitters : emitting[x] = 0
  BY <1>1, NobodyEmits
<1>4. emitting'[e] = events + 1 /\ \A x \in Emitters : x # e => emitting'[x] = 0
  BY <1>1, <1>2, <1>3
<1>5. BroadcastTypes'
  <2>1. emitting' \in [Emitters -> Nat] /\ events' \in Nat
    BY <1>1, <1>2
  <2>2. wanted' \subseteq Pairs
    <3>1. \A f \in Range(funcs) : <<events + 1, f>> \in Pairs
      BY <1>2 DEF Range, Pairs
    <3>2. wanted \subseteq Pairs
      BY <1>2 DEF BroadcastTypes
    <3> QED BY <1>1, <3>1, <3>2
  <2> QED BY <1>1, <1>2, <2>1, <2>2 DEF BroadcastTypes
<1>6. OneEmits'
  BY <1>1, <1>2, <1>4 DEF OneEmits
<1>7. Connected' /\ Disabled'
  BY <1>1, <1>2 DEF Connected, Disabled
<1>8. CallsMade' = CallsMade /\ Running' = Running
  BY <1>1 DEF CallsMade, Running, Items
<1>9. CallsInOrder'
  <2>1. ASSUME NEW p \in CallsMade PROVE p[1] \in 1..events' /\ \A x \in Emitters : emitting'[x] # p[1]
    <3>1. p[1] \in 1..events
      BY <1>2 DEF CallsInOrder
    <3> QED BY <1>1, <1>2, <1>4, <3>1
  <2> QED BY <1>1, <1>2, <1>8, <2>1 DEF CallsInOrder
<1>10. WantedHeard'
  <2>1. ASSUME NEW p \in wanted
        PROVE  /\ p[1] \in 1..events' /\ \A x \in Emitters : emitting'[x] # p[1]
               /\ enabled /\ owner # "disable" => p \in CallsMade
    <3>1. p[1] \in 1..events /\ p[1] # 0
      BY <1>2 DEF WantedHeard
    <3>2. enabled /\ owner # "disable" => p \in CallsMade
      BY <1>2, <1>3, <3>1 DEF WantedHeard
    <3> QED BY <1>1, <1>2, <1>4, <3>1, <3>2
  <2>2. ASSUME NEW p \in wanted', p \notin wanted
        PROVE  /\ p[1] = events + 1 /\ observers /\ p[2] \in {funcs[i] : i \in DOMAIN funcs}
               /\ owner = "idle"
    <3>1. owner = "idle" /\ \E f \in Range(funcs) : p = <<events + 1, f>>
      BY <1>1, <2>2
    <3>2. funcs # <<>> /\ p[1] = events + 1 /\ p[2] \in {funcs[i] : i \in DOMAIN funcs}
      BY <3>1 DEF Range
    <3> QED BY <1>2, <3>1, <3>2 DEF Connected
  <2>3. events + 1 \in 1..events'
    BY <1>1, <1>2
  <2> QED BY <1>1, <1>4, <1>8, <2>1, <2>2, <2>3 DEF WantedHeard
<1> QED BY <1>5, <1>6, <1>7, <1>9, <1>10 DEF BroadcastInv

LEMMA HandleStep ==
    ASSUME BroadcastInv, NEW e \in Emitters, handle_event(e)
    PROVE  BroadcastInv'
<1>1. PICK b : b = [i \in DOMAIN funcs |-> <<emitting[e], funcs[i]>>]
  OBVIOUS
<1>2. /\ lock = e /\ emitting[e] # 0 /\ lock' = "free" /\ emitting' = [emitting EXCEPT ![e] = 0]
      /\ posted' = (IF observers THEN posted \o b ELSE posted)
      /\ observers' = observers /\ funcs' = funcs /\ owner' = owner /\ enabled' = enabled /\ connects' = connects
      /\ called' = called /\ inCall' = inCall /\ events' = events /\ wanted' = wanted
  BY <1>1 DEF handle_event
<1>3. /\ BroadcastTypes /\ OneEmits /\ Connected /\ CallsInOrder /\ WantedHeard /\ Disabled
      /\ events \in Nat /\ emitting \in [Emitters -> Nat] /\ funcs \in Seq(Nat) /\ posted \in Seq(Pairs)
  BY DEF BroadcastInv, BroadcastTypes
<1>4. emitting[e] = events /\ emitting[e] \in Nat /\ \A x \in Emitters : x # e => emitting[x] = 0
  BY <1>2, <1>3 DEF OneEmits
<1>5. \A x \in Emitters : emitting'[x] = 0
  BY <1>2, <1>3, <1>4
<1>6. /\ b \in Seq(Pairs) /\ Rising(b) /\ \A p \in Items(b) : p[1] = events
      /\ \A i \in DOMAIN funcs : <<events, funcs[i]>> \in Items(b)
  <2>1. \A i, j \in DOMAIN funcs : i < j => funcs[i] < funcs[j]
    BY <1>3 DEF Connected
  <2>2. b = [i \in DOMAIN funcs |-> <<events, funcs[i]>>]
    BY <1>1, <1>4
  <2> QED BY <1>3, <2>1, <2>2, PostedCalls
<1>7. ASSUME NEW p \in CallsMade PROVE p[1] \in 1..events /\ p[1] < events
  BY <1>3, <1>4 DEF CallsInOrder
<1>8. posted' \in Seq(Pairs) /\ Items(posted') = Items(posted) \cup (IF observers THEN Items(b) ELSE {})
  BY <1>2, <1>3, <1>6, Joined
<1>9. Running' = Running /\ CallsMade' = CallsMade \cup (IF observers THEN Items(b) ELSE {})
  BY <1>2, <1>8 DEF CallsMade, Running
<1>10. AllBefore(CallsMade, Items(b))
  <2> SUFFICES ASSUME NEW p \in CallsMade, NEW q \in Items(b) PROVE Before(p, q)
    BY DEF AllBefore
  <2> QED BY <1>6, <1>7 DEF Before
<1>11. BroadcastTypes'
  <2>1. emitting' \in [Emitters -> Nat]
    BY <1>2, <1>3
  <2> QED BY <1>2, <1>3, <1>8, <2>1 DEF BroadcastTypes
<1>12. OneEmits'
  BY <1>2, <1>5 DEF OneEmits
<1>13. Connected' /\ Disabled'
  BY <1>2, <1>3 DEF Connected, Disabled
<1>14. CallsInOrder'
  <2>1. Rising(posted')
    <3>1. AllBefore(Items(posted), Items(b))
      BY <1>10 DEF AllBefore, CallsMade
    <3> QED BY <1>2, <1>3, <1>6, <3>1, Joined DEF CallsInOrder
  <2>2. AllBefore(Items(called), Running \cup Items(posted')) /\ AllBefore(Running, Items(posted'))
    BY <1>3, <1>8, <1>10 DEF CallsInOrder, AllBefore, CallsMade
  <2>3. ASSUME NEW p \in CallsMade' PROVE p[1] \in 1..events /\ \A x \in Emitters : emitting'[x] # p[1]
    <3>1. p[1] \in 1..events
      <4>1. events \in 1..events
        BY <1>2, <1>3, <1>4
      <4> QED BY <1>6, <1>7, <1>9, <4>1
    <3> QED BY <1>3, <1>5, <3>1
  <2> QED BY <1>2, <1>3, <1>9, <2>1, <2>2, <2>3 DEF CallsInOrder
<1>15. WantedHeard'
  <2>1. ASSUME NEW p \in wanted PROVE p[1] \in 1..events /\ \A x \in Emitters : emitting'[x] # p[1]
    BY <1>3, <1>5 DEF WantedHeard
  <2>2. ASSUME NEW p \in wanted, enabled, owner # "disable" PROVE p \in CallsMade'
    <3>1. CASE p \in CallsMade
      BY <1>9, <3>1
    <3>2. CASE \E x \in Emitters : emitting[x] = p[1]
      <4>1. emitting[e] = p[1] /\ p[1] = events
        BY <1>4, <2>1, <3>2
      <4>2. observers /\ p[2] \in {funcs[i] : i \in DOMAIN funcs}
        BY <1>3, <4>1 DEF WantedHeard
      <4>3. p = <<p[1], p[2]>>
        BY <1>3 DEF BroadcastTypes, Pairs
      <4> QED BY <1>6, <1>9, <4>1, <4>2, <4>3
    <3> QED BY <1>3, <2>2, <3>1, <3>2 DEF WantedHeard
  <2> QED BY <1>2, <2>1, <2>2 DEF WantedHeard
<1> QED BY <1>11, <1>12, <1>13, <1>14, <1>15 DEF BroadcastInv

\* connect's first half, disconnect's and the destructor's steps change what is connected.
LEMMA ConnectStep ==
    ASSUME BroadcastInv, connect
    PROVE  BroadcastInv'
<1>1. /\ OwnerStep /\ owner = "idle" /\ owner' = "register" /\ connects' = connects + 1
      /\ funcs' = Append(funcs, connects + 1)
      /\ observers' = observers /\ enabled' = enabled /\ wanted' = wanted
  BY DEF connect, callVars, OwnerStep
<1>2. /\ BroadcastTypes /\ Connected /\ WantedHeard /\ Disabled /\ connects \in Nat /\ funcs \in Seq(Nat)
  BY DEF BroadcastInv, BroadcastTypes
<1>3. OneEmits' /\ CallsInOrder' /\ CallsMade' = CallsMade
  BY <1>1, OwnerKeeps
<1>4. /\ funcs' \in Seq(Nat) /\ DOMAIN funcs \subseteq DOMAIN funcs' /\ \A i \in DOMAIN funcs : funcs'[i] = funcs[i]
      /\ \A i \in DOMAIN funcs' : i \in DOMAIN funcs \/ (i = Len(funcs) + 1 /\ funcs'[i] = connects + 1)
  BY <1>1, <1>2
<1>5. BroadcastTypes'
  BY <1>1, <1>2, <1>4 DEF BroadcastTypes, OwnerStep
<1>6. Connected'
  <2>1. \A i \in DOMAIN funcs : funcs[i] \in Nat /\ funcs[i] <= connects /\ i \in 1..Len(funcs)
    BY <1>2 DEF Connected
  <2>2. \A i \in DOMAIN funcs' : funcs'[i] <= connects + 1
    <3>1. \A i \in DOMAIN funcs : funcs[i] <= connects + 1
      BY <1>2, <2>1
    <3>2. connects + 1 <= connects + 1
      BY <1>2
    <3> QED BY <1>4, <3>1, <3>2
  <2>3. ASSUME NEW i \in DOMAIN funcs', NEW j \in DOMAIN funcs', i < j PROVE funcs'[i] < funcs'[j]
    <3>1. i \in DOMAIN funcs
      BY <1>2, <1>4, <2>1, <2>3
    <3>2. CASE j \in DOMAIN funcs
      BY <1>2, <1>4, <2>3, <3>1, <3>2 DEF Connected
    <3>3. CASE funcs'[j] = connects + 1
      BY <1>2, <1>4, <2>1, <3>1, <3>3
    <3> QED BY <1>4, <3>2, <3>3
  <2> QED BY <1>1, <2>2, <2>3 DEF Connected
<1>7. WantedHeard'
  <2>1. {funcs[i] : i \in DOMAIN funcs} \subseteq {funcs'[i] : i \in DOMAIN funcs'}
    BY <1>4
  <2> QED BY <1>1, <1>2, <1>3, <2>1 DEF WantedHeard, OwnerStep
<1>8. Disabled'
  BY <1>1 DEF Disabled
<1> QED BY <1>3, <1>5, <1>6, <1>7, <1>8 DEF BroadcastInv

LEMMA DisconnectStep ==
    ASSUME BroadcastInv, disconnect
    PROVE  BroadcastInv'
<1>1. /\ OwnerStep /\ owner = "idle" /\ owner' = "deregister" /\ connects' = connects /\ funcs' = <<>>
      /\ observers' = observers /\ enabled' = enabled
      /\ wanted' = {p \in wanted : \A e \in Emitters : emitting[e] # p[1]}
  BY DEF disconnect, callVars, OwnerStep
<1>2. BroadcastTypes /\ Connected /\ WantedHeard /\ Disabled
  BY DEF BroadcastInv
<1>3. OneEmits' /\ CallsInOrder' /\ CallsMade' = CallsMade
  BY <1>1, OwnerKeeps
<1>4. BroadcastTypes'
  BY <1>1, <1>2 DEF BroadcastTypes, OwnerStep
<1>5. Connected' /\ Disabled'
  BY <1>1, <1>2 DEF Connected, Disabled
<1>6. WantedHeard'
  BY <1>1, <1>2, <1>3 DEF WantedHeard, OwnerStep
<1> QED BY <1>3, <1>4, <1>5, <1>6 DEF BroadcastInv

\* The registration comes and goes while nobody emits.
LEMMA RegisterStep ==
    ASSUME BroadcastInv, register_observer \/ deregister_observer \/ destroy
    PROVE  BroadcastInv'
<1>1. /\ OwnerStep /\ lock = "free" /\ connects' = connects /\ funcs' = funcs /\ enabled' = enabled /\ wanted' = wanted
      /\ \/ owner = "register" /\ owner' = "idle" /\ observers' = TRUE
         \/ owner = "deregister" /\ owner' = "idle" /\ observers' = FALSE
         \/ owner = "idle" /\ owner' = "disable" /\ observers' = FALSE
  BY DEF register_observer, deregister_observer, destroy, callVars, OwnerStep
<1>2. BroadcastTypes /\ Connected /\ WantedHeard /\ Disabled
  BY DEF BroadcastInv
<1>3. OneEmits' /\ CallsInOrder' /\ CallsMade' = CallsMade
  BY <1>1, OwnerKeeps
<1>4. \A e \in Emitters : emitting[e] = 0
  BY <1>1, NobodyEmits
<1>5. BroadcastTypes'
  BY <1>1, <1>2 DEF BroadcastTypes, OwnerStep
<1>6. Connected' /\ Disabled'
  BY <1>1, <1>2 DEF Connected, Disabled
<1>7. WantedHeard'
  <2>1. \A p \in wanted, e \in Emitters : emitting[e] # p[1]
    BY <1>2, <1>4 DEF WantedHeard
  <2> QED BY <1>1, <1>2, <1>3, <2>1 DEF WantedHeard, OwnerStep
<1> QED BY <1>3, <1>5, <1>6, <1>7 DEF BroadcastInv

LEMMA DestroyStep ==
    ASSUME BroadcastInv, disable \/ disable_waits
    PROVE  BroadcastInv'
<1>1. /\ OwnerStep /\ connects' = connects /\ wanted' = wanted /\ observers' = observers
      /\ \/ owner = "disable" /\ owner' = "wait" /\ enabled' = FALSE /\ funcs' = funcs
         \/ owner = "wait" /\ owner' = "gone" /\ inCall = <<>> /\ enabled' = enabled /\ funcs' = <<>>
  BY DEF disable, disable_waits, callVars, OwnerStep
<1>2. BroadcastTypes /\ Connected /\ WantedHeard /\ Disabled
  BY DEF BroadcastInv
<1>3. OneEmits' /\ CallsInOrder' /\ CallsMade' = CallsMade
  BY <1>1, OwnerKeeps
<1>4. BroadcastTypes'
  <2>1. funcs' \in Seq(Nat) /\ enabled' \in BOOLEAN /\ owner' \in {"wait", "gone"}
    <3>1. funcs \in Seq(Nat) /\ enabled \in BOOLEAN /\ <<>> \in Seq(Nat)
      BY <1>2 DEF BroadcastTypes
    <3> QED BY <1>1, <3>1, Zenon
  <2> QED BY <1>1, <1>2, <2>1 DEF BroadcastTypes, OwnerStep
<1>5. Connected' /\ Disabled'
  BY <1>1, <1>2 DEF Connected, Disabled, OwnerStep
<1>6. WantedHeard'
  <2>1. \A p \in wanted, e \in Emitters : emitting[e] # p[1]
    BY <1>1, <1>2 DEF WantedHeard
  <2>2. ~enabled'
    BY <1>1, <1>2 DEF Disabled
  <2> QED BY <1>1, <1>2, <1>3, <2>1, <2>2 DEF WantedHeard, OwnerStep
<1> QED BY <1>3, <1>4, <1>5, <1>6 DEF BroadcastInv

\* The strand takes the first call that is posted, and makes it unless the observer was disabled.
LEMMA RunPostedStep ==
    ASSUME BroadcastInv, run_posted
    PROVE  BroadcastInv'
<1>1. /\ posted # <<>> /\ inCall = <<>> /\ posted' = Tail(posted)
      /\ (enabled /\ inCall' = Head(posted)) \/ (~enabled /\ inCall' = inCall)
      /\ lock' = lock /\ observers' = observers /\ funcs' = funcs /\ emitting' = emitting /\ owner' = owner
      /\ called' = called /\ enabled' = enabled /\ events' = events /\ connects' = connects /\ wanted' = wanted
  BY DEF run_posted
<1>2. /\ BroadcastTypes /\ OneEmits /\ Connected /\ CallsInOrder /\ WantedHeard /\ Disabled /\ posted \in Seq(Pairs)
  BY DEF BroadcastInv, BroadcastTypes
<1>3. /\ Head(posted) \in Pairs /\ posted' \in Seq(Pairs) /\ Items(posted) = {Head(posted)} \cup Items(posted')
      /\ Rising(posted') /\ AllBefore({Head(posted)}, Items(posted'))
  BY <1>1, <1>2, FirstCall DEF CallsInOrder
<1>4. Head(posted) # <<>> /\ Running = {}
  <2>1. PICK a \in Nat, b \in Nat : Head(posted) = <<a, b>>
    BY <1>3 DEF Pairs
  <2>2. <<a, b>> # <<>>
    OBVIOUS
  <2> QED BY <1>1, <2>1, <2>2 DEF Running
<1>5. Running' \subseteq {Head(posted)} /\ (enabled => Running' = {Head(posted)})
  BY <1>1, <1>4 DEF Running
<1>6. CallsMade' \subseteq CallsMade /\ (enabled => CallsMade' = CallsMade)
  BY <1>1, <1>3, <1>4, <1>5 DEF CallsMade
<1>7. BroadcastTypes'
  BY <1>1, <1>2, <1>3 DEF BroadcastTypes
<1>8. OneEmits' /\ Connected' /\ Disabled'
  BY <1>1, <1>2 DEF OneEmits, Connected, Disabled
<1>9. CallsInOrder'
  <2>1. AllBefore(Items(called), Running' \cup Items(posted')) /\ AllBefore(Running', Items(posted'))
    BY <1>2, <1>3, <1>5 DEF CallsInOrder, AllBefore
  <2> QED BY <1>1, <1>2, <1>3, <1>6, <2>1 DEF CallsInOrder
<1>10. WantedHeard'
  BY <1>1, <1>2, <1>6 DEF WantedHeard
<1> QED BY <1>7, <1>8, <1>9, <1>10 DEF BroadcastInv

LEMMA CallEndsStep ==
    ASSUME BroadcastInv, call_ends
    PROVE  BroadcastInv'
<1>1. /\ inCall # <<>> /\ called' = Append(called, inCall) /\ inCall' = <<>>
      /\ lock' = lock /\ observers' = observers /\ funcs' = funcs /\ emitting' = emitting /\ owner' = owner
      /\ posted' = posted /\ enabled' = enabled /\ events' = events /\ connects' = connects /\ wanted' = wanted
  BY DEF call_ends
<1>2. /\ BroadcastTypes /\ OneEmits /\ Connected /\ CallsInOrder /\ WantedHeard /\ Disabled
      /\ called \in Seq(Pairs) /\ inCall \in Pairs
  BY <1>1 DEF BroadcastInv, BroadcastTypes
<1>3. Running = {inCall} /\ Running' = {}
  BY <1>1 DEF Running
<1>4. called' \in Seq(Pairs) /\ Items(called') = Items(called) \cup {inCall} /\ Rising(called')
  <2>1. AllBefore(Items(called), {inCall}) /\ Rising(called)
    BY <1>2, <1>3 DEF CallsInOrder, AllBefore
  <2> QED BY <1>1, <1>2, <2>1, AppendedCall
<1>5. CallsMade' = CallsMade
  BY <1>1, <1>3, <1>4 DEF CallsMade
<1>6. BroadcastTypes'
  BY <1>1, <1>2, <1>4 DEF BroadcastTypes
<1>7. OneEmits' /\ Connected' /\ Disabled'
  BY <1>1, <1>2 DEF OneEmits, Connected, Disabled
<1>8. CallsInOrder'
  <2>1. AllBefore(Items(called'), Running' \cup Items(posted)) /\ AllBefore(Running', Items(posted))
    BY <1>2, <1>3, <1>4 DEF CallsInOrder, AllBefore
  <2> QED BY <1>1, <1>2, <1>4, <1>5, <2>1 DEF CallsInOrder
<1>9. WantedHeard'
  BY <1>1, <1>2, <1>5 DEF WantedHeard
<1> QED BY <1>6, <1>7, <1>8, <1>9 DEF BroadcastInv

LEMMA BroadcastInitInv == BroadcastInit => BroadcastInv
<1> SUFFICES ASSUME BroadcastInit PROVE BroadcastInv
  OBVIOUS
<1>1. BroadcastTypes
  <2>1. emitting \in [Emitters -> Nat] /\ events \in Nat /\ connects \in Nat
    BY DEF BroadcastInit
  <2>2. funcs \in Seq(Nat) /\ posted \in Seq(Pairs) /\ called \in Seq(Pairs) /\ inCall \in Pairs \cup {<<>>}
    BY DEF BroadcastInit
  <2>3. /\ lock \in Emitters \cup {"free"} /\ observers \in BOOLEAN /\ enabled \in BOOLEAN
        /\ owner \in {"idle", "register", "deregister", "disable", "wait", "gone"} /\ wanted \subseteq Pairs
    BY Zenon DEF BroadcastInit
  <2> QED BY <2>1, <2>2, <2>3 DEF BroadcastTypes
<1>2. CallsMade = {} /\ Running = {} /\ Items(called) = {} /\ Items(posted) = {}
  BY DEF BroadcastInit, CallsMade, Running, Items
<1>3. CallsInOrder
  BY <1>2 DEF BroadcastInit, CallsInOrder, Rising, AllBefore
<1>4. OneEmits /\ Connected /\ WantedHeard /\ Disabled
  BY DEF BroadcastInit, OneEmits, Connected, WantedHeard, Disabled
<1> QED BY <1>1, <1>3, <1>4 DEF BroadcastInv

LEMMA BroadcastStep == BroadcastInv /\ [BroadcastNext]_bcVars => BroadcastInv'
<1> SUFFICES ASSUME BroadcastInv, [BroadcastNext]_bcVars PROVE BroadcastInv'
  OBVIOUS
<1>1. CASE UNCHANGED bcVars
  <2>1. CallsMade' = CallsMade /\ Running' = Running
    BY <1>1 DEF bcVars, CallsMade, Running, Items
  <2>2. BroadcastTypes' /\ OneEmits' /\ Connected' /\ Disabled'
    BY <1>1 DEF BroadcastInv, bcVars, BroadcastTypes, OneEmits, Connected, Disabled
  <2>3. CallsInOrder' /\ WantedHeard'
    <3>1. CallsInOrder /\ WantedHeard
      BY DEF BroadcastInv
    <3> QED BY <1>1, <2>1, <3>1 DEF bcVars, CallsInOrder, WantedHeard
  <2> QED BY <2>2, <2>3 DEF BroadcastInv
<1>2. CASE BroadcastNext
  BY <1>2, EmitStep, HandleStep, ConnectStep, DisconnectStep, RegisterStep, DestroyStep, RunPostedStep,
     CallEndsStep DEF BroadcastNext
<1> QED BY <1>1, <1>2

LEMMA InvHeard == BroadcastInv => BroadcastsHeard
<1> SUFFICES ASSUME BroadcastInv PROVE BroadcastsHeard
  OBVIOUS
<1>1. BroadcastTypes /\ CallsInOrder /\ WantedHeard /\ Disabled
  BY DEF BroadcastInv
<1>2. PICK m : m = IF inCall = <<>> THEN <<>> ELSE <<inCall>>
  OBVIOUS
<1>3. m \in Seq(Pairs) /\ Items(m) = Running
  <2>1. CASE inCall = <<>>
    BY <1>2, <2>1 DEF Items, Running
  <2>2. CASE inCall # <<>>
    <3>1. inCall \in Pairs /\ m = <<inCall>>
      BY <1>1, <1>2, <2>2 DEF BroadcastTypes
    <3>2. DOMAIN m = {1} /\ m[1] = inCall /\ m \in Seq(Pairs)
      BY <3>1
    <3> QED BY <2>2, <3>2 DEF Items, Running
  <2> QED BY <2>1, <2>2
<1>4. Items(called \o m \o posted) = CallsMade
  <2>1. called \in Seq(Pairs) /\ posted \in Seq(Pairs)
    BY <1>1 DEF BroadcastTypes
  <2>2. called \o m \in Seq(Pairs) /\ Items(called \o m) = Items(called) \cup Running
    BY <1>3, <2>1, Joined
  <2> QED BY <2>1, <2>2, Joined DEF CallsMade
<1>5. Range(called \o m \o posted) = CallsMade
  BY <1>4 DEF Items, Range
<1> QED BY <1>1, <1>2, <1>5 DEF BroadcastsHeard, CallsInOrder, WantedHeard, Disabled, Rising, Before

\* broadcast_event_handler and its observer: whatever threads emit while the owner connects, disconnects
\* and destroys, a function connected through an emit is called with the event, once, in the order of the
\* events and of the functions; and no call runs once the destructor has returned.
THEOREM BroadcastsAreHeard == BroadcastSpec => []BroadcastsHeard
<1> QED BY BroadcastInitInv, BroadcastStep, InvHeard, PTL DEF BroadcastSpec

-----------------------------------------------------------------------------
(* Tasks.  The invariant of a call is about its own values (a: where its   *)
(* chain runs, f: its frames, w: the future it awaits, r: its result, k:   *)
(* its caller, m: the completions, t: the levels that threw).              *)

TasksSpec == TasksInit /\ [][TasksNext]_taskVars

Outcomes == [from : Nat, what : {"none", "value", "error"}]
CallTypes(c, a, f, w, r, m, t) ==
    /\ a.pc \in {"none", "body", "await", "suspended", "resumed", "scheduled", "executed", "ended"}
    /\ a.level \in 0..Depth(c) /\ a.out \in Outcomes
    /\ DOMAIN f = Levels(c)
    /\ w \in [ready : BOOLEAN, continuation : BOOLEAN, out : Outcomes]
    /\ r \in [ready : BOOLEAN, out : Outcomes]
    /\ m \in Seq(Outcomes) /\ t \subseteq Levels(c)

\* How far a chain is: the frames above it wait for it, each for the next.
ChainStands(c, a, f) ==
    /\ a.pc \in {"await", "suspended"} => a.level = Depth(c)
    /\ a.pc \in {"body", "await", "suspended", "scheduled", "executed"} => a.level >= 1
    /\ a.pc \notin {"none", "ended"} =>
          \A i \in 1..a.level : f[i].state = "started" /\ f[i].continuation = i - 1
    /\ a.pc = "none" => \A i \in Levels(c) : f[i].state = "none"
    /\ a.pc = "body" => \A i \in Levels(c) : i > a.level => f[i].state = "none"
    /\ a.pc \in {"scheduled", "executed"} => Chains[c][a.level] = "resume_on"
    /\ a.pc = "executed" => a.on = "executor"
    /\ a.pc = "resumed" /\ a.level < Depth(c) /\ Chains[c][a.level + 1] = "resume_on" => a.on = "executor"
    /\ \A i \in Levels(c) : f[i].state = "destroyed" => a.pc = "ended" \/ a.level < i

\* The future is awaited while the chain is suspended, and has the first completion.
FutureKept(a, w, m) ==
    /\ a.pc = "suspended" => w.continuation /\ ~w.ready
    /\ w.continuation => a.pc = "suspended"
    /\ w.ready => m # <<>> /\ w.out = m[1]
    /\ ~w.ready => m = <<>>

\* What a chain passes on: what the outermost body that threw threw, or the first completion.
Passed(got, m, t) == IF t # {} THEN got = Thrown(Min(t)) ELSE m # <<>> /\ got = m[1]
OutcomePassed(a, r, k, m, t) ==
    /\ k = "idle" => a.pc = "none"
    /\ a.pc \in {"none", "body", "await", "suspended"} => t = {}
    /\ a.pc \in {"resumed", "scheduled", "executed", "ended"} => Passed(a.out, m, t)
    /\ a.pc \in {"resumed", "scheduled", "executed"} => \A x \in t : x > a.level
    /\ r.ready => a.pc = "ended" /\ r.out = a.out
    /\ k = "returned" => r.ready

CallInv(c, a, f, w, r, k, m, t) ==
    /\ CallTypes(c, a, f, w, r, m, t) /\ ChainStands(c, a, f)
    /\ FutureKept(a, w, m) /\ OutcomePassed(a, r, k, m, t)

\* Each handle that was submitted to the executor is there once.
ExecutorInv ==
    /\ executor \in Seq(Calls)
    /\ \A i, j \in DOMAIN executor : executor[i] = executor[j] => i = j
    /\ \A c \in Calls : at[c].pc = "scheduled" <=> \E i \in DOMAIN executor : executor[i] = c

TaskOf(c) == CallInv(c, at[c], frame[c], awaited[c], result[c], caller[c], completed[c], threw[c])
TaskDomains ==
    /\ DOMAIN at = Calls /\ DOMAIN frame = Calls /\ DOMAIN awaited = Calls /\ DOMAIN result = Calls
    /\ DOMAIN caller = Calls /\ DOMAIN completed = Calls /\ DOMAIN threw = Calls
TasksInv == TaskDomains /\ ExecutorInv /\ \A c \in Calls : TaskOf(c)

LEMMA ChainKinds ==
    ASSUME NEW c \in Calls
    PROVE  /\ Depth(c) \in Nat /\ Depth(c) >= 1 /\ Levels(c) = 1..Depth(c)
           /\ \A i \in Levels(c) : Chains[c][i] \in {"task", "resume_on"}
<1>1. PICK s : s = Chains[c]
  OBVIOUS
<1>2. s \in Seq({"task", "resume_on"}) /\ s # <<>>
  BY <1>1, ChainAssumption
<1>3. Len(s) \in Nat /\ Len(s) >= 1 /\ \A i \in 1..Len(s) : s[i] \in {"task", "resume_on"}
  BY <1>2
<1> QED BY <1>1, <1>3 DEF Depth, Levels

\* A step of one call leaves the others alone.
OnlyCall(c) ==
    /\ TaskDomains'
    /\ \A d \in Calls : d # c =>
          /\ at'[d] = at[d] /\ frame'[d] = frame[d] /\ awaited'[d] = awaited[d] /\ result'[d] = result[d]
          /\ caller'[d] = caller[d] /\ completed'[d] = completed[d] /\ threw'[d] = threw[d]

LEMMA CallStep ==
    ASSUME TasksInv, NEW c \in Calls, OnlyCall(c), TaskOf(c)', ExecutorInv'
    PROVE  TasksInv'
<1>1. ASSUME NEW d \in Calls, d # c PROVE TaskOf(d)'
  <2>1. TaskOf(d)
    BY DEF TasksInv
  <2> QED BY <1>1, <2>1 DEF OnlyCall, TaskOf
<1> QED BY <1>1 DEF TasksInv, OnlyCall

\* Steps that neither submit to the executor nor take from it.
LEMMA ExecutorKept ==
    ASSUME TasksInv, NEW c \in Calls, OnlyCall(c), executor' = executor,
           at[c].pc # "scheduled", at'[c].pc # "scheduled"
    PROVE  ExecutorInv'
<1>1. ExecutorInv
  BY DEF TasksInv
<1>2. \A d \in Calls : at'[d].pc = "scheduled" <=> at[d].pc = "scheduled"
  BY DEF OnlyCall
<1> QED BY <1>1, <1>2 DEF ExecutorInv

\* The smallest of a set of levels that all others are above of.
LEMMA OutermostThrew ==
    ASSUME NEW l \in Nat, NEW t \in SUBSET Nat, \A x \in t : x > l
    PROVE  Min(t \cup {l}) = l
<1>1. \A y \in t \cup {l} : l <= y
  OBVIOUS
<1>2. \A x \in t \cup {l} : (\A y \in t \cup {l} : x <= y) => x = l
  OBVIOUS
<1>3. Min(t \cup {l}) = CHOOSE x \in t \cup {l} : \A y \in t \cup {l} : x <= y
  BY DEF Min
<1> QED BY <1>1, <1>2, <1>3

\* What the invariant says of one call.
LEMMA CallOf ==
    ASSUME TasksInv, NEW c \in Calls
    PROVE  /\ TaskDomains /\ ExecutorInv
           /\ CallTypes(c, at[c], frame[c], awaited[c], result[c], completed[c], threw[c])
           /\ ChainStands(c, at[c], frame[c])
           /\ FutureKept(at[c], awaited[c], completed[c])
           /\ OutcomePassed(at[c], result[c], caller[c], completed[c], threw[c])
BY DEF TasksInv, TaskOf, CallInv

\* Moves of a chain.
LEMMA Moved ==
    ASSUME TaskDomains, NEW c \in Calls, NEW pc, NEW level, NEW on, NEW got, Move(c, pc, level, on, got)
    PROVE  /\ DOMAIN at' = Calls /\ \A d \in Calls : d # c => at'[d] = at[d]
           /\ at'[c].pc = pc /\ at'[c].level = level /\ at'[c].on = on /\ at'[c].out = got
BY DEF TaskDomains, Move

LEMMA SyncWaitStep ==
    ASSUME TasksInv, NEW c \in Calls, sync_wait(c)
    PROVE  TasksInv'
<1>1. /\ TaskDomains /\ ExecutorInv
      /\ CallTypes(c, at[c], frame[c], awaited[c], result[c], completed[c], threw[c])
      /\ ChainStands(c, at[c], frame[c]) /\ FutureKept(at[c], awaited[c], completed[c])
      /\ OutcomePassed(at[c], result[c], caller[c], completed[c], threw[c])
  BY CallOf
<1>2. /\ caller[c] = "idle" /\ caller' = [caller EXCEPT ![c] = "starting"]
      /\ frame' = [frame EXCEPT ![c] = set_continuation(frame[c], 0)]
      /\ awaited' = awaited /\ result' = result /\ executor' = executor /\ completed' = completed /\ threw' = threw
  BY DEF sync_wait
<1>3. /\ DOMAIN at' = Calls /\ \A d \in Calls : d # c => at'[d] = at[d]
      /\ at'[c].pc = "body" /\ at'[c].level = 1 /\ at'[c].on = "caller" /\ at'[c].out = NoOutcome
  BY <1>1, Moved DEF sync_wait
<1>4. Depth(c) \in Nat /\ Depth(c) >= 1 /\ Levels(c) = 1..Depth(c)
  BY ChainKinds
<1>5. at[c].pc = "none"
  BY <1>1, <1>2 DEF OutcomePassed
<1>6. /\ DOMAIN frame' = Calls /\ DOMAIN frame'[c] = Levels(c) /\ \A d \in Calls : d # c => frame'[d] = frame[d]
      /\ frame'[c][1].state = "started" /\ frame'[c][1].continuation = 0
      /\ \A i \in Levels(c) : i # 1 => frame'[c][i] = frame[c][i]
  <2>1. DOMAIN frame[c] = Levels(c) /\ 1 \in Levels(c)
    BY <1>1, <1>4 DEF CallTypes
  <2>2. frame'[c] = [frame[c] EXCEPT ![1] = [state |-> "started", continuation |-> 0]] /\ DOMAIN frame' = Calls
    BY <1>1, <1>2 DEF TaskDomains, set_continuation
  <2> QED BY <1>1, <1>2, <2>1, <2>2 DEF TaskDomains
<1>7. OnlyCall(c)
  BY <1>1, <1>2, <1>3, <1>6 DEF OnlyCall, TaskDomains
<1>8. CallTypes(c, at'[c], frame'[c], awaited[c], result[c], completed[c], threw[c])
  <2>1. NoOutcome \in Outcomes
    BY DEF NoOutcome, Outcomes
  <2> QED BY <1>1, <1>3, <1>4, <1>6, <2>1 DEF CallTypes
<1>9. ChainStands(c, at'[c], frame'[c])
  <2>1. \A i \in Levels(c) : frame[c][i].state = "none"
    BY <1>1, <1>5 DEF ChainStands
  <2>2. \A i \in 1..1 : i = 1
    OBVIOUS
  <2>3. \A i \in Levels(c) : i # 1 => frame'[c][i].state = "none"
    BY <1>6, <2>1
  <2> QED BY <1>3, <1>4, <1>6, <2>2, <2>3 DEF ChainStands
<1>10. FutureKept(at'[c], awaited[c], completed[c])
  BY <1>1, <1>3, <1>5 DEF FutureKept
<1>11. OutcomePassed(at'[c], result[c], "starting", completed[c], threw[c])
  BY <1>1, <1>3, <1>5 DEF OutcomePassed
<1>12. TaskOf(c)'
  <2>1. caller'[c] = "starting"
    BY <1>1, <1>2 DEF TaskDomains
  <2> QED BY <1>2, <1>8, <1>9, <1>10, <1>11, <2>1 DEF TaskOf, CallInv
<1>13. ExecutorInv'
  BY <1>2, <1>3, <1>5, <1>7, ExecutorKept
<1> QED BY <1>7, <1>12, <1>13, CallStep

LEMMA CoAwaitStep ==
    ASSUME TasksInv, NEW c \in Calls, co_await(c)
    PROVE  TasksInv'
<1>1. /\ TaskDomains /\ ExecutorInv
      /\ CallTypes(c, at[c], frame[c], awaited[c], result[c], completed[c], threw[c])
      /\ ChainStands(c, at[c], frame[c]) /\ FutureKept(at[c], awaited[c], completed[c])
      /\ OutcomePassed(at[c], result[c], caller[c], completed[c], threw[c])
  BY CallOf
<1>2. /\ at[c].pc = "body" /\ awaited' = awaited /\ result' = result /\ executor' = executor
      /\ caller' = caller /\ completed' = completed /\ threw' = threw
  BY DEF co_await
<1>3. Depth(c) \in Nat /\ Depth(c) >= 1 /\ Levels(c) = 1..Depth(c)
  BY ChainKinds
<1>4. PICK l : l = at[c].level
  OBVIOUS
<1>5. /\ l \in 1..Depth(c) /\ DOMAIN frame[c] = Levels(c)
      /\ \A i \in 1..l : frame[c][i].state = "started" /\ frame[c][i].continuation = i - 1
      /\ \A i \in Levels(c) : i > l => frame[c][i].state = "none"
  BY <1>1, <1>2, <1>3, <1>4 DEF CallTypes, ChainStands
<1>6. NoOutcome \in Outcomes
  BY DEF NoOutcome, Outcomes
<1>7. CASE l < Depth(c)
  <2>1. /\ DOMAIN at' = Calls /\ \A d \in Calls : d # c => at'[d] = at[d]
        /\ at'[c].pc = "body" /\ at'[c].level = l + 1 /\ at'[c].on = at[c].on /\ at'[c].out = NoOutcome
    <3>1. Move(c, "body", l + 1, at[c].on, NoOutcome)
      BY <1>4, <1>7 DEF co_await
    <3> QED BY <1>1, <3>1, Moved
  <2>2. frame' = [frame EXCEPT ![c] = set_continuation(frame[c], l)]
    BY <1>4, <1>7 DEF co_await
  <2>3. frame'[c] = [frame[c] EXCEPT ![l + 1] = [state |-> "started", continuation |-> l]] /\ DOMAIN frame' = Calls
    BY <1>1, <2>2 DEF TaskDomains, set_continuation
  <2>4. l + 1 \in Levels(c) /\ l \in Nat
    BY <1>3, <1>5, <1>7
  <2>5. /\ DOMAIN frame'[c] = Levels(c) /\ \A d \in Calls : d # c => frame'[d] = frame[d]
        /\ frame'[c][l + 1].state = "started" /\ frame'[c][l + 1].continuation = l
        /\ \A i \in Levels(c) : i # l + 1 => frame'[c][i] = frame[c][i]
    BY <1>1, <1>5, <2>2, <2>3, <2>4 DEF TaskDomains
  <2>6. OnlyCall(c)
    BY <1>1, <1>2, <2>1, <2>3, <2>5 DEF OnlyCall, TaskDomains
  <2>7. CallTypes(c, at'[c], frame'[c], awaited[c], result[c], completed[c], threw[c])
    <3>1. at'[c].level \in 0..Depth(c)
      BY <1>3, <2>1, <2>4
    <3> QED BY <1>1, <1>6, <2>1, <2>5, <3>1 DEF CallTypes
  <2>8. ChainStands(c, at'[c], frame'[c])
    <3>1. \A i \in 1..(l + 1) : frame'[c][i].state = "started" /\ frame'[c][i].continuation = i - 1
      <4>1. \A i \in 1..(l + 1) : i = l + 1 \/ (i \in 1..l /\ i \in Levels(c) /\ i # l + 1)
        BY <1>3, <2>4
      <4>2. (l + 1) - 1 = l
        BY <2>4
      <4> QED BY <1>5, <2>5, <4>1, <4>2
    <3>2. \A i \in Levels(c) : i > l + 1 => frame'[c][i].state = "none"
      <4>1. \A i \in Levels(c) : i > l + 1 => i > l /\ i # l + 1
        BY <1>3, <2>4
      <4> QED BY <1>5, <2>5, <4>1
    <3>4. \A i \in Levels(c) : frame'[c][i].state # "destroyed"
      <4>1. \A i \in Levels(c) : i \in 1..(l + 1) \/ i > l + 1
        BY <1>3, <2>4
      <4> QED BY <3>1, <3>2, <4>1
    <3>5. l + 1 >= 1
      BY <2>4
    <3> QED BY <2>1, <3>1, <3>2, <3>4, <3>5 DEF ChainStands
  <2>9. FutureKept(at'[c], awaited[c], completed[c]) /\ OutcomePassed(at'[c], result[c], caller[c], completed[c], threw[c])
    BY <1>1, <1>2, <2>1 DEF FutureKept, OutcomePassed
  <2>10. TaskOf(c)'
    BY <1>2, <2>7, <2>8, <2>9 DEF TaskOf, CallInv
  <2>11. ExecutorInv'
    BY <1>2, <2>1, <2>6, ExecutorKept
  <2> QED BY <2>6, <2>10, <2>11, CallStep
<1>8. CASE ~(l < Depth(c))
  <2>1. /\ DOMAIN at' = Calls /\ \A d \in Calls : d # c => at'[d] = at[d]
        /\ at'[c].pc = "await" /\ at'[c].level = Depth(c) /\ at'[c].on = at[c].on /\ at'[c].out = NoOutcome
    <3>1. Move(c, "await", Depth(c), at[c].on, NoOutcome)
      BY <1>4, <1>8 DEF co_await
    <3> QED BY <1>1, <3>1, Moved
  <2>2. frame' = frame /\ l = Depth(c)
    BY <1>3, <1>4, <1>5, <1>8 DEF co_await
  <2>3. OnlyCall(c)
    BY <1>1, <1>2, <2>1, <2>2 DEF OnlyCall, TaskDomains
  <2>4. CallTypes(c, at'[c], frame[c], awaited[c], result[c], completed[c], threw[c])
    <3>1. at'[c].level \in 0..Depth(c)
      BY <1>3, <2>1
    <3> QED BY <1>1, <1>6, <2>1, <3>1 DEF CallTypes
  <2>5. ChainStands(c, at'[c], frame[c])
    <3>1. \A i \in Levels(c) : frame[c][i].state # "destroyed"
      BY <1>3, <1>5, <2>2
    <3> QED BY <1>3, <1>5, <2>1, <2>2, <3>1 DEF ChainStands
  <2>6. FutureKept(at'[c], awaited[c], completed[c]) /\ OutcomePassed(at'[c], result[c], caller[c], completed[c], threw[c])
    BY <1>1, <1>2, <2>1 DEF FutureKept, OutcomePassed
  <2>7. TaskOf(c)'
    BY <1>2, <2>2, <2>4, <2>5, <2>6 DEF TaskOf, CallInv
  <2>8. ExecutorInv'
    BY <1>2, <2>1, <2>3, ExecutorKept
  <2> QED BY <2>3, <2>7, <2>8, CallStep
<1> QED BY <1>7, <1>8

\* A chain at the future either goes on with its outcome or is its continuation.
LEMMA AwaitStep ==
    ASSUME TasksInv, NEW c \in Calls, await_suspend(c)
    PROVE  TasksInv'
<1>1. /\ TaskDomains /\ ExecutorInv
      /\ CallTypes(c, at[c], frame[c], awaited[c], result[c], completed[c], threw[c])
      /\ ChainStands(c, at[c], frame[c]) /\ FutureKept(at[c], awaited[c], completed[c])
      /\ OutcomePassed(at[c], result[c], caller[c], completed[c], threw[c])
  BY CallOf
<1>2. /\ at[c].pc = "await" /\ frame' = frame /\ result' = result /\ executor' = executor
      /\ caller' = caller /\ completed' = completed /\ threw' = threw
  BY DEF await_suspend
<1>3. Depth(c) \in Nat /\ Depth(c) >= 1 /\ Levels(c) = 1..Depth(c) /\ Depth(c) \in 0..Depth(c)
  BY ChainKinds
<1>4. at[c].level = Depth(c) /\ threw[c] = {} /\ \A i \in Levels(c) : frame[c][i].state # "destroyed"
  <2>1. at[c].level = Depth(c) /\ threw[c] = {}
    BY <1>1, <1>2 DEF ChainStands, OutcomePassed
  <2> QED BY <1>1, <1>2, <1>3, <2>1 DEF ChainStands
<1>5. CASE awaited[c].ready
  <2>1. /\ DOMAIN at' = Calls /\ \A d \in Calls : d # c => at'[d] = at[d]
        /\ at'[c].pc = "resumed" /\ at'[c].level = Depth(c) /\ at'[c].on = at[c].on /\ at'[c].out = awaited[c].out
    <3>1. Move(c, "resumed", Depth(c), at[c].on, awaited[c].out)
      BY <1>5 DEF await_suspend
    <3> QED BY <1>1, <3>1, Moved
  <2>2. awaited' = awaited /\ awaited[c].out \in Outcomes
    BY <1>1, <1>5 DEF await_suspend, CallTypes
  <2>3. OnlyCall(c)
    BY <1>1, <1>2, <2>1, <2>2 DEF OnlyCall, TaskDomains
  <2>4. CallTypes(c, at'[c], frame[c], awaited[c], result[c], completed[c], threw[c])
    BY <1>1, <1>3, <2>1, <2>2 DEF CallTypes
  <2>5. ChainStands(c, at'[c], frame[c])
    BY <1>1, <1>2, <1>3, <1>4, <2>1 DEF ChainStands
  <2>6. FutureKept(at'[c], awaited[c], completed[c])
    BY <1>1, <1>2, <2>1 DEF FutureKept
  <2>7. OutcomePassed(at'[c], result[c], caller[c], completed[c], threw[c])
    <3>1. Passed(at'[c].out, completed[c], threw[c])
      BY <1>1, <1>4, <1>5, <2>1 DEF Passed, FutureKept
    <3> QED BY <1>1, <1>2, <1>4, <2>1, <3>1 DEF OutcomePassed
  <2>8. TaskOf(c)'
    BY <1>2, <2>2, <2>4, <2>5, <2>6, <2>7 DEF TaskOf, CallInv
  <2>9. ExecutorInv'
    BY <1>2, <2>1, <2>3, ExecutorKept
  <2> QED BY <2>3, <2>8, <2>9, CallStep
<1>6. CASE ~awaited[c].ready
  <2>1. /\ DOMAIN at' = Calls /\ \A d \in Calls : d # c => at'[d] = at[d]
        /\ at'[c].pc = "suspended" /\ at'[c].level = Depth(c) /\ at'[c].on = "none" /\ at'[c].out = NoOutcome
    <3>1. Move(c, "suspended", Depth(c), "none", NoOutcome)
      BY <1>6 DEF await_suspend
    <3> QED BY <1>1, <3>1, Moved
  <2>2. awaited' = [awaited EXCEPT ![c].continuation = TRUE]
    BY <1>6 DEF await_suspend
  <2>3. /\ DOMAIN awaited' = Calls /\ \A d \in Calls : d # c => awaited'[d] = awaited[d]
        /\ awaited'[c] \in [ready : BOOLEAN, continuation : BOOLEAN, out : Outcomes]
        /\ awaited'[c].continuation /\ awaited'[c].ready = awaited[c].ready /\ awaited'[c].out = awaited[c].out
    BY <1>1, <2>2 DEF TaskDomains, CallTypes
  <2>4. OnlyCall(c)
    BY <1>1, <1>2, <2>1, <2>3 DEF OnlyCall, TaskDomains
  <2>5. CallTypes(c, at'[c], frame[c], awaited'[c], result[c], completed[c], threw[c])
    <3>1. NoOutcome \in Outcomes
      BY DEF NoOutcome, Outcomes
    <3> QED BY <1>1, <1>3, <2>1, <2>3, <3>1 DEF CallTypes
  <2>6. ChainStands(c, at'[c], frame[c])
    BY <1>1, <1>2, <1>3, <1>4, <2>1 DEF ChainStands
  <2>7. FutureKept(at'[c], awaited'[c], completed[c])
    BY <1>1, <1>6, <2>1, <2>3 DEF FutureKept
  <2>8. OutcomePassed(at'[c], result[c], caller[c], completed[c], threw[c])
    BY <1>1, <1>2, <1>4, <2>1 DEF OutcomePassed
  <2>9. TaskOf(c)'
    BY <1>2, <2>5, <2>6, <2>7, <2>8 DEF TaskOf, CallInv
  <2>10. ExecutorInv'
    BY <1>2, <2>1, <2>4, ExecutorKept
  <2> QED BY <2>4, <2>9, <2>10, CallStep
<1> QED BY <1>5, <1>6

\* Only the first completion counts.
LEMMA FirstStays ==
    ASSUME NEW m \in Seq(Outcomes), NEW o \in Outcomes
    PROVE  /\ Append(m, o) \in Seq(Outcomes) /\ Append(m, o) # <<>>
           /\ m # <<>> => Append(m, o)[1] = m[1]
           /\ m = <<>> => Append(m, o)[1] = o
<1>1. Len(m) \in Nat /\ (m # <<>> => Len(m) >= 1) /\ (m = <<>> => Len(m) = 0)
  OBVIOUS
<1> QED BY <1>1

LEMMA CompleteStep ==
    ASSUME TasksInv, NEW c \in Calls, NEW on, NEW what \in {"value", "error"}, complete(c, on, what)
    PROVE  TasksInv'
<1>1. /\ TaskDomains /\ ExecutorInv
      /\ CallTypes(c, at[c], frame[c], awaited[c], result[c], completed[c], threw[c])
      /\ ChainStands(c, at[c], frame[c]) /\ FutureKept(at[c], awaited[c], completed[c])
      /\ OutcomePassed(at[c], result[c], caller[c], completed[c], threw[c])
  BY CallOf
<1>2. PICK o : o = [from |-> Depth(c) + 1, what |-> what]
  OBVIOUS
<1>3. /\ completed' = [completed EXCEPT ![c] = Append(completed[c], o)]
      /\ frame' = frame /\ result' = result /\ executor' = executor /\ caller' = caller /\ threw' = threw
  BY <1>2 DEF complete
<1>4. Depth(c) \in Nat /\ Depth(c) >= 1 /\ Levels(c) = 1..Depth(c) /\ Depth(c) \in 0..Depth(c)
  BY ChainKinds
<1>5. o \in Outcomes
  BY <1>2, <1>4 DEF Outcomes
<1>6. PICK m : m = Append(completed[c], o)
  OBVIOUS
<1>7. /\ m \in Seq(Outcomes) /\ m # <<>> /\ (completed[c] # <<>> => m[1] = completed[c][1])
      /\ (completed[c] = <<>> => m[1] = o)
  BY <1>1, <1>5, <1>6, FirstStays DEF CallTypes
<1>8. completed'[c] = m /\ DOMAIN completed' = Calls /\ \A d \in Calls : d # c => completed'[d] = completed[d]
  BY <1>1, <1>3, <1>6 DEF TaskDomains
<1>9. Passed(at[c].out, completed[c], threw[c]) => Passed(at[c].out, m, threw[c])
  BY <1>7 DEF Passed
<1>10. OutcomePassed(at[c], result[c], caller[c], m, threw[c])
  BY <1>1, <1>9 DEF OutcomePassed
<1>11. CASE awaited[c].ready
  <2>1. at' = at /\ awaited' = awaited
    BY <1>11 DEF complete
  <2>2. OnlyCall(c)
    BY <1>1, <1>3, <1>8, <2>1 DEF OnlyCall, TaskDomains
  <2>3. CallTypes(c, at[c], frame[c], awaited[c], result[c], m, threw[c])
    BY <1>1, <1>7 DEF CallTypes
  <2>4. FutureKept(at[c], awaited[c], m)
    BY <1>1, <1>7, <1>11 DEF FutureKept
  <2>5. TaskOf(c)'
    BY <1>1, <1>3, <1>8, <1>10, <2>1, <2>3, <2>4 DEF TaskOf, CallInv
  <2>6. ExecutorInv'
    BY <1>1, <1>3, <2>1 DEF ExecutorInv
  <2> QED BY <2>2, <2>5, <2>6, CallStep
<1>12. CASE ~awaited[c].ready
  <2>1. awaited' = [awaited EXCEPT ![c] = [ready |-> TRUE, continuation |-> FALSE, out |-> o]]
    BY <1>2, <1>12 DEF complete
  <2>2. /\ DOMAIN awaited' = Calls /\ \A d \in Calls : d # c => awaited'[d] = awaited[d]
        /\ awaited'[c] \in [ready : BOOLEAN, continuation : BOOLEAN, out : Outcomes]
        /\ awaited'[c].ready /\ ~awaited'[c].continuation /\ awaited'[c].out = o
    BY <1>1, <1>5, <2>1 DEF TaskDomains
  <2>3. completed[c] = <<>> /\ m[1] = o
    BY <1>1, <1>7, <1>12 DEF FutureKept
  <2>4. CASE awaited[c].continuation
    <3>1. /\ DOMAIN at' = Calls /\ \A d \in Calls : d # c => at'[d] = at[d]
          /\ at'[c].pc = "resumed" /\ at'[c].level = Depth(c) /\ at'[c].on = on /\ at'[c].out = o
      <4>1. Move(c, "resumed", Depth(c), on, o)
        BY <1>2, <1>12, <2>4 DEF complete
      <4> QED BY <1>1, <4>1, Moved
    <3>2. at[c].pc = "suspended" /\ at[c].level = Depth(c) /\ threw[c] = {}
      BY <1>1, <2>4 DEF FutureKept, ChainStands, OutcomePassed
    <3>3. OnlyCall(c)
      BY <1>1, <1>3, <1>8, <2>2, <3>1 DEF OnlyCall, TaskDomains
    <3>4. CallTypes(c, at'[c], frame[c], awaited'[c], result[c], m, threw[c])
      BY <1>1, <1>4, <1>5, <1>7, <2>2, <3>1 DEF CallTypes
    <3>5. ChainStands(c, at'[c], frame[c])
      <4>1. \A i \in 1..Depth(c) : frame[c][i].state = "started" /\ frame[c][i].continuation = i - 1
        BY <1>1, <3>2 DEF ChainStands
      <4> QED BY <1>4, <3>1, <4>1 DEF ChainStands
    <3>6. FutureKept(at'[c], awaited'[c], m)
      BY <1>7, <2>2, <2>3, <3>1 DEF FutureKept
    <3>7. OutcomePassed(at'[c], result[c], caller[c], m, threw[c])
      <4>1. Passed(o, m, threw[c])
        BY <1>7, <2>3, <3>2 DEF Passed
      <4> QED BY <1>1, <3>1, <3>2, <4>1 DEF OutcomePassed
    <3>8. TaskOf(c)'
      BY <1>3, <1>8, <3>4, <3>5, <3>6, <3>7 DEF TaskOf, CallInv
    <3>9. ExecutorInv'
      BY <1>3, <3>1, <3>2, <3>3, ExecutorKept
    <3> QED BY <3>3, <3>8, <3>9, CallStep
  <2>5. CASE ~awaited[c].continuation
    <3>1. at' = at
      BY <1>12, <2>5 DEF complete
    <3>2. OnlyCall(c)
      BY <1>1, <1>3, <1>8, <2>2, <3>1 DEF OnlyCall, TaskDomains
    <3>3. CallTypes(c, at[c], frame[c], awaited'[c], result[c], m, threw[c])
      BY <1>1, <1>7, <2>2 DEF CallTypes
    <3>4. FutureKept(at[c], awaited'[c], m)
      BY <1>1, <1>7, <2>2, <2>3, <2>5 DEF FutureKept
    <3>5. TaskOf(c)'
      BY <1>1, <1>3, <1>8, <1>10, <3>1, <3>3, <3>4 DEF TaskOf, CallInv
    <3>6. ExecutorInv'
      BY <1>1, <1>3, <3>1 DEF ExecutorInv
    <3> QED BY <3>2, <3>5, <3>6, CallStep
  <2> QED BY <2>4, <2>5
<1> QED BY <1>11, <1>12

\* The innermost frame of a chain that runs is through, a resume_on on the executor.
Ends(c, got) ==
    /\ at[c].pc \in {"body", "resumed", "executed"} /\ at[c].level >= 1
    /\ Chains[c][at[c].level] = "task" \/ at[c].on = "executor"
    /\ final_suspend(c, at[c].level, got)
Ended(c, got) ==
    /\ DOMAIN at' = Calls /\ \A d \in Calls : d # c => at'[d] = at[d]
    /\ at'[c].pc = "resumed" /\ at'[c].level = at[c].level - 1 /\ at'[c].out = got
    /\ DOMAIN frame' = Calls /\ \A d \in Calls : d # c => frame'[d] = frame[d]
    /\ DOMAIN frame'[c] = Levels(c) /\ ChainStands(c, at'[c], frame'[c])

\* A frame that is through goes on with the one that awaits it; the frames further out stay as they are.
LEMMA FinalSuspended ==
    ASSUME TasksInv, NEW c \in Calls, NEW got, Ends(c, got)
    PROVE  Ended(c, got)
<1>1. /\ TaskDomains /\ CallTypes(c, at[c], frame[c], awaited[c], result[c], completed[c], threw[c])
      /\ ChainStands(c, at[c], frame[c])
  BY CallOf
<1>2. Depth(c) \in Nat /\ Depth(c) >= 1 /\ Levels(c) = 1..Depth(c)
  BY ChainKinds
<1>3. PICK l : l = at[c].level
  OBVIOUS
<1>0. /\ at[c].pc \in {"body", "resumed", "executed"} /\ l >= 1
      /\ Chains[c][l] = "task" \/ at[c].on = "executor"
      /\ final_suspend(c, l, got)
  BY <1>3 DEF Ends
<1>4. /\ l \in 1..Depth(c) /\ DOMAIN frame[c] = Levels(c)
      /\ \A i \in 1..l : frame[c][i].state = "started" /\ frame[c][i].continuation = i - 1
  BY <1>0, <1>1, <1>2, <1>3 DEF CallTypes, ChainStands
<1>5. frame[c][l].continuation = l - 1 /\ l - 1 \in Nat /\ l - 1 # NoCoroutine /\ l \in Nat /\ (l - 1) + 1 = l
  <2>1. l \in 1..l /\ l - 1 \in Nat /\ l - 1 # -1 /\ l \in Nat /\ (l - 1) + 1 = l
    BY <1>2, <1>4
  <2> QED BY <1>4, <2>1 DEF NoCoroutine
<1>6. PICK f : f = [frame[c] EXCEPT ![l].state = "final"]
  OBVIOUS
<1>7. frame' = [frame EXCEPT ![c] = IF l - 1 > 0 /\ Chains[c][l - 1] = "task" THEN task_destroy(f, l) ELSE f]
  BY <1>0, <1>5, <1>6 DEF final_suspend
<1>8. /\ DOMAIN at' = Calls /\ \A d \in Calls : d # c => at'[d] = at[d]
      /\ at'[c].pc = "resumed" /\ at'[c].level = l - 1 /\ at'[c].on = at[c].on /\ at'[c].out = got
  <2>1. Move(c, "resumed", l - 1, at[c].on, got)
    BY <1>0, <1>3, <1>5 DEF final_suspend
  <2> QED BY <1>1, <2>1, Moved
<1>9. DOMAIN f = Levels(c) /\ \A i \in Levels(c) : i < l => f[i] = frame[c][i]
  BY <1>2, <1>4, <1>5, <1>6
<1>10. /\ DOMAIN task_destroy(f, l) = Levels(c)
       /\ \A i \in Levels(c) : i < l => task_destroy(f, l)[i] = frame[c][i]
  <2>1. \A i \in Levels(c) : i < l => ~(i >= l)
    BY <1>2, <1>5
  <2> QED BY <1>9, <2>1 DEF task_destroy
<1>11. /\ DOMAIN frame' = Calls /\ \A d \in Calls : d # c => frame'[d] = frame[d]
       /\ frame'[c] \in {f, task_destroy(f, l)}
  BY <1>1, <1>7 DEF TaskDomains
<1>12. DOMAIN frame'[c] = Levels(c) /\ \A i \in Levels(c) : i < l => frame'[c][i] = frame[c][i]
  BY <1>9, <1>10, <1>11
<1>13. ChainStands(c, at'[c], frame'[c])
  <2>1. \A i \in 1..(l - 1) : frame'[c][i].state = "started" /\ frame'[c][i].continuation = i - 1
    <3>1. \A i \in 1..(l - 1) : i \in 1..l /\ i \in Levels(c) /\ i < l
      BY <1>2, <1>4, <1>5
    <3> QED BY <1>4, <1>12, <3>1
  <2>2. \A i \in Levels(c) : frame'[c][i].state = "destroyed" => l - 1 < i
    <3>1. \A i \in Levels(c) : i \in 1..(l - 1) \/ l - 1 < i
      BY <1>2, <1>5
    <3> QED BY <2>1, <3>1
  <2>3. Chains[c][l] = "resume_on" => at[c].on = "executor"
    BY <1>0
  <2> QED BY <1>5, <1>8, <2>1, <2>2, <2>3 DEF ChainStands
<1> QED BY <1>3, <1>8, <1>11, <1>12, <1>13 DEF Ended

LEMMA FinalStep ==
    ASSUME TasksInv, NEW c \in Calls, NEW got \in Outcomes, Ends(c, got),
           NEW t \in SUBSET Levels(c), threw'[c] = t, DOMAIN threw' = Calls, \A d \in Calls : d # c => threw'[d] = threw[d],
           Passed(got, completed[c], t), \A x \in t : x > at[c].level - 1,
           awaited' = awaited, result' = result, executor' = executor, caller' = caller, completed' = completed
    PROVE  TasksInv'
<1>1. /\ TaskDomains /\ ExecutorInv
      /\ CallTypes(c, at[c], frame[c], awaited[c], result[c], completed[c], threw[c])
      /\ FutureKept(at[c], awaited[c], completed[c])
      /\ OutcomePassed(at[c], result[c], caller[c], completed[c], threw[c])
  BY CallOf
<1>2. /\ DOMAIN at' = Calls /\ \A d \in Calls : d # c => at'[d] = at[d]
      /\ at'[c].pc = "resumed" /\ at'[c].level = at[c].level - 1 /\ at'[c].out = got
      /\ DOMAIN frame' = Calls /\ \A d \in Calls : d # c => frame'[d] = frame[d]
      /\ DOMAIN frame'[c] = Levels(c) /\ ChainStands(c, at'[c], frame'[c])
  BY FinalSuspended DEF Ended
<1>3. at[c].pc \in {"body", "resumed", "executed"} /\ at[c].level >= 1
  BY DEF Ends
<1>4. OnlyCall(c)
  BY <1>1, <1>2 DEF OnlyCall, TaskDomains
<1>5. at'[c].level \in 0..Depth(c)
  <2>1. Depth(c) \in Nat /\ at[c].level \in 0..Depth(c)
    BY <1>1, ChainKinds DEF CallTypes
  <2> QED BY <1>2, <1>3, <2>1
<1>6. CallTypes(c, at'[c], frame'[c], awaited[c], result[c], completed[c], t)
  BY <1>1, <1>2, <1>5 DEF CallTypes
<1>7. FutureKept(at'[c], awaited[c], completed[c])
  BY <1>1, <1>2, <1>3 DEF FutureKept
<1>8. OutcomePassed(at'[c], result[c], caller[c], completed[c], t)
  BY <1>1, <1>2, <1>3 DEF OutcomePassed
<1>9. TaskOf(c)'
  BY <1>2, <1>6, <1>7, <1>8 DEF TaskOf, CallInv
<1>10. ExecutorInv'
  BY <1>2, <1>3, <1>4, ExecutorKept
<1> QED BY <1>4, <1>9, <1>10, CallStep

LEMMA BodyReturnsStep ==
    ASSUME TasksInv, NEW c \in Calls, body_returns(c)
    PROVE  TasksInv'
<1>1. /\ TaskDomains /\ CallTypes(c, at[c], frame[c], awaited[c], result[c], completed[c], threw[c])
      /\ OutcomePassed(at[c], result[c], caller[c], completed[c], threw[c])
  BY CallOf
<1>2. /\ at[c].pc = "resumed" /\ at[c].level > 0 /\ Chains[c][at[c].level] = "task"
      /\ final_suspend(c, at[c].level, at[c].out)
      /\ awaited' = awaited /\ result' = result /\ executor' = executor /\ caller' = caller
      /\ completed' = completed /\ threw' = threw
  BY DEF body_returns
<1>3. at[c].level \in Nat /\ threw[c] \in SUBSET Levels(c) /\ Levels(c) \subseteq Nat /\ at[c].out \in Outcomes
  BY <1>1, ChainKinds DEF CallTypes
<1>4. at[c].level >= 1
  BY <1>2, <1>3
<1>5. Passed(at[c].out, completed[c], threw[c]) /\ \A x \in threw[c] : x > at[c].level
  BY <1>1, <1>2 DEF OutcomePassed
<1>6. \A x \in threw[c] : x > at[c].level - 1
  BY <1>3, <1>5
<1>7. threw'[c] = threw[c] /\ DOMAIN threw' = Calls /\ \A d \in Calls : d # c => threw'[d] = threw[d]
  BY <1>1, <1>2 DEF TaskDomains
<1>8. Ends(c, at[c].out)
  BY <1>2, <1>4 DEF Ends
<1> QED BY <1>2, <1>3, <1>4, <1>5, <1>6, <1>7, <1>8, FinalStep

LEMMA UnhandledStep ==
    ASSUME TasksInv, NEW c \in Calls, unhandled_exception(c)
    PROVE  TasksInv'
<1>1. /\ TaskDomains /\ CallTypes(c, at[c], frame[c], awaited[c], result[c], completed[c], threw[c])
      /\ OutcomePassed(at[c], result[c], caller[c], completed[c], threw[c])
  BY CallOf
<1>2. PICK t : t = threw[c] \cup {at[c].level}
  OBVIOUS
<1>3. /\ at[c].pc \in {"body", "resumed"} /\ at[c].level > 0 /\ Chains[c][at[c].level] = "task"
      /\ threw' = [threw EXCEPT ![c] = t] /\ final_suspend(c, at[c].level, Thrown(at[c].level))
      /\ awaited' = awaited /\ result' = result /\ executor' = executor /\ caller' = caller /\ completed' = completed
  BY <1>2 DEF unhandled_exception
<1>4. /\ at[c].level \in Nat /\ at[c].level \in Levels(c) /\ at[c].level >= 1
      /\ threw[c] \in SUBSET Levels(c) /\ threw[c] \in SUBSET Nat
  <2>1. Depth(c) \in Nat /\ Levels(c) = 1..Depth(c) /\ at[c].level \in 0..Depth(c) /\ threw[c] \in SUBSET Levels(c)
    BY <1>1, ChainKinds DEF CallTypes
  <2> QED BY <1>3, <2>1
<1>5. Thrown(at[c].level) \in Outcomes
  BY <1>4 DEF Thrown, Outcomes
<1>6. \A x \in threw[c] : x > at[c].level
  BY <1>1, <1>3 DEF OutcomePassed
<1>7. Passed(Thrown(at[c].level), completed[c], t)
  <2>1. Min(t) = at[c].level
    BY <1>2, <1>4, <1>6, OutermostThrew
  <2> QED BY <1>2, <2>1 DEF Passed
<1>8. t \in SUBSET Levels(c) /\ \A x \in t : x > at[c].level - 1
  <2>1. \A x \in threw[c] : x > at[c].level - 1
    BY <1>4, <1>6
  <2>2. at[c].level > at[c].level - 1
    BY <1>4
  <2> QED BY <1>2, <1>4, <2>1, <2>2
<1>9. threw'[c] = t /\ DOMAIN threw' = Calls /\ \A d \in Calls : d # c => threw'[d] = threw[d]
  BY <1>1, <1>3 DEF TaskDomains
<1>10. Ends(c, Thrown(at[c].level))
  BY <1>3, <1>4 DEF Ends
<1> QED BY <1>3, <1>4, <1>5, <1>7, <1>8, <1>9, <1>10, FinalStep

LEMMA ResumeOnStep ==
    ASSUME TasksInv, NEW c \in Calls, resume_on(c)
    PROVE  TasksInv'
<1>1. /\ TaskDomains /\ CallTypes(c, at[c], frame[c], awaited[c], result[c], completed[c], threw[c])
      /\ ChainStands(c, at[c], frame[c])
      /\ OutcomePassed(at[c], result[c], caller[c], completed[c], threw[c])
  BY CallOf
<1>2. /\ at[c].pc = "executed" /\ final_suspend(c, at[c].level, at[c].out)
      /\ awaited' = awaited /\ result' = result /\ executor' = executor /\ caller' = caller
      /\ completed' = completed /\ threw' = threw
  BY DEF resume_on
<1>3. at[c].level \in Nat /\ threw[c] \in SUBSET Levels(c) /\ Levels(c) \subseteq Nat /\ at[c].out \in Outcomes
  BY <1>1, ChainKinds DEF CallTypes
<1>4. at[c].level >= 1 /\ at[c].on = "executor"
  BY <1>1, <1>2 DEF ChainStands
<1>5. Passed(at[c].out, completed[c], threw[c]) /\ \A x \in threw[c] : x > at[c].level
  BY <1>1, <1>2 DEF OutcomePassed
<1>6. \A x \in threw[c] : x > at[c].level - 1
  BY <1>3, <1>5
<1>7. threw'[c] = threw[c] /\ DOMAIN threw' = Calls /\ \A d \in Calls : d # c => threw'[d] = threw[d]
  BY <1>1, <1>2 DEF TaskDomains
<1>8. Ends(c, at[c].out)
  BY <1>2, <1>4 DEF Ends
<1> QED BY <1>2, <1>3, <1>4, <1>5, <1>6, <1>7, <1>8, FinalStep

\* A handle that is submitted was not at the executor.
LEMMA ScheduleStep ==
    ASSUME TasksInv, NEW c \in Calls, schedule(c)
    PROVE  TasksInv'
<1>1. /\ TaskDomains /\ ExecutorInv
      /\ CallTypes(c, at[c], frame[c], awaited[c], result[c], completed[c], threw[c])
      /\ ChainStands(c, at[c], frame[c]) /\ FutureKept(at[c], awaited[c], completed[c])
      /\ OutcomePassed(at[c], result[c], caller[c], completed[c], threw[c])
  BY CallOf
<1>2. /\ at[c].pc = "resumed" /\ at[c].level > 0 /\ Chains[c][at[c].level] = "resume_on"
      /\ executor' = Append(executor, c) /\ frame' = frame /\ awaited' = awaited /\ result' = result
      /\ caller' = caller /\ completed' = completed /\ threw' = threw
  BY DEF schedule
<1>3. /\ DOMAIN at' = Calls /\ \A d \in Calls : d # c => at'[d] = at[d]
      /\ at'[c].pc = "scheduled" /\ at'[c].level = at[c].level /\ at'[c].out = at[c].out
  <2>1. Move(c, "scheduled", at[c].level, "none", at[c].out)
    BY DEF schedule
  <2> QED BY <1>1, <2>1, Moved
<1>4. OnlyCall(c)
  BY <1>1, <1>2, <1>3 DEF OnlyCall, TaskDomains
<1>5. at[c].level >= 1
  <2>1. Depth(c) \in Nat /\ at[c].level \in 0..Depth(c)
    BY <1>1, ChainKinds DEF CallTypes
  <2> QED BY <1>2, <2>1
<1>6. CallTypes(c, at'[c], frame[c], awaited[c], result[c], completed[c], threw[c])
  BY <1>1, <1>3 DEF CallTypes
<1>7. ChainStands(c, at'[c], frame[c])
  BY <1>1, <1>2, <1>3, <1>5 DEF ChainStands
<1>8. FutureKept(at'[c], awaited[c], completed[c])
  BY <1>1, <1>2, <1>3 DEF FutureKept
<1>9. OutcomePassed(at'[c], result[c], caller[c], completed[c], threw[c])
  BY <1>1, <1>2, <1>3 DEF OutcomePassed
<1>10. TaskOf(c)'
  BY <1>2, <1>6, <1>7, <1>8, <1>9 DEF TaskOf, CallInv
<1>11. ExecutorInv'
  <2>1. executor \in Seq(Calls) /\ Len(executor) \in Nat /\ DOMAIN executor = 1..Len(executor)
    BY <1>1 DEF ExecutorInv
  <2>2. \A i \in DOMAIN executor : executor[i] # c
    BY <1>1, <1>2 DEF ExecutorInv
  <2>3. PICK n : n = Len(executor) + 1
    OBVIOUS
  <2>4. /\ executor' \in Seq(Calls) /\ n \in DOMAIN executor' /\ executor'[n] = c /\ n \notin DOMAIN executor
        /\ \A i \in DOMAIN executor' : i = n \/ i \in DOMAIN executor
        /\ \A i \in DOMAIN executor : i \in DOMAIN executor' /\ executor'[i] = executor[i]
    BY <1>2, <2>1, <2>3
  <2>5. \A i, j \in DOMAIN executor' : executor'[i] = executor'[j] => i = j
    <3>1. \A i, j \in DOMAIN executor : executor[i] = executor[j] => i = j
      BY <1>1 DEF ExecutorInv
    <3> QED BY <2>2, <2>4, <3>1
  <2>6. ASSUME NEW d \in Calls PROVE at'[d].pc = "scheduled" <=> \E i \in DOMAIN executor' : executor'[i] = d
    <3>1. CASE d = c
      BY <1>3, <2>4, <3>1
    <3>2. CASE d # c
      <4>1. at[d].pc = "scheduled" <=> \E i \in DOMAIN executor : executor[i] = d
        BY <1>1 DEF ExecutorInv
      <4>2. (\E i \in DOMAIN executor' : executor'[i] = d) <=> \E i \in DOMAIN executor : executor[i] = d
        BY <2>4, <3>2
      <4> QED BY <1>3, <3>2, <4>1, <4>2
    <3> QED BY <3>1, <3>2
  <2> QED BY <2>4, <2>5, <2>6 DEF ExecutorInv
<1> QED BY <1>4, <1>10, <1>11, CallStep

\* The handle that is taken is not at the executor again.
LEMMA ExecuteStep ==
    ASSUME TasksInv, execute
    PROVE  TasksInv'
<1>1. PICK q : q = executor
  OBVIOUS
<1>2. /\ q \in Seq(Calls) /\ (\A i, j \in DOMAIN q : q[i] = q[j] => i = j)
      /\ \A d \in Calls : at[d].pc = "scheduled" <=> \E i \in DOMAIN q : q[i] = d
  BY <1>1 DEF TasksInv, ExecutorInv
<1>3. PICK c : c = Head(q)
  OBVIOUS
<1>4. /\ q # <<>> /\ Move(c, "executed", at[c].level, "executor", at[c].out) /\ executor' = Tail(q)
      /\ frame' = frame /\ awaited' = awaited /\ result' = result
      /\ caller' = caller /\ completed' = completed /\ threw' = threw
  BY <1>1, <1>3 DEF execute
<1>5. Len(q) \in Nat /\ Len(q) >= 1 /\ DOMAIN q = 1..Len(q) /\ c = q[1] /\ 1 \in DOMAIN q /\ c \in Calls
  BY <1>2, <1>3, <1>4
<1>6. at[c].pc = "scheduled"
  BY <1>2, <1>5
<1>7. /\ TaskDomains /\ CallTypes(c, at[c], frame[c], awaited[c], result[c], completed[c], threw[c])
      /\ ChainStands(c, at[c], frame[c]) /\ FutureKept(at[c], awaited[c], completed[c])
      /\ OutcomePassed(at[c], result[c], caller[c], completed[c], threw[c])
  BY <1>5, CallOf
<1>8. /\ DOMAIN at' = Calls /\ \A d \in Calls : d # c => at'[d] = at[d]
      /\ at'[c].pc = "executed" /\ at'[c].level = at[c].level /\ at'[c].on = "executor" /\ at'[c].out = at[c].out
  BY <1>4, <1>5, <1>7, Moved
<1>9. OnlyCall(c)
  BY <1>4, <1>7, <1>8 DEF OnlyCall, TaskDomains
<1>10. CallTypes(c, at'[c], frame[c], awaited[c], result[c], completed[c], threw[c])
  BY <1>7, <1>8 DEF CallTypes
<1>11. ChainStands(c, at'[c], frame[c])
  BY <1>6, <1>7, <1>8 DEF ChainStands
<1>12. FutureKept(at'[c], awaited[c], completed[c])
  BY <1>6, <1>7, <1>8 DEF FutureKept
<1>13. OutcomePassed(at'[c], result[c], caller[c], completed[c], threw[c])
  BY <1>6, <1>7, <1>8 DEF OutcomePassed
<1>14. TaskOf(c)'
  BY <1>4, <1>10, <1>11, <1>12, <1>13 DEF TaskOf, CallInv
<1>15. ExecutorInv'
  <2>1. PICK p : p = Tail(q)
    OBVIOUS
  <2>2. /\ p \in Seq(Calls) /\ DOMAIN p = 1..(Len(q) - 1)
        /\ \A i \in DOMAIN p : i + 1 \in DOMAIN q /\ i + 1 # 1 /\ p[i] = q[i + 1]
    BY <1>2, <1>4, <1>5, <2>1
  <2>3. \A i \in DOMAIN q : i # 1 => i - 1 \in DOMAIN p /\ (i - 1) + 1 = i
    BY <1>5, <2>2
  <2>4. \A i \in DOMAIN p : p[i] # c
    BY <1>2, <1>5, <2>2
  <2>5. \A i, j \in DOMAIN p : p[i] = p[j] => i = j
    <3>1. \A i, j \in DOMAIN p : i + 1 = j + 1 => i = j
      BY <1>5, <2>2
    <3> QED BY <1>2, <2>2, <3>1
  <2>6. ASSUME NEW d \in Calls PROVE at'[d].pc = "scheduled" <=> \E i \in DOMAIN p : p[i] = d
    <3>1. CASE d = c
      BY <1>8, <2>4, <3>1
    <3>2. CASE d # c
      <4>1. at[d].pc = "scheduled" <=> \E i \in DOMAIN q : q[i] = d
        BY <1>2
      <4>2. ASSUME NEW i \in DOMAIN q, q[i] = d PROVE \E j \in DOMAIN p : p[j] = d
        <5>1. i # 1
          BY <1>5, <3>2, <4>2
        <5>2. i - 1 \in DOMAIN p /\ p[i - 1] = d
          BY <2>2, <2>3, <4>2, <5>1
        <5> QED BY <5>2
      <4>3. ASSUME NEW j \in DOMAIN p, p[j] = d PROVE \E i \in DOMAIN q : q[i] = d
        BY <2>2, <4>3
      <4> QED BY <1>8, <3>2, <4>1, <4>2, <4>3
    <3> QED BY <3>1, <3>2
  <2> QED BY <1>4, <2>1, <2>2, <2>5, <2>6 DEF ExecutorInv
<1> QED BY <1>5, <1>9, <1>14, <1>15, CallStep

\* The promise is set once, with what the chain passed on.
LEMMA RunDetachedStep ==
    ASSUME TasksInv, NEW c \in Calls, run_detached(c)
    PROVE  TasksInv'
<1>1. /\ TaskDomains /\ ExecutorInv
      /\ CallTypes(c, at[c], frame[c], awaited[c], result[c], completed[c], threw[c])
      /\ ChainStands(c, at[c], frame[c]) /\ FutureKept(at[c], awaited[c], completed[c])
      /\ OutcomePassed(at[c], result[c], caller[c], completed[c], threw[c])
  BY CallOf
<1>2. /\ at[c].pc = "resumed" /\ at[c].level = 0
      /\ frame' = [frame EXCEPT ![c] = task_destroy(frame[c], 1)]
      /\ result' = [result EXCEPT ![c] = IF result[c].ready THEN result[c] ELSE [ready |-> TRUE, out |-> at[c].out]]
      /\ awaited' = awaited /\ executor' = executor /\ caller' = caller /\ completed' = completed /\ threw' = threw
  BY DEF run_detached
<1>3. /\ DOMAIN at' = Calls /\ \A d \in Calls : d # c => at'[d] = at[d]
      /\ at'[c].pc = "ended" /\ at'[c].level = 0 /\ at'[c].out = at[c].out
  <2>1. Move(c, "ended", 0, "none", at[c].out)
    BY DEF run_detached
  <2> QED BY <1>1, <2>1, Moved
<1>4. ~result[c].ready
  BY <1>1, <1>2 DEF OutcomePassed
<1>5. at[c].out \in Outcomes /\ at[c].level \in 0..Depth(c)
  BY <1>1 DEF CallTypes
<1>6. /\ DOMAIN result' = Calls /\ \A d \in Calls : d # c => result'[d] = result[d]
      /\ result'[c] \in [ready : BOOLEAN, out : Outcomes] /\ result'[c].ready /\ result'[c].out = at[c].out
  <2>1. result'[c] = [ready |-> TRUE, out |-> at[c].out]
    BY <1>1, <1>2, <1>4 DEF TaskDomains
  <2>2. DOMAIN result' = Calls /\ \A d \in Calls : d # c => result'[d] = result[d]
    BY <1>1, <1>2 DEF TaskDomains
  <2> QED BY <1>5, <2>1, <2>2
<1>7. DOMAIN frame' = Calls /\ DOMAIN frame'[c] = Levels(c) /\ \A d \in Calls : d # c => frame'[d] = frame[d]
  <2>1. DOMAIN task_destroy(frame[c], 1) = Levels(c)
    BY <1>1 DEF CallTypes, task_destroy
  <2> QED BY <1>1, <1>2, <2>1 DEF TaskDomains
<1>8. OnlyCall(c)
  BY <1>1, <1>2, <1>3, <1>6, <1>7 DEF OnlyCall, TaskDomains
<1>9. CallTypes(c, at'[c], frame'[c], awaited[c], result'[c], completed[c], threw[c])
  BY <1>1, <1>2, <1>3, <1>5, <1>6, <1>7 DEF CallTypes
<1>10. ChainStands(c, at'[c], frame'[c])
  BY <1>3 DEF ChainStands
<1>11. FutureKept(at'[c], awaited[c], completed[c])
  BY <1>1, <1>2, <1>3 DEF FutureKept
<1>12. OutcomePassed(at'[c], result'[c], caller[c], completed[c], threw[c])
  BY <1>1, <1>2, <1>3, <1>6 DEF OutcomePassed
<1>13. TaskOf(c)'
  BY <1>2, <1>9, <1>10, <1>11, <1>12 DEF TaskOf, CallInv
<1>14. ExecutorInv'
  BY <1>2, <1>3, <1>8, ExecutorKept
<1> QED BY <1>8, <1>13, <1>14, CallStep

\* The calling thread blocks once the chain is off it, and takes a result that is there.
LEMMA CallerStep ==
    ASSUME TasksInv, NEW c \in Calls, start(c) \/ get(c)
    PROVE  TasksInv'
<1>1. /\ TaskDomains /\ ExecutorInv
      /\ CallTypes(c, at[c], frame[c], awaited[c], result[c], completed[c], threw[c])
      /\ ChainStands(c, at[c], frame[c]) /\ FutureKept(at[c], awaited[c], completed[c])
      /\ OutcomePassed(at[c], result[c], caller[c], completed[c], threw[c])
  BY CallOf
<1>2. /\ at' = at /\ frame' = frame /\ awaited' = awaited /\ result' = result /\ executor' = executor
      /\ completed' = completed /\ threw' = threw
      /\ \/ caller' = [caller EXCEPT ![c] = "blocked"]
         \/ result[c].ready /\ caller' = [caller EXCEPT ![c] = "returned"]
  BY DEF start, get
<1>3. /\ DOMAIN caller' = Calls /\ \A d \in Calls : d # c => caller'[d] = caller[d]
      /\ caller'[c] = "blocked" \/ (caller'[c] = "returned" /\ result[c].ready)
  BY <1>1, <1>2 DEF TaskDomains
<1>4. OnlyCall(c)
  BY <1>1, <1>2, <1>3 DEF OnlyCall, TaskDomains
<1>5. OutcomePassed(at[c], result[c], caller'[c], completed[c], threw[c])
  BY <1>1, <1>3 DEF OutcomePassed
<1>6. TaskOf(c)'
  BY <1>1, <1>2, <1>5 DEF TaskOf, CallInv
<1>7. ExecutorInv'
  BY <1>1, <1>2 DEF ExecutorInv
<1> QED BY <1>4, <1>6, <1>7, CallStep

LEMMA TasksInitInv == TasksInit => TasksInv
<1> SUFFICES ASSUME TasksInit PROVE TasksInv
  OBVIOUS
<1>1. TaskDomains
  BY DEF TasksInit, TaskDomains
<1>2. ExecutorInv
  <2>1. executor = <<>> /\ executor \in Seq(Calls) /\ DOMAIN executor = {}
    BY DEF TasksInit
  <2>2. \A c \in Calls : at[c].pc = "none"
    BY DEF TasksInit
  <2> QED BY <2>1, <2>2 DEF ExecutorInv
<1>3. ASSUME NEW c \in Calls PROVE TaskOf(c)
  <2>1. /\ at[c].pc = "none" /\ at[c].level = 0 /\ at[c].out = NoOutcome
        /\ DOMAIN frame[c] = Levels(c) /\ \A i \in Levels(c) : frame[c][i].state = "none"
    BY DEF TasksInit
  <2>2. /\ awaited[c] = [ready |-> FALSE, continuation |-> FALSE, out |-> NoOutcome]
        /\ result[c] = [ready |-> FALSE, out |-> NoOutcome]
        /\ caller[c] = "idle" /\ completed[c] = <<>> /\ threw[c] = {}
    BY DEF TasksInit
  <2>3. NoOutcome \in Outcomes
    BY DEF NoOutcome, Outcomes
  <2>4. CallTypes(c, at[c], frame[c], awaited[c], result[c], completed[c], threw[c])
    <3>1. 0 \in 0..Depth(c)
      BY ChainKinds
    <3>2. completed[c] \in Seq(Outcomes)
      BY <2>2
    <3>3. /\ awaited[c] \in [ready : BOOLEAN, continuation : BOOLEAN, out : Outcomes]
          /\ result[c] \in [ready : BOOLEAN, out : Outcomes]
      BY <2>2, <2>3
    <3> QED BY <2>1, <2>2, <2>3, <3>1, <3>2, <3>3 DEF CallTypes
  <2>5. ChainStands(c, at[c], frame[c])
    BY <2>1 DEF ChainStands
  <2>6. FutureKept(at[c], awaited[c], completed[c])
    BY <2>1, <2>2 DEF FutureKept
  <2>7. OutcomePassed(at[c], result[c], caller[c], completed[c], threw[c])
    BY <2>1, <2>2 DEF OutcomePassed
  <2> QED BY <2>4, <2>5, <2>6, <2>7 DEF TaskOf, CallInv
<1> QED BY <1>1, <1>2, <1>3 DEF TasksInv

LEMMA TasksStep == TasksInv /\ [TasksNext]_taskVars => TasksInv'
<1> SUFFICES ASSUME TasksInv, [TasksNext]_taskVars PROVE TasksInv'
  OBVIOUS
<1>1. CASE execute
  BY <1>1, ExecuteStep
<1>2. ASSUME NEW c \in Calls, sync_wait(c) \/ co_await(c) \/ await_suspend(c) PROVE TasksInv'
  BY <1>2, SyncWaitStep, CoAwaitStep, AwaitStep
<1>3. ASSUME NEW c \in Calls, body_returns(c) \/ unhandled_exception(c) \/ schedule(c) \/ resume_on(c) PROVE TasksInv'
  BY <1>3, BodyReturnsStep, UnhandledStep, ScheduleStep, ResumeOnStep
<1>4. ASSUME NEW c \in Calls, run_detached(c) \/ start(c) \/ get(c) PROVE TasksInv'
  BY <1>4, RunDetachedStep, CallerStep
<1>5. ASSUME NEW c \in Calls, NEW t \in Completers, NEW what \in {"value", "error"}, complete(c, t, what) PROVE TasksInv'
  BY <1>5, CompleteStep
<1>6. CASE UNCHANGED taskVars
  BY <1>6 DEF taskVars, TasksInv, TaskDomains, ExecutorInv, TaskOf
<1> QED BY <1>1, <1>2, <1>3, <1>4, <1>5, <1>6 DEF TasksNext

LEMMA InvPassed == TasksInv => ResultsPassed
<1> SUFFICES ASSUME TasksInv, NEW c \in Calls
             PROVE  /\ at[c].pc = "suspended" => ~awaited[c].ready
                    /\ at[c].pc # "stopped"
                    /\ at[c].pc = "scheduled" <=> \E i \in DOMAIN executor : executor[i] = c
                    /\ result[c].ready => result[c].out = Expected(c)
                    /\ caller[c] = "returned" => result[c].ready
                    /\ (at[c].pc = "resumed" /\ at[c].level < Depth(c) /\ Chains[c][at[c].level + 1] = "resume_on")
                          => at[c].on = "executor"
                    /\ \A i \in Levels(c) :
                          frame[c][i].state = "destroyed" => at[c].pc = "ended" \/ at[c].level < i
  BY DEF ResultsPassed
<1>1. /\ ExecutorInv /\ CallTypes(c, at[c], frame[c], awaited[c], result[c], completed[c], threw[c])
      /\ ChainStands(c, at[c], frame[c]) /\ FutureKept(at[c], awaited[c], completed[c])
      /\ OutcomePassed(at[c], result[c], caller[c], completed[c], threw[c])
  BY CallOf
<1>2. (at[c].pc = "suspended" => ~awaited[c].ready) /\ at[c].pc # "stopped"
  BY <1>1 DEF FutureKept, CallTypes
<1>3. at[c].pc = "scheduled" <=> \E i \in DOMAIN executor : executor[i] = c
  BY <1>1 DEF ExecutorInv
<1>4. ASSUME result[c].ready PROVE result[c].out = Expected(c)
  <2>1. Passed(at[c].out, completed[c], threw[c]) /\ result[c].out = at[c].out
    BY <1>1, <1>4 DEF OutcomePassed
  <2> QED BY <2>1 DEF Passed, Expected
<1>5. caller[c] = "returned" => result[c].ready
  BY <1>1 DEF OutcomePassed
<1>6. /\ (at[c].pc = "resumed" /\ at[c].level < Depth(c) /\ Chains[c][at[c].level + 1] = "resume_on")
            => at[c].on = "executor"
      /\ \A i \in Levels(c) : frame[c][i].state = "destroyed" => at[c].pc = "ended" \/ at[c].level < i
  BY <1>1 DEF ChainStands
<1> QED BY <1>2, <1>3, <1>4, <1>5, <1>6

\* For every number of calls, every chain of tasks and resume_on (task.hpp, resume_on.hpp), every set of
\* completing threads and every number of completions: a chain waits only for a future that is not
\* complete or at the executor, its caller gets what the outermost body that threw threw or else the first
\* completion, a body behind a resume_on goes on on the executor, and no frame goes while it is to run.
THEOREM ResultsArePassed == TasksSpec => []ResultsPassed
<1> QED BY TasksInitInv, TasksStep, InvPassed, PTL DEF TasksSpec

-----------------------------------------------------------------------------
(* InputLine.  The line and the cursor by the two texts of the editor that *)
(* the user has in mind.                                                   *)

LineSpec == LineInit /\ [][LineNext]_lineVars

Text == Seq(Chars)
LineTypes ==
    /\ mind \in Text \X Text /\ strPos \in Nat /\ cursorPos \in Nat /\ insertMode \in BOOLEAN
    /\ history \in Seq(Text) /\ tempStr \in Text /\ historyPos \in Nat
LineInv == LineTypes /\ EditsAsMeant

\* Texts are equal when they are so place by place.
LEMMA SameText ==
    ASSUME NEW s \in Text, NEW t \in Text, Len(s) = Len(t), \A i \in 1..Len(s) : s[i] = t[i]
    PROVE  s = t
BY SeqEqual DEF Text

\* A text in two parts.
LEMMA Parts ==
    ASSUME NEW b \in Text, NEW a \in Text
    PROVE  /\ b \o a \in Text /\ Len(b) \in Nat /\ Len(a) \in Nat /\ Len(b \o a) = Len(b) + Len(a)
           /\ \A i \in 1..(Len(b) + Len(a)) : (b \o a)[i] = IF i <= Len(b) THEN b[i] ELSE a[i - Len(b)]
BY DEF Text

\* What is cut out of a text.
LEMMA Cut ==
    ASSUME NEW s \in Text, NEW i \in Nat, NEW j \in Nat, i >= 1, j <= Len(s), i <= j + 1
    PROVE  /\ SubSeq(s, i, j) \in Text /\ Len(SubSeq(s, i, j)) = j - i + 1
           /\ \A k \in 1..(j - i + 1) : SubSeq(s, i, j)[k] = s[i + k - 1]
BY DEF Text

\* Its first characters and its last ones.
LEMMA Beginning ==
    ASSUME NEW s \in Text, NEW n \in Nat, n <= Len(s)
    PROVE  SubSeq(s, 1, n) \in Text /\ Len(SubSeq(s, 1, n)) = n /\ \A k \in 1..n : SubSeq(s, 1, n)[k] = s[k]
<1>1. PICK x : x = SubSeq(s, 1, n)
  OBVIOUS
<1>2. Len(s) \in Nat /\ 1 \in Nat /\ 1 >= 1 /\ 1 <= n + 1
  BY DEF Text
<1>3. x \in Text /\ Len(x) = n - 1 + 1 /\ \A k \in 1..(n - 1 + 1) : x[k] = s[1 + k - 1]
  BY <1>1, <1>2, Cut
<1>4. n - 1 + 1 = n /\ \A k \in 1..n : 1 + k - 1 = k
  OBVIOUS
<1> QED BY <1>1, <1>3, <1>4

LEMMA Ending ==
    ASSUME NEW s \in Text, NEW n \in Nat, n <= Len(s)
    PROVE  /\ SubSeq(s, n + 1, Len(s)) \in Text /\ Len(SubSeq(s, n + 1, Len(s))) = Len(s) - n
           /\ \A k \in 1..(Len(s) - n) : SubSeq(s, n + 1, Len(s))[k] = s[n + k]
<1>1. PICK x : x = SubSeq(s, n + 1, Len(s))
  OBVIOUS
<1>2. Len(s) \in Nat /\ n + 1 \in Nat /\ n + 1 >= 1 /\ Len(s) <= Len(s) /\ n + 1 <= Len(s) + 1
  BY DEF Text
<1>3. /\ x \in Text /\ Len(x) = Len(s) - (n + 1) + 1
      /\ \A k \in 1..(Len(s) - (n + 1) + 1) : x[k] = s[(n + 1) + k - 1]
  BY <1>1, <1>2, Cut
<1>4. Len(s) - (n + 1) + 1 = Len(s) - n /\ \A k \in 1..(Len(s) - n) : (n + 1) + k - 1 = n + k
  BY <1>2
<1> QED BY <1>1, <1>3, <1>4

\* Front and Tail of a text that is not empty.
LEMMA FrontAndTail ==
    ASSUME NEW s \in Text, s # <<>>
    PROVE  /\ Len(s) \in Nat /\ Len(s) >= 1 /\ Head(s) = s[1] /\ Last(s) = s[Len(s)] /\ Head(s) \in Chars /\ Last(s) \in Chars
           /\ Front(s) \in Text /\ Len(Front(s)) = Len(s) - 1 /\ (\A i \in 1..(Len(s) - 1) : Front(s)[i] = s[i])
           /\ Tail(s) \in Text /\ Len(Tail(s)) = Len(s) - 1 /\ \A i \in 1..(Len(s) - 1) : Tail(s)[i] = s[i + 1]
<1>1. Len(s) \in Nat /\ Len(s) >= 1 /\ Head(s) = s[1] /\ s[1] \in Chars /\ s[Len(s)] \in Chars
  BY DEF Text
<1>2. Tail(s) \in Text /\ Len(Tail(s)) = Len(s) - 1 /\ \A i \in 1..(Len(s) - 1) : Tail(s)[i] = s[i + 1]
  BY <1>1 DEF Text
<1>3. PICK n : n = Len(s) - 1
  OBVIOUS
<1>4. n \in Nat /\ n <= Len(s)
  BY <1>1, <1>3
<1>5. Front(s) \in Text /\ Len(Front(s)) = n /\ \A i \in 1..n : Front(s)[i] = s[i]
  BY <1>3, <1>4, Beginning DEF Front
<1> QED BY <1>1, <1>2, <1>3, <1>5 DEF Last

\* Editing a text b \o a between its two parts.
LEMMA RemovedAfter ==
    ASSUME NEW b \in Text, NEW a \in Text, a # <<>>
    PROVE  RemoveAt(b \o a, Len(b) + 1) = b \o Tail(a)
<1>1. PICK s : s = b \o a
  OBVIOUS
<1>2. PICK n : n = Len(b)
  OBVIOUS
<1>3. PICK m : m = Len(a)
  OBVIOUS
<1>4. /\ s \in Text /\ n \in Nat /\ m \in Nat /\ Len(s) = n + m
      /\ \A i \in 1..(n + m) : s[i] = IF i <= n THEN b[i] ELSE a[i - n]
  BY <1>1, <1>2, <1>3, Parts
<1>5. m >= 1 /\ Tail(a) \in Text /\ Len(Tail(a)) = m - 1 /\ \A i \in 1..(m - 1) : Tail(a)[i] = a[i + 1]
  BY <1>3, FrontAndTail
<1>6. PICK x : x = SubSeq(s, 1, n)
  OBVIOUS
<1>7. x \in Text /\ Len(x) = n /\ \A k \in 1..n : x[k] = s[k]
  <2>1. n <= Len(s)
    BY <1>4
  <2> QED BY <1>4, <1>6, <2>1, Beginning
<1>8. x = b
  <2>1. \A k \in 1..n : x[k] = b[k]
    <3>1. \A k \in 1..n : k \in 1..(n + m) /\ k <= n
      BY <1>4
    <3> QED BY <1>4, <1>7, <3>1
  <2> QED BY <1>2, <1>7, <2>1, SameText
<1>9. PICK y : y = SubSeq(s, n + 2, Len(s))
  OBVIOUS
<1>10. y \in Text /\ Len(y) = m - 1 /\ \A k \in 1..(m - 1) : y[k] = s[n + 1 + k]
  <2>1. n + 1 \in Nat /\ n + 1 <= Len(s) /\ n + 2 = (n + 1) + 1 /\ Len(s) - (n + 1) = m - 1
    BY <1>4, <1>5
  <2>2. /\ SubSeq(s, (n + 1) + 1, Len(s)) \in Text /\ Len(SubSeq(s, (n + 1) + 1, Len(s))) = Len(s) - (n + 1)
        /\ \A k \in 1..(Len(s) - (n + 1)) : SubSeq(s, (n + 1) + 1, Len(s))[k] = s[(n + 1) + k]
    BY <1>4, <2>1, Ending
  <2> QED BY <1>9, <2>1, <2>2
<1>11. y = Tail(a)
  <2>1. ASSUME NEW k \in 1..(m - 1) PROVE y[k] = Tail(a)[k]
    <3>1. n + 1 + k \in 1..(n + m) /\ ~(n + 1 + k <= n) /\ n + 1 + k - n = k + 1
      BY <1>4
    <3> QED BY <1>4, <1>5, <1>10, <3>1
  <2> QED BY <1>5, <1>10, <2>1, SameText
<1>12. RemoveAt(s, n + 1) = x \o y
  <2>1. (n + 1) - 1 = n /\ (n + 1) + 1 = n + 2
    BY <1>4
  <2> QED BY <1>6, <1>9, <2>1 DEF RemoveAt
<1> QED BY <1>1, <1>2, <1>8, <1>11, <1>12

\* A character before a text, and behind one.
LEMMA OneBefore ==
    ASSUME NEW c \in Chars, NEW t \in Text
    PROVE  /\ <<c>> \o t \in Text /\ Len(<<c>> \o t) = Len(t) + 1 /\ Len(t) \in Nat
           /\ \A i \in 1..(Len(t) + 1) : (<<c>> \o t)[i] = IF i = 1 THEN c ELSE t[i - 1]
BY DEF Text

LEMMA OneBehind ==
    ASSUME NEW c \in Chars, NEW t \in Text
    PROVE  /\ Append(t, c) \in Text /\ Append(t, c) = t \o <<c>> /\ Len(t) \in Nat /\ Len(Append(t, c)) = Len(t) + 1
           /\ \A i \in 1..(Len(t) + 1) : Append(t, c)[i] = IF i = Len(t) + 1 THEN c ELSE t[i]
<1>1. t \in Seq(Chars)
  BY DEF Text
<1>2. Append(t, c) = t \o <<c>>
  BY <1>1, AppendIsConcat
<1> QED BY <1>1, <1>2 DEF Text

\* Joining three texts.
LEMMA Three ==
    ASSUME NEW b \in Text, NEW c \in Chars, NEW a \in Text
    PROVE  Append(b, c) \o a = b \o (<<c>> \o a)
<1>1. b \in Seq(Chars) /\ <<c>> \in Seq(Chars) /\ a \in Seq(Chars)
  BY DEF Text
<1>2. (b \o <<c>>) \o a = b \o (<<c>> \o a)
  BY <1>1, ConcatAssociative
<1> QED BY <1>2, OneBehind

\* A text is its front and its last character, or its first character and its tail.
LEMMA FrontAndLast ==
    ASSUME NEW b \in Text, b # <<>>
    PROVE  Append(Front(b), Last(b)) = b
<1>1. PICK f : f = Front(b)
  OBVIOUS
<1>2. PICK c \in Chars : c = Last(b)
  BY FrontAndTail
<1>3. PICK n : n = Len(b)
  OBVIOUS
<1>4. n \in Nat /\ n >= 1 /\ c = b[n] /\ f \in Text /\ Len(f) = n - 1 /\ \A i \in 1..(n - 1) : f[i] = b[i]
  BY <1>1, <1>2, <1>3, FrontAndTail
<1>5. PICK x : x = Append(f, c)
  OBVIOUS
<1>6. /\ x \in Text /\ Len(x) = Len(f) + 1
      /\ \A i \in 1..(Len(f) + 1) : x[i] = IF i = Len(f) + 1 THEN c ELSE f[i]
  BY <1>4, <1>5, OneBehind
<1>7. Len(f) + 1 = n
  BY <1>4
<1>8. \A i \in 1..n : i # n => i \in 1..(n - 1)
  BY <1>4
<1>9. \A i \in 1..n : x[i] = b[i]
  BY <1>4, <1>6, <1>7, <1>8
<1> QED BY <1>1, <1>2, <1>3, <1>5, <1>6, <1>7, <1>9, SameText

LEMMA HeadAndTail ==
    ASSUME NEW a \in Text, a # <<>>
    PROVE  <<Head(a)>> \o Tail(a) = a
<1>1. PICK t : t = Tail(a)
  OBVIOUS
<1>2. PICK c \in Chars : c = Head(a)
  BY FrontAndTail
<1>3. PICK n : n = Len(a)
  OBVIOUS
<1>4. n \in Nat /\ n >= 1 /\ c = a[1] /\ t \in Text /\ Len(t) = n - 1 /\ \A i \in 1..(n - 1) : t[i] = a[i + 1]
  BY <1>1, <1>2, <1>3, FrontAndTail
<1>5. PICK x : x = <<c>> \o t
  OBVIOUS
<1>6. /\ x \in Text /\ Len(x) = Len(t) + 1
      /\ \A i \in 1..(Len(t) + 1) : x[i] = IF i = 1 THEN c ELSE t[i - 1]
  BY <1>4, <1>5, OneBefore
<1>7. Len(t) + 1 = n
  BY <1>4
<1>8. \A i \in 1..n : i # 1 => i - 1 \in 1..(n - 1) /\ (i - 1) + 1 = i
  BY <1>4
<1>9. \A i \in 1..n : x[i] = a[i]
  BY <1>4, <1>6, <1>7, <1>8
<1> QED BY <1>1, <1>2, <1>3, <1>5, <1>6, <1>7, <1>9, SameText

\* The character in front of the cursor goes over it, and the one behind it.
LEMMA MovedLeft ==
    ASSUME NEW b \in Text, NEW a \in Text, b # <<>>
    PROVE  /\ Front(b) \o (<<Last(b)>> \o a) = b \o a /\ <<Last(b)>> \o a \in Text
           /\ Front(b) \in Text /\ Len(Front(b)) = Len(b) - 1 /\ Len(b) >= 1
<1>1. Last(b) \in Chars /\ Front(b) \in Text /\ Len(Front(b)) = Len(b) - 1 /\ Len(b) >= 1
  BY FrontAndTail
<1>2. Append(Front(b), Last(b)) \o a = Front(b) \o (<<Last(b)>> \o a)
  BY <1>1, Three
<1>3. <<Last(b)>> \o a \in Text
  BY <1>1, OneBefore
<1> QED BY <1>1, <1>2, <1>3, FrontAndLast

LEMMA MovedRight ==
    ASSUME NEW b \in Text, NEW a \in Text, a # <<>>
    PROVE  /\ Append(b, Head(a)) \o Tail(a) = b \o a /\ Tail(a) \in Text
           /\ Append(b, Head(a)) \in Text /\ Len(Append(b, Head(a))) = Len(b) + 1 /\ Len(a) >= 1
<1>1. Head(a) \in Chars /\ Tail(a) \in Text /\ Len(a) >= 1
  BY FrontAndTail
<1>2. Append(b, Head(a)) \o Tail(a) = b \o (<<Head(a)>> \o Tail(a))
  BY <1>1, Three
<1>3. Append(b, Head(a)) \in Text /\ Len(Append(b, Head(a))) = Len(b) + 1
  BY <1>1, OneBehind
<1> QED BY <1>1, <1>2, <1>3, HeadAndTail

\* The character in front of the cursor is removed.
LEMMA RemovedBefore ==
    ASSUME NEW b \in Text, NEW a \in Text, b # <<>>
    PROVE  RemoveAt(b \o a, Len(b)) = Front(b) \o a
<1>1. PICK f : f = Front(b)
  OBVIOUS
<1>2. PICK g : g = <<Last(b)>> \o a
  OBVIOUS
<1>3. f \in Text /\ g \in Text /\ f \o g = b \o a /\ Len(f) = Len(b) - 1 /\ Len(b) >= 1 /\ Len(b) \in Nat
  BY <1>1, <1>2, MovedLeft, Parts
<1>4. Last(b) \in Chars
  BY FrontAndTail
<1>5. g # <<>> /\ Tail(g) = a
  <2>1. g \in Text /\ Len(g) = Len(a) + 1 /\ Len(a) \in Nat /\ \A i \in 1..(Len(a) + 1) : g[i] = IF i = 1 THEN Last(b) ELSE a[i - 1]
    BY <1>2, <1>4, OneBefore
  <2>2. g # <<>>
    BY <2>1
  <2>3. Tail(g) \in Text /\ Len(Tail(g)) = Len(g) - 1 /\ \A i \in 1..(Len(g) - 1) : Tail(g)[i] = g[i + 1]
    BY <2>1, <2>2, FrontAndTail
  <2>4. Len(g) - 1 = Len(a)
    BY <2>1
  <2>5. \A i \in 1..Len(a) : i + 1 \in 1..(Len(a) + 1) /\ i + 1 # 1 /\ (i + 1) - 1 = i
    BY <2>1
  <2>6. \A i \in 1..Len(a) : Tail(g)[i] = a[i]
    BY <2>1, <2>3, <2>4, <2>5
  <2> QED BY <2>2, <2>3, <2>4, <2>6, SameText
<1>6. RemoveAt(f \o g, Len(f) + 1) = f \o Tail(g)
  BY <1>3, <1>5, RemovedAfter
<1>7. Len(f) + 1 = Len(b)
  BY <1>3
<1> QED BY <1>1, <1>3, <1>5, <1>6, <1>7

\* The two parts are what the text holds up to the cursor and from it.
LEMMA TwoParts ==
    ASSUME NEW b \in Text, NEW a \in Text
    PROVE  SubSeq(b \o a, 1, Len(b)) = b /\ SubSeq(b \o a, Len(b) + 1, Len(b \o a)) = a
<1>1. PICK s : s = b \o a
  OBVIOUS
<1>2. PICK n : n = Len(b)
  OBVIOUS
<1>3. PICK m : m = Len(a)
  OBVIOUS
<1>4. /\ s \in Text /\ n \in Nat /\ m \in Nat /\ Len(s) = n + m
      /\ \A i \in 1..(n + m) : s[i] = IF i <= n THEN b[i] ELSE a[i - n]
  BY <1>1, <1>2, <1>3, Parts
<1>5. n <= Len(s) /\ Len(s) - n = m
  BY <1>4
<1>6. PICK x : x = SubSeq(s, 1, n)
  OBVIOUS
<1>7. x = b
  <2>1. x \in Text /\ Len(x) = n /\ \A k \in 1..n : x[k] = s[k]
    BY <1>4, <1>5, <1>6, Beginning
  <2>2. \A k \in 1..n : k \in 1..(n + m) /\ k <= n
    BY <1>4
  <2>3. \A k \in 1..n : x[k] = b[k]
    BY <1>4, <2>1, <2>2
  <2> QED BY <1>2, <2>1, <2>3, SameText
<1>8. PICK y : y = SubSeq(s, n + 1, Len(s))
  OBVIOUS
<1>9. y = a
  <2>1. y \in Text /\ Len(y) = Len(s) - n /\ \A k \in 1..(Len(s) - n) : y[k] = s[n + k]
    BY <1>4, <1>5, <1>8, Ending
  <2>2. \A k \in 1..m : n + k \in 1..(n + m) /\ ~(n + k <= n) /\ (n + k) - n = k
    BY <1>4
  <2>3. \A k \in 1..m : y[k] = a[k]
    BY <1>4, <1>5, <2>1, <2>2
  <2> QED BY <1>3, <1>5, <2>1, <2>3, SameText
<1> QED BY <1>1, <1>2, <1>6, <1>7, <1>8, <1>9

\* A character goes in at the cursor, or takes the place of the one behind it.
LEMMA Inserted ==
    ASSUME NEW b \in Text, NEW a \in Text, NEW c \in Chars
    PROVE  InsertAt(b \o a, Len(b) + 1, c) = Append(b, c) \o a
<1>1. Len(b) \in Nat
  BY Parts
<1>2. (Len(b) + 1) - 1 = Len(b)
  BY <1>1
<1>3. InsertAt(b \o a, Len(b) + 1, c) = (b \o <<c>>) \o a
  BY <1>2, TwoParts DEF InsertAt
<1> QED BY <1>3, OneBehind

LEMMA Replaced ==
    ASSUME NEW b \in Text, NEW a \in Text, NEW c \in Chars, a # <<>>
    PROVE  ReplaceAt(b \o a, Len(b) + 1, c) = Append(b, c) \o Tail(a)
<1>1. PICK s : s = b \o a
  OBVIOUS
<1>2. PICK n : n = Len(b)
  OBVIOUS
<1>3. PICK m : m = Len(a)
  OBVIOUS
<1>4. /\ s \in Text /\ n \in Nat /\ m \in Nat /\ Len(s) = n + m
      /\ \A i \in 1..(n + m) : s[i] = IF i <= n THEN b[i] ELSE a[i - n]
  BY <1>1, <1>2, <1>3, Parts
<1>5. PICK t : t = Tail(a)
  OBVIOUS
<1>6. m >= 1 /\ t \in Text /\ Len(t) = m - 1 /\ \A i \in 1..(m - 1) : t[i] = a[i + 1]
  BY <1>3, <1>5, FrontAndTail
<1>7. PICK d : d = Append(b, c)
  OBVIOUS
<1>8. d \in Text /\ Len(d) = n + 1 /\ \A i \in 1..(n + 1) : d[i] = IF i = n + 1 THEN c ELSE b[i]
  BY <1>2, <1>7, OneBehind
<1>9. PICK x : x = [s EXCEPT ![n + 1] = c]
  OBVIOUS
<1>10. x \in Text /\ Len(x) = n + m /\ \A i \in 1..(n + m) : x[i] = IF i = n + 1 THEN c ELSE s[i]
  <2>1. n + 1 \in 1..Len(s)
    BY <1>4, <1>6
  <2>2. s \in Seq(Chars)
    BY <1>4 DEF Text
  <2>3. x \in Seq(Chars) /\ Len(x) = Len(s) /\ \A i \in 1..Len(s) : x[i] = IF i = n + 1 THEN c ELSE s[i]
    BY <1>9, <2>1, <2>2
  <2> QED BY <1>4, <2>3 DEF Text
<1>11. PICK y : y = d \o t
  OBVIOUS
<1>12. /\ y \in Text /\ Len(y) = Len(d) + Len(t)
       /\ \A i \in 1..(Len(d) + Len(t)) : y[i] = IF i <= Len(d) THEN d[i] ELSE t[i - Len(d)]
  BY <1>6, <1>8, <1>11, Parts
<1>13. Len(d) + Len(t) = n + m
  BY <1>4, <1>6, <1>8
<1>14. ASSUME NEW i \in 1..(n + m) PROVE x[i] = y[i]
  <2>1. CASE i <= n
    <3>1. i # n + 1 /\ i \in 1..(n + 1) /\ i <= n + 1
      BY <1>4, <2>1
    <3>2. x[i] = b[i]
      BY <1>4, <1>10, <2>1, <3>1
    <3>3. y[i] = d[i]
      BY <1>8, <1>12, <1>13, <3>1
    <3> QED BY <1>8, <3>1, <3>2, <3>3
  <2>2. CASE i = n + 1
    <3>1. i \in 1..(n + 1) /\ i <= n + 1
      BY <1>4, <2>2
    <3> QED BY <1>8, <1>10, <1>12, <1>13, <2>2, <3>1
  <2>3. CASE i > n + 1
    <3>1. ~(i <= n) /\ ~(i <= n + 1) /\ i # n + 1 /\ i - (n + 1) \in 1..(m - 1) /\ (i - (n + 1)) + 1 = i - n
      BY <1>4, <2>3
    <3>2. x[i] = a[i - n]
      BY <1>4, <1>10, <3>1
    <3>3. y[i] = t[i - (n + 1)]
      BY <1>8, <1>12, <1>13, <3>1
    <3> QED BY <1>6, <3>1, <3>2, <3>3
  <2> QED BY <1>4, <2>1, <2>2, <2>3
<1>15. x = y
  BY <1>10, <1>12, <1>13, <1>14, SameText
<1> QED BY <1>1, <1>2, <1>5, <1>7, <1>9, <1>11, <1>15 DEF ReplaceAt

\* Where the cursor stands in the text, and which part is empty.
LEMMA AtCursor ==
    ASSUME LineInv
    PROVE  /\ mind[1] \in Text /\ mind[2] \in Text /\ mind = <<mind[1], mind[2]>>
           /\ str = mind[1] \o mind[2] /\ strPos + cursorPos = Len(mind[1]) /\ str \in Text
           /\ (strPos + cursorPos >= Len(str) <=> mind[2] = <<>>) /\ (strPos + cursorPos = 0 <=> mind[1] = <<>>)
           /\ mind[1] \o <<>> = mind[1] /\ strPos \in Nat /\ cursorPos \in Nat /\ cursorPos < FieldWidth
           /\ Len(str) \in Nat
<1>1. mind[1] \in Text /\ mind[2] \in Text /\ mind = <<mind[1], mind[2]>> /\ strPos \in Nat /\ cursorPos \in Nat
  BY DEF LineInv, LineTypes
<1>2. str = mind[1] \o mind[2] /\ strPos + cursorPos = Len(mind[1]) /\ cursorPos < FieldWidth
  BY DEF LineInv, EditsAsMeant, Cursor
<1>3. str \in Text /\ Len(mind[1]) \in Nat /\ Len(mind[2]) \in Nat /\ Len(str) = Len(mind[1]) + Len(mind[2])
  BY <1>1, <1>2, Parts
<1>4. (mind[1] = <<>> <=> Len(mind[1]) = 0) /\ (mind[2] = <<>> <=> Len(mind[2]) = 0) /\ mind[1] \o <<>> = mind[1]
  BY <1>1 DEF Text
<1>5. Len(str) \in Nat /\ (strPos + cursorPos >= Len(str) <=> Len(mind[2]) = 0)
  <2>1. PICK k : k = Len(mind[1])
    OBVIOUS
  <2>2. PICK l : l = Len(mind[2])
    OBVIOUS
  <2>3. PICK m : m = Len(str)
    OBVIOUS
  <2>4. k \in Nat /\ l \in Nat /\ m = k + l /\ strPos + cursorPos = k
    BY <1>2, <1>3, <2>1, <2>2, <2>3
  <2>5. m \in Nat /\ (strPos + cursorPos >= m <=> l = 0)
    BY <2>4
  <2> QED BY <2>2, <2>3, <2>5
<1> QED BY <1>1, <1>2, <1>3, <1>4, <1>5

\* What an edit leaves: the line, its cursor and the two texts.
Edited(s, p, q, m) ==
    /\ m \in Text \X Text /\ p \in Nat /\ q \in Nat
    /\ s = m[1] \o m[2] /\ p + q = Len(m[1]) /\ q < FieldWidth
\* Browsing, and the lines it browses.
Browses == history \in Seq(Text) /\ tempStr \in Text /\ historyPos \in Nat /\ historyPos <= Len(history)

LEMMA LineInvFrom ==
    ASSUME Edited(str', strPos', cursorPos', mind'), insertMode' \in BOOLEAN, Browses'
    PROVE  LineInv'
BY DEF Edited, Browses, LineInv, LineTypes, EditsAsMeant, Cursor

LEMMA BrowsesOn ==
    ASSUME LineInv, UNCHANGED historyVars, UNCHANGED insertMode
    PROVE  Browses' /\ insertMode' \in BOOLEAN
BY DEF LineInv, LineTypes, EditsAsMeant, Browses, historyVars

LEMMA Two ==
    ASSUME NEW b \in Text, NEW a \in Text, NEW s, NEW p \in Nat, NEW q \in Nat,
           s = b \o a, p + q = Len(b), q < FieldWidth
    PROVE  Edited(s, p, q, <<b, a>>)
BY DEF Edited

\* A key that prints a character.
LEMMA CharStep ==
    ASSUME LineInv, NEW c \in Chars, process_char(c)
    PROVE  LineInv'
<1>1. PICK b \in Text : b = mind[1]
  BY AtCursor
<1>2. PICK a \in Text : a = mind[2]
  BY AtCursor
<1>3. /\ str = b \o a /\ strPos + cursorPos = Len(b) /\ (strPos + cursorPos >= Len(str) <=> a = <<>>)
      /\ b \o <<>> = b /\ strPos \in Nat /\ cursorPos \in Nat /\ cursorPos < FieldWidth
  BY <1>1, <1>2, AtCursor
<1>4. /\ str' = (IF strPos + cursorPos >= Len(str) THEN Append(str, c)
                 ELSE IF insertMode THEN InsertAt(str, strPos + cursorPos + 1, c) ELSE ReplaceAt(str, strPos + cursorPos + 1, c))
      /\ mind' = <<Append(b, c), IF insertMode \/ a = <<>> THEN a ELSE Tail(a)>>
      /\ IF cursorPos + 1 >= FieldWidth THEN strPos' = strPos + 1 /\ cursorPos' = FieldWidth - 1
         ELSE cursorPos' = cursorPos + 1 /\ strPos' = strPos
      /\ insertMode' = insertMode /\ UNCHANGED historyVars
  BY <1>1, <1>2 DEF process_char, Cursor
<1>5. Append(b, c) \in Text /\ Len(Append(b, c)) = Len(b) + 1 /\ Len(b) \in Nat
  BY OneBehind
<1>6. strPos' \in Nat /\ cursorPos' \in Nat /\ cursorPos' < FieldWidth /\ strPos' + cursorPos' = Len(b) + 1
  BY <1>3, <1>4, <1>5, FieldAssumption
<1>7. PICK d \in Text : mind' = <<Append(b, c), d>> /\ str' = Append(b, c) \o d
  <2>1. CASE a = <<>>
    <3>1. Append(b, c) \o <<>> = Append(b, c)
      BY <1>5 DEF Text
    <3> QED BY <1>3, <1>4, <2>1, <3>1
  <2>2. CASE a # <<>> /\ insertMode
    BY <1>3, <1>4, <2>2, Inserted
  <2>3. CASE a # <<>> /\ ~insertMode
    <3>1. Tail(a) \in Text
      BY <2>3, FrontAndTail
    <3> QED BY <1>3, <1>4, <2>3, <3>1, Replaced
  <2> QED BY <2>1, <2>2, <2>3
<1>8. Edited(str', strPos', cursorPos', <<Append(b, c), d>>)
  BY <1>5, <1>6, <1>7, Two
<1> QED BY <1>4, <1>7, <1>8, BrowsesOn, LineInvFrom

\* Keys that remove one.
LEMMA BackspaceStep ==
    ASSUME LineInv, backspace
    PROVE  LineInv'
<1>1. PICK b \in Text : b = mind[1]
  BY AtCursor
<1>2. PICK a \in Text : a = mind[2]
  BY AtCursor
<1>3. /\ str = b \o a /\ strPos + cursorPos = Len(b) /\ (strPos + cursorPos = 0 <=> b = <<>>)
      /\ strPos \in Nat /\ cursorPos \in Nat /\ cursorPos < FieldWidth
  BY <1>1, <1>2, AtCursor
<1>4. /\ IF cursorPos > 0 THEN cursorPos' = cursorPos - 1 /\ strPos' = strPos /\ str' = RemoveAt(str, strPos + cursorPos' + 1)
         ELSE IF strPos > 0 THEN strPos' = strPos - 1 /\ cursorPos' = cursorPos /\ str' = RemoveAt(str, strPos' + 1)
         ELSE str' = str /\ strPos' = strPos /\ cursorPos' = cursorPos
      /\ mind' = <<IF b = <<>> THEN <<>> ELSE Front(b), a>>
      /\ insertMode' = insertMode /\ UNCHANGED historyVars
  BY <1>1, <1>2 DEF backspace
<1>5. Edited(str', strPos', cursorPos', mind')
  <2>1. CASE b = <<>>
    <3>1. ~(cursorPos > 0) /\ ~(strPos > 0)
      BY <1>3, <2>1
    <3>2. str' = b \o a /\ strPos' = strPos /\ cursorPos' = cursorPos /\ mind' = <<b, a>>
      BY <1>3, <1>4, <2>1, <3>1
    <3> QED BY <1>3, <3>2, Two
  <2>2. CASE b # <<>>
    <3>1. Front(b) \in Text /\ Len(Front(b)) = Len(b) - 1 /\ Len(b) \in Nat
      BY <2>2, FrontAndTail
    <3>2. strPos' \in Nat /\ cursorPos' \in Nat /\ cursorPos' < FieldWidth /\ strPos' + cursorPos' = Len(Front(b))
      <4>1. strPos + cursorPos # 0
        BY <1>3, <2>2
      <4>2. \/ cursorPos > 0 /\ cursorPos' = cursorPos - 1 /\ strPos' = strPos
            \/ strPos > 0 /\ strPos' = strPos - 1 /\ cursorPos' = cursorPos
        BY <1>3, <1>4, <4>1
      <4>3. strPos' \in Nat /\ cursorPos' \in Nat /\ cursorPos' < FieldWidth /\ strPos' + cursorPos' = (strPos + cursorPos) - 1
        BY <1>3, <4>2, FieldAssumption
      <4> QED BY <1>3, <3>1, <4>3
    <3>3. str' = RemoveAt(str, Len(b))
      <4>1. CASE cursorPos > 0
        <5>1. strPos + cursorPos' + 1 = Len(b)
          BY <1>3, <1>4, <4>1
        <5> QED BY <1>4, <4>1, <5>1
      <4>2. CASE ~(cursorPos > 0)
        <5>1. strPos > 0
          BY <1>3, <2>2, <4>2
        <5>2. strPos' + 1 = Len(b)
          BY <1>3, <1>4, <4>2, <5>1
        <5> QED BY <1>4, <4>2, <5>1, <5>2
      <4> QED BY <4>1, <4>2
    <3>4. str' = Front(b) \o a /\ mind' = <<Front(b), a>>
      BY <1>3, <1>4, <2>2, <3>3, RemovedBefore
    <3> QED BY <3>1, <3>2, <3>4, Two
  <2> QED BY <2>1, <2>2
<1> QED BY <1>4, <1>5, BrowsesOn, LineInvFrom

LEMMA DelStep ==
    ASSUME LineInv, del
    PROVE  LineInv'
<1>1. PICK b \in Text : b = mind[1]
  BY AtCursor
<1>2. PICK a \in Text : a = mind[2]
  BY AtCursor
<1>3. /\ str = b \o a /\ strPos + cursorPos = Len(b) /\ (strPos + cursorPos >= Len(str) <=> a = <<>>)
      /\ strPos \in Nat /\ cursorPos \in Nat /\ cursorPos < FieldWidth /\ Len(str) \in Nat
  BY <1>1, <1>2, AtCursor
<1>4. /\ str' = (IF strPos + cursorPos < Len(str) THEN RemoveAt(str, strPos + cursorPos + 1) ELSE str)
      /\ mind' = <<b, IF a = <<>> THEN <<>> ELSE Tail(a)>>
      /\ strPos' = strPos /\ cursorPos' = cursorPos /\ insertMode' = insertMode /\ UNCHANGED historyVars
  BY <1>1, <1>2 DEF del, Cursor
<1>5. strPos + cursorPos < Len(str) <=> a # <<>>
  BY <1>3
<1>6. PICK d \in Text : mind' = <<b, d>> /\ str' = b \o d
  <2>1. CASE a = <<>>
    BY <1>3, <1>4, <1>5, <2>1
  <2>2. CASE a # <<>>
    <3>1. Tail(a) \in Text
      BY <2>2, FrontAndTail
    <3> QED BY <1>3, <1>4, <1>5, <2>2, <3>1, RemovedAfter
  <2> QED BY <2>1, <2>2
<1>7. Edited(str', strPos', cursorPos', mind')
  BY <1>3, <1>4, <1>6, Two
<1> QED BY <1>4, <1>7, BrowsesOn, LineInvFrom

\* Keys that move the cursor.
LEMMA LeftStep ==
    ASSUME LineInv, left_arrow
    PROVE  LineInv'
<1>1. PICK b \in Text : b = mind[1]
  BY AtCursor
<1>2. PICK a \in Text : a = mind[2]
  BY AtCursor
<1>3. /\ str = b \o a /\ strPos + cursorPos = Len(b) /\ (strPos + cursorPos = 0 <=> b = <<>>)
      /\ strPos \in Nat /\ cursorPos \in Nat /\ cursorPos < FieldWidth /\ mind = <<b, a>>
  BY <1>1, <1>2, AtCursor
<1>4. /\ IF cursorPos > 0 THEN cursorPos' = cursorPos - 1 /\ strPos' = strPos
         ELSE strPos' = (IF strPos > 0 THEN strPos - 1 ELSE 0) /\ cursorPos' = cursorPos
      /\ mind' = (IF b = <<>> THEN mind ELSE <<Front(b), <<Last(b)>> \o a>>)
      /\ str' = str /\ insertMode' = insertMode /\ UNCHANGED historyVars
  BY <1>1, <1>2 DEF left_arrow
<1>5. Edited(str', strPos', cursorPos', mind')
  <2>1. CASE b = <<>>
    <3>1. strPos' = strPos /\ cursorPos' = cursorPos
      BY <1>3, <1>4, <2>1
    <3> QED BY <1>3, <1>4, <2>1, <3>1, Two
  <2>2. CASE b # <<>>
    <3>1. /\ Front(b) \o (<<Last(b)>> \o a) = b \o a /\ <<Last(b)>> \o a \in Text
          /\ Front(b) \in Text /\ Len(Front(b)) = Len(b) - 1 /\ Len(b) >= 1
      BY <2>2, MovedLeft
    <3>2. strPos' \in Nat /\ cursorPos' \in Nat /\ cursorPos' < FieldWidth /\ strPos' + cursorPos' = Len(Front(b))
      <4>1. strPos + cursorPos # 0
        BY <1>3, <2>2
      <4>2. \/ cursorPos > 0 /\ cursorPos' = cursorPos - 1 /\ strPos' = strPos
            \/ strPos > 0 /\ strPos' = strPos - 1 /\ cursorPos' = cursorPos
        BY <1>3, <1>4, <4>1
      <4>3. strPos' \in Nat /\ cursorPos' \in Nat /\ cursorPos' < FieldWidth /\ strPos' + cursorPos' = (strPos + cursorPos) - 1
        BY <1>3, <4>2, FieldAssumption
      <4> QED BY <1>3, <3>1, <4>3
    <3>3. str' = Front(b) \o (<<Last(b)>> \o a) /\ mind' = <<Front(b), <<Last(b)>> \o a>>
      BY <1>3, <1>4, <2>2, <3>1
    <3> QED BY <3>1, <3>2, <3>3, Two
  <2> QED BY <2>1, <2>2
<1> QED BY <1>4, <1>5, BrowsesOn, LineInvFrom

LEMMA RightStep ==
    ASSUME LineInv, right_arrow
    PROVE  LineInv'
<1>1. PICK b \in Text : b = mind[1]
  BY AtCursor
<1>2. PICK a \in Text : a = mind[2]
  BY AtCursor
<1>3. /\ str = b \o a /\ strPos + cursorPos = Len(b) /\ (strPos + cursorPos >= Len(str) <=> a = <<>>)
      /\ strPos \in Nat /\ cursorPos \in Nat /\ cursorPos < FieldWidth /\ mind = <<b, a>>
  BY <1>1, <1>2, AtCursor
<1>4. /\ IF strPos + cursorPos >= Len(str) THEN strPos' = strPos /\ cursorPos' = cursorPos
         ELSE IF cursorPos + 1 < FieldWidth THEN cursorPos' = cursorPos + 1 /\ strPos' = strPos
         ELSE strPos' = strPos + 1 /\ cursorPos' = cursorPos
      /\ mind' = (IF a = <<>> THEN mind ELSE <<Append(b, Head(a)), Tail(a)>>)
      /\ str' = str /\ insertMode' = insertMode /\ UNCHANGED historyVars
  BY <1>1, <1>2 DEF right_arrow, Cursor
<1>5. Edited(str', strPos', cursorPos', mind')
  <2>1. CASE a = <<>>
    BY <1>3, <1>4, <2>1, Two
  <2>2. CASE a # <<>>
    <3>1. /\ Append(b, Head(a)) \o Tail(a) = b \o a /\ Tail(a) \in Text
          /\ Append(b, Head(a)) \in Text /\ Len(Append(b, Head(a))) = Len(b) + 1
      BY <2>2, MovedRight
    <3>2. ~(strPos + cursorPos >= Len(str))
      BY <1>3, <2>2
    <3>3. strPos' \in Nat /\ cursorPos' \in Nat /\ cursorPos' < FieldWidth /\ strPos' + cursorPos' = Len(Append(b, Head(a)))
      <4>1. \/ cursorPos' = cursorPos + 1 /\ strPos' = strPos /\ cursorPos + 1 < FieldWidth
            \/ strPos' = strPos + 1 /\ cursorPos' = cursorPos
        BY <1>4, <3>2
      <4>2. strPos' \in Nat /\ cursorPos' \in Nat /\ cursorPos' < FieldWidth /\ strPos' + cursorPos' = (strPos + cursorPos) + 1
        BY <1>3, <4>1, FieldAssumption
      <4> QED BY <1>3, <3>1, <4>2
    <3>4. str' = Append(b, Head(a)) \o Tail(a) /\ mind' = <<Append(b, Head(a)), Tail(a)>>
      BY <1>3, <1>4, <2>2, <3>1
    <3> QED BY <3>1, <3>3, <3>4, Two
  <2> QED BY <2>1, <2>2
<1> QED BY <1>4, <1>5, BrowsesOn, LineInvFrom

\* The cursor behind the last character of a line.
LEMMA AtTail ==
    ASSUME NEW s \in Text, tail_position(s), str' = s, mind' = <<s, <<>>>>
    PROVE  Edited(str', strPos', cursorPos', mind')
<1>1. Len(s) \in Nat /\ s = s \o <<>> /\ <<>> \in Text
  BY DEF Text
<1>2. strPos' \in Nat /\ cursorPos' \in Nat /\ cursorPos' < FieldWidth /\ strPos' + cursorPos' = Len(s)
  BY <1>1, FieldAssumption DEF tail_position
<1> QED BY <1>1, <1>2, Two

LEMMA HomeStep ==
    ASSUME LineInv, home
    PROVE  LineInv'
<1>1. str' = str /\ strPos' = 0 /\ cursorPos' = 0 /\ mind' = <<<<>>, str>> /\ insertMode' = insertMode /\ UNCHANGED historyVars /\ str \in Text
  BY AtCursor DEF home
<1>2. <<>> \in Text /\ Len(<<>>) = 0 /\ str = <<>> \o str
  BY <1>1 DEF Text
<1>3. 0 \in Nat /\ 0 + 0 = 0 /\ 0 < FieldWidth
  BY FieldAssumption
<1>4. Edited(str', strPos', cursorPos', mind')
  BY <1>1, <1>2, <1>3, Two
<1> QED BY <1>1, <1>4, BrowsesOn, LineInvFrom

LEMMA EndStep ==
    ASSUME LineInv, end
    PROVE  LineInv'
<1>1. str' = str /\ tail_position(str) /\ mind' = <<str, <<>>>> /\ insertMode' = insertMode /\ UNCHANGED historyVars /\ str \in Text
  BY AtCursor DEF end
<1>2. Edited(str', strPos', cursorPos', mind')
  BY <1>1, AtTail
<1> QED BY <1>1, <1>2, BrowsesOn, LineInvFrom

\* Browsing the history.
LEMMA Shown ==
    ASSUME NEW s \in Text, set_string(s), Browses', insertMode' \in BOOLEAN
    PROVE  LineInv'
<1>1. str' = s /\ tail_position(s) /\ mind' = <<s, <<>>>>
  BY DEF set_string
<1>2. Edited(str', strPos', cursorPos', mind')
  BY <1>1, AtTail
<1> QED BY <1>2, LineInvFrom

LEMMA UpStep ==
    ASSUME LineInv, up_arrow
    PROVE  LineInv'
<1>1. /\ history \in Seq(Text) /\ tempStr \in Text /\ historyPos \in Nat /\ historyPos <= Len(history)
      /\ insertMode \in BOOLEAN /\ str \in Text
  BY AtCursor DEF LineInv, LineTypes, EditsAsMeant
<1>2. insertMode' = insertMode /\ history' = history
  BY DEF up_arrow
<1>3. CASE historyPos > 1 /\ historyPos' = historyPos - 1 /\ set_string(history[historyPos']) /\ UNCHANGED tempStr
  <2>1. historyPos' \in Nat /\ historyPos' <= Len(history) /\ historyPos' \in 1..Len(history)
    BY <1>1, <1>3
  <2>2. history[historyPos'] \in Text
    BY <1>1, <2>1
  <2>3. Browses'
    BY <1>1, <1>2, <1>3, <2>1 DEF Browses
  <2> QED BY <1>1, <1>2, <1>3, <2>2, <2>3, Shown
<1>4. CASE historyPos = 0 /\ history # <<>> /\ tempStr' = str /\ historyPos' = Len(history) /\ set_string(history[historyPos'])
  <2>1. historyPos' \in Nat /\ historyPos' <= Len(history) /\ historyPos' \in 1..Len(history)
    BY <1>1, <1>4
  <2>2. history[historyPos'] \in Text
    BY <1>1, <2>1
  <2>3. Browses'
    BY <1>1, <1>2, <1>4, <2>1 DEF Browses
  <2> QED BY <1>1, <1>2, <1>4, <2>2, <2>3, Shown
<1> QED BY <1>3, <1>4 DEF up_arrow

LEMMA DownStep ==
    ASSUME LineInv, down_arrow
    PROVE  LineInv'
<1>1. /\ history \in Seq(Text) /\ tempStr \in Text /\ historyPos \in Nat /\ historyPos <= Len(history)
      /\ insertMode \in BOOLEAN /\ <<>> \in Text
  BY DEF LineInv, LineTypes, EditsAsMeant, Text
<1>2. insertMode' = insertMode /\ history' = history /\ historyPos # 0
  BY DEF down_arrow
<1>3. CASE historyPos = Len(history) /\ historyPos' = 0 /\ set_string(tempStr) /\ tempStr' = <<>>
  <2>1. 0 \in Nat /\ 0 <= Len(history)
    BY <1>1
  <2>2. Browses'
    BY <1>1, <1>2, <1>3, <2>1 DEF Browses
  <2> QED BY <1>1, <1>2, <1>3, <2>2, Shown
<1>4. CASE historyPos < Len(history) /\ historyPos' = historyPos + 1 /\ set_string(history[historyPos']) /\ UNCHANGED tempStr
  <2>1. historyPos' \in Nat /\ historyPos' <= Len(history) /\ historyPos' \in 1..Len(history)
    BY <1>1, <1>4
  <2>2. history[historyPos'] \in Text
    BY <1>1, <2>1
  <2>3. Browses'
    BY <1>1, <1>2, <1>4, <2>1 DEF Browses
  <2> QED BY <1>1, <1>2, <1>4, <2>2, <2>3, Shown
<1> QED BY <1>3, <1>4 DEF down_arrow

LEMMA InsertStep ==
    ASSUME LineInv, insert
    PROVE  LineInv'
<1>1. UNCHANGED <<str, strPos, cursorPos, mind, history, historyPos, tempStr>> /\ insertMode' \in BOOLEAN
  BY DEF insert, historyVars
<1> QED BY <1>1 DEF LineInv, LineTypes, EditsAsMeant, Cursor

LEMMA CommitStep ==
    ASSUME LineInv, commit
    PROVE  LineInv'
<1>1. /\ history \in Seq(Text) /\ historyPos \in Nat /\ historyPos <= Len(history) /\ insertMode \in BOOLEAN /\ str \in Text
  BY AtCursor DEF LineInv, LineTypes, EditsAsMeant
<1>2. /\ history' = Append(history, str) /\ str' = <<>> /\ tempStr' = <<>> /\ strPos' = 0 /\ cursorPos' = 0
      /\ mind' = <<<<>>, <<>>>> /\ insertMode' = insertMode /\ historyPos' = historyPos
  BY DEF commit
<1>3. <<>> \in Text /\ Len(<<>>) = 0 /\ <<>> = <<>> \o <<>>
  BY DEF Text
<1>4. 0 \in Nat /\ 0 + 0 = 0 /\ 0 < FieldWidth
  BY FieldAssumption
<1>5. Edited(str', strPos', cursorPos', mind')
  BY <1>2, <1>3, <1>4, Two
<1>6. Append(history, str) \in Seq(Text) /\ Len(Append(history, str)) = Len(history) + 1 /\ Len(history) \in Nat
  BY <1>1
<1>7. historyPos <= Len(history) + 1
  BY <1>1, <1>6
<1>8. Browses'
  BY <1>1, <1>2, <1>3, <1>6, <1>7 DEF Browses
<1> QED BY <1>1, <1>2, <1>5, <1>8, LineInvFrom

\* EditsAsMeant for any field, any characters and any keys, in any order (input_handler.cpp).
THEOREM EditsAreAsMeant == LineSpec => []EditsAsMeant
<1>1. LineInit => LineInv
  <2> SUFFICES ASSUME LineInit PROVE LineInv
    OBVIOUS
  <2>1. /\ str = <<>> /\ strPos = 0 /\ cursorPos = 0 /\ insertMode = TRUE
        /\ history = <<>> /\ historyPos = 0 /\ tempStr = <<>> /\ mind = <<<<>>, <<>>>>
    BY DEF LineInit
  <2>2. <<>> \in Text /\ <<>> \in Seq(Text) /\ Len(<<>>) = 0 /\ <<>> = <<>> \o <<>>
    BY DEF Text
  <2>3. 0 \in Nat /\ 0 + 0 = 0 /\ 0 < FieldWidth /\ 0 <= 0
    BY FieldAssumption
  <2>4. mind[1] = <<>> /\ mind[2] = <<>> /\ mind \in Text \X Text
    BY <2>1, <2>2
  <2> QED BY <2>1, <2>2, <2>3, <2>4 DEF LineInv, LineTypes, EditsAsMeant, Cursor
<1>2. LineInv /\ [LineNext]_lineVars => LineInv'
  <2> SUFFICES ASSUME LineInv, [LineNext]_lineVars PROVE LineInv'
    OBVIOUS
  <2>1. CASE UNCHANGED lineVars
    BY <2>1 DEF LineInv, LineTypes, EditsAsMeant, Cursor, lineVars
  <2>2. CASE LineNext
    BY <2>2, CharStep, BackspaceStep, DelStep, LeftStep, RightStep, UpStep, DownStep, HomeStep, EndStep,
       InsertStep, CommitStep DEF LineNext
  <2> QED BY <2>1, <2>2
<1>3. LineInv => EditsAsMeant
  BY DEF LineInv
<1> QED BY <1>1, <1>2, <1>3, PTL DEF LineSpec

-----------------------------------------------------------------------------
(* Sealing.  First the ideal cipher.                                       *)

Combined(key, nonce, from, i, o) ==
    [v |-> o.v, keystream |-> SymDiff(o.keystream, {<<key, nonce, from + i>>})]
\* Octets combined with the keystream from a position on: cipher of a cipher object.
Under(key, nonce, from, p) == [i \in DOMAIN p |-> Combined(key, nonce, from, i, p[i])]

LEMMA CombinedOctet ==
    ASSUME NEW key \in Int, NEW nonce \in Seq(Nat), NEW n \in Nat, NEW i \in Nat, NEW o \in Octets
    PROVE  /\ Combined(key, nonce, n, i, o) \in Octets /\ Combined(key, nonce, n, i, o).v = o.v
           /\ Combined(key, nonce, n, i, Combined(key, nonce, n, i, o)) = o
<1>1. <<key, nonce, n + i>> \in Positions
  BY DEF Positions
<1>2. PICK x \in Positions : x = <<key, nonce, n + i>>
  BY <1>1
<1>3. o.v \in OctetValues /\ o.keystream \in SUBSET Positions /\ o = [v |-> o.v, keystream |-> o.keystream]
  BY DEF Octets
<1>4. SymDiff(o.keystream, {x}) \in SUBSET Positions
  BY <1>3 DEF SymDiff
<1>5. SymDiff(SymDiff(o.keystream, {x}), {x}) = o.keystream
  BY DEF SymDiff
<1>6. Combined(key, nonce, n, i, o) = [v |-> o.v, keystream |-> SymDiff(o.keystream, {x})]
  BY <1>2 DEF Combined
<1>7. Combined(key, nonce, n, i, Combined(key, nonce, n, i, o)) = [v |-> o.v, keystream |-> SymDiff(SymDiff(o.keystream, {x}), {x})]
  BY <1>2 DEF Combined
<1>8. Combined(key, nonce, n, i, o) \in Octets /\ Combined(key, nonce, n, i, o).v = o.v
  <2>1. PICK y \in SUBSET Positions : y = SymDiff(o.keystream, {x})
    BY <1>4
  <2>2. PICK c : c = Combined(key, nonce, n, i, o)
    OBVIOUS
  <2>3. c = [v |-> o.v, keystream |-> y]
    BY <1>6, <2>1, <2>2
  <2>4. c \in Octets /\ c.v = o.v
    BY <1>3, <2>3 DEF Octets
  <2> QED BY <2>2, <2>4
<1> QED BY <1>3, <1>5, <1>7, <1>8

LEMMA UnderOctets ==
    ASSUME NEW key \in Int, NEW nonce \in Seq(Nat), NEW n \in Nat, NEW p \in Seq(Octets)
    PROVE  /\ Under(key, nonce, n, p) \in Seq(Octets) /\ Len(Under(key, nonce, n, p)) = Len(p)
           /\ \A i \in 1..Len(p) : Under(key, nonce, n, p)[i] = Combined(key, nonce, n, i, p[i])
<1>1. DOMAIN p = 1..Len(p) /\ Len(p) \in Nat /\ \A i \in 1..Len(p) : p[i] \in Octets /\ i \in Nat
  OBVIOUS
<1>2. \A i \in 1..Len(p) : Combined(key, nonce, n, i, p[i]) \in Octets
  BY <1>1, CombinedOctet
<1>3. PICK q : q = Under(key, nonce, n, p)
  OBVIOUS
<1>4. q = [i \in 1..Len(p) |-> Combined(key, nonce, n, i, p[i])]
  BY <1>1, <1>3 DEF Under
<1>5. q \in Seq(Octets) /\ Len(q) = Len(p)
  BY <1>1, <1>2, <1>4
<1>6. \A i \in 1..Len(p) : q[i] = Combined(key, nonce, n, i, p[i])
  BY <1>4
<1> QED BY <1>3, <1>5, <1>6

\* Combined twice, octets are as before.
LEMMA UnderTwice ==
    ASSUME NEW key \in Int, NEW nonce \in Seq(Nat), NEW n \in Nat, NEW p \in Seq(Octets)
    PROVE  Under(key, nonce, n, Under(key, nonce, n, p)) = p
<1>1. PICK q : q = Under(key, nonce, n, p)
  OBVIOUS
<1>2. q \in Seq(Octets) /\ Len(q) = Len(p) /\ \A i \in 1..Len(p) : q[i] = Combined(key, nonce, n, i, p[i])
  BY <1>1, UnderOctets
<1>3. PICK r : r = Under(key, nonce, n, q)
  OBVIOUS
<1>4. r \in Seq(Octets) /\ Len(r) = Len(q) /\ \A i \in 1..Len(q) : r[i] = Combined(key, nonce, n, i, q[i])
  BY <1>2, <1>3, UnderOctets
<1>5. ASSUME NEW i \in 1..Len(p) PROVE r[i] = p[i]
  <2>1. r[i] = Combined(key, nonce, n, i, Combined(key, nonce, n, i, p[i]))
    BY <1>2, <1>4
  <2>2. i \in Nat /\ p[i] \in Octets
    OBVIOUS
  <2> QED BY <2>1, <2>2, CombinedOctet
<1>6. r = p
  BY <1>2, <1>4, <1>5, SeqEqual
<1> QED BY <1>1, <1>3, <1>6

\* Piece by piece or at once.
LEMMA UnderPieces ==
    ASSUME NEW key \in Int, NEW nonce \in Seq(Nat), NEW p \in Seq(Octets), NEW q \in Seq(Octets)
    PROVE  Under(key, nonce, 0, p) \o Under(key, nonce, Len(p), q) = Under(key, nonce, 0, p \o q)
<1>1. PICK m \in Nat : m = Len(p)
  OBVIOUS
<1>2. PICK n \in Nat : n = Len(q)
  OBVIOUS
<1>3. PICK a : a = Under(key, nonce, 0, p)
  OBVIOUS
<1>4. PICK b : b = Under(key, nonce, m, q)
  OBVIOUS
<1>5. PICK s : s = p \o q
  OBVIOUS
<1>6. PICK c : c = Under(key, nonce, 0, s)
  OBVIOUS
<1>7. s \in Seq(Octets) /\ Len(s) = m + n /\ \A i \in 1..(m + n) : s[i] = IF i <= m THEN p[i] ELSE q[i - m]
  BY <1>1, <1>2, <1>5
<1>8. a \in Seq(Octets) /\ Len(a) = m /\ \A i \in 1..m : a[i] = Combined(key, nonce, 0, i, p[i])
  BY <1>1, <1>3, UnderOctets
<1>9. b \in Seq(Octets) /\ Len(b) = n /\ \A i \in 1..n : b[i] = Combined(key, nonce, m, i, q[i])
  BY <1>2, <1>4, UnderOctets
<1>10. c \in Seq(Octets) /\ Len(c) = m + n /\ \A i \in 1..(m + n) : c[i] = Combined(key, nonce, 0, i, s[i])
  <2>1. c \in Seq(Octets) /\ Len(c) = Len(s) /\ \A i \in 1..Len(s) : c[i] = Combined(key, nonce, 0, i, s[i])
    <3>1. s \in Seq(Octets) /\ 0 \in Nat
      BY <1>7
    <3> QED BY <1>6, <3>1, UnderOctets
  <2> QED BY <1>7, <2>1
<1>11. a \o b \in Seq(Octets) /\ Len(a \o b) = m + n /\ \A i \in 1..(m + n) : (a \o b)[i] = IF i <= m THEN a[i] ELSE b[i - m]
  <2>1. a \in Seq(Octets) /\ b \in Seq(Octets)
    BY <1>8, <1>9
  <2>2. /\ a \o b \in Seq(Octets) /\ Len(a \o b) = Len(a) + Len(b)
        /\ \A i \in 1..(Len(a) + Len(b)) : (a \o b)[i] = IF i <= Len(a) THEN a[i] ELSE b[i - Len(a)]
    BY <2>1
  <2> QED BY <1>8, <1>9, <2>2
<1>12. ASSUME NEW i \in 1..(m + n) PROVE (a \o b)[i] = c[i]
  <2>1. CASE i <= m
    <3>1. i \in 1..m
      BY <2>1
    <3> QED BY <1>7, <1>8, <1>10, <1>11, <2>1, <3>1
  <2>2. CASE ~(i <= m)
    <3>1. i - m \in 1..n /\ m + (i - m) = 0 + i
      BY <2>2
    <3>2. b[i - m] = Combined(key, nonce, m, i - m, q[i - m])
      BY <1>9, <3>1
    <3>3. Combined(key, nonce, m, i - m, q[i - m]) = Combined(key, nonce, 0, i, q[i - m])
      BY <3>1 DEF Combined
    <3> QED BY <1>7, <1>10, <1>11, <2>2, <3>2, <3>3
  <2> QED BY <2>1, <2>2
<1>13. a \o b = c
  BY <1>10, <1>11, <1>12, SeqEqual
<1> QED BY <1>1, <1>3, <1>4, <1>5, <1>6, <1>13

\* Damage is seen.
LEMMA DamagedOctets ==
    ASSUME NEW p \in Seq(Octets), p # <<>>
    PROVE  Changed(p) \in Seq(Octets) /\ Len(Changed(p)) = Len(p) /\ Len(p) >= 1 /\ Changed(p)[1].v # p[1].v
<1>1. Len(p) \in Nat /\ Len(p) >= 1 /\ 1 \in DOMAIN p /\ p[1] \in Octets /\ DOMAIN p = 1..Len(p)
  OBVIOUS
<1>2. p[1].v \in OctetValues /\ p[1].keystream \in SUBSET Positions
  BY <1>1 DEF Octets
<1>3. PICK w : w = CHOOSE v \in OctetValues : v # p[1].v
  OBVIOUS
<1>4. w \in OctetValues /\ w # p[1].v
  BY <1>2, <1>3, SealingAssumption
<1>5. PICK o : o = [p[1] EXCEPT !.v = w]
  OBVIOUS
<1>6. o \in Octets /\ o.v = w
  BY <1>1, <1>4, <1>5 DEF Octets
<1>7. Changed(p) = [p EXCEPT ![1] = o]
  BY <1>3, <1>5 DEF Changed
<1>8. [p EXCEPT ![1] = o] \in Seq(Octets) /\ Len([p EXCEPT ![1] = o]) = Len(p) /\ [p EXCEPT ![1] = o][1] = o
  BY <1>1, <1>6
<1> QED BY <1>1, <1>4, <1>6, <1>7, <1>8

LEMMA DamageSeen ==
    ASSUME NEW key \in Int, NEW nonce \in Seq(Nat), NEW p \in Seq(Octets), p # <<>>
    PROVE  Under(key, nonce, 0, Changed(Under(key, nonce, 0, p))) # p
<1>1. PICK q : q = Under(key, nonce, 0, p)
  OBVIOUS
<1>2. q \in Seq(Octets) /\ Len(q) = Len(p) /\ \A i \in 1..Len(p) : q[i] = Combined(key, nonce, 0, i, p[i])
  BY <1>1, UnderOctets
<1>3. q # <<>> /\ 1 \in 1..Len(p)
  BY <1>2
<1>4. PICK d : d = Changed(q)
  OBVIOUS
<1>5. d \in Seq(Octets) /\ Len(d) = Len(q) /\ d[1].v # q[1].v
  BY <1>2, <1>3, <1>4, DamagedOctets
<1>6. Under(key, nonce, 0, d)[1] = Combined(key, nonce, 0, 1, d[1])
  BY <1>2, <1>3, <1>5, UnderOctets
<1>7. Combined(key, nonce, 0, 1, d[1]).v = d[1].v /\ Combined(key, nonce, 0, 1, p[1]).v = p[1].v
  BY DEF Combined
<1> QED BY <1>1, <1>2, <1>3, <1>4, <1>5, <1>6, <1>7

-----------------------------------------------------------------------------
(* Streams.                                                                *)

Ciphers ==
    [key : {0}, encrypt : BOOLEAN, single : BOOLEAN, finished : BOOLEAN, nonce : Nonces,
     aad : Seq(OctetValues), plain : Seq(Octets), counter : Nat]
Drafts == [aad : Seq(OctetValues), data : Seq(Octets)]
Messages == [counter : Nat, aad : Seq(OctetValues), data : Seq(Octets), tag : Tags, plain : Seq(Octets)]
Progresses == [aad : BOOLEAN, given : Nat, plain : Seq(Octets)]

\* The sender with n messages sent: the draft is what its cipher object has taken so far, and the next
\* message's nonce is none of those before.
Sends(c, d, n) ==
    /\ c \in Ciphers /\ d \in Drafts /\ c.encrypt
    /\ d.aad = c.aad /\ d.data = Under(0, c.nonce, 0, c.plain)
    /\ ~c.finished /\ n < CounterRange => c.nonce = <<0, n>>
    /\ ~c.single /\ n + 1 < CounterRange => c.counter = n + 1

Seals(nonce, aad, plain) == [key |-> 0, nonce |-> nonce, aad |-> aad, plain |-> plain]
\* The i-th message.
Sent(m, i) ==
    /\ m \in Messages /\ m.counter = i - 1 /\ m.tag = Seals(<<0, m.counter>>, m.aad, m.plain)
    /\ m.data = Under(0, <<0, m.counter>>, 0, m.plain)

\* A message as it arrived.
Arrived(r) ==
    /\ r \in Arrivals /\ r.tag = Seals(<<0, r.counter>>, r.aad, r.meant)
    /\ r.data = IF r.sound THEN Under(0, <<0, r.counter>>, 0, r.meant)
                ELSE Changed(Under(0, <<0, r.counter>>, 0, r.meant))
    /\ r.sound \/ r.meant # <<>>

\* The receiver's cipher object has what was given to it of the message being read, and nothing if none is.
Fresh(c) == c.aad = <<>> /\ c.plain = <<>>
Reads(c, r, p) ==
    /\ Arrived(r) /\ ~c.finished /\ c.nonce = <<0, r.counter>> /\ p.given <= Len(r.data)
    /\ c.plain = Under(0, c.nonce, 0, SubSeq(r.data, 1, p.given)) /\ p.plain = c.plain
    /\ c.aad = IF p.aad THEN r.aad ELSE <<>>
Receives(c, r, p) ==
    /\ c \in Ciphers /\ p \in Progresses /\ ~c.encrypt /\ (c.finished => c.single)
    /\ IF r = NoMessage THEN c.finished \/ Fresh(c) ELSE Reads(c, r, p)

Verdict(w) == w.accepted = w.sound /\ (w.sound => w.plain = w.meant)
StreamInv ==
    /\ Sends(enc, draft, Len(msgs)) /\ msgs \in Seq(Messages) /\ (\A i \in 1..Len(msgs) : Sent(msgs[i], i))
    /\ Receives(dec, reading, progress) /\ \A w \in verdicts : Verdict(w)

LEMMA NonceOf == ASSUME NEW n \in Nat PROVE <<0, n>> \in Nonces /\ <<0, n>> \in Seq(Nat) /\ <<0, n>>[2] = n
BY DEF Nonces

LEMMA NonceIs ==
    ASSUME NEW x \in Nonces
    PROVE  x \in Seq(Nat) /\ x = <<0, x[2]>> /\ x[2] \in Nat
<1>1. x[1] = 0 /\ x[2] \in Nat /\ x = <<x[1], x[2]>>
  BY DEF Nonces
<1> QED BY <1>1, NonceOf

\* What a cipher object does with data.
LEMMA CipherIs ==
    ASSUME NEW c \in Ciphers, NEW d \in Seq(Octets)
    PROVE  cipher(c, d) = Under(0, c.nonce, Len(c.plain), d)
<1>1. c.key = 0 /\ DOMAIN d = 1..Len(d)
  BY DEF Ciphers
<1>2. ASSUME NEW i \in DOMAIN d
      PROVE  [d[i] EXCEPT !.keystream = SymDiff(@, {<<c.key, c.nonce, Len(c.plain) + i>>})]
             = Combined(0, c.nonce, Len(c.plain), i, d[i])
  <2>1. d[i] \in Octets
    BY <1>1
  <2>2. PICK x : x = SymDiff(d[i].keystream, {<<0, c.nonce, Len(c.plain) + i>>})
    OBVIOUS
  <2>3. [d[i] EXCEPT !.keystream = x] = [v |-> d[i].v, keystream |-> x]
    BY <2>1 DEF Octets
  <2> QED BY <1>1, <2>2, <2>3 DEF Combined
<1> QED BY <1>2 DEF cipher, Under

LEMMA ProcessIs ==
    ASSUME NEW c \in Ciphers, NEW d \in Seq(Octets), NEW p \in Seq(Octets), p = IF c.encrypt THEN d ELSE cipher(c, d)
    PROVE  /\ process(c, d) \in Ciphers /\ process(c, d).plain = c.plain \o p /\ process(c, d).aad = c.aad
           /\ process(c, d).nonce = c.nonce /\ process(c, d).counter = c.counter
           /\ process(c, d).encrypt = c.encrypt /\ process(c, d).single = c.single /\ process(c, d).finished = c.finished
<1>1. c.plain \o p \in Seq(Octets)
  BY DEF Ciphers
<1>2. PICK q \in Seq(Octets) : q = c.plain \o p
  BY <1>1
<1>3. process(c, d) = [c EXCEPT !.plain = q]
  BY <1>2 DEF process
<1> QED BY <1>2, <1>3 DEF Ciphers

LEMMA AuthIs ==
    ASSUME NEW c \in Ciphers, NEW a \in Seq(OctetValues), c.aad = <<>>
    PROVE  /\ process_auth(c, a) \in Ciphers /\ process_auth(c, a).plain = c.plain /\ process_auth(c, a).aad = a
           /\ process_auth(c, a).nonce = c.nonce /\ process_auth(c, a).counter = c.counter
           /\ process_auth(c, a).encrypt = c.encrypt /\ process_auth(c, a).single = c.single
           /\ process_auth(c, a).finished = c.finished
<1>1. c.aad \o a = a
  OBVIOUS
<1>2. process_auth(c, a) = [c EXCEPT !.aad = a]
  BY <1>1 DEF process_auth
<1> QED BY <1>2 DEF Ciphers

\* The counter's next value.
LEMMA NextCounter ==
    ASSUME NEW n \in Nat
    PROVE  (n + 1) % CounterRange \in Nat /\ (n + 1 < CounterRange => (n + 1) % CounterRange = n + 1)
BY SealingAssumption

\* next_nonce and finish leave a cipher object that has nothing of a message.
LEMMA NextNonceIs ==
    ASSUME NEW c \in Ciphers
    PROVE  /\ next_nonce(c) \in Ciphers /\ next_nonce(c).nonce = <<0, c.counter>> /\ Fresh(next_nonce(c))
           /\ next_nonce(c).counter = (c.counter + 1) % CounterRange
           /\ next_nonce(c).encrypt = c.encrypt /\ next_nonce(c).single = c.single /\ next_nonce(c).finished = c.finished
<1>1. c.counter \in Nat
  BY DEF Ciphers
<1>2. PICK n \in Nat : n = (c.counter + 1) % CounterRange
  BY <1>1, NextCounter
<1>3. PICK x \in Nonces : x = <<0, c.counter>>
  BY <1>1, NonceOf
<1>4. next_nonce(c) = [[c EXCEPT !.counter = n] EXCEPT !.nonce = x, !.aad = <<>>, !.plain = <<>>]
  BY <1>2, <1>3 DEF next_nonce, gcm_start, StreamIv
<1>5. <<>> \in Seq(OctetValues) /\ <<>> \in Seq(Octets)
  OBVIOUS
<1> QED BY <1>2, <1>3, <1>4, <1>5 DEF Ciphers, Fresh

LEMMA AfterTagIs ==
    ASSUME NEW c \in Ciphers
    PROVE  /\ after_tag(c) \in Ciphers /\ Fresh(after_tag(c))
           /\ after_tag(c).encrypt = c.encrypt /\ after_tag(c).single = c.single
           /\ after_tag(c).finished = (c.single \/ c.finished)
           /\ ~c.single => after_tag(c).nonce = <<0, c.counter>> /\ after_tag(c).counter = (c.counter + 1) % CounterRange
<1>1. CASE c.single
  <2>1. after_tag(c) = [c EXCEPT !.finished = TRUE, !.aad = <<>>, !.plain = <<>>]
    BY <1>1 DEF after_tag, finish
  <2>2. <<>> \in Seq(OctetValues) /\ <<>> \in Seq(Octets)
    OBVIOUS
  <2> QED BY <1>1, <2>1, <2>2 DEF Ciphers, Fresh
<1>2. CASE ~c.single
  <2>1. after_tag(c) = next_nonce(c) /\ c.single = FALSE /\ c.finished \in BOOLEAN
    BY <1>2 DEF after_tag, Ciphers
  <2> QED BY <2>1, NextNonceIs
<1> QED BY <1>1, <1>2

\* Nothing at all, sealed.
LEMMA EmptyUnder == ASSUME NEW n PROVE Under(0, n, 0, <<>>) = <<>>
BY DEF Under

LEMMA StreamInitInv == StreamInit => StreamInv
<1> SUFFICES ASSUME StreamInit PROVE StreamInv
  OBVIOUS
<1>1. draft = Blank /\ msgs = <<>> /\ verdicts = {} /\ reading = NoMessage /\ progress = [aad |-> FALSE, given |-> 0, plain |-> <<>>]
  BY DEF StreamInit
<1>2. <<>> \in Seq(OctetValues) /\ <<>> \in Seq(Octets) /\ <<>> \in Seq(Messages) /\ Len(<<>>) = 0 /\ 0 \in Nat
  OBVIOUS
<1>3. draft \in Drafts /\ draft.aad = <<>> /\ draft.data = <<>> /\ progress \in Progresses
  BY <1>1, <1>2 DEF Blank, Drafts, Progresses
<1>4. 0 < CounterRange /\ CounterRange \in Nat
  BY SealingAssumption
<1>5. ASSUME NEW e \in BOOLEAN, NEW c, c = single_message(0, <<StreamIv, 0>>, e)
      PROVE  c \in Ciphers /\ Fresh(c) /\ c.nonce = <<0, 0>> /\ c.encrypt = e /\ c.single /\ ~c.finished
  <2>1. <<0, 0>> \in Nonces
    BY <1>2, NonceOf
  <2> QED BY <1>2, <1>5, <2>1 DEF single_message, StreamIv, Ciphers, Fresh
<1>6. ASSUME NEW e \in BOOLEAN, NEW c, c = implicit_counter(0, 0, e)
      PROVE  /\ c \in Ciphers /\ Fresh(c) /\ c.nonce = <<0, 0>> /\ c.encrypt = e /\ ~c.single /\ ~c.finished
             /\ c.counter = (0 + 1) % CounterRange
  <2>1. PICK d : d = [single_message(0, <<>>, e) EXCEPT !.single = FALSE, !.counter = 0]
    OBVIOUS
  <2>2. d = [key |-> 0, encrypt |-> e, single |-> FALSE, finished |-> FALSE, nonce |-> <<>>, aad |-> <<>>, plain |-> <<>>, counter |-> 0]
    BY <2>1 DEF single_message
  <2>3. c = next_nonce(d)
    BY <1>6, <2>1 DEF implicit_counter
  <2>4. PICK n \in Nat : n = (0 + 1) % CounterRange
    BY <1>2, NextCounter
  <2>5. PICK x \in Nonces : x = <<0, 0>>
    BY <1>2, NonceOf
  <2>6. c = [[d EXCEPT !.counter = n] EXCEPT !.nonce = x, !.aad = <<>>, !.plain = <<>>]
    BY <2>2, <2>3, <2>4, <2>5 DEF next_nonce, gcm_start, StreamIv
  <2>7. c = [key |-> 0, encrypt |-> e, single |-> FALSE, finished |-> FALSE, nonce |-> x, aad |-> <<>>, plain |-> <<>>, counter |-> n]
    BY <2>2, <2>6
  <2>8. c \in Ciphers
    BY <1>2, <2>7 DEF Ciphers
  <2> QED BY <2>4, <2>5, <2>7, <2>8 DEF Fresh
<1>7. /\ enc \in Ciphers /\ Fresh(enc) /\ enc.nonce = <<0, 0>> /\ enc.encrypt = TRUE
      /\ ~enc.single => enc.counter = (0 + 1) % CounterRange
  BY <1>5, <1>6 DEF StreamInit
<1>8. dec \in Ciphers /\ Fresh(dec) /\ dec.encrypt = FALSE /\ ~dec.finished
  BY <1>5, <1>6 DEF StreamInit
<1>9. Sends(enc, draft, 0)
  <2>1. 0 + 1 < CounterRange => (0 + 1) % CounterRange = 0 + 1
    BY <1>2, NextCounter
  <2> QED BY <1>3, <1>7, <2>1, EmptyUnder DEF Sends, Fresh
<1>10. Receives(dec, reading, progress)
  BY <1>1, <1>3, <1>8 DEF Receives
<1>11. \A i \in 1..Len(msgs) : Sent(msgs[i], i)
  BY <1>1
<1> QED BY <1>1, <1>2, <1>9, <1>10, <1>11 DEF StreamInv

\* The sender's steps.
LEMMA EncryptPieceStep ==
    ASSUME StreamInv, NEW v \in OctetValues, EncryptPiece(<<Plain(v)>>)
    PROVE  StreamInv'
<1>1. PICK d : d = <<Plain(v)>>
  OBVIOUS
<1>2. d \in Seq(Octets)
  <2>1. Plain(v) \in Octets
    BY DEF Plain, Octets
  <2> QED BY <1>1, <2>1
<1>3. /\ draft' = [draft EXCEPT !.data = @ \o cipher(enc, d)] /\ enc' = process(enc, d)
      /\ dec' = dec /\ msgs' = msgs /\ reading' = reading /\ progress' = progress /\ verdicts' = verdicts
  BY <1>1 DEF EncryptPiece
<1>4. /\ enc \in Ciphers /\ draft \in Drafts /\ enc.encrypt /\ draft.aad = enc.aad
      /\ draft.data = Under(0, enc.nonce, 0, enc.plain)
  BY DEF StreamInv, Sends
<1>5. /\ enc' \in Ciphers /\ enc'.plain = enc.plain \o d /\ enc'.aad = enc.aad /\ enc'.nonce = enc.nonce
      /\ enc'.counter = enc.counter /\ enc'.encrypt = enc.encrypt /\ enc'.single = enc.single /\ enc'.finished = enc.finished
  BY <1>2, <1>3, <1>4, ProcessIs
<1>6. enc.plain \in Seq(Octets) /\ enc.nonce \in Nonces /\ 0 \in Int
  BY <1>4 DEF Ciphers
<1>7. enc.nonce \in Seq(Nat)
  BY <1>6, NonceIs
<1>8. draft.data \o cipher(enc, d) = Under(0, enc.nonce, 0, enc.plain \o d)
  <2>1. cipher(enc, d) = Under(0, enc.nonce, Len(enc.plain), d)
    BY <1>2, <1>4, CipherIs
  <2>2. Under(0, enc.nonce, 0, enc.plain) \o Under(0, enc.nonce, Len(enc.plain), d) = Under(0, enc.nonce, 0, enc.plain \o d)
    BY <1>2, <1>6, <1>7, UnderPieces
  <2> QED BY <1>4, <2>1, <2>2
<1>9. PICK x \in Seq(Octets) : x = Under(0, enc.nonce, 0, enc.plain \o d)
  <2>1. enc.plain \o d \in Seq(Octets) /\ 0 \in Nat
    BY <1>2, <1>6
  <2> QED BY <1>6, <1>7, <2>1, UnderOctets
<1>10. draft' \in Drafts /\ draft'.aad = draft.aad /\ draft'.data = x
  <2>1. draft' = [draft EXCEPT !.data = x]
    BY <1>3, <1>8, <1>9
  <2> QED BY <1>4, <1>9, <2>1 DEF Drafts
<1>11. Sends(enc', draft', Len(msgs))
  <2>1. enc'.encrypt /\ draft'.aad = enc'.aad /\ draft'.data = Under(0, enc'.nonce, 0, enc'.plain)
    BY <1>4, <1>5, <1>9, <1>10
  <2>2. /\ ~enc'.finished /\ Len(msgs) < CounterRange => enc'.nonce = <<0, Len(msgs)>>
        /\ ~enc'.single /\ Len(msgs) + 1 < CounterRange => enc'.counter = Len(msgs) + 1
    BY <1>5 DEF StreamInv, Sends
  <2> QED BY <1>5, <1>10, <2>1, <2>2 DEF Sends
<1> QED BY <1>3, <1>11 DEF StreamInv

LEMMA EncryptAuthStep ==
    ASSUME StreamInv, NEW a \in OctetValues, EncryptAuth(a)
    PROVE  StreamInv'
<1>1. PICK d \in Seq(OctetValues) : d = <<a>>
  <2>1. <<a>> \in Seq(OctetValues)
    OBVIOUS
  <2> QED BY <2>1
<1>2. /\ draft' = [draft EXCEPT !.aad = d] /\ enc' = process_auth(enc, d) /\ draft.aad = <<>>
      /\ dec' = dec /\ msgs' = msgs /\ reading' = reading /\ progress' = progress /\ verdicts' = verdicts
  BY <1>1 DEF EncryptAuth
<1>3. /\ enc \in Ciphers /\ draft \in Drafts /\ enc.encrypt /\ draft.aad = enc.aad
      /\ draft.data = Under(0, enc.nonce, 0, enc.plain)
  BY DEF StreamInv, Sends
<1>4. /\ enc' \in Ciphers /\ enc'.plain = enc.plain /\ enc'.aad = d /\ enc'.nonce = enc.nonce
      /\ enc'.counter = enc.counter /\ enc'.encrypt = enc.encrypt /\ enc'.single = enc.single /\ enc'.finished = enc.finished
  <2>1. enc \in Ciphers /\ enc.aad = <<>>
    BY <1>2, <1>3
  <2>2. PICK c : c = process_auth(enc, d)
    OBVIOUS
  <2>3. /\ c \in Ciphers /\ c.plain = enc.plain /\ c.aad = d /\ c.nonce = enc.nonce /\ c.counter = enc.counter
        /\ c.encrypt = enc.encrypt /\ c.single = enc.single /\ c.finished = enc.finished
    BY <2>1, <2>2, AuthIs
  <2> QED BY <1>2, <2>2, <2>3
<1>5. draft' \in Drafts /\ draft'.aad = d /\ draft'.data = draft.data
  BY <1>2, <1>3 DEF Drafts
<1>6. Sends(enc', draft', Len(msgs))
  <2>1. enc'.encrypt /\ draft'.aad = enc'.aad /\ draft'.data = Under(0, enc'.nonce, 0, enc'.plain)
    BY <1>3, <1>4, <1>5
  <2>2. /\ ~enc'.finished /\ Len(msgs) < CounterRange => enc'.nonce = <<0, Len(msgs)>>
        /\ ~enc'.single /\ Len(msgs) + 1 < CounterRange => enc'.counter = Len(msgs) + 1
    BY <1>4 DEF StreamInv, Sends
  <2> QED BY <1>4, <1>5, <2>1, <2>2 DEF Sends
<1> QED BY <1>2, <1>6 DEF StreamInv

LEMMA EncryptTagStep ==
    ASSUME StreamInv, EncryptTag
    PROVE  StreamInv'
<1>1. /\ enc \in Ciphers /\ draft \in Drafts /\ enc.encrypt /\ draft.aad = enc.aad
      /\ draft.data = Under(0, enc.nonce, 0, enc.plain) /\ msgs \in Seq(Messages)
  BY DEF StreamInv, Sends
<1>2. PICK n \in Nat : n = Len(msgs)
  BY <1>1
<1>3. PICK m : m = [counter |-> enc.nonce[2], aad |-> draft.aad, data |-> draft.data, tag |-> tag(enc), plain |-> enc.plain]
  OBVIOUS
<1>4. /\ n < MaxMessages /\ ~enc.finished /\ msgs' = Append(msgs, m) /\ enc' = after_tag(enc) /\ draft' = Blank
      /\ dec' = dec /\ reading' = reading /\ progress' = progress /\ verdicts' = verdicts
  BY <1>2, <1>3 DEF EncryptTag
<1>5. n < CounterRange
  BY <1>4, SealingAssumption
<1>6. enc.nonce = <<0, n>> /\ enc.nonce[2] = n /\ enc.nonce \in Nonces
  BY <1>2, <1>4, <1>5, NonceOf DEF StreamInv, Sends
<1>7. tag(enc) = Seals(<<0, n>>, enc.aad, enc.plain) /\ tag(enc) \in Tags
  BY <1>1, <1>6 DEF tag, Seals, Ciphers, Tags
<1>8. m \in Messages /\ m.counter = n /\ m.tag = tag(enc) /\ m.aad = enc.aad /\ m.plain = enc.plain /\ m.data = draft.data
  <2>1. draft.aad \in Seq(OctetValues) /\ draft.data \in Seq(Octets) /\ enc.plain \in Seq(Octets)
    BY <1>1 DEF Drafts, Ciphers
  <2> QED BY <1>1, <1>3, <1>6, <1>7, <2>1 DEF Messages
<1>9. Sent(m, n + 1)
  <2>1. (n + 1) - 1 = n
    OBVIOUS
  <2> QED BY <1>1, <1>6, <1>7, <1>8, <2>1 DEF Sent
<1>10. msgs' \in Seq(Messages) /\ Len(msgs') = n + 1 /\ \A i \in 1..(n + 1) : msgs'[i] = IF i = n + 1 THEN m ELSE msgs[i]
  <2>1. m \in Messages
    BY <1>8
  <2> QED BY <1>1, <1>2, <1>4, <2>1
<1>11. \A i \in 1..Len(msgs') : Sent(msgs'[i], i)
  <2>1. \A i \in 1..(n + 1) : i # n + 1 => i \in 1..n
    OBVIOUS
  <2>2. \A i \in 1..n : Sent(msgs[i], i)
    BY <1>2 DEF StreamInv
  <2> QED BY <1>9, <1>10, <2>1, <2>2
<1>12. Sends(enc', draft', n + 1)
  <2>1. /\ enc' \in Ciphers /\ enc'.aad = <<>> /\ enc'.plain = <<>> /\ enc'.encrypt = enc.encrypt /\ enc'.single = enc.single
        /\ enc'.finished = (enc.single \/ enc.finished)
        /\ ~enc.single => enc'.nonce = <<0, enc.counter>> /\ enc'.counter = (enc.counter + 1) % CounterRange
    BY <1>1, <1>4, AfterTagIs DEF Fresh
  <2>2. <<>> \in Seq(OctetValues) /\ <<>> \in Seq(Octets)
    OBVIOUS
  <2>3. draft' \in Drafts /\ draft'.aad = <<>> /\ draft'.data = <<>>
    BY <1>4, <2>2 DEF Blank, Drafts
  <2>4. ~enc.single /\ n + 1 < CounterRange => enc.counter = n + 1
    BY <1>2 DEF StreamInv, Sends
  <2>5. ~enc'.finished /\ n + 1 < CounterRange => enc'.nonce = <<0, n + 1>>
    BY <2>1, <2>4
  <2>6. ~enc'.single /\ (n + 1) + 1 < CounterRange => enc'.counter = (n + 1) + 1
    <3> SUFFICES ASSUME ~enc.single, (n + 1) + 1 < CounterRange PROVE enc'.counter = (n + 1) + 1
      BY <2>1
    <3>1. n + 1 < CounterRange /\ n + 1 \in Nat
      BY SealingAssumption
    <3>2. enc'.counter = ((n + 1) + 1) % CounterRange
      BY <2>1, <2>4, <3>1
    <3> QED BY <3>1, <3>2, NextCounter
  <2> QED BY <1>1, <2>1, <2>3, <2>5, <2>6, EmptyUnder DEF Sends
<1> QED BY <1>4, <1>10, <1>11, <1>12 DEF StreamInv

\* The receiver's steps.
LEMMA StreamInvFrom ==
    ASSUME StreamInv, UNCHANGED <<enc, draft, msgs, verdicts>>, Receives(dec', reading', progress')
    PROVE  StreamInv'
BY DEF StreamInv

\* Octets given one piece after the other.
LEMMA OctetsGiven ==
    ASSUME NEW s \in Seq(Octets), NEW g \in Nat, NEW n \in Nat, g + n <= Len(s)
    PROVE  /\ SubSeq(s, 1, g) \in Seq(Octets) /\ Len(SubSeq(s, 1, g)) = g /\ SubSeq(s, g + 1, g + n) \in Seq(Octets)
           /\ SubSeq(s, 1, g) \o SubSeq(s, g + 1, g + n) = SubSeq(s, 1, g + n) /\ SubSeq(s, 1, 0) = <<>>
           /\ SubSeq(s, 1, Len(s)) = s
<1>1. Len(s) \in Nat /\ g <= Len(s)
  OBVIOUS
<1>2. PICK a : a = SubSeq(s, 1, g)
  OBVIOUS
<1>3. PICK b : b = SubSeq(s, g + 1, g + n)
  OBVIOUS
<1>4. PICK c : c = SubSeq(s, 1, g + n)
  OBVIOUS
<1>5. a \in Seq(Octets) /\ Len(a) = g /\ \A i \in 1..g : a[i] = s[i]
  BY <1>1, <1>2
<1>6. b \in Seq(Octets) /\ Len(b) = n /\ \A i \in 1..n : b[i] = s[g + i]
  BY <1>1, <1>3
<1>7. c \in Seq(Octets) /\ Len(c) = g + n /\ \A i \in 1..(g + n) : c[i] = s[i]
  BY <1>1, <1>4
<1>8. a \o b \in Seq(Octets) /\ Len(a \o b) = g + n /\ \A i \in 1..(g + n) : (a \o b)[i] = IF i <= g THEN a[i] ELSE b[i - g]
  <2>1. a \in Seq(Octets) /\ b \in Seq(Octets)
    BY <1>5, <1>6
  <2>2. /\ a \o b \in Seq(Octets) /\ Len(a \o b) = Len(a) + Len(b)
        /\ \A i \in 1..(Len(a) + Len(b)) : (a \o b)[i] = IF i <= Len(a) THEN a[i] ELSE b[i - Len(a)]
    BY <2>1
  <2> QED BY <1>5, <1>6, <2>2
<1>9. ASSUME NEW i \in 1..(g + n) PROVE (a \o b)[i] = c[i]
  <2>1. CASE i <= g
    <3>1. i \in 1..g
      BY <2>1
    <3> QED BY <1>5, <1>7, <1>8, <2>1, <3>1
  <2>2. CASE ~(i <= g)
    <3>1. i - g \in 1..n /\ g + (i - g) = i
      BY <2>2
    <3> QED BY <1>6, <1>7, <1>8, <2>2, <3>1
  <2> QED BY <2>1, <2>2
<1>10. a \o b = c
  BY <1>7, <1>8, <1>9, SeqEqual
<1>11. SubSeq(s, 1, 0) = <<>>
  OBVIOUS
<1>12. SubSeq(s, 1, Len(s)) = s
  <2>1. PICK x : x = SubSeq(s, 1, Len(s))
    OBVIOUS
  <2>2. x \in Seq(Octets) /\ Len(x) = Len(s) /\ \A i \in 1..Len(s) : x[i] = s[i]
    BY <1>1, <2>1
  <2>3. x = s
    BY <2>2, SeqEqual
  <2> QED BY <2>1, <2>3
<1> QED BY <1>2, <1>3, <1>4, <1>5, <1>6, <1>10, <1>11, <1>12

\* Nothing of a message that the receiver turns to was given to its cipher object yet.
LEMMA TurnsTo ==
    ASSUME NEW c \in Ciphers, Fresh(c), ~c.encrypt, ~c.finished, NEW r, Arrived(r), c.nonce = <<0, r.counter>>
    PROVE  Receives(c, r, [aad |-> FALSE, given |-> 0, plain |-> <<>>])
<1>1. PICK p : p = [aad |-> FALSE, given |-> 0, plain |-> <<>>]
  OBVIOUS
<1>2. p.aad = FALSE /\ p.given = 0 /\ p.plain = <<>> /\ p \in Progresses
  <2>1. <<>> \in Seq(Octets) /\ 0 \in Nat
    OBVIOUS
  <2> QED BY <1>1, <2>1 DEF Progresses
<1>3. r \in Arrivals /\ r # NoMessage /\ r.data \in Seq(Octets)
  BY SealingAssumption DEF Arrived, Arrivals
<1>4. Len(r.data) \in Nat /\ 0 <= Len(r.data)
  BY <1>3
<1>5. SubSeq(r.data, 1, p.given) = <<>>
  BY <1>2, <1>3, SubSeqEmpty
<1>6. Reads(c, r, p)
  BY <1>2, <1>4, <1>5, EmptyUnder DEF Reads, Fresh
<1> QED BY <1>1, <1>2, <1>3, <1>6 DEF Receives

LEMMA ReceiveStep ==
    ASSUME StreamInv, NEW i \in DOMAIN msgs, NEW sound \in BOOLEAN, NEW seeks \in BOOLEAN, Receive(i, sound, seeks)
    PROVE  StreamInv'
<1>1. PICK m : m = msgs[i]
  OBVIOUS
<1>2. PICK got : got = [sound |-> sound, meant |-> m.plain, counter |-> m.counter, aad |-> m.aad, tag |-> m.tag,
                        data |-> IF sound THEN m.data ELSE Changed(m.data)]
  OBVIOUS
<1>3. /\ sound \/ m.data # <<>>
      /\ IF seeks THEN ~dec.single ELSE reading = NoMessage /\ ~dec.finished /\ dec.nonce = <<0, m.counter>>
      /\ reading' = got /\ progress' = [aad |-> FALSE, given |-> 0, plain |-> <<>>]
      /\ dec' = IF seeks THEN seek(dec, m.counter) ELSE dec
      /\ UNCHANGED <<enc, draft, msgs, verdicts>>
  BY <1>1, <1>2 DEF Receive, StreamIv
<1>4. /\ m \in Messages /\ m.tag = Seals(<<0, m.counter>>, m.aad, m.plain)
      /\ m.data = Under(0, <<0, m.counter>>, 0, m.plain)
  <2>1. DOMAIN msgs = 1..Len(msgs)
    BY DEF StreamInv
  <2> QED BY <1>1, <2>1 DEF StreamInv, Sent
<1>5. m.data \in Seq(Octets) /\ m.plain \in Seq(Octets) /\ m.counter \in Nat /\ m.aad \in Seq(OctetValues) /\ m.tag \in Tags
  BY <1>4 DEF Messages
<1>6. PICK d \in Seq(Octets) : d = IF sound THEN m.data ELSE Changed(m.data)
  BY <1>3, <1>5, DamagedOctets
<1>7. got \in Arrivals
  BY <1>2, <1>5, <1>6 DEF Arrivals
<1>8. got.sound = sound /\ got.meant = m.plain /\ got.counter = m.counter /\ got.aad = m.aad /\ got.tag = m.tag /\ got.data = d
  BY <1>2, <1>6
<1>9. sound \/ m.plain # <<>>
  BY <1>3, <1>4, EmptyUnder
<1>10. Arrived(got)
  <2>1. got.tag = Seals(<<0, got.counter>>, got.aad, got.meant)
    BY <1>4, <1>8
  <2>2. got.data = IF got.sound THEN Under(0, <<0, got.counter>>, 0, got.meant)
                   ELSE Changed(Under(0, <<0, got.counter>>, 0, got.meant))
    BY <1>4, <1>6, <1>8
  <2> QED BY <1>7, <1>8, <1>9, <2>1, <2>2 DEF Arrived
<1>11. /\ dec \in Ciphers /\ ~dec.encrypt /\ (dec.finished => dec.single)
       /\ reading = NoMessage => dec.finished \/ Fresh(dec)
  BY DEF StreamInv, Receives
<1>12. dec' \in Ciphers /\ Fresh(dec') /\ ~dec'.encrypt /\ ~dec'.finished /\ dec'.nonce = <<0, got.counter>>
  <2>1. CASE seeks
    <3>1. PICK c : c = [dec EXCEPT !.counter = m.counter]
      OBVIOUS
    <3>2. c \in Ciphers /\ c.counter = m.counter /\ c.encrypt = dec.encrypt /\ c.finished = dec.finished
      BY <1>5, <1>11, <3>1 DEF Ciphers
    <3>3. dec' = next_nonce(c)
      BY <1>3, <2>1, <3>1 DEF seek
    <3>4. /\ next_nonce(c) \in Ciphers /\ Fresh(next_nonce(c)) /\ next_nonce(c).nonce = <<0, c.counter>>
          /\ next_nonce(c).encrypt = c.encrypt /\ next_nonce(c).finished = c.finished
      BY <3>2, NextNonceIs
    <3> QED BY <1>3, <1>8, <1>11, <2>1, <3>2, <3>3, <3>4
  <2>2. CASE ~seeks
    BY <1>3, <1>8, <1>11, <2>2
  <2> QED BY <2>1, <2>2
<1>13. Receives(dec', got, [aad |-> FALSE, given |-> 0, plain |-> <<>>])
  BY <1>10, <1>12, TurnsTo
<1>14. Receives(dec', reading', progress')
  BY <1>3, <1>13
<1> QED BY <1>3, <1>14, StreamInvFrom

\* While a message is read.
LEMMA WhileReading ==
    ASSUME StreamInv, reading # NoMessage
    PROVE  /\ dec \in Ciphers /\ progress \in Progresses /\ ~dec.encrypt /\ (dec.finished => dec.single)
           /\ reading \in Arrivals /\ Arrived(reading) /\ ~dec.finished /\ dec.nonce = <<0, reading.counter>>
           /\ progress.given <= Len(reading.data)
           /\ dec.plain = Under(0, dec.nonce, 0, SubSeq(reading.data, 1, progress.given)) /\ progress.plain = dec.plain
           /\ dec.aad = (IF progress.aad THEN reading.aad ELSE <<>>)
           /\ progress.given \in Nat /\ progress.aad \in BOOLEAN /\ progress.plain \in Seq(Octets)
           /\ reading.data \in Seq(Octets) /\ reading.aad \in Seq(OctetValues) /\ dec.nonce \in Seq(Nat) /\ dec.plain \in Seq(Octets)
<1>1. /\ dec \in Ciphers /\ progress \in Progresses /\ ~dec.encrypt /\ (dec.finished => dec.single) /\ Reads(dec, reading, progress)
  BY DEF StreamInv, Receives
<1>2. reading \in Arrivals
  BY <1>1 DEF Reads, Arrived
<1>3. progress.given \in Nat /\ progress.aad \in BOOLEAN /\ progress.plain \in Seq(Octets)
  BY <1>1 DEF Progresses
<1>4. reading.data \in Seq(Octets) /\ reading.aad \in Seq(OctetValues)
  BY <1>2 DEF Arrivals
<1>5. dec.nonce \in Nonces /\ dec.plain \in Seq(Octets)
  BY <1>1 DEF Ciphers
<1>6. dec.nonce \in Seq(Nat)
  BY <1>5, NonceIs
<1> QED BY <1>1, <1>2, <1>3, <1>4, <1>5, <1>6 DEF Reads

LEMMA DecryptPieceStep ==
    ASSUME StreamInv, NEW n \in 1..MaxData, DecryptPiece(n)
    PROVE  StreamInv'
<1>1. PICK g : g = progress.given
  OBVIOUS
<1>2. PICK s : s = reading.data
  OBVIOUS
<1>3. PICK d : d = SubSeq(s, g + 1, g + n)
  OBVIOUS
<1>4. /\ reading # NoMessage /\ g + n <= Len(s) /\ reading' = reading
      /\ progress' = [progress EXCEPT !.given = @ + n, !.plain = @ \o cipher(dec, d)] /\ dec' = process(dec, d)
      /\ UNCHANGED <<enc, draft, msgs, verdicts>>
  BY <1>1, <1>2, <1>3 DEF DecryptPiece
<1>5. /\ dec \in Ciphers /\ progress \in Progresses /\ ~dec.encrypt /\ (dec.finished => dec.single)
      /\ Arrived(reading) /\ ~dec.finished /\ dec.nonce = <<0, reading.counter>>
      /\ dec.plain = Under(0, dec.nonce, 0, SubSeq(s, 1, g)) /\ progress.plain = dec.plain
      /\ dec.aad = (IF progress.aad THEN reading.aad ELSE <<>>)
      /\ g \in Nat /\ s \in Seq(Octets) /\ dec.nonce \in Seq(Nat) /\ dec.plain \in Seq(Octets)
  BY <1>1, <1>2, <1>4, WhileReading
<1>6. n \in Nat /\ g + n \in Nat /\ 0 \in Int
  BY <1>5, SealingAssumption
<1>7. PICK a : a = SubSeq(s, 1, g)
  OBVIOUS
<1>8. a \in Seq(Octets) /\ Len(a) = g /\ d \in Seq(Octets) /\ a \o d = SubSeq(s, 1, g + n)
  <2>1. s \in Seq(Octets) /\ g \in Nat /\ n \in Nat /\ g + n <= Len(s)
    BY <1>4, <1>5, <1>6
  <2>2. /\ SubSeq(s, 1, g) \in Seq(Octets) /\ Len(SubSeq(s, 1, g)) = g /\ SubSeq(s, g + 1, g + n) \in Seq(Octets)
        /\ SubSeq(s, 1, g) \o SubSeq(s, g + 1, g + n) = SubSeq(s, 1, g + n)
    BY <2>1, OctetsGiven
  <2> QED BY <1>3, <1>7, <2>2
<1>9. Len(dec.plain) = g
  <2>1. Len(Under(0, dec.nonce, 0, a)) = Len(a)
    <3>1. a \in Seq(Octets) /\ dec.nonce \in Seq(Nat) /\ 0 \in Int /\ 0 \in Nat
      BY <1>5, <1>8
    <3> QED BY <3>1, UnderOctets
  <2> QED BY <1>5, <1>7, <1>8, <2>1
<1>10. PICK u \in Seq(Octets) : u = cipher(dec, d)
  <2>1. cipher(dec, d) = Under(0, dec.nonce, Len(dec.plain), d)
    BY <1>5, <1>8, CipherIs
  <2>2. Under(0, dec.nonce, g, d) \in Seq(Octets)
    BY <1>5, <1>6, <1>8, UnderOctets
  <2> QED BY <1>9, <2>1, <2>2
<1>11. dec.plain \o u = Under(0, dec.nonce, 0, SubSeq(s, 1, g + n))
  <2>1. u = Under(0, dec.nonce, Len(a), d)
    BY <1>5, <1>8, <1>9, <1>10, CipherIs
  <2>2. Under(0, dec.nonce, 0, a) \o Under(0, dec.nonce, Len(a), d) = Under(0, dec.nonce, 0, a \o d)
    BY <1>5, <1>6, <1>8, UnderPieces
  <2> QED BY <1>5, <1>7, <1>8, <2>1, <2>2
<1>12. /\ dec' \in Ciphers /\ dec'.plain = dec.plain \o u /\ dec'.aad = dec.aad /\ dec'.nonce = dec.nonce
       /\ dec'.encrypt = dec.encrypt /\ dec'.single = dec.single /\ dec'.finished = dec.finished
  <2>1. u = IF dec.encrypt THEN d ELSE cipher(dec, d)
    BY <1>5, <1>10
  <2> QED BY <1>4, <1>5, <1>8, <2>1, ProcessIs
<1>13. progress' \in Progresses /\ progress'.aad = progress.aad /\ progress'.given = g + n /\ progress'.plain = dec.plain \o u
  <2>1. PICK x \in Seq(Octets) : x = progress.plain \o u
    <3>1. progress.plain \in Seq(Octets)
      BY <1>5
    <3>2. progress.plain \o u \in Seq(Octets)
      BY <3>1
    <3> QED BY <3>2
  <2>2. progress' = [progress EXCEPT !.given = g + n, !.plain = x]
    BY <1>1, <1>4, <1>10, <2>1
  <2> QED BY <1>5, <1>6, <2>1, <2>2 DEF Progresses
<1>14. Reads(dec', reading, progress')
  BY <1>2, <1>4, <1>5, <1>11, <1>12, <1>13 DEF Reads
<1>15. Receives(dec', reading', progress')
  BY <1>4, <1>5, <1>12, <1>13, <1>14 DEF Receives
<1> QED BY <1>4, <1>15, StreamInvFrom

LEMMA DecryptAuthStep ==
    ASSUME StreamInv, DecryptAuth
    PROVE  StreamInv'
<1>1. /\ reading # NoMessage /\ ~progress.aad /\ progress' = [progress EXCEPT !.aad = TRUE]
      /\ dec' = process_auth(dec, reading.aad) /\ reading' = reading /\ UNCHANGED <<enc, draft, msgs, verdicts>>
  BY DEF DecryptAuth
<1>2. /\ dec \in Ciphers /\ progress \in Progresses /\ ~dec.encrypt /\ (dec.finished => dec.single)
      /\ Arrived(reading) /\ ~dec.finished /\ dec.nonce = <<0, reading.counter>>
      /\ progress.given <= Len(reading.data)
      /\ dec.plain = Under(0, dec.nonce, 0, SubSeq(reading.data, 1, progress.given)) /\ progress.plain = dec.plain
      /\ dec.aad = <<>> /\ reading.aad \in Seq(OctetValues)
  BY <1>1, WhileReading
<1>3. /\ dec' \in Ciphers /\ dec'.plain = dec.plain /\ dec'.aad = reading.aad /\ dec'.nonce = dec.nonce
      /\ dec'.encrypt = dec.encrypt /\ dec'.single = dec.single /\ dec'.finished = dec.finished
  BY <1>1, <1>2, AuthIs
<1>4. progress' \in Progresses /\ progress'.aad = TRUE /\ progress'.given = progress.given /\ progress'.plain = progress.plain
  BY <1>1, <1>2 DEF Progresses
<1>5. Reads(dec', reading, progress')
  BY <1>2, <1>3, <1>4 DEF Reads
<1>6. Receives(dec', reading', progress')
  BY <1>1, <1>2, <1>3, <1>4, <1>5 DEF Receives
<1> QED BY <1>1, <1>6, StreamInvFrom

\* The tag is that of the message exactly if it arrived as it was sent.
LEMMA DecryptTagStep ==
    ASSUME StreamInv, DecryptTag
    PROVE  StreamInv'
<1>1. PICK w : w = [sound |-> reading.sound, meant |-> reading.meant, plain |-> progress.plain, accepted |-> tag(dec) = reading.tag]
  OBVIOUS
<1>2. /\ reading # NoMessage /\ progress.aad /\ progress.given = Len(reading.data) /\ verdicts' = verdicts \cup {w}
      /\ dec' = after_tag(dec) /\ reading' = NoMessage /\ UNCHANGED <<enc, draft, msgs, progress>>
  BY <1>1 DEF DecryptTag
<1>3. PICK x : x = <<0, reading.counter>>
  OBVIOUS
<1>4. PICK p : p = reading.meant
  OBVIOUS
<1>5. /\ dec \in Ciphers /\ progress \in Progresses /\ ~dec.encrypt /\ (dec.finished => dec.single)
      /\ reading \in Arrivals /\ Arrived(reading) /\ dec.nonce = x /\ x \in Seq(Nat) /\ dec.aad = reading.aad
      /\ dec.plain = Under(0, x, 0, SubSeq(reading.data, 1, Len(reading.data))) /\ progress.plain = dec.plain
      /\ reading.data \in Seq(Octets)
  BY <1>2, <1>3, WhileReading
<1>6. reading.sound \in BOOLEAN /\ p \in Seq(Octets) /\ 0 \in Int
  BY <1>4, <1>5 DEF Arrivals
<1>7. dec.plain = Under(0, x, 0, reading.data)
  <2>1. Len(reading.data) \in Nat /\ Len(reading.data) + 0 <= Len(reading.data) /\ 0 \in Nat
    BY <1>5
  <2>2. SubSeq(reading.data, 1, Len(reading.data)) = reading.data
    BY <1>5, <2>1, OctetsGiven
  <2> QED BY <1>5, <2>2
<1>8. tag(dec) = Seals(x, reading.aad, dec.plain) /\ reading.tag = Seals(x, reading.aad, p)
  <2>1. dec.key = 0
    BY <1>5 DEF Ciphers
  <2> QED BY <1>3, <1>4, <1>5, <2>1 DEF tag, Seals, Arrived
<1>9. tag(dec) = reading.tag <=> dec.plain = p
  BY <1>8 DEF Seals
<1>10. ASSUME reading.sound PROVE dec.plain = p
  <2>1. reading.data = Under(0, x, 0, p)
    BY <1>3, <1>4, <1>5, <1>10 DEF Arrived
  <2>2. 0 \in Nat
    OBVIOUS
  <2> QED BY <1>5, <1>6, <1>7, <2>1, <2>2, UnderTwice
<1>11. ASSUME ~reading.sound PROVE dec.plain # p
  <2>1. reading.data = Changed(Under(0, x, 0, p)) /\ p # <<>>
    BY <1>3, <1>4, <1>5, <1>11 DEF Arrived
  <2> QED BY <1>5, <1>6, <1>7, <2>1, DamageSeen
<1>12. Verdict(w)
  <2>1. w.sound = reading.sound /\ w.meant = p /\ w.plain = dec.plain /\ w.accepted = (tag(dec) = reading.tag)
    BY <1>1, <1>4, <1>5
  <2>2. (tag(dec) = reading.tag) = reading.sound
    <3>1. (tag(dec) = reading.tag) \in BOOLEAN /\ ((tag(dec) = reading.tag) <=> reading.sound)
      BY <1>9, <1>10, <1>11
    <3> QED BY <1>6, <3>1
  <2> QED BY <1>10, <2>1, <2>2 DEF Verdict
<1>13. Receives(dec', reading', progress')
  <2>1. /\ dec' \in Ciphers /\ Fresh(dec') /\ dec'.encrypt = dec.encrypt /\ dec'.single = dec.single
        /\ dec'.finished = (dec.single \/ dec.finished)
    BY <1>2, <1>5, AfterTagIs
  <2> QED BY <1>2, <1>5, <2>1 DEF Receives
<1> QED BY <1>2, <1>12, <1>13 DEF StreamInv

-----------------------------------------------------------------------------
(* Envelopes.                                                              *)

Entry(id, k, sym, r) == [key_id |-> construct_id(id), data |-> public_key_encrypt(k, sym, r)]
KeyEntries == {Entry(x[1], x[2], x[3], x[4]) : x \in PrivateKeys \X PrivateKeys \X {1, -1} \X Nat}
Envelopers == [data : Seq(Octets), sym : {1}, keys : Seq(KeyEntries), added : SUBSET PrivateKeys]
LateKeys == [id : PrivateKeys, right : BOOLEAN]
ContentTags == [key : {1}, nonce : Seq(Nat), aad : Seq(Nat), plain : Seq(Octets)]
Contents ==
    [keys : Seq(KeyEntries), iv : Nat, encrypted : Seq(Octets), tag : ContentTags, first : SUBSET PrivateKeys,
     late : Seq(LateKeys), sound : BOOLEAN]

\* The first n entries are for the keys the enveloper was given, with the envelope's key.
FirstEntries(entries, n, added) ==
    /\ \A k \in added : k.valid /\ \E i \in 1..n : entries[i].key_id = construct_id(k)
    /\ \A i \in 1..n : \E k \in added, r \in Nat : entries[i] = Entry(k, k, 1, r)
\* An entry that was added to the envelope itself.
LateEntry(e, l) ==
    \E k \in PrivateKeys, sym \in {1, -1}, r \in Nat :
        k.valid /\ e = Entry(l.id, k, sym, r) /\ (l.right <=> sym = 1 /\ k = l.id)

SealedWith(c, d) ==
    /\ c.tag = [key |-> 1, nonce |-> <<c.iv>>, aad |-> <<c.iv>>, plain |-> d]
    /\ c.encrypted = IF c.sound THEN Under(1, <<c.iv>>, 0, d) ELSE Changed(Under(1, <<c.iv>>, 0, d))
Enveloped(c, d) ==
    /\ c \in Contents /\ SealedWith(c, d)
    /\ \E n \in Nat :
          /\ Len(c.keys) = n + Len(c.late) /\ FirstEntries(c.keys, n, c.first)
          /\ \A j \in 1..Len(c.late) : LateEntry(c.keys[n + j], c.late[j])

EnvelopeInv ==
    /\ random \in Nat /\ env \in Envelopers /\ env.data # <<>> /\ FirstEntries(env.keys, Len(env.keys), env.added)
    /\ content # NoMessage => Enveloped(content, env.data)

\* Who may open an entry, and what is in it.
LEMMA EntryOpens ==
    ASSUME NEW k \in PrivateKeys, NEW l \in PrivateKeys, NEW sym, NEW r
    PROVE  /\ k.valid /\ l = k => decrypt_key(k, Entry(k, l, sym, r)) = [ok |-> TRUE, plain |-> sym]
           /\ l # k => decrypt_key(k, Entry(k, l, sym, r)) = Bad("bad_ciphertext")
<1>1. PICK e : e = Entry(k, l, sym, r)
  OBVIOUS
<1>2. PICK ct : ct = public_key_encrypt(l, sym, r)
  OBVIOUS
<1>3. e.key_id = construct_id(k) /\ e.data = ct
  BY <1>1, <1>2 DEF Entry
<1>4. decrypt_key(k, e) = private_key_decrypt(k, ct)
  BY <1>3 DEF decrypt_key
<1>5. /\ ct.version = 1 /\ ct.suite = l.suite /\ ct.ct_x = <<"ephemeral", r>> /\ ct.ct_pq = <<l.pq, r>>
      /\ ct.sealed.aad = construct_id(l) /\ ct.sealed.plain = sym /\ ct.sealed.key = kem_encapsulate(l, r).key
  BY <1>2 DEF public_key_encrypt, kem_encapsulate
<1>6. ASSUME k.valid, l = k PROVE private_key_decrypt(k, ct) = [ok |-> TRUE, plain |-> sym]
  <2>1. kem_decapsulate(k, ct.ct_x, ct.ct_pq) = kem_encapsulate(k, r).key
    <3>1. ct.ct_pq[1] = k.pq
      BY <1>5, <1>6
    <3> QED BY <1>5, <1>6, <3>1 DEF kem_decapsulate, kem_encapsulate
  <2>2. parse_ciphertext(k, ct) /\ open(kem_decapsulate(k, ct.ct_x, ct.ct_pq), construct_id(k), ct)
    BY <1>5, <1>6, <2>1 DEF parse_ciphertext, open
  <2> QED BY <1>5, <1>6, <2>2 DEF private_key_decrypt
<1>7. ASSUME l # k PROVE private_key_decrypt(k, ct) = Bad("bad_ciphertext")
  <2>1. construct_id(l) # construct_id(k)
    BY <1>7, KeyAssumption
  <2>2. ~open(kem_decapsulate(k, ct.ct_x, ct.ct_pq), construct_id(k), ct)
    BY <1>5, <2>1 DEF open
  <2> QED BY <2>2 DEF private_key_decrypt
<1> QED BY <1>1, <1>4, <1>6, <1>7

\* Sealing the data.
LEMMA CipherFresh ==
    ASSUME NEW c, c.plain = <<>>, NEW d \in Seq(Octets)
    PROVE  cipher(c, d) = Under(c.key, c.nonce, 0, d)
<1>1. DOMAIN d = 1..Len(d) /\ Len(c.plain) = 0
  OBVIOUS
<1>2. ASSUME NEW i \in DOMAIN d
      PROVE  [d[i] EXCEPT !.keystream = SymDiff(@, {<<c.key, c.nonce, Len(c.plain) + i>>})] = Combined(c.key, c.nonce, 0, i, d[i])
  <2>1. d[i] \in Octets
    BY <1>1
  <2>2. PICK x : x = SymDiff(d[i].keystream, {<<c.key, c.nonce, 0 + i>>})
    OBVIOUS
  <2>3. [d[i] EXCEPT !.keystream = x] = [v |-> d[i].v, keystream |-> x]
    BY <2>1 DEF Octets
  <2> QED BY <1>1, <2>2, <2>3 DEF Combined
<1> QED BY <1>2 DEF cipher, Under

\* The cipher object after the iv and the data went through it.
WentThrough(sym, iv, encrypts, d) == process(process_auth(single_message(sym, <<iv>>, encrypts), <<iv>>), d)
HasTaken(c, sym, iv, encrypts, d) ==
    /\ cipher(single_message(sym, <<iv>>, encrypts), d) = Under(sym, <<iv>>, 0, d)
    /\ c.plain = (IF encrypts THEN d ELSE Under(sym, <<iv>>, 0, d))
    /\ tag(c) = [key |-> sym, nonce |-> <<iv>>, aad |-> <<iv>>, plain |-> c.plain]
LEMMA Through ==
    ASSUME NEW sym \in Int, NEW iv \in Nat, NEW encrypts \in BOOLEAN, NEW d \in Seq(Octets)
    PROVE  HasTaken(WentThrough(sym, iv, encrypts, d), sym, iv, encrypts, d)
<1>0. PICK c : c = WentThrough(sym, iv, encrypts, d)
  OBVIOUS
<1>1. PICK a : a = single_message(sym, <<iv>>, encrypts)
  OBVIOUS
<1>2. a = [key |-> sym, encrypt |-> encrypts, single |-> TRUE, finished |-> FALSE, nonce |-> <<iv>>,
           aad |-> <<>>, plain |-> <<>>, counter |-> 0]
  BY <1>1 DEF single_message
<1>3. cipher(a, d) = Under(sym, <<iv>>, 0, d)
  BY <1>2, CipherFresh
<1>4. <<>> \o <<iv>> = <<iv>>
  OBVIOUS
<1>5. PICK b : b = process_auth(a, <<iv>>)
  OBVIOUS
<1>6. b = [key |-> sym, encrypt |-> encrypts, single |-> TRUE, finished |-> FALSE, nonce |-> <<iv>>,
           aad |-> <<iv>>, plain |-> <<>>, counter |-> 0]
  BY <1>2, <1>4, <1>5 DEF process_auth
<1>7. cipher(b, d) = Under(sym, <<iv>>, 0, d)
  BY <1>6, CipherFresh
<1>8. <<iv>> \in Seq(Nat) /\ 0 \in Nat
  OBVIOUS
<1>9. Under(sym, <<iv>>, 0, d) \in Seq(Octets)
  BY <1>8, UnderOctets
<1>10. PICK p \in Seq(Octets) : p = IF encrypts THEN d ELSE Under(sym, <<iv>>, 0, d)
  BY <1>9
<1>11. <<>> \o p = p
  OBVIOUS
<1>12. c = [b EXCEPT !.plain = @ \o (IF b.encrypt THEN d ELSE cipher(b, d))]
  BY <1>0, <1>1, <1>5 DEF process, WentThrough
<1>13. c = [b EXCEPT !.plain = p]
  BY <1>6, <1>7, <1>10, <1>11, <1>12
<1>14. c.key = sym /\ c.nonce = <<iv>> /\ c.aad = <<iv>> /\ c.plain = p
  BY <1>6, <1>13
<1> QED BY <1>0, <1>1, <1>3, <1>10, <1>14 DEF tag, HasTaken

LEMMA DecryptIs ==
    ASSUME NEW c \in Contents, NEW d \in Seq(Octets), d # <<>>, SealedWith(c, d), NEW sym \in {1, -1}
    PROVE  decrypt(c, sym).ok = (sym = 1 /\ c.sound) /\ (decrypt(c, sym).ok => decrypt(c, sym).plain = d)
<1>1. c.iv \in Nat /\ c.encrypted \in Seq(Octets) /\ c.sound \in BOOLEAN /\ sym \in Int
  BY DEF Contents
<1>2. PICK e : e = process(process_auth(single_message(sym, <<c.iv>>, FALSE), <<c.iv>>), c.encrypted)
  OBVIOUS
<1>3. PICK x \in Seq(Nat) : x = <<c.iv>>
  <2>1. <<c.iv>> \in Seq(Nat)
    BY <1>1
  <2> QED BY <2>1
<1>4. e.plain = Under(sym, x, 0, c.encrypted) /\ tag(e) = [key |-> sym, nonce |-> x, aad |-> x, plain |-> e.plain]
  <2>1. PICK iv \in Nat : iv = c.iv
    BY <1>1
  <2>2. PICK q \in Seq(Octets) : q = c.encrypted
    BY <1>1
  <2>3. e = WentThrough(sym, iv, FALSE, q)
    BY <1>2, <2>1, <2>2 DEF WentThrough
  <2>4. sym \in Int /\ FALSE \in BOOLEAN
    BY <1>1
  <2>5. HasTaken(WentThrough(sym, iv, FALSE, q), sym, iv, FALSE, q)
    BY <2>4, Through, Zenon
  <2>6. HasTaken(e, sym, iv, FALSE, q)
    BY <2>3, <2>5
  <2> QED BY <1>3, <2>1, <2>2, <2>6 DEF HasTaken
<1>5. decrypt(c, sym) = IF tag(e) = c.tag THEN [ok |-> TRUE, plain |-> e.plain] ELSE Bad("invalid_tag")
  BY <1>2 DEF decrypt
<1>6. /\ c.tag = [key |-> 1, nonce |-> x, aad |-> x, plain |-> d]
      /\ c.encrypted = IF c.sound THEN Under(1, x, 0, d) ELSE Changed(Under(1, x, 0, d))
  BY <1>3 DEF SealedWith
<1>7. tag(e) = c.tag <=> sym = 1 /\ e.plain = d
  BY <1>4, <1>6
<1>8. ASSUME sym = 1, c.sound PROVE e.plain = d
  <2>1. e.plain = Under(1, x, 0, Under(1, x, 0, d)) /\ 1 \in Int /\ 0 \in Nat
    BY <1>4, <1>6, <1>8
  <2> QED BY <2>1, UnderTwice
<1>9. ASSUME sym = 1, ~c.sound PROVE e.plain # d
  <2>1. e.plain = Under(1, x, 0, Changed(Under(1, x, 0, d))) /\ 1 \in Int
    BY <1>4, <1>6, <1>9
  <2> QED BY <2>1, DamageSeen
<1>10. tag(e) = c.tag <=> sym = 1 /\ c.sound
  BY <1>7, <1>8, <1>9
<1>11. CASE tag(e) = c.tag
  <2>1. decrypt(c, sym).ok = TRUE /\ decrypt(c, sym).plain = e.plain
    BY <1>5, <1>11
  <2> QED BY <1>7, <1>10, <1>11, <2>1
<1>12. CASE tag(e) # c.tag
  <2>1. decrypt(c, sym).ok = FALSE
    BY <1>5, <1>12 DEF Bad
  <2>2. (sym = 1 /\ c.sound) = FALSE
    BY <1>10, <1>12
  <2> QED BY <2>1, <2>2
<1> QED BY <1>11, <1>12

LEMMA LeastOne ==
    ASSUME NEW U \in SUBSET Nat, U # {}
    PROVE  Min(U) \in U /\ \A y \in U : Min(U) <= y
<1>1. PICK m \in U : \A y \in U : ~(<<y, m>> \in OpToRel(<, Nat))
  BY WFMin, NatLessThanWellFounded
<1>2. \A y \in U : ~(y < m)
  BY <1>1 DEF OpToRel
<1>3. \A y \in U : m <= y
  BY <1>2
<1> QED BY <1>3 DEF Min

\* An envelope is opened by exactly those it is meant for.
LEMMA EnvelopeOpens ==
    ASSUME EnvelopeInv, content # NoMessage, NEW k \in PrivateKeys, NEW o, o = decrypt_envelope(content, k)
    PROVE  (o.ok <=> (Meant(k) /\ content.sound)) /\ (o.ok => o.plain = env.data)
<1>1. PICK c : c = content
  OBVIOUS
<1>2. PICK d : d = env.data
  OBVIOUS
<1>3. c \in Contents /\ SealedWith(c, d) /\ d \in Seq(Octets) /\ d # <<>>
  BY <1>1, <1>2 DEF EnvelopeInv, Enveloped, Envelopers
<1>4. PICK n \in Nat : /\ Len(c.keys) = n + Len(c.late) /\ FirstEntries(c.keys, n, c.first)
                       /\ \A j \in 1..Len(c.late) : LateEntry(c.keys[n + j], c.late[j])
  BY <1>1 DEF EnvelopeInv, Enveloped
<1>5. /\ Len(c.late) \in Nat /\ DOMAIN c.late = 1..Len(c.late) /\ DOMAIN c.keys = 1..(n + Len(c.late)) /\ c.sound \in BOOLEAN
      /\ c.first \subseteq PrivateKeys /\ \A j \in 1..Len(c.late) : c.late[j].id \in PrivateKeys /\ c.late[j].right \in BOOLEAN
  <2>1. c.late \in Seq(LateKeys) /\ c.keys \in Seq(KeyEntries) /\ c.sound \in BOOLEAN /\ c.first \in SUBSET PrivateKeys
    BY <1>3 DEF Contents
  <2>2. Len(c.late) \in Nat /\ DOMAIN c.late = 1..Len(c.late) /\ DOMAIN c.keys = 1..Len(c.keys)
    BY <2>1
  <2>3. \A j \in 1..Len(c.late) : c.late[j] \in LateKeys
    BY <2>1
  <2>4. \A j \in 1..Len(c.late) : c.late[j].id \in PrivateKeys /\ c.late[j].right \in BOOLEAN
    BY <2>3 DEF LateKeys
  <2> QED BY <1>4, <2>1, <2>2, <2>4
<1>6. PICK mine : mine = {i \in DOMAIN c.keys : c.keys[i].key_id = construct_id(k)}
  OBVIOUS
<1>7. ASSUME k \in c.first PROVE \E i \in mine : i <= n
  <2>1. PICK i \in 1..n : c.keys[i].key_id = construct_id(k)
    BY <1>4, <1>7 DEF FirstEntries
  <2>2. i \in 1..(n + Len(c.late)) /\ i <= n
    BY <1>5
  <2> QED BY <1>5, <1>6, <2>1, <2>2
<1>8. ASSUME NEW j \in 1..Len(c.late) PROVE n + j \in mine <=> c.late[j].id = k
  <2>1. c.keys[n + j].key_id = construct_id(c.late[j].id)
    <3>1. LateEntry(c.keys[n + j], c.late[j])
      BY <1>4
    <3>2. PICK l \in PrivateKeys, sym \in {1, -1}, r \in Nat : c.keys[n + j] = Entry(c.late[j].id, l, sym, r)
      BY <3>1 DEF LateEntry
    <3> QED BY <3>2 DEF Entry
  <2>2. n + j \in 1..(n + Len(c.late))
    BY <1>5
  <2>3. construct_id(c.late[j].id) = construct_id(k) <=> c.late[j].id = k
    BY <1>5, KeyAssumption
  <2> QED BY <1>5, <1>6, <2>1, <2>2, <2>3
<1>9. Meant(k) <=> \/ k \in c.first
                   \/ \E i \in DOMAIN c.late : c.late[i].id = k /\ c.late[i].right /\ \A j \in 1 .. i - 1 : c.late[j].id # k
  BY <1>1 DEF Meant
<1>10. CASE mine = {}
  <2>1. o = Bad("wrong_key")
    BY <1>1, <1>6, <1>10 DEF decrypt_envelope
  <2>2. o.ok = FALSE
    BY <2>1 DEF Bad
  <2>3. k \notin c.first
    BY <1>7, <1>10
  <2>4. \A j \in 1..Len(c.late) : c.late[j].id # k
    BY <1>8, <1>10
  <2>5. ~Meant(k)
    BY <1>5, <1>9, <2>3, <2>4
  <2> QED BY <2>2, <2>5
<1>11. CASE mine # {}
  <2>1. PICK f : f = Min(mine)
    OBVIOUS
  <2>2. f \in mine /\ \A y \in mine : f <= y
    <3>1. mine \in SUBSET Nat
      BY <1>5, <1>6
    <3> QED BY <1>11, <2>1, <3>1, LeastOne
  <2>3. f \in 1..(n + Len(c.late)) /\ c.keys[f].key_id = construct_id(k)
    BY <1>5, <1>6, <2>2
  <2>4. PICK s : s = decrypt_key(k, c.keys[f])
    OBVIOUS
  <2>5. o = IF s.ok THEN decrypt(c, s.plain) ELSE s
    BY <1>1, <1>6, <1>11, <2>1, <2>4 DEF decrypt_envelope
  \* What an entry with the envelope's key, with another key and for another recipient gives.
  <2>6. ASSUME k.valid, NEW r, NEW sym \in {1, -1}, c.keys[f] = Entry(k, k, sym, r)
        PROVE  o.ok = (sym = 1 /\ c.sound) /\ (o.ok => o.plain = d)
    <3>1. s = [ok |-> TRUE, plain |-> sym]
      BY <2>4, <2>6, EntryOpens
    <3>2. o = decrypt(c, sym)
      BY <2>5, <3>1
    <3> QED BY <1>3, <3>2, DecryptIs
  <2>7. ASSUME NEW l \in PrivateKeys, l # k, NEW r, NEW sym, c.keys[f] = Entry(k, l, sym, r)
        PROVE  o.ok = FALSE
    <3>1. s = Bad("bad_ciphertext")
      BY <2>4, <2>7, EntryOpens
    <3> QED BY <2>5, <3>1 DEF Bad
  <2>8. CASE f <= n
    <3>1. f \in 1..n
      BY <2>3, <2>8
    <3>2. PICK l \in c.first, r \in Nat : c.keys[f] = Entry(l, l, 1, r)
      BY <1>4, <3>1 DEF FirstEntries
    <3>3. l.valid
      BY <1>4 DEF FirstEntries
    <3>4. l = k
      <4>1. construct_id(l) = construct_id(k)
        BY <2>3, <3>2 DEF Entry
      <4> QED BY <1>5, <4>1, KeyAssumption
    <3>5. o.ok = (1 = 1 /\ c.sound) /\ (o.ok => o.plain = d)
      <4>1. 1 \in {1, -1}
        OBVIOUS
      <4> QED BY <2>6, <3>2, <3>3, <3>4, <4>1
    <3>6. Meant(k)
      BY <1>9, <3>4
    <3> QED BY <1>1, <1>2, <1>5, <3>5, <3>6
  <2>9. CASE ~(f <= n)
    <3>1. PICK j : j = f - n
      OBVIOUS
    <3>2. j \in 1..Len(c.late) /\ n + j = f
      BY <1>5, <2>3, <2>9, <3>1
    <3>3. c.late[j].id = k
      BY <1>8, <2>2, <3>2
    <3>4. k \notin c.first
      <4> SUFFICES ASSUME k \in c.first PROVE FALSE
        OBVIOUS
      <4>1. PICK i \in mine : i <= n
        BY <1>7
      <4>2. f <= i /\ i \in Nat /\ f \in Nat
        BY <1>5, <1>6, <2>2, <2>3
      <4> QED BY <2>9, <4>1, <4>2
    <3>5. ASSUME NEW i \in 1..Len(c.late), i < j PROVE c.late[i].id # k
      <4>1. ~(f <= n + i)
        BY <1>5, <3>2, <3>5
      <4> QED BY <1>8, <2>2, <4>1
    <3>6. Meant(k) <=> c.late[j].right
      <4>1. ASSUME c.late[j].right PROVE Meant(k)
        <5>1. \A i \in 1 .. j - 1 : i \in 1..Len(c.late) /\ i < j
          BY <1>5, <3>2
        <5> QED BY <1>5, <1>9, <3>2, <3>3, <3>5, <4>1, <5>1
      <4>2. ASSUME Meant(k) PROVE c.late[j].right
        <5>1. PICK i \in 1..Len(c.late) : c.late[i].id = k /\ c.late[i].right /\ \A m \in 1 .. i - 1 : c.late[m].id # k
          BY <1>5, <1>9, <3>4, <4>2
        <5>2. ~(i < j)
          BY <3>5, <5>1
        <5>3. ~(j < i)
          <6> SUFFICES ASSUME j < i PROVE FALSE
            OBVIOUS
          <6>1. j \in 1 .. i - 1
            BY <1>5, <3>2
          <6> QED BY <3>3, <5>1, <6>1
        <5>4. i = j
          BY <1>5, <3>2, <5>2, <5>3
        <5> QED BY <5>1, <5>4
      <4> QED BY <4>1, <4>2
    <3>7. PICK l \in PrivateKeys, sym \in {1, -1}, r \in Nat :
              l.valid /\ c.keys[f] = Entry(k, l, sym, r) /\ (c.late[j].right <=> sym = 1 /\ l = k)
      <4>1. LateEntry(c.keys[n + j], c.late[j])
        BY <1>4, <3>2
      <4>2. PICK e : e = c.late[j]
        OBVIOUS
      <4>3. LateEntry(c.keys[f], e) /\ e.id = k
        BY <3>2, <3>3, <4>1, <4>2
      <4>4. \E l \in PrivateKeys, sym \in {1, -1}, r \in Nat :
                l.valid /\ c.keys[f] = Entry(e.id, l, sym, r) /\ (e.right <=> sym = 1 /\ l = e.id)
        BY <4>3 DEF LateEntry
      <4> QED BY <4>2, <4>3, <4>4
    <3>8. CASE l = k
      <4>1. o.ok = (sym = 1 /\ c.sound) /\ (o.ok => o.plain = d)
        BY <2>6, <3>7, <3>8
      <4> QED BY <1>1, <1>2, <3>6, <3>7, <3>8, <4>1
    <3>9. CASE l # k
      <4>1. o.ok = FALSE
        BY <2>7, <3>7, <3>9
      <4> QED BY <3>6, <3>7, <3>9, <4>1
    <3> QED BY <3>8, <3>9
  <2> QED BY <2>8, <2>9
<1> QED BY <1>10, <1>11

LEMMA EntryIn ==
    ASSUME NEW id \in PrivateKeys, NEW k \in PrivateKeys, NEW sym \in {1, -1}, NEW r \in Nat
    PROVE  Entry(id, k, sym, r) \in KeyEntries /\ Entry(id, k, sym, r).key_id = construct_id(id)
<1>1. PICK x \in PrivateKeys \X PrivateKeys \X {1, -1} \X Nat : x = <<id, k, sym, r>>
  OBVIOUS
<1>2. x[1] = id /\ x[2] = k /\ x[3] = sym /\ x[4] = r
  BY <1>1
<1>3. Entry(id, k, sym, r) \in KeyEntries
  BY <1>2 DEF KeyEntries
<1> QED BY <1>3 DEF Entry

LEMMA Appended ==
    ASSUME NEW S, NEW s \in Seq(S), NEW x \in S
    PROVE  /\ Append(s, x) \in Seq(S) /\ Len(s) \in Nat /\ Len(Append(s, x)) = Len(s) + 1
           /\ \A i \in 1..Len(s) : Append(s, x)[i] = s[i] /\ i \in 1..(Len(s) + 1)
           /\ Append(s, x)[Len(s) + 1] = x
OBVIOUS

LEMMA EnvelopeInitInv == EnvelopeInit => EnvelopeInv
<1> SUFFICES ASSUME EnvelopeInit PROVE EnvelopeInv
  OBVIOUS
<1>1. PICK v \in OctetValues : v = CHOOSE w \in OctetValues : TRUE
  BY SealingAssumption
<1>2. random = 1 /\ content = NoMessage /\ env = [data |-> <<Plain(v)>>, sym |-> 1, keys |-> <<>>, added |-> {}]
  BY <1>1 DEF EnvelopeInit
<1>3. <<Plain(v)>> \in Seq(Octets) /\ <<Plain(v)>> # <<>>
  <2>1. Plain(v) \in Octets
    BY DEF Plain, Octets
  <2> QED BY <2>1
<1>4. <<>> \in Seq(KeyEntries) /\ {} \in SUBSET PrivateKeys /\ Len(<<>>) = 0
  OBVIOUS
<1>5. env \in Envelopers /\ env.data = <<Plain(v)>> /\ env.keys = <<>> /\ env.added = {}
  BY <1>2, <1>3, <1>4 DEF Envelopers
<1>6. FirstEntries(env.keys, Len(env.keys), env.added)
  BY <1>4, <1>5 DEF FirstEntries
<1> QED BY <1>2, <1>3, <1>5, <1>6 DEF EnvelopeInv

LEMMA EnveloperAddStep ==
    ASSUME EnvelopeInv, NEW k \in PrivateKeys, enveloper_add(k)
    PROVE  EnvelopeInv'
<1>1. CASE ~k.valid
  <2>1. random' = random /\ env' = env /\ content' = content
    BY <1>1 DEF enveloper_add
  <2> QED BY <2>1 DEF EnvelopeInv
<1>2. CASE k.valid
  <2>1. random \in Nat /\ env \in Envelopers /\ FirstEntries(env.keys, Len(env.keys), env.added) /\ env.data # <<>>
    BY DEF EnvelopeInv
  <2>2. PICK r \in Nat : r = random + 1
    BY <2>1
  <2>3. env.sym = 1 /\ env.keys \in Seq(KeyEntries) /\ env.added \in SUBSET PrivateKeys
    BY <2>1 DEF Envelopers
  <2>4. PICK e : e = Entry(k, k, 1, r)
    OBVIOUS
  <2>5. e \in KeyEntries /\ e.key_id = construct_id(k)
    <3>1. 1 \in {1, -1}
      OBVIOUS
    <3> QED BY <2>4, <3>1, EntryIn
  <2>6. /\ random' = r /\ content' = content
        /\ env' = [env EXCEPT !.keys = Append(@, e), !.added = @ \cup {k}]
    BY <1>2, <2>2, <2>3, <2>4 DEF enveloper_add, encrypt_key, Entry
  <2>7. PICK s \in Seq(KeyEntries) : s = Append(env.keys, e)
    <3>1. Append(env.keys, e) \in Seq(KeyEntries)
      BY <2>3, <2>5, Appended
    <3> QED BY <3>1
  <2>8. /\ Len(env.keys) \in Nat /\ Len(s) = Len(env.keys) + 1
        /\ \A i \in 1..Len(env.keys) : s[i] = env.keys[i] /\ i \in 1..(Len(env.keys) + 1)
        /\ s[Len(env.keys) + 1] = e
    BY <2>3, <2>5, <2>7, Appended
  <2>9. PICK t \in SUBSET PrivateKeys : t = env.added \cup {k}
    <3>1. env.added \cup {k} \in SUBSET PrivateKeys
      BY <2>3
    <3> QED BY <3>1
  <2>10. env' \in Envelopers /\ env'.keys = s /\ env'.added = t /\ env'.data = env.data
    <3>1. env' = [env EXCEPT !.keys = s, !.added = t]
      BY <2>6, <2>7, <2>9
    <3> QED BY <2>1, <3>1 DEF Envelopers
  <2>11. FirstEntries(s, Len(s), t)
    <3>1. ASSUME NEW l \in t PROVE l.valid /\ \E i \in 1..Len(s) : s[i].key_id = construct_id(l)
      <4>1. CASE l = k
        <5>1. Len(env.keys) + 1 \in 1..Len(s)
          BY <2>8
        <5> QED BY <1>2, <2>5, <2>8, <4>1, <5>1
      <4>2. CASE l # k
        <5>1. l \in env.added
          BY <2>9, <4>2
        <5>2. l.valid /\ \E i \in 1..Len(env.keys) : env.keys[i].key_id = construct_id(l)
          BY <2>1, <5>1 DEF FirstEntries
        <5> QED BY <2>8, <5>2
      <4> QED BY <4>1, <4>2
    <3>2. ASSUME NEW i \in 1..Len(s) PROVE \E l \in t, q \in Nat : s[i] = Entry(l, l, 1, q)
      <4>1. CASE i = Len(env.keys) + 1
        BY <2>4, <2>8, <2>9, <4>1
      <4>2. CASE i # Len(env.keys) + 1
        <5>1. i \in 1..Len(env.keys)
          BY <2>8, <4>2
        <5>2. PICK l \in env.added, q \in Nat : env.keys[i] = Entry(l, l, 1, q)
          BY <2>1, <5>1 DEF FirstEntries
        <5>3. l \in t /\ s[i] = env.keys[i]
          BY <2>8, <2>9, <5>1
        <5> QED BY <5>2, <5>3
      <4> QED BY <4>1, <4>2
    <3> QED BY <3>1, <3>2 DEF FirstEntries
  <2> QED BY <2>1, <2>6, <2>10, <2>11 DEF EnvelopeInv
<1> QED BY <1>1, <1>2

LEMMA EnveloperResultStep ==
    ASSUME EnvelopeInv, enveloper_result
    PROVE  EnvelopeInv'
<1>1. random \in Nat /\ env \in Envelopers /\ FirstEntries(env.keys, Len(env.keys), env.added) /\ env.data # <<>>
  BY DEF EnvelopeInv
<1>2. PICK iv \in Nat : iv = random + 1
  BY <1>1
<1>3. env.sym = 1 /\ env.keys \in Seq(KeyEntries) /\ env.added \in SUBSET PrivateKeys /\ env.data \in Seq(Octets)
  BY <1>1 DEF Envelopers
<1>4. PICK d \in Seq(Octets) : d = env.data
  BY <1>3
<1>5. PICK ec : ec = encrypt(d, 1, iv)
  OBVIOUS
<1>6. /\ random' = iv /\ env' = env
      /\ content' = [keys |-> env.keys, iv |-> ec.iv, encrypted |-> ec.encrypted, tag |-> ec.tag,
                     first |-> env.added, late |-> <<>>, sound |-> TRUE]
  BY <1>2, <1>3, <1>4, <1>5 DEF enveloper_result
<1>7. PICK x \in Seq(Nat) : x = <<iv>>
  <2>1. <<iv>> \in Seq(Nat)
    OBVIOUS
  <2> QED BY <2>1
<1>8. /\ ec.iv = iv /\ ec.encrypted = Under(1, x, 0, d)
      /\ ec.tag = [key |-> 1, nonce |-> x, aad |-> x, plain |-> d]
  <2>1. PICK c : c = WentThrough(1, iv, TRUE, d)
    OBVIOUS
  <2>2. ec = [iv |-> iv, encrypted |-> cipher(single_message(1, <<iv>>, TRUE), d), tag |-> tag(c)]
    BY <1>5, <2>1 DEF encrypt, WentThrough
  <2>3. 1 \in Int /\ TRUE \in BOOLEAN
    OBVIOUS
  <2>4. HasTaken(WentThrough(1, iv, TRUE, d), 1, iv, TRUE, d)
    BY <2>3, Through, Zenon
  <2>5. HasTaken(c, 1, iv, TRUE, d)
    BY <2>1, <2>4
  <2> QED BY <1>7, <2>2, <2>5 DEF HasTaken
<1>9. ec.encrypted \in Seq(Octets) /\ ec.tag \in ContentTags
  <2>1. 1 \in Int /\ 0 \in Nat
    OBVIOUS
  <2>2. ec.encrypted \in Seq(Octets)
    BY <1>8, <2>1, UnderOctets
  <2> QED BY <1>8, <2>2 DEF ContentTags
<1>10. content' \in Contents
  <2>1. <<>> \in Seq(LateKeys) /\ TRUE \in BOOLEAN
    OBVIOUS
  <2> QED BY <1>3, <1>6, <1>8, <1>9, <2>1 DEF Contents
<1>11. /\ content'.keys = env.keys /\ content'.iv = iv /\ content'.encrypted = ec.encrypted /\ content'.tag = ec.tag
       /\ content'.first = env.added /\ content'.late = <<>> /\ content'.sound = TRUE
  BY <1>6, <1>8
<1>12. SealedWith(content', d)
  BY <1>7, <1>8, <1>11 DEF SealedWith
<1>13. Enveloped(content', d)
  <2>1. Len(env.keys) \in Nat /\ Len(<<>>) = 0 /\ Len(env.keys) + 0 = Len(env.keys)
    BY <1>3
  <2>2. /\ Len(content'.keys) = Len(env.keys) + Len(content'.late) /\ FirstEntries(content'.keys, Len(env.keys), content'.first)
        /\ \A j \in 1..Len(content'.late) : LateEntry(content'.keys[Len(env.keys) + j], content'.late[j])
    BY <1>1, <1>11, <2>1
  <2> QED BY <1>10, <1>12, <2>1, <2>2 DEF Enveloped
<1> QED BY <1>1, <1>4, <1>6, <1>13 DEF EnvelopeInv

LEMMA ContentAddStep ==
    ASSUME EnvelopeInv, NEW k \in PrivateKeys, NEW id \in PrivateKeys, NEW sym \in {env.sym, -1}, content_add(k, sym, id)
    PROVE  EnvelopeInv'
<1>1. random \in Nat /\ env \in Envelopers /\ FirstEntries(env.keys, Len(env.keys), env.added) /\ env.data # <<>>
  BY DEF EnvelopeInv
<1>2. env.sym = 1
  BY <1>1 DEF Envelopers
<1>3. sym \in {1, -1}
  BY <1>2
<1>4. PICK r \in Nat : r = random + 1
  BY <1>1
<1>5. PICK e : e = Entry(id, k, sym, r)
  OBVIOUS
<1>6. e \in KeyEntries
  BY <1>3, <1>5, EntryIn
<1>7. PICK l : l = [id |-> id, right |-> sym = 1 /\ k = id]
  OBVIOUS
<1>8. l \in LateKeys /\ l.id = id /\ (l.right <=> sym = 1 /\ k = id)
  BY <1>7 DEF LateKeys
<1>9. [encrypt_key(k, sym, r) EXCEPT !.key_id = construct_id(id)] = e
  BY <1>5 DEF encrypt_key, Entry
<1>10. /\ content # NoMessage /\ k.valid /\ random' = r /\ env' = env
       /\ content' = [content EXCEPT !.keys = Append(@, e), !.late = Append(@, l)]
  BY <1>2, <1>4, <1>7, <1>9 DEF content_add
<1>11. PICK c : c = content
  OBVIOUS
<1>12. c \in Contents /\ SealedWith(c, env.data)
  BY <1>10, <1>11 DEF EnvelopeInv, Enveloped
<1>13. PICK n \in Nat : /\ Len(c.keys) = n + Len(c.late) /\ FirstEntries(c.keys, n, c.first)
                        /\ \A j \in 1..Len(c.late) : LateEntry(c.keys[n + j], c.late[j])
  BY <1>10, <1>11 DEF EnvelopeInv, Enveloped
<1>14. c.keys \in Seq(KeyEntries) /\ c.late \in Seq(LateKeys)
  BY <1>12 DEF Contents
<1>15. PICK s \in Seq(KeyEntries) : s = Append(c.keys, e)
  <2>1. Append(c.keys, e) \in Seq(KeyEntries)
    BY <1>6, <1>14, Appended
  <2> QED BY <2>1
<1>16. PICK t \in Seq(LateKeys) : t = Append(c.late, l)
  <2>1. Append(c.late, l) \in Seq(LateKeys)
    BY <1>8, <1>14, Appended
  <2> QED BY <2>1
<1>17. PICK m \in Nat : m = Len(c.late)
  BY <1>14
<1>18. Len(s) = (n + m) + 1 /\ (\A i \in 1..(n + m) : s[i] = c.keys[i]) /\ s[(n + m) + 1] = e
  <2>1. /\ Len(Append(c.keys, e)) = Len(c.keys) + 1 /\ (\A i \in 1..Len(c.keys) : Append(c.keys, e)[i] = c.keys[i])
        /\ Append(c.keys, e)[Len(c.keys) + 1] = e
    BY <1>6, <1>14, Appended
  <2> QED BY <1>13, <1>15, <1>17, <2>1
<1>19. Len(t) = m + 1 /\ (\A i \in 1..m : t[i] = c.late[i]) /\ t[m + 1] = l
  <2>1. /\ Len(Append(c.late, l)) = Len(c.late) + 1 /\ (\A i \in 1..Len(c.late) : Append(c.late, l)[i] = c.late[i])
        /\ Append(c.late, l)[Len(c.late) + 1] = l
    BY <1>8, <1>14, Appended
  <2> QED BY <1>16, <1>17, <2>1
<1>20. /\ content' \in Contents /\ content'.keys = s /\ content'.late = t /\ content'.first = c.first
       /\ content'.iv = c.iv /\ content'.encrypted = c.encrypted /\ content'.tag = c.tag /\ content'.sound = c.sound
  <2>1. content' = [c EXCEPT !.keys = s, !.late = t]
    BY <1>10, <1>11, <1>15, <1>16
  <2> QED BY <1>12, <2>1 DEF Contents
<1>21. SealedWith(content', env.data)
  BY <1>12, <1>20 DEF SealedWith
<1>22. FirstEntries(s, n, c.first)
  <2>1. \A i \in 1..n : i \in 1..(n + m)
    OBVIOUS
  <2>2. \A i \in 1..n : s[i] = c.keys[i]
    BY <1>18, <2>1
  <2> QED BY <1>13, <2>2 DEF FirstEntries
<1>23. ASSUME NEW j \in 1..(m + 1) PROVE LateEntry(s[n + j], t[j])
  <2>1. CASE j = m + 1
    <3>1. n + j = (n + m) + 1
      BY <2>1
    <3>2. LateEntry(e, l)
      BY <1>3, <1>5, <1>8, <1>10 DEF LateEntry
    <3> QED BY <1>18, <1>19, <2>1, <3>1, <3>2
  <2>2. CASE j # m + 1
    <3>1. j \in 1..m /\ n + j \in 1..(n + m)
      BY <2>2
    <3>2. LateEntry(c.keys[n + j], c.late[j])
      BY <1>13, <1>17, <3>1
    <3> QED BY <1>18, <1>19, <3>1, <3>2
  <2> QED BY <2>1, <2>2
<1>24. Enveloped(content', env.data)
  <2>1. Len(s) = n + Len(t)
    BY <1>18, <1>19
  <2>2. /\ Len(content'.keys) = n + Len(content'.late) /\ FirstEntries(content'.keys, n, content'.first)
        /\ \A j \in 1..Len(content'.late) : LateEntry(content'.keys[n + j], content'.late[j])
    BY <1>19, <1>20, <1>22, <1>23, <2>1
  <2> QED BY <1>20, <1>21, <2>2 DEF Enveloped
<1> QED BY <1>1, <1>10, <1>24 DEF EnvelopeInv

LEMMA ContentDamagedStep ==
    ASSUME EnvelopeInv, content_damaged
    PROVE  EnvelopeInv'
<1>1. PICK c : c = content
  OBVIOUS
<1>2. /\ content # NoMessage /\ c.sound /\ random' = random /\ env' = env
      /\ content' = [c EXCEPT !.sound = FALSE, !.encrypted = Changed(@)]
  BY <1>1 DEF content_damaged
<1>3. PICK d : d = env.data
  OBVIOUS
<1>4. c \in Contents /\ SealedWith(c, d) /\ d \in Seq(Octets) /\ d # <<>>
  BY <1>1, <1>2, <1>3 DEF EnvelopeInv, Enveloped, Envelopers
<1>5. PICK n \in Nat : /\ Len(c.keys) = n + Len(c.late) /\ FirstEntries(c.keys, n, c.first)
                       /\ \A j \in 1..Len(c.late) : LateEntry(c.keys[n + j], c.late[j])
  BY <1>1, <1>2 DEF EnvelopeInv, Enveloped
<1>6. c.encrypted = Under(1, <<c.iv>>, 0, d) /\ c.tag = [key |-> 1, nonce |-> <<c.iv>>, aad |-> <<c.iv>>, plain |-> d]
  BY <1>2, <1>4 DEF SealedWith
<1>7. c.encrypted \in Seq(Octets) /\ c.encrypted # <<>>
  <2>1. c.iv \in Nat /\ c.encrypted \in Seq(Octets)
    BY <1>4 DEF Contents
  <2>2. <<c.iv>> \in Seq(Nat) /\ 1 \in Int /\ 0 \in Nat
    BY <2>1
  <2>3. Len(c.encrypted) = Len(d)
    <3>1. PICK y \in Seq(Nat) : y = <<c.iv>>
      BY <2>2
    <3>2. d \in Seq(Octets)
      BY <1>4
    <3>3. Len(Under(1, y, 0, d)) = Len(d)
      BY <2>2, <3>2, UnderOctets
    <3> QED BY <1>6, <3>1, <3>3
  <2> QED BY <1>4, <2>1, <2>3
<1>8. PICK x \in Seq(Octets) : x = Changed(c.encrypted)
  BY <1>7, DamagedOctets
<1>9. /\ content' \in Contents /\ content'.keys = c.keys /\ content'.late = c.late /\ content'.first = c.first
      /\ content'.iv = c.iv /\ content'.encrypted = x /\ content'.tag = c.tag /\ content'.sound = FALSE
  <2>1. content' = [c EXCEPT !.sound = FALSE, !.encrypted = x]
    BY <1>2, <1>8
  <2> QED BY <1>4, <2>1 DEF Contents
<1>10. SealedWith(content', d)
  BY <1>6, <1>8, <1>9 DEF SealedWith
<1>11. Enveloped(content', d)
  BY <1>5, <1>9, <1>10 DEF Enveloped
<1> QED BY <1>2, <1>3, <1>11 DEF EnvelopeInv

\* Streams and envelopes side by side.
SealingNext == (StreamNext /\ UNCHANGED envelopeVars) \/ (EnvelopeNext /\ UNCHANGED streamVars)
SealingSpec == SealingInit /\ [][SealingNext]_sealVars

\* SealedOpens for any octets, pieces, keys, recipients and order of messages, and any number of messages that
\* the counter has values for (aes_gcm.cpp, enveloped_content.cpp, public_key.cpp): a message is accepted, with
\* its plaintext, exactly if it arrived as sent, no nonce is used twice, and an envelope opens for exactly
\* the keys it is meant for.
THEOREM SealedAreOpened == SealingSpec => []SealedOpens
<1>1. SealingInit => StreamInv /\ EnvelopeInv
  BY StreamInitInv, EnvelopeInitInv DEF SealingInit
<1>2. StreamInv /\ EnvelopeInv /\ [SealingNext]_sealVars => StreamInv' /\ EnvelopeInv'
  <2> SUFFICES ASSUME StreamInv, EnvelopeInv, [SealingNext]_sealVars PROVE StreamInv' /\ EnvelopeInv'
    OBVIOUS
  <2>1. ASSUME UNCHANGED streamVars PROVE StreamInv'
    BY <2>1 DEF StreamInv, streamVars
  <2>2. ASSUME UNCHANGED envelopeVars PROVE EnvelopeInv'
    BY <2>2 DEF EnvelopeInv, envelopeVars
  <2>3. ASSUME StreamNext PROVE StreamInv'
    BY <2>3, EncryptPieceStep, EncryptAuthStep, EncryptTagStep, ReceiveStep, DecryptPieceStep, DecryptAuthStep,
       DecryptTagStep DEF StreamNext
  <2>4. ASSUME EnvelopeNext PROVE EnvelopeInv'
    BY <2>4, EnveloperAddStep, EnveloperResultStep, ContentAddStep, ContentDamagedStep DEF EnvelopeNext
  <2> QED BY <2>1, <2>2, <2>3, <2>4 DEF SealingNext, sealVars
<1>3. StreamInv /\ EnvelopeInv => SealedOpens
  <2> SUFFICES ASSUME StreamInv, EnvelopeInv PROVE SealedOpens
    OBVIOUS
  <2>1. \A w \in verdicts : w.accepted = w.sound /\ (w.sound => w.plain = w.meant)
    BY DEF StreamInv, Verdict
  <2>2. ASSUME NEW i \in DOMAIN msgs, NEW j \in DOMAIN msgs, i # j PROVE msgs[i].tag.nonce # msgs[j].tag.nonce
    <3>1. DOMAIN msgs = 1..Len(msgs)
      BY DEF StreamInv
    <3>2. ASSUME NEW m \in 1..Len(msgs) PROVE msgs[m].tag.nonce = <<0, m - 1>>
      <4>1. msgs[m].counter = m - 1 /\ msgs[m].tag = Seals(<<0, msgs[m].counter>>, msgs[m].aad, msgs[m].plain)
        BY DEF StreamInv, Sent
      <4> QED BY <4>1 DEF Seals
    <3>3. i - 1 # j - 1
      BY <2>2, <3>1
    <3>4. <<0, i - 1>> # <<0, j - 1>>
      BY <3>3
    <3> QED BY <3>1, <3>2, <3>4
  <2>3. ASSUME content # NoMessage, NEW k \in PrivateKeys, NEW o, o = decrypt_envelope(content, k)
        PROVE  (o.ok <=> (Meant(k) /\ content.sound)) /\ (o.ok => o.plain = env.data)
    BY <2>3, EnvelopeOpens
  <2> QED BY <2>1, <2>2, <2>3 DEF SealedOpens
<1> QED BY <1>1, <1>2, <1>3, PTL DEF SealingSpec

-----------------------------------------------------------------------------
(* AudioDevices.                                                           *)

AudioSpec == AudioInit /\ [][AudioNext]_audioVars

\* Frames in the order they were made, silence in between or not.
InTurn(s) == \A i, j \in 1..Len(s) : i < j /\ s[j] # 0 => s[i] < s[j]
Earlier(s, t) == \A i \in 1..Len(s), j \in 1..Len(t) : s[i] < t[j]

\* What came out, what is on its way and what is behind it, and the frames that were thrown away.
Flow(a, b, c, thrown, m) ==
    /\ InTurn(a) /\ InTurn(b) /\ InTurn(c) /\ Earlier(a, b) /\ Earlier(a, c) /\ Earlier(b, c)
    /\ Range(b) \cup Range(c) \cup (Range(a) \ {0}) \cup thrown = 1..m

LEMMA FramesJoined ==
    ASSUME NEW S, NEW s \in Seq(S), NEW t \in Seq(S)
    PROVE  /\ s \o t \in Seq(S) /\ Len(s \o t) = Len(s) + Len(t)
           /\ \A i \in 1..Len(s) : (s \o t)[i] = s[i]
           /\ \A i \in 1..Len(t) : (s \o t)[Len(s) + i] = t[i]
OBVIOUS

LEMMA FramesCut ==
    ASSUME NEW S, NEW t \in Seq(S), NEW n \in 0..Len(t)
    PROVE  /\ SubSeq(t, 1, n) \in Seq(S) /\ Len(SubSeq(t, 1, n)) = n
           /\ SubSeq(t, n + 1, Len(t)) \in Seq(S) /\ Len(SubSeq(t, n + 1, Len(t))) = Len(t) - n
           /\ \A i \in 1..n : SubSeq(t, 1, n)[i] = t[i]
           /\ \A i \in 1..Len(t) - n : SubSeq(t, n + 1, Len(t))[i] = t[n + i]
OBVIOUS

LEMMA RangeOf ==
    ASSUME NEW S, NEW s \in Seq(S), NEW x
    PROVE  x \in Range(s) <=> \E i \in 1..Len(s) : s[i] = x
BY DEF Range

\* Frames that move from one place to the one before it stay in turn.
LEMMA FramesMove ==
    ASSUME NEW s \in Seq(Nat), NEW t \in Seq(Nat), NEW n \in 0..Len(t),
           InTurn(s), InTurn(t), Earlier(s, t), 0 \notin Range(t)
    PROVE  LET p == s \o SubSeq(t, 1, n)
               r == SubSeq(t, n + 1, Len(t))
           IN  /\ p \in Seq(Nat) /\ r \in Seq(Nat)
               /\ InTurn(p) /\ InTurn(r) /\ Earlier(p, r)
               /\ Range(p) \cup Range(r) = Range(s) \cup Range(t) /\ Range(r) \subseteq Range(t)
<1>1. PICK h : h = SubSeq(t, 1, n)
  OBVIOUS
<1>2. PICK r : r = SubSeq(t, n + 1, Len(t))
  OBVIOUS
<1>3. PICK p : p = s \o h
  OBVIOUS
<1>4. PICK l \in Nat, m \in Nat : l = Len(s) /\ m = Len(t) /\ n \in 0..m
  OBVIOUS
<1>5. /\ h \in Seq(Nat) /\ Len(h) = n /\ r \in Seq(Nat) /\ Len(r) = m - n
      /\ \A i \in 1..n : h[i] = t[i]
      /\ \A i \in 1..m - n : r[i] = t[n + i]
  BY <1>1, <1>2, <1>4, FramesCut, SMTT(30)
<1>6. /\ p \in Seq(Nat) /\ Len(p) = l + n
      /\ \A i \in 1..l : p[i] = s[i]
      /\ \A i \in 1..n : p[l + i] = t[i]
  <2>1. /\ s \o h \in Seq(Nat) /\ Len(s \o h) = Len(s) + Len(h)
        /\ \A i \in 1..Len(s) : (s \o h)[i] = s[i]
        /\ \A i \in 1..Len(h) : (s \o h)[Len(s) + i] = h[i]
    <3>1. h \in Seq(Nat)
      BY <1>5
    <3> QED BY <3>1, FramesJoined
  <2>2. p \in Seq(Nat) /\ Len(p) = l + n /\ \A i \in 1..l : p[i] = s[i]
    BY <1>3, <1>4, <1>5, <2>1
  <2>3. \A i \in 1..n : p[l + i] = h[i]
    BY <1>3, <1>4, <1>5, <2>1
  <2> QED BY <1>5, <2>2, <2>3
<1>7. /\ \A i \in 1..l : s[i] \in Nat
      /\ \A i \in 1..m : t[i] \in Nat
      /\ \A i, j \in 1..l : i < j /\ s[j] # 0 => s[i] < s[j]
      /\ \A i, j \in 1..m : i < j /\ t[j] # 0 => t[i] < t[j]
      /\ \A i \in 1..l, j \in 1..m : s[i] < t[j]
  BY <1>4 DEF InTurn, Earlier
<1>8. n \in Nat /\ n <= m
  BY <1>4
\* A place in p is one in s or one in the first n of t.
<1>9. ASSUME NEW j \in 1..l + n
      PROVE  \/ j \in 1..l /\ p[j] = s[j]
             \/ \E i \in 1..n : j = l + i /\ p[j] = t[i]
  <2>1. CASE j \in 1..l
    BY <1>6, <2>1
  <2>2. CASE j \notin 1..l
    <3>1. j - l \in 1..n /\ j = l + (j - l)
      BY <1>4, <1>8, <2>2
    <3> QED BY <1>6, <3>1
  <2> QED BY <2>1, <2>2
<1>10. InTurn(p)
  <2> SUFFICES ASSUME NEW i \in 1..l + n, NEW j \in 1..l + n, i < j, p[j] # 0 PROVE p[i] < p[j]
    BY <1>6 DEF InTurn
  <2>1. CASE j \in 1..l /\ p[j] = s[j]
    <3>1. i \in 1..l
      BY <1>4, <1>8, <2>1
    <3> QED BY <1>6, <1>7, <2>1, <3>1
  <2>2. ASSUME NEW y \in 1..n, j = l + y, p[j] = t[y] PROVE p[i] < p[j]
    <3>1. y \in 1..m
      BY <1>4, <1>8
    <3>2. CASE i \in 1..l /\ p[i] = s[i]
      BY <1>7, <2>2, <3>1, <3>2
    <3>3. ASSUME NEW x \in 1..n, i = l + x, p[i] = t[x] PROVE p[i] < p[j]
      <4>1. x \in 1..m /\ x < y
        BY <1>4, <1>8, <2>2, <3>3
      <4> QED BY <1>7, <2>2, <3>1, <3>3, <4>1
    <3> QED BY <1>9, <3>2, <3>3
  <2> QED BY <1>9, <2>1, <2>2
<1>11. InTurn(r)
  <2> SUFFICES ASSUME NEW i \in 1..m - n, NEW j \in 1..m - n, i < j, r[j] # 0 PROVE r[i] < r[j]
    BY <1>5 DEF InTurn
  <2>1. n + i \in 1..m /\ n + j \in 1..m /\ n + i < n + j
    BY <1>4, <1>8
  <2> QED BY <1>5, <1>7, <2>1
<1>12. Earlier(p, r)
  <2> SUFFICES ASSUME NEW i \in 1..l + n, NEW j \in 1..m - n PROVE p[i] < r[j]
    BY <1>5, <1>6 DEF Earlier
  <2>1. n + j \in 1..m /\ r[j] = t[n + j]
    BY <1>4, <1>5, <1>8
  <2>2. CASE i \in 1..l /\ p[i] = s[i]
    BY <1>7, <2>1, <2>2
  <2>3. ASSUME NEW x \in 1..n, p[i] = t[x] PROVE p[i] < r[j]
    <3>1. x \in 1..m /\ x < n + j
      BY <1>4, <1>8
    <3>2. t[n + j] # 0
      BY <1>4, <2>1, RangeOf
    <3>3. n + j \in 1..m
      BY <2>1
    <3>4. t[x] < t[n + j]
      BY <1>7, <3>1, <3>2, <3>3
    <3> QED BY <2>1, <2>3, <3>4
  <2> QED BY <1>9, <2>2, <2>3
<1>13. Range(p) \cup Range(r) = Range(s) \cup Range(t)
  <2>1. ASSUME NEW x, x \in Range(p) \cup Range(r) PROVE x \in Range(s) \cup Range(t)
    <3>1. CASE x \in Range(p)
      <4>1. PICK j \in 1..l + n : p[j] = x
        BY <1>6, <3>1, RangeOf
      <4>2. (\E i \in 1..l : s[i] = x) \/ \E i \in 1..m : t[i] = x
        <5>1. 1..n \subseteq 1..m
          BY <1>4, <1>8
        <5> QED BY <1>9, <4>1, <5>1
      <4> QED BY <1>4, <4>2, RangeOf
    <3>2. CASE x \in Range(r)
      <4>1. PICK j \in 1..m - n : r[j] = x
        BY <1>5, <3>2, RangeOf
      <4>2. n + j \in 1..m /\ t[n + j] = x
        BY <1>5, <1>8, <4>1
      <4> QED BY <1>4, <4>2, RangeOf
    <3> QED BY <2>1, <3>1, <3>2
  <2>2. ASSUME NEW x, x \in Range(s) \cup Range(t) PROVE x \in Range(p) \cup Range(r)
    <3>1. CASE x \in Range(s)
      <4>1. PICK i \in 1..l : s[i] = x
        BY <1>4, <3>1, RangeOf
      <4>2. i \in 1..l + n /\ p[i] = x
        BY <1>6, <1>8, <4>1
      <4> QED BY <1>6, <4>2, RangeOf
    <3>2. CASE x \in Range(t)
      <4>1. PICK i \in 1..m : t[i] = x
        BY <1>4, <3>2, RangeOf
      <4>2. CASE i <= n
        <5>1. i \in 1..n /\ l + i \in 1..l + n
          BY <1>8, <4>2
        <5>2. p[l + i] = x
          BY <1>6, <4>1, <5>1
        <5> QED BY <1>6, <5>1, <5>2, RangeOf
      <4>3. CASE ~(i <= n)
        <5>1. i - n \in 1..m - n /\ i = n + (i - n)
          BY <1>8, <4>3
        <5>2. r[i - n] = x
          BY <1>5, <4>1, <5>1
        <5> QED BY <1>5, <5>1, <5>2, RangeOf
      <4> QED BY <4>2, <4>3
    <3> QED BY <2>2, <3>1, <3>2
  <2> QED BY <2>1, <2>2
<1>14. Range(r) \subseteq Range(t)
  <2> SUFFICES ASSUME NEW x \in Range(r) PROVE x \in Range(t)
    OBVIOUS
  <2>1. PICK j \in 1..m - n : r[j] = x
    BY <1>5, RangeOf
  <2>2. n + j \in 1..m /\ t[n + j] = x
    BY <1>5, <1>8, <2>1
  <2> QED BY <1>4, <2>2, RangeOf
<1> QED BY <1>1, <1>2, <1>3, <1>5, <1>6, <1>10, <1>11, <1>12, <1>13, <1>14

\* A place that is earlier than all of another is earlier than what is left of it.
LEMMA EarlierRange ==
    ASSUME NEW s \in Seq(Nat), NEW t \in Seq(Nat)
    PROVE  Earlier(s, t) <=> \A x \in Range(s), y \in Range(t) : x < y
<1>1. ASSUME Earlier(s, t), NEW x \in Range(s), NEW y \in Range(t) PROVE x < y
  <2>1. PICK i \in 1..Len(s) : s[i] = x
    BY RangeOf
  <2>2. PICK j \in 1..Len(t) : t[j] = y
    BY RangeOf
  <2> QED BY <1>1, <2>1, <2>2 DEF Earlier
<1>2. ASSUME \A x \in Range(s), y \in Range(t) : x < y PROVE Earlier(s, t)
  <2> SUFFICES ASSUME NEW i \in 1..Len(s), NEW j \in 1..Len(t) PROVE s[i] < t[j]
    BY DEF Earlier
  <2>1. s[i] \in Range(s) /\ t[j] \in Range(t)
    BY RangeOf
  <2> QED BY <1>2, <2>1
<1> QED BY <1>1, <1>2

LEMMA FlowOn ==
    ASSUME NEW a \in Seq(Nat), NEW b \in Seq(Nat), NEW c \in Seq(Nat), NEW l, NEW m,
           NEW n \in 0..Len(c), Flow(a, b, c, l, m)
    PROVE  Flow(a, b \o SubSeq(c, 1, n), SubSeq(c, n + 1, Len(c)), l, m)
<1>1. PICK p \in Seq(Nat), r \in Seq(Nat) :
          /\ p = b \o SubSeq(c, 1, n) /\ r = SubSeq(c, n + 1, Len(c))
          /\ InTurn(p) /\ InTurn(r) /\ Earlier(p, r) /\ Range(p) \cup Range(r) = Range(b) \cup Range(c)
  <2>1. 0 \notin Range(c) /\ InTurn(b) /\ InTurn(c) /\ Earlier(b, c)
    BY DEF Flow
  <2> DEFINE p == b \o SubSeq(c, 1, n)  r == SubSeq(c, n + 1, Len(c))
  <2>2. /\ p \in Seq(Nat) /\ r \in Seq(Nat)
        /\ InTurn(p) /\ InTurn(r) /\ Earlier(p, r) /\ Range(p) \cup Range(r) = Range(b) \cup Range(c)
    BY <2>1, FramesMove
  <2> HIDE DEF p, r
  <2> QED BY <2>2 DEF p, r
<1>2. Earlier(a, p) /\ Earlier(a, r)
  <2>1. \A x \in Range(a), y \in Range(b) \cup Range(c) : x < y
    <3>1. Earlier(a, b) /\ Earlier(a, c)
      BY DEF Flow
    <3> QED BY <3>1, EarlierRange
  <2> QED BY <1>1, <2>1, EarlierRange
<1> QED BY <1>1, <1>2 DEF Flow

LEMMA FlowOut ==
    ASSUME NEW a \in Seq(Nat), NEW b \in Seq(Nat), NEW c \in Seq(Nat), NEW l, NEW m,
           NEW n \in 0..Len(b), Flow(a, b, c, l, m)
    PROVE  Flow(a \o SubSeq(b, 1, n), SubSeq(b, n + 1, Len(b)), c, l, m)
<1>1. PICK p \in Seq(Nat), r \in Seq(Nat) :
          /\ p = a \o SubSeq(b, 1, n) /\ r = SubSeq(b, n + 1, Len(b))
          /\ InTurn(p) /\ InTurn(r) /\ Earlier(p, r) /\ Range(p) \cup Range(r) = Range(a) \cup Range(b)
          /\ Range(r) \subseteq Range(b)
  <2>1. 0 \notin Range(b) /\ InTurn(a) /\ InTurn(b) /\ Earlier(a, b)
    BY DEF Flow
  <2> DEFINE p == a \o SubSeq(b, 1, n)  r == SubSeq(b, n + 1, Len(b))
  <2>2. /\ p \in Seq(Nat) /\ r \in Seq(Nat)
        /\ InTurn(p) /\ InTurn(r) /\ Earlier(p, r) /\ Range(p) \cup Range(r) = Range(a) \cup Range(b)
        /\ Range(r) \subseteq Range(b)
    BY <2>1, FramesMove
  <2> HIDE DEF p, r
  <2> QED BY <2>2 DEF p, r
<1>2. Earlier(p, c) /\ Earlier(r, c)
  <2>1. \A x \in Range(a) \cup Range(b), y \in Range(c) : x < y
    <3>1. Earlier(a, c) /\ Earlier(b, c)
      BY DEF Flow
    <3> QED BY <3>1, EarlierRange
  <2> QED BY <1>1, <2>1, EarlierRange
<1>3. Range(r) \cup Range(c) \cup (Range(p) \ {0}) = Range(b) \cup Range(c) \cup (Range(a) \ {0})
  <2>1. 0 \notin Range(b)
    BY DEF Flow
  <2> QED BY <1>1, <2>1
<1> QED BY <1>1, <1>2, <1>3 DEF Flow

\* A new frame comes last.
LEMMA FlowIn ==
    ASSUME NEW a \in Seq(Nat), NEW b \in Seq(Nat), NEW c \in Seq(Nat), NEW l, NEW m \in Nat, Flow(a, b, c, l, m)
    PROVE  Append(c, m + 1) \in Seq(Nat) /\ Flow(a, b, Append(c, m + 1), l, m + 1)
<1>1. PICK k \in Nat : k = Len(c)
  OBVIOUS
<1>2. PICK d : d = Append(c, m + 1)
  OBVIOUS
<1>3. d \in Seq(Nat) /\ Len(d) = k + 1 /\ d[k + 1] = m + 1 /\ \A i \in 1..k : d[i] = c[i]
  BY <1>1, <1>2
<1>4. InTurn(a) /\ InTurn(b) /\ InTurn(c) /\ Earlier(a, b) /\ Earlier(a, c) /\ Earlier(b, c)
  BY DEF Flow
<1>5. /\ \A x \in Range(b) \cup Range(c) : x \in 1..m
      /\ \A x \in Range(a) : x \in 0..m
  BY DEF Flow
<1>6. Range(d) = Range(c) \cup {m + 1}
  <2>1. ASSUME NEW x \in Range(d) PROVE x \in Range(c) \cup {m + 1}
    <3>1. PICK i \in 1..k + 1 : d[i] = x
      BY <1>3, RangeOf
    <3>2. i = k + 1 \/ i \in 1..k
      OBVIOUS
    <3> QED BY <1>1, <1>3, <3>1, <3>2, RangeOf
  <2>2. ASSUME NEW x \in Range(c) PROVE x \in Range(d)
    <3>1. PICK i \in 1..k : c[i] = x
      BY <1>1, RangeOf
    <3>2. i \in 1..k + 1 /\ d[i] = x
      BY <1>3, <3>1
    <3> QED BY <1>3, <3>2, RangeOf
  <2>3. m + 1 \in Range(d)
    <3>1. k + 1 \in 1..Len(d)
      BY <1>3
    <3> QED BY <1>3, <3>1, RangeOf
  <2> QED BY <2>1, <2>2, <2>3
<1>7. InTurn(d)
  <2> SUFFICES ASSUME NEW i \in 1..k + 1, NEW j \in 1..k + 1, i < j, d[j] # 0 PROVE d[i] < d[j]
    BY <1>3 DEF InTurn
  <2>1. i \in 1..k /\ d[i] = c[i]
    BY <1>3
  <2>2. CASE j = k + 1
    <3>1. c[i] \in 1..m
      BY <1>1, <1>5, <2>1, RangeOf
    <3> QED BY <1>3, <2>1, <2>2, <3>1
  <2>3. CASE j \in 1..k
    BY <1>1, <1>3, <1>4, <2>1, <2>3 DEF InTurn
  <2> QED BY <2>2, <2>3
<1>8. Earlier(a, d) /\ Earlier(b, d)
  <2>1. /\ \A x \in Range(a), y \in Range(c) : x < y
        /\ \A x \in Range(b), y \in Range(c) : x < y
    BY <1>4, EarlierRange
  <2>2. \A x \in Range(a) \cup Range(b) : x < m + 1
    BY <1>5
  <2> QED BY <1>3, <1>6, <2>1, <2>2, EarlierRange
<1>9. Range(b) \cup Range(d) \cup (Range(a) \ {0}) \cup l = 1..m + 1
  <2>1. 1..m + 1 = (1..m) \cup {m + 1}
    OBVIOUS
  <2> QED BY <1>6, <2>1 DEF Flow
<1> QED BY <1>2, <1>3, <1>4, <1>7, <1>8, <1>9 DEF Flow

\* Silence does not disturb what came out.
LEMMA FlowSilence ==
    ASSUME NEW a \in Seq(Nat), NEW b \in Seq(Nat), NEW c \in Seq(Nat), NEW l, NEW m \in Nat, Flow(a, b, c, l, m)
    PROVE  Append(a, 0) \in Seq(Nat) /\ Flow(Append(a, 0), b, c, l, m)
<1>1. PICK k \in Nat : k = Len(a)
  OBVIOUS
<1>2. PICK d : d = Append(a, 0)
  OBVIOUS
<1>3. d \in Seq(Nat) /\ Len(d) = k + 1 /\ d[k + 1] = 0 /\ \A i \in 1..k : d[i] = a[i]
  BY <1>1, <1>2
<1>4. InTurn(a) /\ InTurn(b) /\ InTurn(c) /\ Earlier(a, b) /\ Earlier(a, c) /\ Earlier(b, c)
  BY DEF Flow
<1>5. \A x \in Range(b) \cup Range(c) : x \in 1..m
  BY DEF Flow
<1>6. Range(d) = Range(a) \cup {0}
  <2>1. ASSUME NEW x \in Range(d) PROVE x \in Range(a) \cup {0}
    <3>1. PICK i \in 1..k + 1 : d[i] = x
      BY <1>3, RangeOf
    <3>2. i = k + 1 \/ i \in 1..k
      OBVIOUS
    <3> QED BY <1>1, <1>3, <3>1, <3>2, RangeOf
  <2>2. ASSUME NEW x \in Range(a) PROVE x \in Range(d)
    <3>1. PICK i \in 1..k : a[i] = x
      BY <1>1, RangeOf
    <3>2. i \in 1..k + 1 /\ d[i] = x
      BY <1>3, <3>1
    <3> QED BY <1>3, <3>2, RangeOf
  <2>3. 0 \in Range(d)
    <3>1. k + 1 \in 1..Len(d)
      BY <1>3
    <3> QED BY <1>3, <3>1, RangeOf
  <2> QED BY <2>1, <2>2, <2>3
<1>7. InTurn(d)
  <2> SUFFICES ASSUME NEW i \in 1..k + 1, NEW j \in 1..k + 1, i < j, d[j] # 0 PROVE d[i] < d[j]
    BY <1>3 DEF InTurn
  <2>1. i \in 1..k /\ d[i] = a[i]
    BY <1>3
  <2>2. j \in 1..k /\ d[j] = a[j]
    <3>1. j # k + 1
      BY <1>3
    <3>2. j \in 1..k
      BY <3>1
    <3> QED BY <1>3, <3>2
  <2> QED BY <1>1, <1>4, <2>1, <2>2 DEF InTurn
<1>8. Earlier(d, b) /\ Earlier(d, c)
  <2>1. /\ \A x \in Range(a), y \in Range(b) : x < y
        /\ \A x \in Range(a), y \in Range(c) : x < y
    BY <1>4, EarlierRange
  <2>2. \A x \in Range(b) \cup Range(c) : 0 < x
    BY <1>5
  <2> QED BY <1>3, <1>6, <2>1, <2>2, EarlierRange
<1>9. Range(b) \cup Range(c) \cup (Range(d) \ {0}) \cup l = 1..m
  BY <1>6 DEF Flow
<1> QED BY <1>2, <1>3, <1>4, <1>7, <1>8, <1>9 DEF Flow

\* What is thrown away leaves no gap.
LEMMA FlowDropped ==
    ASSUME NEW a \in Seq(Nat), NEW b \in Seq(Nat), NEW c \in Seq(Nat), NEW l, NEW m \in Nat, Flow(a, b, c, l, m)
    PROVE  /\ Flow(a, <<>>, c, l \cup Range(b), m)
           /\ Flow(a, b, <<>>, l \cup Range(c), m)
           /\ Flow(a, b, <<>>, l \cup Range(c) \cup {m + 1}, m + 1)
<1>1. <<>> \in Seq(Nat) /\ Len(<<>>) = 0 /\ Range(<<>>) = {}
  <2>1. <<>> \in Seq(Nat) /\ Len(<<>>) = 0
    OBVIOUS
  <2>2. PICK e \in Seq(Nat) : e = <<>> /\ Len(e) = 0
    BY <2>1
  <2>3. \A x : x \in Range(e) <=> \E i \in 1..Len(e) : e[i] = x
    BY RangeOf
  <2>4. Len(e) = 0
    BY <2>2
  <2>5. Range(e) = {}
    BY <2>3, <2>4
  <2> QED BY <2>1, <2>2, <2>5
<1>2. \A s \in Seq(Nat) : InTurn(<<>>) /\ Earlier(s, <<>>) /\ Earlier(<<>>, s)
  BY <1>1 DEF InTurn, Earlier
<1>3. 1..m + 1 = (1..m) \cup {m + 1}
  OBVIOUS
<1> QED BY <1>1, <1>2, <1>3 DEF Flow

-----------------------------------------------------------------------------
\* Places of the ring.
LEMMA Around ==
    ASSUME NEW x \in 0..Size + Size - 1
    PROVE  x % Size = IF x < Size THEN x ELSE x - Size
<1>1. Size \in Nat /\ Size > 0 /\ x \in Nat /\ x < Size + Size
  BY AudioAssumption
<1>2. PICK q : q = x \div Size
  OBVIOUS
<1>3. q \in Nat /\ x % Size = x - Size * q /\ x % Size \in 0..Size - 1
  BY <1>1, <1>2
<1>4. CASE q = 0
  <2>1. Size * q = 0
    BY <1>1, <1>4
  <2> QED BY <1>1, <1>3, <2>1
<1>5. CASE q = 1
  <2>1. Size * q = Size
    BY <1>1, <1>5
  <2> QED BY <1>1, <1>3, <2>1
<1>6. CASE q > 1
  <2>1. Size * q >= Size + Size
    <3>1. PICK k \in Nat : q = k + 2
      <4>1. q - 2 \in Nat /\ q = (q - 2) + 2
        BY <1>3, <1>6
      <4> QED BY <4>1
    <3>2. Size * q = Size * k + Size + Size /\ Size * k \in Nat
      BY <1>1, <3>1
    <3> QED BY <1>1, <3>2
  <2> QED BY <1>1, <1>3, <2>1
<1> QED BY <1>3, <1>4, <1>5, <1>6

LEMMA AheadIs ==
    ASSUME NEW a \in 0..Size - 1, NEW b \in 0..Size - 1
    PROVE  /\ Ahead(a, b) = (IF a <= b THEN b - a ELSE b - a + Size)
           /\ Ahead(a, b) \in 0..Size - 1
<1>1. Size \in Nat /\ Size > 0
  BY AudioAssumption
<1>2. PICK x \in 0..Size + Size - 1 : x = b - a + Size
  BY <1>1
<1>3. Ahead(a, b) = IF x < Size THEN x ELSE x - Size
  <2>1. Ahead(a, b) = x % Size
    BY <1>2 DEF Ahead
  <2> QED BY <2>1, Around
<1> QED BY <1>1, <1>2, <1>3

LEMMA Onwards ==
    ASSUME NEW a \in 0..Size - 1, NEW n \in 0..Size - 1
    PROVE  /\ (a + n) % Size = (IF a + n < Size THEN a + n ELSE a + n - Size)
           /\ (a + n) % Size \in 0..Size - 1 /\ Ahead(a, (a + n) % Size) = n
<1>1. Size \in Nat /\ Size > 0 /\ a + n \in 0..Size + Size - 1
  BY AudioAssumption
<1>2. (a + n) % Size = (IF a + n < Size THEN a + n ELSE a + n - Size) /\ (a + n) % Size \in 0..Size - 1
  BY <1>1, Around
<1>3. PICK p \in 0..Size - 1 : p = (a + n) % Size /\ p = (IF a + n < Size THEN a + n ELSE a + n - Size)
  BY <1>2
<1>4. Ahead(a, p) = IF a <= p THEN p - a ELSE p - a + Size
  BY AheadIs
<1>5. Ahead(a, p) = n
  BY <1>1, <1>3, <1>4
<1> QED BY <1>2, <1>3, <1>5

\* Seen from a place n further on.
LEMMA FurtherOn ==
    ASSUME NEW a \in 0..Size - 1, NEW n \in 0..Size - 1, NEW b \in 0..Size - 1
    PROVE  Ahead((a + n) % Size, b) = IF n <= Ahead(a, b) THEN Ahead(a, b) - n ELSE Ahead(a, b) - n + Size
<1>1. Size \in Nat /\ Size > 0
  BY AudioAssumption
<1>2. PICK p \in 0..Size - 1 : p = (a + n) % Size /\ p = (IF a + n < Size THEN a + n ELSE a + n - Size)
  BY Onwards
<1>3. Ahead(p, b) = IF p <= b THEN b - p ELSE b - p + Size
  BY AheadIs
<1>4. Ahead(a, b) = IF a <= b THEN b - a ELSE b - a + Size
  BY AheadIs
<1> QED BY <1>1, <1>2, <1>3, <1>4

\* The queue q, of length L, of a play device lies in the ring r up to pos_, with silence between the cursor and it.
RingPlays(q, L, r, p, c) ==
    /\ L <= Ahead(c, p)
    /\ \A i \in 0..Size - 1 :
          Ahead(c, i) < Ahead(c, p) =>
              r[i] = (IF Ahead(c, i) < Ahead(c, p) - L THEN 0 ELSE q[Ahead(c, i) - (Ahead(c, p) - L) + 1])

\* That of a capture device lies from pos_ up to the cursor.
RingCaptures(q, L, r, p, c) ==
    /\ L = Ahead(p, c)
    /\ \A i \in 0..Size - 1 : Ahead(p, i) < L => r[i] = q[Ahead(p, i) + 1]

\* The first n frames of b were written from p on.
Written(s, r, b, p, n) == \A i \in 0..Size - 1 : s[i] = IF Ahead(p, i) < n THEN b[Ahead(p, i) + 1] ELSE r[i]

\* The first n values of b are in t from d + 1 on.
Within(t, b, d, n) == \A i \in 1..n : t[d + i] = b[i]

LEMMA RingWritten ==
    ASSUME NEW q, NEW b, NEW t, NEW r, NEW s, NEW p \in 0..Size - 1, NEW c \in 0..Size - 1,
           NEW L \in Nat, NEW n \in Nat \ {0}, NEW A \in 0..Size - 1, A = Ahead(c, p), n + A <= Size - 1,
           RingPlays(q, L, r, p, c), Written(s, r, b, p, n), Within(t, q, 0, L), Within(t, b, L, n)
    PROVE  RingPlays(t, L + n, s, (p + n) % Size, c)
<1>5. Size \in Nat /\ Size > 0 /\ L <= A
  BY AudioAssumption DEF RingPlays
<1>6. PICK x \in 0..Size - 1 : x = (p + n) % Size /\ x = (IF p + n < Size THEN p + n ELSE p + n - Size)
  <2>1. n \in 0..Size - 1
    BY <1>5
  <2> QED BY <2>1, Onwards
<1>x. x = IF p + n < Size THEN p + n ELSE p + n - Size
  BY <1>6
<1>7. Ahead(c, x) = A + n
  <2>1. Ahead(c, x) = IF c <= x THEN x - c ELSE x - c + Size
    BY AheadIs
  <2>2. A = IF c <= p THEN p - c ELSE p - c + Size
    BY AheadIs
  <2> QED BY <1>5, <1>x, <2>1, <2>2
<1>8. ASSUME NEW i \in 0..Size - 1, Ahead(c, i) < A + n
      PROVE  s[i] = IF Ahead(c, i) < (A + n) - (L + n) THEN 0 ELSE t[Ahead(c, i) - ((A + n) - (L + n)) + 1]
  <2>1. PICK a \in 0..Size - 1 : a = Ahead(c, i)
    BY AheadIs
  <2>2. PICK y \in 0..Size - 1 : y = Ahead(p, i)
    BY AheadIs
  <2>3. y = IF A <= a THEN a - A ELSE a - A + Size
    <3>1. y = IF p <= i THEN i - p ELSE i - p + Size
      BY <2>2, AheadIs
    <3>2. a = IF c <= i THEN i - c ELSE i - c + Size
      BY <2>1, AheadIs
    <3>3. A = IF c <= p THEN p - c ELSE p - c + Size
      BY AheadIs
    <3> QED BY <1>5, <3>1, <3>2, <3>3
  <2>4. (A + n) - (L + n) = A - L
    BY <1>5
  <2>5. CASE a < A
    <3>1. ~(y < n)
      BY <1>5, <2>3, <2>5
    <3>2. s[i] = r[i]
      BY <2>2, <3>1 DEF Written
    <3>3. r[i] = IF a < A - L THEN 0 ELSE q[a - (A - L) + 1]
      BY <2>1, <2>5 DEF RingPlays
    <3>4. CASE a < A - L
      BY <2>1, <2>4, <3>2, <3>3, <3>4
    <3>5. CASE ~(a < A - L)
      <4>1. PICK j \in 1..L : j = a - (A - L) + 1 /\ 0 + j = j
        BY <1>5, <2>5, <3>5
      <4>2. t[j] = q[j]
        BY <4>1 DEF Within
      <4> QED BY <2>1, <2>4, <3>2, <3>3, <3>5, <4>1, <4>2
    <3> QED BY <3>4, <3>5
  <2>6. CASE ~(a < A)
    <3>1. PICK j \in 1..n : j = y + 1 /\ y < n /\ L + j = a - (A - L) + 1 /\ ~(a < A - L)
      BY <1>5, <1>8, <2>1, <2>3, <2>6
    <3>2. s[i] = b[j]
      BY <2>2, <3>1 DEF Written
    <3>3. t[L + j] = b[j]
      BY <3>1 DEF Within
    <3> QED BY <2>1, <2>4, <3>1, <3>2, <3>3
  <2> QED BY <2>5, <2>6
<1>9. L + n <= A + n
  BY <1>5
<1>10. RingPlays(t, L + n, s, x, c)
  BY <1>7, <1>8, <1>9 DEF RingPlays
<1> QED BY <1>6, <1>10

\* The cursor moves over silence.
LEMMA RingQuiet ==
    ASSUME NEW q, NEW L \in Nat, NEW r, NEW p \in 0..Size - 1, NEW c \in 0..Size - 1,
           RingPlays(q, L, r, p, c), L < Ahead(c, p)
    PROVE  r[c] = 0 /\ RingPlays(q, L, r, p, (c + 1) % Size)
<1>1. PICK A \in 0..Size - 1 : A = Ahead(c, p)
  BY AheadIs
<1>3. Size \in Nat /\ Size > 1 /\ L < A /\ 1 \in 0..Size - 1
  BY <1>1, AudioAssumption
<1>4. r[c] = 0
  <2>1. Ahead(c, c) = 0
    BY <1>3, AheadIs
  <2> QED BY <1>1, <1>3, <2>1 DEF RingPlays
<1>5. PICK x \in 0..Size - 1 : x = (c + 1) % Size
  BY <1>3, Onwards
<1>6. \A i \in 0..Size - 1 : Ahead(x, i) = IF 1 <= Ahead(c, i) THEN Ahead(c, i) - 1 ELSE Ahead(c, i) - 1 + Size
  BY <1>3, <1>5, FurtherOn
<1>7. Ahead(x, p) = A - 1
  BY <1>1, <1>3, <1>6
<1>8. ASSUME NEW i \in 0..Size - 1, Ahead(x, i) < A - 1
      PROVE  r[i] = IF Ahead(x, i) < (A - 1) - L THEN 0 ELSE q[Ahead(x, i) - ((A - 1) - L) + 1]
  <2>1. PICK a \in 0..Size - 1 : a = Ahead(c, i)
    BY AheadIs
  <2>2. Ahead(x, i) = a - 1 /\ a < A
    BY <1>1, <1>3, <1>6, <1>8, <2>1
  <2>3. r[i] = IF a < A - L THEN 0 ELSE q[a - (A - L) + 1]
    BY <1>1, <2>1, <2>2 DEF RingPlays
  <2>4. (a - 1) - ((A - 1) - L) + 1 = a - (A - L) + 1 /\ (a - 1 < (A - 1) - L <=> a < A - L)
    BY <1>1, <2>1
  <2> QED BY <2>2, <2>3, <2>4
<1>9. L <= A - 1
  BY <1>1, <1>3
<1>10. RingPlays(q, L, r, p, x)
  BY <1>7, <1>8, <1>9 DEF RingPlays
<1> QED BY <1>4, <1>5, <1>10

\* The cursor moves over the first frame of the queue.
LEMMA RingHeard ==
    ASSUME NEW q, NEW t, NEW A \in Nat \ {0}, NEW r, NEW p \in 0..Size - 1, NEW c \in 0..Size - 1,
           RingPlays(q, A, r, p, c), A = Ahead(c, p), \A i \in 1..A - 1 : t[i] = q[i + 1]
    PROVE  r[c] = q[1] /\ RingPlays(t, A - 1, r, p, (c + 1) % Size)
<1>1. A \in 0..Size - 1
  BY AheadIs
<1>3. Size \in Nat /\ Size > 1 /\ 1 \in 0..Size - 1
  BY <1>1, AudioAssumption
<1>4. r[c] = q[1]
  <2>1. Ahead(c, c) = 0
    BY <1>3, AheadIs
  <2>2. r[c] = IF 0 < Ahead(c, p) - A THEN 0 ELSE q[0 - (Ahead(c, p) - A) + 1]
    <3>1. 0 < Ahead(c, p)
      BY <1>1
    <3> QED BY <2>1, <3>1 DEF RingPlays
  <2>3. ~(0 < Ahead(c, p) - A) /\ 0 - (Ahead(c, p) - A) + 1 = 1
    BY <1>1
  <2> QED BY <2>2, <2>3
<1>5. PICK x \in 0..Size - 1 : x = (c + 1) % Size
  BY <1>3, Onwards
<1>6. \A i \in 0..Size - 1 : Ahead(x, i) = IF 1 <= Ahead(c, i) THEN Ahead(c, i) - 1 ELSE Ahead(c, i) - 1 + Size
  BY <1>3, <1>5, FurtherOn
<1>7. Ahead(x, p) = A - 1
  BY <1>1, <1>6
<1>8. ASSUME NEW i \in 0..Size - 1, Ahead(x, i) < A - 1
      PROVE  r[i] = IF Ahead(x, i) < (A - 1) - (A - 1) THEN 0 ELSE t[Ahead(x, i) - ((A - 1) - (A - 1)) + 1]
  <2>1. PICK a \in 0..Size - 1 : a = Ahead(c, i)
    BY AheadIs
  <2>2. Ahead(x, i) = a - 1 /\ a < A /\ a >= 1
    BY <1>1, <1>3, <1>6, <1>8, <2>1
  <2>3. r[i] = IF a < A - A THEN 0 ELSE q[a - (A - A) + 1]
    BY <1>1, <2>1, <2>2 DEF RingPlays
  <2>4. r[i] = q[a + 1]
    <3>1. A - A = 0 /\ ~(a < 0) /\ a - 0 = a
      BY <1>3, <2>1
    <3> QED BY <2>3, <3>1
  <2>5. t[a] = q[a + 1]
    BY <1>3, <2>1, <2>2
  <2>6. (A - 1) - (A - 1) = 0 /\ ~(a - 1 < 0) /\ (a - 1) - 0 + 1 = a
    BY <1>3, <2>1, <2>2
  <2> QED BY <2>2, <2>4, <2>5, <2>6
<1>9. RingPlays(t, A - 1, r, p, x)
  BY <1>7, <1>8 DEF RingPlays
<1> QED BY <1>4, <1>5, <1>9

\* A read takes the first n frames of the queue.
LEMMA RingRead ==
    ASSUME NEW q, NEW t, NEW L \in Nat, NEW r, NEW p \in 0..Size - 1, NEW c \in 0..Size - 1,
           RingCaptures(q, L, r, p, c), NEW n \in 1..L, \A i \in 1..L - n : t[i] = q[n + i]
    PROVE  /\ \A k \in 1..n : r[(p + k - 1) % Size] = q[k]
           /\ RingCaptures(t, L - n, r, (p + n) % Size, c)
<1>1. L \in 0..Size - 1 /\ L = Ahead(p, c)
  BY AheadIs DEF RingCaptures
<1>2. Size \in Nat /\ Size > 0 /\ n \in Nat /\ n > 0 /\ n <= L /\ n \in 0..Size - 1
  BY <1>1, AudioAssumption
<1>3. \A i \in 0..Size - 1 : Ahead(p, i) < L => r[i] = q[Ahead(p, i) + 1]
  BY <1>1 DEF RingCaptures
<1>4. ASSUME NEW k \in 1..n PROVE r[(p + k - 1) % Size] = q[k]
  <2>1. PICK y \in 0..Size - 1 : y = k - 1 /\ y + 1 = k /\ p + k - 1 = p + y
    BY <1>2
  <2>2. (p + y) % Size \in 0..Size - 1 /\ Ahead(p, (p + y) % Size) = y
    BY Onwards
  <2>3. y < L
    BY <1>1, <1>2, <2>1
  <2> QED BY <1>3, <2>1, <2>2, <2>3
<1>6. PICK x \in 0..Size - 1 : x = (p + n) % Size
  BY <1>2, Onwards
<1>7. \A i \in 0..Size - 1 : Ahead(x, i) = IF n <= Ahead(p, i) THEN Ahead(p, i) - n ELSE Ahead(p, i) - n + Size
  BY <1>2, <1>6, FurtherOn
<1>8. Ahead(x, c) = L - n
  BY <1>1, <1>2, <1>7
<1>9. ASSUME NEW i \in 0..Size - 1, Ahead(x, i) < L - n PROVE r[i] = t[Ahead(x, i) + 1]
  <2>1. PICK a \in 0..Size - 1 : a = Ahead(p, i)
    BY AheadIs
  <2>2. Ahead(x, i) = a - n /\ a < L /\ a >= n
    BY <1>1, <1>2, <1>7, <1>9, <2>1
  <2>3. PICK j \in 1..L - n : j = a - n + 1 /\ n + j = a + 1
    BY <1>1, <1>2, <2>1, <2>2
  <2> QED BY <1>3, <2>1, <2>2, <2>3
<1>10. RingCaptures(t, L - n, r, x, c)
  BY <1>8, <1>9 DEF RingCaptures
<1> QED BY <1>4, <1>6, <1>10

LEMMA RingCaptured ==
    ASSUME NEW q, NEW t, NEW L \in Nat, NEW r, NEW s, NEW p \in 0..Size - 1, NEW c \in 0..Size - 1,
           RingCaptures(q, L, r, p, c), (c + 1) % Size # p, \A i \in 1..L : t[i] = q[i],
           \A i \in 0..Size - 1 : s[i] = IF i = c THEN t[L + 1] ELSE r[i]
    PROVE  RingCaptures(t, L + 1, s, p, (c + 1) % Size)
<1>1. L \in 0..Size - 1 /\ L = Ahead(p, c)
  BY AheadIs DEF RingCaptures
<1>2. Size \in Nat /\ Size > 0 /\ c + 1 \in 0..Size + Size - 1
  BY AudioAssumption
<1>3. PICK x \in 0..Size - 1 : x = (c + 1) % Size /\ x = (IF c + 1 < Size THEN c + 1 ELSE c + 1 - Size)
  BY <1>2, Around
<1>4. x # p
  BY <1>3
<1>5. L = IF p <= c THEN c - p ELSE c - p + Size
  BY <1>1, AheadIs
<1>6. Ahead(p, x) = L + 1
  <2>1. Ahead(p, x) = IF p <= x THEN x - p ELSE x - p + Size
    BY AheadIs
  <2> QED BY <1>2, <1>3, <1>4, <1>5, <2>1
<1>9. ASSUME NEW i \in 0..Size - 1, Ahead(p, i) < L + 1 PROVE s[i] = t[Ahead(p, i) + 1]
  <2>1. CASE i = c
    BY <1>1, <2>1
  <2>2. CASE i # c
    <3>1. PICK a \in 0..Size - 1 : a = Ahead(p, i) /\ a = (IF p <= i THEN i - p ELSE i - p + Size)
      BY AheadIs
    <3>2. a # L
      BY <1>2, <1>5, <2>2, <3>1
    <3>3. a < L /\ a + 1 \in 1..L
      BY <1>1, <1>9, <3>1, <3>2
    <3>4. r[i] = q[a + 1]
      BY <1>1, <3>1, <3>3 DEF RingCaptures
    <3> QED BY <2>2, <3>1, <3>3, <3>4
  <2> QED BY <2>1, <2>2
<1>10. RingCaptures(t, L + 1, s, p, x)
  BY <1>6, <1>9 DEF RingCaptures
<1> QED BY <1>3, <1>10

-----------------------------------------------------------------------------
AudioTypes ==
    /\ dev \in Devices /\ queue \in Seq(Nat) /\ buffer \in Seq(Nat) /\ out \in Seq(Nat)
    /\ ring \in [0..Size - 1 -> Nat] /\ pos \in 0..Size - 1 /\ cursor \in 0..Size - 1
    /\ slipped \in BOOLEAN /\ made \in Nat

\* The queue comes before the buffer when the device plays and after it when it captures.
DeviceFlow(q, b, o, thrown, m) ==
    IF dev \in {"alsa_play", "dsound_play"} THEN Flow(o, q, b, thrown, m) ELSE Flow(o, b, q, thrown, m)

RingHolds(q, r, p, c) ==
    /\ dev = "dsound_play" => RingPlays(q, Len(q), r, p, c)
    /\ dev = "dsound_capture" => RingCaptures(q, Len(q), r, p, c)

AudioInv ==
    /\ AudioTypes
    /\ ~slipped => DeviceFlow(queue, buffer, out, lost, made) /\ RingHolds(queue, ring, pos, cursor)

LEMMA AudioInitInv == AudioInit => AudioInv
<1> SUFFICES ASSUME AudioInit PROVE AudioInv
  OBVIOUS
<1>1. Size \in Nat /\ Size > 0 /\ 0 \in 0..Size - 1
  BY AudioAssumption
<1>e. <<>> \in Seq(Nat) /\ Len(<<>>) = 0
  OBVIOUS
<1>3. PICK e \in Seq(Nat) : e = <<>> /\ Len(e) = 0
  BY <1>e
<1>2. AudioTypes
  <2>1. queue = e /\ buffer = e /\ out = e /\ dev \in Devices /\ slipped = FALSE /\ made = 0 /\ pos = 0 /\ cursor = 0
        /\ ring = [i \in 0..Size - 1 |-> 0]
    BY <1>3 DEF AudioInit
  <2>2. ring \in [0..Size - 1 -> Nat]
    BY <2>1
  <2> QED BY <1>1, <2>1, <2>2 DEF AudioTypes
<1>4. Range(e) = {}
  <2>1. \A x : x \in Range(e) <=> \E i \in 1..Len(e) : e[i] = x
    BY RangeOf
  <2>2. Len(e) = 0
    BY <1>3
  <2> QED BY <2>1, <2>2
<1>5. Flow(e, e, e, {}, 0)
  <2>1. Len(e) = 0
    BY <1>3
  <2>2. InTurn(e) /\ Earlier(e, e)
    BY <2>1 DEF InTurn, Earlier
  <2> QED BY <1>4, <2>2 DEF Flow
<1>6. DeviceFlow(queue, buffer, out, lost, made)
  BY <1>3, <1>5 DEF AudioInit, DeviceFlow
<1>7. RingHolds(queue, ring, pos, cursor)
  <2>1. Ahead(0, 0) = 0
    BY <1>1, AheadIs
  <2>2. \A i \in 0..Size - 1 : Ahead(0, i) >= 0 /\ Ahead(0, i) \in Nat
    BY <1>1, AheadIs
  <2>3. queue = e /\ pos = 0 /\ cursor = 0
    BY <1>3 DEF AudioInit
  <2>4. Len(e) = 0
    BY <1>3
  <2>5. \A i \in 0..Size - 1 : ~(Ahead(0, i) < 0)
    BY <2>2
  <2>6. RingPlays(e, 0, ring, 0, 0) /\ RingCaptures(e, 0, ring, 0, 0)
    BY <2>1, <2>5 DEF RingPlays, RingCaptures
  <2> QED BY <2>3, <2>4, <2>6 DEF RingHolds
<1> QED BY <1>2, <1>6, <1>7 DEF AudioInv

\* What a step has to show.
LEMMA ByStep ==
    ASSUME AudioInv, dev' = dev, AudioTypes',
           ~slipped' => /\ ~slipped
                        /\ DeviceFlow(queue', buffer', out', lost', made')
                        /\ RingHolds(queue', ring', pos', cursor')
    PROVE  AudioInv'
BY DEF AudioInv, DeviceFlow, RingHolds

LEMMA StillStep ==
    ASSUME AudioInv, UNCHANGED <<dev, queue, ring, pos, cursor, slipped, buffer, made, out, lost>>
    PROVE  AudioInv'
BY DEF AudioInv, AudioTypes, DeviceFlow, RingHolds

\* ALSA's devices do not use the ring.
LEMMA AlsaStep ==
    ASSUME AudioInv, dev \in {"alsa_play", "alsa_capture"}, UNCHANGED <<dev, ringVars>>,
           queue' \in Seq(Nat), buffer' \in Seq(Nat), out' \in Seq(Nat), made' \in Nat,
           ~slipped => DeviceFlow(queue', buffer', out', lost', made')
    PROVE  AudioInv'
<1>1. AudioTypes'
  BY DEF AudioInv, AudioTypes, ringVars
<1>2. RingHolds(queue', ring', pos', cursor')
  BY DEF RingHolds
<1> QED BY <1>1, <1>2, ByStep DEF ringVars

LEMMA BufferStep == AudioInv /\ (FillBuffer \/ TakeBuffer) => AudioInv'
<1> SUFFICES ASSUME AudioInv PROVE FillBuffer \/ TakeBuffer => AudioInv'
  OBVIOUS
<1>1. AudioTypes /\ queue \in Seq(Nat) /\ buffer \in Seq(Nat) /\ out \in Seq(Nat) /\ made \in Nat
  BY DEF AudioInv, AudioTypes
<1>2. ASSUME FillBuffer PROVE AudioInv'
  <2>1. /\ dev \in {"alsa_play", "dsound_play"} /\ made' = made + 1 /\ buffer' = Append(buffer, made + 1)
        /\ UNCHANGED <<dev, queue, ring, pos, cursor, slipped, out, lost>>
    BY <1>2 DEF FillBuffer, ringVars
  <2>2. buffer' \in Seq(Nat) /\ made' \in Nat
    BY <1>1, <2>1
  <2>3. AudioTypes'
    BY <1>1, <2>1, <2>2 DEF AudioTypes
  <2>4. ASSUME ~slipped PROVE Flow(out, queue, Append(buffer, made + 1), lost, made + 1)
    BY <1>1, <2>1, <2>4, FlowIn DEF AudioInv, DeviceFlow
  <2> QED BY <2>1, <2>3, <2>4, ByStep DEF AudioInv, DeviceFlow, RingHolds
<1>3. ASSUME TakeBuffer PROVE AudioInv'
  <2>1. /\ dev \in {"alsa_capture", "dsound_capture"} /\ out' = out \o buffer
        /\ buffer' = SubSeq(buffer, Len(buffer) + 1, Len(buffer))
        /\ UNCHANGED <<dev, queue, ring, pos, cursor, slipped, made, lost>>
    BY <1>3 DEF TakeBuffer, ringVars, consume_samples
  <2>2. buffer = SubSeq(buffer, 1, Len(buffer)) /\ Len(buffer) \in 0..Len(buffer)
    BY <1>1
  <2>3. buffer' \in Seq(Nat) /\ out' \in Seq(Nat)
    <3>1. buffer' \in Seq(Nat)
      BY <1>1, <2>1, <2>2, FramesCut
    <3>2. out' \in Seq(Nat)
      BY <1>1, <2>1, FramesJoined
    <3> QED BY <3>1, <3>2
  <2>4. AudioTypes'
    BY <1>1, <2>1, <2>3 DEF AudioTypes
  <2>5. ASSUME ~slipped PROVE Flow(out', buffer', queue, lost, made)
    <3>1. Flow(out, buffer, queue, lost, made)
      BY <2>1, <2>5 DEF AudioInv, DeviceFlow
    <3>2. Flow(out \o SubSeq(buffer, 1, Len(buffer)), SubSeq(buffer, Len(buffer) + 1, Len(buffer)), queue, lost, made)
      BY <1>1, <2>2, <3>1, FlowOut
    <3> QED BY <2>1, <2>2, <3>2
  <2> QED BY <2>1, <2>4, <2>5, ByStep DEF AudioInv, DeviceFlow, RingHolds
<1> QED BY <1>2, <1>3

LEMMA StillSteps ==
    AudioInv /\ (\/ alsa_capture_start \/ wait \/ WaitReturns
                 \/ \E type \in {"force", "drain"} : alsa_play_stop(type) \/ alsa_capture_stop(type)
                 \/ dsound_play_start \/ dsound_capture_start \/ dsound_play_stop \/ dsound_capture_stop
                 \/ UNCHANGED audioVars)
    => AudioInv'
BY StillStep DEF alsa_capture_start, wait, WaitReturns, alsa_play_stop, alsa_capture_stop, dsound_play_start,
   dsound_capture_start, dsound_play_stop, dsound_capture_stop, audioVars, ringVars

\* A start or a stop keeps the queue or throws it away.
LEMMA ThrowAway == AudioInv /\ (alsa_play_start \/ StopDevice) => AudioInv'
<1> SUFFICES ASSUME AudioInv, alsa_play_start \/ StopDevice PROVE AudioInv'
  OBVIOUS
<1>1. AudioTypes /\ queue \in Seq(Nat) /\ buffer \in Seq(Nat) /\ out \in Seq(Nat) /\ made \in Nat
  BY DEF AudioInv, AudioTypes
<1>e. <<>> \in Seq(Nat) /\ Len(<<>>) = 0
  OBVIOUS
<1>2. Range(<<>>) = {}
  <2>1. PICK e \in Seq(Nat) : e = <<>> /\ Len(e) = 0
    BY <1>e
  <2>2. \A x : x \in Range(e) <=> \E i \in 1..Len(e) : e[i] = x
    BY RangeOf
  <2>3. Len(e) = 0
    BY <2>1
  <2>4. Range(e) = {}
    BY <2>2, <2>3
  <2> QED BY <2>1, <2>4
<1>3. /\ dev \in {"alsa_play", "alsa_capture"} /\ UNCHANGED <<dev, ringVars, buffer, made, out>>
      /\ (queue' = queue /\ lost' = lost) \/ (queue' = <<>> /\ lost' = lost \cup Range(queue))
  <2>1. CASE alsa_play_start
    <3>1. /\ dev = "alsa_play" /\ UNCHANGED <<dev, ringVars, buffer, made, out>>
          /\ \/ queue' = queue /\ lost' = lost
             \/ queue' = queue /\ lost' = lost \cup (Range(queue) \ Range(queue'))
             \/ queue' = <<>> /\ lost' = lost \cup (Range(queue) \ Range(queue'))
      BY <2>1 DEF alsa_play_start
    <3>2. queue' = queue => lost \cup (Range(queue) \ Range(queue')) = lost
      OBVIOUS
    <3>3. queue' = <<>> => Range(queue) \ Range(queue') = Range(queue)
      BY <1>2
    <3> QED BY <3>1, <3>2, <3>3
  <2>2. CASE StopDevice
    BY <2>2 DEF StopDevice
  <2> QED BY <2>1, <2>2
<1>4. CASE queue' = queue /\ lost' = lost
  BY <1>3, <1>4, StillStep DEF ringVars
<1>5. CASE queue' = <<>> /\ lost' = lost \cup Range(queue)
  <2>1. queue' \in Seq(Nat) /\ buffer' \in Seq(Nat) /\ out' \in Seq(Nat) /\ made' \in Nat
    BY <1>1, <1>3, <1>5, <1>e
  <2>2. ASSUME ~slipped PROVE DeviceFlow(queue', buffer', out', lost', made')
    <3>1. CASE dev = "alsa_play"
      <4>1. Flow(out, queue, buffer, lost, made)
        BY <2>2, <3>1 DEF AudioInv, DeviceFlow
      <4>2. Flow(out, <<>>, buffer, lost \cup Range(queue), made)
        BY <1>1, <4>1, FlowDropped
      <4> QED BY <1>3, <1>5, <3>1, <4>2 DEF DeviceFlow
    <3>2. CASE dev = "alsa_capture"
      <4>1. Flow(out, buffer, queue, lost, made)
        BY <2>2, <3>2 DEF AudioInv, DeviceFlow
      <4>2. Flow(out, buffer, <<>>, lost \cup Range(queue), made)
        BY <1>1, <4>1, FlowDropped
      <4> QED BY <1>3, <1>5, <3>2, <4>2 DEF DeviceFlow
    <3> QED BY <1>3, <3>1, <3>2
  <2> QED BY <1>3, <2>1, <2>2, AlsaStep
<1> QED BY <1>3, <1>4, <1>5

LEMMA LeastIs ==
    ASSUME NEW a \in Int, NEW b \in Int
    PROVE  Least(a, b) <= a /\ Least(a, b) <= b /\ Least(a, b) \in Int
BY DEF Least

LEMMA AlsaTransfers == AudioInv /\ (alsa_write \/ alsa_read) => AudioInv'
<1> SUFFICES ASSUME AudioInv PROVE alsa_write \/ alsa_read => AudioInv'
  OBVIOUS
<1>1. AudioTypes /\ queue \in Seq(Nat) /\ buffer \in Seq(Nat) /\ out \in Seq(Nat) /\ made \in Nat
  BY DEF AudioInv, AudioTypes
<1>2. Len(queue) \in Nat /\ Len(buffer) \in Nat /\ Size \in Nat /\ BufferSize \in Nat
  BY <1>1, AudioAssumption
<1>3. ASSUME alsa_write PROVE AudioInv'
  <2>1. PICK n \in 1..Least(Len(buffer), Size - Len(queue)) :
            queue' = queue \o SubSeq(buffer, 1, n) /\ buffer' = SubSeq(buffer, n + 1, Len(buffer))
    BY <1>3 DEF alsa_write, consume_samples
  <2>2. dev = "alsa_play" /\ UNCHANGED <<dev, ringVars, made, out, lost>>
    BY <1>3 DEF alsa_write
  <2>3. n \in 0..Len(buffer)
    <3>1. PICK l \in Nat, q \in Nat : l = Len(buffer) /\ q = Len(queue)
      BY <1>2
    <3>2. Least(l, Size - q) <= l /\ Least(l, Size - q) \in Int /\ n \in 1..Least(l, Size - q)
      BY <1>2, <3>1, LeastIs
    <3>3. n \in 0..l
      BY <3>2
    <3> QED BY <3>1, <3>3
  <2>4. queue' \in Seq(Nat) /\ buffer' \in Seq(Nat)
    <3>1. SubSeq(buffer, 1, n) \in Seq(Nat) /\ SubSeq(buffer, n + 1, Len(buffer)) \in Seq(Nat)
      BY <1>1, <2>3, FramesCut
    <3> QED BY <1>1, <2>1, <3>1, FramesJoined
  <2>5. ASSUME ~slipped PROVE DeviceFlow(queue', buffer', out', lost', made')
    <3>1. Flow(out, queue, buffer, lost, made)
      BY <2>2, <2>5 DEF AudioInv, DeviceFlow
    <3>2. Flow(out, queue \o SubSeq(buffer, 1, n), SubSeq(buffer, n + 1, Len(buffer)), lost, made)
      BY <1>1, <2>3, <3>1, FlowOn
    <3> QED BY <2>1, <2>2, <3>2 DEF DeviceFlow
  <2>6. out' \in Seq(Nat) /\ made' \in Nat
    BY <1>1, <2>2
  <2> QED BY <2>2, <2>4, <2>5, <2>6, AlsaStep
<1>4. ASSUME alsa_read PROVE AudioInv'
  <2>2. dev = "alsa_capture" /\ UNCHANGED <<dev, ringVars, made, out, lost>>
    BY <1>4 DEF alsa_read
  <2>3. CASE UNCHANGED <<queue, buffer>>
    BY <2>2, <2>3, StillStep DEF ringVars
  <2>4. ASSUME NEW n, n = Least(Len(queue), free_samples(buffer)), n > 0,
               buffer' = buffer \o SubSeq(queue, 1, n), queue' = SubSeq(queue, n + 1, Len(queue))
        PROVE  AudioInv'
    <3>1. n \in 0..Len(queue)
      <4>1. PICK l \in Nat, q \in Nat : l = Len(buffer) /\ q = Len(queue)
        BY <1>2
      <4>2. n = Least(q, BufferSize - l) /\ BufferSize - l \in Int
        BY <1>2, <2>4, <4>1 DEF free_samples
      <4>3. n <= q /\ n \in Int
        BY <4>1, <4>2, LeastIs
      <4>4. n \in 0..q
        BY <2>4, <4>3
      <4> QED BY <4>1, <4>4
    <3>2. queue' \in Seq(Nat) /\ buffer' \in Seq(Nat)
      <4>1. SubSeq(queue, 1, n) \in Seq(Nat) /\ SubSeq(queue, n + 1, Len(queue)) \in Seq(Nat)
        BY <1>1, <3>1, FramesCut
      <4> QED BY <1>1, <2>4, <4>1, FramesJoined
    <3>3. ASSUME ~slipped PROVE DeviceFlow(queue', buffer', out', lost', made')
      <4>1. Flow(out, buffer, queue, lost, made)
        BY <2>2, <3>3 DEF AudioInv, DeviceFlow
      <4>2. Flow(out, buffer \o SubSeq(queue, 1, n), SubSeq(queue, n + 1, Len(queue)), lost, made)
        BY <1>1, <3>1, <4>1, FlowOn
      <4> QED BY <2>2, <2>4, <4>2 DEF DeviceFlow
    <3>4. out' \in Seq(Nat) /\ made' \in Nat
      BY <1>1, <2>2
    <3> QED BY <2>2, <3>2, <3>3, <3>4, AlsaStep
  <2> QED BY <1>4, <2>3, <2>4 DEF alsa_read
<1> QED BY <1>3, <1>4

\* The first frame of the queue comes out.
LEMMA FlowHead ==
    ASSUME NEW a \in Seq(Nat), NEW b \in Seq(Nat), NEW c \in Seq(Nat), NEW l, NEW m, b # <<>>, Flow(a, b, c, l, m)
    PROVE  Flow(Append(a, Head(b)), Tail(b), c, l, m)
<1>1. 1 \in 0..Len(b)
  OBVIOUS
<1>2. Flow(a \o SubSeq(b, 1, 1), SubSeq(b, 2, Len(b)), c, l, m)
  <2>1. Flow(a \o SubSeq(b, 1, 1), SubSeq(b, 1 + 1, Len(b)), c, l, m)
    BY <1>1, FlowOut
  <2>2. 1 + 1 = 2
    OBVIOUS
  <2> QED BY <2>1, <2>2
<1>3. a \o SubSeq(b, 1, 1) = Append(a, Head(b))
  OBVIOUS
<1>4. SubSeq(b, 2, Len(b)) = Tail(b)
  OBVIOUS
<1> QED BY <1>2, <1>3, <1>4

LEMMA AlsaRuns == AudioInv /\ (AlsaPlays \/ AlsaCaptures) => AudioInv'
<1> SUFFICES ASSUME AudioInv PROVE AlsaPlays \/ AlsaCaptures => AudioInv'
  OBVIOUS
<1>1. AudioTypes /\ queue \in Seq(Nat) /\ buffer \in Seq(Nat) /\ out \in Seq(Nat) /\ made \in Nat
  BY DEF AudioInv, AudioTypes
<1>2. ASSUME AlsaPlays PROVE AudioInv'
  <2>1. dev = "alsa_play" /\ UNCHANGED <<dev, ringVars, buffer, made, lost>>
    BY <1>2 DEF AlsaPlays
  <2>2. CASE queue = <<>>
    <3>1. UNCHANGED <<queue, out>>
      BY <1>2, <2>2 DEF AlsaPlays
    <3> QED BY <2>1, <3>1, StillStep DEF ringVars
  <2>3. CASE queue # <<>>
    <3>1. out' = Append(out, Head(queue)) /\ queue' = Tail(queue)
      BY <1>2, <2>3 DEF AlsaPlays
    <3>2. Head(queue) \in Nat /\ Tail(queue) \in Seq(Nat)
      BY <1>1, <2>3
    <3>3. queue' \in Seq(Nat) /\ buffer' \in Seq(Nat) /\ out' \in Seq(Nat) /\ made' \in Nat
      BY <1>1, <2>1, <3>1, <3>2
    <3>4. ASSUME ~slipped PROVE DeviceFlow(queue', buffer', out', lost', made')
      <4>1. Flow(out, queue, buffer, lost, made)
        BY <2>1, <3>4 DEF AudioInv, DeviceFlow
      <4>2. Flow(Append(out, Head(queue)), Tail(queue), buffer, lost, made)
        BY <1>1, <2>3, <4>1, FlowHead
      <4> QED BY <2>1, <3>1, <4>2 DEF DeviceFlow
    <3> QED BY <2>1, <3>3, <3>4, AlsaStep
  <2> QED BY <2>2, <2>3
<1>3. ASSUME AlsaCaptures PROVE AudioInv'
  <2>1. dev = "alsa_capture" /\ made' = made + 1 /\ UNCHANGED <<dev, ringVars, buffer, out>>
    BY <1>3 DEF AlsaCaptures
  <2>2. \/ queue' = Append(queue, made + 1) /\ lost' = lost
        \/ queue' = <<>> /\ lost' = lost \cup Range(queue) \cup {made + 1}
    BY <1>3 DEF AlsaCaptures
  <2>3. <<>> \in Seq(Nat) /\ Append(queue, made + 1) \in Seq(Nat) /\ made + 1 \in Nat
    BY <1>1
  <2>4. queue' \in Seq(Nat) /\ buffer' \in Seq(Nat) /\ out' \in Seq(Nat) /\ made' \in Nat
    BY <1>1, <2>1, <2>2, <2>3
  <2>5. ASSUME ~slipped PROVE DeviceFlow(queue', buffer', out', lost', made')
    <3>1. Flow(out, buffer, queue, lost, made)
      BY <2>1, <2>5 DEF AudioInv, DeviceFlow
    <3>2. /\ Flow(out, buffer, Append(queue, made + 1), lost, made + 1)
          /\ Flow(out, buffer, <<>>, lost \cup Range(queue) \cup {made + 1}, made + 1)
      BY <1>1, <3>1, FlowIn, FlowDropped
    <3> QED BY <2>1, <2>2, <3>2 DEF DeviceFlow
  <2> QED BY <2>1, <2>4, <2>5, AlsaStep
<1> QED BY <1>2, <1>3

\* The rest of the ring is silenced.
LEMMA DrainStep == AudioInv /\ drain => AudioInv'
<1> SUFFICES ASSUME AudioInv, drain PROVE AudioInv'
  OBVIOUS
<1>1. AudioTypes /\ ring \in [0..Size - 1 -> Nat] /\ pos \in 0..Size - 1 /\ cursor \in 0..Size - 1
  BY DEF AudioInv, AudioTypes
<1>2. dev = "dsound_play" /\ UNCHANGED <<dev, queue, pos, cursor, slipped, buffer, made, out, lost>>
  BY DEF drain
<1>3. ring' = [i \in 0..Size - 1 |-> IF Ahead(cursor, i) < Ahead(cursor, pos) THEN ring[i] ELSE 0]
  BY <1>1 DEF drain, zero_buffer_region
<1>4. ring' \in [0..Size - 1 -> Nat]
  BY <1>1, <1>3
<1>5. AudioTypes'
  BY <1>1, <1>2, <1>4 DEF AudioTypes
<1>6. ASSUME ~slipped PROVE RingPlays(queue, Len(queue), ring', pos, cursor)
  <2>1. RingPlays(queue, Len(queue), ring, pos, cursor)
    BY <1>2, <1>6 DEF AudioInv, RingHolds
  <2>2. \A i \in 0..Size - 1 : Ahead(cursor, i) < Ahead(cursor, pos) => ring'[i] = ring[i]
    BY <1>3
  <2> QED BY <2>1, <2>2 DEF RingPlays
<1> QED BY <1>2, <1>5, <1>6, ByStep DEF AudioInv, DeviceFlow, RingHolds

\* A write that does not cover what is still to be played has room behind pos_.
LEMMA WriteFits ==
    ASSUME AudioTypes, dev = "dsound_play", NEW n \in Nat \ {0}, NEW l \in Nat, RingHolds(queue, ring, pos, cursor),
           NEW fresh \in BOOLEAN, fresh <=> pos = 0 /\ ~running, ~(fresh /\ (cursor # 0 \/ queue # <<>>)),
           n = Least(IF fresh THEN Size - 1 ELSE play_avail, l)
    PROVE  n <= l /\ n + Ahead(cursor, pos) <= Size - 1
<1>1. pos \in 0..Size - 1 /\ cursor \in 0..Size - 1 /\ Size \in Nat /\ Size > 0
  BY AudioAssumption DEF AudioTypes
<1>2. PICK A \in 0..Size - 1 : A = Ahead(cursor, pos) /\ A = (IF cursor <= pos THEN pos - cursor ELSE pos - cursor + Size)
  BY <1>1, AheadIs
<1>3. PICK B \in 0..Size - 1 : B = Ahead(pos, cursor) /\ B = (IF pos <= cursor THEN cursor - pos ELSE cursor - pos + Size)
  BY <1>1, AheadIs
<1>4. CASE fresh
  <2>1. n = Least(Size - 1, l) /\ A = 0
    BY <1>1, <1>2, <1>4
  <2>2. n <= Size - 1 /\ n <= l
    BY <1>1, <2>1, LeastIs
  <2> QED BY <1>1, <1>2, <2>1, <2>2
<1>5. CASE ~fresh
  <2>1. play_avail = IF B = 0 THEN 0 ELSE B - 1
    BY <1>3 DEF play_avail
  <2>2. n = Least(play_avail, l) /\ play_avail \in Int
    BY <1>1, <1>3, <1>5, <2>1
  <2>3. n <= play_avail /\ n <= l
    BY <2>2, LeastIs
  <2>4. n <= B - 1
    BY <1>1, <2>1, <2>3
  <2>5. A + B = Size
    BY <1>1, <1>2, <1>3, <2>4
  <2> QED BY <1>1, <1>2, <2>3, <2>4, <2>5
<1> QED BY <1>4, <1>5

LEMMA DsoundWriteStep == AudioInv /\ dsound_write => AudioInv'
<1> SUFFICES ASSUME AudioInv, dsound_write PROVE AudioInv'
  OBVIOUS
<1> DEFINE fresh == pos = 0 /\ ~running
           n == Least(IF fresh THEN Size - 1 ELSE play_avail, Len(buffer))
<1>1. /\ dev = "dsound_play" /\ n > 0 /\ UNCHANGED <<dev, cursor, made, out, lost>>
      /\ slipped' = (slipped \/ (fresh /\ (cursor # 0 \/ queue # <<>>)))
      /\ ring' = [i \in DOMAIN ring |-> IF Ahead(pos, i) < n THEN buffer[Ahead(pos, i) + 1] ELSE ring[i]]
      /\ pos' = (pos + n) % Size
      /\ queue' = queue \o SubSeq(buffer, 1, n) /\ buffer' = SubSeq(buffer, n + 1, Len(buffer))
  BY DEF dsound_write, consume_samples
<1>2. /\ AudioTypes /\ queue \in Seq(Nat) /\ buffer \in Seq(Nat) /\ out \in Seq(Nat) /\ made \in Nat
      /\ ring \in [0..Size - 1 -> Nat] /\ pos \in 0..Size - 1 /\ cursor \in 0..Size - 1 /\ slipped \in BOOLEAN
      /\ Size \in Nat /\ Size > 0
  BY AudioAssumption DEF AudioInv, AudioTypes
<1>3. n \in Nat \ {0} /\ n <= Len(buffer) /\ n \in 0..Len(buffer) /\ n <= Size - 1
  <2>1. PICK l \in Nat : l = Len(buffer)
    BY <1>2
  <2>2. PICK B \in 0..Size - 1 : B = Ahead(pos, cursor)
    BY <1>2, AheadIs
  <2>3. play_avail = IF B = 0 THEN 0 ELSE B - 1
    BY <2>2 DEF play_avail
  <2>4. PICK v \in Int : v = (IF fresh THEN Size - 1 ELSE play_avail) /\ v <= Size - 1
    <3>1. play_avail \in Int /\ play_avail <= Size - 1 /\ Size - 1 \in Int
      BY <1>2, <2>3
    <3> QED BY <1>2, <3>1
  <2>5. n = Least(v, l)
    BY <2>1, <2>4
  <2> HIDE DEF n
  <2>6. n <= v /\ n <= l /\ n \in Int
    BY <2>5, LeastIs
  <2>7. n \in Nat \ {0} /\ n <= l /\ n \in 0..l /\ n <= Size - 1
    <3>1. n > 0
      BY <1>1
    <3>2. PICK k \in Int : k = n /\ k > 0 /\ k <= v /\ k <= l
      BY <2>6, <3>1
    <3>3. Size \in Nat /\ v <= Size - 1
      BY <1>2, <2>4
    <3>4. k \in Nat \ {0} /\ k <= l /\ k \in 0..l /\ k <= Size - 1
      BY <3>2, <3>3
    <3> QED BY <3>2, <3>4
  <2> QED BY <2>1, <2>7
<1>w. Written(ring', ring, buffer, pos, n)
  BY <1>1, <1>2 DEF Written
<1>r. ring' \in [0..Size - 1 -> Nat]
  <2>1. DOMAIN ring = 0..Size - 1
    BY <1>2
  <2> HIDE DEF n
  <2>2. ASSUME NEW i \in 0..Size - 1, Ahead(pos, i) < n PROVE buffer[Ahead(pos, i) + 1] \in Nat
    <3>1. PICK y \in 0..Size - 1 : y = Ahead(pos, i)
      BY <1>2, AheadIs
    <3>2. PICK l \in Nat : l = Len(buffer)
      BY <1>2
    <3>3. y + 1 \in 1..l
      <4>1. PICK k \in Nat : k = n /\ k <= l /\ y < k
        BY <1>3, <2>2, <3>1, <3>2
      <4>2. y \in Nat
        BY <1>2
      <4> QED BY <4>1, <4>2
    <3> QED BY <1>2, <3>1, <3>2, <3>3, SMTT(30)
  <2>3. \A i \in 0..Size - 1 : ring[i] \in Nat
    BY <1>2
  <2> QED BY <1>1, <2>1, <2>2, <2>3
<1>4. /\ SubSeq(buffer, 1, n) \in Seq(Nat) /\ Len(SubSeq(buffer, 1, n)) = n
      /\ SubSeq(buffer, n + 1, Len(buffer)) \in Seq(Nat)
      /\ \A i \in 1..n : SubSeq(buffer, 1, n)[i] = buffer[i]
  <2> HIDE DEF n
  <2> QED BY <1>2, <1>3, FramesCut, SMTT(30)
<1> DEFINE h == SubSeq(buffer, 1, n)
<1>5. /\ queue' \in Seq(Nat) /\ Len(queue') = Len(queue) + n
      /\ Within(queue', queue, 0, Len(queue)) /\ Within(queue', buffer, Len(queue), n)
  <2> HIDE DEF n
  <2>1. queue' = queue \o h /\ h \in Seq(Nat) /\ Len(h) = n /\ \A i \in 1..n : h[i] = buffer[i]
    BY <1>1, <1>4
  <2> HIDE DEF h
  <2>a. h \in Seq(Nat) /\ queue \in Seq(Nat)
    BY <1>2, <2>1
  <2>2. /\ queue \o h \in Seq(Nat) /\ Len(queue \o h) = Len(queue) + Len(h)
        /\ \A i \in 1..Len(queue) : (queue \o h)[i] = queue[i]
        /\ \A i \in 1..Len(h) : (queue \o h)[Len(queue) + i] = h[i]
    BY <2>a, FramesJoined
  <2>3. \A i \in 1..Len(queue) : 0 + i = i
    BY <1>2
  <2> QED BY <2>1, <2>2, <2>3 DEF Within
<1> HIDE DEF n
<1>6. pos' \in 0..Size - 1
  <2>1. n \in 0..Size - 1
    BY <1>2, <1>3
  <2> QED BY <1>1, <1>2, <2>1, Onwards
<1>7. AudioTypes'
  <2>1. slipped' \in BOOLEAN
    BY <1>1, <1>2
  <2>2. buffer' \in Seq(Nat)
    BY <1>1, <1>4
  <2>3. dev' \in Devices /\ cursor' \in 0..Size - 1 /\ made' \in Nat /\ out' \in Seq(Nat)
    BY <1>1, <1>2 DEF AudioTypes
  <2> QED BY <1>5, <1>6, <1>r, <2>1, <2>2, <2>3 DEF AudioTypes
<1>8. ASSUME ~slipped'
      PROVE  /\ ~slipped /\ DeviceFlow(queue', buffer', out', lost', made')
             /\ RingHolds(queue', ring', pos', cursor')
  <2>1. ~slipped /\ ~(fresh /\ (cursor # 0 \/ queue # <<>>))
    BY <1>1, <1>8
  <2>2. DeviceFlow(queue, buffer, out, lost, made) /\ RingHolds(queue, ring, pos, cursor)
    BY <2>1 DEF AudioInv
  <2>3. n + Ahead(cursor, pos) <= Size - 1
    <3>1. PICK l \in Nat : l = Len(buffer)
      BY <1>2
    <3>2. n = Least(IF fresh THEN Size - 1 ELSE play_avail, l)
      BY <3>1 DEF n
    <3>3. fresh \in BOOLEAN /\ (fresh <=> pos = 0 /\ ~running)
      OBVIOUS
    <3> HIDE DEF fresh
    <3> QED BY <1>1, <1>2, <1>3, <2>1, <2>2, <3>2, <3>3, WriteFits
  <2>4. DeviceFlow(queue', buffer', out', lost', made')
    <3>1. Flow(out, queue, buffer, lost, made)
      BY <1>1, <2>2 DEF DeviceFlow
    <3>2. Flow(out, queue \o SubSeq(buffer, 1, n), SubSeq(buffer, n + 1, Len(buffer)), lost, made)
      BY <1>2, <1>3, <3>1, FlowOn
    <3> QED BY <1>1, <3>2 DEF DeviceFlow
  <2>5. RingPlays(queue', Len(queue'), ring', pos', cursor)
    <3>1. PICK A \in 0..Size - 1 : A = Ahead(cursor, pos) /\ n + A <= Size - 1
      BY <1>2, <2>3, AheadIs
    <3>2. PICK L \in Nat : L = Len(queue)
      BY <1>2
    <3>3. RingPlays(queue, L, ring, pos, cursor)
      BY <1>1, <2>2, <3>2 DEF RingHolds
    <3>4. Within(queue', queue, 0, L) /\ Within(queue', buffer, L, n)
      BY <1>5, <3>2
    <3>5. RingPlays(queue', L + n, ring', (pos + n) % Size, cursor)
      BY <1>2, <1>3, <1>w, <3>1, <3>3, <3>4, RingWritten
    <3> QED BY <1>1, <1>5, <3>2, <3>5
  <2> QED BY <1>1, <2>1, <2>4, <2>5 DEF RingHolds
<1> QED BY <1>1, <1>7, <1>8, ByStep

LEMMA DsoundPlaysStep == AudioInv /\ DsoundPlays => AudioInv'
<1> SUFFICES ASSUME AudioInv, DsoundPlays PROVE AudioInv'
  OBVIOUS
<1>1. /\ dev = "dsound_play" /\ out' = Append(out, ring[cursor]) /\ cursor' = (cursor + 1) % Size
      /\ slipped' = (slipped \/ (queue = <<>> /\ \E i \in DOMAIN ring : ring[i] # 0))
      /\ queue' = (IF queue # <<>> /\ Head(queue) = ring[cursor] THEN Tail(queue) ELSE queue)
      /\ UNCHANGED <<dev, ring, pos, buffer, made, lost>>
  BY DEF DsoundPlays
<1>2. /\ AudioTypes /\ queue \in Seq(Nat) /\ buffer \in Seq(Nat) /\ out \in Seq(Nat) /\ made \in Nat
      /\ ring \in [0..Size - 1 -> Nat] /\ pos \in 0..Size - 1 /\ cursor \in 0..Size - 1 /\ slipped \in BOOLEAN
      /\ Size \in Nat /\ Size > 0 /\ ring[cursor] \in Nat
  BY AudioAssumption DEF AudioInv, AudioTypes
<1>3. AudioTypes'
  <2>1. slipped' \in BOOLEAN
    BY <1>1, <1>2
  <2>2. out' \in Seq(Nat)
    BY <1>1, <1>2
  <2>3. queue' \in Seq(Nat)
    <3>1. queue # <<>> => Tail(queue) \in Seq(Nat)
      BY <1>2
    <3> QED BY <1>1, <1>2, <3>1
  <2>4. cursor' \in 0..Size - 1
    <3>1. PICK x \in 0..Size + Size - 1 : x = cursor + 1
      BY <1>2
    <3>2. x % Size = (IF x < Size THEN x ELSE x - Size)
      BY Around
    <3>3. Size \in Nat
      BY <1>2
    <3>4. x % Size \in 0..Size - 1
      BY <3>2, <3>3
    <3> QED BY <1>1, <3>1, <3>4
  <2>5. dev' \in Devices /\ ring' \in [0..Size - 1 -> Nat] /\ pos' \in 0..Size - 1 /\ made' \in Nat /\ buffer' \in Seq(Nat)
    BY <1>1, <1>2 DEF AudioTypes
  <2> QED BY <2>1, <2>2, <2>3, <2>4, <2>5 DEF AudioTypes
<1>4. ASSUME ~slipped'
      PROVE  /\ ~slipped /\ Flow(out', queue', buffer, lost, made)
             /\ RingPlays(queue', Len(queue'), ring, pos, cursor')
  <2>1. ~slipped /\ (queue = <<>> => \A i \in 0..Size - 1 : ring[i] = 0)
    BY <1>1, <1>2, <1>4
  <2>2. Flow(out, queue, buffer, lost, made) /\ RingPlays(queue, Len(queue), ring, pos, cursor)
    BY <1>1, <2>1 DEF AudioInv, DeviceFlow, RingHolds
  <2>3. Flow(Append(out, 0), queue, buffer, lost, made)
    BY <1>2, <2>2, FlowSilence
  <2>4. CASE queue = <<>>
    <3>1. ring[cursor] = 0 /\ queue' = queue
      BY <1>1, <1>2, <2>1, <2>4
    <3>2. PICK c \in 0..Size - 1 : c = cursor'
      BY <1>3 DEF AudioTypes
    <3>3. Len(queue) = 0
      BY <2>4
    <3>4. Ahead(c, pos) \in Nat /\ 0 <= Ahead(c, pos) /\ Ahead(c, pos) - 0 = Ahead(c, pos)
      <4>1. Ahead(c, pos) \in 0..Size - 1
        BY <1>2, AheadIs
      <4>2. Size \in Nat
        BY <1>2
      <4> QED BY <4>1, <4>2
    <3>5. RingPlays(queue, 0, ring, pos, c)
      BY <2>1, <2>4, <3>4 DEF RingPlays
    <3> QED BY <1>1, <2>1, <2>3, <3>1, <3>2, <3>3, <3>5
  <2>5. ASSUME queue # <<>>, Len(queue) < Ahead(cursor, pos)
        PROVE  Flow(out', queue', buffer, lost, made) /\ RingPlays(queue', Len(queue'), ring, pos, cursor')
    <3>1. PICK L \in Nat : L = Len(queue)
      BY <1>2
    <3>2. RingPlays(queue, L, ring, pos, cursor) /\ L < Ahead(cursor, pos)
      BY <2>2, <2>5, <3>1
    <3>3. ring[cursor] = 0 /\ RingPlays(queue, L, ring, pos, (cursor + 1) % Size)
      BY <1>2, <3>2, RingQuiet
    <3>4. Head(queue) # 0
      <4>1. Head(queue) \in Range(queue)
        <5>1. 1 \in 1..Len(queue) /\ queue[1] = Head(queue)
          BY <1>2, <2>5
        <5> QED BY <1>2, <5>1, RangeOf
      <4>2. 0 \notin Range(queue)
        BY <2>2 DEF Flow
      <4> QED BY <4>1, <4>2
    <3>5. queue' = queue
      BY <1>1, <3>3, <3>4
    <3> QED BY <1>1, <2>3, <3>1, <3>3, <3>5
  <2>6. ASSUME queue # <<>>, Len(queue) = Ahead(cursor, pos)
        PROVE  Flow(out', queue', buffer, lost, made) /\ RingPlays(queue', Len(queue'), ring, pos, cursor')
    <3>1. PICK L \in Nat \ {0} : L = Len(queue)
      BY <1>2, <2>6
    <3>2. RingPlays(queue, L, ring, pos, cursor) /\ L = Ahead(cursor, pos)
      BY <2>2, <2>6, <3>1
    <3>t. PICK t \in Seq(Nat) : t = Tail(queue) /\ Len(t) = L - 1 /\ \A i \in 1..L - 1 : t[i] = queue[i + 1]
      <4>1. /\ Tail(queue) \in Seq(Nat) /\ Len(Tail(queue)) = Len(queue) - 1
            /\ \A i \in 1..Len(queue) - 1 : Tail(queue)[i] = queue[i + 1]
        BY <1>2, <2>6
      <4> QED BY <3>1, <4>1
    <3>3. ring[cursor] = queue[1] /\ RingPlays(t, L - 1, ring, pos, (cursor + 1) % Size)
      <4>1. \A i \in 1..L - 1 : t[i] = queue[i + 1]
        BY <3>t
      <4>2. pos \in 0..Size - 1 /\ cursor \in 0..Size - 1
        BY <1>2
      <4> QED BY <3>2, <4>1, <4>2, RingHeard, SMTT(30)
    <3>4. queue[1] = Head(queue)
      BY <1>2, <2>6
    <3>5. queue' = t /\ out' = Append(out, Head(queue))
      BY <1>1, <2>6, <3>3, <3>4, <3>t
    <3>6. Flow(Append(out, Head(queue)), Tail(queue), buffer, lost, made)
      BY <1>2, <2>2, <2>6, FlowHead
    <3> QED BY <1>1, <3>t, <3>3, <3>5, <3>6
  <2>7. Len(queue) < Ahead(cursor, pos) \/ Len(queue) = Ahead(cursor, pos)
    <3>1. Len(queue) <= Ahead(cursor, pos) /\ Len(queue) \in Nat /\ Ahead(cursor, pos) \in 0..Size - 1
      BY <1>2, <2>2, AheadIs DEF RingPlays
    <3> QED BY <1>2, <3>1
  <2> QED BY <2>1, <2>4, <2>5, <2>6, <2>7
<1> QED BY <1>1, <1>3, <1>4, ByStep DEF DeviceFlow, RingHolds

LEMMA DsoundCaptureSteps == AudioInv /\ (dsound_read \/ DsoundCaptures) => AudioInv'
<1> SUFFICES ASSUME AudioInv PROVE dsound_read \/ DsoundCaptures => AudioInv'
  OBVIOUS
<1>1. /\ AudioTypes /\ queue \in Seq(Nat) /\ buffer \in Seq(Nat) /\ out \in Seq(Nat) /\ made \in Nat
      /\ ring \in [0..Size - 1 -> Nat] /\ pos \in 0..Size - 1 /\ cursor \in 0..Size - 1 /\ slipped \in BOOLEAN
      /\ Size \in Nat /\ Size > 0 /\ BufferSize \in Nat
  BY AudioAssumption DEF AudioInv, AudioTypes
<1>p. pos \in 0..Size - 1 /\ cursor \in 0..Size - 1 /\ Size \in Nat /\ Size > 0
  BY <1>1
<1>2. ASSUME dsound_read PROVE AudioInv'
  <2> DEFINE n == Least(capture_avail, free_samples(buffer))
             h == [k \in 1..n |-> ring[(pos + k - 1) % Size]]
  <2>1. /\ dev = "dsound_capture" /\ n > 0 /\ buffer' = buffer \o h /\ pos' = (pos + n) % Size
        /\ queue' = SubSeq(queue, n + 1, Len(queue))
        /\ UNCHANGED <<dev, ring, cursor, slipped, made, out, lost>>
    BY <1>2 DEF dsound_read
  <2>2. PICK B \in 0..Size - 1 : B = Ahead(pos, cursor)
    BY <1>p, AheadIs
  <2>3. n <= B /\ n \in Int
    <3>1. PICK f \in Int : f = free_samples(buffer)
      <4>1. PICK l \in Nat : l = Len(buffer)
        BY <1>1
      <4>2. BufferSize - l \in Int /\ free_samples(buffer) = BufferSize - l
        BY <1>1, <4>1 DEF free_samples
      <4> QED BY <4>2
    <3>2. n = Least(B, f)
      BY <2>2, <3>1 DEF capture_avail
    <3> HIDE DEF n
    <3>3. B \in Int
      OBVIOUS
    <3> QED BY <3>2, <3>3, LeastIs
  <2>4. n \in 1..B /\ n \in 0..Size - 1
    <3>1. PICK k \in Int : k = n /\ k > 0 /\ k <= B
      BY <2>1, <2>3
    <3>2. k \in 1..B /\ k \in 0..Size - 1
      BY <1>p, <3>1
    <3> QED BY <3>1, <3>2
  <2>5. h \in Seq(Nat) /\ Len(h) = n /\ \A k \in 1..n : h[k] = ring[(pos + k - 1) % Size]
    <3> HIDE DEF n
    <3>1. ASSUME NEW k \in 1..n PROVE ring[(pos + k - 1) % Size] \in Nat
      <4>1. PICK y \in 0..Size - 1 : pos + y = pos + k - 1
        <5>1. PICK m \in 1..B : m = n
          BY <2>4
        <5>2. k - 1 \in 0..Size - 1 /\ pos + (k - 1) = pos + k - 1
          BY <1>p, <5>1
        <5> QED BY <5>2
      <4>2. (pos + y) % Size \in 0..Size - 1
        BY <1>p, Onwards
      <4> QED BY <1>1, <4>1, <4>2
    <3>2. n \in Nat
      BY <1>p, <2>4
    <3> QED BY <3>1, <3>2
  <2> HIDE DEF n, h
  <2>6. pos' \in 0..Size - 1
    BY <1>p, <2>1, <2>4, Onwards
  <2>7. buffer' \in Seq(Nat)
    <3>1. h \in Seq(Nat) /\ buffer \in Seq(Nat)
      BY <1>1, <2>5
    <3> QED BY <2>1, <3>1, FramesJoined
  <2>8. queue' \in Seq(Nat)
    <3>0. n \in Nat
      BY <1>p, <2>4
    <3>1. PICK k \in Nat, l \in Nat : k = n /\ l = Len(queue)
      <4>1. Len(queue) \in Nat
        BY <1>1
      <4> QED BY <3>0, <4>1
    <3>2. SubSeq(queue, k + 1, l) \in Seq(Nat)
      <4>1. CASE k <= l
        BY <1>1, <3>1, <4>1, FramesCut
      <4>2. CASE k > l
        BY <1>1, <3>1, <4>2
      <4> QED BY <4>1, <4>2
    <3> QED BY <2>1, <3>1, <3>2
  <2>9. AudioTypes'
    <3>1. /\ dev' \in Devices /\ ring' \in [0..Size - 1 -> Nat] /\ cursor' \in 0..Size - 1 /\ slipped' \in BOOLEAN
          /\ made' \in Nat /\ out' \in Seq(Nat)
      BY <1>1, <2>1 DEF AudioTypes
    <3> QED BY <2>6, <2>7, <2>8, <3>1 DEF AudioTypes
  <2>10. ASSUME ~slipped
         PROVE  Flow(out, buffer', queue', lost, made) /\ RingCaptures(queue', Len(queue'), ring, pos', cursor)
    <3>1. Flow(out, buffer, queue, lost, made) /\ RingCaptures(queue, Len(queue), ring, pos, cursor)
      BY <2>1, <2>10 DEF AudioInv, DeviceFlow, RingHolds
    <3>2. B = Len(queue)
      BY <2>2, <3>1 DEF RingCaptures
    <3>3. n \in 0..Len(queue)
      BY <2>4, <3>2
    <3>4. /\ SubSeq(queue, 1, n) \in Seq(Nat) /\ Len(SubSeq(queue, 1, n)) = n
          /\ SubSeq(queue, n + 1, Len(queue)) \in Seq(Nat) /\ Len(SubSeq(queue, n + 1, Len(queue))) = Len(queue) - n
          /\ \A i \in 1..n : SubSeq(queue, 1, n)[i] = queue[i]
          /\ \A i \in 1..Len(queue) - n : SubSeq(queue, n + 1, Len(queue))[i] = queue[n + i]
      <4>1. queue \in Seq(Nat)
        BY <1>1
      <4> QED BY <3>3, <4>1, FramesCut
    <3>5. B \in Nat /\ RingCaptures(queue, B, ring, pos, cursor)
      BY <1>p, <3>1, <3>2
    <3>6. Len(queue') = B - n /\ \A i \in 1..B - n : queue'[i] = queue[n + i]
      BY <2>1, <3>2, <3>4
    <3>7. /\ \A k \in 1..n : ring[(pos + k - 1) % Size] = queue[k]
          /\ RingCaptures(queue', B - n, ring, (pos + n) % Size, cursor)
      <4>1. \A i \in 1..B - n : queue'[i] = queue[n + i]
        BY <3>6
      <4> QED BY <1>p, <2>4, <3>5, <4>1, RingRead
    <3>8. h = SubSeq(queue, 1, n)
      <4>1. PICK t \in Seq(Nat) : t = SubSeq(queue, 1, n) /\ Len(t) = n /\ \A i \in 1..n : t[i] = queue[i]
        BY <3>4
      <4>2. \A k \in 1..n : h[k] = t[k]
        BY <2>5, <3>7, <4>1
      <4>3. h \in Seq(Nat) /\ Len(h) = n
        BY <2>5
      <4>4. h = t
        BY <4>1, <4>2, <4>3
      <4> QED BY <4>1, <4>4
    <3>9. Flow(out, buffer \o SubSeq(queue, 1, n), SubSeq(queue, n + 1, Len(queue)), lost, made)
      BY <1>1, <3>1, <3>3, FlowOn
    <3> QED BY <2>1, <3>6, <3>7, <3>8, <3>9
  <2> QED BY <2>1, <2>9, <2>10, ByStep DEF DeviceFlow, RingHolds
<1>3. ASSUME DsoundCaptures PROVE AudioInv'
  <2>1. /\ dev = "dsound_capture" /\ made' = made + 1 /\ ring' = [ring EXCEPT ![cursor] = made + 1]
        /\ cursor' = (cursor + 1) % Size /\ queue' = Append(queue, made + 1)
        /\ slipped' = (slipped \/ cursor' = pos) /\ UNCHANGED <<dev, pos, buffer, out, lost>>
    BY <1>3 DEF DsoundCaptures
  <2>2. made + 1 \in Nat
    BY <1>1
  <2>3. ring' \in [0..Size - 1 -> Nat] /\ \A i \in 0..Size - 1 : ring'[i] = IF i = cursor THEN made + 1 ELSE ring[i]
    BY <1>1, <2>1, <2>2
  <2>4. cursor' \in 0..Size - 1
    <3>1. PICK x \in 0..Size + Size - 1 : x = cursor + 1
      BY <1>p
    <3>2. x % Size = (IF x < Size THEN x ELSE x - Size)
      BY Around
    <3>3. x % Size \in 0..Size - 1
      BY <1>p, <3>2
    <3> QED BY <2>1, <3>1, <3>3
  <2>5. /\ queue' \in Seq(Nat) /\ Len(queue') = Len(queue) + 1 /\ queue'[Len(queue) + 1] = made + 1
        /\ \A i \in 1..Len(queue) : queue'[i] = queue[i]
    BY <1>1, <2>1, <2>2
  <2>6. AudioTypes'
    <3>1. /\ dev' \in Devices /\ pos' \in 0..Size - 1 /\ slipped' \in BOOLEAN
          /\ made' \in Nat /\ out' \in Seq(Nat) /\ buffer' \in Seq(Nat)
      BY <1>1, <2>1, <2>2 DEF AudioTypes
    <3> QED BY <2>3, <2>4, <2>5, <3>1 DEF AudioTypes
  <2>7. ASSUME ~slipped'
        PROVE  /\ ~slipped /\ Flow(out, buffer, queue', lost, made')
               /\ RingCaptures(queue', Len(queue'), ring', pos, cursor')
    <3>1. ~slipped /\ (cursor + 1) % Size # pos
      BY <2>1, <2>7
    <3>2. Flow(out, buffer, queue, lost, made) /\ RingCaptures(queue, Len(queue), ring, pos, cursor)
      BY <2>1, <3>1 DEF AudioInv, DeviceFlow, RingHolds
    <3>3. PICK L \in Nat : L = Len(queue)
      BY <1>1
    <3>4. RingCaptures(queue, L, ring, pos, cursor)
      BY <3>2, <3>3
    <3>5. /\ \A i \in 1..L : queue'[i] = queue[i]
          /\ \A i \in 0..Size - 1 : ring'[i] = IF i = cursor THEN queue'[L + 1] ELSE ring[i]
      BY <2>3, <2>5, <3>3
    <3>6. RingCaptures(queue', L + 1, ring', pos, (cursor + 1) % Size)
      BY <1>p, <3>1, <3>4, <3>5, RingCaptured
    <3>7. Flow(out, buffer, Append(queue, made + 1), lost, made + 1)
      BY <1>1, <3>2, FlowIn
    <3> QED BY <2>1, <2>5, <3>1, <3>3, <3>6, <3>7
  <2> QED BY <2>1, <2>6, <2>7, ByStep DEF DeviceFlow, RingHolds
<1> QED BY <1>2, <1>3

\* The three parts of the flow, one behind the other, are in turn.
LEMMA FlowInTurn ==
    ASSUME NEW a \in Seq(Nat), NEW b \in Seq(Nat), NEW c \in Seq(Nat), NEW l, NEW m, Flow(a, b, c, l, m)
    PROVE  InTurn(a \o (b \o c))
<1>1. PICK bc \in Seq(Nat) : bc = b \o c /\ InTurn(bc) /\ Range(bc) = Range(b) \cup Range(c)
  <2>1. PICK n \in Nat : n = Len(c) /\ n \in 0..n
    OBVIOUS
  <2>2. SubSeq(c, 1, n) = c
    BY <2>1
  <2>3. InTurn(b) /\ InTurn(c) /\ Earlier(b, c) /\ 0 \notin Range(c)
    BY DEF Flow
  <2> DEFINE p == b \o SubSeq(c, 1, n)  r == SubSeq(c, n + 1, Len(c))
  <2>4. p \in Seq(Nat) /\ r \in Seq(Nat) /\ InTurn(p) /\ Range(p) \cup Range(r) = Range(b) \cup Range(c)
    BY <2>1, <2>3, FramesMove
  <2>5. Range(r) = {}
    <3>1. Len(r) = 0
      BY <2>1
    <3> HIDE DEF r
    <3>2. \A x : x \in Range(r) <=> \E i \in 1..Len(r) : r[i] = x
      BY <2>4, RangeOf
    <3> QED BY <3>1, <3>2
  <2> HIDE DEF r
  <2> QED BY <2>2, <2>4, <2>5
<1>2. Earlier(a, bc) /\ 0 \notin Range(bc) /\ InTurn(a)
  <2>1. /\ \A x \in Range(a), y \in Range(b) : x < y
        /\ \A x \in Range(a), y \in Range(c) : x < y
    BY EarlierRange DEF Flow
  <2>2. \A x \in Range(a), y \in Range(bc) : x < y
    BY <1>1, <2>1
  <2>3. Earlier(a, bc)
    BY <2>2, EarlierRange
  <2>4. 0 \notin Range(b) \cup Range(c) /\ InTurn(a)
    BY DEF Flow
  <2> QED BY <1>1, <2>3, <2>4
<1>3. PICK n \in Nat : n = Len(bc) /\ n \in 0..n
  OBVIOUS
<1>4. SubSeq(bc, 1, n) = bc
  BY <1>3
<1>5. InTurn(a \o SubSeq(bc, 1, n))
  BY <1>1, <1>2, <1>3, FramesMove
<1> QED BY <1>1, <1>4, <1>5

\* Ahead of the cursor are silence and then the queue.
QueueAhead(q, r, p, c) ==
    LET ahead == [k \in 1..Ahead(c, p) |-> r[(c + k - 1) % Size]]
    IN  /\ Len(q) <= Len(ahead)
        /\ ahead = [k \in 1..Len(ahead) - Len(q) |-> 0] \o q

LEMMA AheadIsQueue ==
    ASSUME NEW q \in Seq(Nat), NEW r \in [0..Size - 1 -> Nat], NEW p \in 0..Size - 1, NEW c \in 0..Size - 1,
           RingPlays(q, Len(q), r, p, c)
    PROVE  QueueAhead(q, r, p, c)
<1>1. Size \in Nat /\ Size > 0
  BY AudioAssumption
<1>2. PICK A \in 0..Size - 1 : A = Ahead(c, p)
  BY AheadIs
<1>3. PICK L \in Nat : L = Len(q)
  OBVIOUS
<1>4. L <= A /\ A \in Nat
  BY <1>1, <1>2, <1>3 DEF RingPlays
<1> DEFINE ahead == [k \in 1..A |-> r[(c + k - 1) % Size]]
           quiet == [k \in 1..A - L |-> 0]
<1>5. ASSUME NEW k \in 1..A
      PROVE  r[(c + k - 1) % Size] \in Nat /\ r[(c + k - 1) % Size] = IF k <= A - L THEN 0 ELSE q[k - (A - L)]
  <2>1. PICK y \in 0..Size - 1 : c + y = c + k - 1 /\ y + 1 = k
    <3>1. k - 1 \in 0..Size - 1 /\ c + (k - 1) = c + k - 1 /\ (k - 1) + 1 = k
      BY <1>1
    <3> QED BY <3>1
  <2>2. PICK i \in 0..Size - 1 : i = (c + y) % Size /\ Ahead(c, i) = y
    BY Onwards
  <2>3. y < A
    BY <1>4, <2>1
  <2>4. r[i] = IF y < A - L THEN 0 ELSE q[y - (A - L) + 1]
    BY <1>2, <1>3, <2>2, <2>3 DEF RingPlays
  <2>5. (y < A - L <=> k <= A - L) /\ y - (A - L) + 1 = k - (A - L)
    BY <1>1, <1>4, <2>1
  <2>6. r[i] \in Nat
    OBVIOUS
  <2> QED BY <2>1, <2>2, <2>4, <2>5, <2>6
<1>6. ahead \in Seq(Nat) /\ Len(ahead) = A /\ \A k \in 1..A : ahead[k] = IF k <= A - L THEN 0 ELSE q[k - (A - L)]
  <2>1. \A k \in 1..A : r[(c + k - 1) % Size] \in Nat
    BY <1>5
  <2>2. ahead \in Seq(Nat) /\ Len(ahead) = A
    BY <1>4, <2>1
  <2>3. \A k \in 1..A : ahead[k] = r[(c + k - 1) % Size]
    OBVIOUS
  <2> HIDE DEF ahead
  <2> QED BY <1>5, <2>2, <2>3
<1>7. quiet \in Seq(Nat) /\ Len(quiet) = A - L /\ \A k \in 1..A - L : quiet[k] = 0
  BY <1>4
<1> HIDE DEF ahead, quiet
<1>8. PICK s \in Seq(Nat) : /\ s = quiet \o q /\ Len(s) = Len(quiet) + Len(q)
                            /\ \A i \in 1..Len(quiet) : s[i] = quiet[i]
                            /\ \A i \in 1..Len(q) : s[Len(quiet) + i] = q[i]
  <2>1. quiet \in Seq(Nat)
    BY <1>7
  <2>2. /\ quiet \o q \in Seq(Nat) /\ Len(quiet \o q) = Len(quiet) + Len(q)
        /\ \A i \in 1..Len(quiet) : (quiet \o q)[i] = quiet[i]
        /\ \A i \in 1..Len(q) : (quiet \o q)[Len(quiet) + i] = q[i]
    BY <2>1, FramesJoined
  <2> QED BY <2>2
<1>9. Len(s) = A
  BY <1>3, <1>4, <1>7, <1>8
<1>10. ASSUME NEW k \in 1..A PROVE s[k] = ahead[k]
  <2>1. CASE k <= A - L
    <3>1. k \in 1..A - L
      BY <1>4, <2>1
    <3> QED BY <1>6, <1>7, <1>8, <2>1, <3>1
  <2>2. CASE ~(k <= A - L)
    <3>1. PICK i \in 1..L : i = k - (A - L) /\ (A - L) + i = k
      <4>1. k - (A - L) \in 1..L /\ (A - L) + (k - (A - L)) = k
        BY <1>4, <2>2
      <4> QED BY <4>1
    <3>2. s[(A - L) + i] = q[i]
      BY <1>3, <1>7, <1>8, <3>1
    <3>3. ahead[k] = q[i]
      BY <1>6, <2>2, <3>1
    <3> QED BY <3>1, <3>2, <3>3
  <2> QED BY <2>1, <2>2
<1>11. s = ahead
  BY <1>6, <1>9, <1>10
<1> QED BY <1>2, <1>3, <1>4, <1>6, <1>8, <1>11 DEF ahead, quiet, QueueAhead

\* For devices and buffers of any size and any interleaving of the owner, the worker and the device: no
\* frame is lost, repeated or out of order between the caller's audio_buffer and the device, but those a
\* forced stop or an overrun threw away, and while the ring of DirectSound has not run dry or over what
\* lies ahead of its cursor is what is still to be played (audio/audio_lib/alsa/alsa.cpp,
\* dsound/dsound.cpp).
THEOREM AudioIsKept == AudioSpec => []AudioKept
<1>1. AudioInv /\ [AudioNext]_audioVars => AudioInv'
  BY BufferStep, ThrowAway, AlsaTransfers, AlsaRuns, StillSteps, DrainStep, DsoundWriteStep, DsoundPlaysStep,
     DsoundCaptureSteps DEF AudioNext
<1>2. AudioInv => AudioKept
  <2> SUFFICES ASSUME AudioInv PROVE AudioKept
    OBVIOUS
  <2>1. /\ queue \in Seq(Nat) /\ buffer \in Seq(Nat) /\ out \in Seq(Nat) /\ ring \in [0..Size - 1 -> Nat]
        /\ pos \in 0..Size - 1 /\ cursor \in 0..Size - 1
    BY DEF AudioInv, AudioTypes
  <2> DEFINE all == out \o (IF dev \in {"alsa_play", "dsound_play"} THEN queue \o buffer ELSE buffer \o queue)
  <2>2. ASSUME ~slipped
        PROVE  /\ InTurn(all)
               /\ Range(queue) \cup Range(buffer) \cup (Range(out) \ {0}) \cup lost = 1..made
               /\ dev = "dsound_play" => QueueAhead(queue, ring, pos, cursor)
    <3>1. DeviceFlow(queue, buffer, out, lost, made) /\ RingHolds(queue, ring, pos, cursor)
      BY <2>2 DEF AudioInv
    <3>2. InTurn(all) /\ Range(queue) \cup Range(buffer) \cup (Range(out) \ {0}) \cup lost = 1..made
      <4>1. CASE dev \in {"alsa_play", "dsound_play"}
        <5>1. Flow(out, queue, buffer, lost, made)
          BY <3>1, <4>1 DEF DeviceFlow
        <5>2. InTurn(out \o (queue \o buffer))
          BY <2>1, <5>1, FlowInTurn
        <5> QED BY <4>1, <5>1, <5>2 DEF Flow
      <4>2. CASE dev \notin {"alsa_play", "dsound_play"}
        <5>1. Flow(out, buffer, queue, lost, made)
          BY <3>1, <4>2 DEF DeviceFlow
        <5>2. InTurn(out \o (buffer \o queue))
          BY <2>1, <5>1, FlowInTurn
        <5> QED BY <4>2, <5>1, <5>2 DEF Flow
      <4> QED BY <4>1, <4>2
    <3>3. dev = "dsound_play" => QueueAhead(queue, ring, pos, cursor)
      <4>1. dev = "dsound_play" => RingPlays(queue, Len(queue), ring, pos, cursor)
        BY <3>1 DEF RingHolds
      <4> QED BY <2>1, <4>1, AheadIsQueue
    <3> QED BY <3>2, <3>3
  <2> QED BY <2>2 DEF AudioKept, InTurn, QueueAhead
<1> QED BY AudioInitInv, <1>1, <1>2, PTL DEF AudioSpec

-----------------------------------------------------------------------------
(* Audio files, conversion and buffers.                                   *)

FilesSpec == FilesInit /\ [][FilesNext]_fileVars

\* A product grows with its factor.
LEMMA ProductGrows ==
    ASSUME NEW a \in Int, NEW b \in Int, NEW c \in Int, c >= 0, a <= b PROVE a * c <= b * c
OBVIOUS

\* And strictly, if the other factor is positive; so a factor can be dropped from both sides.
LEMMA ProductGrowsMore ==
    ASSUME NEW a \in Int, NEW b \in Int, NEW c \in Int, c > 0, a < b PROVE a * c < b * c
OBVIOUS

LEMMA FactorDropped ==
    ASSUME NEW a \in Int, NEW b \in Int, NEW c \in Int, c > 0
    PROVE  (a * c <= b * c => a <= b) /\ (a * c < b * c => a < b)
BY ProductGrows, ProductGrowsMore

\* What division gives, and that nothing else divides so.
LEMMA Division ==
    ASSUME NEW n \in Int, NEW d \in Nat \ {0}
    PROVE  n \div d \in Int /\ n % d \in 0 .. d - 1 /\ n = (n \div d) * d + (n % d)
OBVIOUS

LEMMA DivisionIs ==
    ASSUME NEW n \in Int, NEW d \in Nat \ {0}, NEW q \in Int, NEW r \in 0 .. d - 1, n = q * d + r
    PROVE  n \div d = q /\ n % d = r
<1>1. PICK p \in Int : p = n \div d BY Division
<1>2. PICK s \in 0 .. d - 1 : s = n % d BY Division
<1>3. n = p * d + s BY <1>1, <1>2, Division
<1>4. p * d < (q + 1) * d /\ q * d < (p + 1) * d
  <2>1. (q + 1) * d = q * d + d /\ (p + 1) * d = p * d + d OBVIOUS
  <2>2. PICK pd \in Int : pd = p * d OBVIOUS
  <2>3. PICK qd \in Int : qd = q * d OBVIOUS
  <2> QED BY <1>3, <2>1, <2>2, <2>3
<1>5. p < q + 1 BY <1>4, FactorDropped
<1>6. q < p + 1 BY <1>4, FactorDropped
<1>7. p = q BY <1>5, <1>6
<1> QED BY <1>1, <1>2, <1>3, <1>7

LEMMA DivisionExact ==
    ASSUME NEW d \in Nat \ {0}, NEW q \in Int PROVE (q * d) \div d = q /\ (q * d) % d = 0
BY DivisionIs

LEMMA DivisionGrows ==
    ASSUME NEW d \in Nat \ {0}, NEW m \in Int, NEW n \in Int, m <= n PROVE m \div d <= n \div d
<1>1. PICK p \in Int, s \in 0 .. d - 1 : p = m \div d /\ m = p * d + s BY Division
<1>2. PICK q \in Int, r \in 0 .. d - 1 : q = n \div d /\ n = q * d + r BY Division
<1>3. p * d < (q + 1) * d
  <2>1. (q + 1) * d = q * d + d OBVIOUS
  <2>2. PICK pd \in Int : pd = p * d OBVIOUS
  <2>3. PICK qd \in Int : qd = q * d OBVIOUS
  <2> QED BY <1>1, <1>2, <2>1, <2>2, <2>3
<1>4. p < q + 1 BY <1>3, FactorDropped
<1> QED BY <1>1, <1>2, <1>4

\* Division toward zero, as a cast does it: it keeps order and stays in the range.
TowardZero(c, d) == IF c < 0 THEN -((-c) \div d) ELSE c \div d

LEMMA CutExact ==
    ASSUME NEW d \in Nat \ {0}, NEW q \in Int PROVE TowardZero(q * d, d) = q
<1>1. CASE q < 0
  <2>1. q * d < 0 * d BY <1>1, ProductGrowsMore
  <2>2. q * d < 0 /\ -(q * d) = (-q) * d BY <2>1
  <2>3. (-q) \in Int /\ ((-q) * d) \div d = -q BY DivisionExact
  <2> QED BY <2>2, <2>3 DEF TowardZero
<1>2. CASE q >= 0
  <2>1. 0 * d <= q * d BY <1>2, ProductGrows
  <2> QED BY <2>1, DivisionExact DEF TowardZero
<1> QED BY <1>1, <1>2

LEMMA CutGrows ==
    ASSUME NEW d \in Nat \ {0}, NEW m \in Int, NEW n \in Int, m <= n PROVE TowardZero(m, d) <= TowardZero(n, d) /\ TowardZero(m, d) \in Int
<1>1. \A x \in Int : x \div d \in Int BY Division
<1>2. \A x \in Int : x >= 0 => x \div d >= 0
  <2> TAKE x \in Int
  <2> HAVE x >= 0
  <2>1. 0 \div d = 0 BY DivisionIs
  <2> QED BY <2>1, DivisionGrows
<1>3. CASE m < 0 /\ n < 0
  <2>1. -n <= -m /\ -n \in Int /\ -m \in Int BY <1>3
  <2>2. (-n) \div d <= (-m) \div d BY <2>1, DivisionGrows
  <2> QED BY <1>1, <1>3, <2>1, <2>2 DEF TowardZero
<1>4. CASE m < 0 /\ n >= 0
  <2>1. (-m) \div d >= 0 /\ n \div d >= 0 BY <1>2, <1>4
  <2>2. -m \in Int OBVIOUS
  <2> QED BY <1>1, <1>4, <2>1, <2>2 DEF TowardZero
<1>5. CASE m >= 0 /\ n >= 0
  <2>1. m \div d <= n \div d BY DivisionGrows
  <2> QED BY <1>1, <1>5, <2>1 DEF TowardZero
<1> QED BY <1>3, <1>4, <1>5

-----------------------------------------------------------------------------
\* Samples.
Rationals == Int \X (Nat \ {0})

LEMMA Halves ==
    /\ HalfChar \in Nat \ {0} /\ HalfShort \in Nat \ {0} /\ HalfInt24 \in Nat \ {0}
    /\ MaxFmtSize \in Nat /\ MaxDataSize \in Nat /\ MaxChannels \in Nat /\ MaxRate \in Nat
BY FilesAssumption

LEMMA Clamped ==
    ASSUME NEW x \in Int, NEW lo \in Int, NEW hi \in Int, lo <= hi
    PROVE  Clamp(x, lo, hi) \in lo .. hi /\ (x \in lo .. hi => Clamp(x, lo, hi) = x)
BY DEF Clamp

LEMMA ClampGrows ==
    ASSUME NEW x \in Int, NEW y \in Int, NEW lo \in Int, NEW hi \in Int, lo <= hi, x <= y
    PROVE  Clamp(x, lo, hi) <= Clamp(y, lo, hi)
BY DEF Clamp

LEMMA Rounded ==
    ASSUME NEW n \in Int, NEW d \in Nat \ {0} PROVE Round(<<n, d>>) \in Int
BY Division DEF Round

LEMMA RoundExact ==
    ASSUME NEW q \in Int, NEW d \in Nat \ {0} PROVE Round(<<q * d, d>>) = q
<1>1. PICK n \in Int : n = q * d OBVIOUS
<1>2. n \div d = q BY <1>1, DivisionExact
<1>3. 2 * (n - q * d) < d BY <1>1
<1>4. Round(<<n, d>>) = q BY <1>2, <1>3 DEF Round
<1> QED BY <1>1, <1>4

LEMMA RationalParts ==
    ASSUME NEW r \in Rationals PROVE r[1] \in Int /\ r[2] \in Nat \ {0} /\ r = <<r[1], r[2]>>
BY DEF Rationals

LEMMA Quantised ==
    ASSUME NEW n \in Int, NEW d \in Nat \ {0}, NEW s \in Nat \ {0}, NEW lo \in Int, NEW hi \in Int, lo <= hi
    PROVE  quantise(<<n, d>>, s, lo, hi) \in lo .. hi
<1>1. n * s \in Int OBVIOUS
<1>2. Round(<<n * s, d>>) \in Int BY <1>1, Rounded
<1>3. <<n, d>>[1] = n /\ <<n, d>>[2] = d OBVIOUS
<1> QED BY <1>2, <1>3, Clamped DEF quantise

LEMMA QuantiseExact ==
    ASSUME NEW q \in Int, NEW n \in Int, NEW d \in Nat \ {0}, NEW s \in Nat \ {0}, NEW lo \in Int, NEW hi \in Int,
           n * s = q * d, q \in lo .. hi
    PROVE  quantise(<<n, d>>, s, lo, hi) = q
<1>1. Round(<<n * s, d>>) = q BY RoundExact
<1>2. <<n, d>>[1] = n /\ <<n, d>>[2] = d OBVIOUS
<1> QED BY <1>1, <1>2, Clamped DEF quantise

LEMMA SampleRanges ==
    /\ SamplesOf("char") = -HalfChar .. HalfChar - 1
    /\ SamplesOf("uchar") = 0 .. 2 * HalfChar - 1
    /\ SamplesOf("short") = -HalfShort .. HalfShort - 1
    /\ SamplesOf("int24") = -HalfInt24 .. HalfInt24 - 1
    /\ SamplesOf("float") = Rationals
BY DEF SamplesOf, lowest, highest, Rationals

\* What write_sample writes is a sample of the type; what read_sample reads is a rational.
LEMMA WrittenInRange ==
    ASSUME NEW r0 \in Rationals, NEW type \in Types PROVE write_sample(r0, type) \in SamplesOf(type)
<1>1. PICK n \in Int, d \in Nat \ {0} : r0 = <<n, d>> /\ r0[1] = n /\ r0[2] = d BY RationalParts
<1>2. -d \in Int /\ -d <= d OBVIOUS
<1>3. PICK m \in -d .. d : m = Clamp(n, -d, d) BY <1>2, Clamped
<1> DEFINE r == <<m, d>>
<1>4. r = <<Clamp(r0[1], -r0[2], r0[2]), r0[2]>> BY <1>1, <1>3
<1>5. m \in Int /\ m + d \in Int /\ r \in Rationals /\ r[1] = m /\ r[2] = d BY DEF Rationals
<1>6. CASE type = "char"
  <2>1. write_sample(r0, type) = quantise(r, HalfChar, -HalfChar, HalfChar - 1) BY <1>4, <1>6 DEF write_sample
  <2> QED BY <1>5, <1>6, <2>1, Halves, Quantised, SampleRanges
<1>7. CASE type = "uchar"
  <2>1. write_sample(r0, type) = quantise(<<m + d, d>>, HalfChar, 0, 2 * HalfChar - 1) BY <1>4, <1>5, <1>7 DEF write_sample
  <2> QED BY <1>5, <1>7, <2>1, Halves, Quantised, SampleRanges
<1>8. CASE type = "short"
  <2>1. write_sample(r0, type) = quantise(r, HalfShort, -HalfShort, HalfShort - 1) BY <1>4, <1>8 DEF write_sample
  <2> QED BY <1>5, <1>8, <2>1, Halves, Quantised, SampleRanges
<1>9. CASE type = "float"
  <2>1. write_sample(r0, type) = r BY <1>4, <1>9 DEF write_sample
  <2> QED BY <1>5, <1>9, <2>1, SampleRanges
<1>10. CASE type = "int24"
  <2>1. write_sample(r0, type) = 0 BY <1>10 DEF write_sample
  <2> QED BY <1>10, <2>1, Halves, SampleRanges
<1> QED BY <1>6, <1>7, <1>8, <1>9, <1>10 DEF Types

LEMMA ReadIsRational ==
    ASSUME NEW type \in Types, NEW v \in SamplesOf(type) PROVE read_sample(v, type) \in Rationals
<1>1. CASE type = "float" BY <1>1, SampleRanges DEF read_sample
<1>2. CASE type # "float"
  <2>1. v \in Int BY <1>2, Halves, SampleRanges DEF Types
  <2>2. v - HalfChar \in Int BY <2>1, Halves
  <2> QED BY <1>2, <2>1, <2>2, Halves DEF read_sample, Rationals, Types
<1> QED BY <1>1, <1>2

\* A sample that is read and written again is the same: exactly, for integers; up to -1 .. 1, for floats.
Fits(v, type) == type # "int24" /\ (type = "float" => v[1] \in -v[2] .. v[2])

LEMMA SampleReturns ==
    ASSUME NEW type \in Types, NEW v \in SamplesOf(type), Fits(v, type)
    PROVE  write_sample(read_sample(v, type), type) = v
<1> DEFINE H == IF type = "short" THEN HalfShort ELSE HalfChar
<1>1. H \in Nat \ {0} BY Halves
<1>2. CASE type = "float"
  <2>1. PICK n \in Int, d \in Nat \ {0} : v = <<n, d>> /\ v[1] = n /\ v[2] = d
    <3>1. v \in Rationals BY <1>2, SampleRanges
    <3> QED BY <3>1, RationalParts
  <2>2. n \in -d .. d BY <1>2, <2>1 DEF Fits
  <2>3. Clamp(n, -d, d) = n BY <2>2, Clamped
  <2> QED BY <1>2, <2>1, <2>3 DEF read_sample, write_sample
<1>3. CASE type \in {"char", "short"}
  <2>1. v \in -H .. H - 1 BY <1>3, SampleRanges
  <2>2. read_sample(v, type) = <<v, H>> BY <1>3 DEF read_sample
  <2>3. v \in Int /\ Clamp(v, -H, H) = v
    <3>1. v \in Int /\ -H \in Int /\ -H <= H /\ v \in -H .. H BY <1>1, <2>1
    <3> QED BY <1>1, <3>1, Clamped
  <2>4. write_sample(<<v, H>>, type) = quantise(<<v, H>>, H, -H, H - 1)
    <3>1. <<Clamp(<<v, H>>[1], -<<v, H>>[2], <<v, H>>[2]), <<v, H>>[2]>> = <<v, H>> BY <2>3
    <3> QED BY <1>3, <3>1 DEF write_sample
  <2>5. quantise(<<v, H>>, H, -H, H - 1) = v
    <3> HIDE DEF H
    <3> QED BY <1>1, <2>1, <2>3, QuantiseExact
  <2> QED BY <2>2, <2>4, <2>5
<1>4. CASE type = "uchar"
  <2> DEFINE w == v - HalfChar
  <2>1. v \in 0 .. 2 * HalfChar - 1 BY <1>4, SampleRanges
  <2>2. read_sample(v, type) = <<w, HalfChar>> BY <1>4 DEF read_sample
  <2>3. w \in Int /\ v = w + HalfChar /\ Clamp(w, -HalfChar, HalfChar) = w
    <3>1. w \in Int /\ -HalfChar \in Int /\ -HalfChar <= HalfChar /\ w \in -HalfChar .. HalfChar BY Halves, <2>1
    <3> HIDE DEF w
    <3>2. Clamp(w, -HalfChar, HalfChar) = w BY Halves, <3>1, Clamped
    <3>3. v = w + HalfChar BY Halves, <2>1 DEF w
    <3> QED BY <3>1, <3>2, <3>3
  <2> HIDE DEF w
  <2>4. write_sample(<<w, HalfChar>>, type) = quantise(<<v, HalfChar>>, HalfChar, 0, 2 * HalfChar - 1)
    <3>1. <<Clamp(<<w, HalfChar>>[1], -<<w, HalfChar>>[2], <<w, HalfChar>>[2]), <<w, HalfChar>>[2]>> = <<w, HalfChar>> BY <2>3
    <3>2. <<w, HalfChar>>[1] = w /\ <<w, HalfChar>>[2] = HalfChar OBVIOUS
    <3> QED BY <1>4, <2>3, <3>1, <3>2 DEF write_sample
  <2>5. quantise(<<v, HalfChar>>, HalfChar, 0, 2 * HalfChar - 1) = v BY Halves, <2>1, QuantiseExact
  <2> QED BY <2>2, <2>4, <2>5
<1> QED BY <1>2, <1>3, <1>4 DEF Fits, Types

\* A narrow sample survives a wider type.
LEMMA SampleWidens ==
    ASSUME NEW v \in -HalfChar .. HalfChar - 1
    PROVE  write_sample(read_sample(write_sample(read_sample(v, "char"), "short"), "short"), "char") = v
<1>1. v \in Int /\ v \in -HalfChar .. HalfChar /\ -HalfChar \in Int /\ -HalfChar <= HalfChar BY Halves
<1>2. PICK k \in Nat \ {0} : HalfShort = k * HalfChar
  <2>1. PICK k \in Int : HalfShort = k * HalfChar /\ k = HalfShort \div HalfChar
    <3>1. HalfShort % HalfChar = 0 BY FilesAssumption
    <3> QED BY <3>1, Halves, Division
  <2>2. k > 0
    <3>1. SUFFICES ASSUME k <= 0 PROVE FALSE BY <2>1
    <3>2. k * HalfChar <= 0 * HalfChar BY <3>1, <2>1, Halves, ProductGrows
    <3> QED BY <2>1, <3>2, Halves
  <2> QED BY <2>1, <2>2
<1>3. PICK u \in Int : u = v * k BY <1>1
<1>4. u \in -HalfShort .. HalfShort - 1
  <2>1. (-HalfChar) * k <= v * k BY <1>1, <1>2, ProductGrows
  <2>2. (v + 1) * k <= HalfChar * k
    <3>1. v + 1 <= HalfChar /\ v + 1 \in Int BY <1>1, Halves
    <3> QED BY <3>1, <1>2, Halves, ProductGrows
  <2>3. (v + 1) * k = u + k BY <1>1, <1>2, <1>3
  <2>4. HalfChar * k = HalfShort /\ (-HalfChar) * k = -HalfShort BY <1>2, Halves
  <2> QED BY <1>2, <1>3, <2>1, <2>2, <2>3, <2>4, Halves
<1>5. write_sample(read_sample(v, "char"), "short") = u
  <2>1. <<Clamp(<<v, HalfChar>>[1], -<<v, HalfChar>>[2], <<v, HalfChar>>[2]), <<v, HalfChar>>[2]>> = <<v, HalfChar>>
    BY <1>1, Halves, Clamped
  <2>2. v * HalfShort = u * HalfChar
    <3>1. v * (k * HalfChar) = (v * k) * HalfChar BY <1>1, <1>2, Halves
    <3> QED BY <1>2, <1>3, <3>1
  <2>3. quantise(<<v, HalfChar>>, HalfShort, -HalfShort, HalfShort - 1) = u BY <1>1, <1>4, <2>2, Halves, QuantiseExact
  <2> QED BY <2>1, <2>3 DEF read_sample, write_sample
<1>6. write_sample(<<u, HalfShort>>, "char") = v
  <2>1. -HalfShort \in Int /\ -HalfShort <= HalfShort /\ u \in -HalfShort .. HalfShort BY <1>4, Halves
  <2>2. <<Clamp(<<u, HalfShort>>[1], -<<u, HalfShort>>[2], <<u, HalfShort>>[2]), <<u, HalfShort>>[2]>> = <<u, HalfShort>>
    BY <1>3, <2>1, Halves, Clamped
  <2>3. u * HalfChar = v * HalfShort
    <3>1. v * (k * HalfChar) = (v * k) * HalfChar BY <1>1, <1>2, Halves
    <3> QED BY <1>2, <1>3, <3>1
  <2>4. quantise(<<u, HalfShort>>, HalfChar, -HalfChar, HalfChar - 1) = v BY <1>1, <1>3, <2>3, Halves, QuantiseExact
  <2> QED BY <2>2, <2>4 DEF write_sample
<1> QED BY <1>5, <1>6 DEF read_sample

\* Lowest terms are the same number: both parts are divided by a common divisor.
LEMMA ReducedIs ==
    ASSUME NEW n \in Int, NEW d \in Nat \ {0}
    PROVE  \E g \in Nat \ {0}, p \in Int, q \in Nat \ {0} : n = p * g /\ d = q * g /\ Reduced(<<n, d>>) = <<p, q>>
<1> DEFINE Divides(k) == n % k = 0 /\ d % k = 0
           S == {k \in 1 .. d : Divides(k)}
           Gcd(k) == \A j \in k + 1 .. d : n % j # 0 \/ d % j # 0
<1>1. 1 \in S
  <2>1. 1 \in 1 .. d OBVIOUS
  <2>2. n % 1 = 0 /\ d % 1 = 0 OBVIOUS
  <2> QED BY <2>1, <2>2
<1>2. \E k \in S : Gcd(k)
  <2> DEFINE U == {d - k : k \in S}
  <2>1. U \in SUBSET Nat /\ U # {} BY <1>1
  <2>2. PICK u \in U : \A y \in U : u <= y BY <2>1, LeastOne
  <2>3. PICK k \in S : u = d - k BY <2>2
  <2>4. ASSUME NEW j \in k + 1 .. d, n % j = 0, d % j = 0 PROVE FALSE
    <3>1. j \in S BY <2>3, <2>4
    <3>2. d - k <= d - j BY <2>2, <2>3, <3>1
    <3>3. k \in Int /\ j \in Int /\ k + 1 <= j BY <2>3, <2>4
    <3> QED BY <3>2, <3>3
  <2>5. Gcd(k) BY <2>4
  <2> QED BY <2>3, <2>5
<1>3. PICK g \in S : g = CHOOSE k \in S : Gcd(k) BY <1>2
<1>4. g \in Nat \ {0} /\ n % g = 0 /\ d % g = 0
  <2>1. g \in 1 .. d /\ Divides(g)
    <3> HIDE DEF Divides, Gcd
    <3> QED BY <1>3
  <2>2. g \in Nat \ {0} BY <2>1
  <2> QED BY <2>1, <2>2
<1>5. Reduced(<<n, d>>) = <<n \div g, d \div g>>
  <2>1. <<n, d>>[1] = n /\ <<n, d>>[2] = d OBVIOUS
  <2>2. g = CHOOSE k \in {j \in 1 .. d : n % j = 0 /\ d % j = 0} :
              \A j \in k + 1 .. d : n % j # 0 \/ d % j # 0
    BY <1>3
  <2> HIDE DEF S, Divides, Gcd
  <2> QED BY <2>1, <2>2, Zenon DEF Reduced
<1>6. PICK p \in Int : p = n \div g /\ n = p * g BY <1>4, Division
<1>7. PICK q \in Int : q = d \div g /\ d = q * g BY <1>4, Division
<1>8. q > 0
  <2>1. SUFFICES ASSUME q <= 0 PROVE FALSE BY <1>7
  <2>2. q * g <= 0 * g BY <1>4, <1>7, <2>1, ProductGrows
  <2> QED BY <1>4, <1>7, <2>2
<1>9. Reduced(<<n, d>>) = <<p, q>> /\ q \in Nat \ {0} /\ g \in Nat \ {0} BY <1>4, <1>5, <1>6, <1>7, <1>8
<1>10. p \in Int BY <1>6
<1>11. n = p * g BY <1>6
<1>12. d = q * g BY <1>7
<1> HIDE DEF S, Divides, Gcd
<1> QED BY <1>9, <1>10, <1>11, <1>12, Zenon

LEMMA ReducedRational ==
    ASSUME NEW r \in Rationals PROVE Reduced(r) \in Rationals
BY RationalParts, ReducedIs DEF Rationals

LEMMA ProductPositive ==
    ASSUME NEW a \in Nat \ {0}, NEW b \in Nat \ {0} PROVE a * b \in Nat \ {0}
<1>1. 0 * b < a * b BY ProductGrowsMore
<1> QED BY <1>1

LEMMA PlusRational ==
    ASSUME NEW r \in Rationals, NEW s \in Rationals PROVE Plus(r, s) \in Rationals
<1>1. r[1] \in Int /\ s[1] \in Int /\ r[2] \in Nat \ {0} /\ s[2] \in Nat \ {0} BY RationalParts
<1>2. r[2] * s[2] \in Nat \ {0} BY <1>1, ProductPositive
<1>3. r[1] * s[2] + s[1] * r[2] \in Int BY <1>1
<1>4. <<r[1] * s[2] + s[1] * r[2], r[2] * s[2]>> \in Rationals BY <1>2, <1>3 DEF Rationals
<1> QED BY <1>4, ReducedRational DEF Plus

LEMMA TimesRational ==
    ASSUME NEW r \in Rationals, NEW s \in Rationals PROVE Times(r, s) \in Rationals
<1>1. r[1] \in Int /\ s[1] \in Int /\ r[2] \in Nat \ {0} /\ s[2] \in Nat \ {0} BY RationalParts
<1>2. r[2] * s[2] \in Nat \ {0} BY <1>1, ProductPositive
<1> QED BY <1>1, <1>2 DEF Times, Rationals

\* Samples of a buffer.  A number that becomes a sample is clamped, so it is one of the type, and
\* order is kept.
Whole == {"char", "uchar", "short"}

LEMMA WholeRanges ==
    ASSUME NEW t \in Whole
    PROVE  /\ lowest(t) \in Int /\ highest(t) \in Int /\ lowest(t) <= 0 /\ 0 <= highest(t)
           /\ SamplesOf(t) = lowest(t) .. highest(t) /\ t # "float"
<1>1. CASE t = "char" BY <1>1, Halves DEF lowest, highest, SamplesOf
<1>2. CASE t = "uchar" BY <1>2, Halves DEF lowest, highest, SamplesOf
<1>3. CASE t = "short" BY <1>3, Halves DEF lowest, highest, SamplesOf
<1> QED BY <1>1, <1>2, <1>3 DEF Whole

LEMMA SampleMade ==
    ASSUME NEW t \in Whole, NEW n \in Int, NEW d \in Nat \ {0}
    PROVE  /\ to_sample(<<n, d>>, t) = TowardZero(Clamp(n, lowest(t) * d, highest(t) * d), d)
           /\ to_sample(<<n, d>>, t) \in lowest(t) .. highest(t)
<1>1. PICK lo \in Int, hi \in Int : lo = lowest(t) /\ hi = highest(t) /\ lo <= hi BY WholeRanges
<1>2. lo * d \in Int /\ hi * d \in Int /\ lo * d <= hi * d BY <1>1, ProductGrows
<1>3. PICK c \in Int : c = Clamp(n, lo * d, hi * d) /\ lo * d <= c /\ c <= hi * d
  <2>1. PICK l \in Int, h \in Int : l = lo * d /\ h = hi * d /\ l <= h BY <1>2
  <2>2. Clamp(n, l, h) \in l .. h BY <2>1, Clamped
  <2> QED BY <2>1, <2>2
<1>4. to_sample(<<n, d>>, t) = TowardZero(c, d)
  <2>1. <<n, d>>[1] = n /\ <<n, d>>[2] = d OBVIOUS
  <2> QED BY <1>1, <1>3, <2>1, WholeRanges DEF to_sample, TowardZero
<1>5. TowardZero(lo * d, d) = lo /\ TowardZero(hi * d, d) = hi BY CutExact
<1>6. TowardZero(lo * d, d) <= TowardZero(c, d) /\ TowardZero(c, d) <= TowardZero(hi * d, d) /\ TowardZero(c, d) \in Int BY <1>2, <1>3, CutGrows
<1> QED BY <1>1, <1>3, <1>4, <1>5, <1>6

LEMMA SampleGrows ==
    ASSUME NEW t \in Whole, NEW m \in Int, NEW n \in Int, NEW d \in Nat \ {0}, m <= n
    PROVE  to_sample(<<m, d>>, t) <= to_sample(<<n, d>>, t)
<1>1. PICK lo \in Int, hi \in Int : lo = lowest(t) /\ hi = highest(t) /\ lo <= hi BY WholeRanges
<1>2. PICK l \in Int, h \in Int : l = lo * d /\ h = hi * d /\ l <= h BY <1>1, ProductGrows
<1>3. Clamp(m, l, h) <= Clamp(n, l, h) /\ Clamp(m, l, h) \in Int /\ Clamp(n, l, h) \in Int
  <2>1. l \in Int /\ h \in Int /\ l <= h BY <1>2
  <2>2. Clamp(m, l, h) <= Clamp(n, l, h) BY <2>1, ClampGrows
  <2>3. Clamp(m, l, h) \in l .. h /\ Clamp(n, l, h) \in l .. h BY <2>1, Clamped
  <2> QED BY <2>1, <2>2, <2>3
<1> QED BY <1>1, <1>2, <1>3, CutGrows, SampleMade

LEMMA SampleStays ==
    ASSUME NEW t \in Whole, NEW v \in lowest(t) .. highest(t) PROVE to_sample(<<v, 1>>, t) = v
<1>1. PICK lo \in Int, hi \in Int : lo = lowest(t) /\ hi = highest(t) /\ lo <= hi BY WholeRanges
<1>2. v \in Int /\ Clamp(v, lo * 1, hi * 1) = v BY <1>1, Clamped
<1>3. TowardZero(v * 1, 1) = v BY <1>2, CutExact
<1> QED BY <1>1, <1>2, <1>3, SampleMade

LEMMA WholePlus ==
    ASSUME NEW v \in Int, NEW x \in Int PROVE Plus(<<v, 1>>, <<x, 1>>) = <<v + x, 1>>
<1>1. Plus(<<v, 1>>, <<x, 1>>) = Reduced(<<v + x, 1>>)
  <2>1. v * 1 + x * 1 = v + x /\ 1 * 1 = 1 OBVIOUS
  <2>2. <<v, 1>>[1] = v /\ <<v, 1>>[2] = 1 /\ <<x, 1>>[1] = x /\ <<x, 1>>[2] = 1 OBVIOUS
  <2> QED BY <2>1, <2>2 DEF Plus
<1>2. v + x \in Int /\ 1 \in Nat \ {0} OBVIOUS
<1>3. PICK g \in Nat \ {0}, p \in Int, q \in Nat \ {0} : v + x = p * g /\ 1 = q * g /\ Reduced(<<v + x, 1>>) = <<p, q>>
  BY <1>2, ReducedIs
<1>4. q = 1 /\ g = 1
  <2>1. 1 * g <= q * g /\ 1 * q <= g * q BY <1>3, ProductGrows
  <2>2. g * q = q * g BY <1>3
  <2> QED BY <1>3, <2>1, <2>2
<1>5. p = v + x BY <1>3, <1>4
<1> QED BY <1>1, <1>3, <1>4, <1>5

LEMMA ScaledIs ==
    ASSUME NEW t \in Whole, NEW v \in Int, NEW m \in Nat \X (Nat \ {0})
    PROVE  scale_sample(v, m, t) = to_sample(<<v * m[1], m[2]>>, t)
<1>1. t # "float" BY WholeRanges
<1>2. m[1] \in Nat /\ m[2] \in Nat \ {0} OBVIOUS
<1>3. 1 * m[2] = m[2] BY <1>2
<1>4. to_double(v, t) = <<v, 1>> /\ <<v, 1>>[1] = v /\ <<v, 1>>[2] = 1 BY <1>1 DEF to_double
<1> QED BY <1>3, <1>4 DEF scale_sample, Times

LEMMA MixedIs ==
    ASSUME NEW t \in Whole, NEW v \in Int, NEW x \in Int, NEW m \in Nat \X (Nat \ {0})
    PROVE  mix_sample(v, x, m, t) = scale_sample(v + x, m, t)
<1>1. t # "float" BY WholeRanges
<1>2. to_double(v, t) = <<v, 1>> /\ to_double(x, t) = <<x, 1>> /\ to_double(v + x, t) = <<v + x, 1>> BY <1>1 DEF to_double
<1> QED BY <1>2, WholePlus DEF mix_sample, scale_sample

LEMMA ScaledInRange ==
    ASSUME NEW t \in Whole, NEW v \in Int, NEW m \in Nat \X (Nat \ {0})
    PROVE  scale_sample(v, m, t) \in lowest(t) .. highest(t)
<1>1. m[1] \in Nat /\ m[2] \in Nat \ {0} /\ v * m[1] \in Int OBVIOUS
<1> QED BY <1>1, ScaledIs, SampleMade

LEMMA ScaledGrows ==
    ASSUME NEW t \in Whole, NEW v \in Int, NEW w \in Int, v <= w, NEW m \in Nat \X (Nat \ {0})
    PROVE  scale_sample(v, m, t) <= scale_sample(w, m, t)
<1>1. m[1] \in Nat /\ m[2] \in Nat \ {0} OBVIOUS
<1>2. PICK x \in Int, y \in Int : x = v * m[1] /\ y = w * m[1] /\ x <= y BY <1>1, ProductGrows
<1>3. to_sample(<<x, m[2]>>, t) <= to_sample(<<y, m[2]>>, t) BY <1>1, <1>2, SampleGrows
<1>4. scale_sample(v, m, t) = to_sample(<<x, m[2]>>, t) BY <1>2, ScaledIs
<1>5. scale_sample(w, m, t) = to_sample(<<y, m[2]>>, t) BY <1>2, ScaledIs
<1> QED BY <1>3, <1>4, <1>5

LEMMA ScaledByOne ==
    ASSUME NEW t \in Whole, NEW v \in lowest(t) .. highest(t) PROVE scale_sample(v, <<1, 1>>, t) = v
<1>1. v \in Int /\ v * 1 = v /\ <<1, 1>> \in Nat \X (Nat \ {0}) BY WholeRanges
<1>2. <<1, 1>>[1] = 1 /\ <<1, 1>>[2] = 1 OBVIOUS
<1> QED BY <1>1, <1>2, ScaledIs, SampleStays

\* A sample that is scaled or mixed is a sample of its type, a float too.
LEMMA ScaledKept ==
    ASSUME NEW t, checked_type(t), NEW v \in SamplesOf(t), NEW m \in Nat \X (Nat \ {0})
    PROVE  scale_sample(v, m, t) \in SamplesOf(t)
<1>1. CASE t = "float"
  <2>1. m \in Rationals /\ v \in Rationals BY <1>1, SampleRanges DEF Rationals
  <2> QED BY <1>1, <2>1, TimesRational, ReducedRational, SampleRanges DEF scale_sample, to_sample, to_double
<1>2. CASE t # "float"
  <2>1. t \in Whole BY <1>2 DEF checked_type, Whole
  <2>2. v \in Int BY <2>1, WholeRanges
  <2> QED BY <2>1, <2>2, ScaledInRange, WholeRanges
<1> QED BY <1>1, <1>2

LEMMA MixedKept ==
    ASSUME NEW t, checked_type(t), NEW v \in SamplesOf(t), NEW x \in SamplesOf(t), NEW m \in Nat \X (Nat \ {0})
    PROVE  mix_sample(v, x, m, t) \in SamplesOf(t)
<1>1. CASE t = "float"
  <2>1. m \in Rationals /\ v \in Rationals /\ x \in Rationals BY <1>1, SampleRanges DEF Rationals
  <2> QED BY <1>1, <2>1, PlusRational, TimesRational, ReducedRational, SampleRanges DEF mix_sample, to_sample, to_double
<1>2. CASE t # "float"
  <2>1. t \in Whole BY <1>2 DEF checked_type, Whole
  <2>2. v \in Int /\ x \in Int /\ v + x \in Int BY <2>1, WholeRanges
  <2> QED BY <2>1, <2>2, ScaledInRange, MixedIs, WholeRanges
<1> QED BY <1>1, <1>2

LEMMA SilenceKept ==
    ASSUME NEW t, checked_type(t) PROVE silence(t) \in SamplesOf(t) /\ (IF t = "float" THEN <<0, 1>> ELSE 0) \in SamplesOf(t)
<1>1. CASE t = "float"
  <2>1. <<0, 1>> \in Rationals BY DEF Rationals
  <2> QED BY <1>1, <2>1, SampleRanges DEF silence
<1>2. CASE t = "uchar"
  <2>1. HalfChar \in 0 .. 2 * HalfChar - 1 /\ 0 \in 0 .. 2 * HalfChar - 1 BY Halves
  <2>2. silence(t) = HalfChar BY <1>2 DEF silence
  <2> QED BY <1>2, <2>1, <2>2, SampleRanges
<1>3. CASE t \in {"char", "short"}
  <2>1. silence(t) = 0 /\ t # "float" BY <1>3 DEF silence
  <2>2. 0 \in SamplesOf(t) BY <1>3, Halves, SampleRanges
  <2> QED BY <2>1, <2>2
<1> QED BY <1>1, <1>2, <1>3 DEF checked_type

\* A function on 1 to n with values in a set is a sequence of them.
LEMMA SequenceMade ==
    ASSUME NEW S, NEW n \in Nat, NEW s, s = [k \in 1 .. n |-> s[k]], \A k \in 1 .. n : s[k] \in S
    PROVE  s \in Seq(S) /\ Len(s) = n /\ DOMAIN s = 1 .. n
<1>1. s \in [1 .. n -> S] OBVIOUS
<1> QED BY <1>1

-----------------------------------------------------------------------------
\* Rates.  What lies between two numbers by a share of the way is neither below nor above both.
LEMMA Share ==
    ASSUME NEW x \in Int, NEW y \in Int, NEW whole \in Nat, NEW part \in 0 .. whole, x <= y
    PROVE  /\ x * whole <= x * (whole - part) + y * part /\ x * (whole - part) + y * part <= y * whole
           /\ x * whole <= y * (whole - part) + x * part /\ y * (whole - part) + x * part <= y * whole
<1>1. part \in Nat /\ whole - part \in Nat OBVIOUS
<1>2. x * part <= y * part /\ x * (whole - part) <= y * (whole - part) BY <1>1, ProductGrows
<1>3. x * (whole - part) = x * whole - x * part /\ y * (whole - part) = y * whole - y * part BY <1>1
<1>4. PICK a \in Int, b \in Int, c \in Int, d \in Int : a = x * whole /\ b = x * part /\ c = y * whole /\ d = y * part BY <1>1
<1>5. PICK e \in Int, f \in Int : e = x * (whole - part) /\ f = y * (whole - part) BY <1>1
<1>6. b <= d /\ e <= f /\ e = a - b /\ f = c - d BY <1>2, <1>3, <1>4, <1>5
<1> QED BY <1>4, <1>5, <1>6

LEMMA LeqReduced ==
    ASSUME NEW x \in Rationals, NEW n \in Int, NEW d \in Nat \ {0}
    PROVE  /\ x[1] * d <= n * x[2] => Leq(x, Reduced(<<n, d>>))
           /\ n * x[2] <= x[1] * d => Leq(Reduced(<<n, d>>), x)
<1>1. PICK u \in Int, w \in Nat \ {0} : x[1] = u /\ x[2] = w BY RationalParts
<1>2. PICK g \in Nat \ {0}, p \in Int, q \in Nat \ {0} : n = p * g /\ d = q * g /\ Reduced(<<n, d>>) = <<p, q>> BY ReducedIs
<1>3. u * d = (u * q) * g
  <2>1. u * (q * g) = (u * q) * g BY <1>1, <1>2
  <2> QED BY <1>2, <2>1
<1>4. n * w = (p * w) * g
  <2>1. (p * g) * w = (p * w) * g BY <1>1, <1>2
  <2> QED BY <1>2, <2>1
<1>5. u * q \in Int /\ p * w \in Int BY <1>1, <1>2
<1>6. (u * d <= n * w => u * q <= p * w) /\ (n * w <= u * d => p * w <= u * q) BY <1>2, <1>3, <1>4, <1>5, FactorDropped
<1>7. <<p, q>>[1] = p /\ <<p, q>>[2] = q OBVIOUS
<1> QED BY <1>1, <1>2, <1>6, <1>7 DEF Leq

\* The sample that convert_rate makes of two.
Blend(a, b, whole, part) == Reduced(<<a[1] * b[2] * (whole - part) + b[1] * a[2] * part, a[2] * b[2] * whole>>)
Between(a, m, b) == Leq(a, m) /\ Leq(m, b)

LEMMA Blended ==
    ASSUME NEW a \in Rationals, NEW b \in Rationals, NEW whole \in Nat \ {0}, NEW part \in Int, part \in 0 .. whole \/ a = b
    PROVE  Blend(a, b, whole, part) \in Rationals /\ (Between(a, Blend(a, b, whole, part), b) \/ Between(b, Blend(a, b, whole, part), a))
<1>1. PICK a1 \in Int, a2 \in Nat \ {0} : a1 = a[1] /\ a2 = a[2] BY RationalParts
<1>2. PICK b1 \in Int, b2 \in Nat \ {0} : b1 = b[1] /\ b2 = b[2] BY RationalParts
<1>3. PICK x \in Int, y \in Int : x = a1 * b2 /\ y = b1 * a2 OBVIOUS
<1>4. PICK n \in Int : n = x * (whole - part) + y * part OBVIOUS
<1>5. a2 * b2 \in Nat \ {0} BY ProductPositive
<1>6. PICK d \in Nat \ {0} : d = a2 * b2 * whole BY <1>5, ProductPositive
<1>7. Blend(a, b, whole, part) = Reduced(<<n, d>>) BY <1>1, <1>2, <1>3, <1>4, <1>6 DEF Blend
<1>8. a1 * d = (x * whole) * a2 /\ b1 * d = (y * whole) * b2
  <2>1. a1 * (a2 * b2 * whole) = (a1 * b2 * whole) * a2 OBVIOUS
  <2>2. b1 * (a2 * b2 * whole) = (b1 * a2 * whole) * b2 OBVIOUS
  <2> QED BY <1>3, <1>6, <2>1, <2>2
<1>9. PICK xw \in Int, yw \in Int : xw = x * whole /\ yw = y * whole OBVIOUS
<1>10. (xw <= n /\ n <= yw) \/ (yw <= n /\ n <= xw)
  <2>1. CASE part \in 0 .. whole /\ x <= y
    <3>1. x * whole <= x * (whole - part) + y * part /\ x * (whole - part) + y * part <= y * whole BY <2>1, Share
    <3>2. xw <= n /\ n <= yw BY <1>4, <1>9, <3>1
    <3> QED BY <3>2
  <2>2. CASE part \in 0 .. whole /\ y <= x
    <3>1. y * whole <= x * (whole - part) + y * part /\ x * (whole - part) + y * part <= x * whole BY <2>2, Share
    <3> QED BY <1>4, <1>9, <3>1
  <2>3. CASE a = b
    <3>1. x = y BY <1>1, <1>2, <1>3, <2>3
    <3>2. x * (whole - part) + x * part = x * whole OBVIOUS
    <3> QED BY <1>4, <1>9, <3>1, <3>2
  <2> QED BY <2>1, <2>2, <2>3
<1>11. ASSUME xw <= n PROVE Leq(a, Reduced(<<n, d>>))
  <2>1. xw * a2 <= n * a2 BY <1>11, ProductGrows
  <2> QED BY <1>1, <1>8, <1>9, <2>1, LeqReduced
<1>12. ASSUME n <= xw PROVE Leq(Reduced(<<n, d>>), a)
  <2>1. n * a2 <= xw * a2 BY <1>12, ProductGrows
  <2> QED BY <1>1, <1>8, <1>9, <2>1, LeqReduced
<1>13. ASSUME yw <= n PROVE Leq(b, Reduced(<<n, d>>))
  <2>1. yw * b2 <= n * b2 BY <1>13, ProductGrows
  <2> QED BY <1>2, <1>8, <1>9, <2>1, LeqReduced
<1>14. ASSUME n <= yw PROVE Leq(Reduced(<<n, d>>), b)
  <2>1. n * b2 <= yw * b2 BY <1>14, ProductGrows
  <2> QED BY <1>2, <1>8, <1>9, <2>1, LeqReduced
<1>15. Reduced(<<n, d>>) \in Rationals
  <2>1. <<n, d>> \in Rationals BY DEF Rationals
  <2> QED BY <2>1, ReducedRational
<1> QED BY <1>7, <1>10, <1>11, <1>12, <1>13, <1>14, <1>15 DEF Between

\* The number of frames, and how far their duration is from what it was.
LEMMA DurationKept ==
    ASSUME NEW n \in Nat \ {0}, NEW src \in Nat \ {0}, NEW dst \in Nat \ {0}
    PROVE  /\ dst_frames(n, src, dst) \in Nat \ {0}
           /\ 2 * (dst_frames(n, src, dst) * src - n * dst) \in -src .. 2 * src
<1>1. PICK w \in Nat \ {0} : w = n * dst BY ProductPositive
<1>2. PICK h \in Nat, e \in 0 .. 1 : h = src \div 2 /\ src = 2 * h + e
  <2>1. src \div 2 \in Int /\ src % 2 \in 0 .. 1 /\ src = (src \div 2) * 2 + (src % 2) BY Division
  <2> QED BY <2>1
<1>3. PICK q \in Int, r \in 0 .. src - 1 : q = (w + h) \div src /\ w + h = q * src + r
  <2>1. w + h \in Int BY <1>1, <1>2
  <2> QED BY <2>1, Division
<1>4. dst_frames(n, src, dst) = IF q < 1 THEN 1 ELSE q BY <1>1, <1>2, <1>3 DEF dst_frames
<1>5. CASE q >= 1
  <2>1. PICK m \in Int : m = q * src OBVIOUS
  <2>2. m = w + h - r BY <1>1, <1>2, <1>3, <2>1
  <2>3. 2 * (m - w) \in -src .. 2 * src
    <3>1. m - w = h - r /\ r <= src - 1 /\ r >= 0 /\ r \in Int
      <4>1. w \in Int BY <1>1
      <4>2. h \in Int BY <1>2
      <4>3. r \in 0 .. src - 1 BY <1>3
      <4> QED BY <2>2, <4>1, <4>2, <4>3
    <3>2. 2 * h <= src /\ src <= 2 * h + 1 BY <1>2
    <3>3. 2 * (h - r) \in -src .. 2 * src BY <3>1, <3>2
    <3> QED BY <3>1, <3>3
  <2> QED BY <1>1, <1>4, <1>5, <2>1, <2>3
<1>6. CASE q < 1
  <2>1. q * src <= 0 * src BY <1>6, ProductGrows
  <2>2. PICK m \in Int : m = q * src OBVIOUS
  <2>3. m <= 0 /\ w + h = m + r BY <1>1, <1>2, <1>3, <2>1, <2>2
  <2>4. 2 * (src - w) \in -src .. 2 * src
    <3>1. w >= 1 /\ w <= src - 1 /\ w \in Int
      <4>1. w \in Nat \ {0} BY <1>1
      <4>2. h \in Nat BY <1>2
      <4>3. r \in 0 .. src - 1 BY <1>3
      <4>4. m \in Int BY <2>2
      <4> QED BY <2>3, <4>1, <4>2, <4>3, <4>4
    <3> QED BY <3>1
  <2>5. 1 * src = src OBVIOUS
  <2> QED BY <1>1, <1>4, <1>6, <2>4, <2>5
<1> QED BY <1>3, <1>5, <1>6

\* The two frames that a new frame lies between, and how far.
FrameBefore(n, src, dst, f) == IF (f * src) \div dst < n THEN (f * src) \div dst ELSE n - 1
FrameAfter(n, src, dst, f) ==
    IF FrameBefore(n, src, dst, f) + 1 < n THEN FrameBefore(n, src, dst, f) + 1 ELSE n - 1
NewFrame(frames, src, dst, f) ==
    [c \in DOMAIN frames[1] |->
        Blend(frames[FrameBefore(Len(frames), src, dst, f) + 1][c], frames[FrameAfter(Len(frames), src, dst, f) + 1][c],
              dst, f * src - FrameBefore(Len(frames), src, dst, f) * dst)]

LEMMA NewFrames ==
    ASSUME NEW frames, NEW src, NEW dst, Len(frames) # 0
    PROVE  convert_rate(frames, src, dst)
              = [k \in 1 .. dst_frames(Len(frames), src, dst) |-> NewFrame(frames, src, dst, k - 1)]
BY Zenon DEF convert_rate, NewFrame, FrameBefore, FrameAfter, Blend

LEMMA PlaceOfNewFrame ==
    ASSUME NEW n \in Nat \ {0}, NEW src \in Nat \ {0}, NEW dst \in Nat \ {0}, NEW f \in Nat
    PROVE  /\ FrameBefore(n, src, dst, f) \in 0 .. n - 1 /\ FrameAfter(n, src, dst, f) \in 0 .. n - 1
           /\ \/ f * src - FrameBefore(n, src, dst, f) * dst \in 0 .. dst
              \/ FrameBefore(n, src, dst, f) = FrameAfter(n, src, dst, f)
<1>1. PICK x \in Nat : x = f * src
  <2>1. 0 * src <= f * src BY ProductGrows
  <2> QED BY <2>1
<1>2. PICK q \in Int, r \in 0 .. dst - 1 : q = x \div dst /\ x = q * dst + r BY Division
<1>3. q >= 0
  <2>1. 0 \div dst = 0 BY DivisionIs
  <2> QED BY <1>1, <1>2, <2>1, DivisionGrows
<1>4. CASE q < n
  <2>1. FrameBefore(n, src, dst, f) = q BY <1>1, <1>2, <1>4 DEF FrameBefore
  <2>2. FrameAfter(n, src, dst, f) \in 0 .. n - 1 BY <1>2, <1>3, <1>4, <2>1 DEF FrameAfter
  <2>3. x - q * dst = r BY <1>1, <1>2
  <2>4. r \in 0 .. dst BY <1>2
  <2> QED BY <1>1, <1>2, <1>3, <1>4, <2>1, <2>2, <2>3, <2>4
<1>5. CASE q >= n
  <2>1. FrameBefore(n, src, dst, f) = n - 1 BY <1>1, <1>2, <1>5 DEF FrameBefore
  <2>2. FrameAfter(n, src, dst, f) = n - 1 BY <2>1 DEF FrameAfter
  <2> QED BY <2>1, <2>2
<1> QED BY <1>2, <1>4, <1>5

StaysWithin(to, from) ==
    \A f \in DOMAIN to : \A c \in DOMAIN to[f] :
       \E a, b \in DOMAIN from : Leq(from[a][c], to[f][c]) /\ Leq(to[f][c], from[b][c])

LEMMA RateConverted ==
    ASSUME NEW ch \in Nat, NEW frames \in Seq([1 .. ch -> Rationals]), NEW src \in Nat \ {0}, NEW dst \in Nat \ {0}
    PROVE  /\ convert_rate(frames, src, dst) \in Seq([1 .. ch -> Rationals])
           /\ StaysWithin(convert_rate(frames, src, dst), frames)
           /\ 2 * (Len(convert_rate(frames, src, dst)) * src - Len(frames) * dst) \in -src .. 2 * src
<1> DEFINE to == convert_rate(frames, src, dst)
<1>1. PICK n \in Nat : n = Len(frames) OBVIOUS
<1>2. CASE n = 0
  <2>1. to = <<>> BY <1>1, <1>2 DEF convert_rate
  <2>2. Len(to) = 0 /\ DOMAIN to = {} /\ to \in Seq([1 .. ch -> Rationals]) BY <2>1
  <2>3. 2 * (0 * src - 0 * dst) \in -src .. 2 * src OBVIOUS
  <2> QED BY <1>1, <1>2, <2>2, <2>3 DEF StaysWithin
<1>3. CASE n # 0
  <2> DEFINE b(k) == FrameBefore(n, src, dst, k - 1)
             a(k) == FrameAfter(n, src, dst, k - 1)
  <2>n. n \in Nat \ {0} BY <1>3
  <2>1. DOMAIN frames = 1 .. n /\ \A i \in 1 .. n : frames[i] \in [1 .. ch -> Rationals] BY <1>1
  <2>2. DOMAIN frames[1] = 1 .. ch BY <1>3, <2>1
  <2>3. PICK m \in Nat \ {0} : m = dst_frames(n, src, dst) /\ 2 * (m * src - n * dst) \in -src .. 2 * src
    <3>1. n \in Nat \ {0} BY <1>3
    <3> QED BY <3>1, DurationKept
  <2>4. to = [k \in 1 .. m |-> NewFrame(frames, src, dst, k - 1)] BY <1>1, <1>3, <2>3, NewFrames
  <2>5. ASSUME NEW k \in 1 .. m, NEW c \in 1 .. ch
        PROVE  /\ to[k][c] \in Rationals
               /\ \E i, j \in 1 .. n : Leq(frames[i][c], to[k][c]) /\ Leq(to[k][c], frames[j][c])
    <3> DEFINE part == (k - 1) * src - b(k) * dst
    <3>1. k - 1 \in Nat /\ n \in Nat \ {0} BY <1>3
    <3>2. b(k) \in 0 .. n - 1 /\ a(k) \in 0 .. n - 1 /\ (part \in 0 .. dst \/ b(k) = a(k))
      <4>1. PICK f \in Nat : f = k - 1 BY <3>1
      <4>2. /\ FrameBefore(n, src, dst, f) \in 0 .. n - 1 /\ FrameAfter(n, src, dst, f) \in 0 .. n - 1
            /\ \/ f * src - FrameBefore(n, src, dst, f) * dst \in 0 .. dst
               \/ FrameBefore(n, src, dst, f) = FrameAfter(n, src, dst, f)
        BY <2>n, PlaceOfNewFrame, Zenon
      <4> QED BY <4>1, <4>2, Zenon
    <3>3. PICK i \in 1 .. n, j \in 1 .. n : i = b(k) + 1 /\ j = a(k) + 1
      <4>1. PICK p \in 0 .. n - 1, q \in 0 .. n - 1 : p = b(k) /\ q = a(k) BY <3>2, Zenon
      <4>2. p + 1 \in 1 .. n /\ q + 1 \in 1 .. n OBVIOUS
      <4> HIDE DEF a, b
      <4> QED BY <4>1, <4>2
    <3>4. part \in Int
      <4>1. PICK p \in 0 .. n - 1 : p = b(k) BY <3>2, Zenon
      <4> HIDE DEF b
      <4> QED BY <3>1, <4>1
    <3>5. frames[i][c] \in Rationals /\ frames[j][c] \in Rationals BY <2>1
    <3>6. to[k][c] = Blend(frames[i][c], frames[j][c], dst, part)
      <4>1. to[k] = NewFrame(frames, src, dst, k - 1) BY <2>4
      <4> QED BY <1>1, <2>2, <3>3, <4>1 DEF NewFrame
    <3>7. part \in 0 .. dst \/ frames[i][c] = frames[j][c] BY <3>2, <3>3
    <3> HIDE DEF part, a, b
    <3>8. /\ Blend(frames[i][c], frames[j][c], dst, part) \in Rationals
          /\ \/ Between(frames[i][c], Blend(frames[i][c], frames[j][c], dst, part), frames[j][c])
             \/ Between(frames[j][c], Blend(frames[i][c], frames[j][c], dst, part), frames[i][c])
      BY <3>4, <3>5, <3>7, Blended
    <3> HIDE DEF to
    <3> QED BY <3>6, <3>8, Zenon DEF Between
  <2>6. ASSUME NEW k \in 1 .. m PROVE to[k] \in [1 .. ch -> Rationals]
    <3>1. to[k] = [c \in 1 .. ch |-> to[k][c]]
      <4>1. to[k] = NewFrame(frames, src, dst, k - 1) BY <2>4
      <4> HIDE DEF to
      <4> QED BY <2>2, <4>1 DEF NewFrame
    <3> QED BY <2>5, <3>1
  <2>7. to \in Seq([1 .. ch -> Rationals]) /\ Len(to) = m /\ DOMAIN to = 1 .. m
    <3>1. to = [k \in 1 .. m |-> to[k]] BY <2>4
    <3> HIDE DEF to
    <3> QED BY <2>6, <3>1, SequenceMade
  <2>8. StaysWithin(to, frames)
    <3> HIDE DEF to
    <3>1. \A k \in 1 .. m : DOMAIN to[k] = 1 .. ch BY <2>6
    <3> QED BY <2>1, <2>5, <2>7, <3>1 DEF StaysWithin
  <2> QED BY <1>1, <2>3, <2>7, <2>8
<1> QED BY <1>2, <1>3

-----------------------------------------------------------------------------
\* Frames.  The sums of a frame's channels, one after the other.
Sums(s, chans, n) == s \in [0 .. n -> Rationals] /\ s[0] = <<0, 1>> /\ \A c \in 1 .. n : s[c] = Plus(s[c - 1], chans[c])

LEMMA SumsExist ==
    ASSUME NEW chans \in Seq(Rationals)
    PROVE  \A n \in 0 .. Len(chans) : \E s : Sums(s, chans, n)
<1>1. PICK L \in Nat : L = Len(chans) /\ \A c \in 1 .. L : chans[c] \in Rationals OBVIOUS
<1> SUFFICES ASSUME NEW N \in 0 .. L, ~ \E s : Sums(s, chans, N) PROVE FALSE BY <1>1
<1> DEFINE U == {n \in 0 .. L : ~ \E s : Sums(s, chans, n)}
<1>2. PICK n \in U : \A m \in U : n <= m
  <2>1. U \in SUBSET Nat /\ U # {} BY <1>1
  <2> HIDE DEF U
  <2> QED BY <2>1, LeastOne
<1>3. <<0, 1>> \in Rationals BY DEF Rationals
<1>4. n # 0
  <2>1. Sums([c \in 0 .. 0 |-> <<0, 1>>], chans, 0) BY <1>3 DEF Sums
  <2> QED BY <1>2, <2>1
<1>5. n \in 1 .. L /\ n - 1 \in 0 .. L /\ n - 1 \notin U BY <1>1, <1>2, <1>4
<1>6. PICK s : Sums(s, chans, n - 1) BY <1>5
<1>7. s \in [0 .. n - 1 -> Rationals] /\ s[0] = <<0, 1>> /\ \A c \in 1 .. n - 1 : s[c] = Plus(s[c - 1], chans[c])
  BY <1>6 DEF Sums
<1>8. PICK last \in Rationals : last = Plus(s[n - 1], chans[n])
  <2>1. s[n - 1] \in Rationals /\ chans[n] \in Rationals BY <1>1, <1>5, <1>7
  <2> QED BY <2>1, PlusRational
<1> DEFINE on == [c \in 0 .. n |-> IF c = n THEN last ELSE s[c]]
<1>9. on \in [0 .. n -> Rationals] BY <1>5, <1>7, <1>8
<1>10. on[0] = <<0, 1>> BY <1>5, <1>7
<1>11. ASSUME NEW c \in 1 .. n PROVE on[c] = Plus(on[c - 1], chans[c])
  <2>1. c \in 0 .. n /\ c - 1 \in 0 .. n /\ c - 1 # n BY <1>5
  <2>2. on[c - 1] = s[c - 1] BY <2>1
  <2>3. CASE c = n BY <1>8, <2>1, <2>2, <2>3
  <2>4. CASE c # n
    <3>1. c \in 1 .. n - 1 /\ on[c] = s[c] BY <1>5, <2>1, <2>4
    <3> QED BY <1>7, <2>2, <3>1
  <2> QED BY <2>3, <2>4
<1>12. Sums(on, chans, n)
  <2> HIDE DEF on
  <2> QED BY <1>9, <1>10, <1>11 DEF Sums
<1> QED BY <1>2, <1>12

LEMMA MixedChannels ==
    ASSUME NEW chans \in Seq(Rationals), chans # <<>> PROVE mix_channels(chans) \in Rationals
<1> DEFINE Def(s) == [c \in 0 .. Len(chans) |-> IF c = 0 THEN <<0, 1>> ELSE Plus(s[c - 1], chans[c])]
<1>1. PICK L \in Nat \ {0} : L = Len(chans) /\ \A c \in 1 .. L : chans[c] \in Rationals OBVIOUS
<1>2. PICK g : Sums(g, chans, L) BY <1>1, SumsExist
<1>3. g = Def(g)
  <2>1. g \in [0 .. L -> Rationals] /\ g[0] = <<0, 1>> /\ \A c \in 1 .. L : g[c] = Plus(g[c - 1], chans[c])
    BY <1>2 DEF Sums
  <2>2. \A c \in 0 .. L : g[c] = IF c = 0 THEN <<0, 1>> ELSE Plus(g[c - 1], chans[c])
    <3>1. \A c \in 0 .. L : c # 0 => c \in 1 .. L BY <1>1
    <3> QED BY <2>1, <3>1
  <2>3. g = [c \in 0 .. L |-> g[c]] BY <2>1
  <2>4. g = [c \in 0 .. L |-> IF c = 0 THEN <<0, 1>> ELSE Plus(g[c - 1], chans[c])] BY <2>2, <2>3, Zenon
  <2> QED BY <1>1, <2>4, Zenon
<1> DEFINE s == CHOOSE f : f = Def(f)
<1>4. s = Def(s) BY <1>3
<1>5. mix_channels(chans) = Reduced(<<s[Len(chans)][1], s[Len(chans)][2] * Len(chans)>>)
  BY Zenon DEF mix_channels
<1> HIDE DEF s
<1>6. \A f : /\ Def(f)[0] = <<0, 1>> /\ \A c \in 1 .. L : Def(f)[c] = Plus(f[c - 1], chans[c])
  <2> TAKE f
  <2>1. \A c \in 0 .. L : Def(f)[c] = IF c = 0 THEN <<0, 1>> ELSE Plus(f[c - 1], chans[c]) BY <1>1
  <2> HIDE DEF Def
  <2>2. 0 \in 0 .. L /\ \A c \in 1 .. L : c \in 0 .. L /\ c # 0 BY <1>1
  <2> QED BY <2>1, <2>2
<1> HIDE DEF Def
<1>7. s[0] = <<0, 1>> /\ \A c \in 1 .. L : s[c] = Plus(s[c - 1], chans[c]) BY <1>4, <1>6
<1>8. s[L] \in Rationals
  <2> SUFFICES ASSUME s[L] \notin Rationals PROVE FALSE OBVIOUS
  <2> DEFINE U == {c \in 0 .. L : s[c] \notin Rationals}
  <2>1. PICK m \in U : \A c \in U : m <= c
    <3>1. U \in SUBSET Nat /\ U # {} BY <1>1
    <3> HIDE DEF U
    <3> QED BY <3>1, LeastOne
  <2>2. m # 0
    <3>1. <<0, 1>> \in Rationals BY DEF Rationals
    <3> QED BY <1>7, <2>1, <3>1
  <2>3. m \in 1 .. L /\ m - 1 \in 0 .. L /\ m - 1 \notin U BY <1>1, <2>1, <2>2
  <2>4. s[m - 1] \in Rationals /\ chans[m] \in Rationals BY <1>1, <2>3
  <2> QED BY <1>7, <2>1, <2>3, <2>4, PlusRational
<1>9. s[L][1] \in Int /\ s[L][2] \in Nat \ {0} BY <1>8, RationalParts
<1>10. s[L][2] * L \in Nat \ {0} BY <1>1, <1>9, ProductPositive
<1>11. <<s[L][1], s[L][2] * L>> \in Rationals BY <1>9, <1>10 DEF Rationals
<1> QED BY <1>1, <1>5, <1>11, ReducedRational

LEMMA RemappedChannel ==
    ASSUME NEW chans \in Seq(Rationals), chans # <<>>, NEW dst \in Nat, NEW c \in 1 .. dst
    PROVE  remap_channel(chans, dst, c) \in Rationals
<1>1. PICK n \in Nat \ {0} : n = Len(chans) /\ \A i \in 1 .. n : chans[i] \in Rationals OBVIOUS
<1>2. CASE dst < n BY <1>1, <1>2, MixedChannels DEF remap_channel
<1>3. CASE dst >= n /\ c <= n BY <1>1, <1>3 DEF remap_channel
<1>4. CASE dst >= n /\ c > n BY <1>1, <1>4 DEF remap_channel
<1> QED BY <1>1, <1>2, <1>3, <1>4

\* Where a channel of a frame is in the data, and back.
LEMMA PlaceOfSample ==
    ASSUME NEW n \in Nat, NEW ch \in Nat \ {0}, NEW f \in 1 .. n \div ch, NEW c \in 1 .. ch
    PROVE  (f - 1) * ch + c \in 1 .. n
<1>1. PICK q \in Int, r \in 0 .. ch - 1 : q = n \div ch /\ n = q * ch + r BY Division
<1>2. f \in Int /\ 1 <= f /\ f <= q BY <1>1
<1>3. 0 * ch <= (f - 1) * ch /\ f * ch <= q * ch BY <1>1, <1>2, ProductGrows
<1>4. (f - 1) * ch = f * ch - ch BY <1>2
<1>5. PICK a \in Int, b \in Int : a = f * ch /\ b = q * ch BY <1>1, <1>2
<1>6. 0 <= a - ch /\ a <= b /\ n = b + r BY <1>1, <1>3, <1>4, <1>5
<1>7. a - ch + c \in 1 .. n
  <2>1. r >= 0 /\ r \in Int BY <1>1
  <2> QED BY <1>5, <1>6, <2>1
<1> QED BY <1>4, <1>5, <1>7

LEMMA FrameOfSample ==
    ASSUME NEW n \in Nat, NEW ch \in Nat, NEW k \in 1 .. n * ch
    PROVE  /\ ch # 0 /\ (k - 1) \div ch + 1 \in 1 .. n /\ ((k - 1) % ch) + 1 \in 1 .. ch
           /\ ((k - 1) \div ch + 1 - 1) * ch + (((k - 1) % ch) + 1) = k
<1>1. ch # 0 BY n * 0 = 0
<1>2. PICK q \in Int, r \in 0 .. ch - 1 : q = (k - 1) \div ch /\ r = (k - 1) % ch /\ k - 1 = q * ch + r
  <2>1. ch \in Nat \ {0} /\ k - 1 \in Int BY <1>1
  <2> QED BY <2>1, Division
<1>3. PICK a \in Int, b \in Int : a = q * ch /\ b = n * ch BY <1>2
<1>4. (q + 1) * ch = a + ch BY <1>2, <1>3
<1>5. 0 <= k - 1 /\ k - 1 < b /\ r \in Int /\ r >= 0 /\ r < ch /\ k \in Int BY <1>2, <1>3
<1>6. 0 * ch < (q + 1) * ch /\ q * ch < n * ch BY <1>2, <1>3, <1>4, <1>5
<1>7. 0 < q + 1 /\ q < n BY <1>1, <1>2, <1>6, FactorDropped
<1> QED BY <1>1, <1>2, <1>7

\* The channels of a frame of the data.
FrameRead(d, src, f) == [c \in 1 .. src.channels |-> read_sample(d[(f - 1) * src.channels + c], src.type)]

LEMMA FrameIsRead ==
    ASSUME NEW src, src.type \in Types, src.channels \in Nat \ {0}, NEW d \in Seq(SamplesOf(src.type)),
           NEW f \in 1 .. Len(d) \div src.channels
    PROVE  /\ FrameRead(d, src, f) \in Seq(Rationals) /\ Len(FrameRead(d, src, f)) = src.channels
           /\ FrameRead(d, src, f) # <<>>
           /\ \A c \in 1 .. src.channels : FrameRead(d, src, f)[c] = read_sample(d[(f - 1) * src.channels + c], src.type)
<1>1. PICK n \in Nat : n = Len(d) /\ \A k \in 1 .. n : d[k] \in SamplesOf(src.type) OBVIOUS
<1>2. PICK ch \in Nat \ {0} : ch = src.channels OBVIOUS
<1> DEFINE fr == FrameRead(d, src, f)
<1>3. fr = [c \in 1 .. ch |-> fr[c]] /\ \A c \in 1 .. ch : fr[c] = read_sample(d[(f - 1) * ch + c], src.type)
  BY <1>2 DEF FrameRead
<1> HIDE DEF fr
<1>4. ASSUME NEW c \in 1 .. ch PROVE fr[c] \in Rationals
  <2>1. (f - 1) * ch + c \in 1 .. n BY <1>1, <1>2, PlaceOfSample
  <2> QED BY <1>1, <1>3, <2>1, ReadIsRational
<1>5. fr \in Seq(Rationals) /\ Len(fr) = ch BY <1>3, <1>4, SequenceMade
<1>6. fr # <<>> BY <1>5
<1> QED BY <1>2, <1>3, <1>5, <1>6 DEF fr

LEMMA FramesRead ==
    ASSUME NEW d, NEW src, NEW dst
    PROVE  decode_frames(d, src, dst)
              = [f \in 1 .. Len(d) \div src.channels |-> [c \in 1 .. dst |-> remap_channel(FrameRead(d, src, f), dst, c)]]
BY Zenon DEF decode_frames, FrameRead

\* Decoding gives frames of rationals with the channels asked for.
LEMMA Decoded ==
    ASSUME NEW src, src.type \in Types, src.channels \in Nat \ {0}, NEW d \in Seq(SamplesOf(src.type)), NEW dst \in Nat
    PROVE  decode_frames(d, src, dst) \in Seq([1 .. dst -> Rationals])
<1>1. PICK n \in Nat : n = Len(d) \div src.channels
  <2>1. Len(d) \in Nat /\ Len(d) \div src.channels \in Int
    <3>1. PICK l \in Nat, ch \in Nat \ {0} : l = Len(d) /\ ch = src.channels OBVIOUS
    <3>2. l \in Int /\ ch \in Nat \ {0} BY <3>1
    <3>3. l \div ch \in Int BY <3>2, Division, Zenon
    <3> QED BY <3>1, <3>3
  <2>2. 0 \div src.channels = 0 BY DivisionIs
  <2>3. 0 \div src.channels <= Len(d) \div src.channels BY <2>1, DivisionGrows
  <2> QED BY <2>1, <2>2, <2>3
<1> DEFINE fs == decode_frames(d, src, dst)
<1>2. fs = [f \in 1 .. n |-> [c \in 1 .. dst |-> remap_channel(FrameRead(d, src, f), dst, c)]] BY <1>1, FramesRead
<1> HIDE DEF fs
<1>3. ASSUME NEW f \in 1 .. n PROVE fs[f] \in [1 .. dst -> Rationals]
  <2>1. fs[f] = [c \in 1 .. dst |-> remap_channel(FrameRead(d, src, f), dst, c)] BY <1>2
  <2>2. PICK fr \in Seq(Rationals) : fr = FrameRead(d, src, f) /\ fr # <<>> BY <1>1, FrameIsRead
  <2>3. \A c \in 1 .. dst : remap_channel(fr, dst, c) \in Rationals BY <2>2, RemappedChannel
  <2> QED BY <2>1, <2>2, <2>3
<1>4. fs = [f \in 1 .. n |-> fs[f]] BY <1>2
<1>5. fs \in Seq([1 .. dst -> Rationals]) BY <1>3, <1>4, SequenceMade
<1> QED BY <1>5 DEF fs

\* Encoding gives samples of the type.
LEMMA Encoded ==
    ASSUME NEW ch \in Nat, NEW frames \in Seq([1 .. ch -> Rationals]), NEW type \in Types
    PROVE  encode_frames(frames, ch, type) \in Seq(SamplesOf(type))
<1>1. PICK n \in Nat : n = Len(frames) /\ \A f \in 1 .. n : frames[f] \in [1 .. ch -> Rationals] OBVIOUS
<1>2. PICK m \in Nat : m = n * ch
  <2>1. 0 * ch <= n * ch BY <1>1, ProductGrows
  <2> QED BY <2>1
<1> DEFINE e == encode_frames(frames, ch, type)
<1>3. e = [k \in 1 .. m |-> write_sample(frames[(k - 1) \div ch + 1][((k - 1) % ch) + 1], type)]
  BY <1>1, <1>2 DEF encode_frames
<1> HIDE DEF e
<1>4. ASSUME NEW k \in 1 .. m PROVE e[k] \in SamplesOf(type)
  <2>1. PICK f \in 1 .. n, c \in 1 .. ch : f = (k - 1) \div ch + 1 /\ c = ((k - 1) % ch) + 1 BY <1>2, FrameOfSample
  <2>2. frames[f][c] \in Rationals BY <1>1
  <2>3. e[k] = write_sample(frames[f][c], type) BY <1>3, <2>1
  <2> QED BY <2>2, <2>3, WrittenInRange
<1>5. e = [k \in 1 .. m |-> e[k]] BY <1>3
<1>6. e \in Seq(SamplesOf(type)) BY <1>4, <1>5, SequenceMade
<1> QED BY <1>6 DEF e

\* Sound that is decoded and encoded in its own format is the same, if every sample fits.
LEMMA FormatKept ==
    ASSUME NEW src, src.type \in Types, src.channels \in Nat \ {0}, NEW d \in Seq(SamplesOf(src.type)),
           Len(d) % src.channels = 0, \A i \in DOMAIN d : Fits(d[i], src.type)
    PROVE  encode_frames(decode_frames(d, src, src.channels), src.channels, src.type) = d
<1>1. PICK len \in Nat : len = Len(d) /\ \A k \in 1 .. len : d[k] \in SamplesOf(src.type) /\ Fits(d[k], src.type) OBVIOUS
<1>2. PICK ch \in Nat \ {0} : ch = src.channels OBVIOUS
<1>3. PICK n \in Int : n = len \div ch /\ len = n * ch
  <2>1. len % ch = 0 BY <1>1, <1>2
  <2>2. len \div ch \in Int /\ len = (len \div ch) * ch + (len % ch)
    <3>1. len \in Int /\ ch \in Nat \ {0} BY <1>1, <1>2
    <3> QED BY <3>1, Division, Zenon
  <2>3. PICK q \in Int : q = len \div ch BY <2>2
  <2>4. len = q * ch BY <2>1, <2>2, <2>3
  <2> QED BY <2>3, <2>4
<1>4. n >= 0
  <2>1. 0 \div ch = 0 BY DivisionIs
  <2>2. 0 \div ch <= len \div ch BY <1>1, DivisionGrows
  <2> QED BY <1>3, <2>1, <2>2
<1> DEFINE fs == decode_frames(d, src, ch)
<1>5. fs = [f \in 1 .. n |-> [c \in 1 .. ch |-> remap_channel(FrameRead(d, src, f), ch, c)]]
  BY <1>1, <1>2, <1>3, FramesRead
<1> HIDE DEF fs
<1>6. Len(fs) = n BY <1>4, <1>5
<1> DEFINE e == encode_frames(fs, ch, src.type)
<1>7. e = [k \in 1 .. len |-> write_sample(fs[(k - 1) \div ch + 1][((k - 1) % ch) + 1], src.type)]
  BY <1>3, <1>6 DEF encode_frames
<1> HIDE DEF e
<1>8. ASSUME NEW k \in 1 .. len PROVE e[k] = d[k]
  <2>1. PICK f \in 1 .. n, c \in 1 .. ch : f = (k - 1) \div ch + 1 /\ c = ((k - 1) % ch) + 1 /\ (f - 1) * ch + c = k
    <3>1. n \in Nat /\ k \in 1 .. n * ch BY <1>3, <1>4
    <3>2. /\ (k - 1) \div ch + 1 \in 1 .. n /\ ((k - 1) % ch) + 1 \in 1 .. ch
          /\ ((k - 1) \div ch + 1 - 1) * ch + (((k - 1) % ch) + 1) = k
      BY <3>1, FrameOfSample
    <3> QED BY <3>2
  <2>2. PICK fr : fr = FrameRead(d, src, f) /\ Len(fr) = ch /\ fr[c] = read_sample(d[k], src.type)
    <3>1. f \in 1 .. Len(d) \div src.channels BY <1>1, <1>2, <1>3
    <3>2. /\ Len(FrameRead(d, src, f)) = src.channels
          /\ \A i \in 1 .. src.channels : FrameRead(d, src, f)[i] = read_sample(d[(f - 1) * src.channels + i], src.type)
      BY <3>1, FrameIsRead
    <3>3. c \in 1 .. src.channels /\ (f - 1) * src.channels + c = k BY <1>2, <2>1
    <3>4. FrameRead(d, src, f)[c] = read_sample(d[(f - 1) * src.channels + c], src.type) BY <3>2, <3>3
    <3>5. FrameRead(d, src, f)[c] = read_sample(d[k], src.type) BY <3>3, <3>4, Zenon
    <3> QED BY <1>2, <3>2, <3>5, Zenon
  <2>3. fs[f][c] = remap_channel(fr, ch, c) BY <1>5, <2>2
  <2>4. remap_channel(fr, ch, c) = fr[c] BY <2>2 DEF remap_channel
  <2>5. e[k] = write_sample(read_sample(d[k], src.type), src.type) BY <1>7, <2>1, <2>2, <2>3, <2>4
  <2> QED BY <1>1, <2>5, SampleReturns
<1>9. e = d
  <2>1. d = [k \in 1 .. len |-> d[k]] BY <1>1
  <2>2. e = [k \in 1 .. len |-> e[k]] BY <1>7
  <2> QED BY <1>8, <2>1, <2>2
<1> QED BY <1>2, <1>9 DEF e, fs

-----------------------------------------------------------------------------
\* Files.  The chunk of a kind that was read last, while the first n - 1 have been read.
IsFormat(f) == f.type \in Types /\ f.channels \in Nat /\ f.rate \in Nat
GoodChunk(c) ==
    c.id # "other" => /\ Len(c.samples) = c.size
                      /\ c.size <= (IF c.id = "fmt" THEN MaxFmtSize ELSE MaxDataSize) /\ (c.id = "fmt" => c.size > 0)
LastRead(id, i) == i \in 1 .. next - 1 /\ file.chunks[i].id = id /\ \A j \in i + 1 .. next - 1 : file.chunks[j].id # id
NoneRead(id) == \A i \in 1 .. next - 1 : file.chunks[i].id # id

Reading ==
    /\ next > 1 => file.riff
    /\ \A i \in 1 .. next - 1 : GoodChunk(file.chunks[i])
    /\ \/ NoneRead("fmt") /\ format = Nothing
       \/ \E i \in 1 .. next - 1 : LastRead("fmt", i) /\ format = file.chunks[i].fmt
    /\ \/ NoneRead("data") /\ data = <<>>
       \/ \E i \in 1 .. next - 1 : LastRead("data", i) /\ data = file.chunks[i].samples

Sound == IsFormat(format) /\ data \in Seq(SamplesOf(format.type))
Loaded ==
    /\ WellFormed /\ data = file.chunks[LastOf("data")].samples /\ Sound
    /\ format.channels \in 1 .. MaxChannels /\ format.rate # 0 /\ Len(data) % format.channels = 0
Buffered ==
    /\ checked_type(block.type) /\ block.type = format.type /\ IsFormat(format)
    /\ block = [type |-> block.type, samples |-> block.samples, used |-> block.used]
    /\ block.samples \in Seq(SamplesOf(block.type)) /\ block.used \in 0 .. Len(block.samples)

\* What is read so far is what the last chunks of a file that is good so far hold; what was loaded,
\* converted or put into a buffer has samples of its type.
FilesInv ==
    /\ status \in {"loading", "loaded", "error", "buffered", "converted", "refused"}
    /\ IsFile(file) /\ next \in 1 .. Len(file.chunks) + 1
    /\ status = "loading" => Reading
    /\ status = "error" => ~WellFormed
    /\ status = "loaded" => Loaded
    /\ status = "buffered" => Buffered
    /\ status = "converted" => Sound

LEMMA LastIs ==
    ASSUME NEW id, NEW i, LastIn(file.chunks, id, i), IsFile(file) PROVE LastOf(id) = i /\ i # 0
<1>1. i \in DOMAIN file.chunks /\ DOMAIN file.chunks = 1 .. Len(file.chunks) /\ Len(file.chunks) \in Nat
  BY DEF LastIn, IsFile
<1>2. ASSUME NEW j \in DOMAIN file.chunks, LastIn(file.chunks, id, j) PROVE j = i
  <2>1. \A k \in j + 1 .. Len(file.chunks) : file.chunks[k].id # id BY <1>2 DEF LastIn
  <2>2. \A k \in i + 1 .. Len(file.chunks) : file.chunks[k].id # id BY DEF LastIn
  <2>3. file.chunks[i].id = id /\ file.chunks[j].id = id BY <1>2 DEF LastIn
  <2>4. ~(i < j) BY <1>1, <1>2, <2>2, <2>3
  <2>5. ~(j < i) BY <1>1, <1>2, <2>1, <2>3
  <2> QED BY <1>1, <1>2, <2>4, <2>5
<1>3. LastOf(id) = CHOOSE j \in DOMAIN file.chunks : LastIn(file.chunks, id, j) BY <1>1 DEF LastOf
<1>4. LastOf(id) = i BY <1>1, <1>2, <1>3
<1> QED BY <1>1, <1>4

LEMMA NoLast ==
    ASSUME NEW id, \A i \in DOMAIN file.chunks : file.chunks[i].id # id PROVE LastOf(id) = 0
<1>1. ~ \E i \in DOMAIN file.chunks : LastIn(file.chunks, id, i) BY DEF LastIn
<1> QED BY <1>1 DEF LastOf

LEMMA GoodFile == WellFormed => \A i \in DOMAIN file.chunks : GoodChunk(file.chunks[i])
BY DEF WellFormed, GoodChunk

LEMMA FilesStart == FilesInit => FilesInv
<1> SUFFICES ASSUME FilesInit PROVE FilesInv OBVIOUS
<1>1. IsFile(file) /\ next = 1 /\ format = Nothing /\ data = <<>> /\ status = "loading" BY FilesAssumption DEF FilesInit
<1>2. next \in 1 .. Len(file.chunks) + 1 BY <1>1 DEF IsFile
<1>3. NoneRead("fmt") /\ NoneRead("data") BY <1>1 DEF NoneRead
<1>4. Reading BY <1>1, <1>3 DEF Reading
<1> QED BY <1>1, <1>2, <1>4 DEF FilesInv

LEMMA HeaderStep == FilesInv /\ load_header => FilesInv'
<1> SUFFICES ASSUME FilesInv, load_header PROVE FilesInv' OBVIOUS
<1>1. ~file.riff /\ status' = "error" /\ UNCHANGED <<file, next>> BY DEF load_header
<1>2. ~WellFormed' BY <1>1 DEF WellFormed
<1>3. IsFile(file)' /\ (next \in 1 .. Len(file.chunks) + 1)' BY <1>1 DEF FilesInv
<1> QED BY <1>1, <1>2, <1>3 DEF FilesInv

LEMMA ChunkStep == FilesInv /\ load_chunk => FilesInv'
<1> SUFFICES ASSUME FilesInv, load_chunk PROVE FilesInv' OBVIOUS
<1>1. /\ status = "loading" /\ file.riff /\ next <= Len(file.chunks) /\ next' = next + 1 /\ file' = file
      /\ Reading /\ IsFile(file) /\ next \in 1 .. Len(file.chunks) + 1
  BY DEF load_chunk, FilesInv
<1>2. PICK n \in Nat : n = Len(file.chunks) /\ DOMAIN file.chunks = 1 .. n BY <1>1 DEF IsFile
<1>3. next \in 1 .. n /\ next' \in 1 .. n + 1 /\ next' = next + 1 /\ next \in Nat /\ next' \in Nat BY <1>1, <1>2
<1>4. PICK c : c = file.chunks[next] OBVIOUS
<1>5. c.id \in {"fmt", "data", "other"} /\ c.size \in Int /\ Len(c.samples) \in Nat
  BY <1>1, <1>2, <1>3, <1>4 DEF IsFile
<1>6. /\ c.id = "fmt" => load_format_chunk(c)
      /\ c.id = "data" => load_data_chunk(c)
      /\ c.id = "other" => UNCHANGED <<format, data, status>>
  BY <1>4, <1>5 DEF load_chunk
<1>7. IsFile(file') /\ next' \in 1 .. Len(file'.chunks) + 1 BY <1>1, <1>2, <1>3
<1>8. CASE GoodChunk(c)
  <2>1. status' = status
    <3>1. CASE c.id = "fmt" BY <1>5, <1>6, <1>8, <3>1, Halves DEF load_format_chunk, GoodChunk
    <3>2. CASE c.id = "data" BY <1>5, <1>6, <1>8, <3>2, Halves DEF load_data_chunk, GoodChunk
    <3>3. CASE c.id = "other" BY <1>6, <3>3
    <3> QED BY <1>5, <3>1, <3>2, <3>3
  <2>2. /\ c.id = "fmt" => format' = c.fmt
        /\ c.id # "fmt" => format' = format
        /\ c.id = "data" => data' = c.samples
        /\ c.id # "data" => data' = data
    <3>1. CASE c.id = "fmt" BY <1>5, <1>6, <1>8, <3>1, Halves DEF load_format_chunk, GoodChunk
    <3>2. CASE c.id = "data" BY <1>5, <1>6, <1>8, <3>2, Halves DEF load_data_chunk, GoodChunk
    <3>3. CASE c.id = "other" BY <1>6, <3>3
    <3> QED BY <1>5, <3>1, <3>2, <3>3
  <2>3. \A i \in 1 .. next : GoodChunk(file.chunks[i])
    <3>1. \A i \in 1 .. next : i = next \/ i \in 1 .. next - 1 BY <1>3
    <3> QED BY <1>1, <1>4, <1>8, <3>1 DEF Reading
  <2> PICK k \in Nat : k = next BY <1>3
  <2>4. \A id : c.id = id => LastRead(id, k)'
    <3>1. k \in 1 .. next' - 1 /\ \A j \in k + 1 .. next' - 1 : FALSE BY <1>3
    <3> QED BY <1>1, <1>4, <3>1 DEF LastRead
  <2>5. ASSUME NEW id, c.id # id, NEW i \in 1 .. next - 1, LastRead(id, i) PROVE LastRead(id, i)'
    <3>1. \A j \in i + 1 .. next : j = next \/ j \in i + 1 .. next - 1 BY <1>3
    <3>2. i \in 1 .. next BY <1>3
    <3> QED BY <1>1, <1>3, <1>4, <2>5, <3>1, <3>2 DEF LastRead
  <2>6. ASSUME NEW id, c.id # id, NoneRead(id) PROVE NoneRead(id)'
    <3>1. \A j \in 1 .. next : j = next \/ j \in 1 .. next - 1 BY <1>3
    <3> QED BY <1>1, <1>3, <1>4, <2>6, <3>1 DEF NoneRead
  <2>7. \A i \in 1 .. next - 1 : i \in 1 .. next' - 1 BY <1>3
  <2>8. k \in 1 .. next' - 1 BY <1>3
  <2>9. (\/ NoneRead("fmt") /\ format = Nothing
         \/ \E i \in 1 .. next - 1 : LastRead("fmt", i) /\ format = file.chunks[i].fmt)'
    <3>1. CASE c.id = "fmt"
      <4>1. LastRead("fmt", k)' /\ format' = file'.chunks[k].fmt BY <1>1, <1>4, <2>2, <2>4, <3>1
      <4> QED BY <2>8, <4>1
    <3>2. CASE c.id # "fmt" /\ NoneRead("fmt") /\ format = Nothing BY <2>2, <2>6, <3>2
    <3>3. CASE c.id # "fmt" /\ \E i \in 1 .. next - 1 : LastRead("fmt", i) /\ format = file.chunks[i].fmt
      BY <1>1, <2>2, <2>5, <2>7, <3>3
    <3> QED BY <1>1, <3>1, <3>2, <3>3 DEF Reading
  <2>10. (\/ NoneRead("data") /\ data = <<>>
          \/ \E i \in 1 .. next - 1 : LastRead("data", i) /\ data = file.chunks[i].samples)'
    <3>1. CASE c.id = "data"
      <4>1. LastRead("data", k)' /\ data' = file'.chunks[k].samples BY <1>1, <1>4, <2>2, <2>4, <3>1
      <4> QED BY <2>8, <4>1
    <3>2. CASE c.id # "data" /\ NoneRead("data") /\ data = <<>> BY <2>2, <2>6, <3>2
    <3>3. CASE c.id # "data" /\ \E i \in 1 .. next - 1 : LastRead("data", i) /\ data = file.chunks[i].samples
      BY <1>1, <2>2, <2>5, <2>7, <3>3
    <3> QED BY <1>1, <3>1, <3>2, <3>3 DEF Reading
  <2>11. (next > 1 => file.riff)' /\ (\A i \in 1 .. next - 1 : GoodChunk(file.chunks[i]))'
    BY <1>1, <1>3, <2>3
  <2>12. Reading' BY <2>9, <2>10, <2>11 DEF Reading
  <2> QED BY <1>1, <1>7, <2>1, <2>12 DEF FilesInv
<1>9. CASE ~GoodChunk(c)
  <2>1. ~WellFormed BY <1>2, <1>3, <1>4, <1>9, GoodFile
  <2>2. ~WellFormed' BY <1>1, <2>1 DEF WellFormed, LastOf
  <2>3. status' = "error"
    <3>1. CASE c.id = "fmt" BY <1>5, <1>6, <1>9, <3>1, Halves DEF load_format_chunk, GoodChunk
    <3>2. CASE c.id = "data" BY <1>5, <1>6, <1>9, <3>2, Halves DEF load_data_chunk, GoodChunk
    <3>3. CASE c.id = "other" BY <1>9, <3>3 DEF GoodChunk
    <3> QED BY <1>5, <3>1, <3>2, <3>3
  <2> QED BY <1>7, <2>2, <2>3 DEF FilesInv
<1> QED BY <1>8, <1>9

\* The end of a file: what was read is what the whole file holds.
LEMMA ReadAll ==
    ASSUME FilesInv, Reading, next > Len(file.chunks)
    PROVE  /\ \A i \in DOMAIN file.chunks : GoodChunk(file.chunks[i])
           /\ \A id, i : LastRead(id, i) => LastIn(file.chunks, id, i)
           /\ \A id : NoneRead(id) => LastOf(id) = 0
<1>1. PICK n \in Nat : n = Len(file.chunks) /\ DOMAIN file.chunks = 1 .. n BY DEF FilesInv, IsFile
<1>2. next \in 1 .. n + 1 /\ next > n BY <1>1 DEF FilesInv
<1>3. next = n + 1 BY <1>1, <1>2
<1>4. 1 .. next - 1 = 1 .. n /\ \A i : i + 1 .. next - 1 = i + 1 .. n BY <1>1, <1>3
<1>5. \A id : NoneRead(id) => LastOf(id) = 0 BY <1>1, <1>4, NoLast DEF NoneRead
<1>6. \A id, i : LastRead(id, i) => LastIn(file.chunks, id, i) BY <1>1, <1>4 DEF LastRead, LastIn
<1> QED BY <1>1, <1>4, <1>5, <1>6 DEF Reading

LEMMA WavTypes ==
    ASSUME NEW f, NEW size, validate_wav_format(f, size)
    PROVE  wav_type(f) \in Types
BY DEF wav_type, Types

LEMMA FileEndStep == FilesInv /\ load_end => FilesInv'
<1> SUFFICES ASSUME FilesInv, load_end PROVE FilesInv' OBVIOUS
<1>1. /\ status = "loading" /\ file.riff /\ next > Len(file.chunks) /\ UNCHANGED <<file, next, data>>
      /\ Reading /\ IsFile(file)
  BY DEF load_end, FilesInv
<1>2. /\ \A i \in DOMAIN file.chunks : GoodChunk(file.chunks[i])
      /\ \A id, i : LastRead(id, i) => LastIn(file.chunks, id, i)
      /\ \A id : NoneRead(id) => LastOf(id) = 0
  BY <1>1, ReadAll
<1>3. IsFile(file)' /\ (next \in 1 .. Len(file.chunks) + 1)' BY <1>1 DEF FilesInv
<1>4. WellFormed' <=> WellFormed BY <1>1 DEF WellFormed, LastOf
<1>5. CASE NoneRead("fmt") /\ format = Nothing
  <2>1. LastOf("fmt") = 0 BY <1>2, <1>5
  <2>2. ~WellFormed BY <2>1 DEF WellFormed
  <2>3. status' = "error" BY <1>5 DEF load_end
  <2> QED BY <1>3, <1>4, <2>2, <2>3 DEF FilesInv
<1>6. CASE NoneRead("data") /\ data = <<>>
  <2>1. LastOf("data") = 0 BY <1>2, <1>6
  <2>2. ~WellFormed BY <2>1 DEF WellFormed
  <2>3. status' = "error" BY <1>6 DEF load_end
  <2> QED BY <1>3, <1>4, <2>2, <2>3 DEF FilesInv
<1>7. ASSUME NEW i \in 1 .. next - 1, LastRead("fmt", i), format = file.chunks[i].fmt,
             NEW j \in 1 .. next - 1, LastRead("data", j), data = file.chunks[j].samples
      PROVE  FilesInv'
  <2>1. LastIn(file.chunks, "fmt", i) /\ LastIn(file.chunks, "data", j) BY <1>2, <1>7
  <2>2. LastOf("fmt") = i /\ LastOf("data") = j /\ i # 0 /\ j # 0 BY <1>1, <2>1, LastIs
  <2>3. i \in DOMAIN file.chunks /\ file.chunks[i].id = "fmt" /\ j \in DOMAIN file.chunks /\ file.chunks[j].id = "data"
    BY <2>1 DEF LastIn
  <2>4. /\ format \in WavFormats /\ data \in Seq(SamplesOf(wav_type(format)))
        /\ file.tail \in {"clean", "partial"} /\ file.chunks[j].size \in Int
    BY <1>1, <1>7, <2>1, <2>3 DEF IsFile
  <2>5. Len(data) = file.chunks[j].size BY <1>2, <1>7, <2>3 DEF GoodChunk
  <2>6. format # Nothing BY <2>4, FilesAssumption
  <2>7. data = <<>> <=> ~(file.chunks[j].size > 0) BY <2>4, <2>5
  <2>8. WellFormed <=> file.tail = "clean" /\ data # <<>> /\ validate_wav_format(format, Len(data))
    <3>1. \A k \in DOMAIN file.chunks :
             LET c == file.chunks[k]
             IN  c.id # "other" => Len(c.samples) = c.size
                 /\ c.size <= (IF c.id = "fmt" THEN MaxFmtSize ELSE MaxDataSize) /\ (c.id = "fmt" => c.size > 0)
      BY <1>2 DEF GoodChunk
    <3> QED BY <1>1, <1>7, <2>2, <2>5, <2>7, <3>1 DEF WellFormed
  <2>9. CASE WellFormed
    <3>1. /\ status' = "loaded"
          /\ format' = [type |-> wav_type(format), channels |-> format.channels, rate |-> format.rate]
      BY <2>4, <2>6, <2>8, <2>9 DEF load_end
    <3>2. format'.type = wav_type(format) /\ format'.channels = format.channels /\ format'.rate = format.rate BY <3>1
    <3>3. /\ format.channels \in 1 .. MaxChannels /\ format.rate \in 1 .. MaxRate /\ Len(data) % format.channels = 0
          /\ wav_type(format) \in Types
      BY <2>8, <2>9, WavTypes DEF validate_wav_format
    <3>4. IsFormat(format') BY <3>2, <3>3, Halves DEF IsFormat
    <3>5. Sound' BY <1>1, <2>4, <3>2, <3>4 DEF Sound
    <3>6. LastOf("data")' = LastOf("data") BY <1>1 DEF LastOf
    <3>7. format.rate # 0 BY <3>3, Halves
    <3>8. Loaded' BY <1>1, <1>4, <1>7, <2>2, <2>9, <3>2, <3>3, <3>5, <3>6, <3>7 DEF Loaded
    <3> QED BY <1>3, <3>1, <3>8 DEF FilesInv
  <2>10. CASE ~WellFormed
    <3>1. status' = "error" BY <2>4, <2>8, <2>10 DEF load_end
    <3> QED BY <1>3, <1>4, <2>10, <3>1 DEF FilesInv
  <2> QED BY <2>9, <2>10
<1> QED BY <1>1, <1>5, <1>6, <1>7 DEF Reading

\* What is converted has samples of the format it is converted to.
LEMMA ConvertedSound ==
    ASSUME Loaded, NEW target \in Targets, format.rate = target.rate \/ 0 \notin {format.rate, target.rate}
    PROVE  IsFormat(target) /\ Converted(target) \in Seq(SamplesOf(target.type))
<1>1. IsFormat(target) BY FilesAssumption DEF IsFormat
<1>2. format.type \in Types /\ format.channels \in Nat \ {0} /\ format.rate \in Nat /\ data \in Seq(SamplesOf(format.type))
  BY Halves DEF Loaded, Sound, IsFormat
<1>3. PICK ch \in Nat : ch = target.channels BY <1>1 DEF IsFormat
<1>4. PICK fs \in Seq([1 .. ch -> Rationals]) : fs = decode_frames(data, format, target.channels) BY <1>2, <1>3, Decoded
<1>5. CASE format.rate = target.rate
  <2>1. Converted(target) = encode_frames(fs, ch, target.type) BY <1>3, <1>4, <1>5 DEF Converted
  <2> QED BY <1>1, <2>1, Encoded DEF IsFormat
<1>6. CASE format.rate # target.rate
  <2>1. PICK src \in Nat \ {0}, dst \in Nat \ {0} : src = format.rate /\ dst = target.rate BY <1>1, <1>2, <1>6 DEF IsFormat
  <2>2. Converted(target) = encode_frames(convert_rate(fs, src, dst), ch, target.type)
    BY <1>3, <1>4, <1>6, <2>1 DEF Converted
  <2>3. convert_rate(fs, src, dst) \in Seq([1 .. ch -> Rationals]) BY RateConverted
  <2> QED BY <1>1, <2>2, <2>3, Encoded DEF IsFormat
<1> QED BY <1>1, <1>5, <1>6

LEMMA ResampleStep == ASSUME FilesInv, NEW target \in Targets, resample(target) PROVE FilesInv'
<1>1. status = "loaded" /\ UNCHANGED <<file, next>> /\ Loaded BY DEF resample, FilesInv
<1>2. IsFile(file)' /\ (next \in 1 .. Len(file.chunks) + 1)' BY <1>1 DEF FilesInv
<1>3. CASE status' = "refused" BY <1>2, <1>3 DEF FilesInv
<1>4. CASE status' # "refused"
  <2>1. /\ data' = Converted(target) /\ format' = target /\ status' = "converted"
        /\ ~(format.rate # target.rate /\ 0 \in {format.rate, target.rate})
    BY <1>4 DEF resample
  <2>2. Sound' BY <1>1, <2>1, ConvertedSound DEF Sound
  <2> QED BY <1>2, <2>1, <2>2 DEF FilesInv
<1> QED BY <1>3, <1>4

LEMMA SaveStep == FilesInv /\ save => FilesInv'
<1> SUFFICES ASSUME FilesInv, save PROVE FilesInv' OBVIOUS
<1>1. status = "converted" /\ Sound /\ format.type \in {"uchar", "short", "float"} BY DEF save, FilesInv
<1> DEFINE fmt == [tag |-> IF format.type = "float" THEN 3 ELSE 1,
                   channels |-> format.channels, rate |-> format.rate,
                   bits |-> CASE format.type = "uchar" -> 8
                              [] format.type = "short" -> 16
                              [] format.type = "float" -> 32]
           fmtChunk == [id |-> "fmt", size |-> 1, samples |-> <<0>>, fmt |-> fmt]
           dataChunk == [id |-> "data", size |-> Len(data), samples |-> data, fmt |-> Nothing]
<1>2. fmt \in WavFormats
  <2>1. format.channels \in Int /\ format.rate \in Int BY <1>1 DEF Sound, IsFormat
  <2> QED BY <1>1, <2>1 DEF WavFormats
<1>3. wav_type(fmt) = format.type BY <1>1 DEF wav_type
<1>4. PICK c \in {fmtChunk}, d \in {dataChunk} : c = fmtChunk /\ d = dataChunk OBVIOUS
<1>5. /\ c.id = "fmt" /\ c.size = 1 /\ c.samples = <<0>> /\ c.fmt = fmt
      /\ d.id = "data" /\ d.size = Len(data) /\ d.samples = data
  BY <1>4
<1>6. PICK s : s = <<c, d>> OBVIOUS
<1>7. Len(s) = 2 /\ DOMAIN s = 1 .. 2 /\ s[1] = c /\ s[2] = d BY <1>6
<1>8. file' = [riff |-> TRUE, tail |-> "clean", chunks |-> s] BY <1>4, <1>6 DEF save
<1>9. file'.riff = TRUE /\ file'.tail = "clean" /\ file'.chunks = s BY <1>8
<1>10. next' = 1 /\ format' = Nothing /\ data' = <<>> /\ status' = "loading" BY DEF save
<1> HIDE DEF fmt, fmtChunk, dataChunk
<1>11. IsFile(file')
  <2>1. data \in Seq(SamplesOf(wav_type(c.fmt))) /\ Len(data) \in Nat BY <1>1, <1>3, <1>5 DEF Sound
  <2>2. /\ c.id \in {"fmt", "data", "other"} /\ c.size \in Int /\ Len(c.samples) \in Nat /\ c.fmt \in WavFormats
        /\ d.id \in {"fmt", "data", "other"} /\ d.size \in Int /\ Len(d.samples) \in Nat
        /\ c.id # "data" /\ d.id # "fmt" /\ d.samples = data
    BY <1>2, <1>5, <2>1
  <2>3. ASSUME NEW j \in 1 .. 2, LastIn(s, "fmt", j) PROVE s[j] = c
    <3>1. s[j].id = "fmt" BY <2>3 DEF LastIn
    <3>2. j = 1 \/ j = 2 OBVIOUS
    <3> QED BY <1>7, <2>2, <3>1, <3>2
  <2>4. \A i \in 1 .. 2 : s[i] = c \/ s[i] = d BY <1>7
  <2>5. ASSUME NEW i \in 1 .. 2
        PROVE  /\ s[i].id \in {"fmt", "data", "other"} /\ s[i].size \in Int /\ Len(s[i].samples) \in Nat
               /\ (s[i].id = "fmt" => s[i].fmt \in WavFormats)
               /\ s[i].id = "data" => \A j \in 1 .. 2 : LastIn(s, "fmt", j) =>
                                         s[i].samples \in Seq(SamplesOf(wav_type(s[j].fmt)))
    BY <2>1, <2>2, <2>3, <2>4
  <2>6. /\ file'.riff \in BOOLEAN /\ file'.tail \in {"clean", "partial"}
        /\ Len(file'.chunks) \in Nat /\ DOMAIN file'.chunks = 1 .. Len(file'.chunks)
    <3>1. file'.riff \in BOOLEAN /\ file'.tail \in {"clean", "partial"} BY <1>9
    <3>2. Len(s) \in Nat /\ DOMAIN s = 1 .. Len(s) BY <1>7
    <3> QED BY <1>9, <3>1, <3>2
  <2>7. \A i \in DOMAIN file'.chunks :
          /\ s[i].id \in {"fmt", "data", "other"} /\ s[i].size \in Int /\ Len(s[i].samples) \in Nat
          /\ (s[i].id = "fmt" => s[i].fmt \in WavFormats)
          /\ s[i].id = "data" => \A j \in DOMAIN file'.chunks : LastIn(s, "fmt", j) =>
                                    s[i].samples \in Seq(SamplesOf(wav_type(s[j].fmt)))
    BY <1>7, <1>9, <2>5
  <2> QED BY <1>9, <2>6, <2>7, Zenon DEF IsFile
<1>12. next' \in 1 .. Len(file'.chunks) + 1 BY <1>7, <1>9, <1>10
<1>13. NoneRead("fmt")' /\ NoneRead("data")' BY <1>10 DEF NoneRead
<1>14. Reading' BY <1>10, <1>13 DEF Reading
<1> QED BY <1>10, <1>11, <1>12, <1>14 DEF FilesInv

LEMMA BufferMade == FilesInv /\ (load_file_to_buffer \/ from_buffer) => FilesInv'
<1> SUFFICES ASSUME FilesInv, load_file_to_buffer \/ from_buffer PROVE FilesInv' OBVIOUS
<1>1. IsFile(file)' /\ (next \in 1 .. Len(file.chunks) + 1)' BY DEF FilesInv, load_file_to_buffer, from_buffer
<1>2. CASE load_file_to_buffer
  <2>1. status = "loaded" /\ Loaded /\ UNCHANGED <<format, data>> BY <1>2 DEF load_file_to_buffer, FilesInv
  <2>2. CASE checked_type(format.type)
    <3>1. status' = "buffered" /\ block' = [type |-> format.type, samples |-> data, used |-> Len(data)]
      BY <1>2, <2>2 DEF load_file_to_buffer
    <3>2. block'.type = format.type /\ block'.samples = data /\ block'.used = Len(data) BY <3>1
    <3>3. data \in Seq(SamplesOf(format.type)) /\ Len(data) \in 0 .. Len(data) /\ IsFormat(format)
      BY <2>1 DEF Loaded, Sound
    <3>4. Buffered' BY <2>1, <2>2, <3>1, <3>2, <3>3 DEF Buffered
    <3> QED BY <1>1, <3>1, <3>4 DEF FilesInv
  <2>3. CASE ~checked_type(format.type)
    <3>1. status' = "refused" BY <1>2, <2>3 DEF load_file_to_buffer
    <3> QED BY <1>1, <3>1 DEF FilesInv
  <2> QED BY <2>2, <2>3
<1>3. CASE from_buffer
  <2>1. Buffered /\ data' = block.samples /\ status' = "converted" /\ format' = format BY <1>3 DEF from_buffer, FilesInv
  <2>2. Sound' BY <2>1 DEF Sound, Buffered
  <2> QED BY <1>1, <2>1, <2>2 DEF FilesInv
<1> QED BY <1>2, <1>3

\* A buffer whose samples and use are changed like this is one still.
LEMMA BlockChanged ==
    ASSUME FilesInv, NEW b, change_buffer(b), b = [type |-> block.type, samples |-> b.samples, used |-> b.used],
           b.samples \in Seq(SamplesOf(block.type)), b.used \in 0 .. Len(b.samples)
    PROVE  FilesInv'
<1>1. status = "buffered" /\ Buffered /\ block' = b /\ UNCHANGED <<file, next, format, data, status>>
  BY DEF change_buffer, FilesInv
<1>2. b.type = block.type OBVIOUS
<1>3. Buffered' BY <1>1, <1>2 DEF Buffered
<1> QED BY <1>1, <1>3 DEF FilesInv

\* A block with other samples.
LEMMA BlockWith ==
    ASSUME NEW t, NEW x, NEW u, NEW b, b = [type |-> t, samples |-> x, used |-> u], NEW s, NEW v
    PROVE  /\ [b EXCEPT !.samples = s] = [type |-> t, samples |-> s, used |-> u]
           /\ [b EXCEPT !.samples = s, !.used = v] = [type |-> t, samples |-> s, used |-> v]
<1>1. [b EXCEPT !.samples = s] \in [type : {t}, samples : {s}, used : {u}] OBVIOUS
<1>2. [b EXCEPT !.samples = s, !.used = v] \in [type : {t}, samples : {s}, used : {v}] OBVIOUS
<1>3. [b EXCEPT !.samples = s] = [type |-> t, samples |-> s, used |-> u] BY <1>1
<1>4. [b EXCEPT !.samples = s, !.used = v] = [type |-> t, samples |-> s, used |-> v]
  <2>1. PICK c : c = [b EXCEPT !.samples = s, !.used = v] OBVIOUS
  <2>2. c \in [type : {t}, samples : {s}, used : {v}] BY <1>2, <2>1, Zenon
  <2>3. c = [type |-> t, samples |-> s, used |-> v] BY <2>2
  <2> QED BY <2>1, <2>3, Zenon
<1> QED BY <1>3, <1>4

\* The block, its samples and its room.
LEMMA BlockIs ==
    ASSUME Buffered
    PROVE  \E n \in Nat : /\ DOMAIN block.samples = 1 .. n /\ n = Len(block.samples) /\ block.used \in 0 .. n
                          /\ \A i \in 1 .. n : block.samples[i] \in SamplesOf(block.type)
BY DEF Buffered

LEMMA ChangeStep == FilesInv /\ status = "buffered" /\ change_some => FilesInv'
<1> SUFFICES ASSUME FilesInv, status = "buffered", change_some PROVE FilesInv' OBVIOUS
<1>1. Buffered BY DEF FilesInv
<1>2. PICK t, x, u : t = block.type /\ x = block.samples /\ u = block.used /\ block = [type |-> t, samples |-> x, used |-> u]
  BY <1>1 DEF Buffered
<1>3. PICK n \in Nat : DOMAIN x = 1 .. n /\ n = Len(x) /\ u \in 0 .. n /\ \A i \in 1 .. n : x[i] \in SamplesOf(t)
  BY <1>1, <1>2, BlockIs
<1>4. checked_type(t) BY <1>1, <1>2 DEF Buffered
<1>5. ASSUME NEW s, s = [i \in 1 .. n |-> s[i]], \A i \in 1 .. n : s[i] \in SamplesOf(t),
             NEW v, v \in 0 .. n, change_buffer([type |-> t, samples |-> s, used |-> v])
      PROVE  FilesInv'
  <2>1. s \in Seq(SamplesOf(t)) /\ Len(s) = n BY <1>5, SequenceMade
  <2> DEFINE b == [type |-> t, samples |-> s, used |-> v]
  <2>2. b.type = t /\ b.samples = s /\ b.used = v OBVIOUS
  <2>3. b = [type |-> block.type, samples |-> b.samples, used |-> b.used] BY <1>2
  <2>4. change_buffer(b) BY <1>5
  <2> HIDE DEF b
  <2> QED BY <1>2, <1>5, <2>1, <2>2, <2>3, <2>4, BlockChanged
<1>6. ASSUME NEW begin \in 0 .. u, NEW k \in 0 .. u - begin, NEW m \in Multipliers, change_buffer(scale(block, begin, k, m))
      PROVE  FilesInv'
  <2> DEFINE s == [i \in 1 .. n |-> IF i \in begin + 1 .. begin + k THEN scale_sample(x[i], m, t) ELSE x[i]]
  <2>1. scale(block, begin, k, m) = [type |-> t, samples |-> s, used |-> u]
    <3>1. scale(block, begin, k, m)
             = [block EXCEPT !.samples = [i \in DOMAIN block.samples |->
                   IF i \in begin + 1 .. begin + k THEN scale_sample(block.samples[i], m, block.type) ELSE block.samples[i]]]
      BY DEF scale
    <3>2. [i \in DOMAIN block.samples |->
             IF i \in begin + 1 .. begin + k THEN scale_sample(block.samples[i], m, block.type) ELSE block.samples[i]] = s
      BY <1>2, <1>3
    <3> QED BY <1>2, <3>1, <3>2, BlockWith
  <2>2. m \in Nat \X (Nat \ {0}) BY FilesAssumption
  <2>3. \A i \in 1 .. n : scale_sample(x[i], m, t) \in SamplesOf(t) BY <1>3, <1>4, <2>2, ScaledKept
  <2>4. s = [i \in 1 .. n |-> s[i]] /\ \A i \in 1 .. n : s[i] \in SamplesOf(t) BY <1>3, <2>3
  <2>5. change_buffer([type |-> t, samples |-> s, used |-> u]) BY <1>6, <2>1
  <2> HIDE DEF s
  <2> QED BY <1>3, <1>5, <2>4, <2>5
<1>7. ASSUME NEW begin \in 0 .. u, NEW k \in 0 .. u - begin, NEW m \in Multipliers,
             change_buffer(mix(block, begin, copy(block), 0, k, m))
      PROVE  FilesInv'
  <2> DEFINE quiet == IF t = "float" THEN <<0, 1>> ELSE 0
             y == [i \in 1 .. n |-> IF i <= u THEN x[i] ELSE quiet]
             s == [i \in 1 .. n |-> IF i \in begin + 1 .. begin + k THEN mix_sample(x[i], y[0 + i - begin], m, t) ELSE x[i]]
  <2>1. copy(block) = [type |-> t, samples |-> y, used |-> u]
    <3>1. copy(block) = [block EXCEPT !.samples = [i \in DOMAIN block.samples |->
                           IF i <= block.used THEN block.samples[i] ELSE quiet]]
      BY <1>2 DEF copy
    <3> HIDE DEF quiet
    <3>2. [i \in DOMAIN block.samples |-> IF i <= block.used THEN block.samples[i] ELSE quiet] = y BY <1>2, <1>3
    <3> QED BY <1>2, <3>1, <3>2, BlockWith
  <2>2. copy(block).samples = y BY <2>1
  <2>3. mix(block, begin, copy(block), 0, k, m) = [type |-> t, samples |-> s, used |-> u]
    <3>1. mix(block, begin, copy(block), 0, k, m)
             = [block EXCEPT !.samples = [i \in DOMAIN block.samples |->
                   IF i \in begin + 1 .. begin + k
                   THEN mix_sample(block.samples[i], copy(block).samples[0 + i - begin], m, block.type)
                   ELSE block.samples[i]]]
      BY DEF mix
    <3> HIDE DEF y
    <3>2. [i \in DOMAIN block.samples |->
             IF i \in begin + 1 .. begin + k
             THEN mix_sample(block.samples[i], copy(block).samples[0 + i - begin], m, block.type) ELSE block.samples[i]] = s
      BY <1>2, <1>3, <2>2
    <3> QED BY <1>2, <3>1, <3>2, BlockWith
  <2>4. m \in Nat \X (Nat \ {0}) BY FilesAssumption
  <2>5. \A i \in 1 .. n : y[i] \in SamplesOf(t) BY <1>3, <1>4, SilenceKept
  <2>6. \A i \in 1 .. n : i \in begin + 1 .. begin + k => 0 + i - begin \in 1 .. n BY <1>3
  <2> HIDE DEF y
  <2>7. \A i \in 1 .. n : i \in begin + 1 .. begin + k => mix_sample(x[i], y[0 + i - begin], m, t) \in SamplesOf(t)
    BY <1>3, <1>4, <2>4, <2>5, <2>6, MixedKept
  <2>8. s = [i \in 1 .. n |-> s[i]] /\ \A i \in 1 .. n : s[i] \in SamplesOf(t) BY <1>3, <2>7
  <2>9. change_buffer([type |-> t, samples |-> s, used |-> u]) BY <1>7, <2>3
  <2> HIDE DEF s
  <2> QED BY <1>3, <1>5, <2>8, <2>9
<1>8. ASSUME NEW k \in 1 .. u, change_buffer(consume_block(block, k)) PROVE FilesInv'
  <2>1. CASE k = u
    <3>1. consume_block(block, k) = [type |-> t, samples |-> x, used |-> 0] BY <1>2, <2>1 DEF consume_block
    <3>2. change_buffer([type |-> t, samples |-> x, used |-> 0]) BY <1>8, <3>1
    <3>3. x = [i \in 1 .. n |-> x[i]] BY <1>1, <1>2, <1>3 DEF Buffered
    <3>4. 0 \in 0 .. n BY <1>3
    <3> QED BY <1>3, <1>5, <3>2, <3>3, <3>4
  <2>2. CASE k # u
    <3> DEFINE s == [i \in 1 .. n |-> IF i + k \in 1 .. n THEN x[i + k] ELSE x[i]]
    <3>1. consume_block(block, k) = [type |-> t, samples |-> s, used |-> u - k] BY <1>2, <1>3, <2>2 DEF consume_block
    <3>2. s = [i \in 1 .. n |-> s[i]] /\ \A i \in 1 .. n : s[i] \in SamplesOf(t) BY <1>3
    <3>3. change_buffer([type |-> t, samples |-> s, used |-> u - k]) BY <1>8, <3>1
    <3>4. u - k \in 0 .. n BY <1>3
    <3> HIDE DEF s
    <3> QED BY <1>5, <3>2, <3>3, <3>4
  <2> QED BY <2>1, <2>2
<1>9. ASSUME NEW k \in 1 .. n - u, change_buffer(add_silence_samples(block, k)) PROVE FilesInv'
  <2> DEFINE s == [i \in 1 .. n |-> IF i \in u + 1 .. u + k THEN silence(t) ELSE x[i]]
  <2>1. add_silence_samples(block, k) = [type |-> t, samples |-> s, used |-> u + k]
    <3>1. add_silence_samples(block, k)
             = [block EXCEPT !.samples = [i \in DOMAIN block.samples |->
                                            IF i \in block.used + 1 .. block.used + k THEN silence(block.type)
                                            ELSE block.samples[i]],
                             !.used = block.used + k]
      BY DEF add_silence_samples
    <3>2. [i \in DOMAIN block.samples |->
             IF i \in block.used + 1 .. block.used + k THEN silence(block.type) ELSE block.samples[i]] = s
      BY <1>2, <1>3
    <3> QED BY <1>2, <3>1, <3>2, BlockWith
  <2>2. s = [i \in 1 .. n |-> s[i]] /\ \A i \in 1 .. n : s[i] \in SamplesOf(t) BY <1>3, <1>4, SilenceKept
  <2>3. change_buffer([type |-> t, samples |-> s, used |-> u + k]) BY <1>9, <2>1
  <2>4. u + k \in 0 .. n BY <1>3
  <2> HIDE DEF s
  <2> QED BY <1>5, <2>2, <2>3, <2>4
<1> QED BY <1>2, <1>3, <1>6, <1>7, <1>8, <1>9 DEF change_some

\* What SoundKept says of samples, whatever the state.
LEMMA SamplesReturn ==
    /\ \A v \in -HalfChar .. HalfChar - 1 :
          /\ write_sample(read_sample(v, "char"), "char") = v
          /\ write_sample(read_sample(v + HalfChar, "uchar"), "uchar") = v + HalfChar
          /\ write_sample(read_sample(write_sample(read_sample(v, "char"), "short"), "short"), "char") = v
    /\ \A v \in -HalfShort .. HalfShort - 1 : write_sample(read_sample(v, "short"), "short") = v
<1>1. ASSUME NEW v \in -HalfChar .. HalfChar - 1
      PROVE  /\ write_sample(read_sample(v, "char"), "char") = v
             /\ write_sample(read_sample(v + HalfChar, "uchar"), "uchar") = v + HalfChar
  <2>1. v \in SamplesOf("char") /\ v + HalfChar \in SamplesOf("uchar") BY Halves, SampleRanges
  <2>2. "char" \in Types /\ "uchar" \in Types /\ Fits(v, "char") /\ Fits(v + HalfChar, "uchar") BY DEF Types, Fits
  <2> QED BY <2>1, <2>2, SampleReturns
<1>2. ASSUME NEW v \in -HalfShort .. HalfShort - 1 PROVE write_sample(read_sample(v, "short"), "short") = v
  <2>1. v \in SamplesOf("short") /\ "short" \in Types /\ Fits(v, "short") BY SampleRanges DEF Types, Fits
  <2> QED BY <2>1, SampleReturns
<1> QED BY <1>1, <1>2, SampleWidens

LEMMA LouderStays ==
    \A t \in {"char", "uchar"} : \A v \in lowest(t) .. highest(t) :
        /\ scale_sample(v, <<1, 1>>, t) = v
        /\ t = "char" => mix_sample(v, silence(t), <<1, 1>>, t) = v
        /\ \A w \in v .. highest(t), x \in lowest(t) .. highest(t), m \in Multipliers :
              /\ scale_sample(v, m, t) <= scale_sample(w, m, t)
              /\ mix_sample(v, x, m, t) <= mix_sample(w, x, m, t)
<1> TAKE t \in {"char", "uchar"}
<1> TAKE v \in lowest(t) .. highest(t)
<1>1. t \in Whole /\ lowest(t) \in Int /\ highest(t) \in Int /\ v \in Int BY WholeRanges DEF Whole
<1>2. scale_sample(v, <<1, 1>>, t) = v BY <1>1, ScaledByOne
<1>3. ASSUME t = "char" PROVE mix_sample(v, silence(t), <<1, 1>>, t) = v
  <2>1. silence(t) = 0 BY <1>3 DEF silence
  <2>2. <<1, 1>> \in Nat \X (Nat \ {0}) /\ 0 \in Int /\ v + 0 = v BY <1>1
  <2>3. mix_sample(v, 0, <<1, 1>>, t) = scale_sample(v + 0, <<1, 1>>, t) BY <1>1, <2>2, MixedIs
  <2> QED BY <1>2, <2>1, <2>2, <2>3
<1>4. ASSUME NEW w \in v .. highest(t), NEW x \in lowest(t) .. highest(t), NEW m \in Multipliers
      PROVE  scale_sample(v, m, t) <= scale_sample(w, m, t) /\ mix_sample(v, x, m, t) <= mix_sample(w, x, m, t)
  <2>1. m \in Nat \X (Nat \ {0}) BY FilesAssumption
  <2>2. w \in Int /\ x \in Int /\ v <= w /\ v + x \in Int /\ w + x \in Int /\ v + x <= w + x BY <1>1
  <2>3. scale_sample(v, m, t) <= scale_sample(w, m, t) BY <1>1, <2>1, <2>2, ScaledGrows
  <2>4. scale_sample(v + x, m, t) <= scale_sample(w + x, m, t) BY <1>1, <2>1, <2>2, ScaledGrows
  <2>5. mix_sample(v, x, m, t) = scale_sample(v + x, m, t) /\ mix_sample(w, x, m, t) = scale_sample(w + x, m, t)
    BY <1>1, <2>1, <2>2, MixedIs
  <2> QED BY <2>3, <2>4, <2>5
<1> QED BY <1>2, <1>3, <1>4

LEMMA ConversionKept ==
    ASSUME Loaded, NEW target \in Targets, target.rate # 0
    PROVE  LET from == decode_frames(data, format, target.channels)
               to == convert_rate(from, format.rate, target.rate)
           IN  /\ target.type = format.type /\ target.channels = format.channels
                      /\ target.rate = format.rate /\ target.type # "int24"
                      /\ (target.type = "float" => \A i \in DOMAIN data : data[i][1] \in -data[i][2] .. data[i][2])
                   => Converted(target) = data
               /\ 2 * (Len(to) * format.rate - Len(from) * target.rate) \in -format.rate .. 2 * format.rate
               /\ \A f \in DOMAIN to : \A c \in DOMAIN to[f] :
                     \E a, b \in DOMAIN from : Leq(from[a][c], to[f][c]) /\ Leq(to[f][c], from[b][c])
<1>1. IsFormat(target) BY FilesAssumption DEF IsFormat
<1>2. /\ format.type \in Types /\ format.channels \in Nat \ {0} /\ format.rate \in Nat \ {0}
      /\ data \in Seq(SamplesOf(format.type)) /\ Len(data) % format.channels = 0
  BY Halves DEF Loaded, Sound, IsFormat
<1>3. PICK ch \in Nat : ch = target.channels BY <1>1 DEF IsFormat
<1>4. PICK from \in Seq([1 .. ch -> Rationals]) : from = decode_frames(data, format, target.channels) BY <1>2, <1>3, Decoded
<1>5. PICK src \in Nat \ {0}, dst \in Nat \ {0} : src = format.rate /\ dst = target.rate BY <1>1, <1>2 DEF IsFormat
<1>6. PICK to : to = convert_rate(from, src, dst) OBVIOUS
<1>7. StaysWithin(to, from) /\ 2 * (Len(to) * src - Len(from) * dst) \in -src .. 2 * src BY <1>6, RateConverted
<1>8. ASSUME target.type = format.type, target.channels = format.channels, target.rate = format.rate, target.type # "int24",
             target.type = "float" => \A i \in DOMAIN data : data[i][1] \in -data[i][2] .. data[i][2]
      PROVE  Converted(target) = data
  <2>1. \A i \in DOMAIN data : Fits(data[i], format.type) BY <1>8 DEF Fits
  <2>2. Converted(target)
           = encode_frames(decode_frames(data, format, format.channels), format.channels, format.type)
    BY <1>8 DEF Converted
  <2> QED BY <1>2, <2>1, <2>2, FormatKept
<1> QED BY <1>4, <1>5, <1>6, <1>7, <1>8 DEF StaysWithin

LEMMA SoundFollows == FilesInv => SoundKept
<1> SUFFICES ASSUME FilesInv PROVE SoundKept OBVIOUS
<1>1. WavLoads
  <2>1. ASSUME status = "loaded"
        PROVE  /\ WellFormed /\ data = file.chunks[LastOf("data")].samples
               /\ Len(data) % format.channels = 0 /\ format.channels <= MaxChannels
    <3>1. Loaded BY <2>1 DEF FilesInv
    <3>2. format.channels <= MaxChannels BY <3>1, Halves DEF Loaded
    <3> QED BY <3>1, <3>2 DEF Loaded
  <2>2. status = "error" => ~WellFormed BY DEF FilesInv
  <2> QED BY <2>1, <2>2 DEF WavLoads
<1>2. ASSUME status = "buffered"
      PROVE  /\ block.used <= Len(block.samples)
             /\ block.type # "float" =>
                   \A i \in DOMAIN block.samples : block.samples[i] \in lowest(block.type) .. highest(block.type)
  <2>1. Buffered BY <1>2 DEF FilesInv
  <2>2. PICK n \in Nat : /\ DOMAIN block.samples = 1 .. n /\ n = Len(block.samples) /\ block.used \in 0 .. n
                         /\ \A i \in 1 .. n : block.samples[i] \in SamplesOf(block.type)
    BY <2>1, BlockIs
  <2>3. block.type # "float" => SamplesOf(block.type) = lowest(block.type) .. highest(block.type)
    BY <2>1, WholeRanges DEF Buffered, checked_type, Whole
  <2>4. block.used <= Len(block.samples) BY <2>2
  <2>5. \A i \in DOMAIN block.samples : block.samples[i] \in SamplesOf(block.type) BY <2>2, Zenon
  <2>6. block.type # "float" =>
           \A i \in DOMAIN block.samples : block.samples[i] \in lowest(block.type) .. highest(block.type)
    BY <2>3, <2>5, Zenon
  <2> QED BY <2>4, <2>6
<1>3. ASSUME status = "loaded" PROVE Loaded BY <1>3 DEF FilesInv
<1> QED BY <1>1, <1>2, <1>3, SamplesReturn, LouderStays, ConversionKept, Zenon DEF SoundKept

\* Sound is kept: a file loads exactly if it is well formed, with what its last chunks hold, and
\* loading, converting, mixing and saving it keep what SoundKept says of samples, durations and ranges.
THEOREM SoundIsKept == FilesSpec => []SoundKept
<1>1. FilesInv /\ [FilesNext]_fileVars => FilesInv'
  <2> SUFFICES ASSUME FilesInv, [FilesNext]_fileVars PROVE FilesInv' OBVIOUS
  <2>1. CASE load_header BY <2>1, HeaderStep
  <2>2. CASE load_chunk BY <2>2, ChunkStep
  <2>3. CASE load_end BY <2>3, FileEndStep
  <2>4. CASE save BY <2>4, SaveStep
  <2>5. CASE load_file_to_buffer \/ from_buffer BY <2>5, BufferMade
  <2>6. CASE status = "buffered" /\ change_some BY <2>6, ChangeStep
  <2>7. CASE \E target \in Targets : resample(target) BY <2>7, ResampleStep
  <2>8. CASE UNCHANGED fileVars
    <3>1. /\ file' = file /\ next' = next /\ format' = format /\ data' = data /\ status' = status
          /\ block' = block
      BY <2>8 DEF fileVars, mixVars
    <3> QED BY <3>1 DEF FilesInv, Reading, Loaded, Buffered, Sound, LastRead, NoneRead, WellFormed, LastOf
  <2> QED BY <2>1, <2>2, <2>3, <2>4, <2>5, <2>6, <2>7, <2>8 DEF FilesNext
<1> QED BY <1>1, FilesStart, SoundFollows, PTL DEF FilesSpec

=============================================================================
