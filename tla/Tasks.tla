------------------------------- MODULE Tasks -------------------------------
(***************************************************************************)
(* Coroutine tasks, single-shot futures and resume_on (util/task.hpp,      *)
(* future.hpp, resume_on.hpp, sync_wait.hpp).                              *)
(*                                                                         *)
(* A call drives a chain of coroutine frames: run_detached is level 0, the *)
(* task it awaits level 1, and so on down to the frame that awaits the     *)
(* future of an asynchronous operation.  Each frame is a task's body or a  *)
(* resume_on.  The chain runs on the calling thread until the future       *)
(* suspends it, then on the thread that completes the future, then on the  *)
(* executor.  What a body computes is left out: it passes on the outcome   *)
(* of what it awaited, or throws.                                          *)
(***************************************************************************)
EXTENDS Integers, Sequences, FiniteSets, FiniteSetsExt

CONSTANTS
    Calls,           \* calls of sync_wait
    Chains,          \* call -> the kinds of its frames, outermost first: "task" or "resume_on"
    Completers,      \* threads that may complete a call's promise (the io thread, whoever drops the connection)
    MaxCompletions   \* bound: completions attempted per call

ASSUME ChainAssumption ==
    /\ Chains \in [Calls -> Seq({"task", "resume_on"})] /\ \A c \in Calls : Chains[c] # <<>>
    /\ MaxCompletions \in Nat

VARIABLES
    at,          \* call -> where its chain runs: [pc, level, on, out]
    frame,       \* call -> level -> [state, continuation]
    awaited,     \* call -> the future the innermost frame awaits: [ready, continuation, out]
    result,      \* call -> run_detached's promise: [ready, out]
    executor,    \* the handles submitted to the executor, oldest first
    caller,      \* call -> what the calling thread does
    completed,   \* call -> the completions attempted, in order
    threw        \* call -> the levels whose body threw

taskVars == <<at, frame, awaited, result, executor, caller, completed, threw>>

Depth(c) == Len(Chains[c])
Levels(c) == 1 .. Depth(c)
NoOutcome == [from |-> 0, what |-> "none"]
Thrown(i) == [from |-> i, what |-> "error"]
NoCoroutine == -1

TasksInit ==
    /\ at = [c \in Calls |-> [pc |-> "none", level |-> 0, on |-> "none", out |-> NoOutcome]]
    /\ frame = [c \in Calls |-> [i \in Levels(c) |-> [state |-> "none", continuation |-> NoCoroutine]]]
    /\ awaited = [c \in Calls |-> [ready |-> FALSE, continuation |-> FALSE, out |-> NoOutcome]]
    /\ result = [c \in Calls |-> [ready |-> FALSE, out |-> NoOutcome]]
    /\ executor = <<>>
    /\ caller = [c \in Calls |-> "idle"]
    /\ completed = [c \in Calls |-> <<>>]
    /\ threw = [c \in Calls |-> {}]

\* A thread runs one thing at a time.
Free(t) == \A c \in Calls : at[c].on # t

Move(c, pc, level, on, out) ==
    at' = [at EXCEPT ![c] = [pc |-> pc, level |-> level, on |-> on, out |-> out]]

\* Level i awaits the task below it: await_suspend makes level i its continuation and starts it.
set_continuation(f, i) == [f EXCEPT ![i + 1] = [state |-> "started", continuation |-> i]]

\* ~task: the frame goes, and with it the tasks it still holds.
task_destroy(f, i) ==
    [j \in DOMAIN f |->
        IF j >= i /\ f[j].state # "none" THEN [f[j] EXCEPT !.state = "destroyed"] ELSE f[j]]

\* sync_wait: start() runs run_detached at once on the calling thread; it awaits the outermost task.
sync_wait(c) ==
    /\ caller[c] = "idle"
    /\ caller' = [caller EXCEPT ![c] = "starting"]
    /\ frame' = [frame EXCEPT ![c] = set_continuation(@, 0)]
    /\ Move(c, "body", 1, "caller", NoOutcome)
    /\ UNCHANGED <<awaited, result, executor, completed, threw>>

\* A body reaches its co_await: of a task, which then runs, or, innermost, of the future.
co_await(c) ==
    /\ at[c].pc = "body"
    /\ IF at[c].level < Depth(c)
       THEN /\ frame' = [frame EXCEPT ![c] = set_continuation(@, at[c].level)]
            /\ Move(c, "body", at[c].level + 1, at[c].on, NoOutcome)
       ELSE Move(c, "await", Depth(c), at[c].on, NoOutcome) /\ UNCHANGED frame
    /\ UNCHANGED <<awaited, result, executor, caller, completed, threw>>

\* Changed: it suspends without a look at ready.
await_suspend_Unchecked(c) ==
    /\ at[c].pc = "await"
    /\ Move(c, "suspended", Depth(c), "none", NoOutcome)
    /\ awaited' = [awaited EXCEPT ![c].continuation = TRUE]
    /\ UNCHANGED <<frame, result, executor, caller, completed, threw>>

\* future::await_suspend, under the state's mutex: a completed future does not suspend.
await_suspend(c) ==
    /\ at[c].pc = "await"
    /\ IF awaited[c].ready
       THEN Move(c, "resumed", Depth(c), at[c].on, awaited[c].out) /\ UNCHANGED awaited
       ELSE /\ Move(c, "suspended", Depth(c), "none", NoOutcome)
            /\ awaited' = [awaited EXCEPT ![c].continuation = TRUE]
    /\ UNCHANGED <<frame, result, executor, caller, completed, threw>>

\* promise_base::complete by thread t: the first completion is kept, whoever waits is resumed on t.
complete(c, t, what) ==
    /\ Free(t)
    /\ frame[c][Depth(c)].state # "none"            \* the operation was started
    /\ Len(completed[c]) < MaxCompletions
    /\ LET out == [from |-> Depth(c) + 1, what |-> what] IN
       /\ completed' = [completed EXCEPT ![c] = Append(@, out)]
       /\ IF awaited[c].ready
          THEN UNCHANGED <<at, awaited>>
          ELSE /\ awaited' = [awaited EXCEPT ![c] = [ready |-> TRUE, continuation |-> FALSE, out |-> out]]
               /\ IF awaited[c].continuation
                  THEN Move(c, "resumed", Depth(c), t, out)
                  ELSE UNCHANGED at
    /\ UNCHANGED <<frame, result, executor, caller, threw>>

\* Level i of call c is through with out: final_suspend goes on with its continuation, if it has one,
\* whose await_resume takes the outcome; a task's body drops the finished task there, a resume_on keeps
\* it in its frame.
final_suspend(c, i, out) ==
    LET k == frame[c][i].continuation
        f == [frame[c] EXCEPT ![i].state = "final"]
    IN  /\ frame' = [frame EXCEPT ![c] =
                        IF k > 0 /\ Chains[c][k] = "task" THEN task_destroy(f, i) ELSE f]
        /\ IF k = NoCoroutine
           THEN Move(c, "stopped", i, "none", out)
           ELSE Move(c, "resumed", k, at[c].on, out)

\* A task's body goes on with what it awaited and returns it, or throws; it may throw before it awaits.
body_returns(c) ==
    /\ at[c].pc = "resumed" /\ at[c].level > 0
    /\ Chains[c][at[c].level] = "task"
    /\ final_suspend(c, at[c].level, at[c].out)
    /\ UNCHANGED <<awaited, result, executor, caller, completed, threw>>

unhandled_exception(c) ==
    /\ at[c].pc \in {"body", "resumed"} /\ at[c].level > 0
    /\ Chains[c][at[c].level] = "task"
    /\ threw' = [threw EXCEPT ![c] = @ \cup {at[c].level}]
    /\ final_suspend(c, at[c].level, Thrown(at[c].level))
    /\ UNCHANGED <<awaited, result, executor, caller, completed>>

\* resume_on keeps the result or the exception and suspends; execute submits its handle.
schedule(c) ==
    /\ at[c].pc = "resumed" /\ at[c].level > 0
    /\ Chains[c][at[c].level] = "resume_on"
    /\ executor' = Append(executor, c)
    /\ Move(c, "scheduled", at[c].level, "none", at[c].out)
    /\ UNCHANGED <<frame, awaited, result, caller, completed, threw>>

\* The executor (external) runs what was submitted, one at a time and in order.
execute ==
    /\ executor # <<>> /\ Free("executor")
    /\ LET c == Head(executor) IN Move(c, "executed", at[c].level, "executor", at[c].out)
    /\ executor' = Tail(executor)
    /\ UNCHANGED <<frame, awaited, result, caller, completed, threw>>

\* Back from schedule, resume_on returns the result or rethrows.
resume_on(c) ==
    /\ at[c].pc = "executed"
    /\ final_suspend(c, at[c].level, at[c].out)
    /\ UNCHANGED <<awaited, result, executor, caller, completed, threw>>

\* run_detached hands the outcome to the promise, once, and its frame goes with the task in it.
run_detached(c) ==
    /\ at[c].pc = "resumed" /\ at[c].level = 0
    /\ result' = [result EXCEPT ![c] = IF @.ready THEN @ ELSE [ready |-> TRUE, out |-> at[c].out]]
    /\ frame' = [frame EXCEPT ![c] = task_destroy(@, 1)]
    /\ Move(c, "ended", 0, "none", at[c].out)
    /\ UNCHANGED <<awaited, executor, caller, completed, threw>>

\* start() returns once the chain has suspended or ended; get() blocks on the result.
start(c) ==
    /\ caller[c] = "starting" /\ at[c].on # "caller"
    /\ caller' = [caller EXCEPT ![c] = "blocked"]
    /\ UNCHANGED <<at, frame, awaited, result, executor, completed, threw>>

get(c) ==
    /\ caller[c] = "blocked" /\ result[c].ready
    /\ caller' = [caller EXCEPT ![c] = "returned"]
    /\ UNCHANGED <<at, frame, awaited, result, executor, completed, threw>>

TasksNext ==
    \/ \E c \in Calls :
          \/ sync_wait(c) \/ co_await(c) \/ await_suspend(c)
          \/ body_returns(c) \/ unhandled_exception(c)
          \/ schedule(c) \/ resume_on(c)
          \/ run_detached(c) \/ start(c) \/ get(c)
          \/ \E t \in Completers, what \in {"value", "error"} : complete(c, t, what)
    \/ execute

-----------------------------------------------------------------------------
\* What the caller must be given: what the outermost body that threw threw, else the first completion.
Expected(c) ==
    IF threw[c] # {} THEN Thrown(Min(threw[c])) ELSE completed[c][1]

\* However completing a future races awaiting it, and whoever completes it again, a chain that waits is
\* resumed: it is suspended only while the future is not complete (task.hpp, future.hpp) or while its
\* handle is at the executor.  The caller gets what the outermost body that threw threw, or else the
\* first completion; a body that awaits a resume_on goes on on the executor, with a result and with an
\* exception (resume_on.hpp); and no frame is destroyed while it or one it awaits is still to run.
ResultsPassed ==
    \A c \in Calls :
        /\ at[c].pc = "suspended" => ~awaited[c].ready
        /\ at[c].pc # "stopped"
        /\ at[c].pc = "scheduled" <=> \E i \in DOMAIN executor : executor[i] = c
        /\ result[c].ready => result[c].out = Expected(c)
        /\ caller[c] = "returned" => result[c].ready
        /\ (at[c].pc = "resumed" /\ at[c].level < Depth(c) /\ Chains[c][at[c].level + 1] = "resume_on")
              => at[c].on = "executor"
        /\ \A i \in Levels(c) :
              frame[c][i].state = "destroyed" => at[c].pc = "ended" \/ at[c].level < i
=============================================================================
