------------------------------ MODULE Executor ------------------------------
(***************************************************************************)
(* The cooperative executor of src/src/executor.rs: task queue, wakers and *)
(* the registry of UEFI events the sleeping tasks wait for.  One thread    *)
(* runs everything, so an action is what happens between two points where  *)
(* a task (inside its poll) or the firmware (signalling an event at any    *)
(* time) can change what the executor sees.                                *)
(***************************************************************************)
EXTENDS Integers, Sequences, SeqFilter

CONSTANTS NTasks,       \* spawn is called this many times at most
          Event,        \* the UEFI events tasks can register
          Wakeable,     \* the tasks whose waker someone may call
          WaitMayFail   \* boot::wait_for_event may return an error

Task == 0..(NTasks - 1)    \* TaskId: the values NEXT_ID takes
NoTask == -1               \* CURRENT_TASK = None

ASSUME ExecutorAssumption ==
    /\ NTasks \in Nat \ {0}
    /\ Wakeable \subseteq Task
    /\ WaitMayFail \in BOOLEAN

VARIABLES
    nextId,      \* NEXT_ID
    tasks,       \* the keys of Executor::tasks
    runQueue,    \* Executor::run_queue
    runList,     \* what is left of run_once's local run_list
    awake,       \* AWAKE_TASKS
    current,     \* CURRENT_TASK
    globalReg,   \* GLOBAL_EVENT_REGISTRY: <<event, task>> pairs
    eventReg,    \* Executor::event_registry
    signaled,    \* firmware: the events in the signalled state
    pc           \* where the thread is: "setup" (before run), "run" (the while
                 \* of run), "list" (the for of run_once), "poll" (inside a
                 \* task), "wait" (wait_for_events), "done"

taskVars == <<nextId, tasks>>
regVars == <<globalReg, eventReg>>
vars == <<nextId, tasks, runQueue, runList, awake, current, globalReg, eventReg,
          signaled, pc>>

Init ==
    /\ nextId = 0
    /\ tasks = {}
    /\ runQueue = << >>
    /\ runList = << >>
    /\ awake = << >>
    /\ current = NoTask
    /\ globalReg = << >>
    /\ eventReg = << >>
    /\ signaled = {}
    /\ pc = "setup"

EntriesOf(t) == Event \X {t}
\* variant: the retains of run_once forget nobody
EntriesOfOthersUnfiltered(t) == Event \X Task

EntriesOfOthers(t) == Event \X (Task \ {t})

----------------------------------------------------------------------------
\* variant: NEXT_ID is not advanced
SpawnSameId ==
    /\ pc = "setup"
    /\ nextId \in Task
    /\ tasks' = tasks \cup {nextId}
    /\ runQueue' = Append(runQueue, nextId)
    /\ UNCHANGED <<nextId, runList, awake, current, regVars, signaled, pc>>

\* spawn, called by run_event_loop before run
Spawn ==
    /\ pc = "setup"
    /\ nextId \in Task
    /\ nextId' = nextId + 1
    /\ tasks' = tasks \cup {nextId}
    /\ runQueue' = Append(runQueue, nextId)
    /\ UNCHANGED <<runList, awake, current, regVars, signaled, pc>>

Run ==
    /\ pc = "setup"
    /\ pc' = "run"
    /\ UNCHANGED <<taskVars, runQueue, runList, awake, current, regVars, signaled>>

\* run's loop ends with its last task
Return ==
    /\ pc = "run"
    /\ tasks = {}
    /\ pc' = "done"
    /\ UNCHANGED <<taskVars, runQueue, runList, awake, current, regVars, signaled>>

\* variants: finished tasks are queued too; the woken tasks are drained and dropped
DrainedUnchecked == AppendMissing(runQueue, awake)
DrainedAndDropped == runQueue

\* run_once drains AWAKE_TASKS: woken tasks that are still live join the queue
Drained == AppendMissing(runQueue, Keep(awake, tasks))

\* run_once takes the whole queue as its run_list ...
RunOnce ==
    /\ pc = "run"
    /\ tasks # {}
    /\ Drained # << >>
    /\ runList' = Drained
    /\ runQueue' = << >>
    /\ awake' = << >>
    /\ pc' = "list"
    /\ UNCHANGED <<taskVars, current, regVars, signaled>>

\* ... or returns false, and run calls wait_for_events
RunOnceIdle ==
    /\ pc = "run"
    /\ tasks # {}
    /\ Drained = << >>
    /\ awake' = << >>
    /\ pc' = "wait"
    /\ UNCHANGED <<taskVars, runQueue, runList, current, regVars, signaled>>

\* The next task of the run_list: its old registrations go, its poll begins.
\* `None => continue` has no step of its own: RunListSound says that every
\* task of the list is still live.
PollBegin ==
    /\ pc = "list"
    /\ runList # << >>
    /\ Head(runList) \in tasks
    /\ current' = Head(runList)
    /\ runList' = Tail(runList)
    /\ eventReg' = Keep(eventReg, EntriesOfOthers(Head(runList)))
    /\ pc' = "poll"
    /\ UNCHANGED <<taskVars, runQueue, awake, globalReg, signaled>>

\* variant: run calls wait_for_events after every round
ListEndThenWait ==
    /\ pc = "list"
    /\ runList = << >>
    /\ pc' = "wait"
    /\ UNCHANGED <<taskVars, runQueue, runList, awake, current, regVars, signaled>>

ListEnd ==
    /\ pc = "list"
    /\ runList = << >>
    /\ pc' = "run"
    /\ UNCHANGED <<taskVars, runQueue, runList, awake, current, regVars, signaled>>

----------------------------------------------------------------------------
(* What a task can do to the executor while it is polled.                  *)

\* register_event_for_current_task; a repeated registration changes nothing
Register(e) ==
    /\ pc = "poll"
    /\ <<e, current>> \notin Range(globalReg)
    /\ globalReg' = Append(globalReg, <<e, current>>)
    /\ UNCHANGED <<taskVars, runQueue, runList, awake, current, eventReg, signaled, pc>>

\* wake_waker through a waker of u, which may outlive u
Wake(u) ==
    /\ pc = "poll"
    /\ u \in Wakeable
    /\ u < nextId
    /\ u \notin Range(awake)
    /\ awake' = Append(awake, u)
    /\ UNCHANGED <<taskVars, runQueue, runList, current, regVars, signaled, pc>>

\* variant: the registrations of the task go before those of the others
PollPendingInFront ==
    /\ pc = "poll"
    /\ eventReg' = Keep(globalReg, EntriesOf(current)) \o eventReg
    /\ globalReg' = Keep(globalReg, EntriesOfOthers(current))
    /\ current' = NoTask
    /\ pc' = "list"
    /\ UNCHANGED <<taskVars, runQueue, runList, awake, signaled>>

\* the poll returns Pending: the task's registrations move to the executor
PollPending ==
    /\ pc = "poll"
    /\ eventReg' = eventReg \o Keep(globalReg, EntriesOf(current))
    /\ globalReg' = Keep(globalReg, EntriesOfOthers(current))
    /\ current' = NoTask
    /\ pc' = "list"
    /\ UNCHANGED <<taskVars, runQueue, runList, awake, signaled>>

\* the poll returns Ready: the task and its registrations are dropped
PollReady ==
    /\ pc = "poll"
    /\ tasks' = tasks \ {current}
    /\ eventReg' = Keep(eventReg, EntriesOfOthers(current))
    /\ globalReg' = Keep(globalReg, EntriesOfOthers(current))
    /\ current' = NoTask
    /\ pc' = "list"
    /\ UNCHANGED <<nextId, runQueue, runList, awake, signaled>>

----------------------------------------------------------------------------
(* wait_for_events.  Its two early returns need no step: run calls it only  *)
(* with a task left and right after run_once has drained AWAKE_TASKS.       *)

\* no event registered by anyone: a 5 ms stall, and the loop goes round
Stall ==
    /\ pc = "wait"
    /\ awake = << >>
    /\ eventReg = << >>
    /\ pc' = "run"
    /\ UNCHANGED <<taskVars, runQueue, runList, awake, current, regVars, signaled>>

\* variants: only the first task registered for e is woken; every task is
TasksOfFirst(e) ==
    LET of == Keep(eventReg, {e} \X Task) IN IF of = << >> THEN of ELSE <<of[1][2]>>
TasksOfAny(e) == [i \in 1..Len(eventReg) |-> eventReg[i][2]]

\* The tasks registered for e, in registry order.  The registry holds a pair
\* once, so none repeats.
TasksOf(e) == LET of == Keep(eventReg, {e} \X Task) IN [i \in 1..Len(of) |-> of[i][2]]

\* boot::wait_for_event returns the first signalled event of the array, which
\* has the order of the registry, and resets it
IsFirstSignaled(i) ==
    /\ eventReg[i][1] \in signaled
    /\ \A j \in 1..(i - 1) : eventReg[j][1] \notin signaled

WaitReturns ==
    /\ pc = "wait"
    /\ awake = << >>
    /\ \E i \in 1..Len(eventReg) :
          /\ IsFirstSignaled(i)
          /\ signaled' = signaled \ {eventReg[i][1]}
          /\ runQueue' = AppendMissing(runQueue, TasksOf(eventReg[i][1]))
    /\ pc' = "run"
    /\ UNCHANGED <<taskVars, runList, awake, current, regVars>>

\* boot::wait_for_event fails: nothing, and the loop goes round
WaitFails ==
    /\ WaitMayFail
    /\ pc = "wait"
    /\ eventReg # << >>
    /\ pc' = "run"
    /\ UNCHANGED <<taskVars, runQueue, runList, awake, current, regVars, signaled>>

\* external: a timer expires, a key, a pointer movement or a packet arrives
Signal(e) ==
    /\ e \notin signaled
    /\ signaled' = signaled \cup {e}
    /\ UNCHANGED <<taskVars, runQueue, runList, awake, current, regVars, pc>>

\* external: what e stood for is gone before it was waited for: the task being
\* polled has read the keys, or replaced the timer
Clear(e) ==
    /\ pc = "poll"
    /\ e \in signaled
    /\ signaled' = signaled \ {e}
    /\ UNCHANGED <<taskVars, runQueue, runList, awake, current, regVars, pc>>

\* the executor itself; the rest of Next belongs to the tasks and the firmware
ExecutorStep ==
    Run \/ Return \/ RunOnce \/ RunOnceIdle \/ PollBegin \/ ListEnd
        \/ Stall \/ WaitReturns

PollReturns == PollPending \/ PollReady

\* run returns when the last task has finished; nothing happens after it
Stopped == pc = "done" /\ UNCHANGED vars

Next ==
    \/ Spawn
    \/ ExecutorStep
    \/ PollReturns
    \/ WaitFails
    \/ \E e \in Event : Register(e) \/ Signal(e) \/ Clear(e)
    \/ \E u \in Task : Wake(u)
    \/ Stopped

Spec == Init /\ [][Next]_vars

\* The thread runs whenever it can, and a poll returns: the tasks of this
\* program do a bounded amount of work between two awaits.  A wait that keeps
\* being repeated does not fail for ever.  Nothing makes events happen.
Fairness == WF_vars(ExecutorStep) /\ WF_vars(PollReturns) /\ SF_vars(WaitReturns)

FairSpec == Spec /\ Fairness

----------------------------------------------------------------------------
TypeOK ==
    /\ nextId \in 0..NTasks
    /\ tasks \subseteq 0..(nextId - 1)
    /\ runQueue \in Seq(Task)
    /\ runList \in Seq(Task)
    /\ awake \in Seq(Task)
    /\ current \in Task \cup {NoTask}
    /\ globalReg \in Seq(Event \X Task)
    /\ eventReg \in Seq(Event \X Task)
    /\ signaled \subseteq Event
    /\ pc \in {"setup", "run", "list", "poll", "wait", "done"}

\* The live tasks somebody has asked to poll and that were not polled since.
ReadyTasks == Range(runQueue) \cup Range(runList) \cup (Range(awake) \cap tasks)

Armed(t) == {e \in Event : <<e, t>> \in Range(eventReg) \cup Range(globalReg)}

\* run_once (lines 116-121): a run list never names a task twice, nor the task
\* being polled, nor a finished one, though wakers and events both fill the
\* queue: `None => continue` is dead code and no task is polled twice a round.
RunListSound ==
    /\ IsInjective(runQueue) /\ IsInjective(runList)
    /\ runQueue = << >> \/ runList = << >>
    /\ Range(runQueue) \cup Range(runList) \subseteq tasks
    /\ current \notin Range(runQueue) \cup Range(runList)

\* register_event_for_current_task and the two retains of run_once (lines 130
\* and 139-153): the registries never hold a pair twice, nor one of a finished
\* task; nothing stays in the global one when its task is not being polled.
RegistrySound ==
    /\ IsInjective(eventReg)
    /\ IsInjective(globalReg)
    /\ Range(eventReg) \subseteq Event \X (tasks \ {current})
    /\ Range(globalReg) \subseteq Event \X (tasks \cap {current})

\* wait_for_events (lines 167-206): the machine is never put to sleep while a
\* live task waits to be polled, whoever woke it and when.
NoLostWakeup == pc = "wait" => ReadyTasks = {}

\* Which queues are empty where, and when a task is being polled.
PcSound ==
    /\ pc = "poll" <=> current # NoTask
    /\ current # NoTask => current \in tasks
    /\ pc \in {"setup", "run", "wait", "done"} => runList = << >>
    /\ pc \in {"list", "poll", "wait"} => runQueue = << >>
    /\ pc \in {"setup", "wait"} => awake = << >>
    /\ IsInjective(awake)

\* The inductive invariant.
IInv == TypeOK /\ RunListSound /\ RegistrySound /\ PcSound

\* run_once (lines 103-110): a woken task is polled, in whatever order the
\* wakers were called and whatever finished in between.
ReadyIsPolled == \A t \in Task : t \in ReadyTasks ~> current = t

\* run_once and wait_for_events together: although only the first signalled
\* event of the array is served, no event that keeps coming starves another
\* task, because the entries of the task just polled move to the end.  Tasks
\* that wake each other for ever would keep the executor from waiting at all.
EventIsServed == []<>(pc = "wait") =>
    \A t \in Task : \A e \in Event :
        (e \in Armed(t) /\ e \in signaled) ~> (current = t \/ e \notin signaled)

\* The abstract scheduler.
TS == INSTANCE TaskScheduler
        WITH live <- tasks, ready <- ReadyTasks, armed <- [t \in Task |-> Armed(t)]

\* The executor implements it: one poll at a time, of a ready task only; a task
\* is armed with what it registered in its last poll and nothing older; an
\* event is taken only when nobody is ready, and wakes all it should.
ImplementsScheduler == TS!Spec
=============================================================================
