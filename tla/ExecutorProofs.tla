--------------------------- MODULE ExecutorProofs ---------------------------
(***************************************************************************)
(* IInv is an invariant of Executor, for any number of tasks and any set   *)
(* of events, and Executor implements TaskScheduler.                       *)
(*                                                                         *)
(* The last section is about the two tasks of the program, which Sleepers  *)
(* puts on the executor: it is the only one that assumes TwoTasks.         *)
(***************************************************************************)
EXTENDS Sleepers, SeqFilterProofs

\* What run_once's two retains of a registry return.
LEMMA RetainEntries ==
    ASSUME NEW reg \in Seq(Event \X Task), NEW t \in Task
    PROVE  /\ Keep(reg, EntriesOf(t)) \in Seq(Event \X Task)
           /\ Range(Keep(reg, EntriesOf(t))) = Range(reg) \cap (Event \X {t})
           /\ IsInjective(reg) => IsInjective(Keep(reg, EntriesOf(t)))
           /\ Keep(reg, EntriesOfOthers(t)) \in Seq(Event \X Task)
           /\ Range(Keep(reg, EntriesOfOthers(t))) = Range(reg) \cap (Event \X (Task \ {t}))
           /\ IsInjective(reg) => IsInjective(Keep(reg, EntriesOfOthers(t)))
  BY KeepProperties DEF EntriesOf, EntriesOfOthers

\* run_once's drain: the queue becomes the queued tasks and the woken tasks
\* that are live, each once.
LEMMA DrainedProperties ==
    ASSUME IInv
    PROVE  /\ Drained \in Seq(Task)
           /\ Range(Drained) = Range(runQueue) \cup (Range(awake) \cap tasks)
           /\ IsInjective(Drained)
  <1>1. /\ runQueue \in Seq(Task) /\ IsInjective(runQueue)
        /\ awake \in Seq(Task) /\ IsInjective(awake)
    BY DEF IInv, TypeOK, RunListSound, PcSound
  <1>2. /\ Keep(awake, tasks) \in Seq(Task)
        /\ Range(Keep(awake, tasks)) = Range(awake) \cap tasks
        /\ IsInjective(Keep(awake, tasks))
    BY <1>1, KeepProperties
  <1> QED BY <1>1, <1>2, AppendMissingProperties DEF Drained

\* The tasks wait_for_events wakes for an event: those registered for it.
LEMMA TasksOfProperties ==
    ASSUME IInv, NEW e \in Event
    PROVE  /\ TasksOf(e) \in Seq(Task)
           /\ Range(TasksOf(e)) = {t \in Task : <<e, t>> \in Range(eventReg)}
           /\ IsInjective(TasksOf(e))
  <1> DEFINE of == Keep(eventReg, {e} \X Task)
  <1>1. eventReg \in Seq(Event \X Task) /\ IsInjective(eventReg)
    BY DEF IInv, TypeOK, RegistrySound
  <1>2. /\ of \in Seq(Event \X Task)
        /\ Range(of) = Range(eventReg) \cap ({e} \X Task)
        /\ IsInjective(of)
    BY <1>1, KeepProperties
  <1>3. TasksOf(e) = [i \in 1..Len(of) |-> of[i][2]]
    BY DEF TasksOf
  <1> HIDE DEF of
  <1>4. /\ Len(of) \in Nat /\ DOMAIN of = 1..Len(of)
        /\ \A i \in 1..Len(of) : of[i] \in Range(of)
    BY <1>2 DEF Range
  <1>5. \A i \in 1..Len(of) : of[i] = <<e, of[i][2]>> /\ of[i][2] \in Task
    BY <1>2, <1>4
  <1>6. TasksOf(e) \in Seq(Task) /\ Len(TasksOf(e)) = Len(of)
    BY <1>3, <1>4, <1>5
  <1>7. \A i \in 1..Len(of) : TasksOf(e)[i] = of[i][2]
    BY <1>3
  <1>8. DOMAIN TasksOf(e) = 1..Len(of)
    BY <1>3
  <1>9. IsInjective(TasksOf(e))
    <2> SUFFICES ASSUME NEW i \in 1..Len(of), NEW j \in 1..Len(of),
                        TasksOf(e)[i] = TasksOf(e)[j]
                 PROVE  i = j
      BY <1>8 DEF IsInjective
    <2>1. of[i] = of[j]
      BY <1>5, <1>7
    <2> QED BY <2>1, <1>2, <1>4 DEF IsInjective
  <1>10. Range(TasksOf(e)) \subseteq {t \in Task : <<e, t>> \in Range(eventReg)}
    <2>1. ASSUME NEW i \in 1..Len(of)
          PROVE  of[i][2] \in {t \in Task : <<e, t>> \in Range(eventReg)}
      BY <1>2, <1>4, <1>5
    <2> QED BY <2>1, <1>7, <1>8 DEF Range
  <1>11. ASSUME NEW t \in Task, <<e, t>> \in Range(eventReg)
         PROVE  t \in Range(TasksOf(e))
    <2>1. <<e, t>> \in Range(of)
      BY <1>2, <1>11
    <2>2. PICK i \in 1..Len(of) : of[i] = <<e, t>>
      BY <2>1, <1>4 DEF Range
    <2> QED BY <2>2, <1>7, <1>8 DEF Range
  <1> QED BY <1>6, <1>9, <1>10, <1>11

----------------------------------------------------------------------------
(* Each action preserves IInv.                                              *)

LEMMA SpawnInv == ASSUME IInv, Spawn PROVE IInv'
  <1> USE DEF IInv
  <1>1. /\ nextId \in Task /\ nextId \notin tasks /\ nextId \in Nat /\ NTasks \in Nat
        /\ runQueue \in Seq(Task) /\ nextId \notin Range(runQueue)
    BY ExecutorAssumption DEF Spawn, TypeOK, RunListSound, Task
  <1>2. /\ runQueue' \in Seq(Task)
        /\ Range(runQueue') = Range(runQueue) \cup {nextId}
        /\ IsInjective(runQueue) => IsInjective(runQueue')
    BY <1>1, AppendRange DEF Spawn
  <1>3. TypeOK'
    BY <1>1, <1>2 DEF Spawn, TypeOK, Task, taskVars, regVars
  <1>4. RunListSound'
    BY <1>1, <1>2 DEF Spawn, RunListSound, PcSound, TypeOK, Task, NoTask, regVars
  <1>5. RegistrySound'
    BY DEF Spawn, RegistrySound, PcSound, regVars
  <1>6. PcSound'
    BY DEF Spawn, PcSound, regVars
  <1> QED BY <1>3, <1>4, <1>5, <1>6

LEMMA RunOnceInv == ASSUME IInv, RunOnce PROVE IInv'
  <1>1. /\ Drained \in Seq(Task)
        /\ Range(Drained) = Range(runQueue) \cup (Range(awake) \cap tasks)
        /\ IsInjective(Drained)
    BY DrainedProperties
  <1>2. current = NoTask
    BY DEF IInv, PcSound, RunOnce
  <1>3. TypeOK'
    BY <1>1 DEF IInv, RunOnce, TypeOK, taskVars, regVars
  <1>4. RunListSound'
    <2>1. NoTask \notin tasks
      BY DEF IInv, TypeOK, NoTask, Task
    <2>2. Range(<< >>) = {} /\ IsInjective(<< >>)
      BY DEF Range, IsInjective
    <2> QED BY <1>1, <1>2, <2>1, <2>2 DEF IInv, RunOnce, RunListSound, taskVars
  <1>5. RegistrySound'
    BY DEF IInv, RunOnce, RegistrySound, taskVars, regVars
  <1>6. PcSound'
    BY <1>2, EmptySeq DEF IInv, RunOnce, PcSound, taskVars, IsInjective
  <1> QED BY <1>3, <1>4, <1>5, <1>6 DEF IInv

LEMMA RunOnceIdleInv == ASSUME IInv, RunOnceIdle PROVE IInv'
  <1>1. /\ Drained \in Seq(Task)
        /\ Range(Drained) = Range(runQueue) \cup (Range(awake) \cap tasks)
    BY DrainedProperties
  <1>2. runQueue = << >>
    <2>1. Range(Drained) = {}
      BY DEF RunOnceIdle, Range
    <2>2. Range(runQueue) = {} /\ runQueue \in Seq(Task)
      BY <1>1, <2>1 DEF IInv, TypeOK
    <2> QED BY <2>2, EmptyRange
  <1>3. TypeOK' /\ RunListSound' /\ RegistrySound'
    BY DEF IInv, RunOnceIdle, TypeOK, RunListSound, RegistrySound, taskVars, regVars
  <1>4. PcSound'
    BY <1>2 DEF IInv, RunOnceIdle, PcSound, taskVars, IsInjective
  <1> QED BY <1>3, <1>4 DEF IInv

LEMMA PollBeginInv == ASSUME IInv, PollBegin PROVE IInv'
  <1> DEFINE t == Head(runList)
  <1>1. /\ t \in Task /\ Tail(runList) \in Seq(Task)
        /\ Range(runList) = {t} \cup Range(Tail(runList))
        /\ IsInjective(Tail(runList)) /\ t \notin Range(Tail(runList))
    BY HeadTailRange DEF IInv, TypeOK, RunListSound, PollBegin
  <1>2. /\ eventReg' \in Seq(Event \X Task)
        /\ Range(eventReg') = Range(eventReg) \cap (Event \X (Task \ {t}))
        /\ IsInjective(eventReg) => IsInjective(eventReg')
    BY <1>1, RetainEntries DEF IInv, TypeOK, PollBegin
  <1>3. current = NoTask /\ runQueue = << >> /\ t \in tasks /\ t # NoTask
    <2>1. NoTask \notin tasks
      BY DEF IInv, TypeOK, NoTask, Task
    <2> QED BY <2>1 DEF IInv, PcSound, PollBegin
  <1>4. TypeOK'
    BY <1>1, <1>2 DEF IInv, TypeOK, PollBegin, taskVars
  <1>5. RunListSound'
    BY <1>1, <1>3 DEF IInv, RunListSound, PollBegin, taskVars, Range
  <1>6. RegistrySound'
    <2>1. Range(globalReg) = {}
      BY <1>3 DEF IInv, RegistrySound, TypeOK, NoTask, Task
    <2> QED BY <1>2, <1>3, <2>1 DEF IInv, RegistrySound, PollBegin, taskVars
  <1>7. PcSound'
    BY <1>3 DEF IInv, PcSound, PollBegin, taskVars
  <1> QED BY <1>4, <1>5, <1>6, <1>7 DEF IInv

LEMMA RegisterInv == ASSUME IInv, NEW e \in Event, Register(e) PROVE IInv'
  <1> DEFINE entry == <<e, current>>
  <1>1. /\ current \in Task /\ current \in tasks
        /\ entry \in Event \X Task
        /\ globalReg \in Seq(Event \X Task)
        /\ globalReg' = Append(globalReg, entry) /\ entry \notin Range(globalReg)
    BY DEF IInv, PcSound, TypeOK, Register
  <1>2. /\ globalReg' \in Seq(Event \X Task)
        /\ Range(globalReg') = Range(globalReg) \cup {entry}
        /\ IsInjective(globalReg) => IsInjective(globalReg')
    <2> HIDE DEF entry
    <2> QED BY <1>1, AppendRange
  <1>3. TypeOK' /\ RunListSound' /\ PcSound'
    BY <1>2 DEF IInv, TypeOK, RunListSound, PcSound, Register, taskVars
  <1>4. RegistrySound'
    <2>1. entry \in Event \X (tasks \cap {current})
      BY <1>1
    <2> HIDE DEF entry
    <2> QED BY <1>2, <2>1 DEF IInv, RegistrySound, Register, taskVars
  <1> QED BY <1>3, <1>4 DEF IInv

LEMMA WakeInv == ASSUME IInv, NEW u \in Task, Wake(u) PROVE IInv'
  <1>1. /\ awake' \in Seq(Task)
        /\ IsInjective(awake) => IsInjective(awake')
    BY AppendRange DEF IInv, TypeOK, Wake
  <1>2. TypeOK' /\ RunListSound' /\ RegistrySound'
    BY <1>1 DEF IInv, TypeOK, RunListSound, RegistrySound, Wake, taskVars, regVars
  <1>3. PcSound'
    BY <1>1 DEF IInv, PcSound, Wake, taskVars
  <1> QED BY <1>2, <1>3 DEF IInv

LEMMA PollPendingInv == ASSUME IInv, PollPending PROVE IInv'
  <1>1. /\ current \in Task /\ current \in tasks /\ NoTask \notin tasks
        /\ eventReg \in Seq(Event \X Task) /\ globalReg \in Seq(Event \X Task)
        /\ IsInjective(eventReg) /\ IsInjective(globalReg)
        /\ Range(eventReg) \subseteq Event \X (tasks \ {current})
        /\ Range(globalReg) \subseteq Event \X {current}
    BY DEF IInv, PcSound, TypeOK, RegistrySound, PollPending, NoTask, Task
  <1> DEFINE moved == Keep(globalReg, EntriesOf(current))
  <1>2. /\ moved \in Seq(Event \X Task)
        /\ Range(moved) \subseteq Event \X {current}
        /\ IsInjective(moved)
        /\ globalReg' \in Seq(Event \X Task)
        /\ Range(globalReg') = {}
        /\ IsInjective(globalReg')
    <2>1. /\ moved \in Seq(Event \X Task)
          /\ Range(moved) = Range(globalReg) \cap (Event \X {current})
          /\ IsInjective(moved)
      BY <1>1, RetainEntries
    <2>2. /\ globalReg' \in Seq(Event \X Task)
          /\ Range(globalReg') = Range(globalReg) \cap (Event \X (Task \ {current}))
          /\ IsInjective(globalReg')
      BY <1>1, RetainEntries DEF PollPending
    <2> HIDE DEF moved
    <2> QED BY <1>1, <2>1, <2>2
  <1>3. /\ eventReg' \in Seq(Event \X Task)
        /\ Range(eventReg') = Range(eventReg) \cup Range(moved)
        /\ IsInjective(eventReg')
    <2>1. eventReg' = eventReg \o moved
      BY DEF PollPending
    <2>2. Range(eventReg) \cap Range(moved) = {}
      BY <1>1, <1>2
    <2> HIDE DEF moved
    <2> QED BY <1>1, <1>2, <2>1, <2>2, ConcatRange
  <1>4. TypeOK'
    BY <1>2, <1>3 DEF IInv, TypeOK, PollPending, taskVars
  <1>5. RunListSound'
    BY <1>1 DEF IInv, RunListSound, PollPending, taskVars
  <1>6. RegistrySound'
    BY <1>1, <1>2, <1>3 DEF RegistrySound, PollPending, taskVars
  <1>7. PcSound'
    BY DEF IInv, PcSound, PollPending, taskVars
  <1> QED BY <1>4, <1>5, <1>6, <1>7 DEF IInv

LEMMA PollReadyInv == ASSUME IInv, PollReady PROVE IInv'
  <1>1. /\ current \in Task /\ current \in tasks /\ NoTask \notin tasks
        /\ eventReg \in Seq(Event \X Task) /\ globalReg \in Seq(Event \X Task)
        /\ IsInjective(eventReg) /\ IsInjective(globalReg)
        /\ Range(eventReg) \subseteq Event \X (tasks \ {current})
        /\ Range(globalReg) \subseteq Event \X {current}
    BY DEF IInv, PcSound, TypeOK, RegistrySound, PollReady, NoTask, Task
  <1>2. /\ eventReg' \in Seq(Event \X Task) /\ globalReg' \in Seq(Event \X Task)
        /\ Range(eventReg') \subseteq Range(eventReg) /\ Range(globalReg') = {}
        /\ IsInjective(eventReg') /\ IsInjective(globalReg')
    <2>1. /\ eventReg' = Keep(eventReg, EntriesOfOthers(current))
          /\ globalReg' = Keep(globalReg, EntriesOfOthers(current))
      BY DEF PollReady
    <2>2. /\ eventReg' \in Seq(Event \X Task) /\ IsInjective(eventReg')
          /\ Range(eventReg') = Range(eventReg) \cap (Event \X (Task \ {current}))
      BY <1>1, <2>1, RetainEntries
    <2>3. /\ globalReg' \in Seq(Event \X Task) /\ IsInjective(globalReg')
          /\ Range(globalReg') = Range(globalReg) \cap (Event \X (Task \ {current}))
      BY <1>1, <2>1, RetainEntries
    <2>4. (Event \X {current}) \cap (Event \X (Task \ {current})) = {}
      OBVIOUS
    <2> QED BY <1>1, <2>2, <2>3, <2>4
  <1>3. TypeOK'
    BY <1>2 DEF IInv, TypeOK, PollReady
  <1>4. RunListSound'
    BY <1>1 DEF IInv, RunListSound, PollReady
  <1>5. RegistrySound'
    BY <1>1, <1>2 DEF RegistrySound, PollReady
  <1>6. PcSound'
    BY DEF IInv, PcSound, PollReady
  <1> QED BY <1>3, <1>4, <1>5, <1>6 DEF IInv

LEMMA WaitReturnsInv == ASSUME IInv, WaitReturns PROVE IInv'
  <1>1. PICK i \in 1..Len(eventReg) : runQueue' = AppendMissing(runQueue, TasksOf(eventReg[i][1]))
    BY DEF WaitReturns
  <1> DEFINE e == eventReg[i][1]
  <1>2. e \in Event /\ eventReg \in Seq(Event \X Task) /\ runQueue \in Seq(Task)
    <2>1. eventReg[i] \in Event \X Task
      BY ElementOfSeq DEF IInv, TypeOK
    <2> QED BY <2>1 DEF IInv, TypeOK
  <1>3. /\ TasksOf(e) \in Seq(Task)
        /\ Range(TasksOf(e)) = {t \in Task : <<e, t>> \in Range(eventReg)}
        /\ IsInjective(TasksOf(e))
    BY <1>2, TasksOfProperties
  <1> HIDE DEF e
  <1>4. /\ runQueue' \in Seq(Task)
        /\ Range(runQueue') = Range(runQueue) \cup Range(TasksOf(e))
        /\ IsInjective(runQueue')
    BY <1>1, <1>2, <1>3, AppendMissingProperties DEF IInv, RunListSound, e
  <1>5. current = NoTask /\ NoTask \notin tasks
    BY DEF IInv, PcSound, TypeOK, WaitReturns, NoTask, Task
  <1>6. TypeOK'
    BY <1>4 DEF IInv, TypeOK, WaitReturns, taskVars, regVars
  <1>7. RunListSound'
    <2>1. Range(TasksOf(e)) \subseteq tasks
      BY <1>3 DEF IInv, RegistrySound
    <2> QED BY <1>4, <1>5, <2>1 DEF IInv, RunListSound, PcSound, WaitReturns, taskVars
  <1>8. RegistrySound'
    BY DEF IInv, RegistrySound, WaitReturns, taskVars, regVars
  <1>9. PcSound'
    BY DEF IInv, PcSound, WaitReturns, taskVars
  <1> QED BY <1>6, <1>7, <1>8, <1>9 DEF IInv

\* The steps that only move pc or the firmware.
LEMMA OtherStepsInv ==
    ASSUME IInv,
           Run \/ Return \/ ListEnd \/ Stall \/ WaitFails \/ Stopped
             \/ (\E e \in Event : Signal(e) \/ Clear(e)) \/ UNCHANGED vars
    PROVE  IInv'
  <1> USE DEF IInv, TypeOK, RunListSound, RegistrySound, PcSound, taskVars, regVars
  <1>1. CASE Run
    BY <1>1 DEF Run
  <1>2. CASE Return
    BY <1>2 DEF Return
  <1>3. CASE ListEnd
    BY <1>3 DEF ListEnd
  <1>4. CASE Stall
    BY <1>4 DEF Stall
  <1>5. CASE WaitFails
    BY <1>5 DEF WaitFails
  <1>6. CASE \E e \in Event : Signal(e) \/ Clear(e)
    BY <1>6 DEF Signal, Clear
  <1>7. CASE Stopped \/ UNCHANGED vars
    BY <1>7 DEF Stopped, vars
  <1> QED BY <1>1, <1>2, <1>3, <1>4, <1>5, <1>6, <1>7

LEMMA InitInv == Init => IInv
  <1> SUFFICES ASSUME Init PROVE IInv
    OBVIOUS
  <1>1. Range(<< >>) = {} /\ IsInjective(<< >>)
    BY DEF Range, IsInjective
  <1> QED BY <1>1, ExecutorAssumption
          DEF Init, IInv, TypeOK, RunListSound, RegistrySound, PcSound, NoTask

LEMMA NextInv == IInv /\ [Next]_vars => IInv'
  BY SpawnInv, RunOnceInv, RunOnceIdleInv, PollBeginInv, RegisterInv, WakeInv,
     PollPendingInv, PollReadyInv, WaitReturnsInv, OtherStepsInv
     DEF Next, ExecutorStep, PollReturns

\* Every reachable state satisfies the inductive invariant.
THEOREM Invariance == Spec => []IInv
  BY InitInv, NextInv, PTL DEF Spec

\* run_once and its queues (lines 102-165): the variables keep their types.
THEOREM TypeCorrect == Spec => []TypeOK
  <1>1. IInv => TypeOK
    BY DEF IInv
  <1> QED BY <1>1, Invariance, PTL

\* run_once (lines 116-121): no task is polled twice in a round and no finished
\* task is ever in a run list, for any number of tasks.
THEOREM RunListsAreSound == Spec => []RunListSound
  <1>1. IInv => RunListSound
    BY DEF IInv
  <1> QED BY <1>1, Invariance, PTL

\* The registries (lines 58-67, 130, 139-153) hold no pair twice and no entry
\* of a finished task, for any set of events.
THEOREM RegistriesAreSound == Spec => []RegistrySound
  <1>1. IInv => RegistrySound
    BY DEF IInv
  <1> QED BY <1>1, Invariance, PTL

\* wait_for_events (lines 167-206) is never entered while a live task waits to
\* be polled.
THEOREM NoWakeupIsLost == Spec => []NoLostWakeup
  <1>1. IInv => NoLostWakeup
    BY DEF IInv, PcSound, NoLostWakeup, ReadyTasks, Range
  <1> QED BY <1>1, Invariance, PTL

----------------------------------------------------------------------------
(* Executor implements TaskScheduler: every step is a step of it or leaves  *)
(* what it sees alone.                                                      *)

SchedulerVars == <<tasks, ReadyTasks, [t \in Task |-> Armed(t)], current>>

\* The steps that move no task, no registration and no request to be polled.
LEMMA StutterRefines ==
    ASSUME IInv,
           Run \/ Return \/ ListEnd \/ Stall \/ WaitFails \/ Stopped
             \/ (\E e \in Event : Signal(e) \/ Clear(e)) \/ UNCHANGED vars
    PROVE  UNCHANGED SchedulerVars
  <1>1. UNCHANGED <<tasks, runQueue, runList, awake, current, globalReg, eventReg>>
    BY DEF Run, Return, ListEnd, Stall, WaitFails, Stopped, Signal, Clear, vars, taskVars, regVars
  <1> QED BY <1>1 DEF SchedulerVars, ReadyTasks, Armed

LEMMA SpawnRefines == ASSUME IInv, Spawn PROVE TS!Spawn(nextId) /\ nextId \in Task
  <1>1. /\ nextId \in Task /\ nextId \notin tasks /\ runQueue \in Seq(Task)
        /\ current = NoTask /\ awake = << >>
    BY ExecutorAssumption DEF Spawn, IInv, TypeOK, PcSound, Task
  <1>2. Range(runQueue') = Range(runQueue) \cup {nextId}
    BY <1>1, AppendRange DEF Spawn
  <1>3. ReadyTasks' = ReadyTasks \cup {nextId}
    <2>1. Range(awake) = {}
      BY <1>1 DEF Range
    <2> QED BY <1>2, <2>1 DEF Spawn, ReadyTasks
  <1>4. UNCHANGED <<[t \in Task |-> Armed(t)], current>>
    BY DEF Spawn, Armed, regVars
  <1> QED BY <1>1, <1>3, <1>4 DEF Spawn, TS!Spawn

LEMMA RunOnceRefines == ASSUME IInv, RunOnce \/ RunOnceIdle PROVE UNCHANGED SchedulerVars
  <1>1. Range(Drained) = Range(runQueue) \cup (Range(awake) \cap tasks)
    BY DrainedProperties
  <1>2. Range(<< >>) = {} /\ runList = << >>
    BY DEF IInv, PcSound, RunOnce, RunOnceIdle, Range
  <1>3. ReadyTasks = Range(Drained)
    BY <1>1, <1>2 DEF ReadyTasks
  <1>4. ReadyTasks' = Range(Drained)
    <2>1. CASE RunOnce
      BY <1>2, <2>1 DEF RunOnce, ReadyTasks
    <2>2. CASE RunOnceIdle
      <3>1. Range(runQueue) = {} /\ Range(Drained) = {}
        BY <1>1, <1>2, <2>2 DEF RunOnceIdle
      <3> QED BY <1>2, <2>2, <3>1 DEF RunOnceIdle, ReadyTasks
    <2> QED BY <2>1, <2>2
  <1>5. UNCHANGED <<tasks, [t \in Task |-> Armed(t)], current>>
    BY DEF RunOnce, RunOnceIdle, Armed, taskVars, regVars
  <1> QED BY <1>3, <1>4, <1>5 DEF SchedulerVars

LEMMA PollBeginRefines ==
    ASSUME IInv, PollBegin
    PROVE  TS!Poll(Head(runList)) /\ Head(runList) \in Task
  <1> DEFINE t == Head(runList)
  <1>1. /\ t \in Task
        /\ Range(runList) = {t} \cup Range(Tail(runList))
        /\ t \notin Range(Tail(runList))
    BY HeadTailRange DEF IInv, TypeOK, RunListSound, PollBegin
  <1>2. Range(eventReg') = Range(eventReg) \cap (Event \X (Task \ {t}))
    BY <1>1, RetainEntries DEF IInv, TypeOK, PollBegin
  <1>3. current = NoTask /\ Range(runQueue) = {} /\ Range(globalReg) = {}
    BY DEF IInv, PcSound, RegistrySound, TypeOK, NoTask, Task, PollBegin, Range
  <1>4. t \in ReadyTasks /\ ReadyTasks' \in {ReadyTasks, ReadyTasks \ {t}}
    <2>1. ReadyTasks = {t} \cup Range(Tail(runList)) \cup (Range(awake) \cap tasks)
      BY <1>1, <1>3 DEF ReadyTasks
    <2>2. ReadyTasks' = Range(Tail(runList)) \cup (Range(awake) \cap tasks)
      BY <1>3 DEF ReadyTasks, PollBegin, taskVars
    <2> QED BY <1>1, <2>1, <2>2
  <1>5. [u \in Task |-> Armed(u)]' = [[u \in Task |-> Armed(u)] EXCEPT ![t] = {}]
    <2>1. \A u \in Task : Armed(u)' = IF u = t THEN {} ELSE Armed(u)
      BY <1>2, <1>3 DEF Armed, PollBegin
    <2> QED BY <1>1, <2>1
  <1> QED BY <1>1, <1>3, <1>4, <1>5 DEF PollBegin, TS!Poll, taskVars

LEMMA RegisterRefines == ASSUME IInv, NEW e \in Event, Register(e) PROVE TS!Arm(e)
  <1> DEFINE entry == <<e, current>>
  <1>1. /\ current \in Task /\ current # NoTask
        /\ entry \in Event \X Task
        /\ globalReg \in Seq(Event \X Task)
        /\ globalReg' = Append(globalReg, entry)
    BY DEF IInv, PcSound, TypeOK, Register
  <1>2. Range(globalReg') = Range(globalReg) \cup {entry}
    <2> HIDE DEF entry
    <2> QED BY <1>1, AppendRange
  <1>3. UNCHANGED <<tasks, ReadyTasks, current, eventReg>>
    BY DEF Register, ReadyTasks, taskVars
  <1>4. \A u \in Task : Armed(u)' = IF u = current THEN Armed(u) \cup {e} ELSE Armed(u)
    BY <1>2, <1>3 DEF Armed
  <1> QED BY <1>1, <1>3, <1>4 DEF TS!Arm

LEMMA WakeRefines ==
    ASSUME IInv, NEW u \in Task, Wake(u)
    PROVE  TS!Wake(u) \/ UNCHANGED SchedulerVars
  <1>1. Range(awake') = Range(awake) \cup {u}
    BY AppendRange DEF IInv, TypeOK, Wake
  <1>2. UNCHANGED <<tasks, [t \in Task |-> Armed(t)], current>>
    BY DEF Wake, Armed, taskVars, regVars
  <1>3. current # NoTask
    BY DEF IInv, PcSound, Wake
  <1>4. UNCHANGED <<runQueue, runList>>
    BY DEF Wake
  <1>5. CASE u \in tasks
    BY <1>1, <1>2, <1>3, <1>4, <1>5 DEF ReadyTasks, TS!Wake
  <1>6. CASE u \notin tasks
    BY <1>1, <1>2, <1>4, <1>6 DEF ReadyTasks, SchedulerVars
  <1> QED BY <1>5, <1>6

LEMMA PollPendingRefines == ASSUME IInv, PollPending PROVE TS!Pause
  <1> DEFINE moved == Keep(globalReg, EntriesOf(current))
  <1>1. /\ current \in Task /\ current # NoTask
        /\ eventReg \in Seq(Event \X Task) /\ globalReg \in Seq(Event \X Task)
        /\ Range(globalReg) \subseteq Event \X {current}
    BY DEF IInv, PcSound, TypeOK, RegistrySound, PollPending
  <1>2. /\ moved \in Seq(Event \X Task)
        /\ Range(moved) = Range(globalReg) \cap (Event \X {current})
    BY <1>1, RetainEntries
  <1>3. Range(globalReg') = Range(globalReg) \cap (Event \X (Task \ {current}))
    BY <1>1, RetainEntries DEF PollPending
  <1>4. Range(eventReg') = Range(eventReg) \cup Range(moved)
    <2>1. eventReg' = eventReg \o moved
      BY DEF PollPending
    <2> HIDE DEF moved
    <2> QED BY <1>1, <1>2, <2>1, ConcatRange
  <1>5. Range(eventReg') \cup Range(globalReg') = Range(eventReg) \cup Range(globalReg)
    <2> HIDE DEF moved
    <2> QED BY <1>1, <1>2, <1>3, <1>4
  <1>6. UNCHANGED [t \in Task |-> Armed(t)]
    BY <1>5 DEF Armed
  <1>7. UNCHANGED <<tasks, ReadyTasks>>
    BY DEF PollPending, ReadyTasks, taskVars
  <1> QED BY <1>1, <1>6, <1>7 DEF PollPending, TS!Pause

LEMMA PollReadyRefines == ASSUME IInv, PollReady PROVE TS!Finish
  <1>1. /\ current \in Task /\ current # NoTask
        /\ eventReg \in Seq(Event \X Task) /\ globalReg \in Seq(Event \X Task)
        /\ Range(globalReg) \subseteq Event \X {current}
        /\ current \notin Range(runQueue) \cup Range(runList)
    BY DEF IInv, PcSound, TypeOK, RegistrySound, RunListSound, PollReady
  <1>2. /\ Range(eventReg') = Range(eventReg) \cap (Event \X (Task \ {current}))
        /\ Range(globalReg') = Range(globalReg) \cap (Event \X (Task \ {current}))
    BY <1>1, RetainEntries DEF PollReady
  <1>3. \A u \in Task : Armed(u)' = IF u = current THEN {} ELSE Armed(u)
    BY <1>1, <1>2 DEF Armed
  <1>4. ReadyTasks' = ReadyTasks \ {current}
    BY <1>1 DEF ReadyTasks, PollReady
  <1> QED BY <1>1, <1>3, <1>4 DEF PollReady, TS!Finish

LEMMA WaitReturnsRefines ==
    ASSUME IInv, WaitReturns
    PROVE  \E e \in Event : TS!Fire(e)
  <1>1. PICK i \in 1..Len(eventReg) : runQueue' = AppendMissing(runQueue, TasksOf(eventReg[i][1]))
    BY DEF WaitReturns
  <1> DEFINE e == eventReg[i][1]
             u == eventReg[i][2]
  <1>2. /\ e \in Event /\ u \in Task /\ <<e, u>> = eventReg[i]
        /\ eventReg \in Seq(Event \X Task) /\ runQueue \in Seq(Task)
    <2>1. eventReg[i] \in Event \X Task
      BY ElementOfSeq DEF IInv, TypeOK
    <2> QED BY <2>1 DEF IInv, TypeOK
  <1>3. <<e, u>> \in Range(eventReg)
    BY <1>2 DEF Range
  <1>4. /\ TasksOf(e) \in Seq(Task)
        /\ Range(TasksOf(e)) = {t \in Task : <<e, t>> \in Range(eventReg)}
    BY <1>2, TasksOfProperties
  <1> HIDE DEF e, u
  <1>5. Range(runQueue') = Range(runQueue) \cup Range(TasksOf(e))
    BY <1>1, <1>2, <1>4, AppendMissingProperties DEF e
  <1>6. /\ current = NoTask
        /\ Range(runQueue) = {} /\ Range(runList) = {} /\ Range(awake) = {}
        /\ Range(globalReg) = {}
    BY DEF IInv, PcSound, RegistrySound, TypeOK, NoTask, Task, WaitReturns, Range
  <1>7. UNCHANGED <<tasks, [t \in Task |-> Armed(t)], current, runList, awake>>
    BY DEF WaitReturns, Armed, taskVars, regVars
  <1>8. ReadyTasks = {} /\ ReadyTasks' = {t \in Task : <<e, t>> \in Range(eventReg)}
    <2>1. Range(runList') = {} /\ Range(awake') = {}
      BY <1>6, <1>7
    <2> QED BY <1>4, <1>5, <1>6, <2>1 DEF ReadyTasks
  <1>9. ReadyTasks' = {t \in Task : e \in [v \in Task |-> Armed(v)][t]}
    BY <1>2, <1>6, <1>8 DEF Armed
  <1>10. ReadyTasks' # {}
    BY <1>2, <1>3, <1>8
  <1> QED BY <1>2, <1>6, <1>7, <1>8, <1>9, <1>10 DEF TS!Fire

LEMMA InitRefines == Init => TS!Init
  <1> SUFFICES ASSUME Init PROVE TS!Init
    OBVIOUS
  <1>1. Range(<< >>) = {}
    BY DEF Range
  <1> QED BY <1>1 DEF Init, TS!Init, ReadyTasks, Armed

LEMMA NextRefines == IInv /\ [Next]_vars => [TS!Next]_TS!vars
  <1>1. TS!vars = SchedulerVars
    BY DEF TS!vars, SchedulerVars
  <1>2. SUFFICES ASSUME IInv, [Next]_vars
                 PROVE  TS!Next \/ UNCHANGED SchedulerVars
    BY <1>1 DEF SchedulerVars, TS!vars
  <1>3. CASE Spawn
    BY <1>2, <1>3, SpawnRefines DEF TS!Next
  <1>4. CASE PollBegin
    BY <1>2, <1>4, PollBeginRefines DEF TS!Next
  <1>5. CASE \E e \in Event : Register(e)
    BY <1>2, <1>5, RegisterRefines DEF TS!Next
  <1>6. CASE \E u \in Task : Wake(u)
    BY <1>2, <1>6, WakeRefines DEF TS!Next
  <1>7. CASE PollReturns
    BY <1>2, <1>7, PollPendingRefines, PollReadyRefines DEF PollReturns, TS!Next
  <1>8. CASE WaitReturns
    BY <1>2, <1>8, WaitReturnsRefines DEF TS!Next
  <1>9. CASE RunOnce \/ RunOnceIdle
    BY <1>2, <1>9, RunOnceRefines
  <1>10. CASE Run \/ Return \/ ListEnd \/ Stall \/ WaitFails \/ Stopped
                \/ (\E e \in Event : Signal(e) \/ Clear(e)) \/ UNCHANGED vars
    BY <1>2, <1>10, StutterRefines
  <1> QED BY <1>2, <1>3, <1>4, <1>5, <1>6, <1>7, <1>8, <1>9, <1>10 DEF Next, ExecutorStep

\* run, run_once and wait_for_events (lines 102-215) keep every promise of the
\* abstract scheduler: one poll at a time, of ready tasks only, each armed with
\* the events of its last poll; events are taken only when nobody is ready.
THEOREM Implementation == Spec => ImplementsScheduler
  BY InitRefines, NextRefines, Invariance, PTL DEF Spec, ImplementsScheduler, TS!Spec

----------------------------------------------------------------------------
(* The two tasks of the program (Sleepers)                                  *)

States == {"start", "armDelay", "armSleep", "delay", "sleep"}

\* Nobody keeps a waker; a sleep is armed by the task that is polled.
TurnSound ==
    /\ at \in [Task -> States]
    /\ awake = << >>
    /\ todo \in Seq(Event)
    /\ \A t \in Task : at[t] \in {"armDelay", "armSleep"} => current = t

\* The task is queued or is being polled.
Busy(t) == t \in Range(runQueue) \cup Range(runList) \cup {current}

LEMMA TheTasks == TwoTasks => Task = {Net, Ui} /\ Net # Ui
  BY DEF TwoTasks, Task, Net, Ui

LEMMA TheEvents ==
    TwoTasks => {Packet, Key, Pointer, NetTimer, UiTimer} \subseteq Event
  BY DEF TwoTasks, Timers

\* The bodies and the sleeps of the two tasks, and the firmware, do to the
\* executor what tasks and firmware may.
LEMMA SleepersStep ==
    ASSUME TwoTasks, TurnSound, [SNext]_allVars
    PROVE  [Next]_vars
  <1>1. CASE ExecutorMoves
    BY <1>1 DEF ExecutorMoves, Next
  <1>2. CASE NetStarts \/ NetTurn \/ UiTurn
    BY <1>2 DEF NetStarts, NetTurn, UiTurn, Resume
  <1>3. CASE \E t \in Task : CreateTimer(t)
    <2>1. PICK t \in Task : CreateTimer(t)
      BY <1>3
    <2>2. TimerOf(t) \in Event
      BY TheEvents DEF TimerOf
    <2>3. /\ pc = "poll" /\ signaled' = signaled \ {TimerOf(t)}
          /\ UNCHANGED <<taskVars, runQueue, runList, awake, current, regVars, pc>>
      BY <2>1 DEF CreateTimer, Arming, taskVars, regVars
    <2>4. CASE TimerOf(t) \in signaled
      BY <2>2, <2>3, <2>4 DEF Clear, Next
    <2>5. CASE TimerOf(t) \notin signaled
      BY <2>3, <2>5 DEF vars, taskVars, regVars
    <2> QED BY <2>4, <2>5
  <1>4. CASE \E t \in Task : RegisterNext(t)
    <2>1. PICK t \in Task : RegisterNext(t)
      BY <1>4
    <2>2. Head(todo) \in Event
      BY <2>1, HeadTailProperties DEF RegisterNext, TurnSound
    <2> QED BY <2>1, <2>2 DEF RegisterNext, Next
  <1>5. CASE \E t \in Task : SkipNext(t) \/ FallAsleep(t)
    BY <1>5 DEF SkipNext, FallAsleep, PollReturns, Next
  <1>6. CASE \E e \in Event : Expire(e) \/ Input(e) \/ ReadInput(e)
    BY <1>6 DEF Expire, Input, ReadInput, Next
  <1>7. CASE UNCHANGED allVars
    BY <1>7 DEF allVars
  <1> QED BY <1>1, <1>2, <1>3, <1>4, <1>5, <1>6, <1>7 DEF SNext, TaskStep

\* A task becomes queued when it is spawned or when an event that it is
\* registered for is taken, and is not busy any more when its poll returns.
LEMMA BusyStep ==
    ASSUME IInv, awake = << >>, NEW t \in Task
    PROVE  /\ Spawn => (Busy(t)' <=> Busy(t) \/ t = nextId)
           /\ RunOnce \/ RunOnceIdle \/ PollBegin => (Busy(t)' <=> Busy(t))
           /\ PollPending => (Busy(t)' <=> Busy(t) /\ t # current)
           /\ WaitReturns /\ Busy(t)' =>
                 \E e \in Event : e \in signaled /\ e \notin signaled' /\ <<e, t>> \in Range(eventReg)
  <1>1. t # NoTask
    BY DEF Task, NoTask
  <1>2. ASSUME Spawn PROVE Busy(t)' <=> Busy(t) \/ t = nextId
    <2>1. /\ nextId \in Task /\ runQueue \in Seq(Task) /\ runQueue' = Append(runQueue, nextId)
          /\ runList' = runList /\ current' = current
      BY <1>2 DEF Spawn, IInv, TypeOK
    <2>2. Range(runQueue') = Range(runQueue) \cup {nextId}
      BY <2>1, AppendRange
    <2> QED BY <2>1, <2>2 DEF Busy
  <1>3. ASSUME RunOnce PROVE Busy(t)' <=> Busy(t)
    <2>1. Range(Drained) = Range(runQueue) \cup (Range(awake) \cap tasks)
      BY DrainedProperties
    <2>2. Range(<< >>) = {} /\ runList = << >> /\ runList' = Drained /\ runQueue' = << >> /\ current' = current
      BY <1>3 DEF RunOnce, IInv, PcSound, Range
    <2> QED BY <2>1, <2>2 DEF Busy
  <1>4. ASSUME RunOnceIdle PROVE Busy(t)' <=> Busy(t)
    BY <1>4 DEF RunOnceIdle, Busy
  <1>5. ASSUME PollBegin PROVE Busy(t)' <=> Busy(t)
    <2>1. /\ runList \in Seq(Task) /\ runList # << >> /\ current = NoTask
          /\ current' = Head(runList) /\ runList' = Tail(runList) /\ runQueue' = runQueue
      BY <1>5 DEF PollBegin, IInv, TypeOK, PcSound
    <2>2. Range(runList) = {Head(runList)} \cup Range(Tail(runList))
      BY <2>1, HeadTailRange
    <2> QED BY <1>1, <2>1, <2>2 DEF Busy
  <1>6. ASSUME PollPending PROVE Busy(t)' <=> Busy(t) /\ t # current
    <2>1. /\ current' = NoTask /\ runList' = runList /\ runQueue' = runQueue
          /\ current \notin Range(runQueue) \cup Range(runList)
      BY <1>6 DEF PollPending, IInv, RunListSound
    <2> QED BY <1>1, <2>1 DEF Busy
  <1>7. ASSUME WaitReturns, Busy(t)'
        PROVE  \E e \in Event : e \in signaled /\ e \notin signaled' /\ <<e, t>> \in Range(eventReg)
    <2>1. PICK i \in 1..Len(eventReg) :
             /\ IsFirstSignaled(i)
             /\ signaled' = signaled \ {eventReg[i][1]}
             /\ runQueue' = AppendMissing(runQueue, TasksOf(eventReg[i][1]))
      BY <1>7 DEF WaitReturns
    <2> DEFINE e == eventReg[i][1]
    <2>2. e \in Event /\ e \in signaled /\ e \notin signaled'
      BY <2>1 DEF IInv, TypeOK, IsFirstSignaled
    <2> HIDE DEF e
    <2>3. /\ runQueue = << >> /\ runList' = runList /\ runList = << >> /\ current' = NoTask
          /\ runQueue \in Seq(Task)
      BY <1>7 DEF WaitReturns, IInv, PcSound, TypeOK
    <2>4. /\ TasksOf(e) \in Seq(Task)
          /\ Range(TasksOf(e)) = {u \in Task : <<e, u>> \in Range(eventReg)}
      BY <2>2, TasksOfProperties
    <2>5. Range(runQueue') = Range(runQueue) \cup Range(TasksOf(e))
      BY <2>1, <2>3, <2>4, AppendMissingProperties DEF e
    <2>6. Range(<< >>) = {}
      BY DEF Range
    <2> QED BY <1>1, <1>7, <2>2, <2>3, <2>4, <2>5, <2>6 DEF Busy
  <1> QED BY <1>2, <1>3, <1>4, <1>5, <1>6, <1>7

LEMMA NobodyWakes ==
    ASSUME Wakeable = {}, awake = << >>, [Next]_vars
    PROVE  awake' = << >>
  BY DEF Next, ExecutorStep, PollReturns, Spawn, Run, Return, RunOnce, RunOnceIdle, PollBegin,
         ListEnd, Stall, WaitReturns, WaitFails, PollPending, PollReady, Register, Signal,
         Clear, Wake, Stopped, vars

\* Outside a poll no sleep is being armed.
LEMMA ArmedInPoll ==
    ASSUME IInv, TurnSound, NEW t \in Task, at[t] \in {"armDelay", "armSleep"}
    PROVE  pc = "poll" /\ current = t
  <1>1. current = t /\ t # NoTask
    BY DEF TurnSound, Task, NoTask
  <1> QED BY <1>1 DEF IInv, PcSound

LEMMA ResumeTurn ==
    ASSUME TurnSound, NEW t \in Task, NEW events \in Seq(Event), NEW place \in States,
           Resume(t, events, place)
    PROVE  /\ at' \in [Task -> States] /\ todo' \in Seq(Event)
           /\ \A u \in Task : at'[u] \in {"armDelay", "armSleep"} => current' = u
  <1>1. /\ current = t /\ current' = current /\ todo' = events /\ at' = [at EXCEPT ![t] = place]
        /\ at \in [Task -> States]
    BY DEF Resume, TurnSound, vars
  <1>2. \A u \in Task : at'[u] = IF u = t THEN place ELSE at[u]
    BY <1>1
  <1> QED BY <1>1, <1>2 DEF TurnSound

LEMMA TurnNext ==
    ASSUME TwoTasks, IInv, TurnSound, [SNext]_allVars
    PROVE  TurnSound'
  <1>1. awake' = << >>
    BY SleepersStep, NobodyWakes DEF TwoTasks, TurnSound
  <1>2. Net \in Task /\ Ui \in Task
    BY TheTasks
  <1> DEFINE Goal == /\ at' \in [Task -> States] /\ todo' \in Seq(Event)
                     /\ \A u \in Task : at'[u] \in {"armDelay", "armSleep"} => current' = u
  <1>3. CASE ExecutorMoves
    <2>1. at' = at /\ todo' = todo
      BY <1>3 DEF ExecutorMoves, sleepVars
    <2>2. pc # "poll"
      BY <1>3 DEF ExecutorMoves, ExecutorStep, Spawn, Run, Return, RunOnce, RunOnceIdle, PollBegin,
                  ListEnd, Stall, WaitReturns, WaitFails
    <2>3. \A u \in Task : at[u] \notin {"armDelay", "armSleep"}
      BY <2>2, ArmedInPoll
    <2> QED BY <1>1, <2>1, <2>3 DEF TurnSound
  <1>4. CASE NetStarts \/ NetTurn \/ UiTurn
    <2>1. PICK t \in Task, events \in Seq(Event), place \in States : Resume(t, events, place)
      <3>1. CASE NetStarts
        <4>1. Resume(Net, <<NetTimer>>, "armDelay") /\ <<NetTimer>> \in Seq(Event) /\ "armDelay" \in States
          BY <3>1, TheEvents DEF NetStarts, States
        <4> QED BY <1>2, <4>1
      <3>2. CASE NetTurn
        <4> DEFINE es == (IF Workaround THEN << >> ELSE <<Packet>>) \o <<NetTimer>>
        <4>1. Resume(Net, es, "armSleep") /\ es \in Seq(Event) /\ "armSleep" \in States
          BY <3>2, TheEvents DEF NetTurn, States
        <4> HIDE DEF es
        <4> QED BY <1>2, <4>1
      <3>3. CASE UiTurn
        <4>1. PICK z \in BOOLEAN :
                 Resume(Ui, <<Key, Pointer>> \o (IF z THEN << >> ELSE <<UiTimer>>), "armSleep")
          BY <3>3 DEF UiTurn
        <4> DEFINE es == <<Key, Pointer>> \o (IF z THEN << >> ELSE <<UiTimer>>)
        <4>2. Resume(Ui, es, "armSleep") /\ es \in Seq(Event) /\ "armSleep" \in States
          BY <4>1, TheEvents DEF States
        <4> HIDE DEF es
        <4> QED BY <1>2, <4>2
      <3> QED BY <1>4, <3>1, <3>2, <3>3
    <2>2. Goal
      BY <2>1, ResumeTurn
    <2> QED BY <1>1, <2>2 DEF TurnSound
  <1>5. CASE \E t \in Task : CreateTimer(t) \/ RegisterNext(t) \/ SkipNext(t)
    <2>1. PICK t \in Task : CreateTimer(t) \/ RegisterNext(t) \/ SkipNext(t)
      BY <1>5
    <2>2. at' = at /\ current' = current /\ todo \in Seq(Event)
      BY <2>1 DEF CreateTimer, RegisterNext, Register, SkipNext, vars, TurnSound
    <2>3. todo' \in Seq(Event)
      <3>1. todo' = todo \/ (todo # << >> /\ todo' = Tail(todo))
        BY <2>1 DEF CreateTimer, RegisterNext, SkipNext
      <3> QED BY <2>2, <3>1, HeadTailProperties
    <2> QED BY <1>1, <2>2, <2>3 DEF TurnSound
  <1>6. CASE \E t \in Task : FallAsleep(t)
    <2>1. PICK t \in Task : FallAsleep(t)
      BY <1>6
    <2> DEFINE place == IF at[t] = "armDelay" THEN "delay" ELSE "sleep"
    <2>2. /\ current = t /\ todo' = todo /\ at' = [at EXCEPT ![t] = place]
          /\ at \in [Task -> States] /\ place \in States \ {"armDelay", "armSleep"}
      BY <2>1 DEF FallAsleep, Arming, TurnSound, States
    <2> HIDE DEF place
    <2>3. \A u \in Task : at'[u] = IF u = t THEN place ELSE at[u]
      BY <2>2
    <2>4. \A u \in Task : at'[u] \notin {"armDelay", "armSleep"}
      BY <2>2, <2>3 DEF TurnSound
    <2>5. at' \in [Task -> States]
      BY <2>2
    <2> QED BY <1>1, <2>2, <2>4, <2>5 DEF TurnSound
  <1>7. CASE (\E e \in Event : Expire(e) \/ Input(e) \/ ReadInput(e)) \/ UNCHANGED allVars
    <2>1. at' = at /\ todo' = todo /\ current' = current
      BY <1>7 DEF Expire, Input, ReadInput, Signal, Clear, sleepVars, allVars, vars
    <2> QED BY <1>1, <2>1 DEF TurnSound
  <1> QED BY <1>3, <1>4, <1>5, <1>6, <1>7 DEF SNext, TaskStep

\* The interface stays queued from its spawn until its first poll draws.
GuiSound ==
    /\ pc # "setup" => nextId = 2
    /\ at[Ui] = "start" /\ Ui < nextId => Busy(Ui)
    /\ at[Ui] # "start" => uiDrawn

LEMMA GuiNext ==
    ASSUME TwoTasks, IInv, TurnSound, GuiSound, [SNext]_allVars
    PROVE  GuiSound'
  <1>1. /\ Net \in Task /\ Ui \in Task /\ Net = 0 /\ Ui = 1 /\ NTasks = 2
        /\ nextId \in 0..2 /\ awake = << >> /\ at \in [Task -> States]
    BY TheTasks DEF Net, Ui, TwoTasks, IInv, TypeOK, TurnSound
  <1>2. CASE ExecutorMoves /\ Spawn
    <2>1. /\ pc = "setup" /\ pc' = "setup" /\ nextId' = nextId + 1 /\ UNCHANGED <<at, uiDrawn>>
      BY <1>2 DEF ExecutorMoves, Spawn, sleepVars
    <2>2. Busy(Ui)' <=> Busy(Ui) \/ Ui = nextId
      BY <1>1, <1>2, BusyStep
    <2> QED BY <1>1, <2>1, <2>2 DEF GuiSound
  <1>3. CASE ExecutorMoves /\ ~Spawn
    <2>1. /\ UNCHANGED <<at, uiDrawn>> /\ (ExecutorStep \/ WaitFails)
          /\ ~(pc = "setup" /\ nextId < 2)
      BY <1>1, <1>3 DEF ExecutorMoves, sleepVars
    <2>2. nextId = 2 /\ nextId' = nextId
      <3>1. nextId' = nextId
        BY <2>1 DEF ExecutorStep, Run, Return, RunOnce, RunOnceIdle, PollBegin, ListEnd, Stall,
                    WaitReturns, WaitFails, taskVars
      <3> QED BY <1>1, <2>1, <3>1 DEF GuiSound
    <2>3. at[Ui] = "start" => Busy(Ui)
      BY <1>1, <2>2 DEF GuiSound
    <2>4. CASE Run \/ Return \/ ListEnd \/ Stall \/ WaitFails
      <3>1. Busy(Ui)' <=> Busy(Ui)
        BY <2>4 DEF Busy, Run, Return, ListEnd, Stall, WaitFails
      <3> QED BY <1>1, <2>1, <2>2, <2>3, <3>1 DEF GuiSound
    <2>5. CASE RunOnce \/ RunOnceIdle \/ PollBegin
      <3>1. Busy(Ui)' <=> Busy(Ui)
        BY <1>1, <2>5, BusyStep
      <3> QED BY <1>1, <2>1, <2>2, <2>3, <3>1 DEF GuiSound
    <2>6. CASE WaitReturns
      <3>1. ~Busy(Ui)
        BY <1>1, <2>6 DEF Busy, WaitReturns, IInv, PcSound, Range, NoTask
      <3> QED BY <1>1, <2>1, <2>2, <2>3, <3>1 DEF GuiSound
    <2> QED BY <2>1, <2>4, <2>5, <2>6 DEF ExecutorStep
  <1>4. CASE NetStarts \/ NetTurn \/ UiTurn
    <2>1. UNCHANGED <<pc, nextId, runQueue, runList, current>>
      BY <1>4 DEF NetStarts, NetTurn, UiTurn, Resume, vars
    <2>2. CASE NetStarts \/ NetTurn
      <3>1. at'[Ui] = at[Ui] /\ uiDrawn' = uiDrawn
        BY <1>1, <2>2 DEF NetStarts, NetTurn, Resume
      <3> QED BY <2>1, <3>1 DEF GuiSound, Busy
    <2>3. CASE UiTurn
      <3>1. at'[Ui] = "armSleep" /\ uiDrawn' = TRUE
        BY <1>1, <2>3 DEF UiTurn, Resume
      <3> QED BY <2>1, <3>1 DEF GuiSound
    <2> QED BY <1>4, <2>2, <2>3
  <1>5. CASE \E t \in Task : FallAsleep(t)
    <2>1. PICK t \in Task : FallAsleep(t)
      BY <1>5
    <2>2. /\ current = t /\ nextId' = nextId /\ pc # "setup" /\ uiDrawn' = uiDrawn
          /\ at[t] # "start"
          /\ at' = [at EXCEPT ![t] = IF at[t] = "armDelay" THEN "delay" ELSE "sleep"]
      BY <2>1 DEF FallAsleep, Arming, PollPending, taskVars
    <2>3. Busy(Ui)' <=> Busy(Ui) /\ Ui # t
      BY <1>1, <2>1, <2>2, BusyStep DEF FallAsleep
    <2>4. (at'[Ui] = "start" <=> at[Ui] = "start") /\ (at[Ui] = "start" => Ui # t)
      BY <1>1, <2>2
    <2> QED BY <2>2, <2>3, <2>4 DEF GuiSound
  <1>6. CASE \/ \E t \in Task : CreateTimer(t) \/ RegisterNext(t) \/ SkipNext(t)
             \/ \E e \in Event : Expire(e) \/ Input(e) \/ ReadInput(e)
             \/ UNCHANGED allVars
    <2>1. UNCHANGED <<pc, nextId, runQueue, runList, current, at, uiDrawn>>
      BY <1>6 DEF CreateTimer, RegisterNext, Register, SkipNext, Expire, Input, ReadInput, Signal,
                  Clear, sleepVars, allVars, vars, taskVars
    <2> QED BY <2>1 DEF GuiSound, Busy
  <1> QED BY <1>2, <1>3, <1>4, <1>5, <1>6 DEF SNext, TaskStep

\* What the network task waits for in its first sleep is its timer and nothing
\* else, and nothing but the timer of that sleep signals it.
DelaySound ==
    /\ pc = "setup" => at[Net] = "start"
    /\ at[Net] \in {"armSleep", "sleep"} => netRuns
    /\ netRuns => delayOver /\ uiDrawn
    /\ at[Net] = "start" => NetTimer \notin running
    /\ at[Net] = "armDelay" => Range(todo) \subseteq {NetTimer}
    /\ at[Net] \in {"start", "armDelay", "delay"} =>
          /\ NetTimer \in signaled => delayOver
          /\ \A e \in Event : <<e, Net>> \in Range(eventReg) \cup Range(globalReg) => e = NetTimer
    /\ at[Net] = "delay" /\ Busy(Net) => delayOver /\ uiDrawn

\* Registrations are made by the task that is polled, and nowhere else.
LEMMA RegistryStep ==
    ASSUME IInv, [Next]_vars, NEW e \in Event, NEW t \in Task,
           <<e, t>> \in Range(eventReg)' \cup Range(globalReg)',
           <<e, t>> \notin Range(eventReg) \cup Range(globalReg)
    PROVE  Register(e) /\ t = current
  <1>1. eventReg \in Seq(Event \X Task) /\ globalReg \in Seq(Event \X Task)
    BY DEF IInv, TypeOK
  <1>2. CASE PollBegin
    <2>1. Range(eventReg') \subseteq Range(eventReg) /\ globalReg' = globalReg
      <3>1. eventReg' = Keep(eventReg, EntriesOfOthers(Head(runList))) /\ globalReg' = globalReg
        BY <1>2 DEF PollBegin
      <3> QED BY <1>1, <3>1, KeepProperties
    <2> QED BY <2>1
  <1>3. CASE PollPending
    <2> DEFINE a == Keep(globalReg, EntriesOf(current))
    <2>1. /\ a \in Seq(Event \X Task) /\ Range(a) \subseteq Range(globalReg)
          /\ Range(Keep(globalReg, EntriesOfOthers(current))) \subseteq Range(globalReg)
      BY <1>1, KeepProperties
    <2>2. eventReg' = eventReg \o a /\ globalReg' = Keep(globalReg, EntriesOfOthers(current))
      BY <1>3 DEF PollPending
    <2> HIDE DEF a
    <2>3. Range(eventReg') = Range(eventReg) \cup Range(a)
      BY <1>1, <2>1, <2>2, RangeConcatenation
    <2> QED BY <2>1, <2>2, <2>3
  <1>4. CASE PollReady
    <2>1. /\ eventReg' = Keep(eventReg, EntriesOfOthers(current))
          /\ globalReg' = Keep(globalReg, EntriesOfOthers(current))
      BY <1>4 DEF PollReady
    <2>2. Range(eventReg') \subseteq Range(eventReg) /\ Range(globalReg') \subseteq Range(globalReg)
      BY <1>1, <2>1, KeepProperties
    <2> QED BY <2>2
  <1>5. CASE \E f \in Event : Register(f)
    <2>1. PICK f \in Event : Register(f)
      BY <1>5
    <2> DEFINE new == <<f, current>>
    <2>2. /\ new \in Event \X Task /\ globalReg' = Append(globalReg, new) /\ eventReg' = eventReg
      BY <2>1 DEF Register, IInv, TypeOK, PcSound
    <2>3. Range(globalReg') = Range(globalReg) \cup {new}
      BY <1>1, <2>2, AppendRange
    <2>4. <<e, t>> = new
      BY <2>2, <2>3
    <2> QED BY <2>1, <2>4
  <1>6. ASSUME UNCHANGED regVars PROVE FALSE
    BY <1>6 DEF regVars
  <1>7. CASE \/ Spawn \/ Run \/ Return \/ RunOnce \/ RunOnceIdle \/ ListEnd \/ Stall \/ WaitReturns
             \/ WaitFails \/ (\E f \in Event : Signal(f) \/ Clear(f)) \/ (\E u \in Task : Wake(u))
             \/ Stopped \/ UNCHANGED vars
    BY <1>6, <1>7 DEF Spawn, Run, Return, RunOnce, RunOnceIdle, ListEnd, Stall, WaitReturns, WaitFails,
              Signal, Clear, Wake, Stopped, vars, regVars
  <1> QED BY <1>2, <1>3, <1>4, <1>5, <1>7 DEF Next, ExecutorStep, PollReturns

LEMMA DelayOfExecutor ==
    ASSUME TwoTasks, IInv, TurnSound, GuiSound, DelaySound, ExecutorMoves
    PROVE  DelaySound'
  <1>1. /\ Net \in Task /\ Ui \in Task /\ Net = 0 /\ Ui = 1 /\ awake = << >>
    BY TheTasks DEF Net, Ui, TurnSound
  <1>2. /\ UNCHANGED <<at, todo, running, netRuns, uiDrawn, delayOver>>
        /\ Spawn \/ ExecutorStep \/ WaitFails
    BY DEF ExecutorMoves, sleepVars
  <1>3. /\ pc # "poll" /\ signaled' \subseteq signaled /\ (pc' = "setup" => pc = "setup")
    BY <1>2 DEF Spawn, ExecutorStep, Run, Return, RunOnce, RunOnceIdle, PollBegin, ListEnd, Stall,
                WaitReturns, WaitFails
  <1>4. \A e \in Event : <<e, Net>> \in Range(eventReg)' \cup Range(globalReg)' =>
                         <<e, Net>> \in Range(eventReg) \cup Range(globalReg)
    <2> SUFFICES ASSUME NEW e \in Event, <<e, Net>> \in Range(eventReg)' \cup Range(globalReg)',
                        <<e, Net>> \notin Range(eventReg) \cup Range(globalReg)
                 PROVE  FALSE
      OBVIOUS
    <2>1. [Next]_vars
      BY <1>2 DEF Next
    <2>2. Register(e)
      BY <1>1, <2>1, RegistryStep
    <2> QED BY <1>3, <2>2 DEF Register
  <1>5. ASSUME at[Net] = "delay", Busy(Net)' PROVE delayOver /\ uiDrawn
    <2>1. CASE Busy(Net)
      BY <1>5, <2>1 DEF DelaySound
    <2>2. CASE Spawn
      BY <1>5, <2>2 DEF DelaySound, Spawn
    <2>3. CASE Run \/ Return \/ ListEnd \/ Stall \/ WaitFails
      <3>1. Busy(Net)
        BY <1>1, <1>5, <2>3 DEF Busy, Run, Return, ListEnd, Stall, WaitFails
      <3> QED BY <2>1, <3>1
    <2>4. CASE RunOnce \/ RunOnceIdle \/ PollBegin
      <3>1. Busy(Net)
        BY <1>1, <1>5, <2>4, BusyStep
      <3> QED BY <2>1, <3>1
    <2>5. CASE WaitReturns
      <3>1. PICK e \in Event : e \in signaled /\ <<e, Net>> \in Range(eventReg)
        BY <1>1, <1>5, <2>5, BusyStep
      <3>2. delayOver
        BY <1>5, <3>1 DEF DelaySound
      <3>3. ~Busy(Ui) /\ nextId = 2
        BY <1>1, <2>5 DEF Busy, WaitReturns, IInv, PcSound, Range, NoTask, GuiSound
      <3>4. uiDrawn
        BY <1>1, <3>3 DEF GuiSound
      <3> QED BY <3>2, <3>4
    <2> QED BY <1>2, <2>2, <2>3, <2>4, <2>5 DEF ExecutorStep
  <1> QED BY <1>1, <1>2, <1>3, <1>4, <1>5 DEF DelaySound

LEMMA DelayOfTurns ==
    ASSUME TwoTasks, IInv, TurnSound, DelaySound, NetStarts \/ NetTurn \/ UiTurn
    PROVE  DelaySound'
  <1>1. /\ Net \in Task /\ Ui \in Task /\ Net # Ui /\ at \in [Task -> States]
        /\ TimerOf(Net) = NetTimer /\ TimerOf(Ui) = UiTimer /\ NetTimer # UiTimer
    BY TheTasks DEF TurnSound, TimerOf, NetTimer, UiTimer
  <1>2. /\ pc = "poll" /\ UNCHANGED vars /\ delayOver' = delayOver
    BY DEF NetStarts, NetTurn, UiTurn, Resume
  <1>3. Busy(Net)' <=> Busy(Net)
    BY <1>1, <1>2 DEF Busy, vars
  <1>4. UNCHANGED <<pc, signaled, eventReg, globalReg, current>>
    BY <1>2 DEF vars
  <1>5. CASE NetStarts
    <2>1. /\ at[Net] = "start" /\ at'[Net] = "armDelay" /\ todo' = <<NetTimer>>
          /\ UNCHANGED <<netRuns, uiDrawn>>
      BY <1>1, <1>5 DEF NetStarts, Resume
    <2>2. Range(<<NetTimer>>) = {NetTimer}
      BY DEF Range
    <2> QED BY <1>1, <1>2, <1>4, <2>1, <2>2 DEF DelaySound
  <1>6. CASE NetTurn
    <2>1. /\ current = Net /\ at[Net] \in {"delay", "sleep"} /\ at'[Net] = "armSleep"
          /\ netRuns' = TRUE /\ uiDrawn' = uiDrawn
      BY <1>1, <1>6 DEF NetTurn, Resume
    <2>2. delayOver /\ uiDrawn
      BY <2>1 DEF DelaySound, Busy
    <2> QED BY <1>1, <1>2, <1>4, <2>1, <2>2 DEF DelaySound
  <1>7. CASE UiTurn
    <2>1. /\ current = Ui /\ at'[Net] = at[Net] /\ netRuns' = netRuns /\ uiDrawn' = TRUE
          /\ running' = running \ {UiTimer}
      BY <1>1, <1>7 DEF UiTurn, Resume
    <2>2. at[Net] \notin {"armDelay", "armSleep"}
      BY <1>1, <2>1 DEF TurnSound
    <2> QED BY <1>1, <1>2, <1>3, <1>4, <2>1, <2>2 DEF DelaySound
  <1> QED BY <1>5, <1>6, <1>7

LEMMA DelayOfSleeps ==
    ASSUME TwoTasks, IInv, TurnSound, DelaySound, NEW t \in Task,
           CreateTimer(t) \/ RegisterNext(t) \/ SkipNext(t) \/ FallAsleep(t)
    PROVE  DelaySound'
  <1>1. /\ Net \in Task /\ Ui \in Task /\ Net # Ui /\ Task = {Net, Ui} /\ at \in [Task -> States]
        /\ TimerOf(Net) = NetTimer /\ TimerOf(Ui) = UiTimer /\ NetTimer # UiTimer
        /\ awake = << >> /\ todo \in Seq(Event)
    BY TheTasks DEF TurnSound, TimerOf, NetTimer, UiTimer
  <1>2. /\ pc = "poll" /\ pc' # "setup" /\ current = t /\ at[t] \in {"armDelay", "armSleep"}
        /\ UNCHANGED <<netRuns, uiDrawn, delayOver>>
    BY DEF CreateTimer, RegisterNext, Register, SkipNext, FallAsleep, PollPending, Arming, vars
  <1>3. t # Net => at[Net] \notin {"armDelay", "armSleep"}
    BY <1>1, <1>2 DEF TurnSound
  <1>4. CASE CreateTimer(t)
    <2>1. /\ running' = running \cup {TimerOf(t)} /\ signaled' \subseteq signaled
          /\ UNCHANGED <<pc, at, todo, runQueue, runList, current, eventReg, globalReg>>
      BY <1>4 DEF CreateTimer, regVars
    <2>2. Busy(Net)' <=> Busy(Net)
      BY <1>1, <2>1 DEF Busy
    <2>3. at[Net] = "start" => NetTimer \notin running'
      BY <1>1, <1>2, <2>1 DEF DelaySound
    <2> QED BY <1>1, <1>2, <2>1, <2>2, <2>3 DEF DelaySound
  <1>5. CASE RegisterNext(t)
    <2>1. /\ todo # << >> /\ Register(Head(todo)) /\ todo' = Tail(todo)
          /\ UNCHANGED <<at, running, pc, signaled, runQueue, runList, current>>
      BY <1>5 DEF RegisterNext, Register
    <2>2. Range(todo) = {Head(todo)} \cup Range(todo') /\ Head(todo) \in Event
      BY <1>1, <2>1, HeadTailRange
    <2>3. ASSUME NEW e \in Event, <<e, Net>> \in Range(eventReg)' \cup Range(globalReg)',
                 at[Net] \in {"start", "armDelay", "delay"}
          PROVE  e = NetTimer
      <3>1. CASE <<e, Net>> \in Range(eventReg) \cup Range(globalReg)
        BY <2>3, <3>1 DEF DelaySound
      <3>2. CASE <<e, Net>> \notin Range(eventReg) \cup Range(globalReg)
        <4>1. [Next]_vars
          BY <2>1, <2>2 DEF Next
        <4>2. Register(e) /\ t = Net
          BY <1>1, <1>2, <2>3, <3>2, <4>1, RegistryStep
        <4>3. e = Head(todo)
          <5>1. /\ globalReg \in Seq(Event \X Task)
                /\ globalReg' = Append(globalReg, <<e, current>>)
                /\ globalReg' = Append(globalReg, <<Head(todo), current>>)
            BY <2>1, <4>2 DEF Register, IInv, TypeOK
          <5>2. <<e, current>> = <<Head(todo), current>>
            BY <5>1
          <5> QED BY <5>2
        <4> QED BY <1>2, <2>2, <2>3, <4>2, <4>3 DEF DelaySound
      <3> QED BY <3>1, <3>2
    <2>4. Busy(Net)' <=> Busy(Net)
      BY <1>1, <2>1 DEF Busy
    <2> QED BY <1>1, <1>2, <2>1, <2>2, <2>3, <2>4 DEF DelaySound
  <1>6. CASE SkipNext(t)
    <2>1. /\ todo # << >> /\ todo' = Tail(todo)
          /\ UNCHANGED <<at, running, pc, signaled, runQueue, runList, current, eventReg, globalReg>>
      BY <1>6 DEF SkipNext, vars
    <2>2. Range(todo) = {Head(todo)} \cup Range(todo')
      BY <1>1, <2>1, HeadTailRange
    <2>3. Busy(Net)' <=> Busy(Net)
      BY <1>1, <2>1 DEF Busy
    <2> QED BY <1>1, <1>2, <2>1, <2>2, <2>3 DEF DelaySound
  <1>7. CASE FallAsleep(t)
    <2>1. /\ PollPending /\ UNCHANGED <<running, signaled>>
          /\ at' = [at EXCEPT ![t] = IF at[t] = "armDelay" THEN "delay" ELSE "sleep"]
      BY <1>7 DEF FallAsleep, PollPending
    <2>2. Busy(Net)' <=> Busy(Net) /\ Net # t
      BY <1>1, <1>2, <2>1, BusyStep
    <2>3. \A e \in Event : <<e, Net>> \in Range(eventReg)' \cup Range(globalReg)' =>
                           <<e, Net>> \in Range(eventReg) \cup Range(globalReg)
      <3> SUFFICES ASSUME NEW e \in Event, <<e, Net>> \in Range(eventReg)' \cup Range(globalReg)',
                          <<e, Net>> \notin Range(eventReg) \cup Range(globalReg)
                   PROVE  FALSE
        OBVIOUS
      <3>1. [Next]_vars
        BY <2>1 DEF Next, PollReturns
      <3>2. Register(e)
        BY <1>1, <3>1, RegistryStep
      <3> QED BY <1>2, <2>1, <3>2 DEF Register, PollPending
    <2>4. CASE t = Net
      <3>1. \/ at[Net] = "armDelay" /\ at'[Net] = "delay"
            \/ at[Net] = "armSleep" /\ at'[Net] = "sleep"
        BY <1>1, <1>2, <2>1, <2>4
      <3> QED BY <1>1, <1>2, <2>1, <2>2, <2>3, <2>4, <3>1 DEF DelaySound
    <2>5. CASE t # Net
      <3>1. at'[Net] = at[Net]
        BY <1>1, <2>1, <2>5
      <3> QED BY <1>1, <1>2, <1>3, <2>1, <2>2, <2>3, <2>5, <3>1 DEF DelaySound
    <2> QED BY <2>4, <2>5
  <1> QED BY <1>4, <1>5, <1>6, <1>7

LEMMA DelayOfFirmware ==
    ASSUME TwoTasks, TurnSound, DelaySound, NEW e \in Event, Expire(e) \/ Input(e) \/ ReadInput(e)
    PROVE  DelaySound'
  <1>1. /\ UNCHANGED <<at, todo, netRuns, uiDrawn, pc, runQueue, runList, current, eventReg, globalReg>>
        /\ running' \subseteq running
    BY DEF Expire, Input, ReadInput, Signal, Clear, sleepVars, regVars
  <1>2. Net \in Task /\ (Busy(Net)' <=> Busy(Net))
    BY <1>1, TheTasks DEF Busy
  <1>3. delayOver => delayOver'
    BY DEF Expire, Input, ReadInput, sleepVars
  <1>4. at[Net] \in {"start", "armDelay", "delay"} /\ NetTimer \in signaled' => delayOver'
    <2> SUFFICES ASSUME at[Net] \in {"start", "armDelay", "delay"}, NetTimer \in signaled'
                 PROVE  delayOver'
      OBVIOUS
    <2>1. CASE NetTimer \in signaled
      BY <1>3, <2>1 DEF DelaySound
    <2>2. CASE NetTimer \notin signaled
      <3>1. e = NetTimer /\ Expire(e)
        BY <2>2 DEF Expire, Input, ReadInput, Signal, Clear, Timers
      <3> QED BY <3>1 DEF Expire, DelaySound
    <2> QED BY <2>1, <2>2
  <1> QED BY <1>1, <1>2, <1>3, <1>4 DEF DelaySound

LEMMA DelayNext ==
    ASSUME TwoTasks, IInv, TurnSound, GuiSound, DelaySound, [SNext]_allVars
    PROVE  DelaySound'
  <1>1. CASE UNCHANGED allVars
    BY <1>1 DEF allVars, vars, sleepVars, DelaySound, Busy
  <1> QED BY <1>1, DelayOfExecutor, DelayOfTurns, DelayOfSleeps, DelayOfFirmware DEF SNext, TaskStep

SleepersInv == IInv /\ TurnSound /\ GuiSound /\ DelaySound

LEMMA SleepersInit == TwoTasks /\ SInit => SleepersInv
  <1> SUFFICES ASSUME TwoTasks, SInit PROVE SleepersInv
    OBVIOUS
  <1>1. Net \in Task /\ Ui \in Task /\ IInv
    BY TheTasks, InitInv DEF SInit
  <1>2. Range(<< >>) = {} /\ << >> \in Seq(Event)
    BY DEF Range
  <1>3. TurnSound
    BY <1>2 DEF SInit, Init, TurnSound, States
  <1>4. GuiSound
    BY <1>1 DEF SInit, Init, GuiSound, Ui
  <1>5. DelaySound
    BY <1>1, <1>2 DEF SInit, Init, DelaySound
  <1> QED BY <1>1, <1>3, <1>4, <1>5 DEF SleepersInv

LEMMA SleepersNext == TwoTasks /\ SleepersInv /\ [SNext]_allVars => SleepersInv'
  BY SleepersStep, NextInv, TurnNext, GuiNext, DelayNext DEF SleepersInv

\* futures.rs and main.rs: the two tasks with their sleeps use the executor as
\* it may be used, so that all that is proved of it above holds of the program.
THEOREM SleepersUseTheExecutor == ASSUME TwoTasks PROVE SSpec => Spec
  <1>1. SInit => Init
    BY DEF SInit
  <1>2. SleepersInv /\ [SNext]_allVars => [Next]_vars
    BY SleepersStep DEF SleepersInv
  <1>3. TwoTasks
    OBVIOUS
  <1>4. (SInit => SleepersInv) /\ (SleepersInv /\ [SNext]_allVars => SleepersInv')
    BY <1>3, SleepersInit, SleepersNext
  <1> QED BY <1>1, <1>2, <1>4, PTL DEF SSpec, Spec

\* main.rs 214: the network is served only after the 100 ms have passed and the
\* window has been drawn, though the network task is polled first.
THEOREM TheWindowComesFirst == ASSUME TwoTasks PROVE SSpec => []NetworkWaitsForGui
  <1>1. SleepersInv => NetworkWaitsForGui
    BY DEF SleepersInv, DelaySound, NetworkWaitsForGui
  <1>2. (SInit => SleepersInv) /\ (SleepersInv /\ [SNext]_allVars => SleepersInv')
    BY SleepersInit, SleepersNext
  <1> QED BY <1>1, <1>2, PTL DEF SSpec

\* A task that is not ready becomes ready only by an event it is armed with.
LEMMA WokenStep ==
    ASSUME TwoTasks, SleepersInv, [SNext]_allVars, NEW t \in Task, pc # "setup",
           t \in ReadyTasks' \ ReadyTasks
    PROVE  \E e \in Armed(t) : e \in signaled /\ e \notin signaled'
  <1>1. /\ IInv /\ awake = << >> /\ awake' = << >> /\ [Next]_vars /\ t # NoTask
        /\ Wakeable = {}
    BY SleepersStep, TurnNext DEF SleepersInv, TurnSound, TwoTasks, Task, NoTask
  <1>2. /\ Range(<< >>) = {}
        /\ ReadyTasks = Range(runQueue) \cup Range(runList)
        /\ ReadyTasks' = Range(runQueue') \cup Range(runList')
    BY <1>1 DEF ReadyTasks, Range
  <1>3. Busy(t)'
    BY <1>2 DEF Busy
  <1>4. ASSUME current = NoTask PROVE ~Busy(t)
    BY <1>1, <1>2, <1>4 DEF Busy
  <1>5. CASE WaitReturns
    <2>1. PICK e \in Event : e \in signaled /\ e \notin signaled' /\ <<e, t>> \in Range(eventReg)
      BY <1>1, <1>3, <1>5, BusyStep
    <2> QED BY <2>1 DEF Armed
  <1>6. CASE RunOnce \/ RunOnceIdle \/ PollBegin
    <2>1. Busy(t)' <=> Busy(t)
      BY <1>1, <1>6, BusyStep
    <2>2. current = NoTask
      BY <1>1, <1>6 DEF RunOnce, RunOnceIdle, PollBegin, IInv, PcSound
    <2> QED BY <1>3, <1>4, <2>1, <2>2
  <1>7. ASSUME UNCHANGED <<runQueue, runList>> PROVE FALSE
    BY <1>2, <1>7
  <1>8. CASE \/ Run \/ Return \/ ListEnd \/ Stall \/ WaitFails \/ PollReturns \/ Stopped \/ Spawn
             \/ (\E e \in Event : Register(e) \/ Signal(e) \/ Clear(e))
             \/ (\E u \in Task : Wake(u)) \/ UNCHANGED vars
    BY <1>7, <1>8 DEF Run, Return, ListEnd, Stall, WaitFails, PollReturns, PollPending, PollReady,
                      Stopped, Spawn, Register, Signal, Clear, Wake, vars
  <1> QED BY <1>1, <1>5, <1>6, <1>8 DEF Next, ExecutorStep

\* futures.rs and executor.rs: whatever the other task and earlier sleeps waited
\* for, only an event of its own sleep makes a sleeping task ready.
THEOREM OwnEventsWake == ASSUME TwoTasks PROVE SSpec => WokenByOwnEvent
  <1> DEFINE Woken == \A t \in Task : pc # "setup" /\ t \in ReadyTasks' \ ReadyTasks
                         => \E e \in Armed(t) : e \in signaled /\ e \notin signaled'
  <1>1. SleepersInv /\ [SNext]_allVars => [Woken]_allVars
    BY WokenStep
  <1>2. (SInit => SleepersInv) /\ (SleepersInv /\ [SNext]_allVars => SleepersInv')
    BY SleepersInit, SleepersNext
  <1> QED BY <1>1, <1>2, PTL DEF SSpec, WokenByOwnEvent
=============================================================================
