------------------------------ MODULE Sleepers ------------------------------
(***************************************************************************)
(* The two tasks of the program on the executor: the network task          *)
(* (main.rs run, run_network) and the user interface (slint_plat.rs        *)
(* run_slint_ui), with the three sleep futures of futures.rs they await.   *)
(* Between two awaits a task does its whole body in one step: the network  *)
(* task's is modelled in RemoteBoot.                                       *)
(***************************************************************************)
EXTENDS Executor

CONSTANTS Workaround,   \* the feature wait-packet-workaround, on by default
          Unavailable   \* the events a sleep may fail to get: create_event or
                        \* wait_for_key_event and the like return an error

Packet == "packet"
Key == "key"
Pointer == "pointer"
NetTimer == "netTimer"
UiTimer == "uiTimer"
Timers == {NetTimer, UiTimer}

\* What the executor's constants are in this program.  (Not assumed here, for
\* the executor's theorems to hold for other tasks as well.)
TwoTasks ==
    /\ NTasks = 2
    /\ Wakeable = {}          \* no task of the program keeps its waker
    /\ Event = {Packet, Key, Pointer} \cup Timers
    /\ Workaround \in BOOLEAN
    /\ Unavailable \subseteq Event

Net == 0    \* run_event_loop spawns crate::run() first ...
Ui == 1     \* ... and run_slint_ui second
TimerOf(t) == IF t = Net THEN NetTimer ELSE UiTimer

VARIABLES
    at,        \* at[t]: "start", or the sleep t is in: "delay" (TimerSleepFuture)
               \* or "sleep" (NetworkSleepFuture, SlintSleepFuture); "armDelay" and
               \* "armSleep" during that sleep's first poll
    todo,      \* events the sleep being polled for the first time has yet to get
    held,      \* the timers in the sleeps' timer_event fields ...
    running,   \* ... and those of them that have not expired
    netRuns,   \* the network task has started to serve the network
    uiDrawn,   \* the window has been drawn
    delayOver  \* the timer of run()'s TimerSleepFuture has expired

sleepVars == <<at, todo, held, running, netRuns, uiDrawn, delayOver>>
allVars == <<vars, sleepVars>>

SInit ==
    /\ Init
    /\ at = [t \in Task |-> "start"]
    /\ todo = << >>
    /\ held = {}
    /\ running = {}
    /\ netRuns = FALSE
    /\ uiDrawn = FALSE
    /\ delayOver = FALSE

----------------------------------------------------------------------------
(* The bodies.  A task polled for the first time begins, and a task polled  *)
(* in a sleep leaves it, whatever the reason of the poll (is_started): it   *)
(* runs to its next await and polls the new sleep once.                     *)

Resume(t, events, place) ==
    /\ pc = "poll"
    /\ current = t
    /\ todo' = events
    /\ at' = [at EXCEPT ![t] = place]
    /\ held' = held \ {TimerOf(t)}    \* the old sleep and its timer go
    /\ running' = running \ {TimerOf(t)}
    /\ UNCHANGED <<vars, delayOver>>

\* variant: run does not wait
NetStartsAtOnce ==
    /\ at[Net] = "start"
    /\ Resume(Net, <<NetTimer>>, "armSleep")
    /\ netRuns' = TRUE
    /\ UNCHANGED uiDrawn

\* run: 100 ms for the GUI to initialize and draw
NetStarts ==
    /\ at[Net] = "start"
    /\ Resume(Net, <<NetTimer>>, "armDelay")
    /\ UNCHANGED <<netRuns, uiDrawn>>

\* run_network: one turn of its loop, then NetworkSleepFuture, which registers
\* the packet event only without the workaround
NetTurn ==
    /\ at[Net] \in {"delay", "sleep"}
    /\ Resume(Net, (IF Workaround THEN << >> ELSE <<Packet>>) \o <<NetTimer>>, "armSleep")
    /\ netRuns' = TRUE
    /\ UNCHANGED uiDrawn

\* variant: the sleep registers no key event
UiTurnWithoutKey ==
    /\ at[Ui] \in {"start", "sleep"}
    /\ Resume(Ui, <<Pointer, UiTimer>>, "armSleep")
    /\ uiDrawn' = TRUE
    /\ UNCHANGED netRuns

\* run_slint_ui: input, redraw, then SlintSleepFuture.  Its duration comes from
\* the toolkit and may be shorter than a tick of 100 ns: no timer then.
UiTurn ==
    /\ at[Ui] \in {"start", "sleep"}
    /\ \E zeroTicks \in BOOLEAN :
          Resume(Ui, <<Key, Pointer>> \o (IF zeroTicks THEN << >> ELSE <<UiTimer>>), "armSleep")
    /\ uiDrawn' = TRUE
    /\ UNCHANGED netRuns

Arming(t) == pc = "poll" /\ current = t /\ at[t] \in {"armDelay", "armSleep"}

\* create_event and set_timer: a new timer, which has not expired
CreateTimer(t) ==
    /\ Arming(t)
    /\ todo # << >>
    /\ Head(todo) = TimerOf(t)
    /\ TimerOf(t) \notin held
    /\ held' = held \cup {TimerOf(t)}
    /\ running' = running \cup {TimerOf(t)}
    /\ signaled' = signaled \ {TimerOf(t)}
    /\ UNCHANGED <<nextId, tasks, runQueue, runList, awake, current, regVars, pc,
                   at, todo, netRuns, uiDrawn, delayOver>>

\* variant: the timer is stored and not registered
RegisterNextButTimers(t) ==
    /\ Arming(t)
    /\ todo # << >>
    /\ IF Head(todo) \in Timers THEN Head(todo) \in held /\ UNCHANGED vars
       ELSE Register(Head(todo))
    /\ todo' = Tail(todo)
    /\ UNCHANGED <<at, held, running, netRuns, uiDrawn, delayOver>>

\* register_event_for_current_task, in the order of the code
RegisterNext(t) ==
    /\ Arming(t)
    /\ todo # << >>
    /\ Head(todo) \in Timers => Head(todo) \in held
    /\ Register(Head(todo))
    /\ todo' = Tail(todo)
    /\ UNCHANGED <<at, held, running, netRuns, uiDrawn, delayOver>>

\* the event cannot be had: the sleep goes on without it
SkipNext(t) ==
    /\ Arming(t)
    /\ todo # << >>
    /\ Head(todo) \in Unavailable \ held
    /\ todo' = Tail(todo)
    /\ UNCHANGED <<vars, at, held, running, netRuns, uiDrawn, delayOver>>

FallAsleep(t) ==
    /\ Arming(t)
    /\ todo = << >>
    /\ PollPending
    /\ at' = [at EXCEPT ![t] = IF @ = "armDelay" THEN "delay" ELSE "sleep"]
    /\ UNCHANGED <<todo, held, running, netRuns, uiDrawn, delayOver>>

----------------------------------------------------------------------------
\* external: a timer that is still held expires
Expire(e) ==
    /\ e \in running
    /\ Signal(e)
    /\ running' = running \ {e}
    /\ delayOver' = (delayOver \/ (e = NetTimer /\ at[Net] \in {"armDelay", "delay"}))
    /\ UNCHANGED <<at, todo, held, netRuns, uiDrawn>>

\* external: a packet, a key or a pointer movement, at any time
Input(e) == e \notin Timers /\ Signal(e) /\ UNCHANGED sleepVars

\* the task they are for may take them away while it is polled
ReadInput(e) ==
    /\ IF current = Net THEN e = Packet ELSE e \in {Key, Pointer}
    /\ Clear(e)
    /\ UNCHANGED sleepVars

ExecutorMoves ==
    /\ Spawn \/ ExecutorStep \/ WaitFails
    /\ pc = "setup" /\ nextId < NTasks => Spawn    \* both tasks, then run
    /\ UNCHANGED sleepVars

TaskStep ==
    \/ NetStarts \/ NetTurn \/ UiTurn
    \/ \E t \in Task : CreateTimer(t) \/ RegisterNext(t) \/ SkipNext(t) \/ FallAsleep(t)

SNext ==
    \/ ExecutorMoves
    \/ TaskStep
    \/ \E e \in Event : Expire(e) \/ Input(e) \/ ReadInput(e)

SSpec == SInit /\ [][SNext]_allVars

\* The thread runs, and the timers of the firmware expire.  Nobody needs to
\* press a key or send a packet.
SFairness ==
    /\ WF_allVars(ExecutorMoves)
    /\ SF_allVars(ExecutorMoves /\ WaitReturns)
    /\ WF_allVars(TaskStep)
    /\ \A e \in Timers : WF_allVars(Expire(e))

FairSSpec == SSpec /\ SFairness

----------------------------------------------------------------------------
\* main.rs 214: "Wait for GUI to initialize and draw (100ms)".  Although the
\* network task is spawned and polled first, the network is not served before
\* the timer has expired and the window has been drawn once.
NetworkWaitsForGui == netRuns => delayOver /\ uiDrawn

\* futures.rs and executor.rs: a sleeping task becomes ready only because one
\* of the events its own sleep registered was signalled, never because of what
\* the other task or an earlier sleep waited for.
WokenByOwnEvent ==
    [][\A t \in Task : pc # "setup" /\ t \in ReadyTasks' \ ReadyTasks
          => \E e \in Armed(t) : e \in signaled /\ e \notin signaled']_allVars

\* The network is served again and again: neither keys, pointer movements nor
\* packets that never stop, nor a UI that polls as fast as it can, starve it.
NetworkIsServed == []<>(current = Net /\ at[Net] \in {"delay", "sleep"})

\* A key pressed at any moment, even between the interface's last look at the
\* keyboard and its sleep, gets the interface polled.
KeyIsNoticed == (Key \in signaled) ~> (current = Ui)

\* An interface that went to sleep with a timer is drawn again without input.
UiIsRedrawn == (at[Ui] = "sleep" /\ UiTimer \in held) ~> (current = Ui)
=============================================================================
