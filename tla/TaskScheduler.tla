--------------------------- MODULE TaskScheduler ---------------------------
(***************************************************************************)
(* What the executor promises to the tasks it runs: one task is polled at  *)
(* a time; a task is polled only when it is live and ready; it is armed    *)
(* with exactly the events it registered during its last poll; and when    *)
(* nobody is ready, an event makes every task armed with it ready.         *)
(* No queues, no registries and no order: Executor implements it.          *)
(***************************************************************************)
CONSTANTS Task, Event, NoTask

VARIABLES live,      \* the tasks that have not finished
          ready,     \* the live tasks that must be polled
          armed,     \* armed[t]: the events that make t ready
          current    \* the task being polled, or NoTask

vars == <<live, ready, armed, current>>

Init == /\ live = {}
        /\ ready = {}
        /\ armed = [t \in Task |-> {}]
        /\ current = NoTask

\* A new task is ready to be polled for the first time.
Spawn(t) == /\ current = NoTask
            /\ t \notin live
            /\ live' = live \cup {t}
            /\ ready' = ready \cup {t}
            /\ UNCHANGED <<armed, current>>

\* A poll begins: the task is armed with nothing it does not register again.
\* It may be polled once more than it was asked to: a task that is woken while
\* it waits for a poll stays ready after it.
Poll(t) == /\ current = NoTask
           /\ t \in ready
           /\ current' = t
           /\ ready' \in {ready, ready \ {t}}
           /\ armed' = [armed EXCEPT ![t] = {}]
           /\ UNCHANGED live

Arm(e) == /\ current # NoTask
          /\ armed' = [armed EXCEPT ![current] = @ \cup {e}]
          /\ UNCHANGED <<live, ready, current>>

\* A waker of any live task is called, perhaps by the task being polled.
Wake(u) == /\ current # NoTask
           /\ u \in live
           /\ ready' = ready \cup {u}
           /\ UNCHANGED <<live, armed, current>>

Pause == /\ current # NoTask
         /\ current' = NoTask
         /\ UNCHANGED <<live, ready, armed>>

Finish == /\ current # NoTask
          /\ current' = NoTask
          /\ live' = live \ {current}
          /\ ready' = ready \ {current}
          /\ armed' = [armed EXCEPT ![current] = {}]

\* The machine sleeps only when nobody is ready, and e wakes all it should.
Fire(e) == /\ current = NoTask
           /\ ready = {}
           /\ ready' = {t \in Task : e \in armed[t]}
           /\ ready' # {}
           /\ UNCHANGED <<live, armed, current>>

Next == \/ \E t \in Task : Spawn(t) \/ Poll(t) \/ Wake(t)
        \/ \E e \in Event : Arm(e) \/ Fire(e)
        \/ Pause \/ Finish

Spec == Init /\ [][Next]_vars
=============================================================================
