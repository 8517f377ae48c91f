----------------------------- MODULE RemoteBoot -----------------------------
(***************************************************************************)
(* The web console: run_network of src/src/main.rs with the request        *)
(* handler of src/src/web.rs, on the one TCP socket of the program.  The   *)
(* socket is smoltcp's, modelled by what run_network sees of it; clients   *)
(* act between two turns of the loop, because smoltcp handles segments     *)
(* only inside iface.poll.                                                 *)
(*                                                                         *)
(* Time is counted in whole units since the pending selection was made:    *)
(* Grace stands for 100 ms and Limit for 500 ms.                           *)
(***************************************************************************)
EXTENDS Integers, Sequences, FiniteSetsExt

CONSTANTS
    Grace, Limit,
    MaxGap,       \* bound: the longest time between two turns of the loop
    MaxPieces,    \* bound: the pieces of requests the clients send in all
    Split,        \* a client may send a request in two segments, cut in its path
    Pipelining    \* a client may send a second request on a connection

Os == {"windows", "linux"}
NoOs == "none"
\* Requests: the page, a POST for each system, anything else that parses; and
\* the two halves of a POST /boot/windows that is cut before its path ends.
Whole == {"page", "other"} \cup Os
Piece == Whole \cup {"head", "tail"}
PostId == 0..MaxPieces    \* POSTs are numbered as they are handled; 0 is none

ASSUME RemoteBootAssumption ==
    /\ Grace \in Nat /\ Limit \in Nat /\ Grace < Limit
    /\ MaxGap \in Nat \ {0} /\ MaxPieces \in Nat
    /\ {Split, Pipelining} \subseteq BOOLEAN

VARIABLES
    pc,         \* run_network: "idle" (in NetworkSleepFuture), "tcp" (line 154),
                \* "check" (line 175), "boot" (line 193), "gone" (an OS runs)
    sock,       \* TcpSocket::state
    rx,         \* the socket's receive buffer
    tx,         \* its send queue: "empty", "queued", or "sent" and not acknowledged
    pending,    \* pending_boot: [os, id], os = NoOs for None
    age,        \* ms - pending_boot_time
    client,     \* what the connected client has sent: "nothing", "half", "request"
    pieces,     \* history: how many pieces were sent
    asked,      \* history: the systems of the POSTs clients sent whole
    answer,     \* history: answer[i], the response to POST i
    attempt,    \* the boot under way: [os, id, age], NoAttempt when there is none
    booted      \* history: the POSTs that were booted

netVars == <<sock, rx, tx>>
bootVars == <<pending, age>>
clientVars == <<client, pieces, asked>>
history == <<answer, booted>>
vars == <<pc, netVars, bootVars, clientVars, attempt, history>>

NoBoot == [os |-> NoOs, id |-> 0]
NoAttempt == [os |-> NoOs, id |-> 0, age |-> 0]

Init ==
    /\ pc = "idle"
    /\ sock = "closed"
    /\ rx = << >>
    /\ tx = "empty"
    /\ pending = NoBoot
    /\ age = 0
    /\ client = "nothing"
    /\ pieces = 0
    /\ asked = {}
    /\ answer = << >>
    /\ attempt = NoAttempt
    /\ booted = {}

----------------------------------------------------------------------------
(* run_network, one turn of its loop                                        *)

\* lines 131-136: the clock is read and the interface polled; what is queued
\* is sent unless the client's window is closed
Poll(gap) ==
    /\ pc = "idle"
    /\ age' = IF pending = NoBoot THEN 0 ELSE Min({age + gap, Limit + MaxGap + 1})
    /\ tx' \in (IF tx = "queued" THEN {"queued", "sent"} ELSE {tx})
    /\ pc' = "tcp"
    /\ UNCHANGED <<sock, rx, pending, clientVars, attempt, history>>

IsOpen == sock \notin {"closed", "timeWait"}

\* lines 155-157: listen resets the socket, which has nothing to read then
Listen ==
    /\ pc = "tcp"
    /\ ~IsOpen
    /\ sock' = "listen"
    /\ rx' = << >>
    /\ tx' = "empty"
    /\ client' = "nothing"
    /\ pc' = "check"
    /\ UNCHANGED <<bootVars, pieces, asked, attempt, history>>

NothingToRead ==
    /\ pc = "tcp"
    /\ IsOpen
    /\ rx = << >>
    /\ pc' = "check"
    /\ UNCHANGED <<netVars, bootVars, clientVars, attempt, history>>

\* handle_http_request on what one recv_slice returns: all that has arrived
\* (taken to fit into its 1024 bytes), of which the first request counts; a
\* request cut before the end of its path, or without its start, is not answered.
Parsed ==
    IF rx[1] \in Whole THEN rx[1]
    ELSE IF Len(rx) > 1 /\ rx[1] = "head" /\ rx[2] = "tail" THEN "windows"
    ELSE "nothing"

\* recv_slice has consumed the bytes
ReadInVain ==
    /\ pc = "tcp"
    /\ IsOpen
    /\ rx # << >>
    /\ Parsed = "nothing"
    /\ rx' = << >>
    /\ pc' = "check"
    /\ UNCHANGED <<sock, tx, bootVars, clientVars, attempt, history>>

\* send_slice fails once our side is closed, which the code ignores
MaySend == sock \in {"established", "closeWait"}

\* variant: the server does not close
CloseNot == UNCHANGED sock

\* TcpSocket::close
Close == sock' = CASE sock = "established" -> "finWait1"
                   [] sock = "closeWait" -> "lastAck"
                   [] OTHER -> sock

\* lines 163-170: respond, close, and let a selection replace the pending one
Respond ==
    /\ pc = "tcp"
    /\ IsOpen
    /\ rx # << >>
    /\ Parsed # "nothing"
    /\ rx' = << >>
    /\ tx' = IF MaySend THEN "queued" ELSE tx
    /\ Close
    /\ IF Parsed \in Os
       THEN /\ pending' = [os |-> Parsed, id |-> Len(answer) + 1]
            /\ age' = 0
            /\ answer' = Append(answer, IF MaySend THEN "queued" ELSE "unsent")
       ELSE UNCHANGED <<bootVars, answer>>
    /\ pc' = "check"
    /\ UNCHANGED <<clientVars, attempt, booted>>

\* variants: no limit; no grace period; no test of send_queue
MayBootWhenSent == tx = "empty" /\ age >= Grace
MayBootAtOnce == tx = "empty" \/ age >= Limit
MayBootUnsent == age >= Grace

\* lines 178-181
MayBoot == \/ sock = "closed"
           \/ sock = "timeWait"
           \/ tx = "empty" /\ age >= Grace
           \/ age >= Limit

\* variant: pending_boot is read and not taken
TakeNot == UNCHANGED bootVars

Take == pending' = NoBoot /\ age' = 0

Check ==
    /\ pc = "check"
    /\ IF pending # NoBoot /\ MayBoot
       THEN /\ Take
            /\ attempt' = [os |-> pending.os, id |-> pending.id, age |-> age]
            /\ booted' = booted \cup {pending.id}
            /\ pc' = "boot"
       ELSE pc' = "idle" /\ UNCHANGED <<bootVars, attempt, booted>>
    /\ UNCHANGED <<netVars, clientVars, answer>>

\* lines 193-206: boot_os or boot_linux_direct comes back, or does not
BootComesBack ==
    /\ pc = "boot"
    /\ attempt' = NoAttempt
    /\ pc' = "idle"
    /\ UNCHANGED <<netVars, bootVars, clientVars, history>>

BootTakesOver ==
    /\ pc = "boot"
    /\ pc' = "gone"
    /\ UNCHANGED <<netVars, bootVars, clientVars, attempt, history>>

Turn == Listen \/ NothingToRead \/ ReadInVain \/ Respond \/ Check
          \/ BootComesBack \/ BootTakesOver

----------------------------------------------------------------------------
(* external: the clients, as smoltcp shows them to run_network              *)

Connect ==
    /\ pc = "idle"
    /\ sock = "listen"
    /\ sock' = "established"
    /\ client' = "nothing"
    /\ UNCHANGED <<pc, rx, tx, bootVars, pieces, asked, attempt, history>>

\* a piece of a request arrives before the client has closed its side
Send(p) ==
    /\ pc = "idle"
    /\ sock \in {"established", "finWait1", "finWait2"}
    /\ pieces < MaxPieces
    /\ CASE p = "tail" -> client = "half"
         [] p = "head" -> Split /\ client = "nothing" /\ pieces + 1 < MaxPieces
         [] OTHER -> client = "nothing" \/ (client = "request" /\ Pipelining)
    /\ pieces' = pieces + 1
    /\ rx' = Append(rx, p)
    /\ client' = IF p = "head" THEN "half" ELSE "request"
    /\ asked' = IF p \in Os THEN asked \cup {p}
                ELSE IF p = "tail" THEN asked \cup {"windows"} ELSE asked
    /\ UNCHANGED <<pc, sock, tx, bootVars, attempt, history>>

Settled(outcome) == [i \in DOMAIN answer |->
                        IF answer[i] = "queued" THEN outcome ELSE answer[i]]

Ack ==
    /\ pc = "idle"
    /\ IsOpen
    /\ tx = "sent"
    /\ tx' = "empty"
    /\ answer' = Settled("acked")
    /\ UNCHANGED <<pc, sock, rx, bootVars, clientVars, attempt, booted>>

\* our FIN, which follows the data, is acknowledged
AckFin ==
    /\ pc = "idle"
    /\ tx = "empty"
    /\ \/ sock = "finWait1" /\ sock' = "finWait2"
       \/ sock = "closing" /\ sock' = "timeWait"
       \/ sock = "lastAck" /\ sock' = "closed"
    /\ UNCHANGED <<pc, rx, tx, bootVars, clientVars, attempt, history>>

\* the client closes its side
Fin ==
    /\ pc = "idle"
    /\ \/ sock = "established" /\ sock' = "closeWait"
       \/ sock = "finWait1" /\ sock' = "closing"
       \/ sock = "finWait2" /\ sock' = "timeWait"
    /\ UNCHANGED <<pc, rx, tx, bootVars, clientVars, attempt, history>>

Reset ==
    /\ pc = "idle"
    /\ IsOpen /\ sock # "listen"
    /\ sock' = "closed"
    /\ answer' = Settled("lost")
    /\ UNCHANGED <<pc, rx, tx, bootVars, clientVars, attempt, booted>>

ClientStep == Connect \/ (\E p \in Piece : Send(p)) \/ Ack \/ AckFin \/ Fin \/ Reset

\* nothing of this program runs any more
Gone == pc = "gone" /\ UNCHANGED vars

Next == (\E gap \in 0..MaxGap : Poll(gap)) \/ Turn \/ ClientStep \/ Gone

Spec == Init /\ [][Next]_vars

\* The loop goes round and the clock runs.
LoopFairness ==
    /\ WF_vars(\E gap \in 0..MaxGap : Poll(gap))
    /\ SF_vars(\E gap \in 1..MaxGap : Poll(gap))
    /\ WF_vars(Turn)

\* A client that is connected reads the response, acknowledges it and closes
\* its side.  Nobody has to connect, or to send a request.
ClientFairness ==
    /\ SF_vars(tx = "queued" /\ (\E gap \in 0..MaxGap : Poll(gap)) /\ tx' = "sent")
    /\ SF_vars(Ack) /\ SF_vars(AckFin) /\ SF_vars(Fin)

LoopSpec == Spec /\ LoopFairness
FairSpec == LoopSpec /\ ClientFairness

----------------------------------------------------------------------------
TypeOK ==
    /\ pc \in {"idle", "tcp", "check", "boot", "gone"}
    /\ sock \in {"closed", "listen", "established", "closeWait", "finWait1",
                 "finWait2", "closing", "lastAck", "timeWait"}
    /\ rx \in Seq(Piece)
    /\ tx \in {"empty", "queued", "sent"}
    /\ pending \in [os : Os, id : PostId] \cup {NoBoot}
    /\ age \in 0..(Limit + MaxGap)
    /\ client \in {"nothing", "half", "request"}
    /\ pieces \in 0..MaxPieces
    /\ asked \subseteq Os
    /\ answer \in Seq({"queued", "acked", "unsent", "lost"})
    /\ attempt \in [os : Os, id : PostId, age : Nat] \cup {NoAttempt}
    /\ booted \subseteq PostId

Boots == pc # "boot" /\ pc' = "boot"

\* A system is booted only because a client asked for that system, and a POST
\* boots at most once: no boot repeats or returns to an older selection.
BootsAsRequested ==
    [][Boots => attempt'.os \in asked /\ \A i \in booted : i < attempt'.id]_vars

\* main.rs 175-186: a boot never comes before the grace period is over, though
\* the check lists two socket states that would allow it; and never later
\* than one gap after the limit, whatever the client does with the response.
BootsInTime == pc = "boot" => attempt.age >= Grace /\ attempt.age < Limit + MaxGap

\* A boot before the limit does not cut off the response to its own POST: the
\* response was acknowledged, or cannot be delivered any more.
AnswersBeforeBoot ==
    pc = "boot" /\ attempt.age < Limit => answer[attempt.id] # "queued"

\* main.rs 178-181: a selection that is pending is booted, or replaced by one
\* that is, even if the client vanishes without acknowledging anything.
SelectionIsBooted == (pending # NoBoot) ~> (pc = "boot")

\* main.rs 155-165: once it has answered, the socket listens again or an OS runs,
\* though several turns and the client are needed to close a connection.
ConsoleComesBack ==
    ClientFairness => (tx = "queued" ~> (sock = "listen" \/ pc = "gone"))

\* README.md 23: "Serves a responsive web application from the embedded HTTP
\* daemon": the console can be reached again and again until an OS runs.
ConsoleStaysReachable == []<>(sock = "listen" \/ pc = "gone")
=============================================================================
