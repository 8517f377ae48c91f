----------------------------- MODULE SnpDevice -----------------------------
(***************************************************************************)
(* How frames are handed to the network card: UefiTxToken::consume of      *)
(* src/src/net.rs over the Simple Network Protocol.  A frame is built in a *)
(* new buffer; the card sends from there when it gets to it, and reports   *)
(* the buffer's address afterwards.  consume reads reports until it finds  *)
(* its own address, or none is left, and frees the buffer, whose address   *)
(* the next frame may get.                                                 *)
(***************************************************************************)
EXTENDS Integers, Sequences

CONSTANTS
    Address,      \* where buffers may be
    Capacity      \* the buffers a card takes until their reports are read

NoAddress == "none"

ASSUME SnpDeviceAssumption ==
    /\ Address # {} /\ NoAddress \notin Address
    /\ Capacity \in Nat \ {0}

VARIABLES
    pc,         \* "idle", "transmit", "status"
    buffer,     \* the address of consume's buffer, NoAddress outside consume
    queue,      \* external: the addresses the card has to send from
    recycled,   \* external: the addresses it has sent from, not yet reported
    late        \* history: how often consume returned without its report, as
                \* far as the Capacity
cardVars == <<queue, recycled>>
vars == <<pc, buffer, cardVars, late>>

Init ==
    /\ pc = "idle" /\ buffer = NoAddress
    /\ queue = << >> /\ recycled = << >>
    /\ late = 0

Build(a) ==
    /\ pc = "idle"
    /\ buffer' = a
    /\ pc' = "transmit"
    /\ UNCHANGED <<cardVars, late>>

\* variant: the buffer is not freed
ReturnLeaks == pc' = "idle" /\ UNCHANGED buffer

Return == pc' = "idle" /\ buffer' = NoAddress

Full == Len(queue) + Len(recycled) = Capacity

\* variant: the reports are not read
TransmitOnly ==
    /\ pc = "transmit" /\ ~Full
    /\ queue' = Append(queue, buffer)
    /\ Return
    /\ UNCHANGED <<recycled, late>>

Transmit ==
    /\ pc = "transmit" /\ ~Full
    /\ queue' = Append(queue, buffer)
    /\ pc' = "status"
    /\ UNCHANGED <<buffer, recycled, late>>

\* line 70: the frame is dropped, and no report is read
Refused ==
    /\ pc = "transmit" /\ Full
    /\ Return
    /\ UNCHANGED <<cardVars, late>>

\* lines 61-64: a report is read; it counts as the own one by its address
Report ==
    /\ pc = "status" /\ recycled # << >>
    /\ recycled' = Tail(recycled)
    /\ IF Head(recycled) = buffer THEN Return ELSE UNCHANGED <<pc, buffer>>
    /\ UNCHANGED <<queue, late>>

\* variant: consume waits for the card
NoReportWaits == FALSE /\ UNCHANGED vars

\* lines 65-67
NoReport ==
    /\ pc = "status" /\ recycled = << >>
    /\ late' = IF late < Capacity THEN late + 1 ELSE late
    /\ Return
    /\ UNCHANGED cardVars

Consume == Transmit \/ Refused \/ Report \/ NoReport

\* external: the card sends a frame
Send ==
    /\ queue # << >>
    /\ queue' = Tail(queue)
    /\ recycled' = Append(recycled, Head(queue))
    /\ UNCHANGED <<pc, buffer, late>>

Next == (\E a \in Address : Build(a)) \/ Consume \/ Send

Spec == Init /\ [][Next]_vars

\* The bootloader runs; the card may never send anything.
FairSpec == Spec /\ WF_vars(Consume)

\* There are always frames to send again, and the card sends what it took.
BusySpec == FairSpec /\ WF_vars(\E a \in Address : Build(a)) /\ WF_vars(Send)

----------------------------------------------------------------------------
TypeOK ==
    /\ pc \in {"idle", "transmit", "status"}
    /\ buffer \in (IF pc = "idle" THEN {NoAddress} ELSE Address)
    /\ queue \in Seq(Address) /\ recycled \in Seq(Address)
    /\ Len(queue) + Len(recycled) <= Capacity
    /\ late \in 0..Capacity

\* net.rs 60-68: the card holds no more buffers that consume has freed, or has
\* not said so, than there were calls that found no report.  While reports come
\* in time, memory is freed only after its frame was sent.
HeldIsLate == pc = "idle" => Len(queue) + Len(recycled) <= late

\* net.rs 60: the loop ends, with a card that stops at any time and with
\* reports of other frames at the same address.
ConsumeReturns == pc # "idle" ~> pc = "idle"

\* README.md 3: "a background TCP/IP networking stack (built with smoltcp)
\* serving an HTTP web console": a card that was full takes frames again, once
\* it has sent those it took.
CardTakesFramesAgain == pc = "transmit" ~> pc = "status"
=============================================================================
