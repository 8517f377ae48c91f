--------------------------- MODULE SnpDeviceProofs ---------------------------
(***************************************************************************)
(* HeldIsLate is an invariant of SnpDevice, for every card and any number  *)
(* of buffer addresses.                                                    *)
(***************************************************************************)
EXTENDS SnpDevice, TLAPS

Held == Len(queue) + Len(recycled)

\* While consume waits for a report, its own buffer may be held, too.
IInv == TypeOK /\ Held <= late + (IF pc = "status" THEN 1 ELSE 0)

LEMMA InitInv == Init => IInv
  BY SnpDeviceAssumption DEF Init, IInv, TypeOK, Held

LEMMA BuildInv == ASSUME IInv, NEW a \in Address, Build(a) PROVE IInv'
  BY DEF IInv, TypeOK, Held, Build, cardVars

LEMMA TransmitInv == IInv /\ Transmit => IInv'
  <1> SUFFICES ASSUME IInv, Transmit PROVE IInv'
    OBVIOUS
  <1>1. buffer \in Address /\ queue \in Seq(Address)
    BY DEF IInv, TypeOK, Transmit
  <1>2. queue' \in Seq(Address) /\ Len(queue') = Len(queue) + 1
    BY <1>1 DEF Transmit
  <1> QED BY <1>1, <1>2, SnpDeviceAssumption DEF IInv, TypeOK, Held, Transmit, Full

LEMMA RefusedInv == IInv /\ Refused => IInv'
  BY DEF IInv, TypeOK, Held, Refused, Return, cardVars

\* A report takes one buffer from those the card holds.
LEMMA ReportInv == IInv /\ Report => IInv'
  <1> SUFFICES ASSUME IInv, Report PROVE IInv'
    OBVIOUS
  <1>1. recycled \in Seq(Address) /\ recycled # << >>
    BY DEF IInv, TypeOK, Report
  <1>2. recycled' \in Seq(Address) /\ Len(recycled') = Len(recycled) - 1
    BY <1>1 DEF Report
  <1> QED BY <1>1, <1>2, SnpDeviceAssumption DEF IInv, TypeOK, Held, Report, Return

\* Giving up adds the own buffer to the late ones; late stays below the
\* capacity, as what the card holds does.
LEMMA NoReportInv == IInv /\ NoReport => IInv'
  BY SnpDeviceAssumption DEF IInv, TypeOK, Held, NoReport, Return, cardVars

LEMMA SendInv == IInv /\ Send => IInv'
  <1> SUFFICES ASSUME IInv, Send PROVE IInv'
    OBVIOUS
  <1>1. queue \in Seq(Address) /\ queue # << >> /\ recycled \in Seq(Address)
    BY DEF IInv, TypeOK, Send
  <1>2. Head(queue) \in Address
    BY <1>1
  <1>3. /\ queue' \in Seq(Address) /\ Len(queue') = Len(queue) - 1
        /\ recycled' \in Seq(Address) /\ Len(recycled') = Len(recycled) + 1
    BY <1>1, <1>2 DEF Send
  <1> QED BY <1>1, <1>3, SnpDeviceAssumption DEF IInv, TypeOK, Held, Send

LEMMA NextInv == IInv /\ [Next]_vars => IInv'
  <1> SUFFICES ASSUME IInv, [Next]_vars PROVE IInv'
    OBVIOUS
  <1>1. CASE \E a \in Address : Build(a)
    BY <1>1, BuildInv
  <1>2. CASE Consume
    BY <1>2, TransmitInv, RefusedInv, ReportInv, NoReportInv DEF Consume
  <1>3. CASE Send
    BY <1>3, SendInv
  <1>4. CASE UNCHANGED vars
    BY <1>4 DEF IInv, TypeOK, Held, vars, cardVars
  <1> QED BY <1>1, <1>2, <1>3, <1>4 DEF Next

\* consume (net.rs 51-74) keeps the types of its state and of the card's.
THEOREM TypeCorrect == Spec => []TypeOK
  <1>1. IInv => TypeOK
    BY DEF IInv
  <1> QED BY <1>1, InitInv, NextInv, PTL DEF Spec

\* net.rs 60-68: between two frames the card holds no more freed buffers than
\* there were calls that gave up waiting for their report.
THEOREM FreedBuffersAreLate == Spec => []HeldIsLate
  <1>1. IInv => HeldIsLate
    BY DEF IInv, TypeOK, Held, HeldIsLate
  <1> QED BY <1>1, InitInv, NextInv, PTL DEF Spec
=============================================================================
