-------------------------- MODULE RemoteBootProofs --------------------------
(***************************************************************************)
(* What the web console boots, when, and with which answer: for any delays,*)
(* any gaps between two turns of run_network's loop, and clients that do   *)
(* anything any number of times.                                           *)
(***************************************************************************)
EXTENDS RemoteBoot, TLAPS

Outcome == {"queued", "acked", "unsent", "lost"}

Types ==
    /\ pc \in {"idle", "tcp", "check", "boot", "gone"}
    /\ sock \in {"closed", "listen", "established", "closeWait", "finWait1",
                 "finWait2", "closing", "lastAck", "timeWait"}
    /\ rx \in Seq(Piece)
    /\ tx \in {"empty", "queued", "sent"}
    /\ pending \in [os : Os, id : Nat] \cup {NoBoot}
    /\ age \in Nat
    /\ answer \in Seq(Outcome)

\* The check that boots never sees a socket that would allow it at any time,
\* and leaves no selection that is past the limit.
TimeSound ==
    /\ pc = "check" => IsOpen
    /\ pc = "idle" /\ pending # NoBoot => age < Limit
    /\ pc \in {"tcp", "check"} /\ pending # NoBoot => age < Limit + MaxGap
    /\ pc = "boot" => pending = NoBoot
    /\ BootsInTime

Unanswered == \E i \in 1..Len(answer) : answer[i] = "queued"

\* A response that is neither acknowledged nor lost is in the send queue of a
\* socket that is being closed.
AnswerSound ==
    /\ Unanswered => tx # "empty" /\ sock \in {"finWait1", "closing", "lastAck"}
    /\ pending # NoBoot => pending.id \in 1..Len(answer)
    /\ pc = "boot" => attempt.id \in 1..Len(answer)
    /\ AnswersBeforeBoot

\* Only what clients asked for is in the receive buffer or pending, and what is
\* pending is younger than all that was booted.
RequestSound ==
    /\ \A i \in 1..Len(rx) : /\ rx[i] \in Os => rx[i] \in asked
                             /\ rx[i] = "tail" => "windows" \in asked
    /\ pending # NoBoot => pending.os \in asked /\ \A i \in booted : i < pending.id
    /\ booted \subseteq 1..Len(answer)

IInv == Types /\ TimeSound /\ AnswerSound /\ RequestSound

----------------------------------------------------------------------------
LEMMA NoBootIsNone == \A n : [os |-> "windows", id |-> n] # NoBoot /\ [os |-> "linux", id |-> n] # NoBoot
  BY DEF NoBoot, NoOs

\* What the acknowledgement or the loss of a response does to the outcomes.
LEMMA SettledProperties ==
    ASSUME answer \in Seq(Outcome), NEW o \in Outcome \ {"queued"}
    PROVE  /\ Settled(o) \in Seq(Outcome)
           /\ Len(Settled(o)) = Len(answer)
           /\ \A i \in 1..Len(answer) : Settled(o)[i] # "queued"
  <1>1. Len(answer) \in Nat /\ DOMAIN answer = 1..Len(answer)
    OBVIOUS
  <1>2. \A i \in 1..Len(answer) : answer[i] \in Outcome
    OBVIOUS
  <1>3. Settled(o) = [i \in 1..Len(answer) |-> IF answer[i] = "queued" THEN o ELSE answer[i]]
    BY <1>1 DEF Settled
  <1>4. Settled(o) \in Seq(Outcome) /\ Len(Settled(o)) = Len(answer)
    BY <1>1, <1>2, <1>3
  <1> QED BY <1>3, <1>4

LEMMA MinOfTwo == ASSUME NEW a \in Int, NEW b \in Int PROVE Min({a, b}) = IF a <= b THEN a ELSE b
  <1>1. PICK x \in {a, b} : \A y \in {a, b} : x <= y
    OBVIOUS
  <1>2. \A x1, x2 \in {a, b} :
           (\A y \in {a, b} : x1 <= y) /\ (\A y \in {a, b} : x2 <= y) => x1 = x2
    OBVIOUS
  <1>3. Min({a, b}) \in {a, b} /\ \A y \in {a, b} : Min({a, b}) <= y
    BY <1>1 DEF Min
  <1> QED BY <1>3

LEMMA InitInv == Init => IInv
  <1> SUFFICES ASSUME Init PROVE IInv
    OBVIOUS
  <1>1. Types /\ Len(rx) = 0 /\ Len(answer) = 0
    BY DEF Init, Types
  <1> QED BY <1>1 DEF Init, IInv, TimeSound, AnswerSound, RequestSound, Unanswered,
                     BootsInTime, AnswersBeforeBoot

LEMMA PollInv == ASSUME IInv, NEW gap \in 0..MaxGap, Poll(gap) PROVE IInv'
  <1>1. age \in Nat /\ gap \in Nat /\ gap <= MaxGap /\ Limit \in Nat /\ MaxGap \in Nat
    BY RemoteBootAssumption DEF IInv, Types
  <1>2. \/ age' \in Nat /\ age' <= age + gap
        \/ pending = NoBoot /\ age' = 0
    <2> DEFINE a == age + gap
               b == Limit + MaxGap + 1
    <2>1. a \in Nat /\ b \in Nat
      BY <1>1
    <2>2. age' = IF pending = NoBoot THEN 0 ELSE Min({a, b})
      BY DEF Poll
    <2> HIDE DEF a, b
    <2>3. Min({a, b}) = IF a <= b THEN a ELSE b
      BY <2>1, MinOfTwo
    <2>4. \/ age' \in Nat /\ age' <= a
          \/ pending = NoBoot /\ age' = 0
      BY <2>1, <2>2, <2>3
    <2> QED BY <2>4 DEF a
  <1>3. age' \in Nat
    BY <1>2
  <1>4. tx' \in {"empty", "queued", "sent"} /\ (tx # "empty" => tx' # "empty")
    BY DEF Poll, IInv, Types
  <1>5. pc = "idle" /\ pc' = "tcp" /\ UNCHANGED <<sock, rx, pending, asked, attempt, answer, booted>>
    BY DEF Poll, clientVars, history
  <1>6. Types'
    BY <1>3, <1>4, <1>5 DEF IInv, Types
  <1>7. TimeSound'
    BY <1>1, <1>2, <1>5 DEF IInv, TimeSound, BootsInTime
  <1>8. AnswerSound'
    BY <1>4, <1>5 DEF IInv, AnswerSound, Unanswered, AnswersBeforeBoot
  <1>9. RequestSound'
    BY <1>5 DEF IInv, RequestSound
  <1> QED BY <1>6, <1>7, <1>8, <1>9 DEF IInv

\* Steps of a turn that take no request and boot nothing.
LEMMA QuietInv == IInv /\ (Listen \/ NothingToRead \/ ReadInVain) => IInv'
  <1> SUFFICES ASSUME IInv, Listen \/ NothingToRead \/ ReadInVain PROVE IInv'
    OBVIOUS
  <1>1. /\ pc = "tcp" /\ pc' = "check" /\ sock' # "closed" /\ sock' # "timeWait"
        /\ UNCHANGED <<pending, age, asked, attempt, answer, booted>>
    BY DEF Listen, NothingToRead, ReadInVain, IsOpen, netVars, bootVars, clientVars, history
  <1>2. rx' \in Seq(Piece) /\ (rx' = rx \/ Len(rx') = 0)
    <2>1. rx' = rx \/ rx' = << >>
      BY DEF Listen, NothingToRead, ReadInVain, netVars
    <2>2. rx \in Seq(Piece)
      BY DEF IInv, Types
    <2>3. CASE rx' = << >>
      BY <2>3
    <2>4. CASE rx' = rx
      BY <2>2, <2>4
    <2> QED BY <2>1, <2>3, <2>4
  <1>3. \/ sock' = "listen" /\ ~IsOpen /\ tx' = "empty"
        \/ sock' = sock /\ tx' = tx
    BY DEF Listen, NothingToRead, ReadInVain, netVars
  <1>4. Types'
    BY <1>1, <1>2, <1>3 DEF IInv, Types
  <1>5. TimeSound'
    BY <1>1 DEF IInv, TimeSound, BootsInTime, IsOpen
  <1>6. AnswerSound'
    BY <1>1, <1>3 DEF IInv, AnswerSound, Unanswered, AnswersBeforeBoot, IsOpen
  <1>7. RequestSound'
    BY <1>1, <1>2 DEF IInv, RequestSound
  <1> QED BY <1>4, <1>5, <1>6, <1>7 DEF IInv

\* What a client asked for is what handle_http_request finds.
LEMMA ParsedIsAsked == IInv /\ rx # << >> /\ Parsed \in Os => Parsed \in asked
  <1> SUFFICES ASSUME IInv, rx # << >>, Parsed \in Os PROVE Parsed \in asked
    OBVIOUS
  <1>1. rx \in Seq(Piece) /\ Len(rx) \in Nat /\ Len(rx) > 0
    BY DEF IInv, Types
  <1>2. CASE rx[1] \in Whole
    BY <1>1, <1>2 DEF IInv, RequestSound, Parsed
  <1>3. CASE rx[1] \notin Whole
    <2>1. Len(rx) > 1 /\ rx[2] = "tail" /\ Parsed = "windows"
      BY <1>3 DEF Parsed, Os
    <2> QED BY <1>1, <2>1 DEF IInv, RequestSound
  <1> QED BY <1>2, <1>3

LEMMA RespondInv == IInv /\ Respond => IInv'
  <1> SUFFICES ASSUME IInv, Respond PROVE IInv'
    OBVIOUS
  <1> DEFINE p == Parsed
  <1>1. /\ pc = "tcp" /\ pc' = "check" /\ IsOpen /\ rx # << >> /\ rx' = << >>
        /\ UNCHANGED <<asked, attempt, booted>>
    BY DEF Respond, clientVars
  <1>2. sock' \in {"listen", "closeWait", "finWait1", "finWait2", "closing", "lastAck"}
    BY <1>1 DEF Respond, Close, IsOpen, IInv, Types
  <1>3. /\ MaySend => sock' \in {"finWait1", "lastAck"} /\ tx' = "queued" /\ ~Unanswered
        /\ ~MaySend => sock' = sock /\ tx' = tx
    BY DEF Respond, Close, MaySend, IInv, AnswerSound
  <1>4. rx' \in Seq(Piece) /\ Len(rx') = 0
    BY <1>1
  <1>5. Len(answer) \in Nat /\ answer \in Seq(Outcome) /\ booted \subseteq 1..Len(answer)
    BY DEF IInv, Types, RequestSound
  <1>6. CASE p \in Os
    <2> DEFINE o == IF MaySend THEN "queued" ELSE "unsent"
    <2>1. /\ pending' = [os |-> p, id |-> Len(answer) + 1]
          /\ age' = 0 /\ answer' = Append(answer, o)
      BY <1>6 DEF Respond
    <2>2. o \in Outcome /\ (o = "queued" => MaySend)
      BY DEF Outcome
    <2> HIDE DEF o
    <2>3. /\ answer' \in Seq(Outcome) /\ Len(answer') = Len(answer) + 1
          /\ answer'[Len(answer) + 1] = o
          /\ \A i \in 1..Len(answer) : answer'[i] = answer[i]
      BY <1>5, <2>1, <2>2
    <2>4. pending' \in [os : Os, id : Nat] /\ pending'.id = Len(answer) + 1 /\ pending'.os = p
      BY <1>5, <1>6, <2>1
    <2>5. p \in asked
      BY <1>1, <1>6, ParsedIsAsked
    <2> HIDE DEF p
    <2>6. Types'
      BY <1>1, <1>2, <1>3, <1>4, <2>1, <2>3, <2>4 DEF IInv, Types
    <2>7. TimeSound'
      BY <1>1, <1>2, <2>1, RemoteBootAssumption DEF IInv, TimeSound, BootsInTime, IsOpen
    <2>8. AnswerSound'
      BY <1>1, <1>3, <1>5, <2>2, <2>3, <2>4
         DEF IInv, AnswerSound, Unanswered, AnswersBeforeBoot
    <2>9. RequestSound'
      BY <1>1, <1>4, <1>5, <2>3, <2>4, <2>5 DEF IInv, RequestSound
    <2> QED BY <2>6, <2>7, <2>8, <2>9 DEF IInv
  <1>7. CASE p \notin Os
    <2>1. UNCHANGED <<pending, age, answer>>
      BY <1>7 DEF Respond, bootVars
    <2> HIDE DEF p
    <2>2. Types'
      BY <1>1, <1>2, <1>3, <1>4, <2>1 DEF IInv, Types
    <2>3. TimeSound'
      BY <1>1, <1>2, <2>1 DEF IInv, TimeSound, BootsInTime, IsOpen
    <2>4. AnswerSound'
      BY <1>1, <1>3, <2>1 DEF IInv, AnswerSound, Unanswered, AnswersBeforeBoot
    <2>5. RequestSound'
      BY <1>1, <1>4, <2>1 DEF IInv, RequestSound
    <2> QED BY <2>2, <2>3, <2>4, <2>5 DEF IInv
  <1> QED BY <1>6, <1>7

\* The check takes the selection when it boots it, and otherwise leaves only
\* one that is younger than the limit.
LEMMA CheckInv == IInv /\ Check => IInv'
  <1> SUFFICES ASSUME IInv, Check PROVE IInv'
    OBVIOUS
  <1>1. pc = "check" /\ UNCHANGED <<sock, rx, tx, asked, answer>>
    BY DEF Check, netVars, clientVars
  <1>2. age \in Nat /\ Grace \in Nat /\ Limit \in Nat /\ Grace < Limit /\ MaxGap \in Nat
    BY RemoteBootAssumption DEF IInv, Types
  <1>3. sock # "closed" /\ sock # "timeWait"
    BY <1>1 DEF IInv, TimeSound, IsOpen
  <1>4. CASE pending # NoBoot /\ MayBoot
    <2>1. /\ pending' = NoBoot /\ age' = 0 /\ pc' = "boot"
          /\ attempt' = [os |-> pending.os, id |-> pending.id, age |-> age]
          /\ booted' = booted \cup {pending.id}
      BY <1>4 DEF Check, Take
    <2>2. attempt'.id = pending.id /\ attempt'.age = age
      BY <2>1
    <2>3. age >= Grace /\ (age < Limit => tx = "empty") /\ age < Limit + MaxGap
      BY <1>1, <1>2, <1>3, <1>4 DEF MayBoot, IInv, TimeSound
    <2>4. pending.id \in 1..Len(answer)
      BY <1>4 DEF IInv, AnswerSound
    <2>5. Types'
      BY <1>1, <2>1 DEF IInv, Types
    <2>6. TimeSound'
      BY <2>1, <2>2, <2>3 DEF IInv, TimeSound, BootsInTime
    <2>7. AnswerSound'
      BY <1>1, <2>1, <2>2, <2>3, <2>4 DEF IInv, AnswerSound, Unanswered, AnswersBeforeBoot
    <2>8. RequestSound'
      BY <1>1, <2>1, <2>4 DEF IInv, RequestSound
    <2> QED BY <2>5, <2>6, <2>7, <2>8 DEF IInv
  <1>5. CASE ~(pending # NoBoot /\ MayBoot)
    <2>1. pc' = "idle" /\ UNCHANGED <<pending, age, attempt, booted>>
      BY <1>5 DEF Check, bootVars
    <2>2. pending # NoBoot => age < Limit
      BY <1>2, <1>5 DEF MayBoot
    <2>3. Types' /\ RequestSound'
      BY <1>1, <2>1 DEF IInv, Types, RequestSound
    <2>4. TimeSound'
      BY <2>1, <2>2 DEF IInv, TimeSound, BootsInTime
    <2>5. AnswerSound'
      BY <1>1, <2>1 DEF IInv, AnswerSound, Unanswered, AnswersBeforeBoot
    <2> QED BY <2>3, <2>4, <2>5 DEF IInv
  <1> QED BY <1>4, <1>5

LEMMA BootInv == IInv /\ (BootComesBack \/ BootTakesOver) => IInv'
  <1> SUFFICES ASSUME IInv, BootComesBack \/ BootTakesOver PROVE IInv'
    OBVIOUS
  <1>1. /\ pc = "boot" /\ pc' \in {"idle", "gone"}
        /\ UNCHANGED <<sock, rx, tx, pending, age, asked, answer, booted>>
    BY DEF BootComesBack, BootTakesOver, netVars, bootVars, clientVars, history
  <1>2. Types' /\ RequestSound'
    BY <1>1 DEF IInv, Types, RequestSound
  <1>3. TimeSound'
    BY <1>1 DEF IInv, TimeSound, BootsInTime
  <1>4. AnswerSound'
    BY <1>1 DEF IInv, AnswerSound, Unanswered, AnswersBeforeBoot
  <1> QED BY <1>2, <1>3, <1>4 DEF IInv

\* Clients move the socket between two turns; a response leaves the queue only
\* when it is acknowledged or lost.
LEMMA ClientInv == IInv /\ (Connect \/ Ack \/ AckFin \/ Fin \/ Reset) => IInv'
  <1> SUFFICES ASSUME IInv, Connect \/ Ack \/ AckFin \/ Fin \/ Reset PROVE IInv'
    OBVIOUS
  <1>1. /\ pc = "idle" /\ UNCHANGED <<pc, rx, pending, age, asked, attempt, booted>>
    BY DEF Connect, Ack, AckFin, Fin, Reset, bootVars, clientVars, history
  <1>2. /\ sock' \in {"closed", "listen", "established", "closeWait", "finWait1",
                      "finWait2", "closing", "lastAck", "timeWait"}
        /\ tx' \in {"empty", "queued", "sent"}
    BY DEF Connect, Ack, AckFin, Fin, Reset, IInv, Types
  <1>3. /\ answer' \in Seq(Outcome) /\ Len(answer') = Len(answer)
        /\ Unanswered' => tx' # "empty" /\ sock' \in {"finWait1", "closing", "lastAck"}
    <2>1. answer \in Seq(Outcome)
      BY DEF IInv, Types
    <2>2. CASE Ack \/ Reset
      <3>1. PICK o \in Outcome \ {"queued"} : answer' = Settled(o)
        BY <2>2 DEF Ack, Reset, Outcome
      <3> QED BY <2>1, <3>1, SettledProperties DEF Unanswered
    <2>3. CASE Connect \/ AckFin \/ Fin
      <3>1. UNCHANGED <<answer, tx>>
        BY <2>3 DEF Connect, AckFin, Fin, history
      <3>2. Unanswered' <=> Unanswered
        BY <3>1 DEF Unanswered
      <3>3. CASE ~Unanswered
        BY <2>1, <3>1, <3>2, <3>3
      <3>4. CASE Unanswered
        <4>1. tx # "empty" /\ sock \in {"finWait1", "closing", "lastAck"}
          BY <3>4 DEF IInv, AnswerSound
        <4>2. sock' = "closing"
          BY <2>3, <4>1 DEF Connect, AckFin, Fin
        <4> QED BY <2>1, <3>1, <4>1, <4>2
      <3> QED BY <3>3, <3>4
    <2> QED BY <2>2, <2>3
  <1>4. Types'
    BY <1>1, <1>2, <1>3 DEF IInv, Types
  <1>5. TimeSound'
    BY <1>1 DEF IInv, TimeSound, BootsInTime
  <1>6. AnswerSound'
    BY <1>1, <1>3 DEF IInv, AnswerSound, AnswersBeforeBoot
  <1>7. RequestSound'
    BY <1>1, <1>3 DEF IInv, RequestSound
  <1> QED BY <1>4, <1>5, <1>6, <1>7 DEF IInv

LEMMA SendInv == ASSUME IInv, NEW p \in Piece, Send(p) PROVE IInv'
  <1>1. /\ pc = "idle" /\ rx' = Append(rx, p)
        /\ UNCHANGED <<pc, sock, tx, pending, age, attempt, answer, booted>>
    BY DEF Send, bootVars, history
  <1>2. /\ asked \subseteq asked'
        /\ p \in Os => p \in asked'
        /\ p = "tail" => "windows" \in asked'
    BY DEF Send, Os
  <1>3. /\ rx \in Seq(Piece) /\ rx' \in Seq(Piece) /\ Len(rx) \in Nat /\ Len(rx') = Len(rx) + 1
        /\ rx'[Len(rx) + 1] = p /\ \A i \in 1..Len(rx) : rx'[i] = rx[i]
    BY <1>1 DEF IInv, Types
  <1>4. Types'
    BY <1>1, <1>3 DEF IInv, Types
  <1>5. TimeSound'
    BY <1>1 DEF IInv, TimeSound, BootsInTime
  <1>6. AnswerSound'
    BY <1>1 DEF IInv, AnswerSound, Unanswered, AnswersBeforeBoot
  <1>7. RequestSound'
    BY <1>1, <1>2, <1>3 DEF IInv, RequestSound
  <1> QED BY <1>4, <1>5, <1>6, <1>7 DEF IInv

LEMMA StutterInv == IInv /\ UNCHANGED vars => IInv'
  BY DEF IInv, Types, TimeSound, AnswerSound, RequestSound, Unanswered, BootsInTime,
         AnswersBeforeBoot, IsOpen, vars, netVars, bootVars, clientVars, history

LEMMA NextInv == IInv /\ [Next]_vars => IInv'
  <1> SUFFICES ASSUME IInv, [Next]_vars PROVE IInv'
    OBVIOUS
  <1>1. CASE \E gap \in 0..MaxGap : Poll(gap)
    BY <1>1, PollInv
  <1>2. CASE Turn
    BY <1>2, QuietInv, RespondInv, CheckInv, BootInv DEF Turn
  <1>3. CASE ClientStep
    BY <1>3, ClientInv, SendInv DEF ClientStep
  <1>4. CASE UNCHANGED vars
    BY <1>4, StutterInv
  <1> QED BY <1>1, <1>2, <1>3, <1>4 DEF Next, Gone

LEMMA Invariance == Spec => []IInv
  BY InitInv, NextInv, PTL DEF Spec

\* main.rs 175-186: no boot before the grace period, none later than one gap
\* after the limit.
THEOREM BootsComeInTime == Spec => []BootsInTime
  <1>1. IInv => BootsInTime
    BY DEF IInv, TimeSound
  <1> QED BY <1>1, Invariance, PTL

\* main.rs 178-181: a boot before the limit does not cut off its own response.
THEOREM AnswersComeFirst == Spec => []AnswersBeforeBoot
  <1>1. IInv => AnswersBeforeBoot
    BY DEF IInv, AnswerSound
  <1> QED BY <1>1, Invariance, PTL

\* main.rs 160-184: every boot was asked for by a client, and is of a younger
\* POST than all boots before it.
THEOREM OnlyRequestsBoot == Spec => BootsAsRequested
  <1>1. IInv /\ [Next]_vars =>
           [Boots => attempt'.os \in asked /\ \A i \in booted : i < attempt'.id]_vars
    <2> SUFFICES ASSUME IInv, Next, Boots
                 PROVE  attempt'.os \in asked /\ \A i \in booted : i < attempt'.id
      OBVIOUS
    <2>1. Check /\ pending # NoBoot
      BY DEF Boots, Next, Poll, Turn, Listen, NothingToRead, ReadInVain, Respond, Check,
             BootComesBack, BootTakesOver, ClientStep, Connect, Send, Ack, AckFin, Fin,
             Reset, Gone, vars
    <2>2. attempt' = [os |-> pending.os, id |-> pending.id, age |-> age]
      BY <2>1 DEF Check, Boots
    <2>3. attempt'.os = pending.os /\ attempt'.id = pending.id
      BY <2>2
    <2> QED BY <2>1, <2>3 DEF IInv, RequestSound
  <1> QED BY <1>1, Invariance, PTL DEF Spec, BootsAsRequested

----------------------------------------------------------------------------
(* The bounds of the model are never exceeded                               *)

\* A response takes a piece out of the receive buffer; what is not pending has
\* no age; whatever is booted was pending.
CountSound ==
    /\ pieces \in 0..MaxPieces
    /\ Len(answer) + Len(rx) <= pieces
    /\ client \in {"nothing", "half", "request"}
    /\ asked \subseteq Os
    /\ attempt \in [os : Os, id : PostId, age : Nat] \cup {NoAttempt}
    /\ pending = NoBoot => age = 0
    /\ pc \in {"boot", "gone"} => pending = NoBoot

LEMMA InitCount == Init => CountSound
  BY RemoteBootAssumption DEF Init, CountSound

LEMMA LoopCount ==
    ASSUME IInv, CountSound,
           \/ \E gap \in 0..MaxGap : Poll(gap)
           \/ Listen \/ NothingToRead \/ ReadInVain \/ BootComesBack \/ BootTakesOver
           \/ UNCHANGED vars
    PROVE  CountSound'
  <1>1. /\ UNCHANGED <<pieces, answer, asked, pending>>
        /\ rx' \in {rx, << >>} /\ client' \in {client, "nothing"} /\ attempt' \in {attempt, NoAttempt}
        /\ pending = NoBoot /\ age = 0 => age' = 0
        /\ pc' \in {"boot", "gone"} => pc \in {"boot", "gone"}
    BY DEF Poll, Listen, NothingToRead, ReadInVain, BootComesBack, BootTakesOver, vars,
           netVars, bootVars, clientVars, history
  <1>2. Len(rx') <= Len(rx) /\ Len(rx) \in Nat /\ Len(rx') \in Nat /\ Len(answer) \in Nat
    BY <1>1 DEF IInv, Types
  <1>3. Len(answer') + Len(rx') <= pieces' /\ pieces' \in 0..MaxPieces
    BY <1>1, <1>2 DEF CountSound
  <1> QED BY <1>1, <1>3 DEF CountSound

LEMMA RespondCount == ASSUME IInv, CountSound, Respond PROVE CountSound'
  <1>1. /\ rx \in Seq(Piece) /\ rx # << >> /\ rx' = << >>
        /\ answer \in Seq(Outcome)
        /\ UNCHANGED <<pieces, asked, client, attempt>> /\ pc' = "check"
    BY DEF IInv, Types, Respond, clientVars
  <1>2. Len(rx) \in Nat \ {0} /\ Len(rx') = 0 /\ Len(answer) \in Nat
    BY <1>1
  <1>3. CASE Parsed \in Os
    <2>1. /\ pending' = [os |-> Parsed, id |-> Len(answer) + 1] /\ age' = 0
          /\ answer' = Append(answer, IF MaySend THEN "queued" ELSE "unsent")
      BY <1>3 DEF Respond
    <2>2. Len(answer') = Len(answer) + 1
      BY <1>1, <2>1
    <2>3. Len(answer') + Len(rx') <= pieces' /\ pieces' \in 0..MaxPieces
      BY <1>1, <1>2, <2>2 DEF CountSound
    <2> QED BY <1>1, <2>1, <2>3 DEF CountSound
  <1>4. CASE Parsed \notin Os
    <2>1. UNCHANGED <<pending, age, answer>>
      BY <1>4 DEF Respond, bootVars
    <2>2. Len(answer') + Len(rx') <= pieces' /\ pieces' \in 0..MaxPieces
      BY <1>1, <1>2, <2>1 DEF CountSound
    <2> QED BY <1>1, <2>1, <2>2 DEF CountSound
  <1> QED BY <1>3, <1>4

LEMMA CheckCount == ASSUME IInv, CountSound, Check PROVE CountSound'
  <1>1. UNCHANGED <<rx, answer, pieces, asked, client>>
    BY DEF Check, netVars, clientVars
  <1>2. CASE pending # NoBoot /\ MayBoot
    <2>1. /\ pending' = NoBoot /\ age' = 0
          /\ attempt' = [os |-> pending.os, id |-> pending.id, age |-> age]
      BY <1>2 DEF Check, Take
    <2>2. pending.os \in Os /\ pending.id \in 1..Len(answer) /\ age \in Nat
      BY <1>2 DEF IInv, Types, AnswerSound
    <2>3. pending.id \in PostId
      <3>1. Len(answer) \in Nat /\ Len(rx) \in Nat
        BY DEF IInv, Types
      <3>2. Len(answer) <= MaxPieces
        BY <3>1, RemoteBootAssumption DEF CountSound
      <3> QED BY <2>2, <3>1, <3>2, RemoteBootAssumption DEF PostId
    <2> QED BY <1>1, <2>1, <2>2, <2>3 DEF CountSound
  <1>3. CASE ~(pending # NoBoot /\ MayBoot)
    BY <1>1, <1>3 DEF Check, CountSound, bootVars
  <1> QED BY <1>2, <1>3

LEMMA ClientCount == ASSUME IInv, CountSound, ClientStep PROVE CountSound'
  <1>1. UNCHANGED <<pc, pending, age, attempt>> /\ pc = "idle"
    BY DEF ClientStep, Connect, Send, Ack, AckFin, Fin, Reset, bootVars
  <1>2. answer \in Seq(Outcome) /\ rx \in Seq(Piece) /\ Len(answer) \in Nat /\ Len(rx) \in Nat
    BY DEF IInv, Types
  <1>3. CASE \E p \in Piece : Send(p)
    <2>1. PICK p \in Piece : Send(p)
      BY <1>3
    <2>2. /\ Len(rx') = Len(rx) + 1 /\ pieces' = pieces + 1 /\ pieces < MaxPieces
          /\ UNCHANGED answer /\ client' \in {"half", "request"}
      BY <1>2, <2>1 DEF Send, history
    <2>3. asked' \subseteq Os
      BY <2>1 DEF CountSound, Send, Os
    <2>4. Len(answer') + Len(rx') <= pieces' /\ pieces' \in 0..MaxPieces
      BY <1>2, <2>2, RemoteBootAssumption DEF CountSound
    <2> QED BY <1>1, <2>2, <2>3, <2>4 DEF CountSound
  <1>4. CASE Connect \/ Ack \/ AckFin \/ Fin \/ Reset
    <2>1. /\ UNCHANGED <<rx, pieces, asked>> /\ client' \in {client, "nothing"}
          /\ answer' \in {answer, Settled("acked"), Settled("lost")}
      BY <1>4 DEF Connect, Ack, AckFin, Fin, Reset, clientVars, history
    <2>2. Len(Settled("acked")) = Len(answer) /\ Len(Settled("lost")) = Len(answer)
      BY <1>2, SettledProperties DEF Outcome
    <2>3. Len(answer') + Len(rx') <= pieces' /\ pieces' \in 0..MaxPieces
      BY <1>2, <2>1, <2>2 DEF CountSound
    <2> QED BY <1>1, <2>1, <2>3 DEF CountSound
  <1> QED BY <1>3, <1>4 DEF ClientStep

LEMMA NextCount == IInv /\ CountSound /\ [Next]_vars => CountSound'
  <1> SUFFICES ASSUME IInv, CountSound, [Next]_vars PROVE CountSound'
    OBVIOUS
  <1>1. CASE \E gap \in 0..MaxGap : Poll(gap)
    BY <1>1, LoopCount
  <1>2. CASE Turn
    BY <1>2, LoopCount, RespondCount, CheckCount DEF Turn
  <1>3. CASE ClientStep
    BY <1>3, ClientCount
  <1>4. CASE UNCHANGED vars
    BY <1>4, LoopCount
  <1> QED BY <1>1, <1>2, <1>3, <1>4 DEF Next, Gone

\* run_network (lines 131-206): the variables keep their types; there is never
\* more than one response for a piece of a request, and no selection that gets
\* older than the limit and one gap.
THEOREM TypeCorrect == Spec => []TypeOK
  <1>1. IInv /\ CountSound => TypeOK
    <2> SUFFICES ASSUME IInv, CountSound PROVE TypeOK
      OBVIOUS
    <2>1. /\ Len(answer) \in Nat /\ Len(rx) \in Nat
          /\ 1..Len(answer) \subseteq PostId
      <3>1. Len(answer) \in Nat /\ Len(rx) \in Nat
        BY DEF IInv, Types
      <3>2. Len(answer) <= MaxPieces
        BY <3>1, RemoteBootAssumption DEF CountSound
      <3> QED BY <3>1, <3>2, RemoteBootAssumption DEF PostId
    <2>2. pending \in [os : Os, id : PostId] \cup {NoBoot}
      <3>1. CASE pending # NoBoot
        <4>1. pending.id \in PostId /\ pending \in [os : Os, id : Nat]
          BY <2>1, <3>1 DEF IInv, AnswerSound, Types
        <4> QED BY <4>1
      <3> QED BY <3>1
    <2>3. age \in 0..(Limit + MaxGap)
      <3>1. age \in Nat /\ (pending = NoBoot => age = 0) /\ (pending # NoBoot => age < Limit + MaxGap)
        BY RemoteBootAssumption DEF IInv, Types, TimeSound, CountSound
      <3> QED BY <3>1, RemoteBootAssumption
    <2>4. booted \subseteq PostId
      BY <2>1 DEF IInv, RequestSound
    <2> QED BY <2>2, <2>3, <2>4 DEF IInv, Types, CountSound, TypeOK, Outcome
  <1> QED BY <1>1, Invariance, InitCount, NextCount, PTL DEF Spec
=============================================================================
