--------------------------- MODULE LogWindowProofs ---------------------------
(***************************************************************************)
(* The invariants of LogWindow, for every limit and any messages:          *)
(* re-entrant logging draws one flush inside one draw and no more          *)
(* (DrawsAreBounded), what is kept is the end of the log, as much of it as *)
(* fits (LogIsRecent), and what the program logs is on the screen when it  *)
(* goes on (RealTime).                                                     *)
(*                                                                         *)
(* DrawInv is about the draws alone, LogSound about the texts alone, and   *)
(* ScreenSound, which needs both, about what the draws have shown of them. *)
(***************************************************************************)
EXTENDS LogWindow, SeqFilterProofs

DrawRecord == [who : {"ui", "flush"}, rendered : BOOLEAN]

\* The user interface draws first, or not at all; a flush is innermost.
NoDraw == Len(draws) = 0
UiOnly == Len(draws) = 1 /\ draws[1].who = "ui"
FlushOnly == Len(draws) = 1 /\ draws[1].who = "flush"
FlushInUi == Len(draws) = 2 /\ draws[1].who = "ui" /\ draws[2].who = "flush"

DrawInv ==
    /\ draws \in Seq(DrawRecord)
    /\ inFlush \in BOOLEAN
    /\ \/ NoDraw /\ inFlush = FALSE
       \/ UiOnly /\ inFlush = FALSE
       \/ FlushOnly /\ inFlush = TRUE
       \/ FlushInUi /\ inFlush = TRUE

LEMMA DrawInit == Init => DrawInv
  <1> SUFFICES ASSUME Init PROVE DrawInv
    OBVIOUS
  <1>1. draws \in Seq(DrawRecord) /\ NoDraw
    BY DEF Init, NoDraw
  <1> QED BY <1>1 DEF Init, DrawInv

\* What force_flush_logs does to the guard and the draws, wherever it is called.
LEMMA ForceFlushInv ==
    ASSUME DrawInv, NEW due, ForceFlush(due)
    PROVE  DrawInv'
  <1>1. CASE Guarded(due) \/ TooEarly(due)
    BY <1>1 DEF Guarded, TooEarly, DrawInv, NoDraw, UiOnly, FlushOnly, FlushInUi
  <1>2. CASE FlushBegins(due)
    <2> DEFINE d == [who |-> "flush", rendered |-> FALSE]
    <2>1. draws \in Seq(DrawRecord) /\ draws' = Append(draws, d) /\ inFlush' = TRUE /\ ~inFlush
      BY <1>2 DEF FlushBegins, Draw, DrawInv
    <2>2. d \in DrawRecord /\ d.who = "flush"
      BY DEF DrawRecord
    <2> HIDE DEF d
    <2>3. /\ draws' \in Seq(DrawRecord) /\ Len(draws') = Len(draws) + 1
          /\ draws'[Len(draws) + 1] = d
          /\ Len(draws) = 1 => draws'[1] = draws[1]
      BY <2>1, <2>2
    <2>4. CASE NoDraw
      <3>1. FlushOnly'
        BY <2>2, <2>3, <2>4 DEF NoDraw, FlushOnly
      <3> QED BY <2>1, <2>3, <3>1 DEF DrawInv
    <2>5. CASE UiOnly
      <3>1. FlushInUi'
        BY <2>2, <2>3, <2>5 DEF UiOnly, FlushInUi
      <3> QED BY <2>1, <2>3, <3>1 DEF DrawInv
    <2> QED BY <2>1, <2>4, <2>5 DEF DrawInv
  <1> QED BY <1>1, <1>2 DEF ForceFlush

LEMMA UiDrawsInv == DrawInv /\ UiDraws => DrawInv'
  <1> SUFFICES ASSUME DrawInv, UiDraws PROVE DrawInv'
    OBVIOUS
  <1> DEFINE d == [who |-> "ui", rendered |-> FALSE]
  <1>1. draws = << >> /\ draws' = Append(draws, d) /\ UNCHANGED inFlush
    BY DEF UiDraws, Draw
  <1>2. d \in DrawRecord /\ d.who = "ui"
    BY DEF DrawRecord
  <1> HIDE DEF d
  <1>3. draws' \in Seq(DrawRecord) /\ Len(draws') = 1 /\ draws'[1] = d
    BY <1>1, <1>2
  <1>4. UiOnly'
    BY <1>2, <1>3 DEF UiOnly
  <1>5. Len(draws) = 0
    BY <1>1
  <1>6. inFlush = FALSE
    BY <1>5 DEF DrawInv, UiOnly, FlushOnly, FlushInUi
  <1> QED BY <1>1, <1>3, <1>4, <1>6 DEF DrawInv

LEMMA RenderInv == DrawInv /\ Render => DrawInv'
  <1> SUFFICES ASSUME DrawInv, Render PROVE DrawInv'
    OBVIOUS
  <1> DEFINE n == Len(draws)
             r == [who |-> draws[n].who, rendered |-> TRUE]
  <1>1. draws \in Seq(DrawRecord) /\ draws # << >>
    BY DEF DrawInv, Render
  <1>2. n \in Nat /\ n \in 1..n
    BY <1>1, EmptySeq
  <1>3. draws[n] \in DrawRecord
    BY <1>1, <1>2
  <1>4. r \in DrawRecord /\ r.who = draws[n].who
    BY <1>3 DEF DrawRecord
  <1>5. draws' = [draws EXCEPT ![n] = r]
    BY DEF Render
  <1> HIDE DEF r
  <1>6. /\ draws' \in Seq(DrawRecord) /\ Len(draws') = Len(draws)
        /\ \A i \in 1..Len(draws) : draws'[i] = IF i = n THEN r ELSE draws[i]
    BY <1>1, <1>2, <1>4, <1>5, ExceptSeq
  <1>7. \A i \in 1..Len(draws) : draws'[i].who = draws[i].who
    BY <1>4, <1>6
  <1>8. /\ NoDraw => NoDraw'
        /\ UiOnly => UiOnly'
        /\ FlushOnly => FlushOnly'
        /\ FlushInUi => FlushInUi'
    BY <1>6, <1>7 DEF NoDraw, UiOnly, FlushOnly, FlushInUi
  <1>9. draws' \in Seq(DrawRecord) /\ inFlush' = inFlush
    BY <1>6 DEF Render
  <1> QED BY <1>8, <1>9 DEF DrawInv

\* The innermost draw ends; the guard goes with the only flush.
LEMMA DrawEndsInv == DrawInv /\ DrawEnds => DrawInv'
  <1> SUFFICES ASSUME DrawInv, DrawEnds PROVE DrawInv'
    OBVIOUS
  <1>1. draws \in Seq(DrawRecord) /\ draws # << >>
    BY DEF DrawInv, DrawEnds
  <1>2. Len(draws) \in Nat \ {0}
    BY <1>1
  <1>3. draws' = SubSeq(draws, 1, Len(draws) - 1)
    BY DEF DrawEnds, Front
  <1>4. inFlush' = (inFlush /\ draws[Len(draws)].who # "flush")
    BY DEF DrawEnds, Last
  <1>5. /\ draws' \in Seq(DrawRecord) /\ Len(draws') = Len(draws) - 1
        /\ \A i \in 1..(Len(draws) - 1) : draws'[i] = draws[i]
    <2>1. \A i \in 1..(Len(draws) - 1) : draws[i] \in DrawRecord
      BY <1>1, <1>2
    <2> DEFINE k == Len(draws) - 1
    <2>2. k \in Nat
      BY <1>2
    <2> HIDE DEF k
    <2>3. /\ SubSeq(draws, 1, k) \in Seq(DrawRecord)
          /\ Len(SubSeq(draws, 1, k)) = IF 1 <= k THEN k - 1 + 1 ELSE 0
          /\ \A i \in 1..(k - 1 + 1) : SubSeq(draws, 1, k)[i] = draws[1 + i - 1]
      BY <2>1, <2>2, SubSeqProperties DEF k
    <2>4. draws' = SubSeq(draws, 1, k) /\ Len(draws) - 1 = k
      BY <1>3 DEF k
    <2>5. /\ Len(SubSeq(draws, 1, k)) = k
          /\ \A i \in 1..k : SubSeq(draws, 1, k)[i] = draws[i]
      <3>1. k - 1 + 1 = k /\ (~(1 <= k) => k = 0) /\ \A i \in 1..k : 1 + i - 1 = i
        BY <2>2
      <3> QED BY <2>3, <3>1
    <2> QED BY <2>3, <2>4, <2>5
  <1>6. CASE UiOnly \/ FlushOnly
    <2>1. NoDraw'
      BY <1>5, <1>6 DEF NoDraw, UiOnly, FlushOnly
    <2>2. inFlush' = FALSE
      BY <1>2, <1>4, <1>6 DEF DrawInv, NoDraw, UiOnly, FlushOnly, FlushInUi
    <2> QED BY <1>5, <2>1, <2>2 DEF DrawInv
  <1>7. CASE FlushInUi
    <2>1. UiOnly'
      BY <1>5, <1>7 DEF UiOnly, FlushInUi
    <2>2. inFlush' = FALSE
      BY <1>4, <1>7 DEF FlushInUi
    <2> QED BY <1>5, <2>1, <2>2 DEF DrawInv
  <1> QED BY <1>2, <1>6, <1>7 DEF DrawInv, NoDraw

LEMMA DrawNext == DrawInv /\ [Next]_vars => DrawInv'
  <1> SUFFICES ASSUME DrawInv, [Next]_vars PROVE DrawInv'
    OBVIOUS
  <1>1. CASE \E m \in Message : LogToWindow(m)
    BY <1>1, ForceFlushInv DEF LogToWindow
  <1>2. CASE Flush
    <2>1. ForceFlush(dirty)
      BY <1>2 DEF Flush
    <2> QED BY <2>1, ForceFlushInv
  <1>3. CASE UiDraws
    BY <1>3, UiDrawsInv
  <1>4. CASE Render
    BY <1>4, RenderInv
  <1>5. CASE DrawEnds
    BY <1>5, DrawEndsInv
  <1>6. CASE \/ \E m \in Message : LogEarly(m) \/ LogPanics(m)
             \/ OpenWindow \/ StartScreen \/ Stop \/ UNCHANGED vars
    BY <1>6 DEF LogEarly, LogPanics, OpenWindow, StartScreen, Stop, vars, drawVars, DrawInv, NoDraw, UiOnly, FlushOnly, FlushInUi
  <1> QED BY <1>1, <1>2, <1>3, <1>4, <1>5, <1>6 DEF Next

\* README.md 27 and slint_plat.rs 443-500: IN_FLUSH is set just while a flush
\* draws, a flush never draws inside a flush, and draws nest at most once.
THEOREM ReentryIsBounded == Spec => []DrawsAreBounded
  <1>1. DrawInv => DrawsAreBounded
    <2> SUFFICES ASSUME DrawInv PROVE DrawsAreBounded
      OBVIOUS
    <2>1. CASE NoDraw /\ inFlush = FALSE
      BY <2>1 DEF DrawInv, NoDraw, UiOnly, FlushOnly, FlushInUi, DrawsAreBounded
    <2>2. CASE UiOnly /\ inFlush = FALSE
      BY <2>2 DEF DrawInv, NoDraw, UiOnly, FlushOnly, FlushInUi, DrawsAreBounded
    <2>3. CASE FlushOnly /\ inFlush = TRUE
      BY <2>3 DEF DrawInv, NoDraw, UiOnly, FlushOnly, FlushInUi, DrawsAreBounded
    <2>4. CASE FlushInUi /\ inFlush = TRUE
      BY <2>4 DEF DrawInv, NoDraw, UiOnly, FlushOnly, FlushInUi, DrawsAreBounded
    <2> QED BY <2>1, <2>2, <2>3, <2>4 DEF DrawInv
  <1> QED BY <1>1, DrawInit, DrawNext, PTL DEF Spec

----------------------------------------------------------------------------
(* The lengths of texts                                                     *)

LEMMA MessageLength == \A m \in Message : m.len \in Nat \ {0} /\ m.id \in 1..MaxLogs
  <1> SUFFICES ASSUME NEW m \in Message PROVE m.len \in Nat \ {0} /\ m.id \in 1..MaxLogs
    OBVIOUS
  <1>1. m.len \in Lengths /\ m.id \in 1..MaxLogs
    BY DEF Message
  <1> QED BY <1>1, LogWindowAssumption

\* The right-hand side of the recursive definition of Ends.
EndStep(s, F, i) == IF i = 0 THEN 0 ELSE F[i - 1] + s[i].len

LEMMA EndsExist ==
    ASSUME NEW s \in Seq(Message), NEW n \in Nat
    PROVE  \E F : F = [i \in 0..n |-> EndStep(s, F, i)]
  <1> DEFINE Bad == {k \in Nat : ~ \E F : F = [i \in 0..k |-> EndStep(s, F, i)]}
  <1> SUFFICES ASSUME Bad # {} PROVE FALSE
    OBVIOUS
  <1>1. PICK m \in Bad : \A k \in Bad : m <= k
    <2>1. Bad \in SUBSET Nat
      OBVIOUS
    <2> HIDE DEF Bad
    <2> QED BY <2>1, NatMinimum
  <1>2. m # 0
    <2> DEFINE F0 == [i \in 0..0 |-> 0]
    <2>1. F0 = [i \in 0..0 |-> EndStep(s, F0, i)]
      BY DEF EndStep
    <2> HIDE DEF F0
    <2>2. \E F : F = [i \in 0..0 |-> EndStep(s, F, i)]
      BY <2>1
    <2> QED BY <2>2, <1>1
  <1>3. m \in Nat /\ m - 1 \in Nat /\ m - 1 \notin Bad
    BY <1>1, <1>2
  <1>4. PICK F : F = [i \in 0..(m - 1) |-> EndStep(s, F, i)]
    BY <1>3
  <1> DEFINE G == [i \in 0..m |-> IF i < m THEN F[i] ELSE EndStep(s, F, m)]
  <1>5. ASSUME NEW i \in 0..m PROVE G[i] = EndStep(s, G, i)
    <2>1. m \in Nat /\ i \in Nat
      BY <1>3
    <2>2. CASE i = 0
      <3>1. 0 \in 0..(m - 1)
        BY <1>3
      <3>2. F[0] = EndStep(s, F, 0)
        BY <1>4, <3>1
      <3>3. G[0] = F[0]
        BY <1>2, <1>3
      <3> QED BY <2>2, <3>2, <3>3 DEF EndStep
    <2>3. CASE i # 0
      <3>1. i - 1 \in 0..m /\ i - 1 < m
        BY <2>1, <2>3
      <3>2. G[i - 1] = F[i - 1]
        BY <3>1
      <3>3. G[i] = EndStep(s, F, i)
        BY <2>1, <1>4
      <3> QED BY <3>2, <3>3, <2>3 DEF EndStep
    <2> QED BY <2>2, <2>3
  <1>6. G = [i \in 0..m |-> EndStep(s, G, i)]
    <2> DEFINE H == [i \in 0..m |-> EndStep(s, G, i)]
    <2>1. \A i \in 0..m : G[i] = H[i]
      BY <1>5
    <2> QED BY <2>1
  <1> QED BY <1>6, <1>1

\* Ends computes its recursive definition.
LEMMA EndsUnfold ==
    ASSUME NEW s \in Seq(Message)
    PROVE  /\ Ends(s)[0] = 0
           /\ \A i \in 1..Len(s) : i - 1 \in 0..Len(s) /\ Ends(s)[i] = Ends(s)[i - 1] + s[i].len
  <1>1. \E F : F = [i \in 0..Len(s) |-> EndStep(s, F, i)]
    <2>1. Len(s) \in Nat
      OBVIOUS
    <2> QED BY <2>1, EndsExist, Zenon
  <1>2. Ends(s) = [i \in 0..Len(s) |-> EndStep(s, Ends(s), i)]
    BY <1>1 DEF Ends, EndStep
  <1> DEFINE e == Ends(s)
  <1>3. \A i \in 0..Len(s) : e[i] = EndStep(s, e, i)
    BY <1>2
  <1> HIDE DEF e
  <1>4. e[0] = 0
    <2>1. 0 \in 0..Len(s)
      OBVIOUS
    <2>2. e[0] = EndStep(s, e, 0)
      BY <1>3, <2>1, Zenon
    <2> QED BY <2>2 DEF EndStep
  <1>5. \A i \in 1..Len(s) : i \in 0..Len(s) /\ i - 1 \in 0..Len(s) /\ i # 0
    OBVIOUS
  <1>6. \A i \in 1..Len(s) : e[i] = e[i - 1] + s[i].len
    BY <1>3, <1>5 DEF EndStep
  <1> QED BY <1>4, <1>5, <1>6 DEF e

LEMMA EndsNext ==
    ASSUME NEW s \in Seq(Message), NEW i \in 1..Len(s)
    PROVE  Ends(s)[i] = Ends(s)[i - 1] + s[i].len
  BY EndsUnfold

LEMMA EndsNat ==
    ASSUME NEW s \in Seq(Message)
    PROVE  \A i \in 0..Len(s) : Ends(s)[i] \in Nat
  <1> DEFINE Bad == {i \in 0..Len(s) : Ends(s)[i] \notin Nat}
  <1> SUFFICES ASSUME Bad # {} PROVE FALSE
    OBVIOUS
  <1>1. PICK m \in Bad : \A k \in Bad : m <= k
    <2>1. Bad \in SUBSET Nat
      OBVIOUS
    <2> HIDE DEF Bad
    <2> QED BY <2>1, NatMinimum
  <1>2. m # 0
    BY <1>1, EndsUnfold
  <1>3. m \in 1..Len(s) /\ m - 1 \in 0..Len(s) /\ m - 1 \notin Bad
    BY <1>1, <1>2
  <1>4. Ends(s)[m] = Ends(s)[m - 1] + s[m].len
    BY <1>3, EndsNext, Zenon
  <1>5. Ends(s)[m - 1] \in Nat /\ s[m].len \in Nat
    BY <1>3, MessageLength
  <1>6. Ends(s)[m] \in Nat
    BY <1>4, <1>5
  <1> QED BY <1>1, <1>6

\* The ends of the messages of a part t of s, which begins behind the k-th.
LEMMA EndsOfPart ==
    ASSUME NEW s \in Seq(Message), NEW t \in Seq(Message), NEW k \in Nat,
           k + Len(t) <= Len(s), \A i \in 1..Len(t) : t[i] = s[k + i]
    PROVE  \A i \in 0..Len(t) : Ends(s)[k + i] = Ends(s)[k] + Ends(t)[i]
  <1> DEFINE Bad == {i \in 0..Len(t) : Ends(s)[k + i] # Ends(s)[k] + Ends(t)[i]}
  <1> SUFFICES ASSUME Bad # {} PROVE FALSE
    OBVIOUS
  <1>1. PICK m \in Bad : \A i \in Bad : m <= i
    <2>1. Bad \in SUBSET Nat
      OBVIOUS
    <2> HIDE DEF Bad
    <2> QED BY <2>1, NatMinimum
  <1>2. k \in 0..Len(s) /\ Ends(s)[k] \in Nat
    BY EndsNat
  <1>3. m # 0
    BY <1>1, <1>2, EndsUnfold
  <1>4. m \in 1..Len(t) /\ m - 1 \in 0..Len(t) /\ m - 1 \notin Bad
    BY <1>1, <1>3
  <1>5. Ends(s)[k + (m - 1)] = Ends(s)[k] + Ends(t)[m - 1]
    BY <1>4
  <1>6. Ends(t)[m] = Ends(t)[m - 1] + t[m].len
    BY <1>4, EndsNext, Zenon
  <1>7. k + m \in 1..Len(s) /\ (k + m) - 1 = k + (m - 1)
    BY <1>4
  <1>8. Ends(s)[k + m] = Ends(s)[k + (m - 1)] + t[m].len
    <2>1. t[m] = s[k + m]
      BY <1>4
    <2> DEFINE x == k + m
    <2>2. x \in 1..Len(s) /\ x - 1 = k + (m - 1) /\ s[x] = t[m]
      BY <1>7, <2>1
    <2> HIDE DEF x
    <2>3. Ends(s)[x] = Ends(s)[x - 1] + s[x].len
      BY <2>2, EndsNext, Zenon
    <2>4. Ends(s)[x] = Ends(s)[k + (m - 1)] + t[m].len
      BY <2>2, <2>3, Zenon
    <2> QED BY <2>4, Zenon DEF x
  <1>9. Ends(t)[m - 1] \in Nat /\ t[m].len \in Nat
    BY <1>4, EndsNat, MessageLength
  <1>10. Ends(s)[k + m] = Ends(s)[k] + Ends(t)[m]
    <2> DEFINE a == Ends(s)[k]
               b == Ends(t)[m - 1]
               c == t[m].len
    <2>1. a \in Nat /\ b \in Nat /\ c \in Nat
      BY <1>2, <1>9
    <2>2. Ends(s)[k + m] = (a + b) + c
      BY <1>5, <1>8, Zenon
    <2>3. Ends(t)[m] = b + c
      BY <1>6
    <2>4. (a + b) + c = a + (b + c)
      <3> HIDE DEF a, b, c
      <3> QED BY <2>1
    <2>5. Ends(s)[k + m] = a + Ends(t)[m]
      <3> HIDE DEF a, b, c
      <3> QED BY <2>2, <2>3, <2>4
    <2> QED BY <2>5
  <1> QED BY <1>1, <1>10

LEMMA EndsGrow ==
    ASSUME NEW s \in Seq(Message), NEW i \in 0..Len(s), NEW k \in 0..Len(s), i <= k
    PROVE  Ends(s)[i] <= Ends(s)[k]
  <1> DEFINE Bad == {j \in 0..Len(s) : i <= j /\ ~(Ends(s)[i] <= Ends(s)[j])}
  <1> SUFFICES ASSUME Bad # {} PROVE FALSE
    OBVIOUS
  <1>1. PICK m \in Bad : \A j \in Bad : m <= j
    <2>1. Bad \in SUBSET Nat
      OBVIOUS
    <2> HIDE DEF Bad
    <2> QED BY <2>1, NatMinimum
  <1>2. Ends(s)[i] \in Nat /\ Ends(s)[m] \in Nat
    BY <1>1, EndsNat
  <1>3. m # i
    BY <1>1, <1>2
  <1>4. m \in 1..Len(s) /\ m - 1 \in 0..Len(s) /\ i <= m - 1 /\ m - 1 \notin Bad
    BY <1>1, <1>3
  <1>5. Ends(s)[m - 1] \in Nat /\ s[m].len \in Nat /\ Ends(s)[i] <= Ends(s)[m - 1]
    BY <1>4, EndsNat, MessageLength
  <1>6. Ends(s)[m] = Ends(s)[m - 1] + s[m].len
    BY <1>4, EndsNext, Zenon
  <1>7. Ends(s)[i] <= Ends(s)[m]
    BY <1>2, <1>5, <1>6
  <1> QED BY <1>1, <1>7

\* The lengths of an end of s and of the whole.
LEMMA EndOfText ==
    ASSUME NEW s \in Seq(Message), NEW k \in 0..Len(s)
    PROVE  /\ SubSeq(s, k + 1, Len(s)) \in Seq(Message)
           /\ Len(SubSeq(s, k + 1, Len(s))) = Len(s) - k
           /\ \A i \in 1..(Len(s) - k) : SubSeq(s, k + 1, Len(s))[i] = s[k + i]
           /\ Total(SubSeq(s, k + 1, Len(s))) = Total(s) - Ends(s)[k]
  <1> DEFINE t == SubSeq(s, k + 1, Len(s))
  <1>1. \A i \in (k + 1)..Len(s) : s[i] \in Message
    OBVIOUS
  <1>2. /\ t \in Seq(Message)
        /\ Len(t) = IF k + 1 <= Len(s) THEN Len(s) - (k + 1) + 1 ELSE 0
        /\ \A i \in 1..(Len(s) - (k + 1) + 1) : t[i] = s[(k + 1) + i - 1]
    BY <1>1, SubSeqProperties
  <1>3. Len(t) = Len(s) - k /\ \A i \in 1..(Len(s) - k) : t[i] = s[k + i]
    BY <1>2
  <1> HIDE DEF t
  <1>4. Ends(s)[k + Len(t)] = Ends(s)[k] + Ends(t)[Len(t)]
    <2>1. k \in Nat /\ k + Len(t) <= Len(s) /\ Len(t) \in 0..Len(t)
      BY <1>3
    <2>2. \A i \in 1..Len(t) : t[i] = s[k + i]
      BY <1>3
    <2>3. \A i \in 0..Len(t) : Ends(s)[k + i] = Ends(s)[k] + Ends(t)[i]
      BY <1>2, <2>1, <2>2, EndsOfPart
    <2> QED BY <2>1, <2>3
  <1>5. Ends(s)[k] \in Nat /\ Ends(t)[Len(t)] \in Nat
    BY <1>2, EndsNat
  <1>6. Total(t) = Total(s) - Ends(s)[k]
    BY <1>3, <1>4, <1>5 DEF Total
  <1> QED BY <1>2, <1>3, <1>6 DEF t

\* The cut text is an end of the text that is not longer than the limit, and
\* what is left with one message more is.
LEMMA KeptProperties ==
    ASSUME NEW s \in Seq(Message)
    PROVE  \E k \in 0..Len(s) :
              /\ Kept(s) = SubSeq(s, k + 1, Len(s))
              /\ Total(Kept(s)) <= Limit
              /\ k > 0 => Total(s) - Ends(s)[k - 1] >= Limit
  <1>1. Total(s) \in Nat /\ Limit \in Nat \ {0}
    BY EndsNat, LogWindowAssumption DEF Total
  <1>2. CASE Total(s) <= Limit
    <2>1. Kept(s) = s /\ s = SubSeq(s, 0 + 1, Len(s))
      BY <1>2, SubSeqFull DEF Kept
    <2>2. 0 \in 0..Len(s) /\ ~(0 > 0)
      OBVIOUS
    <2> QED BY <1>2, <2>1, <2>2, Zenon
  <1>3. CASE ~(Total(s) <= Limit)
    <2> DEFINE Cuts(i) == Ends(s)[i - 1] <= Cut(s) /\ Cut(s) < Ends(s)[i]
               Over == {i \in 0..Len(s) : Cut(s) < Ends(s)[i]}
               first == CHOOSE i \in DOMAIN s : Cuts(i)
    <2>1. Cut(s) = Total(s) - Limit /\ Cut(s) \in Nat /\ Cut(s) < Total(s)
      BY <1>1, <1>3 DEF Cut
    <2>2. PICK m \in Over : \A i \in Over : m <= i
      <3>1. Len(s) \in Over
        BY <2>1 DEF Total
      <3>2. Over \in SUBSET Nat /\ Over # {}
        BY <3>1
      <3> HIDE DEF Over
      <3> QED BY <3>2, NatMinimum
    <2>3. m \in 1..Len(s) /\ m - 1 \in 0..Len(s) /\ m - 1 \notin Over
      BY <2>1, <2>2, EndsUnfold
    <2>4. m \in DOMAIN s /\ Cuts(m)
      <3>1. Ends(s)[m - 1] \in Nat
        BY <2>3, EndsNat
      <3> QED BY <2>1, <2>2, <2>3, <3>1
    <2>5. first \in DOMAIN s /\ Cuts(first)
      <3> HIDE DEF Cuts
      <3> QED BY <2>4
    <2>6. Kept(s) = SubSeq(s, first + 1, Len(s))
      BY <1>3 DEF Kept
    <2> HIDE DEF first
    <2>7. first \in 0..Len(s) /\ first - 1 \in 0..Len(s)
      BY <2>5
    <2>8. Total(Kept(s)) = Total(s) - Ends(s)[first]
      BY <2>6, <2>7, EndOfText
    <2>9. Ends(s)[first] \in Nat /\ Ends(s)[first - 1] \in Nat
      BY <2>7, EndsNat
    <2>10. Total(Kept(s)) <= Limit /\ Total(s) - Ends(s)[first - 1] >= Limit
      BY <1>1, <2>1, <2>5, <2>8, <2>9
    <2> QED BY <2>6, <2>7, <2>10
  <1> QED BY <1>2, <1>3

LEMMA Ending ==
    ASSUME NEW s \in Seq(Message), NEW k \in 0..Len(s)
    PROVE  IsSuffix(SubSeq(s, k + 1, Len(s)), s)
  <1> DEFINE t == SubSeq(s, k + 1, Len(s))
             rs == Reverse(s)
             rt == Reverse(t)
  <1>1. /\ t \in Seq(Message) /\ Len(t) = Len(s) - k
        /\ \A i \in 1..(Len(s) - k) : t[i] = s[k + i]
    BY EndOfText
  <1> HIDE DEF t
  <1>2. /\ rs \in Seq(Message) /\ Len(rs) = Len(s)
        /\ \A i \in 1..Len(s) : rs[i] = s[(Len(s) - i) + 1]
    BY DEF Reverse
  <1>3. /\ rt \in Seq(Message) /\ Len(rt) = Len(t)
        /\ \A i \in 1..Len(t) : rt[i] = t[(Len(t) - i) + 1]
    BY <1>1 DEF Reverse
  <1>4. IsSuffix(t, s) = IsPrefix(rt, rs)
    BY DEF IsSuffix
  <1> HIDE DEF rs, rt
  <1>5. \A i \in 1..Len(rt) : rt[i] = rs[i]
    <2> SUFFICES ASSUME NEW i \in 1..Len(rt) PROVE rt[i] = rs[i]
      OBVIOUS
    <2>1. i \in 1..Len(t) /\ i \in 1..Len(s)
      BY <1>1, <1>3
    <2>2. (Len(t) - i) + 1 \in 1..(Len(s) - k) /\ k + ((Len(t) - i) + 1) = (Len(s) - i) + 1
      BY <1>1, <2>1
    <2> QED BY <1>1, <1>2, <1>3, <2>1, <2>2
  <1>6. Len(rt) <= Len(rs)
    BY <1>1, <1>2, <1>3
  <1>7. SubSeq(rt, 1, Len(rt)) = rt
    BY <1>3, SubSeqFull
  <1>8. SubSeq(rs, 1, Len(rt)) = rt
    <2> DEFINE u == SubSeq(rs, 1, Len(rt))
    <2>1. \A i \in 1..Len(rt) : rs[i] \in Message
      BY <1>2, <1>6
    <2>2. /\ u \in Seq(Message) /\ Len(u) = IF 1 <= Len(rt) THEN Len(rt) - 1 + 1 ELSE 0
          /\ \A i \in 1..(Len(rt) - 1 + 1) : u[i] = rs[1 + i - 1]
      BY <1>3, <2>1, SubSeqProperties
    <2>3. Len(u) = Len(rt) /\ \A i \in 1..Len(rt) : u[i] = rs[i]
      BY <1>3, <2>2
    <2> HIDE DEF u
    <2> QED BY <1>3, <1>5, <2>2, <2>3, SeqEqual DEF u
  <1> QED BY <1>4, <1>6, <1>7, <1>8 DEF IsPrefix, t

----------------------------------------------------------------------------
(* What is kept of what was logged                                          *)

\* u is what is left of s without its first k messages, and without one
\* message less it would have reached the limit.
IsRest(u, s, k) ==
    /\ u = SubSeq(s, k + 1, Len(s))
    /\ k > 0 => Total(s) - Ends(s)[k - 1] >= Limit

LEMMA RestGrows ==
    ASSUME NEW s \in Seq(Message), NEW m \in Message, NEW u, NEW k \in 0..Len(s),
           IsRest(u, s, k)
    PROVE  \E j \in 0..Len(Append(s, m)) : IsRest(Kept(Append(u, m)), Append(s, m), j)
  <1> DEFINE s2 == Append(s, m)
             u2 == Append(u, m)
  <1>1. /\ s2 \in Seq(Message) /\ Len(s2) = Len(s) + 1
        /\ \A i \in 1..Len(s) : s2[i] = s[i]
        /\ s2[Len(s) + 1] = m
    OBVIOUS
  <1>2. /\ u \in Seq(Message) /\ Len(u) = Len(s) - k
        /\ \A i \in 1..(Len(s) - k) : u[i] = s[k + i]
    BY EndOfText DEF IsRest
  <1>3. /\ u2 \in Seq(Message) /\ Len(u2) = Len(u) + 1
        /\ \A i \in 1..Len(u) : u2[i] = u[i]
        /\ u2[Len(u) + 1] = m
    BY <1>2
  <1> HIDE DEF s2, u2
  <1>4. Len(u2) = Len(s2) - k /\ \A i \in 1..Len(u2) : u2[i] = s2[k + i]
    <2>1. Len(u2) = Len(s2) - k
      BY <1>1, <1>2, <1>3
    <2>2. ASSUME NEW i \in 1..Len(u2) PROVE u2[i] = s2[k + i]
      <3>1. CASE i \in 1..Len(u)
        <4>1. i \in 1..(Len(s) - k) /\ k + i \in 1..Len(s)
          BY <1>2, <3>1
        <4> QED BY <1>1, <1>2, <1>3, <3>1, <4>1
      <3>2. CASE i = Len(u) + 1
        <4>1. k + i = Len(s) + 1
          BY <1>2, <3>2
        <4> QED BY <1>1, <1>3, <3>2, <4>1
      <3> QED BY <1>2, <1>3, <3>1, <3>2
    <2> QED BY <2>1, <2>2
  <1>5. PICK j \in 0..Len(u2) :
           /\ Kept(u2) = SubSeq(u2, j + 1, Len(u2))
           /\ j > 0 => Total(u2) - Ends(u2)[j - 1] >= Limit
    BY <1>3, KeptProperties
  <1>6. k + j \in 0..Len(s2)
    BY <1>1, <1>4, <1>5
  <1>7. Kept(u2) = SubSeq(s2, (k + j) + 1, Len(s2))
    <2> DEFINE a == SubSeq(u2, j + 1, Len(u2))
               b == SubSeq(s2, (k + j) + 1, Len(s2))
    <2>1. /\ a \in Seq(Message) /\ Len(a) = Len(u2) - j
          /\ \A i \in 1..(Len(u2) - j) : a[i] = u2[j + i]
      BY <1>3, EndOfText
    <2>2. /\ b \in Seq(Message) /\ Len(b) = Len(s2) - (k + j)
          /\ \A i \in 1..(Len(s2) - (k + j)) : b[i] = s2[(k + j) + i]
      BY <1>1, <1>6, EndOfText
    <2> HIDE DEF a, b
    <2>3. Len(a) = Len(b)
      BY <1>1, <1>4, <2>1, <2>2
    <2>4. ASSUME NEW i \in 1..Len(a) PROVE a[i] = b[i]
      <3>1. j + i \in 1..Len(u2) /\ k + (j + i) = (k + j) + i
        BY <1>3, <2>1
      <3> QED BY <1>4, <2>1, <2>2, <2>3, <3>1
    <2> QED BY <1>5, <2>1, <2>2, <2>3, <2>4, SeqEqual DEF a, b
  <1>8. ASSUME j > 0 PROVE Total(s2) - Ends(s2)[(k + j) - 1] >= Limit
    <2>1. \A i \in 0..Len(u2) : Ends(s2)[k + i] = Ends(s2)[k] + Ends(u2)[i]
      BY <1>1, <1>3, <1>4, EndsOfPart
    <2>2. j - 1 \in 0..Len(u2) /\ Len(u2) \in 0..Len(u2) /\ k \in 0..Len(s2)
      BY <1>1, <1>5, <1>8
    <2>3. k + (j - 1) = (k + j) - 1 /\ k + Len(u2) = Len(s2)
      BY <1>1, <1>4
    <2>4. /\ Ends(s2)[(k + j) - 1] = Ends(s2)[k] + Ends(u2)[j - 1]
          /\ Ends(s2)[Len(s2)] = Ends(s2)[k] + Ends(u2)[Len(u2)]
      BY <2>1, <2>2, <2>3
    <2>5. /\ Ends(s2)[k] \in Nat /\ Ends(u2)[j - 1] \in Nat /\ Ends(u2)[Len(u2)] \in Nat
          /\ Limit \in Nat
      BY <1>1, <1>3, <2>2, EndsNat, LogWindowAssumption
    <2>6. Ends(u2)[Len(u2)] - Ends(u2)[j - 1] >= Limit
      BY <1>5, <1>8 DEF Total
    <2> QED BY <2>4, <2>5, <2>6 DEF Total
  <1>9. ASSUME j = 0, k > 0 PROVE Total(s2) - Ends(s2)[(k + j) - 1] >= Limit
    <2>1. \A i \in 1..Len(s) : s[i] = s2[0 + i]
      BY <1>1
    <2>2. \A i \in 0..Len(s) : Ends(s2)[0 + i] = Ends(s2)[0] + Ends(s)[i]
      BY <1>1, <2>1, EndsOfPart
    <2>3. Ends(s2)[0] = 0
      BY <1>1, EndsUnfold
    <2>4. /\ k - 1 \in 0..Len(s) /\ Len(s) \in 0..Len(s)
          /\ 0 + (k - 1) = k - 1 /\ 0 + Len(s) = Len(s) /\ (k + j) - 1 = k - 1
      BY <1>9
    <2>5. Ends(s)[k - 1] \in Nat /\ Ends(s)[Len(s)] \in Nat
      BY <2>4, EndsNat
    <2>6. Ends(s2)[k - 1] = Ends(s)[k - 1] /\ Ends(s2)[Len(s)] = Ends(s)[Len(s)]
      BY <2>2, <2>3, <2>4, <2>5
    <2>7. Ends(s2)[Len(s2)] = Ends(s2)[Len(s)] + m.len /\ m.len \in Nat /\ Limit \in Nat
      <3>1. Len(s) + 1 \in 1..Len(s2) /\ (Len(s) + 1) - 1 = Len(s)
        BY <1>1
      <3> QED BY <1>1, <3>1, EndsUnfold, MessageLength, LogWindowAssumption
    <2>8. Ends(s)[Len(s)] - Ends(s)[k - 1] >= Limit
      BY <1>9 DEF IsRest, Total
    <2> QED BY <2>4, <2>5, <2>6, <2>7, <2>8 DEF Total
  <1>10. k + j > 0 => Total(s2) - Ends(s2)[(k + j) - 1] >= Limit
    <2>1. k + j > 0 => j > 0 \/ (j = 0 /\ k > 0)
      BY <1>5
    <2> QED BY <1>8, <1>9, <2>1
  <1>11. IsRest(Kept(u2), s2, k + j)
    BY <1>7, <1>10 DEF IsRest
  <1> QED BY <1>6, <1>11 DEF s2, u2

LEMMA KeptRange ==
    ASSUME NEW s \in Seq(Message)
    PROVE  Kept(s) \in Seq(Message) /\ Total(Kept(s)) <= Limit /\ Range(Kept(s)) \subseteq Range(s)
  <1>1. PICK k \in 0..Len(s) : Kept(s) = SubSeq(s, k + 1, Len(s)) /\ Total(Kept(s)) <= Limit
    BY KeptProperties
  <1>2. /\ Kept(s) \in Seq(Message) /\ Len(Kept(s)) = Len(s) - k
        /\ \A i \in 1..(Len(s) - k) : Kept(s)[i] = s[k + i]
    BY <1>1, EndOfText
  <1>3. \A i \in 1..(Len(s) - k) : k + i \in 1..Len(s)
    OBVIOUS
  <1> QED BY <1>1, <1>2, <1>3 DEF Range

\* What is kept is an end of what was logged; it waits in pending until there
\* is a window, and is in the window from then on.
LogSound ==
    /\ phase \in {"early", "window", "screen", "stopped"}
    /\ {pending, text, logged} \subseteq Seq(Message)
    /\ Total(pending) <= Limit /\ Total(text) <= Limit
    /\ phase = "early" => text = << >>
    /\ phase \in {"window", "screen"} => pending = << >>
    /\ \A i \in 1..Len(logged) : logged[i].id = i
    /\ \E k \in 0..Len(logged) : IsRest(text \o pending, logged, k)

LEMMA EmptyText == Ends(<< >>)[0] = 0 /\ Total(<< >>) = 0
  <1>1. << >> \in Seq(Message) /\ Len(<< >>) = 0
    OBVIOUS
  <1>2. Ends(<< >>)[0] = 0
    BY <1>1, EndsUnfold
  <1> QED BY <1>1, <1>2 DEF Total

LEMMA LogInit == Init => LogSound
  <1> SUFFICES ASSUME Init PROVE LogSound
    OBVIOUS
  <1>1. pending = << >> /\ text = << >> /\ logged = << >> /\ phase = "early"
    BY DEF Init
  <1>2. << >> \in Seq(Message) /\ Len(<< >>) = 0 /\ << >> \o << >> = << >>
    OBVIOUS
  <1>3. Total(pending) <= Limit /\ Total(text) <= Limit
    BY <1>1, EmptyText, LogWindowAssumption
  <1>4. IsRest(text \o pending, logged, 0)
    BY <1>1, <1>2, SubSeqEmpty DEF IsRest
  <1>5. \E k \in 0..Len(logged) : IsRest(text \o pending, logged, k)
    BY <1>1, <1>2, <1>4
  <1> QED BY <1>1, <1>2, <1>3, <1>5 DEF LogSound

\* A message is logged, before there is a window or into it.
LEMMA LogStep ==
    ASSUME LogSound, NEW m \in Message, m.id = Len(logged) + 1, logged' = Append(logged, m)
    PROVE  /\ Append(pending, m) \in Seq(Message)
           /\ text \o Append(pending, m) = Append(text \o pending, m)
           /\ logged' \in Seq(Message)
           /\ \A i \in 1..Len(logged') : logged'[i].id = i
           /\ \E k \in 0..Len(logged') : IsRest(Kept(Append(text \o pending, m)), logged', k)
  <1>1. pending \in Seq(Message) /\ text \in Seq(Message) /\ logged \in Seq(Message)
    BY DEF LogSound
  <1>2. text \o Append(pending, m) = Append(text \o pending, m)
    BY <1>1
  <1>3. \A i \in 1..Len(logged') : logged'[i].id = i
    <2>1. /\ Len(logged') = Len(logged) + 1 /\ logged'[Len(logged) + 1] = m
          /\ \A i \in 1..Len(logged) : logged'[i] = logged[i]
      BY <1>1
    <2>2. \A i \in 1..Len(logged) : logged[i].id = i
      BY DEF LogSound
    <2>3. \A i \in 1..Len(logged') : i \in 1..Len(logged) \/ i = Len(logged) + 1
      BY <1>1, <2>1
    <2> QED BY <2>1, <2>2, <2>3
  <1>4. PICK k \in 0..Len(logged) : IsRest(text \o pending, logged, k)
    BY DEF LogSound
  <1>5. \E j \in 0..Len(Append(logged, m)) :
           IsRest(Kept(Append(text \o pending, m)), Append(logged, m), j)
    BY <1>1, <1>4, RestGrows
  <1> QED BY <1>1, <1>2, <1>3, <1>5

LEMMA LogNext == LogSound /\ [Next]_vars => LogSound'
  <1> SUFFICES ASSUME LogSound, [Next]_vars PROVE LogSound'
    OBVIOUS
  <1>1. pending \in Seq(Message) /\ text \in Seq(Message) /\ logged \in Seq(Message)
    BY DEF LogSound
  <1>2. CASE \E m \in Message : LogEarly(m)
    <2>1. PICK m \in Message : LogEarly(m)
      BY <1>2
    <2>2. /\ phase = "early" /\ m.id = Len(logged) + 1 /\ logged' = Append(logged, m)
          /\ pending' = Kept(Append(pending, m)) /\ text' = text /\ phase' = phase
      BY <2>1 DEF LogEarly, Log
    <2>3. text = << >> /\ Append(text \o pending, m) = Append(pending, m)
      BY <1>1, <2>2 DEF LogSound
    <2>4. /\ pending' \in Seq(Message) /\ Total(pending') <= Limit
      <3>1. Append(pending, m) \in Seq(Message)
        BY <1>1
      <3> QED BY <2>2, <3>1, KeptRange
    <2>5. /\ logged' \in Seq(Message)
          /\ \A i \in 1..Len(logged') : logged'[i].id = i
          /\ \E k \in 0..Len(logged') : IsRest(pending', logged', k)
      BY <2>2, <2>3, LogStep
    <2>6. text' \o pending' = pending'
      BY <2>2, <2>3, <2>4
    <2>7. text' \in Seq(Message) /\ Total(text') <= Limit
      BY <1>1, <2>2 DEF LogSound
    <2> QED BY <2>2, <2>3, <2>4, <2>5, <2>6, <2>7 DEF LogSound
  <1>3. CASE \E m \in Message : LogToWindow(m)
    <2>1. PICK m \in Message : LogToWindow(m)
      BY <1>3
    <2>2. /\ phase # "early" /\ m.id = Len(logged) + 1 /\ logged' = Append(logged, m)
          /\ text' = Kept(text \o Append(pending, m)) /\ pending' = << >> /\ phase' = phase
      BY <2>1 DEF LogToWindow, Log
    <2>3. text \o Append(pending, m) \in Seq(Message)
      BY <1>1
    <2>4. text' \in Seq(Message) /\ Total(text') <= Limit
      BY <2>2, <2>3, KeptRange
    <2>5. /\ logged' \in Seq(Message)
          /\ \A i \in 1..Len(logged') : logged'[i].id = i
          /\ \E k \in 0..Len(logged') : IsRest(text', logged', k)
      BY <2>2, LogStep
    <2>6. text' \o pending' = text'
      BY <2>2, <2>4
    <2>7. pending' \in Seq(Message) /\ Total(pending') <= Limit
      BY <2>2, EmptyText, LogWindowAssumption
    <2> QED BY <2>2, <2>4, <2>5, <2>6, <2>7 DEF LogSound
  <1>4. CASE OpenWindow
    <2>1. /\ phase = "early" /\ phase' = "window" /\ text' = pending /\ pending' = << >>
          /\ logged' = logged
      BY <1>4 DEF OpenWindow, HandOver
    <2>2. text' \o pending' = text \o pending
      BY <1>1, <2>1 DEF LogSound
    <2>3. Total(pending') <= Limit
      BY <2>1, EmptyText, LogWindowAssumption
    <2> QED BY <1>1, <2>1, <2>2, <2>3 DEF LogSound
  <1>5. CASE StartScreen
    BY <1>5 DEF StartScreen, LogSound, logVars
  <1>6. CASE Stop \/ \E m \in Message : LogPanics(m)
    BY <1>6 DEF Stop, LogPanics, LogSound, logVars
  <1>7. CASE Flush \/ UiDraws \/ Render \/ DrawEnds \/ UNCHANGED vars
    BY <1>7 DEF Flush, UiDraws, Render, DrawEnds, vars, LogSound, logVars
  <1> QED BY <1>2, <1>3, <1>4, <1>5, <1>6, <1>7 DEF Next

\* An end of a text that would reach the limit with one message more is all
\* that fits.
LEMMA RestIsRecent == LogSound => LogIsRecent
  <1> SUFFICES ASSUME LogSound PROVE LogIsRecent
    OBVIOUS
  <1> DEFINE kept == text \o pending
             n == Len(logged)
             From(i) == SubSeq(logged, i, n)
  <1>1. logged \in Seq(Message) /\ n \in Nat
    BY DEF LogSound
  <1>2. PICK k \in 0..n : IsRest(kept, logged, k)
    BY DEF LogSound
  <1>3. kept = From(k + 1) /\ IsSuffix(kept, logged) /\ Len(kept) = n - k
    BY <1>1, <1>2, Ending, EndOfText DEF IsRest
  <1> HIDE DEF kept
  <1>4. ASSUME NEW i \in 1..(n - Len(kept)) PROVE Total(From(i)) >= Limit
    <2>1. /\ i \in 1..k /\ k > 0 /\ i - 1 \in 0..n /\ k - 1 \in 0..n /\ (i - 1) + 1 = i
          /\ n \in 0..n /\ i - 1 <= k - 1
      BY <1>1, <1>3
    <2>2. Total(From(i)) = Total(logged) - Ends(logged)[i - 1]
      BY <1>1, <2>1, EndOfText
    <2>3. /\ Ends(logged)[i - 1] \in Nat /\ Ends(logged)[k - 1] \in Nat
          /\ Total(logged) \in Nat /\ Limit \in Nat
      BY <1>1, <2>1, EndsNat, LogWindowAssumption DEF Total
    <2>4. Ends(logged)[i - 1] <= Ends(logged)[k - 1]
      BY <1>1, <2>1, EndsGrow
    <2>5. Total(logged) - Ends(logged)[k - 1] >= Limit
      BY <1>2, <2>1 DEF IsRest
    <2> HIDE DEF From, n
    <2> QED BY <2>2, <2>3, <2>4, <2>5
  <1> QED BY <1>3, <1>4 DEF LogIsRecent, kept

\* main.rs 64-101 and 334-337: what the window holds, or what waits for it, is
\* the end of the log, and as much of it as fits.
THEOREM RecentLogIsKept == Spec => []LogIsRecent
  BY LogInit, LogNext, RestIsRecent, PTL DEF Spec

----------------------------------------------------------------------------
(* What the program logs is on the screen when it goes on                   *)

\* The text s has the last message of the program, if the window still has it.
Has(s) == \A m \in Range(text) : m.id = latest => m \in Range(s)

\* A draw which has rendered has that message in the frame buffer, though a
\* draw inside it logged more.
ScreenSound ==
    /\ frame \in Seq(Message) /\ shown \in Seq(Message) /\ dirty \in BOOLEAN
    /\ latest \in 0..Len(logged) /\ latest \in 0..MaxLogs
    /\ phase \in {"early", "window"} => draws = << >> /\ latest = 0
    /\ phase = "screen" /\ draws = << >> => Has(shown)
    /\ \A i \in DOMAIN draws : draws[i].rendered => Has(frame)

LEMMA ScreenInit == Init => ScreenSound
  <1> SUFFICES ASSUME Init PROVE ScreenSound
    OBVIOUS
  <1>1. << >> \in Seq(Message) /\ 0 \in 0..Len(<< >>) /\ 0 \in 0..MaxLogs /\ DOMAIN << >> = {}
    BY LogWindowAssumption
  <1> QED BY <1>1 DEF Init, ScreenSound

\* A call of force_flush_logs starts a draw at once when there is a screen and
\* nobody draws, and renders nothing yet.
LEMMA ForceFlushDraws ==
    ASSUME DrawInv, NEW due \in BOOLEAN, ForceFlush(due)
    PROVE  /\ dirty' \in BOOLEAN
           /\ draws = << >> => (phase = "screen" <=> draws' # << >>)
           /\ draws # << >> => draws' # << >>
           /\ \A i \in DOMAIN draws' : draws'[i].rendered => i \in DOMAIN draws /\ draws[i].rendered
  <1>1. draws \in Seq(DrawRecord) /\ (draws = << >> => inFlush = FALSE)
    BY DEF DrawInv, UiOnly, FlushOnly, FlushInUi
  <1>2. CASE Guarded(due) \/ TooEarly(due)
    BY <1>1, <1>2 DEF Guarded, TooEarly
  <1>3. CASE FlushBegins(due)
    <2> DEFINE d == [who |-> "flush", rendered |-> FALSE]
    <2>1. phase = "screen" /\ draws' = Append(draws, d) /\ dirty' = FALSE
      BY <1>3 DEF FlushBegins, Draw
    <2>2. d.rendered = FALSE
      OBVIOUS
    <2> HIDE DEF d
    <2>3. /\ DOMAIN draws = 1..Len(draws) /\ DOMAIN draws' = 1..(Len(draws) + 1)
          /\ draws'[Len(draws) + 1] = d
          /\ \A i \in 1..Len(draws) : draws'[i] = draws[i]
          /\ draws' # << >>
      BY <1>1, <2>1
    <2>4. \A i \in 1..(Len(draws) + 1) : i \in 1..Len(draws) \/ i = Len(draws) + 1
      BY <1>1
    <2> QED BY <2>1, <2>2, <2>3, <2>4
  <1> QED BY <1>2, <1>3 DEF ForceFlush

LEMMA LogToWindowScreen ==
    ASSUME DrawInv, LogSound, ScreenSound, NEW m \in Message, LogToWindow(m)
    PROVE  ScreenSound'
  <1>1. /\ phase \in {"window", "screen"} /\ m.id = Len(logged) + 1 /\ logged' = Append(logged, m)
        /\ text' = Kept(text \o Append(pending, m)) /\ phase' = phase
        /\ latest' = IF phase = "screen" /\ draws = << >> THEN m.id ELSE latest
        /\ frame' = frame /\ shown' = shown
        /\ ForceFlush(TRUE)
    BY DEF LogToWindow, Log, screenVars, LogSound
  <1>2. /\ dirty' \in BOOLEAN
        /\ draws = << >> => (phase = "screen" <=> draws' # << >>)
        /\ draws # << >> => draws' # << >>
        /\ \A i \in DOMAIN draws' : draws'[i].rendered => i \in DOMAIN draws /\ draws[i].rendered
    BY <1>1, ForceFlushDraws
  <1>3. /\ text \in Seq(Message) /\ logged \in Seq(Message) /\ pending = << >>
        /\ m.id \in 1..MaxLogs
    BY <1>1, MessageLength DEF LogSound
  <1>4. latest' \in 0..Len(logged') /\ latest' \in 0..MaxLogs
    <2>1. Len(logged') = Len(logged) + 1
      BY <1>1, <1>3
    <2> QED BY <1>1, <1>3, <2>1 DEF ScreenSound
  <1>5. phase' \in {"early", "window"} => draws' = << >> /\ latest' = 0
    BY <1>1, <1>2 DEF ScreenSound
  <1>6. ~(phase' = "screen" /\ draws' = << >>)
    BY <1>1, <1>2
  <1>7. ASSUME NEW i \in DOMAIN draws', draws'[i].rendered
        PROVE  Has(frame)'
    <2>1. i \in DOMAIN draws /\ Has(frame) /\ draws # << >>
      BY <1>2, <1>7 DEF ScreenSound
    <2>2. latest' = latest /\ m.id # latest
      BY <1>1, <1>3, <2>1 DEF ScreenSound
    <2>3. Range(text') \subseteq Range(text) \cup {m}
      <3>1. Append(pending, m) = <<m>> /\ text \o <<m>> = Append(text, m)
        BY <1>3
      <3>2. Append(text, m) \in Seq(Message) /\ Range(Append(text, m)) = Range(text) \cup {m}
        BY <1>3, AppendRange
      <3> QED BY <1>1, <3>1, <3>2, KeptRange
    <2> QED BY <1>1, <2>1, <2>2, <2>3 DEF Has
  <1> QED BY <1>1, <1>2, <1>4, <1>5, <1>6, <1>7 DEF ScreenSound

LEMMA ScreenNext == DrawInv /\ LogSound /\ ScreenSound /\ [Next]_vars => ScreenSound'
  <1> SUFFICES ASSUME DrawInv, LogSound, ScreenSound, [Next]_vars PROVE ScreenSound'
    OBVIOUS
  <1>1. draws \in Seq(DrawRecord) /\ text \in Seq(Message)
    BY DEF DrawInv, LogSound
  <1>2. CASE \E m \in Message : LogEarly(m)
    <2>1. PICK m \in Message : LogEarly(m)
      BY <1>2
    <2>2. /\ phase = "early" /\ phase' = phase /\ logged' = Append(logged, m)
          /\ latest' = latest /\ UNCHANGED <<text, dirty, draws, frame, shown>>
      BY <2>1 DEF LogEarly, Log, drawVars, screenVars
    <2>3. latest' \in 0..Len(logged')
      BY <2>2 DEF ScreenSound, LogSound
    <2> QED BY <2>2, <2>3 DEF ScreenSound, Has
  <1>3. CASE \E m \in Message : LogToWindow(m)
    BY <1>3, LogToWindowScreen
  <1>4. CASE Flush
    <2>1. /\ draws = << >> /\ UNCHANGED <<phase, text, frame, shown, logged, latest>>
          /\ dirty \in BOOLEAN /\ ForceFlush(dirty)
      BY <1>4 DEF Flush, logVars, screenVars, ScreenSound
    <2>2. /\ dirty' \in BOOLEAN
          /\ phase = "screen" <=> draws' # << >>
          /\ \A i \in DOMAIN draws' : ~draws'[i].rendered
      BY <2>1, ForceFlushDraws
    <2> QED BY <2>1, <2>2 DEF ScreenSound, Has
  <1>5. CASE OpenWindow
    <2>1. /\ phase = "early" /\ phase' = "window"
          /\ UNCHANGED <<draws, frame, shown, logged, latest>> /\ dirty' = TRUE
      BY <1>5 DEF OpenWindow, screenVars
    <2> QED BY <2>1 DEF ScreenSound
  <1>6. CASE StartScreen
    <2>1. /\ phase = "window" /\ phase' = "screen"
          /\ UNCHANGED <<text, dirty, draws, frame, shown, logged, latest>>
      BY <1>6 DEF StartScreen, logVars, drawVars, screenVars
    <2>2. \A m \in Range(text) : m.id # 0
      BY <1>1, MessageLength, RangeOfSeq
    <2>3. Has(shown)'
      BY <2>1, <2>2 DEF ScreenSound, Has
    <2> QED BY <2>1, <2>3 DEF ScreenSound, Has
  <1>7. CASE UiDraws
    <2> DEFINE d == [who |-> "ui", rendered |-> FALSE]
    <2>1. /\ phase = "screen" /\ draws = << >> /\ draws' = Append(draws, d) /\ dirty' = FALSE
          /\ UNCHANGED <<phase, text, frame, shown, logged, latest>>
      BY <1>7 DEF UiDraws, Draw, logVars, screenVars
    <2>2. d.rendered = FALSE
      OBVIOUS
    <2> HIDE DEF d
    <2>3. draws' # << >> /\ DOMAIN draws' = {1} /\ draws'[1] = d
      BY <2>1
    <2> QED BY <2>1, <2>2, <2>3 DEF ScreenSound
  <1>8. CASE Render
    <2>1. /\ draws # << >> /\ phase # "stopped" /\ frame' = text
          /\ UNCHANGED <<phase, text, dirty, shown, logged, latest>>
          /\ draws' # << >>
      BY <1>1, <1>8 DEF Render, logVars
    <2>2. Has(frame)'
      BY <2>1 DEF Has
    <2> QED BY <1>1, <2>1, <2>2 DEF ScreenSound
  <1>9. CASE DrawEnds
    <2>1. /\ draws # << >> /\ draws[Len(draws)].rendered
          /\ shown' = frame /\ draws' = SubSeq(draws, 1, Len(draws) - 1)
          /\ UNCHANGED <<phase, text, dirty, frame, logged, latest>>
      BY <1>9 DEF DrawEnds, logVars, Last, Front
    <2>2. Len(draws) \in DOMAIN draws
      BY <1>1, <2>1
    <2>3. Has(frame)
      BY <2>1, <2>2 DEF ScreenSound
    <2>4. Has(frame)' /\ Has(shown)'
      BY <2>1, <2>3 DEF Has
    <2>5. phase' \notin {"early", "window"}
      BY <2>1 DEF ScreenSound
    <2> QED BY <2>1, <2>4, <2>5 DEF ScreenSound
  <1>10. CASE Stop \/ \E m \in Message : LogPanics(m)
    <2>1. /\ phase' = "stopped" /\ UNCHANGED <<text, dirty, draws, frame, shown, logged, latest>>
      BY <1>10 DEF Stop, LogPanics, logVars, drawVars, screenVars
    <2> QED BY <2>1 DEF ScreenSound, Has
  <1>11. CASE UNCHANGED vars
    BY <1>11 DEF vars, logVars, drawVars, screenVars, ScreenSound, Has
  <1> QED BY <1>2, <1>3, <1>4, <1>5, <1>6, <1>7, <1>8, <1>9, <1>10, <1>11 DEF Next

\* README.md 13: the window's text with what the program logged last is on the
\* screen before the program goes on, though draws nest and share one buffer.
THEOREM LogIsOnTheScreen == Spec => []RealTime
  <1>1. DrawInv /\ LogSound /\ ScreenSound => RealTime
    BY DEF ScreenSound, Has, RealTime
  <1> QED BY <1>1, DrawInit, DrawNext, LogInit, LogNext, ScreenInit, ScreenNext, PTL DEF Spec

\* Neither pending nor the window ever holds more than the limit.
THEOREM TypeCorrect == Spec => []TypeOK
  <1>1. DrawInv /\ LogSound /\ ScreenSound => TypeOK
    BY DEF DrawInv, LogSound, ScreenSound, TypeOK, DrawRecord
  <1> QED BY <1>1, DrawInit, DrawNext, LogInit, LogNext, ScreenInit, ScreenNext, PTL DEF Spec
=============================================================================
