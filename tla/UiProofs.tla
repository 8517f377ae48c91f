------------------------------ MODULE UiProofs ------------------------------
(***************************************************************************)
(* What Ui keeps for every set of modes and any number of inputs: the best *)
(* mode is set, the cursor leaves no trails, and boots are asked for.      *)
(***************************************************************************)
EXTENDS Ui, TLAPS

\* The part of the type invariant that the other invariants need.
Types ==
    /\ pc \in {"modes", "set", "keys", "direct", "mouse", "draw", "asleep", "boot", "gone"}
    /\ keys \in Seq(Key) /\ direct \in Os \cup {NoOs} /\ selected \in Os
    /\ back \in {"keys", "mouse"}
    /\ boots \in Nat /\ inputs \in Nat

\* The turn has not come to its direct_boot yet.
BeforeDirect == pc \in {"keys", "direct"} \/ (pc = "boot" /\ back = "keys")

\* What direct_boot will boot in this turn, the key handler has booted; and no
\* turn starts with a direct_boot.
DirectSound ==
    /\ BeforeDirect /\ direct # NoOs => direct \in pressed
    /\ pc \in {"modes", "set"} => direct = NoOs

\* The boot that direct_boot still has to make is counted with those made.
Due == IF BeforeDirect /\ direct # NoOs THEN 1 ELSE 0
BootsSound == boots + Due <= 2 * (inputs - Len(keys))

IInv == Types /\ DirectSound /\ BootsSound

LEMMA NoOsIsNone == NoOs \notin Os
  BY DEF NoOs, Os

LEMMA InitInv == Init => IInv
  BY UiAssumption DEF Init, IInv, Types, DirectSound, BootsSound, BeforeDirect, Due, Os

\* A key takes two boots at most: its handler's, and the one of direct_boot,
\* unless an earlier key has asked for that one.
LEMMA ReadKeyInv == IInv /\ ReadKey => IInv'
  <1> SUFFICES ASSUME IInv, ReadKey PROVE IInv'
    OBVIOUS
  <1> DEFINE k == Head(keys)
  <1>1. /\ keys \in Seq(Key) /\ keys # << >>
        /\ k \in Key
        /\ keys' \in Seq(Key) /\ Len(keys) \in Nat /\ Len(keys') = Len(keys) - 1
    BY DEF IInv, Types, ReadKey
  <1>2. /\ pc = "keys" /\ direct' = IF k \in Os THEN k ELSE direct
        /\ inputs' = inputs
    BY DEF ReadKey
  <1>3. Asked(k) \in Os \cup {NoOs} /\ (k \in Os => Asked(k) = k)
    BY DEF Asked, IInv, Types
  <1>4. CASE Asked(k) # NoOs
    <2>1. /\ selected' = Asked(k) /\ boots' = boots + 1 /\ back' = "keys" /\ pc' = "boot"
          /\ pressed' = pressed \cup {Asked(k)}
      BY <1>4 DEF ReadKey, Choose, Boot
    <2>2. Types'
      BY <1>1, <1>2, <1>3, <1>4, <2>1 DEF IInv, Types
    <2>3. DirectSound'
      BY <1>2, <1>3, <2>1 DEF IInv, DirectSound, BeforeDirect
    <2>4. BootsSound'
      BY <1>1, <1>2, <2>1, NoOsIsNone DEF IInv, Types, BootsSound, Due, BeforeDirect
    <2> QED BY <2>2, <2>3, <2>4 DEF IInv
  <1>5. CASE Asked(k) = NoOs
    <2>1. /\ k \notin Os /\ direct' = direct
      BY <1>2, <1>3, <1>5, NoOsIsNone
    <2>2. /\ selected' = IF k = "arrow" THEN CHOOSE os \in Os : os # selected ELSE selected
          /\ UNCHANGED <<pc, back, boots, pressed>>
      BY <1>5 DEF ReadKey, bootVars
    <2>3. selected' \in Os
      BY <2>2 DEF IInv, Types, Os
    <2> QED BY <1>1, <1>2, <2>1, <2>2, <2>3
            DEF IInv, Types, DirectSound, BootsSound, Due, BeforeDirect
  <1> QED BY <1>4, <1>5

LEMMA KeysDoneInv == IInv /\ KeysDone => IInv'
  <1> SUFFICES ASSUME IInv, KeysDone PROVE IInv'
    OBVIOUS
  <1>1. /\ keys' \in Seq(Key) /\ Len(keys) \in Nat
        /\ Len(keys') \in Nat /\ Len(keys') <= Len(keys)
    <2>1. keys \in Seq(Key)
      BY DEF IInv, Types
    <2>2. CASE keys = << >>
      BY <2>1, <2>2 DEF KeysDone
    <2>3. CASE keys # << >>
      BY <2>1, <2>3 DEF KeysDone
    <2> QED BY <2>2, <2>3
  <1> QED BY <1>1 DEF IInv, Types, DirectSound, BootsSound, Due, BeforeDirect,
                      KeysDone, windowVars, bootVars

LEMMA DirectBootInv == IInv /\ DirectBoot => IInv'
  BY DEF IInv, Types, DirectSound, BootsSound, Due, BeforeDirect, DirectBoot, Boot,
         turnVars, windowVars, bootVars

LEMMA MouseReportInv ==
    ASSUME IInv, NEW dx \in -1..1, NEW dy \in -1..1, NEW on \in Os \cup {NoOs},
           MouseReport(dx, dy, on)
    PROVE  IInv'
  <1>1. CASE on \in Os
    BY <1>1 DEF IInv, Types, DirectSound, BootsSound, Due, BeforeDirect, MouseReport,
                Choose, Boot
  <1>2. CASE on \notin Os
    BY <1>2 DEF IInv, Types, DirectSound, BootsSound, Due, BeforeDirect, MouseReport,
                windowVars, bootVars
  <1> QED BY <1>1, <1>2

LEMMA TypeInv == ASSUME IInv, NEW k \in Key, Type(k) PROVE IInv'
  <1>1. keys' \in Seq(Key) /\ Len(keys') = Len(keys) + 1 /\ Len(keys) \in Nat
    BY DEF IInv, Types, Type
  <1> QED BY <1>1 DEF IInv, Types, DirectSound, BootsSound, Due, BeforeDirect, Type,
                      windowVars, bootVars

\* The other steps boot nothing, and end or start a turn without direct_boot.
LEMMA OtherInv ==
    IInv /\ (\/ \E m \in Sizes : LookAtMode(m)
             \/ LastMode \/ SetMode \/ MouseDone \/ Draw \/ WakeUp
             \/ BootComesBack \/ BootTakesOver \/ UNCHANGED vars) => IInv'
  <1> SUFFICES ASSUME IInv,
                      \/ \E m \in Sizes : LookAtMode(m)
                      \/ LastMode \/ SetMode \/ MouseDone \/ Draw \/ WakeUp
                      \/ BootComesBack \/ BootTakesOver \/ UNCHANGED vars
               PROVE  IInv'
    OBVIOUS
  <1> USE DEF IInv, Types, DirectSound, BootsSound, Due, BeforeDirect,
              turnVars, windowVars, bootVars
  <1>1. CASE \E m \in Sizes : LookAtMode(m)
    BY <1>1 DEF LookAtMode
  <1>2. CASE LastMode \/ SetMode
    BY <1>2 DEF LastMode, SetMode
  <1>3. CASE MouseDone \/ Draw \/ WakeUp
    BY <1>3 DEF MouseDone, Draw, WakeUp, NewTurn
  <1>4. CASE BootComesBack \/ BootTakesOver
    BY <1>4 DEF BootComesBack, BootTakesOver
  <1>5. CASE UNCHANGED vars
    BY <1>5 DEF vars
  <1> QED BY <1>1, <1>2, <1>3, <1>4, <1>5

LEMMA NextInv == IInv /\ [Next]_vars => IInv'
  BY ReadKeyInv, KeysDoneInv, DirectBootInv, MouseReportInv, TypeInv, OtherInv DEF Next, Gone

LEMMA Invariance == Spec => []IInv
  BY InitInv, NextInv, PTL DEF Spec

\* slint_plat.rs 295-322: what direct_boot boots was booted by the window's key
\* handler in the same turn.
THEOREM DirectBootOnlyRepeats == Spec => []DirectBootRepeats
  <1>1. IInv => DirectBootRepeats
    BY DEF IInv, DirectSound, BeforeDirect, DirectBootRepeats
  <1> QED BY <1>1, Invariance, PTL

\* slint_plat.rs 295-368: a key or a report boots at most twice, however many
\* images come back.
THEOREM NoBootUnasked == Spec => []BootsAreAsked
  <1>1. IInv => BootsAreAsked
    BY DEF IInv, Types, BootsSound, Due, BootsAreAsked
  <1> QED BY <1>1, Invariance, PTL

\* slint_plat.rs 375-431: no step leaves a cursor in the frame buffer or two on
\* the screen, whatever the frame buffer's size.
THEOREM CursorLeavesNoTrails == Spec => []NoTrails
  <1>1. Init => NoTrails
    BY DEF Init, NoTrails
  <1>2. NoTrails /\ [Next]_vars => NoTrails'
    <2> SUFFICES ASSUME NoTrails, [Next]_vars PROVE NoTrails'
      OBVIOUS
    <2> USE DEF NoTrails
    <2>1. CASE Draw
      <3>1. CASE dirty
        BY <2>1, <3>1 DEF Draw, Painted, Restore
      <3>2. CASE ~dirty
        BY <2>1, <3>2 DEF Draw, drawVars
      <3> QED BY <3>1, <3>2
    <2>2. CASE ReadKey \/ DirectBoot
      BY <2>2 DEF ReadKey, DirectBoot, Choose, Boot, drawVars
    <2>3. CASE \E dx, dy \in -1..1, on \in Os \cup {NoOs} : MouseReport(dx, dy, on)
      BY <2>3 DEF MouseReport, Choose, Boot, drawVars
    <2>4. CASE BootComesBack
      BY <2>4 DEF BootComesBack
    <2>5. CASE \/ \E m \in Sizes : LookAtMode(m)
               \/ LastMode \/ SetMode \/ KeysDone \/ MouseDone \/ WakeUp \/ BootTakesOver
               \/ \E k \in Key : Type(k)
               \/ UNCHANGED vars
      BY <2>5 DEF LookAtMode, LastMode, SetMode, KeysDone, MouseDone, WakeUp, BootTakesOver,
                  Type, vars, drawVars
    <2> QED BY <2>1, <2>2, <2>3, <2>4, <2>5 DEF Next, Gone
  <1> QED BY <1>1, <1>2, PTL DEF Spec

\* The best mode so far: none if none fits, or one that fits and that no other
\* one is better than.
BestSoFar ==
    LET fit == {m \in seen : Fits(m)}
    IN  /\ seen \subseteq Sizes
        /\ fit = {} => best = NoSize
        /\ fit # {} => /\ best \in fit
                       /\ \A m \in fit : \/ m[1] < best[1]
                                         \/ m[1] = best[1] /\ m[2] <= best[2]

LEMMA LookAtModeBest == ASSUME BestSoFar, NEW m \in Sizes, LookAtMode(m) PROVE BestSoFar'
  <1> DEFINE fit == {n \in seen : Fits(n)}
  <1>1. /\ \A n \in Sizes : n \in (Nat \ {0}) \X (Nat \ {0})
        /\ \A n \in Sizes : n[1] \in Nat /\ n[1] > 0 /\ n[2] \in Nat
    BY UiAssumption
  <1>2. /\ seen \subseteq Sizes /\ (fit = {} => best = NoSize)
        /\ fit # {} => /\ best \in fit
                       /\ \A n \in fit : \/ n[1] < best[1]
                                         \/ n[1] = best[1] /\ n[2] <= best[2]
    BY DEF BestSoFar
  <1>3. seen' = seen \cup {m} /\ best' = IF Fits(m) /\ Better(m) THEN m ELSE best
    BY DEF LookAtMode
  <1>4. fit' = IF Fits(m) THEN fit \cup {m} ELSE fit
    BY <1>3 DEF Fits
  <1>5. fit = {} => Better(m)
    BY <1>1, <1>2 DEF Better, NoSize
  <1>6. \A n \in fit : n \in Sizes
    BY <1>2
  <1>7. fit' # {} => best' \in fit'
    BY <1>2, <1>3, <1>4, <1>5
  <1>8. fit' = {} => best' = NoSize
    BY <1>2, <1>3, <1>4
  <1>9. ASSUME NEW n \in fit' PROVE n[1] < best'[1] \/ (n[1] = best'[1] /\ n[2] <= best'[2])
    <2> HIDE DEF fit
    <2>1. CASE Fits(m) /\ Better(m)
      BY <1>1, <1>2, <1>3, <1>4, <1>6, <2>1 DEF Better
    <2>2. CASE ~(Fits(m) /\ Better(m))
      BY <1>1, <1>2, <1>3, <1>4, <1>5, <1>6, <2>2 DEF Better
    <2> QED BY <2>1, <2>2
  <1>10. fit' = {n \in seen' : Fits(n)'}
    OBVIOUS
  <1> HIDE DEF fit
  <1> QED BY <1>2, <1>3, <1>7, <1>8, <1>9, <1>10 DEF BestSoFar

\* slint_plat.rs 203-218: whatever modes there are and in whatever order they
\* are looked at, the widest one that fits is set, and the highest of those.
THEOREM TheBestModeIsSet == Spec => []BestModeIsSet
  <1>1. Init => BestSoFar
    BY DEF Init, BestSoFar
  <1>2. BestSoFar /\ [Next]_vars => BestSoFar'
    <2> SUFFICES ASSUME BestSoFar, [Next]_vars PROVE BestSoFar'
      OBVIOUS
    <2>1. CASE \E m \in Sizes : LookAtMode(m)
      BY <2>1, LookAtModeBest
    <2>2. CASE SetMode
      BY <2>2 DEF SetMode, BestSoFar
    <2>3. CASE UNCHANGED modeVars
      BY <2>3 DEF modeVars, BestSoFar, Fits
    <2>4. [Next]_vars => (\E m \in Sizes : LookAtMode(m)) \/ SetMode \/ UNCHANGED modeVars
      BY DEF Next, LastMode, ReadKey, KeysDone, DirectBoot, MouseReport, MouseDone, Draw,
             WakeUp, BootComesBack, BootTakesOver, Type, Gone, vars
    <2> QED BY <2>1, <2>2, <2>3, <2>4
  <1>3. BestSoFar => BestModeIsSet
    <2> SUFFICES ASSUME BestSoFar, pc = "set" PROVE BestModeIsSet
      BY DEF BestModeIsSet
    <2> DEFINE fit == {m \in seen : Fits(m)}
               widest == {m \in fit : \A n \in fit : n[1] <= m[1]}
    <2>1. \A n \in fit : n[1] \in Nat /\ n[2] \in Nat
      BY UiAssumption DEF BestSoFar
    <2>2. CASE fit = {}
      BY <2>2 DEF BestSoFar, BestModeIsSet
    <2>3. CASE fit # {}
      <3>1. /\ best \in fit
            /\ \A m \in fit : m[1] < best[1] \/ (m[1] = best[1] /\ m[2] <= best[2])
        BY <2>3 DEF BestSoFar
      <3>2. best \in widest
        BY <2>1, <3>1
      <3>3. \A m \in widest : m[2] <= best[2]
        BY <2>1, <3>1
      <3> QED BY <2>3, <3>2, <3>3 DEF BestModeIsSet
    <2> QED BY <2>2, <2>3
  <1> QED BY <1>1, <1>2, <1>3, PTL DEF Spec

----------------------------------------------------------------------------
(* The types, and the cursor in the frame                                   *)

OnFrame(p) == p[1] \in 0..(size[1] - 1) /\ p[2] \in 0..(size[2] - 1)

\* Until a mode is set there is no frame buffer and nothing on the screen; from
\* then on every cursor is on the frame.
FrameSound ==
    /\ mode \in Sizes /\ best \in Sizes \cup {NoSize} /\ seen \subseteq Sizes
    /\ frame = {}
    /\ pc \in {"modes", "set"} => size = NoSize /\ screen = {}
    /\ pc \notin {"modes", "set"} => size \in Sizes /\ OnFrame(pos) /\ \A p \in screen : OnFrame(p)

\* The variables of the window and of the turn.
WindowSound ==
    /\ {booting, status} \subseteq Os \cup {NoOs} /\ pressed \subseteq Os
    /\ moved \in BOOLEAN /\ dirty \in BOOLEAN
    /\ inputs \in 0..MaxInputs

\* The middle of a frame is on the frame.
LEMMA Middle == ASSUME NEW n \in Nat \ {0} PROVE n \div 2 \in 0..(n - 1)
  OBVIOUS

LEMMA ClampProperties ==
    ASSUME NEW n \in Int, NEW high \in Nat
    PROVE  Clamp(n, high) \in 0..high
  BY DEF Clamp

LEMMA SizeProperties ==
    \A s \in Sizes : s[1] \in Nat \ {0} /\ s[2] \in Nat \ {0} /\ s # NoSize
  BY UiAssumption DEF NoSize

LEMMA FrameInit == Init => FrameSound /\ WindowSound
  <1> SUFFICES ASSUME Init PROVE FrameSound /\ WindowSound
    OBVIOUS
  <1>1. FrameSound
    BY DEF Init, FrameSound
  <1>2. 0 \in 0..MaxInputs
    BY UiAssumption
  <1>3. /\ {booting, status} \subseteq Os \cup {NoOs} /\ pressed \subseteq Os
        /\ moved = FALSE /\ dirty = TRUE /\ inputs = 0
    BY DEF Init
  <1>4. WindowSound
    BY <1>2, <1>3, Zenon DEF WindowSound
  <1> QED BY <1>1, <1>4

LEMMA FrameNext == IInv /\ FrameSound /\ [Next]_vars => FrameSound'
  <1> SUFFICES ASSUME IInv, FrameSound, [Next]_vars PROVE FrameSound'
    OBVIOUS
  <1>1. CASE \E m \in Sizes : LookAtMode(m)
    BY <1>1 DEF LookAtMode, FrameSound, drawVars
  <1>2. CASE SetMode
    <2>1. /\ mode' \in Sizes /\ size' = mode' /\ pos' = <<size'[1] \div 2, size'[2] \div 2>>
          /\ best' = NoSize /\ seen' = {} /\ pc' = "keys" /\ frame' = {} /\ screen' = {}
      BY <1>2 DEF SetMode, FrameSound, drawVars
    <2>2. OnFrame(pos)'
      BY <2>1, SizeProperties, Middle DEF OnFrame
    <2> QED BY <2>1, <2>2 DEF FrameSound
  <1>3. CASE \E dx, dy \in -1..1, on \in Os \cup {NoOs} : MouseReport(dx, dy, on)
    <2>1. PICK dx \in -1..1, dy \in -1..1, on \in Os \cup {NoOs} : MouseReport(dx, dy, on)
      BY <1>3
    <2>2. /\ pc = "mouse" /\ size \in Sizes /\ OnFrame(pos) /\ \A p \in screen : OnFrame(p)
          /\ frame = {} /\ frame' = {} /\ screen' \in {screen, {}} /\ pc' \in {"mouse", "boot"}
          /\ UNCHANGED <<mode, best, seen, size>>
          /\ pos' = <<Clamp(pos[1] + dx, size[1] - 1), Clamp(pos[2] + dy, size[2] - 1)>>
      BY <2>1 DEF MouseReport, Choose, Boot, FrameSound, modeVars, drawVars
    <2>3. pos[1] + dx \in Int /\ pos[2] + dy \in Int
      <3>1. size[1] \in Nat \ {0} /\ size[2] \in Nat \ {0}
        BY <2>2, SizeProperties
      <3>2. pos[1] \in Int /\ pos[2] \in Int
        BY <2>2, <3>1 DEF OnFrame
      <3> QED BY <3>2
    <2>4. size[1] - 1 \in Nat /\ size[2] - 1 \in Nat
      BY <2>2, SizeProperties
    <2>5. OnFrame(pos)'
      BY <2>2, <2>3, <2>4, ClampProperties DEF OnFrame
    <2>6. \A p \in screen' : OnFrame(p)'
      BY <2>2 DEF OnFrame
    <2> QED BY <2>2, <2>5, <2>6 DEF FrameSound
  <1>4. CASE \/ LastMode \/ ReadKey \/ KeysDone \/ DirectBoot \/ MouseDone \/ Draw \/ WakeUp
             \/ BootComesBack \/ BootTakesOver \/ (\E k \in Key : Type(k)) \/ UNCHANGED vars
    <2>1. /\ UNCHANGED <<mode, best, seen, size, pos>>
          /\ pc \in {"modes", "set"} <=> pc' \in {"modes", "set"}
          /\ UNCHANGED screen \/ (pc \notin {"modes", "set"} /\ screen' \in {frame, Painted})
          /\ UNCHANGED frame \/ frame' = (Painted \ {pos}) \cup (frame \cap {pos})
      <3> USE DEF modeVars, turnVars, drawVars, bootVars
      <3>1. CASE LastMode \/ KeysDone \/ MouseDone \/ WakeUp \/ BootTakesOver \/ UNCHANGED vars
        BY <1>4, <3>1 DEF LastMode, KeysDone, MouseDone, WakeUp, BootTakesOver, vars
      <3>2. CASE ReadKey \/ DirectBoot
        BY <3>2 DEF ReadKey, DirectBoot, Choose, Boot
      <3>3. CASE Draw
        BY <3>3 DEF Draw, Restore
      <3>4. CASE BootComesBack
        BY <3>4 DEF BootComesBack, IInv, Types
      <3>5. CASE \E k \in Key : Type(k)
        BY <3>5 DEF Type
      <3> QED BY <1>4, <3>1, <3>2, <3>3, <3>4, <3>5
    <2>2. frame = {} /\ frame' = {}
      BY <2>1 DEF FrameSound, Painted
    <2>3. ASSUME pc' \notin {"modes", "set"}
          PROVE  size' \in Sizes /\ OnFrame(pos)' /\ \A p \in screen' : OnFrame(p)'
      BY <2>1, <2>2, <2>3 DEF FrameSound, OnFrame, Painted
    <2>4. pc' \in {"modes", "set"} => size' = NoSize /\ screen' = {}
      BY <2>1 DEF FrameSound
    <2> QED BY <2>1, <2>2, <2>3, <2>4 DEF FrameSound
  <1> QED BY <1>1, <1>2, <1>3, <1>4 DEF Next, Gone

LEMMA WindowNext == IInv /\ WindowSound /\ [Next]_vars => WindowSound'
  <1> SUFFICES ASSUME IInv, WindowSound, [Next]_vars PROVE WindowSound'
    OBVIOUS
  <1> USE DEF WindowSound, modeVars, turnVars, windowVars, bootVars, drawVars
  <1>1. CASE LastMode \/ SetMode \/ (\E m \in Sizes : LookAtMode(m)) \/ UNCHANGED vars
    BY <1>1 DEF LastMode, SetMode, LookAtMode, vars
  <1>2. CASE ReadKey
    <2>1. Head(keys) \in Key
      BY <1>2 DEF IInv, Types, ReadKey
    <2>2. Asked(Head(keys)) \in Os \cup {NoOs}
      BY <2>1 DEF Asked, IInv, Types
    <2>3. CASE Asked(Head(keys)) # NoOs
      BY <1>2, <2>2, <2>3 DEF ReadKey, Choose, Boot
    <2>4. CASE Asked(Head(keys)) = NoOs
      <3>1. /\ UNCHANGED <<booting, status, pressed, moved, inputs>>
            /\ dirty' = (dirty \/ Head(keys) = "arrow")
        BY <1>2, <2>4 DEF ReadKey
      <3>2. dirty' \in BOOLEAN
        BY <3>1, Zenon
      <3> QED BY <3>1, <3>2
    <2> QED BY <2>3, <2>4
  <1>3. CASE DirectBoot
    BY <1>3 DEF DirectBoot, Boot, IInv, Types
  <1>4. CASE KeysDone \/ Draw \/ WakeUp \/ BootComesBack \/ BootTakesOver
    BY <1>4 DEF KeysDone, Draw, WakeUp, BootComesBack, BootTakesOver
  <1>5. CASE MouseDone
    <2>1. /\ UNCHANGED <<booting, status, pressed, inputs>> /\ moved' = FALSE
          /\ dirty' = (dirty \/ moved)
      BY <1>5 DEF MouseDone
    <2>2. dirty' \in BOOLEAN
      BY <2>1, Zenon
    <2> QED BY <2>1, <2>2
  <1>6. CASE \E dx, dy \in -1..1, on \in Os \cup {NoOs} : MouseReport(dx, dy, on)
    <2>1. PICK dx \in -1..1, dy \in -1..1, on \in Os \cup {NoOs} : MouseReport(dx, dy, on)
      BY <1>6
    <2>2. inputs' \in 0..MaxInputs /\ moved' = TRUE /\ UNCHANGED pressed
      BY <2>1, UiAssumption DEF MouseReport
    <2>3. CASE on \in Os
      BY <2>1, <2>2, <2>3 DEF MouseReport, Choose, Boot
    <2>4. CASE on \notin Os
      BY <2>1, <2>2, <2>4 DEF MouseReport
    <2> QED BY <2>3, <2>4
  <1>7. CASE \E k \in Key : Type(k)
    BY <1>7, UiAssumption DEF Type
  <1> QED BY <1>1, <1>2, <1>3, <1>4, <1>5, <1>6, <1>7 DEF Next, Gone

\* slint_plat.rs 203-431: the variables keep their types; no cursor is painted
\* outside the frame buffer, whatever mode is set and however the mouse moves.
THEOREM TypeCorrect == Spec => []TypeOK
  <1>1. IInv /\ FrameSound /\ WindowSound => TypeOK
    <2> SUFFICES ASSUME IInv, FrameSound, WindowSound PROVE TypeOK
      OBVIOUS
    <2>1. size # NoSize => \A p \in {pos} \cup frame \cup screen :
                              p[1] \in 0..(size[1] - 1) /\ p[2] \in 0..(size[2] - 1)
      BY DEF FrameSound, OnFrame
    <2>2. size \in Sizes \cup {NoSize}
      BY DEF FrameSound
    <2> QED BY <2>1, <2>2 DEF IInv, Types, FrameSound, WindowSound, TypeOK
  <1> QED BY <1>1, Invariance, FrameInit, FrameNext, WindowNext, PTL DEF Spec
=============================================================================
