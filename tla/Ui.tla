--------------------------------- MODULE Ui ---------------------------------
(***************************************************************************)
(* The local user interface: run_event_loop of src/src/slint_plat.rs,      *)
(* which picks the graphics mode, and run_slint_ui, whose turns read the   *)
(* keyboard and the mouse and draw the window with the cursor on it.  The  *)
(* window's own key and click handlers (src/ui/appwindow.slint) and the    *)
(* callbacks of efi_main boot in the middle of a turn; an image that comes *)
(* back continues the turn where it was.                                   *)
(***************************************************************************)
EXTENDS Integers, SequencesExt

CONSTANTS
    Sizes,         \* the graphics modes that exist: <<width, height>>
    MaxWidth, MaxHeight,    \* 1920 and 1080
    MaxInputs      \* bound: keys and mouse reports in all

Os == {"windows", "linux"}
NoOs == "none"
\* "windows" is 1, w or W, "linux" is 2, l or L; "arrow" is left, right or tab,
\* "enter" also the space; "unmapped" a special key that get_key_press drops
Key == Os \cup {"arrow", "enter", "other", "unmapped"}
NoSize == <<0, 0>>

ASSUME UiAssumption ==
    /\ Sizes # {} /\ Sizes \subseteq (Nat \ {0}) \X (Nat \ {0})
    /\ MaxWidth \in Nat /\ MaxHeight \in Nat /\ MaxInputs \in Nat

VARIABLES
    pc,         \* "modes", "set", "keys", "direct", "mouse", "draw", "asleep",
                \* "boot" (an image runs), "gone"
    best,       \* best_width and best_height until the mode is set, NoSize for None
    mode,       \* the mode of the graphics output
    size,       \* screen_width and screen_height, the size of the frame buffer
    keys,       \* what was typed and not read
    direct,     \* direct_boot
    moved,      \* is_mouse_move
    pos,        \* phys_x and phys_y
    selected,   \* selected-index
    status,     \* status-text: the system it says is booting, or NoOs
    booting,    \* the system that boots, NoOs when none does
    back,       \* where the turn goes on when its image comes back
    dirty,      \* the window needs a redraw
    frame,      \* the places of the frame buffer where a cursor is painted
    screen,     \* ... and of the screen
    seen,       \* history: the modes looked at, until one is set
    pressed,    \* history: what the key handler has booted in this turn
    boots,      \* history: how many boots there were
    inputs      \* history: how many keys and mouse reports there were

modeVars == <<best, mode, size, seen>>
turnVars == <<keys, direct, moved, pos, pressed>>
windowVars == <<selected, status>>
bootVars == <<booting, back, boots>>
drawVars == <<dirty, frame, screen>>
vars == <<pc, modeVars, turnVars, windowVars, bootVars, drawVars, inputs>>

Init ==
    /\ pc = "modes" /\ seen = {} /\ best = NoSize
    /\ mode \in Sizes /\ size = NoSize
    /\ keys = << >> /\ direct = NoOs /\ moved = FALSE /\ pos = <<0, 0>>
    /\ selected = "windows" /\ status = NoOs
    /\ booting = NoOs /\ back = "keys"
    /\ dirty = TRUE /\ frame = {} /\ screen = {}
    /\ pressed = {} /\ boots = 0 /\ inputs = 0

----------------------------------------------------------------------------
(* run_event_loop                                                           *)

Fits(m) == m[1] <= MaxWidth /\ m[2] <= MaxHeight

\* variant: a wider or a higher mode is better
BetterEither(m) == m[1] > best[1] \/ m[2] > best[2]

Better(m) == m[1] > best[1] \/ (m[1] = best[1] /\ m[2] > best[2])

LookAtMode(m) ==
    /\ pc = "modes"
    /\ seen' = seen \cup {m}
    /\ best' = IF Fits(m) /\ Better(m) THEN m ELSE best
    /\ UNCHANGED <<pc, mode, size, turnVars, windowVars, bootVars, drawVars, inputs>>

LastMode ==
    /\ pc = "modes" /\ seen # {}
    /\ pc' = "set"
    /\ UNCHANGED <<modeVars, turnVars, windowVars, bootVars, drawVars, inputs>>

\* set_mode may fail; whatever mode there is then gives the frame buffer its size
SetMode ==
    /\ pc = "set"
    /\ mode' \in {mode} \cup ({best} \ {NoSize})
    /\ size' = mode'
    /\ pos' = <<size'[1] \div 2, size'[2] \div 2>>
    /\ best' = NoSize /\ seen' = {}
    /\ pc' = "keys"
    /\ UNCHANGED <<keys, direct, moved, pressed, windowVars, bootVars, drawVars, inputs>>

----------------------------------------------------------------------------
(* A turn of run_slint_ui                                                   *)

\* A boot logs, and every message draws the frame buffer, without a cursor.
Boot(os, next) ==
    /\ booting' = os
    /\ back' = next
    /\ boots' = boots + 1
    /\ pc' = "boot"
    /\ screen' = frame /\ dirty' = FALSE
    /\ UNCHANGED frame

\* what the window's handlers do
Choose(os, next) == selected' = os /\ status' = os /\ Boot(os, next)

\* variant: the key handler leaves the digits to direct_boot
AskedByEnter(k) == IF k = "enter" THEN selected ELSE NoOs

\* appwindow.slint 24-45: the system that a key boots
Asked(k) == IF k \in Os THEN k ELSE IF k = "enter" THEN selected ELSE NoOs

\* lines 297-307 and the window's key handler
ReadKey ==
    /\ pc = "keys" /\ keys # << >> /\ Head(keys) # "unmapped"
    /\ LET k == Head(keys) IN
          /\ direct' = IF k \in Os THEN k ELSE direct
          /\ IF Asked(k) # NoOs
             THEN Choose(Asked(k), "keys") /\ pressed' = pressed \cup {Asked(k)}
             ELSE /\ selected' = IF k = "arrow" THEN CHOOSE os \in Os : os # selected ELSE selected
                  /\ dirty' = (dirty \/ k = "arrow")
                  /\ UNCHANGED <<pc, status, bootVars, frame, screen, pressed>>
    /\ keys' = Tail(keys)
    /\ UNCHANGED <<modeVars, moved, pos, inputs>>

\* Nothing to read; get_key_press returns None for an unmapped key, too, and
\* the keys behind it wait for the next turn.
KeysDone ==
    /\ pc = "keys"
    /\ keys # << >> => Head(keys) = "unmapped"
    /\ keys' = IF keys = << >> THEN keys ELSE Tail(keys)
    /\ pc' = "direct"
    /\ UNCHANGED <<modeVars, direct, moved, pos, pressed, windowVars, bootVars, drawVars, inputs>>

\* lines 309-322
DirectBoot ==
    /\ pc = "direct"
    /\ IF direct = NoOs
       THEN pc' = "mouse" /\ UNCHANGED <<bootVars, drawVars>>
       ELSE Boot(direct, "mouse")
    /\ UNCHANGED <<modeVars, turnVars, windowVars, inputs>>

\* variant: the cursor may leave the screen
ClampNot(n, high) == n

Clamp(n, high) == IF n < 0 THEN 0 ELSE IF n > high THEN high ELSE n

\* A report: a movement and, with the left button down over a button of the
\* window, a click, whether or not the last report had it down already.
MouseReport(dx, dy, on) ==
    /\ pc = "mouse"
    /\ inputs < MaxInputs
    /\ inputs' = inputs + 1
    /\ pos' = <<Clamp(pos[1] + dx, size[1] - 1), Clamp(pos[2] + dy, size[2] - 1)>>
    /\ moved' = TRUE
    /\ IF on \in Os THEN Choose(on, "mouse") ELSE UNCHANGED <<pc, windowVars, bootVars, drawVars>>
    /\ UNCHANGED <<modeVars, keys, direct, pressed>>

MouseDone ==
    /\ pc = "mouse"
    /\ dirty' = (dirty \/ moved)
    /\ moved' = FALSE
    /\ pc' = "draw"
    /\ UNCHANGED <<modeVars, keys, direct, pos, pressed, windowVars, bootVars, frame, screen, inputs>>

Painted == frame \cup {pos}

\* variant: the background is not put back
RestoreNot == frame' = Painted

\* what was under the cursor before
Restore == frame' = (Painted \ {pos}) \cup (frame \cap {pos})

\* lines 375-431: save, paint, show, restore
Draw ==
    /\ pc = "draw"
    /\ IF dirty
       THEN dirty' = FALSE /\ screen' = Painted /\ Restore
       ELSE UNCHANGED drawVars
    /\ pc' = "asleep"
    /\ UNCHANGED <<modeVars, turnVars, windowVars, bootVars, inputs>>

\* variant: direct_boot outlives the turn
NewTurnKeeps == UNCHANGED direct

NewTurn == direct' = NoOs

WakeUp ==
    /\ pc = "asleep"
    /\ NewTurn
    /\ pressed' = {}
    /\ pc' = "keys"
    /\ UNCHANGED <<modeVars, keys, moved, pos, windowVars, bootVars, drawVars, inputs>>

\* the messages of a boot that failed, or of none, draw the window again
BootComesBack ==
    /\ pc = "boot"
    /\ booting' = NoOs
    /\ pc' = back
    /\ screen' = frame /\ dirty' = FALSE
    /\ UNCHANGED <<modeVars, turnVars, windowVars, back, boots, frame, inputs>>

BootTakesOver ==
    /\ pc = "boot"
    /\ pc' = "gone"
    /\ UNCHANGED <<modeVars, turnVars, windowVars, bootVars, drawVars, inputs>>

\* external: somebody types; what was typed earlier is read with the first keys
Type(k) ==
    /\ pc \notin {"modes", "set", "gone"}
    /\ inputs < MaxInputs
    /\ inputs' = inputs + 1
    /\ keys' = Append(keys, k)
    /\ UNCHANGED <<pc, modeVars, direct, moved, pos, pressed, windowVars, bootVars, drawVars>>

\* nothing of this program runs any more
Gone == pc = "gone" /\ UNCHANGED vars

Next ==
    \/ \E m \in Sizes : LookAtMode(m)
    \/ LastMode \/ SetMode
    \/ ReadKey \/ KeysDone \/ DirectBoot
    \/ \E dx, dy \in -1..1, on \in Os \cup {NoOs} : MouseReport(dx, dy, on)
    \/ MouseDone \/ Draw \/ WakeUp \/ BootComesBack \/ BootTakesOver
    \/ \E k \in Key : Type(k)
    \/ Gone

Spec == Init /\ [][Next]_vars

----------------------------------------------------------------------------
TypeOK ==
    /\ pc \in {"modes", "set", "keys", "direct", "mouse", "draw", "asleep", "boot", "gone"}
    /\ mode \in Sizes /\ {best, size} \subseteq Sizes \cup {NoSize} /\ seen \subseteq Sizes
    /\ keys \in Seq(Key) /\ {direct, booting, status} \subseteq Os \cup {NoOs}
    /\ selected \in Os /\ pressed \subseteq Os
    /\ back \in {"keys", "mouse"}
    /\ {moved, dirty} \subseteq BOOLEAN
    /\ boots \in Nat /\ inputs \in 0..MaxInputs
    /\ size # NoSize => \A p \in {pos} \cup frame \cup screen :
                            p[1] \in 0..(size[1] - 1) /\ p[2] \in 0..(size[2] - 1)

\* slint_plat.rs 207-218: in whatever order the modes are listed, the loop ends
\* with the widest one that fits, the highest of those, or with none only if
\* none fits.
BestModeIsSet ==
    pc = "set" =>
        LET fit == {m \in seen : Fits(m)}
            widest == {m \in fit : \A n \in fit : n[1] <= m[1]}
        IN  IF fit = {} THEN best = NoSize
            ELSE best \in widest /\ \A m \in widest : m[2] <= best[2]

\* slint_plat.rs 419, "to prevent trails": the frame buffer never keeps a cursor,
\* and the screen shows at most one, though the log window is drawn from the same
\* buffer in the middle of a turn.
NoTrails == frame = {} /\ \A p, q \in screen : p = q

\* slint_plat.rs 309: direct_boot only ever repeats a boot of the key handler that
\* came back in the same turn.
DirectBootRepeats == pc = "direct" /\ direct # NoOs => direct \in pressed

\* What is booted was asked for: a key or a report boots twice at most, and one
\* that was not read yet does not.
BootsAreAsked == boots <= 2 * (inputs - Len(keys))

\* README.md 17: "up to 1080p (1920x1080). This caps memory consumption to a safe
\* 8.2MB frame buffer".
FrameBufferIsCapped == size[1] * size[2] <= MaxWidth * MaxHeight
=============================================================================
