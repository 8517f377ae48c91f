----------------------------- MODULE LogWindow -----------------------------
(***************************************************************************)
(* The log window, from the first message of efi_main on: SlintLogger::log *)
(* of src/src/main.rs, which keeps the messages until the window exists    *)
(* and then writes them into it, and force_flush_logs of                   *)
(* src/src/slint_plat.rs, which draws the window in the middle of whatever *)
(* the program is doing.  Drawing may log, and so call both again.         *)
(*                                                                         *)
(* A text is a sequence of messages; a message is one line with its number *)
(* and its length in units of which Limit make the 4000 bytes.             *)
(***************************************************************************)
EXTENDS Integers, FiniteSets, SequencesExt

CONSTANTS
    Limit,
    Lengths,     \* the lengths of messages
    MaxLogs      \* bound: the messages logged in all

ASSUME LogWindowAssumption ==
    /\ Limit \in Nat \ {0}
    /\ Lengths \subseteq Nat \ {0}
    /\ MaxLogs \in Nat

VARIABLES
    phase,      \* "early"; "window": APP_WINDOW is set; "screen": GLOBAL_WINDOW,
                \* GLOBAL_GOP and GLOBAL_FB are set as well; "stopped"
    pending,    \* PENDING_LOGS, empty for None
    text,       \* the window's log-text
    dirty,      \* the window needs a redraw
    inFlush,    \* IN_FLUSH
    draws,      \* the calls of draw_if_needed under way, the innermost last:
                \* who draws, and whether render is done
    frame,      \* the text in the frame buffer, which all draws share
    shown,      \* the text on the screen
    logged,     \* history: all messages
    latest      \* history: the last message logged on the screen outside a draw

logVars == <<pending, text>>
drawVars == <<dirty, inFlush, draws>>
screenVars == <<frame, shown>>
vars == <<phase, logVars, drawVars, screenVars, logged, latest>>

\* wide: it has characters of several bytes
Message == [id : 1..MaxLogs, len : Lengths, wide : BOOLEAN]

Init ==
    /\ phase = "early"
    /\ pending = << >> /\ text = << >> /\ logged = << >>
    /\ frame = << >> /\ shown = << >>
    /\ dirty = FALSE
    /\ inFlush = FALSE
    /\ draws = << >>
    /\ latest = 0

\* where each message of a text ends
Ends(s) ==
    LET end[i \in 0..Len(s)] == IF i = 0 THEN 0 ELSE end[i - 1] + s[i].len
    IN  end

Total(s) == Ends(s)[Len(s)]

Cut(s) == Total(s) - Limit     \* drain_index

\* variant: the text is not cut
KeptAll(s) == s

\* lines 73-78 and 94-99: the line whose newline is the first behind the cut
\* goes, with everything before it
Kept(s) ==
    IF Total(s) <= Limit THEN s
    ELSE LET first == CHOOSE i \in DOMAIN s : Ends(s)[i - 1] <= Cut(s) /\ Cut(s) < Ends(s)[i]
         IN  SubSeq(s, first + 1, Len(s))

\* the cut may be inside a character, which slicing a str refuses with a panic
MayPanic(s) ==
    /\ Cut(s) > 0
    /\ \E i \in DOMAIN s : s[i].wide /\ Ends(s)[i - 1] < Cut(s) /\ Cut(s) < Ends(s)[i]

----------------------------------------------------------------------------
(* force_flush_logs, called when the window is due for a redraw or not      *)

Draw(who) == draws' = Append(draws, [who |-> who, rendered |-> FALSE])

\* variant: the guard is not looked at
GuardedNot(due) == inFlush /\ Draw("flush") /\ dirty' = FALSE /\ UNCHANGED inFlush

\* variant: a message logged during a flush asks for no redraw
GuardedForgets(due) == inFlush /\ UNCHANGED drawVars

Guarded(due) == inFlush /\ dirty' = due /\ UNCHANGED <<inFlush, draws>>

\* variant: this way out keeps the guard
TooEarlyKeeps(due) ==
    /\ ~inFlush /\ phase # "screen"
    /\ inFlush' = TRUE /\ dirty' = due
    /\ UNCHANGED draws

\* lines 451-479: no window to draw on yet; the guard is released
TooEarly(due) == ~inFlush /\ phase # "screen" /\ dirty' = due /\ UNCHANGED <<inFlush, draws>>

\* request_redraw, and draw_if_needed takes the request
FlushBegins(due) ==
    /\ ~inFlush /\ phase = "screen"
    /\ inFlush' = TRUE /\ dirty' = FALSE
    /\ Draw("flush")

ForceFlush(due) == Guarded(due) \/ TooEarly(due) \/ FlushBegins(due)

----------------------------------------------------------------------------
(* SlintLogger::log.  The program logs between draws; a draw may log too.   *)

Log(m) ==
    /\ phase # "stopped"
    /\ m.id = Len(logged) + 1
    /\ logged' = Append(logged, m)
    /\ latest' = IF phase = "screen" /\ draws = << >> THEN m.id ELSE latest
    /\ UNCHANGED <<phase, screenVars>>

LogEarly(m) ==
    /\ phase = "early"
    /\ Log(m)
    /\ pending' = Kept(Append(pending, m))
    /\ UNCHANGED <<text, drawVars>>

\* slint asks for a redraw when a text on the window changes
LogToWindow(m) ==
    /\ phase # "early"
    /\ Log(m)
    /\ text' = Kept(text \o Append(pending, m))
    /\ pending' = << >>
    /\ ForceFlush(TRUE)

LogPanics(m) ==
    /\ phase # "stopped"
    /\ m.id = Len(logged) + 1
    /\ MayPanic(text \o Append(pending, m))
    /\ phase' = "stopped"
    /\ UNCHANGED <<logVars, drawVars, screenVars, logged, latest>>

\* boot.rs 188 and 331: boot_os and boot_linux_direct flush before they start an
\* image, also for a bootnext entry, when there is no window
Flush ==
    /\ phase # "stopped" /\ draws = << >>
    /\ UNCHANGED <<phase, logVars, screenVars, logged, latest>>
    /\ ForceFlush(dirty)

----------------------------------------------------------------------------
(* efi_main and the event loop                                              *)

\* variant: PENDING_LOGS is read and not taken
HandOverKeeps == text' = pending /\ UNCHANGED pending

HandOver == text' = pending /\ pending' = << >>

\* lines 322-338: with a network interface
OpenWindow ==
    /\ phase = "early"
    /\ phase' = "window"
    /\ HandOver
    /\ dirty' = TRUE
    /\ UNCHANGED <<inFlush, draws, screenVars, logged, latest>>

\* run_event_loop, up to the globals
StartScreen ==
    /\ phase = "window"
    /\ phase' = "screen"
    /\ UNCHANGED <<logVars, drawVars, screenVars, logged, latest>>

\* no network interface, no graphics output, or an OS runs
Stop ==
    /\ phase # "stopped" /\ draws = << >>
    /\ phase' = "stopped"
    /\ UNCHANGED <<logVars, drawVars, screenVars, logged, latest>>

\* run_slint_ui, line 375
UiDraws ==
    /\ phase = "screen" /\ draws = << >>
    /\ dirty
    /\ dirty' = FALSE
    /\ UNCHANGED <<phase, logVars, inFlush, screenVars, logged, latest>>
    /\ Draw("ui")

\* lines 376 and 489: the innermost draw renders the window into the buffer
Render ==
    /\ phase # "stopped" /\ draws # << >>
    /\ ~Last(draws).rendered
    /\ draws' = [draws EXCEPT ![Len(draws)] = [who |-> @.who, rendered |-> TRUE]]
    /\ frame' = text
    /\ UNCHANGED <<phase, logVars, dirty, inFlush, shown, logged, latest>>

\* the buffer goes to the screen; a flush releases the guard
DrawEnds ==
    /\ phase # "stopped" /\ draws # << >>
    /\ Last(draws).rendered
    /\ shown' = frame
    /\ inFlush' = (inFlush /\ Last(draws).who # "flush")
    /\ draws' = Front(draws)
    /\ UNCHANGED <<phase, logVars, dirty, frame, logged, latest>>

Next ==
    \/ \E m \in Message : LogEarly(m) \/ LogToWindow(m) \/ LogPanics(m)
    \/ Flush \/ OpenWindow \/ StartScreen \/ Stop \/ UiDraws \/ Render \/ DrawEnds

Spec == Init /\ [][Next]_vars

\* The program starts up, the user interface has its turns, a draw ends.
FairSpec == Spec /\ WF_vars(OpenWindow) /\ WF_vars(StartScreen)
                 /\ WF_vars(UiDraws) /\ WF_vars(Render) /\ WF_vars(DrawEnds)

----------------------------------------------------------------------------
TypeOK ==
    /\ phase \in {"early", "window", "screen", "stopped"}
    /\ {pending, text, frame, shown, logged} \subseteq Seq(Message)
    /\ Total(pending) <= Limit /\ Total(text) <= Limit
    /\ {dirty, inFlush} \subseteq BOOLEAN
    /\ draws \in Seq([who : {"ui", "flush"}, rendered : BOOLEAN])
    /\ latest \in 0..MaxLogs

\* main.rs 64-101 and 334-337: what is kept, in the window and before it, is the
\* end of what was logged, without gaps or repetitions, and as much of it as
\* stays below the limit.
LogIsRecent ==
    LET kept == text \o pending
        From(i) == SubSeq(logged, i, Len(logged))
    IN  /\ IsSuffix(kept, logged)
        /\ \A i \in 1..(Len(logged) - Len(kept)) : Total(From(i)) >= Limit

\* README.md 27: "an execution guard to prevent recursive re-entrant logger
\* calls": a flush never draws inside a flush, the guard is set just while one
\* draws, whichever way it ends, and draws nest at most once.
DrawsAreBounded ==
    /\ inFlush <=> \E i \in DOMAIN draws : draws[i].who = "flush"
    /\ Len(draws) <= 2

\* README.md 13: "real-time execution logs": what the program logs is on the
\* screen before it goes on, though the user interface does not run meanwhile
\* and draws overwrite each other.
RealTime ==
    phase = "screen" /\ draws = << >> =>
        \A m \in Range(text) : m.id = latest => m \in Range(shown)

\* main.rs 82 with slint_plat.rs 446 and 375: a message logged during a draw is
\* not drawn at once; the user interface draws it later.
LogIsShown == [](text # shown => <>(text = shown \/ phase = "stopped"))
=============================================================================
