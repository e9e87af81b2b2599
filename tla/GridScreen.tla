----------------------------- MODULE GridScreen -----------------------------
(***************************************************************************)
(* The main grid while the song plays: its boxes, the header, the status   *)
(* row and the sidebar.  There are three ways to draw them.  The grid's    *)
(* own on_draw draws a context it was given when the grid was entered;     *)
(* UI_Sequencer_RedrawGridComposed draws the variables of ui_sequencer.c   *)
(* as they are; and the header and the status row are kept up to date      *)
(* piece by piece.  Each of them updates only some of the caches that the  *)
(* others compare with.                                                    *)
(*                                                                         *)
(* A pass of the main loop is a step of the engine, the keys in the order  *)
(* in which UI_Sequencer_Update looks at them, the boxes and the status    *)
(* row; the run time goes on at any moment.  A drawing of the whole        *)
(* display takes far more than the 10 ms between two status rows (153,600  *)
(* bytes over SPI at 1/16 of the bus clock), so a status row follows it.   *)
(*                                                                         *)
(* Left out: tempo, swing, division and chain length, which are drawn by   *)
(* the same calls, and what happens off the grid (Ui): the bars come back  *)
(* from there with any notes and drafts.  A number of several digits is    *)
(* one digit, and a pattern stands for its number of bars and of steps.    *)
(***************************************************************************)
EXTENDS Integers

CONSTANTS
  LastBar,      (* bars of a pattern are 1 .. LastBar                      *)
  LastStep,     (* steps of a bar                                          *)
  Patterns,
  MainModes,    (* the modes a tap of Shift goes through: 4                *)
  Digits,       (* values of the digit that stands for the run time        *)
  SongsAtStart, (* sets of bars that have notes at power-up                *)
  MaxInputs,    (* bound: keys for transport, pattern or mode, or to wake  *)
  MaxAway,      (* bound: times the grid is left                           *)
  MaxSleeps     (* bound: times the screensaver comes                      *)

SongBars == 1 .. LastBar
NoBar == 0  (* s_active_step of a stopped transport, and the 0xFF of the caches *)

ASSUME GridAssumption ==
  /\ {LastBar, LastStep, MainModes, Digits} \subseteq Nat \ {0}
  /\ Patterns \subseteq Nat \ {0} /\ Patterns # {}
  /\ SongsAtStart \subseteq SUBSET (Patterns \X SongBars)
  /\ {MaxInputs, MaxAway, MaxSleeps} \subseteq Nat

VARIABLES
  eng,          (* the engine: transport, position, run time, edit pattern *)
  notes,        (* the bars that have notes, as pairs of pattern and bar   *)
  typed,        (* those whose draft has a chord type                      *)
  loops,        (* those whose draft has a loop_count above 1              *)
  gridUi,       (* ui_sequencer.c and ui_transport.c                       *)
  ctx,          (* s_state of the grid's screen, and the pattern it is of  *)
  gridDisp,     (* what the display shows, and what its boxes came from    *)
  gridCache,    (* what ui_display.c believes it drew                      *)
  gridPass,     (* how far the pass has come and what it drew              *)
  used          (* keys, excursions and sleeps so far; rewound too late    *)

gridSong == <<notes, typed, loops>>
gridVars == <<eng, gridSong, gridUi, ctx, gridDisp, gridCache, gridPass, used>>

OnMainGrid == gridUi.mode = "grid"

-----------------------------------------------------------------------------
(* Drawing everything *)

NotesOf(p) == {b \in SongBars : <<p, b>> \in notes}

(* UI_Sequencer_StepHasNotes: notes in the engine or a chord type in the draft. *)
HasNotes == {b \in SongBars : <<eng.pattern, b>> \in notes \/ <<gridUi.cached, b>> \in typed}

(* The priority of the colours. *)
Colour(b, c, flash) ==
  IF b = c.active THEN IF ~flash.was THEN "active" ELSE IF flash.on THEN "white" ELSE "blue"
  ELSE IF b \in c.has THEN "chord"
  ELSE IF b = c.selected THEN "selected" ELSE "normal"

Lit == {"active", "white", "blue"}

Boxes(c, flash) == [b \in SongBars |-> Colour(b, c, flash)]
GridHeader(u) == [state |-> u.state, rec |-> u.rec]
Text == [bar |-> eng.bar, step |-> eng.step, total |-> eng.pattern, ms |-> eng.ms]

(* UI_Display_DrawMainGridComposed.  Of the caches of the status row it sets pattern,
   bar and mode, but none of the digits. *)
DrawComposed(c, u, from, before) ==
  /\ gridDisp' = [boxes |-> Boxes(c, u.flash), from |-> from, of |-> c.of,
                  header |-> GridHeader(u), mode |-> u.main, text |-> Text,
                  side |-> eng.pattern]
  /\ gridCache' = [before EXCEPT
       !.header = GridHeader(u), !.pattern = eng.pattern, !.mode = u.main,
       !.bar = eng.bar, !.force = FALSE, !.side = eng.pattern]

(* UI_MainGridScreen_SetContext without flags looks at the notes of the engine only. *)
SetGridContext(u, withNotes) ==
  ctx' = [selected |-> u.selected, active |-> u.active, of |-> eng.pattern, has |-> withNotes]

(* MainGrid_OnDraw: UI_Display_FastReturnToGrid forgets the step that was drawn. *)
OnDraw(u) == DrawComposed(ctx', u, "context", [gridCache EXCEPT !.step = NoBar])

(* UI_Sequencer_RedrawGridComposed *)
Live(u) == [selected |-> u.selected, active |-> u.active, of |-> eng.pattern, has |-> HasNotes]
RedrawGridComposed(u) == DrawComposed(Live(u), u, "variables", gridCache)

(* UI_Display_DrawHeader: the signs of the transport and of the recorder. *)
DrawGridHeader(u) ==
  /\ gridDisp' = [gridDisp EXCEPT
       !.header.state = IF u.state # gridCache.header.state THEN u.state ELSE @,
       !.header.rec   = IF u.rec # gridCache.header.rec THEN u.rec ELSE @]
  /\ gridCache' = [gridCache EXCEPT !.header = GridHeader(u)]

-----------------------------------------------------------------------------
(* The status row *)

(* The whole row.  The bar is kept twice: with the digits of the bar (position) and,
   for the digits of the step, together with the step. *)
WholeRowDigitsForgotten(u) ==   \* mutant
  /\ gridDisp' = [gridDisp EXCEPT !.side = eng.pattern, !.mode = u.main, !.text = Text]
  /\ gridCache' = [gridCache EXCEPT
       !.side = eng.pattern, !.mode = u.main, !.pattern = eng.pattern, !.force = FALSE,
       !.position = eng.bar, !.bar = eng.bar, !.step = eng.step]
WholeRow(u) ==
  /\ gridDisp' = [gridDisp EXCEPT !.side = eng.pattern, !.mode = u.main, !.text = Text]
  /\ gridCache' = [gridCache EXCEPT
       !.side = eng.pattern, !.mode = u.main, !.pattern = eng.pattern, !.force = FALSE,
       !.position = eng.bar, !.bar = eng.bar, !.step = eng.step,
       !.digits = [bar |-> eng.bar, step |-> eng.step, ms |-> eng.ms]]

FieldIf(field, condition) == IF condition THEN {field} ELSE {}

(* The fields whose value changed, and of these the digits that differ from the last
   ones written here: not from those a drawing of everything wrote. *)
ChangedDigits ==
  LET looked == FieldIf("bar", gridCache.position # eng.bar)
                \cup FieldIf("step", gridCache.bar # eng.bar \/ gridCache.step # eng.step)
                \cup {"ms"}
      written == {f \in looked : gridCache.digits[f] # Text[f]}
  IN /\ gridDisp' = [gridDisp EXCEPT !.side = eng.pattern,
          !.text = [f \in DOMAIN Text |-> IF f \in written THEN Text[f] ELSE @[f]]]
     /\ gridCache' = [gridCache EXCEPT
          !.side = eng.pattern, !.position = eng.bar, !.bar = eng.bar, !.step = eng.step,
          !.digits = [f \in DOMAIN @ |-> IF f \in looked THEN Text[f] ELSE @[f]]]

(* UI_Display_DrawStatusRow *)
DrawStatusRow(u) ==
  IF gridCache.force \/ gridCache.mode # u.main \/ gridCache.pattern # eng.pattern
  THEN WholeRow(u) ELSE ChangedDigits

-----------------------------------------------------------------------------
(* The engine and the passes *)

GridInit ==
  /\ eng = [playing |-> FALSE, bar |-> 1, step |-> 1, ms |-> 0,
            pattern |-> CHOOSE p \in Patterns : \A q \in Patterns : p <= q]
  /\ notes \in SongsAtStart
  /\ typed = {} /\ loops = {}
  /\ gridUi = [mode |-> "grid", asleep |-> FALSE, selected |-> 1, active |-> NoBar,
               last |-> NoBar, cached |-> eng.pattern, main |-> 0, state |-> "stop",
               rec |-> FALSE,
               flash |-> [was |-> FALSE, on |-> FALSE],
               seen |-> <<>>]  (* s_last_step and its like; empty once the run time went on *)
  /\ ctx = [selected |-> 1, active |-> NoBar, of |-> eng.pattern, has |-> NotesOf(eng.pattern)]
  /\ gridDisp = [boxes |-> Boxes(ctx, gridUi.flash), from |-> "context", of |-> eng.pattern,
                 header |-> GridHeader(gridUi), mode |-> 0, text |-> Text,
                 side |-> eng.pattern]
  /\ gridCache = [header |-> GridHeader(gridUi), pattern |-> eng.pattern, position |-> NoBar,
                  bar |-> 1, step |-> NoBar, mode |-> 0, force |-> FALSE, side |-> eng.pattern,
                  digits |-> [bar |-> NoBar, step |-> NoBar, ms |-> NoBar]]
  /\ gridPass = [stage |-> "rest", drawn |-> FALSE, done |-> "nothing"]
  /\ used = [inputs |-> 0, away |-> 0, sleeps |-> 0, late |-> FALSE]

(* Bridge_ServiceMusicalEvents comes before the user interface: the next step of the
   bar, the first of a bar the engine goes on with, or the end of a one-shot.  A step
   lasts 25 ms and more, so the run time has gone on since the last one. *)
Step ==
  /\ gridPass.stage = "rest" /\ eng.playing
  /\ \E ms \in 0 .. Digits - 1 :
       \/ eng.step < LastStep /\ eng' = [eng EXCEPT !.step = @ + 1, !.ms = ms]
       \/ \E b \in SongBars : eng' = [eng EXCEPT !.step = 1, !.bar = b, !.ms = ms]
       \/ eng' = [eng EXCEPT !.playing = FALSE, !.ms = ms]
  /\ gridUi' = [gridUi EXCEPT !.seen = <<>>]
  /\ gridPass' = [gridPass EXCEPT !.done = "nothing"]
  /\ UNCHANGED <<gridSong, ctx, gridDisp, gridCache, used>>

(* SysTick *)
Tick ==
  /\ eng.playing
  /\ eng' = [eng EXCEPT !.ms = (@ + 1) % Digits]
  /\ gridUi' = [gridUi EXCEPT !.seen = <<>>]
  /\ UNCHANGED <<gridSong, ctx, gridDisp, gridCache, gridPass, used>>

(* The start of UI_Sequencer_Update: another pattern brings its drafts, and the grid is
   drawn for it, with the bar that played in the pass before. *)
PatternTakenUpQuietly(u) == UNCHANGED <<ctx, gridDisp, gridCache>>   \* mutant
PatternTakenUp(u) ==
  IF u.cached # gridUi.cached /\ OnMainGrid
  THEN SetGridContext(u, NotesOf(eng.pattern)) /\ OnDraw(u)
  ELSE UNCHANGED <<ctx, gridDisp, gridCache>>

BeginPass ==
  /\ gridPass.stage = "rest" /\ ~gridUi.asleep
  /\ gridUi' = [gridUi EXCEPT !.cached = eng.pattern]
  /\ PatternTakenUp(gridUi')
  /\ gridPass' = [stage |-> "tap", drawn |-> gridDisp' # gridDisp, done |-> "nothing"]
  /\ UNCHANGED <<eng, gridSong, used>>

(* The screensaver comes long after the last key, so nothing is left to take up.  The key
   that ends it draws the active screen and ends the pass. *)
GridSleep ==
  /\ gridPass.stage = "rest" /\ ~gridUi.asleep /\ gridUi.cached = eng.pattern
  /\ used.sleeps < MaxSleeps /\ used.inputs < MaxInputs
  /\ gridUi' = [gridUi EXCEPT !.asleep = TRUE]
  /\ used' = [used EXCEPT !.sleeps = @ + 1, !.inputs = @ + 1]
  /\ UNCHANGED <<eng, gridSong, ctx, gridDisp, gridCache, gridPass>>

GridWake ==
  /\ gridPass.stage = "rest" /\ gridUi.asleep
  /\ gridUi' = [gridUi EXCEPT !.asleep = FALSE]
  /\ UNCHANGED ctx
  /\ IF OnMainGrid THEN OnDraw(gridUi') ELSE UNCHANGED <<gridDisp, gridCache>>
  /\ gridPass' = [gridPass EXCEPT !.done = "nothing"]
  /\ UNCHANGED <<eng, gridSong, used>>

-----------------------------------------------------------------------------
(* Keys, in the order in which a pass looks at them *)

Order == <<"tap", "transport", "matrix", "encoder", "boxes">>
Reached(stage) == \E i, j \in 1 .. 4 : i <= j /\ gridPass.stage = Order[i] /\ stage = Order[j]
After(stage) == CHOOSE s \in {Order[i] : i \in 2 .. 5} :
                  \E i \in 1 .. 4 : stage = Order[i] /\ s = Order[i + 1]

Key(stage, rewinds) ==
  /\ Reached(stage) /\ OnMainGrid /\ used.inputs < MaxInputs
  /\ gridPass' = [gridPass EXCEPT !.stage = After(stage)]
  /\ used' = [used EXCEPT !.inputs = @ + 1, !.late = @ \/ (rewinds /\ gridPass.drawn)]
  /\ UNCHANGED <<gridSong, ctx>>

(* UI_Display_SetMainMode forces the whole row. *)
ShiftTap ==
  /\ Key("tap", FALSE)
  /\ gridUi' = [gridUi EXCEPT !.main = (@ + 1) % MainModes]
  /\ LET forced == gridUi'.main # gridUi.main \/ gridCache.force IN
       IF forced THEN WholeRow(gridUi') ELSE DrawStatusRow(gridUi')
  /\ UNCHANGED eng

(* UI_Transport_PlayStop goes by its own state; Bridge_Start does nothing when the device
   plays, and rewinds it when it does not. *)
PlayStop ==
  /\ Key("transport", gridUi.state = "stop")
  /\ IF gridUi.state = "stop"
     THEN /\ gridUi' = [gridUi EXCEPT !.state = IF gridUi.rec THEN "record" ELSE "play"]
          /\ eng' = IF eng.playing THEN eng
                    ELSE [eng EXCEPT !.playing = TRUE, !.bar = 1, !.step = 1]
     ELSE /\ gridUi' = [gridUi EXCEPT !.state = "stop"]
          /\ eng' = [eng EXCEPT !.playing = FALSE]
  /\ DrawGridHeader(gridUi')

(* UI_Transport_Reset: the device goes back to the beginning but plays on. *)
Reset ==
  /\ Key("transport", TRUE)
  /\ gridUi' = [gridUi EXCEPT !.state = "stop", !.rec = FALSE,
                              !.seen = IF eng.ms = 0 THEN @ ELSE <<>>]
  /\ eng' = [eng EXCEPT !.bar = 1, !.step = 1, !.ms = 0]
  /\ DrawGridHeader(gridUi')

RecArm ==
  /\ Key("transport", FALSE)
  /\ gridUi' = [gridUi EXCEPT !.rec = ~@]
  /\ DrawGridHeader(gridUi')
  /\ UNCHANGED eng

RecClear ==
  /\ Key("transport", FALSE) /\ gridUi.rec
  /\ gridUi' = [gridUi EXCEPT !.rec = FALSE]
  /\ DrawGridHeader(gridUi')
  /\ UNCHANGED eng

(* UI_StepRoute_GridPattern and the shifted keys: what the status row was last called
   with is forgotten. *)
SelectPattern ==
  /\ Key("matrix", FALSE)
  /\ \E p \in Patterns \ {eng.pattern} : eng' = [eng EXCEPT !.pattern = p]
  /\ gridUi' = [gridUi EXCEPT !.seen = <<>>]
  /\ UNCHANGED <<gridDisp, gridCache>>

(* A key that opens another screen, by the matrix for the bar it names. *)
LeaveGrid ==
  /\ OnMainGrid /\ used.away < MaxAway
  /\ \E stage \in {"matrix", "encoder"}, b \in SongBars :
       /\ Reached(stage) /\ (stage = "encoder" => b = gridUi.selected)
       /\ gridUi' = [gridUi EXCEPT !.mode = "away", !.selected = b]
       /\ gridPass' = [gridPass EXCEPT !.stage = After(stage)]
  /\ used' = [used EXCEPT !.away = @ + 1]
  /\ UNCHANGED <<eng, gridSong, ctx, gridDisp, gridCache>>

Placed(set, x, in) == IF in THEN set \cup {x} ELSE set \ {x}

(* A key that leads back (UI_Sequencer_ExitToGrid), after an edit of a bar; some of the
   screens also go back to the first mode.  The grid is drawn with s_active_step as the
   pass before left it. *)
ReturnToGrid ==
  /\ ~OnMainGrid
  /\ \E stage \in {"transport", "matrix", "encoder"} :
       Reached(stage) /\ gridPass' = [gridPass EXCEPT !.stage = After(stage), !.drawn = TRUE]
  /\ \E x \in {eng.pattern} \X SongBars, has \in BOOLEAN :
       \/ notes' = Placed(notes, x, has) /\ UNCHANGED <<typed, loops>>
       \/ typed' = Placed(typed, x, has) /\ UNCHANGED <<notes, loops>>
       \/ loops' = Placed(loops, x, has) /\ UNCHANGED <<notes, typed>>
  /\ \E m \in {gridUi.main, 0} : gridUi' = [gridUi EXCEPT !.mode = "grid", !.main = m]
  /\ SetGridContext(gridUi', {b \in SongBars : <<eng.pattern, b>> \in notes'})
  /\ OnDraw(gridUi')
  /\ UNCHANGED <<eng, used>>

-----------------------------------------------------------------------------
(* What a pass draws by itself *)

ActiveBar == IF eng.playing THEN eng.bar ELSE NoBar

(* UI_Sequencer_UpdateGridRepeatAndStepVisuals: the bar that plays flashes while its
   draft repeats; `due' when 140 ms have gone since the last change. *)
Flash(repeats, due) ==
  [was |-> repeats,
   on |-> repeats /\ (~gridUi.flash.was \/ (gridUi.flash.on # due))]

OutOfDateByBar(u) == u.active # gridUi.last   \* mutant
OutOfDate(u) == u.flash # gridUi.flash \/ u.active # gridUi.last

(* Off the grid only s_active_step is kept up to date. *)
DrawBoxes ==
  /\ gridPass.stage \in {Order[i] : i \in 1 .. 5}
  /\ IF OnMainGrid
     THEN \E due \in BOOLEAN :
            LET repeats == ActiveBar # NoBar /\ <<gridUi.cached, ActiveBar>> \in loops
                u == [gridUi EXCEPT !.active = ActiveBar, !.last = ActiveBar,
                                    !.flash = Flash(repeats, due)]
            IN /\ gridUi' = u
               /\ IF OutOfDate(u) THEN RedrawGridComposed(u)
                                  ELSE UNCHANGED <<gridDisp, gridCache>>
               /\ gridPass' = [gridPass EXCEPT !.stage = "row", !.drawn = @ \/ OutOfDate(u),
                                              !.done = "boxes"]
     ELSE /\ gridUi' = [gridUi EXCEPT !.active = ActiveBar]
          /\ gridPass' = [gridPass EXCEPT !.stage = "row", !.done = "boxes"]
          /\ UNCHANGED <<gridDisp, gridCache>>
  /\ UNCHANGED <<eng, gridSong, ctx, used>>

(* UI_Sequencer_UpdateStatusRowTick: every 10 ms, if something it would show changed. *)
Position == <<eng.pattern, eng.bar, eng.step>>

UpdateStatusRow ==
  /\ gridPass.stage = "row"
  /\ \E due \in BOOLEAN :
       /\ gridPass.drawn => due
       /\ IF due /\ OnMainGrid /\ gridUi.seen # Position
          THEN gridUi' = [gridUi EXCEPT !.seen = Position] /\ DrawStatusRow(gridUi')
          ELSE UNCHANGED <<gridUi, gridDisp, gridCache>>
       /\ gridPass' = [stage |-> "rest", drawn |-> FALSE,
                       done |-> IF due /\ OnMainGrid THEN "row" ELSE "boxes"]
  /\ UNCHANGED <<eng, gridSong, ctx, used>>

GridNext ==
  \/ Step \/ Tick \/ BeginPass \/ GridSleep \/ GridWake
  \/ ShiftTap \/ PlayStop \/ Reset \/ RecArm \/ RecClear \/ SelectPattern
  \/ LeaveGrid \/ ReturnToGrid \/ DrawBoxes \/ UpdateStatusRow

GridSpec == GridInit /\ [][GridNext]_gridVars

-----------------------------------------------------------------------------
(* Properties *)

GridAtRest ==
  gridPass.stage = "rest" /\ OnMainGrid /\ ~gridUi.asleep /\ gridPass.done # "nothing"

(* Once the grid has been drawn from the variables it stays what they say: the bar that
   plays, its flashing, the bars with notes (ui_sequencer.c:4331-4368: three conditions
   ask for a drawing, everything else must not change the boxes). *)
LiveGridIsTrue ==
  GridAtRest /\ gridDisp.from = "variables" /\ gridUi.cached = eng.pattern
    => gridDisp.boxes = Boxes(Live(gridUi), gridUi.flash)

(* After a pass that looked at the status row it shows the position of the engine and the
   number of bars, although a part of it was written by drawings of everything and only
   the digits that changed by the row (ui_display.c:1191-1230); the run time is right
   when the transport stands.  Two things come first: the screensaver, for GridWake draws
   everything in a pass without a status row, and a rewinding by a key in a pass that has
   drawn everything.  After either the engine may be back at the digits written last. *)
StatusShowsPosition ==
  GridAtRest /\ gridPass.done = "row" /\ used.sleeps = 0 /\ ~used.late
    => \A f \in {"bar", "step", "total"} \cup FieldIf("ms", ~eng.playing) :
         gridDisp.text[f] = Text[f]

(* Boxes, sidebar, mode and header belong to the pattern, mode and transport keys of now,
   whichever call drew them (ui_sequencer.c:4457-4475). *)
GridShowsPattern ==
  GridAtRest /\ gridUi.cached = eng.pattern
    => /\ gridDisp.of = eng.pattern /\ gridDisp.side = eng.pattern
       /\ gridDisp.mode = gridUi.main /\ gridDisp.header = GridHeader(gridUi)

(* The three ways of drawing leave nothing false behind for one another. *)
GridIsTrue == LiveGridIsTrue /\ StatusShowsPosition /\ GridShowsPattern

(* The code does not keep the two that follow. *)

(* "currently playing step" (ui_sequencer.c:81): its box, and no other, is drawn as such. *)
PlayingBarIsLit ==
  GridAtRest => \A b \in SongBars : gridDisp.boxes[b] \in Lit <=> b = ActiveBar

(* "Play in grid toggles transport play and stop." *)
PlayToggles == [][PlayStop => eng'.playing = ~eng.playing]_gridVars
=============================================================================
