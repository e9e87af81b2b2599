---------------------------------- MODULE Ui ----------------------------------
(***************************************************************************)
(* The user interface: its mode, the stack of screens, the shortcuts from  *)
(* the bar editor with their dialogs, and the drafts of the chord menus    *)
(* with what committing them does to the notes of the bars.                *)
(*                                                                         *)
(* ui_sequencer.c keeps all of this in static variables that every handler *)
(* reads and writes; they are the fields of one record, and a handler is   *)
(* an operator from record to record.  UI_Sequencer_Update handles the     *)
(* inputs of one tick one after the other: one input is one action.        *)
(*                                                                         *)
(* Left out: drawing, the transport, the values edited in the timing,      *)
(* arpeggio, quantiser and song menus, the drafts of other patterns (they  *)
(* are swapped between two ticks when the pattern changes), the skip mark  *)
(* of a bar, and where a menu's cursor stands: a selection is made when it *)
(* is used.                                                                *)
(***************************************************************************)
EXTENDS Integers, Sequences, SequencesExt, FiniteSetsExt

CONSTANTS
  Bars,       (* bars of the pattern, a set of matrix keys                 *)
  Types,      (* chord types of the library, with their roots              *)
  MajorC,     (* what a bar with notes of its own is taken for             *)
  None,       (* type 0: no chord                                          *)
  Own         (* notes of a bar that are no chord of the library           *)

ASSUME UiAssumption ==
  /\ Bars \subseteq 1 .. 12 /\ Bars # {}
  /\ MajorC \in Types /\ None \notin Types /\ Own \notin Types \cup {None}

Keys       == 1 .. 12
MaxDepth   == 4                       (* UI_SCREEN_ROUTER_MAX_DEPTH        *)
Drafts     == Types \cup {None}
NoteValues == Drafts \cup {Own}
Picks      == Drafts \cup {"USER"}    (* the entries of the chord menu     *)
MainModes  == <<"STEP", "CHORD", "TIMING", "PATTERN">>
FooterKeys == <<"MAIN", "PREV", "NEXT", "SAVE">>
Menus      == {"TIMING_MENU", "ARP_MENU", "QUANT_TIMING", "SONG_CHAIN"}
UserModes  == {"USER_CREATE", "USER_LOAD", "USER_NAME"}

VARIABLE ui

(* A screen has the name of the mode it belongs to. *)
Init ==
  \E n \in [Bars -> NoteValues] :
    ui = [mode     |-> "GRID",             (* s_ui_mode                      *)
          main     |-> "STEP",             (* s_main_mode                    *)
          stack    |-> <<"GRID">>,         (* s_router                       *)
          target   |-> "GRID",             (* s_return_target: GRID or BAR   *)
          shortcut |-> "none",             (* s_direct_shortcut              *)
          direct   |-> 0,                  (* s_direct_chord_ctx: its bar    *)
          dialog   |-> "none",             (* the question on the screen     *)
          yes      |-> FALSE,              (* its answer, NO at first        *)
          quick    |-> FALSE,              (* s_chord_params_timing_quick    *)
          length   |-> FALSE,              (* s_step_piano_length_mode_active *)
          selected |-> Min(Bars),          (* s_selected_step                *)
          menu     |-> Min(Bars),          (* s_menu_step                    *)
          draft    |-> [b \in Bars |-> None],  (* s_step_chords              *)
          shown    |-> None,               (* the copy ChordParamsScreen has *)
          action   |-> "MAIN",             (* s_param_footer_selection       *)
          encoder  |-> "up",               (* up, down, or held for 350 ms   *)
          notes    |-> n]                  (* what the device holds          *)

-----------------------------------------------------------------------------
(* Screens and shortcuts *)

Active(u) == IF u.stack = <<>> THEN "none" ELSE Last(u.stack)
Popped(u) == Front(u.stack)

(* Entering a menu pushes its screen over one of those it is opened from.  The
   chord screens take the place of the whole stack otherwise, the other menus only
   draw themselves. *)
Fits(u, under) == Active(u) \in under /\ Len(u.stack) < MaxDepth
Opened(u, m, under) ==
  [u EXCEPT !.mode = m, !.stack = IF Fits(u, under) THEN Append(@, m) ELSE @]
OpenedAlone(u, m, under) ==
  [u EXCEPT !.mode = m, !.stack = IF Fits(u, under) THEN Append(@, m) ELSE <<m>>]

(* UI_Sequencer_EndDirectShortcut and UI_Sequencer_EndDirectChordContext, with the
   dialogs that ExitToGrid and EnterStepPianoView close. *)
NoShortcut(u) ==
  [u EXCEPT !.target = "GRID", !.shortcut = "none", !.direct = 0, !.dialog = "none"]

ExitToGrid(u) == [NoShortcut(u) EXCEPT !.mode = "GRID", !.stack = <<"GRID">>]

(* UI_Sequencer_IsDirectChordContextActive *)
DirectActive(u) == u.direct # 0 /\ u.shortcut = "CHORD" /\ u.target = "BAR"

(* UI_Sequencer_ReturnToBarEditor: without a bar editor on the stack everything is
   popped, and the mode stays. *)
ReturnToBarEditor(u) ==
  LET editors == {k \in 1 .. Len(u.stack) : u.stack[k] = "STEP_PIANO"} IN
  IF editors = {} THEN [u EXCEPT !.stack = <<>>]
  ELSE [NoShortcut(u) EXCEPT !.mode = "STEP_PIANO", !.stack = SubSeq(@, 1, Max(editors))]

BackFromChord(u) == IF u.target = "BAR" THEN ReturnToBarEditor(u) ELSE ExitToGrid(u)

(* UI_Sequencer_ExitTimingMenu, ExitArpMenu, ExitQuantTimingMenu, ExitSongChain. *)
ExitMenu(u) ==
  IF u.mode \in {"TIMING_MENU", "ARP_MENU"} /\ u.target = "BAR" THEN ReturnToBarEditor(u)
  ELSE [u EXCEPT !.mode = "GRID",
                 !.main = IF u.mode = "SONG_CHAIN" THEN "STEP" ELSE @,
                 !.stack = IF Active(u) = u.mode THEN Popped(u) ELSE <<"GRID">>]

(* UI_Sequencer_ExitStepPiano; the question of the bar editor is only asked in its
   mode, and entering it again closes it. *)
ExitStepPiano(u) ==
  [u EXCEPT !.mode = "GRID", !.target = "GRID", !.shortcut = "none",
            !.dialog = "none", !.length = FALSE,
            !.stack = IF Active(u) = "STEP_PIANO" THEN Popped(u) ELSE <<"GRID">>]

EnterStepPianoView(u, b) ==
  Opened([NoShortcut(u) EXCEPT !.selected = b, !.length = FALSE], "STEP_PIANO", {"GRID"})

-----------------------------------------------------------------------------
(* Chord drafts *)

(* UI_Sequencer_HydrateStepChordFromEngine: a bar with notes keeps the draft it has,
   or gets the chord that GetStepChordUiParams finds. *)
Hydrated(u, b) ==
  [u EXCEPT !.draft[b] = IF u.notes[b] = None THEN None
                         ELSE IF @ # None THEN @
                         ELSE IF u.notes[b] = Own THEN MajorC ELSE u.notes[b]]

(* UI_Sequencer_CommitChordDraft: SetStepChordParams for every bar of the pattern. *)
Committed(u) == [u EXCEPT !.notes = u.draft]

RefreshChordParams(u) == [u EXCEPT !.shown = u.draft[u.menu]]

EnterChordMenu(u, b) ==
  OpenedAlone(Hydrated([u EXCEPT !.selected = b, !.menu = b], b), "CHORD_MENU",
              {"STEP_PIANO"})

EnterChordParams(u, b) ==
  LET v == Hydrated([u EXCEPT !.selected = b, !.menu = b, !.quick = FALSE,
                              !.action = "MAIN"], b)
  IN OpenedAlone(RefreshChordParams(v), "CHORD_PARAMS", {"CHORD_MENU", "STEP_PIANO"})

EnterChordFromBarEditor(u) ==
  EnterChordParams([u EXCEPT !.target = "BAR", !.shortcut = "CHORD",
                             !.direct = u.selected], u.selected)

(* UI_StepRoute_ShiftGridTiming: the chord parameters over the grid. *)
QuickTiming(u, b) ==
  RefreshChordParams(Hydrated([u EXCEPT !.selected = b, !.menu = b, !.quick = TRUE,
                                        !.mode = "CHORD_PARAMS", !.action = "MAIN"], b))

(* UI_Route_RecBackToChordMenu *)
RecBackToChordMenuOnTop(u) ==   \* mutant
  IF u.target = "BAR" THEN (IF DirectActive(u) THEN u ELSE ReturnToBarEditor(u))
  ELSE IF u.quick THEN ExitToGrid([u EXCEPT !.quick = FALSE, !.main = "TIMING"])
  ELSE [u EXCEPT !.mode = "CHORD_MENU"]
RecBackToChordMenu(u) ==
  IF u.target = "BAR" THEN (IF DirectActive(u) THEN u ELSE ReturnToBarEditor(u))
  ELSE IF u.quick THEN ExitToGrid([u EXCEPT !.quick = FALSE, !.main = "TIMING"])
  ELSE [u EXCEPT !.mode = "CHORD_MENU", !.stack = Popped(u)]

(* UI_Sequencer_CommitDirectChordToSlot, with the way back: what the bar of the
   context holds when a column of it was written, or a question first when the
   column has notes. *)
Placed(u, d) ==
  {ReturnToBarEditor([u EXCEPT !.notes[u.direct] = n, !.main = "STEP"]) :
     n \in IF d # None THEN NoteValues \ {None}
           ELSE IF u.notes[u.direct] = None THEN {None} ELSE NoteValues}
CommitDirectChordToSlot(u, d) ==
  Placed(u, d) \cup
    {v \in {[u EXCEPT !.dialog = "replace", !.yes = FALSE]} : u.notes[u.direct] # None}

(* UI_Sequencer_HandleChordParamAction: the copy on the screen goes to the draft
   first.  PREV and NEXT carry the chord on to a neighbour. *)
Neighbour(a, b) ==
  LET before == {c \in Bars : c < b} after == {c \in Bars : c > b} IN
  IF a = "PREV" THEN Max(IF before = {} THEN Bars ELSE before)
                ELSE Min(IF after = {} THEN Bars ELSE after)

DirectFooter(u, a) ==
  IF a = "SAVE" THEN CommitDirectChordToSlot(u, u.draft[u.menu])
                ELSE {RefreshChordParams([u EXCEPT !.action = "MAIN"])}

Footer(u, a) ==
  LET c == Committed(u)
      b == Neighbour(a, u.menu)
  IN CASE a = "MAIN" -> RecBackToChordMenu(u)
       [] a = "SAVE" -> [c EXCEPT !.main = IF u.quick THEN @ ELSE "STEP", !.action = "MAIN"]
       [] OTHER -> RefreshChordParams(
                     [c EXCEPT !.menu = b, !.selected = b, !.draft[b] = u.draft[u.menu]])

HandleChordParamAction(u, a) ==
  LET v == [u EXCEPT !.draft[u.menu] = u.shown, !.action = a] IN
  IF DirectActive(u) THEN DirectFooter(v, a) ELSE {Footer(v, a)}

(* UI_SelectStep_ChordMenu and UI_SelectStep_ChordParams *)
SelectStepOnly(u, b) ==   \* mutant
  IF u.mode = "CHORD_MENU"
  THEN [Hydrated([u EXCEPT !.selected = b, !.menu = b], b) EXCEPT !.stack = <<"CHORD_MENU">>]
  ELSE Hydrated([Committed(u) EXCEPT !.selected = b, !.menu = b], b)
SelectStep(u, b) ==
  IF u.mode = "CHORD_MENU"
  THEN [Hydrated([u EXCEPT !.selected = b, !.menu = b], b) EXCEPT !.stack = <<"CHORD_MENU">>]
  ELSE RefreshChordParams(Hydrated([Committed(u) EXCEPT !.selected = b, !.menu = b], b))

-----------------------------------------------------------------------------
(* What an input does in each mode: the route tables.  A handler whose outcome
   depends on what is left out gives the set of its outcomes. *)

(* The dialogs UI_Sequencer_Update knows of; the bar editor has two of its own. *)
Asking(u) == u.dialog \in {"replace", "CHORD", "TIMING", "ARP"}
AskingBar(u) == u.dialog \in {"clear", "exit"}

(* CommitTimingDraft may be refused (SetPatternTiming). *)
SaveMenu(u) == {ExitMenu(u)} \cup {v \in {u} : v.mode = "TIMING_MENU"}

(* UI_Sequencer_EnterUserChordMenu and the menus below it. *)
EnterUserChord(u, m) ==
  OpenedAlone(u, m, {IF m = "USER_MENU" THEN "CHORD_MENU" ELSE "USER_MENU"})
ExitUserChordSubToMenu(u) == [u EXCEPT !.mode = "USER_MENU", !.stack = Popped(u)]

(* UI_Route_PlayUserChordMenu: NAME only opens when the chord it would rename is
   there. *)
PlayUserChordMenu(u) == {EnterUserChord(u, m) : m \in UserModes} \cup {u}

(* UI_Route_PlayUserChordLoad, when the library has a chord. *)
PlayUserChordLoad(u) ==
  {u} \cup
  IF DirectActive(u) THEN CommitDirectChordToSlot(u, MajorC)
  ELSE {ExitToGrid([u EXCEPT !.notes[u.menu] = n, !.draft[u.menu] = None, !.main = "STEP"]) :
          n \in NoteValues \ {None}}

(* UI_Route_PlayChordMenu clears the bar, UI_EncoderPress_ChordMenu commits all of
   the drafts.  A type goes on to the parameters. *)
ClearInMenu(u, press) ==
  LET v == [u EXCEPT !.draft[u.menu] = None, !.main = "STEP"] IN
  IF press THEN {ExitToGrid(Committed(v))}
  ELSE IF DirectActive(u) THEN CommitDirectChordToSlot(u, None)
  ELSE {BackFromChord([v EXCEPT !.notes[u.menu] = None])}

Pick(u, press) ==
  {EnterUserChord(u, "USER_MENU")} \cup ClearInMenu(u, press) \cup
  {EnterChordParams([u EXCEPT !.draft[u.menu] = t], u.menu) : t \in Types}

(* UI_Route_PlayChordParams.  In the chord chooser of the bar editor only key 9
   places the chord. *)
PlayChordParamsAlways(u) ==   \* mutant
  {BackFromChord([Committed(u) EXCEPT !.main = IF u.quick THEN "TIMING" ELSE "STEP",
                                      !.quick = FALSE])}
PlayChordParams(u) ==
  IF DirectActive(u) THEN {u}
  ELSE {BackFromChord([Committed(u) EXCEPT !.main = IF u.quick THEN "TIMING" ELSE "STEP",
                                           !.quick = FALSE])}

Played(u) ==
  CASE u.mode = "CHORD_MENU"   -> Pick(u, FALSE)
    [] u.mode = "CHORD_PARAMS" -> PlayChordParams(u)
    [] u.mode = "STEP_PIANO"   -> {ExitStepPiano(u)}
    [] u.mode \in Menus        -> IF u.mode = "SONG_CHAIN" THEN {ExitMenu(u)} ELSE SaveMenu(u)
    [] u.mode = "USER_MENU"    -> PlayUserChordMenu(u)
    [] u.mode = "USER_LOAD"    -> PlayUserChordLoad(u)
    [] u.mode \in {"USER_CREATE", "USER_NAME"} -> {ExitUserChordSubToMenu(u)}
    [] OTHER -> {u}

(* REC leaves the bar editor with what the touched bars held before (PianoEditor). *)
Recorded(u) ==
  CASE u.mode = "CHORD_MENU"   -> {BackFromChord(u)}
    [] u.mode = "CHORD_PARAMS" -> {RecBackToChordMenu(u)}
    [] u.mode = "STEP_PIANO"   -> {ExitStepPiano([u EXCEPT !.notes = n]) :
                                     n \in [Bars -> NoteValues]}
    [] u.mode \in Menus        -> {ExitMenu(u)}
    [] u.mode = "USER_MENU"    -> IF DirectActive(u) THEN {ReturnToBarEditor(u)}
                                  ELSE {[u EXCEPT !.mode = "GRID", !.stack = <<"GRID">>]}
    [] u.mode \in UserModes    -> IF u.mode = "USER_LOAD" /\ DirectActive(u)
                                  THEN {ReturnToBarEditor(u)} ELSE {ExitUserChordSubToMenu(u)}
    [] OTHER -> {u}

EditedBar(u) ==
  {[u EXCEPT !.notes[u.selected] = n] : n \in NoteValues}

(* UI_StepRoute_StepPianoEditor *)
EnterFromBarEditor(u, m) ==
  Opened([u EXCEPT !.target = "BAR", !.shortcut = m], m, {"GRID", "STEP_PIANO"})
PianoKey(u, k) ==
  IF AskingBar(u) \/ (u.length /\ k # 8) THEN {u}
  ELSE CASE k = 1  -> {EnterChordFromBarEditor(u)}
         [] k = 2  -> {EnterFromBarEditor(u, "TIMING_MENU")}
         [] k = 3  -> {EnterFromBarEditor(u, "ARP_MENU")}
         [] k = 8  -> {[u EXCEPT !.length = IF u.notes[u.selected] = None THEN FALSE ELSE ~@]}
         [] k = 9  -> EditedBar(u)
         [] k = 10 -> {[u EXCEPT !.dialog = "clear", !.yes = FALSE]}
         [] OTHER  -> {u}

(* UI_StepRoute_ChordParamsFooterOrSelect *)
ChordParamsKey(u, k) ==
  IF DirectActive(u) THEN (IF k = 9 THEN HandleChordParamAction(u, "SAVE") ELSE {u})
  ELSE IF k <= 4 /\ ~u.quick THEN HandleChordParamAction(u, FooterKeys[k])
  ELSE {SelectStep(u, b) : b \in Bars \cap {k}}

GridKey(u, k) ==
  CASE u.main = "STEP"   -> {EnterStepPianoView(u, b) : b \in Bars \cap {k}}
    [] u.main = "CHORD"  -> {EnterChordMenu(u, b) : b \in Bars \cap {k}}
    [] u.main = "TIMING" -> IF k = 1 THEN {Opened(u, "TIMING_MENU", {"GRID"})}
                            ELSE IF k = 2 THEN {Opened(u, "QUANT_TIMING", {"GRID"})} ELSE {u}
    [] OTHER -> {u}

ShiftGridKey(u, k) ==
  IF k = 9 THEN {Opened(u, "SONG_CHAIN", {"GRID"})}
  ELSE IF u.main = "TIMING" THEN {QuickTiming(u, b) : b \in Bars \cap {k}} ELSE {u}

(* UI_Sequencer_HandleStepMatrixInput and UI_Sequencer_DispatchStepPress *)
Keyed(u, k, shift) ==
  CASE u.mode = "GRID"         -> IF shift THEN ShiftGridKey(u, k) ELSE GridKey(u, k)
    [] u.mode = "STEP_PIANO"   -> PianoKey(u, k)
    [] u.mode = "CHORD_PARAMS" -> ChordParamsKey(u, k)
    [] u.mode = "CHORD_MENU"   -> {SelectStep(u, b) : b \in Bars \cap {k}}
    [] OTHER -> {u}

-----------------------------------------------------------------------------
(* The encoder *)

(* UI_Sequencer_HandleEncoderPressInput, at the down edge. *)
Pressed(u, shift) ==
  CASE u.mode = "GRID" ->
         {CASE u.main = "CHORD"  -> EnterChordMenu(u, u.selected)
            [] u.main = "TIMING" -> Opened(u, "TIMING_MENU", {"GRID"})
            [] OTHER -> u}
    [] u.mode = "CHORD_MENU" -> IF shift THEN {u} ELSE Pick(u, TRUE)
    [] u.mode = "CHORD_PARAMS" ->
         IF DirectActive(u) THEN {RefreshChordParams([u EXCEPT !.action = "MAIN"])}
         ELSE IF shift THEN HandleChordParamAction(u, u.action) ELSE {RefreshChordParams(u)}
    [] u.mode = "SONG_CHAIN" -> {ExitToGrid(u)}
    [] u.mode \in Menus \ {"SONG_CHAIN"} -> IF shift THEN SaveMenu(u) ELSE {u}
    [] u.mode = "USER_MENU" ->
         IF shift THEN {[u EXCEPT !.mode = "CHORD_MENU", !.stack = Popped(u)]}
         ELSE PlayUserChordMenu(u)
    [] u.mode = "USER_LOAD" ->
         IF shift THEN {ExitUserChordSubToMenu(u)} ELSE PlayUserChordLoad(u)
    [] OTHER -> {u}

(* UI_Sequencer_ConfirmExitConfirmSelection; NO also ends the context of the chord
   chooser (DismissExitConfirm). *)
AnswerExit(u) ==
  LET v == [u EXCEPT !.dialog = "none"] IN
  CASE ~u.yes -> {[v EXCEPT !.direct = 0]}
    [] u.yes /\ u.dialog = "CHORD" ->
         {IF DirectActive(v) THEN ReturnToBarEditor(v)
          ELSE IF v.mode = "CHORD_PARAMS" THEN RecBackToChordMenu(v) ELSE BackFromChord(v)}
    [] OTHER -> SaveMenu(v)

(* UI_Sequencer_ConfirmDirectChordSelection *)
AnswerReplace(u) ==
  LET v == [u EXCEPT !.dialog = "none"] IN
  IF u.yes THEN Placed(v, u.draft[u.menu]) ELSE {v}

(* UI_StepPiano_ActionConfirmModal *)
AnswerBar(u) ==
  LET v == [u EXCEPT !.dialog = "none"] IN
  IF ~u.yes THEN {v} ELSE IF u.dialog = "clear" THEN EditedBar(v) ELSE {ExitStepPiano(v)}

(* A press shorter than 350 ms answers a question and nothing else. *)
ShortPress(u) ==
  CASE u.mode = "STEP_PIANO" /\ AskingBar(u) /\ ~u.length -> AnswerBar(u)
    [] u.mode # "STEP_PIANO" /\ u.dialog = "replace" -> AnswerReplace(u)
    [] u.mode # "STEP_PIANO" /\ Asking(u) /\ u.dialog # "replace" -> AnswerExit(u)
    [] OTHER -> {u}

(* A longer one asks: UI_EncoderLongPress_StepPiano, UI_Sequencer_Update and
   UI_Sequencer_HandleEncoderLongPressForDirectShortcut. *)
DirectShortcutActive(u) == u.target = "BAR" /\ u.shortcut # "none"
Ask(u, question) == [u EXCEPT !.dialog = question, !.yes = FALSE]
LongPressInMenus(u) ==   \* mutant
  IF u.mode = "STEP_PIANO" THEN IF u.length THEN u ELSE Ask(u, "exit")
  ELSE IF Asking(u) THEN u
  ELSE CASE u.mode = "TIMING_MENU" -> Ask(u, "TIMING")
         [] DirectShortcutActive(u) /\ u.mode = "ARP_MENU" -> Ask(u, "ARP")
         [] DirectShortcutActive(u) /\ u.mode = "CHORD_MENU" -> Ask(u, "CHORD")
         [] OTHER -> u
LongPress(u) ==
  IF u.mode = "STEP_PIANO" THEN IF u.length THEN u ELSE Ask(u, "exit")
  ELSE IF Asking(u) THEN u
  ELSE CASE u.mode = "TIMING_MENU" -> Ask(u, "TIMING")
         [] DirectShortcutActive(u) /\ u.mode = "ARP_MENU" -> Ask(u, "ARP")
         [] DirectShortcutActive(u) /\ u.mode \in {"CHORD_MENU", "CHORD_PARAMS"} ->
              Ask(u, "CHORD")
         [] OTHER -> u

(* UI_EncoderDelta_ChordParams: the active screen takes the turn, which is the grid
   in quick timing, and its copy goes to the draft. *)
Turned(u, right) ==
  CASE Asking(u)    -> {[u EXCEPT !.yes = right]}
    [] AskingBar(u) -> {[u EXCEPT !.yes = ~@]}
    [] u.dialog = "none" /\ u.mode = "CHORD_PARAMS" ->
         {[u EXCEPT !.shown = t, !.draft[u.menu] = t] :
            t \in IF Active(u) = "CHORD_PARAMS" THEN Drafts ELSE {u.shown}}
    [] OTHER -> {u}

-----------------------------------------------------------------------------
(* Inputs of one tick of UI_Sequencer_Update *)

(* The shift tap cycles the main mode, in the grid. *)
ShiftTap ==
  /\ ui.mode = "GRID"
  /\ \E k \in 1 .. 4 :
       /\ ui.main = MainModes[k]
       /\ ui' = [ui EXCEPT !.main = MainModes[(k % 4) + 1]]

Play == ~Asking(ui) /\ ui' \in Played(ui)
Rec  == ~Asking(ui) /\ ui' \in Recorded(ui)
StepKey(k, shift) == ~Asking(ui) /\ ui' \in Keyed(ui, k, shift)

EncoderDown(shift) ==
  /\ ui.encoder = "up"
  /\ LET u == [ui EXCEPT !.encoder = "down"] IN
     ui' \in IF ui.mode = "STEP_PIANO" \/ Asking(ui) THEN {u} ELSE Pressed(u, shift)

EncoderHeld ==
  /\ ui.encoder = "down"
  /\ ui' = LongPress([ui EXCEPT !.encoder = "held"])

EncoderUp ==
  /\ ui.encoder # "up"
  /\ LET u == [ui EXCEPT !.encoder = "up"] IN
     ui' \in IF ui.encoder = "down" THEN ShortPress(u) ELSE {u}

Turn(right) == ui' \in Turned(ui, right)

Next ==
  \/ ShiftTap
  \/ Play
  \/ Rec
  \/ \E k \in Keys, shift \in BOOLEAN : StepKey(k, shift)
  \/ \E shift \in BOOLEAN : EncoderDown(shift)
  \/ EncoderHeld
  \/ EncoderUp
  \/ \E right \in BOOLEAN : Turn(right)

Spec == Init /\ [][Next]_ui

-----------------------------------------------------------------------------
Modes == {"GRID", "STEP_PIANO", "CHORD_MENU", "CHORD_PARAMS", "USER_MENU"}
           \cup UserModes \cup Menus

TypeOK ==
  ui \in [mode : Modes, main : Range(MainModes),
          stack : UNION {[1 .. n -> Modes] : n \in 1 .. 3},
          target : {"GRID", "BAR"},
          shortcut : {"none", "CHORD", "TIMING_MENU", "ARP_MENU"},
          direct : Bars \cup {0},
          dialog : {"none", "replace", "CHORD", "TIMING", "ARP", "clear", "exit"},
          yes : BOOLEAN, quick : BOOLEAN, length : BOOLEAN,
          selected : Bars, menu : Bars,
          draft : [Bars -> Drafts], shown : Drafts, action : Range(FooterKeys),
          encoder : {"up", "down", "held"},
          notes : [Bars -> NoteValues]]

(* The screen on top is the one of the mode that takes the inputs; the chord
   parameters of quick timing are drawn over the grid. *)
ModeHasItsScreen ==
  Active(ui) = IF ui.mode = "CHORD_PARAMS" /\ ui.quick THEN "GRID" ELSE ui.mode

(* While the way back leads to the bar editor, its screen is on the stack to come
   back to, and the mode is one that knows the way. *)
ShortcutHasWayBack ==
  ui.target = "BAR" =>
    /\ \E k \in 1 .. Len(ui.stack) : ui.stack[k] = "STEP_PIANO"
    /\ ui.mode \in {"CHORD_PARAMS", "TIMING_MENU", "ARP_MENU"}

(* What is drawn, what takes the inputs and the way back belong together. *)
ScreensAreConsistent == TypeOK /\ ModeHasItsScreen /\ ShortcutHasWayBack

(* The chord parameters on the screen are those of the bar they will be stored in,
   through every change of the bar: HandleChordParamAction stores the screen's copy
   first. *)
ScreenCopyIsDraft == ui.mode = "CHORD_PARAMS" => ui.shown = ui.draft[ui.menu]

(* One way out of wherever the user is: answer a question with YES, leave the chord
   chooser of the bar editor with a long press, everything else with REC. *)
SomeOf(S) == CHOOSE v \in S : TRUE
BackOut(u) ==
  LET Lifted == [u EXCEPT !.encoder = "up"] Down == [u EXCEPT !.encoder = "down"] IN
  CASE Asking(u) /\ u.encoder = "held" -> Lifted
    [] Asking(u) /\ u.encoder # "held" /\ ~u.yes -> SomeOf(Turned(u, TRUE))
    [] Asking(u) /\ u.encoder = "up" /\ u.yes -> Down
    [] Asking(u) /\ u.encoder = "down" /\ u.yes -> SomeOf(ShortPress(Lifted))
    [] ~Asking(u) /\ DirectActive(u) ->
         CASE u.encoder = "up"   -> SomeOf({[v EXCEPT !.encoder = "down"] : v \in Pressed(u, FALSE)})
           [] u.encoder = "down" -> LongPress([u EXCEPT !.encoder = "held"])
           [] OTHER -> Lifted
    [] OTHER -> SomeOf(Recorded(u))

(* Nobody is stuck: from everywhere this way leads to the grid, within nine inputs
   (the checklist's "no stuck mode", "no missing back path"). *)
EscapesToGrid ==
  LET after[k \in 0 .. 9] == IF k = 0 THEN ui ELSE BackOut(after[k - 1]) IN
  \E k \in 0 .. 9 : after[k].mode = "GRID"

(* While a question is on the screen no input changes a bar but YES, which has to
   be turned to. *)
QuestionsProtectNotes ==
  [][ui.dialog # "none" /\ ui.mode # "STEP_PIANO" /\ ~ui.yes => ui'.notes = ui.notes]_ui

(* The chord chooser of the bar editor changes no bar but the one it was opened
   from. *)
ChooserKeepsOtherBars ==
  [][DirectActive(ui) => \A b \in Bars \ {ui.direct} : ui'.notes[b] = ui.notes[b]]_ui

(* Notes change where the user asked for it, and once it was confirmed. *)
MenusProtectNotes == QuestionsProtectNotes /\ ChooserKeepsOtherBars
=============================================================================
