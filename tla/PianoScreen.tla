---------------------------- MODULE PianoScreen ----------------------------
(***************************************************************************)
(* The screen of the bar editor, which draws only what it believes to have *)
(* changed: the handlers of the editor hand it a context, it compares that *)
(* with what it drew last, sets dirty flags, and at the end of a pass of   *)
(* UI_Sequencer_Update draws the rows and the header fields they name.     *)
(*                                                                         *)
(* The display is kept here as what was painted on it, row by row, so that *)
(* it can be compared with what a drawing from nothing would show.  One    *)
(* input is one action; the drawing that ends the pass is another, since   *)
(* a matrix key, the encoder key and the encoder can all be seen in one    *)
(* pass, in this order.                                                    *)
(*                                                                         *)
(* Left out: pixels, the footer, which never changes, the keyboard view of *)
(* the chord editor, the session that REC undoes (PianoEditor) and the way *)
(* through the menus (Ui).                                                 *)
(***************************************************************************)
EXTENDS Ledger

CONSTANTS
  PitchMin, PitchMax,  (* kPitchMidiMin and kPitchMidiMax: 12 and 108       *)
  BodyRows,     (* RollRowsThatFitBody: the rows that are drawn, 19        *)
  ViewRows,     (* UI_STEP_PIANO_VISIBLE_ROWS: those the cursor moves over, 12 *)
  Octave,       (* 12                                                      *)
  Lead,         (* rows above the first note when a bar is opened: 9       *)
  CellLimit,    (* ROLL_OCT_DYNAMIC_CELL_THRESHOLD: 24                     *)
  UnderDialog,  (* the rows that the box of the question lies over: 5 .. 12 *)
  InputsPerPass, (* bound: inputs seen in one pass, at most three          *)
  MaxEdits      (* bound: edits in a behaviour                             *)

Rows   == 0 .. BodyRows - 1
Columns(n) == MinOf({k \in {4, 8, 16, 32} : n <= k})
Places == 0 .. Columns(LedgerMax) - 1

ASSUME ScreenAssumption ==
  /\ PitchMin \in Nat /\ PitchMax \in 0 .. 127 /\ PitchMin <= BaseNote /\ BaseNote <= PitchMax
  /\ BodyRows \in Nat \ {0} /\ ViewRows \in 1 .. BodyRows
  /\ PitchMax - PitchMin >= BodyRows
  /\ Octave \in Nat \ {0} /\ Lead \in 0 .. ViewRows - 1 /\ CellLimit \in Nat
  /\ UnderDialog \subseteq Rows /\ LedgerMax <= 32
  /\ InputsPerPass \in 1 .. 3 /\ MaxEdits \in Nat

VARIABLES
  arp,      (* the pattern has an arpeggio                                 *)
  ed,       (* the editor: what ui_sequencer.c keeps in s_step_piano_*     *)
  scr,      (* its screen: s_piano_roll                                    *)
  disp,     (* what the display shows                                      *)
  pass,     (* how far the pass of UI_Sequencer_Update has come            *)
  edits     (* edits so far, bounded by MaxEdits                           *)

vars == <<ledgerVars, arp, ed, scr, disp, pass, edits>>

-----------------------------------------------------------------------------
(* What the editor hands to its screen *)

LowestTop(rows) == PitchMin + rows - 1
ClampTop(top, rows) == Clamp(top, LowestTop(rows), PitchMax)
InView(x, top, rows) == Clamp(x, MaxOf({PitchMin, top - rows + 1}), top)

Column(b, i) ==
  IF i < Steps(bar, division) THEN slot[b].ledger[i * Stride(division)] ELSE {}

(* The corrections UI_Sequencer_RefreshStepPianoContext makes first. *)
Fitted(e, columns) ==
  LET top == ClampTop(e.top, ViewRows) IN
  [e EXCEPT !.slot = MinOf({@, columns - 1}),
            !.top = top, !.selected = InView(@, top, ViewRows)]

(* The lengths SetContext takes from the bridge: the pending one for the event whose
   length is being set, none beyond the last column. *)
SpanOf(e, i) ==
  LET own == GridLength(slot[e.bar], i) IN
  IF own = 0 THEN 0
  ELSE MinOf({Columns(Steps(bar, division)) - i,
              IF e.length /\ i = e.slot
              THEN Clamp(e.pending, 1, GridMaxLength(slot[e.bar], i)) ELSE own})

(* The context with the notes and lengths of the bar.  The screen draws more rows
   than the cursor moves over, so its top row ends higher above the lowest note. *)
Context ==
  LET columns == Columns(Steps(bar, division))
      top == ClampTop(ed.top, BodyRows)
  IN [step |-> ed.bar, top |-> top, selected |-> InView(ed.selected, top, BodyRows),
      slot |-> ed.slot, count |-> columns, division |-> division,
      cv |-> [arp |-> arp, notes |-> IF arp THEN {} ELSE Column(ed.bar, ed.slot)],
      length |-> ed.length, pending |-> ed.pending,
      question |-> ed.question, yes |-> ed.yes, skip |-> slot[ed.bar].skip,
      slots |-> [p \in Places |-> IF p < columns THEN Column(ed.bar, p) ELSE {}],
      spans |-> [p \in Places |-> IF p < columns THEN SpanOf(ed, p) ELSE 0]]

NoNotes == [p \in Places |-> {}]
NoSpans == [p \in Places |-> 0]
Never ==
  [step |-> 255, top |-> 255, selected |-> 255, slot |-> 255, count |-> 255,
   division |-> 255, cv |-> [arp |-> FALSE, notes |-> {}], length |-> FALSE, pending |-> 255,
   question |-> "none", yes |-> FALSE, skip |-> FALSE,
   slots |-> NoNotes, spans |-> NoSpans]

-----------------------------------------------------------------------------
(* Dirty flags *)

Fields == {"BAR", "SKIP", "POS", "NOTE", "GRID", "RNG", "CV"}
Flags  == Fields \cup {"BODY_FULL", "SLOT_BODY", "SPAN_ROWS", "ROW_OLD", "ROW_NEW"}

If(condition, flags) == IF condition THEN flags ELSE {}

(* The selection and the top row are compared with the last context, everything
   else with what was drawn last. *)
MovedFlags(old, c) ==
  If(old.selected # c.selected, {"NOTE"})
  \cup If(old.top # c.top, {"BODY_FULL", "RNG"})
  \cup If(old.selected # c.selected /\ old.top = c.top, {"ROW_OLD", "ROW_NEW"})

ColumnFlags(last, c) ==
  If(last.slot # c.slot, {"SLOT_BODY", "POS", "CV"})
  \cup If(last.count # c.count, {"BODY_FULL", "POS", "CV"})

(* A change of the notes at the cursor alone is taken to be in the selected row. *)
NoteFlags(last, c) ==
  LET changed == {p \in Places : c.slots[p] # last.slots[p]} IN
  If(changed # {}, {"CV", IF changed = {c.slot} THEN "ROW_NEW" ELSE "SLOT_BODY"})

LengthFlags(last, c) ==
  If(c.spans # last.spans \/ c.length # last.length \/ c.pending # last.pending,
     {"SPAN_ROWS"})

FieldFlagsWithoutSkip(last, c) ==   \* mutant
  If(last.division # c.division, {"GRID"}) \cup If(last.cv # c.cv, {"CV"})
FieldFlags(last, c) ==
  If(last.skip # c.skip, {"SKIP"}) \cup If(last.division # c.division, {"GRID"})
  \cup If(last.cv # c.cv, {"CV"})

(* SetContext: a drawing of the whole body makes every other flag for the rows
   superfluous. *)
FlagsFor(s, c) ==
  IF s.now.step # c.step THEN Fields \cup {"BODY_FULL"}
  ELSE LET all == MovedFlags(s.now, c) \cup ColumnFlags(s.last, c) \cup NoteFlags(s.last, c)
                  \cup LengthFlags(s.last, c) \cup FieldFlags(s.last, c)
       IN IF "BODY_FULL" \in all
          THEN all \ {"SLOT_BODY", "SPAN_ROWS", "ROW_OLD", "ROW_NEW"} ELSE all

SetContext(s, c) ==
  [s EXCEPT !.now = c, !.redraw = TRUE,
            !.dirty = @ \cup FlagsFor(s, c),
            !.before = IF s.now.step = c.step /\ s.now.selected # c.selected
                       THEN s.now.selected ELSE @]

(* UI_PianoRollScreen_ResetCache also forgets the notes it was given. *)
ResetCache(s) ==
  [s EXCEPT !.now.slots = NoNotes, !.now.spans = NoSpans, !.last = Never, !.layout = FALSE, !.redraw = TRUE,
            !.dirty = Flags, !.before = 255]

-----------------------------------------------------------------------------
(* A row as RollComposeRow makes it *)

(* RollCellHasSpanNote: the events that reach column i with note x.  The first one
   decides whether the block has the colour of a pending length. *)
Under(c, i, x) ==
  {p \in 0 .. c.count - 1 : p <= i /\ i < p + c.spans[p] /\ x \in c.slots[p]}

Cell(c, i, x) ==
  IF Under(c, i, x) = {} THEN "empty"
  ELSE IF c.length /\ MinOf(Under(c, i, x)) = c.slot THEN "pending" ELSE "note"

Row(c, r) ==
  LET x == c.top - r IN
  [label |-> x, lane |-> x % Octave, cursor |-> c.slot, lit |-> x = c.selected,
   cells |-> [i \in 0 .. c.count - 1 |-> Cell(c, i, x)]]

Header(c) ==
  [f \in Fields |->
     CASE f = "BAR"  -> c.step
       [] f = "SKIP" -> c.skip
       [] f = "POS"  -> <<c.slot, c.count>>
       [] f = "NOTE" -> c.selected
       [] f = "GRID" -> c.division
       [] f = "RNG"  -> c.top
       [] f = "CV"   -> c.cv]

(* The screen of another part of the program, or the screensaver. *)
Painted == [rows |-> [r \in Rows |-> "other"], header |-> [f \in Fields |-> "other"],
            covered |-> {}, box |-> <<>>]

-----------------------------------------------------------------------------
(* DrawStepPianoRollScreen *)

RowOf(c, x) == If(x <= c.top /\ c.top - x < BodyRows, {c.top - x})

DrawRows(d, c, rows) ==
  [d EXCEPT !.rows = [r \in Rows |-> IF r \in rows THEN Row(c, r) ELSE @[r]],
            !.covered = @ \ rows]

(* RollBuildSpanDirtyRows: the rows in which some block comes, goes or changes its
   colour.  The old colour is worked out from the cursor and the length there. *)
CellDrawnPlain(last, i, x) ==   \* mutant
  IF Under(last, i, x) = {} THEN "empty" ELSE "note"
CellDrawn(last, i, x) ==
  IF Under(last, i, x) = {} THEN "empty"
  ELSE IF /\ last.length /\ last.slot < last.count
          /\ i \in last.slot .. last.slot + last.spans[last.slot] - 1
       THEN "pending" ELSE "note"

SpanDirtyRows(last, c) ==
  {r \in Rows : \E i \in 0 .. c.count - 1 :
     Cell(c, i, c.top - r) # CellDrawn(last, i, c.top - r)}

(* RollBuildOctDirtyCells *)
OctDirtyCells(last, c) ==
  {cell \in Rows \X (0 .. c.count - 1) :
     (Under(last, cell[2], last.top - cell[1]) = {})
       # (Under(c, cell[2], c.top - cell[1]) = {})}

(* RollDrawLabelBandForTop with RollDrawGridCellDynamic: the labels, and the cells
   that change in the colour of a note that stays; then the two selected rows. *)
ShiftedRow(row, r, cells, c) ==
  [row EXCEPT !.label = c.top - r, !.cells = [i \in DOMAIN @ |->
     IF <<r, i>> \notin cells THEN @[i]
     ELSE IF Under(c, i, c.top - r) # {} THEN "note" ELSE "empty"]]

DrawShifted(d, last, c) ==
  LET cells == OctDirtyCells(last, c)
      moved == [d EXCEPT !.rows = [r \in Rows |-> ShiftedRow(@[r], r, cells, c)]]
  IN DrawRows(moved, c, RowOf(last, last.selected) \cup RowOf(c, c.selected))

(* RollCanUseDynamicOctPath and the threshold of RollDrawOctHybridDynamic. *)
Shifts(s) ==
  /\ s.layout /\ "BODY_FULL" \in s.dirty
  /\ s.last.step = s.now.step /\ s.last.count = s.now.count
  /\ s.last.top # s.now.top /\ s.now.top - s.last.top \in -Octave .. Octave
  /\ s.now.top - s.last.top \in {-Octave, Octave} =>
       Cardinality(OctDirtyCells(s.last, s.now)) <= CellLimit

(* What is left of the flags decides once more; a shift has only done its part. *)
DrawBody(d, s) ==
  LET c == s.now
      shifted == IF ~Shifts(s) THEN d
                 ELSE IF c.top - s.last.top \in {-Octave, Octave}
                 THEN DrawShifted(d, s.last, c) ELSE DrawRows(d, c, Rows)
      rows == IF "BODY_FULL" \in s.dirty /\ ~Shifts(s) THEN Rows
              ELSE IF "SLOT_BODY" \in s.dirty THEN Rows
              ELSE IF "SPAN_ROWS" \in s.dirty THEN SpanDirtyRows(s.last, c)
              ELSE If("ROW_OLD" \in s.dirty, RowOf(c, s.before))
                   \cup If("ROW_NEW" \in s.dirty, RowOf(c, c.selected))
  IN DrawRows(shifted, c, rows)

DrawHeader(d, s) ==
  LET dirty == s.dirty \cup If(~s.layout, Fields) \cup If(Shifts(s), {"NOTE", "RNG"}) IN
  [d EXCEPT !.header = [f \in Fields |-> IF f \in dirty THEN Header(s.now)[f] ELSE @[f]]]

(* RollDrawClearConfirmOverlay *)
DrawQuestion(d, c) ==
  IF c.question = "none" THEN d
  ELSE [d EXCEPT !.covered = UnderDialog, !.box = <<c.question, c.yes>>]

(* OnDraw *)
WithLayout(s) == IF s.layout THEN s ELSE [s EXCEPT !.dirty = @ \cup {"BODY_FULL"}]
Drawn(d, s) ==
  IF s.redraw
  THEN DrawQuestion(DrawHeader(DrawBody(d, WithLayout(s)), s), s.now) ELSE d
AfterDraw(s) ==
  IF s.redraw THEN [s EXCEPT !.layout = TRUE, !.last = s.now, !.dirty = {}, !.redraw = FALSE]
  ELSE s

-----------------------------------------------------------------------------
(* The handlers of the editor.  Each of them ends in RefreshStepPianoContext. *)

Closed == [mode |-> "closed", bar |-> 0, slot |-> 0, top |-> PitchMax, selected |-> BaseNote,
           length |-> FALSE, pending |-> 1, question |-> "none", yes |-> FALSE]

Init ==
  /\ LedgerInit
  /\ arp = FALSE
  /\ ed = Closed
  /\ scr = [now |-> Never, last |-> Never, dirty |-> Flags, before |-> 255,
            layout |-> FALSE, redraw |-> TRUE]
  /\ disp = Painted
  /\ pass = [stage |-> 0, inputs |-> 0]
  /\ edits = 0

InEditor == ed.mode = "editor"
Edit == edits < MaxEdits /\ edits' = edits + 1

(* A pass sees the keys of the matrix, then the key of the encoder, then a turn. *)
Input(stage) ==
  /\ pass.stage < stage /\ pass.inputs < InputsPerPass
  /\ pass' = [stage |-> stage, inputs |-> pass.inputs + 1]

Set(e) ==
  /\ ed' = Fitted(e, Columns(Steps(bar', division')))
  /\ \E c \in {Context'} : scr' = SetContext(scr, c)
  /\ UNCHANGED disp

(* ResetCache, a new context and a drawing at once. *)
DrawAnew(e) ==
  /\ ed' = Fitted(e, Columns(Steps(bar', division')))
  /\ \E c \in {Context'} : \E s \in {SetContext(ResetCache(scr), c)} :
       scr' = AfterDraw(s) /\ disp' = Drawn(disp, s)

(* Another screen is drawn.  Both ways back begin with ResetCache, which is brought
   forward to here. *)
Show(e) == ed' = e /\ disp' = Painted /\ scr' = ResetCache(scr)

(* An input that changes what is seen, and one that edits the bar. *)
See(stage)    == Input(stage) /\ UNCHANGED <<ledgerVars, arp, edits>>
Change(stage) == Input(stage) /\ Edit /\ UNCHANGED arp

Editing == InEditor /\ ed.question = "none" /\ ~ed.length

(* UI_Sequencer_EnterStepPianoView, with the drawing of UI_ScreenRouter_Push. *)
Enter(b) ==
  /\ ed.mode = "closed" /\ See(1)
  /\ LET first == IF Column(b, 0) # {} THEN MinOf(Column(b, 0)) ELSE BaseNote IN
     DrawAnew([Closed EXCEPT !.mode = "editor", !.bar = b, !.selected = first,
                             !.top = ClampTop(first + Lead, ViewRows)])

(* PLAY, REC or YES to leaving: another screen is drawn.  What REC undoes is in
   PianoEditor. *)
Leave ==
  /\ InEditor /\ pass.stage = 0
  /\ Show(Closed)
  /\ UNCHANGED <<ledgerVars, arp, pass, edits>>

(* UI_EncoderDelta_StepPiano and UI_StepPiano_ActionMovePitch *)
MovePitch(turn) ==
  /\ Editing /\ See(3)
  /\ Set([ed EXCEPT !.selected = InView(@ + turn, ed.top, ViewRows)])

ChooseAnswer ==
  /\ InEditor /\ ed.question # "none" /\ See(3)
  /\ Set([ed EXCEPT !.yes = ~@])

ChangeLength(turn) ==
  /\ InEditor /\ ed.question = "none" /\ ed.length /\ See(3)
  /\ LET next == Clamp(ed.pending + turn, 1, GridMaxLength(slot[ed.bar], ed.slot)) IN
     /\ next # ed.pending
     /\ Set([ed EXCEPT !.pending = next])

(* UI_StepPiano_ActionNextPosition *)
NextPosition ==
  /\ Editing /\ See(2)
  /\ Set([ed EXCEPT !.slot = (@ + 1) % Columns(Steps(bar, division))])

(* UI_StepPiano_ActionOctaveUp and UI_StepPiano_ActionOctaveDown: at the last octave
   nothing happens. *)
ShiftOctave(way) ==
  /\ Editing /\ See(1)
  /\ LET top == ClampTop(ed.top + way * Octave, ViewRows) IN
     /\ top # ed.top
     /\ Set([ed EXCEPT !.top = top, !.selected = InView(@ + way * Octave, top, ViewRows)])

(* UI_StepPiano_ActionToggleBarSkip *)
ToggleBarSkip ==
  /\ Editing /\ Change(1)
  /\ SetStepBarState(ed.bar, ~slot[ed.bar].skip)
  /\ Set(ed)

(* UI_StepPiano_ActionToggleNote; a column outside the bar stays as it is. *)
Toggled(notes, x) ==
  IF x \in notes THEN notes \ {x}
  ELSE IF Cardinality(notes) < MaxVoices THEN notes \cup {x} ELSE notes

ToggleNoteUnseen ==   \* mutant
  /\ Editing /\ Change(1) /\ ed.slot < Steps(bar, division)
  /\ SetStepLedgerSlot(ed.bar, ed.slot, Toggled(Column(ed.bar, ed.slot), ed.selected))
  /\ UNCHANGED <<ed, scr, disp>>
ToggleNote ==
  /\ Editing /\ Change(1)
  /\ IF ed.slot < Steps(bar, division)
     THEN SetStepLedgerSlot(ed.bar, ed.slot, Toggled(Column(ed.bar, ed.slot), ed.selected))
     ELSE UNCHANGED ledgerVars
  /\ Set(ed)

(* UI_StepPiano_ActionToggleLengthMode *)
BeginLength ==
  /\ Editing /\ See(1)
  /\ GridLength(slot[ed.bar], ed.slot) # 0
  /\ Set([ed EXCEPT !.length = TRUE, !.pending = GridLength(slot[ed.bar], ed.slot)])

EndLength ==
  /\ InEditor /\ ed.length /\ ed.question = "none" /\ Change(1)
  /\ SetStepEventLength(ed.bar, ed.slot, ed.pending)
  /\ Set([ed EXCEPT !.length = FALSE])

(* UI_StepPiano_ActionClearBarRequest and UI_StepPiano_ActionExitBarRequest: M10, or
   the key of the encoder, which asks anew while a question is asked already. *)
Ask(question, stage) ==
  /\ InEditor /\ ~ed.length /\ See(stage)
  /\ stage = 1 => ed.question = "none" /\ question = "CLEAR"
  /\ Set([ed EXCEPT !.question = question, !.yes = FALSE])

(* UI_StepPiano_ActionConfirmModal *)
AnswerNo ==
  /\ InEditor /\ ed.question # "none" /\ ~ed.yes /\ See(2)
  /\ Set([ed EXCEPT !.question = "none"])

Emptied(s) ==
  Summarized([s EXCEPT !.ledger = [p \in Positions |->
    IF \E i \in 0 .. Steps(bar, division) - 1 : p = i * Stride(division) THEN {} ELSE @[p]],
                       !.lane = [p \in Positions |->
    IF \E i \in 0 .. Steps(bar, division) - 1 : p = i * Stride(division)
    THEN [k \in Lanes |-> 0] ELSE @[p]]])

ClearBar ==
  /\ InEditor /\ ed.question = "CLEAR" /\ ed.yes /\ Change(2)
  /\ slot' = [slot EXCEPT ![ed.bar] = Emptied(@)]
  /\ UNCHANGED <<division, bar>>
  /\ Set([ed EXCEPT !.question = "none", !.yes = FALSE, !.slot = 0])

LeaveOnYes ==
  /\ InEditor /\ ed.question = "LEAVE" /\ ed.yes /\ See(2)
  /\ Show(Closed)

-----------------------------------------------------------------------------
(* Other screens *)

(* M1, M2 and M3 open the chord, timing and arpeggio menus over the editor. *)
OpenMenu ==
  /\ Editing /\ See(1)
  /\ Show([ed EXCEPT !.mode = "menu"])

(* What the menu commits, and UI_Sequencer_ReturnToBarEditor. *)
Return ==
  /\ ed.mode = "menu" /\ pass.stage = 0
  /\ \/ UNCHANGED <<ledgerVars, arp, edits>>
     \/ /\ Edit /\ UNCHANGED arp
        /\ \/ \E notes \in Inputs : SetStepLedgerSlot(ed.bar, ed.slot, notes)
           \/ \E d \in Divisions, n \in BarLengths : SetPatternTiming(d, n)
     \/ /\ Edit /\ arp' = ~arp /\ UNCHANGED ledgerVars
  /\ DrawAnew([ed EXCEPT !.mode = "editor"])
  /\ UNCHANGED pass

(* UI_Screensaver_Tick paints over everything.  While it does, the passes end early. *)
Sleep ==
  /\ InEditor /\ pass.stage = 0
  /\ ed' = [ed EXCEPT !.mode = "asleep"] /\ disp' = Painted
  /\ UNCHANGED <<ledgerVars, arp, scr, pass, edits>>

(* UI_SCREENSAVER_JUST_WOKE *)
Wake ==
  /\ ed.mode = "asleep"
  /\ ed' = [ed EXCEPT !.mode = "editor"]
  /\ scr' = AfterDraw(ResetCache(scr)) /\ disp' = Drawn(disp, ResetCache(scr))
  /\ UNCHANGED <<ledgerVars, arp, pass, edits>>

(* The end of UI_Sequencer_Update *)
EndOfPass ==
  /\ pass.stage # 0
  /\ pass' = [stage |-> 0, inputs |-> 0]
  /\ IF InEditor THEN scr' = AfterDraw(scr) /\ disp' = Drawn(disp, scr)
                 ELSE UNCHANGED <<scr, disp>>
  /\ UNCHANGED <<ledgerVars, arp, ed, edits>>

Next ==
  \/ \E b \in Bars : Enter(b)
  \/ Leave
  \/ \E turn \in {-1, 1} : MovePitch(turn) \/ ChangeLength(turn) \/ ShiftOctave(turn)
  \/ ChooseAnswer
  \/ NextPosition
  \/ ToggleBarSkip
  \/ ToggleNote
  \/ BeginLength
  \/ EndLength
  \/ \E question \in {"CLEAR", "LEAVE"}, stage \in {1, 2} : Ask(question, stage)
  \/ AnswerNo
  \/ ClearBar
  \/ LeaveOnYes
  \/ OpenMenu
  \/ Return
  \/ Sleep
  \/ Wake
  \/ EndOfPass

Spec == Init /\ [][Next]_vars

-----------------------------------------------------------------------------
AtRest == InEditor /\ pass.stage = 0

(* After a drawing every row that no box lies over has the label, the lane, the notes
   in their colours and the cursor that a drawing of everything would give it: the
   partial drawings of DrawStepPianoRollScreen leave nothing behind, however many
   inputs were seen in one pass and whatever was drawn before. *)
RowsShowNotes ==
  AtRest => \A r \in Rows \ disp.covered :
    [disp.rows[r] EXCEPT !.lit = FALSE] = [Row(scr.now, r) EXCEPT !.lit = FALSE]

(* After a drawing every field of the header shows what the editor is at, a question
   that is asked is on the display with its answer, and the note M9 would set is in
   one of the rows, although the editor and its screen clamp the view differently. *)
HeaderShowsEditor ==
  AtRest =>
    /\ disp.header = Header(scr.now)
    /\ ed.question # "none" => /\ disp.covered = UnderDialog
                               /\ disp.box = <<ed.question, ed.yes>>
    /\ scr.now.selected = ed.selected /\ RowOf(scr.now, ed.selected) # {}

(* The partial drawings of the bar editor show what a drawing from nothing would. *)
EditorScreenIsTrue == RowsShowNotes /\ HeaderShowsEditor

(* A change of the ledger reaches the copies of the notes and lengths that the screen
   draws from in the same handler, and the pass that draws them is still to come or
   has drawn them: no edit waits for the next one to be seen. *)
EditReachesScreen ==
  [][slot' # slot => /\ scr'.now.slots = Context'.slots /\ scr'.now.spans = Context'.spans
                     /\ scr'.redraw \/ scr'.last = scr'.now]_vars

(* The code does not keep the three that follow. *)

(* The row of the selected note is lit, and no other (ui_screen_piano_roll.h:14, the
   context is what the piano roll should display).  A pass that sees M9 and then a
   turn of the encoder sets SPAN_ROWS, which DrawStepPianoRollScreen prefers to the
   two rows between which the selection moved. *)
SelectionIsLit ==
  AtRest => \A r \in Rows \ disp.covered : disp.rows[r].lit = Row(scr.now, r).lit

(* The box of a question is on the display only while the question is asked
   (clear_confirm_active, ui_screen_piano_roll.h:32).  The answer NO sets no flag for
   a row, so the box stays. *)
BoxOnlyWhenAsked == AtRest /\ disp.covered # {} => ed.question # "none"

(* What the screen draws from is the bar (UI_Sequencer_Update: waking is one full
   repaint of what was active).  ResetCache empties the copy of the notes, and
   waking gives it no new one. *)
ScreenShowsBar == AtRest => scr.now.slots = Context.slots
=============================================================================
