----------------------------- MODULE PianoEditor -----------------------------
(***************************************************************************)
(* The bar editor (step piano roll) over the step ledger: a session that   *)
(* edits the bars of the pattern through the bridge, remembers what a bar  *)
(* held before its first edit, and writes that back when the user leaves   *)
(* with REC.                                                               *)
(*                                                                         *)
(* Clearing a bar, restoring the bars and storing the chord drafts are     *)
(* loops over bridge calls; each call is a step of its own here, because   *)
(* the player resolves notes between them.  The modal dialogs and the way  *)
(* into and out of the editor and of the chord chooser over it are part of *)
(* Ui; here they are reduced to the calls they make.                       *)
(***************************************************************************)
EXTENDS Ledger, Sequences

CONSTANTS
  Pitches,      (* notes under the cursor                                  *)
  Transpositions, (* of the song: -24 .. 24                                *)
  MaxEdits      (* bound: edits in a behaviour                             *)

ASSUME EditorAssumption ==
  /\ Bars \subseteq Nat \ {0} /\ IsFiniteSet(Bars)
  /\ LedgerMax <= 32     (* the widest grid the editor shows *)
  /\ Pitches \subseteq 0 .. 127 /\ MaxEdits \in Nat
  /\ Transpositions \subseteq -24 .. 24

Packed == INSTANCE PackedLengths WITH Fields <- LedgerMax
Image == INSTANCE SongImage WITH Places <- LedgerMax, Count <- Cardinality(Bars)

VARIABLES
  editing,    (* the bar that is open, s_selected_step, or 0: editor closed *)
  cursor,     (* s_step_piano_slot                                         *)
  pending,    (* s_step_piano_length_pending in length mode, otherwise 0   *)
  touched,    (* the bars edited in the session, with what they held       *)
  calls,      (* bridge calls of a loop of the editor that is under way    *)
  stores,     (* bars and drafts that CommitChordDraft has still to store  *)
  packed,     (* event_length_packed of each bar                           *)
  opened,     (* history: the pattern when the session began, and the bars *)
              (* that were given a chord since while they were not marked  *)
  edits       (* edits so far, bounded by MaxEdits                         *)

editorVars == <<editing, cursor, pending, touched, calls, stores, opened, edits>>
vars == <<ledgerVars, editorVars, packed>>

(* UI_Sequencer_NormalizeStepPianoSlots: the cursor moves over 4, 8, 16 or 32
   columns, which may be more than the bar has. *)
Columns == MinOf({k \in {4, 8, 16, 32} : Steps(bar, division) <= k})

(* GetStepLedgerSlot: nothing outside the bar. *)
Column(b, i) ==
  IF i < Steps(bar, division) THEN slot[b].ledger[i * Stride(division)] ELSE {}

Idle == calls = <<>> /\ stores = <<>>      (* no loop is under way *)
Editing == editing # 0 /\ Idle
Edit == edits < MaxEdits /\ edits' = edits + 1

(* UI_Sequencer_MarkStepPianoTouched keeps the columns.  The grid they were read from
   is recorded for the properties. *)
Untouched == [b \in Bars |-> [held |-> FALSE]]
Held(b) == [held |-> TRUE, column |-> [i \in Positions |-> Column(b, i)],
            division |-> division, bar |-> bar]
NotOpened == [division |-> 0]
Opened == [division |-> division, bar |-> bar, given |-> {},
           ledger |-> [b \in Bars |-> slot[b].ledger]]
Given(bars) == [opened EXCEPT !.given = @ \cup {b \in bars : ~touched[b].held}]

TouchedLast(b) == [touched EXCEPT ![b] = Held(b)]   \* mutant
Touch(b) == IF touched[b].held THEN touched ELSE [touched EXCEPT ![b] = Held(b)]

(* Each call stores at most one length of a bar. *)
StoresLength ==
  packed' = [b \in Bars |->
    LET changed == {p \in Positions : slot'[b].length[p] # slot[b].length[p]} IN
    IF changed = {} THEN packed[b]
    ELSE LET p == MinOf(changed) IN Packed!RawSet(packed[b], p, slot'[b].length[p] - 1)]

PackedFrom(s) ==
  LET upTo[p \in 0 .. LedgerMax] ==
        IF p = 0 THEN Packed!Zero
        ELSE Packed!RawSet(upTo[p - 1], p - 1, s.length[p - 1] - 1)
  IN upTo[LedgerMax]

Init ==
  /\ LedgerInit
  /\ editing = 0 /\ cursor = 0 /\ pending = 0
  /\ touched = Untouched /\ calls = <<>> /\ stores = <<>> /\ opened = NotOpened /\ edits = 0
  /\ packed = [b \in Bars |-> PackedFrom(slot[b])]

(* What EncodeSongCore is given: the bars of the pattern, first to last, and a chain. *)
Song ==
  [division |-> division, chain |-> [length |-> 2, position |-> 1],
   bars |-> [k \in 1 .. Cardinality(Bars) |->
               LET b == NthLeast(Bars, k - 1) IN
               [type |-> slot[b].type, skip |-> slot[b].skip, ledger |-> slot[b].ledger,
                packed |-> packed[b], explicit |-> slot[b].explicit, lane |-> slot[b].lane]]]

-----------------------------------------------------------------------------
(* Moving about *)

(* UI_Sequencer_EnterStepPianoView begins a session. *)
Enter(b) ==
  /\ editing = 0 /\ Idle
  /\ editing' = b /\ cursor' = 0 /\ pending' = 0 /\ touched' = Untouched
  /\ opened' = Opened
  /\ UNCHANGED <<ledgerVars, packed, calls, edits, stores>>

(* UI_StepPiano_ActionNextPosition *)
NextPosition ==
  /\ Editing /\ pending = 0
  /\ cursor' = (cursor + 1) % Columns
  /\ UNCHANGED <<ledgerVars, packed, editing, pending, touched, calls, opened, edits, stores>>

(* PLAY, or YES to leaving the bar: UI_Sequencer_ExitStepPiano(1).  The cursor stays
   where it is; the next session sets it, so it is set here. *)
LeaveAndKeep ==
  /\ Editing
  /\ editing' = 0 /\ cursor' = 0 /\ pending' = 0
  /\ touched' = Untouched /\ opened' = NotOpened
  /\ UNCHANGED <<ledgerVars, packed, calls, edits, stores>>

-----------------------------------------------------------------------------
(* Edits of the open bar *)

(* A bridge call with a column outside the bar returns without an effect. *)
Write(b, i, notes) ==
  /\ IF i < Steps(bar, division) THEN SetStepLedgerSlot(b, i, notes)
                                 ELSE UNCHANGED ledgerVars
  /\ StoresLength

(* UI_StepPiano_ActionToggleNote: a fifth note finds no empty place. *)
Toggled(notes, x) ==
  IF x \in notes THEN notes \ {x}
  ELSE IF Cardinality(notes) < MaxVoices THEN notes \cup {x} ELSE notes

ToggleNote(x) ==
  /\ Editing /\ pending = 0 /\ Edit
  /\ touched' = Touch(editing)
  /\ Write(editing, cursor, Toggled(Column(editing, cursor), x))
  /\ UNCHANGED <<editing, cursor, pending, calls, opened, stores>>

(* UI_Sequencer_CommitDirectChordToSlot, and back to the editor: the column is
   written without marking the bar. *)
PlaceChord(notes) ==
  /\ Editing /\ pending = 0 /\ Edit
  /\ Write(editing, cursor, notes)
  /\ opened' = Given({editing})
  /\ UNCHANGED <<editing, cursor, pending, touched, calls, stores>>

(* UI_StepPiano_ActionToggleLengthMode: in with the length of the event under the
   cursor, if one starts there, and out with the pending one. *)
BeginLength ==
  /\ Editing /\ pending = 0
  /\ pending' = GridLength(slot[editing], cursor)
  /\ UNCHANGED <<ledgerVars, packed, editing, cursor, touched, calls, opened, edits, stores>>

ChangeLength(turn) ==
  /\ Editing /\ pending # 0
  /\ pending' = Clamp(pending + turn, 1, GridMaxLength(slot[editing], cursor))
  /\ UNCHANGED <<ledgerVars, packed, editing, cursor, touched, calls, opened, edits, stores>>

EndLength ==
  /\ Editing /\ pending # 0 /\ Edit
  /\ SetStepEventLength(editing, cursor, pending)
  /\ StoresLength
  /\ pending' = 0
  /\ UNCHANGED <<editing, cursor, touched, calls, opened, stores>>

(* UI_StepPiano_ActionToggleBarSkip *)
ToggleBarSkip ==
  /\ Editing /\ pending = 0 /\ Edit
  /\ SetStepBarState(editing, ~slot[editing].skip)
  /\ StoresLength
  /\ UNCHANGED <<editing, cursor, pending, touched, calls, opened, stores>>

(* The timing menu opened from the editor; the editor then draws itself anew,
   which brings the cursor back into its columns. *)
ChangeTiming(d, n) ==
  /\ Editing /\ pending = 0 /\ Edit
  /\ SetPatternTiming(d, n)
  /\ StoresLength
  /\ cursor' = Clamp(cursor, 0, Columns' - 1)
  /\ UNCHANGED <<editing, pending, touched, calls, opened, stores>>

(* SetStepChordParams; chord type 0 clears the bar. *)
StoreChord(b, chord) ==
  /\ IF chord = {} THEN SetStepNoChord(b) ELSE SetStepChord(b, chord)
  /\ StoresLength

(* CLEAR or a chord of the user in the chord menus, which are left for the grid. *)
ReplaceBar(b, chord) ==
  /\ editing = 0 /\ Idle /\ Edit
  /\ StoreChord(b, chord)
  /\ touched' = Untouched /\ opened' = NotOpened
  /\ UNCHANGED <<editing, cursor, pending, calls, stores>>

-----------------------------------------------------------------------------
(* Loops over bridge calls *)

Call(b, i, notes) == [bar |-> b, column |-> i, notes |-> notes]

(* YES to clearing the bar, UI_StepPiano_ActionConfirmModal. *)
ClearBar ==
  /\ Editing /\ pending = 0 /\ Edit
  /\ touched' = Touch(editing)
  /\ calls' = [k \in 1 .. Columns |-> Call(editing, k - 1, {})]
  /\ cursor' = 0
  /\ UNCHANGED <<ledgerVars, packed, editing, pending, opened, stores>>

(* UI_Sequencer_EndStepPianoSession(0): the columns of every touched bar.  Those
   outside the bar, for which the call returns at once, are left out. *)
RestoreCalls ==
  LET held == {b \in Bars : touched[b].held}
      n == Steps(bar, division)
  IN [k \in 1 .. Cardinality(held) * n |->
        LET b == NthLeast(held, (k - 1) \div n) IN
        Call(b, (k - 1) % n, touched[b].column[(k - 1) % n])]

(* REC: UI_Sequencer_ExitStepPiano(0).  The marks are cleared when the loop ends;
   they stay until the next session here, so that properties can name them. *)
LeaveAndRestore ==
  /\ Editing
  /\ calls' = RestoreCalls
  /\ editing' = 0 /\ cursor' = 0 /\ pending' = 0
  /\ UNCHANGED <<ledgerVars, packed, touched, opened, edits, stores>>

BridgeCall ==
  /\ calls # <<>>
  /\ Write(Head(calls).bar, Head(calls).column, Head(calls).notes)
  /\ calls' = Tail(calls)
  /\ UNCHANGED <<editing, cursor, pending, touched, stores, opened, edits>>

(* UI_Sequencer_CommitChordDraft: the drafts of all bars, not only of the one in hand. *)
CommitChordDraft(draft) ==
  /\ Idle /\ Edit
  /\ stores' = [k \in 1 .. Cardinality(Bars) |->
                  LET b == NthLeast(Bars, k - 1) IN <<b, draft[b]>>]
  /\ UNCHANGED <<ledgerVars, packed, cursor, pending, calls>>

(* From the chord menus over the grid. *)
CommitFromGrid(draft) ==
  /\ editing = 0 /\ CommitChordDraft(draft)
  /\ touched' = Untouched /\ opened' = NotOpened
  /\ UNCHANGED editing

(* From the chord chooser over the editor, once NO to "LEAVE CHORD?" has ended the direct
   context (DismissExitConfirm): PLAY, SAVE, PREV, NEXT and the keys of the steps store
   the drafts, the last three also select another bar, and ReturnToBarEditor goes on
   with the session there.  No bar is marked. *)
CommitInSession(draft, b) ==
  /\ editing # 0 /\ pending = 0 /\ CommitChordDraft(draft)
  /\ editing' = b
  /\ opened' = Given(Bars)
  /\ UNCHANGED touched

DraftCall ==
  /\ stores # <<>>
  /\ StoreChord(Head(stores)[1], Head(stores)[2])
  /\ stores' = Tail(stores)
  /\ UNCHANGED <<editing, cursor, pending, touched, calls, opened, edits>>

Drafts == [Bars -> Chords \cup {{}}]

Next ==
  \/ \E b \in Bars : Enter(b)
  \/ NextPosition
  \/ LeaveAndKeep
  \/ \E x \in Pitches : ToggleNote(x)
  \/ \E notes \in Inputs : PlaceChord(notes)
  \/ BeginLength
  \/ \E turn \in {-1, 1} : ChangeLength(turn)
  \/ EndLength
  \/ ToggleBarSkip
  \/ \E d \in Divisions, n \in BarLengths : ChangeTiming(d, n)
  \/ \E b \in Bars, chord \in Chords \cup {{}} : ReplaceBar(b, chord)
  \/ ClearBar
  \/ LeaveAndRestore
  \/ BridgeCall
  \/ \E draft \in Drafts : CommitFromGrid(draft)
  \/ \E draft \in Drafts, b \in Bars : CommitInSession(draft, b)
  \/ DraftCall

Spec == Init /\ [][Next]_vars

-----------------------------------------------------------------------------
(* What a session does by itself: not the drafts that the chooser over it stores. *)
InEditor == (editing # 0 /\ stores = <<>>) \/ calls # <<>>

(* The packed array gives back every length, next to whatever was stored in the fields
   around it. *)
PackedHoldsLengths ==
  \A b \in Bars, p \in Positions : Packed!RawGet(packed[b], p) + 1 = slot[b].length[p]

(* What is stored of a pattern says one thing: no event off the grid, no summary behind
   the notes, and in the array that packs the lengths those that are heard. *)
LedgerIsStored == LedgerIsConsistent /\ PackedHoldsLengths

SameNotes(back, song) ==
  /\ back.ok /\ back.division = song.division /\ back.chain = song.chain
  /\ \A k \in DOMAIN song.bars :
       /\ back.bars[k].ledger = song.bars[k].ledger
       /\ back.bars[k].type = song.bars[k].type /\ back.bars[k].skip = song.bars[k].skip

SameLengths(back, song) ==
  \A k \in DOMAIN song.bars, p \in Positions :
    Image!Starts(song.bars[k].ledger, p) =>
      Packed!RawGet(back.bars[k].packed, p) = Packed!RawGet(song.bars[k].packed, p)

ImageReadsBack ==
  LET song   == Song
      tested == Image!Decoded(Image!ImageOfHarness(song))
  IN /\ SameNotes(tested, song) /\ SameLengths(tested, song)
     /\ SameNotes(Image!Decoded(Image!ImageV2(song)), song)
     /\ (\A b \in Bars : slot[b].mask = {}) =>
           SameNotes(Image!Decoded(Image!ImageV3(song)), song)

(* The image of the song in FRAM, taken once the editor is closed and read as
   DecodeSongPayload reads it, gives back the notes, types, skips and chain and, in the
   order the host harness writes, the lengths of the events whose start it recognises.
   The V3 image of the firmware is asked for only while the song has no notes: with
   notes it has its sections in an order the reader does not follow. *)
SongReadsBack ==
  editing = 0 /\ calls = <<>> /\ opened = NotOpened => ImageReadsBack

(* An edit in the bar editor is heard from one place on and only up to the next
   event: every other event sounds as before, whatever lengths are left in store.  (A
   draft that the chord chooser stores replaces its bar.) *)
EditIsLocal ==
  [][InEditor /\ bar' = bar =>
       \A b \in Bars : \E p \in Positions : \A i \in 0 .. Steps(bar, division) - 1 :
         \/ p <= i * Stride(division) /\ i * Stride(division) < NextStart(slot[b], p, bar)
         \/ NotesAt(slot'[b], i, 0) = NotesAt(slot[b], i, 0)]_vars

(* What an edit does to the outputs of the event that begins at the same place before and
   after it, also when transposing drops some of its notes.  With outputs assigned to it, a
   note that goes on sounding stays at its output, and no two notes come to share one.
   Without, as the editor makes events, the outputs are in the order of the notes, so a
   note that goes on stays where it is unless a note below it came or went. *)
Below(played, note) == {x[1] : x \in {y \in played : y[1] < note}}
Apart(played) == \A x, y \in played : x[2] = y[2] => x = y
NotesKeepTheirLane ==
  [][InEditor /\ UNCHANGED <<division, bar>> =>
       \A b \in {c \in Bars : slot'[c] # slot[c]}, t \in Transpositions :
       \A i \in {j \in 0 .. Steps(bar, division) - 1 :
                  EventAt(slot[b], j) # {} /\ EventAt(slot'[b], j) # {}} :
         LET start    == MaxOf(EventAt(slot[b], i))
             assigned == start \in slot[b].explicit
             before   == LanedAt(slot[b], i, t)
             after    == LanedAt(slot'[b], i, t)
         IN MaxOf(EventAt(slot'[b], i)) = start =>
              /\ \A x \in before, y \in after :
                   /\ x[1] = y[1]
                   /\ assigned \/ Below(before, x[1]) = Below(after, x[1])
                   => x = y
              /\ (assigned => Apart(before)) => Apart(after)]_vars

(* An edit is heard where it was made, and changes the outputs there only as far as they
   follow the order of the notes. *)
EditStaysInPlace == EditIsLocal /\ NotesKeepTheirLane

(* Leaving with REC gives every bar the notes back that it had when the editor was
   opened.  Left out are a bar that was given a chord before it was marked, whether
   placed from the chooser or stored with the drafts of all bars, because neither marks
   it; and one marked on another grid than the one it is restored on. *)
RecRestoresNotes ==
  editing = 0 /\ calls = <<>> /\ opened.division = division /\ opened.bar = bar =>
    \A b \in Bars \ opened.given :
      (touched[b].held => touched[b].division = division /\ touched[b].bar = bar) =>
        \A i \in 0 .. Steps(bar, division) - 1 :
          Column(b, i) = opened.ledger[b][i * Stride(division)]
=============================================================================
