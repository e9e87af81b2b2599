-------------------------------- MODULE Ledger --------------------------------
(***************************************************************************)
(* The step ledger of a pattern: for every bar the notes that start at     *)
(* each position of a canonical grid of 1/32 notes, the stored length of   *)
(* each event and the output lane of each note; the device calls that edit *)
(* it, and the resolution of a grid position to the notes it sounds.       *)
(*                                                                         *)
(* One action is one call of SequencerDevice.  All of them run in the main *)
(* context.  The pattern edited is the pattern that plays; what a call     *)
(* does to the gate and the arpeggio (ApplyCurrentStepBehavior) belongs to *)
(* GateEngine and ArpEngine.                                               *)
(***************************************************************************)
EXTENDS Integers, FiniteSets

CONSTANTS
  LedgerMax,    (* kStepLedgerMax: canonical positions of a bar, 32        *)
  Bars,         (* the bars of the pattern: 12                             *)
  BarLengths,   (* canonical lengths a time signature can give a bar       *)
  Inputs,       (* what SetStepLedgerSlot can be given: sets of notes *)
  Chords,       (* pitch classes of a chord, what ChordLibrary can return  *)
  BarsAtStart   (* what a bar can hold after a song was imported           *)

Positions == 0 .. LedgerMax - 1
Lanes     == 0 .. 3                  (* the outputs A, B, C and D          *)
Divisions == {1, 2, 4, 8}            (* IsSupportedGridDivision            *)
BaseNote  == 60                      (* kLegacyPitchClassFallbackMidiBase  *)
MaxVoices == 4

Stride(division) == 8 \div division  (* CanonicalStrideForDivision         *)

(* StepsPerBar of a time signature whose bar is n canonical positions long: 0
   when the grid does not divide the bar. *)
Steps(n, division) ==
  IF (n * division) % 8 = 0 THEN (n * division) \div 8 ELSE 0

MinOf(S) == CHOOSE x \in S : \A y \in S : x <= y
MaxOf(S) == CHOOSE x \in S : \A y \in S : y <= x
NthLeast(S, k) == CHOOSE x \in S : Cardinality({y \in S : y < x}) = k
Rank(S, x) == Cardinality({y \in S : y < x})
Least(S, k) == {x \in S : Rank(S, x) < k}

PitchClasses(notes) == {x % 12 : x \in notes}

(* A bar.  A LedgerSlot is a sorted array of four, without gaps or repetitions, so
   a set of at most four notes; the lane byte of a position is indexed by the rank
   of the note in that array. *)
LedgerSlot == {notes \in SUBSET (0 .. 127) : Cardinality(notes) <= MaxVoices}
Slot == [ledger: [Positions -> LedgerSlot],          (* note_ledger         *)
         length: [Positions -> 1 .. LedgerMax],      (* event_length_packed *)
         lane: [Positions -> [Lanes -> Lanes]],      (* lane_slots          *)
         explicit: SUBSET Positions,                 (* lane_override_mask  *)
         skip: BOOLEAN,                              (* bar_state           *)
         mask: SUBSET (0 .. 11),                     (* note_mask           *)
         type: {"Chord", "Skip", "Empty"}]

IsStart(s, p) == s.ledger[p] # {}

(* The position of the next event after p, or the end of the bar. *)
NextStart(s, p, n) == MinOf({q \in p + 1 .. n - 1 : IsStart(s, q)} \cup {n})
MaxLength(s, p, n) == IF NextStart(s, p, n) > p THEN NextStart(s, p, n) - p ELSE 1

(* EventLengthCanonicalForStart: the stored length, cut at the next event. *)
EventLength(s, p, n) ==
  IF ~IsStart(s, p) THEN 0
  ELSE IF s.length[p] > MaxLength(s, p, n) THEN MaxLength(s, p, n) ELSE s.length[p]

(* ResolveEventStartCanonicalForPosition: the last event that reaches position p. *)
Reaching(s, p, n) == {q \in 0 .. p : IsStart(s, q) /\ p < q + EventLength(s, q, n)}

(* PitchClassMaskFromLedger, RefreshSlotSummary and UpdateLegacyStepTypeProjection. *)
Summarized(s) ==
  LET mask == UNION {PitchClasses(s.ledger[p]) : p \in Positions} IN
  [s EXCEPT !.mask = mask,
            !.type = IF s.skip THEN "Skip" ELSE IF mask # {} THEN "Chord" ELSE "Empty"]

(* StepSlotCompatibleWithCanonicalStride over the whole ledger. *)
Compatible(s, stride) ==
  \A p \in Positions : IsStart(s, p) =>
    p % stride = 0 /\ EventLength(s, p, LedgerMax) % stride = 0

ASSUME LedgerAssumption ==
  /\ LedgerMax \in Nat /\ LedgerMax >= 2
  /\ BarLengths \subseteq 1 .. LedgerMax
  /\ Inputs \subseteq LedgerSlot
  /\ Chords \subseteq SUBSET (0 .. 11)
  /\ BarsAtStart \subseteq Slot
  /\ \A s \in BarsAtStart : s = Summarized(s)

VARIABLES
  slot,       (* the steps of the pattern, one StepSlot for each bar       *)
  division,   (* its step_division                                         *)
  bar         (* canonical length of a bar in the song's time signature    *)

ledgerVars == <<slot, division, bar>>

OnGrid(p) == p % Stride(division) = 0

(* A pattern as it was imported, which is read back with the grid it was made on. *)
LedgerInit ==
  /\ slot \in [Bars -> BarsAtStart]
  /\ division \in Divisions /\ bar \in BarLengths
  /\ Steps(bar, division) # 0
  /\ \A b \in Bars : \A p \in Positions : IsStart(slot[b], p) => OnGrid(p)

-----------------------------------------------------------------------------
(* SetStepLedgerSlot.  The bridge sorts the notes it is given and drops what is no
   note, so the input is a set. *)

LaneOf(s, p, x) == s.lane[p][Rank(s.ledger[p], x)]

(* Notes that stay keep their lane; the new ones, from the lowest up, get the
   lowest lanes no other has. *)
LaneAfterByIndex(s, p, notes, x) ==   \* mutant
  IF x \in s.ledger[p] THEN s.lane[p][Rank(notes, x)] ELSE Rank(notes, x)
LaneAfter(s, p, notes, x) ==
  LET kept == s.ledger[p] \cap notes
      free == Lanes \ {LaneOf(s, p, y) : y \in kept}
  IN IF x \in kept THEN LaneOf(s, p, x) ELSE NthLeast(free, Rank(notes \ kept, x))

(* The lane of each note at the place the sorted array has it. *)
LaneByte(s, p, notes) ==
  [k \in Lanes |->
     IF p \in s.explicit /\ k < Cardinality(notes)
     THEN LaneAfter(s, p, notes, NthLeast(notes, k)) ELSE 0]

(* The branch that shortens the event before a new one never changes it: its
   length is taken after the new event is in the ledger, which cuts it already. *)
WithSlotEndingEarlier(s, p, notes, stride) ==   \* mutant
  Summarized([s EXCEPT
    !.ledger[p] = notes,
    !.lane[p] = LaneByte(s, p, notes),
    !.length = [q \in Positions |->
                  IF q <= p /\ ~IsStart(s, p) /\ notes # {} THEN stride ELSE @[q]]])
WithSlot(s, p, notes, stride) ==
  Summarized([s EXCEPT
    !.ledger[p] = notes,
    !.lane[p] = LaneByte(s, p, notes),
    !.length[p] = IF ~IsStart(s, p) /\ notes # {} THEN stride ELSE @])

SetStepLedgerSlot(b, i, notes) ==
  /\ i < Steps(bar, division) /\ i * Stride(division) < LedgerMax
  /\ slot' = [slot EXCEPT ![b] = WithSlot(@, i * Stride(division), notes, Stride(division))]
  /\ UNCHANGED <<division, bar>>

-----------------------------------------------------------------------------
(* SetStepEventLengthGrid with SetStepEventLengthCanonical.  An event of the grid
   shorter than one step counts as one. *)
AtLeastOne(k) == IF k < 1 THEN 1 ELSE k
GridMaxLength(s, i) ==
  AtLeastOne(MaxLength(s, i * Stride(division), bar) \div Stride(division))

(* GetStepEventLengthGrid, 0 where no event starts. *)
GridLength(s, i) ==
  LET p == i * Stride(division) IN
  IF i < Steps(bar, division) /\ IsStart(s, p)
  THEN AtLeastOne(EventLength(s, p, bar) \div Stride(division)) ELSE 0

Clamp(k, low, high) == IF k < low THEN low ELSE IF k > high THEN high ELSE k

SetStepEventLength(b, i, k) ==
  LET s == slot[b]
      p == i * Stride(division)
      grid == Clamp(k, 1, GridMaxLength(s, i))
  IN /\ i < Steps(bar, division) /\ IsStart(s, p)
     /\ slot' = [slot EXCEPT ![b].length[p] =
                   Clamp(grid * Stride(division), 1, MaxLength(s, p, bar))]
     /\ UNCHANGED <<division, bar>>

-----------------------------------------------------------------------------
(* InitLedgerFromMask with LimitNoteMaskToMaxVoices: the lowest four pitch classes
   of a chord as one event at the start of the bar, two positions long.  The lanes
   of the position stay as they were. *)
WithChord(s, chord) ==
  Summarized([s EXCEPT
    !.ledger = [p \in Positions |->
                  IF p = 0 THEN {BaseNote + c : c \in Least(chord, MaxVoices)} ELSE {}],
    !.length[0] = 2])

(* SetStepChordParams, and SetStepCustomUserChord with a chord of its own. *)
SetStepChord(b, chord) ==
  /\ slot' = [slot EXCEPT ![b] = WithChord(@, chord)]
  /\ UNCHANGED <<division, bar>>

(* SetStepChordParams with chord type 0 clears the notes and nothing else. *)
WithoutNotes(s) == Summarized([s EXCEPT !.ledger = [p \in Positions |-> {}]])

SetStepNoChord(b) ==
  /\ slot' = [slot EXCEPT ![b] = WithoutNotes(@)]
  /\ UNCHANGED <<division, bar>>

SetStepBarState(b, skip) ==
  /\ slot' = [slot EXCEPT ![b] = Summarized([@ EXCEPT !.skip = skip])]
  /\ UNCHANGED <<division, bar>>

-----------------------------------------------------------------------------
(* SetPatternTiming.  A coarser grid is refused while an event of the pattern does
   not fit it.  The divisions of the other patterns, which can refuse it too, are
   left out: a refused call changes nothing. *)
FitsEveryBarPlayed(d) ==   \* mutant
  Stride(d) > Stride(division) =>
    \A b \in Bars : \A p \in 0 .. bar - 1 : IsStart(slot[b], p) => p % Stride(d) = 0
Fits(d) ==
  Stride(d) > Stride(division) => \A b \in Bars : Compatible(slot[b], Stride(d))

SetPatternTiming(d, n) ==
  /\ Steps(n, d) # 0 /\ Fits(d)
  /\ division' = d /\ bar' = n
  /\ slot' = [b \in Bars |-> Summarized(slot[b])]   (* NormalizePatternDivisionCadence *)

LedgerNext ==
  \/ \E b \in Bars :
       \/ \E i \in Positions, notes \in Inputs : SetStepLedgerSlot(b, i, notes)
       \/ \E i \in Positions, k \in 0 .. LedgerMax : SetStepEventLength(b, i, k)
       \/ \E chord \in Chords : SetStepChord(b, chord)
       \/ SetStepNoChord(b)
       \/ \E skip \in BOOLEAN : SetStepBarState(b, skip)
  \/ \E d \in Divisions, n \in BarLengths : SetPatternTiming(d, n)

LedgerSpec == LedgerInit /\ [][LedgerNext]_ledgerVars

-----------------------------------------------------------------------------
(* What a grid position sounds *)

(* ApplyTransposeToMidiNote drops what leaves the range of MIDI. *)
Transposed(notes, t) == {x + t : x \in {y \in notes : y + t \in 0 .. 127}}

(* ResolveEventNotesForPlayback: the notes of the event that reaches the position,
   unless that event starts off the grid. *)
EventAt(s, i) ==
  IF i < Steps(bar, division) /\ i * Stride(division) < bar
  THEN Reaching(s, i * Stride(division), bar) ELSE {}

NotesAt(s, i, t) ==
  LET e == EventAt(s, i) IN
  IF e = {} THEN {}
  ELSE IF OnGrid(MaxOf(e)) THEN Transposed(s.ledger[MaxOf(e)], t) ELSE {}

(* ResolveEventNotesForPlaybackWithLanes: an explicit lane goes with the place of
   the note in the ledger, an implicit one with its place among those played. *)
LanedAt(s, i, t) ==
  LET e == EventAt(s, i)
      p == MaxOf(e)
      played == Transposed(s.ledger[p], t)
  IN IF e = {} THEN {}
     ELSE IF ~OnGrid(p) THEN {}
     ELSE {<<x, IF p \in s.explicit THEN LaneOf(s, p, x - t) ELSE Rank(played, x)>> :
             x \in played}

-----------------------------------------------------------------------------
LedgerTypeOK ==
  /\ slot \in [Bars -> Slot]
  /\ division \in Divisions /\ bar \in BarLengths

(* Every event starts on the grid of the pattern, also one that the time signature
   hides: otherwise it could neither be edited nor, ResolveEventNotesForPlayback
   says, be heard. *)
EventsOnGrid ==
  \A b \in Bars, p \in Positions : IsStart(slot[b], p) => OnGrid(p)

(* The summary of a bar, by which the player decides that it is a chord or silent,
   never falls behind its notes (RefreshSlotSummary). *)
SummaryIsTrue == \A b \in Bars : slot[b] = Summarized(slot[b])

LedgerIsConsistent == LedgerTypeOK /\ EventsOnGrid /\ SummaryIsTrue
=============================================================================
