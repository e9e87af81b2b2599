----------------------------- MODULE ArpEngine ------------------------------
(***************************************************************************)
(* ArpEngine: the notes of the arpeggio and the one that sounds.  The main *)
(* context loads a chord (LoadNotes) or empties the engine (Init); the     *)
(* clock interrupt advances it (Advance, from TickMusical) and may do so   *)
(* between any two assignments of the main context, in particular while    *)
(* the list of notes is half built.                                        *)
(*                                                                         *)
(* Notes are what the engine compares and nothing more: small numbers,     *)
(* with those above Highest standing for the ones that are not MIDI notes. *)
(***************************************************************************)
EXTENDS Integers, Sequences, FiniteSets

CONSTANTS
  Highest,      (* the highest MIDI note: 127                              *)
  Chords,       (* the chords LoadNotes is given                           *)
  Modes,        (* the modes LoadNotes is given                            *)
  MaxLoads      (* bound: calls of LoadNotes and Init in a behaviour       *)

Size   == 4                      (* notes_[4]                              *)
Slots  == 0 .. Size - 1
NoNote == 255                    (* 0xFF                                   *)
AllModes == {"Off", "Up", "Down", "UpDown", "DownUp", "Random", "AsPlayed"}

ASSUME ArpAssumption ==
  /\ Highest \in 0 .. NoNote - 1
  /\ Chords \subseteq Seq(0 .. NoNote)
  /\ Modes \subseteq AllModes
  /\ MaxLoads \in Nat

VARIABLES
  mode,         (* mode_                                                   *)
  notes,        (* notes_                                                  *)
  size,         (* note_count_                                             *)
  position,     (* position_                                               *)
  direction,    (* direction_                                              *)
  current,      (* current_note_                                           *)
  pc,           (* where the main context is; "idle" outside the engine    *)
  chord,        (* parameters notes and count of LoadNotes                 *)
  next,         (* local i of BuildNoteList's first loop                   *)
  i, j, t,      (* locals of its second, the sort                          *)
  interrupted,  (* Advance came during the call under way                  *)
  loads         (* calls so far, bounded by MaxLoads                       *)

engine == <<mode, notes, size, position, direction, current>>
sorting == <<i, j, t>>
vars == <<engine, pc, chord, next, sorting, interrupted, loads>>

Init ==
  /\ mode = "Off"
  /\ notes = [n \in Slots |-> 0] /\ size = 0
  /\ position = 0 /\ direction = 1 /\ current = NoNote
  /\ pc = "idle" /\ chord = <<>> /\ next = 1 /\ i = 0 /\ j = 0 /\ t = 0
  /\ interrupted = FALSE /\ loads = 0

-----------------------------------------------------------------------------
(* Advance, with the arithmetic of uint8_t. *)

Byte(n) == n % 256

Step(pos, dir) == [position |-> pos, direction |-> dir]

BounceStaysAtTop(p) ==   \* mutant: the old position, not the new one, is tested
  IF position + 1 >= size /\ direction = 1 THEN Step(size - 1, -1)
  ELSE IF p = 0 /\ direction = -1 THEN Step(p, 1)
  ELSE Step(p, direction)

(* UpDown and DownUp, one place on from where they were. *)
Bounce(p) ==
  IF p >= size THEN Step(IF Byte(size - 2) >= size THEN 0 ELSE Byte(size - 2), -1)
  ELSE IF p = 0 /\ direction = -1 THEN Step(p, 1)
  ELSE Step(p, direction)

DownwardsNoWrap == Byte(position - 1)   \* mutant
Downwards == IF position = 0 THEN size - 1 ELSE position - 1

UpwardsShort == (position + 1) % (size - 1)   \* mutant
Upwards == (position + 1) % size

Advanced ==
  CASE mode = "Off"                 -> {Step(position, direction)}
    [] mode \in {"Up", "AsPlayed"}  -> {Step(Upwards, direction)}
    [] mode = "Down"                -> {Step(Downwards, direction)}
    [] mode \in {"UpDown", "DownUp"} -> {Bounce(Byte(position + direction))}
    [] mode = "Random"              -> {Step(p, direction) : p \in 0 .. size - 1}

Sounding(pos) ==
  CASE mode = "Off"    -> 0
    [] mode = "DownUp" -> Byte(size - 1 - pos)
    [] OTHER           -> pos

(* The interrupt.  Two events are at least 12 ticks apart, at 300 BPM 25 ms, far
   more than a call in the main context takes: it meets at most one. *)
Advance ==
  /\ size > 0
  /\ pc # "idle" => ~interrupted
  /\ interrupted' = (pc # "idle")
  /\ IF size = 1
       THEN current' = notes[0] /\ UNCHANGED <<position, direction>>
       ELSE \E to \in Advanced :
              /\ position' = to.position /\ direction' = to.direction
              /\ current' = IF Sounding(to.position) \in Slots
                              THEN notes[Sounding(to.position)] ELSE NoNote
  /\ UNCHANGED <<mode, notes, size, pc, chord, next, sorting, loads>>

-----------------------------------------------------------------------------
(* LoadNotes: mode, BuildNoteList, Reset. *)

Call == /\ pc = "idle" /\ loads < MaxLoads
        /\ loads' = loads + 1
        /\ interrupted' = FALSE

LoadNotes ==
  /\ Call
  /\ mode' \in Modes
  /\ chord' \in Chords
  /\ pc' = "build"
  /\ UNCHANGED <<notes, size, position, direction, current, next, sorting>>

BuildNoteList ==
  /\ pc = "build"
  /\ size' = 0 /\ next' = 1
  /\ pc' = "append"
  /\ UNCHANGED <<mode, notes, position, direction, current, chord, sorting, interrupted,
                 loads>>

Considered == IF Len(chord) > Size THEN Size ELSE Len(chord)

Wanted(note) == note <= Highest /\ \A n \in 0 .. size - 1 : notes[n] # note

Append1 ==
  /\ pc = "append" /\ next <= Considered
  /\ next' = next + 1
  /\ IF Wanted(chord[next])
       THEN notes' = [notes EXCEPT ![size] = chord[next]] /\ size' = size + 1
       ELSE UNCHANGED <<notes, size>>
  /\ UNCHANGED <<mode, position, direction, current, pc, chord, sorting, interrupted, loads>>

(* The sort, in place: notes_[i] is compared with each note behind it and changed for
   the lower one, by two assignments between which one note is listed twice. *)
BeginSort ==
  /\ pc = "append" /\ next > Considered
  /\ pc' = "sort" /\ i' = 0 /\ j' = 1
  /\ UNCHANGED <<engine, chord, next, t, interrupted, loads>>

Compare ==
  /\ pc = "sort" /\ j < size
  /\ IF notes[j] < notes[i]
       THEN /\ pc' = "swap" /\ t' = notes[i]
            /\ notes' = [notes EXCEPT ![i] = notes[j]]
            /\ UNCHANGED j
       ELSE j' = j + 1 /\ UNCHANGED <<pc, t, notes>>
  /\ UNCHANGED <<mode, size, position, direction, current, chord, next, i, interrupted, loads>>

Swap ==
  /\ pc = "swap"
  /\ notes' = [notes EXCEPT ![j] = t]
  /\ j' = j + 1
  /\ pc' = "sort"
  /\ UNCHANGED <<mode, size, position, direction, current, chord, next, i, t, interrupted,
                 loads>>

NextPlace ==
  /\ pc = "sort" /\ j >= size /\ i < size
  /\ i' = i + 1 /\ j' = i + 2
  /\ UNCHANGED <<engine, pc, chord, next, t, interrupted, loads>>

EndSort ==
  /\ pc = "sort" /\ i >= size
  /\ pc' = "position"
  /\ UNCHANGED <<engine, chord, next, sorting, interrupted, loads>>

(* Reset, an assignment at a time. *)
ResetPosition ==
  /\ pc = "position"
  /\ position' = 0
  /\ pc' = "direction"
  /\ UNCHANGED <<mode, notes, size, direction, current, chord, next, sorting, interrupted, loads>>

ResetDirection ==
  /\ pc = "direction"
  /\ direction' = 1
  /\ pc' = "note"
  /\ UNCHANGED <<mode, notes, size, position, current, chord, next, sorting, interrupted, loads>>

PlacedNone == UNCHANGED <<position, current>>   \* mutant: a list left to Advance
Placed ==
  IF size > 0
    THEN /\ position' = IF mode = "Down" THEN size - 1 ELSE 0
         /\ current' = notes[IF mode \in {"Down", "DownUp"} THEN size - 1 ELSE 0]
    ELSE current' = NoNote /\ UNCHANGED position

ResetNote ==
  /\ pc = "note"
  /\ Placed
  /\ pc' = "idle" /\ interrupted' = FALSE
  /\ UNCHANGED <<mode, notes, size, direction, chord, next, sorting, loads>>

(* ArpEngine::Init. *)
ClearMode ==
  /\ Call
  /\ mode' = "Off" /\ chord' = <<>>
  /\ pc' = "clear"
  /\ UNCHANGED <<notes, size, position, direction, current, next, sorting>>

(* From the assignment to note_count_ on the interrupt leaves the engine alone. *)
ClearRest ==
  /\ pc = "clear"
  /\ size' = 0 /\ position' = 0 /\ direction' = 1 /\ current' = NoNote
  /\ notes' = [n \in Slots |-> 0]
  /\ pc' = "idle" /\ interrupted' = FALSE
  /\ UNCHANGED <<mode, chord, next, sorting, loads>>

Main == LoadNotes \/ BuildNoteList \/ Append1 \/ BeginSort \/ Compare \/ Swap
        \/ NextPlace \/ EndSort \/ ResetPosition \/ ResetDirection \/ ResetNote
        \/ ClearMode \/ ClearRest

Next == Advance \/ Main

Spec == Init /\ [][Next]_vars

(* The clock goes on. *)
FairSpec == Spec /\ WF_vars(Advance)

-----------------------------------------------------------------------------
Points == {"idle", "build", "append", "sort", "swap", "position", "direction", "note",
           "clear"}

(* The engine's bytes keep their ranges, and note_count_ that of notes_[4]. *)
TypeOK ==
  /\ mode \in AllModes
  /\ notes \in [Slots -> 0 .. NoNote] /\ size \in 0 .. Size
  /\ position \in 0 .. NoNote /\ direction \in {-1, 1}
  /\ current \in 0 .. NoNote
  /\ pc \in Points /\ chord \in Seq(0 .. NoNote) /\ next \in Nat
  /\ i \in Nat /\ j \in Nat /\ t \in 0 .. NoNote
  /\ interrupted \in BOOLEAN /\ loads \in 0 .. MaxLoads

(* Advance never reads outside notes_[4], also when it lands in a half-built
   list with the position of the chord before. *)
IndexInNotes == position \in Slots

(* The notes of the chord that are MIDI notes, among its first four. *)
Pool == {chord[n] : n \in {m \in 1 .. Considered : chord[m] <= Highest}}

Listed == {notes[n] : n \in 0 .. size - 1}

(* Between calls the engine holds the notes of the chord loaded last, ascending
   and each once, and sounds one of them, whatever Advance saw meanwhile. *)
HoldsChord ==
  pc = "idle" =>
    /\ size = Cardinality(Pool) /\ Listed = Pool
    /\ \A m, n \in 0 .. size - 1 : m < n => notes[m] < notes[n]
    /\ IF Pool = {} THEN current = NoNote ELSE current \in Pool /\ position < size

Reaches(note) ==
  (pc = "idle" /\ note \in Pool /\ mode \notin {"Off", "Random"}) ~>
    (current = note \/ pc # "idle" \/ (mode \in {"UpDown", "DownUp"} /\ size = 2))

(* The arpeggio reaches each of its notes while it is left alone: UpDown and
   DownUp only if the chord has not exactly two of them. *)
ReachesEveryNote == \A note \in 0 .. Highest : Reaches(note)

(* "ARP UpDown bounces without endpoint duplication: 0,1,2,3,2,1,0,1..."
   (scripts/v2_stage4_host_harness.cpp:1904): with three notes or four no note sounds twice in a row, from the first event
   after a load on. *)
NoEndpointTwice ==
  [][Advance /\ pc = "idle" /\ mode \in {"UpDown", "DownUp"} /\ size > 2
       => current' # current]_vars
=============================================================================
