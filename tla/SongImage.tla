------------------------------ MODULE SongImage ------------------------------
(***************************************************************************)
(* The image of a song in FRAM: what EncodeSongCore writes, in formats 2   *)
(* and 3, and what DecodeSongPayload makes of it.                          *)
(*                                                                         *)
(* An image is the sequence of the fields written, each with its width in  *)
(* bits.  A field must be read with the width it was written with: where   *)
(* the reader asks for another one it has lost its place, and what it      *)
(* makes of the bits from there on is not modelled (the image is unread).  *)
(* Of the settings the division, the types and the skip marks stand for    *)
(* all; the names, read as they are written, and the entries of the chain  *)
(* are left out.                                                           *)
(***************************************************************************)
EXTENDS Integers, Sequences, FiniteSets

CONSTANTS
  Places,       (* kV2PositionsPerStep: positions of a bar, 32             *)
  Count         (* bars of the song: kV2TotalBars                          *)

Packed == INSTANCE PackedLengths WITH Fields <- Places

Index == 1 .. Count
Cells == Count * Places
BarOf(k)   == (k - 1) \div Places + 1
PlaceOf(k) == (k - 1) % Places

HasBarState == 1       (* kV2FlagHasBarStateBitstream                      *)
HasLengths  == 2       (* kV3FlagHasEventLengths                           *)
HasLanes    == 4       (* kV3FlagHasLaneAssignment                         *)
Has(flags, flag) == (flags \div flag) % 2 = 1

Field(value, width) == <<[value |-> value, width |-> width]>>

(* Each bar, and each position of each bar, in the order of the loops. *)
EachBar(Of(_)) ==
  LET upto[b \in 0 .. Count] == IF b = 0 THEN <<>> ELSE upto[b - 1] \o Of(b)
  IN upto[Count]
EachCell(Of(_, _)) ==
  LET upto[k \in 0 .. Cells] ==
        IF k = 0 THEN <<>> ELSE upto[k - 1] \o Of(BarOf(k), PlaceOf(k))
  IN upto[Cells]

-----------------------------------------------------------------------------
(* The numbers of chords *)

CombOf(n, k) ==
  LET upto[i \in 0 .. k] == IF i = 0 THEN 1 ELSE (upto[i - 1] * (n - k + i)) \div i
  IN IF k > n THEN 0 ELSE upto[k]
Comb == [n \in 0 .. 128 |-> [k \in 1 .. 4 |-> CombOf(n, k)]]

Below(notes, x) == Cardinality({y \in notes : y < x})

(* Mutant: the notes are numbered from the highest down. *)
RankDescending(notes) ==
  LET n == Cardinality(notes)
      sorted[i \in 0 .. n] ==
        IF i = 0 THEN 0
        ELSE sorted[i - 1] + Comb[CHOOSE x \in notes : Below(notes, x) = n - i][i]
  IN sorted[n]

(* RankCombination: the place of a set of notes among all of its size. *)
RankOf(notes) ==
  LET sorted[i \in 0 .. Cardinality(notes)] ==
        IF i = 0 THEN 0
        ELSE sorted[i - 1] + Comb[CHOOSE x \in notes : Below(notes, x) = i - 1][i]
  IN sorted[Cardinality(notes)]

(* UnrankCombination, from the highest note down. *)
Unranked(size, rank) ==
  LET Highest(i, r) == CHOOSE x \in 0 .. 127 : Comb[x][i] <= r /\ r < Comb[x + 1][i]
      down[i \in 1 .. size + 1] ==
        IF i > size THEN [rank |-> rank, notes |-> {}]
        ELSE LET above == down[i + 1]
                 x == Highest(i, above.rank)
             IN [rank |-> above.rank - Comb[x][i], notes |-> above.notes \cup {x}]
  IN down[1].notes

RankWidth == <<7, 13, 19, 24>>

-----------------------------------------------------------------------------
(* Writing *)

(* PersistIsEventStart: a place behind one that has notes is not taken for the start
   of an event. *)
Starts(ledger, p) == ledger[p] # {} /\ (p = 0 \/ ledger[p - 1] = {})

TypeCode == [Chord |-> 0, Rest |-> 1, Skip |-> 2, Empty |-> 3]
DivisionCode(d) == CASE d = 1 -> 0 [] d = 2 -> 1 [] d = 4 -> 2 [] d = 8 -> 3

Settings(song, format, flags) ==
  Field(format, 8) \o Field(flags, 8) \o Field(DivisionCode(song.division), 2)
    \o EachBar(LAMBDA b : Field(TypeCode[song.bars[b].type], 2))

SkipMarks(song) == EachBar(LAMBDA b : Field(IF song.bars[b].skip THEN 1 ELSE 0, 1))

Lengths(song) ==
  EachCell(LAMBDA b, p :
    IF Starts(song.bars[b].ledger, p)
    THEN Field(Packed!RawGet(song.bars[b].packed, p), 5) ELSE <<>>)

LaneFields(bar, p) ==
  [k \in 1 .. Cardinality(bar.ledger[p]) |-> [value |-> bar.lane[p][k - 1], width |-> 2]]
LaneSection(song) ==
  EachCell(LAMBDA b, p :
    LET bar == song.bars[b] IN
    IF ~Starts(bar.ledger, p) THEN <<>>
    ELSE IF p \in bar.explicit THEN Field(1, 1) \o LaneFields(bar, p) ELSE Field(0, 1))

(* One bit for each position that has notes. *)
Occupancy(ledger) ==
  LET upto[p \in 0 .. Places] ==
        IF p = 0 THEN 0 ELSE upto[p - 1] + (IF ledger[p - 1] = {} THEN 0 ELSE 2 ^ (p - 1))
  IN upto[Places]
Occupancies(song) == EachBar(LAMBDA b : Field(Occupancy(song.bars[b].ledger), Places))

(* A single note is written as it is, a chord by its size and number. *)
Notes(song) ==
  EachCell(LAMBDA b, p :
    LET notes == song.bars[b].ledger[p]
        size == Cardinality(notes)
    IN CASE size = 0 -> <<>>
         [] size = 1 -> Field(0, 1) \o Field(CHOOSE x \in notes : TRUE, 7)
         [] OTHER -> Field(1, 1) \o Field(size - 2, 2) \o Field(RankOf(notes), RankWidth[size]))

Chain(song) == Field(song.chain.length, 8) \o Field(song.chain.position, 8)

(* EncodeSongV2Core and EncodeSongV3Core.  The firmware has the lengths and the lanes
   before the notes they belong to. *)
ImageV2(song) ==
  Settings(song, 2, HasBarState) \o SkipMarks(song)
    \o Occupancies(song) \o Notes(song) \o Chain(song)
ImageV3(song) ==
  Settings(song, 3, HasBarState + HasLengths + HasLanes) \o SkipMarks(song)
    \o Lengths(song) \o LaneSection(song) \o Occupancies(song) \o Notes(song) \o Chain(song)

(* EncodeSongV3Core of the host harness: behind them, and without lanes. *)
ImageOfHarness(song) ==
  Settings(song, 3, HasBarState + HasLengths) \o SkipMarks(song)
    \o Occupancies(song) \o Notes(song) \o Lengths(song) \o Chain(song)

-----------------------------------------------------------------------------
(* Reading.  A section is read from a place of the image and gives the place behind
   it, or fails for good. *)

Readable(image, at, width) == at <= Len(image) /\ image[at].width = width
Value(image, at) == image[at].value

Fails(r) == [r EXCEPT !.ok = FALSE]
Silent == [b \in Index |-> [p \in 0 .. Places - 1 |-> {}]]

(* The notes of one position. *)
ReadNotes(image, r, b, p) ==
  IF ~Readable(image, r.at, 1) THEN Fails(r)
  ELSE IF Value(image, r.at) = 0 THEN
    IF Readable(image, r.at + 1, 7)
    THEN [r EXCEPT !.at = @ + 2, !.ledger[b][p] = {Value(image, r.at + 1)}] ELSE Fails(r)
  ELSE IF Readable(image, r.at + 1, 2) /\ Value(image, r.at + 1) # 3 THEN
    LET size == Value(image, r.at + 1) + 2 IN
    IF Readable(image, r.at + 2, RankWidth[size]) /\ Value(image, r.at + 2) < Comb[128][size]
    THEN [r EXCEPT !.at = @ + 3, !.ledger[b][p] = Unranked(size, Value(image, r.at + 2))]
    ELSE Fails(r)
  ELSE Fails(r)

(* Occupancies, then the notes of every position that has some. *)
LedgerAt(image, at) ==
  LET Occupied(b, p) == Has(Value(image, at + b - 1), 2 ^ p)
      upto[k \in 0 .. Cells] ==
        IF k = 0 THEN [ok |-> \A b \in Index : Readable(image, at + b - 1, Places),
                       at |-> at + Count, ledger |-> Silent]
        ELSE LET r == upto[k - 1] IN
             IF r.ok /\ Occupied(BarOf(k), PlaceOf(k))
             THEN ReadNotes(image, r, BarOf(k), PlaceOf(k)) ELSE r
  IN upto[Cells]

(* A length for every place that the ledger read before says an event starts at. *)
LengthsAt(image, r) ==
  LET upto[k \in 0 .. Cells] ==
        IF k = 0 THEN [ok |-> r.ok, at |-> r.at, packed |-> [b \in Index |-> Packed!Zero]]
        ELSE LET q == upto[k - 1] IN
             IF ~q.ok \/ ~Starts(r.ledger[BarOf(k)], PlaceOf(k)) THEN q
             ELSE IF ~Readable(image, q.at, 5) THEN Fails(q)
             ELSE [q EXCEPT !.at = @ + 1,
                            !.packed[BarOf(k)] =
                               Packed!RawSet(@, PlaceOf(k), Value(image, q.at))]
  IN upto[Cells]

(* The same for the lanes, one for each note. *)
LanesAt(image, r, at) ==
  LET upto[k \in 0 .. Cells] ==
        IF k = 0 THEN [ok |-> r.ok, at |-> at, explicit |-> [b \in Index |-> {}],
                       lane |-> [b \in Index |-> [p \in 0 .. Places - 1 |-> <<>>]]]
        ELSE LET q == upto[k - 1]
                 b == BarOf(k)
                 p == PlaceOf(k)
                 notes == Cardinality(r.ledger[b][p])
             IN IF ~q.ok \/ ~Starts(r.ledger[b], p) THEN q
                ELSE IF ~Readable(image, q.at, 1) THEN Fails(q)
                ELSE IF Value(image, q.at) = 0 THEN [q EXCEPT !.at = @ + 1]
                ELSE IF \E i \in 1 .. notes : ~Readable(image, q.at + i, 2) THEN Fails(q)
                ELSE [q EXCEPT !.at = @ + notes + 1, !.explicit[b] = @ \cup {p},
                               !.lane[b][p] = [i \in 1 .. notes |-> Value(image, q.at + i)]]
  IN upto[Cells]

Unread == [ok |-> FALSE]

(* DecodeSongPayload: the notes first, whatever the format. *)
Decoded(image) ==
  LET format  == Value(image, 1)
      flags   == Value(image, 2)
      marks   == 4 + Count
      notes   == LedgerAt(image, marks + (IF Has(flags, HasBarState) THEN Count ELSE 0))
      lengths == IF format = 3 /\ Has(flags, HasLengths)
                 THEN LengthsAt(image, notes)
                 ELSE [ok |-> notes.ok, at |-> notes.at, packed |-> [b \in Index |-> Packed!Zero]]
      lanes   == IF format = 3 /\ Has(flags, HasLanes)
                 THEN LanesAt(image, [notes EXCEPT !.ok = lengths.ok], lengths.at)
                 ELSE [ok |-> lengths.ok, at |-> lengths.at, explicit |-> [b \in Index |-> {}]]
      type(b) == CHOOSE t \in DOMAIN TypeCode : TypeCode[t] = Value(image, 3 + b)
      skip(b) == IF Has(flags, HasBarState) THEN Value(image, marks + b - 1) = 1
                                            ELSE type(b) = "Skip"
  IN IF ~lanes.ok \/ ~Readable(image, lanes.at, 8) \/ ~Readable(image, lanes.at + 1, 8)
     THEN Unread
     ELSE [ok |-> TRUE,
           division |-> 2 ^ Value(image, 3),
           chain |-> [length |-> Value(image, lanes.at), position |-> Value(image, lanes.at + 1)],
           bars |-> [b \in Index |->
                       [type |-> type(b), skip |-> skip(b), ledger |-> notes.ledger[b],
                        packed |-> lengths.packed[b], explicit |-> lanes.explicit[b]]]]
=============================================================================
