-------------------------- MODULE PianoEditorProofs --------------------------
(***************************************************************************)
(* Proofs about the step ledger and the bar editor, for any length of the  *)
(* ledger, any bars, notes, chords and time signatures: the ledger stays   *)
(* consistent and its lengths are read back from the array that packs      *)
(* them, REC gives the notes of a session back, an edit is heard up to the *)
(* next event only, and notes stay at their outputs.                       *)
(***************************************************************************)
EXTENDS PianoEditor, FiniteSetTheorems, WellFoundedInduction, TLAPS

-----------------------------------------------------------------------------
(* Places in a sorted array *)

(* A set of numbers that has an element has a least one. *)
LEMMA LeastExists ==
  ASSUME NEW S \in SUBSET Nat, S # {}
  PROVE  \E x \in S : \A y \in S : x <= y
<1>1. PICK x \in S : \A y \in S : ~ (<<y, x>> \in OpToRel(<, Nat))
  BY NatLessThanWellFounded, WFMin
<1>2. \A y \in S : ~ (y < x)
  BY <1>1 DEF OpToRel
<1>3. \A y \in S : x <= y
  BY <1>2
<1> QED
  BY <1>3

(* The place of an element lies within its set. *)
LEMMA RankInRange ==
  ASSUME NEW S \in SUBSET Int, IsFiniteSet(S), NEW x \in S
  PROVE  Rank(S, x) \in 0 .. Cardinality(S) - 1
<1> DEFINE B == {y \in S : y < x}
<1>1. B \in SUBSET S /\ B # S
  OBVIOUS
<1>2. IsFiniteSet(B) /\ Cardinality(B) <= Cardinality(S) /\ Cardinality(B) # Cardinality(S)
  BY <1>1, FS_Subset
<1>3. Cardinality(B) \in Nat /\ Cardinality(S) \in Nat
  BY <1>2, FS_CardinalityType
<1> QED
  BY <1>2, <1>3 DEF Rank

(* Places are in the order of the elements. *)
LEMMA RankIncreases ==
  ASSUME NEW S \in SUBSET Int, IsFiniteSet(S), NEW x \in S, NEW y \in S, x < y
  PROVE  Rank(S, x) < Rank(S, y)
<1> DEFINE B(z) == {v \in S : v < z}
<1>1. B(x) \in SUBSET B(y) /\ x \in B(y) /\ x \notin B(x) /\ B(y) \in SUBSET S
  <2>1. \A v \in S : v < x => v < y
    OBVIOUS
  <2>2. ~ (x < x)
    OBVIOUS
  <2> QED
    BY <2>1, <2>2
<1>2. IsFiniteSet(B(y))
  BY <1>1, FS_Subset
<1>3. IsFiniteSet(B(x)) /\ Cardinality(B(x)) <= Cardinality(B(y))
        /\ Cardinality(B(x)) # Cardinality(B(y))
  BY <1>1, <1>2, FS_Subset
<1>4. Cardinality(B(x)) \in Nat /\ Cardinality(B(y)) \in Nat
  BY <1>2, <1>3, FS_CardinalityType
<1> QED
  BY <1>3, <1>4 DEF Rank

(* No two elements have one place. *)
LEMMA RankIsUnique ==
  ASSUME NEW S \in SUBSET Int, IsFiniteSet(S), NEW x \in S, NEW y \in S,
         Rank(S, x) = Rank(S, y)
  PROVE  x = y
<1>1. CASE x < y
  BY <1>1, RankIncreases, RankInRange
<1>2. CASE y < x
  BY <1>2, RankIncreases, RankInRange
<1> QED
  BY <1>1, <1>2

(* Every place up to the size of the set is taken, by exactly one element. *)
LEMMA NthLeastExists ==
  ASSUME NEW S \in SUBSET Int, IsFiniteSet(S), NEW k \in 0 .. Cardinality(S) - 1
  PROVE  NthLeast(S, k) \in S /\ Rank(S, NthLeast(S, k)) = k
<1> DEFINE n == Cardinality(S)
           T == 0 .. n - 1
           f == [x \in S |-> Rank(S, x)]
<1>1. n \in Nat
  BY FS_CardinalityType
<1>2. IsFiniteSet(T) /\ Cardinality(T) = n
  <2>1. 0 \in Int /\ n - 1 \in Int
    BY <1>1
  <2>2. IsFiniteSet(T) /\ Cardinality(T) = IF 0 > n - 1 THEN 0 ELSE n - 1 - 0 + 1
    BY <2>1, FS_Interval
  <2> QED BY <2>2, <1>1
<1>3. f \in [S -> T]
  BY RankInRange
<1>4. \A x, y \in S : f[x] = f[y] => x = y
  BY RankIsUnique
<1>5. f \in Injection(S, T)
  BY <1>3, <1>4 DEF Injection, IsInjective
<1>6. f \in Surjection(S, T)
  BY <1>5, <1>2, FS_Injection
<1>7. PICK x \in S : f[x] = k
  BY <1>6 DEF Surjection
<1>8. x \in S /\ Rank(S, x) = k
  BY <1>7
<1> QED
  BY <1>8 DEF NthLeast, Rank

-----------------------------------------------------------------------------
(* The notes and lanes of a position *)

(* A position holds at most four notes. *)
LEMMA VoicesAreFew ==
  ASSUME NEW notes \in LedgerSlot
  PROVE  /\ IsFiniteSet(notes) /\ notes \in SUBSET Int
         /\ Cardinality(notes) \in Nat /\ Cardinality(notes) <= 4
<1>0. 0 \in Int /\ 127 \in Int
  OBVIOUS
<1>1. IsFiniteSet(0 .. 127)
  BY <1>0, FS_Interval
<1>2. notes \in SUBSET (0 .. 127) /\ Cardinality(notes) <= 4
  BY DEF LedgerSlot, MaxVoices
<1>3. IsFiniteSet(notes)
  BY <1>1, <1>2, FS_Subset
<1> QED
  BY <1>2, <1>3, FS_CardinalityType

(* There is a lane for each of them. *)
LEMMA LanesAreFour == IsFiniteSet(Lanes) /\ Cardinality(Lanes) = 4
<1>0. 0 \in Int /\ 3 \in Int
  OBVIOUS
<1>1. IsFiniteSet(0 .. 3) /\ Cardinality(0 .. 3) = IF 0 > 3 THEN 0 ELSE 3 - 0 + 1
  BY <1>0, FS_Interval
<1> QED
  BY <1>1 DEF Lanes

(* A note of a position has a lane stored at its place. *)
LEMMA LaneOfIsLane ==
  ASSUME NEW s \in Slot, NEW p \in Positions, NEW x \in s.ledger[p]
  PROVE  LaneOf(s, p, x) \in Lanes /\ Rank(s.ledger[p], x) \in Lanes
<1>1. s.ledger[p] \in LedgerSlot /\ s.lane[p] \in [Lanes -> Lanes]
  BY DEF Slot
<1>2. Rank(s.ledger[p], x) \in 0 .. Cardinality(s.ledger[p]) - 1
  BY <1>1, VoicesAreFew, RankInRange
<1>3. Rank(s.ledger[p], x) \in Lanes
  BY <1>1, <1>2, VoicesAreFew DEF Lanes
<1> QED
  BY <1>1, <1>3 DEF LaneOf

(* The notes that stay in a position, and the lanes they leave for the others. *)
Kept(s, p, notes) == s.ledger[p] \cap notes
Free(s, p, notes) == Lanes \ {LaneOf(s, p, y) : y \in Kept(s, p, notes)}

(* There are enough lanes for the notes that come in next to those that stay. *)
LEMMA FreeLanes ==
  ASSUME NEW s \in Slot, NEW p \in Positions, NEW notes \in LedgerSlot,
         NEW x \in notes, x \notin s.ledger[p]
  PROVE  /\ Free(s, p, notes) \in SUBSET Lanes
         /\ Free(s, p, notes) \in SUBSET Int /\ IsFiniteSet(Free(s, p, notes))
         /\ notes \ Kept(s, p, notes) \in SUBSET Int
         /\ IsFiniteSet(notes \ Kept(s, p, notes))
         /\ x \in notes \ Kept(s, p, notes)
         /\ Rank(notes \ Kept(s, p, notes), x) \in 0 .. Cardinality(Free(s, p, notes)) - 1
<1> DEFINE kept  == Kept(s, p, notes)
           taken == {LaneOf(s, p, y) : y \in kept}
           free  == Free(s, p, notes)
           fresh == notes \ kept
<1>1. s.ledger[p] \in LedgerSlot
  BY DEF Slot
<1>2. IsFiniteSet(notes) /\ Cardinality(notes) \in Nat /\ Cardinality(notes) <= 4
        /\ notes \in SUBSET Int
  BY VoicesAreFew
<1>3. kept \in SUBSET notes /\ kept \in SUBSET s.ledger[p] /\ x \in fresh
  BY DEF Kept
<1>4. taken \in SUBSET Lanes /\ free = Lanes \ taken
  BY <1>3, LaneOfIsLane DEF Free
<1> HIDE DEF kept, free
<1>5. IsFiniteSet(kept) /\ Cardinality(kept) \in Nat
  BY <1>2, <1>3, FS_Subset, FS_CardinalityType
<1>6. IsFiniteSet(taken) /\ Cardinality(taken) <= Cardinality(kept) /\ Cardinality(taken) \in Nat
  <2> DEFINE f == [y \in kept |-> LaneOf(s, p, y)]
  <2>1. f \in Surjection(kept, taken)
    BY DEF Surjection
  <2>2. IsFiniteSet(taken) /\ Cardinality(taken) <= Cardinality(kept)
    BY <2>1, <1>5, FS_Surjection
  <2> QED
    BY <2>2, FS_CardinalityType
<1> HIDE DEF taken
<1>7. IsFiniteSet(free) /\ Cardinality(free) = 4 - Cardinality(taken)
  <2>1. Lanes \cap taken = taken
    BY <1>4
  <2>2. /\ IsFiniteSet(Lanes \ taken)
        /\ Cardinality(Lanes \ taken) = Cardinality(Lanes) - Cardinality(Lanes \cap taken)
    BY LanesAreFour, FS_Difference
  <2> QED
    BY <2>1, <2>2, <1>4, LanesAreFour
<1>8. IsFiniteSet(fresh) /\ Cardinality(fresh) = Cardinality(notes) - Cardinality(kept)
  <2>1. notes \cap kept = kept
    BY <1>3
  <2> QED
    BY <2>1, <1>2, FS_Difference
<1>9. fresh \in SUBSET Int
  BY <1>2
<1>10. free \in SUBSET Int
  BY <1>4 DEF Lanes
<1>11. free \in SUBSET Lanes
  BY <1>4
<1> HIDE DEF fresh
<1>12. Rank(fresh, x) \in 0 .. Cardinality(fresh) - 1
  BY <1>3, <1>8, <1>9, RankInRange
<1>13. Rank(fresh, x) \in 0 .. Cardinality(free) - 1
  BY <1>2, <1>5, <1>6, <1>7, <1>8, <1>12
<1> QED
  BY <1>3, <1>7, <1>8, <1>9, <1>10, <1>11, <1>13 DEF free, fresh, kept

(* A note that stays keeps its lane; one that comes in gets a free one. *)
LEMMA LaneAfterOfNote ==
  ASSUME NEW s \in Slot, NEW p \in Positions, NEW notes \in LedgerSlot, NEW x \in notes
  PROVE  IF x \in s.ledger[p] THEN LaneAfter(s, p, notes, x) = LaneOf(s, p, x)
         ELSE /\ LaneAfter(s, p, notes, x) \in Free(s, p, notes)
              /\ Rank(Free(s, p, notes), LaneAfter(s, p, notes, x))
                   = Rank(notes \ Kept(s, p, notes), x)
<1>1. CASE x \in s.ledger[p]
  BY <1>1 DEF LaneAfter
<1>2. CASE x \notin s.ledger[p]
  <2> DEFINE free == Free(s, p, notes)
             k == Rank(notes \ Kept(s, p, notes), x)
  <2>1. LaneAfter(s, p, notes, x) = NthLeast(free, k)
    BY <1>2 DEF LaneAfter, Free, Kept
  <2>2. /\ free \in SUBSET Int /\ IsFiniteSet(free)
        /\ k \in 0 .. Cardinality(free) - 1
    BY <1>2, FreeLanes
  <2> HIDE DEF free, k
  <2>3. NthLeast(free, k) \in free /\ Rank(free, NthLeast(free, k)) = k
    BY <2>2, NthLeastExists
  <2> QED
    BY <1>2, <2>1, <2>3 DEF free, k
<1> QED
  BY <1>1, <1>2

(* So every note has one. *)
LEMMA LaneAfterIsLane ==
  ASSUME NEW s \in Slot, NEW p \in Positions, NEW notes \in LedgerSlot, NEW x \in notes
  PROVE  LaneAfter(s, p, notes, x) \in Lanes
<1>1. CASE x \in s.ledger[p]
  <2>1. LaneOf(s, p, x) \in Lanes
    BY <1>1, LaneOfIsLane
  <2> QED
    BY <1>1, <2>1, LaneAfterOfNote
<1>2. CASE x \notin s.ledger[p]
  BY <1>2, LaneAfterOfNote DEF Free
<1> QED
  BY <1>1, <1>2

(* The byte stored for a position has a lane at each of its four places. *)
LEMMA LaneByteIsLanes ==
  ASSUME NEW s \in Slot, NEW p \in Positions, NEW notes \in LedgerSlot
  PROVE  LaneByte(s, p, notes) \in [Lanes -> Lanes]
<1>1. ASSUME NEW k \in Lanes, k < Cardinality(notes)
      PROVE  NthLeast(notes, k) \in notes
  BY <1>1, VoicesAreFew, NthLeastExists DEF Lanes
<1>2. 0 \in Lanes
  BY DEF Lanes
<1> QED
  BY <1>1, <1>2, LaneAfterIsLane DEF LaneByte

-----------------------------------------------------------------------------
(* What the calls of the device make of a bar *)

(* RefreshSlotSummary changes the summary and nothing else, and once is enough. *)
LEMMA SummarizedBar ==
  ASSUME NEW s \in Slot
  PROVE  /\ Summarized(s) \in Slot
         /\ Summarized(Summarized(s)) = Summarized(s)
         /\ Summarized(s).ledger = s.ledger /\ Summarized(s).length = s.length
         /\ Summarized(s).lane = s.lane /\ Summarized(s).explicit = s.explicit
<1> DEFINE mask == UNION {PitchClasses(s.ledger[p]) : p \in Positions}
<1>0. \A x \in 0 .. 127 : x % 12 \in 0 .. 11
  OBVIOUS
<1>1. \A p \in Positions : PitchClasses(s.ledger[p]) \in SUBSET (0 .. 11)
  <2> SUFFICES ASSUME NEW p \in Positions
               PROVE  PitchClasses(s.ledger[p]) \in SUBSET (0 .. 11)
    OBVIOUS
  <2>1. s.ledger[p] \in SUBSET (0 .. 127)
    BY DEF Slot, LedgerSlot
  <2> QED
    BY <1>0, <2>1 DEF PitchClasses
<1>2. mask \in SUBSET (0 .. 11)
  BY <1>1
<1> DEFINE type == IF s.skip THEN "Skip" ELSE IF mask # {} THEN "Chord" ELSE "Empty"
<1>3. Summarized(s) = [s EXCEPT !.mask = mask, !.type = type]
  BY DEF Summarized
<1>4. type \in {"Chord", "Skip", "Empty"}
  OBVIOUS
<1> HIDE DEF mask, type
<1>5. /\ Summarized(s) \in Slot
      /\ Summarized(s).mask = mask /\ Summarized(s).type = type
      /\ Summarized(s).ledger = s.ledger /\ Summarized(s).skip = s.skip
      /\ Summarized(s).length = s.length
      /\ Summarized(s).lane = s.lane /\ Summarized(s).explicit = s.explicit
  BY <1>2, <1>3, <1>4 DEF Slot
<1> DEFINE t == Summarized(s)
<1>6. UNION {PitchClasses(t.ledger[p]) : p \in Positions} = mask
  BY <1>5 DEF mask
<1>7. Summarized(t) = [t EXCEPT !.mask = mask, !.type = type]
  BY <1>5, <1>6 DEF Summarized, type
<1> HIDE DEF t
<1>8. [t EXCEPT !.mask = mask, !.type = type] = t
  BY <1>5 DEF Slot, t
<1> QED
  BY <1>5, <1>7, <1>8 DEF t

(* The grid: a step of it starts in the bar, on a position of the grid. *)
LEMMA Strides ==
  ASSUME NEW d \in Divisions
  PROVE  /\ d = 1 => Stride(d) = 8
         /\ d = 2 => Stride(d) = 4
         /\ d = 4 => Stride(d) = 2
         /\ d = 8 => Stride(d) = 1
         /\ d \in Nat /\ Stride(d) \in 1 .. 8
  BY DEF Divisions, Stride

(* The steps of a bar are numbered from 0, and each starts inside it. *)
LEMMA StepsOfGrid ==
  ASSUME NEW d \in Divisions, NEW n \in Nat
  PROVE  /\ Steps(n, d) \in Nat
         /\ Steps(n, d) # 0 => Stride(d) <= n
         /\ \A i \in Nat : i < Steps(n, d) => /\ i * Stride(d) \in 0 .. n - 1
                                              /\ (i * Stride(d)) % Stride(d) = 0
<1>1. CASE d = 1
  BY <1>1, Strides DEF Steps
<1>2. CASE d = 2
  BY <1>2, Strides DEF Steps
<1>3. CASE d = 4
  BY <1>3, Strides DEF Steps
<1>4. CASE d = 8
  BY <1>4, Strides DEF Steps
<1> QED
  BY <1>1, <1>2, <1>3, <1>4 DEF Divisions

(* A finer grid has every position of a coarser one. *)
LEMMA FinerGrid ==
  ASSUME NEW c \in Divisions, NEW d \in Divisions, Stride(d) <= Stride(c),
         NEW p \in Nat, p % Stride(c) = 0
  PROVE  p % Stride(d) = 0
<1>1. CASE d = 8
  BY <1>1, Strides
<1>2. CASE d = 4
  BY <1>2, Strides DEF Divisions
<1>3. CASE d = 2
  BY <1>3, Strides DEF Divisions
<1>4. CASE d = 1
  BY <1>4, Strides DEF Divisions
<1> QED
  BY <1>1, <1>2, <1>3, <1>4 DEF Divisions

(* The room an event has is a number, also for a position past the bar. *)
LEMMA MaxLengthIsNumber ==
  ASSUME NEW s, NEW p \in Nat, NEW n \in Nat
  PROVE  NextStart(s, p, n) \in Nat /\ MaxLength(s, p, n) \in Int
<1> DEFINE S == {q \in p + 1 .. n - 1 : IsStart(s, q)} \cup {n}
<1>1. S \in SUBSET Nat /\ n \in S
  OBVIOUS
<1>2. PICK x \in S : \A y \in S : x <= y
  BY <1>1, LeastExists
<1>3. NextStart(s, p, n) \in S
  BY <1>2 DEF NextStart, MinOf
<1> QED
  BY <1>1, <1>3 DEF MaxLength

(* The next event is after the position and not after the end of the bar. *)
LEMMA NextStartInBar ==
  ASSUME NEW s, NEW p \in Nat, NEW n \in Nat, p < n
  PROVE  /\ NextStart(s, p, n) \in p + 1 .. n
         /\ NextStart(s, p, n) < n => IsStart(s, NextStart(s, p, n))
         /\ \A q \in p + 1 .. n - 1 : q < NextStart(s, p, n) => ~ IsStart(s, q)
         /\ MaxLength(s, p, n) = NextStart(s, p, n) - p
<1> DEFINE Q == {q \in p + 1 .. n - 1 : IsStart(s, q)}
           S == Q \cup {n}
<1>1. S \in SUBSET Nat /\ n \in S
  OBVIOUS
<1>2. PICK x \in S : \A y \in S : x <= y
  BY <1>1, LeastExists
<1>3. NextStart(s, p, n) \in S /\ \A y \in S : NextStart(s, p, n) <= y
  BY <1>2 DEF NextStart, MinOf
<1>4. NextStart(s, p, n) \in p + 1 .. n
  BY <1>3
<1>5. NextStart(s, p, n) < n => IsStart(s, NextStart(s, p, n))
  BY <1>3
<1>6. ASSUME NEW q \in p + 1 .. n - 1, q < NextStart(s, p, n), IsStart(s, q)
      PROVE  FALSE
  BY <1>3, <1>4, <1>6
<1> QED
  BY <1>4, <1>5, <1>6 DEF MaxLength

(* A clamped number is between its bounds. *)
LEMMA ClampInRange ==
  ASSUME NEW k \in Int, NEW low \in Int, NEW high \in Int, low <= high
  PROVE  Clamp(k, low, high) \in low .. high
  BY DEF Clamp

-----------------------------------------------------------------------------
(* Each call keeps the bar it edits consistent *)

(* What LedgerIsConsistent asks of one bar. *)
BarOK(s) ==
  /\ s \in Slot /\ s = Summarized(s)
  /\ \A p \in Positions : IsStart(s, p) => OnGrid(p)

LedgerInv ==
  /\ LedgerIsConsistent
  /\ Steps(bar, division) # 0     (* the grid divides the bar *)

(* The consistency of the ledger, bar by bar, with what it says of the grid. *)
LEMMA BarsAreOK ==
  ASSUME LedgerInv
  PROVE  /\ slot \in [Bars -> Slot]
         /\ \A b \in Bars : BarOK(slot[b])
         /\ division \in Divisions /\ Stride(division) \in 1 .. 8
         /\ bar \in 1 .. LedgerMax /\ Stride(division) <= bar
         /\ LedgerMax \in Nat /\ Steps(bar, division) \in Nat
         /\ \A i \in Nat : i < Steps(bar, division) =>
              i * Stride(division) \in Positions /\ OnGrid(i * Stride(division))
                /\ i * Stride(division) < bar
<1>1. /\ slot \in [Bars -> Slot] /\ division \in Divisions
      /\ bar \in 1 .. LedgerMax /\ LedgerMax \in Nat
  BY LedgerAssumption DEF LedgerInv, LedgerIsConsistent, LedgerTypeOK
<1>2. \A b \in Bars : BarOK(slot[b])
  BY <1>1 DEF LedgerInv, LedgerIsConsistent, EventsOnGrid, SummaryIsTrue, BarOK
<1>3. Stride(division) \in 1 .. 8
  BY <1>1, Strides
<1>4. /\ Steps(bar, division) \in Nat /\ Stride(division) <= bar
      /\ \A i \in Nat : i < Steps(bar, division) =>
           /\ i * Stride(division) \in 0 .. bar - 1
           /\ (i * Stride(division)) % Stride(division) = 0
  BY <1>1, StepsOfGrid DEF LedgerInv
<1> QED
  BY <1>1, <1>2, <1>3, <1>4 DEF OnGrid, Positions

(* To write one consistent bar keeps the ledger consistent. *)
LEMMA BarReplaced ==
  ASSUME LedgerInv, NEW b \in Bars, NEW t, BarOK(t),
         slot' = [slot EXCEPT ![b] = t], UNCHANGED <<division, bar>>
  PROVE  LedgerInv'
<1>1. slot' \in [Bars -> Slot] /\ \A c \in Bars : BarOK(slot'[c])
  BY BarsAreOK DEF BarOK
<1>2. LedgerTypeOK'
  BY <1>1 DEF LedgerInv, LedgerIsConsistent, LedgerTypeOK
<1>3. EventsOnGrid'
  BY <1>1 DEF EventsOnGrid, BarOK, OnGrid
<1>4. SummaryIsTrue'
  BY <1>1 DEF SummaryIsTrue, BarOK
<1>5. (Steps(bar, division) # 0)'
  BY DEF LedgerInv
<1> QED
  BY <1>2, <1>3, <1>4, <1>5 DEF LedgerInv, LedgerIsConsistent

(* RefreshSlotSummary ends every call, so it is enough that the notes are on the grid. *)
LEMMA SummarizedIsOK ==
  ASSUME NEW s \in Slot, \A p \in Positions : IsStart(s, p) => OnGrid(p)
  PROVE  BarOK(Summarized(s))
  BY SummarizedBar DEF BarOK, IsStart

(* SetStepLedgerSlot, on a step of the grid. *)
LEMMA WriteIsOK ==
  ASSUME LedgerInv, NEW b \in Bars, NEW i \in Nat, i < Steps(bar, division),
         NEW notes \in LedgerSlot
  PROVE  BarOK(WithSlot(slot[b], i * Stride(division), notes, Stride(division)))
<1> DEFINE s == slot[b]
           p == i * Stride(division)
           k == Stride(division)
           n == IF ~IsStart(s, p) /\ notes # {} THEN k ELSE s.length[p]
           lanes == LaneByte(s, p, notes)
           t == [s EXCEPT !.ledger[p] = notes, !.lane[p] = lanes, !.length[p] = n]
<1>1. s \in Slot /\ BarOK(s) /\ p \in Positions /\ OnGrid(p) /\ k \in 1 .. LedgerMax
  BY BarsAreOK
<1>2. lanes \in [Lanes -> Lanes]
  BY <1>1, LaneByteIsLanes
<1>3. n \in 1 .. LedgerMax
  BY <1>1 DEF Slot
<1>4. WithSlot(s, p, notes, k) = Summarized(t)
  BY DEF WithSlot
<1> HIDE DEF s, p, k, n, lanes
<1>5. t \in Slot
  BY <1>1, <1>2, <1>3 DEF Slot
<1>6. \A q \in Positions : IsStart(t, q) => OnGrid(q)
  BY <1>1 DEF Slot, BarOK, IsStart
<1> HIDE DEF t
<1>7. BarOK(WithSlot(s, p, notes, k))
  BY <1>4, <1>5, <1>6, SummarizedIsOK
<1> QED
  BY <1>7 DEF s, p, k

(* SetStepEventLength: the length stored fits its field. *)
LEMMA LengthIsOK ==
  ASSUME LedgerInv, NEW b \in Bars, NEW i \in Nat, NEW k \in Int, SetStepEventLength(b, i, k)
  PROVE  LedgerInv'
<1> DEFINE p == i * Stride(division)
           m == MaxLength(slot[b], p, bar)
           grid == Clamp(k, 1, GridMaxLength(slot[b], i))
           w == grid * Stride(division)
           n == Clamp(w, 1, m)
           t == [slot[b] EXCEPT !.length[p] = n]
<1>1. /\ i < Steps(bar, division)
      /\ slot' = [slot EXCEPT ![b] = t]
      /\ UNCHANGED <<division, bar>>
  BY BarsAreOK DEF SetStepEventLength
<1>2. /\ BarOK(slot[b]) /\ p \in Positions /\ p < bar /\ p \in Nat
      /\ bar \in 1 .. LedgerMax /\ LedgerMax \in Nat /\ Stride(division) \in 1 .. 8
  BY <1>1, BarsAreOK DEF Positions
<1> HIDE DEF p
<1>3. m \in 1 .. LedgerMax
  <2>1. /\ NextStart(slot[b], p, bar) \in p + 1 .. bar
        /\ m = NextStart(slot[b], p, bar) - p
    BY <1>2, NextStartInBar
  <2> QED
    BY <1>2, <2>1
<1>4. GridMaxLength(slot[b], i) \in Int /\ 1 <= GridMaxLength(slot[b], i)
  <2>1. m \div Stride(division) \in Int
    BY <1>2, <1>3
  <2> QED
    BY <2>1 DEF GridMaxLength, AtLeastOne, p
<1>5. grid \in Int
  BY <1>4 DEF Clamp
<1> HIDE DEF grid, m
<1>6. w \in Int
  BY <1>2, <1>5
<1> HIDE DEF w
<1>7. n \in 1 .. LedgerMax
  BY <1>2, <1>3, <1>6 DEF Clamp
<1> HIDE DEF n
<1>8. /\ t \in Slot /\ t.ledger = slot[b].ledger /\ t.skip = slot[b].skip
      /\ t.mask = slot[b].mask /\ t.type = slot[b].type
  BY <1>2, <1>7 DEF Slot, BarOK
<1> DEFINE s == slot[b]
           mask == UNION {PitchClasses(s.ledger[q]) : q \in Positions}
           type == IF s.skip THEN "Skip" ELSE IF mask # {} THEN "Chord" ELSE "Empty"
<1> HIDE DEF t, s
<1>9. t = Summarized(t)
  <2>1. s = [s EXCEPT !.mask = mask, !.type = type]
    BY <1>2 DEF BarOK, Summarized, s
  <2>2. Summarized(t) = [t EXCEPT !.mask = mask, !.type = type]
    BY <1>8 DEF Summarized, s
  <2> HIDE DEF mask, type
  <2>3. t.mask = mask /\ t.type = type
    <3>1. s \in Slot
      BY <1>2 DEF s, BarOK
    <3>2. s.mask = mask /\ s.type = type
      BY <2>1, <3>1 DEF Slot
    <3> QED
      BY <3>2, <1>8 DEF s
  <2> QED
    BY <2>2, <2>3, <1>8 DEF Slot
<1>10. BarOK(t)
  BY <1>2, <1>8, <1>9 DEF BarOK, IsStart
<1> QED
  BY <1>1, <1>10, BarReplaced

(* The lowest notes of a chord are a position's worth of notes. *)
LEMMA LowestNotes ==
  ASSUME NEW chord \in SUBSET (0 .. 11)
  PROVE  {BaseNote + c : c \in Least(chord, MaxVoices)} \in LedgerSlot
<1> DEFINE L == Least(chord, MaxVoices)
           f == [c \in L |-> BaseNote + c]
           notes == {BaseNote + c : c \in L}
<1>0. 0 \in Int /\ 11 \in Int
  OBVIOUS
<1>1. IsFiniteSet(chord) /\ chord \in SUBSET Int
  <2>1. IsFiniteSet(0 .. 11)
    BY <1>0, FS_Interval
  <2>2. IsFiniteSet(chord)
    BY <2>1, FS_Subset
  <2>3. chord \in SUBSET Int
    OBVIOUS
  <2> QED
    BY <2>2, <2>3
<1>2. L \in SUBSET chord /\ IsFiniteSet(L) /\ L \in SUBSET Int
  BY <1>1, FS_Subset DEF Least
<1>3. Cardinality(L) \in Nat /\ Cardinality(L) <= MaxVoices
  <2> DEFINE g == [c \in L |-> Rank(chord, c)]
  <2>0. 0 \in Int /\ 3 \in Int
    OBVIOUS
  <2>1. IsFiniteSet(0 .. 3) /\ Cardinality(0 .. 3) = IF 0 > 3 THEN 0 ELSE 3 - 0 + 1
    BY <2>0, FS_Interval
  <2>2. \A c \in L : Rank(chord, c) \in 0 .. Cardinality(chord) - 1 /\ Rank(chord, c) < 4
    BY <1>1, <1>2, RankInRange DEF Least, MaxVoices
  <2>3. Cardinality(chord) \in Nat
    BY <1>1, FS_CardinalityType
  <2>4. g \in [L -> 0 .. 3]
    BY <2>2, <2>3
  <2>5. \A x, y \in L : g[x] = g[y] => x = y
    BY <1>1, <1>2, RankIsUnique
  <2>6. g \in Injection(L, 0 .. 3)
    BY <2>4, <2>5 DEF Injection, IsInjective
  <2>7. Cardinality(L) <= Cardinality(0 .. 3)
    BY <2>1, <2>6, FS_Injection
  <2> QED
    BY <2>1, <2>7, <1>2, FS_CardinalityType DEF MaxVoices
<1>4. f \in Surjection(L, notes)
  BY DEF Surjection
<1>5. Cardinality(notes) <= Cardinality(L) /\ IsFiniteSet(notes)
  BY <1>2, <1>4, FS_Surjection
<1>6. Cardinality(notes) \in Nat
  BY <1>5, FS_CardinalityType
<1>7. notes \in SUBSET (0 .. 127)
  BY <1>2 DEF BaseNote
<1> QED
  BY <1>3, <1>5, <1>6, <1>7 DEF LedgerSlot, MaxVoices

(* No notes are notes of a position. *)
LEMMA NoNotes == {} \in LedgerSlot
  BY FS_EmptySet DEF LedgerSlot, MaxVoices

(* SetStepChordParams: the chord starts at the beginning of the bar, on any grid. *)
LEMMA ChordIsOK ==
  ASSUME LedgerInv, NEW b \in Bars, NEW chord \in SUBSET (0 .. 11)
  PROVE  BarOK(WithChord(slot[b], chord))
<1> DEFINE s == slot[b]
           notes == {BaseNote + c : c \in Least(chord, MaxVoices)}
           l == [p \in Positions |-> IF p = 0 THEN notes ELSE {}]
           t == [s EXCEPT !.ledger = l, !.length[0] = 2]
<1>1. s \in Slot /\ LedgerMax \in Nat /\ LedgerMax >= 2
  BY BarsAreOK, LedgerAssumption DEF BarOK
<1>2. l \in [Positions -> LedgerSlot]
  BY LowestNotes, NoNotes
<1>3. WithChord(s, chord) = Summarized(t)
  BY DEF WithChord
<1>4. \A p \in Positions : p # 0 => l[p] = {}
  OBVIOUS
<1>5. OnGrid(0)
  BY BarsAreOK DEF OnGrid
<1> HIDE DEF s, notes, l
<1>6. t \in Slot /\ t.ledger = l
  <2>0. s.length \in [Positions -> 1 .. LedgerMax] /\ 2 \in 1 .. LedgerMax
    BY <1>1 DEF Slot
  <2>1. [s.length EXCEPT ![0] = 2] \in [Positions -> 1 .. LedgerMax]
    BY <2>0
  <2> QED
    BY <1>1, <1>2, <2>1 DEF Slot
<1> HIDE DEF t
<1>7. \A q \in Positions : IsStart(t, q) => OnGrid(q)
  BY <1>4, <1>5, <1>6 DEF IsStart
<1>8. BarOK(WithChord(s, chord))
  BY <1>3, <1>6, <1>7, SummarizedIsOK
<1> QED
  BY <1>8 DEF s

(* SetStepChordParams with no chord. *)
LEMMA NoChordIsOK ==
  ASSUME LedgerInv, NEW b \in Bars
  PROVE  BarOK(WithoutNotes(slot[b]))
<1> DEFINE s == slot[b]
           l == [p \in Positions |-> {}]
           t == [s EXCEPT !.ledger = l]
<1>1. s \in Slot
  BY BarsAreOK
<1>2. l \in [Positions -> LedgerSlot]
  BY NoNotes
<1>3. WithoutNotes(s) = Summarized(t)
  BY DEF WithoutNotes
<1>4. \A p \in Positions : l[p] = {}
  OBVIOUS
<1> HIDE DEF s, l
<1>5. t \in Slot /\ t.ledger = l
  BY <1>1, <1>2 DEF Slot
<1> HIDE DEF t
<1>6. BarOK(WithoutNotes(s))
  BY <1>3, <1>4, <1>5, SummarizedIsOK DEF IsStart
<1> QED
  BY <1>6 DEF s

(* SetStepBarState: a bar that is skipped keeps its notes. *)
LEMMA BarStateIsOK ==
  ASSUME LedgerInv, NEW b \in Bars, NEW skip \in BOOLEAN
  PROVE  BarOK(Summarized([slot[b] EXCEPT !.skip = skip]))
<1> DEFINE s == slot[b]
           t == [s EXCEPT !.skip = skip]
<1>1. s \in Slot /\ BarOK(s)
  BY BarsAreOK
<1> HIDE DEF s
<1>2. t \in Slot /\ t.ledger = s.ledger
  BY <1>1 DEF Slot
<1> HIDE DEF t
<1>3. BarOK(Summarized(t))
  BY <1>1, <1>2, SummarizedIsOK DEF BarOK, IsStart
<1> QED
  BY <1>3 DEF s, t

(* A change of the grid leaves no event off it: a finer grid has all positions of the
   old one, and a coarser one is refused. *)
LEMMA TimingIsOK ==
  ASSUME LedgerInv, NEW d \in Divisions, NEW n \in BarLengths, SetPatternTiming(d, n)
  PROVE  LedgerInv'
<1>1. /\ slot \in [Bars -> Slot] /\ \A b \in Bars : BarOK(slot[b])
      /\ division \in Divisions
  BY BarsAreOK
<1>2. /\ Steps(n, d) # 0 /\ Fits(d) /\ division' = d /\ bar' = n
      /\ slot' = [b \in Bars |-> Summarized(slot[b])]
  BY DEF SetPatternTiming
<1>3. slot' = slot
  BY <1>1, <1>2 DEF BarOK
<1>4. ASSUME NEW b \in Bars, NEW p \in Positions, IsStart(slot[b], p)
      PROVE  p % Stride(d) = 0
  <2>1. p \in Nat /\ Stride(d) \in Int /\ Stride(division) \in Int
    BY <1>1, Strides DEF Positions
  <2>2. CASE Stride(d) > Stride(division)
    BY <1>2, <1>4, <2>2 DEF Fits, Compatible
  <2>3. CASE Stride(d) <= Stride(division)
    <3>1. p % Stride(division) = 0
      BY <1>1, <1>4 DEF BarOK, OnGrid
    <3> QED
      BY <1>1, <2>1, <2>3, <3>1, FinerGrid
  <2> QED
    BY <2>1, <2>2, <2>3
<1>5. EventsOnGrid'
  BY <1>2, <1>3, <1>4 DEF EventsOnGrid, OnGrid
<1>6. SummaryIsTrue'
  BY <1>3 DEF LedgerInv, LedgerIsConsistent, SummaryIsTrue
<1>7. LedgerTypeOK'
  BY <1>1, <1>2, <1>3 DEF LedgerTypeOK
<1> QED
  BY <1>2, <1>5, <1>6, <1>7 DEF LedgerInv, LedgerIsConsistent

-----------------------------------------------------------------------------
(* The ledger by itself *)

(* An imported pattern is consistent. *)
LEMMA LedgerInitInv == LedgerInit => LedgerInv
<1> SUFFICES ASSUME LedgerInit PROVE LedgerInv
  OBVIOUS
<1>1. \A b \in Bars : slot[b] \in Slot /\ slot[b] = Summarized(slot[b])
  BY LedgerAssumption DEF LedgerInit
<1> QED
  BY <1>1 DEF LedgerInit, LedgerInv, LedgerIsConsistent, LedgerTypeOK, EventsOnGrid,
              SummaryIsTrue

(* The calls of the device one by one. *)
LEMMA SetStepLedgerSlotInv ==
  ASSUME LedgerInv, NEW b \in Bars, NEW i \in Nat, NEW notes \in LedgerSlot,
         SetStepLedgerSlot(b, i, notes)
  PROVE  LedgerInv'
<1> DEFINE t == WithSlot(slot[b], i * Stride(division), notes, Stride(division))
<1>1. /\ i < Steps(bar, division) /\ slot' = [slot EXCEPT ![b] = t]
      /\ UNCHANGED <<division, bar>>
  BY BarsAreOK DEF SetStepLedgerSlot
<1>2. BarOK(t)
  BY <1>1, WriteIsOK
<1> QED
  BY <1>1, <1>2, BarReplaced

(* A chord keeps the ledger consistent. *)
LEMMA SetStepChordInv ==
  ASSUME LedgerInv, NEW b \in Bars, NEW chord \in SUBSET (0 .. 11), SetStepChord(b, chord)
  PROVE  LedgerInv'
  BY ChordIsOK, BarReplaced, BarsAreOK DEF SetStepChord

(* So does taking it away. *)
LEMMA SetStepNoChordInv ==
  ASSUME LedgerInv, NEW b \in Bars, SetStepNoChord(b)
  PROVE  LedgerInv'
  BY NoChordIsOK, BarReplaced, BarsAreOK DEF SetStepNoChord

(* So does skipping a bar. *)
LEMMA SetStepBarStateInv ==
  ASSUME LedgerInv, NEW b \in Bars, NEW skip \in BOOLEAN, SetStepBarState(b, skip)
  PROVE  LedgerInv'
  BY BarStateIsOK, BarReplaced, BarsAreOK DEF SetStepBarState

(* Every call of the device keeps the ledger consistent. *)
LEMMA LedgerStep == LedgerInv /\ [LedgerNext]_ledgerVars => LedgerInv'
<1> SUFFICES ASSUME LedgerInv, [LedgerNext]_ledgerVars PROVE LedgerInv'
  OBVIOUS
<1>0. Inputs \subseteq LedgerSlot /\ Chords \subseteq SUBSET (0 .. 11) /\ Positions \subseteq Nat
  BY LedgerAssumption DEF Positions
<1>1. ASSUME NEW b \in Bars, NEW i \in Positions, NEW notes \in Inputs,
             SetStepLedgerSlot(b, i, notes)
      PROVE  LedgerInv'
  BY <1>0, <1>1, SetStepLedgerSlotInv
<1>2. ASSUME NEW b \in Bars, NEW i \in Positions, NEW k \in 0 .. LedgerMax,
             SetStepEventLength(b, i, k)
      PROVE  LedgerInv'
  <2>1. i \in Nat /\ k \in Int
    BY <1>0
  <2> QED
    BY <1>2, <2>1, LengthIsOK
<1>3. ASSUME NEW b \in Bars, NEW chord \in Chords, SetStepChord(b, chord)
      PROVE  LedgerInv'
  BY <1>0, <1>3, SetStepChordInv
<1>4. ASSUME NEW b \in Bars, SetStepNoChord(b)
      PROVE  LedgerInv'
  BY <1>4, SetStepNoChordInv
<1>5. ASSUME NEW b \in Bars, NEW skip \in BOOLEAN, SetStepBarState(b, skip)
      PROVE  LedgerInv'
  BY <1>5, SetStepBarStateInv
<1>6. ASSUME NEW d \in Divisions, NEW n \in BarLengths, SetPatternTiming(d, n)
      PROVE  LedgerInv'
  BY <1>6, TimingIsOK
<1>7. CASE UNCHANGED ledgerVars
  BY <1>7 DEF ledgerVars, LedgerInv, LedgerIsConsistent, LedgerTypeOK, EventsOnGrid,
              SummaryIsTrue, OnGrid
<1> QED
  BY <1>1, <1>2, <1>3, <1>4, <1>5, <1>6, <1>7 DEF LedgerNext

(* Whatever sequence of calls edits a pattern, its bars stay well formed, no event is
   left off the grid and no summary falls behind the notes: the calls of
   SequencerDevice, for any time signatures and notes. *)
THEOREM LedgerStaysConsistent == LedgerSpec => []LedgerIsConsistent
<1>1. LedgerInv => LedgerIsConsistent
  BY DEF LedgerInv
<1> QED
  BY <1>1, LedgerInitInv, LedgerStep, PTL DEF LedgerSpec

-----------------------------------------------------------------------------
(* The ledger under the bar editor, which also writes it in loops of calls *)

BridgeCalls == [bar: Bars, column: Nat, notes: LedgerSlot]
DraftCalls == Bars \X (Chords \cup {{}})

(* Every call that is still to be made, and every column that a call may be made of,
   is one the bridge accepts. *)
TouchedOK ==
  /\ touched = [b \in Bars |-> touched[b]]
  /\ \A b \in Bars : touched[b].held =>
       \A i \in Positions : touched[b].column[i] \in LedgerSlot

EditorInv ==
  /\ LedgerInv
  /\ editing \in Bars \cup {0} /\ cursor \in Nat /\ pending \in Int
  /\ TouchedOK
  /\ calls \in Seq(BridgeCalls) /\ stores \in Seq(DraftCalls)
  /\ calls = <<>> \/ stores = <<>>

(* A column the editor reads holds notes of a position, or none outside the bar. *)
LEMMA ColumnIsNotes ==
  ASSUME LedgerInv, NEW b \in Bars, NEW i \in Nat
  PROVE  Column(b, i) \in LedgerSlot
  BY BarsAreOK, NoNotes DEF Column, Slot

(* A mark keeps columns that can be written back. *)
LEMMA TouchIsOK ==
  ASSUME LedgerInv, TouchedOK, NEW b \in Bars, touched' = Touch(b)
  PROVE  TouchedOK'
<1>1. Positions \subseteq Nat
  BY DEF Positions
<1>2. \A i \in Positions : Held(b).column[i] \in LedgerSlot
  BY <1>1, ColumnIsNotes DEF Held
<1>3. CASE touched[b].held
  BY <1>3 DEF TouchedOK, Touch
<1>4. CASE ~ touched[b].held
  <2>1. touched' = [touched EXCEPT ![b] = Held(b)]
    BY <1>4 DEF Touch
  <2>2. touched' = [c \in Bars |-> touched'[c]]
    BY <2>1 DEF TouchedOK
  <2>3. \A c \in Bars : touched'[c] = IF c = b THEN Held(b) ELSE touched[c]
    BY <2>1 DEF TouchedOK
  <2> HIDE DEF Held
  <2> QED
    BY <1>2, <2>2, <2>3 DEF TouchedOK
<1> QED
  BY <1>3, <1>4

(* A call of the bridge, inside the bar or outside, keeps the ledger consistent. *)
LEMMA WriteInv ==
  ASSUME LedgerInv, NEW b \in Bars, NEW i \in Nat, NEW notes \in LedgerSlot,
         Write(b, i, notes)
  PROVE  LedgerInv'
<1>1. CASE i < Steps(bar, division)
  BY <1>1, SetStepLedgerSlotInv DEF Write
<1>2. CASE ~ (i < Steps(bar, division))
  <2>1. UNCHANGED ledgerVars
    BY <1>2 DEF Write
  <2> QED
    BY <2>1, LedgerStep
<1> QED
  BY <1>1, <1>2

(* A toggled note makes no more voices than a position holds. *)
LEMMA ToggledIsNotes ==
  ASSUME NEW notes \in LedgerSlot, NEW x \in 0 .. 127
  PROVE  Toggled(notes, x) \in LedgerSlot
<1>1. IsFiniteSet(notes) /\ Cardinality(notes) \in Nat /\ Cardinality(notes) <= 4
        /\ notes \in SUBSET (0 .. 127)
  BY VoicesAreFew DEF LedgerSlot
<1>2. CASE x \in notes
  <2>1. notes \ {x} \in SUBSET notes
    OBVIOUS
  <2>2. IsFiniteSet(notes \ {x}) /\ Cardinality(notes \ {x}) <= Cardinality(notes)
    BY <1>1, <2>1, FS_Subset
  <2>3. Cardinality(notes \ {x}) \in Nat
    BY <2>2, FS_CardinalityType
  <2>4. notes \ {x} \in SUBSET (0 .. 127)
    BY <1>1
  <2>5. Cardinality(notes \ {x}) <= 4
    BY <1>1, <2>2, <2>3
  <2> QED
    BY <1>2, <2>4, <2>5 DEF Toggled, LedgerSlot, MaxVoices
<1>3. CASE x \notin notes /\ Cardinality(notes) < MaxVoices
  <2>1. Cardinality(notes \cup {x}) = Cardinality(notes) + 1
    BY <1>1, <1>3, FS_AddElement
  <2>2. notes \cup {x} \in SUBSET (0 .. 127)
    BY <1>1
  <2> QED
    BY <1>1, <1>3, <2>1, <2>2 DEF Toggled, LedgerSlot, MaxVoices
<1>4. CASE x \notin notes /\ ~ (Cardinality(notes) < MaxVoices)
  BY <1>4 DEF Toggled
<1> QED
  BY <1>2, <1>3, <1>4

(* A grid of 4, 8, 16 or 32 columns is wide enough for every bar. *)
LEMMA ColumnsAreMany ==
  ASSUME LedgerInv
  PROVE  Columns \in {4, 8, 16, 32}
<1> DEFINE S == {k \in {4, 8, 16, 32} : Steps(bar, division) <= k}
<1>1. Steps(bar, division) <= 32
  <2>1. bar \in Nat /\ bar <= 32 /\ division \in Divisions
    BY BarsAreOK, EditorAssumption
  <2> QED
    BY <2>1 DEF Steps, Divisions
<1>2. S \in SUBSET Nat /\ 32 \in S
  BY <1>1
<1>3. PICK x \in S : \A y \in S : x <= y
  BY <1>2, LeastExists
<1>4. MinOf(S) \in S
  BY <1>3 DEF MinOf
<1> QED
  BY <1>4 DEF Columns

(* The columns of every bar that was touched, in calls the bridge accepts. *)
LEMMA RestoreCallsAreCalls ==
  ASSUME LedgerInv, TouchedOK
  PROVE  RestoreCalls \in Seq(BridgeCalls)
<1> DEFINE held == {b \in Bars : touched[b].held}
           n == Steps(bar, division)
           bb(k) == NthLeast(held, (k - 1) \div n)
           ii(k) == (k - 1) % n
           cc(k) == Call(bb(k), ii(k), touched[bb(k)].column[ii(k)])
           N == Cardinality(held) * n
<1>1. n \in Nat \ {0} /\ n <= LedgerMax /\ LedgerMax \in Nat
  <2>1. bar \in 1 .. LedgerMax /\ division \in Divisions /\ LedgerMax \in Nat
    BY BarsAreOK
  <2> QED
    BY <2>1, BarsAreOK DEF Steps, Divisions, LedgerInv
<1>2. IsFiniteSet(held) /\ held \in SUBSET Bars /\ held \in SUBSET Int
  <2>1. held \in SUBSET Bars
    OBVIOUS
  <2>2. IsFiniteSet(held)
    BY <2>1, EditorAssumption, FS_Subset
  <2>3. \A b \in Bars : b \in Int
    BY EditorAssumption
  <2> HIDE DEF held
  <2> QED
    BY <2>1, <2>2, <2>3
<1>3. Cardinality(held) \in Nat
  BY <1>2, FS_CardinalityType
<1> HIDE DEF n, held
<1>4. N \in Nat
  BY <1>1, <1>3
<1>5. ASSUME NEW k \in 1 .. N
      PROVE  cc(k) \in BridgeCalls
  <2>1. (k - 1) \div n \in 0 .. Cardinality(held) - 1 /\ ii(k) \in 0 .. n - 1
    <3>1. k - 1 \in Nat /\ k - 1 < Cardinality(held) * n
      BY <1>4
    <3> QED
      BY <1>1, <1>3, <3>1
  <2>2. bb(k) \in held
    BY <1>2, <2>1, NthLeastExists
  <2>3. ii(k) \in Positions /\ ii(k) \in Nat
    BY <1>1, <2>1 DEF Positions
  <2> HIDE DEF bb, ii
  <2>4. touched[bb(k)].column[ii(k)] \in LedgerSlot
    BY <2>2, <2>3 DEF held, TouchedOK
  <2> QED
    BY <1>2, <2>2, <2>3, <2>4 DEF BridgeCalls, Call
<1>6. RestoreCalls = [k \in 1 .. N |-> cc(k)]
  BY DEF RestoreCalls, n, held
<1> HIDE DEF cc, N
<1>7. [k \in 1 .. N |-> cc(k)] \in Seq(BridgeCalls)
  BY <1>4, <1>5
<1> QED
  BY <1>6, <1>7

(* The drafts of all bars are chords the device has. *)
LEMMA DraftsAreStores ==
  ASSUME NEW draft \in Drafts
  PROVE  [k \in 1 .. Cardinality(Bars) |->
            LET b == NthLeast(Bars, k - 1) IN <<b, draft[b]>>] \in Seq(DraftCalls)
<1> DEFINE N == Cardinality(Bars)
           bb(k) == NthLeast(Bars, k - 1)
<1>1. Bars \in SUBSET Int /\ IsFiniteSet(Bars) /\ N \in Nat
  BY EditorAssumption, FS_CardinalityType
<1>2. ASSUME NEW k \in 1 .. N
      PROVE  <<bb(k), draft[bb(k)]>> \in DraftCalls
  <2>1. k - 1 \in 0 .. N - 1
    BY <1>1
  <2>2. bb(k) \in Bars
    BY <1>1, <2>1, NthLeastExists
  <2> HIDE DEF bb
  <2> QED
    BY <2>2 DEF DraftCalls, Drafts
<1> HIDE DEF N, bb
<1>3. [k \in 1 .. N |-> <<bb(k), draft[bb(k)]>>] \in Seq(DraftCalls)
  BY <1>1, <1>2
<1> QED
  BY <1>3 DEF N, bb

(* A chord that replaces a bar, or clears it, keeps the ledger consistent, and the
   other bars as they are. *)
LEMMA StoreChordInv ==
  ASSUME LedgerInv, NEW b \in Bars, NEW chord \in Chords \cup {{}}, StoreChord(b, chord)
  PROVE  LedgerInv' /\ \A c \in Bars \ {b} : slot'[c] = slot[c]
<1>1. chord \in SUBSET (0 .. 11) /\ slot \in [Bars -> Slot]
  BY LedgerAssumption, BarsAreOK
<1>2. LedgerInv'
  BY <1>1, SetStepChordInv, SetStepNoChordInv DEF StoreChord
<1>3. \E s : slot' = [slot EXCEPT ![b] = s]
  BY DEF StoreChord, SetStepChord, SetStepNoChord
<1> QED
  BY <1>1, <1>2, <1>3

(* In length mode the number shown is one. *)
LEMMA LengthsAreNumbers ==
  ASSUME LedgerInv, NEW b \in Bars, NEW i \in Nat
  PROVE  /\ GridLength(slot[b], i) \in Int
         /\ GridMaxLength(slot[b], i) \in Int
<1> DEFINE p == i * Stride(division)
<1>1. /\ p \in Nat /\ bar \in Nat /\ LedgerMax \in Nat
      /\ Stride(division) \in 1 .. 8 /\ slot[b] \in Slot
      /\ i < Steps(bar, division) => p \in Positions
  BY BarsAreOK
<1> HIDE DEF p
<1>2. MaxLength(slot[b], p, bar) \in Int
  BY <1>1, MaxLengthIsNumber
<1>3. i < Steps(bar, division) => EventLength(slot[b], p, bar) \in Int
  BY <1>1, <1>2 DEF EventLength, Slot
<1>4. /\ MaxLength(slot[b], p, bar) \div Stride(division) \in Int
      /\ i < Steps(bar, division) => EventLength(slot[b], p, bar) \div Stride(division) \in Int
  BY <1>1, <1>2, <1>3
<1> QED
  BY <1>4 DEF GridLength, GridMaxLength, AtLeastOne, p

(* The editor starts closed, over a consistent pattern. *)
LEMMA EditorInitInv == Init => EditorInv
<1> SUFFICES ASSUME Init PROVE EditorInv
  OBVIOUS
<1>1. LedgerInv
  BY LedgerInitInv DEF Init
<1>2. TouchedOK
  BY DEF Init, TouchedOK, Untouched
<1> QED
  BY <1>1, <1>2 DEF Init, EditorInv

(* Marks left alone stay usable. *)
LEMMA TouchedIsUnchanged ==
  ASSUME TouchedOK, UNCHANGED touched
  PROVE  TouchedOK'
  BY DEF TouchedOK

(* A new session has no marks. *)
LEMMA UntouchedIsOK ==
  ASSUME touched' = Untouched
  PROVE  TouchedOK'
  BY DEF TouchedOK, Untouched

(* Every input of the editor, and every call of a loop, keeps the invariant. *)
LEMMA EditorStep == EditorInv /\ [Next]_vars => EditorInv'
<1> SUFFICES ASSUME EditorInv, [Next]_vars PROVE EditorInv'
  OBVIOUS
<1> USE DEF EditorInv
<1>0. /\ LedgerInv /\ TouchedOK /\ cursor \in Nat /\ pending \in Int
      /\ calls \in Seq(BridgeCalls) /\ stores \in Seq(DraftCalls)
      /\ calls = <<>> \/ stores = <<>>
      /\ editing \in Bars \cup {0}
      /\ Bars \subseteq Nat \ {0} /\ Pitches \subseteq 0 .. 127
      /\ Inputs \subseteq LedgerSlot /\ Chords \subseteq SUBSET (0 .. 11)
  BY LedgerAssumption, EditorAssumption
<1>1. Editing => editing \in Bars
  BY <1>0 DEF Editing
<1>2. UNCHANGED ledgerVars => LedgerInv'
  BY <1>0, LedgerStep
<1>3. UNCHANGED touched => TouchedOK'
  BY <1>0, TouchedIsUnchanged
<1>4. ASSUME NEW b \in Bars, Enter(b)
      PROVE  EditorInv'
  BY <1>0, <1>2, <1>4, UntouchedIsOK DEF Enter
<1>5. CASE NextPosition
  <2>1. Columns \in {4, 8, 16, 32}
    BY <1>0, ColumnsAreMany
  <2>2. (cursor + 1) % Columns \in Nat
    BY <1>0, <2>1
  <2> QED
    BY <1>0, <1>2, <1>3, <1>5, <2>2 DEF NextPosition
<1>6. CASE LeaveAndKeep
  BY <1>0, <1>2, <1>6, UntouchedIsOK DEF LeaveAndKeep
<1>7. ASSUME NEW x \in Pitches, ToggleNote(x)
      PROVE  EditorInv'
  <2>1. editing \in Bars /\ x \in 0 .. 127
    BY <1>0, <1>1, <1>7 DEF ToggleNote
  <2>2. Toggled(Column(editing, cursor), x) \in LedgerSlot
    BY <1>0, <2>1, ColumnIsNotes, ToggledIsNotes
  <2>3. LedgerInv'
    BY <1>0, <1>7, <2>1, <2>2, WriteInv DEF ToggleNote
  <2>4. TouchedOK'
    BY <1>0, <1>7, <2>1, TouchIsOK DEF ToggleNote
  <2> QED
    BY <1>0, <1>7, <2>3, <2>4 DEF ToggleNote
<1>8. ASSUME NEW notes \in Inputs, PlaceChord(notes)
      PROVE  EditorInv'
  <2>1. editing \in Bars /\ notes \in LedgerSlot
    BY <1>0, <1>1, <1>8 DEF PlaceChord
  <2>2. LedgerInv'
    BY <1>0, <1>8, <2>1, WriteInv DEF PlaceChord
  <2> QED
    BY <1>0, <1>3, <1>8, <2>2 DEF PlaceChord
<1>9. CASE BeginLength
  <2>1. GridLength(slot[editing], cursor) \in Int
    BY <1>0, <1>1, <1>9, LengthsAreNumbers DEF BeginLength
  <2> QED
    BY <1>0, <1>2, <1>3, <1>9, <2>1 DEF BeginLength
<1>10. ASSUME NEW turn \in {-1, 1}, ChangeLength(turn)
       PROVE  EditorInv'
  <2>1. GridMaxLength(slot[editing], cursor) \in Int
    BY <1>0, <1>1, <1>10, LengthsAreNumbers DEF ChangeLength
  <2>2. pending' \in Int
    BY <1>0, <1>10, <2>1 DEF ChangeLength, Clamp
  <2> QED
    BY <1>0, <1>2, <1>3, <1>10, <2>2 DEF ChangeLength
<1>11. CASE EndLength
  <2>1. LedgerInv'
    BY <1>0, <1>1, <1>11, LengthIsOK DEF EndLength
  <2> QED
    BY <1>0, <1>3, <1>11, <2>1 DEF EndLength
<1>12. CASE ToggleBarSkip
  <2>1. slot[editing].skip \in BOOLEAN
    BY <1>0, <1>1, <1>12, BarsAreOK DEF ToggleBarSkip, Slot
  <2>2. (~ slot[editing].skip) \in BOOLEAN
    BY <2>1
  <2>3. LedgerInv'
    BY <1>0, <1>1, <1>12, <2>2, SetStepBarStateInv DEF ToggleBarSkip
  <2> QED
    BY <1>0, <1>3, <1>12, <2>3 DEF ToggleBarSkip
<1>13. ASSUME NEW d \in Divisions, NEW n \in BarLengths, ChangeTiming(d, n)
       PROVE  EditorInv'
  <2>1. LedgerInv'
    BY <1>0, <1>13, TimingIsOK DEF ChangeTiming
  <2>2. (LedgerInv => Columns \in {4, 8, 16, 32})'
    BY ColumnsAreMany, PTL
  <2>3. cursor' \in Nat
    <3>1. Columns' \in {4, 8, 16, 32}
      BY <2>1, <2>2
    <3>2. PICK m \in {4, 8, 16, 32} : cursor' = Clamp(cursor, 0, m - 1)
      BY <1>13, <3>1 DEF ChangeTiming
    <3>3. Clamp(cursor, 0, m - 1) \in Nat
      BY <1>0 DEF Clamp
    <3> QED
      BY <3>2, <3>3
  <2> QED
    BY <1>0, <1>3, <1>13, <2>1, <2>3 DEF ChangeTiming
<1>14. ASSUME NEW b \in Bars, NEW chord \in Chords \cup {{}}, ReplaceBar(b, chord)
       PROVE  EditorInv'
  <2>1. LedgerInv'
    BY <1>0, <1>14, StoreChordInv DEF ReplaceBar
  <2> QED
    BY <1>0, <1>14, <2>1, UntouchedIsOK DEF ReplaceBar
<1>15. CASE ClearBar
  <2>1. editing \in Bars
    BY <1>1, <1>15 DEF ClearBar
  <2>2. TouchedOK'
    BY <1>0, <1>15, <2>1, TouchIsOK DEF ClearBar
  <2>3. Columns \in {4, 8, 16, 32}
    BY <1>0, ColumnsAreMany
  <2>4. \A k \in 1 .. Columns : Call(editing, k - 1, {}) \in BridgeCalls
    BY <2>1, <2>3, NoNotes DEF Call, BridgeCalls
  <2>5. [k \in 1 .. Columns |-> Call(editing, k - 1, {})] \in Seq(BridgeCalls)
    BY <2>3, <2>4
  <2> QED
    BY <1>0, <1>2, <1>15, <2>2, <2>5 DEF ClearBar, Editing, Idle
<1>16. CASE LeaveAndRestore
  BY <1>0, <1>2, <1>3, <1>16, RestoreCallsAreCalls DEF LeaveAndRestore, Editing, Idle
<1>17. CASE BridgeCall
  <2>1. Head(calls) \in BridgeCalls /\ Tail(calls) \in Seq(BridgeCalls)
    BY <1>0, <1>17 DEF BridgeCall
  <2>2. LedgerInv'
    BY <1>0, <1>17, <2>1, WriteInv DEF BridgeCall, BridgeCalls
  <2> QED
    BY <1>0, <1>3, <1>17, <2>1, <2>2 DEF BridgeCall
<1>18. ASSUME NEW draft \in Drafts, CommitFromGrid(draft)
       PROVE  EditorInv'
  <2>1. /\ stores' \in Seq(DraftCalls) /\ calls = <<>>
        /\ UNCHANGED <<ledgerVars, cursor, pending, calls, editing>>
        /\ touched' = Untouched
    BY <1>18, DraftsAreStores DEF CommitFromGrid, CommitChordDraft, Idle
  <2> QED
    BY <1>0, <1>2, <2>1, UntouchedIsOK
<1>19. ASSUME NEW draft \in Drafts, NEW b \in Bars, CommitInSession(draft, b)
       PROVE  EditorInv'
  <2>1. /\ stores' \in Seq(DraftCalls) /\ calls = <<>> /\ editing' = b
        /\ UNCHANGED <<ledgerVars, cursor, pending, calls, touched>>
    BY <1>19, DraftsAreStores DEF CommitInSession, CommitChordDraft, Idle
  <2> QED
    BY <1>0, <1>2, <1>3, <2>1
<1>20. CASE DraftCall
  <2>1. Head(stores) \in DraftCalls /\ Tail(stores) \in Seq(DraftCalls) /\ stores # <<>>
    BY <1>0, <1>20 DEF DraftCall
  <2>2. LedgerInv'
    BY <1>0, <1>20, <2>1, StoreChordInv DEF DraftCall, DraftCalls
  <2> QED
    BY <1>0, <1>3, <1>20, <2>1, <2>2 DEF DraftCall
<1>21. CASE UNCHANGED vars
  BY <1>0, <1>2, <1>3, <1>21 DEF vars, editorVars
<1> QED
  BY <1>4, <1>5, <1>6, <1>7, <1>8, <1>9, <1>10, <1>11, <1>12, <1>13, <1>14, <1>15,
     <1>16, <1>17, <1>18, <1>19, <1>20, <1>21 DEF Next

(* The bar editor never writes the ledger anything that the device calls could not keep
   consistent: neither a single edit nor a loop of calls that is half way through. *)
THEOREM EditorKeepsLedgerConsistent == Spec => []LedgerIsConsistent
<1>1. EditorInv => LedgerIsConsistent
  BY DEF EditorInv, LedgerInv
<1> QED
  BY <1>1, EditorInitInv, EditorStep, PTL DEF Spec

-----------------------------------------------------------------------------
(* Leaving with REC *)

(* The pattern as a session found it. *)
OpenedRecords ==
  [division: Divisions, bar: BarLengths, given: SUBSET Bars,
   ledger: [Bars -> [Positions -> LedgerSlot]]]

(* A bar that is neither marked nor was given a chord unmarked is as it was. *)
UnmarkedAsOpened ==
  \A b \in Bars \ opened.given : ~ touched[b].held => slot[b].ledger = opened.ledger[b]

(* The columns kept of a marked bar are those it had. *)
MarkedAsOpened ==
  \A b \in Bars \ opened.given : touched[b].held =>
    \A i \in Nat : i < Steps(touched[b].bar, touched[b].division) =>
      touched[b].column[i] = opened.ledger[b][i * Stride(touched[b].division)]

(* After REC a column of a marked bar has its notes back, or a call that will give
   them back is still to come; and no other call is. *)
Restoring ==
  /\ \A k \in DOMAIN calls :
       /\ calls[k].column < Steps(bar, division)
       /\ calls[k].notes = touched[calls[k].bar].column[calls[k].column]
  /\ \A b \in Bars : touched[b].held =>
       \A i \in 0 .. Steps(bar, division) - 1 :
         \/ Column(b, i) = touched[b].column[i]
         \/ \E k \in DOMAIN calls : calls[k].bar = b /\ calls[k].column = i

(* What a session of the editor knows of the bars it began with. *)
RecInv ==
  /\ opened \in OpenedRecords \cup {NotOpened}
  /\ editing # 0 => opened # NotOpened
  /\ opened # NotOpened =>
       /\ UnmarkedAsOpened /\ MarkedAsOpened
       /\ \A k \in DOMAIN calls : touched[calls[k].bar].held
       /\ \A k \in DOMAIN stores :
            touched[stores[k][1]].held \/ stores[k][1] \in opened.given
       /\ editing = 0 => (Restoring /\ stores = <<>>)

(* A call of the bridge replaces the notes of one position, or of none. *)
LEMMA WriteLedger ==
  ASSUME LedgerInv, NEW b \in Bars, NEW i \in Nat, NEW notes \in LedgerSlot,
         Write(b, i, notes)
  PROVE  /\ UNCHANGED <<division, bar>>
         /\ \A c \in Bars \ {b} : slot'[c] = slot[c]
         /\ i < Steps(bar, division) =>
              slot'[b].ledger = [slot[b].ledger EXCEPT ![i * Stride(division)] = notes]
         /\ ~ (i < Steps(bar, division)) => slot'[b] = slot[b]
<1>1. CASE i < Steps(bar, division)
  <2> DEFINE s == slot[b]
             p == i * Stride(division)
             k == Stride(division)
             n == IF ~IsStart(s, p) /\ notes # {} THEN k ELSE s.length[p]
             lanes == LaneByte(s, p, notes)
             t == [s EXCEPT !.ledger[p] = notes, !.lane[p] = lanes, !.length[p] = n]
  <2>1. s \in Slot /\ slot \in [Bars -> Slot] /\ p \in Positions /\ k \in 1 .. LedgerMax
    BY <1>1, BarsAreOK
  <2>2. SetStepLedgerSlot(b, i, notes)
    BY <1>1 DEF Write
  <2>3. WithSlot(s, p, notes, k) = Summarized(t)
    BY DEF WithSlot
  <2>4. slot' = [slot EXCEPT ![b] = Summarized(t)] /\ UNCHANGED <<division, bar>>
    BY <2>2, <2>3 DEF SetStepLedgerSlot
  <2>5. lanes \in [Lanes -> Lanes] /\ n \in 1 .. LedgerMax
    BY <2>1, LaneByteIsLanes DEF Slot
  <2> HIDE DEF s, p, k, n, lanes
  <2>6. t \in Slot /\ t.ledger = [s.ledger EXCEPT ![p] = notes]
    BY <2>1, <2>5 DEF Slot
  <2> HIDE DEF t
  <2>7. Summarized(t).ledger = [s.ledger EXCEPT ![p] = notes]
    BY <2>6, SummarizedBar
  <2>8. slot'[b].ledger = [s.ledger EXCEPT ![p] = notes]
    BY <2>1, <2>4, <2>7
  <2> QED
    BY <1>1, <2>1, <2>4, <2>8 DEF s, p
<1>2. CASE ~ (i < Steps(bar, division))
  BY <1>2 DEF Write, ledgerVars
<1> QED
  BY <1>1, <1>2

(* Different columns of a bar are different positions. *)
LEMMA ColumnsDiffer ==
  ASSUME NEW d \in Divisions, NEW i \in Nat, NEW j \in Nat, i # j
  PROVE  i * Stride(d) # j * Stride(d)
<1>1. Stride(d) \in {1, 2, 4, 8}
  BY Strides DEF Divisions
<1> QED
  BY <1>1

(* So it replaces one column. *)
LEMMA WriteColumn ==
  ASSUME LedgerInv, NEW b \in Bars, NEW i \in Nat, NEW notes \in LedgerSlot,
         Write(b, i, notes), NEW c \in Bars, NEW j \in 0 .. Steps(bar, division) - 1
  PROVE  Column(c, j)' = IF c = b /\ j = i THEN notes ELSE Column(c, j)
<1>1. /\ slot \in [Bars -> Slot] /\ division \in Divisions
      /\ Steps(bar, division) \in Nat /\ j \in Nat /\ j < Steps(bar, division)
  BY BarsAreOK
<1>2. /\ Column(c, j) = slot[c].ledger[j * Stride(division)]
      /\ Column(c, j)' = slot'[c].ledger[j * Stride(division)]
  BY <1>1, WriteLedger DEF Column
<1>3. j * Stride(division) \in Positions /\ slot[c].ledger \in [Positions -> LedgerSlot]
  BY <1>1, BarsAreOK DEF Slot
<1>4. CASE c # b
  BY <1>2, <1>4, WriteLedger
<1>5. CASE c = b /\ ~ (i < Steps(bar, division))
  BY <1>1, <1>2, <1>5, WriteLedger
<1>6. CASE c = b /\ i < Steps(bar, division)
  <2>1. slot'[b].ledger = [slot[b].ledger EXCEPT ![i * Stride(division)] = notes]
    BY <1>6, WriteLedger
  <2>2. CASE i = j
    BY <1>2, <1>3, <1>6, <2>1, <2>2
  <2>3. CASE i # j
    <3>1. i * Stride(division) # j * Stride(division)
      BY <1>1, <2>3, ColumnsDiffer
    <3> QED
      BY <1>2, <1>3, <1>6, <2>1, <2>3, <3>1
  <2> QED
    BY <2>2, <2>3
<1> QED
  BY <1>4, <1>5, <1>6

(* The calls that set a length, skip a bar or change the timing leave the notes alone. *)
LEMMA LengthKeepsNotes ==
  ASSUME LedgerInv, NEW b \in Bars, NEW i, NEW k, SetStepEventLength(b, i, k)
  PROVE  \A c \in Bars : slot'[c].ledger = slot[c].ledger
<1>1. slot \in [Bars -> Slot]
  BY BarsAreOK
<1>2. \E q, m : slot' = [slot EXCEPT ![b].length[q] = m]
  BY DEF SetStepEventLength
<1>3. PICK q, m : slot' = [slot EXCEPT ![b].length[q] = m]
  BY <1>2
<1> QED
  BY <1>1, <1>3 DEF Slot

(* Skipping a bar keeps its notes. *)
LEMMA SkipKeepsNotes ==
  ASSUME LedgerInv, NEW b \in Bars, NEW skip \in BOOLEAN, SetStepBarState(b, skip)
  PROVE  \A c \in Bars : slot'[c].ledger = slot[c].ledger
<1> DEFINE t == [slot[b] EXCEPT !.skip = skip]
<1>1. slot \in [Bars -> Slot]
  BY BarsAreOK
<1>2. t \in Slot /\ t.ledger = slot[b].ledger
  BY <1>1 DEF Slot
<1>3. slot' = [slot EXCEPT ![b] = Summarized(t)]
  BY DEF SetStepBarState
<1> HIDE DEF t
<1>4. Summarized(t).ledger = slot[b].ledger
  BY <1>2, SummarizedBar
<1> QED
  BY <1>1, <1>3, <1>4

(* A change of the grid keeps all notes. *)
LEMMA TimingKeepsNotes ==
  ASSUME LedgerInv, NEW d, NEW n, SetPatternTiming(d, n)
  PROVE  \A c \in Bars : slot'[c].ledger = slot[c].ledger
  BY BarsAreOK DEF SetPatternTiming, BarOK

(* The calls that give back what a marked bar held: each of its columns has one. *)
LEMMA RestoreCallsAreComplete ==
  ASSUME LedgerInv, TouchedOK
  PROVE  /\ \A k \in DOMAIN RestoreCalls :
              /\ touched[RestoreCalls[k].bar].held
              /\ RestoreCalls[k].column < Steps(bar, division)
              /\ RestoreCalls[k].notes
                   = touched[RestoreCalls[k].bar].column[RestoreCalls[k].column]
         /\ \A b \in Bars : touched[b].held =>
              \A i \in 0 .. Steps(bar, division) - 1 :
                \E k \in DOMAIN RestoreCalls :
                  RestoreCalls[k].bar = b /\ RestoreCalls[k].column = i
<1> DEFINE held == {b \in Bars : touched[b].held}
           n == Steps(bar, division)
           bb(k) == NthLeast(held, (k - 1) \div n)
           ii(k) == (k - 1) % n
           cc(k) == Call(bb(k), ii(k), touched[bb(k)].column[ii(k)])
           N == Cardinality(held) * n
<1>1. n \in Nat \ {0}
  BY BarsAreOK DEF LedgerInv
<1>2. IsFiniteSet(held) /\ held \in SUBSET Bars /\ held \in SUBSET Int
  <2>1. held \in SUBSET Bars
    OBVIOUS
  <2>2. IsFiniteSet(held)
    BY <2>1, EditorAssumption, FS_Subset
  <2>3. \A b \in Bars : b \in Int
    BY EditorAssumption
  <2> HIDE DEF held
  <2> QED
    BY <2>1, <2>2, <2>3
<1>3. Cardinality(held) \in Nat
  BY <1>2, FS_CardinalityType
<1> HIDE DEF n, held
<1>4. N \in Nat
  BY <1>1, <1>3
<1>5. RestoreCalls = [k \in 1 .. N |-> cc(k)]
  BY DEF RestoreCalls, n, held
<1>6. ASSUME NEW k \in 1 .. N
      PROVE  /\ bb(k) \in held /\ Rank(held, bb(k)) = (k - 1) \div n
             /\ ii(k) \in 0 .. n - 1
             /\ RestoreCalls[k].bar = bb(k) /\ RestoreCalls[k].column = ii(k)
             /\ RestoreCalls[k].notes = touched[bb(k)].column[ii(k)]
  <2>1. (k - 1) \div n \in 0 .. Cardinality(held) - 1 /\ ii(k) \in 0 .. n - 1
    <3>1. k - 1 \in Nat /\ k - 1 < Cardinality(held) * n
      BY <1>4
    <3> QED
      BY <1>1, <1>3, <3>1
  <2>2. bb(k) \in held /\ Rank(held, bb(k)) = (k - 1) \div n
    BY <1>2, <2>1, NthLeastExists
  <2>3. RestoreCalls[k] = cc(k)
    BY <1>5
  <2> HIDE DEF bb, ii
  <2> QED
    BY <2>1, <2>2, <2>3 DEF Call
<1>7. DOMAIN RestoreCalls = 1 .. N
  BY <1>5
<1> HIDE DEF N, cc
<1>8. ASSUME NEW b \in held, NEW i \in 0 .. n - 1
      PROVE  \E k \in 1 .. N : bb(k) = b /\ ii(k) = i
  <2> DEFINE r == Rank(held, b)
             k == r * n + i + 1
  <2>1. r \in 0 .. Cardinality(held) - 1
    BY <1>2, RankInRange
  <2> HIDE DEF r
  <2>2. r * n + n <= Cardinality(held) * n
    <3>1. r + 1 <= Cardinality(held) /\ r \in Nat
      BY <1>3, <2>1
    <3>2. (r + 1) * n <= Cardinality(held) * n
      BY <1>1, <1>3, <3>1
    <3>3. (r + 1) * n = r * n + n
      BY <1>1, <3>1
    <3> QED
      BY <3>2, <3>3
  <2>3. r * n \in Nat
    BY <1>1, <2>1
  <2>4. k \in 1 .. N
    BY <1>1, <1>4, <2>2, <2>3 DEF N
  <2>5. k - 1 = r * n + i
    BY <2>3
  <2>6. (k - 1) \div n = r /\ (k - 1) % n = i
    <3>1. (r * n + i) \div n = r /\ (r * n + i) % n = i
      BY <1>1, <2>1
    <3> QED
      BY <2>5, <3>1
  <2>7. bb(k) \in held /\ Rank(held, bb(k)) = r
    BY <1>6, <2>4, <2>6
  <2>9. ii(k) = i
    BY <2>6
  <2> HIDE DEF k, bb, ii
  <2>8. bb(k) = b
    BY <1>2, <2>7, RankIsUnique DEF r
  <2> QED
    BY <2>4, <2>8, <2>9
<1>9. ASSUME NEW b \in held, NEW i \in 0 .. n - 1
      PROVE  \E k \in DOMAIN RestoreCalls : RestoreCalls[k].bar = b /\ RestoreCalls[k].column = i
  BY <1>6, <1>7, <1>8
<1> HIDE DEF bb, ii
<1>10. ASSUME NEW k \in 1 .. N
       PROVE  /\ touched[RestoreCalls[k].bar].held
              /\ RestoreCalls[k].column < n
              /\ RestoreCalls[k].notes
                   = touched[RestoreCalls[k].bar].column[RestoreCalls[k].column]
  <2>1. \A b \in held : touched[b].held
    BY DEF held
  <2>2. bb(k) \in held /\ ii(k) \in 0 .. n - 1
    BY <1>6
  <2> QED
    BY <1>1, <1>6, <2>1, <2>2
<1> QED
  BY <1>7, <1>9, <1>10 DEF held, n

(* A bar has no more columns than the ledger has positions. *)
LEMMA StepsInLedger ==
  ASSUME LedgerInv
  PROVE  Steps(bar, division) <= LedgerMax
<1>1. bar \in 1 .. LedgerMax /\ division \in Divisions /\ LedgerMax \in Nat
  BY BarsAreOK
<1> QED
  BY <1>1 DEF Steps, Divisions

(* While the editor is open, an edit keeps what the session knows if the bars whose
   notes it changes, now or with a draft that is still to be stored, are marked or were
   given a chord. *)
LEMMA EditKeepsSession ==
  ASSUME EditorInv, RecInv, editing # 0, editing' # 0,
         opened' = opened \/ \E bars \in SUBSET Bars : opened' = Given(bars),
         \A c \in Bars : \/ touched'[c] = touched[c]
                         \/ ~ touched[c].held /\ touched'[c] = Held(c),
         \A c \in Bars : \/ slot'[c].ledger = slot[c].ledger
                         \/ touched'[c].held \/ c \in opened'.given,
         \A k \in DOMAIN calls' : touched'[calls'[k].bar].held,
         \A k \in DOMAIN stores' :
           touched'[stores'[k][1]].held \/ stores'[k][1] \in opened'.given
  PROVE  RecInv'
<1>1. /\ opened \in OpenedRecords /\ opened # NotOpened /\ editing \in Bars
      /\ UnmarkedAsOpened /\ MarkedAsOpened /\ LedgerInv
  BY DEF RecInv, EditorInv
<1>2. /\ opened' \in OpenedRecords
      /\ opened'.division = opened.division /\ opened'.bar = opened.bar
      /\ opened'.ledger = opened.ledger
      /\ opened.given \subseteq opened'.given
  <2>1. CASE opened' = opened
    BY <1>1, <2>1
  <2>2. CASE \E bars \in SUBSET Bars : opened' = Given(bars)
    BY <1>1, <2>2 DEF OpenedRecords, Given
  <2> QED
    BY <2>1, <2>2
<1>3. opened' # NotOpened
  <2>1. opened'.division \in Divisions /\ NotOpened.division = 0
    BY <1>2 DEF OpenedRecords, NotOpened
  <2> QED
    BY <2>1 DEF Divisions
<1>4. UnmarkedAsOpened'
  <2> SUFFICES ASSUME NEW b \in Bars \ opened'.given, ~ touched'[b].held
               PROVE  slot'[b].ledger = opened'.ledger[b]
    BY DEF UnmarkedAsOpened
  <2>1. b \notin opened.given /\ slot'[b].ledger = slot[b].ledger
    BY <1>2
  <2>2. ~ touched[b].held
    BY DEF Held
  <2> QED
    BY <1>1, <1>2, <2>1, <2>2 DEF UnmarkedAsOpened
<1>5. MarkedAsOpened'
  <2> SUFFICES ASSUME NEW b \in Bars \ opened'.given, touched'[b].held, NEW i \in Nat,
                      i < Steps(touched'[b].bar, touched'[b].division)
               PROVE  touched'[b].column[i]
                        = opened'.ledger[b][i * Stride(touched'[b].division)]
    BY DEF MarkedAsOpened
  <2>1. b \notin opened.given
    BY <1>2
  <2>2. CASE touched'[b] = touched[b]
    BY <1>1, <1>2, <2>1, <2>2 DEF MarkedAsOpened
  <2>3. CASE ~ touched[b].held /\ touched'[b] = Held(b)
    <3>1. slot[b].ledger = opened.ledger[b]
      BY <1>1, <2>1, <2>3 DEF UnmarkedAsOpened
    <3>2. /\ touched'[b].division = division /\ touched'[b].bar = bar
          /\ \A j \in Positions : touched'[b].column[j] = Column(b, j)
      BY <2>3 DEF Held
    <3>3. i < Steps(bar, division)
      BY <3>2
    <3>4. i \in Positions
      <4>1. Steps(bar, division) <= LedgerMax /\ Steps(bar, division) \in Nat
              /\ LedgerMax \in Nat
        BY <1>1, StepsInLedger, BarsAreOK
      <4> QED
        BY <3>3, <4>1 DEF Positions
    <3>5. Column(b, i) = slot[b].ledger[i * Stride(division)]
      BY <3>3 DEF Column
    <3> QED
      BY <1>2, <3>1, <3>2, <3>4, <3>5
  <2> QED
    BY <2>2, <2>3
<1>6. editing' # 0
  OBVIOUS
<1>7. (\A k \in DOMAIN calls : touched[calls[k].bar].held)'
  OBVIOUS
<1>8. (\A k \in DOMAIN stores : touched[stores[k][1]].held \/ stores[k][1] \in opened.given)'
  OBVIOUS
<1> QED
  BY <1>2, <1>3, <1>4, <1>5, <1>6, <1>7, <1>8 DEF RecInv

(* Marking a bar keeps the marks there are. *)
LEMMA TouchKeepsMarks ==
  ASSUME TouchedOK, NEW b \in Bars, touched' = Touch(b)
  PROVE  /\ touched'[b].held
         /\ \A c \in Bars : \/ touched'[c] = touched[c]
                            \/ ~ touched[c].held /\ touched'[c] = Held(c)
<1>1. CASE touched[b].held
  BY <1>1 DEF Touch
<1>2. CASE ~ touched[b].held
  <2>1. touched' = [touched EXCEPT ![b] = Held(b)]
    BY <1>2 DEF Touch
  <2>2. Held(b).held
    BY DEF Held
  <2> HIDE DEF Held
  <2>3. \A c \in Bars : touched'[c] = IF c = b THEN Held(b) ELSE touched[c]
    BY <2>1 DEF TouchedOK
  <2> QED
    BY <1>2, <2>2, <2>3
<1> QED
  BY <1>1, <1>2

(* A call given back after REC leaves a call less to come. *)
LEMMA RestoringGoesOn ==
  ASSUME EditorInv, RecInv, BridgeCall, editing = 0, opened # NotOpened
  PROVE  RecInv'
<1> DEFINE h == Head(calls)
<1>1. /\ LedgerInv /\ calls \in Seq(BridgeCalls) /\ opened \in OpenedRecords
      /\ UnmarkedAsOpened /\ MarkedAsOpened /\ Restoring /\ stores = <<>>
      /\ \A k \in DOMAIN calls : touched[calls[k].bar].held
  BY DEF EditorInv, RecInv
<1>2. /\ calls # <<>> /\ Write(h.bar, h.column, h.notes) /\ calls' = Tail(calls)
      /\ UNCHANGED <<editing, touched, opened, stores>>
  BY DEF BridgeCall
<1>3. /\ h \in BridgeCalls /\ h = calls[1] /\ 1 \in DOMAIN calls
      /\ \A k \in DOMAIN calls' : k + 1 \in DOMAIN calls /\ calls'[k] = calls[k + 1]
      /\ \A k \in DOMAIN calls : k = 1 \/ (k - 1 \in DOMAIN calls' /\ calls'[k - 1] = calls[k])
  BY <1>1, <1>2
<1>4. h.bar \in Bars /\ h.column \in Nat /\ h.notes \in LedgerSlot
  BY <1>3 DEF BridgeCalls
<1>5. /\ touched[h.bar].held /\ h.column < Steps(bar, division)
      /\ h.notes = touched[h.bar].column[h.column]
  BY <1>1, <1>3 DEF Restoring
<1> HIDE DEF h
<1>6. /\ UNCHANGED <<division, bar>>
      /\ \A c \in Bars \ {h.bar} : slot'[c] = slot[c]
  BY <1>1, <1>2, <1>4, WriteLedger
<1>7. UnmarkedAsOpened'
  BY <1>1, <1>2, <1>5, <1>6 DEF UnmarkedAsOpened
<1>8. MarkedAsOpened'
  BY <1>1, <1>2 DEF MarkedAsOpened
<1>9. ASSUME NEW k \in DOMAIN calls'
      PROVE  /\ touched'[calls'[k].bar].held
             /\ calls'[k].column < Steps(bar, division)'
             /\ calls'[k].notes = touched'[calls'[k].bar].column[calls'[k].column]
  BY <1>1, <1>2, <1>3, <1>6 DEF Restoring
<1>10. ASSUME NEW b \in Bars, touched'[b].held, NEW i \in 0 .. Steps(bar, division) - 1
       PROVE  \/ Column(b, i)' = touched'[b].column[i]
              \/ \E k \in DOMAIN calls' : calls'[k].bar = b /\ calls'[k].column = i
  <2>1. Column(b, i)' = IF b = h.bar /\ i = h.column THEN h.notes ELSE Column(b, i)
    BY <1>1, <1>2, <1>4, WriteColumn
  <2>2. CASE b = h.bar /\ i = h.column
    BY <1>2, <1>5, <2>1, <2>2
  <2>3. CASE ~ (b = h.bar /\ i = h.column)
    <3>1. CASE Column(b, i) = touched[b].column[i]
      BY <1>2, <2>1, <2>3, <3>1
    <3>2. CASE \E k \in DOMAIN calls : calls[k].bar = b /\ calls[k].column = i
      <4>1. PICK k \in DOMAIN calls : calls[k].bar = b /\ calls[k].column = i
        BY <3>2
      <4>2. k # 1
        BY <1>3, <2>3, <4>1
      <4> QED
        BY <1>3, <4>1, <4>2
    <3> QED
      BY <1>1, <1>2, <1>10, <3>1, <3>2 DEF Restoring
  <2> QED
    BY <2>2, <2>3
<1>11. Restoring'
  <2>1. \A b \in Bars : touched'[b].held =>
          \A i \in 0 .. Steps(bar', division') - 1 :
            \/ Column(b, i)' = touched'[b].column[i]
            \/ \E k \in DOMAIN calls' : calls'[k].bar = b /\ calls'[k].column = i
    BY <1>6, <1>10
  <2>2. \A k \in DOMAIN calls' :
          /\ calls'[k].column < Steps(bar', division')
          /\ calls'[k].notes = touched'[calls'[k].bar].column[calls'[k].column]
    BY <1>6, <1>9
  <2> QED
    BY <2>1, <2>2 DEF Restoring
<1>12. (\A k \in DOMAIN calls : touched[calls[k].bar].held)'
  BY <1>9
<1>13. opened' \in OpenedRecords
  BY <1>1, <1>2, <1>6 DEF OpenedRecords
<1>14. stores' = <<>> /\ DOMAIN stores' = {}
  BY <1>1, <1>2
<1> QED
  BY <1>2, <1>7, <1>8, <1>11, <1>12, <1>13, <1>14 DEF RecInv

(* Outside a session there is nothing to know. *)
LEMMA NoSession ==
  ASSUME opened' = NotOpened, editing' = 0
  PROVE  RecInv'
  BY DEF RecInv

(* A session begins with the bars as they are and none marked. *)
LEMMA EnterBeginsSession ==
  ASSUME EditorInv, NEW b \in Bars, Enter(b)
  PROVE  RecInv'
<1>1. /\ slot \in [Bars -> Slot] /\ division \in Divisions /\ bar \in BarLengths
      /\ calls = <<>> /\ stores = <<>> /\ editing' = b /\ b # 0
      /\ touched' = Untouched /\ opened' = Opened
      /\ UNCHANGED <<slot, division, bar, calls, stores>>
  BY EditorAssumption
     DEF EditorInv, LedgerInv, LedgerIsConsistent, LedgerTypeOK, Enter, Idle, ledgerVars
<1>2. Opened \in OpenedRecords
  BY <1>1 DEF Opened, OpenedRecords, Slot
<1>3. \A c \in Bars : Opened.ledger[c] = slot[c].ledger /\ ~ Untouched[c].held
  BY DEF Opened, Untouched
<1>4. UnmarkedAsOpened' /\ MarkedAsOpened'
  BY <1>1, <1>3 DEF UnmarkedAsOpened, MarkedAsOpened
<1>5. DOMAIN calls' = {} /\ DOMAIN stores' = {}
  BY <1>1
<1>6. /\ (\A k \in DOMAIN calls : touched[calls[k].bar].held)'
      /\ (\A k \in DOMAIN stores : touched[stores[k][1]].held \/ stores[k][1] \in opened.given)'
  BY <1>5
<1>7. opened' \in OpenedRecords /\ opened' # NotOpened
  <2>1. Opened.division \in Divisions /\ NotOpened.division = 0
    BY <1>1 DEF Opened, NotOpened
  <2> QED
    BY <1>1, <1>2, <2>1 DEF Divisions
<1>8. editing' # 0
  BY <1>1
<1> QED
  BY <1>4, <1>6, <1>7, <1>8 DEF RecInv

(* REC begins by asking for every column of every marked bar. *)
LEMMA RestoringBegins ==
  ASSUME EditorInv, RecInv, LeaveAndRestore
  PROVE  RecInv'
<1>1. /\ LedgerInv /\ TouchedOK /\ editing # 0 /\ opened \in OpenedRecords
      /\ UnmarkedAsOpened /\ MarkedAsOpened
      /\ calls' = RestoreCalls /\ editing' = 0 /\ stores' = <<>>
      /\ UNCHANGED <<slot, division, bar, touched, opened>>
  BY DEF EditorInv, RecInv, LeaveAndRestore, Editing, Idle, ledgerVars
<1>2. UnmarkedAsOpened' /\ MarkedAsOpened'
  BY <1>1 DEF UnmarkedAsOpened, MarkedAsOpened
<1>3. /\ \A k \in DOMAIN calls' :
           /\ touched[calls'[k].bar].held
           /\ calls'[k].column < Steps(bar, division)
           /\ calls'[k].notes = touched[calls'[k].bar].column[calls'[k].column]
      /\ \A b \in Bars : touched[b].held =>
           \A i \in 0 .. Steps(bar, division) - 1 :
             \E k \in DOMAIN calls' : calls'[k].bar = b /\ calls'[k].column = i
  BY <1>1, RestoreCallsAreComplete
<1>4. Restoring'
  BY <1>1, <1>3 DEF Restoring
<1>5. (\A k \in DOMAIN calls : touched[calls[k].bar].held)'
  BY <1>1, <1>3
<1>6. DOMAIN stores' = {}
  BY <1>1
<1> QED
  BY <1>1, <1>2, <1>4, <1>5, <1>6 DEF RecInv

(* Every step of the editor keeps what the session knows. *)
LEMMA RecStep == EditorInv /\ RecInv /\ [Next]_vars => RecInv'
<1> SUFFICES ASSUME EditorInv, RecInv, [Next]_vars PROVE RecInv'
  OBVIOUS
<1>0. /\ LedgerInv /\ TouchedOK /\ cursor \in Nat /\ calls \in Seq(BridgeCalls)
      /\ stores \in Seq(DraftCalls) /\ (calls = <<>> \/ stores = <<>>)
      /\ editing \in Bars \cup {0} /\ Pitches \subseteq 0 .. 127
      /\ Inputs \subseteq LedgerSlot /\ 0 \notin Bars
  BY LedgerAssumption, EditorAssumption DEF EditorInv
<1>1. ASSUME Editing, editing' = editing, UNCHANGED <<touched, calls, opened, stores>>,
             \A c \in Bars : slot'[c].ledger = slot[c].ledger
      PROVE  RecInv'
  <2>1. editing # 0 /\ DOMAIN calls' = {} /\ DOMAIN stores' = {}
    BY <1>1 DEF Editing, Idle
  <2> QED
    BY <1>1, <2>1, EditKeepsSession
<1>2. ASSUME NEW b \in Bars, Enter(b) PROVE RecInv'
  BY <1>2, EnterBeginsSession
<1>3. CASE NextPosition
  BY <1>1, <1>3 DEF NextPosition, ledgerVars
<1>4. CASE LeaveAndKeep
  BY <1>4, NoSession DEF LeaveAndKeep
<1>5. ASSUME NEW x \in Pitches, ToggleNote(x)
      PROVE  RecInv'
  <2> DEFINE notes == Toggled(Column(editing, cursor), x)
  <2>1. /\ editing # 0 /\ editing \in Bars /\ calls = <<>> /\ stores = <<>> /\ x \in 0 .. 127
        /\ touched' = Touch(editing) /\ Write(editing, cursor, notes)
        /\ UNCHANGED <<editing, calls, opened, stores>>
    BY <1>0, <1>5 DEF ToggleNote, Editing, Idle
  <2>2. notes \in LedgerSlot
    BY <1>0, <2>1, ColumnIsNotes, ToggledIsNotes
  <2>3. \A c \in Bars \ {editing} : slot'[c] = slot[c]
    BY <1>0, <2>1, <2>2, WriteLedger
  <2> HIDE DEF notes
  <2>4. /\ touched'[editing].held
        /\ \A c \in Bars : \/ touched'[c] = touched[c]
                           \/ ~ touched[c].held /\ touched'[c] = Held(c)
    BY <1>0, <2>1, TouchKeepsMarks
  <2>5. DOMAIN calls' = {} /\ DOMAIN stores' = {}
    BY <2>1
  <2>6. \A c \in Bars : slot'[c].ledger = slot[c].ledger \/ touched'[c].held
    BY <2>3, <2>4
  <2> QED
    BY <2>1, <2>4, <2>5, <2>6, EditKeepsSession
<1>6. ASSUME NEW notes \in Inputs, PlaceChord(notes)
      PROVE  RecInv'
  <2>1. /\ editing # 0 /\ editing \in Bars /\ calls = <<>> /\ stores = <<>>
        /\ notes \in LedgerSlot /\ Write(editing, cursor, notes)
        /\ {editing} \in SUBSET Bars /\ opened' = Given({editing})
        /\ UNCHANGED <<editing, touched, calls, stores>>
    BY <1>0, <1>6 DEF PlaceChord, Editing, Idle
  <2>2. \A c \in Bars \ {editing} : slot'[c] = slot[c]
    BY <1>0, <2>1, WriteLedger
  <2>3. touched[editing].held \/ editing \in opened'.given
    <3>1. opened \in OpenedRecords
      BY <2>1 DEF RecInv
    <3> QED
      BY <2>1, <3>1 DEF OpenedRecords, Given
  <2>4. DOMAIN calls' = {} /\ DOMAIN stores' = {}
    BY <2>1
  <2> QED
    BY <2>1, <2>2, <2>3, <2>4, EditKeepsSession
<1>7. CASE BeginLength
  BY <1>1, <1>7 DEF BeginLength, ledgerVars
<1>8. ASSUME NEW turn \in {-1, 1}, ChangeLength(turn) PROVE RecInv'
  BY <1>1, <1>8 DEF ChangeLength, ledgerVars
<1>9. CASE EndLength
  <2>1. editing \in Bars /\ SetStepEventLength(editing, cursor, pending)
    BY <1>0, <1>9 DEF EndLength, Editing
  <2>2. \A c \in Bars : slot'[c].ledger = slot[c].ledger
    BY <1>0, <2>1, LengthKeepsNotes
  <2> QED
    BY <1>1, <1>9, <2>2 DEF EndLength
<1>10. CASE ToggleBarSkip
  <2>1. editing \in Bars /\ SetStepBarState(editing, ~ slot[editing].skip)
    BY <1>0, <1>10 DEF ToggleBarSkip, Editing
  <2>2. (~ slot[editing].skip) \in BOOLEAN
    OBVIOUS
  <2>3. \A c \in Bars : slot'[c].ledger = slot[c].ledger
    BY <1>0, <2>1, <2>2, SkipKeepsNotes
  <2> QED
    BY <1>1, <1>10, <2>3 DEF ToggleBarSkip
<1>11. ASSUME NEW d \in Divisions, NEW n \in BarLengths, ChangeTiming(d, n)
       PROVE  RecInv'
  <2>1. \A c \in Bars : slot'[c].ledger = slot[c].ledger
    BY <1>0, <1>11, TimingKeepsNotes DEF ChangeTiming
  <2> QED
    BY <1>1, <1>11, <2>1 DEF ChangeTiming
<1>12. ASSUME NEW b \in Bars, NEW chord \in Chords \cup {{}}, ReplaceBar(b, chord)
       PROVE  RecInv'
  BY <1>12, NoSession DEF ReplaceBar
<1>13. CASE ClearBar
  <2>1. /\ editing # 0 /\ editing \in Bars /\ touched' = Touch(editing)
        /\ calls' = [k \in 1 .. Columns |-> Call(editing, k - 1, {})]
        /\ stores = <<>> /\ UNCHANGED <<slot, editing, opened, stores>>
    BY <1>0, <1>13 DEF ClearBar, Editing, Idle, ledgerVars
  <2>2. /\ touched'[editing].held
        /\ \A c \in Bars : \/ touched'[c] = touched[c]
                           \/ ~ touched[c].held /\ touched'[c] = Held(c)
    BY <1>0, <2>1, TouchKeepsMarks
  <2>3. \A k \in DOMAIN calls' : calls'[k].bar = editing
    BY <2>1 DEF Call
  <2>4. \A k \in DOMAIN calls' : touched'[calls'[k].bar].held
    BY <2>2, <2>3
  <2>5. DOMAIN stores' = {}
    BY <2>1
  <2> QED
    BY <2>1, <2>2, <2>4, <2>5, EditKeepsSession
<1>14. CASE LeaveAndRestore
  BY <1>14, RestoringBegins
<1>15. CASE BridgeCall
  <2> DEFINE h == Head(calls)
  <2>1. /\ calls # <<>> /\ Write(h.bar, h.column, h.notes) /\ calls' = Tail(calls)
        /\ stores = <<>> /\ UNCHANGED <<editing, touched, opened, stores>>
    BY <1>0, <1>15 DEF BridgeCall
  <2>2. CASE opened = NotOpened
    <3>1. editing = 0
      BY <2>2 DEF RecInv
    <3> QED
      BY <2>1, <2>2, <3>1, NoSession
  <2>3. CASE opened # NotOpened /\ editing = 0
    BY <1>15, <2>3, RestoringGoesOn
  <2>4. CASE opened # NotOpened /\ editing # 0
    <3>1. /\ h \in BridgeCalls /\ h = calls[1] /\ 1 \in DOMAIN calls
          /\ \A k \in DOMAIN calls' : k + 1 \in DOMAIN calls /\ calls'[k] = calls[k + 1]
      BY <1>0, <2>1
    <3>2. h.bar \in Bars /\ h.column \in Nat /\ h.notes \in LedgerSlot
      BY <3>1 DEF BridgeCalls
    <3>3. \A k \in DOMAIN calls : touched[calls[k].bar].held
      BY <2>4 DEF RecInv
    <3>4. touched[h.bar].held
      BY <3>1, <3>3
    <3> HIDE DEF h
    <3>5. \A c \in Bars \ {h.bar} : slot'[c] = slot[c]
      BY <1>0, <2>1, <3>2, WriteLedger
    <3>6. \A c \in Bars : slot'[c].ledger = slot[c].ledger \/ touched'[c].held
      BY <2>1, <3>4, <3>5
    <3>7. \A k \in DOMAIN calls' : touched'[calls'[k].bar].held
      BY <2>1, <3>1, <3>3
    <3>8. DOMAIN stores' = {}
      BY <2>1
    <3> QED
      BY <2>1, <2>4, <3>6, <3>7, <3>8, EditKeepsSession
  <2> QED
    BY <2>2, <2>3, <2>4
<1>16. ASSUME NEW draft \in Drafts, CommitFromGrid(draft)
       PROVE  RecInv'
  BY <1>16, NoSession DEF CommitFromGrid
<1>17. ASSUME NEW draft \in Drafts, NEW b \in Bars, CommitInSession(draft, b)
       PROVE  RecInv'
  <2>1. /\ editing # 0 /\ editing' = b /\ b # 0 /\ calls = <<>> /\ opened' = Given(Bars)
        /\ stores' \in Seq(DraftCalls) /\ UNCHANGED <<slot, touched, calls>>
    BY <1>0, <1>17, DraftsAreStores DEF CommitInSession, CommitChordDraft, Idle, ledgerVars
  <2>2. opened \in OpenedRecords
    BY <2>1 DEF RecInv
  <2>3. \A c \in Bars : touched[c].held \/ c \in opened'.given
    BY <2>1, <2>2 DEF OpenedRecords, Given
  <2>4. \A k \in DOMAIN stores' : stores'[k][1] \in Bars
    BY <2>1 DEF DraftCalls
  <2>5. DOMAIN calls' = {}
    BY <2>1
  <2> QED
    BY <2>1, <2>3, <2>4, <2>5, EditKeepsSession
<1>18. CASE DraftCall
  <2> DEFINE h == Head(stores)
  <2>1. /\ stores # <<>> /\ calls = <<>> /\ StoreChord(h[1], h[2]) /\ stores' = Tail(stores)
        /\ UNCHANGED <<editing, touched, calls, opened>>
    BY <1>0, <1>18 DEF DraftCall
  <2>2. CASE opened = NotOpened
    <3>1. editing = 0
      BY <2>2 DEF RecInv
    <3> QED
      BY <2>1, <2>2, <3>1, NoSession
  <2>3. CASE opened # NotOpened
    <3>1. editing # 0 /\ \A k \in DOMAIN stores :
             touched[stores[k][1]].held \/ stores[k][1] \in opened.given
      BY <2>1, <2>3 DEF RecInv
    <3>2. /\ h \in DraftCalls /\ h = stores[1] /\ 1 \in DOMAIN stores
          /\ \A k \in DOMAIN stores' : k + 1 \in DOMAIN stores /\ stores'[k] = stores[k + 1]
      BY <1>0, <2>1
    <3>3. h[1] \in Bars /\ h[2] \in Chords \cup {{}}
      BY <3>2 DEF DraftCalls
    <3>4. touched[h[1]].held \/ h[1] \in opened.given
      BY <3>1, <3>2
    <3> HIDE DEF h
    <3>5. \A c \in Bars \ {h[1]} : slot'[c] = slot[c]
      BY <1>0, <2>1, <3>3, StoreChordInv
    <3>6. \A c \in Bars : \/ slot'[c].ledger = slot[c].ledger
                          \/ touched'[c].held \/ c \in opened'.given
      BY <2>1, <3>4, <3>5
    <3>7. /\ DOMAIN calls' = {}
          /\ \A k \in DOMAIN stores' :
               touched'[stores'[k][1]].held \/ stores'[k][1] \in opened'.given
      BY <2>1, <3>1, <3>2
    <3> QED
      BY <2>1, <3>1, <3>6, <3>7, EditKeepsSession
  <2> QED
    BY <2>2, <2>3
<1>19. CASE UNCHANGED vars
  <2>1. UNCHANGED <<slot, division, bar, editing, touched, calls, stores, opened>>
    BY <1>19 DEF vars, ledgerVars, editorVars
  <2> QED
    BY <2>1 DEF RecInv, UnmarkedAsOpened, MarkedAsOpened, Restoring, Column
<1> QED
  BY <1>2, <1>3, <1>4, <1>5, <1>6, <1>7, <1>8, <1>9, <1>10, <1>11, <1>12, <1>13, <1>14,
     <1>15, <1>16, <1>17, <1>18, <1>19 DEF Next

(* Leaving the editor with REC gives every marked bar its notes back, and no other bar
   had lost any, however many edits, lengths and cleared bars there were; but for bars
   that were given a chord before they were marked, placed or stored with the drafts,
   and bars marked on another grid than they are restored on. *)
THEOREM RecGivesNotesBack == Spec => []RecRestoresNotes
<1>1. Init => RecInv
  BY DEF Init, RecInv
<1>2. EditorInv /\ RecInv => RecRestoresNotes
  <2> SUFFICES ASSUME EditorInv, RecInv, editing = 0, calls = <<>>,
                      opened.division = division, opened.bar = bar,
                      NEW b \in Bars \ opened.given,
                      touched[b].held => touched[b].division = division /\ touched[b].bar = bar,
                      NEW i \in 0 .. Steps(bar, division) - 1
               PROVE  Column(b, i) = opened.ledger[b][i * Stride(division)]
    BY DEF RecRestoresNotes
  <2>1. opened # NotOpened
    <3>1. division \in Divisions /\ NotOpened.division = 0
      BY BarsAreOK DEF EditorInv, NotOpened
    <3> QED
      BY <3>1 DEF Divisions
  <2>2. UnmarkedAsOpened /\ MarkedAsOpened /\ Restoring
    BY <2>1 DEF RecInv
  <2>3. i \in Nat /\ i < Steps(bar, division)
    BY BarsAreOK DEF EditorInv
  <2>4. CASE touched[b].held
    <3>1. Column(b, i) = touched[b].column[i]
      BY <2>2, <2>4 DEF Restoring
    <3>2. touched[b].column[i] = opened.ledger[b][i * Stride(division)]
      BY <2>2, <2>3, <2>4 DEF MarkedAsOpened
    <3> QED
      BY <3>1, <3>2
  <2>5. CASE ~ touched[b].held
    BY <2>2, <2>3, <2>5 DEF UnmarkedAsOpened, Column
  <2> QED
    BY <2>4, <2>5
<1> QED
  BY <1>1, <1>2, EditorInitInv, EditorStep, RecStep, PTL DEF Spec

-----------------------------------------------------------------------------
(* How far an edit is heard *)

(* An event reaches as far as its stored length and the next event let it. *)
LEMMA ReachingMeans ==
  ASSUME NEW s \in Slot, NEW n \in 1 .. LedgerMax, NEW x \in 0 .. n - 1, NEW q
  PROVE  q \in Reaching(s, x, n) <=>
           /\ q \in 0 .. x /\ IsStart(s, q) /\ x < q + s.length[q]
           /\ \A r \in q + 1 .. x : ~ IsStart(s, r)
<1>0. LedgerMax \in Nat
  BY LedgerAssumption
<1> SUFFICES ASSUME q \in 0 .. x, IsStart(s, q)
             PROVE  x < q + EventLength(s, q, n) <=>
                      x < q + s.length[q] /\ \A r \in q + 1 .. x : ~ IsStart(s, r)
  BY DEF Reaching
<1>1. q \in Nat /\ q < n /\ n \in Nat /\ x \in Nat /\ q \in Positions
  BY <1>0 DEF Positions
<1>2. s.length[q] \in 1 .. LedgerMax
  BY <1>1 DEF Slot
<1>3. /\ NextStart(s, q, n) \in q + 1 .. n
      /\ NextStart(s, q, n) < n => IsStart(s, NextStart(s, q, n))
      /\ \A r \in q + 1 .. n - 1 : r < NextStart(s, q, n) => ~ IsStart(s, r)
      /\ MaxLength(s, q, n) = NextStart(s, q, n) - q
  BY <1>1, NextStartInBar
<1> DEFINE m == NextStart(s, q, n)
<1>4. EventLength(s, q, n) = IF s.length[q] > m - q THEN m - q ELSE s.length[q]
  BY <1>3 DEF EventLength
<1> HIDE DEF m
<1>5. m \in q + 1 .. n /\ (m < n => IsStart(s, m))
        /\ \A r \in q + 1 .. n - 1 : r < m => ~ IsStart(s, r)
  BY <1>3 DEF m
<1>6. x < q + EventLength(s, q, n) <=> x < q + s.length[q] /\ x < m
  BY <1>0, <1>1, <1>2, <1>4, <1>5
<1>7. x < m <=> \A r \in q + 1 .. x : ~ IsStart(s, r)
  <2>1. CASE x < m
    <3>1. \A r \in q + 1 .. x : r \in q + 1 .. n - 1 /\ r < m
      BY <1>1, <1>5, <2>1
    <3> QED
      BY <1>5, <2>1, <3>1
  <2>2. CASE ~ (x < m)
    <3>1. m \in q + 1 .. x /\ m < n
      BY <1>1, <1>5, <2>2
    <3> QED
      BY <1>5, <2>2, <3>1
  <2> QED
    BY <2>1, <2>2
<1> QED
  BY <1>6, <1>7

(* At most one event reaches a position. *)
LEMMA OneEventReaches ==
  ASSUME NEW s \in Slot, NEW n \in 1 .. LedgerMax, NEW x \in 0 .. n - 1,
         NEW q \in Reaching(s, x, n)
  PROVE  Reaching(s, x, n) = {q} /\ MaxOf(Reaching(s, x, n)) = q
<1>1. ASSUME NEW r \in Reaching(s, x, n)
      PROVE  r = q
  <2>1. /\ r \in 0 .. x /\ q \in 0 .. x /\ IsStart(s, r) /\ IsStart(s, q) /\ x \in Nat
        /\ \A k \in q + 1 .. x : ~ IsStart(s, k)
        /\ \A k \in r + 1 .. x : ~ IsStart(s, k)
    BY ReachingMeans, LedgerAssumption
  <2>2. ~ (q < r)
    BY <2>1
  <2>3. ~ (r < q)
    BY <2>1
  <2> QED
    BY <2>1, <2>2, <2>3
<1>2. Reaching(s, x, n) = {q}
  BY <1>1
<1>3. q \in Int
  BY ReachingMeans, LedgerAssumption
<1>4. MaxOf({q}) = q
  BY <1>3 DEF MaxOf
<1> QED
  BY <1>2, <1>4

(* Two bars that differ at one position have the same events away from it: what reaches
   a position outside the stretch from there to the next event is the same, and is not
   the event there. *)
LEMMA ReachingElsewhere ==
  ASSUME NEW s \in Slot, NEW t \in Slot, NEW n \in 1 .. LedgerMax, NEW p \in 0 .. n - 1,
         \A q \in Positions \ {p} : t.ledger[q] = s.ledger[q] /\ t.length[q] = s.length[q],
         NEW x \in 0 .. n - 1, ~ (p <= x /\ x < NextStart(s, p, n))
  PROVE  Reaching(t, x, n) = Reaching(s, x, n) /\ p \notin Reaching(s, x, n)
<1>0. LedgerMax \in Nat /\ n \in Nat /\ x \in Nat /\ p \in Nat
        /\ \A q \in 0 .. x : q \in Positions
  BY LedgerAssumption DEF Positions
<1>1. ASSUME NEW q \in Positions \ {p}
      PROVE  IsStart(t, q) <=> IsStart(s, q)
  BY DEF IsStart
<1> DEFINE m == NextStart(s, p, n)
<1>2. m \in p + 1 .. n /\ (m < n => IsStart(s, m))
  BY <1>0, NextStartInBar
<1> HIDE DEF m
<1>3. p <= x => /\ m \in p + 1 .. x
                /\ IsStart(s, m) /\ IsStart(t, m)
  <2> SUFFICES ASSUME p <= x PROVE m \in p + 1 .. x /\ IsStart(s, m) /\ IsStart(t, m)
    OBVIOUS
  <2>1. ~ (x < m)
    BY DEF m
  <2>2. m \in p + 1 .. x /\ m < n /\ m # p
    BY <1>0, <1>2, <2>1
  <2> QED
    BY <1>0, <1>1, <1>2, <2>2
<1>4. ASSUME NEW q \in 0 .. x, q # p
      PROVE  (\A r \in q + 1 .. x : ~ IsStart(t, r)) <=> (\A r \in q + 1 .. x : ~ IsStart(s, r))
  <2>1. CASE p \in q + 1 .. x
    <3>1. m \in q + 1 .. x
      BY <1>0, <1>3, <2>1
    <3> QED
      BY <1>0, <1>3, <2>1, <3>1
  <2>2. CASE p \notin q + 1 .. x
    <3>1. \A r \in q + 1 .. x : r \in Positions \ {p}
      BY <1>0, <2>2
    <3> QED
      BY <1>1, <3>1
  <2> QED
    BY <2>1, <2>2
<1>5. p \notin Reaching(s, x, n) /\ p \notin Reaching(t, x, n)
  BY <1>0, <1>3, ReachingMeans
<1>6. ASSUME NEW q \in 0 .. x, q # p
      PROVE  q \in Reaching(t, x, n) <=> q \in Reaching(s, x, n)
  <2>1. q \in Positions \ {p} /\ t.length[q] = s.length[q]
    BY <1>0, <1>6
  <2> QED
    BY <1>1, <1>4, <1>6, <2>1, ReachingMeans
<1>7. Reaching(t, x, n) \subseteq 0 .. x /\ Reaching(s, x, n) \subseteq 0 .. x
  BY DEF Reaching
<1> QED
  BY <1>5, <1>6, <1>7

(* So what sounds there is the same. *)
LEMMA NotesElsewhere ==
  ASSUME LedgerInv, NEW s \in Slot, NEW t \in Slot, NEW p \in 0 .. bar - 1,
         \A q \in Positions \ {p} : t.ledger[q] = s.ledger[q] /\ t.length[q] = s.length[q],
         NEW i \in 0 .. Steps(bar, division) - 1,
         ~ (p <= i * Stride(division) /\ i * Stride(division) < NextStart(s, p, bar))
  PROVE  NotesAt(t, i, 0) = NotesAt(s, i, 0)
<1> DEFINE x == i * Stride(division)
<1>1. /\ bar \in 1 .. LedgerMax /\ LedgerMax \in Nat /\ i < Steps(bar, division)
      /\ x \in 0 .. bar - 1 /\ x < bar
  BY BarsAreOK DEF Positions
<1> HIDE DEF x
<1>2. Reaching(t, x, bar) = Reaching(s, x, bar) /\ p \notin Reaching(s, x, bar)
  BY <1>1, ReachingElsewhere DEF x
<1>3. EventAt(s, i) = Reaching(s, x, bar) /\ EventAt(t, i) = Reaching(s, x, bar)
  BY <1>1, <1>2 DEF EventAt, x
<1>4. CASE Reaching(s, x, bar) = {}
  BY <1>3, <1>4 DEF NotesAt
<1>5. CASE Reaching(s, x, bar) # {}
  <2>1. PICK q : q \in Reaching(s, x, bar)
    BY <1>5
  <2>2. MaxOf(Reaching(s, x, bar)) = q
    BY <1>1, <2>1, OneEventReaches
  <2>3. q \in Positions \ {p}
    BY <1>1, <1>2, <2>1 DEF Reaching, Positions
  <2>4. t.ledger[q] = s.ledger[q]
    BY <2>3
  <2> QED
    BY <1>3, <1>5, <2>2, <2>4 DEF NotesAt
<1> QED
  BY <1>4, <1>5

(* The bars t and s differ in notes and lengths at one position of the bar at most. *)
DifferAtOne(t, s) ==
  \E p \in 0 .. bar - 1 : \A q \in Positions \ {p} :
    t.ledger[q] = s.ledger[q] /\ t.length[q] = s.length[q]

(* A bar left alone differs nowhere. *)
LEMMA SameDifferNowhere ==
  ASSUME LedgerInv, NEW s
  PROVE  DifferAtOne(s, s)
<1>1. 0 \in 0 .. bar - 1
  BY BarsAreOK
<1> QED
  BY <1>1 DEF DifferAtOne

(* A call of the bridge changes one position of one bar. *)
LEMMA WriteDiffersAtOne ==
  ASSUME LedgerInv, NEW b \in Bars, NEW i \in Nat, NEW notes \in LedgerSlot,
         Write(b, i, notes), NEW c \in Bars
  PROVE  DifferAtOne(slot'[c], slot[c])
<1>1. CASE c # b \/ ~ (i < Steps(bar, division))
  <2>1. slot'[c] = slot[c]
    BY <1>1, WriteLedger
  <2> QED
    BY <2>1, SameDifferNowhere
<1>2. CASE c = b /\ i < Steps(bar, division)
  <2> DEFINE s == slot[b]
             p == i * Stride(division)
             k == Stride(division)
             n == IF ~IsStart(s, p) /\ notes # {} THEN k ELSE s.length[p]
             lanes == LaneByte(s, p, notes)
             t == [s EXCEPT !.ledger[p] = notes, !.lane[p] = lanes, !.length[p] = n]
  <2>1. /\ s \in Slot /\ slot \in [Bars -> Slot] /\ p \in Positions /\ k \in 1 .. LedgerMax
        /\ p < bar /\ bar \in Nat
    BY <1>2, BarsAreOK
  <2>2. SetStepLedgerSlot(b, i, notes)
    BY <1>2 DEF Write
  <2>3. WithSlot(s, p, notes, k) = Summarized(t)
    BY DEF WithSlot
  <2>4. slot'[b] = Summarized(t)
    BY <2>1, <2>2, <2>3 DEF SetStepLedgerSlot
  <2>5. lanes \in [Lanes -> Lanes] /\ n \in 1 .. LedgerMax
    BY <2>1, LaneByteIsLanes DEF Slot
  <2> HIDE DEF s, p, k, n, lanes
  <2>6. /\ t \in Slot /\ t.ledger = [s.ledger EXCEPT ![p] = notes]
        /\ t.length = [s.length EXCEPT ![p] = n]
    BY <2>1, <2>5 DEF Slot
  <2> HIDE DEF t
  <2>7. /\ slot'[b].ledger = [s.ledger EXCEPT ![p] = notes]
        /\ slot'[b].length = [s.length EXCEPT ![p] = n]
    BY <2>4, <2>6, SummarizedBar
  <2>8. \A q \in Positions \ {p} :
          slot'[b].ledger[q] = s.ledger[q] /\ slot'[b].length[q] = s.length[q]
    BY <2>1, <2>7 DEF Slot
  <2>9. p \in 0 .. bar - 1
    BY <2>1 DEF Positions
  <2> QED
    BY <1>2, <2>8, <2>9 DEF DifferAtOne, s
<1> QED
  BY <1>1, <1>2

(* So does one that stores a length. *)
LEMMA LengthDiffersAtOne ==
  ASSUME LedgerInv, NEW b \in Bars, NEW i \in Nat, NEW k, SetStepEventLength(b, i, k),
         NEW c \in Bars
  PROVE  DifferAtOne(slot'[c], slot[c])
<1> DEFINE p == i * Stride(division)
<1>1. /\ slot \in [Bars -> Slot] /\ bar \in Nat
      /\ i < Steps(bar, division)
      /\ p \in Positions /\ p < bar
  BY BarsAreOK DEF SetStepEventLength
<1>2. \E m : slot' = [slot EXCEPT ![b].length[p] = m]
  BY DEF SetStepEventLength
<1>3. PICK m : slot' = [slot EXCEPT ![b].length[p] = m]
  BY <1>2
<1> HIDE DEF p
<1>4. /\ slot'[c].ledger = slot[c].ledger
      /\ slot'[c].length = IF c = b THEN [slot[c].length EXCEPT ![p] = m] ELSE slot[c].length
  BY <1>1, <1>3 DEF Slot
<1>5. slot[c].length \in [Positions -> 1 .. LedgerMax]
  BY <1>1 DEF Slot
<1>6. \A q \in Positions \ {p} :
        slot'[c].ledger[q] = slot[c].ledger[q] /\ slot'[c].length[q] = slot[c].length[q]
  BY <1>4, <1>5
<1>7. p \in 0 .. bar - 1
  BY <1>1 DEF Positions
<1> QED
  BY <1>6, <1>7 DEF DifferAtOne

(* Skipping a bar changes no position. *)
LEMMA SkipDiffersNowhere ==
  ASSUME LedgerInv, NEW b \in Bars, NEW skip \in BOOLEAN, SetStepBarState(b, skip),
         NEW c \in Bars
  PROVE  DifferAtOne(slot'[c], slot[c])
<1> DEFINE t == [slot[b] EXCEPT !.skip = skip]
<1>1. slot \in [Bars -> Slot]
  BY BarsAreOK
<1>2. t \in Slot /\ t.ledger = slot[b].ledger /\ t.length = slot[b].length
  BY <1>1 DEF Slot
<1>3. slot' = [slot EXCEPT ![b] = Summarized(t)]
  BY DEF SetStepBarState
<1> HIDE DEF t
<1>4. Summarized(t).ledger = slot[b].ledger /\ Summarized(t).length = slot[b].length
  BY <1>2, SummarizedBar
<1>5. slot'[c].ledger = slot[c].ledger /\ slot'[c].length = slot[c].length
  BY <1>1, <1>3, <1>4
<1>6. 0 \in 0 .. bar - 1
  BY BarsAreOK
<1> QED
  BY <1>5, <1>6 DEF DifferAtOne

(* What a step of the editor does to the bars is a call of the bridge, or nothing. *)
LEMMA EditIsACall ==
  ASSUME EditorInv, [Next]_vars, InEditor
  PROVE  \/ UNCHANGED slot
         \/ \E b \in Bars, i \in Nat, notes \in LedgerSlot : Write(b, i, notes)
         \/ \E b \in Bars, i \in Nat : \E k \in Int : SetStepEventLength(b, i, k)
         \/ \E b \in Bars, skip \in BOOLEAN : SetStepBarState(b, skip)
<1> DEFINE Result ==
      \/ UNCHANGED slot
      \/ \E b \in Bars, i \in Nat, notes \in LedgerSlot : Write(b, i, notes)
      \/ \E b \in Bars, i \in Nat : \E k \in Int : SetStepEventLength(b, i, k)
      \/ \E b \in Bars, skip \in BOOLEAN : SetStepBarState(b, skip)
<1> SUFFICES Result
  OBVIOUS
<1>0. /\ LedgerInv /\ cursor \in Nat /\ pending \in Int /\ calls \in Seq(BridgeCalls)
      /\ editing \in Bars \cup {0} /\ Pitches \subseteq 0 .. 127
      /\ Inputs \subseteq LedgerSlot
  BY LedgerAssumption, EditorAssumption DEF EditorInv
<1>1. ASSUME NEW b \in Bars, Enter(b) PROVE FALSE
  BY <1>1 DEF Enter, Idle, InEditor
<1>2. /\ \A b \in Bars, chord \in Chords \cup {{}} : ~ ReplaceBar(b, chord)
      /\ \A draft \in Drafts : ~ CommitFromGrid(draft)
      /\ ~ DraftCall
  BY DEF ReplaceBar, CommitFromGrid, CommitChordDraft, DraftCall, Idle, InEditor, EditorInv
<1>3. CASE \/ NextPosition \/ LeaveAndKeep \/ BeginLength \/ ClearBar \/ LeaveAndRestore
           \/ UNCHANGED vars
           \/ \E turn \in {-1, 1} : ChangeLength(turn)
           \/ \E draft \in Drafts, b \in Bars : CommitInSession(draft, b)
  BY <1>3 DEF NextPosition, LeaveAndKeep, BeginLength, ClearBar, LeaveAndRestore,
              ChangeLength, CommitInSession, CommitChordDraft, vars, ledgerVars
<1>4. ASSUME NEW x \in Pitches, ToggleNote(x)
      PROVE  Result
  <2>1. editing \in Bars /\ x \in 0 .. 127
    BY <1>0, <1>4 DEF ToggleNote, Editing
  <2>2. Toggled(Column(editing, cursor), x) \in LedgerSlot
    BY <1>0, <2>1, ColumnIsNotes, ToggledIsNotes
  <2>3. Write(editing, cursor, Toggled(Column(editing, cursor), x))
    BY <1>4 DEF ToggleNote
  <2> QED
    BY <1>0, <2>1, <2>2, <2>3
<1>5. ASSUME NEW notes \in Inputs, PlaceChord(notes)
      PROVE  Result
  <2>1. editing \in Bars /\ notes \in LedgerSlot /\ Write(editing, cursor, notes)
    BY <1>0, <1>5 DEF PlaceChord, Editing
  <2> QED
    BY <1>0, <2>1
<1>6. CASE EndLength
  <2>1. editing \in Bars /\ SetStepEventLength(editing, cursor, pending)
    BY <1>0, <1>6 DEF EndLength, Editing
  <2> QED
    BY <1>0, <2>1
<1>7. CASE ToggleBarSkip
  <2>1. editing \in Bars /\ SetStepBarState(editing, ~ slot[editing].skip)
    BY <1>0, <1>7 DEF ToggleBarSkip, Editing
  <2>2. (~ slot[editing].skip) \in BOOLEAN
    OBVIOUS
  <2> QED
    BY <2>1, <2>2
<1>8. ASSUME NEW d \in Divisions, NEW n \in BarLengths, ChangeTiming(d, n)
      PROVE  UNCHANGED slot
  <2>1. slot' = [b \in Bars |-> Summarized(slot[b])]
    BY <1>8 DEF ChangeTiming, SetPatternTiming
  <2> QED
    BY <1>0, <2>1, BarsAreOK DEF BarOK
<1>9. CASE BridgeCall
  <2> DEFINE h == Head(calls)
  <2>1. h \in BridgeCalls /\ Write(h.bar, h.column, h.notes)
    BY <1>0, <1>9 DEF BridgeCall
  <2>2. h.bar \in Bars /\ h.column \in Nat /\ h.notes \in LedgerSlot
    BY <2>1 DEF BridgeCalls
  <2> HIDE DEF h
  <2> QED
    BY <2>1, <2>2
<1>10. UNCHANGED slot => Result
  OBVIOUS
<1> HIDE DEF Result
<1> QED
  BY <1>1, <1>2, <1>3, <1>4, <1>5, <1>6, <1>7, <1>8, <1>9, <1>10 DEF Next

(* Every step of the editor changes at most one position of each bar. *)
LEMMA EditDiffersAtOne ==
  ASSUME EditorInv, [Next]_vars, InEditor, NEW c \in Bars
  PROVE  DifferAtOne(slot'[c], slot[c])
<1>1. LedgerInv
  BY DEF EditorInv
<1>2. CASE UNCHANGED slot
  BY <1>1, <1>2, SameDifferNowhere
<1> QED
  BY <1>1, <1>2, EditIsACall, WriteDiffersAtOne, LengthDiffersAtOne, SkipDiffersNowhere

(* Each edit in the bar editor, and each call of its loops, is heard from one place on
   and only up to the next event, whatever lengths are stored. *)
THEOREM EditsAreLocal == Spec => EditIsLocal
<1> DEFINE Local ==
      InEditor /\ bar' = bar =>
        \A b \in Bars : \E p \in Positions : \A i \in 0 .. Steps(bar, division) - 1 :
          \/ p <= i * Stride(division) /\ i * Stride(division) < NextStart(slot[b], p, bar)
          \/ NotesAt(slot'[b], i, 0) = NotesAt(slot[b], i, 0)
<1>1. EditorInv /\ EditorInv' /\ [Next]_vars => [Local]_vars
  <2> SUFFICES ASSUME EditorInv, EditorInv', [Next]_vars, InEditor, NEW b \in Bars
               PROVE  \E p \in Positions : \A i \in 0 .. Steps(bar, division) - 1 :
                        \/ /\ p <= i * Stride(division)
                           /\ i * Stride(division) < NextStart(slot[b], p, bar)
                        \/ NotesAt(slot'[b], i, 0) = NotesAt(slot[b], i, 0)
    OBVIOUS
  <2>1. LedgerInv /\ slot[b] \in Slot /\ bar \in 1 .. LedgerMax /\ LedgerMax \in Nat
    BY BarsAreOK DEF EditorInv
  <2>2. slot'[b] \in Slot
    BY DEF EditorInv, LedgerInv, LedgerIsConsistent, LedgerTypeOK
  <2>3. PICK p \in 0 .. bar - 1 : \A q \in Positions \ {p} :
          slot'[b].ledger[q] = slot[b].ledger[q] /\ slot'[b].length[q] = slot[b].length[q]
    BY EditDiffersAtOne DEF DifferAtOne
  <2>4. p \in Positions
    BY <2>1 DEF Positions
  <2>5. ASSUME NEW i \in 0 .. Steps(bar, division) - 1,
               ~ (p <= i * Stride(division)
                    /\ i * Stride(division) < NextStart(slot[b], p, bar))
        PROVE  NotesAt(slot'[b], i, 0) = NotesAt(slot[b], i, 0)
    BY <2>1, <2>2, <2>3, <2>5, NotesElsewhere
  <2> QED
    BY <2>4, <2>5
<1>2. Init => EditorInv
  BY EditorInitInv
<1> QED
  BY <1>1, <1>2, EditorStep, PTL DEF Spec, EditIsLocal

-----------------------------------------------------------------------------
(* Where an edit leaves the outputs *)

(* Bar t comes from bar s by writing positions: one that was written has the lanes that
   SetStepLedgerSlot gives it. *)
ComesFrom(t, s) ==
  /\ t.explicit = s.explicit
  /\ \A q \in Positions : \/ t.ledger[q] = s.ledger[q] /\ t.lane[q] = s.lane[q]
                          \/ t.lane[q] = LaneByte(s, q, t.ledger[q])

(* The lane stored at the place of a note is the one it was given. *)
LEMMA LaneWritten ==
  ASSUME NEW s \in Slot, NEW t \in Slot, NEW p \in s.explicit, NEW x \in t.ledger[p],
         t.lane[p] = LaneByte(s, p, t.ledger[p])
  PROVE  LaneOf(t, p, x) = LaneAfter(s, p, t.ledger[p], x)
<1> DEFINE notes == t.ledger[p]
           k == Rank(notes, x)
<1>1. p \in Positions /\ notes \in LedgerSlot
  BY DEF Slot
<1>2. /\ IsFiniteSet(notes) /\ notes \in SUBSET Int
      /\ Cardinality(notes) \in Nat /\ Cardinality(notes) <= 4
  BY <1>1, VoicesAreFew
<1>3. k \in 0 .. Cardinality(notes) - 1
  BY <1>2, RankInRange
<1>4. NthLeast(notes, k) \in notes /\ Rank(notes, NthLeast(notes, k)) = k
  BY <1>2, <1>3, NthLeastExists
<1>5. NthLeast(notes, k) = x
  <2> DEFINE y == NthLeast(notes, k)
  <2>1. y \in notes /\ x \in notes /\ Rank(notes, y) = Rank(notes, x)
    BY <1>4
  <2> HIDE DEF y, notes
  <2>2. y = x
    BY <1>2, <2>1, RankIsUnique DEF notes
  <2> QED
    BY <2>2 DEF y, notes
<1>6. k \in Lanes /\ k < Cardinality(notes)
  BY <1>2, <1>3 DEF Lanes
<1>7. LaneOf(t, p, x) = LaneByte(s, p, notes)[k]
  BY DEF LaneOf
<1> HIDE DEF k, notes
<1>8. LaneByte(s, p, notes)[k] = LaneAfter(s, p, notes, NthLeast(notes, k))
  BY <1>6 DEF LaneByte
<1> QED
  BY <1>5, <1>7, <1>8 DEF notes

(* A note that comes in gets a lane that no note that stays has, and no two of them get
   the same. *)
LEMMA LanesAfterDiffer ==
  ASSUME NEW s \in Slot, NEW p \in Positions, NEW notes \in LedgerSlot,
         NEW x \in notes, NEW y \in notes, x \notin s.ledger[p],
         LaneAfter(s, p, notes, x) = LaneAfter(s, p, notes, y)
  PROVE  x = y
<1> DEFINE free  == Free(s, p, notes)
           fresh == notes \ Kept(s, p, notes)
           l     == LaneAfter(s, p, notes, x)
<1>1. l \in free /\ Rank(free, l) = Rank(fresh, x)
  BY LaneAfterOfNote
<1>2. y \notin s.ledger[p]
  <2> SUFFICES ASSUME y \in s.ledger[p] PROVE FALSE
    OBVIOUS
  <2>1. l = LaneOf(s, p, y)
    BY LaneAfterOfNote
  <2>2. y \in Kept(s, p, notes)
    BY DEF Kept
  <2> HIDE DEF l
  <2> QED
    BY <1>1, <2>1, <2>2 DEF Free
<1>3. Rank(free, l) = Rank(fresh, y)
  BY <1>2, LaneAfterOfNote
<1>4. fresh \in SUBSET Int /\ IsFiniteSet(fresh) /\ x \in fresh
  BY FreeLanes
<1>5. y \in fresh
  BY <1>2, FreeLanes
<1>6. Rank(fresh, x) = Rank(fresh, y)
  BY <1>1, <1>3
<1> HIDE DEF fresh
<1> QED
  BY <1>4, <1>5, <1>6, RankIsUnique

(* Among the notes a position has before and after, each keeps its lane; and if no two
   of those that are heard shared one, none do afterwards. *)
LEMMA LanesAreKept ==
  ASSUME NEW s \in Slot, NEW t \in Slot, ComesFrom(t, s), NEW p \in s.explicit, NEW heard
  PROVE  /\ \A x \in s.ledger[p] \cap t.ledger[p] : LaneOf(t, p, x) = LaneOf(s, p, x)
         /\ (\A x, y \in s.ledger[p] \cap heard : LaneOf(s, p, x) = LaneOf(s, p, y) => x = y)
              => \A x, y \in t.ledger[p] \cap heard : LaneOf(t, p, x) = LaneOf(t, p, y) => x = y
<1> DEFINE notes == t.ledger[p]
<1>1. p \in Positions /\ notes \in LedgerSlot
  BY DEF Slot
<1>2. CASE notes = s.ledger[p] /\ t.lane[p] = s.lane[p]
  BY <1>2 DEF LaneOf
<1>3. CASE t.lane[p] = LaneByte(s, p, notes)
  <2>1. \A x \in notes : LaneOf(t, p, x) = LaneAfter(s, p, notes, x)
    BY <1>3, LaneWritten
  <2> HIDE DEF notes
  <2>2. ASSUME NEW x \in notes, x \in s.ledger[p]
        PROVE  LaneOf(t, p, x) = LaneOf(s, p, x)
    BY <1>1, <2>1, <2>2, LaneAfterOfNote
  <2>3. ASSUME NEW x \in notes, NEW y \in notes, x \notin s.ledger[p],
               LaneOf(t, p, x) = LaneOf(t, p, y)
        PROVE  x = y
    <3>1. LaneAfter(s, p, notes, x) = LaneAfter(s, p, notes, y)
      BY <2>1, <2>3
    <3> QED
      BY <1>1, <2>3, <3>1, LanesAfterDiffer
  <2>4. ASSUME \A x, y \in s.ledger[p] \cap heard : LaneOf(s, p, x) = LaneOf(s, p, y) => x = y,
               NEW x \in notes \cap heard, NEW y \in notes \cap heard,
               LaneOf(t, p, x) = LaneOf(t, p, y)
        PROVE  x = y
    <3>1. CASE x \in s.ledger[p] /\ y \in s.ledger[p]
      <4>1. LaneOf(s, p, x) = LaneOf(s, p, y)
        BY <2>2, <2>4, <3>1
      <4> QED
        BY <2>4, <3>1, <4>1
    <3>2. CASE x \notin s.ledger[p]
      BY <2>3, <2>4, <3>2
    <3>3. CASE y \notin s.ledger[p]
      BY <2>3, <2>4, <3>3
    <3> QED
      BY <3>1, <3>2, <3>3
  <2> QED
    BY <2>2, <2>4 DEF notes
<1> QED
  BY <1>1, <1>2, <1>3 DEF ComesFrom

(* The notes that a transposition leaves in the range of MIDI. *)
Heard(t) == {x \in 0 .. 127 : x + t \in 0 .. 127}

(* The outputs of an event with lanes of its own, note by note. *)
LEMMA LanedEvent ==
  ASSUME NEW s, NEW i, NEW t \in -24 .. 24, EventAt(s, i) # {},
         NEW p, p = MaxOf(EventAt(s, i)), OnGrid(p), p \in s.explicit,
         s.ledger[p] \in LedgerSlot
  PROVE  LanedAt(s, i, t)
           = {<<y + t, LaneOf(s, p, y)>> : y \in s.ledger[p] \cap Heard(t)}
<1> DEFINE notes == s.ledger[p]
           heard == Heard(t)
           played == Transposed(notes, t)
<1>1. notes \in SUBSET (0 .. 127)
  BY DEF LedgerSlot
<1>2. LanedAt(s, i, t) = {<<x, LaneOf(s, p, x - t)>> : x \in played}
  BY DEF LanedAt
<1> HIDE DEF notes
<1>3. ASSUME NEW x \in played
      PROVE  \E y \in notes \cap heard : x = y + t /\ x - t = y
  <2>1. PICK y \in notes : x = y + t /\ y + t \in 0 .. 127
    BY <1>3 DEF Transposed
  <2>2. y \in heard /\ x - t = y
    BY <1>1, <2>1 DEF Heard
  <2> QED
    BY <2>1, <2>2
<1>4. ASSUME NEW y \in notes \cap heard
      PROVE  y + t \in played /\ (y + t) - t = y
  BY <1>1, <1>4 DEF Transposed, Heard
<1>5. {<<x, LaneOf(s, p, x - t)>> : x \in played}
        = {<<y + t, LaneOf(s, p, y)>> : y \in notes \cap heard}
  <2> HIDE DEF played, heard
  <2>1. ASSUME NEW x \in played
        PROVE  \E y \in notes \cap heard : <<x, LaneOf(s, p, x - t)>> = <<y + t, LaneOf(s, p, y)>>
    BY <1>3
  <2>2. ASSUME NEW y \in notes \cap heard
        PROVE  \E x \in played : <<y + t, LaneOf(s, p, y)>> = <<x, LaneOf(s, p, x - t)>>
    BY <1>4
  <2> QED
    BY <2>1, <2>2
<1> QED
  BY <1>2, <1>5 DEF notes

(* A bar left alone comes from itself. *)
LEMMA SameComesFrom ==
  ASSUME NEW s
  PROVE  ComesFrom(s, s)
  BY DEF ComesFrom

(* What a call of the bridge writes has the lanes it gives. *)
LEMMA WriteComesFrom ==
  ASSUME LedgerInv, NEW b \in Bars, NEW i \in Nat, NEW notes \in LedgerSlot,
         Write(b, i, notes), NEW c \in Bars
  PROVE  ComesFrom(slot'[c], slot[c])
<1>1. CASE c # b \/ ~ (i < Steps(bar, division))
  <2>1. slot'[c] = slot[c]
    BY <1>1, WriteLedger
  <2> QED
    BY <2>1, SameComesFrom
<1>2. CASE c = b /\ i < Steps(bar, division)
  <2> DEFINE s == slot[b]
             p == i * Stride(division)
             k == Stride(division)
             n == IF ~IsStart(s, p) /\ notes # {} THEN k ELSE s.length[p]
             lanes == LaneByte(s, p, notes)
             t == [s EXCEPT !.ledger[p] = notes, !.lane[p] = lanes, !.length[p] = n]
  <2>1. /\ s \in Slot /\ slot \in [Bars -> Slot] /\ p \in Positions /\ k \in 1 .. LedgerMax
    BY <1>2, BarsAreOK
  <2>2. SetStepLedgerSlot(b, i, notes)
    BY <1>2 DEF Write
  <2>3. WithSlot(s, p, notes, k) = Summarized(t)
    BY DEF WithSlot
  <2>4. slot'[b] = Summarized(t)
    BY <2>1, <2>2, <2>3 DEF SetStepLedgerSlot
  <2>5. lanes \in [Lanes -> Lanes] /\ n \in 1 .. LedgerMax
    BY <2>1, LaneByteIsLanes DEF Slot
  <2> HIDE DEF s, p, k, n, lanes
  <2>6. /\ t \in Slot
        /\ t.ledger = [s.ledger EXCEPT ![p] = notes]
        /\ t.lane = [s.lane EXCEPT ![p] = lanes]
        /\ t.explicit = s.explicit
    BY <2>1, <2>5 DEF Slot
  <2> HIDE DEF t
  <2>7. /\ slot'[b].ledger = [s.ledger EXCEPT ![p] = notes]
        /\ slot'[b].lane = [s.lane EXCEPT ![p] = lanes]
        /\ slot'[b].explicit = s.explicit
    BY <2>4, <2>6, SummarizedBar
  <2>8. /\ s.ledger \in [Positions -> LedgerSlot]
        /\ s.lane \in [Positions -> [Lanes -> Lanes]]
    BY <2>1 DEF Slot
  <2>9. lanes = LaneByte(s, p, notes)
    BY DEF lanes
  <2>10. ASSUME NEW q \in Positions
         PROVE  \/ slot'[b].ledger[q] = s.ledger[q] /\ slot'[b].lane[q] = s.lane[q]
                \/ slot'[b].lane[q] = LaneByte(s, q, slot'[b].ledger[q])
    <3>1. CASE q = p
      <4>1. slot'[b].lane[q] = lanes /\ slot'[b].ledger[q] = notes
        BY <2>7, <2>8, <3>1
      <4> QED
        BY <2>9, <3>1, <4>1
    <3>2. CASE q # p
      BY <2>7, <2>8, <3>2
    <3> QED
      BY <3>1, <3>2
  <2>11. ComesFrom(slot'[b], s)
    BY <2>7, <2>10 DEF ComesFrom
  <2> QED
    BY <1>2, <2>11 DEF s
<1> QED
  BY <1>1, <1>2

(* A bar whose notes and lanes are left alone comes from itself. *)
LEMMA LengthComesFrom ==
  ASSUME LedgerInv, NEW b \in Bars, NEW i \in Nat, NEW k, SetStepEventLength(b, i, k),
         NEW c \in Bars
  PROVE  ComesFrom(slot'[c], slot[c])
<1> DEFINE p == i * Stride(division)
<1>1. slot \in [Bars -> Slot]
  BY BarsAreOK
<1>2. \E m : slot' = [slot EXCEPT ![b].length[p] = m]
  BY DEF SetStepEventLength
<1>3. PICK m : slot' = [slot EXCEPT ![b].length[p] = m]
  BY <1>2
<1> HIDE DEF p
<1>4. /\ slot'[c].ledger = slot[c].ledger /\ slot'[c].lane = slot[c].lane
      /\ slot'[c].explicit = slot[c].explicit
  BY <1>1, <1>3 DEF Slot
<1> QED
  BY <1>4 DEF ComesFrom

(* So does a bar that is skipped or played again. *)
LEMMA SkipComesFrom ==
  ASSUME LedgerInv, NEW b \in Bars, NEW skip \in BOOLEAN, SetStepBarState(b, skip),
         NEW c \in Bars
  PROVE  ComesFrom(slot'[c], slot[c])
<1> DEFINE t == [slot[b] EXCEPT !.skip = skip]
<1>1. slot \in [Bars -> Slot]
  BY BarsAreOK
<1>2. /\ t \in Slot /\ t.ledger = slot[b].ledger /\ t.lane = slot[b].lane
      /\ t.explicit = slot[b].explicit
  BY <1>1 DEF Slot
<1>3. slot' = [slot EXCEPT ![b] = Summarized(t)]
  BY DEF SetStepBarState
<1> HIDE DEF t
<1>4. /\ Summarized(t).ledger = slot[b].ledger /\ Summarized(t).lane = slot[b].lane
      /\ Summarized(t).explicit = slot[b].explicit
  BY <1>2, SummarizedBar
<1>5. /\ slot'[c].ledger = slot[c].ledger /\ slot'[c].lane = slot[c].lane
      /\ slot'[c].explicit = slot[c].explicit
  BY <1>1, <1>3, <1>4
<1> QED
  BY <1>5 DEF ComesFrom

(* Every step of the editor leaves bars that come from those before. *)
LEMMA EditComesFrom ==
  ASSUME EditorInv, [Next]_vars, InEditor, NEW c \in Bars
  PROVE  ComesFrom(slot'[c], slot[c])
<1>1. LedgerInv
  BY DEF EditorInv
<1>2. CASE UNCHANGED slot
  BY <1>2, SameComesFrom
<1> QED
  BY <1>1, <1>2, EditIsACall, WriteComesFrom, LengthComesFrom, SkipComesFrom

(* Of two bars, one made from the other, and an event with lanes of its own that starts at
   the same position in both: what it sounds before and after. *)
LEMMA LanesOfEvent ==
  ASSUME NEW s \in Slot, NEW t \in Slot, ComesFrom(t, s), NEW i, NEW d \in -24 .. 24,
         EventAt(s, i) # {}, EventAt(t, i) # {},
         NEW p \in s.explicit, p = MaxOf(EventAt(s, i)), p = MaxOf(EventAt(t, i)), OnGrid(p)
  PROVE  /\ \A x \in LanedAt(s, i, d), y \in LanedAt(t, i, d) : x[1] = y[1] => x = y
         /\ Apart(LanedAt(s, i, d)) => Apart(LanedAt(t, i, d))
<1> DEFINE old == s.ledger[p] \cap Heard(d)
           new == t.ledger[p] \cap Heard(d)
<1>1. /\ s.ledger[p] \in LedgerSlot /\ t.ledger[p] \in LedgerSlot /\ p \in t.explicit
  BY DEF Slot, ComesFrom
<1>2. LanedAt(s, i, d) = {<<y + d, LaneOf(s, p, y)>> : y \in old}
  <2>1. p = MaxOf(EventAt(s, i)) /\ EventAt(s, i) # {} /\ OnGrid(p) /\ p \in s.explicit
    OBVIOUS
  <2> QED
    BY ONLY <1>1, <2>1, d \in -24 .. 24, LanedEvent, SMTT(30)
<1>3. LanedAt(t, i, d) = {<<y + d, LaneOf(t, p, y)>> : y \in new}
  BY <1>1, LanedEvent
<1>4. old \subseteq Int /\ new \subseteq Int /\ d \in Int
  BY DEF Heard
<1>5. /\ \A x \in s.ledger[p] \cap t.ledger[p] : LaneOf(t, p, x) = LaneOf(s, p, x)
      /\ (\A x, y \in old : LaneOf(s, p, x) = LaneOf(s, p, y) => x = y)
           => \A x, y \in new : LaneOf(t, p, x) = LaneOf(t, p, y) => x = y
  BY LanesAreKept
<1>6. \A x \in old \cap new : LaneOf(t, p, x) = LaneOf(s, p, x)
  BY <1>5
<1> HIDE DEF old, new
<1>7. ASSUME NEW x \in LanedAt(s, i, d), NEW y \in LanedAt(t, i, d), x[1] = y[1]
      PROVE  x = y
  <2>1. PICK v \in old : x = <<v + d, LaneOf(s, p, v)>>
    BY <1>2
  <2>2. PICK w \in new : y = <<w + d, LaneOf(t, p, w)>>
    BY <1>3
  <2>3. v + d = w + d
    BY <1>7, <2>1, <2>2
  <2>4. v = w
    BY <1>4, <2>3
  <2> QED
    BY <1>6, <2>1, <2>2, <2>4
<1>8. ASSUME Apart(LanedAt(s, i, d))
      PROVE  Apart(LanedAt(t, i, d))
  <2>1. ASSUME NEW v \in old, NEW w \in old, LaneOf(s, p, v) = LaneOf(s, p, w)
        PROVE  v = w
    <3> DEFINE x == <<v + d, LaneOf(s, p, v)>>
               y == <<w + d, LaneOf(s, p, w)>>
    <3>1. x \in LanedAt(s, i, d) /\ y \in LanedAt(s, i, d) /\ x[2] = y[2]
      BY <1>2, <2>1
    <3>2. x = y
      <4> HIDE DEF x, y
      <4> QED
        BY <1>8, <3>1 DEF Apart
    <3>3. v + d = w + d
      BY <3>2
    <3> QED
      BY <1>4, <3>3
  <2>2. \A v, w \in new : LaneOf(t, p, v) = LaneOf(t, p, w) => v = w
    BY <1>5, <2>1
  <2>3. ASSUME NEW x \in LanedAt(t, i, d), NEW y \in LanedAt(t, i, d), x[2] = y[2]
        PROVE  x = y
    <3>1. PICK v \in new : x = <<v + d, LaneOf(t, p, v)>>
      BY <1>3
    <3>2. PICK w \in new : y = <<w + d, LaneOf(t, p, w)>>
      BY <1>3
    <3>3. LaneOf(t, p, v) = LaneOf(t, p, w)
      BY <2>3, <3>1, <3>2
    <3>4. v = w
      BY <2>2, <3>3
    <3> QED
      BY <3>1, <3>2, <3>4
  <2> QED
    BY <2>3 DEF Apart
<1> QED
  BY <1>7, <1>8

(* The outputs of an event without lanes of its own: the places of the notes that are
   heard. *)
Ranked(P) == {<<x, Rank(P, x)>> : x \in P}

(* They are those of a finite set of notes. *)
LEMMA RankedEvent ==
  ASSUME NEW s \in Slot, NEW i, NEW t \in -24 .. 24, EventAt(s, i) # {},
         NEW p \in Positions, p = MaxOf(EventAt(s, i)), OnGrid(p), p \notin s.explicit
  PROVE  \E P \in SUBSET Int : IsFiniteSet(P) /\ LanedAt(s, i, t) = Ranked(P)
<1> DEFINE played == Transposed(s.ledger[p], t)
<1>1. played \subseteq 0 .. 127
  BY DEF Transposed
<1>2. IsFiniteSet(0 .. 127)
  <2>1. 0 \in Int /\ 127 \in Int
    OBVIOUS
  <2> QED
    BY <2>1, FS_Interval
<1>3. IsFiniteSet(played) /\ played \in SUBSET Int
  <2>1. \A x \in 0 .. 127 : x \in Int
    OBVIOUS
  <2>2. IsFiniteSet(played)
    BY <1>1, <1>2, FS_Subset
  <2> HIDE DEF played
  <2> QED
    BY <1>1, <2>1, <2>2
<1>4. LanedAt(s, i, t) = Ranked(played)
  BY DEF LanedAt, Ranked
<1> HIDE DEF played
<1> QED
  BY <1>3, <1>4

(* A note with the same notes below it has the same place, and each note its own. *)
LEMMA PlacesOfNotes ==
  ASSUME NEW P \in SUBSET Int, NEW Q \in SUBSET Int, IsFiniteSet(Q)
  PROVE  /\ \A x \in Ranked(P), y \in Ranked(Q) :
              x[1] = y[1] /\ Below(Ranked(P), x[1]) = Below(Ranked(Q), x[1]) => x = y
         /\ Apart(Ranked(Q))
<1>1. ASSUME NEW S \in SUBSET Int, NEW v \in Int
      PROVE  Below(Ranked(S), v) = {u \in S : u < v}
  <2>1. ASSUME NEW u \in Below(Ranked(S), v)
        PROVE  u \in S /\ u < v
    BY <2>1 DEF Below, Ranked
  <2>2. ASSUME NEW u \in S, u < v
        PROVE  u \in Below(Ranked(S), v)
    <3>1. <<u, Rank(S, u)>> \in Ranked(S) /\ <<u, Rank(S, u)>>[1] = u
      BY DEF Ranked
    <3> QED
      BY <2>2, <3>1 DEF Below
  <2> QED
    BY <2>1, <2>2
<1>2. ASSUME NEW x \in Ranked(P), NEW y \in Ranked(Q), x[1] = y[1],
             Below(Ranked(P), x[1]) = Below(Ranked(Q), x[1])
      PROVE  x = y
  <2>1. PICK v \in P : x = <<v, Rank(P, v)>>
    BY DEF Ranked
  <2>2. PICK w \in Q : y = <<w, Rank(Q, w)>>
    BY DEF Ranked
  <2>3. v = w /\ x[1] = v /\ v \in Int
    BY <1>2, <2>1, <2>2
  <2>4. {u \in P : u < v} = {u \in Q : u < v}
    BY <1>1, <1>2, <2>3
  <2>5. Rank(P, v) = Rank(Q, v)
    BY <2>4 DEF Rank
  <2> QED
    BY <2>1, <2>2, <2>3, <2>5
<1>3. ASSUME NEW x \in Ranked(Q), NEW y \in Ranked(Q), x[2] = y[2]
      PROVE  x = y
  <2>1. PICK v \in Q : x = <<v, Rank(Q, v)>>
    BY DEF Ranked
  <2>2. PICK w \in Q : y = <<w, Rank(Q, w)>>
    BY DEF Ranked
  <2>3. Rank(Q, v) = Rank(Q, w)
    BY <1>3, <2>1, <2>2
  <2>4. v = w
    BY <2>3, RankIsUnique
  <2> QED
    BY <2>1, <2>2, <2>4
<1> QED
  BY <1>2, <1>3 DEF Apart

(* The event that sounds at a step starts at a position of the bar, on the grid. *)
LEMMA EventStartsOnGrid ==
  ASSUME LedgerInv, NEW b \in Bars, NEW i \in 0 .. Steps(bar, division) - 1,
         EventAt(slot[b], i) # {}
  PROVE  OnGrid(MaxOf(EventAt(slot[b], i))) /\ MaxOf(EventAt(slot[b], i)) \in Positions
<1> DEFINE x == i * Stride(division)
           s == slot[b]
<1>1. /\ s \in Slot /\ bar \in 1 .. LedgerMax /\ LedgerMax \in Nat
      /\ i < Steps(bar, division) /\ x \in 0 .. bar - 1 /\ x < bar
      /\ \A q \in Positions : IsStart(s, q) => OnGrid(q)
  BY BarsAreOK DEF Positions, BarOK
<1> HIDE DEF x, s
<1>2. EventAt(s, i) = Reaching(s, x, bar)
  BY <1>1 DEF EventAt, x
<1>3. PICK q : q \in Reaching(s, x, bar)
  BY <1>2 DEF s
<1>4. MaxOf(EventAt(s, i)) = q
  BY <1>1, <1>2, <1>3, OneEventReaches
<1>5. q \in Positions /\ IsStart(s, q)
  BY <1>1, <1>3 DEF Reaching, Positions
<1> QED
  BY <1>1, <1>4, <1>5 DEF s

(* While the editor is open, an edit leaves the notes that go on sounding in the event that
   begins at the same place at the outputs assigned to it, and brings no two notes to one
   that shared none; and in an event whose outputs follow the order of its notes it moves
   a note only if one below it came or went, and no two ever share one.  For any
   transposition of the song, also one that drops notes. *)
THEOREM NotesStayOnTheirOutput == Spec => NotesKeepTheirLane
<1> DEFINE KeepTheirLane ==
      InEditor /\ UNCHANGED <<division, bar>> =>
        \A b \in {c \in Bars : slot'[c] # slot[c]}, t \in Transpositions :
        \A i \in {j \in 0 .. Steps(bar, division) - 1 :
                   EventAt(slot[b], j) # {} /\ EventAt(slot'[b], j) # {}} :
          LET start    == MaxOf(EventAt(slot[b], i))
              assigned == start \in slot[b].explicit
              before   == LanedAt(slot[b], i, t)
              after    == LanedAt(slot'[b], i, t)
          IN MaxOf(EventAt(slot'[b], i)) = start =>
               /\ \A x \in before, y \in after :
                    /\ x[1] = y[1]
                    /\ assigned \/ Below(before, x[1]) = Below(after, x[1])
                    => x = y
               /\ (assigned => Apart(before)) => Apart(after)
<1>1. EditorInv /\ EditorInv' /\ [Next]_vars => [KeepTheirLane]_vars
  <2> SUFFICES ASSUME EditorInv, EditorInv', [Next]_vars, InEditor,
                      NEW b \in Bars, NEW t \in Transpositions,
                      NEW i \in 0 .. Steps(bar, division) - 1,
                      EventAt(slot[b], i) # {}, EventAt(slot'[b], i) # {},
                      MaxOf(EventAt(slot'[b], i)) = MaxOf(EventAt(slot[b], i))
               PROVE  LET assigned == MaxOf(EventAt(slot[b], i)) \in slot[b].explicit
                          before   == LanedAt(slot[b], i, t)
                          after    == LanedAt(slot'[b], i, t)
                      IN /\ \A x \in before, y \in after :
                              /\ x[1] = y[1]
                              /\ assigned \/ Below(before, x[1]) = Below(after, x[1])
                              => x = y
                         /\ (assigned => Apart(before)) => Apart(after)
    OBVIOUS
  <2> DEFINE p == MaxOf(EventAt(slot[b], i))
  <2>1. LedgerInv /\ slot[b] \in Slot
    BY BarsAreOK DEF EditorInv
  <2>2. slot'[b] \in Slot
    BY DEF EditorInv, LedgerInv, LedgerIsConsistent, LedgerTypeOK
  <2>3. t \in -24 .. 24
    BY EditorAssumption
  <2>4. ComesFrom(slot'[b], slot[b])
    BY EditComesFrom
  <2>5. OnGrid(p) /\ p \in Positions
    BY <2>1, EventStartsOnGrid
  <2>6. CASE p \in slot[b].explicit
    <3>1. /\ \A x \in LanedAt(slot[b], i, t), y \in LanedAt(slot'[b], i, t) :
               x[1] = y[1] => x = y
          /\ Apart(LanedAt(slot[b], i, t)) => Apart(LanedAt(slot'[b], i, t))
      BY <2>1, <2>2, <2>3, <2>4, <2>5, <2>6, LanesOfEvent
    <3> QED
      BY <2>6, <3>1
  <2>7. CASE p \notin slot[b].explicit
    <3>1. p \notin slot'[b].explicit /\ p = MaxOf(EventAt(slot'[b], i))
      BY <2>4, <2>7 DEF ComesFrom
    <3> HIDE DEF p
    <3>2. PICK P \in SUBSET Int : LanedAt(slot[b], i, t) = Ranked(P)
      BY <2>1, <2>3, <2>5, <2>7, RankedEvent DEF p
    <3>3. PICK Q \in SUBSET Int : IsFiniteSet(Q) /\ LanedAt(slot'[b], i, t) = Ranked(Q)
      BY <2>2, <2>3, <2>5, <3>1, RankedEvent
    <3>4. /\ \A x \in Ranked(P), y \in Ranked(Q) :
               x[1] = y[1] /\ Below(Ranked(P), x[1]) = Below(Ranked(Q), x[1]) => x = y
          /\ Apart(Ranked(Q))
      BY <3>3, PlacesOfNotes
    <3>5. /\ \A x \in LanedAt(slot[b], i, t), y \in LanedAt(slot'[b], i, t) :
               /\ x[1] = y[1]
               /\ Below(LanedAt(slot[b], i, t), x[1]) = Below(LanedAt(slot'[b], i, t), x[1])
               => x = y
          /\ Apart(LanedAt(slot'[b], i, t))
      BY <3>2, <3>3, <3>4
    <3> QED
      BY <2>7, <3>5 DEF p
  <2> QED
    BY <2>6, <2>7
<1>2. Init => EditorInv
  BY EditorInitInv
<1> QED
  BY <1>1, <1>2, EditorStep, PTL DEF Spec, NotesKeepTheirLane

(* Both of what the run checks: no call of the bar editor changes what is heard outside
   the event edited, or moves a note to another output but where the order of the notes
   decides it. *)
THEOREM EditsStayInPlace == Spec => EditStaysInPlace
BY EditsAreLocal, NotesStayOnTheirOutput DEF EditStaysInPlace

-----------------------------------------------------------------------------
(* The array of lengths, five bits each *)

(* The powers that a place in a byte is shifted by. *)
LEMMA PowersOfTwo ==
  /\ 2 ^ 0 = 1 /\ 2 ^ 1 = 2 /\ 2 ^ 2 = 4 /\ 2 ^ 3 = 8 /\ 2 ^ 4 = 16
  /\ 2 ^ 5 = 32 /\ 2 ^ 6 = 64 /\ 2 ^ 7 = 128
BY SMT

(* And those that tell bytes apart. *)
LEMMA PowersOfByte == 256 ^ 0 = 1 /\ 256 ^ 1 = 256 /\ 256 ^ 2 = 65536
BY SMT

(* Eight fields fill five bytes: the byte a field begins in, and its place there. *)
LEMMA FieldOf ==
  ASSUME NEW p \in Nat, NEW u \in Nat
  PROVE  /\ p = 8 * u => Packed!ByteOf(p) = 5 * u /\ Packed!ShiftOf(p) = 1
         /\ p = 8 * u + 1 => Packed!ByteOf(p) = 5 * u /\ Packed!ShiftOf(p) = 32
         /\ p = 8 * u + 2 => Packed!ByteOf(p) = 5 * u + 1 /\ Packed!ShiftOf(p) = 4
         /\ p = 8 * u + 3 => Packed!ByteOf(p) = 5 * u + 1 /\ Packed!ShiftOf(p) = 128
         /\ p = 8 * u + 4 => Packed!ByteOf(p) = 5 * u + 2 /\ Packed!ShiftOf(p) = 16
         /\ p = 8 * u + 5 => Packed!ByteOf(p) = 5 * u + 3 /\ Packed!ShiftOf(p) = 2
         /\ p = 8 * u + 6 => Packed!ByteOf(p) = 5 * u + 3 /\ Packed!ShiftOf(p) = 64
         /\ p = 8 * u + 7 => Packed!ByteOf(p) = 5 * u + 4 /\ Packed!ShiftOf(p) = 8
<1>0. ASSUME p = 8 * u PROVE Packed!ByteOf(p) = 5 * u /\ Packed!ShiftOf(p) = 1
  <2>1. (p * 5) \div 8 = 5 * u /\ (p * 5) % 8 = 0
    BY <1>0, SMT
  <2>2. Packed!ByteOf(p) = 5 * u /\ Packed!ShiftOf(p) = 2 ^ 0
    BY <2>1, Zenon DEF Packed!ByteOf, Packed!ShiftOf, Packed!FieldBits
  <2> QED BY <2>2, PowersOfTwo, SMT
<1>1. ASSUME p = 8 * u + 1 PROVE Packed!ByteOf(p) = 5 * u /\ Packed!ShiftOf(p) = 32
  <2>1. (p * 5) \div 8 = 5 * u /\ (p * 5) % 8 = 5
    BY <1>1, SMT
  <2>2. Packed!ByteOf(p) = 5 * u /\ Packed!ShiftOf(p) = 2 ^ 5
    BY <2>1, Zenon DEF Packed!ByteOf, Packed!ShiftOf, Packed!FieldBits
  <2> QED BY <2>2, PowersOfTwo, SMT
<1>2. ASSUME p = 8 * u + 2 PROVE Packed!ByteOf(p) = 5 * u + 1 /\ Packed!ShiftOf(p) = 4
  <2>1. (p * 5) \div 8 = 5 * u + 1 /\ (p * 5) % 8 = 2
    BY <1>2, SMT
  <2>2. Packed!ByteOf(p) = 5 * u + 1 /\ Packed!ShiftOf(p) = 2 ^ 2
    BY <2>1, Zenon DEF Packed!ByteOf, Packed!ShiftOf, Packed!FieldBits
  <2> QED BY <2>2, PowersOfTwo, SMT
<1>3. ASSUME p = 8 * u + 3 PROVE Packed!ByteOf(p) = 5 * u + 1 /\ Packed!ShiftOf(p) = 128
  <2>1. (p * 5) \div 8 = 5 * u + 1 /\ (p * 5) % 8 = 7
    BY <1>3, SMT
  <2>2. Packed!ByteOf(p) = 5 * u + 1 /\ Packed!ShiftOf(p) = 2 ^ 7
    BY <2>1, Zenon DEF Packed!ByteOf, Packed!ShiftOf, Packed!FieldBits
  <2> QED BY <2>2, PowersOfTwo, SMT
<1>4. ASSUME p = 8 * u + 4 PROVE Packed!ByteOf(p) = 5 * u + 2 /\ Packed!ShiftOf(p) = 16
  <2>1. (p * 5) \div 8 = 5 * u + 2 /\ (p * 5) % 8 = 4
    BY <1>4, SMT
  <2>2. Packed!ByteOf(p) = 5 * u + 2 /\ Packed!ShiftOf(p) = 2 ^ 4
    BY <2>1, Zenon DEF Packed!ByteOf, Packed!ShiftOf, Packed!FieldBits
  <2> QED BY <2>2, PowersOfTwo, SMT
<1>5. ASSUME p = 8 * u + 5 PROVE Packed!ByteOf(p) = 5 * u + 3 /\ Packed!ShiftOf(p) = 2
  <2>1. (p * 5) \div 8 = 5 * u + 3 /\ (p * 5) % 8 = 1
    BY <1>5, SMT
  <2>2. Packed!ByteOf(p) = 5 * u + 3 /\ Packed!ShiftOf(p) = 2 ^ 1
    BY <2>1, Zenon DEF Packed!ByteOf, Packed!ShiftOf, Packed!FieldBits
  <2> QED BY <2>2, PowersOfTwo, SMT
<1>6. ASSUME p = 8 * u + 6 PROVE Packed!ByteOf(p) = 5 * u + 3 /\ Packed!ShiftOf(p) = 64
  <2>1. (p * 5) \div 8 = 5 * u + 3 /\ (p * 5) % 8 = 6
    BY <1>6, SMT
  <2>2. Packed!ByteOf(p) = 5 * u + 3 /\ Packed!ShiftOf(p) = 2 ^ 6
    BY <2>1, Zenon DEF Packed!ByteOf, Packed!ShiftOf, Packed!FieldBits
  <2> QED BY <2>2, PowersOfTwo, SMT
<1>7. ASSUME p = 8 * u + 7 PROVE Packed!ByteOf(p) = 5 * u + 4 /\ Packed!ShiftOf(p) = 8
  <2>1. (p * 5) \div 8 = 5 * u + 4 /\ (p * 5) % 8 = 3
    BY <1>7, SMT
  <2>2. Packed!ByteOf(p) = 5 * u + 4 /\ Packed!ShiftOf(p) = 2 ^ 3
    BY <2>1, Zenon DEF Packed!ByteOf, Packed!ShiftOf, Packed!FieldBits
  <2> QED BY <2>2, PowersOfTwo, SMT
<1> QED BY <1>0, <1>1, <1>2, <1>3, <1>4, <1>5, <1>6, <1>7, SMT

(* Three bytes make a number, and are what is read out of it. *)
MadeOf(w, x, y, z) == w = x + 256 * y + 65536 * z
ReadAs(w, x, y, z) ==
  w \in Int /\ w % 256 = x /\ (w \div 256) % 256 = y /\ (w \div 65536) % 256 = z

(* Three bytes are read out of the number they make. *)
LEMMA ThreeBytes ==
  ASSUME NEW x \in 0 .. 255, NEW y \in 0 .. 255, NEW z \in 0 .. 255,
         NEW w, MadeOf(w, x, y, z)
  PROVE  ReadAs(w, x, y, z)
<1>0. w = x + 256 * y + 65536 * z
  BY SMT DEF MadeOf
<1>1. w % 256 = x /\ w \div 256 = y + 256 * z
  BY <1>0, SMT
<1>2. (y + 256 * z) % 256 = y
  BY SMT
<1>3. w \div 65536 = z /\ w \in Int
  BY <1>0, SMT
<1>4. z % 256 = z
  BY SMT
<1>5. (w \div 256) % 256 = y
  BY <1>1, <1>2, SMT
<1>6. (w \div 65536) % 256 = z
  BY <1>3, <1>4, SMT
<1> QED BY <1>1, <1>3, <1>5, <1>6, SMT DEF ReadAs

(* The fields of an array, those behind its last position being 0, and the bytes they
   are laid out in: eight fields fill five bytes. *)
FieldAt(f, q) == IF q \in Positions THEN f[q] ELSE 0
LayoutByte(f, j) ==
  LET a(i) == FieldAt(f, 8 * (j \div 5) + i) IN
  IF j % 5 = 0 THEN a(0) + 32 * (a(1) % 8)
  ELSE IF j % 5 = 1 THEN a(1) \div 8 + 4 * a(2) + 128 * (a(3) % 2)
  ELSE IF j % 5 = 2 THEN a(3) \div 2 + 16 * (a(4) % 16)
  ELSE IF j % 5 = 3 THEN a(4) \div 16 + 2 * a(5) + 64 * (a(6) % 4)
  ELSE a(6) \div 4 + 8 * a(7)
Layout(f) == [j \in 0 .. Packed!Bytes - 1 |-> LayoutByte(f, j)]
FieldArrays == [Positions -> 0 .. 31]
Chunk(f, j) == LayoutByte(f, j) + 256 * LayoutByte(f, j + 1) + 65536 * LayoutByte(f, j + 2)

(* A field has five bits. *)
LEMMA FieldsAreSmall ==
  ASSUME NEW f \in FieldArrays, NEW q
  PROVE  FieldAt(f, q) \in 0 .. 31
BY SMT DEF FieldArrays, FieldAt

(* The five bytes of eight fields. *)
LEMMA LayoutBytes ==
  ASSUME NEW f, NEW u \in Nat, NEW j \in Nat
  PROVE  /\ j = 5 * u =>
              LayoutByte(f, j) = FieldAt(f, 8 * u) + 32 * (FieldAt(f, 8 * u + 1) % 8)
         /\ j = 5 * u + 1 =>
              LayoutByte(f, j) = FieldAt(f, 8 * u + 1) \div 8 + 4 * FieldAt(f, 8 * u + 2)
                                   + 128 * (FieldAt(f, 8 * u + 3) % 2)
         /\ j = 5 * u + 2 =>
              LayoutByte(f, j) = FieldAt(f, 8 * u + 3) \div 2 + 16 * (FieldAt(f, 8 * u
                + 4) % 16)
         /\ j = 5 * u + 3 =>
              LayoutByte(f, j) = FieldAt(f, 8 * u + 4) \div 16 + 2 * FieldAt(f, 8 * u + 5)
                                   + 64 * (FieldAt(f, 8 * u + 6) % 4)
         /\ j = 5 * u + 4 =>
              LayoutByte(f, j) = FieldAt(f, 8 * u + 6) \div 4 + 8 * FieldAt(f, 8 * u + 7)
<1>0. 8 * u + 0 = 8 * u
  BY SMT
<1>1. ASSUME j = 5 * u
      PROVE  LayoutByte(f, j) =
            FieldAt(f, 8 * u) + 32 * (FieldAt(f, 8 * u + 1) % 8)
  <2>1. j \div 5 = u /\ j % 5 = 0
    BY <1>1, SMT
  <2> QED BY <2>1, <1>0, SMT DEF LayoutByte
<1>2. ASSUME j = 5 * u + 1
      PROVE  LayoutByte(f, j) =
            FieldAt(f, 8 * u + 1) \div 8 + 4 * FieldAt(f, 8 * u + 2)
              + 128 * (FieldAt(f, 8 * u + 3) % 2)
  <2>1. j \div 5 = u /\ j % 5 = 1
    BY <1>2, SMT
  <2> QED BY <2>1, <1>0, SMT DEF LayoutByte
<1>3. ASSUME j = 5 * u + 2
      PROVE  LayoutByte(f, j) =
            FieldAt(f, 8 * u + 3) \div 2 + 16 * (FieldAt(f, 8 * u + 4) % 16)
  <2>1. j \div 5 = u /\ j % 5 = 2
    BY <1>3, SMT
  <2> QED BY <2>1, <1>0, SMT DEF LayoutByte
<1>4. ASSUME j = 5 * u + 3
      PROVE  LayoutByte(f, j) =
            FieldAt(f, 8 * u + 4) \div 16 + 2 * FieldAt(f, 8 * u + 5)
              + 64 * (FieldAt(f, 8 * u + 6) % 4)
  <2>1. j \div 5 = u /\ j % 5 = 3
    BY <1>4, SMT
  <2> QED BY <2>1, <1>0, SMT DEF LayoutByte
<1>5. ASSUME j = 5 * u + 4
      PROVE  LayoutByte(f, j) =
            FieldAt(f, 8 * u + 6) \div 4 + 8 * FieldAt(f, 8 * u + 7)
  <2>1. j \div 5 = u /\ j % 5 = 4
    BY <1>5, SMT
  <2> QED BY <2>1, <1>0, SMT DEF LayoutByte
<1> QED BY <1>1, <1>2, <1>3, <1>4, <1>5, Zenon

(* The fields of a byte fit into it. *)
LEMMA BytesAreSmall ==
  ASSUME NEW f \in FieldArrays, NEW j \in Nat
  PROVE  LayoutByte(f, j) \in 0 .. 255
<1> DEFINE u == j \div 5
<1>1. u \in Nat /\ \E c \in 0 .. 4 : j = 5 * u + c
  BY SMT
<1> HIDE DEF u
<1>0. 5 * u + 0 = 5 * u
  BY <1>1, SMT
<1>2. ASSUME j = 5 * u PROVE LayoutByte(f, j) \in 0 .. 255
  <2> DEFINE a0 == FieldAt(f, 8 * u)  a1 == FieldAt(f, 8 * u + 1)
  <2>1. a0 \in 0 .. 31 /\ a1 \in 0 .. 31
    BY FieldsAreSmall, Zenon
  <2>2. LayoutByte(f, j) = a0 + 32 * (a1 % 8)
    BY <1>1, <1>2, LayoutBytes, Zenon
  <2> HIDE DEF a0, a1
  <2>3. a0 + 32 * (a1 % 8) \in 0 .. 255
    BY <2>1, SMT
  <2> QED BY <2>2, <2>3, Zenon
<1>3. ASSUME j = 5 * u + 1 PROVE LayoutByte(f, j) \in 0 .. 255
  <2> DEFINE a1 == FieldAt(f, 8 * u + 1)  a2 == FieldAt(f, 8 * u
    + 2)  a3 == FieldAt(f, 8 * u + 3)
  <2>1. a1 \in 0 .. 31 /\ a2 \in 0 .. 31 /\ a3 \in 0 .. 31
    BY FieldsAreSmall, Zenon
  <2>2. LayoutByte(f, j) = a1 \div 8 + 4 * a2 + 128 * (a3 % 2)
    BY <1>1, <1>3, LayoutBytes, Zenon
  <2> HIDE DEF a1, a2, a3
  <2>3. a1 \div 8 + 4 * a2 + 128 * (a3 % 2) \in 0 .. 255
    BY <2>1, SMT
  <2> QED BY <2>2, <2>3, Zenon
<1>4. ASSUME j = 5 * u + 2 PROVE LayoutByte(f, j) \in 0 .. 255
  <2> DEFINE a3 == FieldAt(f, 8 * u + 3)  a4 == FieldAt(f, 8 * u + 4)
  <2>1. a3 \in 0 .. 31 /\ a4 \in 0 .. 31
    BY FieldsAreSmall, Zenon
  <2>2. LayoutByte(f, j) = a3 \div 2 + 16 * (a4 % 16)
    BY <1>1, <1>4, LayoutBytes, Zenon
  <2> HIDE DEF a3, a4
  <2>3. a3 \div 2 + 16 * (a4 % 16) \in 0 .. 255
    BY <2>1, SMT
  <2> QED BY <2>2, <2>3, Zenon
<1>5. ASSUME j = 5 * u + 3 PROVE LayoutByte(f, j) \in 0 .. 255
  <2> DEFINE a4 == FieldAt(f, 8 * u + 4)  a5 == FieldAt(f, 8 * u
    + 5)  a6 == FieldAt(f, 8 * u + 6)
  <2>1. a4 \in 0 .. 31 /\ a5 \in 0 .. 31 /\ a6 \in 0 .. 31
    BY FieldsAreSmall, Zenon
  <2>2. LayoutByte(f, j) = a4 \div 16 + 2 * a5 + 64 * (a6 % 4)
    BY <1>1, <1>5, LayoutBytes, Zenon
  <2> HIDE DEF a4, a5, a6
  <2>3. a4 \div 16 + 2 * a5 + 64 * (a6 % 4) \in 0 .. 255
    BY <2>1, SMT
  <2> QED BY <2>2, <2>3, Zenon
<1>6. ASSUME j = 5 * u + 4 PROVE LayoutByte(f, j) \in 0 .. 255
  <2> DEFINE a6 == FieldAt(f, 8 * u + 6)  a7 == FieldAt(f, 8 * u + 7)
  <2>1. a6 \in 0 .. 31 /\ a7 \in 0 .. 31
    BY FieldsAreSmall, Zenon
  <2>2. LayoutByte(f, j) = a6 \div 4 + 8 * a7
    BY <1>1, <1>6, LayoutBytes, Zenon
  <2> HIDE DEF a6, a7
  <2>3. a6 \div 4 + 8 * a7 \in 0 .. 255
    BY <2>1, SMT
  <2> QED BY <2>2, <2>3, Zenon
<1> QED BY <1>0, <1>1, <1>2, <1>3, <1>4, <1>5, <1>6, SMT

(* Nothing but field p differs, which is v now. *)
Changed(f, t, p, v) ==
  t[p] = v /\ \A q \in Positions : q # p => t[q] = f[q]

(* The fields around the one that changed. *)
LEMMA OtherFields ==
  ASSUME NEW f \in FieldArrays, NEW p \in Positions, NEW v \in 0 .. 31,
         NEW t \in FieldArrays, Changed(f, t, p, v)
  PROVE  FieldAt(t, p) = v /\ FieldAt(f, p) = f[p]
         /\ \A q : q # p => FieldAt(t, q) = FieldAt(f, q)
BY SMT DEF FieldArrays, FieldAt, Changed

(* A byte that no bit of the field lies in stays as it was. *)
LEMMA OtherBytes ==
  ASSUME NEW f \in FieldArrays, NEW p \in Positions, NEW v \in 0 .. 31,
         NEW t \in FieldArrays, Changed(f, t, p, v),
         NEW j \in Nat, 5 * p + 4 < 8 * j \/ 8 * j + 7 < 5 * p
  PROVE  LayoutByte(t, j) = LayoutByte(f, j)
<1> DEFINE u == j \div 5
<1>1. u \in Nat /\ \E c \in 0 .. 4 : j = 5 * u + c
  BY SMT
<1>2. p \in Nat
  BY LedgerAssumption, SMT DEF Positions
<1> HIDE DEF u
<1>4. \A q : q # p => FieldAt(t, q) = FieldAt(f, q)
  BY OtherFields, Zenon
<1>0. 5 * u + 0 = 5 * u
  BY <1>1, SMT
<1>5. ASSUME j = 5 * u PROVE LayoutByte(t, j) = LayoutByte(f, j)
  <2>1. p # 8 * u /\ p # 8 * u + 1
    BY <1>1, <1>2, <1>5, SMT
  <2>2. FieldAt(t, 8 * u) = FieldAt(f, 8 * u)
        /\ FieldAt(t, 8 * u + 1) = FieldAt(f, 8 * u + 1)
    BY <2>1, <1>4, Zenon
  <2>3. LayoutByte(f, j) =
          FieldAt(f, 8 * u) + 32 * (FieldAt(f, 8 * u + 1) % 8)
    BY <1>1, <1>5, LayoutBytes, Zenon
  <2>4. LayoutByte(t, j) =
          FieldAt(t, 8 * u) + 32 * (FieldAt(t, 8 * u + 1) % 8)
    BY <1>1, <1>5, LayoutBytes, Zenon
  <2> QED BY <2>2, <2>3, <2>4, Zenon
<1>6. ASSUME j = 5 * u + 1 PROVE LayoutByte(t, j) = LayoutByte(f, j)
  <2>1. p # 8 * u + 1 /\ p # 8 * u + 2 /\ p # 8 * u + 3
    BY <1>1, <1>2, <1>6, SMT
  <2>2. FieldAt(t, 8 * u + 1) = FieldAt(f, 8 * u + 1)
        /\ FieldAt(t, 8 * u + 2) = FieldAt(f, 8 * u + 2)
        /\ FieldAt(t, 8 * u + 3) = FieldAt(f, 8 * u + 3)
    BY <2>1, <1>4, Zenon
  <2>3. LayoutByte(f, j) =
          FieldAt(f, 8 * u + 1) \div 8 + 4 * FieldAt(f, 8 * u + 2) + 128 * (FieldAt(f, 8 * u
            + 3) % 2)
    BY <1>1, <1>6, LayoutBytes, Zenon
  <2>4. LayoutByte(t, j) =
          FieldAt(t, 8 * u + 1) \div 8 + 4 * FieldAt(t, 8 * u + 2) + 128 * (FieldAt(t, 8 * u
            + 3) % 2)
    BY <1>1, <1>6, LayoutBytes, Zenon
  <2> QED BY <2>2, <2>3, <2>4, Zenon
<1>7. ASSUME j = 5 * u + 2 PROVE LayoutByte(t, j) = LayoutByte(f, j)
  <2>1. p # 8 * u + 3 /\ p # 8 * u + 4
    BY <1>1, <1>2, <1>7, SMT
  <2>2. FieldAt(t, 8 * u + 3) = FieldAt(f, 8 * u + 3)
        /\ FieldAt(t, 8 * u + 4) = FieldAt(f, 8 * u + 4)
    BY <2>1, <1>4, Zenon
  <2>3. LayoutByte(f, j) =
          FieldAt(f, 8 * u + 3) \div 2 + 16 * (FieldAt(f, 8 * u + 4) % 16)
    BY <1>1, <1>7, LayoutBytes, Zenon
  <2>4. LayoutByte(t, j) =
          FieldAt(t, 8 * u + 3) \div 2 + 16 * (FieldAt(t, 8 * u + 4) % 16)
    BY <1>1, <1>7, LayoutBytes, Zenon
  <2> QED BY <2>2, <2>3, <2>4, Zenon
<1>8. ASSUME j = 5 * u + 3 PROVE LayoutByte(t, j) = LayoutByte(f, j)
  <2>1. p # 8 * u + 4 /\ p # 8 * u + 5 /\ p # 8 * u + 6
    BY <1>1, <1>2, <1>8, SMT
  <2>2. FieldAt(t, 8 * u + 4) = FieldAt(f, 8 * u + 4)
        /\ FieldAt(t, 8 * u + 5) = FieldAt(f, 8 * u + 5)
        /\ FieldAt(t, 8 * u + 6) = FieldAt(f, 8 * u + 6)
    BY <2>1, <1>4, Zenon
  <2>3. LayoutByte(f, j) =
          FieldAt(f, 8 * u + 4) \div 16 + 2 * FieldAt(f, 8 * u + 5) + 64 * (FieldAt(f, 8 * u
            + 6) % 4)
    BY <1>1, <1>8, LayoutBytes, Zenon
  <2>4. LayoutByte(t, j) =
          FieldAt(t, 8 * u + 4) \div 16 + 2 * FieldAt(t, 8 * u + 5) + 64 * (FieldAt(t, 8 * u
            + 6) % 4)
    BY <1>1, <1>8, LayoutBytes, Zenon
  <2> QED BY <2>2, <2>3, <2>4, Zenon
<1>9. ASSUME j = 5 * u + 4 PROVE LayoutByte(t, j) = LayoutByte(f, j)
  <2>1. p # 8 * u + 6 /\ p # 8 * u + 7
    BY <1>1, <1>2, <1>9, SMT
  <2>2. FieldAt(t, 8 * u + 6) = FieldAt(f, 8 * u + 6)
        /\ FieldAt(t, 8 * u + 7) = FieldAt(f, 8 * u + 7)
    BY <2>1, <1>4, Zenon
  <2>3. LayoutByte(f, j) =
          FieldAt(f, 8 * u + 6) \div 4 + 8 * FieldAt(f, 8 * u + 7)
    BY <1>1, <1>9, LayoutBytes, Zenon
  <2>4. LayoutByte(t, j) =
          FieldAt(t, 8 * u + 6) \div 4 + 8 * FieldAt(t, 8 * u + 7)
    BY <1>1, <1>9, LayoutBytes, Zenon
  <2> QED BY <2>2, <2>3, <2>4, Zenon
<1> QED BY <1>0, <1>1, <1>5, <1>6, <1>7, <1>8, <1>9, SMT

(* What RawGet and RawSet make of the bytes of field p, where f has become t. *)
FieldIsStored(f, t, p, v) ==
  LET k == Packed!ByteOf(p)
      s == Packed!ShiftOf(p)
  IN /\ (Chunk(f, k) \div s) % 32 = f[p]
     /\ s <= 8 => ((LayoutByte(f, k) + 256 * LayoutByte(f, k + 1)) \div s) % 32 = f[p]
     /\ Chunk(t, k) = Chunk(f, k) + (v - f[p]) * s

(* A field that begins at bit 0: read back, and written next to the fields around it. *)
LEMMA Field0 ==
  ASSUME NEW f \in FieldArrays, NEW u \in Nat, NEW p \in Positions, p = 8 * u,
         NEW v \in 0 .. 31, NEW t \in FieldArrays, Changed(f, t, p, v)
  PROVE  FieldIsStored(f, t, p, v)
<1> DEFINE k == Packed!ByteOf(p)
<1> DEFINE a0 == FieldAt(f, 8 * u)
<1> DEFINE a1 == FieldAt(f, 8 * u + 1)
<1>1. a0 \in 0 .. 31 /\ a1 \in 0 .. 31
  BY FieldsAreSmall, Zenon
<1>2. p \in Nat /\ k = 5 * u /\ Packed!ShiftOf(p) = 1 /\ k \in Nat
  BY FieldOf, LedgerAssumption, SMT DEF Positions
<1>3. a0 = f[p] /\ FieldAt(t, 8 * u) = v
  BY OtherFields, Zenon
<1>4. FieldAt(t, 8 * u + 1) = a1
  <2>1. p # 8 * u + 1
    BY SMT
  <2>2. \A q : q # p => FieldAt(t, q) = FieldAt(f, q)
    BY OtherFields, Zenon
  <2> QED BY <2>1, <2>2, Zenon
<1>5. LayoutByte(f, k) = a0 + 32 * (a1 % 8)
  BY <1>2, LayoutBytes, Zenon
<1>6. LayoutByte(t, k) = v + 32 * (a1 % 8)
  <2>1. LayoutByte(t, k) =
          FieldAt(t, 8 * u) + 32 * (FieldAt(t, 8 * u + 1) % 8)
    BY <1>2, LayoutBytes, Zenon
  <2> QED BY <2>1, <1>3, <1>4, Zenon
<1> DEFINE y == LayoutByte(f, k + 1)  z == LayoutByte(f, k + 2)
<1>7. k + 1 \in Nat /\ k + 2 \in Nat
  BY <1>2, SMT
<1>8. y \in 0 .. 255 /\ z \in 0 .. 255
  BY <1>7, BytesAreSmall, Zenon
<1>9. LayoutByte(t, k + 2) = z
  <2>1. 5 * p + 4 < 8 * (k + 2)
    BY <1>2, SMT
  <2> QED BY <1>7, <2>1, OtherBytes, Zenon
<1>10. LayoutByte(t, k + 1) = y
  <2>1. 5 * p + 4 < 8 * (k + 1)
    BY <1>2, SMT
  <2> QED BY <1>7, <2>1, OtherBytes, Zenon
<1> HIDE DEF k, y, z, a0, a1
<1>11. ASSUME NEW m \in Nat PROVE (((a0 + 32 * (a1 % 8)) + 256 * m) \div 1) % 32 = a0
  <2>1. ((a0 + 32 * (a1 % 8)) + 256 * m) \div 1 = a0 + 32 * ((a1 % 8) + 8 * m)
    BY <1>1, SMT
  <2>2. (a0 + 32 * ((a1 % 8) + 8 * m)) % 32 = a0
    BY <1>1, SMT
  <2> QED BY <2>1, <2>2, SMT
<1>12. (((a0 + 32 * (a1 % 8)) + 256 * y) \div 1) % 32 = a0
  BY <1>8, <1>11, SMT
<1>13. (((a0 + 32 * (a1 % 8)) + 256 * y + 65536 * z) \div 1) % 32 = a0
  <2> DEFINE m == y + 256 * z
  <2>1. m \in Nat /\ (a0 + 32 * (a1 % 8)) + 256 * y + 65536 * z = (a0 + 32 * (a1 % 8)) + 256 * m
    BY <1>1, <1>8, SMT
  <2> HIDE DEF m
  <2>2. (((a0 + 32 * (a1 % 8)) + 256 * m) \div 1) % 32 = a0
    BY <2>1, <1>11, SMT
  <2> QED BY <2>1, <2>2, SMT
<1>14. (v + 32 * (a1 % 8)) + 256 * y + 65536 * z =
          ((a0 + 32 * (a1 % 8)) + 256 * y + 65536 * z) + (v - a0) * 1
  BY <1>1, <1>8, SMT
<1>15. ((LayoutByte(f, k) + 256 * LayoutByte(f, k + 1)) \div Packed!ShiftOf(p)) % 32 = f[p]
  BY <1>2, <1>3, <1>5, <1>12, SMT DEF y
<1>16. (Chunk(f, k) \div Packed!ShiftOf(p)) % 32 = f[p]
  BY <1>2, <1>3, <1>5, <1>13, SMT DEF Chunk, y, z
<1>17. Chunk(t, k) = Chunk(f, k) + (v - f[p]) * Packed!ShiftOf(p)
  BY <1>2, <1>3, <1>5, <1>6, <1>9, <1>10, <1>14, SMT DEF Chunk, y, z
<1> QED BY <1>15, <1>16, <1>17, Zenon DEF FieldIsStored, k

(* The same at bit 5, where it goes on in the next byte. *)
LEMMA Field1 ==
  ASSUME NEW f \in FieldArrays, NEW u \in Nat, NEW p \in Positions, p = 8 * u + 1,
         NEW v \in 0 .. 31, NEW t \in FieldArrays, Changed(f, t, p, v)
  PROVE  FieldIsStored(f, t, p, v)
<1> DEFINE k == Packed!ByteOf(p)
<1> DEFINE a0 == FieldAt(f, 8 * u)
<1> DEFINE a1 == FieldAt(f, 8 * u + 1)
<1> DEFINE a2 == FieldAt(f, 8 * u + 2)
<1> DEFINE a3 == FieldAt(f, 8 * u + 3)
<1>1. a0 \in 0 .. 31 /\ a1 \in 0 .. 31 /\ a2 \in 0 .. 31 /\ a3 \in 0 .. 31
  BY FieldsAreSmall, Zenon
<1>2. p \in Nat /\ k = 5 * u /\ Packed!ShiftOf(p) = 32 /\ k \in Nat
  BY FieldOf, LedgerAssumption, SMT DEF Positions
<1>3. a1 = f[p] /\ FieldAt(t, 8 * u + 1) = v
  BY OtherFields, Zenon
<1>4. FieldAt(t, 8 * u) = a0
      /\ FieldAt(t, 8 * u + 2) = a2
      /\ FieldAt(t, 8 * u + 3) = a3
  <2>1. p # 8 * u /\ p # 8 * u + 2 /\ p # 8 * u + 3
    BY SMT
  <2>2. \A q : q # p => FieldAt(t, q) = FieldAt(f, q)
    BY OtherFields, Zenon
  <2> QED BY <2>1, <2>2, Zenon
<1>5. LayoutByte(f, k) = a0 + 32 * (a1 % 8)
  BY <1>2, LayoutBytes, Zenon
<1>6. LayoutByte(t, k) = a0 + 32 * (v % 8)
  <2>1. LayoutByte(t, k) =
          FieldAt(t, 8 * u) + 32 * (FieldAt(t, 8 * u + 1) % 8)
    BY <1>2, LayoutBytes, Zenon
  <2> QED BY <2>1, <1>3, <1>4, Zenon
<1> DEFINE y == LayoutByte(f, k + 1)  z == LayoutByte(f, k + 2)
<1>7. k + 1 \in Nat /\ k + 2 \in Nat
  BY <1>2, SMT
<1>8. y \in 0 .. 255 /\ z \in 0 .. 255
  BY <1>7, BytesAreSmall, Zenon
<1>9. LayoutByte(t, k + 2) = z
  <2>1. 5 * p + 4 < 8 * (k + 2)
    BY <1>2, SMT
  <2> QED BY <1>7, <2>1, OtherBytes, Zenon
<1>10. LayoutByte(t, k + 1) = v \div 8 + 4 * a2 + 128 * (a3 % 2)
  <2>1. k + 1 = 5 * u + 1
    BY <1>2, SMT
  <2>2. LayoutByte(t, k + 1) =
          FieldAt(t, 8 * u + 1) \div 8 + 4 * FieldAt(t, 8 * u + 2) + 128 * (FieldAt(t, 8 * u
            + 3) % 2)
    BY <1>7, <2>1, LayoutBytes, Zenon
  <2> QED BY <2>2, <1>3, <1>4, Zenon
<1>11. y = a1 \div 8 + 4 * a2 + 128 * (a3 % 2)
  <2>1. k + 1 = 5 * u + 1
    BY <1>2, SMT
  <2> QED BY <1>7, <2>1, LayoutBytes, Zenon
<1> HIDE DEF k, y, z, a0, a1, a2, a3
<1>12. \A g \in 0 .. 31 : g = (g % 8) + 8 * (g \div 8) /\ g % 8 \in 0 .. 7
         /\ g \div 8 \in 0 .. 3
  BY SMT
<1>13. ((a0 + 32 * (a1 % 8)) + 256 * y + 65536 * z) \div 32 = a1 + 32 * (a2 + 32 * (a3 % 2)
         + 64 * z)
  BY <1>1, <1>8, <1>11, <1>12, SMT
<1>14. (a1 + 32 * (a2 + 32 * (a3 % 2) + 64 * z)) % 32 = a1
  BY <1>1, <1>8, SMT
<1>15. (a0 + 32 * (v % 8)) + 256 * (v \div 8 + 4 * a2 + 128 * (a3 % 2)) + 65536 * z =
          ((a0 + 32 * (a1 % 8)) + 256 * y + 65536 * z) + (v - a1) * 32
  BY <1>1, <1>8, <1>11, <1>12, SMT
<1>16. (Chunk(f, k) \div Packed!ShiftOf(p)) % 32 = f[p]
  BY <1>2, <1>3, <1>5, <1>13, <1>14, SMT DEF Chunk, y, z
<1>17. Chunk(t, k) = Chunk(f, k) + (v - f[p]) * Packed!ShiftOf(p)
  BY <1>2, <1>3, <1>5, <1>6, <1>9, <1>10, <1>15, SMT DEF Chunk, y, z
<1> QED BY <1>2, <1>16, <1>17, SMT DEF FieldIsStored, k

(* The same at bit 2. *)
LEMMA Field2 ==
  ASSUME NEW f \in FieldArrays, NEW u \in Nat, NEW p \in Positions, p = 8 * u + 2,
         NEW v \in 0 .. 31, NEW t \in FieldArrays, Changed(f, t, p, v)
  PROVE  FieldIsStored(f, t, p, v)
<1> DEFINE k == Packed!ByteOf(p)
<1> DEFINE a1 == FieldAt(f, 8 * u + 1)
<1> DEFINE a2 == FieldAt(f, 8 * u + 2)
<1> DEFINE a3 == FieldAt(f, 8 * u + 3)
<1>1. a1 \in 0 .. 31 /\ a2 \in 0 .. 31 /\ a3 \in 0 .. 31
  BY FieldsAreSmall, Zenon
<1>2. p \in Nat /\ k = 5 * u + 1 /\ Packed!ShiftOf(p) = 4 /\ k \in Nat
  BY FieldOf, LedgerAssumption, SMT DEF Positions
<1>3. a2 = f[p] /\ FieldAt(t, 8 * u + 2) = v
  BY OtherFields, Zenon
<1>4. FieldAt(t, 8 * u + 1) = a1
      /\ FieldAt(t, 8 * u + 3) = a3
  <2>1. p # 8 * u + 1 /\ p # 8 * u + 3
    BY SMT
  <2>2. \A q : q # p => FieldAt(t, q) = FieldAt(f, q)
    BY OtherFields, Zenon
  <2> QED BY <2>1, <2>2, Zenon
<1>5. LayoutByte(f, k) = a1 \div 8 + 4 * a2 + 128 * (a3 % 2)
  BY <1>2, LayoutBytes, Zenon
<1>6. LayoutByte(t, k) = a1 \div 8 + 4 * v + 128 * (a3 % 2)
  <2>1. LayoutByte(t, k) =
          FieldAt(t, 8 * u + 1) \div 8 + 4 * FieldAt(t, 8 * u + 2) + 128 * (FieldAt(t, 8 * u
            + 3) % 2)
    BY <1>2, LayoutBytes, Zenon
  <2> QED BY <2>1, <1>3, <1>4, Zenon
<1> DEFINE y == LayoutByte(f, k + 1)  z == LayoutByte(f, k + 2)
<1>7. k + 1 \in Nat /\ k + 2 \in Nat
  BY <1>2, SMT
<1>8. y \in 0 .. 255 /\ z \in 0 .. 255
  BY <1>7, BytesAreSmall, Zenon
<1>9. LayoutByte(t, k + 2) = z
  <2>1. 5 * p + 4 < 8 * (k + 2)
    BY <1>2, SMT
  <2> QED BY <1>7, <2>1, OtherBytes, Zenon
<1>10. LayoutByte(t, k + 1) = y
  <2>1. 5 * p + 4 < 8 * (k + 1)
    BY <1>2, SMT
  <2> QED BY <1>7, <2>1, OtherBytes, Zenon
<1> HIDE DEF k, y, z, a1, a2, a3
<1>11. ASSUME NEW m \in Nat PROVE (((a1 \div 8 + 4 * a2 + 128 * (a3 % 2))
         + 256 * m) \div 4) % 32 = a2
  <2>1. ((a1 \div 8 + 4 * a2 + 128 * (a3 % 2)) + 256 * m) \div 4 = a2 + 32 * ((a3 % 2) + 2 * m)
    BY <1>1, SMT
  <2>2. (a2 + 32 * ((a3 % 2) + 2 * m)) % 32 = a2
    BY <1>1, SMT
  <2> QED BY <2>1, <2>2, SMT
<1>12. (((a1 \div 8 + 4 * a2 + 128 * (a3 % 2)) + 256 * y) \div 4) % 32 = a2
  BY <1>8, <1>11, SMT
<1>13. (((a1 \div 8 + 4 * a2 + 128 * (a3 % 2)) + 256 * y + 65536 * z) \div 4) % 32 = a2
  <2> DEFINE m == y + 256 * z
  <2>1. m \in Nat /\ (a1 \div 8 + 4 * a2 + 128 * (a3 % 2)) + 256 * y
          + 65536 * z = (a1 \div 8 + 4 * a2 + 128 * (a3 % 2)) + 256 * m
    BY <1>1, <1>8, SMT
  <2> HIDE DEF m
  <2>2. (((a1 \div 8 + 4 * a2 + 128 * (a3 % 2)) + 256 * m) \div 4) % 32 = a2
    BY <2>1, <1>11, SMT
  <2> QED BY <2>1, <2>2, SMT
<1>14. (a1 \div 8 + 4 * v + 128 * (a3 % 2)) + 256 * y + 65536 * z =
          ((a1 \div 8 + 4 * a2 + 128 * (a3 % 2)) + 256 * y + 65536 * z) + (v - a2) * 4
  BY <1>1, <1>8, SMT
<1>15. ((LayoutByte(f, k) + 256 * LayoutByte(f, k + 1)) \div Packed!ShiftOf(p)) % 32 = f[p]
  BY <1>2, <1>3, <1>5, <1>12, SMT DEF y
<1>16. (Chunk(f, k) \div Packed!ShiftOf(p)) % 32 = f[p]
  BY <1>2, <1>3, <1>5, <1>13, SMT DEF Chunk, y, z
<1>17. Chunk(t, k) = Chunk(f, k) + (v - f[p]) * Packed!ShiftOf(p)
  BY <1>2, <1>3, <1>5, <1>6, <1>9, <1>10, <1>14, SMT DEF Chunk, y, z
<1> QED BY <1>15, <1>16, <1>17, Zenon DEF FieldIsStored, k

(* The same at bit 7, where it goes on in the next byte. *)
LEMMA Field3 ==
  ASSUME NEW f \in FieldArrays, NEW u \in Nat, NEW p \in Positions, p = 8 * u + 3,
         NEW v \in 0 .. 31, NEW t \in FieldArrays, Changed(f, t, p, v)
  PROVE  FieldIsStored(f, t, p, v)
<1> DEFINE k == Packed!ByteOf(p)
<1> DEFINE a1 == FieldAt(f, 8 * u + 1)
<1> DEFINE a2 == FieldAt(f, 8 * u + 2)
<1> DEFINE a3 == FieldAt(f, 8 * u + 3)
<1> DEFINE a4 == FieldAt(f, 8 * u + 4)
<1>1. a1 \in 0 .. 31 /\ a2 \in 0 .. 31 /\ a3 \in 0 .. 31 /\ a4 \in 0 .. 31
  BY FieldsAreSmall, Zenon
<1>2. p \in Nat /\ k = 5 * u + 1 /\ Packed!ShiftOf(p) = 128 /\ k \in Nat
  BY FieldOf, LedgerAssumption, SMT DEF Positions
<1>3. a3 = f[p] /\ FieldAt(t, 8 * u + 3) = v
  BY OtherFields, Zenon
<1>4. FieldAt(t, 8 * u + 1) = a1
      /\ FieldAt(t, 8 * u + 2) = a2
      /\ FieldAt(t, 8 * u + 4) = a4
  <2>1. p # 8 * u + 1 /\ p # 8 * u + 2 /\ p # 8 * u + 4
    BY SMT
  <2>2. \A q : q # p => FieldAt(t, q) = FieldAt(f, q)
    BY OtherFields, Zenon
  <2> QED BY <2>1, <2>2, Zenon
<1>5. LayoutByte(f, k) = a1 \div 8 + 4 * a2 + 128 * (a3 % 2)
  BY <1>2, LayoutBytes, Zenon
<1>6. LayoutByte(t, k) = a1 \div 8 + 4 * a2 + 128 * (v % 2)
  <2>1. LayoutByte(t, k) =
          FieldAt(t, 8 * u + 1) \div 8 + 4 * FieldAt(t, 8 * u + 2) + 128 * (FieldAt(t, 8 * u
            + 3) % 2)
    BY <1>2, LayoutBytes, Zenon
  <2> QED BY <2>1, <1>3, <1>4, Zenon
<1> DEFINE y == LayoutByte(f, k + 1)  z == LayoutByte(f, k + 2)
<1>7. k + 1 \in Nat /\ k + 2 \in Nat
  BY <1>2, SMT
<1>8. y \in 0 .. 255 /\ z \in 0 .. 255
  BY <1>7, BytesAreSmall, Zenon
<1>9. LayoutByte(t, k + 2) = z
  <2>1. 5 * p + 4 < 8 * (k + 2)
    BY <1>2, SMT
  <2> QED BY <1>7, <2>1, OtherBytes, Zenon
<1>10. LayoutByte(t, k + 1) = v \div 2 + 16 * (a4 % 16)
  <2>1. k + 1 = 5 * u + 2
    BY <1>2, SMT
  <2>2. LayoutByte(t, k + 1) =
          FieldAt(t, 8 * u + 3) \div 2 + 16 * (FieldAt(t, 8 * u + 4) % 16)
    BY <1>7, <2>1, LayoutBytes, Zenon
  <2> QED BY <2>2, <1>3, <1>4, Zenon
<1>11. y = a3 \div 2 + 16 * (a4 % 16)
  <2>1. k + 1 = 5 * u + 2
    BY <1>2, SMT
  <2> QED BY <1>7, <2>1, LayoutBytes, Zenon
<1> HIDE DEF k, y, z, a1, a2, a3, a4
<1>12. \A g \in 0 .. 31 : g = (g % 2) + 2 * (g \div 2) /\ g % 2 \in 0 .. 1
         /\ g \div 2 \in 0 .. 15
  BY SMT
<1>13. ((a1 \div 8 + 4 * a2 + 128 * (a3 % 2)) + 256 * y + 65536 * z) \div 128 = a3
         + 32 * ((a4 % 16) + 16 * z)
  BY <1>1, <1>8, <1>11, <1>12, SMT
<1>14. (a3 + 32 * ((a4 % 16) + 16 * z)) % 32 = a3
  BY <1>1, <1>8, SMT
<1>15. (a1 \div 8 + 4 * a2 + 128 * (v % 2)) + 256 * (v \div 2 + 16 * (a4 % 16)) + 65536 * z =
          ((a1 \div 8 + 4 * a2 + 128 * (a3 % 2)) + 256 * y + 65536 * z) + (v - a3) * 128
  BY <1>1, <1>8, <1>11, <1>12, SMT
<1>16. (Chunk(f, k) \div Packed!ShiftOf(p)) % 32 = f[p]
  BY <1>2, <1>3, <1>5, <1>13, <1>14, SMT DEF Chunk, y, z
<1>17. Chunk(t, k) = Chunk(f, k) + (v - f[p]) * Packed!ShiftOf(p)
  BY <1>2, <1>3, <1>5, <1>6, <1>9, <1>10, <1>15, SMT DEF Chunk, y, z
<1> QED BY <1>2, <1>16, <1>17, SMT DEF FieldIsStored, k

(* The same at bit 4, where it goes on in the next byte. *)
LEMMA Field4 ==
  ASSUME NEW f \in FieldArrays, NEW u \in Nat, NEW p \in Positions, p = 8 * u + 4,
         NEW v \in 0 .. 31, NEW t \in FieldArrays, Changed(f, t, p, v)
  PROVE  FieldIsStored(f, t, p, v)
<1> DEFINE k == Packed!ByteOf(p)
<1> DEFINE a3 == FieldAt(f, 8 * u + 3)
<1> DEFINE a4 == FieldAt(f, 8 * u + 4)
<1> DEFINE a5 == FieldAt(f, 8 * u + 5)
<1> DEFINE a6 == FieldAt(f, 8 * u + 6)
<1>1. a3 \in 0 .. 31 /\ a4 \in 0 .. 31 /\ a5 \in 0 .. 31 /\ a6 \in 0 .. 31
  BY FieldsAreSmall, Zenon
<1>2. p \in Nat /\ k = 5 * u + 2 /\ Packed!ShiftOf(p) = 16 /\ k \in Nat
  BY FieldOf, LedgerAssumption, SMT DEF Positions
<1>3. a4 = f[p] /\ FieldAt(t, 8 * u + 4) = v
  BY OtherFields, Zenon
<1>4. FieldAt(t, 8 * u + 3) = a3
      /\ FieldAt(t, 8 * u + 5) = a5
      /\ FieldAt(t, 8 * u + 6) = a6
  <2>1. p # 8 * u + 3 /\ p # 8 * u + 5 /\ p # 8 * u + 6
    BY SMT
  <2>2. \A q : q # p => FieldAt(t, q) = FieldAt(f, q)
    BY OtherFields, Zenon
  <2> QED BY <2>1, <2>2, Zenon
<1>5. LayoutByte(f, k) = a3 \div 2 + 16 * (a4 % 16)
  BY <1>2, LayoutBytes, Zenon
<1>6. LayoutByte(t, k) = a3 \div 2 + 16 * (v % 16)
  <2>1. LayoutByte(t, k) =
          FieldAt(t, 8 * u + 3) \div 2 + 16 * (FieldAt(t, 8 * u + 4) % 16)
    BY <1>2, LayoutBytes, Zenon
  <2> QED BY <2>1, <1>3, <1>4, Zenon
<1> DEFINE y == LayoutByte(f, k + 1)  z == LayoutByte(f, k + 2)
<1>7. k + 1 \in Nat /\ k + 2 \in Nat
  BY <1>2, SMT
<1>8. y \in 0 .. 255 /\ z \in 0 .. 255
  BY <1>7, BytesAreSmall, Zenon
<1>9. LayoutByte(t, k + 2) = z
  <2>1. 5 * p + 4 < 8 * (k + 2)
    BY <1>2, SMT
  <2> QED BY <1>7, <2>1, OtherBytes, Zenon
<1>10. LayoutByte(t, k + 1) = v \div 16 + 2 * a5 + 64 * (a6 % 4)
  <2>1. k + 1 = 5 * u + 3
    BY <1>2, SMT
  <2>2. LayoutByte(t, k + 1) =
          FieldAt(t, 8 * u + 4) \div 16 + 2 * FieldAt(t, 8 * u + 5) + 64 * (FieldAt(t, 8 * u
            + 6) % 4)
    BY <1>7, <2>1, LayoutBytes, Zenon
  <2> QED BY <2>2, <1>3, <1>4, Zenon
<1>11. y = a4 \div 16 + 2 * a5 + 64 * (a6 % 4)
  <2>1. k + 1 = 5 * u + 3
    BY <1>2, SMT
  <2> QED BY <1>7, <2>1, LayoutBytes, Zenon
<1> HIDE DEF k, y, z, a3, a4, a5, a6
<1>12. \A g \in 0 .. 31 : g = (g % 16) + 16 * (g \div 16) /\ g % 16 \in 0 .. 15
         /\ g \div 16 \in 0 .. 1
  BY SMT
<1>13. ((a3 \div 2 + 16 * (a4 % 16)) + 256 * y + 65536 * z) \div 16 = a4 + 32 * (a5
         + 32 * (a6 % 4) + 128 * z)
  BY <1>1, <1>8, <1>11, <1>12, SMT
<1>14. (a4 + 32 * (a5 + 32 * (a6 % 4) + 128 * z)) % 32 = a4
  BY <1>1, <1>8, SMT
<1>15. (a3 \div 2 + 16 * (v % 16)) + 256 * (v \div 16 + 2 * a5 + 64 * (a6 % 4)) + 65536 * z =
          ((a3 \div 2 + 16 * (a4 % 16)) + 256 * y + 65536 * z) + (v - a4) * 16
  BY <1>1, <1>8, <1>11, <1>12, SMT
<1>16. (Chunk(f, k) \div Packed!ShiftOf(p)) % 32 = f[p]
  BY <1>2, <1>3, <1>5, <1>13, <1>14, SMT DEF Chunk, y, z
<1>17. Chunk(t, k) = Chunk(f, k) + (v - f[p]) * Packed!ShiftOf(p)
  BY <1>2, <1>3, <1>5, <1>6, <1>9, <1>10, <1>15, SMT DEF Chunk, y, z
<1> QED BY <1>2, <1>16, <1>17, SMT DEF FieldIsStored, k

(* The same at bit 1. *)
LEMMA Field5 ==
  ASSUME NEW f \in FieldArrays, NEW u \in Nat, NEW p \in Positions, p = 8 * u + 5,
         NEW v \in 0 .. 31, NEW t \in FieldArrays, Changed(f, t, p, v)
  PROVE  FieldIsStored(f, t, p, v)
<1> DEFINE k == Packed!ByteOf(p)
<1> DEFINE a4 == FieldAt(f, 8 * u + 4)
<1> DEFINE a5 == FieldAt(f, 8 * u + 5)
<1> DEFINE a6 == FieldAt(f, 8 * u + 6)
<1>1. a4 \in 0 .. 31 /\ a5 \in 0 .. 31 /\ a6 \in 0 .. 31
  BY FieldsAreSmall, Zenon
<1>2. p \in Nat /\ k = 5 * u + 3 /\ Packed!ShiftOf(p) = 2 /\ k \in Nat
  BY FieldOf, LedgerAssumption, SMT DEF Positions
<1>3. a5 = f[p] /\ FieldAt(t, 8 * u + 5) = v
  BY OtherFields, Zenon
<1>4. FieldAt(t, 8 * u + 4) = a4
      /\ FieldAt(t, 8 * u + 6) = a6
  <2>1. p # 8 * u + 4 /\ p # 8 * u + 6
    BY SMT
  <2>2. \A q : q # p => FieldAt(t, q) = FieldAt(f, q)
    BY OtherFields, Zenon
  <2> QED BY <2>1, <2>2, Zenon
<1>5. LayoutByte(f, k) = a4 \div 16 + 2 * a5 + 64 * (a6 % 4)
  BY <1>2, LayoutBytes, Zenon
<1>6. LayoutByte(t, k) = a4 \div 16 + 2 * v + 64 * (a6 % 4)
  <2>1. LayoutByte(t, k) =
          FieldAt(t, 8 * u + 4) \div 16 + 2 * FieldAt(t, 8 * u + 5) + 64 * (FieldAt(t, 8 * u
            + 6) % 4)
    BY <1>2, LayoutBytes, Zenon
  <2> QED BY <2>1, <1>3, <1>4, Zenon
<1> DEFINE y == LayoutByte(f, k + 1)  z == LayoutByte(f, k + 2)
<1>7. k + 1 \in Nat /\ k + 2 \in Nat
  BY <1>2, SMT
<1>8. y \in 0 .. 255 /\ z \in 0 .. 255
  BY <1>7, BytesAreSmall, Zenon
<1>9. LayoutByte(t, k + 2) = z
  <2>1. 5 * p + 4 < 8 * (k + 2)
    BY <1>2, SMT
  <2> QED BY <1>7, <2>1, OtherBytes, Zenon
<1>10. LayoutByte(t, k + 1) = y
  <2>1. 5 * p + 4 < 8 * (k + 1)
    BY <1>2, SMT
  <2> QED BY <1>7, <2>1, OtherBytes, Zenon
<1> HIDE DEF k, y, z, a4, a5, a6
<1>11. ASSUME NEW m \in Nat PROVE (((a4 \div 16 + 2 * a5 + 64 * (a6 % 4))
         + 256 * m) \div 2) % 32 = a5
  <2>1. ((a4 \div 16 + 2 * a5 + 64 * (a6 % 4)) + 256 * m) \div 2 = a5 + 32 * ((a6 % 4) + 4 * m)
    BY <1>1, SMT
  <2>2. (a5 + 32 * ((a6 % 4) + 4 * m)) % 32 = a5
    BY <1>1, SMT
  <2> QED BY <2>1, <2>2, SMT
<1>12. (((a4 \div 16 + 2 * a5 + 64 * (a6 % 4)) + 256 * y) \div 2) % 32 = a5
  BY <1>8, <1>11, SMT
<1>13. (((a4 \div 16 + 2 * a5 + 64 * (a6 % 4)) + 256 * y + 65536 * z) \div 2) % 32 = a5
  <2> DEFINE m == y + 256 * z
  <2>1. m \in Nat /\ (a4 \div 16 + 2 * a5 + 64 * (a6 % 4)) + 256 * y
          + 65536 * z = (a4 \div 16 + 2 * a5 + 64 * (a6 % 4)) + 256 * m
    BY <1>1, <1>8, SMT
  <2> HIDE DEF m
  <2>2. (((a4 \div 16 + 2 * a5 + 64 * (a6 % 4)) + 256 * m) \div 2) % 32 = a5
    BY <2>1, <1>11, SMT
  <2> QED BY <2>1, <2>2, SMT
<1>14. (a4 \div 16 + 2 * v + 64 * (a6 % 4)) + 256 * y + 65536 * z =
          ((a4 \div 16 + 2 * a5 + 64 * (a6 % 4)) + 256 * y + 65536 * z) + (v - a5) * 2
  BY <1>1, <1>8, SMT
<1>15. ((LayoutByte(f, k) + 256 * LayoutByte(f, k + 1)) \div Packed!ShiftOf(p)) % 32 = f[p]
  BY <1>2, <1>3, <1>5, <1>12, SMT DEF y
<1>16. (Chunk(f, k) \div Packed!ShiftOf(p)) % 32 = f[p]
  BY <1>2, <1>3, <1>5, <1>13, SMT DEF Chunk, y, z
<1>17. Chunk(t, k) = Chunk(f, k) + (v - f[p]) * Packed!ShiftOf(p)
  BY <1>2, <1>3, <1>5, <1>6, <1>9, <1>10, <1>14, SMT DEF Chunk, y, z
<1> QED BY <1>15, <1>16, <1>17, Zenon DEF FieldIsStored, k

(* The same at bit 6, where it goes on in the next byte. *)
LEMMA Field6 ==
  ASSUME NEW f \in FieldArrays, NEW u \in Nat, NEW p \in Positions, p = 8 * u + 6,
         NEW v \in 0 .. 31, NEW t \in FieldArrays, Changed(f, t, p, v)
  PROVE  FieldIsStored(f, t, p, v)
<1> DEFINE k == Packed!ByteOf(p)
<1> DEFINE a4 == FieldAt(f, 8 * u + 4)
<1> DEFINE a5 == FieldAt(f, 8 * u + 5)
<1> DEFINE a6 == FieldAt(f, 8 * u + 6)
<1> DEFINE a7 == FieldAt(f, 8 * u + 7)
<1>1. a4 \in 0 .. 31 /\ a5 \in 0 .. 31 /\ a6 \in 0 .. 31 /\ a7 \in 0 .. 31
  BY FieldsAreSmall, Zenon
<1>2. p \in Nat /\ k = 5 * u + 3 /\ Packed!ShiftOf(p) = 64 /\ k \in Nat
  BY FieldOf, LedgerAssumption, SMT DEF Positions
<1>3. a6 = f[p] /\ FieldAt(t, 8 * u + 6) = v
  BY OtherFields, Zenon
<1>4. FieldAt(t, 8 * u + 4) = a4
      /\ FieldAt(t, 8 * u + 5) = a5
      /\ FieldAt(t, 8 * u + 7) = a7
  <2>1. p # 8 * u + 4 /\ p # 8 * u + 5 /\ p # 8 * u + 7
    BY SMT
  <2>2. \A q : q # p => FieldAt(t, q) = FieldAt(f, q)
    BY OtherFields, Zenon
  <2> QED BY <2>1, <2>2, Zenon
<1>5. LayoutByte(f, k) = a4 \div 16 + 2 * a5 + 64 * (a6 % 4)
  BY <1>2, LayoutBytes, Zenon
<1>6. LayoutByte(t, k) = a4 \div 16 + 2 * a5 + 64 * (v % 4)
  <2>1. LayoutByte(t, k) =
          FieldAt(t, 8 * u + 4) \div 16 + 2 * FieldAt(t, 8 * u + 5) + 64 * (FieldAt(t, 8 * u
            + 6) % 4)
    BY <1>2, LayoutBytes, Zenon
  <2> QED BY <2>1, <1>3, <1>4, Zenon
<1> DEFINE y == LayoutByte(f, k + 1)  z == LayoutByte(f, k + 2)
<1>7. k + 1 \in Nat /\ k + 2 \in Nat
  BY <1>2, SMT
<1>8. y \in 0 .. 255 /\ z \in 0 .. 255
  BY <1>7, BytesAreSmall, Zenon
<1>9. LayoutByte(t, k + 2) = z
  <2>1. 5 * p + 4 < 8 * (k + 2)
    BY <1>2, SMT
  <2> QED BY <1>7, <2>1, OtherBytes, Zenon
<1>10. LayoutByte(t, k + 1) = v \div 4 + 8 * a7
  <2>1. k + 1 = 5 * u + 4
    BY <1>2, SMT
  <2>2. LayoutByte(t, k + 1) =
          FieldAt(t, 8 * u + 6) \div 4 + 8 * FieldAt(t, 8 * u + 7)
    BY <1>7, <2>1, LayoutBytes, Zenon
  <2> QED BY <2>2, <1>3, <1>4, Zenon
<1>11. y = a6 \div 4 + 8 * a7
  <2>1. k + 1 = 5 * u + 4
    BY <1>2, SMT
  <2> QED BY <1>7, <2>1, LayoutBytes, Zenon
<1> HIDE DEF k, y, z, a4, a5, a6, a7
<1>12. \A g \in 0 .. 31 : g = (g % 4) + 4 * (g \div 4) /\ g % 4 \in 0 .. 3
         /\ g \div 4 \in 0 .. 7
  BY SMT
<1>13. ((a4 \div 16 + 2 * a5 + 64 * (a6 % 4)) + 256 * y + 65536 * z) \div 64 = a6 + 32 * (a7
         + 32 * z)
  BY <1>1, <1>8, <1>11, <1>12, SMT
<1>14. (a6 + 32 * (a7 + 32 * z)) % 32 = a6
  BY <1>1, <1>8, SMT
<1>15. (a4 \div 16 + 2 * a5 + 64 * (v % 4)) + 256 * (v \div 4 + 8 * a7) + 65536 * z =
          ((a4 \div 16 + 2 * a5 + 64 * (a6 % 4)) + 256 * y + 65536 * z) + (v - a6) * 64
  BY <1>1, <1>8, <1>11, <1>12, SMT
<1>16. (Chunk(f, k) \div Packed!ShiftOf(p)) % 32 = f[p]
  BY <1>2, <1>3, <1>5, <1>13, <1>14, SMT DEF Chunk, y, z
<1>17. Chunk(t, k) = Chunk(f, k) + (v - f[p]) * Packed!ShiftOf(p)
  BY <1>2, <1>3, <1>5, <1>6, <1>9, <1>10, <1>15, SMT DEF Chunk, y, z
<1> QED BY <1>2, <1>16, <1>17, SMT DEF FieldIsStored, k

(* The same at bit 3. *)
LEMMA Field7 ==
  ASSUME NEW f \in FieldArrays, NEW u \in Nat, NEW p \in Positions, p = 8 * u + 7,
         NEW v \in 0 .. 31, NEW t \in FieldArrays, Changed(f, t, p, v)
  PROVE  FieldIsStored(f, t, p, v)
<1> DEFINE k == Packed!ByteOf(p)
<1> DEFINE a6 == FieldAt(f, 8 * u + 6)
<1> DEFINE a7 == FieldAt(f, 8 * u + 7)
<1>1. a6 \in 0 .. 31 /\ a7 \in 0 .. 31
  BY FieldsAreSmall, Zenon
<1>2. p \in Nat /\ k = 5 * u + 4 /\ Packed!ShiftOf(p) = 8 /\ k \in Nat
  BY FieldOf, LedgerAssumption, SMT DEF Positions
<1>3. a7 = f[p] /\ FieldAt(t, 8 * u + 7) = v
  BY OtherFields, Zenon
<1>4. FieldAt(t, 8 * u + 6) = a6
  <2>1. p # 8 * u + 6
    BY SMT
  <2>2. \A q : q # p => FieldAt(t, q) = FieldAt(f, q)
    BY OtherFields, Zenon
  <2> QED BY <2>1, <2>2, Zenon
<1>5. LayoutByte(f, k) = a6 \div 4 + 8 * a7
  BY <1>2, LayoutBytes, Zenon
<1>6. LayoutByte(t, k) = a6 \div 4 + 8 * v
  <2>1. LayoutByte(t, k) =
          FieldAt(t, 8 * u + 6) \div 4 + 8 * FieldAt(t, 8 * u + 7)
    BY <1>2, LayoutBytes, Zenon
  <2> QED BY <2>1, <1>3, <1>4, Zenon
<1> DEFINE y == LayoutByte(f, k + 1)  z == LayoutByte(f, k + 2)
<1>7. k + 1 \in Nat /\ k + 2 \in Nat
  BY <1>2, SMT
<1>8. y \in 0 .. 255 /\ z \in 0 .. 255
  BY <1>7, BytesAreSmall, Zenon
<1>9. LayoutByte(t, k + 2) = z
  <2>1. 5 * p + 4 < 8 * (k + 2)
    BY <1>2, SMT
  <2> QED BY <1>7, <2>1, OtherBytes, Zenon
<1>10. LayoutByte(t, k + 1) = y
  <2>1. 5 * p + 4 < 8 * (k + 1)
    BY <1>2, SMT
  <2> QED BY <1>7, <2>1, OtherBytes, Zenon
<1> HIDE DEF k, y, z, a6, a7
<1>11. ASSUME NEW m \in Nat PROVE (((a6 \div 4 + 8 * a7) + 256 * m) \div 8) % 32 = a7
  <2>1. ((a6 \div 4 + 8 * a7) + 256 * m) \div 8 = a7 + 32 * m
    BY <1>1, SMT
  <2>2. (a7 + 32 * m) % 32 = a7
    BY <1>1, SMT
  <2> QED BY <2>1, <2>2, SMT
<1>12. (((a6 \div 4 + 8 * a7) + 256 * y) \div 8) % 32 = a7
  BY <1>8, <1>11, SMT
<1>13. (((a6 \div 4 + 8 * a7) + 256 * y + 65536 * z) \div 8) % 32 = a7
  <2> DEFINE m == y + 256 * z
  <2>1. m \in Nat /\ (a6 \div 4 + 8 * a7) + 256 * y + 65536 * z = (a6 \div 4 + 8 * a7) + 256 * m
    BY <1>1, <1>8, SMT
  <2> HIDE DEF m
  <2>2. (((a6 \div 4 + 8 * a7) + 256 * m) \div 8) % 32 = a7
    BY <2>1, <1>11, SMT
  <2> QED BY <2>1, <2>2, SMT
<1>14. (a6 \div 4 + 8 * v) + 256 * y + 65536 * z =
          ((a6 \div 4 + 8 * a7) + 256 * y + 65536 * z) + (v - a7) * 8
  BY <1>1, <1>8, SMT
<1>15. ((LayoutByte(f, k) + 256 * LayoutByte(f, k + 1)) \div Packed!ShiftOf(p)) % 32 = f[p]
  BY <1>2, <1>3, <1>5, <1>12, SMT DEF y
<1>16. (Chunk(f, k) \div Packed!ShiftOf(p)) % 32 = f[p]
  BY <1>2, <1>3, <1>5, <1>13, SMT DEF Chunk, y, z
<1>17. Chunk(t, k) = Chunk(f, k) + (v - f[p]) * Packed!ShiftOf(p)
  BY <1>2, <1>3, <1>5, <1>6, <1>9, <1>10, <1>14, SMT DEF Chunk, y, z
<1> QED BY <1>15, <1>16, <1>17, Zenon DEF FieldIsStored, k

(* So it is for every field of the array. *)
LEMMA EveryField ==
  ASSUME NEW f \in FieldArrays, NEW p \in Positions,
         NEW v \in 0 .. 31, NEW t \in FieldArrays, Changed(f, t, p, v)
  PROVE  FieldIsStored(f, t, p, v)
<1> DEFINE u == p \div 8
<1>1. p \in Nat
  BY LedgerAssumption, SMT DEF Positions
<1>2. u \in Nat /\ \E r \in 0 .. 7 : p = 8 * u + r
  BY <1>1, SMT
<1> HIDE DEF u
<1>3. \/ p = 8 * u \/ p = 8 * u + 1 \/ p = 8 * u + 2 \/ p = 8 * u + 3
      \/ p = 8 * u + 4 \/ p = 8 * u + 5 \/ p = 8 * u + 6 \/ p = 8 * u + 7
  BY <1>2, SMT
<1> QED BY <1>2, <1>3, Field0, Field1, Field2, Field3, Field4, Field5, Field6, Field7, Zenon

(* The array has the bytes its fields begin in, and room for all of them. *)
LEMMA BytesOfArray ==
  /\ Packed!Bytes \in Nat /\ 5 * LedgerMax <= 8 * Packed!Bytes
  /\ \A p \in Positions : Packed!ByteOf(p) \in 0 .. Packed!Bytes - 1
<1>1. LedgerMax \in Nat
  BY LedgerAssumption
<1>2. Packed!Bytes \in Nat /\ 5 * LedgerMax <= 8 * Packed!Bytes
        /\ 8 * Packed!Bytes <= 5 * LedgerMax + 7
  BY <1>1, SMT DEF Packed!Bytes, Packed!FieldBits
<1>3. ASSUME NEW p \in Positions PROVE Packed!ByteOf(p) \in 0 .. Packed!Bytes - 1
  BY <1>1, <1>2, SMT DEF Packed!ByteOf, Packed!FieldBits, Positions
<1> QED BY <1>2, <1>3, Zenon

(* The byte behind the array, which ByteOrZero reads as zero, has no field in it. *)
LEMMA NoByteBehind ==
  ASSUME NEW f, NEW j \in Nat, j >= Packed!Bytes
  PROVE  LayoutByte(f, j) = 0
<1> DEFINE u == j \div 5
<1>1. u \in Nat /\ \E c \in 0 .. 4 : j = 5 * u + c
  BY SMT
<1>2. 5 * LedgerMax <= 8 * j /\ LedgerMax \in Nat
  BY BytesOfArray, LedgerAssumption, SMT
<1>3. \A q : q \notin Positions => FieldAt(f, q) = 0
  BY Zenon DEF FieldAt
<1> HIDE DEF u
<1>0. 5 * u + 0 = 5 * u
  BY <1>1, SMT
<1>4. ASSUME j = 5 * u PROVE LayoutByte(f, j) = 0
  <2>1. 8 * u \notin Positions /\ 8 * u + 1 \notin Positions
    BY <1>1, <1>2, <1>4, SMT DEF Positions
  <2>2. FieldAt(f, 8 * u) = 0 /\ FieldAt(f, 8 * u + 1) = 0
    BY <2>1, <1>3, Zenon
  <2>3. LayoutByte(f, j) =
          FieldAt(f, 8 * u) + 32 * (FieldAt(f, 8 * u + 1) % 8)
    BY <1>1, <1>4, LayoutBytes, Zenon
  <2> QED BY <2>2, <2>3, SMT
<1>5. ASSUME j = 5 * u + 1 PROVE LayoutByte(f, j) = 0
  <2>1. 8 * u + 1 \notin Positions /\ 8 * u + 2 \notin Positions /\ 8 * u + 3 \notin Positions
    BY <1>1, <1>2, <1>5, SMT DEF Positions
  <2>2. FieldAt(f, 8 * u + 1) = 0 /\ FieldAt(f, 8 * u + 2) = 0 /\ FieldAt(f, 8 * u + 3) = 0
    BY <2>1, <1>3, Zenon
  <2>3. LayoutByte(f, j) =
          FieldAt(f, 8 * u + 1) \div 8 + 4 * FieldAt(f, 8 * u + 2) + 128 * (FieldAt(f, 8 * u
            + 3) % 2)
    BY <1>1, <1>5, LayoutBytes, Zenon
  <2> QED BY <2>2, <2>3, SMT
<1>6. ASSUME j = 5 * u + 2 PROVE LayoutByte(f, j) = 0
  <2>1. 8 * u + 3 \notin Positions /\ 8 * u + 4 \notin Positions
    BY <1>1, <1>2, <1>6, SMT DEF Positions
  <2>2. FieldAt(f, 8 * u + 3) = 0 /\ FieldAt(f, 8 * u + 4) = 0
    BY <2>1, <1>3, Zenon
  <2>3. LayoutByte(f, j) =
          FieldAt(f, 8 * u + 3) \div 2 + 16 * (FieldAt(f, 8 * u + 4) % 16)
    BY <1>1, <1>6, LayoutBytes, Zenon
  <2> QED BY <2>2, <2>3, SMT
<1>7. ASSUME j = 5 * u + 3 PROVE LayoutByte(f, j) = 0
  <2>1. 8 * u + 4 \notin Positions /\ 8 * u + 5 \notin Positions /\ 8 * u + 6 \notin Positions
    BY <1>1, <1>2, <1>7, SMT DEF Positions
  <2>2. FieldAt(f, 8 * u + 4) = 0 /\ FieldAt(f, 8 * u + 5) = 0 /\ FieldAt(f, 8 * u + 6) = 0
    BY <2>1, <1>3, Zenon
  <2>3. LayoutByte(f, j) =
          FieldAt(f, 8 * u + 4) \div 16 + 2 * FieldAt(f, 8 * u + 5) + 64 * (FieldAt(f, 8 * u
            + 6) % 4)
    BY <1>1, <1>7, LayoutBytes, Zenon
  <2> QED BY <2>2, <2>3, SMT
<1>8. ASSUME j = 5 * u + 4 PROVE LayoutByte(f, j) = 0
  <2>1. 8 * u + 6 \notin Positions /\ 8 * u + 7 \notin Positions
    BY <1>1, <1>2, <1>8, SMT DEF Positions
  <2>2. FieldAt(f, 8 * u + 6) = 0 /\ FieldAt(f, 8 * u + 7) = 0
    BY <2>1, <1>3, Zenon
  <2>3. LayoutByte(f, j) =
          FieldAt(f, 8 * u + 6) \div 4 + 8 * FieldAt(f, 8 * u + 7)
    BY <1>1, <1>8, LayoutBytes, Zenon
  <2> QED BY <2>2, <2>3, SMT
<1> QED BY <1>0, <1>1, <1>4, <1>5, <1>6, <1>7, <1>8, SMT

(* Reading past the end is reading a byte of the layout. *)
LEMMA BytesRead ==
  ASSUME NEW f, NEW j \in Nat
  PROVE  Packed!ByteOrZero(Layout(f), j) = LayoutByte(f, j)
<1>1. CASE j < Packed!Bytes
  <2>1. j \in 0 .. Packed!Bytes - 1
    BY <1>1, BytesOfArray, SMT
  <2> QED BY <1>1, <2>1, Zenon DEF Packed!ByteOrZero, Layout
<1>2. CASE ~(j < Packed!Bytes)
  <2>1. LayoutByte(f, j) = 0
    BY <1>2, BytesOfArray, NoByteBehind, SMT
  <2> QED BY <1>2, <2>1, Zenon DEF Packed!ByteOrZero
<1> QED BY <1>1, <1>2, Zenon

(* A field begins somewhere in a byte. *)
LEMMA ShiftsAreSmall ==
  ASSUME NEW p \in Positions
  PROVE  Packed!ShiftOf(p) \in {1, 2, 4, 8, 16, 32, 64, 128}
<1>1. p * 5 \in Nat
  BY LedgerAssumption, SMT DEF Positions
<1>2. (p * 5) % 8 \in 0 .. 7
  BY <1>1, SMT
<1>3. PICK m \in 0 .. 7 : m = (p * 5) % 8
  BY <1>2, Zenon
<1>4. Packed!ShiftOf(p) = 2 ^ m
  BY <1>3, Zenon DEF Packed!ShiftOf, Packed!FieldBits
<1>5. m = 0 \/ m = 1 \/ m = 2 \/ m = 3 \/ m = 4 \/ m = 5 \/ m = 6 \/ m = 7
  BY SMT
<1>6. CASE m = 0
  <2>1. Packed!ShiftOf(p) = 2 ^ 0
    BY <1>4, <1>6, Zenon
  <2> QED BY <2>1, PowersOfTwo, SMT
<1>7. CASE m = 1
  <2>1. Packed!ShiftOf(p) = 2 ^ 1
    BY <1>4, <1>7, Zenon
  <2> QED BY <2>1, PowersOfTwo, SMT
<1>8. CASE m = 2
  <2>1. Packed!ShiftOf(p) = 2 ^ 2
    BY <1>4, <1>8, Zenon
  <2> QED BY <2>1, PowersOfTwo, SMT
<1>9. CASE m = 3
  <2>1. Packed!ShiftOf(p) = 2 ^ 3
    BY <1>4, <1>9, Zenon
  <2> QED BY <2>1, PowersOfTwo, SMT
<1>10. CASE m = 4
  <2>1. Packed!ShiftOf(p) = 2 ^ 4
    BY <1>4, <1>10, Zenon
  <2> QED BY <2>1, PowersOfTwo, SMT
<1>11. CASE m = 5
  <2>1. Packed!ShiftOf(p) = 2 ^ 5
    BY <1>4, <1>11, Zenon
  <2> QED BY <2>1, PowersOfTwo, SMT
<1>12. CASE m = 6
  <2>1. Packed!ShiftOf(p) = 2 ^ 6
    BY <1>4, <1>12, Zenon
  <2> QED BY <2>1, PowersOfTwo, SMT
<1>13. CASE m = 7
  <2>1. Packed!ShiftOf(p) = 2 ^ 7
    BY <1>4, <1>13, Zenon
  <2> QED BY <2>1, PowersOfTwo, SMT
<1> QED BY <1>5, <1>6, <1>7, <1>8, <1>9, <1>10, <1>11, <1>12, <1>13, Zenon

(* PackedEventLengthRawGet gives back the field. *)
LEMMA FieldReadsBack ==
  ASSUME NEW f \in FieldArrays, NEW p \in Positions
  PROVE  Packed!RawGet(Layout(f), p) = f[p]
<1> DEFINE k == Packed!ByteOf(p)
<1> DEFINE s == Packed!ShiftOf(p)
<1>1. f[p] \in 0 .. 31 /\ Changed(f, f, p, f[p])
  BY Zenon DEF FieldArrays, Changed
<1>2. FieldIsStored(f, f, p, f[p])
  BY <1>1, EveryField, Zenon
<1>3. k \in 0 .. Packed!Bytes - 1 /\ k \in Nat /\ k + 1 \in Nat /\ k + 2 \in Nat
  BY BytesOfArray, SMT
<1>4. Layout(f)[k] = LayoutByte(f, k)
  BY <1>3, Zenon DEF Layout
<1>5. /\ Packed!ByteOrZero(Layout(f), k + 1) = LayoutByte(f, k + 1)
      /\ Packed!ByteOrZero(Layout(f), k + 2) = LayoutByte(f, k + 2)
  BY <1>3, BytesRead, Zenon
<1>6. LayoutByte(f, k) \in 0 .. 255 /\ LayoutByte(f, k + 1) \in 0 .. 255
        /\ LayoutByte(f, k + 2) \in 0 .. 255
  BY <1>3, BytesAreSmall, Zenon
<1>7. s \in Nat
  BY ShiftsAreSmall, SMT
<1>8. /\ (Chunk(f, k) \div s) % 32 = f[p]
      /\ s <= 8 => ((LayoutByte(f, k) + 256 * LayoutByte(f, k + 1)) \div s) % 32 = f[p]
  BY <1>2, Zenon DEF FieldIsStored
<1>9. Packed!RawGet(Layout(f), p) =
        ((Layout(f)[k] + 256 * Packed!ByteOrZero(Layout(f), k + 1)
            + (IF s > 8 THEN 65536 * Packed!ByteOrZero(Layout(f), k + 2) ELSE 0)) \div s) % 32
  BY SMT DEF Packed!RawGet
<1> HIDE DEF k, s
<1>10. CASE s > 8
  BY <1>4, <1>5, <1>6, <1>8, <1>9, <1>10, SMT DEF Chunk
<1>11. CASE ~(s > 8)
  <2>1. s <= 8
    BY <1>7, <1>11, SMT
  <2> DEFINE sum == LayoutByte(f, k) + 256 * LayoutByte(f, k + 1)
  <2>0. LayoutByte(f, k) \in Int /\ LayoutByte(f, k + 1) \in Int
    BY <1>6, SMT
  <2>2. sum + 0 = sum
    BY <2>0, SMT
  <2>3. (sum \div s) % 32 = f[p]
    BY <1>8, <2>1, Zenon
  <2>4. Packed!RawGet(Layout(f), p) = ((sum + 0) \div s) % 32
    BY <1>4, <1>5, <1>9, <1>11, SMT
  <2> HIDE DEF sum
  <2> QED BY <2>2, <2>3, <2>4, Zenon
<1> QED BY <1>10, <1>11, Zenon

(* PackedEventLengthRawSet changes the field and nothing around it. *)
LEMMA FieldIsSet ==
  ASSUME NEW f \in FieldArrays, NEW p \in Positions,
         NEW v \in 0 .. 31, NEW t \in FieldArrays, Changed(f, t, p, v)
  PROVE  Packed!RawSet(Layout(f), p, v) = Layout(t)
<1> DEFINE k == Packed!ByteOf(p)
<1> DEFINE s == Packed!ShiftOf(p)
<1> DEFINE chunk == Layout(f)[k] + 256 * Packed!ByteOrZero(Layout(f), k + 1)
                     + 65536 * Packed!ByteOrZero(Layout(f), k + 2)
<1> DEFINE field == (chunk \div s) % 32
<1> DEFINE after == chunk + ((v % 32) - field) * s
<1>1. Packed!RawSet(Layout(f), p, v) =
        [j \in 0 .. Packed!Bytes - 1 |->
           IF j \in k .. k + 2 THEN (after \div 256 ^ (j - k)) % 256 ELSE Layout(f)[j]]
  BY SMT DEF Packed!RawSet
<1>2. FieldIsStored(f, t, p, v)
  BY EveryField, Zenon
<1>3. k \in 0 .. Packed!Bytes - 1 /\ k \in Nat /\ k + 1 \in Nat /\ k + 2 \in Nat
  BY BytesOfArray, SMT
<1>4. Layout(f)[k] = LayoutByte(f, k)
  BY <1>3, Zenon DEF Layout
<1>5. /\ Packed!ByteOrZero(Layout(f), k + 1) = LayoutByte(f, k + 1)
      /\ Packed!ByteOrZero(Layout(f), k + 2) = LayoutByte(f, k + 2)
  BY <1>3, BytesRead, Zenon
<1>6. (Chunk(f, k) \div s) % 32 = f[p] /\ Chunk(t, k) = Chunk(f, k) + (v - f[p]) * s
  BY <1>2, Zenon DEF FieldIsStored
<1>7. v % 32 = v
  BY SMT
<1>8. after = Chunk(t, k)
  <2>1. chunk = Chunk(f, k)
    BY <1>4, <1>5, SMT DEF Chunk
  <2> HIDE DEF chunk, k, s
  <2>2. field = f[p]
    BY <2>1, <1>6, SMT
  <2> HIDE DEF field
  <2> QED BY <2>1, <2>2, <1>6, <1>7, SMT
<1> HIDE DEF chunk, field, after
<1>9. /\ after \in Int
      /\ after % 256 = LayoutByte(t, k) /\ (after \div 256) % 256 = LayoutByte(t, k + 1)
      /\ (after \div 65536) % 256 = LayoutByte(t, k + 2)
  <2>1. LayoutByte(t, k) \in 0 .. 255 /\ LayoutByte(t, k + 1) \in 0 .. 255
          /\ LayoutByte(t, k + 2) \in 0 .. 255
    BY <1>3, BytesAreSmall, Zenon
  <2> HIDE DEF k
  <2>2. MadeOf(after, LayoutByte(t, k), LayoutByte(t, k + 1), LayoutByte(t, k + 2))
    BY <1>8, SMT DEF MadeOf, Chunk
  <2>3. ReadAs(after, LayoutByte(t, k), LayoutByte(t, k + 1), LayoutByte(t, k + 2))
    BY <2>1, <2>2, ThreeBytes, Zenon
  <2> QED BY <2>3, SMT DEF ReadAs
<1>10. ASSUME NEW j \in 0 .. Packed!Bytes - 1
       PROVE  (IF j \in k .. k + 2 THEN (after \div 256 ^ (j - k)) % 256 ELSE Layout(f)[j])
                 = LayoutByte(t, j)
  <2>1. CASE j \notin k .. k + 2
    <3>1. j \in Nat /\ (5 * p + 4 < 8 * j \/ 8 * j + 7 < 5 * p)
      <4>1. k = (p * 5) \div 8 /\ p \in Nat /\ j \in Nat
        BY LedgerAssumption, BytesOfArray, SMT DEF Packed!ByteOf, Packed!FieldBits, Positions
      <4> QED BY <1>3, <2>1, <4>1, SMT
    <3>2. LayoutByte(t, j) = LayoutByte(f, j)
      BY <3>1, OtherBytes, Zenon
    <3> QED BY <2>1, <3>2, Zenon DEF Layout
  <2> HIDE DEF k
  <2>2. CASE j = k
    <3>1. j \in k .. k + 2 /\ j - k = 0
      BY <1>3, <2>2, SMT
    <3>3. (after \div 1) % 256 = LayoutByte(t, k)
      BY <1>9, SMT
    <3>4. 256 ^ (j - k) = 1
      <4>1. 256 ^ (j - k) = 256 ^ 0
        BY <3>1, Zenon
      <4> QED BY <4>1, PowersOfByte, SMT
    <3> QED BY <2>2, <3>1, <3>3, <3>4, SMT
  <2>3. CASE j = k + 1
    <3>1. j \in k .. k + 2 /\ j - k = 1
      BY <1>3, <2>3, SMT
    <3>2. 256 ^ (j - k) = 256
      <4>1. 256 ^ (j - k) = 256 ^ 1
        BY <3>1, Zenon
      <4> QED BY <4>1, PowersOfByte, SMT
    <3> QED BY <1>9, <2>3, <3>1, <3>2, SMT
  <2>4. CASE j = k + 2
    <3>1. j \in k .. k + 2 /\ j - k = 2
      BY <1>3, <2>4, SMT
    <3>2. 256 ^ (j - k) = 65536
      <4>1. 256 ^ (j - k) = 256 ^ 2
        BY <3>1, Zenon
      <4> QED BY <4>1, PowersOfByte, SMT
    <3> QED BY <1>9, <2>4, <3>1, <3>2, SMT
  <2>5. j \notin k .. k + 2 \/ j = k \/ j = k + 1 \/ j = k + 2
    BY <1>3, BytesOfArray, SMT
  <2> QED BY <2>1, <2>2, <2>3, <2>4, <2>5, Zenon
<1> HIDE DEF k
<1> QED BY <1>1, <1>10, Zenon DEF Layout

-----------------------------------------------------------------------------
(* The packed array holds the lengths *)

(* The fields of a bar, and the first n of them. *)
Lengths(s) == [p \in Positions |-> s.length[p] - 1]
FirstOf(f, n) == [p \in Positions |-> IF p < n THEN f[p] ELSE 0]

(* Lengths, less one, are five bits as long as a bar has 32 positions at most. *)
LEMMA LengthsAreFields ==
  ASSUME NEW s \in Slot
  PROVE  /\ Lengths(s) \in FieldArrays
         /\ \A p \in Positions : s.length[p] \in 1 .. LedgerMax /\ s.length[p] \in Int
<1>1. s.length \in [Positions -> 1 .. LedgerMax]
  BY DEF Slot
<1>2. \A p \in Positions : s.length[p] - 1 \in 0 .. 31
  BY <1>1, LedgerAssumption, EditorAssumption, SMT
<1> QED BY <1>1, <1>2, SMT DEF Lengths, FieldArrays

(* A cleared array has nothing in it. *)
LEMMA NothingStored ==
  ASSUME NEW f \in FieldArrays
  PROVE  Layout(FirstOf(f, 0)) = Packed!Zero
<1>1. \A q : FieldAt(FirstOf(f, 0), q) = 0
  BY LedgerAssumption, SMT DEF FieldAt, FirstOf, Positions
<1>2. \A j \in 0 .. Packed!Bytes - 1 : LayoutByte(FirstOf(f, 0), j) = 0
  <2>1. 0 + 32 * (0 % 8) = 0 /\ 0 \div 8 + 4 * 0 + 128 * (0 % 2) = 0
          /\ 0 \div 2 + 16 * (0 % 16) = 0
        /\ 0 \div 16 + 2 * 0 + 64 * (0 % 4) = 0 /\ 0 \div 4 + 8 * 0 = 0
    BY SMT
  <2> QED BY <1>1, <2>1, SMT DEF LayoutByte
<1> QED BY <1>2, SMT DEF Layout, Packed!Zero

(* Storing one field more. *)
LEMMA OneMoreStored ==
  ASSUME NEW f \in FieldArrays, NEW n \in 1 .. LedgerMax
  PROVE  Packed!RawSet(Layout(FirstOf(f, n - 1)), n - 1, f[n - 1]) = Layout(FirstOf(f, n))
<1> DEFINE p == n - 1
<1>1. p \in Positions /\ n - 1 = p
  BY LedgerAssumption, SMT DEF Positions
<1>2. f[p] \in 0 .. 31
  BY <1>1, Zenon DEF FieldArrays
<1>3. FirstOf(f, p) \in FieldArrays /\ FirstOf(f, n) \in FieldArrays
  <2>1. \A q \in Positions : f[q] \in 0 .. 31 /\ 0 \in 0 .. 31
    BY SMT DEF FieldArrays
  <2>2. \A q \in Positions : /\ (IF q < p THEN f[q] ELSE 0) \in 0 .. 31
                              /\ (IF q < n THEN f[q] ELSE 0) \in 0 .. 31
    BY <2>1, Zenon
  <2> QED BY <2>2, Zenon DEF FirstOf, FieldArrays
<1>4. Changed(FirstOf(f, p), FirstOf(f, n), p, f[p])
  BY <1>1, LedgerAssumption, SMT DEF Changed, FirstOf, Positions
<1> HIDE DEF p
<1> QED BY <1>1, <1>2, <1>3, <1>4, FieldIsSet

(* The array a song is imported with: the lengths are stored one after the other. *)
LEMMA PackedFromLengths ==
  ASSUME NEW s \in Slot
  PROVE  PackedFrom(s) = Layout(Lengths(s))
<1> DEFINE f == Lengths(s)
<1> DEFINE P == 0 .. LedgerMax
<1> DEFINE Next1(u) == [p \in P |-> IF p = 0 THEN Packed!Zero
                                     ELSE Packed!RawSet(u[p - 1], p - 1, s.length[p - 1] - 1)]
<1> DEFINE w == [p \in P |-> Layout(FirstOf(f, p))]
<1> DEFINE upTo == CHOOSE u : u = Next1(u)
<1>0. LedgerMax \in Nat
  BY LedgerAssumption
<1>1. PackedFrom(s) = upTo[LedgerMax]
  BY DEF PackedFrom
<1>2. f \in FieldArrays
  BY LengthsAreFields
<1>3. ASSUME NEW p \in P, p # 0
      PROVE  /\ p - 1 \in P /\ p \in 1 .. LedgerMax /\ s.length[p - 1] - 1 = f[p - 1]
             /\ Packed!RawSet(w[p - 1], p - 1, s.length[p - 1] - 1) = w[p]
  <2>1. p - 1 \in P /\ p \in 1 .. LedgerMax /\ p - 1 \in Positions
    BY <1>0, <1>3, SMT DEF Positions
  <2>2. s.length[p - 1] - 1 = f[p - 1]
    BY <2>1, Zenon DEF Lengths
  <2>3. w[p - 1] = Layout(FirstOf(f, p - 1)) /\ w[p] = Layout(FirstOf(f, p))
    BY <2>1, Zenon
  <2> HIDE DEF f, w
  <2> QED BY <1>2, <2>1, <2>2, <2>3, OneMoreStored
<1>4. w[0] = Packed!Zero
  <2>1. 0 \in P
    BY <1>0, SMT
  <2> HIDE DEF f
  <2> QED BY <1>2, <2>1, NothingStored, Zenon
<1>5. w = Next1(w)
  <2> HIDE DEF f
  <2>1. \A p \in P : w[p] = Next1(w)[p]
    BY <1>3, <1>4, Zenon
  <2> QED BY <2>1, Zenon
<1> HIDE DEF w, f
<1>6. upTo = Next1(upTo)
  BY <1>5, Zenon
<1> HIDE DEF upTo
<1>7. \A p \in P : upTo[p] = IF p = 0 THEN Packed!Zero
                              ELSE Packed!RawSet(upTo[p - 1], p - 1, s.length[p - 1] - 1)
  BY <1>6, Zenon
<1>8. upTo[LedgerMax] = w[LedgerMax]
  <2> DEFINE Wrong == {p \in P : upTo[p] # w[p]}
  <2>1. CASE Wrong = {}
    BY <1>0, <2>1, SMT
  <2>2. CASE Wrong # {}
    <3>1. PICK p \in Wrong : \A q \in Wrong : p <= q
      <4>1. Wrong \in SUBSET Nat
        BY SMT
      <4> HIDE DEF Wrong
      <4> QED BY <2>2, <4>1, LeastExists
    <3>2. p \in P /\ p # 0
      BY <1>4, <1>7, <3>1, SMT
    <3>3. p - 1 \in P /\ p - 1 \notin Wrong
      BY <1>3, <3>1, <3>2, SMT
    <3>4. upTo[p - 1] = w[p - 1]
      BY <3>3, Zenon
    <3>5. upTo[p] = w[p]
      BY <1>3, <1>7, <3>2, <3>4, Zenon
    <3> QED BY <3>1, <3>5, Zenon
  <2> QED BY <2>1, <2>2
<1>9. FirstOf(f, LedgerMax) = f
  <2>1. \A p \in Positions : p < LedgerMax
    BY <1>0, SMT DEF Positions
  <2> QED BY <1>2, <2>1, Zenon DEF FirstOf, FieldArrays
<1>10. LedgerMax \in P
  BY <1>0, SMT
<1>11. w[LedgerMax] = Layout(FirstOf(f, LedgerMax))
  BY <1>10, Zenon DEF w
<1> QED BY <1>1, <1>8, <1>9, <1>11, Zenon DEF f

(* The array is the layout of the lengths: what every step has to keep. *)
PackedInv == packed = [b \in Bars |-> Layout(Lengths(slot[b]))]

(* At most one length of a bar changes. *)
OneLength(t, s) ==
  \E p \in Positions : \A q \in Positions \ {p} : t.length[q] = s.length[q]

(* A call that changes one length of a bar stores it, and it alone. *)
LEMMA LengthIsStored ==
  ASSUME LedgerInv, LedgerInv', PackedInv, StoresLength,
         \A b \in Bars : OneLength(slot'[b], slot[b])
  PROVE  PackedInv'
<1>1. ASSUME NEW b \in Bars
      PROVE  packed'[b] = Layout(Lengths(slot'[b]))
  <2> DEFINE s == slot[b]
  <2> DEFINE t == slot'[b]
  <2> DEFINE changed == {p \in Positions : t.length[p] # s.length[p]}
  <2>1. s \in Slot /\ t \in Slot
    BY BarsAreOK DEF LedgerInv, LedgerIsConsistent, LedgerTypeOK
  <2>2. packed[b] = Layout(Lengths(s))
    BY Zenon DEF PackedInv
  <2>3. packed'[b] = IF changed = {} THEN packed[b]
                     ELSE Packed!RawSet(packed[b], MinOf(changed), t.length[MinOf(changed)] - 1)
    BY Zenon DEF StoresLength
  <2>4. CASE changed = {}
    <3>1. \A p \in Positions : t.length[p] = s.length[p]
      BY <2>4, Zenon
    <3>2. Lengths(t) = Lengths(s)
      BY <3>1, Zenon DEF Lengths
    <3> QED BY <2>2, <2>3, <2>4, <3>2, Zenon
  <2>5. CASE changed # {}
    <3>1. PICK p \in Positions : \A q \in Positions \ {p} : t.length[q] = s.length[q]
      BY Zenon DEF OneLength
    <3>2. changed = {p}
      <4>1. PICK x \in changed : TRUE
        BY <2>5, Zenon
      <4>2. x = p
        BY <3>1, <4>1, Zenon
      <4>3. \A y \in changed : y = p
        BY <3>1, Zenon
      <4> HIDE DEF changed
      <4> QED BY <4>1, <4>2, <4>3, Zenon
    <3>3. MinOf(changed) = p
      BY <3>1, <3>2, SMT DEF MinOf, Positions
    <3>4. Lengths(s) \in FieldArrays /\ Lengths(t) \in FieldArrays
      BY <2>1, LengthsAreFields, Zenon
    <3>5. Lengths(t)[p] \in 0 .. 31 /\ Lengths(t)[p] = t.length[p] - 1
      BY <3>1, <3>4, Zenon DEF FieldArrays, Lengths
    <3>6. Changed(Lengths(s), Lengths(t), p, Lengths(t)[p])
      BY <3>1, Zenon DEF Changed, Lengths
    <3> DEFINE f == Lengths(s)
    <3> DEFINE g == Lengths(t)
    <3> HIDE DEF s, t, changed, f, g
    <3>7. Packed!RawSet(Layout(f), p, g[p]) = Layout(g)
      <4>1. f \in FieldArrays /\ g \in FieldArrays /\ g[p] \in 0 .. 31 /\ Changed(f, g, p, g[p])
        BY <3>4, <3>5, <3>6, Zenon DEF f, g
      <4> QED BY <3>1, <4>1, FieldIsSet
    <3>8. packed'[b] = Packed!RawSet(packed[b], p, t.length[p] - 1)
      BY <2>3, <2>5, <3>3, Zenon DEF t
    <3> QED BY <2>2, <3>5, <3>7, <3>8, Zenon DEF f, g, t
  <2> QED BY <2>4, <2>5
<1>2. packed' = [b \in Bars |-> packed'[b]]
  BY Zenon DEF StoresLength
<1> QED BY <1>1, <1>2, Zenon DEF PackedInv

(* A chord put in place of a bar has one length, that of its event. *)
LEMMA ReplacedHasOneLength ==
  ASSUME LedgerInv, NEW b \in Bars, NEW chord \in SUBSET (0 .. 11),
         SetStepChord(b, chord) \/ SetStepNoChord(b), NEW c \in Bars
  PROVE  OneLength(slot'[c], slot[c])
<1>0. 0 \in Positions /\ slot \in [Bars -> Slot]
  BY BarsAreOK, LedgerAssumption, SMT DEF Positions
<1>1. CASE c # b
  <2>1. slot'[c] = slot[c]
    BY <1>0, <1>1 DEF SetStepChord, SetStepNoChord
  <2> QED BY <1>0, <2>1, Zenon DEF OneLength
<1>2. CASE c = b
  <2>1. slot'[b] = WithChord(slot[b], chord) \/ slot'[b] = WithoutNotes(slot[b])
    BY <1>0 DEF SetStepChord, SetStepNoChord
  <2>2. slot[b].length \in [Positions -> 1 .. LedgerMax]
    BY <1>0 DEF Slot
  <2>3. slot'[b].length = [slot[b].length EXCEPT ![0] = 2] \/ slot'[b].length = slot[b].length
    BY <1>0, <2>1 DEF WithChord, WithoutNotes, Summarized, Slot
  <2>4. \A q \in Positions \ {0} : slot'[b].length[q] = slot[b].length[q]
    BY <2>2, <2>3
  <2> QED BY <1>0, <1>2, <2>4, Zenon DEF OneLength
<1> QED BY <1>1, <1>2

(* Every step of the editor keeps array and lengths together. *)
LEMMA PackedStep == EditorInv /\ PackedInv /\ [Next]_vars => PackedInv'
<1> SUFFICES ASSUME EditorInv, PackedInv, [Next]_vars PROVE PackedInv'
  OBVIOUS
<1>1. LedgerInv /\ LedgerInv'
  BY EditorStep, Zenon DEF EditorInv
<1>2. CASE UNCHANGED <<packed, slot>>
  BY <1>2, Zenon DEF PackedInv
<1>3. ASSUME StoresLength, InEditor PROVE PackedInv'
  <2>1. ASSUME NEW b \in Bars PROVE OneLength(slot'[b], slot[b])
    <3>1. DifferAtOne(slot'[b], slot[b])
      BY <1>3, EditDiffersAtOne, Zenon
    <3>2. bar \in 1 .. LedgerMax
      BY <1>1, BarsAreOK, Zenon
    <3>3. \A p \in 0 .. bar - 1 : p \in Positions
      BY <3>2, LedgerAssumption, SMT DEF Positions
    <3> QED BY <3>1, <3>3, Zenon DEF DifferAtOne, OneLength
  <2> QED BY <1>1, <1>3, <2>1, LengthIsStored, Zenon
<1>4. ASSUME NEW b \in Bars, NEW chord \in Chords \cup {{}}, StoreChord(b, chord)
      PROVE  PackedInv'
  <2>1. chord \in SUBSET (0 .. 11)
    BY LedgerAssumption, SMT
  <2>2. StoresLength /\ (SetStepChord(b, chord) \/ SetStepNoChord(b))
    BY <1>4, Zenon DEF StoreChord
  <2>3. \A c \in Bars : OneLength(slot'[c], slot[c])
    BY <1>1, <2>1, <2>2, ReplacedHasOneLength, Zenon
  <2> QED BY <1>1, <2>2, <2>3, LengthIsStored, Zenon
<1>5. ASSUME \/ \E x \in Pitches : ToggleNote(x)
             \/ \E notes \in Inputs : PlaceChord(notes)
             \/ EndLength \/ ToggleBarSkip \/ BridgeCall
             \/ \E d \in Divisions, n \in BarLengths : ChangeTiming(d, n)
      PROVE  StoresLength /\ InEditor
  BY <1>5, Zenon DEF ToggleNote, PlaceChord, EndLength, ToggleBarSkip, BridgeCall, ChangeTiming,
                     Write, Editing, Idle, InEditor
<1>6. ASSUME \/ \E b \in Bars : Enter(b)
             \/ NextPosition \/ LeaveAndKeep \/ BeginLength \/ ClearBar \/ LeaveAndRestore
             \/ UNCHANGED vars
             \/ \E turn \in {-1, 1} : ChangeLength(turn)
             \/ \E draft \in Drafts : CommitFromGrid(draft)
             \/ \E draft \in Drafts, b \in Bars : CommitInSession(draft, b)
      PROVE  UNCHANGED <<packed, slot>>
  BY <1>6, SMT DEF Enter, NextPosition, LeaveAndKeep, BeginLength, ClearBar, LeaveAndRestore,
                   ChangeLength, CommitFromGrid, CommitInSession, CommitChordDraft,
                   vars, ledgerVars
<1>7. ASSUME NEW b \in Bars, NEW chord \in Chords \cup {{}}, ReplaceBar(b, chord)
      PROVE  PackedInv'
  BY <1>4, <1>7, Zenon DEF ReplaceBar
<1>8. CASE DraftCall
  <2>1. Head(stores) \in DraftCalls /\ StoreChord(Head(stores)[1], Head(stores)[2])
    BY <1>8, SMT DEF DraftCall, EditorInv
  <2>2. Head(stores)[1] \in Bars /\ Head(stores)[2] \in Chords \cup {{}}
    BY <2>1, SMT DEF DraftCalls
  <2> QED BY <1>4, <2>1, <2>2, Zenon
<1> QED BY <1>2, <1>3, <1>5, <1>6, <1>7, <1>8, Zenon DEF Next

(* Storing a length never harms the one in the fields around it, also where a field
   lies across two bytes: PackedEventLengthRawGet gives back every length that
   PackedEventLengthRawSet was ever given. *)
THEOREM LengthsReadBack == Spec => []PackedHoldsLengths
<1>1. Init => PackedInv
  <2> SUFFICES ASSUME Init PROVE PackedInv
    OBVIOUS
  <2>1. slot \in [Bars -> Slot] /\ packed = [b \in Bars |-> PackedFrom(slot[b])]
    <3>1. EditorInv
      BY EditorInitInv, Zenon
    <3> QED BY <3>1, BarsAreOK DEF Init, EditorInv
  <2>2. \A b \in Bars : PackedFrom(slot[b]) = Layout(Lengths(slot[b]))
    BY <2>1, PackedFromLengths
  <2> QED BY <2>1, <2>2, Zenon DEF PackedInv
<1>2. EditorInv /\ PackedInv => PackedHoldsLengths
  <2> SUFFICES ASSUME EditorInv, PackedInv, NEW b \in Bars, NEW p \in Positions
               PROVE  Packed!RawGet(packed[b], p) + 1 = slot[b].length[p]
    BY Zenon DEF PackedHoldsLengths
  <2>1. slot[b] \in Slot /\ packed[b] = Layout(Lengths(slot[b]))
    BY BarsAreOK DEF EditorInv, PackedInv
  <2>2. Lengths(slot[b]) \in FieldArrays /\ slot[b].length[p] \in Int
    BY <2>1, LengthsAreFields
  <2>3. Packed!RawGet(packed[b], p) = Lengths(slot[b])[p]
    BY <2>1, <2>2, FieldReadsBack, Zenon
  <2>4. Lengths(slot[b])[p] = slot[b].length[p] - 1
    BY Zenon DEF Lengths
  <2> QED BY <2>2, <2>3, <2>4, SMT
<1> QED
  BY <1>1, <1>2, EditorInitInv, EditorStep, PackedStep, PTL DEF Spec

(* Both of what the run checks: the stored form of the pattern is consistent, with the
   lengths that sound in its packed array. *)
THEOREM StoreStaysConsistent == Spec => []LedgerIsStored
BY EditorKeepsLedgerConsistent, LengthsReadBack, PTL DEF LedgerIsStored
=============================================================================
