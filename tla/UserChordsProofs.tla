--------------------------- MODULE UserChordsProofs ---------------------------
(***************************************************************************)
(* For any number of slots, chords, calls and failed transfers: the table   *)
(* of user chords keeps its types, a restart shows what the menus showed,   *)
(* free slots only become whole chords, and the ordinal a new chord is      *)
(* remembered by leads back to its slot.                                    *)
(***************************************************************************)
EXTENDS UserChords, TLAPS, FiniteSetTheorems, WellFoundedInduction

(* While no transfer has failed the two tables are equal; without the magic number
   both are still blank. *)
TablesAgree == healthy => ram = fram /\ (magic \/ fram = EmptyLibrary)

(* The chord whose name is edited is there: nothing is deleted meanwhile. *)
NamesAChord == naming => OrdinalToSlot(ram, last) # None

IInv == TypeOK /\ TablesAgree /\ NamesAChord

-----------------------------------------------------------------------------
(* Slots and ordinals *)

(* Finitely many slots lie before a slot, no more than its number. *)
LEMMA BeforeIsFinite ==
  ASSUME NEW r, NEW s \in Slots
  PROVE  /\ IsFiniteSet({t \in Used(r) : t < s})
         /\ Cardinality({t \in Used(r) : t < s}) \in 0 .. s
<1> DEFINE B == {t \in Used(r) : t < s}
<1>1. Capacity \in Nat \ {0} /\ s \in Nat
  BY LibraryAssumption DEF Slots
<1>2. IsFiniteSet(0 .. s - 1) /\ Cardinality(0 .. s - 1) = s
  <2>1. Cardinality(0 .. s - 1) = IF 0 > s - 1 THEN 0 ELSE s - 1 - 0 + 1
    BY <1>1, FS_Interval
  <2> QED BY <2>1, <1>1, FS_Interval
<1>3. B \in SUBSET (0 .. s - 1)
  BY <1>1 DEF Used, Slots
<1>4. IsFiniteSet(B) /\ Cardinality(B) <= s
  BY <1>2, <1>3, FS_Subset
<1>5. Cardinality(B) \in Nat
  BY <1>4, FS_CardinalityType
<1> QED
  BY <1>1, <1>4, <1>5

(* So the ordinal of a slot is one the menus can hold. *)
LEMMA BeforeInRange ==
  ASSUME NEW r, NEW s \in Slots
  PROVE  Before(r, s) \in Slots /\ Before(r, s) \in Nat
<1>1. Before(r, s) \in 0 .. s
  BY BeforeIsFinite DEF Before
<1> QED
  BY <1>1, LibraryAssumption DEF Slots

(* Before is strictly increasing over the slots in use. *)
LEMMA BeforeIncreases ==
  ASSUME NEW r, NEW s \in Used(r), NEW t \in Used(r), s < t
  PROVE  Before(r, s) < Before(r, t)
<1> DEFINE B(x) == {y \in Used(r) : y < x}
<1>1. s \in Slots /\ t \in Slots /\ s \in Nat /\ t \in Nat /\ Capacity \in Nat \ {0}
  BY LibraryAssumption DEF Used, Slots
<1>2. IsFiniteSet(B(s)) /\ IsFiniteSet(B(t))
  BY <1>1, BeforeIsFinite
<1>3. B(s) \cup {s} \in SUBSET B(t) /\ s \notin B(s)
  BY <1>1 DEF Used, Slots
<1>4. Cardinality(B(s) \cup {s}) = Cardinality(B(s)) + 1 /\ IsFiniteSet(B(s) \cup {s})
  BY <1>2, <1>3, FS_AddElement
<1>5. Cardinality(B(s) \cup {s}) <= Cardinality(B(t))
  BY <1>2, <1>3, FS_Subset
<1>6. Cardinality(B(s)) \in Nat /\ Cardinality(B(t)) \in Nat
  BY <1>2, FS_CardinalityType
<1>7. Before(r, s) = Cardinality(B(s)) /\ Before(r, t) = Cardinality(B(t))
  BY DEF Before
<1> QED
  BY <1>4, <1>5, <1>6, <1>7

(* The two ways of addressing agree: the ordinal of a chord leads back to its slot
   (SlotToOrdinal and OrdinalToSlot). *)
THEOREM OrdinalsLeadBack ==
  ASSUME NEW r, NEW s \in Used(r)
  PROVE  OrdinalToSlot(r, SlotToOrdinal(r, s)) = s
<1> DEFINE o == SlotToOrdinal(r, s)
<1>1. o = Before(r, s)
  BY DEF SlotToOrdinal
<1>2. \A t \in Used(r) : Before(r, t) = o => t = s
  <2> SUFFICES ASSUME NEW t \in Used(r), Before(r, t) = o PROVE t = s
    OBVIOUS
  <2>1. s \in Slots /\ t \in Slots /\ s \in Nat /\ t \in Nat
    BY LibraryAssumption DEF Used, Slots
  <2>2. Before(r, s) \in Nat /\ Before(r, t) \in Nat
    BY <2>1, BeforeInRange
  <2>3. CASE t < s
    BY <2>3, <2>2, <1>1, BeforeIncreases
  <2>4. CASE s < t
    BY <2>4, <2>2, <1>1, BeforeIncreases
  <2> QED
    BY <2>1, <2>3, <2>4
<1>3. \E t \in Used(r) : Before(r, t) = o
  BY <1>1
<1>4. OrdinalToSlot(r, o) = CHOOSE t \in Used(r) : Before(r, t) = o
  BY <1>3 DEF OrdinalToSlot
<1> QED
  BY <1>2, <1>3, <1>4

(* What a table is searched for is a slot or nothing. *)
LEMMA SlotOrNone ==
  ASSUME NEW r, NEW o
  PROVE  /\ OrdinalToSlot(r, o) \in Slots \cup {None}
         /\ FindFreeSlot(r) \in (Slots \ Used(r)) \cup {None}
<1>1. OrdinalToSlot(r, o) \in Slots \cup {None}
  <2>1. CASE \E s \in Used(r) : Before(r, s) = o
    BY <2>1 DEF OrdinalToSlot, Used
  <2>2. CASE ~ \E s \in Used(r) : Before(r, s) = o
    BY <2>2 DEF OrdinalToSlot
  <2> QED BY <2>1, <2>2
<1>2. FindFreeSlot(r) \in (Slots \ Used(r)) \cup {None}
  <2>1. CASE Used(r) = Slots
    BY <2>1 DEF FindFreeSlot
  <2>2. CASE Used(r) # Slots
    <3> DEFINE Free == Slots \ Used(r)
    <3>1. Free # {} /\ Free \in SUBSET Nat
      BY <2>2, LibraryAssumption DEF Used, Slots
    <3>2. \E s \in Free : \A t \in Free : s <= t
      <4>1. PICK s \in Free : \A t \in Free : ~ (<<t, s>> \in OpToRel(<, Nat))
        BY <3>1, NatLessThanWellFounded, WFMin
      <4>2. \A t \in Free : ~ (t < s)
        BY <4>1, <3>1 DEF OpToRel
      <4>3. \A t \in Free : s <= t
        <5> SUFFICES ASSUME NEW t \in Free PROVE s <= t
          OBVIOUS
        <5>1. s \in Nat /\ t \in Nat
          BY <3>1
        <5>2. ~ (t < s)
          BY <4>2
        <5> QED
          BY <5>1, <5>2
      <4> QED
        BY <4>3
    <3> QED
      BY <2>2, <3>2 DEF FindFreeSlot
  <2> QED BY <2>1, <2>2
<1> QED BY <1>1, <1>2

(* The name given to a new chord exists: there are at most Capacity chords. *)
LEMMA NextName ==
  ASSUME NEW r
  PROVE  Cardinality(Used(r)) + 1 \in Names
<1>1. Capacity \in Nat \ {0}
  BY LibraryAssumption
<1>2. IsFiniteSet(Slots) /\ Cardinality(Slots) = Capacity
  <2>1. Cardinality(0 .. Capacity - 1)
          = IF 0 > Capacity - 1 THEN 0 ELSE Capacity - 1 - 0 + 1
    BY <1>1, FS_Interval
  <2> QED BY <2>1, <1>1, FS_Interval DEF Slots
<1>3. Used(r) \in SUBSET Slots
  BY DEF Used
<1>4. IsFiniteSet(Used(r)) /\ Cardinality(Used(r)) <= Capacity
  BY <1>2, <1>3, FS_Subset
<1>5. Cardinality(Used(r)) \in Nat
  BY <1>4, FS_CardinalityType
<1> QED
  BY <1>1, <1>4, <1>5 DEF Names, NoName, Partial

-----------------------------------------------------------------------------
(* Writing a slot *)

(* The stages of a slot on its way into FRAM are chords, and only the last one is
   in use when the slot was not. *)
LEMMA StagesOfASlot ==
  ASSUME NEW old \in Chord, NEW new \in Chord, NEW c \in Written(old, new)
  PROVE  /\ c \in Chord
         /\ ~old.used /\ c.used => c = new
<1>1. Partial \in Names
  BY LibraryAssumption DEF Names, Partial, NoName
<1>2. new = [[[old EXCEPT !.name = new.name] EXCEPT !.mask = new.mask]
                EXCEPT !.used = new.used]
  BY DEF Chord
<1> QED
  BY <1>1, <1>2 DEF Written, Chord

(* What FramWriteSlot does to FRAM and to the history, whether it succeeds or not. *)
LEMMA WriteOneSlot ==
  ASSUME TypeOK, NEW r \in [Slots -> Chord], NEW s \in Slots, NEW ok \in BOOLEAN,
         FramWriteSlot(r, s, ok)
  PROVE  /\ fram' \in [Slots -> Chord] /\ magic' \in BOOLEAN /\ healthy' \in BOOLEAN
         /\ faults' \in 0 .. MaxFaults
         /\ healthy' => healthy /\ fram' = [fram EXCEPT ![s] = r[s]] /\ magic'
         /\ \A t \in Slots : ~fram[t].used /\ fram'[t].used => fram'[t] = r[t]
<1>1. AddressOf(r, s) = s
  BY DEF AddressOf
<1>2. CASE /\ ok
           /\ fram' = [fram EXCEPT ![s] = r[s]] /\ magic' = TRUE
           /\ UNCHANGED <<healthy, faults>>
  BY <1>2 DEF TypeOK
<1>3. CASE /\ faults < MaxFaults
           /\ faults' = faults + 1 /\ healthy' = FALSE
           /\ \E c \in Written(fram[s], r[s]) : fram' = [fram EXCEPT ![s] = c]
           /\ magic' = magic
  <2>1. PICK c \in Written(fram[s], r[s]) : fram' = [fram EXCEPT ![s] = c]
    BY <1>3
  <2>2. c \in Chord /\ (~fram[s].used /\ c.used => c = r[s])
    BY <2>1, StagesOfASlot DEF TypeOK
  <2>3. fram' \in [Slots -> Chord]
    BY <2>1, <2>2 DEF TypeOK
  <2>4. \A t \in Slots : ~fram[t].used /\ fram'[t].used => fram'[t] = r[t]
    BY <2>1, <2>2 DEF TypeOK
  <2>5. faults' \in 0 .. MaxFaults
    BY <1>3, LibraryAssumption DEF TypeOK
  <2> QED
    BY <1>3, <2>3, <2>4, <2>5 DEF TypeOK
<1>4. CASE /\ faults < MaxFaults
           /\ faults' = faults + 1 /\ healthy' = FALSE
           /\ fram' = [fram EXCEPT ![s] = r[s]] /\ magic' \in {magic, TRUE}
  <2>1. fram' \in [Slots -> Chord]
    BY <1>4 DEF TypeOK
  <2>2. \A t \in Slots : ~fram[t].used /\ fram'[t].used => fram'[t] = r[t]
    BY <1>4 DEF TypeOK
  <2>3. faults' \in 0 .. MaxFaults
    BY <1>4, LibraryAssumption DEF TypeOK
  <2> QED
    BY <1>4, <2>1, <2>2, <2>3 DEF TypeOK
<1> QED
  BY <1>1, <1>2, <1>3, <1>4 DEF FramWriteSlot

-----------------------------------------------------------------------------
(* Types *)

(* The calls that write put a chord into one slot of the table and write that slot:
   Create, Delete and Rename. *)
Writes(s, chord) ==
  /\ s \in Slots /\ chord \in Chord
  /\ ram' = [ram EXCEPT ![s] = chord]
  /\ \E ok \in BOOLEAN : FramWriteSlot([ram EXCEPT ![s] = chord], s, ok)

(* Every such call names one slot and a chord that is one. *)
LEMMA CallsThatWrite ==
  ASSUME TypeOK, NamesAChord,
         (\E mask \in Masks : Create(mask)) \/ (\E o \in Slots : Delete(o)) \/ Rename
  PROVE  /\ \E s \in Slots, chord \in Chord : Writes(s, chord)
         /\ last' \in Slots \cup {None} /\ naming' = FALSE
         /\ calls' \in 0 .. MaxCalls
<1>1. Blank \in Chord /\ Typed \in Names /\ MaxCalls \in Nat
  BY LibraryAssumption DEF Blank, Chord, Names, NoName, Typed, Partial
<1>2. ASSUME NEW mask \in Masks, Create(mask)
      PROVE  /\ \E s \in Slots, chord \in Chord : Writes(s, chord)
             /\ last' \in Slots \cup {None} /\ naming' = FALSE
             /\ calls' \in 0 .. MaxCalls
  <2> DEFINE s == FindFreeSlot(ram)
             chord == [name |-> Cardinality(Used(ram)) + 1, mask |-> mask, used |-> TRUE]
             r == [ram EXCEPT ![s] = chord]
  <2>1. s \in Slots
    BY <1>2, SlotOrNone DEF Create
  <2>2. chord \in Chord
    BY NextName DEF Chord
  <2>3. SlotToOrdinal(r, s) \in Slots
    BY <2>1, BeforeInRange DEF SlotToOrdinal
  <2>4. PICK ok \in BOOLEAN : /\ FramWriteSlot(r, s, ok)
                              /\ last' = IF ok THEN SlotToOrdinal(r, s) ELSE None
    BY <1>2 DEF Create
  <2>5. last' \in Slots \cup {None}
    BY <2>3, <2>4
  <2>6. ram' = r
    BY <1>2 DEF Create
  <2>7. Writes(s, chord)
    BY <2>1, <2>2, <2>4, <2>6 DEF Writes
  <2>8. naming' = FALSE /\ calls' \in 0 .. MaxCalls
    BY <1>2, <1>1 DEF Create, Idle, TypeOK
  <2> QED
    BY <2>1, <2>2, <2>5, <2>7, <2>8
<1>3. ASSUME NEW o \in Slots, Delete(o)
      PROVE  /\ \E s \in Slots, chord \in Chord : Writes(s, chord)
             /\ last' \in Slots \cup {None} /\ naming' = FALSE
             /\ calls' \in 0 .. MaxCalls
  <2> DEFINE s == OrdinalToSlot(ram, o)
  <2>1. s \in Slots
    BY <1>3, SlotOrNone DEF Delete
  <2>2. Writes(s, Blank)
    BY <1>1, <1>3, <2>1 DEF Writes, Delete
  <2>3. last' = last /\ naming' = FALSE /\ calls' \in 0 .. MaxCalls
    BY <1>3, <1>1 DEF Delete, Idle, TypeOK
  <2> QED
    BY <1>1, <2>1, <2>2, <2>3 DEF TypeOK
<1>4. ASSUME Rename
      PROVE  /\ \E s \in Slots, chord \in Chord : Writes(s, chord)
             /\ last' \in Slots \cup {None} /\ naming' = FALSE
             /\ calls' \in 0 .. MaxCalls
  <2> DEFINE s == OrdinalToSlot(ram, last)
             chord == [ram[s] EXCEPT !.name = Typed]
  <2>0. s \in Slots
    BY <1>4, SlotOrNone DEF Rename, NamesAChord
  <2>1. chord \in Chord
    BY <1>1, <2>0 DEF TypeOK, Chord
  <2>2. [ram EXCEPT ![s].name = Typed] = [ram EXCEPT ![s] = chord]
    OBVIOUS
  <2>3. Writes(s, chord)
    BY <1>4, <2>0, <2>1, <2>2 DEF Writes, Rename
  <2>4. last' = last /\ naming' = FALSE /\ calls' \in 0 .. MaxCalls
    BY <1>4, <1>1 DEF Rename, TypeOK
  <2> QED
    BY <2>0, <2>1, <2>3, <2>4 DEF TypeOK
<1> QED
  BY <1>2, <1>3, <1>4

(* A blank slot is a chord as far as its type goes. *)
LEMMA EmptyLibraryType == Blank \in Chord /\ EmptyLibrary \in [Slots -> Chord]
<1>1. NoName \in Names
  BY LibraryAssumption DEF Names, NoName, Partial
<1>2. Blank \in Chord
  BY <1>1 DEF Blank, Chord
<1> QED
  BY <1>2 DEF EmptyLibrary

(* A boot from any library, or from a new chip. *)
LEMMA InitIInv == Init => IInv
<1> SUFFICES ASSUME Init PROVE IInv
  OBVIOUS
<1>1. EmptyLibrary \in [Slots -> Chord]
  BY EmptyLibraryType
<1>2. fram \in [Slots -> Chord]
  <2>1. 1 \in Names /\ Blank \in Chord
    BY LibraryAssumption, EmptyLibraryType DEF Names, NoName, Partial
  <2>2. {Blank} \cup [name : {1}, mask : Masks, used : {TRUE}] \subseteq Chord
    BY <2>1 DEF Chord
  <2> QED
    BY <2>2 DEF Init
<1>3. ram \in [Slots -> Chord]
  BY <1>1, <1>2 DEF Init, Reloaded
<1>4. 0 \in 0 .. MaxCalls /\ 0 \in 0 .. MaxFaults
  BY LibraryAssumption
<1>5. TypeOK
  BY <1>2, <1>3, <1>4 DEF Init, TypeOK
<1> QED
  BY <1>5 DEF Init, IInv, TablesAgree, NamesAChord, Reloaded

(* A call that writes keeps the invariant. *)
LEMMA WritesKeepIInv ==
  ASSUME IInv,
         (\E mask \in Masks : Create(mask)) \/ (\E o \in Slots : Delete(o)) \/ Rename
  PROVE  IInv'
<1>1. /\ \E s \in Slots, chord \in Chord : Writes(s, chord)
      /\ last' \in Slots \cup {None} /\ naming' = FALSE
      /\ calls' \in 0 .. MaxCalls
  BY CallsThatWrite DEF IInv
<1>2. PICK s \in Slots, chord \in Chord : Writes(s, chord)
  BY <1>1
<1> DEFINE r == [ram EXCEPT ![s] = chord]
<1>3. r \in [Slots -> Chord] /\ ram' = r
  BY <1>2 DEF IInv, TypeOK, Writes
<1>4. PICK ok \in BOOLEAN : FramWriteSlot(r, s, ok)
  BY <1>2 DEF Writes
<1>5. /\ fram' \in [Slots -> Chord] /\ magic' \in BOOLEAN /\ healthy' \in BOOLEAN
      /\ faults' \in 0 .. MaxFaults
      /\ healthy' => healthy /\ fram' = [fram EXCEPT ![s] = r[s]] /\ magic'
  BY <1>3, <1>4, WriteOneSlot DEF IInv
<1>6. TypeOK'
  BY <1>1, <1>3, <1>5 DEF TypeOK
<1>7. TablesAgree'
  BY <1>3, <1>5 DEF IInv, TypeOK, TablesAgree
<1> QED
  BY <1>1, <1>6, <1>7 DEF IInv, NamesAChord

(* Every call keeps the invariant. *)
LEMMA NextIInv == IInv /\ [Next]_vars => IInv'
<1> SUFFICES ASSUME IInv, [Next]_vars PROVE IInv'
  OBVIOUS
<1> USE DEF IInv
<1>0. EmptyLibrary \in [Slots -> Chord] /\ 0 \in Slots /\ MaxFaults \in Nat
  BY LibraryAssumption, EmptyLibraryType DEF Slots
<1>1. CASE (\E mask \in Masks : Create(mask)) \/ (\E o \in Slots : Delete(o)) \/ Rename
  BY <1>1, WritesKeepIInv
<1>2. CASE CreateWhenFull
  BY <1>2 DEF CreateWhenFull, TypeOK, TablesAgree, NamesAChord
<1>3. ASSUME NEW o \in Slots, Load(o) PROVE IInv'
  BY <1>3 DEF Load, TypeOK, TablesAgree, NamesAChord
<1>4. CASE StartUserChordNameEdit
  <2>1. TypeOK'
    BY <1>4, <1>0 DEF StartUserChordNameEdit, TypeOK
  <2>2. TablesAgree'
    BY <1>4 DEF StartUserChordNameEdit, TablesAgree
  <2>3. NamesAChord'
    BY <1>4 DEF StartUserChordNameEdit, NamesAChord
  <2> QED BY <2>1, <2>2, <2>3
<1>5. CASE LeaveNameEdit
  BY <1>5 DEF LeaveNameEdit, TypeOK, TablesAgree, NamesAChord
<1>6. CASE Boot
  <2>0. ram' \in [Slots -> Chord]
    BY <1>6, <1>0 DEF Boot, TypeOK, Reloaded
  <2>1. healthy' \in BOOLEAN
    BY <1>6, Zenon DEF Boot
  <2>2. faults' \in 0 .. MaxFaults
    BY <1>6, <1>0 DEF Boot, TypeOK
  <2>3. TypeOK'
    BY <1>6, <2>0, <2>1, <2>2 DEF Boot, TypeOK
  <2>4. TablesAgree'
    <3>1. CASE ram' = Reloaded(fram, magic) /\ healthy' = (magic \/ fram = EmptyLibrary)
      <4>1. healthy' => ram' = fram
        BY <3>1 DEF Reloaded
      <4> QED
        BY <1>6, <3>1, <4>1 DEF Boot, TablesAgree
    <3>2. CASE healthy' = FALSE
      BY <3>2 DEF TablesAgree
    <3> QED BY <1>6, <3>1, <3>2 DEF Boot
  <2> QED BY <1>6, <2>3, <2>4 DEF Boot, NamesAChord
<1>7. CASE UNCHANGED vars
  BY <1>7 DEF vars, TypeOK, TablesAgree, NamesAChord
<1> QED
  BY <1>1, <1>2, <1>3, <1>4, <1>5, <1>6, <1>7 DEF Next

(* The invariant the properties rest on. *)
THEOREM Invariance == Spec => []IInv
<1> QED
  BY InitIInv, NextIInv, PTL DEF Spec

(* The type invariant, for any capacity and any calls. *)
THEOREM TypeCorrect == Spec => []TypeOK
<1>1. IInv => TypeOK
  BY DEF IInv
<1> QED
  BY Invariance, <1>1, PTL

-----------------------------------------------------------------------------
(* The properties *)

(* A restart shows what the menus showed while no transfer has failed since the last
   good boot: the frame and the magic number of FramWriteSlot suffice, holes, first
   chord and repaired library included. *)
THEOREM RestartIsFaithful == Spec => []RestartKeepsLibrary
<1>1. IInv => RestartKeepsLibrary
  BY DEF IInv, TypeOK, TablesAgree, RestartKeepsLibrary, Reloaded
<1> QED
  BY Invariance, <1>1, PTL

(* A slot that is free in FRAM becomes the whole chord of the table or stays free,
   wherever its transfer breaks off: the mark of use is the last byte. *)
THEOREM ChordsAreWhole == Spec => FreeOrWhole
<1> DEFINE Whole == \A s \in Slots : ~fram[s].used /\ fram'[s].used => fram'[s] = ram'[s]
<1>1. IInv /\ [Next]_vars => [Whole]_vars
  <2> SUFFICES ASSUME IInv, Next PROVE Whole
    BY DEF vars
  <2>1. CASE (\E mask \in Masks : Create(mask)) \/ (\E o \in Slots : Delete(o)) \/ Rename
    <3>1. PICK s \in Slots, chord \in Chord : Writes(s, chord)
      BY <2>1, CallsThatWrite DEF IInv
    <3> DEFINE r == [ram EXCEPT ![s] = chord]
    <3>2. r \in [Slots -> Chord] /\ ram' = r
      BY <3>1 DEF IInv, TypeOK, Writes
    <3>3. PICK ok \in BOOLEAN : FramWriteSlot(r, s, ok)
      BY <3>1 DEF Writes
    <3>4. \A t \in Slots : ~fram[t].used /\ fram'[t].used => fram'[t] = r[t]
      BY <3>2, <3>3, WriteOneSlot DEF IInv
    <3> QED
      BY <3>2, <3>4
  <2>2. CASE fram' = fram
    BY <2>2
  <2> QED
    BY <2>1, <2>2 DEF Next, CreateWhenFull, Load, StartUserChordNameEdit, LeaveNameEdit,
                      Boot
<1> QED
  BY Invariance, <1>1, PTL DEF Spec, FreeOrWhole
=============================================================================
