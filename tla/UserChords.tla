------------------------------ MODULE UserChords ------------------------------
(***************************************************************************)
(* The library of user chords: a table of slots in RAM and its copy in     *)
(* FRAM, which is written one slot at a time and counts as present by a    *)
(* magic number that is written after the slot.  The menus address chords  *)
(* by ordinal, their place among the slots in use.                         *)
(*                                                                         *)
(* All calls are made from the main loop and no interrupt uses the table,  *)
(* so one call of the user interface is one action.  A transfer may fail   *)
(* with some of its bytes stored; power lost during a call is a transfer   *)
(* that fails, followed by Boot.                                           *)
(***************************************************************************)
EXTENDS Integers, FiniteSets

CONSTANTS
  Capacity,     (* kUserChordCount: 128                                    *)
  Masks,        (* note masks of chords, 0 is the empty one                *)
  MaxCalls,     (* bound: calls that write                                 *)
  MaxFaults     (* bound: transfers that fail                              *)

ASSUME LibraryAssumption ==
  /\ Capacity \in Nat \ {0}
  /\ Masks \subseteq Nat \ {0}
  /\ MaxCalls \in Nat /\ MaxFaults \in Nat

Slots == 0 .. Capacity - 1

(* Names: none, the number in "USERnn", one typed by the user, and what is left of
   a name that was written in part. *)
NoName == 0
Typed  == Capacity + 1
Partial == Capacity + 2
Names  == NoName .. Partial

Chord == [name : Names, mask : Masks \cup {0}, used : BOOLEAN]
Blank == [name |-> NoName, mask |-> 0, used |-> FALSE]
EmptyLibrary == [s \in Slots |-> Blank]

None == Capacity              (* 0xFF as an ordinal, and "no slot" as a slot *)

VARIABLES
  ram,        (* g_user_chords.slots_                                      *)
  fram,       (* the slots in FRAM                                         *)
  magic,      (* the magic number is in FRAM                               *)
  last,       (* s_last_saved_user_chord, an ordinal                       *)
  naming,     (* a name is being edited                                    *)
  healthy,    (* history: no transfer has failed since the last good boot, *)
              (* one that read the magic number or found a blank chip      *)
  calls, faults

vars == <<ram, fram, magic, last, naming, healthy, calls, faults>>

-----------------------------------------------------------------------------
(* Slots and ordinals *)

Used(r) == {s \in Slots : r[s].used}
Before(r, s) == Cardinality({t \in Used(r) : t < s})

SlotToOrdinal(r, s) == Before(r, s)

OrdinalToSlot(r, ordinal) ==
  IF \E s \in Used(r) : Before(r, s) = ordinal
  THEN CHOOSE s \in Used(r) : Before(r, s) = ordinal ELSE None

FindFreeSlot(r) ==
  IF Used(r) = Slots THEN None
  ELSE CHOOSE s \in Slots \ Used(r) : \A t \in Slots \ Used(r) : s <= t

-----------------------------------------------------------------------------
(* FRAM *)

(* FramLoadAll, when the transfers succeed. *)
Reloaded(f, m) == IF m THEN f ELSE EmptyLibrary

(* The 22 bytes of a slot go out in one frame: the name, the mask, and the mark that
   the slot is in use. *)
WrittenMarkFirst(old, new) ==   \* mutant
  { old, [old EXCEPT !.used = new.used], [new EXCEPT !.mask = old.mask], new }
Written(old, new) ==
  { old,
    [old EXCEPT !.name = Partial],
    [old EXCEPT !.name = new.name],
    [old EXCEPT !.name = new.name, !.mask = new.mask],
    new }

AddressByOrdinal(r, s) == IF Before(r, s) \in Slots THEN Before(r, s) ELSE s   \* mutant
AddressOf(r, s) == s

(* FramWriteSlot with the table r: the slot, and when that has succeeded the magic
   number, which the transfer leaves right if it was right. *)
FramWriteSlot(r, s, ok) ==
  LET a == AddressOf(r, s) IN
  \/ /\ ok
     /\ fram' = [fram EXCEPT ![a] = r[s]] /\ magic' = TRUE
     /\ UNCHANGED <<healthy, faults>>
  \/ /\ ~ok /\ faults < MaxFaults
     /\ faults' = faults + 1 /\ healthy' = FALSE
     /\ \/ /\ \E c \in Written(fram[a], r[s]) : fram' = [fram EXCEPT ![a] = c]
           /\ magic' = magic
        \/ fram' = [fram EXCEPT ![a] = r[s]] /\ magic' \in {magic, TRUE}

Init ==
  /\ fram \in [Slots -> {Blank} \cup [name : {1}, mask : Masks, used : {TRUE}]]
  /\ magic \in BOOLEAN
  /\ ~magic => fram = EmptyLibrary          (* a new chip *)
  /\ ram = Reloaded(fram, magic)
  /\ last = None /\ naming = FALSE /\ healthy = TRUE
  /\ calls = 0 /\ faults = 0

Idle == ~naming /\ calls < MaxCalls /\ calls' = calls + 1

-----------------------------------------------------------------------------
(* Calls *)

(* UI_Route_PlayUserChordCreate with Bridge_UserChord_Save; the chord is named by
   the number of chords there are. *)
Create(mask) ==
  LET s == FindFreeSlot(ram)
      chord == [name |-> Cardinality(Used(ram)) + 1, mask |-> mask, used |-> TRUE]
      r == [ram EXCEPT ![s] = chord]
  IN /\ Idle /\ s # None
     /\ ram' = r
     /\ \E ok \in BOOLEAN :
          /\ FramWriteSlot(r, s, ok)
          /\ last' = IF ok THEN SlotToOrdinal(r, s) ELSE None
     /\ UNCHANGED naming

CreateWhenFull ==
  /\ ~naming /\ FindFreeSlot(ram) = None
  /\ last' = None
  /\ UNCHANGED <<ram, fram, magic, naming, healthy, calls, faults>>

(* UI_Route_ShiftRecUserChordLoad with Bridge_UserChord_Delete: the slot becomes a
   blank one, in FRAM too. *)
Delete(ordinal) ==
  LET s == OrdinalToSlot(ram, ordinal)
      r == [ram EXCEPT ![s] = Blank]
  IN /\ Idle /\ s # None
     /\ ram' = r
     /\ \E ok \in BOOLEAN : FramWriteSlot(r, s, ok)
     /\ UNCHANGED <<last, naming>>

(* UI_Route_PlayUserChordLoad puts the chord into a bar and remembers its ordinal. *)
Load(ordinal) ==
  /\ ~naming /\ OrdinalToSlot(ram, ordinal) # None
  /\ last' = ordinal
  /\ UNCHANGED <<ram, fram, magic, naming, healthy, calls, faults>>

(* UI_Sequencer_StartUserChordNameEdit: without a chord remembered the first one is
   taken; nothing opens when there is none at the ordinal. *)
StartUserChordNameEdit ==
  /\ ~naming
  /\ last' = IF last = None /\ Used(ram) # {} THEN 0 ELSE last
  /\ naming' = (last' # None /\ OrdinalToSlot(ram, last') # None)
  /\ UNCHANGED <<ram, fram, magic, healthy, calls, faults>>

(* UI_Route_PlayUserChordName with Bridge_UserChord_Rename *)
Rename ==
  LET s == OrdinalToSlot(ram, last)
      r == [ram EXCEPT ![s].name = Typed]
  IN /\ naming /\ calls < MaxCalls /\ calls' = calls + 1
     /\ naming' = FALSE
     /\ ram' = r
     /\ \E ok \in BOOLEAN : FramWriteSlot(r, s, ok)
     /\ UNCHANGED last

(* UI_Route_RecUserChordName *)
LeaveNameEdit ==
  /\ naming /\ naming' = FALSE
  /\ UNCHANGED <<ram, fram, magic, last, healthy, calls, faults>>

(* Bridge_UserChord_Init.  A read that fails leaves an empty table, and is not
   tried again. *)
Boot ==
  /\ \/ /\ ram' = Reloaded(fram, magic) /\ UNCHANGED faults
        /\ healthy' = (magic \/ fram = EmptyLibrary)
     \/ /\ faults < MaxFaults /\ faults' = faults + 1
        /\ ram' = EmptyLibrary /\ healthy' = FALSE
  /\ last' = None /\ naming' = FALSE
  /\ UNCHANGED <<fram, magic, calls>>

Next ==
  \/ \E mask \in Masks : Create(mask)
  \/ CreateWhenFull
  \/ \E ordinal \in Slots : Delete(ordinal) \/ Load(ordinal)
  \/ StartUserChordNameEdit
  \/ Rename
  \/ LeaveNameEdit
  \/ Boot

Spec == Init /\ [][Next]_vars

-----------------------------------------------------------------------------
TypeOK ==
  /\ ram \in [Slots -> Chord] /\ fram \in [Slots -> Chord]
  /\ magic \in BOOLEAN /\ naming \in BOOLEAN /\ healthy \in BOOLEAN
  /\ last \in Slots \cup {None}
  /\ calls \in 0 .. MaxCalls /\ faults \in 0 .. MaxFaults

(* What a restart would load is what the menus show, as long as no transfer has
   failed: in holes, after deletions, with the first chord on a new chip, and again
   after a restart that mends what failed before it. *)
RestartKeepsLibrary == healthy => Reloaded(fram, magic) = ram

(* A slot that is free in FRAM only ever becomes a chord as a whole, wherever the
   transfer breaks off: a restart shows the new chord or none. *)
FreeOrWhole ==
  [][\A s \in Slots : ~fram[s].used /\ fram'[s].used => fram'[s] = ram'[s]]_vars
=============================================================================
