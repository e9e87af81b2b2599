---------------------------- MODULE PatternStore ----------------------------
(***************************************************************************)
(* The FRAM pattern store: a slot for each pattern, a chunked writer and a *)
(* chunked reader that the main loop pumps once per pass, and the blocking *)
(* reads the diagnostics use.  Each call is one step, since all of them    *)
(* run in the main context; a pass of the main loop may make any of them,  *)
(* so a write and a read of one slot can be under way together.            *)
(*                                                                         *)
(* A transfer over I2C can fail (after the two attempts of mb85rc1mt.c)    *)
(* and leave the bytes it was writing old, new or mixed; the power can go  *)
(* at any time.  A pattern is a function from its chunks to their          *)
(* contents, and its CRC is the pattern itself: two patterns with one CRC  *)
(* are not considered.                                                     *)
(***************************************************************************)
EXTENDS Integers

CONSTANTS
  Slots,        (* slots of the store: 32                                  *)
  Chunks,       (* chunks of a pattern: 2604 bytes, 32 at a time           *)
  Contents,     (* what a chunk can hold                                   *)
  MaxWrites,    (* bound: writes begun in a behaviour                      *)
  MaxFaults     (* bound: failed transfers and power cycles                *)

Garbage == 0    (* bytes no one wrote, or a mix of two chunks              *)
NoCrc   == -1   (* a CRC of no pattern                                     *)

ASSUME StoreAssumption ==
  /\ Chunks \in Nat \ {0}
  /\ Contents \subseteq Nat \ {Garbage}
  /\ MaxWrites \in Nat /\ MaxFaults \in Nat

Pieces  == 1 .. Chunks
Pattern == [Pieces -> Contents]
Bytes   == [Pieces -> Contents \cup {Garbage, NoCrc}]

VARIABLES
  fram,     (* of each slot: ok (magic, version and size are right), crc, data *)
  scratch,  (* s_pattern_store_scratch                                     *)
  writer,   (* s_async_phase, _index, _offset and the CRC of s_async_hdr   *)
  written,  (* what PatternStore_WriteAsyncService returned last           *)
  reader,   (* s_read_phase, _index, _offset, _expected_crc                *)
  target,   (* the pattern s_read_target points to                         *)
  got,      (* what PatternStore_ReadAsyncService returned last            *)
  faults,   (* bounded by MaxFaults                                        *)
  writes,   (* bounded by MaxWrites                                        *)
  given,    (* history: patterns a write was begun with, for each slot     *)
  disturbed (* history: a blocking read came during the last write         *)

vars == <<fram, scratch, writer, written, reader, target, got, faults, writes,
          given, disturbed>>

Blank   == [p \in Pieces |-> Garbage]
Erased  == [ok |-> FALSE, crc |-> Blank, data |-> Blank]
Resting(slot) == [phase |-> "idle", slot |-> slot, next |-> 1, crc |-> Blank]

Init ==
  /\ fram = [s \in Slots |-> Erased]
  /\ scratch = Blank
  /\ writer \in {Resting(s) : s \in Slots} /\ written = "IDLE"
  /\ reader \in {Resting(s) : s \in Slots} /\ target = Blank /\ got = "IDLE"
  /\ faults = 0 /\ writes = 0
  /\ given = [s \in Slots |-> {}]
  /\ disturbed = FALSE

(* ReadHeaderAndPayload: header and CRC check out. *)
Valid(slot) == slot.ok /\ slot.crc = slot.data

Fault == faults < MaxFaults /\ faults' = faults + 1

-----------------------------------------------------------------------------
(* The chunked writer. *)

WriteAsyncBegin(s, pattern) ==
  /\ writer.phase = "idle"
  /\ scratch' = pattern
  /\ writer' = [phase |-> "payload", slot |-> s, next |-> 1, crc |-> pattern]
  /\ given' = [given EXCEPT ![s] = @ \cup {pattern}]
  /\ disturbed' = FALSE
  /\ UNCHANGED <<fram, written, reader, target, got, faults>>

AfterPayloadEarly(next) ==   \* mutant: > for >=, one chunk short
  IF next >= Chunks THEN "header" ELSE "payload"
AfterPayload(next) == IF next > Chunks THEN "header" ELSE "payload"

(* WriteAsyncService, the payload. *)
WriteChunk ==
  /\ writer.phase = "payload"
  /\ fram' = [fram EXCEPT ![writer.slot].data[writer.next] = scratch[writer.next]]
  /\ writer' = [writer EXCEPT !.next = @ + 1, !.phase = AfterPayload(writer.next + 1)]
  /\ written' = "BUSY"
  /\ UNCHANGED <<scratch, reader, target, got, faults, writes, given, disturbed>>

(* What a failed transfer can leave of a chunk. *)
Torn(old, new) == {old, new, Garbage}

WriteChunkFails ==
  /\ writer.phase = "payload" /\ Fault
  /\ \E left \in Torn(fram[writer.slot].data[writer.next], scratch[writer.next]) :
       fram' = [fram EXCEPT ![writer.slot].data[writer.next] = left]
  /\ writer' = Resting(writer.slot)
  /\ written' = "FAILED"
  /\ UNCHANGED <<scratch, reader, target, got, writes, given, disturbed>>

HeaderCrcLate == scratch       \* mutant: computed when the header is written
HeaderCrc == writer.crc        \* s_async_hdr.crc32, of the pattern as given

(* WriteAsyncService, the header last. *)
WriteHeader ==
  /\ writer.phase = "header"
  /\ fram' = [fram EXCEPT ![writer.slot].ok = TRUE, ![writer.slot].crc = HeaderCrc]
  /\ writer' = Resting(writer.slot)
  /\ written' = "DONE"
  /\ UNCHANGED <<scratch, reader, target, got, faults, writes, given, disturbed>>

TornHeaders(slot, crc) ==
  {slot, [slot EXCEPT !.ok = TRUE, !.crc = crc]}
    \cup {[slot EXCEPT !.ok = ok, !.crc = [p \in Pieces |-> NoCrc]] : ok \in BOOLEAN}

WriteHeaderFails ==
  /\ writer.phase = "header" /\ Fault
  /\ \E left \in TornHeaders(fram[writer.slot], HeaderCrc) :
       fram' = [fram EXCEPT ![writer.slot] = left]
  /\ writer' = Resting(writer.slot)
  /\ written' = "FAILED"
  /\ UNCHANGED <<scratch, reader, target, got, writes, given, disturbed>>

WriteAsyncService ==
  WriteChunk \/ WriteChunkFails \/ WriteHeader \/ WriteHeaderFails

-----------------------------------------------------------------------------
(* The chunked reader, into the caller's pattern.  It refuses a slot whose
   header is not right. *)

ReadAsyncBegin(s, out) ==
  /\ reader.phase = "idle" /\ fram[s].ok
  /\ reader' = [phase |-> "payload", slot |-> s, next |-> 1, crc |-> fram[s].crc]
  /\ target' = out
  /\ UNCHANGED <<fram, scratch, writer, written, got, faults, writes, given, disturbed>>

Verdict == IF target' = reader.crc THEN "DONE" ELSE "FAILED"

ReadChunk ==
  /\ reader.phase = "payload"
  /\ target' = [target EXCEPT ![reader.next] = fram[reader.slot].data[reader.next]]
  /\ IF reader.next < Chunks
       THEN reader' = [reader EXCEPT !.next = @ + 1] /\ got' = "BUSY"
       ELSE reader' = Resting(reader.slot) /\ got' = Verdict
  /\ UNCHANGED <<fram, scratch, writer, written, faults, writes, given, disturbed>>

ReadChunkFails ==
  /\ reader.phase = "payload" /\ Fault
  /\ \E left \in Torn(target[reader.next], fram[reader.slot].data[reader.next]) :
       target' = [target EXCEPT ![reader.next] = left]
  /\ reader' = Resting(reader.slot)
  /\ got' = "FAILED"
  /\ UNCHANGED <<fram, scratch, writer, written, writes, given, disturbed>>

ReadAsyncService == ReadChunk \/ ReadChunkFails

-----------------------------------------------------------------------------
(* PatternStore_IsValid and PatternStore_Read read the payload through the
   scratch buffer that a chunked write under way is written from. *)
ReadHeaderAndPayload(s) ==
  /\ fram[s].ok
  /\ \/ scratch' = fram[s].data /\ UNCHANGED faults
     \/ /\ Fault
        /\ scratch' \in [Pieces -> Contents \cup {Garbage}]
        /\ \A p \in Pieces : scratch'[p] \in Torn(scratch[p], fram[s].data[p])
  /\ disturbed' = (disturbed \/ writer.phase # "idle")
  /\ UNCHANGED <<fram, writer, written, reader, target, got, writes, given>>

(* Power off and on: the FRAM stays.  A transfer that was under way may be
   torn. *)
PowerCycle ==
  /\ Fault
  /\ \/ UNCHANGED fram
     \/ /\ writer.phase = "payload"
        /\ fram' = [fram EXCEPT ![writer.slot].data[writer.next] = Garbage]
     \/ /\ writer.phase = "header"
        /\ \E left \in TornHeaders(fram[writer.slot], HeaderCrc) :
             fram' = [fram EXCEPT ![writer.slot] = left]
  /\ scratch' = Blank /\ target' = Blank
  /\ writer' = Resting(writer.slot) /\ written' = "IDLE"
  /\ reader' = Resting(reader.slot) /\ got' = "IDLE"
  /\ UNCHANGED <<writes, given, disturbed>>

BeginWrite ==
  /\ writes < MaxWrites /\ writes' = writes + 1
  /\ \E s \in Slots, pattern \in Pattern : WriteAsyncBegin(s, pattern)

BeginRead == \E s \in Slots : ReadAsyncBegin(s, target)
BlockingRead == \E s \in Slots : ReadHeaderAndPayload(s)

Next == BeginWrite \/ WriteAsyncService \/ BeginRead \/ ReadAsyncService
        \/ BlockingRead \/ PowerCycle

Spec == Init /\ [][Next]_vars

-----------------------------------------------------------------------------
Slot == [ok : BOOLEAN, crc : Bytes, data : Bytes]
Machine == [phase : {"idle", "payload", "header"}, slot : Slots,
            next : 1 .. Chunks + 1, crc : Bytes]
Results == {"IDLE", "BUSY", "DONE", "FAILED"}

(* The slots, the two chunked transfers and their results keep their types: no
   transfer runs past the end of the payload. *)
TypeOK ==
  /\ fram \in [Slots -> Slot] /\ scratch \in Bytes
  /\ writer \in Machine /\ written \in Results
  /\ reader \in Machine /\ target \in Bytes /\ got \in Results
  /\ faults \in 0 .. MaxFaults /\ writes \in 0 .. MaxWrites
  /\ given \in [Slots -> SUBSET Pattern] /\ disturbed \in BOOLEAN

(* A slot that reads back as valid holds one whole pattern that was given to
   the writer for this slot: never a mix of two, whatever failed, was
   interrupted by the power or was read meanwhile. *)
ValidIsWhole == \A s \in Slots : Valid(fram[s]) => fram[s].data \in given[s]

(* So does a pattern that the chunked reader reports done, also when the slot
   was written between two of its chunks. *)
DoneReadIsWhole == got = "DONE" /\ reader.phase = "idle" => target \in given[reader.slot]

(* What the store gives back was given to it as a whole. *)
NothingTorn == ValidIsWhole /\ DoneReadIsWhole

(* "just completed: header committed, slot now valid" (pattern_store.h:60):
   unless a blocking read came in between, the slot then holds the pattern as
   it was given. *)
DoneMeansValid ==
  [][writer.phase = "header" /\ written' = "DONE" /\ ~disturbed
       => Valid(fram[writer.slot])' /\ fram'[writer.slot].data = writer.crc]_vars
=============================================================================
