---------------------------- MODULE PackedLengths ----------------------------
(***************************************************************************)
(* The array of event lengths as StepSlot stores it: one field of five     *)
(* bits for each canonical position, length minus one, packed into bytes.  *)
(* A field may lie across two bytes.                                       *)
(***************************************************************************)
EXTENDS Integers

CONSTANT Fields            (* fields of the array: kStepLedgerMax, 32       *)

FieldBits == 5
Bytes     == (Fields * FieldBits + 7) \div 8   (* kStepEventLengthPackedBytes *)

PackedArray == [0 .. Bytes - 1 -> 0 .. 255]

Zero == [k \in 0 .. Bytes - 1 |-> 0]

ByteOf(p)  == (p * FieldBits) \div 8
ShiftOf(p) == 2 ^ ((p * FieldBits) % 8)

ByteOrZero(a, k) == IF k < Bytes THEN a[k] ELSE 0

(* PackedEventLengthRawGet: the third byte is only read for fields that begin
   in the upper half of theirs. *)
RawGet(a, p) ==
  LET k == ByteOf(p)
      chunk == a[k] + 256 * ByteOrZero(a, k + 1)
                 + (IF ShiftOf(p) > 8 THEN 65536 * ByteOrZero(a, k + 2) ELSE 0)
  IN (chunk \div ShiftOf(p)) % 32

(* PackedEventLengthRawSet *)
RawSetOneByte(a, p, value) ==   \* mutant
  LET k == ByteOf(p)
      field == (a[k] \div ShiftOf(p)) % 32
  IN [a EXCEPT ![k] = (@ + (value - field) * ShiftOf(p)) % 256]
RawSet(a, p, value) ==
  LET k == ByteOf(p)
      chunk == a[k] + 256 * ByteOrZero(a, k + 1) + 65536 * ByteOrZero(a, k + 2)
      field == (chunk \div ShiftOf(p)) % 32
      after == chunk + ((value % 32) - field) * ShiftOf(p)
  IN [j \in 0 .. Bytes - 1 |->
        IF j \in k .. k + 2 THEN (after \div 256 ^ (j - k)) % 256 ELSE a[j]]
=============================================================================
