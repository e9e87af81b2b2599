---------------------------- MODULE StorageProofs ----------------------------
(***************************************************************************)
(* Proofs about the pattern store and its two users, for any number of     *)
(* slots, chunks, contents, writes, edits, nested batches, moves of the    *)
(* playback, failed transfers and power cycles.                            *)
(*                                                                         *)
(* The store: what reads back as valid is a whole pattern that was given   *)
(* to be written, and a write that is reported done has left its slot      *)
(* valid.  The cache: the buffer that is played from is not written to,    *)
(* the roles change only towards a complete pattern, and a buffer that is  *)
(* said to be valid holds one whole pattern of its slot.  Persistence:     *)
(* when the bridge rests and no transfer failed, the slot of the pattern   *)
(* in hand holds it; and, as long as the tick is not 0, a song that is     *)
(* marked as saved has every edit.                                         *)
(***************************************************************************)
EXTENDS PatternCache, Persistence, TLAPS

-----------------------------------------------------------------------------
(* No chunk anywhere holds what a torn header has for a CRC. *)
Payload == [Pieces -> Contents \cup {Garbage}]
Forged  == [p \in Pieces |-> NoCrc]

(* A CRC is of a pattern given for the slot, or of none at all. *)
Sealed(crc, s) == crc \in given[s] \/ crc = Forged

SlotsSealed ==
  \A s \in Slots : fram[s].data \in Payload /\ (fram[s].ok => Sealed(fram[s].crc, s))

WriterKnown ==
  /\ writer.phase = "payload" => writer.next \in Pieces
  /\ writer.phase # "idle" => writer.crc \in given[writer.slot]

ReaderKnown ==
  /\ reader.phase # "idle" => reader.phase = "payload" /\ reader.next \in Pieces
  /\ reader.phase # "idle" => Sealed(reader.crc, reader.slot)

IInv ==
  /\ TypeOK
  /\ SlotsSealed
  /\ scratch \in Payload /\ target \in Payload
  /\ WriterKnown
  /\ ReaderKnown
  /\ DoneReadIsWhole

(* The CRC of no payload is forged, so that a payload whose CRC is right is one
   of the patterns given. *)
LEMMA ForgedIsNoPayload == Forged \notin Payload
<1>1. 1 \in Pieces  BY StoreAssumption DEF Pieces
<1>2. NoCrc \notin Contents \cup {Garbage}  BY StoreAssumption DEF NoCrc, Garbage
<1> QED  BY <1>1, <1>2 DEF Forged, Payload

(* Patterns are payloads, and payloads and the forged CRC are bytes. *)
LEMMA PayloadIsBytes == Payload \subseteq Bytes /\ Pattern \subseteq Payload /\ Forged \in Bytes
BY DEF Payload, Bytes, Pattern, Forged

(* An erased slot has a payload. *)
LEMMA BlankIsPayload == Blank \in Payload /\ Blank \in Bytes
BY DEF Blank, Payload, Bytes

(* A transfer that is over is one of the transfers. *)
LEMMA RestingIsMachine ==
  ASSUME NEW s \in Slots
  PROVE  Resting(s) \in Machine /\ Resting(s).phase = "idle" /\ Resting(s).slot = s
<1>1. 1 \in 1 .. Chunks + 1  BY StoreAssumption
<1> QED  BY <1>1, BlankIsPayload DEF Resting, Machine

(* The device starts in the invariant. *)
LEMMA InitIInv == Init => IInv
<1> SUFFICES ASSUME Init PROVE IInv  OBVIOUS
<1>1. Erased \in Slot /\ Erased.data = Blank /\ ~Erased.ok
  BY BlankIsPayload DEF Erased, Slot
<1>2. PICK s \in Slots : writer = Resting(s)  BY DEF Init
<1>3. PICK r \in Slots : reader = Resting(r)  BY DEF Init
<1>4. TypeOK
  <2>1. writer \in Machine /\ reader \in Machine  BY <1>2, <1>3, RestingIsMachine
  <2>2. given \in [Slots -> SUBSET Pattern]  BY DEF Init
  <2>3. 0 \in 0 .. MaxFaults /\ 0 \in 0 .. MaxWrites  BY StoreAssumption
  <2> QED  BY <1>1, <2>1, <2>2, <2>3, BlankIsPayload DEF TypeOK, Init, Results
<1>5. SlotsSealed  BY <1>1, BlankIsPayload DEF SlotsSealed, Init
<1>6. scratch \in Payload /\ target \in Payload  BY BlankIsPayload DEF Init
<1>7. WriterKnown /\ ReaderKnown
  BY <1>2, <1>3, RestingIsMachine DEF WriterKnown, ReaderKnown
<1>8. DoneReadIsWhole  BY DEF DoneReadIsWhole, Init
<1> QED  BY <1>4, <1>5, <1>6, <1>7, <1>8 DEF IInv

-----------------------------------------------------------------------------
(* What an action does to one slot is enough to know that all stay sealed. *)
LEMMA SlotStaysSealed ==
  ASSUME SlotsSealed, NEW s \in Slots,
         \A t \in Slots : given[t] \subseteq given'[t],
         \A t \in Slots \ {s} : fram'[t] = fram[t],
         fram'[s].data \in Payload,
         fram'[s].ok => fram'[s].crc \in given'[s] \/ fram'[s].crc = Forged
  PROVE  SlotsSealed'
BY DEF SlotsSealed, Sealed

(* PatternStore_WriteAsyncBegin, whoever counts the writes. *)
LEMMA WriteAsyncBeginKeepsIInv ==
  ASSUME IInv, NEW s \in Slots, NEW pattern \in Pattern, WriteAsyncBegin(s, pattern),
         writes' \in 0 .. MaxWrites
  PROVE  IInv'
<1> USE DEF IInv
<1>2. pattern \in Payload /\ pattern \in Bytes  BY PayloadIsBytes
<1>3. given' \in [Slots -> SUBSET Pattern] /\ \A t \in Slots : given[t] \subseteq given'[t]
  BY DEF WriteAsyncBegin, TypeOK
<1>4. writer' = [phase |-> "payload", slot |-> s, next |-> 1, crc |-> pattern]
  BY DEF WriteAsyncBegin
<1>5. pattern \in given'[s]  BY DEF WriteAsyncBegin, TypeOK
<1>6. 1 \in Pieces /\ 1 \in 1 .. Chunks + 1  BY StoreAssumption DEF Pieces
<1>7. TypeOK'
  <2>1. writer' \in Machine  BY <1>2, <1>4, <1>6 DEF Machine
  <2>2. disturbed' \in BOOLEAN  BY DEF WriteAsyncBegin, TypeOK
  <2> QED  BY <1>2, <1>3, <2>1, <2>2 DEF WriteAsyncBegin, TypeOK
<1>8. SlotsSealed'  BY <1>3 DEF WriteAsyncBegin, SlotsSealed, Sealed
<1>9. WriterKnown'  BY <1>4, <1>5, <1>6 DEF WriterKnown
<1>10. ReaderKnown'
  BY <1>3 DEF WriteAsyncBegin, ReaderKnown, Sealed, TypeOK, Machine
<1>11. DoneReadIsWhole'
  BY <1>3 DEF WriteAsyncBegin, DoneReadIsWhole, TypeOK, Machine
<1>12. (scratch \in Payload)' /\ (target \in Payload)'  BY <1>2 DEF WriteAsyncBegin
<1> QED  BY <1>7, <1>8, <1>9, <1>10, <1>11, <1>12

(* A write begun by the store's own user. *)
LEMMA BeginWriteKeepsIInv == IInv /\ BeginWrite => IInv'
<1> SUFFICES ASSUME IInv, BeginWrite PROVE IInv'  OBVIOUS
<1>1. PICK s \in Slots, pattern \in Pattern : WriteAsyncBegin(s, pattern)
  BY DEF BeginWrite
<1>2. writes' \in 0 .. MaxWrites  BY StoreAssumption DEF BeginWrite, TypeOK, IInv
<1> QED  BY <1>1, <1>2, WriteAsyncBeginKeepsIInv

(* A write of a chunk, whole or torn, leaves the slot's header. *)
LEMMA ChunkKeepsSlots ==
  ASSUME IInv, writer.phase = "payload", NEW left \in Contents \cup {Garbage},
         fram' = [fram EXCEPT ![writer.slot].data[writer.next] = left],
         UNCHANGED given
  PROVE  SlotsSealed' /\ fram' \in [Slots -> Slot]
<1> USE DEF IInv
<1> DEFINE s == writer.slot
           new == [fram[s] EXCEPT !.data = [fram[s].data EXCEPT ![writer.next] = left]]
<1>1. s \in Slots /\ fram[s] \in Slot /\ fram[s].data \in Payload
  BY DEF TypeOK, Machine, SlotsSealed
<1>2. fram' = [fram EXCEPT ![s] = new]  OBVIOUS
<1>3. new.ok = fram[s].ok /\ new.crc = fram[s].crc
      /\ new.data = [fram[s].data EXCEPT ![writer.next] = left]
  BY <1>1 DEF Slot
<1>4. new.data \in Payload  BY <1>1, <1>3 DEF Payload
<1>5. new \in Slot  BY <1>1, <1>3, <1>4, PayloadIsBytes DEF Slot
<1>6. fram' \in [Slots -> Slot] /\ fram'[s] = new
      /\ \A t \in Slots \ {s} : fram'[t] = fram[t]
  BY <1>1, <1>2, <1>5 DEF TypeOK
<1>7. SlotsSealed'
  BY <1>1, <1>3, <1>4, <1>6, SlotStaysSealed DEF SlotsSealed, Sealed
<1> QED  BY <1>6, <1>7

(* So does a write of the header, of which a torn one is forged. *)
LEMMA HeaderKeepsSlots ==
  ASSUME IInv, writer.phase = "header",
         NEW left \in TornHeaders(fram[writer.slot], HeaderCrc),
         fram' = [fram EXCEPT ![writer.slot] = left],
         UNCHANGED given
  PROVE  SlotsSealed' /\ fram' \in [Slots -> Slot]
<1> USE DEF IInv
<1> DEFINE s == writer.slot
<1>1. s \in Slots /\ fram[s] \in Slot /\ fram[s].data \in Payload
      /\ writer.crc \in Bytes /\ writer.crc \in given[s]
  BY DEF TypeOK, Machine, SlotsSealed, WriterKnown
<1>2. left \in Slot /\ left.data = fram[s].data
      /\ (left.ok => Sealed(left.crc, s))
  <2>1. CASE left = fram[s]  BY <1>1, <2>1 DEF SlotsSealed
  <2>2. CASE left = [fram[s] EXCEPT !.ok = TRUE, !.crc = writer.crc]
    BY <1>1, <2>2 DEF Slot, Sealed
  <2>3. ASSUME NEW ok \in BOOLEAN,
               left = [fram[s] EXCEPT !.ok = ok, !.crc = [p \in Pieces |-> NoCrc]]
        PROVE  left \in Slot /\ left.data = fram[s].data
               /\ (left.ok => Sealed(left.crc, s))
    <3>1. left.crc = Forged /\ left.ok = ok /\ left.data = fram[s].data
      BY <1>1, <2>3 DEF Slot, Forged
    <3>2. left \in Slot
      <4>1. Forged \in Bytes  BY PayloadIsBytes
      <4> QED  BY <1>1, <2>3, <4>1 DEF Slot, Forged
    <3> QED  BY <3>1, <3>2 DEF Sealed
  <2> QED  BY <2>1, <2>2, <2>3 DEF TornHeaders, HeaderCrc
<1>3. fram' \in [Slots -> Slot] /\ fram'[s] = left
      /\ \A t \in Slots \ {s} : fram'[t] = fram[t]
  BY <1>1, <1>2 DEF TypeOK
<1>4. SlotsSealed'
  BY <1>1, <1>2, <1>3, SlotStaysSealed DEF Sealed
<1> QED  BY <1>3, <1>4

(* A transfer that fails leaves the chunk it was writing as a payload's. *)
LEMMA TornIsPayload ==
  ASSUME NEW a \in Payload, NEW b \in Payload, NEW p \in Pieces
  PROVE  Torn(a[p], b[p]) \subseteq Contents \cup {Garbage}
BY DEF Torn, Payload

(* A failed transfer is counted within its bound. *)
LEMMA FaultCounted == TypeOK /\ Fault => faults' \in 0 .. MaxFaults
BY StoreAssumption DEF TypeOK, Fault

(* The writer's steps leave the reader alone. *)
LEMMA ReaderUntouched ==
  ASSUME IInv, UNCHANGED <<reader, target, got, given>>
  PROVE  ReaderKnown' /\ DoneReadIsWhole' /\ target' \in Payload
BY DEF IInv, ReaderKnown, DoneReadIsWhole, Sealed

(* The reader's steps leave the slots and the writer alone. *)
LEMMA WriterUntouched ==
  ASSUME IInv, UNCHANGED <<fram, scratch, writer, given>>
  PROVE  SlotsSealed' /\ WriterKnown' /\ scratch' \in Payload
BY DEF IInv, SlotsSealed, WriterKnown, Sealed

(* A chunk of the payload goes out. *)
LEMMA WriteChunkKeepsIInv == IInv /\ WriteChunk => IInv'
<1> SUFFICES ASSUME IInv, WriteChunk PROVE IInv'  OBVIOUS
<1> USE DEF IInv
<1>1. writer.next \in Pieces /\ writer.slot \in Slots /\ writer.crc \in Bytes
      /\ writer.crc \in given[writer.slot]
  BY DEF WriteChunk, WriterKnown, TypeOK, Machine
<1>2. scratch[writer.next] \in Contents \cup {Garbage}  BY <1>1 DEF Payload
<1>3. SlotsSealed' /\ fram' \in [Slots -> Slot]
  BY <1>2, ChunkKeepsSlots DEF WriteChunk
<1>4. /\ writer'.next = writer.next + 1 /\ writer'.slot = writer.slot
      /\ writer'.crc = writer.crc /\ writer'.phase = AfterPayload(writer.next + 1)
      /\ writer' \in Machine
  <2>1. writer.next + 1 \in 1 .. Chunks + 1
    BY <1>1, StoreAssumption DEF Pieces
  <2>2. AfterPayload(writer.next + 1) \in {"header", "payload"}  BY DEF AfterPayload
  <2> QED  BY <1>1, <2>1, <2>2 DEF WriteChunk, TypeOK, Machine
<1>5. WriterKnown'
  <2>1. writer'.phase = "payload" => writer'.next \in Pieces
    BY <1>1, <1>4, StoreAssumption DEF AfterPayload, Pieces
  <2> QED  BY <1>1, <1>4, <2>1 DEF WriterKnown, WriteChunk
<1>6. TypeOK'  BY <1>3, <1>4 DEF TypeOK, WriteChunk, Results
<1>7. ReaderKnown' /\ DoneReadIsWhole' /\ target' \in Payload
  BY ReaderUntouched DEF WriteChunk
<1> QED  BY <1>3, <1>5, <1>6, <1>7 DEF WriteChunk

(* A chunk fails, with any part of it written. *)
LEMMA WriteChunkFailsKeepsIInv == IInv /\ WriteChunkFails => IInv'
<1> SUFFICES ASSUME IInv, WriteChunkFails PROVE IInv'  OBVIOUS
<1> USE DEF IInv
<1>1. writer.next \in Pieces /\ writer.slot \in Slots
  BY DEF WriteChunkFails, WriterKnown, TypeOK, Machine
<1>2. PICK left \in Torn(fram[writer.slot].data[writer.next], scratch[writer.next]) :
        fram' = [fram EXCEPT ![writer.slot].data[writer.next] = left]
  BY DEF WriteChunkFails
<1>3. left \in Contents \cup {Garbage}
  BY <1>1, <1>2, TornIsPayload DEF SlotsSealed
<1>4. SlotsSealed' /\ fram' \in [Slots -> Slot]
  BY <1>2, <1>3, ChunkKeepsSlots DEF WriteChunkFails
<1>5. writer' \in Machine /\ writer'.phase = "idle"
  BY <1>1, RestingIsMachine DEF WriteChunkFails
<1>6. TypeOK'  BY <1>4, <1>5, FaultCounted DEF TypeOK, WriteChunkFails, Results
<1>7. WriterKnown'  BY <1>5 DEF WriterKnown
<1>8. ReaderKnown' /\ DoneReadIsWhole' /\ target' \in Payload
  BY ReaderUntouched DEF WriteChunkFails
<1> QED  BY <1>4, <1>6, <1>7, <1>8 DEF WriteChunkFails

(* The header as it should be is one a torn write may leave. *)
LEMMA WriteHeaderKeepsIInv == IInv /\ (WriteHeader \/ WriteHeaderFails) => IInv'
<1> SUFFICES ASSUME IInv, WriteHeader \/ WriteHeaderFails PROVE IInv'  OBVIOUS
<1> USE DEF IInv
<1>1. writer.phase = "header" /\ writer.slot \in Slots
      /\ UNCHANGED <<scratch, reader, target, got, writes, given, disturbed>>
  BY DEF WriteHeader, WriteHeaderFails, TypeOK, Machine
<1>2. \E left \in TornHeaders(fram[writer.slot], HeaderCrc) :
        fram' = [fram EXCEPT ![writer.slot] = left]
  <2>1. CASE WriteHeader
    <3> DEFINE new == [fram[writer.slot] EXCEPT !.ok = TRUE, !.crc = HeaderCrc]
    <3>1. new \in TornHeaders(fram[writer.slot], HeaderCrc)  BY DEF TornHeaders
    <3>2. fram' = [fram EXCEPT ![writer.slot] = new]
      BY <1>1, <2>1 DEF WriteHeader, TypeOK, Slot
    <3> QED  BY <3>1, <3>2
  <2>2. CASE WriteHeaderFails  BY <2>2 DEF WriteHeaderFails
  <2> QED  BY <2>1, <2>2
<1>3. SlotsSealed' /\ fram' \in [Slots -> Slot]
  BY <1>1, <1>2, HeaderKeepsSlots
<1>4. writer' = Resting(writer.slot) /\ written' \in Results
  BY DEF WriteHeader, WriteHeaderFails, Results
<1>5. writer' \in Machine /\ writer'.phase = "idle"  BY <1>1, <1>4, RestingIsMachine
<1>6. faults' \in 0 .. MaxFaults
  BY FaultCounted DEF WriteHeader, WriteHeaderFails, TypeOK
<1>7. TypeOK'  BY <1>1, <1>3, <1>4, <1>5, <1>6 DEF TypeOK
<1>8. WriterKnown'  BY <1>5 DEF WriterKnown
<1>9. ReaderKnown' /\ DoneReadIsWhole' /\ target' \in Payload
  BY <1>1, ReaderUntouched
<1> QED  BY <1>1, <1>3, <1>7, <1>8, <1>9

-----------------------------------------------------------------------------
(* PatternStore_ReadAsyncBegin, into any buffer. *)
LEMMA ReadAsyncBeginKeepsIInv ==
  ASSUME IInv, NEW s \in Slots, NEW out \in Payload, ReadAsyncBegin(s, out)
  PROVE  IInv'
<1> USE DEF IInv
<1>2. reader' = [phase |-> "payload", slot |-> s, next |-> 1, crc |-> fram[s].crc]
  BY DEF ReadAsyncBegin
<1>3. 1 \in Pieces /\ 1 \in 1 .. Chunks + 1  BY StoreAssumption DEF Pieces
<1>4. Sealed(fram[s].crc, s) /\ fram[s].crc \in Bytes
  BY DEF ReadAsyncBegin, SlotsSealed, TypeOK, Slot
<1>5. reader' \in Machine  BY <1>2, <1>3, <1>4 DEF Machine
<1>6. TypeOK'  BY <1>5, PayloadIsBytes DEF TypeOK, ReadAsyncBegin
<1>7. ReaderKnown'
  BY <1>2, <1>3, <1>4 DEF ReaderKnown, ReadAsyncBegin, Sealed
<1>8. SlotsSealed' /\ WriterKnown' /\ scratch' \in Payload
  BY WriterUntouched DEF ReadAsyncBegin
<1>9. DoneReadIsWhole'  BY <1>2 DEF DoneReadIsWhole
<1>10. target' \in Payload  BY DEF ReadAsyncBegin
<1> QED  BY <1>6, <1>7, <1>8, <1>9, <1>10

(* A read begun by the store's own user. *)
LEMMA BeginReadKeepsIInv == IInv /\ BeginRead => IInv'
BY ReadAsyncBeginKeepsIInv DEF BeginRead, IInv

(* What is read is a payload; when its CRC is right it is one of those given. *)
LEMMA ReadChunkKeepsIInv == IInv /\ ReadChunk => IInv'
<1> SUFFICES ASSUME IInv, ReadChunk PROVE IInv'  OBVIOUS
<1> USE DEF IInv
<1>1. reader.next \in Pieces /\ reader.slot \in Slots /\ reader.crc \in Bytes
      /\ Sealed(reader.crc, reader.slot)
  BY DEF ReadChunk, ReaderKnown, TypeOK, Machine
<1>2. fram[reader.slot].data[reader.next] \in Contents \cup {Garbage}
  BY <1>1 DEF SlotsSealed, Payload
<1>3. target' \in Payload  BY <1>1, <1>2 DEF ReadChunk, Payload
<1>4. SlotsSealed' /\ WriterKnown' /\ scratch' \in Payload
  BY WriterUntouched DEF ReadChunk
<1>5. CASE reader.next < Chunks
  <2>1. /\ reader'.next = reader.next + 1 /\ reader'.phase = "payload"
        /\ reader'.crc = reader.crc /\ reader'.slot = reader.slot
        /\ got' = "BUSY" /\ given' = given
    BY <1>5 DEF ReadChunk, TypeOK, Machine
  <2>2. reader.next + 1 \in Pieces /\ reader.next + 1 \in 1 .. Chunks + 1
    BY <1>1, <1>5, StoreAssumption DEF Pieces
  <2>3. reader' \in Machine  BY <1>1, <1>5, <2>2 DEF ReadChunk, TypeOK, Machine
  <2>4. TypeOK'  BY <1>3, <2>1, <2>3, PayloadIsBytes DEF TypeOK, ReadChunk, Results
  <2>5. ReaderKnown'  BY <1>1, <2>1, <2>2 DEF ReaderKnown, Sealed
  <2>6. DoneReadIsWhole'  BY <2>1 DEF DoneReadIsWhole
  <2> QED  BY <1>3, <1>4, <2>4, <2>5, <2>6
<1>6. CASE ~(reader.next < Chunks)
  <2>1. reader' = Resting(reader.slot) /\ got' = Verdict /\ given' = given
    BY <1>6 DEF ReadChunk
  <2>2. reader' \in Machine /\ reader'.phase = "idle" /\ reader'.slot = reader.slot
    BY <1>1, <2>1, RestingIsMachine
  <2>3. TypeOK'
    BY <1>3, <2>1, <2>2, PayloadIsBytes DEF TypeOK, ReadChunk, Results, Verdict
  <2>4. ReaderKnown'  BY <2>2 DEF ReaderKnown
  <2>5. DoneReadIsWhole'
    <3> SUFFICES ASSUME got' = "DONE" PROVE target' \in given[reader.slot]
      BY <2>1, <2>2 DEF DoneReadIsWhole
    <3>1. target' = reader.crc  BY <2>1 DEF Verdict
    <3> QED  BY <1>1, <1>3, <3>1, ForgedIsNoPayload DEF Sealed
  <2> QED  BY <1>3, <1>4, <2>3, <2>4, <2>5
<1> QED  BY <1>5, <1>6

(* A chunk of the read fails. *)
LEMMA ReadChunkFailsKeepsIInv == IInv /\ ReadChunkFails => IInv'
<1> SUFFICES ASSUME IInv, ReadChunkFails PROVE IInv'  OBVIOUS
<1> USE DEF IInv
<1>1. reader.next \in Pieces /\ reader.slot \in Slots
  BY DEF ReadChunkFails, ReaderKnown, TypeOK, Machine
<1>2. PICK left \in Torn(target[reader.next], fram[reader.slot].data[reader.next]) :
        target' = [target EXCEPT ![reader.next] = left]
  BY DEF ReadChunkFails
<1>3. left \in Contents \cup {Garbage}
  BY <1>1, <1>2, TornIsPayload DEF SlotsSealed
<1>4. target' \in Payload  BY <1>1, <1>2, <1>3 DEF Payload
<1>5. reader' \in Machine /\ reader'.phase = "idle"
  BY <1>1, RestingIsMachine DEF ReadChunkFails
<1>6. TypeOK'
  BY <1>4, <1>5, PayloadIsBytes, FaultCounted DEF TypeOK, ReadChunkFails, Results
<1>7. ReaderKnown' /\ DoneReadIsWhole'
  BY <1>5 DEF ReaderKnown, DoneReadIsWhole, ReadChunkFails
<1>8. SlotsSealed' /\ WriterKnown' /\ scratch' \in Payload
  BY WriterUntouched DEF ReadChunkFails
<1> QED  BY <1>4, <1>6, <1>7, <1>8

(* A blocking read may change what is written, but not what is sealed. *)
LEMMA BlockingReadKeepsIInv == IInv /\ BlockingRead => IInv'
<1> SUFFICES ASSUME IInv, BlockingRead PROVE IInv'  OBVIOUS
<1> USE DEF IInv
<1>1. PICK s \in Slots : ReadHeaderAndPayload(s)  BY DEF BlockingRead
<1>2. scratch' \in Payload
  BY <1>1 DEF ReadHeaderAndPayload, SlotsSealed, Payload
<1>3. faults' \in 0 .. MaxFaults
  BY <1>1, FaultCounted DEF ReadHeaderAndPayload, TypeOK
<1>4. TypeOK'  BY <1>1, <1>2, <1>3, PayloadIsBytes DEF TypeOK, ReadHeaderAndPayload
<1>5. ReaderKnown' /\ DoneReadIsWhole' /\ target' \in Payload
  BY <1>1, ReaderUntouched DEF ReadHeaderAndPayload
<1>6. SlotsSealed' /\ WriterKnown'
  BY <1>1 DEF ReadHeaderAndPayload, SlotsSealed, Sealed, WriterKnown
<1> QED  BY <1>2, <1>4, <1>5, <1>6

(* The power goes and comes back, in the middle of anything. *)
LEMMA PowerCycleKeepsIInv == IInv /\ PowerCycle => IInv'
<1> SUFFICES ASSUME IInv, PowerCycle PROVE IInv'  OBVIOUS
<1> USE DEF IInv
<1>1. writer.slot \in Slots /\ reader.slot \in Slots  BY DEF TypeOK, Machine
<1>2. /\ writer' \in Machine /\ writer'.phase = "idle"
      /\ reader' \in Machine /\ reader'.phase = "idle"
  BY <1>1, RestingIsMachine DEF PowerCycle
<1>3. SlotsSealed' /\ fram' \in [Slots -> Slot]
  <2>1. CASE UNCHANGED fram  BY <2>1 DEF PowerCycle, SlotsSealed, Sealed, TypeOK
  <2>2. CASE /\ writer.phase = "payload"
             /\ fram' = [fram EXCEPT ![writer.slot].data[writer.next] = Garbage]
    BY <2>2, ChunkKeepsSlots DEF PowerCycle
  <2>3. CASE /\ writer.phase = "header"
             /\ \E left \in TornHeaders(fram[writer.slot], HeaderCrc) :
                  fram' = [fram EXCEPT ![writer.slot] = left]
    BY <2>3, HeaderKeepsSlots DEF PowerCycle
  <2> QED  BY <2>1, <2>2, <2>3 DEF PowerCycle
<1>4. scratch' \in Payload /\ target' \in Payload  BY BlankIsPayload DEF PowerCycle
<1>5. TypeOK'
  BY <1>2, <1>3, BlankIsPayload, FaultCounted DEF TypeOK, PowerCycle, Results
<1>6. WriterKnown' /\ ReaderKnown' /\ DoneReadIsWhole'
  BY <1>2 DEF WriterKnown, ReaderKnown, DoneReadIsWhole, PowerCycle
<1> QED  BY <1>3, <1>4, <1>5, <1>6

(* A step of something else. *)
LEMMA StutterKeepsIInv == IInv /\ UNCHANGED vars => IInv'
BY DEF IInv, vars, TypeOK, SlotsSealed, Sealed, WriterKnown, ReaderKnown, DoneReadIsWhole

(* A transfer of someone else, that failed or not. *)
LEMMA OthersKeepIInv ==
  ASSUME IInv, faults' \in 0 .. MaxFaults,
         UNCHANGED <<fram, scratch, writer, written, reader, target, got, writes, given,
                     disturbed>>
  PROVE  IInv'
BY WriterUntouched, ReaderUntouched DEF IInv, TypeOK

(* Every step keeps the invariant. *)
LEMMA StepKeepsIInv == IInv /\ [Next]_vars => IInv'
BY BeginWriteKeepsIInv, WriteChunkKeepsIInv, WriteChunkFailsKeepsIInv,
   WriteHeaderKeepsIInv, BeginReadKeepsIInv, ReadChunkKeepsIInv,
   ReadChunkFailsKeepsIInv, BlockingReadKeepsIInv, PowerCycleKeepsIInv,
   StutterKeepsIInv DEF Next, WriteAsyncService, ReadAsyncService

(* So it always holds. *)
LEMMA AlwaysIInv == Spec => []IInv
<1>1. Init => IInv  BY InitIInv
<1>2. IInv /\ [Next]_vars => IInv'  BY StepKeepsIInv
<1> QED  BY <1>1, <1>2, PTL DEF Spec

-----------------------------------------------------------------------------
(* Every variable of the store keeps its type (pattern_store.cpp). *)
THEOREM TypeCorrect == Spec => []TypeOK
<1>1. IInv => TypeOK  BY DEF IInv
<1> QED  BY <1>1, AlwaysIInv, PTL

(* A slot that PatternStore_Read accepts holds one whole pattern that was
   given to be written to it, whatever failed, was cut off by the power or was
   read in between (header last, CRC in the header). *)
THEOREM ValidSlotsAreWhole == Spec => []ValidIsWhole
<1>1. IInv => ValidIsWhole
  BY ForgedIsNoPayload DEF IInv, SlotsSealed, ValidIsWhole, Valid, Sealed
<1> QED  BY <1>1, AlwaysIInv, PTL

(* So does the buffer when PatternStore_ReadAsyncService reports it done, also
   when the slot was written meanwhile. *)
THEOREM DoneReadsAreWhole == Spec => []DoneReadIsWhole
<1>1. IInv => DoneReadIsWhole  BY DEF IInv
<1> QED  BY <1>1, AlwaysIInv, PTL

(* Neither a slot nor a finished read is ever a mix of two patterns. *)
THEOREM StoreNeverTears == Spec => []NothingTorn
  BY ValidSlotsAreWhole, DoneReadsAreWhole, PTL DEF NothingTorn

-----------------------------------------------------------------------------
(* Until a blocking read comes in between, the scratch buffer holds the pattern
   the header will seal, and so does what was written of the slot. *)
SafeScratch ==
  /\ writer.phase # "idle" /\ ~disturbed =>
       /\ scratch = writer.crc
       /\ \A p \in Pieces : p < writer.next => fram[writer.slot].data[p] = writer.crc[p]
  /\ writer.phase = "header" => writer.next = Chunks + 1 /\ written = "BUSY"

DInv == IInv /\ SafeScratch

(* No write is under way at first. *)
LEMMA InitSafeScratch == Init => SafeScratch
BY RestingIsMachine DEF Init, SafeScratch

(* At the start of a write nothing is to be compared. *)
LEMMA WriteAsyncBeginKeepsScratch ==
  ASSUME NEW s \in Slots, NEW pattern \in Pattern, WriteAsyncBegin(s, pattern)
  PROVE  SafeScratch'
<1>1. writer' = [phase |-> "payload", slot |-> s, next |-> 1, crc |-> pattern]
      /\ scratch' = pattern
  BY DEF WriteAsyncBegin
<1>2. \A p \in Pieces : ~(p < 1)  BY StoreAssumption DEF Pieces
<1> QED  BY <1>1, <1>2 DEF SafeScratch

(* What is written so far is the pattern that was given to the writer. *)
LEMMA WriteChunkKeepsScratch == DInv /\ WriteChunk => SafeScratch'
<1> SUFFICES ASSUME DInv, WriteChunk PROVE SafeScratch'  OBVIOUS
<1> USE DEF DInv, IInv
<1> DEFINE s == writer.slot
           n == writer.next
<1>1. n \in Pieces /\ s \in Slots /\ fram[s] \in Slot /\ fram[s].data \in Payload
  BY DEF WriteChunk, WriterKnown, TypeOK, Machine, SlotsSealed
<1>2. /\ writer'.next = n + 1 /\ writer'.slot = s /\ writer'.crc = writer.crc
      /\ writer'.phase = AfterPayload(n + 1) /\ scratch' = scratch /\ written' = "BUSY"
      /\ disturbed' = disturbed
  BY DEF WriteChunk, TypeOK, Machine
<1>3. fram'[s].data = [fram[s].data EXCEPT ![n] = scratch[n]]
  BY <1>1 DEF WriteChunk, TypeOK, Slot
<1>4. ~disturbed => /\ scratch = writer.crc
                    /\ \A p \in Pieces : p < n => fram[s].data[p] = writer.crc[p]
  BY DEF SafeScratch, WriteChunk
<1>5. ASSUME ~disturbed, NEW p \in Pieces, p < n + 1
      PROVE  fram'[s].data[p] = writer.crc[p]
  <2>1. p = n \/ p < n  BY <1>1, <1>5, StoreAssumption DEF Pieces
  <2> QED  BY <1>1, <1>3, <1>4, <1>5, <2>1 DEF Payload
<1>6. writer'.phase = "header" => n + 1 = Chunks + 1
  BY <1>1, <1>2, StoreAssumption DEF AfterPayload, Pieces
<1> QED  BY <1>2, <1>4, <1>5, <1>6 DEF SafeScratch

(* No other step but a blocking read touches the scratch buffer of a write under
   way. *)
LEMMA StepKeepsScratch == DInv /\ [Next]_vars => SafeScratch'
<1> SUFFICES ASSUME DInv, [Next]_vars PROVE SafeScratch'  OBVIOUS
<1> USE DEF DInv, IInv
<1>1. writer.slot \in Slots  BY DEF TypeOK, Machine
<1>2. CASE BeginWrite  BY <1>2, WriteAsyncBeginKeepsScratch DEF BeginWrite
<1>3. CASE WriteChunk  BY <1>3, WriteChunkKeepsScratch
<1>4. CASE WriteChunkFails \/ WriteHeader \/ WriteHeaderFails \/ PowerCycle
  <2>1. writer'.phase = "idle"
    BY <1>1, <1>4, RestingIsMachine
       DEF WriteChunkFails, WriteHeader, WriteHeaderFails, PowerCycle
  <2> QED  BY <2>1 DEF SafeScratch
<1>5. CASE BeginRead \/ ReadChunk \/ ReadChunkFails \/ UNCHANGED vars
  <2>1. UNCHANGED <<fram, scratch, writer, written, disturbed>>
    BY <1>5 DEF BeginRead, ReadAsyncBegin, ReadChunk, ReadChunkFails, vars
  <2> QED  BY <2>1 DEF SafeScratch
<1>6. CASE BlockingRead
  <2>1. UNCHANGED <<fram, writer, written>> /\ (writer.phase # "idle" => disturbed')
    BY <1>6 DEF BlockingRead, ReadHeaderAndPayload
  <2> QED  BY <2>1 DEF SafeScratch
<1> QED
  BY <1>2, <1>3, <1>4, <1>5, <1>6 DEF Next, WriteAsyncService, ReadAsyncService

(* The header closes a slot whose payload is there as a whole. *)
LEMMA HeaderSealsSlot ==
  ASSUME DInv, WriteHeader, ~disturbed
  PROVE  /\ writer'.phase = "idle" /\ writer'.slot = writer.slot
         /\ Valid(fram'[writer.slot]) /\ fram'[writer.slot].data = writer.crc
<1> USE DEF DInv, IInv
<1>1. writer.slot \in Slots /\ fram[writer.slot] \in Slot /\ writer.crc \in Bytes
  BY DEF TypeOK, Machine
<1>2. fram[writer.slot].data = writer.crc
  <2>1. \A p \in Pieces : p < Chunks + 1  BY StoreAssumption DEF Pieces
  <2>2. \A p \in Pieces : fram[writer.slot].data[p] = writer.crc[p]
    BY <2>1 DEF SafeScratch, WriteHeader
  <2> QED  BY <1>1, <2>2 DEF Slot, Bytes
<1>3. writer'.phase = "idle" /\ writer'.slot = writer.slot
  BY <1>1, RestingIsMachine DEF WriteHeader
<1>4. /\ fram'[writer.slot].ok /\ fram'[writer.slot].crc = writer.crc
      /\ fram'[writer.slot].data = fram[writer.slot].data
  BY <1>1 DEF WriteHeader, HeaderCrc, TypeOK, Slot
<1> QED  BY <1>2, <1>3, <1>4 DEF Valid

(* When the writer says DONE the slot is valid and holds the pattern as it was
   given (pattern_store.h:60), for every interleaving with the chunked reader;
   only a blocking read during the write can make it otherwise. *)
THEOREM DoneIsValid == Spec => DoneMeansValid
<1>1. Init => DInv  BY InitIInv, InitSafeScratch DEF DInv
<1>2. DInv /\ [Next]_vars => DInv'
  BY StepKeepsIInv, StepKeepsScratch DEF DInv
<1>3. DInv /\ [Next]_vars =>
        [writer.phase = "header" /\ written' = "DONE" /\ ~disturbed
           => Valid(fram[writer.slot])' /\ fram'[writer.slot].data = writer.crc]_vars
  <2> SUFFICES ASSUME DInv, [Next]_vars, writer.phase = "header", written' = "DONE",
                      ~disturbed
               PROVE  Valid(fram[writer.slot])' /\ fram'[writer.slot].data = writer.crc
    OBVIOUS
  <2> USE DEF DInv, IInv
  <2>1. WriteHeader
    <3>1. written = "BUSY"  BY DEF SafeScratch
    <3> QED
      BY <3>1 DEF Next, vars, BeginWrite, WriteAsyncBegin, WriteAsyncService, WriteChunk,
                  WriteChunkFails, WriteHeaderFails, BeginRead, ReadAsyncBegin,
                  ReadAsyncService, ReadChunk, ReadChunkFails, BlockingRead,
                  ReadHeaderAndPayload, PowerCycle
  <2> QED  BY <2>1, HeaderSealsSlot
<1> QED  BY <1>1, <1>2, <1>3, PTL DEF Spec, DoneMeansValid

-----------------------------------------------------------------------------
(* The pattern cache *)

(* A load goes into the buffer that is not played from, which says meanwhile that it
   is not valid, and the reader is at the slot it was begun with. *)
LoadUnderWay ==
  ~Idle => /\ loading.buf = Inactive /\ ~valid[loading.buf]
           /\ loading.index \in Slots
           /\ reader.phase = "payload" /\ reader.slot = loading.index

BuffersKnown ==
  \A b \in Buffers :
    /\ buf[b] \in Payload
    /\ valid[b] => holds[b] \in Slots /\ buf[b] \in given[holds[b]]

CInv == IInv /\ CTypeOK /\ LoadUnderWay /\ BuffersKnown

-----------------------------------------------------------------------------
(* A chunk of the read, or its failure: what the pump of the cache goes by. *)
LEMMA OneChunkRead ==
  ASSUME IInv, ReadAsyncService
  PROVE  /\ IInv' /\ given' = given /\ target' \in Payload
         /\ got' \in {"BUSY", "DONE", "FAILED"} /\ reader'.slot = reader.slot
         /\ got' = "BUSY" => reader'.phase = "payload"
         /\ got' = "DONE" => target' \in given[reader.slot]
<1> USE DEF IInv
<1>0. IInv'
  BY ReadChunkKeepsIInv, ReadChunkFailsKeepsIInv DEF ReadAsyncService
<1>1. reader \in Machine /\ reader.slot \in Slots
  BY DEF TypeOK, Machine
<1>2. Resting(reader.slot).phase = "idle" /\ Resting(reader.slot).slot = reader.slot
  BY <1>1, RestingIsMachine
<1>3. CASE ReadChunk /\ reader.next < Chunks
  <2>1. reader' = [reader EXCEPT !.next = @ + 1] /\ got' = "BUSY" /\ given' = given
    BY <1>3 DEF ReadChunk
  <2>2. reader'.phase = "payload" /\ reader'.slot = reader.slot
    BY <1>1, <1>3, <2>1 DEF ReadChunk, Machine
  <2> QED BY <1>0, <2>1, <2>2
<1>4. CASE ReadChunk /\ ~(reader.next < Chunks)
  <2>1. reader' = Resting(reader.slot) /\ got' = Verdict /\ given' = given
    BY <1>4 DEF ReadChunk
  <2>2. got' \in {"DONE", "FAILED"}
    BY <2>1 DEF Verdict
  <2>3. got' = "DONE" => target' \in given[reader.slot]
    BY <1>0, <1>2, <2>1 DEF DoneReadIsWhole
  <2> QED BY <1>0, <1>2, <2>1, <2>2, <2>3
<1>5. CASE ReadChunkFails
  BY <1>0, <1>2, <1>5 DEF ReadChunkFails
<1> QED BY <1>3, <1>4, <1>5 DEF ReadAsyncService

(* Starting a load: the buffer it goes into is invalid from then on, the other one
   is left alone. *)
LEMMA StartedLoad ==
  ASSUME CInv, NEW b \in Buffers, NEW s \in Slots, NEW isCurrent \in BOOLEAN, Idle,
         PcStartLoad(b, s, isCurrent)
  PROVE  /\ IInv' /\ given' = given
         /\ valid' = [valid EXCEPT ![b] = FALSE]
         /\ holds' = [holds EXCEPT ![b] = None]
         /\ \/ /\ loading' = [buf |-> b, index |-> s, isCurrent |-> isCurrent]
               /\ reader'.phase = "payload" /\ reader'.slot = s
            \/ loading' = loading
<1> USE DEF CInv
<1>1. valid' = [valid EXCEPT ![b] = FALSE] /\ holds' = [holds EXCEPT ![b] = None]
  BY DEF PcStartLoad, Invalidated
<1>2. CASE /\ ReadAsyncBegin(s, buf[b])
           /\ loading' = [buf |-> b, index |-> s, isCurrent |-> isCurrent]
  <2>1. buf[b] \in Payload
    BY DEF BuffersKnown
  <2>2. IInv'
    BY <1>2, <2>1, ReadAsyncBeginKeepsIInv
  <2> QED
    BY <1>1, <1>2, <2>2 DEF ReadAsyncBegin
<1>3. CASE UNCHANGED <<vars, loading>>
  <2>1. IInv'
    BY <1>3, StutterKeepsIInv
  <2> QED
    BY <1>1, <1>3, <2>1 DEF vars
<1>4. CASE /\ Fault
           /\ UNCHANGED <<fram, scratch, writer, written, reader, target, got, writes,
                          given, disturbed, loading>>
  <2>1. IInv'
    BY <1>4, FaultCounted, OthersKeepIInv DEF IInv
  <2> QED
    BY <1>1, <1>4, <2>1
<1> QED
  BY <1>2, <1>3, <1>4 DEF PcStartLoad

-----------------------------------------------------------------------------
(* A pass with a load under way. *)
LEMMA PumpLoadKeepsCInv ==
  ASSUME CInv, PumpLoad, UNCHANGED <<plays, moves>>
  PROVE  CInv'
<1> USE DEF CInv
<1> DEFINE b == loading.buf
<1>1. /\ b \in Buffers /\ b = Inactive /\ ~valid[b] /\ loading.index \in Slots
      /\ reader.slot = loading.index /\ active \in Buffers
  BY DEF PumpLoad, LoadUnderWay, CTypeOK, Buffers, Inactive
<1>2. /\ IInv' /\ given' = given /\ target' \in Payload
      /\ got' \in {"BUSY", "DONE", "FAILED"} /\ reader'.slot = reader.slot
      /\ got' = "BUSY" => reader'.phase = "payload"
      /\ got' = "DONE" => target' \in given[reader.slot]
  BY OneChunkRead DEF PumpLoad
<1>3. buf' = [buf EXCEPT ![b] = target'] /\ last' = last
  BY DEF PumpLoad
<1>4. TypeOK' /\ buf' \in [Buffers -> Bytes] /\ \A c \in Buffers : buf'[c] \in Payload
  BY <1>1, <1>2, <1>3, PayloadIsBytes DEF IInv, CTypeOK, BuffersKnown
<1>5. \A c \in Buffers : c # b => buf'[c] = buf[c]
  BY <1>3 DEF CTypeOK
<1>6. NotLoading \in [buf : Buffers \cup {None}, index : Slots \cup {None},
                      isCurrent : BOOLEAN] /\ NotLoading.buf = None
  BY DEF NotLoading
<1>7. CASE got' = "BUSY"
  <2>1. UNCHANGED <<valid, holds, active, loading>>
    BY <1>7 DEF PumpLoad
  <2>2. CTypeOK'
    BY <1>3, <1>4, <2>1 DEF CTypeOK
  <2>3. LoadUnderWay'
    BY <1>1, <1>2, <1>7, <2>1 DEF LoadUnderWay, Inactive
  <2>4. BuffersKnown'
    BY <1>1, <1>2, <1>4, <1>5, <2>1 DEF BuffersKnown
  <2> QED BY <1>2, <2>2, <2>3, <2>4
<1>8. CASE got' = "DONE"
  <2>1. /\ valid' = [valid EXCEPT ![b] = TRUE]
        /\ holds' = [holds EXCEPT ![b] = loading.index]
        /\ active' = IF FlipOn THEN b ELSE active
        /\ loading' = NotLoading
    BY <1>8 DEF PumpLoad
  <2>2. CTypeOK'
    BY <1>1, <1>3, <1>4, <1>6, <2>1 DEF CTypeOK
  <2>3. LoadUnderWay'
    BY <1>6, <2>1 DEF LoadUnderWay, Idle
  <2>4. \A c \in Buffers : valid'[c] => holds'[c] \in Slots /\ buf'[c] \in given[holds'[c]]
    <3> SUFFICES ASSUME NEW c \in Buffers, valid'[c]
                 PROVE  holds'[c] \in Slots /\ buf'[c] \in given[holds'[c]]
      OBVIOUS
    <3>1. CASE c = b
      <4>1. holds'[c] = loading.index /\ buf'[c] = target'
        BY <1>1, <1>3, <2>1, <3>1 DEF CTypeOK
      <4> QED BY <1>1, <1>2, <1>8, <4>1
    <3>2. CASE c # b
      BY <1>5, <2>1, <3>2 DEF CTypeOK, BuffersKnown
    <3> QED BY <3>1, <3>2
  <2> QED BY <1>2, <1>4, <2>2, <2>3, <2>4 DEF BuffersKnown
<1>9. CASE got' = "FAILED"
  <2>1. /\ valid' = [valid EXCEPT ![b] = FALSE]
        /\ holds' = [holds EXCEPT ![b] = None]
        /\ active' = active /\ loading' = NotLoading
    BY <1>9 DEF PumpLoad
  <2>2. CTypeOK'
    BY <1>1, <1>3, <1>4, <1>6, <2>1 DEF CTypeOK
  <2>3. LoadUnderWay'
    BY <1>6, <2>1 DEF LoadUnderWay, Idle
  <2>4. BuffersKnown'
    BY <1>1, <1>2, <1>4, <1>5, <2>1 DEF BuffersKnown, CTypeOK
  <2> QED BY <1>2, <2>2, <2>3, <2>4
<1> QED BY <1>2, <1>7, <1>8, <1>9

(* A pass without one: the roles may change, and a load may start into the buffer
   that is then not played from. *)
LEMMA LoadWantedKeepsCInv ==
  ASSUME CInv, LoadWanted, UNCHANGED <<plays, moves>>
  PROVE  CInv'
<1> USE DEF CInv
<1>1. /\ Idle /\ last' = plays.current /\ active' = Swapped /\ buf' = buf
      /\ plays.current \in Slots /\ plays.next \in Slots
  BY DEF LoadWanted, CTypeOK
<1>2. active' \in Buffers /\ 1 - active' \in Buffers
  BY <1>1 DEF Swapped, Inactive, Buffers, CTypeOK
<1>3. CASE UNCHANGED <<vars, valid, holds, loading>>
  <2>1. IInv' /\ given' = given
    BY <1>3, StutterKeepsIInv DEF vars
  <2>2. CTypeOK'
    BY <1>1, <1>2, <1>3, <2>1 DEF CTypeOK, IInv
  <2>3. LoadUnderWay'
    BY <1>1, <1>3 DEF LoadUnderWay, Idle
  <2>4. BuffersKnown'
    BY <1>1, <1>3, <2>1 DEF BuffersKnown
  <2> QED BY <2>1, <2>2, <2>3, <2>4
<1>4. ASSUME NEW s \in Slots, NEW isCurrent \in BOOLEAN,
             PcStartLoad(1 - active', s, isCurrent)
      PROVE  CInv'
  <2> DEFINE b == 1 - active'
  <2>1. /\ IInv' /\ given' = given
        /\ valid' = [valid EXCEPT ![b] = FALSE]
        /\ holds' = [holds EXCEPT ![b] = None]
        /\ \/ /\ loading' = [buf |-> b, index |-> s, isCurrent |-> isCurrent]
              /\ reader'.phase = "payload" /\ reader'.slot = s
           \/ loading' = loading
    BY <1>1, <1>2, <1>4, StartedLoad
  <2>2. ~valid'[b]
    BY <1>2, <2>1 DEF CTypeOK
  <2>3. CTypeOK'
    BY <1>1, <1>2, <2>1 DEF CTypeOK, IInv
  <2>4. LoadUnderWay'
    BY <1>1, <2>1, <2>2 DEF LoadUnderWay, Idle, Inactive
  <2>5. BuffersKnown'
    BY <1>1, <2>1 DEF BuffersKnown, CTypeOK
  <2> QED BY <2>1, <2>3, <2>4, <2>5
<1> QED
  BY <1>1, <1>3, <1>4 DEF LoadWanted, Target

(* A slot is written or read meanwhile: a load goes on, and what a buffer holds was
   given. *)
LEMMA StoreCallsKeepCInv ==
  ASSUME CInv, StoreCalls
  PROVE  CInv'
<1> USE DEF CInv
<1>1. IInv'
  BY StepKeepsIInv DEF StoreCalls, Next
<1>2. reader' = reader /\ UNCHANGED <<cache, plays, moves>>
  BY DEF StoreCalls, BeginWrite, WriteAsyncBegin, WriteAsyncService, WriteChunk,
         WriteChunkFails, WriteHeader, WriteHeaderFails, BlockingRead,
         ReadHeaderAndPayload
<1>3. \A s \in Slots : given[s] \subseteq given'[s]
  BY DEF StoreCalls, BeginWrite, WriteAsyncBegin, WriteAsyncService, WriteChunk,
         WriteChunkFails, WriteHeader, WriteHeaderFails, BlockingRead,
         ReadHeaderAndPayload, IInv, TypeOK
<1>4. CTypeOK'
  BY <1>1, <1>2 DEF CTypeOK, IInv, cache
<1>5. LoadUnderWay'
  BY <1>2 DEF LoadUnderWay, Idle, Inactive, cache
<1>6. BuffersKnown'
  BY <1>2, <1>3 DEF BuffersKnown, cache
<1> QED BY <1>1, <1>4, <1>5, <1>6

(* After a power cycle nothing is valid and nothing is loaded. *)
LEMMA RestartKeepsCInv ==
  ASSUME CInv, Restart
  PROVE  CInv'
<1>1. IInv'
  BY StepKeepsIInv DEF CInv, Restart, Next
<1>2. CTypeOK'
  BY <1>1, BlankIsPayload DEF CInv, Restart, CTypeOK, IInv, Buffers, NotLoading
<1> QED
  BY <1>1, <1>2, BlankIsPayload DEF Restart, CInv, LoadUnderWay, BuffersKnown, Idle,
                                    NotLoading

(* Every step keeps the invariant. *)
LEMMA CacheStepKeepsCInv == CInv /\ [CNext]_cvars => CInv'
<1> SUFFICES ASSUME CInv, [CNext]_cvars PROVE CInv'
  OBVIOUS
<1>1. CASE ServicePatternCache
  BY <1>1, PumpLoadKeepsCInv, LoadWantedKeepsCInv DEF ServicePatternCache
<1>2. CASE StoreCalls
  BY <1>2, StoreCallsKeepCInv
<1>3. CASE Move
  <2>1. IInv' /\ UNCHANGED <<vars, cache>>
    BY <1>3, StutterKeepsIInv DEF Move, CInv
  <2>2. moves' \in 0 .. MaxMoves
    BY <1>3, CacheAssumption DEF Move, CInv, CTypeOK
  <2> QED
    BY <1>3, <2>1, <2>2 DEF Move, CInv, CTypeOK, IInv, vars, cache, LoadUnderWay,
                            BuffersKnown, Idle, Inactive
<1>4. CASE UNCHANGED cvars
  BY <1>4, StutterKeepsIInv DEF cvars, vars, cache, CInv, CTypeOK, IInv, LoadUnderWay,
                                BuffersKnown, Idle, Inactive
<1>5. CASE Restart
  BY <1>5, RestartKeepsCInv
<1> QED BY <1>1, <1>2, <1>3, <1>4, <1>5 DEF CNext

(* At startup nothing is valid and nothing is loaded. *)
LEMMA CacheStartsInCInv == CInit => CInv
<1> SUFFICES ASSUME CInit PROVE CInv
  OBVIOUS
<1>1. IInv
  BY InitIInv DEF CInit
<1>2. CTypeOK
  BY <1>1, BlankIsPayload, CacheAssumption
  DEF CInit, CTypeOK, IInv, Buffers, NotLoading
<1> QED
  BY <1>1, <1>2, BlankIsPayload DEF CInit, CInv, LoadUnderWay, BuffersKnown, Idle,
                                    NotLoading

(* So it always holds. *)
LEMMA AlwaysCInv == CSpec => []CInv
BY CacheStartsInCInv, CacheStepKeepsCInv, PTL DEF CSpec

-----------------------------------------------------------------------------
(* A valid buffer holds one whole pattern of the slot it names, while slots are
   written and the playback moves on. *)
THEOREM ValidBuffersAreWhole == CSpec => []ValidBufferIsWhole
<1>1. CInv => ValidBufferIsWhole
  BY DEF CInv, BuffersKnown, ValidBufferIsWhole
<1> QED BY <1>1, AlwaysCInv, PTL

(* With the store under it, nothing that is said to be valid is a mixture. *)
THEOREM CacheIsWhole == CSpec => []OnlyWholePatterns
<1>1. CInv => OnlyWholePatterns
  BY ForgedIsNoPayload
  DEF CInv, IInv, TypeOK, SlotsSealed, Sealed, BuffersKnown, OnlyWholePatterns,
      ValidBufferIsWhole, NothingTorn, ValidIsWhole, Valid
<1> QED BY <1>1, AlwaysCInv, PTL

(* The active buffer is never written to, and the roles change only towards a buffer
   that holds the pattern that plays. *)
THEOREM PlaybackIsSafe == CSpec => PlayedBufferIsSafe
<1> DEFINE Kept  == ~Restart => buf'[active] = buf[active]
           Flips == ~Restart /\ active' # active
                      => valid'[active'] /\ holds'[active'] = plays.current
<1>1. CInv /\ [CNext]_cvars => [Kept]_cvars /\ [Flips]_cvars
  <2> SUFFICES ASSUME CInv, CNext PROVE Kept /\ Flips
    BY DEF cvars
  <2> USE DEF CInv
  <2>1. CASE PumpLoad
    <3>1. /\ loading.buf \in Buffers /\ active \in Buffers /\ loading.buf # active
      BY <2>1 DEF PumpLoad, LoadUnderWay, CTypeOK, Inactive, Buffers
    <3>2. Kept
      BY <2>1, <3>1 DEF PumpLoad, CTypeOK
    <3>3. got' \in {"BUSY", "DONE", "FAILED"}
      BY <2>1, OneChunkRead DEF PumpLoad
    <3>4. Flips
      BY <2>1, <3>1, <3>3 DEF PumpLoad, FlipOn, CTypeOK
    <3> QED BY <3>2, <3>4
  <2>2. CASE LoadWanted
    <3>1. Kept
      BY <2>2 DEF LoadWanted
    <3>2. Flips
      <4> SUFFICES ASSUME active' # active
                   PROVE  valid'[active'] /\ holds'[active'] = plays.current
        OBVIOUS
      <4>1. active' = Inactive /\ Holds(Inactive, plays.current) /\ active \in Buffers
        BY <2>2 DEF LoadWanted, Swapped, CTypeOK
      <4>2. active' \in Buffers /\ 1 - active' # active'
        BY <4>1 DEF Buffers, Inactive
      <4>3. valid'[active'] = valid[active'] /\ holds'[active'] = holds[active']
        BY <2>2, <4>2 DEF LoadWanted, PcStartLoad, Invalidated, Target, CTypeOK
      <4> QED BY <4>1, <4>3 DEF Holds
    <3> QED BY <3>1, <3>2
  <2>3. CASE UNCHANGED cache
    BY <2>3 DEF cache
  <2> QED
    BY <2>1, <2>2, <2>3 DEF CNext, ServicePatternCache, Move, StoreCalls
<1>2. CSpec => [][Kept]_cvars /\ [][Flips]_cvars
  BY <1>1, AlwaysCInv, PTL DEF CSpec
<1> QED
  BY <1>2, Zenon DEF PlayedBufferIsSafe, ActiveNeverWritten, FlipsToValid

-----------------------------------------------------------------------------
(* Persistence *)

Marked == psDirty \/ pending

(* An edit is marked, or on its way to the slot of the pattern it was made in, or
   there. *)
OnItsWay ==
  ~Marked /\ faults = 0 =>
    IF writer.phase = "idle" THEN Stored(current)
    ELSE writer.slot = current /\ writer.crc = song[current]

(* An edit is marked for the song area, or in it. *)
V3Known ==
  ~TickZero /\ since = "clean" /\ ~pending /\ faults = 0 /\ song # Default
    => v3.ok /\ v3.song = song

PInv == DInv /\ PTypeOK /\ ~disturbed /\ OnItsWay /\ V3Known

-----------------------------------------------------------------------------
(* The pattern of every edit is one the store can be given. *)
LEMMA AsNewIsPattern ==
  ASSUME NEW n \in 1 .. MaxEdits + 1
  PROVE  AsNew(n) \in Pattern
BY PersistenceAssumption DEF AsNew, Pattern

(* The song as it is at startup. *)
LEMMA DefaultIsSong == Default \in [Slots -> Pattern]
<1>1. 1 \in 1 .. MaxEdits + 1
  BY PersistenceAssumption
<1> QED BY <1>1, AsNewIsPattern DEF Default

(* Marking an edit: either of the two marks keeps the promises open. *)
LEMMA PersistSongMarks ==
  ASSUME PTypeOK, PersistSong
  PROVE  /\ Marked' /\ (~TickZero => since' # "clean" \/ pending')
         /\ depth' = depth /\ pending' \in BOOLEAN /\ psDirty' \in BOOLEAN
         /\ since' \in {"clean", "fresh", "idle"}
<1>1. CASE depth > 0
  BY <1>1 DEF PersistSong, PTypeOK, Marked
<1>2. CASE ~(depth > 0)
  BY <1>2 DEF PersistSong, PTypeOK, Marked, Now
<1> QED BY <1>1, <1>2

-----------------------------------------------------------------------------
(* Actions that leave the store alone. *)

(* Steps of the bridge during which no transfer is made keep what is known of the
   store. *)
LEMMA StoreUntouched ==
  ASSUME PInv, UNCHANGED vars
  PROVE  DInv' /\ ~disturbed' /\ TypeOK'
<1>1. IInv'
  BY StutterKeepsIInv DEF PInv, DInv
<1> QED
  BY <1>1 DEF PInv, DInv, IInv, SafeScratch, vars

(* Edit and SetCurrentPattern. *)
LEMMA EditKeepsPInv ==
  ASSUME PInv, Edit \/ \E s \in Slots : SetCurrentPattern(s)
  PROVE  PInv'
<1> USE DEF PInv
<1>1. PersistSong /\ UNCHANGED vars /\ UNCHANGED <<playing, v3, pc>>
  BY DEF Edit, SetCurrentPattern
<1>2. DInv' /\ ~disturbed' /\ TypeOK'
  BY <1>1, StoreUntouched
<1>3. /\ Marked' /\ (~TickZero => since' # "clean" \/ pending')
      /\ depth' = depth /\ pending' \in BOOLEAN /\ psDirty' \in BOOLEAN
      /\ since' \in {"clean", "fresh", "idle"}
  BY <1>1, PersistSongMarks
<1>4. /\ song' \in [Slots -> Pattern] /\ current' \in Slots /\ edits' \in 0 .. MaxEdits
  <2>1. edits' = edits + 1 /\ edits < MaxEdits /\ edits \in 0 .. MaxEdits
        /\ MaxEdits \in Nat
    BY PersistenceAssumption DEF Edit, SetCurrentPattern, PTypeOK
  <2>2. edits' \in 0 .. MaxEdits /\ edits + 2 \in 1 .. MaxEdits + 1
    BY <2>1
  <2>3. AsNew(edits + 2) \in Pattern
    BY <2>2, AsNewIsPattern
  <2>4. CASE Edit
    BY <2>2, <2>3, <2>4 DEF Edit, PTypeOK
  <2>5. CASE \E s \in Slots : SetCurrentPattern(s)
    BY <2>2, <2>5 DEF SetCurrentPattern, PTypeOK
  <2> QED BY <2>4, <2>5
<1>5. PTypeOK'
  BY <1>1, <1>2, <1>3, <1>4 DEF PTypeOK
<1>6. OnItsWay' /\ V3Known'
  BY <1>3 DEF OnItsWay, V3Known
<1> QED BY <1>2, <1>5, <1>6

(* The end of a batch passes its mark on. *)
LEMMA BatchKeepsPInv ==
  ASSUME PInv, PersistBegin \/ PersistEnd
  PROVE  PInv'
<1> USE DEF PInv
<1>1. UNCHANGED vars /\ UNCHANGED <<edit, playing, v3, pc>>
  BY DEF PersistBegin, PersistEnd
<1>2. DInv' /\ ~disturbed' /\ TypeOK'
  BY <1>1, StoreUntouched
<1>3. depth' \in 0 .. MaxDepth
  BY PersistenceAssumption DEF PersistBegin, PersistEnd, Nested, PTypeOK
<1>4. CASE UNCHANGED <<pending, psDirty, since>>
  <2>1. PTypeOK'
    BY <1>1, <1>2, <1>3, <1>4 DEF PTypeOK, edit
  <2>2. OnItsWay' /\ V3Known'
    BY <1>1, <1>4 DEF OnItsWay, V3Known, Marked, Stored, edit, vars
  <2> QED BY <1>2, <2>1, <2>2
<1>5. CASE pending' = FALSE /\ psDirty' = TRUE /\ since' \in Now
  <2>1. PTypeOK'
    BY <1>1, <1>2, <1>3, <1>5 DEF PTypeOK, edit, Now
  <2>2. OnItsWay' /\ V3Known'
    BY <1>5 DEF OnItsWay, V3Known, Marked, Now
  <2> QED BY <1>2, <2>1, <2>2
<1> QED
  BY <1>4, <1>5 DEF PersistBegin, PersistEnd

(* What neither edits, marks nor transfers. *)
LEMMA RestKeepsPInv ==
  ASSUME PInv, BridgeStart \/ StopsUnflushed \/ UiReturns \/ IdleTime \/ UNCHANGED all
  PROVE  PInv'
<1> USE DEF PInv
<1>1. /\ UNCHANGED vars /\ UNCHANGED <<edit, depth, pending, psDirty, v3>>
      /\ since' \in {since, "idle"} /\ playing' \in {playing, TRUE, FALSE}
      /\ pc' \in {pc, "begin"}
  BY DEF BridgeStart, StopsUnflushed, UiReturns, IdleTime, all, marks
<1>2. DInv' /\ ~disturbed' /\ TypeOK'
  BY <1>1, StoreUntouched
<1>3. PTypeOK'
  BY <1>1, <1>2 DEF PTypeOK, edit
<1>4. OnItsWay' /\ V3Known'
  BY <1>1 DEF OnItsWay, V3Known, Marked, Stored, edit, vars
<1> QED BY <1>2, <1>3, <1>4

-----------------------------------------------------------------------------
(* Actions with a transfer *)

(* SaveSongToFram: the song is saved, or a transfer failed and nothing is promised
   any more. *)
LEMMA SaveKeepsPInv ==
  ASSUME PInv, SaveSong, since' = "clean", playing' \in BOOLEAN,
         pc' \in {"ui", "checkpoint"},
         UNCHANGED <<fram, scratch, writer, written, idlers, given, disturbed, edit,
                     depth, pending, psDirty>>
  PROVE  PInv'
<1> USE DEF PInv
<1>1. faults' \in 0 .. MaxFaults /\ (faults' = faults \/ faults' # 0)
  BY FaultCounted, StoreAssumption DEF SaveSong, Fault, PTypeOK, TypeOK
<1>2. IInv'
  BY <1>1, OthersKeepIInv DEF DInv, idlers
<1>3. DInv' /\ TypeOK'
  BY <1>2 DEF DInv, SafeScratch, IInv
<1>4. v3' \in [ok : BOOLEAN, song : [Slots -> Pattern]]
  <2>1. v3 \in [ok : BOOLEAN, song : [Slots -> Pattern]] /\ song \in [Slots -> Pattern]
    BY DEF PTypeOK
  <2>2. CASE v3' = [ok |-> TRUE, song |-> song]
    BY <2>1, <2>2
  <2>3. CASE v3' = [v3 EXCEPT !.ok = FALSE]
    BY <2>1, <2>3
  <2> QED BY <2>2, <2>3 DEF SaveSong
<1>5. PTypeOK'
  BY <1>3, <1>4 DEF PTypeOK, edit
<1>6. OnItsWay'
  BY <1>1 DEF OnItsWay, Marked, Stored, edit
<1>7. V3Known'
  <2>1. CASE v3' = [ok |-> TRUE, song |-> song]
    BY <2>1 DEF V3Known, edit
  <2>2. CASE Fault
    BY <1>1, <2>2, StoreAssumption DEF V3Known, Fault, PTypeOK, TypeOK
  <2> QED BY <2>1, <2>2 DEF SaveSong
<1> QED BY <1>3, <1>5, <1>6, <1>7

(* A pass in which nothing is due. *)
LEMMA NothingDueKeepsPInv ==
  ASSUME PInv, playing' \in BOOLEAN, pc' \in {"ui", "begin", "write", "checkpoint"},
         UNCHANGED vars, UNCHANGED <<edit, marks, v3>>
  PROVE  PInv'
<1> USE DEF PInv
<1>1. DInv' /\ ~disturbed' /\ TypeOK'
  BY StoreUntouched
<1>2. PTypeOK'
  BY <1>1 DEF PTypeOK, edit, marks
<1>3. OnItsWay' /\ V3Known'
  BY DEF OnItsWay, V3Known, Marked, Stored, edit, marks, vars
<1> QED BY <1>1, <1>2, <1>3

(* Bridge_Stop. *)
LEMMA StopKeepsPInv ==
  ASSUME PInv, BridgeStop
  PROVE  PInv'
<1>1. CASE since = "clean"
  <2>1. UNCHANGED vars /\ UNCHANGED <<edit, marks, v3>> /\ pc' = pc /\ playing' = FALSE
    BY <1>1 DEF BridgeStop, FlushPersistence, vars, idlers, marks
  <2> QED BY <2>1, NothingDueKeepsPInv DEF PInv, PTypeOK
<1>2. CASE since # "clean"
  BY <1>2, SaveKeepsPInv DEF BridgeStop, FlushPersistence
<1> QED BY <1>1, <1>2

(* The checkpoint of a pass, due or not. *)
LEMMA CheckpointKeepsPInv ==
  ASSUME PInv, ServiceCheckpoint
  PROVE  PInv'
<1>1. CASE CheckpointDue
  BY <1>1, SaveKeepsPInv DEF ServiceCheckpoint, PInv, PTypeOK
<1>2. CASE ~CheckpointDue
  <2>1. UNCHANGED vars /\ UNCHANGED <<edit, marks, v3>> /\ pc' = "ui" /\ playing' = playing
    BY <1>2 DEF ServiceCheckpoint, vars, idlers, marks
  <2> QED BY <2>1, NothingDueKeepsPInv DEF PInv, PTypeOK
<1> QED BY <1>1, <1>2

(* The mark is taken back as the write of the pattern in hand begins. *)
LEMMA BeginKeepsPInv ==
  ASSUME PInv, ServiceBegin
  PROVE  PInv'
<1> USE DEF PInv
<1>1. CASE psDirty /\ WriterFree
  <2>1. WriteAsyncBegin(current, song[current]) /\ psDirty' = FALSE /\ writes' = writes
        /\ current \in Slots /\ song[current] \in Pattern
        /\ UNCHANGED <<edit, depth, pending, since, playing, v3>> /\ pc' = "write"
    BY <1>1 DEF ServiceBegin, PTypeOK
  <2>2. IInv'
    BY <2>1, WriteAsyncBeginKeepsIInv DEF DInv, IInv, TypeOK
  <2>3. SafeScratch' /\ ~disturbed' /\ TypeOK'
    BY <2>1, <2>2, WriteAsyncBeginKeepsScratch DEF WriteAsyncBegin, IInv
  <2>4. PTypeOK'
    BY <2>1, <2>3 DEF PTypeOK, edit
  <2>5. OnItsWay'
    BY <2>1 DEF OnItsWay, WriteAsyncBegin, edit
  <2>6. V3Known'
    BY <2>1 DEF V3Known, WriteAsyncBegin, edit
  <2> QED BY <2>2, <2>3, <2>4, <2>5, <2>6 DEF DInv
<1>2. CASE ~(psDirty /\ WriterFree)
  <2>1. UNCHANGED vars /\ UNCHANGED <<edit, marks, v3, playing>> /\ pc' = "write"
    BY <1>2 DEF ServiceBegin, KeepsIt, store, vars, marks
  <2> QED BY <2>1, NothingDueKeepsPInv DEF PTypeOK
<1> QED BY <1>1, <1>2

(* A chunk, or the header: with it the pattern is stored. *)
LEMMA WriteKeepsPInv ==
  ASSUME PInv, ServiceWrite
  PROVE  PInv'
<1> USE DEF PInv
<1>1. UNCHANGED <<edit, marks, playing, v3>> /\ pc' = "checkpoint"
  BY DEF ServiceWrite
<1>2. CASE writer.phase = "idle"
  BY <1>1, <1>2, NothingDueKeepsPInv DEF ServiceWrite, PTypeOK
<1>3. CASE writer.phase # "idle"
  <2>1. WriteAsyncService
    BY <1>3 DEF ServiceWrite
  <2>2. IInv' /\ SafeScratch'
    BY <2>1, StepKeepsIInv, StepKeepsScratch DEF Next, DInv
  <2>3. TypeOK' /\ ~disturbed'
    BY <2>1, <2>2
    DEF IInv, WriteAsyncService, WriteChunk, WriteChunkFails, WriteHeader, WriteHeaderFails
  <2>4. PTypeOK'
    BY <1>1, <2>3 DEF PTypeOK, edit, marks
  <2>5. CASE WriteChunkFails \/ WriteHeaderFails
    <3>1. faults' # 0
      BY <2>5, StoreAssumption DEF WriteChunkFails, WriteHeaderFails, Fault, PTypeOK, TypeOK
    <3>2. OnItsWay' /\ V3Known'
      BY <3>1 DEF OnItsWay, V3Known
    <3> QED BY <2>2, <2>3, <2>4, <3>2 DEF DInv
  <2>6. CASE WriteChunk \/ WriteHeader
    <3>1. V3Known'
      BY <1>1, <2>6 DEF V3Known, WriteChunk, WriteHeader, edit, marks
    <3>2. CASE WriteChunk
      <4>1. /\ writer'.phase # "idle" /\ writer'.slot = writer.slot
            /\ writer'.crc = writer.crc /\ faults' = faults
        BY <3>2 DEF WriteChunk, AfterPayload, PTypeOK, TypeOK, Machine
      <4>2. OnItsWay'
        BY <1>1, <1>3, <4>1 DEF OnItsWay, Marked, edit, marks
      <4> QED BY <2>2, <2>3, <2>4, <3>1, <4>2 DEF DInv
    <3>3. CASE WriteHeader
      <4>1. /\ writer'.phase = "idle" /\ faults' = faults
            /\ Valid(fram'[writer.slot]) /\ fram'[writer.slot].data = writer.crc
        BY <3>3, HeaderSealsSlot DEF WriteHeader
      <4>2. OnItsWay'
        <5> SUFFICES ASSUME ~Marked', faults' = 0 PROVE Stored(current)'
          BY <4>1 DEF OnItsWay
        <5>1. writer.slot = current /\ writer.crc = song[current]
          BY <1>1, <1>3, <4>1 DEF OnItsWay, Marked, marks
        <5> QED BY <1>1, <4>1, <5>1 DEF Stored, edit
      <4> QED BY <2>2, <2>3, <2>4, <3>1, <4>2 DEF DInv
    <3> QED BY <2>6, <3>2, <3>3
  <2> QED BY <2>1, <2>5, <2>6 DEF WriteAsyncService
<1> QED BY <1>2, <1>3

-----------------------------------------------------------------------------
(* Every step keeps the invariant. *)
LEMMA PStepKeepsPInv == PInv /\ [PNext]_all => PInv'
BY EditKeepsPInv, BatchKeepsPInv, RestKeepsPInv, StopKeepsPInv, CheckpointKeepsPInv,
   BeginKeepsPInv, WriteKeepsPInv DEF PNext, Ui, ServicePersistence

(* Startup, before anything was edited. *)
LEMMA PInitPInv == PInit => PInv
<1> SUFFICES ASSUME PInit PROVE PInv
  OBVIOUS
<1>1. DInv /\ TypeOK /\ faults = 0 /\ ~disturbed
  BY InitIInv, InitSafeScratch DEF PInit, DInv, IInv, Init
<1>2. PTypeOK
  <2>1. [ok |-> FALSE, song |-> Default] \in [ok : BOOLEAN, song : [Slots -> Pattern]]
    BY DefaultIsSong
  <2>2. 0 \in 0 .. MaxEdits /\ 0 \in 0 .. MaxDepth
    BY PersistenceAssumption
  <2> QED BY <1>1, <2>1, <2>2, DefaultIsSong DEF PInit, PTypeOK
<1>3. writer.phase = "idle" /\ Stored(current)
  BY RestingIsMachine DEF PInit, Init, Stored, Default
<1> QED
  BY <1>1, <1>2, <1>3 DEF PInit, PInv, OnItsWay, V3Known

(* So it always holds. *)
LEMMA AlwaysPInv == PSpec => []PInv
BY PInitPInv, PStepKeepsPInv, PTL DEF PSpec

(* At rest, and as long as no transfer failed, the slot of the current pattern holds
   that pattern: the mark is taken back only by a write that is begun with the
   pattern as it is, and a later edit or change of pattern sets it again. *)
THEOREM CurrentPatternIsStored == PSpec => []CurrentIsStored
<1>1. PInv => CurrentIsStored
  BY DEF PInv, OnItsWay, Marked, CurrentIsStored, AtRest, Unmarked
<1> QED BY <1>1, AlwaysPInv, PTL

(* Where the tick is never 0, a song that counts as saved has every edit. *)
THEOREM V3HasEveryEdit ==
  ASSUME ~TickZero
  PROVE  PSpec => []NothingMissesV3
<1>1. PInv => NothingMissesV3
  BY DEF PInv, V3Known, NothingMissesV3, Unmarked
<1> QED BY <1>1, AlwaysPInv, PTL
=============================================================================
