----------------------------- MODULE OutputProofs ---------------------------
(***************************************************************************)
(* Proofs about the two engines behind the outputs, GateEngine and         *)
(* ArpEngine.  They share no variable, and their theorems stand side by    *)
(* side.                                                                   *)
(*                                                                         *)
(* For every gate length and any number of arpeggio events: whatever the   *)
(* order of the clock interrupt, SysTick and the steps of the main loop, a *)
(* stop leaves the gate and the retrigger off, and the gate pins of a      *)
(* stopped sequencer stay low.                                             *)
(*                                                                         *)
(* For any chords, modes and number of calls: the position of the          *)
(* arpeggio, an index that Advance uses unchecked, stays inside notes_[4], *)
(* although the interrupt may come between any two assignments of a load.  *)
(***************************************************************************)
EXTENDS GateEngine, ArpEngine, FiniteSetTheorems, SequenceTheorems, TLAPS

Applying == {"muteGate", "mutePending", "muteDelay", "muteArp",
             "test", "gateLow", "setPending", "setDelay", "load"}
Stopping == {"stopPending", "stopGate"}
Done     == {"snapshot", "pins", "loop"}

(* A call that applies a step has set it; one that stops has cleared playing_
   first, so that no arpeggio event comes any more. *)
CallInv ==
  /\ gatePc \in Applying => step # "stopped"
  /\ gatePc \in Stopping => ~playing /\ step = "stopped" /\ ret # "loop"

(* SequencerDevice::Stop clears the retrigger before the gate, so that SysTick
   cannot raise it in between. *)
SilentInv ==
  /\ gatePc = "stopGate" => ~retrigger
  /\ gatePc \in Done /\ step = "stopped" => ~gateActive /\ ~retrigger /\ ~playing

(* The lanes of a device that has stopped are closed before the call returns. *)
MaskInv == ~playing /\ mask => gatePc \in Stopping \cup {"snapshot", "pins"}

(* TypeOK in four parts, for the provers. *)
Counts ==
  /\ elapsed \in 0 .. GateLength - 1 /\ delay \in 0 .. 1 /\ block \in 0 .. 1
  /\ events \in 0 .. MaxEvents

Device ==
  /\ ui \in BOOLEAN /\ playing \in BOOLEAN /\ armed \in BOOLEAN
  /\ gateActive \in BOOLEAN /\ retrigger \in BOOLEAN

Outputs ==
  /\ moved \in BOOLEAN /\ hold \in BOOLEAN /\ pulsed \in BOOLEAN
  /\ mask \in BOOLEAN /\ pins \in BOOLEAN

Control ==
  /\ gatePc \in CallPoints /\ ret \in {"snapshot", "pins", "loop"}
  /\ sys \in {"none", "retrigger", "pins"} /\ step \in Kinds \cup {"stopped"}

Flags == Device /\ Outputs /\ Control

IInv == Counts /\ Flags /\ CallInv /\ SilentInv /\ MaskInv

USE DEF Kinds, CallPoints, Applying, Stopping, Done

-----------------------------------------------------------------------------
(* The device starts in the invariant. *)
LEMMA InitIInv == GateInit => IInv
<1> SUFFICES ASSUME GateInit PROVE IInv  OBVIOUS
<1>1. Counts  BY GateAssumption DEF GateInit, Counts
<1>2. Device  BY DEF GateInit, Device
<1>3. Outputs  BY DEF GateInit, Outputs
<1>4. Control  BY DEF GateInit, Control
<1>5. CallInv /\ SilentInv /\ MaskInv  BY DEF GateInit, CallInv, SilentInv, MaskInv
<1> QED  BY <1>1, <1>2, <1>3, <1>4, <1>5 DEF IInv, Flags

(* The arpeggiator's event, in the clock interrupt. *)
LEMMA ArpEventKeepsIInv == IInv /\ ArpEvent => IInv'
<1> SUFFICES ASSUME IInv, ArpEvent PROVE IInv'  OBVIOUS
<1> USE DEF IInv, ArpEvent, GateOn, GateOff, transport, output
<1>1. Counts' /\ Flags'
  <2>1. Counts'  BY GateAssumption DEF Counts
  <2>2. Device'  BY DEF Flags, Device
  <2>3. Outputs'  BY DEF Flags, Outputs
  <2>4. Control'  BY DEF Flags, Control
  <2> QED  BY <2>1, <2>2, <2>3, <2>4 DEF Flags
<1>2. CallInv' /\ SilentInv' /\ MaskInv'  BY DEF CallInv, SilentInv, MaskInv
<1> QED  BY <1>1, <1>2

(* The three parts of the SysTick handler. *)
LEMMA SysTickKeepsIInv == IInv /\ SysTick => IInv'
<1> SUFFICES ASSUME IInv, SysTick PROVE IInv'  OBVIOUS
<1> USE DEF IInv, transport, gate, output
<1>1. CASE TickGate
  <2> USE <1>1 DEF TickGate, GateOff, Expired
  <2>1. Counts' /\ Flags'
    <3>1. Counts'  BY GateAssumption DEF Counts
    <3>2. Device'  BY DEF Flags, Device
    <3>3. Outputs'  BY DEF Flags, Outputs
    <3>4. Control'  BY DEF Flags, Control
    <3> QED  BY <3>1, <3>2, <3>3, <3>4 DEF Flags
  <2>2. CallInv' /\ SilentInv' /\ MaskInv'  BY DEF CallInv, SilentInv, MaskInv
  <2> QED  BY <2>1, <2>2
<1>2. CASE TickRetrigger
  <2> USE <1>2 DEF TickRetrigger, RetriggerDone, GateOn
  <2>1. Counts' /\ Flags'
    <3>1. Counts'  BY GateAssumption DEF Counts
    <3>2. Device'  BY DEF Flags, Device
    <3>3. Outputs'  BY DEF Flags, Outputs
    <3>4. Control'  BY DEF Flags, Control
    <3> QED  BY <3>1, <3>2, <3>3, <3>4 DEF Flags
  <2>2. CallInv' /\ SilentInv' /\ MaskInv'  BY DEF CallInv, SilentInv, MaskInv
  <2> QED  BY <2>1, <2>2
<1>3. CASE TickPins
  <2> USE <1>3 DEF TickPins
  <2>1. Counts' /\ Flags'
    <3>1. Counts'  BY GateAssumption DEF Counts, BlockLeft, Used, Driven
    <3>2. Device'  BY DEF Flags, Device, BlockLeft, Used, Driven
    <3>3. Outputs'  BY DEF Flags, Outputs, BlockLeft, Used, Driven
    <3>4. Control'  BY DEF Flags, Control, BlockLeft, Used, Driven
    <3> QED  BY <3>1, <3>2, <3>3, <3>4 DEF Flags
  <2>2. CallInv' /\ SilentInv' /\ MaskInv'  BY DEF CallInv, SilentInv, MaskInv
  <2> QED  BY <2>1, <2>2
<1> QED  BY <1>1, <1>2, <1>3 DEF SysTick

(* Applying a step: what it leaves to its caller is that the step is not
   "stopped". *)
LEMMA ApplyGoesOn ==
  ASSUME NEW kind \in Kinds, Apply(kind), ret' \in {"snapshot", "pins", "loop"}
  PROVE  step' = kind /\ step' # "stopped" /\ gatePc' \in Applying \cup Done
         /\ gatePc' \in CallPoints
BY DEF Apply

(* A step inside a call of the main loop. *)
LEMMA InCallKeepsIInv == IInv /\ InCall => IInv'
<1> SUFFICES ASSUME IInv, InCall PROVE IInv'  OBVIOUS
<1> USE DEF IInv, At, transport, gate, output, GateOn, GateOff
<1>1. CASE MuteGate \/ MutePending \/ MuteDelay \/ MuteArp
  <2> USE <1>1 DEF MuteGate, MutePending, MuteDelay, MuteArp
  <2>1. Counts' /\ Flags'
    <3>1. Counts'  BY GateAssumption DEF Counts
    <3>2. Device'  BY DEF Flags, Device
    <3>3. Outputs'  BY DEF Flags, Outputs
    <3>4. Control'  BY DEF Flags, Control
    <3> QED  BY <3>1, <3>2, <3>3, <3>4 DEF Flags
  <2>2. CallInv' /\ SilentInv' /\ MaskInv'  BY DEF Flags, Device, Control, CallInv, SilentInv, MaskInv
  <2> QED  BY <2>1, <2>2
<1>2. CASE RetriggerTest \/ GateLow \/ SetPending \/ SetDelay \/ LoadArp
  <2> USE <1>2 DEF RetriggerTest, GateLow, SetPending, SetDelay, LoadArp
  <2>1. Counts' /\ Flags'
    <3>1. Counts'  BY GateAssumption DEF Counts
    <3>2. Device'  BY DEF Flags, Device
    <3>3. Outputs'  BY DEF Flags, Outputs
    <3>4. Control'  BY DEF Flags, Control
    <3> QED  BY <3>1, <3>2, <3>3, <3>4 DEF Flags
  <2>2. CallInv' /\ SilentInv' /\ MaskInv'  BY DEF Flags, Device, Control, CallInv, SilentInv, MaskInv
  <2> QED  BY <2>1, <2>2
<1>3. CASE StopRetrigger \/ StopGate
  <2> USE <1>3 DEF StopRetrigger, StopGate, StopPending
  <2>1. Counts' /\ Flags'
    <3>1. Counts'  BY GateAssumption DEF Counts
    <3>2. Device'  BY DEF Flags, Device
    <3>3. Outputs'  BY DEF Flags, Outputs
    <3>4. Control'  BY DEF Flags, Control
    <3> QED  BY <3>1, <3>2, <3>3, <3>4 DEF Flags
  <2>2. CallInv' /\ SilentInv' /\ MaskInv'  BY DEF Flags, Device, Control, CallInv, SilentInv, MaskInv
  <2> QED  BY <2>1, <2>2
<1>4. CASE Snapshot \/ ForgetPins
  <2> USE <1>4 DEF Snapshot, ForgetPins, PinsForgotten
  <2>1. Counts' /\ Flags'
    <3>1. Counts'  BY GateAssumption DEF Counts
    <3>2. Device'  BY DEF Flags, Device
    <3>3. Outputs'  BY DEF Flags, Outputs, LanesOfStep
    <3>4. Control'  BY DEF Flags, Control
    <3> QED  BY <3>1, <3>2, <3>3, <3>4 DEF Flags
  <2>2. gatePc' = "loop" /\ UNCHANGED <<transport, gate, step>>  OBVIOUS
  <2>3. ~playing' => ~mask'  BY <2>2 DEF LanesOfStep
  <2>4. CallInv' /\ SilentInv'  BY <2>2 DEF CallInv, SilentInv
  <2>5. MaskInv'  BY <2>3 DEF MaskInv
  <2> QED  BY <2>1, <2>4, <2>5
<1>5. CASE StartRetrigger \/ ResetRetrigger
  <2> USE <1>5 DEF StartRetrigger, ResetRetrigger
  <2>1. Counts' /\ Flags'
    <3>1. Counts'  BY GateAssumption DEF Counts
    <3>2. Device'  BY DEF Flags, Device
    <3>3. Outputs'  BY DEF Flags, Outputs
    <3>4. Control'  BY DEF Flags, Control
    <3> QED  BY <3>1, <3>2, <3>3, <3>4 DEF Flags
  <2>2. CallInv' /\ SilentInv' /\ MaskInv'  BY DEF Flags, Device, Control, CallInv, SilentInv, MaskInv
  <2> QED  BY <2>1, <2>2
<1>6. CASE StartArp \/ ResetGate
  <2>1. PICK kind \in Kinds : Apply(kind)  BY <1>6 DEF StartArp, ResetGate
  <2>2. step' = kind /\ step' # "stopped" /\ gatePc' \in Applying \cup Done /\ gatePc' \in CallPoints
    BY <1>6, <2>1, ApplyGoesOn DEF StartArp, ResetGate, Flags, Control
  <2>3. Counts' /\ Flags'
    <3>1. Counts'  BY <1>6, <2>2, GateAssumption DEF Counts, StartArp, ResetGate
    <3>2. Device'  BY <1>6, <2>2 DEF Flags, Device, StartArp, ResetGate
    <3>3. Outputs'  BY <1>6, <2>2 DEF Flags, Outputs, StartArp, ResetGate
    <3>4. Control'  BY <1>6, <2>2 DEF Flags, Control, StartArp, ResetGate
    <3> QED  BY <3>1, <3>2, <3>3, <3>4 DEF Flags
  <2>4. CallInv' /\ SilentInv' /\ MaskInv'
    BY <1>6, <2>2 DEF StartArp, ResetGate, CallInv, SilentInv, MaskInv
  <2> QED  BY <2>3, <2>4
<1> QED  BY <1>1, <1>2, <1>3, <1>4, <1>5, <1>6 DEF InCall

(* The first step of a call of the main loop. *)
LEMMA CallKeepsIInv ==
  IInv /\ (Service \/ ServiceStops \/ Play \/ Stop \/ Reset \/ Edit) => IInv'
<1> SUFFICES ASSUME IInv, Service \/ ServiceStops \/ Play \/ Stop \/ Reset \/ Edit
             PROVE  IInv'
  OBVIOUS
<1> USE DEF IInv, At, transport, gate, output
<1>1. CASE Service \/ Edit
  <2>1. PICK kind \in Kinds : Apply(kind)  BY <1>1 DEF Service, Edit
  <2>2. step' = kind /\ step' # "stopped" /\ gatePc' \in Applying \cup Done /\ gatePc' \in CallPoints
    BY <1>1, <2>1, ApplyGoesOn DEF Service, Edit
  <2>3. Counts' /\ Flags'
    <3>1. Counts'  BY <1>1, <2>2, GateAssumption DEF Counts, Service, Edit
    <3>2. Device'  BY <1>1, <2>2 DEF Flags, Device, Service, Edit
    <3>3. Outputs'  BY <1>1, <2>2 DEF Flags, Outputs, Service, Edit
    <3>4. Control'  BY <1>1, <2>2 DEF Flags, Control, Service, Edit
    <3> QED  BY <3>1, <3>2, <3>3, <3>4 DEF Flags
  <2>4. CallInv' /\ SilentInv' /\ MaskInv'
    BY <1>1, <2>2 DEF Service, Edit, CallInv, SilentInv, MaskInv
  <2> QED  BY <2>3, <2>4
<1>2. CASE ServiceStops \/ Stop
  <2> USE <1>2 DEF ServiceStops, Stop
  <2>1. Counts' /\ Flags'
    <3>1. Counts'  BY GateAssumption DEF Counts
    <3>2. Device'  BY DEF Flags, Device
    <3>3. Outputs'  BY DEF Flags, Outputs
    <3>4. Control'  BY DEF Flags, Control
    <3> QED  BY <3>1, <3>2, <3>3, <3>4 DEF Flags
  <2>2. CallInv' /\ SilentInv' /\ MaskInv'  BY DEF Flags, Device, Control, CallInv, SilentInv, MaskInv
  <2> QED  BY <2>1, <2>2
<1>3. CASE Play \/ Reset
  <2> USE <1>3 DEF Play, Reset, PinsForgotten
  <2>1. Counts' /\ Flags'
    <3>1. Counts'  BY GateAssumption DEF Counts
    <3>2. Device'  BY DEF Flags, Device
    <3>3. Outputs'  BY DEF Flags, Outputs
    <3>4. Control'  BY DEF Flags, Control
    <3> QED  BY <3>1, <3>2, <3>3, <3>4 DEF Flags
  <2>2. CallInv' /\ SilentInv' /\ MaskInv'  BY DEF Flags, Device, Control, CallInv, SilentInv, MaskInv
  <2> QED  BY <2>1, <2>2
<1> QED  BY <1>1, <1>2, <1>3

(* Every step keeps the invariant. *)
LEMMA StepKeepsIInv == IInv /\ [GateNext]_gateVars => IInv'
<1>1. IInv /\ UNCHANGED gateVars => IInv'
  BY DEF IInv, Counts, Flags, Device, Outputs, Control, CallInv, SilentInv, MaskInv, gateVars, transport, gate, output
<1> QED
  BY <1>1, ArpEventKeepsIInv, SysTickKeepsIInv, InCallKeepsIInv, CallKeepsIInv
     DEF GateNext, MainNext

(* So it always holds. *)
LEMMA AlwaysIInv == GateSpec => []IInv
<1>1. GateInit => IInv  BY InitIInv
<1>2. IInv /\ [GateNext]_gateVars => IInv'  BY StepKeepsIInv
<1> QED  BY <1>1, <1>2, PTL DEF GateSpec

-----------------------------------------------------------------------------
(* Every variable keeps its type; the gate's counter never reaches its length. *)
THEOREM TypeCorrect == GateSpec => []GateTypeOK
<1>1. IInv => GateTypeOK  BY DEF IInv, Counts, Flags, Device, Outputs, Control, GateTypeOK
<1> QED  BY <1>1, AlwaysIInv, PTL

(* After SequencerDevice::Stop neither the gate nor a retrigger is left on,
   whichever interrupt lands between its assignments. *)
THEOREM StopSilences == GateSpec => []StopIsSilent
<1>1. IInv => StopIsSilent  BY DEF IInv, SilentInv, StopIsSilent
<1> QED  BY <1>1, AlwaysIInv, PTL

(* The gate pins of a stopped sequencer stay low (Bridge_Tick1ms), also when an
   edit or Reset applies a step and so raises the gate. *)
THEOREM StoppedPinsStayLow == GateSpec => StoppedStaysLow
<1>1. IInv /\ [GateNext]_gateVars => [~playing /\ gatePc = "loop" /\ ~pins => ~pins']_gateVars
  <2> SUFFICES ASSUME IInv, [GateNext]_gateVars, ~playing, gatePc = "loop", ~pins PROVE ~pins'
    OBVIOUS
  <2>1. mask = FALSE  BY DEF IInv, MaskInv, Flags, Outputs
  <2>2. CASE TickPins  BY <2>1, <2>2 DEF TickPins, Driven
  <2>3. CASE ArpEvent \/ TickGate \/ TickRetrigger \/ MainNext \/ UNCHANGED gateVars
    <3>1. ~InCall
      BY DEF InCall, At, MuteGate, MutePending, MuteDelay, MuteArp, RetriggerTest,
             GateLow, SetPending, SetDelay, LoadArp, StopRetrigger, StopGate,
             Snapshot, ForgetPins, StartRetrigger, StartArp, ResetRetrigger, ResetGate
    <3>2. pins' = pins
      BY <2>3, <3>1 DEF ArpEvent, TickGate, TickRetrigger, MainNext, Service, ServiceStops,
             Play, Stop, Reset, Edit, PinsForgotten, output, gateVars
    <3> QED  BY <3>2
  <2> QED  BY <2>2, <2>3 DEF GateNext, SysTick
<1> QED  BY <1>1, AlwaysIInv, PTL DEF GateSpec, StoppedStaysLow

(* Stop silences gate and pins, for every length of the gate and every interleaving of
   SysTick, the clock interrupt and the main loop. *)
THEOREM StopIsKept == GateSpec => StopHolds
BY StopSilences, StoppedPinsStayLow, PTL DEF StopHolds

-----------------------------------------------------------------------------
(* The arpeggio *)

(* The list that is being built has no more notes than were looked at. *)
ListGrowsSlowly == pc = "append" => size < next

(* What the position depends on; the notes themselves it does not. *)
IndexInv ==
  /\ mode \in AllModes /\ size \in 0 .. Size /\ direction \in {-1, 1}
  /\ chord \in Seq(0 .. NoNote) /\ next \in Nat
  /\ IndexInNotes
  /\ ListGrowsSlowly

-----------------------------------------------------------------------------
(* The places Advance can go to are among the first Size; the list it finds has at
   least two notes, but the position may still be that of a longer one. *)
LEMMA PlaceAdvanceGoesTo ==
  ASSUME IndexInv, size > 1, NEW to \in Advanced
  PROVE  to.position \in Slots /\ to.direction \in {-1, 1}
<1>1. /\ size \in 2 .. 4 /\ position \in 0 .. 3 /\ direction \in {-1, 1}
      /\ Slots = 0 .. 3
  BY DEF IndexInv, IndexInNotes, Slots, Size
<1>2. mode \in AllModes
  BY DEF IndexInv
<1>3. CASE mode = "Off"
  BY <1>1, <1>3 DEF Advanced, Step
<1>4. CASE mode \in {"Up", "AsPlayed"}
  <2>1. Upwards \in 0 .. 3
    BY <1>1 DEF Upwards
  <2>2. to = Step(Upwards, direction)
    BY <1>4 DEF Advanced
  <2> QED
    BY <1>1, <2>1, <2>2 DEF Step
<1>5. CASE mode = "Down"
  <2>1. Downwards \in 0 .. 3
    BY <1>1 DEF Downwards
  <2>2. to = Step(Downwards, direction)
    BY <1>5 DEF Advanced
  <2> QED
    BY <1>1, <2>1, <2>2 DEF Step
<1>6. CASE mode \in {"UpDown", "DownUp"}
  <2> DEFINE p == Byte(position + direction)
  <2>1. to = Bounce(p)
    BY <1>6 DEF Advanced
  <2>2. p \in Nat
    BY <1>1 DEF Byte
  <2>3. Byte(size - 2) = size - 2
    BY <1>1 DEF Byte
  <2>4. CASE p >= size
    BY <1>1, <2>1, <2>2, <2>3, <2>4 DEF Bounce, Step
  <2>5. CASE ~ (p >= size)
    BY <1>1, <2>1, <2>2, <2>5 DEF Bounce, Step
  <2> QED
    BY <2>4, <2>5
<1>7. CASE mode = "Random"
  <2>1. PICK p \in 0 .. size - 1 : to = Step(p, direction)
    BY <1>7 DEF Advanced
  <2> QED
    BY <1>1, <2>1 DEF Step
<1> QED
  BY <1>2, <1>3, <1>4, <1>5, <1>6, <1>7 DEF AllModes

(* The interrupt, wherever it lands. *)
LEMMA AdvanceKeepsIndex ==
  ASSUME IndexInv, Advance
  PROVE  IndexInv'
<1>1. UNCHANGED <<mode, notes, size, pc, chord, next, loads>>
  BY DEF Advance
<1>2. position' \in Slots /\ direction' \in {-1, 1}
  <2>1. CASE size = 1
    BY <2>1 DEF Advance, IndexInv, IndexInNotes
  <2>2. CASE size # 1
    <3>1. size > 1
      BY <2>2 DEF Advance, IndexInv, Size
    <3>2. PICK to \in Advanced : position' = to.position /\ direction' = to.direction
      BY <2>2 DEF Advance
    <3> QED
      BY <3>1, <3>2, PlaceAdvanceGoesTo
  <2> QED
    BY <2>1, <2>2
<1> QED
  BY <1>1, <1>2 DEF IndexInv, IndexInNotes, ListGrowsSlowly

(* A note is appended only while fewer than four were looked at, so that note_count_
   stays inside notes_[4]. *)
LEMMA AppendKeepsIndex ==
  ASSUME IndexInv, Append1
  PROVE  IndexInv'
<1>1. Len(chord) \in Nat
  BY DEF IndexInv
<1>2. next <= Size
  BY <1>1 DEF Append1, Considered, IndexInv, Size
<1>3. next' = next + 1 /\ size' \in {size, size + 1} /\ size < next
  BY DEF Append1, IndexInv, ListGrowsSlowly
<1>4. size' \in 0 .. Size /\ next' \in Nat /\ size' < next'
  BY <1>2, <1>3 DEF IndexInv, Size
<1>5. UNCHANGED <<mode, position, direction, chord>>
  BY DEF Append1
<1> QED
  BY <1>4, <1>5 DEF IndexInv, IndexInNotes, ListGrowsSlowly

(* The last assignments of Reset place the arpeggio inside the list, or leave it. *)
LEMMA ResetKeepsIndex ==
  ASSUME IndexInv, ResetNote
  PROVE  IndexInv'
<1>1. position' \in Slots
  BY DEF ResetNote, Placed, IndexInv, IndexInNotes, Slots, Size
<1> QED
  BY <1>1 DEF ResetNote, IndexInv, IndexInNotes, ListGrowsSlowly

(* Every step keeps the invariant. *)
LEMMA NextKeepsIndex == IndexInv /\ [Next]_vars => IndexInv'
<1> SUFFICES ASSUME IndexInv, [Next]_vars PROVE IndexInv'
  OBVIOUS
<1>1. CASE Advance
  BY <1>1, AdvanceKeepsIndex
<1>2. CASE Append1
  BY <1>2, AppendKeepsIndex
<1>3. CASE ResetNote
  BY <1>3, ResetKeepsIndex
<1>4. CASE LoadNotes
  <2>1. mode' \in AllModes /\ chord' \in Seq(0 .. NoNote)
    BY <1>4, ArpAssumption DEF LoadNotes
  <2> QED
    BY <1>4, <2>1 DEF LoadNotes, IndexInv, IndexInNotes, ListGrowsSlowly
<1>5. CASE BuildNoteList
  BY <1>5 DEF BuildNoteList, IndexInv, IndexInNotes, ListGrowsSlowly, Size
<1>6. CASE BeginSort \/ Compare \/ Swap \/ NextPlace \/ EndSort
  BY <1>6 DEF BeginSort, Compare, Swap, NextPlace, EndSort, engine, IndexInv, IndexInNotes,
              ListGrowsSlowly
<1>7. CASE ResetPosition \/ ResetDirection
  BY <1>7 DEF ResetPosition, ResetDirection, IndexInv, IndexInNotes, ListGrowsSlowly,
              Slots, Size
<1>8. CASE ClearMode
  BY <1>8 DEF ClearMode, IndexInv, IndexInNotes, ListGrowsSlowly, AllModes
<1>9. CASE ClearRest
  BY <1>9 DEF ClearRest, IndexInv, IndexInNotes, ListGrowsSlowly, Slots, Size
<1>10. CASE UNCHANGED vars
  BY <1>10 DEF vars, engine, IndexInv, IndexInNotes, ListGrowsSlowly
<1> QED
  BY <1>1, <1>2, <1>3, <1>4, <1>5, <1>6, <1>7, <1>8, <1>9, <1>10 DEF Next, Main

(* Advance never reads outside notes_[4]: neither the position left by a longer chord
   nor one half reset leads it there. *)
THEOREM IndexStaysInNotes == Spec => []IndexInNotes
<1>1. Init => IndexInv
  BY DEF Init, IndexInv, IndexInNotes, ListGrowsSlowly, AllModes, Slots, Size
<1>2. IndexInv => IndexInNotes
  BY DEF IndexInv
<1> QED
  BY <1>1, <1>2, NextKeepsIndex, PTL DEF Spec

-----------------------------------------------------------------------------
(* The notes the engine holds.  LowNotes(k) are the MIDI notes among the first k of the
   chord; ListOf(f) the set of notes that f, a content of notes_, lists. *)

LowNotes(k) == {chord[n] : n \in {m \in 1 .. k : chord[m] <= Highest}}

ListOf(f) == {f[n] : n \in 0 .. size - 1}

Distinct(f) == \A m, n \in 0 .. size - 1 : m # n => f[m] # f[n]

Ascending(f) == \A m, n \in 0 .. size - 1 : m < n => f[m] < f[n]

(* The list as it is when the exchange under way is complete. *)
Intended == IF pc = "swap" THEN [notes EXCEPT ![j] = t] ELSE notes

(* The first a notes are the lowest ones in order, and the note at a is below those
   behind it that it was compared with, the ones before b. *)
SortedUpTo(f, a, b) ==
  /\ \A m, n \in 0 .. size - 1 : m < a /\ m < n => f[m] < f[n]
  /\ \A n \in 0 .. size - 1 : a < n /\ n < b => f[a] < f[n]

ListTypes ==
  /\ notes \in [Slots -> 0 .. NoNote] /\ size \in 0 .. Size
  /\ chord \in Seq(0 .. NoNote)
  /\ next \in Nat /\ i \in Nat /\ j \in Nat /\ t \in 0 .. NoNote

WhileBuilding ==
  pc = "append" =>
    /\ next \in 1 .. Considered + 1 /\ size < next
    /\ ListOf(notes) = LowNotes(next - 1) /\ Distinct(notes)

WhileSorting ==
  pc \in {"sort", "swap"} =>
    /\ ListOf(Intended) = Pool /\ Distinct(Intended)
    /\ i < j /\ (pc = "swap" => j < size)
    /\ SortedUpTo(Intended, i, IF pc = "swap" THEN j + 1 ELSE j)

WhenSorted ==
  pc \in {"position", "direction", "note", "idle"} =>
    ListOf(notes) = Pool /\ Ascending(notes)

(* What sounds between calls; an empty engine is silent. *)
WhileIdle ==
  pc = "idle" =>
    IF size = 0
      THEN current = NoNote
      ELSE position < size /\ Sounding(position) \in 0 .. size - 1
           /\ current = notes[Sounding(position)]

WhileClearing == pc = "clear" => chord = <<>>

ListInv ==
  ListTypes /\ WhileBuilding /\ WhileSorting /\ WhenSorted /\ WhileIdle /\ WhileClearing

(* No more notes are looked at than the chord has, and at most four. *)
LEMMA ConsideredOfChord ==
  ASSUME ListTypes
  PROVE  Considered \in 0 .. Size /\ Considered <= Len(chord)
<1>1. Len(chord) \in Nat
  BY DEF ListTypes
<1>2. CASE Len(chord) > Size
  BY <1>1, <1>2 DEF Considered, Size
<1>3. CASE ~ (Len(chord) > Size)
  <2>1. Considered = Len(chord)
    BY <1>3 DEF Considered
  <2>2. Len(chord) <= 4
    BY <1>1, <1>3 DEF Size
  <2> QED
    BY <1>1, <2>1, <2>2 DEF Size
<1> QED
  BY <1>2, <1>3

(* Pool is what the list holds once all were looked at. *)
LEMMA PoolIsLowNotes == Pool = LowNotes(Considered)
BY DEF Pool, LowNotes

(* Exchanging two notes of a list changes neither what it lists nor that each is listed
   once. *)
LEMMA ExchangeKeepsList ==
  ASSUME ListTypes, NEW f, NEW g,
         NEW a \in 0 .. size - 1, NEW b \in 0 .. size - 1, a # b, Distinct(f),
         \A n \in 0 .. size - 1 :
           g[n] = IF n = b THEN f[a] ELSE IF n = a THEN f[b] ELSE f[n]
  PROVE  ListOf(g) = ListOf(f) /\ Distinct(g)
<1>1. size \in 0 .. 4
  BY DEF ListTypes, Size
<1>2. ListOf(g) \subseteq ListOf(f)
  BY <1>1 DEF ListOf
<1>3. ListOf(f) \subseteq ListOf(g)
  <2> SUFFICES ASSUME NEW n \in 0 .. size - 1 PROVE \E m \in 0 .. size - 1 : g[m] = f[n]
    BY DEF ListOf
  <2>1. g[IF n = a THEN b ELSE IF n = b THEN a ELSE n] = f[n]
    BY <1>1
  <2> QED
    BY <2>1
<1>4. Distinct(g)
  BY <1>1 DEF Distinct
<1> QED
  BY <1>2, <1>3, <1>4

(* A note that is wanted joins the list; one that is not is no MIDI note or listed. *)
LEMMA AppendKeepsList ==
  ASSUME ListInv, Append1
  PROVE  ListInv'
<1>1. /\ pc = "append" /\ next \in 1 .. Considered + 1 /\ next <= Considered /\ size < next
      /\ ListOf(notes) = LowNotes(next - 1) /\ Distinct(notes)
  BY DEF Append1, ListInv, WhileBuilding
<1>2. /\ Considered \in 0 .. 4 /\ next \in 1 .. 4 /\ size \in 0 .. 3
      /\ Slots = 0 .. 3 /\ chord[next] \in 0 .. NoNote
  <2>1. Considered \in 0 .. 4 /\ Considered <= Len(chord) /\ Len(chord) \in Nat
    BY ConsideredOfChord DEF ListInv, ListTypes, Size
  <2>2. next \in 1 .. 4 /\ next <= Len(chord)
    BY <1>1, <2>1
  <2>3. chord[next] \in 0 .. NoNote
    <3>1. chord \in Seq(0 .. NoNote) /\ next \in 1 .. Len(chord)
      BY <2>1, <2>2 DEF ListInv, ListTypes
    <3> QED
      BY <3>1, ElementOfSeq
  <2> QED
    BY <1>1, <2>1, <2>2, <2>3 DEF ListInv, ListTypes, Slots, Size
<1>3. /\ next' = next + 1
      /\ UNCHANGED <<mode, position, direction, current, pc, chord, i, j, t>>
  BY DEF Append1, sorting
<1>4. Considered' = Considered
  BY <1>3 DEF Considered
<1>5. \A k : LowNotes(k)' = LowNotes(k)
  BY <1>3 DEF LowNotes
<1>6. LowNotes(next) = LowNotes(next - 1) \cup (IF chord[next] <= Highest THEN {chord[next]} ELSE {})
  <2>1. 1 .. next = (1 .. next - 1) \cup {next}
    BY <1>2
  <2> QED
    BY <2>1 DEF LowNotes
<1>7. /\ notes' \in [Slots -> 0 .. NoNote] /\ size' \in 0 .. 4 /\ size' < next'
      /\ ListOf(notes)' = LowNotes(next) /\ Distinct(notes)'
  <2>1. CASE Wanted(chord[next])
    <3>1. notes' = [notes EXCEPT ![size] = chord[next]] /\ size' = size + 1
      BY <2>1 DEF Append1
    <3>2. notes \in [Slots -> 0 .. NoNote]
      BY DEF ListInv, ListTypes
    <3>3. notes' \in [Slots -> 0 .. NoNote] /\ size' \in 0 .. 4 /\ size' < next'
      BY <1>1, <1>2, <1>3, <3>1, <3>2
    <3>4. /\ \A n \in 0 .. size - 1 : notes'[n] = notes[n]
          /\ notes'[size] = chord[next]
          /\ 0 .. size' - 1 = (0 .. size - 1) \cup {size}
      BY <1>2, <3>1, <3>2
    <3>5. ListOf(notes)' = ListOf(notes) \cup {chord[next]}
      BY <3>4 DEF ListOf
    <3>6. Distinct(notes)'
      BY <1>1, <2>1, <3>4 DEF Distinct, Wanted
    <3> QED
      BY <1>1, <1>6, <2>1, <3>3, <3>5, <3>6 DEF Wanted
  <2>2. CASE ~ Wanted(chord[next])
    <3>1. UNCHANGED <<notes, size>>
      BY <2>2 DEF Append1
    <3>2. ListOf(notes)' = ListOf(notes) /\ Distinct(notes)'
      BY <1>1, <3>1 DEF ListOf, Distinct
    <3>3. chord[next] <= Highest => chord[next] \in ListOf(notes)
      BY <2>2 DEF Wanted, ListOf
    <3> QED
      BY <1>1, <1>2, <1>3, <1>6, <3>1, <3>2, <3>3 DEF ListInv, ListTypes
  <2> QED
    BY <2>1, <2>2
<1>8. ListTypes'
  BY <1>2, <1>3, <1>7 DEF ListInv, ListTypes, Size
<1>9. WhileBuilding'
  <2>1. next' \in 1 .. Considered + 1 /\ next' - 1 = next
    BY <1>1, <1>2, <1>3
  <2>2. ListOf(notes)' = LowNotes(next' - 1)
    BY <1>7, <2>1
  <2> QED
    BY <1>4, <1>5, <1>7, <2>1, <2>2 DEF WhileBuilding
<1>10. WhileSorting' /\ WhenSorted' /\ WhileIdle' /\ WhileClearing'
  BY <1>1, <1>3 DEF WhileSorting, WhenSorted, WhileIdle, WhileClearing
<1> QED
  BY <1>8, <1>9, <1>10 DEF ListInv

(* Notes compared with <; two facts the sort needs. *)
LEMMA Trichotomy ==
  ASSUME NEW x \in 0 .. 255, NEW y \in 0 .. 255, ~ (x < y), x # y
  PROVE  y < x
OBVIOUS

(* See above. *)
LEMMA Transitivity ==
  ASSUME NEW x \in 0 .. 255, NEW y \in 0 .. 255, NEW z \in 0 .. 255, x < y, y < z
  PROVE  x < z
OBVIOUS

(* The sort begins with the list built: nothing is in its place, nothing compared. *)
LEMMA BeginSortKeepsList ==
  ASSUME ListInv, BeginSort
  PROVE  ListInv'
<1>1. /\ pc = "append" /\ next > Considered /\ pc' = "sort" /\ i' = 0 /\ j' = 1
      /\ UNCHANGED <<mode, notes, size, position, direction, current, chord, next, t>>
  BY DEF BeginSort, engine
<1>2. Considered \in Nat
  BY ConsideredOfChord DEF ListInv, Size
<1>3. next = Considered + 1 /\ ListOf(notes) = LowNotes(next - 1) /\ Distinct(notes)
  BY <1>1, <1>2 DEF ListInv, WhileBuilding
<1>4. ListOf(notes) = Pool
  BY <1>2, <1>3, PoolIsLowNotes
<1>5. ListTypes'
  BY <1>1 DEF ListInv, ListTypes
<1>6. WhileSorting'
  <2>1. Intended' = notes /\ size' = size /\ size \in Nat
    BY <1>1 DEF Intended, ListInv, ListTypes
  <2>2. ListOf(Intended)' = ListOf(notes) /\ Distinct(Intended)' /\ Pool' = Pool
    BY <1>1, <1>3, <2>1 DEF ListOf, Distinct, Pool, Considered
  <2>3. \A m \in 0 .. size - 1 : ~ (m < 0)
    BY <2>1
  <2>4. \A m \in 0 .. size - 1 : ~ (0 < m /\ m < 1)
    BY <2>1
  <2>5. SortedUpTo(Intended, i, j)'
    BY <1>1, <2>1, <2>3, <2>4 DEF SortedUpTo
  <2> QED
    BY <1>1, <1>4, <2>2, <2>5 DEF WhileSorting
<1> QED
  BY <1>1, <1>5, <1>6 DEF ListInv, WhileBuilding, WhenSorted, WhileIdle, WhileClearing

(* What every step of the sort starts from. *)
LEMMA SortState ==
  ASSUME ListInv, pc \in {"sort", "swap"}
  PROVE  /\ size \in 0 .. 4 /\ Slots = 0 .. 3 /\ i \in Nat /\ j \in Nat /\ i < j
         /\ notes \in [Slots -> 0 .. 255] /\ t \in 0 .. 255
         /\ ListOf(Intended) = Pool /\ Distinct(Intended)
BY DEF ListInv, ListTypes, WhileSorting, Slots, Size, NoNote

(* A note that is not lower stays; for one that is, the exchange is begun, and the list
   intended is the exchanged one. *)
LEMMA CompareKeepsList ==
  ASSUME ListInv, Compare
  PROVE  ListInv'
<1>1. /\ pc = "sort" /\ j < size
      /\ UNCHANGED <<mode, size, position, direction, current, chord, next, i>>
  BY DEF Compare
<1>2. /\ size \in 0 .. 4 /\ Slots = 0 .. 3 /\ i \in 0 .. size - 1 /\ j \in 0 .. size - 1
      /\ i < j /\ i # j
      /\ notes \in [Slots -> 0 .. 255] /\ t \in 0 .. 255
      /\ ListOf(notes) = Pool /\ Distinct(notes)
  BY <1>1, SortState DEF Intended
<1>3. SortedUpTo(notes, i, j)
  BY <1>1 DEF ListInv, WhileSorting, Intended
<1>4. notes[i] \in 0 .. 255 /\ notes[j] \in 0 .. 255 /\ \A n \in 0 .. size - 1 : notes[n] \in 0 .. 255
  BY <1>2
<1>5. Pool' = Pool
  BY <1>1 DEF Pool, Considered
<1>6. CASE notes[j] < notes[i]
  <2>1. pc' = "swap" /\ t' = notes[i] /\ j' = j /\ notes' = [notes EXCEPT ![i] = notes[j]]
    BY <1>6 DEF Compare
  <2>2. ListTypes'
    BY <1>1, <1>2, <1>4, <2>1 DEF ListInv, ListTypes, NoNote
  <2> DEFINE g == Intended'
  <2>3. \A n \in 0 .. size - 1 :
          g[n] = IF n = j THEN notes[i] ELSE IF n = i THEN notes[j] ELSE notes[n]
    <3>1. Intended' = [notes EXCEPT ![i] = notes[j], ![j] = notes[i]]
      BY <2>1 DEF Intended
    <3> QED
      BY <1>2, <3>1
  <2>4. ListOf(g) = Pool /\ Distinct(g)
    <3> HIDE DEF g
    <3>1. ListTypes
      BY DEF ListInv
    <3>2. ListOf(g) = ListOf(notes) /\ Distinct(g)
      BY <1>2, <2>3, <3>1, ExchangeKeepsList
    <3> QED
      BY <1>2, <3>2
  <2>6. SortedUpTo(g, i, j + 1)
    <3> HIDE DEF g
    <3>1. \A m, n \in 0 .. size - 1 : m < i /\ m < n => g[m] < g[n]
      BY <1>2, <1>3, <2>3 DEF SortedUpTo
    <3>2. \A n \in 0 .. size - 1 : i < n /\ n < j + 1 => g[i] < g[n]
      <4> SUFFICES ASSUME NEW n \in 0 .. size - 1, i < n, n < j + 1 PROVE g[i] < g[n]
        OBVIOUS
      <4>1. g[i] = notes[j]
        BY <1>2, <2>3
      <4>2. CASE n = j
        BY <1>2, <1>6, <2>3, <4>1, <4>2
      <4>3. CASE n # j
        <5>1. n < j /\ g[n] = notes[n]
          BY <1>2, <2>3, <4>3
        <5>2. notes[i] < notes[n]
          BY <1>3, <5>1 DEF SortedUpTo
        <5>3. notes[j] < notes[n]
          BY <1>4, <1>6, <5>2, Transitivity
        <5> QED
          BY <4>1, <5>1, <5>3
      <4> QED
        BY <4>2, <4>3
    <3> QED
      BY <3>1, <3>2 DEF SortedUpTo
  <2>7. WhileSorting'
    <3>1. ListOf(Intended)' = Pool' /\ Distinct(Intended)' /\ SortedUpTo(Intended, i, j + 1)'
      BY <1>1, <1>5, <2>1, <2>4, <2>6 DEF ListOf, Distinct, SortedUpTo
    <3> QED
      BY <1>1, <1>2, <2>1, <3>1 DEF WhileSorting
  <2> QED
    BY <1>1, <2>1, <2>2, <2>7 DEF ListInv, WhileBuilding, WhenSorted, WhileIdle, WhileClearing
<1>7. CASE ~ (notes[j] < notes[i])
  <2>1. j' = j + 1 /\ UNCHANGED <<pc, t, notes>>
    BY <1>7 DEF Compare
  <2>2. ListTypes'
    BY <1>1, <2>1 DEF ListInv, ListTypes
  <2>3. notes[i] < notes[j]
    <3>1. notes[i] # notes[j]
      BY <1>2 DEF Distinct
    <3> QED
      BY <1>4, <1>7, <3>1, Trichotomy
  <2>4. SortedUpTo(notes, i, j + 1)
    BY <1>2, <1>3, <2>3 DEF SortedUpTo
  <2>5. WhileSorting'
    <3>1. ListOf(Intended)' = Pool' /\ Distinct(Intended)' /\ SortedUpTo(Intended, i, j)'
      BY <1>1, <1>2, <1>5, <2>1, <2>4 DEF ListOf, Distinct, SortedUpTo, Intended
    <3> QED
      BY <1>1, <1>2, <2>1, <3>1 DEF WhileSorting
  <2> QED
    BY <1>1, <2>1, <2>2, <2>5 DEF ListInv, WhileBuilding, WhenSorted, WhileIdle, WhileClearing
<1> QED
  BY <1>6, <1>7

(* The second assignment of the exchange makes the list what was intended. *)
LEMMA SwapKeepsList ==
  ASSUME ListInv, Swap
  PROVE  ListInv'
<1>1. /\ pc = "swap" /\ pc' = "sort" /\ notes' = [notes EXCEPT ![j] = t] /\ j' = j + 1
      /\ UNCHANGED <<mode, size, position, direction, current, chord, next, i, t>>
  BY DEF Swap
<1>2. /\ size \in 0 .. 4 /\ Slots = 0 .. 3 /\ i \in Nat /\ j \in Nat /\ i < j
      /\ notes \in [Slots -> 0 .. 255] /\ t \in 0 .. 255
      /\ ListOf(Intended) = Pool /\ Distinct(Intended) /\ SortedUpTo(Intended, i, j + 1)
  BY <1>1, SortState DEF ListInv, WhileSorting
<1>3. ListTypes'
  <2>1. notes' \in [Slots -> 0 .. 255]
    BY <1>1, <1>2
  <2>2. j' \in Nat
    BY <1>1, <1>2
  <2> QED
    BY <1>1, <2>1, <2>2 DEF ListInv, ListTypes, NoNote
<1>4. Intended' = Intended
  BY <1>1 DEF Intended
<1>5. WhileSorting'
  <2>1. ListOf(Intended)' = Pool'
    <3>1. ListOf(Intended)' = ListOf(Intended)
      BY <1>1, <1>4 DEF ListOf
    <3>2. Pool' = Pool
      BY <1>1 DEF Pool, Considered
    <3> QED
      BY <1>2, <3>1, <3>2
  <2>2. Distinct(Intended)'
    BY <1>1, <1>2, <1>4 DEF Distinct
  <2>3. SortedUpTo(Intended, i, j)'
    BY <1>1, <1>2, <1>4 DEF SortedUpTo
  <2> QED
    BY <1>1, <1>2, <2>1, <2>2, <2>3 DEF WhileSorting
<1> QED
  BY <1>1, <1>3, <1>5 DEF ListInv, WhileBuilding, WhenSorted, WhileIdle, WhileClearing

(* A note compared with all behind it is in its place. *)
LEMMA NextPlaceKeepsList ==
  ASSUME ListInv, NextPlace
  PROVE  ListInv'
<1>1. /\ pc = "sort" /\ j >= size /\ i' = i + 1 /\ j' = i + 2
      /\ UNCHANGED <<mode, notes, size, position, direction, current, pc, chord, next, t>>
  BY DEF NextPlace, engine
<1>2. /\ size \in 0 .. 4 /\ Slots = 0 .. 3 /\ i \in Nat /\ j \in Nat /\ i < j
      /\ ListOf(notes) = Pool /\ Distinct(notes) /\ SortedUpTo(notes, i, j)
  BY <1>1, SortState DEF ListInv, WhileSorting, Intended
<1>3. ListTypes'
  BY <1>1, <1>2 DEF ListInv, ListTypes
<1>4. SortedUpTo(notes, i + 1, i + 2)
  BY <1>1, <1>2 DEF SortedUpTo
<1>5. WhileSorting'
  <2>1. ListOf(Intended)' = Pool' /\ Distinct(Intended)' /\ SortedUpTo(Intended, i, j)'
    BY <1>1, <1>2, <1>4 DEF ListOf, Distinct, SortedUpTo, Pool, Considered, Intended
  <2>2. i' < j'
    BY <1>1, <1>2
  <2> QED
    BY <1>1, <2>1, <2>2 DEF WhileSorting
<1> QED
  BY <1>1, <1>3, <1>5 DEF ListInv, WhileBuilding, WhenSorted, WhileIdle, WhileClearing

(* With every note in its place the list ascends. *)
LEMMA EndSortKeepsList ==
  ASSUME ListInv, EndSort
  PROVE  ListInv'
<1>1. /\ pc = "sort" /\ i >= size /\ pc' = "position"
      /\ UNCHANGED <<mode, notes, size, position, direction, current, chord, next, i, j, t>>
  BY DEF EndSort, engine, sorting
<1>2. /\ size \in 0 .. 4 /\ i \in Nat
      /\ ListOf(notes) = Pool /\ SortedUpTo(notes, i, j)
  BY <1>1, SortState DEF ListInv, WhileSorting, Intended
<1>3. ListTypes'
  BY <1>1 DEF ListInv, ListTypes
<1>4. Ascending(notes)
  BY <1>1, <1>2 DEF SortedUpTo, Ascending
<1>5. WhenSorted'
  <2>1. ListOf(notes)' = Pool' /\ Ascending(notes)'
    BY <1>1, <1>2, <1>4 DEF ListOf, Ascending, Pool, Considered
  <2> QED
    BY <2>1 DEF WhenSorted
<1> QED
  BY <1>1, <1>3, <1>5 DEF ListInv, WhileBuilding, WhileSorting, WhileIdle, WhileClearing

(* A place in the list sounds a note of the list. *)
LEMMA PlaceSounds ==
  ASSUME size \in 1 .. 4, NEW p \in 0 .. size - 1
  PROVE  Sounding(p) \in 0 .. size - 1
<1>1. CASE mode = "Off"
  BY <1>1 DEF Sounding
<1>2. CASE mode = "DownUp"
  <2>1. size - 1 - p \in 0 .. size - 1 /\ Byte(size - 1 - p) = size - 1 - p
    BY DEF Byte
  <2> QED
    BY <1>2, <2>1 DEF Sounding
<1>3. CASE mode \notin {"Off", "DownUp"}
  BY <1>3 DEF Sounding
<1> QED
  BY <1>1, <1>2, <1>3

(* From a place in the list Advance goes to a place in the list. *)
LEMMA AdvanceStaysInList ==
  ASSUME IndexInv, size > 1, position < size, NEW to \in Advanced
  PROVE  to.position \in 0 .. size - 1
<1>1. /\ size \in 2 .. 4 /\ position \in 0 .. size - 1 /\ direction \in {-1, 1}
  BY DEF IndexInv, IndexInNotes, Slots, Size
<1>2. mode \in AllModes
  BY DEF IndexInv
<1>3. CASE mode = "Off"
  BY <1>1, <1>3 DEF Advanced, Step
<1>4. CASE mode \in {"Up", "AsPlayed"}
  <2>1. Upwards \in 0 .. size - 1
    BY <1>1 DEF Upwards
  <2>2. to = Step(Upwards, direction)
    BY <1>4 DEF Advanced
  <2> QED
    BY <2>1, <2>2 DEF Step
<1>5. CASE mode = "Down"
  <2>1. Downwards \in 0 .. size - 1
    BY <1>1 DEF Downwards
  <2>2. to = Step(Downwards, direction)
    BY <1>5 DEF Advanced
  <2> QED
    BY <2>1, <2>2 DEF Step
<1>6. CASE mode \in {"UpDown", "DownUp"}
  <2> DEFINE p == Byte(position + direction)
  <2>1. to = Bounce(p)
    BY <1>6 DEF Advanced
  <2>2. p \in Nat
    BY <1>1 DEF Byte
  <2>3. Byte(size - 2) = size - 2
    BY <1>1 DEF Byte
  <2> HIDE DEF p
  <2>4. CASE p >= size
    BY <1>1, <2>1, <2>2, <2>3, <2>4 DEF Bounce, Step
  <2>5. CASE ~ (p >= size)
    BY <1>1, <2>1, <2>2, <2>5 DEF Bounce, Step
  <2> QED
    BY <2>4, <2>5
<1>7. CASE mode = "Random"
  <2>1. PICK p \in 0 .. size - 1 : to = Step(p, direction)
    BY <1>7 DEF Advanced
  <2> QED
    BY <2>1 DEF Step
<1> QED
  BY <1>2, <1>3, <1>4, <1>5, <1>6, <1>7 DEF AllModes

(* The interrupt moves what sounds and leaves the list alone, wherever it lands; between
   calls it goes from note to note of the list. *)
LEMMA AdvanceKeepsList ==
  ASSUME IndexInv, ListInv, Advance
  PROVE  ListInv'
<1>1. UNCHANGED <<mode, notes, size, pc, chord, next, i, j, t, loads>>
  BY DEF Advance, sorting
<1>2. ListTypes' /\ WhileBuilding' /\ WhileClearing'
  BY <1>1 DEF ListInv, ListTypes, WhileBuilding, WhileClearing, LowNotes, Considered, ListOf,
              Distinct
<1>3. WhileSorting'
  BY <1>1 DEF ListInv, WhileSorting, Intended, Pool, Considered, ListOf, Distinct, SortedUpTo
<1>4. WhenSorted'
  BY <1>1 DEF ListInv, WhenSorted, Pool, Considered, ListOf, Ascending
<1>5. WhileIdle'
  <2> SUFFICES ASSUME pc = "idle"
               PROVE  /\ position' < size /\ Sounding(position)' \in 0 .. size - 1
                      /\ current' = notes[Sounding(position)']
    BY <1>1 DEF WhileIdle, Advance, ListInv, ListTypes
  <2>1. size \in 1 .. 4 /\ position < size /\ position \in 0 .. 3 /\ Slots = 0 .. 3
    BY DEF Advance, ListInv, ListTypes, WhileIdle, Size, IndexInv, IndexInNotes, Slots
  <2>2. Sounding(position)' = Sounding(position')
    BY <1>1 DEF Sounding
  <2>3. CASE size = 1
    <3>1. position' = position /\ current' = notes[0] /\ position = 0
      BY <2>1, <2>3 DEF Advance
    <3>2. Sounding(0) \in 0 .. size - 1
      BY <2>1, PlaceSounds
    <3>3. Sounding(0) = 0
      BY <2>3, <3>2
    <3> QED
      BY <2>2, <2>3, <3>1, <3>3
  <2>4. CASE size # 1
    <3>1. size > 1
      BY <2>1, <2>4
    <3>2. PICK to \in Advanced :
            /\ position' = to.position
            /\ current' = IF Sounding(to.position) \in Slots
                            THEN notes[Sounding(to.position)] ELSE NoNote
      BY <2>4 DEF Advance
    <3>3. position' \in 0 .. size - 1
      BY <2>1, <3>1, <3>2, AdvanceStaysInList
    <3>4. Sounding(position') \in 0 .. size - 1
      BY <2>1, <3>3, PlaceSounds
    <3>5. Sounding(position') \in Slots
      BY <2>1, <3>4
    <3>6. position' < size
      BY <2>1, <3>3
    <3> QED
      BY <2>2, <3>2, <3>4, <3>5, <3>6
  <2> QED
    BY <2>3, <2>4
<1> QED
  BY <1>2, <1>3, <1>4, <1>5 DEF ListInv

(* The last of Reset's assignments: a note of the list sounds, or none. *)
LEMMA ResetNoteKeepsList ==
  ASSUME IndexInv, ListInv, ResetNote
  PROVE  ListInv'
<1>1. /\ pc = "note" /\ pc' = "idle" /\ Placed
      /\ UNCHANGED <<mode, notes, size, chord, next, i, j, t>>
  BY DEF ResetNote, sorting
<1>2. ListTypes'
  BY <1>1 DEF ListInv, ListTypes
<1>3. WhenSorted'
  <2>1. ListOf(notes) = Pool /\ Ascending(notes)
    BY <1>1 DEF ListInv, WhenSorted
  <2>2. ListOf(notes)' = Pool' /\ Ascending(notes)'
    BY <1>1, <2>1 DEF ListOf, Ascending, Pool, Considered
  <2> QED
    BY <2>2 DEF WhenSorted
<1>4. WhileIdle'
  <2>1. CASE size = 0
    <3>1. current' = NoNote
      BY <1>1, <2>1 DEF Placed
    <3> QED
      BY <1>1, <2>1, <3>1 DEF WhileIdle
  <2>2. CASE size # 0
    <3>1. size \in 1 .. 4 /\ size > 0
      BY <2>2 DEF ListInv, ListTypes, Size
    <3>2. /\ position' = IF mode = "Down" THEN size - 1 ELSE 0
          /\ current' = notes[IF mode \in {"Down", "DownUp"} THEN size - 1 ELSE 0]
      BY <1>1, <3>1 DEF Placed
    <3>3. position' \in 0 .. size - 1 /\ position' < size
      BY <3>1, <3>2
    <3>4. Sounding(position)' = Sounding(position')
      BY <1>1 DEF Sounding
    <3>5. Sounding(position') = IF mode \in {"Down", "DownUp"} THEN size - 1 ELSE 0
      <4>1. CASE mode = "Off"
        BY <4>1 DEF Sounding
      <4>2. CASE mode = "DownUp"
        <5>1. Byte(size - 1 - 0) = size - 1
          BY <3>1 DEF Byte
        <5> QED
          BY <3>2, <4>2, <5>1 DEF Sounding
      <4>3. CASE mode \notin {"Off", "DownUp"}
        BY <3>2, <4>3 DEF Sounding
      <4> QED
        BY <4>1, <4>2, <4>3
    <3>6. Sounding(position') \in 0 .. size - 1
      BY <3>1, <3>3, PlaceSounds
    <3> QED
      BY <1>1, <2>2, <3>2, <3>3, <3>4, <3>5, <3>6 DEF WhileIdle
  <2> QED
    BY <2>1, <2>2
<1> QED
  BY <1>1, <1>2, <1>3, <1>4 DEF ListInv, WhileBuilding, WhileSorting, WhileClearing

(* Every step keeps the list. *)
LEMMA NextKeepsList == IndexInv /\ ListInv /\ [Next]_vars => ListInv'
<1> SUFFICES ASSUME IndexInv, ListInv, [Next]_vars PROVE ListInv'
  OBVIOUS
<1> USE DEF WhileBuilding, WhileSorting, WhenSorted, WhileIdle, WhileClearing
<1>1. CASE Advance
  BY <1>1, AdvanceKeepsList
<1>2. CASE Append1
  BY <1>2, AppendKeepsList
<1>3. CASE BeginSort \/ Compare \/ Swap \/ NextPlace \/ EndSort
  BY <1>3, BeginSortKeepsList, CompareKeepsList, SwapKeepsList, NextPlaceKeepsList,
     EndSortKeepsList
<1>4. CASE ResetNote
  BY <1>4, ResetNoteKeepsList
<1>5. CASE LoadNotes
  <2>1. chord' \in Seq(0 .. NoNote)
    BY <1>5, ArpAssumption DEF LoadNotes
  <2> QED
    BY <1>5, <2>1 DEF LoadNotes, ListInv, ListTypes, sorting
<1>6. CASE BuildNoteList
  <2>1. /\ pc' = "append" /\ size' = 0 /\ next' = 1
        /\ UNCHANGED <<notes, chord, i, j, t>>
    BY <1>6 DEF BuildNoteList, sorting
  <2>2. ListTypes'
    BY <2>1 DEF ListInv, ListTypes, Size
  <2>3. Considered' = Considered /\ Considered \in 0 .. 4
    BY <2>1, ConsideredOfChord DEF Considered, ListInv, Size
  <2>4. ListOf(notes)' = {} /\ Distinct(notes)'
    BY <2>1 DEF ListOf, Distinct
  <2>5. LowNotes(next - 1)' = {}
    BY <2>1 DEF LowNotes
  <2> QED
    BY <2>1, <2>2, <2>3, <2>4, <2>5 DEF ListInv
<1>7. CASE ResetPosition \/ ResetDirection
  <2>1. /\ pc \in {"position", "direction"} /\ pc' \in {"direction", "note"}
        /\ UNCHANGED <<notes, size, chord, next, i, j, t>>
    BY <1>7 DEF ResetPosition, ResetDirection, sorting
  <2>2. ListTypes'
    BY <2>1 DEF ListInv, ListTypes
  <2>3. ListOf(notes) = Pool /\ Ascending(notes)
    BY <2>1 DEF ListInv
  <2>4. ListOf(notes)' = Pool' /\ Ascending(notes)'
    BY <2>1, <2>3 DEF ListOf, Ascending, Pool, Considered
  <2> QED
    BY <2>1, <2>2, <2>4 DEF ListInv
<1>8. CASE ClearMode
  <2>1. <<>> \in Seq(0 .. NoNote)
    OBVIOUS
  <2> QED
    BY <1>8, <2>1 DEF ClearMode, ListInv, ListTypes, sorting
<1>9. CASE ClearRest
  <2>1. /\ pc' = "idle" /\ size' = 0 /\ current' = NoNote /\ chord' = <<>>
        /\ notes' = [n \in Slots |-> 0]
        /\ UNCHANGED <<next, i, j, t>>
    BY <1>9 DEF ClearRest, sorting, ListInv
  <2>2. ListTypes'
    BY <2>1 DEF ListInv, ListTypes, Size, NoNote
  <2>3. Pool' = {}
    BY <2>1 DEF Pool, Considered, Size
  <2>4. ListOf(notes)' = {} /\ Ascending(notes)'
    BY <2>1 DEF ListOf, Ascending
  <2> QED
    BY <2>1, <2>2, <2>3, <2>4 DEF ListInv
<1>10. CASE UNCHANGED vars
  <2>1. UNCHANGED <<mode, notes, size, position, direction, current, pc, chord, next, i, j, t>>
    BY <1>10 DEF vars, engine, sorting
  <2>2. ListTypes'
    BY <2>1 DEF ListInv, ListTypes
  <2>3. Pool' = Pool /\ Considered' = Considered /\ \A k : LowNotes(k)' = LowNotes(k)
    BY <2>1 DEF Pool, Considered, LowNotes
  <2>4. /\ ListOf(notes)' = ListOf(notes) /\ ListOf(Intended)' = ListOf(Intended)
        /\ Distinct(notes)' = Distinct(notes) /\ Distinct(Intended)' = Distinct(Intended)
        /\ Ascending(notes)' = Ascending(notes)
    BY <2>1 DEF ListOf, Distinct, Ascending, Intended
  <2>5. \A a, b : SortedUpTo(Intended, a, b)' = SortedUpTo(Intended, a, b)
    BY <2>1 DEF SortedUpTo, Intended
  <2>6. Sounding(position)' = Sounding(position)
    BY <2>1 DEF Sounding
  <2>7. WhileBuilding' /\ WhenSorted' /\ WhileIdle' /\ WhileClearing'
    BY <2>1, <2>3, <2>4, <2>6 DEF ListInv
  <2>8. WhileSorting'
    BY <2>1, <2>3, <2>4, <2>5 DEF ListInv
  <2> QED
    BY <2>2, <2>7, <2>8 DEF ListInv
<1> QED
  BY <1>1, <1>2, <1>3, <1>4, <1>5, <1>6, <1>7, <1>8, <1>9, <1>10 DEF Next, Main

(* The engine starts empty and silent. *)
LEMMA InitList == Init => ListInv
<1> SUFFICES ASSUME Init PROVE ListInv
  OBVIOUS
<1>1. ListTypes
  BY DEF Init, ListTypes, Size, NoNote
<1>2. Pool = {} /\ ListOf(notes) = {} /\ Ascending(notes)
  BY DEF Init, Pool, Considered, Size, ListOf, Ascending
<1> QED
  BY <1>1, <1>2 DEF Init, ListInv, WhileBuilding, WhileSorting, WhenSorted, WhileIdle,
                    WhileClearing

(* A list that ascends has as many places as it lists notes. *)
LEMMA AscendingListCounts ==
  ASSUME ListTypes, NEW f, Ascending(f), \A n \in 0 .. size - 1 : f[n] \in Int
  PROVE  size = Cardinality(ListOf(f))
<1> DEFINE count == [k \in 1 .. size |-> f[k - 1]]
<1>1. size \in Nat
  BY DEF ListTypes, Size
<1>2. count \in [1 .. size -> ListOf(f)]
  BY <1>1 DEF ListOf
<1>3. \A a, b \in 1 .. size : count[a] = count[b] => a = b
  <2> SUFFICES ASSUME NEW a \in 1 .. size, NEW b \in 1 .. size, count[a] = count[b], a # b
               PROVE  FALSE
    OBVIOUS
  <2>1. a - 1 \in 0 .. size - 1 /\ b - 1 \in 0 .. size - 1 /\ (a < b \/ b < a)
    BY <1>1
  <2>2. f[a - 1] < f[b - 1] \/ f[b - 1] < f[a - 1]
    BY <1>1, <2>1 DEF Ascending
  <2>3. f[a - 1] = f[b - 1] /\ f[a - 1] \in Int
    BY <2>1
  <2> QED
    BY <2>2, <2>3
<1>4. \A note \in ListOf(f) : \E a \in 1 .. size : count[a] = note
  <2> SUFFICES ASSUME NEW n \in 0 .. size - 1 PROVE \E a \in 1 .. size : count[a] = f[n]
    BY DEF ListOf
  <2>1. n + 1 \in 1 .. size /\ count[n + 1] = f[n]
    BY <1>1
  <2> QED
    BY <2>1
<1>5. count \in Bijection(1 .. size, ListOf(f))
  BY <1>2, <1>3, <1>4 DEF Bijection, Injection, Surjection, IsInjective
<1>6. ExistsBijection(1 .. size, ListOf(f))
  BY <1>5 DEF ExistsBijection
<1> QED
  BY <1>1, <1>6, FS_CountingElements

(* The invariant says what HoldsChord promises. *)
LEMMA ListImpliesHoldsChord == ListInv => HoldsChord
<1> SUFFICES ASSUME ListInv, pc = "idle"
             PROVE  /\ size = Cardinality(Pool) /\ Listed = Pool
                    /\ Ascending(notes)
                    /\ IF Pool = {} THEN current = NoNote ELSE current \in Pool /\ position < size
  BY DEF HoldsChord, Ascending
<1>1. ListTypes /\ ListOf(notes) = Pool /\ Ascending(notes)
  BY DEF ListInv, WhenSorted
<1>2. size \in 0 .. 4 /\ \A n \in 0 .. size - 1 : notes[n] \in Int
  <2>1. size \in 0 .. 4 /\ Slots = 0 .. 3 /\ notes \in [Slots -> 0 .. 255]
    BY DEF ListInv, ListTypes, Slots, Size, NoNote
  <2> QED
    BY <2>1
<1>3. size = Cardinality(Pool)
  BY <1>1, <1>2, AscendingListCounts
<1>4. Listed = Pool
  BY <1>1 DEF ListOf, Listed
<1>5. CASE size = 0
  BY <1>1, <1>3, <1>4, <1>5 DEF ListInv, WhileIdle, Listed
<1>6. CASE size # 0
  <2>1. current = notes[Sounding(position)] /\ Sounding(position) \in 0 .. size - 1 /\ position < size
    BY <1>6 DEF ListInv, WhileIdle
  <2>2. current \in Pool
    BY <1>1, <2>1 DEF ListOf
  <2> QED
    BY <1>1, <1>3, <1>4, <2>1, <2>2
<1> QED
  BY <1>5, <1>6

(* Between calls the engine holds the notes of the chord loaded last, each once and
   ascending, and sounds one of them, whatever the interrupt saw of the load. *)
THEOREM EngineHoldsChord == Spec => []HoldsChord
<1>1. Init => IndexInv
  BY DEF Init, IndexInv, IndexInNotes, ListGrowsSlowly, AllModes, Slots, Size
<1> QED
  BY <1>1, InitList, NextKeepsIndex, NextKeepsList, ListImpliesHoldsChord, PTL DEF Spec

(* A bounce never stays where it is in a list of three notes or more. *)
LEMMA BounceMoves ==
  ASSUME size \in 3 .. 4, position \in 0 .. size - 1, direction \in {-1, 1}
  PROVE  LET p == Byte(position + direction)
         IN  Bounce(p).position \in 0 .. size - 1 /\ Bounce(p).position # position
<1> DEFINE p == Byte(position + direction)
<1>1. Byte(size - 2) = size - 2
  BY DEF Byte
<1>2. p = IF position + direction < 0 THEN 255 ELSE position + direction
  BY DEF Byte
<1> HIDE DEF p
<1>3. Bounce(p).position \in 0 .. size - 1 /\ Bounce(p).position # position
  <2>1. CASE p >= size
    <3>1. Bounce(p).position = size - 2
      BY <1>1, <2>1 DEF Bounce, Step
    <3>2. position # size - 2
      BY <1>2, <2>1
    <3> QED
      BY <3>1, <3>2
  <2>2. CASE p < size
    <3>1. Bounce(p).position = p
      BY <1>2, <2>2 DEF Bounce, Step
    <3>2. p \in 0 .. size - 1 /\ p # position
      BY <1>2, <2>2
    <3> QED
      BY <3>1, <3>2
  <2> QED
    BY <1>2, <2>1, <2>2
<1> QED
  BY <1>3 DEF p

(* Different places of an ascending list sound different notes. *)
LEMMA PlacesSoundApart ==
  ASSUME size \in 1 .. 4, Ascending(notes), \A n \in 0 .. size - 1 : notes[n] \in Int,
         NEW p \in 0 .. size - 1, NEW q \in 0 .. size - 1, p # q, mode \in {"UpDown", "DownUp"}
  PROVE  notes[Sounding(p)] # notes[Sounding(q)]
<1>1. Sounding(p) \in 0 .. size - 1 /\ Sounding(q) \in 0 .. size - 1
  BY PlaceSounds
<1>2. Sounding(p) # Sounding(q)
  <2>1. CASE mode = "UpDown"
    BY <2>1 DEF Sounding
  <2>2. CASE mode = "DownUp"
    <3>1. Byte(size - 1 - p) = size - 1 - p /\ Byte(size - 1 - q) = size - 1 - q
      BY DEF Byte
    <3>2. Sounding(p) = size - 1 - p /\ Sounding(q) = size - 1 - q
      BY <2>2, <3>1 DEF Sounding
    <3> QED
      BY <3>2
  <2> QED
    BY <2>1, <2>2
<1>3. notes[Sounding(p)] < notes[Sounding(q)] \/ notes[Sounding(q)] < notes[Sounding(p)]
  <2>1. Sounding(p) < Sounding(q) \/ Sounding(q) < Sounding(p)
    BY <1>1, <1>2
  <2> QED
    BY <1>1, <2>1 DEF Ascending
<1> QED
  BY <1>1, <1>3

(* An event between calls goes on to another note. *)
LEMMA BounceChangesNote ==
  ASSUME IndexInv, ListInv, Advance, pc = "idle", mode \in {"UpDown", "DownUp"}, size > 2
  PROVE  current' # current
<1>1. size \in 3 .. 4 /\ position \in 0 .. size - 1 /\ direction \in {-1, 1} /\ Slots = 0 .. 3
  BY DEF ListInv, ListTypes, WhileIdle, Size, IndexInv, IndexInNotes, Slots
<1>2. \A n \in 0 .. size - 1 : notes[n] \in Int
  BY <1>1 DEF ListInv, ListTypes, NoNote
<1>3. current = notes[Sounding(position)] /\ Ascending(notes)
  BY <1>1 DEF ListInv, WhileIdle, WhenSorted
<1> DEFINE to == Bounce(Byte(position + direction)).position
<1>4. to \in 0 .. size - 1 /\ to # position
  BY <1>1, BounceMoves
<1>5. current' = IF Sounding(to) \in Slots THEN notes[Sounding(to)] ELSE NoNote
  <2>1. Advanced = {Bounce(Byte(position + direction))}
    BY DEF Advanced
  <2> QED
    BY <1>1, <2>1 DEF Advance
<1> HIDE DEF to
<1>6. Sounding(to) \in Slots
  BY <1>1, <1>4, PlaceSounds
<1>7. notes[Sounding(to)] # notes[Sounding(position)]
  BY <1>1, <1>2, <1>3, <1>4, PlacesSoundApart
<1> QED
  BY <1>3, <1>5, <1>6, <1>7

(* With three notes or four UpDown and DownUp sound no note twice in a row, from the
   first event after a load on, also if an event fell into the load. *)
THEOREM EndpointsSoundOnce == Spec => NoEndpointTwice
<1>1. Init => IndexInv
  BY DEF Init, IndexInv, IndexInNotes, ListGrowsSlowly, AllModes, Slots, Size
<1>2. IndexInv /\ ListInv /\ [Next]_vars =>
        [Advance /\ pc = "idle" /\ mode \in {"UpDown", "DownUp"} /\ size > 2
           => current' # current]_vars
  BY BounceChangesNote
<1> QED
  BY <1>1, <1>2, InitList, NextKeepsIndex, NextKeepsList, PTL DEF Spec, NoEndpointTwice
=============================================================================
