----------------------------- MODULE GateEngine -----------------------------
(***************************************************************************)
(* The gate: when SequencerDevice raises and lowers it, and what           *)
(* Bridge_Tick1ms makes of it at the gate pins.  Three contexts share its  *)
(* state without a lock:                                                   *)
(*   - the clock interrupt (priority 0), whose arpeggio events retrigger   *)
(*     the gate (TickMusical);                                             *)
(*   - SysTick, which the clock interrupt can interrupt: it ends the gate, *)
(*     performs a delayed retrigger and drives the pins;                   *)
(*   - the main loop, which applies the step reached and runs the          *)
(*     transport keys, and which both interrupts can interrupt.            *)
(* The main context is split at its accesses to what SysTick and the clock *)
(* interrupt write.  Which step is reached is StepEngine's; here it is any *)
(* of the kinds ApplyCurrentStepBehavior tells apart.                      *)
(***************************************************************************)
EXTENDS Naturals

CONSTANTS
  GateLength,   (* gate_length_ms_; at least 5 in the firmware             *)
  MaxEvents     (* bound: arpeggio events in a behaviour                   *)

ASSUME GateAssumption == GateLength \in Nat /\ GateLength > 2 /\ MaxEvents \in Nat

VARIABLES
  ui,         (* s_state of ui_transport.c is not STOPPED                  *)
  playing,    (* playing_                                                  *)
  gateActive, (* gate_active_                                              *)
  elapsed,    (* gate_elapsed_ms_                                          *)
  retrigger,  (* gate_retrigger_pending_                                   *)
  delay,      (* gate_retrigger_delay_ms_                                  *)
  armed,      (* the arpeggio has notes, a mode and a rate                 *)
  step,       (* what was applied last                                     *)
  moved,      (* the play position differs from s_gate_prev_*              *)
  block,      (* s_gate_block_ticks                                        *)
  hold,       (* s_gate_hold_active                                        *)
  pulsed,     (* s_gate_step_pulsed                                        *)
  mask,       (* s_gate_channel_mask is not 0                              *)
  pins,       (* a gate pin is high                                        *)
  gatePc,     (* where the main context is                                 *)
  ret,        (* where it goes when the step is applied or the gate is off *)
  sys,        (* what is left of SysTick: "none" outside it                *)
  events      (* arpeggio events so far, bounded by MaxEvents              *)

gate      == <<gateActive, elapsed, retrigger, delay>>
output    == <<moved, block, hold, pulsed, mask, pins>>
transport == <<ui, playing>>
gateVars == <<transport, gate, armed, step, output, gatePc, ret, sys, events>>

Kinds == {"rest", "onset", "body"}

GateInit ==
  /\ ui = FALSE /\ playing = FALSE
  /\ gateActive = FALSE /\ elapsed = 0 /\ retrigger = FALSE /\ delay = 0
  /\ armed = FALSE /\ step = "stopped"
  /\ moved = TRUE /\ block = 0 /\ hold = FALSE /\ pulsed = FALSE
  /\ mask = FALSE /\ pins = FALSE
  /\ gatePc = "loop" /\ ret = "pins" /\ sys = "none"
  /\ events = 0

-----------------------------------------------------------------------------
GateOn == gateActive' = TRUE /\ elapsed' = 0

GateOff == gateActive' = FALSE /\ elapsed' = IF gateActive THEN 0 ELSE elapsed

(* The clock interrupt: an arpeggio event calls RetriggerGate(1). *)
ArpEvent ==
  /\ playing /\ armed /\ events < MaxEvents
  /\ events' = events + 1
  /\ \/ gateActive /\ GateOff /\ retrigger' = TRUE /\ delay' = 1
     \/ ~gateActive /\ GateOn /\ UNCHANGED <<retrigger, delay>>
  /\ UNCHANGED <<transport, armed, step, output, gatePc, ret, sys>>

-----------------------------------------------------------------------------
(* SysTick: Tick1ms, then the pins. *)

Expired == elapsed + 1 >= GateLength

TickGate ==
  /\ sys = "none"
  /\ IF gateActive /\ Expired THEN GateOff
     ELSE /\ elapsed' = IF gateActive THEN elapsed + 1 ELSE elapsed
          /\ UNCHANGED gateActive
  /\ sys' = "retrigger"
  /\ UNCHANGED <<transport, retrigger, delay, armed, step, output, gatePc, ret, events>>

RetriggerDoneForgotten == GateOn /\ UNCHANGED retrigger   \* mutant
RetriggerDone == GateOn /\ retrigger' = FALSE

TickRetrigger ==
  /\ sys = "retrigger"
  /\ delay' = IF retrigger /\ delay > 0 THEN delay - 1 ELSE delay
  /\ IF retrigger /\ delay' = 0 THEN RetriggerDone
                                ELSE UNCHANGED <<gateActive, elapsed, retrigger>>
  /\ sys' = "pins"
  /\ UNCHANGED <<transport, armed, step, output, gatePc, ret, events>>

(* Bridge_Tick1ms after a change of position keeps the pins low for a tick;
   then they follow the gate, once for each position. *)
BlockLeft == IF moved THEN 1 ELSE IF block > 0 THEN block - 1 ELSE 0

UsedForGood == pulsed   \* mutant
Used == pulsed /\ ~moved

Driven == hold' /\ mask

TickPins ==
  /\ sys = "pins"
  /\ moved' = FALSE
  /\ block' = BlockLeft
  /\ LET held == hold /\ ~moved
         open == block' = 0 /\ gateActive
     IN /\ hold' = (open /\ (held \/ ~Used))
        /\ pulsed' = (Used \/ (open /\ ~held))
  /\ pins' = Driven
  /\ sys' = "none"
  /\ UNCHANGED <<transport, gate, armed, step, mask, gatePc, ret, events>>

SysTick == TickGate \/ TickRetrigger \/ TickPins

-----------------------------------------------------------------------------
(* The main loop.  It runs only outside SysTick. *)

At(point) == sys = "none" /\ gatePc = point

(* ApplyCurrentStepBehavior begins.  "rest" stands for every branch that
   silences: a rest, a skipped bar, no notes, a roll that fails. *)
Apply(kind) ==
  /\ step' = kind
  /\ gatePc' = CASE kind = "rest"  -> "muteGate"
             [] kind = "onset" -> "test"
             [] kind = "body"  -> ret'

(* The silencing branches: the gate first, then the retrigger, then the
   arpeggio. *)
MuteGate ==
  /\ At("muteGate")
  /\ GateOff
  /\ gatePc' = "mutePending"
  /\ UNCHANGED <<transport, retrigger, delay, armed, step, output, ret, sys, events>>

MutePending ==
  /\ At("mutePending")
  /\ retrigger' = FALSE
  /\ gatePc' = "muteDelay"
  /\ UNCHANGED <<transport, gateActive, elapsed, delay, armed, step, output, ret,
                 sys, events>>

MuteDelay ==
  /\ At("muteDelay")
  /\ delay' = 0
  /\ gatePc' = "muteArp"
  /\ UNCHANGED <<transport, gateActive, elapsed, retrigger, armed, step, output,
                 ret, sys, events>>

MuteArp ==
  /\ At("muteArp")
  /\ armed' = FALSE
  /\ gatePc' = ret
  /\ UNCHANGED <<transport, gate, step, output, ret, sys, events>>

(* An event starts: RetriggerGate(1), then the notes are loaded. *)
RetriggerTest ==
  /\ At("test")
  /\ \/ gateActive /\ gatePc' = "gateLow" /\ UNCHANGED <<gateActive, elapsed>>
     \/ ~gateActive /\ gatePc' = "load" /\ GateOn
  /\ UNCHANGED <<transport, retrigger, delay, armed, step, output, ret, sys, events>>

GateLow ==
  /\ At("gateLow")
  /\ GateOff
  /\ gatePc' = "setPending"
  /\ UNCHANGED <<transport, retrigger, delay, armed, step, output, ret, sys, events>>

SetPending ==
  /\ At("setPending")
  /\ retrigger' = TRUE
  /\ gatePc' = "setDelay"
  /\ UNCHANGED <<transport, gateActive, elapsed, delay, armed, step, output, ret,
                 sys, events>>

SetDelay ==
  /\ At("setDelay")
  /\ delay' = 1
  /\ gatePc' = "load"
  /\ UNCHANGED <<transport, gateActive, elapsed, retrigger, armed, step, output,
                 ret, sys, events>>

LoadArp ==
  /\ At("load")
  /\ armed' \in BOOLEAN
  /\ gatePc' = ret
  /\ UNCHANGED <<transport, gate, step, output, ret, sys, events>>

(* Bridge_ServiceMusicalEvents: the step engine moved on ... *)
Service ==
  /\ At("loop") /\ playing
  /\ moved' = TRUE
  /\ ret' = "snapshot"
  /\ \E kind \in Kinds : Apply(kind)
  /\ UNCHANGED <<transport, gate, armed, block, hold, pulsed, mask, pins, sys, events>>

(* ... or stopped the transport: SequencerDevice::Stop. *)
ServiceStops ==
  /\ At("loop") /\ playing
  /\ playing' = FALSE
  /\ moved' = TRUE
  /\ step' = "stopped"
  /\ ret' = "snapshot" /\ gatePc' = "stopPending"
  /\ UNCHANGED <<ui, gate, armed, block, hold, pulsed, mask, pins, sys, events>>

StopPendingKept == UNCHANGED <<retrigger, delay>>   \* mutant
StopPending == retrigger' = FALSE /\ delay' = 0

StopRetrigger ==
  /\ At("stopPending")
  /\ StopPending
  /\ gatePc' = "stopGate"
  /\ UNCHANGED <<transport, gateActive, elapsed, armed, step, output, ret, sys, events>>

StopGate ==
  /\ At("stopGate")
  /\ GateOff
  /\ gatePc' = ret
  /\ UNCHANGED <<transport, retrigger, delay, armed, step, output, ret, sys, events>>

LanesWhenStopped == IF step = "rest" THEN BOOLEAN ELSE {TRUE}   \* mutant
LanesOfStep ==
  IF ~playing THEN {FALSE} ELSE {mask} \cup IF step = "rest" THEN BOOLEAN ELSE {TRUE}

(* Bridge_WriteCurrentStepSnapshot, as far as the gate mask goes.  It stays as
   it is when the step and its notes are those written last; a roll that fails
   leaves the lanes of the step's notes open. *)
Snapshot ==
  /\ At("snapshot")
  /\ mask' \in LanesOfStep
  /\ gatePc' = "loop"
  /\ UNCHANGED <<transport, gate, armed, step, moved, block, hold, pulsed, pins,
                 ret, sys, events>>

PinsForgotten ==
  /\ hold' = FALSE /\ pulsed' = FALSE /\ block' = 0 /\ moved' = TRUE
  /\ UNCHANGED pins

(* The end of Bridge_Stop and Bridge_Reset. *)
ForgetPins ==
  /\ At("pins")
  /\ PinsForgotten
  /\ mask' = FALSE
  /\ gatePc' = "loop"
  /\ UNCHANGED <<transport, gate, armed, step, ret, sys, events>>

(* UI_Transport_PlayStop, when the header says stopped: Bridge_Start.
   SequencerDevice::Start returns at once if the device is playing. *)
Play ==
  /\ At("loop") /\ ~ui
  /\ ui' = TRUE
  /\ PinsForgotten
  /\ playing' = TRUE
  /\ ret' = "snapshot"
  /\ gatePc' = IF playing THEN "snapshot" ELSE "startRetrigger"
  /\ UNCHANGED <<gate, armed, step, mask, sys, events>>

StartRetrigger ==
  /\ At("startRetrigger")
  /\ retrigger' = FALSE /\ delay' = 0
  /\ gatePc' = "startArp"
  /\ UNCHANGED <<transport, gateActive, elapsed, armed, step, output, ret, sys, events>>

(* The first step of a bar is never inside an event. *)
StartArp ==
  /\ At("startArp")
  /\ armed' = FALSE
  /\ \E kind \in {"rest", "onset"} : Apply(kind)
  /\ UNCHANGED <<transport, gate, output, ret, sys, events>>

(* UI_Transport_PlayStop otherwise: Bridge_Stop. *)
Stop ==
  /\ At("loop") /\ ui
  /\ ui' = FALSE
  /\ playing' = FALSE
  /\ ret' = "pins"
  /\ IF playing THEN gatePc' = "stopPending" /\ step' = "stopped"
                ELSE gatePc' = "pins" /\ UNCHANGED step
  /\ UNCHANGED <<gate, armed, output, sys, events>>

(* UI_Transport_Reset: the header says stopped; the device goes on if it was
   playing, and applies the first step either way. *)
Reset ==
  /\ At("loop")
  /\ ui' = FALSE
  /\ armed' = FALSE
  /\ ret' = "pins" /\ gatePc' = "resetRetrigger"
  /\ UNCHANGED <<playing, gate, step, output, sys, events>>

ResetRetrigger ==
  /\ At("resetRetrigger")
  /\ retrigger' = FALSE /\ delay' = 0
  /\ gatePc' = "resetGate"
  /\ UNCHANGED <<transport, gateActive, elapsed, armed, step, output, ret, sys, events>>

ResetGate ==
  /\ At("resetGate")
  /\ GateOff
  /\ \E kind \in {"rest", "onset"} : Apply(kind)
  /\ UNCHANGED <<transport, retrigger, delay, armed, output, ret, sys, events>>

(* An edit of the step that plays, or that is next to play, applies it again;
   SequencerDevice does so whether or not the transport runs. *)
Edit ==
  /\ At("loop")
  /\ ret' = "loop"
  /\ \E kind \in Kinds : Apply(kind)
  /\ UNCHANGED <<transport, gate, armed, output, sys, events>>

InCall ==
  \/ MuteGate \/ MutePending \/ MuteDelay \/ MuteArp
  \/ RetriggerTest \/ GateLow \/ SetPending \/ SetDelay \/ LoadArp
  \/ StopRetrigger \/ StopGate \/ Snapshot \/ ForgetPins
  \/ StartRetrigger \/ StartArp \/ ResetRetrigger \/ ResetGate

MainNext == Service \/ ServiceStops \/ Play \/ Stop \/ Reset \/ Edit \/ InCall

GateNext == ArpEvent \/ SysTick \/ MainNext

GateSpec == GateInit /\ [][GateNext]_gateVars

(* SysTick comes back every millisecond, and a call made in the main loop ends. *)
GateFairSpec == GateSpec /\ WF_gateVars(SysTick) /\ WF_gateVars(InCall)

-----------------------------------------------------------------------------
CallPoints ==
  {"loop", "muteGate", "mutePending", "muteDelay", "muteArp", "test", "gateLow",
   "setPending", "setDelay", "load", "stopPending", "stopGate", "snapshot", "pins",
   "startRetrigger", "startArp", "resetRetrigger", "resetGate"}

(* Every flag keeps its type, and the gate's counter stays below its length. *)
GateTypeOK ==
  /\ ui \in BOOLEAN /\ playing \in BOOLEAN
  /\ gateActive \in BOOLEAN /\ elapsed \in 0 .. GateLength - 1
  /\ retrigger \in BOOLEAN /\ delay \in 0 .. 1
  /\ armed \in BOOLEAN /\ step \in Kinds \cup {"stopped"}
  /\ moved \in BOOLEAN /\ block \in 0 .. 1 /\ hold \in BOOLEAN
  /\ pulsed \in BOOLEAN /\ mask \in BOOLEAN /\ pins \in BOOLEAN
  /\ gatePc \in CallPoints /\ ret \in {"snapshot", "pins", "loop"}
  /\ sys \in {"none", "retrigger", "pins"}
  /\ events \in 0 .. MaxEvents

(* Stop leaves nothing behind that raises the gate again, whichever interrupt
   lands between its steps: neither the gate nor a retrigger survives it. *)
StopIsSilent == gatePc = "loop" /\ step = "stopped" => ~gateActive /\ ~retrigger

(* A gate ends: no retrigger, however it falls among the interrupts, leaves the
   gate high for good, and once the transport is stopped the pins go low. *)
GatesEnd == /\ gateActive ~> ~gateActive
            /\ ~playing ~> (playing \/ ~pins)

(* The gate is to come, or lasts for another two ticks. *)
FreshGate == retrigger \/ (gateActive /\ elapsed + 2 < GateLength)

(* An event that starts raises its pins, unless the main loop acts first: after
   the tick that a change of position blocks, and the gap of the retrigger, a
   tick comes at which the gate is still high. *)
OnsetPulses ==
  (gatePc = "loop" /\ playing /\ step = "onset" /\ mask /\ moved /\ FreshGate)
    ~> (pins \/ gatePc # "loop")

(* Low pins stay low while the transport is stopped, also when an edit or Reset applies a step meanwhile. *)
StoppedStaysLow == [][~playing /\ gatePc = "loop" /\ ~pins => ~pins']_gateVars

(* Stop silences and stays silent, for the gate of the device and for the pins of the
   bridge, whatever an interrupt, an edit or Reset does to either. *)
StopHolds == []StopIsSilent /\ StoppedStaysLow
=============================================================================
