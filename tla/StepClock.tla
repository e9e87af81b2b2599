------------------------------ MODULE StepClock ------------------------------
(***************************************************************************)
(* The musical step clock: the 96 PPQN interrupt (TIM1, uClock, then       *)
(* SequencerDevice::TickMusical) counts ticks and queues the steps that    *)
(* fall due; the main loop takes one queued step per pass and advances the *)
(* step engine.  Both sides touch pending_step_events_ and                 *)
(* musical_ticks_accum_; only the dequeue runs with interrupts disabled.   *)
(*                                                                         *)
(* The main context is split wherever the interrupt can get in between two *)
(* of its accesses to shared state; the interrupt itself has priority 0    *)
(* and is one step.  AdvanceStep is abstracted to what this component can  *)
(* see of it: it may stop the transport, and it may move playback to a     *)
(* pattern with another division (StepEngine models it in full).           *)
(***************************************************************************)
EXTENDS Naturals

CONSTANTS
  TicksPerQuarter,  (* 96 in the firmware                                  *)
  Divisions,        (* step divisions of a pattern: {1, 2, 4, 8}           *)
  MaxTicks          (* bound: clock interrupts in a behaviour              *)

ASSUME ClockAssumption ==
  /\ TicksPerQuarter \in Nat \ {0}
  /\ Divisions \subseteq 1 .. TicksPerQuarter
  /\ Divisions # {}
  /\ MaxTicks \in Nat

VARIABLES
  playing,      (* playing_                                                *)
  division,     (* PlayPattern().step_division                             *)
  stepTicks,    (* musical_step_ticks_                                     *)
  accum,        (* musical_ticks_accum_                                    *)
  pending,      (* pending_step_events_                                    *)
  tickCount,    (* tick_musical_count_                                     *)
  enqueueCount, (* pending_step_enqueue_count_                             *)
  serviceCount, (* service_one_step_count_                                 *)
  maxPending,   (* max_pending_step_events_                                *)
  backlogCount, (* pending_step_backlog_count_                             *)
  primask,      (* PRIMASK: 1 while interrupts are disabled                 *)
  pc,           (* where the main context is                               *)
  count,        (* local of ServiceOnePendingStep                          *)
  \* History variables.
  gridTicks,    (* ticks counted since musical_ticks_accum_ was cleared    *)
  spent,        (* those of them that steps queued since then account for  *)
  runQueued,    (* steps queued since Start or Reset was last entered      *)
  discarded     (* steps Start and Reset cleared unplayed                  *)

diagnostics == <<maxPending, backlogCount>>
counters    == <<tickCount, enqueueCount, serviceCount>>
history     == <<gridTicks, spent, runQueued, discarded>>
vars == <<playing, division, stepTicks, accum, pending, counters, diagnostics,
          primask, pc, count, history>>

Points == {"service", "dequeue", "advance", "ui",
           "startAccum", "startQueue", "resetQueue", "recalc"}

(* SequencerDevice::RecalculateStepTicks. *)
StepTicksOf(d) == TicksPerQuarter \div d

Init ==
  /\ playing = FALSE
  /\ division \in Divisions
  /\ stepTicks = StepTicksOf(division)
  /\ accum = 0 /\ pending = 0
  /\ tickCount = 0 /\ enqueueCount = 0 /\ serviceCount = 0
  /\ maxPending = 0 /\ backlogCount = 0
  /\ primask = 0 /\ pc = "service" /\ count = 0
  /\ gridTicks = 0 /\ spent = 0 /\ runQueued = 0 /\ discarded = 0

-----------------------------------------------------------------------------
(* The clock interrupt. *)

(* The body of TickMusical's while loop, run to its end: how many whole steps
   are in the accumulator, and what is left of it.  More than one step can fall
   due when the step length just shrank. *)
StepsDue(ticks) == ticks \div stepTicks

LeftOverCleared(ticks) == IF ticks < stepTicks THEN ticks ELSE 0   \* mutant
LeftOver(ticks) == ticks % stepTicks

TickMusical ==
  /\ primask = 0
  /\ tickCount < MaxTicks
  /\ tickCount' = tickCount + 1
  /\ IF playing
       THEN LET due == StepsDue(accum + 1) IN
            /\ accum' = LeftOver(accum + 1)
            /\ pending' = pending + due
            /\ enqueueCount' = enqueueCount + due
            /\ gridTicks' = gridTicks + 1
            /\ spent' = spent + due * stepTicks
            /\ runQueued' = runQueued + due
       ELSE UNCHANGED <<accum, pending, enqueueCount, gridTicks, spent, runQueued>>
  /\ UNCHANGED <<playing, division, stepTicks, serviceCount, diagnostics,
                 primask, pc, count, discarded>>

-----------------------------------------------------------------------------
(* The main loop: first Bridge_ServiceMusicalEvents, then the UI. *)

(* Bridge_ServiceMusicalEvents returns at once while the transport is stopped. *)
ServiceIdle ==
  /\ pc = "service" /\ ~playing
  /\ pc' = "ui"
  /\ UNCHANGED <<playing, division, stepTicks, accum, pending, counters,
                 diagnostics, primask, count, history>>

DisableIrqOmitted == primask' = 0   \* mutant
DisableIrq == primask' = 1

(* ServiceOnePendingStep: interrupts off, then the queue length is read. *)
DequeueRead ==
  /\ pc = "service" /\ playing
  /\ DisableIrq
  /\ count' = pending
  /\ pc' = "dequeue"
  /\ UNCHANGED <<playing, division, stepTicks, accum, pending, counters,
                 diagnostics, history>>

DequeueEmptyOnLast ==   \* mutant
  /\ pc = "dequeue" /\ count <= 1
  /\ primask' = 0
  /\ pc' = "ui"
  /\ UNCHANGED <<playing, division, stepTicks, accum, pending, counters,
                 diagnostics, count, history>>

DequeueEmpty ==
  /\ pc = "dequeue" /\ count = 0
  /\ primask' = 0
  /\ pc' = "ui"
  /\ UNCHANGED <<playing, division, stepTicks, accum, pending, counters,
                 diagnostics, count, history>>

DequeueWrite ==
  /\ pc = "dequeue" /\ count > 0
  /\ maxPending' = IF count > maxPending THEN count ELSE maxPending
  /\ backlogCount' = IF count > 1 THEN backlogCount + 1 ELSE backlogCount
  /\ pending' = count - 1
  /\ primask' = 0
  /\ pc' = "advance"
  /\ UNCHANGED <<playing, division, stepTicks, accum, counters, count, history>>

(* AdvanceStep, as far as this component sees it. *)
Advance ==
  /\ pc = "advance"
  /\ serviceCount' = serviceCount + 1
  /\ playing' \in BOOLEAN
  /\ division' \in Divisions
  /\ pc' = "ui"
  /\ UNCHANGED <<stepTicks, accum, pending, tickCount, enqueueCount,
                 diagnostics, primask, count, history>>

(* A main-loop pass in which the UI leaves the transport alone. *)
UiIdle ==
  /\ pc = "ui"
  /\ pc' = "service"
  /\ UNCHANGED <<playing, division, stepTicks, accum, pending, counters,
                 diagnostics, primask, count, history>>

(* Start: playing_ goes up first, with the accumulator and the queue of the
   run before still in place. *)
Start ==
  /\ pc = "ui" /\ ~playing
  /\ playing' = TRUE
  /\ runQueued' = 0
  /\ pc' = "startAccum"
  /\ UNCHANGED <<division, stepTicks, accum, pending, counters, diagnostics,
                 primask, count, gridTicks, spent, discarded>>

(* Reset leaves playing_ as it is. *)
Reset ==
  /\ pc = "ui"
  /\ accum' = 0 /\ gridTicks' = 0 /\ spent' = 0 /\ runQueued' = 0
  /\ pc' = "resetQueue"
  /\ UNCHANGED <<playing, division, stepTicks, pending, counters, diagnostics,
                 primask, count, discarded>>

StartAccum ==
  /\ pc = "startAccum"
  /\ accum' = 0 /\ gridTicks' = 0 /\ spent' = 0
  /\ pc' = "startQueue"
  /\ UNCHANGED <<playing, division, stepTicks, pending, counters, diagnostics,
                 primask, count, runQueued, discarded>>

ClearQueueTo(events) ==
  /\ pc \in {"startQueue", "resetQueue"}
  /\ pending' = events
  /\ discarded' = discarded + pending - events
  /\ maxPending' = 0 /\ backlogCount' = 0
  /\ pc' = "recalc"
  /\ UNCHANGED <<playing, division, stepTicks, accum, counters, primask, count,
                 gridTicks, spent, runQueued>>

ClearQueue == ClearQueueTo(0)

(* The end of Start and Reset: the pattern to play is chosen, then
   RecalculateStepTicks. *)
Recalculate ==
  /\ pc = "recalc"
  /\ division' \in Divisions
  /\ stepTicks' = StepTicksOf(division')
  /\ pc' = "service"
  /\ UNCHANGED <<playing, accum, pending, counters, diagnostics, primask, count,
                 history>>

Stop ==
  /\ pc = "ui" /\ playing
  /\ playing' = FALSE
  /\ pc' = "service"
  /\ UNCHANGED <<division, stepTicks, accum, pending, counters, diagnostics,
                 primask, count, history>>

(* SetPatternTiming and SetBpm: the step length changes under a running clock;
   the accumulator is kept. *)
SetPatternTiming ==
  /\ pc = "ui"
  /\ division' \in Divisions
  /\ stepTicks' = StepTicksOf(division')
  /\ pc' = "service"
  /\ UNCHANGED <<playing, accum, pending, counters, diagnostics, primask, count,
                 history>>

Main ==
  \/ ServiceIdle \/ DequeueRead \/ DequeueEmpty \/ DequeueWrite \/ Advance
  \/ UiIdle \/ Start \/ StartAccum \/ Reset \/ ClearQueue \/ Recalculate
  \/ Stop \/ SetPatternTiming

Next == TickMusical \/ Main

Spec == Init /\ [][Next]_vars

(* The main loop never ends, and nothing it calls here blocks. *)
FairSpec == Spec /\ WF_vars(Main)

-----------------------------------------------------------------------------
(* Every field keeps its type, and the accumulator stays below a quarter note. *)
TypeOK ==
  /\ playing \in BOOLEAN
  /\ division \in Divisions
  /\ stepTicks \in 1 .. TicksPerQuarter
  /\ accum \in 0 .. TicksPerQuarter - 1
  /\ pending \in Nat /\ tickCount \in Nat /\ enqueueCount \in Nat
  /\ serviceCount \in Nat /\ maxPending \in Nat /\ backlogCount \in Nat
  /\ count \in Nat /\ gridTicks \in Nat /\ spent \in Nat
  /\ runQueued \in Nat /\ discarded \in Nat
  /\ primask \in {0, 1}
  /\ pc \in Points

(* The step being played: dequeued, and not yet counted by AdvanceStep. *)
InFlight == IF pc = "advance" THEN 1 ELSE 0

(* Every step the interrupt queued has been played, is being played, is still
   queued, or was dropped by Start or Reset: none is lost to an interrupt that
   lands inside the dequeue (sequencer_device.cpp:1610-1630), and none is
   played twice. *)
NoStepLost == enqueueCount = serviceCount + InFlight + pending + discarded

(* The grid does not drift: the ticks counted since the accumulator was cleared
   are the ones queued steps stand for plus the ones still in the accumulator,
   whatever the step length was changed to in between. *)
NoTickLost == gridTicks = spent + accum

(* Once Start or Reset is over, every queued step fell due after it: a run
   never plays what an earlier run left in the queue (Stop leaves it there). *)
QueueBelongsToRun ==
  pc \in {"service", "ui"} /\ playing => pending <= runQueued

(* What the queue of steps is worth at any moment: nothing lost, doubled or carried
   over from the run before. *)
QueueIsSound == NoStepLost /\ NoTickLost /\ QueueBelongsToRun

(* A backlog is played or dropped once the clock stops outrunning the main
   loop; nothing in the main loop can park it while the transport runs. *)
BacklogDrains == (playing /\ pending > 0) ~> (pending = 0 \/ ~playing)

-----------------------------------------------------------------------------
(* The atomic queue this component implements. *)
Queue == INSTANCE StepQueue
           WITH queued  <- pending,
                played  <- serviceCount + InFlight,
                dropped <- discarded

(* Of the queue, the main loop and the interrupt together do no more than the
   atomic one allows: a step falls due, is played or is dropped, each once. *)
ImplementsQueue == Queue!QSpec
=============================================================================
