--------------------------- MODULE StepClockProofs ---------------------------
(***************************************************************************)
(* For every tempo grid, every set of divisions and any number of clock     *)
(* interrupts: StepClock is type-correct, loses and repeats no step, and    *)
(* implements the atomic queue of StepQueue.                                *)
(***************************************************************************)
EXTENDS StepClock, TLAPS

(* What the critical section gives the main loop: interrupts are off exactly
   between its read and its write of the queue length, so the length it read is
   still the queue's. *)
CriticalSection ==
  /\ primask = 1 <=> pc = "dequeue"
  /\ pc = "dequeue" => count = pending

(* After Start or Reset cleared the queue, what is queued was queued since. *)
CleanQueue ==
  pc \notin {"startAccum", "startQueue", "resetQueue"} => pending <= runQueued

IInv == TypeOK /\ CriticalSection /\ NoStepLost /\ CleanQueue

-----------------------------------------------------------------------------
(* A step length is between one tick and a quarter note, whatever the
   division (RecalculateStepTicks). *)
LEMMA StepTicksInRange ==
  ASSUME NEW d \in Divisions
  PROVE  StepTicksOf(d) \in 1 .. TicksPerQuarter
<1>1. d \in Nat /\ 1 <= d /\ d <= TicksPerQuarter /\ TicksPerQuarter \in Nat
  BY ClockAssumption
<1> QED BY <1>1, SMTT(30) DEF StepTicksOf

(* The accumulator's while loop is a division with remainder: nothing is lost
   and less than a step is left (TickMusical). *)
LEMMA TicksSplit ==
  ASSUME stepTicks \in Nat \ {0}, NEW ticks \in Nat
  PROVE  /\ StepsDue(ticks) \in Nat
         /\ LeftOver(ticks) \in 0 .. stepTicks - 1
         /\ ticks = StepsDue(ticks) * stepTicks + LeftOver(ticks)
  BY SMTT(30) DEF StepsDue, LeftOver

(* The initial state satisfies the inductive invariant. *)
LEMMA InitEstablishes == Init => IInv
<1> SUFFICES ASSUME Init PROVE IInv
  OBVIOUS
<1>1. stepTicks \in 1 .. TicksPerQuarter /\ TicksPerQuarter \in Nat
  BY StepTicksInRange, ClockAssumption DEF Init
<1>2. TypeOK
  <2>1. playing \in BOOLEAN /\ primask \in {0, 1}
    BY DEF Init
  <2>2. stepTicks \in 1 .. TicksPerQuarter /\ accum \in 0 .. TicksPerQuarter - 1
    BY <1>1 DEF Init
  <2>3. pc \in Points /\ division \in Divisions
    BY DEF Init, Points
  <2> QED
    BY <2>1, <2>2, <2>3 DEF Init, TypeOK
<1>3. CriticalSection /\ NoStepLost /\ CleanQueue
  BY DEF Init, CriticalSection, NoStepLost, CleanQueue, InFlight
<1> QED
  BY <1>2, <1>3 DEF IInv

(* The clock interrupt preserves the invariant: it runs only with interrupts
   enabled, so never between the main loop's read and write of the queue. *)
LEMMA TickPreserves == IInv /\ TickMusical => IInv'
<1> SUFFICES ASSUME IInv, TickMusical PROVE IInv'
  OBVIOUS
<1> USE DEF IInv
<1>1. /\ primask = 0 /\ pc # "dequeue" /\ pc' = pc /\ count' = count
      /\ tickCount' = tickCount + 1
      /\ UNCHANGED <<playing, division, stepTicks, serviceCount, maxPending,
                     backlogCount, primask, discarded>>
  BY DEF TickMusical, diagnostics, CriticalSection
<1>2. CriticalSection'
  BY <1>1 DEF CriticalSection
<1>3. CASE playing
  <2> DEFINE due == StepsDue(accum + 1)
  <2>1. /\ due \in Nat /\ LeftOver(accum + 1) \in 0 .. stepTicks - 1
        /\ due * stepTicks \in Nat
    <3>1. stepTicks \in Nat \ {0} /\ accum + 1 \in Nat
      BY ClockAssumption DEF TypeOK
    <3>2. due \in Nat /\ LeftOver(accum + 1) \in 0 .. stepTicks - 1
      BY <3>1, TicksSplit
    <3> QED
      BY <3>1, <3>2
  <2>2. /\ accum' = LeftOver(accum + 1) /\ pending' = pending + due
        /\ enqueueCount' = enqueueCount + due /\ gridTicks' = gridTicks + 1
        /\ spent' = spent + due * stepTicks /\ runQueued' = runQueued + due
    BY <1>3 DEF TickMusical
  <2> HIDE DEF due
  <2>3. TypeOK'
    BY <1>1, <2>1, <2>2, ClockAssumption DEF TypeOK
  <2>4. NoStepLost' /\ CleanQueue'
    BY <1>1, <2>1, <2>2 DEF TypeOK, NoStepLost, CleanQueue, InFlight
  <2> QED
    BY <1>2, <2>3, <2>4
<1>4. CASE ~playing
  <2>1. UNCHANGED <<accum, pending, enqueueCount, gridTicks, spent, runQueued>>
    BY <1>4 DEF TickMusical
  <2>2. TypeOK' /\ NoStepLost' /\ CleanQueue'
    BY <1>1, <2>1 DEF TypeOK, NoStepLost, CleanQueue, InFlight
  <2> QED
    BY <1>2, <2>2
<1> QED
  BY <1>3, <1>4

(* Every step of the main loop preserves the invariant. *)
LEMMA MainPreserves == IInv /\ Main => IInv'
<1> SUFFICES ASSUME IInv, Main PROVE IInv'
  OBVIOUS
<1> USE DEF IInv, counters, diagnostics, history
<1>1. CASE ServiceIdle
  BY <1>1 DEF ServiceIdle, TypeOK, Points, CriticalSection, NoStepLost, CleanQueue, InFlight
<1>2. CASE DequeueRead
  BY <1>2 DEF DequeueRead, DisableIrq, TypeOK, Points, CriticalSection, NoStepLost, CleanQueue, InFlight
<1>3. CASE DequeueEmpty
  BY <1>3 DEF DequeueEmpty, TypeOK, Points, CriticalSection, NoStepLost, CleanQueue, InFlight
<1>4. CASE DequeueWrite
  <2>1. count = pending /\ count > 0 /\ pending' = pending - 1
        /\ maxPending' \in Nat /\ backlogCount' \in Nat
    BY <1>4 DEF DequeueWrite, CriticalSection, TypeOK
  <2> QED
    BY <1>4, <2>1 DEF DequeueWrite, TypeOK, Points, CriticalSection, NoStepLost, CleanQueue, InFlight
<1>5. CASE Advance
  <2>1. TypeOK'
    BY <1>5 DEF Advance, TypeOK, Points
  <2>2. CriticalSection' /\ NoStepLost' /\ CleanQueue'
    BY <1>5 DEF Advance, TypeOK, CriticalSection, NoStepLost, CleanQueue, InFlight
  <2> QED
    BY <2>1, <2>2
<1>6. CASE UiIdle
  BY <1>6 DEF UiIdle, TypeOK, Points, CriticalSection, NoStepLost, CleanQueue, InFlight
<1>7. CASE Start
  BY <1>7 DEF Start, TypeOK, Points, CriticalSection, NoStepLost, CleanQueue, InFlight
<1>8. CASE StartAccum
  BY <1>8, ClockAssumption DEF StartAccum, TypeOK, Points, CriticalSection, NoStepLost, CleanQueue, InFlight
<1>9. CASE Reset
  BY <1>9, ClockAssumption DEF Reset, TypeOK, Points, CriticalSection, NoStepLost, CleanQueue, InFlight
<1>10. CASE ClearQueue
  BY <1>10 DEF ClearQueue, ClearQueueTo, TypeOK, Points, CriticalSection, NoStepLost, CleanQueue, InFlight
<1>11. CASE Recalculate
  <2>1. division' \in Divisions /\ stepTicks' \in 1 .. TicksPerQuarter
    BY <1>11, StepTicksInRange DEF Recalculate
  <2> QED
    BY <1>11, <2>1 DEF Recalculate, TypeOK, Points, CriticalSection, NoStepLost, CleanQueue, InFlight
<1>12. CASE Stop
  BY <1>12 DEF Stop, TypeOK, Points, CriticalSection, NoStepLost, CleanQueue, InFlight
<1>13. CASE SetPatternTiming
  <2>1. division' \in Divisions /\ stepTicks' \in 1 .. TicksPerQuarter
    BY <1>13, StepTicksInRange DEF SetPatternTiming
  <2> QED
    BY <1>13, <2>1 DEF SetPatternTiming, TypeOK, Points, CriticalSection, NoStepLost, CleanQueue, InFlight
<1> QED
  BY <1>1, <1>2, <1>3, <1>4, <1>5, <1>6, <1>7, <1>8, <1>9, <1>10, <1>11,
     <1>12, <1>13 DEF Main

(* The inductive invariant holds in every state of every behaviour. *)
LEMMA Inductive == Spec => []IInv
<1>1. IInv /\ [Next]_vars => IInv'
  <2> SUFFICES ASSUME IInv, [Next]_vars PROVE IInv'
    OBVIOUS
  <2>1. CASE UNCHANGED vars
    BY <2>1 DEF vars, counters, diagnostics, history, IInv, TypeOK,
                CriticalSection, NoStepLost, CleanQueue, InFlight
  <2> QED
    BY <2>1, TickPreserves, MainPreserves DEF Next
<1> QED
  BY <1>1, InitEstablishes, PTL DEF Spec

-----------------------------------------------------------------------------
(* Every state of the clock is well formed; in particular the step length is
   never zero, so the interrupt's while loop terminates. *)
THEOREM TypeCorrect == Spec => []TypeOK
  BY Inductive, PTL DEF IInv

(* No step is lost to, or played twice because of, an interrupt that lands in
   the dequeue (ServiceOnePendingStep). *)
THEOREM StepsConserved == Spec => []NoStepLost
  BY Inductive, PTL DEF IInv

(* After Start or Reset, no step of an earlier run is played. *)
THEOREM QueueIsClean == Spec => []QueueBelongsToRun
<1>1. IInv => QueueBelongsToRun
  BY DEF IInv, CleanQueue, QueueBelongsToRun
<1> QED
  BY <1>1, Inductive, PTL

(* The grid does not drift: at every moment the ticks counted since the
   accumulator was cleared are the ticks queued steps stand for plus the ones
   left over. *)
THEOREM GridConserved == Spec => []NoTickLost
<1>1. Init => NoTickLost
  BY DEF Init, NoTickLost
<1>2. IInv /\ NoTickLost /\ [Next]_vars => NoTickLost'
  <2> SUFFICES ASSUME IInv, NoTickLost, [Next]_vars PROVE NoTickLost'
    OBVIOUS
  <2> USE DEF NoTickLost, counters, diagnostics, history
  <2>1. CASE TickMusical /\ playing
    <3>1. stepTicks \in Nat \ {0} /\ accum + 1 \in Nat /\ spent \in Nat
          /\ gridTicks \in Nat /\ accum \in Nat
      BY ClockAssumption DEF IInv, TypeOK
    <3>2. /\ StepsDue(accum + 1) \in Nat
          /\ LeftOver(accum + 1) \in 0 .. stepTicks - 1
          /\ accum + 1 = StepsDue(accum + 1) * stepTicks + LeftOver(accum + 1)
      BY <3>1, TicksSplit
    <3>3. /\ accum' = LeftOver(accum + 1) /\ gridTicks' = gridTicks + 1
          /\ spent' = spent + StepsDue(accum + 1) * stepTicks
      BY <2>1 DEF TickMusical
    <3>4. ASSUME NEW p \in Nat, p = StepsDue(accum + 1) * stepTicks
          PROVE  gridTicks' = spent' + accum'
      <4>1. accum + 1 = p + accum' /\ spent' = spent + p /\ accum' \in Nat
        BY <3>1, <3>2, <3>3, <3>4
      <4> QED
        BY <3>1, <3>3, <3>4, <4>1
    <3>5. StepsDue(accum + 1) * stepTicks \in Nat
      BY <3>1, <3>2
    <3> QED
      BY <3>4, <3>5
  <2>2. CASE TickMusical /\ ~playing
    BY <2>2 DEF TickMusical
  <2>3. CASE Main
    <3>1. CASE StartAccum \/ Reset
      BY <3>1 DEF StartAccum, Reset
    <3>2. CASE ~(StartAccum \/ Reset)
      <4>1. UNCHANGED <<gridTicks, spent, accum>>
        BY <2>3, <3>2 DEF Main, ServiceIdle, DequeueRead, DequeueEmpty,
              DequeueWrite, Advance, UiIdle, Start, ClearQueue,
              ClearQueueTo, Recalculate, Stop, SetPatternTiming
      <4> QED
        BY <4>1
    <3> QED
      BY <3>1, <3>2
  <2>4. CASE UNCHANGED vars
    BY <2>4 DEF vars
  <2> QED
    BY <2>1, <2>2, <2>3, <2>4 DEF Next
<1> QED
  BY <1>1, <1>2, Inductive, PTL DEF Spec

(* The three laws of the queue of steps together. *)
THEOREM QueueStaysSound == Spec => []QueueIsSound
  BY StepsConserved, GridConserved, QueueIsClean, PTL DEF QueueIsSound

-----------------------------------------------------------------------------
(* The interrupt, the dequeue and the transport calls, with all the points at
   which they can interleave, implement a queue whose operations are atomic. *)
THEOREM RefinesQueue == Spec => ImplementsQueue
<1> USE DEF Queue!qvars, counters, diagnostics, history
<1>1. Init => Queue!QInit
  BY DEF Init, Queue!QInit, InFlight
<1>2. IInv /\ [Next]_vars => [Queue!QNext]_(Queue!qvars)
  <2> SUFFICES ASSUME IInv, [Next]_vars PROVE [Queue!QNext]_(Queue!qvars)
    OBVIOUS
  <2>1. CASE TickMusical /\ playing
    <3>1. stepTicks \in Nat \ {0} /\ accum + 1 \in Nat /\ pending \in Nat
      BY ClockAssumption DEF IInv, TypeOK
    <3>2. StepsDue(accum + 1) \in Nat
      BY <3>1, TicksSplit
    <3>3. pending' = pending + StepsDue(accum + 1)
          /\ UNCHANGED <<serviceCount, pc, discarded>>
      BY <2>1 DEF TickMusical
    <3> QED
      BY <3>1, <3>2, <3>3 DEF Queue!QNext, Queue!Due, InFlight
  <2>2. CASE TickMusical /\ ~playing
    BY <2>2 DEF TickMusical, InFlight
  <2>3. CASE DequeueWrite
    BY <2>3 DEF DequeueWrite, IInv, TypeOK, CriticalSection, InFlight,
                Queue!QNext, Queue!Play
  <2>4. CASE Advance
    BY <2>4 DEF Advance, IInv, TypeOK, InFlight
  <2>5. CASE ClearQueue
    BY <2>5 DEF ClearQueue, ClearQueueTo, IInv, TypeOK, InFlight,
                Queue!QNext, Queue!Drop
  <2>6. CASE \/ ServiceIdle \/ DequeueRead \/ DequeueEmpty \/ UiIdle \/ Start
             \/ StartAccum \/ Reset \/ Recalculate \/ Stop \/ SetPatternTiming
    BY <2>6 DEF ServiceIdle, DequeueRead, DequeueEmpty, UiIdle, Start,
                StartAccum, Reset, Recalculate, Stop, SetPatternTiming, InFlight
  <2>7. CASE UNCHANGED vars
    BY <2>7 DEF vars, InFlight
  <2> QED
    BY <2>1, <2>2, <2>3, <2>4, <2>5, <2>6, <2>7 DEF Next, Main
<1> QED
  BY <1>1, <1>2, Inductive, PTL DEF Spec, ImplementsQueue, Queue!QSpec
=============================================================================
