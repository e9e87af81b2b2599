------------------------------ MODULE StepQueue ------------------------------
(***************************************************************************)
(* What the musical step queue promises, with every operation atomic: the  *)
(* clock interrupt adds steps that fell due, the main loop plays one at a  *)
(* time, and starting or resetting the transport drops what is queued.     *)
(*                                                                         *)
(* External view only; StepClock is the detailed specification.            *)
(***************************************************************************)
EXTENDS Naturals

VARIABLES
  queued,   (* steps that fell due and were not played yet                 *)
  played,   (* steps handed to the step engine so far                      *)
  dropped   (* steps thrown away by Start or Reset so far                  *)

qvars == <<queued, played, dropped>>

QInit == queued = 0 /\ played = 0 /\ dropped = 0

(* One clock interrupt: one or more steps fell due. *)
Due ==
  /\ queued' \in Nat /\ queued' > queued
  /\ UNCHANGED <<played, dropped>>

(* The main loop takes exactly one of the queued steps. *)
Play ==
  /\ queued > 0
  /\ queued' = queued - 1
  /\ played' = played + 1
  /\ UNCHANGED dropped

(* Start and Reset empty the queue. *)
Drop ==
  /\ dropped' = dropped + queued
  /\ queued' = 0
  /\ UNCHANGED played

QNext == Due \/ Play \/ Drop

QSpec == QInit /\ [][QNext]_qvars
=============================================================================
