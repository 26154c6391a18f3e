------------------------------ MODULE PhasePlan ------------------------------
(***************************************************************************)
(* What a cyclic OPSD run promises (miles/utils/opsd_cyclic.py): cycles of *)
(* Pi updates on targets of a teacher that sees the worked solution,       *)
(* followed by Opd updates on targets of the same teacher without it.  The *)
(* plan counts updates phase by phase, where the code computes everything  *)
(* from the update's index.                                                *)
(***************************************************************************)
EXTENDS Integers

CONSTANTS Pi, Opd,        \* updates of the two phases
          CycleRefresh,   \* each cycle is taught by the student that enters it
          ResetEachPhase  \* Adam starts afresh in every phase

VARIABLES updates,  \* updates made
          phase,    \* "worked" or "none"
          done,     \* updates made in this phase
          teacher,  \* the student version that teaches this cycle
          last      \* what the last update was made from

planVars == <<updates, phase, done, teacher, last>>

Original == -1
NoUpdate == [context |-> "none", teacher |-> Original, student |-> 0, rollout |-> 0, adam |-> 0]

PlanInit ==
  /\ updates = 0 /\ phase = "worked" /\ done = 0
  /\ teacher = IF CycleRefresh THEN 0 ELSE Original
  /\ last = NoUpdate

(* Every update is on-policy, on targets of the cycle's teacher in the     *)
(* context of the phase.                                                   *)
Learn ==
  /\ updates' = updates + 1
  /\ last' = [context |-> phase, teacher |-> teacher, student |-> updates, rollout |-> updates,
              adam |-> IF ResetEachPhase THEN done + 1 ELSE updates + 1]

StayInPhase ==
  /\ Learn
  /\ done + 1 < IF phase = "worked" THEN Pi ELSE Opd
  /\ done' = done + 1
  /\ UNCHANGED <<phase, teacher>>

EndPiPhase ==
  /\ Learn
  /\ phase = "worked" /\ done + 1 = Pi
  /\ phase' = "none" /\ done' = 0
  /\ UNCHANGED teacher

EndCycle ==
  /\ Learn
  /\ phase = "none" /\ done + 1 = Opd
  /\ phase' = "worked" /\ done' = 0
  /\ teacher' = IF CycleRefresh THEN updates + 1 ELSE teacher

PlanNext == StayInPhase \/ EndPiPhase \/ EndCycle
Plan == PlanInit /\ [][PlanNext]_planVars
=============================================================================
