----------------------------- MODULE CyclicOpsd -----------------------------
(***************************************************************************)
(* A cyclic OPSD run: the synchronous driver (train.py), the generator     *)
(* that builds the teacher's context (generate_hub/opsd.py) and the actor  *)
(* that keeps the student, the teacher and the optimizer                   *)
(* (megatron_utils/actor.py and opsd_cyclic.py).  Phase, teacher, reset    *)
(* and snapshot all follow from the rollout id by arithmetic, at each of   *)
(* these places on its own; the actor checks that they agree and raises    *)
(* otherwise, which ends the run: recovery is not supported in this mode.  *)
(* The driver saves after every update, as the launcher of the study makes *)
(* it (snapshot_interval 1); the arguments alone do not, and a run with    *)
(* another save_interval, or none, exports fewer snapshots.                *)
(*                                                                         *)
(* Weights are named by the number of updates that made them; -1 is the    *)
(* original teacher checkpoint.                                            *)
(***************************************************************************)
EXTENDS Integers, FiniteSets

CONSTANTS
  Pi,              \* opsd_cyclic_pi_updates
  Opd,             \* opsd_cyclic_opd_updates
  Cycles,          \* planned cycles: num_rollout is a multiple of the cycle
  CycleRefresh,    \* opsd_cyclic_teacher_policy = "cycle_refresh"
  ResetEachPhase,  \* opsd_cyclic_optimizer_policy = "reset_each_phase"
  Colocate         \* args.colocate: weights are read from the host backup

(* _validate_cyclic_args                                                   *)
ASSUME CyclicOpsdAssumption ==
  /\ Pi \in Nat \ {0} /\ Opd \in Nat \ {0} /\ Cycles \in Nat \ {0}
  /\ CycleRefresh \in BOOLEAN /\ ResetEachPhase \in BOOLEAN /\ Colocate \in BOOLEAN

CycleUpdates == Pi + Opd
NumRollout == Cycles * CycleUpdates
Original == -1

VARIABLES
  pc,             \* what the driver, or the actor inside train, does next
  rollout,        \* rollout id of the driver's loop
  engine,         \* weights the rollout engines serve
  live, active,   \* weights in the model, and the tag they were switched to
  backup,         \* weights_backuper: the snapshots by tag
  adam,           \* updates in Adam's moments
  clock,          \* opt_param_scheduler.num_steps, in global batches
  completed,      \* opsd_cyclic_completed_updates
  optimizerUpdates,  \* opsd_cyclic_optimizer_updates
  teacherSource,  \* opsd_cyclic_teacher_source_update
  batch,          \* rollout data: the teacher's context, the student that generated it
  target,         \* the weights that scored opsd_targets
  last,           \* history: what the last completed update was made from
  snapshots       \* evaluation exports taken

actorVars == <<live, active, backup, adam, clock>>
cyclicVars == <<completed, optimizerUpdates, teacherSource>>
vars == <<pc, rollout, engine, actorVars, cyclicVars, batch, target, last, snapshots>>

-----------------------------------------------------------------------------
(* The schedule.                                                           *)

Cycle(id) == id \div CycleUpdates
Offset(id) == id % CycleUpdates

Context(id) == IF Offset(id) < Pi THEN "worked" ELSE "none"

PhaseStart(id) == Offset(id) \in {0, Pi}

NeverResets(id) == FALSE
OptimizerReset(id) == PhaseStart(id) /\ ResetEachPhase

EarlyCycleEnd(id) == Offset(id) = CycleUpdates - 2

CycleEnd(id) == Offset(id) = CycleUpdates - 1

TeacherSourceUpdate(id) == IF CycleRefresh THEN Cycle(id) * CycleUpdates ELSE 0

(* Successful updates since the last reset; carry never resets.            *)
UpdatesInPhase(n) ==
  LET offset == Offset(n - 1)
  IN IF offset < Pi THEN offset + 1 ELSE offset - Pi + 1

CyclicOptimizerUpdates(n) ==
  IF n = 0 \/ ~ResetEachPhase THEN n ELSE UpdatesInPhase(n)

BenchmarkSteps == {0} \cup {(k * NumRollout + 9) \div 10 : k \in 1 .. 10}
BenchmarkOnly(n) == IF n \in BenchmarkSteps THEN {"benchmark"} ELSE {}

EvaluationSuites(n) ==
  (IF Offset(n) \in {0, Pi} THEN {"validation"} ELSE {})
    \cup (IF n \in BenchmarkSteps THEN {"benchmark"} ELSE {})

-----------------------------------------------------------------------------
(* The actor was backed up, then the original teacher was loaded into the  *)
(* model and backed up; a refreshed teacher starts as the entry student.   *)
Init ==
  /\ pc = "publish" /\ rollout = 0 /\ engine = Original
  /\ live = 0 /\ active = "actor"
  /\ backup = [actor |-> 0, teacher |-> IF CycleRefresh THEN 0 ELSE Original]
  /\ adam = 0 /\ clock = 0
  /\ completed = 0 /\ optimizerUpdates = 0 /\ teacherSource = 0
  /\ batch = [context |-> "none", student |-> Original, rollout |-> 0]
  /\ target = Original
  /\ last = [context |-> "none", teacher |-> Original, student |-> 0, rollout |-> 0, adam |-> 0]
  /\ snapshots = {}

(* _get_actor_weights                                                      *)
ActorWeights == IF Colocate \/ active # "actor" THEN backup.actor ELSE live

(* update_weights: before the first rollout and after every one but the last. *)
PublishWeights ==
  /\ pc = "publish"
  /\ engine' = ActorWeights
  /\ pc' = "generate"
  /\ UNCHANGED <<rollout, actorVars, cyclicVars, batch, target, last, snapshots>>

(* rollout_executor.get: the responses and the teacher's prompts.          *)
Generate ==
  /\ pc = "generate"
  /\ batch' = [context |-> Context(rollout), student |-> engine, rollout |-> rollout]
  /\ pc' = "begin"
  /\ UNCHANGED <<rollout, engine, actorVars, cyclicVars, target, last, snapshots>>

(* begin_cyclic_step, from its checks to the reset of the optimizer.  What  *)
(* does not pass the checks raises: the call fails like any other.         *)
BeginChecks ==
  /\ rollout = completed
  /\ rollout < NumRollout
  /\ teacherSource = TeacherSourceUpdate(rollout)
  /\ (batch.context = "none") = (Context(rollout) = "none")
  /\ clock = rollout

BeginCyclicStep ==
  /\ pc = "begin" /\ BeginChecks
  /\ IF OptimizerReset(rollout)
     THEN /\ adam' = 0 /\ optimizerUpdates' = 0
     ELSE UNCHANGED <<adam, optimizerUpdates>>
  /\ pc' = "score"
  /\ UNCHANGED <<rollout, engine, live, active, backup, clock, completed, teacherSource,
                 batch, target, last, snapshots>>

(* score_teacher: the teacher runs in the student's model slot.            *)
ScoreTeacher ==
  /\ pc = "score"
  /\ live' = backup.teacher /\ active' = "teacher"
  /\ target' = live'
  /\ pc' = "restore"
  /\ UNCHANGED <<rollout, engine, backup, adam, clock, cyclicVars, batch, last, snapshots>>

NoRestore == live
Restored == backup.actor

SwitchBack ==
  /\ pc = "restore"
  /\ live' = Restored /\ active' = "actor"
  /\ pc' = "train"
  /\ UNCHANGED <<rollout, engine, backup, adam, clock, cyclicVars, batch, target, last, snapshots>>

(* train: one optimizer step, which advances the scheduler.                *)
TrainStep ==
  /\ pc = "train"
  /\ live' = live + 1
  /\ adam' = adam + 1 /\ clock' = clock + 1
  /\ pc' = "complete"
  /\ UNCHANGED <<rollout, engine, active, backup, cyclicVars, batch, target, last, snapshots>>

(* The backup of the actor and complete_cyclic_step.                       *)
CompleteChecks ==
  /\ rollout = completed
  /\ clock = rollout + 1
  /\ optimizerUpdates + 1 = CyclicOptimizerUpdates(rollout + 1)

BackedUp == live
Refreshes == CycleEnd(rollout) /\ CycleRefresh

CompleteCyclicStep ==
  /\ pc = "complete" /\ CompleteChecks
  /\ backup' = [actor |-> BackedUp, teacher |-> IF Refreshes THEN BackedUp ELSE backup.teacher]
  /\ teacherSource' = IF Refreshes THEN rollout + 1 ELSE teacherSource
  /\ completed' = rollout + 1
  /\ optimizerUpdates' = optimizerUpdates + 1
  /\ last' = [context |-> batch.context, teacher |-> target, student |-> batch.student,
              rollout |-> batch.rollout, adam |-> adam]
  /\ pc' = "save"
  /\ UNCHANGED <<rollout, engine, live, active, adam, clock, batch, target, snapshots>>

(* save_model: an export of the model, only where the schedule evaluates.  *)
MoreRollouts == rollout + 1 < NumRollout

SaveModel ==
  /\ pc = "save"
  /\ snapshots' = IF EvaluationSuites(rollout + 1) = {} THEN snapshots
                  ELSE snapshots \cup {[update |-> rollout + 1, weights |-> live]}
  /\ IF MoreRollouts
     THEN /\ rollout' = rollout + 1 /\ pc' = "publish"
     ELSE /\ pc' = "finished" /\ UNCHANGED rollout
  /\ UNCHANGED <<engine, actorVars, cyclicVars, batch, target, last>>

(* Any call may fail: the only cell is killed and the driver gives up.     *)
Fails ==
  /\ pc \notin {"finished", "failed"}
  /\ pc' = "failed"
  /\ UNCHANGED <<rollout, engine, actorVars, cyclicVars, batch, target, last, snapshots>>

Next ==
  \/ PublishWeights \/ Generate \/ BeginCyclicStep \/ ScoreTeacher \/ SwitchBack
  \/ TrainStep \/ CompleteCyclicStep \/ SaveModel \/ Fails

Spec == Init /\ [][Next]_vars

-----------------------------------------------------------------------------
Stages == {"publish", "generate", "begin", "score", "restore", "train", "complete", "save"}
Versions == Original .. NumRollout

TypeOK ==
  /\ pc \in Stages \cup {"finished", "failed"}
  /\ rollout \in 0 .. NumRollout - 1
  /\ engine \in Versions /\ live \in Versions /\ target \in Versions
  /\ active \in {"actor", "teacher"}
  /\ backup \in [actor : Versions, teacher : Versions]
  /\ adam \in 0 .. NumRollout /\ clock \in 0 .. NumRollout
  /\ completed \in 0 .. NumRollout
  /\ optimizerUpdates \in 0 .. NumRollout /\ teacherSource \in 0 .. NumRollout
  /\ batch \in [context : {"worked", "none"}, student : Versions, rollout : 0 .. NumRollout - 1]
  /\ last \in [context : {"worked", "none"}, teacher : Versions, student : Versions,
               rollout : 0 .. NumRollout - 1, adam : 0 .. NumRollout]
  /\ snapshots \subseteq [update : 1 .. NumRollout, weights : Versions]

(* The checks of the actor never end a run whose calls all succeed: the    *)
(* driver's ids, the generator's contexts, the promoted teacher, Adam's    *)
(* age and the scheduler's clock stay in step.                             *)
ScheduleNeverRejects ==
  /\ pc = "begin" => BeginChecks
  /\ pc = "complete" => CompleteChecks

(* Until a call fails, every copy of the schedule's position agrees:       *)
(* driver, engines, model, snapshots, Adam, scheduler and the counters of  *)
(* the actor.  This is the invariant behind the theorems.                  *)
InTrain == {"score", "restore", "train", "complete"}

ScheduleInv ==
  pc # "failed" =>
    /\ completed = IF pc \in {"save", "finished"} THEN rollout + 1 ELSE rollout
    /\ clock = IF pc = "complete" THEN completed + 1 ELSE completed
    /\ backup.actor = completed
    /\ backup.teacher = IF CycleRefresh THEN TeacherSourceUpdate(completed) ELSE Original
    /\ teacherSource = TeacherSourceUpdate(completed)
    /\ live = IF pc = "restore" THEN backup.teacher ELSE clock
    /\ active = IF pc = "restore" THEN "teacher" ELSE "actor"
    /\ pc # "publish" /\ pc \notin {"save", "finished"} => engine = rollout
    /\ pc \in InTrain \cup {"begin"} =>
         batch = [context |-> Context(rollout), student |-> rollout, rollout |-> rollout]
    /\ pc \in InTrain \ {"score"} => target = backup.teacher
    /\ optimizerUpdates = IF pc \in InTrain THEN CyclicOptimizerUpdates(rollout + 1) - 1
                          ELSE CyclicOptimizerUpdates(completed)
    /\ adam = IF pc = "complete" THEN optimizerUpdates + 1 ELSE optimizerUpdates

(* Every phase ends with a snapshot of exactly the student that ended it,  *)
(* and so does the run.                                                    *)
PhaseEnds == {c * CycleUpdates + e : c \in 0 .. Cycles - 1, e \in {Pi, CycleUpdates}}
Saved == IF pc = "finished" THEN rollout + 1 ELSE rollout
PhaseEndsAreSaved ==
  \A n \in PhaseEnds : n <= Saved => [update |-> n, weights |-> n] \in snapshots

(* The run makes the updates of the plan, in its order and from its        *)
(* teachers; a failed or rejected update changes neither the plan's        *)
(* position nor the teacher.                                               *)
PlanOf == INSTANCE PhasePlan WITH
  updates <- completed,
  phase <- IF Offset(completed) < Pi THEN "worked" ELSE "none",
  done <- IF Offset(completed) < Pi THEN Offset(completed) ELSE Offset(completed) - Pi,
  teacher <- backup.teacher
ImplementsPhasePlan == PlanOf!Plan
=============================================================================
