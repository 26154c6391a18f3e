-------------------------- MODULE CyclicOpsdProofs --------------------------
(***************************************************************************)
(* Theorems about CyclicOpsd for phases of any length and any number of    *)
(* cycles: the arithmetic of the schedule first, then the invariant, then  *)
(* the properties the runs check.                                          *)
(***************************************************************************)
EXTENDS CyclicOpsd, TLAPS

-----------------------------------------------------------------------------
(* Division with remainder.                                                *)

LEMMA DivMod ==
  ASSUME NEW C \in Nat \ {0}, NEW n \in Nat
  PROVE  /\ (n \div C) \in Nat
         /\ (n % C) \in 0 .. (C - 1)
         /\ n = C * (n \div C) + (n % C)
<1>1. (n \div C) \in Nat  BY SMT
<1>2. (n % C) \in 0 .. (C - 1)  BY SMT
<1>3. n = C * (n \div C) + (n % C)  BY SMT
<1> QED  BY <1>1, <1>2, <1>3

LEMMA MultiplesAreApart ==
  ASSUME NEW C \in Nat \ {0}, NEW q \in Nat, NEW r \in Nat, q < r
  PROVE  C * q + C <= C * r
<1>1. r - (q + 1) \in Nat  BY SMT
<1>2. C * (r - (q + 1)) >= 0  BY <1>1, SMT
<1>3. C * (r - (q + 1)) = C * r - C * q - C  BY <1>1, SMT
<1>4. C * q \in Nat /\ C * r \in Nat  BY SMT
<1> QED  BY <1>2, <1>3, <1>4, SMT

LEMMA RemainderIsUnique ==
  ASSUME NEW C \in Nat \ {0}, NEW q \in Nat, NEW r \in Nat,
         NEW o \in 0 .. (C - 1), NEW p \in 0 .. (C - 1), C * q + o = C * r + p
  PROVE  q = r /\ o = p
<1>1. C * q \in Nat /\ C * r \in Nat  BY SMT
<1>2. ~(q < r)
  <2> SUFFICES ASSUME q < r PROVE FALSE  OBVIOUS
  <2>1. C * q + C <= C * r  BY MultiplesAreApart
  <2> QED  BY <1>1, <2>1, SMT
<1>3. ~(r < q)
  <2> SUFFICES ASSUME r < q PROVE FALSE  OBVIOUS
  <2>1. C * r + C <= C * q  BY MultiplesAreApart
  <2> QED  BY <1>1, <2>1, SMT
<1>4. q = r  BY <1>2, <1>3, SMT
<1> QED  BY <1>1, <1>4, SMT

LEMMA DivModOfSum ==
  ASSUME NEW C \in Nat \ {0}, NEW q \in Nat, NEW o \in 0 .. (C - 1)
  PROVE  ((C * q + o) \div C) = q /\ ((C * q + o) % C) = o
<1> DEFINE n == C * q + o
<1>1. n \in Nat  BY SMT
<1> HIDE DEF n
<1>2. /\ (n \div C) \in Nat
      /\ (n % C) \in 0 .. (C - 1)
      /\ n = C * (n \div C) + (n % C)
  BY <1>1, DivMod
<1>3. C * (n \div C) + (n % C) = C * q + o  BY <1>2 DEF n
<1>4. (n \div C) = q /\ (n % C) = o  BY <1>2, <1>3, RemainderIsUnique
<1> QED  BY <1>4 DEF n

-----------------------------------------------------------------------------
(* The schedule's position moves on with the update index.                 *)

LEMMA Sizes ==
  /\ CycleUpdates \in Nat \ {0} /\ CycleUpdates = Pi + Opd
  /\ Pi \in 1 .. (CycleUpdates - 1)
  /\ NumRollout \in Nat \ {0}
<1>1. CycleUpdates \in Nat \ {0} /\ CycleUpdates = Pi + Opd /\ Pi \in 1 .. (CycleUpdates - 1)
  BY CyclicOpsdAssumption DEF CycleUpdates
<1>2. Cycles \in Nat \ {0}  BY CyclicOpsdAssumption
<1>3. Cycles * CycleUpdates \in Nat \ {0}
  <2>1. \A a, b \in Nat \ {0} : a * b \in Nat \ {0}  BY SMT
  <2> QED  BY <1>1, <1>2, <2>1
<1> QED  BY <1>1, <1>3 DEF NumRollout

LEMMA Position ==
  ASSUME NEW n \in Nat
  PROVE  /\ Cycle(n) \in Nat
         /\ Offset(n) \in 0 .. (CycleUpdates - 1)
         /\ n = CycleUpdates * Cycle(n) + Offset(n)
BY Sizes, DivMod DEF Cycle, Offset

LEMMA PositionOf ==
  ASSUME NEW q \in Nat, NEW o \in 0 .. (CycleUpdates - 1)
  PROVE  Cycle(CycleUpdates * q + o) = q /\ Offset(CycleUpdates * q + o) = o
BY Sizes, DivModOfSum DEF Cycle, Offset

LEMMA Start == Cycle(0) = 0 /\ Offset(0) = 0
<1>1. 0 \in 0 .. (CycleUpdates - 1) /\ CycleUpdates * 0 + 0 = 0  BY Sizes
<1>2. Cycle(CycleUpdates * 0 + 0) = 0 /\ Offset(CycleUpdates * 0 + 0) = 0  BY <1>1, PositionOf
<1> QED  BY <1>1, <1>2

LEMMA NextPosition ==
  ASSUME NEW n \in Nat
  PROVE  /\ Offset(n) # CycleUpdates - 1 => Cycle(n + 1) = Cycle(n) /\ Offset(n + 1) = Offset(n) + 1
         /\ Offset(n) = CycleUpdates - 1 => Cycle(n + 1) = Cycle(n) + 1 /\ Offset(n + 1) = 0
<1> DEFINE q == Cycle(n)  o == Offset(n)  C == CycleUpdates
<1>1. q \in Nat /\ o \in 0 .. (C - 1) /\ n = C * q + o /\ C \in Nat \ {0}  BY Position, Sizes
<1>2. C * q \in Nat  BY <1>1, SMT
<1>3. CASE o # C - 1
  <2>1. o + 1 \in 0 .. (C - 1) /\ n + 1 = C * q + (o + 1)  BY <1>1, <1>2, <1>3
  <2>2. Cycle(C * q + (o + 1)) = q /\ Offset(C * q + (o + 1)) = o + 1  BY <1>1, <2>1, PositionOf
  <2> QED  BY <1>3, <2>1, <2>2
<1>4. CASE o = C - 1
  <2>1. C * (q + 1) = C * q + C  BY <1>1, SMT
  <2>2. q + 1 \in Nat /\ 0 \in 0 .. (C - 1) /\ n + 1 = C * (q + 1) + 0
    BY <1>1, <1>2, <1>4, <2>1
  <2>3. Cycle(C * (q + 1) + 0) = q + 1 /\ Offset(C * (q + 1) + 0) = 0  BY <2>2, PositionOf
  <2> QED  BY <1>1, <1>4, <2>2, <2>3
<1> QED  BY <1>3, <1>4

(* A refreshed teacher is the student that enters the cycle, so its source *)
(* changes after the cycle's last update, to that update's student.        *)
LEMMA TeacherSource ==
  /\ TeacherSourceUpdate(0) = 0
  /\ \A n \in Nat :
       /\ TeacherSourceUpdate(n) \in 0 .. n
       /\ TeacherSourceUpdate(n + 1) = IF CycleEnd(n) /\ CycleRefresh THEN n + 1 ELSE TeacherSourceUpdate(n)
<1>1. TeacherSourceUpdate(0) = 0
  BY Start, Sizes DEF TeacherSourceUpdate
<1>2. ASSUME NEW n \in Nat
      PROVE  /\ TeacherSourceUpdate(n) \in 0 .. n
             /\ TeacherSourceUpdate(n + 1)
                  = IF CycleEnd(n) /\ CycleRefresh THEN n + 1 ELSE TeacherSourceUpdate(n)
  <2> DEFINE q == Cycle(n)  o == Offset(n)  C == CycleUpdates
  <2>1. q \in Nat /\ o \in 0 .. (C - 1) /\ n = C * q + o /\ C \in Nat \ {0}  BY Position, Sizes
  <2>2. q * C = C * q /\ q * C \in Nat /\ (q + 1) * C = C * q + C  BY <2>1, SMT
  <2>3. q * C \in 0 .. n  BY <2>1, <2>2
  <2>4. CASE o # C - 1
    <3>1. Cycle(n + 1) = q /\ ~CycleEnd(n)  BY <2>4, NextPosition DEF CycleEnd
    <3> QED  BY <2>3, <3>1 DEF TeacherSourceUpdate
  <2>5. CASE o = C - 1
    <3>1. Cycle(n + 1) = q + 1 /\ CycleEnd(n)  BY <2>5, NextPosition DEF CycleEnd
    <3>2. (q + 1) * C = n + 1  BY <2>1, <2>2, <2>5
    <3> QED  BY <2>3, <3>1, <3>2 DEF TeacherSourceUpdate
  <2> QED  BY <2>4, <2>5
<1> QED  BY <1>1, <1>2

(* Adam's age: the closed form the actor checks is what counting from the  *)
(* resets gives.                                                           *)
LEMMA OptimizerAge ==
  /\ CyclicOptimizerUpdates(0) = 0
  /\ \A n \in Nat :
       /\ CyclicOptimizerUpdates(n) \in 0 .. n
       /\ CyclicOptimizerUpdates(n + 1) = IF OptimizerReset(n) THEN 1 ELSE CyclicOptimizerUpdates(n) + 1
<1>1. CyclicOptimizerUpdates(0) = 0  BY DEF CyclicOptimizerUpdates
<1>2. ASSUME NEW n \in Nat, ResetEachPhase
      PROVE  /\ UpdatesInPhase(n + 1) = IF Offset(n) < Pi THEN Offset(n) + 1 ELSE Offset(n) - Pi + 1
             /\ UpdatesInPhase(n + 1) \in 1 .. n + 1
  <2>1. (n + 1) - 1 = n  OBVIOUS
  <2>2. Offset(n) \in 0 .. n
    <3> DEFINE q == Cycle(n)  C == CycleUpdates
    <3>1. q \in Nat /\ Offset(n) \in 0 .. (C - 1) /\ n = C * q + Offset(n) /\ C \in Nat
      BY Position, Sizes
    <3>2. C * q \in Nat  BY <3>1, SMT
    <3> QED  BY <3>1, <3>2
  <2> QED  BY <2>1, <2>2, Sizes DEF UpdatesInPhase
<1>3. ASSUME NEW n \in Nat  PROVE CyclicOptimizerUpdates(n) \in 0 .. n
  <2>1. CASE n = 0 \/ ~ResetEachPhase  BY <2>1 DEF CyclicOptimizerUpdates
  <2>2. CASE n # 0 /\ ResetEachPhase
    <3>1. n - 1 \in Nat /\ (n - 1) + 1 = n  BY <2>2
    <3>2. UpdatesInPhase(n) \in 1 .. n  BY <1>2, <2>2, <3>1
    <3> QED  BY <2>2, <3>2 DEF CyclicOptimizerUpdates
  <2> QED  BY <2>1, <2>2
<1>4. ASSUME NEW n \in Nat
      PROVE  CyclicOptimizerUpdates(n + 1)
               = IF OptimizerReset(n) THEN 1 ELSE CyclicOptimizerUpdates(n) + 1
  <2>1. CASE ~ResetEachPhase
    BY <2>1 DEF CyclicOptimizerUpdates, OptimizerReset
  <2>2. CASE ResetEachPhase
    <3>1. CyclicOptimizerUpdates(n + 1) = IF Offset(n) < Pi THEN Offset(n) + 1 ELSE Offset(n) - Pi + 1
      BY <1>2, <2>2 DEF CyclicOptimizerUpdates
    <3>2. Offset(n) \in 0 .. (CycleUpdates - 1) /\ Pi \in 1 .. (CycleUpdates - 1) /\ CycleUpdates \in Nat
      BY Position, Sizes
    <3>3. CASE Offset(n) = 0 \/ Offset(n) = Pi
      BY <2>2, <3>1, <3>2, <3>3 DEF OptimizerReset, PhaseStart
    <3>4. CASE Offset(n) # 0 /\ Offset(n) # Pi
      <4>1. n # 0  BY Start, <3>4
      <4>2. n - 1 \in Nat /\ (n - 1) + 1 = n  BY <4>1
      <4>3. Offset(n - 1) \in 0 .. (CycleUpdates - 1)  BY <4>2, Position
      <4>4. Offset(n) = Offset(n - 1) + 1  BY <3>4, <4>2, NextPosition
      <4>5. CyclicOptimizerUpdates(n)
              = IF Offset(n - 1) < Pi THEN Offset(n - 1) + 1 ELSE Offset(n - 1) - Pi + 1
        BY <2>2, <4>1 DEF CyclicOptimizerUpdates, UpdatesInPhase
      <4>6. ~OptimizerReset(n)  BY <3>4 DEF OptimizerReset, PhaseStart
      <4> QED  BY <3>1, <3>2, <3>4, <4>3, <4>4, <4>5, <4>6
    <3> QED  BY <3>3, <3>4
  <2> QED  BY <2>1, <2>2
<1> QED  BY <1>1, <1>3, <1>4

-----------------------------------------------------------------------------
(* Every copy of the position agrees.                                      *)

LEMMA InvInit == Init => TypeOK /\ ScheduleInv
<1> SUFFICES ASSUME Init PROVE TypeOK /\ ScheduleInv  OBVIOUS
<1>1. TypeOK
  BY Sizes DEF Init, TypeOK, Versions, Original, Stages
<1>2. ScheduleInv
  BY TeacherSource, OptimizerAge DEF Init, ScheduleInv, InTrain, Original
<1> QED  BY <1>1, <1>2

LEMMA InvStep == TypeOK /\ ScheduleInv /\ [Next]_vars => TypeOK' /\ ScheduleInv'
<1> SUFFICES ASSUME TypeOK, ScheduleInv, [Next]_vars
             PROVE  TypeOK' /\ ScheduleInv'
  OBVIOUS
<1> USE DEF actorVars, cyclicVars, Versions, Original, Stages, InTrain
<1>0. /\ NumRollout \in Nat \ {0} /\ rollout \in 0 .. NumRollout - 1 /\ rollout \in Nat
      /\ completed \in 0 .. NumRollout
      /\ Context(rollout) \in {"worked", "none"}
  BY Sizes DEF TypeOK, Context
<1>1. CASE PublishWeights
  <2>1. ActorWeights = rollout  BY <1>0, <1>1 DEF PublishWeights, ActorWeights, ScheduleInv, TypeOK
  <2>2. TypeOK'  BY <1>0, <1>1, <2>1 DEF PublishWeights, TypeOK
  <2>3. ScheduleInv'  BY <1>0, <1>1, <2>1 DEF PublishWeights, ScheduleInv
  <2> QED  BY <2>2, <2>3
<1>2. CASE Generate
  <2>1. TypeOK'  BY <1>0, <1>2 DEF Generate, TypeOK
  <2>2. ScheduleInv'  BY <1>0, <1>2 DEF Generate, ScheduleInv
  <2> QED  BY <2>1, <2>2
<1>3. CASE BeginCyclicStep
  <2>1. TypeOK'  BY <1>0, <1>3 DEF BeginCyclicStep, TypeOK
  <2>2. CyclicOptimizerUpdates(rollout) \in Nat /\ CyclicOptimizerUpdates(rollout + 1) - 1
          = IF OptimizerReset(rollout) THEN 0 ELSE CyclicOptimizerUpdates(rollout)
    BY <1>0, OptimizerAge
  <2>3. optimizerUpdates' = CyclicOptimizerUpdates(rollout + 1) - 1 /\ adam' = optimizerUpdates'
    BY <1>0, <1>3, <2>2 DEF BeginCyclicStep, ScheduleInv
  <2>4. ScheduleInv'  BY <1>0, <1>3, <2>3 DEF BeginCyclicStep, ScheduleInv
  <2> QED  BY <2>1, <2>4
<1>4. CASE ScoreTeacher
  <2>1. TypeOK'  BY <1>0, <1>4 DEF ScoreTeacher, TypeOK
  <2>2. ScheduleInv'  BY <1>0, <1>4 DEF ScoreTeacher, ScheduleInv
  <2> QED  BY <2>1, <2>2
<1>5. CASE SwitchBack
  <2>1. TypeOK'  BY <1>0, <1>5 DEF SwitchBack, Restored, TypeOK
  <2>2. ScheduleInv'  BY <1>0, <1>5 DEF SwitchBack, Restored, ScheduleInv
  <2> QED  BY <2>1, <2>2
<1>6. CASE TrainStep
  <2>1. /\ live = rollout /\ clock = rollout /\ adam = CyclicOptimizerUpdates(rollout + 1) - 1
        /\ CyclicOptimizerUpdates(rollout + 1) \in 0 .. rollout + 1
    BY <1>0, <1>6, OptimizerAge DEF TrainStep, ScheduleInv
  <2>2. TypeOK'  BY <1>0, <1>6, <2>1 DEF TrainStep, TypeOK
  <2>3. ScheduleInv'  BY <1>0, <1>6, <2>1 DEF TrainStep, ScheduleInv
  <2> QED  BY <2>2, <2>3
<1>7. CASE CompleteCyclicStep
  <2>1. live = rollout + 1 /\ optimizerUpdates + 1 = CyclicOptimizerUpdates(rollout + 1)
    BY <1>0, <1>7 DEF CompleteCyclicStep, CompleteChecks, ScheduleInv
  <2>2. CyclicOptimizerUpdates(rollout + 1) \in 0 .. rollout + 1  BY <1>0, OptimizerAge
  <2>3. TypeOK'  BY <1>0, <1>7, <2>1, <2>2 DEF CompleteCyclicStep, BackedUp, TypeOK
  <2>4. /\ TeacherSourceUpdate(rollout + 1) = teacherSource'
        /\ backup'.teacher = IF CycleRefresh THEN TeacherSourceUpdate(rollout + 1) ELSE Original
        /\ backup'.actor = rollout + 1
    BY <1>0, <1>7, <2>1, TeacherSource
    DEF CompleteCyclicStep, BackedUp, Refreshes, ScheduleInv
  <2>5. ScheduleInv'
    BY <1>0, <1>7, <2>1, <2>4 DEF CompleteCyclicStep, ScheduleInv
  <2> QED  BY <2>3, <2>5
<1>8. CASE SaveModel
  <2>1. live = rollout + 1  BY <1>0, <1>8 DEF SaveModel, ScheduleInv
  <2>2. TypeOK'  BY <1>0, <1>8, <2>1 DEF SaveModel, MoreRollouts, TypeOK
  <2>3. ScheduleInv'  BY <1>0, <1>8 DEF SaveModel, ScheduleInv
  <2> QED  BY <2>2, <2>3
<1>9. CASE Fails
  BY <1>9 DEF Fails, TypeOK, ScheduleInv
<1>10. CASE UNCHANGED vars
  <2>1. TypeOK'  BY <1>10 DEF vars, TypeOK
  <2>2. ScheduleInv'  BY <1>10 DEF vars, ScheduleInv
  <2> QED  BY <2>1, <2>2
<1> QED
  BY <1>1, <1>2, <1>3, <1>4, <1>5, <1>6, <1>7, <1>8, <1>9, <1>10 DEF Next

(* TypeOK for every phase length: the bookkeeping of a run keeps its types. *)
THEOREM TypeCorrectness == Spec => []TypeOK
<1>1. Init => TypeOK /\ ScheduleInv  BY InvInit
<1>2. TypeOK /\ ScheduleInv /\ [Next]_vars => (TypeOK /\ ScheduleInv)'  BY InvStep
<1> QED  BY <1>1, <1>2, PTL DEF Spec

(* Driver, generator and actor agree on the position of the run at every   *)
(* step of every run (ScheduleInv).                                        *)
THEOREM PositionsAgree == Spec => []ScheduleInv
<1>1. Init => TypeOK /\ ScheduleInv  BY InvInit
<1>2. TypeOK /\ ScheduleInv /\ [Next]_vars => (TypeOK /\ ScheduleInv)'  BY InvStep
<1> QED  BY <1>1, <1>2, PTL DEF Spec

(* begin_cyclic_step and complete_cyclic_step never raise in a run whose   *)
(* other calls succeed: ScheduleNeverRejects for all phase lengths.        *)
THEOREM ChecksAlwaysPass == Spec => []ScheduleNeverRejects
<1>1. TypeOK /\ ScheduleInv => ScheduleNeverRejects
  <2> SUFFICES ASSUME TypeOK, ScheduleInv PROVE ScheduleNeverRejects  OBVIOUS
  <2>1. rollout \in Nat /\ rollout < NumRollout  BY Sizes DEF TypeOK
  <2>2. CyclicOptimizerUpdates(rollout + 1) \in Nat  BY <2>1, OptimizerAge
  <2>3. pc = "begin" => BeginChecks
    BY <2>1 DEF ScheduleInv, BeginChecks, InTrain
  <2>4. pc = "complete" => CompleteChecks
    BY <2>1, <2>2 DEF ScheduleInv, CompleteChecks, InTrain
  <2> QED  BY <2>3, <2>4 DEF ScheduleNeverRejects
<1> QED  BY <1>1, TypeCorrectness, PositionsAgree, PTL

-----------------------------------------------------------------------------
(* Snapshots at the ends of the phases.                                    *)

SavedInv ==
  \A n \in Nat \ {0} : n <= Saved /\ Offset(n) \in {0, Pi} => [update |-> n, weights |-> n] \in snapshots

LEMMA PhaseEndOffsets ==
  ASSUME NEW n \in PhaseEnds
  PROVE  n \in Nat \ {0} /\ Offset(n) \in {0, Pi}
<1> DEFINE C == CycleUpdates
<1>1. PICK c \in 0 .. Cycles - 1, e \in {Pi, C} : n = c * C + e  BY DEF PhaseEnds
<1>2. c \in Nat /\ C \in Nat \ {0} /\ Pi \in 1 .. (C - 1)  BY CyclicOpsdAssumption, Sizes
<1>3. c * C = C * c /\ C * c \in Nat /\ C * (c + 1) = C * c + C  BY <1>2, SMT
<1>4. CASE e = Pi
  <2>1. n = C * c + Pi /\ Pi \in 0 .. (C - 1)  BY <1>1, <1>2, <1>3, <1>4
  <2>2. Offset(C * c + Pi) = Pi  BY <1>2, <2>1, PositionOf
  <2> QED  BY <1>2, <1>3, <2>1, <2>2
<1>5. CASE e = C
  <2>1. n = C * (c + 1) + 0 /\ c + 1 \in Nat /\ 0 \in 0 .. (C - 1)  BY <1>1, <1>2, <1>3, <1>5
  <2>2. Offset(C * (c + 1) + 0) = 0  BY <2>1, PositionOf
  <2> QED  BY <1>1, <1>2, <1>3, <1>5, <2>1, <2>2
<1> QED  BY <1>1, <1>4, <1>5

LEMMA SavedStep ==
  TypeOK /\ ScheduleInv /\ SavedInv /\ [Next]_vars => SavedInv'
<1> SUFFICES ASSUME TypeOK, ScheduleInv, SavedInv, [Next]_vars PROVE SavedInv'  OBVIOUS
<1> USE DEF actorVars, cyclicVars
<1>1. CASE SaveModel
  <2>1. /\ rollout \in Nat /\ Saved = rollout /\ live = rollout + 1
        /\ Saved' = rollout + 1
    BY <1>1, Sizes DEF SaveModel, MoreRollouts, ScheduleInv, TypeOK, Saved, InTrain
  <2>2. snapshots \subseteq snapshots'  BY <1>1 DEF SaveModel
  <2>3. Offset(rollout + 1) \in {0, Pi}
          => [update |-> rollout + 1, weights |-> rollout + 1] \in snapshots'
    BY <1>1, <2>1 DEF SaveModel, EvaluationSuites
  <2>4. SUFFICES ASSUME NEW n \in Nat \ {0}, n <= Saved', Offset(n) \in {0, Pi}
                 PROVE  [update |-> n, weights |-> n] \in snapshots'
    BY DEF SavedInv, Offset
  <2>5. CASE n = rollout + 1  BY <2>3, <2>4, <2>5
  <2>6. CASE n # rollout + 1
    <3>1. n <= Saved  BY <2>1, <2>4, <2>6
    <3> QED  BY <2>2, <2>4, <3>1 DEF SavedInv
  <2> QED  BY <2>5, <2>6
<1>2. CASE Fails
  BY <1>2 DEF Fails, SavedInv, Saved, Offset
<1>3. CASE Next /\ ~SaveModel /\ ~Fails
  <2>1. UNCHANGED <<rollout, snapshots>> /\ pc # "finished" /\ pc' # "finished"
    BY <1>3 DEF Next, PublishWeights, Generate, BeginCyclicStep, ScoreTeacher, SwitchBack, TrainStep,
                CompleteCyclicStep
  <2> QED  BY <2>1 DEF SavedInv, Saved, Offset
<1>4. CASE UNCHANGED vars
  BY <1>4 DEF vars, SavedInv, Saved, Offset
<1> QED  BY <1>1, <1>2, <1>3, <1>4

(* Whatever the lengths of the phases, the decision save_model makes from  *)
(* the update index exports each phase's last student: PhaseEndsAreSaved.  *)
THEOREM PhaseEndsAreExported == Spec => []PhaseEndsAreSaved
<1>1. Init => SavedInv
  BY DEF Init, SavedInv, Saved
<1>2. TypeOK /\ ScheduleInv /\ SavedInv /\ [Next]_vars => SavedInv'  BY SavedStep
<1>3. SavedInv => PhaseEndsAreSaved
  BY PhaseEndOffsets DEF SavedInv, PhaseEndsAreSaved
<1> QED  BY <1>1, <1>2, <1>3, TypeCorrectness, PositionsAgree, PTL DEF Spec

-----------------------------------------------------------------------------
(* The run implements the plan.                                            *)

LEMMA PlanStep ==
  TypeOK /\ ScheduleInv /\ [Next]_vars => [PlanOf!PlanNext]_(PlanOf!planVars)
<1> SUFFICES ASSUME TypeOK, ScheduleInv, [Next]_vars
             PROVE  [PlanOf!PlanNext]_(PlanOf!planVars)
  OBVIOUS
<1> USE DEF actorVars, cyclicVars
<1>1. CASE CompleteCyclicStep
  <2> DEFINE o == Offset(rollout)  d == IF o < Pi THEN o ELSE o - Pi
             ph == IF o < Pi THEN "worked" ELSE "none"
  <2>1. /\ rollout \in Nat /\ completed = rollout /\ completed' = rollout + 1
        /\ live = rollout + 1 /\ adam = optimizerUpdates + 1
        /\ optimizerUpdates = CyclicOptimizerUpdates(rollout + 1) - 1
        /\ batch = [context |-> ph, student |-> rollout, rollout |-> rollout]
        /\ target = backup.teacher
    BY <1>1, Sizes DEF CompleteCyclicStep, ScheduleInv, TypeOK, InTrain, Context
  <2>2. o \in 0 .. (CycleUpdates - 1) /\ CycleUpdates = Pi + Opd /\ Pi \in Nat \ {0} /\ Opd \in Nat \ {0}
    BY <2>1, Position, Sizes, CyclicOpsdAssumption
  <2>3. adam = IF ResetEachPhase THEN d + 1 ELSE rollout + 1
    <3>1. CyclicOptimizerUpdates(rollout + 1) \in Nat  BY <2>1, OptimizerAge
    <3>2. adam = CyclicOptimizerUpdates(rollout + 1)  BY <2>1, <3>1
    <3>3. rollout + 1 # 0 /\ (rollout + 1) - 1 = rollout  BY <2>1
    <3> QED  BY <2>1, <2>2, <3>2, <3>3 DEF CyclicOptimizerUpdates, UpdatesInPhase
  <2>4. last' = [context |-> ph, teacher |-> backup.teacher, student |-> rollout, rollout |-> rollout,
                 adam |-> IF ResetEachPhase THEN d + 1 ELSE rollout + 1]
    BY <1>1, <2>1, <2>3 DEF CompleteCyclicStep
  <2>5. PlanOf!Learn
    BY <2>1, <2>4 DEF PlanOf!Learn
  <2>6. backup'.teacher = IF o = CycleUpdates - 1 /\ CycleRefresh THEN rollout + 1 ELSE backup.teacher
    BY <1>1, <2>1 DEF CompleteCyclicStep, BackedUp, Refreshes, CycleEnd
  <2>7. CASE o = CycleUpdates - 1
    <3>1. Offset(rollout + 1) = 0  BY <2>1, <2>7, NextPosition
    <3>2. PlanOf!EndCycle
      BY <2>1, <2>2, <2>5, <2>6, <2>7, <3>1 DEF PlanOf!EndCycle
    <3> QED  BY <3>2 DEF PlanOf!PlanNext
  <2>8. CASE o # CycleUpdates - 1
    <3>1. Offset(rollout + 1) = o + 1  BY <2>1, <2>8, NextPosition
    <3>2. CASE o + 1 = Pi
      <4>1. PlanOf!EndPiPhase
        BY <2>1, <2>2, <2>5, <2>6, <2>8, <3>1, <3>2 DEF PlanOf!EndPiPhase
      <4> QED  BY <4>1 DEF PlanOf!PlanNext
    <3>3. CASE o + 1 # Pi
      <4>1. PlanOf!StayInPhase
        BY <2>1, <2>2, <2>5, <2>6, <2>8, <3>1, <3>3 DEF PlanOf!StayInPhase
      <4> QED  BY <4>1 DEF PlanOf!PlanNext
    <3> QED  BY <3>2, <3>3
  <2> QED  BY <2>7, <2>8
<1>2. CASE Next /\ ~CompleteCyclicStep
  <2>1. UNCHANGED <<completed, last>> /\ backup' = backup
    BY <1>2 DEF Next, PublishWeights, Generate, BeginCyclicStep, ScoreTeacher, SwitchBack, TrainStep,
                SaveModel, Fails
  <2> QED  BY <2>1 DEF PlanOf!planVars, Offset
<1>3. CASE UNCHANGED vars
  BY <1>3 DEF vars, PlanOf!planVars, Offset
<1> QED  BY <1>1, <1>2, <1>3

(* Every run, also one that fails on the way, makes the updates of the     *)
(* plan and no others (ImplementsPhasePlan).                               *)
THEOREM RunImplementsPlan == Spec => ImplementsPhasePlan
<1>1. Init => PlanOf!PlanInit
  BY Start, CyclicOpsdAssumption
  DEF Init, PlanOf!PlanInit, PlanOf!NoUpdate, PlanOf!Original, Original
<1>2. TypeOK /\ ScheduleInv /\ [Next]_vars => [PlanOf!PlanNext]_(PlanOf!planVars)  BY PlanStep
<1>3. Spec => PlanOf!Plan
  BY <1>1, <1>2, TypeCorrectness, PositionsAgree, PTL DEF Spec, PlanOf!Plan
<1> QED  BY <1>3 DEF ImplementsPhasePlan
=============================================================================
