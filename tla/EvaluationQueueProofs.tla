------------------------ MODULE EvaluationQueueProofs ------------------------
(***************************************************************************)
(* Proofs about the evaluation queue of a study, for any numbers of runs,  *)
(* points and spare cells and any suites asked for: JobsInv is inductive,  *)
(* and a run that ends normally has the results of all its points.         *)
(*                                                                         *)
(* The queue is bounded by a counting argument (PlacesAreCounted): a run   *)
(* that has counted fewer than two jobs holds a place, and jobs and places *)
(* together are at most one more than there are runs, because when a run   *)
(* takes a place there is at most one job.  What a hook has found out      *)
(* about its job stays true (RunInv) since jobs move along the directories *)
(* in the order they are looked up in, and results are complete because    *)
(* the worker takes the jobs of a run in order (DoneInOrder).              *)
(***************************************************************************)
EXTENDS EvaluationQueue, FiniteSetTheorems, WellFoundedInduction, TLAPS

USE EvaluationQueueAssumption DEF JobsInv

----------------------------------------------------------------------------
(* Jobs and their order *)

\* A set of natural numbers that is not empty has a least member.
LEMMA LeastNatural ==
    ASSUME NEW S \in SUBSET Nat, S # {}
    PROVE  \E n \in S : \A k \in S : n <= k
<1>1. PICK n \in S : \A k \in S : <<k, n>> \notin OpToRel(<, Nat)
  BY NatLessThanWellFounded, WFMin
<1>2. \A k \in S : ~(k < n)
  BY <1>1 DEF OpToRel
<1> QED BY <1>2

\* A job is a run and a point of it.
LEMMA JobPairs ==
    /\ \A j \in Jobs : j[1] \in 1 .. Runs /\ j[2] \in 1 .. Points /\ j = <<j[1], j[2]>>
    /\ \A r \in 1 .. Runs, p \in 1 .. Points : <<r, p>> \in Jobs /\ <<r, p>>[1] = r /\ <<r, p>>[2] = p
    /\ IsFiniteSet(Jobs)
<1>1. IsFiniteSet(1 .. Runs) /\ IsFiniteSet(1 .. Points)
  BY FS_Interval
<1>2. IsFiniteSet(Jobs)
  BY <1>1, FS_Product DEF Jobs
<1> QED BY <1>2 DEF Jobs

\* The worker takes the earliest of the pending jobs.
LEMMA NextOfIsFirst ==
    ASSUME NEW S \in SUBSET Jobs, S # {}
    PROVE  NextOf(S) \in S /\ \A k \in S \ {NextOf(S)} : Earlier(NextOf(S), k)
<1> DEFINE Rs == {k[1] : k \in S}
<1>1. PICK r \in Rs : \A n \in Rs : r <= n
  <2>1. Rs \in SUBSET Nat /\ Rs # {}
    BY JobPairs
  <2> HIDE DEF Rs
  <2> QED BY <2>1, LeastNatural
<1> DEFINE Ps == {k[2] : k \in {x \in S : x[1] = r}}
<1>2. PICK p \in Ps : \A n \in Ps : p <= n
  <2>1. Ps \in SUBSET Nat /\ Ps # {}
    BY JobPairs
  <2> HIDE DEF Ps
  <2> QED BY <2>1, LeastNatural
<1>3. PICK j \in S : j[1] = r /\ j[2] = p
  BY <1>2
<1>4. ASSUME NEW k \in S, k # j PROVE Earlier(j, k)
  <2>1. /\ j[1] \in Nat /\ j[2] \in Nat /\ j = <<j[1], j[2]>>
        /\ k[1] \in Nat /\ k[2] \in Nat /\ k = <<k[1], k[2]>>
    BY JobPairs
  <2>2. r <= k[1] /\ (k[1] = r => p <= k[2])
    BY <1>1, <1>2
  <2>3. k[1] # j[1] \/ k[2] # j[2]
    BY <1>4, <2>1
  <2> QED BY <1>3, <2>1, <2>2, <2>3 DEF Earlier
<1> QED BY <1>4 DEF NextOf

----------------------------------------------------------------------------
(* Counting places *)

\* The runs are finitely many.
LEMMA RunsAreFinite == IsFiniteSet(1 .. Runs) /\ Cardinality(1 .. Runs) = Runs /\ Runs \in Nat /\ Runs >= 1
BY FS_Interval

\* The directories and the runs that hold a place are finite.
LEMMA Sizes ==
    ASSUME TypeOK, NEW k
    PROVE  /\ IsFiniteSet(pending) /\ Cardinality(pending) \in Nat
           /\ IsFiniteSet(running) /\ Cardinality(running) \in Nat
           /\ IsFiniteSet(Reserved(k)) /\ Cardinality(Reserved(k)) \in 0 .. Runs
<1>1. IsFiniteSet(pending) /\ IsFiniteSet(running)
  BY JobPairs, FS_Subset DEF TypeOK
<1>2. IsFiniteSet(1 .. Runs) /\ Cardinality(1 .. Runs) = Runs
  BY FS_Interval
<1>3. Reserved(k) \in SUBSET (1 .. Runs)
  BY DEF Reserved
<1>4. IsFiniteSet(Reserved(k)) /\ Cardinality(Reserved(k)) <= Runs
  BY <1>2, <1>3, FS_Subset
<1> QED BY <1>1, <1>4, FS_CardinalityType

\* There is at most one running job.
LEMMA OneRuns ==
    ASSUME TypeOK, WorkerHasOne
    PROVE  Cardinality(running) \in 0 .. 1
<1>1. CASE running = {}
  BY <1>1, FS_EmptySet
<1>2. CASE running # {}
  <2>1. PICK j \in running : TRUE
    BY <1>2
  <2>2. running = {j}
    BY <2>1 DEF WorkerHasOne
  <2>3. Cardinality({j}) = 1
    BY FS_Singleton
  <2> QED BY <2>2, <2>3
<1> QED BY <1>1, <1>2

\* Jobs that have a place each are within the bound.
LEMMA PlacesBound == TypeOK /\ PlacesAreCounted => QueueBounded
<1> SUFFICES ASSUME TypeOK, PlacesAreCounted PROVE QueueBounded
  OBVIOUS
<1>1. Cardinality(pending \cup running) <= Cardinality(pending) + Cardinality(running)
  <2>1. IsFiniteSet(pending) /\ IsFiniteSet(running)
    BY Sizes
  <2>2. Cardinality(pending \cup running) = Cardinality(pending) + Cardinality(running) - Cardinality(pending \cap running)
    BY <2>1, FS_Union
  <2>3. IsFiniteSet(pending \cap running)
    BY <2>1, FS_Subset
  <2>4. Cardinality(pending \cap running) \in Nat
    BY <2>3, FS_CardinalityType
  <2>5. Cardinality(pending) \in Nat /\ Cardinality(running) \in Nat
    BY Sizes
  <2> QED BY <2>2, <2>4, <2>5
<1>2. Cardinality(pending \cup running) \in Nat
  <2>1. IsFiniteSet(pending \cup running)
    BY Sizes, FS_Union
  <2> QED BY <2>1, FS_CardinalityType
<1>3. /\ Cardinality(pending) \in Nat /\ Cardinality(running) \in Nat
      /\ Cardinality(Reserved(Cardinality(running))) \in 0 .. Runs
  BY Sizes
<1> QED BY <1>1, <1>2, <1>3 DEF PlacesAreCounted, QueueBounded, Capacity

\* Nobody takes a place and no job enters.
LEMMA PlacesStay ==
    ASSUME TypeOK, PlacesAreCounted, pending' = pending, running' = running,
           Reserved(0)' \subseteq Reserved(0),
           Reserved(Cardinality(running))' \subseteq Reserved(Cardinality(running))
    PROVE  PlacesAreCounted'
<1> DEFINE k == Cardinality(running)
<1>1. k' = k /\ Cardinality(pending)' = Cardinality(pending)
  OBVIOUS
<1>2. /\ Cardinality(pending) \in Nat /\ k \in Nat
      /\ IsFiniteSet(Reserved(0)) /\ Cardinality(Reserved(0)) \in 0 .. Runs
      /\ IsFiniteSet(Reserved(k)) /\ Cardinality(Reserved(k)) \in 0 .. Runs
  BY Sizes
<1>3. /\ IsFiniteSet(Reserved(0)') /\ Cardinality(Reserved(0)') <= Cardinality(Reserved(0))
      /\ IsFiniteSet(Reserved(k)') /\ Cardinality(Reserved(k)') <= Cardinality(Reserved(k))
  BY <1>2, FS_Subset
<1>4. Cardinality(Reserved(0)') \in Nat /\ Cardinality(Reserved(k)') \in Nat
  BY <1>3, FS_CardinalityType
<1> QED BY <1>1, <1>2, <1>3, <1>4 DEF PlacesAreCounted, Capacity

----------------------------------------------------------------------------
(* The hooks *)

\* A run's job.
LEMMA JobType ==
    ASSUME TypeOK, NEW r \in 1 .. Runs
    PROVE  /\ trainer[r].point \in 1 .. Points /\ Points \in Nat
           /\ Job(r) \in Jobs /\ Job(r) = <<r, trainer[r].point>>
           /\ \A q \in 1 .. Runs : q # r => Job(q) # Job(r)
           /\ \A p \in 1 .. Points : Job(r) = <<r, p>> <=> p = trainer[r].point
<1>1. \A q \in 1 .. Runs : trainer[q].point \in 1 .. Points
  BY DEF TypeOK, HookState
<1> QED BY <1>1 DEF Job, Jobs

(***************************************************************************)
(* A step of one run's hook, as far as the others are concerned: it        *)
(* touches no other run and none of its exports, and a job that enters is  *)
(* new and has an export.                                                  *)
(***************************************************************************)
LEMMA HookStep ==
    ASSUME JobsInv, NEW r \in 1 .. Runs,
           trainer' \in [1 .. Runs -> HookState],
           \A q \in 1 .. Runs : q # r => trainer'[q] = trainer[q],
           UNCHANGED <<running, done, failed, passed, beat, worker>>,
           \/ pending' = pending
           \/ pending' = pending \cup {Job(r)} /\ Job(r) \notin InQueue /\ snapshot[Job(r)] # "none",
           snapshot' \in [Jobs -> {"none", "complete"}],
           \A j \in Jobs : j[1] # r => snapshot'[j] = snapshot[j],
           \A p \in 1 .. Points : ExportKept(r, p)',
           RunInv(r)', \A p \in 1 .. Points : HasPosted(r, p)' => <<r, p>> \in InQueue',
           PlacesAreCounted'
    PROVE  JobsInv'
<1>1. Job(r) \in Jobs
  BY JobType
<1>2. TypeOK'
  <2>1. pending' \subseteq Jobs
    BY <1>1 DEF TypeOK
  <2> QED BY <2>1 DEF TypeOK
<1>3. QueueBounded'
  <2>1. (TypeOK /\ PlacesAreCounted => QueueBounded)'
    BY PlacesBound, PTL
  <2> QED BY <1>2, <2>1
<1>4. InQueue' \in {InQueue, InQueue \cup {Job(r)}} /\ pending' \subseteq pending \cup {Job(r)}
  BY DEF InQueue
<1>5. NoJobTwice'
  BY DEF NoJobTwice, InQueue
<1>6. RetiredAfterEvaluation'
  <2> SUFFICES ASSUME NEW q \in 1 .. Runs, q # r, NEW p \in 1 .. Points PROVE ExportKept(q, p)'
    BY DEF RetiredAfterEvaluation
  <2>1. <<q, p>> \in Jobs /\ <<q, p>>[1] = q /\ <<q, p>> # Job(r)
    BY JobPairs DEF Job
  <2>2. trainer'[q] = trainer[q] /\ Stage(q)' = Stage(q) /\ Job(q)' = Job(q)
    BY DEF Stage, Job
  <2>3. snapshot'[<<q, p>>] = snapshot[<<q, p>>] /\ (<<q, p>> \in pending' => <<q, p>> \in pending)
    BY <1>4, <2>1
  <2>4. ExportKept(q, p)
    BY DEF RetiredAfterEvaluation
  <2> QED BY <2>2, <2>3, <2>4 DEF ExportKept, Repeated
<1>7. WorkerHasOne' /\ DoneMeansEvaluated' /\ DoneInOrder'
  BY DEF WorkerHasOne, Working, Active, DoneMeansEvaluated, DoneInOrder
<1>8. ASSUME NEW q \in 1 .. Runs, q # r
      PROVE  RunInv(q)' /\ \A p \in 1 .. Points : HasPosted(q, p)' => <<q, p>> \in InQueue'
  <2>1. trainer'[q] = trainer[q] /\ Stage(q)' = Stage(q) /\ Job(q)' = Job(q)
    BY <1>8 DEF Stage, Job
  <2>2. Job(q) # Job(r) /\ Job(q) \in Jobs /\ \A p \in 1 .. Points : <<q, p>> # Job(r)
    BY <1>8, JobType DEF Job
  <2>3. /\ Job(q) \in InQueue' <=> Job(q) \in InQueue
        /\ Job(q) \in pending' => Job(q) \in pending
        /\ \A p \in 1 .. Points : <<q, p>> \in InQueue' <=> <<q, p>> \in InQueue
    BY <1>4, <2>2
  <2>4. RunInv(q) /\ snapshot'[Job(q)] = snapshot[Job(q)]
    BY <1>8, <2>2 DEF Job
  <2>5. RunInv(q)'
    BY <2>1, <2>2, <2>3, <2>4 DEF RunInv, Repeated
  <2>6. \A p \in 1 .. Points : HasPosted(q, p)' => HasPosted(q, p)
    BY <2>1 DEF HasPosted
  <2>7. \A p \in 1 .. Points : HasPosted(q, p)' => <<q, p>> \in InQueue'
    BY <2>3, <2>6 DEF JobsAreNeverLost, InQueue
  <2> QED BY <2>5, <2>7
<1>9. JobsAreNeverLost'
  BY <1>8 DEF JobsAreNeverLost, InQueue
<1>10. \A q \in 1 .. Runs : RunInv(q)'
  BY <1>8
<1> QED BY <1>2, <1>3, <1>5, <1>6, <1>7, <1>9, <1>10

\* A step of one run's hook that takes no place changes nothing but the run.
LEMMA QuietHook ==
    ASSUME JobsInv, NEW r \in 1 .. Runs,
           trainer' \in [1 .. Runs -> HookState],
           \A q \in 1 .. Runs : q # r => trainer'[q] = trainer[q],
           UNCHANGED <<queue, passed, beat, worker>>,
           snapshot' \in [Jobs -> {"none", "complete"}],
           \A j \in Jobs : j[1] # r => snapshot'[j] = snapshot[j],
           \A p \in 1 .. Points : ExportKept(r, p)',
           Stage(r)' # "post", Stage(r)' = "count" => trainer'[r].at = 1,
           RunInv(r)', \A p \in 1 .. Points : HasPosted(r, p)' => <<r, p>> \in InQueue'
    PROVE  JobsInv'
<1>1. UNCHANGED <<pending, running, done, failed>>
  BY DEF queue
<1>2. ASSUME NEW k PROVE Reserved(k)' \subseteq Reserved(k)
  <2>1. ASSUME NEW q \in 1 .. Runs, q \in Reserved(k)' PROVE q \in Reserved(k)
    <3>1. q # r
      BY <2>1 DEF Reserved, Stage
    <3>2. trainer'[q] = trainer[q]
      BY <3>1
    <3> QED BY <2>1, <3>2 DEF Reserved, Stage
  <2> QED BY <2>1 DEF Reserved
<1>4. PlacesAreCounted'
  BY <1>1, <1>2, PlacesStay
<1> QED BY <1>1, <1>4, HookStep

\* A run is in a stage, at a place, with a count.
LEMMA HookFacts ==
    ASSUME TypeOK, NEW r \in 1 .. Runs
    PROVE  /\ trainer[r] \in HookState
           /\ trainer[r].point \in 1 .. Points /\ trainer[r].at \in 1 .. 3 /\ trainer[r].count \in Nat
           /\ trainer[r].spare \in Nat
           /\ trainer[r].late \in BOOLEAN
BY DEF TypeOK, HookState

\* The updates of a run's state that its hook makes.
Stages == SaveStages \cup {"training", "finished", "stopped"}

LEMMA HookUpdates ==
    ASSUME NEW t \in HookState, NEW stage \in Stages, NEW at \in 1 .. 3, NEW n \in Nat,
           NEW p \in 1 .. Points, NEW spare \in Nat
    PROVE  /\ [t EXCEPT !.stage = stage, !.at = at] \in HookState
           /\ [t EXCEPT !.count = n, !.at = at, !.stage = stage] \in HookState
           /\ [t EXCEPT !.stage = stage, !.at = at, !.count = n] \in HookState
           /\ [t EXCEPT !.stage = stage, !.point = p, !.late = FALSE, !.at = at, !.count = n] \in HookState
           /\ [t EXCEPT !.stage = stage, !.spare = spare, !.late = FALSE, !.at = at, !.count = n] \in HookState
           /\ [t EXCEPT !.stage = stage, !.late = FALSE] \in HookState
           /\ [t EXCEPT !.late = TRUE] \in HookState
<1>1. /\ [t EXCEPT !.stage = stage, !.at = at] \in HookState
      /\ [t EXCEPT !.count = n, !.at = at, !.stage = stage] \in HookState
      /\ [t EXCEPT !.stage = stage, !.at = at, !.count = n] \in HookState
  BY Zenon DEF HookState, Stages
<1>2. FALSE \in BOOLEAN /\ TRUE \in BOOLEAN
  OBVIOUS
<1>3. [t EXCEPT !.stage = stage, !.point = p, !.late = FALSE, !.at = at, !.count = n] \in HookState
  BY <1>2, Zenon DEF HookState, Stages
<1>4. [t EXCEPT !.stage = stage, !.spare = spare, !.late = FALSE, !.at = at, !.count = n] \in HookState
  BY <1>2, Zenon DEF HookState, Stages
<1>5. /\ [t EXCEPT !.stage = stage, !.late = FALSE] \in HookState
      /\ [t EXCEPT !.late = TRUE] \in HookState
  BY <1>2, Zenon DEF HookState, Stages
<1> QED BY <1>1, <1>3, <1>4, <1>5

\* A run's state is replaced.
LEMMA HookReplaced ==
    ASSUME TypeOK, NEW r \in 1 .. Runs, NEW t \in HookState, trainer' = [trainer EXCEPT ![r] = t]
    PROVE  /\ trainer' \in [1 .. Runs -> HookState] /\ trainer'[r] = t
           /\ \A q \in 1 .. Runs : q # r => trainer'[q] = trainer[q]
BY DEF TypeOK

\* The exports stay in place.
LEMMA SnapshotsStay ==
    ASSUME TypeOK, NEW r \in 1 .. Runs, snapshot' = snapshot
    PROVE  /\ snapshot' \in [Jobs -> {"none", "complete"}]
           /\ \A j \in Jobs : j[1] # r => snapshot'[j] = snapshot[j]
BY DEF TypeOK

\* A run that has its export keeps it.
LEMMA ExportsStay ==
    ASSUME JobsInv, NEW r \in 1 .. Runs, Stage(r) \notin {"training", "exporting", "stopped"},
           UNCHANGED <<running, snapshot, passed>>,
           \/ pending' = pending
           \/ pending' = pending \cup {Job(r)} /\ snapshot[Job(r)] # "none"
    PROVE  \A p \in 1 .. Points : ExportKept(r, p)'
<1> SUFFICES ASSUME NEW p \in 1 .. Points PROVE ExportKept(r, p)'
  OBVIOUS
<1>1. ExportKept(r, p)
  BY DEF RetiredAfterEvaluation
<1>2. <<r, p>> \in pending' \cup running' => <<r, p>> \in pending \cup running \/ snapshot[<<r, p>>] # "none"
  OBVIOUS
<1> QED BY <1>1, <1>2 DEF ExportKept

\* An exception leaves the run at its point.
LEMMA RaiseInv ==
    ASSUME JobsInv, NEW r \in 1 .. Runs, Raise(r), UNCHANGED <<queue, snapshot, passed, beat, worker>>
    PROVE  JobsInv'
<1> DEFINE stage == IF trainer[r].stage = "training" \/ trainer[r].spare = 0 THEN "stopped" ELSE "training"
           spare == IF trainer[r].spare = 0 THEN 0 ELSE trainer[r].spare - 1
           t == [trainer[r] EXCEPT !.stage = stage, !.spare = spare, !.late = FALSE, !.at = 1, !.count = 0]
<1>1. trainer' = [trainer EXCEPT ![r] = t]
  BY DEF Raise, TypeOK
<1>2. /\ t.stage \in {"stopped", "training"} /\ t.point = trainer[r].point /\ t.at = 1 /\ t \in HookState
      /\ t.spare <= trainer[r].spare /\ (t.stage # "stopped" => t.spare < trainer[r].spare)
  <2>1. /\ spare \in Nat /\ stage \in {"stopped", "training"}
        /\ spare <= trainer[r].spare /\ (stage # "stopped" => spare < trainer[r].spare)
    BY HookFacts
  <2> HIDE DEF spare, stage
  <2>2. t \in HookState
    <3>1. stage \in Stages /\ 0 \in Nat /\ 1 \in 1 .. 3 /\ trainer[r] \in HookState /\ trainer[r].point \in 1 .. Points
      BY <2>1, HookFacts DEF Stages
    <3> QED BY <2>1, <3>1, HookUpdates
  <2>3. trainer[r] \in HookState
    BY HookFacts
  <2>4. t.stage = stage /\ t.point = trainer[r].point /\ t.at = 1 /\ t.spare = spare
    BY <2>3 DEF HookState
  <2> QED BY <2>1, <2>2, <2>4
<1> HIDE DEF t
<1>3. /\ trainer' \in [1 .. Runs -> HookState] /\ trainer'[r] = t
      /\ \A q \in 1 .. Runs : q # r => trainer'[q] = trainer[q]
  BY <1>1, <1>2, HookReplaced
<1>4. Stage(r)' \in {"stopped", "training"} /\ trainer'[r].point = trainer[r].point /\ Job(r)' = Job(r)
  BY <1>2, <1>3 DEF Stage, Job
<1>5. InQueue' = InQueue /\ snapshot' = snapshot /\ snapshot \in [Jobs -> {"none", "complete"}]
  BY DEF queue, InQueue, TypeOK
<1>6. /\ trainer'[r].spare \in Nat /\ trainer[r].spare \in Nat /\ Spare[r] \in Nat
      /\ trainer[r].spare <= Spare[r] /\ trainer'[r].spare <= trainer[r].spare
      /\ Stage(r)' # "stopped" => trainer'[r].spare < trainer[r].spare
  <2>1. t.spare \in Nat /\ trainer[r].spare \in Nat
    BY <1>2, HookFacts DEF HookState
  <2>2. trainer[r].spare <= Spare[r] /\ Spare[r] \in Nat
    BY DEF RunInv
  <2> QED BY <1>2, <1>3, <2>1, <2>2 DEF Stage
<1>7. trainer'[r].spare <= Spare[r] /\ (Stage(r)' # "stopped" => Repeated(r)') /\ (Repeated(r) => Repeated(r)')
  BY <1>6 DEF Repeated
<1>8. RunInv(r)'
  <2>1. \A p \in 1 .. Points : <<r, p>> \in InQueue' => p <= trainer'[r].point
    BY <1>4, <1>5 DEF RunInv
  <2> QED BY <1>4, <1>5, <1>7, <2>1 DEF RunInv
<1>9. \A p \in 1 .. Points : HasPosted(r, p)' => <<r, p>> \in InQueue'
  BY <1>4, <1>5 DEF HasPosted, JobsAreNeverLost, InQueue
<1>10. ASSUME NEW p \in 1 .. Points PROVE ExportKept(r, p)'
  <2>1. ExportKept(r, p)
    BY DEF RetiredAfterEvaluation
  <2> QED BY <1>4, <1>7, <2>1 DEF ExportKept, queue
<1> QED BY <1>3, <1>4, <1>5, <1>8, <1>9, <1>10, QuietHook

\* A hook that goes on within its point, and takes no place yet.
LEMMA GoesOnInv ==
    ASSUME JobsInv, NEW r \in 1 .. Runs,
           NEW stage \in SaveStages \ {"post", "posted", "drain"}, NEW at \in 1 .. 3,
           Stage(r) \notin {"posted", "drain", "finished", "stopped"},
           trainer' = [trainer EXCEPT ![r].stage = stage, ![r].at = at],
           stage = "count" => at = 1,
           UNCHANGED <<queue, passed, beat, worker>>,
           snapshot' \in [Jobs -> {"none", "complete"}],
           \A j \in Jobs : j[1] # r => snapshot'[j] = snapshot[j],
           \A p \in 1 .. Points : ExportKept(r, p)',
           stage = "look" /\ at >= 2 => Job(r) \notin pending,
           stage = "look" /\ at = 3 => Job(r) \notin running,
           stage = "count" => Job(r) \notin InQueue,
           stage \in {"compare", "read"} => Job(r) \in InQueue,
           stage \in {"check", "look", "count"} /\ Job(r) \notin InQueue => snapshot'[Job(r)] # "none"
    PROVE  JobsInv'
<1> DEFINE t == [trainer[r] EXCEPT !.stage = stage, !.at = at]
<1>1. trainer' = [trainer EXCEPT ![r] = t]
  BY DEF TypeOK
<1>2. /\ t.stage = stage /\ t.at = at /\ t.point = trainer[r].point /\ t.spare = trainer[r].spare
      /\ t \in HookState
  <2>1. trainer[r] \in HookState /\ stage \in Stages
    BY HookFacts DEF Stages
  <2>2. t \in HookState
    BY <2>1, HookUpdates, HookFacts
  <2> QED BY <2>1, <2>2 DEF HookState
<1> HIDE DEF t
<1>3. /\ trainer' \in [1 .. Runs -> HookState] /\ trainer'[r] = t
      /\ \A q \in 1 .. Runs : q # r => trainer'[q] = trainer[q]
  <2>1. TypeOK /\ t \in HookState
    BY <1>2
  <2> QED BY <1>1, <2>1, HookReplaced
<1>4. /\ Stage(r)' = stage /\ trainer'[r].at = at
      /\ trainer'[r].point = trainer[r].point /\ Job(r)' = Job(r)
      /\ trainer'[r].spare = trainer[r].spare /\ Repeated(r)' = Repeated(r)
  BY <1>2, <1>3 DEF Stage, Job, Repeated
<1>5. InQueue' = InQueue /\ pending' = pending /\ running' = running /\ done' = done
  BY DEF queue, InQueue
<1>6. RunInv(r)'
  <2>1. stage \notin {"post", "posted", "drain", "finished"} /\ RunInv(r)
    BY DEF SaveStages
  <2>2. \A p \in 1 .. Points : <<r, p>> \in InQueue' => p <= trainer'[r].point
    BY <1>4, <1>5, <2>1 DEF RunInv
  <2>3. /\ Stage(r)' \in {"check", "look", "count", "post"} /\ Job(r)' \notin InQueue' => snapshot'[Job(r)'] # "none"
        /\ Stage(r)' \in {"compare", "read"} => Job(r)' \in InQueue'
        /\ Stage(r)' \in {"count", "post"} => Job(r)' \notin InQueue'
    BY <1>4, <1>5, <2>1
  <2>4. /\ Stage(r)' = "look" /\ trainer'[r].at >= 2 => Job(r)' \notin pending'
        /\ Stage(r)' = "look" /\ trainer'[r].at = 3 => Job(r)' \notin running'
        /\ Stage(r)' = "count" => trainer'[r].at # 3
        /\ Stage(r)' \notin {"posted", "drain", "finished"}
    BY <1>4, <1>5, <2>1
  <2>5. trainer'[r].spare <= Spare[r] /\ (Job(r)' \in InQueue' => Repeated(r)')
    BY <1>4, <1>5, <2>1 DEF RunInv
  <2> QED BY <2>2, <2>3, <2>4, <2>5 DEF RunInv
<1>7. \A p \in 1 .. Points : HasPosted(r, p)' => <<r, p>> \in InQueue'
  BY <1>4, <1>5 DEF HasPosted, JobsAreNeverLost, InQueue, SaveStages
<1>8. Stage(r)' # "post" /\ (Stage(r)' = "count" => trainer'[r].at = 1)
  BY <1>4
<1> QED BY <1>3, <1>6, <1>7, <1>8, QuietHook

\* A hook whose job is posted returns, or goes on to the drain.
LEMMA PostedMoves ==
    ASSUME TypeOK, NEW r \in 1 .. Runs, trainer' = Posted(r)
    PROVE  /\ trainer' \in [1 .. Runs -> HookState]
           /\ \A q \in 1 .. Runs : q # r => trainer'[q] = trainer[q]
           /\ Stage(r)' = IF trainer[r].point = Points THEN "drain" ELSE "posted"
           /\ trainer'[r].point = trainer[r].point /\ trainer'[r].spare = trainer[r].spare
<1> DEFINE stage == IF trainer[r].point = Points THEN "drain" ELSE "posted"
           t == [trainer[r] EXCEPT !.stage = stage, !.at = 1, !.count = 0]
<1>1. trainer' = [trainer EXCEPT ![r] = t]
  BY DEF Posted, TypeOK
<1>2. t \in HookState
  <2>1. stage \in Stages
    BY DEF Stages, SaveStages
  <2>2. 0 \in Nat /\ 1 \in 1 .. 3
    OBVIOUS
  <2> HIDE DEF stage
  <2> QED BY <2>1, <2>2, HookFacts, HookUpdates
<1>3. t.stage = stage /\ t.point = trainer[r].point /\ t.spare = trainer[r].spare
  BY HookFacts DEF HookState
<1> HIDE DEF t
<1> QED BY <1>1, <1>2, <1>3, HookReplaced DEF Stage

\* What has been posted is in the queue.
LEMMA PostedFacts ==
    ASSUME JobsInv, NEW r \in 1 .. Runs, trainer' = Posted(r),
           InQueue' = InQueue \cup {Job(r)}
    PROVE  /\ RunInv(r)' /\ Stage(r)' \in {"drain", "posted"}
           /\ \A p \in 1 .. Points : HasPosted(r, p)' => <<r, p>> \in InQueue'
<1>1. /\ Stage(r)' = IF trainer[r].point = Points THEN "drain" ELSE "posted"
      /\ trainer'[r].point = trainer[r].point /\ trainer'[r].spare = trainer[r].spare
  BY PostedMoves
<1>2. /\ trainer[r].point \in 1 .. Points /\ Job(r) = <<r, trainer[r].point>>
      /\ \A p \in 1 .. Points : Job(r) = <<r, p>> <=> p = trainer[r].point
  BY JobType
<1>3. \A p \in 1 .. Points : <<r, p>> \in InQueue' => p <= trainer'[r].point
  <2>1. \A p \in 1 .. Points : <<r, p>> \in InQueue => p <= trainer[r].point
    BY DEF RunInv
  <2> QED BY <1>1, <1>2, <2>1
<1>4. RunInv(r)'
  <2>1. trainer'[r].spare <= Spare[r]
    BY <1>1 DEF RunInv
  <2>2. Stage(r)' = "posted" => trainer'[r].point < Points
    BY <1>1, <1>2
  <2>3. Stage(r)' \in {"drain", "posted"} /\ (Stage(r)' = "drain" => trainer'[r].point = Points)
    BY <1>1
  <2> QED BY <1>3, <2>1, <2>2, <2>3 DEF RunInv
<1>5. \A p \in 1 .. Points : HasPosted(r, p)' => <<r, p>> \in InQueue'
  <2> SUFFICES ASSUME NEW p \in 1 .. Points, HasPosted(r, p)' PROVE <<r, p>> \in InQueue'
    OBVIOUS
  <2>1. p <= trainer[r].point
    BY <1>1, <1>2 DEF HasPosted
  <2>2. p < trainer[r].point => <<r, p>> \in InQueue
    BY <1>2 DEF HasPosted, JobsAreNeverLost, InQueue
  <2> QED BY <1>2, <2>1, <2>2
<1> QED BY <1>1, <1>4, <1>5

\* A job that is found where it was posted before is not posted again.
LEMMA FoundInv ==
    ASSUME JobsInv, NEW r \in 1 .. Runs, Job(r) \in InQueue, trainer' = Posted(r),
           Stage(r) \in {"compare", "read"},
           UNCHANGED <<queue, snapshot, passed, beat, worker>>
    PROVE  JobsInv'
<1>1. InQueue' = InQueue \cup {Job(r)}
  BY DEF queue, InQueue
<1>2. /\ RunInv(r)' /\ Stage(r)' \in {"drain", "posted"}
      /\ \A p \in 1 .. Points : HasPosted(r, p)' => <<r, p>> \in InQueue'
  BY <1>1, PostedFacts
<1>3. \A p \in 1 .. Points : ExportKept(r, p)'
  BY ExportsStay DEF queue
<1> QED BY <1>2, <1>3, SnapshotsStay, PostedMoves, QuietHook

\* The reply of a save takes the run to its next point.
LEMMA ReturnsInv ==
    ASSUME JobsInv, NEW r \in 1 .. Runs, SaveReturns(r)
    PROVE  JobsInv'
<1> DEFINE t == [trainer[r] EXCEPT !.stage = "training", !.point = trainer[r].point + 1, !.late = FALSE]
<1>1. UNCHANGED <<queue, snapshot, passed, beat, worker>> /\ Stage(r) = "posted"
  BY DEF SaveReturns
<1>2. trainer' = [trainer EXCEPT ![r] = t]
  BY DEF SaveReturns, TypeOK
<1>3. /\ trainer[r].point \in 1 .. Points /\ trainer[r].point < Points /\ trainer[r].point + 1 \in 1 .. Points
      /\ trainer[r] \in HookState
  BY <1>1, HookFacts DEF RunInv
<1>4. /\ t \in HookState /\ t.stage = "training" /\ t.point = trainer[r].point + 1 /\ t.spare = trainer[r].spare
  <2> DEFINE p == trainer[r].point + 1
  <2>1. p \in 1 .. Points /\ "training" \in Stages /\ FALSE \in BOOLEAN
    BY <1>3 DEF Stages
  <2> HIDE DEF p
  <2>2. [trainer[r] EXCEPT !.stage = "training", !.point = p, !.late = FALSE] \in HookState
    BY <1>3, <2>1, Zenon DEF HookState, Stages
  <2>3. t \in HookState
    BY <2>2 DEF p
  <2> QED BY <1>3, <2>3 DEF HookState
<1> HIDE DEF t
<1>5. /\ trainer' \in [1 .. Runs -> HookState] /\ trainer'[r] = t
      /\ \A q \in 1 .. Runs : q # r => trainer'[q] = trainer[q]
  BY <1>2, <1>4, HookReplaced
<1>6. /\ Stage(r)' = "training" /\ trainer'[r].point = trainer[r].point + 1
      /\ trainer'[r].spare = trainer[r].spare
  BY <1>4, <1>5 DEF Stage
<1>7. InQueue' = InQueue
  BY <1>1 DEF queue, InQueue
<1>8. \A p \in 1 .. Points : <<r, p>> \in InQueue' => p <= trainer[r].point
  BY <1>7 DEF RunInv
<1>9. RunInv(r)'
  <2>1. \A p \in 1 .. Points : <<r, p>> \in InQueue' => p <= trainer'[r].point
    BY <1>3, <1>6, <1>8
  <2>2. Job(r)' \notin InQueue'
    BY <1>3, <1>6, <1>8 DEF Job
  <2>3. trainer'[r].spare <= Spare[r]
    BY <1>6 DEF RunInv
  <2> QED BY <1>6, <2>1, <2>2, <2>3 DEF RunInv
<1>10. \A p \in 1 .. Points : HasPosted(r, p)' => <<r, p>> \in InQueue'
  <2> SUFFICES ASSUME NEW p \in 1 .. Points, HasPosted(r, p)' PROVE HasPosted(r, p)
    BY <1>7 DEF JobsAreNeverLost, InQueue
  <2>1. trainer[r].point + 1 > p
    BY <1>6 DEF HasPosted
  <2>2. trainer[r].point > p \/ trainer[r].point = p
    BY <1>3, <2>1
  <2> QED BY <1>1, <2>2 DEF HasPosted
<1>11. \A p \in 1 .. Points : ExportKept(r, p)'
  BY <1>1, ExportsStay DEF queue
<1> QED BY <1>1, <1>5, <1>6, <1>9, <1>10, <1>11, SnapshotsStay, QuietHook

\* A hook that stays at its place, or in its stage.
LEMMA SamePlace ==
    ASSUME TypeOK, NEW r \in 1 .. Runs, NEW s, NEW a
    PROVE  /\ [trainer EXCEPT ![r].stage = s] = [trainer EXCEPT ![r].stage = s, ![r].at = trainer[r].at]
           /\ [trainer EXCEPT ![r].at = a] = [trainer EXCEPT ![r].stage = Stage(r), ![r].at = a]
<1>1. trainer[r] \in HookState /\ trainer \in [1 .. Runs -> HookState]
  BY DEF TypeOK
<1>2. [trainer[r] EXCEPT !.stage = s] = [trainer[r] EXCEPT !.stage = s, !.at = trainer[r].at]
  BY <1>1 DEF HookState
<1>3. [trainer[r] EXCEPT !.at = a] = [trainer[r] EXCEPT !.stage = trainer[r].stage, !.at = a]
  BY <1>1 DEF HookState
<1> QED BY <1>1, <1>2, <1>3 DEF Stage

\* The export of a queued job is replaced by a repeated save only.
LEMMA ExportInv ==
    ASSUME JobsInv, NEW r \in 1 .. Runs, Export(r) \/ ExportEnds(r)
    PROVE  JobsInv'
<1>1. UNCHANGED <<queue, passed, beat, worker>> /\ Stage(r) \in {"training", "exporting"}
  BY DEF Export, ExportEnds
<1>2. PICK s \in {"exporting", "digest"}, e \in {"none", "complete"} :
        /\ trainer' = [trainer EXCEPT ![r].stage = s] /\ snapshot' = [snapshot EXCEPT ![Job(r)] = e]
        /\ (e = "none" => s = "exporting")
  BY DEF Export, ExportEnds
<1>3. trainer' = [trainer EXCEPT ![r].stage = s, ![r].at = trainer[r].at]
  BY <1>2, SamePlace
<1>4. s \in SaveStages \ {"post", "posted", "drain"} /\ s \notin {"check", "look", "compare", "read", "count"}
  BY DEF SaveStages
<1>5. trainer[r].at \in 1 .. 3
  BY HookFacts
<1>6. Job(r) \in Jobs /\ Job(r)[1] = r /\ snapshot \in [Jobs -> {"none", "complete"}]
  BY JobType DEF Job, TypeOK
<1>7. /\ snapshot' \in [Jobs -> {"none", "complete"}] /\ snapshot'[Job(r)] = e
      /\ \A j \in Jobs : j # Job(r) => snapshot'[j] = snapshot[j]
  BY <1>2, <1>6
<1>8. \A j \in Jobs : j[1] # r => snapshot'[j] = snapshot[j]
  BY <1>6, <1>7
<1>9. ASSUME NEW p \in 1 .. Points PROVE ExportKept(r, p)'
  <2>1. /\ trainer'[r].stage = s /\ trainer'[r].point = trainer[r].point /\ trainer'[r].spare = trainer[r].spare
    BY <1>2 DEF TypeOK, HookState
  <2>2. Stage(r)' = s /\ Job(r)' = Job(r) /\ Repeated(r)' = Repeated(r)
    BY <2>1 DEF Stage, Job, Repeated
  <2>3. Job(r) \in InQueue => Repeated(r)
    BY <1>1 DEF RunInv
  <2>4. CASE <<r, p>> = Job(r)
    BY <1>1, <1>2, <1>7, <2>2, <2>3, <2>4 DEF ExportKept, queue, InQueue
  <2>5. CASE <<r, p>> # Job(r)
    <3>1. snapshot'[<<r, p>>] = snapshot[<<r, p>>]
      BY <1>7, <2>5, JobPairs
    <3>2. ExportKept(r, p)
      BY DEF RetiredAfterEvaluation
    <3> QED BY <1>1, <2>5, <3>1, <3>2 DEF ExportKept, queue
  <2> QED BY <2>4, <2>5
<1> QED BY <1>1, <1>3, <1>4, <1>5, <1>7, <1>8, <1>9, GoesOnInv

\* The digest is there, and the worker is looked at.
LEMMA DigestInv ==
    ASSUME JobsInv, NEW r \in 1 .. Runs, Digest(r)
    PROVE  JobsInv'
<1>1. UNCHANGED <<queue, snapshot, passed, beat, worker>> /\ Stage(r) = "digest"
  BY DEF Digest
<1>kept. \A p \in 1 .. Points : ExportKept(r, p)'
  BY <1>1, ExportsStay DEF queue
<1>2. CASE snapshot[Job(r)] = "complete"
  <2>1. trainer' = [trainer EXCEPT ![r].stage = "check"]
    BY <1>2 DEF Digest
  <2>2. trainer' = [trainer EXCEPT ![r].stage = "check", ![r].at = trainer[r].at]
    BY <2>1, SamePlace
  <2>3. "check" \in SaveStages \ {"post", "posted", "drain"} /\ trainer[r].at \in 1 .. 3
    BY HookFacts DEF SaveStages
  <2>4. snapshot'[Job(r)] # "none"
    BY <1>1, <1>2
  <2> QED BY <1>1, <2>2, <2>3, <2>4, SnapshotsStay, <1>kept, GoesOnInv
<1>3. CASE snapshot[Job(r)] # "complete"
  BY <1>1, <1>3, RaiseInv DEF Digest
<1> QED BY <1>2, <1>3

LEMMA CheckWorkerInv ==
    ASSUME JobsInv, NEW r \in 1 .. Runs, CheckWorker(r)
    PROVE  JobsInv'
<1>1. UNCHANGED <<queue, snapshot, passed, beat, worker>> /\ Stage(r) = "check"
  BY DEF CheckWorker
<1>kept. \A p \in 1 .. Points : ExportKept(r, p)'
  BY <1>1, ExportsStay DEF queue
<1>2. CASE WorkerHealthy /\ ~Late(r)
  <2>1. trainer' = [trainer EXCEPT ![r].stage = "look", ![r].at = 1]
    BY <1>2 DEF CheckWorker
  <2>2. "look" \in SaveStages \ {"post", "posted", "drain"} /\ 1 \in 1 .. 3
    BY DEF SaveStages
  <2>3. Job(r) \notin InQueue => snapshot'[Job(r)] # "none"
    BY <1>1 DEF RunInv
  <2>4. ~(1 >= 2) /\ 1 # 3
    OBVIOUS
  <2> HIDE DEF WorkerHealthy, Late
  <2> QED BY <1>1, <2>1, <2>2, <2>3, <2>4, SnapshotsStay, <1>kept, GoesOnInv
<1>3. CASE ~(WorkerHealthy /\ ~Late(r))
  BY <1>1, <1>3, RaiseInv DEF CheckWorker
<1> QED BY <1>2, <1>3

\* A job that is in no directory is found in none.
LEMMA LookInv ==
    ASSUME JobsInv, NEW r \in 1 .. Runs, Look(r)
    PROVE  JobsInv'
<1>1. UNCHANGED <<queue, snapshot, passed, beat, worker>> /\ Stage(r) = "look"
  BY DEF Look
<1>kept. \A p \in 1 .. Points : ExportKept(r, p)'
  BY <1>1, ExportsStay DEF queue
<1>2. /\ trainer[r].at >= 2 => Job(r) \notin pending
      /\ trainer[r].at = 3 => Job(r) \notin running
      /\ Job(r) \notin InQueue => snapshot[Job(r)] # "none"
  BY <1>1 DEF RunInv
<1>3. /\ Places[1] = pending /\ Places[2] = running /\ Places[3] = done
      /\ trainer[r].at \in 1 .. 3 /\ trainer[r].at \in {1, 2, 3}
  <2>1. trainer[r].at \in 1 .. 3
    BY HookFacts
  <2>2. Places[1] = pending /\ Places[2] = running /\ Places[3] = done
    BY DEF Places
  <2> QED BY <2>1, <2>2
<1>4. {"look", "compare", "count"} \subseteq SaveStages \ {"post", "posted", "drain"} /\ 1 \in 1 .. 3
  BY DEF SaveStages
<1>5. CASE Job(r) \in Places[trainer[r].at]
  <2>1. trainer' = [trainer EXCEPT ![r].stage = "compare", ![r].at = 1]
    BY <1>5 DEF Look
  <2>2. Job(r) \in InQueue
    BY <1>3, <1>5 DEF InQueue
  <2> QED BY <1>1, <1>4, <2>1, <2>2, SnapshotsStay, <1>kept, GoesOnInv
<1>6. CASE Job(r) \notin Places[trainer[r].at] /\ trainer[r].at < 3
  <2>1. trainer' = [trainer EXCEPT ![r].at = @ + 1] /\ trainer[r].at + 1 \in 1 .. 3
    BY <1>3, <1>6 DEF Look
  <2>2. trainer' = [trainer EXCEPT ![r].stage = "look", ![r].at = trainer[r].at + 1]
    <3>1. trainer' = [trainer EXCEPT ![r].at = trainer[r].at + 1]
      BY <2>1
    <3>2. [trainer EXCEPT ![r].at = trainer[r].at + 1]
            = [trainer EXCEPT ![r].stage = Stage(r), ![r].at = trainer[r].at + 1]
      BY SamePlace
    <3> QED BY <1>1, <3>1, <3>2
  <2>3. /\ trainer[r].at + 1 >= 2 => Job(r) \notin pending
        /\ trainer[r].at + 1 = 3 => Job(r) \notin running
    BY <1>2, <1>3, <1>6
  <2>4. Job(r) \notin InQueue => snapshot'[Job(r)] # "none"
    BY <1>1, <1>2
  <2> DEFINE at == trainer[r].at + 1
  <2>5. at \in 1 .. 3 /\ "look" \in SaveStages \ {"post", "posted", "drain"} /\ trainer' = [trainer EXCEPT ![r].stage = "look", ![r].at = at]
    BY <1>4, <2>1, <2>2
  <2>6. (at >= 2 => Job(r) \notin pending) /\ (at = 3 => Job(r) \notin running)
    BY <2>3
  <2> HIDE DEF at
  <2> QED BY <1>1, <2>4, <2>5, <2>6, SnapshotsStay, <1>kept, GoesOnInv
<1>7. CASE Job(r) \notin Places[trainer[r].at] /\ ~(trainer[r].at < 3)
  <2>1. trainer' = [trainer EXCEPT ![r].stage = "count", ![r].at = 1]
    BY <1>7 DEF Look
  <2>2. Job(r) \notin InQueue /\ snapshot'[Job(r)] # "none"
    BY <1>1, <1>2, <1>3, <1>7 DEF InQueue
  <2> QED BY <1>1, <1>4, <2>1, <2>2, SnapshotsStay, <1>kept, GoesOnInv
<1> QED BY <1>5, <1>6, <1>7

\* A job that was found is read back where it still is.
LEMMA CompareInv ==
    ASSUME JobsInv, NEW r \in 1 .. Runs, Compare(r) \/ ReadBack(r)
    PROVE  JobsInv'
<1>1. UNCHANGED <<queue, snapshot, passed, beat, worker>> /\ Stage(r) \in {"compare", "read"}
  BY DEF Compare, ReadBack
<1>kept. \A p \in 1 .. Points : ExportKept(r, p)'
  BY <1>1, ExportsStay DEF queue
<1>2. Job(r) \in InQueue
  BY <1>1 DEF RunInv
<1>3. {"compare", "read"} \subseteq SaveStages \ {"post", "posted", "drain"} /\ trainer[r].at \in 1 .. 3
  BY HookFacts DEF SaveStages
<1>4. CASE Raise(r)
  BY <1>1, <1>4, RaiseInv
<1>5. CASE trainer' = Posted(r)
  BY <1>1, <1>2, <1>5, FoundInv
<1>6. CASE trainer' = [trainer EXCEPT ![r].stage = "read"]
  <2>1. trainer' = [trainer EXCEPT ![r].stage = "read", ![r].at = trainer[r].at]
    BY <1>6, SamePlace
  <2> QED BY <1>1, <1>2, <1>3, <2>1, SnapshotsStay, <1>kept, GoesOnInv
<1>7. CASE trainer[r].at < 3 /\ trainer' \in {[trainer EXCEPT ![r].at = @ + 1],
                                              [trainer EXCEPT ![r].stage = "compare", ![r].at = @ + 1]}
  <2>1. trainer[r].at + 1 \in 1 .. 3
    BY <1>3, <1>7
  <2>2. PICK s \in {"compare", "read"} : trainer' = [trainer EXCEPT ![r].stage = s, ![r].at = trainer[r].at + 1]
    <3>1. CASE trainer' = [trainer EXCEPT ![r].at = @ + 1]
      BY <1>1, <3>1, SamePlace
    <3>2. CASE trainer' = [trainer EXCEPT ![r].stage = "compare", ![r].at = @ + 1]
      <4>1. trainer' = [trainer EXCEPT ![r].stage = "compare", ![r].at = trainer[r].at + 1]
        BY <3>2 DEF TypeOK, HookState
      <4> QED BY <4>1
    <3> QED BY <1>7, <3>1, <3>2
  <2> QED BY <1>1, <1>2, <1>3, <2>1, <2>2, SnapshotsStay, <1>kept, GoesOnInv
<1> QED BY <1>4, <1>5, <1>6, <1>7 DEF Compare, ReadBack

\* The hour passes: the run stays where it is.
LEMMA DeadlineInv ==
    ASSUME JobsInv, NEW r \in 1 .. Runs, DeadlinePasses(r)
    PROVE  JobsInv'
<1> DEFINE t == [trainer[r] EXCEPT !.late = TRUE]
<1>1. /\ UNCHANGED <<queue, snapshot, passed, beat, worker>>
      /\ Stage(r) \notin {"training", "exporting", "stopped"}
  BY DEF DeadlinePasses, SaveStages
<1>kept. \A p \in 1 .. Points : ExportKept(r, p)'
  BY <1>1, ExportsStay DEF queue
<1>2. trainer' = [trainer EXCEPT ![r] = t]
  BY DEF DeadlinePasses, TypeOK
<1>3. t \in HookState
  <2>1. "check" \in Stages /\ 1 \in 1 .. 3 /\ 0 \in Nat
    BY DEF Stages, SaveStages
  <2> QED BY <2>1, HookFacts, HookUpdates
<1>4. /\ t.stage = trainer[r].stage /\ t.point = trainer[r].point /\ t.at = trainer[r].at
      /\ t.count = trainer[r].count /\ t.spare = trainer[r].spare
  BY HookFacts DEF HookState
<1> HIDE DEF t
<1>5. /\ trainer' \in [1 .. Runs -> HookState] /\ trainer'[r] = t
      /\ \A q \in 1 .. Runs : q # r => trainer'[q] = trainer[q]
  BY <1>2, <1>3, HookReplaced
<1>6. \A q \in 1 .. Runs : /\ trainer'[q].stage = trainer[q].stage /\ trainer'[q].at = trainer[q].at
                           /\ trainer'[q].count = trainer[q].count /\ trainer'[q].point = trainer[q].point
                           /\ trainer'[q].spare = trainer[q].spare
  BY <1>4, <1>5
<1>7. \A k : Reserved(k)' = Reserved(k)
  BY <1>6 DEF Reserved, Stage
<1>8. PlacesAreCounted'
  BY <1>1, <1>7, PlacesStay DEF queue
<1>9. InQueue' = InQueue /\ pending' = pending /\ running' = running /\ done' = done /\ failed' = failed
  BY <1>1 DEF queue, InQueue
<1>10. Stage(r)' = Stage(r) /\ Job(r)' = Job(r) /\ Repeated(r)' = Repeated(r)
  BY <1>6 DEF Stage, Job, Repeated
<1>11. RunInv(r)'
  <2>1. RunInv(r)
    OBVIOUS
  <2> QED BY <1>1, <1>6, <1>9, <1>10, <2>1 DEF RunInv
<1>12. \A p \in 1 .. Points : HasPosted(r, p)' => <<r, p>> \in InQueue'
  BY <1>6, <1>9, <1>10 DEF HasPosted, JobsAreNeverLost, InQueue
<1> QED BY <1>1, <1>5, <1>8, <1>9, <1>11, <1>12, SnapshotsStay, <1>kept, HookStep

\* The final job is done, or the wait for it is given up.
LEMMA DrainInv ==
    ASSUME JobsInv, NEW r \in 1 .. Runs, Drain(r)
    PROVE  JobsInv'
<1>1. UNCHANGED <<queue, snapshot, passed, beat, worker>> /\ Stage(r) = "drain"
  BY DEF Drain
<1>kept. \A p \in 1 .. Points : ExportKept(r, p)'
  BY <1>1, ExportsStay DEF queue
<1>2. CASE Raise(r)
  BY <1>1, <1>2, RaiseInv
<1>3. CASE Drained(r) /\ trainer' = [trainer EXCEPT ![r].stage = "finished", ![r].late = FALSE]
  <2> DEFINE t == [trainer[r] EXCEPT !.stage = "finished", !.late = FALSE]
  <2>1. trainer' = [trainer EXCEPT ![r] = t]
    BY <1>3 DEF TypeOK
  <2>2. t \in HookState
    <3>1. "finished" \in Stages /\ 1 \in 1 .. 3 /\ 0 \in Nat
      BY DEF Stages
    <3> QED BY <3>1, HookFacts, HookUpdates
  <2>3. t.stage = "finished" /\ t.point = trainer[r].point /\ t.spare = trainer[r].spare
    BY HookFacts DEF HookState
  <2> HIDE DEF t
  <2>4. /\ trainer' \in [1 .. Runs -> HookState] /\ trainer'[r] = t
        /\ \A q \in 1 .. Runs : q # r => trainer'[q] = trainer[q]
    BY <2>1, <2>2, HookReplaced
  <2>5. /\ Stage(r)' = "finished" /\ Job(r)' = Job(r)
        /\ trainer'[r].point = trainer[r].point /\ trainer'[r].spare = trainer[r].spare
    BY <2>3, <2>4 DEF Stage, Job
  <2>6. InQueue' = InQueue /\ done' = done
    BY <1>1 DEF queue, InQueue
  <2>7. Job(r) \in done /\ trainer[r].point = Points /\ RunInv(r)
    BY <1>1, <1>3 DEF Drained, RunInv
  <2>8. RunInv(r)'
    BY <2>5, <2>6, <2>7 DEF RunInv
  <2>9. \A p \in 1 .. Points : HasPosted(r, p)' => <<r, p>> \in InQueue'
    BY <1>1, <2>5, <2>6 DEF HasPosted, JobsAreNeverLost, InQueue
  <2> QED BY <1>1, <2>4, <2>5, <2>8, <2>9, SnapshotsStay, <1>kept, QuietHook
<1> QED BY <1>2, <1>3 DEF Drain

(***************************************************************************)
(* A run counts pending, then running.  It takes a place in the first of   *)
(* the two steps, when the jobs it counts and those in running are fewer   *)
(* than two: so there is at most one job, and every run may have a place.  *)
(***************************************************************************)
LEMMA CountInv ==
    ASSUME JobsInv, NEW r \in 1 .. Runs, Count(r)
    PROVE  JobsInv'
<1> DEFINE n == trainer[r].count + Cardinality(Counted[trainer[r].at])
           stage == IF trainer[r].at = 1 THEN "count" ELSE "post"
           t == [trainer[r] EXCEPT !.count = n, !.at = 2, !.stage = stage]
<1>1. UNCHANGED <<queue, snapshot, passed, beat, worker>> /\ Stage(r) = "count"
  BY DEF Count
<1>kept. \A p \in 1 .. Points : ExportKept(r, p)'
  BY <1>1, ExportsStay DEF queue
<1>2. /\ trainer[r].at \in {1, 2} /\ trainer[r].count \in Nat
      /\ trainer[r].at = 1 => Counted[trainer[r].at] = pending
      /\ trainer[r].at = 2 => Counted[trainer[r].at] = running
  <2>1. trainer[r].at \in 1 .. 3 /\ trainer[r].count \in Nat
    BY HookFacts
  <2>2. trainer[r].at # 3
    BY <1>1 DEF RunInv
  <2>3. Counted[1] = pending /\ Counted[2] = running
    BY DEF Counted
  <2> QED BY <2>1, <2>2, <2>3
<1>3. /\ Cardinality(pending) \in Nat /\ Cardinality(running) \in Nat
      /\ \A k : IsFiniteSet(Reserved(k)) /\ Cardinality(Reserved(k)) \in 0 .. Runs
  BY Sizes
<1>4. trainer' = [trainer EXCEPT ![r] = t]
  BY DEF Count, TypeOK
<1>5. /\ t \in HookState /\ t.stage = stage /\ t.at = 2 /\ t.count = n
      /\ t.point = trainer[r].point /\ t.spare = trainer[r].spare
  <2>1. n \in Nat /\ stage \in Stages /\ 2 \in 1 .. 3
    BY <1>2, <1>3 DEF Stages, SaveStages
  <2> HIDE DEF n, stage
  <2>2. t \in HookState
    BY <2>1, HookFacts, HookUpdates
  <2> QED BY <2>2, HookFacts DEF HookState
<1> HIDE DEF t
<1>6. /\ trainer' \in [1 .. Runs -> HookState] /\ trainer'[r] = t
      /\ \A q \in 1 .. Runs : q # r => trainer'[q] = trainer[q]
  BY <1>4, <1>5, HookReplaced
<1>7. /\ Stage(r)' \in {"count", "post"} /\ trainer'[r].at = 2 /\ trainer'[r].point = trainer[r].point
      /\ Job(r)' = Job(r) /\ trainer'[r].spare = trainer[r].spare
  BY <1>5, <1>6 DEF Stage, Job
<1>8. InQueue' = InQueue /\ pending' = pending /\ running' = running /\ done' = done /\ failed' = failed
  BY <1>1 DEF queue, InQueue
<1>9. RunInv(r)'
  <2>1. Job(r) \notin InQueue /\ snapshot[Job(r)] # "none" /\ RunInv(r)
    BY <1>1 DEF RunInv
  <2> QED BY <1>1, <1>7, <1>8, <2>1 DEF RunInv
<1>10. \A p \in 1 .. Points : HasPosted(r, p)' => <<r, p>> \in InQueue'
  BY <1>7, <1>8 DEF HasPosted, JobsAreNeverLost, InQueue
<1>11. ASSUME NEW k \in Nat, k <= Cardinality(running),
              Cardinality(pending) + k + Cardinality(Reserved(k)) <= Capacity + Runs - 1
       PROVE  /\ Cardinality(Reserved(k)') \in Nat
              /\ Cardinality(pending) + k + Cardinality(Reserved(k)') <= Capacity + Runs - 1
  <2>1. Reserved(k)' \in SUBSET (1 .. Runs)
    BY DEF Reserved
  <2>2. IsFiniteSet(1 .. Runs) /\ Cardinality(1 .. Runs) = Runs
    BY RunsAreFinite
  <2>3. IsFiniteSet(Reserved(k)') /\ Cardinality(Reserved(k)') <= Runs
    BY <2>1, <2>2, FS_Subset
  <2>4. Cardinality(Reserved(k)') \in Nat
    BY <2>3, FS_CardinalityType
  <2>5. \A q \in 1 .. Runs : q # r => (q \in Reserved(k)' <=> q \in Reserved(k))
    BY <1>6 DEF Reserved, Stage
  <2>6. CASE r \notin Reserved(k)' \/ r \in Reserved(k)
    <3>1. Reserved(k)' \in SUBSET Reserved(k)
      BY <2>1, <2>5, <2>6
    <3>2. Cardinality(Reserved(k)') <= Cardinality(Reserved(k))
      BY <1>3, <3>1, FS_Subset
    <3> QED BY <1>3, <1>11, <2>4, <3>2 DEF Capacity
  <2>7. CASE r \in Reserved(k)' /\ r \notin Reserved(k)
    <3>1. trainer'[r].count = n /\ trainer'[r].stage = stage /\ trainer'[r].at = 2
      BY <1>5, <1>6
    <3>2. \/ stage = "post" /\ n < Capacity
          \/ stage = "count" /\ n + k < Capacity
      BY <2>7, <3>1 DEF Reserved, Stage
    <3>3. trainer[r].at = 1
      <4> SUFFICES ASSUME trainer[r].at = 2 PROVE FALSE
        BY <1>2
      <4>1. stage = "post" /\ n = trainer[r].count + Cardinality(running)
        BY <1>2
      <4>2. n < Capacity
        BY <3>2, <4>1
      <4> HIDE DEF n, stage
      <4>3. trainer[r].count + k < Capacity
        <5>1. Cardinality(running) \in Nat /\ trainer[r].count \in Nat /\ k \in Nat /\ k <= Cardinality(running)
          BY <1>2, <1>3, <1>11
        <5>2. trainer[r].count + Cardinality(running) < Capacity
          BY <4>1, <4>2
        <5> QED BY <5>1, <5>2 DEF Capacity
      <4>4. r \in Reserved(k)
        BY <1>1, <4>3 DEF Reserved
      <4> QED BY <2>7, <4>4
    <3>4. stage = "count" /\ n = trainer[r].count + Cardinality(pending)
      BY <1>2, <3>3
    <3>5. n + k < Capacity
      BY <3>2, <3>4
    <3> HIDE DEF n, stage
    <3>6. Cardinality(pending) + k < Capacity
      <4>1. Cardinality(pending) \in Nat /\ trainer[r].count \in Nat /\ k \in Nat
        BY <1>2, <1>3, <1>11
      <4>2. trainer[r].count + Cardinality(pending) + k < Capacity
        BY <3>4, <3>5
      <4> QED BY <4>1, <4>2 DEF Capacity
    <3> QED BY <1>3, <2>3, <2>4, <3>6, RunsAreFinite DEF Capacity
  <2> QED BY <2>6, <2>7
<1>12. PlacesAreCounted'
  <2>1. PICK k \in Nat : k = Cardinality(running)
    BY <1>3
  <2>2. /\ 0 \in Nat /\ 0 <= Cardinality(running) /\ k <= Cardinality(running)
        /\ Cardinality(pending) + 0 + Cardinality(Reserved(0)) <= Capacity + Runs - 1
        /\ Cardinality(pending) + k + Cardinality(Reserved(k)) <= Capacity + Runs - 1
    BY <1>3, <2>1 DEF PlacesAreCounted
  <2>3. /\ Cardinality(Reserved(0)') \in Nat
        /\ Cardinality(pending) + 0 + Cardinality(Reserved(0)') <= Capacity + Runs - 1
    BY <1>11, <2>2
  <2>4. Cardinality(pending) + k + Cardinality(Reserved(k)') <= Capacity + Runs - 1
    BY <1>11, <2>1, <2>2
  <2>5. Cardinality(running)' = k /\ Cardinality(pending)' = Cardinality(pending)
    BY <1>8, <2>1
  <2>6. Cardinality(pending) + Cardinality(Reserved(0)') <= Capacity + Runs - 1
    BY <1>3, <2>3
  <2> QED BY <2>4, <2>5, <2>6 DEF PlacesAreCounted
<1> QED BY <1>1, <1>6, <1>8, <1>9, <1>10, <1>12, SnapshotsStay, <1>kept, HookStep

\* A run that posts a job gives up the place it held.
LEMMA PostInv ==
    ASSUME JobsInv, NEW r \in 1 .. Runs, Post(r)
    PROVE  JobsInv'
<1>1. UNCHANGED <<running, done, failed, snapshot, passed, beat, worker>> /\ Stage(r) = "post"
  BY DEF Post
<1>2. Job(r) \notin InQueue /\ snapshot[Job(r)] # "none"
  BY <1>1 DEF RunInv
<1>kept. \A p \in 1 .. Points : ExportKept(r, p)'
  BY <1>1, <1>2, ExportsStay DEF Post
<1>3. CASE trainer[r].count < Capacity
  <2>1. pending' = pending \cup {Job(r)} /\ trainer' = Posted(r)
    BY <1>3 DEF Post
  <2>2. InQueue' = InQueue \cup {Job(r)}
    BY <1>1, <2>1 DEF InQueue
  <2>3. /\ RunInv(r)' /\ Stage(r)' \in {"drain", "posted"}
        /\ \A p \in 1 .. Points : HasPosted(r, p)' => <<r, p>> \in InQueue'
    BY <2>1, <2>2, PostedFacts
  <2>4. /\ trainer' \in [1 .. Runs -> HookState]
        /\ \A q \in 1 .. Runs : q # r => trainer'[q] = trainer[q]
    BY <2>1, PostedMoves
  <2>5. ASSUME NEW k \in Nat
        PROVE  Cardinality(Reserved(k)') \in Nat /\ Cardinality(Reserved(k)') + 1 <= Cardinality(Reserved(k))
    <3>1. r \in Reserved(k)
      BY <1>1, <1>3 DEF Reserved
    <3>2. Reserved(k)' \in SUBSET (Reserved(k) \ {r})
      BY <2>3, <2>4 DEF Reserved, Stage
    <3>3. IsFiniteSet(Reserved(k)) /\ Cardinality(Reserved(k)) \in 0 .. Runs
      BY Sizes
    <3>4. IsFiniteSet(Reserved(k) \ {r}) /\ Cardinality(Reserved(k) \ {r}) = Cardinality(Reserved(k)) - 1
      BY <3>1, <3>3, FS_RemoveElement
    <3>5. IsFiniteSet(Reserved(k)') /\ Cardinality(Reserved(k)') <= Cardinality(Reserved(k) \ {r})
      BY <3>2, <3>4, FS_Subset
    <3>6. Cardinality(Reserved(k)') \in Nat
      BY <3>5, FS_CardinalityType
    <3> QED BY <3>3, <3>4, <3>5, <3>6
  <2>6. /\ Cardinality(pending) \in Nat /\ Cardinality(running) \in Nat /\ IsFiniteSet(pending)
        /\ \A k : Cardinality(Reserved(k)) \in 0 .. Runs
    BY Sizes
  <2>7. Cardinality(pending') \in Nat /\ Cardinality(pending') <= Cardinality(pending) + 1
    <3>1. Cardinality(pending \cup {Job(r)}) = IF Job(r) \in pending THEN Cardinality(pending) ELSE Cardinality(pending) + 1
      BY <2>6, FS_AddElement
    <3> QED BY <2>1, <2>6, <3>1
  <2>8. PlacesAreCounted'
    <3>1. Cardinality(running') = Cardinality(running)
      BY <1>1
    <3>2. Cardinality(pending') + Cardinality(Reserved(0)') <= Capacity + Runs - 1
      <4>1. Cardinality(Reserved(0)') \in Nat /\ Cardinality(Reserved(0)') + 1 <= Cardinality(Reserved(0))
        BY <2>5
      <4> QED BY <2>6, <2>7, <4>1 DEF PlacesAreCounted, Capacity
    <3>3. Cardinality(pending') + Cardinality(running) + Cardinality(Reserved(Cardinality(running))')
            <= Capacity + Runs - 1
      <4>0. PICK k \in Nat : k = Cardinality(running)
        BY <2>6
      <4>1. /\ Cardinality(Reserved(k)) \in 0 .. Runs
            /\ Cardinality(pending) + k + Cardinality(Reserved(k)) <= Capacity + Runs - 1
        BY <2>6, <4>0 DEF PlacesAreCounted
      <4>2. Cardinality(Reserved(k)') \in Nat /\ Cardinality(Reserved(k)') + 1 <= Cardinality(Reserved(k))
        BY <2>5, <4>1
      <4>3. Cardinality(pending') + k + Cardinality(Reserved(k)') <= Capacity + Runs - 1
        BY <2>6, <2>7, <4>1, <4>2, RunsAreFinite DEF Capacity
      <4>4. Cardinality(running)' = k
        BY <1>1, <4>0
      <4> QED BY <4>0, <4>3, <4>4
    <3> QED BY <3>1, <3>2, <3>3 DEF PlacesAreCounted
  <2> QED BY <1>1, <1>2, <2>1, <2>3, <2>4, <2>8, SnapshotsStay, <1>kept, HookStep
<1>4. CASE ~(trainer[r].count < Capacity)
  <2> DEFINE t == [trainer[r] EXCEPT !.stage = "check", !.at = 1, !.count = 0]
  <2>1. trainer' = [trainer EXCEPT ![r] = t] /\ pending' = pending
    BY <1>4 DEF Post, TypeOK
  <2>2. t \in HookState
    <3>1. "check" \in Stages
      BY DEF Stages, SaveStages
    <3>2. 1 \in 1 .. 3 /\ 0 \in Nat
      OBVIOUS
    <3> QED BY <3>1, <3>2, HookFacts, HookUpdates
  <2>3. t.stage = "check" /\ t.point = trainer[r].point /\ t.spare = trainer[r].spare
    BY HookFacts DEF HookState
  <2> HIDE DEF t
  <2>4. /\ trainer' \in [1 .. Runs -> HookState] /\ trainer'[r] = t
        /\ \A q \in 1 .. Runs : q # r => trainer'[q] = trainer[q]
    BY <2>1, <2>2, HookReplaced
  <2>5. /\ Stage(r)' = "check" /\ Job(r)' = Job(r)
        /\ trainer'[r].point = trainer[r].point /\ trainer'[r].spare = trainer[r].spare
    BY <2>3, <2>4 DEF Stage, Job
  <2>6. InQueue' = InQueue /\ UNCHANGED queue
    BY <1>1, <2>1 DEF queue, InQueue
  <2>7. RunInv(r)'
    <3>1. RunInv(r)
      OBVIOUS
    <3> QED BY <1>1, <1>2, <2>5, <2>6, <3>1 DEF RunInv
  <2>8. \A p \in 1 .. Points : HasPosted(r, p)' => <<r, p>> \in InQueue'
    BY <2>5, <2>6 DEF HasPosted, JobsAreNeverLost, InQueue
  <2> QED BY <1>1, <2>4, <2>5, <2>6, <2>7, <2>8, SnapshotsStay, <1>kept, QuietHook
<1> QED BY <1>3, <1>4

\* Every step of a hook.
LEMMA HookInv ==
    ASSUME JobsInv, NEW r \in 1 .. Runs, Hook(r) \/ CallFails(r) \/ DeadlinePasses(r)
    PROVE  JobsInv'
<1>1. CASE CallFails(r)
  BY <1>1, RaiseInv DEF CallFails
<1> QED BY <1>1, ExportInv, ReturnsInv, DigestInv, CheckWorkerInv, LookInv, CompareInv, CountInv, PostInv, DrainInv, DeadlineInv
       DEF Hook

----------------------------------------------------------------------------
(* The worker *)

(***************************************************************************)
(* A step of the worker moves jobs forward only and loses none, so what    *)
(* the hooks have found out about their jobs stays true.                   *)
(***************************************************************************)
LEMMA WorkerStep ==
    ASSUME JobsInv, trainer' = trainer, InQueue' = InQueue,
           done \subseteq done', pending' \subseteq pending,
           pending' \cup running' \subseteq pending \cup running,
           \A j \in Jobs : snapshot'[j] = snapshot[j] \/ j \in InQueue
    PROVE  JobsAreNeverLost' /\ \A r \in 1 .. Runs : RunInv(r)'
<1>1. \A r \in 1 .. Runs, p \in 1 .. Points : HasPosted(r, p)' => HasPosted(r, p)
  BY DEF HasPosted, Stage
<1>2. JobsAreNeverLost'
  BY <1>1 DEF JobsAreNeverLost, InQueue
<1>3. ASSUME NEW r \in 1 .. Runs PROVE RunInv(r)'
  <2>1. Stage(r)' = Stage(r) /\ Job(r)' = Job(r) /\ trainer'[r] = trainer[r] /\ Job(r) \in Jobs
    BY JobType DEF Stage, Job
  <2>2. RunInv(r) /\ trainer[r].at \in 1 .. 3
    BY HookFacts
  <2>3. /\ Stage(r) = "look" /\ trainer[r].at >= 2 => Job(r) \notin pending'
        /\ Stage(r) = "look" /\ trainer[r].at = 3 => Job(r) \notin running'
    BY <2>2 DEF RunInv
  <2>4. Job(r) \notin InQueue => snapshot'[Job(r)] = snapshot[Job(r)]
    BY <2>1
  <2>5. (Stage(r) = "finished" => Job(r) \in done') /\ Repeated(r)' = Repeated(r)
    BY <2>2 DEF RunInv, Repeated
  <2> QED BY <2>1, <2>2, <2>3, <2>4, <2>5 DEF RunInv
<1> QED BY <1>2, <1>3

\* The worker takes no export away from a job that is not evaluated.
LEMMA WorkerKeepsExports ==
    ASSUME JobsInv, trainer' = trainer, pending' \cup running' \subseteq pending \cup running,
           \A j \in pending \cup running :
             passed'[j] # Demand[j[1]][j[2]] /\ snapshot'[j] = "none" =>
               passed[j] # Demand[j[1]][j[2]] /\ snapshot[j] = "none"
    PROVE  RetiredAfterEvaluation'
<1> SUFFICES ASSUME NEW r \in 1 .. Runs, NEW p \in 1 .. Points PROVE ExportKept(r, p)'
  BY DEF RetiredAfterEvaluation
<1>1. ExportKept(r, p) /\ <<r, p>>[1] = r /\ <<r, p>>[2] = p
  BY DEF RetiredAfterEvaluation
<1>2. Stage(r)' = Stage(r) /\ Job(r)' = Job(r) /\ Repeated(r)' = Repeated(r)
  BY DEF Stage, Job, Repeated
<1>3. <<r, p>> \in pending' \cup running' => <<r, p>> \in pending \cup running
  OBVIOUS
<1>4. <<r, p>> \in pending \cup running /\ passed'[<<r, p>>] # Demand[r][p] /\ snapshot'[<<r, p>>] = "none"
        => passed[<<r, p>>] # Demand[r][p] /\ snapshot[<<r, p>>] = "none"
  BY <1>1
<1> QED BY <1>1, <1>2, <1>3, <1>4 DEF ExportKept

\* A step of the worker that leaves the jobs where they are.
LEMMA QuietWorker ==
    ASSUME JobsInv, UNCHANGED <<pending, running, done, snapshot, passed, trainer>>, TypeOK', WorkerHasOne'
    PROVE  JobsInv'
<1>1. InQueue' = InQueue
  BY DEF InQueue
<1>2. JobsAreNeverLost' /\ \A r \in 1 .. Runs : RunInv(r)'
  BY <1>1, WorkerStep
<1>3. \A k : Reserved(k)' = Reserved(k)
  BY DEF Reserved, Stage
<1>4. PlacesAreCounted'
  BY <1>3, PlacesStay
<1>5. QueueBounded' /\ NoJobTwice' /\ DoneMeansEvaluated' /\ DoneInOrder'
  BY DEF QueueBounded, NoJobTwice, DoneMeansEvaluated, DoneInOrder
<1>6. RetiredAfterEvaluation'
  BY WorkerKeepsExports
<1> QED BY <1>2, <1>4, <1>5, <1>6

\* The worker starts, ends, dies or fails its job.
LEMMA RestInv ==
    ASSUME JobsInv, NEW stage \in {"off", "idle"}, Rest(stage),
           UNCHANGED <<pending, running, done, snapshot, passed, trainer>>,
           failed' \subseteq Jobs, beat' \in {"fresh", "stale"},
           stage = "idle" => running = {}
    PROVE  JobsInv'
<1>1. worker' \in WorkerState /\ worker'.stage = stage
  BY DEF Rest, WorkerState
<1>2. TypeOK'
  BY <1>1 DEF TypeOK
<1>3. WorkerHasOne'
  <2>1. ~Working'
    BY <1>1 DEF Working
  <2> QED BY <1>1, <2>1 DEF WorkerHasOne
<1> QED BY <1>2, <1>3, QuietWorker

LEMMA StopInv ==
    ASSUME JobsInv, StartWorker \/ WorkerExits \/ JobFails \/ WorkerDies \/ BeatGoesStale
    PROVE  JobsInv'
<1>1. /\ "off" \in {"off", "idle"} /\ "idle" \in {"off", "idle"}
      /\ failed \subseteq Jobs /\ beat \in {"fresh", "stale"}
  BY DEF TypeOK
<1>2. CASE StartWorker
  BY <1>1, <1>2, RestInv DEF StartWorker, Clear, queue
<1>3. CASE WorkerExits
  BY <1>1, <1>3, RestInv DEF WorkerExits, queue
<1>4. CASE JobFails
  <2>1. Active \in Jobs
    BY <1>4 DEF JobFails, WorkerHasOne, Working, TypeOK
  <2> QED BY <1>1, <1>4, <2>1, RestInv DEF JobFails
<1>5. CASE WorkerDies
  BY <1>1, <1>5, RestInv DEF WorkerDies, queue
<1>6. CASE BeatGoesStale
  <2>1. TypeOK'
    BY <1>6 DEF BeatGoesStale, queue, TypeOK
  <2>2. WorkerHasOne'
    BY <1>6 DEF BeatGoesStale, queue, WorkerHasOne, Working, Active
  <2> QED BY <1>6, <2>1, <2>2, QuietWorker DEF BeatGoesStale, queue
<1> QED BY <1>2, <1>3, <1>4, <1>5, <1>6

\* The job the worker has.
LEMMA WorkersJob ==
    ASSUME JobsInv, Working
    PROVE  /\ running = {Active} /\ Active \in Jobs /\ Active \in InQueue /\ Active \notin pending
           /\ passed[Active] \cup worker.left = Demand[Active[1]][Active[2]]
           /\ passed[Active] \in SUBSET Suites /\ worker.left \in SUBSET Suites
           /\ Demand[Active[1]][Active[2]] \in SUBSET Suites
           /\ worker \in WorkerState
<1>1. running = {Active} /\ passed[Active] \cup worker.left = Demand[Active[1]][Active[2]]
  BY DEF WorkerHasOne
<1>2. Active \in Jobs /\ worker \in WorkerState /\ passed[Active] \in SUBSET Suites
  BY <1>1 DEF TypeOK
<1>3. worker.left \in SUBSET Suites
  BY <1>2 DEF WorkerState
<1>4. Active \in InQueue /\ Active \notin pending
  BY <1>1 DEF InQueue, NoJobTwice
<1> QED BY <1>1, <1>2, <1>3, <1>4

LEMMA VerifyInv ==
    ASSUME JobsInv, VerifyDigest
    PROVE  JobsInv'
<1>1. Working /\ UNCHANGED <<pending, running, done, failed, snapshot, passed, beat, trainer>>
  BY DEF VerifyDigest, Working, queue
<1>2. worker \in WorkerState /\ running = {Active}
  BY <1>1, WorkersJob
<1>3. worker' \in WorkerState /\ worker'.stage = "evaluate" /\ worker'.job = worker.job /\ worker'.left = worker.left
  BY <1>2 DEF VerifyDigest, WorkerState
<1>4. TypeOK'
  BY <1>1, <1>3 DEF TypeOK
<1>5. WorkerHasOne'
  BY <1>1, <1>3 DEF WorkerHasOne, Working, Active
<1> QED BY <1>1, <1>4, <1>5, QuietWorker

\* The earliest pending job is taken: all earlier points of its run are done.
LEMMA TakeInv ==
    ASSUME JobsInv, TakeJob
    PROVE  JobsInv'
<1> DEFINE j == NextOf(pending)
<1>1. /\ worker.stage = "idle" /\ pending # {}
      /\ pending' = pending \ {j} /\ running' = running \cup {j}
      /\ worker' = [stage |-> "verify", job |-> j, left |-> Demand[j[1]][j[2]]]
      /\ UNCHANGED <<done, failed, snapshot, passed, beat, trainer>>
  BY DEF TakeJob
<1>2. j \in pending /\ \A k \in pending \ {j} : Earlier(j, k)
  BY <1>1, NextOfIsFirst DEF TypeOK
<1>3. running = {} /\ running' = {j} /\ j \in Jobs /\ j \notin done
  BY <1>1, <1>2 DEF WorkerHasOne, TypeOK, NoJobTwice
<1> HIDE DEF j
<1>4. /\ j[1] \in 1 .. Runs /\ j[2] \in 1 .. Points /\ j = <<j[1], j[2]>>
      /\ Demand[j[1]][j[2]] \in SUBSET Suites
  BY <1>3, JobPairs
<1>5. InQueue' = InQueue
  BY <1>1, <1>2, <1>3 DEF InQueue
<1>6. TypeOK'
  <2>1. worker' \in WorkerState
    BY <1>1, <1>3, <1>4 DEF WorkerState
  <2> QED BY <1>1, <1>3, <2>1 DEF TypeOK
<1>7. JobsAreNeverLost' /\ \A r \in 1 .. Runs : RunInv(r)'
  BY <1>1, <1>2, <1>3, <1>5, WorkerStep
<1>8. NoJobTwice' /\ RetiredAfterEvaluation' /\ DoneMeansEvaluated'
  <2>1. NoJobTwice' /\ DoneMeansEvaluated'
    BY <1>1, <1>2, <1>3 DEF NoJobTwice, DoneMeansEvaluated
  <2>2. pending' \cup running' \subseteq pending \cup running
    BY <1>1, <1>2
  <2> QED BY <1>1, <2>1, <2>2, WorkerKeepsExports
<1>9. WorkerHasOne'
  <2>1. Active' = j /\ worker'.stage = "verify" /\ worker'.left = Demand[j[1]][j[2]]
    BY <1>1 DEF Active
  <2>2. passed[j] \cup Demand[j[1]][j[2]] = Demand[j[1]][j[2]]
    BY <1>3 DEF DoneMeansEvaluated
  <2> QED BY <1>1, <1>3, <2>1, <2>2 DEF WorkerHasOne, Working
<1>10. DoneInOrder'
  <2> SUFFICES ASSUME NEW r \in 1 .. Runs, NEW p \in 1 .. Points, NEW q \in 1 .. Points,
                      p < q, <<r, q>> \in running' \cup done'
               PROVE  <<r, p>> \in done
    BY <1>1 DEF DoneInOrder
  <2>1. CASE <<r, q>> \in done
    BY <2>1 DEF DoneInOrder
  <2>2. CASE <<r, q>> = j
    <3>1. q <= trainer[r].point
      BY <1>2, <2>2 DEF RunInv, InQueue
    <3>2. p < trainer[r].point
      BY <3>1, HookFacts
    <3>3. <<r, p>> \in pending \cup done
      BY <1>3, <3>2 DEF HasPosted, JobsAreNeverLost
    <3>4. <<r, p>> \notin pending
      <4>1. ~Earlier(j, <<r, p>>) /\ <<r, p>> # j
        BY <2>2 DEF Earlier
      <4> QED BY <1>2, <4>1
    <3> QED BY <3>3, <3>4
  <2> QED BY <1>1, <1>3, <2>1, <2>2
<1>11. PlacesAreCounted'
  <2>1. Cardinality(pending') = Cardinality(pending) - 1
    BY <1>1, <1>2, Sizes, FS_RemoveElement
  <2>2. Cardinality(running) = 0 /\ Cardinality(running') = 1
    BY <1>3, FS_EmptySet, FS_Singleton
  <2>3. Reserved(0)' = Reserved(0)
    BY <1>1 DEF Reserved, Stage
  <2>4. Reserved(1)' \in SUBSET Reserved(0)
    BY <1>1, HookFacts DEF Reserved, Stage, Capacity
  <2>5. /\ Cardinality(pending) \in Nat
        /\ IsFiniteSet(Reserved(0)) /\ Cardinality(Reserved(0)) \in 0 .. Runs
    BY Sizes
  <2>6. Cardinality(Reserved(1)') \in Nat /\ Cardinality(Reserved(1)') <= Cardinality(Reserved(0))
    BY <2>4, <2>5, FS_Subset, FS_CardinalityType
  <2>7. Cardinality(pending) + Cardinality(Reserved(0)) <= Capacity + Runs - 1
    BY DEF PlacesAreCounted
  <2>8. Cardinality(pending') + Cardinality(Reserved(0)') <= Capacity + Runs - 1
    BY <2>1, <2>3, <2>5, <2>7, RunsAreFinite DEF Capacity
  <2>9. Cardinality(pending') + 1 + Cardinality(Reserved(1)') <= Capacity + Runs - 1
    BY <2>1, <2>5, <2>6, <2>7, RunsAreFinite DEF Capacity
  <2> QED BY <2>2, <2>8, <2>9 DEF PlacesAreCounted
<1>12. QueueBounded'
  <2>1. (TypeOK /\ PlacesAreCounted => QueueBounded)'
    BY PlacesBound, PTL
  <2> QED BY <1>6, <1>11, <2>1
<1> QED BY <1>6, <1>7, <1>8, <1>9, <1>10, <1>11, <1>12

\* A suite that was asked for is recorded.
LEMMA EvaluateInv ==
    ASSUME JobsInv, EvaluateSuite
    PROVE  JobsInv'
<1>1. PICK s \in worker.left : /\ passed' = [passed EXCEPT ![Active] = @ \cup {s}]
                               /\ worker' = [worker EXCEPT !.left = @ \ {s}, !.stage = AfterSuite(s)]
  BY DEF EvaluateSuite
<1>2. /\ worker.stage = "evaluate" /\ Working /\ snapshot[Active] = "complete"
      /\ UNCHANGED <<pending, running, done, failed, snapshot, beat, trainer>>
  BY DEF EvaluateSuite, Working, queue
<1>3. /\ running = {Active} /\ Active \in Jobs /\ Active \in InQueue
      /\ passed[Active] \cup worker.left = Demand[Active[1]][Active[2]]
      /\ passed[Active] \in SUBSET Suites /\ worker.left \in SUBSET Suites /\ worker \in WorkerState
  BY <1>2, WorkersJob
<1>4. /\ passed' \in [Jobs -> SUBSET Suites] /\ passed'[Active] = passed[Active] \cup {s}
      /\ \A k \in Jobs : k # Active => passed'[k] = passed[k]
  BY <1>1, <1>3 DEF TypeOK
<1>5. /\ worker' \in WorkerState /\ worker'.stage = AfterSuite(s) /\ AfterSuite(s) \in {"retire", "verify"}
      /\ worker'.job = worker.job /\ worker'.left = worker.left \ {s}
  BY <1>1, <1>3 DEF WorkerState, AfterSuite
<1>6. TypeOK'
  BY <1>2, <1>4, <1>5 DEF TypeOK
<1>7. InQueue' = InQueue /\ Active' = Active
  BY <1>2, <1>5 DEF InQueue, Active
<1>8. JobsAreNeverLost' /\ \A r \in 1 .. Runs : RunInv(r)'
  BY <1>2, <1>7, WorkerStep
<1>9. \A k : Reserved(k)' = Reserved(k)
  BY <1>2 DEF Reserved, Stage
<1>10. PlacesAreCounted'
  BY <1>2, <1>9, PlacesStay
<1>11. QueueBounded' /\ NoJobTwice' /\ DoneInOrder'
  BY <1>2 DEF QueueBounded, NoJobTwice, DoneInOrder
<1>12. RetiredAfterEvaluation'
  <2>1. \A k \in pending \cup running : k \in Jobs
    BY DEF TypeOK
  <2> QED BY <1>2, <1>4, <2>1, WorkerKeepsExports
<1>13. WorkerHasOne'
  <2>1. passed'[Active] \cup worker'.left = Demand[Active[1]][Active[2]]
    BY <1>1, <1>3, <1>4, <1>5
  <2>2. AfterSuite(s) = "retire" => worker'.left = {}
    BY <1>5 DEF AfterSuite
  <2>3. running' = running /\ worker'.stage \in {"retire", "verify"}
    BY <1>2, <1>5
  <2> QED BY <1>3, <1>5, <1>7, <2>1, <2>2, <2>3 DEF WorkerHasOne, Working
<1>14. DoneMeansEvaluated'
  <2>1. passed'[Active] \subseteq Demand[Active[1]][Active[2]]
    BY <1>3, <1>4
  <2>2. Active \in done => passed'[Active] = Demand[Active[1]][Active[2]]
    BY <1>3, <1>4, <2>1 DEF DoneMeansEvaluated
  <2>3. \A k \in done : k \in Jobs
    BY DEF TypeOK
  <2> QED BY <1>2, <1>4, <2>1, <2>2, <2>3 DEF DoneMeansEvaluated
<1> QED BY <1>6, <1>8, <1>10, <1>11, <1>12, <1>13, <1>14

\* Before a job is retired all its suites are recorded.
LEMMA RetireInv ==
    ASSUME JobsInv, Retire
    PROVE  JobsInv'
<1>1. /\ worker.stage = "retire" /\ Working
      /\ UNCHANGED <<pending, running, done, failed, passed, beat, trainer>>
      /\ snapshot' = IF Temporary(Active) THEN [snapshot EXCEPT ![Active] = "none"] ELSE snapshot
  BY DEF Retire, Working, queue
<1>2. /\ running = {Active} /\ Active \in Jobs /\ Active \in InQueue /\ worker \in WorkerState
      /\ passed[Active] \cup worker.left = Demand[Active[1]][Active[2]]
  BY <1>1, WorkersJob
<1>3. worker.left = {} /\ passed[Active] = Demand[Active[1]][Active[2]]
  BY <1>1, <1>2 DEF WorkerHasOne
<1>4. /\ worker' \in WorkerState /\ worker'.stage = "report"
      /\ worker'.job = worker.job /\ worker'.left = worker.left
  <2>1. worker' = [worker EXCEPT !.stage = "report"]
    BY <1>1 DEF Retire, Proceed, Following
  <2> QED BY <1>2, <2>1 DEF WorkerState
<1>5. /\ snapshot' \in [Jobs -> {"none", "complete"}]
      /\ \A k \in Jobs : k # Active => snapshot'[k] = snapshot[k]
  BY <1>1, <1>2 DEF TypeOK
<1>6. TypeOK'
  BY <1>1, <1>4, <1>5 DEF TypeOK
<1>7. InQueue' = InQueue /\ Active' = Active
  BY <1>1, <1>4 DEF InQueue, Active
<1>8. JobsAreNeverLost' /\ \A r \in 1 .. Runs : RunInv(r)'
  <2>1. \A k \in Jobs : snapshot'[k] = snapshot[k] \/ k \in InQueue
    BY <1>2, <1>5
  <2> QED BY <1>1, <1>7, <2>1, WorkerStep
<1>9. \A k : Reserved(k)' = Reserved(k)
  BY <1>1 DEF Reserved, Stage
<1>10. PlacesAreCounted'
  BY <1>1, <1>9, PlacesStay
<1>11. QueueBounded' /\ NoJobTwice' /\ DoneInOrder' /\ DoneMeansEvaluated'
  BY <1>1 DEF QueueBounded, NoJobTwice, DoneInOrder, DoneMeansEvaluated
<1>12. RetiredAfterEvaluation'
  <2>1. \A k \in pending \cup running : k \in Jobs
    BY DEF TypeOK
  <2> QED BY <1>1, <1>3, <1>5, <2>1, WorkerKeepsExports
<1>13. WorkerHasOne'
  BY <1>1, <1>2, <1>3, <1>4, <1>7 DEF WorkerHasOne, Working
<1> QED BY <1>6, <1>8, <1>10, <1>11, <1>12, <1>13

\* The result of a job that is evaluated is put in done.
LEMMA ReportInv ==
    ASSUME JobsInv, Report
    PROVE  JobsInv'
<1>1. /\ worker.stage = "report" /\ Working /\ done' = done \cup {Active}
      /\ UNCHANGED <<pending, running, failed, snapshot, passed, beat, trainer>>
  BY DEF Report, Working
<1>2. /\ running = {Active} /\ Active \in Jobs /\ Active \in InQueue /\ Active \notin pending
      /\ worker \in WorkerState
      /\ passed[Active] \cup worker.left = Demand[Active[1]][Active[2]]
  BY <1>1, WorkersJob
<1>3. worker.left = {} /\ passed[Active] = Demand[Active[1]][Active[2]]
  BY <1>1, <1>2 DEF WorkerHasOne
<1>4. /\ worker' \in WorkerState /\ worker'.stage = "unlink"
      /\ worker'.job = worker.job /\ worker'.left = worker.left
  <2>1. worker' = [worker EXCEPT !.stage = "unlink"]
    BY <1>1 DEF Report, Proceed, Following
  <2> QED BY <1>2, <2>1 DEF WorkerState
<1>5. TypeOK'
  BY <1>1, <1>2, <1>4 DEF TypeOK
<1>6. InQueue' = InQueue /\ Active' = Active
  BY <1>1, <1>2, <1>4 DEF InQueue, Active
<1>7. JobsAreNeverLost' /\ \A r \in 1 .. Runs : RunInv(r)'
  BY <1>1, <1>6, WorkerStep
<1>8. \A k : Reserved(k)' = Reserved(k)
  BY <1>1 DEF Reserved, Stage
<1>9. PlacesAreCounted'
  BY <1>1, <1>8, PlacesStay
<1>10. QueueBounded' /\ RetiredAfterEvaluation'
  BY <1>1, WorkerKeepsExports DEF QueueBounded
<1>11. NoJobTwice' /\ DoneMeansEvaluated'
  BY <1>1, <1>2, <1>3 DEF NoJobTwice, DoneMeansEvaluated
<1>12. DoneInOrder'
  <2>1. running' \cup done' = running \cup done
    BY <1>1, <1>2
  <2> QED BY <1>1, <2>1 DEF DoneInOrder
<1>13. WorkerHasOne'
  BY <1>1, <1>2, <1>3, <1>4, <1>6 DEF WorkerHasOne, Working
<1> QED BY <1>5, <1>7, <1>9, <1>10, <1>11, <1>12, <1>13

\* The file of a job whose result is in done leaves running.
LEMMA UnlinkInv ==
    ASSUME JobsInv, Unlink
    PROVE  JobsInv'
<1>1. /\ worker.stage = "unlink" /\ Working /\ running' = running \ {Active}
      /\ UNCHANGED <<pending, done, failed, snapshot, passed, beat, trainer>>
  BY DEF Unlink, Working
<1>2. running = {Active} /\ Active \in done
  BY <1>1 DEF WorkerHasOne
<1>3. running' = {}
  BY <1>1, <1>2
<1>4. worker' \in WorkerState /\ worker'.stage = "idle"
  BY <1>1 DEF Unlink, Proceed, Following, Rest, WorkerState
<1>5. TypeOK'
  BY <1>1, <1>3, <1>4 DEF TypeOK
<1>6. InQueue' = InQueue
  BY <1>1, <1>2, <1>3 DEF InQueue
<1>7. JobsAreNeverLost' /\ \A r \in 1 .. Runs : RunInv(r)'
  BY <1>1, <1>6, WorkerStep
<1>8. NoJobTwice' /\ RetiredAfterEvaluation' /\ DoneMeansEvaluated' /\ DoneInOrder'
  BY <1>1, <1>3, WorkerKeepsExports DEF NoJobTwice, DoneMeansEvaluated, DoneInOrder
<1>9. WorkerHasOne'
  BY <1>3, <1>4 DEF WorkerHasOne, Working
<1>10. PlacesAreCounted'
  <2>1. Reserved(0)' = Reserved(0)
    BY <1>1 DEF Reserved, Stage
  <2>2. Cardinality(running') = 0
    BY <1>3, FS_EmptySet
  <2>3. Cardinality(pending') + Cardinality(Reserved(0)') <= Capacity + Runs - 1
    BY <1>1, <2>1 DEF PlacesAreCounted
  <2>4. Cardinality(pending') \in Nat /\ Cardinality(pending') + 0 = Cardinality(pending')
    <3>1. Cardinality(pending) \in Nat
      BY Sizes
    <3> QED BY <1>1, <3>1
  <2> QED BY <2>2, <2>3, <2>4 DEF PlacesAreCounted
<1>11. QueueBounded'
  <2>1. (TypeOK /\ PlacesAreCounted => QueueBounded)'
    BY PlacesBound, PTL
  <2> QED BY <1>5, <1>10, <2>1
<1> QED BY <1>5, <1>7, <1>8, <1>9, <1>10, <1>11

----------------------------------------------------------------------------
(* The theorems *)

\* The empty queue.
LEMMA QueueInit == Init => JobsInv
<1> SUFFICES ASSUME Init PROVE JobsInv
  OBVIOUS
<1>1. /\ pending = {} /\ running = {} /\ done = {} /\ failed = {}
      /\ worker = [stage |-> "off", job |-> NoJob, left |-> {}] /\ beat = "stale"
      /\ snapshot = [j \in Jobs |-> "none"] /\ passed = [j \in Jobs |-> {}]
  BY DEF Init
<1>2. \A r \in 1 .. Runs : trainer[r] = [stage |-> "training", point |-> 1, at |-> 1, count |-> 0,
                                         late |-> FALSE, spare |-> Spare[r]]
  BY DEF Init
<1>3. TypeOK
  <2>1. worker \in WorkerState
    BY <1>1 DEF WorkerState
  <2>2. trainer \in [1 .. Runs -> HookState]
    BY DEF Init, HookState
  <2> QED BY <1>1, <2>1, <2>2 DEF TypeOK
<1>4. NoJobTwice /\ RetiredAfterEvaluation /\ WorkerHasOne /\ DoneInOrder
  BY <1>1 DEF NoJobTwice, RetiredAfterEvaluation, ExportKept, WorkerHasOne, Working, DoneInOrder
<1>5. DoneMeansEvaluated
  BY <1>1 DEF DoneMeansEvaluated
<1>6. ASSUME NEW r \in 1 .. Runs PROVE Stage(r) = "training" /\ trainer[r].point = 1 /\ trainer[r].spare = Spare[r]
  <2>1. trainer[r] = [stage |-> "training", point |-> 1, at |-> 1, count |-> 0, late |-> FALSE, spare |-> Spare[r]]
    BY <1>2
  <2> QED BY <2>1 DEF Stage
<1>7. JobsAreNeverLost
  BY <1>6 DEF JobsAreNeverLost, HasPosted
<1>8. \A r \in 1 .. Runs : RunInv(r)
  <2> SUFFICES ASSUME NEW r \in 1 .. Runs PROVE RunInv(r)
    OBVIOUS
  <2>1. Stage(r) = "training" /\ trainer[r].spare <= Spare[r] /\ InQueue = {}
    BY <1>1, <1>6 DEF InQueue
  <2> QED BY <1>1, <2>1 DEF RunInv
<1>9. PlacesAreCounted
  <2>1. \A k : Reserved(k) = {}
    BY <1>6 DEF Reserved
  <2>2. Cardinality({}) = 0
    BY FS_EmptySet
  <2>3. /\ Cardinality(pending) = 0 /\ Cardinality(running) = 0
        /\ Cardinality(Reserved(0)) = 0 /\ Cardinality(Reserved(Cardinality(running))) = 0
    BY <1>1, <2>1, <2>2
  <2>4. 0 + 0 + 0 <= 2 + Runs - 1 /\ 0 + 0 <= 2 + Runs - 1
    BY RunsAreFinite
  <2> QED BY <2>3, <2>4 DEF PlacesAreCounted, Capacity
<1>10. QueueBounded
  BY <1>3, <1>9, PlacesBound
<1> QED BY <1>3, <1>4, <1>5, <1>7, <1>8, <1>9, <1>10

LEMMA QueueNext == JobsInv /\ [Next]_vars => JobsInv'
<1> SUFFICES ASSUME JobsInv, [Next]_vars PROVE JobsInv'
  OBVIOUS
<1>1. CASE UNCHANGED vars
  <2>1. UNCHANGED <<pending, running, done, failed, snapshot, passed, beat, worker, trainer>>
    BY <1>1 DEF vars, queue
  <2>2. TypeOK' /\ WorkerHasOne'
    BY <2>1 DEF TypeOK, WorkerHasOne, Working, Active
  <2> QED BY <2>1, <2>2, QuietWorker
<1>2. CASE \E r \in 1 .. Runs : Hook(r) \/ CallFails(r) \/ DeadlinePasses(r)
  BY <1>2, HookInv
<1>3. CASE StartWorker \/ WorkerExits \/ JobFails \/ WorkerDies \/ BeatGoesStale
  BY <1>3, StopInv
<1>4. CASE TakeJob \/ WorkOnJob
  BY <1>4, TakeInv, VerifyInv, EvaluateInv, RetireInv, ReportInv, UnlinkInv DEF WorkOnJob
<1> QED BY <1>1, <1>2, <1>3, <1>4 DEF Next

(***************************************************************************)
(* However the hooks of the runs and the worker interleave, and however    *)
(* often saves are repeated and the worker dies, the directories of the    *)
(* queue stay consistent: bounded, no job lost or queued twice, and an     *)
(* export that an evaluation still needs is missing only when the save of  *)
(* that very job is repeated, or was repeated and failed.                  *)
(***************************************************************************)
THEOREM QueueIsConsistent == Spec => []JobsInv
<1> QED BY QueueInit, QueueNext, PTL DEF Spec

(***************************************************************************)
(* "no evaluation point is silently skipped": a run that ends normally has *)
(* the results of all its points, with every suite they asked for.         *)
(***************************************************************************)
THEOREM NoPointIsSkipped == Spec => []FinishedMeansEvaluated
<1>1. JobsInv => FinishedMeansEvaluated
  <2> SUFFICES ASSUME JobsInv, NEW r \in 1 .. Runs, Stage(r) = "finished", NEW p \in 1 .. Points
               PROVE  <<r, p>> \in done /\ passed[<<r, p>>] = Demand[r][p]
    BY DEF FinishedMeansEvaluated
  <2>1. trainer[r].point = Points /\ <<r, Points>> \in done
    BY JobType DEF RunInv, Job
  <2>2. <<r, p>> \in done
    <3>1. (p < Points \/ p = Points) /\ Points \in 1 .. Points
      OBVIOUS
    <3> QED BY <2>1, <3>1 DEF DoneInOrder
  <2>3. <<r, p>> \in Jobs /\ <<r, p>>[1] = r /\ <<r, p>>[2] = p
    BY JobPairs
  <2> QED BY <2>2, <2>3 DEF DoneMeansEvaluated
<1> QED BY <1>1, QueueIsConsistent, PTL
=============================================================================
