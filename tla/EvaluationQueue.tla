--------------------------- MODULE EvaluationQueue ---------------------------
(***************************************************************************)
(* The evaluation queue of an OPSD study: a directory with one file per    *)
(* job in pending, running, done or failed.  The save hook of a training   *)
(* run (miles/utils/opsd_study.py) exports a snapshot and enqueues a job   *)
(* for it, and holds the run back while the queue is full or the evaluator *)
(* is gone; one worker (tools/opsd/serve_evaluation_queue.py) evaluates    *)
(* the jobs and deletes their snapshots.  Nothing is locked: each file     *)
(* operation is a step of its own.                                         *)
(***************************************************************************)
EXTENDS Integers, Sequences, FiniteSets

CONSTANTS
  Runs,         \* training runs that share the queue
  Points,       \* updates of a run that the schedule evaluates
  Demand,       \* the suites of each point of each run
  Spare,        \* alive cells of each run besides the first: a failed save is retried on them
  RetainFinal   \* opsd_retain_final_eval_snapshot of each run

Suites == {"validation", "benchmark"}

ASSUME EvaluationQueueAssumption ==
  /\ Runs \in Nat \ {0} /\ Points \in Nat \ {0}
  /\ Spare \in [1 .. Runs -> Nat]
  /\ Demand \in [1 .. Runs -> [1 .. Points -> SUBSET Suites \ {{}}]]
  \* a cyclic run, the only one with validation, has a single cell
  /\ \A r \in 1 .. Runs, p \in 1 .. Points : Spare[r] > 0 => Demand[r][p] = {"benchmark"}
  /\ RetainFinal \in [1 .. Runs -> BOOLEAN]

Jobs == (1 .. Runs) \X (1 .. Points)
NoJob == <<0, 0>>
Capacity == 2

VARIABLES
  pending, running, done, failed,  \* the directories of the queue
  snapshot,   \* the export of each job: "complete" has the marker; "none" is absent or half written
  passed,     \* suites whose results are recorded
  beat,       \* heartbeat.json: "stale" is older than two minutes, or absent
  worker,     \* the evaluator
  trainer     \* the save hook of each run

queue == <<pending, running, done, failed>>
vars == <<queue, snapshot, passed, beat, worker, trainer>>

Init ==
  /\ pending = {} /\ running = {} /\ done = {} /\ failed = {}
  /\ snapshot = [j \in Jobs |-> "none"]
  /\ passed = [j \in Jobs |-> {}]
  /\ beat = "stale"
  /\ worker = [stage |-> "off", job |-> NoJob, left |-> {}]
  /\ trainer = [r \in 1 .. Runs |->
       [stage |-> "training", point |-> 1, at |-> 1, count |-> 0, late |-> FALSE, spare |-> Spare[r]]]

Stage(r) == trainer[r].stage
Job(r) == <<r, trainer[r].point>>
\* the job of the step that ends the run; a run cut short has fewer points
Final(j) == j[2] = Points
Temporary(j) == ~(Final(j) /\ RetainFinal[j[1]])

-----------------------------------------------------------------------------
(* The save hook.                                                          *)

SaveStages ==
  {"exporting", "digest", "check", "look", "compare", "read", "count", "post", "posted", "drain"}

(* An exception in the hook, or in the cell that runs it, fails the call:  *)
(* the cell is killed and another one saves again, if there is one.        *)
Raise(r) ==
  trainer' = [trainer EXCEPT ![r].stage = IF @ = "training" \/ trainer[r].spare = 0 THEN "stopped" ELSE "training",
                             ![r].spare = IF trainer[r].spare = 0 THEN 0 ELSE @ - 1,
                             ![r].late = FALSE, ![r].at = 1, ![r].count = 0]

CallFails(r) ==
  /\ Stage(r) \in SaveStages \cup {"training"}
  /\ Raise(r)
  /\ UNCHANGED <<queue, snapshot, passed, beat, worker>>

(* save_hf_model replaces the directory: what an earlier save left there   *)
(* is removed before anything is written, and the last step is the marker. *)
(* A write error removes the rest (write_checkpoint_dir), a cell that dies *)
(* leaves it; in neither case is there an export.                          *)
Export(r) ==
  /\ Stage(r) = "training"
  /\ snapshot' = [snapshot EXCEPT ![Job(r)] = "none"]
  /\ trainer' = [trainer EXCEPT ![r].stage = "exporting"]
  /\ UNCHANGED <<queue, passed, beat, worker>>

ExportEnds(r) ==
  /\ Stage(r) = "exporting"
  /\ snapshot' = [snapshot EXCEPT ![Job(r)] = "complete"]
  /\ trainer' = [trainer EXCEPT ![r].stage = "digest"]
  /\ UNCHANGED <<queue, passed, beat, worker>>

(* enqueue_evaluation computes the digest, then loops until it has a place. *)
Digest(r) ==
  /\ Stage(r) = "digest"
  /\ IF snapshot[Job(r)] = "complete"
     THEN trainer' = [trainer EXCEPT ![r].stage = "check"]
     ELSE Raise(r)
  /\ UNCHANGED <<queue, snapshot, passed, beat, worker>>

(* An hour passes since the digest was computed.                           *)
DeadlinePasses(r) ==
  /\ Stage(r) \in SaveStages \ {"exporting", "digest", "posted"}
  /\ ~trainer[r].late
  /\ trainer' = [trainer EXCEPT ![r].late = TRUE]
  /\ UNCHANGED <<queue, snapshot, passed, beat, worker>>

NothingFailed == failed = {}
WorkerHealthy == failed = {} /\ beat = "fresh"

NeverLate(r) == FALSE
Late(r) == trainer[r].late

CheckWorker(r) ==
  /\ Stage(r) = "check"
  /\ IF WorkerHealthy /\ ~Late(r)
     THEN trainer' = [trainer EXCEPT ![r].stage = "look", ![r].at = 1]
     ELSE Raise(r)
  /\ UNCHANGED <<queue, snapshot, passed, beat, worker>>

(* The directories a job is looked up in, one after the other; a job moves *)
(* along them in the same order.                                           *)
Backwards == <<done, running, pending>>
Places == <<pending, running, done>>

Look(r) ==
  /\ Stage(r) = "look"
  /\ trainer' =
       IF Job(r) \in Places[trainer[r].at] THEN [trainer EXCEPT ![r].stage = "compare", ![r].at = 1]
       ELSE IF trainer[r].at < 3 THEN [trainer EXCEPT ![r].at = @ + 1]
       ELSE [trainer EXCEPT ![r].stage = "count", ![r].at = 1]
  /\ UNCHANGED <<queue, snapshot, passed, beat, worker>>

PostedWithoutDrain(r) ==
  [trainer EXCEPT ![r].stage = IF trainer[r].point = Points THEN "finished" ELSE "posted", ![r].at = 1, ![r].count = 0]

Posted(r) ==
  [trainer EXCEPT ![r].stage = IF trainer[r].point = Points THEN "drain" ELSE "posted", ![r].at = 1, ![r].count = 0]

(* The reply of a save that is not the last reaches the controller, and    *)
(* training goes on.  A cell that dies before makes another one repeat it. *)
SaveReturns(r) ==
  /\ Stage(r) = "posted"
  /\ trainer' = [trainer EXCEPT ![r].stage = "training", ![r].point = @ + 1, ![r].late = FALSE]
  /\ UNCHANGED <<queue, snapshot, passed, beat, worker>>

(* A job that exists is read back wherever it still is; the replicas of a  *)
(* model export the same weights, so its digest agrees.                    *)
Compare(r) ==
  /\ Stage(r) = "compare"
  /\ trainer' =
       IF Job(r) \in Places[trainer[r].at] THEN [trainer EXCEPT ![r].stage = "read"]
       ELSE IF trainer[r].at < 3 THEN [trainer EXCEPT ![r].at = @ + 1]
       ELSE Posted(r)
  /\ UNCHANGED <<queue, snapshot, passed, beat, worker>>

ReadBack(r) ==
  /\ Stage(r) = "read"
  /\ IF Job(r) \notin Places[trainer[r].at]
     THEN Raise(r)
     ELSE trainer' = IF trainer[r].at < 3 THEN [trainer EXCEPT ![r].stage = "compare", ![r].at = @ + 1]
                     ELSE Posted(r)
  /\ UNCHANGED <<queue, snapshot, passed, beat, worker>>

(* pending is counted first, then running.                                 *)
RunningFirst == <<running, pending>>
Counted == <<pending, running>>

Count(r) ==
  /\ Stage(r) = "count"
  /\ trainer' = [trainer EXCEPT ![r].count = @ + Cardinality(Counted[trainer[r].at]),
                                ![r].at = 2,
                                ![r].stage = IF trainer[r].at = 1 THEN "count" ELSE "post"]
  /\ UNCHANGED <<queue, snapshot, passed, beat, worker>>

Post(r) ==
  /\ Stage(r) = "post"
  /\ IF trainer[r].count < Capacity
     THEN /\ pending' = pending \cup {Job(r)}
          /\ trainer' = Posted(r)
     ELSE /\ trainer' = [trainer EXCEPT ![r].stage = "check", ![r].at = 1, ![r].count = 0]
          /\ UNCHANGED pending
  /\ UNCHANGED <<running, done, failed, snapshot, passed, beat, worker>>

(* The hook of the final update waits for its own job.                     *)
Drained(r) == Job(r) \in done

Drain(r) ==
  /\ Stage(r) = "drain"
  /\ \/ /\ Drained(r)
        /\ trainer' = [trainer EXCEPT ![r].stage = "finished", ![r].late = FALSE]
     \/ /\ ~Drained(r) /\ (~WorkerHealthy \/ Late(r))
        /\ Raise(r)
  /\ UNCHANGED <<queue, snapshot, passed, beat, worker>>

-----------------------------------------------------------------------------
(* The worker.                                                             *)

Rest(stage) == worker' = [stage |-> stage, job |-> NoJob, left |-> {}]
On == worker.stage # "off"
Active == worker.job

(* main refuses to start over jobs a dead worker left in running.          *)
Clear == running = {}

StartWorker ==
  /\ ~On /\ Clear
  /\ Rest("idle") /\ beat' = "fresh"
  /\ UNCHANGED <<queue, snapshot, passed, trainer>>

(* Its deadline, or a failure it finds recorded, ends the worker.          *)
WorkerExits ==
  /\ worker.stage = "idle"
  /\ Rest("off") /\ beat' = "stale"
  /\ UNCHANGED <<queue, snapshot, passed, trainer>>

Earlier(a, b) == a[1] < b[1] \/ (a[1] = b[1] /\ a[2] < b[2])
NextLast(jobs) == CHOOSE j \in jobs : \A k \in jobs \ {j} : Earlier(k, j)
NextOf(jobs) == CHOOSE j \in jobs : \A k \in jobs \ {j} : Earlier(j, k)

TakeJob ==
  /\ worker.stage = "idle" /\ failed = {} /\ pending # {}
  /\ LET j == NextOf(pending)
     IN /\ pending' = pending \ {j} /\ running' = running \cup {j}
        /\ worker' = [stage |-> "verify", job |-> j, left |-> Demand[j[1]][j[2]]]
  /\ UNCHANGED <<done, failed, snapshot, passed, beat, trainer>>

(* Before every suite the export's digest must be that of the job.         *)
VerifyDigest ==
  /\ worker.stage = "verify"
  /\ snapshot[Active] = "complete"
  /\ worker' = [worker EXCEPT !.stage = "evaluate"]
  /\ UNCHANGED <<queue, snapshot, passed, beat, trainer>>

RetireAfterOne(s) == "retire"
AfterSuite(s) == IF worker.left = {s} THEN "retire" ELSE "verify"

EvaluateSuite ==
  /\ worker.stage = "evaluate"
  /\ snapshot[Active] = "complete"
  /\ \E s \in worker.left :
       /\ passed' = [passed EXCEPT ![Active] = @ \cup {s}]
       /\ worker' = [worker EXCEPT !.left = @ \ {s}, !.stage = AfterSuite(s)]
  /\ UNCHANGED <<queue, snapshot, beat, trainer>>

(* retire_evaluation_snapshot, then the result in done, then the job file. *)
UnlinkFirst == [retire |-> "unlink", unlink |-> "report", report |-> "idle"]
Following == [retire |-> "report", report |-> "unlink", unlink |-> "idle"]

Proceed ==
  IF Following[worker.stage] = "idle" THEN Rest("idle")
  ELSE worker' = [worker EXCEPT !.stage = Following[@]]

Retire ==
  /\ worker.stage = "retire"
  /\ Temporary(Active) => snapshot[Active] = "complete"
  /\ snapshot' = IF Temporary(Active) THEN [snapshot EXCEPT ![Active] = "none"] ELSE snapshot
  /\ Proceed
  /\ UNCHANGED <<queue, passed, beat, trainer>>

Report ==
  /\ worker.stage = "report"
  /\ done' = done \cup {Active}
  /\ Proceed
  /\ UNCHANGED <<pending, running, failed, snapshot, passed, beat, trainer>>

Unlink ==
  /\ worker.stage = "unlink"
  /\ running' = running \ {Active}
  /\ Proceed
  /\ UNCHANGED <<pending, done, failed, snapshot, passed, beat, trainer>>

(* Any step of a job may raise: an evaluation that exits with an error or  *)
(* out of time, a digest that changed, tracking that is unavailable.       *)
JobFails ==
  /\ worker.stage \in {"verify", "evaluate", "retire", "report", "unlink"}
  /\ failed' = failed \cup {Active}
  /\ Rest("off") /\ beat' = "stale"
  /\ UNCHANGED <<pending, running, done, snapshot, passed, trainer>>

WorkerDies ==
  /\ On
  /\ Rest("off")
  /\ UNCHANGED <<queue, snapshot, passed, beat, trainer>>

(* Nobody refreshes the file any more: the worker is gone, or only its     *)
(* heartbeat thread is.                                                    *)
BeatGoesStale ==
  /\ beat = "fresh"
  /\ beat' = "stale"
  /\ UNCHANGED <<queue, snapshot, passed, worker, trainer>>

-----------------------------------------------------------------------------
Hook(r) ==
  \/ Export(r) \/ ExportEnds(r) \/ Digest(r) \/ CheckWorker(r) \/ Look(r)
  \/ Compare(r) \/ ReadBack(r) \/ Count(r) \/ Post(r) \/ SaveReturns(r) \/ Drain(r)

WorkOnJob == VerifyDigest \/ EvaluateSuite \/ Retire \/ Report \/ Unlink

Next ==
  \/ \E r \in 1 .. Runs : Hook(r) \/ CallFails(r) \/ DeadlinePasses(r)
  \/ StartWorker \/ WorkerExits \/ TakeJob \/ WorkOnJob \/ JobFails \/ WorkerDies \/ BeatGoesStale

Spec == Init /\ [][Next]_vars

(* Training goes on, the hook loops on, a worker that is up goes on with   *)
(* its jobs and a dead one is not heard of again: none of them waits for   *)
(* another.                                                                *)
FairSpec ==
  /\ Spec
  /\ \A r \in 1 .. Runs : WF_vars(Hook(r))
  /\ WF_vars(TakeJob \/ WorkOnJob \/ JobFails)
  /\ WF_vars(~On /\ BeatGoesStale)

-----------------------------------------------------------------------------
WorkerState ==
  [stage : {"off", "idle", "verify", "evaluate", "retire", "report", "unlink"},
   job : Jobs \cup {NoJob}, left : SUBSET Suites]
HookState ==
  [stage : SaveStages \cup {"training", "finished", "stopped"}, point : 1 .. Points,
   at : 1 .. 3, count : Nat, late : BOOLEAN, spare : Nat]

TypeOK ==
  /\ pending \subseteq Jobs /\ running \subseteq Jobs
  /\ done \subseteq Jobs /\ failed \subseteq Jobs
  /\ snapshot \in [Jobs -> {"none", "complete"}]
  /\ passed \in [Jobs -> SUBSET Suites]
  /\ beat \in {"fresh", "stale"}
  /\ worker \in WorkerState
  /\ trainer \in [1 .. Runs -> HookState]

(* The queue bounds the exports that wait on disk: however the counting of *)
(* the two directories interleaves with a worker that moves a job from one *)
(* to the other, a run alone never has more than two jobs in them, and     *)
(* runs that post at the same time exceed it by one each.                  *)
QueueBounded == Cardinality(pending \cup running) <= Capacity + Runs - 1

(* A save that is repeated after its job was posted finds the job wherever *)
(* the worker has moved it: no job is queued again once it was taken.      *)
NoJobTwice == pending \cap (running \cup done) = {}

(* A posted job never vanishes between the directories: until its result   *)
(* is in done it is pending or running, also when the worker dies.         *)
HasPosted(r, p) ==
  \/ trainer[r].point > p
  \/ trainer[r].point = p /\ Stage(r) \in {"posted", "drain", "finished"}

JobsAreNeverLost ==
  \A r \in 1 .. Runs, p \in 1 .. Points : HasPosted(r, p) => <<r, p>> \in pending \cup running \cup done

(* The worker deletes the export of "a successful job only", and no other  *)
(* save does: while a suite of a queued job is missing, its export can be  *)
(* gone only because the save of that very job is being repeated, or was   *)
(* and failed.                                                             *)
Repeated(r) == trainer[r].spare < Spare[r]
ExportKept(r, p) ==
  LET j == <<r, p>>
  IN  j \in pending \cup running /\ passed[j] # Demand[r][p] /\ snapshot[j] = "none" =>
        j = Job(r) /\ Repeated(r) /\ Stage(r) \in {"training", "exporting", "stopped"}
RetiredAfterEvaluation == \A r \in 1 .. Runs, p \in 1 .. Points : ExportKept(r, p)

(* A place in the queue is given away by a run that has counted too few    *)
(* jobs to stop; it may count more of them in running, as many as extra.   *)
(* Every job there is was let in by one count or another.                  *)
Reserved(extra) ==
  {r \in 1 .. Runs :
     \/ Stage(r) = "post" /\ trainer[r].count < Capacity
     \/ Stage(r) = "count" /\ trainer[r].at = 2 /\ trainer[r].count + extra < Capacity}

PlacesAreCounted ==
  /\ Cardinality(pending) + Cardinality(Reserved(0)) <= Capacity + Runs - 1
  /\ Cardinality(pending) + Cardinality(running) + Cardinality(Reserved(Cardinality(running)))
       <= Capacity + Runs - 1

(* The worker has one job, which is the one in running, and knows which of *)
(* its suites are left.                                                    *)
Working == worker.stage \in {"verify", "evaluate", "retire", "report", "unlink"}
WorkerHasOne ==
  /\ \A j, k \in running : j = k
  /\ worker.stage = "idle" => running = {}
  /\ Working => /\ running = {Active}
                /\ passed[Active] \cup worker.left = Demand[Active[1]][Active[2]]
                /\ worker.stage \in {"retire", "report", "unlink"} => worker.left = {}
                /\ worker.stage = "unlink" => Active \in done

(* Results are of suites that were asked for, and all there when a job is  *)
(* done; the jobs of a run are done in the order they were posted in.      *)
DoneMeansEvaluated ==
  /\ \A j \in Jobs : passed[j] \subseteq Demand[j[1]][j[2]]
  /\ \A j \in done : passed[j] = Demand[j[1]][j[2]]
DoneInOrder ==
  \A r \in 1 .. Runs, p, q \in 1 .. Points : p < q /\ <<r, q>> \in running \cup done => <<r, p>> \in done

(* What a hook has found out about its job stays so until it acts on it.   *)
InQueue == pending \cup running \cup done
RunInv(r) ==
  /\ Stage(r) = "look" /\ trainer[r].at >= 2 => Job(r) \notin pending
  /\ Stage(r) = "look" /\ trainer[r].at = 3 => Job(r) \notin running
  /\ Stage(r) \in {"count", "post"} => Job(r) \notin InQueue
  /\ Stage(r) = "count" => trainer[r].at # 3
  /\ Stage(r) \in {"compare", "read"} => Job(r) \in InQueue
  /\ Stage(r) \in {"check", "look", "count", "post"} /\ Job(r) \notin InQueue => snapshot[Job(r)] # "none"
  /\ Stage(r) = "posted" => trainer[r].point < Points
  /\ Stage(r) \in {"drain", "finished"} => trainer[r].point = Points
  /\ Stage(r) = "finished" => Job(r) \in done
  /\ \A p \in 1 .. Points : <<r, p>> \in InQueue => p <= trainer[r].point
  /\ trainer[r].spare <= Spare[r]
  /\ Job(r) \in InQueue /\ Stage(r) \notin {"posted", "drain", "finished", "stopped"} => Repeated(r)

(* The directories of the queue stay consistent over repeated saves and a  *)
(* worker that dies and restarts (enqueue_evaluation, main): the promises, *)
(* and what makes them inductive.                                          *)
JobsInv ==
  /\ TypeOK /\ QueueBounded /\ NoJobTwice /\ JobsAreNeverLost /\ RetiredAfterEvaluation
  /\ PlacesAreCounted /\ WorkerHasOne /\ DoneMeansEvaluated /\ DoneInOrder
  /\ \A r \in 1 .. Runs : RunInv(r)

(* "no evaluation point is silently skipped": a run that ends normally has *)
(* the results of all its points, with every suite they asked for.         *)
FinishedMeansEvaluated ==
  \A r \in 1 .. Runs : Stage(r) = "finished" =>
    \A p \in 1 .. Points : <<r, p>> \in done /\ passed[<<r, p>>] = Demand[r][p]

(* "Each suite reloads this same immutable export": from the check of its  *)
(* digest to the end of a suite nobody changes the export.                 *)
ExportIsImmutable == [][worker.stage = "evaluate" => snapshot'[Active] = snapshot[Active]]_vars

Ended(r) == Stage(r) \in {"finished", "stopped"}

(* An evaluator that is gone for good stops every run, without waiting for *)
(* the hour of the deadline.                                               *)
LossIsNoticed == <>[](~On) => <>(\A r \in 1 .. Runs : Ended(r))

(* The save hook never holds a run back for ever, not even when the        *)
(* evaluator is restarted again and again without finishing a job: here    *)
(* the clock of every hook runs too (deadline, opsd_study.py).             *)
ClocksRun == \A r \in 1 .. Runs : WF_vars(DeadlinePasses(r))

RunsEnd == ClocksRun => <>(\A r \in 1 .. Runs : Ended(r))
=============================================================================
