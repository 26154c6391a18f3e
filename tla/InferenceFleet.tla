--------------------------- MODULE InferenceFleet ---------------------------
(***************************************************************************)
(* The inference controller (ray/rollout/inference_controller.py), its     *)
(* server cells, the router their engines are registered with, the health  *)
(* checker of every cell, and the orchestration script that sends new      *)
(* weights to the engines and may be replaced while the controller and the *)
(* engines live on (utils/hot_restart.py).                                 *)
(*                                                                         *)
(* The controller's context lock is held across a whole weight update: the *)
(* call that starts the update detaches it and the one that ends or aborts *)
(* the update takes it back.  Whatever else takes the lock holds it for    *)
(* one step here.  A cell's incarnation stands for its workers_hash, and   *)
(* for the URL the router knows its engine by (server_cell.py:212): that a *)
(* new engine never has the URL of an old one that could not be taken out  *)
(* of the router is assumed.                                               *)
(* Engines come, go and are replaced by the world at any time.  Colocated  *)
(* engines and models whose weights are frozen are left out.               *)
(***************************************************************************)
EXTENDS Integers, Sequences

CONSTANTS
    Cells,
    Checked,        \* bound: the cells whose health checker is followed
    Renewed,        \* bound: the cells whose engine is ever replaced
    Threshold,      \* failure_threshold of the health checks
    MaxIncarnation, \* bound: incarnations of a cell
    MaxUpdates,     \* bound: weight updates
    MaxScripts,     \* bound: orchestration scripts, one after the other
    MaxFaults       \* bound: calls to the router that fail

ASSUME FleetAssumption ==
    /\ Checked \subseteq Cells /\ Renewed \subseteq Cells
    /\ {Threshold, MaxIncarnation, MaxScripts} \subseteq Nat \ {0}
    /\ {MaxUpdates, MaxFaults} \subseteq Nat

VARIABLES
    world,      \* cell -> the incarnation of its engine that runs, or 0
    born,       \* cell -> the last incarnation there was
    weights,    \* cell -> the weight version that engine holds
    cell,       \* cell -> the controller's server cell
    router,     \* the incarnations the router sends requests to
    locked,     \* the context lock is detached to a weight update
    update,     \* where the controller stands in a weight update
    snapshot,   \* the cells of the update, with their incarnations
    sent,       \* those that have the new weights
    registering,\* mark_weights_ready calls in flight: cell, hash, update
    target,     \* the version of the last update begun
    committed,  \* the version of the last update that ended
    active,     \* health checking: ActivenessTracker
    epoch,
    checker,    \* cell -> its health checker
    script,     \* where the orchestration script stands
    scripts,    \* how many there have been
    faults

fleet  == <<world, born, weights, cell, router>>
lock   == <<locked, update, snapshot, sent, registering, target, committed>>
health == <<active, epoch, checker>>
run    == <<script, scripts>>
vars   == <<fleet, lock, health, run, faults>>

Incarnations == 1 .. MaxIncarnation
NoCell     == [state |-> "none", hash |-> 0]
NewChecker == [seen |-> <<FALSE, 0>>, failures |-> <<>>, status |-> "unknown", probe |-> -1]

Present == {c \in Cells : cell[c].state # "none"}
IsReady(c) == cell[c].state \in {"pending", "serving"}
IsWaiting(c, h) == cell[c] = [state |-> "pending", hash |-> h]

----------------------------------------------------------------------------
(* Faulty variants of definitions below                                    *)

ServeAtOnce == "serving"
NeverLate   == FALSE
ResumedWithFailures(k, now) == [k EXCEPT !.seen = now, !.status = "unknown"]
UnregisterPending(c) == IF cell[c].state = "pending" THEN {<<c, cell[c].hash>>} ELSE {}

----------------------------------------------------------------------------
(* Engines and cells                                                       *)

\* An engine starts, or is replaced by the next incarnation, or goes away.
EngineChanges(c) ==
    /\ \/ /\ born[c] < IF c \in Renewed THEN MaxIncarnation ELSE 1
          /\ born' = [born EXCEPT ![c] = @ + 1]
          /\ world' = [world EXCEPT ![c] = born'[c]]
       \/ /\ world[c] # 0
          /\ world' = [world EXCEPT ![c] = 0]
          /\ UNCHANGED born
    /\ weights' = [weights EXCEPT ![c] = 0]
    /\ UNCHANGED <<cell, router, lock, health, run, faults>>

\* What dispose() takes out of the router; a call that fails is only logged.
Unregistered(c) == IF cell[c].state = "serving" THEN {<<c, cell[c].hash>>} ELSE {}

Dispose(c) ==
    \/ /\ router' = router \ Unregistered(c)
       /\ UNCHANGED faults
    \/ /\ Unregistered(c) # {}
       /\ faults < MaxFaults
       /\ faults' = faults + 1
       /\ UNCHANGED router

\* _reconcile: adds the observed cell, removes one that is gone, replaces one
\* whose hash has changed.  An add whose init fails leaves no cell; the
\* reconcile loop calls again.
Reconcile(c) ==
    /\ ~ locked
    /\ world[c] # cell[c].hash
    /\ Dispose(c)
    /\ \/ cell' = [cell EXCEPT ![c] = NoCell]
       \/ /\ world[c] # 0
          /\ cell' = [cell EXCEPT ![c] = [state |-> "initializing", hash |-> world[c]]]
    /\ checker' = [checker EXCEPT ![c] = NewChecker]
    /\ UNCHANGED <<world, born, weights, lock, active, epoch, run>>

\* An engine that answers its probe waits for weights before it serves.
AfterProbe == "pending"

Tick(c) ==
    /\ ~ locked
    /\ cell[c].state = "initializing"
    /\ world[c] = cell[c].hash
    /\ cell' = [cell EXCEPT ![c].state = AfterProbe]
    /\ router' = IF AfterProbe = "serving" THEN router \cup {<<c, world[c]>>} ELSE router
    /\ UNCHANGED <<world, born, weights, lock, health, run, faults>>

----------------------------------------------------------------------------
(* A weight update                                                         *)

BumpActive(now) ==
    /\ active' = now
    /\ epoch'  = IF now = active THEN epoch ELSE epoch + 1

\* prepare_rollout or prepare_eval.
PrepareRollout ==
    /\ script = "idle"
    /\ ~ locked
    /\ BumpActive(TRUE)
    /\ UNCHANGED <<fleet, lock, checker, run, faults>>

\* start_update_weights takes the lock and pauses health checking; it then
\* waits for the cells, without the lock between two looks at them.
StartUpdate ==
    /\ script = "idle"
    /\ ~ locked
    /\ target < MaxUpdates
    /\ target' = target + 1
    /\ BumpActive(FALSE)
    /\ update' = "waiting"
    /\ script' = "updating"
    /\ UNCHANGED <<fleet, locked, snapshot, sent, registering, committed,
                   checker, scripts, faults>>

\* _ensure_cells_ready finds every cell ready: the call returns the engines
\* and detaches the lock.
CellsReady ==
    /\ update = "waiting"
    /\ ~ locked
    /\ \A c \in Present : IsReady(c)
    /\ locked' = TRUE
    /\ snapshot' = [c \in Present |-> cell[c].hash]
    /\ sent' = {}
    /\ update' = "detached"
    /\ UNCHANGED <<fleet, registering, target, committed, health, run, faults>>

Late == TRUE

\* The deadline: the call releases the lock and raises, and the script ends.
WaitTimesOut ==
    /\ update = "waiting"
    /\ Late
    /\ update' = "none"
    /\ script' = IF script = "updating" THEN "failed" ELSE script
    /\ UNCHANGED <<fleet, locked, snapshot, sent, registering, target,
                   committed, health, scripts, faults>>

\* The trainer sends the weights to one engine of the update; it goes on with
\* the call when the script that made it is gone.
SendWeights(c) ==
    /\ update = "detached"
    /\ c \in DOMAIN snapshot \ sent
    /\ world[c] = snapshot[c]
    /\ weights' = [weights EXCEPT ![c] = target]
    /\ sent' = sent \cup {c}
    /\ UNCHANGED <<world, born, cell, router, locked, update, snapshot,
                   registering, target, committed, health, run, faults>>

\* An engine of the update is gone, which the trainer's call does not survive.
EngineLost == \E c \in DOMAIN snapshot \ sent : world[c] # snapshot[c]

\* The trainer's call raises, for this or another reason: the script aborts
\* the update, and ends.
AbortUpdate ==
    /\ update = "detached" /\ script = "updating"
    /\ locked' = FALSE
    /\ update' = "none"
    /\ script' = "failed"
    /\ UNCHANGED <<fleet, snapshot, sent, registering, target, committed,
                   health, scripts, faults>>

\* end_update_weights takes the lock over and registers the waiting cells.
EndUpdate ==
    /\ update = "detached" /\ script = "updating"
    /\ sent = DOMAIN snapshot
    /\ update' = "ending"
    /\ registering' = registering \cup
          {<<c, snapshot[c], target>> : c \in {d \in DOMAIN snapshot : IsWaiting(d, snapshot[d])}}
    /\ UNCHANGED <<fleet, locked, snapshot, sent, target, committed, health,
                   run, faults>>

\* The calls the update that is ending waits for; those of an update that
\* failed go on without it.
Awaited == {r \in registering : update = "ending" /\ r[3] = target}

\* A call fails: the gather raises it at once, the lock is released and the
\* script ends, while the other calls stay in flight.
Raise(r) ==
    IF r \in Awaited
    THEN /\ locked' = FALSE
         /\ update' = "none"
         /\ script' = IF script = "updating" THEN "failed" ELSE script
    ELSE UNCHANGED <<locked, update, script>>

\* One mark_weights_ready ends: the router takes the engine and the cell
\* serves, unless it no longer waits, which _change_state refuses.
RegisterCell(r) ==
    /\ r \in registering
    /\ registering' = registering \ {r}
    /\ router' = router \cup {<<r[1], r[2]>>}
    /\ IF IsWaiting(r[1], r[2])
       THEN /\ cell' = [cell EXCEPT ![r[1]].state = "serving"]
            /\ UNCHANGED <<locked, update, script>>
       ELSE /\ Raise(r)
            /\ UNCHANGED cell
    /\ UNCHANGED <<world, born, weights, snapshot, sent, target, committed,
                   health, scripts, faults>>

\* The call to the router fails, whether or not the router took the engine.
RegisterFails(r) ==
    /\ r \in registering
    /\ faults < MaxFaults
    /\ faults' = faults + 1
    /\ registering' = registering \ {r}
    /\ router' \in {router, router \cup {<<r[1], r[2]>>}}
    /\ Raise(r)
    /\ UNCHANGED <<world, born, weights, cell, snapshot, sent, target,
                   committed, health, scripts>>

UpdateEnds ==
    /\ update = "ending"
    /\ Awaited = {}
    /\ locked' = FALSE
    /\ update' = "none"
    /\ committed' = target
    /\ script' = IF script = "updating" THEN "idle" ELSE script
    /\ UNCHANGED <<fleet, snapshot, sent, registering, target, health, scripts, faults>>

----------------------------------------------------------------------------
(* Health checking                                                         *)

\* What a cell's checker is told: whether to probe, and the epoch.
Activeness(c) == <<active /\ IsReady(c), epoch>>

Resumed(k, now) == [NewChecker EXCEPT !.seen = now]

Paused(k, now) == [k EXCEPT !.seen = now, !.status = "unknown"]

\* The top of _loop: it takes note of a change, and probes.  The first wait
\* after a resumption is one more turn of the loop.
CheckerLoops(c) ==
    LET now == Activeness(c)
        k   == IF now = checker[c].seen THEN checker[c]
               ELSE IF now[1] THEN Resumed(checker[c], now) ELSE Paused(checker[c], now)
    IN /\ cell[c].state # "none"
       /\ checker[c].probe = -1
       /\ checker' = [checker EXCEPT ![c] =
              IF now[1] /\ now = checker[c].seen THEN [k EXCEPT !.probe = now[2]] ELSE k]
       /\ UNCHANGED <<fleet, lock, active, epoch, run, faults>>

\* _publish_result; failures past the threshold change nothing.
Published(k, success) ==
    LET failed == IF Len(k.failures) < Threshold THEN Append(k.failures, k.probe)
                  ELSE k.failures
    IN IF success THEN [k EXCEPT !.failures = <<>>, !.status = "healthy"]
       ELSE [k EXCEPT !.failures = failed,
                      !.status = IF Len(failed) >= Threshold THEN "unhealthy" ELSE @]

\* The answer, or its timeout; it counts only if the epoch is still the one
\* it was asked in.
ProbeEnds(c) ==
    LET k == checker[c]
    IN /\ k.probe # -1
       /\ \E success \in BOOLEAN :
             checker' = [checker EXCEPT ![c] =
                [IF Activeness(c) = <<TRUE, k.probe>> THEN Published(k, success) ELSE k
                 EXCEPT !.probe = -1]]
       /\ UNCHANGED <<fleet, lock, active, epoch, run, faults>>

\* The status the controller reads.
Verdict(c) ==
    IF Activeness(c)[1] /\ Activeness(c) = checker[c].seen
    THEN checker[c].status ELSE "unknown"

----------------------------------------------------------------------------
(* The orchestration script                                                *)

\* It is killed, or its pod is replaced: nothing it began is undone.
ScriptDies ==
    /\ script \in {"idle", "updating", "takeover"}
    /\ script' = "dead"
    /\ UNCHANGED <<fleet, lock, health, scripts, faults>>

NextScript ==
    /\ script \in {"dead", "failed"}
    /\ scripts < MaxScripts
    /\ script' = "takeover"
    /\ scripts' = scripts + 1
    /\ UNCHANGED <<fleet, lock, health, faults>>

\* init_or_reset_inference_controller: once no call of the last script runs
\* any more, abort_all takes the lock.
TakeOver ==
    /\ script = "takeover"
    /\ update \in {"none", "detached"}
    /\ ~ locked
    /\ script' = "idle"
    /\ UNCHANGED <<fleet, lock, health, scripts, faults>>

\* abort_all waits for the lock past its timeout, or raises.
TakeOverFails ==
    /\ script = "takeover"
    /\ update \in {"none", "detached"}
    /\ \/ locked /\ UNCHANGED faults
       \/ faults < MaxFaults /\ faults' = faults + 1
    /\ script' = "failed"
    /\ UNCHANGED <<fleet, lock, health, scripts>>

----------------------------------------------------------------------------

Init ==
    /\ world = [c \in Cells |-> 0] /\ born = world /\ weights = world
    /\ cell = [c \in Cells |-> NoCell]
    /\ router = {}
    /\ locked = FALSE /\ update = "none"
    /\ snapshot = <<>> /\ sent = {} /\ registering = {}
    /\ target = 0 /\ committed = 0
    /\ active = TRUE /\ epoch = 0
    /\ checker = [c \in Cells |-> NewChecker]
    /\ script = "idle" /\ scripts = 1
    /\ faults = 0

UpdateStep ==
    \/ CellsReady \/ WaitTimesOut \/ EndUpdate \/ UpdateEnds
    \/ EngineLost /\ AbortUpdate
    \/ \E c \in Cells : SendWeights(c)
    \/ \E r \in registering : RegisterCell(r)

CellStep(c) == EngineChanges(c) \/ Reconcile(c) \/ Tick(c)

CheckerStep(c) == CheckerLoops(c) \/ ProbeEnds(c)

ScriptStep ==
    \/ PrepareRollout \/ StartUpdate
    \/ ScriptDies \/ NextScript \/ TakeOver \/ TakeOverFails

Next ==
    \/ \E c \in Cells : CellStep(c)
    \/ \E c \in Checked : CheckerStep(c)
    \/ UpdateStep \/ AbortUpdate
    \/ \E r \in registering : RegisterFails(r)
    \/ ScriptStep

Spec == Init /\ [][Next]_vars

\* The controller, the trainer and a script that lives go on; engines, their
\* first answer, calls that fail without need, scripts that die and their
\* relaunch are up to the world.
Fairness ==
    /\ WF_vars(UpdateStep)
    /\ \A c \in Cells : WF_vars(Reconcile(c))
    /\ WF_vars(TakeOver) /\ WF_vars(TakeOverFails)

FairSpec == Spec /\ Fairness

----------------------------------------------------------------------------
(* Properties                                                              *)

TypeOK ==
    /\ world \in [Cells -> 0 .. MaxIncarnation] /\ born \in [Cells -> 0 .. MaxIncarnation]
    /\ weights \in [Cells -> Nat]
    /\ cell \in [Cells -> [state : {"none", "initializing", "pending", "serving"},
                           hash : 0 .. MaxIncarnation]]
    /\ router \subseteq Cells \X Incarnations
    /\ registering \subseteq Cells \X Incarnations \X (1 .. target)
    /\ update \in {"none", "waiting", "detached", "ending"}
    /\ target \in Nat /\ committed \in 0 .. target /\ epoch \in Nat /\ faults \in Nat
    /\ checker \in [Cells -> [seen : BOOLEAN \X Nat, failures : Seq(Nat),
                              status : {"unknown", "healthy", "unhealthy"}, probe : Nat \cup {-1}]]
    /\ locked \in BOOLEAN /\ active \in BOOLEAN
    /\ script \in {"idle", "updating", "failed", "dead", "takeover"}

\* Incarnations only come after one another, and a cell has a hash unless it
\* is gone; an engine holds no weights that were never sent.
EnginesAreNew ==
    \A c \in Cells :
        /\ world[c] <= born[c] /\ cell[c].hash <= born[c]
        /\ cell[c].state = "none" <=> cell[c].hash = 0
        /\ weights[c] <= target

\* The lock is held exactly while an update holds the fleet still.
LockHolds ==
    /\ locked <=> update \in {"detached", "ending"}
    /\ locked => snapshot = [c \in Present |-> cell[c].hash] /\ sent \subseteq Present
    /\ update # "none" => target > 0
    /\ update = "ending" => sent = Present

\* Every cell that serves, and as long as no call to the router failed
\* nothing else, is in the router; no call is in flight then but those of the
\* update that ends, for cells that wait for them.
Serving == {<<c, cell[c].hash>> : c \in {d \in Cells : cell[d].state = "serving"}}
RouterServes ==
    /\ Serving \subseteq router
    /\ faults = 0 =>
         /\ router = Serving
         /\ \A r \in registering : update = "ending" /\ r[3] = target /\ IsWaiting(r[1], r[2])

\* What is in the router, or on its way there, is an engine of the past or
\* the one its cell stands for, which the last update that ended reached.
Routed == router \cup {<<r[1], r[2]>> : r \in registering}
RoutesAreKnown ==
    /\ \A e \in Routed : e[2] <= born[e[1]]
    /\ \A c \in Cells : <<c, world[c]>> \in Routed =>
          cell[c].hash = world[c] /\ IsReady(c) /\ weights[c] >= committed
    /\ locked => \A c \in sent : world[c] = cell[c].hash => weights[c] = target

\* A checker's failures are of the epoch it is in, and so is its probe.
CheckersAreCurrent ==
    \A c \in Cells : LET k == checker[c] IN
        /\ k.probe # -1 => k.seen[1] /\ k.seen[2] = k.probe
        /\ k.seen[1] => \A i \in 1 .. Len(k.failures) : k.failures[i] = k.seen[2]
        /\ k.status = "unhealthy" => k.seen[1] /\ Len(k.failures) = Threshold
        /\ Len(k.failures) <= Threshold

\* The fleet, the controller and the router agree (mark_weights_ready,
\* dispose, _ensure_cells_ready, snapshot_cell_id_to_hashes), and every health
\* checker counts the failures of its epoch alone (_loop).
FleetInv ==
    /\ TypeOK /\ EnginesAreNew /\ LockHolds /\ RouterServes /\ RoutesAreKnown
    /\ CheckersAreCurrent

\* A live engine the router sends requests to has at least the weights of the
\* last update that ended, whatever came, went, failed or was replaced
\* (_ensure_cells_ready, snapshot_cell_id_to_hashes, mark_weights_ready).
RoutedHaveWeights ==
    \A c \in Cells : <<c, world[c]>> \in router => weights[c] >= committed

\* A cell is declared unhealthy on failures of the present epoch alone, never
\* on a probe of before a pause (the epoch check of _loop).
VerdictIsCurrent ==
    \A c \in Cells : Verdict(c) = "unhealthy" =>
        /\ Len(checker[c].failures) = Threshold
        /\ \A i \in 1 .. Threshold : checker[c].failures[i] = epoch

\* A weight update whose script lives ends, in success or in failure, even if
\* some engine never comes up (the deadline, abort_update_weights).
UpdatesSettle ==
    (script = "updating") ~> (script # "updating" /\ (update = "none" \/ script = "dead"))

\* A script that takes the fleet over gets it, unless it dies itself
\* (tests/fast/utils/test_hot_restart.py).
TakeOversSucceed == (script = "takeover") ~> (script \in {"idle", "updating", "dead"})
=============================================================================
