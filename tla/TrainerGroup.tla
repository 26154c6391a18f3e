---------------------------- MODULE TrainerGroup ----------------------------
(***************************************************************************)
(* The trainer controller of one policy (miles/ray/train/group.py) and its *)
(* cells (miles/ray/train/cell.py): replicas of the model that exchange    *)
(* gradients as a process group named by a quorum id.  A cell that fails a *)
(* call is marked errored and killed; the platform removes cells and hands *)
(* out fresh ones; train refreshes the membership before every attempt,    *)
(* heals fresh cells from the first alive one and retries an attempt some  *)
(* surviving cell discarded.                                               *)
(*                                                                         *)
(* All methods of the controller run on one event loop, one call of the    *)
(* driver at a time; the awaits of the calls to the cells are the points   *)
(* where reconcile and other cells' calls interleave.                      *)
(***************************************************************************)
EXTENDS Integers, Sequences, FiniteSets, FiniteSetsExt

CONSTANTS
  NumCells,        \* args: cells of the pool, numbered from 0
  MaxAttempts,     \* _RETRY_MAX_ATTEMPTS
  MaxRollouts,     \* bound: rollouts the driver trains on
  MaxGenerations,  \* bound: times a cell is handed out again
  DriverCalls,     \* calls the driver makes besides train
  AtomicExchange,  \* the gradient exchange ends alike at all surviving cells
  ChecksNan        \* args.check_for_nan_in_loss_and_grad: bad gradients raise

ASSUME TrainerGroupAssumption ==
  /\ NumCells \in Nat \ {0}
  /\ MaxAttempts \in Nat \ {0}
  /\ MaxRollouts \in Nat
  /\ MaxGenerations \in Nat
  /\ DriverCalls \subseteq {"publish", "all"}
  /\ AtomicExchange \in BOOLEAN
  /\ ChecksNan \in BOOLEAN

Cells == 0 .. NumCells - 1

VARIABLES
  cell,       \* what the controller and the workers of each cell index hold
  quorum,     \* _indep_dp_quorum_id
  op,         \* the driver's call: train, one on the first alive cell, one on all
  phase,      \* where that call is
  rollout,    \* rollouts the driver has seen trained
  attempt,    \* attempts of retry() used up
  plan,       \* what _refresh_cells snapshotted
  task,       \* the awaited call to each cell of the current gather
  exchange,   \* the gradient exchange of this attempt
  published   \* the weights the last update_weights or save took from a cell

driverVars == <<op, rollout, published>>
vars == <<cell, quorum, op, phase, rollout, attempt, plan, task, exchange, published>>

Info == [quorum : Nat, members : SUBSET Cells]
Trivial == [quorum |-> 0, members |-> {}]

(* The steps a model has taken: the rollout each was for, the attempt      *)
(* whose gradients it applied, and the cells they came from.               *)
Fresh(g) == [state |-> "uninitialized", gen |-> g, info |-> Trivial,
             weights |-> << >>, trained |-> FALSE]

Idle == [i \in Cells |-> [gen |-> 0, st |-> "none"]]
NoPlan == [alive |-> {}, heal |-> {}, sent |-> {}]

(* init: every cell of the pool has been observed and initialised.         *)
Init ==
  /\ cell = [i \in Cells |-> [Fresh(0) EXCEPT !.state = "alive", !.info = [quorum |-> 0, members |-> Cells]]]
  /\ quorum = 0
  /\ op = "none" /\ phase = "idle"
  /\ rollout = 0 /\ attempt = 0
  /\ plan = NoPlan /\ task = Idle /\ exchange = "open"
  /\ published = << >>

InState(s) == {i \in Cells : cell[i].state = s}
Alive == InState("alive")
Healing == InState("uninitialized")

(* The call was made on the object that is still the controller's cell.    *)
Current(i) == cell[i].state # "absent" /\ task[i].gen = cell[i].gen

Unresolved == {"reconfigure", "send", "receive", "load", "call", "train"}
Awaited == {i \in Cells : task[i].st \in Unresolved}
With(st) == {i \in Cells : task[i].st = st}

Await(st) == [i \in Cells |-> IF st[i] = "none" THEN Idle[i] ELSE [gen |-> cell[i].gen, st |-> st[i]]]
Resolve(i, st) == task' = [task EXCEPT ![i].st = st]

-----------------------------------------------------------------------------
(* Reconcile: what the provider observes of the pool.                      *)

(* A cell disappears: it was suspended, or its workers are gone.           *)
RemoveCell(i) ==
  /\ cell[i].state # "absent"
  /\ cell[i].gen < MaxGenerations
  /\ phase # "fatal"
  /\ cell' = [cell EXCEPT ![i].state = "absent"]
  /\ UNCHANGED <<quorum, phase, attempt, plan, task, exchange, driverVars>>

(* A cell appears with fresh workers.                                      *)
AddCell(i) ==
  /\ cell[i].state = "absent"
  /\ phase # "fatal"
  /\ cell' = [cell EXCEPT ![i] = Fresh(cell[i].gen + 1)]
  /\ UNCHANGED <<quorum, phase, attempt, plan, task, exchange, driverVars>>

(* A cell is observed with another workers_hash.                           *)
ReplaceCell(i) ==
  /\ cell[i].state # "absent"
  /\ cell[i].gen < MaxGenerations
  /\ phase # "fatal"
  /\ cell' = [cell EXCEPT ![i] = Fresh(cell[i].gen + 1)]
  /\ UNCHANGED <<quorum, phase, attempt, plan, task, exchange, driverVars>>

-----------------------------------------------------------------------------
(* The end of an attempt.                                                  *)

Return == /\ phase' = "idle" /\ attempt' = 0 /\ op' = "none"
          /\ plan' = NoPlan /\ task' = Idle /\ exchange' = "open"
GiveUp == /\ phase' = "fatal"
          /\ plan' = NoPlan /\ task' = Idle /\ exchange' = "open"
          /\ UNCHANGED <<attempt, op>>

(* retry: an exception costs an attempt.  The one other NonRetryableError  *)
(* than NoCellAlive's is about the data a critic is given (cell.py): the   *)
(* policies modelled here have no critic.                                  *)
AttemptsLeftByOne == attempt < MaxAttempts
AttemptsLeft == attempt + 1 < MaxAttempts

NextAttemptReset == 0
NextAttempt == attempt + 1

Retry ==
  /\ attempt' = NextAttempt
  /\ phase' = IF AttemptsLeft THEN "attempt" ELSE "fatal"
  /\ plan' = NoPlan /\ task' = Idle /\ exchange' = "open"
  /\ UNCHANGED op

(* An attempt that failed everywhere is worth another one only while some  *)
(* cell is alive.                                                          *)
GiveUpAnyway == GiveUp
RetryIfRecoverable == IF Alive = {} THEN GiveUp ELSE Retry

(* Any exception of a call, a timeout included, marks the cell errored and *)
(* kills its workers; on an object that reconcile has dropped meanwhile    *)
(* that reaches nobody.                                                    *)
CallFails(i) ==
  /\ i \in Awaited
  /\ Resolve(i, "failed")
  /\ cell' = IF Current(i) THEN [cell EXCEPT ![i].state = "errored"] ELSE cell
  /\ UNCHANGED <<quorum, phase, attempt, plan, exchange, driverVars>>

-----------------------------------------------------------------------------
(* train: refresh the membership, then train on the alive cells.           *)

BeginTrain ==
  /\ phase = "idle"
  /\ rollout < MaxRollouts
  /\ op' = "train" /\ phase' = "attempt"
  /\ UNCHANGED <<cell, quorum, attempt, plan, task, exchange, rollout, published>>

(* _gather_all_alive_and_catch(train): every alive cell, as of now.        *)
TrainOn(cells) ==
  /\ phase' = "training"
  /\ task' = Await([i \in Cells |-> IF i \in cells THEN "train" ELSE "none"])
  /\ cell' = [i \in Cells |-> IF i \in cells THEN [cell[i] EXCEPT !.trained = TRUE] ELSE cell[i]]
  /\ exchange' = "open"

MustReconfigure ==
  \/ Healing # {}
  \/ \E i \in Alive : cell[i].info.members # Alive

SameQuorum == quorum
NextQuorum == quorum + 1

(* _refresh_cells up to the gather of the cooperative preparation.         *)
Refresh ==
  /\ phase = "attempt" /\ op = "train" /\ Alive # {} /\ MustReconfigure
  /\ quorum' = NextQuorum
  /\ plan' = [alive |-> Alive, heal |-> Healing, sent |-> {}]
  /\ task' = Await([i \in Cells |-> CASE i \in Alive -> "reconfigure"
                                      [] i \in Healing -> "receive"
                                      [] OTHER -> "none"])
  /\ phase' = "preparing"
  /\ UNCHANGED <<cell, attempt, exchange, driverVars>>

NothingToRefresh ==
  /\ phase = "attempt" /\ op = "train" /\ Alive # {} /\ ~MustReconfigure
  /\ TrainOn(Alive)
  /\ UNCHANGED <<quorum, attempt, plan, driverVars>>

NoCellAlive ==
  /\ phase = "attempt" /\ Alive = {}
  /\ GiveUp
  /\ UNCHANGED <<cell, quorum, rollout, published>>

Target == plan.alive \cup plan.heal
Source == Min(plan.alive)
NewInfo == [quorum |-> quorum, members |-> Target]

(* prepare_indep_dp_mode_alive: the cell leaves its process group for the  *)
(* new one; the source goes on to send its checkpoint.                     *)
KeptInfo(i) == cell[i].info
AdoptedInfo(i) == NewInfo

NobodySends(i) == "ok"
AfterReconfigure(i) == IF i = Source /\ plan.heal # {} THEN "send" ELSE "ok"

Reconfigure(i) ==
  /\ task[i].st = "reconfigure" /\ Current(i)
  /\ cell' = [cell EXCEPT ![i].info = AdoptedInfo(i)]
  /\ Resolve(i, AfterReconfigure(i))
  /\ UNCHANGED <<quorum, phase, attempt, plan, exchange, driverVars>>

(* The source serves one fresh cell after the other; the transfer needs    *)
(* both of them in the new group, and a source that has trained since its  *)
(* workers started.                                                        *)
ReceivedNothing(i) == cell[i].weights
Received(i) == cell[Source].weights

SendCheckpoint(i) ==
  /\ phase = "preparing"
  /\ task[Source].st = "send" /\ Current(Source)
  /\ cell[Source].trained
  /\ plan.heal \ plan.sent # {} /\ i = Min(plan.heal \ plan.sent)
  /\ plan' = [plan EXCEPT !.sent = @ \cup {i}]
  /\ LET sent == [task EXCEPT ![Source].st = IF plan.sent \cup {i} = plan.heal THEN "ok" ELSE "send"]
     IN IF task[i].st = "receive" /\ Current(i)
        THEN /\ task' = [sent EXCEPT ![i].st = "load"]
             /\ cell' = [cell EXCEPT ![i].weights = Received(i)]
        ELSE /\ task' = sent    \* the send outlived its receiver unnoticed
             /\ UNCHANGED cell
  /\ UNCHANGED <<quorum, phase, attempt, exchange, driverVars>>

(* prepare_indep_dp_mode_healing: init returns, the cell is alive.         *)
FinishInit(i) ==
  /\ task[i].st = "load" /\ Current(i)
  /\ cell' = [cell EXCEPT ![i].state = "alive", ![i].info = NewInfo]
  /\ Resolve(i, "ok")
  /\ UNCHANGED <<quorum, phase, attempt, plan, exchange, driverVars>>

(* After the gather: when nothing failed, a membership that changed during *)
(* the preparation fails an assertion, and the attempt; after a failure    *)
(* the attempt goes on with the cells that are left.                       *)
MembershipHolds == With("failed") # {} \/ Alive = Target

EndPrepare ==
  /\ phase = "preparing" /\ Awaited = {}
  /\ UNCHANGED <<quorum, rollout, published>>
  /\ \/ /\ MembershipHolds /\ Alive # {}
        /\ TrainOn(Alive)
        /\ UNCHANGED <<attempt, plan, op>>
     \/ /\ MembershipHolds /\ Alive = {}
        /\ GiveUp
        /\ UNCHANGED cell
     \/ /\ ~MembershipHolds
        /\ Retry
        /\ UNCHANGED cell

(* allreduce_grads_and_losses_across_replicas: it can only succeed while   *)
(* every member of the process group takes part in it.                     *)
Joined(i) ==
  \A j \in cell[i].info.members :
    task[j].st = "train" /\ Current(j) /\ cell[j].info = cell[i].info

(* The gradients exchanged are the same everywhere, and so is whether they *)
(* are numbers: when they are not, the call raises if that is checked for, *)
(* and no cell steps if it is not.                                         *)
Exchanged == {"done"} \cup (IF ChecksNan THEN {} ELSE {"nan"})

ExchangeSucceeds ==
  /\ phase = "training" /\ exchange = "open"
  /\ With("train") # {} /\ \A i \in With("train") : Current(i) /\ Joined(i)
  /\ exchange' \in Exchanged
  /\ UNCHANGED <<cell, quorum, phase, attempt, plan, task, driverVars>>

ExchangeFails ==
  /\ phase = "training" /\ exchange = "open"
  /\ \E i \in With("train") : Cardinality(cell[i].info.members) > 1
  /\ exchange' = "broken"
  /\ UNCHANGED <<cell, quorum, phase, attempt, plan, task, driverVars>>

Step(from) == <<rollout, attempt, from>>
StepOf(i, from) == [cell EXCEPT ![i].weights = Append(@, Step(from))]

(* train_one_step: the optimizer steps when the exchange succeeded.        *)
TrainReturnsNormal(i) ==
  /\ task[i].st = "train" /\ Current(i)
  /\ exchange \in Exchanged
  /\ cell' = IF exchange = "done" THEN StepOf(i, cell[i].info.members) ELSE cell
  /\ Resolve(i, "normal")
  /\ UNCHANGED <<quorum, phase, attempt, plan, exchange, driverVars>>

(* The attempt is reported as discarded, and the optimizer step skipped;   *)
(* where the gradients are looked at before the step, the result of that   *)
(* decides instead, and the cell may step on its own, or half summed, ones.*)
TrainReturnsDiscarded(i) ==
  /\ task[i].st = "train" /\ Current(i)
  /\ exchange = "broken" \/ (exchange \in Exchanged /\ ~AtomicExchange)
  /\ Cardinality(cell[i].info.members) > 1
  /\ cell' \in {cell} \cup (IF ChecksNan THEN {} ELSE {StepOf(i, {i})})
  /\ Resolve(i, "discarded")
  /\ UNCHANGED <<quorum, phase, attempt, plan, exchange, driverVars>>

(* _check_train_one_attempt: survivors that all stepped make the attempt   *)
(* a success even when other cells failed in it.                           *)
AcceptedWhenNothingFailed == With("normal") # {} /\ With("discarded") = {} /\ With("failed") = {}
Accepted == With("normal") # {} /\ With("discarded") = {}

EndAttempt ==
  /\ phase = "training" /\ Awaited = {}
  /\ UNCHANGED <<cell, quorum, published>>
  /\ \/ /\ Accepted
        /\ Return
        /\ rollout' = rollout + 1
     \/ /\ ~Accepted /\ With("discarded") # {}
        /\ Retry
        /\ UNCHANGED rollout
     \/ /\ ~Accepted /\ With("discarded") = {}
        /\ RetryIfRecoverable
        /\ UNCHANGED rollout

-----------------------------------------------------------------------------
(* update_weights, save_model, export_hf: retry(_execute_first_alive).     *)

BeginPublish ==
  /\ phase = "idle" /\ "publish" \in DriverCalls
  /\ op' = "publish" /\ phase' = "attempt"
  /\ UNCHANGED <<cell, quorum, attempt, plan, task, exchange, rollout, published>>

AskFirstAlive ==
  /\ phase = "attempt" /\ op = "publish" /\ Alive # {}
  /\ phase' = "calling"
  /\ task' = Await([i \in Cells |-> IF i = Min(Alive) THEN "call" ELSE "none"])
  /\ UNCHANGED <<cell, quorum, attempt, plan, exchange, driverVars>>

(* The weights are at the engines, or on the disk, before the call returns *)
(* and also when it fails after all.                                       *)
Deliver(i) ==
  /\ task[i].st = "call" /\ Current(i) /\ op = "publish"
  /\ published # cell[i].weights
  /\ published' = cell[i].weights
  /\ UNCHANGED <<cell, quorum, phase, attempt, plan, task, exchange, op, rollout>>

CallReturns(i) ==
  /\ task[i].st = "call" /\ Current(i)
  /\ op = "publish" => published = cell[i].weights
  /\ Resolve(i, "ok")
  /\ UNCHANGED <<cell, quorum, phase, attempt, plan, exchange, driverVars>>

EndPublish ==
  /\ phase = "calling" /\ op = "publish" /\ Awaited = {}
  /\ IF With("ok") # {} THEN Return ELSE RetryIfRecoverable
  /\ UNCHANGED <<cell, quorum, rollout, published>>

(* onload, offload, clear_memory: _execute_all_alive_and_catch.            *)
BeginOnAll ==
  /\ phase = "idle" /\ "all" \in DriverCalls
  /\ op' = "all"
  /\ IF Alive = {}
     THEN /\ phase' = "fatal" /\ UNCHANGED task
     ELSE /\ phase' = "calling"
          /\ task' = Await([i \in Cells |-> IF i \in Alive THEN "call" ELSE "none"])
  /\ UNCHANGED <<cell, quorum, attempt, plan, exchange, rollout, published>>

EndOnAll ==
  /\ phase = "calling" /\ op = "all" /\ Awaited = {}
  /\ IF Alive = {} THEN GiveUp ELSE Return
  /\ UNCHANGED <<cell, quorum, rollout, published>>

-----------------------------------------------------------------------------
CallProgress(i) ==
  \/ CallFails(i) \/ Reconfigure(i) \/ SendCheckpoint(i) \/ FinishInit(i)
  \/ TrainReturnsNormal(i) \/ TrainReturnsDiscarded(i) \/ Deliver(i) \/ CallReturns(i)

Controller ==
  \/ Refresh \/ NothingToRefresh \/ NoCellAlive \/ EndPrepare \/ EndAttempt
  \/ AskFirstAlive \/ EndPublish \/ EndOnAll

Next ==
  \/ \E i \in Cells : RemoveCell(i) \/ AddCell(i) \/ ReplaceCell(i)
  \/ BeginTrain \/ BeginPublish \/ BeginOnAll
  \/ Controller
  \/ \E i \in Cells : CallProgress(i)
  \/ ExchangeSucceeds \/ ExchangeFails

Spec == Init /\ [][Next]_vars
FairSpec == Spec /\ WF_vars(Controller) /\ \A i \in Cells : WF_vars(CallProgress(i))

-----------------------------------------------------------------------------
Models == Seq((0 .. MaxRollouts) \X (0 .. MaxAttempts) \X SUBSET Cells)

TypeOK ==
  /\ cell \in [Cells -> [state : {"uninitialized", "alive", "errored", "absent"},
                         gen : 0 .. MaxGenerations, info : Info,
                         weights : Models,
                         trained : BOOLEAN]]
  /\ quorum \in Nat
  /\ op \in {"none", "train", "publish", "all"}
  /\ phase \in {"idle", "attempt", "preparing", "training", "calling", "fatal"}
  /\ rollout \in 0 .. MaxRollouts /\ attempt \in 0 .. MaxAttempts
  /\ plan \in [alive : SUBSET Cells, heal : SUBSET Cells, sent : SUBSET Cells]
  /\ task \in [Cells -> [gen : 0 .. MaxGenerations,
                         st : Unresolved \cup {"none", "ok", "failed", "normal", "discarded"}]]
  /\ exchange \in {"open", "broken"} \cup Exchanged
  /\ published \in Models

(* "ALL ranks discard": a cell that reports its attempt discarded has     *)
(* taken no step in it (train_one_step).                                   *)
DiscardedTakesNoStep ==
  \A i \in With("discarded") : Current(i) =>
    \A k \in DOMAIN cell[i].weights :
      ~ (cell[i].weights[k][1] = rollout /\ cell[i].weights[k][2] = attempt)

(* Between two calls of the driver all alive cells hold the same model.    *)
ReplicasAgree ==
  phase = "idle" => \A i, j \in Alive : cell[i].weights = cell[j].weights

(* ... and that model has taken one step for every rollout the driver was  *)
(* told is trained, in order, however many attempts, failures and healings *)
(* it took.                                                                *)
EveryRolloutAppliedOnce ==
  phase = "idle" =>
    \A i \in Alive : /\ Len(cell[i].weights) = rollout
                     /\ \A k \in 1 .. rollout : cell[i].weights[k][1] = k - 1

(* A quorum id names one membership: the process groups of one id          *)
(* rendezvous in one place, so two memberships under it would meet.        *)
QuorumNamesOneMembership ==
  \A i, j \in {k \in Cells : cell[k].info # Trivial /\ cell[k].state # "absent"} :
    cell[i].info.quorum = cell[j].info.quorum => cell[i].info.members = cell[j].info.members

(* The cells that train in one attempt are in one process group.           *)
TrainersShareAGroup ==
  \A i, j \in With("train") : Current(i) /\ Current(j) => cell[i].info = cell[j].info

(* The account of the gather: without one no call is awaited, a call fits  *)
(* the phase, was made on the present object of its cell or an older one,  *)
(* and on a present object in the state the call needs.                    *)
CallsFitPhase ==
  /\ phase \in {"idle", "attempt", "fatal"} => task = Idle
  /\ \A i \in Cells :
       /\ task[i].st \in {"reconfigure", "send", "receive", "load"} => phase = "preparing"
       /\ task[i].st \in {"train", "normal", "discarded"} => phase = "training"
       /\ task[i].st = "call" => phase = "calling"
       /\ task[i].gen <= cell[i].gen
       /\ Current(i) /\ task[i].st \in {"reconfigure", "send", "ok", "train", "normal", "discarded", "call"}
            => cell[i].state = "alive"
       /\ Current(i) /\ task[i].st \in {"receive", "load"} => cell[i].state = "uninitialized"
  /\ phase \in {"preparing", "training"} => op = "train"
  /\ phase = "preparing" => plan.alive # {}
  /\ op = "train" => rollout < MaxRollouts
  /\ phase # "fatal" => attempt < MaxAttempts
  /\ \A i \in Cells : cell[i].state = "absent" => cell[i].gen < MaxGenerations

(* Every alive cell takes part: it adopts the new group before it trains,  *)
(* and between two preparations all alive cells are in one group.          *)
AliveTakePart ==
  \A i \in Alive :
    /\ phase = "preparing" => /\ Current(i)
                             /\ \/ task[i].st = "reconfigure"
                                \/ task[i].st \in {"send", "ok"} /\ cell[i].info = NewInfo
    /\ phase = "training" => Current(i) /\ task[i].st \in {"train", "normal", "discarded"}
    /\ phase # "preparing" => \A j \in Alive : cell[i].info = cell[j].info

(* Quorum ids are given once, and the present one to the planned group.    *)
QuorumsAreNew ==
  /\ \A i \in Cells : cell[i].info.quorum <= quorum
  /\ phase = "preparing" => /\ quorum > 0
                           /\ \A i \in Cells : cell[i].info.quorum = quorum => cell[i].info = NewInfo
  /\ \A i, j \in {k \in Cells : cell[k].info # Trivial} :
       cell[i].info.quorum = cell[j].info.quorum => cell[i].info.members = cell[j].info.members

(* Sender and receivers of a preparation do not wait for each other: one   *)
(* cell sends, once it is in the group and has somebody left to serve, and *)
(* who waits for its checkpoint is served later unless the sender fails.   *)
TransfersMeet ==
  phase = "preparing" =>
    /\ plan.sent \subseteq plan.heal
    /\ task[Source].st = "reconfigure" => plan.sent = {}
    /\ \A i \in Cells :
         /\ task[i].st = "send" => i = Source /\ plan.heal \ plan.sent # {}
         /\ task[i].st = "receive" /\ Current(i) =>
              /\ i \in plan.heal \ plan.sent
              /\ task[Source].st \in {"reconfigure", "send", "failed"}

(* The membership of the group stays consistent over failed preparations,  *)
(* replacements and attempts (_refresh_cells, RayTrainCell.indep_dp_info), *)
(* and the transfers of a preparation meet (send_ckpt).                    *)
GroupInv ==
  /\ TypeOK /\ QuorumNamesOneMembership /\ TrainersShareAGroup
  /\ CallsFitPhase /\ AliveTakePart /\ QuorumsAreNew /\ TransfersMeet

IsPrefixOf(s, t) == Len(s) <= Len(t) /\ \A k \in 1 .. Len(s) : s[k] = t[k]

(* The weights handed to the engines or saved never go back: no later      *)
(* publication drops a step that an earlier one contained.                 *)
PublishedNeverGoesBack == [][IsPrefixOf(published, published')]_published

(* The controller gives up only when no cell is alive or the attempts are  *)
(* used up.                                                                *)
GivesUpForCause == phase = "fatal" => Alive = {} \/ attempt = MaxAttempts

(* What the cells hold that are alive or about to be: one step for every   *)
(* rollout, the same ones everywhere, and what was published before; while *)
(* an attempt ends, some cells have taken its step already, unless it was  *)
(* discarded (_check_train_one_attempt, send_ckpt).                        *)
Holders == Alive \cup {i \in Cells : Current(i) /\ task[i].st = "load"}

OneStepEach(w, n) == Len(w) = n /\ \A k \in 1 .. n : w[k][1] = k - 1

Stepped(i) == task[i].st = "normal"

WeightsInv ==
  /\ phase # "training" =>
       \A i, j \in Holders : OneStepEach(cell[i].weights, rollout) /\ cell[i].weights = cell[j].weights
  /\ phase = "training" =>
       /\ \A i \in Alive : OneStepEach(cell[i].weights, IF Stepped(i) THEN rollout + 1 ELSE rollout)
       /\ \A i, j \in Alive : (Stepped(i) <=> Stepped(j)) => cell[i].weights = cell[j].weights
       /\ \A i, j \in Alive : Stepped(i) /\ ~Stepped(j) =>
            cell[i].weights = Append(cell[j].weights, Step(cell[i].info.members))
       /\ With("normal") # {} => exchange = "done"
       /\ With("discarded") # {} => exchange = "broken"
  /\ \A i \in Holders : IsPrefixOf(published, cell[i].weights)

(* Every call of the driver ends, with a result or with an error.          *)
CallsEnd == phase # "idle" ~> phase \in {"idle", "fatal"}
=============================================================================
