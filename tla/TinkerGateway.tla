--------------------------- MODULE TinkerGateway ---------------------------
(***************************************************************************)
(* The Tinker gateway (miles/tinker/core/service.py): clients open         *)
(* sessions, create LoRA models that each lease one adapter slot of the    *)
(* shared trainer, and submit numbered commands whose results they fetch   *)
(* from futures.  One asyncio event loop runs                              *)
(*                                                                         *)
(*   - the HTTP handlers, atomic between awaits, at any time;              *)
(*   - the dispatcher (TinkerService.run), which selects a unit of work    *)
(*     and sends it to the trainer;                                        *)
(*   - one task per create_model, which loads the adapter;                 *)
(*   - the lease sweeper, which closes the models of stale sessions.       *)
(*                                                                         *)
(* The last three serialize on _trainer_lock, an asyncio.Lock: FIFO.       *)
(* Sampling is a separate part of the service and shares only the sessions *)
(* with what is modelled here.                                             *)
(***************************************************************************)
EXTENDS TinkerScheduler

CONSTANTS Session,        \* session ids (uuids)
          ModelSeqs,      \* the model_seq_id values clients use
          NSlots,         \* config.n_slots
          Offers,         \* Offers[m][s]: what a client may send as command s
          MortalSessions, \* bound: the sessions whose heartbeat may stop
          Retention,      \* bound: the futures that reach their TTL once done
          TrainerFaults,  \* bound: the kinds of failures of trainer calls
          EagerClients    \* whether clients send commands before the future
                          \* of create_model is done

ASSUME GatewayAssumption ==
    /\ Session # {}
    /\ NSlots \in Nat \ {0}
    /\ Offers \in [Model -> [Seqs -> SUBSET Command]]
    /\ MortalSessions \subseteq Session
    /\ Retention \subseteq Model \X (0..MaxSeq)
    /\ TrainerFaults \subseteq {"error", "raise"}
    /\ EagerClients \in BOOLEAN

Slots == 0..(NSlots - 1)

\* The tasks that take the trainer lock.
Dispatcher == <<"dispatcher">>
Sweeper == <<"sweeper">>
Creator(m) == <<"create_model", m>>
Tasks == {Dispatcher, Sweeper} \cup {Creator(m) : m \in Model}

VARIABLES
    sessions,     \* the lease of each session id
    modelsBySeq,  \* session.models_by_seq, as triples
    born,         \* the model ids handed out
    session,      \* record.session_id
    slot,         \* record.slot
    open,         \* keys of self.models and of scheduler._model_queues
    initialized,  \* record.slot_initialized
    accepted,     \* keys of record.request_id_by_seq
    freeSlots,    \* self.free_slots
    closing,      \* the model whose _close_model awaits the trainer
    waiting,      \* model_queue.pending_by_seq
    last,         \* model_queue.last_enqueued_seq_id
    queued,       \* model_queue.queue
    req,          \* the PendingRequest of each command
    arrivals,     \* _arrival_counter
    fut,          \* the future of each command; 0 is create_model's
    lock,         \* _trainer_lock: its owner, then its waiters
    wake,         \* _wake
    dispatcher,   \* where run() stands
    unit,         \* the datums of the unit the trainer executes
    todo,         \* outcomes run() has yet to hand to _finish_request
    creator,      \* where _run_create_model stands, per model
    sweeper,      \* where _run_lease_sweeper stands
    expiring,     \* models _expire_sessions has yet to close
    backgroundError, \* _background_error
    stopped,      \* run() has raised: the process exits
    dead,         \* trainer_dead(): the trainer cell is errored
    adapter,      \* whose adapter the trainer holds in each slot
    ran,          \* the datums (1: the barrier) the trainer has executed
    spoiled       \* models with a failed training operation

clientVars == <<sessions, modelsBySeq>>
recordVars == <<born, session, slot>>
modelVars == <<open, initialized, accepted, freeSlots, closing>>
queueVars == <<waiting, last, queued, req, arrivals>>
dispatchVars == <<wake, dispatcher, unit, todo>>
taskVars == <<creator, sweeper, expiring>>
faultVars == <<backgroundError, stopped, dead>>
trainerVars == <<adapter, ran, spoiled>>

vars == <<clientVars, recordVars, modelVars, queueVars, fut, lock,
          dispatchVars, taskVars, faultVars, trainerVars>>

----------------------------------------------------------------------------
BlankRequest ==
    [op |-> "forward_only", key |-> CHOOSE key \in PackKeys : TRUE,
     costs |-> << >>, invalid |-> FALSE, arrival |-> 0, issued |-> 0,
     remaining |-> 0]

Init ==
    /\ sessions = [ses \in Session |-> "absent"]
    /\ modelsBySeq = {}
    /\ born = {}
    /\ session = [m \in Model |-> CHOOSE ses \in Session : TRUE]
    /\ slot = [m \in Model |-> 0]
    /\ open = {}
    /\ initialized = [m \in Model |-> FALSE]
    /\ accepted = [m \in Model |-> {}]
    /\ freeSlots = Slots
    /\ closing = {}
    /\ waiting = [m \in Model |-> {}]
    /\ last = [m \in Model |-> 0]
    /\ queued = [m \in Model |-> {}]
    /\ req = [m \in Model |-> [s \in Seqs |-> BlankRequest]]
    /\ arrivals = 0
    /\ fut = [m \in Model |-> [s \in 0..MaxSeq |-> "none"]]
    /\ lock = << >>
    /\ wake = FALSE
    /\ dispatcher = "top"
    /\ unit = {}
    /\ todo = {}
    /\ creator = [m \in Model |-> "none"]
    /\ sweeper = "sleep"
    /\ expiring = {}
    /\ backgroundError = FALSE
    /\ stopped = FALSE
    /\ dead = FALSE
    /\ adapter = [k \in Slots |-> {}]
    /\ ran = [m \in Model |-> [s \in Seqs |-> {}]]
    /\ spoiled = {}

----------------------------------------------------------------------------
(* asyncio.Lock hands over in FIFO order; a task that finds the lock taken *)
(* or waited for queues up.                                                *)

Join(q, task) == Append(q, task)

Holds(task) == lock # << >> /\ Head(lock) = task

Settled == {"done", "failed", "expired"}

\* futures.resolve and futures.fail: only a pending future changes.
Settle(f, result) == IF f = "pending" THEN result ELSE f

----------------------------------------------------------------------------
(* Sessions *)

LeaseHeld(ses) == sessions[ses] \in {"fresh", "stale"}

CreateSession(ses) ==
    /\ ~stopped
    /\ sessions[ses] = "absent"
    /\ sessions' = [sessions EXCEPT ![ses] = "fresh"]
    /\ UNCHANGED <<modelsBySeq, recordVars, modelVars, queueVars, fut, lock,
                   dispatchVars, taskVars, faultVars, trainerVars>>

\* Time: lease_timeout_s passes after the last heartbeat.
LeaseLapses(ses) ==
    /\ ~stopped
    /\ ses \in MortalSessions
    /\ sessions[ses] = "fresh"
    /\ sessions' = [sessions EXCEPT ![ses] = "stale"]
    /\ UNCHANGED <<modelsBySeq, recordVars, modelVars, queueVars, fut, lock,
                   dispatchVars, taskVars, faultVars, trainerVars>>

\* heartbeat: also revives a stale session the sweeper has not reached.
Heartbeat(ses) ==
    /\ ~stopped
    /\ sessions[ses] = "stale"
    /\ sessions' = [sessions EXCEPT ![ses] = "fresh"]
    /\ UNCHANGED <<modelsBySeq, recordVars, modelVars, queueVars, fut, lock,
                   dispatchVars, taskVars, faultVars, trainerVars>>

----------------------------------------------------------------------------
(* create_model *)

\* Wrong variant: the slot stays in the pool until the adapter is loaded.
LeaveSlot(free, k) == free

TakeSlot(free, k) == free \ {k}

(***************************************************************************)
(* A new model takes the least free slot.  The task of _run_create_model   *)
(* reaches the trainer lock in this step: the event loop runs it before    *)
(* any handler of a later request, and the client learns the model id only *)
(* from the response.  For the same reason no model is created, and then   *)
(* used, between the moment the dispatcher gets the lock and its selection *)
(* of a unit: with a free lock the two are one step of the loop, and a     *)
(* dispatcher that waited is resumed before the next request is read.      *)
(***************************************************************************)
CreateModel(ses, k, m) ==
    /\ ~stopped
    /\ ~(dispatcher = "select" /\ Holds(Dispatcher))
    /\ LeaseHeld(ses)
    /\ \A mm \in Model : <<ses, k, mm>> \notin modelsBySeq
    /\ m \notin born
    /\ \E j \in freeSlots : /\ \A i \in freeSlots : j <= i
                            /\ slot' = [slot EXCEPT ![m] = j]
                            /\ freeSlots' = TakeSlot(freeSlots, j)
    /\ born' = born \cup {m}
    /\ open' = open \cup {m}
    /\ session' = [session EXCEPT ![m] = ses]
    /\ modelsBySeq' = modelsBySeq \cup {<<ses, k, m>>}
    /\ fut' = [fut EXCEPT ![m][0] = "pending"]
    /\ lock' = Join(lock, Creator(m))
    /\ creator' = [creator EXCEPT ![m] = "check"]
    /\ UNCHANGED <<sessions, initialized, accepted, closing, queueVars,
                   dispatchVars, sweeper, expiring, faultVars, trainerVars>>

\* A retried create_model answers with the first allocation; when its
\* future was swept, with a replacement that has failed.
RetryCreateModel(ses, k, m) ==
    /\ ~stopped
    /\ LeaseHeld(ses)
    /\ <<ses, k, m>> \in modelsBySeq
    /\ fut[m][0] = "swept"
    /\ fut' = [fut EXCEPT ![m][0] = "expired"]
    /\ UNCHANGED <<clientVars, recordVars, modelVars, queueVars, lock,
                   dispatchVars, taskVars, faultVars, trainerVars>>

----------------------------------------------------------------------------
(* submit *)

\* Wrong variant: a finished command is forgotten by the deduplication.
IsPendingRetry(m, s) == s \in accepted[m] /\ fut[m][s] = "pending"

IsRetry(m, s) == s \in accepted[m]

\* A command with a new seq id gets a future and waits until all the
\* commands numbered before it have come.
Submit(m, s, c) ==
    /\ ~stopped
    /\ m \in open
    /\ EagerClients \/ initialized[m]
    /\ ~IsRetry(m, s)
    /\ accepted' = [accepted EXCEPT ![m] = @ \cup {s}]
    /\ fut' = [fut EXCEPT ![m][s] = "pending"]
    /\ arrivals' = arrivals + 1
    /\ req' = [req EXCEPT ![m][s] = NewRequest(c, arrivals + 1)]
    /\ LET w == waiting[m] \cup {s}
           n == LastContiguous(last[m], w)
       IN  /\ last' = [last EXCEPT ![m] = n]
           /\ waiting' = [waiting EXCEPT ![m] = w \ (last[m] + 1)..n]
           /\ queued' = [queued EXCEPT ![m] = @ \cup (w \cap (last[m] + 1)..n)]
    /\ wake' = TRUE
    /\ UNCHANGED <<clientVars, recordVars, open, initialized, freeSlots,
                   closing, lock, dispatcher, unit, todo, taskVars,
                   faultVars, trainerVars>>

\* A retried command answers with its first future, or with a failed
\* replacement of a swept one.
RetrySubmit(m, s) ==
    /\ ~stopped
    /\ m \in open
    /\ IsRetry(m, s)
    /\ fut[m][s] = "swept"
    /\ fut' = [fut EXCEPT ![m][s] = "expired"]
    /\ UNCHANGED <<clientVars, recordVars, modelVars, queueVars, lock,
                   dispatchVars, taskVars, faultVars, trainerVars>>

\* futures._sweep, run by any lookup: a settled future past its TTL goes.
SweepFuture(m, s) ==
    /\ ~stopped
    /\ <<m, s>> \in Retention
    /\ fut[m][s] \in Settled
    /\ fut' = [fut EXCEPT ![m][s] = "swept"]
    /\ UNCHANGED <<clientVars, recordVars, modelVars, queueVars, lock,
                   dispatchVars, taskVars, faultVars, trainerVars>>

----------------------------------------------------------------------------
(***************************************************************************)
(* _close_model, for the three tasks that call it with the trainer lock:   *)
(* the synchronous part up to the first await (BeginClose), and what       *)
(* remains once the trainer has answered (Closed... below).                *)
(***************************************************************************)

\* Wrong variant: the future of create_model is forgotten.
FailCommands(m) ==
    [fut EXCEPT ![m] = [s \in 0..MaxSeq |->
        IF s \in accepted[m] THEN Settle(fut[m][s], "failed")
        ELSE fut[m][s]]]

FailPending(m) ==
    [fut EXCEPT ![m] = [s \in 0..MaxSeq |->
        IF s = 0 \/ s \in accepted[m] THEN Settle(fut[m][s], "failed")
        ELSE fut[m][s]]]

\* Idempotent: nothing happens to a model already closed.
BeginClose(m) ==
    IF m \notin open
    THEN UNCHANGED <<open, accepted, closing, waiting, queued, fut>>
    ELSE /\ open' = open \ {m}
         /\ closing' = {m}
         /\ fut' = FailPending(m)
         /\ accepted' = [accepted EXCEPT ![m] = {}]
         /\ waiting' = [waiting EXCEPT ![m] = {}]
         /\ queued' = [queued EXCEPT ![m] = {}]

\* trainer_dead(): the slot of a dead trainer is not given back.
CloseOnDeadTrainer(m) ==
    /\ ~stopped
    /\ closing = {m}
    /\ dead
    /\ closing' = {}
    /\ UNCHANGED <<clientVars, recordVars, open, initialized, accepted,
                   freeSlots, queueVars, fut, lock, dispatchVars, taskVars,
                   faultVars, trainerVars>>

\* A slot without adapter returns to the pool at once, another one when the
\* trainer has unloaded it.
CloseAndFreeSlot(m) ==
    /\ ~stopped
    /\ closing = {m}
    /\ ~dead
    /\ closing' = {}
    /\ adapter' = IF initialized[m]
                  THEN [adapter EXCEPT ![slot[m]] = {}] ELSE adapter
    /\ freeSlots' = freeSlots \cup {slot[m]}
    /\ UNCHANGED <<clientVars, recordVars, open, initialized, accepted,
                   queueVars, fut, lock, dispatchVars, taskVars, faultVars,
                   ran, spoiled>>

\* Wrong variant: the slot is reused although its adapter is still there.
PoolAfterFailedUnloadWrong(free, k) == free \cup {k}

PoolAfterFailedUnload(free, k) == free

\* unload_slot answers with a failure: the slot remains unavailable.
CloseAndLeakSlot(m) ==
    /\ ~stopped
    /\ closing = {m}
    /\ ~dead
    /\ initialized[m]
    /\ "error" \in TrainerFaults
    /\ closing' = {}
    /\ freeSlots' = PoolAfterFailedUnload(freeSlots, slot[m])
    /\ UNCHANGED <<clientVars, recordVars, open, initialized, accepted,
                   queueVars, fut, lock, dispatchVars, taskVars, faultVars,
                   trainerVars>>

(***************************************************************************)
(* unload_slot raises.  Every exception of a trainer call leaves the cell  *)
(* errored (TrainerCell._execute_raw).  It ends the task that holds the    *)
(* lock: the dispatcher, and with it the gateway, or a background task,    *)
(* whose error run() raises when it next looks.                            *)
(***************************************************************************)
TaskRaises ==
    /\ dead' = TRUE
    /\ lock' = Tail(lock)
    /\ IF Holds(Dispatcher)
       THEN stopped' = TRUE /\ UNCHANGED <<backgroundError, wake>>
       ELSE backgroundError' = TRUE /\ wake' = TRUE /\ UNCHANGED stopped

CloseRaises(m) ==
    /\ ~stopped
    /\ closing = {m}
    /\ initialized[m]
    /\ "raise" \in TrainerFaults
    /\ ~dead
    /\ TaskRaises
    /\ closing' = {}
    /\ creator' = IF Holds(Creator(m))
                  THEN [creator EXCEPT ![m] = "ended"] ELSE creator
    /\ sweeper' = IF Holds(Sweeper) THEN "ended" ELSE sweeper
    /\ UNCHANGED <<clientVars, recordVars, open, initialized, accepted,
                   freeSlots, queueVars, fut, dispatcher, unit, todo,
                   expiring, trainerVars>>

----------------------------------------------------------------------------
(* _run_create_model *)

\* Wrong variant: the record is not looked up again once the lock is held.
WasOpened(m) == m \in born

StillOpen(m) == m \in open

\* The lock is granted: a model closed in the meantime is left alone,
\* otherwise load_slot is called.
CheckRecord(m) ==
    /\ ~stopped
    /\ creator[m] = "check"
    /\ Holds(Creator(m))
    /\ IF StillOpen(m)
       THEN creator' = [creator EXCEPT ![m] = "load"] /\ UNCHANGED lock
       ELSE creator' = [creator EXCEPT ![m] = "ended"] /\ lock' = Tail(lock)
    /\ UNCHANGED <<clientVars, recordVars, modelVars, queueVars, fut,
                   dispatchVars, sweeper, expiring, faultVars, trainerVars>>

AdapterLoaded(m) ==
    /\ ~stopped
    /\ creator[m] = "load"
    /\ ~dead
    /\ adapter' = [adapter EXCEPT ![slot[m]] = @ \cup {m}]
    /\ initialized' = [initialized EXCEPT ![m] = TRUE]
    /\ fut' = [fut EXCEPT ![m][0] = Settle(@, "done")]
    /\ creator' = [creator EXCEPT ![m] = "ended"]
    /\ lock' = Tail(lock)
    /\ UNCHANGED <<clientVars, recordVars, open, accepted, freeSlots, closing,
                   queueVars, dispatchVars, sweeper, expiring, faultVars, ran,
                   spoiled>>

InitializedAfterFailedLoad(m) == [initialized EXCEPT ![m] = TRUE]

\* load_slot answers with a failure: the slot may hold part of an adapter.
AdapterLoadFails(m) ==
    /\ ~stopped
    /\ creator[m] = "load"
    /\ ~dead
    /\ "error" \in TrainerFaults
    /\ adapter' = [adapter EXCEPT ![slot[m]] = @ \cup {m}]
    /\ initialized' = InitializedAfterFailedLoad(m)
    /\ BeginClose(m)
    /\ creator' = [creator EXCEPT ![m] = "close"]
    /\ UNCHANGED <<clientVars, recordVars, freeSlots, last, req, arrivals,
                   lock, dispatchVars, sweeper, expiring, faultVars, ran,
                   spoiled>>

\* load_slot raises, at the latest because the cell is already errored.
AdapterLoadRaises(m) ==
    /\ ~stopped
    /\ creator[m] = "load"
    /\ dead \/ "raise" \in TrainerFaults
    /\ TaskRaises
    /\ creator' = [creator EXCEPT ![m] = "ended"]
    /\ UNCHANGED <<clientVars, recordVars, modelVars, queueVars, fut,
                   dispatcher, unit, todo, sweeper, expiring, trainerVars>>

FailedCreateEnds(m) ==
    /\ ~stopped
    /\ creator[m] = "close"
    /\ closing = {}
    /\ creator' = [creator EXCEPT ![m] = "ended"]
    /\ lock' = Tail(lock)
    /\ UNCHANGED <<clientVars, recordVars, modelVars, queueVars, fut,
                   dispatchVars, sweeper, expiring, faultVars, trainerVars>>

----------------------------------------------------------------------------
(* _run_lease_sweeper and _expire_sessions *)

SweeperWakes ==
    /\ ~stopped
    /\ sweeper = "sleep"
    /\ sweeper' = "expire"
    /\ lock' = Join(lock, Sweeper)
    /\ UNCHANGED <<clientVars, recordVars, modelVars, queueVars, fut,
                   dispatchVars, creator, expiring, faultVars, trainerVars>>

\* Wrong variant: a model still being created is not reclaimed.
ModelsOfLoaded(expired) ==
    {m \in open : session[m] \in expired /\ initialized[m]}

ModelsOf(expired) == {m \in open : session[m] \in expired}

\* The lock is granted: the stale sessions go at once, their models one
\* after the other.
ExpireSessions ==
    /\ ~stopped
    /\ sweeper = "expire"
    /\ Holds(Sweeper)
    /\ LET expired == {ses \in Session : sessions[ses] = "stale"}
       IN  /\ sessions' = [ses \in Session |-> IF ses \in expired
                                               THEN "expired"
                                               ELSE sessions[ses]]
           /\ expiring' = ModelsOf(expired)
    /\ sweeper' = "close"
    /\ UNCHANGED <<modelsBySeq, recordVars, modelVars, queueVars, fut, lock,
                   dispatchVars, creator, faultVars, trainerVars>>

ExpireModel(m) ==
    /\ ~stopped
    /\ sweeper = "close"
    /\ closing = {}
    /\ m \in expiring
    /\ expiring' = expiring \ {m}
    /\ BeginClose(m)
    /\ UNCHANGED <<clientVars, recordVars, initialized, freeSlots, last, req,
                   arrivals, lock, dispatchVars, creator, sweeper, faultVars,
                   trainerVars>>

SweepEnds ==
    /\ ~stopped
    /\ sweeper = "close"
    /\ closing = {}
    /\ expiring = {}
    /\ sweeper' = "sleep"
    /\ lock' = Tail(lock)
    /\ UNCHANGED <<clientVars, recordVars, modelVars, queueVars, fut,
                   dispatchVars, creator, expiring, faultVars, trainerVars>>

----------------------------------------------------------------------------
(* run: the dispatcher *)

DispatchTop ==
    /\ ~stopped
    /\ dispatcher = "top"
    /\ IF backgroundError
       THEN stopped' = TRUE /\ UNCHANGED <<lock, dispatcher>>
       ELSE /\ lock' = Join(lock, Dispatcher)
            /\ dispatcher' = "select"
            /\ UNCHANGED stopped
    /\ UNCHANGED <<clientVars, recordVars, modelVars, queueVars, fut, wake,
                   unit, todo, taskVars, backgroundError, dead, trainerVars>>

\* The heads with a validation error go first.
SelectRejections ==
    /\ ~stopped
    /\ dispatcher = "select"
    /\ Holds(Dispatcher)
    /\ ReadyRejections(open, queued, req) # {}
    /\ todo' = {<<w[1], w[2], "error">> :
                    w \in ReadyRejections(open, queued, req)}
    /\ dispatcher' = "reject"
    /\ UNCHANGED <<clientVars, recordVars, modelVars, queueVars, fut, lock,
                   wake, unit, taskVars, faultVars, trainerVars>>

\* Wrong variant: the datums sent are not marked as issued.
IssueNothing(r, u) == r

Issued(r, u) == IF \E d \in u : IsBatch(r[d[1]][d[2]].op)
                THEN Issue(r, u) ELSE r

SelectUnit ==
    /\ ~stopped
    /\ dispatcher = "select"
    /\ Holds(Dispatcher)
    /\ ReadyRejections(open, queued, req) = {}
    /\ \E u \in NextUnits(open, queued, req) :
          /\ unit' = u
          /\ req' = Issued(req, u)
    /\ dispatcher' = "unit"
    /\ UNCHANGED <<clientVars, recordVars, modelVars, waiting, last, queued,
                   arrivals, fut, lock, wake, todo, taskVars, faultVars,
                   trainerVars>>

\* Nothing to do: release the lock and wait for _wake.
SelectNothing ==
    /\ ~stopped
    /\ dispatcher = "select"
    /\ Holds(Dispatcher)
    /\ ReadyRejections(open, queued, req) = {}
    /\ NextUnits(open, queued, req) = {}
    /\ dispatcher' = "idle"
    /\ lock' = Tail(lock)
    /\ UNCHANGED <<clientVars, recordVars, modelVars, queueVars, fut, wake,
                   unit, todo, taskVars, faultVars, trainerVars>>

Wake ==
    /\ ~stopped
    /\ dispatcher = "idle"
    /\ wake
    /\ wake' = FALSE
    /\ dispatcher' = "top"
    /\ UNCHANGED <<clientVars, recordVars, modelVars, queueVars, fut, lock,
                   unit, todo, taskVars, faultVars, trainerVars>>

UnitOp(u) == LET d == CHOOSE d \in u : TRUE IN req[d[1]][d[2]].op

Executed(u) ==
    [m \in Model |-> [s \in Seqs |-> ran[m][s] \cup DatumsOf(u, m, s)]]

\* record_output for every datum of the unit.
Recorded(u) ==
    [m \in Model |-> [s \in Seqs |->
        [req[m][s] EXCEPT !.remaining = @ - Cardinality(DatumsOf(u, m, s))]]]

\* Wrong variant: a request is complete with its first outputs.
CompleteWithFirst(u, r) == RequestsOf(u)

\* Wrong variant: a request split over several units is never complete.
CompleteIfWhole(u, r) ==
    {w \in RequestsOf(u) :
        DatumsOf(u, w[1], w[2]) = 1..Len(r[w[1]][w[2]].costs)}

\* The requests of the unit whose last output has come.
Complete(u, r) == {w \in RequestsOf(u) : r[w[1]][w[2]].remaining = 0}

\* _run_batch, once forward has returned the outputs.
BatchReturns ==
    /\ ~stopped
    /\ dispatcher = "unit"
    /\ IsBatch(UnitOp(unit))
    /\ ~dead
    /\ req' = Recorded(unit)
    /\ todo' = {<<w[1], w[2], "ok">> : w \in Complete(unit, req')}
    /\ ran' = Executed(unit)
    /\ unit' = {}
    /\ dispatcher' = "finish"
    /\ UNCHANGED <<clientVars, recordVars, modelVars, waiting, last, queued,
                   arrivals, fut, lock, wake, taskVars, faultVars, adapter,
                   spoiled>>

\* _fail_batch: the error of the unit is the error of each of its requests.
\* A failed backward pass may have accumulated part of the gradients.
BatchFails ==
    /\ ~stopped
    /\ dispatcher = "unit"
    /\ IsBatch(UnitOp(unit))
    /\ ~dead
    /\ "error" \in TrainerFaults
    /\ todo' = {<<w[1], w[2], "error">> : w \in RequestsOf(unit)}
    /\ spoiled' = IF UnitOp(unit) = "forward_backward"
                  THEN spoiled \cup {w[1] : w \in RequestsOf(unit)}
                  ELSE spoiled
    /\ unit' = {}
    /\ dispatcher' = "finish"
    /\ UNCHANGED <<clientVars, recordVars, modelVars, queueVars, fut, lock,
                   wake, taskVars, faultVars, adapter, ran>>

\* _run_barrier: each entry succeeds or fails on its own.  An entry can be
\* refused without a trainer call (a bad checkpoint path): also when dead.
BarrierReturns ==
    /\ ~stopped
    /\ dispatcher = "unit"
    /\ ~IsBatch(UnitOp(unit))
    /\ \E failed \in SUBSET unit :
          /\ failed # {} => "error" \in TrainerFaults
          /\ dead => failed = unit /\ UnitOp(unit) # "optim_step"
          /\ todo' = {<<d[1], d[2], IF d \in failed THEN "error" ELSE "ok">> :
                          d \in unit}
          /\ ran' = Executed(unit \ failed)
          /\ spoiled' = IF ClosesModelOnFailure(UnitOp(unit))
                        THEN spoiled \cup {d[1] : d \in failed} ELSE spoiled
    /\ unit' = {}
    /\ dispatcher' = "finish"
    /\ UNCHANGED <<clientVars, recordVars, modelVars, queueVars, fut, lock,
                   wake, taskVars, faultVars, adapter>>

\* Any other exception of the trainer call ends run().
UnitRaises ==
    /\ ~stopped
    /\ dispatcher = "unit"
    /\ dead \/ "raise" \in TrainerFaults
    /\ TaskRaises
    /\ UNCHANGED <<clientVars, recordVars, modelVars, queueVars, fut,
                   dispatcher, unit, todo, taskVars, trainerVars>>

\* Wrong variant: a failed backward pass only fails its own future.
RetiresModelWrong(op) == op \in {"optim_step", "load_state"}

\* Wrong variant: a failed forward pass closes the model, too.
RetiresModelOnForward(op) == ClosesModelOnFailure(op) \/ op = "forward_only"

RetiresModel(op) == ClosesModelOnFailure(op)

\* _finish_request of one request.
FinishRequest(w) ==
    /\ ~stopped
    /\ dispatcher \in {"finish", "reject"}
    /\ closing = {}
    /\ w \in todo
    /\ todo' = todo \ {w}
    /\ LET m == w[1]
           s == w[2]
       IN  IF w[3] = "error" /\ RetiresModel(req[m][s].op)
           THEN BeginClose(m)
           ELSE /\ fut' = [fut EXCEPT ![m][s] =
                              Settle(@, IF w[3] = "ok" THEN "done"
                                                       ELSE "failed")]
                /\ queued' = [queued EXCEPT ![m] = @ \ {s}]
                /\ UNCHANGED <<open, accepted, closing, waiting>>
    /\ UNCHANGED <<clientVars, recordVars, initialized, freeSlots, last, req,
                   arrivals, lock, wake, dispatcher, unit, taskVars,
                   faultVars, trainerVars>>

\* All outcomes are delivered: back to the loop head, unless the trainer
\* died while the unit ran.
FinishEnds ==
    /\ ~stopped
    /\ dispatcher \in {"finish", "reject"}
    /\ closing = {}
    /\ todo = {}
    /\ lock' = Tail(lock)
    /\ stopped' = (dispatcher = "finish" /\ dead)
    /\ dispatcher' = "top"
    /\ UNCHANGED <<clientVars, recordVars, modelVars, queueVars, fut, wake,
                   unit, todo, taskVars, backgroundError, dead, trainerVars>>

\* The process has exited.
Halted == stopped /\ UNCHANGED vars

----------------------------------------------------------------------------
ClientNext ==
    \/ \E ses \in Session :
          \/ CreateSession(ses)
          \/ LeaseLapses(ses)
          \/ Heartbeat(ses)
          \/ \E k \in ModelSeqs, m \in Model :
                CreateModel(ses, k, m) \/ RetryCreateModel(ses, k, m)
    \/ \E m \in Model : \E s \in Seqs :
          \/ \E c \in Offers[m][s] : Submit(m, s, c)
          \/ RetrySubmit(m, s)
    \/ \E m \in Model : \E s \in 0..MaxSeq : SweepFuture(m, s)

CreatorNext(m) ==
    \/ CheckRecord(m)
    \/ AdapterLoaded(m)
    \/ AdapterLoadFails(m)
    \/ AdapterLoadRaises(m)
    \/ FailedCreateEnds(m)

CloseNext(m) ==
    \/ CloseOnDeadTrainer(m)
    \/ CloseAndFreeSlot(m)
    \/ CloseAndLeakSlot(m)
    \/ CloseRaises(m)

SweeperNext ==
    \/ SweeperWakes
    \/ ExpireSessions
    \/ \E m \in Model : ExpireModel(m)
    \/ SweepEnds

DispatcherNext ==
    \/ DispatchTop
    \/ SelectRejections
    \/ SelectUnit
    \/ SelectNothing
    \/ Wake
    \/ BatchReturns
    \/ BatchFails
    \/ BarrierReturns
    \/ UnitRaises
    \/ \E w \in Model \X Seqs \X {"ok", "error"} : FinishRequest(w)
    \/ FinishEnds

Next ==
    \/ ClientNext
    \/ \E m \in Model : CreatorNext(m) \/ CloseNext(m)
    \/ SweeperNext
    \/ DispatcherNext
    \/ Halted

Spec == Init /\ [][Next]_vars

(***************************************************************************)
(* The event loop runs every ready task, the sweeper's sleep ends, and     *)
(* every trainer call returns or raises (a hung cell is killed from        *)
(* outside).  Nothing is assumed of the clients.                           *)
(***************************************************************************)
Fairness ==
    /\ \A m \in Model : WF_vars(CreatorNext(m)) /\ WF_vars(CloseNext(m))
    /\ WF_vars(SweeperNext)
    /\ WF_vars(DispatcherNext)

FairSpec == Spec /\ Fairness
----------------------------------------------------------------------------
(* Properties *)

Pending(m, s) == fut[m][s] = "pending"

TypeOK ==
    /\ sessions \in [Session -> {"absent", "fresh", "stale", "expired"}]
    /\ modelsBySeq \subseteq Session \X ModelSeqs \X Model
    /\ born \subseteq Model
    /\ session \in [Model -> Session]
    /\ slot \in [Model -> Slots]
    /\ open \subseteq Model
    /\ initialized \in [Model -> BOOLEAN]
    /\ accepted \in [Model -> SUBSET Seqs]
    /\ freeSlots \subseteq Slots
    /\ closing \subseteq Model
    /\ waiting \in [Model -> SUBSET Seqs]
    /\ last \in [Model -> 0..MaxSeq]
    /\ queued \in [Model -> SUBSET Seqs]
    /\ req \in [Model -> [Seqs -> Request]]
    /\ arrivals \in Nat
    /\ fut \in [Model -> [0..MaxSeq -> {"none", "pending", "swept"}
                                       \cup Settled]]
    /\ lock \in Seq(Tasks)
    /\ wake \in BOOLEAN
    /\ dispatcher \in {"top", "select", "unit", "finish", "reject", "idle"}
    /\ unit \subseteq Datum
    /\ todo \subseteq Model \X Seqs \X {"ok", "error"}
    /\ creator \in [Model -> {"none", "check", "load", "close", "ended"}]
    /\ sweeper \in {"sleep", "expire", "close", "ended"}
    /\ expiring \subseteq Model
    /\ backgroundError \in BOOLEAN
    /\ stopped \in BOOLEAN
    /\ dead \in BOOLEAN
    /\ adapter \in [Slots -> SUBSET Model]
    /\ ran \in [Model -> [Seqs -> SUBSET (1..MaxDatums)]]
    /\ spoiled \subseteq Model

(***************************************************************************)
(* An adapter slot belongs to at most one model: open models, the one      *)
(* being closed and the free pool never share a slot, whatever create_model*)
(* and _close_model do between the awaits of one another.                  *)
(***************************************************************************)
SlotExclusive ==
    \A m \in open \cup closing :
        /\ slot[m] \notin freeSlots
        /\ \A n \in open \cup closing : slot[n] = slot[m] => n = m

(***************************************************************************)
(* A slot in the free pool holds no adapter, also after a load that failed *)
(* half way or an unload that failed (service.py:171, 203-206).            *)
(***************************************************************************)
FreeSlotsAreClean == \A k \in freeSlots : adapter[k] = {}

(***************************************************************************)
(* Whoever works on the trainer has its lock: a dispatcher with a unit or  *)
(* outcomes, a sweeper that closes models, a create_model past its check.  *)
(* A model is closed by one of them, and a failed create closes its own.   *)
(***************************************************************************)
TrainerLockHeld ==
    ~stopped =>
        /\ dispatcher \in {"unit", "finish", "reject"} => Holds(Dispatcher)
        /\ sweeper = "close" => Holds(Sweeper)
        /\ \A m \in Model :
              creator[m] \in {"load", "close"} => Holds(Creator(m))
        /\ \A m \in closing :
              /\ closing = {m}
              /\ \/ dispatcher \in {"finish", "reject"}
                 \/ sweeper = "close"
                 \/ creator[m] = "close"

\* A model is loaded only while open, and at most once.
LoadsOnce ==
    \A m \in Model :
        /\ m \notin born => creator[m] = "none"
        /\ creator[m] \in {"none", "check", "load"} => ~initialized[m]
        /\ creator[m] = "load" /\ ~stopped => m \in open

\* Models are open, then closing, then gone; until its adapter is loaded
\* there is nothing in the slot of a model.
SlotsAreFresh ==
    /\ open \cup closing \subseteq born
    /\ open \cap closing = {}
    /\ \A m \in open \cup closing :
          ~initialized[m] => adapter[slot[m]] = {}

(***************************************************************************)
(* The inductive invariant of the adapter slots: no await of create_model  *)
(* or _close_model lets another task see a slot half way from one model to *)
(* the next, because all of that happens under the trainer lock.           *)
(***************************************************************************)
SlotInv ==
    /\ TypeOK
    /\ TrainerLockHeld
    /\ LoadsOnce
    /\ SlotsAreFresh
    /\ SlotExclusive
    /\ FreeSlotsAreClean

(***************************************************************************)
(* A unit reaches the trainer only for open models whose adapter, and no   *)
(* other, is loaded in their slot, when clients wait for create_model.     *)
(***************************************************************************)
UnitsFindTheirAdapter ==
    \A d \in unit : /\ d[1] \in open
                    /\ initialized[d[1]]
                    /\ adapter[slot[d[1]]] = {d[1]}

(***************************************************************************)
(* Commands take effect in seq order around barriers: when a unit holds    *)
(* command s, all earlier commands of the model have been accepted, and    *)
(* none of them is unfinished unless both are batch commands.              *)
(***************************************************************************)
UnitsRespectSeqOrder ==
    \A d \in unit : \A t \in 1..(d[2] - 1) :
        /\ t \in accepted[d[1]]
        /\ Pending(d[1], t) => /\ IsBatch(req[d[1]][t].op)
                               /\ IsBatch(req[d[1]][d[2]].op)

(***************************************************************************)
(* Every accepted command is executed exactly once, over retries, split    *)
(* requests, merged barriers and failures (ModelQueue, _complete_unit):    *)
(*  - an accepted command of an open model is pending exactly as long as   *)
(*    it is queued or waits for an earlier one, and a closed model leaves  *)
(*    no future pending;                                                   *)
(*  - no gradient is accumulated and no optimizer step applied twice: what *)
(*    the trainer is executing it has never executed before;               *)
(*  - a command reported as done was executed completely: every datum of a *)
(*    split batch command, the step of a barrier.                          *)
(***************************************************************************)
PendingIsQueued ==
    \A m \in Model :
        /\ \A s \in Seqs : Pending(m, s) <=> s \in queued[m] \cup waiting[m]
        /\ m \notin open => ~Pending(m, 0)

NothingRunsTwice == \A d \in unit : d[3] \notin ran[d[1]][d[2]]

DoneMeansExecuted ==
    \A m \in Model : \A s \in Seqs :
        fut[m][s] = "done" =>
            ran[m][s] = IF IsBatch(req[m][s].op)
                        THEN 1..Len(req[m][s].costs) ELSE {1}

CommandsRunOnce == PendingIsQueued /\ NothingRunsTwice /\ DoneMeansExecuted

(***************************************************************************)
(* The inductive invariant of the command queues: what is known of a       *)
(* command agrees between its future, its queue, the unit it is in, the    *)
(* outcomes run() still holds and what the trainer has executed.           *)
(***************************************************************************)

\* Nothing is known of a command nobody has sent, and a closed model has
\* accepted nothing.
UnsentIsUnknown ==
    \A m \in Model :
        /\ m \notin open => accepted[m] = {}
        /\ m \notin born => last[m] = 0 /\ fut[m][0] = "none"
        /\ \A s \in Seqs :
              m \notin born \/ (m \in open /\ s \notin accepted[m]) =>
                  fut[m][s] = "none" /\ ran[m][s] = {}

\* A command is queued once all earlier ones have come, and waits till then.
QueuesAreContiguous ==
    \A m \in Model :
        /\ queued[m] \subseteq accepted[m] \cap 1..last[m]
        /\ waiting[m] = accepted[m] \ 1..last[m]
        /\ m \in open => 1..last[m] \subseteq accepted[m]

\* The unit at the trainer stays ready while more commands are accepted.
UnitStaysReady ==
    /\ unit # {} => dispatcher = "unit"
    /\ \A d, e \in unit : req[d[1]][d[2]].op = req[e[1]][e[2]].op
    /\ \A d \in unit :
          /\ d[1] \in open \ spoiled
          /\ IF IsBatch(req[d[1]][d[2]].op)
             THEN d[2] \in OpenBatchRun(queued[d[1]], req[d[1]])
             ELSE d[2] \in ReadyBarrier(queued[d[1]], req[d[1]]) /\ d[3] = 1

\* Every outcome run() holds is the only one of a queued command, and fits
\* what the trainer has executed; a model that failed to train has one that
\* closes it.
OutcomesAreDue ==
    /\ todo # {} => dispatcher \in {"finish", "reject"}
    /\ \A w \in todo : w[1] \in born
    /\ \A w \in todo : w[1] \in open =>
          /\ w[2] \in queued[w[1]]
          /\ \A v \in todo : v[1] = w[1] /\ v[2] = w[2] => v = w
          /\ w[3] = "ok" => ran[w[1]][w[2]] =
                                IF IsBatch(req[w[1]][w[2]].op)
                                THEN 1..Len(req[w[1]][w[2]].costs) ELSE {1}
          /\ w[3] = "error" =>
                \/ req[w[1]][w[2]].invalid
                \/ RetiresModel(req[w[1]][w[2]].op) => w[1] \in spoiled
    /\ spoiled \subseteq born
    /\ \A m \in spoiled \cap open : \E s \in Seqs :
          <<m, s, "error">> \in todo /\ RetiresModel(req[m][s].op)

\* The datums of an unfinished command were executed, are being executed or
\* have not been issued, and what remains of it is counted right.
Unfinished(m, s) == s \in queued[m] \cup waiting[m] /\ <<m, s, "error">> \notin todo

DatumsAreCounted ==
    \A m \in Model : \A s \in Seqs : Unfinished(m, s) =>
        IF IsBatch(req[m][s].op)
        THEN /\ req[m][s].issued <= Len(req[m][s].costs)
             /\ ran[m][s] \cup DatumsOf(unit, m, s) = 1..req[m][s].issued
             /\ ran[m][s] \cap DatumsOf(unit, m, s) = {}
             /\ req[m][s].remaining = Len(req[m][s].costs) - Cardinality(ran[m][s])
        ELSE <<m, s, "ok">> \in todo \/ ran[m][s] = {}

CommandInv ==
    /\ UnsentIsUnknown
    /\ QueuesAreContiguous
    /\ UnitStaysReady
    /\ OutcomesAreDue
    /\ DatumsAreCounted
    /\ PendingIsQueued
    /\ DoneMeansExecuted

(***************************************************************************)
(* Lease expiry leaves no model behind that nobody could ever reclaim: once *)
(* a sweep is over, every open model belongs to a session that still       *)
(* exists, also one created meanwhile (_expire_sessions, create_model).    *)
(* Only a sweep cut short by an exception of the trainer may leave some,   *)
(* and that exception stops the gateway.                                   *)
(***************************************************************************)
NoOrphanedModel ==
    sweeper # "close" /\ ~backgroundError => \A m \in open : LeaseHeld(session[m])

(***************************************************************************)
(* A model whose backward pass, optimizer step or load_state failed never  *)
(* runs another command (docs/examples/multi-lora.md:62-64).               *)
(***************************************************************************)
FailedModelsRunNothing ==
    [][\A m \in spoiled : \A s \in Seqs : ran'[m][s] = ran[m][s]]_vars

(***************************************************************************)
(* "Completed futures ... keep their results" (multi-lora.md:65-66): a     *)
(* verdict never changes, over retries, lease expiry and the TTL; after    *)
(* the TTL a retry only ever learns that the result has expired.           *)
(***************************************************************************)
VerdictsAreFinal ==
    [][\A m \in Model : \A s \in 0..MaxSeq :
          /\ fut[m][s] \in Settled => fut'[m][s] \in {fut[m][s], "swept"}
          /\ fut[m][s] = "swept" => fut'[m][s] \in {"swept", "expired"}]_vars

(***************************************************************************)
(* A failed forward or save leaves the model open                          *)
(* (docs/examples/multi-lora.md:68-69): an open model closes only when it  *)
(* has failed to train, was rejected, could not be loaded or lost its      *)
(* lease.                                                                  *)
(***************************************************************************)
ModelsCloseForCause ==
    [][\A m \in open \ open' :
          \/ m \in spoiled
          \/ sessions[session[m]] = "expired"
          \/ creator[m] = "load"
          \/ \E s \in queued[m] : req[m][s].invalid
                                  /\ RetiresModel(req[m][s].op)]_vars

(***************************************************************************)
(* Every create_model, and every accepted command whose predecessors have  *)
(* all been accepted, is settled eventually, unless the gateway stops.     *)
(***************************************************************************)
RequestsSettle ==
    \A m \in Model :
        /\ Pending(m, 0) ~> (stopped \/ ~Pending(m, 0))
        /\ \A s \in Seqs :
              (s \in queued[m]) ~> (stopped \/ ~Pending(m, s))

(***************************************************************************)
(* A session that stays stale is expired, and its models give their slots  *)
(* back or lose them for good, unless the gateway stops.                   *)
(***************************************************************************)
LapsedLeasesAreReclaimed ==
    \A m \in Model :
        (m \in open /\ sessions[session[m]] = "stale")
            ~> (stopped \/ sessions[session[m]] = "fresh"
                \/ m \notin open \cup closing)

----------------------------------------------------------------------------
(***************************************************************************)
(* The gateway implements the slot pool: a slot is leased to the model     *)
(* that is open, or being closed, with it.                                 *)
(***************************************************************************)
Tenant == [k \in Slots |-> {m \in open \cup closing : slot[m] = k}]

Pool == INSTANCE SlotPool
            WITH pool <- freeSlots, tenant <- Tenant, served <- born

ImplementsSlotPool == Pool!Spec
=============================================================================
