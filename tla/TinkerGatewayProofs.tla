------------------------- MODULE TinkerGatewayProofs -------------------------
(***************************************************************************)
(* Proofs about the Tinker gateway, for any numbers of models, sessions,   *)
(* slots and commands, any offers of the clients and any trainer faults:   *)
(* type correctness, the exclusive use of the adapter slots, that the      *)
(* gateway implements the slot pool, the order and the single execution of *)
(* commands, the verdicts of futures, and the reclaim of leases.           *)
(***************************************************************************)
EXTENDS TinkerGateway, FiniteSetTheorems, WellFoundedInduction, TLAPS

----------------------------------------------------------------------------
(* Lemmas about the scheduler's operators *)

\* A set of natural numbers that is not empty has a least member.
LEMMA LeastNatural ==
    ASSUME NEW S \in SUBSET Nat, S # {}
    PROVE  \E n \in S : \A k \in S : n <= k
<1>1. PICK n \in S : \A k \in S : <<k, n>> \notin OpToRel(<, Nat)
  BY NatLessThanWellFounded, WFMin
<1>2. \A k \in S : ~(k < n)
  BY <1>1 DEF OpToRel
<1> QED BY <1>2

(***************************************************************************)
(* _enqueue_contiguous_commands ends: from any point of the numbering some *)
(* last contiguous command is reached, it stays within the numbers, and    *)
(* all it skips has come.                                                  *)
(***************************************************************************)
LEMMA LastContiguousTakes ==
    ASSUME NEW l \in 0..MaxSeq, NEW w \in SUBSET Seqs
    PROVE  /\ LastContiguous(l, w) \in l..MaxSeq
           /\ (l + 1)..LastContiguous(l, w) \subseteq w
<1> DEFINE S == {n \in l..MaxSeq : n + 1 \notin w}
<1>0. MaxSeq \in Nat
  BY SchedulerAssumption
<1>1. S \in SUBSET Nat /\ S # {}
  <2>1. MaxSeq \in l..MaxSeq /\ MaxSeq + 1 \notin w
    BY <1>0 DEF Seqs
  <2> QED BY <2>1, <1>0
<1>2. PICK n \in S : \A k \in S : n <= k
  <2> HIDE DEF S
  <2> QED BY <1>1, LeastNatural
<1>3. (l + 1)..n \subseteq w
  <2> SUFFICES ASSUME NEW k \in (l + 1)..n PROVE k \in w
    OBVIOUS
  <2>1. k - 1 \in l..MaxSeq /\ ~(n <= k - 1)
    BY <1>0, <1>2
  <2>2. k - 1 \notin S
    BY <1>2, <2>1
  <2>3. (k - 1) + 1 \in w
    BY <2>1, <2>2
  <2> QED BY <2>3
<1> QED BY <1>2, <1>3 DEF LastContiguous

\* How many datums of a request a unit holds is a natural number.
LEMMA DatumsOfCount ==
    ASSUME NEW u, NEW m, NEW s
    PROVE  Cardinality(DatumsOf(u, m, s)) \in Nat
<1>1. IsFiniteSet(1..MaxDatums)
  BY SchedulerAssumption, FS_Interval
<1>2. DatumsOf(u, m, s) \in SUBSET (1..MaxDatums)
  BY DEF DatumsOf
<1>3. IsFiniteSet(DatumsOf(u, m, s))
  BY <1>1, <1>2, FS_Subset
<1> QED BY <1>3, FS_CardinalityType

\* A command that the gateway accepts makes a well-formed request.
LEMMA NewRequestType ==
    ASSUME NEW c \in Command, NEW n \in Nat
    PROVE  NewRequest(c, n) \in Request
BY DEF Command, Request, NewRequest

\* Picking datums for a unit keeps the requests well-formed.
LEMMA IssueType ==
    ASSUME NEW r \in [Model -> [Seqs -> Request]], NEW u
    PROVE  Issue(r, u) \in [Model -> [Seqs -> Request]]
<1>1. ASSUME NEW m \in Model, NEW s \in Seqs
      PROVE  [r[m][s] EXCEPT !.issued = @ + Cardinality(DatumsOf(u, m, s))]
                 \in Request
  <2> DEFINE d == Cardinality(DatumsOf(u, m, s))
  <2>1. r[m][s] \in Request
    OBVIOUS
  <2>2. d \in Nat
    BY DatumsOfCount
  <2> HIDE DEF d
  <2>3. r[m][s].issued + d \in Nat
    BY <2>1, <2>2 DEF Request
  <2>4. [r[m][s] EXCEPT !.issued = @ + d] \in Request
    BY <2>1, <2>3 DEF Request
  <2> QED BY <2>4 DEF d
<1> QED BY <1>1 DEF Issue

\* So does recording their outputs.
LEMMA RecordedType ==
    ASSUME NEW u, req \in [Model -> [Seqs -> Request]]
    PROVE  Recorded(u) \in [Model -> [Seqs -> Request]]
<1>1. ASSUME NEW m \in Model, NEW s \in Seqs
      PROVE  [req[m][s] EXCEPT !.remaining =
                  @ - Cardinality(DatumsOf(u, m, s))] \in Request
  <2> DEFINE d == Cardinality(DatumsOf(u, m, s))
  <2>1. req[m][s] \in Request
    OBVIOUS
  <2>2. d \in Nat
    BY DatumsOfCount
  <2> HIDE DEF d
  <2>3. req[m][s].remaining - d \in Int
    BY <2>1, <2>2 DEF Request
  <2>4. [req[m][s] EXCEPT !.remaining = @ - d] \in Request
    BY <2>1, <2>3 DEF Request
  <2> QED BY <2>4 DEF d
<1> QED BY <1>1 DEF Recorded

----------------------------------------------------------------------------
(* Type correctness *)

LEMMA InitType == Init => TypeOK
<1> SUFFICES ASSUME Init PROVE TypeOK
  OBVIOUS
<1>1. session \in [Model -> Session]
  BY GatewayAssumption DEF Init
<1>2. slot \in [Model -> Slots] /\ last \in [Model -> 0..MaxSeq]
  BY GatewayAssumption, SchedulerAssumption DEF Init, Slots
<1>3. req \in [Model -> [Seqs -> Request]]
  BY SchedulerAssumption
     DEF Init, Request, BlankRequest, CommandOp, BatchOps, BarrierOps
<1>4. lock \in Seq(Tasks)
  BY DEF Init
<1> QED BY <1>1, <1>2, <1>3, <1>4 DEF Init, TypeOK, Settled

\* Settling a future keeps the futures well-formed.
LEMMA SettleType ==
    ASSUME fut \in [Model -> [0..MaxSeq -> {"none", "pending", "swept"}
                                          \cup Settled]],
           NEW m \in Model, NEW s \in 0..MaxSeq,
           NEW result \in {"done", "failed"}
    PROVE  [fut EXCEPT ![m][s] = Settle(@, result)]
               \in [Model -> [0..MaxSeq -> {"none", "pending", "swept"}
                                           \cup Settled]]
<1>1. fut[m][s] \in {"none", "pending", "swept"} \cup Settled
  OBVIOUS
<1>2. Settle(fut[m][s], result)
          \in {"none", "pending", "swept"} \cup Settled
  BY <1>1 DEF Settle, Settled
<1> QED BY <1>2

\* Closing a model keeps its queue and futures well-formed.
LEMMA CloseType ==
    ASSUME TypeOK, NEW m \in Model, BeginClose(m)
    PROVE  /\ open' \subseteq Model /\ closing' \subseteq Model
           /\ accepted' \in [Model -> SUBSET Seqs]
           /\ waiting' \in [Model -> SUBSET Seqs]
           /\ queued' \in [Model -> SUBSET Seqs]
           /\ fut' \in [Model -> [0..MaxSeq -> {"none", "pending", "swept"}
                                               \cup Settled]]
<1>1. CASE m \notin open
  BY <1>1 DEF BeginClose, TypeOK
<1>2. CASE m \in open
  <2>1. fut \in [Model -> [0..MaxSeq -> {"none", "pending", "swept"}
                                       \cup Settled]]
    BY DEF TypeOK
  <2>2. fut' \in [Model -> [0..MaxSeq -> {"none", "pending", "swept"}
                                        \cup Settled]]
    <3>1. fut' = FailPending(m)
      BY <1>2 DEF BeginClose
    <3>2. ASSUME NEW s \in 0..MaxSeq
          PROVE  Settle(fut[m][s], "failed")
                     \in {"none", "pending", "swept"} \cup Settled
      BY <2>1 DEF Settle, Settled
    <3> QED BY <2>1, <3>1, <3>2 DEF FailPending
  <2>3. /\ open' \subseteq Model /\ closing' \subseteq Model
        /\ accepted' \in [Model -> SUBSET Seqs]
        /\ waiting' \in [Model -> SUBSET Seqs]
        /\ queued' \in [Model -> SUBSET Seqs]
    <3>1. /\ open \subseteq Model
          /\ accepted \in [Model -> SUBSET Seqs]
          /\ waiting \in [Model -> SUBSET Seqs]
          /\ queued \in [Model -> SUBSET Seqs]
      BY DEF TypeOK
    <3>2. /\ open' = open \ {m} /\ closing' = {m}
          /\ accepted' = [accepted EXCEPT ![m] = {}]
          /\ waiting' = [waiting EXCEPT ![m] = {}]
          /\ queued' = [queued EXCEPT ![m] = {}]
      BY <1>2 DEF BeginClose
    <3> QED BY <3>1, <3>2
  <2> QED BY <2>2, <2>3
<1> QED BY <1>1, <1>2

\* A unit consists of datums.
LEMMA UnitType ==
    \A u \in NextUnits(open, queued, req) : u \subseteq Datum
<1>1. ASSUME NEW d \in ReadyDatums(open, queued, req)
      PROVE  PackBatch(req, d, ReadyDatums(open, queued, req)) \subseteq Datum
  BY DEF PackBatch, ReadyDatums
<1>2. ASSUME NEW d \in ReadyBarriers(open, queued, req)
      PROVE  MergeBarriers(req, d, ReadyBarriers(open, queued, req))
                 \subseteq Datum
  BY DEF MergeBarriers, ReadyBarriers
<1> QED BY <1>1, <1>2 DEF NextUnits

LEMMA ClientType == TypeOK /\ ClientNext => TypeOK'
<1> SUFFICES ASSUME TypeOK, ClientNext PROVE TypeOK'
  OBVIOUS
<1> USE DEF TypeOK, clientVars, recordVars, modelVars, queueVars,
            dispatchVars, taskVars, faultVars, trainerVars
<1>1. ASSUME NEW ses \in Session,
             CreateSession(ses) \/ LeaseLapses(ses) \/ Heartbeat(ses)
      PROVE  TypeOK'
  BY <1>1 DEF CreateSession, LeaseLapses, Heartbeat
<1>2. ASSUME NEW ses \in Session, NEW k \in ModelSeqs, NEW m \in Model,
             CreateModel(ses, k, m)
      PROVE  TypeOK'
  <2>1. Creator(m) \in Tasks
    BY DEF Tasks
  <2>2. lock' \in Seq(Tasks)
    BY <1>2, <2>1 DEF CreateModel, Join
  <2>3. slot' \in [Model -> Slots] /\ freeSlots' \subseteq Slots
    BY <1>2 DEF CreateModel, TakeSlot
  <2>4. modelsBySeq' \subseteq Session \X ModelSeqs \X Model
    BY <1>2 DEF CreateModel
  <2>5. fut' \in [Model -> [0..MaxSeq -> {"none", "pending", "swept"}
                                        \cup Settled]]
    BY <1>2, SchedulerAssumption DEF CreateModel
  <2> QED BY <1>2, <2>2, <2>3, <2>4, <2>5 DEF CreateModel
<1>3. ASSUME NEW ses \in Session, NEW k \in ModelSeqs, NEW m \in Model,
             RetryCreateModel(ses, k, m)
      PROVE  TypeOK'
  BY <1>3 DEF RetryCreateModel, Settled
<1>4. ASSUME NEW m \in Model, NEW s \in Seqs, NEW c \in Offers[m][s],
             Submit(m, s, c)
      PROVE  TypeOK'
  <2> DEFINE w == waiting[m] \cup {s}
             n == LastContiguous(last[m], w)
  <2>1. n \in last[m]..MaxSeq
    BY LastContiguousTakes
  <2>2. n \in 0..MaxSeq
    BY <2>1, SchedulerAssumption
  <2>3. c \in Command
    BY GatewayAssumption
  <2>4. req' \in [Model -> [Seqs -> Request]] /\ arrivals' \in Nat
    BY <1>4, <2>3, NewRequestType DEF Submit
  <2>5. /\ last' \in [Model -> 0..MaxSeq]
        /\ waiting' \in [Model -> SUBSET Seqs]
        /\ queued' \in [Model -> SUBSET Seqs]
    <3> HIDE DEF n
    <3>1. last' = [last EXCEPT ![m] = n]
      BY <1>4 DEF Submit, n
    <3>2. waiting' = [waiting EXCEPT ![m] = w \ (last[m] + 1)..n]
      BY <1>4 DEF Submit, n
    <3>3. queued' = [queued EXCEPT ![m] = @ \cup (w \cap (last[m] + 1)..n)]
      BY <1>4 DEF Submit, n
    <3> QED BY <2>2, <3>1, <3>2, <3>3
  <2>6. fut' \in [Model -> [0..MaxSeq -> {"none", "pending", "swept"}
                                        \cup Settled]]
    BY <1>4, SchedulerAssumption DEF Submit, Seqs
  <2> QED BY <1>4, <2>4, <2>5, <2>6 DEF Submit
<1>5. ASSUME NEW m \in Model, NEW s \in Seqs, RetrySubmit(m, s)
      PROVE  TypeOK'
  BY <1>5, SchedulerAssumption DEF RetrySubmit, Settled, Seqs
<1>6. ASSUME NEW m \in Model, NEW s \in 0..MaxSeq, SweepFuture(m, s)
      PROVE  TypeOK'
  BY <1>6 DEF SweepFuture
<1> QED BY <1>1, <1>2, <1>3, <1>4, <1>5, <1>6 DEF ClientNext

----------------------------------------------------------------------------
(* The trainer lock *)

\* The tasks that take the lock are told apart by their names.
LEMMA TasksDiffer ==
    /\ Dispatcher \in Tasks /\ Sweeper \in Tasks /\ Dispatcher # Sweeper
    /\ \A m \in Model : /\ Creator(m) \in Tasks
                        /\ Creator(m) # Dispatcher
                        /\ Creator(m) # Sweeper
                        /\ \A n \in Model : Creator(m) = Creator(n) => m = n
BY DEF Tasks, Dispatcher, Sweeper, Creator

\* A task that queues up for the lock does not change who holds it.
LEMMA JoinKeepsHolder ==
    ASSUME lock \in Seq(Tasks), NEW t \in Tasks
    PROVE  /\ Join(lock, t) \in Seq(Tasks)
           /\ lock # << >> => Head(Join(lock, t)) = Head(lock)
           /\ Join(lock, t) # << >>
<1>1. /\ Append(lock, t) \in Seq(Tasks)
      /\ Len(Append(lock, t)) = Len(lock) + 1
      /\ \A i \in 1..Len(lock) : Append(lock, t)[i] = lock[i]
  OBVIOUS
<1>2. Append(lock, t) # << >>
  <2>1. Len(lock) + 1 # 0 /\ Len(<< >>) = 0
    OBVIOUS
  <2> QED BY <1>1, <2>1
<1>3. lock # << >> => 1 \in 1..Len(lock)
  OBVIOUS
<1> QED BY <1>1, <1>2, <1>3 DEF Join

Working == dispatcher \in {"unit", "finish", "reject"}

\* At most one task works on the trainer, and the lock is taken meanwhile.
LEMMA OneWorker ==
    ASSUME TypeOK, TrainerLockHeld, ~stopped
    PROVE  /\ Working => /\ sweeper # "close"
                         /\ \A m \in Model : creator[m] \notin {"load", "close"}
           /\ sweeper = "close" =>
                 \A m \in Model : creator[m] \notin {"load", "close"}
           /\ \A m, n \in Model :
                 creator[m] \in {"load", "close"}
                    /\ creator[n] \in {"load", "close"} => m = n
           /\ Working \/ sweeper = "close" \/ closing # {}
                 \/ (\E m \in Model : creator[m] \in {"load", "close"})
                    => lock # << >>
BY TasksDiffer DEF TrainerLockHeld, Holds, Working, TypeOK

LEMMA CreatorType ==
    TypeOK /\ TrainerLockHeld /\ (\E m \in Model : CreatorNext(m)) => TypeOK'
<1> SUFFICES ASSUME TypeOK, TrainerLockHeld, NEW m \in Model, CreatorNext(m)
             PROVE  TypeOK'
  OBVIOUS
<1> USE DEF TypeOK, clientVars, recordVars, modelVars, queueVars,
            dispatchVars, taskVars, faultVars, trainerVars
<1>0. ASSUME lock # << >> PROVE Tail(lock) \in Seq(Tasks)
  BY <1>0
<1>1. CASE CheckRecord(m)
  <2>1. lock' \in Seq(Tasks)
    BY <1>1, <1>0 DEF CheckRecord, Holds
  <2> QED BY <1>1, <2>1 DEF CheckRecord
<1>2. CASE AdapterLoaded(m)
  <2>1. lock' \in Seq(Tasks)
    BY <1>2, <1>0, OneWorker DEF AdapterLoaded
  <2>2. adapter' \in [Slots -> SUBSET Model]
    BY <1>2 DEF AdapterLoaded
  <2>3. fut' \in [Model -> [0..MaxSeq -> {"none", "pending", "swept"}
                                        \cup Settled]]
    BY <1>2, SchedulerAssumption DEF AdapterLoaded, Settle, Settled
  <2> QED BY <1>2, <2>1, <2>2, <2>3 DEF AdapterLoaded
<1>3. CASE AdapterLoadFails(m)
  <2>1. adapter' \in [Slots -> SUBSET Model]
    BY <1>3 DEF AdapterLoadFails
  <2>2. BeginClose(m) /\ creator' = [creator EXCEPT ![m] = "close"]
    BY <1>3 DEF AdapterLoadFails
  <2>3. /\ open' \subseteq Model /\ closing' \subseteq Model
        /\ accepted' \in [Model -> SUBSET Seqs]
        /\ waiting' \in [Model -> SUBSET Seqs]
        /\ queued' \in [Model -> SUBSET Seqs]
        /\ fut' \in [Model -> [0..MaxSeq -> {"none", "pending", "swept"}
                                            \cup Settled]]
    BY <2>2, CloseType
  <2>4. /\ creator' \in [Model -> {"none", "check", "load", "close", "ended"}]
        /\ initialized' \in [Model -> BOOLEAN]
    BY <1>3 DEF AdapterLoadFails, InitializedAfterFailedLoad
  <2>5. UNCHANGED <<clientVars, recordVars, freeSlots, last, req, arrivals,
                    lock, dispatchVars, sweeper, expiring, faultVars, ran,
                    spoiled>>
    BY <1>3 DEF AdapterLoadFails
  <2> QED BY <2>1, <2>3, <2>4, <2>5
<1>4. CASE AdapterLoadRaises(m)
  <2>1. lock' \in Seq(Tasks)
    BY <1>4, <1>0, OneWorker DEF AdapterLoadRaises, TaskRaises
  <2> QED BY <1>4, <2>1 DEF AdapterLoadRaises, TaskRaises
<1>5. CASE FailedCreateEnds(m)
  <2>1. lock' \in Seq(Tasks)
    BY <1>5, <1>0, OneWorker DEF FailedCreateEnds
  <2> QED BY <1>5, <2>1 DEF FailedCreateEnds
<1> QED BY <1>1, <1>2, <1>3, <1>4, <1>5 DEF CreatorNext

LEMMA CloserType ==
    TypeOK /\ TrainerLockHeld /\ (\E m \in Model : CloseNext(m)) => TypeOK'
<1> SUFFICES ASSUME TypeOK, TrainerLockHeld, NEW m \in Model, CloseNext(m)
             PROVE  TypeOK'
  OBVIOUS
<1> USE DEF TypeOK, clientVars, recordVars, modelVars, queueVars,
            dispatchVars, taskVars, faultVars, trainerVars
<1>1. CASE CloseOnDeadTrainer(m)
  BY <1>1 DEF CloseOnDeadTrainer
<1>2. CASE CloseAndFreeSlot(m)
  BY <1>2 DEF CloseAndFreeSlot
<1>3. CASE CloseAndLeakSlot(m)
  BY <1>3 DEF CloseAndLeakSlot, PoolAfterFailedUnload
<1>4. CASE CloseRaises(m)
  <2>1. lock # << >>
    BY <1>4, OneWorker DEF CloseRaises
  <2>2. lock' \in Seq(Tasks)
    BY <1>4, <2>1 DEF CloseRaises, TaskRaises
  <2> QED BY <1>4, <2>2 DEF CloseRaises, TaskRaises
<1> QED BY <1>1, <1>2, <1>3, <1>4 DEF CloseNext

LEMMA SweeperType ==
    TypeOK /\ TrainerLockHeld /\ SweeperNext => TypeOK'
<1> SUFFICES ASSUME TypeOK, TrainerLockHeld, SweeperNext PROVE TypeOK'
  OBVIOUS
<1> USE DEF TypeOK, clientVars, recordVars, modelVars, queueVars,
            dispatchVars, taskVars, faultVars, trainerVars
<1>1. CASE SweeperWakes
  <2>1. lock' \in Seq(Tasks)
    BY <1>1, JoinKeepsHolder, TasksDiffer DEF SweeperWakes
  <2> QED BY <1>1, <2>1 DEF SweeperWakes
<1>2. CASE ExpireSessions
  BY <1>2 DEF ExpireSessions, ModelsOf
<1>3. ASSUME NEW m \in Model, ExpireModel(m) PROVE TypeOK'
  <2>1. BeginClose(m)
    BY <1>3 DEF ExpireModel
  <2> QED BY <1>3, <2>1, CloseType DEF ExpireModel
<1>4. CASE SweepEnds
  <2>1. lock # << >>
    BY <1>4, OneWorker DEF SweepEnds
  <2>2. lock' \in Seq(Tasks)
    BY <1>4, <2>1 DEF SweepEnds
  <2> QED BY <1>4, <2>2 DEF SweepEnds
<1> QED BY <1>1, <1>2, <1>3, <1>4 DEF SweeperNext

LEMMA DispatcherType ==
    TypeOK /\ TrainerLockHeld /\ DispatcherNext => TypeOK'
<1> SUFFICES ASSUME TypeOK, TrainerLockHeld, DispatcherNext PROVE TypeOK'
  OBVIOUS
<1> USE DEF TypeOK, clientVars, recordVars, modelVars, queueVars,
            dispatchVars, taskVars, faultVars, trainerVars
<1>1. CASE DispatchTop
  <2>1. lock' \in Seq(Tasks)
    BY <1>1, JoinKeepsHolder, TasksDiffer DEF DispatchTop
  <2> QED BY <1>1, <2>1 DEF DispatchTop
<1>2. CASE SelectRejections
  <2>1. todo' \subseteq Model \X Seqs \X {"ok", "error"}
    BY <1>2 DEF SelectRejections, ReadyRejections
  <2> QED BY <1>2, <2>1 DEF SelectRejections
<1>3. CASE SelectUnit
  <2>1. unit' \subseteq Datum
    BY <1>3, UnitType DEF SelectUnit
  <2>2. req' \in [Model -> [Seqs -> Request]]
    <3>1. PICK u : req' = Issued(req, u)
      BY <1>3 DEF SelectUnit
    <3>2. Issue(req, u) \in [Model -> [Seqs -> Request]]
      BY IssueType
    <3> QED BY <3>1, <3>2 DEF Issued
  <2> QED BY <1>3, <2>1, <2>2 DEF SelectUnit
<1>4. CASE SelectNothing
  <2>1. lock' \in Seq(Tasks)
    BY <1>4 DEF SelectNothing, Holds
  <2> QED BY <1>4, <2>1 DEF SelectNothing
<1>5. CASE Wake
  BY <1>5 DEF Wake
<1>6. CASE BatchReturns
  <2>1. req' \in [Model -> [Seqs -> Request]]
    BY <1>6, RecordedType DEF BatchReturns
  <2>2. todo' \subseteq Model \X Seqs \X {"ok", "error"}
    BY <1>6 DEF BatchReturns, Complete, RequestsOf, Datum
  <2>3. ran' \in [Model -> [Seqs -> SUBSET (1..MaxDatums)]]
    BY <1>6 DEF BatchReturns, Executed, DatumsOf
  <2> QED BY <1>6, <2>1, <2>2, <2>3 DEF BatchReturns
<1>7. CASE BatchFails
  <2>1. /\ todo' \subseteq Model \X Seqs \X {"ok", "error"}
        /\ spoiled' \subseteq Model
    BY <1>7 DEF BatchFails, RequestsOf, Datum
  <2> QED BY <1>7, <2>1 DEF BatchFails
<1>8. CASE BarrierReturns
  <2>1. todo' \subseteq Model \X Seqs \X {"ok", "error"}
    BY <1>8 DEF BarrierReturns, Datum
  <2>2. spoiled' \subseteq Model
    BY <1>8 DEF BarrierReturns, Datum
  <2>3. ran' \in [Model -> [Seqs -> SUBSET (1..MaxDatums)]]
    BY <1>8 DEF BarrierReturns, Executed, DatumsOf
  <2> QED BY <1>8, <2>1, <2>2, <2>3 DEF BarrierReturns
<1>9. CASE UnitRaises
  <2>1. lock # << >>
    BY <1>9, OneWorker DEF UnitRaises, Working
  <2>2. lock' \in Seq(Tasks)
    BY <1>9, <2>1 DEF UnitRaises, TaskRaises
  <2> QED BY <1>9, <2>2 DEF UnitRaises, TaskRaises
<1>10. ASSUME NEW w \in Model \X Seqs \X {"ok", "error"}, FinishRequest(w)
       PROVE  TypeOK'
  <2>1. CASE BeginClose(w[1])
    BY <1>10, <2>1, CloseType DEF FinishRequest
  <2>2. CASE ~BeginClose(w[1])
    <3>1. /\ fut' = [fut EXCEPT ![w[1]][w[2]] =
                         Settle(@, IF w[3] = "ok" THEN "done" ELSE "failed")]
          /\ queued' = [queued EXCEPT ![w[1]] = @ \ {w[2]}]
          /\ UNCHANGED <<open, accepted, closing, waiting>>
      BY <1>10, <2>2 DEF FinishRequest
    <3>2. w[2] \in 0..MaxSeq
      BY SchedulerAssumption DEF Seqs
    <3>3. fut' \in [Model -> [0..MaxSeq -> {"none", "pending", "swept"}
                                          \cup Settled]]
      BY <3>1, <3>2, SettleType
    <3> QED BY <1>10, <3>1, <3>3 DEF FinishRequest
  <2> QED BY <2>1, <2>2
<1>11. CASE FinishEnds
  <2>1. lock' \in Seq(Tasks)
    BY <1>11, OneWorker DEF FinishEnds, Working
  <2> QED BY <1>11, <2>1 DEF FinishEnds
<1> QED BY <1>1, <1>2, <1>3, <1>4, <1>5, <1>6, <1>7, <1>8, <1>9, <1>10,
           <1>11 DEF DispatcherNext

LEMMA TypeInductive == TypeOK /\ TrainerLockHeld /\ [Next]_vars => TypeOK'
<1>1. TypeOK /\ UNCHANGED vars => TypeOK'
  BY DEF TypeOK, vars, clientVars, recordVars, modelVars, queueVars,
         dispatchVars, taskVars, faultVars, trainerVars
<1> QED BY <1>1, ClientType, CreatorType, CloserType, SweeperType,
           DispatcherType DEF Next, Halted

----------------------------------------------------------------------------
(* Only the task that holds the trainer lock works on the trainer          *)

NotWorking == {"top", "select", "idle"}
NotSweeping == {"sleep", "expire", "ended"}
NotCreating == {"none", "check", "ended"}

\* A step in which others queue up, and nobody starts or stops to work.
LEMMA WorkersUnchanged ==
    ASSUME TypeOK, TrainerLockHeld, ~stopped,
           lock' = lock \/ \E t \in Tasks : lock' = Join(lock, t),
           \/ dispatcher' = dispatcher
           \/ dispatcher \in NotWorking /\ dispatcher' \in NotWorking,
           \/ sweeper' = sweeper
           \/ sweeper \in NotSweeping /\ sweeper' \in NotSweeping,
           \A m \in Model :
              \/ creator'[m] = creator[m]
              \/ creator[m] \in NotCreating /\ creator'[m] \in NotCreating,
           closing' = closing \/ closing' = {}
    PROVE  TrainerLockHeld'
<1>1. lock # << >> => lock' # << >> /\ Head(lock') = Head(lock)
  BY JoinKeepsHolder DEF TypeOK
<1>2. \A t : Holds(t) => Holds(t)'
  BY <1>1 DEF Holds
<1>3. dispatcher' \in {"unit", "finish", "reject"} => dispatcher' = dispatcher
  BY DEF NotWorking
<1>4. sweeper' = "close" => sweeper = "close"
  BY DEF NotSweeping
<1>5. \A m \in Model :
         creator'[m] \in {"load", "close"} => creator'[m] = creator[m]
  BY DEF NotCreating
<1>6. closing \subseteq Model
  BY DEF TypeOK
<1>7. ASSUME NEW m \in closing'
      PROVE  /\ closing' = {m}
             /\ \/ dispatcher' \in {"finish", "reject"}
                \/ sweeper' = "close"
                \/ creator'[m] = "close"
  <2>1. m \in closing /\ closing' = closing
    BY <1>7
  <2>2. /\ closing = {m}
        /\ \/ dispatcher \in {"finish", "reject"}
           \/ sweeper = "close"
           \/ creator[m] = "close"
    BY <2>1 DEF TrainerLockHeld
  <2> QED BY <1>6, <2>1, <2>2 DEF NotWorking, NotSweeping, NotCreating
<1> QED BY <1>2, <1>3, <1>4, <1>5, <1>7
        DEF TrainerLockHeld, Dispatcher, Sweeper, Creator

\* A step after which nobody works on the trainer.
LEMMA NobodyWorks ==
    ASSUME ~stopped' => /\ dispatcher' \notin {"unit", "finish", "reject"}
                        /\ sweeper' # "close"
                        /\ \A m \in Model : creator'[m] \notin {"load", "close"}
                        /\ closing' = {}
    PROVE  TrainerLockHeld'
BY DEF TrainerLockHeld

\* While a model is being loaded none is being closed.
LEMMA LoadingExcludesClosing ==
    ASSUME TypeOK, TrainerLockHeld, ~stopped,
           NEW m \in Model, creator[m] = "load"
    PROVE  closing = {}
<1> SUFFICES ASSUME NEW n \in closing PROVE FALSE
  OBVIOUS
<1>1. n \in Model
  BY DEF TypeOK
<1>2. \/ dispatcher \in {"finish", "reject"}
      \/ sweeper = "close"
      \/ creator[n] = "close"
  BY DEF TrainerLockHeld
<1> QED BY <1>1, <1>2, OneWorker DEF Working

LEMMA ClientLock == SlotInv /\ ClientNext => TrainerLockHeld'
<1> SUFFICES ASSUME SlotInv, ClientNext PROVE TrainerLockHeld'
  OBVIOUS
<1> USE DEF SlotInv, clientVars, recordVars, modelVars, queueVars,
            dispatchVars, taskVars, faultVars, trainerVars
<1>1. ASSUME NEW ses \in Session, NEW k \in ModelSeqs, NEW m \in Model,
             CreateModel(ses, k, m)
      PROVE  TrainerLockHeld'
  <2>1. /\ lock' = Join(lock, Creator(m)) /\ Creator(m) \in Tasks
        /\ ~stopped /\ m \notin born
        /\ UNCHANGED <<dispatcher, sweeper, closing>>
    BY <1>1, TasksDiffer DEF CreateModel
  <2>2. creator[m] \in NotCreating /\ creator'[m] \in NotCreating
    BY <1>1, <2>1 DEF CreateModel, LoadsOnce, TypeOK, NotCreating
  <2>3. \A n \in Model : n # m => creator'[n] = creator[n]
    BY <1>1 DEF CreateModel, TypeOK
  <2> QED BY <2>1, <2>2, <2>3, WorkersUnchanged
<1>2. ASSUME UNCHANGED <<lock, dispatcher, sweeper, creator, closing>>,
             ~stopped
      PROVE  TrainerLockHeld'
  BY <1>2, WorkersUnchanged
<1>3. ASSUME NEW ses \in Session,
             \/ CreateSession(ses) \/ LeaseLapses(ses) \/ Heartbeat(ses)
             \/ \E k \in ModelSeqs, m \in Model : RetryCreateModel(ses, k, m)
      PROVE  TrainerLockHeld'
  BY <1>2, <1>3
     DEF CreateSession, LeaseLapses, Heartbeat, RetryCreateModel
<1>4. ASSUME NEW m \in Model, NEW s \in Seqs,
             RetrySubmit(m, s) \/ \E c \in Offers[m][s] : Submit(m, s, c)
      PROVE  TrainerLockHeld'
  BY <1>2, <1>4 DEF RetrySubmit, Submit
<1>5. ASSUME NEW m \in Model, NEW s \in 0..MaxSeq, SweepFuture(m, s)
      PROVE  TrainerLockHeld'
  BY <1>2, <1>5 DEF SweepFuture
<1> QED BY <1>1, <1>3, <1>4, <1>5 DEF ClientNext

LEMMA CreatorLock ==
    SlotInv /\ (\E m \in Model : CreatorNext(m)) => TrainerLockHeld'
<1> SUFFICES ASSUME SlotInv, NEW m \in Model, CreatorNext(m)
             PROVE  TrainerLockHeld'
  OBVIOUS
<1> USE DEF SlotInv, clientVars, recordVars, modelVars, queueVars,
            dispatchVars, taskVars, faultVars, trainerVars
<1>0. creator \in [Model -> {"none", "check", "load", "close", "ended"}]
  BY DEF TypeOK
<1>1. ASSUME creator[m] \in {"load", "close"}, ~stopped, closing = {},
             creator' = [creator EXCEPT ![m] = "ended"],
             UNCHANGED <<dispatcher, sweeper, closing>>
      PROVE  TrainerLockHeld'
  BY <1>0, <1>1, OneWorker, NobodyWorks DEF Working
<1>2. CASE CheckRecord(m) /\ m \in open
  <2>1. /\ creator[m] = "check" /\ ~stopped
        /\ creator' = [creator EXCEPT ![m] = "load"]
        /\ UNCHANGED <<lock, dispatcher, sweeper, closing>>
    BY <1>2 DEF CheckRecord, StillOpen
  <2>2. Holds(Creator(m)) /\ Holds(Creator(m))'
    BY <1>2, <2>1 DEF CheckRecord, Holds, Creator
  <2>3. ~Working /\ sweeper # "close"
        /\ \A n \in Model : creator[n] \notin {"load", "close"}
    BY <2>1, <2>2, TasksDiffer DEF TrainerLockHeld, Holds, Working
  <2>4. closing = {}
    BY <2>1, <2>3 DEF TrainerLockHeld, TypeOK, Working
  <2> QED BY <1>0, <2>1, <2>2, <2>3, <2>4 DEF TrainerLockHeld, Working
<1>3. CASE CheckRecord(m) /\ m \notin open
  <2>1. /\ creator[m] = "check" /\ ~stopped /\ Holds(Creator(m))
        /\ creator' = [creator EXCEPT ![m] = "ended"]
        /\ UNCHANGED <<dispatcher, sweeper, closing>>
    BY <1>3 DEF CheckRecord, StillOpen
  <2>2. ~Working /\ sweeper # "close"
        /\ \A n \in Model : creator[n] \notin {"load", "close"}
    BY <2>1, TasksDiffer DEF TrainerLockHeld, Holds, Working
  <2>3. closing = {}
    BY <2>1, <2>2 DEF TrainerLockHeld, TypeOK, Working
  <2> QED BY <1>0, <2>1, <2>2, <2>3, NobodyWorks DEF Working
<1>4. CASE AdapterLoaded(m)
  BY <1>1, <1>4, LoadingExcludesClosing DEF AdapterLoaded
<1>5. CASE AdapterLoadFails(m)
  <2>1. /\ creator[m] = "load" /\ ~stopped /\ BeginClose(m)
        /\ creator' = [creator EXCEPT ![m] = "close"]
        /\ UNCHANGED <<lock, dispatcher, sweeper, stopped>>
    BY <1>5 DEF AdapterLoadFails
  <2>2. closing' = {m}
    BY <2>1 DEF BeginClose, LoadsOnce
  <2>3. Holds(Creator(m))'
    BY <2>1 DEF TrainerLockHeld, Holds, Creator
  <2>4. ~Working /\ sweeper # "close"
        /\ \A n \in Model : n # m => creator[n] \notin {"load", "close"}
    BY <2>1, OneWorker
  <2> QED BY <1>0, <2>1, <2>2, <2>3, <2>4 DEF TrainerLockHeld, Working
<1>6. CASE AdapterLoadRaises(m)
  BY <1>1, <1>6, LoadingExcludesClosing DEF AdapterLoadRaises
<1>7. CASE FailedCreateEnds(m)
  BY <1>1, <1>7 DEF FailedCreateEnds
<1> QED BY <1>2, <1>3, <1>4, <1>5, <1>6, <1>7 DEF CreatorNext

LEMMA CloserLock ==
    SlotInv /\ (\E m \in Model : CloseNext(m)) => TrainerLockHeld'
<1> SUFFICES ASSUME SlotInv, NEW m \in Model, CloseNext(m)
             PROVE  TrainerLockHeld'
  OBVIOUS
<1> USE DEF SlotInv, clientVars, recordVars, modelVars, queueVars,
            dispatchVars, taskVars, faultVars, trainerVars
<1>1. CASE CloseOnDeadTrainer(m) \/ CloseAndFreeSlot(m) \/ CloseAndLeakSlot(m)
  <2>1. /\ ~stopped /\ closing' = {}
        /\ UNCHANGED <<lock, dispatcher, sweeper, creator>>
    BY <1>1 DEF CloseOnDeadTrainer, CloseAndFreeSlot, CloseAndLeakSlot
  <2> QED BY <2>1, WorkersUnchanged
<1>2. CASE CloseRaises(m)
  <2>0. creator \in [Model -> {"none", "check", "load", "close", "ended"}]
    BY DEF TypeOK
  <2>1. /\ ~stopped /\ closing = {m} /\ closing' = {} /\ TaskRaises
        /\ creator' = IF Holds(Creator(m))
                      THEN [creator EXCEPT ![m] = "ended"] ELSE creator
        /\ sweeper' = IF Holds(Sweeper) THEN "ended" ELSE sweeper
        /\ UNCHANGED dispatcher
    BY <1>2 DEF CloseRaises
  <2>2. Holds(Dispatcher) => TrainerLockHeld'
    BY <2>1 DEF TaskRaises, TrainerLockHeld
  <2>3. CASE ~Holds(Dispatcher)
    <3>1. ~Working
      BY <2>1, <2>3 DEF TrainerLockHeld, Working
    <3>2. CASE sweeper = "close"
      <4>1. Holds(Sweeper)
            /\ \A n \in Model : creator[n] \notin {"load", "close"}
        BY <2>1, <3>2, OneWorker DEF TrainerLockHeld
      <4>2. ~Holds(Creator(m))
        BY <4>1, TasksDiffer DEF Holds
      <4> QED BY <2>1, <3>1, <4>1, <4>2, NobodyWorks DEF Working
    <3>3. CASE sweeper # "close"
      <4>1. creator[m] = "close"
        BY <2>1, <3>1, <3>3 DEF TrainerLockHeld, Working
      <4>2. Holds(Creator(m))
            /\ \A n \in Model : n # m => creator[n] \notin {"load", "close"}
        BY <2>1, <4>1, OneWorker DEF TrainerLockHeld
      <4>3. \A n \in Model : creator'[n] \notin {"load", "close"}
        BY <2>0, <2>1, <4>2
      <4>4. sweeper' # "close"
        BY <2>1, <3>3
      <4> QED BY <2>1, <3>1, <4>3, <4>4, NobodyWorks DEF Working
    <3> QED BY <3>2, <3>3
  <2> QED BY <2>2, <2>3
<1> QED BY <1>1, <1>2 DEF CloseNext

LEMMA SweeperLock == SlotInv /\ SweeperNext => TrainerLockHeld'
<1> SUFFICES ASSUME SlotInv, SweeperNext PROVE TrainerLockHeld'
  OBVIOUS
<1> USE DEF SlotInv, clientVars, recordVars, modelVars, queueVars,
            dispatchVars, taskVars, faultVars, trainerVars
<1>1. CASE SweeperWakes
  <2>1. /\ ~stopped /\ lock' = Join(lock, Sweeper) /\ Sweeper \in Tasks
        /\ sweeper \in NotSweeping /\ sweeper' \in NotSweeping
        /\ UNCHANGED <<dispatcher, creator, closing>>
    BY <1>1, TasksDiffer DEF SweeperWakes, NotSweeping
  <2> QED BY <2>1, WorkersUnchanged
<1>2. CASE ExpireSessions
  <2>1. /\ ~stopped /\ Holds(Sweeper) /\ sweeper = "expire"
        /\ UNCHANGED <<lock, dispatcher, creator, closing>>
    BY <1>2 DEF ExpireSessions
  <2>2. ~Working /\ \A n \in Model : creator[n] \notin {"load", "close"}
    BY <2>1, TasksDiffer DEF TrainerLockHeld, Holds, Working
  <2>3. closing = {}
    BY <2>1, <2>2 DEF TrainerLockHeld, TypeOK, Working
  <2>4. Holds(Sweeper)'
    BY <2>1 DEF Holds, Sweeper
  <2> QED BY <2>1, <2>2, <2>3, <2>4 DEF TrainerLockHeld, Working
<1>3. ASSUME NEW m \in Model, ExpireModel(m) PROVE TrainerLockHeld'
  <2>1. /\ ~stopped /\ sweeper = "close" /\ closing = {} /\ BeginClose(m)
        /\ UNCHANGED <<lock, dispatcher, creator, sweeper>>
    BY <1>3 DEF ExpireModel
  <2>2. ~Working /\ \A n \in Model : creator[n] \notin {"load", "close"}
    BY <2>1, OneWorker
  <2>3. closing' = {} \/ closing' = {m}
    BY <2>1 DEF BeginClose
  <2>4. Holds(Sweeper)'
    BY <2>1 DEF TrainerLockHeld, Holds, Sweeper
  <2> QED BY <2>1, <2>2, <2>3, <2>4 DEF TrainerLockHeld, Working
<1>4. CASE SweepEnds
  <2>1. /\ ~stopped /\ sweeper = "close" /\ closing = {} /\ sweeper' = "sleep"
        /\ UNCHANGED <<dispatcher, creator, closing>>
    BY <1>4 DEF SweepEnds
  <2>2. ~Working /\ \A n \in Model : creator[n] \notin {"load", "close"}
    BY <2>1, OneWorker
  <2> QED BY <2>1, <2>2, NobodyWorks DEF Working
<1> QED BY <1>1, <1>2, <1>3, <1>4 DEF SweeperNext

LEMMA DispatcherLock == SlotInv /\ DispatcherNext => TrainerLockHeld'
<1> SUFFICES ASSUME SlotInv, DispatcherNext PROVE TrainerLockHeld'
  OBVIOUS
<1> USE DEF SlotInv, clientVars, recordVars, modelVars, queueVars,
            dispatchVars, taskVars, faultVars, trainerVars
<1>1. CASE DispatchTop
  <2>1. /\ ~stopped /\ dispatcher \in NotWorking /\ dispatcher' \in NotWorking
        /\ lock' = lock \/ lock' = Join(lock, Dispatcher)
        /\ Dispatcher \in Tasks
        /\ UNCHANGED <<sweeper, creator, closing>>
    BY <1>1, TasksDiffer DEF DispatchTop, NotWorking
  <2> QED BY <2>1, WorkersUnchanged
<1>2. ASSUME ~stopped, dispatcher = "select", Holds(Dispatcher)
      PROVE  /\ sweeper # "close" /\ closing = {}
             /\ \A n \in Model : creator[n] \notin {"load", "close"}
  <2>1. sweeper # "close" /\ \A n \in Model : creator[n] \notin {"load", "close"}
    BY <1>2, TasksDiffer DEF TrainerLockHeld, Holds
  <2> QED BY <1>2, <2>1 DEF TrainerLockHeld, TypeOK
<1>3. CASE SelectRejections \/ SelectUnit
  <2>1. /\ ~stopped /\ dispatcher = "select" /\ Holds(Dispatcher)
        /\ UNCHANGED <<lock, sweeper, creator, closing>>
    BY <1>3 DEF SelectRejections, SelectUnit
  <2>2. Holds(Dispatcher)'
    BY <2>1 DEF Holds, Dispatcher
  <2> QED BY <1>2, <2>1, <2>2 DEF TrainerLockHeld
<1>4. CASE SelectNothing
  <2>1. /\ ~stopped /\ dispatcher = "select" /\ Holds(Dispatcher)
        /\ dispatcher' = "idle"
        /\ UNCHANGED <<sweeper, creator, closing>>
    BY <1>4 DEF SelectNothing
  <2> QED BY <1>2, <2>1, NobodyWorks
<1>5. CASE Wake
  <2>1. /\ ~stopped /\ dispatcher \in NotWorking /\ dispatcher' \in NotWorking
        /\ UNCHANGED <<lock, sweeper, creator, closing>>
    BY <1>5 DEF Wake, NotWorking
  <2> QED BY <2>1, WorkersUnchanged
<1>6. ASSUME ~stopped, Working
      PROVE  /\ sweeper # "close" /\ Holds(Dispatcher)
             /\ \A n \in Model : creator[n] \notin {"load", "close"}
  BY <1>6, OneWorker DEF TrainerLockHeld, Working
<1>7. CASE BatchReturns \/ BatchFails \/ BarrierReturns
  <2>1. /\ ~stopped /\ dispatcher = "unit" /\ dispatcher' = "finish"
        /\ UNCHANGED <<lock, sweeper, creator, closing>>
    BY <1>7 DEF BatchReturns, BatchFails, BarrierReturns
  <2>2. Holds(Dispatcher)'
    BY <1>6, <2>1 DEF Holds, Dispatcher, Working
  <2>3. closing = {}
    BY <1>6, <2>1 DEF TrainerLockHeld, TypeOK, Working
  <2> QED BY <1>6, <2>1, <2>2, <2>3 DEF TrainerLockHeld, Working
<1>8. CASE UnitRaises
  <2>1. /\ ~stopped /\ Working /\ TaskRaises
    BY <1>8 DEF UnitRaises, Working
  <2> QED BY <1>6, <2>1, NobodyWorks DEF TaskRaises
<1>9. ASSUME NEW w \in Model \X Seqs \X {"ok", "error"}, FinishRequest(w)
      PROVE  TrainerLockHeld'
  <2>1. /\ ~stopped /\ Working /\ dispatcher \in {"finish", "reject"}
        /\ closing = {}
        /\ UNCHANGED <<lock, dispatcher, sweeper, creator>>
    BY <1>9 DEF FinishRequest, Working
  <2>2. closing' = {} \/ closing' = {w[1]}
    BY <1>9, <2>1 DEF FinishRequest, BeginClose
  <2>3. Holds(Dispatcher)'
    BY <1>6, <2>1 DEF Holds, Dispatcher
  <2> QED BY <1>6, <2>1, <2>2, <2>3 DEF TrainerLockHeld
<1>10. CASE FinishEnds
  <2>1. /\ ~stopped /\ Working /\ closing = {} /\ dispatcher' = "top"
        /\ UNCHANGED <<sweeper, creator, closing>>
    BY <1>10 DEF FinishEnds, Working
  <2> QED BY <1>6, <2>1, NobodyWorks
<1> QED BY <1>1, <1>3, <1>4, <1>5, <1>7, <1>8, <1>9, <1>10 DEF DispatcherNext

LEMMA LockInductive == SlotInv /\ [Next]_vars => TrainerLockHeld'
<1>1. SlotInv /\ UNCHANGED vars => TrainerLockHeld'
  BY DEF SlotInv, TrainerLockHeld, Holds, Dispatcher, Sweeper, Creator,
         vars, clientVars, recordVars, modelVars, queueVars,
         dispatchVars, taskVars, faultVars, trainerVars
<1> QED BY <1>1, ClientLock, CreatorLock, CloserLock, SweeperLock,
           DispatcherLock DEF Next, Halted

----------------------------------------------------------------------------
(* A model is loaded once, while it is open *)

\* A step in which no model is created or closed and no load begins.
LEMMA LoadsUndisturbed ==
    ASSUME TypeOK, LoadsOnce, ~stopped,
           UNCHANGED <<born, initialized>>,
           \A m \in Model :
              \/ creator'[m] = creator[m] /\ (creator[m] = "load" /\ m \in open
                                                 => m \in open')
              \/ m \in born /\ creator'[m] \in {"close", "ended"}
    PROVE  LoadsOnce'
BY DEF LoadsOnce

LEMMA LoadsInductive == SlotInv /\ [Next]_vars => LoadsOnce'
<1> SUFFICES ASSUME SlotInv, [Next]_vars PROVE LoadsOnce'
  OBVIOUS
<1> USE DEF SlotInv, clientVars, recordVars, modelVars, queueVars,
            dispatchVars, taskVars, faultVars, trainerVars
<1>0. creator \in [Model -> {"none", "check", "load", "close", "ended"}]
  BY DEF TypeOK
<1>1. ASSUME ~stopped, UNCHANGED <<born, initialized, creator, open>>
      PROVE  LoadsOnce'
  BY <1>1, LoadsUndisturbed
<1>2. ASSUME NEW ses \in Session, NEW k \in ModelSeqs, NEW m \in Model,
             CreateModel(ses, k, m)
      PROVE  LoadsOnce'
  <2>1. /\ m \notin born /\ born' = born \cup {m} /\ open' = open \cup {m}
        /\ creator' = [creator EXCEPT ![m] = "check"]
        /\ UNCHANGED <<initialized, stopped>>
    BY <1>2 DEF CreateModel
  <2> QED BY <1>0, <2>1 DEF LoadsOnce
<1>3. CASE ClientNext
  <2>1. ASSUME NEW ses \in Session,
               \/ CreateSession(ses) \/ LeaseLapses(ses) \/ Heartbeat(ses)
               \/ \E k \in ModelSeqs, m \in Model : RetryCreateModel(ses, k, m)
        PROVE  LoadsOnce'
    BY <1>1, <2>1
       DEF CreateSession, LeaseLapses, Heartbeat, RetryCreateModel
  <2>2. ASSUME NEW m \in Model, NEW s \in Seqs,
               RetrySubmit(m, s) \/ \E c \in Offers[m][s] : Submit(m, s, c)
        PROVE  LoadsOnce'
    BY <1>1, <2>2 DEF RetrySubmit, Submit
  <2>3. ASSUME NEW m \in Model, NEW s \in 0..MaxSeq, SweepFuture(m, s)
        PROVE  LoadsOnce'
    BY <1>1, <2>3 DEF SweepFuture
  <2> QED BY <1>2, <1>3, <2>1, <2>2, <2>3 DEF ClientNext
<1>4. ASSUME NEW m \in Model, CheckRecord(m) PROVE LoadsOnce'
  <2>1. m \in born /\ ~initialized[m]
    BY <1>4 DEF CheckRecord, LoadsOnce
  <2>2. \/ m \in open /\ creator' = [creator EXCEPT ![m] = "load"]
        \/ creator' = [creator EXCEPT ![m] = "ended"]
    BY <1>4 DEF CheckRecord, StillOpen
  <2>3. UNCHANGED <<born, initialized, open, stopped>>
    BY <1>4 DEF CheckRecord
  <2> QED BY <1>0, <2>1, <2>2, <2>3 DEF LoadsOnce
<1>5. ASSUME NEW m \in Model,
             AdapterLoaded(m) \/ AdapterLoadFails(m)
      PROVE  LoadsOnce'
  <2>1. /\ ~stopped /\ creator[m] = "load"
        /\ \A n \in Model : n # m => creator[n] # "load"
    BY <1>5, OneWorker DEF AdapterLoaded, AdapterLoadFails
  <2>2. /\ creator' = [creator EXCEPT ![m] = "ended"]
              \/ creator' = [creator EXCEPT ![m] = "close"]
        /\ initialized' = [initialized EXCEPT ![m] = TRUE]
        /\ UNCHANGED born
    BY <1>5 DEF AdapterLoaded, AdapterLoadFails, InitializedAfterFailedLoad
  <2>3. initialized \in [Model -> BOOLEAN]
    BY DEF TypeOK
  <2> QED BY <1>0, <2>1, <2>2, <2>3 DEF LoadsOnce
<1>6. ASSUME NEW m \in Model, AdapterLoadRaises(m) \/ FailedCreateEnds(m)
      PROVE  LoadsOnce'
  <2>1. /\ ~stopped /\ creator[m] # "none"
        /\ creator' = [creator EXCEPT ![m] = "ended"]
        /\ UNCHANGED <<born, initialized, open>>
    BY <1>6 DEF AdapterLoadRaises, FailedCreateEnds
  <2>2. m \in born
    BY <2>1 DEF LoadsOnce
  <2> QED BY <1>0, <2>1, <2>2, LoadsUndisturbed
<1>7. ASSUME NEW m \in Model, CloseNext(m) PROVE LoadsOnce'
  <2>1. CASE CloseOnDeadTrainer(m) \/ CloseAndFreeSlot(m) \/ CloseAndLeakSlot(m)
    BY <1>1, <2>1
       DEF CloseOnDeadTrainer, CloseAndFreeSlot, CloseAndLeakSlot
  <2>2. CASE CloseRaises(m)
    <3>1. /\ ~stopped /\ closing = {m}
          /\ creator' = creator \/ creator' = [creator EXCEPT ![m] = "ended"]
          /\ UNCHANGED <<born, initialized, open>>
      BY <2>2 DEF CloseRaises
    <3>2. m \in born
      BY <3>1 DEF SlotsAreFresh
    <3> QED BY <1>0, <3>1, <3>2, LoadsUndisturbed
  <2> QED BY <1>7, <2>1, <2>2 DEF CloseNext
<1>8. ASSUME ~stopped, Working \/ sweeper = "close",
             NEW m \in Model, BeginClose(m),
             UNCHANGED <<born, initialized, creator>>
      PROVE  LoadsOnce'
  <2>1. \A n \in Model : creator[n] # "load"
    BY <1>8, OneWorker
  <2> QED BY <1>8, <2>1, LoadsUndisturbed
<1>9. CASE SweeperNext
  <2>1. CASE SweeperWakes \/ ExpireSessions \/ SweepEnds
    BY <1>1, <2>1 DEF SweeperWakes, ExpireSessions, SweepEnds
  <2>2. ASSUME NEW m \in Model, ExpireModel(m) PROVE LoadsOnce'
    BY <1>8, <2>2 DEF ExpireModel
  <2> QED BY <1>9, <2>1, <2>2 DEF SweeperNext
<1>10. CASE DispatcherNext
  <2>1. CASE DispatchTop \/ SelectRejections \/ SelectUnit \/ SelectNothing
    BY <1>1, <2>1
       DEF DispatchTop, SelectRejections, SelectUnit, SelectNothing
  <2>2. CASE Wake \/ BatchReturns \/ BatchFails \/ BarrierReturns
    BY <1>1, <2>2 DEF Wake, BatchReturns, BatchFails, BarrierReturns
  <2>3. CASE UnitRaises \/ FinishEnds
    BY <1>1, <2>3 DEF UnitRaises, FinishEnds
  <2>4. ASSUME NEW w \in Model \X Seqs \X {"ok", "error"}, FinishRequest(w)
        PROVE  LoadsOnce'
    <3>1. /\ ~stopped /\ Working /\ w[1] \in Model
          /\ UNCHANGED <<born, initialized, creator>>
          /\ BeginClose(w[1]) \/ open' = open
      BY <2>4 DEF FinishRequest, Working
    <3> QED BY <1>1, <1>8, <3>1
  <2> QED BY <1>10, <2>1, <2>2, <2>3, <2>4 DEF DispatcherNext
<1>11. CASE UNCHANGED vars
  BY <1>11 DEF LoadsOnce, vars
<1> QED BY <1>3, <1>4, <1>5, <1>6, <1>7, <1>9, <1>10, <1>11
        DEF Next, CreatorNext, Halted

----------------------------------------------------------------------------
(* Who has which slot *)

SlotFacts == SlotsAreFresh /\ SlotExclusive /\ FreeSlotsAreClean

\* A step that at most moves a model from open to closing, or ends one.
LEMMA TenantsStay ==
    ASSUME SlotInv,
           open' \cup closing' \subseteq open \cup closing,
           open' \cap closing' = {},
           UNCHANGED <<born, slot, freeSlots, initialized, adapter>>
    PROVE  SlotFacts'
BY DEF SlotInv, SlotFacts, SlotsAreFresh, SlotExclusive, FreeSlotsAreClean

\* _close_model up to its first await is such a step.
LEMMA BeginCloseMoves ==
    ASSUME SlotInv, NEW m \in Model, BeginClose(m), closing = {}
    PROVE  /\ open' \cup closing' = open \cup closing
           /\ open' \cap closing' = {}
BY DEF BeginClose

LEMMA SlotsInductive == SlotInv /\ [Next]_vars => SlotFacts'
<1> SUFFICES ASSUME SlotInv, [Next]_vars PROVE SlotFacts'
  OBVIOUS
<1> USE DEF clientVars, recordVars, modelVars, queueVars,
            dispatchVars, taskVars, faultVars, trainerVars
<1>0. /\ slot \in [Model -> Slots] /\ freeSlots \subseteq Slots
      /\ initialized \in [Model -> BOOLEAN]
      /\ adapter \in [Slots -> SUBSET Model]
      /\ open \subseteq Model /\ closing \subseteq Model /\ born \subseteq Model
  BY DEF SlotInv, TypeOK
<1>1. SlotsAreFresh /\ SlotExclusive /\ FreeSlotsAreClean /\ LoadsOnce
      /\ TypeOK /\ TrainerLockHeld
  BY DEF SlotInv
<1>2. ASSUME UNCHANGED <<open, closing, born, slot, freeSlots, initialized,
                         adapter>>
      PROVE  SlotFacts'
  <2>1. open \cap closing = {}
    BY <1>1 DEF SlotsAreFresh
  <2> QED BY <1>2, <2>1, TenantsStay
<1>3. ASSUME NEW m \in Model, BeginClose(m), closing = {},
             UNCHANGED <<born, slot, freeSlots, initialized, adapter>>
      PROVE  SlotFacts'
  BY <1>3, BeginCloseMoves, TenantsStay
<1>4. ASSUME NEW ses \in Session, NEW k \in ModelSeqs, NEW m \in Model,
             CreateModel(ses, k, m)
      PROVE  SlotFacts'
  <2>1. PICK j \in freeSlots : /\ slot' = [slot EXCEPT ![m] = j]
                               /\ freeSlots' = freeSlots \ {j}
    BY <1>4 DEF CreateModel, TakeSlot
  <2>2. /\ m \notin born /\ born' = born \cup {m} /\ open' = open \cup {m}
        /\ UNCHANGED <<closing, initialized, adapter>>
    BY <1>4 DEF CreateModel
  <2>3. m \notin open \cup closing
    BY <1>1, <2>2 DEF SlotsAreFresh
  <2>4. slot'[m] = j /\ \A n \in Model : n # m => slot'[n] = slot[n]
    BY <1>0, <2>1
  <2>5. adapter[j] = {}
    BY <1>1, <2>1 DEF FreeSlotsAreClean
  <2>6. FreeSlotsAreClean'
    BY <1>1, <2>1, <2>2 DEF FreeSlotsAreClean
  <2>7. SlotsAreFresh'
    BY <1>0, <1>1, <2>2, <2>3, <2>4, <2>5 DEF SlotsAreFresh
  <2>8. SlotExclusive'
    BY <1>0, <1>1, <2>1, <2>2, <2>3, <2>4 DEF SlotExclusive
  <2> QED BY <2>6, <2>7, <2>8 DEF SlotFacts
<1>5. CASE ClientNext
  <2>1. ASSUME NEW ses \in Session,
               \/ CreateSession(ses) \/ LeaseLapses(ses) \/ Heartbeat(ses)
               \/ \E k \in ModelSeqs, m \in Model : RetryCreateModel(ses, k, m)
        PROVE  SlotFacts'
    BY <1>2, <2>1
       DEF CreateSession, LeaseLapses, Heartbeat, RetryCreateModel
  <2>2. ASSUME NEW m \in Model, NEW s \in Seqs,
               RetrySubmit(m, s) \/ \E c \in Offers[m][s] : Submit(m, s, c)
        PROVE  SlotFacts'
    BY <1>2, <2>2 DEF RetrySubmit, Submit
  <2>3. ASSUME NEW m \in Model, NEW s \in 0..MaxSeq, SweepFuture(m, s)
        PROVE  SlotFacts'
    BY <1>2, <2>3 DEF SweepFuture
  <2> QED BY <1>4, <1>5, <2>1, <2>2, <2>3 DEF ClientNext
<1>6. ASSUME NEW m \in Model, m \in open, ~stopped, creator[m] = "load",
             adapter' = [adapter EXCEPT ![slot[m]] = @ \cup {m}],
             initialized' = [initialized EXCEPT ![m] = TRUE],
             open' \cup closing' = open \cup closing,
             open' \cap closing' = {},
             UNCHANGED <<born, slot, freeSlots>>
      PROVE  SlotFacts'
  <2>1. slot[m] \notin freeSlots
        /\ \A n \in open \cup closing : n # m => slot[n] # slot[m]
    BY <1>1, <1>6 DEF SlotExclusive
  <2>2. FreeSlotsAreClean'
    BY <1>0, <1>1, <1>6, <2>1 DEF FreeSlotsAreClean
  <2>3. SlotExclusive'
    BY <1>1, <1>6 DEF SlotExclusive
  <2>4. SlotsAreFresh'
    BY <1>0, <1>1, <1>6, <2>1 DEF SlotsAreFresh
  <2> QED BY <2>2, <2>3, <2>4 DEF SlotFacts
<1>7. ASSUME NEW m \in Model, CreatorNext(m) PROVE SlotFacts'
  <2>1. CASE CheckRecord(m) \/ AdapterLoadRaises(m) \/ FailedCreateEnds(m)
    BY <1>2, <2>1 DEF CheckRecord, AdapterLoadRaises, FailedCreateEnds
  <2>2. CASE AdapterLoaded(m)
    <3>1. m \in open /\ open \cap closing = {}
      BY <1>1, <2>2 DEF AdapterLoaded, LoadsOnce, SlotsAreFresh
    <3> QED BY <1>6, <2>2, <3>1 DEF AdapterLoaded
  <2>3. CASE AdapterLoadFails(m)
    <3>1. m \in open /\ closing = {}
      BY <1>1, <2>3, LoadingExcludesClosing DEF AdapterLoadFails, LoadsOnce
    <3>2. open' \cup closing' = open \cup closing /\ open' \cap closing' = {}
      BY <2>3, <3>1, BeginCloseMoves DEF AdapterLoadFails
    <3> QED BY <1>6, <2>3, <3>1, <3>2
            DEF AdapterLoadFails, InitializedAfterFailedLoad
  <2> QED BY <1>7, <2>1, <2>2, <2>3 DEF CreatorNext
<1>8. ASSUME NEW m \in Model, CloseNext(m) PROVE SlotFacts'
  <2>1. CASE CloseOnDeadTrainer(m) \/ CloseAndLeakSlot(m) \/ CloseRaises(m)
    BY <2>1, TenantsStay
       DEF CloseOnDeadTrainer, CloseAndLeakSlot, CloseRaises,
           PoolAfterFailedUnload
  <2>2. CASE CloseAndFreeSlot(m)
    <3>1. /\ closing = {m} /\ closing' = {}
          /\ freeSlots' = freeSlots \cup {slot[m]}
          /\ adapter' = IF initialized[m]
                        THEN [adapter EXCEPT ![slot[m]] = {}] ELSE adapter
          /\ UNCHANGED <<born, slot, open, initialized>>
      BY <2>2 DEF CloseAndFreeSlot
    <3>2. m \notin open /\ \A n \in open : slot[n] # slot[m]
      BY <1>1, <3>1 DEF SlotsAreFresh, SlotExclusive
    <3>3. adapter'[slot[m]] = {}
          /\ \A k \in Slots : k # slot[m] => adapter'[k] = adapter[k]
      BY <1>0, <1>1, <3>1 DEF SlotsAreFresh
    <3>4. FreeSlotsAreClean'
      BY <1>0, <1>1, <3>1, <3>3 DEF FreeSlotsAreClean
    <3>5. SlotExclusive'
      BY <1>0, <1>1, <3>1, <3>2 DEF SlotExclusive
    <3>6. SlotsAreFresh'
      BY <1>0, <1>1, <3>1, <3>2, <3>3 DEF SlotsAreFresh
    <3> QED BY <3>4, <3>5, <3>6 DEF SlotFacts
  <2> QED BY <1>8, <2>1, <2>2 DEF CloseNext
<1>9. CASE SweeperNext
  <2>1. CASE SweeperWakes \/ ExpireSessions \/ SweepEnds
    BY <1>2, <2>1 DEF SweeperWakes, ExpireSessions, SweepEnds
  <2>2. ASSUME NEW m \in Model, ExpireModel(m) PROVE SlotFacts'
    BY <1>3, <2>2 DEF ExpireModel
  <2> QED BY <1>9, <2>1, <2>2 DEF SweeperNext
<1>10. CASE DispatcherNext
  <2>1. CASE DispatchTop \/ SelectRejections \/ SelectUnit \/ SelectNothing
    BY <1>2, <2>1
       DEF DispatchTop, SelectRejections, SelectUnit, SelectNothing
  <2>2. CASE Wake \/ BatchReturns \/ BatchFails \/ BarrierReturns
    BY <1>2, <2>2 DEF Wake, BatchReturns, BatchFails, BarrierReturns
  <2>3. CASE UnitRaises \/ FinishEnds
    BY <1>2, <2>3 DEF UnitRaises, FinishEnds
  <2>4. ASSUME NEW w \in Model \X Seqs \X {"ok", "error"}, FinishRequest(w)
        PROVE  SlotFacts'
    <3>1. /\ w[1] \in Model /\ closing = {}
          /\ UNCHANGED <<born, slot, freeSlots, initialized, adapter>>
          /\ BeginClose(w[1]) \/ UNCHANGED <<open, closing>>
      BY <2>4 DEF FinishRequest
    <3> QED BY <1>2, <1>3, <3>1
  <2> QED BY <1>10, <2>1, <2>2, <2>3, <2>4 DEF DispatcherNext
<1>11. CASE UNCHANGED vars
  BY <1>2, <1>11 DEF vars
<1> QED BY <1>5, <1>7, <1>8, <1>9, <1>10, <1>11 DEF Next, Halted

----------------------------------------------------------------------------
(***************************************************************************)
(* The inductive invariant: types, the lock discipline and the slots need  *)
(* each other.  A slot stays with its model because only the holder of the *)
(* trainer lock closes models, and the lock is released by its holder.     *)
(***************************************************************************)
THEOREM SlotsInvariant == Spec => []SlotInv
<1>1. Init => SlotInv
  <2> SUFFICES ASSUME Init PROVE SlotInv
    OBVIOUS
  <2>1. TypeOK
    BY InitType
  <2>2. TrainerLockHeld /\ LoadsOnce /\ SlotsAreFresh /\ SlotExclusive
        /\ FreeSlotsAreClean
    BY DEF Init, TrainerLockHeld, LoadsOnce, SlotsAreFresh, SlotExclusive,
           FreeSlotsAreClean
  <2> QED BY <2>1, <2>2 DEF SlotInv
<1>2. SlotInv /\ [Next]_vars => SlotInv'
  BY TypeInductive, LockInductive, LoadsInductive, SlotsInductive
     DEF SlotInv, SlotFacts
<1> QED BY <1>1, <1>2, PTL DEF Spec

\* Every state of the gateway is well-formed.
THEOREM TypeCorrectness == Spec => []TypeOK
<1>1. SlotInv => TypeOK
  BY DEF SlotInv
<1> QED BY <1>1, SlotsInvariant, PTL

\* No slot ever belongs to two models (create_model, _close_model).
THEOREM SlotsAreExclusive == Spec => []SlotExclusive
<1>1. SlotInv => SlotExclusive
  BY DEF SlotInv
<1> QED BY <1>1, SlotsInvariant, PTL

\* No model is given a slot in which an adapter was left behind.
THEOREM FreeSlotsStayClean == Spec => []FreeSlotsAreClean
<1>1. SlotInv => FreeSlotsAreClean
  BY DEF SlotInv
<1> QED BY <1>1, SlotsInvariant, PTL

----------------------------------------------------------------------------
(* The gateway implements the slot pool *)

\* A step that moves no slot is a stuttering step of the pool.
LEMMA PoolStutters ==
    ASSUME open' \cup closing' = open \cup closing,
           UNCHANGED <<slot, freeSlots, born>>
    PROVE  UNCHANGED Pool!slotVars
<1>1. Tenant' = Tenant
  BY DEF Tenant, Slots
<1> QED BY <1>1 DEF Pool!slotVars

\* The slot of a model that is open or closing has this one tenant.
LEMMA OneTenant ==
    ASSUME SlotInv, NEW m \in open \cup closing
    PROVE  slot[m] \in Slots /\ Tenant[slot[m]] = {m}
<1>1. m \in Model /\ slot[m] \in Slots
  BY DEF SlotInv, TypeOK
<1>2. \A n \in open \cup closing : slot[n] = slot[m] => n = m
  BY DEF SlotInv, SlotExclusive
<1> QED BY <1>1, <1>2 DEF Tenant

\* When a closing model goes, its slot has no tenant any more.
LEMMA TenantLeaves ==
    ASSUME SlotInv, NEW m \in Model, closing = {m}, closing' = {},
           UNCHANGED <<open, slot>>
    PROVE  Tenant' = [Tenant EXCEPT ![slot[m]] = {}]
<1>1. slot \in [Model -> Slots] /\ m \notin open
  BY DEF SlotInv, TypeOK, SlotsAreFresh
<1>2. \A n \in open : slot[n] # slot[m]
  BY <1>1 DEF SlotInv, SlotExclusive
<1>3. ASSUME NEW k \in Slots
      PROVE  {n \in open' \cup closing' : slot'[n] = k} =
                 IF k = slot[m] THEN {}
                 ELSE {n \in open \cup closing : slot[n] = k}
  BY <1>2
<1> QED BY <1>1, <1>3 DEF Tenant, Slots

LEMMA PoolStep == SlotInv /\ [Next]_vars => [Pool!Next]_(Pool!slotVars)
<1> SUFFICES ASSUME SlotInv, [Next]_vars PROVE [Pool!Next]_(Pool!slotVars)
  OBVIOUS
<1> USE DEF clientVars, recordVars, modelVars, queueVars,
            dispatchVars, taskVars, faultVars, trainerVars
<1>1. ASSUME UNCHANGED <<open, closing, slot, freeSlots, born>>
      PROVE  [Pool!Next]_(Pool!slotVars)
  BY <1>1, PoolStutters
<1>2. ASSUME NEW m \in Model, BeginClose(m), closing = {},
             UNCHANGED <<slot, freeSlots, born>>
      PROVE  [Pool!Next]_(Pool!slotVars)
  BY <1>2, BeginCloseMoves, PoolStutters
<1>3. ASSUME NEW ses \in Session, NEW k \in ModelSeqs, NEW m \in Model,
             CreateModel(ses, k, m)
      PROVE  Pool!Next
  <2>0. /\ slot \in [Model -> Slots] /\ freeSlots \subseteq Slots
        /\ open \subseteq Model /\ closing \subseteq Model
    BY DEF SlotInv, TypeOK
  <2>1. PICK j \in freeSlots : /\ slot' = [slot EXCEPT ![m] = j]
                               /\ freeSlots' = freeSlots \ {j}
    BY <1>3 DEF CreateModel, TakeSlot
  <2>2. /\ m \notin born /\ born' = born \cup {m} /\ open' = open \cup {m}
        /\ closing' = closing
    BY <1>3 DEF CreateModel
  <2>3. m \notin open \cup closing
    BY <2>2 DEF SlotInv, SlotsAreFresh
  <2>4. \A n \in open \cup closing : slot[n] # j /\ slot'[n] = slot[n]
    BY <2>0, <2>1, <2>3 DEF SlotInv, SlotExclusive
  <2>5. Tenant[j] = {}
    BY <2>0, <2>4 DEF Tenant
  <2>6. Tenant' = [Tenant EXCEPT ![j] = {m}]
    <3>1. ASSUME NEW i \in Slots
          PROVE  {n \in open' \cup closing' : slot'[n] = i} =
                     IF i = j THEN {m}
                     ELSE {n \in open \cup closing : slot[n] = i}
      BY <2>0, <2>1, <2>2, <2>3, <2>4
    <3> QED BY <2>0, <3>1 DEF Tenant, Slots
  <2>7. Pool!Lease(m, j)
    BY <2>1, <2>2, <2>5, <2>6 DEF Pool!Lease
  <2> QED BY <2>0, <2>7 DEF Pool!Next
<1>4. ASSUME NEW m \in Model,
             CloseOnDeadTrainer(m) \/ CloseAndLeakSlot(m) \/ CloseRaises(m)
      PROVE  Pool!Next
  <2>1. /\ closing = {m} /\ closing' = {}
        /\ UNCHANGED <<open, slot, freeSlots, born>>
    BY <1>4 DEF CloseOnDeadTrainer, CloseAndLeakSlot, CloseRaises,
                PoolAfterFailedUnload
  <2>2. Pool!Lose(m, slot[m])
    BY <2>1, OneTenant, TenantLeaves DEF Pool!Lose
  <2>3. slot[m] \in Slots
    BY <2>1, OneTenant
  <2> QED BY <2>2, <2>3 DEF Pool!Next
<1>5. ASSUME NEW m \in Model, CloseAndFreeSlot(m) PROVE Pool!Next
  <2>1. /\ closing = {m} /\ closing' = {}
        /\ freeSlots' = freeSlots \cup {slot[m]}
        /\ UNCHANGED <<open, slot, born>>
    BY <1>5 DEF CloseAndFreeSlot
  <2>2. Pool!GiveBack(m, slot[m])
    BY <2>1, OneTenant, TenantLeaves DEF Pool!GiveBack
  <2>3. slot[m] \in Slots
    BY <2>1, OneTenant
  <2> QED BY <2>2, <2>3 DEF Pool!Next
<1>6. CASE ClientNext
  <2>1. ASSUME NEW ses \in Session,
               \/ CreateSession(ses) \/ LeaseLapses(ses) \/ Heartbeat(ses)
               \/ \E k \in ModelSeqs, m \in Model : RetryCreateModel(ses, k, m)
        PROVE  [Pool!Next]_(Pool!slotVars)
    BY <1>1, <2>1
       DEF CreateSession, LeaseLapses, Heartbeat, RetryCreateModel
  <2>2. ASSUME NEW m \in Model, NEW s \in Seqs,
               RetrySubmit(m, s) \/ \E c \in Offers[m][s] : Submit(m, s, c)
        PROVE  [Pool!Next]_(Pool!slotVars)
    BY <1>1, <2>2 DEF RetrySubmit, Submit
  <2>3. ASSUME NEW m \in Model, NEW s \in 0..MaxSeq, SweepFuture(m, s)
        PROVE  [Pool!Next]_(Pool!slotVars)
    BY <1>1, <2>3 DEF SweepFuture
  <2> QED BY <1>3, <1>6, <2>1, <2>2, <2>3 DEF ClientNext
<1>7. ASSUME NEW m \in Model, CreatorNext(m)
      PROVE  [Pool!Next]_(Pool!slotVars)
  <2>1. CASE CheckRecord(m) \/ AdapterLoadRaises(m) \/ FailedCreateEnds(m)
             \/ AdapterLoaded(m)
    BY <1>1, <2>1
       DEF CheckRecord, AdapterLoadRaises, FailedCreateEnds, AdapterLoaded
  <2>2. CASE AdapterLoadFails(m)
    <3>1. closing = {}
      BY <2>2, LoadingExcludesClosing DEF AdapterLoadFails, SlotInv
    <3> QED BY <1>2, <2>2, <3>1 DEF AdapterLoadFails
  <2> QED BY <1>7, <2>1, <2>2 DEF CreatorNext
<1>8. CASE SweeperNext
  <2>1. CASE SweeperWakes \/ ExpireSessions \/ SweepEnds
    BY <1>1, <2>1 DEF SweeperWakes, ExpireSessions, SweepEnds
  <2>2. ASSUME NEW m \in Model, ExpireModel(m)
        PROVE  [Pool!Next]_(Pool!slotVars)
    BY <1>2, <2>2 DEF ExpireModel
  <2> QED BY <1>8, <2>1, <2>2 DEF SweeperNext
<1>9. CASE DispatcherNext
  <2>1. CASE DispatchTop \/ SelectRejections \/ SelectUnit \/ SelectNothing
    BY <1>1, <2>1
       DEF DispatchTop, SelectRejections, SelectUnit, SelectNothing
  <2>2. CASE Wake \/ BatchReturns \/ BatchFails \/ BarrierReturns
    BY <1>1, <2>2 DEF Wake, BatchReturns, BatchFails, BarrierReturns
  <2>3. CASE UnitRaises \/ FinishEnds
    BY <1>1, <2>3 DEF UnitRaises, FinishEnds
  <2>4. ASSUME NEW w \in Model \X Seqs \X {"ok", "error"}, FinishRequest(w)
        PROVE  [Pool!Next]_(Pool!slotVars)
    <3>1. /\ w[1] \in Model /\ closing = {}
          /\ UNCHANGED <<born, slot, freeSlots>>
          /\ BeginClose(w[1]) \/ UNCHANGED <<open, closing>>
      BY <2>4 DEF FinishRequest
    <3> QED BY <1>1, <1>2, <3>1
  <2> QED BY <1>9, <2>1, <2>2, <2>3, <2>4 DEF DispatcherNext
<1>10. CASE UNCHANGED vars
  BY <1>1, <1>10 DEF vars
<1> QED BY <1>4, <1>5, <1>6, <1>7, <1>8, <1>9, <1>10
        DEF Next, CloseNext, Halted

(***************************************************************************)
(* What clients may rely on: whatever the tasks of the gateway do between  *)
(* the awaits of one another, slots go from the pool to one model, once,   *)
(* and from it back to the pool or nowhere (create_model, _close_model).   *)
(***************************************************************************)
THEOREM GatewayImplementsSlotPool == Spec => ImplementsSlotPool
<1>1. Init => Pool!Init
  <2> SUFFICES ASSUME Init PROVE Pool!Init
    OBVIOUS
  <2>1. freeSlots = Slots /\ born = {} /\ open \cup closing = {}
    BY DEF Init
  <2>2. Tenant = [k \in Slots |-> {}]
    BY <2>1 DEF Tenant
  <2> QED BY <2>1, <2>2 DEF Pool!Init
<1>2. SlotInv /\ [Next]_vars => [Pool!Next]_(Pool!slotVars)
  BY PoolStep
<1> QED BY <1>1, <1>2, SlotsInvariant, PTL
        DEF Spec, ImplementsSlotPool, Pool!Spec

----------------------------------------------------------------------------
(* The command queues *)

\* What the types say of the variables the command queues are made of.
LEMMA CommandTypes ==
    ASSUME TypeOK
    PROVE  /\ born \subseteq Model /\ open \subseteq Model /\ spoiled \subseteq Model
           /\ accepted \in [Model -> SUBSET Seqs]
           /\ waiting \in [Model -> SUBSET Seqs] /\ queued \in [Model -> SUBSET Seqs]
           /\ last \in [Model -> 0..MaxSeq]
           /\ req \in [Model -> [Seqs -> Request]]
           /\ fut \in [Model -> [0..MaxSeq -> {"none", "pending", "swept"} \cup Settled]]
           /\ ran \in [Model -> [Seqs -> SUBSET (1..MaxDatums)]]
           /\ unit \subseteq Datum /\ todo \subseteq Model \X Seqs \X {"ok", "error"}
           /\ MaxSeq \in Nat \ {0} /\ Seqs \subseteq 0..MaxSeq /\ 0 \in 0..MaxSeq /\ 0 \notin Seqs
BY SchedulerAssumption DEF TypeOK, Seqs

\* A step that changes nothing about commands.
LEMMA CommandsStay ==
    ASSUME CommandInv,
           UNCHANGED <<born, open, accepted, waiting, last, queued, req, fut, ran, spoiled, unit, todo>>,
           dispatcher' = dispatcher \/ (unit = {} /\ todo = {})
    PROVE  CommandInv'
<1>1. UnsentIsUnknown' /\ QueuesAreContiguous'
  BY DEF CommandInv, UnsentIsUnknown, QueuesAreContiguous
<1>2. UnitStaysReady'
  BY DEF CommandInv, UnitStaysReady
<1>3. OutcomesAreDue'
  BY DEF CommandInv, OutcomesAreDue
<1>4. DatumsAreCounted' /\ PendingIsQueued' /\ DoneMeansExecuted'
  BY DEF CommandInv, DatumsAreCounted, Unfinished, PendingIsQueued, Pending, DoneMeansExecuted
<1> QED BY <1>1, <1>2, <1>3, <1>4 DEF CommandInv

\* A step that changes futures only, none of which is that of an unknown or
\* of an unfinished command.
LEMMA FuturesMove ==
    ASSUME TypeOK, CommandInv,
           UNCHANGED <<born, open, accepted, waiting, last, queued, req, ran, spoiled, unit, todo, dispatcher>>,
           \A m \in Model, s \in Seqs :
              \/ fut'[m][s] = fut[m][s]
              \/ fut[m][s] \notin {"none", "pending"} /\ fut'[m][s] \notin {"none", "pending", "done"},
           \A m \in Model :
              \/ fut'[m][0] = fut[m][0]
              \/ m \in born /\ (m \in open \/ fut'[m][0] # "pending")
    PROVE  CommandInv'
<1>1. UnsentIsUnknown' /\ QueuesAreContiguous'
  BY DEF CommandInv, UnsentIsUnknown, QueuesAreContiguous
<1>2. UnitStaysReady' /\ OutcomesAreDue'
  BY DEF CommandInv, UnitStaysReady, OutcomesAreDue
<1>3. DatumsAreCounted'
  BY DEF CommandInv, DatumsAreCounted, Unfinished
<1>4. PendingIsQueued'
  BY DEF CommandInv, PendingIsQueued, Pending
<1>5. DoneMeansExecuted'
  BY DEF CommandInv, DoneMeansExecuted
<1> QED BY <1>1, <1>2, <1>3, <1>4, <1>5 DEF CommandInv

\* A new model has no commands.
LEMMA CreateKeepsCommands ==
    ASSUME SlotInv, CommandInv, NEW ses \in Session, NEW k \in ModelSeqs, NEW m \in Model,
           CreateModel(ses, k, m)
    PROVE  CommandInv'
<1>1. /\ m \notin born /\ born' = born \cup {m} /\ open' = open \cup {m}
      /\ fut' = [fut EXCEPT ![m][0] = "pending"]
      /\ UNCHANGED <<accepted, waiting, last, queued, req, ran, spoiled, unit, todo, dispatcher>>
  BY DEF CreateModel, queueVars, dispatchVars, trainerVars
<1>2. m \notin open /\ TypeOK /\ m \notin spoiled
  BY <1>1 DEF SlotInv, SlotsAreFresh, CommandInv, OutcomesAreDue
<1>3. /\ \A n \in Model, s \in Seqs : fut'[n][s] = fut[n][s]
      /\ fut'[m][0] = "pending" /\ \A n \in Model : n # m => fut'[n][0] = fut[n][0]
  BY <1>1, <1>2, CommandTypes
<1>4. accepted[m] = {} /\ last[m] = 0 /\ queued[m] = {} /\ waiting[m] = {}
  BY <1>1, <1>2 DEF CommandInv, UnsentIsUnknown, QueuesAreContiguous
<1>5. UnsentIsUnknown'
  BY <1>1, <1>3, <1>4 DEF CommandInv, UnsentIsUnknown
<1>6. QueuesAreContiguous'
  BY <1>1, <1>4 DEF CommandInv, QueuesAreContiguous
<1>7. UnitStaysReady'
  BY <1>1 DEF CommandInv, UnitStaysReady
<1>8. OutcomesAreDue'
  <2>1. \A w \in todo : w[1] \in open' => w[1] \in open
    <3>1. \A w \in todo : w[1] \in born
      BY DEF CommandInv, OutcomesAreDue
    <3> QED BY <1>1, <3>1
  <2> QED BY <1>1, <1>2, <2>1 DEF CommandInv, OutcomesAreDue
<1>9. DatumsAreCounted'
  BY <1>1 DEF CommandInv, DatumsAreCounted, Unfinished
<1>10. PendingIsQueued'
  BY <1>1, <1>3 DEF CommandInv, PendingIsQueued, Pending
<1>11. DoneMeansExecuted'
  BY <1>1, <1>3 DEF CommandInv, DoneMeansExecuted
<1> QED BY <1>5, <1>6, <1>7, <1>8, <1>9, <1>10, <1>11 DEF CommandInv

\* The answers to the other requests of clients, and the TTL of futures.
LEMMA RetriesKeepCommands ==
    ASSUME TypeOK, CommandInv,
           \/ \E ses \in Session, k \in ModelSeqs, m \in Model : RetryCreateModel(ses, k, m)
           \/ \E m \in Model, s \in Seqs : RetrySubmit(m, s)
           \/ \E m \in Model, s \in 0..MaxSeq : SweepFuture(m, s)
    PROVE  CommandInv'
<1>1. PICK m \in Model, s \in 0..MaxSeq, v \in {"expired", "swept"} :
         /\ fut[m][s] \in Settled \cup {"swept"}
         /\ fut' = [fut EXCEPT ![m][s] = v]
         /\ UNCHANGED <<born, open, accepted, waiting, last, queued, req, ran, spoiled, unit, todo, dispatcher>>
  BY CommandTypes
     DEF RetryCreateModel, RetrySubmit, SweepFuture, clientVars, recordVars, modelVars, queueVars,
         dispatchVars, taskVars, faultVars, trainerVars
<1>2. fut[m][s] \notin {"none", "pending"}
  BY <1>1 DEF Settled
<1>3. \A n \in Model, t \in 0..MaxSeq : fut'[n][t] = IF n = m /\ t = s THEN v ELSE fut[n][t]
  BY <1>1, CommandTypes
<1>4. s = 0 => m \in born
  BY <1>2 DEF CommandInv, UnsentIsUnknown
<1>5. \A n \in Model, t \in Seqs :
         \/ fut'[n][t] = fut[n][t]
         \/ fut[n][t] \notin {"none", "pending"} /\ fut'[n][t] \notin {"none", "pending", "done"}
  BY <1>2, <1>3, CommandTypes
<1>6. \A n \in Model : \/ fut'[n][0] = fut[n][0]
                       \/ n \in born /\ (n \in open \/ fut'[n][0] # "pending")
  BY <1>3, <1>4, CommandTypes
<1> QED BY <1>1, <1>5, <1>6, FuturesMove

\* A command stays ready when later ones are queued.
LEMMA ReadyStays ==
    ASSUME NEW q \in SUBSET Seqs, NEW p \in SUBSET Seqs, NEW r, NEW z, NEW s \in q,
           q \subseteq p, \A t \in p \ q : t > s,
           \A t \in q : z[t].op = r[t].op /\ z[t].invalid = r[t].invalid
    PROVE  /\ s \in OpenBatchRun(q, r) => s \in OpenBatchRun(p, z)
           /\ s \in ReadyBarrier(q, r) => s \in ReadyBarrier(p, z)
<1>1. \A t \in p : t <= s => t \in q
  BY DEF Seqs
<1>2. \A t \in p : t \notin q => s <= t
  BY DEF Seqs
<1> QED BY <1>1, <1>2 DEF OpenBatchRun, ReadyBarrier, IsHead

\* A new command is queued or waits.
LEMMA SubmitKeepsCommands ==
    ASSUME SlotInv, CommandInv, NEW m \in Model, NEW s \in Seqs, NEW c \in Offers[m][s], Submit(m, s, c)
    PROVE  CommandInv'
<1> DEFINE w == waiting[m] \cup {s}
           n == LastContiguous(last[m], w)
<1>1. /\ m \in open /\ s \notin accepted[m]
      /\ accepted' = [accepted EXCEPT ![m] = @ \cup {s}]
      /\ fut' = [fut EXCEPT ![m][s] = "pending"]
      /\ req' = [req EXCEPT ![m][s] = NewRequest(c, arrivals + 1)]
      /\ last' = [last EXCEPT ![m] = n]
      /\ waiting' = [waiting EXCEPT ![m] = w \ (last[m] + 1)..n]
      /\ queued' = [queued EXCEPT ![m] = @ \cup (w \cap (last[m] + 1)..n)]
      /\ UNCHANGED <<born, open, ran, spoiled, unit, todo, dispatcher>>
  BY DEF Submit, IsRetry, recordVars, trainerVars
<1>2. TypeOK /\ w \in SUBSET Seqs /\ last[m] \in 0..MaxSeq
  BY CommandTypes DEF SlotInv
<1>3. n \in last[m]..MaxSeq /\ (last[m] + 1)..n \subseteq w
  BY <1>2, LastContiguousTakes
<1>4. /\ last'[m] = n /\ waiting'[m] = w \ (last[m] + 1)..n
      /\ queued'[m] = queued[m] \cup (w \cap (last[m] + 1)..n)
      /\ accepted'[m] = accepted[m] \cup {s} /\ fut'[m][s] = "pending"
      /\ req'[m][s] = NewRequest(c, arrivals + 1)
  <2> HIDE DEF n, w
  <2> QED BY <1>1, <1>2, CommandTypes
<1>5. /\ \A k \in Model : k # m => /\ last'[k] = last[k] /\ waiting'[k] = waiting[k] /\ queued'[k] = queued[k]
                                   /\ accepted'[k] = accepted[k] /\ fut'[k] = fut[k] /\ req'[k] = req[k]
      /\ \A t \in 0..MaxSeq : t # s => fut'[m][t] = fut[m][t]
      /\ \A t \in Seqs : t # s => req'[m][t] = req[m][t]
  <2> HIDE DEF n, w
  <2> QED BY <1>1, <1>2, CommandTypes
<1> HIDE DEF n
<1>6. /\ queued[m] \subseteq accepted[m] \cap 1..last[m] /\ waiting[m] = accepted[m] \ 1..last[m]
      /\ 1..last[m] \subseteq accepted[m] /\ last[m] \in Nat /\ n \in Nat /\ last[m] <= n /\ s \notin 1..last[m]
      /\ accepted[m] \in SUBSET Seqs
  <2>1. MaxSeq \in Nat
    BY SchedulerAssumption
  <2>2. accepted[m] \in SUBSET Seqs
    BY <1>2, CommandTypes
  <2> QED BY <1>1, <1>2, <1>3, <2>1, <2>2 DEF CommandInv, QueuesAreContiguous
<1>7. /\ queued'[m] \cup waiting'[m] = queued[m] \cup waiting[m] \cup {s}
      /\ queued'[m] \subseteq accepted'[m] \cap 1..n
      /\ waiting'[m] = accepted'[m] \ 1..n
      /\ 1..n \subseteq accepted'[m]
      /\ \A t \in queued'[m] \ queued[m] : t > last[m]
  <2>1. \A t \in 1..n : t \in 1..last[m] \/ t \in (last[m] + 1)..n
    BY <1>6
  <2>2. \A t \in (last[m] + 1)..n : t \in 1..n /\ t > last[m] /\ t \notin 1..last[m]
    BY <1>6
  <2>3. \A t \in 1..last[m] : t \in 1..n
    BY <1>6
  <2>4. (last[m] + 1)..n \subseteq w /\ w = (accepted[m] \cup {s}) \ 1..last[m]
    BY <1>3, <1>6
  <2> QED BY <1>4, <1>6, <2>1, <2>2, <2>3, <2>4
<1>8. UnsentIsUnknown'
  <2>1. \A k \in Model, t \in Seqs : (k = m /\ t = s) \/ fut'[k][t] = fut[k][t]
    BY <1>5, CommandTypes, <1>2
  <2>2. m \in born /\ \A k \in Model : fut'[k][0] = fut[k][0]
    BY <1>1, <1>2, <1>5, CommandTypes DEF SlotInv, SlotsAreFresh
  <2> QED BY <1>1, <1>4, <1>5, <2>1, <2>2 DEF CommandInv, UnsentIsUnknown
<1>9. QueuesAreContiguous'
  BY <1>1, <1>4, <1>5, <1>7 DEF CommandInv, QueuesAreContiguous
<1>10. \A k \in Model : \A t \in accepted[k] : req'[k][t] = req[k][t]
  BY <1>1, <1>2, <1>5, CommandTypes
<1>11. \A k \in Model : queued[k] \subseteq queued'[k] /\ queued[k] \subseteq accepted[k] /\ queued[k] \subseteq Seqs
  BY <1>2, <1>4, <1>5, CommandTypes DEF CommandInv, QueuesAreContiguous
<1>12. \A d \in unit : d[1] \in Model /\ d[1] \in open /\ d[2] \in queued[d[1]] /\ d[2] \in accepted[d[1]]
  <2>1. \A d \in unit : d[1] \in Model /\ d[1] \in open
    BY <1>2, CommandTypes DEF CommandInv, UnitStaysReady
  <2>2. \A d \in unit : d[2] \in queued[d[1]]
    BY DEF CommandInv, UnitStaysReady, OpenBatchRun, ReadyBarrier
  <2> QED BY <1>11, <2>1, <2>2
<1>13. UnitStaysReady'
  <2> SUFFICES ASSUME NEW d \in unit
               PROVE  IF IsBatch(req[d[1]][d[2]].op)
                      THEN d[2] \in OpenBatchRun(queued'[d[1]], req'[d[1]])
                      ELSE d[2] \in ReadyBarrier(queued'[d[1]], req'[d[1]]) /\ d[3] = 1
    <3>1. \A d \in unit : req'[d[1]][d[2]] = req[d[1]][d[2]]
      BY <1>10, <1>12
    <3>2. \A d, e \in unit : req'[d[1]][d[2]].op = req'[e[1]][e[2]].op
      BY <3>1 DEF CommandInv, UnitStaysReady
    <3>3. (unit # {} => dispatcher = "unit") /\ \A d \in unit : d[1] \in open \ spoiled
      BY DEF CommandInv, UnitStaysReady
    <3> QED BY <1>1, <3>1, <3>2, <3>3 DEF UnitStaysReady
  <2> DEFINE k == d[1]
             t == d[2]
  <2>1. k \in Model /\ t \in queued[k]
    BY <1>12
  <2>2. queued'[k] \in SUBSET Seqs
    <3>1. CASE k = m
      BY <1>4, <1>6, <1>7, <3>1
    <3>2. CASE k # m
      BY <1>2, <1>5, <2>1, <3>2, CommandTypes
    <3> QED BY <3>1, <3>2
  <2>3. \A v \in queued'[k] \ queued[k] : v > t
    <3>1. CASE k # m
      BY <1>5, <2>1, <3>1
    <3>2. CASE k = m
      <4>1. t \in Nat /\ t <= last[m]
        BY <1>6, <2>1, <3>2
      <4>2. \A v \in queued'[m] \ queued[m] : v > last[m] /\ v \in Nat
        BY <1>7, <2>2, <3>2 DEF Seqs
      <4> QED BY <1>6, <3>2, <4>1, <4>2
    <3> QED BY <3>1, <3>2
  <2>4. \A v \in queued[k] : req'[k][v].op = req[k][v].op /\ req'[k][v].invalid = req[k][v].invalid
    BY <1>10, <1>11, <2>1
  <2>5. /\ t \in OpenBatchRun(queued[k], req[k]) => t \in OpenBatchRun(queued'[k], req'[k])
        /\ t \in ReadyBarrier(queued[k], req[k]) => t \in ReadyBarrier(queued'[k], req'[k])
    <3>1. queued[k] \in SUBSET Seqs /\ queued[k] \subseteq queued'[k]
      BY <1>11, <2>1
    <3> HIDE DEF k, t
    <3> QED BY <2>1, <2>2, <2>3, <2>4, <3>1, ReadyStays
  <2> QED BY <2>5 DEF CommandInv, UnitStaysReady
<1>14. OutcomesAreDue'
  <2>1. \A v \in todo : v[1] \in open =>
           /\ v[2] \in queued[v[1]] /\ v[2] \in queued'[v[1]]
           /\ req'[v[1]][v[2]] = req[v[1]][v[2]]
    <3> SUFFICES ASSUME NEW v \in todo, v[1] \in open
                 PROVE  /\ v[2] \in queued[v[1]] /\ v[2] \in queued'[v[1]]
                        /\ req'[v[1]][v[2]] = req[v[1]][v[2]]
      OBVIOUS
    <3>1. v[1] \in Model /\ v[2] \in queued[v[1]]
      BY <1>2, CommandTypes DEF CommandInv, OutcomesAreDue
    <3> QED BY <1>10, <1>11, <3>1
  <2>2. \A k \in spoiled \cap open : \E t \in Seqs : <<k, t, "error">> \in todo /\ RetiresModel(req'[k][t].op)
    <3> SUFFICES ASSUME NEW k \in spoiled \cap open
                 PROVE  \E t \in Seqs : <<k, t, "error">> \in todo /\ RetiresModel(req'[k][t].op)
      OBVIOUS
    <3>1. PICK t \in Seqs : <<k, t, "error">> \in todo /\ RetiresModel(req[k][t].op)
      BY DEF CommandInv, OutcomesAreDue
    <3>2. req'[k][t] = req[k][t]
      BY <2>1, <3>1
    <3> QED BY <3>1, <3>2
  <2> QED BY <1>1, <2>1, <2>2 DEF CommandInv, OutcomesAreDue
<1>15. DatumsAreCounted'
  <2> SUFFICES ASSUME NEW k \in Model, NEW t \in Seqs, Unfinished(k, t)'
               PROVE  IF IsBatch(req'[k][t].op)
                      THEN /\ req'[k][t].issued <= Len(req'[k][t].costs)
                           /\ ran[k][t] \cup DatumsOf(unit, k, t) = 1..req'[k][t].issued
                           /\ ran[k][t] \cap DatumsOf(unit, k, t) = {}
                           /\ req'[k][t].remaining = Len(req'[k][t].costs) - Cardinality(ran[k][t])
                      ELSE <<k, t, "ok">> \in todo \/ ran[k][t] = {}
    BY <1>1 DEF DatumsAreCounted
  <2>1. CASE k = m /\ t = s
    <3>1. ran[m][s] = {}
      BY <1>1 DEF CommandInv, UnsentIsUnknown
    <3>2. DatumsOf(unit, m, s) = {}
      BY <1>1, <1>12 DEF DatumsOf
    <3>3. /\ req'[m][s].issued = 0 /\ req'[m][s].op = c.op
          /\ req'[m][s].costs = IF IsBatch(c.op) /\ ~c.invalid THEN c.costs ELSE << >>
          /\ req'[m][s].remaining = IF IsBatch(c.op) /\ ~c.invalid THEN Len(c.costs) ELSE 0
      BY <1>4 DEF NewRequest
    <3>4. c.costs \in Seq(Nat)
      BY GatewayAssumption DEF Command
    <3>5. Len(req'[m][s].costs) \in Nat /\ req'[m][s].remaining = Len(req'[m][s].costs)
      BY <3>3, <3>4
    <3>6. Cardinality({}) = 0
      BY FS_EmptySet
    <3> QED BY <2>1, <3>1, <3>2, <3>3, <3>5, <3>6
  <2>2. CASE ~(k = m /\ t = s)
    <3>1. Unfinished(k, t)
      BY <1>1, <1>5, <1>7, <2>2 DEF Unfinished
    <3>2. req'[k][t] = req[k][t]
      BY <1>5, <2>2
    <3> QED BY <3>1, <3>2 DEF CommandInv, DatumsAreCounted
  <2> QED BY <2>1, <2>2
<1>16. PendingIsQueued'
  <2>1. \A k \in Model, t \in Seqs : (k = m /\ t = s) \/ fut'[k][t] = fut[k][t]
    BY <1>5, CommandTypes, <1>2
  <2>2. \A k \in Model : fut'[k][0] = fut[k][0]
    BY <1>1, <1>2, <1>5, CommandTypes
  <2>3. \A k \in Model, t \in Seqs : Pending(k, t)' <=> t \in queued'[k] \cup waiting'[k]
    <3> SUFFICES ASSUME NEW k \in Model, NEW t \in Seqs
                 PROVE  Pending(k, t)' <=> t \in queued'[k] \cup waiting'[k]
      OBVIOUS
    <3>1. Pending(k, t) <=> t \in queued[k] \cup waiting[k]
      BY DEF CommandInv, PendingIsQueued
    <3>2. CASE k # m
      BY <1>5, <3>1, <3>2 DEF Pending
    <3>3. CASE k = m /\ t # s
      BY <1>7, <2>1, <3>1, <3>3 DEF Pending
    <3>4. CASE k = m /\ t = s
      BY <1>4, <1>7, <3>4 DEF Pending
    <3> QED BY <3>2, <3>3, <3>4
  <2> QED BY <1>1, <2>2, <2>3 DEF CommandInv, PendingIsQueued, Pending
<1>17. DoneMeansExecuted'
  <2> SUFFICES ASSUME NEW k \in Model, NEW t \in Seqs, fut'[k][t] = "done"
               PROVE  ran[k][t] = IF IsBatch(req'[k][t].op) THEN 1..Len(req'[k][t].costs) ELSE {1}
    BY <1>1 DEF DoneMeansExecuted
  <2>1. ~(k = m /\ t = s)
    BY <1>4
  <2>2. fut[k][t] = "done" /\ req'[k][t] = req[k][t]
    BY <1>2, <1>5, <2>1, CommandTypes
  <2> QED BY <2>2 DEF CommandInv, DoneMeansExecuted
<1> QED BY <1>8, <1>9, <1>13, <1>14, <1>15, <1>16, <1>17 DEF CommandInv

\* Closing a model ends all its commands.
LEMMA CloseKeepsCommands ==
    ASSUME SlotInv, CommandInv, NEW m \in Model, BeginClose(m), unit = {},
           todo' \subseteq todo, \A v \in todo \ todo' : v[1] = m,
           UNCHANGED <<born, last, req, ran, spoiled, unit, dispatcher>>
    PROVE  CommandInv'
<1>1. TypeOK /\ open \subseteq born
  BY DEF SlotInv, SlotsAreFresh
<1>2. \A k \in Model : queued[k] \subseteq accepted[k] /\ waiting[k] \subseteq accepted[k]
  BY DEF CommandInv, QueuesAreContiguous
<1>3. /\ open' = open \ {m} /\ queued'[m] = {} /\ waiting'[m] = {} /\ accepted'[m] = {}
      /\ \A k \in Model : k # m => /\ queued'[k] = queued[k] /\ waiting'[k] = waiting[k]
                                   /\ accepted'[k] = accepted[k] /\ fut'[k] = fut[k]
      /\ \A s \in 0..MaxSeq : fut'[m][s] # "pending" /\ (fut'[m][s] # fut[m][s] => fut'[m][s] = "failed" /\ m \in open)
  <2>1. CASE m \notin open
    <3>1. UNCHANGED <<open, accepted, waiting, queued, fut>>
      BY <2>1 DEF BeginClose
    <3>2. accepted[m] = {}
      BY <2>1 DEF CommandInv, UnsentIsUnknown
    <3>3. \A s \in 0..MaxSeq : fut[m][s] # "pending"
      <4>1. \A s \in Seqs : ~Pending(m, s)
        BY <1>2, <3>2 DEF CommandInv, PendingIsQueued
      <4>2. ~Pending(m, 0)
        BY <2>1 DEF CommandInv, PendingIsQueued
      <4>3. \A s \in 0..MaxSeq : s = 0 \/ s \in Seqs
        BY SchedulerAssumption DEF Seqs
      <4> QED BY <4>1, <4>2, <4>3 DEF Pending
    <3> QED BY <1>2, <2>1, <3>1, <3>2, <3>3
  <2>2. CASE m \in open
    <3>1. /\ open' = open \ {m} /\ fut' = FailPending(m)
          /\ accepted' = [accepted EXCEPT ![m] = {}]
          /\ waiting' = [waiting EXCEPT ![m] = {}]
          /\ queued' = [queued EXCEPT ![m] = {}]
      BY <2>2 DEF BeginClose
    <3>2. /\ fut'[m] = [s \in 0..MaxSeq |-> IF s = 0 \/ s \in accepted[m] THEN Settle(fut[m][s], "failed")
                                            ELSE fut[m][s]]
          /\ \A k \in Model : k # m => fut'[k] = fut[k]
      BY <1>1, <3>1, CommandTypes DEF FailPending
    <3>3. \A s \in 0..MaxSeq : fut'[m][s] # "pending" /\ (fut'[m][s] # fut[m][s] => fut'[m][s] = "failed" /\ m \in open)
      <4> SUFFICES ASSUME NEW s \in 0..MaxSeq
                   PROVE  fut'[m][s] # "pending" /\ (fut'[m][s] # fut[m][s] => fut'[m][s] = "failed" /\ m \in open)
        OBVIOUS
      <4>1. fut[m][s] = "pending" => s = 0 \/ s \in accepted[m]
        <5>1. s = 0 \/ s \in Seqs
          BY SchedulerAssumption DEF Seqs
        <5> QED BY <1>2, <5>1 DEF CommandInv, PendingIsQueued, Pending
      <4> QED BY <2>2, <3>2, <4>1 DEF Settle
    <3> QED BY <1>1, <3>1, <3>2, <3>3, CommandTypes
  <2> QED BY <2>1, <2>2
<1>4. UnsentIsUnknown'
  <2>1. \A k \in Model : k \notin born => k # m \/ m \notin open
    BY <1>1
  <2>2. \A k \in Model : k \notin born => fut'[k][0] = fut[k][0] /\ \A s \in Seqs : fut'[k][s] = fut[k][s]
    BY <1>1, <1>3, <2>1, CommandTypes
  <2> QED BY <1>3, <2>2 DEF CommandInv, UnsentIsUnknown
<1>5. QueuesAreContiguous'
  BY <1>3 DEF CommandInv, QueuesAreContiguous
<1>6. UnitStaysReady'
  BY DEF UnitStaysReady
<1>7. OutcomesAreDue'
  <2>1. \A w \in todo' : w[1] \in open' => w \in todo /\ w[1] \in open /\ w[1] \in Model /\ w[1] # m
    BY <1>1, <1>3, CommandTypes
  <2>2. \A w \in todo' : w[1] \in open' => queued'[w[1]] = queued[w[1]]
    BY <1>3, <2>1
  <2>3. \A k \in spoiled \cap open' : \E t \in Seqs : <<k, t, "error">> \in todo' /\ RetiresModel(req[k][t].op)
    <3> SUFFICES ASSUME NEW k \in spoiled \cap open'
                 PROVE  \E t \in Seqs : <<k, t, "error">> \in todo' /\ RetiresModel(req[k][t].op)
      OBVIOUS
    <3>1. k \in spoiled \cap open /\ k # m
      BY <1>3
    <3>2. PICK t \in Seqs : <<k, t, "error">> \in todo /\ RetiresModel(req[k][t].op)
      BY <3>1 DEF CommandInv, OutcomesAreDue
    <3>3. <<k, t, "error">> \in todo'
      BY <3>1, <3>2
    <3> QED BY <3>2, <3>3
  <2> QED BY <2>1, <2>2, <2>3 DEF CommandInv, OutcomesAreDue
<1>8. DatumsAreCounted'
  <2> SUFFICES ASSUME NEW k \in Model, NEW t \in Seqs, Unfinished(k, t)'
               PROVE  Unfinished(k, t) /\ (<<k, t, "ok">> \in todo => <<k, t, "ok">> \in todo')
    BY DEF CommandInv, DatumsAreCounted, DatumsOf
  <2>1. k # m
    BY <1>3 DEF Unfinished
  <2> QED BY <1>3, <2>1 DEF Unfinished
<1>9. PendingIsQueued'
  <2> SUFFICES ASSUME NEW k \in Model
               PROVE  /\ \A s \in Seqs : Pending(k, s)' <=> s \in queued'[k] \cup waiting'[k]
                      /\ k \notin open' => ~Pending(k, 0)'
    BY DEF PendingIsQueued
  <2>1. CASE k = m
    BY <1>1, <1>3, <2>1, CommandTypes DEF Pending
  <2>2. CASE k # m
    BY <1>3, <2>2 DEF CommandInv, PendingIsQueued, Pending
  <2> QED BY <2>1, <2>2
<1>10. DoneMeansExecuted'
  <2>1. \A k \in Model, s \in Seqs : fut'[k][s] = "done" => fut[k][s] = "done"
    BY <1>1, <1>3, CommandTypes
  <2> QED BY <2>1 DEF CommandInv, DoneMeansExecuted
<1> QED BY <1>4, <1>5, <1>6, <1>7, <1>8, <1>9, <1>10 DEF CommandInv

\* An outcome settles the future of its command, or closes the model.
LEMMA FinishKeepsCommands ==
    ASSUME SlotInv, CommandInv, NEW w \in Model \X Seqs \X {"ok", "error"}, FinishRequest(w)
    PROVE  CommandInv'
<1> DEFINE m == w[1]
           s == w[2]
<1>1. /\ w \in todo /\ todo' = todo \ {w} /\ dispatcher \in {"finish", "reject"}
      /\ UNCHANGED <<born, last, req, ran, spoiled, unit, dispatcher>>
      /\ m \in Model /\ s \in Seqs /\ s \in 0..MaxSeq /\ s # 0
      /\ w = <<m, s, "ok">> \/ w = <<m, s, "error">>
  <2>1. m \in Model /\ s \in Seqs /\ (w = <<m, s, "ok">> \/ w = <<m, s, "error">>)
    OBVIOUS
  <2>2. /\ w \in todo /\ todo' = todo \ {w} /\ dispatcher \in {"finish", "reject"}
        /\ UNCHANGED <<born, last, req, ran, spoiled, unit, dispatcher>>
    BY DEF FinishRequest, recordVars, trainerVars
  <2>3. s \in 0..MaxSeq /\ s # 0
    BY <2>1, SchedulerAssumption DEF Seqs
  <2> QED BY <2>1, <2>2, <2>3
<1>2. TypeOK /\ unit = {}
  BY <1>1 DEF SlotInv, CommandInv, UnitStaysReady
<1>3. CASE w[3] = "error" /\ RetiresModel(req[m][s].op)
  <2>1. BeginClose(m)
    BY <1>3 DEF FinishRequest
  <2>2. \A v \in todo \ todo' : v[1] = m
    BY <1>1
  <2> HIDE DEF m
  <2> QED BY <1>1, <1>2, <2>1, <2>2, CloseKeepsCommands
<1>4. CASE ~(w[3] = "error" /\ RetiresModel(req[m][s].op))
  <2> DEFINE v == Settle(fut[m][s], IF w[3] = "ok" THEN "done" ELSE "failed")
  <2>1. /\ fut' = [fut EXCEPT ![m][s] = v]
        /\ queued' = [queued EXCEPT ![m] = @ \ {s}]
        /\ UNCHANGED <<open, accepted, waiting>>
    BY <1>4 DEF FinishRequest
  <2>2. /\ \A k \in Model, t \in 0..MaxSeq : fut'[k][t] = IF k = m /\ t = s THEN v ELSE fut[k][t]
        /\ queued'[m] = queued[m] \ {s} /\ \A k \in Model : k # m => queued'[k] = queued[k]
    <3> HIDE DEF v, m, s
    <3> QED BY <1>1, <1>2, <2>1, CommandTypes
  <2>3. v # "pending" /\ (fut[m][s] # "pending" => v = fut[m][s]) /\ (v = "done" => fut[m][s] = "done" \/ w[3] = "ok")
    BY DEF Settle
  <2>4. \/ m \notin open /\ queued[m] = {} /\ waiting[m] = {} /\ fut[m][s] # "pending"
        \/ m \in open /\ s \in queued[m] /\ s \notin waiting[m] /\ fut[m][s] = "pending"
    <3>1. CASE m \notin open
      <4>1. queued[m] = {} /\ waiting[m] = {}
        BY <1>1, <3>1 DEF CommandInv, UnsentIsUnknown, QueuesAreContiguous
      <4> QED BY <1>1, <3>1, <4>1 DEF CommandInv, PendingIsQueued, Pending
    <3>2. CASE m \in open
      <4>1. s \in queued[m]
        BY <1>1, <3>2 DEF CommandInv, OutcomesAreDue
      <4> QED BY <1>1, <3>2, <4>1 DEF CommandInv, PendingIsQueued, Pending, QueuesAreContiguous
    <3> QED BY <3>1, <3>2
  <2>5. \A k \in Model, t \in Seqs : t \in queued'[k] \cup waiting'[k] <=>
             t \in queued[k] \cup waiting[k] /\ ~(k = m /\ t = s)
    BY <2>1, <2>2, <2>4
  <2> HIDE DEF v, m, s
  <2>6. UnsentIsUnknown'
    <3>1. \A k \in Model, t \in 0..MaxSeq : fut[k][t] = "none" => fut'[k][t] = "none"
      BY <2>2, <2>3
    <3> QED BY <1>1, <1>2, <2>1, <3>1, CommandTypes DEF CommandInv, UnsentIsUnknown
  <2>7. QueuesAreContiguous'
    BY <1>1, <2>1, <2>2 DEF CommandInv, QueuesAreContiguous
  <2>8. UnitStaysReady'
    BY <1>1, <1>2 DEF UnitStaysReady
  <2>9. OutcomesAreDue'
    <3>1. \A x \in todo' : x[1] \in open => x \in todo /\ x[2] \in queued'[x[1]]
      <4> SUFFICES ASSUME NEW x \in todo', x[1] \in open PROVE x \in todo /\ x[2] \in queued'[x[1]]
        OBVIOUS
      <4>1. x \in todo /\ x # w /\ x[1] \in Model /\ x[2] \in queued[x[1]]
        BY <1>1, <1>2, CommandTypes DEF CommandInv, OutcomesAreDue
      <4>2. ~(x[1] = m /\ x[2] = s)
        BY <1>1, <4>1 DEF CommandInv, OutcomesAreDue, m, s
      <4> QED BY <2>2, <4>1, <4>2
    <3>2. \A k \in spoiled \cap open : \E t \in Seqs : <<k, t, "error">> \in todo' /\ RetiresModel(req[k][t].op)
      <4> SUFFICES ASSUME NEW k \in spoiled \cap open
                   PROVE  \E t \in Seqs : <<k, t, "error">> \in todo' /\ RetiresModel(req[k][t].op)
        OBVIOUS
      <4>1. PICK t \in Seqs : <<k, t, "error">> \in todo /\ RetiresModel(req[k][t].op)
        BY DEF CommandInv, OutcomesAreDue
      <4>2. <<k, t, "error">> # w
        BY <1>4, <4>1 DEF m, s
      <4> QED BY <1>1, <4>1, <4>2
    <3> QED BY <1>1, <2>1, <3>1, <3>2 DEF CommandInv, OutcomesAreDue
  <2>10. DatumsAreCounted'
    <3> SUFFICES ASSUME NEW k \in Model, NEW t \in Seqs, Unfinished(k, t)'
                 PROVE  Unfinished(k, t) /\ (<<k, t, "ok">> \in todo => <<k, t, "ok">> \in todo')
      BY <1>1 DEF CommandInv, DatumsAreCounted, DatumsOf
    <3>1. t \in queued[k] \cup waiting[k] /\ ~(k = m /\ t = s)
      BY <2>5 DEF Unfinished
    <3>2. <<k, t, "error">> # w /\ <<k, t, "ok">> # w
      BY <1>1, <3>1
    <3> QED BY <1>1, <3>1, <3>2 DEF Unfinished
  <2>11. PendingIsQueued'
    <3>1. \A k \in Model, t \in Seqs : Pending(k, t)' <=> t \in queued'[k] \cup waiting'[k]
      <4> SUFFICES ASSUME NEW k \in Model, NEW t \in Seqs
                   PROVE  Pending(k, t)' <=> t \in queued'[k] \cup waiting'[k]
        OBVIOUS
      <4>1. Pending(k, t)' <=> Pending(k, t) /\ ~(k = m /\ t = s)
        BY <1>2, <2>2, <2>3, CommandTypes DEF Pending
      <4> QED BY <2>5, <4>1 DEF CommandInv, PendingIsQueued
    <3>2. \A k \in Model : fut'[k][0] = fut[k][0]
      BY <1>1, <1>2, <2>2, CommandTypes
    <3> QED BY <2>1, <3>1, <3>2 DEF CommandInv, PendingIsQueued, Pending
  <2>12. DoneMeansExecuted'
    <3> SUFFICES ASSUME NEW k \in Model, NEW t \in Seqs, fut'[k][t] = "done"
                 PROVE  ran[k][t] = IF IsBatch(req[k][t].op) THEN 1..Len(req[k][t].costs) ELSE {1}
      BY <1>1 DEF DoneMeansExecuted
    <3>1. CASE fut[k][t] = "done"
      BY <3>1 DEF CommandInv, DoneMeansExecuted
    <3>2. CASE fut[k][t] # "done"
      <4>1. k = m /\ t = s /\ v = "done"
        BY <1>2, <2>2, <3>2, CommandTypes
      <4>2. m \in open /\ w[3] = "ok"
        BY <2>3, <2>4, <3>2, <4>1
      <4> QED BY <1>1, <4>1, <4>2 DEF CommandInv, OutcomesAreDue, m, s
    <3> QED BY <3>1, <3>2
  <2> QED BY <2>6, <2>7, <2>8, <2>9, <2>10, <2>11, <2>12 DEF CommandInv
<1> QED BY <1>3, <1>4

\* The heads that carry an error are rejected.
LEMMA RejectKeepsCommands ==
    ASSUME SlotInv, CommandInv, SelectRejections
    PROVE  CommandInv'
<1>1. /\ dispatcher = "select" /\ dispatcher' = "reject"
      /\ todo' = {<<w[1], w[2], "error">> : w \in ReadyRejections(open, queued, req)}
      /\ UNCHANGED <<born, open, accepted, waiting, last, queued, req, fut, ran, spoiled, unit>>
  BY DEF SelectRejections, recordVars, modelVars, queueVars, trainerVars
<1>2. /\ TypeOK /\ unit = {} /\ todo = {} /\ open \subseteq born
  BY <1>1 DEF SlotInv, SlotsAreFresh, CommandInv, UnitStaysReady, OutcomesAreDue
<1>3. UnsentIsUnknown' /\ QueuesAreContiguous' /\ PendingIsQueued' /\ DoneMeansExecuted'
  BY <1>1 DEF CommandInv, UnsentIsUnknown, QueuesAreContiguous, PendingIsQueued, Pending, DoneMeansExecuted
<1>4. UnitStaysReady'
  BY <1>1, <1>2 DEF UnitStaysReady
<1>5. OutcomesAreDue'
  <2>1. \A w \in todo' : w[1] \in open /\ w[2] \in queued[w[1]] /\ w[3] = "error" /\ req[w[1]][w[2]].invalid
    BY <1>1 DEF ReadyRejections, IsHead
  <2>2. \A v, w \in todo' : v[1] = w[1] /\ v[2] = w[2] => v = w
    BY <1>1
  <2>3. spoiled \cap open = {} /\ spoiled \subseteq born
    BY <1>2 DEF CommandInv, OutcomesAreDue
  <2> QED BY <1>1, <1>2, <2>1, <2>2, <2>3 DEF OutcomesAreDue
<1>6. DatumsAreCounted'
  <2>1. \A m \in Model, s \in Seqs : Unfinished(m, s)' => Unfinished(m, s)
    BY <1>1, <1>2 DEF Unfinished
  <2> QED BY <1>1, <1>2, <2>1 DEF CommandInv, DatumsAreCounted
<1> QED BY <1>3, <1>4, <1>5, <1>6 DEF CommandInv

\* A unit of batch commands is closed under earlier datums of its requests.
LEMMA PackedUnit ==
    ASSUME TypeOK, NEW seed, NEW u, u = PackBatch(req, seed, ReadyDatums(open, queued, req))
    PROVE  /\ \A d \in u : /\ d \in Datum /\ d[1] \in open /\ d[2] \in OpenBatchRun(queued[d[1]], req[d[1]])
                           /\ d[3] \in (req[d[1]][d[2]].issued + 1)..Len(req[d[1]][d[2]].costs)
                           /\ req[d[1]][d[2]].op = req[seed[1]][seed[2]].op
           /\ \A d \in u : \A j \in (req[d[1]][d[2]].issued + 1)..d[3] : <<d[1], d[2], j>> \in u
<1> DEFINE datums == ReadyDatums(open, queued, req)
           C == {d \in datums : PackKey(req, d) = PackKey(req, seed)}
<1>1. PICK F : u = {d \in C : \A e \in C : Precedes(req, e, d) => e \in F}
  <2> DEFINE Through(d) == MapThenSumSet(LAMBDA e : Cost(req, e), {e \in C : Precedes(req, e, d)})
             F == {d \in C : d = seed \/ Through(d) <= TokenBudget}
  <2>1. u = {d \in C : \A e \in C : Precedes(req, e, d) => e = seed \/ Through(e) <= TokenBudget}
    BY Zenon DEF PackBatch
  <2>2. \A e \in C : e \in F <=> e = seed \/ Through(e) <= TokenBudget
    BY Zenon
  <2> HIDE DEF F, Through, C
  <2> QED BY <2>1, <2>2
<1>2. \A d \in datums : /\ d \in Datum /\ d[1] \in open /\ d[2] \in OpenBatchRun(queued[d[1]], req[d[1]])
                        /\ d[3] \in (req[d[1]][d[2]].issued + 1)..Len(req[d[1]][d[2]].costs)
  BY DEF ReadyDatums
<1>3. ASSUME NEW d \in u, NEW j \in (req[d[1]][d[2]].issued + 1)..d[3]
      PROVE  <<d[1], d[2], j>> \in u
  <2> DEFINE c == <<d[1], d[2], j>>
  <2>1. d \in C /\ d \in datums /\ \A e \in C : Precedes(req, e, d) => e \in F
    BY <1>1
  <2>2. d[1] \in Model /\ d[2] \in Seqs /\ d[3] \in 1..MaxDatums /\ MaxDatums \in Nat
        /\ req[d[1]][d[2]].issued \in Nat /\ Len(req[d[1]][d[2]].costs) \in Nat
    BY <1>2, <2>1, CommandTypes, SchedulerAssumption DEF Datum, Request
  <2>3. j \in 1..MaxDatums /\ j <= d[3] /\ j \in (req[d[1]][d[2]].issued + 1)..Len(req[d[1]][d[2]].costs)
    BY <1>2, <2>1, <2>2
  <2>4. c \in Datum /\ c[1] = d[1] /\ c[2] = d[2] /\ c[3] = j
    BY <2>2, <2>3 DEF Datum
  <2> HIDE DEF c
  <2>5. c \in datums
    BY <1>2, <2>1, <2>3, <2>4 DEF ReadyDatums
  <2>6. c \in C
    BY <2>1, <2>4, <2>5 DEF PackKey
  <2>7. ASSUME NEW e \in C, Precedes(req, e, c) PROVE e \in F
    <3>1. e[1] \in Model /\ e[2] \in Seqs /\ e[3] \in Nat /\ req[e[1]][e[2]].arrival \in Nat
          /\ req[d[1]][d[2]].arrival \in Nat
      <4>1. e[1] \in Model /\ e[2] \in Seqs /\ e[3] \in Nat
        BY <1>2, <2>2 DEF Datum
      <4>2. req[e[1]][e[2]] \in Request /\ req[d[1]][d[2]] \in Request
        BY <2>2, <4>1, CommandTypes
      <4> QED BY <4>1, <4>2 DEF Request
    <3>2. Precedes(req, e, d)
      BY <2>2, <2>3, <2>4, <2>7, <3>1 DEF Precedes, Arrival
    <3> QED BY <2>1, <3>2
  <2> QED BY <1>1, <2>6, <2>7 DEF c
<1>4. \A d \in u : req[d[1]][d[2]].op = req[seed[1]][seed[2]].op
  BY <1>1 DEF PackKey
<1> QED BY <1>1, <1>2, <1>3, <1>4

\* A downward closed set of numbers above a is an interval.
LEMMA PrefixIsInterval ==
    ASSUME NEW a \in Nat, NEW b \in Nat, NEW D \in SUBSET ((a + 1)..b),
           \A i \in D : \A j \in (a + 1)..i : j \in D
    PROVE  /\ Cardinality(D) \in Nat /\ D = (a + 1)..(a + Cardinality(D))
           /\ D # {} => a + Cardinality(D) <= b
<1>1. CASE D = {}
  <2>1. Cardinality(D) = 0
    BY <1>1, FS_EmptySet
  <2>2. (a + 1)..(a + 0) = {}
    OBVIOUS
  <2> QED BY <1>1, <2>1, <2>2
<1>2. CASE D # {}
  <2> DEFINE S == {n \in Nat : \A i \in D : i <= n}
  <2>1. PICK n \in S : \A k \in S : n <= k
    <3>1. b \in S
      OBVIOUS
    <3> HIDE DEF S
    <3>2. S \in SUBSET Nat /\ S # {}
      BY <3>1 DEF S
    <3> QED BY <3>2, LeastNatural
  <2>2. n \in D
    <3> SUFFICES ASSUME n \notin D PROVE FALSE
      OBVIOUS
    <3>1. PICK i \in D : TRUE
      BY <1>2
    <3>2. n \in Nat /\ i \in Nat /\ i <= n /\ i > a /\ i # n
      BY <2>1, <3>1
    <3>3. n - 1 \in Nat
      BY <3>2
    <3>4. \A k \in D : k <= n - 1
      BY <2>1
    <3>5. n - 1 \in S
      BY <3>3, <3>4
    <3> QED BY <2>1, <3>2, <3>5
  <2>3. D = (a + 1)..n /\ n \in Nat /\ n >= a + 1 /\ n <= b
    <3>1. \A j \in (a + 1)..n : j \in D
      BY <2>2
    <3>2. n \in (a + 1)..b /\ \A i \in D : i \in (a + 1)..b /\ i <= n
      BY <2>1, <2>2
    <3>3. \A i \in D : i \in (a + 1)..n
      BY <3>2
    <3>4. D = (a + 1)..n
      BY <3>1, <3>3
    <3>5. n \in Nat /\ n >= a + 1 /\ n <= b
      BY <3>2
    <3> QED BY <3>4, <3>5
  <2>4. Cardinality((a + 1)..n) = n - a
    <3>1. a + 1 \in Int /\ n \in Int /\ ~(a + 1 > n)
      BY <2>3
    <3>2. Cardinality((a + 1)..n) = n - (a + 1) + 1
      BY <3>1, FS_Interval
    <3> QED BY <2>3, <3>2
  <2> QED BY <2>3, <2>4
<1> QED BY <1>1, <1>2

\* A unit of barriers has one of each model.
LEMMA MergedUnit ==
    ASSUME TypeOK, NEW seed \in ReadyBarriers(open, queued, req),
           NEW u, u = MergeBarriers(req, seed, ReadyBarriers(open, queued, req))
    PROVE  /\ \A d \in u : /\ d \in Datum /\ d[1] \in open /\ d[2] \in ReadyBarrier(queued[d[1]], req[d[1]])
                           /\ d[3] = 1 /\ ~IsBatch(req[d[1]][d[2]].op)
                           /\ req[d[1]][d[2]].op = req[seed[1]][seed[2]].op
<1>1. u \subseteq ReadyBarriers(open, queued, req)
  BY DEF MergeBarriers
<1>2. \A d \in u : req[d[1]][d[2]].op = req[seed[1]][seed[2]].op
  BY DEF MergeBarriers
<1> QED BY <1>1, <1>2 DEF ReadyBarriers, ReadyBarrier

\* What a unit of the scheduler is.
LEMMA UnitFacts ==
    ASSUME TypeOK, NEW u \in NextUnits(open, queued, req)
    PROVE  /\ \A d \in u : d \in Datum /\ d[1] \in open /\ d[2] \in queued[d[1]]
           /\ \A d, e \in u : req[d[1]][d[2]].op = req[e[1]][e[2]].op
           /\ \/ \A d \in u : /\ IsBatch(req[d[1]][d[2]].op)
                              /\ d[2] \in OpenBatchRun(queued[d[1]], req[d[1]])
                              /\ d[3] \in (req[d[1]][d[2]].issued + 1)..Len(req[d[1]][d[2]].costs)
                              /\ \A j \in (req[d[1]][d[2]].issued + 1)..d[3] : <<d[1], d[2], j>> \in u
              \/ \A d \in u : /\ ~IsBatch(req[d[1]][d[2]].op)
                              /\ d[2] \in ReadyBarrier(queued[d[1]], req[d[1]]) /\ d[3] = 1
<1>1. CASE \E seed \in ReadyDatums(open, queued, req) : u = PackBatch(req, seed, ReadyDatums(open, queued, req))
  <2>1. PICK seed : u = PackBatch(req, seed, ReadyDatums(open, queued, req))
    BY <1>1
  <2>2. /\ \A d \in u : /\ d \in Datum /\ d[1] \in open /\ d[2] \in OpenBatchRun(queued[d[1]], req[d[1]])
                        /\ d[3] \in (req[d[1]][d[2]].issued + 1)..Len(req[d[1]][d[2]].costs)
                        /\ req[d[1]][d[2]].op = req[seed[1]][seed[2]].op
        /\ \A d \in u : \A j \in (req[d[1]][d[2]].issued + 1)..d[3] : <<d[1], d[2], j>> \in u
    BY <2>1, PackedUnit
  <2>3. \A d \in u : d[2] \in queued[d[1]] /\ IsBatch(req[d[1]][d[2]].op)
    <3> SUFFICES ASSUME NEW d \in u PROVE d[2] \in queued[d[1]] /\ IsBatch(req[d[1]][d[2]].op)
      OBVIOUS
    <3>1. d[2] \in queued[d[1]] /\ d[2] <= d[2]
      BY <2>2, CommandTypes DEF OpenBatchRun, Datum, Seqs
    <3> QED BY <2>2, <3>1 DEF OpenBatchRun
  <2> QED BY <2>2, <2>3
<1>2. CASE \E seed \in ReadyBarriers(open, queued, req) : u = MergeBarriers(req, seed, ReadyBarriers(open, queued, req))
  <2>1. PICK seed \in ReadyBarriers(open, queued, req) :
           u = MergeBarriers(req, seed, ReadyBarriers(open, queued, req))
    BY <1>2
  <2>2. \A d \in u : /\ d \in Datum /\ d[1] \in open /\ d[2] \in ReadyBarrier(queued[d[1]], req[d[1]])
                     /\ d[3] = 1 /\ ~IsBatch(req[d[1]][d[2]].op)
                     /\ req[d[1]][d[2]].op = req[seed[1]][seed[2]].op
    BY <2>1, MergedUnit
  <2>3. \A d \in u : d[2] \in queued[d[1]]
    BY <2>2 DEF ReadyBarrier
  <2> QED BY <2>2, <2>3
<1>3. \/ \E seed \in ReadyDatums(open, queued, req) : u = PackBatch(req, seed, ReadyDatums(open, queued, req))
      \/ \E seed \in ReadyBarriers(open, queued, req) : u = MergeBarriers(req, seed, ReadyBarriers(open, queued, req))
  BY Zenon DEF NextUnits
<1> QED BY <1>1, <1>2, <1>3

\* Only the count of issued datums changes when a unit is picked.
LEMMA IssuedFacts ==
    ASSUME TypeOK, NEW u, NEW m \in Model, NEW s \in Seqs
    PROVE  LET r == Issued(req, u)[m][s] IN
           /\ r.op = req[m][s].op /\ r.invalid = req[m][s].invalid
           /\ r.costs = req[m][s].costs /\ r.remaining = req[m][s].remaining
           /\ r.issued = IF \E d \in u : IsBatch(req[d[1]][d[2]].op)
                         THEN req[m][s].issued + Cardinality(DatumsOf(u, m, s)) ELSE req[m][s].issued
<1>1. req[m][s] \in Request
  BY CommandTypes
<1>2. CASE \E d \in u : IsBatch(req[d[1]][d[2]].op)
  <2> DEFINE n == Cardinality(DatumsOf(u, m, s))
  <2>1. Issued(req, u) = Issue(req, u)
    BY <1>2 DEF Issued
  <2>2. Issue(req, u)[m][s] = [req[m][s] EXCEPT !.issued = @ + n]
    BY DEF Issue
  <2>3. [req[m][s] EXCEPT !.issued = @ + n] = [req[m][s] EXCEPT !.issued = req[m][s].issued + n]
    OBVIOUS
  <2> HIDE DEF n
  <2>4. Issued(req, u)[m][s] = [req[m][s] EXCEPT !.issued = req[m][s].issued + n]
    BY <2>1, <2>2, <2>3
  <2> QED BY <1>1, <1>2, <2>4 DEF Request, n
<1>3. CASE ~\E d \in u : IsBatch(req[d[1]][d[2]].op)
  <2>1. Issued(req, u) = req
    BY <1>3 DEF Issued
  <2> QED BY <1>3, <2>1
<1> QED BY <1>2, <1>3

\* A unit goes to the trainer.
LEMMA SelectKeepsCommands ==
    ASSUME SlotInv, CommandInv, SelectUnit
    PROVE  CommandInv'
<1>1. /\ dispatcher = "select" /\ dispatcher' = "unit"
      /\ UNCHANGED <<born, open, accepted, waiting, last, queued, fut, ran, spoiled, todo>>
  BY DEF SelectUnit, recordVars, modelVars, trainerVars
<1>2. PICK u \in NextUnits(open, queued, req) : unit' = u /\ req' = Issued(req, u)
  BY DEF SelectUnit
<1>3. /\ TypeOK /\ unit = {} /\ todo = {}
      /\ spoiled \cap open = {} /\ spoiled \subseteq born
  BY <1>1 DEF SlotInv, CommandInv, UnitStaysReady, OutcomesAreDue
<1>4. \A m \in Model, s \in Seqs :
         /\ req'[m][s].op = req[m][s].op /\ req'[m][s].invalid = req[m][s].invalid
         /\ req'[m][s].costs = req[m][s].costs /\ req'[m][s].remaining = req[m][s].remaining
         /\ req'[m][s].issued = IF \E d \in u : IsBatch(req[d[1]][d[2]].op)
                                THEN req[m][s].issued + Cardinality(DatumsOf(u, m, s)) ELSE req[m][s].issued
  BY <1>2, <1>3, IssuedFacts
<1>5. /\ \A d \in u : d \in Datum /\ d[1] \in open /\ d[2] \in queued[d[1]]
      /\ \A d, e \in u : req[d[1]][d[2]].op = req[e[1]][e[2]].op
      /\ \/ \A d \in u : /\ IsBatch(req[d[1]][d[2]].op)
                         /\ d[2] \in OpenBatchRun(queued[d[1]], req[d[1]])
                         /\ d[3] \in (req[d[1]][d[2]].issued + 1)..Len(req[d[1]][d[2]].costs)
                         /\ \A j \in (req[d[1]][d[2]].issued + 1)..d[3] : <<d[1], d[2], j>> \in u
         \/ \A d \in u : /\ ~IsBatch(req[d[1]][d[2]].op)
                         /\ d[2] \in ReadyBarrier(queued[d[1]], req[d[1]]) /\ d[3] = 1
  BY <1>2, <1>3, UnitFacts
<1>6. UnsentIsUnknown' /\ QueuesAreContiguous' /\ PendingIsQueued'
  BY <1>1 DEF CommandInv, UnsentIsUnknown, QueuesAreContiguous, PendingIsQueued, Pending
<1>7. DoneMeansExecuted'
  BY <1>1, <1>4 DEF CommandInv, DoneMeansExecuted
<1>8. \A d \in u : d[1] \in Model /\ d[2] \in Seqs
  BY <1>5 DEF Datum
<1>9. UnitStaysReady'
  <2>0. \A d \in u : req'[d[1]][d[2]].op = req[d[1]][d[2]].op
    BY <1>4, <1>8
  <2>1. \A d, e \in u : req'[d[1]][d[2]].op = req'[e[1]][e[2]].op
    BY <1>5, <2>0
  <2>2. \A d \in u : d[1] \in open \ spoiled
    BY <1>3, <1>5
  <2>3. ASSUME NEW d \in u
        PROVE  IF IsBatch(req[d[1]][d[2]].op)
               THEN d[2] \in OpenBatchRun(queued[d[1]], req'[d[1]])
               ELSE d[2] \in ReadyBarrier(queued[d[1]], req'[d[1]]) /\ d[3] = 1
    <3> DEFINE m == d[1]
               s == d[2]
    <3>1. m \in Model /\ s \in queued[m] /\ queued[m] \in SUBSET Seqs
      BY <1>3, <1>5, <1>8, CommandTypes
    <3> HIDE DEF m, s
    <3>2. \A t \in queued[m] : req'[m][t].op = req[m][t].op /\ req'[m][t].invalid = req[m][t].invalid
      BY <1>4, <3>1
    <3>3. /\ s \in OpenBatchRun(queued[m], req[m]) => s \in OpenBatchRun(queued[m], req'[m])
          /\ s \in ReadyBarrier(queued[m], req[m]) => s \in ReadyBarrier(queued[m], req'[m])
      BY <3>1, <3>2, ReadyStays
    <3> QED BY <1>5, <3>3 DEF m, s
  <2> QED BY <1>1, <1>2, <2>1, <2>2, <2>3, <2>0 DEF UnitStaysReady
<1>10. OutcomesAreDue'
  BY <1>1, <1>3 DEF OutcomesAreDue
<1>11. DatumsAreCounted'
  <2> SUFFICES ASSUME NEW m \in Model, NEW s \in Seqs, Unfinished(m, s)'
               PROVE  IF IsBatch(req'[m][s].op)
                      THEN /\ req'[m][s].issued <= Len(req'[m][s].costs)
                           /\ ran[m][s] \cup DatumsOf(u, m, s) = 1..req'[m][s].issued
                           /\ ran[m][s] \cap DatumsOf(u, m, s) = {}
                           /\ req'[m][s].remaining = Len(req'[m][s].costs) - Cardinality(ran[m][s])
                      ELSE <<m, s, "ok">> \in todo \/ ran[m][s] = {}
    BY <1>1, <1>2 DEF DatumsAreCounted
  <2>1. Unfinished(m, s) /\ DatumsOf(unit, m, s) = {}
    BY <1>1, <1>3 DEF Unfinished, DatumsOf
  <2>2. CASE ~IsBatch(req[m][s].op)
    BY <1>4, <2>1, <2>2 DEF CommandInv, DatumsAreCounted
  <2>3. CASE IsBatch(req[m][s].op)
    <3> DEFINE D == DatumsOf(u, m, s)
               a == req[m][s].issued
               b == Len(req[m][s].costs)
    <3>1. a <= b /\ ran[m][s] = 1..a /\ req[m][s].remaining = b - Cardinality(ran[m][s])
      BY <2>1, <2>3 DEF CommandInv, DatumsAreCounted
    <3>2. a \in Nat /\ b \in Nat
      <4>1. req[m][s] \in Request
        BY <1>3, CommandTypes
      <4> QED BY <4>1 DEF Request
    <3>3. D \in SUBSET ((a + 1)..b) /\ \A i \in D : \A j \in (a + 1)..i : j \in D
      <4> SUFFICES ASSUME NEW i \in D PROVE i \in (a + 1)..b /\ \A j \in (a + 1)..i : j \in D
        OBVIOUS
      <4>1. <<m, s, i>> \in u /\ i \in 1..MaxDatums
        BY DEF DatumsOf
      <4>2. IsBatch(req[m][s].op)
        BY <2>3
      <4>3. i \in (a + 1)..b /\ \A j \in (a + 1)..i : <<m, s, j>> \in u
        BY <1>5, <4>1, <4>2
      <4>4. \A j \in (a + 1)..i : j \in 1..MaxDatums
        BY <3>2, <4>1, SchedulerAssumption
      <4> QED BY <4>3, <4>4 DEF DatumsOf
    <3>4. \/ \E d \in u : IsBatch(req[d[1]][d[2]].op)
          \/ D = {}
      BY <2>3 DEF DatumsOf
    <3>5. req'[m][s].issued = a + Cardinality(D)
      <4>1. CASE \E d \in u : IsBatch(req[d[1]][d[2]].op)
        BY <1>4, <4>1
      <4>2. CASE D = {} /\ ~\E d \in u : IsBatch(req[d[1]][d[2]].op)
        BY <1>4, <3>2, <4>2, FS_EmptySet
      <4> QED BY <3>4, <4>1, <4>2
    <3>6. req'[m][s].costs = req[m][s].costs /\ req'[m][s].remaining = req[m][s].remaining
          /\ req'[m][s].op = req[m][s].op
      BY <1>4
    <3> HIDE DEF D, a
    <3>7. Cardinality(D) \in Nat /\ D = (a + 1)..(a + Cardinality(D)) /\ a + Cardinality(D) <= b
      <4>1. /\ Cardinality(D) \in Nat /\ D = (a + 1)..(a + Cardinality(D))
            /\ D # {} => a + Cardinality(D) <= b
        <5> HIDE DEF b
        <5> QED BY <3>2, <3>3, PrefixIsInterval
      <4>2. D = {} => a + Cardinality(D) <= b
        BY <3>1, <3>2, FS_EmptySet
      <4> QED BY <4>1, <4>2
    <3>8. ran[m][s] \cup D = 1..(a + Cardinality(D)) /\ ran[m][s] \cap D = {}
      BY <3>1, <3>2, <3>7
    <3> QED BY <2>3, <3>1, <3>5, <3>6, <3>7, <3>8 DEF D
  <2> QED BY <2>2, <2>3
<1> QED BY <1>6, <1>7, <1>9, <1>10, <1>11 DEF CommandInv

\* Only the count of missing outputs changes when a unit has returned.
LEMMA RecordedFacts ==
    ASSUME TypeOK, NEW u, NEW m \in Model, NEW s \in Seqs
    PROVE  LET r == Recorded(u)[m][s] IN
           /\ r.op = req[m][s].op /\ r.invalid = req[m][s].invalid
           /\ r.costs = req[m][s].costs /\ r.issued = req[m][s].issued
           /\ r.remaining = req[m][s].remaining - Cardinality(DatumsOf(u, m, s))
<1> DEFINE n == Cardinality(DatumsOf(u, m, s))
<1>1. req[m][s] \in Request
  BY CommandTypes
<1>2. Recorded(u)[m][s] = [req[m][s] EXCEPT !.remaining = @ - n]
  BY DEF Recorded
<1>3. [req[m][s] EXCEPT !.remaining = @ - n] = [req[m][s] EXCEPT !.remaining = req[m][s].remaining - n]
  OBVIOUS
<1> HIDE DEF n
<1>4. Recorded(u)[m][s] = [req[m][s] EXCEPT !.remaining = req[m][s].remaining - n]
  BY <1>2, <1>3
<1> QED BY <1>1, <1>4 DEF Request, n

\* Of the unit at the trainer: nothing else is under way, no model of it has
\* failed, and its commands are queued and all of one kind.
LEMMA UnitAtTrainer ==
    ASSUME TypeOK, CommandInv, dispatcher = "unit"
    PROVE  /\ todo = {} /\ spoiled \cap open = {} /\ spoiled \subseteq born
           /\ \A d \in unit : /\ d \in Datum /\ d[1] \in Model /\ d[2] \in Seqs
                              /\ d[1] \in open /\ d[1] \notin spoiled /\ d[2] \in queued[d[1]]
                              /\ d[2] \in accepted[d[1]] /\ Pending(d[1], d[2])
                              /\ req[d[1]][d[2]].op = UnitOp(unit)
                              /\ ~IsBatch(UnitOp(unit)) => d[3] = 1
           /\ \A m \in Model, s \in Seqs : DatumsOf(unit, m, s) # {} =>
                 /\ m \in open /\ m \notin spoiled /\ s \in queued[m] /\ s \in accepted[m]
                 /\ Pending(m, s) /\ req[m][s].op = UnitOp(unit)
<1>1. todo = {} /\ spoiled \cap open = {} /\ spoiled \subseteq born
  BY DEF CommandInv, OutcomesAreDue
<1>2. \A d \in unit : /\ d \in Datum /\ d[1] \in Model /\ d[2] \in Seqs
                      /\ d[1] \in open /\ d[1] \notin spoiled /\ d[2] \in queued[d[1]]
                      /\ ~IsBatch(req[d[1]][d[2]].op) => d[3] = 1
  <2>1. \A d \in unit : d \in Datum /\ d[1] \in Model /\ d[2] \in Seqs
    BY CommandTypes DEF Datum
  <2>2. \A d \in unit : d[1] \in open \ spoiled /\ d[2] \in queued[d[1]]
    BY DEF CommandInv, UnitStaysReady, OpenBatchRun, ReadyBarrier
  <2>3. \A d \in unit : ~IsBatch(req[d[1]][d[2]].op) => d[3] = 1
    BY DEF CommandInv, UnitStaysReady
  <2> QED BY <2>1, <2>2, <2>3
<1>3. \A d \in unit : d[2] \in accepted[d[1]] /\ Pending(d[1], d[2])
  BY <1>2 DEF CommandInv, QueuesAreContiguous, PendingIsQueued
<1>4. ASSUME NEW d \in unit PROVE req[d[1]][d[2]].op = UnitOp(unit)
  <2>1. PICK e \in unit : UnitOp(unit) = req[e[1]][e[2]].op
    BY Zenon DEF UnitOp
  <2> QED BY <2>1 DEF CommandInv, UnitStaysReady
<1>5. \A d \in unit : ~IsBatch(UnitOp(unit)) => d[3] = 1
  BY <1>2, <1>4
<1>6. ASSUME NEW m \in Model, NEW s \in Seqs, DatumsOf(unit, m, s) # {}
      PROVE  /\ m \in open /\ m \notin spoiled /\ s \in queued[m] /\ s \in accepted[m]
             /\ Pending(m, s) /\ req[m][s].op = UnitOp(unit)
  <2>1. PICK i : <<m, s, i>> \in unit
    BY <1>6 DEF DatumsOf
  <2>2. <<m, s, i>>[1] = m /\ <<m, s, i>>[2] = s
    OBVIOUS
  <2> QED BY <1>2, <1>3, <1>4, <2>1, <2>2
<1> QED BY <1>1, <1>2, <1>3, <1>4, <1>5, <1>6

\* A unit of batch commands has been executed.
LEMMA ReturnKeepsCommands ==
    ASSUME SlotInv, CommandInv, BatchReturns
    PROVE  CommandInv'
<1>1. /\ dispatcher = "unit" /\ dispatcher' = "finish" /\ unit' = {}
      /\ IsBatch(UnitOp(unit)) /\ req' = Recorded(unit) /\ ran' = Executed(unit)
      /\ todo' = {<<w[1], w[2], "ok">> : w \in Complete(unit, req')}
      /\ UNCHANGED <<born, open, accepted, waiting, last, queued, fut, spoiled>>
  BY DEF BatchReturns, recordVars, modelVars
<1>2. TypeOK
  BY DEF SlotInv
<1>3. /\ todo = {} /\ spoiled \cap open = {} /\ spoiled \subseteq born
      /\ \A d \in unit : /\ d[1] \in Model /\ d[2] \in Seqs /\ d[1] \in open /\ d[2] \in queued[d[1]]
                         /\ req[d[1]][d[2]].op = UnitOp(unit)
      /\ \A m \in Model, s \in Seqs : DatumsOf(unit, m, s) # {} =>
            /\ m \in open /\ s \in queued[m] /\ s \in accepted[m] /\ Pending(m, s) /\ req[m][s].op = UnitOp(unit)
  BY <1>1, <1>2, UnitAtTrainer
<1>4. \A m \in Model, s \in Seqs :
         /\ ran'[m][s] = ran[m][s] \cup DatumsOf(unit, m, s)
         /\ req'[m][s].op = req[m][s].op /\ req'[m][s].invalid = req[m][s].invalid
         /\ req'[m][s].costs = req[m][s].costs /\ req'[m][s].issued = req[m][s].issued
         /\ req'[m][s].remaining = req[m][s].remaining - Cardinality(DatumsOf(unit, m, s))
  <2>1. \A m \in Model, s \in Seqs : ran'[m][s] = ran[m][s] \cup DatumsOf(unit, m, s)
    BY <1>1 DEF Executed
  <2> QED BY <1>1, <1>2, <2>1, RecordedFacts
<1>4a. ASSUME NEW m \in Model, NEW s \in Seqs, ~(m \in open /\ s \in accepted[m] /\ Pending(m, s))
       PROVE  ran'[m][s] = ran[m][s]
  <2>1. DatumsOf(unit, m, s) = {}
    BY <1>3, <1>4a
  <2>2. ran'[m][s] = ran[m][s] \cup {}
    BY <1>4, <2>1
  <2> QED BY <2>2
<1>5. UnsentIsUnknown'
  <2>1. \A m \in Model, s \in Seqs : m \notin born \/ (m \in open /\ s \notin accepted[m]) =>
           ran'[m][s] = ran[m][s]
    <3>1. open \subseteq born
      BY DEF SlotInv, SlotsAreFresh
    <3> QED BY <1>4a, <3>1
  <2> QED BY <1>1, <2>1 DEF CommandInv, UnsentIsUnknown
<1>6. QueuesAreContiguous' /\ PendingIsQueued' /\ UnitStaysReady'
  BY <1>1 DEF CommandInv, QueuesAreContiguous, PendingIsQueued, Pending, UnitStaysReady
<1>7. DoneMeansExecuted'
  <2>1. \A m \in Model, s \in Seqs : fut[m][s] = "done" => ran'[m][s] = ran[m][s]
    BY <1>4a DEF Pending
  <2> QED BY <1>1, <1>4, <2>1 DEF CommandInv, DoneMeansExecuted
<1>8. ASSUME NEW m \in Model, NEW s \in Seqs, s \in queued[m] \cup waiting[m]
      PROVE  IF IsBatch(req[m][s].op)
             THEN /\ req[m][s].issued <= Len(req[m][s].costs)
                  /\ ran'[m][s] = 1..req[m][s].issued
                  /\ req'[m][s].remaining = Len(req[m][s].costs) - Cardinality(ran'[m][s])
             ELSE ran'[m][s] = {}
  <2> DEFINE D == DatumsOf(unit, m, s)
             R == ran[m][s]
  <2>1. Unfinished(m, s)
    BY <1>3, <1>8 DEF Unfinished
  <2>2. CASE ~IsBatch(req[m][s].op)
    <3>1. ran[m][s] = {}
      BY <1>3, <2>1, <2>2 DEF CommandInv, DatumsAreCounted
    <3>2. DatumsOf(unit, m, s) = {}
      BY <1>1, <1>3, <2>2
    <3> QED BY <1>4, <2>2, <3>1, <3>2
  <2>3. CASE IsBatch(req[m][s].op)
    <3>1. /\ req[m][s].issued <= Len(req[m][s].costs) /\ R \cup D = 1..req[m][s].issued
          /\ R \cap D = {} /\ req[m][s].remaining = Len(req[m][s].costs) - Cardinality(R)
      BY <2>1, <2>3 DEF CommandInv, DatumsAreCounted
    <3>2. IsFiniteSet(1..MaxDatums) /\ R \subseteq 1..MaxDatums /\ D \subseteq 1..MaxDatums
      <4>1. IsFiniteSet(1..MaxDatums)
        BY SchedulerAssumption, FS_Interval
      <4>2. R \subseteq 1..MaxDatums
        BY <1>2, CommandTypes
      <4> QED BY <4>1, <4>2 DEF DatumsOf
    <3>3. IsFiniteSet(R) /\ IsFiniteSet(D)
      BY <3>2, FS_Subset
    <3>4. Cardinality(R) \in Nat /\ Cardinality(D) \in Nat
      BY <3>3, FS_CardinalityType
    <3>5. Cardinality(R \cup D) = Cardinality(R) + Cardinality(D)
      <4>1. Cardinality(R \cup D) = Cardinality(R) + Cardinality(D) - Cardinality(R \cap D)
        BY <3>3, FS_Union
      <4>2. Cardinality(R \cap D) = 0
        BY <3>1, FS_EmptySet
      <4> QED BY <3>4, <4>1, <4>2
    <3>6. ran'[m][s] = R \cup D /\ req'[m][s].remaining = req[m][s].remaining - Cardinality(D)
      BY <1>4
    <3>7. Len(req[m][s].costs) \in Nat
      <4>1. req[m][s] \in Request
        BY <1>2, CommandTypes
      <4> QED BY <4>1 DEF Request
    <3> HIDE DEF R, D
    <3>8. ran'[m][s] = 1..req[m][s].issued
      BY <3>1, <3>6
    <3>9. req'[m][s].remaining = Len(req[m][s].costs) - (Cardinality(R) + Cardinality(D))
      BY <3>1, <3>4, <3>6, <3>7
    <3>10. req'[m][s].remaining = Len(req[m][s].costs) - Cardinality(ran'[m][s])
      BY <3>5, <3>6, <3>9
    <3> QED BY <2>3, <3>1, <3>8, <3>10
  <2> QED BY <2>2, <2>3
<1>9. DatumsAreCounted'
  <2> SUFFICES ASSUME NEW m \in Model, NEW s \in Seqs, Unfinished(m, s)'
               PROVE  IF IsBatch(req'[m][s].op)
                      THEN /\ req'[m][s].issued <= Len(req'[m][s].costs)
                           /\ ran'[m][s] \cup {} = 1..req'[m][s].issued
                           /\ ran'[m][s] \cap {} = {}
                           /\ req'[m][s].remaining = Len(req'[m][s].costs) - Cardinality(ran'[m][s])
                      ELSE <<m, s, "ok">> \in todo' \/ ran'[m][s] = {}
    BY <1>1 DEF DatumsAreCounted, DatumsOf
  <2>1. s \in queued[m] \cup waiting[m]
    BY <1>1 DEF Unfinished
  <2> QED BY <1>4, <1>8, <2>1
<1>10. OutcomesAreDue'
  <2>1. ASSUME NEW w \in todo'
        PROVE  /\ w[1] \in born /\ w[1] \in open /\ w[2] \in queued[w[1]] /\ w[3] = "ok"
               /\ w = <<w[1], w[2], "ok">>
               /\ ran'[w[1]][w[2]] = IF IsBatch(req'[w[1]][w[2]].op)
                                     THEN 1..Len(req'[w[1]][w[2]].costs) ELSE {1}
    <3>1. PICK d \in unit : w = <<d[1], d[2], "ok">> /\ req'[d[1]][d[2]].remaining = 0
      BY <1>1 DEF Complete, RequestsOf
    <3> DEFINE m == d[1]
               s == d[2]
    <3>2. /\ m \in Model /\ s \in Seqs /\ m \in open /\ s \in queued[m] /\ IsBatch(req[m][s].op)
          /\ w = <<m, s, "ok">> /\ req'[m][s].remaining = 0
      BY <1>1, <1>3, <3>1
    <3> HIDE DEF m, s
    <3>3. m \in born
      BY <3>2 DEF SlotInv, SlotsAreFresh
    <3>4. /\ req[m][s].issued <= Len(req[m][s].costs)
          /\ ran'[m][s] = 1..req[m][s].issued
          /\ req'[m][s].remaining = Len(req[m][s].costs) - Cardinality(ran'[m][s])
      BY <1>8, <3>2
    <3>5. req[m][s].issued \in Nat /\ Len(req[m][s].costs) \in Nat
      <4>1. req[m][s] \in Request
        BY <1>2, <3>2, CommandTypes
      <4> QED BY <4>1 DEF Request
    <3>6. Cardinality(1..req[m][s].issued) = req[m][s].issued
      <4> DEFINE n == req[m][s].issued
      <4>1. n \in Nat
        BY <3>5
      <4> HIDE DEF n
      <4>2. Cardinality(1..n) = IF 1 > n THEN 0 ELSE n - 1 + 1
        BY <4>1, FS_Interval
      <4>3. Cardinality(1..n) = n
        BY <4>1, <4>2
      <4> QED BY <4>3 DEF n
    <3>7. req[m][s].issued = Len(req[m][s].costs)
      <4>1. Cardinality(ran'[m][s]) = req[m][s].issued
        BY <3>4, <3>6
      <4>2. Len(req[m][s].costs) - req[m][s].issued = 0
        BY <3>2, <3>4, <4>1
      <4> QED BY <3>5, <4>2
    <3>8. ran'[m][s] = IF IsBatch(req'[m][s].op) THEN 1..Len(req'[m][s].costs) ELSE {1}
      BY <1>4, <3>2, <3>4, <3>7
    <3> QED BY <3>2, <3>3, <3>8
  <2>2. \A v, w \in todo' : v[1] = w[1] /\ v[2] = w[2] => v = w
    BY <2>1
  <2>3. \A w \in todo' : w[3] # "error"
    BY <2>1
  <2> QED BY <1>1, <1>3, <2>1, <2>2, <2>3 DEF OutcomesAreDue
<1> QED BY <1>5, <1>6, <1>7, <1>9, <1>10 DEF CommandInv

\* A unit of batch commands has failed.
LEMMA FailureKeepsCommands ==
    ASSUME SlotInv, CommandInv, BatchFails
    PROVE  CommandInv'
<1>1. /\ dispatcher = "unit" /\ dispatcher' = "finish" /\ unit' = {}
      /\ IsBatch(UnitOp(unit))
      /\ todo' = {<<w[1], w[2], "error">> : w \in RequestsOf(unit)}
      /\ spoiled' = IF UnitOp(unit) = "forward_backward"
                    THEN spoiled \cup {w[1] : w \in RequestsOf(unit)} ELSE spoiled
      /\ UNCHANGED <<born, open, accepted, waiting, last, queued, req, fut, ran>>
  BY DEF BatchFails, recordVars, modelVars, queueVars
<1>2. TypeOK
  BY DEF SlotInv
<1>3. /\ todo = {} /\ spoiled \cap open = {} /\ spoiled \subseteq born
      /\ \A d \in unit : /\ d[1] \in Model /\ d[2] \in Seqs /\ d[1] \in open /\ d[2] \in queued[d[1]]
                         /\ req[d[1]][d[2]].op = UnitOp(unit)
  BY <1>1, <1>2, UnitAtTrainer
<1>4. /\ UnsentIsUnknown' /\ QueuesAreContiguous' /\ PendingIsQueued' /\ UnitStaysReady'
      /\ DoneMeansExecuted'
  BY <1>1 DEF CommandInv, UnsentIsUnknown, QueuesAreContiguous, PendingIsQueued, Pending,
              UnitStaysReady, DoneMeansExecuted
<1>5. DatumsAreCounted'
  <2> SUFFICES ASSUME NEW m \in Model, NEW s \in Seqs, Unfinished(m, s)'
               PROVE  Unfinished(m, s) /\ DatumsOf(unit, m, s) = {} /\ DatumsOf(unit', m, s) = {}
    BY <1>1, <1>3 DEF CommandInv, DatumsAreCounted
  <2>1. Unfinished(m, s) /\ <<m, s, "error">> \notin todo'
    BY <1>1, <1>3 DEF Unfinished
  <2>2. ASSUME NEW i, <<m, s, i>> \in unit PROVE FALSE
    <3>1. <<m, s>> \in RequestsOf(unit)
      <4>1. <<m, s, i>>[1] = m /\ <<m, s, i>>[2] = s
        OBVIOUS
      <4> QED BY <2>2, <4>1 DEF RequestsOf
    <3>2. <<m, s, "error">> \in todo'
      <4>1. <<m, s>>[1] = m /\ <<m, s>>[2] = s
        OBVIOUS
      <4> QED BY <1>1, <3>1, <4>1
    <3> QED BY <2>1, <3>2
  <2> QED BY <1>1, <2>1, <2>2 DEF DatumsOf
<1>6. OutcomesAreDue'
  <2>1. ASSUME NEW w \in todo'
        PROVE  /\ w[1] \in born /\ w[1] \in open /\ w[2] \in queued[w[1]] /\ w[3] = "error"
               /\ w = <<w[1], w[2], "error">>
               /\ RetiresModel(req[w[1]][w[2]].op) => w[1] \in spoiled'
    <3>1. PICK d \in unit : w = <<d[1], d[2], "error">> /\ <<d[1], d[2]>> \in RequestsOf(unit)
      BY <1>1 DEF RequestsOf
    <3>2. d[1] \in open /\ d[2] \in queued[d[1]] /\ req[d[1]][d[2]].op = UnitOp(unit)
      BY <1>3
    <3>3. RetiresModel(UnitOp(unit)) => d[1] \in spoiled'
      BY <1>1, <3>1 DEF RetiresModel, ClosesModelOnFailure, IsBatch, BatchOps
    <3> QED BY <3>1, <3>2, <3>3 DEF SlotInv, SlotsAreFresh
  <2>2. \A v, w \in todo' : v[1] = w[1] /\ v[2] = w[2] => v = w
    BY <2>1
  <2>3. \A w \in todo' : w[3] # "ok"
    BY <2>1
  <2>4. spoiled' \subseteq born /\ \A m \in spoiled' \cap open : \E s \in Seqs :
           <<m, s, "error">> \in todo' /\ RetiresModel(req[m][s].op)
    <3>1. CASE UnitOp(unit) # "forward_backward"
      BY <1>1, <1>3, <3>1
    <3>2. CASE UnitOp(unit) = "forward_backward"
      <4>1. \A m \in spoiled' : m \in spoiled \/ \E d \in unit : m = d[1]
        BY <1>1, <3>2 DEF RequestsOf
      <4>2. \A d \in unit : d[1] \in open /\ d[1] \in born /\ d[2] \in Seqs
                            /\ RetiresModel(req[d[1]][d[2]].op)
        BY <1>3, <3>2 DEF RetiresModel, ClosesModelOnFailure, SlotInv, SlotsAreFresh
      <4>3. \A d \in unit : <<d[1], d[2], "error">> \in todo'
        <5> SUFFICES ASSUME NEW d \in unit PROVE <<d[1], d[2], "error">> \in todo'
          OBVIOUS
        <5>1. <<d[1], d[2]>> \in RequestsOf(unit)
          BY DEF RequestsOf
        <5>2. <<d[1], d[2]>>[1] = d[1] /\ <<d[1], d[2]>>[2] = d[2]
          OBVIOUS
        <5> QED BY <1>1, <5>1, <5>2
      <4> QED BY <1>3, <4>1, <4>2, <4>3
    <3> QED BY <3>1, <3>2
  <2> QED BY <1>1, <2>1, <2>2, <2>3, <2>4 DEF OutcomesAreDue
<1> QED BY <1>4, <1>5, <1>6 DEF CommandInv

\* A unit of barriers has been executed, or some of it.
LEMMA BarrierKeepsCommands ==
    ASSUME SlotInv, CommandInv, BarrierReturns
    PROVE  CommandInv'
<1>1. /\ dispatcher = "unit" /\ dispatcher' = "finish" /\ unit' = {} /\ ~IsBatch(UnitOp(unit))
      /\ UNCHANGED <<born, open, accepted, waiting, last, queued, req, fut>>
  BY DEF BarrierReturns, recordVars, modelVars, queueVars
<1>2. PICK failed \in SUBSET unit :
         /\ todo' = {<<d[1], d[2], IF d \in failed THEN "error" ELSE "ok">> : d \in unit}
         /\ ran' = Executed(unit \ failed)
         /\ spoiled' = IF ClosesModelOnFailure(UnitOp(unit))
                       THEN spoiled \cup {d[1] : d \in failed} ELSE spoiled
  BY DEF BarrierReturns
<1>3. TypeOK
  BY DEF SlotInv
<1>4. /\ todo = {} /\ spoiled \cap open = {} /\ spoiled \subseteq born
      /\ \A d \in unit : /\ d \in Datum /\ d[1] \in Model /\ d[2] \in Seqs /\ d[1] \in open /\ d[2] \in queued[d[1]]
                         /\ d[2] \in accepted[d[1]] /\ Pending(d[1], d[2])
                         /\ req[d[1]][d[2]].op = UnitOp(unit) /\ d[3] = 1
  BY <1>1, <1>3, UnitAtTrainer
<1>5. \A d \in unit : d = <<d[1], d[2], 1>>
  BY <1>4 DEF Datum
<1>6. \A m \in Model, s \in Seqs : ran'[m][s] = ran[m][s] \cup DatumsOf(unit \ failed, m, s)
  BY <1>2 DEF Executed
<1>7. \A m \in Model, s \in Seqs :
         /\ <<m, s, 1>> \notin unit => ran'[m][s] = ran[m][s]
         /\ <<m, s, 1>> \in unit \ failed => DatumsOf(unit \ failed, m, s) = {1}
  <2> SUFFICES ASSUME NEW m \in Model, NEW s \in Seqs
               PROVE  /\ <<m, s, 1>> \notin unit => DatumsOf(unit \ failed, m, s) = {}
                      /\ <<m, s, 1>> \in unit \ failed => DatumsOf(unit \ failed, m, s) = {1}
    <3>1. \A m \in Model, s \in Seqs : DatumsOf(unit \ failed, m, s) = {} => ran'[m][s] = ran[m][s]
      <4> SUFFICES ASSUME NEW m \in Model, NEW s \in Seqs, DatumsOf(unit \ failed, m, s) = {}
                   PROVE  ran'[m][s] = ran[m][s]
        OBVIOUS
      <4>1. ran'[m][s] = ran[m][s] \cup {}
        BY <1>6
      <4> QED BY <4>1
    <3> QED BY <3>1
  <2>1. \A i : <<m, s, i>> \in unit => i = 1
    <3> TAKE i
    <3>1. <<m, s, i>>[3] = i
      OBVIOUS
    <3> QED BY <1>4, <3>1
  <2>2. 1 \in 1..MaxDatums
    BY SchedulerAssumption
  <2> QED BY <2>1, <2>2 DEF DatumsOf
<1>8. UnsentIsUnknown'
  <2>1. open \subseteq born
    BY DEF SlotInv, SlotsAreFresh
  <2>2. \A m \in Model, s \in Seqs : m \notin born \/ (m \in open /\ s \notin accepted[m]) =>
           ran'[m][s] = ran[m][s]
    <3>1. \A m \in Model, s \in Seqs : <<m, s, 1>> \in unit => m \in open /\ s \in accepted[m]
      <4> SUFFICES ASSUME NEW m \in Model, NEW s \in Seqs, <<m, s, 1>> \in unit
                   PROVE  m \in open /\ s \in accepted[m]
        OBVIOUS
      <4>1. <<m, s, 1>>[1] = m /\ <<m, s, 1>>[2] = s
        OBVIOUS
      <4> QED BY <1>4, <4>1
    <3> QED BY <1>7, <2>1, <3>1
  <2> QED BY <1>1, <2>2 DEF CommandInv, UnsentIsUnknown
<1>9. QueuesAreContiguous' /\ PendingIsQueued' /\ UnitStaysReady'
  BY <1>1 DEF CommandInv, QueuesAreContiguous, PendingIsQueued, Pending, UnitStaysReady
<1>10. \A m \in Model, s \in Seqs : <<m, s, 1>> \in unit =>
          /\ m \in open /\ m \in born /\ s \in queued[m] /\ Pending(m, s) /\ ~IsBatch(req[m][s].op)
          /\ req[m][s].op = UnitOp(unit)
  <2> SUFFICES ASSUME NEW m \in Model, NEW s \in Seqs, <<m, s, 1>> \in unit
               PROVE  /\ m \in open /\ m \in born /\ s \in queued[m] /\ Pending(m, s) /\ ~IsBatch(req[m][s].op)
                      /\ req[m][s].op = UnitOp(unit)
    OBVIOUS
  <2>1. <<m, s, 1>>[1] = m /\ <<m, s, 1>>[2] = s
    OBVIOUS
  <2> QED BY <1>1, <1>4, <2>1 DEF SlotInv, SlotsAreFresh
<1>11. DoneMeansExecuted'
  <2>1. \A m \in Model, s \in Seqs : fut[m][s] = "done" => ran'[m][s] = ran[m][s]
    BY <1>7, <1>10 DEF Pending
  <2> QED BY <1>1, <2>1 DEF CommandInv, DoneMeansExecuted
<1>12. DatumsAreCounted'
  <2> SUFFICES ASSUME NEW m \in Model, NEW s \in Seqs, Unfinished(m, s)'
               PROVE  IF IsBatch(req[m][s].op)
                      THEN /\ req[m][s].issued <= Len(req[m][s].costs)
                           /\ ran'[m][s] \cup {} = 1..req[m][s].issued
                           /\ ran'[m][s] \cap {} = {}
                           /\ req[m][s].remaining = Len(req[m][s].costs) - Cardinality(ran'[m][s])
                      ELSE <<m, s, "ok">> \in todo' \/ ran'[m][s] = {}
    BY <1>1 DEF DatumsAreCounted, DatumsOf
  <2>1. Unfinished(m, s) /\ <<m, s, "error">> \notin todo'
    BY <1>1, <1>4 DEF Unfinished
  <2>2. CASE IsBatch(req[m][s].op)
    <3>1. <<m, s, 1>> \notin unit
      BY <1>10, <2>2
    <3>2. DatumsOf(unit, m, s) = {}
      <4>1. \A i : <<m, s, i>> \notin unit
        <5> TAKE i
        <5>1. <<m, s, i>>[1] = m /\ <<m, s, i>>[2] = s
          OBVIOUS
        <5> QED BY <1>5, <3>1, <5>1
      <4> QED BY <4>1 DEF DatumsOf
    <3>3. ran'[m][s] = ran[m][s]
      BY <1>7, <3>1
    <3> QED BY <2>1, <2>2, <3>2, <3>3 DEF CommandInv, DatumsAreCounted
  <2>3. CASE ~IsBatch(req[m][s].op)
    <3>1. ran[m][s] = {}
      BY <1>4, <2>1, <2>3 DEF CommandInv, DatumsAreCounted
    <3>2. CASE <<m, s, 1>> \notin unit
      BY <1>7, <2>3, <3>1, <3>2
    <3>3. CASE <<m, s, 1>> \in unit
      <4>1. <<m, s, 1>>[1] = m /\ <<m, s, 1>>[2] = s
        OBVIOUS
      <4>2. <<m, s, IF <<m, s, 1>> \in failed THEN "error" ELSE "ok">> \in todo'
        BY <1>2, <3>3, <4>1
      <4> QED BY <2>1, <2>3, <4>2
    <3> QED BY <3>2, <3>3
  <2> QED BY <2>2, <2>3
<1>13. OutcomesAreDue'
  <2>1. ASSUME NEW w \in todo'
        PROVE  \E d \in unit : /\ w = <<d[1], d[2], IF d \in failed THEN "error" ELSE "ok">>
                               /\ w[1] = d[1] /\ w[2] = d[2]
                               /\ w[3] = IF d \in failed THEN "error" ELSE "ok"
    BY <1>2
  <2>2. \A v, w \in todo' : v[1] = w[1] /\ v[2] = w[2] => v = w
    <3> SUFFICES ASSUME NEW v \in todo', NEW w \in todo', v[1] = w[1], v[2] = w[2] PROVE v = w
      OBVIOUS
    <3>1. PICK d \in unit : v = <<d[1], d[2], IF d \in failed THEN "error" ELSE "ok">> /\ v[1] = d[1] /\ v[2] = d[2]
      BY <2>1
    <3>2. PICK e \in unit : w = <<e[1], e[2], IF e \in failed THEN "error" ELSE "ok">> /\ w[1] = e[1] /\ w[2] = e[2]
      BY <2>1
    <3>3. d = e
      BY <1>5, <3>1, <3>2
    <3> QED BY <3>1, <3>2, <3>3
  <2>3. ASSUME NEW w \in todo'
        PROVE  /\ w[1] \in born /\ w[1] \in open /\ w[2] \in queued[w[1]]
               /\ w[3] = "ok" => ran'[w[1]][w[2]] = IF IsBatch(req[w[1]][w[2]].op)
                                                    THEN 1..Len(req[w[1]][w[2]].costs) ELSE {1}
               /\ w[3] = "error" /\ RetiresModel(req[w[1]][w[2]].op) => w[1] \in spoiled'
    <3>1. PICK d \in unit : /\ w[1] = d[1] /\ w[2] = d[2] /\ w[3] = IF d \in failed THEN "error" ELSE "ok"
      BY <2>1
    <3> DEFINE m == w[1]
               s == w[2]
    <3>2. m \in Model /\ s \in Seqs /\ d = <<m, s, 1>>
      BY <1>4, <1>5, <3>1
    <3> HIDE DEF m, s
    <3>3. /\ m \in open /\ m \in born /\ s \in queued[m] /\ ~IsBatch(req[m][s].op)
          /\ req[m][s].op = UnitOp(unit)
      BY <1>10, <3>2
    <3>4. ran[m][s] = {}
      BY <1>4, <3>2, <3>3 DEF CommandInv, DatumsAreCounted, Unfinished
    <3>5. w[3] = "ok" => ran'[m][s] = {1}
      <4>1. w[3] = "ok" => <<m, s, 1>> \in unit \ failed
        BY <3>1, <3>2
      <4>2. ASSUME w[3] = "ok" PROVE ran'[m][s] = {1}
        <5>1. DatumsOf(unit \ failed, m, s) = {1}
          BY <1>7, <3>2, <4>1, <4>2
        <5>2. ran'[m][s] = ran[m][s] \cup DatumsOf(unit \ failed, m, s)
          BY <1>6, <3>2
        <5>3. ran'[m][s] = {} \cup {1}
          BY <3>4, <5>1, <5>2
        <5> QED BY <5>3
      <4> QED BY <4>2
    <3>6. w[3] = "error" /\ RetiresModel(req[m][s].op) => m \in spoiled'
      <4>1. w[3] = "error" => d \in failed
        BY <3>1
      <4>2. d[1] = m
        BY <3>2
      <4> QED BY <1>2, <3>3, <4>1, <4>2 DEF RetiresModel
    <3> QED BY <3>3, <3>5, <3>6 DEF m, s
  <2>4. spoiled' \subseteq born
    BY <1>2, <1>4 DEF SlotInv, SlotsAreFresh
  <2>5. ASSUME NEW k \in spoiled' \cap open
        PROVE  \E s \in Seqs : <<k, s, "error">> \in todo' /\ RetiresModel(req[k][s].op)
    <3>1. PICK d \in failed : k = d[1] /\ ClosesModelOnFailure(UnitOp(unit))
      BY <1>2, <1>4
    <3>2. <<d[1], d[2], "error">> \in todo'
      BY <1>2, <3>1
    <3>3. d[2] \in Seqs /\ RetiresModel(req[d[1]][d[2]].op)
      BY <1>4, <3>1 DEF RetiresModel
    <3> QED BY <3>1, <3>2, <3>3
  <2> QED BY <1>1, <2>2, <2>3, <2>4, <2>5 DEF OutcomesAreDue
<1> QED BY <1>8, <1>9, <1>11, <1>12, <1>13 DEF CommandInv

\* A model whose adapter is loaded, cannot be loaded or lost its lease.
LEMMA CreatorKeepsCommands ==
    ASSUME SlotInv, CommandInv, NEW m \in Model, CreatorNext(m)
    PROVE  CommandInv'
<1>1. TypeOK
  BY DEF SlotInv
<1> USE DEF clientVars, recordVars, modelVars, queueVars, dispatchVars, taskVars, faultVars, trainerVars
<1>2. CASE CheckRecord(m) \/ AdapterLoadRaises(m) \/ FailedCreateEnds(m)
  BY <1>2, CommandsStay DEF CheckRecord, AdapterLoadRaises, FailedCreateEnds
<1>3. CASE AdapterLoaded(m)
  <2>1. /\ fut' = [fut EXCEPT ![m][0] = Settle(@, "done")] /\ creator[m] = "load" /\ ~stopped
        /\ UNCHANGED <<born, open, accepted, waiting, last, queued, req, ran, spoiled, unit, todo, dispatcher>>
    BY <1>3 DEF AdapterLoaded
  <2>2. m \in open /\ m \in born
    BY <2>1 DEF SlotInv, LoadsOnce, SlotsAreFresh
  <2>3. \A k \in Model, s \in Seqs : fut'[k][s] = fut[k][s]
    BY <1>1, <2>1, CommandTypes
  <2>4. \A k \in Model : k # m => fut'[k][0] = fut[k][0]
    BY <1>1, <2>1, CommandTypes
  <2> QED BY <1>1, <2>1, <2>2, <2>3, <2>4, FuturesMove
<1>4. CASE AdapterLoadFails(m)
  <2>1. /\ BeginClose(m) /\ creator[m] = "load" /\ ~stopped
        /\ UNCHANGED <<born, last, req, ran, spoiled, unit, todo, dispatcher>>
    BY <1>4 DEF AdapterLoadFails
  <2>2. ~Working
    BY <1>1, <2>1, OneWorker DEF SlotInv
  <2>3. unit = {}
    BY <2>2 DEF Working, CommandInv, UnitStaysReady
  <2>4. todo' \subseteq todo /\ \A v \in todo \ todo' : v[1] = m
    BY <2>1
  <2> QED BY <2>1, <2>3, <2>4, CloseKeepsCommands
<1> QED BY <1>2, <1>3, <1>4 DEF CreatorNext

LEMMA SweeperKeepsCommands ==
    ASSUME SlotInv, CommandInv, SweeperNext
    PROVE  CommandInv'
<1> USE DEF clientVars, recordVars, modelVars, queueVars, dispatchVars, taskVars, faultVars, trainerVars
<1>1. CASE SweeperWakes \/ ExpireSessions \/ SweepEnds
  BY <1>1, CommandsStay DEF SweeperWakes, ExpireSessions, SweepEnds
<1>2. ASSUME NEW m \in Model, ExpireModel(m)
      PROVE  CommandInv'
  <2>1. /\ BeginClose(m) /\ sweeper = "close" /\ ~stopped
        /\ UNCHANGED <<born, last, req, ran, spoiled, unit, todo, dispatcher>>
    BY <1>2 DEF ExpireModel
  <2>2. ~Working
    BY <2>1, OneWorker DEF SlotInv
  <2>3. unit = {}
    BY <2>2 DEF Working, CommandInv, UnitStaysReady
  <2>4. todo' \subseteq todo /\ \A v \in todo \ todo' : v[1] = m
    BY <2>1
  <2> QED BY <2>1, <2>3, <2>4, CloseKeepsCommands
<1> QED BY <1>1, <1>2 DEF SweeperNext

LEMMA CommandInductive == SlotInv /\ CommandInv /\ [Next]_vars => CommandInv'
<1> SUFFICES ASSUME SlotInv, CommandInv, [Next]_vars PROVE CommandInv'
  OBVIOUS
<1>0. TypeOK
  BY DEF SlotInv
<1> USE DEF clientVars, recordVars, modelVars, queueVars, dispatchVars, taskVars, faultVars, trainerVars
<1>1. CASE ClientNext
  <2>1. ASSUME NEW ses \in Session, CreateSession(ses) \/ LeaseLapses(ses) \/ Heartbeat(ses)
        PROVE  CommandInv'
    BY <2>1, CommandsStay DEF CreateSession, LeaseLapses, Heartbeat
  <2>2. ASSUME NEW ses \in Session, NEW k \in ModelSeqs, NEW m \in Model,
               CreateModel(ses, k, m) \/ RetryCreateModel(ses, k, m)
        PROVE  CommandInv'
    BY <1>0, <2>2, CreateKeepsCommands, RetriesKeepCommands
  <2>3. ASSUME NEW m \in Model, NEW s \in Seqs, RetrySubmit(m, s) \/ \E c \in Offers[m][s] : Submit(m, s, c)
        PROVE  CommandInv'
    BY <1>0, <2>3, SubmitKeepsCommands, RetriesKeepCommands
  <2>4. ASSUME NEW m \in Model, NEW s \in 0..MaxSeq, SweepFuture(m, s)
        PROVE  CommandInv'
    BY <1>0, <2>4, RetriesKeepCommands
  <2> QED BY <1>1, <2>1, <2>2, <2>3, <2>4 DEF ClientNext
<1>2. ASSUME NEW m \in Model, CreatorNext(m)
      PROVE  CommandInv'
  BY <1>2, CreatorKeepsCommands
<1>3. ASSUME NEW m \in Model, CloseNext(m)
      PROVE  CommandInv'
  BY <1>3, CommandsStay
     DEF CloseNext, CloseOnDeadTrainer, CloseAndFreeSlot, CloseAndLeakSlot, CloseRaises
<1>4. CASE SweeperNext
  BY <1>4, SweeperKeepsCommands
<1>5. CASE DispatcherNext
  <2>1. CASE DispatchTop \/ SelectNothing \/ Wake
    <3>1. dispatcher \in {"top", "select", "idle"}
      BY <2>1 DEF DispatchTop, SelectNothing, Wake
    <3>2. unit = {} /\ todo = {}
      BY <3>1 DEF CommandInv, UnitStaysReady, OutcomesAreDue
    <3> QED BY <2>1, <3>2, CommandsStay DEF DispatchTop, SelectNothing, Wake
  <2>2. CASE UnitRaises
    BY <2>2, CommandsStay DEF UnitRaises
  <2>3. CASE FinishEnds
    <3>1. unit = {} /\ todo = {}
      BY <2>3 DEF FinishEnds, CommandInv, UnitStaysReady
    <3> QED BY <2>3, <3>1, CommandsStay DEF FinishEnds
  <2>4. CASE SelectRejections \/ SelectUnit
    BY <2>4, RejectKeepsCommands, SelectKeepsCommands
  <2>5. CASE BatchReturns \/ BatchFails \/ BarrierReturns
    BY <2>5, ReturnKeepsCommands, FailureKeepsCommands, BarrierKeepsCommands
  <2>6. ASSUME NEW w \in Model \X Seqs \X {"ok", "error"}, FinishRequest(w)
        PROVE  CommandInv'
    BY <2>6, FinishKeepsCommands
  <2> QED BY <1>5, <2>1, <2>2, <2>3, <2>4, <2>5, <2>6 DEF DispatcherNext
<1>6. CASE UNCHANGED vars
  BY <1>6, CommandsStay DEF vars
<1> QED BY <1>1, <1>2, <1>3, <1>4, <1>5, <1>6 DEF Next, Halted

LEMMA CommandsStart == Init => CommandInv
<1> SUFFICES ASSUME Init PROVE CommandInv
  OBVIOUS
<1>1. /\ open = {} /\ born = {} /\ spoiled = {} /\ unit = {} /\ todo = {}
      /\ \A m \in Model : accepted[m] = {} /\ waiting[m] = {} /\ queued[m] = {} /\ last[m] = 0
      /\ \A m \in Model, s \in 0..MaxSeq : fut[m][s] = "none"
      /\ \A m \in Model, s \in Seqs : ran[m][s] = {}
      /\ Seqs \subseteq 0..MaxSeq /\ 0 \in 0..MaxSeq
  BY SchedulerAssumption DEF Init, Seqs
<1>2. UnsentIsUnknown /\ PendingIsQueued /\ DoneMeansExecuted
  BY <1>1 DEF UnsentIsUnknown, PendingIsQueued, Pending, DoneMeansExecuted
<1>3. QueuesAreContiguous /\ UnitStaysReady /\ OutcomesAreDue /\ DatumsAreCounted
  BY <1>1 DEF QueuesAreContiguous, UnitStaysReady, OutcomesAreDue, DatumsAreCounted, Unfinished
<1> QED BY <1>2, <1>3 DEF CommandInv

(***************************************************************************)
(* The command queues of ModelQueue, the unit at the trainer, the outcomes *)
(* of run() and the futures agree, for any commands in any order and any   *)
(* failures of the trainer.                                                *)
(***************************************************************************)
THEOREM CommandsAreConsistent == Spec => []CommandInv
<1>1. Init => CommandInv
  BY CommandsStart
<1>2. SlotInv /\ CommandInv /\ [Next]_vars => CommandInv'
  BY CommandInductive
<1> QED BY <1>1, <1>2, SlotsInvariant, PTL DEF Spec

(***************************************************************************)
(* No command overtakes an earlier one of its model across a barrier: what *)
(* open_batch_run and ready_barrier hand out stays ready while the unit is *)
(* at the trainer and clients keep sending.                                *)
(***************************************************************************)
THEOREM BarriersHoldBack == Spec => []UnitsRespectSeqOrder
<1>1. SlotInv /\ CommandInv => UnitsRespectSeqOrder
  <2> SUFFICES ASSUME SlotInv, CommandInv, NEW d \in unit, NEW t \in 1..(d[2] - 1)
               PROVE  /\ t \in accepted[d[1]]
                      /\ Pending(d[1], t) => /\ IsBatch(req[d[1]][t].op)
                                             /\ IsBatch(req[d[1]][d[2]].op)
    BY DEF UnitsRespectSeqOrder
  <2> DEFINE m == d[1]
             s == d[2]
  <2>1. TypeOK /\ dispatcher = "unit"
    BY DEF SlotInv, CommandInv, UnitStaysReady
  <2>2. m \in Model /\ s \in Seqs /\ m \in open /\ s \in queued[m]
    BY <2>1, UnitAtTrainer
  <2>3. IF IsBatch(req[m][s].op) THEN s \in OpenBatchRun(queued[m], req[m])
        ELSE s \in ReadyBarrier(queued[m], req[m])
    BY DEF CommandInv, UnitStaysReady
  <2>4. t \in 1..(s - 1)
    OBVIOUS
  <2> HIDE DEF m, s
  <2>5. last[m] \in 0..MaxSeq /\ MaxSeq \in Nat
    BY <2>1, <2>2, CommandTypes
  <2>6. s \in 1..last[m]
    BY <2>2 DEF CommandInv, QueuesAreContiguous
  <2>7. t \in 1..last[m] /\ t \in Seqs /\ t <= s /\ t # s /\ t \in Nat /\ s \in Nat
    BY <2>4, <2>5, <2>6 DEF Seqs
  <2>8. t \in accepted[m]
    BY <2>2, <2>7 DEF CommandInv, QueuesAreContiguous
  <2>9. ASSUME Pending(m, t)
        PROVE  IsBatch(req[m][t].op) /\ IsBatch(req[m][s].op)
    <3>1. t \in queued[m]
      BY <2>2, <2>7, <2>9 DEF CommandInv, PendingIsQueued, QueuesAreContiguous
    <3>2. s \notin ReadyBarrier(queued[m], req[m])
      BY <2>7, <3>1 DEF ReadyBarrier, IsHead
    <3> QED BY <2>3, <2>7, <3>1, <3>2 DEF OpenBatchRun
  <2> QED BY <2>8, <2>9 DEF m, s
<1> QED BY <1>1, SlotsInvariant, CommandsAreConsistent, PTL

(***************************************************************************)
(* Over retries, split requests, merged barriers and failures no datum is  *)
(* executed twice, a pending command is in its queue, and one reported as  *)
(* done was executed completely (ModelQueue, _complete_unit).              *)
(***************************************************************************)
THEOREM EachCommandRunsOnce == Spec => []CommandsRunOnce
<1>1. SlotInv /\ CommandInv => CommandsRunOnce
  <2> SUFFICES ASSUME SlotInv, CommandInv, NEW d \in unit PROVE d[3] \notin ran[d[1]][d[2]]
    BY DEF CommandsRunOnce, CommandInv, NothingRunsTwice
  <2> DEFINE m == d[1]
             s == d[2]
             i == d[3]
  <2>1. TypeOK /\ dispatcher = "unit"
    BY DEF SlotInv, CommandInv, UnitStaysReady
  <2>2. m \in Model /\ s \in Seqs /\ s \in queued[m] /\ i \in 1..MaxDatums /\ <<m, s, i>> \in unit /\ todo = {}
    BY <2>1, UnitAtTrainer DEF Datum
  <2> HIDE DEF m, s, i
  <2>3. Unfinished(m, s) /\ i \in DatumsOf(unit, m, s)
    BY <2>2 DEF Unfinished, DatumsOf
  <2>4. i \notin ran[m][s]
    BY <2>2, <2>3 DEF CommandInv, DatumsAreCounted
  <2> QED BY <2>4 DEF m, s, i
<1> QED BY <1>1, SlotsInvariant, CommandsAreConsistent, PTL

----------------------------------------------------------------------------
(* What a step may never do to futures and models *)

\* _close_model settles pending futures only.
LEMMA CloseSettlesPending ==
    ASSUME TypeOK, NEW m \in Model, BeginClose(m), NEW k \in Model, NEW s \in 0..MaxSeq
    PROVE  fut'[k][s] = fut[k][s] \/ fut[k][s] = "pending"
<1>1. CASE m \notin open
  BY <1>1 DEF BeginClose
<1>2. CASE m \in open
  <2>1. fut' = FailPending(m)
    BY <1>2 DEF BeginClose
  <2>2. CASE k # m
    BY <2>1, <2>2, CommandTypes DEF FailPending
  <2>3. CASE k = m
    <3>1. fut'[m][s] = IF s = 0 \/ s \in accepted[m] THEN Settle(fut[m][s], "failed") ELSE fut[m][s]
      BY <2>1, CommandTypes DEF FailPending
    <3> QED BY <2>3, <3>1 DEF Settle
  <2> QED BY <2>2, <2>3
<1> QED BY <1>1, <1>2

\* What may become of a future in one step.
Advances(old, new) ==
    \/ new = old
    \/ old \in {"none", "pending"}
    \/ old \in Settled /\ new = "swept"
    \/ old = "swept" /\ new = "expired"

\* One future is written: the others stay.
LEMMA OneFutureMoves ==
    ASSUME TypeOK, NEW m \in Model, NEW s \in 0..MaxSeq, NEW v,
           fut' = [fut EXCEPT ![m][s] = v], Advances(fut[m][s], v)
    PROVE  \A k \in Model, t \in 0..MaxSeq : Advances(fut[k][t], fut'[k][t])
<1>1. \A k \in Model, t \in 0..MaxSeq : fut'[k][t] = IF k = m /\ t = s THEN v ELSE fut[k][t]
  BY CommandTypes
<1> QED BY <1>1 DEF Advances

(***************************************************************************)
(* A verdict never changes (futures.resolve and futures.fail only touch a  *)
(* pending future; submit and create_model replace swept ones only).       *)
(***************************************************************************)
LEMMA FuturesAdvance ==
    SlotInv /\ CommandInv /\ [Next]_vars =>
        \A k \in Model, t \in 0..MaxSeq : Advances(fut[k][t], fut'[k][t])
<1> SUFFICES ASSUME SlotInv, CommandInv, [Next]_vars
             PROVE  \A k \in Model, t \in 0..MaxSeq : Advances(fut[k][t], fut'[k][t])
  OBVIOUS
<1>0. TypeOK /\ Seqs \subseteq 0..MaxSeq /\ 0 \in 0..MaxSeq
  BY CommandTypes DEF SlotInv
<1>1. ASSUME UNCHANGED fut
      PROVE  \A k \in Model, t \in 0..MaxSeq : Advances(fut[k][t], fut'[k][t])
  BY <1>1 DEF Advances
<1>2. ASSUME NEW m \in Model, BeginClose(m)
      PROVE  \A k \in Model, t \in 0..MaxSeq : Advances(fut[k][t], fut'[k][t])
  BY <1>0, <1>2, CloseSettlesPending DEF Advances
<1>3. CASE ClientNext
  <2>1. ASSUME NEW ses \in Session, CreateSession(ses) \/ LeaseLapses(ses) \/ Heartbeat(ses)
        PROVE  \A k \in Model, t \in 0..MaxSeq : Advances(fut[k][t], fut'[k][t])
    BY <1>1, <2>1 DEF CreateSession, LeaseLapses, Heartbeat
  <2>2. ASSUME NEW ses \in Session, NEW k \in ModelSeqs, NEW m \in Model, CreateModel(ses, k, m)
        PROVE  \A n \in Model, t \in 0..MaxSeq : Advances(fut[n][t], fut'[n][t])
    <3>1. fut' = [fut EXCEPT ![m][0] = "pending"] /\ fut[m][0] = "none"
      BY <2>2 DEF CreateModel, CommandInv, UnsentIsUnknown
    <3>2. Advances(fut[m][0], "pending")
      BY <3>1 DEF Advances
    <3> QED BY <1>0, <3>1, <3>2, OneFutureMoves
  <2>3. ASSUME NEW ses \in Session, NEW k \in ModelSeqs, NEW m \in Model, RetryCreateModel(ses, k, m)
        PROVE  \A n \in Model, t \in 0..MaxSeq : Advances(fut[n][t], fut'[n][t])
    <3>1. fut' = [fut EXCEPT ![m][0] = "expired"] /\ Advances(fut[m][0], "expired")
      BY <2>3 DEF RetryCreateModel, Advances
    <3> QED BY <1>0, <3>1, OneFutureMoves
  <2>4. ASSUME NEW m \in Model, NEW s \in Seqs, NEW c \in Offers[m][s], Submit(m, s, c)
        PROVE  \A n \in Model, t \in 0..MaxSeq : Advances(fut[n][t], fut'[n][t])
    <3>1. fut' = [fut EXCEPT ![m][s] = "pending"] /\ fut[m][s] = "none"
      BY <2>4 DEF Submit, IsRetry, CommandInv, UnsentIsUnknown
    <3>2. Advances(fut[m][s], "pending") /\ s \in 0..MaxSeq
      BY <1>0, <3>1 DEF Advances
    <3> QED BY <1>0, <3>1, <3>2, OneFutureMoves
  <2>5. ASSUME NEW m \in Model, NEW s \in Seqs, RetrySubmit(m, s)
        PROVE  \A n \in Model, t \in 0..MaxSeq : Advances(fut[n][t], fut'[n][t])
    <3>1. fut' = [fut EXCEPT ![m][s] = "expired"] /\ Advances(fut[m][s], "expired") /\ s \in 0..MaxSeq
      BY <1>0, <2>5 DEF RetrySubmit, Advances
    <3> QED BY <1>0, <3>1, OneFutureMoves
  <2>6. ASSUME NEW m \in Model, NEW s \in 0..MaxSeq, SweepFuture(m, s)
        PROVE  \A n \in Model, t \in 0..MaxSeq : Advances(fut[n][t], fut'[n][t])
    <3>1. fut' = [fut EXCEPT ![m][s] = "swept"] /\ Advances(fut[m][s], "swept")
      BY <2>6 DEF SweepFuture, Advances
    <3> QED BY <1>0, <3>1, OneFutureMoves
  <2> QED BY <1>3, <2>1, <2>2, <2>3, <2>4, <2>5, <2>6 DEF ClientNext
<1>4. ASSUME NEW m \in Model, CreatorNext(m)
      PROVE  \A k \in Model, t \in 0..MaxSeq : Advances(fut[k][t], fut'[k][t])
  <2>1. CASE AdapterLoaded(m)
    <3>1. fut' = [fut EXCEPT ![m][0] = Settle(fut[m][0], "done")]
      BY <2>1 DEF AdapterLoaded
    <3>2. Advances(fut[m][0], Settle(fut[m][0], "done"))
      BY DEF Advances, Settle
    <3> QED BY <1>0, <3>1, <3>2, OneFutureMoves
  <2>2. CASE AdapterLoadFails(m)
    BY <1>2, <2>2 DEF AdapterLoadFails
  <2>3. CASE CheckRecord(m) \/ AdapterLoadRaises(m) \/ FailedCreateEnds(m)
    BY <1>1, <2>3 DEF CheckRecord, AdapterLoadRaises, FailedCreateEnds
  <2> QED BY <1>4, <2>1, <2>2, <2>3 DEF CreatorNext
<1>5. ASSUME NEW m \in Model, CloseNext(m)
      PROVE  \A k \in Model, t \in 0..MaxSeq : Advances(fut[k][t], fut'[k][t])
  BY <1>1, <1>5 DEF CloseNext, CloseOnDeadTrainer, CloseAndFreeSlot, CloseAndLeakSlot, CloseRaises
<1>6. CASE SweeperNext
  BY <1>1, <1>2, <1>6 DEF SweeperNext, SweeperWakes, ExpireSessions, ExpireModel, SweepEnds
<1>7. CASE DispatcherNext
  <2>1. ASSUME NEW w \in Model \X Seqs \X {"ok", "error"}, FinishRequest(w)
        PROVE  \A k \in Model, t \in 0..MaxSeq : Advances(fut[k][t], fut'[k][t])
    <3> DEFINE m == w[1]
               s == w[2]
               v == Settle(fut[m][s], IF w[3] = "ok" THEN "done" ELSE "failed")
    <3>1. m \in Model /\ s \in 0..MaxSeq
      BY <1>0
    <3>2. BeginClose(m) \/ fut' = [fut EXCEPT ![m][s] = v]
      BY <2>1 DEF FinishRequest
    <3>3. Advances(fut[m][s], v)
      BY DEF Advances, Settle
    <3> HIDE DEF m, s, v
    <3> QED BY <1>0, <1>2, <3>1, <3>2, <3>3, OneFutureMoves
  <2>2. CASE DispatchTop \/ SelectRejections \/ SelectUnit \/ SelectNothing \/ Wake
    BY <1>1, <2>2 DEF DispatchTop, SelectRejections, SelectUnit, SelectNothing, Wake
  <2>3. CASE BatchReturns \/ BatchFails \/ BarrierReturns \/ UnitRaises \/ FinishEnds
    BY <1>1, <2>3 DEF BatchReturns, BatchFails, BarrierReturns, UnitRaises, FinishEnds
  <2> QED BY <1>7, <2>1, <2>2, <2>3 DEF DispatcherNext
<1>8. CASE UNCHANGED vars
  BY <1>1, <1>8 DEF vars
<1> QED BY <1>3, <1>4, <1>5, <1>6, <1>7, <1>8 DEF Next, Halted

(***************************************************************************)
(* A future that was resolved, failed or expired keeps its verdict until   *)
(* it is swept, and says from then on that it has expired, whatever        *)
(* retries and late outcomes meet (RequestFutureStore, create_model).      *)
(***************************************************************************)
THEOREM FuturesKeepTheirVerdict == Spec => VerdictsAreFinal
<1>1. SlotInv /\ CommandInv /\ [Next]_vars =>
         [\A m \in Model : \A s \in 0..MaxSeq :
             /\ fut[m][s] \in Settled => fut'[m][s] \in {fut[m][s], "swept"}
             /\ fut[m][s] = "swept" => fut'[m][s] \in {"swept", "expired"}]_vars
  <2> SUFFICES ASSUME SlotInv, CommandInv, [Next]_vars, NEW m \in Model, NEW s \in 0..MaxSeq
               PROVE  /\ fut[m][s] \in Settled => fut'[m][s] \in {fut[m][s], "swept"}
                      /\ fut[m][s] = "swept" => fut'[m][s] \in {"swept", "expired"}
    OBVIOUS
  <2>1. Advances(fut[m][s], fut'[m][s])
    BY FuturesAdvance
  <2> QED BY <2>1 DEF Advances, Settled
<1> QED BY <1>1, SlotsInvariant, CommandsAreConsistent, PTL DEF Spec, VerdictsAreFinal

(***************************************************************************)
(* A model that failed to train runs nothing any more: no unit at the      *)
(* trainer holds a command of it (_finish_request closes it before run()   *)
(* selects the next one).                                                  *)
(***************************************************************************)
THEOREM FailedModelsStop == Spec => FailedModelsRunNothing
<1>1. SlotInv /\ CommandInv /\ [Next]_vars =>
         [\A m \in spoiled : \A s \in Seqs : ran'[m][s] = ran[m][s]]_vars
  <2> SUFFICES ASSUME SlotInv, CommandInv, [Next]_vars, NEW m \in spoiled, NEW s \in Seqs
               PROVE  ran'[m][s] = ran[m][s]
    OBVIOUS
  <2>0. TypeOK /\ m \in Model
    BY CommandTypes DEF SlotInv
  <2>1. ASSUME NEW u \in SUBSET unit, dispatcher = "unit", ran' = Executed(u)
        PROVE  ran'[m][s] = ran[m][s]
    <3>1. DatumsOf(unit, m, s) = {}
      BY <2>0, <2>1, UnitAtTrainer
    <3>2. DatumsOf(u, m, s) = {}
      BY <3>1 DEF DatumsOf
    <3>3. ran'[m][s] = ran[m][s] \cup {}
      BY <2>0, <2>1, <3>2 DEF Executed
    <3> QED BY <3>3
  <2>2. CASE BatchReturns \/ BarrierReturns
    BY <2>1, <2>2 DEF BatchReturns, BarrierReturns
  <2>3. CASE UNCHANGED ran
    BY <2>3
  <2> USE DEF clientVars, recordVars, modelVars, queueVars, dispatchVars, taskVars, faultVars, trainerVars
  <2>4. CASE ClientNext
    <3>1. ASSUME NEW ses \in Session, NEW j \in ModelSeqs, NEW k \in Model,
                 \/ CreateSession(ses) \/ LeaseLapses(ses) \/ Heartbeat(ses)
                 \/ CreateModel(ses, j, k) \/ RetryCreateModel(ses, j, k)
          PROVE  UNCHANGED ran
      BY <3>1 DEF CreateSession, LeaseLapses, Heartbeat, CreateModel, RetryCreateModel
    <3>2. ASSUME NEW ses \in Session, CreateSession(ses) \/ LeaseLapses(ses) \/ Heartbeat(ses)
          PROVE  UNCHANGED ran
      BY <3>2 DEF CreateSession, LeaseLapses, Heartbeat
    <3>3. ASSUME NEW k \in Model, NEW t \in Seqs, RetrySubmit(k, t) \/ \E c \in Offers[k][t] : Submit(k, t, c)
          PROVE  UNCHANGED ran
      BY <3>3 DEF Submit, RetrySubmit
    <3>4. ASSUME NEW k \in Model, NEW t \in 0..MaxSeq, SweepFuture(k, t)
          PROVE  UNCHANGED ran
      BY <3>4 DEF SweepFuture
    <3> QED BY <2>3, <2>4, <3>1, <3>2, <3>3, <3>4 DEF ClientNext
  <2>5. ASSUME NEW k \in Model, CreatorNext(k) \/ CloseNext(k)
        PROVE  UNCHANGED ran
    BY <2>5 DEF CreatorNext, CheckRecord, AdapterLoaded, AdapterLoadFails, AdapterLoadRaises, FailedCreateEnds,
                CloseNext, CloseOnDeadTrainer, CloseAndFreeSlot, CloseAndLeakSlot, CloseRaises
  <2>6. CASE SweeperNext
    <3>1. UNCHANGED ran
      BY <2>6 DEF SweeperNext, SweeperWakes, ExpireSessions, ExpireModel, SweepEnds
    <3> QED BY <2>3, <3>1
  <2>7. CASE DispatcherNext
    <3>1. BatchReturns \/ BarrierReturns \/ UNCHANGED ran
      BY <2>7 DEF DispatcherNext, DispatchTop, SelectRejections, SelectUnit, SelectNothing, Wake,
                  BatchFails, UnitRaises, FinishRequest, FinishEnds
    <3> QED BY <2>2, <2>3, <3>1
  <2>8. CASE UNCHANGED vars
    BY <2>3, <2>8 DEF vars
  <2> QED BY <2>3, <2>4, <2>5, <2>6, <2>7, <2>8 DEF Next, Halted
<1> QED BY <1>1, SlotsInvariant, CommandsAreConsistent, PTL DEF Spec, FailedModelsRunNothing

----------------------------------------------------------------------------
(* Leases *)

\* What the sweeper is about to close has lost its lease for good, and an
\* open model without lease is one of those, unless a sweep was cut short.
LeaseInv ==
    /\ \A m \in expiring : m \in born /\ sessions[session[m]] = "expired"
    /\ \A m \in open :
          LeaseHeld(session[m]) \/ backgroundError \/ (sweeper = "close" /\ m \in expiring)

\* A step that touches neither sessions nor the sweeper, and opens nothing.
LEMMA LeasesStay ==
    ASSUME LeaseInv, open' \subseteq open, backgroundError => backgroundError',
           UNCHANGED <<sessions, session, born, sweeper, expiring>>
    PROVE  LeaseInv'
BY DEF LeaseInv, LeaseHeld

\* _close_model opens nothing.
LEMMA CloseOpensNothing ==
    ASSUME NEW m, BeginClose(m)
    PROVE  open' = open \ {m}
BY DEF BeginClose

LEMMA LeaseInductive == SlotInv /\ LeaseInv /\ [Next]_vars => LeaseInv'
<1> SUFFICES ASSUME SlotInv, LeaseInv, [Next]_vars PROVE LeaseInv'
  OBVIOUS
<1>0. /\ sessions \in [Session -> {"absent", "fresh", "stale", "expired"}]
      /\ session \in [Model -> Session] /\ open \subseteq born /\ born \subseteq Model
      /\ expiring \subseteq Model
  BY DEF SlotInv, TypeOK, SlotsAreFresh
<1> USE DEF clientVars, recordVars, modelVars, queueVars, dispatchVars, taskVars, faultVars, trainerVars
<1>1. CASE ClientNext
  <2>1. ASSUME NEW ses \in Session, CreateSession(ses) \/ LeaseLapses(ses) \/ Heartbeat(ses)
        PROVE  LeaseInv'
    <3>1. /\ UNCHANGED <<session, born, open, sweeper, expiring, backgroundError>>
          /\ \A x \in Session : /\ sessions[x] = "expired" => sessions'[x] = "expired"
                                /\ LeaseHeld(x) => LeaseHeld(x)'
      BY <1>0, <2>1 DEF CreateSession, LeaseLapses, Heartbeat, LeaseHeld
    <3>2. \A m \in expiring \cup open : session[m] \in Session
      BY <1>0
    <3> QED BY <3>1, <3>2 DEF LeaseInv
  <2>2. ASSUME NEW ses \in Session, NEW k \in ModelSeqs, NEW m \in Model, CreateModel(ses, k, m)
        PROVE  LeaseInv'
    <3>1. /\ m \notin born /\ born' = born \cup {m} /\ open' = open \cup {m} /\ LeaseHeld(ses)
          /\ session' = [session EXCEPT ![m] = ses]
          /\ UNCHANGED <<sessions, sweeper, expiring, backgroundError>>
      BY <2>2 DEF CreateModel
    <3>2. session'[m] = ses /\ \A n \in born : n # m /\ session'[n] = session[n]
      BY <1>0, <3>1
    <3> QED BY <1>0, <3>1, <3>2 DEF LeaseInv, LeaseHeld
  <2>3. ASSUME NEW ses \in Session, NEW k \in ModelSeqs, NEW m \in Model, RetryCreateModel(ses, k, m)
        PROVE  LeaseInv'
    BY <2>3, LeasesStay DEF RetryCreateModel
  <2>4. ASSUME NEW m \in Model, NEW s \in Seqs, RetrySubmit(m, s) \/ \E c \in Offers[m][s] : Submit(m, s, c)
        PROVE  LeaseInv'
    BY <2>4, LeasesStay DEF Submit, RetrySubmit
  <2>5. ASSUME NEW m \in Model, NEW s \in 0..MaxSeq, SweepFuture(m, s)
        PROVE  LeaseInv'
    BY <2>5, LeasesStay DEF SweepFuture
  <2> QED BY <1>1, <2>1, <2>2, <2>3, <2>4, <2>5 DEF ClientNext
<1>2. ASSUME NEW m \in Model, CreatorNext(m)
      PROVE  LeaseInv'
  <2>1. CASE AdapterLoadFails(m)
    <3>1. open' \subseteq open
      BY <2>1, CloseOpensNothing DEF AdapterLoadFails
    <3> QED BY <2>1, <3>1, LeasesStay DEF AdapterLoadFails
  <2>2. CASE AdapterLoadRaises(m)
    BY <2>2, LeasesStay DEF AdapterLoadRaises, TaskRaises
  <2>3. CASE CheckRecord(m) \/ AdapterLoaded(m) \/ FailedCreateEnds(m)
    BY <2>3, LeasesStay DEF CheckRecord, AdapterLoaded, FailedCreateEnds
  <2> QED BY <1>2, <2>1, <2>2, <2>3 DEF CreatorNext
<1>3. ASSUME NEW m \in Model, CloseNext(m)
      PROVE  LeaseInv'
  <2>1. CASE CloseRaises(m)
    <3>1. /\ UNCHANGED <<sessions, session, born, open, expiring>>
          /\ sweeper' = IF Holds(Sweeper) THEN "ended" ELSE sweeper
          /\ Holds(Dispatcher) \/ backgroundError' = TRUE
          /\ backgroundError' = backgroundError \/ backgroundError' = TRUE
      BY <2>1 DEF CloseRaises, TaskRaises
    <3>2. CASE Holds(Sweeper)
      BY <3>1, <3>2, TasksDiffer DEF LeaseInv, Holds
    <3>3. CASE ~Holds(Sweeper)
      BY <3>1, <3>3 DEF LeaseInv, LeaseHeld
    <3> QED BY <3>2, <3>3
  <2>2. CASE CloseOnDeadTrainer(m) \/ CloseAndFreeSlot(m) \/ CloseAndLeakSlot(m)
    BY <2>2, LeasesStay DEF CloseOnDeadTrainer, CloseAndFreeSlot, CloseAndLeakSlot
  <2> QED BY <1>3, <2>1, <2>2 DEF CloseNext
<1>4. CASE SweeperNext
  <2>1. CASE SweeperWakes
    BY <2>1 DEF SweeperWakes, LeaseInv, LeaseHeld
  <2>2. CASE ExpireSessions
    <3> DEFINE gone == {ses \in Session : sessions[ses] = "stale"}
    <3>1. /\ sweeper = "expire" /\ sweeper' = "close"
          /\ sessions' = [ses \in Session |-> IF ses \in gone THEN "expired" ELSE sessions[ses]]
          /\ expiring' = {m \in open : session[m] \in gone}
          /\ UNCHANGED <<session, born, open, backgroundError>>
      BY <2>2 DEF ExpireSessions, ModelsOf
    <3>2. \A m \in expiring' : m \in born' /\ sessions'[session'[m]] = "expired"
      BY <1>0, <3>1
    <3>3. \A m \in open : LeaseHeld(session[m])' \/ backgroundError \/ m \in expiring'
      <4> SUFFICES ASSUME NEW m \in open, ~backgroundError, m \notin expiring'
                   PROVE  LeaseHeld(session[m])'
        OBVIOUS
      <4>1. LeaseHeld(session[m]) /\ session[m] \in Session
        BY <1>0, <3>1 DEF LeaseInv
      <4>2. session[m] \notin gone
        BY <3>1
      <4> QED BY <3>1, <4>1, <4>2 DEF LeaseHeld
    <3> QED BY <3>1, <3>2, <3>3 DEF LeaseInv, LeaseHeld
  <2>3. ASSUME NEW m \in Model, ExpireModel(m)
        PROVE  LeaseInv'
    <3>1. /\ expiring' = expiring \ {m} /\ open' = open \ {m}
          /\ UNCHANGED <<sessions, session, born, sweeper, backgroundError>>
      BY <2>3, CloseOpensNothing DEF ExpireModel
    <3> QED BY <3>1 DEF LeaseInv, LeaseHeld
  <2>4. CASE SweepEnds
    BY <2>4 DEF SweepEnds, LeaseInv, LeaseHeld
  <2> QED BY <1>4, <2>1, <2>2, <2>3, <2>4 DEF SweeperNext
<1>5. CASE DispatcherNext
  <2>1. ASSUME NEW w \in Model \X Seqs \X {"ok", "error"}, FinishRequest(w)
        PROVE  LeaseInv'
    <3>1. open' \subseteq open
      BY <2>1, CloseOpensNothing DEF FinishRequest
    <3> QED BY <2>1, <3>1, LeasesStay DEF FinishRequest
  <2>2. CASE DispatchTop \/ SelectRejections \/ SelectUnit \/ SelectNothing \/ Wake
    BY <2>2, LeasesStay DEF DispatchTop, SelectRejections, SelectUnit, SelectNothing, Wake
  <2>3. CASE BatchReturns \/ BatchFails \/ BarrierReturns \/ FinishEnds
    BY <2>3, LeasesStay DEF BatchReturns, BatchFails, BarrierReturns, FinishEnds
  <2>4. CASE UnitRaises
    BY <2>4, LeasesStay DEF UnitRaises, TaskRaises
  <2> QED BY <1>5, <2>1, <2>2, <2>3, <2>4 DEF DispatcherNext
<1>6. CASE UNCHANGED vars
  BY <1>6, LeasesStay DEF vars
<1> QED BY <1>1, <1>2, <1>3, <1>4, <1>5, <1>6 DEF Next, Halted

LEMMA LeasesInvariant == Spec => []LeaseInv
<1>1. Init => LeaseInv
  BY DEF Init, LeaseInv
<1>2. SlotInv /\ LeaseInv /\ [Next]_vars => LeaseInv'
  BY LeaseInductive
<1> QED BY <1>1, <1>2, SlotsInvariant, PTL DEF Spec

(***************************************************************************)
(* Outside a sweep every open model has a session that still exists, also  *)
(* one created while _expire_sessions was closing others, unless a sweep   *)
(* was cut short by an exception.                                          *)
(***************************************************************************)
THEOREM LeasesAreReclaimed == Spec => []NoOrphanedModel
<1>1. LeaseInv => NoOrphanedModel
  BY DEF LeaseInv, NoOrphanedModel
<1> QED BY <1>1, LeasesInvariant, PTL

(***************************************************************************)
(* A model closes for a reason the documentation names: it failed to       *)
(* train, was rejected, could not be loaded or lost its lease              *)
(* (_finish_request, _run_create_model, _expire_sessions).                 *)
(***************************************************************************)
THEOREM NoModelClosesOtherwise == Spec => ModelsCloseForCause
<1> DEFINE Cause(m) == \/ m \in spoiled
                       \/ sessions[session[m]] = "expired"
                       \/ creator[m] = "load"
                       \/ \E s \in queued[m] : req[m][s].invalid /\ RetiresModel(req[m][s].op)
<1>1. SlotInv /\ CommandInv /\ LeaseInv /\ [Next]_vars => [\A m \in open \ open' : Cause(m)]_vars
  <2> SUFFICES ASSUME SlotInv, CommandInv, LeaseInv, [Next]_vars PROVE \A m \in open \ open' : Cause(m)
    OBVIOUS
  <2>1. ASSUME open \subseteq open' PROVE \A m \in open \ open' : Cause(m)
    BY <2>1
  <2> USE DEF clientVars, recordVars, modelVars, queueVars, dispatchVars, taskVars, faultVars, trainerVars
  <2>2. CASE ClientNext
    <3>1. ASSUME NEW ses \in Session, CreateSession(ses) \/ LeaseLapses(ses) \/ Heartbeat(ses)
          PROVE  open \subseteq open'
      BY <3>1 DEF CreateSession, LeaseLapses, Heartbeat
    <3>2. ASSUME NEW ses \in Session, NEW j \in ModelSeqs, NEW k \in Model,
                 CreateModel(ses, j, k) \/ RetryCreateModel(ses, j, k)
          PROVE  open \subseteq open'
      BY <3>2 DEF CreateModel, RetryCreateModel
    <3>3. ASSUME NEW k \in Model, NEW t \in Seqs, RetrySubmit(k, t) \/ \E c \in Offers[k][t] : Submit(k, t, c)
          PROVE  open \subseteq open'
      BY <3>3 DEF Submit, RetrySubmit
    <3>4. ASSUME NEW k \in Model, NEW t \in 0..MaxSeq, SweepFuture(k, t)
          PROVE  open \subseteq open'
      BY <3>4 DEF SweepFuture
    <3>5. open \subseteq open'
      BY <2>2, <3>1, <3>2, <3>3, <3>4 DEF ClientNext
    <3> QED BY <2>1, <3>5
  <2>3. ASSUME NEW k \in Model, CreatorNext(k)
        PROVE  \A m \in open \ open' : Cause(m)
    <3>1. CASE AdapterLoadFails(k)
      <4>1. open' = open \ {k} /\ creator[k] = "load"
        BY <3>1, CloseOpensNothing DEF AdapterLoadFails
      <4> QED BY <4>1
    <3>2. CASE CheckRecord(k) \/ AdapterLoaded(k) \/ AdapterLoadRaises(k) \/ FailedCreateEnds(k)
      <4>1. open \subseteq open'
        BY <3>2 DEF CheckRecord, AdapterLoaded, AdapterLoadRaises, FailedCreateEnds
      <4> QED BY <2>1, <4>1
    <3> QED BY <2>3, <3>1, <3>2 DEF CreatorNext
  <2>4. ASSUME NEW k \in Model, CloseNext(k)
        PROVE  open \subseteq open'
    BY <2>4 DEF CloseNext, CloseOnDeadTrainer, CloseAndFreeSlot, CloseAndLeakSlot, CloseRaises
  <2>5. CASE SweeperNext
    <3>1. ASSUME NEW k \in Model, ExpireModel(k)
          PROVE  \A m \in open \ open' : Cause(m)
      <4>1. open' = open \ {k} /\ k \in expiring
        BY <3>1, CloseOpensNothing DEF ExpireModel
      <4>2. sessions[session[k]] = "expired"
        BY <4>1 DEF LeaseInv
      <4> QED BY <4>1, <4>2
    <3>2. CASE SweeperWakes \/ ExpireSessions \/ SweepEnds
      <4>1. open \subseteq open'
        BY <3>2 DEF SweeperWakes, ExpireSessions, SweepEnds
      <4> QED BY <2>1, <4>1
    <3> QED BY <2>5, <3>1, <3>2 DEF SweeperNext
  <2>6. CASE DispatcherNext
    <3>1. ASSUME NEW w \in Model \X Seqs \X {"ok", "error"}, FinishRequest(w)
          PROVE  \A m \in open \ open' : Cause(m)
      <4> SUFFICES ASSUME NEW m \in open \ open' PROVE Cause(m)
        OBVIOUS
      <4>1. w \in todo /\ w[3] = "error" /\ RetiresModel(req[w[1]][w[2]].op) /\ m = w[1]
        BY <3>1, CloseOpensNothing DEF FinishRequest
      <4>2. w[2] \in queued[m] /\ (req[m][w[2]].invalid \/ m \in spoiled)
        BY <4>1 DEF CommandInv, OutcomesAreDue
      <4> QED BY <4>1, <4>2
    <3>2. CASE DispatchTop \/ SelectRejections \/ SelectUnit \/ SelectNothing \/ Wake
      <4>1. open \subseteq open'
        BY <3>2 DEF DispatchTop, SelectRejections, SelectUnit, SelectNothing, Wake
      <4> QED BY <2>1, <4>1
    <3>3. CASE BatchReturns \/ BatchFails \/ BarrierReturns \/ UnitRaises \/ FinishEnds
      <4>1. open \subseteq open'
        BY <3>3 DEF BatchReturns, BatchFails, BarrierReturns, UnitRaises, FinishEnds
      <4> QED BY <2>1, <4>1
    <3> QED BY <2>6, <3>1, <3>2, <3>3 DEF DispatcherNext
  <2>7. CASE UNCHANGED vars
    BY <2>7 DEF vars
  <2> QED BY <2>1, <2>2, <2>3, <2>4, <2>5, <2>6, <2>7 DEF Next, Halted
<1> QED BY <1>1, SlotsInvariant, CommandsAreConsistent, LeasesInvariant, PTL DEF Spec, ModelsCloseForCause

----------------------------------------------------------------------------
(* Adapters *)

\* The adapter of an open model is loaded, alone, once create_model is done,
\* and patient clients send nothing before.
AdapterInv ==
    /\ \A m \in open : initialized[m] => adapter[slot[m]] = {m}
    /\ ~EagerClients => \A m \in open : accepted[m] # {} => initialized[m]

\* A step that touches neither slots nor adapters.
LEMMA AdaptersStay ==
    ASSUME AdapterInv, open' \subseteq open, UNCHANGED <<initialized, slot, adapter>>,
           \A m \in open' : accepted'[m] = accepted[m]
    PROVE  AdapterInv'
BY DEF AdapterInv

\* _close_model lets the commands of the others alone.
LEMMA CloseSparesOthers ==
    ASSUME TypeOK, NEW m \in Model, BeginClose(m)
    PROVE  open' = open \ {m} /\ \A k \in open' : accepted'[k] = accepted[k]
BY CommandTypes DEF BeginClose

LEMMA AdapterInductive == SlotInv /\ CommandInv /\ AdapterInv /\ [Next]_vars => AdapterInv'
<1> SUFFICES ASSUME SlotInv, CommandInv, AdapterInv, [Next]_vars PROVE AdapterInv'
  OBVIOUS
<1>0. /\ TypeOK /\ open \subseteq born /\ open \subseteq Model /\ slot \in [Model -> Slots]
      /\ initialized \in [Model -> BOOLEAN] /\ adapter \in [Slots -> SUBSET Model]
      /\ accepted \in [Model -> SUBSET Seqs]
  BY DEF SlotInv, TypeOK, SlotsAreFresh
<1> USE DEF clientVars, recordVars, modelVars, queueVars, dispatchVars, taskVars, faultVars, trainerVars
<1>1. CASE ClientNext
  <2>1. ASSUME NEW ses \in Session, CreateSession(ses) \/ LeaseLapses(ses) \/ Heartbeat(ses)
        PROVE  AdapterInv'
    BY <2>1, AdaptersStay DEF CreateSession, LeaseLapses, Heartbeat
  <2>2. ASSUME NEW ses \in Session, NEW k \in ModelSeqs, NEW m \in Model, CreateModel(ses, k, m)
        PROVE  AdapterInv'
    <3>1. /\ m \notin born /\ open' = open \cup {m} /\ UNCHANGED <<initialized, adapter, accepted>>
      BY <2>2 DEF CreateModel
    <3>2. PICK j \in freeSlots : slot' = [slot EXCEPT ![m] = j]
      BY <2>2 DEF CreateModel
    <3>3. ~initialized[m] /\ accepted[m] = {}
      BY <1>0, <3>1 DEF SlotInv, LoadsOnce, CommandInv, UnsentIsUnknown
    <3>4. \A n \in open : n # m /\ slot'[n] = slot[n]
      BY <1>0, <3>1, <3>2
    <3> QED BY <3>1, <3>3, <3>4 DEF AdapterInv
  <2>3. ASSUME NEW ses \in Session, NEW k \in ModelSeqs, NEW m \in Model, RetryCreateModel(ses, k, m)
        PROVE  AdapterInv'
    BY <2>3, AdaptersStay DEF RetryCreateModel
  <2>4. ASSUME NEW m \in Model, NEW s \in Seqs, RetrySubmit(m, s)
        PROVE  AdapterInv'
    BY <2>4, AdaptersStay DEF RetrySubmit
  <2>5. ASSUME NEW m \in Model, NEW s \in Seqs, NEW c \in Offers[m][s], Submit(m, s, c)
        PROVE  AdapterInv'
    <3>1. /\ (EagerClients \/ initialized[m]) /\ UNCHANGED <<open, initialized, slot, adapter>>
          /\ accepted' = [accepted EXCEPT ![m] = @ \cup {s}]
      BY <2>5 DEF Submit
    <3>2. \A n \in Model : n # m => accepted'[n] = accepted[n]
      BY <1>0, <3>1
    <3>3. EagerClients \in BOOLEAN
      BY GatewayAssumption
    <3> QED BY <1>0, <2>5, <3>1, <3>2, <3>3 DEF AdapterInv, Submit
  <2>6. ASSUME NEW m \in Model, NEW s \in 0..MaxSeq, SweepFuture(m, s)
        PROVE  AdapterInv'
    BY <2>6, AdaptersStay DEF SweepFuture
  <2> QED BY <1>1, <2>1, <2>2, <2>3, <2>4, <2>5, <2>6 DEF ClientNext
<1>2. ASSUME NEW m \in Model, CreatorNext(m)
      PROVE  AdapterInv'
  <2>1. CASE AdapterLoaded(m)
    <3>1. /\ creator[m] = "load" /\ ~stopped
          /\ adapter' = [adapter EXCEPT ![slot[m]] = @ \cup {m}]
          /\ initialized' = [initialized EXCEPT ![m] = TRUE]
          /\ UNCHANGED <<open, accepted, slot>>
      BY <2>1 DEF AdapterLoaded
    <3>2. m \in open /\ ~initialized[m] /\ adapter[slot[m]] = {}
      BY <3>1 DEF SlotInv, LoadsOnce, SlotsAreFresh
    <3>3. adapter'[slot[m]] = {m}
      BY <1>0, <3>1, <3>2
    <3>4. \A n \in open : n # m => slot[n] # slot[m] /\ adapter'[slot[n]] = adapter[slot[n]]
      BY <1>0, <3>1, <3>2 DEF SlotInv, SlotExclusive
    <3>5. initialized'[m] /\ \A n \in Model : n # m => initialized'[n] = initialized[n]
      BY <1>0, <3>1
    <3> QED BY <1>0, <3>1, <3>3, <3>4, <3>5 DEF AdapterInv
  <2>2. CASE AdapterLoadFails(m)
    <3>1. /\ creator[m] = "load" /\ ~stopped /\ BeginClose(m)
          /\ adapter' = [adapter EXCEPT ![slot[m]] = @ \cup {m}]
          /\ initialized' = [initialized EXCEPT ![m] = TRUE] /\ UNCHANGED slot
      BY <2>2 DEF AdapterLoadFails, InitializedAfterFailedLoad
    <3>2. m \in open
      BY <3>1 DEF SlotInv, LoadsOnce
    <3>3. open' = open \ {m} /\ \A k \in open' : accepted'[k] = accepted[k]
      BY <1>0, <3>1, CloseSparesOthers
    <3>4. \A n \in open : n # m => slot[n] # slot[m] /\ adapter'[slot[n]] = adapter[slot[n]]
                                   /\ initialized'[n] = initialized[n]
      BY <1>0, <3>1, <3>2 DEF SlotInv, SlotExclusive
    <3> QED BY <3>1, <3>3, <3>4 DEF AdapterInv
  <2>3. CASE CheckRecord(m) \/ AdapterLoadRaises(m) \/ FailedCreateEnds(m)
    BY <2>3, AdaptersStay DEF CheckRecord, AdapterLoadRaises, FailedCreateEnds
  <2> QED BY <1>2, <2>1, <2>2, <2>3 DEF CreatorNext
<1>3. ASSUME NEW m \in Model, CloseNext(m)
      PROVE  AdapterInv'
  <2>1. CASE CloseAndFreeSlot(m)
    <3>1. /\ closing = {m} /\ UNCHANGED <<open, initialized, accepted, slot>>
          /\ adapter' = IF initialized[m] THEN [adapter EXCEPT ![slot[m]] = {}] ELSE adapter
      BY <2>1 DEF CloseAndFreeSlot
    <3>2. \A n \in open : slot[n] # slot[m]
      BY <3>1 DEF SlotInv, SlotExclusive, SlotsAreFresh
    <3>3. \A n \in open : adapter'[slot[n]] = adapter[slot[n]]
      BY <1>0, <3>1, <3>2
    <3> QED BY <3>1, <3>3 DEF AdapterInv
  <2>2. CASE CloseOnDeadTrainer(m) \/ CloseAndLeakSlot(m) \/ CloseRaises(m)
    BY <2>2, AdaptersStay DEF CloseOnDeadTrainer, CloseAndLeakSlot, CloseRaises
  <2> QED BY <1>3, <2>1, <2>2 DEF CloseNext
<1>4. CASE SweeperNext
  <2>1. ASSUME NEW m \in Model, ExpireModel(m)
        PROVE  AdapterInv'
    <3>1. BeginClose(m) /\ UNCHANGED <<initialized, slot, adapter>>
      BY <2>1 DEF ExpireModel
    <3>2. open' \subseteq open /\ \A k \in open' : accepted'[k] = accepted[k]
      BY <1>0, <3>1, CloseSparesOthers
    <3> QED BY <3>1, <3>2, AdaptersStay
  <2>2. CASE SweeperWakes \/ ExpireSessions \/ SweepEnds
    BY <2>2, AdaptersStay DEF SweeperWakes, ExpireSessions, SweepEnds
  <2> QED BY <1>4, <2>1, <2>2 DEF SweeperNext
<1>5. CASE DispatcherNext
  <2>1. ASSUME NEW w \in Model \X Seqs \X {"ok", "error"}, FinishRequest(w)
        PROVE  AdapterInv'
    <3>1. w[1] \in Model /\ UNCHANGED <<initialized, slot, adapter>>
          /\ (BeginClose(w[1]) \/ UNCHANGED <<open, accepted>>)
      BY <2>1 DEF FinishRequest
    <3>2. open' \subseteq open /\ \A k \in open' : accepted'[k] = accepted[k]
      BY <1>0, <3>1, CloseSparesOthers
    <3> QED BY <3>1, <3>2, AdaptersStay
  <2>2. CASE DispatchTop \/ SelectRejections \/ SelectUnit \/ SelectNothing \/ Wake
    BY <2>2, AdaptersStay DEF DispatchTop, SelectRejections, SelectUnit, SelectNothing, Wake
  <2>3. CASE BatchReturns \/ BatchFails \/ BarrierReturns \/ UnitRaises \/ FinishEnds
    BY <2>3, AdaptersStay DEF BatchReturns, BatchFails, BarrierReturns, UnitRaises, FinishEnds
  <2> QED BY <1>5, <2>1, <2>2, <2>3 DEF DispatcherNext
<1>6. CASE UNCHANGED vars
  BY <1>6, AdaptersStay DEF vars
<1> QED BY <1>1, <1>2, <1>3, <1>4, <1>5, <1>6 DEF Next, Halted

(***************************************************************************)
(* When clients wait for create_model before they send commands, the       *)
(* trainer finds the adapter of the model, and no other, in its slot       *)
(* (_run_create_model, _close_model).                                      *)
(***************************************************************************)
THEOREM UnitsFindAdapters ==
    ASSUME ~EagerClients
    PROVE  Spec => []UnitsFindTheirAdapter
<1>1. Init => AdapterInv
  BY DEF Init, AdapterInv
<1>2. SlotInv /\ CommandInv /\ AdapterInv /\ [Next]_vars => AdapterInv'
  BY AdapterInductive
<1>3. SlotInv /\ CommandInv /\ AdapterInv => UnitsFindTheirAdapter
  <2> SUFFICES ASSUME SlotInv, CommandInv, AdapterInv, NEW d \in unit
               PROVE  d[1] \in open /\ initialized[d[1]] /\ adapter[slot[d[1]]] = {d[1]}
    BY DEF UnitsFindTheirAdapter
  <2>1. TypeOK /\ dispatcher = "unit"
    BY DEF SlotInv, CommandInv, UnitStaysReady
  <2>2. d[1] \in open /\ d[2] \in accepted[d[1]]
    BY <2>1, UnitAtTrainer
  <2> QED BY <2>2 DEF AdapterInv
<1> QED BY <1>1, <1>2, <1>3, SlotsInvariant, CommandsAreConsistent, PTL DEF Spec

=============================================================================
