-------------------------- MODULE TinkerScheduler --------------------------
(***************************************************************************)
(* The per-model command queues of the Tinker gateway                      *)
(* (miles/tinker/core/model_queue.py) and the unit selection over them     *)
(* (miles/tinker/core/scheduler.py), as operators on                       *)
(*                                                                         *)
(*   queued[m]  the seq ids in the deque of model m.  Commands are         *)
(*              appended in seq order and removed when they finish, so the *)
(*              deque is the set of its seq ids read in increasing order;  *)
(*   req[m][s]  the PendingRequest of command s of model m: its content,   *)
(*              its arrival number, how many datums were issued to the     *)
(*              trainer and how many have not reported yet.                *)
(*                                                                         *)
(* A datum is a <<m, s, i>>: the i-th datum of request s of model m.  A    *)
(* barrier is the <<m, s, 1>> of its only, indivisible effect.             *)
(***************************************************************************)
EXTENDS Integers, FiniteSets, Sequences, FiniteSetsExt

CONSTANTS Model,        \* model ids (uuids handed out by create_model)
          MaxSeq,       \* bound: a client numbers its commands 1..MaxSeq
          MaxDatums,    \* bound: datums of one forward_backward request
          TokenBudget,  \* config.batch_token_budget
          PackKeys      \* the (loss_fn, loss_fn_config) pairs in use

ASSUME SchedulerAssumption ==
    /\ MaxSeq \in Nat \ {0}
    /\ MaxDatums \in Nat \ {0}
    /\ TokenBudget \in Nat
    /\ PackKeys # {}

Seqs == 1..MaxSeq

Datum == Model \X Seqs \X (1..MaxDatums)

BatchOps == {"forward_backward", "forward_only"}
BarrierOps == {"optim_step", "save_state", "load_state",
               "save_weights_for_sampler"}
CommandOp == BatchOps \cup BarrierOps

\* CommandOp.is_batch and CommandOp.requires_model_close_on_failure
IsBatch(op) == op \in BatchOps
ClosesModelOnFailure(op) ==
    op \in {"forward_backward", "optim_step", "load_state"}

(***************************************************************************)
(* A command as the client sends it: costs[i] is the number of tokens of   *)
(* datum i, invalid says that it carries a validation_error.               *)
(***************************************************************************)
Command ==
    {c \in [op : CommandOp, key : PackKeys, costs : Seq(Nat),
            invalid : BOOLEAN] : Len(c.costs) <= MaxDatums}

Request ==
    [op : CommandOp, key : PackKeys, costs : Seq(Nat), invalid : BOOLEAN,
     arrival : Nat, issued : Nat, remaining : Int]

\* The PendingRequest of a command: only a valid batch command has datums.
NewRequest(c, arrival) ==
    [op |-> c.op, key |-> c.key, invalid |-> c.invalid, arrival |-> arrival,
     costs |-> IF IsBatch(c.op) /\ ~c.invalid THEN c.costs ELSE << >>,
     issued |-> 0,
     remaining |-> IF IsBatch(c.op) /\ ~c.invalid THEN Len(c.costs) ELSE 0]

----------------------------------------------------------------------------
(* model_queue.py *)

\* _enqueue_contiguous_commands: the last seq id reached from last when the
\* commands in waiting are taken one after the other.
LastContiguous(last, waiting) ==
    CHOOSE n \in last..MaxSeq : /\ (last + 1)..n \subseteq waiting
                                /\ n + 1 \notin waiting

\* open_batch_run: the leading batch commands, up to the first barrier or
\* rejected command.
OpenBatchRun(q, r) ==
    {s \in q : \A t \in q : t <= s => IsBatch(r[t].op) /\ ~r[t].invalid}

IsHead(q, s) == s \in q /\ \A t \in q : s <= t

\* Wrong variant: the first barrier is ready although batch commands precede it.
ReadyBarrierAnywhere(q, r) ==
    {s \in q : ~IsBatch(r[s].op) /\ ~r[s].invalid
               /\ \A t \in q : t < s => IsBatch(r[t].op)}

\* ready_barrier: the head, when it is a barrier without validation error.
ReadyBarrier(q, r) ==
    {s \in q : IsHead(q, s) /\ ~IsBatch(r[s].op) /\ ~r[s].invalid}

----------------------------------------------------------------------------
(* scheduler.py *)

\* ready_rejections: every head that carries a validation error.
ReadyRejections(open, queued, req) ==
    {w \in open \X Seqs : /\ IsHead(queued[w[1]], w[2])
                          /\ req[w[1]][w[2]].invalid}

ReadyDatums(open, queued, req) ==
    {d \in Datum : /\ d[1] \in open
                   /\ d[2] \in OpenBatchRun(queued[d[1]], req[d[1]])
                   /\ d[3] \in (req[d[1]][d[2]].issued + 1)
                               ..Len(req[d[1]][d[2]].costs)}

ReadyBarriers(open, queued, req) ==
    {d \in Datum : /\ d[1] \in open
                   /\ d[2] \in ReadyBarrier(queued[d[1]], req[d[1]])
                   /\ d[3] = 1}

Arrival(req, d) == req[d[1]][d[2]].arrival
Cost(req, d) == req[d[1]][d[2]].costs[d[3]]
PackKey(req, d) == <<req[d[1]][d[2]].op, req[d[1]][d[2]].key>>

\* The (arrival, local_index) order of _pack_batch.
Precedes(req, d, e) ==
    \/ Arrival(req, d) < Arrival(req, e)
    \/ Arrival(req, d) = Arrival(req, e) /\ d[3] <= e[3]

IsFirst(req, D, d) == d \in D /\ \A e \in D : Precedes(req, d, e)

\* _pack_batch: the compatible datums in arrival order, up to the first that
\* does not fit in the token budget; the seed goes even when it alone
\* exceeds it.
PackBatch(req, seed, datums) ==
    LET compatible == {d \in datums : PackKey(req, d) = PackKey(req, seed)}
        TokensThrough(d) ==
            MapThenSumSet(LAMBDA e : Cost(req, e),
                          {e \in compatible : Precedes(req, e, d)})
        Fits(d) == d = seed \/ TokensThrough(d) <= TokenBudget
    IN  {d \in compatible :
            \A e \in compatible : Precedes(req, e, d) => Fits(e)}

\* _merge_barriers: the ready optim_steps of all models go together, any
\* other barrier goes alone.
MergeBarriers(req, seed, barriers) ==
    IF req[seed[1]][seed[2]].op = "optim_step"
    THEN {d \in barriers : req[d[1]][d[2]].op = "optim_step"}
    ELSE {seed}

\* schedule_next: the set of units it may return, empty or a singleton (the
\* arrival numbers of two requests differ).
NextUnits(open, queued, req) ==
    LET datums == ReadyDatums(open, queued, req)
        barriers == ReadyBarriers(open, queued, req)
    IN  {PackBatch(req, d, datums) :
            d \in {e \in datums : /\ IsFirst(req, datums, e)
                                  /\ \A b \in barriers :
                                        Arrival(req, e) <= Arrival(req, b)}}
        \cup
        {MergeBarriers(req, b, barriers) :
            b \in {e \in barriers : /\ IsFirst(req, barriers, e)
                                    /\ \A d \in datums :
                                          Arrival(req, e) < Arrival(req, d)}}

\* The requests that have datums in unit, and which of their datums.
RequestsOf(unit) == {<<d[1], d[2]>> : d \in unit}
DatumsOf(unit, m, s) == {i \in 1..MaxDatums : <<m, s, i>> \in unit}

\* num_issued_datums += 1 for every datum picked.
Issue(req, unit) ==
    [m \in Model |-> [s \in Seqs |->
        [req[m][s] EXCEPT !.issued = @ + Cardinality(DatumsOf(unit, m, s))]]]
=============================================================================
