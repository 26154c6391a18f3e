------------------------- MODULE TrainerGroupProofs -------------------------
(***************************************************************************)
(* Proofs about the trainer controller and its cells, for any number of    *)
(* cells, attempts, rollouts and replacements.  GroupInv is inductive; it  *)
(* carries the membership of the process groups over failed preparations   *)
(* and replaced cells, and says that the transfers of a preparation meet.  *)
(* Where the gradient exchange ends alike at all cells and bad gradients   *)
(* raise, WeightsInv is inductive as well, and from it follow the          *)
(* agreement of the replicas, that every rollout is applied once, and that *)
(* publications never go back.                                             *)
(***************************************************************************)
EXTENDS TrainerGroup, WellFoundedInduction, TLAPS

USE TrainerGroupAssumption

----------------------------------------------------------------------------
(* Types and the least cell *)

Steps == (0 .. MaxRollouts) \X (0 .. MaxAttempts) \X SUBSET Cells
CellRecord == [state : {"uninitialized", "alive", "errored", "absent"},
               gen : 0 .. MaxGenerations, info : Info, weights : Models, trained : BOOLEAN]
Statuses == Unresolved \cup {"none", "ok", "failed", "normal", "discarded"}
Call == [gen : 0 .. MaxGenerations, st : Statuses]

LEMMA CellsAreRecords == TypeOK => cell \in [Cells -> CellRecord] /\ task \in [Cells -> Call]
BY DEF TypeOK, CellRecord, Models, Call, Statuses

LEMMA TypeOfCells ==
    (/\ cell \in [Cells -> CellRecord] /\ task \in [Cells -> Call]
     /\ quorum \in Nat
     /\ op \in {"none", "train", "publish", "all"}
     /\ phase \in {"idle", "attempt", "preparing", "training", "calling", "fatal"}
     /\ rollout \in 0 .. MaxRollouts /\ attempt \in 0 .. MaxAttempts
     /\ plan \in [alive : SUBSET Cells, heal : SUBSET Cells, sent : SUBSET Cells]
     /\ exchange \in {"open", "broken"} \cup Exchanged
     /\ published \in Models) <=> TypeOK
BY Zenon DEF TypeOK, CellRecord, Models, Call, Statuses

\* What is known of one cell and of the call made to it.
LEMMA CellType ==
    ASSUME TypeOK, NEW i \in Cells
    PROVE  /\ cell[i] \in CellRecord /\ task[i] \in Call
           /\ cell[i].state \in {"uninitialized", "alive", "errored", "absent"}
           /\ cell[i].gen \in 0 .. MaxGenerations /\ cell[i].gen \in Nat
           /\ cell[i].info \in Info /\ cell[i].info.quorum \in Nat /\ cell[i].info.members \in SUBSET Cells
           /\ cell[i].weights \in Models
           /\ task[i].gen \in 0 .. MaxGenerations /\ task[i].gen \in Nat
           /\ task[i].st \in Statuses
<1>1. cell[i] \in CellRecord /\ task[i] \in Call
  BY CellsAreRecords
<1> QED
  BY <1>1 DEF CellRecord, Info, Call

\* A set of cells that is not empty has a least one, which Min names.
LEMMA MinIsIn ==
    ASSUME NEW S \in SUBSET Cells, S # {}
    PROVE  Min(S) \in S
<1>1. S \subseteq Nat
  BY DEF Cells
<1>2. \E x \in S : \A y \in S : ~ (<<y, x>> \in OpToRel(<, Nat))
  BY <1>1, NatLessThanWellFounded, WFMin
<1>3. PICK x \in S : \A y \in S : ~ (<<y, x>> \in OpToRel(<, Nat))
  BY <1>2
<1>4. \A y \in S : ~ (y < x)
  BY <1>1, <1>3 DEF OpToRel
<1>5. \A y \in S : x =< y
  BY <1>1, <1>4
<1> QED
  BY <1>5 DEF Min

----------------------------------------------------------------------------
(* The membership of the group *)

Core == TypeOK /\ CallsFitPhase /\ AliveTakePart /\ QuorumsAreNew

\* One id, one membership, and one group for those that train: both are
\* read off the account of the calls.
LEMMA CoreSuffices == Core /\ TransfersMeet => GroupInv
<1> SUFFICES ASSUME Core, TransfersMeet PROVE GroupInv
  OBVIOUS
<1>1. QuorumNamesOneMembership
  BY DEF Core, QuorumNamesOneMembership, QuorumsAreNew
<1>2. TrainersShareAGroup
  BY DEF Core, TrainersShareAGroup, With, CallsFitPhase, AliveTakePart, Alive, InState
<1> QED
  BY <1>1, <1>2 DEF Core, GroupInv

LEMMA InitCore == Init => Core
<1> SUFFICES ASSUME Init PROVE Core
  OBVIOUS
<1>1. \A i \in Cells : /\ cell[i].state = "alive" /\ cell[i].gen = 0 /\ cell[i].weights = << >>
                       /\ cell[i].trained = FALSE
                       /\ cell[i].info = [quorum |-> 0, members |-> Cells]
  BY DEF Init, Fresh, Trivial
<1>2. TypeOK
  <2>2. /\ [quorum |-> 0, members |-> Cells] \in Info /\ << >> \in Models
        /\ 0 \in 0 .. MaxGenerations /\ 0 \in 0 .. MaxRollouts /\ 0 \in 0 .. MaxAttempts
        /\ Trivial \in Info
    BY DEF Info, Models, Trivial
  <2>3. [Fresh(0) EXCEPT !.state = "alive", !.info = [quorum |-> 0, members |-> Cells]] \in CellRecord
    <3>1. Fresh(0) \in CellRecord
      BY <2>2, Zenon DEF Fresh, CellRecord
    <3> QED
      BY <2>2, <3>1, Zenon DEF CellRecord
  <2>4. cell \in [Cells -> CellRecord] /\ task \in [Cells -> Call]
    BY <2>2, <2>3 DEF Init, Idle, Call, Statuses
  <2> QED
    BY <2>2, <2>4, TypeOfCells DEF Init, NoPlan
<1> QED
  BY <1>1, <1>2 DEF Core, Init, CallsFitPhase, AliveTakePart, QuorumsAreNew, Alive, InState, Current, Idle

\* A cell that disappears, appears or is replaced is not alive, and no call
\* awaited was made on it.
LEMMA ReconcileStep ==
    ASSUME Core, NEW i \in Cells, RemoveCell(i) \/ AddCell(i) \/ ReplaceCell(i)
    PROVE  Core'
<1> USE DEF Core
<1>1. /\ cell' \in [Cells -> CellRecord]
      /\ \A k \in Cells : k # i => cell'[k] = cell[k]
      /\ cell'[i].state # "alive"
      /\ cell'[i].state = "absent" \/ (cell'[i].gen = cell[i].gen + 1 /\ cell'[i].state = "uninitialized")
      /\ cell'[i].gen >= cell[i].gen /\ cell'[i].gen \in Nat
      /\ cell'[i].state = "absent" => cell'[i].gen < MaxGenerations
      /\ cell'[i].info \in {cell[i].info, Trivial}
  <2>1. CASE RemoveCell(i)
    <3>1. [cell[i] EXCEPT !.state = "absent"] \in CellRecord
      <4>1. cell[i] \in CellRecord
        BY CellType
      <4> QED
        BY <4>1, Zenon DEF CellRecord
    <3> QED
      BY <2>1, <3>1, CellsAreRecords, CellType DEF RemoveCell, CellRecord
  <2>2. CASE AddCell(i) \/ ReplaceCell(i)
    <3>1. cell' = [cell EXCEPT ![i] = Fresh(cell[i].gen + 1)] /\ cell[i].gen < MaxGenerations
      BY <2>2 DEF AddCell, ReplaceCell, CallsFitPhase
    <3>2. cell[i].gen + 1 \in 0 .. MaxGenerations
      BY <3>1, CellType
    <3>3. Trivial \in Info /\ << >> \in Models
      BY DEF Trivial, Info, Models
    <3>4. Fresh(cell[i].gen + 1) \in CellRecord
      BY <3>2, <3>3, Zenon DEF Fresh, CellRecord
    <3> QED
      BY <3>1, <3>4, CellsAreRecords, CellType DEF Fresh
  <2> QED
    BY <2>1, <2>2
<1>2. UNCHANGED <<quorum, phase, attempt, plan, task, exchange, op, rollout, published>>
  BY DEF RemoveCell, AddCell, ReplaceCell, driverVars
<1>3. TypeOK'
  <2>1. cell' \in [Cells -> CellRecord]
    BY <1>1
  <2> QED
    BY <1>2, <2>1, Zenon DEF TypeOK, CellRecord, Models
<1>4. ~Current(i)'
  BY <1>1, <1>2, CellType DEF Current, CallsFitPhase
<1>5. \A k \in Cells : k # i => (Current(k)' <=> Current(k))
  BY <1>1, <1>2 DEF Current
<1>6. CallsFitPhase'
  <2>1. \A k \in Cells : task[k].gen <= cell'[k].gen
    <3>1. \A k \in Cells : task[k].gen <= cell[k].gen
      BY DEF CallsFitPhase
    <3>2. task[i].gen <= cell'[i].gen
      BY <1>1, <3>1, CellType
    <3> QED
      BY <1>1, <3>1, <3>2
  <2>2. \A k \in Cells : Current(k)' => cell'[k] = cell[k] /\ Current(k)
    BY <1>1, <1>4, <1>5
  <2>3. \A k \in Cells : cell'[k].state = "absent" => cell'[k].gen < MaxGenerations
    BY <1>1 DEF CallsFitPhase
  <2> QED
    BY <1>2, <2>1, <2>2, <2>3 DEF CallsFitPhase
<1>7. Alive' \subseteq Alive \ {i}
  BY <1>1 DEF Alive, InState
<1>8. AliveTakePart'
  <2>1. \A k \in Alive' : k \in Alive /\ cell'[k] = cell[k] /\ (Current(k)' <=> Current(k))
    BY <1>1, <1>5, <1>7 DEF Alive, InState
  <2>2. NewInfo' = NewInfo
    BY <1>2 DEF NewInfo, Target
  <2> QED
    BY <1>2, <2>1, <2>2 DEF AliveTakePart
<1>9. QuorumsAreNew'
  <2>1. NewInfo' = NewInfo
    BY <1>2 DEF NewInfo, Target
  <2>2. \A k \in Cells : cell'[k].info = cell[k].info \/ cell'[k].info = Trivial
    BY <1>1
  <2>3. Trivial.quorum = 0 /\ quorum \in Nat
    BY DEF Trivial, TypeOK
  <2> QED
    BY <1>2, <2>1, <2>2, <2>3 DEF QuorumsAreNew
<1> QED
  BY <1>3, <1>6, <1>8, <1>9

\* A call of the driver, or an attempt of it, ends: no call is awaited.
LEMMA EndStep ==
    ASSUME Core, phase = "preparing" => Awaited = {},
           UNCHANGED <<cell, quorum, published>>, plan' = NoPlan, task' = Idle, exchange' = "open",
           phase' \in {"idle", "attempt", "fatal"},
           op' \in {"none", op}, rollout' \in 0 .. MaxRollouts, attempt' \in 0 .. MaxAttempts,
           rollout' = rollout \/ op' = "none",
           phase' # "fatal" => attempt' < MaxAttempts
    PROVE  Core'
<1> USE DEF Core
<1>1. TypeOK'
  BY DEF TypeOK, Idle, NoPlan
<1>2. CallsFitPhase'
  BY CellType DEF CallsFitPhase, Idle, Current
<1>3. \A i, j \in Alive : cell[i].info = cell[j].info
  BY DEF AliveTakePart, Awaited, Unresolved, Alive, InState
<1>4. AliveTakePart'
  BY <1>3 DEF AliveTakePart, Alive, InState
<1>5. QuorumsAreNew'
  BY DEF QuorumsAreNew
<1> QED
  BY <1>1, <1>2, <1>4, <1>5

\* What the calls of a new gather are.
LEMMA AwaitCalls ==
    ASSUME TypeOK, NEW st \in [Cells -> Statuses]
    PROVE  /\ Await(st) \in [Cells -> Call]
           /\ \A i \in Cells : /\ Await(st)[i].st = st[i]
                               /\ Await(st)[i].gen <= cell[i].gen
                               /\ st[i] # "none" => Await(st)[i].gen = cell[i].gen
<1>1. ASSUME NEW i \in Cells
      PROVE  /\ Await(st)[i] \in Call /\ Await(st)[i].st = st[i]
             /\ Await(st)[i].gen <= cell[i].gen
             /\ st[i] # "none" => Await(st)[i].gen = cell[i].gen
  <2>1. /\ cell[i].gen \in 0 .. MaxGenerations /\ 0 \in 0 .. MaxGenerations
        /\ st[i] \in Statuses
    BY CellType
  <2>2. CASE st[i] = "none"
    BY <2>1, <2>2 DEF Await, Idle, Call
  <2>3. CASE st[i] # "none"
    BY <2>1, <2>3 DEF Await, Call
  <2> QED
    BY <2>2, <2>3
<1> QED
  BY <1>1 DEF Await

\* Alive cells begin to train, together.
LEMMA TrainStep ==
    ASSUME Core, op = "train", phase = "attempt" \/ (phase = "preparing" /\ Awaited = {}), TrainOn(Alive),
           UNCHANGED <<quorum, attempt, plan, op, rollout, published>>
    PROVE  Core'
<1> USE DEF Core
<1> DEFINE st == [i \in Cells |-> IF i \in Alive THEN "train" ELSE "none"]
<1>1. st \in [Cells -> Statuses] /\ task' = Await(st) /\ phase' = "training" /\ exchange' = "open"
  BY DEF TrainOn, Statuses, Unresolved
<1>2. /\ task' \in [Cells -> Call]
      /\ \A i \in Cells : /\ task'[i].st = st[i] /\ task'[i].gen <= cell[i].gen
                          /\ i \in Alive => task'[i].gen = cell[i].gen
  <2> HIDE DEF st
  <2>1. /\ task' \in [Cells -> Call]
        /\ \A i \in Cells : /\ task'[i].st = st[i] /\ task'[i].gen <= cell[i].gen
                            /\ st[i] # "none" => task'[i].gen = cell[i].gen
    BY <1>1, AwaitCalls
  <2> QED
    BY <2>1 DEF st
<1>3. cell' \in [Cells -> CellRecord]
  <2>1. ASSUME NEW i \in Cells PROVE [cell[i] EXCEPT !.trained = TRUE] \in CellRecord
    <3>1. cell[i] \in CellRecord
      BY CellType
    <3> QED
      BY <3>1, Zenon DEF CellRecord
  <2> QED
    BY <2>1, CellType DEF TrainOn
<1>4. \A i \in Cells : /\ cell'[i].state = cell[i].state /\ cell'[i].gen = cell[i].gen
                       /\ cell'[i].info = cell[i].info
  BY CellsAreRecords DEF TrainOn, CellRecord
<1>5. TypeOK'
  BY <1>1, <1>2, <1>3, Zenon DEF TypeOK, CellRecord, Models, Call, Statuses
<1>6. \A i \in Cells : i \in Alive => cell[i].state = "alive" /\ Current(i)' /\ cell[i].info \in Info
  BY <1>2, <1>4, CellType DEF Alive, InState, Current
<1>7. CallsFitPhase'
  BY <1>1, <1>2, <1>4, <1>6 DEF CallsFitPhase
<1>8. Alive' = Alive
  BY <1>4 DEF Alive, InState
<1>9. \A i, j \in Alive : cell[i].info = cell[j].info
  BY DEF AliveTakePart, Awaited, Unresolved, Alive, InState
<1>10. AliveTakePart'
  <2>1. \A i \in Alive : i \in Cells
    BY DEF Alive, InState
  <2> QED
    BY <1>1, <1>2, <1>4, <1>6, <1>8, <1>9, <2>1 DEF AliveTakePart
<1>11. QuorumsAreNew'
  BY <1>1, <1>4 DEF QuorumsAreNew
<1> QED
  BY <1>5, <1>7, <1>10, <1>11

\* A call on the first alive cell, or one on all of them.
LEMMA AskStep ==
    ASSUME Core, phase \in {"idle", "attempt"}, phase' = "calling",
           UNCHANGED <<cell, quorum, attempt, plan, exchange, rollout, published>>,
           op' \in {"publish", "all"},
           NEW S \in SUBSET Alive,
           task' = Await([i \in Cells |-> IF i \in S THEN "call" ELSE "none"])
    PROVE  Core'
<1> USE DEF Core
<1> DEFINE st == [i \in Cells |-> IF i \in S THEN "call" ELSE "none"]
<1>1. st \in [Cells -> Statuses] /\ task' = Await(st)
  BY DEF Statuses, Unresolved
<1>2. /\ task' \in [Cells -> Call]
      /\ \A i \in Cells : task'[i].st = st[i] /\ task'[i].gen <= cell[i].gen
  <2> HIDE DEF st
  <2> QED
    BY <1>1, AwaitCalls
<1>3. TypeOK'
  BY <1>2, Zenon DEF TypeOK, CellRecord, Models, Call, Statuses
<1>4. \A i \in S : cell[i].state = "alive"
  BY DEF Alive, InState
<1>5. CallsFitPhase'
  BY <1>2, <1>4 DEF CallsFitPhase
<1>6. AliveTakePart'
  BY DEF AliveTakePart, Alive, InState
<1>7. QuorumsAreNew'
  BY DEF QuorumsAreNew
<1> QED
  BY <1>3, <1>5, <1>6, <1>7

\* A new quorum is prepared: nobody has its id yet.
LEMMA RefreshStep == ASSUME Core, Refresh PROVE Core'
<1> USE DEF Core
<1> DEFINE st == [i \in Cells |-> CASE i \in Alive -> "reconfigure"
                                    [] i \in Healing -> "receive"
                                    [] OTHER -> "none"]
<1>1. /\ st \in [Cells -> Statuses] /\ task' = Await(st) /\ phase' = "preparing" /\ phase = "attempt"
      /\ op = "train" /\ Alive # {} /\ quorum' = quorum + 1
      /\ plan' = [alive |-> Alive, heal |-> Healing, sent |-> {}]
      /\ UNCHANGED <<cell, attempt, exchange, op, rollout, published>>
  BY DEF Refresh, Statuses, Unresolved, driverVars, NextQuorum
<1>2. \A i \in Cells : /\ cell[i].state = "alive" => st[i] = "reconfigure"
                       /\ cell[i].state = "uninitialized" => st[i] = "receive"
                       /\ st[i] = "reconfigure" => cell[i].state = "alive"
                       /\ st[i] = "receive" => cell[i].state = "uninitialized"
                       /\ st[i] \in {"reconfigure", "receive", "none"}
  BY DEF Alive, Healing, InState
<1> HIDE DEF st
<1>3. /\ task' \in [Cells -> Call]
      /\ \A i \in Cells : /\ task'[i].st = st[i] /\ task'[i].gen <= cell[i].gen
                          /\ st[i] # "none" => task'[i].gen = cell[i].gen
  BY <1>1, AwaitCalls
<1>4. TypeOK'
  <2>1. plan' \in [alive : SUBSET Cells, heal : SUBSET Cells, sent : SUBSET Cells]
    BY <1>1 DEF Alive, Healing, InState
  <2>2. quorum' \in Nat
    BY <1>1 DEF TypeOK
  <2> QED
    BY <1>1, <1>3, <2>1, <2>2, Zenon DEF TypeOK, CellRecord, Models, Call, Statuses
<1>5. CallsFitPhase'
  BY <1>1, <1>2, <1>3 DEF CallsFitPhase
<1>6. AliveTakePart'
  BY <1>1, <1>2, <1>3 DEF AliveTakePart, Alive, InState, Current
<1>7. QuorumsAreNew'
  BY <1>1, CellType DEF QuorumsAreNew, TypeOK
<1> QED
  BY <1>4, <1>5, <1>6, <1>7

\* The outcome of one call: only its status changes.
LEMMA ResolveCall ==
    ASSUME TypeOK, NEW i \in Cells, NEW s \in Statuses, Resolve(i, s)
    PROVE  /\ task' \in [Cells -> Call]
           /\ \A k \in Cells : task'[k].gen = task[k].gen /\ (k # i => task'[k] = task[k])
           /\ task'[i].st = s
<1>1. [task[i] EXCEPT !.st = s] \in Call
  BY CellType DEF Call
<1> QED
  BY <1>1, CellsAreRecords DEF Resolve, Call

\* A call that fails leaves no alive cell behind that could miss the group.
LEMMA FailStep == ASSUME Core, NEW i \in Cells, CallFails(i) PROVE Core'
<1> USE DEF Core
<1>1. /\ task' \in [Cells -> Call] /\ task'[i].st = "failed"
      /\ \A k \in Cells : task'[k].gen = task[k].gen /\ (k # i => task'[k] = task[k])
      /\ UNCHANGED <<quorum, phase, attempt, plan, exchange, op, rollout, published>>
  <2>1. "failed" \in Statuses /\ Resolve(i, "failed")
    BY DEF Statuses, CallFails
  <2> QED
    BY <2>1, ResolveCall DEF CallFails, driverVars
<1>2. /\ cell' \in [Cells -> CellRecord]
      /\ \A k \in Cells : k # i => cell'[k] = cell[k]
      /\ cell'[i].gen = cell[i].gen /\ cell'[i].info = cell[i].info
      /\ cell'[i] = cell[i] \/ cell'[i].state = "errored"
      /\ Current(i) => cell'[i].state = "errored"
  <2>1. [cell[i] EXCEPT !.state = "errored"] \in CellRecord
    <3>1. cell[i] \in CellRecord
      BY CellType
    <3> QED
      BY <3>1, Zenon DEF CellRecord
  <2> QED
    BY <2>1, CellsAreRecords, CellType DEF CallFails, CellRecord
<1>3. TypeOK'
  BY <1>1, <1>2, Zenon DEF TypeOK, CellRecord, Models, Call, Statuses
<1>4. phase \in {"preparing", "training", "calling"}
  BY DEF CallFails, Awaited, Unresolved, CallsFitPhase
<1>5. \A k \in Cells : k # i => (Current(k)' <=> Current(k))
  BY <1>1, <1>2 DEF Current
<1>6. CallsFitPhase'
  <2>1. \A k \in Cells : task'[k].gen <= cell'[k].gen /\ (cell'[k].state = "absent" => cell'[k].gen < MaxGenerations)
    BY <1>1, <1>2 DEF CallsFitPhase
  <2> QED
    BY <1>1, <1>2, <1>4, <1>5, <2>1 DEF CallsFitPhase
<1>7. Alive' = Alive \ {i} \/ (Alive' = Alive /\ ~Current(i) /\ cell' = cell)
  BY <1>2, CellsAreRecords DEF Alive, InState, CallFails
<1>8. phase \in {"preparing", "training"} => i \notin Alive'
  BY <1>7 DEF AliveTakePart
<1>9. AliveTakePart'
  <2>1. NewInfo' = NewInfo
    BY <1>1 DEF NewInfo, Target
  <2>2. \A k \in Alive' : k \in Alive /\ cell'[k].info = cell[k].info
    BY <1>2, <1>7 DEF Alive, InState
  <2>3. phase # "calling" => \A k \in Alive' : k # i /\ task'[k] = task[k] /\ (Current(k)' <=> Current(k))
    BY <1>1, <1>2, <1>4, <1>5, <1>8 DEF Alive, InState
  <2> QED
    BY <1>1, <1>4, <2>1, <2>2, <2>3 DEF AliveTakePart
<1>10. QuorumsAreNew'
  <2>1. NewInfo' = NewInfo
    BY <1>1 DEF NewInfo, Target
  <2>2. \A k \in Cells : cell'[k].info = cell[k].info
    BY <1>2
  <2> QED
    BY <1>1, <2>1, <2>2 DEF QuorumsAreNew
<1> QED
  BY <1>3, <1>6, <1>9, <1>10

\* A cell that adopts the new group, alive (Reconfigure) or fresh (FinishInit).
LEMMA AdoptStep ==
    ASSUME Core, NEW i \in Cells, Current(i), phase = "preparing",
           task[i].st \in {"reconfigure", "load"},
           NEW s \in {"send", "ok"}, Resolve(i, s),
           cell' = [cell EXCEPT ![i].state = "alive", ![i].info = NewInfo],
           UNCHANGED <<quorum, phase, attempt, plan, exchange, op, rollout, published>>
    PROVE  Core'
<1> USE DEF Core
<1>1. /\ task' \in [Cells -> Call] /\ task'[i].st = s
      /\ \A k \in Cells : task'[k].gen = task[k].gen /\ (k # i => task'[k] = task[k])
  <2>1. s \in Statuses
    BY DEF Statuses, Unresolved
  <2> QED
    BY <2>1, ResolveCall
<1>2. NewInfo \in Info /\ NewInfo' = NewInfo /\ NewInfo.quorum = quorum
  BY DEF NewInfo, Target, Info, TypeOK
<1>3. /\ cell' \in [Cells -> CellRecord]
      /\ \A k \in Cells : k # i => cell'[k] = cell[k]
      /\ cell'[i].gen = cell[i].gen /\ cell'[i].info = NewInfo /\ cell'[i].state = "alive"
  <2>1. [cell[i] EXCEPT !.state = "alive", !.info = NewInfo] \in CellRecord
    <3>1. cell[i] \in CellRecord
      BY CellType
    <3> QED
      BY <3>1, <1>2, Zenon DEF CellRecord
  <2> QED
    BY <2>1, CellsAreRecords, CellType DEF CellRecord
<1>4. TypeOK'
  BY <1>1, <1>3, Zenon DEF TypeOK, CellRecord, Models, Call, Statuses
<1>5. \A k \in Cells : k # i => (Current(k)' <=> Current(k))
  BY <1>1, <1>3 DEF Current
<1>6. Current(i)'
  BY <1>1, <1>3 DEF Current
<1>7. CallsFitPhase'
  <2>1. \A k \in Cells : task'[k].gen <= cell'[k].gen /\ (cell'[k].state = "absent" => cell'[k].gen < MaxGenerations)
    BY <1>1, <1>3 DEF CallsFitPhase
  <2> QED
    BY <1>1, <1>3, <1>5, <2>1 DEF CallsFitPhase
<1>8. AliveTakePart'
  <2>1. \A k \in Alive' : k = i \/ (k # i /\ k \in Alive /\ cell'[k] = cell[k] /\ task'[k] = task[k]
                                      /\ (Current(k)' <=> Current(k)))
    BY <1>1, <1>3, <1>5 DEF Alive, InState
  <2>2. \A k \in Alive : Current(k) /\ (\/ task[k].st = "reconfigure"
                                        \/ task[k].st \in {"send", "ok"} /\ cell[k].info = NewInfo)
    BY DEF AliveTakePart
  <2>3. \A k \in Alive' : Current(k)' /\ (\/ task'[k].st = "reconfigure"
                                          \/ task'[k].st \in {"send", "ok"} /\ cell'[k].info = NewInfo)
    <3> SUFFICES ASSUME NEW k \in Alive'
                 PROVE  Current(k)' /\ (\/ task'[k].st = "reconfigure"
                                        \/ task'[k].st \in {"send", "ok"} /\ cell'[k].info = NewInfo)
      OBVIOUS
    <3>1. CASE k = i
      BY <1>1, <1>3, <1>6, <3>1
    <3>2. CASE k # i
      <4>1. k \in Alive /\ cell'[k] = cell[k] /\ task'[k] = task[k] /\ (Current(k)' <=> Current(k))
        BY <2>1, <3>2
      <4> QED
        BY <2>2, <4>1
    <3> QED
      BY <3>1, <3>2
  <2> QED
    BY <1>2, <2>3 DEF AliveTakePart
<1>9. QuorumsAreNew'
  <2>1. \A k \in Cells : cell'[k].info = cell[k].info \/ cell'[k].info = NewInfo
    BY <1>3
  <2>2. /\ quorum > 0 /\ \A k \in Cells : cell[k].info.quorum <= quorum
        /\ \A k \in Cells : cell[k].info.quorum = quorum => cell[k].info = NewInfo
    BY DEF QuorumsAreNew
  <2>3. /\ \A k \in Cells : cell'[k].info.quorum <= quorum
        /\ \A k \in Cells : cell'[k].info.quorum = quorum => cell'[k].info = NewInfo
    <3>1. quorum <= quorum
      BY DEF TypeOK
    <3> QED
      BY <1>2, <2>1, <2>2, <3>1
  <2>4. \A k, l \in {m \in Cells : cell'[m].info # Trivial} :
           cell'[k].info.quorum = cell'[l].info.quorum => cell'[k].info.members = cell'[l].info.members
    <3> SUFFICES ASSUME NEW k \in Cells, NEW l \in Cells, cell'[k].info # Trivial, cell'[l].info # Trivial,
                        cell'[k].info.quorum = cell'[l].info.quorum
                 PROVE  cell'[k].info.members = cell'[l].info.members
      OBVIOUS
    <3>1. CASE cell'[k].info = NewInfo \/ cell'[l].info = NewInfo
      BY <1>2, <2>3, <3>1
    <3>2. CASE cell'[k].info = cell[k].info /\ cell'[l].info = cell[l].info
      BY <3>2 DEF QuorumsAreNew
    <3> QED
      BY <2>1, <3>1, <3>2
  <2> QED
    BY <1>2, <2>2, <2>3, <2>4 DEF QuorumsAreNew
<1> QED
  BY <1>4, <1>7, <1>8, <1>9

\* The source's transfer to a fresh cell, received or not.
LEMMA SendStep == ASSUME Core, NEW i \in Cells, SendCheckpoint(i) PROVE Core'
<1> USE DEF Core
<1>1. /\ phase = "preparing" /\ Source \in Cells /\ task[Source].st = "send" /\ Current(Source)
      /\ UNCHANGED <<quorum, phase, attempt, exchange, op, rollout, published>>
      /\ plan' = [plan EXCEPT !.sent = @ \cup {i}]
  <2>1. Source \in plan.alive /\ plan.alive \subseteq Cells
    BY MinIsIn DEF SendCheckpoint, CallsFitPhase, Source, TypeOK
  <2> QED
    BY <2>1 DEF SendCheckpoint, driverVars
<1>2. PICK s \in {"ok", "send"} :
        \/ /\ task[i].st = "receive" /\ Current(i)
           /\ task' = [[task EXCEPT ![Source].st = s] EXCEPT ![i].st = "load"]
           /\ cell' = [cell EXCEPT ![i].weights = cell[Source].weights]
        \/ task' = [task EXCEPT ![Source].st = s] /\ cell' = cell
  BY DEF SendCheckpoint, Received
<1>3. /\ task' \in [Cells -> Call]
      /\ \A k \in Cells : task'[k].gen = task[k].gen
      /\ \A k \in Cells : k # Source /\ k # i => task'[k] = task[k]
      /\ task'[Source].st = s
      /\ i # Source => task'[i] = task[i] \/ (task[i].st = "receive" /\ Current(i) /\ task'[i].st = "load")
  <2>1. [task[Source] EXCEPT !.st = s] \in Call /\ [task[i] EXCEPT !.st = "load"] \in Call
    BY <1>1, CellType DEF Call, Statuses, Unresolved
  <2>2. task \in [Cells -> Call] /\ \A k \in Cells : task[k].st \in Statuses
    BY CellType, CellsAreRecords
  <2>3. CASE task' = [task EXCEPT ![Source].st = s] /\ cell' = cell
    BY <1>1, <2>1, <2>2, <2>3 DEF Call
  <2>4. CASE /\ task[i].st = "receive" /\ Current(i)
             /\ task' = [[task EXCEPT ![Source].st = s] EXCEPT ![i].st = "load"]
    <3>1. i # Source
      BY <1>1, <2>4
    <3>2. task' = [task EXCEPT ![Source] = [@ EXCEPT !.st = s], ![i] = [@ EXCEPT !.st = "load"]]
      BY <2>4, <3>1
    <3>3. task'[Source] = [task[Source] EXCEPT !.st = s] /\ task'[i] = [task[i] EXCEPT !.st = "load"]
      BY <1>1, <2>2, <3>1, <3>2
    <3>4. /\ task' \in [Cells -> Call] /\ \A k \in Cells : k # Source /\ k # i => task'[k] = task[k]
      BY <1>1, <2>1, <2>2, <3>1, <3>2, <3>3
    <3>5. task'[Source].gen = task[Source].gen /\ task'[i].gen = task[i].gen
          /\ task'[Source].st = s /\ task'[i].st = "load"
      BY <1>1, <2>2, <3>3 DEF Call
    <3> QED
      BY <2>4, <3>1, <3>4, <3>5
  <2> QED
    BY <1>2, <2>3, <2>4
<1>4. /\ cell' \in [Cells -> CellRecord]
      /\ \A k \in Cells : /\ cell'[k].state = cell[k].state /\ cell'[k].gen = cell[k].gen
                          /\ cell'[k].info = cell[k].info
  <2>1. [cell[i] EXCEPT !.weights = cell[Source].weights] \in CellRecord
    <3>1. cell[i] \in CellRecord /\ cell[Source].weights \in Models
      BY <1>1, CellType
    <3> QED
      BY <3>1, Zenon DEF CellRecord
  <2>2. CASE cell' = cell
    BY <2>2, CellsAreRecords
  <2>3. CASE cell' = [cell EXCEPT ![i].weights = cell[Source].weights]
    <3>1. cell[i] \in CellRecord
      BY CellType
    <3> QED
      BY <2>1, <2>3, <3>1, CellsAreRecords DEF CellRecord
  <2> QED
    BY <1>2, <2>2, <2>3
<1>5. TypeOK'
  <2>1. plan' \in [alive : SUBSET Cells, heal : SUBSET Cells, sent : SUBSET Cells]
    BY <1>1 DEF TypeOK
  <2> QED
    BY <1>1, <1>3, <1>4, <2>1, Zenon DEF TypeOK, CellRecord, Models, Call, Statuses
<1>6. \A k \in Cells : Current(k)' <=> Current(k)
  BY <1>3, <1>4 DEF Current
<1>7. plan'.alive = plan.alive /\ plan'.heal = plan.heal
  BY <1>1 DEF TypeOK
<1>8. CallsFitPhase'
  BY <1>1, <1>3, <1>4, <1>6, <1>7 DEF CallsFitPhase
<1>9. Alive' = Alive
  BY <1>4 DEF Alive, InState
<1>10. NewInfo' = NewInfo
  BY <1>1, <1>7 DEF NewInfo, Target
<1>11. AliveTakePart'
  <2>1. \A k \in Alive : k \in Cells /\ cell[k].state = "alive"
    BY DEF Alive, InState
  <2>2. \A k \in Alive : Current(k) /\ (\/ task[k].st = "reconfigure"
                                        \/ task[k].st \in {"send", "ok"} /\ cell[k].info = NewInfo)
    BY <1>1 DEF AliveTakePart
  <2>3. \A k \in Alive : ~(task[k].st = "receive" /\ Current(k))
    BY <2>1 DEF CallsFitPhase
  <2>4. \A k \in Alive : task'[k] = task[k] \/ (k = Source /\ task'[k].st = s)
    BY <1>3, <2>1, <2>3
  <2> QED
    BY <1>1, <1>4, <1>6, <1>9, <1>10, <2>1, <2>2, <2>4 DEF AliveTakePart
<1>12. QuorumsAreNew'
  BY <1>1, <1>4, <1>10 DEF QuorumsAreNew
<1> QED
  BY <1>5, <1>8, <1>11, <1>12

\* A trained or called cell answers.
LEMMA AnswerStep ==
    ASSUME Core, NEW i \in Cells, Current(i), NEW s \in {"normal", "discarded", "ok"}, Resolve(i, s),
           \/ task[i].st = "train" /\ s # "ok"
           \/ task[i].st = "call" /\ s = "ok",
           cell' \in [Cells -> CellRecord],
           \A k \in Cells : /\ cell'[k].state = cell[k].state /\ cell'[k].gen = cell[k].gen
                            /\ cell'[k].info = cell[k].info,
           published' \in Models,
           UNCHANGED <<quorum, phase, attempt, plan, exchange, op, rollout>>
    PROVE  Core'
<1> USE DEF Core
<1>1. /\ task' \in [Cells -> Call] /\ task'[i].st = s
      /\ \A k \in Cells : task'[k].gen = task[k].gen /\ (k # i => task'[k] = task[k])
  <2>1. s \in Statuses
    BY DEF Statuses, Unresolved
  <2> QED
    BY <2>1, ResolveCall
<1>2. TypeOK'
  BY <1>1, Zenon DEF TypeOK, CellRecord, Models, Call, Statuses
<1>3. phase = IF s = "ok" THEN "calling" ELSE "training"
  BY DEF CallsFitPhase
<1>4. \A k \in Cells : Current(k)' <=> Current(k)
  BY <1>1 DEF Current
<1>5. CallsFitPhase'
  BY <1>1, <1>3, <1>4 DEF CallsFitPhase
<1>6. Alive' = Alive /\ \A k \in Alive : k \in Cells
  BY DEF Alive, InState
<1>7. AliveTakePart'
  BY <1>1, <1>3, <1>4, <1>6 DEF AliveTakePart
<1>8. QuorumsAreNew'
  BY <1>3 DEF QuorumsAreNew
<1> QED
  BY <1>2, <1>5, <1>7, <1>8

\* A call of the driver begins; the gather of its outcomes does not change.
LEMMA BeginStep ==
    ASSUME Core, phase = "idle", phase' \in {"attempt", "fatal"}, op' \in {"train", "publish", "all"},
           op' = "train" => rollout < MaxRollouts,
           UNCHANGED <<cell, quorum, attempt, plan, task, exchange, rollout, published>>
    PROVE  Core'
<1> USE DEF Core
<1>1. TypeOK'
  BY Zenon DEF TypeOK
<1>2. CallsFitPhase'
  BY DEF CallsFitPhase, Current
<1>3. AliveTakePart'
  BY DEF AliveTakePart, Alive, InState
<1>4. QuorumsAreNew'
  BY DEF QuorumsAreNew
<1> QED
  BY <1>1, <1>2, <1>3, <1>4

\* The gradient exchange concerns nothing but its outcome, and a delivery
\* nothing but what is published.
LEMMA ExchangeStep ==
    ASSUME Core, exchange' \in {"open", "broken"} \cup Exchanged, published' \in Models,
           UNCHANGED <<cell, quorum, phase, attempt, plan, task, op, rollout>>
    PROVE  Core'
<1> USE DEF Core
<1>1. TypeOK'
  BY Zenon DEF TypeOK
<1>2. CallsFitPhase'
  BY DEF CallsFitPhase, Current
<1>3. AliveTakePart'
  BY DEF AliveTakePart, Alive, InState, Current, NewInfo, Target
<1>4. QuorumsAreNew'
  BY DEF QuorumsAreNew, NewInfo, Target
<1> QED
  BY <1>1, <1>2, <1>3, <1>4

\* The attempts that are left.
LEMMA AttemptBounds ==
    ASSUME Core
    PROVE  /\ attempt \in Nat /\ attempt <= MaxAttempts /\ 0 < MaxAttempts
           /\ rollout \in Nat /\ rollout <= MaxRollouts
           /\ phase # "fatal" => attempt + 1 <= MaxAttempts
           /\ op = "train" => rollout + 1 <= MaxRollouts
BY DEF Core, TypeOK, CallsFitPhase

\* The ends of an attempt: Return, GiveUp and Retry, wherever they occur.
LEMMA CallEnds ==
    ASSUME Core, phase \notin {"idle", "fatal"}, phase = "preparing" => Awaited = {},
           UNCHANGED <<cell, quorum, published>>,
           \/ Return /\ (rollout' = rollout \/ (op = "train" /\ rollout' = rollout + 1))
           \/ (GiveUp \/ Retry) /\ rollout' = rollout
    PROVE  Core'
<1>1. /\ plan' = NoPlan /\ task' = Idle /\ exchange' = "open"
      /\ phase' \in {"idle", "attempt", "fatal"} /\ op' \in {"none", op}
      /\ rollout' = rollout \/ op' = "none"
  BY DEF Return, GiveUp, Retry
<1>2. rollout' \in 0 .. MaxRollouts
  BY AttemptBounds
<1>3. attempt' \in 0 .. MaxAttempts /\ (phase' # "fatal" => attempt' < MaxAttempts)
  BY AttemptBounds DEF Return, GiveUp, Retry, NextAttempt, AttemptsLeft
<1> QED
  BY <1>1, <1>2, <1>3, EndStep

LEMMA ControllerStep == ASSUME Core, Controller PROVE Core'
<1>1. CASE Refresh
  BY <1>1, RefreshStep
<1>2. CASE NothingToRefresh
  BY <1>2, TrainStep DEF NothingToRefresh, driverVars
<1>3. CASE NoCellAlive
  BY <1>3, CallEnds DEF NoCellAlive
<1>4. CASE EndPrepare
  <2>1. CASE TrainOn(Alive) /\ UNCHANGED <<attempt, plan, op>>
    <3>1. op = "train"
      BY <1>4 DEF EndPrepare, Core, CallsFitPhase
    <3> QED
      BY <1>4, <2>1, <3>1, TrainStep DEF EndPrepare
  <2>2. CASE (GiveUp \/ Retry) /\ UNCHANGED cell
    BY <1>4, <2>2, CallEnds DEF EndPrepare
  <2> QED
    BY <1>4, <2>1, <2>2 DEF EndPrepare
<1>5. CASE EndAttempt
  <2>1. op = "train"
    BY <1>5 DEF EndAttempt, Core, CallsFitPhase
  <2> QED
    BY <1>5, <2>1, CallEnds DEF EndAttempt, RetryIfRecoverable
<1>6. CASE AskFirstAlive
  <2>1. Alive \subseteq Cells /\ Alive # {}
    BY <1>6 DEF Alive, InState, AskFirstAlive
  <2>2. {Min(Alive)} \in SUBSET Alive
    BY <2>1, MinIsIn
  <2>3. task' = Await([i \in Cells |-> IF i \in {Min(Alive)} THEN "call" ELSE "none"])
    BY <1>6 DEF AskFirstAlive
  <2> QED
    BY <1>6, <2>2, <2>3, AskStep DEF AskFirstAlive, driverVars
<1>7. CASE EndPublish
  BY <1>7, CallEnds DEF EndPublish, RetryIfRecoverable
<1>8. CASE EndOnAll
  BY <1>8, CallEnds DEF EndOnAll
<1> QED
  BY <1>1, <1>2, <1>3, <1>4, <1>5, <1>6, <1>7, <1>8 DEF Controller

LEMMA ProgressStep == ASSUME Core, NEW i \in Cells, CallProgress(i) PROVE Core'
<1>0. TypeOK /\ cell \in [Cells -> CellRecord] /\ published \in Models
  BY CellsAreRecords DEF Core, TypeOK, Models
<1>1. CASE CallFails(i)
  BY <1>1, FailStep
<1>2. CASE Reconfigure(i)
  <2>1. PICK s \in {"send", "ok"} : Resolve(i, s)
    BY <1>2 DEF Reconfigure, AfterReconfigure
  <2>2. /\ phase = "preparing" /\ cell[i].state = "alive" /\ Current(i) /\ task[i].st = "reconfigure"
        /\ UNCHANGED <<quorum, phase, attempt, plan, exchange, op, rollout, published>>
    BY <1>2 DEF Reconfigure, Core, CallsFitPhase, driverVars
  <2>3. cell' = [cell EXCEPT ![i].state = "alive", ![i].info = NewInfo]
    <3>1. [cell[i] EXCEPT !.info = NewInfo] = [cell[i] EXCEPT !.state = "alive", !.info = NewInfo]
      BY <1>0, <2>2 DEF CellRecord
    <3> QED
      BY <1>0, <1>2, <3>1 DEF Reconfigure, AdoptedInfo
  <2> QED
    BY <2>1, <2>2, <2>3, AdoptStep
<1>3. CASE SendCheckpoint(i)
  BY <1>3, SendStep
<1>4. CASE FinishInit(i)
  <2>1. phase = "preparing"
    BY <1>4 DEF FinishInit, Core, CallsFitPhase
  <2> QED
    BY <1>4, <2>1, AdoptStep DEF FinishInit, driverVars
<1>5. ASSUME NEW from \in SUBSET Cells
      PROVE  /\ StepOf(i, from) \in [Cells -> CellRecord]
             /\ \A k \in Cells : /\ StepOf(i, from)[k].state = cell[k].state
                                 /\ StepOf(i, from)[k].gen = cell[k].gen
                                 /\ StepOf(i, from)[k].info = cell[k].info
  <2>1. Step(from) \in Steps
    BY <1>0 DEF Step, Steps, TypeOK
  <2>2. cell[i] \in CellRecord /\ cell[i].weights \in Models
    BY <1>0, CellType
  <2>3. Append(cell[i].weights, Step(from)) \in Models
    BY <2>1, <2>2 DEF Models, Steps
  <2>4. [cell[i] EXCEPT !.weights = Append(@, Step(from))] \in CellRecord
    BY <2>2, <2>3, Zenon DEF CellRecord
  <2> QED
    BY <1>0, <2>2, <2>4 DEF StepOf, CellRecord
<1>6. CASE TrainReturnsNormal(i)
  <2>1. cell' = cell \/ cell' = StepOf(i, cell[i].info.members)
    BY <1>6 DEF TrainReturnsNormal
  <2>2. cell[i].info.members \in SUBSET Cells
    BY <1>0, CellType
  <2>3. /\ cell' \in [Cells -> CellRecord]
        /\ \A k \in Cells : /\ cell'[k].state = cell[k].state /\ cell'[k].gen = cell[k].gen
                            /\ cell'[k].info = cell[k].info
    BY <1>0, <1>5, <2>1, <2>2
  <2> QED
    BY <1>0, <1>6, <2>3, AnswerStep DEF TrainReturnsNormal, driverVars
<1>7. CASE TrainReturnsDiscarded(i)
  <2>1. cell' = cell \/ cell' = StepOf(i, {i})
    BY <1>7 DEF TrainReturnsDiscarded
  <2>2. {i} \in SUBSET Cells
    OBVIOUS
  <2>3. /\ cell' \in [Cells -> CellRecord]
        /\ \A k \in Cells : /\ cell'[k].state = cell[k].state /\ cell'[k].gen = cell[k].gen
                            /\ cell'[k].info = cell[k].info
    BY <1>0, <1>5, <2>1, <2>2
  <2> QED
    BY <1>0, <1>7, <2>3, AnswerStep DEF TrainReturnsDiscarded, driverVars
<1>8. CASE CallReturns(i)
  BY <1>0, <1>8, AnswerStep DEF CallReturns, driverVars
<1>9. CASE Deliver(i)
  BY <1>0, <1>9, CellType, ExchangeStep DEF Deliver, TypeOK
<1> QED
  BY <1>1, <1>2, <1>3, <1>4, <1>6, <1>7, <1>8, <1>9 DEF CallProgress

LEMMA CoreStep == Core /\ [Next]_vars => Core'
<1> SUFFICES ASSUME Core, [Next]_vars PROVE Core'
  OBVIOUS
<1>1. CASE \E i \in Cells : RemoveCell(i) \/ AddCell(i) \/ ReplaceCell(i)
  BY <1>1, ReconcileStep
<1>2. CASE BeginTrain \/ BeginPublish
  BY <1>2, BeginStep DEF BeginTrain, BeginPublish
<1>3. CASE BeginOnAll
  <2>1. CASE Alive = {}
    BY <1>3, <2>1, BeginStep DEF BeginOnAll
  <2>2. CASE Alive # {}
    <3>1. Alive \in SUBSET Alive
      OBVIOUS
    <3> QED
      BY <1>3, <2>2, <3>1, AskStep DEF BeginOnAll
  <2> QED
    BY <2>1, <2>2
<1>4. CASE Controller
  BY <1>4, ControllerStep
<1>5. CASE \E i \in Cells : CallProgress(i)
  BY <1>5, ProgressStep
<1>6. CASE ExchangeSucceeds \/ ExchangeFails
  BY <1>6, ExchangeStep DEF ExchangeSucceeds, ExchangeFails, driverVars, Core, TypeOK
<1>7. CASE UNCHANGED vars
  BY <1>7, ExchangeStep DEF vars, Core, TypeOK
<1> QED
  BY <1>1, <1>2, <1>3, <1>4, <1>5, <1>6, <1>7 DEF Next

LEMMA AlwaysCore == Spec => []Core
BY InitCore, CoreStep, PTL DEF Spec

\* A call that was made on the present object of its cell, and is still
\* awaited there, was so before.
LEMMA CurrentBefore ==
    ASSUME Core, NEW k \in Cells, task'[k].gen = task[k].gen, Current(k)',
           \/ cell'[k].gen = cell[k].gen /\ (cell'[k].state # "absent" => cell[k].state # "absent")
           \/ cell'[k].gen = cell[k].gen + 1
    PROVE  Current(k)
<1>1. task[k].gen <= cell[k].gen /\ task[k].gen \in Nat /\ cell[k].gen \in Nat
  BY CellType DEF Core, CallsFitPhase
<1>2. cell'[k].gen = task[k].gen /\ cell'[k].state # "absent"
  BY DEF Current
<1> QED
  BY <1>1, <1>2 DEF Current

\* What leaves the plan alone keeps the transfers: a source that has adopted
\* the group sends, and no call becomes one that waits for a checkpoint.
LEMMA StillMeet ==
    ASSUME Core, TransfersMeet, phase = "preparing", UNCHANGED plan,
           \A k \in Cells : task'[k].st = "receive" /\ Current(k)' => task[k].st = "receive" /\ Current(k),
           \A k \in Cells : task'[k].st = "reconfigure" => task[k].st = "reconfigure",
           \A k \in Cells : task'[k].st = "send" =>
               \/ task[k].st = "send"
               \/ task[k].st = "reconfigure" /\ k = Source /\ plan.heal # {},
           task[Source].st \in {"reconfigure", "send", "failed"} =>
               task'[Source].st \in {"reconfigure", "send", "failed"} \/ plan.heal = {}
    PROVE  TransfersMeet'
<1>1. Source' = Source /\ Source \in Cells
  BY MinIsIn DEF Source, Core, CallsFitPhase, TypeOK
<1> QED
  BY <1>1 DEF TransfersMeet

\* A transfer serves one cell that is left, and leaves those after it to the
\* source that still sends.
LEMMA SendMeets == ASSUME Core, TransfersMeet, NEW i \in Cells, SendCheckpoint(i) PROVE TransfersMeet'
<1>1. /\ phase = "preparing" /\ Source \in Cells /\ task[Source].st = "send"
      /\ plan' = [plan EXCEPT !.sent = @ \cup {i}] /\ i \in plan.heal \ plan.sent
  <2>1. plan.heal \ plan.sent \in SUBSET Cells /\ plan.heal \ plan.sent # {} /\ i = Min(plan.heal \ plan.sent)
    BY DEF SendCheckpoint, Core, TypeOK
  <2>2. i \in plan.heal \ plan.sent
    BY <2>1, MinIsIn
  <2> QED
    BY <2>2, MinIsIn DEF SendCheckpoint, Source, Core, CallsFitPhase, TypeOK
<1>2. plan'.alive = plan.alive /\ plan'.heal = plan.heal /\ plan'.sent = plan.sent \cup {i}
  BY <1>1 DEF Core, TypeOK
<1> DEFINE s == IF plan.sent \cup {i} = plan.heal THEN "ok" ELSE "send"
<1>3. \/ /\ task[i].st = "receive" /\ Current(i)
         /\ task' = [[task EXCEPT ![Source].st = s] EXCEPT ![i].st = "load"]
         /\ cell' = [cell EXCEPT ![i].weights = cell[Source].weights]
      \/ /\ ~(task[i].st = "receive" /\ Current(i))
         /\ task' = [task EXCEPT ![Source].st = s] /\ cell' = cell
  BY DEF SendCheckpoint, Received
<1>4. s \in {"ok", "send"} /\ (s = "ok" <=> plan.sent \cup {i} = plan.heal)
  OBVIOUS
<1> HIDE DEF s
<1>5. \A k \in Cells : task[k] \in Call /\ cell[k] \in CellRecord
  BY CellsAreRecords DEF Core
<1>6. \A k \in Cells : /\ task'[k].gen = task[k].gen
                       /\ k # Source /\ k # i => task'[k] = task[k]
                       /\ cell'[k].state = cell[k].state /\ cell'[k].gen = cell[k].gen
  <2>1. task \in [Cells -> Call] /\ cell \in [Cells -> CellRecord]
    BY CellsAreRecords DEF Core
  <2> QED
    BY <1>1, <1>3, <1>5, <2>1 DEF Call, CellRecord
<1>7. /\ task'[Source].st = s
      /\ task'[i].st = "receive" => ~ Current(i)
      /\ i # Source => task'[i].st \in {"load", task[i].st}
  <2>1. task \in [Cells -> Call]
    BY CellsAreRecords DEF Core
  <2>2. task[Source].st # "receive"
    BY <1>1
  <2>3. CASE task' = [task EXCEPT ![Source].st = s] /\ ~(task[i].st = "receive" /\ Current(i))
    BY <1>1, <1>4, <1>5, <2>1, <2>3 DEF Call
  <2>4. CASE task' = [[task EXCEPT ![Source].st = s] EXCEPT ![i].st = "load"] /\ task[i].st = "receive"
    <3>1. i # Source
      BY <2>2, <2>4
    <3>2. task' = [task EXCEPT ![Source] = [@ EXCEPT !.st = s], ![i] = [@ EXCEPT !.st = "load"]]
      BY <2>4, <3>1
    <3>3. task'[Source] = [task[Source] EXCEPT !.st = s] /\ task'[i] = [task[i] EXCEPT !.st = "load"]
      BY <1>1, <2>1, <3>1, <3>2
    <3> QED
      BY <1>1, <1>5, <3>3 DEF Call
  <2> QED
    BY <1>3, <2>3, <2>4
<1>8. Source' = Source /\ \A k \in Cells : Current(k)' <=> Current(k)
  BY <1>2, <1>6 DEF Source, Current
<1>9. plan'.sent \subseteq plan'.heal
  BY <1>1, <1>2 DEF TransfersMeet
<1>10. ASSUME NEW k \in Cells
       PROVE  /\ task'[k].st = "send" => k = Source /\ plan'.heal \ plan'.sent # {}
              /\ task'[k].st = "receive" /\ Current(k)' =>
                   k \in plan'.heal \ plan'.sent /\ task'[Source].st \in {"reconfigure", "send", "failed"}
  <2>1. CASE task'[k].st = "send"
    <3>1. k = Source
      BY <1>1, <1>6, <1>7, <2>1 DEF TransfersMeet
    <3> QED
      BY <1>2, <1>4, <1>7, <1>9, <2>1, <3>1
  <2>2. CASE task'[k].st = "receive" /\ Current(k)'
    <3>1. k # Source /\ k # i
      BY <1>4, <1>7, <1>8, <2>2
    <3>2. k \in plan.heal \ plan.sent
      BY <1>1, <1>6, <1>8, <2>2, <3>1 DEF TransfersMeet
    <3>3. k \in plan'.heal /\ k \notin plan'.sent
      BY <1>2, <3>1, <3>2
    <3>4. plan.sent \cup {i} # plan.heal
      BY <3>1, <3>2
    <3> QED
      BY <1>4, <1>7, <2>2, <3>3, <3>4
  <2> QED
    BY <2>1, <2>2
<1> QED
  BY <1>4, <1>7, <1>8, <1>9, <1>10 DEF TransfersMeet

LEMMA MeetStep == Core /\ TransfersMeet /\ [Next]_vars => TransfersMeet'
<1> SUFFICES ASSUME Core, TransfersMeet, [Next]_vars, phase' = "preparing" PROVE TransfersMeet'
  BY DEF TransfersMeet
<1>1. CASE Refresh
  <2> DEFINE st == [i \in Cells |-> CASE i \in Alive -> "reconfigure"
                                      [] i \in Healing -> "receive"
                                      [] OTHER -> "none"]
  <2>1. /\ plan' = [alive |-> Alive, heal |-> Healing, sent |-> {}] /\ Alive # {} /\ Alive \subseteq Cells
        /\ st \in [Cells -> Statuses] /\ task' = Await(st)
    BY <1>1 DEF Refresh, Alive, InState, Statuses, Unresolved
  <2>2. \A i \in Cells : /\ i \in Alive => st[i] = "reconfigure"
                         /\ st[i] # "send"
                         /\ st[i] = "receive" => i \in Healing
    BY DEF Alive, Healing, InState
  <2> HIDE DEF st
  <2>3. \A i \in Cells : /\ i \in Alive => task'[i].st = "reconfigure"
                         /\ task'[i].st # "send"
                         /\ task'[i].st = "receive" => i \in Healing
    BY <2>1, <2>2, AwaitCalls DEF Core
  <2>4. Source' \in Alive
    BY <2>1, MinIsIn DEF Source
  <2> QED
    BY <2>1, <2>3, <2>4 DEF TransfersMeet
<1>2. CASE phase = "preparing" /\ \E i \in Cells : RemoveCell(i) \/ AddCell(i) \/ ReplaceCell(i)
  <2>1. PICK i \in Cells : RemoveCell(i) \/ AddCell(i) \/ ReplaceCell(i)
    BY <1>2
  <2>2. /\ UNCHANGED <<plan, task>>
        /\ \A k \in Cells : \/ cell'[k].gen = cell[k].gen /\ (cell'[k].state # "absent" => cell[k].state # "absent")
                            \/ cell'[k].gen = cell[k].gen + 1
    BY <2>1, CellsAreRecords DEF RemoveCell, AddCell, ReplaceCell, Fresh, Core, CellRecord
  <2>3. \A k \in Cells : Current(k)' => Current(k)
    BY <2>2, CurrentBefore
  <2>4. Source \in Cells
    BY <1>2, MinIsIn DEF Source, Core, CallsFitPhase, TypeOK
  <2> QED
    BY <1>2, <2>2, <2>3, <2>4, StillMeet
<1>3. ASSUME NEW i \in Cells, phase = "preparing", CallFails(i) PROVE TransfersMeet'
  <2>1. /\ \A k \in Cells : /\ k # i => task'[k] = task[k]
                            /\ task'[k].gen = task[k].gen /\ cell'[k].gen = cell[k].gen
                            /\ cell'[k].state # "absent" => cell[k].state # "absent"
        /\ task'[i].st = "failed" /\ UNCHANGED plan
    BY <1>3, CellsAreRecords DEF CallFails, Resolve, Core, CellRecord, Call, Current
  <2>2. \A k \in Cells : Current(k)' => Current(k)
    BY <2>1, CurrentBefore
  <2>3. Source \in Cells
    BY <1>3, MinIsIn DEF Source, Core, CallsFitPhase, TypeOK
  <2> QED
    BY <1>3, <2>1, <2>2, <2>3, StillMeet
<1>4. ASSUME NEW i \in Cells, phase = "preparing", Reconfigure(i) \/ FinishInit(i) PROVE TransfersMeet'
  <2>1. /\ \A k \in Cells : /\ k # i => task'[k] = task[k] /\ cell'[k] = cell[k]
                            /\ task'[k].gen = task[k].gen /\ cell'[k].gen = cell[k].gen
        /\ cell[i].state # "absent" /\ UNCHANGED plan
        /\ \/ task[i].st = "reconfigure" /\ task'[i].st = AfterReconfigure(i)
           \/ task[i].st = "load" /\ task'[i].st = "ok"
    BY <1>4, CellsAreRecords DEF Reconfigure, FinishInit, Resolve, Core, CellRecord, Call, Current
  <2>2. \A k \in Cells : Current(k)' => Current(k)
    BY <2>1, CurrentBefore
  <2>3. Source \in Cells
    BY <1>4, MinIsIn DEF Source, Core, CallsFitPhase, TypeOK
  <2> QED
    BY <1>4, <2>1, <2>2, <2>3, StillMeet DEF AfterReconfigure
<1>5. ASSUME NEW i \in Cells, SendCheckpoint(i) PROVE TransfersMeet'
  BY <1>5, SendMeets
<1>6. CASE UNCHANGED vars
  BY <1>6 DEF vars, TransfersMeet, Source, Current
<1>7. ASSUME NEW i \in Cells, phase = "preparing", TrainReturnsNormal(i) \/ TrainReturnsDiscarded(i) \/ CallReturns(i) \/ Deliver(i)
      PROVE  FALSE
  BY <1>7 DEF TrainReturnsNormal, TrainReturnsDiscarded, CallReturns, Deliver, Core, CallsFitPhase
<1>8. ASSUME NEW i \in Cells, CallProgress(i) PROVE TransfersMeet'
  <2>1. CASE phase = "preparing"
    BY <1>3, <1>4, <1>5, <1>7, <1>8, <2>1 DEF CallProgress
  <2>2. CASE phase # "preparing"
    BY <1>8, <2>2 DEF CallProgress, CallFails, Reconfigure, SendCheckpoint, FinishInit, TrainReturnsNormal,
       TrainReturnsDiscarded, CallReturns, Deliver
  <2> QED
    BY <2>1, <2>2
<1>9. CASE \E i \in Cells : RemoveCell(i) \/ AddCell(i) \/ ReplaceCell(i)
  BY <1>2, <1>9 DEF RemoveCell, AddCell, ReplaceCell
<1>10. ~ (BeginTrain \/ BeginPublish \/ BeginOnAll \/ NothingToRefresh \/ NoCellAlive \/ EndPrepare \/ EndAttempt
          \/ AskFirstAlive \/ EndPublish \/ EndOnAll \/ ExchangeSucceeds \/ ExchangeFails)
  BY DEF BeginTrain, BeginPublish, BeginOnAll, NothingToRefresh, NoCellAlive, EndPrepare, EndAttempt,
     AskFirstAlive, EndPublish, EndOnAll, ExchangeSucceeds, ExchangeFails, TrainOn, Return, GiveUp, Retry,
     RetryIfRecoverable
<1> QED
  BY <1>1, <1>6, <1>8, <1>9, <1>10 DEF Next, Controller

LEMMA InitMeets == Init => TransfersMeet
BY DEF Init, TransfersMeet

(***************************************************************************)
(* However preparations fail, cells are replaced and attempts are retried, *)
(* a quorum id names one membership, cells that train together are in one  *)
(* process group, every awaited call was made on its cell in the state     *)
(* that call needs (_refresh_cells, RayTrainCell.indep_dp_info), and no    *)
(* cell waits for a checkpoint that its source is done sending (send_ckpt).*)
(***************************************************************************)
THEOREM GroupIsConsistent == Spec => []GroupInv
BY AlwaysCore, CoreSuffices, InitMeets, MeetStep, PTL DEF Spec

----------------------------------------------------------------------------
(* Giving up *)

(***************************************************************************)
(* The controller gives up only when no cell is alive or all attempts are  *)
(* used up (retry, _check_recoverable), whatever fails and in which order. *)
(***************************************************************************)
THEOREM GivingUpHasCause == Spec => []GivesUpForCause
<1>1. Init => GivesUpForCause
  BY DEF Init, GivesUpForCause
<1>2. Core /\ GivesUpForCause /\ [Next]_vars => GivesUpForCause'
  <2> SUFFICES ASSUME Core, GivesUpForCause, [Next]_vars, phase' = "fatal"
               PROVE  Alive' = {} \/ attempt' = MaxAttempts
    BY DEF GivesUpForCause
  <2>1. CASE phase = "fatal"
    <3>1. Awaited = {}
      BY <2>1 DEF Core, CallsFitPhase, Idle, Awaited, Unresolved
    <3>2. \A i \in Cells : task[i].st = "none"
      BY <2>1 DEF Core, CallsFitPhase, Idle
    <3>3. UNCHANGED <<cell, attempt>>
      BY <2>1, <3>1, <3>2 DEF Next, vars, RemoveCell, AddCell, ReplaceCell, BeginTrain, BeginPublish,
         BeginOnAll, Controller, Refresh, NothingToRefresh, NoCellAlive, EndPrepare, EndAttempt,
         AskFirstAlive, EndPublish, EndOnAll, CallProgress, CallFails, Reconfigure, SendCheckpoint,
         FinishInit, TrainReturnsNormal, TrainReturnsDiscarded, CallReturns, Deliver, ExchangeSucceeds, ExchangeFails
    <3> QED
      BY <2>1, <3>3 DEF GivesUpForCause, Alive, InState
  <2>2. CASE phase # "fatal"
    <3>1. /\ UNCHANGED cell
          /\ Retry \/ Alive = {}
      BY <2>2 DEF Next, vars, RemoveCell, AddCell, ReplaceCell, BeginTrain, BeginPublish,
         BeginOnAll, Controller, Refresh, NothingToRefresh, NoCellAlive, EndPrepare, EndAttempt,
         AskFirstAlive, EndPublish, EndOnAll, CallProgress, CallFails, Reconfigure, SendCheckpoint,
         FinishInit, TrainReturnsNormal, TrainReturnsDiscarded, CallReturns, Deliver, ExchangeSucceeds, ExchangeFails,
         TrainOn, Return, RetryIfRecoverable
    <3>2. CASE Retry
      <4>1. attempt + 1 <= MaxAttempts /\ ~(attempt + 1 < MaxAttempts) /\ attempt' = attempt + 1
        BY <2>2, <3>2, AttemptBounds DEF Retry, AttemptsLeft, NextAttempt
      <4> QED
        BY <4>1, AttemptBounds
    <3>3. CASE Alive = {}
      BY <3>1, <3>3 DEF Alive, InState
    <3> QED
      BY <3>1, <3>2, <3>3
  <2> QED
    BY <2>1, <2>2
<1> QED
  BY <1>1, <1>2, AlwaysCore, PTL DEF Spec

----------------------------------------------------------------------------
(* The weights, where the exchange ends alike at all surviving cells *)

LEMMA AppendKeepsPrefix ==
    ASSUME NEW s \in Models, NEW t \in Models, NEW e \in Steps, IsPrefixOf(s, t)
    PROVE  IsPrefixOf(s, Append(t, e))
BY DEF Models, Steps, IsPrefixOf

LEMMA AppendOneStep ==
    ASSUME TypeOK, NEW w \in Models, NEW from \in SUBSET Cells, OneStepEach(w, rollout)
    PROVE  OneStepEach(Append(w, Step(from)), rollout + 1)
<1>1. Len(w) = rollout /\ rollout \in Nat /\ \A k \in 1 .. rollout : w[k][1] = k - 1
  BY DEF OneStepEach, TypeOK
<1> DEFINE e == Step(from)
<1>2. e[1] = rollout
  BY DEF Step
<1>3. e = Step(from) /\ w \in Seq(Steps) /\ e \in Steps
  BY DEF Models, Steps, Step, TypeOK
<1> HIDE DEF e
<1>4. Len(Append(w, e)) = rollout + 1
  BY <1>1, <1>3
<1>5. \A k \in 1 .. rollout : Append(w, e)[k] = w[k]
  BY <1>1, <1>3
<1>6. Append(w, e)[rollout + 1] = e
  BY <1>1, <1>3
<1>7. ASSUME NEW k \in 1 .. (rollout + 1) PROVE Append(w, e)[k][1] = k - 1
  <2>1. CASE k = rollout + 1
    BY <1>1, <1>2, <1>3, <1>6, <2>1
  <2>2. CASE k # rollout + 1
    <3>1. k \in 1 .. rollout
      BY <1>1, <2>2
    <3> QED
      BY <1>1, <1>5, <3>1
  <2> QED
    BY <2>1, <2>2
<1> QED
  BY <1>3, <1>4, <1>7 DEF OneStepEach

\* The holders are cells, and the alive ones alone while cells train.
LEMMA WhoHolds ==
    ASSUME Core
    PROVE  /\ Alive \subseteq Holders /\ Holders \subseteq Cells
           /\ phase # "preparing" => Holders = Alive
           /\ \A i \in Holders : cell[i].weights \in Models
           /\ rollout \in Nat /\ published \in Models
           /\ \A from \in SUBSET Cells : Step(from) \in Steps
<1>1. Alive \subseteq Holders /\ Holders \subseteq Cells
  BY DEF Holders, Alive, InState
<1>2. phase # "preparing" => Holders = Alive
  BY DEF Holders, Core, CallsFitPhase
<1>3. \A i \in Holders : cell[i].weights \in Models
  BY <1>1, CellType DEF Core
<1> QED
  BY <1>1, <1>2, <1>3 DEF Core, TypeOK, Steps, Step

\* Outside an attempt's training, holders that come from holders agree.
LEMMA HoldersStay ==
    ASSUME WeightsInv, phase # "training", phase' # "training", UNCHANGED <<rollout, published>>,
           \A i \in Holders' : \E j \in Holders : cell'[i].weights = cell[j].weights
    PROVE  WeightsInv'
<1>1. \A i \in Holders' : OneStepEach(cell'[i].weights, rollout) /\ IsPrefixOf(published, cell'[i].weights)
  BY DEF WeightsInv
<1>2. \A i, j \in Holders' : cell'[i].weights = cell'[j].weights
  BY DEF WeightsInv
<1> QED
  BY <1>1, <1>2 DEF WeightsInv

\* While cells train, some of them may drop out.
LEMMA TrainersStay ==
    ASSUME WeightsInv, Core, phase = "training",
           UNCHANGED <<phase, rollout, attempt, published>>,
           \A i \in Holders' : i \in Alive /\ i \in Alive' /\ cell'[i].weights = cell[i].weights
                                 /\ cell'[i].info = cell[i].info
                                 /\ (Stepped(i)' <=> Stepped(i)),
           \A i \in Alive' : i \in Holders',
           With("normal")' # {} => exchange' = "done",
           With("discarded")' # {} => exchange' = "broken"
    PROVE  WeightsInv'
<1>1. Holders = Alive
  BY WhoHolds
<1>3. \A i \in Alive' : OneStepEach(cell'[i].weights, IF Stepped(i)' THEN rollout + 1 ELSE rollout)
  BY DEF WeightsInv
<1>4. \A i, j \in Alive' : (Stepped(i)' <=> Stepped(j)') => cell'[i].weights = cell'[j].weights
  BY DEF WeightsInv
<1>5. ASSUME NEW i \in Alive', NEW j \in Alive', Stepped(i)', ~Stepped(j)'
      PROVE  cell'[i].weights = Append(cell'[j].weights, Step(cell'[i].info.members))
  <2>1. /\ i \in Alive /\ j \in Alive /\ Stepped(i) /\ ~Stepped(j)
        /\ cell'[i].weights = cell[i].weights /\ cell'[j].weights = cell[j].weights
        /\ cell'[i].info = cell[i].info
    BY <1>5
  <2>2. cell[i].weights = Append(cell[j].weights, Step(cell[i].info.members))
    BY <2>1 DEF WeightsInv
  <2> QED
    BY <2>1, <2>2
<1>6. \A i \in Holders' : IsPrefixOf(published, cell'[i].weights)
  BY <1>1 DEF WeightsInv
<1> QED
  BY <1>3, <1>4, <1>5, <1>6 DEF WeightsInv, Step

LEMMA InitWeights == Init => WeightsInv
<1> SUFFICES ASSUME Init PROVE WeightsInv
  OBVIOUS
<1>1. \A i \in Cells : cell[i].weights = << >> /\ rollout = 0 /\ published = << >> /\ phase = "idle"
  BY DEF Init, Fresh, Trivial
<1>2. Holders \subseteq Cells
  BY DEF Holders, Alive, InState
<1>3. OneStepEach(<< >>, 0) /\ IsPrefixOf(<< >>, << >>)
  BY DEF OneStepEach, IsPrefixOf
<1> QED
  BY <1>1, <1>2, <1>3 DEF WeightsInv, Init

\* Whoever still holds weights after a cell disappeared, appeared or was
\* replaced held them before.
LEMMA ReconcileWeights ==
    ASSUME Core, WeightsInv, NEW i \in Cells, RemoveCell(i) \/ AddCell(i) \/ ReplaceCell(i)
    PROVE  WeightsInv'
<1>1. /\ UNCHANGED <<quorum, phase, attempt, plan, task, exchange, op, rollout, published>>
      /\ \A k \in Cells : k # i => cell'[k] = cell[k]
      /\ cell'[i].state = "absent" \/ (cell'[i].gen = cell[i].gen + 1 /\ cell'[i].state = "uninitialized")
  BY CellsAreRecords DEF RemoveCell, AddCell, ReplaceCell, Fresh, Core, CellRecord, driverVars
<1>2. ~Current(i)'
  BY <1>1, CellType DEF Current, CallsFitPhase, Core
<1>3. \A k \in Cells : k # i => (Current(k)' <=> Current(k))
  BY <1>1 DEF Current
<1>4. \A k \in Holders' : k \in Cells /\ k # i /\ k \in Holders /\ (k \in Alive' <=> k \in Alive)
  BY <1>1, <1>2, <1>3 DEF Holders, Alive, InState
<1>5. CASE phase = "training"
  <2>1. Holders = Alive
    BY <1>5, WhoHolds
  <2>2. \A k \in Alive' : k \in Holders'
    BY DEF Holders
  <2>3. With("normal")' = With("normal") /\ With("discarded")' = With("discarded")
    BY <1>1 DEF With
  <2>4. \A k \in Holders' : Stepped(k)' <=> Stepped(k)
    BY <1>1 DEF Stepped
  <2> QED
    BY <1>1, <1>4, <1>5, <2>1, <2>2, <2>3, <2>4, TrainersStay DEF WeightsInv
<1>6. CASE phase # "training"
  BY <1>1, <1>4, <1>6, HoldersStay
<1> QED
  BY <1>5, <1>6

\* A cell whose call failed holds nothing any more.
LEMMA FailWeights == ASSUME Core, WeightsInv, NEW i \in Cells, CallFails(i) PROVE WeightsInv'
<1>1. /\ UNCHANGED <<quorum, phase, attempt, plan, exchange, op, rollout, published>>
      /\ \A k \in Cells : k # i => cell'[k] = cell[k] /\ task'[k] = task[k]
      /\ task'[i].st = "failed" /\ task'[i].gen = task[i].gen
      /\ cell' = cell \/ cell'[i].state = "errored"
      /\ Current(i) => cell'[i].state = "errored"
  BY CellsAreRecords DEF CallFails, Resolve, Core, CellRecord, Call, driverVars
<1>2. \A k \in Cells : k # i => (Current(k)' <=> Current(k))
  BY <1>1 DEF Current
<1>3. i \in Holders' => i \in Alive' /\ i \in Alive /\ ~Current(i) /\ cell' = cell
  BY <1>1 DEF Holders, Alive, InState
<1>4. \A k \in Holders' : /\ k \in Cells /\ k \in Holders /\ cell'[k] = cell[k]
                          /\ k \in Alive' <=> k \in Alive
  BY <1>1, <1>2, <1>3 DEF Holders, Alive, InState
<1>5. CASE phase = "training"
  <2>1. Holders = Alive
    BY <1>5, WhoHolds
  <2>2. \A k \in Alive' : k \in Holders'
    BY DEF Holders
  <2>3. With("normal")' \subseteq With("normal") /\ With("discarded")' \subseteq With("discarded")
    BY <1>1 DEF With
  <2>4. i \notin Holders'
    BY <1>3, <1>5 DEF Core, AliveTakePart
  <2>5. \A k \in Holders' : Stepped(k)' <=> Stepped(k)
    BY <1>1, <1>4, <2>4 DEF Stepped
  <2> QED
    BY <1>1, <1>4, <1>5, <2>1, <2>2, <2>3, <2>5, TrainersStay DEF WeightsInv
<1>6. CASE phase # "training"
  BY <1>1, <1>4, <1>6, HoldersStay
<1> QED
  BY <1>5, <1>6

\* The preparation: a cell becomes a holder by receiving a holder's weights.
LEMMA PrepareWeights ==
    ASSUME Core, WeightsInv, NEW i \in Cells, Reconfigure(i) \/ SendCheckpoint(i) \/ FinishInit(i)
    PROVE  WeightsInv'
<1>1. phase = "preparing" /\ UNCHANGED <<quorum, phase, attempt, exchange, op, rollout, published>>
  BY DEF Reconfigure, SendCheckpoint, FinishInit, Core, CallsFitPhase, driverVars
<1>2. CASE Reconfigure(i) \/ FinishInit(i)
  <2>1. /\ \A k \in Cells : /\ k # i => cell'[k] = cell[k] /\ task'[k] = task[k]
                            /\ cell'[k].weights = cell[k].weights /\ cell'[k].gen = cell[k].gen
                            /\ task'[k].gen = task[k].gen
        /\ (task[i].st = "load" /\ Current(i)) \/ cell[i].state = "alive"
    BY <1>2, CellsAreRecords DEF Reconfigure, FinishInit, Resolve, Core, CallsFitPhase, CellRecord, Call
  <2>2. \A k \in Holders' : k \in Holders
    BY <2>1 DEF Holders, Alive, InState, Current
  <2>3. Holders' \subseteq Cells
    BY DEF Holders, Alive, InState
  <2> QED
    BY <1>1, <2>1, <2>2, <2>3, HoldersStay
<1>3. CASE SendCheckpoint(i)
  <2>1. Source \in plan.alive /\ plan.alive \subseteq Cells
    BY <1>1, MinIsIn DEF Core, CallsFitPhase, Source, TypeOK
  <2>2. task[Source].st = "send" /\ Current(Source)
    BY <1>3 DEF SendCheckpoint
  <2>3. Source \in Holders
    BY <2>1, <2>2 DEF Core, CallsFitPhase, Holders, Alive, InState
  <2>4. /\ \A k \in Cells : /\ cell'[k].state = cell[k].state /\ cell'[k].gen = cell[k].gen
                            /\ k # i => cell'[k] = cell[k]
        /\ cell'[i] = cell[i] \/ cell'[i].weights = cell[Source].weights
    <3>1. cell' = cell \/ cell' = [cell EXCEPT ![i].weights = cell[Source].weights]
      BY <1>3 DEF SendCheckpoint, Received
    <3>2. CASE cell' = cell
      BY <3>2
    <3>3. CASE cell' = [cell EXCEPT ![i].weights = cell[Source].weights]
      <4>1. cell[i] \in CellRecord /\ cell \in [Cells -> CellRecord]
        BY CellType, CellsAreRecords DEF Core
      <4>2. /\ \A k \in Cells : k # i => cell'[k] = cell[k]
            /\ cell'[i] = [cell[i] EXCEPT !.weights = cell[Source].weights]
        BY <3>3, <4>1
      <4>3. /\ cell'[i].weights = cell[Source].weights
            /\ cell'[i].state = cell[i].state /\ cell'[i].gen = cell[i].gen
        BY <4>1, <4>2 DEF CellRecord
      <4> QED
        BY <4>2, <4>3
    <3> QED
      BY <3>1, <3>2, <3>3
  <2>5. \A k \in Cells : /\ task'[k].gen = task[k].gen
                         /\ task'[k].st = "load" => task[k].st = "load" \/ (k = i /\ cell'[i].weights = cell[Source].weights)
    <3>1. PICK s \in {"ok", "send"} :
        \/ task' = [[task EXCEPT ![Source].st = s] EXCEPT ![i].st = "load"] /\ task[i].st = "receive"
           /\ cell' = [cell EXCEPT ![i].weights = cell[Source].weights]
        \/ task' = [task EXCEPT ![Source].st = s]
      BY <1>3 DEF SendCheckpoint, Received
    <3>2. i \in Cells /\ Source \in Cells
      BY <2>1
    <3>3. CASE task' = [task EXCEPT ![Source].st = s]
      BY <2>2, <3>2, <3>3, CellsAreRecords DEF Core, Call
    <3>4. CASE task' = [[task EXCEPT ![Source].st = s] EXCEPT ![i].st = "load"] /\ task[i].st = "receive"
           /\ cell' = [cell EXCEPT ![i].weights = cell[Source].weights]
      <4>1. i # Source
        BY <2>2, <3>4
      <4>2. cell'[i].weights = cell[Source].weights
        BY <3>4, CellsAreRecords DEF Core, CellRecord
      <4>3. task' = [task EXCEPT ![Source] = [@ EXCEPT !.st = s], ![i] = [@ EXCEPT !.st = "load"]]
        BY <3>4, <4>1
      <4>4. \A k \in Cells : /\ k # Source /\ k # i => task'[k] = task[k]
                             /\ k = Source => task'[k] = [task[k] EXCEPT !.st = s]
                             /\ k = i => task'[k] = [task[k] EXCEPT !.st = "load"]
        BY <4>1, <4>3, <3>2, CellsAreRecords DEF Core
      <4>5. \A k \in Cells : task[k] \in Call
        BY CellsAreRecords DEF Core
      <4>6. ASSUME NEW k \in Cells
            PROVE  /\ task'[k].gen = task[k].gen
                   /\ task'[k].st = "load" => task[k].st = "load" \/ k = i
        BY <4>4, <4>5 DEF Call
      <4> QED
        BY <4>2, <4>6
    <3> QED
      BY <3>1, <3>3, <3>4
  <2>6. \A k \in Holders' : k \in Cells /\ (k \in Holders \/ cell'[k].weights = cell[Source].weights)
    BY <2>4, <2>5 DEF Holders, Alive, InState, Current
  <2>7. \A k \in Cells : cell'[k].weights = cell[k].weights \/ cell'[k].weights = cell[Source].weights
    BY <2>4
  <2> QED
    BY <1>1, <2>3, <2>6, <2>7, HoldersStay
<1> QED
  BY <1>2, <1>3

\* A new gather, or none: where the cells do not change, the alive ones hold
\* what they held.
LEMMA GatherWeights ==
    ASSUME Core, WeightsInv, phase # "training", phase' # "training",
           UNCHANGED <<cell, rollout, published>>,
           \A i \in Cells : task'[i].st # "load"
    PROVE  WeightsInv'
<1>1. \A i \in Holders' : i \in Cells /\ i \in Holders
  BY DEF Holders, Alive, InState
<1> QED
  BY <1>1, HoldersStay

\* The ends of an attempt that took no step.
LEMMA EndWeights ==
    ASSUME Core, WeightsInv, phase = "training" => With("normal") = {},
           UNCHANGED <<cell, rollout, published>>, Return \/ GiveUp \/ Retry
    PROVE  WeightsInv'
<1>1. task' = Idle /\ phase' \in {"idle", "attempt", "fatal"}
  BY DEF Return, GiveUp, Retry
<1>2. \A i \in Cells : task'[i].st # "load"
  BY <1>1 DEF Idle
<1>3. CASE phase # "training"
  BY <1>1, <1>2, <1>3, GatherWeights
<1>4. CASE phase = "training"
  <2>1. Holders' = Alive /\ Holders = Alive
    BY <1>2, <1>4, WhoHolds DEF Holders, Alive, InState
  <2>2. \A i \in Alive : i \in Cells /\ ~Stepped(i)
    BY <1>4 DEF Stepped, With, Alive, InState
  <2>3. \A i, j \in Alive : OneStepEach(cell[i].weights, rollout) /\ cell[i].weights = cell[j].weights
    BY <1>4, <2>2 DEF WeightsInv
  <2> QED
    BY <1>1, <2>1, <2>3 DEF WeightsInv
<1> QED
  BY <1>3, <1>4

\* The driver is told that a rollout is trained when all alive cells took
\* its step.
LEMMA AcceptWeights ==
    ASSUME Core, WeightsInv, phase = "training", Awaited = {}, Accepted, Return,
           rollout' = rollout + 1, UNCHANGED <<cell, published>>
    PROVE  WeightsInv'
<1>1. task' = Idle /\ phase' = "idle"
  BY DEF Return
<1>2. Holders' = Alive /\ Holders = Alive
  BY <1>1, WhoHolds DEF Holders, Alive, InState, Idle
<1>3. \A i \in Alive : i \in Cells /\ Stepped(i)
  BY DEF Stepped, With, Alive, InState, Core, AliveTakePart, Awaited, Unresolved, Accepted
<1>4. \A i, j \in Alive : OneStepEach(cell[i].weights, rollout + 1) /\ cell[i].weights = cell[j].weights
  BY <1>3 DEF WeightsInv
<1>5. \A i \in Alive : IsPrefixOf(published, cell[i].weights)
  BY <1>2 DEF WeightsInv
<1> QED
  BY <1>1, <1>2, <1>4, <1>5 DEF WeightsInv

\* An attempt begins to train: nobody has stepped in it.
LEMMA TrainWeights ==
    ASSUME Core, WeightsInv, phase # "training", TrainOn(Alive), UNCHANGED <<rollout, attempt, published>>
    PROVE  WeightsInv'
<1>1. /\ phase' = "training"
      /\ task' = Await([i \in Cells |-> IF i \in Alive THEN "train" ELSE "none"])
  BY DEF TrainOn
<1>2. \A i \in Cells : task'[i].st \in {"train", "none"}
  BY <1>1 DEF Await, Idle
<1>3. \A i \in Cells : cell'[i].state = cell[i].state /\ cell'[i].weights = cell[i].weights
  BY CellsAreRecords DEF TrainOn, CellRecord, Core
<1>4. Alive' = Alive /\ Holders' = Alive /\ Alive \subseteq Holders /\ Alive \subseteq Cells
  BY <1>2, <1>3 DEF Alive, InState, Holders
<1>5. With("normal")' = {} /\ With("discarded")' = {} /\ \A i \in Alive : ~Stepped(i)'
  BY <1>2, <1>4 DEF With, Stepped
<1>6. \A i, j \in Alive : /\ OneStepEach(cell'[i].weights, rollout) /\ cell'[i].weights = cell'[j].weights
                          /\ IsPrefixOf(published, cell'[i].weights)
  BY <1>3, <1>4 DEF WeightsInv
<1> QED
  BY <1>1, <1>4, <1>5, <1>6 DEF WeightsInv

\* A cell takes the attempt's step: those that took it agree with it, the
\* others are one step behind, as it was.
LEMMA StepWeights ==
    ASSUME ChecksNan, Core, WeightsInv, NEW i \in Cells, TrainReturnsNormal(i)
    PROVE  WeightsInv'
<1>1. /\ phase = "training" /\ exchange = "done" /\ Current(i) /\ task[i].st = "train"
      /\ i \in Alive /\ ~Stepped(i)
      /\ UNCHANGED <<phase, exchange, rollout, attempt, published>>
  BY DEF TrainReturnsNormal, Exchanged, Core, CallsFitPhase, Alive, InState, Stepped, driverVars
<1> DEFINE from == cell[i].info.members
<1>0. from \in SUBSET Cells /\ \A k \in Alive : cell[k].info.members = from
  BY <1>1, CellType DEF Core, AliveTakePart
<1> HIDE DEF from
<1>2. /\ \A k \in Cells : /\ k # i => cell'[k] = cell[k] /\ task'[k] = task[k]
                          /\ cell'[k].state = cell[k].state /\ cell'[k].info = cell[k].info
      /\ cell'[i].weights = Append(cell[i].weights, Step(from))
      /\ task'[i].st = "normal"
  <2>1. cell[i] \in CellRecord /\ task[i] \in Call /\ cell \in [Cells -> CellRecord] /\ task \in [Cells -> Call]
    BY CellType, CellsAreRecords DEF Core
  <2>2. /\ \A k \in Cells : k # i => cell'[k] = cell[k] /\ task'[k] = task[k]
        /\ cell'[i] = [cell[i] EXCEPT !.weights = Append(@, Step(from))]
        /\ task'[i] = [task[i] EXCEPT !.st = "normal"]
    BY <1>1, <2>1 DEF TrainReturnsNormal, StepOf, Resolve, from
  <2> QED
    BY <2>1, <2>2 DEF CellRecord, Call
<1>3. Alive' = Alive /\ Alive \subseteq Cells /\ Holders = Alive
  BY <1>1, <1>2, WhoHolds DEF Alive, InState
<1>4. Holders' = Alive
  BY <1>1, <1>2, <1>3 DEF Holders, Core, CallsFitPhase
<1>5. Stepped(i)' /\ \A k \in Alive : k # i => (Stepped(k)' <=> Stepped(k))
  BY <1>2, <1>3 DEF Stepped
<1>6. With("discarded")' = {}
  BY <1>1, <1>2 DEF WeightsInv, With
<1>7. \A k \in Alive : OneStepEach(cell'[k].weights, IF Stepped(k)' THEN rollout + 1 ELSE rollout)
  <2>1. OneStepEach(cell[i].weights, rollout)
    BY <1>1 DEF WeightsInv
  <2>2. OneStepEach(cell'[i].weights, rollout + 1)
    BY <1>0, <1>1, <1>2, <1>3, <2>1, WhoHolds, AppendOneStep DEF Core
  <2> QED
    BY <1>1, <1>2, <1>3, <1>5, <2>2 DEF WeightsInv
<1>8. ASSUME NEW k \in Alive, NEW l \in Alive
      PROVE  /\ (Stepped(k)' <=> Stepped(l)') => cell'[k].weights = cell'[l].weights
             /\ Stepped(k)' /\ ~Stepped(l)' => cell'[k].weights = Append(cell'[l].weights, Step(from))
  <2>1. /\ (Stepped(k) <=> Stepped(l)) => cell[k].weights = cell[l].weights
        /\ Stepped(k) /\ ~Stepped(l) => cell[k].weights = Append(cell[l].weights, Step(from))
        /\ Stepped(k) => cell[k].weights = Append(cell[i].weights, Step(from))
        /\ Stepped(l) => cell[l].weights = Append(cell[i].weights, Step(from))
        /\ ~Stepped(k) => cell[k].weights = cell[i].weights
        /\ ~Stepped(l) => cell[l].weights = cell[i].weights
    BY <1>0, <1>1 DEF WeightsInv
  <2>2. /\ k # i => cell'[k].weights = cell[k].weights /\ (Stepped(k)' <=> Stepped(k))
        /\ l # i => cell'[l].weights = cell[l].weights /\ (Stepped(l)' <=> Stepped(l))
    BY <1>2, <1>3, <1>5
  <2>3. CASE k = i /\ l = i
    BY <2>3
  <2>4. CASE k = i /\ l # i
    BY <1>2, <1>5, <2>1, <2>2, <2>4
  <2>5. CASE k # i /\ l = i
    BY <1>2, <1>5, <2>1, <2>2, <2>5
  <2>6. CASE k # i /\ l # i
    BY <2>1, <2>2, <2>6
  <2> QED
    BY <2>3, <2>4, <2>5, <2>6
<1>9. \A k \in Alive : IsPrefixOf(published, cell'[k].weights)
  <2>1. \A k \in Alive : IsPrefixOf(published, cell[k].weights)
    BY <1>3 DEF WeightsInv
  <2>2. IsPrefixOf(published, Append(cell[i].weights, Step(from)))
    BY <1>0, <1>1, <1>3, <2>1, WhoHolds, AppendKeepsPrefix
  <2> QED
    BY <1>2, <1>3, <2>1, <2>2
<1> QED
  <2>1. \A k \in Alive : cell'[k].info.members = from
    BY <1>0, <1>2, <1>3
  <2> QED
    BY <1>1, <1>3, <1>4, <1>6, <1>7, <1>8, <1>9, <2>1 DEF WeightsInv, Step

\* Where the exchange ends alike and the gradients are checked, a discarded
\* step means that nobody steps.
LEMMA DiscardWeights ==
    ASSUME AtomicExchange, ChecksNan, Core, WeightsInv, NEW i \in Cells, TrainReturnsDiscarded(i)
    PROVE  WeightsInv'
<1>1. /\ phase = "training" /\ exchange = "broken" /\ task[i].st = "train" /\ task' = [task EXCEPT ![i].st = "discarded"]
      /\ UNCHANGED <<cell, phase, exchange, rollout, attempt, published>>
  BY DEF TrainReturnsDiscarded, Core, CallsFitPhase, Resolve, driverVars
<1>2. \A k \in Cells : task'[k].st = "normal" <=> task[k].st = "normal"
  BY <1>1, CellsAreRecords DEF Core, Call
<1>3. With("normal")' = With("normal") /\ \A k \in Cells : Stepped(k)' <=> Stepped(k)
  BY <1>2 DEF With, Stepped
<1>4. \A k \in Holders' : k \in Cells /\ k \in Alive /\ k \in Alive'
  <2>1. \A k \in Cells : task'[k].st # "load"
    BY <1>1, CellsAreRecords DEF Core, Call, CallsFitPhase
  <2> QED
    BY <1>1, <2>1 DEF Holders, Alive, InState
<1>5. \A k \in Alive' : k \in Holders'
  BY DEF Holders
<1> QED
  BY <1>1, <1>3, <1>4, <1>5, TrainersStay DEF WeightsInv

\* What is published is what all alive cells hold.
LEMMA CallWeights ==
    ASSUME Core, WeightsInv, NEW i \in Cells, CallReturns(i) \/ Deliver(i)
    PROVE  WeightsInv' /\ IsPrefixOf(published, published')
<1>1. /\ phase = "calling" /\ i \in Holders /\ Holders = Alive
      /\ UNCHANGED <<cell, phase, rollout>> /\ task' \in {task, [task EXCEPT ![i].st = "ok"]}
      /\ published' \in {published, cell[i].weights}
  BY WhoHolds DEF CallReturns, Deliver, driverVars, Core, CallsFitPhase, Alive, InState, Resolve
<1>2. \A k \in Cells : task'[k].st # "load"
  BY <1>1, CellsAreRecords DEF Core, Call, CallsFitPhase
<1>3. Holders' = Holders
  BY <1>1, <1>2 DEF Holders, Alive, InState
<1>4. \A s \in Models : IsPrefixOf(s, s)
  BY DEF Models, IsPrefixOf
<1>5. \A k, l \in Holders : /\ OneStepEach(cell[k].weights, rollout) /\ cell[k].weights = cell[l].weights
                            /\ IsPrefixOf(published, cell[k].weights)
  BY <1>1 DEF WeightsInv
<1>6. \A k \in Holders : IsPrefixOf(published', cell[k].weights)
  BY <1>1, <1>4, <1>5, WhoHolds
<1>7. IsPrefixOf(published, published')
  BY <1>1, <1>4, <1>5, WhoHolds
<1> QED
  BY <1>1, <1>3, <1>5, <1>6, <1>7 DEF WeightsInv

LEMMA WeightsStep ==
    ASSUME AtomicExchange, ChecksNan, Core, WeightsInv, [Next]_vars
    PROVE  WeightsInv'
<1>1. CASE \E i \in Cells : RemoveCell(i) \/ AddCell(i) \/ ReplaceCell(i)
  BY <1>1, ReconcileWeights
<1>2. CASE BeginTrain \/ BeginPublish \/ BeginOnAll
  <2>1. phase = "idle" /\ phase' # "training" /\ UNCHANGED <<cell, rollout, published>>
    BY <1>2 DEF BeginTrain, BeginPublish, BeginOnAll
  <2>2. \A i \in Cells : task[i].st = "none"
    BY <2>1 DEF Core, CallsFitPhase, Idle
  <2>3. \A i \in Cells : task'[i].st # "load"
    BY <1>2, <2>2 DEF BeginTrain, BeginPublish, BeginOnAll, Await, Idle
  <2> QED
    BY <2>1, <2>3, GatherWeights
<1>3. CASE Controller
  <2>1. CASE Refresh
    <3>1. phase = "attempt" /\ phase' = "preparing" /\ UNCHANGED <<cell, rollout, published>>
      BY <2>1 DEF Refresh, driverVars
    <3>2. \A i \in Cells : task'[i].st # "load"
      BY <2>1 DEF Refresh, Await, Idle
    <3> QED
      BY <3>1, <3>2, GatherWeights
  <2>2. CASE AskFirstAlive
    <3>1. phase = "attempt" /\ phase' = "calling" /\ UNCHANGED <<cell, rollout, published>>
      BY <2>2 DEF AskFirstAlive, driverVars
    <3>2. \A i \in Cells : task'[i].st # "load"
      BY <2>2 DEF AskFirstAlive, Await, Idle
    <3> QED
      BY <3>1, <3>2, GatherWeights
  <2>3. CASE NothingToRefresh
    BY <2>3, TrainWeights DEF NothingToRefresh, driverVars
  <2>4. CASE NoCellAlive \/ EndPublish \/ EndOnAll
    BY <2>4, EndWeights DEF NoCellAlive, EndPublish, EndOnAll, RetryIfRecoverable
  <2>5. CASE EndPrepare
    BY <2>5, EndWeights, TrainWeights DEF EndPrepare
  <2>6. CASE EndAttempt
    <3>1. CASE Accepted
      BY <2>6, <3>1, AcceptWeights DEF EndAttempt
    <3>2. CASE ~Accepted
      <4>1. With("normal") = {}
        BY <2>6, <3>2 DEF Accepted, WeightsInv, EndAttempt
      <4> QED
        BY <2>6, <3>2, <4>1, EndWeights DEF EndAttempt, RetryIfRecoverable
    <3> QED
      BY <3>1, <3>2
  <2> QED
    BY <1>3, <2>1, <2>2, <2>3, <2>4, <2>5, <2>6 DEF Controller
<1>4. ASSUME NEW i \in Cells, CallProgress(i) PROVE WeightsInv'
  BY <1>4, FailWeights, PrepareWeights, StepWeights, DiscardWeights, CallWeights DEF CallProgress
<1>5. CASE ExchangeSucceeds \/ ExchangeFails
  <2>1. /\ phase = "training" /\ exchange = "open"
        /\ UNCHANGED <<cell, phase, attempt, task, rollout, published>>
    BY <1>5 DEF ExchangeSucceeds, ExchangeFails, driverVars
  <2>2. With("normal") = {} /\ With("discarded") = {}
    BY <2>1 DEF WeightsInv
  <2>3. With("normal")' = {} /\ With("discarded")' = {} /\ \A k \in Cells : Stepped(k)' <=> Stepped(k)
    BY <2>1, <2>2 DEF With, Stepped
  <2>4. /\ Holders' = Holders /\ Alive' = Alive /\ Alive \subseteq Cells
    BY <2>1 DEF Holders, Alive, InState, Current
  <2>5. Holders = Alive
    BY <2>1, WhoHolds
  <2> QED
    BY <2>1, <2>3, <2>4, <2>5, TrainersStay
<1>6. CASE UNCHANGED vars
  BY <1>6 DEF vars, WeightsInv, Holders, Alive, InState, Current, With, Stepped, Step
<1> QED
  BY <1>1, <1>2, <1>3, <1>4, <1>5, <1>6 DEF Next

(***************************************************************************)
(* Where the gradient exchange ends alike at all surviving cells, and bad  *)
(* gradients raise (check_for_nan_in_loss_and_grad, train_one_step): the   *)
(* cells that are alive, or about to be after receiving a checkpoint, hold *)
(* the same model, with one step for every rollout the driver was told is  *)
(* trained; while an attempt ends they differ at most by its step; and     *)
(* every one of them contains what was published (train, send_ckpt,        *)
(* _check_train_one_attempt).                                              *)
(***************************************************************************)
THEOREM WeightsAreConsistent == ASSUME AtomicExchange, ChecksNan PROVE Spec => []WeightsInv
<1>1. Core /\ WeightsInv /\ [Next]_vars => WeightsInv'
  BY WeightsStep
<1> QED
  BY <1>1, InitWeights, AlwaysCore, PTL DEF Spec

(***************************************************************************)
(* Between two calls of the driver all alive cells hold the same model,    *)
(* however many were healed meanwhile and from whatever source.            *)
(***************************************************************************)
THEOREM ReplicasStayEqual == ASSUME AtomicExchange, ChecksNan PROVE Spec => []ReplicasAgree
<1>1. WeightsInv => ReplicasAgree
  BY DEF WeightsInv, ReplicasAgree, Holders
<1> QED
  BY <1>1, WeightsAreConsistent, PTL

(***************************************************************************)
(* That model has taken exactly one step for every rollout the driver was  *)
(* told is trained, in their order, over any number of discarded attempts, *)
(* retries, failures and replaced cells (train, retry).                    *)
(***************************************************************************)
THEOREM RolloutsApplyOnce == ASSUME AtomicExchange, ChecksNan PROVE Spec => []EveryRolloutAppliedOnce
<1>1. WeightsInv => EveryRolloutAppliedOnce
  BY DEF WeightsInv, EveryRolloutAppliedOnce, Holders, OneStepEach
<1> QED
  BY <1>1, WeightsAreConsistent, PTL

(***************************************************************************)
(* No publication drops a step that an earlier one contained, also when    *)
(* update_weights was repeated on another cell or the first alive cell is  *)
(* a healed one (_execute_first_alive).                                    *)
(***************************************************************************)
THEOREM PublicationsGoForward == ASSUME AtomicExchange, ChecksNan PROVE Spec => PublishedNeverGoesBack
<1>1. Core /\ WeightsInv /\ [Next]_vars => [IsPrefixOf(published, published')]_published
  <2> SUFFICES ASSUME Core, WeightsInv, Next, published' # published
               PROVE  IsPrefixOf(published, published')
    BY DEF vars
  <2>1. PICK i \in Cells : Deliver(i)
    BY DEF Next, RemoveCell, AddCell, ReplaceCell, BeginTrain, BeginPublish,
       BeginOnAll, Controller, Refresh, NothingToRefresh, NoCellAlive, EndPrepare, EndAttempt,
       AskFirstAlive, EndPublish, EndOnAll, CallProgress, CallFails, Reconfigure, SendCheckpoint,
       FinishInit, TrainReturnsNormal, TrainReturnsDiscarded, CallReturns, ExchangeSucceeds, ExchangeFails,
       driverVars
  <2> QED
    BY <2>1, CallWeights
<1> QED
  BY <1>1, AlwaysCore, WeightsAreConsistent, PTL DEF Spec, PublishedNeverGoesBack
=============================================================================
