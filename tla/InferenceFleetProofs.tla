------------------------ MODULE InferenceFleetProofs ------------------------
(***************************************************************************)
(* Proofs about the inference controller and its fleet, for any cells and  *)
(* any numbers of incarnations, updates, scripts and failed calls.         *)
(* FleetInv is inductive, and from it follow that no live engine the       *)
(* router knows lags the last update that ended, and that a verdict rests  *)
(* on failures of the present epoch.                                       *)
(***************************************************************************)
EXTENDS InferenceFleet, TLAPS

----------------------------------------------------------------------------
(* Types *)

ServerCell == [state : {"none", "initializing", "pending", "serving"}, hash : 0 .. MaxIncarnation]
Checker == [seen : BOOLEAN \X Nat, failures : Seq(Nat),
            status : {"unknown", "healthy", "unhealthy"}, probe : Nat \cup {-1}]

LEMMA Bounds ==
    /\ Threshold \in Nat /\ Threshold > 0 /\ MaxIncarnation \in Nat /\ MaxIncarnation > 0
    /\ MaxScripts \in Nat /\ MaxUpdates \in Nat /\ MaxFaults \in Nat
    /\ Checked \subseteq Cells /\ Renewed \subseteq Cells
BY FleetAssumption

LEMMA CellType ==
    ASSUME TypeOK, NEW c \in Cells
    PROVE  /\ world[c] \in Nat /\ world[c] <= MaxIncarnation
           /\ born[c] \in Nat /\ born[c] <= MaxIncarnation
           /\ weights[c] \in Nat
           /\ cell[c] \in ServerCell /\ cell[c].hash \in Nat /\ cell[c].hash <= MaxIncarnation
           /\ cell[c].state \in {"none", "initializing", "pending", "serving"}
           /\ cell[c] = [state |-> cell[c].state, hash |-> cell[c].hash]
BY Bounds DEF TypeOK, ServerCell

LEMMA Numbers ==
    ASSUME TypeOK, NEW c \in Cells
    PROVE  /\ world[c] \in Nat /\ world[c] <= MaxIncarnation
           /\ born[c] \in Nat /\ born[c] <= MaxIncarnation
           /\ weights[c] \in Nat
           /\ cell[c].hash \in Nat /\ cell[c].hash <= MaxIncarnation
           /\ MaxIncarnation \in Nat /\ MaxIncarnation >= 1
<1>1. MaxIncarnation \in Nat /\ MaxIncarnation >= 1
  BY Bounds
<1> QED
  BY <1>1, CellType, Zenon

LEMMA NoCellHere == NoCell \in ServerCell /\ NoCell.state = "none" /\ NoCell.hash = 0
BY Bounds DEF NoCell, ServerCell

LEMMA NewCheckerType ==
    /\ NewChecker \in Checker
    /\ NewChecker.probe = -1 /\ ~ NewChecker.seen[1] /\ NewChecker.status = "unknown"
    /\ NewChecker.failures = << >>
<1>1. << >> \in Seq(Nat) /\ -1 \in Nat \cup {-1} /\ 0 \in Nat
  OBVIOUS
<1>2. <<FALSE, 0>> \in BOOLEAN \X Nat
  BY <1>1, Zenon
<1>3. NewChecker \in Checker
  BY <1>1, <1>2, Zenon DEF NewChecker, Checker
<1>4. NewChecker.seen = <<FALSE, 0>> /\ <<FALSE, 0>>[1] = FALSE
  BY Zenon DEF NewChecker
<1> QED
  BY <1>3, <1>4 DEF NewChecker

\* The calls on their way to the router.
LEMMA CallType ==
    ASSUME TypeOK, NEW r \in registering
    PROVE  /\ r[1] \in Cells /\ r[2] \in Incarnations /\ r[3] \in 1 .. target
           /\ r = <<r[1], r[2], r[3]>>
BY DEF TypeOK

\* A live engine that is routed to is a real one.
LEMMA RoutedType ==
    ASSUME TypeOK, NEW e \in Routed
    PROVE  e[1] \in Cells /\ e[2] \in Incarnations /\ e = <<e[1], e[2]>>
<1>1. CASE e \in router
  BY <1>1 DEF TypeOK
<1>2. CASE \E r \in registering : e = <<r[1], r[2]>>
  BY <1>2, CallType
<1> QED
  BY <1>1, <1>2 DEF Routed

LEMMA ServingType ==
    ASSUME NEW e
    PROVE  e \in Serving <=> \E c \in Cells : cell[c].state = "serving" /\ e = <<c, cell[c].hash>>
BY DEF Serving

----------------------------------------------------------------------------
(* The frame: what an invariant does not mention cannot disturb it *)

LEMMA InitInv == Init => FleetInv
<1> SUFFICES ASSUME Init PROVE FleetInv
  OBVIOUS
<1>1. \A c \in Cells : world[c] = 0 /\ born[c] = 0 /\ weights[c] = 0 /\ cell[c] = NoCell /\ checker[c] = NewChecker
  BY DEF Init
<1>2. NewChecker \in Checker
  BY NewCheckerType
<1>3. TypeOK
  <2>1. /\ world \in [Cells -> 0 .. MaxIncarnation] /\ born \in [Cells -> 0 .. MaxIncarnation]
        /\ weights \in [Cells -> Nat] /\ cell \in [Cells -> ServerCell]
    BY NoCellHere, Bounds DEF Init
  <2>2. checker \in [Cells -> Checker]
    BY <1>2 DEF Init
  <2>3. target \in Nat /\ committed \in 0 .. target /\ epoch \in Nat /\ faults \in Nat
    BY DEF Init
  <2>4. locked \in BOOLEAN /\ active \in BOOLEAN
    BY Zenon DEF Init
  <2>5. router \subseteq Cells \X Incarnations /\ registering \subseteq Cells \X Incarnations \X (1 .. target)
    BY DEF Init
  <2>6. update \in {"none", "waiting", "detached", "ending"}
        /\ script \in {"idle", "updating", "failed", "dead", "takeover"}
    BY DEF Init
  <2> QED
    BY <2>1, <2>2, <2>3, <2>4, <2>5, <2>6, Zenon DEF TypeOK, ServerCell, Checker
<1>4. EnginesAreNew
  <2>1. \A c \in Cells : /\ cell[c].state = "none" /\ cell[c].hash = 0
                         /\ world[c] = 0 /\ born[c] = 0 /\ weights[c] = 0
    BY <1>1, NoCellHere, Zenon
  <2>2. target = 0
    BY DEF Init
  <2> QED
    <3>1. 0 <= 0
      OBVIOUS
    <3> QED
      BY <2>1, <2>2, <3>1, Zenon DEF EnginesAreNew
<1>5. LockHolds
  BY DEF LockHolds, Init
<1>6. RouterServes
  BY <1>1, NoCellHere DEF RouterServes, Serving, Init
<1>7. RoutesAreKnown
  BY DEF RoutesAreKnown, Routed, Init
<1>8. CheckersAreCurrent
  <2>1. \A c \in Cells : /\ checker[c].probe = -1 /\ ~ checker[c].seen[1] /\ checker[c].status = "unknown"
                         /\ checker[c].failures = << >>
    BY <1>1, NewCheckerType, Zenon
  <2>2. Len(<< >>) = 0 /\ 0 <= Threshold
    BY Bounds
  <2> QED
    BY <2>1, <2>2 DEF CheckersAreCurrent
<1> QED
  BY <1>3, <1>4, <1>5, <1>6, <1>7, <1>8 DEF FleetInv

\* Steps of the script and of the health tracker.
LEMMA ScriptFrame ==
    ASSUME FleetInv, UNCHANGED <<fleet, lock, checker>>, epoch' \in Nat, faults' \in Nat, faults' >= faults,
           active' \in BOOLEAN, script' \in {"idle", "updating", "failed", "dead", "takeover"}
    PROVE  FleetInv'
<1> USE DEF FleetInv, fleet, lock
<1>1. TypeOK'
  BY Zenon DEF TypeOK, Incarnations
<1>2. EnginesAreNew' /\ LockHolds' /\ CheckersAreCurrent'
  BY DEF EnginesAreNew, LockHolds, CheckersAreCurrent, Present
<1>3. faults' = 0 => faults = 0
  BY DEF TypeOK
<1>4. RouterServes'
  BY <1>3 DEF RouterServes, Serving, IsWaiting
<1>5. RoutesAreKnown'
  BY DEF RoutesAreKnown, Routed, IsReady
<1> QED
  BY <1>1, <1>2, <1>4, <1>5

\* A step of one health checker.
LEMMA CheckerFrame ==
    ASSUME FleetInv, NEW c \in Cells, NEW k \in Checker, checker' = [checker EXCEPT ![c] = k],
           k.probe # -1 => k.seen[1] /\ k.seen[2] = k.probe,
           k.seen[1] => \A i \in 1 .. Len(k.failures) : k.failures[i] = k.seen[2],
           k.status = "unhealthy" => k.seen[1] /\ Len(k.failures) = Threshold,
           Len(k.failures) <= Threshold,
           UNCHANGED <<fleet, lock, active, epoch, run, faults>>
    PROVE  FleetInv'
<1> USE DEF FleetInv, fleet, lock, run
<1>1. checker' \in [Cells -> Checker]
  BY DEF TypeOK, Checker
<1>2. TypeOK'
  BY <1>1, Zenon DEF TypeOK, Checker, Incarnations
<1>3. EnginesAreNew' /\ LockHolds'
  BY DEF EnginesAreNew, LockHolds, Present
<1>4. RouterServes'
  BY DEF RouterServes, Serving, IsWaiting
<1>5. RoutesAreKnown'
  BY DEF RoutesAreKnown, Routed, IsReady
<1>6. checker'[c] = k /\ \A d \in Cells : d # c => checker'[d] = checker[d]
  BY DEF TypeOK
<1>7. CheckersAreCurrent'
  BY <1>6 DEF CheckersAreCurrent
<1> QED
  BY <1>2, <1>3, <1>4, <1>5, <1>7

----------------------------------------------------------------------------
(* Engines and cells *)

\* A new incarnation is routed to nowhere yet.
LEMMA EngineStep == ASSUME FleetInv, NEW c \in Cells, EngineChanges(c) PROVE FleetInv'
<1> USE DEF FleetInv
<1>1. UNCHANGED <<cell, router, lock, health, run, faults>>
  BY DEF EngineChanges
<1>2. /\ world' \in [Cells -> 0 .. MaxIncarnation] /\ born' \in [Cells -> 0 .. MaxIncarnation]
      /\ weights' \in [Cells -> Nat]
      /\ \A d \in Cells : d # c => world'[d] = world[d] /\ born'[d] = born[d] /\ weights'[d] = weights[d]
      /\ weights'[c] = 0 /\ born'[c] >= born[c] /\ born'[c] \in Nat
      /\ world'[c] = 0 \/ (world'[c] = born[c] + 1 /\ born'[c] = born[c] + 1)
  <2>1. weights' \in [Cells -> Nat] /\ weights'[c] = 0 /\ \A d \in Cells : d # c => weights'[d] = weights[d]
    BY DEF EngineChanges, TypeOK
  <2>2. CASE born[c] < (IF c \in Renewed THEN MaxIncarnation ELSE 1) /\ born' = [born EXCEPT ![c] = @ + 1]
             /\ world' = [world EXCEPT ![c] = born'[c]]
    <3>1. born[c] + 1 \in 0 .. MaxIncarnation
      BY <2>2, Numbers
    <3>2. born' \in [Cells -> 0 .. MaxIncarnation] /\ born'[c] = born[c] + 1 /\ \A d \in Cells : d # c => born'[d] = born[d]
      BY <2>2, <3>1 DEF TypeOK
    <3>3. world' \in [Cells -> 0 .. MaxIncarnation] /\ world'[c] = born[c] + 1 /\ \A d \in Cells : d # c => world'[d] = world[d]
      BY <2>2, <3>1, <3>2 DEF TypeOK
    <3>4. born[c] + 1 >= born[c] /\ born[c] + 1 \in Nat
      BY Numbers
    <3> QED
      BY <2>1, <3>2, <3>3, <3>4
  <2>3. CASE world' = [world EXCEPT ![c] = 0] /\ UNCHANGED born
    <3>1. 0 \in 0 .. MaxIncarnation /\ born[c] >= born[c] /\ born[c] \in Nat
      BY Numbers
    <3>2. world' \in [Cells -> 0 .. MaxIncarnation] /\ world'[c] = 0 /\ \A d \in Cells : d # c => world'[d] = world[d]
      BY <2>3, <3>1 DEF TypeOK
    <3>3. born' = born /\ born \in [Cells -> 0 .. MaxIncarnation]
      BY <2>3 DEF TypeOK
    <3> QED
      BY <2>1, <3>1, <3>2, <3>3
  <2> QED
    BY <2>2, <2>3 DEF EngineChanges
<1>3. TypeOK'
  BY <1>1, <1>2, Zenon DEF TypeOK, lock, health, run, Incarnations
<1>4. EnginesAreNew'
  <2>1. target' = target /\ target \in Nat /\ cell' = cell
    BY <1>1 DEF lock, TypeOK
  <2>2. ASSUME NEW d \in Cells
        PROVE  world'[d] <= born'[d] /\ cell[d].hash <= born'[d] /\ weights'[d] <= target
    BY <1>2, <2>1, Numbers DEF EnginesAreNew
  <2> QED
    BY <2>1, <2>2 DEF EnginesAreNew
<1>5. LockHolds' /\ RouterServes' /\ CheckersAreCurrent'
  BY <1>1 DEF LockHolds, RouterServes, CheckersAreCurrent, lock, health, Present, Serving, IsWaiting
<1>6. Routed' = Routed /\ \A d \in Cells : IsReady(d)' <=> IsReady(d)
  BY <1>1 DEF Routed, lock, IsReady
<1>7. <<c, world'[c]>> \notin Routed
  <2> SUFFICES ASSUME <<c, world'[c]>> \in Routed PROVE FALSE
    OBVIOUS
  <2>1. world'[c] \in Incarnations /\ world'[c] <= born[c]
    BY RoutedType DEF RoutesAreKnown
  <2> QED
    BY <1>2, <2>1, Numbers DEF Incarnations
<1>8. \A e \in Routed : e[2] <= born'[e[1]]
  <2> SUFFICES ASSUME NEW e \in Routed PROVE e[2] <= born'[e[1]]
    OBVIOUS
  <2>1. e[1] \in Cells /\ e[2] \in Nat /\ e[2] <= born[e[1]]
    BY RoutedType, Bounds DEF RoutesAreKnown, Incarnations
  <2> QED
    BY <1>2, <2>1, Numbers
<1>9. locked => \A d \in sent : world'[d] = cell[d].hash => weights'[d] = target
  <2> SUFFICES ASSUME locked, NEW d \in sent, world'[d] = cell[d].hash PROVE weights'[d] = target
    OBVIOUS
  <2>1. d \in Cells /\ cell[d].state # "none" /\ cell[d].hash # 0 /\ cell[d].hash <= born[d]
    BY DEF LockHolds, Present, EnginesAreNew
  <2>2. d # c
    BY <1>2, <2>1, Numbers
  <2> QED
    BY <1>2, <2>1, <2>2 DEF RoutesAreKnown
<1>10. RoutesAreKnown'
  <2>1. ASSUME NEW d \in Cells, <<d, world'[d]>> \in Routed
        PROVE  cell[d].hash = world'[d] /\ IsReady(d) /\ weights'[d] >= committed
    <3>1. d # c
      BY <1>7, <2>1
    <3> QED
      BY <1>2, <2>1, <3>1 DEF RoutesAreKnown
  <2> QED
    BY <1>1, <1>6, <1>8, <1>9, <2>1 DEF RoutesAreKnown, lock
<1> QED
  BY <1>3, <1>4, <1>5, <1>10

\* reconcile only touches a cell whose engine no longer runs.
LEMMA ReconcileStep == ASSUME FleetInv, NEW c \in Cells, Reconcile(c) PROVE FleetInv'
<1> USE DEF FleetInv
<1>1. /\ ~locked /\ world[c] # cell[c].hash
      /\ UNCHANGED <<world, born, weights, lock, active, epoch, run>>
      /\ checker' = [checker EXCEPT ![c] = NewChecker]
  BY DEF Reconcile
<1>2. /\ cell' \in [Cells -> ServerCell] /\ \A d \in Cells : d # c => cell'[d] = cell[d]
      /\ cell'[c].hash <= born[c]
      /\ cell'[c].state = "none" <=> cell'[c].hash = 0
      /\ cell'[c].state \in {"none", "initializing"}
  <2>1. cell \in [Cells -> ServerCell]
    BY DEF TypeOK, ServerCell
  <2>2. CASE cell' = [cell EXCEPT ![c] = NoCell]
    <3>1. cell'[c].state = "none" /\ cell'[c].hash = 0
      BY <2>1, <2>2, NoCellHere
    <3>2. cell' \in [Cells -> ServerCell] /\ \A d \in Cells : d # c => cell'[d] = cell[d]
      BY <2>1, <2>2, NoCellHere
    <3> QED
      BY <3>1, <3>2, Numbers
  <2>3. CASE world[c] # 0 /\ cell' = [cell EXCEPT ![c] = [state |-> "initializing", hash |-> world[c]]]
    <3>1. [state |-> "initializing", hash |-> world[c]] \in ServerCell
      BY Numbers DEF ServerCell
    <3>2. cell'[c].state = "initializing" /\ cell'[c].hash = world[c]
      BY <2>1, <2>3
    <3>3. cell' \in [Cells -> ServerCell] /\ \A d \in Cells : d # c => cell'[d] = cell[d]
      BY <2>1, <2>3, <3>1
    <3> QED
      BY <2>3, <3>2, <3>3 DEF EnginesAreNew
  <2> QED
    BY <2>2, <2>3 DEF Reconcile
<1>3. /\ router' \subseteq router /\ faults' \in Nat /\ faults' >= faults
      /\ \A e \in router : e[1] # c => e \in router'
      /\ faults' = 0 => faults = 0 /\ router' = router \ Unregistered(c)
  <2>1. \A e \in Unregistered(c) : e[1] = c
    BY DEF Unregistered
  <2>2. faults \in Nat
    BY DEF TypeOK
  <2> QED
    BY <2>1, <2>2 DEF Reconcile, Dispose
<1>4. TypeOK'
  <2>1. checker' \in [Cells -> Checker]
    BY <1>1, NewCheckerType DEF TypeOK, Checker
  <2>2. router' \subseteq Cells \X Incarnations
    BY <1>3 DEF TypeOK
  <2> QED
    BY <1>1, <1>2, <1>3, <2>1, <2>2, Zenon DEF TypeOK, ServerCell, Checker, lock, run, Incarnations
<1>5. EnginesAreNew'
  BY <1>1, <1>2 DEF EnginesAreNew, lock
<1>6. LockHolds'
  BY <1>1 DEF LockHolds, lock
<1>7. Serving' = Serving \ Unregistered(c)
  <2>1. ASSUME NEW e PROVE e \in Serving' <=> \E d \in Cells : cell'[d].state = "serving" /\ e = <<d, cell'[d].hash>>
    BY DEF Serving
  <2>2. ASSUME NEW e PROVE e \in Serving' <=> \E d \in Cells : d # c /\ cell[d].state = "serving" /\ e = <<d, cell[d].hash>>
    BY <1>2, <2>1
  <2>3. ASSUME NEW e PROVE e \in Serving \ Unregistered(c) <=>
                           \E d \in Cells : d # c /\ cell[d].state = "serving" /\ e = <<d, cell[d].hash>>
    BY ServingType DEF Unregistered
  <2> QED
    BY <2>2, <2>3
<1>8. RouterServes'
  <2>1. Serving' \subseteq router'
    <3>1. \A e \in Serving' : e[1] # c /\ e \in Serving
      BY <1>2, <1>7 DEF Serving
    <3> QED
      BY <1>3, <3>1 DEF RouterServes
  <2>2. faults' = 0 => router' = Serving' /\ registering = {}
    BY <1>1, <1>3, <1>7 DEF RouterServes, LockHolds
  <2> QED
    BY <1>1, <2>1, <2>2 DEF RouterServes, lock
<1>9. Routed' \subseteq Routed /\ <<c, world[c]>> \notin Routed
  BY <1>1, <1>3 DEF Routed, lock, RoutesAreKnown
<1>10. RoutesAreKnown'
  <2>1. ASSUME NEW d \in Cells, <<d, world[d]>> \in Routed'
        PROVE  cell'[d].hash = world[d] /\ IsReady(d)' /\ weights[d] >= committed
    <3>1. d # c /\ <<d, world[d]>> \in Routed
      BY <1>9, <2>1
    <3> QED
      BY <1>2, <3>1 DEF RoutesAreKnown, IsReady
  <2>2. \A e \in Routed' : e[2] <= born[e[1]]
    BY <1>9 DEF RoutesAreKnown
  <2> QED
    BY <1>1, <2>1, <2>2 DEF RoutesAreKnown, lock
<1>11. CheckersAreCurrent'
  <2>1. checker'[c] = NewChecker /\ \A d \in Cells : d # c => checker'[d] = checker[d]
    BY <1>1 DEF TypeOK
  <2>2. /\ checker'[c].probe = -1 /\ ~ checker'[c].seen[1] /\ checker'[c].status = "unknown"
        /\ checker'[c].failures = << >> /\ Len(<< >>) = 0 /\ 0 <= Threshold
    BY <2>1, NewCheckerType, Bounds
  <2>3. \A d \in Cells : d # c => checker'[d] = checker[d]
    BY <2>1
  <2> QED
    BY <2>2, <2>3 DEF CheckersAreCurrent
<1> QED
  BY <1>4, <1>5, <1>6, <1>8, <1>10, <1>11

\* A probed engine waits for weights: nothing is routed to it yet.
LEMMA TickStep == ASSUME FleetInv, NEW c \in Cells, Tick(c) PROVE FleetInv'
<1> USE DEF FleetInv
<1>1. /\ ~locked /\ cell[c].state = "initializing" /\ cell' = [cell EXCEPT ![c].state = "pending"]
      /\ router' = router /\ UNCHANGED <<world, born, weights, lock, health, run, faults>>
  BY DEF Tick, AfterProbe
<1>2. /\ cell' \in [Cells -> ServerCell] /\ \A d \in Cells : d # c => cell'[d] = cell[d]
      /\ cell'[c].hash = cell[c].hash /\ cell'[c].state = "pending"
  <2>1. cell \in [Cells -> ServerCell] /\ cell[c] \in ServerCell
    BY DEF TypeOK, ServerCell
  <2> QED
    BY <1>1, <2>1 DEF ServerCell
<1>3. TypeOK'
  BY <1>1, <1>2, Zenon DEF TypeOK, ServerCell, lock, health, run, Incarnations
<1>4. EnginesAreNew'
  BY <1>1, <1>2 DEF EnginesAreNew, lock
<1>5. LockHolds' /\ CheckersAreCurrent'
  BY <1>1 DEF LockHolds, CheckersAreCurrent, lock, health
<1>6. Serving' = Serving
  <2>1. \A d \in Cells : (cell'[d].state = "serving" <=> cell[d].state = "serving")
                           /\ (cell[d].state = "serving" => cell'[d] = cell[d])
    BY <1>1, <1>2
  <2> QED
    BY <2>1 DEF Serving
<1>7. RouterServes'
  <2>1. faults = 0 => registering = {}
    BY <1>1 DEF RouterServes, LockHolds
  <2> QED
    BY <1>1, <1>6, <2>1 DEF RouterServes, lock
<1>8. RoutesAreKnown'
  <2>1. Routed' = Routed /\ \A d \in Cells : (IsReady(d) => IsReady(d)') /\ cell'[d].hash = cell[d].hash
    BY <1>1, <1>2 DEF Routed, lock, IsReady
  <2> QED
    BY <1>1, <2>1 DEF RoutesAreKnown, lock
<1> QED
  BY <1>3, <1>4, <1>5, <1>7, <1>8

----------------------------------------------------------------------------
(* A weight update *)

\* The lock is taken or released while no call to the router is on its way,
\* unless one failed before.
LEMMA LockStep ==
    ASSUME FleetInv, UNCHANGED <<fleet, checker, faults, registering, committed>>,
           update # "ending",
           epoch' \in Nat, active' \in BOOLEAN, locked' \in BOOLEAN,
           update' \in {"none", "waiting", "detached", "ending"},
           script' \in {"idle", "updating", "failed", "dead", "takeover"},
           target' \in Nat, target' >= target,
           LockHolds',
           locked' => \A c \in sent' : world[c] = cell[c].hash => weights[c] = target'
    PROVE  FleetInv'
<1> USE DEF FleetInv, fleet
<1>1. TypeOK'
  <2>1. target \in Nat /\ committed' \in 0 .. target' /\ registering' \subseteq Cells \X Incarnations \X (1 .. target')
    BY DEF TypeOK
  <2> QED
    BY <2>1, Zenon DEF TypeOK, Incarnations
<1>2. EnginesAreNew'
  <2>1. \A c \in Cells : weights[c] <= target'
    BY Numbers DEF EnginesAreNew, TypeOK
  <2> QED
    BY <2>1 DEF EnginesAreNew
<1>3. RouterServes'
  <2>1. faults = 0 => registering = {}
    BY DEF RouterServes
  <2>2. Serving' = Serving
    BY DEF Serving
  <2> QED
    BY <2>1, <2>2 DEF RouterServes
<1>4. RoutesAreKnown'
  BY DEF RoutesAreKnown, Routed, IsReady
<1>5. CheckersAreCurrent'
  BY DEF CheckersAreCurrent
<1> QED
  BY <1>1, <1>2, <1>3, <1>4, <1>5

LEMMA BeginStep ==
    ASSUME FleetInv, StartUpdate \/ CellsReady \/ WaitTimesOut \/ AbortUpdate
    PROVE  FleetInv'
<1> USE DEF FleetInv
<1>0. target \in Nat /\ epoch \in Nat /\ target >= target
  BY DEF TypeOK
<1>00. /\ active \in BOOLEAN /\ locked \in BOOLEAN /\ TRUE \in BOOLEAN /\ FALSE \in BOOLEAN
       /\ update \in {"none", "waiting", "detached", "ending"}
       /\ script \in {"idle", "updating", "failed", "dead", "takeover"}
  BY Zenon DEF TypeOK
<1>1. CASE StartUpdate
  <2>1. /\ ~ locked /\ UNCHANGED <<fleet, checker, faults, registering, committed, locked, sent, snapshot>>
        /\ target' = target + 1 /\ update' = "waiting" /\ script' = "updating"
    BY <1>1 DEF StartUpdate
  <2>2. target' \in Nat /\ target' >= target
    BY <1>0, <2>1
  <2>3. epoch' \in Nat
    BY <1>0, <1>1 DEF StartUpdate, BumpActive
  <2>4. active' \in BOOLEAN
    <3>1. active' = FALSE
      BY <1>1 DEF StartUpdate, BumpActive
    <3> QED
      BY <3>1, Zenon
  <2>5. LockHolds' /\ update # "ending"
    <3>1. target' > 0
      BY <1>0, <2>1
    <3> QED
      BY <2>1, <3>1 DEF LockHolds
  <2> QED
    BY <1>00, <2>1, <2>2, <2>3, <2>4, <2>5, LockStep
<1>2. CASE CellsReady
  <2>1. /\ update = "waiting"
        /\ UNCHANGED <<fleet, checker, faults, registering, committed, target, active, epoch, script>>
        /\ locked' = TRUE /\ snapshot' = [c \in Present |-> cell[c].hash] /\ sent' = {} /\ update' = "detached"
    BY <1>2 DEF CellsReady, health, run
  <2>2. target > 0
    BY <2>1 DEF LockHolds
  <2>3. LockHolds'
    <3>1. Present' = Present /\ cell' = cell
      BY <2>1 DEF Present, fleet
    <3> QED
      BY <2>1, <2>2, <3>1 DEF LockHolds
  <2> QED
    BY <1>0, <1>00, <2>1, <2>3, LockStep
<1>3. CASE WaitTimesOut \/ AbortUpdate
  <2>1. /\ update \in {"waiting", "detached"}
        /\ UNCHANGED <<fleet, checker, faults, registering, committed, target, active, epoch, sent, snapshot>>
        /\ update' = "none" /\ locked' \in {locked, FALSE}
        /\ script' \in {script, "failed"}
        /\ update = "waiting" => locked' = locked
        /\ update = "detached" => locked' = FALSE
    BY <1>3 DEF WaitTimesOut, AbortUpdate, health
  <2>2. ~ locked'
    BY <2>1 DEF LockHolds
  <2>3. LockHolds'
    BY <2>1, <2>2 DEF LockHolds
  <2>4. locked' \in BOOLEAN
    BY <1>00, <2>1, Zenon
  <2> QED
    BY <1>0, <1>00, <2>1, <2>2, <2>3, <2>4, LockStep
<1> QED
  BY <1>1, <1>2, <1>3

\* The weights of one more engine.
LEMMA SendStep == ASSUME FleetInv, NEW c \in Cells, SendWeights(c) PROVE FleetInv'
<1> USE DEF FleetInv
<1>1. /\ update = "detached" /\ locked /\ c \in DOMAIN snapshot /\ world[c] = snapshot[c]
      /\ weights' = [weights EXCEPT ![c] = target] /\ sent' = sent \cup {c}
      /\ UNCHANGED <<world, born, cell, router, locked, update, snapshot,
                     registering, target, committed, health, run, faults>>
  BY DEF SendWeights, LockHolds
<1>2. /\ weights' \in [Cells -> Nat] /\ weights'[c] = target
      /\ \A d \in Cells : d # c => weights'[d] = weights[d]
      /\ target \in Nat /\ committed \in Nat /\ committed <= target
  BY <1>1 DEF TypeOK
<1>3. TypeOK'
  BY <1>1, <1>2, Zenon DEF TypeOK, health, run, Incarnations
<1>4. EnginesAreNew'
  <2>1. \A d \in Cells : weights'[d] <= target
    BY <1>2 DEF EnginesAreNew
  <2> QED
    BY <1>1, <2>1 DEF EnginesAreNew
<1>5. c \in Present
  BY <1>1 DEF LockHolds
<1>6. LockHolds'
  BY <1>1, <1>5 DEF LockHolds, Present
<1>7. RouterServes' /\ CheckersAreCurrent'
  BY <1>1 DEF RouterServes, CheckersAreCurrent, Serving, IsWaiting, health
<1>8. RoutesAreKnown'
  <2>1. Routed' = Routed /\ \A d \in Cells : IsReady(d)' <=> IsReady(d)
    BY <1>1 DEF Routed, IsReady
  <2>2. \A d \in Cells : weights[d] >= committed => weights'[d] >= committed
    BY <1>2
  <2>3. \A d \in sent' : world[d] = cell[d].hash => weights'[d] = target
    <3>1. sent \subseteq Cells
      BY <1>1 DEF LockHolds, Present
    <3> QED
      BY <1>1, <1>2, <3>1 DEF RoutesAreKnown
  <2> QED
    BY <1>1, <2>1, <2>2, <2>3 DEF RoutesAreKnown
<1> QED
  BY <1>3, <1>4, <1>6, <1>7, <1>8

\* The waiting cells of the update have its weights when they are registered.
LEMMA EndUpdateStep == ASSUME FleetInv, EndUpdate PROVE FleetInv'
<1> USE DEF FleetInv
<1> DEFINE New == {<<c, snapshot[c], target>> : c \in {d \in DOMAIN snapshot : IsWaiting(d, snapshot[d])}}
<1>1. /\ update = "detached" /\ locked /\ sent = DOMAIN snapshot /\ update' = "ending"
      /\ registering' = registering \cup New
      /\ UNCHANGED <<fleet, locked, snapshot, sent, target, committed, health, run, faults>>
  BY DEF EndUpdate, LockHolds
<1>2. DOMAIN snapshot = Present /\ Present \subseteq Cells /\ \A c \in Present : snapshot[c] = cell[c].hash
  BY <1>1 DEF LockHolds, Present
<1>3. \A r \in New : \E c \in Present : r = <<c, cell[c].hash, target>> /\ IsWaiting(c, cell[c].hash)
  BY <1>2
<1>4. ASSUME NEW r \in New
      PROVE  /\ r[1] \in Present /\ r[2] = cell[r[1]].hash /\ r[3] = target
             /\ r = <<r[1], r[2], r[3]>> /\ IsWaiting(r[1], r[2])
  BY <1>3
<1> HIDE DEF New
<1>5. target \in Nat /\ target > 0 /\ \A c \in Present : cell[c].hash \in Incarnations
  <2>1. target \in Nat /\ target > 0
    BY <1>1 DEF LockHolds, TypeOK
  <2>2. \A c \in Present : cell[c].hash # 0
    BY DEF EnginesAreNew, Present
  <2> QED
    BY <1>2, <2>1, <2>2, Numbers DEF Incarnations
<1>6. TypeOK'
  <2>1. New \subseteq Cells \X Incarnations \X (1 .. target)
    BY <1>2, <1>4, <1>5
  <2>2. registering' \subseteq Cells \X Incarnations \X (1 .. target)
    BY <1>1, <2>1 DEF TypeOK
  <2> QED
    BY <1>1, <2>2, Zenon DEF TypeOK, fleet, health, run, Incarnations
<1>7. EnginesAreNew' /\ CheckersAreCurrent'
  BY <1>1 DEF EnginesAreNew, CheckersAreCurrent, fleet, health
<1>8. LockHolds'
  BY <1>1, <1>2 DEF LockHolds, Present, fleet
<1>9. RouterServes'
  <2>1. faults = 0 => registering = {}
    BY <1>1 DEF RouterServes
  <2>2. Serving' = Serving /\ \A r \in New : IsWaiting(r[1], r[2])'
    BY <1>1, <1>4 DEF Serving, IsWaiting, fleet
  <2> QED
    BY <1>1, <1>4, <2>1, <2>2 DEF RouterServes, fleet
<1>10. RoutesAreKnown'
  <2>1. ASSUME NEW e \in Routed'
        PROVE  e \in Routed \/ \E c \in Present : e = <<c, cell[c].hash>> /\ IsReady(c)
    <3>1. CASE \E r \in New : e = <<r[1], r[2]>>
      <4>1. PICK r \in New : e = <<r[1], r[2]>>
        BY <3>1
      <4>2. r[1] \in Present /\ r[2] = cell[r[1]].hash /\ IsWaiting(r[1], r[2])
        BY <1>4
      <4>3. cell[r[1]].state = "pending"
        BY <4>2 DEF IsWaiting
      <4>4. IsReady(r[1])
        BY <4>3 DEF IsReady
      <4> QED
        BY <4>1, <4>2, <4>4
    <3> QED
      BY <1>1, <3>1 DEF Routed, fleet
  <2>2. \A e \in Routed' : e[2] <= born[e[1]]
    <3> SUFFICES ASSUME NEW e \in Routed' PROVE e[2] <= born[e[1]]
      OBVIOUS
    <3>1. CASE e \in Routed
      BY <3>1 DEF RoutesAreKnown
    <3>2. CASE \E c \in Present : e = <<c, cell[c].hash>>
      BY <1>2, <3>2 DEF EnginesAreNew
    <3> QED
      BY <2>1, <3>1, <3>2
  <2>3. ASSUME NEW c \in Cells, <<c, world[c]>> \in Routed'
        PROVE  cell[c].hash = world[c] /\ IsReady(c) /\ weights[c] >= committed
    <3>1. CASE <<c, world[c]>> \in Routed
      BY <3>1 DEF RoutesAreKnown
    <3>2. CASE \E d \in Present : <<c, world[c]>> = <<d, cell[d].hash>> /\ IsReady(d)
      <4>1. c \in Present /\ world[c] = cell[c].hash /\ IsReady(c)
        BY <3>2
      <4>2. weights[c] = target
        BY <1>1, <1>2, <4>1 DEF RoutesAreKnown
      <4> QED
        BY <4>1, <4>2 DEF TypeOK
    <3> QED
      BY <2>1, <2>3, <3>1, <3>2
  <2>4. \A c \in Cells : IsReady(c)' <=> IsReady(c)
    BY <1>1 DEF IsReady, fleet
  <2> QED
    BY <1>1, <2>2, <2>3, <2>4 DEF RoutesAreKnown, fleet
<1> QED
  BY <1>6, <1>7, <1>8, <1>9, <1>10

\* Every engine routed to is one of the update that ends.
LEMMA UpdateEndsStep == ASSUME FleetInv, UpdateEnds PROVE FleetInv'
<1> USE DEF FleetInv
<1>1. /\ update = "ending" /\ locked /\ Awaited = {} /\ locked' = FALSE /\ update' = "none" /\ committed' = target
      /\ script' \in {script, "idle"}
      /\ UNCHANGED <<fleet, snapshot, sent, registering, target, health, scripts, faults>>
  BY DEF UpdateEnds, LockHolds
<1>2. TypeOK'
  <2>1. committed' \in 0 .. target
    BY <1>1 DEF TypeOK
  <2>2. script' \in {"idle", "updating", "failed", "dead", "takeover"}
    BY <1>1 DEF TypeOK
  <2>3. locked' \in BOOLEAN
    BY <1>1, Zenon
  <2> QED
    BY <1>1, <2>1, <2>2, <2>3, Zenon DEF TypeOK, fleet, health, Incarnations
<1>3. EnginesAreNew' /\ CheckersAreCurrent'
  BY <1>1 DEF EnginesAreNew, CheckersAreCurrent, fleet, health
<1>4. LockHolds'
  BY <1>1 DEF LockHolds
<1>5. RouterServes'
  <2>1. faults = 0 => registering = {}
    BY <1>1 DEF RouterServes, Awaited
  <2> QED
    BY <1>1, <2>1 DEF RouterServes, Serving, fleet
<1>6. RoutesAreKnown'
  <2>1. Routed' = Routed /\ \A c \in Cells : IsReady(c)' <=> IsReady(c)
    BY <1>1 DEF Routed, IsReady, fleet
  <2>2. ASSUME NEW c \in Cells, <<c, world[c]>> \in Routed
        PROVE  weights[c] >= target
    <3>1. cell[c].hash = world[c] /\ c \in Present
      BY <2>2 DEF RoutesAreKnown, IsReady, Present
    <3>2. c \in sent
      BY <1>1, <3>1 DEF LockHolds
    <3>3. weights[c] = target
      BY <1>1, <3>1, <3>2 DEF RoutesAreKnown
    <3> QED
      BY <3>3 DEF TypeOK
  <2> QED
    BY <1>1, <2>1, <2>2 DEF RoutesAreKnown, fleet
<1> QED
  BY <1>2, <1>3, <1>4, <1>5, <1>6

\* A call to the router ends: the engine it names was on its way already.
\* What is common to its two ends; the second one counts as a fault.
LEMMA RegisterFrame ==
    ASSUME FleetInv, NEW r \in registering, registering' = registering \ {r},
           router' \in {router, router \cup {<<r[1], r[2]>>}},
           UNCHANGED <<world, born, weights, snapshot, sent, target, committed, health, scripts>>,
           faults' \in Nat,
           \/ UNCHANGED <<locked, update, script>>
           \/ locked' = FALSE /\ update' = "none" /\ script' \in {script, "failed"},
           \/ UNCHANGED cell
           \/ IsWaiting(r[1], r[2]) /\ cell' = [cell EXCEPT ![r[1]].state = "serving"]
    PROVE  /\ TypeOK' /\ EnginesAreNew' /\ LockHolds' /\ RoutesAreKnown' /\ CheckersAreCurrent'
           /\ r[1] \in Cells /\ \A c \in Cells : c # r[1] => cell'[c] = cell[c]
<1> USE DEF FleetInv
<1>1. /\ r[1] \in Cells /\ r[2] \in Incarnations /\ r[3] \in 1 .. target /\ r = <<r[1], r[2], r[3]>>
  BY CallType
<1>2. /\ cell' \in [Cells -> ServerCell] /\ \A c \in Cells : c # r[1] => cell'[c] = cell[c]
      /\ \A c \in Cells : cell'[c].hash = cell[c].hash
      /\ cell' = cell \/ (cell[r[1]].state = "pending" /\ cell'[r[1]].state = "serving")
  <2>1. cell \in [Cells -> ServerCell] /\ cell[r[1]] \in ServerCell
    BY <1>1, CellType DEF TypeOK, ServerCell
  <2>2. CASE UNCHANGED cell
    BY <2>1, <2>2
  <2>3. CASE IsWaiting(r[1], r[2]) /\ cell' = [cell EXCEPT ![r[1]].state = "serving"]
    <3>1. cell[r[1]].state = "pending"
      BY <2>3 DEF IsWaiting
    <3> QED
      BY <1>1, <2>1, <2>3, <3>1 DEF ServerCell
  <2> QED
    BY <2>2, <2>3
<1>3. TypeOK'
  <2>1. router' \subseteq Cells \X Incarnations /\ registering' \subseteq Cells \X Incarnations \X (1 .. target)
    BY <1>1 DEF TypeOK
  <2>2. script' \in {"idle", "updating", "failed", "dead", "takeover"} /\ update' \in {"none", "waiting", "detached", "ending"}
    BY DEF TypeOK
  <2>3. locked' \in BOOLEAN
    BY Zenon DEF TypeOK
  <2> QED
    BY <1>2, <2>1, <2>2, <2>3, Zenon DEF TypeOK, ServerCell, health, Incarnations
<1>4. \A c \in Cells : cell'[c].state = "none" <=> cell[c].state = "none"
  BY <1>2
<1>5. EnginesAreNew'
  BY <1>2, <1>4 DEF EnginesAreNew
<1>6. LockHolds'
  <2>1. Present' = Present /\ Present \subseteq Cells
    BY <1>4 DEF Present
  <2>2. [c \in Present |-> cell'[c].hash] = [c \in Present |-> cell[c].hash]
    BY <1>2, <2>1
  <2>3. CASE UNCHANGED <<locked, update, script>>
    BY <2>1, <2>2, <2>3 DEF LockHolds
  <2>4. CASE locked' = FALSE /\ update' = "none"
    BY <2>4 DEF LockHolds
  <2> QED
    BY <2>3, <2>4
<1>7. CheckersAreCurrent'
  BY DEF CheckersAreCurrent, health
<1>8. Routed' \subseteq Routed
  BY DEF Routed
<1>9. RoutesAreKnown'
  <2>1. \A c \in Cells : IsReady(c) => IsReady(c)'
    BY <1>2 DEF IsReady
  <2>2. \A e \in Routed' : e[2] <= born[e[1]]
    BY <1>8 DEF RoutesAreKnown
  <2>3. ASSUME NEW c \in Cells, <<c, world[c]>> \in Routed'
        PROVE  cell'[c].hash = world[c] /\ IsReady(c)' /\ weights[c] >= committed
    BY <1>2, <1>8, <2>1, <2>3 DEF RoutesAreKnown
  <2>4. locked' => \A c \in sent : world[c] = cell'[c].hash => weights[c] = target
    <3>1. locked' => locked /\ sent \subseteq Cells
      BY DEF LockHolds, Present
    <3> QED
      BY <1>2, <3>1 DEF RoutesAreKnown
  <2> QED
    BY <2>2, <2>3, <2>4 DEF RoutesAreKnown
<1> QED
  BY <1>1, <1>2, <1>3, <1>5, <1>6, <1>7, <1>9

LEMMA RegisterStep == ASSUME FleetInv, NEW r \in registering, RegisterCell(r) PROVE FleetInv'
<1> USE DEF FleetInv
<1>1. /\ registering' = registering \ {r} /\ router' = router \cup {<<r[1], r[2]>>}
      /\ UNCHANGED <<world, born, weights, snapshot, sent, target, committed, health, scripts, faults>>
      /\ \/ /\ IsWaiting(r[1], r[2]) /\ cell' = [cell EXCEPT ![r[1]].state = "serving"]
            /\ UNCHANGED <<locked, update, script>>
         \/ /\ ~ IsWaiting(r[1], r[2]) /\ UNCHANGED cell
            /\ \/ UNCHANGED <<locked, update, script>>
               \/ locked' = FALSE /\ update' = "none" /\ script' \in {script, "failed"}
  BY DEF RegisterCell, Raise
<1>2. faults \in Nat
  BY DEF TypeOK
<1>3. /\ TypeOK' /\ EnginesAreNew' /\ LockHolds' /\ RoutesAreKnown' /\ CheckersAreCurrent'
      /\ r[1] \in Cells /\ \A c \in Cells : c # r[1] => cell'[c] = cell[c]
  BY <1>1, <1>2, RegisterFrame
<1>4. cell \in [Cells -> ServerCell] /\ cell[r[1]] \in ServerCell
  BY <1>3, CellType DEF TypeOK, ServerCell
<1>5. RouterServes'
  <2>1. CASE IsWaiting(r[1], r[2])
    <3>1. /\ cell[r[1]].state = "pending" /\ cell[r[1]].hash = r[2]
          /\ cell'[r[1]].state = "serving" /\ cell'[r[1]].hash = r[2]
      <4>1. cell[r[1]].state = "pending" /\ cell[r[1]].hash = r[2]
        BY <2>1 DEF IsWaiting
      <4> QED
        BY <1>1, <1>3, <1>4, <2>1, <4>1 DEF ServerCell
    <3>2. Serving' = Serving \cup {<<r[1], r[2]>>}
      <4>1. ASSUME NEW e PROVE e \in Serving' <=> \E c \in Cells : cell'[c].state = "serving" /\ e = <<c, cell'[c].hash>>
        BY DEF Serving
      <4>2. ASSUME NEW e PROVE e \in Serving' <=> (e \in Serving \/ e = <<r[1], r[2]>>)
        BY <1>3, <3>1, <4>1, ServingType
      <4> QED
        BY <4>2
    <3>3. ASSUME faults = 0, NEW q \in registering'
          PROVE  update' = "ending" /\ q[3] = target /\ IsWaiting(q[1], q[2])'
      <4>1. /\ update = "ending" /\ q[3] = target /\ IsWaiting(q[1], q[2]) /\ r[3] = target
            /\ q # r /\ update' = update
        BY <1>1, <2>1, <3>3 DEF RouterServes
      <4>2. q = <<q[1], q[2], q[3]>> /\ r = <<r[1], r[2], r[3]>> /\ q[1] \in Cells
        BY <1>1, <3>3, CallType
      <4>3. cell[q[1]].hash = q[2]
        BY <4>1 DEF IsWaiting
      <4>4. q[1] # r[1]
        BY <3>1, <4>1, <4>2, <4>3
      <4>5. cell'[q[1]] = cell[q[1]]
        BY <1>3, <4>2, <4>4
      <4> QED
        BY <4>1, <4>5 DEF IsWaiting
    <3> QED
      BY <1>1, <3>2, <3>3 DEF RouterServes
  <2>2. CASE ~ IsWaiting(r[1], r[2])
    <3>1. faults # 0 /\ cell' = cell
      BY <1>1, <2>2 DEF RouterServes
    <3>2. Serving' = Serving
      BY <3>1 DEF Serving
    <3> QED
      BY <1>1, <3>1, <3>2 DEF RouterServes
  <2> QED
    BY <2>1, <2>2
<1> QED
  BY <1>3, <1>5

LEMMA RegisterFailsStep == ASSUME FleetInv, NEW r \in registering, RegisterFails(r) PROVE FleetInv'
<1> USE DEF FleetInv
<1>1. /\ registering' = registering \ {r} /\ router' \in {router, router \cup {<<r[1], r[2]>>}}
      /\ faults' = faults + 1 /\ UNCHANGED cell
      /\ UNCHANGED <<world, born, weights, snapshot, sent, target, committed, health, scripts>>
      /\ \/ UNCHANGED <<locked, update, script>>
         \/ locked' = FALSE /\ update' = "none" /\ script' \in {script, "failed"}
  BY DEF RegisterFails, Raise
<1>2. faults' \in Nat /\ faults' # 0
  BY <1>1 DEF TypeOK
<1>3. TypeOK' /\ EnginesAreNew' /\ LockHolds' /\ RoutesAreKnown' /\ CheckersAreCurrent'
  BY <1>1, <1>2, RegisterFrame
<1>4. Serving' = Serving
  BY <1>1 DEF Serving
<1>5. RouterServes'
  BY <1>1, <1>2, <1>4 DEF RouterServes
<1> QED
  BY <1>3, <1>5

----------------------------------------------------------------------------
(* Health checking *)

LEMMA ActivenessType ==
    ASSUME TypeOK, NEW c \in Cells
    PROVE  /\ Activeness(c) \in BOOLEAN \X Nat
           /\ Activeness(c)[2] = epoch /\ epoch \in Nat /\ epoch # -1
<1>1. epoch \in Nat /\ epoch # -1
  BY DEF TypeOK
<1>2. (active /\ IsReady(c)) \in BOOLEAN
  BY Zenon DEF TypeOK, IsReady
<1>3. Activeness(c) \in BOOLEAN \X Nat
  BY <1>1, <1>2, Zenon DEF Activeness
<1>4. Activeness(c)[2] = epoch
  BY DEF Activeness
<1> QED
  BY <1>1, <1>3, <1>4

\* What CheckersAreCurrent says of one checker.
IsCurrent(k) ==
    /\ k.probe # -1 => k.seen[1] /\ k.seen[2] = k.probe
    /\ k.seen[1] => \A i \in 1 .. Len(k.failures) : k.failures[i] = k.seen[2]
    /\ k.status = "unhealthy" => k.seen[1] /\ Len(k.failures) = Threshold
    /\ Len(k.failures) <= Threshold

LEMMA OfOneChecker ==
    ASSUME FleetInv, NEW c \in Cells
    PROVE  checker[c] \in Checker /\ IsCurrent(checker[c])
<1>1. checker \in [Cells -> Checker]
  BY Zenon DEF FleetInv, TypeOK, Checker
<1> QED
  BY <1>1 DEF FleetInv, CheckersAreCurrent, IsCurrent

LEMMA CheckerStays ==
    ASSUME FleetInv, NEW c \in Cells, NEW k \in Checker, IsCurrent(k),
           checker' = [checker EXCEPT ![c] = k],
           UNCHANGED <<fleet, lock, active, epoch, run, faults>>
    PROVE  FleetInv'
BY CheckerFrame DEF IsCurrent

\* The fields of a changed checker.
LEMMA CheckerFields ==
    ASSUME NEW k \in Checker, NEW now \in BOOLEAN \X Nat
    PROVE  /\ [k EXCEPT !.probe = now[2]] \in Checker
           /\ [k EXCEPT !.probe = -1] \in Checker
           /\ [k EXCEPT !.seen = now] \in Checker
           /\ [k EXCEPT !.seen = now, !.status = "unknown"] \in Checker
           /\ \A s \in {"unknown", "healthy", "unhealthy"}, f \in Seq(Nat) :
                 [k EXCEPT !.failures = f, !.status = s] \in Checker
<1>1. now[2] \in Nat /\ -1 \in Nat \cup {-1} /\ now[2] \in Nat \cup {-1}
  OBVIOUS
<1>2. [k EXCEPT !.probe = now[2]] \in Checker /\ [k EXCEPT !.probe = -1] \in Checker
  BY <1>1, Zenon DEF Checker
<1>3. [k EXCEPT !.seen = now] \in Checker /\ [k EXCEPT !.seen = now, !.status = "unknown"] \in Checker
  BY Zenon DEF Checker
<1>4. \A s \in {"unknown", "healthy", "unhealthy"}, f \in Seq(Nat) :
                 [k EXCEPT !.failures = f, !.status = s] \in Checker
  BY Zenon DEF Checker
<1> QED
  BY <1>2, <1>3, <1>4

LEMMA LoopStep == ASSUME FleetInv, NEW c \in Cells, CheckerLoops(c) PROVE FleetInv'
<1> DEFINE now == Activeness(c)
           k0 == checker[c]
           k == IF now = k0.seen THEN k0 ELSE IF now[1] THEN Resumed(k0, now) ELSE Paused(k0, now)
           new == IF now[1] /\ now = k0.seen THEN [k EXCEPT !.probe = now[2]] ELSE k
<1>1. /\ k0 \in Checker /\ IsCurrent(k0) /\ k0.probe = -1
      /\ now \in BOOLEAN \X Nat /\ now[2] \in Nat /\ now[2] # -1
  BY OfOneChecker, ActivenessType DEF CheckerLoops, FleetInv
<1>2. checker' = [checker EXCEPT ![c] = new] /\ UNCHANGED <<fleet, lock, active, epoch, run, faults>>
  BY Zenon DEF CheckerLoops
<1>3. new \in Checker /\ IsCurrent(new)
  <2> HIDE DEF now, k0
  <2>1. CASE now = k0.seen /\ now[1]
    <3>1. new = [k0 EXCEPT !.probe = now[2]]
      BY <2>1
    <3>2. new \in Checker
      BY <1>1, <3>1, CheckerFields
    <3>3. new.probe = now[2] /\ new.seen = k0.seen /\ new.failures = k0.failures /\ new.status = k0.status
      BY <1>1, <3>1 DEF Checker
    <3> QED
      BY <1>1, <2>1, <3>2, <3>3 DEF IsCurrent
  <2>2. CASE now = k0.seen /\ ~ now[1]
    BY <1>1, <2>2
  <2>3. CASE now # k0.seen /\ now[1]
    <3>1. new = [NewChecker EXCEPT !.seen = now]
      BY <2>3 DEF Resumed
    <3>2. new \in Checker
      <4>1. NewChecker \in Checker /\ now \in BOOLEAN \X Nat
        BY <1>1, NewCheckerType
      <4>2. [NewChecker EXCEPT !.seen = now] \in Checker
        BY <4>1, Zenon DEF Checker
      <4> QED
        BY <3>1, <4>2
    <3>3. new.probe = -1 /\ new.failures = << >> /\ new.status = "unknown"
      BY <3>1, NewCheckerType DEF Checker
    <3>4. Len(<< >>) = 0 /\ 0 <= Threshold
      BY Bounds
    <3> QED
      BY <3>2, <3>3, <3>4 DEF IsCurrent
  <2>4. CASE now # k0.seen /\ ~ now[1]
    <3>1. new = [k0 EXCEPT !.seen = now, !.status = "unknown"]
      BY <2>4 DEF Paused
    <3>2. new \in Checker
      <4>1. k0 \in Checker /\ now \in BOOLEAN \X Nat
        BY <1>1
      <4>2. [k0 EXCEPT !.seen = now, !.status = "unknown"] \in Checker
        BY <4>1, Zenon DEF Checker
      <4> QED
        BY <3>1, <4>2
    <3>3. new.probe = -1 /\ new.failures = k0.failures /\ new.status = "unknown" /\ new.seen = now
      BY <1>1, <3>1 DEF Checker
    <3> QED
      BY <1>1, <2>4, <3>2, <3>3 DEF IsCurrent
  <2> QED
    BY <2>1, <2>2, <2>3, <2>4
<1> HIDE DEF new
<1> QED
  BY <1>2, <1>3, CheckerStays

LEMMA PublishedIsCurrent ==
    ASSUME NEW k \in Checker, IsCurrent(k), k.probe # -1, NEW success \in BOOLEAN
    PROVE  /\ Published(k, success) \in Checker
           /\ IsCurrent([Published(k, success) EXCEPT !.probe = -1])
<1>0. /\ k.failures \in Seq(Nat) /\ k.probe \in Nat /\ k.status \in {"unknown", "healthy", "unhealthy"}
      /\ Threshold \in Nat /\ Threshold > 0
  BY Bounds DEF Checker
<1>1. CASE success
  <2> DEFINE new == [k EXCEPT !.failures = << >>, !.status = "healthy"]
  <2>1. Published(k, success) = new
    BY <1>1 DEF Published
  <2>2. new \in Checker
    <3>1. << >> \in Seq(Nat)
      OBVIOUS
    <3> QED
      BY <3>1, Zenon DEF Checker
  <2>3. [new EXCEPT !.probe = -1].failures = << >> /\ [new EXCEPT !.probe = -1].status = "healthy"
        /\ [new EXCEPT !.probe = -1].probe = -1
    BY DEF Checker
  <2>4. Len(<< >>) = 0 /\ 0 <= Threshold
    BY Bounds
  <2> HIDE DEF new
  <2> QED
    BY <2>1, <2>2, <2>3, <2>4 DEF IsCurrent
<1>2. CASE ~ success
  <2> DEFINE failed == IF Len(k.failures) < Threshold THEN Append(k.failures, k.probe) ELSE k.failures
             status == IF Len(failed) >= Threshold THEN "unhealthy" ELSE k.status
             new == [k EXCEPT !.failures = failed, !.status = status]
  <2>1. Published(k, success) = new
    BY <1>2 DEF Published
  <2>2. /\ failed \in Seq(Nat) /\ Len(failed) <= Threshold
        /\ k.seen[1] => \A i \in 1 .. Len(failed) : failed[i] = k.seen[2]
    <3>1. CASE Len(k.failures) < Threshold
      <4>1. failed = Append(k.failures, k.probe)
        BY <3>1
      <4>2. /\ Append(k.failures, k.probe) \in Seq(Nat)
            /\ Len(Append(k.failures, k.probe)) = Len(k.failures) + 1
            /\ Len(k.failures) \in Nat
            /\ \A i \in 1 .. Len(k.failures) : Append(k.failures, k.probe)[i] = k.failures[i]
            /\ Append(k.failures, k.probe)[Len(k.failures) + 1] = k.probe
        BY <1>0
      <4>3. k.seen[1] /\ k.seen[2] = k.probe /\ \A i \in 1 .. Len(k.failures) : k.failures[i] = k.probe
        BY DEF IsCurrent
      <4>4. \A i \in 1 .. (Len(k.failures) + 1) : Append(k.failures, k.probe)[i] = k.probe
        BY <4>2, <4>3
      <4>5. Len(k.failures) + 1 <= Threshold
        BY <1>0, <3>1, <4>2
      <4> QED
        BY <4>1, <4>2, <4>3, <4>4, <4>5
    <3>2. CASE ~ (Len(k.failures) < Threshold)
      BY <1>0, <3>2 DEF IsCurrent
    <3> QED
      BY <3>1, <3>2
  <2>3. status \in {"unknown", "healthy", "unhealthy"} /\ (status = "unhealthy" => Len(failed) = Threshold)
    <3>1. Len(failed) \in Nat
      BY <2>2
    <3>2. CASE Len(failed) >= Threshold
      BY <1>0, <2>2, <3>1, <3>2
    <3>3. CASE ~ (Len(failed) >= Threshold)
      <4>1. status = k.status
        BY <3>3
      <4>2. k.status # "unhealthy"
        BY <1>0, <3>3 DEF IsCurrent
      <4> QED
        BY <1>0, <4>1, <4>2
    <3> QED
      BY <3>2, <3>3
  <2> HIDE DEF failed, status
  <2>4. new \in Checker
    BY <2>2, <2>3, Zenon DEF Checker
  <2>5. /\ [new EXCEPT !.probe = -1].failures = failed /\ [new EXCEPT !.probe = -1].status = status
        /\ [new EXCEPT !.probe = -1].probe = -1 /\ [new EXCEPT !.probe = -1].seen = k.seen
    BY DEF Checker
  <2>6. k.seen[1]
    BY DEF IsCurrent
  <2> HIDE DEF new
  <2> QED
    BY <2>1, <2>2, <2>3, <2>4, <2>5, <2>6 DEF IsCurrent
<1> QED
  BY <1>1, <1>2

LEMMA ProbeStep == ASSUME FleetInv, NEW c \in Cells, ProbeEnds(c) PROVE FleetInv'
<1>1. PICK success \in BOOLEAN :
         checker' = [checker EXCEPT ![c] =
                [IF Activeness(c) = <<TRUE, checker[c].probe>> THEN Published(checker[c], success) ELSE checker[c]
                 EXCEPT !.probe = -1]]
  BY Zenon DEF ProbeEnds
<1>2. UNCHANGED <<fleet, lock, active, epoch, run, faults>> /\ checker[c].probe # -1
  BY Zenon DEF ProbeEnds
<1>3. checker[c] \in Checker /\ IsCurrent(checker[c])
  BY OfOneChecker
<1>4. <<TRUE, 0>> \in BOOLEAN \X Nat
  <2>1. 0 \in Nat
    OBVIOUS
  <2> QED
    BY <2>1, Zenon
<1>5. CASE Activeness(c) = <<TRUE, checker[c].probe>>
  <2>1. /\ Published(checker[c], success) \in Checker
        /\ IsCurrent([Published(checker[c], success) EXCEPT !.probe = -1])
    BY <1>2, <1>3, PublishedIsCurrent
  <2>2. [Published(checker[c], success) EXCEPT !.probe = -1] \in Checker
    BY <1>4, <2>1, CheckerFields
  <2>3. checker' = [checker EXCEPT ![c] = [Published(checker[c], success) EXCEPT !.probe = -1]]
    BY <1>1, <1>5, Zenon
  <2> QED
    BY <1>2, <2>1, <2>2, <2>3, CheckerStays
<1>6. CASE Activeness(c) # <<TRUE, checker[c].probe>>
  <2>1. [checker[c] EXCEPT !.probe = -1] \in Checker
    BY <1>3, <1>4, CheckerFields
  <2>2. /\ [checker[c] EXCEPT !.probe = -1].failures = checker[c].failures
        /\ [checker[c] EXCEPT !.probe = -1].status = checker[c].status
        /\ [checker[c] EXCEPT !.probe = -1].probe = -1 /\ [checker[c] EXCEPT !.probe = -1].seen = checker[c].seen
    BY <1>3 DEF Checker
  <2>3. IsCurrent([checker[c] EXCEPT !.probe = -1])
    BY <1>3, <2>2 DEF IsCurrent
  <2>4. checker' = [checker EXCEPT ![c] = [checker[c] EXCEPT !.probe = -1]]
    BY <1>1, <1>6, Zenon
  <2> QED
    BY <1>2, <2>1, <2>3, <2>4, CheckerStays
<1> QED
  BY <1>5, <1>6

----------------------------------------------------------------------------
(* The fleet *)

LEMMA ScriptStepInv == ASSUME FleetInv, ScriptStep PROVE FleetInv'
<1>0. /\ epoch \in Nat /\ faults \in Nat /\ epoch + 1 \in Nat /\ faults + 1 \in Nat
      /\ faults >= faults /\ faults + 1 >= faults
  BY DEF FleetInv, TypeOK
<1>00. active \in BOOLEAN /\ TRUE \in BOOLEAN /\ script \in {"idle", "updating", "failed", "dead", "takeover"}
  BY Zenon DEF FleetInv, TypeOK
<1>1. CASE StartUpdate
  BY <1>1, BeginStep
<1>2. CASE PrepareRollout
  <2>1. UNCHANGED <<fleet, lock, checker, script, faults>> /\ active' = TRUE /\ epoch' \in {epoch, epoch + 1}
    BY <1>2, Zenon DEF PrepareRollout, BumpActive, run
  <2>2. epoch' \in Nat /\ faults' \in Nat /\ faults' >= faults
    BY <1>0, <2>1
  <2>3. active' \in BOOLEAN
    BY <2>1, Zenon
  <2> QED
    BY <1>00, <2>1, <2>2, <2>3, ScriptFrame
<1>3. CASE ScriptDies \/ NextScript \/ TakeOver \/ TakeOverFails
  <2>1. UNCHANGED <<fleet, lock, active, epoch, checker>> /\ faults' \in {faults, faults + 1}
        /\ script' \in {"idle", "updating", "failed", "dead", "takeover"}
    BY <1>3 DEF ScriptDies, NextScript, TakeOver, TakeOverFails, health
  <2>2. epoch' \in Nat /\ faults' \in Nat /\ faults' >= faults
    BY <1>0, <2>1
  <2>3. active' \in BOOLEAN
    BY <1>00, <2>1, Zenon
  <2> QED
    BY <2>1, <2>2, <2>3, ScriptFrame
<1> QED
  BY <1>1, <1>2, <1>3 DEF ScriptStep

LEMMA InvStep == FleetInv /\ [Next]_vars => FleetInv'
<1> SUFFICES ASSUME FleetInv, [Next]_vars PROVE FleetInv'
  OBVIOUS
<1>1. CASE \E c \in Cells : CellStep(c)
  BY <1>1, EngineStep, ReconcileStep, TickStep DEF CellStep
<1>2. CASE \E c \in Checked : CheckerStep(c)
  BY <1>2, LoopStep, ProbeStep, Bounds DEF CheckerStep
<1>3. CASE UpdateStep \/ AbortUpdate
  BY <1>3, BeginStep, EndUpdateStep, UpdateEndsStep, SendStep, RegisterStep DEF UpdateStep
<1>4. CASE \E r \in registering : RegisterFails(r)
  BY <1>4, RegisterFailsStep
<1>5. CASE ScriptStep
  BY <1>5, ScriptStepInv
<1>6. CASE UNCHANGED vars
  <2>1. /\ UNCHANGED <<fleet, lock, checker>> /\ epoch' \in Nat /\ faults' \in Nat /\ faults' >= faults
        /\ script' \in {"idle", "updating", "failed", "dead", "takeover"}
    BY <1>6 DEF vars, health, run, FleetInv, TypeOK
  <2>2. active' \in BOOLEAN
    BY <1>6, Zenon DEF vars, health, FleetInv, TypeOK
  <2> QED
    BY <2>1, <2>2, ScriptFrame
<1> QED
  BY <1>1, <1>2, <1>3, <1>4, <1>5, <1>6 DEF Next

(***************************************************************************)
(* The fleet, the controller and the router agree, over replaced engines,  *)
(* failed calls, aborted updates and scripts that die in the middle of one *)
(* (_reconcile, mark_weights_ready, dispose, end_update_weights): the lock *)
(* is held while an update holds the cells still, every serving cell is in *)
(* the router and nothing else unless a call to it failed, and whatever is *)
(* routed to, or on its way there, is an engine of the past or one that    *)
(* the last update reached.                                                *)
(***************************************************************************)
THEOREM FleetIsConsistent == Spec => []FleetInv
BY InitInv, InvStep, PTL DEF Spec

(***************************************************************************)
(* A live engine the router sends requests to has at least the weights of  *)
(* the last update that ended, also one that a late call of an update that *)
(* failed registers (mark_weights_ready, _ensure_cells_ready).             *)
(***************************************************************************)
THEOREM RoutedEnginesAreUpToDate == Spec => []RoutedHaveWeights
<1>1. FleetInv => RoutedHaveWeights
  BY DEF FleetInv, RoutesAreKnown, Routed, RoutedHaveWeights
<1> QED
  BY <1>1, FleetIsConsistent, PTL

(***************************************************************************)
(* A cell is declared unhealthy on Threshold failures, all of probes of    *)
(* the present epoch, however pauses, resumptions and late answers of      *)
(* probes interleave (_loop, _publish_result).                             *)
(***************************************************************************)
THEOREM VerdictsAreOfThisEpoch == Spec => []VerdictIsCurrent
<1>1. FleetInv => VerdictIsCurrent
  <2> SUFFICES ASSUME FleetInv, NEW c \in Cells, Verdict(c) = "unhealthy"
               PROVE  /\ Len(checker[c].failures) = Threshold
                      /\ \A i \in 1 .. Threshold : checker[c].failures[i] = epoch
    BY DEF VerdictIsCurrent
  <2>1. Activeness(c) = checker[c].seen /\ checker[c].status = "unhealthy"
    BY Zenon DEF Verdict
  <2>2. Activeness(c)[2] = epoch
    BY ActivenessType DEF FleetInv
  <2> QED
    BY <2>1, <2>2, OfOneChecker DEF IsCurrent
<1> QED
  BY <1>1, FleetIsConsistent, PTL
=============================================================================
