------------------------- MODULE MCEvaluationQueue -------------------------
(* Instances of EvaluationQueue for TLC.                                    *)
EXTENDS EvaluationQueue

(* Run 1 is cyclic: its first point is the end of a phase only, its second *)
(* the end of the run, where both suites are due                           *)
(* (cyclic_evaluation_suites).  It has one cell and keeps its last         *)
(* snapshot.  Run 2 asks for the benchmark at every tenth of its updates   *)
(* and has a second cell to repeat a failed save on.                       *)
MixedDemand ==
  [r \in 1 .. Runs |-> [p \in 1 .. Points |->
     IF r = 2 THEN {"benchmark"} ELSE IF p = Points THEN Suites ELSE {"validation"}]]
MixedSpare == [r \in 1 .. Runs |-> r - 1]
MixedRetain == [r \in 1 .. Runs |-> r = 1]
=============================================================================
