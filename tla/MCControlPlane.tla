--------------------------- MODULE MCControlPlane ---------------------------
EXTENDS ControlPlane, TLC
(* A fanned-out stage and the stage that gathers its results.               *)
MCStage == {"split", "stitch"}
MCDependsOn == [s \in MCStage |-> IF s = "stitch" THEN {"split"} ELSE {}]
One == [s \in MCStage |-> 1]
Two == [s \in MCStage |-> IF s = "split" THEN 2 ELSE 1]
(* Workers are interchangeable in the runs without a liveness property.     *)
Symmetry == Permutations(Worker)
=============================================================================
