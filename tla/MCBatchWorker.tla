--------------------------- MODULE MCBatchWorker ---------------------------
(* Small instances of BatchWorker for TLC. *)
EXTENDS BatchWorker, TLC

CONSTANTS w1, w2

BothContainer == (w1 :> "container") @@ (w2 :> "container")
OneContainer == (w1 :> "container")
AnyAndLocal == (w1 :> "any") @@ (w2 :> "local")
AllInContainers == [r \in Runs |-> "container"]
SecondIsLocal == [r \in Runs |-> IF r = 2 THEN "local" ELSE "container"]
\* Bounds: the second worker reconciles and claims nothing; the second run's
\* docker run hangs before the container is made.
SecondOnlyReconciles == \A r \in Runs : th[w2][r] = "none"
SecondRunHangs == ctr[2] = "none" /\ proc[2] # "done"

=============================================================================
