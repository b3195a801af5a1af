--------------------------- MODULE MCDaemonWorker ---------------------------
(* Small instances of DaemonWorker for TLC. *)
EXTENDS DaemonWorker, TLC

CONSTANTS p1, p2

AllOnFailure == [p \in Packages |-> "on-failure"]
AllNever == [p \in Packages |-> "never"]
AllAlways == [p \in Packages |-> "always"]
=============================================================================
