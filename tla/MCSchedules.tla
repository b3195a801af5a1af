----------------------------- MODULE MCSchedules -----------------------------
(* Small instances of Schedules for TLC. *)
EXTENDS Schedules, TLC

Intervals == {[type |-> "interval", n |-> 1]}

\* The threads are alike: a request goes to the first that is free.
InOrder ==
    \A q \in Requests :
        request'[q].busy /\ ~request[q].busy => q = CHOOSE p \in Requests : ~request[p].busy
=============================================================================
