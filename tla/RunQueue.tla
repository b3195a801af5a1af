------------------------------ MODULE RunQueue ------------------------------
(***************************************************************************)
(* What the workers promise about the table of runs, whatever crashes, and  *)
(* whoever reconciles: a run is submitted once, claimed once, by one worker *)
(* that stays its owner, and once it has ended it never runs again. Which   *)
(* end is recorded is not promised here: see TerminalFinal in BatchWorker.  *)
(***************************************************************************)
CONSTANTS Runs, Workers, NoWorker

VARIABLES
    status,  \* runs.status
    owner    \* the worker that claimed the run

Ended == {"completed", "failed"}

Init ==
    /\ status = [r \in Runs |-> "absent"]
    /\ owner = [r \in Runs |-> NoWorker]

Submit(r) ==
    /\ status[r] = "absent"
    /\ status' = [status EXCEPT ![r] = "pending"]
    /\ UNCHANGED owner

Claim(w, r) ==
    /\ status[r] = "pending"
    /\ owner[r] = NoWorker
    /\ status' = [status EXCEPT ![r] = "running"]
    /\ owner' = [owner EXCEPT ![r] = w]

\* One transaction records the end of a set of claimed runs, again if it likes.
End(S) ==
    /\ \A r \in S : owner[r] # NoWorker /\ status[r] \notin {"absent", "pending"}
    /\ \E e \in [S -> Ended] :
          status' = [r \in Runs |-> IF r \in S THEN e[r] ELSE status[r]]
    /\ UNCHANGED owner

Next ==
    \/ \E r \in Runs : Submit(r)
    \/ \E w \in Workers, r \in Runs : Claim(w, r)
    \/ \E S \in SUBSET Runs : End(S)

Spec == Init /\ [][Next]_<<status, owner>>
=============================================================================
