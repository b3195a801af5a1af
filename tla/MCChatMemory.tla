---------------------------- MODULE MCChatMemory ----------------------------
(* Small instances of ChatMemory for TLC. *)
EXTENDS ChatMemory, TLC

CONSTANTS q1, q2, s1, s2

Symmetric == Permutations(Requests) \cup Permutations(SummaryIds)
=============================================================================
