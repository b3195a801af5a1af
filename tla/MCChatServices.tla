--------------------------- MODULE MCChatServices ---------------------------
(* Small instances of ChatServices for TLC. *)
EXTENDS ChatServices

CONSTANTS anthropic, ollama

OneAnthropic == [p \in {1} |-> anthropic]
=============================================================================
