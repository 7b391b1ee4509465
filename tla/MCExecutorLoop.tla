--------------------------- MODULE MCExecutorLoop ---------------------------
(* Small instances of ExecutorLoop: a safe tool, a risky one, one that is   *)
(* blocked by its risk, and one that is allowed but not registered.         *)
EXTENDS ExecutorLoop

CONSTANTS read, send, wipe, ghost

MCRiskOf == [t \in Tools |->
    CASE t = send -> "L2" [] t = wipe -> "L4" [] OTHER -> "L0"]

=============================================================================
