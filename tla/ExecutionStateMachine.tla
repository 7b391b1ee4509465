---------------------- MODULE ExecutionStateMachine ----------------------
(***************************************************************************)
(* The status of an agent execution row and the transitions the kernel     *)
(* declares legal (governance/packages/audit-chain/src/                    *)
(* execution-state-machine.ts; packages/backend keeps an identical copy).  *)
(* The table is data shared by every module that writes an execution row.  *)
(***************************************************************************)

ExecutionStatus ==
    {"pending", "running", "guardrail_pending",
     "done", "failed", "timeout", "cancelled"}

VALID_TRANSITIONS ==
    [from \in ExecutionStatus |->
        CASE from = "pending" ->
                 {"running", "guardrail_pending", "cancelled"}
          [] from = "running" ->
                 {"done", "failed", "timeout", "guardrail_pending", "cancelled"}
          [] from = "guardrail_pending" ->
                 {"running", "failed", "cancelled"}
          [] OTHER -> {}]

\* An absent row has no declared transition: the lookup is undefined, hence false.
isValidTransition(from, to) ==
    from \in ExecutionStatus /\ to \in VALID_TRANSITIONS[from]

isTerminal(status) ==
    status \in ExecutionStatus /\ VALID_TRANSITIONS[status] = {}

==========================================================================
