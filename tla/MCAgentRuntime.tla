--------------------------- MODULE MCAgentRuntime ---------------------------
(* Small instances of AgentRuntime: a lookup tool below every gate, a mail   *)
(* tool with an L3 descriptor and one with an L4 descriptor.  The policy is *)
(* the seeded one, or one that only allows lookups and asks a human first.  *)
EXTENDS AgentRuntime

CONSTANTS look, mail, wipe

MCRiskOf == [t \in Tools |-> CASE t = mail -> "L3" [] t = wipe -> "L4" [] OTHER -> "L1"]

Rules(forLook, forMail) ==
    [t \in Tools |-> CASE t = mail -> forMail [] t = look -> forLook [] OTHER -> "none"]

MCPolicies ==
    {[allowed |-> {look, mail, wipe}, rules |-> Rules("L1", "L3")],
     [allowed |-> {look}, rules |-> Rules("L2", "none")]}

=============================================================================
