------------------------- MODULE MCGovernanceGate -------------------------
(***************************************************************************)
(* A small policy for TLC: one tool per verdict, plus a granted tool that  *)
(* no live upstream serves.                                                *)
(***************************************************************************)
EXTENDS GovernanceGate

MCTools == {"lookup", "email", "wire", "other", "orphan"}
MCAllowedTools == {"lookup", "email", "wire", "orphan"}
MCUpstreamTools == {"lookup", "email", "wire", "other"}
MCRiskOf ==
    [t \in MCTools |-> CASE t = "email" -> "L3"
                         [] t = "wire" -> "L4"
                         [] t = "orphan" -> "L2"
                         [] t = "lookup" -> "L1"
                         [] OTHER -> "none"]

===========================================================================
