--------------------------- MODULE MCToolRegistry ---------------------------
(* Small instances of ToolRegistry: a messaging tool and a contextual tool  *)
(* that need approval, and static tools on either side of the L3 gate.      *)
EXTENDS ToolRegistry, TLC

MCTools == {[kind |-> "messaging", risk |-> 3], [kind |-> "dynamic", risk |-> 3],
            [kind |-> "static", risk |-> 1], [kind |-> "static", risk |-> 3],
            [kind |-> "static", risk |-> 4], [kind |-> "dynamic", risk |-> 4]}

Symmetric == Permutations(Resumers) \cup Permutations(Binders)

=============================================================================
