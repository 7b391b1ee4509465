----------------------------- MODULE MCModelTurn -----------------------------
(* A prompt of a few tokens and a budget that lasts for two or three turns. *)
EXTENDS ModelTurn

MCSizes == [rules |-> 2, high |-> 1, normal |-> 4, exemplars |-> 2, knowledge |-> 1, memory |-> 1,
            step |-> 1, request |-> 1, repair |-> 3]
MCSystemBudgets == {None, 8}

=============================================================================
