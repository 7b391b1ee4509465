-------------------------- MODULE MCApprovalEngine --------------------------
(* Small instances of ApprovalEngine: an agent approval, a governed one and *)
(* a process whose first step escalates.                                    *)
EXTENDS ApprovalEngine, TLC

CONSTANTS agent, governed, process, alice, bob, eve

MCKindOf == [i \in Instances |->
    IF i = agent THEN "agent" ELSE IF i = governed THEN "governed" ELSE "process"]

MCInitSteps ==
    <<[order |-> 1, approvers |-> {alice}, onTimeout |-> "escalate"],
      [order |-> 2, approvers |-> {bob}, onTimeout |-> "reject"]>>

MCPlans == {<<[order |-> 1, approvers |-> {bob}, onTimeout |-> "reject"]>>}

\* Calls of one kind are interchangeable.
CallSymmetry == Permutations(Deciders) \cup Permutations(Timers)

=============================================================================
