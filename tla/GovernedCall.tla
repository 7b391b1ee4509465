---------------------------- MODULE GovernedCall ----------------------------
(***************************************************************************)
(* What the kernel promises about a tool call, with no handlers, tables or *)
(* channels in sight: policy admits it, a human may approve an admitted    *)
(* call that needs it, the tool runs only when it is granted, and one      *)
(* outcome is recorded, after a run, for good.  Until an admitted call is  *)
(* paused an approval may be presumed of it; from then on only humans give *)
(* one.                                                                    *)
(***************************************************************************)
EXTENDS Naturals

CONSTANT Calls

VARIABLES
    verdict,   \* "none" until policy has decided
    approved,  \* whether a human approved the call
    paused,    \* calls that wait for a human
    presumed,  \* calls whose approval was presumed
    runs,      \* invocations of the tool
    outcome    \* the recorded outcome, "none" until there is one

vars == <<verdict, approved, paused, presumed, runs, outcome>>

Init ==
    /\ verdict = [c \in Calls |-> "none"]
    /\ approved = [c \in Calls |-> FALSE]
    /\ paused = {}
    /\ presumed = {}
    /\ runs = [c \in Calls |-> 0]
    /\ outcome = [c \in Calls |-> "none"]

Granted(c) ==
    \/ verdict[c] = "allow"
    \/ verdict[c] = "pause" /\ (approved[c] \/ c \in presumed)

Admit(c) ==
    /\ verdict[c] = "none"
    /\ \E v \in {"allow", "pause", "refuse"} : verdict' = [verdict EXCEPT ![c] = v]
    /\ UNCHANGED <<approved, paused, presumed, runs, outcome>>

Approve(c) ==
    /\ verdict[c] = "pause"
    /\ approved' = [approved EXCEPT ![c] = TRUE]
    /\ UNCHANGED <<verdict, paused, presumed, runs, outcome>>

Pause(c) ==
    /\ verdict[c] = "pause"
    /\ paused' = paused \cup {c}
    /\ UNCHANGED <<verdict, approved, presumed, runs, outcome>>

Presume(c) ==
    /\ verdict[c] = "pause"
    /\ c \notin paused
    /\ presumed' = presumed \cup {c}
    /\ UNCHANGED <<verdict, approved, paused, runs, outcome>>

Run(c) ==
    /\ Granted(c)
    /\ runs' = [runs EXCEPT ![c] = @ + 1]
    /\ UNCHANGED <<verdict, approved, paused, presumed, outcome>>

Record(c) ==
    /\ runs[c] > 0
    /\ outcome[c] = "none"
    /\ \E o \in {"success", "failure"} : outcome' = [outcome EXCEPT ![c] = o]
    /\ UNCHANGED <<verdict, approved, paused, presumed, runs>>

Next ==
    \E c \in Calls :
        Admit(c) \/ Approve(c) \/ Pause(c) \/ Presume(c) \/ Run(c) \/ Record(c)

Spec == Init /\ [][Next]_vars

=============================================================================
