---------------------------- MODULE MCPlayground ----------------------------
(* Two visitors behind one address, who only execute; or one visitor, who      *)
(* decides approvals and changes employees as well, with restarts and failing  *)
(* deletes.  `part` names the case.                                            *)
EXTENDS Playground, TLC

CONSTANTS v1, v2, ip

MCIpOf == (v1 :> ip) @@ (v2 :> ip)

VARIABLE part

MCInit == PlaygroundInit /\ part \in {"pair", "manager"}

MCNext ==
    /\ PlaygroundNext /\ UNCHANGED part
    /\ IF part = "manager" THEN creation'[v2].state = "none"
       ELSE /\ faults' = 0 /\ restarts' = 0
            /\ \A s \in Sessions : request'[s] \notin {"read", "created", "configured"}

MCSpec == MCInit /\ [][MCNext]_<<playgroundVars, part>> /\ Fairness

=============================================================================
