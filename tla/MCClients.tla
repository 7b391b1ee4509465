------------------------------ MODULE MCClients ------------------------------
(* The programs that run in a browser.  They share no state, so each is       *)
(* explored on its own: `part` names the one at work; the other stays where   *)
(* no interval of it is running.  The dashboard gets three kinds of visits:   *)
(* to the lists, to the executions, to the employees.                         *)
EXTENDS Dashboard, DemoPages, TLC

CONSTANTS e1, e2

VARIABLE part

Started == e1 :> "running" @@ e2 :> "none"
Idle == e1 :> "none" @@ e2 :> "none"

MCVisits == {
    [status |-> Started, feed |-> TRUE,  session |-> 3, panel |-> 0, page |-> 0],
    [status |-> Started, feed |-> FALSE, session |-> 1, panel |-> 3, page |-> 0],
    [status |-> Idle,    feed |-> FALSE, session |-> 1, panel |-> 0, page |-> 5]}

MCInit ==
    /\ DashboardInit /\ DemoInit
    /\ \/ part = "dashboard" /\ site = "playground"
       \/ part = "pages" /\ ~followed /\ clicks["page"] > 0

MCNext ==
    /\ UNCHANGED part
    /\ \/ part = "dashboard" /\ DashboardNext /\ UNCHANGED demoVars
       \/ part = "pages" /\ DemoNext /\ UNCHANGED dashboardVars

MCSpec ==
    MCInit /\ [][MCNext]_<<dashboardVars, demoVars, part>> /\ Fairness /\ DemoFairness

=============================================================================
