--------------------------- MODULE ApprovalEngine ---------------------------
(***************************************************************************)
(* The human-in-the-loop decision core (ApprovalEngineService): creation   *)
(* of agent approvals, multi-step decisions, timeouts and reconfiguration  *)
(* of the steps, every call a handler that interleaves with the others at  *)
(* its awaits.                                                             *)
(*                                                                         *)
(* Decisions are written by compare-and-set (saveDecisionFirstWriter);     *)
(* timeouts write back the whole row they read (Repository.save).          *)
(***************************************************************************)
EXTENDS Naturals, Sequences, Functions

CONSTANTS
    Instances,  \* approval instances
    KindOf,     \* "agent", "governed" (agent_tool) or "process", per instance
    PolicyOK,   \* governed instances whose policy revision and context match
    Users,
    InitSteps,  \* the steps of the one approval process
    Plans,      \* step lists an administrator may configure instead
    Deciders,   \* processDecision calls
    Timers,     \* processTimeout calls
    Admins,     \* configureSteps calls
    MaxFaults,  \* bound on handlers cut off mid-way
    None

\* stepOrder, the users the approver check accepts, and the timeout action.
Step == [order : Nat, approvers : SUBSET Users, onTimeout : {"reject", "escalate"}]

Procs == Instances \cup Deciders \cup Timers \cup Admins

ASSUME HandlersAssumption ==
    /\ Instances \cap (Deciders \cup Timers \cup Admins) = {}
    /\ Deciders \cap (Timers \cup Admins) = {}
    /\ Timers \cap Admins = {}
    /\ None \notin Instances

ASSUME StepsAssumption ==
    /\ InitSteps \in Seq(Step)
    /\ \A plan \in Plans : plan \in Seq(Step)

ASSUME InstancesAssumption ==
    /\ KindOf \in [Instances -> {"agent", "governed", "process"}]
    /\ PolicyOK \subseteq Instances
    /\ MaxFaults \in Nat
    /\ None \notin Users \cup {"system"}

Action == {"APPROVED", "REJECTED"}
Status == {"PENDING"} \cup Action

\* actor "system" submits and times out.
Entry == [step : Nat, action : {"SUBMITTED"} \cup Action, actor : Users \cup {"system"}]
Row == [status : Status \cup {"none"}, step : Nat, history : Seq(Entry)]

NoRow == [status |-> "none", step |-> 0, history |-> <<>>]
Submitted == [status |-> "PENDING", step |-> 0,
              history |-> <<[step |-> 0, action |-> "SUBMITTED", actor |-> "system"]>>]

VARIABLES
    rows,       \* approval_instances
    steps,      \* approval_steps of the process, in stepOrder
    log,        \* approvalStatus of the guardrail log of an agent approval
    events,     \* events emitted about each instance, in order
    pc, target,
    seen,       \* the row a handler read, and later the row it wrote
    seenSteps,  \* the steps a handler read
    who, action,
    stale,         \* some timeout has overwritten a row it had not read
    reconfigured,  \* some configureSteps has started
    faults

tables == <<rows, steps, log, events>>
locals == <<target, seen, seenSteps, who, action>>
ghosts == <<stale, reconfigured>>
vars == <<rows, steps, log, events, pc, target, seen, seenSteps, who, action,
          stale, reconfigured, faults>>

\* Rows of business processes are inserted by the host application; agent
\* approvals by createAgentApproval.
Init ==
    /\ rows = [i \in Instances |-> IF KindOf[i] = "process" THEN Submitted ELSE NoRow]
    /\ steps = InitSteps
    /\ log = [i \in Instances |-> "none"]
    /\ events = [i \in Instances |-> <<>>]
    /\ pc = [p \in Procs |-> "idle"]
    /\ target = [p \in Procs |-> IF p \in Instances THEN p ELSE None]
    /\ seen = [p \in Procs |-> NoRow]
    /\ seenSteps = [p \in Procs |-> <<>>]
    /\ who = [p \in Procs |-> None]
    /\ action = [p \in Procs |-> None]
    /\ stale = FALSE
    /\ reconfigured = FALSE
    /\ faults = 0

At(p, label) == pc[p] = label
Goto(p, label) == pc' = [pc EXCEPT ![p] = label]
Emit(i, event) == events' = [events EXCEPT ![i] = Append(@, event)]

\* True of governed approvals too: their subjectType is 'agent_tool'.
isAgentApproval(i) == KindOf[i] \in {"agent", "governed"}

\* updateGuardrailLogByApprovalId: an UPDATE, without effect before the insert.
UpdateLog(i, status) ==
    log' = [log EXCEPT ![i] = IF @ = "none" THEN @ ELSE status]

\* Agent approvals have a single implicit step.
getStepsForInstance(i) == IF isAgentApproval(i) THEN <<>> ELSE steps

Recorded(row, act, actor) ==
    [row EXCEPT !.history = Append(@, [step |-> row.step, action |-> act, actor |-> actor])]

----------------------------------------------------------------------------
(* createAgentApproval *)

\* A governed call names the policy revision it was prepared under.
policyAccepts(i) == KindOf[i] = "governed" => i \in PolicyOK

CreateInstance(i) ==
    /\ At(i, "idle")
    /\ isAgentApproval(i)
    /\ IF policyAccepts(i)
       THEN Goto(i, "announce") /\ rows' = [rows EXCEPT ![i] = Submitted]
       ELSE Goto(i, "thrown") /\ UNCHANGED rows
    /\ UNCHANGED <<steps, log, events, locals, ghosts, faults>>

AnnounceCreated(i) ==
    /\ At(i, "announce")
    /\ Emit(i, "created")
    /\ Goto(i, "logPending")
    /\ UNCHANGED <<rows, steps, log, locals, ghosts, faults>>

LogPending(i) ==
    /\ At(i, "logPending")
    /\ log' = [log EXCEPT ![i] = "pending"]
    /\ Goto(i, "returned")
    /\ UNCHANGED <<rows, steps, events, locals, ghosts, faults>>

----------------------------------------------------------------------------
(* processDecision *)

DecisionRead(d) ==
    /\ At(d, "idle")
    /\ \E i \in Instances, u \in Users, act \in Action :
           /\ rows[i].status # "none"
           /\ target' = [target EXCEPT ![d] = i]
           /\ who' = [who EXCEPT ![d] = u]
           /\ action' = [action EXCEPT ![d] = act]
           /\ seen' = [seen EXCEPT ![d] = rows[i]]
           /\ Goto(d, IF KindOf[i] = "governed" \/ rows[i].status # "PENDING"
                      THEN "thrown" ELSE "decisionSteps")
    /\ UNCHANGED <<tables, seenSteps, ghosts, faults>>

\* Without a current step there is nobody to check the approver against.
CanApprove(plan, index, user) ==
    index < Len(plan) => user \in plan[index + 1].approvers

DecisionSteps(d) ==
    /\ At(d, "decisionSteps")
    /\ LET plan == getStepsForInstance(target[d])
       IN /\ seenSteps' = [seenSteps EXCEPT ![d] = plan]
          /\ Goto(d, IF CanApprove(plan, seen[d].step, who[d])
                     THEN "decisionSave" ELSE "thrown")
    /\ UNCHANGED <<tables, target, seen, who, action, ghosts, faults>>

\* Mutant of Decided: the last step is taken for approved one step early.
DecidedEarly(row, plan, act, user) ==
    LET recorded == Recorded(row, act, user)
    IN IF act = "APPROVED" /\ row.step + 2 < Len(plan)
       THEN [recorded EXCEPT !.step = @ + 1]
       ELSE [recorded EXCEPT !.status = act]

\* The row after the decision: next step, or decided.
Decided(row, plan, act, user) ==
    LET recorded == Recorded(row, act, user)
    IN IF act = "APPROVED" /\ row.step + 1 < Len(plan)
       THEN [recorded EXCEPT !.step = @ + 1]
       ELSE [recorded EXCEPT !.status = act]

\* Mutant of FirstWriter: the update is keyed by the step alone.
FirstWriterOfStep(row, expected) == row.step = expected.step

\* saveDecisionFirstWriter: the UPDATE matches only a row that is still
\* PENDING at the step the decision was made about.
FirstWriter(row, expected) == row.status = "PENDING" /\ row.step = expected.step

DecisionSave(d) ==
    /\ At(d, "decisionSave")
    /\ LET i == target[d]
           written == Decided(seen[d], seenSteps[d], action[d], who[d])
           affected == FirstWriter(rows[i], seen[d])
       IN /\ rows' = [rows EXCEPT ![i] = IF affected THEN written ELSE @]
          /\ seen' = [seen EXCEPT ![d] = IF affected THEN written ELSE @]
          /\ Goto(d, IF affected THEN "decisionEmit" ELSE "thrown")
    /\ UNCHANGED <<steps, log, events, target, seenSteps, who, action, ghosts, faults>>

\* Mutant of DecisionEmit: the agent is not told.
DecisionEmitNothing(d) ==
    /\ At(d, "decisionEmit")
    /\ Goto(d, "returned")
    /\ UNCHANGED <<rows, steps, log, events, locals, ghosts, faults>>

DecisionEmit(d) ==
    /\ At(d, "decisionEmit")
    /\ LET i == target[d]
       IN CASE seen[d].status = "PENDING" -> Emit(i, "advanced") /\ Goto(d, "returned")
            [] seen[d].status # "PENDING" /\ isAgentApproval(i) ->
                   /\ Emit(i, IF seen[d].status = "APPROVED" THEN "resume" ELSE "terminate")
                   /\ Goto(d, "decisionLog")
            [] OTHER -> UNCHANGED events /\ Goto(d, "returned")
    /\ UNCHANGED <<rows, steps, log, locals, ghosts, faults>>

DecisionLog(d) ==
    /\ At(d, "decisionLog")
    /\ UpdateLog(target[d], IF seen[d].status = "APPROVED" THEN "approved" ELSE "rejected")
    /\ Goto(d, "returned")
    /\ UNCHANGED <<rows, steps, events, locals, ghosts, faults>>

----------------------------------------------------------------------------
(* processTimeout *)

TimeoutRead(t) ==
    /\ At(t, "idle")
    /\ \E i \in Instances :
           /\ target' = [target EXCEPT ![t] = i]
           /\ seen' = [seen EXCEPT ![t] = rows[i]]
           /\ Goto(t, IF rows[i].status # "PENDING" THEN "returned"
                      ELSE IF KindOf[i] = "governed" THEN "thrown"
                      ELSE "timeoutSteps")
    /\ UNCHANGED <<tables, seenSteps, who, action, ghosts, faults>>

TimeoutSteps(t) ==
    /\ At(t, "timeoutSteps")
    /\ seenSteps' = [seenSteps EXCEPT ![t] = getStepsForInstance(target[t])]
    /\ Goto(t, "timeoutSave")
    /\ UNCHANGED <<tables, target, seen, who, action, ghosts, faults>>

\* Escalation moves to the next step; the last step rejects.
TimedOut(row, plan) ==
    LET recorded == Recorded(row, "REJECTED", "system")
    IN IF row.step + 1 < Len(plan) /\ plan[row.step + 1].onTimeout = "escalate"
       THEN [recorded EXCEPT !.step = @ + 1]
       ELSE [recorded EXCEPT !.status = "REJECTED"]

\* Repository.save: the row as it was read, whatever it holds by now.
TimeoutSave(t) ==
    /\ At(t, "timeoutSave")
    /\ LET i == target[t]
           written == TimedOut(seen[t], seenSteps[t])
       IN /\ rows' = [rows EXCEPT ![i] = written]
          /\ seen' = [seen EXCEPT ![t] = written]
          /\ stale' = (stale \/ rows[i] # seen[t])
          /\ Goto(t, IF written.status = "PENDING" THEN "timeoutEscalated"
                     ELSE IF isAgentApproval(i) THEN "timeoutLog" ELSE "returned")
    /\ UNCHANGED <<steps, log, events, target, seenSteps, who, action, reconfigured, faults>>

TimeoutEscalated(t) ==
    /\ At(t, "timeoutEscalated")
    /\ Emit(target[t], "escalated")
    /\ Goto(t, "returned")
    /\ UNCHANGED <<rows, steps, log, locals, ghosts, faults>>

TimeoutLog(t) ==
    /\ At(t, "timeoutLog")
    /\ UpdateLog(target[t], "timeout")
    /\ Goto(t, "timeoutTerminate")
    /\ UNCHANGED <<rows, steps, events, locals, ghosts, faults>>

TimeoutTerminate(t) ==
    /\ At(t, "timeoutTerminate")
    /\ Emit(target[t], "terminate")
    /\ Goto(t, "returned")
    /\ UNCHANGED <<rows, steps, log, locals, ghosts, faults>>

----------------------------------------------------------------------------
(* configureSteps: a delete and an insert, in no transaction. *)

DeleteSteps(a) ==
    /\ At(a, "idle")
    /\ steps' = <<>>
    /\ reconfigured' = TRUE
    /\ Goto(a, "saveSteps")
    /\ UNCHANGED <<rows, log, events, locals, stale, faults>>

InStepOrder(list) == \A m, n \in DOMAIN list : m < n => list[m].order <= list[n].order

\* getSteps reads in stepOrder, so the rows of overlapping calls are merged;
\* the order of equal stepOrders is up to the database.
SaveSteps(a) ==
    /\ At(a, "saveSteps")
    /\ \E plan \in Plans :
           LET stored == steps \o plan
           IN \E place \in Bijection(DOMAIN stored, DOMAIN stored) :
                  /\ steps' = [n \in DOMAIN stored |-> stored[place[n]]]
                  /\ InStepOrder(steps')
    /\ Goto(a, "returned")
    /\ UNCHANGED <<rows, log, events, locals, ghosts, faults>>

----------------------------------------------------------------------------
Finished == {"returned", "thrown"}

\* An awaited call is rejected or the process dies.
Abort(p) ==
    /\ faults < MaxFaults
    /\ pc[p] \notin Finished \cup {"idle"}
    /\ faults' = faults + 1
    /\ Goto(p, "thrown")
    /\ UNCHANGED <<tables, locals, ghosts>>

CreateStep(i) == AnnounceCreated(i) \/ LogPending(i)
DecisionStep(d) ==
    DecisionSteps(d) \/ DecisionSave(d) \/ DecisionEmit(d) \/ DecisionLog(d)
TimeoutStep(t) ==
    \/ TimeoutSteps(t) \/ TimeoutSave(t) \/ TimeoutEscalated(t)
    \/ TimeoutLog(t) \/ TimeoutTerminate(t)

Next ==
    \/ \E i \in Instances : CreateInstance(i) \/ CreateStep(i)
    \/ \E d \in Deciders : DecisionRead(d) \/ DecisionStep(d)
    \/ \E t \in Timers : TimeoutRead(t) \/ TimeoutStep(t)
    \/ \E a \in Admins : DeleteSteps(a) \/ SaveSteps(a)
    \/ \E p \in Procs : Abort(p)

Spec == Init /\ [][Next]_vars

\* A started handler's awaits are answered.
FairSpec ==
    /\ Spec
    /\ \A i \in Instances : WF_vars(CreateStep(i))
    /\ \A d \in Deciders : WF_vars(DecisionStep(d))
    /\ \A t \in Timers : WF_vars(TimeoutStep(t))
    /\ \A a \in Admins : WF_vars(SaveSteps(a))

----------------------------------------------------------------------------
(* Properties *)

Event == {"created", "advanced", "resume", "terminate", "escalated"}
Label ==
    {"idle", "announce", "logPending", "decisionSteps", "decisionSave",
     "decisionEmit", "decisionLog", "timeoutSteps", "timeoutSave",
     "timeoutEscalated", "timeoutLog", "timeoutTerminate", "saveSteps"} \cup Finished

\* Tables, events and handler locals hold values of their kind.
TypeOK ==
    /\ rows \in [Instances -> Row]
    /\ steps \in Seq(Step)
    /\ log \in [Instances -> {"none", "pending", "approved", "rejected", "timeout"}]
    /\ events \in [Instances -> Seq(Event)]
    /\ pc \in [Procs -> Label]
    /\ target \in [Procs -> Instances \cup {None}]
    /\ seen \in [Procs -> Row]
    /\ seenSteps \in [Procs -> Seq(Step)]
    /\ who \in [Procs -> Users \cup {None}]
    /\ action \in [Procs -> Action \cup {None}]
    /\ stale \in BOOLEAN /\ reconfigured \in BOOLEAN
    /\ faults \in 0..MaxFaults

\* One of the approvers of step k approved it.
ApprovedStep(row, k) ==
    \E n \in DOMAIN row.history :
        /\ row.history[n].step = k
        /\ row.history[n].action = "APPROVED"
        /\ row.history[n].actor \in InitSteps[k + 1].approvers

\* Step k timed out and its timeout action is to escalate.
EscalatedStep(row, k) ==
    /\ InitSteps[k + 1].onTimeout = "escalate"
    /\ \E n \in DOMAIN row.history :
           row.history[n].step = k /\ row.history[n].actor = "system"
               /\ row.history[n].action = "REJECTED"

\* While the steps are not reconfigured, a process instance never gets past
\* a step that no entitled approver approved and no escalation skipped, and
\* is APPROVED only by an approver of the last step: although approvers
\* race, and although a late timeout writes back a stale row (processDecision,
\* processTimeout).
StepsDealtWith ==
    \A i \in Instances : KindOf[i] = "process" /\ ~reconfigured =>
        /\ \A k \in 0..(Len(InitSteps) - 1) :
               k < rows[i].step => ApprovedStep(rows[i], k) \/ EscalatedStep(rows[i], k)
        /\ rows[i].status = "APPROVED" /\ InitSteps # <<>> =>
               /\ rows[i].step = Len(InitSteps) - 1
               /\ ApprovedStep(rows[i], rows[i].step)

\* What was recorded about instance i is kept by the step: a decided row does
\* not change and the history only grows.
Kept(i) ==
    /\ rows[i].status \in Action => rows'[i] = rows[i]
    /\ \A n \in DOMAIN rows[i].history :
           /\ n \in DOMAIN rows'[i].history
           /\ rows'[i].history[n] = rows[i].history[n]

\* "CAS-first-writer decisions, audit trails": decisions, however many race
\* and whatever becomes of the steps, never undo what was recorded, as long
\* as no timeout has overwritten a row it had not read.
DecisionsKeptUnlessStale == [][~stale' => \A i \in Instances : Kept(i)]_vars

\* However decisions, timeouts and reconfigurations interleave, the paused
\* tool call of an execution is released at most once.
AgentResumedOnce ==
    \A i \in Instances : \A m, n \in DOMAIN events[i] :
        events[i][m] = "resume" /\ events[i][n] = "resume" => m = n

\* An approval that is on record reaches the agent unless a handler is cut
\* off, even if a timeout overwrites the row before the event is emitted.
ApprovedAgentResumes ==
    \A i \in Instances :
        (rows[i].status = "APPROVED" /\ isAgentApproval(i))
            ~> \/ \E n \in DOMAIN events[i] : events[i][n] = "resume"
               \/ faults > 0

=============================================================================
