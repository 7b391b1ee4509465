---------------------------- MODULE ExecutorLoop ----------------------------
(***************************************************************************)
(* The governed ReAct loop (ExecutorEngine.run and resumePaused) with the  *)
(* console endpoint that approves or rejects a paused tool call.           *)
(*                                                                         *)
(* A run is one POST that drives the loop until it ends or pauses; an      *)
(* approval resumes the loop in the handler of the console request.  All   *)
(* of them interleave at their awaits and share the execution, approval,   *)
(* step, tool-call and outbox tables.                                      *)
(***************************************************************************)
EXTENDS ExecutionStateMachine, Naturals, Sequences, FiniteSets

CONSTANTS
    Runs,             \* executions, each started by one call of run()
    Deciders,         \* POST /approvals/:id/decide requests
    Tools,            \* tool names the model may ask for
    AllowedTools,     \* the agent's allow-list ...
    BlockedTools,     \* ... and block-list
    RegisteredTools,  \* tools the registry holds
    RiskOf,           \* guardrail risk per tool; "none" when no rule matches
    MaxIterations,    \* maxIterations (8 by default)
    MaxFaults,        \* bound on handlers cut off mid-way
    None

Procs == Runs \cup Deciders

ASSUME ExecutorAssumption ==
    /\ Runs \cap Deciders = {}
    /\ None \notin Runs \cup Tools
    /\ AllowedTools \cup BlockedTools \cup RegisteredTools \subseteq Tools
    /\ RiskOf \in [Tools -> {"none", "L0", "L1", "L2", "L3", "L4"}]
    /\ MaxIterations \in Nat
    /\ MaxFaults \in Nat

VARIABLES
    executions,  \* agent_executions: status, or "none"
    approvals,   \* approval_instances of a run: [status, tool], in order
    steps,       \* react_steps of a run: stepIndex, in order of insertion
    calls,       \* tool_call_records of a run: [tool, status]
    outbox,      \* agent.execution.* events of a run
    ran,         \* tool invocations: [tool, grant], grant 0 or an approval
    approved,    \* approvals of a run whose approval was accepted
    overlapped,  \* two decisions about one run were in progress at once
    crippled,    \* runs whose model has answered JSON without an action
    pc, target,
    length,      \* context.steps.length
    tool,        \* the tool call in hand
    grant,       \* the approval that call runs under, 0 for none
    call,        \* its tool-call record
    ok,          \* its result
    final,       \* the status runLoop returned
    decision,
    faults

tables == <<executions, approvals, steps, calls, outbox>>
ghosts == <<ran, approved, overlapped, crippled>>
context == <<target, length, tool, grant, call, ok, final, decision>>
vars == <<executions, approvals, steps, calls, outbox, ran, approved, overlapped, crippled, pc,
          target, length, tool, grant, call, ok, final, decision, faults>>

Init ==
    /\ executions = [r \in Runs |-> "none"]
    /\ approvals = [r \in Runs |-> <<>>]
    /\ steps = [r \in Runs |-> <<>>]
    /\ calls = [r \in Runs |-> <<>>]
    /\ outbox = [r \in Runs |-> <<>>]
    /\ ran = [r \in Runs |-> <<>>]
    /\ approved = [r \in Runs |-> {}]
    /\ overlapped = FALSE
    /\ crippled = {}
    /\ pc = [p \in Procs |-> "idle"]
    /\ target = [p \in Procs |-> IF p \in Runs THEN p ELSE None]
    /\ length = [p \in Procs |-> 0]
    /\ tool = [p \in Procs |-> None]
    /\ grant = [p \in Procs |-> 0]
    /\ call = [p \in Procs |-> 0]
    /\ ok = [p \in Procs |-> FALSE]
    /\ final = [p \in Procs |-> None]
    /\ decision = [p \in Procs |-> None]
    /\ faults = 0

At(p, label) == pc[p] = label
Goto(p, label) == pc' = [pc EXCEPT ![p] = label]
Set(f, x, value) == [f EXCEPT ![x] = value]
Put(f, x, value) == [f EXCEPT ![x] = Append(@, value)]

----------------------------------------------------------------------------
(* run: create the execution, announce it, loop. *)

SaveExecution(r) ==
    /\ At(r, "idle")
    /\ executions' = Set(executions, r, "pending")
    /\ Goto(r, "enqueueStarted")
    /\ UNCHANGED <<approvals, steps, calls, outbox, ghosts, context, faults>>

EnqueueStarted(r) ==
    /\ At(r, "enqueueStarted")
    /\ outbox' = Put(outbox, r, "started")
    /\ Goto(r, "loop")
    /\ UNCHANGED <<executions, approvals, steps, calls, ghosts, context, faults>>

----------------------------------------------------------------------------
(* runLoop *)

checkToolAccess(t) == t \notin BlockedTools /\ t \in AllowedTools

\* Mutant of gateToolCall: medium risk is let through.
gateToolCallLenient(t) ==
    IF ~checkToolAccess(t) \/ RiskOf[t] = "L4" THEN "blocked"
    ELSE IF RiskOf[t] = "L3" THEN "pause"
    ELSE "allow"

gateToolCall(t) ==
    IF ~checkToolAccess(t) \/ RiskOf[t] = "L4" THEN "blocked"
    ELSE IF RiskOf[t] \in {"L2", "L3"} THEN "pause"
    ELSE "allow"

Return(p, status) == final' = Set(final, p, status) /\ Goto(p, "finalUpdate")

IterationsExhausted(p) ==
    /\ At(p, "loop")
    /\ length[p] >= MaxIterations
    /\ Return(p, "failed")
    /\ UNCHANGED <<tables, ghosts, target, length, tool, grant, call, ok, decision, faults>>

\* The model's answer is no JSON, or an action that is neither kind.
ModelUnusable(p) ==
    /\ At(p, "loop")
    /\ length[p] < MaxIterations
    /\ Return(p, "failed")
    /\ UNCHANGED <<tables, ghosts, target, length, tool, grant, call, ok, decision, faults>>

\* JSON without an action passes the parse; reading the action's type throws,
\* outside the try, past the final update of the caller.
ModelWithoutAction(p) ==
    /\ At(p, "loop")
    /\ length[p] < MaxIterations
    /\ crippled' = crippled \cup {target[p]}
    /\ Goto(p, "thrown")
    /\ UNCHANGED <<tables, ran, approved, overlapped, context, faults>>

ModelFinish(p) ==
    /\ At(p, "loop")
    /\ length[p] < MaxIterations
    /\ Goto(p, "persistFinish")
    /\ UNCHANGED <<tables, ghosts, context, faults>>

\* A refused call is persisted as a failed step, and the loop goes on.
ModelToolCall(p) ==
    /\ At(p, "loop")
    /\ length[p] < MaxIterations
    /\ \E t \in Tools :
           /\ tool' = Set(tool, p, t)
           /\ Goto(p, CASE gateToolCall(t) = "blocked" -> "persistStep"
                        [] gateToolCall(t) = "pause" -> "createApproval"
                        [] OTHER -> "beginCall")
    /\ UNCHANGED <<tables, ghosts, target, length, grant, call, ok, final, decision, faults>>

PersistFinish(p) ==
    /\ At(p, "persistFinish")
    /\ steps' = Put(steps, target[p], length[p])
    /\ length' = Set(length, p, length[p] + 1)
    /\ Return(p, "done")
    /\ UNCHANGED <<executions, approvals, calls, outbox, ghosts, target, tool,
                   grant, call, ok, decision, faults>>

\* Mutant of PersistStep: the step is saved, context.steps is not extended.
PersistStepUncounted(p) ==
    /\ At(p, "persistStep")
    /\ steps' = [steps EXCEPT ![target[p]] =
                     IF Len(@) > MaxIterations THEN @ ELSE Append(@, length[p])]
    /\ grant' = Set(grant, p, 0)
    /\ Goto(p, "loop")
    /\ UNCHANGED <<executions, approvals, calls, outbox, ghosts, target, length,
                   tool, call, ok, final, decision, faults>>

PersistStep(p) ==
    /\ At(p, "persistStep")
    /\ steps' = Put(steps, target[p], length[p])
    /\ length' = Set(length, p, length[p] + 1)
    /\ grant' = Set(grant, p, 0)
    /\ Goto(p, "loop")
    /\ UNCHANGED <<executions, approvals, calls, outbox, ghosts, target, tool,
                   call, ok, final, decision, faults>>

----------------------------------------------------------------------------
(* executeApprovedTool *)

BeginCall(p) ==
    /\ At(p, "beginCall")
    /\ calls' = Put(calls, target[p], [tool |-> tool[p], status |-> "STARTED"])
    /\ call' = Set(call, p, Len(calls[target[p]]) + 1)
    /\ Goto(p, "executeTool")
    /\ UNCHANGED <<executions, approvals, steps, outbox, ghosts, target, length,
                   tool, grant, ok, final, decision, faults>>

\* ToolRegistry.execute: unknown tools and tools outside the allow-list fail
\* closed; a tool that throws is a failed result.
ExecuteTool(p) ==
    /\ At(p, "executeTool")
    /\ IF tool[p] \in RegisteredTools \cap AllowedTools
       THEN /\ ran' = Put(ran, target[p], [tool |-> tool[p], grant |-> grant[p]])
            /\ \E success \in BOOLEAN : ok' = Set(ok, p, success)
       ELSE ok' = Set(ok, p, FALSE) /\ UNCHANGED ran
    /\ Goto(p, "finalizeCall")
    /\ UNCHANGED <<tables, approved, overlapped, crippled, target, length, tool, grant, call, final,
                   decision, faults>>

FinalizeCall(p) ==
    /\ At(p, "finalizeCall")
    /\ calls' = [calls EXCEPT ![target[p]][call[p]].status =
                     IF ok[p] THEN "SUCCEEDED" ELSE "FAILED"]
    /\ Goto(p, "persistStep")
    /\ UNCHANGED <<executions, approvals, steps, outbox, ghosts, context, faults>>

----------------------------------------------------------------------------
(* gateToolCall, L2 and L3: pause for a human. *)

CreateApproval(p) ==
    /\ At(p, "createApproval")
    /\ approvals' = Put(approvals, target[p], [status |-> "PENDING", tool |-> tool[p]])
    /\ Goto(p, "markPaused")
    /\ UNCHANGED <<executions, steps, calls, outbox, ghosts, context, faults>>

\* The transition is validated against the in-memory status: 'pending' in a
\* run, 'running' in a resumed loop.
MarkPaused(p) ==
    /\ At(p, "markPaused")
    /\ IF isValidTransition(IF p \in Runs THEN "pending" ELSE "running", "guardrail_pending")
       THEN /\ executions' = Set(executions, target[p], "guardrail_pending")
            /\ Goto(p, "enqueuePaused")
       ELSE Goto(p, "thrown") /\ UNCHANGED executions
    /\ UNCHANGED <<approvals, steps, calls, outbox, ghosts, context, faults>>

EnqueuePaused(p) ==
    /\ At(p, "enqueuePaused")
    /\ outbox' = Put(outbox, target[p], "paused")
    /\ Return(p, "guardrail_pending")
    /\ UNCHANGED <<executions, approvals, steps, calls, ghosts, target, length,
                   tool, grant, call, ok, decision, faults>>

----------------------------------------------------------------------------
(* Both callers of runLoop write the status it returned, whatever the row  *)
(* holds.  In run() the update is made on the repository, not on the       *)
(* transaction's manager, so it lands before the event is inserted; a      *)
(* resumed loop publishes no event.                                        *)

FinalUpdate(p) ==
    /\ At(p, "finalUpdate")
    /\ executions' = Set(executions, target[p], final[p])
    /\ Goto(p, IF p \in Runs THEN "finalEnqueue" ELSE "returned")
    /\ UNCHANGED <<approvals, steps, calls, outbox, ghosts, context, faults>>

FinalEnqueue(r) ==
    /\ At(r, "finalEnqueue")
    /\ outbox' = Put(outbox, r, IF final[r] = "done" THEN "completed" ELSE "failed")
    /\ Goto(r, "returned")
    /\ UNCHANGED <<executions, approvals, steps, calls, ghosts, context, faults>>

----------------------------------------------------------------------------
(* POST /approvals/:id/decide, and resumePaused behind it. *)

Finished == {"returned", "conflict", "thrown"}

Deciding(e, r) == target[e] = r /\ pc[e] \notin Finished \cup {"idle"}

\* The decision and the approval row, read before the first await.
ConsoleRead(d) ==
    /\ At(d, "idle")
    /\ \E r \in Runs : \E k \in DOMAIN approvals[r], dec \in {"APPROVED", "REJECTED"} :
           /\ target' = Set(target, d, r)
           /\ grant' = Set(grant, d, k)
           /\ tool' = Set(tool, d, approvals[r][k].tool)
           /\ decision' = Set(decision, d, dec)
           /\ approved' = [approved EXCEPT ![r] =
                  IF dec = "APPROVED" /\ approvals[r][k].status = "PENDING" THEN @ \cup {k} ELSE @]
           /\ overlapped' = (overlapped \/ \E e \in Deciders \ {d} : Deciding(e, r))
           /\ Goto(d, IF approvals[r][k].status = "PENDING" THEN "decideRow" ELSE "conflict")
    /\ UNCHANGED <<tables, ran, crippled, length, call, ok, final, faults>>

\* Mutant of DecideRow: an approval leaves the row PENDING.
DecideRowUnrecorded(d) ==
    /\ At(d, "decideRow")
    /\ approvals' = [approvals EXCEPT ![target[d]][grant[d]].status =
                         IF decision[d] = "APPROVED" THEN @ ELSE "REJECTED"]
    /\ Goto(d, IF decision[d] = "APPROVED" THEN "resumeRead" ELSE "returned")
    /\ UNCHANGED <<executions, steps, calls, outbox, ghosts, context, faults>>

\* The row is updated by id.  A rejection answers 'cancelled' and stops here.
DecideRow(d) ==
    /\ At(d, "decideRow")
    /\ approvals' = [approvals EXCEPT ![target[d]][grant[d]].status = decision[d]]
    /\ Goto(d, IF decision[d] = "APPROVED" THEN "resumeRead" ELSE "returned")
    /\ UNCHANGED <<executions, steps, calls, outbox, ghosts, context, faults>>

\* EXECUTION_NOT_AWAITING_APPROVAL unless the execution is paused by now.
ResumeRead(d) ==
    /\ At(d, "resumeRead")
    /\ Goto(d, IF executions[target[d]] = "guardrail_pending" THEN "resumeRunning" ELSE "thrown")
    /\ UNCHANGED <<tables, ghosts, context, faults>>

ResumeRunning(d) ==
    /\ At(d, "resumeRunning")
    /\ executions' = Set(executions, target[d], "running")
    /\ Goto(d, "resumeSteps")
    /\ UNCHANGED <<approvals, steps, calls, outbox, ghosts, context, faults>>

ResumeSteps(d) ==
    /\ At(d, "resumeSteps")
    /\ length' = Set(length, d, Len(steps[target[d]]))
    /\ Goto(d, "beginCall")
    /\ UNCHANGED <<tables, ghosts, target, tool, grant, call, ok, final, decision, faults>>

----------------------------------------------------------------------------
Abort(p) ==
    /\ faults < MaxFaults
    /\ pc[p] \notin Finished \cup {"idle"}
    /\ faults' = faults + 1
    /\ Goto(p, "thrown")
    /\ UNCHANGED <<tables, ghosts, context>>

LoopStep(p) ==
    \/ IterationsExhausted(p) \/ ModelUnusable(p) \/ ModelWithoutAction(p)
    \/ ModelFinish(p) \/ ModelToolCall(p)
    \/ PersistFinish(p) \/ PersistStep(p)
    \/ BeginCall(p) \/ ExecuteTool(p) \/ FinalizeCall(p)
    \/ CreateApproval(p) \/ MarkPaused(p) \/ EnqueuePaused(p)
    \/ FinalUpdate(p)

RunStep(r) == EnqueueStarted(r) \/ FinalEnqueue(r) \/ LoopStep(r)

DecideStep(d) ==
    \/ DecideRow(d) \/ ResumeRead(d) \/ ResumeRunning(d) \/ ResumeSteps(d)
    \/ LoopStep(d)

Next ==
    \/ \E r \in Runs : SaveExecution(r) \/ RunStep(r)
    \/ \E d \in Deciders : ConsoleRead(d) \/ DecideStep(d)
    \/ \E p \in Procs : Abort(p)

Spec == Init /\ [][Next]_vars

\* A started handler keeps running: the model, the tools and the database
\* answer.  Nobody is forced to start a run or to decide.
FairSpec ==
    /\ Spec
    /\ \A r \in Runs : WF_vars(RunStep(r))
    /\ \A d \in Deciders : WF_vars(DecideStep(d))

----------------------------------------------------------------------------
(* Properties *)

Label ==
    {"idle", "enqueueStarted", "loop", "persistFinish", "persistStep",
     "beginCall", "executeTool", "finalizeCall", "createApproval",
     "markPaused", "enqueuePaused", "finalUpdate", "finalEnqueue",
     "decideRow", "resumeRead", "resumeRunning", "resumeSteps"} \cup Finished

ApprovalRow == [status : {"PENDING", "APPROVED", "REJECTED"}, tool : Tools]
CallRecord == [tool : Tools, status : {"STARTED", "SUCCEEDED", "FAILED"}]
Invocation == [tool : Tools, grant : Nat]

\* Tables, ghosts and loop contexts hold values of their kind.
TypeOK ==
    /\ executions \in [Runs -> ExecutionStatus \cup {"none"}]
    /\ approvals \in [Runs -> Seq(ApprovalRow)]
    /\ steps \in [Runs -> Seq(Nat)]
    /\ calls \in [Runs -> Seq(CallRecord)]
    /\ outbox \in [Runs -> Seq({"started", "paused", "completed", "failed"})]
    /\ ran \in [Runs -> Seq(Invocation)]
    /\ approved \in [Runs -> SUBSET Nat]
    /\ overlapped \in BOOLEAN
    /\ crippled \in SUBSET Runs
    /\ pc \in [Procs -> Label]
    /\ target \in [Procs -> Runs \cup {None}]
    /\ length \in [Procs -> Nat]
    /\ tool \in [Procs -> Tools \cup {None}]
    /\ grant \in [Procs -> Nat]
    /\ call \in [Procs -> Nat]
    /\ ok \in [Procs -> BOOLEAN]
    /\ final \in [Procs -> ExecutionStatus \cup {None}]
    /\ decision \in [Procs -> {"APPROVED", "REJECTED", None}]
    /\ faults \in 0..MaxFaults

\* "A tool runs only when the allow-list grants it, the guardrail engine
\* permits it (L0/L1), and - for L2/L3 - a human approval exists": for every
\* invocation, in a first run or a resumed one, however often a paused call
\* is decided, and for exactly the tool that was approved.
ToolsRunWhenPermitted ==
    \A r \in Runs : \A n \in DOMAIN ran[r] :
        LET t == ran[r][n].tool
            k == ran[r][n].grant
        IN /\ t \in RegisteredTools /\ t \in AllowedTools \ BlockedTools
           /\ RiskOf[t] # "L4"
           /\ RiskOf[t] \in {"L2", "L3"} =>
                  k \in approved[r] /\ k \in DOMAIN approvals[r] /\ approvals[r][k].tool = t

\* The loop is bounded: a started run ends or pauses, whatever the model
\* answers, unless it is cut off or an answer without an action throws it out
\* of the loop.  Such a run stays pending.
RunsSettle ==
    \A r \in Runs : executions[r] = "pending"
        ~> \/ executions[r] \in {"done", "failed", "guardrail_pending"}
           \/ faults > 0 \/ r \in crippled

\* No approval is spent twice.
SpentOnce(r) ==
    \A m, n \in DOMAIN ran[r] :
        ran[r][m].grant > 0 /\ ran[r][m].grant = ran[r][n].grant => m = n

\* While the console decides one request of a run at a time, an approved tool
\* runs at most once: although run() may still be closing, a resumed loop may
\* pause again, and handlers may be cut off and decisions repeated.
SerialApprovalsSpentOnce == ~overlapped => \A r \in Runs : SpentOnce(r)

=============================================================================
