---------------------------- MODULE AgentRuntime ----------------------------
(***************************************************************************)
(* The community backend's agent runtime: ExecutorEngineService with the   *)
(* console resolver that starts executions and decides their approvals,    *)
(* the claimed candidate entries, and the policy edits made meanwhile.     *)
(*                                                                         *)
(* Every request is a process.  It takes one step per awaited statement    *)
(* that touches a table; the tables are shared.  Model and tool payloads,  *)
(* token counts and clocks are abstracted to the branch they select.       *)
(***************************************************************************)
EXTENDS ExecutionStateMachine, Naturals, Sequences, FiniteSets

CONSTANTS
    Runs,            \* executions, each started by one request
    MaxDecisions,    \* bound on communityDecideApproval requests
    Recorders,       \* recordClaimedCandidateSuiteResult calls
    Tools,           \* tool names the model may ask for
    RiskOf,          \* risk level in a registered tool's descriptor, or "unregistered"
    Policies,        \* guardrailRules an agent may be saved with
    EngineAnswers,   \* what evaluating the agent-scoped guardrail rules may answer
    MaxIterations,   \* maxReActIterations
    MaxToolCalls,    \* maxToolCalls
    MaxRetries,      \* maxToolRetryAttempts
    JitterThreshold, \* JITTER_THRESHOLD
    MaxEdits,        \* bound on policy edits
    MaxHitches,      \* bound on what disturbs a run: a statement that throws, a process cut
                     \* off, a policy edit, a request entering while another is active
    None

\* Requests to decide, numbered in the order they arrive.
Deciders == 1..MaxDecisions

Procs == Runs \cup Deciders \cup Recorders
Levels == {"L0", "L1", "L2", "L3", "L4"}

ASSUME RuntimeAssumption ==
    /\ RiskOf \in [Tools -> Levels \cup {"unregistered"}]
    /\ Policies \subseteq [allowed : SUBSET Tools, rules : [Tools -> Levels \cup {"none"}]]
    /\ Policies # {}
    /\ EngineAnswers \subseteq {"unmatched", "throws", "allow", "audit", "block", "confirm", "approve"}
    /\ {MaxIterations, MaxToolCalls, MaxRetries, JitterThreshold, MaxEdits, MaxHitches,
        MaxDecisions} \subseteq Nat
    /\ Runs \cap (Deciders \cup Recorders) = {} /\ Deciders \cap Recorders = {}
    /\ None \notin Runs \cup Tools

VARIABLES
    executions,  \* agent_executions: status of a row, or "none"
    approvals,   \* approval_instances of a run: [status, tool, durable]
    steps,       \* react_steps of a run: [index, action, end]
    outbox,      \* the latest event that announces a run's status
    policies,    \* the agent row's guardrailRules, every saved version
    kind,        \* "sync", or "candidate": claimed under a release
    ran,         \* tool executions: a set of [tool, grant, policy]
    spent,       \* the grants used, in order
    granted,     \* approvals a console request found PENDING and accepted
    overlapped,  \* a request entered a run while another had not returned
    pc,
    req,         \* what a process holds in memory
    hitches

tables == <<executions, approvals, steps, outbox, policies, kind>>
ghosts == <<ran, spent, granted, overlapped>>
vars == <<executions, approvals, steps, outbox, policies, kind, ran, spent, granted,
          overlapped, pc, req, hitches>>

\* A step in the making; `end` says how the loop goes on after it: another
\* iteration, a stop that closes as done or as failed, or a guard's pause.
NoStep == [action |-> "other", end |-> "go"]

Fresh == [run |-> None, decision |-> None, grant |-> 0, policy |-> 1,
          len |-> 0, next |-> 0, last |-> "go", calls |-> 0, same |-> 0, tool |-> None,
          tries |-> 0, step |-> NoStep, durable |-> FALSE, paused |-> FALSE]

Init ==
    /\ kind \in [Runs -> {"sync", "candidate"}]
    /\ executions = [r \in Runs |-> IF kind[r] = "candidate" THEN "pending" ELSE "none"]
    /\ approvals = [r \in Runs |-> <<>>]
    /\ steps = [r \in Runs |-> <<>>]
    /\ outbox = [r \in Runs |-> "none"]
    /\ \E p \in Policies : policies = <<p>>
    /\ ran = [r \in Runs |-> {}]
    /\ spent = [r \in Runs |-> <<>>]
    /\ granted = [r \in Runs |-> {}]
    /\ overlapped = [r \in Runs |-> FALSE]
    /\ pc = [p \in Procs |-> "idle"]
    /\ req = [p \in Procs |-> IF p \in Runs THEN [Fresh EXCEPT !.run = p] ELSE Fresh]
    /\ hitches = 0

Run(p) == req[p].run
Governed(p) == kind[Run(p)] = "candidate"
Policy(p) == policies[req[p].policy]

At(p, label) == pc[p] = label
Goto(p, label) == pc' = [pc EXCEPT ![p] = label]
Hold(p, held) == req' = [req EXCEPT ![p] = held]
SetStatus(p, status) == executions' = [executions EXCEPT ![Run(p)] = status]
Enqueue(p, event) == outbox' = [outbox EXCEPT ![Run(p)] = event]

\* A process that stops keeps nothing in memory.
Leave(p, label) ==
    /\ Goto(p, label)
    /\ Hold(p, [Fresh EXCEPT !.run = Run(p)])

Stopped == {"returned", "refused", "crashed"}
Active(p) == pc[p] \notin Stopped \cup {"idle"}
Enters(p, r) ==
    LET busy == \E q \in Procs \ {p} : Run(q) = r /\ Active(q)
    IN /\ overlapped' = [overlapped EXCEPT ![r] = @ \/ busy]
       /\ hitches' = IF busy THEN hitches + 1 ELSE hitches
       /\ hitches' <= MaxHitches

----------------------------------------------------------------------------
(* Entries *)

\* runSync: admission and agent checks, then the row.
RunSync(r) ==
    /\ At(r, "idle") /\ kind[r] = "sync"
    /\ SetStatus(r, "pending")
    /\ Enters(r, r)
    /\ Goto(r, "load")
    /\ UNCHANGED <<approvals, steps, outbox, policies, kind, ran, spent, granted, req>>

\* runClaimedCandidateSync: a row somebody claimed, still pending.
RunClaimedCandidate(r) ==
    /\ At(r, "idle") /\ kind[r] = "candidate"
    /\ Enters(r, r)
    /\ Goto(r, IF executions[r] = "pending" THEN "load" ELSE "refused")
    /\ UNCHANGED <<tables, ran, spent, granted, req>>

\* recordClaimedCandidateSuiteResult reads the row, refuses one that is not a
\* pending candidate, and saves what it read.
RecordRead(c) ==
    /\ At(c, "idle")
    /\ \E r \in Runs :
           /\ kind[r] = "candidate" /\ executions[r] = "pending"
           /\ Hold(c, [req[c] EXCEPT !.run = r])
           /\ Enters(c, r)
    /\ Goto(c, "recordSave")
    /\ UNCHANGED <<tables, ran, spent, granted>>

RecordSave(c) ==
    /\ At(c, "recordSave")
    /\ \E status \in {"done", "failed"} : SetStatus(c, status)
    /\ Leave(c, "returned")
    /\ UNCHANGED <<approvals, steps, outbox, policies, kind, ghosts, hitches>>

\* The agent row is read once, and the context built from it keeps its policy.
\* Nothing but the started event depends on when that is.
LoadAgent(p) ==
    /\ At(p, "load")
    /\ Hold(p, [req[p] EXCEPT !.policy = Len(policies)])
    /\ Enqueue(p, "started")
    /\ Goto(p, IF p \in Deciders THEN "rebuild" ELSE "loop")
    /\ UNCHANGED <<executions, approvals, steps, policies, kind, ghosts, hitches>>

\* Budget preflight, context, release lineage or manifest refuse the run.
SetupRefused(p) ==
    /\ At(p, "load")
    /\ Enqueue(p, "started")
    /\ Leave(p, "fail")
    /\ UNCHANGED <<executions, approvals, steps, policies, kind, ghosts, hitches>>

----------------------------------------------------------------------------
(* runReActLoop *)

\* persistStep: i = steps.length in the loop, and the step of an approved call
\* follows the highest index.
SaveStep(p, action, end) ==
    /\ steps' = [steps EXCEPT ![Run(p)] = Append(@,
           [index |-> req[p].next, action |-> action, end |-> end])]
    /\ Hold(p, [req[p] EXCEPT !.len = @ + 1, !.next = req[p].len + 1, !.last = end,
                              !.grant = 0, !.tries = 0, !.step = NoStep])
    /\ Goto(p, IF end = "go" THEN "loop" ELSE "closeout")
    /\ UNCHANGED <<executions, approvals, outbox, policies, kind, ghosts, hitches>>

PersistStep(p) ==
    /\ At(p, "persist")
    /\ SaveStep(p, req[p].step.action, req[p].step.end)

\* An ordinary observation; in the last iteration it becomes 'max_steps'.
EndOf(p) == IF req[p].len + 1 >= MaxIterations THEN "failed" ELSE "go"

InLoop(p) == At(p, "loop") /\ req[p].len < MaxIterations

LoopExhausted(p) ==
    /\ At(p, "loop") /\ req[p].len >= MaxIterations
    /\ Goto(p, "closeout")
    /\ UNCHANGED <<tables, ghosts, req, hitches>>

\* Wall clock and budget cap: the step carries no `termination`, so the
\* execution closes like a finished one.
StopUnmarked(p) == InLoop(p) /\ SaveStep(p, "other", "done")

\* chat() throws: nor does this step.
ModelCallFails(p) == InLoop(p) /\ SaveStep(p, "other", "done")

\* Token headroom and budgets, an answer beyond repair: 'termination'.
StopControlled(p) == InLoop(p) /\ SaveStep(p, "other", "failed")

ModelFinish(p) == InLoop(p) /\ SaveStep(p, "other", "done")

ModelHandoff(p) == InLoop(p) /\ SaveStep(p, "other", "done")

\* A generation sub-call that fails is an observation like any other.
ModelGenerate(p) == InLoop(p) /\ SaveStep(p, "other", EndOf(p))

\* The rules bound to the agent; an evaluation that throws lets the call pass.
\* An answer that asks for a human pauses like a sensitive operation does.
enginePauses(answer) == answer \in {"confirm", "approve"}

evaluateRules(answer) ==
    CASE answer = "block" -> "block"
      [] enginePauses(answer) -> "pause"
      [] OTHER -> "pass"

\* checkSensitiveOps first; a governed L3 call is left to the tool's owner.
screen(p, t, answer) ==
    LET rule == Policy(p).rules[t] IN
    IF rule \notin {"none", "L1"} /\ ~Governed(p) THEN "pause"
    ELSE IF Governed(p) /\ rule \notin {"none", "L1", "L3"} THEN "throw"
    ELSE evaluateRules(answer)

\* The jitter fuse compares with the previous call, then the call limit.
ModelToolCall(p) ==
    /\ InLoop(p)
    /\ \E t \in Tools, sameInput \in BOOLEAN, answer \in EngineAnswers :
           LET same == IF sameInput /\ req[p].tool = t THEN req[p].same + 1 ELSE 1
               stop == same >= JitterThreshold \/ req[p].calls + 1 > MaxToolCalls
               next == IF stop THEN "stop" ELSE screen(p, t, answer)
               step == CASE next = "stop" -> [action |-> "other", end |-> "failed"]
                         [] next = "block" -> [action |-> "tool", end |-> "go"]
                         [] OTHER -> [action |-> "tool", end |-> "guard"]
           IN /\ Hold(p, [req[p] EXCEPT !.tool = t, !.same = same, !.calls = @ + 1, !.tries = 0,
                                        !.durable = FALSE, !.step = step])
              /\ Goto(p, CASE next \in {"stop", "block"} -> "persist"
                           [] next = "pause" -> "pauseRead"
                           [] next = "throw" -> "fail"
                           [] OTHER -> "tool")
    /\ UNCHANGED <<tables, ghosts, hitches>>

----------------------------------------------------------------------------
(* executeToolWithRetry and the tool registry's verdict *)

\* An unregistered tool, a governed rule the tool does not back, an allow-list.
denies(p, t) ==
    \/ RiskOf[t] = "unregistered"
    \/ Governed(p) /\ Policy(p).rules[t] = "L3" /\ RiskOf[t] # "L3"
    \/ t \notin Policy(p).allowed

\* Mutant of registryRefuses: an L3 tool runs under a grant for any tool.
registryRefusesLoosely(p, t) ==
    IF denies(p, t) THEN "denied" ELSE IF RiskOf[t] = "L4" THEN "blocked" ELSE "no"

registryRefuses(p, t) ==
    IF denies(p, t) THEN "denied"
    ELSE IF RiskOf[t] = "L4" THEN "blocked"
    ELSE IF RiskOf[t] = "L3" /\ req[p].grant = 0 THEN "escalated" ELSE "no"

RefusedCall(p) ==
    /\ At(p, "tool")
    /\ registryRefuses(p, req[p].tool) \in {"denied", "blocked"}
    /\ Hold(p, [req[p] EXCEPT !.step = [action |-> "tool",
                                        end |-> IF req[p].grant = 0 THEN "failed" ELSE "go"]])
    /\ Goto(p, "persist")
    /\ UNCHANGED <<tables, ghosts, hitches>>

\* An approval is asked for: its row, its event and its audit log.
FileApproval(p, durable) ==
    approvals' = [approvals EXCEPT ![Run(p)] =
        Append(@, [status |-> "PENDING", tool |-> req[p].tool, durable |-> durable])]

\* An L3 tool without a grant: a governed call files its durable approval here.
EscalatedCall(p) ==
    /\ At(p, "tool")
    /\ registryRefuses(p, req[p].tool) = "escalated"
    /\ IF Governed(p) THEN FileApproval(p, TRUE) ELSE UNCHANGED approvals
    /\ Hold(p, [req[p] EXCEPT !.durable = Governed(p),
                              !.step = [action |-> "tool", end |-> "guard"]])
    /\ Goto(p, "pauseRead")
    /\ UNCHANGED <<executions, steps, outbox, policies, kind, ghosts, hitches>>

\* Only a loop's own call is retried, and only when the failure is transient.
retries(p, result) ==
    result = "transient" /\ req[p].grant = 0 /\ req[p].tries < MaxRetries

\* A success or a failure.  A failed approved call is an observation.
ExecuteTool(p) ==
    /\ At(p, "tool")
    /\ registryRefuses(p, req[p].tool) = "no"
    /\ ran' = [ran EXCEPT ![Run(p)] = @ \cup
                  {[tool |-> req[p].tool, grant |-> req[p].grant, policy |-> req[p].policy]}]
    /\ spent' = [spent EXCEPT ![Run(p)] = IF req[p].grant = 0 THEN @ ELSE Append(@, req[p].grant)]
    /\ \E result \in {"success", "transient", "permanent"} :
           IF retries(p, result)
           THEN Hold(p, [req[p] EXCEPT !.tries = @ + 1]) /\ Goto(p, "tool")
           ELSE /\ Hold(p, [req[p] EXCEPT !.step = [action |-> "tool",
                        end |-> IF req[p].grant # 0 THEN "go"
                               ELSE IF result = "success" THEN EndOf(p) ELSE "failed"]])
                /\ Goto(p, "persist")
    /\ UNCHANGED <<tables, granted, overlapped, hitches>>

----------------------------------------------------------------------------
(* Pausing *)

\* handleStateTransition reads the row and validates the transition ...
PauseRead(p) ==
    /\ At(p, "pauseRead")
    /\ Goto(p, IF isValidTransition(executions[Run(p)], "guardrail_pending")
               THEN "pauseWrite" ELSE "fail")
    /\ UNCHANGED <<tables, ghosts, req, hitches>>

\* ... and writes it by id.  execution.status follows.
PauseWrite(p) ==
    /\ At(p, "pauseWrite")
    /\ SetStatus(p, "guardrail_pending")
    /\ Hold(p, [req[p] EXCEPT !.paused = TRUE])
    /\ Goto(p, IF req[p].durable THEN "persist" ELSE "createApproval")
    /\ UNCHANGED <<approvals, steps, outbox, policies, kind, ghosts, hitches>>

\* Mutant of CreateAgentApproval: a failing insert does not fail the run.
CreateAgentApprovalQuiet(p) ==
    /\ At(p, "createApproval")
    /\ FileApproval(p, FALSE) \/ UNCHANGED approvals
    /\ Goto(p, "persist")
    /\ UNCHANGED <<executions, steps, outbox, policies, kind, ghosts, req, hitches>>

\* A throw after the row was inserted is one at "persist".
CreateAgentApproval(p) ==
    /\ At(p, "createApproval")
    /\ FileApproval(p, FALSE)
    /\ Goto(p, "persist")
    /\ UNCHANGED <<executions, steps, outbox, policies, kind, ghosts, req, hitches>>

----------------------------------------------------------------------------
(* Closing an execution.  Status and event are written in one transaction. *)

\* finalStatus: paused by the entity in memory, failed by a termination other
\* than the handoff's, done otherwise.
Closeout(p) ==
    /\ At(p, "closeout")
    /\ IF req[p].paused
       THEN Enqueue(p, "paused") /\ UNCHANGED executions
       ELSE /\ SetStatus(p, IF req[p].last = "failed" THEN "failed" ELSE "done")
            /\ Enqueue(p, IF req[p].last = "failed" THEN "failed" ELSE "completed")
    /\ Leave(p, "returned")
    /\ UNCHANGED <<approvals, steps, policies, kind, ghosts, hitches>>

\* Mutant of Fail: the error is only announced.
FailQuiet(p) ==
    /\ At(p, "fail")
    /\ Enqueue(p, "failed")
    /\ Leave(p, "returned")
    /\ UNCHANGED <<executions, approvals, steps, policies, kind, ghosts, hitches>>

\* The catch of execute(), by id, whatever the row holds by then.
Fail(p) ==
    /\ At(p, "fail")
    /\ SetStatus(p, "failed")
    /\ Enqueue(p, "failed")
    /\ Leave(p, "returned")
    /\ UNCHANGED <<approvals, steps, policies, kind, ghosts, hitches>>

----------------------------------------------------------------------------
(* communityDecideApproval, and the resumed execution behind it *)

\* Mutant of ReadApproval: an approval that was decided may be decided again.
ReadApprovalAny(d) ==
    /\ At(d, "idle") /\ (d > 1 => pc[d - 1] # "idle")
    /\ \E r \in Runs : \E k \in DOMAIN approvals[r], dec \in {"APPROVED", "REJECTED"} :
           /\ ~approvals[r][k].durable
           /\ Hold(d, [req[d] EXCEPT !.run = r, !.grant = k, !.tool = approvals[r][k].tool,
                                     !.decision = dec])
           /\ granted' = [granted EXCEPT ![r] = IF dec = "APPROVED" THEN @ \cup {k} ELSE @]
           /\ Enters(d, r)
           /\ Goto(d, "readExecution")
    /\ UNCHANGED <<tables, ran, spent>>

\* Refuses an approval that is not pending, or that does not carry the paused
\* call in its history: durable approvals do not.
ReadApproval(d) ==
    /\ At(d, "idle") /\ (d > 1 => pc[d - 1] # "idle")
    /\ \E r \in Runs : \E k \in DOMAIN approvals[r], dec \in {"APPROVED", "REJECTED"} :
           /\ approvals[r][k].status = "PENDING" /\ ~approvals[r][k].durable
           /\ Hold(d, [req[d] EXCEPT !.run = r, !.grant = k, !.tool = approvals[r][k].tool,
                                     !.decision = dec])
           /\ granted' = [granted EXCEPT ![r] = IF dec = "APPROVED" THEN @ \cup {k} ELSE @]
           /\ Enters(d, r)
    /\ Goto(d, "readExecution")
    /\ UNCHANGED <<tables, ran, spent>>

ReadExecution(d) ==
    /\ At(d, "readExecution")
    /\ IF executions[Run(d)] = "guardrail_pending"
       THEN Goto(d, "saveDecision") /\ UNCHANGED req
       ELSE Leave(d, "refused")
    /\ UNCHANGED <<tables, ghosts, hitches>>

\* The row it read is saved, whatever it holds by now.
SaveDecision(d) ==
    /\ At(d, "saveDecision")
    /\ approvals' = [approvals EXCEPT ![Run(d)][req[d].grant].status = req[d].decision]
    /\ Goto(d, IF req[d].decision = "APPROVED" THEN "markRunning" ELSE "cancel")
    /\ UNCHANGED <<executions, steps, outbox, policies, kind, ghosts, req, hitches>>

\* Mutant of CancelExecution: the event is published, the row kept.
CancelQuiet(d) ==
    /\ At(d, "cancel")
    /\ Enqueue(d, "cancelled")
    /\ Leave(d, "returned")
    /\ UNCHANGED <<executions, approvals, steps, policies, kind, ghosts, hitches>>

CancelExecution(d) ==
    /\ At(d, "cancel")
    /\ SetStatus(d, "cancelled")
    /\ Enqueue(d, "cancelled")
    /\ Leave(d, "returned")
    /\ UNCHANGED <<approvals, steps, policies, kind, ghosts, hitches>>

\* Validated against the status read before, so never refused here.
MarkRunning(d) ==
    /\ At(d, "markRunning")
    /\ SetStatus(d, "running")
    /\ Goto(d, "load")
    /\ UNCHANGED <<approvals, steps, outbox, policies, kind, ghosts, req, hitches>>

\* executeApprovedToolCall: one call under a one-shot grant, recorded behind
\* the highest index and counted with the tool calls of the history.
approvedCall(old) ==
    LET after(n) == \A m \in DOMAIN old : old[m].index < n
    IN [len |-> Len(old),
        next |-> CHOOSE n \in 0..Len(old) : after(n) /\ (n = 0 \/ ~after(n - 1)),
        calls |-> Cardinality({m \in DOMAIN old : old[m].action = "tool"}) + 1]

\* rebuildHistorySteps reads all steps there are by now.
RebuildHistory(d) ==
    /\ At(d, "rebuild")
    /\ LET call == approvedCall(steps[Run(d)])
       IN Hold(d, [req[d] EXCEPT !.len = call.len, !.next = call.next, !.calls = call.calls])
    /\ Goto(d, "tool")
    /\ UNCHANGED <<tables, ghosts, hitches>>

----------------------------------------------------------------------------
(* The environment *)

\* communityUpdateAgentConfig, in one transaction.
EditPolicy ==
    /\ Len(policies) <= MaxEdits /\ hitches < MaxHitches
    /\ hitches' = hitches + 1
    /\ \E p \in Policies : policies' = Append(policies, p)
    /\ UNCHANGED <<executions, approvals, steps, outbox, kind, ghosts, pc, req>>

InTry == {"load", "rebuild", "loop", "tool", "pauseRead", "pauseWrite",
          "createApproval", "persist", "closeout"}

\* A statement inside execute()'s try throws ...
Throw(p) ==
    /\ hitches < MaxHitches
    /\ pc[p] \in InTry
    /\ hitches' = hitches + 1
    /\ Leave(p, "fail")
    /\ UNCHANGED <<tables, ghosts>>

\* ... or the backend is cut off, or a statement outside the try throws.
Crash(p) ==
    /\ hitches < MaxHitches
    /\ Active(p)
    /\ hitches' = hitches + 1
    /\ Leave(p, "crashed")
    /\ UNCHANGED <<tables, ghosts>>

ExecuteStep(p) ==
    \/ LoadAgent(p) \/ SetupRefused(p)
    \/ LoopExhausted(p) \/ StopUnmarked(p) \/ ModelCallFails(p) \/ StopControlled(p)
    \/ ModelFinish(p) \/ ModelHandoff(p) \/ ModelGenerate(p) \/ ModelToolCall(p)
    \/ RefusedCall(p) \/ EscalatedCall(p) \/ ExecuteTool(p)
    \/ PauseRead(p) \/ PauseWrite(p) \/ CreateAgentApproval(p)
    \/ PersistStep(p) \/ Closeout(p) \/ Fail(p)

DecideStep(d) ==
    \/ ReadExecution(d) \/ SaveDecision(d) \/ CancelExecution(d) \/ MarkRunning(d)
    \/ RebuildHistory(d) \/ ExecuteStep(d)

Next ==
    \/ \E r \in Runs : RunSync(r) \/ RunClaimedCandidate(r) \/ ExecuteStep(r)
    \/ \E d \in Deciders : ReadApproval(d) \/ DecideStep(d)
    \/ \E c \in Recorders : RecordRead(c) \/ RecordSave(c)
    \/ \E p \in Procs : Throw(p) \/ Crash(p)
    \/ EditPolicy

Spec == Init /\ [][Next]_vars

\* A request that started goes on: the database, the model and the tools
\* answer or time out.  Nobody has to start, decide or edit anything.
FairSpec ==
    /\ Spec
    /\ \A r \in Runs : WF_vars(ExecuteStep(r))
    /\ \A d \in Deciders : WF_vars(DecideStep(d))
    /\ \A c \in Recorders : WF_vars(RecordSave(c))

----------------------------------------------------------------------------
(* Properties *)

Labels == InTry \cup Stopped \cup {"idle", "fail", "recordSave", "readExecution", "saveDecision",
                                  "cancel", "markRunning"}
Approval == [status : {"PENDING", "APPROVED", "REJECTED"}, tool : Tools, durable : BOOLEAN]
Ends == {"go", "done", "failed", "guard"}
Step == [index : Nat, action : {"tool", "other"}, end : Ends]
Invocation == [tool : Tools, grant : Nat, policy : Nat]
Request ==
    [run : Runs \cup {None}, decision : {"APPROVED", "REJECTED", None}, grant : Nat,
     policy : Nat, len : Nat, next : Nat, last : Ends, calls : Nat, same : Nat,
     tool : Tools \cup {None}, tries : Nat, step : [action : {"tool", "other"}, end : Ends],
     durable : BOOLEAN, paused : BOOLEAN]

\* Tables, ghosts and what requests hold are values of their kind.
TypeOK ==
    /\ executions \in [Runs -> ExecutionStatus \cup {"none"}]
    /\ approvals \in [Runs -> Seq(Approval)]
    /\ steps \in [Runs -> Seq(Step)]
    /\ outbox \in [Runs -> {"none", "started", "paused", "completed", "failed", "cancelled"}]
    /\ policies \in Seq(Policies) /\ Len(policies) \in 1..MaxEdits + 1
    /\ kind \in [Runs -> {"sync", "candidate"}]
    /\ ran \in [Runs -> SUBSET Invocation]
    /\ spent \in [Runs -> Seq(Nat)]
    /\ granted \in [Runs -> SUBSET Nat]
    /\ overlapped \in [Runs -> BOOLEAN]
    /\ pc \in [Procs -> Labels]
    /\ req \in [Procs -> Request]
    /\ hitches \in 0..MaxHitches

\* However runs, decisions and policy edits interleave: a tool runs only if
\* the policy its request loaded lists it, its descriptor is known and below
\* L4, and - where the descriptor or a matching rule asks for a human - under
\* a grant for that very tool which the console accepted.
ToolsRunWhenPermitted ==
    \A r \in Runs : \A call \in ran[r] :
        LET t == call.tool
            k == call.grant
            policy == policies[call.policy]
        IN /\ t \in policy.allowed
           /\ RiskOf[t] \notin {"unregistered", "L4"}
           /\ RiskOf[t] = "L3" \/ policy.rules[t] \notin {"none", "L1"} =>
                  k \in granted[r] /\ approvals[r][k].tool = t

\* Nobody works on the run any more and nobody was cut off in it.
AtRest(r) ==
    \A p \in Procs : Run(p) = r => ~Active(p) /\ pc[p] # "crashed"

\* "No zombie pause without an approval instance is left behind": a run at
\* rest in guardrail_pending has one undecided approval, whose guard step is
\* the last step saved; however often it paused before, and whatever threw.
PausedIsDecidable ==
    \A r \in Runs : AtRest(r) /\ ~overlapped[r] /\ executions[r] = "guardrail_pending" =>
        /\ Cardinality({k \in DOMAIN approvals[r] : approvals[r][k].status = "PENDING"}) = 1
        /\ approvals[r][Len(approvals[r])].status = "PENDING"
        /\ steps[r] # <<>> /\ steps[r][Len(steps[r])].end = "guard"

EventOf == [s \in {"done", "failed", "cancelled", "guardrail_pending"} |->
    CASE s = "done" -> "completed" [] s = "guardrail_pending" -> "paused" [] OTHER -> s]

\* The audit chain and the row agree: the last event of a run at rest names
\* its status, through pauses, resumes, rejections and errors.  (Step events
\* are enqueued without being awaited and are no part of this.)
LastEventTellsStatus ==
    \A r \in Runs : AtRest(r) /\ ~overlapped[r] /\ outbox[r] # "none" =>
        /\ executions[r] \in DOMAIN EventOf
        /\ outbox[r] = EventOf[executions[r]]

\* "Executes the approved tool exactly once": an approval is never spent
\* twice while requests on a run do not overlap, though it pauses again, is
\* decided again or a request is cut off.
SerialApprovalsSpentOnce ==
    \A r \in Runs : ~overlapped[r] =>
        \A m, n \in DOMAIN spent[r] : spent[r][m] = spent[r][n] => m = n

\* Whatever the model answers and whichever statement throws, a run that
\* is being executed or resumed ends or pauses, unless it is cut off.
RunsSettle ==
    \A r \in Runs : Active(r) \/ executions[r] = "running"
        ~> \/ executions[r] \in {"done", "failed", "cancelled", "guardrail_pending"}
           \/ \E p \in Procs : pc[p] = "crashed"

=============================================================================
