------------------------------- MODULE RunSetup -------------------------------
(***************************************************************************)
(* How the community backend sets a run up: which employee may be run by   *)
(* whom, under which role its tools are called, with which constraints and *)
(* sensitive-op rules, and under which trace its events are written.       *)
(*                                                                         *)
(* Every console mutation is a request, a process that arrives in an HTTP  *)
(* request, alone or with others, and starts out with the context that     *)
(* the middleware opened for it, under a trace of its own or the caller's. *)
(* The ReAct loop itself is AgentRuntime's, and so are overlapping         *)
(* decisions: here one decision is one step up to the resumed run.         *)
(***************************************************************************)
EXTENDS Naturals, Sequences, FiniteSets

CONSTANTS
    Requests,     \* console mutations, each served once
    Users,
    WorkspaceOf,  \* a user's default workspace
    RoleOf,       \* a user's role
    Home,         \* workspace of the seeded employee
    ServiceRole,  \* role the seeded employee is bound to
    ApiNames,
    SeededName,   \* the seeded employee's
    Tools,
    Objects,
    OperationOf,  \* the part of a tool's name after its first dot, or None
    Matches,      \* toolPattern |-> the tools it names, by itself or by its '*'
    CallerTraces, \* what callers put into x-trace-id of their own accord
    Inputs,       \* what the console is given: [allowed, rules, execution], None where absent
    MaxAgents,    \* bound on employees
    None

Wildcard == "*"
Levels == {"L0", "L1", "L2", "L3", "L4"}
Calls == [tool : Tools, object : Objects]

ASSUME SetupAssumption ==
    /\ WorkspaceOf \in [Users -> STRING] /\ RoleOf \in [Users -> STRING]
    /\ Home \in STRING /\ ServiceRole \in STRING
    /\ OperationOf \in [Tools -> STRING \cup {None}]
    /\ \A p \in DOMAIN Matches : Matches[p] \subseteq Tools
    /\ MaxAgents \in Nat /\ MaxAgents >= 1
    /\ SeededName \in ApiNames
    /\ None \notin Users /\ None \notin Requests /\ None \notin Nat /\ None \notin STRING

VARIABLES
    agents,      \* rows of `agents`
    arrivals,    \* the HTTP request a mutation arrived in, or None
    executions,  \* the row a request's runSync inserted, or None
    approvals,   \* approval instances, in order of submission
    events,      \* outbox rows about executions: [aggregate, context]
    toolRuns,    \* ghost: tools called, [execution, role, approval]
    req          \* requests: where they are and what they hold

vars == <<arrivals, agents, executions, approvals, events, toolRuns, req>>

\* The rows, cut down to what decides how a run is set up.
Rule == [pattern : DOMAIN Matches \cup {None}, object : Objects \cup {Wildcard, None},
         operation : STRING \cup {None}, level : STRING, action : STRING]
Constraints == [maxReActIterations : Nat \cup {None}, timeoutMs : Nat \cup {None}]
Agent == [workspace : STRING, apiName : ApiNames, bound : BOOLEAN, allowed : SUBSET Tools,
          rules : Seq(Rule), execution : Constraints]
Execution == [agent : Nat, workspace : STRING, triggeredBy : Users,
              status : {"pending", "guardrail_pending", "running", "done", "failed", "cancelled"}]
Approval == [execution : Requests, call : Calls,
             status : {"PENDING", "APPROVED", "REJECTED"}]

\* Traces are minted for an HTTP request, named by its first mutation, and for
\* a run, or they come with a header.
Trace == (Requests \X {"request", "run"}) \cup CallerTraces
Arrival == [http : Requests, header : Trace \cup {None}, user : Users]

\* What a request carries along, and what an event keeps of it.  The correlation
\* id, a header's or the request's trace, is left out: it goes where the trace goes.
Context == [trace : Trace, execution : Requests \cup {None}]
Event == [aggregate : Requests, context : Context]

\* What buildContext hands to the loop, and what a request holds.
Setup == [role : STRING, allowed : SUBSET Tools, rules : Seq(Rule), maxReActIterations : Nat,
          timeoutMs : Nat]
Request == [pc : {"idle", "open", "create", "update", "execute", "setup", "approved", "loop", "done", "refused"},
            user : Users \cup {None}, execution : Requests \cup {None}, approval : Nat \cup {None},
            context : Context \cup {None}, setup : Setup \cup {None}, agent : Nat \cup {None},
            draft : Agent \cup {None}]

\* The resolver takes what the console sends, and rows are told from no row.
ASSUME RowAssumption ==
    /\ Inputs \subseteq [allowed : {None} \cup (SUBSET Tools), rules : {None} \cup Seq(Rule),
                        execution : {None} \cup Constraints]
    /\ None \notin Execution /\ None \notin Setup /\ None \notin Arrival

\* guardrailRules has no entry for either bound.
NoConstraints == [maxReActIterations |-> None, timeoutMs |-> None]

SeededAgent == [workspace |-> Home, apiName |-> SeededName, bound |-> TRUE,
                allowed |-> Tools, rules |-> <<>>, execution |-> NoConstraints]

\* An absent value leaves what is there.
Given(value, old) == IF value = None THEN old ELSE value

\* A request that carries nothing: not yet served, or answered.
Bare(label) ==
    [pc |-> label, user |-> None, execution |-> None, approval |-> None,
     context |-> None, setup |-> None, agent |-> None, draft |-> None]

Init ==
    /\ arrivals = [q \in Requests |-> None]
    /\ agents = <<SeededAgent>>
    /\ executions = [q \in Requests |-> None]
    /\ approvals = <<>>
    /\ events = {}
    /\ toolRuns = {}
    /\ req = [q \in Requests |-> Bare("idle")]

At(q, label) == req[q].pc = label
Hold(q, held) == req' = [req EXCEPT ![q] = held]
Answer(q, label) == Hold(q, Bare(label))
\* enqueueInTransaction stamps a row with the context bound to the request.
Enqueue(q) == events' = events \cup {[aggregate |-> req[q].execution, context |-> req[q].context]}
SetStatus(q, status) == executions' = [executions EXCEPT ![req[q].execution].status = status]

----------------------------------------------------------------------------
(* The HTTP requests *)

\* The trace is the one the header brings, or is minted for the HTTP request.
RequestContext(arrival) ==
    [trace |-> Given(arrival.header, <<arrival.http, "request">>), execution |-> None]

\* A header brings what its sender made up, or saw on a response or an event.
Header == {None} \cup CallerTraces \cup {e.context.trace : e \in events}

\* The mutations of an HTTP request are served one after the other.
Arrived == {q \in Requests : arrivals[q] # None}
Finished(http) ==
    \A q \in Arrived : arrivals[q].http = http => req[q].pc \in {"done", "refused"}

\* A mutation is served: the first of an HTTP request, or the one that follows
\* those already answered.
Arrive(q, arrival) ==
    /\ At(q, "idle")
    /\ arrivals' = [arrivals EXCEPT ![q] = arrival]
    /\ Hold(q, [Bare("open") EXCEPT !.user = arrival.user, !.context = RequestContext(arrival)])
    /\ UNCHANGED <<agents, executions, approvals, events, toolRuns>>

----------------------------------------------------------------------------
(* The policy of an employee *)

\* validateSensitiveOps
ValidRule(rule) ==
    /\ rule.operation # None
    /\ rule.pattern # None
    /\ rule.level \in Levels
    /\ rule.action \in {"allow", "audit", "confirm", "approve", "block"}

\* resolveExecutionConstraints
ValidConstraints(execution) ==
    /\ execution.maxReActIterations # None => execution.maxReActIterations \in 1..50
    /\ execution.timeoutMs # None => execution.timeoutMs >= 1000 /\ execution.timeoutMs <= 600000

Merged(base, execution) ==
    [maxReActIterations |-> Given(execution.maxReActIterations, base.maxReActIterations),
     timeoutMs |-> Given(execution.timeoutMs, base.timeoutMs)]

Valid(input) ==
    /\ input.rules # None => \A i \in DOMAIN input.rules : ValidRule(input.rules[i])
    /\ input.execution # None => ValidConstraints(input.execution)

Patched(agent, input) ==
    [agent EXCEPT !.allowed = Given(input.allowed, @),
                  !.rules = Given(input.rules, @),
                  !.execution = IF input.execution = None THEN @ ELSE Merged(@, input.execution)]

\* buildContext reads the constraints defensively: anything out of range is
\* replaced by a default.
maxReActIterations(execution) ==
    IF execution.maxReActIterations # None /\ execution.maxReActIterations \in 1..50
    THEN execution.maxReActIterations ELSE 4
timeoutMs(execution) ==
    IF execution.timeoutMs # None /\ execution.timeoutMs >= 1000 /\ execution.timeoutMs <= 600000
    THEN execution.timeoutMs ELSE 60000

\* checkSensitiveOps: by tool pattern within the rule's object, or by the
\* rule's object and operation.
RuleApplies(rule, call) ==
    \/ /\ call.tool \in Matches[rule.pattern]
       /\ rule.object \in {None, Wildcard, call.object}
    \/ /\ rule.object # None
       /\ rule.operation \in {OperationOf[call.tool], Wildcard}
       /\ rule.object \in {Wildcard, call.object}

\* The first rule that applies decides, and its level does: an L1 match is
\* only logged, any other level pauses; the rule's action is not read.
checkSensitiveOps(rules, call) ==
    {rules[i] : i \in {j \in DOMAIN rules :
        /\ RuleApplies(rules[j], call)
        /\ \A k \in 1..(j - 1) : ~RuleApplies(rules[k], call)}}

Pausing(rules, call) == {rule \in checkSensitiveOps(rules, call) : rule.level # "L1"}

----------------------------------------------------------------------------
(* The console's mutations *)

\* createAgent looks the name up, validates, and only then inserts: the new
\* employee has no service identity of its own.
CreateAgent(q, user, apiName, input) ==
    /\ At(q, "open")
    /\ IF /\ \A i \in DOMAIN agents : agents[i].workspace = WorkspaceOf[user] => agents[i].apiName # apiName
          /\ Valid(input)
       THEN Hold(q, [req[q] EXCEPT !.pc = "create", !.user = user,
                         !.draft = [workspace |-> WorkspaceOf[user], apiName |-> apiName,
                                    bound |-> FALSE, allowed |-> Given(input.allowed, {}),
                                    rules |-> Given(input.rules, <<>>),
                                    execution |-> Given(input.execution, NoConstraints)]])
       ELSE Answer(q, "refused")
    /\ UNCHANGED <<arrivals, agents, executions, approvals, events, toolRuns>>

InsertAgent(q) ==
    /\ At(q, "create") /\ Len(agents) < MaxAgents
    /\ agents' = Append(agents, req[q].draft)
    /\ Answer(q, "done")
    /\ UNCHANGED <<arrivals, executions, approvals, events, toolRuns>>

\* updateAgentConfig writes back the whole of the rules it read.
UpdateAgentConfig(q, user, a, input) ==
    /\ At(q, "open")
    /\ IF agents[a].workspace = WorkspaceOf[user] /\ Valid(input)
       THEN Hold(q, [req[q] EXCEPT !.pc = "update", !.user = user, !.agent = a,
                                   !.draft = Patched(agents[a], input)])
       ELSE Answer(q, "refused")
    /\ UNCHANGED <<arrivals, agents, executions, approvals, events, toolRuns>>

WriteAgentConfig(q) ==
    /\ At(q, "update")
    /\ agents' = [agents EXCEPT ![req[q].agent] = req[q].draft]
    /\ Answer(q, "done")
    /\ UNCHANGED <<arrivals, executions, approvals, events, toolRuns>>

\* executeAgent: runSync finds the employee in the caller's workspace and
\* inserts the row.
ExecuteAgent(q, user, a) ==
    /\ At(q, "open")
    /\ IF agents[a].workspace = WorkspaceOf[user]
       THEN /\ executions' = [executions EXCEPT ![q] =
                    [agent |-> a, workspace |-> WorkspaceOf[user], triggeredBy |-> user,
                     status |-> "pending"]]
            /\ Hold(q, [req[q] EXCEPT !.pc = "execute", !.user = user, !.execution = q])
       ELSE /\ Answer(q, "refused")
            /\ UNCHANGED executions
    /\ UNCHANGED <<arrivals, agents, approvals, events, toolRuns>>

\* decideApproval of a pending instance of the caller's workspace whose
\* execution waits for it.
Decide(q, user, i, decision) ==
    /\ At(q, "open")
    /\ LET x == approvals[i].execution
       IN IF /\ executions[x].workspace = WorkspaceOf[user]
             /\ approvals[i].status = "PENDING"
             /\ executions[x].status = "guardrail_pending"
          THEN /\ approvals' = [approvals EXCEPT ![i].status = decision]
               /\ executions' = [executions EXCEPT ![x].status =
                      IF decision = "REJECTED" THEN "cancelled" ELSE "running"]
               /\ IF decision = "REJECTED"
                  THEN /\ events' = events \cup {[aggregate |-> x, context |-> req[q].context]}
                       /\ Answer(q, "done")
                  ELSE /\ Hold(q, [req[q] EXCEPT !.pc = "execute", !.user = user, !.execution = x,
                                                  !.approval = i])
                       /\ UNCHANGED events
          ELSE /\ Answer(q, "refused")
               /\ UNCHANGED <<executions, approvals, events>>
    /\ UNCHANGED <<arrivals, agents, toolRuns>>

----------------------------------------------------------------------------
(* The run *)

\* "agent.execution.started", of a first run and of a resumed one.
Started(q) ==
    /\ At(q, "execute")
    /\ Enqueue(q)
    /\ Hold(q, [req[q] EXCEPT !.pc = "setup"])
    /\ UNCHANGED <<arrivals, agents, executions, approvals, toolRuns>>

\* The caller executeAgent passes on; a resumed run has none.
authenticatedCaller(q) == IF req[q].approval = None THEN req[q].user ELSE None

\* Mutant of roleFor: the person who sent the request stands in.
roleForAnyone(q, agent) == IF agent.bound THEN ServiceRole ELSE RoleOf[req[q].user]

\* The effective role: the employee's when it is bound to a service identity,
\* or that of a caller of the same workspace.
roleFor(q, agent) ==
    LET caller == authenticatedCaller(q)
    IN IF agent.bound THEN ServiceRole
       ELSE IF caller # None /\ WorkspaceOf[caller] = executions[req[q].execution].workspace
            THEN RoleOf[caller] ELSE None

\* Mutant of AgentContext: traces are minted per employee.
AgentContextPerAgent(q) ==
    [trace |-> <<executions[req[q].execution].agent, "run">>, execution |-> req[q].execution]

\* enterAgentRequestContext: no trace is passed, so one is minted.
AgentContext(q) == [trace |-> <<q, "run">>, execution |-> req[q].execution]

\* buildContext, then the agent's own request context when a caller came with
\* the run.
BuildContext(q) ==
    /\ At(q, "setup")
    /\ LET agent == agents[executions[req[q].execution].agent]
           role == roleFor(q, agent)
       IN /\ role # None
          /\ agent.workspace = executions[req[q].execution].workspace
          /\ Hold(q, [req[q] EXCEPT
                           !.pc = IF req[q].approval = None THEN "loop" ELSE "approved",
                           !.setup = [role |-> role, allowed |-> agent.allowed, rules |-> agent.rules,
                                      maxReActIterations |-> maxReActIterations(agent.execution),
                                      timeoutMs |-> timeoutMs(agent.execution)],
                           !.context = IF authenticatedCaller(q) = None THEN req[q].context
                                       ELSE AgentContext(q)])
    /\ UNCHANGED <<arrivals, agents, executions, approvals, events, toolRuns>>

\* COMMUNITY_EXECUTION_PRINCIPAL_REQUIRED: the run is closed as failed.
SetupFails(q) ==
    /\ At(q, "setup")
    /\ roleFor(q, agents[executions[req[q].execution].agent]) = None
    /\ SetStatus(q, "failed")
    /\ Enqueue(q)
    /\ Answer(q, "done")
    /\ UNCHANGED <<arrivals, agents, approvals, toolRuns>>

\* A call that reaches the registry: it runs when the employee may use the
\* tool, and a step tells of it either way.
CallTool(q, call) ==
    /\ toolRuns' = IF call.tool \in req[q].setup.allowed
                   THEN toolRuns \cup {[execution |-> req[q].execution, role |-> req[q].setup.role,
                                        approval |-> req[q].approval]}
                   ELSE toolRuns
    /\ Enqueue(q)

\* executeApprovedToolCall, before the loop goes on.
RunApproved(q) ==
    /\ At(q, "approved")
    /\ CallTool(q, approvals[req[q].approval].call)
    /\ Hold(q, [req[q] EXCEPT !.pc = "loop"])
    /\ UNCHANGED <<arrivals, agents, executions, approvals>>

ToolCall(q, call) ==
    /\ At(q, "loop")
    /\ Pausing(req[q].setup.rules, call) = {}
    /\ CallTool(q, call)
    /\ UNCHANGED <<arrivals, agents, executions, approvals, req>>

Pause(q, call) ==
    /\ At(q, "loop")
    /\ Pausing(req[q].setup.rules, call) # {}
    /\ approvals' = Append(approvals, [execution |-> req[q].execution, call |-> call,
                                       status |-> "PENDING"])
    /\ SetStatus(q, "guardrail_pending")
    /\ Enqueue(q)
    /\ Answer(q, "done")
    /\ UNCHANGED <<arrivals, agents, toolRuns>>

Finish(q, status) ==
    /\ At(q, "loop")
    /\ SetStatus(q, status)
    /\ Enqueue(q)
    /\ Answer(q, "done")
    /\ UNCHANGED <<arrivals, agents, approvals, toolRuns>>

Open(q) ==
    \/ \E user \in Users, header \in Header :
           Arrive(q, [http |-> q, header |-> header, user |-> user])
    \/ \E p \in Arrived : Finished(arrivals[p].http) /\ Arrive(q, arrivals[p])

Serve(q) ==
    \/ LET user == arrivals[q].user
       IN /\ At(q, "open")
          /\ \/ \E apiName \in ApiNames, input \in Inputs : CreateAgent(q, user, apiName, input)
             \/ \E a \in DOMAIN agents, input \in Inputs : UpdateAgentConfig(q, user, a, input)
             \/ \E a \in DOMAIN agents : ExecuteAgent(q, user, a)
             \/ \E i \in DOMAIN approvals, decision \in {"APPROVED", "REJECTED"} :
                    Decide(q, user, i, decision)
    \/ InsertAgent(q)
    \/ WriteAgentConfig(q)

Run(q) ==
    \/ Started(q) \/ BuildContext(q) \/ SetupFails(q) \/ RunApproved(q)
    \/ \E call \in Calls : ToolCall(q, call) \/ Pause(q, call)
    \/ \E status \in {"done", "failed"} : Finish(q, status)

Next == \E q \in Requests : Open(q) \/ Serve(q) \/ Run(q)

Spec == Init /\ [][Next]_vars

----------------------------------------------------------------------------
\* Tables and requests hold values of their kind.
TypeOK ==
    /\ agents \in Seq(Agent) /\ Len(agents) <= MaxAgents
    /\ arrivals \in [Requests -> Arrival \cup {None}]
    /\ executions \in [Requests -> Execution \cup {None}]
    /\ approvals \in Seq(Approval)
    /\ events \subseteq Event
    /\ toolRuns \subseteq [execution : Requests, role : STRING, approval : Nat \cup {None}]
    /\ req \in [Requests -> Request]

\* "The new employee executes under the authenticated caller's role until it
\* is bound to its own service identity": a tool is called under the role of
\* who started the run, never of who approved it, and a bound employee's only
\* under its own; nobody runs an employee of another workspace.
ToolsRunUnderOwnRole ==
    \A t \in toolRuns :
        LET x == executions[t.execution]
            agent == agents[x.agent]
        IN /\ t.role = IF agent.bound THEN ServiceRole ELSE RoleOf[x.triggeredBy]
           /\ agent.workspace = WorkspaceOf[x.triggeredBy]

\* A trace says nothing when a caller supplied it, or when it is that of an
\* HTTP request with several mutations.
Shared(trace) ==
    \/ \E q \in Arrived : arrivals[q].header = trace
    \/ \E p, q \in Arrived :
           p # q /\ arrivals[p].http = arrivals[q].http /\ trace = <<arrivals[q].http, "request">>

\* Whatever runs at the same time, an event that names an execution names its
\* own, and events found under one trace are about one execution, unless a
\* caller supplied that trace or sent several mutations under it.
EventsAttributable ==
    /\ \A e \in events : e.context.execution \in {None, e.aggregate}
    /\ \A e, f \in events :
           e.context.trace = f.context.trace /\ e.aggregate # f.aggregate => Shared(e.context.trace)

\* decideApproval's comment: an approved run "executes the approved tool
\* exactly once under a one-shot grant, and continues the ReAct loop to
\* completion".
ApprovedCallsRun ==
    \A i \in DOMAIN approvals :
        approvals[i].status = "APPROVED" /\ executions[approvals[i].execution].status \in {"done", "failed"}
        => \E t \in toolRuns : t.approval = i

=============================================================================
