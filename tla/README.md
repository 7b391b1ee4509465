# Verification of the NexusClaw agent-governance system

TLA+ models, TLC runs and TLAPS proofs for the governance kernel
(`governance/packages`), its sidecar and Python client, the community backend that is
built on it (`packages/backend`) and the browser code in front of both.
`PROJECT.json` maps every definition to the source lines it translates and lists the
hazards, the finding, the mutants and the theorems.  Run a model with
`tlc -config <cfg> <module>` as listed under "runs", check proofs with
`tlapm <module>Proofs.tla`.

## 1. Inventory

The system decides whether an AI agent's tool call may run.  Everything is deny by
default; a guardrail grades allowed calls L0 to L4; L2/L3 wait for a human; every
step is written to Postgres tables that form the audit chain (`agent_executions`,
`react_steps`, `tool_call_records`, `approval_instances`, `outbox_events`).

| Component | State | Operations | Correct when | Module |
|---|---|---|---|---|
| execution state machine | status table | `isValidTransition`, `handleStateTransition` | a status moves only along the table | `ExecutionStateMachine` |
| sidecar gate, console API, MCP gateway, Python client | execution, call record, approval, outbox | `gate`, `complete`, `decide`, `tools/call`, `pendingLookup`, `gate_and_run` | no run without a grant once a call is paused; rows and events agree; one outcome per call | `GovernanceGate`, `GovernedCall` |
| approval engine | instances, steps, guardrail log, events | `createAgentApproval`, `processDecision`, `processTimeout`, `configureSteps` | no step is skipped; no decision undone; the agent is resumed once | `ApprovalEngine` |
| kernel executor | execution, steps, calls, outbox | `run`, `resumePaused`, `runLoop` | only permitted tools run; bounded; an approval is spent once | `ExecutorLoop` |
| outbox, OTLP exporter | events, in-memory cursor | `runInTransaction`, `tick` | every committed terminal event is exported | `OtelExporter` |
| tool-call lifecycle, backend tool registry | call records with lease, binding, ordinal | `executeTool`, `begin`, `transition`, `finalize`, `heartbeat`, `bindStaticConnectorSnapshot`, `allocateSubcallOrdinal` | the record tells what happened; first writers win; nothing stays open | `ToolCallLedger`, `ToolRegistry` |
| guardrail (kernel and backend) | rules, cache | `evaluate`, `loadRules` | the strictest matching rule decides, and is current | `GuardrailRules` |
| backend executor, console resolver | execution, steps, approvals, outbox | `executeAgent`, `execute`, `decideApproval`, `updateAgentConfig` | as the kernel's loop, and a pause can always be decided | `AgentRuntime` |
| model calls of the backend executor, BYO adapter | token counts, one answer | prompt, chat, parse, repair | budgets bound what calls cost; only answers are shown | `ModelTurn` |
| identity, constraints, trace of a run | request context, employees | `createAgent`, `resolveAgent`, `enterAgentRequestContext`, `enqueue` | tools run under the right role; events are attributable to one execution | `RunSetup` |
| metadata runtime | snapshots | `validateFiles`, `diffSnapshots` | file order does not matter; the plan leads to what the files describe | `MetadataPlan` |
| hosted playground | workspaces, in-memory registry | `createSession`, `tick`, `recycle`, `sweep` | limits hold; a recycled session leaves no more than is known | `Playground` |
| dashboard | feed, panel, page | polling, deciding, editing | what is shown catches up with the server | `Dashboard` |
| console and playground pages | one execution, one queue | intervals, decisions | the same | `DemoPages` |
| governor, redaction, insights, adapters, scripts | none that a run can reach | pure functions, single HTTP calls | - | not modelled |

Interaction.  HTTP, GraphQL and MCP requests, console decisions, timeouts and timer ticks
are handlers on one Node event loop.  They share nothing but the database, a cache and a
few in-memory maps, and interleave at every `await`.  Some writers use a conditional
`UPDATE` (call records, approval decisions of the kernel); others overwrite rows by id
(executions, console decisions, timeouts, employees), and only `runInTransaction` groups
statements.  Browsers interleave at every fetch.

What is hard: two handlers that both pass a check before either writes; a row read
before an `await` and written back after it; a handler that dies between two of its
writes; an approval that arrives before the execution is marked paused; a client that
retries or stops waiting; a grant delivered twice; a lease that ends while the tool runs; a
cursor over rows that become visible out of order; a cache nobody invalidates; an answer
that comes after the page has moved on.  `PROJECT.json` lists these as hazards, each at its
line.

## 2. Plan

1. The kernel (done): `GovernanceGate` and its promise `GovernedCall` with their proofs;
   `ApprovalEngine`, `ExecutorLoop`, `OtelExporter`.
2. The backend and the browsers (done): `ToolCallLedger` and `ToolRegistry`;
   `AgentRuntime`, `ModelTurn` and `RunSetup`, three views of one executor that each keep
   what their properties tell apart; `GuardrailRules`, `MetadataPlan`, `Playground`,
   `Dashboard`, `DemoPages`.
3. Proofs of the safety properties of every module that has some (done, section 5): first the
   kernel's and the backend's protocols, then the exporter and the playground, whose actors are
   timers, and last the modules around one request: `RunSetup`, `MetadataPlan`, `GuardrailRules`,
   `Dashboard`.  No module uses a RECURSIVE operator; loops over data are recursive functions.
4. Left to model checking: liveness, and what section 5 names.

## 3. Modules and how they correspond to the code

Common conventions.  An action is the code between two awaits and has at most one
database effect; `pc[p]` names the await handler `p` is at.  `Abort(p)` is a
rejected query or a killed process at that await: whatever the handler still had to do
is not done.  Ids are fresh UUIDs, so rows are keyed by the call, run or instance that
owns them.  Variables marked as ghosts (`ran`, `decisions`, `paused`, `approved`, `spent`, `begunFor`, `reported`, and the conditions of
section 4) record what happened outside the database; no guard and no table depends on them.  Operators commented
"Mutant of X" are deliberately wrong versions of `X`; no specification uses them.

* **`ExecutionStateMachine`**: `VALID_TRANSITIONS` as a function of sets.
* **`GovernedCall`**: the abstract promise.  A call gets a verdict (allow, pause,
  refuse) and may be paused; humans may approve it; before it is paused, and only then, an
  approval may be presumed; the tool runs only if allowed, approved or presumed so; an
  outcome is recorded at most once and only after a run.
* **`GovernanceGate`**: `gate` (Receive to EnqueuePaused), the elicited decision
  (Elicit to DecideExecution), the console (ConsoleReceive to ConsoleApprove), the
  client (Poll, PollTimeout, RunApproved), `pendingLookup` (LookupRow to LookupTool) and
  `complete` (CallTool to EnqueueOutcome).  Tool input, reasons and payloads are left
  out: no branch depends on them once the verdict is known.  A lookup may be made as soon as
  the approval row exists: `GET /approvals/pending` lists its id before `gate()` has paused the
  execution.
* **`ApprovalEngine`**: rows are `[status, step, history]`.  `DecisionSave` is the
  compare-and-set of `saveDecisionFirstWriter`, `TimeoutSave` is `Repository.save` of
  the row as read.  The event bus and the guardrail log are ports; the log is modelled
  from the backend's `AuditLoggerService` (insert, and an update that does nothing before the
  insert).  Rows of business processes are inserted by the host application.  `stepType`
  is left out because no code reads it.  `SaveSteps` is the insert behind `configureSteps`:
  the rows of two overlapping calls are merged in any order that `getSteps`' ORDER BY allows
  (`InStepOrder`).
* **`ExecutorLoop`**: `run` and `resumePaused` are two kinds of handlers around the same
  loop actions.  `length[p]` is `context.steps.length`, which is also the loop's
  iteration counter: every iteration that continues has persisted exactly one step.  The
  model's answer is any of: no JSON (`ModelUnusable` ends the run as failed), JSON without an action
  (`ModelWithoutAction`: it throws outside the `try`, and nobody writes the final status), finish,
  a call of any tool.
* **`OtelExporter`**: writers stamp an event, then commit it; ticks read the oldest
  `BatchSize` events, drop what the cursor passed (`Batch`: in timestamp order, a prefix) and
  send the rest one by one.
* **`ToolCallLedger`**, **`ToolRegistry`**: the ledger has, for every statement of
  `ToolCallLifecycleService`, the condition of its `WHERE` and the row it leaves; 0 stands
  for NULL.  The registry's worker is one `executeTool` call, fresh or under a grant; the
  row a worker begins bears its name.  What schema, policy and permissions answer is free
  and may differ between two attempts.  Grants are delivered at least once; a static tool's grant
  names no call, so each delivery begins a row of its own, and `begunFor` records for which call.
* **`GuardrailRules`**: table, cache entry per scope with its age, and evaluations in steps
  (cache read, load, cache write, assess).  It is the code of both engines: the kernel's
  `TypeOrmRuleProvider` with `GuardrailEngineService`, and the backend's class that is both.
  Without a cache it is the kernel's in-memory provider.
* **`AgentRuntime`**: requests that run an execution, `decideApproval` requests that resume
  it, `recordClaimedCandidateSuiteResult` calls and policy edits over shared tables, one
  step per awaited statement.  A model turn is reduced to its outcome, a guard to the level
  it yields.  `req[p]` is what a request holds in memory; every action writes it with `Hold`,
  and a request that stops keeps nothing of it (`Leave`).  `FileApproval` is the insert of an
  approval row, reached from the pause of a guard or from a tool's owner.  `MaxHitches` counts
  statements that throw, processes cut off, policy edits and overlapping entries.
* **`ModelTurn`**: the same loop seen from its tokens: prompt parts and their budgets, the
  estimate, the call, three parsers, the one repair, the generation sub-call, and the loop
  again after an approval.  An answer is what its parsers would find in it (`parsed`); a repair
  asks the same parsers again (`Answered`).  A call costs what the provider bills (`Costs`), and the
  adapter may refuse an answer already billed: `reported` is what it passed on, `rejectedCall` and
  `rejectedGenerations` what was billed and refused.  `tokensOf` adds up what the persisted steps cost, as
  the resumed loop does.
* **`RunSetup`**: a request and its async-local context; who may run which employee, the
  role its tools get, the constraints and rules a run starts from and the trace of its
  events.  Several mutations may arrive in one HTTP request, one served after the other under one
  context, and a caller may bring a trace in a header: one of its own, or one it saw on an event
  (`Header`).  The correlation id goes where the trace goes.  The loop is one tool call.
* **`MetadataPlan`**: `validateFiles` and `diffSnapshots` as operators over sequences of files;
  the parser's two loops are recursive functions (`Consumed`, `consumeInlineFields`).  A name is the
  sequence of its dot-separated parts: `indexSnapshot` joins two of them, and `Subject` keeps the
  first two parts of what was joined, as the code's `split('.')` does.  The state
  is the upload so far and the workspace's snapshot.
* **`Playground`**: a session is the set of tables that hold rows of its workspace; the
  migration's foreign keys decide which inserts and deletes succeed.  Adjacent statements on
  tables no other handler can tell apart are one step.  A visitor's request (an execution, a decision
  and the run it resumes, a new or changed employee) passes the token check once and then writes to
  its tables whether or not the workspace is still there (`Write`); a visitor has one request under
  way at a time.  Guardrail logs and outbox events are one table, `log`: the same requests write and
  the same deletes remove them, with no foreign key.  A clock tick (the reaper's 30 minutes) is
  longer than any creation or recycling.
* **`Dashboard`**: a fetch carries whether its effect still listens and, once served, the
  answer; an expired token is answered by GraphQL with HTTP 200 and an error the page does not take
  for the end of the session; `Visits` gives what a behaviour starts from and how often the user clicks in each
  part, so that one run follows feed, panel and page without multiplying them.
* **`DemoPages`**: the two static pages with their interval, queue and decisions.

## 4. Runs

Bounds.  One call, run or agent instance per model is enough to meet every conflict,
because handlers touch only the rows of their target and ids are never shared; two or
three concurrent deciders, lookups, workers, timers or ticks give every pairwise race plus a
bystander.  The proofs of section 5 remove all bounds from the safety properties.

| Run | Instance | Shows |
|---|---|---|
| `gate` | 1 call, 2 console decisions, 1 lookup at any time after the approval exists, 2 faults, a tool per verdict | grants, write-ahead audit, agreement of the tables, single outcome, that the protocol implements `GovernedCall`, and that a call that needs no human reaches a terminal status |
| `approval_steps` | 2-step process whose first step escalates; 3 decisions, 1 timeout, 1 reconfiguration, 1 fault | no step is passed without its approver or an escalation; decisions undo nothing that was recorded |
| `approval_agent` | an agent and a governed approval; 2 decisions, 1 timeout, 1 fault | the agent is resumed at most once, and is resumed whenever its approval is recorded |
| `executor` | L0, L2, L4 and unregistered tool; 2 decisions, 1 fault, 2 iterations | only permitted invocations; a run ends or pauses unless the model answers JSON without an action; approvals are spent once while decisions do not overlap |
| `otel` | 3 events, batch of 2, 2 overlapping ticks, clock up to 3 | the cursor passes nothing unexported, and what fits one batch is exported, while events become visible in the order of their timestamps |
| `tool_registry` | 1 fresh and 2 resuming workers, 2 binders, 6 tools, lease of 2 ticks, 1 fault | the record agrees for ever with the effect; a grant, with all rows begun under it, executes once unless a worker re-enters a RUNNING call or a static grant is delivered twice; bindings and ordinals keep their first writer; a call whose workers have all returned or thrown is final or parked |
| `agent_runtime` | 1 run, 2 decisions, 1 recorder, 3 tools, 2 policies, 3 iterations, 2 tool calls, 1 retry, 1 edit, 1 throw or crash | permitted tools only; a pause at rest has one decidable approval; last event and row agree; approvals spent once; runs settle |
| `model_turn` | 60 tokens, 25 per step, 12 per answer, 6 iterations, 4 tool calls, 2 resumes, overrun 3, sub-call 20 | what calls cost exceeds the budget by no more than one overrun, or one generation sub-call, and refused generation sub-calls; steps account for what was reported; nothing but an answer is shown as one |
| `platform` | 3 requests in 1 to 3 HTTP requests, 1 caller-supplied trace, 3 users, 2 employees, 2 workspaces; up to 3 of the metadata files; 3 rules, 2 evaluators, cache of 1 tick, 1 edit | roles, traces; file order and plans; verdicts.  Its three parts share no state and are chosen by the initial state |
| `playground` | all limits 1, life 1, hour 2; 2 visitors behind one address who only execute; or 1 visitor who decides and changes employees too, with 2 restarts or failing deletes | limits, what recycling leaves behind, every session recycled |
| `clients` | 2 tokens that may expire, 2 executions, 2 employees, 1 fault; or a page with 2 executions, 3 clicks, 2 polls, 1 load, 1 decision, 1 loss | what is shown catches up; the employee page follows its route |
| `approved_calls` | as `platform` | a violation, see the findings below |

Type invariants (`TypeOK`) are stated for the proofs, in the modules whose tables and
handlers are typed; the runs check what says more.

Some properties hold only under a condition on the environment that the code does not
enforce.  Ghost variables record whether it was broken, and the properties say so:

* `presumed` (`GovernanceGate`): a lookup read PENDING and running before `gate()` had paused the
  execution, and took it for an approval.  The tool then runs ungranted;
  `RunsOnlyWhenGrantedOrPresumed` says that this is the only way.
* `crippled` (`ExecutorLoop`): the model answered JSON without an action.  `run()` rejects and the
  execution never settles.
* `stale` (`ApprovalEngine`): a timeout has overwritten a row that changed since it was
  read.  Without one, recorded decisions are kept.
* `reconfigured` (`ApprovalEngine`): `configureSteps` was called.  In the gap between its
  delete and its insert the process has no steps, so a decision meets no approver check
  and completes the instance, whoever sent it.
* `overlapped` (`ExecutorLoop`, `AgentRuntime`): two requests on one run were in progress at
  once.
* `disordered` (`OtelExporter`): two events share a millisecond, or one was stamped before
  another had committed.  Such an event may commit behind the cursor and is never exported.
* `reentered`, `begunFor` (`ToolRegistry`): a worker found the call it resumes RUNNING and went on;
  more than one row was begun under a grant.
* `rejectedCall`, `rejectedGenerations` (`ModelTurn`): what the adapter refused after it was billed.
  The executor records it as 0 tokens; a refused call ends the loop, a refused generation sub-call
  does not, so as many may repeat as there are iterations.
* Caller-supplied traces and shared HTTP requests (`RunSetup`, `Shared`): executions may then be found
  under one trace.
* Dots in names (`MetadataPlan`, `Undotted`): identities may collide, and a change may name another
  field than it is about.
* `overlap` (`Playground`): creations overlapped, and may overrun the capacity.  `cut`: a creation
  or recycling was cut off, which may leave the role behind, because only the user's row leads to it.
  `late`: a request wrote during or after the recycling; its approval, execution, log or agent stay.
  `met`: the sweep met a creation under way, and the two may leave any row.  `cleared`: the end of a
  sweep forgot the session.
* An expired token (`Dashboard`): the feed stays as it is and shows the error; the panel is excused.
* `crossed`, `unlistened` (`Dashboard`) and their likes in `DemoPages`: an answer about
  another execution, or a failed first fetch, has left a view without a timer.

`CHECK_DEADLOCK FALSE` everywhere: requests are finite in number and the system may
rest once all have been answered.

Fairness.  Weak fairness of the steps of a handler that has started: the event loop and
the database serve every pending await, and nothing in the code gives one up except by
an error, which is `Abort`, a hitch or a fault.  Behaviours with one are part of the runs,
and the liveness properties excuse them where nobody else does what a cut-off handler left
undone.  Starting a request, a human's decision, a poll's deadline and faults are never
forced.  The exporter's fairness also assumes that from some time on the collector accepts
and the process stays up.  In `Playground` the clock and the reaper's timer go on; in
`Dashboard` and `DemoPages` so do an interval that is set and the answer of a fetch (served,
or failed), while the user's clicks are never forced.

### Findings

`approved_calls`: an employee made by `createAgent` has no service identity and runs under
its caller's role; `decideApproval` resumes the run without a caller
(`community-agent-runtime.resolver.ts:396`), so after an approval the run fails before the
approved tool, where the comment at line 377 says the tool is executed exactly once.

### Behaviours the models contain and no run is about

Sidecar and kernel:

* `gate()` creates the approval before it pauses the execution.  In between, the rows look
  exactly as after a console approval (PENDING and running).  An approval that arrives there is
  overwritten by the pause.  A lookup that arrives there, or after `gate()` was cut off there, runs
  the tool although nobody approved it (`gateway.ts:277`); the id is listed by
  `GET /approvals/pending` from the insert on.
* The console approves by execution id alone (`server.ts:131`) and can set a cancelled execution
  back to running, which `execution-state-machine.ts:7` excludes; the approval row of a gated
  call stays PENDING (`server.ts:124`, against `README.md:32`); a console rejection leaves
  the execution `guardrail_pending`, and the client (`client.py:114`) waits for its deadline.
* The executor has the same order as the gate: an approval given before the execution is
  marked paused is recorded, `resumePaused` throws, and nothing is left to decide.
  Overlapping approvals run the approved tool twice, which `executor-engine.ts:138` excludes.
  JSON without an action leaves the execution pending or running for ever.
* A run that pauses publishes `agent.execution.failed`, and the execution goes on after it
  when approved.  The closing status and its event are not one transaction: a failed insert
  leaves a closed execution that was never announced.
* `processTimeout` saves the row it read (`approval-engine.ts:453`): a late timeout turns APPROVED into REJECTED
  and drops the history entry (`governance/README.md:52` says first writer wins).
* A decision made before `createAgentApproval` has inserted its guardrail log leaves that
  log 'pending'.
* The exporter reads the 20 oldest terminal events at every tick (`otel-audit-exporter.ts:154`): nothing
  after the 20th is exported, nor what becomes visible behind the cursor.

Backend:

* `ToolRegistry`: nothing recovers a call past its lease; a worker that reads RUNNING executes
  again; each delivery of a static tool's grant executes; a `finalize` that throws after a success records FAILED; a resumed call that is refused
  by an object permission or has become L4 throws a conflict and stays REQUIRES_APPROVAL.
* `AgentRuntime`: a model failure, a timeout and the iteration cap close a run as done,
  where `community-byo-llm.adapter.ts:9` says failed; an approved call may exceed the step cap by
  one; overlapping approvals resume twice; a fresh run goes from pending to done without ever
  being running; step events are not awaited and may commit after the closing event; a grant of
  the older kind begins a new record and leaves the old one REQUIRES_APPROVAL.
* `ModelTurn`: an answer that overspends is retried with a cropped prompt for which no token is
  left, so the model is never called again and the bill of that answer is in no step; a comment
  (`executor-engine.service.ts:3551`) describes a fallback where the code throws
  `MODEL_RESPONSE_INVALID`; the generation sub-call has no cap; tokens of planning are not counted;
  the jitter counter and the crop flag start afresh after an approval; the BYO adapter demands
  JSON of every call and, when it refuses an answer, reports an error without the tokens it cost
  (`community-byo-llm.adapter.ts:190`).
* `RunSetup`: `updateAgentConfig` loses the earlier of two edits and `createAgent` checks a name
  without a unique index; of a sensitive-op rule only the risk level counts, not its action; every run mints a
  trace of its own, as nobody fills `context.traceId` (`outbox.service.ts:30` expects the
  request's), but its started event is enqueued before that, under the request's trace, which a
  header may supply and several runs of one HTTP request share; the middleware runs before authentication, so the request's own context is anonymous.
* `GuardrailRules`: nothing invalidates the cache, so a verdict may be 300 s old; an input's own
  `operation` replaces the tool's name; an amount of 0 gives way to `value`; an empty list of
  fields matches nothing; an evaluation that throws lets the call pass.
* `MetadataPlan`: objects from the database always carry hints that files lack, so
  they are planned as updates; keys of an unwrapped document's envelope are planned too; inline relation fields of
  the old form are not normalized; a plan is built from an invalid upload as well; fields whose dotted names join to the same identity
  are one, and a change of a dotted field names another.
* `Playground`: windows restart instead of rolling, so twice the limit fits an hour; the sweep
  ends with `registry.clear()`, which also forgets sessions created meanwhile
  (`hosted-playground/requirements.md:41`); a creation cut off between role and user leaks the role,
  and so does a recycling cut off between the two; what a running execution, a decision (whose `save`
  inserts a deleted approval again) or a new employee writes may outlive the recycling; sessions from before a restart are not throttled until swept.

Browsers:

* `Dashboard`: the panel shows an answer whatever execution it is about, and stops polling if it
  is terminal; no refused token signs out, since the server answers 200 with 'Invalid access token'
  and the page waits for a 401 or 'unauthorized' (`App.tsx:246`): the feed stays stale and shows the
  error; a save's reload is not
  cancelled by leaving the page, edits made while it is under way are lost, and a save writes the
  whole configuration back.
* `DemoPages`: a late terminal answer about an earlier execution stops the new one's interval; a
  late older answer overwrites the final state; the playground decides about the first approval
  in the list; its token is replaced before the new run has answered.

## 5. Proofs

Eight modules hold theorems: one each for the components with a protocol of their own,
`TimerProofs` for `OtelExporter` and `Playground`, and `PlatformProofs` for `RunSetup`,
`MetadataPlan`, `GuardrailRules` and `Dashboard`.  They prove, for every value of the constants -
any number of requests, runs, calls, decisions, timers, ticks, sessions, files and faults, every
policy, budget, process, rule table and batch size - that an invariant stronger than the checked
properties is inductive, and then that the properties follow.  Every safety property a passing
run checks is proved.  The parts of the invariants were checked by TLC on the instances of
section 4 before they were proved.

| Module | Properties of the runs that are proved | Invariant |
|---|---|---|
| `GovernanceGateProofs` | `RunsOnlyWhenGrantedOrPresumed`, `AuditPrecedesEffect`, `OutcomesAgree`, `OutcomePublishedOnce`, `ImplementsGovernedCall`; also that final records never change | `GateInvariant` |
| `ApprovalEngineProofs` | `StepsDealtWith`, `DecisionsKeptUnlessStale`, `AgentResumedOnce` | `HandlerInvariant`, with `ProcessInvariant`, `FreshInvariant`, `ResumeInvariant` |
| `ExecutorLoopProofs` | `ToolsRunWhenPermitted`, `SerialApprovalsSpentOnce` | `LoopInvariant`, `SerialInvariant` |
| `TimerProofs` | `CursorSound` | `ExportInvariant` |
| | `LimitsHold`, `NoTrace` | `PlaygroundInvariant` |
| `ToolRegistryProofs` | `RecordTellsEffect`, `OneExecutionPerGrant`, `FirstWriterWins`, `NoneLeftOpen` | `RegistryInvariant` |
| `AgentRuntimeProofs` | `ToolsRunWhenPermitted`, `PausedIsDecidable`, `LastEventTellsStatus`, `SerialApprovalsSpentOnce` | `RuntimeInvariant` |
| `PlatformProofs` | `ToolsRunUnderOwnRole`, `EventsAttributable` | `SetupInvariant` |
| | `VerdictsCurrent` | `RulesInvariant` |
| | `PageFollowsRoute` | `PageInvariant` |
| | `PlanReachesTarget` | none: true of any upload and workspace, under the property's condition on dots |
| | `OrderIrrelevant` | an upload is a sequence of source files |
| `ModelTurnProofs` | `SpendBounded`, `UsageRecorded`, `OnlyAnswersShown` | `TurnInvariant` |

Type correctness is a theorem of its own for every component but `ModelTurn` and `Dashboard`, where
it is part of `TurnInvariant` and `PageInvariant`, and `MetadataPlan`, which has no types to keep.

**Assumptions** on the constants, named in the modules that declare them and evaluated by the
runs: the kinds of handlers are disjoint, placeholders such as `None` are no value of the kind
they stand beside, policies, tools, steps and sizes have their types, bounds are natural numbers,
a batch, a lease, an output cap, a cache's lifetime and the playground's limits are at least 1, a
document's inline fields are a list.  Sets of handlers and values may be infinite; only the rules
of a table are a finite set, because the reduce over them must end.

**Why the properties are not inductive.**  What a handler does after an `await` depends on what it
read before it, while others have written since.  Each invariant therefore says, for every await,
what the handler waiting there has in hand and what of it is still true of the tables:

* `GateInvariant`.  `CallStage`: where a call's own handler is determines what its record, approval
  and outbox may hold; up to the pause they are the handler's own unless a lookup presumed an approval
  and completes the call meanwhile.  `RowsAgree` and `OutcomeRows`: what the rows of a call say about
  each other; in particular the execution of a call that *was* paused is running only if a human
  approved it, which makes `pendingLookup`'s inference safe from the pause on.  `HandlerStage`: what every handler
  carries is backed by its call's rows, and at most one handler of a call is past `finalize`: the
  compare-and-set on the record elects the one that writes the outcome.  `Refinement` maps the
  verdict to the moment the record is begun and the outcome to the record's final status; each
  action is a `GovernedCall` step or a stutter.
* `ApprovalEngine`.  `ProcessInvariant`: the rows and also the copies handlers have read of
  them have no step that was passed over (`Dealt`), so that writing a copy back cannot lose one.
  `FreshInvariant`: until a stale write, a row still PENDING at the step a handler read *is* the
  row it read, because every write advances the step or decides; this is what makes the
  compare-and-set of `saveDecisionFirstWriter` keep the history.  `ResumeInvariant`: of all
  handlers of an agent approval only one gets to emit.
* `LoopInvariant`: a handler about to execute a tool holds a permission for it that the gate or
  the console gave (`Permitted`); `SerialInvariant`: a grant in hand is unspent, and what is spent
  is decided, as long as one request at a time decides.
* `ExportInvariant`: whatever is committed up to the end of a batch in flight is exported or
  still in what its tick has to send (`Covered`), and events become visible at the end (`Ordered`).
* `RegistryInvariant`: who owns a row that is open (`Owned`), what the row says of the executions
  (`Recorded`), and that without re-entry one worker at a time is between the gates and the
  tool (`Alone`).  `GrantInvariant`: an approved call of a static tool stays parked, and rows begun
  under its grant are never approved themselves.
* `RuntimeInvariant`.  `InHand` (where a request may be, the grant and the call it holds) and
  `RanOK` give `ToolsRunWhenPermitted`, also for overlapping requests: the screen of the loop
  leaves a governed L3 call to the tool's owner, and the two together ask a human.  `Unspent` and
  `Serial` give `SerialApprovalsSpentOnce`.  `InOrder` describes a run nobody was cut off in:
  `Settled` when nobody works on it, and `Phase` of the one request that does; it yields
  `PausedIsDecidable` and `LastEventTellsStatus`, although a pause is three writes
  (status, approval, guard step), and the statement behind each of them may throw.
* `SetupInvariant`: a request carries its own run or one an approval resumed (`CarriesOK`), the
  employee and workspace of a run still fit each other (`RunOK`, `EditOK`), and a trace that is not
  `Shared` belongs to one request and so to one run (`TracedOK`, `EventsOK`).
* `RulesInvariant`: the rules of a cache entry were in force at most one tick before it was stored,
  since an edit or a tick may fall between a load and its store (`LoadOK`, `EntryOK`); and an entry
  is not served at the tick its lifetime ends, so no verdict is more than a lifetime behind.
* `PlaygroundInvariant`.  `World`: every row of a session, but for what is excused, is one a recycling from
  the beginning would find (`Found`) or a role that one under way has still to delete
  (`RolePromised`), although the tick and the sweep may delete the same workspace at once and skip
  what the other has deleted; `NoTrace` follows when both have gone.  `Limits`: a window counts all that ran since it
  began, and what of the last hour is older than the window fitted in the one before (`Fits`), so
  fixed windows admit twice the limit and not more; one creation at a time holds a free seat.
* `PageInvariant`: an answer that still counts is about the employee of the route (`Awaited`), and
  so is a save in flight and the reload behind it (`SavesRoute`).
* `TurnInvariant`: a call under way fits what is left (`CallFits`), steps, dropped answers and the
  turn under way add up to what was reported (`Accounted`), an answer acted on was validated (`Understood`).

**How the proofs are laid out.**  One lemma per action and, under it, one step per part the action
can disturb; frame lemmas say once what a step leaves alone (`OthersInHand`, `OtherRuns` and
`StepKeeps` in `AgentRuntimeProofs`, for example: a request's step keeps what other requests hold
because approvals keep their tools, grants are kept and histories only grow).

**Inductions over data.**  The theorems of the library that take a predicate cannot be used, but
that a non-empty set of numbers has a least element (`WFMin`, from the well-foundedness of `<`)
can, for a set a proof defines.  From it follow that the tokens of a history with one step more are
the old sum and the new step's; that the approved call's index follows all others; that the sums over
an hour's counts exist and how they change; that the reduce over the matched rules returns one of the
strictest; and what the parser's loops return.  For `OrderIrrelevant` the lemmas build
the recursive functions up to any length (`InlinesExist`, `ReadingsExist`), then show that `k` files
leave no error exactly when each is sound by itself and no two declare the same object or field, and
that the parse then holds what they declare (`ReadFrom`).  Neither depends on an order.

**Only model-checked.**

* Liveness (`UnpausedCallsFinish`, `ApprovedAgentResumes`, `RunsSettle`, `ExportedWhileOrdered`,
  `SessionsRecycled`, `FeedCatchesUp`, `PanelCatchesUp`, `PagesCatchUp`): fairness is beyond the
  prover, and so is ENABLED.
* The finding of `approved_calls`, which is a counterexample.

## 6. Not modelled

* Planning, prompt text, learning events and user-facing error texts of the backend executor:
  they change no state a property is about.  Governed flows, durable approved calls and the
  context manifests are ports whose implementations are not in the repository.  The close-out
  after the terminal event (learning events, evaluation, memory) goes to optional ports.
* Registration of the tool catalogue, wiring, start-up, the scripted demo model: they happen once,
  before any request.
* The allow-list resolver, data scope, field masking, RAG authorization, the governor's
  `checkAndIncrement` and the canonical and redacting forms: exported functions that nothing
  in the repository calls, or that only change payloads.
* Growth and insights: sums over rows at each request.  JSX, styles and translations.  The dashboard's
  views that load once and show.  Sign-in, the audit list, tabs and copying on the demo pages.
* The n8n, Dify and dsh adapters (single HTTP calls to the gate), build scripts, and the generated
  migration apart from its foreign keys.
* The outbox's consumers, which are not in the repository, and NOTIFY.
