--------------------------- MODULE PlatformProofs ---------------------------
(***************************************************************************)
(* TLAPS proofs about the parts of the backend that MCPlatform checks      *)
(* together, and about the console in front of them.  RunSetup: for any    *)
(* number of requests, users, employees and rules, tools run under the     *)
(* role of who started the run or of a bound employee, and events can be   *)
(* attributed wherever the caller did not make traces common.              *)
(* MetadataPlan: a plan replayed on any workspace leads to what any upload *)
(* describes, and the order of its files does not matter.  GuardrailRules: *)
(* a verdict follows from rules that were in force when its evaluation     *)
(* began, or, from the cache, within its lifetime.  Dashboard: whatever    *)
(* answers come late, the employee page is about the employee of its route *)
(* and keeps unsaved edits.                                                *)
(***************************************************************************)
EXTENDS RunSetup, MetadataPlan, GuardrailRules, Dashboard,
        SequenceTheorems, FiniteSetTheorems, WellFoundedInduction, TLAPS

----------------------------------------------------------------------------
(* The invariant *)

Labels == {"idle", "open", "create", "update", "execute", "setup", "approved", "loop", "done", "refused"}

\* A request that carries a run.
Active == {"execute", "setup", "approved", "loop"}

Known(x) == x \in Requests /\ executions[x] \in Execution

\* The role a run's tools belong under.
OwnRole(x) ==
    IF agents[executions[x].agent].bound THEN ServiceRole ELSE RoleOf[executions[x].triggeredBy]

\* An employee is run by users of its workspace.
RunOK(x) ==
    executions[x] \in Execution =>
        /\ executions[x].agent \in DOMAIN agents
        /\ agents[executions[x].agent].workspace = executions[x].workspace
        /\ executions[x].workspace = WorkspaceOf[executions[x].triggeredBy]

\* What a request read of an employee it is about to change is still true, as
\* far as nobody changes it.
EditOK(q) ==
    /\ At(q, "create") => req[q].draft \in Agent
    /\ At(q, "update") =>
           /\ req[q].agent \in DOMAIN agents
           /\ req[q].draft \in Agent
           /\ req[q].draft.bound = agents[req[q].agent].bound
           /\ req[q].draft.workspace = agents[req[q].agent].workspace

\* A request has arrived, in an HTTP request that nobody else's is named after,
\* and takes on a run of its own, started by its user, or one that an approval
\* resumed.
CarriesOK(q) ==
    /\ At(q, "idle") => arrivals[q] = None
    /\ At(q, "open") =>
           /\ arrivals[q] \in Arrival
           /\ req[q].approval = None /\ req[q].context.execution = None
    /\ req[q].pc \in {"idle", "open"} => executions[q] \notin Execution
    /\ req[q].pc \in Active =>
           /\ Known(req[q].execution)
           /\ req[q].user \in Users
           /\ IF req[q].approval = None
              THEN /\ req[q].execution = q
                   /\ req[q].user = executions[q].triggeredBy
              ELSE req[q].approval \in DOMAIN approvals
    /\ At(q, "approved") => req[q].approval # None
    /\ req[q].pc \in {"approved", "loop"} =>
           req[q].setup \in Setup /\ req[q].setup.role = OwnRole(req[q].execution)

\* A trace that is not shared is found in the contexts of one request only.
Mine(context, q) == Shared(context.trace) \/ context.trace[1] = q
Under(e, q) == ~Shared(e.context.trace) /\ e.context.trace[1] = q

\* Events are written under traces of requests, and a request has one run.
TracedOK(q) ==
    /\ req[q].pc \in Active \cup {"open"} =>
           /\ req[q].context \in Context
           /\ Mine(req[q].context, q)
           /\ req[q].context.execution \in {None, req[q].execution}
    /\ \A e \in events : Under(e, q) =>
           /\ req[q].pc \in Active \cup {"done"}
           /\ req[q].pc \in Active => e.aggregate = req[q].execution

EventsOK ==
    /\ \A e, f \in events :
           /\ ~Shared(e.context.trace) /\ ~Shared(f.context.trace)
           /\ e.context.trace[1] = f.context.trace[1]
           => e.aggregate = f.aggregate
    /\ \A e \in events : e.context.execution \in {None, e.aggregate}

SetupInvariant ==
    /\ TypeOK
    /\ \A q \in Requests : RunOK(q) /\ EditOK(q) /\ CarriesOK(q) /\ TracedOK(q)
    /\ \A i \in DOMAIN approvals : Known(approvals[i].execution)
    /\ \A t \in toolRuns : Known(t.execution) /\ t.role = OwnRole(t.execution)
    /\ EventsOK

----------------------------------------------------------------------------
(* A step of one request *)

RunType == [execution : Requests, role : STRING, approval : Nat \cup {None}]

\* The type invariant, piece by piece.
LEMMA Types ==
    ASSUME TypeOK
    PROVE  /\ agents \in Seq(Agent) /\ approvals \in Seq(Approval)
           /\ \A a \in DOMAIN agents : agents[a] \in Agent /\ a \in Nat
           /\ \A i \in DOMAIN approvals : approvals[i] \in Approval /\ i \in Nat
           /\ \A x \in Requests : executions[x] \in Execution \cup {None} /\ req[x] \in Request
           /\ executions \in [Requests -> Execution \cup {None}]
           /\ arrivals \in [Requests -> Arrival \cup {None}]
           /\ req \in [Requests -> Request]
           /\ events \subseteq Event /\ toolRuns \subseteq RunType
  BY DEF TypeOK, RunType

\* The fields of a request.
LEMMA RequestFields ==
    ASSUME NEW r \in Request
    PROVE  /\ r.pc \in Labels /\ r.user \in Users \cup {None}
           /\ r.execution \in Requests \cup {None} /\ r.approval \in Nat \cup {None}
           /\ r.context \in Context \cup {None} /\ r.setup \in Setup \cup {None}
           /\ r.agent \in Nat \cup {None} /\ r.draft \in Agent \cup {None}
  BY DEF Request, Labels

\* Employees keep their identity, runs theirs, and approvals their subject.
AgentsGrow ==
    \A a \in DOMAIN agents :
        /\ a \in DOMAIN agents'
        /\ agents'[a].bound = agents[a].bound
        /\ agents'[a].workspace = agents[a].workspace

RunsGrow(q) ==
    \A x \in Requests :
        /\ executions[x] \in Execution =>
               /\ executions'[x] \in Execution
               /\ executions'[x].agent = executions[x].agent
               /\ executions'[x].workspace = executions[x].workspace
               /\ executions'[x].triggeredBy = executions[x].triggeredBy
        /\ x # q /\ executions[x] \notin Execution => executions'[x] = executions[x]

ApprovalsGrow ==
    \A i \in DOMAIN approvals :
        /\ i \in DOMAIN approvals'
        /\ approvals'[i].execution = approvals[i].execution

\* Requests keep the HTTP request they arrived in, and traces stay shared.
ArrivalsGrow(q) ==
    /\ \A p \in Requests \ {q} : arrivals'[p] = arrivals[p]
    /\ \A trace : Shared(trace) => Shared(trace)'

\* A step of request q, which writes events under traces of its own.
StepOf(q) ==
    /\ ArrivalsGrow(q)
    /\ AgentsGrow /\ RunsGrow(q) /\ ApprovalsGrow
    /\ \A p \in Requests \ {q} : req'[p] = req[p]
    /\ events \subseteq events'
    /\ \A e \in events' \ events : Mine(e.context, q)

\* A known run stays known, under the same role.
LEMMA KnownStays ==
    ASSUME SetupInvariant, NEW q \in Requests, StepOf(q), NEW x, Known(x)
    PROVE  /\ Known(x)' /\ OwnRole(x)' = OwnRole(x)
           /\ executions'[x].triggeredBy = executions[x].triggeredBy
           /\ RunOK(x)'
<1>1. x \in Requests /\ executions[x] \in Execution /\ RunOK(x)
  BY DEF Known, SetupInvariant
<1>2. /\ executions'[x] \in Execution
      /\ executions'[x].agent = executions[x].agent
      /\ executions'[x].workspace = executions[x].workspace
      /\ executions'[x].triggeredBy = executions[x].triggeredBy
  BY <1>1 DEF StepOf, RunsGrow
<1>3. executions[x].agent \in DOMAIN agents
  BY <1>1 DEF RunOK
<1>4. /\ executions[x].agent \in DOMAIN agents'
      /\ agents'[executions[x].agent].bound = agents[executions[x].agent].bound
      /\ agents'[executions[x].agent].workspace = agents[executions[x].agent].workspace
  BY <1>3 DEF StepOf, AgentsGrow
<1>5. OwnRole(x)' = OwnRole(x)
  BY <1>2, <1>4 DEF OwnRole
<1>6. RunOK(x)'
  BY <1>1, <1>2, <1>4 DEF RunOK
<1>7. QED  BY <1>1, <1>2, <1>5, <1>6 DEF Known

\* The other requests keep what they hold.
LEMMA OthersKeep ==
    ASSUME SetupInvariant, NEW q \in Requests, StepOf(q), NEW p \in Requests \ {q}
    PROVE  EditOK(p)' /\ CarriesOK(p)' /\ TracedOK(p)' /\ RunOK(p)'
<1>1. EditOK(p) /\ CarriesOK(p) /\ TracedOK(p) /\ RunOK(p) /\ req'[p] = req[p] /\ p # q
  BY DEF SetupInvariant, StepOf
<1>2. EditOK(p)'
  BY <1>1 DEF EditOK, At, StepOf, AgentsGrow
<1>3. RunOK(p)'
  <2>1. CASE executions[p] \in Execution
    BY <2>1, KnownStays DEF Known
  <2>2. CASE executions[p] \notin Execution
    BY <1>1, <2>2 DEF StepOf, RunsGrow, RunOK
  <2>3. QED  BY <2>1, <2>2
<1>4. CarriesOK(p)'
  <2>1. req[p].pc \in {"idle", "open"} => executions'[p] \notin Execution
    BY <1>1 DEF CarriesOK, StepOf, RunsGrow
  <2>2. PICK x : x = req[p].execution /\ x = req'[p].execution
    BY <1>1
  <2>3. ASSUME req[p].pc \in Active
        PROVE  /\ Known(x) /\ Known(x)' /\ OwnRole(x)' = OwnRole(x)
               /\ executions'[x].triggeredBy = executions[x].triggeredBy
    <3>1. Known(x)
      BY <1>1, <2>2, <2>3 DEF CarriesOK
    <3>2. QED  BY <3>1, KnownStays
  <2>4. req[p].approval \in DOMAIN approvals => req[p].approval \in DOMAIN approvals'
    BY DEF StepOf, ApprovalsGrow
  <2>5. req[p].pc \in {"approved", "loop"} => req[p].pc \in Active
    BY DEF Active
  <2>6. /\ At(p, "idle")' => arrivals'[p] = None
        /\ At(p, "open")' =>
               /\ arrivals'[p] \in Arrival
               /\ req'[p].approval = None /\ req'[p].context.execution = None
        /\ req'[p].pc \in {"idle", "open"} => executions'[p] \notin Execution
    BY <1>1, <2>1 DEF CarriesOK, At, StepOf, ArrivalsGrow
  <2>7. req'[p].pc \in Active =>
           /\ Known(x)'
           /\ req'[p].user \in Users
           /\ IF req'[p].approval = None
              THEN /\ req'[p].execution = p
                   /\ req'[p].user = executions'[p].triggeredBy
              ELSE req'[p].approval \in DOMAIN approvals'
    BY <1>1, <2>2, <2>3, <2>4 DEF CarriesOK
  <2>8. req'[p].pc \in {"approved", "loop"} =>
           req'[p].setup \in Setup /\ req'[p].setup.role = OwnRole(x)'
    BY <1>1, <2>2, <2>3, <2>5 DEF CarriesOK
  <2>9. At(p, "approved")' => req'[p].approval # None
    BY <1>1 DEF CarriesOK, At
  <2>10. QED  BY <2>2, <2>6, <2>7, <2>8, <2>9 DEF CarriesOK, Known, OwnRole
<1>5. TracedOK(p)'
  <2>1. Mine(req[p].context, p) => Mine(req[p].context, p)'
    BY <1>1 DEF Mine, StepOf, ArrivalsGrow
  <2>2. ASSUME NEW e \in events', Under(e, p)' PROVE e \in events /\ Under(e, p)
    <3>1. Under(e, p)
      BY <2>2 DEF Under, StepOf, ArrivalsGrow
    <3>2. ~Mine(e.context, q)
      BY <1>1, <3>1 DEF Under, Mine
    <3>3. QED  BY <2>2, <3>1, <3>2 DEF StepOf
  <2>3. QED  BY <1>1, <2>1, <2>2 DEF TracedOK
<1>6. QED  BY <1>2, <1>3, <1>4, <1>5

\* The invariant after a step of request q.
LEMMA StepKeeps ==
    ASSUME SetupInvariant, NEW q \in Requests, StepOf(q), TypeOK',
           RunOK(q)', EditOK(q)', CarriesOK(q)', TracedOK(q)',
           \A i \in DOMAIN approvals' \ DOMAIN approvals : Known(approvals[i].execution)',
           \A t \in toolRuns' \ toolRuns : Known(t.execution)' /\ t.role = OwnRole(t.execution)',
           EventsOK'
    PROVE  SetupInvariant'
<1>1. \A p \in Requests : (RunOK(p) /\ EditOK(p) /\ CarriesOK(p) /\ TracedOK(p))'
  BY OthersKeep
<1>2. ASSUME NEW i \in DOMAIN approvals' PROVE Known(approvals[i].execution)'
  <2>1. CASE i \in DOMAIN approvals
    <3>1. PICK x : x = approvals[i].execution /\ x = approvals'[i].execution
      BY <2>1 DEF StepOf, ApprovalsGrow
    <3>2. Known(x)
      BY <2>1, <3>1 DEF SetupInvariant
    <3>3. Known(x)'
      BY <3>2, KnownStays
    <3>4. QED  BY <3>1, <3>3 DEF Known
  <2>2. QED  BY <2>1
<1>3. ASSUME NEW t \in toolRuns' PROVE Known(t.execution)' /\ t.role = OwnRole(t.execution)'
  <2>1. CASE t \in toolRuns
    <3>1. Known(t.execution) /\ t.role = OwnRole(t.execution)
      BY <2>1 DEF SetupInvariant
    <3>2. Known(t.execution)' /\ OwnRole(t.execution)' = OwnRole(t.execution)
      BY <3>1, KnownStays
    <3>3. QED  BY <3>1, <3>2
  <2>2. QED  BY <2>1
<1>4. (\A i \in DOMAIN approvals : Known(approvals[i].execution))'
  BY <1>2
<1>5. (\A t \in toolRuns : Known(t.execution) /\ t.role = OwnRole(t.execution))'
  BY <1>3
<1>6. QED  BY <1>1, <1>4, <1>5 DEF SetupInvariant

\* A request that carries nothing.
LEMMA BareRequest ==
    ASSUME NEW label \in Labels
    PROVE  Bare(label) \in Request /\ Bare(label).pc = label
  BY DEF Bare, Request, Labels

\* What it means for a request to hold something.
LEMMA HoldRequest ==
    ASSUME TypeOK, NEW q \in Requests, NEW held \in Request, Hold(q, held)
    PROVE  /\ req' \in [Requests -> Request]
           /\ req'[q] = held
           /\ \A p \in Requests \ {q} : req'[p] = req[p]
  BY Types DEF Hold

\* Traces are shared by what has arrived.
LEMMA TracesStay ==
    ASSUME UNCHANGED arrivals, NEW q
    PROVE  /\ \A context : Mine(context, q)' <=> Mine(context, q)
           /\ \A e : Under(e, q)' <=> Under(e, q)
  BY DEF Mine, Under, Shared, Arrived

\* Tables that stay as they are.
LEMMA TablesStay ==
    ASSUME NEW q
    PROVE  /\ UNCHANGED agents => AgentsGrow
           /\ UNCHANGED executions => RunsGrow(q)
           /\ UNCHANGED approvals => ApprovalsGrow
           /\ UNCHANGED <<agents, executions>> => \A x : RunOK(x) => RunOK(x)'
           /\ UNCHANGED arrivals => ArrivalsGrow(q)
           /\ UNCHANGED <<arrivals, events>> /\ EventsOK => EventsOK'
<1>1. UNCHANGED agents => AgentsGrow
  BY DEF AgentsGrow
<1>2. UNCHANGED executions => RunsGrow(q)
  BY DEF RunsGrow
<1>3. UNCHANGED approvals => ApprovalsGrow
  BY DEF ApprovalsGrow
<1>4. UNCHANGED <<agents, executions>> => \A x : RunOK(x) => RunOK(x)'
  BY DEF RunOK
<1>5. UNCHANGED arrivals => ArrivalsGrow(q)
  BY DEF ArrivalsGrow, Shared, Arrived
<1>6. UNCHANGED <<arrivals, events>> /\ EventsOK => EventsOK'
  BY DEF EventsOK, Shared, Arrived
<1>7. QED  BY <1>1, <1>2, <1>3, <1>4, <1>5, <1>6

\* A request answers, having written events about at most one run.
LEMMA AnswerKeeps ==
    ASSUME SetupInvariant, NEW q \in Requests, NEW label \in {"done", "refused"},
           Answer(q, label),
           AgentsGrow, RunsGrow(q), ApprovalsGrow, RunOK(q)', UNCHANGED arrivals,
           agents' \in Seq(Agent) /\ Len(agents') <= MaxAgents,
           executions' \in [Requests -> Execution \cup {None}], approvals' \in Seq(Approval),
           events' \subseteq Event, toolRuns' = toolRuns,
           events \subseteq events', \A e \in events' \ events : Mine(e.context, q),
           (\E e \in events' : Under(e, q)) => label = "done",
           \A i \in DOMAIN approvals' \ DOMAIN approvals : Known(approvals[i].execution)',
           EventsOK'
    PROVE  SetupInvariant'
<1>1. TypeOK
  BY DEF SetupInvariant
<1>2. label \in Labels /\ label \notin Active /\ label \notin {"idle", "open", "create", "update", "approved", "loop"}
  BY DEF Labels, Active
<1>3. Bare(label) \in Request
  BY <1>2, BareRequest
<1>4. /\ req' \in [Requests -> Request] /\ req'[q] = Bare(label)
      /\ \A p \in Requests \ {q} : req'[p] = req[p]
  BY <1>1, <1>3, HoldRequest DEF Answer
<1>5. TypeOK'
  BY <1>1, <1>4 DEF TypeOK
<1>6. req'[q].pc = label
  BY <1>2, <1>4, BareRequest
<1>7. EditOK(q)' /\ CarriesOK(q)'
  BY <1>2, <1>6 DEF EditOK, CarriesOK, At
<1>8. TracedOK(q)'
  BY <1>2, <1>6, TracesStay DEF TracedOK
<1>9. StepOf(q)
  BY <1>4, TablesStay DEF StepOf
<1>10. QED  BY <1>5, <1>7, <1>8, <1>9, StepKeeps

\* A request that has arrived and is not served yet.
LEMMA OpenRequest ==
    ASSUME SetupInvariant, NEW q \in Requests, At(q, "open")
    PROVE  /\ arrivals[q] \in Arrival /\ executions[q] \notin Execution
           /\ \A e \in events : ~Under(e, q)
           /\ req[q] \in Request /\ req[q].context \in Context /\ Mine(req[q].context, q)
           /\ req[q].context.execution = None /\ req[q].approval = None
<1>1. CarriesOK(q) /\ TracedOK(q) /\ TypeOK
  BY DEF SetupInvariant
<1>2. req[q] \in Request
  BY <1>1, Types
<1>3. "open" \notin Active \cup {"done"}
  BY DEF Active
<1>4. QED  BY <1>1, <1>2, <1>3 DEF CarriesOK, TracedOK, At

\* A refused mutation changes nothing.
LEMMA RefuseKeeps ==
    ASSUME SetupInvariant, NEW q \in Requests, At(q, "open"), Answer(q, "refused"),
           UNCHANGED <<arrivals, agents, executions, approvals, events, toolRuns>>
    PROVE  SetupInvariant'
<1>1. TypeOK /\ RunOK(q)  /\ EventsOK
  BY DEF SetupInvariant
<1>2. AgentsGrow /\ RunsGrow(q) /\ ApprovalsGrow /\ RunOK(q)'  /\ EventsOK'
  BY <1>1, TablesStay
<1>3. \A e \in events : ~Under(e, q)
  BY OpenRequest
<1>4. QED  BY <1>1, <1>2, <1>3, AnswerKeeps DEF TypeOK

\* A mutation arrives: nothing is written under its traces yet, and it has a
\* trace of its own unless the caller, or an earlier mutation, brought it.
LEMMA ArriveKeeps ==
    ASSUME SetupInvariant, NEW q \in Requests, NEW arrival \in Arrival, Arrive(q, arrival),
           \/ arrival.http = q
           \/ \E p \in Arrived : arrival = arrivals[p]
    PROVE  SetupInvariant'
<1>1. TypeOK /\ RunOK(q) /\ CarriesOK(q) /\ TracedOK(q) /\ EventsOK
  BY DEF SetupInvariant
<1>2. At(q, "idle") /\ arrivals[q] = None /\ executions[q] \notin Execution
      /\ arrivals \in [Requests -> Arrival \cup {None}]
      /\ UNCHANGED <<agents, executions, approvals, events, toolRuns>>
  BY <1>1, Types DEF Arrive, CarriesOK, At
<1>3. PICK context : context = RequestContext(arrival)
  OBVIOUS
<1>4. context \in Context /\ context.execution = None
      /\ context.trace = IF arrival.header = None THEN <<arrival.http, "request">> ELSE arrival.header
  <2>1. arrival.http \in Requests /\ arrival.header \in Trace \cup {None}
    BY DEF Arrival
  <2>2. <<arrival.http, "request">> \in Trace
    BY <2>1 DEF Trace
  <2>3. QED  BY <1>3, <2>1, <2>2 DEF RequestContext, Given, Context
<1>5. PICK held : held = [Bare("open") EXCEPT !.user = arrival.user, !.context = context]
  OBVIOUS
<1>6. /\ held \in Request /\ held.pc = "open" /\ held.context = context
      /\ held.approval = None
  BY <1>4, <1>5 DEF Bare, Request, Arrival
<1>7. Hold(q, held) /\ arrivals' = [arrivals EXCEPT ![q] = arrival]
  BY <1>3, <1>5 DEF Arrive
<1>8. /\ req' \in [Requests -> Request] /\ req'[q] = held
      /\ \A p \in Requests \ {q} : req'[p] = req[p]
  BY <1>1, <1>6, <1>7, HoldRequest
<1>9. /\ arrivals' \in [Requests -> Arrival \cup {None}] /\ arrivals'[q] = arrival
      /\ \A p \in Requests \ {q} : arrivals'[p] = arrivals[p]
  BY <1>2, <1>7
<1>10. TypeOK'
  BY <1>1, <1>2, <1>8, <1>9 DEF TypeOK
<1>11. q \in Arrived' /\ (\A p \in Arrived : p \in Arrived' /\ p # q /\ arrivals'[p] = arrivals[p])
  BY <1>2, <1>9, RowAssumption DEF Arrived, Arrival
<1>12. ArrivalsGrow(q)
  BY <1>9, <1>11 DEF ArrivalsGrow, Shared
<1>13. Mine(context, q)'
  <2>1. CASE arrival.header # None
    BY <1>4, <1>9, <1>11, <2>1 DEF Mine, Shared
  <2>2. CASE arrival.header = None /\ arrival.http = q
    BY <1>4, <2>2 DEF Mine
  <2>3. CASE arrival.header = None /\ arrival.http # q
    <3>1. PICK p \in Arrived : arrival = arrivals[p]
      BY <2>3
    <3>2. p \in Arrived' /\ p # q /\ arrivals'[p].http = arrivals'[q].http
      BY <1>9, <1>11, <3>1
    <3>3. QED  BY <1>4, <1>9, <1>11, <2>3, <3>2 DEF Mine, Shared
  <2>4. QED  BY <2>1, <2>2, <2>3
<1>14. \A e \in events : Under(e, q)' => Under(e, q)
  BY <1>12 DEF Under, ArrivalsGrow
<1>15. \A e \in events : ~Under(e, q)
  BY <1>1, <1>2 DEF TracedOK, At, Active
<1>16. TracedOK(q)'
  BY <1>2, <1>4, <1>6, <1>8, <1>13, <1>14, <1>15 DEF TracedOK
<1>17. CarriesOK(q)' /\ EditOK(q)'
  BY <1>2, <1>4, <1>6, <1>8, <1>9 DEF CarriesOK, EditOK, At, Active
<1>18. EventsOK'
  BY <1>1, <1>2, <1>12 DEF EventsOK, ArrivalsGrow
<1>19. AgentsGrow /\ RunsGrow(q) /\ ApprovalsGrow /\ RunOK(q)'
  BY <1>1, <1>2, TablesStay
<1>20. StepOf(q)
  BY <1>2, <1>8, <1>12, <1>19 DEF StepOf
<1>21. QED  BY <1>2, <1>10, <1>16, <1>17, <1>18, <1>19, <1>20, StepKeeps

----------------------------------------------------------------------------
(* The employees *)

\* What a mutation makes of an employee is one, with the same identity.
LEMMA PatchedAgent ==
    ASSUME NEW agent \in Agent, NEW input \in Inputs
    PROVE  /\ Patched(agent, input) \in Agent
           /\ Patched(agent, input).bound = agent.bound
           /\ Patched(agent, input).workspace = agent.workspace
<1>1. /\ input.allowed \in {None} \cup (SUBSET Tools)
      /\ input.rules \in {None} \cup Seq(Rule)
      /\ input.execution \in {None} \cup Constraints
  BY RowAssumption
<1>2. /\ agent.allowed \in SUBSET Tools /\ agent.rules \in Seq(Rule)
      /\ agent.execution \in Constraints
  BY DEF Agent
<1>3. Given(input.allowed, agent.allowed) \in SUBSET Tools
      /\ Given(input.rules, agent.rules) \in Seq(Rule)
  BY <1>1, <1>2 DEF Given
<1>4. input.execution # None => Merged(agent.execution, input.execution) \in Constraints
  BY <1>1, <1>2 DEF Merged, Given, Constraints
<1> DEFINE execution == IF input.execution = None THEN agent.execution
                        ELSE Merged(agent.execution, input.execution)
<1>5. execution \in Constraints
  BY <1>2, <1>4
<1>6. Patched(agent, input) = [agent EXCEPT !.allowed = Given(input.allowed, agent.allowed),
                                            !.rules = Given(input.rules, agent.rules),
                                            !.execution = execution]
  BY DEF Patched
<1> HIDE DEF execution
<1>7. QED  BY <1>3, <1>5, <1>6 DEF Agent

\* A request that has not been served goes to prepare an edit.
LEMMA PrepareKeeps ==
    ASSUME SetupInvariant, NEW q \in Requests, At(q, "open"), NEW label \in {"create", "update"},
           NEW user \in Users, NEW a \in Nat \cup {None}, NEW draft \in Agent,
           Hold(q, [req[q] EXCEPT !.pc = label, !.user = user, !.agent = a, !.draft = draft]),
           UNCHANGED <<arrivals, agents, executions, approvals, events, toolRuns>>,
           label = "update" => /\ a \in DOMAIN agents
                               /\ draft.bound = agents[a].bound
                               /\ draft.workspace = agents[a].workspace
    PROVE  SetupInvariant'
<1> DEFINE held == [req[q] EXCEPT !.pc = label, !.user = user, !.agent = a, !.draft = draft]
<1>1. TypeOK /\ RunOK(q)  /\ EventsOK
  BY DEF SetupInvariant
<1>2. /\ AgentsGrow /\ RunsGrow(q) /\ ApprovalsGrow /\ RunOK(q)'
      /\ EventsOK'
  BY <1>1, TablesStay
<1>3. /\ req[q] \in Request /\ Mine(req[q].context, q) /\ req[q].context.execution = None
      /\ \A e \in events : ~Under(e, q)
  BY OpenRequest
<1>4. held \in Request /\ held.pc = label /\ held.agent = a /\ held.draft = draft
      /\ held.context = req[q].context
  <2>1. PICK r \in Request : r = req[q]
    BY <1>3
  <2>2. PICK h : h = [r EXCEPT !.pc = label, !.user = user, !.agent = a, !.draft = draft]
    OBVIOUS
  <2>3. h = held
    BY <2>1, <2>2
  <2>4. h \in Request /\ h.pc = label /\ h.agent = a /\ h.draft = draft /\ h.context = r.context
    BY <2>2 DEF Request
  <2> HIDE DEF held
  <2>5. QED  BY <2>1, <2>3, <2>4
<1> HIDE DEF held
<1>5. /\ req' \in [Requests -> Request] /\ req'[q] = held
      /\ \A p \in Requests \ {q} : req'[p] = req[p]
  BY <1>1, <1>4, HoldRequest DEF held
<1>6. TypeOK'
  BY <1>1, <1>5 DEF TypeOK
<1>7. label \notin Active /\ label \notin {"idle", "open", "approved", "loop"}
  BY DEF Active
<1>8. EditOK(q)' /\ CarriesOK(q)' /\ TracedOK(q)'
  BY <1>3, <1>4, <1>5, <1>7, TracesStay DEF EditOK, CarriesOK, TracedOK, At
<1>9. StepOf(q)
  BY <1>2, <1>5, TablesStay DEF StepOf
<1>10. QED  BY <1>2, <1>6, <1>8, <1>9, StepKeeps

\* createAgent validates and prepares a row.
LEMMA CreateAgentKeeps ==
    ASSUME SetupInvariant, NEW q \in Requests, NEW user \in Users, NEW apiName \in ApiNames,
           NEW input \in Inputs, CreateAgent(q, user, apiName, input)
    PROVE  SetupInvariant'
<1> DEFINE draft == [workspace |-> WorkspaceOf[user], apiName |-> apiName, bound |-> FALSE,
                     allowed |-> Given(input.allowed, {}), rules |-> Given(input.rules, <<>>),
                     execution |-> Given(input.execution, NoConstraints)]
<1>1. At(q, "open") /\ UNCHANGED <<arrivals, agents, executions, approvals, events, toolRuns>>
  BY DEF CreateAgent
<1>2. draft \in Agent
  <2>1. /\ input.allowed \in {None} \cup (SUBSET Tools)
        /\ input.rules \in {None} \cup Seq(Rule)
        /\ input.execution \in {None} \cup Constraints
    BY RowAssumption
  <2>2. <<>> \in Seq(Rule) /\ NoConstraints \in Constraints /\ WorkspaceOf[user] \in STRING
    BY SetupAssumption DEF NoConstraints, Constraints
  <2>3. /\ Given(input.allowed, {}) \in SUBSET Tools /\ Given(input.rules, <<>>) \in Seq(Rule)
        /\ Given(input.execution, NoConstraints) \in Constraints
    BY <2>1, <2>2 DEF Given
  <2>4. QED  BY <2>2, <2>3 DEF Agent
<1>3. CASE Answer(q, "refused")
  BY <1>1, <1>3, RefuseKeeps
<1>4. CASE ~Answer(q, "refused")
  <2>1. Hold(q, [req[q] EXCEPT !.pc = "create", !.user = user, !.draft = draft])
    BY <1>4 DEF CreateAgent
  <2>2. req[q] \in Request /\ req[q].agent \in Nat \cup {None}
    BY <1>1, OpenRequest, RequestFields
  <2> HIDE DEF draft
  <2>3. [req[q] EXCEPT !.pc = "create", !.user = user, !.draft = draft]
        = [req[q] EXCEPT !.pc = "create", !.user = user, !.agent = req[q].agent, !.draft = draft]
    BY <2>2 DEF Request
  <2>4. Hold(q, [req[q] EXCEPT !.pc = "create", !.user = user, !.agent = req[q].agent,
                               !.draft = draft])
    BY <2>1, <2>3
  <2>5. QED  BY <1>1, <1>2, <2>2, <2>4, PrepareKeeps
<1>5. QED  BY <1>3, <1>4

\* updateAgentConfig reads the row it will write back.
LEMMA UpdateAgentConfigKeeps ==
    ASSUME SetupInvariant, NEW q \in Requests, NEW user \in Users, NEW a \in DOMAIN agents,
           NEW input \in Inputs, UpdateAgentConfig(q, user, a, input)
    PROVE  SetupInvariant'
<1>1. At(q, "open") /\ UNCHANGED <<arrivals, agents, executions, approvals, events, toolRuns>> /\ TypeOK
  BY DEF UpdateAgentConfig, SetupInvariant
<1>2. agents[a] \in Agent /\ a \in Nat
  BY <1>1, Types
<1>3. CASE Answer(q, "refused")
  BY <1>1, <1>3, RefuseKeeps
<1>4. CASE ~Answer(q, "refused")
  <2>1. Hold(q, [req[q] EXCEPT !.pc = "update", !.user = user, !.agent = a,
                               !.draft = Patched(agents[a], input)])
    BY <1>4 DEF UpdateAgentConfig
  <2>2. QED  BY <1>1, <1>2, <2>1, PatchedAgent, PrepareKeeps
<1>5. QED  BY <1>3, <1>4

\* The new employee is inserted.
LEMMA InsertAgentKeeps ==
    ASSUME SetupInvariant, NEW q \in Requests, InsertAgent(q)
    PROVE  SetupInvariant'
<1> DEFINE draft == req[q].draft
<1>1. TypeOK /\ RunOK(q) /\ EditOK(q)  /\ EventsOK
  BY DEF SetupInvariant
<1>2. agents \in Seq(Agent) /\ draft \in Agent /\ Len(agents) < MaxAgents
      /\ agents' = Append(agents, draft)
  BY <1>1, Types DEF InsertAgent, EditOK
<1> HIDE DEF draft
<1>3. agents' \in Seq(Agent) /\ Len(agents') <= MaxAgents
  BY <1>2, SetupAssumption
<1>4. AgentsGrow
  BY <1>2 DEF AgentsGrow
<1>5. UNCHANGED <<arrivals, executions, approvals, events, toolRuns>> /\ Answer(q, "done")
  BY DEF InsertAgent
<1>6. RunOK(q)'
  BY <1>1, <1>2, <1>4, <1>5 DEF RunOK, AgentsGrow
<1>7. QED  BY <1>1, <1>3, <1>4, <1>5, <1>6, TablesStay, AnswerKeeps DEF TypeOK

\* A changed employee is written back: nobody has changed its identity.
LEMMA WriteAgentConfigKeeps ==
    ASSUME SetupInvariant, NEW q \in Requests, WriteAgentConfig(q)
    PROVE  SetupInvariant'
<1> DEFINE draft == req[q].draft
           a == req[q].agent
<1>1. TypeOK /\ RunOK(q) /\ EditOK(q)  /\ EventsOK
  BY DEF SetupInvariant
<1>2. /\ agents \in Seq(Agent) /\ draft \in Agent /\ a \in DOMAIN agents
      /\ draft.bound = agents[a].bound /\ draft.workspace = agents[a].workspace
      /\ agents' = [agents EXCEPT ![a] = draft]
  BY <1>1, Types DEF WriteAgentConfig, EditOK
<1> HIDE DEF draft, a
<1>3. a \in 1..Len(agents)
  BY <1>2
<1>4. agents' \in Seq(Agent) /\ Len(agents') = Len(agents) /\ Len(agents) <= MaxAgents
  BY <1>1, <1>2, <1>3, ExceptSeq DEF TypeOK
<1>5. AgentsGrow
  BY <1>2 DEF AgentsGrow
<1>6. UNCHANGED <<arrivals, executions, approvals, events, toolRuns>> /\ Answer(q, "done")
  BY DEF WriteAgentConfig
<1>7. RunOK(q)'
  BY <1>1, <1>5, <1>6 DEF RunOK, AgentsGrow
<1>8. QED  BY <1>1, <1>4, <1>5, <1>6, <1>7, TablesStay, AnswerKeeps DEF TypeOK

----------------------------------------------------------------------------
(* The run *)

\* A request writes an event about the one run its events are about.
LEMMA EnqueueKeeps ==
    ASSUME SetupInvariant, NEW q \in Requests, NEW x \in Requests, NEW context \in Context,
           Mine(context, q), context.execution \in {None, x},
           \A e \in events : Under(e, q) => e.aggregate = x,
           events' = events \cup {[aggregate |-> x, context |-> context]}, UNCHANGED arrivals
    PROVE  /\ events' \subseteq Event /\ EventsOK' /\ events \subseteq events'
           /\ \A e \in events' \ events : Mine(e.context, q)
           /\ \A e \in events' : Under(e, q) => e.aggregate = x
<1> DEFINE new == [aggregate |-> x, context |-> context]
<1>1. new \in Event /\ new.aggregate = x /\ new.context = context
  BY DEF Event
<1>2. events \subseteq Event /\ EventsOK
  BY Types DEF SetupInvariant
<1> HIDE DEF new
<1>3. events' = events \cup {new}
  BY DEF new
<1>4. \A e \in events' \ events : Mine(e.context, q)
  BY <1>1, <1>3
<1>5. \A e \in events' : Under(e, q) => e.aggregate = x
  BY <1>1, <1>3 DEF Under
<1>6. EventsOK'
  <2>1. ASSUME NEW e \in events', NEW f \in events', e.context.trace[1] = f.context.trace[1],
               ~Shared(e.context.trace), ~Shared(f.context.trace)
        PROVE  e.aggregate = f.aggregate
    <3>1. CASE e \in events /\ f \in events
      BY <1>2, <2>1, <3>1 DEF EventsOK
    <3>2. CASE e \notin events \/ f \notin events
      <4>1. Under(e, q) /\ Under(f, q)
        BY <1>4, <2>1, <3>2 DEF Mine, Under
      <4>2. QED  BY <1>5, <4>1
    <3>3. QED  BY <3>1, <3>2
  <2>2. ASSUME NEW e \in events' PROVE e.context.execution \in {None, e.aggregate}
    BY <1>1, <1>2, <1>3 DEF EventsOK
  <2>3. QED  BY <2>1, <2>2 DEF EventsOK, Shared, Arrived
<1>7. QED  BY <1>1, <1>2, <1>3, <1>4, <1>5, <1>6

\* A run changes its status.
LEMMA StatusKeeps ==
    ASSUME SetupInvariant, NEW q \in Requests, NEW x, Known(x),
           NEW end \in {"pending", "guardrail_pending", "running", "done", "failed", "cancelled"},
           executions' = [executions EXCEPT ![x].status = end], UNCHANGED agents
    PROVE  /\ RunsGrow(q)
           /\ executions' \in [Requests -> Execution \cup {None}]
           /\ RunOK(q)'
           /\ \A y : Known(y) => Known(y)'
<1>1. TypeOK /\ RunOK(q) /\ x \in Requests /\ executions[x] \in Execution
  BY DEF SetupInvariant, Known
<1>2. PICK row \in Execution : row = executions[x]
  BY <1>1
<1>3. PICK new : new = [row EXCEPT !.status = end]
  OBVIOUS
<1>4. /\ new \in Execution /\ new.agent = row.agent /\ new.workspace = row.workspace
      /\ new.triggeredBy = row.triggeredBy
  BY <1>2, <1>3 DEF Execution
<1>5. executions' = [executions EXCEPT ![x] = new]
  BY <1>2, <1>3
<1>6. executions'[x] = new /\ (\A y \in Requests \ {x} : executions'[y] = executions[y])
      /\ executions' \in [Requests -> Execution \cup {None}]
  BY <1>1, <1>4, <1>5, Types
<1>7. RunsGrow(q)
  BY <1>1, <1>2, <1>4, <1>6 DEF RunsGrow
<1>8. RunOK(q)'
  BY <1>1, <1>2, <1>4, <1>6 DEF RunOK
<1>9. \A y : Known(y) => Known(y)'
  BY <1>4, <1>6 DEF Known
<1>10. QED  BY <1>6, <1>7, <1>8, <1>9

\* A request that carries a run.
LEMMA ActiveRequest ==
    ASSUME SetupInvariant, NEW q \in Requests, req[q].pc \in Active
    PROVE  /\ Known(req[q].execution) /\ req[q] \in Request /\ req[q].context \in Context
           /\ req[q].execution \in Requests
           /\ Mine(req[q].context, q)
           /\ req[q].context.execution \in {None, req[q].execution}
           /\ \A e \in events : Under(e, q) => e.aggregate = req[q].execution
           /\ RunOK(req[q].execution)
<1>1. TypeOK /\ CarriesOK(q) /\ TracedOK(q)
  BY DEF SetupInvariant
<1>2. Known(req[q].execution) /\ req[q].execution \in Requests
  BY <1>1 DEF CarriesOK, Known
<1>3. req[q] \in Request /\ req[q].context \in Context
  BY <1>1, Types DEF TracedOK
<1>4. RunOK(req[q].execution)
  BY <1>2 DEF SetupInvariant
<1>5. QED  BY <1>1, <1>2, <1>3, <1>4 DEF TracedOK

\* A request goes on with its run.
LEMMA RunStepKeeps ==
    ASSUME SetupInvariant, NEW q \in Requests, req[q].pc \in Active, NEW held \in Request,
           held.pc \in Active, held.execution = req[q].execution, held.user = req[q].user,
           held.approval = req[q].approval, Hold(q, held),
           held.pc \in {"approved", "loop"} =>
               held.setup \in Setup /\ held.setup.role = OwnRole(req[q].execution),
           held.pc = "approved" => held.approval # None,
           held.context \in Context, Mine(held.context, q),
           held.context.execution \in {None, req[q].execution},
           UNCHANGED <<arrivals, agents, executions, approvals>>,
           events' \subseteq Event, EventsOK', events \subseteq events',
           \A e \in events' \ events : Mine(e.context, q),
           \A e \in events' : Under(e, q) => e.aggregate = req[q].execution,
           toolRuns' \subseteq RunType,
           \A t \in toolRuns' \ toolRuns :
               t.execution = req[q].execution /\ t.role = OwnRole(req[q].execution)
    PROVE  SetupInvariant'
<1>1. TypeOK /\ RunOK(q) /\ CarriesOK(q)
  BY DEF SetupInvariant
<1>2. /\ req' \in [Requests -> Request] /\ req'[q] = held
      /\ \A p \in Requests \ {q} : req'[p] = req[p]
  BY <1>1, HoldRequest
<1>3. TypeOK'
  BY <1>1, <1>2 DEF TypeOK, RunType
<1>4. AgentsGrow /\ RunsGrow(q) /\ ApprovalsGrow /\ ArrivalsGrow(q) /\ RunOK(q)'
  BY <1>1, TablesStay
<1>5. StepOf(q)
  BY <1>2, <1>4 DEF StepOf
<1>6. PICK x : x = req[q].execution
  OBVIOUS
<1>7. Known(x) /\ Known(x)' /\ OwnRole(x)' = OwnRole(x)
      /\ executions'[x].triggeredBy = executions[x].triggeredBy
  BY <1>5, <1>6, ActiveRequest, KnownStays
<1>8. held.pc \notin {"idle", "open", "create", "update"}
  BY DEF Active
<1>9. EditOK(q)'
  BY <1>2, <1>8 DEF EditOK, At
<1>10. CarriesOK(q)'
  <2>1. /\ req[q].user \in Users
        /\ IF req[q].approval = None
           THEN req[q].execution = q /\ req[q].user = executions[q].triggeredBy
           ELSE req[q].approval \in DOMAIN approvals
    BY <1>1 DEF CarriesOK
  <2>2. /\ Known(x)' /\ req'[q].execution = x /\ req'[q].user \in Users
        /\ IF req'[q].approval = None
           THEN req'[q].execution = q /\ req'[q].user = executions'[q].triggeredBy
           ELSE req'[q].approval \in DOMAIN approvals'
    BY <1>2, <1>6, <1>7, <2>1
  <2>3. req'[q].pc \in {"approved", "loop"} =>
            req'[q].setup \in Setup /\ req'[q].setup.role = OwnRole(x)'
    BY <1>2, <1>6, <1>7
  <2>4. QED  BY <1>2, <1>8, <2>2, <2>3 DEF CarriesOK, At, Known, OwnRole
<1>11. TracedOK(q)'
  BY <1>2, TracesStay DEF TracedOK
<1>12. \A t \in toolRuns' \ toolRuns : Known(t.execution)' /\ t.role = OwnRole(t.execution)'
  <2>1. SUFFICES ASSUME NEW t \in toolRuns' \ toolRuns
                 PROVE  Known(t.execution)' /\ t.role = OwnRole(t.execution)'
    OBVIOUS
  <2>2. t.execution = x /\ t.role = OwnRole(x)
    BY <1>6
  <2>3. QED  BY <1>7, <2>2
<1>13. QED  BY <1>3, <1>4, <1>5, <1>9, <1>10, <1>11, <1>12, StepKeeps

\* A run is announced.
LEMMA StartedKeeps ==
    ASSUME SetupInvariant, NEW q \in Requests, Started(q)
    PROVE  SetupInvariant'
<1>1. req[q].pc = "execute" /\ "execute" \in Active /\ "setup" \in Active
      /\ UNCHANGED <<arrivals, agents, executions, approvals, toolRuns>>
      /\ events' = events \cup {[aggregate |-> req[q].execution, context |-> req[q].context]}
  BY DEF Started, At, Active, Enqueue
<1>2. /\ Known(req[q].execution) /\ req[q] \in Request /\ req[q].context \in Context
      /\ req[q].execution \in Requests
      /\ Mine(req[q].context, q)
      /\ req[q].context.execution \in {None, req[q].execution}
      /\ \A e \in events : Under(e, q) => e.aggregate = req[q].execution
  BY <1>1, ActiveRequest
<1>3. /\ events' \subseteq Event /\ EventsOK' /\ events \subseteq events'
      /\ \A e \in events' \ events : Mine(e.context, q)
      /\ \A e \in events' : Under(e, q) => e.aggregate = req[q].execution
  BY <1>1, <1>2, EnqueueKeeps
<1>4. PICK r \in Request : r = req[q]
  BY <1>2
<1>5. PICK held : held = [r EXCEPT !.pc = "setup"]
  OBVIOUS
<1>6. /\ held \in Request /\ held.pc = "setup" /\ held.execution = r.execution
      /\ held.user = r.user /\ held.approval = r.approval /\ held.context = r.context
  BY <1>5 DEF Request
<1>7. Hold(q, held)
  BY <1>4, <1>5 DEF Started
<1>8. toolRuns' \subseteq RunType
  BY <1>1, Types DEF SetupInvariant
<1>9. QED  BY <1>1, <1>2, <1>3, <1>4, <1>6, <1>7, <1>8, RunStepKeeps

\* The role of a run whose setup succeeds is its own: a resumed run has no
\* caller, and a first run's caller is who started it.
LEMMA RoleIsOwn ==
    ASSUME SetupInvariant, NEW q \in Requests, req[q].pc \in Active, NEW x, x = req[q].execution,
           roleFor(q, agents[executions[x].agent]) # None
    PROVE  /\ roleFor(q, agents[executions[x].agent]) = OwnRole(x)
           /\ OwnRole(x) \in STRING
<1>1. CarriesOK(q) /\ TypeOK
  BY DEF SetupInvariant
<1>2. x \in Requests /\ executions[x] \in Execution
  BY ActiveRequest DEF Known
<1>3. executions[x].triggeredBy \in Users
  BY <1>2 DEF Execution
<1>4. OwnRole(x) \in STRING
  BY <1>3, SetupAssumption DEF OwnRole
<1>5. CASE agents[executions[x].agent].bound
  <2>1. PICK agent : agent = agents[executions[x].agent]
    OBVIOUS
  <2>2. roleFor(q, agent) = ServiceRole
    BY <1>5, <2>1 DEF roleFor
  <2>3. OwnRole(x) = ServiceRole
    BY <1>5 DEF OwnRole
  <2>4. QED  BY <1>4, <2>1, <2>2, <2>3
<1>6. CASE ~agents[executions[x].agent].bound
  <2>1. authenticatedCaller(q) # None
    BY <1>6 DEF roleFor
  <2>2. req[q].approval = None /\ authenticatedCaller(q) = req[q].user
    BY <2>1 DEF authenticatedCaller
  <2>3. x = q /\ req[q].user = executions[x].triggeredBy
    BY <1>1, <2>2 DEF CarriesOK
  <2>4. roleFor(q, agents[executions[x].agent]) = RoleOf[req[q].user]
    BY <1>6, <2>1, <2>2 DEF roleFor
  <2>5. QED  BY <1>4, <1>6, <2>3, <2>4 DEF OwnRole
<1>7. QED  BY <1>4, <1>5, <1>6

\* The loop is set up.
LEMMA BuildContextKeeps ==
    ASSUME SetupInvariant, NEW q \in Requests, BuildContext(q)
    PROVE  SetupInvariant'
<1>1. req[q].pc = "setup" /\ "setup" \in Active /\ "loop" \in Active /\ "approved" \in Active
      /\ UNCHANGED <<arrivals, agents, executions, approvals, events, toolRuns>>
  BY DEF BuildContext, At, Active
<1>2. TypeOK /\ EventsOK
  BY DEF SetupInvariant
<1>3. PICK x : x = req[q].execution
  OBVIOUS
<1>4. /\ Known(x) /\ RunOK(x) /\ req[q] \in Request /\ req[q].context \in Context
      /\ x \in Requests
      /\ Mine(req[q].context, q) /\ req[q].context.execution \in {None, x}
      /\ \A e \in events : Under(e, q) => e.aggregate = x
  BY <1>1, <1>3, ActiveRequest
<1>5. PICK agent : agent = agents[executions[x].agent]
  OBVIOUS
<1>6. agent \in Agent
  BY <1>2, <1>4, <1>5, Types DEF Known, RunOK
<1>7. roleFor(q, agent) = OwnRole(x) /\ OwnRole(x) \in STRING
  BY <1>1, <1>3, <1>5, RoleIsOwn DEF BuildContext
<1>8. PICK setup : setup = [role |-> roleFor(q, agent), allowed |-> agent.allowed,
                            rules |-> agent.rules,
                            maxReActIterations |-> maxReActIterations(agent.execution),
                            timeoutMs |-> timeoutMs(agent.execution)]
  OBVIOUS
<1>9. maxReActIterations(agent.execution) \in Nat /\ timeoutMs(agent.execution) \in Nat
  <2>1. PICK e \in Constraints : e = agent.execution
    BY <1>6 DEF Agent
  <2>2. e.maxReActIterations \in Nat \cup {None} /\ e.timeoutMs \in Nat \cup {None}
    BY <2>1 DEF Constraints
  <2>3. maxReActIterations(e) \in Nat
    BY <2>2 DEF maxReActIterations
  <2>4. timeoutMs(e) \in Nat
    BY <2>2, SMT DEF timeoutMs
  <2>5. QED  BY <2>1, <2>3, <2>4
<1>10. setup \in Setup /\ setup.role = OwnRole(x)
  BY <1>6, <1>7, <1>8, <1>9 DEF Setup, Agent
<1>11. PICK context : context = IF authenticatedCaller(q) = None THEN req[q].context
                                ELSE AgentContext(q)
  OBVIOUS
<1>12. context \in Context /\ Mine(context, q) /\ context.execution \in {None, x}
  <2>1. <<q, "run">> \in Trace /\ <<q, "run">>[1] = q
    BY DEF Trace
  <2>2. AgentContext(q) \in Context /\ AgentContext(q).trace[1] = q
        /\ AgentContext(q).execution = x
    BY <1>3, <1>4, <2>1 DEF AgentContext, Context
  <2>3. QED  BY <1>4, <1>11, <2>2 DEF Mine
<1>13. PICK label : label = IF req[q].approval = None THEN "loop" ELSE "approved"
  OBVIOUS
<1>14. PICK r \in Request : r = req[q]
  BY <1>4
<1>15. PICK held : held = [r EXCEPT !.pc = label, !.setup = setup, !.context = context]
  OBVIOUS
<1>16. label \in {"loop", "approved"} /\ (label = "approved" => r.approval # None)
  BY <1>13, <1>14
<1>17. /\ held \in Request /\ held.pc = label /\ held.execution = r.execution
       /\ held.user = r.user /\ held.approval = r.approval /\ held.context = context
       /\ held.setup = setup
  BY <1>10, <1>12, <1>15, <1>16 DEF Request
<1>18. Hold(q, held)
  BY <1>3, <1>5, <1>8, <1>11, <1>13, <1>14, <1>15 DEF BuildContext
<1>19. EventsOK' /\ events' \subseteq Event /\ toolRuns' \subseteq RunType
  BY <1>1, <1>2, TablesStay, Types
<1>20. held.pc \in Active /\ held.pc \in {"approved", "loop"}
  BY <1>1, <1>16, <1>17
<1>21. QED
  BY <1>1, <1>3, <1>4, <1>10, <1>12, <1>14, <1>16, <1>17, <1>18, <1>19, <1>20, RunStepKeeps

\* A request that has not been served takes a run on: its own, or one it resumes.
LEMMA CarryKeeps ==
    ASSUME SetupInvariant, NEW q \in Requests, At(q, "open"), NEW user \in Users,
           NEW x \in Requests, NEW approval \in Nat \cup {None},
           Hold(q, [req[q] EXCEPT !.pc = "execute", !.user = user, !.execution = x,
                                  !.approval = approval]),
           RunsGrow(q), RunOK(q)', Known(x)',
           executions' \in [Requests -> Execution \cup {None}],
           ApprovalsGrow, approvals' \in Seq(Approval),
           DOMAIN approvals' = DOMAIN approvals,
           IF approval = None THEN x = q /\ user = executions'[q].triggeredBy
           ELSE approval \in DOMAIN approvals,
           UNCHANGED <<arrivals, agents, events, toolRuns>>
    PROVE  SetupInvariant'
<1>1. TypeOK /\ EventsOK
  BY DEF SetupInvariant
<1>2. /\ req[q] \in Request /\ Mine(req[q].context, q) /\ req[q].context.execution = None
      /\ \A e \in events : ~Under(e, q)
      /\ req[q].context \in Context
  BY OpenRequest
<1>3. PICK r \in Request : r = req[q]
  BY <1>2
<1>4. PICK held : held = [r EXCEPT !.pc = "execute", !.user = user, !.execution = x,
                                   !.approval = approval]
  OBVIOUS
<1>5. /\ held \in Request /\ held.pc = "execute" /\ held.user = user /\ held.execution = x
      /\ held.approval = approval /\ held.context = r.context
  BY <1>4 DEF Request
<1>6. Hold(q, held)
  BY <1>3, <1>4
<1>7. /\ req' \in [Requests -> Request] /\ req'[q] = held
      /\ \A p \in Requests \ {q} : req'[p] = req[p]
  BY <1>1, <1>5, <1>6, HoldRequest
<1>8. TypeOK'
  BY <1>1, <1>7 DEF TypeOK
<1>9. EditOK(q)'
  BY <1>5, <1>7 DEF EditOK, At
<1>10. CarriesOK(q)'
  BY <1>5, <1>7 DEF CarriesOK, At, Known
<1>11. TracedOK(q)'
  BY <1>2, <1>3, <1>5, <1>7, TracesStay DEF TracedOK, Active
<1>12. AgentsGrow /\ EventsOK' /\ ArrivalsGrow(q)
  BY <1>1, TablesStay
<1>13. StepOf(q)
  BY <1>7, <1>12 DEF StepOf
<1>14. QED  BY <1>8, <1>9, <1>10, <1>11, <1>12, <1>13, StepKeeps

\* executeAgent inserts the row of the run the request will carry.
LEMMA ExecuteAgentKeeps ==
    ASSUME SetupInvariant, NEW q \in Requests, NEW user \in Users, NEW a \in DOMAIN agents,
           ExecuteAgent(q, user, a)
    PROVE  SetupInvariant'
<1>1. At(q, "open") /\ UNCHANGED <<arrivals, agents, approvals, events, toolRuns>>
      /\ TypeOK
  BY DEF ExecuteAgent, SetupInvariant
<1>2. CASE agents[a].workspace # WorkspaceOf[user]
  BY <1>1, <1>2, RefuseKeeps DEF ExecuteAgent
<1>3. CASE agents[a].workspace = WorkspaceOf[user]
  <2>1. PICK row : row = [agent |-> a, workspace |-> WorkspaceOf[user], triggeredBy |-> user,
                          status |-> "pending"]
    OBVIOUS
  <2>2. a \in Nat /\ WorkspaceOf[user] \in STRING
    BY <1>1, Types, SetupAssumption
  <2>3. row \in Execution /\ row.agent = a /\ row.triggeredBy = user
        /\ row.workspace = WorkspaceOf[user]
    BY <2>1, <2>2 DEF Execution
  <2>4. executions' = [executions EXCEPT ![q] = row]
        /\ Hold(q, [req[q] EXCEPT !.pc = "execute", !.user = user, !.execution = q])
    BY <1>3, <2>1 DEF ExecuteAgent
  <2>5. executions'[q] = row /\ executions[q] \notin Execution
        /\ (\A x \in Requests \ {q} : executions'[x] = executions[x])
        /\ executions' \in [Requests -> Execution \cup {None}]
    BY <1>1, <2>3, <2>4, Types, OpenRequest
  <2>6. RunsGrow(q)
    BY <2>5 DEF RunsGrow
  <2>7. RunOK(q)' /\ Known(q)'
    BY <1>1, <1>3, <2>3, <2>5 DEF RunOK, Known
  <2>8. req[q] \in Request /\ req[q].approval = None
    BY <1>1, OpenRequest
  <2>9. [req[q] EXCEPT !.pc = "execute", !.user = user, !.execution = q]
        = [req[q] EXCEPT !.pc = "execute", !.user = user, !.execution = q, !.approval = None]
    BY <2>8 DEF Request
  <2>10. Hold(q, [req[q] EXCEPT !.pc = "execute", !.user = user, !.execution = q,
                                !.approval = None])
    BY <2>4, <2>9
  <2>11. ApprovalsGrow  /\ approvals' \in Seq(Approval)
         /\ DOMAIN approvals' = DOMAIN approvals
    BY <1>1, TablesStay, Types
  <2>12. user = executions'[q].triggeredBy
    BY <2>3, <2>5
  <2>13. QED
    BY <1>1, <2>5, <2>6, <2>7, <2>10, <2>11, <2>12, CarryKeeps
<1>4. QED  BY <1>2, <1>3

\* An approval is decided: it keeps its subject.
LEMMA DecidedApproval ==
    ASSUME SetupInvariant, NEW i \in DOMAIN approvals, NEW decision \in {"APPROVED", "REJECTED"},
           approvals' = [approvals EXCEPT ![i].status = decision]
    PROVE  /\ approvals' \in Seq(Approval) /\ DOMAIN approvals' = DOMAIN approvals
           /\ ApprovalsGrow
<1>1. TypeOK
  BY DEF SetupInvariant
<1>2. approvals \in Seq(Approval) /\ approvals[i] \in Approval /\ i \in 1..Len(approvals)
  BY <1>1, Types
<1>3. PICK row \in Approval : row = approvals[i]
  BY <1>2
<1>4. PICK new : new = [row EXCEPT !.status = decision]
  OBVIOUS
<1>5. /\ new \in Approval /\ new.execution = row.execution /\ new.call = row.call
  BY <1>4 DEF Approval
<1>6. approvals' = [approvals EXCEPT ![i] = new]
  BY <1>3, <1>4
<1>7. approvals' \in Seq(Approval)
  BY <1>2, <1>5, <1>6, ExceptSeq
<1>8. DOMAIN approvals' = DOMAIN approvals /\ approvals'[i] = new
      /\ \A j \in DOMAIN approvals \ {i} : approvals'[j] = approvals[j]
  BY <1>2, <1>6
<1>9. ApprovalsGrow
  BY <1>3, <1>5, <1>8 DEF ApprovalsGrow
<1>10. QED  BY <1>7, <1>8, <1>9

\* decideApproval: a rejected run is closed, an approved one taken on.
LEMMA DecideKeeps ==
    ASSUME SetupInvariant, NEW q \in Requests, NEW user \in Users, NEW i \in DOMAIN approvals,
           NEW decision \in {"APPROVED", "REJECTED"}, Decide(q, user, i, decision)
    PROVE  SetupInvariant'
<1>1. At(q, "open") /\ UNCHANGED <<arrivals, agents, toolRuns>> /\ TypeOK
  BY DEF Decide, SetupInvariant
<1>2. PICK x : x = approvals[i].execution
  OBVIOUS
<1>3. Known(x) /\ x \in Requests
  BY <1>2 DEF SetupInvariant, Known
<1>4. /\ req[q] \in Request /\ Mine(req[q].context, q) /\ req[q].context.execution = None
      /\ \A e \in events : ~Under(e, q)
  BY <1>1, OpenRequest
<1>5. CASE Answer(q, "refused") /\ UNCHANGED <<executions, approvals, events>>
  BY <1>1, <1>5, RefuseKeeps
<1>6. CASE /\ approvals' = [approvals EXCEPT ![i].status = decision]
           /\ executions' = [executions EXCEPT ![x].status = "cancelled"]
           /\ events' = events \cup {[aggregate |-> x, context |-> req[q].context]}
           /\ Answer(q, "done")
  <2>1. /\ approvals' \in Seq(Approval) /\ DOMAIN approvals' = DOMAIN approvals
        /\ ApprovalsGrow
    BY <1>6, DecidedApproval
  <2>2. RunsGrow(q) /\ executions' \in [Requests -> Execution \cup {None}] /\ RunOK(q)'
    BY <1>1, <1>3, <1>6, StatusKeeps
  <2>3. req[q].context \in Context
    BY <1>1, OpenRequest
  <2>4. /\ events' \subseteq Event /\ EventsOK' /\ events \subseteq events'
        /\ \A e \in events' \ events : Mine(e.context, q)
    BY <1>1, <1>3, <1>4, <1>6, <2>3, EnqueueKeeps
  <2>5. AgentsGrow /\ agents' \in Seq(Agent) /\ Len(agents') <= MaxAgents
    BY <1>1, TablesStay DEF TypeOK
  <2>6. QED  BY <1>1, <1>6, <2>1, <2>2, <2>4, <2>5, AnswerKeeps
<1>7. CASE /\ approvals' = [approvals EXCEPT ![i].status = decision]
           /\ executions' = [executions EXCEPT ![x].status = "running"]
           /\ Hold(q, [req[q] EXCEPT !.pc = "execute", !.user = user, !.execution = x,
                                     !.approval = i])
           /\ UNCHANGED events
  <2>1. /\ approvals' \in Seq(Approval) /\ DOMAIN approvals' = DOMAIN approvals
        /\ ApprovalsGrow
    BY <1>7, DecidedApproval
  <2>2. /\ RunsGrow(q) /\ executions' \in [Requests -> Execution \cup {None}] /\ RunOK(q)'
        /\ Known(x)'
    BY <1>1, <1>3, <1>7, StatusKeeps
  <2>3. i \in Nat /\ i # None
    BY <1>1, Types, SetupAssumption
  <2>4. QED  BY <1>1, <1>3, <1>7, <2>1, <2>2, <2>3, CarryKeeps
<1>8. QED  BY <1>2, <1>5, <1>6, <1>7 DEF Decide

\* A run whose status changes and whose event is written is answered.
LEMMA CloseKeeps ==
    ASSUME SetupInvariant, NEW q \in Requests, req[q].pc \in Active,
           NEW end \in {"guardrail_pending", "done", "failed"},
           SetStatus(q, end), Enqueue(q), Answer(q, "done"), UNCHANGED <<arrivals, agents, toolRuns>>,
           approvals' \in Seq(Approval), ApprovalsGrow,
           \A i \in DOMAIN approvals' \ DOMAIN approvals :
               approvals'[i].execution = req[q].execution
    PROVE  SetupInvariant'
<1>1. PICK x : x = req[q].execution
  OBVIOUS
<1>2. /\ Known(x) /\ req[q].context \in Context /\ x \in Requests
      /\ Mine(req[q].context, q) /\ req[q].context.execution \in {None, x}
      /\ \A e \in events : Under(e, q) => e.aggregate = x
  BY <1>1, ActiveRequest
<1>3. executions' = [executions EXCEPT ![x].status = end]
      /\ events' = events \cup {[aggregate |-> x, context |-> req[q].context]}
  BY <1>1 DEF SetStatus, Enqueue
<1>4. /\ RunsGrow(q) /\ executions' \in [Requests -> Execution \cup {None}] /\ RunOK(q)'
      /\ Known(x)'
  BY <1>2, <1>3, StatusKeeps
<1>5. /\ events' \subseteq Event /\ EventsOK' /\ events \subseteq events'
      /\ \A e \in events' \ events : Mine(e.context, q)
  BY <1>2, <1>3, EnqueueKeeps
<1>6. AgentsGrow /\ agents' \in Seq(Agent) /\ Len(agents') <= MaxAgents
  BY TablesStay DEF TypeOK, SetupInvariant
<1>7. \A i \in DOMAIN approvals' \ DOMAIN approvals : Known(approvals[i].execution)'
  BY <1>1, <1>4 DEF Known
<1>8. QED  BY <1>4, <1>5, <1>6, <1>7, AnswerKeeps

\* The run has no principal, or has come to its end.
LEMMA SetupFailsKeeps ==
    ASSUME SetupInvariant, NEW q \in Requests, SetupFails(q)
    PROVE  SetupInvariant'
<1>1. req[q].pc \in Active /\ SetStatus(q, "failed") /\ Enqueue(q) /\ Answer(q, "done")
      /\ UNCHANGED <<arrivals, agents, approvals, toolRuns>>
  BY DEF SetupFails, At, Active
<1>2. approvals' \in Seq(Approval) /\ ApprovalsGrow
  BY <1>1, Types, TablesStay DEF SetupInvariant
<1>3. QED  BY <1>1, <1>2, CloseKeeps

LEMMA FinishKeeps ==
    ASSUME SetupInvariant, NEW q \in Requests, NEW end \in {"done", "failed"},
           Finish(q, end)
    PROVE  SetupInvariant'
<1>1. req[q].pc \in Active /\ SetStatus(q, end) /\ Enqueue(q) /\ Answer(q, "done")
      /\ UNCHANGED <<arrivals, agents, approvals, toolRuns>>
  BY DEF Finish, At, Active
<1>2. approvals' \in Seq(Approval) /\ ApprovalsGrow
  BY <1>1, Types, TablesStay DEF SetupInvariant
<1>3. QED  BY <1>1, <1>2, CloseKeeps

\* A call that needs an approval leaves one, for a rule of the run.
LEMMA PauseKeeps ==
    ASSUME SetupInvariant, NEW q \in Requests, NEW call \in Calls, Pause(q, call)
    PROVE  SetupInvariant'
<1>1. req[q].pc = "loop" /\ "loop" \in Active /\ SetStatus(q, "guardrail_pending")
      /\ Enqueue(q) /\ Answer(q, "done") /\ UNCHANGED <<arrivals, agents, toolRuns>>
  BY DEF Pause, At, Active
<1>2. TypeOK
  BY DEF SetupInvariant
<1>4. approvals' = Append(approvals, [execution |-> req[q].execution, call |-> call,
                                      status |-> "PENDING"])
  BY DEF Pause
<1>6. PICK new : new = [execution |-> req[q].execution, call |-> call, status |-> "PENDING"]
  OBVIOUS
<1>7. req[q].execution \in Requests
  BY <1>1, ActiveRequest
<1>8. new \in Approval /\ new.execution = req[q].execution
  BY <1>6, <1>7 DEF Approval
<1>9. approvals \in Seq(Approval) /\ approvals' = Append(approvals, new)
  BY <1>2, <1>4, <1>6, Types
<1>10. /\ approvals' \in Seq(Approval) /\ DOMAIN approvals' = 1..(Len(approvals) + 1)
       /\ DOMAIN approvals = 1..Len(approvals) /\ approvals'[Len(approvals) + 1] = new
       /\ \A i \in DOMAIN approvals : approvals'[i] = approvals[i] /\ i \in DOMAIN approvals'
       /\ Len(approvals) \in Nat
  BY <1>8, <1>9
<1>11. \A i \in DOMAIN approvals' \ DOMAIN approvals : approvals'[i] = new
  BY <1>10
<1>12. ApprovalsGrow
  BY <1>10 DEF ApprovalsGrow
<1>14. \A i \in DOMAIN approvals' \ DOMAIN approvals :
           approvals'[i].execution = req[q].execution
  BY <1>8, <1>11
<1>15. QED  BY <1>1, <1>10, <1>12, <1>14, CloseKeeps

\* A tool that is called runs under the role of the run's setup.
LEMMA CallKeeps ==
    ASSUME SetupInvariant, NEW q \in Requests, req[q].pc \in {"approved", "loop"},
           NEW call, CallTool(q, call), Hold(q, [req[q] EXCEPT !.pc = "loop"]),
           UNCHANGED <<arrivals, agents, executions, approvals>>
    PROVE  SetupInvariant'
<1>1. req[q].pc \in Active /\ "loop" \in Active
  BY DEF Active
<1>2. TypeOK /\ CarriesOK(q)
  BY DEF SetupInvariant
<1>3. PICK x : x = req[q].execution
  OBVIOUS
<1>4. /\ Known(x) /\ req[q] \in Request /\ req[q].context \in Context /\ x \in Requests
      /\ Mine(req[q].context, q) /\ req[q].context.execution \in {None, x}
      /\ \A e \in events : Under(e, q) => e.aggregate = x
  BY <1>1, <1>3, ActiveRequest
<1>5. req[q].setup \in Setup /\ req[q].setup.role = OwnRole(x)
  BY <1>2, <1>3 DEF CarriesOK
<1>6. events' = events \cup {[aggregate |-> x, context |-> req[q].context]}
  BY <1>3 DEF CallTool, Enqueue
<1>7. /\ events' \subseteq Event /\ EventsOK' /\ events \subseteq events'
      /\ \A e \in events' \ events : Mine(e.context, q)
      /\ \A e \in events' : Under(e, q) => e.aggregate = x
  BY <1>4, <1>6, EnqueueKeeps
<1>8. PICK ran : ran = [execution |-> x, role |-> req[q].setup.role, approval |-> req[q].approval]
  OBVIOUS
<1>9. req[q].setup.role \in STRING /\ req[q].approval \in Nat \cup {None}
  BY <1>4, <1>5, RequestFields DEF Setup
<1>10. ran \in RunType /\ ran.execution = x /\ ran.role = OwnRole(x)
  BY <1>4, <1>5, <1>8, <1>9 DEF RunType
<1>11. toolRuns' \in {toolRuns, toolRuns \cup {ran}}
  BY <1>3, <1>8 DEF CallTool
<1>12. toolRuns' \subseteq RunType
       /\ \A t \in toolRuns' \ toolRuns : t.execution = x /\ t.role = OwnRole(x)
  BY <1>2, <1>10, <1>11, Types
<1>13. PICK r \in Request : r = req[q]
  BY <1>4
<1>14. PICK held : held = [r EXCEPT !.pc = "loop"]
  OBVIOUS
<1>15. /\ held \in Request /\ held.pc = "loop" /\ held.execution = r.execution
       /\ held.user = r.user /\ held.approval = r.approval /\ held.context = r.context
       /\ held.setup = r.setup
  BY <1>14 DEF Request
<1>16. Hold(q, held)
  BY <1>13, <1>14
<1>17. QED
  BY <1>1, <1>3, <1>4, <1>5, <1>7, <1>12, <1>13, <1>15, <1>16, RunStepKeeps

LEMMA RunApprovedKeeps ==
    ASSUME SetupInvariant, NEW q \in Requests, RunApproved(q)
    PROVE  SetupInvariant'
  BY CallKeeps DEF RunApproved, At

LEMMA ToolCallKeeps ==
    ASSUME SetupInvariant, NEW q \in Requests, NEW call \in Calls, ToolCall(q, call)
    PROVE  SetupInvariant'
<1>1. req[q].pc = "loop" /\ CallTool(q, call) /\ UNCHANGED <<arrivals, agents, executions, approvals, req>>
  BY DEF ToolCall, At
<1>2. req[q] \in Request /\ req \in [Requests -> Request]
  BY Types DEF SetupInvariant
<1>3. req[q] = [req[q] EXCEPT !.pc = "loop"]
  BY <1>1, <1>2 DEF Request
<1>4. Hold(q, [req[q] EXCEPT !.pc = "loop"])
  BY <1>1, <1>2, <1>3 DEF Hold
<1>5. QED  BY <1>1, <1>4, CallKeeps

----------------------------------------------------------------------------
(* The theorems *)

\* The invariant holds at first.
LEMMA InitSetup == Init => SetupInvariant
<1> SUFFICES ASSUME Init PROVE SetupInvariant
  OBVIOUS
<1>1. /\ arrivals = [q \in Requests |-> None]
      /\ agents = <<SeededAgent>> /\ executions = [q \in Requests |-> None]
      /\ approvals = <<>> /\ events = {} /\ toolRuns = {}
      /\ req = [q \in Requests |-> Bare("idle")]
  BY DEF Init
<1>2. SeededAgent \in Agent
  <2>1. <<>> \in Seq(Rule) /\ NoConstraints \in Constraints
    BY DEF NoConstraints, Constraints
  <2>2. QED  BY <2>1, SetupAssumption DEF SeededAgent, Agent
<1>3. agents \in Seq(Agent) /\ Len(agents) <= MaxAgents
  BY <1>1, <1>2, SetupAssumption
<1>4. Bare("idle") \in Request /\ Bare("idle").pc = "idle"
  BY BareRequest DEF Labels
<1>5. TypeOK
  BY <1>1, <1>3, <1>4 DEF TypeOK
<1>6. ASSUME NEW q \in Requests PROVE RunOK(q) /\ EditOK(q) /\ CarriesOK(q) /\ TracedOK(q)
  <2>1. req[q].pc = "idle" /\ executions[q] \notin Execution /\ arrivals[q] = None
    BY <1>1, <1>4, RowAssumption
  <2>2. "idle" \notin Active \cup {"open"}
    BY DEF Active
  <2>3. QED  BY <1>1, <2>1, <2>2 DEF RunOK, EditOK, CarriesOK, TracedOK, At
<1>7. EventsOK
  BY <1>1 DEF EventsOK
<1>8. QED  BY <1>1, <1>5, <1>6, <1>7 DEF SetupInvariant

\* Every step of the backend keeps it.
LEMMA NextSetup == SetupInvariant /\ [Next]_vars => SetupInvariant'
<1> SUFFICES ASSUME SetupInvariant, [Next]_vars PROVE SetupInvariant'
  OBVIOUS
<1>1. CASE UNCHANGED vars
  <2>1. TypeOK'
    BY <1>1 DEF vars, SetupInvariant, TypeOK
  <2>2. /\ arrivals' = arrivals /\ agents' = agents /\ executions' = executions
        /\ approvals' = approvals /\ events' = events /\ toolRuns' = toolRuns /\ req' = req
    BY <1>1 DEF vars
  <2>3. ASSUME NEW q \in Requests PROVE RunOK(q)' /\ EditOK(q)' /\ CarriesOK(q)' /\ TracedOK(q)'
    <3>1. RunOK(q) /\ EditOK(q) /\ CarriesOK(q) /\ TracedOK(q)
      BY DEF SetupInvariant
    <3>2. RunOK(q)'
      BY <2>2, <3>1, TablesStay
    <3>3. EditOK(q)'
      BY <2>2, <3>1 DEF EditOK, At
    <3>4. CarriesOK(q)'
      BY <2>2, <3>1 DEF CarriesOK, Known, OwnRole, At
    <3>5. TracedOK(q)'
      BY <2>2, <3>1 DEF TracedOK, Mine, Under, Shared, Arrived
    <3>6. QED  BY <3>2, <3>3, <3>4, <3>5
  <2>4. EventsOK'
    BY <2>2, TablesStay DEF SetupInvariant
  <2>5. /\ \A i \in DOMAIN approvals' : Known(approvals[i].execution)'
        /\ \A t \in toolRuns' : Known(t.execution)' /\ t.role = OwnRole(t.execution)'
    BY <2>2 DEF SetupInvariant, Known, OwnRole
  <2>6. QED  BY <2>1, <2>3, <2>4, <2>5 DEF SetupInvariant
<1>2. ASSUME NEW q \in Requests, Open(q) PROVE SetupInvariant'
  <2>1. TypeOK
    BY DEF SetupInvariant
  <2>2. CASE \E p \in Arrived : Finished(arrivals[p].http) /\ Arrive(q, arrivals[p])
    <3>1. PICK p \in Arrived : Arrive(q, arrivals[p])
      BY <2>2
    <3>2. arrivals[p] \in Arrival
      BY <2>1, Types DEF Arrived
    <3>3. QED  BY <3>1, <3>2, ArriveKeeps
  <2>3. CASE \E user \in Users, header \in Header :
                 Arrive(q, [http |-> q, header |-> header, user |-> user])
    <3>1. PICK user \in Users, header \in Header :
              Arrive(q, [http |-> q, header |-> header, user |-> user])
      BY <2>3
    <3>2. header \in Trace \cup {None}
      BY <2>1, Types DEF Header, Event, Context, Trace
    <3>3. PICK arrival : arrival = [http |-> q, header |-> header, user |-> user]
      OBVIOUS
    <3>4. arrival \in Arrival /\ arrival.http = q
      BY <3>2, <3>3 DEF Arrival
    <3>5. QED  BY <3>1, <3>3, <3>4, ArriveKeeps
  <2>4. QED  BY <1>2, <2>2, <2>3 DEF Open
<1>3. ASSUME NEW q \in Requests, Serve(q) PROVE SetupInvariant'
  <2>1. ASSUME At(q, "open") PROVE arrivals[q].user \in Users
    BY <2>1, OpenRequest DEF Arrival
  <2>2. QED
    BY <1>3, <2>1, CreateAgentKeeps, UpdateAgentConfigKeeps, ExecuteAgentKeeps, DecideKeeps,
       InsertAgentKeeps, WriteAgentConfigKeeps DEF Serve
<1>4. ASSUME NEW q \in Requests, Run(q) PROVE SetupInvariant'
  BY <1>4, StartedKeeps, BuildContextKeeps, SetupFailsKeeps, RunApprovedKeeps, ToolCallKeeps,
     PauseKeeps, FinishKeeps DEF Run
<1>5. QED  BY <1>1, <1>2, <1>3, <1>4 DEF Next

\* Requests carry runs that are set up as they should be: the invariant the
\* properties below follow from.
THEOREM SetupInvariance == Spec => []SetupInvariant
  BY InitSetup, NextSetup, PTL DEF Spec

\* The tables and the requests keep their types, whatever the console is given.
THEOREM SetupTypeCorrect == Spec => []TypeOK
<1>1. SetupInvariant => TypeOK
  BY DEF SetupInvariant
<1>2. QED  BY <1>1, SetupInvariance, PTL

\* Every tool runs under the role of the user who started its run, or of the
\* employee bound to a service identity, in that employee's workspace.
THEOREM OwnRoleOnly == Spec => []ToolsRunUnderOwnRole
<1>1. SetupInvariant => ToolsRunUnderOwnRole
  <2>1. SUFFICES ASSUME SetupInvariant, NEW t \in toolRuns
                 PROVE  LET x == executions[t.execution]
                            agent == agents[x.agent]
                        IN /\ t.role = IF agent.bound THEN ServiceRole ELSE RoleOf[x.triggeredBy]
                           /\ agent.workspace = WorkspaceOf[x.triggeredBy]
    BY DEF ToolsRunUnderOwnRole
  <2>2. Known(t.execution) /\ t.role = OwnRole(t.execution)
    BY <2>1 DEF SetupInvariant
  <2>3. RunOK(t.execution) /\ executions[t.execution] \in Execution
    BY <2>1, <2>2 DEF SetupInvariant, Known
  <2>4. QED  BY <2>2, <2>3 DEF OwnRole, RunOK
<1>2. QED  BY <1>1, SetupInvariance, PTL

\* An event names its own execution, and no two executions' events are found
\* under one trace that nobody shared.
THEOREM EventsTraced == Spec => []EventsAttributable
<1>1. SetupInvariant => EventsAttributable
  <2>1. SUFFICES ASSUME SetupInvariant PROVE EventsAttributable
    OBVIOUS
  <2>2. EventsOK
    BY <2>1 DEF SetupInvariant
  <2>3. QED  BY <2>2 DEF EventsOK, EventsAttributable
<1>2. QED  BY <1>1, SetupInvariance, PTL

----------------------------------------------------------------------------
(* Plans *)

\* The plan on contents, which needs no identities.
Diff(before, after) ==
    LET changed == {i \in DOMAIN before \cap DOMAIN after :
                        getPropertyChanges(before[i], after[i]) # {}}
    IN  {[action |-> "create", subject |-> i, after |-> after[i]] : i \in DOMAIN after \ DOMAIN before}
        \cup {[action |-> "update", subject |-> i, after |-> after[i]] : i \in changed}
        \cup {[action |-> "delete", subject |-> i, after |-> <<>>] : i \in DOMAIN before \ DOMAIN after}

\* Its changes, one for every subject that differs.
LEMMA ChangesOfPlan ==
    ASSUME NEW before, NEW after, NEW c
    PROVE  c \in Diff(before, after) <=>
               \/ \E i \in DOMAIN after \ DOMAIN before :
                      c = [action |-> "create", subject |-> i, after |-> after[i]]
               \/ \E i \in DOMAIN before \cap DOMAIN after :
                      /\ getPropertyChanges(before[i], after[i]) # {}
                      /\ c = [action |-> "update", subject |-> i, after |-> after[i]]
               \/ \E i \in DOMAIN before \ DOMAIN after :
                      c = [action |-> "delete", subject |-> i, after |-> <<>>]
BY DEF Diff

LEMMA NothingChanged ==
    ASSUME NEW properties
    PROVE  getPropertyChanges(properties, properties) = {}
BY DEF getPropertyChanges

LEMMA ReplayReaches ==
    ASSUME NEW before, NEW after, NEW plan, plan = Diff(before, after)
    PROVE  /\ DOMAIN Replayed(before, plan) = DOMAIN after
           /\ \A i \in DOMAIN after : getPropertyChanges(Replayed(before, plan)[i], after[i]) = {}
           /\ \A c \in plan : c.action = "create" <=> c.subject \notin DOMAIN before
<1> DEFINE touched == {c.subject : c \in plan}
           deleted == {c.subject : c \in {d \in plan : d.action = "delete"}}
<1>1. ASSUME NEW c \in plan
      PROVE  /\ c.action = "create" => c.subject \in DOMAIN after \ DOMAIN before /\ c.after = after[c.subject]
             /\ c.action = "update" => c.subject \in DOMAIN before \cap DOMAIN after /\ c.after = after[c.subject]
             /\ c.action = "delete" => c.subject \in DOMAIN before \ DOMAIN after
             /\ c.action \in {"create", "update", "delete"}
  BY ChangesOfPlan
<1>2. ASSUME NEW i
      PROVE  i \in touched <=> \/ i \in DOMAIN after \ DOMAIN before
                               \/ i \in DOMAIN before \ DOMAIN after
                               \/ /\ i \in DOMAIN before \cap DOMAIN after
                                  /\ getPropertyChanges(before[i], after[i]) # {}
  <2>1. ASSUME i \in touched
        PROVE  \/ i \in DOMAIN after \ DOMAIN before
               \/ i \in DOMAIN before \ DOMAIN after
               \/ /\ i \in DOMAIN before \cap DOMAIN after
                  /\ getPropertyChanges(before[i], after[i]) # {}
    <3>1. PICK c \in plan : c.subject = i
      BY <2>1
    <3>2. QED  BY <3>1, ChangesOfPlan
  <2>2. CASE i \in DOMAIN after \ DOMAIN before
    <3>1. PICK c : c = [action |-> "create", subject |-> i, after |-> after[i]]
      OBVIOUS
    <3>2. c \in plan /\ c.subject = i
      BY <2>2, <3>1, ChangesOfPlan
    <3>3. QED  BY <2>2, <3>2
  <2>3. CASE i \in DOMAIN before \ DOMAIN after
    <3>1. PICK c : c = [action |-> "delete", subject |-> i, after |-> <<>>]
      OBVIOUS
    <3>2. c \in plan /\ c.subject = i
      BY <2>3, <3>1, ChangesOfPlan
    <3>3. QED  BY <2>3, <3>2
  <2>4. CASE i \in DOMAIN before \cap DOMAIN after /\ getPropertyChanges(before[i], after[i]) # {}
    <3>1. PICK c : c = [action |-> "update", subject |-> i, after |-> after[i]]
      OBVIOUS
    <3>2. c \in plan /\ c.subject = i
      BY <2>4, <3>1, ChangesOfPlan
    <3>3. QED  BY <2>4, <3>2
  <2>5. QED  BY <2>1, <2>2, <2>3, <2>4
<1>3. ASSUME NEW i
      PROVE  i \in deleted <=> i \in DOMAIN before \ DOMAIN after
  <2>1. ASSUME i \in deleted PROVE i \in DOMAIN before \ DOMAIN after
    BY <1>1, <2>1
  <2>2. ASSUME i \in DOMAIN before \ DOMAIN after PROVE i \in deleted
    <3>1. PICK c : c = [action |-> "delete", subject |-> i, after |-> <<>>]
      OBVIOUS
    <3>2. c \in plan /\ c.subject = i /\ c.action = "delete"
      BY <2>2, <3>1, ChangesOfPlan
    <3>3. QED  BY <3>2
  <2>3. QED  BY <2>1, <2>2
<1>4. Replayed(before, plan) =
          [i \in (DOMAIN before \cup touched) \ deleted |->
              IF i \in touched THEN (CHOOSE c \in plan : c.subject = i).after ELSE before[i]]
  BY Zenon DEF Replayed
<1>5. (DOMAIN before \cup touched) \ deleted = DOMAIN after
  BY <1>2, <1>3
<1>6. DOMAIN Replayed(before, plan) = DOMAIN after
  BY <1>4, <1>5
<1>7. ASSUME NEW i \in DOMAIN after
      PROVE  getPropertyChanges(Replayed(before, plan)[i], after[i]) = {}
  <2>1. CASE i \in touched
    <3>1. PICK chosen : chosen = CHOOSE c \in plan : c.subject = i
      OBVIOUS
    <3>2. chosen \in plan /\ chosen.subject = i
      BY <2>1, <3>1
    <3>3. Replayed(before, plan)[i] = chosen.after
      BY <1>4, <1>5, <1>7, <2>1, <3>1
    <3>4. chosen.after = after[i]
      BY <1>1, <1>7, <3>2
    <3>5. QED  BY <3>3, <3>4, NothingChanged
  <2>2. CASE i \notin touched
    <3>1. Replayed(before, plan)[i] = before[i]
      BY <1>4, <1>5, <1>7, <2>2
    <3>2. i \in DOMAIN before /\ getPropertyChanges(before[i], after[i]) = {}
      BY <1>2, <1>7, <2>2
    <3>3. QED  BY <3>1, <3>2
  <2>3. QED  BY <2>1, <2>2
<1>8. \A c \in plan : c.action = "create" <=> c.subject \notin DOMAIN before
  BY <1>1
<1>9. QED  BY <1>6, <1>7, <1>8


\* What an undotted snapshot is indexed by, and what it holds.
Identities(snapshot, taxonomy) ==
    {<<"object", n>> : n \in DOMAIN snapshot}
    \cup {<<"field", <<p[1][1], p[2][1]>>>> : p \in FieldsOf(snapshot)}
    \cup {<<"component", i[1], i[2]>> : i \in DOMAIN taxonomy}

\* What the identities of an index are taken for.
SubjectsOf(index) == {Subject(i) : i \in DOMAIN index}

LEMMA JoinUndotted ==
    ASSUME NEW snapshot, Undotted(snapshot), NEW p \in FieldsOf(snapshot)
    PROVE  /\ p[1] \o p[2] = <<p[1][1], p[2][1]>>
           /\ p = <<p[1], p[2]>> /\ p = <<<<p[1][1]>>, <<p[2][1]>>>>
<1>1. p[1] = <<p[1][1]>> /\ p[2] = <<p[2][1]>>
  BY DEF Undotted
<1>2. PICK a, b : a = p[1][1] /\ b = p[2][1]
  OBVIOUS
<1>3. <<a>> \o <<b>> = <<a, b>>
  <2>1. <<a>> \in Seq({a, b}) /\ <<b>> \in Seq({a, b}) /\ <<a, b>> \in Seq({a, b})
    OBVIOUS
  <2>2. PICK joined : joined = <<a>> \o <<b>>
    OBVIOUS
  <2>3. Len(<<a>>) = 1 /\ Len(<<b>>) = 1 /\ <<a>>[1] = a /\ <<b>>[1] = b
    OBVIOUS
  <2>4. joined \in Seq({a, b}) /\ Len(joined) = 2 /\ joined[1] = a /\ joined[2] = b
    BY <2>1, <2>2, <2>3, ConcatProperties
  <2>5. joined = <<a, b>>
    BY <2>1, <2>4
  <2>6. QED  BY <2>2, <2>5
<1>4. p = <<p[1], p[2]>>
  BY DEF FieldsOf
<1>5. QED  BY <1>1, <1>2, <1>3, <1>4

LEMMA IndexUndotted ==
    ASSUME NEW snapshot, NEW taxonomy, Undotted(snapshot),
           NEW index, index = indexSnapshot(snapshot, taxonomy),
           NEW contents, contents = Contents(snapshot, taxonomy)
    PROVE  /\ DOMAIN index = Identities(snapshot, taxonomy)
           /\ DOMAIN contents = SubjectsOf(index)
           /\ \A i \in DOMAIN index : index[i] = contents[Subject(i)]
<1> DEFINE fields == {<<"field", p[1] \o p[2]>> : p \in FieldsOf(snapshot)}
           field(i) == CHOOSE p \in FieldsOf(snapshot) : p[1] \o p[2] = i[2]
           ids == Identities(snapshot, taxonomy)
           subjects == {<<"object", n>> : n \in DOMAIN snapshot}
                       \cup {<<"field", p[1], p[2]>> : p \in FieldsOf(snapshot)}
                       \cup {<<"component", i[1], i[2]>> : i \in DOMAIN taxonomy}
<1>1. fields = {<<"field", <<p[1][1], p[2][1]>>>> : p \in FieldsOf(snapshot)}
  <2>1. \A p \in FieldsOf(snapshot) : p[1] \o p[2] = <<p[1][1], p[2][1]>>
    BY JoinUndotted
  <2>2. QED  BY <2>1, Zenon
<1>2. index = [i \in ids |->
                  IF i[1] = "object" THEN snapshot[i[2]].properties
                  ELSE IF i[1] = "field"
                       THEN normalizeFieldForDiff(snapshot[field(i)[1]].fields[field(i)[2]])
                       ELSE taxonomy[<<i[2], i[3]>>]]
  BY <1>1, Zenon DEF indexSnapshot, Identities
<1>3. contents = [s \in subjects |->
                     IF s[1] = "object" THEN snapshot[s[2]].properties
                     ELSE IF s[1] = "field" THEN normalizeFieldForDiff(snapshot[s[2]].fields[s[3]])
                     ELSE taxonomy[<<s[2], s[3]>>]]
  BY Zenon DEF Contents
<1> HIDE DEF field
<1>4. ASSUME NEW n \in DOMAIN snapshot, NEW i, i = <<"object", n>>
      PROVE  i \in ids /\ Subject(i) = i /\ i \in subjects /\ index[i] = contents[i]
  <2>1. i \in ids /\ i \in subjects /\ i[1] = "object"
    BY <1>4 DEF Identities
  <2>2. QED  BY <1>2, <1>3, <2>1 DEF Subject
<1>5. ASSUME NEW p \in FieldsOf(snapshot), NEW i, i = <<"field", <<p[1][1], p[2][1]>>>>
      PROVE  /\ i \in ids /\ Subject(i) = <<"field", p[1], p[2]>>
             /\ Subject(i) \in subjects /\ index[i] = contents[Subject(i)]
  <2>1. i \in ids /\ i[1] = "field" /\ i[2] = <<p[1][1], p[2][1]>>
    BY <1>5 DEF Identities
  <2>2. p[1] \o p[2] = i[2] /\ p = <<<<p[1][1]>>, <<p[2][1]>>>> /\ p = <<p[1], p[2]>>
    BY <2>1, JoinUndotted
  <2>3. field(i) \in FieldsOf(snapshot) /\ field(i)[1] \o field(i)[2] = i[2]
    BY <2>2 DEF field
  <2>4. PICK r \in FieldsOf(snapshot) : r = field(i)
    BY <2>3
  <2>5. r[1] \o r[2] = <<r[1][1], r[2][1]>> /\ r = <<<<r[1][1]>>, <<r[2][1]>>>>
    BY JoinUndotted
  <2>6. r = p
    BY <2>1, <2>2, <2>3, <2>4, <2>5
  <2>7. Subject(i) = <<"field", p[1], p[2]>>
    <3>1. Subject(i) = <<"field", <<p[1][1]>>, <<p[2][1]>>>>
      BY <2>1 DEF Subject
    <3>2. p[1] = <<p[1][1]>> /\ p[2] = <<p[2][1]>>
      BY DEF Undotted
    <3>3. QED  BY <3>1, <3>2
  <2>8. Subject(i) \in subjects
    BY <2>7
  <2>9. index[i] = normalizeFieldForDiff(snapshot[p[1]].fields[p[2]])
    BY <1>2, <2>1, <2>4, <2>6
  <2>10. PICK s : s = Subject(i)
    OBVIOUS
  <2>11. s \in subjects /\ s[1] = "field" /\ s[2] = p[1] /\ s[3] = p[2]
    BY <2>7, <2>8, <2>10
  <2>12. contents[s] = normalizeFieldForDiff(snapshot[p[1]].fields[p[2]])
    BY <1>3, <2>11
  <2>13. QED  BY <2>1, <2>7, <2>8, <2>9, <2>10, <2>12
<1>6. ASSUME NEW j \in DOMAIN taxonomy, NEW i, i = <<"component", j[1], j[2]>>
      PROVE  i \in ids /\ Subject(i) = i /\ i \in subjects /\ index[i] = contents[i]
  <2>1. i \in ids /\ i \in subjects /\ i[1] = "component"
    BY <1>6 DEF Identities
  <2>2. QED  BY <1>2, <1>3, <2>1 DEF Subject
<1>7. DOMAIN index = ids /\ DOMAIN contents = subjects
  BY <1>2, <1>3
<1>8. ASSUME NEW i \in ids PROVE Subject(i) \in subjects /\ index[i] = contents[Subject(i)]
  BY <1>4, <1>5, <1>6 DEF Identities
<1>9. ASSUME NEW s \in subjects PROVE \E i \in ids : s = Subject(i)
  <2>1. CASE \E n \in DOMAIN snapshot : s = <<"object", n>>
    BY <1>4, <2>1
  <2>2. CASE \E p \in FieldsOf(snapshot) : s = <<"field", p[1], p[2]>>
    BY <1>5, <2>2
  <2>3. CASE \E j \in DOMAIN taxonomy : s = <<"component", j[1], j[2]>>
    BY <1>6, <2>3
  <2>4. QED  BY <1>9, <2>1, <2>2, <2>3
<1>10. DOMAIN contents = SubjectsOf(index)
  BY <1>7, <1>8, <1>9 DEF SubjectsOf
<1>11. QED  BY <1>7, <1>8, <1>10

\* Undotted subjects tell identities apart.
LEMMA SubjectsDiffer ==
    ASSUME NEW snapshot, NEW taxonomy, NEW other, NEW components,
           NEW i \in Identities(snapshot, taxonomy), NEW j \in Identities(other, components),
           Subject(i) = Subject(j)
    PROVE  i = j
<1> DEFINE IsField(k) == k[1] = "field" /\ k = <<"field", <<k[2][1], k[2][2]>>>>
<1>1. IsField(i) \/ i[1] \in {"object", "component"}
  BY DEF Identities
<1>2. IsField(j) \/ j[1] \in {"object", "component"}
  BY DEF Identities
<1>3. ASSUME NEW k, IsField(k)
      PROVE  Subject(k) = <<"field", <<k[2][1]>>, <<k[2][2]>>>> /\ Subject(k)[1] = "field"
  BY <1>3 DEF Subject
<1>4. ASSUME NEW k, k[1] \in {"object", "component"} PROVE Subject(k) = k
  BY <1>4 DEF Subject
<1>5. CASE IsField(i) /\ IsField(j)
  <2>1. PICK a, b : a = i[2][1] /\ b = i[2][2]
    OBVIOUS
  <2>2. PICK c, d : c = j[2][1] /\ d = j[2][2]
    OBVIOUS
  <2>3. <<"field", <<a>>, <<b>>>> = <<"field", <<c>>, <<d>>>>
    BY <1>3, <1>5, <2>1, <2>2
  <2>4. a = c /\ b = d
    BY <2>3
  <2>5. QED  BY <1>5, <2>1, <2>2, <2>4
<1>6. CASE i[1] \in {"object", "component"} /\ j[1] \in {"object", "component"}
  BY <1>4, <1>6
<1>7. CASE IsField(i) /\ j[1] \in {"object", "component"}
  BY <1>3, <1>4, <1>7
<1>8. CASE i[1] \in {"object", "component"} /\ IsField(j)
  BY <1>3, <1>4, <1>8
<1>9. QED  BY <1>1, <1>2, <1>5, <1>6, <1>7, <1>8

\* Between undotted snapshots, the plan is the one on contents.
LEMMA PlanOfContents ==
    ASSUME NEW current, NEW snapshot, NEW taxonomy, Undotted(current), Undotted(snapshot),
           NEW from, from = indexSnapshot(current, <<>>),
           NEW to, to = indexSnapshot(snapshot, taxonomy)
    PROVE  diffIndexes(from, to) = Diff(Contents(current, <<>>), Contents(snapshot, taxonomy))
<1>1. PICK before, after : before = Contents(current, <<>>) /\ after = Contents(snapshot, taxonomy)
  OBVIOUS
<1>2. /\ DOMAIN before = {Subject(i) : i \in DOMAIN from}
      /\ \A i \in DOMAIN from : from[i] = before[Subject(i)]
      /\ DOMAIN from = Identities(current, <<>>)
  <2>1. DOMAIN before = SubjectsOf(from)
    BY <1>1, IndexUndotted
  <2>2. (\A i \in DOMAIN from : from[i] = before[Subject(i)]) /\ DOMAIN from = Identities(current, <<>>)
    BY <1>1, IndexUndotted
  <2>3. QED  BY <2>1, <2>2 DEF SubjectsOf
<1>3. /\ DOMAIN after = {Subject(i) : i \in DOMAIN to}
      /\ \A i \in DOMAIN to : to[i] = after[Subject(i)]
      /\ DOMAIN to = Identities(snapshot, taxonomy)
  <2>1. DOMAIN after = SubjectsOf(to)
    BY <1>1, IndexUndotted
  <2>2. (\A i \in DOMAIN to : to[i] = after[Subject(i)]) /\ DOMAIN to = Identities(snapshot, taxonomy)
    BY <1>1, IndexUndotted
  <2>3. QED  BY <2>1, <2>2 DEF SubjectsOf
<1>4. \A i \in DOMAIN from, j \in DOMAIN to : Subject(i) = Subject(j) => i = j
  BY <1>2, <1>3, SubjectsDiffer
<1>5. \A i \in DOMAIN from : Subject(i) \in DOMAIN after <=> i \in DOMAIN to
  BY <1>3, <1>4
<1>6. \A i \in DOMAIN to : Subject(i) \in DOMAIN before <=> i \in DOMAIN from
  BY <1>2, <1>4
<1>7. ASSUME NEW c
      PROVE  c \in diffIndexes(from, to) <=>
                 \/ \E i \in DOMAIN to \ DOMAIN from :
                        c = [action |-> "create", subject |-> Subject(i), after |-> to[i]]
                 \/ \E i \in DOMAIN from \cap DOMAIN to :
                        /\ getPropertyChanges(from[i], to[i]) # {}
                        /\ c = [action |-> "update", subject |-> Subject(i), after |-> to[i]]
                 \/ \E i \in DOMAIN from \ DOMAIN to :
                        c = [action |-> "delete", subject |-> Subject(i), after |-> <<>>]
  BY DEF diffIndexes
<1>8. ASSUME NEW c PROVE c \in diffIndexes(from, to) => c \in Diff(before, after)
  BY <1>2, <1>3, <1>5, <1>6, <1>7, ChangesOfPlan
<1>9. ASSUME NEW c PROVE c \in Diff(before, after) => c \in diffIndexes(from, to)
  <2>1. ASSUME NEW s \in DOMAIN after \ DOMAIN before,
               c = [action |-> "create", subject |-> s, after |-> after[s]]
        PROVE  c \in diffIndexes(from, to)
    <3>1. PICK i \in DOMAIN to : s = Subject(i)
      BY <1>3
    <3>2. QED  BY <1>3, <1>6, <1>7, <2>1, <3>1
  <2>2. ASSUME NEW s \in DOMAIN before \cap DOMAIN after,
               getPropertyChanges(before[s], after[s]) # {},
               c = [action |-> "update", subject |-> s, after |-> after[s]]
        PROVE  c \in diffIndexes(from, to)
    <3>1. PICK i \in DOMAIN to : s = Subject(i)
      BY <1>3
    <3>2. QED  BY <1>2, <1>3, <1>6, <1>7, <2>2, <3>1
  <2>3. ASSUME NEW s \in DOMAIN before \ DOMAIN after,
               c = [action |-> "delete", subject |-> s, after |-> <<>>]
        PROVE  c \in diffIndexes(from, to)
    <3>1. PICK i \in DOMAIN from : s = Subject(i)
      BY <1>2
    <3>2. QED  BY <1>2, <1>5, <1>7, <2>3, <3>1
  <2>4. QED  BY <2>1, <2>2, <2>3, ChangesOfPlan
<1>10. diffIndexes(from, to) = Diff(before, after)
  BY <1>8, <1>9
<1>11. QED  BY <1>1, <1>10

\* PlanReachesTarget, whatever is uploaded to whatever workspace: as long as
\* the names on both sides have no dots, the plan the migration command prints
\* leads from what the database holds to what the files describe.
THEOREM PlansReachTargets == PlanSpec => []PlanReachesTarget
<1>1. PlanReachesTarget
  <2>1. SUFFICES ASSUME NEW target, target = validateFiles(upload),
                        NEW plan, plan = Plan(database, upload),
                        NEW before, before = Contents(database, <<>>),
                        NEW after, after = Contents(target.snapshot, target.taxonomy),
                        Undotted(database), Undotted(target.snapshot)
                 PROVE  /\ DOMAIN Replayed(before, plan) = DOMAIN after
                        /\ \A s \in DOMAIN after :
                               getPropertyChanges(Replayed(before, plan)[s], after[s]) = {}
                        /\ \A c \in plan : c.action = "create" <=> c.subject \notin DOMAIN before
    BY DEF PlanReachesTarget
  <2>2. plan = diffIndexes(indexSnapshot(database, <<>>),
                           indexSnapshot(target.snapshot, target.taxonomy))
    BY <2>1 DEF Plan
  <2>3. plan = Diff(before, after)
    BY <2>1, <2>2, PlanOfContents
  <2>4. QED  BY <2>3, ReplayReaches
<1>2. QED  BY <1>1, PTL

----------------------------------------------------------------------------
(* Assessing: what the reduce over the matched rules returns *)

\* A set of numbers that is not empty has a least one: induction, for a set.
LEMMA LeastPosition ==
    ASSUME NEW T \in SUBSET Nat, T # {}
    PROVE  \E m \in T : \A k \in T : ~(k < m)
<1>1. PICK m \in T : \A k \in T : ~(<<k, m>> \in OpToRel(<, Nat))
  BY NatLessThanWellFounded, WFMin
<1>2. \A k \in T : k < m => <<k, m>> \in OpToRel(<, Nat)
  BY DEF OpToRel
<1>3. QED  BY <1>1, <1>2

\* The rows of all tables.
TableRow == {tbl[id] : tbl \in Tables, id \in RuleIds}

RiskLevels == {RISK_ORDER[i] : i \in DOMAIN RISK_ORDER}

LEMMA RowsAreRules ==
    ASSUME NEW row \in TableRow
    PROVE  row.riskLevel \in RiskLevels /\ row.priority \in Nat
BY RulesAssumption DEF TableRow, IsRule, RiskLevels

\* Ranks are numbers, and tell levels apart.
LEMMA RanksAreNumbers ==
    ASSUME NEW level \in RiskLevels
    PROVE  RiskRank(level) \in Nat /\ RISK_ORDER[RiskRank(level)] = level
<1>1. \E i \in DOMAIN RISK_ORDER : RISK_ORDER[i] = level
  BY DEF RiskLevels
<1>2. RiskRank(level) \in DOMAIN RISK_ORDER /\ RISK_ORDER[RiskRank(level)] = level
  BY <1>1, Zenon DEF RiskRank
<1>3. DOMAIN RISK_ORDER = 1..5
  BY DEF RISK_ORDER
<1>4. QED  BY <1>2, <1>3

\* What a rule does not beat, it does not beat in what beats that either.
LEMMA BeatsIsAnOrder ==
    ASSUME NEW a \in TableRow, NEW b \in TableRow, NEW c \in TableRow,
           ~Beats(a, b), Beats(c, b)
    PROVE  ~Beats(a, c)
<1>1. /\ RiskRank(a.riskLevel) \in Nat /\ RiskRank(b.riskLevel) \in Nat /\ RiskRank(c.riskLevel) \in Nat
      /\ a.priority \in Nat /\ b.priority \in Nat /\ c.priority \in Nat
  BY RowsAreRules, RanksAreNumbers
<1>2. /\ RISK_ORDER[RiskRank(a.riskLevel)] = a.riskLevel
      /\ RISK_ORDER[RiskRank(b.riskLevel)] = b.riskLevel
      /\ RISK_ORDER[RiskRank(c.riskLevel)] = c.riskLevel
  BY RowsAreRules, RanksAreNumbers
<1>3. QED  BY <1>1, <1>2 DEF Beats

LEMMA BeatsNotItself ==
    ASSUME NEW a \in TableRow
    PROVE  ~Beats(a, a)
<1>1. RiskRank(a.riskLevel) \in Nat /\ a.priority \in Nat
  BY RowsAreRules, RanksAreNumbers
<1>2. QED  BY <1>1 DEF Beats

\* f holds, for every prefix of the rules up to n, the position of its highest.
Leads(f, rules, matched, n) ==
    f = [i \in 0..n |->
            IF i = 0 THEN 0
            ELSE IF i \in matched /\ (f[i - 1] # 0 => Beats(rules[i], rules[f[i - 1]]))
            THEN i ELSE f[i - 1]]

\* One more rule continues the reduce.
LEMMA LeadsExtend ==
    ASSUME NEW rules, NEW matched, NEW m \in Nat, NEW g, Leads(g, rules, matched, m),
           NEW next, next = IF m + 1 \in matched /\ (g[m] # 0 => Beats(rules[m + 1], rules[g[m]]))
                            THEN m + 1 ELSE g[m],
           NEW f, f = [i \in 0..(m + 1) |-> IF i = m + 1 THEN next ELSE g[i]]
    PROVE  Leads(f, rules, matched, m + 1)
<1> DEFINE Step(h, i) == IF i = 0 THEN 0
                         ELSE IF i \in matched /\ (h[i - 1] # 0 => Beats(rules[i], rules[h[i - 1]]))
                         THEN i ELSE h[i - 1]
<1>1. \A i \in 0..m : g[i] = Step(g, i)
  BY Zenon DEF Leads
<1>2. ASSUME NEW i \in 0..(m + 1)
      PROVE  f[i] = Step(f, i)
  <2>1. CASE i = 0
    <3>1. 0 \in 0..m /\ 0 \in 0..(m + 1) /\ 0 # m + 1
      OBVIOUS
    <3>2. f[0] = g[0] /\ g[0] = 0
      BY <1>1, <3>1
    <3>3. QED  BY <2>1, <3>2
  <2>2. CASE i \in 1..m
    <3>1. f[i] = g[i] /\ f[i - 1] = g[i - 1] /\ i \in 0..m
      BY <2>2
    <3>2. Step(f, i) = Step(g, i)
      BY <3>1, Zenon
    <3>3. QED  BY <1>1, <3>1, <3>2
  <2>3. CASE i = m + 1
    <3>1. f[i - 1] = g[m] /\ f[i] = next /\ i # 0
      BY <2>3
    <3>2. Step(f, i) = next
      BY <2>3, <3>1, Zenon
    <3>3. QED  BY <3>1, <3>2
  <2>4. QED  BY <2>1, <2>2, <2>3
<1>3. f = [i \in 0..(m + 1) |-> f[i]]
  OBVIOUS
<1>4. QED  BY <1>2, <1>3, Zenon DEF Leads

LEMMA LeadsExist ==
    ASSUME NEW rules, NEW matched, NEW n \in Nat
    PROVE  \E f : Leads(f, rules, matched, n)
<1> DEFINE Missing == {m \in 0..n : ~\E f : Leads(f, rules, matched, m)}
<1>1. SUFFICES ASSUME Missing # {} PROVE FALSE
  OBVIOUS
<1>2. PICK m \in Missing : \A k \in Missing : ~(k < m)
  <2>1. Missing \in SUBSET Nat
    OBVIOUS
  <2> HIDE DEF Missing
  <2>2. QED  BY <1>1, <2>1, LeastPosition
<1>3. m \in 0..n /\ ~\E f : Leads(f, rules, matched, m)
  BY <1>2
<1>4. CASE m = 0
  <2>1. PICK f : f = [i \in 0..0 |-> 0]
    OBVIOUS
  <2>2. ASSUME NEW i \in 0..0
        PROVE  f[i] = IF i = 0 THEN 0
                      ELSE IF i \in matched /\ (f[i - 1] # 0 => Beats(rules[i], rules[f[i - 1]]))
                      THEN i ELSE f[i - 1]
    BY <2>1
  <2>3. f = [i \in 0..0 |-> f[i]]
    BY <2>1
  <2>4. Leads(f, rules, matched, 0)
    BY <2>2, <2>3, Zenon DEF Leads
  <2>5. QED  BY <1>3, <1>4, <2>4
<1>5. CASE m # 0
  <2>1. PICK k \in Nat : k = m - 1
    BY <1>3, <1>5
  <2>2. k \in 0..n /\ k < m /\ k + 1 = m
    BY <1>3, <1>5, <2>1
  <2>3. k \notin Missing
    BY <1>2, <2>2
  <2>4. PICK g : Leads(g, rules, matched, k)
    BY <2>2, <2>3
  <2>5. PICK next : next = IF k + 1 \in matched /\ (g[k] # 0 => Beats(rules[k + 1], rules[g[k]]))
                           THEN k + 1 ELSE g[k]
    OBVIOUS
  <2>6. PICK f : f = [i \in 0..(k + 1) |-> IF i = k + 1 THEN next ELSE g[i]]
    OBVIOUS
  <2>7. Leads(f, rules, matched, k + 1)
    BY <2>4, <2>5, <2>6, LeadsExtend
  <2>8. QED  BY <1>3, <2>2, <2>7
<1>6. QED  BY <1>4, <1>5

\* Nobody of the matched rules in a prefix beats the one it holds.
Unbeaten(rules, matched, i, k) ==
    IF k = 0 THEN \A j \in matched : ~(j <= i)
    ELSE k \in matched /\ \A j \in matched : j <= i => ~Beats(rules[j], rules[k])

LEMMA LeadsUnbeaten ==
    ASSUME NEW rules \in Seq(TableRow), NEW matched \in SUBSET (1..Len(rules)),
           NEW f, Leads(f, rules, matched, Len(rules))
    PROVE  \A i \in 0..Len(rules) : Unbeaten(rules, matched, i, f[i])
<1> DEFINE Wrong == {i \in 0..Len(rules) : ~Unbeaten(rules, matched, i, f[i])}
<1>1. SUFFICES ASSUME Wrong # {} PROVE FALSE
  OBVIOUS
<1>2. PICK i \in Wrong : \A k \in Wrong : ~(k < i)
  <2>1. Wrong \in SUBSET Nat
    OBVIOUS
  <2> HIDE DEF Wrong
  <2>2. QED  BY <1>1, <2>1, LeastPosition
<1>3. i \in 0..Len(rules) /\ ~Unbeaten(rules, matched, i, f[i]) /\ Len(rules) \in Nat
  BY <1>2
<1>4. f[i] = IF i = 0 THEN 0
             ELSE IF i \in matched /\ (f[i - 1] # 0 => Beats(rules[i], rules[f[i - 1]]))
             THEN i ELSE f[i - 1]
  BY <1>3 DEF Leads
<1>5. ASSUME NEW j \in matched
      PROVE  j \in 1..Len(rules) /\ rules[j] \in TableRow
  OBVIOUS
<1>6. i # 0
  BY <1>3, <1>4, <1>5 DEF Unbeaten
<1>7. PICK k : k = f[i - 1]
  OBVIOUS
<1>8. Unbeaten(rules, matched, i - 1, k)
  <2>1. i - 1 \in 0..Len(rules) /\ i - 1 < i
    BY <1>3, <1>6
  <2>2. i - 1 \notin Wrong
    BY <1>2, <2>1
  <2>3. QED  BY <1>7, <2>1, <2>2
<1>9. \A j \in matched : j <= i => j <= i - 1 \/ j = i
  BY <1>3, <1>5
<1>10. CASE i \notin matched
  <2>1. f[i] = k
    BY <1>4, <1>6, <1>7, <1>10
  <2>2. QED  BY <1>3, <1>8, <1>9, <1>10, <2>1 DEF Unbeaten
<1>11. CASE i \in matched /\ k = 0
  <2>1. f[i] = i
    BY <1>4, <1>6, <1>7, <1>11
  <2>2. ~Beats(rules[i], rules[i])
    BY <1>5, <1>11, BeatsNotItself
  <2>3. QED  BY <1>3, <1>6, <1>8, <1>9, <1>11, <2>1, <2>2 DEF Unbeaten
<1>12. CASE i \in matched /\ k # 0 /\ Beats(rules[i], rules[k])
  <2>1. f[i] = i
    BY <1>4, <1>6, <1>7, <1>12
  <2>2. k \in matched /\ \A j \in matched : j <= i - 1 => ~Beats(rules[j], rules[k])
    BY <1>8, <1>12 DEF Unbeaten
  <2>3. ASSUME NEW j \in matched, j <= i
        PROVE  ~Beats(rules[j], rules[i])
    <3>1. rules[j] \in TableRow /\ rules[i] \in TableRow /\ rules[k] \in TableRow
      BY <1>5, <1>12, <2>2
    <3>2. CASE j = i
      BY <3>1, <3>2, BeatsNotItself
    <3>3. CASE j <= i - 1
      BY <1>12, <2>2, <3>1, <3>3, BeatsIsAnOrder
    <3>4. QED  BY <1>9, <2>3, <3>2, <3>3
  <2>4. QED  BY <1>3, <1>6, <1>12, <2>1, <2>3 DEF Unbeaten
<1>13. CASE i \in matched /\ k # 0 /\ ~Beats(rules[i], rules[k])
  <2>1. f[i] = k
    BY <1>4, <1>6, <1>7, <1>13
  <2>2. QED  BY <1>3, <1>8, <1>9, <1>13, <2>1 DEF Unbeaten
<1>14. QED  BY <1>10, <1>11, <1>12, <1>13

\* The reduce returns a matched rule that no matched rule beats.
LEMMA AssessedIsUnbeaten ==
    ASSUME NEW rules \in Seq(TableRow), NEW matched \in SUBSET (1..Len(rules)), matched # {}
    PROVE  \E k \in matched : /\ assessRisk(rules, matched) = rules[k]
                              /\ \A j \in matched : ~Beats(rules[j], rules[k])
<1> DEFINE f == CHOOSE f : f = [i \in 0..Len(rules) |->
                    IF i = 0 THEN 0
                    ELSE IF i \in matched /\ (f[i - 1] # 0 => Beats(rules[i], rules[f[i - 1]]))
                    THEN i ELSE f[i - 1]]
<1>1. Len(rules) \in Nat
  OBVIOUS
<1>2. Leads(f, rules, matched, Len(rules))
  <2>1. \E h : Leads(h, rules, matched, Len(rules))
    BY <1>1, LeadsExist
  <2>2. QED  BY <2>1, Zenon DEF Leads
<1>3. assessRisk(rules, matched) = rules[f[Len(rules)]]
  BY Zenon DEF assessRisk
<1> HIDE DEF f
<1>4. Unbeaten(rules, matched, Len(rules), f[Len(rules)])
  <2>1. Len(rules) \in 0..Len(rules)
    BY <1>1
  <2>2. QED  BY <1>2, <2>1, LeadsUnbeaten
<1>5. \A j \in matched : j <= Len(rules)
  OBVIOUS
<1>6. QED  BY <1>3, <1>4, <1>5 DEF Unbeaten

\* What find() returns has every active rule of the scope in some place.
LEMMA FoundHasAll ==
    ASSUME NEW tbl \in Tables, NEW scope, NEW order \in Found(tbl, scope)
    PROVE  /\ order \in [1..Cardinality(InScope(tbl, scope)) -> InScope(tbl, scope)]
           /\ Cardinality(InScope(tbl, scope)) \in Nat
           /\ \A id \in InScope(tbl, scope) : \E i \in DOMAIN order : order[i] = id
<1> DEFINE S == InScope(tbl, scope)
<1>1. IsFiniteSet(S)
  BY RulesAssumption, FS_Subset DEF InScope
<1>2. Cardinality(S) \in Nat
  BY <1>1, FS_CardinalityType
<1>3. order \in [1..Cardinality(S) -> S]
  BY DEF Found
<1>4. \A i, j \in 1..Cardinality(S) : i # j => order[i] # order[j]
  <2>1. \A i, j \in 1..Cardinality(S) : i < j => order[i] # order[j]
    BY <1>3 DEF Found
  <2>2. \A i, j \in 1..Cardinality(S) : i < j \/ j < i \/ i = j
    BY <1>2
  <2>3. QED  BY <2>1, <2>2
<1>5. order \in Injection(1..Cardinality(S), S)
  BY <1>3, <1>4 DEF Injection, IsInjective
<1>6. Cardinality(1..Cardinality(S)) = Cardinality(S)
  BY <1>2, FS_Interval
<1>7. order \in Surjection(1..Cardinality(S), S)
  BY <1>1, <1>5, <1>6, FS_Injection
<1>8. \A id \in S : \E i \in 1..Cardinality(S) : order[i] = id
  BY <1>7 DEF Surjection
<1>9. QED  BY <1>2, <1>3, <1>8

\* The rules are what find() returned when the table was tbl.
Reads(rules, scope, tbl) ==
    \E order \in Found(tbl, scope) : rules = [i \in DOMAIN order |-> tbl[order[i]]]

\* Such rules hold the active rules of the scope, and nothing else.
LEMMA ReadRules ==
    ASSUME NEW tbl \in Tables, NEW scope, NEW rules, Reads(rules, scope, tbl)
    PROVE  /\ rules \in Seq(TableRow)
           /\ \A i \in 1..Len(rules) : \E id \in InScope(tbl, scope) : rules[i] = tbl[id]
           /\ \A id \in InScope(tbl, scope) : \E i \in 1..Len(rules) : rules[i] = tbl[id]
<1>1. PICK order \in Found(tbl, scope) : rules = [i \in DOMAIN order |-> tbl[order[i]]]
  BY DEF Reads
<1>2. PICK n \in Nat : n = Cardinality(InScope(tbl, scope))
  BY <1>1, FoundHasAll
<1>3. /\ order \in [1..n -> InScope(tbl, scope)]
      /\ \A id \in InScope(tbl, scope) : \E i \in DOMAIN order : order[i] = id
  BY <1>1, <1>2, FoundHasAll
<1>4. \A id \in InScope(tbl, scope) : tbl[id] \in TableRow
  BY DEF InScope, TableRow
<1>5. rules \in [1..n -> TableRow]
  BY <1>1, <1>3, <1>4
<1>6. rules \in Seq(TableRow) /\ Len(rules) = n
  BY <1>5
<1>7. QED  BY <1>1, <1>3, <1>5, <1>6

Verdict == [matched : BOOLEAN, riskLevel : RiskLevels, priority : Nat,
            action : {"allow", "audit", "confirm", "approve", "block"}]

\* Evaluating them gives the strictest verdict the table had for the scope.
LEMMA EvaluationIsStrictest ==
    ASSUME NEW tbl \in Tables, NEW scope, NEW rules, Reads(rules, scope, tbl), NEW request
    PROVE  /\ evaluate(rules, request) \in Verdict
           /\ Strictest(tbl, scope, request, evaluate(rules, request))
<1>1. PICK op : op = extractOperation(request.tool, request.input)
  OBVIOUS
<1>2. PICK matched : matched = matchRules(op, rules)
  OBVIOUS
<1>3. PICK given : given = evaluate(rules, request)
  OBVIOUS
<1>4. rules \in Seq(TableRow)
  BY ReadRules
<1>5. matched = {i \in 1..Len(rules) : matchRule(op, rules[i])}
  BY <1>2, <1>4 DEF matchRules
<1>6. PICK hit : hit = {id \in InScope(tbl, scope) : matchRule(op, tbl[id])}
  OBVIOUS
<1>7. \A i \in matched : \E id \in hit : rules[i] = tbl[id]
  BY <1>5, <1>6, ReadRules
<1>8. \A id \in hit : \E i \in matched : rules[i] = tbl[id]
  BY <1>5, <1>6, ReadRules
<1>9. CASE matched = {}
  <2>1. given = [matched |-> FALSE, riskLevel |-> "L0", action |-> "allow", priority |-> 0]
    BY <1>1, <1>2, <1>3, <1>9, Zenon DEF evaluate
  <2>2. "L0" \in RiskLevels
    BY DEF RiskLevels, RISK_ORDER
  <2>3. given \in Verdict
    BY <2>1, <2>2 DEF Verdict
  <2>4. hit = {} /\ ~given.matched
    BY <1>8, <1>9, <2>1
  <2>5. Strictest(tbl, scope, request, given)
    BY <1>1, <1>6, <2>4 DEF Strictest
  <2>6. QED  BY <1>3, <2>3, <2>5
<1>10. CASE matched # {}
  <2>1. PICK k \in matched : /\ assessRisk(rules, matched) = rules[k]
                             /\ \A j \in matched : ~Beats(rules[j], rules[k])
    BY <1>4, <1>5, <1>10, AssessedIsUnbeaten
  <2>2. PICK top : top = rules[k]
    OBVIOUS
  <2>3. top \in TableRow
    BY <1>4, <1>5, <2>1, <2>2
  <2>4. given = [matched |-> TRUE, riskLevel |-> top.riskLevel, priority |-> top.priority,
                 action |-> mapRiskToAction(top.riskLevel)]
    BY <1>1, <1>2, <1>3, <1>10, <2>1, <2>2, Zenon DEF evaluate
  <2>5. given.matched /\ given.riskLevel = top.riskLevel /\ given.priority = top.priority
    BY <2>4
  <2>6. given \in Verdict
    <3>1. mapRiskToAction(top.riskLevel) \in {"allow", "audit", "confirm", "approve", "block"}
      BY DEF mapRiskToAction
    <3>2. top.riskLevel \in RiskLevels /\ top.priority \in Nat
      BY <2>3, RowsAreRules
    <3>3. QED  BY <2>4, <3>1, <3>2 DEF Verdict
  <2>7. PICK id \in hit : top = tbl[id]
    BY <1>7, <2>1, <2>2
  <2>8. ASSUME NEW other \in hit
        PROVE  \/ RiskRank(tbl[other].riskLevel) < RiskRank(given.riskLevel)
               \/ /\ RiskRank(tbl[other].riskLevel) = RiskRank(given.riskLevel)
                  /\ given.priority <= tbl[other].priority
    <3>1. PICK j \in matched : rules[j] = tbl[other]
      BY <1>8
    <3>2. PICK row \in TableRow : row = tbl[other]
      BY <1>4, <1>5, <3>1
    <3>3. ~Beats(row, top)
      BY <2>1, <2>2, <3>1, <3>2
    <3>4. /\ RiskRank(row.riskLevel) \in Nat /\ RISK_ORDER[RiskRank(row.riskLevel)] = row.riskLevel
          /\ RiskRank(top.riskLevel) \in Nat /\ RISK_ORDER[RiskRank(top.riskLevel)] = top.riskLevel
          /\ row.priority \in Nat /\ top.priority \in Nat
      BY <2>3, <3>2, RowsAreRules, RanksAreNumbers
    <3>5. \/ RiskRank(row.riskLevel) < RiskRank(top.riskLevel)
          \/ /\ RiskRank(row.riskLevel) = RiskRank(top.riskLevel)
             /\ top.priority <= row.priority
      BY <3>3, <3>4 DEF Beats
    <3>6. QED  BY <2>5, <3>2, <3>5
  <2>9. Strictest(tbl, scope, request, given)
    BY <1>1, <1>6, <2>5, <2>7, <2>8, Zenon DEF Strictest
  <2>10. QED  BY <1>3, <2>6, <2>9
<1>11. QED  BY <1>9, <1>10

----------------------------------------------------------------------------
(* The cache *)

Load == [at : {"idle", "find", "store", "done"}, scope : SUBSET RuleIds, rules : Seq(TableRow),
         aged : BOOLEAN, request : ToolInputs \cup {Undefined},
         given : Verdict \cup {Undefined}, ended : Nat]

RulesTypeOK ==
    /\ table \in Tables
    /\ cache \in [Scopes -> {Undefined} \cup [rules : Seq(TableRow), until : Nat]]
    /\ clock \in Nat
    /\ loads \in [Evaluators -> Load]
    /\ retired \subseteq [rules : Tables, until : Nat]

\* An entry was stored no later than now, from rules in force when they were
\* found, which was no more than one tick earlier.
EntryOK(scope, entry) ==
    /\ entry.until <= clock + TTL
    /\ \E tbl \in InForce(TTL + 1, entry.until) : Reads(entry.rules, scope, tbl)

\* A load holds rules of its scope that were in force when they were found, and
\* its flag tells whether the clock may have ticked since; a verdict was right
\* for rules the cache may still have held when it was given.
LoadOK(load) ==
    /\ load.at \in {"find", "store"} => load.scope \in Scopes
    /\ load.at = "store" =>
           \E tbl \in InForce(IF load.aged THEN 1 ELSE 0, clock) : Reads(load.rules, load.scope, tbl)
    /\ load.at = "done" =>
           /\ load.ended <= clock
           /\ \E tbl \in InForce(TTL, load.ended) :
                  Strictest(tbl, load.scope, load.request, load.given)

RulesInvariant ==
    /\ RulesTypeOK
    /\ \A scope \in Scopes : cache[scope] # Undefined => EntryOK(scope, cache[scope])
    /\ \A e \in Evaluators : LoadOK(loads[e])

LEMMA InForceAreTables ==
    ASSUME RulesTypeOK, NEW age, NEW time
    PROVE  InForce(age, time) \subseteq Tables
BY DEF RulesTypeOK, InForce

\* An earlier time, or a greater age, admits more.
LEMMA InForceGrows ==
    ASSUME RulesTypeOK, NEW age \in Nat, NEW time \in Nat, NEW more \in Nat, NEW earlier \in Nat,
           earlier + age <= time + more
    PROVE  InForce(age, time) \subseteq InForce(more, earlier)
BY DEF RulesTypeOK, InForce

\* An edit retires rules no earlier than now.
LEMMA InForceAfterEdit ==
    ASSUME RulesTypeOK, EditRules, NEW age \in Nat, NEW time \in Nat, time <= clock + age
    PROVE  InForce(age, time) \subseteq InForce(age, time)'
<1>1. retired' = retired \cup {[rules |-> table, until |-> clock]}
  BY DEF EditRules
<1>2. clock \in Nat /\ clock + age >= time
  BY DEF RulesTypeOK
<1>3. ASSUME NEW tbl \in InForce(age, time)
      PROVE  tbl \in InForce(age, time)'
  <2>1. CASE tbl = table
    <3>1. PICK gone : gone = [rules |-> table, until |-> clock]
      OBVIOUS
    <3>2. gone \in retired' /\ gone.rules = tbl /\ gone.until + age >= time
      BY <1>1, <1>2, <2>1, <3>1
    <3>3. QED  BY <3>2 DEF InForce
  <2>2. CASE tbl # table
    <3>1. PICK gone \in retired : gone.until + age >= time /\ gone.rules = tbl
      BY <1>3, <2>2 DEF InForce
    <3>2. gone \in retired'
      BY <1>1
    <3>3. QED  BY <3>1, <3>2 DEF InForce
  <2>3. QED  BY <2>1, <2>2
<1>4. QED  BY <1>3

\* A verdict given from rules that were in force no more than TTL ago.
LEMMA AnswersOK ==
    ASSUME RulesTypeOK, NEW scope \in Scopes, NEW rules, NEW tbl \in InForce(TTL, clock),
           Reads(rules, scope, tbl), NEW answer \in Answered(scope, rules)
    PROVE  answer \in Load /\ LoadOK(answer)
<1>1. PICK request \in ToolInputs :
          answer = [NoLoad EXCEPT !.at = "done", !.scope = scope, !.request = request,
                                  !.given = evaluate(rules, request), !.ended = clock]
  BY DEF Answered
<1>2. PICK given : given = evaluate(rules, request)
  OBVIOUS
<1>3. /\ answer.at = "done" /\ answer.scope = scope /\ answer.rules = <<>> /\ answer.aged = FALSE
      /\ answer.request = request /\ answer.given = given /\ answer.ended = clock
      /\ answer = [at |-> "done", scope |-> scope, rules |-> <<>>, aged |-> FALSE,
                   request |-> request, given |-> given, ended |-> clock]
  BY <1>1, <1>2 DEF NoLoad
<1>4. tbl \in Tables
  BY InForceAreTables
<1>5. given \in Verdict /\ Strictest(tbl, scope, request, given)
  BY <1>2, <1>4, EvaluationIsStrictest
<1>6. scope \subseteq RuleIds /\ clock \in Nat /\ <<>> \in Seq(TableRow)
  BY RulesAssumption DEF RulesTypeOK
<1>7. answer \in Load
  BY <1>3, <1>5, <1>6 DEF Load
<1>8. LoadOK(answer)
  BY <1>3, <1>5, <1>6 DEF LoadOK
<1>9. QED  BY <1>7, <1>8

\* Rules that are neither edited nor aged leave everybody's rules where they are.
SameTimes == UNCHANGED <<table, clock, retired>>

LEMMA LoadsStayOK ==
    ASSUME SameTimes, NEW load
    PROVE  LoadOK(load)' <=> LoadOK(load)
BY DEF SameTimes, LoadOK, InForce

LEMMA EntriesStayOK ==
    ASSUME SameTimes, NEW scope, NEW entry
    PROVE  EntryOK(scope, entry)' <=> EntryOK(scope, entry)
BY DEF SameTimes, EntryOK, InForce

\* An evaluator's step leaves the others' loads alone.
LEMMA EvaluatorStep ==
    ASSUME RulesInvariant, SameTimes, NEW e \in Evaluators, NEW load, load \in Load, LoadOK(load),
           loads' = [loads EXCEPT ![e] = load]
    PROVE  /\ loads' \in [Evaluators -> Load]
           /\ \A o \in Evaluators : LoadOK(loads[o])'
<1>1. loads \in [Evaluators -> Load]
  BY DEF RulesInvariant, RulesTypeOK
<1>2. loads' \in [Evaluators -> Load]
  BY <1>1
<1>3. ASSUME NEW o \in Evaluators
      PROVE  LoadOK(loads[o])'
  <2>1. PICK new : new = loads'[o]
    OBVIOUS
  <2>2. LoadOK(new)
    BY <1>1, <2>1 DEF RulesInvariant
  <2>3. LoadOK(new)'
    BY <2>2, LoadsStayOK
  <2>4. QED  BY <2>1, <2>3 DEF LoadOK, InForce
<1>4. QED  BY <1>2, <1>3

\* What is cached stays right while neither cache nor rules change.
LEMMA CacheStays ==
    ASSUME RulesInvariant, SameTimes, cache' = cache, loads' \in [Evaluators -> Load],
           \A o \in Evaluators : LoadOK(loads[o])'
    PROVE  RulesInvariant'
<1>1. RulesTypeOK'
  BY DEF RulesInvariant, RulesTypeOK, SameTimes
<1>2. ASSUME NEW scope \in Scopes, cache'[scope] # Undefined
      PROVE  EntryOK(scope, cache[scope])'
  <2>1. PICK entry : entry = cache[scope]
    OBVIOUS
  <2>2. EntryOK(scope, entry)
    BY <1>2, <2>1 DEF RulesInvariant
  <2>3. EntryOK(scope, entry)'
    BY <2>2, EntriesStayOK
  <2>4. QED  BY <2>1, <2>3
<1>3. QED  BY <1>1, <1>2 DEF RulesInvariant

----------------------------------------------------------------------------
(* Every step preserves the invariant *)

LEMMA RulesInitially == RulesInit => RulesInvariant
<1> SUFFICES ASSUME RulesInit PROVE RulesInvariant
  OBVIOUS
<1>1. NoLoad \in Load
  BY DEF NoLoad, Load
<1>2. RulesTypeOK
  BY <1>1 DEF RulesInit, RulesTypeOK
<1>3. \A e \in Evaluators : LoadOK(loads[e])
  BY DEF RulesInit, LoadOK, NoLoad
<1>4. QED  BY <1>2, <1>3 DEF RulesInit, RulesInvariant

LEMMA CacheHitSafe ==
    ASSUME RulesInvariant, NEW e \in Evaluators, CacheHit(e)
    PROVE  RulesInvariant'
<1>1. SameTimes /\ cache' = cache
  BY DEF CacheHit, SameTimes
<1>2. PICK scope \in Scopes :
          /\ cache[cacheKey(scope)] # Undefined /\ cache[cacheKey(scope)].until > clock
          /\ \E answer \in Answered(scope, cache[cacheKey(scope)].rules) :
                 loads' = [loads EXCEPT ![e] = answer]
  BY DEF CacheHit
<1>3. PICK entry : entry = cache[scope]
  OBVIOUS
<1>4. PICK answer \in Answered(scope, entry.rules) : loads' = [loads EXCEPT ![e] = answer]
  BY <1>2, <1>3 DEF cacheKey
<1>5. entry # Undefined /\ entry.until > clock
  BY <1>2, <1>3 DEF cacheKey
<1>6. RulesTypeOK /\ EntryOK(scope, entry)
  BY <1>3, <1>5 DEF RulesInvariant
<1>7. PICK tbl \in InForce(TTL + 1, entry.until) : Reads(entry.rules, scope, tbl)
  BY <1>6 DEF EntryOK
<1>8. tbl \in InForce(TTL, clock)
  <2>1. entry.until \in Nat /\ clock \in Nat /\ TTL \in Nat
    BY <1>3, <1>5, <1>6, RulesAssumption DEF RulesTypeOK
  <2>2. clock + (TTL + 1) <= entry.until + TTL /\ TTL + 1 \in Nat
    BY <1>5, <2>1
  <2>3. InForce(TTL + 1, entry.until) \subseteq InForce(TTL, clock)
    BY <1>6, <2>1, <2>2, InForceGrows
  <2>4. QED  BY <1>7, <2>3
<1>9. answer \in Load /\ LoadOK(answer)
  BY <1>4, <1>6, <1>7, <1>8, AnswersOK
<1>10. QED  BY <1>1, <1>4, <1>9, EvaluatorStep, CacheStays

LEMMA CacheMissSafe ==
    ASSUME RulesInvariant, NEW e \in Evaluators, CacheMiss(e)
    PROVE  RulesInvariant'
<1>1. SameTimes /\ cache' = cache
  BY DEF CacheMiss, SameTimes
<1>2. PICK scope \in Scopes : loads' = [loads EXCEPT ![e].at = "find", ![e].scope = scope]
  BY DEF CacheMiss
<1>3. PICK old \in Load : old = loads[e]
  BY DEF RulesInvariant, RulesTypeOK
<1>4. PICK load : load = [old EXCEPT !.at = "find", !.scope = scope]
  OBVIOUS
<1>5. load \in Load /\ load.at = "find" /\ load.scope = scope
  BY <1>3, <1>4, RulesAssumption DEF Load
<1>6. loads' = [loads EXCEPT ![e] = load]
  BY <1>2, <1>3, <1>4
<1>7. LoadOK(load)
  BY <1>5 DEF LoadOK
<1>8. QED  BY <1>1, <1>5, <1>6, <1>7, EvaluatorStep, CacheStays

\* The rules found are those of the table as it is.
LEMMA FindSafe ==
    ASSUME RulesInvariant, NEW e \in Evaluators, Find(e)
    PROVE  RulesInvariant'
<1>1. SameTimes /\ cache' = cache
  BY DEF Find, SameTimes
<1>2. PICK old \in Load : old = loads[e]
  BY DEF RulesInvariant, RulesTypeOK
<1>3. old.at = "find" /\ old.scope \in Scopes
  BY <1>2 DEF Find, Loading, RulesInvariant, LoadOK
<1>4. PICK order \in Found(table, old.scope) :
          loads' = [loads EXCEPT ![e].at = "store", ![e].rules = [i \in DOMAIN order |-> table[order[i]]]]
  BY <1>2 DEF Find
<1>5. PICK rules : rules = [i \in DOMAIN order |-> table[order[i]]]
  OBVIOUS
<1>6. PICK load : load = [old EXCEPT !.at = "store", !.rules = rules]
  OBVIOUS
<1>7. Reads(rules, old.scope, table)
  BY <1>5 DEF Reads
<1>8. table \in Tables
  BY DEF RulesInvariant, RulesTypeOK
<1>9. rules \in Seq(TableRow)
  BY <1>7, <1>8, ReadRules
<1>10. load \in Load /\ load.at = "store" /\ load.scope = old.scope /\ load.rules = rules
  BY <1>2, <1>6, <1>9 DEF Load
<1>11. loads' = [loads EXCEPT ![e] = load]
  BY <1>2, <1>4, <1>5, <1>6
<1>12. LoadOK(load)
  BY <1>3, <1>7, <1>10 DEF LoadOK, InForce
<1>13. QED  BY <1>1, <1>10, <1>11, <1>12, EvaluatorStep, CacheStays

\* The cached rules, and the verdict, are one tick old at most: less than TTL.
LEMMA StoreSafe ==
    ASSUME RulesInvariant, NEW e \in Evaluators, Store(e)
    PROVE  RulesInvariant'
<1>1. SameTimes
  BY DEF Store, SameTimes
<1>2. PICK old \in Load : old = loads[e]
  BY DEF RulesInvariant, RulesTypeOK
<1>3. old.at = "store" /\ old.scope \in Scopes /\ LoadOK(old)
  BY <1>2 DEF Store, Loading, RulesInvariant, LoadOK
<1>4. RulesTypeOK /\ clock \in Nat /\ TTL \in Nat /\ TTL >= 1
  BY RulesAssumption DEF RulesInvariant, RulesTypeOK
<1>5. PICK tbl \in InForce(1, clock) : Reads(old.rules, old.scope, tbl)
  <2>1. PICK tbl \in InForce(IF old.aged THEN 1 ELSE 0, clock) : Reads(old.rules, old.scope, tbl)
    BY <1>3 DEF LoadOK
  <2>2. InForce(0, clock) \subseteq InForce(1, clock)
    BY <1>4, InForceGrows
  <2>3. QED  BY <2>1, <2>2
<1>6. tbl \in InForce(TTL, clock)
  BY <1>4, <1>5, InForceGrows
<1>7. PICK answer \in Answered(old.scope, old.rules) : loads' = [loads EXCEPT ![e] = answer]
  BY <1>2 DEF Store
<1>8. answer \in Load /\ LoadOK(answer)
  BY <1>3, <1>4, <1>5, <1>6, <1>7, AnswersOK
<1>9. loads' \in [Evaluators -> Load] /\ \A o \in Evaluators : LoadOK(loads[o])'
  BY <1>1, <1>7, <1>8, EvaluatorStep
<1>10. CASE cache' = cache
  BY <1>1, <1>9, <1>10, CacheStays
<1>11. CASE cache' = [cache EXCEPT ![cacheKey(old.scope)] = [rules |-> old.rules, until |-> clock + TTL]]
  <2>1. PICK entry : entry = [rules |-> old.rules, until |-> clock + TTL]
    OBVIOUS
  <2>2. entry.rules = old.rules /\ entry.until = clock + TTL
    BY <2>1
  <2>3. entry \in [rules : Seq(TableRow), until : Nat]
    BY <1>2, <1>4, <2>1 DEF Load
  <2>4. cache' = [cache EXCEPT ![old.scope] = entry]
    BY <1>11, <2>1 DEF cacheKey
  <2>5. EntryOK(old.scope, entry)
    <3>1. InForce(1, clock) \subseteq InForce(TTL + 1, clock + TTL)
      <4>1. clock + TTL + 1 <= clock + (TTL + 1) /\ TTL + 1 \in Nat /\ clock + TTL \in Nat
        BY <1>4
      <4>2. QED  BY <1>4, <4>1, InForceGrows
    <3>2. QED  BY <1>4, <1>5, <2>2, <3>1 DEF EntryOK
  <2>6. cache' \in [Scopes -> {Undefined} \cup [rules : Seq(TableRow), until : Nat]]
    BY <1>3, <1>4, <2>3, <2>4 DEF RulesTypeOK
  <2>7. ASSUME NEW scope \in Scopes, cache'[scope] # Undefined
        PROVE  EntryOK(scope, cache[scope])'
    <3>1. PICK new : new = cache'[scope]
      OBVIOUS
    <3>2. EntryOK(scope, new)
      <4>1. CASE scope = old.scope
        BY <1>4, <2>4, <2>5, <3>1, <4>1 DEF RulesTypeOK
      <4>2. CASE scope # old.scope
        BY <1>4, <2>4, <2>7, <3>1, <4>2 DEF RulesTypeOK, RulesInvariant
      <4>3. QED  BY <4>1, <4>2
    <3>3. EntryOK(scope, new)'
      BY <1>1, <3>2, EntriesStayOK
    <3>4. QED  BY <3>1, <3>3
  <2>8. RulesTypeOK'
    BY <1>1, <1>4, <1>9, <2>6 DEF RulesTypeOK, SameTimes
  <2>9. QED  BY <1>9, <2>7, <2>8 DEF RulesInvariant
<1>12. QED  BY <1>2, <1>10, <1>11 DEF Store

\* What an edit retires was in force until now: nothing held is too old by it.
LEMMA EditRulesSafe ==
    ASSUME RulesInvariant, EditRules
    PROVE  RulesInvariant'
<1>1. /\ RulesTypeOK /\ clock \in Nat /\ TTL \in Nat /\ TTL + 1 \in Nat
      /\ cache' = cache /\ clock' = clock /\ loads' = loads
  BY RulesAssumption DEF RulesInvariant, RulesTypeOK, EditRules
<1>2. RulesTypeOK'
  <2>1. PICK gone : gone = [rules |-> table, until |-> clock]
    OBVIOUS
  <2>2. gone \in [rules : Tables, until : Nat] /\ retired' = retired \cup {gone}
    BY <1>1, <2>1 DEF EditRules, RulesTypeOK
  <2>3. table' \in Tables
    BY DEF EditRules
  <2>4. QED  BY <1>1, <2>2, <2>3 DEF RulesTypeOK
<1>3. ASSUME NEW scope \in Scopes, cache'[scope] # Undefined
      PROVE  EntryOK(scope, cache[scope])'
  <2>1. PICK entry : entry = cache[scope]
    OBVIOUS
  <2>2. entry.until \in Nat /\ EntryOK(scope, entry)
    BY <1>1, <1>3, <2>1 DEF RulesInvariant, RulesTypeOK
  <2>3. PICK tbl \in InForce(TTL + 1, entry.until) : Reads(entry.rules, scope, tbl)
    BY <2>2 DEF EntryOK
  <2>4. entry.until <= clock + TTL
    BY <2>2 DEF EntryOK
  <2>5. tbl \in InForce(TTL + 1, entry.until)'
    <3>1. entry.until <= clock + (TTL + 1)
      BY <1>1, <2>2, <2>4
    <3>2. QED  BY <1>1, <2>2, <2>3, <3>1, InForceAfterEdit
  <2>6. EntryOK(scope, entry)'
    BY <1>1, <2>3, <2>4, <2>5 DEF EntryOK
  <2>7. QED  BY <1>1, <2>1, <2>6
<1>4. ASSUME NEW e \in Evaluators
      PROVE  LoadOK(loads[e])'
  <2>1. PICK load \in Load : load = loads[e]
    BY <1>1 DEF RulesTypeOK
  <2>2. LoadOK(load)
    BY <2>1 DEF RulesInvariant
  <2>3. load.at = "store" =>
            \E tbl \in InForce(IF load.aged THEN 1 ELSE 0, clock)' : Reads(load.rules, load.scope, tbl)
    <3>1. SUFFICES ASSUME load.at = "store"
                   PROVE  \E tbl \in InForce(IF load.aged THEN 1 ELSE 0, clock)' :
                              Reads(load.rules, load.scope, tbl)
      OBVIOUS
    <3>2. PICK age \in Nat : age = IF load.aged THEN 1 ELSE 0
      OBVIOUS
    <3>3. PICK tbl \in InForce(age, clock) : Reads(load.rules, load.scope, tbl)
      BY <2>2, <3>1, <3>2 DEF LoadOK
    <3>4. tbl \in InForce(age, clock)'
      <4>1. PICK time : time = clock
        OBVIOUS
      <4>2. InForce(age, time) \subseteq InForce(age, time)'
        BY <1>1, <4>1, InForceAfterEdit
      <4>3. QED  BY <1>1, <3>3, <4>1, <4>2 DEF InForce
    <3>5. QED  BY <3>2, <3>3, <3>4
  <2>4. load.at = "done" =>
            /\ load.ended <= clock'
            /\ \E tbl \in InForce(TTL, load.ended)' : Strictest(tbl, load.scope, load.request, load.given)
    <3>1. SUFFICES ASSUME load.at = "done"
                   PROVE  /\ load.ended <= clock'
                          /\ \E tbl \in InForce(TTL, load.ended)' :
                                 Strictest(tbl, load.scope, load.request, load.given)
      OBVIOUS
    <3>2. load.ended <= clock /\ load.ended \in Nat
      BY <2>1, <2>2, <3>1 DEF LoadOK, Load
    <3>3. PICK tbl \in InForce(TTL, load.ended) :
              Strictest(tbl, load.scope, load.request, load.given)
      BY <2>2, <3>1 DEF LoadOK
    <3>4. tbl \in InForce(TTL, load.ended)'
      BY <1>1, <3>2, <3>3, InForceAfterEdit
    <3>5. QED  BY <1>1, <3>2, <3>3, <3>4
  <2>5. LoadOK(load)'
    BY <2>2, <2>3, <2>4 DEF LoadOK
  <2>6. QED  BY <1>1, <2>1, <2>5
<1>5. QED  BY <1>2, <1>3, <1>4 DEF RulesInvariant

\* The clock ticks: a load under way has seen its one tick.
LEMMA ElapseSafe ==
    ASSUME RulesInvariant, Elapse
    PROVE  RulesInvariant'
<1>1. /\ RulesTypeOK /\ clock \in Nat /\ TTL \in Nat
      /\ table' = table /\ cache' = cache /\ retired' = retired /\ clock' = clock + 1
  BY RulesAssumption DEF RulesInvariant, RulesTypeOK, Elapse
<1>2. \A age, time : InForce(age, time)' = InForce(age, time)
  BY <1>1 DEF InForce
<1>3. ASSUME NEW e \in Evaluators
      PROVE  loads'[e] \in Load /\ LoadOK(loads[e])'
  <2>1. PICK old \in Load : old = loads[e]
    BY <1>1 DEF RulesTypeOK
  <2>2. PICK load : load = loads'[e]
    OBVIOUS
  <2>3. load = [loads[e] EXCEPT !.aged = loads[e].at \in {"find", "store"}]
    <3>1. loads'[e] = [loads[e] EXCEPT !.aged = loads[e].at \in {"find", "store"}]
      BY Zenon DEF Elapse
    <3>2. QED  BY <2>2, <3>1, Zenon
  <2>4. load \in Load
    <3>1. PICK flag \in BOOLEAN : flag <=> loads[e].at \in {"find", "store"}
      OBVIOUS
    <3>2. load = [loads[e] EXCEPT !.aged = flag]
      BY <2>3, <3>1
    <3>3. QED  BY <2>1, <3>1, <3>2 DEF Load
  <2>5. /\ load.at = old.at /\ load.scope = old.scope /\ load.rules = old.rules
        /\ load.request = old.request /\ load.given = old.given /\ load.ended = old.ended
    BY <2>1, <2>3 DEF Load
  <2>6. load.aged = (old.at \in {"find", "store"})
    BY <2>1, <2>3 DEF Load
  <2>7. LoadOK(old) /\ old.aged = FALSE
    BY <2>1 DEF RulesInvariant, Elapse, RulesTypeOK, Load
  <2>8. load.at = "store" =>
            \E tbl \in InForce(IF load.aged THEN 1 ELSE 0, clock)' : Reads(load.rules, load.scope, tbl)
    <3>1. SUFFICES ASSUME load.at = "store"
                   PROVE  \E tbl \in InForce(1, clock)' : Reads(load.rules, load.scope, tbl)
      BY <2>5, <2>6
    <3>2. PICK tbl \in InForce(0, clock) : Reads(old.rules, old.scope, tbl)
      BY <2>5, <2>7, <3>1 DEF LoadOK
    <3>3. InForce(0, clock) \subseteq InForce(1, clock + 1)
      BY <1>1, InForceGrows
    <3>4. InForce(1, clock)' = InForce(1, clock + 1)
      BY <1>1 DEF InForce
    <3>5. QED  BY <2>5, <3>2, <3>3, <3>4
  <2>9. load.at = "done" =>
            /\ load.ended <= clock'
            /\ \E tbl \in InForce(TTL, load.ended)' : Strictest(tbl, load.scope, load.request, load.given)
    <3>1. SUFFICES ASSUME load.at = "done"
                   PROVE  /\ load.ended <= clock'
                          /\ \E tbl \in InForce(TTL, load.ended)' :
                                 Strictest(tbl, load.scope, load.request, load.given)
      OBVIOUS
    <3>2. load.ended <= clock /\ load.ended \in Nat
      BY <2>4, <2>5, <2>7, <3>1 DEF LoadOK, Load
    <3>3. \E tbl \in InForce(TTL, load.ended) : Strictest(tbl, load.scope, load.request, load.given)
      BY <2>5, <2>7, <3>1 DEF LoadOK
    <3>4. QED  BY <1>1, <1>2, <3>2, <3>3
  <2>10. LoadOK(load)'
    BY <2>5, <2>7, <2>8, <2>9 DEF LoadOK
  <2>11. LoadOK(loads[e])'
    BY <2>2, <2>10 DEF LoadOK, InForce
  <2>12. QED  BY <2>2, <2>4, <2>11
<1>4. loads' \in [Evaluators -> Load]
  <2>1. loads' = [e \in Evaluators |-> loads'[e]]
    BY Zenon DEF Elapse
  <2>2. QED  BY <1>3, <2>1
<1>5. RulesTypeOK'
  BY <1>1, <1>4 DEF RulesTypeOK
<1>6. ASSUME NEW scope \in Scopes, cache'[scope] # Undefined
      PROVE  EntryOK(scope, cache[scope])'
  <2>1. PICK entry : entry = cache[scope]
    OBVIOUS
  <2>2. entry.until \in Nat /\ EntryOK(scope, entry)
    BY <1>1, <1>6, <2>1 DEF RulesInvariant, RulesTypeOK
  <2>3. entry.until <= clock + TTL /\ entry.until <= clock' + TTL
    BY <1>1, <2>2 DEF EntryOK
  <2>4. EntryOK(scope, entry)'
    BY <1>2, <2>2, <2>3 DEF EntryOK
  <2>5. QED  BY <1>1, <2>1, <2>4
<1>7. QED  BY <1>3, <1>5, <1>6 DEF RulesInvariant

\* Every entry of the cache and every load under way hold the rules of their
\* scope, from a table that was in force when they were found: however loads,
\* edits, expiry and failures of the cache interleave.
THEOREM RulesInvariance == RulesSpec => []RulesInvariant
<1>1. RulesInvariant /\ [RulesNext]_rulesVars => RulesInvariant'
  <2> SUFFICES ASSUME RulesInvariant, [RulesNext]_rulesVars PROVE RulesInvariant'
    OBVIOUS
  <2>1. ASSUME NEW e \in Evaluators, CacheHit(e) \/ CacheMiss(e) \/ Find(e) \/ Store(e)
        PROVE  RulesInvariant'
    BY <2>1, CacheHitSafe, CacheMissSafe, FindSafe, StoreSafe
  <2>2. CASE UNCHANGED rulesVars
    <3>1. SameTimes /\ cache' = cache /\ loads' = loads
      BY <2>2 DEF rulesVars, SameTimes
    <3>2. RulesTypeOK'
      BY <3>1 DEF RulesInvariant, RulesTypeOK, SameTimes
    <3>3. \A e \in Evaluators : LoadOK(loads[e])'
      BY <3>1 DEF RulesInvariant, LoadOK, InForce, SameTimes
    <3>4. loads' \in [Evaluators -> Load]
      BY <3>2 DEF RulesTypeOK
    <3>5. QED  BY <3>1, <3>3, <3>4, CacheStays
  <2>3. QED  BY <2>1, <2>2, EditRulesSafe, ElapseSafe DEF RulesNext
<1>2. QED  BY <1>1, RulesInitially, PTL DEF RulesSpec

\* The table, the cache and the loads keep their types.
THEOREM RulesTypeCorrect == RulesSpec => []RulesTypeOK
<1>1. RulesInvariant => RulesTypeOK
  BY DEF RulesInvariant
<1>2. QED  BY <1>1, RulesInvariance, PTL

\* A verdict is the strictest of what the rules of its own scope said no longer
\* ago than the cache keeps them: evaluate, assessRisk and loadRules together.
THEOREM CurrentVerdicts == RulesSpec => []VerdictsCurrent
<1>1. RulesInvariant => VerdictsCurrent
  BY DEF RulesInvariant, LoadOK, VerdictsCurrent, Loading
<1>2. QED  BY <1>1, RulesInvariance, PTL

----------------------------------------------------------------------------
(* The dashboard's employee page: the invariant *)

PageDetail == [of : Agents, version : Nat]

FetchAnswer == [error : {"none"}, data : Nat] \cup [error : {"failed"}, data : {Null}]

PageState ==
    [agent : Agents \cup {Null}, detail : PageDetail \cup {Null}, dirty : BOOLEAN,
     loading : BOOLEAN, notFound : BOOLEAN, saving : [of : Agents, reload : Agents] \cup {Null}]

PageRequest ==
    [of : Agents, cause : {"effect", "save"}, live : BOOLEAN, answer : FetchAnswer \cup {Null}]

PageTypeOK ==
    /\ config \in [Agents -> Nat]
    /\ page \in PageState
    /\ pageReqs \subseteq PageRequest
    /\ raced \in BOOLEAN /\ lost \in BOOLEAN

\* The request whose answer the page waits for: it is about the employee of the
\* route, and until it comes there is nothing to edit or to save.
Awaited(r, p) == r.of = p.agent /\ p.loading /\ ~p.dirty

\* A save under way goes to the employee of the route, and nothing was edited since.
SavesRoute(p) ==
    p.saving # Null =>
        p.saving.of = p.agent /\ p.saving.reload = p.agent /\ ~p.loading /\ ~p.dirty

PageKept ==
    /\ ~lost
    /\ \A r \in pageReqs : r.live => Awaited(r, page)
    /\ \A r, q \in pageReqs : r.live /\ q.live => r = q
    /\ SavesRoute(page)
    /\ Editable => page.detail.of = page.agent

PageInvariant ==
    /\ PageTypeOK
    /\ page.agent = Null => page = NoPage /\ pageReqs = {}
    /\ ~raced => PageKept

----------------------------------------------------------------------------
(* The dashboard's employee page: the steps *)

\* Steps that leave the page alone.
LEMMA PageStays ==
    ASSUME PageInvariant, UNCHANGED <<config, page, pageReqs, raced, lost>>
    PROVE  PageInvariant'
<1>1. PageTypeOK'
  BY DEF PageInvariant, PageTypeOK
<1>2. page.agent = Null => page' = NoPage /\ pageReqs' = {}
  BY DEF PageInvariant
<1>3. ~raced' => PageKept'
  BY DEF PageInvariant, PageKept, Awaited, SavesRoute, Editable
<1>4. QED  BY <1>1, <1>2, <1>3 DEF PageInvariant

\* No employee is open, and nothing is awaited.
LEMMA NoPageTyped == NoPage \in PageState
BY DEF NoPage, PageState

\* Steps that leave the page: another view, or the sign-in form.
LEMMA PageLeft ==
    ASSUME PageInvariant, page' = NoPage, pageReqs' = {}, UNCHANGED <<config, raced, lost>>
    PROVE  PageInvariant'
<1>1. PageTypeOK'
  BY NoPageTyped DEF PageInvariant, PageTypeOK
<1>2. ~raced' => PageKept'
  BY DEF PageInvariant, PageKept, SavesRoute, Editable, NoPage
<1>3. QED  BY <1>1, <1>2 DEF PageInvariant

\* A new fetch awaits its answer.
LEMMA FetchTyped ==
    ASSUME NEW a \in Agents, NEW cause \in {"effect", "save"}
    PROVE  /\ Fetch(a, cause) \in PageRequest /\ Fetch(a, cause).of = a
           /\ Fetch(a, cause).live /\ Fetch(a, cause).cause = cause
BY DEF Fetch, PageRequest

\* The cleanup of the effect: what it reaches, nobody listens to.
LEMMA AbandonedTyped ==
    ASSUME PageTypeOK
    PROVE  /\ Abandoned(pageReqs) \subseteq PageRequest
           /\ (\A r \in pageReqs : r.cause # "save") => \A r \in Abandoned(pageReqs) : ~r.live
<1>1. ASSUME NEW q \in Abandoned(pageReqs)
      PROVE  q \in PageRequest /\ ((\A r \in pageReqs : r.cause # "save") => ~q.live)
  <2>1. PICK r \in pageReqs : q = IF r.cause = "effect" THEN [r EXCEPT !.live = FALSE] ELSE r
    BY <1>1, Zenon DEF Abandoned
  <2>2. r \in PageRequest
    BY DEF PageTypeOK
  <2>3. CASE r.cause = "effect"
    BY <2>1, <2>2, <2>3 DEF PageRequest
  <2>4. CASE r.cause # "effect"
    BY <2>1, <2>2, <2>4 DEF PageRequest
  <2>5. QED  BY <2>3, <2>4
<1>2. QED  BY <1>1

LEMMA OpenEmployeeKeeps ==
    ASSUME PageInvariant, NEW a \in Agents, OpenEmployee(a)
    PROVE  PageInvariant'
<1>1. PICK old \in PageState : old = page
  BY DEF PageInvariant, PageTypeOK
<1>2. PICK new : new = [old EXCEPT !.agent = a, !.loading = TRUE, !.notFound = FALSE, !.dirty = FALSE]
  OBVIOUS
<1>3. /\ page' = new /\ pageReqs' = Abandoned(pageReqs) \cup {Fetch(a, "effect")}
      /\ config' = config
      /\ raced' = (page.agent # Null /\ (raced \/ page.saving # Null \/ \E r \in pageReqs : r.cause = "save"))
      /\ lost' = (page.agent # Null /\ lost)
  BY <1>1, <1>2 DEF OpenEmployee, server
<1>4. /\ new \in PageState /\ new.agent = a /\ new.loading /\ ~new.notFound /\ ~new.dirty
      /\ new.saving = old.saving
  BY <1>1, <1>2 DEF PageState
<1>5. PageTypeOK'
  BY <1>3, <1>4, AbandonedTyped, FetchTyped DEF PageInvariant, PageTypeOK
<1>6. page'.agent # Null
  BY <1>3, <1>4, DashboardAssumption
<1>7. ASSUME ~raced' PROVE PageKept'
  <2>1. /\ page.saving = Null /\ \A r \in pageReqs : r.cause # "save"
        /\ ~lost'
    <3>1. CASE page.agent = Null
      <4>1. page = NoPage /\ pageReqs = {}
        BY <3>1 DEF PageInvariant
      <4>2. page.saving = Null
        BY <4>1 DEF NoPage
      <4>3. QED  BY <1>3, <3>1, <4>1, <4>2
    <3>2. CASE page.agent # Null
      BY <1>3, <1>7, <3>2 DEF PageInvariant, PageKept
    <3>3. QED  BY <3>1, <3>2
  <2>2. ASSUME NEW r \in pageReqs', r.live PROVE r = Fetch(a, "effect")
    BY <1>3, <2>1, <2>2, AbandonedTyped DEF PageInvariant
  <2>3. Awaited(Fetch(a, "effect"), page')
    BY <1>3, <1>4, FetchTyped DEF Awaited
  <2>4. SavesRoute(page') /\ ~Editable'
    BY <1>1, <1>3, <1>4, <2>1 DEF SavesRoute, Editable
  <2>5. QED  BY <2>1, <2>2, <2>3, <2>4 DEF PageKept
<1>8. QED  BY <1>5, <1>6, <1>7 DEF PageInvariant

LEMMA ServePageKeeps ==
    ASSUME PageInvariant, NEW r \in pageReqs, ServePage(r)
    PROVE  PageInvariant'
<1>1. PICK answer \in FetchAnswer : pageReqs' = (pageReqs \ {r}) \cup {[r EXCEPT !.answer = answer]}
  <2>1. r \in PageRequest /\ config[r.of] \in Nat
    BY DEF PageInvariant, PageTypeOK, PageRequest
  <2>2. Success(config[r.of]) \in FetchAnswer /\ Failure("failed") \in FetchAnswer
    BY <2>1 DEF Success, Failure, FetchAnswer
  <2>3. QED  BY <2>2 DEF ServePage
<1>2. PICK served : served = [r EXCEPT !.answer = answer]
  OBVIOUS
<1>3. pageReqs' = (pageReqs \ {r}) \cup {served}
  BY <1>1, <1>2
<1>4. served \in PageRequest /\ served.of = r.of /\ served.live = r.live
  BY <1>1, <1>2 DEF PageInvariant, PageTypeOK, PageRequest
<1>5. UNCHANGED <<config, page, raced, lost>>
  BY DEF ServePage, server, ghosts
<1>6. PageTypeOK'
  BY <1>3, <1>4, <1>5 DEF PageInvariant, PageTypeOK
<1>7. page'.agent # Null
  BY <1>5 DEF PageInvariant
<1>8. ASSUME ~raced' PROVE PageKept'
  <2>1. PageKept
    BY <1>5, <1>8 DEF PageInvariant
  <2>2. \A q \in pageReqs' : q.live => Awaited(q, page')
    BY <1>3, <1>4, <1>5, <2>1 DEF PageKept, Awaited
  <2>3. \A p, q \in pageReqs' : p.live /\ q.live => p = q
    BY <1>3, <1>4, <2>1 DEF PageKept
  <2>4. QED  BY <1>5, <2>1, <2>2, <2>3 DEF PageKept, SavesRoute, Editable
<1>9. QED  BY <1>6, <1>7, <1>8 DEF PageInvariant

LEMMA PageAnswerKeeps ==
    ASSUME PageInvariant, NEW r \in pageReqs, PageAnswer(r)
    PROVE  PageInvariant'
<1>1. PICK old \in PageState : old = page
  BY DEF PageInvariant, PageTypeOK
<1>2. r \in PageRequest /\ r.answer \in FetchAnswer
  BY DEF PageInvariant, PageTypeOK, PageRequest, PageAnswer
<1>3. /\ pageReqs' = pageReqs \ {r} /\ config' = config /\ raced' = raced
      /\ lost' = (lost \/ (page.dirty /\ ~page'.dirty))
  BY DEF PageAnswer, server
<1>4. page.agent # Null
  BY DEF PageInvariant
<1>5. CASE ~r.live
  <2>1. page' = page
    BY <1>5 DEF PageAnswer
  <2>2. PageTypeOK'
    BY <1>3, <2>1 DEF PageInvariant, PageTypeOK
  <2>3. ~raced' => PageKept'
    BY <1>3, <2>1 DEF PageInvariant, PageKept, Awaited, SavesRoute, Editable
  <2>4. QED  BY <1>4, <2>1, <2>2, <2>3 DEF PageInvariant
<1>6. CASE r.live /\ r.answer.error # "none"
  <2>1. PICK new : new = [old EXCEPT !.notFound = TRUE, !.loading = FALSE]
    OBVIOUS
  <2>2. page' = new
    BY <1>1, <1>6, <2>1 DEF PageAnswer
  <2>3. /\ new \in PageState /\ new.notFound /\ new.agent = old.agent /\ new.dirty = old.dirty
        /\ new.saving = old.saving /\ ~new.loading
    BY <1>1, <2>1 DEF PageState
  <2>4. PageTypeOK'
    BY <1>1, <1>3, <2>2, <2>3 DEF PageInvariant, PageTypeOK
  <2>5. ASSUME ~raced' PROVE PageKept'
    <3>1. PageKept
      BY <1>3, <2>5 DEF PageInvariant
    <3>2. \A q \in pageReqs' : ~q.live
      BY <1>3, <1>6, <3>1 DEF PageKept
    <3>3. page.loading
      BY <1>6, <3>1 DEF PageKept, Awaited
    <3>4. SavesRoute(page') /\ ~Editable'
      BY <1>1, <2>2, <2>3, <3>1, <3>3 DEF PageKept, SavesRoute, Editable
    <3>5. ~lost'
      BY <1>1, <1>3, <2>2, <2>3, <3>1 DEF PageKept
    <3>6. QED  BY <3>2, <3>4, <3>5 DEF PageKept
  <2>6. QED  BY <1>1, <1>4, <2>2, <2>3, <2>4, <2>5 DEF PageInvariant
<1>7. CASE r.live /\ r.answer.error = "none"
  <2>1. PICK detail : detail = [of |-> r.of, version |-> r.answer.data]
    OBVIOUS
  <2>2. detail \in PageDetail /\ detail.of = r.of
    BY <1>2, <1>7, <2>1 DEF PageDetail, PageRequest, FetchAnswer
  <2>3. PICK new : new = [old EXCEPT !.detail = detail, !.dirty = FALSE, !.loading = FALSE]
    OBVIOUS
  <2>4. page' = new
    BY <1>1, <1>7, <2>1, <2>3 DEF PageAnswer
  <2>5. /\ new \in PageState /\ new.detail = detail /\ new.agent = old.agent /\ ~new.dirty
        /\ new.saving = old.saving /\ ~new.loading
    BY <1>1, <2>2, <2>3 DEF PageState
  <2>6. PageTypeOK'
    BY <1>1, <1>3, <2>4, <2>5 DEF PageInvariant, PageTypeOK
  <2>7. ASSUME ~raced' PROVE PageKept'
    <3>1. PageKept
      BY <1>3, <2>7 DEF PageInvariant
    <3>2. \A q \in pageReqs' : ~q.live
      BY <1>3, <1>7, <3>1 DEF PageKept
    <3>3. page.loading /\ ~page.dirty /\ r.of = page.agent
      BY <1>7, <3>1 DEF PageKept, Awaited
    <3>4. SavesRoute(page')
      BY <1>1, <2>4, <2>5, <3>1, <3>3 DEF PageKept, SavesRoute
    <3>5. page'.detail.of = page'.agent /\ ~lost'
      BY <1>1, <1>3, <2>2, <2>4, <2>5, <3>1, <3>3 DEF PageKept
    <3>6. QED  BY <3>2, <3>4, <3>5 DEF PageKept
  <2>8. QED  BY <1>1, <1>4, <2>4, <2>5, <2>6, <2>7 DEF PageInvariant
<1>8. QED  BY <1>5, <1>6, <1>7

LEMMA EditKeeps ==
    ASSUME PageInvariant, Edit
    PROVE  PageInvariant'
<1>1. PICK old \in PageState : old = page
  BY DEF PageInvariant, PageTypeOK
<1>2. PICK new : new = [old EXCEPT !.dirty = TRUE]
  OBVIOUS
<1>3. /\ page' = new /\ pageReqs' = pageReqs /\ config' = config /\ lost' = lost
      /\ raced' = (raced \/ page.saving # Null) /\ Editable
  BY <1>1, <1>2 DEF Edit, server
<1>4. /\ new \in PageState /\ new.agent = old.agent /\ new.detail = old.detail
      /\ new.saving = old.saving
  BY <1>1, <1>2 DEF PageState
<1>5. PageTypeOK'
  BY <1>3, <1>4 DEF PageInvariant, PageTypeOK
<1>6. page'.agent # Null
  BY <1>1, <1>3, <1>4 DEF Editable
<1>7. ASSUME ~raced' PROVE PageKept'
  <2>1. PageKept /\ page.saving = Null
    BY <1>3, <1>7 DEF PageInvariant
  <2>2. \A q \in pageReqs' : ~q.live
    BY <1>3, <2>1 DEF PageKept, Awaited, Editable
  <2>3. QED  BY <1>1, <1>3, <1>4, <2>1, <2>2 DEF PageKept, SavesRoute
<1>8. QED  BY <1>5, <1>6, <1>7 DEF PageInvariant

LEMMA SaveKeeps ==
    ASSUME PageInvariant, Save
    PROVE  PageInvariant'
<1>1. PICK old \in PageState : old = page
  BY DEF PageInvariant, PageTypeOK
<1>2. PICK saving : saving = [of |-> old.detail.of, reload |-> old.agent]
  OBVIOUS
<1>3. PICK new : new = [old EXCEPT !.saving = saving, !.dirty = FALSE]
  OBVIOUS
<1>4. /\ page' = new /\ pageReqs' = pageReqs /\ config' = config /\ lost' = lost /\ raced' = raced
      /\ Editable
  BY <1>1, <1>2, <1>3 DEF Save, server, ghosts
<1>5. /\ saving \in [of : Agents, reload : Agents] /\ saving.of = old.detail.of
      /\ saving.reload = old.agent
  BY <1>1, <1>2, <1>4 DEF Editable, PageState, PageDetail
<1>6. /\ new \in PageState /\ new.agent = old.agent /\ new.detail = old.detail
      /\ new.saving = saving /\ ~new.dirty /\ new.loading = old.loading
  BY <1>1, <1>3, <1>5 DEF PageState
<1>7. PageTypeOK'
  BY <1>4, <1>6 DEF PageInvariant, PageTypeOK
<1>8. page'.agent # Null
  BY <1>1, <1>4, <1>6 DEF Editable
<1>9. ASSUME ~raced' PROVE PageKept'
  <2>1. PageKept
    BY <1>4, <1>9 DEF PageInvariant
  <2>2. \A q \in pageReqs' : ~q.live
    BY <1>4, <2>1 DEF PageKept, Awaited, Editable
  <2>3. old.detail.of = old.agent /\ ~old.loading
    BY <1>1, <1>4, <2>1 DEF PageKept, Editable
  <2>4. SavesRoute(page')
    BY <1>4, <1>5, <1>6, <2>3 DEF SavesRoute
  <2>5. QED  BY <1>4, <1>6, <2>1, <2>2, <2>3, <2>4 DEF PageKept
<1>10. QED  BY <1>7, <1>8, <1>9 DEF PageInvariant

LEMMA SaveAnswerKeeps ==
    ASSUME PageInvariant, SaveAnswer
    PROVE  PageInvariant'
<1>1. PICK old \in PageState : old = page
  BY DEF PageInvariant, PageTypeOK
<1>2. PICK saving \in [of : Agents, reload : Agents] : saving = old.saving
  BY <1>1 DEF SaveAnswer, PageState
<1>3. saving = page.saving /\ page.saving # Null /\ raced' = raced /\ lost' = lost
  BY <1>1, <1>2 DEF SaveAnswer, ghosts
<1>4. page.agent # Null
  BY <1>3 DEF PageInvariant, NoPage
<1>5. CASE /\ config' = [config EXCEPT ![page.saving.of] = @ + 1]
           /\ page' = [page EXCEPT !.saving = Null, !.loading = TRUE, !.notFound = FALSE]
           /\ pageReqs' = pageReqs \cup {Fetch(page.saving.reload, "save")}
  <2>1. PICK new : new = [old EXCEPT !.saving = Null, !.loading = TRUE, !.notFound = FALSE]
    OBVIOUS
  <2>2. page' = new
    BY <1>1, <1>5, <2>1
  <2>3. /\ new \in PageState /\ new.agent = old.agent /\ new.saving = Null /\ new.loading
        /\ new.dirty = old.dirty
    BY <1>1, <2>1 DEF PageState
  <2>4. config' \in [Agents -> Nat]
    BY <1>2, <1>3, <1>5 DEF PageInvariant, PageTypeOK
  <2>5. PageTypeOK'
    BY <1>2, <1>3, <1>5, <2>2, <2>3, <2>4, FetchTyped DEF PageInvariant, PageTypeOK
  <2>6. ASSUME ~raced' PROVE PageKept'
    <3>1. PageKept
      BY <1>3, <2>6 DEF PageInvariant
    <3>2. saving.reload = page.agent /\ ~page.loading /\ ~page.dirty
      BY <1>3, <3>1 DEF PageKept, SavesRoute
    <3>3. \A q \in pageReqs : ~q.live
      BY <3>1, <3>2 DEF PageKept, Awaited
    <3>4. ASSUME NEW r \in pageReqs', r.live PROVE r = Fetch(saving.reload, "save")
      BY <1>3, <1>5, <3>3, <3>4
    <3>5. Awaited(Fetch(saving.reload, "save"), page')
      BY <1>1, <1>2, <2>2, <2>3, <3>2, FetchTyped DEF Awaited
    <3>6. SavesRoute(page') /\ ~Editable'
      BY <2>2, <2>3 DEF SavesRoute, Editable
    <3>7. QED  BY <1>3, <3>1, <3>4, <3>5, <3>6 DEF PageKept
  <2>7. QED  BY <1>1, <1>4, <2>2, <2>3, <2>5, <2>6 DEF PageInvariant
<1>6. CASE /\ page' = [page EXCEPT !.saving = Null, !.dirty = TRUE]
           /\ config' = config /\ pageReqs' = pageReqs
  <2>1. PICK new : new = [old EXCEPT !.saving = Null, !.dirty = TRUE]
    OBVIOUS
  <2>2. page' = new
    BY <1>1, <1>6, <2>1
  <2>3. /\ new \in PageState /\ new.agent = old.agent /\ new.saving = Null
        /\ new.detail = old.detail /\ new.loading = old.loading /\ new.notFound = old.notFound
    BY <1>1, <2>1 DEF PageState
  <2>4. PageTypeOK'
    BY <1>3, <1>6, <2>2, <2>3 DEF PageInvariant, PageTypeOK
  <2>5. ASSUME ~raced' PROVE PageKept'
    <3>1. PageKept
      BY <1>3, <2>5 DEF PageInvariant
    <3>2. \A q \in pageReqs' : ~q.live
      BY <1>3, <1>6, <3>1 DEF PageKept, Awaited, SavesRoute
    <3>3. SavesRoute(page')
      BY <2>2, <2>3 DEF SavesRoute
    <3>4. Editable' => page'.detail.of = page'.agent
      BY <1>1, <2>2, <2>3, <3>1 DEF PageKept, Editable
    <3>5. QED  BY <1>3, <3>1, <3>2, <3>3, <3>4 DEF PageKept
  <2>6. QED  BY <1>1, <1>4, <2>2, <2>3, <2>4, <2>5 DEF PageInvariant
<1>7. QED  BY <1>5, <1>6 DEF SaveAnswer

\* The page stays, or is left.
LEMMA PageStaysOrLeft ==
    ASSUME PageInvariant, UNCHANGED <<config, raced, lost>>, Unmount \/ UNCHANGED pageVars
    PROVE  PageInvariant'
BY PageStays, PageLeft DEF Unmount, pageVars

\* What happens outside the page: the session, the feed and its cards.
LEMMA SessionKeeps ==
    ASSUME PageInvariant,
           \/ \E t \in Tokens : SignIn(t)
           \/ SignOut \/ Refresh \/ Poll \/ ServeFeed \/ FeedAnswer \/ Expire
           \/ \E e \in Executions : DecideApproval(e) \/ DecideAnswer(e) \/ Progress(e)
    PROVE  PageInvariant'
<1>1. UNCHANGED <<config, raced, lost>>
  BY DEF SignIn, SignOut, Refresh, Poll, ServeFeed, FeedAnswer, Expire, DecideApproval,
         DecideAnswer, Progress, server, ghosts
<1>2. Unmount \/ UNCHANGED pageVars
  BY DEF SignIn, SignOut, SetToken, Refresh, Poll, ServeFeed, FeedAnswer, Expire,
         DecideApproval, DecideAnswer, Progress
<1>3. QED  BY <1>1, <1>2, PageStaysOrLeft

\* What happens in the panel, and what opens it.
LEMMA PanelKeeps ==
    ASSUME PageInvariant,
           \/ \E e \in Executions : Submit(e) \/ OpenExecution(e)
           \/ ClosePanel \/ PollPanel
           \/ \E k \in Slots : ServePanel(k) \/ PanelAnswer(k)
    PROVE  PageInvariant'
<1>1. UNCHANGED <<config, raced, lost>>
  BY DEF Submit, OpenExecution, ClosePanel, PollPanel, ServePanel, PanelAnswer, server, ghosts
<1>2. (page' = NoPage /\ pageReqs' = {}) \/ (page' = page /\ pageReqs' = pageReqs)
  BY DEF Submit, OpenExecution, ClosePanel, PollPanel, ServePanel, PanelAnswer, pageVars
<1>3. QED  BY <1>1, <1>2, PageStays, PageLeft

----------------------------------------------------------------------------
(* The dashboard's employee page: the theorems *)

\* The page, its requests and its save fit together, whatever the user clicks
\* and in whatever order answers arrive or fail.
THEOREM PageInvariance == DashboardSpec => []PageInvariant
<1>1. DashboardInit => PageInvariant
  <2> SUFFICES ASSUME DashboardInit PROVE PageInvariant
    OBVIOUS
  <2>1. page = NoPage /\ pageReqs = {} /\ ~raced /\ ~lost /\ raced \in BOOLEAN /\ lost \in BOOLEAN
    BY DEF DashboardInit
  <2>2. config \in [Agents -> Nat]
    BY DEF DashboardInit
  <2>3. PageTypeOK
    BY <2>1, <2>2, NoPageTyped DEF PageTypeOK
  <2>4. PageKept
    BY <2>1 DEF PageKept, SavesRoute, Editable, NoPage
  <2>5. QED  BY <2>1, <2>3, <2>4 DEF PageInvariant
<1>2. PageInvariant /\ [DashboardNext]_dashboardVars => PageInvariant'
  <2> SUFFICES ASSUME PageInvariant, [DashboardNext]_dashboardVars PROVE PageInvariant'
    OBVIOUS
  <2>1. CASE UNCHANGED dashboardVars
    BY <2>1, PageStays DEF dashboardVars, server, pageVars, ghosts
  <2>2. CASE DashboardNext
    BY <2>2, SessionKeeps, PanelKeeps, OpenEmployeeKeeps, ServePageKeeps, PageAnswerKeeps,
       EditKeeps, SaveKeeps, SaveAnswerKeeps DEF DashboardNext, DashboardStep, Answers
  <2>3. QED  BY <2>1, <2>2
<1>3. QED  BY <1>1, <1>2, PTL DEF DashboardSpec

\* PageFollowsRoute: the effect's cleanup, the guards of Editable and the
\* reload of a save keep the page with its route, and unsaved edits on it,
\* unless a save and the user raced.
THEOREM RouteFollowed == DashboardSpec => []PageFollowsRoute
<1>1. PageInvariant => PageFollowsRoute
  BY DEF PageInvariant, PageKept, PageFollowsRoute
<1>2. QED  BY <1>1, PageInvariance, PTL

----------------------------------------------------------------------------
(* Parsing: what a parse holds, and what a file declares *)

DeclarationOK(e) ==
    /\ e = [defined |-> e.defined, properties |-> e.properties, fields |-> e.fields]
    /\ e.defined \in BOOLEAN
    /\ e.fields = [f \in DOMAIN e.fields |-> e.fields[f]]

\* An entry holds an object's definition or one of its fields.
ParsedOK(p) ==
    /\ p = [objects |-> p.objects, taxonomy |-> p.taxonomy, errors |-> p.errors]
    /\ \A n : DeclarationOK(EntryOf(p, n))
    /\ \A n \in DOMAIN p.objects : EntryOf(p, n).defined \/ DOMAIN EntryOf(p, n).fields # {}

ObjectIs(p, n, v) == EntryOf(p, n).defined /\ v = EntryOf(p, n).properties

FieldIs(p, n, f, v) == f \in DOMAIN EntryOf(p, n).fields /\ v = EntryOf(p, n).fields[f]

Accepted(file) == file.type # "other" /\ file.status \notin {"broken", "scalar"} /\ EnvelopeErrors(file) = {}

IsFieldFile(file) == Accepted(file) /\ (file.type = "field" \/ file.kind = "field")

IsTaxonomyFile(file) == Accepted(file) /\ ~IsFieldFile(file) /\ TaxonomyKind(file) # Absent

IsObjectFile(file) == Accepted(file) /\ ~IsFieldFile(file) /\ TaxonomyKind(file) = Absent

FieldOwner(file) == IF file.owner # Absent THEN file.owner ELSE file.folder

NameOf(fields, i) == Get(fields[i], "name")

\* An object is declared by its own file, a field there or by a file of its own.
DeclaresObject(file, n, v) ==
    IsObjectFile(file) /\ n = Get(Document(file), "nameSingular") /\ v = Document(file)

DeclaresField(file, n, f, v) ==
    \/ /\ IsFieldFile(file) /\ n = FieldOwner(file)
       /\ f = Get(Document(file), "name") /\ v = normalizeLegacyRelationField(Document(file))
    \/ /\ IsObjectFile(file) /\ n = Get(Document(file), "nameSingular")
       /\ \E i \in 1..Len(file.fields) : f = NameOf(file.fields, i) /\ v = file.fields[i]

\* Every inline field has a name, and no two have the same.
Named(fields, k) ==
    \A i \in 1..k : /\ NameOf(fields, i) # Absent
                    /\ \A j \in 1..k : i # j => NameOf(fields, i) # NameOf(fields, j)

\* Nothing is wrong with the file itself.
Sound(file) ==
    /\ file.type = "other" \/ Accepted(file)
    /\ IsFieldFile(file) => FieldOwner(file) # Absent /\ Get(Document(file), "name") # Absent
    /\ IsObjectFile(file) =>
           Get(Document(file), "nameSingular") # Absent /\ Named(file.fields, Len(file.fields))

\* Nothing the file declares is there already.
FreshIn(p, file) ==
    /\ \A n, v, w : ~(DeclaresObject(file, n, v) /\ ObjectIs(p, n, w))
    /\ \A n, f, v, w : ~(DeclaresField(file, n, f, v) /\ FieldIs(p, n, f, w))

\* Two files declare nothing twice.
Compatible(file, other) ==
    /\ \A n, v, w : ~(DeclaresObject(file, n, v) /\ DeclaresObject(other, n, w))
    /\ \A n, f, v, w : ~(DeclaresField(file, n, f, v) /\ DeclaresField(other, n, f, w))

----------------------------------------------------------------------------
(* Parsing: the steps *)

LEMMA NoEntryOK == DeclarationOK(NoEntry) /\ DOMAIN NoEntry.fields = {} /\ ~NoEntry.defined
<1>1. PICK none : none = <<>>
  OBVIOUS
<1>2. DOMAIN none = {} /\ none = [f \in DOMAIN none |-> none[f]]
  BY <1>1
<1>3. NoEntry = [defined |-> FALSE, properties |-> none, fields |-> none]
  BY <1>1 DEF NoEntry
<1>4. QED  BY <1>2, <1>3 DEF DeclarationOK

LEMMA NothingParsedOK ==
    /\ ParsedOK(NothingParsed) /\ NothingParsed.errors = {} /\ DOMAIN NothingParsed.taxonomy = {}
    /\ \A n, v : ~ObjectIs(NothingParsed, n, v)
    /\ \A n, f, v : ~FieldIs(NothingParsed, n, f, v)
<1>1. PICK none : none = <<>>
  OBVIOUS
<1>2. DOMAIN none = {}
  BY <1>1
<1>3. NothingParsed = [objects |-> none, taxonomy |-> none, errors |-> {}]
  BY <1>1 DEF NothingParsed
<1>4. \A n : EntryOf(NothingParsed, n) = NoEntry
  BY <1>2, <1>3 DEF EntryOf
<1>5. QED  BY <1>2, <1>3, <1>4, NoEntryOK DEF ParsedOK, ObjectIs, FieldIs

\* An error is never taken back.
LEMMA ErrorIs ==
    ASSUME NEW p, ParsedOK(p), NEW codes, codes # {},
           NEW q, q = [p EXCEPT !.errors = @ \cup codes]
    PROVE  ParsedOK(q) /\ q.errors # {}
<1>1. PICK errors : errors = p.errors \cup codes
  OBVIOUS
<1>2. errors # {}
  BY <1>1
<1>3. q = [objects |-> p.objects, taxonomy |-> p.taxonomy, errors |-> errors]
  BY <1>1 DEF ParsedOK
<1>4. q.objects = p.objects /\ q.errors = errors /\ q.taxonomy = p.taxonomy
  BY <1>3
<1>5. \A n : EntryOf(q, n) = EntryOf(p, n)
  BY <1>4 DEF EntryOf
<1>6. QED  BY <1>2, <1>3, <1>4, <1>5 DEF ParsedOK

\* A new entry takes the place of the old one.
LEMMA WithEntryIs ==
    ASSUME NEW p, ParsedOK(p), NEW name, NEW e, DeclarationOK(e), e.defined \/ DOMAIN e.fields # {},
           NEW q, q = WithEntry(p, name, e)
    PROVE  /\ ParsedOK(q) /\ q.errors = p.errors /\ q.taxonomy = p.taxonomy
           /\ EntryOf(q, name) = e /\ \A n : n # name => EntryOf(q, n) = EntryOf(p, n)
<1>1. PICK objects : objects = Put(p.objects, name, e)
  OBVIOUS
<1>2. /\ DOMAIN objects = {name} \cup DOMAIN p.objects
      /\ objects[name] = e /\ \A n \in DOMAIN p.objects : n # name => objects[n] = p.objects[n]
  BY <1>1 DEF Put
<1>3. q = [objects |-> objects, taxonomy |-> p.taxonomy, errors |-> p.errors]
  BY <1>1 DEF ParsedOK, WithEntry
<1>4. q.objects = objects /\ q.errors = p.errors /\ q.taxonomy = p.taxonomy
  BY <1>3
<1>5. EntryOf(q, name) = e /\ \A n : n # name => EntryOf(q, n) = EntryOf(p, n)
  BY <1>2, <1>4 DEF EntryOf
<1>6. QED  BY <1>2, <1>3, <1>4, <1>5 DEF ParsedOK

\* A field is added to an entry.
LEMMA FieldAdded ==
    ASSUME NEW p, ParsedOK(p), NEW object, NEW name, name \notin DOMAIN EntryOf(p, object).fields,
           NEW field, NEW q, q = WithField(p, object, name, field)
    PROVE  /\ ParsedOK(q) /\ q.errors = p.errors /\ q.taxonomy = p.taxonomy
           /\ \A n : EntryOf(q, n).defined = EntryOf(p, n).defined
           /\ \A n, v : ObjectIs(q, n, v) <=> ObjectIs(p, n, v)
           /\ \A n, f, v : FieldIs(q, n, f, v) <=> \/ FieldIs(p, n, f, v)
                                                   \/ n = object /\ f = name /\ v = field
<1>1. PICK old : old = EntryOf(p, object)
  OBVIOUS
<1>2. DeclarationOK(old) /\ name \notin DOMAIN old.fields
  BY <1>1 DEF ParsedOK
<1>3. PICK fields : fields = Put(old.fields, name, field)
  OBVIOUS
<1>4. /\ DOMAIN fields = {name} \cup DOMAIN old.fields /\ fields[name] = field
      /\ \A f \in DOMAIN old.fields : f # name => fields[f] = old.fields[f]
      /\ fields = [f \in DOMAIN fields |-> fields[f]]
  BY <1>3 DEF Put
<1>5. PICK new : new = [defined |-> old.defined, properties |-> old.properties, fields |-> fields]
  OBVIOUS
<1>6. [old EXCEPT !.fields = Put(@, name, field)] = new
  BY <1>2, <1>3, <1>5 DEF DeclarationOK
<1>7. new.defined = old.defined /\ new.properties = old.properties /\ new.fields = fields
  BY <1>5
<1>8. DeclarationOK(new) /\ DOMAIN new.fields # {}
  BY <1>2, <1>4, <1>5, <1>7 DEF DeclarationOK
<1>9. /\ ParsedOK(q) /\ q.errors = p.errors /\ q.taxonomy = p.taxonomy
      /\ EntryOf(q, object) = new /\ \A n : n # object => EntryOf(q, n) = EntryOf(p, n)
  <2>1. q = WithEntry(p, object, new)
    BY <1>1, <1>6, Zenon DEF WithField
  <2>2. QED  BY <1>8, <2>1, WithEntryIs
<1>10. ASSUME NEW n PROVE EntryOf(q, n).defined = EntryOf(p, n).defined /\ EntryOf(q, n).properties = EntryOf(p, n).properties
  BY <1>1, <1>7, <1>9
<1>11. ASSUME NEW n, NEW f, NEW v
       PROVE  FieldIs(q, n, f, v) <=> FieldIs(p, n, f, v) \/ (n = object /\ f = name /\ v = field)
  <2>1. CASE n = object
    BY <1>1, <1>2, <1>4, <1>7, <1>9, <2>1 DEF FieldIs
  <2>2. CASE n # object
    BY <1>9, <2>2 DEF FieldIs
  <2>3. QED  BY <2>1, <2>2
<1>12. QED  BY <1>9, <1>10, <1>11 DEF ObjectIs

\* An object's definition is added to an entry.
LEMMA ObjectAdded ==
    ASSUME NEW p, ParsedOK(p), NEW name, ~EntryOf(p, name).defined, NEW object, NEW q,
           q = WithObject(p, name, object)
    PROVE  /\ ParsedOK(q) /\ q.errors = p.errors /\ q.taxonomy = p.taxonomy
           /\ \A n, v : ObjectIs(q, n, v) <=> ObjectIs(p, n, v) \/ (n = name /\ v = object)
           /\ \A n, f, v : FieldIs(q, n, f, v) <=> FieldIs(p, n, f, v)
<1>1. PICK old : old = EntryOf(p, name)
  OBVIOUS
<1>2. DeclarationOK(old)
  BY <1>1 DEF ParsedOK
<1>3. PICK new : new = [defined |-> TRUE, properties |-> object, fields |-> old.fields]
  OBVIOUS
<1>4. [old EXCEPT !.defined = TRUE, !.properties = object] = new
  <2>1. PICK d, v, fields : d = old.defined /\ v = old.properties /\ fields = old.fields
    OBVIOUS
  <2>2. PICK o : o = [defined |-> d, properties |-> v, fields |-> fields]
    OBVIOUS
  <2>3. old = o
    BY <1>2, <2>1, <2>2 DEF DeclarationOK
  <2>4. PICK r : r = [o EXCEPT !.defined = TRUE, !.properties = object]
    OBVIOUS
  <2>5. r = [defined |-> TRUE, properties |-> object, fields |-> fields]
    BY <2>2, <2>4
  <2>6. QED  BY <1>3, <2>1, <2>3, <2>4, <2>5
<1>5. new.defined = TRUE /\ new.properties = object /\ new.fields = old.fields
  BY <1>3
<1>6. DeclarationOK(new) /\ new.defined
  BY <1>2, <1>3, <1>5 DEF DeclarationOK
<1>7. /\ ParsedOK(q) /\ q.errors = p.errors /\ q.taxonomy = p.taxonomy
      /\ EntryOf(q, name) = new /\ \A n : n # name => EntryOf(q, n) = EntryOf(p, n)
  <2>1. q = WithEntry(p, name, new)
    BY <1>1, <1>4, Zenon DEF WithObject
  <2>2. QED  BY <1>6, <2>1, WithEntryIs
<1>8. ~old.defined
  BY <1>1
<1>9. ASSUME NEW n, NEW v PROVE ObjectIs(q, n, v) <=> ObjectIs(p, n, v) \/ (n = name /\ v = object)
  <2>1. CASE n = name
    BY <1>1, <1>5, <1>7, <1>8, <2>1 DEF ObjectIs
  <2>2. CASE n # name
    BY <1>7, <2>2 DEF ObjectIs
  <2>3. QED  BY <2>1, <2>2
<1>10. ASSUME NEW n, NEW f, NEW v PROVE FieldIs(q, n, f, v) <=> FieldIs(p, n, f, v)
  <2>1. CASE n = name
    BY <1>1, <1>5, <1>7, <2>1 DEF FieldIs
  <2>2. CASE n # name
    BY <1>7, <2>2 DEF FieldIs
  <2>3. QED  BY <2>1, <2>2
<1>11. QED  BY <1>7, <1>9, <1>10

\* A field with a name that is not taken is added, or an error is left.
FieldStep(p, q, object, name, field) ==
    /\ ParsedOK(q)
    /\ q.errors = {} <=> /\ p.errors = {} /\ object # Absent /\ name # Absent
                         /\ \A v : ~FieldIs(p, object, name, v)
    /\ q.errors = {} =>
           /\ q.taxonomy = p.taxonomy
           /\ \A n, v : ObjectIs(q, n, v) <=> ObjectIs(p, n, v)
           /\ \A n, f, v : FieldIs(q, n, f, v) <=> \/ FieldIs(p, n, f, v)
                                                   \/ n = object /\ f = name /\ v = field

LEMMA FieldTaken ==
    ASSUME NEW p, NEW object, NEW name
    PROVE  name \in DOMAIN EntryOf(p, object).fields <=> \E v : FieldIs(p, object, name, v)
BY DEF FieldIs

LEMMA FieldError ==
    ASSUME NEW p, ParsedOK(p), NEW object, NEW name, NEW field, NEW code,
           \/ object = Absent \/ name = Absent
           \/ \E v : FieldIs(p, object, name, v)
    PROVE  FieldStep(p, Error(p, code), object, name, field)
<1>1. PICK q : q = [p EXCEPT !.errors = @ \cup {code}]
  OBVIOUS
<1>2. ParsedOK(q) /\ q.errors # {}
  <2>1. {code} # {}
    OBVIOUS
  <2>2. QED  BY <1>1, <2>1, ErrorIs
<1>3. QED  BY <1>1, <1>2 DEF FieldStep, Error

LEMMA FieldPut ==
    ASSUME NEW p, ParsedOK(p), NEW object, NEW name, NEW field, object # Absent, name # Absent,
           \A v : ~FieldIs(p, object, name, v)
    PROVE  FieldStep(p, WithField(p, object, name, field), object, name, field)
<1>1. name \notin DOMAIN EntryOf(p, object).fields
  BY FieldTaken
<1>2. PICK q : q = WithField(p, object, name, field)
  OBVIOUS
<1>3. /\ ParsedOK(q) /\ q.errors = p.errors /\ q.taxonomy = p.taxonomy
      /\ \A n, v : ObjectIs(q, n, v) <=> ObjectIs(p, n, v)
      /\ \A n, f, v : FieldIs(q, n, f, v) <=> \/ FieldIs(p, n, f, v)
                                              \/ n = object /\ f = name /\ v = field
  BY <1>1, <1>2, FieldAdded
<1>4. FieldStep(p, q, object, name, field)
  BY <1>3 DEF FieldStep
<1>5. QED  BY <1>2, <1>4

LEMMA InlineStep ==
    ASSUME NEW p, ParsedOK(p), NEW object, object # Absent, NEW field
    PROVE  FieldStep(p, ConsumeInlineField(p, object, field), object, Get(field, "name"), field)
<1> DEFINE name == Get(field, "name")
           q == ConsumeInlineField(p, object, field)
<1>1. CASE name = Absent
  <2>1. q = Error(p, "FIELD_NAME_MISSING")
    BY <1>1 DEF ConsumeInlineField
  <2> HIDE DEF name, q
  <2>2. FieldStep(p, q, object, name, field)
    BY <1>1, <2>1, FieldError
  <2>3. QED  BY <2>2 DEF name, q
<1>2. CASE name # Absent /\ name \in DOMAIN EntryOf(p, object).fields
  <2>1. q = Error(p, "DUPLICATE_FIELD")
    BY <1>2 DEF ConsumeInlineField
  <2> HIDE DEF name, q
  <2>2. FieldStep(p, q, object, name, field)
    BY <1>2, <2>1, FieldError, FieldTaken
  <2>3. QED  BY <2>2 DEF name, q
<1>3. CASE name # Absent /\ name \notin DOMAIN EntryOf(p, object).fields
  <2>1. q = WithField(p, object, name, field)
    BY <1>3 DEF ConsumeInlineField
  <2> HIDE DEF name, q
  <2>2. FieldStep(p, q, object, name, field)
    BY <1>3, <2>1, FieldPut, FieldTaken
  <2>3. QED  BY <2>2 DEF name, q
<1>4. QED  BY <1>1, <1>2, <1>3

\* A file of a field of its own.
LEMMA FieldFileStep ==
    ASSUME NEW p, ParsedOK(p), NEW file
    PROVE  FieldStep(p, consumeFieldDocument(p, file), FieldOwner(file), Get(Document(file), "name"),
                     normalizeLegacyRelationField(Document(file)))
<1> DEFINE object == FieldOwner(file)
           name == Get(Document(file), "name")
           field == normalizeLegacyRelationField(Document(file))
           q == consumeFieldDocument(p, file)
<1>1. CASE object = Absent
  <2>1. q = Error(p, "FIELD_OBJECT_MISSING")
    BY <1>1 DEF consumeFieldDocument, FieldOwner
  <2> HIDE DEF object, name, field, q
  <2>2. FieldStep(p, q, object, name, field)
    BY <1>1, <2>1, FieldError
  <2>3. QED  BY <2>2 DEF object, name, field, q
<1>2. CASE object # Absent /\ name = Absent
  <2>1. q = Error(p, "FIELD_NAME_MISSING")
    BY <1>2 DEF consumeFieldDocument, FieldOwner
  <2> HIDE DEF object, name, field, q
  <2>2. FieldStep(p, q, object, name, field)
    BY <1>2, <2>1, FieldError
  <2>3. QED  BY <2>2 DEF object, name, field, q
<1>3. CASE object # Absent /\ name # Absent /\ name \in DOMAIN EntryOf(p, object).fields
  <2>1. q = Error(p, "DUPLICATE_FIELD")
    BY <1>3, Zenon DEF consumeFieldDocument, FieldOwner
  <2> HIDE DEF object, name, field, q
  <2>2. FieldStep(p, q, object, name, field)
    BY <1>3, <2>1, FieldError, FieldTaken
  <2>3. QED  BY <2>2 DEF object, name, field, q
<1>4. CASE object # Absent /\ name # Absent /\ name \notin DOMAIN EntryOf(p, object).fields
  <2>1. q = WithField(p, object, name, field)
    BY <1>4, Zenon DEF consumeFieldDocument, FieldOwner
  <2> HIDE DEF object, name, field, q
  <2>2. FieldStep(p, q, object, name, field)
    BY <1>4, <2>1, FieldPut, FieldTaken
  <2>3. QED  BY <2>2 DEF object, name, field, q
<1>5. QED  BY <1>1, <1>2, <1>3, <1>4

\* What holds at 0 and goes on to the next position holds at all of them.
LEMMA EveryPosition ==
    ASSUME NEW L \in Nat, NEW T, 0 \in T, \A k \in 0..(L - 1) : k \in T => k + 1 \in T
    PROVE  \A k \in 0..L : k \in T
<1> DEFINE Out == {k \in 0..L : k \notin T}
<1>1. CASE Out = {}
  BY <1>1
<1>2. CASE Out # {}
  <2>1. Out \in SUBSET Nat
    OBVIOUS
  <2> HIDE DEF Out
  <2>2. PICK m \in Out : \A k \in Out : ~(k < m)
    BY <1>2, <2>1, LeastPosition
  <2> USE DEF Out
  <2>3. m \in 0..L /\ m \notin T /\ m # 0
    BY <2>2
  <2>4. m - 1 \in 0..(L - 1) /\ m - 1 \notin Out /\ m = (m - 1) + 1
    BY <2>2, <2>3
  <2>5. QED  BY <2>3, <2>4
<1>3. QED  BY <1>1, <1>2

\* The parse after each inline field.
Inlines(u, p, object, fields, k) ==
    u = [n \in 0..k |-> IF n = 0 THEN p ELSE ConsumeInlineField(u[n - 1], object, fields[n])]

LEMMA InlinesExist ==
    ASSUME NEW p, NEW object, NEW fields, NEW L \in Nat
    PROVE  \E u : Inlines(u, p, object, fields, L)
<1> DEFINE S == {k \in Nat : \E u : Inlines(u, p, object, fields, k)}
<1>1. 0 \in S
  <2>1. PICK u : u = [n \in 0..0 |-> p]
    OBVIOUS
  <2>2. u = [n \in 0..0 |-> IF n = 0 THEN p ELSE ConsumeInlineField(u[n - 1], object, fields[n])]
    BY <2>1
  <2>3. QED  BY <2>2 DEF Inlines
<1>2. ASSUME NEW k \in Nat, k \in S PROVE k + 1 \in S
  <2>1. PICK g : Inlines(g, p, object, fields, k)
    BY <1>2
  <2>2. PICK last : last = ConsumeInlineField(g[k], object, fields[k + 1])
    OBVIOUS
  <2>3. PICK u : u = [n \in 0..(k + 1) |-> IF n = k + 1 THEN last ELSE g[n]]
    OBVIOUS
  <2>4. \A n \in 0..k : g[n] = IF n = 0 THEN p ELSE ConsumeInlineField(g[n - 1], object, fields[n])
    BY <2>1 DEF Inlines
  <2>5. ASSUME NEW n \in 0..(k + 1)
        PROVE  u[n] = IF n = 0 THEN p ELSE ConsumeInlineField(u[n - 1], object, fields[n])
    <3>1. CASE n = k + 1
      BY <2>2, <2>3, <3>1
    <3>2. CASE n \in 0..k
      BY <2>3, <2>4, <3>2
    <3>3. QED  BY <3>1, <3>2
  <2>6. u = [n \in 0..(k + 1) |-> IF n = 0 THEN p ELSE ConsumeInlineField(u[n - 1], object, fields[n])]
    BY <2>3, <2>5
  <2>7. QED  BY <2>6 DEF Inlines
<1>3. \A i \in 0..L : i \in S
  <2> HIDE DEF S
  <2>1. QED  BY <1>1, <1>2, EveryPosition
<1>4. QED  BY <1>3

InlineRun(u, p, object, fields) ==
    /\ consumeInlineFields(p, object, fields) = u[Len(fields)] /\ u[0] = p
    /\ \A k \in 0..(Len(fields) - 1) : u[k + 1] = ConsumeInlineField(u[k], object, fields[k + 1])

LEMMA InlinesAre ==
    ASSUME NEW p, NEW object, NEW fields, Len(fields) \in Nat
    PROVE  \E u : InlineRun(u, p, object, fields)
<1> DEFINE u == CHOOSE u : u = [n \in 0..Len(fields) |->
                    IF n = 0 THEN p ELSE ConsumeInlineField(u[n - 1], object, fields[n])]
<1>1. consumeInlineFields(p, object, fields) = u[Len(fields)]
  BY Zenon DEF consumeInlineFields
<1>2. u = [n \in 0..Len(fields) |-> IF n = 0 THEN p ELSE ConsumeInlineField(u[n - 1], object, fields[n])]
  <2>1. \E g : Inlines(g, p, object, fields, Len(fields))
    BY InlinesExist
  <2>2. QED  BY <2>1, Zenon DEF Inlines
<1> HIDE DEF u
<1>3. u[0] = p
  BY <1>2
<1>4. ASSUME NEW k \in 0..(Len(fields) - 1)
      PROVE  u[k + 1] = ConsumeInlineField(u[k], object, fields[k + 1])
  <2>1. k + 1 \in 0..Len(fields) /\ k + 1 # 0 /\ (k + 1) - 1 = k
    OBVIOUS
  <2>2. u[k + 1] = ConsumeInlineField(u[(k + 1) - 1], object, fields[k + 1])
    BY <1>2, <2>1
  <2>3. QED  BY <2>1, <2>2
<1>5. InlineRun(u, p, object, fields)
  BY <1>1, <1>3, <1>4 DEF InlineRun
<1>6. QED  BY <1>5

\* What the first k inline fields make of a parse.
InlinesDone(p, q, object, fields, k) ==
    /\ ParsedOK(q)
    /\ q.errors = {} <=> /\ p.errors = {} /\ Named(fields, k)
                         /\ \A i \in 1..k : \A v : ~FieldIs(p, object, NameOf(fields, i), v)
    /\ q.errors = {} =>
           /\ q.taxonomy = p.taxonomy
           /\ \A n, v : ObjectIs(q, n, v) <=> ObjectIs(p, n, v)
           /\ \A n, f, v : FieldIs(q, n, f, v) <=>
                  \/ FieldIs(p, n, f, v)
                  \/ n = object /\ \E i \in 1..k : f = NameOf(fields, i) /\ v = fields[i]

LEMMA InlinesGoOn ==
    ASSUME NEW p, NEW q, NEW object, object # Absent, NEW fields, NEW k \in Nat,
           InlinesDone(p, q, object, fields, k), NEW r,
           r = ConsumeInlineField(q, object, fields[k + 1])
    PROVE  InlinesDone(p, r, object, fields, k + 1)
<1> DEFINE name == NameOf(fields, k + 1)
           field == fields[k + 1]
<1>1. FieldStep(q, r, object, name, field)
  BY InlineStep DEF InlinesDone, NameOf
<1>2. 1..(k + 1) = (1..k) \cup {k + 1} /\ k + 1 \notin 1..k
  OBVIOUS
<1> HIDE DEF name, field
<1>3. Named(fields, k + 1) <=> /\ Named(fields, k) /\ name # Absent
                               /\ \A i \in 1..k : NameOf(fields, i) # name
  BY <1>2, Zenon DEF Named, name
<1>4. q.errors = {} => ((\A v : ~FieldIs(q, object, name, v)) <=>
          /\ \A v : ~FieldIs(p, object, name, v)
          /\ \A i \in 1..k : NameOf(fields, i) # name)
  BY Zenon DEF InlinesDone
<1>5. r.errors = {} <=> /\ p.errors = {} /\ Named(fields, k + 1)
                        /\ \A i \in 1..(k + 1) : \A v : ~FieldIs(p, object, NameOf(fields, i), v)
  <2>1. (\A i \in 1..(k + 1) : \A v : ~FieldIs(p, object, NameOf(fields, i), v)) <=>
            /\ \A i \in 1..k : \A v : ~FieldIs(p, object, NameOf(fields, i), v)
            /\ \A v : ~FieldIs(p, object, name, v)
    BY <1>2, Zenon DEF name
  <2>2. r.errors = {} <=> q.errors = {} /\ name # Absent /\ \A v : ~FieldIs(q, object, name, v)
    BY <1>1 DEF FieldStep
  <2>3. q.errors = {} <=> /\ p.errors = {} /\ Named(fields, k)
                          /\ \A i \in 1..k : \A v : ~FieldIs(p, object, NameOf(fields, i), v)
    BY DEF InlinesDone
  <2>4. QED  BY <1>3, <1>4, <2>1, <2>2, <2>3, Zenon
<1>6. ASSUME r.errors = {}
      PROVE  /\ r.taxonomy = p.taxonomy
             /\ \A n, v : ObjectIs(r, n, v) <=> ObjectIs(p, n, v)
             /\ \A n, f, v : FieldIs(r, n, f, v) <=>
                    \/ FieldIs(p, n, f, v)
                    \/ n = object /\ \E i \in 1..(k + 1) : f = NameOf(fields, i) /\ v = fields[i]
  <2>1. q.errors = {}
    BY <1>1, <1>6 DEF FieldStep
  <2>2. r.taxonomy = p.taxonomy /\ \A n, v : ObjectIs(r, n, v) <=> ObjectIs(p, n, v)
    BY <1>1, <1>6, <2>1 DEF FieldStep, InlinesDone
  <2>3. ASSUME NEW n, NEW f, NEW v
        PROVE  FieldIs(r, n, f, v) <=>
                    \/ FieldIs(p, n, f, v)
                    \/ n = object /\ \E i \in 1..(k + 1) : f = NameOf(fields, i) /\ v = fields[i]
    <3>1. FieldIs(r, n, f, v) <=> FieldIs(q, n, f, v) \/ (n = object /\ f = name /\ v = field)
      BY <1>1, <1>6 DEF FieldStep
    <3>2. FieldIs(q, n, f, v) <=>
              \/ FieldIs(p, n, f, v)
              \/ n = object /\ \E i \in 1..k : f = NameOf(fields, i) /\ v = fields[i]
      BY <2>1 DEF InlinesDone
    <3>3. (\E i \in 1..(k + 1) : f = NameOf(fields, i) /\ v = fields[i]) <=>
              \/ \E i \in 1..k : f = NameOf(fields, i) /\ v = fields[i]
              \/ f = name /\ v = field
      BY <1>2, Zenon DEF name, field
    <3>4. QED  BY <3>1, <3>2, <3>3
  <2>4. QED  BY <2>2, <2>3
<1>7. ParsedOK(r)
  BY <1>1 DEF FieldStep
<1>8. QED  BY <1>5, <1>6, <1>7 DEF InlinesDone

LEMMA InlineFields ==
    ASSUME NEW p, ParsedOK(p), NEW object, object # Absent, NEW fields, Len(fields) \in Nat
    PROVE  InlinesDone(p, consumeInlineFields(p, object, fields), object, fields, Len(fields))
<1>1. PICK u : InlineRun(u, p, object, fields)
  BY InlinesAre
<1> DEFINE S == {k \in Nat : InlinesDone(p, u[k], object, fields, k)}
<1>2. 0 \in S
  <2>1. 1..0 = {}
    OBVIOUS
  <2>2. InlinesDone(p, p, object, fields, 0)
    BY <2>1 DEF InlinesDone, Named
  <2>3. QED  BY <1>1, <2>2 DEF InlineRun
<1>3. ASSUME NEW k \in 0..(Len(fields) - 1), k \in S PROVE k + 1 \in S
  <2>1. k \in Nat /\ k + 1 \in Nat
    OBVIOUS
  <2>2. InlinesDone(p, u[k + 1], object, fields, k + 1)
    BY <1>1, <1>3, <2>1, InlinesGoOn DEF InlineRun
  <2>3. QED  BY <2>1, <2>2
<1>4. Len(fields) \in S
  <2> HIDE DEF S
  <2>1. Len(fields) \in 0..Len(fields)
    OBVIOUS
  <2>2. QED  BY <1>2, <1>3, <2>1, EveryPosition
<1>5. QED  BY <1>1, <1>4 DEF InlineRun

\* What reading one more file makes of a parse.
FileStep(p, q, file) ==
    /\ ParsedOK(q)
    /\ q.errors = {} <=> p.errors = {} /\ Sound(file) /\ FreshIn(p, file)
    /\ q.errors = {} =>
           /\ DOMAIN q.taxonomy = {} <=> DOMAIN p.taxonomy = {} /\ ~IsTaxonomyFile(file)
           /\ \A n, v : ObjectIs(q, n, v) <=> ObjectIs(p, n, v) \/ DeclaresObject(file, n, v)
           /\ \A n, f, v : FieldIs(q, n, f, v) <=> FieldIs(p, n, f, v) \/ DeclaresField(file, n, f, v)

Spoiled(p, codes) == [p EXCEPT !.errors = @ \cup codes]

\* A file that cannot be used leaves an error.
LEMMA ErrorStep ==
    ASSUME NEW p, ParsedOK(p), NEW file, NEW codes, codes # {},
           ~Sound(file) \/ ~FreshIn(p, file)
    PROVE  FileStep(p, Spoiled(p, codes), file)
<1>1. PICK q : q = [p EXCEPT !.errors = @ \cup codes]
  OBVIOUS
<1>2. ParsedOK(q) /\ q.errors # {}
  BY <1>1, ErrorIs
<1>3. QED  BY <1>1, <1>2 DEF FileStep, Spoiled

\* A field file declares one field, and what it declares is fresh when its
\* name is free.
LEMMA FieldFileDeclares ==
    ASSUME NEW file, IsFieldFile(file)
    PROVE  /\ ~IsTaxonomyFile(file) /\ ~IsObjectFile(file) /\ \A n, v : ~DeclaresObject(file, n, v)
           /\ Sound(file) <=> FieldOwner(file) # Absent /\ Get(Document(file), "name") # Absent
           /\ \A n, f, v : DeclaresField(file, n, f, v) <=>
                  /\ n = FieldOwner(file) /\ f = Get(Document(file), "name")
                  /\ v = normalizeLegacyRelationField(Document(file))
           /\ \A p : FreshIn(p, file) <=>
                         \A v : ~FieldIs(p, FieldOwner(file), Get(Document(file), "name"), v)
<1>1. ~IsTaxonomyFile(file) /\ ~IsObjectFile(file)
  BY DEF IsTaxonomyFile, IsObjectFile
<1>2. \A n, v : ~DeclaresObject(file, n, v)
  BY <1>1 DEF DeclaresObject
<1>3. Sound(file) <=> FieldOwner(file) # Absent /\ Get(Document(file), "name") # Absent
  BY <1>1 DEF Sound, IsFieldFile
<1>4. ASSUME NEW n, NEW f, NEW v
      PROVE  DeclaresField(file, n, f, v) <=>
                 /\ n = FieldOwner(file) /\ f = Get(Document(file), "name")
                 /\ v = normalizeLegacyRelationField(Document(file))
  BY <1>1 DEF DeclaresField
<1>5. ASSUME NEW p
      PROVE  FreshIn(p, file) <=> \A v : ~FieldIs(p, FieldOwner(file), Get(Document(file), "name"), v)
  BY <1>2, <1>4, Zenon DEF FreshIn
<1>6. QED  BY <1>1, <1>2, <1>3, <1>4, <1>5

\* An object file declares an object and the fields in it.
ObjectFileIs(p, file, name) ==
    /\ ~IsTaxonomyFile(file) /\ ~IsFieldFile(file)
    /\ Sound(file) <=> name # Absent /\ Named(file.fields, Len(file.fields))
    /\ \A n, v : DeclaresObject(file, n, v) <=> n = name /\ v = Document(file)
    /\ \A n, f, v : DeclaresField(file, n, f, v) <=>
           /\ n = name
           /\ \E i \in 1..Len(file.fields) : f = NameOf(file.fields, i) /\ v = file.fields[i]
    /\ FreshIn(p, file) <=>
           /\ \A v : ~ObjectIs(p, name, v)
           /\ \A i \in 1..Len(file.fields) : \A v : ~FieldIs(p, name, NameOf(file.fields, i), v)

LEMMA ObjectFileDeclares ==
    ASSUME NEW p, NEW file, IsObjectFile(file), NEW name, name = Get(Document(file), "nameSingular")
    PROVE  ObjectFileIs(p, file, name)
<1>1. ~IsTaxonomyFile(file) /\ ~IsFieldFile(file)
  BY DEF IsTaxonomyFile, IsObjectFile
<1>2. \A n, v : DeclaresObject(file, n, v) <=> n = name /\ v = Document(file)
  BY DEF DeclaresObject
<1>3. Sound(file) <=> name # Absent /\ Named(file.fields, Len(file.fields))
  BY <1>1 DEF Sound, IsObjectFile
<1>4. ASSUME NEW n, NEW f, NEW v
      PROVE  DeclaresField(file, n, f, v) <=>
                  /\ n = name
                  /\ \E i \in 1..Len(file.fields) : f = NameOf(file.fields, i) /\ v = file.fields[i]
  BY <1>1 DEF DeclaresField
<1>5. FreshIn(p, file) <=>
          /\ \A v : ~ObjectIs(p, name, v)
          /\ \A i \in 1..Len(file.fields) : \A v : ~FieldIs(p, name, NameOf(file.fields, i), v)
  <2>1. (\A n, v, w : ~(DeclaresObject(file, n, v) /\ ObjectIs(p, n, w))) <=> \A v : ~ObjectIs(p, name, v)
    BY <1>2
  <2>2. (\A n, f, v, w : ~(DeclaresField(file, n, f, v) /\ FieldIs(p, n, f, w))) <=>
            \A i \in 1..Len(file.fields) : \A v : ~FieldIs(p, name, NameOf(file.fields, i), v)
    <3>1. ASSUME NEW i \in 1..Len(file.fields), NEW v,
                 \A n, f, u, w : ~(DeclaresField(file, n, f, u) /\ FieldIs(p, n, f, w))
          PROVE  ~FieldIs(p, name, NameOf(file.fields, i), v)
      <4>1. DeclaresField(file, name, NameOf(file.fields, i), file.fields[i])
        BY <1>4
      <4>2. QED  BY <3>1, <4>1
    <3>2. ASSUME NEW n, NEW f, NEW v, NEW w, DeclaresField(file, n, f, v), FieldIs(p, n, f, w),
                 \A i \in 1..Len(file.fields) : \A u : ~FieldIs(p, name, NameOf(file.fields, i), u)
          PROVE  FALSE
      <4>1. n = name /\ \E i \in 1..Len(file.fields) : f = NameOf(file.fields, i)
        BY <1>4, <3>2
      <4>2. QED  BY <3>2, <4>1
    <3>3. QED  BY <3>1, <3>2
  <2>3. QED  BY <2>1, <2>2, Zenon DEF FreshIn
<1>6. QED  BY <1>1, <1>2, <1>3, <1>4, <1>5 DEF ObjectFileIs

LEMMA FieldDocumentStep ==
    ASSUME NEW p, ParsedOK(p), NEW file, IsFieldFile(file)
    PROVE  FileStep(p, consumeFieldDocument(p, file), file)
<1> DEFINE q == consumeFieldDocument(p, file)
           object == FieldOwner(file)
           name == Get(Document(file), "name")
           field == normalizeLegacyRelationField(Document(file))
<1>1. FieldStep(p, q, object, name, field)
  BY FieldFileStep
<1>2. /\ ~IsTaxonomyFile(file) /\ \A n, v : ~DeclaresObject(file, n, v)
      /\ Sound(file) <=> object # Absent /\ name # Absent
      /\ \A n, f, v : DeclaresField(file, n, f, v) <=> n = object /\ f = name /\ v = field
      /\ FreshIn(p, file) <=> \A v : ~FieldIs(p, object, name, v)
  BY FieldFileDeclares
<1> HIDE DEF q, object, name, field
<1>3. FileStep(p, q, file)
  BY <1>1, <1>2 DEF FieldStep, FileStep
<1>4. QED  BY <1>3 DEF q

LEMMA ObjectDocumentStep ==
    ASSUME NEW p, ParsedOK(p), NEW file, IsObjectFile(file), Len(file.fields) \in Nat
    PROVE  FileStep(p, consumeObjectDocument(p, file), file)
<1>1. PICK name : name = Get(Document(file), "nameSingular")
  OBVIOUS
<1>2. ObjectFileIs(p, file, name)
  BY <1>1, ObjectFileDeclares
<1>3. /\ ~IsTaxonomyFile(file)
      /\ Sound(file) <=> name # Absent /\ Named(file.fields, Len(file.fields))
      /\ \A n, v : DeclaresObject(file, n, v) <=> n = name /\ v = Document(file)
      /\ \A n, f, v : DeclaresField(file, n, f, v) <=>
             /\ n = name
             /\ \E i \in 1..Len(file.fields) : f = NameOf(file.fields, i) /\ v = file.fields[i]
      /\ FreshIn(p, file) <=>
             /\ \A v : ~ObjectIs(p, name, v)
             /\ \A i \in 1..Len(file.fields) : \A v : ~FieldIs(p, name, NameOf(file.fields, i), v)
  BY <1>2 DEF ObjectFileIs
<1>4. CASE name = Absent
  <2>1. consumeObjectDocument(p, file) = Spoiled(p, {"OBJECT_NAME_MISSING"})
    BY <1>1, <1>4 DEF consumeObjectDocument, Error, Spoiled
  <2>2. {"OBJECT_NAME_MISSING"} # {} /\ ~Sound(file)
    BY <1>3, <1>4
  <2>3. QED  BY <2>1, <2>2, ErrorStep
<1>5. CASE name # Absent /\ EntryOf(p, name).defined
  <2>1. consumeObjectDocument(p, file) = Spoiled(p, {"DUPLICATE_OBJECT"})
    BY <1>1, <1>5 DEF consumeObjectDocument, Error, Spoiled
  <2>2. ObjectIs(p, name, EntryOf(p, name).properties)
    BY <1>5 DEF ObjectIs
  <2>3. {"DUPLICATE_OBJECT"} # {} /\ ~FreshIn(p, file)
    BY <1>3, <2>2
  <2>4. QED  BY <2>1, <2>3, ErrorStep
<1>6. CASE name # Absent /\ ~EntryOf(p, name).defined
  <2>1. PICK r : r = WithObject(p, name, Document(file))
    OBVIOUS
  <2>2. /\ ParsedOK(r) /\ r.errors = p.errors /\ r.taxonomy = p.taxonomy
        /\ \A n, v : ObjectIs(r, n, v) <=> ObjectIs(p, n, v) \/ (n = name /\ v = Document(file))
        /\ \A n, f, v : FieldIs(r, n, f, v) <=> FieldIs(p, n, f, v)
    BY <1>6, <2>1, ObjectAdded
  <2>3. PICK q : q = consumeInlineFields(r, name, file.fields)
    OBVIOUS
  <2>4. InlinesDone(r, q, name, file.fields, Len(file.fields))
    BY <1>6, <2>2, <2>3, InlineFields
  <2>5. consumeObjectDocument(p, file) = q
    BY <1>1, <1>6, <2>1, <2>3 DEF consumeObjectDocument
  <2>6. \A v : ~ObjectIs(p, name, v)
    BY <1>6 DEF ObjectIs
  <2>7. FileStep(p, q, file)
    <3>1. ParsedOK(q)
      BY <2>4 DEF InlinesDone
    <3>2. q.errors = {} <=> p.errors = {} /\ Sound(file) /\ FreshIn(p, file)
      BY <1>3, <1>6, <2>2, <2>4, <2>6 DEF InlinesDone
    <3>3. ASSUME q.errors = {}
          PROVE  /\ DOMAIN q.taxonomy = {} <=> DOMAIN p.taxonomy = {} /\ ~IsTaxonomyFile(file)
                 /\ \A n, v : ObjectIs(q, n, v) <=> ObjectIs(p, n, v) \/ DeclaresObject(file, n, v)
      BY <1>3, <2>2, <2>4, <3>3 DEF InlinesDone
    <3>4. ASSUME q.errors = {}, NEW n, NEW f, NEW v
          PROVE  FieldIs(q, n, f, v) <=> FieldIs(p, n, f, v) \/ DeclaresField(file, n, f, v)
      BY <1>3, <2>2, <2>4, <3>4 DEF InlinesDone
    <3>5. QED  BY <3>1, <3>2, <3>3, <3>4 DEF FileStep
  <2>8. QED  BY <2>5, <2>7
<1>7. QED  BY <1>4, <1>5, <1>6

LEMMA TaxonomyDocumentStep ==
    ASSUME NEW p, ParsedOK(p), NEW file, IsTaxonomyFile(file)
    PROVE  FileStep(p, consumeTaxonomyDocument(p, file), file)
<1>1. PICK taxonomy : taxonomy = Put(p.taxonomy, <<TaxonomyKind(file), Get(file.payload, "apiName")>>,
                                     file.payload)
  OBVIOUS
<1>2. DOMAIN taxonomy # {}
  BY <1>1 DEF Put
<1>3. PICK q : q = [objects |-> p.objects, taxonomy |-> taxonomy, errors |-> p.errors]
  OBVIOUS
<1>4. consumeTaxonomyDocument(p, file) = q
  BY <1>1, <1>3 DEF consumeTaxonomyDocument, ParsedOK
<1>5. q.objects = p.objects /\ q.taxonomy = taxonomy /\ q.errors = p.errors
  BY <1>3
<1>6. \A n : EntryOf(q, n) = EntryOf(p, n)
  BY <1>5 DEF EntryOf
<1>7. ParsedOK(q)
  BY <1>3, <1>5, <1>6 DEF ParsedOK
<1>8. ~IsFieldFile(file) /\ ~IsObjectFile(file) /\ Accepted(file)
  BY DEF IsTaxonomyFile, IsObjectFile
<1>9. Sound(file) /\ FreshIn(p, file)
  BY <1>8 DEF Sound, FreshIn, DeclaresObject, DeclaresField
<1>10. \A n, f, v : ~DeclaresObject(file, n, v) /\ ~DeclaresField(file, n, f, v)
  BY <1>8 DEF DeclaresObject, DeclaresField
<1>11. FileStep(p, q, file)
  BY <1>2, <1>5, <1>6, <1>7, <1>9, <1>10 DEF FileStep, ObjectIs, FieldIs
<1>12. QED  BY <1>4, <1>11

LEMMA ConsumeStep ==
    ASSUME NEW p, ParsedOK(p), NEW file, Len(file.fields) \in Nat
    PROVE  FileStep(p, Consume(p, file), file)
<1>1. CASE file.type = "other"
  <2>1. Consume(p, file) = p
    BY <1>1 DEF Consume
  <2>2. ~IsFieldFile(file) /\ ~IsObjectFile(file) /\ ~IsTaxonomyFile(file)
    BY <1>1 DEF IsFieldFile, IsObjectFile, IsTaxonomyFile, Accepted
  <2>3. Sound(file) /\ FreshIn(p, file)
    BY <1>1, <2>2 DEF Sound, FreshIn, DeclaresObject, DeclaresField
  <2>4. \A n, f, v : ~DeclaresObject(file, n, v) /\ ~DeclaresField(file, n, f, v)
    BY <2>2 DEF DeclaresObject, DeclaresField
  <2>5. FileStep(p, p, file)
    BY <2>2, <2>3, <2>4 DEF FileStep
  <2>6. QED  BY <2>1, <2>5
<1>2. CASE file.type # "other" /\ ~Accepted(file)
  <2>1. ~Sound(file)
    BY <1>2 DEF Sound
  <2>2. PICK codes : codes # {} /\ Consume(p, file) = Spoiled(p, codes)
    <3>1. CASE file.status = "broken"
      <4>1. Consume(p, file) = Spoiled(p, {"PARSE_ERROR"})
        BY <1>2, <3>1 DEF Consume, Error, Spoiled
      <4>2. {"PARSE_ERROR"} # {}
        OBVIOUS
      <4>3. QED  BY <4>1, <4>2, Zenon
    <3>2. CASE file.status = "scalar"
      <4>1. Consume(p, file) = Spoiled(p, {"INVALID_DOCUMENT"})
        BY <1>2, <3>2 DEF Consume, Error, Spoiled
      <4>2. {"INVALID_DOCUMENT"} # {}
        OBVIOUS
      <4>3. QED  BY <4>1, <4>2, Zenon
    <3>3. CASE file.status \notin {"broken", "scalar"}
      <4>1. EnvelopeErrors(file) # {}
        BY <1>2, <3>3 DEF Accepted
      <4>2. Consume(p, file) = Spoiled(p, EnvelopeErrors(file))
        BY <1>2, <3>3, <4>1 DEF Consume, Spoiled
      <4>3. QED  BY <4>1, <4>2, Zenon
    <3>4. QED  BY <3>1, <3>2, <3>3
  <2>3. QED  BY <2>1, <2>2, ErrorStep
<1>3. CASE IsFieldFile(file)
  <2>1. Consume(p, file) = consumeFieldDocument(p, file)
    BY <1>3 DEF Consume, IsFieldFile, Accepted
  <2>2. QED  BY <1>3, <2>1, FieldDocumentStep
<1>4. CASE IsTaxonomyFile(file)
  <2>1. Consume(p, file) = consumeTaxonomyDocument(p, file)
    BY <1>4 DEF Consume, IsFieldFile, IsTaxonomyFile, Accepted
  <2>2. QED  BY <1>4, <2>1, TaxonomyDocumentStep
<1>5. CASE IsObjectFile(file)
  <2>1. Consume(p, file) = consumeObjectDocument(p, file)
    BY <1>5 DEF Consume, IsFieldFile, IsObjectFile, Accepted
  <2>2. QED  BY <1>5, <2>1, ObjectDocumentStep
<1>6. QED  BY <1>1, <1>2, <1>3, <1>4, <1>5 DEF IsFieldFile, IsTaxonomyFile, IsObjectFile

\* The parse after each file.
Readings(u, files, k) ==
    u = [n \in 0..k |-> IF n = 0 THEN NothingParsed ELSE Consume(u[n - 1], files[n])]

ReadingRun(u, files) ==
    /\ Consumed(files) = u[Len(files)] /\ u[0] = NothingParsed
    /\ \A k \in 0..(Len(files) - 1) : u[k + 1] = Consume(u[k], files[k + 1])

LEMMA ReadingsExist ==
    ASSUME NEW files, NEW L \in Nat
    PROVE  \E u : Readings(u, files, L)
<1> DEFINE S == {k \in Nat : \E u : Readings(u, files, k)}
<1>1. 0 \in S
  <2>1. PICK u : u = [n \in 0..0 |-> NothingParsed]
    OBVIOUS
  <2>2. u = [n \in 0..0 |-> IF n = 0 THEN NothingParsed ELSE Consume(u[n - 1], files[n])]
    BY <2>1
  <2>3. QED  BY <2>2 DEF Readings
<1>2. ASSUME NEW k \in Nat, k \in S PROVE k + 1 \in S
  <2>1. PICK g : Readings(g, files, k)
    BY <1>2
  <2>2. PICK last : last = Consume(g[k], files[k + 1])
    OBVIOUS
  <2>3. PICK u : u = [n \in 0..(k + 1) |-> IF n = k + 1 THEN last ELSE g[n]]
    OBVIOUS
  <2>4. \A n \in 0..k : g[n] = IF n = 0 THEN NothingParsed ELSE Consume(g[n - 1], files[n])
    BY <2>1 DEF Readings
  <2>5. ASSUME NEW n \in 0..(k + 1)
        PROVE  u[n] = IF n = 0 THEN NothingParsed ELSE Consume(u[n - 1], files[n])
    <3>1. CASE n = k + 1
      BY <2>2, <2>3, <3>1
    <3>2. CASE n \in 0..k
      BY <2>3, <2>4, <3>2
    <3>3. QED  BY <3>1, <3>2
  <2>6. u = [n \in 0..(k + 1) |-> IF n = 0 THEN NothingParsed ELSE Consume(u[n - 1], files[n])]
    BY <2>3, <2>5
  <2>7. QED  BY <2>6 DEF Readings
<1>3. \A i \in 0..L : i \in S
  <2> HIDE DEF S
  <2>1. QED  BY <1>1, <1>2, EveryPosition
<1>4. QED  BY <1>3

LEMMA ReadingsAre ==
    ASSUME NEW files, Len(files) \in Nat
    PROVE  \E u : ReadingRun(u, files)
<1> DEFINE u == CHOOSE u : u = [n \in 0..Len(files) |->
                    IF n = 0 THEN NothingParsed ELSE Consume(u[n - 1], files[n])]
<1>1. Consumed(files) = u[Len(files)]
  BY Zenon DEF Consumed
<1>2. u = [n \in 0..Len(files) |-> IF n = 0 THEN NothingParsed ELSE Consume(u[n - 1], files[n])]
  <2>1. \E g : Readings(g, files, Len(files))
    BY ReadingsExist
  <2>2. QED  BY <2>1, Zenon DEF Readings
<1> HIDE DEF u
<1>3. u[0] = NothingParsed
  BY <1>2
<1>4. ASSUME NEW k \in 0..(Len(files) - 1)
      PROVE  u[k + 1] = Consume(u[k], files[k + 1])
  <2>1. k + 1 \in 0..Len(files) /\ k + 1 # 0 /\ (k + 1) - 1 = k
    OBVIOUS
  <2>2. u[k + 1] = Consume(u[(k + 1) - 1], files[k + 1])
    BY <1>2, <2>1
  <2>3. QED  BY <2>1, <2>2
<1>5. ReadingRun(u, files)
  BY <1>1, <1>3, <1>4 DEF ReadingRun
<1>6. QED  BY <1>5

\* What the first k files make of a parse: no file is named but by what it
\* declares, and their order does not show.
AllSound(files, k) ==
    \A i \in 1..k : Sound(files[i]) /\ \A j \in 1..k : i # j => Compatible(files[i], files[j])

Tells(q, files, k) ==
    /\ DOMAIN q.taxonomy = {} <=> \A i \in 1..k : ~IsTaxonomyFile(files[i])
    /\ \A n, v : ObjectIs(q, n, v) <=> \E i \in 1..k : DeclaresObject(files[i], n, v)
    /\ \A n, f, v : FieldIs(q, n, f, v) <=> \E i \in 1..k : DeclaresField(files[i], n, f, v)

ReadFrom(q, files, k) ==
    /\ ParsedOK(q)
    /\ q.errors = {} <=> AllSound(files, k)
    /\ q.errors = {} => Tells(q, files, k)

LEMMA CompatibleTurned ==
    ASSUME NEW file, NEW other
    PROVE  Compatible(file, other) <=> Compatible(other, file)
BY Zenon DEF Compatible

LEMMA OneMore ==
    ASSUME NEW k \in Nat
    PROVE  1..(k + 1) = (1..k) \cup {k + 1} /\ k + 1 \notin 1..k
OBVIOUS

LEMMA FreshIsCompatible ==
    ASSUME NEW q, NEW files, NEW k \in Nat, Tells(q, files, k), NEW file
    PROVE  FreshIn(q, file) <=> \A i \in 1..k : Compatible(files[i], file)
<1>1. ASSUME FreshIn(q, file), NEW i \in 1..k PROVE Compatible(files[i], file)
  <2>1. ASSUME NEW n, NEW v, NEW w, DeclaresObject(files[i], n, v), DeclaresObject(file, n, w)
        PROVE  FALSE
    <3>1. ObjectIs(q, n, v)
      BY <2>1 DEF Tells
    <3>2. QED  BY <1>1, <2>1, <3>1 DEF FreshIn
  <2>2. ASSUME NEW n, NEW f, NEW v, NEW w, DeclaresField(files[i], n, f, v), DeclaresField(file, n, f, w)
        PROVE  FALSE
    <3>1. FieldIs(q, n, f, v)
      BY <2>2 DEF Tells
    <3>2. QED  BY <1>1, <2>2, <3>1 DEF FreshIn
  <2>3. QED  BY <2>1, <2>2 DEF Compatible
<1>2. ASSUME \A i \in 1..k : Compatible(files[i], file) PROVE FreshIn(q, file)
  <2>1. ASSUME NEW n, NEW v, NEW w, DeclaresObject(file, n, v), ObjectIs(q, n, w)
        PROVE  FALSE
    <3>1. PICK i \in 1..k : DeclaresObject(files[i], n, w)
      BY <2>1 DEF Tells
    <3>2. QED  BY <1>2, <2>1, <3>1 DEF Compatible
  <2>2. ASSUME NEW n, NEW f, NEW v, NEW w, DeclaresField(file, n, f, v), FieldIs(q, n, f, w)
        PROVE  FALSE
    <3>1. PICK i \in 1..k : DeclaresField(files[i], n, f, w)
      BY <2>2 DEF Tells
    <3>2. QED  BY <1>2, <2>2, <3>1 DEF Compatible
  <2>3. QED  BY <2>1, <2>2 DEF FreshIn
<1>3. QED  BY <1>1, <1>2

LEMMA ReadingGoesOn ==
    ASSUME NEW q, NEW files, NEW k \in Nat, ReadFrom(q, files, k),
           Len(files[k + 1].fields) \in Nat, NEW r, r = Consume(q, files[k + 1])
    PROVE  ReadFrom(r, files, k + 1)
<1> DEFINE more == k + 1
<1>1. 1..more = (1..k) \cup {more} /\ more \notin 1..k
  BY OneMore
<1>2. PICK file : file = files[more]
  OBVIOUS
<1>3. FileStep(q, r, file)
  BY <1>2, ConsumeStep DEF ReadFrom
<1> HIDE DEF more
<1>4. AllSound(files, more) <=> /\ AllSound(files, k) /\ Sound(file)
                                 /\ \A i \in 1..k : Compatible(files[i], file)
  <2>1. ASSUME AllSound(files, more)
        PROVE  AllSound(files, k) /\ Sound(file) /\ \A i \in 1..k : Compatible(files[i], file)
    BY <1>2, <2>1, <1>1 DEF AllSound
  <2>2. ASSUME AllSound(files, k), Sound(file), \A i \in 1..k : Compatible(files[i], file),
               NEW i \in 1..more
        PROVE  Sound(files[i]) /\ \A j \in 1..more : i # j => Compatible(files[i], files[j])
    <3>1. Sound(files[i])
      BY <1>2, <2>2, <1>1 DEF AllSound
    <3>2. ASSUME NEW j \in 1..more, i # j PROVE Compatible(files[i], files[j])
      <4>1. CASE i \in 1..k /\ j \in 1..k
        BY <2>2, <3>2, <4>1 DEF AllSound
      <4>2. CASE i \in 1..k /\ j = more
        BY <1>2, <2>2, <4>2
      <4>3. CASE i = more /\ j \in 1..k
        <5>1. Compatible(files[j], file)
          BY <2>2, <4>3
        <5>2. Compatible(file, files[j])
          BY <5>1, CompatibleTurned
        <5>3. QED  BY <1>2, <4>3, <5>2
      <4>4. QED  BY <3>2, <4>1, <4>2, <4>3, <1>1
    <3>3. QED  BY <3>1, <3>2
  <2>3. QED  BY <2>1, <2>2 DEF AllSound
<1>5. r.errors = {} <=> AllSound(files, more)
  <2>1. r.errors = {} <=> q.errors = {} /\ Sound(file) /\ FreshIn(q, file)
    BY <1>3 DEF FileStep
  <2>2. q.errors = {} => (FreshIn(q, file) <=> \A i \in 1..k : Compatible(files[i], file))
    BY FreshIsCompatible DEF ReadFrom
  <2>3. q.errors = {} <=> AllSound(files, k)
    BY DEF ReadFrom
  <2>4. QED  BY <1>4, <2>1, <2>2, <2>3, Zenon
<1>6. ASSUME r.errors = {} PROVE Tells(r, files, more)
  <2>1. q.errors = {}
    BY <1>3, <1>6 DEF FileStep
  <2>2. Tells(q, files, k)
    BY <2>1 DEF ReadFrom
  <2>3. DOMAIN r.taxonomy = {} <=> \A i \in 1..more : ~IsTaxonomyFile(files[i])
    <3>1. DOMAIN r.taxonomy = {} <=> DOMAIN q.taxonomy = {} /\ ~IsTaxonomyFile(file)
      BY <1>3, <1>6 DEF FileStep
    <3>2. DOMAIN q.taxonomy = {} <=> \A i \in 1..k : ~IsTaxonomyFile(files[i])
      BY <2>2 DEF Tells
    <3>3. QED  BY <1>2, <3>1, <3>2, <1>1
  <2>4. ASSUME NEW n, NEW v
        PROVE  ObjectIs(r, n, v) <=> \E i \in 1..more : DeclaresObject(files[i], n, v)
    <3>1. ObjectIs(r, n, v) <=> ObjectIs(q, n, v) \/ DeclaresObject(file, n, v)
      BY <1>3, <1>6 DEF FileStep
    <3>2. ObjectIs(q, n, v) <=> \E i \in 1..k : DeclaresObject(files[i], n, v)
      BY <2>2 DEF Tells
    <3>3. QED  BY <1>2, <3>1, <3>2, <1>1
  <2>5. ASSUME NEW n, NEW f, NEW v
        PROVE  FieldIs(r, n, f, v) <=> \E i \in 1..more : DeclaresField(files[i], n, f, v)
    <3>1. FieldIs(r, n, f, v) <=> FieldIs(q, n, f, v) \/ DeclaresField(file, n, f, v)
      BY <1>3, <1>6 DEF FileStep
    <3>2. FieldIs(q, n, f, v) <=> \E i \in 1..k : DeclaresField(files[i], n, f, v)
      BY <2>2 DEF Tells
    <3>3. QED  BY <1>2, <3>1, <3>2, <1>1
  <2>6. QED  BY <2>3, <2>4, <2>5 DEF Tells
<1>7. ParsedOK(r)
  BY <1>3 DEF FileStep
<1>8. QED  BY <1>5, <1>6, <1>7 DEF ReadFrom, more

LEMMA FilesRead ==
    ASSUME NEW files, Len(files) \in Nat, \A i \in 1..Len(files) : Len(files[i].fields) \in Nat
    PROVE  ReadFrom(Consumed(files), files, Len(files))
<1>1. PICK u : ReadingRun(u, files)
  BY ReadingsAre
<1> DEFINE S == {k \in Nat : ReadFrom(u[k], files, k)}
<1>2. 0 \in S
  <2>1. 1..0 = {}
    OBVIOUS
  <2>2. ReadFrom(NothingParsed, files, 0)
    BY <2>1, NothingParsedOK DEF ReadFrom, AllSound, Tells
  <2>3. QED  BY <1>1, <2>2 DEF ReadingRun
<1>3. ASSUME NEW k \in 0..(Len(files) - 1), k \in S PROVE k + 1 \in S
  <2>1. k \in Nat /\ k + 1 \in Nat /\ k + 1 \in 1..Len(files)
    OBVIOUS
  <2>2. u[k + 1] = Consume(u[k], files[k + 1]) /\ Len(files[k + 1].fields) \in Nat
    BY <1>1, <2>1 DEF ReadingRun
  <2>3. ReadFrom(u[k + 1], files, k + 1)
    BY <1>3, <2>1, <2>2, ReadingGoesOn
  <2>4. QED  BY <2>1, <2>3
<1>4. Len(files) \in S
  <2> HIDE DEF S
  <2>1. Len(files) \in 0..Len(files)
    OBVIOUS
  <2>2. QED  BY <1>2, <1>3, <2>1, EveryPosition
<1>5. QED  BY <1>1, <1>4 DEF ReadingRun

----------------------------------------------------------------------------
(* Parsing: what is declared decides what is parsed *)

Orphans(q) == {n \in DOMAIN q.objects : ~q.objects[n].defined}

\* Two parses with the same facts.
SameFacts(q, r) ==
    /\ \A n, v : ObjectIs(q, n, v) <=> ObjectIs(r, n, v)
    /\ \A n, f, v : FieldIs(q, n, f, v) <=> FieldIs(r, n, f, v)
    /\ DOMAIN q.taxonomy = {} <=> DOMAIN r.taxonomy = {}

LEMMA EntriesAreNamed ==
    ASSUME NEW q, ParsedOK(q), NEW n
    PROVE  n \in DOMAIN q.objects <=> EntryOf(q, n).defined \/ DOMAIN EntryOf(q, n).fields # {}
<1>1. CASE n \in DOMAIN q.objects
  BY <1>1 DEF ParsedOK
<1>2. CASE n \notin DOMAIN q.objects
  <2>1. EntryOf(q, n) = NoEntry
    BY <1>2 DEF EntryOf
  <2>2. QED  BY <1>2, <2>1, NoEntryOK
<1>3. QED  BY <1>1, <1>2

LEMMA SameEntries ==
    ASSUME NEW q, ParsedOK(q), NEW r, ParsedOK(r), SameFacts(q, r), NEW n
    PROVE  /\ EntryOf(q, n).defined = EntryOf(r, n).defined
           /\ EntryOf(q, n).defined => EntryOf(q, n).properties = EntryOf(r, n).properties
           /\ EntryOf(q, n).fields = EntryOf(r, n).fields
<1>1. PICK d : d = EntryOf(q, n)
  OBVIOUS
<1>2. PICK e : e = EntryOf(r, n)
  OBVIOUS
<1>3. DeclarationOK(d) /\ DeclarationOK(e)
  BY <1>1, <1>2 DEF ParsedOK
<1>4. \A v : d.defined /\ v = d.properties <=> e.defined /\ v = e.properties
  BY <1>1, <1>2 DEF SameFacts, ObjectIs
<1>5. d.defined = e.defined /\ (d.defined => d.properties = e.properties)
  <2>1. d.defined \in BOOLEAN /\ e.defined \in BOOLEAN
    BY <1>3 DEF DeclarationOK
  <2>2. (d.defined <=> e.defined) /\ (d.defined => d.properties = e.properties)
    BY <1>4, Zenon
  <2>3. QED  BY <2>1, <2>2
<1>6. \A f, v : f \in DOMAIN d.fields /\ v = d.fields[f] <=> f \in DOMAIN e.fields /\ v = e.fields[f]
  BY <1>1, <1>2 DEF SameFacts, FieldIs
<1>7. PICK s, t : s = d.fields /\ t = e.fields
  OBVIOUS
<1>8. s = [f \in DOMAIN s |-> s[f]] /\ t = [f \in DOMAIN t |-> t[f]]
  BY <1>3, <1>7 DEF DeclarationOK
<1>9. \A f : (f \in DOMAIN s <=> f \in DOMAIN t) /\ (f \in DOMAIN s => s[f] = t[f])
  BY <1>6, <1>7
<1>10. DOMAIN s = DOMAIN t
  BY <1>9
<1>11. s = t
  BY <1>8, <1>9, <1>10
<1>12. QED  BY <1>1, <1>2, <1>5, <1>7, <1>11

LEMMA SameParse ==
    ASSUME NEW q, ParsedOK(q), NEW r, ParsedOK(r), SameFacts(q, r)
    PROVE  /\ Orphans(q) = Orphans(r) /\ SnapshotOf(q) = SnapshotOf(r)
           /\ SnapshotErrors(q) = SnapshotErrors(r)
<1>1. DOMAIN q.objects = DOMAIN r.objects
  <2>1. ASSUME NEW n PROVE n \in DOMAIN q.objects <=> n \in DOMAIN r.objects
    <3>1. n \in DOMAIN q.objects <=> EntryOf(q, n).defined \/ DOMAIN EntryOf(q, n).fields # {}
      BY EntriesAreNamed
    <3>2. n \in DOMAIN r.objects <=> EntryOf(r, n).defined \/ DOMAIN EntryOf(r, n).fields # {}
      BY EntriesAreNamed
    <3>3. QED  BY <3>1, <3>2, SameEntries
  <2>2. QED  BY <2>1
<1>2. ASSUME NEW n \in DOMAIN q.objects
      PROVE  /\ q.objects[n].defined = r.objects[n].defined
             /\ q.objects[n].defined => q.objects[n].properties = r.objects[n].properties
             /\ q.objects[n].fields = r.objects[n].fields
  BY <1>1, SameEntries DEF EntryOf
<1>3. Orphans(q) = Orphans(r)
  BY <1>1, <1>2 DEF Orphans
<1>4. {m \in DOMAIN q.objects : q.objects[m].defined} = {m \in DOMAIN r.objects : r.objects[m].defined}
  BY <1>1, <1>2
<1>5. \A n \in {m \in DOMAIN q.objects : q.objects[m].defined} :
          [properties |-> q.objects[n].properties, fields |-> q.objects[n].fields]
              = [properties |-> r.objects[n].properties, fields |-> r.objects[n].fields]
  BY <1>2
<1>6. SnapshotOf(q) = SnapshotOf(r)
  BY <1>4, <1>5 DEF SnapshotOf
<1>7. SnapshotErrors(q) = SnapshotErrors(r)
  <2>1. DOMAIN q.taxonomy # {} <=> DOMAIN r.taxonomy # {}
    BY DEF SameFacts
  <2>2. QED  BY <1>6, <2>1 DEF SnapshotErrors
<1>8. QED  BY <1>3, <1>6, <1>7

LEMMA VerdictIs ==
    ASSUME NEW files, NEW q, q = Consumed(files), ParsedOK(q)
    PROVE  /\ validateFiles(files).valid <=>
                  q.errors = {} /\ Orphans(q) = {} /\ SnapshotErrors(q) = {}
           /\ validateFiles(files).valid => validateFiles(files).snapshot = SnapshotOf(q)
<1>1. CASE Orphans(q) = {}
  <2>1. parseFiles(files) = q
    BY <1>1 DEF parseFiles, Orphans
  <2>2. QED  BY <1>1, <2>1 DEF validateFiles
<1>2. CASE Orphans(q) # {}
  <2>1. parseFiles(files) = Spoiled(q, {"ORPHAN_FIELDS"})
    BY <1>2 DEF parseFiles, Orphans, Error, Spoiled
  <2>2. PICK r : r = Spoiled(q, {"ORPHAN_FIELDS"})
    OBVIOUS
  <2>3. r.errors # {}
    <3>1. {"ORPHAN_FIELDS"} # {}
      OBVIOUS
    <3>2. QED  BY <2>2, <3>1, ErrorIs DEF Spoiled
  <2>4. parseFiles(files) = r
    BY <2>1, <2>2
  <2>5. validateFiles(files).valid = (r.errors \cup SnapshotErrors(r) = {})
    BY <2>4 DEF validateFiles
  <2>6. ~validateFiles(files).valid
    BY <2>3, <2>5
  <2>7. QED  BY <1>2, <2>6
<1>3. QED  BY <1>1, <1>2

----------------------------------------------------------------------------
(* Parsing: the order of the files does not matter *)

\* A choice of each file once.
Shuffled(files, p) == [i \in DOMAIN files |-> files[p[i]]]

IsShuffle(p, k) ==
    /\ p \in [1..k -> 1..k] /\ \A i, j \in 1..k : i # j => p[i] # p[j]
    /\ \A m \in 1..k : \E i \in 1..k : p[i] = m

LEMMA OrdersAreShuffles ==
    ASSUME NEW k \in Nat, NEW p \in SetToSeqs(1..k)
    PROVE  IsShuffle(p, k)
<1>1. IsFiniteSet(1..k) /\ Cardinality(1..k) = k
  <2>1. 1 \in Int /\ k \in Int
    OBVIOUS
  <2>2. QED  BY <2>1, FS_Interval
<1>2. p \in [1..k -> 1..k] /\ \A i, j \in 1..k : i # j => p[i] # p[j]
  BY <1>1 DEF SetToSeqs
<1>3. p \in Injection(1..k, 1..k)
  BY <1>2, Zenon DEF Injection, IsInjective
<1>4. p \in Surjection(1..k, 1..k)
  BY <1>1, <1>3, FS_Injection
<1>5. \A m \in 1..k : \E i \in 1..k : p[i] = m
  BY <1>4 DEF Surjection
<1>6. QED  BY <1>2, <1>5 DEF IsShuffle

LEMMA ShuffledFiles ==
    ASSUME NEW k \in Nat, NEW p, IsShuffle(p, k), NEW files, DOMAIN files = 1..k
    PROVE  \A i \in 1..k : p[i] \in 1..k /\ Shuffled(files, p)[i] = files[p[i]]
BY DEF IsShuffle, Shuffled

LEMMA ShuffledSound ==
    ASSUME NEW k \in Nat, NEW p, IsShuffle(p, k), NEW files, DOMAIN files = 1..k
    PROVE  AllSound(Shuffled(files, p), k) <=> AllSound(files, k)
<1> DEFINE others == Shuffled(files, p)
<1>1. \A i \in 1..k : p[i] \in 1..k /\ others[i] = files[p[i]]
  BY ShuffledFiles
<1> HIDE DEF others
<1>2. ASSUME AllSound(files, k), NEW i \in 1..k
      PROVE  Sound(others[i]) /\ \A j \in 1..k : i # j => Compatible(others[i], others[j])
  <2>1. Sound(files[p[i]])
    BY <1>1, <1>2 DEF AllSound
  <2>2. ASSUME NEW j \in 1..k, i # j PROVE Compatible(files[p[i]], files[p[j]])
    <3>1. p[i] \in 1..k /\ p[j] \in 1..k /\ p[i] # p[j]
      BY <2>2, <1>1 DEF IsShuffle
    <3>2. QED  BY <1>2, <3>1 DEF AllSound
  <2>3. QED  BY <1>1, <2>1, <2>2
<1>3. ASSUME AllSound(others, k), NEW m \in 1..k
      PROVE  Sound(files[m]) /\ \A n \in 1..k : m # n => Compatible(files[m], files[n])
  <2>1. PICK i \in 1..k : p[i] = m
    BY DEF IsShuffle
  <2>2. Sound(files[m])
    BY <1>1, <1>3, <2>1 DEF AllSound
  <2>3. ASSUME NEW n \in 1..k, m # n PROVE Compatible(files[m], files[n])
    <3>1. PICK j \in 1..k : p[j] = n
      BY DEF IsShuffle
    <3>2. i # j
      BY <2>1, <2>3, <3>1
    <3>3. Compatible(others[i], others[j])
      BY <1>3, <3>2 DEF AllSound
    <3>4. QED  BY <1>1, <2>1, <3>1, <3>3
  <2>4. QED  BY <2>2, <2>3
<1>4. AllSound(others, k) <=> AllSound(files, k)
  BY <1>2, <1>3 DEF AllSound
<1>5. QED  BY <1>4 DEF others

LEMMA ShuffledTells ==
    ASSUME NEW k \in Nat, NEW p, IsShuffle(p, k), NEW files, DOMAIN files = 1..k,
           NEW q, Tells(q, files, k), NEW r, Tells(r, Shuffled(files, p), k)
    PROVE  SameFacts(q, r)
<1> DEFINE others == Shuffled(files, p)
<1>1. \A i \in 1..k : p[i] \in 1..k /\ others[i] = files[p[i]]
  BY ShuffledFiles
<1>2. Tells(r, others, k)
  OBVIOUS
<1> HIDE DEF others
<1>3. \A m \in 1..k : \E i \in 1..k : p[i] = m
  BY DEF IsShuffle
<1>4. \A m \in 1..k : \E i \in 1..k : others[i] = files[m]
  <2>1. ASSUME NEW m \in 1..k PROVE \E i \in 1..k : others[i] = files[m]
    <3>1. PICK i \in 1..k : p[i] = m
      BY <1>3
    <3>2. others[i] = files[m]
      BY <1>1, <3>1
    <3>3. QED  BY <3>2
  <2>2. QED  BY <2>1
<1>5. \A i \in 1..k : \E m \in 1..k : others[i] = files[m]
  BY <1>1
<1>6. DOMAIN q.taxonomy = {} <=> DOMAIN r.taxonomy = {}
  <2>1. (\A m \in 1..k : ~IsTaxonomyFile(files[m])) <=> \A i \in 1..k : ~IsTaxonomyFile(others[i])
    BY <1>4, <1>5
  <2>2. QED  BY <1>2, <2>1 DEF Tells
<1>7. ASSUME NEW n, NEW v PROVE ObjectIs(q, n, v) <=> ObjectIs(r, n, v)
  <2>1. (\E m \in 1..k : DeclaresObject(files[m], n, v)) <=> \E i \in 1..k : DeclaresObject(others[i], n, v)
    BY <1>4, <1>5
  <2>2. QED  BY <1>2, <2>1 DEF Tells
<1>8. ASSUME NEW n, NEW f, NEW v PROVE FieldIs(q, n, f, v) <=> FieldIs(r, n, f, v)
  <2>1. (\E m \in 1..k : DeclaresField(files[m], n, f, v))
            <=> \E i \in 1..k : DeclaresField(others[i], n, f, v)
    BY <1>4, <1>5
  <2>2. QED  BY <1>2, <2>1 DEF Tells
<1>9. QED  BY <1>6, <1>7, <1>8 DEF SameFacts

LEMMA ValidIsBoolean ==
    ASSUME NEW files
    PROVE  validateFiles(files).valid \in BOOLEAN
BY DEF validateFiles

LEMMA AnyOrder ==
    ASSUME NEW files \in Seq(SourceFiles), NEW p \in SetToSeqs(DOMAIN files)
    PROVE  /\ validateFiles(Shuffled(files, p)).valid = validateFiles(files).valid
           /\ validateFiles(files).valid =>
                  validateFiles(Shuffled(files, p)).snapshot = validateFiles(files).snapshot
<1>1. PICK k \in Nat : k = Len(files) /\ DOMAIN files = 1..k
  OBVIOUS
<1>2. IsShuffle(p, k)
  BY <1>1, OrdersAreShuffles
<1>3. PICK others : others = Shuffled(files, p)
  OBVIOUS
<1>4. others \in Seq(SourceFiles) /\ Len(others) = k
  <2>1. \A i \in 1..k : files[p[i]] \in SourceFiles
    BY <1>1, <1>2 DEF IsShuffle
  <2>2. others \in [1..k -> SourceFiles]
    BY <1>1, <1>3, <2>1 DEF Shuffled
  <2>3. QED  BY <2>2
<1>5. ASSUME NEW some \in Seq(SourceFiles), Len(some) = k
      PROVE  ReadFrom(Consumed(some), some, k)
  <2>1. \A i \in 1..k : some[i] \in SourceFiles
    BY <1>5
  <2>2. \A i \in 1..k : Len(some[i].fields) \in Nat
    BY <2>1, PlanAssumption
  <2>3. QED  BY <1>5, <2>2, FilesRead
<1>6. PICK q : q = Consumed(files)
  OBVIOUS
<1>7. PICK r : r = Consumed(others)
  OBVIOUS
<1>8. ReadFrom(q, files, k) /\ ReadFrom(r, others, k)
  BY <1>1, <1>4, <1>5, <1>6, <1>7
<1>9. ParsedOK(q) /\ ParsedOK(r)
  BY <1>8 DEF ReadFrom
<1>10. q.errors = {} <=> r.errors = {}
  BY <1>1, <1>2, <1>3, <1>8, ShuffledSound DEF ReadFrom
<1>11. ASSUME q.errors = {}
       PROVE  Orphans(q) = Orphans(r) /\ SnapshotOf(q) = SnapshotOf(r) /\ SnapshotErrors(q) = SnapshotErrors(r)
  <2>1. Tells(q, files, k) /\ Tells(r, others, k)
    BY <1>8, <1>10, <1>11 DEF ReadFrom
  <2>2. SameFacts(q, r)
    BY <1>1, <1>2, <1>3, <2>1, ShuffledTells
  <2>3. QED  BY <1>9, <2>2, SameParse
<1>12. /\ validateFiles(files).valid <=> q.errors = {} /\ Orphans(q) = {} /\ SnapshotErrors(q) = {}
       /\ validateFiles(files).valid => validateFiles(files).snapshot = SnapshotOf(q)
  BY <1>6, <1>9, VerdictIs
<1>13. /\ validateFiles(others).valid <=> r.errors = {} /\ Orphans(r) = {} /\ SnapshotErrors(r) = {}
       /\ validateFiles(others).valid => validateFiles(others).snapshot = SnapshotOf(r)
  BY <1>7, <1>9, VerdictIs
<1>14. validateFiles(others).valid <=> validateFiles(files).valid
  BY <1>10, <1>11, <1>12, <1>13
<1>15. validateFiles(others).valid = validateFiles(files).valid
  BY <1>14, ValidIsBoolean
<1>16. ASSUME validateFiles(files).valid
       PROVE  validateFiles(others).snapshot = validateFiles(files).snapshot
  BY <1>11, <1>12, <1>13, <1>14, <1>16
<1>17. QED  BY <1>3, <1>15, <1>16

\* Uploads are sequences of the files that may be uploaded.
UploadsAreFiles == upload \in Seq(SourceFiles)

\* The order in which the files of an upload are given (validateFiles and
\* parseFiles of MetadataParserService) changes neither whether it is valid nor
\* the snapshot a valid one describes, for any files, however many.
THEOREM AnyOrderWillDo == PlanSpec => []OrderIrrelevant
<1>1. PlanInit => UploadsAreFiles
  BY DEF PlanInit, UploadsAreFiles
<1>2. UploadsAreFiles /\ [AddFile]_planVars => UploadsAreFiles'
  <2>1. ASSUME UploadsAreFiles, AddFile PROVE UploadsAreFiles'
    BY <2>1 DEF AddFile, UploadsAreFiles
  <2>2. ASSUME UploadsAreFiles, UNCHANGED planVars PROVE UploadsAreFiles'
    BY <2>2 DEF planVars, UploadsAreFiles
  <2>3. QED  BY <2>1, <2>2
<1>3. UploadsAreFiles => OrderIrrelevant
  <2>1. ASSUME UploadsAreFiles, NEW p \in SetToSeqs(DOMAIN upload)
        PROVE  /\ validateFiles([i \in DOMAIN upload |-> upload[p[i]]]).valid = validateFiles(upload).valid
               /\ validateFiles(upload).valid =>
                      validateFiles([i \in DOMAIN upload |-> upload[p[i]]]).snapshot
                          = validateFiles(upload).snapshot
    BY <2>1, AnyOrder, Zenon DEF UploadsAreFiles, Shuffled
  <2>2. QED  BY <2>1, Zenon DEF OrderIrrelevant
<1>4. QED  BY <1>1, <1>2, <1>3, PTL DEF PlanSpec

=============================================================================
