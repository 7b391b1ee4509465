--------------------------- MODULE GovernanceGate ---------------------------
(***************************************************************************)
(* The sidecar's gate-and-complete protocol: GateService.gate/complete,    *)
(* the console's approve/reject endpoint, the MCP gateway in front of it   *)
(* and the Python client that executes tools locally.                      *)
(*                                                                         *)
(* Every request is a handler of its own.  Handlers run on one event loop  *)
(* and interleave at their awaits, so each action is the code between two  *)
(* awaits and touches the shared tables once.  A handler may also be cut   *)
(* off at any await (a rejected query, a killed process): Abort.           *)
(*                                                                         *)
(* A gated call owns one execution row, one tool-call record and at most   *)
(* one approval row; all are keyed by the call, whose ids are fresh UUIDs. *)
(***************************************************************************)
EXTENDS ExecutionStateMachine, Naturals, Sequences

CONSTANTS
    Calls,          \* gated tool calls (POST /gate, or MCP tools/call)
    Deciders,       \* console decisions (POST /approvals/:id/decide)
    Lookups,        \* MCP calls of the governance_pending__lookup meta-tool
    Tools,          \* tool names callers may ask for
    AllowedTools,   \* the server-side grant list
    UpstreamTools,  \* tools the gateway aggregated from its live upstreams
    RiskOf,         \* guardrail verdict per tool; "none" when no rule matches
    MaxFaults,      \* bound on handlers cut off mid-way
    None

RiskLevel == {"none", "L0", "L1", "L2", "L3", "L4"}

Procs == Calls \cup Deciders \cup Lookups

ASSUME ProcsAssumption ==
    /\ Calls \cap Deciders = {}
    /\ Calls \cap Lookups = {}
    /\ Deciders \cap Lookups = {}
    /\ None \notin Procs

ASSUME PolicyAssumption ==
    /\ AllowedTools \subseteq Tools
    /\ UpstreamTools \subseteq Tools
    /\ None \notin Tools
    /\ RiskOf \in [Tools -> RiskLevel]

ASSUME MaxFaultsAssumption == MaxFaults \in Nat

Decision == {"APPROVED", "REJECTED"}

\* How a caller reaches the gate: the Python client, an MCP client that can
\* be asked for a decision, an MCP client that cannot.
Channel == {"http", "elicit", "fallback"}

ToolCallStatus ==
    {"STARTED", "DENIED", "BLOCKED", "REQUIRES_APPROVAL",
     "RUNNING", "SUCCEEDED", "FAILED"}

ApprovalStatus == {"PENDING", "APPROVED", "REJECTED"}

EventType == {"started", "paused", "completed", "failed"}

VARIABLES
    executions,  \* execution rows: status, or "none" before the insert
    toolCalls,   \* tool-call records: status, or "none"
    approvals,   \* approval rows: status, or "none"
    outbox,      \* agent.execution.* events of each execution, in order
    ran,         \* how often the tool itself was invoked
    decisions,   \* decisions humans submitted for each call
    paused,      \* calls whose execution the gate has paused
    presumed,    \* calls a lookup took for approved before they were paused
    tool,        \* the tool a call asked for
    channel,     \* the channel it came through
    pc,          \* where each handler is
    target,      \* the call whose rows a handler works on
    decision,    \* the decision a handler carries
    rowSeen,     \* the approval status a handler read
    ok,          \* the outcome a handler is about to report
    faults

tables == <<executions, toolCalls, approvals, outbox>>
ghosts == <<ran, decisions, paused, presumed>>
locals == <<target, decision, rowSeen, ok>>
intake == <<tool, channel>>
vars == <<executions, toolCalls, approvals, outbox, ran, decisions, paused,
          presumed, tool, channel, pc, target, decision, rowSeen, ok, faults>>

----------------------------------------------------------------------------
(* Policy: deny by default, then the guardrail's risk level. *)

\* The gate passes no block-list and no allowEmptyList, so an empty grant
\* list denies everything, which is what membership says.
checkToolAccess(t) == t \in AllowedTools

Verdict(t) ==
    IF ~checkToolAccess(t) THEN "deny"
    ELSE IF RiskOf[t] = "L4" THEN "block"
    ELSE IF RiskOf[t] \in {"L2", "L3"} THEN "pause"
    ELSE "allow"

----------------------------------------------------------------------------
Init ==
    /\ executions = [c \in Calls |-> "none"]
    /\ toolCalls = [c \in Calls |-> "none"]
    /\ approvals = [c \in Calls |-> "none"]
    /\ outbox = [c \in Calls |-> <<>>]
    /\ ran = [c \in Calls |-> 0]
    /\ decisions = [c \in Calls |-> {}]
    /\ paused = {}
    /\ presumed = {}
    /\ tool = [c \in Calls |-> None]
    /\ channel = [c \in Calls |-> None]
    /\ pc = [p \in Procs |-> "idle"]
    /\ target = [p \in Procs |-> IF p \in Calls THEN p ELSE None]
    /\ decision = [p \in Procs |-> None]
    /\ rowSeen = [p \in Procs |-> None]
    /\ ok = [p \in Procs |-> FALSE]
    /\ faults = 0

At(p, label) == pc[p] = label
Goto(p, label) == pc' = [pc EXCEPT ![p] = label]

\* The writes the handlers make.  Rows of executions and approvals are
\* updated by id alone; outbox rows are only ever inserted.
SetExecution(c, status) == executions' = [executions EXCEPT ![c] = status]
SetApproval(c, status) == approvals' = [approvals EXCEPT ![c] = status]
Enqueue(c, event) == outbox' = [outbox EXCEPT ![c] = Append(@, event)]

\* ToolCallLifecycleService.transition: a conditional UPDATE; the handler
\* throws TOOL_CALL_STATE_CONFLICT when the row is not in an expected status.
Transition(p, c, expected, status, next) ==
    /\ toolCalls' = [toolCalls EXCEPT ![c] = IF @ \in expected THEN status ELSE @]
    /\ Goto(p, IF toolCalls[c] \in expected THEN next ELSE "thrown")

----------------------------------------------------------------------------
(* GateService.gate *)

\* A caller asks for a tool.  The gateway answers an MCP call for a tool no
\* live upstream serves without consulting the gate.
Receive(c) ==
    /\ At(c, "idle")
    /\ \E t \in Tools, ch \in Channel :
           /\ tool' = [tool EXCEPT ![c] = t]
           /\ channel' = [channel EXCEPT ![c] = ch]
           /\ Goto(c, IF ch = "http" \/ t \in UpstreamTools
                      THEN "saveExecution" ELSE "returned")
    /\ UNCHANGED <<tables, ghosts, locals, faults>>

\* Mutant of SaveExecution: the started event is not enqueued.
SaveExecutionSilently(c) ==
    /\ At(c, "saveExecution")
    /\ SetExecution(c, "running")
    /\ Goto(c, "begin")
    /\ UNCHANGED <<toolCalls, approvals, outbox, ghosts, intake, locals, faults>>

SaveExecution(c) ==
    /\ At(c, "saveExecution")
    /\ SetExecution(c, "running")
    /\ Goto(c, "enqueueStarted")
    /\ UNCHANGED <<toolCalls, approvals, outbox, ghosts, intake, locals, faults>>

EnqueueStarted(c) ==
    /\ At(c, "enqueueStarted")
    /\ Enqueue(c, "started")
    /\ Goto(c, "begin")
    /\ UNCHANGED <<executions, toolCalls, approvals, ghosts, intake, locals, faults>>

\* lifecycle.begin, then the verdict decides which branch the handler takes.
\* An allowed MCP call is executed by the gateway, an allowed HTTP call by
\* the client: either way the next thing that happens is the tool call.
Begin(c) ==
    /\ At(c, "begin")
    /\ toolCalls' = [toolCalls EXCEPT ![c] = "STARTED"]
    /\ Goto(c, CASE Verdict(tool[c]) = "deny" -> "deny"
                 [] Verdict(tool[c]) = "block" -> "block"
                 [] Verdict(tool[c]) = "pause" -> "createApproval"
                 [] OTHER -> "callTool")
    /\ UNCHANGED <<executions, approvals, outbox, ghosts, intake, locals, faults>>

\* Mutant of Refuse: the execution row of a refused call is left running.
RefuseAndReturn(c) ==
    /\ At(c, "deny") \/ At(c, "block")
    /\ Transition(c, c, {"STARTED"},
                  IF At(c, "deny") THEN "DENIED" ELSE "BLOCKED", "returned")
    /\ UNCHANGED <<executions, approvals, outbox, ghosts, intake, locals, faults>>

Refuse(c) ==
    /\ At(c, "deny") \/ At(c, "block")
    /\ Transition(c, c, {"STARTED"},
                  IF At(c, "deny") THEN "DENIED" ELSE "BLOCKED", "refuse")
    /\ UNCHANGED <<executions, approvals, outbox, ghosts, intake, locals, faults>>

FailExecution(c) ==
    /\ At(c, "refuse")
    /\ SetExecution(c, "failed")
    /\ Goto(c, "returned")
    /\ UNCHANGED <<toolCalls, approvals, outbox, ghosts, intake, locals, faults>>

CreateApproval(c) ==
    /\ At(c, "createApproval")
    /\ SetApproval(c, "PENDING")
    /\ Goto(c, "requireApproval")
    /\ UNCHANGED <<executions, toolCalls, outbox, ghosts, intake, locals, faults>>

RequireApproval(c) ==
    /\ At(c, "requireApproval")
    /\ Transition(c, c, {"STARTED"}, "REQUIRES_APPROVAL", "pause")
    /\ UNCHANGED <<executions, approvals, outbox, ghosts, intake, locals, faults>>

\* handleStateTransition is asked about the literal 'running', not about the
\* row, so it never objects: the row is overwritten whatever it holds.
Pause(c) ==
    /\ At(c, "pause")
    /\ SetExecution(c, "guardrail_pending")
    /\ paused' = paused \cup {c}
    /\ Goto(c, "enqueuePaused")
    /\ UNCHANGED <<toolCalls, approvals, outbox, ran, decisions, presumed, intake,
                   locals, faults>>

\* The paused verdict: the gateway elicits a decision when the client can,
\* and returns approval_pending otherwise; the Python client polls (wait) or
\* raises GovernancePendingApproval.
AfterPause(ch) ==
    CASE ch = "elicit" -> {"elicit"}
      [] ch = "http" -> {"poll", "pending"}
      [] OTHER -> {"pending"}

EnqueuePaused(c) ==
    /\ At(c, "enqueuePaused")
    /\ Enqueue(c, "paused")
    /\ \E next \in AfterPause(channel[c]) : Goto(c, next)
    /\ UNCHANGED <<executions, toolCalls, approvals, ghosts, intake, locals, faults>>

----------------------------------------------------------------------------
(* A human decides: through the MCP client (elicitation) ... *)

\* Anything but an accepted APPROVED counts as a rejection.
Elicit(c) ==
    /\ At(c, "elicit")
    /\ \E d \in Decision :
           /\ decision' = [decision EXCEPT ![c] = d]
           /\ decisions' = [decisions EXCEPT ![c] = @ \cup {d}]
    /\ Goto(c, "decideRead")
    /\ UNCHANGED <<tables, ran, paused, presumed, intake, target, rowSeen, ok, faults>>

DecideRead(c) ==
    /\ At(c, "decideRead")
    /\ Goto(c, IF approvals[c] = "PENDING" THEN "decideRow" ELSE "thrown")
    /\ UNCHANGED <<tables, ghosts, intake, locals, faults>>

DecideRow(c) ==
    /\ At(c, "decideRow")
    /\ SetApproval(c, decision[c])
    /\ Goto(c, "decideExecution")
    /\ UNCHANGED <<executions, toolCalls, outbox, ghosts, intake, locals, faults>>

DecideExecution(c) ==
    /\ At(c, "decideExecution")
    /\ SetExecution(c, IF decision[c] = "APPROVED" THEN "running" ELSE "cancelled")
    /\ Goto(c, IF decision[c] = "APPROVED" THEN "callTool" ELSE "returned")
    /\ UNCHANGED <<toolCalls, approvals, outbox, ghosts, intake, locals, faults>>

(* ... or on the console, for any approval row. *)
ConsoleReceive(d) ==
    /\ At(d, "idle")
    /\ \E c \in Calls, dec \in Decision :
           /\ approvals[c] # "none"
           /\ target' = [target EXCEPT ![d] = c]
           /\ decision' = [decision EXCEPT ![d] = dec]
           /\ decisions' = [decisions EXCEPT ![c] = @ \cup {dec}]
    /\ Goto(d, "consoleRead")
    /\ UNCHANGED <<tables, ran, paused, presumed, intake, rowSeen, ok, faults>>

ConsoleRead(d) ==
    /\ At(d, "consoleRead")
    /\ Goto(d, IF approvals[target[d]] # "PENDING" THEN "conflict"
               ELSE IF decision[d] = "REJECTED" THEN "consoleReject"
               ELSE "consoleApprove")
    /\ UNCHANGED <<tables, ghosts, intake, locals, faults>>

\* Only the approval row is written; the response reports 'cancelled'.
ConsoleReject(d) ==
    /\ At(d, "consoleReject")
    /\ SetApproval(target[d], "REJECTED")
    /\ Goto(d, "returned")
    /\ UNCHANGED <<executions, toolCalls, outbox, ghosts, intake, locals, faults>>

\* Only the execution row is written: the approval row stays PENDING.  The
\* execution read before it finds triggerSource, which never changes.
ConsoleApprove(d) ==
    /\ At(d, "consoleApprove")
    /\ SetExecution(target[d], "running")
    /\ Goto(d, "returned")
    /\ UNCHANGED <<toolCalls, approvals, outbox, ghosts, intake, locals, faults>>

----------------------------------------------------------------------------
(* After the decision: the Python client ... *)

\* Mutant of Poll: any status but cancelled is taken for an approval.
PollUntilNotCancelled(c) ==
    /\ At(c, "poll")
    /\ Goto(c, IF executions[c] = "cancelled" THEN "returned" ELSE "callTool")
    /\ UNCHANGED <<tables, ghosts, intake, locals, faults>>

Poll(c) ==
    /\ At(c, "poll")
    /\ executions[c] \in {"running", "cancelled"}
    /\ Goto(c, IF executions[c] = "running" THEN "callTool" ELSE "returned")
    /\ UNCHANGED <<tables, ghosts, intake, locals, faults>>

PollTimeout(c) ==
    /\ At(c, "poll")
    /\ Goto(c, "pending")
    /\ UNCHANGED <<tables, ghosts, intake, locals, faults>>

\* run_approved: the caller saw the console accept an approval of this call.
RunApproved(c) ==
    /\ At(c, "pending")
    /\ channel[c] = "http"
    /\ \E d \in Deciders : /\ target[d] = c
                           /\ decision[d] = "APPROVED"
                           /\ At(d, "returned")
    /\ Goto(c, "callTool")
    /\ UNCHANGED <<tables, ghosts, intake, locals, faults>>

(* ... or pendingLookup, with the id of any approval: the list of pending   *)
(* approvals shows an id as soon as the row is committed, whatever the      *)
(* channel of its call and wherever gate() is by then.                      *)
LookupRow(l) ==
    /\ At(l, "idle")
    /\ \E c \in Calls :
           /\ approvals[c] # "none"
           /\ target' = [target EXCEPT ![l] = c]
           /\ rowSeen' = [rowSeen EXCEPT ![l] = approvals[c]]
    /\ Goto(l, "lookupExecution")
    /\ UNCHANGED <<tables, ghosts, intake, decision, ok, faults>>

\* Mutant of Decided: any execution that is not cancelled counts as approved.
DecidedUnlessCancelled(row, execution) ==
    IF row = "PENDING" /\ execution # "cancelled" THEN "APPROVED" ELSE row

\* A PENDING row with a running execution is taken for a console approval,
\* although the rows look the same until gate() has paused the execution.
Decided(row, execution) ==
    IF row = "PENDING" /\ execution = "running" THEN "APPROVED" ELSE row

LookupExecution(l) ==
    /\ At(l, "lookupExecution")
    /\ LET c == target[l]
           decided == Decided(rowSeen[l], executions[c])
       IN  /\ Goto(l, CASE decided = "PENDING" -> "returned"
                    [] decided = "REJECTED" ->
                           IF executions[c] # "cancelled" THEN "lookupCancel"
                           ELSE "returned"
                    [] OTHER ->
                           IF rowSeen[l] = "PENDING" THEN "lookupApprove"
                           ELSE "lookupTool")
           /\ presumed' = IF decided = "APPROVED" /\ c \notin paused
                          THEN presumed \cup {c} ELSE presumed
    /\ UNCHANGED <<tables, ran, decisions, paused, intake, locals, faults>>

LookupCancel(l) ==
    /\ At(l, "lookupCancel")
    /\ SetExecution(target[l], "cancelled")
    /\ Goto(l, "returned")
    /\ UNCHANGED <<toolCalls, approvals, outbox, ghosts, intake, locals, faults>>

LookupApprove(l) ==
    /\ At(l, "lookupApprove")
    /\ SetApproval(target[l], "APPROVED")
    /\ Goto(l, "lookupTool")
    /\ UNCHANGED <<executions, toolCalls, outbox, ghosts, intake, locals, faults>>

LookupTool(l) ==
    /\ At(l, "lookupTool")
    /\ Goto(l, IF tool[target[l]] \in UpstreamTools THEN "callTool" ELSE "returned")
    /\ UNCHANGED <<tables, ghosts, intake, locals, faults>>

----------------------------------------------------------------------------
(* Executing the tool and GateService.complete *)

CallTool(p) ==
    /\ At(p, "callTool")
    /\ ran' = [ran EXCEPT ![target[p]] = @ + 1]
    /\ \E success \in BOOLEAN : ok' = [ok EXCEPT ![p] = success]
    /\ Goto(p, "completeRead")
    /\ UNCHANGED <<tables, decisions, paused, presumed, intake, target, decision,
                   rowSeen, faults>>

\* GATE_EXECUTION_NOT_AWAITING_COMPLETION unless the execution is running.
CompleteRead(p) ==
    /\ At(p, "completeRead")
    /\ Goto(p, IF executions[target[p]] = "running" THEN "readCall" ELSE "thrown")
    /\ UNCHANGED <<tables, ghosts, intake, locals, faults>>

\* Mutant of ReadCall: a call that is already final is completed again.
ReadCallIdempotent(p) ==
    /\ At(p, "readCall")
    /\ Goto(p, CASE toolCalls[target[p]] = "none" -> "thrown"
                 [] toolCalls[target[p]] = "REQUIRES_APPROVAL" -> "resumeCall"
                 [] toolCalls[target[p]] \in {"SUCCEEDED", "FAILED"} -> "completeExecution"
                 [] OTHER -> "finalize")
    /\ UNCHANGED <<tables, ghosts, intake, locals, faults>>

ReadCall(p) ==
    /\ At(p, "readCall")
    /\ Goto(p, CASE toolCalls[target[p]] = "none" -> "thrown"
                 [] toolCalls[target[p]] = "REQUIRES_APPROVAL" -> "resumeCall"
                 [] OTHER -> "finalize")
    /\ UNCHANGED <<tables, ghosts, intake, locals, faults>>

ResumeCall(p) ==
    /\ At(p, "resumeCall")
    /\ Transition(p, target[p], {"REQUIRES_APPROVAL"}, "RUNNING", "finalize")
    /\ UNCHANGED <<executions, approvals, outbox, ghosts, intake, locals, faults>>

\* Mutant of Finalize: the last report wins.
FinalizeUnconditionally(p) ==
    /\ At(p, "finalize")
    /\ Transition(p, target[p], ToolCallStatus,
                  IF ok[p] THEN "SUCCEEDED" ELSE "FAILED", "completeExecution")
    /\ UNCHANGED <<executions, approvals, outbox, ghosts, intake, locals, faults>>

Finalize(p) ==
    /\ At(p, "finalize")
    /\ Transition(p, target[p], {"STARTED", "RUNNING"},
                  IF ok[p] THEN "SUCCEEDED" ELSE "FAILED", "completeExecution")
    /\ UNCHANGED <<executions, approvals, outbox, ghosts, intake, locals, faults>>

CompleteExecution(p) ==
    /\ At(p, "completeExecution")
    /\ SetExecution(target[p], IF ok[p] THEN "done" ELSE "failed")
    /\ Goto(p, "enqueueOutcome")
    /\ UNCHANGED <<toolCalls, approvals, outbox, ghosts, intake, locals, faults>>

EnqueueOutcome(p) ==
    /\ At(p, "enqueueOutcome")
    /\ Enqueue(target[p], IF ok[p] THEN "completed" ELSE "failed")
    /\ Goto(p, "returned")
    /\ UNCHANGED <<executions, toolCalls, approvals, ghosts, intake, locals, faults>>

----------------------------------------------------------------------------
\* A handler that has answered, thrown, or waits for somebody else.
Finished == {"returned", "conflict", "thrown", "pending"}

\* An awaited query is rejected or the process dies: nothing that handler
\* still had to do happens.
Abort(p) ==
    /\ faults < MaxFaults
    /\ pc[p] \notin Finished \cup {"idle"}
    /\ faults' = faults + 1
    /\ Goto(p, "thrown")
    /\ UNCHANGED <<tables, ghosts, intake, locals>>

GateStep(c) ==
    \/ SaveExecution(c) \/ EnqueueStarted(c) \/ Begin(c) \/ Refuse(c)
    \/ FailExecution(c) \/ CreateApproval(c) \/ RequireApproval(c)
    \/ Pause(c) \/ EnqueuePaused(c)
    \/ DecideRead(c) \/ DecideRow(c) \/ DecideExecution(c)
    \/ Poll(c)

ConsoleStep(d) == ConsoleRead(d) \/ ConsoleReject(d) \/ ConsoleApprove(d)

LookupStep(l) ==
    LookupExecution(l) \/ LookupCancel(l) \/ LookupApprove(l) \/ LookupTool(l)

CompleteStep(p) ==
    \/ CallTool(p) \/ CompleteRead(p) \/ ReadCall(p) \/ ResumeCall(p)
    \/ Finalize(p) \/ CompleteExecution(p) \/ EnqueueOutcome(p)

Next ==
    \/ \E c \in Calls : Receive(c) \/ GateStep(c) \/ Elicit(c)
                        \/ PollTimeout(c) \/ RunApproved(c)
    \/ \E d \in Deciders : ConsoleReceive(d) \/ ConsoleStep(d)
    \/ \E l \in Lookups : LookupRow(l) \/ LookupStep(l)
    \/ \E p \in Calls \cup Lookups : CompleteStep(p)
    \/ \E p \in Procs : Abort(p)

Spec == Init /\ [][Next]_vars

\* A started handler keeps running: its awaits are answered.  Humans, new
\* requests, the poll deadline and faults are never forced.
Fairness ==
    /\ \A c \in Calls : WF_vars(GateStep(c))
    /\ \A d \in Deciders : WF_vars(ConsoleStep(d))
    /\ \A l \in Lookups : WF_vars(LookupStep(l))
    /\ \A p \in Calls \cup Lookups : WF_vars(CompleteStep(p))

FairSpec == Spec /\ Fairness

----------------------------------------------------------------------------
(* Properties *)

TerminalEvent == {"completed", "failed"}
FinalToolCall == {"DENIED", "BLOCKED", "SUCCEEDED", "FAILED"}

Label ==
    {"idle", "saveExecution", "enqueueStarted", "begin", "deny", "block",
     "refuse", "createApproval", "requireApproval", "pause", "enqueuePaused",
     "elicit", "decideRead", "decideRow", "decideExecution", "poll",
     "consoleRead", "consoleReject", "consoleApprove", "lookupExecution",
     "lookupCancel", "lookupApprove", "lookupTool", "callTool",
     "completeRead", "readCall", "resumeCall", "finalize",
     "completeExecution", "enqueueOutcome"} \cup Finished

\* Every table, ghost and handler-local variable holds a value of its kind.
TypeOK ==
    /\ executions \in [Calls -> ExecutionStatus \cup {"none"}]
    /\ toolCalls \in [Calls -> ToolCallStatus \cup {"none"}]
    /\ approvals \in [Calls -> ApprovalStatus \cup {"none"}]
    /\ outbox \in [Calls -> Seq(EventType)]
    /\ ran \in [Calls -> Nat]
    /\ decisions \in [Calls -> SUBSET Decision]
    /\ paused \in SUBSET Calls
    /\ presumed \in SUBSET Calls
    /\ tool \in [Calls -> Tools \cup {None}]
    /\ channel \in [Calls -> Channel \cup {None}]
    /\ pc \in [Procs -> Label]
    /\ target \in [Procs -> Calls \cup {None}]
    /\ decision \in [Procs -> Decision \cup {None}]
    /\ rowSeen \in [Procs -> ApprovalStatus \cup {None}]
    /\ ok \in [Procs -> BOOLEAN]
    /\ faults \in 0..MaxFaults

\* A tool is invoked only when it is granted and its risk needs no human, or
\* when a human approved this very call, whatever the console, the gateway,
\* retried lookups and aborted handlers do in between; except that a lookup
\* made before gate() has paused the execution presumes an approval.  Once
\* the execution is paused no lookup can.  (gate.ts, gateway.ts pendingLookup
\* and executeAndComplete, client.py _wait_and_run.)
RunsOnlyWhenGrantedOrPresumed ==
    \A c \in Calls : ran[c] > 0 =>
        \/ Verdict(tool[c]) = "allow"
        \/ Verdict(tool[c]) = "pause" /\ ("APPROVED" \in decisions[c] \/ c \in presumed)

\* The audit trail is written ahead of the effect: a call whose tool ran has
\* its 'started' event first in the outbox and a tool-call record that was
\* not refused, even when the handler that ran it was aborted.
AuditPrecedesEffect ==
    \A c \in Calls : ran[c] > 0 =>
        /\ Len(outbox[c]) > 0 /\ outbox[c][1] = "started"
        /\ toolCalls[c] \notin {"none", "DENIED", "BLOCKED"}

\* The three tables tell one story: an execution that ended 'done' has a
\* SUCCEEDED record and one that 'failed' a failed or refused one, and every
\* outcome event agrees with the record, although complete() and decide()
\* overwrite the execution row unconditionally.
OutcomesAgree ==
    \A c \in Calls :
        /\ executions[c] = "done" => toolCalls[c] = "SUCCEEDED"
        /\ executions[c] = "failed" => toolCalls[c] \in {"FAILED", "DENIED", "BLOCKED"}
        /\ \A i \in DOMAIN outbox[c] :
               /\ outbox[c][i] = "completed" => toolCalls[c] = "SUCCEEDED"
               /\ outbox[c][i] = "failed" => toolCalls[c] = "FAILED"

\* However many callers report an outcome for one execution, at most one
\* outcome event is published, and nothing follows it but the 'paused' of a
\* gate() that a lookup has overtaken.
OutcomePublishedOnce ==
    \A c \in Calls : \A i \in DOMAIN outbox[c] :
        outbox[c][i] \in TerminalEvent =>
            \/ i = Len(outbox[c])
            \/ i = Len(outbox[c]) - 1 /\ outbox[c][Len(outbox[c])] = "paused"

\* The tool-call record, the row every writer updates by compare-and-set,
\* never leaves a final status (tool-call-status.ts).
ToolCallsFinal ==
    [][\A c \in Calls : toolCalls[c] \in FinalToolCall => toolCalls'[c] = toolCalls[c]]_vars

\* A call that needs no human is carried to a terminal execution status by
\* the handler that started it, unless a handler is cut off.
UnpausedCallsFinish ==
    \A c \in Calls :
        (executions[c] = "running" /\ Verdict(tool[c]) # "pause")
            ~> executions[c] \in {"done", "failed"} \/ faults > 0

----------------------------------------------------------------------------
(* The inductive invariant behind these properties.                        *)

Approved(c) == "APPROVED" \in decisions[c] \/ c \in presumed

Granted(c) ==
    /\ tool[c] \in Tools
    /\ \/ Verdict(tool[c]) = "allow"
       \/ Verdict(tool[c]) = "pause" /\ Approved(c)

Started(c) == Len(outbox[c]) > 0 /\ outbox[c][1] = "started"

Unpublished(c) == \A i \in DOMAIN outbox[c] : outbox[c][i] \notin TerminalEvent

Unannounced(c) == \A i \in DOMAIN outbox[c] : outbox[c][i] # "paused"

AdmissionLabel == {"idle", "saveExecution", "enqueueStarted", "begin"}
RefusalLabel == {"deny", "block", "refuse"}
PausingLabel == {"createApproval", "requireApproval", "pause", "enqueuePaused"}
WaitingLabel == {"elicit", "decideRead", "decideRow", "decideExecution", "poll", "pending"}
PublishLabel == {"completeExecution", "enqueueOutcome"}
ReportLabel == {"completeRead", "readCall", "resumeCall", "finalize"} \cup PublishLabel
CompleteLabel == {"callTool"} \cup ReportLabel
ConsoleLabel == {"consoleRead", "consoleReject", "consoleApprove"}
LookupLabel == {"lookupExecution", "lookupCancel", "lookupApprove", "lookupTool"}

\* Where a call's own handler is determines what its rows may hold: up to the
\* pause they are the handler's own unless a lookup presumed an approval.
CallStage(c) ==
    /\ target[c] = c
    /\ pc[c] \in AdmissionLabel \cup RefusalLabel \cup PausingLabel \cup
                 WaitingLabel \cup CompleteLabel \cup {"returned", "thrown"}
    /\ pc[c] # "idle" => tool[c] \in Tools /\ channel[c] \in Channel
    /\ pc[c] \in AdmissionLabel => toolCalls[c] = "none"
    /\ pc[c] \in {"idle", "saveExecution", "enqueueStarted"} => Len(outbox[c]) = 0
    /\ pc[c] = "begin" => Started(c)
    /\ pc[c] \in {"deny", "block"} =>
           toolCalls[c] = "STARTED" /\ Verdict(tool[c]) = pc[c]
    /\ pc[c] = "refuse" => toolCalls[c] \in {"DENIED", "BLOCKED"}
    /\ pc[c] \in PausingLabel \cup WaitingLabel => Verdict(tool[c]) = "pause"
    /\ pc[c] \in AdmissionLabel \cup PausingLabel => Unannounced(c)
    /\ pc[c] \in PausingLabel => toolCalls[c] # "none"
    /\ pc[c] = "createApproval" => approvals[c] = "none" /\ toolCalls[c] = "STARTED"
    /\ pc[c] = "requireApproval" => toolCalls[c] = "STARTED" \/ c \in presumed
    /\ pc[c] \in {"createApproval", "requireApproval", "pause"} => c \notin paused
    /\ pc[c] \in WaitingLabel \cup {"enqueuePaused"} => c \in paused
    /\ pc[c] \in WaitingLabel => toolCalls[c] # "none"
    /\ pc[c] \in {"requireApproval", "pause", "enqueuePaused"} \cup WaitingLabel =>
           approvals[c] # "none"
    /\ pc[c] \in {"decideRead", "decideRow", "decideExecution"} =>
           decision[c] \in decisions[c]

\* What the rows of a call say about each other, wherever its handlers are.
RowsAgree(c) ==
    /\ toolCalls[c] # "none" => Started(c) /\ tool[c] \in Tools
    /\ toolCalls[c] = "none" =>
           approvals[c] = "none" /\ ran[c] = 0 /\ decisions[c] = {}
    /\ toolCalls[c] \in {"DENIED", "BLOCKED"} => Verdict(tool[c]) \in {"deny", "block"}
    /\ toolCalls[c] \in {"SUCCEEDED", "FAILED"} => ran[c] > 0
    /\ approvals[c] # "none" => Verdict(tool[c]) = "pause"
    /\ decisions[c] # {} \/ c \in paused \cup presumed => approvals[c] # "none"
    /\ approvals[c] = "APPROVED" => Approved(c)
    /\ c \in paused /\ executions[c] = "running" => "APPROVED" \in decisions[c]
    /\ ran[c] > 0 => Granted(c)

OutcomeRows(c) ==
    /\ executions[c] = "done" => toolCalls[c] = "SUCCEEDED"
    /\ executions[c] = "failed" => toolCalls[c] \in {"FAILED", "DENIED", "BLOCKED"}
    /\ \A i \in DOMAIN outbox[c] :
           /\ outbox[c][i] = "completed" => toolCalls[c] = "SUCCEEDED"
           /\ outbox[c][i] = "failed" => toolCalls[c] = "FAILED"
           /\ outbox[c][i] \in TerminalEvent =>
                  \/ i = Len(outbox[c])
                  \/ i = Len(outbox[c]) - 1 /\ outbox[c][Len(outbox[c])] = "paused"

\* What a handler carries is backed by the tables of the call it works on.
HandlerStage(p) ==
    /\ p \in Deciders => pc[p] \in {"idle", "returned", "conflict", "thrown"} \cup ConsoleLabel
    /\ p \in Lookups => pc[p] \in {"idle", "returned", "thrown"} \cup LookupLabel \cup CompleteLabel
    /\ p \in Deciders \cup Lookups /\ pc[p] # "idle" => target[p] \in Calls
    /\ p \in Deciders /\ pc[p] # "idle" =>
           /\ decision[p] \in decisions[target[p]]
           /\ pc[p] = "consoleReject" => decision[p] = "REJECTED"
           /\ pc[p] = "consoleApprove" => decision[p] = "APPROVED"
    /\ p \in Lookups /\ pc[p] # "idle" =>
           /\ approvals[target[p]] # "none"
           /\ rowSeen[p] \in ApprovalStatus
           /\ rowSeen[p] = "APPROVED" => Approved(target[p])
           /\ pc[p] \in {"lookupApprove", "lookupTool"} \cup CompleteLabel =>
                  /\ Approved(target[p])
                  /\ target[p] \in paused \cup presumed
    /\ pc[p] \in CompleteLabel => toolCalls[target[p]] # "none" /\ Granted(target[p])
    /\ pc[p] \in ReportLabel => ran[target[p]] > 0
    /\ pc[p] \in PublishLabel =>
           /\ toolCalls[target[p]] = IF ok[p] THEN "SUCCEEDED" ELSE "FAILED"
           /\ Unpublished(target[p])
           /\ \A q \in Procs : pc[q] \in PublishLabel /\ target[q] = target[p] => q = p

\* Where every handler of gate(), decide, pendingLookup and complete() is,
\* and what its call's rows hold by then, always fit together.  Inductive:
\* implies every invariant above and the refinement.
GateInvariant ==
    /\ TypeOK
    /\ \A c \in Calls : CallStage(c)
    /\ \A c \in Calls : RowsAgree(c)
    /\ \A c \in Calls : OutcomeRows(c)
    /\ \A p \in Procs : HandlerStage(p)

----------------------------------------------------------------------------
(* The protocol implements the promise: policy is decided when the record  *)
(* is begun, and the record's final status is the outcome.                 *)

verdictBar ==
    [c \in Calls |->
        IF toolCalls[c] = "none" THEN "none"
        ELSE IF Verdict(tool[c]) \in {"deny", "block"} THEN "refuse"
        ELSE Verdict(tool[c])]

outcomeBar ==
    [c \in Calls |-> CASE toolCalls[c] = "SUCCEEDED" -> "success"
                       [] toolCalls[c] = "FAILED" -> "failure"
                       [] OTHER -> "none"]

Promise == INSTANCE GovernedCall
           WITH verdict <- verdictBar,
                approved <- [c \in Calls |-> "APPROVED" \in decisions[c]],
                runs <- ran,
                outcome <- outcomeBar

\* Every behaviour of the gate, console, gateway and client together is a
\* behaviour of GovernedCall: no run without a grant, no presumed approval of
\* a call that was paused, no outcome without a run, no second outcome.
ImplementsGovernedCall == Promise!Spec

=============================================================================
