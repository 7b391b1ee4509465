------------------------ MODULE GovernanceGateProofs ------------------------
(***************************************************************************)
(* TLAPS proofs about GovernanceGate, for every number of calls, console   *)
(* decisions, lookups and faults, and every policy.  GateInvariant is      *)
(* inductive: one lemma per action, each with one step per conjunct of the *)
(* invariant.                                                              *)
(***************************************************************************)
EXTENDS GovernanceGate, TLAPS

\* Abbreviations the leaves may always look through; the invariants
\* themselves and the actions are cited where they are used.
USE DEF At, Goto, SetExecution, SetApproval, Enqueue, tables, ghosts, intake,
        locals, Procs, Finished, Decision, Channel,
        AdmissionLabel, RefusalLabel, PausingLabel, WaitingLabel, PublishLabel,
        ReportLabel, CompleteLabel, ConsoleLabel, LookupLabel, Approved

----------------------------------------------------------------------------
(* Helpers *)

\* What appending one event does to an outbox.
LEMMA AppendFacts ==
    ASSUME NEW S, NEW s \in Seq(S), NEW e \in S
    PROVE  /\ Append(s, e) \in Seq(S)
           /\ Len(Append(s, e)) = Len(s) + 1
           /\ Len(s) \in Nat
           /\ DOMAIN s = 1..Len(s)
           /\ DOMAIN Append(s, e) = 1..(Len(s) + 1)
           /\ \A i \in 1..Len(s) : Append(s, e)[i] = s[i]
           /\ Append(s, e)[Len(s) + 1] = e
    OBVIOUS

\* Enqueue inserts one event at the end of one execution's events.
LEMMA EnqueueFacts ==
    ASSUME TypeOK, NEW c \in Calls, NEW e \in EventType, Enqueue(c, e)
    PROVE  /\ outbox' \in [Calls -> Seq(EventType)]
           /\ \A x \in Calls \ {c} : outbox'[x] = outbox[x]
           /\ Len(outbox[c]) \in Nat
           /\ Len(outbox'[c]) = Len(outbox[c]) + 1
           /\ DOMAIN outbox[c] = 1..Len(outbox[c])
           /\ DOMAIN outbox'[c] = 1..(Len(outbox[c]) + 1)
           /\ \A i \in 1..Len(outbox[c]) : outbox'[c][i] = outbox[c][i]
           /\ outbox'[c][Len(outbox[c]) + 1] = e
  BY AppendFacts DEF TypeOK

\* Policy has one of four answers.
LEMMA VerdictType ==
    ASSUME NEW t
    PROVE  Verdict(t) \in {"deny", "block", "pause", "allow"}
  BY DEF Verdict

\* A handler that executes or completes a tool call has a call to work on.
LEMMA TargetIsCall ==
    ASSUME GateInvariant, NEW h \in Calls \cup Lookups, pc[h] # "idle"
    PROVE  target[h] \in Calls
  BY DEF GateInvariant, CallStage, HandlerStage

----------------------------------------------------------------------------
(* One lemma per action: it preserves the inductive invariant. *)

\* Receive records what is asked for; the call has no rows yet.
LEMMA ReceiveInv ==
    ASSUME GateInvariant, NEW c \in Calls, Receive(c)
    PROVE  GateInvariant'
<1> USE ProcsAssumption, PolicyAssumption, MaxFaultsAssumption DEF GateInvariant, Receive
<1>1. TypeOK'
  BY DEF TypeOK, Label, ExecutionStatus, ToolCallStatus, ApprovalStatus, EventType
<1>2. \A x \in Calls : CallStage(x)'
  BY DEF TypeOK, CallStage, RowsAgree, HandlerStage, Granted, Started, Unannounced
<1>3. \A x \in Calls : RowsAgree(x)'
  BY DEF TypeOK, CallStage, RowsAgree, HandlerStage, Granted, Started, Unannounced
<1>4. \A x \in Calls : OutcomeRows(x)'
  BY DEF TypeOK, CallStage, OutcomeRows, HandlerStage, TerminalEvent, Unpublished
<1>5. \A p \in Procs : HandlerStage(p)'
  BY DEF TypeOK, CallStage, RowsAgree, HandlerStage, Granted, Unpublished, TerminalEvent
<1>6. QED  BY <1>1, <1>2, <1>3, <1>4, <1>5

\* SaveExecution inserts a running row for a call that has no record.
LEMMA SaveExecutionInv ==
    ASSUME GateInvariant, NEW c \in Calls, SaveExecution(c)
    PROVE  GateInvariant'
<1> USE ProcsAssumption, PolicyAssumption, MaxFaultsAssumption DEF GateInvariant, SaveExecution
<1>1. TypeOK'
  BY DEF TypeOK, Label, ExecutionStatus, ToolCallStatus, ApprovalStatus, EventType
<1>2. \A x \in Calls : CallStage(x)'
  BY DEF TypeOK, CallStage, RowsAgree, HandlerStage, Granted, Started, Unannounced
<1>3. \A x \in Calls : RowsAgree(x)'
  BY DEF TypeOK, CallStage, RowsAgree, HandlerStage, Granted, Started, Unannounced
<1>4. \A x \in Calls : OutcomeRows(x)'
  BY DEF TypeOK, CallStage, OutcomeRows, HandlerStage, TerminalEvent, Unpublished
<1>5. \A p \in Procs : HandlerStage(p)'
  BY DEF TypeOK, CallStage, RowsAgree, HandlerStage, Granted, Unpublished, TerminalEvent
<1>6. QED  BY <1>1, <1>2, <1>3, <1>4, <1>5

\* EnqueueStarted makes 'started' the first event.
LEMMA EnqueueStartedInv ==
    ASSUME GateInvariant, NEW c \in Calls, EnqueueStarted(c)
    PROVE  GateInvariant'
<1> USE ProcsAssumption, PolicyAssumption, MaxFaultsAssumption DEF GateInvariant, EnqueueStarted
<1>0. /\ outbox' \in [Calls -> Seq(EventType)]
      /\ \A x \in Calls \ {c} : outbox'[x] = outbox[x]
      /\ Len(outbox[c]) \in Nat
      /\ Len(outbox'[c]) = Len(outbox[c]) + 1
      /\ DOMAIN outbox[c] = 1..Len(outbox[c])
      /\ DOMAIN outbox'[c] = 1..(Len(outbox[c]) + 1)
      /\ \A i \in 1..Len(outbox[c]) : outbox'[c][i] = outbox[c][i]
      /\ outbox'[c][Len(outbox[c]) + 1] = "started"
  BY EnqueueFacts DEF EventType
<1>1. TypeOK'
  BY <1>0 DEF TypeOK, Label, ExecutionStatus, ToolCallStatus, ApprovalStatus, EventType
<1>2. \A x \in Calls : CallStage(x)'
  BY <1>0 DEF TypeOK, CallStage, RowsAgree, HandlerStage, Granted, Started, Unannounced
<1>3. \A x \in Calls : RowsAgree(x)'
  BY <1>0 DEF TypeOK, CallStage, RowsAgree, HandlerStage, Granted, Started, Unannounced
<1>4. \A x \in Calls : OutcomeRows(x)'
  BY <1>0 DEF TypeOK, CallStage, OutcomeRows, HandlerStage, TerminalEvent, Unpublished
<1>5. \A p \in Procs : HandlerStage(p)'
  BY <1>0 DEF TypeOK, CallStage, RowsAgree, HandlerStage, Granted, Unpublished, TerminalEvent
<1>6. QED  BY <1>1, <1>2, <1>3, <1>4, <1>5

\* Begin inserts the record; only an allowed call goes straight to its tool.
LEMMA BeginInv ==
    ASSUME GateInvariant, NEW c \in Calls, Begin(c)
    PROVE  GateInvariant'
<1> USE ProcsAssumption, PolicyAssumption, MaxFaultsAssumption DEF GateInvariant, Begin
<1>1. TypeOK'
  BY DEF TypeOK, Label, ExecutionStatus, ToolCallStatus, ApprovalStatus, EventType
<1>2. \A x \in Calls : CallStage(x)'
  BY DEF TypeOK, CallStage, RowsAgree, HandlerStage, Granted, Started, Unannounced
<1>3. \A x \in Calls : RowsAgree(x)'
  BY DEF TypeOK, CallStage, RowsAgree, HandlerStage, Granted, Started, Unannounced
<1>4. \A x \in Calls : OutcomeRows(x)'
  BY DEF TypeOK, CallStage, OutcomeRows, HandlerStage, TerminalEvent, Unpublished
<1>5. \A p \in Procs : HandlerStage(p)'
  <2> SUFFICES ASSUME NEW p \in Procs PROVE HandlerStage(p)'  OBVIOUS
  <2>1. CASE p \in Calls
    BY VerdictType, <2>1 DEF TypeOK, CallStage, RowsAgree, HandlerStage, Granted, Unpublished, TerminalEvent
  <2>2. CASE p \in Deciders
    BY VerdictType, <2>2 DEF TypeOK, CallStage, RowsAgree, HandlerStage, Granted, Unpublished, TerminalEvent
  <2>3. CASE p \in Lookups
    BY VerdictType, <2>3 DEF TypeOK, CallStage, RowsAgree, HandlerStage, Granted, Unpublished, TerminalEvent
  <2>4. QED  BY <2>1, <2>2, <2>3
<1>6. QED  BY <1>1, <1>2, <1>3, <1>4, <1>5

\* Refuse finalizes the record of a call policy turned down.
LEMMA RefuseInv ==
    ASSUME GateInvariant, NEW c \in Calls, Refuse(c)
    PROVE  GateInvariant'
<1> USE ProcsAssumption, PolicyAssumption, MaxFaultsAssumption DEF GateInvariant, Refuse, Transition
<1>1. TypeOK'
  BY DEF TypeOK, Label, ExecutionStatus, ToolCallStatus, ApprovalStatus, EventType
<1>2. \A x \in Calls : CallStage(x)'
  BY DEF TypeOK, CallStage, RowsAgree, HandlerStage, Granted, Started, Unannounced
<1>3. \A x \in Calls : RowsAgree(x)'
  BY DEF TypeOK, CallStage, RowsAgree, HandlerStage, Granted, Started, Unannounced
<1>4. \A x \in Calls : OutcomeRows(x)'
  BY DEF TypeOK, CallStage, OutcomeRows, HandlerStage, TerminalEvent, Unpublished
<1>5. \A p \in Procs : HandlerStage(p)'
  BY DEF TypeOK, CallStage, RowsAgree, HandlerStage, Granted, Unpublished, TerminalEvent
<1>6. QED  BY <1>1, <1>2, <1>3, <1>4, <1>5

\* FailExecution fails an execution whose record is already refused.
LEMMA FailExecutionInv ==
    ASSUME GateInvariant, NEW c \in Calls, FailExecution(c)
    PROVE  GateInvariant'
<1> USE ProcsAssumption, PolicyAssumption, MaxFaultsAssumption DEF GateInvariant, FailExecution
<1>1. TypeOK'
  BY DEF TypeOK, Label, ExecutionStatus, ToolCallStatus, ApprovalStatus, EventType
<1>2. \A x \in Calls : CallStage(x)'
  BY DEF TypeOK, CallStage, RowsAgree, HandlerStage, Granted, Started, Unannounced
<1>3. \A x \in Calls : RowsAgree(x)'
  BY DEF TypeOK, CallStage, RowsAgree, HandlerStage, Granted, Started, Unannounced
<1>4. \A x \in Calls : OutcomeRows(x)'
  BY DEF TypeOK, CallStage, OutcomeRows, HandlerStage, TerminalEvent, Unpublished
<1>5. \A p \in Procs : HandlerStage(p)'
  BY DEF TypeOK, CallStage, RowsAgree, HandlerStage, Granted, Unpublished, TerminalEvent
<1>6. QED  BY <1>1, <1>2, <1>3, <1>4, <1>5

\* CreateApproval inserts a row only for a call whose verdict is pause.
LEMMA CreateApprovalInv ==
    ASSUME GateInvariant, NEW c \in Calls, CreateApproval(c)
    PROVE  GateInvariant'
<1> USE ProcsAssumption, PolicyAssumption, MaxFaultsAssumption DEF GateInvariant, CreateApproval
<1>1. TypeOK'
  BY DEF TypeOK, Label, ExecutionStatus, ToolCallStatus, ApprovalStatus, EventType
<1>2. \A x \in Calls : CallStage(x)'
  BY DEF TypeOK, CallStage, RowsAgree, HandlerStage, Granted, Started, Unannounced
<1>3. \A x \in Calls : RowsAgree(x)'
  BY DEF TypeOK, CallStage, RowsAgree, HandlerStage, Granted, Started, Unannounced
<1>4. \A x \in Calls : OutcomeRows(x)'
  BY DEF TypeOK, CallStage, OutcomeRows, HandlerStage, TerminalEvent, Unpublished
<1>5. \A p \in Procs : HandlerStage(p)'
  BY DEF TypeOK, CallStage, RowsAgree, HandlerStage, Granted, Unpublished, TerminalEvent
<1>6. QED  BY <1>1, <1>2, <1>3, <1>4, <1>5

\* RequireApproval finds the record STARTED: nobody else works on it yet.
LEMMA RequireApprovalInv ==
    ASSUME GateInvariant, NEW c \in Calls, RequireApproval(c)
    PROVE  GateInvariant'
<1> USE ProcsAssumption, PolicyAssumption, MaxFaultsAssumption DEF GateInvariant, RequireApproval, Transition
<1>1. TypeOK'
  BY DEF TypeOK, Label, ExecutionStatus, ToolCallStatus, ApprovalStatus, EventType
<1>2. \A x \in Calls : CallStage(x)'
  BY DEF TypeOK, CallStage, RowsAgree, HandlerStage, Granted, Started, Unannounced
<1>3. \A x \in Calls : RowsAgree(x)'
  BY DEF TypeOK, CallStage, RowsAgree, HandlerStage, Granted, Started, Unannounced
<1>4. \A x \in Calls : OutcomeRows(x)'
  BY DEF TypeOK, CallStage, OutcomeRows, HandlerStage, TerminalEvent, Unpublished
<1>5. \A p \in Procs : HandlerStage(p)'
  BY DEF TypeOK, CallStage, RowsAgree, HandlerStage, Granted, Unpublished, TerminalEvent
<1>6. QED  BY <1>1, <1>2, <1>3, <1>4, <1>5

\* Pause ends the window in which a running execution means nothing.
LEMMA PauseInv ==
    ASSUME GateInvariant, NEW c \in Calls, Pause(c)
    PROVE  GateInvariant'
<1> USE ProcsAssumption, PolicyAssumption, MaxFaultsAssumption DEF GateInvariant, Pause
<1>1. TypeOK'
  BY DEF TypeOK, Label, ExecutionStatus, ToolCallStatus, ApprovalStatus, EventType
<1>2. \A x \in Calls : CallStage(x)'
  BY DEF TypeOK, CallStage, RowsAgree, HandlerStage, Granted, Started, Unannounced
<1>3. \A x \in Calls : RowsAgree(x)'
  BY DEF TypeOK, CallStage, RowsAgree, HandlerStage, Granted, Started, Unannounced
<1>4. \A x \in Calls : OutcomeRows(x)'
  BY DEF TypeOK, CallStage, OutcomeRows, HandlerStage, TerminalEvent, Unpublished
<1>5. \A p \in Procs : HandlerStage(p)'
  BY DEF TypeOK, CallStage, RowsAgree, HandlerStage, Granted, Unpublished, TerminalEvent
<1>6. QED  BY <1>1, <1>2, <1>3, <1>4, <1>5

\* EnqueuePaused may come after an outcome, but only once.
LEMMA EnqueuePausedInv ==
    ASSUME GateInvariant, NEW c \in Calls, EnqueuePaused(c)
    PROVE  GateInvariant'
<1> USE ProcsAssumption, PolicyAssumption, MaxFaultsAssumption DEF GateInvariant, EnqueuePaused, AfterPause
<1>0. /\ outbox' \in [Calls -> Seq(EventType)]
      /\ \A x \in Calls \ {c} : outbox'[x] = outbox[x]
      /\ Len(outbox[c]) \in Nat
      /\ Len(outbox'[c]) = Len(outbox[c]) + 1
      /\ DOMAIN outbox[c] = 1..Len(outbox[c])
      /\ DOMAIN outbox'[c] = 1..(Len(outbox[c]) + 1)
      /\ \A i \in 1..Len(outbox[c]) : outbox'[c][i] = outbox[c][i]
      /\ outbox'[c][Len(outbox[c]) + 1] = "paused"
  BY EnqueueFacts DEF EventType
<1>1. TypeOK'
  BY <1>0 DEF TypeOK, Label, ExecutionStatus, ToolCallStatus, ApprovalStatus, EventType
<1>2. \A x \in Calls : CallStage(x)'
  BY <1>0 DEF TypeOK, CallStage, RowsAgree, HandlerStage, Granted, Started, Unannounced
<1>3. \A x \in Calls : RowsAgree(x)'
  BY <1>0 DEF TypeOK, CallStage, RowsAgree, HandlerStage, Granted, Started, Unannounced
<1>4. \A x \in Calls : OutcomeRows(x)'
  <2>1. \A x \in Calls \ {c} : OutcomeRows(x)'
    BY <1>0 DEF OutcomeRows, TerminalEvent
  <2>2. \A i \in DOMAIN outbox[c] : outbox[c][i] \in TerminalEvent => i = Len(outbox[c])
    <3>1. Unannounced(c)
      BY DEF CallStage
    <3>2. QED  BY <1>0, <3>1 DEF OutcomeRows, Unannounced
  <2>3. OutcomeRows(c)'
    BY <1>0, <2>2 DEF OutcomeRows, TerminalEvent
  <2>4. QED  BY <2>1, <2>3
<1>5. \A p \in Procs : HandlerStage(p)'
  <2> SUFFICES ASSUME NEW p \in Procs PROVE HandlerStage(p)'  OBVIOUS
  <2>1. CASE p \in Calls
    BY <1>0, <2>1 DEF TypeOK, CallStage, RowsAgree, HandlerStage, Granted, Unpublished, TerminalEvent
  <2>2. CASE p \in Deciders
    BY <1>0, <2>2 DEF TypeOK, CallStage, RowsAgree, HandlerStage, Granted, Unpublished, TerminalEvent
  <2>3. CASE p \in Lookups
    BY <1>0, <2>3 DEF TypeOK, CallStage, RowsAgree, HandlerStage, Granted, Unpublished, TerminalEvent
  <2>4. QED  BY <2>1, <2>2, <2>3
<1>6. QED  BY <1>1, <1>2, <1>3, <1>4, <1>5

\* Elicit only adds to the decisions of a call that has an approval row.
LEMMA ElicitInv ==
    ASSUME GateInvariant, NEW c \in Calls, Elicit(c)
    PROVE  GateInvariant'
<1> USE ProcsAssumption, PolicyAssumption, MaxFaultsAssumption DEF GateInvariant, Elicit
<1>1. TypeOK'
  BY DEF TypeOK, Label, ExecutionStatus, ToolCallStatus, ApprovalStatus, EventType
<1>2. \A x \in Calls : CallStage(x)'
  BY DEF TypeOK, CallStage, RowsAgree, HandlerStage, Granted, Started, Unannounced
<1>3. \A x \in Calls : RowsAgree(x)'
  BY DEF TypeOK, CallStage, RowsAgree, HandlerStage, Granted, Started, Unannounced
<1>4. \A x \in Calls : OutcomeRows(x)'
  BY DEF TypeOK, CallStage, OutcomeRows, HandlerStage, TerminalEvent, Unpublished
<1>5. \A p \in Procs : HandlerStage(p)'
  BY DEF TypeOK, CallStage, RowsAgree, HandlerStage, Granted, Unpublished, TerminalEvent
<1>6. QED  BY <1>1, <1>2, <1>3, <1>4, <1>5

\* DecideRead writes nothing.
LEMMA DecideReadInv ==
    ASSUME GateInvariant, NEW c \in Calls, DecideRead(c)
    PROVE  GateInvariant'
<1> USE ProcsAssumption, PolicyAssumption, MaxFaultsAssumption DEF GateInvariant, DecideRead
<1>1. TypeOK'
  BY DEF TypeOK, Label, ExecutionStatus, ToolCallStatus, ApprovalStatus, EventType
<1>2. \A x \in Calls : CallStage(x)'
  BY DEF TypeOK, CallStage, RowsAgree, HandlerStage, Granted, Started, Unannounced
<1>3. \A x \in Calls : RowsAgree(x)'
  BY DEF TypeOK, CallStage, RowsAgree, HandlerStage, Granted, Started, Unannounced
<1>4. \A x \in Calls : OutcomeRows(x)'
  BY DEF TypeOK, CallStage, OutcomeRows, HandlerStage, TerminalEvent, Unpublished
<1>5. \A p \in Procs : HandlerStage(p)'
  BY DEF TypeOK, CallStage, RowsAgree, HandlerStage, Granted, Unpublished, TerminalEvent
<1>6. QED  BY <1>1, <1>2, <1>3, <1>4, <1>5

\* DecideRow writes the decision its human submitted.
LEMMA DecideRowInv ==
    ASSUME GateInvariant, NEW c \in Calls, DecideRow(c)
    PROVE  GateInvariant'
<1> USE ProcsAssumption, PolicyAssumption, MaxFaultsAssumption DEF GateInvariant, DecideRow
<1>0. decision[c] \in Decision
  BY DEF TypeOK, CallStage
<1>1. TypeOK'
  <2>1. approvals' \in [Calls -> ApprovalStatus \cup {"none"}]
    BY <1>0 DEF TypeOK, ApprovalStatus, CallStage
  <2>2. pc' \in [Procs -> Label]
    BY <1>0 DEF TypeOK, Label
  <2>3. QED  BY <2>1, <2>2 DEF TypeOK
<1>2. \A x \in Calls : CallStage(x)'
  BY <1>0 DEF TypeOK, CallStage, RowsAgree, HandlerStage, Granted, Started, Unannounced
<1>3. \A x \in Calls : RowsAgree(x)'
  BY <1>0 DEF TypeOK, CallStage, RowsAgree, HandlerStage, Granted, Started, Unannounced
<1>4. \A x \in Calls : OutcomeRows(x)'
  BY <1>0 DEF TypeOK, CallStage, OutcomeRows, HandlerStage, TerminalEvent, Unpublished
<1>5. \A p \in Procs : HandlerStage(p)'
  BY <1>0 DEF TypeOK, CallStage, RowsAgree, HandlerStage, Granted, Unpublished, TerminalEvent
<1>6. QED  BY <1>1, <1>2, <1>3, <1>4, <1>5

\* DecideExecution sets the execution running only for an approval.
LEMMA DecideExecutionInv ==
    ASSUME GateInvariant, NEW c \in Calls, DecideExecution(c)
    PROVE  GateInvariant'
<1> USE ProcsAssumption, PolicyAssumption, MaxFaultsAssumption DEF GateInvariant, DecideExecution
<1>1. TypeOK'
  BY DEF TypeOK, Label, ExecutionStatus, ToolCallStatus, ApprovalStatus, EventType
<1>2. \A x \in Calls : CallStage(x)'
  BY DEF TypeOK, CallStage, RowsAgree, HandlerStage, Granted, Started, Unannounced
<1>3. \A x \in Calls : RowsAgree(x)'
  BY DEF TypeOK, CallStage, RowsAgree, HandlerStage, Granted, Started, Unannounced
<1>4. \A x \in Calls : OutcomeRows(x)'
  BY DEF TypeOK, CallStage, OutcomeRows, HandlerStage, TerminalEvent, Unpublished
<1>5. \A p \in Procs : HandlerStage(p)'
  <2> SUFFICES ASSUME NEW p \in Procs PROVE HandlerStage(p)'  OBVIOUS
  <2>1. CASE p \in Calls
    BY <2>1 DEF TypeOK, CallStage, RowsAgree, HandlerStage, Granted, Unpublished, TerminalEvent
  <2>2. CASE p \in Deciders
    BY <2>2 DEF TypeOK, CallStage, RowsAgree, HandlerStage, Granted, Unpublished, TerminalEvent
  <2>3. CASE p \in Lookups
    BY <2>3 DEF TypeOK, CallStage, RowsAgree, HandlerStage, Granted, Unpublished, TerminalEvent
  <2>4. QED  BY <2>1, <2>2, <2>3
<1>6. QED  BY <1>1, <1>2, <1>3, <1>4, <1>5

\* ConsoleReceive picks a call that has an approval row.
LEMMA ConsoleReceiveInv ==
    ASSUME GateInvariant, NEW d \in Deciders, ConsoleReceive(d)
    PROVE  GateInvariant'
<1> USE ProcsAssumption, PolicyAssumption, MaxFaultsAssumption DEF GateInvariant, ConsoleReceive
<1>1. TypeOK'
  BY DEF TypeOK, Label, ExecutionStatus, ToolCallStatus, ApprovalStatus, EventType
<1>2. \A x \in Calls : CallStage(x)'
  BY DEF TypeOK, CallStage, RowsAgree, HandlerStage, Granted, Started, Unannounced
<1>3. \A x \in Calls : RowsAgree(x)'
  BY DEF TypeOK, CallStage, RowsAgree, HandlerStage, Granted, Started, Unannounced
<1>4. \A x \in Calls : OutcomeRows(x)'
  BY DEF TypeOK, CallStage, OutcomeRows, HandlerStage, TerminalEvent, Unpublished
<1>5. \A p \in Procs : HandlerStage(p)'
  BY DEF TypeOK, CallStage, RowsAgree, HandlerStage, Granted, Unpublished, TerminalEvent
<1>6. QED  BY <1>1, <1>2, <1>3, <1>4, <1>5

\* ConsoleRead writes nothing.
LEMMA ConsoleReadInv ==
    ASSUME GateInvariant, NEW d \in Deciders, ConsoleRead(d)
    PROVE  GateInvariant'
<1> USE ProcsAssumption, PolicyAssumption, MaxFaultsAssumption DEF GateInvariant, ConsoleRead
<1>1. TypeOK'
  BY DEF TypeOK, Label, ExecutionStatus, ToolCallStatus, ApprovalStatus, EventType
<1>2. \A x \in Calls : CallStage(x)'
  BY DEF TypeOK, CallStage, RowsAgree, HandlerStage, Granted, Started, Unannounced
<1>3. \A x \in Calls : RowsAgree(x)'
  BY DEF TypeOK, CallStage, RowsAgree, HandlerStage, Granted, Started, Unannounced
<1>4. \A x \in Calls : OutcomeRows(x)'
  BY DEF TypeOK, CallStage, OutcomeRows, HandlerStage, TerminalEvent, Unpublished
<1>5. \A p \in Procs : HandlerStage(p)'
  BY DEF TypeOK, CallStage, RowsAgree, HandlerStage, Granted, Unpublished, TerminalEvent
<1>6. QED  BY <1>1, <1>2, <1>3, <1>4, <1>5

\* ConsoleReject never makes a row APPROVED.
LEMMA ConsoleRejectInv ==
    ASSUME GateInvariant, NEW d \in Deciders, ConsoleReject(d)
    PROVE  GateInvariant'
<1> USE ProcsAssumption, PolicyAssumption, MaxFaultsAssumption DEF GateInvariant, ConsoleReject
<1>1. TypeOK'
  BY DEF TypeOK, Label, ExecutionStatus, ToolCallStatus, ApprovalStatus, EventType
<1>2. \A x \in Calls : CallStage(x)'
  BY DEF TypeOK, CallStage, RowsAgree, HandlerStage, Granted, Started, Unannounced
<1>3. \A x \in Calls : RowsAgree(x)'
  BY DEF TypeOK, CallStage, RowsAgree, HandlerStage, Granted, Started, Unannounced
<1>4. \A x \in Calls : OutcomeRows(x)'
  BY DEF TypeOK, CallStage, OutcomeRows, HandlerStage, TerminalEvent, Unpublished
<1>5. \A p \in Procs : HandlerStage(p)'
  BY DEF TypeOK, CallStage, RowsAgree, HandlerStage, Granted, Unpublished, TerminalEvent
<1>6. QED  BY <1>1, <1>2, <1>3, <1>4, <1>5

\* ConsoleApprove sets the execution running on a human's word.
LEMMA ConsoleApproveInv ==
    ASSUME GateInvariant, NEW d \in Deciders, ConsoleApprove(d)
    PROVE  GateInvariant'
<1> USE ProcsAssumption, PolicyAssumption, MaxFaultsAssumption DEF GateInvariant, ConsoleApprove
<1>1. TypeOK'
  BY DEF TypeOK, Label, ExecutionStatus, ToolCallStatus, ApprovalStatus, EventType
<1>2. \A x \in Calls : CallStage(x)'
  BY DEF TypeOK, CallStage, RowsAgree, HandlerStage, Granted, Started, Unannounced
<1>3. \A x \in Calls : RowsAgree(x)'
  BY DEF TypeOK, CallStage, RowsAgree, HandlerStage, Granted, Started, Unannounced
<1>4. \A x \in Calls : OutcomeRows(x)'
  BY DEF TypeOK, CallStage, OutcomeRows, HandlerStage, TerminalEvent, Unpublished
<1>5. \A p \in Procs : HandlerStage(p)'
  BY DEF TypeOK, CallStage, RowsAgree, HandlerStage, Granted, Unpublished, TerminalEvent
<1>6. QED  BY <1>1, <1>2, <1>3, <1>4, <1>5

\* Poll runs a tool only on a running execution, hence after an approval.
LEMMA PollInv ==
    ASSUME GateInvariant, NEW c \in Calls, Poll(c)
    PROVE  GateInvariant'
<1> USE ProcsAssumption, PolicyAssumption, MaxFaultsAssumption DEF GateInvariant, Poll
<1>0. executions[c] = "running" => Granted(c) /\ toolCalls[c] # "none"
  BY DEF TypeOK, CallStage, RowsAgree, Granted
<1>1. TypeOK'
  BY DEF TypeOK, Label, ExecutionStatus, ToolCallStatus, ApprovalStatus, EventType
<1>2. \A x \in Calls : CallStage(x)'
  BY DEF TypeOK, CallStage, RowsAgree, HandlerStage, Granted, Started, Unannounced
<1>3. \A x \in Calls : RowsAgree(x)'
  BY DEF TypeOK, CallStage, RowsAgree, HandlerStage, Granted, Started, Unannounced
<1>4. \A x \in Calls : OutcomeRows(x)'
  BY DEF TypeOK, CallStage, OutcomeRows, HandlerStage, TerminalEvent, Unpublished
<1>5. \A p \in Procs : HandlerStage(p)'
  <2> SUFFICES ASSUME NEW p \in Procs PROVE HandlerStage(p)'  OBVIOUS
  <2>1. CASE p \in Calls
    BY <1>0, <2>1 DEF TypeOK, CallStage, RowsAgree, HandlerStage, Granted, Unpublished, TerminalEvent
  <2>2. CASE p \in Deciders
    BY <1>0, <2>2 DEF TypeOK, CallStage, RowsAgree, HandlerStage, Granted, Unpublished, TerminalEvent
  <2>3. CASE p \in Lookups
    BY <1>0, <2>3 DEF TypeOK, CallStage, RowsAgree, HandlerStage, Granted, Unpublished, TerminalEvent
  <2>4. QED  BY <2>1, <2>2, <2>3
<1>6. QED  BY <1>1, <1>2, <1>3, <1>4, <1>5

\* PollTimeout writes nothing.
LEMMA PollTimeoutInv ==
    ASSUME GateInvariant, NEW c \in Calls, PollTimeout(c)
    PROVE  GateInvariant'
<1> USE ProcsAssumption, PolicyAssumption, MaxFaultsAssumption DEF GateInvariant, PollTimeout
<1>1. TypeOK'
  BY DEF TypeOK, Label, ExecutionStatus, ToolCallStatus, ApprovalStatus, EventType
<1>2. \A x \in Calls : CallStage(x)'
  BY DEF TypeOK, CallStage, RowsAgree, HandlerStage, Granted, Started, Unannounced
<1>3. \A x \in Calls : RowsAgree(x)'
  BY DEF TypeOK, CallStage, RowsAgree, HandlerStage, Granted, Started, Unannounced
<1>4. \A x \in Calls : OutcomeRows(x)'
  BY DEF TypeOK, CallStage, OutcomeRows, HandlerStage, TerminalEvent, Unpublished
<1>5. \A p \in Procs : HandlerStage(p)'
  BY DEF TypeOK, CallStage, RowsAgree, HandlerStage, Granted, Unpublished, TerminalEvent
<1>6. QED  BY <1>1, <1>2, <1>3, <1>4, <1>5

\* RunApproved relies on the console's accepted approval.
LEMMA RunApprovedInv ==
    ASSUME GateInvariant, NEW c \in Calls, RunApproved(c)
    PROVE  GateInvariant'
<1> USE ProcsAssumption, PolicyAssumption, MaxFaultsAssumption DEF GateInvariant, RunApproved
<1>a. PICK d \in Deciders : target[d] = c /\ decision[d] = "APPROVED" /\ pc[d] = "returned"
  OBVIOUS
<1>b. "APPROVED" \in decisions[c]
  BY <1>a DEF HandlerStage
<1>0. Granted(c) /\ toolCalls[c] # "none"
  BY <1>b DEF CallStage, Granted
<1>1. TypeOK'
  BY DEF TypeOK, Label, ExecutionStatus, ToolCallStatus, ApprovalStatus, EventType
<1>2. \A x \in Calls : CallStage(x)'
  BY DEF TypeOK, CallStage, RowsAgree, HandlerStage, Granted, Started, Unannounced
<1>3. \A x \in Calls : RowsAgree(x)'
  BY DEF TypeOK, CallStage, RowsAgree, HandlerStage, Granted, Started, Unannounced
<1>4. \A x \in Calls : OutcomeRows(x)'
  BY DEF TypeOK, CallStage, OutcomeRows, HandlerStage, TerminalEvent, Unpublished
<1>5. \A p \in Procs : HandlerStage(p)'
  <2> SUFFICES ASSUME NEW p \in Procs PROVE HandlerStage(p)'  OBVIOUS
  <2>1. CASE p \in Calls
    BY <1>0, <2>1 DEF TypeOK, CallStage, RowsAgree, HandlerStage, Granted, Unpublished, TerminalEvent
  <2>2. CASE p \in Deciders
    BY <1>0, <2>2 DEF TypeOK, CallStage, RowsAgree, HandlerStage, Granted, Unpublished, TerminalEvent
  <2>3. CASE p \in Lookups
    BY <1>0, <2>3 DEF TypeOK, CallStage, RowsAgree, HandlerStage, Granted, Unpublished, TerminalEvent
  <2>4. QED  BY <2>1, <2>2, <2>3
<1>6. QED  BY <1>1, <1>2, <1>3, <1>4, <1>5

\* LookupRow picks any call that has an approval row.
LEMMA LookupRowInv ==
    ASSUME GateInvariant, NEW l \in Lookups, LookupRow(l)
    PROVE  GateInvariant'
<1> USE ProcsAssumption, PolicyAssumption, MaxFaultsAssumption DEF GateInvariant, LookupRow
<1>1. TypeOK'
  <2>1. rowSeen' \in [Procs -> ApprovalStatus \cup {None}]
    BY DEF TypeOK, CallStage
  <2>2. target' \in [Procs -> Calls \cup {None}]
    BY DEF TypeOK
  <2>3. pc' \in [Procs -> Label]
    BY DEF TypeOK, Label
  <2>4. QED  BY <2>1, <2>2, <2>3 DEF TypeOK
<1>2. \A x \in Calls : CallStage(x)'
  BY DEF TypeOK, CallStage, RowsAgree, HandlerStage, Granted, Started, Unannounced
<1>3. \A x \in Calls : RowsAgree(x)'
  BY DEF TypeOK, CallStage, RowsAgree, HandlerStage, Granted, Started, Unannounced
<1>4. \A x \in Calls : OutcomeRows(x)'
  BY DEF TypeOK, CallStage, OutcomeRows, HandlerStage, TerminalEvent, Unpublished
<1>5. \A p \in Procs : HandlerStage(p)'
  BY DEF TypeOK, CallStage, RowsAgree, HandlerStage, Granted, Unpublished, TerminalEvent
<1>6. QED  BY <1>1, <1>2, <1>3, <1>4, <1>5

\* LookupExecution takes a paused call for approved only after a human
\* approved it, and any other one on a presumption.
LEMMA LookupExecutionInv ==
    ASSUME GateInvariant, NEW l \in Lookups, LookupExecution(l)
    PROVE  GateInvariant'
<1> USE ProcsAssumption, PolicyAssumption, MaxFaultsAssumption DEF GateInvariant, LookupExecution, Decided
<1>0. /\ target[l] \in Calls
      /\ pc'[l] \in {"lookupApprove", "lookupTool"} =>
             Approved(target[l])' /\ target[l] \in paused \cup presumed'
      /\ approvals[target[l]] # "none"
      /\ presumed' \in SUBSET Calls /\ presumed \subseteq presumed'
      /\ presumed' \subseteq presumed \cup {target[l]}
  <2>1. target[l] \in Calls /\ rowSeen[l] \in ApprovalStatus
        /\ (rowSeen[l] = "APPROVED" => Approved(target[l]))
        /\ approvals[target[l]] # "none"
    BY DEF TypeOK, HandlerStage
  <2>2. presumed' \in SUBSET Calls /\ presumed \subseteq presumed'
        /\ presumed' \subseteq presumed \cup {target[l]}
    BY <2>1 DEF TypeOK
  <2>3. target[l] \in paused /\ executions[target[l]] = "running" =>
            "APPROVED" \in decisions[target[l]]
    BY <2>1 DEF RowsAgree
  <2>4. QED  BY <2>1, <2>2, <2>3 DEF TypeOK, ApprovalStatus
<1>1. TypeOK'
  BY <1>0 DEF TypeOK, Label, ExecutionStatus, ToolCallStatus, ApprovalStatus, EventType
<1>2. \A x \in Calls : CallStage(x)'
  BY <1>0 DEF TypeOK, CallStage, RowsAgree, HandlerStage, Granted, Started, Unannounced
<1>3. \A x \in Calls : RowsAgree(x)'
  BY <1>0 DEF TypeOK, CallStage, RowsAgree, HandlerStage, Granted, Started, Unannounced
<1>4. \A x \in Calls : OutcomeRows(x)'
  BY DEF TypeOK, CallStage, OutcomeRows, HandlerStage, TerminalEvent, Unpublished
<1>5. \A p \in Procs : HandlerStage(p)'
  <2> SUFFICES ASSUME NEW p \in Procs PROVE HandlerStage(p)'  OBVIOUS
  <2>1. CASE p \in Calls
    BY <1>0, <2>1 DEF TypeOK, CallStage, RowsAgree, HandlerStage, Granted, Unpublished, TerminalEvent
  <2>2. CASE p \in Deciders
    BY <1>0, <2>2 DEF TypeOK, CallStage, RowsAgree, HandlerStage, Granted, Unpublished, TerminalEvent
  <2>3. CASE p \in Lookups
    BY <1>0, <2>3 DEF TypeOK, CallStage, RowsAgree, HandlerStage, Granted, Unpublished, TerminalEvent
  <2>4. QED  BY <2>1, <2>2, <2>3
<1>6. QED  BY <1>1, <1>2, <1>3, <1>4, <1>5

\* LookupCancel never makes an execution running, done or failed.
LEMMA LookupCancelInv ==
    ASSUME GateInvariant, NEW l \in Lookups, LookupCancel(l)
    PROVE  GateInvariant'
<1> USE ProcsAssumption, PolicyAssumption, MaxFaultsAssumption DEF GateInvariant, LookupCancel
<1>1. TypeOK'
  BY DEF TypeOK, Label, ExecutionStatus, ToolCallStatus, ApprovalStatus, EventType
<1>2. \A x \in Calls : CallStage(x)'
  BY DEF TypeOK, CallStage, RowsAgree, HandlerStage, Granted, Started, Unannounced
<1>3. \A x \in Calls : RowsAgree(x)'
  BY DEF TypeOK, CallStage, RowsAgree, HandlerStage, Granted, Started, Unannounced
<1>4. \A x \in Calls : OutcomeRows(x)'
  BY DEF TypeOK, CallStage, OutcomeRows, HandlerStage, TerminalEvent, Unpublished
<1>5. \A p \in Procs : HandlerStage(p)'
  BY DEF TypeOK, CallStage, RowsAgree, HandlerStage, Granted, Unpublished, TerminalEvent
<1>6. QED  BY <1>1, <1>2, <1>3, <1>4, <1>5

\* LookupApprove records an approval some human gave or the lookup presumed.
LEMMA LookupApproveInv ==
    ASSUME GateInvariant, NEW l \in Lookups, LookupApprove(l)
    PROVE  GateInvariant'
<1> USE ProcsAssumption, PolicyAssumption, MaxFaultsAssumption DEF GateInvariant, LookupApprove
<1>1. TypeOK'
  BY DEF TypeOK, Label, ExecutionStatus, ToolCallStatus, ApprovalStatus, EventType
<1>2. \A x \in Calls : CallStage(x)'
  BY DEF TypeOK, CallStage, RowsAgree, HandlerStage, Granted, Started, Unannounced
<1>3. \A x \in Calls : RowsAgree(x)'
  BY DEF TypeOK, CallStage, RowsAgree, HandlerStage, Granted, Started, Unannounced
<1>4. \A x \in Calls : OutcomeRows(x)'
  BY DEF TypeOK, CallStage, OutcomeRows, HandlerStage, TerminalEvent, Unpublished
<1>5. \A p \in Procs : HandlerStage(p)'
  BY DEF TypeOK, CallStage, RowsAgree, HandlerStage, Granted, Unpublished, TerminalEvent
<1>6. QED  BY <1>1, <1>2, <1>3, <1>4, <1>5

\* LookupTool writes nothing.
LEMMA LookupToolInv ==
    ASSUME GateInvariant, NEW l \in Lookups, LookupTool(l)
    PROVE  GateInvariant'
<1> USE ProcsAssumption, PolicyAssumption, MaxFaultsAssumption DEF GateInvariant, LookupTool
<1>1. TypeOK'
  BY DEF TypeOK, Label, ExecutionStatus, ToolCallStatus, ApprovalStatus, EventType
<1>2. \A x \in Calls : CallStage(x)'
  BY DEF TypeOK, CallStage, RowsAgree, HandlerStage, Granted, Started, Unannounced
<1>3. \A x \in Calls : RowsAgree(x)'
  BY DEF TypeOK, CallStage, RowsAgree, HandlerStage, Granted, Started, Unannounced
<1>4. \A x \in Calls : OutcomeRows(x)'
  BY DEF TypeOK, CallStage, OutcomeRows, HandlerStage, TerminalEvent, Unpublished
<1>5. \A p \in Procs : HandlerStage(p)'
  BY DEF TypeOK, CallStage, RowsAgree, HandlerStage, Granted, Unpublished, TerminalEvent
<1>6. QED  BY <1>1, <1>2, <1>3, <1>4, <1>5

\* CallTool runs a granted tool.
LEMMA CallToolInv ==
    ASSUME GateInvariant, NEW h \in Calls \cup Lookups, CallTool(h)
    PROVE  GateInvariant'
<1> USE ProcsAssumption, PolicyAssumption, MaxFaultsAssumption DEF GateInvariant, CallTool
<1>0. target[h] \in Calls
  BY TargetIsCall
<1>1. TypeOK'
  <2>1. ran' \in [Calls -> Nat]
    BY <1>0 DEF TypeOK
  <2>2. ok' \in [Procs -> BOOLEAN]
    BY <1>0 DEF TypeOK
  <2>3. pc' \in [Procs -> Label]
    BY <1>0 DEF TypeOK, Label
  <2>4. QED  BY <2>1, <2>2, <2>3 DEF TypeOK
<1>2. \A x \in Calls : CallStage(x)'
  BY <1>0 DEF TypeOK, CallStage, RowsAgree, HandlerStage, Granted, Started, Unannounced
<1>3. \A x \in Calls : RowsAgree(x)'
  BY <1>0 DEF TypeOK, CallStage, RowsAgree, HandlerStage, Granted, Started, Unannounced
<1>4. \A x \in Calls : OutcomeRows(x)'
  BY <1>0 DEF TypeOK, CallStage, OutcomeRows, HandlerStage, TerminalEvent, Unpublished
<1>5. \A p \in Procs : HandlerStage(p)'
  BY <1>0 DEF TypeOK, CallStage, RowsAgree, HandlerStage, Granted, Unpublished, TerminalEvent
<1>6. QED  BY <1>1, <1>2, <1>3, <1>4, <1>5

\* CompleteRead writes nothing.
LEMMA CompleteReadInv ==
    ASSUME GateInvariant, NEW h \in Calls \cup Lookups, CompleteRead(h)
    PROVE  GateInvariant'
<1> USE ProcsAssumption, PolicyAssumption, MaxFaultsAssumption DEF GateInvariant, CompleteRead
<1>1. TypeOK'
  BY DEF TypeOK, Label, ExecutionStatus, ToolCallStatus, ApprovalStatus, EventType
<1>2. \A x \in Calls : CallStage(x)'
  BY DEF TypeOK, CallStage, RowsAgree, HandlerStage, Granted, Started, Unannounced
<1>3. \A x \in Calls : RowsAgree(x)'
  BY DEF TypeOK, CallStage, RowsAgree, HandlerStage, Granted, Started, Unannounced
<1>4. \A x \in Calls : OutcomeRows(x)'
  BY DEF TypeOK, CallStage, OutcomeRows, HandlerStage, TerminalEvent, Unpublished
<1>5. \A p \in Procs : HandlerStage(p)'
  BY DEF TypeOK, CallStage, RowsAgree, HandlerStage, Granted, Unpublished, TerminalEvent
<1>6. QED  BY <1>1, <1>2, <1>3, <1>4, <1>5

\* ReadCall writes nothing.
LEMMA ReadCallInv ==
    ASSUME GateInvariant, NEW h \in Calls \cup Lookups, ReadCall(h)
    PROVE  GateInvariant'
<1> USE ProcsAssumption, PolicyAssumption, MaxFaultsAssumption DEF GateInvariant, ReadCall
<1>1. TypeOK'
  BY DEF TypeOK, Label, ExecutionStatus, ToolCallStatus, ApprovalStatus, EventType
<1>2. \A x \in Calls : CallStage(x)'
  BY DEF TypeOK, CallStage, RowsAgree, HandlerStage, Granted, Started, Unannounced
<1>3. \A x \in Calls : RowsAgree(x)'
  BY DEF TypeOK, CallStage, RowsAgree, HandlerStage, Granted, Started, Unannounced
<1>4. \A x \in Calls : OutcomeRows(x)'
  BY DEF TypeOK, CallStage, OutcomeRows, HandlerStage, TerminalEvent, Unpublished
<1>5. \A p \in Procs : HandlerStage(p)'
  BY DEF TypeOK, CallStage, RowsAgree, HandlerStage, Granted, Unpublished, TerminalEvent
<1>6. QED  BY <1>1, <1>2, <1>3, <1>4, <1>5

\* ResumeCall leaves final records alone.
LEMMA ResumeCallInv ==
    ASSUME GateInvariant, NEW h \in Calls \cup Lookups, ResumeCall(h)
    PROVE  GateInvariant'
<1> USE ProcsAssumption, PolicyAssumption, MaxFaultsAssumption DEF GateInvariant, ResumeCall, Transition
<1>0. target[h] \in Calls
  BY TargetIsCall
<1>1. TypeOK'
  BY <1>0 DEF TypeOK, Label, ExecutionStatus, ToolCallStatus, ApprovalStatus, EventType
<1>2. \A x \in Calls : CallStage(x)'
  BY <1>0 DEF TypeOK, CallStage, RowsAgree, HandlerStage, Granted, Started, Unannounced
<1>3. \A x \in Calls : RowsAgree(x)'
  BY <1>0 DEF TypeOK, CallStage, RowsAgree, HandlerStage, Granted, Started, Unannounced
<1>4. \A x \in Calls : OutcomeRows(x)'
  BY <1>0 DEF TypeOK, CallStage, OutcomeRows, HandlerStage, TerminalEvent, Unpublished
<1>5. \A p \in Procs : HandlerStage(p)'
  BY <1>0 DEF TypeOK, CallStage, RowsAgree, HandlerStage, Granted, Unpublished, TerminalEvent
<1>6. QED  BY <1>1, <1>2, <1>3, <1>4, <1>5

\* Finalize lets at most one reporter through to publication.
LEMMA FinalizeInv ==
    ASSUME GateInvariant, NEW h \in Calls \cup Lookups, Finalize(h)
    PROVE  GateInvariant'
<1> USE ProcsAssumption, PolicyAssumption, MaxFaultsAssumption DEF GateInvariant, Finalize, Transition
<1>0. target[h] \in Calls
  BY TargetIsCall
<1>a. toolCalls[target[h]] \in {"STARTED", "RUNNING"} =>
        /\ Unpublished(target[h])
        /\ \A q \in Procs : target[q] = target[h] => pc[q] \notin PublishLabel
  BY <1>0 DEF TypeOK, OutcomeRows, HandlerStage, Unpublished, TerminalEvent
<1>1. TypeOK'
  BY <1>0, <1>a DEF TypeOK, Label, ExecutionStatus, ToolCallStatus, ApprovalStatus, EventType
<1>2. \A x \in Calls : CallStage(x)'
  BY <1>0, <1>a DEF TypeOK, CallStage, RowsAgree, HandlerStage, Granted, Started, Unannounced
<1>3. \A x \in Calls : RowsAgree(x)'
  BY <1>0, <1>a DEF TypeOK, CallStage, RowsAgree, HandlerStage, Granted, Started, Unannounced
<1>4. \A x \in Calls : OutcomeRows(x)'
  BY <1>0, <1>a DEF TypeOK, CallStage, OutcomeRows, HandlerStage, TerminalEvent, Unpublished
<1>5. \A p \in Procs : HandlerStage(p)'
  <2> SUFFICES ASSUME NEW p \in Procs PROVE HandlerStage(p)'  OBVIOUS
  <2>1. CASE p \in Calls
    BY <1>0, <1>a, <2>1 DEF TypeOK, CallStage, RowsAgree, HandlerStage, Granted, Unpublished, TerminalEvent
  <2>2. CASE p \in Deciders
    BY <1>0, <1>a, <2>2 DEF TypeOK, CallStage, RowsAgree, HandlerStage, Granted, Unpublished, TerminalEvent
  <2>3. CASE p \in Lookups
    BY <1>0, <1>a, <2>3 DEF TypeOK, CallStage, RowsAgree, HandlerStage, Granted, Unpublished, TerminalEvent
  <2>4. QED  BY <2>1, <2>2, <2>3
<1>6. QED  BY <1>1, <1>2, <1>3, <1>4, <1>5

\* CompleteExecution writes the outcome its own Finalize recorded.
LEMMA CompleteExecutionInv ==
    ASSUME GateInvariant, NEW h \in Calls \cup Lookups, CompleteExecution(h)
    PROVE  GateInvariant'
<1> USE ProcsAssumption, PolicyAssumption, MaxFaultsAssumption DEF GateInvariant, CompleteExecution
<1>0. target[h] \in Calls
  BY TargetIsCall
<1>1. TypeOK'
  BY <1>0 DEF TypeOK, Label, ExecutionStatus, ToolCallStatus, ApprovalStatus, EventType
<1>2. \A x \in Calls : CallStage(x)'
  BY <1>0 DEF TypeOK, CallStage, RowsAgree, HandlerStage, Granted, Started, Unannounced
<1>3. \A x \in Calls : RowsAgree(x)'
  BY <1>0 DEF TypeOK, CallStage, RowsAgree, HandlerStage, Granted, Started, Unannounced
<1>4. \A x \in Calls : OutcomeRows(x)'
  BY <1>0 DEF TypeOK, CallStage, OutcomeRows, HandlerStage, TerminalEvent, Unpublished
<1>5. \A p \in Procs : HandlerStage(p)'
  BY <1>0 DEF TypeOK, CallStage, RowsAgree, HandlerStage, Granted, Unpublished, TerminalEvent
<1>6. QED  BY <1>1, <1>2, <1>3, <1>4, <1>5

\* EnqueueOutcome appends the only outcome event.
LEMMA EnqueueOutcomeInv ==
    ASSUME GateInvariant, NEW h \in Calls \cup Lookups, EnqueueOutcome(h)
    PROVE  GateInvariant'
<1> USE ProcsAssumption, PolicyAssumption, MaxFaultsAssumption DEF GateInvariant, EnqueueOutcome
<1>0. target[h] \in Calls
  BY TargetIsCall
<1>a. /\ outbox' \in [Calls -> Seq(EventType)]
      /\ \A x \in Calls \ {target[h]} : outbox'[x] = outbox[x]
      /\ Len(outbox[target[h]]) \in Nat
      /\ Len(outbox'[target[h]]) = Len(outbox[target[h]]) + 1
      /\ DOMAIN outbox[target[h]] = 1..Len(outbox[target[h]])
      /\ DOMAIN outbox'[target[h]] = 1..(Len(outbox[target[h]]) + 1)
      /\ \A i \in 1..Len(outbox[target[h]]) : outbox'[target[h]][i] = outbox[target[h]][i]
      /\ outbox'[target[h]][Len(outbox[target[h]]) + 1] = (IF ok[h] THEN "completed" ELSE "failed")
  BY <1>0, EnqueueFacts DEF EventType
<1>1. TypeOK'
  BY <1>0, <1>a DEF TypeOK, Label, ExecutionStatus, ToolCallStatus, ApprovalStatus, EventType
<1>2. \A x \in Calls : CallStage(x)'
  BY <1>0, <1>a DEF TypeOK, CallStage, RowsAgree, HandlerStage, Granted, Started, Unannounced
<1>3. \A x \in Calls : RowsAgree(x)'
  BY <1>0, <1>a DEF TypeOK, CallStage, RowsAgree, HandlerStage, Granted, Started, Unannounced
<1>4. \A x \in Calls : OutcomeRows(x)'
  BY <1>0, <1>a DEF TypeOK, CallStage, OutcomeRows, HandlerStage, TerminalEvent, Unpublished
<1>5. \A p \in Procs : HandlerStage(p)'
  BY <1>0, <1>a DEF TypeOK, CallStage, RowsAgree, HandlerStage, Granted, Unpublished, TerminalEvent
<1>6. QED  BY <1>1, <1>2, <1>3, <1>4, <1>5

\* Abort writes nothing; what the handler left behind stays consistent.
LEMMA AbortInv ==
    ASSUME GateInvariant, NEW h \in Procs, Abort(h)
    PROVE  GateInvariant'
<1> USE ProcsAssumption, PolicyAssumption, MaxFaultsAssumption DEF GateInvariant, Abort
<1>1. TypeOK'
  BY DEF TypeOK, Label, ExecutionStatus, ToolCallStatus, ApprovalStatus, EventType
<1>2. \A x \in Calls : CallStage(x)'
  BY DEF TypeOK, CallStage, RowsAgree, HandlerStage, Granted, Started, Unannounced
<1>3. \A x \in Calls : RowsAgree(x)'
  BY DEF TypeOK, CallStage, RowsAgree, HandlerStage, Granted, Started, Unannounced
<1>4. \A x \in Calls : OutcomeRows(x)'
  BY DEF TypeOK, CallStage, OutcomeRows, HandlerStage, TerminalEvent, Unpublished
<1>5. \A p \in Procs : HandlerStage(p)'
  BY DEF TypeOK, CallStage, RowsAgree, HandlerStage, Granted, Unpublished, TerminalEvent
<1>6. QED  BY <1>1, <1>2, <1>3, <1>4, <1>5

----------------------------------------------------------------------------
(* The invariant and what follows from it. *)

\* The tables start empty and every handler idle.
LEMMA InitInv == Init => GateInvariant
<1> SUFFICES ASSUME Init PROVE GateInvariant
  OBVIOUS
<1> USE ProcsAssumption, PolicyAssumption, MaxFaultsAssumption DEF Init
<1>1. TypeOK
  BY DEF TypeOK, Label, EventType
<1>2. \A c \in Calls : CallStage(c)
  BY DEF CallStage, Unannounced
<1>3. \A c \in Calls : RowsAgree(c)
  BY DEF RowsAgree
<1>4. \A c \in Calls : OutcomeRows(c)
  BY DEF OutcomeRows
<1>5. \A p \in Procs : HandlerStage(p)
  BY DEF HandlerStage
<1>6. QED  BY <1>1, <1>2, <1>3, <1>4, <1>5 DEF GateInvariant

\* Every step of every handler, and every step in which none of them moves,
\* preserves the invariant.
LEMMA NextInv == GateInvariant /\ [Next]_vars => GateInvariant'
<1> SUFFICES ASSUME GateInvariant, [Next]_vars PROVE GateInvariant'
  OBVIOUS
<1>1. ASSUME NEW c \in Calls,
             Receive(c) \/ GateStep(c) \/ Elicit(c) \/ PollTimeout(c) \/ RunApproved(c)
      PROVE  GateInvariant'
  BY <1>1, ReceiveInv, SaveExecutionInv, EnqueueStartedInv, BeginInv, RefuseInv,
     FailExecutionInv, CreateApprovalInv, RequireApprovalInv, PauseInv,
     EnqueuePausedInv, ElicitInv, DecideReadInv, DecideRowInv,
     DecideExecutionInv, PollInv, PollTimeoutInv, RunApprovedInv DEF GateStep
<1>2. ASSUME NEW d \in Deciders, ConsoleReceive(d) \/ ConsoleStep(d)
      PROVE  GateInvariant'
  BY <1>2, ConsoleReceiveInv, ConsoleReadInv, ConsoleRejectInv, ConsoleApproveInv
     DEF ConsoleStep
<1>3. ASSUME NEW l \in Lookups, LookupRow(l) \/ LookupStep(l)
      PROVE  GateInvariant'
  BY <1>3, LookupRowInv, LookupExecutionInv, LookupCancelInv, LookupApproveInv,
     LookupToolInv DEF LookupStep
<1>4. ASSUME NEW h \in Calls \cup Lookups, CompleteStep(h)
      PROVE  GateInvariant'
  BY <1>4, CallToolInv, CompleteReadInv, ReadCallInv, ResumeCallInv, FinalizeInv,
     CompleteExecutionInv, EnqueueOutcomeInv DEF CompleteStep
<1>5. ASSUME NEW h \in Procs, Abort(h) PROVE GateInvariant'
  BY <1>5, AbortInv
<1>6. CASE UNCHANGED vars
  BY <1>6 DEF vars, GateInvariant, TypeOK, CallStage, RowsAgree, OutcomeRows,
     HandlerStage, Granted, Started, Unpublished, Unannounced
<1>7. QED
  BY <1>1, <1>2, <1>3, <1>4, <1>5, <1>6 DEF Next

\* GateInvariant holds in every reachable state of the protocol.
THEOREM Invariance == Spec => []GateInvariant
  BY InitInv, NextInv, PTL DEF Spec

\* The protocol is type correct.
THEOREM TypeCorrectness == Spec => []TypeOK
<1>1. GateInvariant => TypeOK
  BY DEF GateInvariant
<1>2. QED  BY <1>1, Invariance, PTL

\* No tool runs without a grant or, where its risk demands one, a human's
\* approval of that very call, unless a lookup presumed one before the gate
\* paused the call (gate.ts, gateway.ts, client.py).
THEOREM GrantSafety == Spec => []RunsOnlyWhenGrantedOrPresumed
<1>1. GateInvariant => RunsOnlyWhenGrantedOrPresumed
  BY DEF GateInvariant, RowsAgree, Granted, RunsOnlyWhenGrantedOrPresumed
<1>2. QED  BY <1>1, Invariance, PTL

\* Whatever ran has left a started event and an unrefused record before it.
THEOREM AuditSafety == Spec => []AuditPrecedesEffect
<1>1. ASSUME GateInvariant, NEW c \in Calls, ran[c] > 0
      PROVE  /\ Len(outbox[c]) > 0 /\ outbox[c][1] = "started"
             /\ toolCalls[c] \notin {"none", "DENIED", "BLOCKED"}
  <2>1. RowsAgree(c)
    BY <1>1 DEF GateInvariant
  <2>2. toolCalls[c] # "none"
    BY <1>1, <2>1 DEF RowsAgree
  <2>3. Granted(c) /\ Started(c)
    BY <1>1, <2>1, <2>2 DEF RowsAgree
  <2>4. toolCalls[c] \notin {"DENIED", "BLOCKED"}
    BY <2>1, <2>3 DEF RowsAgree, Granted
  <2>5. QED  BY <2>2, <2>3, <2>4 DEF Started
<1>2. GateInvariant => AuditPrecedesEffect
  BY <1>1 DEF AuditPrecedesEffect
<1>3. QED  BY <1>2, Invariance, PTL

\* Execution rows, tool-call records and outcome events never disagree.
THEOREM OutcomeSafety == Spec => []OutcomesAgree
<1>1. GateInvariant => OutcomesAgree
  BY DEF GateInvariant, OutcomeRows, OutcomesAgree
<1>2. QED  BY <1>1, Invariance, PTL

\* However many handlers complete a call, one outcome event is published and
\* nothing after it but the overtaken gate's own 'paused'.
THEOREM SingleOutcome == Spec => []OutcomePublishedOnce
<1>1. GateInvariant => OutcomePublishedOnce
  BY DEF GateInvariant, OutcomeRows, OutcomePublishedOnce
<1>2. QED  BY <1>1, Invariance, PTL

----------------------------------------------------------------------------
(* Action property and refinement. *)

\* Which steps write a tool-call record, and from which status.
LEMMA RecordWrites ==
    ASSUME GateInvariant, [Next]_vars, NEW c \in Calls
    PROVE  \/ toolCalls'[c] = toolCalls[c]
           \/ toolCalls[c] = "none" /\ toolCalls'[c] = "STARTED" /\ pc[c] = "begin"
           \/ toolCalls[c] = "STARTED" /\ toolCalls'[c] \in {"DENIED", "BLOCKED", "REQUIRES_APPROVAL"}
           \/ toolCalls[c] = "REQUIRES_APPROVAL" /\ toolCalls'[c] = "RUNNING"
           \/ toolCalls[c] \in {"STARTED", "RUNNING"} /\ toolCalls'[c] \in {"SUCCEEDED", "FAILED"} /\ ran[c] > 0
<1> USE DEF GateInvariant, TypeOK, CallStage, HandlerStage, Transition
<1>1. CASE \E x \in Calls : Begin(x) \/ Refuse(x) \/ RequireApproval(x)
  BY <1>1, ProcsAssumption DEF Begin, Refuse, RequireApproval
<1>2. CASE \E h \in Calls \cup Lookups : ResumeCall(h) \/ Finalize(h)
  BY <1>2, TargetIsCall DEF ResumeCall, Finalize
<1>3. CASE /\ ~ \E x \in Calls : Begin(x) \/ Refuse(x) \/ RequireApproval(x)
           /\ ~ \E h \in Calls \cup Lookups : ResumeCall(h) \/ Finalize(h)
  <2>1. toolCalls' = toolCalls
    BY <1>3 DEF Next, vars, GateStep, ConsoleStep, LookupStep, CompleteStep, Receive,
       SaveExecution, EnqueueStarted, FailExecution, CreateApproval, Pause,
       EnqueuePaused, Elicit, DecideRead, DecideRow, DecideExecution, Poll,
       PollTimeout, RunApproved, ConsoleReceive, ConsoleRead, ConsoleReject,
       ConsoleApprove, LookupRow, LookupExecution, LookupCancel, LookupApprove,
       LookupTool, CallTool, CompleteRead, ReadCall, CompleteExecution,
       EnqueueOutcome, Abort
  <2>2. QED  BY <2>1
<1>4. QED  BY <1>1, <1>2, <1>3

\* A final tool-call record is never rewritten, by any number of completions.
THEOREM RecordsAreFinal == Spec => ToolCallsFinal
<1>1. GateInvariant /\ [Next]_vars =>
          [\A c \in Calls : toolCalls[c] \in FinalToolCall => toolCalls'[c] = toolCalls[c]]_vars
  <2> SUFFICES ASSUME GateInvariant, [Next]_vars, NEW c \in Calls, toolCalls[c] \in FinalToolCall
               PROVE  toolCalls'[c] = toolCalls[c]
    OBVIOUS
  <2>1. QED  BY RecordWrites DEF FinalToolCall
<1>2. QED  BY <1>1, Invariance, PTL DEF Spec, ToolCallsFinal

\* The mapped variables start where GovernedCall starts.
LEMMA InitRefines == Init => Promise!Init
<1> SUFFICES ASSUME Init PROVE Promise!Init
  OBVIOUS
<1>1. verdictBar = [c \in Calls |-> "none"]
  BY DEF Init, verdictBar
<1>2. outcomeBar = [c \in Calls |-> "none"]
  BY DEF Init, outcomeBar
<1>3. [c \in Calls |-> "APPROVED" \in decisions[c]] = [c \in Calls |-> FALSE]
  <2>1. \A c \in Calls : ("APPROVED" \in decisions[c]) = FALSE
    BY DEF Init
  <2>2. QED  BY <2>1, Zenon
<1>4. QED  BY <1>1, <1>2, <1>3 DEF Init, Promise!Init

\* Every step of the protocol is a step of GovernedCall or changes nothing
\* GovernedCall can see.
LEMMA StepRefines ==
    ASSUME GateInvariant, [Next]_vars
    PROVE  [Promise!Next]_(Promise!vars)
<1> DEFINE approvedBar == [c \in Calls |-> "APPROVED" \in decisions[c]]
<1> USE DEF GateInvariant
<1>1. ASSUME NEW c \in Calls, Begin(c) PROVE Promise!Admit(c)
  <2>1. toolCalls[c] = "none" /\ tool[c] \in Tools
    BY <1>1 DEF Begin, CallStage
  <2>2. verdictBar[c] = "none"
    BY <2>1 DEF verdictBar
  <2>3. PICK v \in {"allow", "pause", "refuse"} :
            v = IF Verdict(tool[c]) \in {"deny", "block"} THEN "refuse" ELSE Verdict(tool[c])
    BY VerdictType
  <2>4. verdictBar' = [verdictBar EXCEPT ![c] = v]
    BY <1>1, <2>1, <2>3 DEF Begin, verdictBar, TypeOK, Verdict, checkToolAccess
  <2>5. outcomeBar' = outcomeBar /\ UNCHANGED <<ran, paused, presumed>> /\ approvedBar' = approvedBar
    BY <1>1, <2>1 DEF Begin, outcomeBar, TypeOK
  <2>6. QED  BY <2>2, <2>4, <2>5 DEF Promise!Admit
<1>2. ASSUME NEW c \in Calls, NEW dec \in Decision, approvals[c] # "none",
             decisions' = [decisions EXCEPT ![c] = @ \cup {dec}],
             UNCHANGED <<toolCalls, tool, ran, paused, presumed>>
      PROVE  Promise!Approve(c) \/ UNCHANGED Promise!vars
  <2>1. verdictBar[c] = "pause"
    BY <1>2 DEF RowsAgree, verdictBar
  <2>2. verdictBar' = verdictBar /\ outcomeBar' = outcomeBar /\ UNCHANGED <<ran, paused, presumed>>
    BY <1>2 DEF verdictBar, outcomeBar, Verdict, checkToolAccess
  <2>3. CASE dec = "APPROVED"
    <3>1. approvedBar' = [approvedBar EXCEPT ![c] = TRUE]
      BY <1>2, <2>3 DEF TypeOK
    <3>2. QED  BY <2>1, <2>2, <3>1 DEF Promise!Approve
  <2>4. CASE dec # "APPROVED"
    <3>1. approvedBar' = approvedBar
      BY <1>2, <2>4 DEF TypeOK
    <3>2. QED  BY <2>2, <3>1 DEF Promise!vars
  <2>5. QED  BY <2>3, <2>4
<1>3. ASSUME NEW h \in Calls \cup Lookups, CallTool(h) PROVE Promise!Run(target[h])
  <2>1. target[h] \in Calls /\ toolCalls[target[h]] # "none" /\ Granted(target[h])
    BY <1>3, TargetIsCall DEF CallTool, HandlerStage
  <2>2. Promise!Granted(target[h])
    BY <2>1 DEF Promise!Granted, Granted, verdictBar
  <2>3. ran' = [ran EXCEPT ![target[h]] = @ + 1]
    BY <1>3 DEF CallTool
  <2>4. /\ verdictBar' = verdictBar /\ outcomeBar' = outcomeBar /\ approvedBar' = approvedBar
        /\ UNCHANGED <<paused, presumed>>
    BY <1>3 DEF CallTool, verdictBar, outcomeBar, Verdict, checkToolAccess
  <2>5. QED  BY <2>2, <2>3, <2>4 DEF Promise!Run
<1>4. ASSUME NEW h \in Calls \cup Lookups, Finalize(h)
      PROVE  Promise!Record(target[h]) \/ UNCHANGED Promise!vars
  <2>1. target[h] \in Calls /\ ran[target[h]] > 0 /\ toolCalls[target[h]] # "none"
    BY <1>4, TargetIsCall DEF Finalize, HandlerStage
  <2>2. /\ UNCHANGED <<ran, paused, presumed>> /\ approvedBar' = approvedBar
        /\ verdictBar' = verdictBar
    BY <1>4, <2>1 DEF Finalize, Transition, verdictBar, TypeOK, Verdict, checkToolAccess
  <2>3. CASE toolCalls[target[h]] \in {"STARTED", "RUNNING"}
    <3>1. outcomeBar[target[h]] = "none"
      BY <2>1, <2>3 DEF outcomeBar
    <3>2. outcomeBar' = [outcomeBar EXCEPT ![target[h]] =
                            IF ok[h] THEN "success" ELSE "failure"]
      BY <1>4, <2>1, <2>3 DEF Finalize, Transition, outcomeBar, TypeOK
    <3>3. QED  BY <2>1, <2>2, <3>1, <3>2 DEF Promise!Record
  <2>4. CASE toolCalls[target[h]] \notin {"STARTED", "RUNNING"}
    <3>1. toolCalls' = toolCalls
      BY <1>4, <2>4 DEF Finalize, Transition, TypeOK
    <3>2. outcomeBar' = outcomeBar
      BY <3>1 DEF outcomeBar
    <3>3. QED  BY <2>2, <3>2 DEF Promise!vars
  <2>5. QED  BY <2>3, <2>4
<1>5. ASSUME NEW c \in Calls, Receive(c) PROVE UNCHANGED Promise!vars
  <2>1. toolCalls[c] = "none"
    BY <1>5 DEF Receive, CallStage
  <2>2. verdictBar' = verdictBar
    BY <1>5, <2>1 DEF Receive, verdictBar, TypeOK, Verdict, checkToolAccess
  <2>3. /\ outcomeBar' = outcomeBar /\ approvedBar' = approvedBar
        /\ UNCHANGED <<ran, paused, presumed>>
    BY <1>5 DEF Receive, outcomeBar
  <2>4. QED  BY <2>2, <2>3 DEF Promise!vars
<1>6. ASSUME UNCHANGED <<tool, ran, decisions, paused, presumed>>,
             \A c \in Calls :
                 \/ toolCalls'[c] = toolCalls[c]
                 \/ /\ toolCalls[c] \in {"STARTED", "REQUIRES_APPROVAL"}
                    /\ toolCalls'[c] \in {"DENIED", "BLOCKED", "REQUIRES_APPROVAL", "RUNNING"}
      PROVE  UNCHANGED Promise!vars
  <2>1. verdictBar' = verdictBar
    BY <1>6 DEF verdictBar, Verdict, checkToolAccess
  <2>2. outcomeBar' = outcomeBar
    BY <1>6 DEF outcomeBar
  <2>3. QED  BY <1>6, <2>1, <2>2 DEF Promise!vars
<1>7. ASSUME NEW c \in Calls, Refuse(c) \/ RequireApproval(c) PROVE UNCHANGED Promise!vars
  BY <1>6, <1>7 DEF Refuse, RequireApproval, Transition, TypeOK
<1>8. ASSUME NEW h \in Calls \cup Lookups, ResumeCall(h) PROVE UNCHANGED Promise!vars
  BY <1>6, <1>8 DEF ResumeCall, Transition, TypeOK
<1>9. ASSUME NEW c \in Calls, Elicit(c)
      PROVE  Promise!Approve(c) \/ UNCHANGED Promise!vars
  <2>1. PICK dec \in Decision : decisions' = [decisions EXCEPT ![c] = @ \cup {dec}]
    BY <1>9 DEF Elicit
  <2>2. approvals[c] # "none"
    BY <1>9 DEF Elicit, CallStage
  <2>3. QED  BY <1>2, <1>9, <2>1, <2>2 DEF Elicit
<1>10. ASSUME NEW d \in Deciders, ConsoleReceive(d)
       PROVE  Promise!Next \/ UNCHANGED Promise!vars
  <2>1. PICK c \in Calls, dec \in Decision :
            /\ approvals[c] # "none"
            /\ decisions' = [decisions EXCEPT ![c] = @ \cup {dec}]
    BY <1>10 DEF ConsoleReceive
  <2>2. Promise!Approve(c) \/ UNCHANGED Promise!vars
    BY <1>2, <1>10, <2>1 DEF ConsoleReceive
  <2>3. QED  BY <2>2 DEF Promise!Next
<1>11. ASSUME NEW c \in Calls, Pause(c) PROVE Promise!Pause(c)
  <2>1. verdictBar[c] = "pause"
    BY <1>11 DEF Pause, CallStage, verdictBar
  <2>2. /\ verdictBar' = verdictBar /\ outcomeBar' = outcomeBar /\ approvedBar' = approvedBar
        /\ UNCHANGED <<ran, presumed>> /\ paused' = paused \cup {c}
    BY <1>11 DEF Pause, verdictBar, outcomeBar, Verdict, checkToolAccess
  <2>3. QED  BY <2>1, <2>2 DEF Promise!Pause
<1>12. ASSUME NEW l \in Lookups, LookupExecution(l)
       PROVE  Promise!Presume(target[l]) \/ UNCHANGED Promise!vars
  <2>1. target[l] \in Calls /\ approvals[target[l]] # "none"
    BY <1>12 DEF LookupExecution, HandlerStage, TypeOK
  <2>2. verdictBar[target[l]] = "pause"
    BY <2>1 DEF RowsAgree, verdictBar
  <2>3. /\ verdictBar' = verdictBar /\ outcomeBar' = outcomeBar /\ approvedBar' = approvedBar
        /\ UNCHANGED <<ran, paused>>
    BY <1>12 DEF LookupExecution, verdictBar, outcomeBar, Verdict, checkToolAccess
  <2>4. \/ presumed' = presumed
        \/ target[l] \notin paused /\ presumed' = presumed \cup {target[l]}
    BY <1>12 DEF LookupExecution
  <2>5. QED  BY <2>1, <2>2, <2>3, <2>4 DEF Promise!Presume, Promise!vars
<1>13. CASE UNCHANGED <<toolCalls, tool, ran, decisions, paused, presumed>>
  <2>1. UNCHANGED Promise!vars
    BY <1>6, <1>13
  <2>2. QED  BY <2>1
<1>14. CASE ~ UNCHANGED <<toolCalls, tool, ran, decisions, paused, presumed>>
  <2>1. \/ \E c \in Calls : Receive(c) \/ Begin(c) \/ Refuse(c) \/ RequireApproval(c) \/ Elicit(c) \/ Pause(c)
        \/ \E l \in Lookups : LookupExecution(l)
        \/ \E d \in Deciders : ConsoleReceive(d)
        \/ \E h \in Calls \cup Lookups : CallTool(h) \/ ResumeCall(h) \/ Finalize(h)
    BY <1>14 DEF Next, vars, GateStep, ConsoleStep, LookupStep, CompleteStep,
       SaveExecution, EnqueueStarted, FailExecution, CreateApproval,
       EnqueuePaused, DecideRead, DecideRow, DecideExecution, Poll, PollTimeout,
       RunApproved, ConsoleRead, ConsoleReject, ConsoleApprove, LookupRow,
       LookupCancel, LookupApprove, LookupTool, CompleteRead,
       ReadCall, CompleteExecution, EnqueueOutcome, Abort
  <2>2. \A l \in Lookups : LookupExecution(l) => target[l] \in Calls
    BY DEF LookupExecution, HandlerStage
  <2>3. QED
    BY <2>1, <1>1, <1>3, <1>4, <1>5, <1>7, <1>8, <1>9, <1>10, <1>11, <1>12, <2>2, TargetIsCall
       DEF Promise!Next, CallTool, Finalize
<1>15. QED  BY <1>13, <1>14

\* The gate, console, gateway and client together implement GovernedCall, for
\* every policy and any number of requests and faults.
THEOREM Refinement == Spec => ImplementsGovernedCall
<1>1. GateInvariant /\ [Next]_vars => [Promise!Next]_(Promise!vars)
  BY StepRefines
<1>2. QED
  BY <1>1, InitRefines, Invariance, PTL DEF Spec, ImplementsGovernedCall, Promise!Spec

=============================================================================
