------------------------ MODULE ApprovalEngineProofs ------------------------
(***************************************************************************)
(* TLAPS proofs about ApprovalEngine: for any number of instances, steps,  *)
(* decisions, timeouts, reconfigurations and faults, no step of a process  *)
(* is skipped, racing decisions undo nothing and an agent is resumed once. *)
(***************************************************************************)
EXTENDS ApprovalEngine, TLAPS

USE DEF At, Goto, Procs

----------------------------------------------------------------------------
(* What the operators on rows return *)

\* A sequence is a function on the numbers up to its length.
LEMMA SequenceIsFunction ==
    ASSUME NEW S, NEW s \in Seq(S)
    PROVE  s \in [1..Len(s) -> S] /\ Len(s) \in Nat /\ DOMAIN s = 1..Len(s)
  OBVIOUS

\* And conversely.
LEMMA SequenceOfFunction ==
    ASSUME NEW S, NEW n \in Nat, NEW f \in [1..n -> S]
    PROVE  f \in Seq(S)
  OBVIOUS

\* Appending keeps what was there and adds the element at the end.
LEMMA AppendKeeps ==
    ASSUME NEW S, NEW s \in Seq(S), NEW e \in S
    PROVE  /\ Append(s, e) \in Seq(S)
           /\ \A n \in DOMAIN s : n \in DOMAIN Append(s, e) /\ Append(s, e)[n] = s[n]
           /\ \A n \in DOMAIN Append(s, e) : n \in DOMAIN s \/ Append(s, e)[n] = e
           /\ Len(s) + 1 \in DOMAIN Append(s, e) /\ Append(s, e)[Len(s) + 1] = e
           /\ \A m, n \in DOMAIN Append(s, e) \ DOMAIN s : m = n
  OBVIOUS

\* The history of row `new` is that of `row` and one more entry.
Extends(new, row, act, actor) ==
    /\ \A n \in DOMAIN row.history :
           n \in DOMAIN new.history /\ new.history[n] = row.history[n]
    /\ \E n \in DOMAIN new.history :
           /\ new.history[n].step = row.step
           /\ new.history[n].action = act
           /\ new.history[n].actor = actor

\* A write records one entry about the current step, and otherwise either
\* advances a step or sets the status.
Wrote(new, row, act, actor) ==
    /\ new \in Row
    /\ Extends(new, row, act, actor)
    /\ \/ new.status = row.status /\ new.step = row.step + 1
       \/ new.status = act /\ new.step = row.step

LEMMA RecordedKeeps ==
    ASSUME NEW row \in Row, NEW act \in Action, NEW actor \in Users \cup {"system"}
    PROVE  /\ Recorded(row, act, actor) \in Row
           /\ Recorded(row, act, actor).status = row.status
           /\ Recorded(row, act, actor).step = row.step
           /\ Extends(Recorded(row, act, actor), row, act, actor)
<1> DEFINE e == [step |-> row.step, action |-> act, actor |-> actor]
           new == [row EXCEPT !.history = Append(row.history, e)]
<1>1. row.step \in Nat /\ row.history \in Seq(Entry) /\ row.status \in Status \cup {"none"}
  BY DEF Row
<1>2. e \in Entry /\ e.step = row.step /\ e.action = act /\ e.actor = actor
  BY <1>1 DEF Entry
<1> HIDE DEF e
<1>3. /\ Append(row.history, e) \in Seq(Entry)
      /\ \A n \in DOMAIN row.history :
             n \in DOMAIN Append(row.history, e) /\ Append(row.history, e)[n] = row.history[n]
      /\ Len(row.history) + 1 \in DOMAIN Append(row.history, e)
      /\ Append(row.history, e)[Len(row.history) + 1] = e
  BY <1>1, <1>2, AppendKeeps
<1>4. new \in Row /\ new.history = Append(row.history, e)
      /\ new.step = row.step /\ new.status = row.status
  BY <1>1, <1>3 DEF Row
<1>5. Recorded(row, act, actor) = new
  BY DEF Recorded, e
<1> HIDE DEF new
<1>6. Extends(new, row, act, actor)
  BY <1>2, <1>3, <1>4 DEF Extends
<1>7. QED  BY <1>4, <1>5, <1>6

Moved(row) == [row EXCEPT !.step = @ + 1]
Ended(row, act) == [row EXCEPT !.status = act]

\* Moving a recorded row on, or deciding it, is a write.
LEMMA RecordedWrites ==
    ASSUME NEW row \in Row, NEW act \in Action, NEW actor \in Users \cup {"system"}
    PROVE  /\ Wrote(Moved(Recorded(row, act, actor)), row, act, actor)
           /\ Moved(Recorded(row, act, actor)).step = row.step + 1
           /\ Moved(Recorded(row, act, actor)).status = row.status
           /\ Wrote(Ended(Recorded(row, act, actor), act), row, act, actor)
           /\ Ended(Recorded(row, act, actor), act).step = row.step
           /\ Ended(Recorded(row, act, actor), act).status = act
<1> DEFINE rec == Recorded(row, act, actor)
           next == Moved(rec)
           last == Ended(rec, act)
<1>1. rec \in Row /\ rec.status = row.status /\ rec.step = row.step
      /\ Extends(rec, row, act, actor)
  BY RecordedKeeps
<1> HIDE DEF rec
<1>2. next \in Row /\ next.step = row.step + 1 /\ next.status = row.status
      /\ next.history = rec.history
  BY <1>1 DEF Row, Moved
<1>3. last \in Row /\ last.step = row.step /\ last.status = act /\ last.history = rec.history
  BY <1>1 DEF Row, Status, Ended
<1> HIDE DEF next, last
<1>4. Extends(next, row, act, actor) /\ Extends(last, row, act, actor)
  BY <1>1, <1>2, <1>3 DEF Extends
<1>5. Wrote(next, row, act, actor) /\ Wrote(last, row, act, actor)
  BY <1>2, <1>3, <1>4 DEF Wrote
<1>6. QED  BY <1>2, <1>3, <1>5 DEF next, last, rec

\* processDecision's new row is a write; it advances only while steps follow.
LEMMA DecidedWrites ==
    ASSUME NEW row \in Row, NEW plan \in Seq(Step), NEW act \in Action, NEW user \in Users
    PROVE  /\ Wrote(Decided(row, plan, act, user), row, act, user)
           /\ IF act = "APPROVED" /\ row.step + 1 < Len(plan)
              THEN /\ Decided(row, plan, act, user).step = row.step + 1
                   /\ Decided(row, plan, act, user).status = row.status
              ELSE /\ Decided(row, plan, act, user).step = row.step
                   /\ Decided(row, plan, act, user).status = act
<1>1. user \in Users \cup {"system"}
  OBVIOUS
<1> DEFINE rec == Recorded(row, act, user)
           next == Moved(rec)
           last == Ended(rec, act)
<1>2. /\ Wrote(next, row, act, user) /\ next.step = row.step + 1 /\ next.status = row.status
      /\ Wrote(last, row, act, user) /\ last.step = row.step /\ last.status = act
  BY <1>1, RecordedWrites
<1>3. Decided(row, plan, act, user) =
          IF act = "APPROVED" /\ row.step + 1 < Len(plan) THEN next ELSE last
  BY DEF Decided, Moved, Ended
<1> HIDE DEF next, last
<1>4. QED  BY <1>2, <1>3

\* So is processTimeout's; it advances only by an escalation.
LEMMA TimedOutWrites ==
    ASSUME NEW row \in Row, NEW plan \in Seq(Step)
    PROVE  /\ Wrote(TimedOut(row, plan), row, "REJECTED", "system")
           /\ IF row.step + 1 < Len(plan) /\ plan[row.step + 1].onTimeout = "escalate"
              THEN TimedOut(row, plan).step = row.step + 1 /\ TimedOut(row, plan).status = row.status
              ELSE TimedOut(row, plan).step = row.step /\ TimedOut(row, plan).status = "REJECTED"
<1>1. "REJECTED" \in Action /\ "system" \in Users \cup {"system"}
  BY DEF Action
<1> DEFINE rec == Recorded(row, "REJECTED", "system")
           next == Moved(rec)
           last == Ended(rec, "REJECTED")
<1>2. /\ Wrote(next, row, "REJECTED", "system")
      /\ next.step = row.step + 1 /\ next.status = row.status
      /\ Wrote(last, row, "REJECTED", "system")
      /\ last.step = row.step /\ last.status = "REJECTED"
  BY <1>1, RecordedWrites
<1>3. TimedOut(row, plan) =
          IF row.step + 1 < Len(plan) /\ plan[row.step + 1].onTimeout = "escalate"
          THEN next ELSE last
  BY DEF TimedOut, Moved, Ended
<1> HIDE DEF next, last
<1>4. QED  BY <1>2, <1>3

----------------------------------------------------------------------------
(* The invariants *)

\* Labels at which a handler still has to write the row it read.
DecideLabel == {"decisionSteps", "decisionSave"}
HoldLabel == DecideLabel \cup {"timeoutSteps", "timeoutSave"}
TargetLabel == HoldLabel \cup {"decisionEmit", "decisionLog", "timeoutEscalated", "timeoutLog",
                               "timeoutTerminate"}

\* What a handler has in hand at each of its awaits.
InHand(p) ==
    /\ pc[p] \in TargetLabel => target[p] \in Instances
    /\ pc[p] \in HoldLabel => seen[p].status = "PENDING" /\ rows[target[p]].status # "none"
    /\ pc[p] \in DecideLabel => who[p] \in Users /\ action[p] \in Action

\* An agent approval has no row before it is created.
NotCreated == \A i \in Instances : isAgentApproval(i) /\ pc[i] = "idle" => rows[i] = NoRow

\* The part every proof needs.
HandlerInvariant ==
    /\ TypeOK
    /\ NotCreated
    /\ \A p \in Procs : InHand(p)

\* Every step below the row's was approved or escalated, and it is APPROVED
\* only by the last one.
Dealt(row) ==
    /\ row.step = 0 \/ row.step < Len(InitSteps)
    /\ \A k \in 0..(Len(InitSteps) - 1) :
           k < row.step => ApprovedStep(row, k) \/ EscalatedStep(row, k)
    /\ row.status = "APPROVED" /\ InitSteps # <<>> =>
           /\ row.step = Len(InitSteps) - 1
           /\ ApprovedStep(row, row.step)

\* Until a reconfiguration the steps are the initial ones, for the handlers
\* under way too, and both the rows and what handlers read of them are sound.
ProcessInvariant ==
    ~reconfigured =>
        /\ steps = InitSteps
        /\ \A p \in Procs : pc[p] # "saveSteps"
        /\ \A i \in Instances : KindOf[i] = "process" => Dealt(rows[i])
        /\ \A p \in Procs : pc[p] \in HoldLabel /\ KindOf[target[p]] = "process" =>
               /\ Dealt(seen[p])
               /\ pc[p] \in {"decisionSave", "timeoutSave"} => seenSteps[p] = InitSteps
               /\ pc[p] = "decisionSave" => CanApprove(InitSteps, seen[p].step, who[p])

\* Until a stale write, a row still PENDING at the step a handler read is the
\* row it read: every write moves the step or decides.
FreshInvariant ==
    ~stale =>
        \A p \in Procs : pc[p] \in HoldLabel =>
            /\ seen[p].step <= rows[target[p]].step
            /\ rows[target[p]].status = "PENDING" /\ rows[target[p]].step = seen[p].step =>
                   rows[target[p]] = seen[p]

Resumed(i) == \E n \in DOMAIN events[i] : events[i][n] = "resume"
Resuming(p, i) == pc[p] = "decisionEmit" /\ target[p] = i

\* An agent approval is decided by one decider, which is the one to resume
\* the agent, and has not done so yet; a process instance resumes nobody.
ResumeInvariant ==
    /\ \A p \in Procs : pc[p] \in {"decisionSave", "timeoutSave"} /\ isAgentApproval(target[p]) =>
           seenSteps[p] = <<>>
    /\ \A i \in Instances : isAgentApproval(i) =>
           /\ \A p \in Procs : Resuming(p, i) => rows[i].status \in Action /\ ~Resumed(i)
           /\ \A p, q \in Procs : Resuming(p, i) /\ Resuming(q, i) => p = q
           /\ Resumed(i) => rows[i].status \in Action
    /\ \A i \in Instances : ~isAgentApproval(i) => ~Resumed(i)
    /\ AgentResumedOnce

----------------------------------------------------------------------------
(* HandlerInvariant is inductive *)

\* A step of p leaves the other handlers where they are.
OthersStay(p) ==
    /\ pc'[p] # "idle"
    /\ \A q \in Procs \ {p} :
           /\ pc'[q] = pc[q] /\ target'[q] = target[q] /\ seen'[q] = seen[q]
           /\ seenSteps'[q] = seenSteps[q] /\ who'[q] = who[q] /\ action'[q] = action[q]

\* Only the handler that creates a row writes where there is none.
RowsStay(p) ==
    \A i \in Instances :
        \/ rows'[i] = rows[i]
        \/ rows'[i].status # "none" /\ (rows[i].status # "none" \/ i = p)

\* What is left to show of a step.
LEMMA HandlerStep ==
    ASSUME HandlerInvariant, NEW p \in Procs, OthersStay(p), RowsStay(p), TypeOK', InHand(p)'
    PROVE  HandlerInvariant'
<1>1. NotCreated'
  <2>1. SUFFICES ASSUME NEW i \in Instances, isAgentApproval(i), pc'[i] = "idle"
                 PROVE  rows'[i] = NoRow
    BY DEF NotCreated, isAgentApproval
  <2>2. i # p /\ pc[i] = "idle"
    BY <2>1 DEF OthersStay
  <2>3. rows[i] = NoRow /\ rows[i].status = "none"
    BY <2>1, <2>2 DEF HandlerInvariant, NotCreated, NoRow
  <2>4. QED  BY <2>2, <2>3 DEF RowsStay
<1>2. ASSUME NEW q \in Procs \ {p} PROVE InHand(q)'
  <2>1. InHand(q)
    BY DEF HandlerInvariant
  <2>2. /\ pc'[q] = pc[q] /\ target'[q] = target[q] /\ seen'[q] = seen[q]
        /\ who'[q] = who[q] /\ action'[q] = action[q]
    BY DEF OthersStay
  <2>3. pc[q] \in HoldLabel => rows'[target[q]].status # "none"
    BY <2>1 DEF InHand, RowsStay, HoldLabel, TargetLabel
  <2>4. QED  BY <2>1, <2>2, <2>3 DEF InHand
<1>3. QED  BY <1>1, <1>2 DEF HandlerInvariant

\* The same of a step that writes no row.
LEMMA HandlerQuietStep ==
    ASSUME HandlerInvariant, NEW p \in Procs, OthersStay(p), rows' = rows, TypeOK', InHand(p)'
    PROVE  HandlerInvariant'
<1>1. RowsStay(p)  BY DEF RowsStay
<1>2. QED  BY <1>1, HandlerStep

\* Events stay well typed.
LEMMA EmitTyped ==
    ASSUME TypeOK, NEW i \in Instances, NEW e \in Event, Emit(i, e)
    PROVE  events' \in [Instances -> Seq(Event)]
<1>1. events[i] \in Seq(Event) /\ Append(events[i], e) \in Seq(Event)
  BY DEF TypeOK
<1>2. QED  BY <1>1 DEF Emit, TypeOK

\* The approval is announced.
LEMMA AnnounceCreatedHandler ==
    ASSUME HandlerInvariant, NEW i \in Instances, AnnounceCreated(i)
    PROVE  HandlerInvariant'
<1> USE DEF AnnounceCreated, locals, ghosts
<1>1. i \in Procs /\ TypeOK /\ InHand(i)
  BY DEF HandlerInvariant
<1>2. TypeOK'
  BY <1>1, EmitTyped DEF TypeOK, Label, Event
<1>3. OthersStay(i) /\ rows' = rows
  BY <1>1 DEF OthersStay, TypeOK
<1>4. InHand(i)'
  BY <1>1 DEF InHand, TypeOK, TargetLabel, HoldLabel, DecideLabel
<1>5. QED  BY <1>1, <1>2, <1>3, <1>4, HandlerQuietStep

\* Its guardrail log is inserted.
LEMMA LogPendingHandler ==
    ASSUME HandlerInvariant, NEW i \in Instances, LogPending(i)
    PROVE  HandlerInvariant'
<1> USE DEF LogPending, locals, ghosts
<1>1. i \in Procs /\ TypeOK /\ InHand(i)
  BY DEF HandlerInvariant
<1>2. TypeOK'
  BY <1>1 DEF TypeOK, Label, Finished
<1>3. OthersStay(i) /\ rows' = rows
  BY <1>1 DEF OthersStay, TypeOK
<1>4. InHand(i)'
  BY <1>1 DEF InHand, TypeOK, TargetLabel, HoldLabel, DecideLabel
<1>5. QED  BY <1>1, <1>2, <1>3, <1>4, HandlerQuietStep

\* processDecision reads the steps and checks the approver.
LEMMA DecisionStepsHandler ==
    ASSUME HandlerInvariant, NEW d \in Deciders, DecisionSteps(d)
    PROVE  HandlerInvariant'
<1> USE DEF DecisionSteps, tables, ghosts
<1>1. d \in Procs /\ TypeOK /\ InHand(d)
  BY DEF HandlerInvariant
<1>2. TypeOK'
  <2>1. getStepsForInstance(target[d]) \in Seq(Step)
    BY <1>1 DEF TypeOK, getStepsForInstance
  <2>2. seenSteps' \in [Procs -> Seq(Step)] /\ pc' \in [Procs -> Label]
    BY <1>1, <2>1 DEF TypeOK, Label, Finished
  <2>3. QED  BY <1>1, <2>2 DEF TypeOK
<1>3. OthersStay(d) /\ rows' = rows
  BY <1>1 DEF OthersStay, TypeOK
<1>4. InHand(d)'
  BY <1>1 DEF InHand, TypeOK, TargetLabel, HoldLabel, DecideLabel
<1>5. QED  BY <1>1, <1>2, <1>3, <1>4, HandlerQuietStep

\* The decision is announced.
LEMMA DecisionEmitHandler ==
    ASSUME HandlerInvariant, NEW d \in Deciders, DecisionEmit(d)
    PROVE  HandlerInvariant'
<1> USE DEF DecisionEmit, locals, ghosts
<1>1. d \in Procs /\ TypeOK /\ InHand(d)
  BY DEF HandlerInvariant
<1>2. TypeOK'
  <2>1. target[d] \in Instances
    BY <1>1 DEF InHand, TargetLabel
  <2>2. events' = events \/ \E e \in Event : Emit(target[d], e)
    BY DEF Event
  <2>3. events' \in [Instances -> Seq(Event)]
    BY <1>1, <2>1, <2>2, EmitTyped DEF TypeOK
  <2>4. pc' \in [Procs -> Label]
    BY <1>1 DEF TypeOK, Label, Finished
  <2>5. QED  BY <1>1, <2>3, <2>4 DEF TypeOK
<1>3. OthersStay(d) /\ rows' = rows
  BY <1>1 DEF OthersStay, TypeOK
<1>4. InHand(d)'
  BY <1>1 DEF InHand, TypeOK, TargetLabel, HoldLabel, DecideLabel
<1>5. QED  BY <1>1, <1>2, <1>3, <1>4, HandlerQuietStep

\* The guardrail log follows the decision.
LEMMA DecisionLogHandler ==
    ASSUME HandlerInvariant, NEW d \in Deciders, DecisionLog(d)
    PROVE  HandlerInvariant'
<1> USE DEF DecisionLog, UpdateLog, locals, ghosts
<1>1. d \in Procs /\ TypeOK /\ InHand(d)
  BY DEF HandlerInvariant
<1>2. TypeOK'
  BY <1>1 DEF TypeOK, Label, Finished, InHand, TargetLabel
<1>3. OthersStay(d) /\ rows' = rows
  BY <1>1 DEF OthersStay, TypeOK
<1>4. InHand(d)'
  BY <1>1 DEF InHand, TypeOK, TargetLabel, HoldLabel, DecideLabel
<1>5. QED  BY <1>1, <1>2, <1>3, <1>4, HandlerQuietStep

\* processTimeout reads the steps.
LEMMA TimeoutStepsHandler ==
    ASSUME HandlerInvariant, NEW t \in Timers, TimeoutSteps(t)
    PROVE  HandlerInvariant'
<1> USE DEF TimeoutSteps, tables, ghosts
<1>1. t \in Procs /\ TypeOK /\ InHand(t)
  BY DEF HandlerInvariant
<1>2. TypeOK'
  <2>1. getStepsForInstance(target[t]) \in Seq(Step)
    BY <1>1 DEF TypeOK, getStepsForInstance
  <2>2. seenSteps' \in [Procs -> Seq(Step)] /\ pc' \in [Procs -> Label]
    BY <1>1, <2>1 DEF TypeOK, Label
  <2>3. QED  BY <1>1, <2>2 DEF TypeOK
<1>3. OthersStay(t) /\ rows' = rows
  BY <1>1 DEF OthersStay, TypeOK
<1>4. InHand(t)'
  BY <1>1 DEF InHand, TypeOK, TargetLabel, HoldLabel, DecideLabel
<1>5. QED  BY <1>1, <1>2, <1>3, <1>4, HandlerQuietStep

\* An escalation is announced.
LEMMA TimeoutEscalatedHandler ==
    ASSUME HandlerInvariant, NEW t \in Timers, TimeoutEscalated(t)
    PROVE  HandlerInvariant'
<1> USE DEF TimeoutEscalated, locals, ghosts
<1>1. t \in Procs /\ TypeOK /\ InHand(t)
  BY DEF HandlerInvariant
<1>2. TypeOK'
  BY <1>1, EmitTyped DEF TypeOK, Label, Finished, Event, InHand, TargetLabel
<1>3. OthersStay(t) /\ rows' = rows
  BY <1>1 DEF OthersStay, TypeOK
<1>4. InHand(t)'
  BY <1>1 DEF InHand, TypeOK, TargetLabel, HoldLabel, DecideLabel
<1>5. QED  BY <1>1, <1>2, <1>3, <1>4, HandlerQuietStep

\* The guardrail log follows the timeout.
LEMMA TimeoutLogHandler ==
    ASSUME HandlerInvariant, NEW t \in Timers, TimeoutLog(t)
    PROVE  HandlerInvariant'
<1> USE DEF TimeoutLog, UpdateLog, locals, ghosts
<1>1. t \in Procs /\ TypeOK /\ InHand(t)
  BY DEF HandlerInvariant
<1>2. TypeOK'
  BY <1>1 DEF TypeOK, Label, InHand, TargetLabel
<1>3. OthersStay(t) /\ rows' = rows
  BY <1>1 DEF OthersStay, TypeOK
<1>4. InHand(t)'
  BY <1>1 DEF InHand, TypeOK, TargetLabel, HoldLabel, DecideLabel
<1>5. QED  BY <1>1, <1>2, <1>3, <1>4, HandlerQuietStep

\* The agent is told of the timeout.
LEMMA TimeoutTerminateHandler ==
    ASSUME HandlerInvariant, NEW t \in Timers, TimeoutTerminate(t)
    PROVE  HandlerInvariant'
<1> USE DEF TimeoutTerminate, locals, ghosts
<1>1. t \in Procs /\ TypeOK /\ InHand(t)
  BY DEF HandlerInvariant
<1>2. TypeOK'
  BY <1>1, EmitTyped DEF TypeOK, Label, Finished, Event, InHand, TargetLabel
<1>3. OthersStay(t) /\ rows' = rows
  BY <1>1 DEF OthersStay, TypeOK
<1>4. InHand(t)'
  BY <1>1 DEF InHand, TypeOK, TargetLabel, HoldLabel, DecideLabel
<1>5. QED  BY <1>1, <1>2, <1>3, <1>4, HandlerQuietStep

\* configureSteps deletes the steps ...
LEMMA DeleteStepsHandler ==
    ASSUME HandlerInvariant, NEW a \in Admins, DeleteSteps(a)
    PROVE  HandlerInvariant'
<1> USE DEF DeleteSteps, locals
<1>1. a \in Procs /\ TypeOK /\ InHand(a)
  BY DEF HandlerInvariant
<1>2. TypeOK'
  BY <1>1 DEF TypeOK, Label
<1>3. OthersStay(a) /\ rows' = rows
  BY <1>1 DEF OthersStay, TypeOK
<1>4. InHand(a)'
  BY <1>1 DEF InHand, TypeOK, TargetLabel, HoldLabel, DecideLabel
<1>5. QED  BY <1>1, <1>2, <1>3, <1>4, HandlerQuietStep

\* ... and inserts others, read back in step order.
LEMMA SaveStepsHandler ==
    ASSUME HandlerInvariant, NEW a \in Admins, SaveSteps(a)
    PROVE  HandlerInvariant'
<1> USE DEF SaveSteps, locals, ghosts
<1>1. a \in Procs /\ TypeOK /\ InHand(a)
  BY DEF HandlerInvariant
<1>2. TypeOK'
  <2>1. PICK plan \in Plans : \E place \in Bijection(DOMAIN (steps \o plan), DOMAIN (steps \o plan)) :
            steps' = [n \in DOMAIN (steps \o plan) |-> (steps \o plan)[place[n]]]
    OBVIOUS
  <2> DEFINE stored == steps \o plan
  <2>2. stored \in Seq(Step)
    BY <1>1, StepsAssumption DEF TypeOK
  <2>3. PICK place \in Bijection(DOMAIN stored, DOMAIN stored) :
            steps' = [n \in DOMAIN stored |-> stored[place[n]]]
    BY <2>1
  <2> HIDE DEF stored
  <2>4. place \in [DOMAIN stored -> DOMAIN stored]
    BY DEF Bijection, Injection
  <2>5. stored \in [1..Len(stored) -> Step] /\ Len(stored) \in Nat /\ DOMAIN stored = 1..Len(stored)
    BY <2>2, SequenceIsFunction
  <2>6. steps' \in [1..Len(stored) -> Step]
    BY <2>3, <2>4, <2>5
  <2>7. steps' \in Seq(Step)
    BY <2>5, <2>6, SequenceOfFunction
  <2>8. pc' \in [Procs -> Label]
    BY <1>1 DEF TypeOK, Label, Finished
  <2>9. QED  BY <1>1, <2>7, <2>8 DEF TypeOK
<1>3. OthersStay(a) /\ rows' = rows
  BY <1>1 DEF OthersStay, TypeOK
<1>4. InHand(a)'
  BY <1>1 DEF InHand, TypeOK, TargetLabel, HoldLabel, DecideLabel
<1>5. QED  BY <1>1, <1>2, <1>3, <1>4, HandlerQuietStep

\* A handler is cut off.
LEMMA AbortHandler ==
    ASSUME HandlerInvariant, NEW p \in Procs, Abort(p)
    PROVE  HandlerInvariant'
<1> USE DEF Abort, tables, locals, ghosts
<1>1. p \in Procs /\ TypeOK /\ InHand(p)
  BY DEF HandlerInvariant
<1>2. TypeOK'
  <2>1. faults' \in 0..MaxFaults
    BY <1>1, InstancesAssumption DEF TypeOK
  <2>2. pc' \in [Procs -> Label]
    BY <1>1 DEF TypeOK, Label, Finished
  <2>3. QED  BY <1>1, <2>1, <2>2 DEF TypeOK
<1>3. OthersStay(p) /\ rows' = rows
  BY <1>1 DEF OthersStay, TypeOK
<1>4. InHand(p)'
  BY <1>1 DEF InHand, TypeOK, TargetLabel, HoldLabel, DecideLabel
<1>5. QED  BY <1>1, <1>2, <1>3, <1>4, HandlerQuietStep

\* The rows every instance starts with.
LEMMA RowsTyped == Submitted \in Row /\ NoRow \in Row /\ Submitted.status = "PENDING"
<1> DEFINE e == [step |-> 0, action |-> "SUBMITTED", actor |-> "system"]
<1>1. e \in Entry
  BY DEF Entry
<1> HIDE DEF e
<1>2. <<e>> \in Seq(Entry) /\ <<>> \in Seq(Entry)
  BY <1>1
<1>3. QED  BY <1>2 DEF Submitted, NoRow, Row, Status, e

\* createAgentApproval inserts the row, or refuses.
LEMMA CreateInstanceHandler ==
    ASSUME HandlerInvariant, NEW i \in Instances, CreateInstance(i)
    PROVE  HandlerInvariant'
<1> USE DEF CreateInstance, locals, ghosts
<1>1. i \in Procs /\ TypeOK /\ InHand(i)
  BY DEF HandlerInvariant
<1>2. rows' = rows \/ rows' = [rows EXCEPT ![i] = Submitted]
  OBVIOUS
<1>3. TypeOK'
  <2>1. rows' \in [Instances -> Row]
    BY <1>1, <1>2, RowsTyped DEF TypeOK
  <2>2. pc' \in [Procs -> Label]
    <3>1. pc' = [pc EXCEPT ![i] = "announce"] \/ pc' = [pc EXCEPT ![i] = "thrown"]
      OBVIOUS
    <3> HIDE DEF CreateInstance
    <3>2. QED  BY <1>1, <3>1 DEF TypeOK, Label, Finished
  <2>3. QED  BY <1>1, <2>1, <2>2 DEF TypeOK
<1>4. OthersStay(i)
  BY <1>1 DEF OthersStay, TypeOK
<1>5. RowsStay(i)
  <2> HIDE DEF CreateInstance
  <2>1. QED  BY <1>1, <1>2, RowsTyped DEF RowsStay, TypeOK
<1>6. InHand(i)'
  BY <1>1 DEF InHand, TypeOK, TargetLabel, HoldLabel, DecideLabel
<1>7. QED  BY <1>1, <1>3, <1>4, <1>5, <1>6, HandlerStep

\* processDecision reads a row that exists.
LEMMA DecisionReadHandler ==
    ASSUME HandlerInvariant, NEW d \in Deciders, DecisionRead(d)
    PROVE  HandlerInvariant'
<1> USE DEF DecisionRead, tables, ghosts
<1>1. d \in Procs /\ TypeOK /\ InHand(d)
  BY DEF HandlerInvariant
<1>2. PICK i \in Instances, u \in Users, act \in Action :
          /\ rows[i].status # "none"
          /\ target' = [target EXCEPT ![d] = i]
          /\ who' = [who EXCEPT ![d] = u]
          /\ action' = [action EXCEPT ![d] = act]
          /\ seen' = [seen EXCEPT ![d] = rows[i]]
          /\ pc' = [pc EXCEPT ![d] =
                 IF KindOf[i] = "governed" \/ rows[i].status # "PENDING"
                 THEN "thrown" ELSE "decisionSteps"]
  OBVIOUS
<1>3. UNCHANGED <<rows, steps, log, events, seenSteps, stale, reconfigured, faults>>
  OBVIOUS
<1> HIDE DEF DecisionRead
<1>4. TypeOK'
  BY <1>1, <1>2, <1>3 DEF TypeOK, Label, Finished
<1>5. OthersStay(d)
  BY <1>1, <1>2, <1>3 DEF OthersStay, TypeOK
<1>6. InHand(d)'
  BY <1>1, <1>2, <1>3 DEF InHand, TypeOK, TargetLabel, HoldLabel, DecideLabel
<1>7. QED  BY <1>1, <1>3, <1>4, <1>5, <1>6, HandlerQuietStep

\* So does processTimeout, unless it returns.
LEMMA TimeoutReadHandler ==
    ASSUME HandlerInvariant, NEW t \in Timers, TimeoutRead(t)
    PROVE  HandlerInvariant'
<1> USE DEF TimeoutRead, tables, ghosts
<1>1. t \in Procs /\ TypeOK /\ InHand(t)
  BY DEF HandlerInvariant
<1>2. PICK i \in Instances :
          /\ target' = [target EXCEPT ![t] = i]
          /\ seen' = [seen EXCEPT ![t] = rows[i]]
          /\ pc' = [pc EXCEPT ![t] =
                 IF rows[i].status # "PENDING" THEN "returned"
                 ELSE IF KindOf[i] = "governed" THEN "thrown"
                 ELSE "timeoutSteps"]
  OBVIOUS
<1>3. UNCHANGED <<rows, steps, log, events, seenSteps, who, action, stale, reconfigured, faults>>
  OBVIOUS
<1> HIDE DEF TimeoutRead
<1>4. TypeOK'
  BY <1>1, <1>2, <1>3 DEF TypeOK, Label, Finished
<1>5. OthersStay(t)
  BY <1>1, <1>2, <1>3 DEF OthersStay, TypeOK
<1>6. InHand(t)'
  BY <1>1, <1>2, <1>3 DEF InHand, TypeOK, TargetLabel, HoldLabel, DecideLabel
<1>7. QED  BY <1>1, <1>3, <1>4, <1>5, <1>6, HandlerQuietStep

\* What saveDecisionFirstWriter writes, if it writes.
LEMMA DecisionWrite ==
    ASSUME HandlerInvariant, NEW d \in Deciders, DecisionSave(d)
    PROVE  LET i == target[d]
               written == Decided(seen[d], seenSteps[d], action[d], who[d])
           IN /\ i \in Instances
              /\ Wrote(written, seen[d], action[d], who[d])
              /\ \/ /\ rows[i].status = "PENDING" /\ rows[i].step = seen[d].step
                    /\ rows' = [rows EXCEPT ![i] = written]
                    /\ seen' = [seen EXCEPT ![d] = written]
                    /\ pc' = [pc EXCEPT ![d] = "decisionEmit"]
                 \/ /\ rows' = rows
                    /\ seen' = seen
                    /\ pc' = [pc EXCEPT ![d] = "thrown"]
<1>1. d \in Procs /\ TypeOK /\ InHand(d) /\ pc[d] = "decisionSave"
  BY DEF HandlerInvariant, DecisionSave
<1>2. /\ target[d] \in Instances /\ seen[d] \in Row /\ seenSteps[d] \in Seq(Step)
      /\ who[d] \in Users /\ action[d] \in Action
  BY <1>1 DEF InHand, TypeOK, TargetLabel, HoldLabel, DecideLabel
<1>3. Wrote(Decided(seen[d], seenSteps[d], action[d], who[d]), seen[d], action[d], who[d])
  BY <1>2, DecidedWrites
<1>4. CASE FirstWriter(rows[target[d]], seen[d])
  BY <1>2, <1>3, <1>4 DEF DecisionSave, FirstWriter
<1>5. CASE ~FirstWriter(rows[target[d]], seen[d])
  <2>1. rows' = [rows EXCEPT ![target[d]] = rows[target[d]]]
        /\ seen' = [seen EXCEPT ![d] = seen[d]]
        /\ pc' = [pc EXCEPT ![d] = "thrown"]
    BY <1>5 DEF DecisionSave
  <2>2. rows' = rows /\ seen' = seen
    BY <1>1, <1>2, <2>1 DEF TypeOK
  <2>3. QED  BY <1>2, <1>3, <2>1, <2>2
<1>6. QED  BY <1>4, <1>5

\* What processTimeout writes.
LEMMA TimeoutWrite ==
    ASSUME HandlerInvariant, NEW t \in Timers, TimeoutSave(t)
    PROVE  LET i == target[t]
               written == TimedOut(seen[t], seenSteps[t])
           IN /\ i \in Instances
              /\ Wrote(written, seen[t], "REJECTED", "system")
              /\ rows' = [rows EXCEPT ![i] = written]
              /\ seen' = [seen EXCEPT ![t] = written]
              /\ stale' = (stale \/ rows[i] # seen[t])
              /\ pc' = [pc EXCEPT ![t] =
                     IF written.status = "PENDING" THEN "timeoutEscalated"
                     ELSE IF isAgentApproval(i) THEN "timeoutLog" ELSE "returned"]
<1>1. t \in Procs /\ TypeOK /\ InHand(t) /\ pc[t] = "timeoutSave"
  BY DEF HandlerInvariant, TimeoutSave
<1>2. target[t] \in Instances /\ seen[t] \in Row /\ seenSteps[t] \in Seq(Step)
  BY <1>1 DEF InHand, TypeOK, TargetLabel, HoldLabel
<1>3. Wrote(TimedOut(seen[t], seenSteps[t]), seen[t], "REJECTED", "system")
  BY <1>2, TimedOutWrites
<1>4. QED  BY <1>2, <1>3 DEF TimeoutSave

\* A decision writes a row that exists.
LEMMA DecisionSaveHandler ==
    ASSUME HandlerInvariant, NEW d \in Deciders, DecisionSave(d)
    PROVE  HandlerInvariant'
<1> DEFINE i == target[d]
           written == Decided(seen[d], seenSteps[d], action[d], who[d])
<1>1. d \in Procs /\ TypeOK /\ InHand(d) /\ pc[d] = "decisionSave"
  BY DEF HandlerInvariant, DecisionSave
<1>2. UNCHANGED <<steps, log, events, target, seenSteps, who, action, stale, reconfigured, faults>>
  BY DEF DecisionSave, ghosts
<1>3. /\ i \in Instances /\ Wrote(written, seen[d], action[d], who[d])
      /\ \/ /\ rows[i].status = "PENDING" /\ rows' = [rows EXCEPT ![i] = written]
            /\ seen' = [seen EXCEPT ![d] = written] /\ pc' = [pc EXCEPT ![d] = "decisionEmit"]
         \/ rows' = rows /\ seen' = seen /\ pc' = [pc EXCEPT ![d] = "thrown"]
  BY DecisionWrite
<1>4. written \in Row /\ written.status # "none"
  BY <1>1, <1>3 DEF Wrote, InHand, Action, HoldLabel, DecideLabel
<1> HIDE DEF written
<1>5. TypeOK'
  <2>1. rows' \in [Instances -> Row]
    BY <1>1, <1>3, <1>4 DEF TypeOK
  <2>2. seen' \in [Procs -> Row]
    <3>1. seen \in [Procs -> Row]  BY <1>1 DEF TypeOK
    <3>2. CASE seen' = seen  BY <3>1, <3>2
    <3>3. CASE seen' = [seen EXCEPT ![d] = written]  BY <1>1, <1>4, <3>1, <3>3
    <3>4. QED  BY <1>3, <3>2, <3>3
  <2>3. pc' \in [Procs -> Label]
    BY <1>1, <1>3 DEF TypeOK, Label, Finished
  <2>4. QED  BY <1>1, <1>2, <2>1, <2>2, <2>3 DEF TypeOK
<1>6. OthersStay(d)
  BY <1>1, <1>2, <1>3 DEF OthersStay, TypeOK
<1>7. RowsStay(d)
  BY <1>1, <1>3, <1>4 DEF RowsStay, TypeOK
<1>8. InHand(d)'
  BY <1>1, <1>2, <1>3 DEF InHand, TypeOK, TargetLabel, HoldLabel, DecideLabel
<1>9. QED  BY <1>1, <1>5, <1>6, <1>7, <1>8, HandlerStep

\* So does a timeout.
LEMMA TimeoutSaveHandler ==
    ASSUME HandlerInvariant, NEW t \in Timers, TimeoutSave(t)
    PROVE  HandlerInvariant'
<1> DEFINE i == target[t]
           written == TimedOut(seen[t], seenSteps[t])
<1>1. t \in Procs /\ TypeOK /\ InHand(t) /\ pc[t] = "timeoutSave"
  BY DEF HandlerInvariant, TimeoutSave
<1>2. UNCHANGED <<steps, log, events, target, seenSteps, who, action, reconfigured, faults>>
  BY DEF TimeoutSave
<1>3. /\ i \in Instances /\ Wrote(written, seen[t], "REJECTED", "system")
      /\ rows' = [rows EXCEPT ![i] = written]
      /\ seen' = [seen EXCEPT ![t] = written]
      /\ stale' = (stale \/ rows[i] # seen[t])
      /\ \E l \in {"timeoutEscalated", "timeoutLog", "returned"} : pc' = [pc EXCEPT ![t] = l]
  BY TimeoutWrite
<1>4. written \in Row /\ written.status # "none" /\ rows[i].status # "none"
  BY <1>1, <1>3 DEF Wrote, InHand, HoldLabel
<1> HIDE DEF written
<1>5. TypeOK'
  <2>1. stale' \in BOOLEAN
    BY <1>1, <1>3 DEF TypeOK
  <2>2. rows' \in [Instances -> Row] /\ seen' \in [Procs -> Row] /\ pc' \in [Procs -> Label]
    BY <1>1, <1>3, <1>4 DEF TypeOK, Label, Finished
  <2>3. QED  BY <1>1, <1>2, <2>1, <2>2 DEF TypeOK
<1>6. OthersStay(t)
  BY <1>1, <1>2, <1>3 DEF OthersStay, TypeOK
<1>7. RowsStay(t)
  BY <1>1, <1>3, <1>4 DEF RowsStay, TypeOK
<1>8. InHand(t)'
  BY <1>1, <1>2, <1>3 DEF InHand, TypeOK, TargetLabel, HoldLabel, DecideLabel
<1>9. QED  BY <1>1, <1>5, <1>6, <1>7, <1>8, HandlerStep

\* Initially no handler has started.
LEMMA InitHandler == Init => HandlerInvariant
<1> SUFFICES ASSUME Init PROVE HandlerInvariant
  OBVIOUS
<1>1. rows \in [Instances -> Row] /\ seen \in [Procs -> Row]
  BY RowsTyped DEF Init
<1>2. steps \in Seq(Step) /\ events \in [Instances -> Seq(Event)]
      /\ seenSteps \in [Procs -> Seq(Step)]
  BY StepsAssumption DEF Init
<1>3. pc \in [Procs -> Label] /\ target \in [Procs -> Instances \cup {None}]
  BY DEF Init, Label
<1>4. /\ log \in [Instances -> {"none", "pending", "approved", "rejected", "timeout"}]
      /\ who \in [Procs -> Users \cup {None}] /\ action \in [Procs -> Action \cup {None}]
      /\ stale \in BOOLEAN /\ reconfigured \in BOOLEAN
  BY DEF Init
<1>5. faults \in 0..MaxFaults
  BY InstancesAssumption DEF Init
<1>6. TypeOK
  BY <1>1, <1>2, <1>3, <1>4, <1>5 DEF TypeOK
<1>7. NotCreated
  BY InstancesAssumption DEF Init, NotCreated, isAgentApproval
<1>8. \A p \in Procs : InHand(p)
  BY DEF Init, InHand, TargetLabel, HoldLabel, DecideLabel
<1>9. QED  BY <1>6, <1>7, <1>8 DEF HandlerInvariant

\* Every step of every handler keeps the invariant.
LEMMA NextHandler == HandlerInvariant /\ [Next]_vars => HandlerInvariant'
<1> SUFFICES ASSUME HandlerInvariant, [Next]_vars PROVE HandlerInvariant'
  OBVIOUS
<1>1. ASSUME NEW i \in Instances, CreateInstance(i) \/ CreateStep(i) PROVE HandlerInvariant'
  BY <1>1, CreateInstanceHandler, AnnounceCreatedHandler, LogPendingHandler DEF CreateStep
<1>2. ASSUME NEW d \in Deciders, DecisionRead(d) \/ DecisionStep(d) PROVE HandlerInvariant'
  BY <1>2, DecisionReadHandler, DecisionStepsHandler, DecisionSaveHandler,
     DecisionEmitHandler, DecisionLogHandler DEF DecisionStep
<1>3. ASSUME NEW t \in Timers, TimeoutRead(t) \/ TimeoutStep(t) PROVE HandlerInvariant'
  BY <1>3, TimeoutReadHandler, TimeoutStepsHandler, TimeoutSaveHandler,
     TimeoutEscalatedHandler, TimeoutLogHandler, TimeoutTerminateHandler DEF TimeoutStep
<1>4. ASSUME NEW a \in Admins, DeleteSteps(a) \/ SaveSteps(a) PROVE HandlerInvariant'
  BY <1>4, DeleteStepsHandler, SaveStepsHandler
<1>5. ASSUME NEW p \in Procs, Abort(p) PROVE HandlerInvariant'
  BY <1>5, AbortHandler
<1>6. CASE UNCHANGED vars
  BY <1>6 DEF vars, HandlerInvariant, TypeOK, NotCreated, InHand, isAgentApproval
<1>7. QED  BY <1>1, <1>2, <1>3, <1>4, <1>5, <1>6 DEF Next

\* HandlerInvariant holds in every reachable state.
THEOREM HandlerInvariance == Spec => []HandlerInvariant
  BY InitHandler, NextHandler, PTL DEF Spec

\* Tables, events and handler locals keep their types, however many calls
\* interleave, are cut off or reconfigure the steps.
THEOREM EngineTypeCorrect == Spec => []TypeOK
<1>1. HandlerInvariant => TypeOK  BY DEF HandlerInvariant
<1>2. QED  BY <1>1, HandlerInvariance, PTL

----------------------------------------------------------------------------
(* ProcessInvariant: no step of a process is skipped *)

\* A longer history shows what the shorter one did, and the new entry.
LEMMA ExtendsShows ==
    ASSUME NEW new, NEW row, NEW act, NEW actor, Extends(new, row, act, actor)
    PROVE  /\ \A k : ApprovedStep(row, k) => ApprovedStep(new, k)
           /\ \A k : EscalatedStep(row, k) => EscalatedStep(new, k)
           /\ act = "APPROVED" /\ actor \in InitSteps[row.step + 1].approvers =>
                  ApprovedStep(new, row.step)
           /\ act = "REJECTED" /\ actor = "system"
                  /\ InitSteps[row.step + 1].onTimeout = "escalate" => EscalatedStep(new, row.step)
  BY DEF Extends, ApprovedStep, EscalatedStep

\* An approver's decision keeps a row sound.
LEMMA DealtDecided ==
    ASSUME NEW row \in Row, Dealt(row), row.status = "PENDING", NEW act \in Action,
           NEW user \in Users, CanApprove(InitSteps, row.step, user)
    PROVE  Dealt(Decided(row, InitSteps, act, user))
<1> DEFINE new == Decided(row, InitSteps, act, user)
<1> SUFFICES Dealt(new)
  OBVIOUS
<1>1. InitSteps \in Seq(Step) /\ Len(InitSteps) \in Nat /\ row.step \in Nat
  BY StepsAssumption DEF Row
<1>2. /\ Wrote(new, row, act, user)
      /\ IF act = "APPROVED" /\ row.step + 1 < Len(InitSteps)
         THEN new.step = row.step + 1 /\ new.status = row.status
         ELSE new.step = row.step /\ new.status = act
  BY <1>1, DecidedWrites
<1> HIDE DEF new
<1>3. /\ \A k : ApprovedStep(row, k) => ApprovedStep(new, k)
      /\ \A k : EscalatedStep(row, k) => EscalatedStep(new, k)
      /\ act = "APPROVED" /\ row.step < Len(InitSteps) => ApprovedStep(new, row.step)
  BY <1>2, ExtendsShows DEF Wrote, CanApprove
<1>4. CASE act = "APPROVED" /\ row.step + 1 < Len(InitSteps)
  <2>1. new.step = row.step + 1 /\ new.status = "PENDING"
    BY <1>2, <1>4
  <2>2. \A k \in 0..(Len(InitSteps) - 1) : k < new.step =>
            ApprovedStep(new, k) \/ EscalatedStep(new, k)
    BY <1>1, <1>3, <1>4, <2>1 DEF Dealt
  <2>3. QED  BY <1>1, <1>4, <2>1, <2>2 DEF Dealt
<1>5. CASE ~(act = "APPROVED" /\ row.step + 1 < Len(InitSteps))
  <2>1. new.step = row.step /\ new.status = act
    BY <1>2, <1>5
  <2>2. act = "APPROVED" /\ InitSteps # <<>> =>
            row.step = Len(InitSteps) - 1 /\ ApprovedStep(new, row.step)
    BY <1>1, <1>3, <1>5 DEF Dealt
  <2>3. QED  BY <1>1, <1>3, <2>1, <2>2 DEF Dealt
<1>6. QED  BY <1>4, <1>5

\* So does a timeout, which escalates or rejects.
LEMMA DealtTimedOut ==
    ASSUME NEW row \in Row, Dealt(row), row.status = "PENDING"
    PROVE  Dealt(TimedOut(row, InitSteps))
<1> DEFINE new == TimedOut(row, InitSteps)
           escalates == row.step + 1 < Len(InitSteps)
                        /\ InitSteps[row.step + 1].onTimeout = "escalate"
<1> SUFFICES Dealt(new)
  OBVIOUS
<1>1. InitSteps \in Seq(Step) /\ Len(InitSteps) \in Nat /\ row.step \in Nat
  BY StepsAssumption DEF Row
<1>2. /\ Wrote(new, row, "REJECTED", "system")
      /\ IF escalates THEN new.step = row.step + 1 /\ new.status = row.status
                      ELSE new.step = row.step /\ new.status = "REJECTED"
  BY <1>1, TimedOutWrites
<1> HIDE DEF new
<1>3. /\ \A k : ApprovedStep(row, k) => ApprovedStep(new, k)
      /\ \A k : EscalatedStep(row, k) => EscalatedStep(new, k)
      /\ escalates => EscalatedStep(new, row.step)
  BY <1>2, ExtendsShows DEF Wrote
<1>4. CASE escalates
  <2>1. new.step = row.step + 1 /\ new.status = "PENDING"
    BY <1>2, <1>4
  <2>2. \A k \in 0..(Len(InitSteps) - 1) : k < new.step =>
            ApprovedStep(new, k) \/ EscalatedStep(new, k)
    BY <1>1, <1>3, <1>4, <2>1 DEF Dealt
  <2>3. QED  BY <1>1, <1>4, <2>1, <2>2 DEF Dealt
<1>5. CASE ~escalates
  <2>1. new.step = row.step /\ new.status = "REJECTED"
    BY <1>2, <1>5
  <2>2. QED  BY <1>1, <1>3, <2>1 DEF Dealt
<1>6. QED  BY <1>4, <1>5

\* What the handler of a process instance has in hand before it writes.
Holds(p) ==
    pc[p] \in HoldLabel /\ KindOf[target[p]] = "process" =>
        /\ Dealt(seen[p])
        /\ pc[p] \in {"decisionSave", "timeoutSave"} => seenSteps[p] = InitSteps
        /\ pc[p] = "decisionSave" => CanApprove(InitSteps, seen[p].step, who[p])

\* What is left to show of a step.
LEMMA ProcessStep ==
    ASSUME ProcessInvariant, NEW p \in Procs, OthersStay(p), pc'[p] # "saveSteps",
           UNCHANGED <<steps, reconfigured>>,
           ~reconfigured => Holds(p)',
           ~reconfigured => \A i \in Instances : KindOf[i] = "process" => Dealt(rows'[i])
    PROVE  ProcessInvariant'
<1> SUFFICES ASSUME ~reconfigured PROVE ProcessInvariant'
  BY DEF ProcessInvariant
<1>1. \A q \in Procs : pc'[q] # "saveSteps"
  BY DEF ProcessInvariant, OthersStay
<1>2. ASSUME NEW q \in Procs \ {p} PROVE Holds(q)'
  <2>1. Holds(q)
    BY DEF ProcessInvariant, Holds
  <2>2. /\ pc'[q] = pc[q] /\ target'[q] = target[q] /\ seen'[q] = seen[q]
        /\ seenSteps'[q] = seenSteps[q] /\ who'[q] = who[q]
    BY DEF OthersStay
  <2>3. QED  BY <2>1, <2>2 DEF Holds
<1>3. \A q \in Procs : Holds(q)'
  BY <1>2
<1>4. QED  BY <1>1, <1>3 DEF ProcessInvariant, Holds, Dealt, ApprovedStep, EscalatedStep

\* A step that writes no row of a process and reads none.
LEMMA ProcessQuiet ==
    ASSUME HandlerInvariant, ProcessInvariant, NEW p \in Procs,
           \/ p \in Instances /\ (CreateInstance(p) \/ AnnounceCreated(p) \/ LogPending(p))
           \/ DecisionEmit(p) \/ DecisionLog(p)
           \/ TimeoutEscalated(p) \/ TimeoutLog(p) \/ TimeoutTerminate(p)
           \/ Abort(p)
    PROVE  ProcessInvariant'
<1> USE DEF CreateInstance, AnnounceCreated, LogPending, DecisionEmit, DecisionLog,
        TimeoutEscalated, TimeoutLog, TimeoutTerminate, Abort, tables, locals, ghosts
<1>1. TypeOK
  BY DEF HandlerInvariant
<1>2. /\ UNCHANGED <<steps, reconfigured>>
      /\ \E l \in {"announce", "thrown", "logPending", "returned", "decisionLog",
                   "timeoutTerminate"} : pc' = [pc EXCEPT ![p] = l]
  OBVIOUS
<1>3. UNCHANGED <<target, seen, seenSteps, who, action>>
  OBVIOUS
<1>4. \A i \in Instances : KindOf[i] = "process" => rows'[i] = rows[i]
  BY <1>1 DEF TypeOK, isAgentApproval
<1> HIDE DEF CreateInstance, AnnounceCreated, LogPending, DecisionEmit, DecisionLog,
         TimeoutEscalated, TimeoutLog, TimeoutTerminate, Abort
<1>5. OthersStay(p)
  BY <1>1, <1>2, <1>3 DEF OthersStay, TypeOK
<1>6. pc'[p] # "saveSteps" /\ pc'[p] \notin HoldLabel
  BY <1>1, <1>2 DEF TypeOK, HoldLabel, DecideLabel
<1>7. Holds(p)'
  BY <1>6 DEF Holds
<1>8. ~reconfigured => \A i \in Instances : KindOf[i] = "process" => Dealt(rows'[i])
  BY <1>4 DEF ProcessInvariant
<1>9. QED  BY <1>2, <1>5, <1>6, <1>7, <1>8, ProcessStep

\* What is read of a sound row is sound.
LEMMA ProcessRead ==
    ASSUME HandlerInvariant, ProcessInvariant, NEW p \in Procs,
           DecisionRead(p) \/ TimeoutRead(p)
    PROVE  ProcessInvariant'
<1> USE DEF DecisionRead, TimeoutRead, tables, ghosts
<1>1. TypeOK
  BY DEF HandlerInvariant
<1>2. UNCHANGED <<rows, steps, seenSteps, reconfigured>>
  OBVIOUS
<1>3. PICK i \in Instances :
          /\ target' = [target EXCEPT ![p] = i]
          /\ seen' = [seen EXCEPT ![p] = rows[i]]
          /\ \E l \in {"thrown", "decisionSteps", "returned", "timeoutSteps"} :
                 pc' = [pc EXCEPT ![p] = l]
  OBVIOUS
<1>4. OthersStay(p)
  BY <1>1, <1>2, <1>3 DEF OthersStay, TypeOK
<1> HIDE DEF DecisionRead, TimeoutRead
<1>5. /\ target'[p] = i /\ seen'[p] = rows[i]
      /\ pc'[p] \in {"thrown", "decisionSteps", "returned", "timeoutSteps"}
  BY <1>1, <1>3 DEF TypeOK
<1>6. ~reconfigured => Holds(p)'
  BY <1>5 DEF Holds, ProcessInvariant
<1>7. ~reconfigured => \A x \in Instances : KindOf[x] = "process" => Dealt(rows'[x])
  BY <1>2 DEF ProcessInvariant
<1>8. QED  BY <1>2, <1>4, <1>5, <1>6, <1>7, ProcessStep

\* The steps a handler reads before a reconfiguration are the initial ones.
LEMMA ProcessSteps ==
    ASSUME HandlerInvariant, ProcessInvariant, NEW p \in Procs,
           DecisionSteps(p) \/ TimeoutSteps(p)
    PROVE  ProcessInvariant'
<1> USE DEF DecisionSteps, TimeoutSteps, tables, ghosts
<1>1. TypeOK /\ pc[p] \in HoldLabel
  BY DEF HandlerInvariant, HoldLabel, DecideLabel
<1>2. UNCHANGED <<rows, steps, target, seen, who, action, reconfigured>>
      /\ seenSteps' = [seenSteps EXCEPT ![p] = getStepsForInstance(target[p])]
  OBVIOUS
<1>3. /\ \E l \in {"decisionSave", "thrown", "timeoutSave"} : pc' = [pc EXCEPT ![p] = l]
      /\ pc' = [pc EXCEPT ![p] = "decisionSave"] =>
             CanApprove(getStepsForInstance(target[p]), seen[p].step, who[p])
         \/ pc'[p] # "decisionSave"
  BY <1>1 DEF TypeOK
<1>4. OthersStay(p)
  BY <1>1, <1>2, <1>3 DEF OthersStay, TypeOK
<1> HIDE DEF DecisionSteps, TimeoutSteps
<1>5. /\ pc'[p] \in {"decisionSave", "thrown", "timeoutSave"}
      /\ seenSteps'[p] = getStepsForInstance(target[p])
      /\ pc'[p] = "decisionSave" =>
             CanApprove(getStepsForInstance(target[p]), seen[p].step, who[p])
  BY <1>1, <1>2, <1>3 DEF TypeOK
<1>6. ~reconfigured => Holds(p)'
  <2>1. SUFFICES ASSUME ~reconfigured, KindOf[target[p]] = "process" PROVE Holds(p)'
    BY <1>2 DEF Holds
  <2>2. getStepsForInstance(target[p]) = InitSteps
    BY <2>1 DEF getStepsForInstance, isAgentApproval, ProcessInvariant
  <2>3. Dealt(seen[p])
    BY <1>1, <2>1 DEF ProcessInvariant
  <2>4. QED  BY <1>2, <1>5, <2>2, <2>3 DEF Holds
<1>7. ~reconfigured => \A x \in Instances : KindOf[x] = "process" => Dealt(rows'[x])
  BY <1>2 DEF ProcessInvariant
<1>8. QED  BY <1>2, <1>4, <1>5, <1>6, <1>7, ProcessStep

\* An approver's decision about the row it read, on the steps it read.
LEMMA ProcessDecisionSave ==
    ASSUME HandlerInvariant, ProcessInvariant, NEW d \in Deciders, DecisionSave(d)
    PROVE  ProcessInvariant'
<1> DEFINE i == target[d]
           written == Decided(seen[d], seenSteps[d], action[d], who[d])
<1>1. d \in Procs /\ TypeOK /\ InHand(d) /\ pc[d] = "decisionSave"
  BY DEF HandlerInvariant, DecisionSave
<1>2. UNCHANGED <<steps, target, seenSteps, who, action, reconfigured>>
  BY DEF DecisionSave, ghosts
<1>3. /\ i \in Instances
      /\ \/ /\ rows' = [rows EXCEPT ![i] = written]
            /\ seen' = [seen EXCEPT ![d] = written] /\ pc' = [pc EXCEPT ![d] = "decisionEmit"]
         \/ rows' = rows /\ seen' = seen /\ pc' = [pc EXCEPT ![d] = "thrown"]
  BY DecisionWrite
<1>4. ~reconfigured /\ KindOf[i] = "process" => Dealt(written)
  <2>1. /\ seen[d] \in Row /\ seen[d].status = "PENDING" /\ action[d] \in Action
        /\ who[d] \in Users
    BY <1>1 DEF InHand, TypeOK, HoldLabel, DecideLabel
  <2>2. SUFFICES ASSUME ~reconfigured, KindOf[i] = "process" PROVE Dealt(written)
    OBVIOUS
  <2>3. Dealt(seen[d]) /\ seenSteps[d] = InitSteps /\ CanApprove(InitSteps, seen[d].step, who[d])
    BY <1>1, <2>2 DEF ProcessInvariant, HoldLabel, DecideLabel
  <2>4. QED  BY <2>1, <2>3, DealtDecided
<1> HIDE DEF written
<1>5. OthersStay(d) /\ pc'[d] \in {"decisionEmit", "thrown"}
  BY <1>1, <1>2, <1>3 DEF OthersStay, TypeOK
<1>6. Holds(d)'
  BY <1>5 DEF Holds, HoldLabel, DecideLabel
<1>7. ~reconfigured => \A x \in Instances : KindOf[x] = "process" => Dealt(rows'[x])
  <2>1. \A x \in Instances : rows'[x] = rows[x] \/ (x = i /\ rows'[x] = written)
    BY <1>1, <1>3 DEF TypeOK
  <2>2. QED  BY <1>4, <2>1 DEF ProcessInvariant
<1>8. QED  BY <1>1, <1>2, <1>5, <1>6, <1>7, ProcessStep

\* A timeout of the row it read, which may be stale.
LEMMA ProcessTimeoutSave ==
    ASSUME HandlerInvariant, ProcessInvariant, NEW t \in Timers, TimeoutSave(t)
    PROVE  ProcessInvariant'
<1> DEFINE i == target[t]
           written == TimedOut(seen[t], seenSteps[t])
<1>1. t \in Procs /\ TypeOK /\ InHand(t) /\ pc[t] = "timeoutSave"
  BY DEF HandlerInvariant, TimeoutSave
<1>2. UNCHANGED <<steps, target, seenSteps, who, action, reconfigured>>
  BY DEF TimeoutSave
<1>3. /\ i \in Instances
      /\ rows' = [rows EXCEPT ![i] = written]
      /\ seen' = [seen EXCEPT ![t] = written]
      /\ \E l \in {"timeoutEscalated", "timeoutLog", "returned"} : pc' = [pc EXCEPT ![t] = l]
  BY TimeoutWrite
<1>4. ~reconfigured /\ KindOf[i] = "process" => Dealt(written)
  <2>1. seen[t] \in Row /\ seen[t].status = "PENDING"
    BY <1>1 DEF InHand, TypeOK, HoldLabel
  <2>2. SUFFICES ASSUME ~reconfigured, KindOf[i] = "process" PROVE Dealt(written)
    OBVIOUS
  <2>3. Dealt(seen[t]) /\ seenSteps[t] = InitSteps
    BY <1>1, <2>2 DEF ProcessInvariant, HoldLabel
  <2>4. QED  BY <2>1, <2>3, DealtTimedOut
<1> HIDE DEF written
<1>5. OthersStay(t) /\ pc'[t] \in {"timeoutEscalated", "timeoutLog", "returned"}
  BY <1>1, <1>2, <1>3 DEF OthersStay, TypeOK
<1>6. Holds(t)'
  BY <1>5 DEF Holds, HoldLabel, DecideLabel
<1>7. ~reconfigured => \A x \in Instances : KindOf[x] = "process" => Dealt(rows'[x])
  <2>1. \A x \in Instances : rows'[x] = rows[x] \/ (x = i /\ rows'[x] = written)
    BY <1>1, <1>3 DEF TypeOK
  <2>2. QED  BY <1>4, <2>1 DEF ProcessInvariant
<1>8. QED  BY <1>1, <1>2, <1>5, <1>6, <1>7, ProcessStep

\* Initially every process instance is at its first step.
LEMMA InitProcess == Init => ProcessInvariant
<1> SUFFICES ASSUME Init PROVE ProcessInvariant
  OBVIOUS
<1>1. Submitted.step = 0 /\ Submitted.status = "PENDING"
  BY DEF Submitted
<1>2. Dealt(Submitted)
  BY <1>1 DEF Dealt
<1>3. \A i \in Instances : KindOf[i] = "process" => rows[i] = Submitted
  BY DEF Init
<1>4. QED  BY <1>2, <1>3 DEF Init, ProcessInvariant, HoldLabel, DecideLabel

\* Every step keeps ProcessInvariant.
LEMMA NextProcess == HandlerInvariant /\ ProcessInvariant /\ [Next]_vars => ProcessInvariant'
<1> SUFFICES ASSUME HandlerInvariant, ProcessInvariant, [Next]_vars PROVE ProcessInvariant'
  OBVIOUS
<1>1. ASSUME NEW i \in Instances, CreateInstance(i) \/ CreateStep(i) PROVE ProcessInvariant'
  BY <1>1, ProcessQuiet DEF CreateStep
<1>2. ASSUME NEW d \in Deciders, DecisionRead(d) \/ DecisionStep(d) PROVE ProcessInvariant'
  BY <1>2, ProcessQuiet, ProcessRead, ProcessSteps, ProcessDecisionSave DEF DecisionStep
<1>3. ASSUME NEW t \in Timers, TimeoutRead(t) \/ TimeoutStep(t) PROVE ProcessInvariant'
  BY <1>3, ProcessQuiet, ProcessRead, ProcessSteps, ProcessTimeoutSave DEF TimeoutStep
<1>4. ASSUME NEW a \in Admins, DeleteSteps(a) \/ SaveSteps(a) PROVE ProcessInvariant'
  BY <1>4 DEF DeleteSteps, SaveSteps, ghosts, ProcessInvariant
<1>5. ASSUME NEW p \in Procs, Abort(p) PROVE ProcessInvariant'
  BY <1>5, ProcessQuiet
<1>6. CASE UNCHANGED vars
  BY <1>6 DEF vars, ProcessInvariant
<1>7. QED  BY <1>1, <1>2, <1>3, <1>4, <1>5, <1>6 DEF Next

\* Until the steps are reconfigured, no process instance gets past a step that
\* no entitled approver approved and no escalation skipped, for every list of
\* steps and any number of racing decisions and late timeouts.
THEOREM NoStepSkipped == Spec => []StepsDealtWith
<1>1. ProcessInvariant => StepsDealtWith
  BY DEF ProcessInvariant, StepsDealtWith, Dealt
<1>2. QED  BY <1>1, InitProcess, NextProcess, HandlerInvariance, PTL DEF Spec

----------------------------------------------------------------------------
(* FreshInvariant: decisions undo nothing *)

\* The row a handler read is the present one, or an earlier one.
Current(p) ==
    pc[p] \in HoldLabel =>
        /\ seen[p].step <= rows[target[p]].step
        /\ rows[target[p]].status = "PENDING" /\ rows[target[p]].step = seen[p].step =>
               rows[target[p]] = seen[p]

AllKept == ~stale' => \A i \in Instances : Kept(i)

\* A step that writes no row keeps everything.
LEMMA FreshQuietStep ==
    ASSUME FreshInvariant, NEW p \in Procs, OthersStay(p), UNCHANGED <<rows, stale>>,
           ~stale => Current(p)'
    PROVE  FreshInvariant' /\ AllKept
<1>1. AllKept
  BY DEF AllKept, Kept
<1>2. SUFFICES ASSUME ~stale PROVE FreshInvariant'
  BY <1>1 DEF FreshInvariant
<1>3. ASSUME NEW q \in Procs \ {p} PROVE Current(q)'
  <2>1. Current(q)
    BY <1>2 DEF FreshInvariant, Current
  <2>2. pc'[q] = pc[q] /\ target'[q] = target[q] /\ seen'[q] = seen[q]
    BY DEF OthersStay
  <2>3. QED  BY <2>1, <2>2 DEF Current
<1>4. \A q \in Procs : Current(q)'
  BY <1>2, <1>3
<1>5. QED  BY <1>4 DEF FreshInvariant, Current

\* A write on top of the present, PENDING row extends its history, and leaves
\* every row read before it behind.
LEMMA FreshWrite ==
    ASSUME HandlerInvariant, FreshInvariant, ~stale, NEW p \in Procs, OthersStay(p),
           pc'[p] \notin HoldLabel, NEW i \in Instances, rows[i].status = "PENDING",
           NEW act \in Action, NEW actor, NEW written, Wrote(written, rows[i], act, actor),
           rows' = [rows EXCEPT ![i] = written]
    PROVE  FreshInvariant' /\ \A x \in Instances : Kept(x)
<1>1. TypeOK /\ rows[i] \in Row /\ rows[i].step \in Nat
  BY DEF HandlerInvariant, TypeOK, Row
<1>2. rows'[i] = written /\ \A x \in Instances \ {i} : rows'[x] = rows[x]
  BY <1>1 DEF TypeOK
<1>3. ASSUME NEW x \in Instances PROVE Kept(x)
  BY <1>2 DEF Kept, Wrote, Extends, Action
<1>4. ASSUME NEW q \in Procs PROVE Current(q)'
  <2>1. SUFFICES ASSUME q # p, pc[q] \in HoldLabel PROVE Current(q)'
    BY DEF Current, OthersStay
  <2>2. pc'[q] = pc[q] /\ target'[q] = target[q] /\ seen'[q] = seen[q]
    BY <2>1 DEF OthersStay
  <2>3. /\ target[q] \in Instances
        /\ Current(q)
    BY <2>1 DEF HandlerInvariant, InHand, TargetLabel, FreshInvariant, Current
  <2>4. CASE target[q] # i
    BY <1>2, <2>2, <2>3, <2>4 DEF Current
  <2>5. CASE target[q] = i
    <3>1. seen[q].step \in Nat /\ seen[q].step <= rows[i].step
      BY <1>1, <2>1, <2>3, <2>5 DEF Current, TypeOK, Row
    <3>2. \/ written.step = rows[i].step + 1
          \/ written.step = rows[i].step /\ written.status # "PENDING"
      BY DEF Wrote, Action
    <3>3. QED  BY <1>1, <1>2, <2>2, <2>5, <3>1, <3>2 DEF Current
  <2>6. QED  BY <2>4, <2>5
<1>5. QED  BY <1>3, <1>4 DEF FreshInvariant, Current

\* The steps that write no row and read none.
LEMMA FreshQuiet ==
    ASSUME HandlerInvariant, FreshInvariant, NEW p \in Procs,
           \/ AnnounceCreated(p) \/ LogPending(p)
           \/ DecisionSteps(p) \/ DecisionEmit(p) \/ DecisionLog(p)
           \/ TimeoutSteps(p) \/ TimeoutEscalated(p) \/ TimeoutLog(p) \/ TimeoutTerminate(p)
           \/ DeleteSteps(p) \/ SaveSteps(p) \/ Abort(p)
    PROVE  FreshInvariant' /\ AllKept
<1> USE DEF AnnounceCreated, LogPending, DecisionSteps, DecisionEmit, DecisionLog,
        TimeoutSteps, TimeoutEscalated, TimeoutLog, TimeoutTerminate, DeleteSteps, SaveSteps,
        Abort, tables, locals, ghosts
<1>1. TypeOK
  BY DEF HandlerInvariant
<1>2. UNCHANGED <<rows, stale, target, seen, who, action>>
  OBVIOUS
<1>3. \E l \in Label \ {"idle"} : pc' = [pc EXCEPT ![p] = l] /\ (l \in HoldLabel => pc[p] \in HoldLabel)
  BY DEF Label, Finished, HoldLabel, DecideLabel
<1>4. seenSteps' = seenSteps \/ \E x : seenSteps' = [seenSteps EXCEPT ![p] = x]
  OBVIOUS
<1> HIDE DEF AnnounceCreated, LogPending, DecisionSteps, DecisionEmit, DecisionLog,
         TimeoutSteps, TimeoutEscalated, TimeoutLog, TimeoutTerminate, DeleteSteps, SaveSteps,
         Abort
<1>5. OthersStay(p) /\ (pc'[p] \in HoldLabel => pc[p] \in HoldLabel)
  BY <1>1, <1>2, <1>3, <1>4 DEF OthersStay, TypeOK
<1>6. ~stale => Current(p)'
  BY <1>2, <1>5 DEF FreshInvariant, Current
<1>7. QED  BY <1>2, <1>5, <1>6, FreshQuietStep

\* What a handler reads is the present row.
LEMMA FreshRead ==
    ASSUME HandlerInvariant, FreshInvariant, NEW p \in Procs, DecisionRead(p) \/ TimeoutRead(p)
    PROVE  FreshInvariant' /\ AllKept
<1> USE DEF DecisionRead, TimeoutRead, tables, ghosts
<1>1. TypeOK
  BY DEF HandlerInvariant
<1>2. UNCHANGED <<rows, stale, seenSteps>>
  OBVIOUS
<1>3. PICK i \in Instances :
          /\ target' = [target EXCEPT ![p] = i]
          /\ seen' = [seen EXCEPT ![p] = rows[i]]
          /\ \E l \in {"thrown", "decisionSteps", "returned", "timeoutSteps"} :
                 pc' = [pc EXCEPT ![p] = l]
  OBVIOUS
<1>4. OthersStay(p)
  BY <1>1, <1>2, <1>3 DEF OthersStay, TypeOK
<1> HIDE DEF DecisionRead, TimeoutRead
<1>5. target'[p] = i /\ seen'[p] = rows[i] /\ rows[i].step \in Nat
  BY <1>1, <1>3 DEF TypeOK, Row
<1>6. Current(p)'
  BY <1>2, <1>5 DEF Current
<1>7. QED  BY <1>2, <1>4, <1>6, FreshQuietStep

\* Nobody has read a row that is only created now.
LEMMA FreshCreate ==
    ASSUME HandlerInvariant, FreshInvariant, NEW i \in Instances, CreateInstance(i)
    PROVE  FreshInvariant' /\ AllKept
<1> USE DEF CreateInstance, locals, ghosts
<1>1. TypeOK /\ i \in Procs /\ rows[i] = NoRow
  BY DEF HandlerInvariant, NotCreated
<1>2. OthersStay(i) /\ UNCHANGED <<stale, target, seen>>
      /\ pc'[i] \notin HoldLabel
  BY <1>1 DEF OthersStay, TypeOK, HoldLabel, DecideLabel
<1>3. CASE rows' = rows
  <2>1. Current(i)'
    BY <1>2 DEF Current
  <2>2. QED  BY <1>1, <1>2, <1>3, <2>1, FreshQuietStep
<1>4. CASE rows' = [rows EXCEPT ![i] = Submitted]
  <2> HIDE DEF CreateInstance
  <2>1. \A x \in Instances \ {i} : rows'[x] = rows[x]
    BY <1>1, <1>4 DEF TypeOK
  <2>2. NoRow.status = "none" /\ NoRow.history = <<>>
    BY DEF NoRow
  <2>3. \A x \in Instances : Kept(x)
    BY <1>1, <2>1, <2>2 DEF Kept, Action
  <2>4. ASSUME NEW q \in Procs, ~stale PROVE Current(q)'
    <3>1. SUFFICES ASSUME q # i, pc[q] \in HoldLabel PROVE Current(q)'
      BY <1>2 DEF Current, OthersStay
    <3>2. target[q] \in Instances /\ rows[target[q]].status # "none" /\ Current(q)
      BY <2>4, <3>1 DEF HandlerInvariant, InHand, TargetLabel, FreshInvariant, Current
    <3>3. rows'[target[q]] = rows[target[q]]
      BY <1>1, <2>1, <2>2, <3>2
    <3>4. pc'[q] = pc[q] /\ target'[q] = target[q] /\ seen'[q] = seen[q]
      BY <1>2, <3>1 DEF OthersStay
    <3>5. QED  BY <3>2, <3>3, <3>4 DEF Current
  <2>5. QED  BY <1>2, <2>3, <2>4 DEF FreshInvariant, Current, AllKept
<1>5. QED  BY <1>3, <1>4

\* saveDecisionFirstWriter matches only the row the decision was made about.
LEMMA FreshDecisionSave ==
    ASSUME HandlerInvariant, FreshInvariant, NEW d \in Deciders, DecisionSave(d)
    PROVE  FreshInvariant' /\ AllKept
<1> DEFINE i == target[d]
           written == Decided(seen[d], seenSteps[d], action[d], who[d])
<1>1. d \in Procs /\ TypeOK /\ InHand(d) /\ pc[d] = "decisionSave"
  BY DEF HandlerInvariant, DecisionSave
<1>2. UNCHANGED <<target, seenSteps, who, action, stale>>
  BY DEF DecisionSave, ghosts
<1>3. /\ i \in Instances /\ Wrote(written, seen[d], action[d], who[d])
      /\ \/ /\ rows[i].status = "PENDING" /\ rows[i].step = seen[d].step
            /\ rows' = [rows EXCEPT ![i] = written]
            /\ seen' = [seen EXCEPT ![d] = written] /\ pc' = [pc EXCEPT ![d] = "decisionEmit"]
         \/ rows' = rows /\ seen' = seen /\ pc' = [pc EXCEPT ![d] = "thrown"]
  BY DecisionWrite
<1> HIDE DEF written
<1>4. OthersStay(d) /\ pc'[d] \notin HoldLabel /\ action[d] \in Action
  BY <1>1, <1>2, <1>3 DEF OthersStay, TypeOK, HoldLabel, DecideLabel, InHand
<1>5. CASE rows' = rows
  <2>1. Current(d)'
    BY <1>4 DEF Current
  <2>2. QED  BY <1>1, <1>2, <1>4, <1>5, <2>1, FreshQuietStep
<1>6. CASE /\ rows[i].status = "PENDING" /\ rows[i].step = seen[d].step
           /\ rows' = [rows EXCEPT ![i] = written]
  <2>1. CASE stale
    BY <1>2, <2>1 DEF FreshInvariant, AllKept
  <2>2. CASE ~stale
    <3>1. rows[i] = seen[d]
      BY <1>1, <1>6, <2>2 DEF FreshInvariant, HoldLabel, DecideLabel
    <3>2. FreshInvariant' /\ \A x \in Instances : Kept(x)
      BY <1>1, <1>3, <1>4, <1>6, <2>2, <3>1, FreshWrite
    <3>3. QED  BY <3>2 DEF AllKept
  <2>3. QED  BY <2>1, <2>2
<1>7. QED  BY <1>3, <1>5, <1>6

\* A timeout that finds its row changed makes the instance stale.
LEMMA FreshTimeoutSave ==
    ASSUME HandlerInvariant, FreshInvariant, NEW t \in Timers, TimeoutSave(t)
    PROVE  FreshInvariant' /\ AllKept
<1> DEFINE i == target[t]
           written == TimedOut(seen[t], seenSteps[t])
<1>1. t \in Procs /\ TypeOK /\ InHand(t) /\ pc[t] = "timeoutSave"
  BY DEF HandlerInvariant, TimeoutSave
<1>2. UNCHANGED <<target, seenSteps, who, action>>
  BY DEF TimeoutSave
<1>3. /\ i \in Instances /\ Wrote(written, seen[t], "REJECTED", "system")
      /\ rows' = [rows EXCEPT ![i] = written]
      /\ seen' = [seen EXCEPT ![t] = written]
      /\ stale' = (stale \/ rows[i] # seen[t])
      /\ \E l \in {"timeoutEscalated", "timeoutLog", "returned"} : pc' = [pc EXCEPT ![t] = l]
  BY TimeoutWrite
<1> HIDE DEF written
<1>4. OthersStay(t) /\ pc'[t] \notin HoldLabel
  BY <1>1, <1>2, <1>3 DEF OthersStay, TypeOK, HoldLabel, DecideLabel
<1>5. CASE stale'
  BY <1>5 DEF FreshInvariant, AllKept
<1>6. CASE ~stale'
  <2>1. ~stale /\ rows[i] = seen[t] /\ rows[i].status = "PENDING" /\ "REJECTED" \in Action
    BY <1>1, <1>3, <1>6 DEF InHand, HoldLabel, Action
  <2>2. FreshInvariant' /\ \A x \in Instances : Kept(x)
    BY <1>1, <1>3, <1>4, <2>1, FreshWrite
  <2>3. QED  BY <2>2 DEF AllKept
<1>7. QED  BY <1>5, <1>6

\* Every step keeps FreshInvariant and what is on record.
LEMMA NextFresh ==
    HandlerInvariant /\ FreshInvariant /\ [Next]_vars => FreshInvariant' /\ AllKept
<1> SUFFICES ASSUME HandlerInvariant, FreshInvariant, [Next]_vars PROVE FreshInvariant' /\ AllKept
  OBVIOUS
<1>1. ASSUME NEW i \in Instances, CreateInstance(i) \/ CreateStep(i)
      PROVE  FreshInvariant' /\ AllKept
  BY <1>1, FreshCreate, FreshQuiet DEF CreateStep
<1>2. ASSUME NEW d \in Deciders, DecisionRead(d) \/ DecisionStep(d)
      PROVE  FreshInvariant' /\ AllKept
  BY <1>2, FreshQuiet, FreshRead, FreshDecisionSave DEF DecisionStep
<1>3. ASSUME NEW t \in Timers, TimeoutRead(t) \/ TimeoutStep(t)
      PROVE  FreshInvariant' /\ AllKept
  BY <1>3, FreshQuiet, FreshRead, FreshTimeoutSave DEF TimeoutStep
<1>4. ASSUME NEW a \in Admins, DeleteSteps(a) \/ SaveSteps(a) PROVE FreshInvariant' /\ AllKept
  BY <1>4, FreshQuiet
<1>5. ASSUME NEW p \in Procs, Abort(p) PROVE FreshInvariant' /\ AllKept
  BY <1>5, FreshQuiet
<1>6. CASE UNCHANGED vars
  BY <1>6 DEF vars, FreshInvariant, AllKept, Kept
<1>7. QED  BY <1>1, <1>2, <1>3, <1>4, <1>5, <1>6 DEF Next

\* Decisions never undo what was recorded, however many race and whatever
\* becomes of the steps, until a timeout overwrites a row it had not read.
THEOREM DecisionsKept == Spec => DecisionsKeptUnlessStale
<1>1. Init => FreshInvariant
  BY DEF Init, FreshInvariant, HoldLabel, DecideLabel
<1>2. HandlerInvariant /\ FreshInvariant /\ [Next]_vars =>
          [~stale' => \A i \in Instances : Kept(i)]_vars
  BY NextFresh DEF AllKept
<1>3. QED
  BY <1>1, <1>2, NextFresh, HandlerInvariance, PTL DEF Spec, DecisionsKeptUnlessStale

----------------------------------------------------------------------------
(* ResumeInvariant: an agent is resumed once *)

SameResumes ==
    \A i \in Instances : \A n :
        n \in DOMAIN events'[i] /\ events'[i][n] = "resume"
            <=> n \in DOMAIN events[i] /\ events[i][n] = "resume"

\* Another event resumes nobody.
LEMMA EmitOther ==
    ASSUME TypeOK, NEW i \in Instances, NEW e \in Event \ {"resume"}, Emit(i, e)
    PROVE  SameResumes
<1>1. events'[i] = Append(events[i], e) /\ \A x \in Instances \ {i} : events'[x] = events[x]
  BY DEF Emit, TypeOK
<1>2. events[i] \in Seq(Event) /\ e \in Event
  BY DEF TypeOK
<1>3. /\ \A n \in DOMAIN events[i] :
             n \in DOMAIN Append(events[i], e) /\ Append(events[i], e)[n] = events[i][n]
      /\ \A n \in DOMAIN Append(events[i], e) : n \in DOMAIN events[i] \/ Append(events[i], e)[n] = e
  BY <1>2, AppendKeeps
<1>4. QED  BY <1>1, <1>3 DEF SameResumes

\* What is left to show of a step that resumes nobody and decides nothing.
LEMMA ResumeStep ==
    ASSUME ResumeInvariant, NEW p \in Procs, OthersStay(p), SameResumes,
           pc'[p] # "decisionEmit",
           pc'[p] \in {"decisionSave", "timeoutSave"} /\ isAgentApproval(target'[p]) =>
               seenSteps'[p] = <<>>,
           \A i \in Instances : isAgentApproval(i) /\ rows[i].status \in Action =>
               rows'[i].status \in Action
    PROVE  ResumeInvariant'
<1>1. \A i \in Instances : Resumed(i)' <=> Resumed(i)
  BY DEF SameResumes, Resumed
<1>2. AgentResumedOnce'
  BY DEF SameResumes, AgentResumedOnce, ResumeInvariant
<1>3. \A q \in Procs : \A i \in Instances : Resuming(q, i)' => Resuming(q, i)
  BY DEF Resuming, OthersStay
<1>4. ASSUME NEW q \in Procs, pc'[q] \in {"decisionSave", "timeoutSave"},
             isAgentApproval(target'[q])
      PROVE  seenSteps'[q] = <<>>
  <2>1. CASE q = p
    BY <1>4, <2>1
  <2>2. CASE q # p
    <3>1. pc'[q] = pc[q] /\ target'[q] = target[q] /\ seenSteps'[q] = seenSteps[q]
      BY <2>2 DEF OthersStay
    <3>2. QED  BY <1>4, <3>1 DEF ResumeInvariant
  <2>3. QED  BY <2>1, <2>2
<1>5. ASSUME NEW i \in Instances, isAgentApproval(i)
      PROVE  /\ \A q \in Procs : Resuming(q, i)' => rows'[i].status \in Action /\ ~Resumed(i)'
             /\ \A q, r \in Procs : Resuming(q, i)' /\ Resuming(r, i)' => q = r
             /\ Resumed(i)' => rows'[i].status \in Action
  BY <1>1, <1>3, <1>5 DEF ResumeInvariant
<1>6. \A i \in Instances : ~isAgentApproval(i) => ~Resumed(i)'
  BY <1>1 DEF ResumeInvariant
<1>7. QED  BY <1>2, <1>4, <1>5, <1>6 DEF ResumeInvariant, isAgentApproval, Resumed, Resuming

\* The steps that neither write a row nor read steps, nor resume.
LEMMA ResumeQuiet ==
    ASSUME HandlerInvariant, ResumeInvariant, NEW p \in Procs,
           \/ p \in Instances /\ (AnnounceCreated(p) \/ LogPending(p))
           \/ DecisionLog(p) \/ TimeoutEscalated(p) \/ TimeoutLog(p) \/ TimeoutTerminate(p)
           \/ DeleteSteps(p) \/ SaveSteps(p) \/ Abort(p)
    PROVE  ResumeInvariant'
<1> USE DEF AnnounceCreated, LogPending, DecisionLog, TimeoutEscalated, TimeoutLog,
        TimeoutTerminate, DeleteSteps, SaveSteps, Abort, tables, locals, ghosts
<1>1. TypeOK /\ InHand(p)
  BY DEF HandlerInvariant
<1>2. UNCHANGED <<rows, target, seen, seenSteps, who, action>>
  OBVIOUS
<1>3. \E l \in {"logPending", "returned", "timeoutTerminate", "saveSteps", "thrown"} :
          pc' = [pc EXCEPT ![p] = l]
  OBVIOUS
<1>4. \/ events' = events
      \/ \E i \in Instances : \E e \in Event \ {"resume"} : Emit(i, e)
  BY <1>1 DEF InHand, TargetLabel, Event
<1> HIDE DEF AnnounceCreated, LogPending, DecisionLog, TimeoutEscalated, TimeoutLog,
         TimeoutTerminate, DeleteSteps, SaveSteps, Abort
<1>5. SameResumes
  <2>1. CASE events' = events
    BY <2>1 DEF SameResumes
  <2>2. CASE \E i \in Instances : \E e \in Event \ {"resume"} : Emit(i, e)
    BY <1>1, <2>2, EmitOther
  <2>3. QED  BY <1>4, <2>1, <2>2
<1>6. OthersStay(p) /\ pc'[p] \notin {"decisionEmit", "decisionSave", "timeoutSave"}
  BY <1>1, <1>2, <1>3 DEF OthersStay, TypeOK
<1>7. QED  BY <1>2, <1>5, <1>6, ResumeStep

\* Nor do the reads: agent approvals have no steps.
LEMMA ResumeRead ==
    ASSUME HandlerInvariant, ResumeInvariant, NEW p \in Procs,
           DecisionRead(p) \/ TimeoutRead(p) \/ DecisionSteps(p) \/ TimeoutSteps(p)
    PROVE  ResumeInvariant'
<1> USE DEF DecisionRead, TimeoutRead, DecisionSteps, TimeoutSteps, tables, ghosts
<1>1. TypeOK
  BY DEF HandlerInvariant
<1>2. UNCHANGED <<rows, events>>
  OBVIOUS
<1>3. SameResumes
  BY <1>2 DEF SameResumes
<1>4. OthersStay(p) /\ pc'[p] # "decisionEmit"
  BY <1>1 DEF OthersStay, TypeOK
<1>5. pc'[p] \in {"decisionSave", "timeoutSave"} /\ isAgentApproval(target'[p]) =>
          seenSteps'[p] = <<>>
  <2>1. CASE DecisionRead(p) \/ TimeoutRead(p)
    BY <1>1, <2>1 DEF TypeOK
  <2>2. CASE DecisionSteps(p) \/ TimeoutSteps(p)
    <3>1. target' = target /\ seenSteps'[p] = getStepsForInstance(target[p])
      BY <1>1, <2>2 DEF TypeOK
    <3>2. QED  BY <3>1 DEF getStepsForInstance, isAgentApproval
  <2>3. QED  BY <2>1, <2>2
<1>6. QED  BY <1>2, <1>3, <1>4, <1>5, ResumeStep

\* A new row is PENDING; nobody has decided it.
LEMMA ResumeCreate ==
    ASSUME HandlerInvariant, ResumeInvariant, NEW i \in Instances, CreateInstance(i)
    PROVE  ResumeInvariant'
<1> USE DEF CreateInstance, locals, ghosts
<1>1. TypeOK /\ i \in Procs /\ rows[i] = NoRow
  BY DEF HandlerInvariant, NotCreated
<1>2. SameResumes
  BY DEF SameResumes
<1>3. OthersStay(i) /\ pc'[i] \notin {"decisionEmit", "decisionSave", "timeoutSave"}
  BY <1>1 DEF OthersStay, TypeOK
<1>4. \A x \in Instances : rows[x].status \in Action => rows'[x].status \in Action
  <2>1. rows[i].status \notin Action
    BY <1>1 DEF NoRow, Action
  <2>2. \A x \in Instances \ {i} : rows'[x] = rows[x]
    BY <1>1 DEF TypeOK
  <2>3. QED  BY <2>1, <2>2
<1>5. QED  BY <1>1, <1>2, <1>3, <1>4, ResumeStep

\* A timeout decides an agent approval, whatever it holds, against the agent.
LEMMA ResumeTimeoutSave ==
    ASSUME HandlerInvariant, ResumeInvariant, NEW t \in Timers, TimeoutSave(t)
    PROVE  ResumeInvariant'
<1> DEFINE i == target[t]
           written == TimedOut(seen[t], seenSteps[t])
<1>1. t \in Procs /\ TypeOK /\ pc[t] = "timeoutSave" /\ seen[t] \in Row
      /\ seenSteps[t] \in Seq(Step)
  BY DEF HandlerInvariant, TypeOK, TimeoutSave
<1>2. UNCHANGED <<events, target, seenSteps, who, action>>
  BY DEF TimeoutSave
<1>3. /\ i \in Instances
      /\ rows' = [rows EXCEPT ![i] = written]
      /\ seen' = [seen EXCEPT ![t] = written]
      /\ \E l \in {"timeoutEscalated", "timeoutLog", "returned"} : pc' = [pc EXCEPT ![t] = l]
  BY TimeoutWrite
<1>4. isAgentApproval(i) => written.status \in Action
  <2>1. SUFFICES ASSUME isAgentApproval(i) PROVE written.status \in Action
    OBVIOUS
  <2>2. seenSteps[t] = <<>> /\ seen[t].step \in Nat
    BY <1>1, <2>1 DEF ResumeInvariant, Row
  <2>3. ~(seen[t].step + 1 < Len(seenSteps[t]))
    BY <2>2
  <2>4. written.status = "REJECTED"
    BY <1>1, <2>3, TimedOutWrites
  <2>5. QED  BY <2>4 DEF Action
<1> HIDE DEF written
<1>5. OthersStay(t) /\ pc'[t] \notin {"decisionEmit", "decisionSave", "timeoutSave"}
  BY <1>1, <1>2, <1>3 DEF OthersStay, TypeOK
<1>6. \A x \in Instances : isAgentApproval(x) /\ rows[x].status \in Action =>
          rows'[x].status \in Action
  BY <1>1, <1>3, <1>4 DEF TypeOK
<1>7. SameResumes
  BY <1>2 DEF SameResumes
<1>8. QED  BY <1>1, <1>5, <1>6, <1>7, ResumeStep

\* The first writer of an agent approval is the only one, and nobody has
\* resumed the agent before it.
LEMMA ResumeDecisionSave ==
    ASSUME HandlerInvariant, ResumeInvariant, NEW d \in Deciders, DecisionSave(d)
    PROVE  ResumeInvariant'
<1> DEFINE i == target[d]
           written == Decided(seen[d], seenSteps[d], action[d], who[d])
<1>1. /\ d \in Procs /\ TypeOK /\ pc[d] = "decisionSave" /\ seen[d] \in Row
      /\ seenSteps[d] \in Seq(Step) /\ action[d] \in Action /\ who[d] \in Users
  BY DEF HandlerInvariant, TypeOK, DecisionSave, InHand, DecideLabel
<1>2. UNCHANGED <<events, target, seenSteps, who, action>>
  BY DEF DecisionSave
<1>3. /\ i \in Instances
      /\ \/ /\ rows[i].status = "PENDING" /\ rows' = [rows EXCEPT ![i] = written]
            /\ seen' = [seen EXCEPT ![d] = written] /\ pc' = [pc EXCEPT ![d] = "decisionEmit"]
         \/ rows' = rows /\ seen' = seen /\ pc' = [pc EXCEPT ![d] = "thrown"]
  BY DecisionWrite
<1>4. isAgentApproval(i) => written.status \in Action
  <2>1. SUFFICES ASSUME isAgentApproval(i) PROVE written.status \in Action
    OBVIOUS
  <2>2. seenSteps[d] = <<>> /\ seen[d].step \in Nat
    BY <1>1, <2>1 DEF ResumeInvariant, Row
  <2>3. ~(seen[d].step + 1 < Len(seenSteps[d]))
    BY <2>2
  <2>4. written.status = action[d]
    BY <1>1, <2>3, DecidedWrites
  <2>5. QED  BY <1>1, <2>4
<1> HIDE DEF written
<1>5. SameResumes
  BY <1>2 DEF SameResumes
<1>6. OthersStay(d) /\ pc'[d] \notin {"decisionSave", "timeoutSave"}
  BY <1>1, <1>2, <1>3 DEF OthersStay, TypeOK
<1>7. CASE pc' = [pc EXCEPT ![d] = "thrown"] /\ rows' = rows
  <2>1. pc'[d] # "decisionEmit"
    BY <1>1, <1>7 DEF TypeOK
  <2>2. QED  BY <1>1, <1>5, <1>6, <1>7, <2>1, ResumeStep
<1>8. CASE rows[i].status = "PENDING" /\ rows' = [rows EXCEPT ![i] = written]
  <2>1. rows'[i] = written /\ \A x \in Instances \ {i} : rows'[x] = rows[x]
    BY <1>1, <1>3, <1>8 DEF TypeOK
  <2>2. \A x \in Instances : Resumed(x)' <=> Resumed(x)
    BY <1>2 DEF Resumed
  <2>3. \A q \in Procs : \A x \in Instances :
            Resuming(q, x)' => Resuming(q, x) \/ (q = d /\ x = i)
    BY <1>2, <1>6 DEF Resuming, OthersStay
  <2>4. isAgentApproval(i) => ~Resumed(i) /\ \A q \in Procs : ~Resuming(q, i)
    BY <1>3, <1>8 DEF ResumeInvariant, Action
  <2>5. ASSUME NEW x \in Instances, isAgentApproval(x)
        PROVE  /\ \A q \in Procs : Resuming(q, x)' => rows'[x].status \in Action /\ ~Resumed(x)'
               /\ \A q, r \in Procs : Resuming(q, x)' /\ Resuming(r, x)' => q = r
               /\ Resumed(x)' => rows'[x].status \in Action
    BY <1>4, <2>1, <2>2, <2>3, <2>4, <2>5 DEF ResumeInvariant
  <2>6. \A q \in Procs : pc'[q] \in {"decisionSave", "timeoutSave"} /\ isAgentApproval(target'[q])
            => seenSteps'[q] = <<>>
    BY <1>2, <1>6 DEF OthersStay, ResumeInvariant
  <2>7. AgentResumedOnce' /\ \A x \in Instances : ~isAgentApproval(x) => ~Resumed(x)'
    BY <1>2, <2>2 DEF ResumeInvariant, AgentResumedOnce
  <2>8. QED  BY <2>5, <2>6, <2>7 DEF ResumeInvariant, isAgentApproval, Resumed, Resuming
<1>9. QED  BY <1>3, <1>7, <1>8

\* The decider that resumes the agent is the only one to.
LEMMA ResumeDecisionEmit ==
    ASSUME HandlerInvariant, ResumeInvariant, NEW d \in Deciders, DecisionEmit(d)
    PROVE  ResumeInvariant'
<1> DEFINE i == target[d]
<1>1. d \in Procs /\ TypeOK /\ pc[d] = "decisionEmit" /\ i \in Instances
  BY DEF HandlerInvariant, DecisionEmit, InHand, TargetLabel
<1>2. UNCHANGED <<rows, target, seen, seenSteps, who, action>>
  BY DEF DecisionEmit, locals
<1>3. \E l \in {"returned", "decisionLog"} : pc' = [pc EXCEPT ![d] = l]
  BY DEF DecisionEmit
<1>4. \/ events' = events
      \/ \E e \in Event \ {"resume"} : Emit(i, e)
      \/ isAgentApproval(i) /\ Emit(i, "resume")
  BY DEF DecisionEmit, Event
<1>5. OthersStay(d) /\ pc'[d] \notin {"decisionEmit", "decisionSave", "timeoutSave"}
  BY <1>1, <1>2, <1>3 DEF OthersStay, TypeOK
<1>6. CASE events' = events \/ \E e \in Event \ {"resume"} : Emit(i, e)
  <2>1. SameResumes
    <3>1. CASE events' = events
      BY <3>1 DEF SameResumes
    <3>2. CASE \E e \in Event \ {"resume"} : Emit(i, e)
      BY <1>1, <3>2, EmitOther
    <3>3. QED  BY <1>6, <3>1, <3>2
  <2>2. QED  BY <1>1, <1>2, <1>5, <2>1, ResumeStep
<1>7. CASE isAgentApproval(i) /\ Emit(i, "resume")
  <2>1. /\ events[i] \in Seq(Event)
        /\ events'[i] = Append(events[i], "resume")
        /\ \A x \in Instances \ {i} : events'[x] = events[x]
    BY <1>1, <1>7 DEF Emit, TypeOK
  <2>2. Resuming(d, i)
    BY <1>1 DEF Resuming
  <2>3. rows[i].status \in Action /\ ~Resumed(i)
    BY <1>1, <1>7, <2>2 DEF ResumeInvariant
  <2>4. \A q \in Procs : ~Resuming(q, i)'
    <3>1. \A q \in Procs \ {d} : ~Resuming(q, i)
      BY <1>1, <1>7, <2>2 DEF ResumeInvariant
    <3>2. QED  BY <1>2, <1>5, <3>1 DEF Resuming, OthersStay
  <2>5. \A q \in Procs : \A x \in Instances : Resuming(q, x)' => Resuming(q, x) /\ x # i
    BY <1>2, <1>5, <2>4 DEF Resuming, OthersStay
  <2>6. \A x \in Instances \ {i} : Resumed(x)' <=> Resumed(x)
    BY <2>1 DEF Resumed
  <2>7. AgentResumedOnce'
    <3>1. \A n \in DOMAIN events'[i] : events'[i][n] = "resume" => n \notin DOMAIN events[i]
      BY <2>1, <2>3, AppendKeeps DEF Resumed, Event
    <3>2. \A m, n \in DOMAIN events'[i] \ DOMAIN events[i] : m = n
      BY <2>1, AppendKeeps DEF Event
    <3>3. QED  BY <2>1, <3>1, <3>2 DEF ResumeInvariant, AgentResumedOnce
  <2>8. ASSUME NEW x \in Instances, isAgentApproval(x)
        PROVE  /\ \A q \in Procs : Resuming(q, x)' => rows'[x].status \in Action /\ ~Resumed(x)'
               /\ \A q, r \in Procs : Resuming(q, x)' /\ Resuming(r, x)' => q = r
               /\ Resumed(x)' => rows'[x].status \in Action
    BY <1>2, <2>3, <2>5, <2>6, <2>8 DEF ResumeInvariant
  <2>9. \A x \in Instances : ~isAgentApproval(x) => ~Resumed(x)'
    BY <1>7, <2>6 DEF ResumeInvariant
  <2>10. \A q \in Procs : pc'[q] \in {"decisionSave", "timeoutSave"} /\ isAgentApproval(target'[q])
             => seenSteps'[q] = <<>>
    BY <1>2, <1>5 DEF OthersStay, ResumeInvariant
  <2>11. QED  BY <2>7, <2>8, <2>9, <2>10 DEF ResumeInvariant, isAgentApproval, Resumed, Resuming
<1>8. QED  BY <1>4, <1>6, <1>7

\* Every step keeps ResumeInvariant.
LEMMA NextResume == HandlerInvariant /\ ResumeInvariant /\ [Next]_vars => ResumeInvariant'
<1> SUFFICES ASSUME HandlerInvariant, ResumeInvariant, [Next]_vars PROVE ResumeInvariant'
  OBVIOUS
<1>1. ASSUME NEW i \in Instances, CreateInstance(i) \/ CreateStep(i) PROVE ResumeInvariant'
  BY <1>1, ResumeCreate, ResumeQuiet DEF CreateStep
<1>2. ASSUME NEW d \in Deciders, DecisionRead(d) \/ DecisionStep(d) PROVE ResumeInvariant'
  BY <1>2, ResumeQuiet, ResumeRead, ResumeDecisionSave, ResumeDecisionEmit DEF DecisionStep
<1>3. ASSUME NEW t \in Timers, TimeoutRead(t) \/ TimeoutStep(t) PROVE ResumeInvariant'
  BY <1>3, ResumeQuiet, ResumeRead, ResumeTimeoutSave DEF TimeoutStep
<1>4. ASSUME NEW a \in Admins, DeleteSteps(a) \/ SaveSteps(a) PROVE ResumeInvariant'
  BY <1>4, ResumeQuiet
<1>5. ASSUME NEW p \in Procs, Abort(p) PROVE ResumeInvariant'
  BY <1>5, ResumeQuiet
<1>6. CASE UNCHANGED vars
  BY <1>6 DEF vars, ResumeInvariant, Resuming, Resumed, AgentResumedOnce, isAgentApproval
<1>7. QED  BY <1>1, <1>2, <1>3, <1>4, <1>5, <1>6 DEF Next

\* The paused tool call of an execution is released at most once, however
\* decisions, timeouts, reconfigurations and faults interleave.
THEOREM ResumedOnce == Spec => []AgentResumedOnce
<1>1. Init => ResumeInvariant
  BY DEF Init, ResumeInvariant, Resuming, Resumed, AgentResumedOnce
<1>2. ResumeInvariant => AgentResumedOnce
  BY DEF ResumeInvariant
<1>3. QED  BY <1>1, <1>2, NextResume, HandlerInvariance, PTL DEF Spec

=============================================================================
