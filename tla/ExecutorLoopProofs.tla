------------------------- MODULE ExecutorLoopProofs -------------------------
(***************************************************************************)
(* TLAPS proofs about ExecutorLoop: for any number of runs, console        *)
(* decisions, iterations and faults and for every policy, only permitted   *)
(* tools run, and approvals decided one at a time are spent once.          *)
(***************************************************************************)
EXTENDS ExecutorLoop, TLAPS

USE DEF At, Goto, Set, Put, Procs

----------------------------------------------------------------------------
(* Facts about the tables *)

\* A sequence is a function on the numbers up to its length.
LEMMA SequenceIsFunction ==
    ASSUME NEW S, NEW s \in Seq(S)
    PROVE  s \in [1..Len(s) -> S] /\ Len(s) \in Nat /\ DOMAIN s = 1..Len(s)
  OBVIOUS

\* Table g is table f with row v appended to the rows of run r.
Appended(f, g, r, v) ==
    /\ \A x \in Runs : \A k \in DOMAIN f[x] : k \in DOMAIN g[x] /\ g[x][k] = f[x][k]
    /\ \A x \in Runs : \A k \in DOMAIN g[x] \ DOMAIN f[x] :
           x = r /\ k = Len(f[r]) + 1 /\ g[x][k] = v
    /\ Len(f[r]) + 1 \in DOMAIN g[r] \ DOMAIN f[r]

\* Put appends, and keeps the type of the table.
LEMMA PutKeeps ==
    ASSUME NEW S, NEW f \in [Runs -> Seq(S)], NEW r \in Runs, NEW v \in S
    PROVE  Put(f, r, v) \in [Runs -> Seq(S)] /\ Appended(f, Put(f, r, v), r, v)
<1>1. f[r] \in Seq(S) /\ Append(f[r], v) \in Seq(S)
  OBVIOUS
<1>2. DOMAIN f[r] = 1..Len(f[r]) /\ Len(f[r]) \in Nat
      /\ DOMAIN Append(f[r], v) = 1..(Len(f[r]) + 1)
  BY <1>1
<1>3. \A k \in DOMAIN f[r] : k \in DOMAIN Append(f[r], v) /\ Append(f[r], v)[k] = f[r][k]
  BY <1>1
<1>4. Append(f[r], v)[Len(f[r]) + 1] = v
  BY <1>1
<1>5. QED  BY <1>1, <1>2, <1>3, <1>4 DEF Appended

\* Writing one element keeps a sequence well typed, and keeps the others.
LEMMA ReplaceKeeps ==
    ASSUME NEW S, NEW s \in Seq(S), NEW k \in DOMAIN s, NEW u \in S
    PROVE  /\ [s EXCEPT ![k] = u] \in Seq(S)
           /\ DOMAIN [s EXCEPT ![k] = u] = DOMAIN s
           /\ \A m \in DOMAIN s : [s EXCEPT ![k] = u][m] = IF m = k THEN u ELSE s[m]
  BY SequenceIsFunction

----------------------------------------------------------------------------
(* The invariants *)

DecideLabel == {"decideRow", "resumeRead", "resumeRunning", "resumeSteps"}
CallLabel == {"beginCall", "executeTool"}
LoopLabel == {"enqueueStarted", "loop", "persistFinish", "createApproval", "markPaused",
              "enqueuePaused", "finalUpdate", "finalEnqueue"}

\* What the policy, and for L2 and L3 a human, say to tool t under grant k.
Permitted(r, t, k) ==
    /\ t \in AllowedTools \ BlockedTools
    /\ RiskOf[t] # "L4"
    /\ RiskOf[t] \in {"L2", "L3"} =>
           k \in approved[r] /\ k \in DOMAIN approvals[r] /\ approvals[r][k].tool = t

\* Every approval is about a tool that needs one.
ApprovalRows ==
    \A r \in Runs : \A k \in DOMAIN approvals[r] : gateToolCall(approvals[r][k].tool) = "pause"

\* What a handler has in hand at each of its awaits.
InHand(p) ==
    /\ p \in Runs => target[p] = p /\ grant[p] = 0 /\ pc[p] \notin DecideLabel \cup {"conflict"}
    /\ pc[p] # "idle" => target[p] \in Runs
    /\ pc[p] \in LoopLabel => grant[p] = 0
    /\ pc[p] = "createApproval" => tool[p] \in Tools /\ gateToolCall(tool[p]) = "pause"
    /\ pc[p] \in DecideLabel =>
           /\ grant[p] \in DOMAIN approvals[target[p]]
           /\ tool[p] = approvals[target[p]][grant[p]].tool
           /\ decision[p] \in {"APPROVED", "REJECTED"}
           /\ decision[p] = "APPROVED" => grant[p] \in approved[target[p]]
    /\ pc[p] \in DecideLabel \ {"decideRow"} => decision[p] = "APPROVED"
    /\ pc[p] \in CallLabel => tool[p] \in Tools /\ Permitted(target[p], tool[p], grant[p])
    /\ pc[p] \in {"executeTool", "finalizeCall"} => call[p] \in DOMAIN calls[target[p]]
    /\ pc[p] \in {"finalUpdate", "finalEnqueue"} => final[p] \in ExecutionStatus

\* The inductive invariant behind ToolsRunWhenPermitted.
LoopInvariant ==
    /\ TypeOK
    /\ ApprovalRows
    /\ \A p \in Procs : InHand(p)
    /\ ToolsRunWhenPermitted

\* A decider that may still run its tool under an approval has not run it, and
\* once past decideRow that approval is decided.
Unspent(p) ==
    pc[p] \in DecideLabel \cup CallLabel /\ grant[p] > 0 =>
        /\ \A n \in DOMAIN ran[target[p]] : ran[target[p]][n].grant # grant[p]
        /\ grant[p] \in DOMAIN approvals[target[p]]
        /\ pc[p] # "decideRow" => approvals[target[p]][grant[p]].status # "PENDING"

\* While decisions do not overlap there is one decider per run, and what is
\* spent is decided.
SerialInvariant ==
    ~overlapped =>
        /\ \A r \in Runs : \A d, e \in Deciders : Deciding(d, r) /\ Deciding(e, r) => d = e
        /\ \A p \in Deciders : Unspent(p)
        /\ \A r \in Runs : \A n \in DOMAIN ran[r] :
               ran[r][n].grant > 0 =>
                   /\ ran[r][n].grant \in DOMAIN approvals[r]
                   /\ approvals[r][ran[r][n].grant].status # "PENDING"
        /\ \A r \in Runs : SpentOnce(r)

----------------------------------------------------------------------------
(* LoopInvariant is inductive *)

\* The tables only grow: rows keep their tool, acceptances are kept.
Grows ==
    \A r \in Runs :
        /\ DOMAIN approvals[r] \subseteq DOMAIN approvals'[r]
        /\ \A k \in DOMAIN approvals[r] : approvals'[r][k].tool = approvals[r][k].tool
        /\ approved[r] \subseteq approved'[r]
        /\ DOMAIN calls[r] \subseteq DOMAIN calls'[r]

\* A step of p leaves the other handlers where they are.
OthersStay(p) ==
    \A q \in Procs \ {p} :
        /\ pc'[q] = pc[q] /\ target'[q] = target[q] /\ tool'[q] = tool[q]
        /\ grant'[q] = grant[q] /\ call'[q] = call[q] /\ final'[q] = final[q]
        /\ decision'[q] = decision[q]

\* While the tables grow, what the other handlers have in hand stays good.
LEMMA OthersKeep ==
    ASSUME NEW p \in Procs, NEW q \in Procs \ {p}, InHand(q), OthersStay(p), Grows
    PROVE  InHand(q)'
<1>1. /\ pc'[q] = pc[q] /\ target'[q] = target[q] /\ tool'[q] = tool[q]
      /\ grant'[q] = grant[q] /\ call'[q] = call[q] /\ final'[q] = final[q]
      /\ decision'[q] = decision[q]
  BY DEF OthersStay
<1>2. CASE pc[q] = "idle"
  BY <1>1, <1>2 DEF InHand, DecideLabel, CallLabel, LoopLabel
<1>3. CASE pc[q] # "idle"
  <2>1. target[q] \in Runs
    BY <1>3 DEF InHand
  <2>2. /\ DOMAIN approvals[target[q]] \subseteq DOMAIN approvals'[target[q]]
        /\ \A k \in DOMAIN approvals[target[q]] :
               approvals'[target[q]][k].tool = approvals[target[q]][k].tool
        /\ approved[target[q]] \subseteq approved'[target[q]]
        /\ DOMAIN calls[target[q]] \subseteq DOMAIN calls'[target[q]]
    BY <2>1 DEF Grows
  <2>3. pc[q] \in CallLabel => Permitted(target[q], tool[q], grant[q])'
    BY <1>1, <2>2 DEF InHand, Permitted
  <2>4. QED  BY <1>1, <2>1, <2>2, <2>3 DEF InHand
<1>4. QED  BY <1>2, <1>3

\* While the tables grow, an invocation that was permitted stays so.
LEMMA RanKeeps ==
    ASSUME ToolsRunWhenPermitted, Grows, ran' = ran
    PROVE  ToolsRunWhenPermitted'
  BY DEF ToolsRunWhenPermitted, Grows

\* What is left to show of a step that invokes no tool.
LEMMA StepKeeps ==
    ASSUME LoopInvariant, NEW p \in Procs, OthersStay(p), Grows, ran' = ran,
           TypeOK', ApprovalRows', InHand(p)'
    PROVE  LoopInvariant'
<1>1. \A q \in Procs : InHand(q)'
  BY OthersKeep DEF LoopInvariant
<1>2. QED  BY <1>1, RanKeeps DEF LoopInvariant

\* The same of a step that writes neither approvals nor records.
LEMMA QuietStepKeeps ==
    ASSUME LoopInvariant, NEW p \in Procs, OthersStay(p),
           UNCHANGED <<approvals, approved, calls, ran>>, TypeOK', InHand(p)'
    PROVE  LoopInvariant'
<1>1. Grows
  BY DEF Grows
<1>2. ApprovalRows'
  BY DEF LoopInvariant, ApprovalRows
<1>3. QED  BY <1>1, <1>2, StepKeeps

\* The type of a table after an append.
LEMMA PutTyped ==
    ASSUME TypeOK, NEW r \in Runs
    PROVE  /\ \A e \in {"started", "paused", "completed", "failed"} :
                  Put(outbox, r, e) \in [Runs -> Seq({"started", "paused", "completed", "failed"})]
           /\ \A n \in Nat : Put(steps, r, n) \in [Runs -> Seq(Nat)]
           /\ \A c \in CallRecord : Put(calls, r, c) \in [Runs -> Seq(CallRecord)]
           /\ \A a \in ApprovalRow : Put(approvals, r, a) \in [Runs -> Seq(ApprovalRow)]
           /\ \A i \in Invocation : Put(ran, r, i) \in [Runs -> Seq(Invocation)]
<1> HIDE DEF Put
<1>1. QED  BY PutKeeps DEF TypeOK

\* run(): the row is created ...
LEMMA SaveExecutionKeeps ==
    ASSUME LoopInvariant, NEW r \in Runs, SaveExecution(r)
    PROVE  LoopInvariant'
<1> USE DEF LoopInvariant, SaveExecution, TypeOK, ghosts, context
<1>1. r \in Procs /\ InHand(r)
  OBVIOUS
<1>2. TypeOK'
  BY DEF Label, ExecutionStatus
<1>3. OthersStay(r) /\ UNCHANGED <<approvals, approved, calls, ran>>
  BY <1>1 DEF OthersStay
<1>4. InHand(r)'
  BY <1>1 DEF InHand, DecideLabel, CallLabel, LoopLabel
<1>5. QED  BY <1>1, <1>2, <1>3, <1>4, QuietStepKeeps

\* ... and announced.
LEMMA EnqueueStartedKeeps ==
    ASSUME LoopInvariant, NEW r \in Runs, EnqueueStarted(r)
    PROVE  LoopInvariant'
<1> USE DEF LoopInvariant, EnqueueStarted, ghosts, context
<1>1. r \in Procs /\ InHand(r)
  OBVIOUS
<1>2. TypeOK'
  BY PutTyped DEF TypeOK, Label
<1>3. OthersStay(r) /\ UNCHANGED <<approvals, approved, calls, ran>>
  BY <1>1 DEF OthersStay, TypeOK
<1>4. InHand(r)'
  BY <1>1 DEF InHand, TypeOK, DecideLabel, CallLabel, LoopLabel
<1>5. QED  BY <1>1, <1>2, <1>3, <1>4, QuietStepKeeps

\* The step budget is used up.
LEMMA IterationsExhaustedKeeps ==
    ASSUME LoopInvariant, NEW p \in Procs, IterationsExhausted(p)
    PROVE  LoopInvariant'
<1> USE DEF LoopInvariant, IterationsExhausted, ghosts, context, tables, Return
<1>1. p \in Procs /\ InHand(p) /\ target[p] \in Runs
  BY DEF InHand
<1>2. TypeOK'
  BY <1>1 DEF TypeOK, Label, ExecutionStatus
<1>3. OthersStay(p) /\ UNCHANGED <<approvals, approved, calls, ran>>
  BY <1>1 DEF OthersStay, TypeOK
<1>4. InHand(p)'
  BY <1>1 DEF InHand, TypeOK, DecideLabel, CallLabel, LoopLabel, ExecutionStatus
<1>5. QED  BY <1>1, <1>2, <1>3, <1>4, QuietStepKeeps

\* The model gives no usable answer.
LEMMA ModelUnusableKeeps ==
    ASSUME LoopInvariant, NEW p \in Procs, ModelUnusable(p)
    PROVE  LoopInvariant'
<1> USE DEF LoopInvariant, ModelUnusable, ghosts, context, tables, Return
<1>1. p \in Procs /\ InHand(p) /\ target[p] \in Runs
  BY DEF InHand
<1>2. TypeOK'
  BY <1>1 DEF TypeOK, Label, ExecutionStatus
<1>3. OthersStay(p) /\ UNCHANGED <<approvals, approved, calls, ran>>
  BY <1>1 DEF OthersStay, TypeOK
<1>4. InHand(p)'
  BY <1>1 DEF InHand, TypeOK, DecideLabel, CallLabel, LoopLabel, ExecutionStatus
<1>5. QED  BY <1>1, <1>2, <1>3, <1>4, QuietStepKeeps

\* An answer without an action throws the handler out of the loop.
LEMMA ModelWithoutActionKeeps ==
    ASSUME LoopInvariant, NEW p \in Procs, ModelWithoutAction(p)
    PROVE  LoopInvariant'
<1> USE DEF LoopInvariant, ModelWithoutAction, ghosts, context, tables
<1>1. p \in Procs /\ InHand(p) /\ target[p] \in Runs
  BY DEF InHand
<1>2. TypeOK'
  BY <1>1 DEF TypeOK, Label, Finished
<1>3. OthersStay(p) /\ UNCHANGED <<approvals, approved, calls, ran>>
  BY <1>1 DEF OthersStay, TypeOK
<1>4. InHand(p)'
  BY <1>1 DEF InHand, TypeOK, DecideLabel, CallLabel, LoopLabel
<1>5. QED  BY <1>1, <1>2, <1>3, <1>4, QuietStepKeeps

\* The model ends the run.
LEMMA ModelFinishKeeps ==
    ASSUME LoopInvariant, NEW p \in Procs, ModelFinish(p)
    PROVE  LoopInvariant'
<1> USE DEF LoopInvariant, ModelFinish, ghosts, context, tables
<1>1. p \in Procs /\ InHand(p) /\ target[p] \in Runs
  BY DEF InHand
<1>2. TypeOK'
  BY <1>1 DEF TypeOK, Label
<1>3. OthersStay(p) /\ UNCHANGED <<approvals, approved, calls, ran>>
  BY <1>1 DEF OthersStay, TypeOK
<1>4. InHand(p)'
  BY <1>1 DEF InHand, TypeOK, DecideLabel, CallLabel, LoopLabel
<1>5. QED  BY <1>1, <1>2, <1>3, <1>4, QuietStepKeeps

\* A call is refused, paused or let through by gateToolCall.
LEMMA ModelToolCallKeeps ==
    ASSUME LoopInvariant, NEW p \in Procs, ModelToolCall(p)
    PROVE  LoopInvariant'
<1> USE DEF LoopInvariant, ModelToolCall, ghosts, context, tables
<1>1. p \in Procs /\ InHand(p) /\ target[p] \in Runs
  BY DEF InHand
<1>2. TypeOK'
  <2>1. PICK t \in Tools :
            /\ tool' = [tool EXCEPT ![p] = t]
            /\ \E l \in {"persistStep", "createApproval", "beginCall"} : pc' = [pc EXCEPT ![p] = l]
    BY DEF gateToolCall
  <2>2. tool' \in [Procs -> Tools \cup {None}] /\ pc' \in [Procs -> Label]
    BY <2>1 DEF TypeOK, Label
  <2>3. QED  BY <2>2 DEF TypeOK
<1>3. OthersStay(p) /\ UNCHANGED <<approvals, approved, calls, ran>>
  BY <1>1 DEF OthersStay, TypeOK
<1>4. InHand(p)'
  BY <1>1, ExecutorAssumption DEF InHand, TypeOK, DecideLabel, CallLabel, LoopLabel, Permitted,
     gateToolCall, checkToolAccess
<1>5. QED  BY <1>1, <1>2, <1>3, <1>4, QuietStepKeeps

\* The finish step is persisted.
LEMMA PersistFinishKeeps ==
    ASSUME LoopInvariant, NEW p \in Procs, PersistFinish(p)
    PROVE  LoopInvariant'
<1> USE DEF LoopInvariant, PersistFinish, ghosts, context, Return
<1>1. p \in Procs /\ InHand(p) /\ target[p] \in Runs
  BY DEF InHand
<1>2. TypeOK'
  <2>1. length[p] \in Nat /\ length[p] + 1 \in Nat
    BY DEF TypeOK
  <2>2. steps' \in [Runs -> Seq(Nat)]
    BY <1>1, <2>1, PutTyped
  <2>3. length' \in [Procs -> Nat] /\ pc' \in [Procs -> Label]
        /\ final' \in [Procs -> ExecutionStatus \cup {None}]
    BY <2>1 DEF TypeOK, Label, ExecutionStatus
  <2>4. QED  BY <2>2, <2>3 DEF TypeOK
<1>3. OthersStay(p) /\ UNCHANGED <<approvals, approved, calls, ran>>
  BY <1>1 DEF OthersStay, TypeOK
<1>4. InHand(p)'
  BY <1>1 DEF InHand, TypeOK, DecideLabel, CallLabel, LoopLabel, ExecutionStatus
<1>5. QED  BY <1>1, <1>2, <1>3, <1>4, QuietStepKeeps

\* A tool step is persisted.
LEMMA PersistStepKeeps ==
    ASSUME LoopInvariant, NEW p \in Procs, PersistStep(p)
    PROVE  LoopInvariant'
<1> USE DEF LoopInvariant, PersistStep, ghosts, context
<1>1. p \in Procs /\ InHand(p) /\ target[p] \in Runs
  BY DEF InHand
<1>2. TypeOK'
  <2>1. length[p] \in Nat /\ length[p] + 1 \in Nat
    BY DEF TypeOK
  <2>2. steps' \in [Runs -> Seq(Nat)]
    BY <1>1, <2>1, PutTyped
  <2>3. length' \in [Procs -> Nat] /\ pc' \in [Procs -> Label] /\ grant' \in [Procs -> Nat]
    BY <2>1 DEF TypeOK, Label
  <2>4. QED  BY <2>2, <2>3 DEF TypeOK
<1>3. OthersStay(p) /\ UNCHANGED <<approvals, approved, calls, ran>>
  BY <1>1 DEF OthersStay, TypeOK
<1>4. InHand(p)'
  BY <1>1 DEF InHand, TypeOK, DecideLabel, CallLabel, LoopLabel
<1>5. QED  BY <1>1, <1>2, <1>3, <1>4, QuietStepKeeps

\* The execution row is paused, if the transition is declared.
LEMMA MarkPausedKeeps ==
    ASSUME LoopInvariant, NEW p \in Procs, MarkPaused(p)
    PROVE  LoopInvariant'
<1> USE DEF LoopInvariant, MarkPaused, ghosts, context
<1>1. p \in Procs /\ InHand(p) /\ target[p] \in Runs
  BY DEF InHand
<1>2. TypeOK'
  BY <1>1 DEF TypeOK, Label, Finished, ExecutionStatus
<1>3. OthersStay(p) /\ UNCHANGED <<approvals, approved, calls, ran>>
  BY <1>1 DEF OthersStay, TypeOK
<1>4. InHand(p)'
  BY <1>1 DEF InHand, TypeOK, DecideLabel, CallLabel, LoopLabel
<1>5. QED  BY <1>1, <1>2, <1>3, <1>4, QuietStepKeeps

\* The pause is announced.
LEMMA EnqueuePausedKeeps ==
    ASSUME LoopInvariant, NEW p \in Procs, EnqueuePaused(p)
    PROVE  LoopInvariant'
<1> USE DEF LoopInvariant, EnqueuePaused, ghosts, context, Return
<1>1. p \in Procs /\ InHand(p) /\ target[p] \in Runs
  BY DEF InHand
<1>2. TypeOK'
  BY <1>1, PutTyped DEF TypeOK, Label, ExecutionStatus
<1>3. OthersStay(p) /\ UNCHANGED <<approvals, approved, calls, ran>>
  BY <1>1 DEF OthersStay, TypeOK
<1>4. InHand(p)'
  BY <1>1 DEF InHand, TypeOK, DecideLabel, CallLabel, LoopLabel, ExecutionStatus
<1>5. QED  BY <1>1, <1>2, <1>3, <1>4, QuietStepKeeps

\* The status runLoop returned is written.
LEMMA FinalUpdateKeeps ==
    ASSUME LoopInvariant, NEW p \in Procs, FinalUpdate(p)
    PROVE  LoopInvariant'
<1> USE DEF LoopInvariant, FinalUpdate, ghosts, context
<1>1. p \in Procs /\ InHand(p) /\ target[p] \in Runs
  BY DEF InHand
<1>2. TypeOK'
  BY <1>1 DEF TypeOK, Label, Finished, InHand
<1>3. OthersStay(p) /\ UNCHANGED <<approvals, approved, calls, ran>>
  BY <1>1 DEF OthersStay, TypeOK
<1>4. InHand(p)'
  BY <1>1 DEF InHand, TypeOK, DecideLabel, CallLabel, LoopLabel
<1>5. QED  BY <1>1, <1>2, <1>3, <1>4, QuietStepKeeps

\* The end of run() is announced.
LEMMA FinalEnqueueKeeps ==
    ASSUME LoopInvariant, NEW r \in Runs, FinalEnqueue(r)
    PROVE  LoopInvariant'
<1> USE DEF LoopInvariant, FinalEnqueue, ghosts, context
<1>1. r \in Procs /\ InHand(r) /\ target[r] \in Runs
  BY DEF InHand
<1>2. TypeOK'
  BY <1>1, PutTyped DEF TypeOK, Label, Finished
<1>3. OthersStay(r) /\ UNCHANGED <<approvals, approved, calls, ran>>
  BY <1>1 DEF OthersStay, TypeOK
<1>4. InHand(r)'
  BY <1>1 DEF InHand, TypeOK, DecideLabel, CallLabel, LoopLabel
<1>5. QED  BY <1>1, <1>2, <1>3, <1>4, QuietStepKeeps

\* resumePaused reads the execution ...
LEMMA ResumeReadKeeps ==
    ASSUME LoopInvariant, NEW d \in Deciders, ResumeRead(d)
    PROVE  LoopInvariant'
<1> USE DEF LoopInvariant, ResumeRead, ghosts, context, tables
<1>1. d \in Procs /\ InHand(d) /\ target[d] \in Runs
  BY DEF InHand
<1>2. TypeOK'
  BY <1>1 DEF TypeOK, Label, Finished
<1>3. OthersStay(d) /\ UNCHANGED <<approvals, approved, calls, ran>>
  BY <1>1 DEF OthersStay, TypeOK
<1>4. InHand(d)'
  BY <1>1 DEF InHand, TypeOK, DecideLabel, CallLabel, LoopLabel
<1>5. QED  BY <1>1, <1>2, <1>3, <1>4, QuietStepKeeps

\* ... sets it running ...
LEMMA ResumeRunningKeeps ==
    ASSUME LoopInvariant, NEW d \in Deciders, ResumeRunning(d)
    PROVE  LoopInvariant'
<1> USE DEF LoopInvariant, ResumeRunning, ghosts, context
<1>1. d \in Procs /\ InHand(d) /\ target[d] \in Runs
  BY DEF InHand
<1>2. TypeOK'
  BY <1>1 DEF TypeOK, Label, ExecutionStatus
<1>3. OthersStay(d) /\ UNCHANGED <<approvals, approved, calls, ran>>
  BY <1>1 DEF OthersStay, TypeOK
<1>4. InHand(d)'
  BY <1>1 DEF InHand, TypeOK, DecideLabel, CallLabel, LoopLabel
<1>5. QED  BY <1>1, <1>2, <1>3, <1>4, QuietStepKeeps

\* ... and reads the steps taken so far: the call it resumes is permitted.
LEMMA ResumeStepsKeeps ==
    ASSUME LoopInvariant, NEW d \in Deciders, ResumeSteps(d)
    PROVE  LoopInvariant'
<1> USE DEF LoopInvariant, ResumeSteps, ghosts, context, tables
<1>1. d \in Procs /\ InHand(d) /\ target[d] \in Runs
  BY DEF InHand
<1>2. TypeOK'
  BY <1>1 DEF TypeOK, Label
<1>3. OthersStay(d) /\ UNCHANGED <<approvals, approved, calls, ran>>
  BY <1>1 DEF OthersStay, TypeOK
<1>4. InHand(d)'
  BY <1>1, ExecutorAssumption DEF InHand, TypeOK, DecideLabel, CallLabel, LoopLabel, ApprovalRows,
     Permitted, gateToolCall, checkToolAccess, ApprovalRow
<1>5. QED  BY <1>1, <1>2, <1>3, <1>4, QuietStepKeeps

\* A handler is cut off.
LEMMA AbortKeeps ==
    ASSUME LoopInvariant, NEW p \in Procs, Abort(p)
    PROVE  LoopInvariant'
<1> USE DEF LoopInvariant, Abort, ghosts, context, tables
<1>1. p \in Procs /\ InHand(p) /\ target[p] \in Runs
  BY DEF InHand, Finished
<1>2. TypeOK'
  <2>1. faults' \in 0..MaxFaults
    BY ExecutorAssumption DEF TypeOK
  <2>2. pc' \in [Procs -> Label]
    BY DEF TypeOK, Label, Finished
  <2>3. QED  BY <2>1, <2>2 DEF TypeOK
<1>3. OthersStay(p) /\ UNCHANGED <<approvals, approved, calls, ran>>
  BY <1>1 DEF OthersStay, TypeOK
<1>4. InHand(p)'
  BY <1>1 DEF InHand, TypeOK, DecideLabel, CallLabel, LoopLabel
<1>5. QED  BY <1>1, <1>2, <1>3, <1>4, QuietStepKeeps

\* The record of a call is opened before the call.
LEMMA BeginCallKeeps ==
    ASSUME LoopInvariant, NEW p \in Procs, BeginCall(p)
    PROVE  LoopInvariant'
<1> USE DEF LoopInvariant, BeginCall, ghosts
<1> DEFINE row == [tool |-> tool[p], status |-> "STARTED"]
<1>1. InHand(p) /\ target[p] \in Runs /\ tool[p] \in Tools
  BY DEF InHand, CallLabel
<1>2. row \in CallRecord
  BY <1>1 DEF CallRecord
<1>3. calls \in [Runs -> Seq(CallRecord)] /\ calls' = Put(calls, target[p], row)
  BY DEF TypeOK
<1> HIDE DEF row
<1>4. calls' \in [Runs -> Seq(CallRecord)] /\ Appended(calls, calls', target[p], row)
  <2> HIDE DEF Put, BeginCall
  <2>1. QED  BY <1>1, <1>2, <1>3, PutKeeps, Zenon
<1>5. Len(calls[target[p]]) + 1 \in Nat /\ Len(calls[target[p]]) + 1 \in DOMAIN calls'[target[p]]
  BY <1>1, <1>3, <1>4 DEF Appended
<1>6. TypeOK'
  BY <1>4, <1>5 DEF TypeOK, Label
<1>7. OthersStay(p)
  BY DEF OthersStay, TypeOK
<1>8. Grows
  BY <1>4 DEF Grows, Appended
<1>9. InHand(p)'
  BY <1>1, <1>5 DEF InHand, TypeOK, DecideLabel, CallLabel, LoopLabel, Permitted
<1>10. ApprovalRows'
  BY DEF ApprovalRows
<1>11. QED  BY <1>6, <1>7, <1>8, <1>9, <1>10, StepKeeps

\* Closing the record keeps its row.
LEMMA FinalizeCallKeeps ==
    ASSUME LoopInvariant, NEW p \in Procs, FinalizeCall(p)
    PROVE  LoopInvariant'
<1> USE DEF LoopInvariant, FinalizeCall, ghosts, context
<1> DEFINE s == calls[target[p]]
           u == [s[call[p]] EXCEPT !.status = IF ok[p] THEN "SUCCEEDED" ELSE "FAILED"]
           w == [s EXCEPT ![call[p]] = u]
<1>1. InHand(p) /\ target[p] \in Runs /\ call[p] \in DOMAIN s
  BY DEF InHand
<1>2. s \in Seq(CallRecord)
  BY <1>1 DEF TypeOK
<1>3. w \in Seq(CallRecord) /\ DOMAIN w = DOMAIN s
  <2> HIDE DEF s
  <2>1. s[call[p]] \in CallRecord
    BY <1>1, <1>2, SequenceIsFunction
  <2>2. u \in CallRecord
    BY <2>1 DEF CallRecord
  <2> HIDE DEF u
  <2>3. QED  BY <1>1, <1>2, <2>2, ReplaceKeeps
<1>4. calls' = [calls EXCEPT ![target[p]] = w]
  OBVIOUS
<1> HIDE DEF w
<1>5. TypeOK'
  <2>1. calls' \in [Runs -> Seq(CallRecord)]
    <3> HIDE DEF FinalizeCall
    <3>1. QED  BY <1>1, <1>3, <1>4 DEF TypeOK
  <2>2. pc' \in [Procs -> Label]
    BY DEF TypeOK, Label
  <2>3. QED  BY <2>1, <2>2 DEF TypeOK
<1>6. OthersStay(p)
  BY DEF OthersStay, TypeOK
<1>7. Grows
  BY <1>1, <1>3, <1>4 DEF Grows, TypeOK
<1>8. InHand(p)'
  BY <1>1 DEF InHand, TypeOK, DecideLabel, CallLabel, LoopLabel
<1>9. ApprovalRows'
  BY DEF ApprovalRows
<1>10. QED  BY <1>5, <1>6, <1>7, <1>8, <1>9, StepKeeps

\* A paused call gets its approval row.
LEMMA CreateApprovalKeeps ==
    ASSUME LoopInvariant, NEW p \in Procs, CreateApproval(p)
    PROVE  LoopInvariant'
<1> USE DEF LoopInvariant, CreateApproval, ghosts, context
<1> DEFINE row == [status |-> "PENDING", tool |-> tool[p]]
<1>1. InHand(p) /\ target[p] \in Runs /\ tool[p] \in Tools /\ gateToolCall(tool[p]) = "pause"
  BY DEF InHand
<1>2. row \in ApprovalRow /\ gateToolCall(row.tool) = "pause"
  BY <1>1 DEF ApprovalRow
<1>3. approvals \in [Runs -> Seq(ApprovalRow)] /\ approvals' = Put(approvals, target[p], row)
  BY DEF TypeOK
<1> HIDE DEF row
<1>4. approvals' \in [Runs -> Seq(ApprovalRow)] /\ Appended(approvals, approvals', target[p], row)
  <2> HIDE DEF Put, CreateApproval
  <2>1. QED  BY <1>1, <1>2, <1>3, PutKeeps, Zenon
<1>5. TypeOK'
  BY <1>4 DEF TypeOK, Label
<1>6. OthersStay(p)
  BY DEF OthersStay, TypeOK
<1>7. Grows
  BY <1>4 DEF Grows, Appended
<1>8. InHand(p)'
  BY <1>1 DEF InHand, TypeOK, DecideLabel, CallLabel, LoopLabel
<1>9. ApprovalRows'
  BY <1>2, <1>4 DEF ApprovalRows, Appended, gateToolCall, checkToolAccess
<1>10. QED  BY <1>5, <1>6, <1>7, <1>8, <1>9, StepKeeps

\* A decision changes the status column only.
LEMMA DecideRowKeeps ==
    ASSUME LoopInvariant, NEW d \in Deciders, DecideRow(d)
    PROVE  LoopInvariant'
<1> USE DEF LoopInvariant, DecideRow, ghosts, context
<1> DEFINE s == approvals[target[d]]
           u == [s[grant[d]] EXCEPT !.status = decision[d]]
           w == [s EXCEPT ![grant[d]] = u]
<1>1. d \in Procs /\ InHand(d) /\ target[d] \in Runs /\ grant[d] \in DOMAIN s
      /\ decision[d] \in {"APPROVED", "REJECTED"}
  BY DEF InHand, DecideLabel
<1>2. s \in Seq(ApprovalRow)
  BY <1>1 DEF TypeOK
<1>3. /\ w \in Seq(ApprovalRow) /\ DOMAIN w = DOMAIN s
      /\ \A m \in DOMAIN s : w[m].tool = s[m].tool
  <2> HIDE DEF s
  <2>1. s[grant[d]] \in ApprovalRow
    BY <1>1, <1>2, SequenceIsFunction
  <2>2. u \in ApprovalRow /\ u.tool = s[grant[d]].tool
    BY <1>1, <2>1 DEF ApprovalRow
  <2> HIDE DEF u
  <2>3. QED  BY <1>1, <1>2, <2>2, ReplaceKeeps
<1>4. approvals' = [approvals EXCEPT ![target[d]] = w]
  OBVIOUS
<1> HIDE DEF w
<1>5. TypeOK'
  <2>1. approvals' \in [Runs -> Seq(ApprovalRow)]
    BY <1>1, <1>3, <1>4 DEF TypeOK
  <2>2. pc' \in [Procs -> Label]
    BY <1>1 DEF TypeOK, Label, Finished
  <2>3. QED  BY <2>1, <2>2 DEF TypeOK
<1>6. OthersStay(d)
  BY DEF OthersStay, TypeOK
<1>7. Grows
  BY <1>1, <1>3, <1>4 DEF Grows, TypeOK
<1>8. InHand(d)'
  BY <1>1, <1>3, <1>4, ExecutorAssumption
     DEF InHand, TypeOK, DecideLabel, CallLabel, LoopLabel
<1>9. ApprovalRows'
  <2>1. \A x \in Runs : DOMAIN approvals'[x] = DOMAIN approvals[x]
            /\ \A k \in DOMAIN approvals[x] : approvals'[x][k].tool = approvals[x][k].tool
    BY <1>1, <1>3, <1>4 DEF TypeOK
  <2>2. QED  BY <2>1 DEF ApprovalRows, gateToolCall, checkToolAccess
<1>10. QED  BY <1>1, <1>5, <1>6, <1>7, <1>8, <1>9, StepKeeps

\* What the decision request d reads of approval k of run r.
Reads(d, r, k, dec) ==
    /\ target' = [target EXCEPT ![d] = r]
    /\ grant' = [grant EXCEPT ![d] = k]
    /\ tool' = [tool EXCEPT ![d] = approvals[r][k].tool]
    /\ decision' = [decision EXCEPT ![d] = dec]
    /\ approved' = [approved EXCEPT ![r] =
           IF dec = "APPROVED" /\ approvals[r][k].status = "PENDING" THEN @ \cup {k} ELSE @]
    /\ overlapped' = (overlapped \/ \E e \in Deciders \ {d} : Deciding(e, r))
    /\ pc' = [pc EXCEPT ![d] =
           IF approvals[r][k].status = "PENDING" THEN "decideRow" ELSE "conflict"]

\* A decider takes the tool and the number of the approval it read.
LEMMA ConsoleReadKeeps ==
    ASSUME LoopInvariant, NEW d \in Deciders, ConsoleRead(d)
    PROVE  LoopInvariant'
<1> USE DEF LoopInvariant, tables
<1>1. d \in Procs /\ d \notin Runs /\ InHand(d)
  BY ExecutorAssumption
<1>run. PICK r \in Runs :
            \E k \in DOMAIN approvals[r], dec \in {"APPROVED", "REJECTED"} : Reads(d, r, k, dec)
  BY DEF ConsoleRead, Reads
<1>2. PICK k \in DOMAIN approvals[r], dec \in {"APPROVED", "REJECTED"} : Reads(d, r, k, dec)
  BY <1>run
<1>3. UNCHANGED <<executions, approvals, steps, calls, outbox, ran, crippled, length, call, ok,
                  final, faults>>
  BY DEF ConsoleRead
<1>4. k \in Nat /\ approvals[r][k].tool \in Tools
  <2>1. approvals[r] \in Seq(ApprovalRow)
    BY DEF TypeOK
  <2>2. approvals[r] \in [1..Len(approvals[r]) -> ApprovalRow] /\ k \in 1..Len(approvals[r])
    BY <2>1, SequenceIsFunction
  <2>3. approvals[r][k] \in ApprovalRow /\ k \in Nat
    BY <2>2
  <2>4. QED  BY <2>3 DEF ApprovalRow
<1>5. TypeOK'
  <2>1. overlapped' \in BOOLEAN
    BY <1>2 DEF Reads, TypeOK
  <2>2. approved' \in [Runs -> SUBSET Nat]
    BY <1>2, <1>4 DEF Reads, TypeOK
  <2>3. QED  BY <1>2, <1>3, <1>4, <2>1, <2>2 DEF Reads, TypeOK, Label, Finished
<1>6. OthersStay(d)
  BY <1>2, <1>3 DEF Reads, OthersStay, TypeOK
<1>7. Grows
  BY <1>2, <1>3 DEF Reads, Grows, TypeOK
<1>8. InHand(d)'
  BY <1>1, <1>2, <1>3, <1>4 DEF Reads, InHand, TypeOK, DecideLabel, CallLabel, LoopLabel
<1>9. ApprovalRows'
  BY <1>3 DEF ApprovalRows
<1>10. QED  BY <1>1, <1>3, <1>5, <1>6, <1>7, <1>8, <1>9, StepKeeps

\* ToolRegistry.execute: what runs is what the handler was permitted.
LEMMA ExecuteToolKeeps ==
    ASSUME LoopInvariant, NEW p \in Procs, ExecuteTool(p)
    PROVE  LoopInvariant'
<1> USE DEF LoopInvariant, tables
<1> DEFINE row == [tool |-> tool[p], grant |-> grant[p]]
<1>1. InHand(p) /\ target[p] \in Runs /\ tool[p] \in Tools
      /\ Permitted(target[p], tool[p], grant[p])
  BY DEF InHand, CallLabel, ExecuteTool
<1>2. row \in Invocation
  BY <1>1 DEF Invocation, TypeOK
<1>3. ran' \in [Runs -> Seq(Invocation)]
  <2>1. ran' = ran \/ ran' = Put(ran, target[p], row)
    BY DEF ExecuteTool
  <2> HIDE DEF row, Put
  <2>2. ran \in [Runs -> Seq(Invocation)]
    BY DEF TypeOK
  <2>3. Put(ran, target[p], row) \in [Runs -> Seq(Invocation)]
    BY <1>1, <1>2, <2>2, PutKeeps, Zenon
  <2>4. QED  BY <2>1, <2>2, <2>3
<1>4. TypeOK'
  <2>1. ok' \in [Procs -> BOOLEAN]
    BY DEF ExecuteTool, TypeOK
  <2>2. pc' \in [Procs -> Label]
    BY DEF ExecuteTool, TypeOK, Label
  <2>3. QED  BY <1>3, <2>1, <2>2 DEF ExecuteTool, TypeOK
<1>5. OthersStay(p)
  BY DEF OthersStay, TypeOK, ExecuteTool
<1>6. Grows
  BY DEF Grows, ExecuteTool
<1>7. InHand(p)'
  BY <1>1 DEF ExecuteTool, InHand, TypeOK, DecideLabel, CallLabel, LoopLabel
<1>8. ApprovalRows'
  BY DEF ApprovalRows, ExecuteTool
<1>9. ToolsRunWhenPermitted'
  <2>1. CASE ran' = ran
    BY <2>1, <1>6, RanKeeps
  <2>2. CASE ran' # ran
    <3>1. tool[p] \in RegisteredTools /\ ran' = Put(ran, target[p], row)
      BY <2>2 DEF ExecuteTool
    <3>2. row.tool = tool[p] /\ row.grant = grant[p]
      OBVIOUS
    <3> HIDE DEF row, Put
    <3>3. Appended(ran, ran', target[p], row)
      BY <1>1, <1>2, <3>1, PutKeeps, Zenon DEF TypeOK
    <3>5. approvals' = approvals /\ approved' = approved
      BY DEF ExecuteTool
    <3>6. SUFFICES ASSUME NEW x \in Runs, NEW n \in DOMAIN ran'[x]
                   PROVE  ran'[x][n].tool \in RegisteredTools
                          /\ Permitted(x, ran'[x][n].tool, ran'[x][n].grant)
      BY <3>5 DEF ToolsRunWhenPermitted, Permitted
    <3>7. CASE n \in DOMAIN ran[x]
      BY <3>3, <3>7 DEF ToolsRunWhenPermitted, Permitted, Appended
    <3>8. CASE n \notin DOMAIN ran[x]
      BY <1>1, <3>1, <3>2, <3>3, <3>8 DEF Appended
    <3>9. QED  BY <3>7, <3>8
  <2>3. QED  BY <2>1, <2>2
<1>10. \A q \in Procs : InHand(q)'
  BY <1>5, <1>6, <1>7, OthersKeep
<1>11. QED  BY <1>4, <1>8, <1>9, <1>10

\* Initially no handler has started and the tables are empty.
LEMMA InitLoop == Init => LoopInvariant
<1> SUFFICES ASSUME Init PROVE LoopInvariant
  OBVIOUS
<1>1. TypeOK
  <2>1. /\ approvals \in [Runs -> Seq(ApprovalRow)] /\ steps \in [Runs -> Seq(Nat)]
        /\ calls \in [Runs -> Seq(CallRecord)] /\ ran \in [Runs -> Seq(Invocation)]
        /\ outbox \in [Runs -> Seq({"started", "paused", "completed", "failed"})]
    BY DEF Init
  <2>2. /\ executions \in [Runs -> ExecutionStatus \cup {"none"}]
        /\ approved \in [Runs -> SUBSET Nat]
        /\ overlapped \in BOOLEAN /\ crippled \in SUBSET Runs
    BY DEF Init
  <2>5. faults \in 0..MaxFaults
    BY ExecutorAssumption DEF Init
  <2>3. /\ target \in [Procs -> Runs \cup {None}] /\ length \in [Procs -> Nat]
        /\ tool \in [Procs -> Tools \cup {None}] /\ grant \in [Procs -> Nat]
        /\ call \in [Procs -> Nat] /\ ok \in [Procs -> BOOLEAN]
        /\ final \in [Procs -> ExecutionStatus \cup {None}]
        /\ decision \in [Procs -> {"APPROVED", "REJECTED", None}]
    BY DEF Init
  <2>4. pc \in [Procs -> Label]
    BY DEF Init, Label
  <2>6. QED  BY <2>1, <2>2, <2>3, <2>4, <2>5 DEF TypeOK
<1>2. ApprovalRows /\ ToolsRunWhenPermitted
  BY DEF Init, ApprovalRows, ToolsRunWhenPermitted
<1>3. \A p \in Procs : InHand(p)
  BY DEF Init, InHand, DecideLabel, CallLabel, LoopLabel
<1>4. QED  BY <1>1, <1>2, <1>3 DEF LoopInvariant

\* Every step of every handler keeps the invariant.
LEMMA NextLoop == LoopInvariant /\ [Next]_vars => LoopInvariant'
<1> SUFFICES ASSUME LoopInvariant, [Next]_vars PROVE LoopInvariant'
  OBVIOUS
<1>1. ASSUME NEW p \in Procs, LoopStep(p) PROVE LoopInvariant'
  BY <1>1, IterationsExhaustedKeeps, ModelUnusableKeeps, ModelWithoutActionKeeps, ModelFinishKeeps,
     ModelToolCallKeeps, PersistFinishKeeps, PersistStepKeeps, BeginCallKeeps,
     ExecuteToolKeeps, FinalizeCallKeeps, CreateApprovalKeeps, MarkPausedKeeps,
     EnqueuePausedKeeps, FinalUpdateKeeps, Zenon DEF LoopStep
<1>2. ASSUME NEW r \in Runs, SaveExecution(r) \/ RunStep(r) PROVE LoopInvariant'
  BY <1>1, <1>2, SaveExecutionKeeps, EnqueueStartedKeeps, FinalEnqueueKeeps DEF RunStep
<1>3. ASSUME NEW d \in Deciders, ConsoleRead(d) \/ DecideStep(d) PROVE LoopInvariant'
  BY <1>1, <1>3, ConsoleReadKeeps, DecideRowKeeps, ResumeReadKeeps, ResumeRunningKeeps,
     ResumeStepsKeeps DEF DecideStep
<1>4. ASSUME NEW p \in Procs, Abort(p) PROVE LoopInvariant'
  BY <1>4, AbortKeeps
<1>5. CASE UNCHANGED vars
  BY <1>5 DEF vars, LoopInvariant, TypeOK, ApprovalRows, InHand, Permitted, ToolsRunWhenPermitted
<1>6. QED  BY <1>2, <1>3, <1>4, <1>5 DEF Next

\* LoopInvariant holds in every reachable state.
THEOREM LoopInvariance == Spec => []LoopInvariant
  BY InitLoop, NextLoop, PTL DEF Spec

\* The tables, ghosts and loop contexts keep their types, for any number of
\* runs, decisions, iterations and faults.
THEOREM LoopTypeCorrect == Spec => []TypeOK
<1>1. LoopInvariant => TypeOK  BY DEF LoopInvariant
<1>2. QED  BY <1>1, LoopInvariance, PTL

\* A tool runs only when the lists grant it, the guardrail permits it and, for
\* L2 and L3, a human approved exactly that tool: under every interleaving of
\* runs, resumed loops and decisions, and for every policy.
THEOREM PermittedToolsOnly == Spec => []ToolsRunWhenPermitted
<1>1. LoopInvariant => ToolsRunWhenPermitted  BY DEF LoopInvariant
<1>2. QED  BY <1>1, LoopInvariance, PTL

----------------------------------------------------------------------------
(* SerialInvariant is inductive relative to LoopInvariant *)

\* No approval disappears or becomes PENDING again.
DecisionsStay ==
    \A r \in Runs : \A k \in DOMAIN approvals[r] :
        /\ k \in DOMAIN approvals'[r]
        /\ approvals[r][k].status # "PENDING" => approvals'[r][k].status # "PENDING"

\* What the other deciders have not spent stays unspent while no tool runs.
LEMMA OthersUnspent ==
    ASSUME LoopInvariant, NEW p \in Procs, NEW q \in Deciders \ {p}, Unspent(q),
           OthersStay(p), DecisionsStay, ran' = ran
    PROVE  Unspent(q)'
<1>1. pc'[q] = pc[q] /\ target'[q] = target[q] /\ grant'[q] = grant[q]
  BY DEF OthersStay
<1>2. SUFFICES ASSUME pc[q] \in DecideLabel \cup CallLabel, grant[q] > 0
               PROVE  Unspent(q)'
  BY <1>1 DEF Unspent
<1>3. target[q] \in Runs
  BY <1>2 DEF LoopInvariant, InHand, DecideLabel, CallLabel
<1>4. QED  BY <1>1, <1>2, <1>3 DEF Unspent, DecisionsStay

\* What is left to show of a step that reads no approval and runs no tool.
LEMMA SerialStep ==
    ASSUME LoopInvariant, SerialInvariant, NEW p \in Procs, OthersStay(p), DecisionsStay,
           ran' = ran, overlapped' = overlapped, target'[p] = target[p],
           pc[p] \in Finished \cup {"idle"} => p \in Runs,
           ~overlapped /\ p \in Deciders => Unspent(p)'
    PROVE  SerialInvariant'
<1> SUFFICES ASSUME ~overlapped PROVE SerialInvariant'
  BY DEF SerialInvariant
<1>1. \A r \in Runs : \A d \in Deciders : Deciding(d, r)' => Deciding(d, r)
  BY ExecutorAssumption DEF OthersStay, Deciding
<1>2. \A r \in Runs : \A d, e \in Deciders : Deciding(d, r)' /\ Deciding(e, r)' => d = e
  BY <1>1 DEF SerialInvariant
<1>3. \A q \in Deciders : Unspent(q)'
  BY OthersUnspent DEF SerialInvariant
<1>4. \A r \in Runs : \A n \in DOMAIN ran'[r] :
          ran'[r][n].grant > 0 =>
              /\ ran'[r][n].grant \in DOMAIN approvals'[r]
              /\ approvals'[r][ran'[r][n].grant].status # "PENDING"
  BY DEF SerialInvariant, DecisionsStay
<1>5. \A r \in Runs : SpentOnce(r)'
  BY DEF SerialInvariant, SpentOnce
<1>6. QED  BY <1>2, <1>3, <1>4, <1>5 DEF SerialInvariant

\* The same of a step that leaves the approvals alone.
LEMMA SerialQuietStep ==
    ASSUME LoopInvariant, SerialInvariant, NEW p \in Procs, OthersStay(p),
           UNCHANGED <<approvals, ran, overlapped>>, target'[p] = target[p],
           pc[p] \in Finished \cup {"idle"} => p \in Runs,
           ~overlapped /\ p \in Deciders => Unspent(p)'
    PROVE  SerialInvariant'
<1>1. DecisionsStay  BY DEF DecisionsStay
<1>2. QED  BY <1>1, SerialStep

\* The steps of runLoop that end, persist or announce have nothing to spend;
\* a call the model asks for runs under no approval.
LEMMA SerialLoop ==
    ASSUME LoopInvariant, SerialInvariant, NEW p \in Procs,
           \/ IterationsExhausted(p) \/ ModelUnusable(p) \/ ModelWithoutAction(p)
           \/ ModelFinish(p) \/ ModelToolCall(p) \/ PersistFinish(p) \/ PersistStep(p) \/ MarkPaused(p) \/ EnqueuePaused(p)
           \/ FinalUpdate(p) \/ FinalizeCall(p)
    PROVE  SerialInvariant'
<1> USE DEF IterationsExhausted, ModelUnusable, ModelWithoutAction, ModelFinish, ModelToolCall,
        PersistFinish, PersistStep, MarkPaused, EnqueuePaused, FinalUpdate, FinalizeCall,
        Return, tables, ghosts, context
<1>1. pc[p] \notin Finished \cup {"idle"}
  BY DEF Finished
<1>2. TypeOK /\ InHand(p)
  BY DEF LoopInvariant
<1>3. OthersStay(p) /\ UNCHANGED <<approvals, ran, overlapped>> /\ target'[p] = target[p]
  BY <1>2 DEF OthersStay, TypeOK
<1>4. pc'[p] \notin DecideLabel \cup CallLabel \/ grant'[p] = 0
  BY <1>2 DEF InHand, TypeOK, DecideLabel, CallLabel, LoopLabel
<1>5. Unspent(p)'
  BY <1>4 DEF Unspent
<1>6. QED  BY <1>1, <1>3, <1>5, SerialQuietStep

\* run() itself and a handler that is cut off have nothing to spend.
LEMMA SerialRun ==
    ASSUME LoopInvariant, SerialInvariant, NEW p \in Procs,
           \/ p \in Runs /\ (SaveExecution(p) \/ EnqueueStarted(p) \/ FinalEnqueue(p))
           \/ Abort(p)
    PROVE  SerialInvariant'
<1> USE DEF SaveExecution, EnqueueStarted, FinalEnqueue, Abort, tables, ghosts, context
<1>1. pc[p] \in Finished \cup {"idle"} => p \in Runs
  OBVIOUS
<1>2. TypeOK
  BY DEF LoopInvariant
<1>3. OthersStay(p) /\ UNCHANGED <<approvals, ran, overlapped>> /\ target'[p] = target[p]
  BY <1>2 DEF OthersStay, TypeOK
<1>4. pc'[p] \notin DecideLabel \cup CallLabel
  BY <1>2 DEF TypeOK, DecideLabel, CallLabel
<1>5. Unspent(p)'
  BY <1>4 DEF Unspent
<1>6. QED  BY <1>1, <1>3, <1>5, SerialQuietStep

\* From the decision to the call the approval in hand stays the same.
LEMMA SerialResume ==
    ASSUME LoopInvariant, SerialInvariant, NEW p \in Procs,
           \/ ResumeRead(p) \/ ResumeRunning(p) \/ ResumeSteps(p) \/ BeginCall(p)
    PROVE  SerialInvariant'
<1> USE DEF ResumeRead, ResumeRunning, ResumeSteps, BeginCall, tables, ghosts, context
<1>1. pc[p] \notin Finished \cup {"idle"}
  BY DEF Finished
<1>2. TypeOK
  BY DEF LoopInvariant
<1>3. OthersStay(p) /\ UNCHANGED <<approvals, ran, overlapped>> /\ target'[p] = target[p]
  BY <1>2 DEF OthersStay, TypeOK
<1>4. grant'[p] = grant[p] /\ pc[p] \in DecideLabel \cup CallLabel /\ pc[p] # "decideRow"
  BY <1>2 DEF TypeOK, DecideLabel, CallLabel
<1>5. Unspent(p) => Unspent(p)'
  <2> HIDE DEF ResumeRead, ResumeRunning, ResumeSteps, BeginCall
  <2>1. QED  BY <1>3, <1>4 DEF Unspent
<1>6. QED  BY <1>1, <1>3, <1>5, SerialQuietStep DEF SerialInvariant

\* A new approval changes no other.
LEMMA SerialCreateApproval ==
    ASSUME LoopInvariant, SerialInvariant, NEW p \in Procs, CreateApproval(p)
    PROVE  SerialInvariant'
<1> USE DEF CreateApproval, ghosts, context
<1>1. pc[p] \notin Finished \cup {"idle"} /\ target[p] \in Runs /\ TypeOK
  BY DEF Finished, LoopInvariant, InHand
<1>2. OthersStay(p) /\ UNCHANGED <<ran, overlapped>> /\ target'[p] = target[p]
  BY <1>1 DEF OthersStay, TypeOK
<1>3. Unspent(p)'
  BY <1>1 DEF Unspent, TypeOK, DecideLabel, CallLabel
<1>4. DecisionsStay
  <2>1. approvals[target[p]] \in Seq(ApprovalRow)
    BY <1>1 DEF TypeOK
  <2>2. \A k \in DOMAIN approvals[target[p]] :
            /\ k \in DOMAIN approvals'[target[p]]
            /\ approvals'[target[p]][k] = approvals[target[p]][k]
    <3> DEFINE row == [status |-> "PENDING", tool |-> tool[p]]
    <3>1. approvals'[target[p]] = Append(approvals[target[p]], row)
      BY <1>1 DEF TypeOK
    <3> HIDE DEF row, CreateApproval
    <3>2. QED  BY <2>1, <3>1
  <2>3. \A r \in Runs \ {target[p]} : approvals'[r] = approvals[r]
    BY <1>1 DEF TypeOK
  <2> HIDE DEF CreateApproval
  <2>4. QED  BY <2>2, <2>3 DEF DecisionsStay
<1>5. QED  BY <1>1, <1>2, <1>3, <1>4, SerialStep

\* A decision leaves its approval decided, and changes no other.
LEMMA SerialDecideRow ==
    ASSUME LoopInvariant, SerialInvariant, NEW d \in Deciders, DecideRow(d)
    PROVE  SerialInvariant'
<1> USE DEF DecideRow, ghosts, context
<1> DEFINE s == approvals[target[d]]
           u == [s[grant[d]] EXCEPT !.status = decision[d]]
<1>1. /\ d \in Procs /\ TypeOK /\ target[d] \in Runs
      /\ pc[d] \notin Finished \cup {"idle"}
      /\ grant[d] \in DOMAIN s
      /\ decision[d] \in {"APPROVED", "REJECTED"}
  BY DEF Finished, LoopInvariant, InHand, DecideLabel
<1>2. OthersStay(d) /\ UNCHANGED <<ran, overlapped>> /\ target'[d] = target[d]
      /\ grant'[d] = grant[d]
  BY <1>1 DEF OthersStay, TypeOK
<1>3. u.status = decision[d]
  <2>1. s \in Seq(ApprovalRow)
    BY <1>1 DEF TypeOK
  <2> HIDE DEF s
  <2>2. s[grant[d]] \in ApprovalRow
    BY <1>1, <2>1, SequenceIsFunction
  <2>3. QED  BY <2>2 DEF ApprovalRow
<1>4. approvals' = [approvals EXCEPT ![target[d]] = [s EXCEPT ![grant[d]] = u]]
  OBVIOUS
<1>5. approvals'[target[d]] = [s EXCEPT ![grant[d]] = u]
      /\ \A r \in Runs \ {target[d]} : approvals'[r] = approvals[r]
  <2> HIDE DEF DecideRow, u, s
  <2>1. QED  BY <1>1, <1>4 DEF TypeOK
<1>6. /\ \A k \in DOMAIN s : k \in DOMAIN approvals'[target[d]]
      /\ \A k \in DOMAIN s \ {grant[d]} : approvals'[target[d]][k] = s[k]
      /\ approvals'[target[d]][grant[d]] = u
  <2> HIDE DEF DecideRow, u, s
  <2>1. QED  BY <1>1, <1>5
<1>7. DecisionsStay
  <2> HIDE DEF DecideRow, u
  <2>1. QED  BY <1>1, <1>3, <1>5, <1>6 DEF DecisionsStay
<1>8. Unspent(d) => Unspent(d)'
  <2>1. pc[d] = "decideRow"
    OBVIOUS
  <2> HIDE DEF DecideRow, u
  <2>2. QED  BY <1>1, <1>2, <1>3, <1>6, <2>1 DEF Unspent, DecideLabel
<1>9. QED  BY <1>1, <1>2, <1>7, <1>8, SerialStep DEF SerialInvariant

\* A decider that finds its approval PENDING finds it unspent, and is alone.
LEMMA SerialConsoleRead ==
    ASSUME LoopInvariant, SerialInvariant, NEW d \in Deciders, ConsoleRead(d)
    PROVE  SerialInvariant'
<1> SUFFICES ASSUME ~overlapped' PROVE SerialInvariant'
  BY DEF SerialInvariant
<1>run. PICK r \in Runs :
            \E k \in DOMAIN approvals[r], dec \in {"APPROVED", "REJECTED"} : Reads(d, r, k, dec)
  BY DEF ConsoleRead, Reads
<1>2. PICK k \in DOMAIN approvals[r], dec \in {"APPROVED", "REJECTED"} : Reads(d, r, k, dec)
  BY <1>run
<1>3. UNCHANGED <<approvals, calls, ran, call, final>>
  BY DEF ConsoleRead, tables
<1>4. ~overlapped /\ \A e \in Deciders \ {d} : ~Deciding(e, r)
  BY <1>2 DEF Reads
<1>5. TypeOK /\ d \in Procs
  BY DEF LoopInvariant
<1>6. OthersStay(d)
  BY <1>2, <1>3, <1>5 DEF Reads, OthersStay, TypeOK
<1>7. DecisionsStay
  BY <1>3 DEF DecisionsStay
<1>8. target'[d] = r /\ grant'[d] = k
      /\ pc'[d] = IF approvals[r][k].status = "PENDING" THEN "decideRow" ELSE "conflict"
  BY <1>2, <1>5 DEF Reads, TypeOK
<1>9. \A x \in Runs : \A e \in Deciders \ {d} : Deciding(e, x)' => Deciding(e, x) /\ x # r
  BY <1>4, <1>6 DEF OthersStay, Deciding
<1>10. \A x \in Runs : \A e, f \in Deciders : Deciding(e, x)' /\ Deciding(f, x)' => e = f
  <2>1. \A x \in Runs : Deciding(d, x)' => x = r
    BY <1>8 DEF Deciding
  <2>2. QED  BY <1>4, <1>9, <2>1 DEF SerialInvariant
<1>11. Unspent(d)'
  <2>1. CASE approvals[r][k].status = "PENDING"
    <3>1. \A n \in DOMAIN ran[r] : ran[r][n].grant # k \/ ~(k > 0)
      BY <1>4, <2>1 DEF SerialInvariant
    <3>2. QED  BY <1>3, <1>8, <2>1, <3>1 DEF Unspent
  <2>2. CASE approvals[r][k].status # "PENDING"
    BY <1>8, <2>2 DEF Unspent, DecideLabel, CallLabel
  <2>3. QED  BY <2>1, <2>2
<1>12. \A q \in Deciders : Unspent(q)'
  BY <1>3, <1>4, <1>5, <1>6, <1>7, <1>11, OthersUnspent DEF SerialInvariant
<1>13. QED  BY <1>3, <1>4, <1>10, <1>12 DEF SerialInvariant, SpentOnce

\* The tool runs under an approval that was decided and not spent, and no
\* other decider of the run holds it.
LEMMA SerialExecuteTool ==
    ASSUME LoopInvariant, SerialInvariant, NEW p \in Procs, ExecuteTool(p)
    PROVE  SerialInvariant'
<1> DEFINE row == [tool |-> tool[p], grant |-> grant[p]]
           t == target[p]
<1>1. TypeOK /\ InHand(p) /\ t \in Runs /\ tool[p] \in Tools /\ pc[p] = "executeTool"
  BY DEF LoopInvariant, InHand, CallLabel, ExecuteTool
<1>2. UNCHANGED <<approvals, overlapped, target, grant, tool, call, final, decision>>
      /\ pc' = [pc EXCEPT ![p] = "finalizeCall"]
  BY DEF ExecuteTool, tables
<1>3. OthersStay(p) /\ pc'[p] = "finalizeCall"
  BY <1>1, <1>2 DEF OthersStay, TypeOK
<1>4. CASE ran' = ran
  <2>1. Unspent(p)'
    BY <1>3 DEF Unspent, DecideLabel, CallLabel
  <2>2. QED  BY <1>1, <1>2, <1>3, <1>4, <2>1, SerialQuietStep DEF Finished
<1>5. CASE ran' # ran
  <2> SUFFICES ASSUME ~overlapped PROVE SerialInvariant'
    BY <1>2 DEF SerialInvariant
  <2>1. ran' = Put(ran, t, row) /\ row.grant = grant[p] /\ grant[p] \in Nat
    BY <1>1, <1>5 DEF ExecuteTool, TypeOK
  <2>2. ran \in [Runs -> Seq(Invocation)] /\ row \in Invocation
    BY <1>1, <2>1 DEF TypeOK, Invocation
  <2> HIDE DEF row
  <2>3. Appended(ran, ran', t, row)
    <3> HIDE DEF Put
    <3>1. QED  BY <1>1, <2>1, <2>2, PutKeeps, Zenon
  <2>4. grant[p] > 0 =>
            /\ p \in Deciders
            /\ \A n \in DOMAIN ran[t] : ran[t][n].grant # grant[p]
            /\ grant[p] \in DOMAIN approvals[t]
            /\ approvals[t][grant[p]].status # "PENDING"
    BY <1>1 DEF InHand, SerialInvariant, Unspent, CallLabel
  <2>5. \A x \in Runs : \A n \in DOMAIN ran'[x] :
            ran'[x][n].grant > 0 =>
                /\ ran'[x][n].grant \in DOMAIN approvals'[x]
                /\ approvals'[x][ran'[x][n].grant].status # "PENDING"
    BY <1>2, <2>1, <2>3, <2>4 DEF SerialInvariant, Appended
  <2>6. ASSUME NEW x \in Runs PROVE SpentOnce(x)'
    <3>1. SpentOnce(x)
      BY DEF SerialInvariant
    <3>2. QED  BY <2>1, <2>3, <2>4, <3>1 DEF SpentOnce, Appended
  <2>7. \A x \in Runs : \A d, e \in Deciders : Deciding(d, x)' /\ Deciding(e, x)' => d = e
    <3>1. \A x \in Runs : \A d \in Deciders : Deciding(d, x)' => Deciding(d, x)
      BY <1>1, <1>2, <1>3 DEF OthersStay, Deciding, Finished
    <3>2. QED  BY <3>1 DEF SerialInvariant
  <2>8. ASSUME NEW q \in Deciders PROVE Unspent(q)'
    <3>1. CASE q = p
      BY <1>3, <3>1 DEF Unspent, DecideLabel, CallLabel
    <3>2. CASE q # p /\ pc[q] \in DecideLabel \cup CallLabel /\ grant[q] > 0
      <4>1. Unspent(q) /\ pc'[q] = pc[q]
        BY <1>3, <3>2 DEF SerialInvariant, OthersStay
      <4>2. target[q] \in Runs
        BY <3>2 DEF LoopInvariant, InHand, DecideLabel, CallLabel
      <4>3. target[q] = t => ~(grant[p] > 0)
        <5>1. Deciding(q, target[q]) /\ Deciding(p, t)
          BY <1>1, <3>2 DEF Deciding, DecideLabel, CallLabel, Finished
        <5>2. QED  BY <1>1, <2>4, <3>2, <5>1 DEF SerialInvariant
      <4>4. \A n \in DOMAIN ran'[target[q]] : ran'[target[q]][n].grant # grant[q]
        BY <2>1, <2>3, <3>2, <4>1, <4>2, <4>3 DEF Unspent, Appended
      <4>5. QED  BY <1>2, <3>2, <4>1, <4>4 DEF Unspent
    <3>3. CASE q # p /\ ~(pc[q] \in DecideLabel \cup CallLabel /\ grant[q] > 0)
      BY <1>2, <1>3, <3>3 DEF Unspent, OthersStay
    <3>4. QED  BY <3>1, <3>2, <3>3
  <2>9. QED  BY <2>5, <2>6, <2>7, <2>8 DEF SerialInvariant
<1>6. QED  BY <1>4, <1>5

\* Initially nothing is decided or spent.
LEMMA InitSerial == Init => SerialInvariant
  BY DEF Init, SerialInvariant, Deciding, Unspent, SpentOnce, Finished, DecideLabel, CallLabel

\* Every step keeps SerialInvariant.
LEMMA NextSerial == LoopInvariant /\ SerialInvariant /\ [Next]_vars => SerialInvariant'
<1> SUFFICES ASSUME LoopInvariant, SerialInvariant, [Next]_vars PROVE SerialInvariant'
  OBVIOUS
<1>1. ASSUME NEW p \in Procs, LoopStep(p) PROVE SerialInvariant'
  BY <1>1, SerialLoop, SerialResume, SerialCreateApproval, SerialExecuteTool, Zenon DEF LoopStep
<1>2. ASSUME NEW r \in Runs, SaveExecution(r) \/ RunStep(r) PROVE SerialInvariant'
  BY <1>1, <1>2, SerialRun DEF RunStep
<1>3. ASSUME NEW d \in Deciders, ConsoleRead(d) \/ DecideStep(d) PROVE SerialInvariant'
  BY <1>1, <1>3, SerialConsoleRead, SerialDecideRow, SerialResume DEF DecideStep
<1>4. ASSUME NEW p \in Procs, Abort(p) PROVE SerialInvariant'
  BY <1>4, SerialRun
<1>5. CASE UNCHANGED vars
  BY <1>5 DEF vars, SerialInvariant, Deciding, Unspent, SpentOnce
<1>6. QED  BY <1>2, <1>3, <1>4, <1>5 DEF Next

\* While the console decides one request of a run at a time, each approval is
\* spent at most once: with run() still closing, loops that pause again, and
\* handlers cut off anywhere, for any number of runs, decisions and faults.
THEOREM SerialApprovals == Spec => []SerialApprovalsSpentOnce
<1>1. SerialInvariant => SerialApprovalsSpentOnce
  BY DEF SerialInvariant, SerialApprovalsSpentOnce
<1>2. QED  BY <1>1, InitSerial, NextSerial, LoopInvariance, PTL DEF Spec

=============================================================================
