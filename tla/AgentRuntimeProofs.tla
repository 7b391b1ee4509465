------------------------- MODULE AgentRuntimeProofs -------------------------
(***************************************************************************)
(* TLAPS proofs about AgentRuntime: for any number of runs, decisions,     *)
(* iterations, policy edits, errors and cut-offs, only permitted tools     *)
(* run, a paused run can be decided, the last event tells the status, and  *)
(* approvals decided one at a time are spent once.                         *)
(***************************************************************************)
EXTENDS AgentRuntime, FiniteSetTheorems, WellFoundedInduction, TLAPS

----------------------------------------------------------------------------
(* The invariant *)

\* Where a request may be, by its kind.
EntryLabels(p) ==
    CASE p \in Runs -> (InTry \ {"rebuild"}) \cup Stopped \cup {"idle", "fail"}
      [] p \in Deciders -> Labels \ {"recordSave"}
      [] OTHER -> Stopped \cup {"idle", "recordSave"}

\* What human and policy say to tool t of run r, called under a policy and grant k.
Permitted(r, t, policy, k) ==
    /\ t \in policies[policy].allowed
    /\ RiskOf[t] \notin {"unregistered", "L4"}
    /\ RiskOf[t] = "L3" \/ policies[policy].rules[t] \notin {"none", "L1"} =>
           k \in granted[r] /\ k \in DOMAIN approvals[r] /\ approvals[r][k].tool = t

Granted == {"markRunning", "load", "rebuild", "tool", "persist"}
Screened == {"tool", "pauseRead", "pauseWrite", "createApproval"}

\* Where a request is, and what it knows of its run.
Placed(p) ==
    /\ pc[p] \in EntryLabels(p)
    /\ p \in Runs => Run(p) = p
    /\ pc[p] = "idle" => req[p] = IF p \in Runs THEN [Fresh EXCEPT !.run = p] ELSE Fresh
    /\ Active(p) => Run(p) \in Runs
    /\ req[p].policy \in DOMAIN policies
    /\ p \in Deciders /\ Active(p) => approvals[Run(p)] # <<>>
    /\ Active(p) => req[p].len <= Len(steps[Run(p)]) /\ req[p].next <= Len(steps[Run(p)])

Ungranted == {"loop", "pauseRead", "pauseWrite", "createApproval"}
Deciding == {"readExecution", "saveDecision", "cancel", "markRunning", "load", "rebuild"}

\* The approval under which it runs its first call.
GrantHeld(p) ==
    /\ p \in Runs \/ pc[p] \in Ungranted => req[p].grant = 0
    /\ p \in Deciders /\ pc[p] \in Deciding => req[p].grant # 0
    /\ req[p].grant # 0 =>
           /\ Active(p)
           /\ req[p].grant \in DOMAIN approvals[Run(p)]
           /\ approvals[Run(p)][req[p].grant].tool = req[p].tool
           /\ req[p].decision \in {"APPROVED", "REJECTED"}
           /\ req[p].decision = "APPROVED" => req[p].grant \in granted[Run(p)]
           /\ pc[p] \in Granted => req[p].decision = "APPROVED"

\* The call it is about, screened when no approval is at hand, and its pause.
CallHeld(p) ==
    /\ pc[p] \in Screened => req[p].tool \in Tools
    /\ pc[p] = "tool" /\ req[p].grant = 0 =>
           \/ Policy(p).rules[req[p].tool] \in {"none", "L1"}
           \/ Governed(p) /\ Policy(p).rules[req[p].tool] = "L3"
    /\ pc[p] \in {"pauseRead", "pauseWrite", "createApproval"} => req[p].step.end = "guard"
    /\ pc[p] = "createApproval" => req[p].paused
    /\ pc[p] = "persist" => (req[p].paused <=> req[p].step.end = "guard")
    /\ pc[p] \notin {"createApproval", "persist", "closeout"} => ~req[p].paused

\* What request p holds in memory at each of its awaits.
InHand(p) == Placed(p) /\ GrantHeld(p) /\ CallHeld(p)

\* Steps are numbered within what the run has saved.
Numbered(r) == \A m \in DOMAIN steps[r] : steps[r][m].index < Len(steps[r])

\* A run that has not begun has no approvals.
Begun(r) == approvals[r] # <<>> => pc[r] # "idle"

\* Before its tool has run, nobody has used the grant that request p holds.
Unspent(p) ==
    /\ pc[p] \in {"readExecution", "saveDecision", "markRunning", "load", "rebuild", "tool"}
    /\ req[p].grant # 0
    /\ ~overlapped[Run(p)]
    => /\ \A m \in DOMAIN spent[Run(p)] : spent[Run(p)][m] # req[p].grant
       /\ pc[p] \in Granted => approvals[Run(p)][req[p].grant].status # "PENDING"

\* While requests on a run do not overlap, one at a time is active, and what
\* is spent is decided.
Serial(r) ==
    ~overlapped[r] =>
        /\ \A p, q \in Procs : Run(p) = r /\ Run(q) = r /\ Active(p) /\ Active(q) => p = q
        /\ \A m \in DOMAIN spent[r] :
               /\ spent[r][m] \in DOMAIN approvals[r]
               /\ approvals[r][spent[r][m]].status # "PENDING"
        /\ \A m, n \in DOMAIN spent[r] : spent[r][m] = spent[r][n] => m = n

Decided(r) == \A k \in DOMAIN approvals[r] : approvals[r][k].status # "PENDING"

\* The last approval waits for a human, the earlier ones are decided.
Waiting(r) ==
    /\ approvals[r] # <<>>
    /\ \A k \in DOMAIN approvals[r] :
           approvals[r][k].status = "PENDING" <=> k = Len(approvals[r])

Guarded(r) == steps[r] # <<>> /\ steps[r][Len(steps[r])].end = "guard"

\* What a run looks like that nobody works on.
Settled(r) ==
    /\ outbox[r] # "none" =>
           executions[r] \in DOMAIN EventOf /\ outbox[r] = EventOf[executions[r]]
    /\ executions[r] = "guardrail_pending" => Waiting(r) /\ Guarded(r)

Paused(r) == executions[r] = "guardrail_pending" /\ Waiting(r)

\* What it looks like to the one request that works on it.
Phase(p) ==
    LET r == Run(p) IN
    /\ pc[p] = "recordSave" => outbox[r] = "none"
    /\ pc[p] = "readExecution" =>
           /\ Settled(r)
           /\ executions[r] = "guardrail_pending" => req[p].grant = Len(approvals[r])
    /\ pc[p] = "saveDecision" => Waiting(r) /\ req[p].grant = Len(approvals[r])
    /\ pc[p] \in {"cancel", "markRunning", "load", "rebuild", "loop", "tool"} => Decided(r)
    /\ pc[p] \in {"pauseRead", "pauseWrite"} => IF req[p].durable THEN Waiting(r) ELSE Decided(r)
    /\ pc[p] = "createApproval" => executions[r] = "guardrail_pending" /\ Decided(r)
    /\ pc[p] = "persist" => IF req[p].paused THEN Paused(r) ELSE Decided(r)
    /\ pc[p] = "closeout" /\ req[p].paused => Paused(r) /\ Guarded(r)

\* Nobody was cut off in the run, and nobody got into another's way.
Healthy(r) == ~overlapped[r] /\ \A p \in Procs : Run(p) = r => pc[p] # "crashed"

Works(p, r) == Run(p) = r /\ Active(p)

InOrder(r) ==
    Healthy(r) =>
        /\ (\A p \in Procs : ~Works(p, r)) => Settled(r)
        /\ \A p \in Procs : Works(p, r) => Phase(p)

RanOK(r) == \A call \in ran[r] : Permitted(r, call.tool, call.policy, call.grant)
                                  /\ call.policy \in DOMAIN policies

RunOK(r) == RanOK(r) /\ Numbered(r) /\ Begun(r) /\ Serial(r) /\ InOrder(r)

RuntimeInvariant ==
    /\ TypeOK
    /\ \A p \in Procs : InHand(p) /\ Unspent(p)
    /\ \A r \in Runs : RunOK(r)

----------------------------------------------------------------------------
(* A step of one request *)

\* Nothing changes about run s.
Same(s) ==
    /\ executions'[s] = executions[s] /\ approvals'[s] = approvals[s]
    /\ steps'[s] = steps[s] /\ outbox'[s] = outbox[s]
    /\ ran'[s] = ran[s] /\ spent'[s] = spent[s]
    /\ granted'[s] = granted[s] /\ overlapped'[s] = overlapped[s]

\* Approvals and steps are kept, what was decided stays so.
Grows(r) ==
    /\ \A k \in DOMAIN approvals[r] :
           /\ k \in DOMAIN approvals'[r]
           /\ approvals'[r][k].tool = approvals[r][k].tool
           /\ approvals[r][k].status # "PENDING" => approvals'[r][k].status # "PENDING"
    /\ approvals[r] # <<>> => approvals'[r] # <<>>
    /\ Len(steps[r]) <= Len(steps'[r])
    /\ granted[r] \subseteq granted'[r]
    /\ overlapped[r] => overlapped'[r]

\* A step of request p, about run r.
StepOf(p, r) ==
    /\ TypeOK'
    /\ \A q \in Procs \ {p} : pc'[q] = pc[q] /\ req'[q] = req[q]
    /\ req'[p].run = r /\ (Works(p, r) \/ pc[p] = "idle") /\ pc'[p] # "idle"
    /\ \A s \in Runs \ {r} : Same(s)
    /\ Grows(r)
    /\ policies' = policies /\ kind' = kind

\* What is known of p and r when p alone is done with its step.
Arrived(p, r) == IF Active(p) THEN Phase(p) ELSE pc[p] = "crashed" \/ Settled(r)

Alone(p, r) == \A q \in Procs \ {p} : ~Works(q, r)

\* What other requests hold stays good ...
LEMMA OthersInHand ==
    ASSUME NEW p \in Procs, NEW r \in Runs, StepOf(p, r), NEW q \in Procs \ {p}, InHand(q), TypeOK
    PROVE  InHand(q)'
<1>1. pc'[q] = pc[q] /\ req'[q] = req[q] /\ policies' = policies /\ kind' = kind
  BY DEF StepOf
<1>2. Active(q)' = Active(q) /\ Run(q)' = Run(q) /\ Policy(q)' = Policy(q)
      /\ Governed(q)' = Governed(q)
  BY <1>1 DEF Active, Run, Policy, Governed
<1>3. CASE ~Active(q)
  <2>1. pc[q] \in Stopped \cup {"idle"}
    BY <1>3 DEF Active
  <2>2. req[q].grant = 0
    BY <1>3 DEF InHand, Placed, GrantHeld, CallHeld, TypeOK, Request
  <2>3. QED
    BY <1>1, <1>2, <1>3, <2>1, <2>2
       DEF InHand, Placed, GrantHeld, CallHeld, Screened, Stopped, EntryLabels
<1>4. CASE Active(q)
  <2>1. PICK x \in Runs : x = Run(q)
    BY <1>4 DEF InHand, Placed, GrantHeld, CallHeld
  <2>2. /\ \A k \in DOMAIN approvals[x] :
               k \in DOMAIN approvals'[x] /\ approvals'[x][k].tool = approvals[x][k].tool
        /\ approvals[x] # <<>> => approvals'[x] # <<>>
        /\ granted[x] \subseteq granted'[x]
        /\ Len(steps[x]) <= Len(steps'[x])
    <3>1. CASE x = r
      BY <3>1 DEF StepOf, Grows
    <3>2. CASE x # r
      <4>1. approvals'[x] = approvals[x] /\ granted'[x] = granted[x] /\ steps'[x] = steps[x]
        BY <3>2 DEF StepOf, Same
      <4>2. Len(steps[x]) \in Nat
        BY DEF TypeOK
      <4>3. QED  BY <4>1, <4>2
    <3>3. QED  BY <3>1, <3>2
  <2>3. req[q].grant # 0 =>
           /\ req[q].grant \in DOMAIN approvals'[x]
           /\ approvals'[x][req[q].grant].tool = req[q].tool
           /\ req[q].decision = "APPROVED" => req[q].grant \in granted'[x]
    BY <2>1, <2>2 DEF InHand, Placed, GrantHeld, CallHeld
  <2>4. q \in Deciders => approvals'[x] # <<>>
    BY <1>4, <2>1, <2>2 DEF InHand, Placed, GrantHeld, CallHeld
  <2>5. req[q].len <= Len(steps'[x]) /\ req[q].next <= Len(steps'[x])
    <3>1. req[q].len <= Len(steps[x]) /\ req[q].next <= Len(steps[x])
      BY <1>4, <2>1 DEF InHand, Placed, GrantHeld, CallHeld
    <3>2. req[q].len \in Nat /\ req[q].next \in Nat
      <4>1. req[q] \in Request
        BY DEF TypeOK
      <4>2. QED  BY <4>1 DEF Request
    <3>4. Len(steps[x]) \in Nat /\ Len(steps'[x]) \in Nat
      <4>1. steps[x] \in Seq(Step) /\ steps'[x] \in Seq(Step)
        BY DEF TypeOK, StepOf
      <4>2. QED  BY <4>1
    <3>3. QED  BY <2>2, <3>1, <3>2, <3>4
  <2>6. QED
    BY <1>1, <1>2, <1>4, <2>1, <2>3, <2>4, <2>5, Zenon
       DEF InHand, Placed, GrantHeld, CallHeld, EntryLabels
<1>5. QED  BY <1>3, <1>4

\* ... and so does what nobody has used.
LEMMA OthersUnspent ==
    ASSUME NEW p \in Procs, NEW r \in Runs, StepOf(p, r), NEW q \in Procs \ {p},
           InHand(q), Unspent(q), spent' = spent
    PROVE  Unspent(q)'
<1>1. pc'[q] = pc[q] /\ req'[q] = req[q] /\ Run(q)' = Run(q)
  BY DEF StepOf, Run
<1>2. SUFFICES ASSUME pc[q] \in {"readExecution", "saveDecision", "markRunning", "load",
                                 "rebuild", "tool"},
                      req[q].grant # 0, ~overlapped'[Run(q)]
               PROVE  /\ \A m \in DOMAIN spent[Run(q)] : spent[Run(q)][m] # req[q].grant
                      /\ pc[q] \in Granted =>
                             approvals'[Run(q)][req[q].grant].status # "PENDING"
  BY <1>1 DEF Unspent
<1>3. PICK x \in Runs : x = Run(q)
  BY <1>2 DEF InHand, Placed, GrantHeld, CallHeld
<1>4. /\ ~overlapped[x]
      /\ \A k \in DOMAIN approvals[x] :
             approvals[x][k].status # "PENDING" => approvals'[x][k].status # "PENDING"
  <2>1. CASE x = r
    BY <1>2, <1>3, <2>1 DEF StepOf, Grows
  <2>2. CASE x # r
    BY <1>2, <1>3, <2>2 DEF StepOf, Same
  <2>3. QED  BY <2>1, <2>2
<1>5. req[q].grant \in DOMAIN approvals[x]
  BY <1>2, <1>3 DEF InHand, Placed, GrantHeld, CallHeld
<1>6. QED  BY <1>2, <1>3, <1>4, <1>5 DEF Unspent

\* The other runs do not notice.
LEMMA OtherRuns ==
    ASSUME NEW p \in Procs, NEW r \in Runs, StepOf(p, r), NEW s \in Runs \ {r}, RunOK(s),
           InHand(p)'
    PROVE  RunOK(s)'
<1>1. Same(s) /\ policies' = policies
  BY DEF StepOf
<1>2. p # s
  BY DEF StepOf, InHand, Placed, GrantHeld, CallHeld, Run
<1>3. s \in Procs /\ pc'[s] = pc[s]
  BY <1>2 DEF Procs, StepOf
<1>4. \A q \in Procs : Run(q)' = s => q # p
  BY DEF StepOf, Run
<1>5. \A q \in Procs \ {p} : pc'[q] = pc[q] /\ req'[q] = req[q] /\ Run(q)' = Run(q)
                             /\ Works(q, s)' = Works(q, s)
  BY DEF StepOf, Run, Works, Active
<1>6. ~Works(p, s)' /\ ~Works(p, s) /\ (Run(p) = s => pc[p] # "crashed")
  BY <1>4 DEF StepOf, Works, Run, Active
<1>7. RanOK(s)'
  BY <1>1 DEF RunOK, RanOK, Permitted, Same
<1>8. Numbered(s)' /\ Begun(s)'
  BY <1>1, <1>3 DEF RunOK, Numbered, Begun, Same
<1>9. Serial(s)'
  <2>1. ~overlapped'[s] => ~overlapped[s]
    BY <1>1 DEF Same
  <2>2. ~overlapped'[s] =>
            \A q, w \in Procs : Works(q, s)' /\ Works(w, s)' => q = w
    BY <1>5, <1>6, <2>1 DEF RunOK, Serial, Works
  <2>3. ~overlapped'[s] =>
            /\ \A m \in DOMAIN spent'[s] :
                   /\ spent'[s][m] \in DOMAIN approvals'[s]
                   /\ approvals'[s][spent'[s][m]].status # "PENDING"
            /\ \A m, n \in DOMAIN spent'[s] : spent'[s][m] = spent'[s][n] => m = n
    BY <1>1, <2>1 DEF RunOK, Serial, Same
  <2>4. QED  BY <2>2, <2>3 DEF Serial, Works
<1>10. InOrder(s)'
  <2>1. SUFFICES ASSUME Healthy(s)'
                 PROVE  /\ (\A q \in Procs : ~Works(q, s)') => Settled(s)'
                        /\ \A q \in Procs : Works(q, s)' => Phase(q)'
    BY DEF InOrder
  <2>2. Healthy(s)
    BY <1>1, <1>5, <1>6, <2>1 DEF Healthy, Same
  <2>3. Settled(s)' = Settled(s)
    BY <1>1 DEF Settled, Same, Waiting, Guarded
  <2>4. (\A q \in Procs : ~Works(q, s)') => Settled(s)'
    BY <1>5, <1>6, <2>2, <2>3 DEF RunOK, InOrder
  <2>5. ASSUME NEW q \in Procs, Works(q, s)'
        PROVE  Phase(q)'
    <3>1. q # p /\ Works(q, s) /\ Run(q) = s /\ Run(q)' = s
      BY <1>5, <1>6, <2>5 DEF Works
    <3>2. Phase(q) /\ pc'[q] = pc[q] /\ req'[q] = req[q]
      BY <1>5, <2>2, <3>1 DEF RunOK, InOrder
    <3>3. Waiting(s)' = Waiting(s) /\ Decided(s)' = Decided(s) /\ Paused(s)' = Paused(s)
          /\ Guarded(s)' = Guarded(s)
      BY <1>1 DEF Same, Waiting, Decided, Paused, Guarded
    <3>4. outbox'[s] = outbox[s] /\ executions'[s] = executions[s]
          /\ approvals'[s] = approvals[s]
      BY <1>1 DEF Same
    <3>5. QED  BY <2>3, <3>1, <3>2, <3>3, <3>4, Zenon DEF Phase
  <2>6. QED  BY <2>4, <2>5
<1>11. QED  BY <1>7, <1>8, <1>9, <1>10 DEF RunOK

\* Run r itself, in two parts: its tables ...
LEMMA OwnTables ==
    ASSUME RuntimeInvariant, NEW p \in Procs, NEW r \in Runs, StepOf(p, r),
           ran' = ran, spent' = spent, InHand(p)',
           approvals[r] = <<>> => approvals'[r] = <<>> \/ p \in Runs,
           Works(p, r) \/ (~overlapped'[r] => Alone(p, r))
    PROVE  RanOK(r)' /\ Begun(r)' /\ Serial(r)'
<1>1. RanOK(r) /\ Begun(r) /\ Serial(r) /\ policies' = policies /\ Grows(r)
  BY DEF RuntimeInvariant, RunOK, StepOf
<1>2. RanOK(r)'
  BY <1>1 DEF RanOK, Permitted, Grows
<1>3. Begun(r)'
  <2>1. r \in Procs /\ (r # p => pc'[r] = pc[r])
    BY DEF Procs, StepOf
  <2>2. p \in Runs => p = r
    BY DEF InHand, Placed, GrantHeld, CallHeld, StepOf, Run
  <2>3. CASE approvals[r] # <<>>
    BY <1>1, <2>1, <2>3 DEF Begun, StepOf
  <2>4. CASE approvals[r] = <<>>
    BY <2>2, <2>4 DEF Begun, StepOf
  <2>5. QED  BY <2>3, <2>4
<1>4. Serial(r)'
  <2>1. ~overlapped'[r] => ~overlapped[r]
    BY <1>1 DEF Grows
  <2>2. \A q \in Procs \ {p} : Works(q, r)' = Works(q, r)
    BY DEF StepOf, Works, Active, Run
  <2>3. ~overlapped'[r] => \A q \in Procs \ {p} : ~Works(q, r)' \/ ~Works(p, r)'
    BY <1>1, <2>1, <2>2 DEF Serial, Works, Alone
  <2>4. ~overlapped'[r] => \A q, w \in Procs \ {p} : Works(q, r)' /\ Works(w, r)' => q = w
    BY <1>1, <2>1, <2>2 DEF Serial, Works
  <2>5. ~overlapped'[r] => \A q, w \in Procs : Works(q, r)' /\ Works(w, r)' => q = w
    BY <2>3, <2>4
  <2>6. ~overlapped'[r] =>
            /\ \A m \in DOMAIN spent'[r] :
                   /\ spent'[r][m] \in DOMAIN approvals'[r]
                   /\ approvals'[r][spent'[r][m]].status # "PENDING"
            /\ \A m, n \in DOMAIN spent'[r] : spent'[r][m] = spent'[r][n] => m = n
    BY <1>1, <2>1 DEF Serial, Grows
  <2>7. QED  BY <2>5, <2>6 DEF Serial, Works
<1>5. QED  BY <1>2, <1>3, <1>4

\* ... and whether it is in order.
LEMMA OwnOrder ==
    ASSUME RuntimeInvariant, NEW p \in Procs, NEW r \in Runs, StepOf(p, r),
           Works(p, r) \/ (~overlapped'[r] => Alone(p, r)),
           Healthy(r) /\ Alone(p, r) => Arrived(p, r)'
    PROVE  InOrder(r)'
<1>1. SUFFICES ASSUME Healthy(r)'
               PROVE  /\ (\A q \in Procs : ~Works(q, r)') => Settled(r)'
                      /\ \A q \in Procs : Works(q, r)' => Phase(q)'
  BY DEF InOrder
<1>2. \A q \in Procs \ {p} : pc'[q] = pc[q] /\ Works(q, r)' = Works(q, r) /\ Run(q)' = Run(q)
  BY DEF StepOf, Works, Active, Run
<1>3. Healthy(r)
  <2>1. ~overlapped[r]
    BY <1>1 DEF Healthy, StepOf, Grows
  <2>2. Run(p) = r => pc[p] # "crashed"
    <3>1. CASE Works(p, r)
      BY <3>1 DEF Works, Active, Stopped
    <3>2. CASE ~Works(p, r)
      BY <1>1, <3>2 DEF Healthy, StepOf, Run, Works, Active, Stopped
    <3>3. QED  BY <3>1, <3>2
  <2>3. QED  BY <1>1, <1>2, <2>1, <2>2 DEF Healthy
<1>4. Alone(p, r)
  <2>1. ~overlapped[r] /\ ~overlapped'[r]
    BY <1>1, <1>3 DEF Healthy
  <2>2. QED  BY <2>1 DEF RuntimeInvariant, RunOK, Serial, Alone, Works
<1>5. Arrived(p, r)' /\ Run(p)' = r /\ pc'[p] # "crashed"
  BY <1>1, <1>3, <1>4 DEF StepOf, Run, Healthy
<1>6. \A q \in Procs \ {p} : ~Works(q, r)'
  BY <1>2, <1>4 DEF Alone
<1>7. QED  BY <1>5, <1>6 DEF Arrived, Works

\* What is left to show of a step that runs no tool.
LEMMA StepKeeps ==
    ASSUME RuntimeInvariant, NEW p \in Procs, NEW r \in Runs, StepOf(p, r),
           ran' = ran, spent' = spent, InHand(p)', Unspent(p)', Numbered(r)',
           approvals[r] = <<>> => approvals'[r] = <<>> \/ p \in Runs,
           Works(p, r) \/ (~overlapped'[r] => Alone(p, r)),
           Healthy(r) /\ Alone(p, r) => Arrived(p, r)'
    PROVE  RuntimeInvariant'
<1>1. TypeOK /\ \A q \in Procs : InHand(q) /\ Unspent(q)
  BY DEF RuntimeInvariant
<1>2. \A q \in Procs : InHand(q)' /\ Unspent(q)'
  BY <1>1, OthersInHand, OthersUnspent
<1>3. RunOK(r)'
  BY OwnTables, OwnOrder DEF RunOK
<1>4. \A s \in Runs : RunOK(s)'
  BY <1>3, OtherRuns DEF RuntimeInvariant
<1>5. QED  BY <1>2, <1>4 DEF RuntimeInvariant, StepOf

----------------------------------------------------------------------------
(* Steps that write no approval and no step *)

Events == {"none", "started", "paused", "completed", "failed", "cancelled"}

\* One field of the execution's row, and one event, at most.
Writes(r) ==
    /\ \/ executions' = executions
       \/ \E s \in ExecutionStatus : executions' = [executions EXCEPT ![r] = s]
    /\ outbox' = outbox \/ \E e \in Events : outbox' = [outbox EXCEPT ![r] = e]
    /\ UNCHANGED <<approvals, steps, policies, kind, ghosts>>
    /\ hitches' \in 0..MaxHitches

LEMMA WriteIsStep ==
    ASSUME TypeOK, NEW p \in Procs, NEW r \in Runs, Works(p, r) \/ pc[p] = "idle", Writes(r),
           NEW held \in Request, held.run = r, Hold(p, held),
           NEW label \in Labels \ {"idle"}, Goto(p, label)
    PROVE  StepOf(p, r) /\ req'[p] = held /\ pc'[p] = label /\ Run(p)' = r
<1>1. req' \in [Procs -> Request] /\ pc' \in [Procs -> Labels] /\ req'[p] = held
      /\ pc'[p] = label /\ \A q \in Procs \ {p} : pc'[q] = pc[q] /\ req'[q] = req[q]
  BY DEF TypeOK, Hold, Goto
<1>2. UNCHANGED <<approvals, steps, policies, kind, ran, spent, granted, overlapped>>
  BY DEF Writes, ghosts
<1>3. executions' \in [Runs -> ExecutionStatus \cup {"none"}]
      /\ \A s \in Runs \ {r} : executions'[s] = executions[s]
  <2>1. executions \in [Runs -> ExecutionStatus \cup {"none"}]
    BY DEF TypeOK
  <2>2. \/ executions' = executions
        \/ \E s \in ExecutionStatus : executions' = [executions EXCEPT ![r] = s]
    BY DEF Writes
  <2>3. QED  BY <2>1, <2>2
<1>4. outbox' \in [Runs -> Events] /\ \A s \in Runs \ {r} : outbox'[s] = outbox[s]
  BY DEF Writes, TypeOK, Events
<1>5. TypeOK'
  <2>1. hitches' \in 0..MaxHitches
    BY DEF Writes
  <2>2. QED  BY <1>1, <1>2, <1>3, <1>4, <2>1 DEF TypeOK, Events
<1>6. \A s \in Runs \ {r} : Same(s)
  BY <1>2, <1>3, <1>4 DEF Same
<1>7. Grows(r)
  <2>1. Len(steps[r]) \in Nat
    BY DEF TypeOK
  <2>2. QED  BY <1>2, <2>1 DEF Grows
<1>8. QED  BY <1>1, <1>2, <1>5, <1>6, <1>7 DEF StepOf, Run

\* What is left to show of such a step.
LEMMA WriteKeeps ==
    ASSUME RuntimeInvariant, NEW p \in Procs, NEW r \in Runs, Works(p, r), Writes(r),
           NEW held \in Request, held.run = r, Hold(p, held),
           NEW label \in Labels \ {"idle"}, Goto(p, label),
           InHand(p)', Unspent(p)',
           Healthy(r) /\ Alone(p, r) => Arrived(p, r)'
    PROVE  RuntimeInvariant'
<1>1. StepOf(p, r)
  BY WriteIsStep DEF RuntimeInvariant
<1>2. UNCHANGED <<ran, spent, approvals, steps>>
  BY DEF Writes, ghosts
<1>3. Numbered(r)'
  BY <1>2 DEF RuntimeInvariant, RunOK, Numbered
<1>4. QED  BY <1>1, <1>2, <1>3, StepKeeps

\* Of one with which the request ends, or is about to fail.
LEMMA LeaveKeeps ==
    ASSUME RuntimeInvariant, NEW p \in Procs, NEW r \in Runs, Works(p, r), Writes(r),
           NEW label \in Stopped \cup {"fail"}, label \in EntryLabels(p), Leave(p, label),
           Healthy(r) /\ Alone(p, r) => label \in {"crashed", "fail"} \/ Settled(r)'
    PROVE  RuntimeInvariant'
<1>1. PICK held : held = [Fresh EXCEPT !.run = r]
  OBVIOUS
<1>2. /\ held \in Request /\ held.run = r /\ held.grant = 0 /\ held.policy = 1 /\ held.len = 0
      /\ held.next = 0 /\ held.paused = FALSE
  BY <1>1 DEF Fresh, Request, NoStep, Ends
<1>3. Hold(p, held) /\ Goto(p, label) /\ label \in Labels \ {"idle"}
  BY <1>1 DEF Leave, Works, Labels, Stopped
<1>4. req'[p] = held /\ pc'[p] = label /\ Run(p)' = r /\ StepOf(p, r)
  BY <1>2, <1>3, WriteIsStep DEF RuntimeInvariant
<1>5. UNCHANGED <<approvals, steps, policies>>
  BY DEF Writes
<1>6. 1 \in DOMAIN policies /\ Len(steps[r]) \in Nat
  BY DEF RuntimeInvariant, TypeOK
<1>7. InHand(p)'
  <2>1. InHand(p) /\ Run(p) = r /\ Active(p)
    BY DEF RuntimeInvariant, Works
  <2>2. p \in Runs => r = p
    BY <2>1 DEF InHand, Placed, GrantHeld, CallHeld
  <2>3. p \in Deciders => approvals'[r] # <<>>
    BY <1>5, <2>1 DEF InHand, Placed, GrantHeld, CallHeld
  <2>4. held.len <= Len(steps'[r]) /\ held.next <= Len(steps'[r])
    BY <1>2, <1>5, <1>6
  <2>5. EntryLabels(p)' = EntryLabels(p)
    BY DEF EntryLabels
  <2>6. QED
    BY <1>2, <1>4, <1>5, <1>6, <2>2, <2>3, <2>4, <2>5
       DEF InHand, Placed, GrantHeld, CallHeld, Screened, Granted, Ungranted, Deciding, Stopped
<1>8. Unspent(p)'
  BY <1>2, <1>4 DEF Unspent
<1>9. Healthy(r) /\ Alone(p, r) => Arrived(p, r)'
  BY <1>4 DEF Arrived, Active, Phase, Stopped
<1>10. QED  BY <1>2, <1>3, <1>7, <1>8, <1>9, WriteKeeps

\* A request that works has its run, and all that is known of it.
LEMMA Working ==
    ASSUME RuntimeInvariant, NEW p \in Procs, Active(p)
    PROVE  \E r \in Runs : /\ r = Run(p) /\ Works(p, r) /\ RunOK(r)
                           /\ InHand(p) /\ Unspent(p) /\ TypeOK
                           /\ Healthy(r) /\ Alone(p, r) => Phase(p)
  BY DEF RuntimeInvariant, InHand, Placed, GrantHeld, CallHeld, Works, RunOK, InOrder

LEMMA RecordSaveKeeps ==
    ASSUME RuntimeInvariant, NEW c \in Recorders, RecordSave(c)
    PROVE  RuntimeInvariant'
<1>1. c \in Procs /\ Active(c) /\ pc[c] = "recordSave"
  BY DEF Procs, RecordSave, At, Active, Stopped
<1>2. PICK r \in Runs : /\ r = Run(c) /\ Works(c, r) /\ RunOK(r)
                        /\ InHand(c) /\ Unspent(c) /\ TypeOK
                        /\ Healthy(r) /\ Alone(c, r) => Phase(c)
  BY <1>1, Working
<1>3. Writes(r) /\ executions'[r] \in {"done", "failed"} /\ outbox' = outbox
  BY <1>2 DEF RecordSave, SetStatus, Writes, ExecutionStatus, TypeOK
<1>4. Leave(c, "returned") /\ "returned" \in Stopped /\ "returned" \in EntryLabels(c)
  BY RuntimeAssumption DEF RecordSave, Stopped, EntryLabels
<1>5. Healthy(r) /\ Alone(c, r) => Settled(r)'
  BY <1>1, <1>2, <1>3 DEF Phase, Settled
<1>6. QED  BY <1>1, <1>2, <1>3, <1>4, <1>5, LeaveKeeps

LEMMA SetupRefusedKeeps ==
    ASSUME RuntimeInvariant, NEW p \in Runs \cup Deciders, SetupRefused(p)
    PROVE  RuntimeInvariant'
<1>1. p \in Procs /\ Active(p) /\ pc[p] = "load"
  BY DEF Procs, SetupRefused, At, Active, Stopped
<1>2. PICK r \in Runs : r = Run(p) /\ Works(p, r) /\ TypeOK
  BY <1>1, Working
<1>3. Writes(r)
  BY <1>2 DEF SetupRefused, Enqueue, Writes, Events, TypeOK
<1>4. Leave(p, "fail") /\ "fail" \in EntryLabels(p)
  BY DEF SetupRefused, EntryLabels, Labels
<1>5. QED  BY <1>1, <1>2, <1>3, <1>4, LeaveKeeps

\* Closing writes a status and its event, or announces the pause.
LEMMA CloseoutKeeps ==
    ASSUME RuntimeInvariant, NEW p \in Runs \cup Deciders, Closeout(p)
    PROVE  RuntimeInvariant'
<1>1. p \in Procs /\ Active(p) /\ pc[p] = "closeout"
  BY DEF Procs, Closeout, At, Active, Stopped
<1>2. PICK r \in Runs : /\ r = Run(p) /\ Works(p, r) /\ RunOK(r)
                        /\ InHand(p) /\ Unspent(p) /\ TypeOK
                        /\ Healthy(r) /\ Alone(p, r) => Phase(p)
  BY <1>1, Working
<1>3. UNCHANGED <<approvals, steps, policies, kind, ghosts, hitches>>
  BY DEF Closeout
<1>4. hitches' \in 0..MaxHitches
  BY <1>2, <1>3 DEF TypeOK
<1>5. Leave(p, "returned") /\ "returned" \in Stopped /\ "returned" \in EntryLabels(p)
  BY DEF Closeout, Stopped, EntryLabels, Labels
<1>6. CASE req[p].paused
  <2>1. executions' = executions /\ outbox' = [outbox EXCEPT ![r] = "paused"]
    BY <1>2, <1>6 DEF Closeout, Enqueue
  <2>2. Writes(r) /\ outbox'[r] = "paused"
    BY <1>2, <1>3, <1>4, <2>1 DEF Writes, Events, TypeOK
  <2>3. Healthy(r) /\ Alone(p, r) => Settled(r)'
    <3>1. SUFFICES ASSUME Healthy(r), Alone(p, r) PROVE Settled(r)'
      OBVIOUS
    <3>2. Waiting(r) /\ Guarded(r) /\ executions[r] = "guardrail_pending"
      BY <1>1, <1>2, <1>6, <3>1 DEF Phase, Paused
    <3>3. Waiting(r)' /\ Guarded(r)'
      BY <1>3, <3>2 DEF Waiting, Guarded
    <3>4. QED  BY <2>1, <2>2, <3>2, <3>3 DEF Settled, EventOf
  <2>4. QED  BY <1>1, <1>2, <1>5, <2>2, <2>3, LeaveKeeps
<1>7. CASE ~req[p].paused
  <2>1. PICK status \in {"done", "failed"}, event \in {"completed", "failed"} :
            /\ executions' = [executions EXCEPT ![r] = status]
            /\ outbox' = [outbox EXCEPT ![r] = event]
            /\ (status = "done" <=> event = "completed")
    BY <1>2, <1>7 DEF Closeout, Enqueue, SetStatus
  <2>2. Writes(r) /\ outbox'[r] = event /\ executions'[r] = status
    BY <1>2, <1>3, <1>4, <2>1 DEF Writes, Events, ExecutionStatus, TypeOK
  <2>3. Settled(r)'
    BY <2>1, <2>2 DEF Settled, EventOf
  <2>4. QED  BY <1>1, <1>2, <1>5, <2>2, <2>3, LeaveKeeps
<1>8. QED  BY <1>6, <1>7

LEMMA FailKeeps ==
    ASSUME RuntimeInvariant, NEW p \in Runs \cup Deciders, Fail(p)
    PROVE  RuntimeInvariant'
<1>1. p \in Procs /\ Active(p)
  BY DEF Procs, Fail, At, Active, Stopped
<1>2. PICK r \in Runs : r = Run(p) /\ Works(p, r) /\ TypeOK
  BY <1>1, Working
<1>3. Writes(r) /\ outbox'[r] = "failed" /\ executions'[r] = "failed"
  BY <1>2 DEF Fail, SetStatus, Enqueue, Writes, Events, ExecutionStatus, TypeOK
<1>4. Leave(p, "returned") /\ "returned" \in Stopped /\ "returned" \in EntryLabels(p)
  BY DEF Fail, Stopped, EntryLabels, Labels
<1>5. Settled(r)'
  BY <1>3 DEF Settled, EventOf
<1>6. QED  BY <1>1, <1>2, <1>3, <1>4, <1>5, LeaveKeeps

LEMMA CancelExecutionKeeps ==
    ASSUME RuntimeInvariant, NEW d \in Deciders, CancelExecution(d)
    PROVE  RuntimeInvariant'
<1>1. d \in Procs /\ Active(d)
  BY DEF Procs, CancelExecution, At, Active, Stopped
<1>2. PICK r \in Runs : r = Run(d) /\ Works(d, r) /\ TypeOK
  BY <1>1, Working
<1>3. Writes(r) /\ outbox'[r] = "cancelled" /\ executions'[r] = "cancelled"
  BY <1>2 DEF CancelExecution, SetStatus, Enqueue, Writes, Events, ExecutionStatus, TypeOK
<1>4. Leave(d, "returned") /\ "returned" \in Stopped /\ "returned" \in EntryLabels(d)
  BY DEF CancelExecution, Stopped, EntryLabels, Labels
<1>5. Settled(r)'
  BY <1>3 DEF Settled, EventOf
<1>6. QED  BY <1>1, <1>2, <1>3, <1>4, <1>5, LeaveKeeps

LEMMA ThrowKeeps ==
    ASSUME RuntimeInvariant, NEW p \in Procs, Throw(p)
    PROVE  RuntimeInvariant'
<1>1. Active(p) /\ pc[p] \in InTry
  BY DEF Throw, Active, Stopped, InTry
<1>2. PICK r \in Runs : r = Run(p) /\ Works(p, r) /\ TypeOK /\ InHand(p)
  BY <1>1, Working
<1>3. hitches' \in 0..MaxHitches
  BY <1>2, RuntimeAssumption DEF Throw, TypeOK
<1>4. Writes(r)
  BY <1>3 DEF Throw, Writes, tables, ghosts
<1>5. Leave(p, "fail") /\ "fail" \in EntryLabels(p)
  BY <1>1, <1>2 DEF Throw, EntryLabels, InHand, Placed, GrantHeld, CallHeld, InTry, Labels, Stopped
<1>6. QED  BY <1>2, <1>4, <1>5, LeaveKeeps

LEMMA CrashKeeps ==
    ASSUME RuntimeInvariant, NEW p \in Procs, Crash(p)
    PROVE  RuntimeInvariant'
<1>1. Active(p)
  BY DEF Crash
<1>2. PICK r \in Runs : r = Run(p) /\ Works(p, r) /\ TypeOK
  BY <1>1, Working
<1>3. hitches' \in 0..MaxHitches
  BY <1>2, RuntimeAssumption DEF Crash, TypeOK
<1>4. Writes(r)
  BY <1>3 DEF Crash, Writes, tables, ghosts
<1>5. Leave(p, "crashed") /\ "crashed" \in Stopped /\ "crashed" \in EntryLabels(p)
  BY DEF Crash, EntryLabels, Labels, Stopped
<1>6. QED  BY <1>2, <1>4, <1>5, LeaveKeeps

\* The policy in hand is the one loaded now; only a decider has a grant.
LEMMA LoadAgentKeeps ==
    ASSUME RuntimeInvariant, NEW p \in Runs \cup Deciders, LoadAgent(p)
    PROVE  RuntimeInvariant'
<1>1. p \in Procs /\ Active(p) /\ pc[p] = "load"
  BY DEF Procs, LoadAgent, At, Active, Stopped
<1>2. PICK r \in Runs : /\ r = Run(p) /\ Works(p, r) /\ RunOK(r)
                        /\ InHand(p) /\ Unspent(p) /\ TypeOK
                        /\ Healthy(r) /\ Alone(p, r) => Phase(p)
  BY <1>1, Working
<1>3. PICK old \in Request : old = req[p]
  BY <1>1, <1>2 DEF TypeOK
<1>4. PICK label : label = IF p \in Deciders THEN "rebuild" ELSE "loop"
  OBVIOUS
<1>5. PICK held : held = [old EXCEPT !.policy = Len(policies)]
  OBVIOUS
<1>6. Len(policies) \in Nat /\ Len(policies) \in DOMAIN policies
  BY <1>2 DEF TypeOK
<1>7. /\ held \in Request /\ held.run = r /\ held.grant = old.grant /\ held.tool = old.tool
      /\ held.decision = old.decision /\ held.policy = Len(policies) /\ held.len = old.len
      /\ held.next = old.next /\ held.paused = old.paused
  BY <1>2, <1>3, <1>5, <1>6 DEF Request, Run
<1>8. Writes(r)
  BY <1>2 DEF LoadAgent, Enqueue, Writes, Events, TypeOK
<1>9. Hold(p, held) /\ Goto(p, label) /\ label \in Labels \ {"idle"}
  BY <1>3, <1>4, <1>5 DEF LoadAgent, Labels, InTry
<1>10. req'[p] = held /\ pc'[p] = label /\ Run(p)' = r
  BY <1>1, <1>2, <1>7, <1>8, <1>9, WriteIsStep
<1>11. UNCHANGED <<approvals, steps, policies, kind, granted, spent, overlapped>>
  BY DEF LoadAgent, ghosts
<1>12. InHand(p)'
  <2>1. Placed(p)'
    BY <1>1, <1>2, <1>3, <1>4, <1>6, <1>7, <1>10, <1>11, RuntimeAssumption
       DEF InHand, Placed, Run, Active, EntryLabels, Labels, Stopped, InTry
  <2>2. GrantHeld(p)'
    BY <1>1, <1>2, <1>3, <1>4, <1>6, <1>7, <1>10, <1>11, RuntimeAssumption
       DEF InHand, GrantHeld, Run, Active, Granted, Ungranted, Deciding, Stopped
  <2>3. CallHeld(p)'
    BY <1>1, <1>2, <1>3, <1>4, <1>6, <1>7, <1>10, <1>11, RuntimeAssumption
       DEF InHand, CallHeld, GrantHeld, Screened, Ungranted
  <2>4. QED  BY <2>1, <2>2, <2>3 DEF InHand
<1>13. Unspent(p)'
  BY <1>1, <1>2, <1>3, <1>4, <1>7, <1>10, <1>11 DEF Unspent, Granted, Run
<1>14. Healthy(r) /\ Alone(p, r) => Arrived(p, r)'
  BY <1>1, <1>2, <1>4, <1>10, <1>11 DEF Arrived, Phase, Active, Stopped, Decided
<1>15. QED  BY <1>1, <1>2, <1>7, <1>8, <1>9, <1>12, <1>13, <1>14, WriteKeeps

\* A step that leaves memory as it is.
LEMMA SameMemory ==
    ASSUME TypeOK, NEW p \in Procs, UNCHANGED req
    PROVE  Hold(p, req[p]) /\ req[p] \in Request
  BY DEF Hold, TypeOK

LEMMA LoopExhaustedKeeps ==
    ASSUME RuntimeInvariant, NEW p \in Runs \cup Deciders, LoopExhausted(p)
    PROVE  RuntimeInvariant'
<1>1. p \in Procs /\ Active(p) /\ pc[p] = "loop"
  BY DEF Procs, LoopExhausted, At, Active, Stopped
<1>2. PICK r \in Runs : /\ r = Run(p) /\ Works(p, r) /\ RunOK(r)
                        /\ InHand(p) /\ Unspent(p) /\ TypeOK
                        /\ Healthy(r) /\ Alone(p, r) => Phase(p)
  BY <1>1, Working
<1>3. UNCHANGED <<executions, approvals, steps, outbox, policies, kind, ran, spent, granted,
                  overlapped, hitches, req>> /\ Goto(p, "closeout")
  BY DEF LoopExhausted, tables, ghosts
<1>4. Writes(r)
  BY <1>2, <1>3 DEF Writes, ghosts, TypeOK
<1>5. Hold(p, req[p]) /\ req[p] \in Request /\ req[p].run = r
      /\ "closeout" \in Labels \ {"idle"}
  BY <1>1, <1>2, <1>3, SameMemory DEF Run, Labels, InTry
<1>6. req'[p] = req[p] /\ pc'[p] = "closeout" /\ Run(p)' = r
  BY <1>1, <1>2, <1>3, <1>4, <1>5, WriteIsStep
<1>7. InHand(p)'
  <2>1. Placed(p)'
    BY <1>1, <1>2, <1>3, <1>6
       DEF InHand, Placed, Run, Active, EntryLabels, Labels, Stopped, InTry
  <2>2. GrantHeld(p)'
    BY <1>1, <1>2, <1>3, <1>6
       DEF InHand, GrantHeld, Run, Active, Granted, Ungranted, Deciding, Stopped
  <2>3. CallHeld(p)'
    BY <1>1, <1>2, <1>3, <1>6
       DEF InHand, CallHeld, GrantHeld, Screened, Ungranted
  <2>4. QED  BY <2>1, <2>2, <2>3 DEF InHand
<1>8. Unspent(p)'
  BY <1>6 DEF Unspent
<1>9. Arrived(p, r)'
  BY <1>1, <1>2, <1>6 DEF Arrived, Phase, Active, Stopped, InHand, Placed, GrantHeld, CallHeld
<1>10. QED  BY <1>1, <1>2, <1>3, <1>4, <1>5, <1>7, <1>8, <1>9, WriteKeeps

\* A call the registry refuses is not run.
LEMMA RefusedCallKeeps ==
    ASSUME RuntimeInvariant, NEW p \in Runs \cup Deciders, RefusedCall(p)
    PROVE  RuntimeInvariant'
<1>1. p \in Procs /\ Active(p) /\ pc[p] = "tool"
  BY DEF Procs, RefusedCall, At, Active, Stopped
<1>2. PICK r \in Runs : /\ r = Run(p) /\ Works(p, r) /\ RunOK(r)
                        /\ InHand(p) /\ Unspent(p) /\ TypeOK
                        /\ Healthy(r) /\ Alone(p, r) => Phase(p)
  BY <1>1, Working
<1>3. PICK old \in Request : old = req[p]
  BY <1>1, <1>2 DEF TypeOK
<1>4. PICK end \in {"failed", "go"} : end = IF old.grant = 0 THEN "failed" ELSE "go"
  OBVIOUS
<1>5. PICK held : held = [old EXCEPT !.step = [action |-> "tool", end |-> end]]
  OBVIOUS
<1>6. /\ held \in Request /\ held.run = r /\ held.grant = old.grant /\ held.tool = old.tool
      /\ held.decision = old.decision /\ held.policy = old.policy /\ held.len = old.len
      /\ held.next = old.next /\ held.paused = old.paused /\ held.step.end = end
  BY <1>2, <1>3, <1>4, <1>5 DEF Request, Run, Ends
<1>7. UNCHANGED <<executions, approvals, steps, outbox, policies, kind, ran, spent, granted,
                  overlapped, hitches>>
  BY DEF RefusedCall, tables, ghosts
<1>8. Writes(r)
  BY <1>2, <1>7 DEF Writes, ghosts, TypeOK
<1>9. Hold(p, held) /\ Goto(p, "persist") /\ "persist" \in Labels \ {"idle"}
  BY <1>3, <1>4, <1>5 DEF RefusedCall, Labels, InTry
<1>10. req'[p] = held /\ pc'[p] = "persist" /\ Run(p)' = r
  BY <1>1, <1>2, <1>6, <1>8, <1>9, WriteIsStep
<1>11. InHand(p)'
  <2>1. Placed(p)'
    BY <1>1, <1>2, <1>3, <1>4, <1>6, <1>7, <1>10
       DEF InHand, Placed, Run, Active, EntryLabels, Labels, Stopped, InTry
  <2>2. GrantHeld(p)'
    BY <1>1, <1>2, <1>3, <1>4, <1>6, <1>7, <1>10
       DEF InHand, GrantHeld, Run, Active, Granted, Ungranted, Deciding, Stopped
  <2>3. CallHeld(p)'
    BY <1>1, <1>2, <1>3, <1>4, <1>6, <1>7, <1>10
       DEF InHand, CallHeld, GrantHeld, Screened, Ungranted
  <2>4. QED  BY <2>1, <2>2, <2>3 DEF InHand
<1>12. Unspent(p)'
  BY <1>10 DEF Unspent
<1>13. Healthy(r) /\ Alone(p, r) => Arrived(p, r)'
  BY <1>1, <1>2, <1>3, <1>6, <1>7, <1>10
     DEF Arrived, Phase, Active, Stopped, Decided, InHand, Placed, GrantHeld, CallHeld
<1>14. QED  BY <1>1, <1>2, <1>6, <1>8, <1>9, <1>11, <1>12, <1>13, WriteKeeps

LEMMA PauseReadKeeps ==
    ASSUME RuntimeInvariant, NEW p \in Runs \cup Deciders, PauseRead(p)
    PROVE  RuntimeInvariant'
<1>1. p \in Procs /\ Active(p) /\ pc[p] = "pauseRead"
  BY DEF Procs, PauseRead, At, Active, Stopped
<1>2. PICK r \in Runs : /\ r = Run(p) /\ Works(p, r) /\ RunOK(r)
                        /\ InHand(p) /\ Unspent(p) /\ TypeOK
                        /\ Healthy(r) /\ Alone(p, r) => Phase(p)
  BY <1>1, Working
<1>3. UNCHANGED <<executions, approvals, steps, outbox, policies, kind, ran, spent, granted,
                  overlapped, hitches, req>>
  BY DEF PauseRead, tables, ghosts
<1>4. Writes(r)
  BY <1>2, <1>3 DEF Writes, ghosts, TypeOK
<1>5. PICK label \in {"pauseWrite", "fail"} : Goto(p, label)
  BY DEF PauseRead
<1>6. Hold(p, req[p]) /\ req[p] \in Request /\ req[p].run = r /\ label \in Labels \ {"idle"}
  BY <1>1, <1>2, <1>3, <1>5, SameMemory DEF Run, Labels, InTry
<1>7. req'[p] = req[p] /\ pc'[p] = label /\ Run(p)' = r
  BY <1>1, <1>2, <1>4, <1>5, <1>6, WriteIsStep
<1>8. InHand(p)'
  <2>1. Placed(p)'
    BY <1>1, <1>2, <1>3, <1>5, <1>7
       DEF InHand, Placed, Run, Active, EntryLabels, Labels, Stopped, InTry
  <2>2. GrantHeld(p)'
    BY <1>1, <1>2, <1>3, <1>5, <1>7
       DEF InHand, GrantHeld, Run, Active, Granted, Ungranted, Deciding, Stopped
  <2>3. CallHeld(p)'
    BY <1>1, <1>2, <1>3, <1>5, <1>7
       DEF InHand, CallHeld, GrantHeld, Screened, Ungranted
  <2>4. QED  BY <2>1, <2>2, <2>3 DEF InHand
<1>9. Unspent(p)'
  BY <1>5, <1>7 DEF Unspent
<1>10. Healthy(r) /\ Alone(p, r) => Arrived(p, r)'
  BY <1>1, <1>2, <1>3, <1>5, <1>7
     DEF Arrived, Phase, Active, Stopped, Decided, Waiting
<1>11. QED  BY <1>1, <1>2, <1>4, <1>5, <1>6, <1>8, <1>9, <1>10, WriteKeeps

LEMMA PauseWriteKeeps ==
    ASSUME RuntimeInvariant, NEW p \in Runs \cup Deciders, PauseWrite(p)
    PROVE  RuntimeInvariant'
<1>1. p \in Procs /\ Active(p) /\ pc[p] = "pauseWrite"
  BY DEF Procs, PauseWrite, At, Active, Stopped
<1>2. PICK r \in Runs : /\ r = Run(p) /\ Works(p, r) /\ RunOK(r)
                        /\ InHand(p) /\ Unspent(p) /\ TypeOK
                        /\ Healthy(r) /\ Alone(p, r) => Phase(p)
  BY <1>1, Working
<1>3. PICK old \in Request : old = req[p]
  BY <1>1, <1>2 DEF TypeOK
<1>4. PICK label : label = IF old.durable THEN "persist" ELSE "createApproval"
  OBVIOUS
<1>5. PICK held : held = [old EXCEPT !.paused = TRUE]
  OBVIOUS
<1>6. /\ held \in Request /\ held.run = r /\ held.grant = old.grant /\ held.tool = old.tool
      /\ held.decision = old.decision /\ held.policy = old.policy /\ held.len = old.len
      /\ held.next = old.next /\ held.step = old.step
  BY <1>2, <1>3, <1>5 DEF Request, Run
<1>paused. held.paused = TRUE
  BY <1>5 DEF Request
<1>7. UNCHANGED <<approvals, steps, outbox, policies, kind, ran, spent, granted, overlapped>>
      /\ executions'[r] = "guardrail_pending"
  BY <1>2 DEF PauseWrite, ghosts, SetStatus, TypeOK
<1>8. Writes(r)
  BY <1>2 DEF PauseWrite, SetStatus, Writes, ExecutionStatus, TypeOK
<1>9. Hold(p, held) /\ Goto(p, label) /\ label \in Labels \ {"idle"}
  BY <1>3, <1>4, <1>5 DEF PauseWrite, Labels, InTry
<1>10. req'[p] = held /\ pc'[p] = label /\ Run(p)' = r
  BY <1>1, <1>2, <1>6, <1>8, <1>9, WriteIsStep
<1>11. InHand(p)'
  <2>1. Placed(p)'
    BY <1>1, <1>2, <1>3, <1>4, <1>6, <1>7, <1>10
       DEF InHand, Placed, Run, Active, EntryLabels, Labels, Stopped, InTry
  <2>2. GrantHeld(p)'
    BY <1>1, <1>2, <1>3, <1>4, <1>6, <1>10 DEF InHand, GrantHeld, Ungranted, Deciding
  <2>3. CallHeld(p)'
    BY <1>1, <1>2, <1>3, <1>4, <1>6, <1>paused, <1>10 DEF InHand, CallHeld, Screened
  <2>4. QED  BY <2>1, <2>2, <2>3 DEF InHand
<1>12. Unspent(p)'
  BY <1>4, <1>10 DEF Unspent
<1>13. Healthy(r) /\ Alone(p, r) => Arrived(p, r)'
  <2>1. SUFFICES ASSUME Healthy(r), Alone(p, r) PROVE Phase(p)' /\ Active(p)'
    BY DEF Arrived
  <2>2. CASE old.durable
    <3>1. Waiting(r)
      BY <1>1, <1>2, <1>3, <2>1, <2>2 DEF Phase
    <3>2. Paused(r)'
      BY <1>7, <3>1 DEF Waiting, Paused
    <3>3. QED  BY <1>4, <1>paused, <1>10, <2>2, <3>2 DEF Phase, Active, Stopped
  <2>3. CASE ~old.durable
    <3>1. Decided(r)
      BY <1>1, <1>2, <1>3, <2>1, <2>3 DEF Phase
    <3>2. Decided(r)'
      BY <1>7, <3>1 DEF Decided
    <3>3. QED  BY <1>4, <1>7, <1>10, <2>3, <3>2 DEF Phase, Active, Stopped
  <2>4. QED  BY <2>2, <2>3
<1>14. QED  BY <1>1, <1>2, <1>6, <1>8, <1>9, <1>11, <1>12, <1>13, WriteKeeps

LEMMA ReadExecutionKeeps ==
    ASSUME RuntimeInvariant, NEW d \in Deciders, ReadExecution(d)
    PROVE  RuntimeInvariant'
<1>1. d \in Procs /\ Active(d) /\ pc[d] = "readExecution"
  BY DEF Procs, ReadExecution, At, Active, Stopped
<1>2. PICK r \in Runs : /\ r = Run(d) /\ Works(d, r) /\ RunOK(r)
                        /\ InHand(d) /\ Unspent(d) /\ TypeOK
                        /\ Healthy(r) /\ Alone(d, r) => Phase(d)
  BY <1>1, Working
<1>3. UNCHANGED <<executions, approvals, steps, outbox, policies, kind, ran, spent, granted,
                  overlapped, hitches>>
  BY DEF ReadExecution, tables, ghosts
<1>4. Writes(r)
  BY <1>2, <1>3 DEF Writes, ghosts, TypeOK
<1>5. CASE executions[r] = "guardrail_pending"
  <2>1. UNCHANGED req /\ Goto(d, "saveDecision")
    BY <1>2, <1>5 DEF ReadExecution
  <2>2. Hold(d, req[d]) /\ req[d] \in Request /\ req[d].run = r
        /\ "saveDecision" \in Labels \ {"idle"}
    BY <1>1, <1>2, <2>1, SameMemory DEF Run, Labels, InTry
  <2>3. req'[d] = req[d] /\ pc'[d] = "saveDecision" /\ Run(d)' = r
    BY <1>1, <1>2, <1>4, <2>1, <2>2, WriteIsStep
  <2>4. InHand(d)'
    <3>1. Placed(d)'
      BY <1>1, <1>2, <1>3, <2>3, RuntimeAssumption
         DEF InHand, Placed, Active, EntryLabels, Labels, Stopped, InTry
    <3>2. GrantHeld(d)'
      BY <1>1, <1>2, <1>3, <2>3
         DEF InHand, GrantHeld, Active, Stopped, Ungranted, Deciding, Granted
    <3>3. CallHeld(d)'
      BY <1>1, <1>2, <2>3 DEF InHand, CallHeld, Screened
    <3>4. QED  BY <3>1, <3>2, <3>3 DEF InHand
  <2>5. Unspent(d)'
    BY <1>1, <1>2, <1>3, <2>3 DEF Unspent, Granted
  <2>6. Healthy(r) /\ Alone(d, r) => Arrived(d, r)'
    BY <1>1, <1>2, <1>3, <1>5, <2>3 DEF Arrived, Phase, Active, Stopped, Waiting, Settled
  <2>7. QED  BY <1>1, <1>2, <1>4, <2>1, <2>2, <2>4, <2>5, <2>6, WriteKeeps
<1>6. CASE executions[r] # "guardrail_pending"
  <2>1. Leave(d, "refused") /\ "refused" \in Stopped /\ "refused" \in EntryLabels(d)
    BY <1>2, <1>6, RuntimeAssumption DEF ReadExecution, Stopped, EntryLabels, Labels
  <2>2. Healthy(r) /\ Alone(d, r) => Settled(r)'
    BY <1>1, <1>2, <1>3 DEF Phase, Settled, Waiting, Guarded
  <2>3. QED  BY <1>1, <1>2, <1>4, <2>1, <2>2, LeaveKeeps
<1>7. QED  BY <1>5, <1>6

LEMMA MarkRunningKeeps ==
    ASSUME RuntimeInvariant, NEW d \in Deciders, MarkRunning(d)
    PROVE  RuntimeInvariant'
<1>1. d \in Procs /\ Active(d) /\ pc[d] = "markRunning"
  BY DEF Procs, MarkRunning, At, Active, Stopped
<1>2. PICK r \in Runs : /\ r = Run(d) /\ Works(d, r) /\ RunOK(r)
                        /\ InHand(d) /\ Unspent(d) /\ TypeOK
                        /\ Healthy(r) /\ Alone(d, r) => Phase(d)
  BY <1>1, Working
<1>3. UNCHANGED <<approvals, steps, outbox, policies, kind, ran, spent, granted, overlapped,
                  hitches, req>> /\ Goto(d, "load")
  BY DEF MarkRunning, ghosts
<1>4. Writes(r)
  BY <1>2, <1>3 DEF MarkRunning, SetStatus, ExecutionStatus, Writes, ghosts, TypeOK
<1>5. Hold(d, req[d]) /\ req[d] \in Request /\ req[d].run = r /\ "load" \in Labels \ {"idle"}
  BY <1>1, <1>2, <1>3, SameMemory DEF Run, Labels, InTry
<1>6. req'[d] = req[d] /\ pc'[d] = "load" /\ Run(d)' = r
  BY <1>1, <1>2, <1>3, <1>4, <1>5, WriteIsStep
<1>7. InHand(d)'
  <2>1. Placed(d)'
    BY <1>1, <1>2, <1>3, <1>6, RuntimeAssumption
       DEF InHand, Placed, Active, EntryLabels, Labels, Stopped, InTry
  <2>2. GrantHeld(d)'
    BY <1>1, <1>2, <1>3, <1>6
       DEF InHand, GrantHeld, Active, Stopped, Ungranted, Deciding, Granted
  <2>3. CallHeld(d)'
    BY <1>1, <1>2, <1>6 DEF InHand, CallHeld, Screened
  <2>4. QED  BY <2>1, <2>2, <2>3 DEF InHand
<1>8. Unspent(d)'
  BY <1>1, <1>2, <1>3, <1>6 DEF Unspent, Granted
<1>9. Healthy(r) /\ Alone(d, r) => Arrived(d, r)'
  BY <1>1, <1>2, <1>3, <1>6 DEF Arrived, Phase, Active, Stopped, Decided
<1>10. QED  BY <1>1, <1>2, <1>3, <1>4, <1>5, <1>7, <1>8, <1>9, WriteKeeps

\* A set of numbers that is not empty has a least one.
LEMMA Least ==
    ASSUME NEW T \in SUBSET Nat, T # {}
    PROVE  \E m \in T : \A k \in T : ~(k < m)
<1>1. PICK m \in T : \A k \in T : ~(<<k, m>> \in OpToRel(<, Nat))
  BY NatLessThanWellFounded, WFMin
<1>2. \A k \in T : k < m => <<k, m>> \in OpToRel(<, Nat)
  BY DEF OpToRel
<1>3. QED  BY <1>1, <1>2

\* executeApprovedToolCall numbers its step behind all others, and within what
\* the run has saved.
LEMMA ApprovedCallNumbers ==
    ASSUME NEW old \in Seq(Step), \A m \in DOMAIN old : old[m].index < Len(old)
    PROVE  /\ approvedCall(old).len = Len(old)
           /\ approvedCall(old).next \in 0..Len(old)
           /\ \A m \in DOMAIN old : old[m].index < approvedCall(old).next
           /\ approvedCall(old).calls \in Nat
<1> DEFINE after(n) == \A m \in DOMAIN old : old[m].index < n
           free == {n \in 0..Len(old) : after(n)}
           first == CHOOSE n \in 0..Len(old) : after(n) /\ (n = 0 \/ ~after(n - 1))
           called == {m \in DOMAIN old : old[m].action = "tool"}
<1>1. Len(old) \in Nat /\ DOMAIN old = 1..Len(old)
  OBVIOUS
<1>2. free \in SUBSET Nat /\ Len(old) \in free
  BY <1>1
<1>3. PICK n \in free : \A k \in free : ~(k < n)
  <2> HIDE DEF free
  <2>1. QED  BY <1>2, Least
<1>4. n \in 0..Len(old) /\ after(n) /\ (n = 0 \/ ~after(n - 1))
  <2>1. n \in 0..Len(old) /\ after(n)
    BY <1>3
  <2>2. CASE n # 0
    <3>1. n - 1 \in 0..Len(old) /\ n - 1 < n
      BY <1>1, <2>1, <2>2
    <3>2. n - 1 \notin free
      BY <1>3, <3>1
    <3>3. QED  BY <2>1, <3>1, <3>2
  <2>3. QED  BY <2>1, <2>2
<1>5. first \in 0..Len(old) /\ after(first)
  <2> HIDE DEF after
  <2>1. QED  BY <1>4
<1>6. Cardinality(called) \in Nat
  <2>1. IsFiniteSet(1..Len(old))
    BY <1>1, FS_Interval
  <2>2. IsFiniteSet(called)
    BY <1>1, <2>1, FS_Subset
  <2>3. QED  BY <2>2, FS_CardinalityType
<1>7. approvedCall(old) = [len |-> Len(old), next |-> first, calls |-> Cardinality(called) + 1]
  BY DEF approvedCall
<1> HIDE DEF first, called
<1>8. QED  BY <1>5, <1>6, <1>7

LEMMA RebuildHistoryKeeps ==
    ASSUME RuntimeInvariant, NEW d \in Deciders, RebuildHistory(d)
    PROVE  RuntimeInvariant'
<1>1. d \in Procs /\ Active(d) /\ pc[d] = "rebuild"
  BY DEF Procs, RebuildHistory, At, Active, Stopped
<1>2. PICK r \in Runs : /\ r = Run(d) /\ Works(d, r) /\ RunOK(r)
                        /\ InHand(d) /\ Unspent(d) /\ TypeOK
                        /\ Healthy(r) /\ Alone(d, r) => Phase(d)
  BY <1>1, Working
<1>3. PICK old \in Request : old = req[d]
  BY <1>1, <1>2 DEF TypeOK
<1>4. PICK history : history = steps[r]
  OBVIOUS
<1>5. history \in Seq(Step) /\ \A m \in DOMAIN history : history[m].index < Len(history)
  BY <1>2, <1>4 DEF TypeOK, RunOK, Numbered
<1>6. PICK call : call = approvedCall(history)
  OBVIOUS
<1>7. call.len = Len(history) /\ call.next \in 0..Len(history) /\ call.calls \in Nat
  BY <1>5, <1>6, ApprovedCallNumbers
<1>8. PICK held : held = [old EXCEPT !.len = call.len, !.next = call.next, !.calls = call.calls]
  OBVIOUS
<1>9. call.len \in Nat /\ call.next \in Nat /\ call.len <= Len(history)
      /\ call.next <= Len(history)
  BY <1>5, <1>7
<1>10. /\ held \in Request /\ held.run = r /\ held.grant = old.grant /\ held.tool = old.tool
       /\ held.decision = old.decision /\ held.policy = old.policy /\ held.len = call.len
       /\ held.next = call.next /\ held.paused = old.paused
  BY <1>2, <1>3, <1>7, <1>8, <1>9 DEF Request, Run
<1>11. UNCHANGED <<executions, approvals, steps, outbox, policies, kind, ran, spent, granted,
                   overlapped, hitches>>
  BY DEF RebuildHistory, tables, ghosts
<1>12. Writes(r)
  BY <1>2, <1>11 DEF Writes, ghosts, TypeOK
<1>13. Hold(d, held) /\ Goto(d, "tool") /\ "tool" \in Labels \ {"idle"}
  BY <1>2, <1>3, <1>4, <1>6, <1>8 DEF RebuildHistory, Labels, InTry
<1>14. req'[d] = held /\ pc'[d] = "tool" /\ Run(d)' = r
  BY <1>1, <1>2, <1>10, <1>12, <1>13, WriteIsStep
<1>15. held.tool \in Tools
  <2>1. old.grant \in DOMAIN approvals[r] /\ approvals[r][old.grant].tool = old.tool
    BY <1>1, <1>2, <1>3 DEF InHand, GrantHeld, Deciding
  <2>2. approvals[r] \in Seq(Approval)
    BY <1>2 DEF TypeOK
  <2>3. approvals[r][old.grant] \in Approval
    BY <2>1, <2>2
  <2>4. QED  BY <1>10, <2>1, <2>3 DEF Approval
<1>16. InHand(d)'
  <2>1. Placed(d)'
    BY <1>1, <1>2, <1>3, <1>4, <1>9, <1>10, <1>11, <1>14, RuntimeAssumption
       DEF InHand, Placed, Active, EntryLabels, Labels, Stopped, InTry
  <2>2. GrantHeld(d)'
    BY <1>1, <1>2, <1>3, <1>10, <1>11, <1>14, RuntimeAssumption
       DEF InHand, GrantHeld, Active, Stopped, Ungranted, Deciding, Granted
  <2>3. CallHeld(d)'
    BY <1>1, <1>2, <1>3, <1>10, <1>14, <1>15
       DEF InHand, CallHeld, GrantHeld, Deciding, Screened
  <2>4. QED  BY <2>1, <2>2, <2>3 DEF InHand
<1>17. Unspent(d)'
  BY <1>1, <1>2, <1>3, <1>10, <1>11, <1>14 DEF Unspent, Granted
<1>18. Healthy(r) /\ Alone(d, r) => Arrived(d, r)'
  BY <1>1, <1>2, <1>11, <1>14 DEF Arrived, Phase, Active, Stopped, Decided
<1>19. QED  BY <1>1, <1>2, <1>10, <1>12, <1>13, <1>16, <1>17, <1>18, WriteKeeps

\* A call that passes the screen needs no human, or its owner asks for one.
LEMMA ScreenPasses ==
    ASSUME NEW p, NEW t, NEW answer, screen(p, t, answer) \notin {"pause", "throw", "block"}
    PROVE  \/ Policy(p).rules[t] \in {"none", "L1"}
           \/ Governed(p) /\ Policy(p).rules[t] = "L3"
  BY DEF screen

LEMMA ModelToolCallKeeps ==
    ASSUME RuntimeInvariant, NEW p \in Runs \cup Deciders, ModelToolCall(p)
    PROVE  RuntimeInvariant'
<1>1. p \in Procs /\ Active(p) /\ pc[p] = "loop"
  BY DEF Procs, ModelToolCall, InLoop, At, Active, Stopped
<1>2. PICK r \in Runs : /\ r = Run(p) /\ Works(p, r) /\ RunOK(r)
                        /\ InHand(p) /\ Unspent(p) /\ TypeOK
                        /\ Healthy(r) /\ Alone(p, r) => Phase(p)
  BY <1>1, Working
<1>3. PICK old \in Request : old = req[p]
  BY <1>1, <1>2 DEF TypeOK
<1>4. PICK t \in Tools, same \in Nat, step \in [action : {"tool", "other"}, end : Ends],
           label \in {"persist", "pauseRead", "fail", "tool"} :
          /\ Hold(p, [old EXCEPT !.tool = t, !.same = same, !.calls = @ + 1, !.tries = 0,
                                 !.durable = FALSE, !.step = step])
          /\ Goto(p, label)
          /\ label = "persist" => step.end # "guard"
          /\ label = "pauseRead" => step.end = "guard"
          /\ label = "tool" => \/ Policy(p).rules[t] \in {"none", "L1"}
                               \/ Governed(p) /\ Policy(p).rules[t] = "L3"
  <2>1. PICK t \in Tools, sameInput \in BOOLEAN, answer \in EngineAnswers :
           LET same == IF sameInput /\ req[p].tool = t THEN req[p].same + 1 ELSE 1
               stop == same >= JitterThreshold \/ req[p].calls + 1 > MaxToolCalls
               next == IF stop THEN "stop" ELSE screen(p, t, answer)
               step == CASE next = "stop" -> [action |-> "other", end |-> "failed"]
                         [] next = "block" -> [action |-> "tool", end |-> "go"]
                         [] OTHER -> [action |-> "tool", end |-> "guard"]
           IN /\ Hold(p, [req[p] EXCEPT !.tool = t, !.same = same, !.calls = @ + 1, !.tries = 0,
                                        !.durable = FALSE, !.step = step])
              /\ Goto(p, CASE next \in {"stop", "block"} -> "persist"
                           [] next = "pause" -> "pauseRead"
                           [] next = "throw" -> "fail"
                           [] OTHER -> "tool")
    BY Zenon DEF ModelToolCall
  <2>2. PICK same \in Nat : same = IF sameInput /\ old.tool = t THEN old.same + 1 ELSE 1
    BY <1>3 DEF Request
  <2>3. PICK next : next = IF same >= JitterThreshold \/ old.calls + 1 > MaxToolCalls
                           THEN "stop" ELSE screen(p, t, answer)
    OBVIOUS
  <2>4. PICK step : step = CASE next = "stop" -> [action |-> "other", end |-> "failed"]
                             [] next = "block" -> [action |-> "tool", end |-> "go"]
                             [] OTHER -> [action |-> "tool", end |-> "guard"]
    OBVIOUS
  <2>5. PICK label : label = CASE next \in {"stop", "block"} -> "persist"
                               [] next = "pause" -> "pauseRead"
                               [] next = "throw" -> "fail"
                               [] OTHER -> "tool"
    OBVIOUS
  <2>6. /\ Hold(p, [old EXCEPT !.tool = t, !.same = same, !.calls = @ + 1, !.tries = 0,
                               !.durable = FALSE, !.step = step])
        /\ Goto(p, label)
    BY <1>3, <2>1, <2>2, <2>3, <2>4, <2>5, Zenon
  <2>7. step \in [action : {"tool", "other"}, end : Ends]
        /\ label \in {"persist", "pauseRead", "fail", "tool"}
        /\ (label = "persist" => step.end # "guard")
        /\ (label = "pauseRead" => step.end = "guard")
    BY <2>4, <2>5 DEF Ends
  <2>8. label = "tool" => next \notin {"stop", "block", "pause", "throw"}
    BY <2>5
  <2>9. label = "tool" => \/ Policy(p).rules[t] \in {"none", "L1"}
                          \/ Governed(p) /\ Policy(p).rules[t] = "L3"
    BY <2>3, <2>8, ScreenPasses
  <2>10. QED  BY <2>2, <2>6, <2>7, <2>9, Zenon
<1>5. PICK held : held = [old EXCEPT !.tool = t, !.same = same, !.calls = @ + 1, !.tries = 0,
                                     !.durable = FALSE, !.step = step]
  OBVIOUS
<1>6. /\ held \in Request /\ held.run = r /\ held.grant = old.grant /\ held.tool = t
      /\ held.policy = old.policy /\ held.len = old.len
      /\ held.next = old.next /\ held.step = step
  <2>1. PICK calls \in Nat : calls = old.calls + 1
    BY <1>3 DEF Request
  <2>2. held = [old EXCEPT !.tool = t, !.same = same, !.calls = calls, !.tries = 0,
                           !.durable = FALSE, !.step = step]
    BY <1>5, <2>1
  <2>3. old.run = r
    BY <1>2, <1>3 DEF Run
  <2>4. QED  BY <1>3, <1>4, <2>1, <2>2, <2>3 DEF Request
<1>flags. held.durable = FALSE /\ held.paused = old.paused
  BY <1>3, <1>5 DEF Request
<1>7. UNCHANGED <<executions, approvals, steps, outbox, policies, kind, ran, spent, granted,
                  overlapped, hitches>>
  BY DEF ModelToolCall, tables, ghosts
<1>8. Writes(r)
  BY <1>2, <1>7 DEF Writes, ghosts, TypeOK
<1>9. Hold(p, held) /\ Goto(p, label) /\ label \in Labels \ {"idle"}
  BY <1>4, <1>5 DEF Labels, InTry
<1>10. req'[p] = held /\ pc'[p] = label /\ Run(p)' = r
  BY <1>1, <1>2, <1>6, <1>8, <1>9, WriteIsStep
<1>grant. held.grant = 0
  BY <1>1, <1>2, <1>3, <1>6 DEF InHand, GrantHeld, Ungranted
<1>11. InHand(p)'
  <2>1. Placed(p)'
    BY <1>1, <1>2, <1>3, <1>4, <1>6, <1>7, <1>10
       DEF InHand, Placed, Run, Active, EntryLabels, Labels, Stopped, InTry
  <2>2. GrantHeld(p)'
    BY <1>4, <1>10, <1>grant DEF GrantHeld, Deciding
  <2>3. CallHeld(p)'
    <3>1. Policy(p)' = Policy(p) /\ Governed(p)' = Governed(p)
      BY <1>2, <1>3, <1>6, <1>7, <1>10 DEF Policy, Governed
    <3>2. ~held.paused
      BY <1>1, <1>2, <1>3, <1>flags DEF InHand, CallHeld
    <3>3. QED  BY <1>4, <1>6, <1>10, <3>1, <3>2 DEF CallHeld
  <2>4. QED  BY <2>1, <2>2, <2>3 DEF InHand
<1>12. Unspent(p)'
  BY <1>10, <1>grant DEF Unspent
<1>13. Healthy(r) /\ Alone(p, r) => Arrived(p, r)'
  <2>1. SUFFICES ASSUME Healthy(r), Alone(p, r) PROVE Phase(p)' /\ Active(p)'
    BY DEF Arrived
  <2>2. Decided(r)
    BY <1>1, <1>2, <2>1 DEF Phase
  <2>3. Decided(r)'
    BY <1>7, <2>2 DEF Decided
  <2>4. ~held.paused /\ ~held.durable
    BY <1>1, <1>2, <1>3, <1>flags DEF InHand, CallHeld
  <2>5. QED  BY <1>4, <1>10, <2>3, <2>4 DEF Phase, Active, Stopped
<1>14. QED  BY <1>1, <1>2, <1>6, <1>8, <1>9, <1>11, <1>12, <1>13, WriteKeeps

----------------------------------------------------------------------------
(* Steps that append to a table *)

\* A sequence with one element more.
LEMMA AppendFacts ==
    ASSUME NEW S, NEW list \in Seq(S), NEW x \in S
    PROVE  /\ Append(list, x) \in Seq(S) /\ Append(list, x) # <<>>
           /\ Len(Append(list, x)) = Len(list) + 1 /\ Len(list) \in Nat
           /\ DOMAIN list = 1..Len(list) /\ DOMAIN Append(list, x) = 1..(Len(list) + 1)
           /\ \A k \in 1..Len(list) : Append(list, x)[k] = list[k]
           /\ Append(list, x)[Len(list) + 1] = x
  OBVIOUS

\* persistStep, from wherever the loop calls it.
LEMMA SaveStepKeeps ==
    ASSUME RuntimeInvariant, NEW p \in Runs \cup Deciders, pc[p] \in {"loop", "persist"},
           NEW action \in {"tool", "other"}, NEW end \in Ends, SaveStep(p, action, end),
           req[p].paused <=> end = "guard"
    PROVE  RuntimeInvariant'
<1>1. p \in Procs /\ Active(p)
  BY DEF Procs, Active, Stopped
<1>2. PICK r \in Runs : /\ r = Run(p) /\ Works(p, r) /\ RunOK(r)
                        /\ InHand(p) /\ Unspent(p) /\ TypeOK
                        /\ Healthy(r) /\ Alone(p, r) => Phase(p)
  BY <1>1, Working
<1>3. PICK old \in Request : old = req[p]
  BY <1>1, <1>2 DEF TypeOK
<1>4. PICK length \in Nat : length = old.len + 1
  BY <1>3 DEF Request
<1>5. PICK held : held = [old EXCEPT !.len = length, !.next = length, !.last = end,
                                     !.grant = 0, !.tries = 0, !.step = NoStep]
  OBVIOUS
<1>6. /\ held \in Request /\ held.run = r /\ held.grant = 0 /\ held.policy = old.policy
      /\ held.len = length /\ held.next = length
  <2>1. old.run = r
    BY <1>2, <1>3 DEF Run
  <2>2. QED  BY <1>3, <1>4, <1>5, <2>1 DEF Request, NoStep, Ends
<1>flag. held.paused = old.paused
  BY <1>3, <1>5 DEF Request
<1>7. PICK label : label = IF end = "go" THEN "loop" ELSE "closeout"
  OBVIOUS
<1>8. PICK row : row = [index |-> old.next, action |-> action, end |-> end]
  OBVIOUS
<1>9. row \in Step /\ row.index = old.next /\ row.end = end
  BY <1>3, <1>8 DEF Step, Request
<1>10. /\ steps' = [steps EXCEPT ![r] = Append(steps[r], row)]
       /\ Goto(p, label)
       /\ UNCHANGED <<executions, approvals, outbox, policies, kind, ran, spent, granted,
                      overlapped, hitches>>
  BY <1>2, <1>3, <1>7, <1>8 DEF SaveStep, ghosts
<1>hold. Hold(p, held)
  BY <1>3, <1>4, <1>5 DEF SaveStep
<1>11. steps[r] \in Seq(Step) /\ steps'[r] = Append(steps[r], row)
  BY <1>2, <1>10 DEF TypeOK
<1>12. /\ steps'[r] \in Seq(Step) /\ steps'[r] # <<>>
       /\ Len(steps'[r]) = Len(steps[r]) + 1 /\ Len(steps[r]) \in Nat
       /\ DOMAIN steps'[r] = 1..(Len(steps[r]) + 1)
       /\ \A k \in 1..Len(steps[r]) : steps'[r][k] = steps[r][k]
       /\ steps'[r][Len(steps[r]) + 1] = row
       /\ DOMAIN steps[r] = 1..Len(steps[r])
  BY <1>9, <1>11, AppendFacts
<1>13. /\ req' \in [Procs -> Request] /\ pc' \in [Procs -> Labels] /\ req'[p] = held
       /\ pc'[p] = label /\ Run(p)' = r
       /\ \A q \in Procs \ {p} : pc'[q] = pc[q] /\ req'[q] = req[q]
  BY <1>1, <1>2, <1>6, <1>7, <1>10, <1>hold DEF TypeOK, Hold, Goto, Labels, InTry, Run
<1>14. steps' \in [Runs -> Seq(Step)] /\ \A s \in Runs \ {r} : steps'[s] = steps[s]
  BY <1>2, <1>10, <1>11, <1>12 DEF TypeOK
<1>15. TypeOK'
  BY <1>2, <1>10, <1>13, <1>14 DEF TypeOK
<1>16. StepOf(p, r)
  <2>1. \A s \in Runs \ {r} : Same(s)
    BY <1>10, <1>14 DEF Same
  <2>2. Grows(r)
    BY <1>10, <1>12 DEF Grows
  <2>3. QED  BY <1>2, <1>7, <1>10, <1>13, <1>15, <2>1, <2>2 DEF StepOf, Run
<1>17. old.len <= Len(steps[r]) /\ old.next <= Len(steps[r]) /\ old.len \in Nat
       /\ old.next \in Nat
  BY <1>1, <1>2, <1>3 DEF InHand, Placed, Request
<1>18. Numbered(r)'
  <2>1. ASSUME NEW m \in DOMAIN steps'[r] PROVE steps'[r][m].index < Len(steps'[r])
    <3>1. CASE m \in 1..Len(steps[r])
      <4>1. steps[r][m] \in Step /\ steps[r][m].index < Len(steps[r])
        BY <1>2, <1>11, <1>12, <3>1 DEF RunOK, Numbered
      <4>2. QED  BY <1>12, <3>1, <4>1 DEF Step
    <3>2. CASE m = Len(steps[r]) + 1
      BY <1>9, <1>12, <1>17, <3>2
    <3>3. QED  BY <1>12, <3>1, <3>2
  <2>2. QED  BY <2>1 DEF Numbered
<1>19. InHand(p)'
  <2>1. Placed(p)'
    <3>1. length <= Len(steps'[r])
      BY <1>4, <1>12, <1>17
    <3>2. QED
      BY <1>1, <1>2, <1>3, <1>6, <1>7, <1>10, <1>13, <3>1
         DEF InHand, Placed, Run, Active, EntryLabels, Labels, Stopped, InTry
  <2>2. GrantHeld(p)'
    BY <1>6, <1>7, <1>13 DEF GrantHeld, Deciding
  <2>3. CallHeld(p)'
    BY <1>3, <1>7, <1>13, <1>flag DEF CallHeld, Screened
  <2>4. QED  BY <2>1, <2>2, <2>3 DEF InHand
<1>20. Unspent(p)'
  BY <1>6, <1>13 DEF Unspent
<1>21. Healthy(r) /\ Alone(p, r) => Arrived(p, r)'
  <2>1. SUFFICES ASSUME Healthy(r), Alone(p, r) PROVE Phase(p)' /\ Active(p)'
    BY DEF Arrived
  <2>2. Active(p)'
    BY <1>7, <1>13 DEF Active, Stopped
  <2>3. CASE old.paused
    <3>1. end = "guard" /\ pc[p] = "persist"
      BY <1>2, <1>3, <2>3 DEF InHand, CallHeld
    <3>2. Paused(r)
      BY <1>2, <1>3, <2>1, <2>3, <3>1 DEF Phase
    <3>3. Paused(r)'
      BY <1>10, <3>2 DEF Paused, Waiting
    <3>4. Guarded(r)'
      BY <1>9, <1>12, <3>1 DEF Guarded
    <3>5. QED  BY <1>7, <1>13, <2>2, <3>1, <3>3, <3>4 DEF Phase
  <2>4. CASE ~old.paused
    <3>1. Decided(r)
      BY <1>2, <1>3, <2>1, <2>4 DEF Phase
    <3>2. Decided(r)'
      BY <1>10, <3>1 DEF Decided
    <3>3. QED  BY <1>7, <1>13, <1>flag, <2>2, <2>4, <3>2 DEF Phase
  <2>5. QED  BY <2>3, <2>4
<1>22. QED
  BY <1>1, <1>2, <1>10, <1>16, <1>18, <1>19, <1>20, <1>21, StepKeeps

LEMMA PersistStepKeeps ==
    ASSUME RuntimeInvariant, NEW p \in Runs \cup Deciders, PersistStep(p)
    PROVE  RuntimeInvariant'
<1>1. p \in Procs /\ pc[p] = "persist" /\ req[p] \in Request /\ CallHeld(p)
  BY DEF PersistStep, At, Procs, RuntimeInvariant, TypeOK, InHand
<1>2. req[p].step \in [action : {"tool", "other"}, end : Ends]
  BY <1>1 DEF Request
<1>3. PICK action \in {"tool", "other"}, end \in Ends :
          action = req[p].step.action /\ end = req[p].step.end
  BY <1>2
<1>4. SaveStep(p, action, end) /\ (req[p].paused <=> end = "guard")
  BY <1>1, <1>3 DEF PersistStep, CallHeld
<1>5. QED  BY <1>1, <1>4, SaveStepKeeps

\* The turns of the model that end with a step.
LEMMA TurnKeeps ==
    ASSUME RuntimeInvariant, NEW p \in Runs \cup Deciders,
           StopUnmarked(p) \/ ModelCallFails(p) \/ StopControlled(p) \/ ModelFinish(p)
               \/ ModelHandoff(p) \/ ModelGenerate(p)
    PROVE  RuntimeInvariant'
<1>1. pc[p] = "loop"
  BY DEF StopUnmarked, ModelCallFails, StopControlled, ModelFinish, ModelHandoff,
         ModelGenerate, InLoop, At
<1>2. ~req[p].paused
  BY <1>1 DEF RuntimeInvariant, InHand, CallHeld, Procs
<1>3. PICK end \in {"go", "done", "failed"} : SaveStep(p, "other", end)
  BY DEF StopUnmarked, ModelCallFails, StopControlled, ModelFinish, ModelHandoff,
         ModelGenerate, EndOf
<1>4. end \in Ends /\ end # "guard"
  BY DEF Ends
<1>5. req[p].paused <=> end = "guard"
  BY <1>2, <1>4
<1>6. QED  BY <1>1, <1>3, <1>4, <1>5, SaveStepKeeps

\* Nothing changes but run r's approvals: each keeps its tool, and its decision if any.
Files(r, rows) ==
    /\ approvals' = [approvals EXCEPT ![r] = rows]
    /\ rows # <<>>
    /\ \A k \in DOMAIN approvals[r] :
           /\ k \in DOMAIN rows /\ rows[k].tool = approvals[r][k].tool
           /\ approvals[r][k].status # "PENDING" => rows[k].status # "PENDING"
    /\ UNCHANGED <<executions, steps, outbox, policies, kind, ghosts, hitches>>

LEMMA FilesIsStep ==
    ASSUME TypeOK, NEW p \in Procs, NEW r \in Runs, Works(p, r),
           NEW rows \in Seq(Approval), Files(r, rows),
           NEW held \in Request, held.run = r, Hold(p, held),
           NEW label \in Labels \ {"idle"}, Goto(p, label)
    PROVE  /\ StepOf(p, r) /\ req'[p] = held /\ pc'[p] = label /\ Run(p)' = r
           /\ approvals'[r] = rows
<1>1. req' \in [Procs -> Request] /\ pc' \in [Procs -> Labels] /\ req'[p] = held
      /\ pc'[p] = label /\ \A q \in Procs \ {p} : pc'[q] = pc[q] /\ req'[q] = req[q]
  BY DEF TypeOK, Hold, Goto
<1>2. UNCHANGED <<executions, steps, outbox, policies, kind, ran, spent, granted, overlapped,
                  hitches>>
  BY DEF Files, ghosts
<1>3. approvals' \in [Runs -> Seq(Approval)] /\ approvals'[r] = rows
      /\ \A s \in Runs \ {r} : approvals'[s] = approvals[s]
  BY DEF TypeOK, Files
<1>4. TypeOK'
  BY <1>1, <1>2, <1>3 DEF TypeOK
<1>5. \A s \in Runs \ {r} : Same(s)
  BY <1>2, <1>3 DEF Same
<1>6. Grows(r)
  <2>1. Len(steps[r]) \in Nat
    BY DEF TypeOK
  <2>2. QED  BY <1>2, <1>3, <2>1 DEF Grows, Files
<1>7. QED  BY <1>1, <1>2, <1>3, <1>4, <1>5, <1>6 DEF StepOf, Run

\* The approval just filed is the one that waits.
LEMMA FiledWaits ==
    ASSUME NEW r \in Runs, approvals[r] \in Seq(Approval), NEW row \in Approval,
           row.status = "PENDING", approvals'[r] = Append(approvals[r], row), Decided(r)
    PROVE  Waiting(r)'
<1>1. PICK n \in Nat : n = Len(approvals[r])
  OBVIOUS
<1>2. /\ approvals'[r] # <<>> /\ Len(approvals'[r]) = n + 1
      /\ DOMAIN approvals'[r] = 1..(n + 1) /\ DOMAIN approvals[r] = 1..n
      /\ \A k \in 1..n : approvals'[r][k] = approvals[r][k]
      /\ approvals'[r][n + 1] = row
  BY <1>1, AppendFacts
<1>3. ASSUME NEW k \in DOMAIN approvals'[r]
      PROVE  approvals'[r][k].status = "PENDING" <=> k = Len(approvals'[r])
  <2>1. CASE k \in 1..n
    BY <1>2, <2>1 DEF Decided
  <2>2. CASE k = n + 1
    BY <1>2, <2>2
  <2>3. QED  BY <1>2, <2>1, <2>2
<1>4. QED  BY <1>2, <1>3 DEF Waiting

\* A step that files an approval.
LEMMA FilingIsStep ==
    ASSUME TypeOK, NEW p \in Procs, NEW r \in Runs, r = Run(p), Works(p, r), req[p].tool \in Tools,
           NEW durable \in BOOLEAN, FileApproval(p, durable),
           UNCHANGED <<executions, steps, outbox, policies, kind, ghosts, hitches>>,
           NEW held \in Request, held.run = r, Hold(p, held),
           NEW label \in Labels \ {"idle"}, Goto(p, label)
    PROVE  /\ StepOf(p, r) /\ req'[p] = held /\ pc'[p] = label /\ Run(p)' = r
           /\ approvals'[r] # <<>>
           /\ Decided(r) => Waiting(r)'
<1>1. PICK row : row = [status |-> "PENDING", tool |-> req[p].tool, durable |-> durable]
  OBVIOUS
<1>2. row \in Approval /\ row.status = "PENDING" /\ approvals[r] \in Seq(Approval)
  BY <1>1 DEF Approval, TypeOK
<1>3. PICK rows : rows = Append(approvals[r], row)
  OBVIOUS
<1>4. approvals' = [approvals EXCEPT ![r] = rows]
  BY <1>1, <1>3 DEF FileApproval
<1>5. rows \in Seq(Approval) /\ rows # <<>>
      /\ \A k \in DOMAIN approvals[r] : k \in DOMAIN rows /\ rows[k] = approvals[r][k]
  BY <1>2, <1>3, AppendFacts
<1>6. /\ StepOf(p, r) /\ req'[p] = held /\ pc'[p] = label /\ Run(p)' = r
      /\ approvals'[r] = rows
  <2>1. Files(r, rows)
    BY <1>4, <1>5 DEF Files
  <2>2. QED  BY <1>5, <2>1, FilesIsStep
<1>7. QED  BY <1>2, <1>3, <1>5, <1>6, FiledWaits

LEMMA CreateAgentApprovalKeeps ==
    ASSUME RuntimeInvariant, NEW p \in Runs \cup Deciders, CreateAgentApproval(p)
    PROVE  RuntimeInvariant'
<1>1. p \in Procs /\ Active(p) /\ pc[p] = "createApproval"
  BY DEF Procs, CreateAgentApproval, At, Active, Stopped
<1>2. PICK r \in Runs : /\ r = Run(p) /\ Works(p, r) /\ RunOK(r)
                        /\ InHand(p) /\ Unspent(p) /\ TypeOK
                        /\ Healthy(r) /\ Alone(p, r) => Phase(p)
  BY <1>1, Working
<1>3. UNCHANGED <<executions, steps, outbox, policies, kind, ran, spent, granted, overlapped,
                  hitches, req>> /\ Goto(p, "persist") /\ FileApproval(p, FALSE)
  BY DEF CreateAgentApproval, ghosts
<1>4. Hold(p, req[p]) /\ req[p] \in Request /\ req[p].run = r
      /\ "persist" \in Labels \ {"idle"}
  BY <1>1, <1>2, <1>3, SameMemory DEF Run, Labels, InTry
<1>5. req[p].tool \in Tools /\ req[p].grant = 0 /\ req[p].paused /\ req[p].step.end = "guard"
  BY <1>1, <1>2 DEF InHand, GrantHeld, CallHeld, Ungranted, Screened
<1>6. /\ StepOf(p, r) /\ req'[p] = req[p] /\ pc'[p] = "persist" /\ Run(p)' = r
      /\ approvals'[r] # <<>>
      /\ Decided(r) => Waiting(r)'
  BY <1>1, <1>2, <1>3, <1>4, <1>5, FilingIsStep DEF ghosts
<1>7. InHand(p)'
  <2>1. Placed(p)'
    BY <1>1, <1>2, <1>3, <1>6
       DEF InHand, Placed, Active, EntryLabels, Labels, Stopped, InTry
  <2>2. GrantHeld(p)'
    BY <1>5, <1>6 DEF GrantHeld, Deciding
  <2>3. CallHeld(p)'
    BY <1>5, <1>6 DEF CallHeld, Screened
  <2>4. QED  BY <2>1, <2>2, <2>3 DEF InHand
<1>8. Unspent(p)'
  BY <1>5, <1>6 DEF Unspent
<1>9. Numbered(r)'
  BY <1>2, <1>3 DEF RunOK, Numbered
<1>10. approvals[r] = <<>> => p \in Runs
  BY <1>1, <1>2 DEF InHand, Placed
<1>11. Healthy(r) /\ Alone(p, r) => Arrived(p, r)'
  BY <1>1, <1>2, <1>3, <1>5, <1>6 DEF Arrived, Phase, Active, Stopped, Paused
<1>12. QED
  BY <1>1, <1>2, <1>3, <1>6, <1>7, <1>8, <1>9, <1>10, <1>11, StepKeeps

\* Only a call without a grant is escalated; a governed one waits from here on.
LEMMA EscalatedCallKeeps ==
    ASSUME RuntimeInvariant, NEW p \in Runs \cup Deciders, EscalatedCall(p)
    PROVE  RuntimeInvariant'
<1>1. p \in Procs /\ Active(p) /\ pc[p] = "tool"
  BY DEF Procs, EscalatedCall, At, Active, Stopped
<1>2. PICK r \in Runs : /\ r = Run(p) /\ Works(p, r) /\ RunOK(r)
                        /\ InHand(p) /\ Unspent(p) /\ TypeOK
                        /\ Healthy(r) /\ Alone(p, r) => Phase(p)
  BY <1>1, Working
<1>3. PICK old \in Request : old = req[p]
  BY <1>1, <1>2 DEF TypeOK
<1>4. PICK durable \in BOOLEAN : durable = Governed(p)
  BY DEF Governed
<1>5. PICK held : held = [old EXCEPT !.durable = durable,
                                     !.step = [action |-> "tool", end |-> "guard"]]
  OBVIOUS
<1>6. /\ held \in Request /\ held.run = r /\ held.grant = old.grant /\ held.tool = old.tool
      /\ held.policy = old.policy /\ held.len = old.len /\ held.next = old.next
      /\ held.step.end = "guard"
  <2>1. old.run = r
    BY <1>2, <1>3 DEF Run
  <2>2. QED  BY <1>3, <1>4, <1>5, <2>1 DEF Request, Ends
<1>7. held.durable = durable /\ held.paused = old.paused
  BY <1>3, <1>5 DEF Request
<1>8. UNCHANGED <<executions, steps, outbox, policies, kind, ran, spent, granted, overlapped,
                  hitches>>
  BY DEF EscalatedCall, ghosts
<1>9. Hold(p, held) /\ Goto(p, "pauseRead") /\ "pauseRead" \in Labels \ {"idle"}
  BY <1>3, <1>4, <1>5 DEF EscalatedCall, Labels, InTry
<1>10. old.grant = 0
  BY <1>3 DEF EscalatedCall, registryRefuses
<1>11. ~old.paused /\ old.tool \in Tools
  BY <1>1, <1>2, <1>3 DEF InHand, CallHeld, Screened
<1>12. ASSUME req'[p] = held, pc'[p] = "pauseRead", Run(p)' = r,
              approvals[r] # <<>> => approvals'[r] # <<>>
       PROVE  InHand(p)' /\ Unspent(p)'
  <2>1. Placed(p)'
    BY <1>1, <1>2, <1>3, <1>6, <1>8, <1>12
       DEF InHand, Placed, Active, EntryLabels, Labels, Stopped, InTry
  <2>2. GrantHeld(p)'
    BY <1>6, <1>10, <1>12 DEF GrantHeld, Deciding
  <2>3. CallHeld(p)'
    BY <1>6, <1>7, <1>11, <1>12 DEF CallHeld
  <2>4. Unspent(p)'
    BY <1>6, <1>10, <1>12 DEF Unspent
  <2>5. QED  BY <2>1, <2>2, <2>3, <2>4 DEF InHand
<1>13. CASE durable
  <2>1. FileApproval(p, TRUE)
    BY <1>4, <1>13 DEF EscalatedCall
  <2>2. /\ StepOf(p, r) /\ req'[p] = held /\ pc'[p] = "pauseRead" /\ Run(p)' = r
        /\ approvals'[r] # <<>>
        /\ Decided(r) => Waiting(r)'
    BY <1>1, <1>2, <1>3, <1>6, <1>8, <1>9, <1>11, <2>1, FilingIsStep DEF ghosts
  <2>3. InHand(p)' /\ Unspent(p)'
    BY <1>12, <2>2
  <2>4. Numbered(r)'
    BY <1>2, <1>8 DEF RunOK, Numbered
  <2>5. approvals[r] = <<>> => p \in Runs
    BY <1>1, <1>2 DEF InHand, Placed
  <2>6. Healthy(r) /\ Alone(p, r) => Arrived(p, r)'
    BY <1>1, <1>2, <1>7, <1>13, <2>2 DEF Arrived, Phase, Active, Stopped
  <2>7. QED
    BY <1>1, <1>2, <1>8, <2>2, <2>3, <2>4, <2>5, <2>6, StepKeeps
<1>14. CASE ~durable
  <2>1. approvals' = approvals
    BY <1>4, <1>14 DEF EscalatedCall
  <2>2. Writes(r)
    BY <1>2, <1>8, <2>1 DEF Writes, ghosts, TypeOK
  <2>3. req'[p] = held /\ pc'[p] = "pauseRead" /\ Run(p)' = r
    BY <1>1, <1>2, <1>6, <1>9, <2>2, WriteIsStep
  <2>4. InHand(p)' /\ Unspent(p)'
    BY <1>12, <2>1, <2>3
  <2>5. Healthy(r) /\ Alone(p, r) => Arrived(p, r)'
    BY <1>1, <1>2, <1>7, <1>14, <2>1, <2>3 DEF Arrived, Phase, Active, Stopped, Decided
  <2>6. QED  BY <1>1, <1>2, <1>6, <1>9, <2>2, <2>4, <2>5, WriteKeeps
<1>15. QED  BY <1>13, <1>14

\* The decision is written on the approval that waited, so none waits after it.
LEMMA SaveDecisionKeeps ==
    ASSUME RuntimeInvariant, NEW d \in Deciders, SaveDecision(d)
    PROVE  RuntimeInvariant'
<1>1. d \in Procs /\ Active(d) /\ pc[d] = "saveDecision"
  BY DEF Procs, SaveDecision, At, Active, Stopped
<1>2. PICK r \in Runs : /\ r = Run(d) /\ Works(d, r) /\ RunOK(r)
                        /\ InHand(d) /\ Unspent(d) /\ TypeOK
                        /\ Healthy(r) /\ Alone(d, r) => Phase(d)
  BY <1>1, Working
<1>3. PICK k : k = req[d].grant
  OBVIOUS
<1>4. k # 0 /\ k \in DOMAIN approvals[r] /\ req[d].decision \in {"APPROVED", "REJECTED"}
  BY <1>1, <1>2, <1>3 DEF InHand, GrantHeld, Deciding
<1>5. PICK list \in Seq(Approval) : list = approvals[r]
  BY <1>2 DEF TypeOK
<1>6. PICK rows : rows = [list EXCEPT ![k].status = req[d].decision]
  OBVIOUS
<1>7. list[k] \in Approval /\ k \in 1..Len(list)
  BY <1>4, <1>5
<1>8. PICK row : row = [list[k] EXCEPT !.status = req[d].decision]
  OBVIOUS
<1>9. row \in Approval /\ row.status = req[d].decision /\ row.tool = list[k].tool
  BY <1>4, <1>7, <1>8 DEF Approval
<1>10. rows = [list EXCEPT ![k] = row]
  BY <1>6, <1>8
<1>11. /\ rows \in Seq(Approval) /\ DOMAIN rows = DOMAIN list /\ rows # <<>>
       /\ rows[k] = row /\ \A j \in DOMAIN list \ {k} : rows[j] = list[j]
  BY <1>7, <1>9, <1>10
<1>12. approvals' = [approvals EXCEPT ![r] = rows]
  BY <1>2, <1>3, <1>5, <1>6 DEF SaveDecision
<1>13. PICK label \in {"markRunning", "cancel"} :
          Goto(d, label) /\ (label = "markRunning" => req[d].decision = "APPROVED")
  BY DEF SaveDecision
<1>14. UNCHANGED <<executions, steps, outbox, policies, kind, ran, spent, granted, overlapped,
                   hitches, req>>
  BY DEF SaveDecision, ghosts
<1>15. Hold(d, req[d]) /\ req[d] \in Request /\ req[d].run = r /\ label \in Labels \ {"idle"}
  BY <1>1, <1>2, <1>13, <1>14, SameMemory DEF Run, Labels
<1>16. Files(r, rows)
  BY <1>4, <1>5, <1>9, <1>11, <1>12, <1>14 DEF Files, ghosts
<1>17. /\ StepOf(d, r) /\ req'[d] = req[d] /\ pc'[d] = label /\ Run(d)' = r
       /\ approvals'[r] = rows
  <2>1. approvals'[r] = rows
    BY <1>2, <1>12 DEF TypeOK
  <2>2. QED  BY <1>1, <1>2, <1>11, <1>13, <1>15, <1>16, <2>1, FilesIsStep
<1>18. InHand(d)'
  <2>1. Placed(d)'
    BY <1>1, <1>2, <1>11, <1>13, <1>14, <1>17, RuntimeAssumption
       DEF InHand, Placed, Active, EntryLabels, Labels, Stopped, InTry
  <2>2. GrantHeld(d)'
    BY <1>1, <1>2, <1>3, <1>5, <1>9, <1>11, <1>13, <1>14, <1>17, RuntimeAssumption
       DEF InHand, GrantHeld, Active, Stopped, Ungranted, Deciding, Granted
  <2>3. CallHeld(d)'
    BY <1>1, <1>2, <1>13, <1>17 DEF InHand, CallHeld, Screened
  <2>4. QED  BY <2>1, <2>2, <2>3 DEF InHand
<1>19. Unspent(d)'
  BY <1>1, <1>2, <1>3, <1>4, <1>9, <1>11, <1>13, <1>14, <1>17 DEF Unspent, Granted
<1>20. Healthy(r) /\ Alone(d, r) => Arrived(d, r)'
  <2>1. SUFFICES ASSUME Healthy(r), Alone(d, r) PROVE Phase(d)' /\ Active(d)'
    BY DEF Arrived
  <2>2. Waiting(r) /\ k = Len(list)
    BY <1>1, <1>2, <1>3, <1>5, <2>1 DEF Phase
  <2>3. Decided(r)'
    BY <1>4, <1>5, <1>9, <1>11, <1>17, <2>2 DEF Decided, Waiting
  <2>4. QED  BY <1>13, <1>17, <2>3 DEF Phase, Active, Stopped
<1>21. Numbered(r)' /\ approvals[r] # <<>>
  BY <1>2, <1>4, <1>14 DEF RunOK, Numbered
<1>22. QED
  BY <1>1, <1>2, <1>14, <1>17, <1>18, <1>19, <1>20, <1>21, StepKeeps

----------------------------------------------------------------------------
(* Entries *)

\* What an entry into run r may write.
Admits(r) ==
    /\ executions' = executions \/ executions' = [executions EXCEPT ![r] = "pending"]
    /\ \/ granted' = granted
       \/ \E k \in Nat : granted' = [granted EXCEPT ![r] = @ \cup {k}]
    /\ UNCHANGED <<approvals, steps, outbox, policies, kind, ran, spent>>

LEMMA EntryIsStep ==
    ASSUME RuntimeInvariant, NEW p \in Procs, NEW r \in Runs, pc[p] = "idle",
           Enters(p, r), Admits(r),
           NEW held \in Request, held.run = r, Hold(p, held),
           NEW label \in Labels \ {"idle"}, Goto(p, label)
    PROVE  /\ StepOf(p, r) /\ req'[p] = held /\ pc'[p] = label /\ Run(p)' = r
           /\ ~overlapped'[r] => Alone(p, r) /\ ~overlapped[r]
           /\ Healthy(r) /\ Alone(p, r) => Settled(r)
<1>1. TypeOK
  BY DEF RuntimeInvariant
<1>2. req' \in [Procs -> Request] /\ pc' \in [Procs -> Labels] /\ req'[p] = held
      /\ pc'[p] = label /\ \A q \in Procs \ {p} : pc'[q] = pc[q] /\ req'[q] = req[q]
  BY <1>1 DEF TypeOK, Hold, Goto
<1>3. PICK busy \in BOOLEAN : busy <=> \E q \in Procs \ {p} : Run(q) = r /\ Active(q)
  OBVIOUS
<1>4. overlapped' = [overlapped EXCEPT ![r] = @ \/ busy]
  BY <1>3 DEF Enters
<1>5. overlapped' \in [Runs -> BOOLEAN] /\ (overlapped'[r] <=> overlapped[r] \/ busy)
      /\ \A s \in Runs \ {r} : overlapped'[s] = overlapped[s]
  BY <1>1, <1>3, <1>4 DEF TypeOK
<1>6. hitches' \in 0..MaxHitches
  <2>1. hitches' = hitches \/ hitches' = hitches + 1
    BY DEF Enters
  <2>2. hitches' <= MaxHitches
    BY Zenon DEF Enters
  <2>3. QED  BY <1>1, <2>1, <2>2, RuntimeAssumption DEF TypeOK
<1>7. executions' \in [Runs -> ExecutionStatus \cup {"none"}]
      /\ \A s \in Runs \ {r} : executions'[s] = executions[s]
  BY <1>1 DEF TypeOK, Admits, ExecutionStatus
<1>8. granted' \in [Runs -> SUBSET Nat] /\ granted[r] \subseteq granted'[r]
      /\ \A s \in Runs \ {r} : granted'[s] = granted[s]
  <2>1. granted \in [Runs -> SUBSET Nat]
    BY <1>1 DEF TypeOK
  <2>2. CASE granted' = granted
    BY <2>1, <2>2
  <2>3. ASSUME NEW k \in Nat, granted' = [granted EXCEPT ![r] = @ \cup {k}]
        PROVE  /\ granted' \in [Runs -> SUBSET Nat] /\ granted[r] \subseteq granted'[r]
               /\ \A s \in Runs \ {r} : granted'[s] = granted[s]
    <3>1. PICK more \in SUBSET Nat : more = granted[r] \cup {k}
      BY <2>1
    <3>2. granted' = [granted EXCEPT ![r] = more]
      BY <2>3, <3>1
    <3>3. QED  BY <2>1, <3>1, <3>2
  <2>4. QED  BY <2>2, <2>3 DEF Admits
<1>9. UNCHANGED <<approvals, steps, outbox, policies, kind, ran, spent>>
  BY DEF Admits
<1>10. TypeOK'
  BY <1>1, <1>2, <1>5, <1>6, <1>7, <1>8, <1>9 DEF TypeOK
<1>11. \A s \in Runs \ {r} : Same(s)
  BY <1>5, <1>7, <1>8, <1>9 DEF Same
<1>12. Grows(r)
  <2>1. Len(steps[r]) \in Nat
    BY <1>1 DEF TypeOK
  <2>2. QED  BY <1>5, <1>8, <1>9, <2>1 DEF Grows
<1>13. StepOf(p, r) /\ Run(p)' = r
  BY <1>2, <1>9, <1>10, <1>11, <1>12 DEF StepOf, Run
<1>14. ~overlapped'[r] => Alone(p, r) /\ ~overlapped[r]
  BY <1>3, <1>5 DEF Alone, Works
<1>15. Healthy(r) /\ Alone(p, r) => Settled(r)
  <2>1. ~Works(p, r)
    BY DEF Works, Active
  <2>2. Alone(p, r) => \A q \in Procs : ~Works(q, r)
    BY <2>1 DEF Alone
  <2>3. QED  BY <2>2 DEF RuntimeInvariant, RunOK, InOrder
<1>16. QED  BY <1>2, <1>13, <1>14, <1>15

\* What is left to show of an entry.
LEMMA EntryKeeps ==
    ASSUME RuntimeInvariant, NEW p \in Procs, NEW r \in Runs, pc[p] = "idle",
           Enters(p, r), Admits(r),
           NEW held \in Request, held.run = r, Hold(p, held),
           NEW label \in Labels \ {"idle"}, Goto(p, label),
           InHand(p)', Unspent(p)',
           Healthy(r) /\ Settled(r) => Arrived(p, r)'
    PROVE  RuntimeInvariant'
<1>1. /\ StepOf(p, r)
      /\ ~overlapped'[r] => Alone(p, r)
      /\ Healthy(r) /\ Alone(p, r) => Arrived(p, r)'
  BY EntryIsStep
<1>2. UNCHANGED <<approvals, ran, spent, steps>>
  BY DEF Admits
<1>3. Numbered(r)'
  BY <1>2 DEF RuntimeInvariant, RunOK, Numbered
<1>4. QED  BY <1>1, <1>2, <1>3, StepKeeps

\* What a run's own request holds before it begins.
LEMMA NotBegun ==
    ASSUME RuntimeInvariant, NEW r \in Runs, pc[r] = "idle"
    PROVE  /\ r \in Procs /\ req[r] \in Request /\ req[r] = [Fresh EXCEPT !.run = r]
           /\ req[r].run = r /\ req[r].grant = 0 /\ req[r].policy = 1 /\ req[r].len = 0
           /\ req[r].next = 0 /\ ~req[r].paused
           /\ approvals[r] = <<>> /\ Decided(r) /\ 1 \in DOMAIN policies /\ Len(steps[r]) \in Nat
<1>1. r \in Procs /\ req[r] \in Request
  BY DEF Procs, RuntimeInvariant, TypeOK
<1>2. req[r] = [Fresh EXCEPT !.run = r]
  BY <1>1 DEF RuntimeInvariant, InHand, Placed
<1>3. req[r].run = r /\ req[r].grant = 0 /\ req[r].policy = 1 /\ req[r].len = 0
      /\ req[r].next = 0 /\ ~req[r].paused
  BY <1>2 DEF Fresh
<1>4. approvals[r] = <<>> /\ 1 \in DOMAIN policies /\ Len(steps[r]) \in Nat
  BY DEF RuntimeInvariant, RunOK, Begun, TypeOK
<1>5. Decided(r)
  BY <1>4 DEF Decided
<1>6. QED  BY <1>1, <1>2, <1>3, <1>4, <1>5

\* A run begins, or is refused, with nothing in hand.
LEMMA BeginKeeps ==
    ASSUME RuntimeInvariant, NEW r \in Runs, pc[r] = "idle", Enters(r, r), Admits(r),
           UNCHANGED req, NEW label \in {"load", "refused"}, Goto(r, label),
           label = "refused" => executions' = executions
    PROVE  RuntimeInvariant'
<1>1. /\ r \in Procs /\ req[r] \in Request
      /\ req[r].run = r /\ req[r].grant = 0 /\ req[r].policy = 1 /\ req[r].len = 0
      /\ req[r].next = 0 /\ ~req[r].paused
      /\ approvals[r] = <<>> /\ Decided(r) /\ 1 \in DOMAIN policies /\ Len(steps[r]) \in Nat
  BY NotBegun
<1>2. Hold(r, req[r]) /\ label \in Labels \ {"idle"}
  BY <1>1, SameMemory DEF RuntimeInvariant, Labels, InTry, Stopped
<1>3. req'[r] = req[r] /\ pc'[r] = label /\ Run(r)' = r
  BY <1>1, <1>2, EntryIsStep
<1>4. UNCHANGED <<approvals, steps, outbox, policies>>
  BY DEF Admits
<1>5. InHand(r)'
  <2>1. r \notin Deciders
    BY RuntimeAssumption
  <2>2. Placed(r)'
    BY <1>1, <1>3, <1>4, <2>1 DEF Placed, Active, EntryLabels, Stopped, InTry
  <2>3. GrantHeld(r)'
    BY <1>1, <1>3, <2>1 DEF GrantHeld
  <2>4. CallHeld(r)'
    BY <1>1, <1>3 DEF CallHeld, Screened
  <2>5. QED  BY <2>2, <2>3, <2>4 DEF InHand
<1>6. Unspent(r)'
  BY <1>1, <1>3 DEF Unspent
<1>7. Settled(r) => Arrived(r, r)'
  <2>1. Decided(r)'
    BY <1>1, <1>4 DEF Decided
  <2>2. CASE label = "load"
    BY <1>3, <2>1, <2>2 DEF Arrived, Phase, Active, Stopped
  <2>3. CASE label = "refused"
    BY <1>3, <1>4, <2>3 DEF Arrived, Active, Stopped, Settled, Waiting, Guarded
  <2>4. QED  BY <2>2, <2>3
<1>8. QED  BY <1>1, <1>2, <1>5, <1>6, <1>7, EntryKeeps

LEMMA RunSyncKeeps ==
    ASSUME RuntimeInvariant, NEW r \in Runs, RunSync(r)
    PROVE  RuntimeInvariant'
<1>1. pc[r] = "idle" /\ Enters(r, r) /\ UNCHANGED req /\ Goto(r, "load")
  BY DEF RunSync, At
<1>2. Run(r) = r
  BY <1>1, NotBegun DEF Run
<1>3. Admits(r)
  BY <1>2 DEF RunSync, SetStatus, Admits
<1>4. QED  BY <1>1, <1>3, BeginKeeps

LEMMA RunClaimedCandidateKeeps ==
    ASSUME RuntimeInvariant, NEW r \in Runs, RunClaimedCandidate(r)
    PROVE  RuntimeInvariant'
<1>1. pc[r] = "idle" /\ Enters(r, r) /\ UNCHANGED req /\ executions' = executions
  BY DEF RunClaimedCandidate, At, tables
<1>2. Admits(r)
  BY DEF RunClaimedCandidate, tables, Admits
<1>3. PICK label \in {"load", "refused"} : Goto(r, label)
  BY DEF RunClaimedCandidate
<1>4. QED  BY <1>1, <1>2, <1>3, BeginKeeps

\* A row that is still pending has announced nothing.
LEMMA RecordReadKeeps ==
    ASSUME RuntimeInvariant, NEW c \in Recorders, RecordRead(c)
    PROVE  RuntimeInvariant'
<1>1. c \in Procs /\ pc[c] = "idle" /\ c \notin Runs /\ c \notin Deciders
  BY RuntimeAssumption DEF Procs, RecordRead, At
<1>2. req[c] = Fresh
  BY <1>1 DEF RuntimeInvariant, InHand, Placed
<1>3. PICK r \in Runs : /\ executions[r] = "pending"
                        /\ Hold(c, [req[c] EXCEPT !.run = r])
                        /\ Enters(c, r)
  BY DEF RecordRead
<1>4. PICK held : held = [Fresh EXCEPT !.run = r]
  OBVIOUS
<1>5. /\ held \in Request /\ held.run = r /\ held.grant = 0 /\ held.policy = 1 /\ held.len = 0
      /\ held.next = 0 /\ held.paused = FALSE
  BY <1>4 DEF Fresh, Request, NoStep, Ends
<1>6. Hold(c, held) /\ Goto(c, "recordSave") /\ "recordSave" \in Labels \ {"idle"}
  BY <1>2, <1>3, <1>4 DEF RecordRead, Labels
<1>7. Admits(r) /\ UNCHANGED <<executions, approvals, steps, outbox, policies>>
  BY DEF RecordRead, tables, Admits
<1>8. req'[c] = held /\ pc'[c] = "recordSave" /\ Run(c)' = r
  BY <1>1, <1>3, <1>5, <1>6, <1>7, EntryIsStep
<1>9. InHand(c)'
  <2>1. 1 \in DOMAIN policies /\ Len(steps[r]) \in Nat
    BY DEF RuntimeInvariant, TypeOK
  <2>2. Placed(c)'
    BY <1>1, <1>5, <1>7, <1>8, <2>1 DEF Placed, EntryLabels
  <2>3. GrantHeld(c)'
    BY <1>1, <1>5, <1>8 DEF GrantHeld
  <2>4. CallHeld(c)'
    BY <1>5, <1>8 DEF CallHeld, Screened
  <2>5. QED  BY <2>2, <2>3, <2>4 DEF InHand
<1>10. Unspent(c)'
  BY <1>5, <1>8 DEF Unspent
<1>11. Settled(r) => Arrived(c, r)'
  BY <1>3, <1>7, <1>8 DEF Settled, EventOf, Arrived, Phase, Active, Stopped
<1>12. QED  BY <1>1, <1>3, <1>5, <1>6, <1>7, <1>9, <1>10, <1>11, EntryKeeps

\* An approval that waits has not been used, and is the last one of its run.
LEMMA ReadApprovalKeeps ==
    ASSUME RuntimeInvariant, NEW d \in Deciders, ReadApproval(d)
    PROVE  RuntimeInvariant'
<1>1. d \in Procs /\ pc[d] = "idle" /\ d \notin Runs
  BY RuntimeAssumption DEF Procs, ReadApproval, At
<1>2. req[d] = Fresh /\ TypeOK
  BY <1>1 DEF RuntimeInvariant, InHand, Placed
<1>3. PICK r \in Runs : \E k \in DOMAIN approvals[r], dec \in {"APPROVED", "REJECTED"} :
           /\ approvals[r][k].status = "PENDING" /\ ~approvals[r][k].durable
           /\ Hold(d, [req[d] EXCEPT !.run = r, !.grant = k, !.tool = approvals[r][k].tool,
                                     !.decision = dec])
           /\ granted' = [granted EXCEPT ![r] = IF dec = "APPROVED" THEN @ \cup {k} ELSE @]
           /\ Enters(d, r)
  BY DEF ReadApproval
<1>4. PICK k \in DOMAIN approvals[r], dec \in {"APPROVED", "REJECTED"} :
           /\ approvals[r][k].status = "PENDING" /\ ~approvals[r][k].durable
           /\ Hold(d, [req[d] EXCEPT !.run = r, !.grant = k, !.tool = approvals[r][k].tool,
                                     !.decision = dec])
           /\ granted' = [granted EXCEPT ![r] = IF dec = "APPROVED" THEN @ \cup {k} ELSE @]
           /\ Enters(d, r)
  BY <1>3
<1>5. /\ approvals[r] \in Seq(Approval) /\ Len(approvals[r]) \in Nat
      /\ k \in Nat /\ k # 0 /\ k <= Len(approvals[r]) /\ approvals[r][k] \in Approval
      /\ approvals[r] # <<>>
  BY <1>2 DEF TypeOK
<1>6. PICK tool \in Tools : tool = approvals[r][k].tool
  BY <1>5 DEF Approval
<1>7. PICK held : held = [Fresh EXCEPT !.run = r, !.grant = k, !.tool = tool, !.decision = dec]
  OBVIOUS
<1>8. /\ held \in Request /\ held.run = r /\ held.grant = k /\ held.policy = 1 /\ held.len = 0
      /\ held.next = 0 /\ held.paused = FALSE /\ held.tool = tool /\ held.decision = dec
  BY <1>4, <1>5, <1>6, <1>7 DEF Fresh, Request, NoStep, Ends
<1>9. Hold(d, held) /\ Goto(d, "readExecution") /\ "readExecution" \in Labels \ {"idle"}
  BY <1>2, <1>4, <1>6, <1>7 DEF ReadApproval, Labels
<1>10. UNCHANGED <<executions, approvals, steps, outbox, policies, kind, ran, spent>>
  BY DEF ReadApproval, tables
<1>11. /\ dec = "APPROVED" => granted' = [granted EXCEPT ![r] = @ \cup {k}]
       /\ dec # "APPROVED" => granted' = granted
  <2>1. dec # "APPROVED" => granted' = [granted EXCEPT ![r] = @]
    BY <1>4
  <2>2. QED  BY <1>2, <1>4, <2>1 DEF TypeOK
<1>12. Admits(r)
  BY <1>5, <1>10, <1>11 DEF Admits
<1>13. /\ req'[d] = held /\ pc'[d] = "readExecution" /\ Run(d)' = r
       /\ ~overlapped'[r] => ~overlapped[r]
  BY <1>1, <1>4, <1>8, <1>9, <1>12, EntryIsStep
<1>14. dec = "APPROVED" => k \in granted'[r]
  BY <1>2, <1>11 DEF TypeOK
<1>15. InHand(d)'
  <2>1. 1 \in DOMAIN policies /\ Len(steps[r]) \in Nat
    BY <1>2 DEF TypeOK
  <2>2. Placed(d)'
    BY <1>1, <1>5, <1>8, <1>10, <1>13, <2>1 DEF Placed, EntryLabels, Labels, InTry, Stopped
  <2>3. GrantHeld(d)'
    <3>1. Active(d)'
      BY <1>13 DEF Active, Stopped
    <3>2. QED
      BY <1>1, <1>4, <1>5, <1>6, <1>8, <1>10, <1>13, <1>14, <3>1
         DEF GrantHeld, Ungranted, Granted
  <2>4. CallHeld(d)'
    BY <1>8, <1>13 DEF CallHeld, Screened
  <2>5. QED  BY <2>2, <2>3, <2>4 DEF InHand
<1>16. Unspent(d)'
  <2>1. Serial(r)
    BY DEF RuntimeInvariant, RunOK
  <2>2. QED
    BY <1>4, <1>8, <1>10, <1>13, <2>1 DEF Unspent, Serial, Granted
<1>17. Settled(r) => Arrived(d, r)'
  <2>1. ASSUME Settled(r) PROVE Settled(r)' /\ (executions'[r] = "guardrail_pending" =>
                                                    k = Len(approvals'[r]))
    BY <1>4, <1>10, <2>1 DEF Settled, Waiting, Guarded
  <2>2. QED  BY <1>8, <1>13, <2>1 DEF Arrived, Phase, Active, Stopped
<1>18. QED  BY <1>1, <1>4, <1>8, <1>9, <1>12, <1>15, <1>16, <1>17, EntryKeeps

----------------------------------------------------------------------------
(* A tool runs *)

\* The registry lets a call through that is permitted: what the screen left to
\* the owner needs a grant here, and a grant in hand is one for this very tool.
LEMMA OwnerPermits ==
    ASSUME RuntimeInvariant, NEW p \in Procs, NEW r \in Runs, r = Run(p), pc[p] = "tool",
           registryRefuses(p, req[p].tool) = "no"
    PROVE  Permitted(r, req[p].tool, req[p].policy, req[p].grant)
<1>1. GrantHeld(p) /\ CallHeld(p)
  BY DEF RuntimeInvariant, InHand
<1>2. PICK t, k : t = req[p].tool /\ k = req[p].grant
  OBVIOUS
<1>3. /\ RiskOf[t] # "unregistered" /\ t \in Policy(p).allowed /\ RiskOf[t] # "L4"
      /\ ~(Governed(p) /\ Policy(p).rules[t] = "L3" /\ RiskOf[t] # "L3")
      /\ ~(RiskOf[t] = "L3" /\ k = 0)
  BY <1>2 DEF registryRefuses, denies
<1>4. CASE k # 0
  <2>1. k \in granted[r] /\ k \in DOMAIN approvals[r] /\ approvals[r][k].tool = t
    BY <1>1, <1>2, <1>4 DEF GrantHeld, Granted
  <2>2. QED  BY <1>2, <1>3, <2>1 DEF Permitted, Policy
<1>5. CASE k = 0
  <2>1. RiskOf[t] # "L3" /\ Policy(p).rules[t] \in {"none", "L1"}
    BY <1>1, <1>2, <1>3, <1>5 DEF CallHeld
  <2>2. QED  BY <1>2, <1>3, <2>1 DEF Permitted, Policy
<1>6. QED  BY <1>4, <1>5

\* What is in hand after a call: retried only when no approval is behind it.
LEMMA AfterCall ==
    ASSUME RuntimeInvariant, NEW p \in Procs, ExecuteTool(p), NEW old \in Request, old = req[p]
    PROVE  \E held \in Request, label \in {"tool", "persist"} :
               /\ Hold(p, held) /\ Goto(p, label)
               /\ held.run = old.run /\ held.grant = old.grant /\ held.tool = old.tool
               /\ held.decision = old.decision /\ held.policy = old.policy
               /\ held.len = old.len /\ held.next = old.next
               /\ held.paused = old.paused
               /\ label = "tool" => old.grant = 0
               /\ label = "persist" => held.step.end # "guard"
<1>1. PICK result \in {"success", "transient", "permanent"} :
           IF retries(p, result)
           THEN Hold(p, [req[p] EXCEPT !.tries = @ + 1]) /\ Goto(p, "tool")
           ELSE /\ Hold(p, [req[p] EXCEPT !.step = [action |-> "tool",
                        end |-> IF req[p].grant # 0 THEN "go"
                               ELSE IF result = "success" THEN EndOf(p) ELSE "failed"]])
                /\ Goto(p, "persist")
  BY DEF ExecuteTool
<1>2. CASE retries(p, result)
  <2>1. PICK tries \in Nat : tries = old.tries + 1
    BY DEF Request
  <2>2. PICK held : held = [old EXCEPT !.tries = tries]
    OBVIOUS
  <2>3. Hold(p, held) /\ Goto(p, "tool")
    BY <1>1, <1>2, <2>1, <2>2
  <2>4. /\ held \in Request /\ held.run = old.run /\ held.grant = old.grant
        /\ held.tool = old.tool /\ held.decision = old.decision /\ held.policy = old.policy
        /\ held.len = old.len /\ held.next = old.next
    BY <2>1, <2>2 DEF Request
  <2>5. held.paused = old.paused
    BY <2>2 DEF Request
  <2>6. old.grant = 0
    BY <1>2 DEF retries
  <2>7. QED  BY <2>3, <2>4, <2>5, <2>6
<1>3. CASE ~retries(p, result)
  <2>1. PICK end : end = IF req[p].grant # 0 THEN "go"
                        ELSE IF result = "success" THEN EndOf(p) ELSE "failed"
    OBVIOUS
  <2>2. end \in {"go", "failed"}
    BY <1>1, <2>1 DEF EndOf
  <2>3. PICK held : held = [old EXCEPT !.step = [action |-> "tool", end |-> end]]
    OBVIOUS
  <2>4. Hold(p, held) /\ Goto(p, "persist")
    BY <1>1, <1>3, <2>1, <2>3
  <2>5. /\ held \in Request /\ held.run = old.run /\ held.grant = old.grant
        /\ held.tool = old.tool /\ held.decision = old.decision /\ held.policy = old.policy
        /\ held.len = old.len /\ held.next = old.next /\ held.step.end = end
    BY <2>2, <2>3 DEF Request, Ends
  <2>6. held.paused = old.paused
    BY <2>3 DEF Request
  <2>7. held.step.end # "guard"
    BY <2>2, <2>5
  <2>8. QED  BY <2>4, <2>5, <2>6, <2>7
<1>4. QED  BY <1>2, <1>3

LEMMA ExecuteToolKeeps ==
    ASSUME RuntimeInvariant, NEW p \in Runs \cup Deciders, ExecuteTool(p)
    PROVE  RuntimeInvariant'
<1>1. p \in Procs /\ Active(p) /\ pc[p] = "tool"
  BY DEF Procs, ExecuteTool, At, Active, Stopped
<1>2. PICK r \in Runs : /\ r = Run(p) /\ Works(p, r) /\ RunOK(r)
                        /\ InHand(p) /\ Unspent(p) /\ TypeOK
                        /\ Healthy(r) /\ Alone(p, r) => Phase(p)
  BY <1>1, Working
<1>3. PICK old \in Request : old = req[p]
  BY <1>1, <1>2 DEF TypeOK
<1>4. PICK held \in Request, label \in {"tool", "persist"} :
               /\ Hold(p, held) /\ Goto(p, label)
               /\ held.run = old.run /\ held.grant = old.grant /\ held.tool = old.tool
               /\ held.decision = old.decision /\ held.policy = old.policy
               /\ held.len = old.len /\ held.next = old.next
               /\ held.paused = old.paused
               /\ label = "tool" => old.grant = 0
               /\ label = "persist" => held.step.end # "guard"
  BY <1>1, <1>3, AfterCall
<1>5. /\ UNCHANGED <<executions, approvals, steps, outbox, policies, kind, granted, overlapped,
                     hitches>>
  BY DEF ExecuteTool, tables
<1>6. PICK call : call = [tool |-> old.tool, grant |-> old.grant, policy |-> old.policy]
  OBVIOUS
<1>7. old.tool \in Tools /\ old.grant \in Nat /\ ~old.paused
      /\ old.policy \in DOMAIN policies
  BY <1>1, <1>2, <1>3 DEF InHand, Placed, CallHeld, Screened, Request
<1>8. call \in Invocation /\ call.tool = old.tool /\ call.grant = old.grant
      /\ call.policy = old.policy
  BY <1>3, <1>6, <1>7 DEF Invocation, Request
<1>9. PICK used \in Seq(Nat) : used = IF old.grant = 0 THEN spent[r]
                                     ELSE Append(spent[r], old.grant)
  <2>1. spent[r] \in Seq(Nat)
    BY <1>2 DEF TypeOK
  <2>2. Append(spent[r], old.grant) \in Seq(Nat)
    BY <1>7, <2>1, AppendFacts
  <2>3. QED  BY <2>1, <2>2
<1>10. PICK calls \in SUBSET Invocation : calls = ran[r] \cup {call}
  BY <1>2, <1>8 DEF TypeOK
<1>11. ran' = [ran EXCEPT ![r] = calls] /\ spent' = [spent EXCEPT ![r] = used]
  BY <1>2, <1>3, <1>6, <1>9, <1>10 DEF ExecuteTool
<1>12. /\ ran' \in [Runs -> SUBSET Invocation] /\ spent' \in [Runs -> Seq(Nat)]
       /\ ran'[r] = calls /\ spent'[r] = used
       /\ \A s \in Runs \ {r} : ran'[s] = ran[s] /\ spent'[s] = spent[s]
  BY <1>2, <1>11 DEF TypeOK
<1>13. /\ req' \in [Procs -> Request] /\ pc' \in [Procs -> Labels] /\ req'[p] = held
       /\ pc'[p] = label /\ Run(p)' = r
       /\ \A q \in Procs \ {p} : pc'[q] = pc[q] /\ req'[q] = req[q]
  BY <1>1, <1>2, <1>3, <1>4 DEF TypeOK, Hold, Goto, Labels, InTry, Run
<1>14. StepOf(p, r)
  <2>1. TypeOK'
    BY <1>2, <1>5, <1>12, <1>13 DEF TypeOK
  <2>2. \A s \in Runs \ {r} : Same(s)
    BY <1>5, <1>12 DEF Same
  <2>3. Grows(r)
    <3>1. Len(steps[r]) \in Nat
      BY <1>2 DEF TypeOK
    <3>2. QED  BY <1>5, <3>1 DEF Grows
  <2>4. QED  BY <1>2, <1>4, <1>5, <1>13, <2>1, <2>2, <2>3 DEF StepOf, Run
<1>15. InHand(p)'
  <2>1. Placed(p)'
    BY <1>1, <1>2, <1>3, <1>4, <1>5, <1>13
       DEF InHand, Placed, Active, EntryLabels, Labels, Stopped, InTry
  <2>2. GrantHeld(p)'
    BY <1>1, <1>2, <1>3, <1>4, <1>5, <1>13
       DEF InHand, GrantHeld, Active, Stopped, Ungranted, Deciding, Granted
  <2>3. CallHeld(p)'
    <3>1. Policy(p)' = Policy(p) /\ Governed(p)' = Governed(p)
      BY <1>2, <1>3, <1>4, <1>5, <1>13 DEF Policy, Governed
    <3>2. CASE label = "tool"
      BY <1>1, <1>2, <1>3, <1>4, <1>7, <1>13, <3>1, <3>2 DEF InHand, CallHeld
    <3>3. CASE label = "persist"
      BY <1>4, <1>7, <1>13, <3>3 DEF CallHeld, Screened
    <3>4. QED  BY <1>4, <3>2, <3>3
  <2>4. QED  BY <2>1, <2>2, <2>3 DEF InHand
<1>16. \A q \in Procs : InHand(q)'
  BY <1>1, <1>2, <1>14, <1>15, OthersInHand DEF RuntimeInvariant
<1>17. \A q \in Procs : Unspent(q)'
  <2>1. Unspent(p)'
    BY <1>4, <1>13 DEF Unspent
  <2>2. ASSUME NEW q \in Procs \ {p} PROVE Unspent(q)'
    <3>1. pc'[q] = pc[q] /\ req'[q] = req[q] /\ Run(q)' = Run(q) /\ Unspent(q) /\ InHand(q)
      BY <1>13 DEF Run, RuntimeInvariant
    <3>2. CASE Run(q) = r
      <4>1. SUFFICES ASSUME Active(q), ~overlapped[r] PROVE FALSE
        BY <1>5, <3>1, <3>2 DEF Unspent, Active, Stopped
      <4>2. QED  BY <1>1, <1>2, <3>2, <4>1 DEF RunOK, Serial
    <3>3. CASE Run(q) # r
      <4>1. CASE ~Active(q)
        BY <3>1, <4>1 DEF Unspent, Active, Stopped
      <4>2. CASE Active(q)
        <5>1. PICK s \in Runs \ {r} : s = Run(q)
          BY <3>1, <3>3, <4>2 DEF InHand, Placed
        <5>2. QED  BY <1>5, <1>12, <3>1, <5>1 DEF Unspent
      <4>3. QED  BY <4>1, <4>2
    <3>4. QED  BY <3>2, <3>3
  <2>3. QED  BY <2>1, <2>2
<1>18. RanOK(r)'
  <2>1. Permitted(r, old.tool, old.policy, old.grant)
    BY <1>1, <1>2, <1>3, OwnerPermits DEF ExecuteTool
  <2>2. \A c \in calls : Permitted(r, c.tool, c.policy, c.grant) /\ c.policy \in DOMAIN policies
    BY <1>2, <1>7, <1>8, <1>10, <2>1 DEF RunOK, RanOK
  <2>3. QED  BY <1>5, <1>12, <2>2 DEF RanOK, Permitted
<1>19. Numbered(r)' /\ Begun(r)'
  <2>1. r \in Procs /\ pc'[p] # "idle"
    BY <1>4, <1>13 DEF Procs
  <2>2. QED  BY <1>2, <1>5, <1>13, <2>1 DEF RunOK, Numbered, Begun
<1>20. Serial(r)'
  <2>1. SUFFICES ASSUME ~overlapped[r]
                 PROVE  /\ \A q, w \in Procs : Works(q, r)' /\ Works(w, r)' => q = w
                        /\ \A m \in DOMAIN used :
                               /\ used[m] \in DOMAIN approvals[r]
                               /\ approvals[r][used[m]].status # "PENDING"
                        /\ \A m, n \in DOMAIN used : used[m] = used[n] => m = n
    BY <1>5, <1>12 DEF Serial, Works
  <2>2. \A q \in Procs : Works(q, r)' => Works(q, r)
    BY <1>2, <1>13 DEF Works, Active, Run
  <2>3. \A q, w \in Procs : Works(q, r)' /\ Works(w, r)' => q = w
    BY <1>2, <2>1, <2>2 DEF RunOK, Serial, Works
  <2>4. /\ \A m \in DOMAIN spent[r] :
               spent[r][m] \in DOMAIN approvals[r] /\ approvals[r][spent[r][m]].status # "PENDING"
        /\ \A m, n \in DOMAIN spent[r] : spent[r][m] = spent[r][n] => m = n
    BY <1>2, <2>1 DEF RunOK, Serial
  <2>5. CASE old.grant = 0
    BY <1>9, <2>3, <2>4, <2>5
  <2>6. CASE old.grant # 0
    <3>1. /\ \A m \in DOMAIN spent[r] : spent[r][m] # old.grant
          /\ approvals[r][old.grant].status # "PENDING"
      BY <1>1, <1>2, <1>3, <2>1, <2>6 DEF Unspent, Granted
    <3>2. old.grant \in DOMAIN approvals[r]
      BY <1>2, <1>3, <2>6 DEF InHand, GrantHeld
    <3>3. PICK n \in Nat : n = Len(spent[r])
      BY <1>2 DEF TypeOK
    <3>4. /\ DOMAIN used = 1..(n + 1) /\ DOMAIN spent[r] = 1..n
          /\ \A m \in 1..n : used[m] = spent[r][m]
          /\ used[n + 1] = old.grant
      BY <1>2, <1>7, <1>9, <2>6, <3>3, AppendFacts DEF TypeOK
    <3>5. \A m \in 1..(n + 1) : m \in 1..n \/ m = n + 1
      BY <3>3
    <3>6. \A m \in DOMAIN used : /\ used[m] \in DOMAIN approvals[r]
                                 /\ approvals[r][used[m]].status # "PENDING"
      BY <2>4, <3>1, <3>2, <3>4, <3>5
    <3>7. \A m, w \in DOMAIN used : used[m] = used[w] => m = w
      BY <2>4, <3>1, <3>4, <3>5
    <3>8. QED  BY <2>3, <3>6, <3>7
  <2>7. QED  BY <2>5, <2>6
<1>21. InOrder(r)'
  <2>1. Healthy(r) /\ Alone(p, r) => Arrived(p, r)'
    <3>1. SUFFICES ASSUME Healthy(r), Alone(p, r) PROVE Phase(p)' /\ Active(p)'
      BY DEF Arrived
    <3>2. Decided(r)'
      BY <1>1, <1>2, <1>5, <3>1 DEF Phase, Decided
    <3>3. QED  BY <1>4, <1>7, <1>13, <3>2 DEF Phase, Active, Stopped
  <2>2. QED  BY <1>1, <1>2, <1>14, <2>1, OwnOrder
<1>22. RunOK(r)'
  BY <1>18, <1>19, <1>20, <1>21 DEF RunOK
<1>23. \A s \in Runs : RunOK(s)'
  BY <1>1, <1>14, <1>15, <1>22, OtherRuns DEF RuntimeInvariant
<1>24. QED  BY <1>14, <1>16, <1>17, <1>23 DEF RuntimeInvariant, StepOf

----------------------------------------------------------------------------
(* The environment, and the invariance *)

\* An edit adds a version; every request keeps the one it loaded.
LEMMA EditPolicyKeeps ==
    ASSUME RuntimeInvariant, EditPolicy
    PROVE  RuntimeInvariant'
<1>1. UNCHANGED <<executions, approvals, steps, outbox, kind, ran, spent, granted, overlapped,
                  pc, req>> /\ TypeOK
  BY DEF EditPolicy, ghosts, RuntimeInvariant
<1>2. PICK policy \in Policies : policies' = Append(policies, policy)
  BY DEF EditPolicy
<1>3. /\ policies' \in Seq(Policies) /\ Len(policies') = Len(policies) + 1
      /\ \A n \in DOMAIN policies : n \in DOMAIN policies' /\ policies'[n] = policies[n]
  BY <1>1, <1>2 DEF TypeOK
<1>4. TypeOK'
  <2>1. Len(policies) <= MaxEdits /\ hitches < MaxHitches /\ hitches' = hitches + 1
    BY DEF EditPolicy
  <2>2. Len(policies') \in 1..MaxEdits + 1 /\ hitches' \in 0..MaxHitches
    BY <1>1, <1>3, <2>1, RuntimeAssumption DEF TypeOK
  <2>3. QED  BY <1>1, <1>3, <2>2 DEF TypeOK
<1>5. ASSUME NEW p \in Procs PROVE InHand(p)' /\ Unspent(p)'
  <2>1. InHand(p) /\ Unspent(p) /\ req[p].policy \in DOMAIN policies
    BY DEF RuntimeInvariant, InHand, Placed
  <2>2. /\ Run(p)' = Run(p) /\ Active(p)' = Active(p) /\ Governed(p)' = Governed(p)
        /\ Policy(p)' = Policy(p) /\ EntryLabels(p)' = EntryLabels(p)
        /\ req'[p].policy \in DOMAIN policies'
    BY <1>1, <1>3, <2>1 DEF Run, Active, Governed, Policy, EntryLabels
  <2>3. Placed(p)'
    BY <1>1, <2>1, <2>2 DEF InHand, Placed
  <2>4. GrantHeld(p)'
    BY <1>1, <2>1, <2>2 DEF InHand, GrantHeld
  <2>5. CallHeld(p)'
    BY <1>1, <2>1, <2>2 DEF InHand, CallHeld
  <2>6. Unspent(p)'
    BY <1>1, <2>1, <2>2 DEF Unspent
  <2>7. QED  BY <2>3, <2>4, <2>5, <2>6 DEF InHand
<1>6. ASSUME NEW r \in Runs PROVE RunOK(r)'
  <2>1. RanOK(r)'
    <3>1. ASSUME NEW call \in ran[r]
          PROVE  /\ Permitted(r, call.tool, call.policy, call.grant)'
                 /\ call.policy \in DOMAIN policies'
      <4>1. Permitted(r, call.tool, call.policy, call.grant) /\ call.policy \in DOMAIN policies
        BY DEF RuntimeInvariant, RunOK, RanOK
      <4>2. policies'[call.policy] = policies[call.policy] /\ call.policy \in DOMAIN policies'
        BY <1>3, <4>1
      <4>3. QED  BY <1>1, <4>1, <4>2 DEF Permitted
    <3>2. QED  BY <1>1, <3>1 DEF RanOK
  <2>2. Numbered(r)' /\ Begun(r)'
    BY <1>1 DEF RuntimeInvariant, RunOK, Numbered, Begun
  <2>3. Serial(r)'
    BY <1>1 DEF RuntimeInvariant, RunOK, Serial, Run, Active
  <2>4. InOrder(r)'
    <3>1. \A p \in Procs : Works(p, r)' = Works(p, r) /\ Run(p)' = Run(p)
      BY <1>1 DEF Works, Run, Active
    <3>2. Healthy(r)' = Healthy(r)
      BY <1>1, <3>1 DEF Healthy
    <3>3. Settled(r)' = Settled(r)
      BY <1>1 DEF Settled, Waiting, Guarded
    <3>4. \A p \in Procs : Phase(p)' = Phase(p)
      BY <1>1 DEF Phase, Run, Settled, Waiting, Decided, Guarded, Paused
    <3>5. QED  BY <3>1, <3>2, <3>3, <3>4 DEF RuntimeInvariant, RunOK, InOrder
  <2>5. QED  BY <2>1, <2>2, <2>3, <2>4 DEF RunOK
<1>7. QED  BY <1>4, <1>5, <1>6 DEF RuntimeInvariant

LEMMA InitHolds ==
    ASSUME Init
    PROVE  RuntimeInvariant
<1>1. PICK policy \in Policies : policies = <<policy>>
  BY DEF Init
<1>2. policies \in Seq(Policies) /\ Len(policies) = 1 /\ DOMAIN policies = {1}
  BY <1>1
<1>3. /\ Fresh \in Request /\ Fresh.grant = 0 /\ Fresh.policy = 1 /\ Fresh.len = 0
      /\ Fresh.next = 0 /\ Fresh.paused = FALSE
  BY DEF Fresh, Request, NoStep, Ends
<1>4. \A r \in Runs :
          /\ [Fresh EXCEPT !.run = r] \in Request /\ [Fresh EXCEPT !.run = r].grant = 0
          /\ [Fresh EXCEPT !.run = r].policy = 1 /\ [Fresh EXCEPT !.run = r].paused = FALSE
          /\ [Fresh EXCEPT !.run = r].run = r
  BY DEF Fresh, Request, NoStep, Ends
<1>5. ASSUME NEW p \in Procs
      PROVE  /\ pc[p] = "idle" /\ ~Active(p)
             /\ req[p] = IF p \in Runs THEN [Fresh EXCEPT !.run = p] ELSE Fresh
             /\ req[p] \in Request /\ req[p].grant = 0 /\ req[p].policy = 1
             /\ req[p].paused = FALSE
             /\ p \in Runs => Run(p) = p
  BY <1>3, <1>4 DEF Init, Active, Run
<1>6. TypeOK
  <2>1. executions \in [Runs -> ExecutionStatus \cup {"none"}]
        /\ kind \in [Runs -> {"sync", "candidate"}]
    BY DEF Init, ExecutionStatus
  <2>2. /\ approvals \in [Runs -> Seq(Approval)] /\ steps \in [Runs -> Seq(Step)]
        /\ spent \in [Runs -> Seq(Nat)]
    BY DEF Init
  <2>3. /\ outbox \in [Runs -> {"none", "started", "paused", "completed", "failed", "cancelled"}]
        /\ ran \in [Runs -> SUBSET Invocation]
        /\ granted \in [Runs -> SUBSET Nat]
        /\ overlapped \in [Runs -> BOOLEAN]
    BY DEF Init
  <2>4. pc \in [Procs -> Labels]
    BY DEF Init, Labels
  <2>5. req \in [Procs -> Request]
    <3>1. req = [p \in Procs |-> req[p]]
      BY DEF Init
    <3>2. QED  BY <1>5, <3>1
  <2>6. hitches \in 0..MaxHitches /\ Len(policies) \in 1..MaxEdits + 1
    BY <1>2, RuntimeAssumption DEF Init
  <2>7. QED  BY <1>2, <2>1, <2>2, <2>3, <2>4, <2>5, <2>6 DEF TypeOK
<1>7. ASSUME NEW p \in Procs PROVE InHand(p) /\ Unspent(p)
  <2>1. Placed(p)
    BY <1>2, <1>5 DEF Placed, EntryLabels, Labels
  <2>2. GrantHeld(p)
    BY <1>5 DEF GrantHeld, Deciding
  <2>3. CallHeld(p)
    BY <1>5 DEF CallHeld, Screened
  <2>4. Unspent(p)
    BY <1>5 DEF Unspent
  <2>5. QED  BY <2>1, <2>2, <2>3, <2>4 DEF InHand
<1>8. ASSUME NEW r \in Runs PROVE RunOK(r)
  <2>1. /\ ran[r] = {} /\ approvals[r] = <<>> /\ steps[r] = <<>> /\ spent[r] = <<>>
        /\ outbox[r] = "none" /\ executions[r] # "guardrail_pending"
    BY DEF Init
  <2>2. RanOK(r) /\ Numbered(r) /\ Begun(r)
    BY <2>1 DEF RanOK, Numbered, Begun
  <2>3. Serial(r)
    <3>1. DOMAIN spent[r] = {}
      BY <2>1
    <3>2. \A p \in Procs : ~Active(p)
      BY <1>5
    <3>3. QED  BY <3>1, <3>2, Zenon DEF Serial
  <2>4. InOrder(r)
    BY <1>5, <2>1 DEF InOrder, Works, Settled
  <2>5. QED  BY <2>2, <2>3, <2>4 DEF RunOK
<1>9. QED  BY <1>6, <1>7, <1>8 DEF RuntimeInvariant

\* execute() of a run or of a resumed one.
LEMMA ExecuteStepKeeps ==
    ASSUME RuntimeInvariant, NEW p \in Runs \cup Deciders, ExecuteStep(p)
    PROVE  RuntimeInvariant'
<1>1. CASE LoadAgent(p)  BY <1>1, LoadAgentKeeps
<1>2. CASE SetupRefused(p)  BY <1>2, SetupRefusedKeeps
<1>3. CASE LoopExhausted(p)  BY <1>3, LoopExhaustedKeeps
<1>4. CASE StopUnmarked(p) \/ ModelCallFails(p) \/ StopControlled(p) \/ ModelFinish(p)
               \/ ModelHandoff(p) \/ ModelGenerate(p)
  BY <1>4, TurnKeeps
<1>5. CASE ModelToolCall(p)  BY <1>5, ModelToolCallKeeps
<1>6. CASE RefusedCall(p)  BY <1>6, RefusedCallKeeps
<1>7. CASE EscalatedCall(p)  BY <1>7, EscalatedCallKeeps
<1>8. CASE ExecuteTool(p)  BY <1>8, ExecuteToolKeeps
<1>9. CASE PauseRead(p)  BY <1>9, PauseReadKeeps
<1>10. CASE PauseWrite(p)  BY <1>10, PauseWriteKeeps
<1>11. CASE CreateAgentApproval(p)  BY <1>11, CreateAgentApprovalKeeps
<1>12. CASE PersistStep(p)  BY <1>12, PersistStepKeeps
<1>13. CASE Closeout(p)  BY <1>13, CloseoutKeeps
<1>14. CASE Fail(p)  BY <1>14, FailKeeps
<1>15. QED
  BY <1>1, <1>2, <1>3, <1>4, <1>5, <1>6, <1>7, <1>8, <1>9, <1>10, <1>11, <1>12, <1>13,
     <1>14 DEF ExecuteStep

\* Every step, of a request or of the environment.
LEMMA NextKeeps ==
    ASSUME RuntimeInvariant, Next
    PROVE  RuntimeInvariant'
<1>1. ASSUME NEW r \in Runs, RunSync(r) \/ RunClaimedCandidate(r) \/ ExecuteStep(r)
      PROVE  RuntimeInvariant'
  BY <1>1, RunSyncKeeps, RunClaimedCandidateKeeps, ExecuteStepKeeps
<1>2. ASSUME NEW d \in Deciders, ReadApproval(d) \/ DecideStep(d)
      PROVE  RuntimeInvariant'
  BY <1>2, ReadApprovalKeeps, ReadExecutionKeeps, SaveDecisionKeeps, CancelExecutionKeeps,
     MarkRunningKeeps, RebuildHistoryKeeps, ExecuteStepKeeps DEF DecideStep
<1>3. ASSUME NEW c \in Recorders, RecordRead(c) \/ RecordSave(c)
      PROVE  RuntimeInvariant'
  BY <1>3, RecordReadKeeps, RecordSaveKeeps
<1>4. ASSUME NEW p \in Procs, Throw(p) \/ Crash(p)
      PROVE  RuntimeInvariant'
  BY <1>4, ThrowKeeps, CrashKeeps
<1>5. QED  BY <1>1, <1>2, <1>3, <1>4, EditPolicyKeeps DEF Next

LEMMA StutterKeeps ==
    ASSUME RuntimeInvariant, UNCHANGED vars
    PROVE  RuntimeInvariant'
<1>1. UNCHANGED <<executions, approvals, steps, outbox, policies, kind, ran, spent, granted,
                  overlapped, pc, req, hitches>>
  BY DEF vars
<1>2. TypeOK'
  BY <1>1 DEF RuntimeInvariant, TypeOK
<1>3. \A p \in Procs : /\ Run(p)' = Run(p) /\ Active(p)' = Active(p) /\ Policy(p)' = Policy(p)
                       /\ Governed(p)' = Governed(p) /\ EntryLabels(p)' = EntryLabels(p)
  BY <1>1 DEF Run, Active, Policy, Governed, EntryLabels
<1>4. ASSUME NEW p \in Procs PROVE InHand(p)' /\ Unspent(p)'
  <2>1. InHand(p) /\ Unspent(p)
    BY DEF RuntimeInvariant
  <2>2. Placed(p)' /\ GrantHeld(p)' /\ CallHeld(p)' /\ Unspent(p)'
    BY <1>1, <1>3, <2>1 DEF InHand, Placed, GrantHeld, CallHeld, Unspent
  <2>3. QED  BY <2>2 DEF InHand
<1>5. ASSUME NEW r \in Runs PROVE RunOK(r)'
  <2>1. RunOK(r)
    BY DEF RuntimeInvariant
  <2>2. RanOK(r)' /\ Numbered(r)' /\ Begun(r)'
    BY <1>1, <2>1 DEF RunOK, RanOK, Permitted, Numbered, Begun
  <2>3. Serial(r)'
    BY <1>1, <1>3, <2>1 DEF RunOK, Serial
  <2>4. InOrder(r)'
    <3>1. \A p \in Procs : Works(p, r)' = Works(p, r)
      BY <1>3 DEF Works
    <3>2. Healthy(r)' = Healthy(r)
      BY <1>1, <1>3 DEF Healthy
    <3>3. Settled(r)' = Settled(r)
      BY <1>1 DEF Settled, Waiting, Guarded
    <3>4. \A p \in Procs : Phase(p)' = Phase(p)
      BY <1>1, <1>3 DEF Phase, Run, Settled, Waiting, Decided, Guarded, Paused
    <3>5. QED  BY <2>1, <3>1, <3>2, <3>3, <3>4 DEF RunOK, InOrder
  <2>5. QED  BY <2>2, <2>3, <2>4 DEF RunOK
<1>6. QED  BY <1>2, <1>4, <1>5 DEF RuntimeInvariant

\* However requests of execute(), communityDecideApproval and the claimed
\* candidate entries interleave, throw and are cut off, what each holds across
\* an await still fits the tables it comes back to.
THEOREM RuntimeInvariance == Spec => []RuntimeInvariant
<1>1. Init => RuntimeInvariant
  BY InitHolds
<1>2. RuntimeInvariant /\ [Next]_vars => RuntimeInvariant'
  BY NextKeeps, StutterKeeps
<1>3. QED  BY <1>1, <1>2, PTL DEF Spec

----------------------------------------------------------------------------
(* What follows *)

\* Tables, ghosts and what requests hold are values of their kind.
THEOREM RuntimeTypeCorrect == Spec => []TypeOK
<1>1. RuntimeInvariant => TypeOK
  BY DEF RuntimeInvariant
<1>2. QED  BY <1>1, RuntimeInvariance, PTL

\* The loop's screen, the tool's owner and the one-shot grant of a resumed run
\* together let a tool run only if the loaded policy lists it, its descriptor
\* is known and below L4, and a human who was asked accepted this very tool.
THEOREM OnlyPermittedToolsRun == Spec => []ToolsRunWhenPermitted
<1>1. RuntimeInvariant => ToolsRunWhenPermitted
  BY DEF RuntimeInvariant, RunOK, RanOK, Permitted, ToolsRunWhenPermitted
<1>2. QED  BY <1>1, RuntimeInvariance, PTL

\* A run at rest on which requests never overlapped is settled.
LEMMA RestIsSettled ==
    ASSUME RuntimeInvariant, NEW r \in Runs, AtRest(r), ~overlapped[r]
    PROVE  Settled(r) /\ TypeOK
<1>1. Healthy(r) /\ \A p \in Procs : ~Works(p, r)
  BY DEF AtRest, Healthy, Works
<1>2. QED  BY <1>1 DEF RuntimeInvariant, RunOK, InOrder

\* handleStateTransition, createAgentApproval and persistStep pause a run in
\* three writes, and the catch of execute() undoes the first two: a run left in
\* guardrail_pending has one approval to decide, and its guard step is its last.
THEOREM PausesAreDecidable == Spec => []PausedIsDecidable
<1>1. ASSUME RuntimeInvariant, NEW r \in Runs, AtRest(r), ~overlapped[r],
             executions[r] = "guardrail_pending"
      PROVE  /\ Cardinality({k \in DOMAIN approvals[r] : approvals[r][k].status = "PENDING"}) = 1
             /\ approvals[r][Len(approvals[r])].status = "PENDING"
             /\ steps[r] # <<>> /\ steps[r][Len(steps[r])].end = "guard"
  <2>1. Waiting(r) /\ Guarded(r) /\ approvals[r] \in Seq(Approval)
    BY <1>1, RestIsSettled DEF Settled, TypeOK
  <2>2. Len(approvals[r]) \in DOMAIN approvals[r]
    BY <2>1 DEF Waiting
  <2>3. {k \in DOMAIN approvals[r] : approvals[r][k].status = "PENDING"} = {Len(approvals[r])}
    BY <2>1, <2>2 DEF Waiting
  <2>4. Cardinality({Len(approvals[r])}) = 1
    BY FS_Singleton
  <2>5. QED  BY <2>1, <2>2, <2>3, <2>4 DEF Waiting, Guarded
<1>2. RuntimeInvariant => PausedIsDecidable
  BY <1>1 DEF PausedIsDecidable
<1>3. QED  BY <1>2, RuntimeInvariance, PTL

\* closeout, the catch of execute() and the console's rejection write status
\* and event in one transaction: the last event of a run at rest tells its
\* status, through pauses, resumes, rejections and errors.
THEOREM EventsTellStatus == Spec => []LastEventTellsStatus
<1>1. RuntimeInvariant => LastEventTellsStatus
  BY RestIsSettled DEF LastEventTellsStatus, Settled
<1>2. QED  BY <1>1, RuntimeInvariance, PTL

\* communityDecideApproval reads, decides and resumes without a lock: one at a
\* time, it never spends an approval twice, whatever is cut off in between.
THEOREM ApprovalsSpentOnce == Spec => []SerialApprovalsSpentOnce
<1>1. RuntimeInvariant => SerialApprovalsSpentOnce
  BY DEF RuntimeInvariant, RunOK, Serial, SerialApprovalsSpentOnce
<1>2. QED  BY <1>1, RuntimeInvariance, PTL

=============================================================================
