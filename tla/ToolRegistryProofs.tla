------------------------- MODULE ToolRegistryProofs -------------------------
(***************************************************************************)
(* TLAPS proofs about ToolRegistry: for any number of executeTool calls,   *)
(* resumed calls and binders, whatever tools, snapshots and digests there  *)
(* are, the ledger tells what happened to a call.                          *)
(***************************************************************************)
EXTENDS ToolRegistry, FiniteSetTheorems, TLAPS

----------------------------------------------------------------------------
(* The invariant *)

\* A worker that has been let through to the tool, and one that has yet to
\* run it.
BeforeRun == {"running", "allocate", "confirm", "refusedCall"}
Inside == BeforeRun \cup {"finalize", "catch"}

WorkerPcs == Inside \cup Stopped \cup {"idle", "gates"}
BinderPcs == {"idle", "bind", "confirm", "bound", "refused"}

\* A row of a call that was started: it never goes back to a gate.
Ran == {"RUNNING", "SUCCEEDED", "FAILED", "COMPLETION_UNKNOWN"}

Control ==
    /\ pc \in [Workers \cup Binders -> WorkerPcs \cup BinderPcs]
    /\ \A w \in Workers : pc[w] \in WorkerPcs
    /\ \A b \in Binders : pc[b] \in BinderPcs

\* What a worker knows of its call.
WorkerOK(w) ==
    /\ pc[w] = "idle" => rows[w] = NoRow /\ mem[w] = Held /\ runs[w] = {}
    /\ pc[w] \in Inside \cup {"gates"} => Call(w) \in Workers
    /\ Call(w) # None => Row(w).status # "none" /\ (Call(w) # w => Row(w).status # "STARTED")
    /\ pc[w] = "gates" =>
           /\ mem[w].digest = 0
           /\ mem[w].seen \in {"STARTED", "REQUIRES_APPROVAL", "RUNNING"}
           /\ mem[w].seen = "STARTED" <=> Call(w) = w
           /\ mem[w].seen = "STARTED" => Row(w).status = "STARTED"
           /\ mem[w].seen = "RUNNING" => Call(w) \in reentered /\ Row(w).status \in Ran
    /\ pc[w] \in Inside => Row(w).status \in Ran
    /\ pc[w] = "finalize" =>
           \E run \in runs[Call(w)] : run.result = mem[w].result
    /\ pc[w] \in {"allocate", "confirm"} => mem[w].digest # 0
    /\ pc[w] = "running" /\ mem[w].digest # 0 => Row(w).digest = mem[w].digest

\* Whoever owns an open row has neither returned nor thrown.
Owned(c) ==
    /\ rows[c].status = "STARTED" => Call(c) = c /\ pc[c] \in {"gates", "crashed"}
    /\ rows[c].status = "RUNNING" =>
           \E v \in Workers : Call(v) = c /\ pc[v] \in Inside \cup {"crashed"}

\* What the record says of the executions.
Recorded(c) ==
    /\ rows[c].status # "none" => toolOf[c] \in Tools
    /\ c \in Fresh => toolOf[c] \in Tools
    /\ c \in granted => rows[c].status # "none"
    /\ runs[c] # {} => rows[c].status \in Ran
    /\ rows[c].status = "SUCCEEDED" => \E run \in runs[c] : run.result = "ok"
    /\ \A run \in runs[c] :
           toolOf[c].kind = "messaging" => run.digest # 0 /\ run.digest = rows[c].digest

\* Unless a worker found the call RUNNING, one at a time gets to the tool.
Alone(c) ==
    c \notin reentered =>
        /\ \A r, s \in runs[c] : r = s
        /\ \A w \in Workers : Call(w) = c /\ pc[w] \in BeforeRun =>
               /\ runs[c] = {}
               /\ \A v \in Workers : Call(v) = c /\ pc[v] \in BeforeRun => v = w

\* A binder keeps a call whose row exists.
BinderOK(b) ==
    /\ pc[b] \in {"bind", "confirm", "bound"} =>
           /\ bound[b].call \in Workers /\ bound[b].snapshot # 0
           /\ rows[bound[b].call].status # "none"
    /\ pc[b] = "bound" => rows[bound[b].call].binding = bound[b].snapshot

RegistryInvariant ==
    /\ TablesTyped
    /\ Control
    /\ \A w \in Workers : WorkerOK(w)
    /\ \A c \in Workers : Owned(c) /\ Recorded(c) /\ Alone(c)
    /\ \A b \in Binders : BinderOK(b)

----------------------------------------------------------------------------
(* Types and the ledger's statements *)

RowType == [status : CallStatus \cup {"none"}, lease : Nat, beat : Nat,
            binding : Snapshots \cup {0}, digest : Digests \cup {0}]
MemType == [call : Workers \cup {None}, seen : CallStatus \cup {"none"}, granted : BOOLEAN,
            digest : Digests \cup {0}, result : {"none", "ok", "bad"}]
RunType == [worker : Workers, result : {"ok", "bad"}, digest : Digests \cup {0}]

\* A statement that changes the status keeps the binding and the digest.
Restated(old, new, status) ==
    /\ new \in RowType
    /\ new.status = status
    /\ new.binding = old.binding
    /\ new.digest = old.digest

\* Every statement that moves a row is one that restates it.
LEMMA LedgerRestates ==
    ASSUME NEW row \in RowType, NEW t \in Nat
    PROVE  /\ \A status \in CallStatus : /\ Restated(row, transition(row, status), status)
                                         /\ Restated(row, finalize(row, status), status)
           /\ Restated(row, park(row), "REQUIRES_APPROVAL")
           /\ Restated(row, markRunning(row, t, Timeout), "RUNNING")
           /\ Restated(row, heartbeat(row, t), row.status)
<1> USE DEF Restated, RowType, CallStatus
<1>1. ASSUME NEW status \in CallStatus
      PROVE  /\ Restated(row, transition(row, status), status)
             /\ Restated(row, finalize(row, status), status)
  BY <1>1 DEF transition, finalize
<1>2. Restated(row, park(row), "REQUIRES_APPROVAL")
  BY DEF park
<1>3. t + Timeout \in Nat
  BY RegistryAssumption
<1>4. Restated(row, markRunning(row, t, Timeout), "RUNNING")
  BY <1>3 DEF markRunning
<1>5. Restated(row, heartbeat(row, t), row.status)
  BY DEF heartbeat
<1>6. QED  BY <1>1, <1>2, <1>4, <1>5

\* A row that is begun.
LEMMA LedgerBegins ==
    ASSUME NEW t \in Nat
    PROVE  /\ NoRow \in RowType /\ NoRow.status = "none"
           /\ Restated(NoRow, begin(t, Timeout), "STARTED")
<1> USE DEF Restated, RowType, CallStatus
<1>1. NoRow \in RowType /\ NoRow.status = "none"
  BY DEF NoRow
<1>2. t + Timeout \in Nat
  BY RegistryAssumption
<1>3. Restated(NoRow, begin(t, Timeout), "STARTED")
  BY <1>1, <1>2 DEF begin
<1>4. QED  BY <1>1, <1>3

\* The type invariant, piece by piece.
LEMMA Types ==
    ASSUME TablesTyped
    PROVE  /\ \A c \in Workers : rows[c] \in RowType /\ mem[c] \in MemType /\ runs[c] \subseteq RunType
           /\ rows \in [Workers -> RowType] /\ mem \in [Workers -> MemType]
           /\ runs \in [Workers -> SUBSET RunType]
           /\ toolOf \in [Workers -> Tools \cup {None}]
           /\ now \in Nat /\ granted \subseteq Workers /\ reentered \subseteq Workers
           /\ Held \in MemType
<1>1. rows \in [Workers -> RowType] /\ mem \in [Workers -> MemType]
      /\ runs \in [Workers -> SUBSET RunType]
  BY DEF TablesTyped, RowType, MemType, RunType
<1>2. Held \in MemType
  BY DEF Held, MemType, CallStatus
<1>3. now \in Nat
  BY RegistryAssumption DEF TablesTyped
<1>4. toolOf \in [Workers -> Tools \cup {None}] /\ granted \subseteq Workers
      /\ reentered \subseteq Workers
  BY DEF TablesTyped
<1>5. QED  BY <1>1, <1>2, <1>3, <1>4

\* The type invariant after a step, piece by piece.
LEMMA TypesAfter ==
    ASSUME TablesTyped, rows' \in [Workers -> RowType], mem' \in [Workers -> MemType],
           runs' \in [Workers -> SUBSET RunType], toolOf' \in [Workers -> Tools \cup {None}],
           UNCHANGED <<now, bound>>, granted' \subseteq Workers, reentered' \subseteq Workers,
           faults' \in 0..MaxFaults
    PROVE  TablesTyped'
  BY DEF TablesTyped, RowType, MemType, RunType

\* Workers are no binders, and None is neither a worker nor a tool.
LEMMA Apart ==
    /\ \A w \in Workers : w \notin Binders /\ w # None /\ w \in Workers \cup Binders
    /\ None \notin Tools
    /\ Fresh \subseteq Workers /\ Resumers \subseteq Workers
    /\ \A w \in Fresh : w \notin Resumers
  BY RegistryAssumption DEF Workers

----------------------------------------------------------------------------
(* Who does not move keeps what it knows *)

\* The record of a call only moves on.
Forward(c) ==
    /\ rows[c].binding # 0 => rows'[c].binding = rows[c].binding
    /\ rows[c].digest # 0 => rows'[c].digest = rows[c].digest
    /\ rows[c].status # "none" => rows'[c].status # "none"
    /\ rows[c].status \notin {"none", "STARTED"} => rows'[c].status \notin {"none", "STARTED"}
    /\ rows[c].status \in Ran => rows'[c].status \in Ran
    /\ runs[c] \subseteq runs'[c]

\* A step of worker w: the rows of others that are not yet anyone else's stay.
StepOf(w) ==
    /\ \A v \in Workers \ {w} : pc'[v] = pc[v] /\ mem'[v] = mem[v]
    /\ \A b \in Binders : pc'[b] = pc[b] /\ bound'[b] = bound[b]
    /\ \A c \in Workers : Forward(c)
    /\ \A c \in Workers \ {w} :
           rows[c].status \in {"none", "STARTED"} => rows'[c] = rows[c] /\ runs'[c] = runs[c]
    /\ reentered \subseteq reentered'

\* A step of one worker leaves the others and the binders as they were.
LEMMA OthersKeep ==
    ASSUME RegistryInvariant, NEW w \in Workers, StepOf(w)
    PROVE  /\ \A v \in Workers \ {w} : WorkerOK(v)'
           /\ \A b \in Binders : BinderOK(b)'
<1>1. ASSUME NEW v \in Workers \ {w} PROVE WorkerOK(v)'
  <2>1. WorkerOK(v) /\ pc'[v] = pc[v] /\ mem'[v] = mem[v] /\ v \in Workers /\ v # w
    BY DEF RegistryInvariant, StepOf
  <2>2. Call(v)' = Call(v) /\ (Call(v) # None => Call(v) \in Workers)
    BY <2>1, Types DEF Call, MemType, RegistryInvariant
  <2>3. pc'[v] = "idle" => rows'[v] = NoRow /\ mem'[v] = Held /\ runs'[v] = {}
    BY <2>1 DEF WorkerOK, StepOf, NoRow
  <2>4. ASSUME Call(v) \in Workers
        PROVE  /\ Forward(Call(v))
               /\ Row(v) = rows[Call(v)] /\ Row(v)' = rows'[Call(v)]
    BY <2>2, <2>4 DEF StepOf, Row
  <2>5. pc'[v] \in Inside \cup {"gates"} => Call(v)' \in Workers
    BY <2>1, <2>2 DEF WorkerOK
  <2>6. Call(v)' # None =>
            Row(v)'.status # "none" /\ (Call(v)' # v => Row(v)'.status # "STARTED")
    BY <2>1, <2>2, <2>4 DEF WorkerOK, Forward
  <2>7. ASSUME pc'[v] = "gates", mem'[v].seen = "STARTED" PROVE Row(v)'.status = "STARTED"
    <3>1. Call(v) = v /\ rows[v].status = "STARTED"
      BY <2>1, <2>7 DEF WorkerOK, Row
    <3>2. QED  BY <2>1, <2>2, <2>4, <3>1 DEF StepOf
  <2>8. pc'[v] = "gates" =>
           /\ mem'[v].digest = 0
           /\ mem'[v].seen \in {"STARTED", "REQUIRES_APPROVAL", "RUNNING"}
           /\ mem'[v].seen = "STARTED" <=> Call(v)' = v
           /\ mem'[v].seen = "RUNNING" => Call(v)' \in reentered'
    BY <2>1, <2>2 DEF WorkerOK, StepOf
  <2>9. pc'[v] = "gates" /\ mem'[v].seen = "RUNNING" => Row(v)'.status \in Ran
    BY <2>1, <2>4 DEF WorkerOK, Forward
  <2>10. pc'[v] \in Inside => Row(v)'.status \in Ran
    BY <2>1, <2>4 DEF WorkerOK, Forward
  <2>11. pc'[v] = "finalize" => \E run \in runs'[Call(v)'] : run.result = mem'[v].result
    <3>1. pc[v] = "finalize" => Call(v) \in Workers
      BY <2>1 DEF WorkerOK, Inside
    <3>2. QED  BY <2>1, <2>2, <2>4, <3>1 DEF WorkerOK, Forward
  <2>12. pc'[v] \in {"allocate", "confirm"} => mem'[v].digest # 0
    BY <2>1 DEF WorkerOK
  <2>13. pc'[v] = "running" /\ mem'[v].digest # 0 => Row(v)'.digest = mem'[v].digest
    <3>1. pc[v] = "running" => Call(v) \in Workers
      BY <2>1 DEF WorkerOK, Inside, BeforeRun
    <3>2. QED  BY <2>1, <2>4, <3>1 DEF WorkerOK, Forward
  <2>14. QED
    BY <2>3, <2>5, <2>6, <2>7, <2>8, <2>10, <2>11, <2>12, <2>13, <2>9 DEF WorkerOK
<1>2. ASSUME NEW b \in Binders PROVE BinderOK(b)'
  <2>1. BinderOK(b) /\ pc'[b] = pc[b] /\ bound'[b] = bound[b]
    BY DEF RegistryInvariant, StepOf
  <2>2. bound[b].call \in Workers => Forward(bound[b].call)
    BY DEF StepOf
  <2>3. QED  BY <2>1, <2>2 DEF BinderOK, Forward
<1>3. QED  BY <1>1, <1>2

\* A step that changes no status and no execution, and takes worker w nowhere
\* it has not been let.
QuietStep(w) ==
    /\ StepOf(w)
    /\ \A c \in Workers : rows'[c].status = rows[c].status
    /\ UNCHANGED <<runs, toolOf, granted, reentered>>
    /\ Call(w)' = Call(w)
    /\ pc'[w] \in BeforeRun => pc[w] \in BeforeRun \/ Call(w) \in reentered
    /\ pc[w] \in Inside => pc'[w] \in Inside \cup {"crashed"}
    /\ pc[w] # "crashed"
    /\ pc[w] = "gates" => pc'[w] = "crashed" \/ mem[w].seen = "RUNNING"

\* Such a step leaves every call as it was.
LEMMA QuietKeeps ==
    ASSUME RegistryInvariant, NEW w \in Workers, QuietStep(w)
    PROVE  \A c \in Workers : (Owned(c) /\ Recorded(c) /\ Alone(c))'
<1>1. SUFFICES ASSUME NEW c \in Workers PROVE Owned(c)' /\ Recorded(c)' /\ Alone(c)'
  OBVIOUS
<1>2. Owned(c) /\ Recorded(c) /\ Alone(c) /\ WorkerOK(w)
  BY DEF RegistryInvariant
<1>3. \A v \in Workers : Call(v)' = Call(v)
  BY DEF QuietStep, StepOf, Call
<1>4. \A v \in Workers \ {w} : pc'[v] = pc[v]
  BY DEF QuietStep, StepOf
<1>5. Owned(c)'
  <2>1. ASSUME rows[c].status = "STARTED" PROVE Call(c)' = c /\ pc'[c] \in {"gates", "crashed"}
    <3>1. Call(c) = c /\ pc[c] \in {"gates", "crashed"}
      BY <1>2, <2>1 DEF Owned
    <3>2. CASE c # w
      BY <1>3, <1>4, <3>1, <3>2
    <3>3. CASE c = w
      <4>1. pc[w] = "gates" => pc'[w] = "crashed"
        BY <1>2, <3>1, <3>3 DEF WorkerOK, QuietStep
      <4>2. QED  BY <1>3, <3>1, <3>3, <4>1 DEF QuietStep
    <3>4. QED  BY <3>2, <3>3
  <2>2. ASSUME rows[c].status = "RUNNING"
        PROVE  \E v \in Workers : Call(v)' = c /\ pc'[v] \in Inside \cup {"crashed"}
    <3>1. PICK v \in Workers : Call(v) = c /\ pc[v] \in Inside \cup {"crashed"}
      BY <1>2, <2>2 DEF Owned
    <3>2. pc'[v] \in Inside \cup {"crashed"}
      BY <1>4, <3>1 DEF QuietStep
    <3>3. QED  BY <1>3, <3>1, <3>2
  <2>3. QED  BY <2>1, <2>2 DEF Owned, QuietStep
<1>6. Recorded(c)'
  BY <1>2 DEF Recorded, QuietStep, StepOf, Forward
<1>7. Alone(c)'
  BY <1>2, <1>3, <1>4 DEF Alone, QuietStep
<1>8. QED  BY <1>5, <1>6, <1>7

\* The invariant after a step of worker w.
LEMMA StepKeeps ==
    ASSUME RegistryInvariant, NEW w \in Workers, StepOf(w), TablesTyped', Control', WorkerOK(w)',
           \A c \in Workers : (Owned(c) /\ Recorded(c) /\ Alone(c))'
    PROVE  RegistryInvariant'
  BY OthersKeep DEF RegistryInvariant

\* What it means for a worker to go to a label.
LEMMA GotoWorker ==
    ASSUME Control, NEW w \in Workers, NEW label \in WorkerPcs, Goto(w, label)
    PROVE  /\ Control'
           /\ pc'[w] = label
           /\ \A v \in Workers \ {w} : pc'[v] = pc[v]
           /\ \A b \in Binders : pc'[b] = pc[b]
<1>1. /\ pc'[w] = label
      /\ \A v \in Workers \ {w} : pc'[v] = pc[v]
      /\ \A b \in Binders : pc'[b] = pc[b]
  BY Apart DEF Control, Goto
<1>2. pc' \in [Workers \cup Binders -> WorkerPcs \cup BinderPcs]
  BY DEF Control, Goto
<1>3. QED  BY <1>1, <1>2 DEF Control

\* Worker w goes to a label with memory m, and nothing else changes but faults.
MovesTo(w, label, m) ==
    /\ Goto(w, label)
    /\ mem' = [mem EXCEPT ![w] = m]
    /\ UNCHANGED <<rows, toolOf, now, bound, granted, runs>>
    /\ reentered \subseteq reentered' /\ reentered' \subseteq Workers
    /\ faults' \in 0..MaxFaults

LEMMA MoveIsStep ==
    ASSUME RegistryInvariant, NEW w \in Workers, NEW label \in WorkerPcs, NEW m \in MemType,
           MovesTo(w, label, m)
    PROVE  /\ TablesTyped' /\ Control' /\ StepOf(w)
           /\ pc'[w] = label /\ mem'[w] = m
<1>1. TablesTyped /\ Control
  BY DEF RegistryInvariant
<1>2. Control' /\ pc'[w] = label /\ (\A v \in Workers \ {w} : pc'[v] = pc[v])
      /\ \A b \in Binders : pc'[b] = pc[b]
  BY <1>1, GotoWorker DEF MovesTo
<1>3. mem'[w] = m /\ (\A v \in Workers \ {w} : mem'[v] = mem[v]) /\ mem' \in [Workers -> MemType]
  BY <1>1, Types DEF MovesTo
<1>4. TablesTyped'
  BY <1>1, <1>3, Types, TypesAfter DEF MovesTo
<1>5. \A c \in Workers : Forward(c)
  BY DEF Forward, MovesTo
<1>6. StepOf(w)
  BY <1>2, <1>3, <1>5 DEF StepOf, MovesTo
<1>7. QED  BY <1>2, <1>3, <1>4, <1>6

\* A worker that goes on, or is cut off, without touching the ledger.
LEMMA MoveKeeps ==
    ASSUME RegistryInvariant, NEW w \in Workers, NEW label \in WorkerPcs, NEW m \in MemType,
           MovesTo(w, label, m), reentered' = reentered, m.call = Call(w),
           label \in BeforeRun => pc[w] \in BeforeRun \/ Call(w) \in reentered,
           pc[w] \in Inside => label \in Inside \cup {"crashed"},
           pc[w] # "crashed",
           pc[w] = "gates" => label = "crashed" \/ mem[w].seen = "RUNNING",
           WorkerOK(w)'
    PROVE  RegistryInvariant'
<1>1. TablesTyped' /\ Control' /\ StepOf(w) /\ pc'[w] = label /\ mem'[w] = m
  BY MoveIsStep
<1>2. QuietStep(w)
  BY <1>1 DEF QuietStep, Call, MovesTo
<1>3. QED  BY <1>1, <1>2, QuietKeeps, StepKeeps

----------------------------------------------------------------------------
(* Steps that leave the ledger alone *)

\* Nothing to do.
LEMMA UnresolvedKeeps ==
    ASSUME RegistryInvariant, NEW w \in Workers, Unresolved(w)
    PROVE  RegistryInvariant'
<1>1. WorkerOK(w) /\ TablesTyped /\ mem[w] \in MemType
  BY Types DEF RegistryInvariant
<1>2. MovesTo(w, "returned", mem[w])
  BY <1>1, Types DEF Unresolved, MovesTo, ghosts, TablesTyped
<1>3. "returned" \in WorkerPcs /\ "returned" \notin Inside /\ pc[w] \notin Inside \cup {"gates"}
  BY DEF WorkerPcs, Stopped, Inside, BeforeRun, Unresolved
<1>4. pc'[w] = "returned" /\ mem'[w] = mem[w]
  BY <1>1, <1>2, <1>3, MoveIsStep
<1>5. WorkerOK(w)'
  BY <1>1, <1>3, <1>4 DEF WorkerOK, Unresolved, ghosts, Call, Row, Held
<1>6. QED
  BY <1>1, <1>2, <1>3, <1>5, MoveKeeps DEF Unresolved, Call, ghosts, Inside

\* A worker is cut off.
LEMMA CrashKeeps ==
    ASSUME RegistryInvariant, NEW w \in Workers, Crash(w)
    PROVE  RegistryInvariant'
<1>1. WorkerOK(w) /\ TablesTyped /\ mem[w] \in MemType
  BY Types DEF RegistryInvariant
<1>2. faults' \in 0..MaxFaults
  BY <1>1, RegistryAssumption DEF Crash, TablesTyped
<1>3. MovesTo(w, "crashed", mem[w])
  BY <1>1, <1>2, Types DEF Crash, MovesTo, ghosts
<1>4. "crashed" \in WorkerPcs /\ "crashed" \notin Inside /\ "crashed" \notin BeforeRun
  BY DEF WorkerPcs, Stopped, Inside, BeforeRun
<1>5. pc'[w] = "crashed" /\ mem'[w] = mem[w]
  BY <1>1, <1>3, <1>4, MoveIsStep
<1>6. WorkerOK(w)'
  BY <1>1, <1>4, <1>5 DEF WorkerOK, Crash, ghosts, Call, Row
<1>7. QED
  BY <1>1, <1>3, <1>4, <1>6, MoveKeeps DEF Crash, Call, ghosts, Stopped

\* The UPDATE of finalize fails.
LEMMA FinalizeFailsKeeps ==
    ASSUME RegistryInvariant, NEW w \in Workers, FinalizeFails(w)
    PROVE  RegistryInvariant'
<1>1. WorkerOK(w) /\ TablesTyped /\ mem[w] \in MemType
  BY Types DEF RegistryInvariant
<1>2. faults' \in 0..MaxFaults
  BY <1>1, RegistryAssumption DEF FinalizeFails, TablesTyped
<1>3. MovesTo(w, "catch", mem[w])
  BY <1>1, <1>2, Types DEF FinalizeFails, MovesTo, ghosts
<1>4. "catch" \in WorkerPcs /\ "catch" \in Inside /\ "catch" \notin BeforeRun
  BY DEF WorkerPcs, Inside, BeforeRun
<1>5. pc'[w] = "catch" /\ mem'[w] = mem[w]
  BY <1>1, <1>3, <1>4, MoveIsStep
<1>6. pc[w] = "finalize" /\ "finalize" \in Inside
  BY DEF FinalizeFails, Inside
<1>7. WorkerOK(w)'
  BY <1>1, <1>4, <1>5, <1>6 DEF WorkerOK, FinalizeFails, ghosts, Call, Row
<1>8. QED
  BY <1>1, <1>3, <1>4, <1>6, <1>7, MoveKeeps DEF FinalizeFails, Call, ghosts

\* The tool throws.
LEMMA ToolThrowsKeeps ==
    ASSUME RegistryInvariant, NEW w \in Workers, ToolThrows(w)
    PROVE  RegistryInvariant'
<1>1. WorkerOK(w) /\ TablesTyped /\ mem[w] \in MemType
  BY Types DEF RegistryInvariant
<1>2. MovesTo(w, "catch", mem[w])
  BY <1>1, Types DEF ToolThrows, MovesTo, ghosts, TablesTyped
<1>3. "catch" \in WorkerPcs /\ "catch" \in Inside /\ "catch" \notin BeforeRun
  BY DEF WorkerPcs, Inside, BeforeRun
<1>4. pc'[w] = "catch" /\ mem'[w] = mem[w]
  BY <1>1, <1>2, <1>3, MoveIsStep
<1>5. pc[w] \in Inside /\ pc[w] # "gates" /\ pc[w] # "crashed"
  BY DEF ToolThrows, Inside, BeforeRun
<1>6. WorkerOK(w)'
  BY <1>1, <1>3, <1>4, <1>5 DEF WorkerOK, ToolThrows, ghosts, Call, Row
<1>7. QED
  BY <1>1, <1>2, <1>3, <1>5, <1>6, MoveKeeps DEF ToolThrows, Call, ghosts

\* A connector subcall reads the row.
LEMMA AllocateReadKeeps ==
    ASSUME RegistryInvariant, NEW w \in Workers, AllocateRead(w)
    PROVE  RegistryInvariant'
<1>1. WorkerOK(w) /\ TablesTyped /\ mem[w] \in MemType
  BY Types DEF RegistryInvariant
<1>2. PICK d \in Digests :
           /\ mem' = [mem EXCEPT ![w].digest = d]
           /\ Goto(w, IF ~allocateReadable(Row(w)) \/ Row(w).digest \notin {0, d} THEN "refusedCall"
                      ELSE IF Row(w).digest = 0 THEN "allocate" ELSE "running")
  BY DEF AllocateRead
<1> DEFINE m == [mem[w] EXCEPT !.digest = d]
<1>3. m \in MemType /\ m.call = Call(w) /\ m.digest = d /\ d # 0
  BY <1>1, RegistryAssumption DEF MemType, Call
<1>4. PICK label \in {"refusedCall", "allocate", "running"} :
          Goto(w, label) /\ (label = "running" => Row(w).digest = d)
  <2>1. CASE ~allocateReadable(Row(w))
    BY <1>2, <2>1
  <2>2. CASE allocateReadable(Row(w)) /\ Row(w).digest = 0
    BY <1>2, <2>2
  <2>3. CASE allocateReadable(Row(w)) /\ Row(w).digest = d
    BY <1>2, <1>3, <2>3
  <2>4. CASE allocateReadable(Row(w)) /\ Row(w).digest # 0 /\ Row(w).digest # d
    BY <1>2, <2>4
  <2>5. QED  BY <2>1, <2>2, <2>3, <2>4
<1>5. MovesTo(w, label, m)
  <2>1. mem' = [mem EXCEPT ![w] = m]
    BY <1>2
  <2>2. QED  BY <1>1, <1>4, <2>1, Types DEF AllocateRead, MovesTo, ghosts, TablesTyped
<1>6. label \in WorkerPcs /\ label \in Inside /\ label \in BeforeRun /\ label \notin {"idle", "gates", "finalize"}
  BY DEF WorkerPcs, Inside, BeforeRun
<1>7. pc'[w] = label /\ mem'[w] = m
  BY <1>3, <1>5, <1>6, MoveIsStep
<1>8. pc[w] = "running" /\ "running" \in BeforeRun /\ "running" \in Inside
  BY DEF AllocateRead, BeforeRun, Inside
<1>9. UNCHANGED <<rows, runs, reentered>> /\ Call(w)' = Call(w) /\ Row(w)' = Row(w)
  BY <1>3, <1>7 DEF AllocateRead, ghosts, Call, Row
<1>10. WorkerOK(w)'
  BY <1>1, <1>3, <1>4, <1>6, <1>7, <1>8, <1>9 DEF WorkerOK
<1>11. QED
  BY <1>3, <1>5, <1>6, <1>8, <1>9, <1>10, MoveKeeps

\* The subcall is confirmed, or refused.
LEMMA AllocateConfirmKeeps ==
    ASSUME RegistryInvariant, NEW w \in Workers, AllocateConfirm(w)
    PROVE  RegistryInvariant'
<1>1. WorkerOK(w) /\ TablesTyped /\ mem[w] \in MemType
  BY Types DEF RegistryInvariant
<1> DEFINE label == IF Row(w).digest = mem[w].digest THEN "running" ELSE "refusedCall"
<1>2. MovesTo(w, label, mem[w])
  BY <1>1, Types DEF AllocateConfirm, MovesTo, ghosts, TablesTyped
<1>3. label \in WorkerPcs /\ label \in Inside /\ label \in BeforeRun
      /\ label \notin {"idle", "gates", "finalize", "allocate", "confirm"}
  BY DEF WorkerPcs, Inside, BeforeRun
<1>4. pc'[w] = label /\ mem'[w] = mem[w]
  BY <1>1, <1>2, <1>3, MoveIsStep
<1>5. pc[w] = "confirm" /\ "confirm" \in BeforeRun /\ "confirm" \in Inside
  BY DEF AllocateConfirm, BeforeRun, Inside
<1>6. UNCHANGED <<rows, runs, reentered>> /\ Call(w)' = Call(w) /\ Row(w)' = Row(w)
  BY <1>4 DEF AllocateConfirm, ghosts, Call, Row
<1>7. WorkerOK(w)'
  BY <1>1, <1>3, <1>4, <1>5, <1>6 DEF WorkerOK
<1>8. mem[w].call = Call(w)
  BY DEF Call
<1>9. QED
  BY <1>1, <1>2, <1>3, <1>5, <1>6, <1>7, <1>8, MoveKeeps

----------------------------------------------------------------------------
(* Steps that write the row of the worker's call *)

\* Worker w writes its row and goes to a label with memory m.
Writes(w, row, label, m) ==
    /\ SetRow(Call(w), row)
    /\ Goto(w, label)
    /\ mem' = [mem EXCEPT ![w] = m]
    /\ UNCHANGED <<toolOf, now, bound, granted, runs, reentered, faults>>

\* A row moves on.
Onward(old, new) ==
    /\ new \in RowType
    /\ old.binding # 0 => new.binding = old.binding
    /\ old.digest # 0 => new.digest = old.digest
    /\ new.status # "none"
    /\ new.status = "STARTED" => old.status = "STARTED"
    /\ old.status \in Ran => new.status \in Ran

\* A worker writes only a row that is its own, or past STARTED.
LEMMA WriteIsStep ==
    ASSUME RegistryInvariant, NEW w \in Workers, NEW row, NEW label \in WorkerPcs,
           NEW m \in MemType, Call(w) \in Workers, Onward(Row(w), row), Writes(w, row, label, m)
    PROVE  /\ TablesTyped' /\ Control' /\ StepOf(w)
           /\ pc'[w] = label /\ mem'[w] = m
           /\ rows'[Call(w)] = row
           /\ \A c \in Workers \ {Call(w)} : rows'[c] = rows[c]
<1>1. TablesTyped /\ Control /\ WorkerOK(w)
  BY DEF RegistryInvariant
<1>2. Control' /\ pc'[w] = label /\ (\A v \in Workers \ {w} : pc'[v] = pc[v])
      /\ \A b \in Binders : pc'[b] = pc[b]
  BY <1>1, GotoWorker DEF Writes
<1>3. mem'[w] = m /\ (\A v \in Workers \ {w} : mem'[v] = mem[v]) /\ mem' \in [Workers -> MemType]
  BY <1>1, Types DEF Writes
<1>4. /\ rows'[Call(w)] = row /\ rows' \in [Workers -> RowType]
      /\ \A c \in Workers \ {Call(w)} : rows'[c] = rows[c]
  BY <1>1, Types DEF Writes, SetRow, Onward
<1>5. TablesTyped'
  BY <1>1, <1>3, <1>4, Types, TypesAfter DEF Writes, TablesTyped
<1>6. \A c \in Workers : Forward(c)
  <2>1. SUFFICES ASSUME NEW c \in Workers PROVE Forward(c)
    OBVIOUS
  <2>2. CASE c = Call(w)
    BY <1>4, <2>2 DEF Forward, Onward, Writes, Row, Ran
  <2>3. CASE c # Call(w)
    BY <1>4, <2>3 DEF Forward, Writes
  <2>4. QED  BY <2>2, <2>3
<1>7. Call(w) # w => rows[Call(w)].status \notin {"none", "STARTED"}
  BY <1>1, Apart DEF WorkerOK, Row
<1>8. StepOf(w)
  BY <1>2, <1>3, <1>4, <1>6, <1>7 DEF StepOf, Writes
<1>9. QED  BY <1>2, <1>3, <1>4, <1>5, <1>8

\* A statement that keeps the status, while the tool runs.
LEMMA NoteKeeps ==
    ASSUME RegistryInvariant, NEW w \in Workers, NEW row, NEW label \in BeforeRun,
           pc[w] \in BeforeRun, Onward(Row(w), row), row.status = Row(w).status,
           Writes(w, row, label, mem[w]),
           label \in {"allocate", "confirm"} => mem[w].digest # 0,
           label = "running" /\ mem[w].digest # 0 => row.digest = mem[w].digest
    PROVE  RegistryInvariant'
<1>1. WorkerOK(w) /\ TablesTyped /\ mem[w] \in MemType
  BY Types DEF RegistryInvariant
<1>2. label \in WorkerPcs /\ label \in Inside /\ label \notin {"idle", "gates", "finalize", "crashed"}
  BY DEF WorkerPcs, Inside, BeforeRun
<1>3. pc[w] \in Inside /\ pc[w] # "gates" /\ pc[w] # "crashed"
  BY DEF Inside, BeforeRun
<1>4. Call(w) \in Workers
  BY <1>1, <1>3 DEF WorkerOK
<1>5. /\ TablesTyped' /\ Control' /\ StepOf(w) /\ pc'[w] = label /\ mem'[w] = mem[w]
      /\ rows'[Call(w)] = row /\ \A c \in Workers \ {Call(w)} : rows'[c] = rows[c]
  BY <1>1, <1>2, <1>4, WriteIsStep
<1>6. Call(w)' = Call(w) /\ Row(w)' = row
  BY <1>5 DEF Call, Row
<1>7. WorkerOK(w)'
  BY <1>1, <1>2, <1>3, <1>4, <1>5, <1>6 DEF WorkerOK, Onward
<1>8. \A c \in Workers : rows'[c].status = rows[c].status
  BY <1>5 DEF Row
<1>9. QuietStep(w)
  BY <1>2, <1>3, <1>5, <1>6, <1>8 DEF QuietStep, Writes
<1>10. QED  BY <1>5, <1>7, <1>9, QuietKeeps, StepKeeps

\* A sign of life.
LEMMA HeartbeatKeeps ==
    ASSUME RegistryInvariant, NEW w \in Workers, Heartbeat(w)
    PROVE  RegistryInvariant'
<1>1. WorkerOK(w) /\ TablesTyped /\ Control /\ mem[w] \in MemType
  BY Types DEF RegistryInvariant
<1>2. pc[w] = "running" /\ "running" \in BeforeRun /\ "running" \in Inside
  BY DEF Heartbeat, BeforeRun, Inside
<1>3. Call(w) \in Workers /\ Row(w) \in RowType /\ Row(w).status \in Ran
  BY <1>1, <1>2, Types DEF WorkerOK, Row
<1>4. Restated(Row(w), heartbeat(Row(w), now), Row(w).status)
  BY <1>1, <1>3, LedgerRestates, Types
<1>5. Onward(Row(w), heartbeat(Row(w), now))
  BY <1>3, <1>4 DEF Onward, Restated, Ran
<1>6. Writes(w, heartbeat(Row(w), now), "running", mem[w])
  BY <1>1, <1>2, Types DEF Heartbeat, Writes, ghosts, Goto, Control
<1>7. mem[w].digest # 0 => heartbeat(Row(w), now).digest = mem[w].digest
  BY <1>1, <1>2, <1>4 DEF WorkerOK, Restated
<1>8. heartbeat(Row(w), now).status = Row(w).status
  BY <1>4 DEF Restated
<1>9. QED  BY <1>2, <1>5, <1>6, <1>7, <1>8, NoteKeeps

\* The UPDATE that takes a free ordinal.
LEMMA AllocateWriteKeeps ==
    ASSUME RegistryInvariant, NEW w \in Workers, AllocateWrite(w)
    PROVE  RegistryInvariant'
<1> DEFINE row == IF allocateAllows(Row(w)) THEN allocate(Row(w), mem[w].digest) ELSE Row(w)
<1>1. WorkerOK(w) /\ TablesTyped /\ Control /\ mem[w] \in MemType
  BY Types DEF RegistryInvariant
<1>2. pc[w] = "allocate" /\ "allocate" \in BeforeRun /\ "allocate" \in Inside
      /\ "confirm" \in BeforeRun
  BY DEF AllocateWrite, BeforeRun, Inside
<1>3. Call(w) \in Workers /\ Row(w) \in RowType /\ Row(w).status \in Ran
  BY <1>1, <1>2, Types DEF WorkerOK, Row
<1>4. Onward(Row(w), row) /\ row.status = Row(w).status
  BY <1>1, <1>3 DEF Onward, RowType, MemType, allocate, allocateAllows, Ran
<1>5. Writes(w, row, "confirm", mem[w])
  BY <1>1, Types DEF AllocateWrite, Writes, ghosts
<1>6. mem[w].digest # 0
  BY <1>1, <1>2 DEF WorkerOK
<1>7. QED  BY <1>2, <1>4, <1>5, <1>6, NoteKeeps

\* What a compare-and-set that ends the call needs: it succeeds whenever the
\* call is still the worker's own, and its outcome tells the effect.
Closes(w, allowed, row) ==
    /\ pc[w] \in {"gates", "finalize", "catch"}
    /\ allowed =>
           /\ Onward(Row(w), row)
           /\ row.status \in FinalStatus \cup {"REQUIRES_APPROVAL"}
           /\ row.status = "SUCCEEDED" => \E run \in runs[Call(w)] : run.result = "ok"
    /\ ~allowed =>
           /\ Row(w).status # "STARTED"
           /\ Row(w).status = "RUNNING" => pc[w] = "gates"

\* A worker ends with its call closed, or thrown out of a call that another
\* one answers for.
LEMMA CloseKeeps ==
    ASSUME RegistryInvariant, NEW w \in Workers, NEW allowed \in BOOLEAN, NEW row,
           Closes(w, allowed, row), Cas(w, allowed, row, "returned"),
           UNCHANGED <<toolOf, now, bound, ghosts, faults>>
    PROVE  RegistryInvariant'
<1> DEFINE m == [Held EXCEPT !.call = Call(w)]
<1>1. WorkerOK(w) /\ TablesTyped /\ mem[w] \in MemType
  BY Types DEF RegistryInvariant
<1>2. pc[w] \in Inside \cup {"gates"} /\ pc[w] \notin BeforeRun /\ pc[w] # "crashed"
  BY DEF Closes, Inside, BeforeRun
<1>3. Call(w) \in Workers /\ Row(w).status # "none"
  BY <1>1, <1>2, Apart DEF WorkerOK
<1>4. m \in MemType /\ m.call = Call(w)
  BY <1>3, Types DEF Held, MemType, CallStatus
<1>5. /\ "returned" \in WorkerPcs /\ "thrown" \in WorkerPcs
      /\ \A x \in {"returned", "thrown"} :
             x \notin Inside /\ x \notin BeforeRun /\ x # "idle" /\ x # "gates" /\ x # "crashed"
  BY DEF WorkerPcs, Stopped, Inside, BeforeRun
<1>6. CASE ~allowed
  <2>1. MovesTo(w, "thrown", m)
    BY <1>1, <1>6, Types DEF Cas, MovesTo, ghosts, TablesTyped
  <2>2. TablesTyped' /\ Control' /\ StepOf(w) /\ pc'[w] = "thrown" /\ mem'[w] = m
    BY <1>4, <1>5, <2>1, MoveIsStep
  <2>3. UNCHANGED <<rows, runs, toolOf, granted, reentered>>
    BY <1>6 DEF Cas, ghosts
  <2>4. Call(w)' = Call(w) /\ Row(w)' = Row(w)
    BY <1>4, <2>2, <2>3 DEF Call, Row
  <2>5. WorkerOK(w)'
    BY <1>1, <1>3, <1>5, <2>2, <2>4 DEF WorkerOK
  <2>6. \A v \in Workers : Call(v)' = Call(v) /\ (v # w => pc'[v] = pc[v])
    BY <2>2, <2>4 DEF StepOf, Call
  <2>7. ASSUME NEW c \in Workers PROVE (Owned(c) /\ Recorded(c) /\ Alone(c))'
    <3>1. Owned(c) /\ Recorded(c) /\ Alone(c)
      BY DEF RegistryInvariant
    <3>2. Recorded(c)'
      BY <2>3, <3>1 DEF Recorded
    <3>3. Alone(c)'
      BY <1>5, <2>2, <2>3, <2>6, <3>1 DEF Alone
    <3>4. rows[c].status = "STARTED" => c # w
      BY <1>6, <3>1 DEF Closes, Owned, Row
    <3>5. ASSUME rows[c].status = "RUNNING"
          PROVE  \E v \in Workers : Call(v)' = c /\ pc'[v] \in Inside \cup {"crashed"}
      <4>1. PICK v \in Workers : Call(v) = c /\ pc[v] \in Inside \cup {"crashed"}
        BY <3>1, <3>5 DEF Owned
      <4>2. v # w
        <5>1. SUFFICES ASSUME v = w PROVE FALSE
          OBVIOUS
        <5>2. Row(w).status = "RUNNING"
          BY <3>5, <4>1, <5>1 DEF Row
        <5>3. pc[w] = "gates" /\ "gates" \notin Inside
          BY <1>6, <5>2 DEF Closes, Inside, BeforeRun
        <5>4. QED  BY <4>1, <5>1, <5>3
      <4>3. QED  BY <2>6, <4>1, <4>2
    <3>6. Owned(c)'
      BY <2>3, <2>6, <3>1, <3>4, <3>5 DEF Owned
    <3>7. QED  BY <3>2, <3>3, <3>6
  <2>8. QED  BY <2>2, <2>5, <2>7, StepKeeps
<1>7. CASE allowed
  <2>1. Onward(Row(w), row) /\ row.status \in FinalStatus \cup {"REQUIRES_APPROVAL"}
    BY <1>7 DEF Closes
  <2>2. Writes(w, row, "returned", m)
    BY <1>7 DEF Cas, Writes, ghosts
  <2>3. /\ TablesTyped' /\ Control' /\ StepOf(w) /\ pc'[w] = "returned" /\ mem'[w] = m
        /\ rows'[Call(w)] = row /\ \A c \in Workers \ {Call(w)} : rows'[c] = rows[c]
    BY <1>3, <1>4, <1>5, <2>1, <2>2, WriteIsStep
  <2>4. UNCHANGED <<runs, toolOf, granted, reentered>>
    BY DEF ghosts
  <2>5. Call(w)' = Call(w) /\ Row(w)' = row
    BY <1>4, <2>3 DEF Call, Row
  <2>6. row.status \notin {"none", "STARTED", "RUNNING"}
    BY <2>1 DEF FinalStatus
  <2>7. WorkerOK(w)'
    BY <1>3, <1>5, <2>3, <2>5, <2>6 DEF WorkerOK
  <2>8. \A v \in Workers : Call(v)' = Call(v) /\ (v # w => pc'[v] = pc[v])
    BY <2>3, <2>5 DEF StepOf, Call
  <2>9. ASSUME NEW c \in Workers PROVE (Owned(c) /\ Recorded(c) /\ Alone(c))'
    <3>1. Owned(c) /\ Recorded(c) /\ Alone(c)
      BY DEF RegistryInvariant
    <3>2. Alone(c)'
      BY <1>5, <2>3, <2>4, <2>8, <3>1 DEF Alone
    <3>3. CASE c = Call(w)
      <4>1. Owned(c)'
        BY <2>3, <2>6, <3>3 DEF Owned
      <4>2. rows[c] = Row(w) /\ rows'[c] = row
        BY <2>3, <3>3 DEF Row
      <4>3. \A run \in runs[c] : toolOf[c].kind = "messaging" =>
                                     run.digest # 0 /\ run.digest = row.digest
        BY <2>1, <3>1, <4>2 DEF Recorded, Onward
      <4>4. runs[c] # {} => row.status \in Ran
        BY <2>1, <3>1, <4>2 DEF Recorded, Onward
      <4>5. row.status = "SUCCEEDED" => \E run \in runs[c] : run.result = "ok"
        BY <1>7, <3>3 DEF Closes
      <4>6. toolOf[c] \in Tools
        BY <1>3, <3>1, <4>2 DEF Recorded
      <4>7. Recorded(c)'
        BY <2>4, <2>6, <4>2, <4>3, <4>4, <4>5, <4>6 DEF Recorded
      <4>8. QED  BY <3>2, <4>1, <4>7
    <3>4. CASE c # Call(w)
      <4>1. rows'[c] = rows[c]
        BY <2>3, <3>4
      <4>2. Recorded(c)'
        BY <2>4, <3>1, <4>1 DEF Recorded
      <4>3. \A v \in Workers : Call(v) = c => v # w
        BY <3>4
      <4>4. Owned(c)'
        BY <2>8, <3>1, <4>1, <4>3 DEF Owned
      <4>5. QED  BY <3>2, <4>2, <4>4
    <3>5. QED  BY <3>3, <3>4
  <2>10. QED  BY <2>3, <2>7, <2>9, StepKeeps
<1>8. QED  BY <1>6, <1>7

----------------------------------------------------------------------------
(* The gates *)

\* A worker at the gates: a STARTED call is its own.
LEMMA AtTheGates ==
    ASSUME RegistryInvariant, NEW w \in Workers, pc[w] = "gates"
    PROVE  /\ Call(w) \in Workers /\ Row(w) \in RowType
           /\ Row(w).status = "STARTED" <=> mem[w].seen = "STARTED"
<1>1. WorkerOK(w) /\ TablesTyped
  BY DEF RegistryInvariant
<1>2. Call(w) \in Workers /\ Row(w) \in RowType
  BY <1>1, Types DEF WorkerOK, Row
<1>3. QED  BY <1>1, <1>2, Apart DEF WorkerOK

\* A gate refuses or parks its call; only a call that may have run can be
\* recorded as FAILED from RUNNING.
LEMMA GateCloses ==
    ASSUME RegistryInvariant, NEW w \in Workers, pc[w] = "gates", NEW allowed \in BOOLEAN, NEW row,
           NEW status \in {"DENIED", "BLOCKED", "REQUIRES_APPROVAL", "FAILED"},
           Restated(Row(w), row, status),
           Row(w).status = "STARTED" => allowed,
           allowed /\ Row(w).status \in Ran => status = "FAILED"
    PROVE  Closes(w, allowed, row)
<1>1. row.status = status /\ row.status \in FinalStatus \cup {"REQUIRES_APPROVAL"}
      /\ row.status # "SUCCEEDED"
  BY DEF Restated, FinalStatus
<1>2. allowed => Onward(Row(w), row)
  BY <1>1 DEF Restated, Onward, Ran
<1>3. QED  BY <1>1, <1>2 DEF Closes

\* A gate that moves the call out of the statuses a gate may close.
LEMMA TransitionGate ==
    ASSUME RegistryInvariant, NEW w \in Workers, AtGates(w), NEW expected, NEW row,
           NEW status \in {"DENIED", "BLOCKED", "REQUIRES_APPROVAL"},
           row = transition(Row(w), status)
             \/ (status = "REQUIRES_APPROVAL" /\ row = park(Row(w))),
           expected \in {{"STARTED"}, openCallStatuses(w)},
           Cas(w, transitionAllows(Row(w), expected), row, "returned")
    PROVE  RegistryInvariant'
<1>1. pc[w] = "gates" /\ TablesTyped
  BY DEF AtGates, RegistryInvariant
<1>2. /\ Call(w) \in Workers /\ Row(w) \in RowType
      /\ Row(w).status = "STARTED" <=> mem[w].seen = "STARTED"
  BY <1>1, AtTheGates
<1>3. Restated(Row(w), row, status)
  <2>1. status \in CallStatus
    BY DEF CallStatus
  <2>2. Restated(Row(w), transition(Row(w), status), status)
        /\ Restated(Row(w), park(Row(w)), "REQUIRES_APPROVAL")
    BY <1>1, <1>2, <2>1, LedgerRestates, Types
  <2>3. QED  BY <2>2
<1>4. transitionAllows(Row(w), expected) \in BOOLEAN
  BY DEF transitionAllows
<1>5. Row(w).status = "STARTED" => transitionAllows(Row(w), expected)
  BY <1>2 DEF transitionAllows, openCallStatuses
<1>6. transitionAllows(Row(w), expected) => Row(w).status \notin Ran
  BY DEF transitionAllows, openCallStatuses, Ran
<1>7. Closes(w, transitionAllows(Row(w), expected), row)
  BY <1>1, <1>3, <1>4, <1>5, <1>6, GateCloses
<1>8. QED  BY <1>4, <1>7, CloseKeeps DEF AtGates

\* Every gate but the last one.
LEMMA GatesKeep ==
    ASSUME RegistryInvariant, NEW w \in Workers,
           NotAllowed(w) \/ PermissionDenied(w) \/ Blocked(w) \/ Escalate(w)
             \/ BlockContextual(w) \/ EscalateContextual(w) \/ NotIsolated(w)
    PROVE  RegistryInvariant'
<1>1. CASE NotAllowed(w)
  BY <1>1, TransitionGate DEF NotAllowed
<1>2. CASE PermissionDenied(w)
  BY <1>2, TransitionGate DEF PermissionDenied
<1>3. CASE Blocked(w)
  BY <1>3, TransitionGate DEF Blocked
<1>4. CASE Escalate(w)
  BY <1>4, TransitionGate DEF Escalate
<1>5. CASE BlockContextual(w)
  BY <1>5, TransitionGate DEF BlockContextual
<1>6. CASE EscalateContextual(w)
  BY <1>6, TransitionGate DEF EscalateContextual
<1>7. CASE NotIsolated(w)
  BY <1>7, TransitionGate DEF NotIsolated
<1>8. QED  BY <1>1, <1>2, <1>3, <1>4, <1>5, <1>6, <1>7

\* Input that does not fit the schema.
LEMMA InvalidInputKeeps ==
    ASSUME RegistryInvariant, NEW w \in Workers, InvalidInput(w)
    PROVE  RegistryInvariant'
<1>1. pc[w] = "gates" /\ TablesTyped
  BY DEF InvalidInput, AtGates, RegistryInvariant
<1>2. Call(w) \in Workers /\ Row(w) \in RowType
  BY <1>1, AtTheGates
<1>3. "FAILED" \in CallStatus
  BY DEF CallStatus
<1>4. Restated(Row(w), finalize(Row(w), "FAILED"), "FAILED")
  BY <1>1, <1>2, <1>3, LedgerRestates, Types
<1>5. finalizeAllows(Row(w)) \in BOOLEAN
      /\ (Row(w).status = "STARTED" => finalizeAllows(Row(w)))
  BY DEF finalizeAllows, transitionAllows
<1>6. Closes(w, finalizeAllows(Row(w)), finalize(Row(w), "FAILED"))
  BY <1>1, <1>4, <1>5, GateCloses
<1>7. QED  BY <1>5, <1>6, CloseKeeps DEF InvalidInput, AtGates

\* Only a compare-and-set that wins, or a call found RUNNING, gets to the tool.
LEMMA MarkRunningKeeps ==
    ASSUME RegistryInvariant, NEW w \in Workers, MarkRunning(w)
    PROVE  RegistryInvariant'
<1>1. WorkerOK(w) /\ TablesTyped /\ mem[w] \in MemType
  BY Types DEF RegistryInvariant
<1>2. pc[w] = "gates" /\ UNCHANGED <<toolOf, now, bound, ghosts, faults>>
  BY DEF MarkRunning, AtGates
<1>3. /\ Call(w) \in Workers /\ Row(w) \in RowType
      /\ Row(w).status = "STARTED" <=> mem[w].seen = "STARTED"
  BY <1>2, AtTheGates
<1>4. "running" \in WorkerPcs /\ "running" \in Inside /\ "running" \in BeforeRun
      /\ "gates" \notin Inside /\ "gates" \notin BeforeRun
  BY DEF WorkerPcs, Inside, BeforeRun
<1>5. CASE mem[w].seen = "RUNNING"
  <2>1. MovesTo(w, "running", mem[w])
    BY <1>1, <1>2, <1>5, Types DEF MarkRunning, MovesTo, ghosts, TablesTyped
  <2>2. pc'[w] = "running" /\ mem'[w] = mem[w]
    BY <1>1, <1>4, <2>1, MoveIsStep
  <2>3. Call(w)' = Call(w) /\ Row(w)' = Row(w)
    BY <1>5, <2>2 DEF MarkRunning, Call, Row
  <2>4. Row(w).status \in Ran /\ Call(w) \in reentered /\ mem[w].digest = 0
    BY <1>1, <1>2, <1>5 DEF WorkerOK
  <2>5. Row(w).status # "none" /\ (Call(w) # w => Row(w).status # "STARTED")
    BY <2>4 DEF Ran
  <2>6. WorkerOK(w)'
    BY <1>3, <2>2, <2>3, <2>4, <2>5 DEF WorkerOK
  <2>7. mem[w].call = Call(w) /\ reentered' = reentered
    BY <1>2 DEF Call, ghosts
  <2>8. QED  BY <1>1, <1>2, <1>4, <1>5, <2>1, <2>4, <2>6, <2>7, MoveKeeps
<1>6. CASE mem[w].seen # "RUNNING" /\ ~transitionAllows(Row(w), {mem[w].seen})
  <2>1. Cas(w, FALSE, markRunning(Row(w), now, Timeout), "returned")
    BY <1>6 DEF MarkRunning, Cas
  <2>2. Closes(w, FALSE, markRunning(Row(w), now, Timeout))
    BY <1>2, <1>3, <1>6 DEF Closes, transitionAllows
  <2>3. QED  BY <1>2, <2>1, <2>2, CloseKeeps
<1>7. CASE mem[w].seen # "RUNNING" /\ transitionAllows(Row(w), {mem[w].seen})
  <2> DEFINE row == markRunning(Row(w), now, Timeout)
  <2>1. Restated(Row(w), row, "RUNNING")
    BY <1>1, <1>3, LedgerRestates, Types
  <2>2. Row(w).status \in {"STARTED", "REQUIRES_APPROVAL"} /\ mem[w].digest = 0
    BY <1>1, <1>2, <1>7 DEF WorkerOK, transitionAllows
  <2>3. Onward(Row(w), row) /\ row.status = "RUNNING" /\ row.digest = Row(w).digest
    BY <2>1, <2>2 DEF Onward, Restated, Ran
  <2>4. Writes(w, row, "running", mem[w])
    BY <1>1, <1>2, <1>7, Types DEF MarkRunning, Cas, Writes, ghosts
  <2> HIDE DEF row
  <2>5. /\ TablesTyped' /\ Control' /\ StepOf(w) /\ pc'[w] = "running" /\ mem'[w] = mem[w]
        /\ rows'[Call(w)] = row /\ \A c \in Workers \ {Call(w)} : rows'[c] = rows[c]
    BY <1>1, <1>3, <1>4, <2>3, <2>4, WriteIsStep
  <2>6. UNCHANGED <<runs, toolOf, granted, reentered>>
    BY <1>2 DEF ghosts
  <2>7. Call(w)' = Call(w) /\ Row(w)' = row
    BY <2>5 DEF Call, Row
  <2>8. WorkerOK(w)'
    BY <1>3, <2>2, <2>3, <2>5, <2>7 DEF WorkerOK, Ran
  <2>9. \A v \in Workers : Call(v)' = Call(v) /\ (v # w => pc'[v] = pc[v])
    BY <2>5, <2>7 DEF StepOf, Call
  <2>10. \A v \in Workers : Call(v) = Call(w) => pc[v] \notin BeforeRun
    <3>1. SUFFICES ASSUME NEW v \in Workers, Call(v) = Call(w), pc[v] \in BeforeRun PROVE FALSE
      OBVIOUS
    <3>2. WorkerOK(v) /\ pc[v] \in Inside
      BY <3>1 DEF RegistryInvariant, Inside
    <3>3. Row(w).status \in Ran
      BY <3>1, <3>2 DEF WorkerOK, Row
    <3>4. QED  BY <2>2, <3>3 DEF Ran
  <2>11. ASSUME NEW c \in Workers PROVE (Owned(c) /\ Recorded(c) /\ Alone(c))'
    <3>1. Owned(c) /\ Recorded(c) /\ Alone(c)
      BY DEF RegistryInvariant
    <3>2. CASE c = Call(w)
      <4>1. rows[c] = Row(w) /\ rows'[c] = row
        BY <2>5, <3>2 DEF Row
      <4>2. runs[c] = {}
        BY <2>2, <3>1, <4>1 DEF Recorded, Ran
      <4>3. Owned(c)'
        BY <1>4, <2>3, <2>5, <2>7, <3>2, <4>1 DEF Owned
      <4>4. Recorded(c)'
        BY <2>2, <2>3, <2>6, <3>1, <4>1, <4>2 DEF Recorded
      <4>5. Alone(c)'
        BY <2>6, <2>9, <2>10, <3>2, <4>2 DEF Alone
      <4>6. QED  BY <4>3, <4>4, <4>5
    <3>3. CASE c # Call(w)
      <4>1. rows'[c] = rows[c]
        BY <2>5, <3>3
      <4>2. Recorded(c)'
        BY <2>6, <3>1, <4>1 DEF Recorded
      <4>3. \A v \in Workers : Call(v) = c => v # w
        BY <3>3
      <4>4. Owned(c)'
        BY <2>9, <3>1, <4>1, <4>3 DEF Owned
      <4>5. Alone(c)'
        BY <2>6, <2>9, <3>1, <4>3 DEF Alone
      <4>6. QED  BY <4>2, <4>4, <4>5
    <3>4. QED  BY <3>2, <3>3
  <2>12. QED  BY <2>5, <2>8, <2>11, StepKeeps
<1>8. QED  BY <1>5, <1>6, <1>7

----------------------------------------------------------------------------
(* The outcome *)

\* A worker inside the try closes a call that is RUNNING; otherwise another
\* one has closed it.
LEMMA OutcomeCloses ==
    ASSUME RegistryInvariant, NEW w \in Workers, pc[w] \in {"finalize", "catch"},
           NEW status \in {"SUCCEEDED", "FAILED", "COMPLETION_UNKNOWN"},
           status = "SUCCEEDED" => pc[w] = "finalize" /\ mem[w].result = "ok",
           Cas(w, finalizeAllows(Row(w)), finalize(Row(w), status), "returned"),
           UNCHANGED <<toolOf, now, bound, ghosts, faults>>
    PROVE  RegistryInvariant'
<1> DEFINE row == finalize(Row(w), status)
<1>1. WorkerOK(w) /\ TablesTyped
  BY DEF RegistryInvariant
<1>2. pc[w] \in Inside
  BY DEF Inside
<1>3. Call(w) \in Workers /\ Row(w) \in RowType /\ Row(w).status \in Ran
  BY <1>1, <1>2, Types DEF WorkerOK, Row
<1>4. status \in CallStatus
  BY DEF CallStatus
<1>5. Restated(Row(w), row, status)
  BY <1>1, <1>3, <1>4, LedgerRestates, Types
<1>6. Onward(Row(w), row) /\ row.status = status
  BY <1>5 DEF Onward, Restated, Ran
<1>7. status = "SUCCEEDED" => \E run \in runs[Call(w)] : run.result = "ok"
  BY <1>1 DEF WorkerOK
<1>8. finalizeAllows(Row(w)) \in BOOLEAN
      /\ (~finalizeAllows(Row(w)) => Row(w).status \notin {"STARTED", "RUNNING"})
  BY DEF finalizeAllows, transitionAllows
<1> HIDE DEF row
<1>9. Closes(w, finalizeAllows(Row(w)), row)
  BY <1>6, <1>7, <1>8 DEF Closes, FinalStatus
<1>10. Cas(w, finalizeAllows(Row(w)), row, "returned")
  BY DEF row
<1>11. QED  BY <1>8, <1>9, <1>10, CloseKeeps

\* The tool's answer, the provider's own outcome, and the catch.
LEMMA OutcomesKeep ==
    ASSUME RegistryInvariant, NEW w \in Workers,
           Finalize(w) \/ Coordinate(w) \/ CatchFinalize(w)
    PROVE  RegistryInvariant'
<1>1. CASE Finalize(w)
  BY <1>1, OutcomeCloses DEF Finalize
<1>2. CASE Coordinate(w)
  <2>1. PICK status \in {"SUCCEEDED", "FAILED", "COMPLETION_UNKNOWN"} :
           /\ status = "SUCCEEDED" => mem[w].result = "ok"
           /\ Cas(w, finalizeAllows(Row(w)), finalize(Row(w), status), "returned")
    BY <1>2 DEF Coordinate
  <2>2. pc[w] = "finalize" /\ UNCHANGED <<toolOf, now, bound, ghosts, faults>>
    BY <1>2 DEF Coordinate
  <2>3. QED  BY <2>1, <2>2, OutcomeCloses
<1>3. CASE CatchFinalize(w)
  BY <1>3, OutcomeCloses DEF CatchFinalize
<1>4. QED  BY <1>1, <1>2, <1>3

----------------------------------------------------------------------------
(* The execution *)

\* The tool acts: unless the call was reentered, for the first time.
LEMMA ExecuteKeeps ==
    ASSUME RegistryInvariant, NEW w \in Workers, Execute(w)
    PROVE  RegistryInvariant'
<1>1. WorkerOK(w) /\ TablesTyped /\ Control /\ mem[w] \in MemType
  BY Types DEF RegistryInvariant
<1>2. PICK result \in {"ok", "bad"} :
           /\ mem' = [mem EXCEPT ![w].result = result]
           /\ runs' = [runs EXCEPT ![Call(w)] = @ \cup
                          {[worker |-> w, result |-> result, digest |-> mem[w].digest]}]
  BY DEF Execute
<1> DEFINE run0 == [worker |-> w, result |-> result, digest |-> mem[w].digest]
           m == [mem[w] EXCEPT !.result = result]
<1>3. /\ pc[w] = "running" /\ (Tool(w).kind = "messaging" => mem[w].digest # 0)
      /\ Goto(w, "finalize")
      /\ UNCHANGED <<rows, toolOf, now, bound, granted, reentered, faults>>
  BY DEF Execute
<1>4. /\ "finalize" \in WorkerPcs /\ "finalize" \in Inside /\ "finalize" \notin BeforeRun
      /\ "running" \in BeforeRun /\ "running" \in Inside
  BY DEF WorkerPcs, Inside, BeforeRun
<1>5. Call(w) \in Workers /\ Row(w).status \in Ran /\ Row(w) = rows[Call(w)]
  BY <1>1, <1>3, <1>4 DEF WorkerOK, Row
<1>6. m \in MemType /\ m.call = Call(w) /\ m.result = result /\ run0 \in RunType
      /\ run0.result = result /\ run0.digest = mem[w].digest
  BY <1>1 DEF MemType, RunType, Call
<1>7. Control' /\ pc'[w] = "finalize" /\ (\A v \in Workers \ {w} : pc'[v] = pc[v])
      /\ \A b \in Binders : pc'[b] = pc[b]
  BY <1>1, <1>3, <1>4, GotoWorker
<1>8. mem'[w] = m /\ (\A v \in Workers \ {w} : mem'[v] = mem[v]) /\ mem' \in [Workers -> MemType]
  <2>1. mem' = [mem EXCEPT ![w] = m]
    BY <1>2
  <2>2. QED  BY <1>1, <1>6, <2>1, Types
<1>9. /\ runs'[Call(w)] = runs[Call(w)] \cup {run0}
      /\ \A c \in Workers \ {Call(w)} : runs'[c] = runs[c]
      /\ runs' \in [Workers -> SUBSET RunType]
  BY <1>1, <1>2, <1>5, <1>6, Types
<1> HIDE DEF run0, m
<1>10. TablesTyped'
  BY <1>1, <1>3, <1>8, <1>9, Types, TypesAfter DEF TablesTyped
<1>11. StepOf(w)
  <2>1. \A c \in Workers : Forward(c)
    BY <1>3, <1>9 DEF Forward
  <2>2. rows[Call(w)].status \notin {"none", "STARTED"}
    BY <1>5 DEF Ran
  <2>3. QED  BY <1>3, <1>7, <1>8, <1>9, <2>1, <2>2 DEF StepOf
<1>12. \A v \in Workers : Call(v)' = Call(v)
  BY <1>6, <1>8 DEF Call
<1>13. WorkerOK(w)'
  <2>1. Row(w)' = Row(w)
    BY <1>3, <1>12 DEF Row
  <2>2. \E run \in runs'[Call(w)] : run.result = mem'[w].result
    BY <1>6, <1>8, <1>9
  <2>3. Row(w).status # "none" /\ Row(w).status # "STARTED"
    BY <1>5 DEF Ran
  <2>4. QED  BY <1>4, <1>5, <1>7, <1>12, <2>1, <2>2, <2>3 DEF WorkerOK
<1>14. ASSUME NEW c \in Workers PROVE (Owned(c) /\ Recorded(c) /\ Alone(c))'
  <2>1. Owned(c) /\ Recorded(c) /\ Alone(c)
    BY DEF RegistryInvariant
  <2>2. Owned(c)'
    <3>1. rows[c].status = "STARTED" => c # w
      BY <1>3, <2>1 DEF Owned
    <3>2. ASSUME NEW v \in Workers, pc[v] \in Inside \cup {"crashed"}
          PROVE  pc'[v] \in Inside \cup {"crashed"}
      BY <1>4, <1>7, <3>2
    <3>3. QED  BY <1>3, <1>7, <1>12, <2>1, <3>1, <3>2 DEF Owned
  <2>3. CASE c = Call(w)
    <3>1. toolOf[c].kind = "messaging" => run0.digest # 0 /\ run0.digest = rows[c].digest
      BY <1>1, <1>3, <1>5, <1>6, <2>3 DEF WorkerOK, Tool
    <3>2. Recorded(c)'
      BY <1>3, <1>5, <1>9, <2>1, <2>3, <3>1 DEF Recorded
    <3>3. Alone(c)'
      <4>1. SUFFICES ASSUME c \notin reentered PROVE Alone(c)'
        BY <1>3 DEF Alone
      <4>2. runs[c] = {} /\ \A v \in Workers : Call(v) = c /\ pc[v] \in BeforeRun => v = w
        BY <1>3, <1>4, <2>1, <2>3, <4>1 DEF Alone
      <4>3. \A v \in Workers : Call(v)' = c => pc'[v] \notin BeforeRun
        BY <1>4, <1>7, <1>12, <4>2
      <4>4. runs'[c] = {run0}
        BY <1>9, <2>3, <4>2
      <4>5. QED  BY <4>3, <4>4 DEF Alone
    <3>4. QED  BY <2>2, <3>2, <3>3
  <2>4. CASE c # Call(w)
    <3>1. Recorded(c)'
      BY <1>3, <1>9, <2>1, <2>4 DEF Recorded
    <3>2. Alone(c)'
      BY <1>3, <1>4, <1>7, <1>9, <1>12, <2>1, <2>4 DEF Alone
    <3>3. QED  BY <2>2, <3>1, <3>2
  <2>5. QED  BY <2>3, <2>4
<1>15. QED  BY <1>7, <1>10, <1>11, <1>13, <1>14, StepKeeps

----------------------------------------------------------------------------
(* Getting a row *)

\* Nobody refers to a row that does not exist.
LEMMA Untouched ==
    ASSUME RegistryInvariant, NEW w \in Workers, pc[w] = "idle"
    PROVE  /\ rows[w] = NoRow /\ mem[w] = Held /\ runs[w] = {} /\ w \notin granted
           /\ \A v \in Workers : Call(v) # w
<1>1. WorkerOK(w) /\ Recorded(w)
  BY DEF RegistryInvariant
<1>2. rows[w] = NoRow /\ mem[w] = Held /\ runs[w] = {} /\ rows[w].status = "none"
  BY <1>1 DEF WorkerOK, NoRow
<1>3. \A v \in Workers : Call(v) # w
  BY <1>2, Apart DEF RegistryInvariant, WorkerOK, Row
<1>4. QED  BY <1>1, <1>2, <1>3 DEF Recorded

\* A worker begins its row and goes to the gates, or leaves it parked.
LEMMA FirstRowKeeps ==
    ASSUME RegistryInvariant, NEW w \in Workers, pc[w] = "idle", NEW row \in RowType,
           NEW label \in {"gates", "returned"}, NEW m \in MemType,
           label = "gates" => /\ row.status = "STARTED" /\ m.call = w
                              /\ m.seen = "STARTED" /\ m.digest = 0,
           label = "returned" => row.status = "REQUIRES_APPROVAL" /\ m.call = None,
           SetRow(w, row), Goto(w, label), mem' = [mem EXCEPT ![w] = m],
           toolOf' \in [Workers -> Tools \cup {None}],
           \A c \in Workers \ {w} : toolOf'[c] = toolOf[c], toolOf'[w] \in Tools,
           UNCHANGED <<now, bound, granted, runs, reentered, faults>>
    PROVE  RegistryInvariant'
<1>1. TablesTyped /\ Control
  BY DEF RegistryInvariant
<1>2. /\ rows[w] = NoRow /\ mem[w] = Held /\ runs[w] = {} /\ w \notin granted
      /\ \A v \in Workers : Call(v) # w
  BY Untouched
<1>3. label \in WorkerPcs /\ label \notin Inside /\ label \notin BeforeRun /\ "idle" \notin Inside
      /\ "idle" \notin BeforeRun
  BY DEF WorkerPcs, Stopped, Inside, BeforeRun
<1>4. Control' /\ pc'[w] = label /\ (\A v \in Workers \ {w} : pc'[v] = pc[v])
      /\ \A b \in Binders : pc'[b] = pc[b]
  BY <1>1, <1>3, GotoWorker
<1>5. mem'[w] = m /\ (\A v \in Workers \ {w} : mem'[v] = mem[v]) /\ mem' \in [Workers -> MemType]
  BY <1>1, Types
<1>6. /\ rows'[w] = row /\ (\A c \in Workers \ {w} : rows'[c] = rows[c])
      /\ rows' \in [Workers -> RowType]
  BY <1>1, Types DEF SetRow
<1>7. UNCHANGED <<runs, granted, reentered>>
  OBVIOUS
<1>8. TablesTyped'
  BY <1>1, <1>5, <1>6, <1>7, Types, TypesAfter DEF TablesTyped
<1>9. StepOf(w)
  <2>1. Forward(w)
    BY <1>2, <1>7, LedgerBegins DEF Forward, NoRow, Ran
  <2>2. \A c \in Workers \ {w} : Forward(c)
    BY <1>6, <1>7 DEF Forward
  <2>3. QED  BY <1>4, <1>5, <1>6, <1>7, <2>1, <2>2 DEF StepOf
<1>10. Call(w)' = m.call /\ \A v \in Workers \ {w} : Call(v)' = Call(v)
  BY <1>5 DEF Call
<1>11. WorkerOK(w)'
  <2>1. CASE label = "gates"
    <3>1. Row(w)' = row
      BY <1>6, <1>10, <2>1 DEF Row
    <3>2. QED  BY <1>3, <1>4, <1>5, <1>10, <2>1, <3>1 DEF WorkerOK
  <2>2. CASE label = "returned"
    BY <1>3, <1>4, <1>10, <2>2 DEF WorkerOK
  <2>3. QED  BY <2>1, <2>2
<1>12. ASSUME NEW c \in Workers PROVE (Owned(c) /\ Recorded(c) /\ Alone(c))'
  <2>1. Owned(c) /\ Recorded(c) /\ Alone(c)
    BY DEF RegistryInvariant
  <2>2. Alone(c)'
    BY <1>3, <1>4, <1>7, <1>10, <2>1 DEF Alone
  <2>3. CASE c = w
    <3>1. Owned(c)'
      BY <1>4, <1>6, <1>10, <2>3 DEF Owned
    <3>2. Recorded(c)'
      BY <1>2, <1>6, <1>7, <2>3 DEF Recorded
    <3>3. QED  BY <2>2, <3>1, <3>2
  <2>4. CASE c # w
    <3>1. Recorded(c)'
      BY <1>6, <1>7, <2>1, <2>4 DEF Recorded
    <3>2. Call(w) # c
      BY <1>2, Apart DEF Call, Held
    <3>3. Owned(c)'
      BY <1>4, <1>6, <1>10, <2>1, <2>4, <3>2 DEF Owned
    <3>4. QED  BY <2>2, <3>1, <3>3
  <2>5. QED  BY <2>3, <2>4
<1>13. QED  BY <1>4, <1>8, <1>9, <1>11, <1>12, StepKeeps

\* A fresh call.
LEMMA BeginKeeps ==
    ASSUME RegistryInvariant, NEW w \in Fresh, Begin(w)
    PROVE  RegistryInvariant'
<1> DEFINE m == [Held EXCEPT !.call = w, !.seen = "STARTED"]
           row == begin(now, Timeout)
<1>1. TablesTyped /\ w \in Workers /\ Recorded(w)
  BY Apart DEF RegistryInvariant
<1>2. row \in RowType /\ row.status = "STARTED"
  BY <1>1, Types, LedgerBegins DEF Restated
<1>3. m \in MemType /\ m.call = w /\ m.seen = "STARTED" /\ m.digest = 0
  BY <1>1 DEF Held, MemType, CallStatus
<1>4. toolOf' \in [Workers -> Tools \cup {None}] /\ toolOf' = toolOf /\ toolOf'[w] \in Tools
  BY <1>1, Types DEF Begin, Recorded
<1>5. /\ pc[w] = "idle" /\ SetRow(w, row) /\ Goto(w, "gates") /\ mem' = [mem EXCEPT ![w] = m]
      /\ UNCHANGED <<now, bound, granted, runs, reentered, faults>>
  BY DEF Begin, ghosts
<1> HIDE DEF m, row
<1>6. QED  BY <1>1, <1>2, <1>3, <1>4, <1>5, FirstRowKeeps

\* The grant for a static tool begins another row.
LEMMA BeginGrantedKeeps ==
    ASSUME RegistryInvariant, NEW w \in Resumers, BeginGranted(w)
    PROVE  RegistryInvariant'
<1> DEFINE m == [Held EXCEPT !.call = w, !.seen = "STARTED", !.granted = TRUE]
           row == begin(now, Timeout)
<1>1. TablesTyped /\ w \in Workers
  BY Apart DEF RegistryInvariant
<1>2. row \in RowType /\ row.status = "STARTED"
  BY <1>1, Types, LedgerBegins DEF Restated
<1>3. m \in MemType /\ m.call = w /\ m.seen = "STARTED" /\ m.digest = 0
  BY <1>1 DEF Held, MemType, CallStatus
<1>4. PICK c \in granted : toolOf' = [toolOf EXCEPT ![w] = toolOf[c]]
  BY DEF BeginGranted
<1>5. toolOf[c] \in Tools
  <2>1. c \in Workers
    BY <1>1, Types
  <2>2. Recorded(c)
    BY <2>1 DEF RegistryInvariant
  <2>3. QED  BY <2>2 DEF Recorded
<1>6. /\ toolOf' \in [Workers -> Tools \cup {None}] /\ toolOf'[w] \in Tools
      /\ \A d \in Workers \ {w} : toolOf'[d] = toolOf[d]
  BY <1>1, <1>4, <1>5, Types
<1>7. /\ pc[w] = "idle" /\ SetRow(w, row) /\ Goto(w, "gates") /\ mem' = [mem EXCEPT ![w] = m]
      /\ UNCHANGED <<now, bound, granted, runs, reentered, faults>>
  BY DEF BeginGranted
<1> HIDE DEF m, row
<1>8. QED  BY <1>1, <1>2, <1>3, <1>6, <1>7, FirstRowKeeps

\* The approval's owner stores the call.
LEMMA SubmitSubjectKeeps ==
    ASSUME RegistryInvariant, NEW w \in Fresh, SubmitSubject(w)
    PROVE  RegistryInvariant'
<1>1. TablesTyped /\ w \in Workers /\ Recorded(w)
  BY Apart DEF RegistryInvariant
<1>2. PICK s \in Snapshots :
           SetRow(w, park([begin(now, Timeout) EXCEPT
                              !.binding = IF toolOf[w].kind = "messaging" THEN s ELSE 0]))
  BY DEF SubmitSubject
<1> DEFINE started == [begin(now, Timeout) EXCEPT
                          !.binding = IF toolOf[w].kind = "messaging" THEN s ELSE 0]
<1>3. begin(now, Timeout) \in RowType
  BY <1>1, Types, LedgerBegins DEF Restated
<1>4. started \in RowType
  BY <1>3 DEF RowType
<1> DEFINE row == park(started)
<1>5. Restated(started, row, "REQUIRES_APPROVAL")
  BY <1>1, <1>4, LedgerRestates, Types
<1>6. row \in RowType /\ row.status = "REQUIRES_APPROVAL"
  BY <1>5 DEF Restated
<1>7. toolOf' \in [Workers -> Tools \cup {None}] /\ toolOf' = toolOf /\ toolOf'[w] \in Tools
  BY <1>1, Types DEF SubmitSubject, Recorded
<1>8. SetRow(w, row)
  BY <1>2
<1> HIDE DEF row, started
<1>9. /\ pc[w] = "idle" /\ Goto(w, "returned")
      /\ UNCHANGED <<now, bound, granted, runs, reentered, faults>> /\ mem' = mem
  BY DEF SubmitSubject, ghosts
<1>10. mem[w] \in MemType /\ mem' = [mem EXCEPT ![w] = mem[w]] /\ mem[w].call = None
  BY <1>1, <1>9, Types, Untouched DEF Held
<1>11. QED  BY <1>1, <1>6, <1>7, <1>8, <1>9, <1>10, FirstRowKeeps

\* The approved call itself is taken up, or refused.
LEMMA ResumeApprovedKeeps ==
    ASSUME RegistryInvariant, NEW w \in Resumers, ResumeApproved(w)
    PROVE  RegistryInvariant'
<1>1. TablesTyped /\ w \in Workers
  BY Apart DEF RegistryInvariant
<1>2. /\ rows[w] = NoRow /\ mem[w] = Held /\ runs[w] = {}
      /\ pc[w] = "idle" /\ mem[w] \in MemType /\ Call(w) = None
  BY <1>1, Untouched, Types DEF ResumeApproved, Call, Held
<1>3. /\ "thrown" \in WorkerPcs /\ "thrown" \notin Inside /\ "thrown" \notin BeforeRun
      /\ "gates" \in WorkerPcs /\ "gates" \notin Inside /\ "gates" \notin BeforeRun
      /\ "idle" \notin Inside /\ "idle" \notin BeforeRun
  BY DEF WorkerPcs, Stopped, Inside, BeforeRun
<1>4. UNCHANGED <<rows, toolOf, now, bound, granted, runs, faults>> /\ faults \in 0..MaxFaults
  BY <1>1 DEF ResumeApproved, TablesTyped
<1>5. CASE Goto(w, "thrown") /\ UNCHANGED <<mem, reentered>>
  <2>1. MovesTo(w, "thrown", mem[w])
    BY <1>1, <1>4, <1>5, Types DEF MovesTo
  <2>2. pc'[w] = "thrown" /\ mem'[w] = mem[w]
    BY <1>1, <1>2, <1>3, <2>1, MoveIsStep
  <2>3. WorkerOK(w)'
    BY <1>2, <1>3, <2>2 DEF WorkerOK, Call
  <2>4. mem[w].call = Call(w)
    BY DEF Call
  <2>5. QED  BY <1>1, <1>2, <1>3, <1>5, <2>1, <2>3, <2>4, MoveKeeps
<1>6. CASE ~(Goto(w, "thrown") /\ UNCHANGED <<mem, reentered>>)
  <2>1. PICK c \in granted :
            /\ resumeAllows(rows[c])
            /\ mem' = [mem EXCEPT ![w] = [Held EXCEPT !.call = c, !.seen = rows[c].status,
                                                      !.granted = TRUE]]
            /\ reentered' = IF rows[c].status = "RUNNING" THEN reentered \cup {c} ELSE reentered
            /\ Goto(w, "gates")
    BY <1>6 DEF ResumeApproved
  <2> DEFINE m == [Held EXCEPT !.call = c, !.seen = rows[c].status, !.granted = TRUE]
  <2>2. c \in Workers /\ rows[c].status \in {"REQUIRES_APPROVAL", "RUNNING"} /\ c # w
    BY <1>1, <1>2, <2>1, Types DEF resumeAllows, NoRow
  <2>3. m \in MemType /\ m.call = c /\ m.seen = rows[c].status /\ m.digest = 0
    BY <1>1, <2>2 DEF Held, MemType, CallStatus
  <2>4. reentered \subseteq reentered' /\ reentered' \subseteq Workers
        /\ (rows[c].status = "RUNNING" => c \in reentered')
    BY <1>1, <2>1, <2>2, Types
  <2>5. MovesTo(w, "gates", m)
    BY <1>4, <2>1, <2>4 DEF MovesTo
  <2> HIDE DEF m
  <2>6. TablesTyped' /\ Control' /\ StepOf(w) /\ pc'[w] = "gates" /\ mem'[w] = m
    BY <1>1, <1>3, <2>3, <2>5, MoveIsStep
  <2>7. Call(w)' = c /\ Row(w)' = rows[c]
    BY <1>4, <2>3, <2>6 DEF Call, Row
  <2>8. WorkerOK(w)'
    BY <1>3, <2>2, <2>3, <2>4, <2>6, <2>7 DEF WorkerOK, Ran
  <2>9. \A v \in Workers \ {w} : Call(v)' = Call(v) /\ pc'[v] = pc[v]
    BY <2>6 DEF StepOf, Call
  <2>10. ASSUME NEW d \in Workers PROVE (Owned(d) /\ Recorded(d) /\ Alone(d))'
    <3>1. Owned(d) /\ Recorded(d) /\ Alone(d)
      BY DEF RegistryInvariant
    <3>2. Recorded(d)'
      BY <1>4, <3>1 DEF Recorded
    <3>3. Alone(d)'
      BY <1>3, <1>4, <2>4, <2>6, <2>9, <3>1 DEF Alone
    <3>4. \A v \in Workers : Call(v) = d => v # w
      BY <1>1, <1>2, Apart
    <3>5. Owned(d)'
      BY <1>4, <2>9, <3>1, <3>4 DEF Owned
    <3>6. QED  BY <3>2, <3>3, <3>5
  <2>11. QED  BY <1>1, <2>6, <2>8, <2>10, StepKeeps
<1>7. QED  BY <1>5, <1>6

----------------------------------------------------------------------------
(* The binders and the environment *)

BoundType == [call : Workers \cup {None}, snapshot : Snapshots \cup {0}]

\* A binder moves; at most it gives a row a binding that had none.
LEMMA BinderKeeps ==
    ASSUME RegistryInvariant, NEW b \in Binders, NEW label \in BinderPcs, NEW m \in BoundType,
           Goto(b, label), bound' = [bound EXCEPT ![b] = m],
           UNCHANGED <<toolOf, now, mem, ghosts, faults>>,
           rows' \in [Workers -> RowType],
           \A c \in Workers :
               /\ rows'[c].status = rows[c].status /\ rows'[c].digest = rows[c].digest
               /\ rows[c].binding # 0 => rows'[c].binding = rows[c].binding
               /\ rows[c].status = "none" => rows'[c] = rows[c],
           BinderOK(b)'
    PROVE  RegistryInvariant'
<1>1. TablesTyped /\ Control
  BY DEF RegistryInvariant
<1>2. /\ \A w \in Workers : pc'[w] = pc[w]
      /\ \A a \in Binders \ {b} : pc'[a] = pc[a] /\ bound'[a] = bound[a]
      /\ bound' \in [Binders -> BoundType]
  BY <1>1, Apart DEF Control, Goto, TablesTyped, BoundType
<1>3. Control'
  <2>1. pc' \in [Workers \cup Binders -> WorkerPcs \cup BinderPcs] /\ pc'[b] = label
    BY <1>1 DEF Control, Goto
  <2>2. QED  BY <1>1, <1>2, <2>1 DEF Control
<1>4. TablesTyped'
  BY <1>1, <1>2 DEF TablesTyped, RowType, BoundType, ghosts
<1>5. UNCHANGED <<toolOf, mem, granted, runs, reentered>>
  BY DEF ghosts
<1>6. ASSUME NEW w \in Workers PROVE WorkerOK(w)'
  <2>1. WorkerOK(w)
    BY DEF RegistryInvariant
  <2>2. Call(w)' = Call(w) /\ (Call(w) # None => Call(w) \in Workers)
    BY <1>1, <1>5, Types DEF Call, MemType
  <2>3. Call(w) \in Workers => /\ Row(w)'.status = Row(w).status
                               /\ Row(w)'.digest = Row(w).digest
    BY <2>2 DEF Row
  <2>4. pc[w] = "idle" => rows'[w] = rows[w]
    BY <2>1 DEF WorkerOK, NoRow
  <2>5. pc[w] \in Inside \cup {"gates"} => Call(w) \in Workers
    BY <2>1 DEF WorkerOK
  <2>6. pc[w] = "running" => Call(w) \in Workers
    BY <2>5 DEF Inside, BeforeRun
  <2>7. QED  BY <1>2, <1>5, <2>1, <2>2, <2>3, <2>4, <2>5, <2>6 DEF WorkerOK
<1>7. ASSUME NEW c \in Workers PROVE Owned(c)' /\ Recorded(c)' /\ Alone(c)'
  <2>1. Owned(c) /\ Recorded(c) /\ Alone(c)
    BY DEF RegistryInvariant
  <2>2. \A v \in Workers : Call(v)' = Call(v)
    BY <1>5 DEF Call
  <2>3. Owned(c)'
    BY <1>2, <2>1, <2>2 DEF Owned
  <2>4. Recorded(c)'
    BY <1>5, <2>1 DEF Recorded
  <2>5. Alone(c)'
    BY <1>2, <1>5, <2>1, <2>2 DEF Alone
  <2>6. QED  BY <2>3, <2>4, <2>5
<1>8. ASSUME NEW a \in Binders PROVE BinderOK(a)'
  <2>1. CASE a = b
    BY <2>1
  <2>2. CASE a # b
    <3>1. BinderOK(a)
      BY DEF RegistryInvariant
    <3>2. QED  BY <1>2, <2>2, <3>1 DEF BinderOK
  <2>3. QED  BY <2>1, <2>2
<1>9. QED  BY <1>3, <1>4, <1>6, <1>7, <1>8 DEF RegistryInvariant

\* A binder reads a row.
LEMMA BindReadKeeps ==
    ASSUME RegistryInvariant, NEW b \in Binders, BindRead(b)
    PROVE  RegistryInvariant'
<1>1. TablesTyped /\ Control
  BY DEF RegistryInvariant
<1>2. PICK c \in Workers, s \in Snapshots :
           /\ bindReadable(rows[c])
           /\ bound' = [bound EXCEPT ![b] = [call |-> c, snapshot |-> s]]
           /\ Goto(b, CASE rows[c].binding = 0 -> "bind"
                        [] rows[c].binding = s -> "bound"
                        [] OTHER -> "refused")
  BY DEF BindRead
<1> DEFINE m == [call |-> c, snapshot |-> s]
<1>3. m \in BoundType /\ m.call = c /\ m.snapshot = s /\ s # 0
  BY RegistryAssumption DEF BoundType
<1>4. PICK label \in {"bind", "bound", "refused"} :
          Goto(b, label) /\ (label = "bound" => rows[c].binding = s)
  <2>1. CASE rows[c].binding = 0
    BY <1>2, <2>1
  <2>2. CASE rows[c].binding = s
    BY <1>2, <1>3, <2>2
  <2>3. CASE rows[c].binding # 0 /\ rows[c].binding # s
    BY <1>2, <2>3
  <2>4. QED  BY <2>1, <2>2, <2>3
<1>5. pc'[b] = label /\ bound'[b] = m /\ bound' = [bound EXCEPT ![b] = m]
  BY <1>1, <1>2, <1>4 DEF Control, Goto, TablesTyped
<1>6. UNCHANGED <<rows, toolOf, now, mem, ghosts, faults>> /\ rows' \in [Workers -> RowType]
  BY <1>1, Types DEF BindRead
<1>7. rows[c].status # "none"
  BY <1>2 DEF bindReadable
<1>8. BinderOK(b)'
  BY <1>3, <1>4, <1>5, <1>6, <1>7 DEF BinderOK
<1>9. label \in BinderPcs
  BY DEF BinderPcs
<1> HIDE DEF m
<1>10. QED  BY <1>3, <1>4, <1>5, <1>6, <1>8, <1>9, BinderKeeps

\* The UPDATE that binds an unbound row.
LEMMA BindWriteKeeps ==
    ASSUME RegistryInvariant, NEW b \in Binders, BindWrite(b)
    PROVE  RegistryInvariant'
<1> DEFINE c == bound[b].call
           row == IF bindAllows(rows[c]) THEN bind(rows[c], bound[b].snapshot) ELSE rows[c]
<1>1. TablesTyped /\ Control /\ BinderOK(b) /\ pc[b] = "bind"
  BY DEF RegistryInvariant, BindWrite
<1>2. c \in Workers /\ bound[b].snapshot # 0 /\ rows[c].status # "none" /\ rows[c] \in RowType
      /\ bound[b] \in BoundType /\ bound[b].snapshot \in Snapshots \cup {0}
  BY <1>1, Types DEF BinderOK, TablesTyped, BoundType
<1>3. /\ row \in RowType /\ row.status = rows[c].status /\ row.digest = rows[c].digest
      /\ rows[c].binding # 0 => row.binding = rows[c].binding
  BY <1>2 DEF RowType, bindAllows, bind
<1>4. SetRow(c, row) /\ Goto(b, "confirm") /\ UNCHANGED <<toolOf, now, mem, bound, ghosts, faults>>
  BY DEF BindWrite
<1> HIDE DEF row
<1>5. /\ rows' \in [Workers -> RowType] /\ rows'[c] = row
      /\ \A d \in Workers \ {c} : rows'[d] = rows[d]
  BY <1>1, <1>2, <1>3, <1>4, Types DEF SetRow
<1>6. pc'[b] = "confirm" /\ bound' = [bound EXCEPT ![b] = bound[b]]
  BY <1>1, <1>4 DEF Control, Goto, TablesTyped
<1>7. BinderOK(b)'
  BY <1>2, <1>3, <1>4, <1>5, <1>6 DEF BinderOK
<1>8. "confirm" \in BinderPcs
  BY DEF BinderPcs
<1>9. \A d \in Workers :
               /\ rows'[d].status = rows[d].status /\ rows'[d].digest = rows[d].digest
               /\ rows[d].binding # 0 => rows'[d].binding = rows[d].binding
               /\ rows[d].status = "none" => rows'[d] = rows[d]
  BY <1>2, <1>3, <1>5
<1>10. QED  BY <1>2, <1>4, <1>5, <1>6, <1>7, <1>8, <1>9, BinderKeeps

\* The binder compares what is there.
LEMMA BindConfirmKeeps ==
    ASSUME RegistryInvariant, NEW b \in Binders, BindConfirm(b)
    PROVE  RegistryInvariant'
<1> DEFINE label == IF rows[bound[b].call].binding = bound[b].snapshot THEN "bound" ELSE "refused"
<1>1. TablesTyped /\ Control /\ BinderOK(b) /\ pc[b] = "confirm"
  BY DEF RegistryInvariant, BindConfirm
<1>2. Goto(b, label) /\ UNCHANGED <<rows, toolOf, now, mem, bound, ghosts, faults>>
  BY DEF BindConfirm
<1>3. pc'[b] = label /\ bound' = [bound EXCEPT ![b] = bound[b]] /\ bound[b] \in BoundType
      /\ rows' \in [Workers -> RowType]
  BY <1>1, <1>2, Types DEF Control, Goto, TablesTyped, BoundType
<1>4. BinderOK(b)'
  BY <1>1, <1>2, <1>3 DEF BinderOK
<1>5. label \in BinderPcs
  BY DEF BinderPcs
<1>6. QED  BY <1>2, <1>3, <1>4, <1>5, BinderKeeps

\* A human approves.
LEMMA ApproveKeeps ==
    ASSUME RegistryInvariant, NEW c \in Workers, Approve(c)
    PROVE  RegistryInvariant'
<1>1. TablesTyped' /\ Control'
  BY DEF RegistryInvariant, TablesTyped, Control, Approve
<1>2. \A w \in Workers : WorkerOK(w)' /\ Owned(w)' /\ Alone(w)'
  BY DEF RegistryInvariant, WorkerOK, Owned, Alone, Approve, Call, Row
<1>3. \A d \in Workers : Recorded(d)'
  BY DEF RegistryInvariant, Recorded, Approve
<1>4. \A b \in Binders : BinderOK(b)'
  BY DEF RegistryInvariant, BinderOK, Approve
<1>5. QED  BY <1>1, <1>2, <1>3, <1>4 DEF RegistryInvariant

\* Steps that change neither the ledger nor a worker.
LEMMA IdleStepKeeps ==
    ASSUME RegistryInvariant, TablesTyped',
           UNCHANGED <<rows, toolOf, pc, mem, bound, granted, runs, reentered>>
    PROVE  RegistryInvariant'
<1>1. Control'
  BY DEF RegistryInvariant, Control
<1>2. \A w \in Workers : WorkerOK(w)' /\ Owned(w)' /\ Recorded(w)' /\ Alone(w)'
  BY DEF RegistryInvariant, WorkerOK, Owned, Recorded, Alone, Call, Row
<1>3. \A b \in Binders : BinderOK(b)'
  BY DEF RegistryInvariant, BinderOK
<1>4. QED  BY <1>1, <1>2, <1>3 DEF RegistryInvariant

\* Time passes.
LEMMA TickKeeps ==
    ASSUME RegistryInvariant, Tick
    PROVE  RegistryInvariant'
<1>1. now' \in 0..MaxTime
  BY RegistryAssumption DEF RegistryInvariant, TablesTyped, Tick
<1>2. TablesTyped'
  BY <1>1 DEF RegistryInvariant, TablesTyped, Tick, ghosts
<1>3. QED  BY <1>2, IdleStepKeeps DEF Tick, ghosts

----------------------------------------------------------------------------
(* The theorems *)

\* The invariant holds at the start.
LEMMA InitHolds ==
    ASSUME Init
    PROVE  RegistryInvariant
<1>1. TablesTyped
  <2>1. rows \in [Workers -> RowType]
    BY RegistryAssumption, LedgerBegins DEF Init
  <2>2. mem \in [Workers -> MemType]
    BY DEF Init, Held, MemType, CallStatus
  <2>3. PICK f \in [Fresh -> Tools] : toolOf = [w \in Workers |-> IF w \in Fresh THEN f[w] ELSE None]
    BY DEF Init
  <2>4. toolOf \in [Workers -> Tools \cup {None}]
    BY <2>3
  <2>5. bound \in [Binders -> BoundType]
    BY DEF Init, BoundType
  <2>6. runs \in [Workers -> SUBSET RunType] /\ granted \subseteq Workers /\ reentered \subseteq Workers
    BY DEF Init
  <2>7. now \in 0..MaxTime /\ faults \in 0..MaxFaults
    BY RegistryAssumption DEF Init
  <2>8. QED
    BY <2>1, <2>2, <2>4, <2>5, <2>6, <2>7 DEF TablesTyped, RowType, MemType, BoundType, RunType
<1>2. \A p \in Workers \cup Binders : pc[p] = "idle"
  BY DEF Init
<1>3. Control
  BY <1>2 DEF Control, Init, WorkerPcs, BinderPcs
<1>4. \A w \in Workers : rows[w] = NoRow /\ mem[w] = Held /\ runs[w] = {} /\ Call(w) = None
  BY DEF Init, Call, Held
<1>5. \A w \in Workers : WorkerOK(w)
  BY <1>2, <1>4 DEF WorkerOK, Inside, BeforeRun
<1>6. ASSUME NEW c \in Workers PROVE Owned(c) /\ Recorded(c) /\ Alone(c)
  <2>1. c \in Fresh => toolOf[c] \in Tools
    BY DEF Init
  <2>2. rows[c].status = "none" /\ runs[c] = {} /\ c \notin granted
    BY <1>4 DEF Init, NoRow
  <2>3. QED  BY <1>2, <2>1, <2>2 DEF Owned, Recorded, Alone, BeforeRun
<1>7. \A b \in Binders : BinderOK(b)
  BY <1>2 DEF BinderOK
<1>8. QED  BY <1>1, <1>3, <1>5, <1>6, <1>7 DEF RegistryInvariant

\* Every step keeps the invariant.
LEMMA NextKeeps ==
    ASSUME RegistryInvariant, [Next]_vars
    PROVE  RegistryInvariant'
<1>1. CASE \E w \in Fresh : SubmitSubject(w) \/ Begin(w)
  BY <1>1, SubmitSubjectKeeps, BeginKeeps
<1>2. CASE \E w \in Resumers : BeginGranted(w) \/ ResumeApproved(w)
  BY <1>2, BeginGrantedKeeps, ResumeApprovedKeeps
<1>3. ASSUME NEW w \in Workers, Gates(w) PROVE RegistryInvariant'
  BY <1>3, GatesKeep, InvalidInputKeeps, MarkRunningKeeps DEF Gates
<1>4. ASSUME NEW w \in Workers, Running(w) PROVE RegistryInvariant'
  BY <1>4, AllocateReadKeeps, AllocateWriteKeeps, AllocateConfirmKeeps, ExecuteKeeps,
     ToolThrowsKeeps, OutcomesKeep DEF Running
<1>5. CASE \E w \in Workers :
           \/ Unresolved(w) \/ Gates(w) \/ Heartbeat(w) \/ Running(w)
           \/ Approve(w) \/ Crash(w) \/ FinalizeFails(w)
  BY <1>3, <1>4, <1>5, UnresolvedKeeps, HeartbeatKeeps, ApproveKeeps, CrashKeeps,
     FinalizeFailsKeeps
<1>6. CASE \E b \in Binders : BindRead(b) \/ BindWrite(b) \/ BindConfirm(b)
  BY <1>6, BindReadKeeps, BindWriteKeeps, BindConfirmKeeps
<1>7. CASE Tick
  BY <1>7, TickKeeps
<1>8. CASE UNCHANGED vars
  <2>1. TablesTyped'
    BY <1>8 DEF RegistryInvariant, TablesTyped, vars
  <2>2. QED  BY <1>8, <2>1, IdleStepKeeps DEF vars
<1>9. QED  BY <1>1, <1>2, <1>5, <1>6, <1>7, <1>8 DEF Next

\* The invariant of the ledger and of the executeTool calls over it.
THEOREM RegistryInvariance == Spec => []RegistryInvariant
  BY InitHolds, NextKeeps, PTL DEF Spec

----------------------------------------------------------------------------
(* Grants *)

\* A worker at another's row resumes an approved call of a tool that keeps one.
Foreign(w) ==
    Call(w) \notin {None, w} => Call(w) \in granted /\ toolOf[Call(w)].kind # "static"

\* An approved call of a static tool stays where it was parked.
Parked(c) ==
    c \in granted /\ toolOf[c].kind = "static" => rows[c].status = "REQUIRES_APPROVAL"

\* A row begun under a grant is never approved itself.
UnderGrant(w) ==
    begunFor[w] # None =>
        /\ begunFor[w] \in granted /\ toolOf[begunFor[w]].kind = "static"
        /\ w \notin granted \cup reentered
        /\ pc[w] # "idle" /\ rows[w].status # "REQUIRES_APPROVAL"
        /\ pc[w] = "gates" => mem[w].granted

GrantInvariant ==
    /\ begunFor \in [Workers -> Workers \cup {None}]
    /\ reentered \subseteq granted
    /\ \A w \in Workers : Foreign(w) /\ Parked(w) /\ UnderGrant(w)

\* A step of a worker past the gates, or out of them: it may move its call's
\* row, and parks it only when nobody approved it.
GrantStep(w) ==
    /\ UNCHANGED <<toolOf, granted, reentered, begunFor>>
    /\ \A v \in Workers \ {w} : pc'[v] = pc[v] /\ mem'[v] = mem[v]
    /\ Call(w)' = Call(w) /\ pc'[w] \notin {"idle", "gates"}
    /\ \A c \in Workers :
           \/ rows'[c].status = rows[c].status
           \/ /\ c = Call(w) /\ pc[w] \in Inside \cup {"gates"}
              /\ rows'[c].status = "REQUIRES_APPROVAL" => pc[w] = "gates" /\ ~mem[w].granted

LEMMA GrantStepKeeps ==
    ASSUME RegistryInvariant, GrantInvariant, NEW w \in Workers, GrantStep(w)
    PROVE  GrantInvariant'
<1>1. ASSUME NEW v \in Workers PROVE Foreign(v)'
  <2>1. Foreign(v) /\ Call(v)' = Call(v)
    BY DEF GrantInvariant, GrantStep, Call
  <2>2. QED  BY <2>1 DEF Foreign, GrantStep
<1>2. ASSUME NEW c \in Workers PROVE Parked(c)'
  <2>1. SUFFICES ASSUME c \in granted, toolOf[c].kind = "static"
                 PROVE  rows'[c].status = "REQUIRES_APPROVAL"
    BY DEF Parked, GrantStep
  <2>2. rows[c].status = "REQUIRES_APPROVAL"
    BY <2>1 DEF Parked, GrantInvariant
  <2>3. ASSUME c = Call(w), pc[w] \in Inside \cup {"gates"} PROVE FALSE
    <3>1. WorkerOK(w) /\ Foreign(w) /\ Row(w) = rows[c] /\ c # None
      BY <2>3, Apart DEF RegistryInvariant, GrantInvariant, Row
    <3>2. c = w
      BY <2>1, <2>3, <3>1 DEF Foreign
    <3>3. QED  BY <2>2, <2>3, <3>1, <3>2 DEF WorkerOK, Ran
  <2>4. QED  BY <2>2, <2>3 DEF GrantStep
<1>3. ASSUME NEW v \in Workers PROVE UnderGrant(v)'
  <2>1. SUFFICES ASSUME begunFor[v] # None
                 PROVE  /\ pc'[v] # "idle" /\ rows'[v].status # "REQUIRES_APPROVAL"
                        /\ pc'[v] = "gates" => mem'[v].granted
    BY DEF UnderGrant, GrantInvariant, GrantStep
  <2>2. UnderGrant(v)
    BY DEF GrantInvariant
  <2>3. pc'[v] # "idle" /\ (pc'[v] = "gates" => mem'[v].granted)
    BY <2>1, <2>2 DEF UnderGrant, GrantStep
  <2>4. ASSUME v = Call(w), pc[w] = "gates", ~mem[w].granted PROVE FALSE
    <3>1. Foreign(w) /\ v # None
      BY Apart DEF GrantInvariant
    <3>2. v = w
      BY <2>1, <2>2, <2>4, <3>1 DEF Foreign, UnderGrant
    <3>3. QED  BY <2>1, <2>2, <2>4, <3>2 DEF UnderGrant
  <2>5. QED  BY <2>1, <2>2, <2>3, <2>4 DEF UnderGrant, GrantStep
<1>4. QED  BY <1>1, <1>2, <1>3 DEF GrantInvariant, GrantStep

\* A worker that takes a label and leaves every status as it is.
LEMMA SteadyGrants ==
    ASSUME RegistryInvariant, GrantInvariant, NEW w \in Workers, NEW label \in WorkerPcs,
           Goto(w, label), label \notin {"idle", "gates"},
           UNCHANGED <<toolOf, granted, reentered, begunFor>>, Call(w)' = Call(w),
           \A v \in Workers \ {w} : mem'[v] = mem[v],
           \A c \in Workers : rows'[c].status = rows[c].status
    PROVE  GrantInvariant'
<1>1. pc'[w] = label /\ \A v \in Workers \ {w} : pc'[v] = pc[v]
  BY GotoWorker DEF RegistryInvariant
<1>2. GrantStep(w)
  BY <1>1 DEF GrantStep
<1>3. QED  BY <1>2, GrantStepKeeps

\* A compare-and-set at the gates or after the tool.
LEMMA CasGrants ==
    ASSUME RegistryInvariant, GrantInvariant, NEW w \in Workers, NEW allowed \in BOOLEAN,
           NEW row, NEW label \in {"returned", "running"}, Cas(w, allowed, row, label),
           pc[w] \in Inside \cup {"gates"}, UNCHANGED <<toolOf, ghosts>>,
           row.status = "REQUIRES_APPROVAL" => pc[w] = "gates" /\ ~mem[w].granted
    PROVE  GrantInvariant'
<1>1. TablesTyped /\ Control
  BY DEF RegistryInvariant
<1> DEFINE there == IF allowed THEN label ELSE "thrown"
           m == IF allowed /\ label = "running" THEN mem[w] ELSE [Held EXCEPT !.call = Call(w)]
<1>2. Goto(w, there) /\ there \in WorkerPcs \ {"idle", "gates"}
  BY DEF Cas, WorkerPcs, Stopped, Inside, BeforeRun
<1>3. m.call = Call(w)
  BY DEF Held, Call
<1>4. mem' = [mem EXCEPT ![w] = m] /\ mem \in [Workers -> MemType]
  BY <1>1, Types DEF Cas
<1>5. Call(w)' = Call(w) /\ \A v \in Workers \ {w} : mem'[v] = mem[v]
  <2> HIDE DEF m
  <2>1. QED  BY <1>3, <1>4 DEF Call
<1>6. \A c \in Workers : rows'[c] = rows[c] \/ (c = Call(w) /\ rows'[c] = row)
  BY <1>1, Types DEF Cas, SetRow
<1>7. pc'[w] = there /\ \A v \in Workers \ {w} : pc'[v] = pc[v]
  BY <1>1, <1>2, GotoWorker
<1> HIDE DEF there, m
<1>8. GrantStep(w)
  BY <1>2, <1>5, <1>6, <1>7 DEF GrantStep, ghosts
<1>9. QED  BY <1>8, GrantStepKeeps

\* The statements of the gates, and of a call's outcome.
LEMMA OutGrants ==
    ASSUME RegistryInvariant, GrantInvariant, NEW w \in Workers,
           \/ Gates(w) /\ ~(mem[w].seen = "RUNNING" /\ MarkRunning(w))
           \/ Finalize(w) \/ Coordinate(w) \/ CatchFinalize(w)
    PROVE  GrantInvariant'
<1>1. WorkerOK(w) /\ TablesTyped
  BY DEF RegistryInvariant
<1>2. pc[w] \in Inside \cup {"gates"}
  BY DEF Gates, AtGates, NotAllowed, InvalidInput, PermissionDenied, Blocked, Escalate,
         BlockContextual, EscalateContextual, NotIsolated, MarkRunning, Finalize, Coordinate,
         CatchFinalize, Inside
<1>3. Row(w) \in RowType
  BY <1>1, <1>2, Types DEF WorkerOK, Row
<1>4. /\ \A status \in CallStatus : /\ transition(Row(w), status).status = status
                                    /\ finalize(Row(w), status).status = status
      /\ park(Row(w)).status = "REQUIRES_APPROVAL"
      /\ markRunning(Row(w), now, Timeout).status = "RUNNING"
  BY <1>1, <1>3, Types, LedgerRestates DEF Restated
<1>5. {"DENIED", "FAILED", "BLOCKED", "SUCCEEDED", "COMPLETION_UNKNOWN"} \subseteq CallStatus
  BY DEF CallStatus
<1>6. \A set : transitionAllows(Row(w), set) \in BOOLEAN /\ finalizeAllows(Row(w)) \in BOOLEAN
  BY DEF transitionAllows, finalizeAllows
<1>7. ASSUME NEW row, NEW allowed \in BOOLEAN, Cas(w, allowed, row, "returned"),
             row.status # "REQUIRES_APPROVAL", UNCHANGED <<toolOf, ghosts>>
      PROVE  GrantInvariant'
  BY <1>2, <1>7, CasGrants
<1>8. CASE NotAllowed(w) \/ InvalidInput(w) \/ PermissionDenied(w) \/ Blocked(w)
           \/ BlockContextual(w) \/ NotIsolated(w)
  <2>1. UNCHANGED <<toolOf, ghosts>>
    BY <1>8 DEF NotAllowed, InvalidInput, PermissionDenied, Blocked, BlockContextual, NotIsolated,
                AtGates
  <2>2. CASE NotAllowed(w)
    BY <1>4, <1>5, <1>6, <1>7, <2>1, <2>2 DEF NotAllowed
  <2>3. CASE InvalidInput(w)
    BY <1>4, <1>5, <1>6, <1>7, <2>1, <2>3 DEF InvalidInput
  <2>4. CASE PermissionDenied(w)
    BY <1>4, <1>5, <1>6, <1>7, <2>1, <2>4 DEF PermissionDenied
  <2>5. CASE Blocked(w)
    BY <1>4, <1>5, <1>6, <1>7, <2>1, <2>5 DEF Blocked
  <2>6. CASE BlockContextual(w)
    BY <1>4, <1>5, <1>6, <1>7, <2>1, <2>6 DEF BlockContextual
  <2>7. CASE NotIsolated(w)
    BY <1>4, <1>5, <1>6, <1>7, <2>1, <2>7 DEF NotIsolated
  <2>8. QED  BY <1>8, <2>2, <2>3, <2>4, <2>5, <2>6, <2>7
<1>9. CASE Escalate(w) \/ EscalateContextual(w)
  <2>1. PICK allowed \in BOOLEAN :
            Cas(w, allowed, park(Row(w)), "returned") /\ pc[w] = "gates" /\ ~mem[w].granted
            /\ UNCHANGED <<toolOf, ghosts>>
    BY <1>6, <1>9 DEF Escalate, EscalateContextual, AtGates
  <2>2. QED  BY <1>2, <2>1, CasGrants
<1>10. CASE MarkRunning(w) /\ mem[w].seen # "RUNNING"
  <2>1. PICK allowed \in BOOLEAN :
            Cas(w, allowed, markRunning(Row(w), now, Timeout), "running")
            /\ UNCHANGED <<toolOf, ghosts>>
    BY <1>6, <1>10 DEF MarkRunning, AtGates
  <2>2. QED  BY <1>2, <1>4, <2>1, CasGrants
<1>11. CASE Finalize(w) \/ Coordinate(w) \/ CatchFinalize(w)
  <2>1. UNCHANGED <<toolOf, ghosts>>
    BY <1>11 DEF Finalize, Coordinate, CatchFinalize
  <2>2. CASE Finalize(w)
    BY <1>4, <1>5, <1>6, <1>7, <2>1, <2>2 DEF Finalize
  <2>3. CASE Coordinate(w)
    <3>1. PICK status \in {"SUCCEEDED", "FAILED", "COMPLETION_UNKNOWN"} :
              Cas(w, finalizeAllows(Row(w)), finalize(Row(w), status), "returned")
      BY <2>3 DEF Coordinate
    <3>2. QED  BY <1>4, <1>5, <1>6, <1>7, <2>1, <3>1
  <2>4. CASE CatchFinalize(w)
    BY <1>4, <1>5, <1>6, <1>7, <2>1, <2>4 DEF CatchFinalize
  <2>5. QED  BY <1>11, <2>2, <2>3, <2>4
<1>12. QED  BY <1>8, <1>9, <1>10, <1>11 DEF Gates

\* Steps of a worker that leave the statuses alone.
LEMMA SteadyStepsGrant ==
    ASSUME RegistryInvariant, GrantInvariant, NEW w \in Workers,
           \/ Unresolved(w) \/ AllocateRead(w) \/ AllocateWrite(w) \/ AllocateConfirm(w)
           \/ Execute(w) \/ ToolThrows(w) \/ Crash(w) \/ FinalizeFails(w)
           \/ mem[w].seen = "RUNNING" /\ MarkRunning(w)
    PROVE  GrantInvariant'
<1>1. TablesTyped /\ WorkerOK(w) /\ mem \in [Workers -> MemType] /\ mem[w] \in MemType
  BY Types DEF RegistryInvariant
<1>2. PICK label \in {"returned", "refusedCall", "allocate", "running", "confirm", "finalize",
                      "catch", "crashed"} : Goto(w, label)
  BY DEF Unresolved, AllocateRead, AllocateWrite, AllocateConfirm, Execute, ToolThrows, Crash,
         FinalizeFails, MarkRunning
<1>3. label \in WorkerPcs /\ label \notin {"idle", "gates"}
  BY DEF WorkerPcs, Stopped, Inside, BeforeRun
<1>4. UNCHANGED <<toolOf, granted, reentered, begunFor>>
  BY DEF Unresolved, AllocateRead, AllocateWrite, AllocateConfirm, Execute, ToolThrows, Crash,
         FinalizeFails, MarkRunning, AtGates, ghosts
<1>5. \/ mem' = mem \/ \E d : mem' = [mem EXCEPT ![w].digest = d]
      \/ \E result : mem' = [mem EXCEPT ![w].result = result]
  BY DEF Unresolved, AllocateRead, AllocateWrite, AllocateConfirm, Execute, ToolThrows, Crash,
         FinalizeFails, MarkRunning, AtGates
<1>6. Call(w)' = Call(w) /\ \A v \in Workers \ {w} : mem'[v] = mem[v]
  BY <1>1, <1>5 DEF Call, MemType
<1>7. ASSUME NEW c \in Workers PROVE rows'[c].status = rows[c].status
  <2>1. CASE AllocateWrite(w)
    <3>1. rows[c] \in RowType
      BY <1>1, Types
    <3>2. rows' = [rows EXCEPT ![Call(w)] = IF allocateAllows(Row(w)) THEN allocate(Row(w), mem[w].digest)
                                            ELSE Row(w)]
      BY <2>1 DEF AllocateWrite, SetRow
    <3>3. CASE c = Call(w)
      <4>1. rows'[c] = IF allocateAllows(rows[c]) THEN allocate(rows[c], mem[w].digest) ELSE rows[c]
        BY <1>1, <3>2, <3>3, Types DEF Row
      <4>2. QED  BY <3>1, <4>1 DEF allocate, RowType
    <3>4. CASE c # Call(w)
      BY <1>1, <3>2, <3>4, Types
    <3>5. QED  BY <3>3, <3>4
  <2>2. CASE ~AllocateWrite(w)
    BY <2>2 DEF Unresolved, AllocateRead, AllocateConfirm, Execute, ToolThrows, Crash,
                FinalizeFails, MarkRunning, AtGates
  <2>3. QED  BY <2>1, <2>2
<1>8. QED  BY <1>2, <1>3, <1>4, <1>6, <1>7, SteadyGrants

\* Steps that leave the workers alone.
LEMMA StillGrants ==
    ASSUME GrantInvariant, UNCHANGED <<toolOf, pc, mem, granted, reentered, begunFor>>,
           \A c \in Workers : rows'[c].status = rows[c].status
    PROVE  GrantInvariant'
<1>1. \A w \in Workers : Foreign(w)' /\ UnderGrant(w)'
  BY DEF GrantInvariant, Foreign, UnderGrant, Call
<1>2. \A w \in Workers : Parked(w)'
  BY DEF GrantInvariant, Parked
<1>3. QED  BY <1>1, <1>2 DEF GrantInvariant

LEMMA HeartbeatGrants ==
    ASSUME RegistryInvariant, GrantInvariant, NEW w \in Workers, Heartbeat(w)
    PROVE  GrantInvariant'
<1>1. TablesTyped /\ WorkerOK(w)
  BY DEF RegistryInvariant
<1>2. Call(w) \in Workers /\ Row(w) \in RowType
  BY <1>1, Types DEF WorkerOK, Heartbeat, Inside, BeforeRun, Row
<1>3. heartbeat(Row(w), now).status = Row(w).status /\ rows \in [Workers -> RowType]
  BY <1>1, <1>2, Types, LedgerRestates DEF Restated
<1>4. rows' = [rows EXCEPT ![Call(w)] = heartbeat(Row(w), now)]
  BY DEF Heartbeat, SetRow
<1>5. \A c \in Workers : rows'[c].status = rows[c].status
  BY <1>2, <1>3, <1>4 DEF Row
<1>6. QED  BY <1>5, StillGrants DEF Heartbeat, ghosts

\* A binder changes only its own label, and the binding of a row.
LEMMA BinderGrants ==
    ASSUME RegistryInvariant, GrantInvariant, NEW b \in Binders,
           BindRead(b) \/ BindWrite(b) \/ BindConfirm(b)
    PROVE  GrantInvariant'
<1>1. TablesTyped /\ Control /\ BinderOK(b)
  BY DEF RegistryInvariant
<1>2. \A w \in Workers : pc'[w] = pc[w]
  BY <1>1, Apart DEF BindRead, BindWrite, BindConfirm, Goto, Control
<1>3. UNCHANGED <<toolOf, mem, granted, reentered, begunFor>>
  BY DEF BindRead, BindWrite, BindConfirm, ghosts
<1>4. ASSUME NEW c \in Workers PROVE rows'[c].status = rows[c].status
  <2>1. CASE BindWrite(b)
    <3>1. rows[c] \in RowType /\ rows \in [Workers -> RowType]
      BY <1>1, Types
    <3>2. rows'[c] = rows[c] \/ rows'[c] = bind(rows[c], bound[b].snapshot)
      BY <2>1, <3>1 DEF BindWrite, SetRow
    <3>3. QED  BY <3>1, <3>2 DEF bind, RowType
  <2>2. CASE ~BindWrite(b)
    BY <2>2 DEF BindRead, BindConfirm
  <2>3. QED  BY <2>1, <2>2
<1>5. \A w \in Workers : Foreign(w)' /\ UnderGrant(w)' /\ Parked(w)'
  BY <1>2, <1>3, <1>4 DEF GrantInvariant, Foreign, UnderGrant, Parked, Call
<1>6. QED  BY <1>3, <1>5 DEF GrantInvariant

\* A human approves a parked call.
LEMMA ApproveGrants ==
    ASSUME GrantInvariant, NEW c \in Workers, Approve(c)
    PROVE  GrantInvariant'
<1>1. UNCHANGED <<rows, toolOf, pc, mem, reentered, begunFor>> /\ granted' = granted \cup {c}
      /\ rows[c].status = "REQUIRES_APPROVAL"
  BY DEF Approve
<1>2. \A w \in Workers : Foreign(w)' /\ UnderGrant(w)' /\ Parked(w)'
  BY <1>1 DEF GrantInvariant, Foreign, UnderGrant, Parked, Call
<1>3. QED  BY <1>1, <1>2 DEF GrantInvariant

\* A worker that has a row of its own, begun or parked.
LEMMA FirstRowGrants ==
    ASSUME RegistryInvariant, GrantInvariant, NEW w \in Workers, pc[w] = "idle",
           NEW row, SetRow(w, row), NEW label \in {"gates", "returned"}, Goto(w, label),
           NEW m, mem' = [mem EXCEPT ![w] = m], m.call \in {None, w},
           UNCHANGED <<granted, reentered>>,
           begunFor' \in [Workers -> Workers \cup {None}],
           \A v \in Workers \ {w} : begunFor'[v] = begunFor[v] /\ toolOf'[v] = toolOf[v],
           \/ begunFor' = begunFor
           \/ /\ begunFor'[w] \in granted /\ toolOf[begunFor'[w]].kind = "static"
              /\ row.status # "REQUIRES_APPROVAL" /\ m.granted
    PROVE  GrantInvariant'
<1>1. TablesTyped /\ Control
  BY DEF RegistryInvariant
<1>2. /\ rows[w] = NoRow /\ w \notin granted
      /\ \A v \in Workers : Call(v) # w
  BY Untouched
<1>3. /\ pc'[w] = label /\ label # "idle" /\ \A v \in Workers \ {w} : pc'[v] = pc[v]
      /\ mem'[w] = m /\ \A v \in Workers \ {w} : mem'[v] = mem[v]
      /\ rows'[w] = row /\ \A c \in Workers \ {w} : rows'[c] = rows[c]
  BY <1>1, Types, GotoWorker DEF SetRow, WorkerPcs, Stopped
<1>4. w \notin reentered /\ granted \subseteq Workers
  BY <1>1, <1>2, Types DEF GrantInvariant
<1>5. ASSUME NEW v \in Workers PROVE Foreign(v)'
  <2>1. CASE v = w
    BY <1>3, <2>1 DEF Foreign, Call
  <2>2. CASE v # w
    <3>1. Foreign(v) /\ Call(v)' = Call(v) /\ Call(v) # w
      BY <1>2, <1>3, <2>2 DEF GrantInvariant, Call
    <3>2. QED  BY <1>4, <3>1 DEF Foreign
  <2>3. QED  BY <2>1, <2>2
<1>6. \A c \in Workers : Parked(c)'
  BY <1>2, <1>3 DEF GrantInvariant, Parked
<1>7. ASSUME NEW v \in Workers PROVE UnderGrant(v)'
  <2>1. CASE v = w
    <3>1. UnderGrant(w)
      BY DEF GrantInvariant
    <3>2. CASE begunFor' = begunFor
      BY <2>1, <3>1, <3>2 DEF UnderGrant
    <3>3. CASE begunFor' # begunFor
      BY <1>2, <1>3, <1>4, <2>1, <3>3 DEF UnderGrant
    <3>4. QED  BY <3>2, <3>3
  <2>2. CASE v # w
    <3>1. UnderGrant(v)
      BY DEF GrantInvariant
    <3>2. begunFor[v] # None => begunFor[v] \in Workers \ {w}
      BY <1>2, <1>4, <3>1 DEF UnderGrant
    <3>3. QED  BY <1>2, <1>3, <2>2, <3>1, <3>2 DEF UnderGrant
  <2>3. QED  BY <2>1, <2>2
<1>8. QED  BY <1>4, <1>5, <1>6, <1>7 DEF GrantInvariant

LEMMA FirstRowsGrant ==
    ASSUME RegistryInvariant, GrantInvariant,
           \/ \E w \in Fresh : SubmitSubject(w) \/ Begin(w)
           \/ \E w \in Resumers : BeginGranted(w)
    PROVE  GrantInvariant'
<1>1. TablesTyped /\ begunFor \in [Workers -> Workers \cup {None}]
  BY DEF RegistryInvariant, GrantInvariant
<1>2. ASSUME NEW w \in Fresh, Begin(w) PROVE GrantInvariant'
  <2> DEFINE m == [Held EXCEPT !.call = w, !.seen = "STARTED"]
             row == begin(now, Timeout)
  <2>1. w \in Workers /\ m.call = w /\ SetRow(w, row) /\ Goto(w, "gates") /\ pc[w] = "idle"
        /\ mem' = [mem EXCEPT ![w] = m] /\ UNCHANGED <<toolOf, ghosts>>
    BY <1>2, Apart DEF Begin, Held
  <2> HIDE DEF m, row
  <2>2. QED  BY <1>1, <2>1, FirstRowGrants DEF ghosts
<1>3. ASSUME NEW w \in Fresh, SubmitSubject(w) PROVE GrantInvariant'
  <2>1. w \in Workers /\ Goto(w, "returned") /\ pc[w] = "idle" /\ UNCHANGED <<toolOf, ghosts>>
    BY <1>3, Apart DEF SubmitSubject
  <2>2. PICK row : SetRow(w, row)
    BY <1>3 DEF SubmitSubject
  <2>3. mem' = [mem EXCEPT ![w] = mem[w]] /\ mem[w].call = None
    BY <1>1, <1>3, <2>1, Types, Untouched DEF SubmitSubject, Held
  <2>4. QED  BY <1>1, <2>1, <2>2, <2>3, FirstRowGrants DEF ghosts
<1>4. ASSUME NEW w \in Resumers, BeginGranted(w) PROVE GrantInvariant'
  <2> DEFINE m == [Held EXCEPT !.call = w, !.seen = "STARTED", !.granted = TRUE]
             row == begin(now, Timeout)
  <2>1. PICK c \in granted : /\ toolOf[c].kind = "static"
                             /\ toolOf' = [toolOf EXCEPT ![w] = toolOf[c]]
                             /\ begunFor' = [begunFor EXCEPT ![w] = c]
    BY <1>4 DEF BeginGranted
  <2>2. w \in Workers /\ c \in Workers
    BY <1>1, Apart, Types
  <2>3. m.call = w /\ m.granted /\ row.status # "REQUIRES_APPROVAL"
    BY <1>1, Types, LedgerBegins DEF Held, Restated
  <2>4. SetRow(w, row) /\ Goto(w, "gates") /\ pc[w] = "idle"
        /\ mem' = [mem EXCEPT ![w] = m] /\ UNCHANGED <<granted, reentered>>
    BY <1>4 DEF BeginGranted
  <2>5. /\ begunFor' \in [Workers -> Workers \cup {None}] /\ begunFor'[w] = c
        /\ \A v \in Workers \ {w} : begunFor'[v] = begunFor[v] /\ toolOf'[v] = toolOf[v]
    BY <1>1, <2>1, <2>2, Types
  <2>6. /\ begunFor'[w] \in granted /\ toolOf[begunFor'[w]].kind = "static"
        /\ row.status # "REQUIRES_APPROVAL" /\ m.granted
    BY <2>1, <2>3, <2>5
  <2> HIDE DEF m, row
  <2>7. QED  BY <2>2, <2>3, <2>4, <2>5, <2>6, FirstRowGrants
<1>5. QED  BY <1>2, <1>3, <1>4

\* The approved call is taken up, or refused.
LEMMA ResumeApprovedGrants ==
    ASSUME RegistryInvariant, GrantInvariant, NEW w \in Resumers, ResumeApproved(w)
    PROVE  GrantInvariant'
<1>1. TablesTyped /\ Control /\ w \in Workers
  BY Apart DEF RegistryInvariant
<1>2. UNCHANGED <<rows, toolOf, granted, begunFor>> /\ pc[w] = "idle"
  BY DEF ResumeApproved
<1> DEFINE m(c) == [Held EXCEPT !.call = c, !.seen = rows[c].status, !.granted = TRUE]
<1>3. PICK c \in granted :
           /\ toolOf[c].kind # "static"
           /\ \/ /\ mem' = [mem EXCEPT ![w] = m(c)] /\ Goto(w, "gates")
                 /\ reentered' = IF rows[c].status = "RUNNING" THEN reentered \cup {c} ELSE reentered
              \/ Goto(w, "thrown") /\ UNCHANGED <<mem, reentered>>
  BY DEF ResumeApproved
<1>4. pc'[w] \in {"gates", "thrown"} /\ \A v \in Workers \ {w} : pc'[v] = pc[v]
  BY <1>1, <1>3, GotoWorker DEF WorkerPcs, Stopped
<1>5. /\ \A v \in Workers \ {w} : mem'[v] = mem[v]
      /\ Call(w)' \in {c, None}
      /\ reentered' \subseteq reentered \cup {c}
  <2>1. m(c).call = c /\ mem[w].call = None
    BY <1>1, <1>2, Untouched DEF Held
  <2>2. mem \in [Workers -> MemType]
    BY <1>1, Types
  <2> HIDE DEF m
  <2>3. QED  BY <1>1, <1>3, <2>1, <2>2 DEF Call
<1> HIDE DEF m
<1>6. ASSUME NEW v \in Workers PROVE Foreign(v)'
  <2>1. CASE v = w
    BY <1>2, <1>3, <1>5, <2>1 DEF Foreign
  <2>2. CASE v # w
    BY <1>2, <1>5, <2>2 DEF GrantInvariant, Foreign, Call
  <2>3. QED  BY <2>1, <2>2
<1>7. \A d \in Workers : Parked(d)'
  BY <1>2 DEF GrantInvariant, Parked
<1>8. ASSUME NEW v \in Workers PROVE UnderGrant(v)'
  <2>1. UnderGrant(v)
    BY DEF GrantInvariant
  <2>2. begunFor[v] # None => v # w
    BY <1>2, <2>1 DEF UnderGrant
  <2>3. QED  BY <1>2, <1>3, <1>4, <1>5, <2>1, <2>2 DEF UnderGrant
<1>9. reentered' \subseteq granted'
  BY <1>2, <1>3 DEF GrantInvariant
<1>10. QED  BY <1>2, <1>6, <1>7, <1>8, <1>9 DEF GrantInvariant

\* The grants at the start, and after every step.
LEMMA GrantsInductive ==
    /\ Init => GrantInvariant
    /\ RegistryInvariant /\ GrantInvariant /\ [Next]_vars => GrantInvariant'
<1>1. ASSUME Init PROVE GrantInvariant
  <2>1. \A w \in Workers : begunFor[w] = None /\ Call(w) = None /\ w \notin granted
    BY <1>1 DEF Init, Call, Held
  <2>2. QED  BY <1>1, <2>1 DEF Init, GrantInvariant, Foreign, Parked, UnderGrant
<1>2. ASSUME RegistryInvariant, GrantInvariant, [Next]_vars PROVE GrantInvariant'
  <2>1. CASE \/ \E w \in Fresh : SubmitSubject(w) \/ Begin(w)
             \/ \E w \in Resumers : BeginGranted(w)
    BY <1>2, <2>1, FirstRowsGrant
  <2>2. CASE \E w \in Resumers : ResumeApproved(w)
    BY <1>2, <2>2, ResumeApprovedGrants
  <2>3. CASE \E w \in Workers : Gates(w) \/ Running(w)
    BY <1>2, <2>3, OutGrants, SteadyStepsGrant DEF Gates, Running
  <2>4. CASE \E w \in Workers : Unresolved(w) \/ Crash(w) \/ FinalizeFails(w)
    BY <1>2, <2>4, SteadyStepsGrant
  <2>5. CASE \E w \in Workers : Heartbeat(w) \/ Approve(w)
    BY <1>2, <2>5, HeartbeatGrants, ApproveGrants
  <2>6. CASE \E b \in Binders : BindRead(b) \/ BindWrite(b) \/ BindConfirm(b)
    BY <1>2, <2>6, BinderGrants
  <2>7. CASE Tick \/ UNCHANGED vars
    BY <1>2, <2>7, StillGrants DEF Tick, ghosts, vars
  <2>8. QED  BY <1>2, <2>1, <2>2, <2>3, <2>4, <2>5, <2>6, <2>7 DEF Next
<1>3. QED  BY <1>1, <1>2

LEMMA GrantInvariance == Spec => []GrantInvariant
  BY RegistryInvariance, GrantsInductive, PTL DEF Spec

\* Tables and memory keep their kinds.
THEOREM RegistryTypeCorrect == Spec => []TypeOK
<1>1. RegistryInvariant /\ GrantInvariant => TypeOK
  BY DEF RegistryInvariant, GrantInvariant, TypeOK
<1>2. QED  BY <1>1, RegistryInvariance, GrantInvariance, PTL

\* A call recorded as DENIED, BLOCKED or waiting never acted; one recorded as
\* SUCCEEDED did, and its tool said so.
THEOREM LedgerTellsEffect == Spec => []RecordTellsEffect
<1>1. RegistryInvariant => RecordTellsEffect
  BY DEF RegistryInvariant, Recorded, RecordTellsEffect, Ran
<1>2. QED  BY <1>1, RegistryInvariance, PTL

\* A row that no worker found RUNNING was executed at most once.
LEMMA RowRunsOnce ==
    ASSUME RegistryInvariant, NEW c \in Workers, c \notin reentered
    PROVE  \A r, s \in runs[c] : r = s
  BY DEF RegistryInvariant, Alone

\* However often an approval is delivered, what it approves is executed once,
\* counted over the approved row and every row begun under the grant, unless a
\* worker finds the call RUNNING or a static tool's grant begins a second row.
THEOREM GrantRunsOnce == Spec => []OneExecutionPerGrant
<1>1. RegistryInvariant /\ GrantInvariant => OneExecutionPerGrant
  <2>1. SUFFICES ASSUME RegistryInvariant, GrantInvariant, NEW c \in Workers, c \notin reentered,
                        \A v, w \in Begun(c) : v = w
                 PROVE  Cardinality(Executions(c)) <= 1
    BY DEF OneExecutionPerGrant
  <2>2. ASSUME NEW d \in Begun(c)
        PROVE  /\ d \in Workers /\ d \notin reentered
               /\ runs[c] = {}
    <3>1. d \in Workers /\ begunFor[d] = c /\ UnderGrant(d) /\ c # None
      BY <2>1, Apart DEF Begun, GrantInvariant
    <3>2. c \in granted /\ toolOf[c].kind = "static" /\ d \notin reentered
      BY <3>1 DEF UnderGrant
    <3>3. rows[c].status = "REQUIRES_APPROVAL"
      BY <2>1, <3>2 DEF GrantInvariant, Parked
    <3>4. runs[c] = {}
      BY <2>1, <3>3 DEF RegistryInvariant, Recorded, Ran
    <3>5. QED  BY <3>1, <3>2, <3>4
  <2>3. \A r, s \in Executions(c) : r = s
    <3>1. CASE Begun(c) = {}
      <4>1. Executions(c) = runs[c]
        BY <3>1 DEF Executions
      <4>2. QED  BY <2>1, <4>1, RowRunsOnce
    <3>2. CASE Begun(c) # {}
      <4>1. PICK d \in Begun(c) : Begun(c) = {d}
        BY <2>1, <3>2
      <4>2. Executions(c) = runs[d]
        BY <2>2, <4>1 DEF Executions
      <4>3. QED  BY <2>1, <2>2, <4>2, RowRunsOnce
    <3>3. QED  BY <3>1, <3>2
  <2>4. CASE Executions(c) = {}
    <3>1. Cardinality(Executions(c)) = 0
      BY <2>4, FS_EmptySet
    <3>2. QED  BY <3>1
  <2>5. CASE Executions(c) # {}
    <3>1. PICK r \in Executions(c) : Executions(c) = {r}
      BY <2>3, <2>5
    <3>2. Cardinality(Executions(c)) = 1
      BY <3>1, FS_Singleton
    <3>3. QED  BY <3>2
  <2>6. QED  BY <2>4, <2>5
<1>2. QED  BY <1>1, RegistryInvariance, GrantInvariance, PTL

\* A binder that was told its snapshot is bound, and a message sent under an
\* ordinal, agree with the record for ever.
THEOREM BindingsAgree == Spec => []FirstWriterWins
<1>1. RegistryInvariant => FirstWriterWins
  BY DEF RegistryInvariant, BinderOK, Recorded, FirstWriterWins
<1>2. QED  BY <1>1, RegistryInvariance, PTL

\* A call is left STARTED or RUNNING only by a worker that still works on it
\* or was cut off.
THEOREM OpenCallsOwned == Spec => []NoneLeftOpen
<1>1. RegistryInvariant => NoneLeftOpen
  <2>1. SUFFICES ASSUME RegistryInvariant, NEW c \in Workers,
                        \A w \in Workers : Call(w) = c => pc[w] \in {"returned", "thrown"}
                 PROVE  rows[c].status \notin {"STARTED", "RUNNING"}
    BY DEF NoneLeftOpen
  <2>2. Owned(c)
    BY <2>1 DEF RegistryInvariant
  <2>3. "returned" \notin Inside /\ "thrown" \notin Inside
    BY DEF Inside, BeforeRun
  <2>4. QED  BY <2>1, <2>2, <2>3 DEF Owned
<1>2. QED  BY <1>1, RegistryInvariance, PTL

=============================================================================
