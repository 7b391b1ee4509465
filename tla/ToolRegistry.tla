---------------------------- MODULE ToolRegistry ----------------------------
(***************************************************************************)
(* The backend's ToolRegistryService.executeTool over the call ledger:     *)
(* every worker is one executeTool call, fresh or resuming an approved     *)
(* one.  Approvals are delivered at least once, so workers may resume the  *)
(* same call at the same time.  What a tool's policy, schema and           *)
(* permissions answer is free, and may differ between two attempts.        *)
(***************************************************************************)
EXTENDS ToolCallLedger, FiniteSets

CONSTANTS
    Fresh,      \* executeTool calls without a grant
    Resumers,   \* executeTool calls under a grant
    Binders,    \* calls of bindStaticConnectorSnapshot
    Tools,      \* [kind : {"static", "messaging", "dynamic"}, risk : 0..4]
    Snapshots,  \* connector binding snapshots, positive numbers
    Digests,    \* request digests, positive numbers
    Timeout,    \* timeoutMs, in clock ticks
    MaxTime,    \* bound on the clock
    MaxFaults,  \* bound on failing statements and workers cut off
    None

\* The row a worker begins bears its name.
Workers == Fresh \cup Resumers

ASSUME RegistryAssumption ==
    /\ Tools \subseteq [kind : {"static", "messaging", "dynamic"}, risk : 0..4]
    /\ Snapshots \subseteq Nat \ {0} /\ Digests \subseteq Nat \ {0}
    /\ Timeout \in Nat \ {0} /\ MaxTime \in Nat /\ MaxFaults \in Nat
    /\ Fresh \cap Resumers = {} /\ Workers \cap Binders = {}
    /\ None \notin Workers /\ None \notin Tools

VARIABLES
    rows,       \* tool_call_records
    toolOf,     \* the tool of a row
    now,
    pc,
    mem,        \* what a worker holds: [call, seen, granted, digest, result]
    bound,      \* what a binder holds: [call, snapshot]
    granted,    \* calls a human approved
    runs,       \* executions of a call, as [worker, result, digest]
    reentered,  \* calls some worker resumed when they were RUNNING already
    begunFor,   \* the static call whose grant a row was begun under, or None
    faults

vars == <<rows, toolOf, now, pc, mem, bound, granted, runs, reentered, begunFor, faults>>
ghosts == <<granted, runs, reentered, begunFor>>

Held == [call |-> None, seen |-> "none", granted |-> FALSE, digest |-> 0, result |-> "none"]

Init ==
    /\ rows = [w \in Workers |-> NoRow]
    /\ \E f \in [Fresh -> Tools] : toolOf = [w \in Workers |-> IF w \in Fresh THEN f[w] ELSE None]
    /\ now = 0
    /\ pc = [p \in Workers \cup Binders |-> "idle"]
    /\ mem = [w \in Workers |-> Held]
    /\ bound = [b \in Binders |-> [call |-> None, snapshot |-> 0]]
    /\ granted = {}
    /\ runs = [w \in Workers |-> {}]
    /\ reentered = {}
    /\ begunFor = [w \in Workers |-> None]
    /\ faults = 0

Goto(p, label) == pc' = [pc EXCEPT ![p] = label]
Call(w) == mem[w].call
Row(w) == rows[Call(w)]
Tool(w) == toolOf[Call(w)]
SetRow(c, row) == rows' = [rows EXCEPT ![c] = row]

\* A compare-and-set that meets another status throws out of executeTool.
Cas(w, allowed, row, label) ==
    /\ IF allowed THEN SetRow(Call(w), row) ELSE UNCHANGED rows
    /\ Goto(w, IF allowed THEN label ELSE "thrown")
    /\ mem' = [mem EXCEPT ![w] = IF allowed /\ label = "running" THEN @ ELSE [Held EXCEPT !.call = Call(w)]]

----------------------------------------------------------------------------
(* Getting a row *)

\* Unknown tool, or a descriptor, context or approval owner that does not fit.
Unresolved(w) ==
    /\ pc[w] = "idle"
    /\ Goto(w, "returned")
    /\ UNCHANGED <<rows, toolOf, now, mem, bound, ghosts, faults>>

\* An L3 call of a contextual or messaging tool: the approval's owner
\* stores the call together with the approval, and binds its connector.
SubmitSubject(w) ==
    /\ pc[w] = "idle"
    /\ toolOf[w].kind \in {"messaging", "dynamic"} /\ toolOf[w].risk = 3
    /\ \E s \in Snapshots :
           SetRow(w, park([begin(now, Timeout) EXCEPT
                              !.binding = IF toolOf[w].kind = "messaging" THEN s ELSE 0]))
    /\ Goto(w, "returned")
    /\ UNCHANGED <<toolOf, now, mem, bound, ghosts, faults>>

Begin(w) ==
    /\ pc[w] = "idle"
    /\ mem' = [mem EXCEPT ![w] = [Held EXCEPT !.call = w, !.seen = "STARTED"]]
    /\ SetRow(w, begin(now, Timeout))
    /\ Goto(w, "gates")
    /\ UNCHANGED <<toolOf, now, bound, ghosts, faults>>

\* The grant for a static tool's call names no call, so each delivery of it
\* begins another row: two of them execute the tool twice.
BeginGranted(w) ==
    /\ pc[w] = "idle"
    /\ \E c \in granted :
           /\ toolOf[c].kind = "static"
           /\ toolOf' = [toolOf EXCEPT ![w] = toolOf[c]]
           /\ begunFor' = [begunFor EXCEPT ![w] = c]
    /\ mem' = [mem EXCEPT ![w] = [Held EXCEPT !.call = w, !.seen = "STARTED", !.granted = TRUE]]
    /\ SetRow(w, begin(now, Timeout))
    /\ Goto(w, "gates")
    /\ UNCHANGED <<now, bound, granted, runs, reentered, faults>>

\* The approved call itself, wherever it is by now.
ResumeApproved(w) ==
    /\ pc[w] = "idle"
    /\ \E c \in granted :
           /\ toolOf[c].kind # "static"
           /\ IF resumeAllows(rows[c]) /\ (toolOf[c].kind = "messaging" => rows[c].binding # 0)
              THEN /\ mem' = [mem EXCEPT ![w] = [Held EXCEPT !.call = c, !.seen = rows[c].status,
                                                             !.granted = TRUE]]
                   /\ reentered' = IF rows[c].status = "RUNNING" THEN reentered \cup {c} ELSE reentered
                   /\ Goto(w, "gates")
              ELSE Goto(w, "thrown") /\ UNCHANGED <<mem, reentered>>
    /\ UNCHANGED <<rows, toolOf, now, bound, granted, runs, begunFor, faults>>

----------------------------------------------------------------------------
(* The gates, each with the statuses it may close *)

AtGates(w) == pc[w] = "gates" /\ UNCHANGED <<toolOf, now, bound, ghosts, faults>>

\* Mutant of openCallStatuses: a running call counts as open.
openCallStatusesWide(w) == {"STARTED", "REQUIRES_APPROVAL", "RUNNING"}

openCallStatuses(w) == IF mem[w].seen = "REQUIRES_APPROVAL" THEN {"REQUIRES_APPROVAL"} ELSE {"STARTED"}

NotAllowed(w) ==
    /\ AtGates(w)
    /\ Cas(w, transitionAllows(Row(w), openCallStatuses(w)), transition(Row(w), "DENIED"), "returned")

InvalidInput(w) ==
    /\ AtGates(w) /\ Tool(w).kind # "dynamic"
    /\ Cas(w, finalizeAllows(Row(w)), finalize(Row(w), "FAILED"), "returned")

PermissionDenied(w) ==
    /\ AtGates(w) /\ Tool(w).kind # "dynamic"
    /\ Cas(w, transitionAllows(Row(w), {"STARTED"}), transition(Row(w), "DENIED"), "returned")

Blocked(w) ==
    /\ AtGates(w) /\ Tool(w).kind # "dynamic" /\ Tool(w).risk = 4
    /\ Cas(w, transitionAllows(Row(w), {"STARTED"}), transition(Row(w), "BLOCKED"), "returned")

Escalate(w) ==
    /\ AtGates(w) /\ Tool(w).kind # "dynamic" /\ Tool(w).risk = 3 /\ ~mem[w].granted
    /\ Cas(w, transitionAllows(Row(w), {"STARTED"}), park(Row(w)), "returned")

\* executeContextualTool has gates of its own: L4, an L3 call that nobody
\* approved, and a provider without an isolated runtime.
BlockContextual(w) ==
    /\ AtGates(w) /\ Tool(w).kind = "dynamic" /\ Tool(w).risk = 4
    /\ Cas(w, transitionAllows(Row(w), openCallStatuses(w)), transition(Row(w), "BLOCKED"), "returned")

EscalateContextual(w) ==
    /\ AtGates(w) /\ Tool(w).kind = "dynamic" /\ Tool(w).risk = 3 /\ ~mem[w].granted
    /\ Cas(w, transitionAllows(Row(w), openCallStatuses(w)), park(Row(w)), "returned")

NotIsolated(w) ==
    /\ AtGates(w) /\ Tool(w).kind = "dynamic"
    /\ Tool(w).risk < 4 /\ (Tool(w).risk = 3 => mem[w].granted)
    /\ Cas(w, transitionAllows(Row(w), openCallStatuses(w)), transition(Row(w), "BLOCKED"), "returned")

\* Mutant of MarkRunning: the grant is all that is looked at.
MarkRunningAny(w) ==
    /\ AtGates(w) /\ Tool(w).risk < 4 /\ (Tool(w).risk = 3 => mem[w].granted)
    /\ Cas(w, resumeAllows(Row(w)) \/ Row(w).status = "STARTED", markRunning(Row(w), now, Timeout), "running")

\* A call that was RUNNING when it was read is not marked again.
MarkRunning(w) ==
    /\ AtGates(w) /\ Tool(w).risk < 4 /\ (Tool(w).risk = 3 => mem[w].granted)
    /\ IF mem[w].seen = "RUNNING"
       THEN Goto(w, "running") /\ UNCHANGED <<rows, mem>>
       ELSE Cas(w, transitionAllows(Row(w), {mem[w].seen}), markRunning(Row(w), now, Timeout), "running")

----------------------------------------------------------------------------
(* While the tool runs *)

Heartbeat(w) ==
    /\ pc[w] = "running"
    /\ heartbeatAllows(Row(w), now)
    /\ SetRow(Call(w), heartbeat(Row(w), now))
    /\ UNCHANGED <<toolOf, now, pc, mem, bound, ghosts, faults>>

\* A connector subcall reads the row first, and takes its ordinal if it is free.
AllocateRead(w) ==
    /\ pc[w] = "running" /\ Tool(w).kind = "messaging" /\ mem[w].digest = 0
    /\ \E d \in Digests :
           /\ mem' = [mem EXCEPT ![w].digest = d]
           /\ Goto(w, IF ~allocateReadable(Row(w)) \/ Row(w).digest \notin {0, d} THEN "refusedCall"
                      ELSE IF Row(w).digest = 0 THEN "allocate" ELSE "running")
    /\ UNCHANGED <<rows, toolOf, now, bound, ghosts, faults>>

\* Mutant of AllocateWrite: the UPDATE does not ask for a free ordinal.
AllocateOver(w) ==
    /\ pc[w] = "allocate"
    /\ SetRow(Call(w), allocate(Row(w), mem[w].digest))
    /\ Goto(w, "confirm")
    /\ UNCHANGED <<toolOf, now, mem, bound, ghosts, faults>>

AllocateWrite(w) ==
    /\ pc[w] = "allocate"
    /\ SetRow(Call(w), IF allocateAllows(Row(w)) THEN allocate(Row(w), mem[w].digest) ELSE Row(w))
    /\ Goto(w, "confirm")
    /\ UNCHANGED <<toolOf, now, mem, bound, ghosts, faults>>

AllocateConfirm(w) ==
    /\ pc[w] = "confirm"
    /\ Goto(w, IF Row(w).digest = mem[w].digest THEN "running" ELSE "refusedCall")
    /\ UNCHANGED <<rows, toolOf, now, mem, bound, ghosts, faults>>

\* The tool acts and answers; a messaging tool only under its ordinal.
Execute(w) ==
    /\ pc[w] = "running" /\ (Tool(w).kind = "messaging" => mem[w].digest # 0)
    /\ \E result \in {"ok", "bad"} :
           /\ mem' = [mem EXCEPT ![w].result = result]
           /\ runs' = [runs EXCEPT ![Call(w)] = @ \cup
                          {[worker |-> w, result |-> result, digest |-> mem[w].digest]}]
    /\ Goto(w, "finalize")
    /\ UNCHANGED <<rows, toolOf, now, bound, granted, reentered, begunFor, faults>>

\* The tool throws before it did anything, its refused subcall included.
ToolThrows(w) ==
    /\ pc[w] \in {"running", "refusedCall"}
    /\ Goto(w, "catch")
    /\ UNCHANGED <<rows, toolOf, now, mem, bound, ghosts, faults>>

\* In the try: a conflict lands in the catch, which meets the same conflict.
Finalize(w) ==
    /\ pc[w] = "finalize"
    /\ Cas(w, finalizeAllows(Row(w)),
           finalize(Row(w), IF mem[w].result = "ok" THEN "SUCCEEDED" ELSE "FAILED"), "returned")
    /\ UNCHANGED <<toolOf, now, bound, ghosts, faults>>

\* completionCoordinated: the contextual provider has closed the row itself.
Coordinate(w) ==
    /\ pc[w] = "finalize" /\ Tool(w).kind = "dynamic"
    /\ \E status \in {"SUCCEEDED", "FAILED", "COMPLETION_UNKNOWN"} :
           /\ status = "SUCCEEDED" => mem[w].result = "ok"
           /\ Cas(w, finalizeAllows(Row(w)), finalize(Row(w), status), "returned")
    /\ UNCHANGED <<toolOf, now, bound, ghosts, faults>>

\* Mutant of CatchFinalize: the error is returned and nothing recorded.
CatchReturns(w) ==
    /\ pc[w] = "catch"
    /\ Goto(w, "returned")
    /\ UNCHANGED <<rows, toolOf, now, mem, bound, ghosts, faults>>

CatchFinalize(w) ==
    /\ pc[w] = "catch"
    /\ Cas(w, finalizeAllows(Row(w)), finalize(Row(w), "FAILED"), "returned")
    /\ UNCHANGED <<toolOf, now, bound, ghosts, faults>>

----------------------------------------------------------------------------
(* bindStaticConnectorSnapshot, called while an approval is prepared *)

BindRead(b) ==
    /\ pc[b] = "idle"
    /\ \E c \in Workers, s \in Snapshots :
           /\ bindReadable(rows[c]) /\ toolOf[c].kind # "dynamic"
           /\ bound' = [bound EXCEPT ![b] = [call |-> c, snapshot |-> s]]
           /\ Goto(b, CASE rows[c].binding = 0 -> "bind"
                        [] rows[c].binding = s -> "bound"
                        [] OTHER -> "refused")
    /\ UNCHANGED <<rows, toolOf, now, mem, ghosts, faults>>

BindWrite(b) ==
    /\ pc[b] = "bind"
    /\ LET row == rows[bound[b].call]
       IN SetRow(bound[b].call, IF bindAllows(row) THEN bind(row, bound[b].snapshot) ELSE row)
    /\ Goto(b, "confirm")
    /\ UNCHANGED <<toolOf, now, mem, bound, ghosts, faults>>

BindConfirm(b) ==
    /\ pc[b] = "confirm"
    /\ Goto(b, IF rows[bound[b].call].binding = bound[b].snapshot THEN "bound" ELSE "refused")
    /\ UNCHANGED <<rows, toolOf, now, mem, bound, ghosts, faults>>

----------------------------------------------------------------------------
(* The environment *)

Approve(c) ==
    /\ rows[c].status = "REQUIRES_APPROVAL" /\ c \notin granted
    /\ granted' = granted \cup {c}
    /\ UNCHANGED <<rows, toolOf, now, pc, mem, bound, runs, reentered, begunFor, faults>>

Tick ==
    /\ now < MaxTime
    /\ now' = now + 1
    /\ UNCHANGED <<rows, toolOf, pc, mem, bound, ghosts, faults>>

Stopped == {"returned", "thrown", "crashed"}

\* The worker is cut off, or a statement outside its try throws.
Crash(w) ==
    /\ pc[w] \notin Stopped \cup {"idle"} /\ faults < MaxFaults
    /\ faults' = faults + 1
    /\ Goto(w, "crashed")
    /\ UNCHANGED <<rows, toolOf, now, mem, bound, ghosts>>

\* The UPDATE of finalize fails inside the try.
FinalizeFails(w) ==
    /\ pc[w] = "finalize" /\ faults < MaxFaults
    /\ faults' = faults + 1
    /\ Goto(w, "catch")
    /\ UNCHANGED <<rows, toolOf, now, mem, bound, ghosts>>

Gates(w) ==
    \/ NotAllowed(w) \/ InvalidInput(w) \/ PermissionDenied(w) \/ Blocked(w) \/ Escalate(w)
    \/ BlockContextual(w) \/ EscalateContextual(w) \/ NotIsolated(w) \/ MarkRunning(w)

Running(w) ==
    \/ AllocateRead(w) \/ AllocateWrite(w) \/ AllocateConfirm(w) \/ Execute(w)
    \/ ToolThrows(w) \/ Finalize(w) \/ Coordinate(w) \/ CatchFinalize(w)

Next ==
    \/ \E w \in Fresh : SubmitSubject(w) \/ Begin(w)
    \/ \E w \in Resumers : BeginGranted(w) \/ ResumeApproved(w)
    \/ \E w \in Workers :
           \/ Unresolved(w) \/ Gates(w) \/ Heartbeat(w) \/ Running(w)
           \/ Approve(w) \/ Crash(w) \/ FinalizeFails(w)
    \/ \E b \in Binders : BindRead(b) \/ BindWrite(b) \/ BindConfirm(b)
    \/ Tick

Spec == Init /\ [][Next]_vars

----------------------------------------------------------------------------
(* Properties *)

\* The tables, and what workers and binders hold.
TablesTyped ==
    /\ rows \in [Workers -> [status : CallStatus \cup {"none"}, lease : Nat, beat : Nat,
                             binding : Snapshots \cup {0}, digest : Digests \cup {0}]]
    /\ toolOf \in [Workers -> Tools \cup {None}]
    /\ now \in 0..MaxTime
    /\ mem \in [Workers -> [call : Workers \cup {None}, seen : CallStatus \cup {"none"},
                            granted : BOOLEAN, digest : Digests \cup {0}, result : {"none", "ok", "bad"}]]
    /\ bound \in [Binders -> [call : Workers \cup {None}, snapshot : Snapshots \cup {0}]]
    /\ granted \subseteq Workers /\ reentered \subseteq Workers
    /\ runs \in [Workers -> SUBSET [worker : Workers, result : {"ok", "bad"}, digest : Digests \cup {0}]]
    /\ faults \in 0..MaxFaults

\* Tables and memory hold values of their kind.
TypeOK == TablesTyped /\ begunFor \in [Workers -> Workers \cup {None}]

\* The record does not lie about the effect: a refused or waiting call never
\* acted, a succeeded one did and said so.
RecordTellsEffect ==
    \A c \in Workers :
        /\ rows[c].status \in {"DENIED", "BLOCKED", "REQUIRES_APPROVAL"} => runs[c] = {}
        /\ rows[c].status = "SUCCEEDED" => \E run \in runs[c] : run.result = "ok"

\* What an approval of a call brought about: executions of its row, and of
\* the rows begun under its grant.
Begun(c) == {w \in Workers : begunFor[w] = c}
Executions(c) == UNION {runs[d] : d \in Begun(c) \cup {c}}

\* A grant is delivered at least once; what it approves is executed at most
\* once, except in two ways the code leaves open: a worker finds the call
\* RUNNING and takes it for its own, or a static tool's grant, which names no
\* call, begins a row for each delivery.
OneExecutionPerGrant ==
    \A c \in Workers :
        c \notin reentered /\ (\A v, w \in Begun(c) : v = w) => Cardinality(Executions(c)) <= 1

\* "First writer wins": whoever was told that its snapshot is bound, or sent
\* under an ordinal, agrees for ever with the record.
FirstWriterWins ==
    /\ \A b \in Binders : pc[b] = "bound" => rows[bound[b].call].binding = bound[b].snapshot
    /\ \A c \in Workers : \A run \in runs[c] :
           toolOf[c].kind = "messaging" => run.digest = rows[c].digest

\* When all workers of a call have returned, or thrown at a compare-and-set
\* that refused them, it is not left open.  A worker that was cut off leaves
\* it so, and nothing in the backend picks it up; so does one that a failing
\* prepareApproval or schema compilation throws out, which is a Crash here.
NoneLeftOpen ==
    \A c \in Workers :
        (\A w \in Workers : Call(w) = c => pc[w] \in {"returned", "thrown"})
            => rows[c].status \notin {"STARTED", "RUNNING"}

=============================================================================
