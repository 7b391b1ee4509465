--------------------------- MODULE ToolCallLedger ---------------------------
(***************************************************************************)
(* ToolCallLifecycleService: what each of its statements does to one row   *)
(* of tool_call_records.  A statement is `<name>Allows`, the WHERE clause  *)
(* or the check of the row read before, and the row it leaves.  Digests,   *)
(* previews and lineage columns are left out; 0 stands for NULL.           *)
(***************************************************************************)
EXTENDS Naturals

CallStatus == {"STARTED", "REQUIRES_APPROVAL", "RUNNING", "SUCCEEDED", "FAILED", "DENIED",
               "BLOCKED", "COMPLETION_UNKNOWN"}
FinalStatus == {"SUCCEEDED", "FAILED", "DENIED", "BLOCKED", "COMPLETION_UNKNOWN"}

\* No row yet.
NoRow == [status |-> "none", lease |-> 0, beat |-> 0, binding |-> 0, digest |-> 0]

\* begin: a lease before any gate, so that a call that never gets further is seen.
begin(now, timeout) ==
    [NoRow EXCEPT !.status = "STARTED", !.lease = now + timeout, !.beat = now]

\* transition: compare-and-set on the status.
transitionAllows(row, expected) == row.status \in expected

transition(row, status) == [row EXCEPT !.status = status]

\* An escalated call waits without a lease.
park(row) == [row EXCEPT !.status = "REQUIRES_APPROVAL", !.lease = 0, !.beat = 0]

\* markRunning: the lease is the deadline of the execution.
markRunning(row, now, timeout) ==
    [row EXCEPT !.status = "RUNNING", !.lease = now + timeout, !.beat = now]

\* heartbeat: only before the deadline, which it never moves.
heartbeatAllows(row, now) == row.status = "RUNNING" /\ row.lease > now

heartbeat(row, now) == [row EXCEPT !.beat = now]

\* finalize: the outcome, from a call that was not parked.
finalizeAllows(row) == transitionAllows(row, {"STARTED", "RUNNING"})

finalize(row, status) == [row EXCEPT !.status = status, !.lease = 0]

\* bindStaticConnectorSnapshot: the row must be preparable when read, the
\* UPDATE takes an unbound row, and what is there afterwards must match.
bindReadable(row) == row.status = "STARTED"

bindAllows(row) == row.status = "STARTED" /\ row.binding = 0

bind(row, snapshot) == [row EXCEPT !.binding = snapshot]

\* allocateSubcallOrdinal: the first digest gets ordinal 1, a second none.
allocateReadable(row) == row.status = "RUNNING"

allocateAllows(row) == row.status = "RUNNING" /\ row.digest = 0

allocate(row, digest) == [row EXCEPT !.digest = digest]

\* resumeApproved, resumeApprovedStatic: a parked call, or one that runs already.
resumeAllows(row) == row.status \in {"REQUIRES_APPROVAL", "RUNNING"}

=============================================================================
