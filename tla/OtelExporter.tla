---------------------------- MODULE OtelExporter ----------------------------
(***************************************************************************)
(* Audit export: terminal outbox events, written by enqueueInTransaction,  *)
(* and OtelAuditExporter.tick, which an interval timer fires every two     *)
(* seconds whether or not the previous tick has ended.                     *)
(*                                                                         *)
(* createdAt is taken from the clock, in milliseconds, before the insert;  *)
(* the row becomes visible when its transaction commits.  The cursor is    *)
(* in memory: a restart forgets it.                                        *)
(***************************************************************************)
EXTENDS Naturals, Sequences, FiniteSets, Functions

CONSTANTS
    Events,         \* terminal events (completed or failed executions)
    Ticks,          \* ticks that may be in flight at once
    BatchSize,      \* take: 20
    MaxTime         \* bound on the clock

ASSUME ExporterAssumption ==
    /\ BatchSize \in Nat \ {0}
    /\ MaxTime \in Nat \ {0}

VARIABLES
    now,
    createdAt,  \* per event; 0 before it is enqueued
    committed,  \* events a query can see
    disordered, \* writers have overlapped or shared a millisecond
    cursor,     \* createdAt of the last exported event; 0 when undefined
    exported,   \* events the collector accepted at least once
    pc, batch   \* per tick: fresh events still to be sent, and all of them

writers == <<now, createdAt, committed, disordered>>
exporter == <<cursor, exported, pc, batch>>
vars == <<now, createdAt, committed, disordered, cursor, exported, pc, batch>>

NoBatch == [todo |-> <<>>, last |-> 0]

Init ==
    /\ now = 1
    /\ createdAt = [e \in Events |-> 0]
    /\ committed = {}
    /\ disordered = FALSE
    /\ cursor = 0
    /\ exported = {}
    /\ pc = [t \in Ticks |-> "idle"]
    /\ batch = [t \in Ticks |-> NoBatch]

----------------------------------------------------------------------------
(* OutboxService *)

Enqueued == {e \in Events : createdAt[e] > 0}

Advance ==
    /\ now < MaxTime
    /\ now' = now + 1
    /\ UNCHANGED <<createdAt, committed, disordered, exporter>>

enqueueInTransaction(e) ==
    /\ createdAt[e] = 0
    /\ createdAt' = [createdAt EXCEPT ![e] = now]
    /\ disordered' = (disordered \/ Enqueued # committed \/ \E f \in Enqueued : createdAt[f] = now)
    /\ UNCHANGED <<now, committed, exporter>>

Commit(e) ==
    /\ createdAt[e] > 0
    /\ e \notin committed
    /\ committed' = committed \cup {e}
    /\ UNCHANGED <<now, createdAt, disordered, exporter>>

----------------------------------------------------------------------------
(* OtelAuditExporter.tick *)

\* ORDER BY createdAt ASC: the order of equal timestamps is up to the database.
Listings ==
    {list \in Bijection(1..Cardinality(committed), committed) :
        \A i, j \in DOMAIN list : i < j => createdAt[list[i]] <= createdAt[list[j]]}

\* take: BatchSize, applied before the filter.
Taken(list) == IF Len(list) < BatchSize THEN Len(list) ELSE BatchSize

Fresh(e) == cursor = 0 \/ createdAt[e] > cursor

\* The fresh rows of the batch: in createdAt order they are its last ones.
FreshAfter(list, read) ==
    /\ read < Taken(list)
    /\ \A n \in 1..Taken(list) : Fresh(list[n]) <=> n > read

Batch(list, read) ==
    [todo |-> SubSeq(list, read + 1, Taken(list)), last |-> createdAt[list[Taken(list)]]]

\* Mutant of TickRead: the cursor moves when the batch is read.
TickReadAhead(t) ==
    /\ pc[t] = "idle"
    /\ \E list \in Listings, read \in 0..BatchSize :
           /\ FreshAfter(list, read)
           /\ batch' = [batch EXCEPT ![t] = Batch(list, read)]
           /\ cursor' = Batch(list, read).last
    /\ pc' = [pc EXCEPT ![t] = "sending"]
    /\ UNCHANGED <<writers, exported>>

\* A tick that finds nothing fresh returns at once.
TickRead(t) ==
    /\ pc[t] = "idle"
    /\ \E list \in Listings, read \in 0..BatchSize :
           FreshAfter(list, read) /\ batch' = [batch EXCEPT ![t] = Batch(list, read)]
    /\ pc' = [pc EXCEPT ![t] = "sending"]
    /\ UNCHANGED <<writers, cursor, exported>>

\* The collector accepts one trace; after the last one the cursor moves.
TickExport(t) ==
    /\ pc[t] = "sending"
    /\ exported' = exported \cup {Head(batch[t].todo)}
    /\ IF Len(batch[t].todo) = 1
       THEN /\ cursor' = batch[t].last
            /\ pc' = [pc EXCEPT ![t] = "idle"]
            /\ batch' = [batch EXCEPT ![t] = NoBatch]
       ELSE /\ batch' = [batch EXCEPT ![t].todo = Tail(@)]
            /\ UNCHANGED <<cursor, pc>>
    /\ UNCHANGED writers

\* Mutant of TickRefused: a refused trace is skipped.
TickRefusedSkips(t) ==
    /\ pc[t] = "sending"
    /\ IF Len(batch[t].todo) = 1
       THEN /\ cursor' = batch[t].last
            /\ pc' = [pc EXCEPT ![t] = "idle"]
            /\ batch' = [batch EXCEPT ![t] = NoBatch]
       ELSE /\ batch' = [batch EXCEPT ![t].todo = Tail(@)]
            /\ UNCHANGED <<cursor, pc>>
    /\ UNCHANGED <<writers, exported>>

\* The collector answers with an error: the tick gives up, the cursor stays.
TickRefused(t) ==
    /\ pc[t] = "sending"
    /\ pc' = [pc EXCEPT ![t] = "idle"]
    /\ batch' = [batch EXCEPT ![t] = NoBatch]
    /\ UNCHANGED <<writers, cursor, exported>>

\* fetch itself rejects, or the sidecar is restarted: tick has no handler,
\* so the rejection ends the process and the cursor with it.
Restart ==
    /\ cursor' = 0
    /\ pc' = [t \in Ticks |-> "idle"]
    /\ batch' = [t \in Ticks |-> NoBatch]
    /\ UNCHANGED <<writers, exported>>

Next ==
    \/ Advance
    \/ \E e \in Events : enqueueInTransaction(e) \/ Commit(e)
    \/ \E t \in Ticks : TickRead(t) \/ TickExport(t) \/ TickRefused(t)
    \/ Restart

Spec == Init /\ [][Next]_vars

\* Transactions commit and the timer fires; from some time on the collector
\* accepts what it is sent and the process stays up.
FairSpec ==
    /\ Spec
    /\ \A e \in Events : WF_vars(Commit(e))
    /\ \A t \in Ticks : WF_vars(TickRead(t)) /\ WF_vars(TickExport(t))
    /\ <>[][~Restart /\ \A t \in Ticks : ~TickRefused(t)]_vars

----------------------------------------------------------------------------
(* Properties *)

\* Clock, timestamps, cursor and batches hold values of their kind.
TypeOK ==
    /\ now \in 1..MaxTime
    /\ createdAt \in [Events -> 0..MaxTime]
    /\ committed \subseteq Events
    /\ disordered \in BOOLEAN
    /\ cursor \in 0..MaxTime
    /\ exported \subseteq Events
    /\ pc \in [Ticks -> {"idle", "sending"}]
    /\ batch \in [Ticks -> [todo : Seq(Events), last : 0..MaxTime]]

\* What the cursor has passed has been exported, although ticks overlap,
\* fail half-way and may move the cursor backwards: so skipping everything up
\* to the cursor drops no audit record, as long as events become visible in
\* the order of their timestamps.
CursorSound ==
    ~disordered => \A e \in committed : createdAt[e] <= cursor => e \in exported

\* Then every committed event is exported, as long as they all fit into one
\* batch.
ExportedWhileOrdered ==
    \A e \in Events :
        e \in committed ~> \/ e \in exported
                           \/ disordered
                           \/ Cardinality(committed) > BatchSize

=============================================================================
