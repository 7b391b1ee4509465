---------------------------- MODULE TimerProofs ----------------------------
(***************************************************************************)
(* TLAPS proofs about the two jobs that timers start, whether or not the   *)
(* last one has ended.  OtelExporter: for any number of events and of      *)
(* ticks in flight, and every batch size, the cursor passes no unexported  *)
(* event as long as events become visible in the order of their            *)
(* timestamps.  Playground: for any number of sessions and addresses and   *)
(* all limits, the limits hold, and a tick of the reaper and the sweep of  *)
(* a new process, together or apart, delete all of a workspace but a role  *)
(* whose user was cut off, and what requests write to it meanwhile.        *)
(***************************************************************************)
EXTENDS OtelExporter, Playground, SequenceTheorems, FiniteSetTheorems, WellFoundedInduction, TLAPS

----------------------------------------------------------------------------
(* The exporter: the invariant *)

InTodo(t, e) == \E n \in DOMAIN batch[t].todo : batch[t].todo[n] = e

\* Timestamps are in the past, and only enqueued events are committed.
Stamped ==
    /\ IsFiniteSet(committed)
    /\ \A e \in Events : createdAt[e] <= now
    /\ committed \subseteq Enqueued

\* The cursor and the ends of the batches in flight are timestamps of
\* committed events, and a batch in flight is not empty.
Positions ==
    /\ cursor = 0 \/ \E e \in committed : createdAt[e] = cursor
    /\ \A t \in Ticks : pc[t] = "sending" =>
           /\ batch[t].todo # <<>>
           /\ \E e \in committed : createdAt[e] = batch[t].last

\* Writers that neither overlap nor share a millisecond: timestamps differ,
\* and the one event still to be committed is the latest.
Ordered ==
    /\ \A e, f \in Enqueued : createdAt[e] = createdAt[f] => e = f
    /\ \A e \in committed, f \in Enqueued \ committed : createdAt[e] < createdAt[f]
    /\ \A e, f \in Enqueued \ committed : e = f

\* What a tick has still to send covers what its batch will pass.
Covered(t) ==
    pc[t] = "sending" =>
        \A e \in committed : createdAt[e] <= batch[t].last => e \in exported \/ InTodo(t, e)

ExportInvariant ==
    /\ TypeOK
    /\ Stamped
    /\ Positions
    /\ ~disordered => Ordered /\ \A t \in Ticks : Covered(t)
    /\ CursorSound

----------------------------------------------------------------------------
(* The exporter: the parts are kept by the steps that leave their variables alone *)

\* Time and timestamps are numbers.
LEMMA Numbers ==
    ASSUME TypeOK
    PROVE  /\ now \in Nat /\ cursor \in Nat /\ MaxTime \in Nat /\ BatchSize \in Nat
           /\ \A e \in Events : createdAt[e] \in Nat
           /\ \A t \in Ticks : batch[t].last \in Nat /\ batch[t].todo \in Seq(Events)
  BY ExporterAssumption DEF TypeOK

\* A tick that moves only its own batch leaves the others covered.
LEMMA ExporterStep ==
    ASSUME ExportInvariant, UNCHANGED writers, TypeOK', Positions', CursorSound',
           ~disordered => \A t \in Ticks : Covered(t)'
    PROVE  ExportInvariant'
<1>1. Stamped'
  BY DEF ExportInvariant, Stamped, writers, Enqueued
<1>2. ~disordered => Ordered'
  BY DEF ExportInvariant, Ordered, writers, Enqueued
<1>3. QED  BY <1>1, <1>2 DEF ExportInvariant, writers

----------------------------------------------------------------------------
(* The exporter: the writers *)

\* The clock advances.
LEMMA AdvanceKeeps ==
    ASSUME ExportInvariant, Advance
    PROVE  ExportInvariant'
<1> USE DEF Advance, exporter
<1>1. TypeOK /\ TypeOK'
  BY ExporterAssumption DEF ExportInvariant, TypeOK
<1>2. Stamped'
  BY <1>1, Numbers DEF ExportInvariant, Stamped, Enqueued
<1>3. Positions' /\ CursorSound'
  BY DEF ExportInvariant, Positions, CursorSound
<1>4. ~disordered => Ordered' /\ \A t \in Ticks : Covered(t)'
  BY DEF ExportInvariant, Ordered, Covered, InTodo, Enqueued
<1>5. QED  BY <1>1, <1>2, <1>3, <1>4 DEF ExportInvariant

\* An event enqueued while all others are committed, in a later millisecond,
\* is later than the cursor and than every batch.
LEMMA EnqueueKeeps ==
    ASSUME ExportInvariant, NEW e \in Events, enqueueInTransaction(e)
    PROVE  ExportInvariant'
<1> USE DEF enqueueInTransaction, exporter
<1>1. TypeOK /\ Stamped /\ Positions
  BY DEF ExportInvariant
<1>2. createdAt'[e] = now /\ \A f \in Events \ {e} : createdAt'[f] = createdAt[f]
  BY <1>1 DEF TypeOK
<1>3. e \notin committed /\ committed' = committed
  BY <1>1, Numbers DEF Stamped, Enqueued
<1>4. Enqueued' = Enqueued \cup {e}
  BY <1>1, <1>2, Numbers DEF Enqueued, TypeOK
<1>5. \A f \in committed : createdAt'[f] = createdAt[f]
  BY <1>1, <1>2, <1>3 DEF TypeOK
<1>6. TypeOK'
  <2>1. disordered' \in BOOLEAN
    BY <1>1 DEF TypeOK
  <2>2. createdAt' \in [Events -> 0..MaxTime]
    BY <1>1, ExporterAssumption DEF TypeOK
  <2>3. QED  BY <1>1, <2>1, <2>2 DEF TypeOK
<1>7. Stamped'
  BY <1>1, <1>2, <1>3, <1>4, Numbers DEF Stamped
<1>8. Positions'
  BY <1>1, <1>3, <1>5 DEF Positions
<1>9. CursorSound'
  BY <1>3, <1>5 DEF ExportInvariant, CursorSound
<1>10. ASSUME ~disordered' PROVE Ordered' /\ \A t \in Ticks : Covered(t)'
  <2>1. ~disordered /\ Enqueued = committed /\ \A f \in Enqueued : createdAt[f] # now
    BY <1>10
  <2>2. Ordered /\ \A t \in Ticks : Covered(t)
    BY <2>1 DEF ExportInvariant
  <2>3. \A f \in committed : createdAt'[f] < createdAt'[e]
    BY <1>1, <1>2, <1>5, <2>1, Numbers DEF Stamped, Enqueued
  <2>4. \A f \in Enqueued \ committed : createdAt'[f] = createdAt[f]
    BY <2>1
  <2>5. Ordered'
    <3>1. \A f, g \in committed \cup {e} : createdAt'[f] = createdAt'[g] => f = g
      BY <1>1, <1>5, <2>1, <2>2, <2>3, Numbers DEF Ordered, TypeOK
    <3>2. QED  BY <1>3, <1>4, <2>1, <2>3, <3>1 DEF Ordered
  <2>6. \A t \in Ticks : Covered(t)'
    BY <1>3, <1>5, <2>2 DEF Covered, InTodo
  <2>7. QED  BY <2>5, <2>6
<1>11. QED  BY <1>6, <1>7, <1>8, <1>9, <1>10 DEF ExportInvariant

\* An event that becomes visible is later than the cursor and every batch.
LEMMA CommitKeeps ==
    ASSUME ExportInvariant, NEW e \in Events, Commit(e)
    PROVE  ExportInvariant'
<1> USE DEF Commit, exporter
<1>1. TypeOK /\ Stamped /\ Positions /\ CursorSound
  BY DEF ExportInvariant
<1>2. e \in Enqueued \ committed /\ committed' = committed \cup {e} /\ Enqueued' = Enqueued
  BY DEF Enqueued
<1>3. TypeOK'
  BY <1>1 DEF TypeOK
<1>4. Stamped'
  BY <1>1, <1>2, FS_AddElement DEF Stamped
<1>5. Positions'
  BY <1>1 DEF Positions
<1>6. ASSUME ~disordered PROVE Ordered' /\ CursorSound' /\ \A t \in Ticks : Covered(t)'
  <2>1. Ordered /\ \A t \in Ticks : Covered(t)
    BY <1>6 DEF ExportInvariant
  <2>2. \A f \in committed : createdAt[f] < createdAt[e]
    BY <1>2, <2>1 DEF Ordered
  <2>3. Ordered'
    BY <1>2, <2>1 DEF Ordered
  <2>4. ~(createdAt[e] <= cursor)
    BY <1>1, <1>2, <2>2, Numbers DEF Positions, Enqueued, TypeOK
  <2>5. CursorSound'
    BY <1>1, <1>2, <2>4 DEF CursorSound
  <2>6. ASSUME NEW t \in Ticks, pc[t] = "sending" PROVE ~(createdAt[e] <= batch[t].last)
    BY <1>1, <2>2, <2>6, Numbers DEF Positions, TypeOK
  <2>7. \A t \in Ticks : Covered(t)'
    BY <1>2, <2>1, <2>6 DEF Covered, InTodo
  <2>8. QED  BY <2>3, <2>5, <2>7
<1>7. CASE disordered
  BY <1>3, <1>4, <1>5, <1>7 DEF ExportInvariant, CursorSound
<1>8. QED  BY <1>3, <1>4, <1>5, <1>6, <1>7 DEF ExportInvariant

----------------------------------------------------------------------------
(* The ticks *)

\* A listing is a sequence of all committed events.
LEMMA ListingIsSequence ==
    ASSUME ExportInvariant, NEW list \in Listings
    PROVE  /\ list \in Seq(committed)
           /\ DOMAIN list = 1..Len(list)
           /\ \A e \in committed : \E n \in 1..Len(list) : list[n] = e
           /\ \A i, j \in 1..Len(list) : i < j => createdAt[list[i]] <= createdAt[list[j]]
<1> DEFINE N == Cardinality(committed)
<1>1. N \in Nat
  BY FS_CardinalityType DEF ExportInvariant, Stamped
<1>2. list \in Bijection(1..N, committed)
  BY DEF Listings
<1>3. list \in [1..N -> committed] /\ \A e \in committed : \E n \in 1..N : list[n] = e
  BY <1>2 DEF Bijection, Injection, Surjection, IsInjective
<1>4. list \in Seq(committed) /\ Len(list) = N /\ DOMAIN list = 1..N
  BY <1>1, <1>3
<1>5. \A i, j \in 1..N : i < j => createdAt[list[i]] <= createdAt[list[j]]
  BY <1>4 DEF Listings
<1>6. QED  BY <1>3, <1>4, <1>5

\* What a tick reads covers what the end of its batch passes: the rows it
\* takes for stale are exported, and a row that does not fit is later.
LEMMA ReadCovers ==
    ASSUME ExportInvariant, ~disordered, NEW list \in Listings, NEW read \in 0..BatchSize,
           FreshAfter(list, read), NEW e \in committed,
           createdAt[e] <= Batch(list, read).last
    PROVE  e \in exported \/ \E n \in 1..Len(Batch(list, read).todo) : Batch(list, read).todo[n] = e
<1> DEFINE top == Taken(list)
<1>1. TypeOK /\ Stamped /\ Ordered /\ CursorSound
  BY DEF ExportInvariant
<1>2. list \in Seq(committed) /\ Len(list) \in Nat
  BY ListingIsSequence
<1>3. top \in 1..Len(list) /\ read < top /\ read \in Nat /\ top \in Nat
  BY <1>1, <1>2, Numbers DEF FreshAfter, Taken
<1>4. PICK k \in 1..Len(list) : list[k] = e
  BY ListingIsSequence
<1>5. createdAt[e] <= createdAt[list[top]] /\ list[top] \in committed
  BY <1>2, <1>3 DEF Batch
<1>6. CASE k > top
  <2>1. createdAt[list[top]] <= createdAt[e]
    BY <1>3, <1>4, <1>6, ListingIsSequence
  <2>2. createdAt[e] = createdAt[list[top]]
    BY <1>1, <1>5, <2>1, Numbers DEF TypeOK
  <2>3. e = list[top]
    BY <1>1, <1>5, <2>2 DEF Ordered, Stamped
  <2>4. PICK m \in 1..Len(list) : m = top /\ list[m] = e
    BY <1>3, <2>3
  <2>5. SubSeq(list, read + 1, top) \in Seq(committed)
        /\ Len(SubSeq(list, read + 1, top)) = top - read
        /\ SubSeq(list, read + 1, top)[top - read] = list[top]
    BY <1>2, <1>3, SubSeqProperties
  <2>6. QED  BY <1>3, <2>3, <2>5 DEF Batch
<1>7. CASE k <= top /\ k > read
  <2>1. Len(SubSeq(list, read + 1, top)) = top - read
        /\ SubSeq(list, read + 1, top)[k - read] = list[k]
    BY <1>2, <1>3, <1>4, <1>7, SubSeqProperties
  <2>2. k - read \in 1..(top - read)
    BY <1>3, <1>4, <1>7
  <2>3. QED  BY <1>4, <2>1, <2>2 DEF Batch
<1>8. CASE k <= top /\ ~(k > read)
  <2>1. ~Fresh(e)
    BY <1>3, <1>4, <1>8 DEF FreshAfter
  <2>2. createdAt[e] <= cursor
    BY <1>1, <2>1, Numbers DEF Fresh, TypeOK
  <2>3. QED  BY <1>1, <2>2 DEF CursorSound
<1>9. QED  BY <1>2, <1>3, <1>4, <1>6, <1>7, <1>8

\* A tick reads its batch.
LEMMA TickReadKeeps ==
    ASSUME ExportInvariant, NEW t \in Ticks, TickRead(t)
    PROVE  ExportInvariant'
<1>1. TypeOK /\ Stamped /\ Positions /\ CursorSound
  BY DEF ExportInvariant
<1>2. PICK list \in Listings, read \in 0..BatchSize :
          FreshAfter(list, read) /\ batch' = [batch EXCEPT ![t] = Batch(list, read)]
  BY DEF TickRead
<1>3. list \in Seq(committed) /\ Len(list) \in Nat
  BY ListingIsSequence
<1>4. Taken(list) \in 1..Len(list) /\ read < Taken(list) /\ read \in Nat /\ Taken(list) \in Nat
  BY <1>1, <1>2, <1>3, Numbers DEF FreshAfter, Taken
<1>5. list[Taken(list)] \in committed
  BY <1>3, <1>4
<1>6. /\ SubSeq(list, read + 1, Taken(list)) \in Seq(committed)
      /\ Len(SubSeq(list, read + 1, Taken(list))) = Taken(list) - read
  BY <1>3, <1>4, SubSeqProperties
<1>7. Batch(list, read).todo \in Seq(committed) /\ Batch(list, read).todo # <<>>
  <2>1. Len(SubSeq(list, read + 1, Taken(list))) # 0
    BY <1>4, <1>6
  <2>2. SubSeq(list, read + 1, Taken(list)) # <<>>
    BY <2>1, EmptySeq
  <2>3. QED  BY <1>6, <2>2 DEF Batch
<1>8. Batch(list, read).last = createdAt[list[Taken(list)]]
  BY DEF Batch
<1>9. Batch(list, read) \in [todo : Seq(Events), last : 0..MaxTime]
  <2>1. Batch(list, read).todo \in Seq(Events)
    BY <1>1, <1>7 DEF TypeOK
  <2>2. createdAt[list[Taken(list)]] \in 0..MaxTime
    BY <1>1, <1>5 DEF TypeOK
  <2>3. QED  BY <2>1, <2>2 DEF Batch
<1>10. /\ batch'[t] = Batch(list, read) /\ pc'[t] = "sending"
       /\ \A u \in Ticks \ {t} : batch'[u] = batch[u] /\ pc'[u] = pc[u]
  BY <1>1, <1>2 DEF TickRead, TypeOK
<1>11. UNCHANGED <<now, createdAt, committed, disordered, cursor, exported>>
  BY DEF TickRead, writers
<1>12. TypeOK'
  BY <1>1, <1>2, <1>9, <1>11 DEF TypeOK, TickRead
<1>13. Positions'
  BY <1>1, <1>5, <1>7, <1>8, <1>10, <1>11 DEF Positions
<1>14. CursorSound'
  BY <1>1, <1>11 DEF CursorSound
<1>15. ASSUME ~disordered, NEW u \in Ticks PROVE Covered(u)'
  <2>1. CASE u # t
    <3>1. Covered(u)
      BY <1>15 DEF ExportInvariant
    <3>2. QED  BY <1>10, <1>11, <2>1, <3>1 DEF Covered, InTodo
  <2>2. CASE u = t
    <3>1. SUFFICES ASSUME NEW e \in committed, createdAt[e] <= Batch(list, read).last
                   PROVE  e \in exported \/ InTodo(t, e)'
      BY <1>10, <1>11, <2>2 DEF Covered
    <3>2. e \in exported
          \/ \E n \in 1..Len(Batch(list, read).todo) : Batch(list, read).todo[n] = e
      BY <1>2, <1>15, <3>1, ReadCovers
    <3>3. DOMAIN batch'[t].todo = 1..Len(Batch(list, read).todo)
      BY <1>7, <1>10
    <3>4. QED  BY <1>10, <3>2, <3>3 DEF InTodo
  <2>3. QED  BY <2>1, <2>2
<1>16. QED  BY <1>11, <1>12, <1>13, <1>14, <1>15, ExporterStep DEF writers

\* The collector accepts the head of a batch: what the batch covered is now
\* exported or still to be sent, and after the last one nothing is left.
LEMMA TickExportKeeps ==
    ASSUME ExportInvariant, NEW t \in Ticks, TickExport(t)
    PROVE  ExportInvariant'
<1> DEFINE todo == batch[t].todo
<1>1. TypeOK /\ Stamped /\ Positions /\ CursorSound
  BY DEF ExportInvariant
<1>2. UNCHANGED <<now, createdAt, committed, disordered>> /\ pc[t] = "sending"
  BY DEF TickExport, writers
<1>3. todo \in Seq(Events) /\ todo # <<>> /\ Len(todo) \in Nat /\ Len(todo) > 0
      /\ DOMAIN todo = 1..Len(todo)
  BY <1>1, <1>2, Numbers DEF Positions
<1>4. exported' = exported \cup {todo[1]} /\ todo[1] \in Events
  BY <1>3 DEF TickExport
<1>5. batch[t] \in [todo : Seq(Events), last : 0..MaxTime] /\ batch[t].last \in 0..MaxTime
  BY <1>1 DEF TypeOK
<1>6. CASE Len(todo) = 1
  <2>1. /\ cursor' = batch[t].last /\ pc' = [pc EXCEPT ![t] = "idle"]
        /\ batch' = [batch EXCEPT ![t] = NoBatch]
    BY <1>6 DEF TickExport
  <2>2. NoBatch \in [todo : Seq(Events), last : 0..MaxTime]
    BY ExporterAssumption DEF NoBatch
  <2>3. TypeOK'
    BY <1>1, <1>2, <1>4, <1>5, <2>1, <2>2 DEF TypeOK
  <2>4. pc'[t] = "idle" /\ \A u \in Ticks \ {t} : batch'[u] = batch[u] /\ pc'[u] = pc[u]
    BY <1>1, <2>1 DEF TypeOK
  <2>5. Positions'
    BY <1>1, <1>2, <2>1, <2>4 DEF Positions
  <2>6. CursorSound'
    <3>1. SUFFICES ASSUME ~disordered, NEW e \in committed, createdAt[e] <= batch[t].last
                   PROVE  e \in exported'
      BY <1>2, <2>1 DEF CursorSound
    <3>2. e \in exported \/ InTodo(t, e)
      BY <1>2, <3>1 DEF ExportInvariant, Covered
    <3>3. InTodo(t, e) => e = todo[1]
      BY <1>3, <1>6 DEF InTodo
    <3>4. QED  BY <1>4, <3>2, <3>3
  <2>7. ASSUME ~disordered, NEW u \in Ticks PROVE Covered(u)'
    <3>1. Covered(u)
      BY <2>7 DEF ExportInvariant
    <3>2. QED  BY <1>2, <1>4, <2>4, <3>1 DEF Covered, InTodo
  <2>8. QED  BY <1>2, <2>3, <2>5, <2>6, <2>7, ExporterStep DEF writers
<1>7. CASE Len(todo) # 1
  <2>1. /\ batch' = [batch EXCEPT ![t].todo = Tail(@)]
        /\ UNCHANGED <<cursor, pc>>
    BY <1>7 DEF TickExport
  <2>2. /\ Tail(todo) \in Seq(Events) /\ Len(Tail(todo)) = Len(todo) - 1
        /\ DOMAIN Tail(todo) = 1..(Len(todo) - 1)
        /\ \A n \in 1..(Len(todo) - 1) : Tail(todo)[n] = todo[n + 1]
    BY <1>3
  <2>3. Tail(todo) # <<>>
    <3>1. Len(Tail(todo)) # 0
      BY <1>3, <1>7, <2>2
    <3>2. QED  BY <3>1, EmptySeq
  <2>4. /\ batch'[t].todo = Tail(todo) /\ batch'[t].last = batch[t].last
        /\ \A u \in Ticks \ {t} : batch'[u] = batch[u]
    BY <1>1, <1>5, <2>1 DEF TypeOK
  <2>5. TypeOK'
    <3>1. [batch[t] EXCEPT !.todo = Tail(todo)] \in [todo : Seq(Events), last : 0..MaxTime]
      BY <1>5, <2>2
    <3>2. batch' \in [Ticks -> [todo : Seq(Events), last : 0..MaxTime]]
      BY <1>1, <2>1, <3>1 DEF TypeOK
    <3>3. QED  BY <1>1, <1>2, <1>4, <2>1, <3>2 DEF TypeOK
  <2>6. Positions'
    BY <1>1, <1>2, <2>1, <2>3, <2>4 DEF Positions
  <2>7. CursorSound'
    BY <1>1, <1>2, <1>4, <2>1 DEF CursorSound
  <2>8. ASSUME ~disordered, NEW u \in Ticks PROVE Covered(u)'
    <3>1. Covered(u)
      BY <2>8 DEF ExportInvariant
    <3>2. CASE u # t
      BY <1>2, <1>4, <2>1, <2>4, <3>1, <3>2 DEF Covered, InTodo
    <3>3. CASE u = t
      <4>1. SUFFICES ASSUME NEW e \in committed, createdAt[e] <= batch[t].last
                     PROVE  e \in exported' \/ InTodo(t, e)'
        BY <1>2, <2>4, <3>3 DEF Covered
      <4>2. e \in exported \/ InTodo(t, e)
        BY <1>2, <3>1, <3>3, <4>1 DEF Covered
      <4>3. CASE InTodo(t, e)
        <5>1. PICK n \in 1..Len(todo) : todo[n] = e
          BY <1>3, <4>3 DEF InTodo
        <5>2. CASE n = 1
          BY <1>4, <5>1, <5>2
        <5>3. CASE n # 1
          <6>1. n - 1 \in 1..(Len(todo) - 1) /\ Tail(todo)[n - 1] = e
            BY <1>3, <2>2, <5>1, <5>3
          <6>2. QED  BY <2>2, <2>4, <6>1 DEF InTodo
        <5>4. QED  BY <5>2, <5>3
      <4>4. QED  BY <1>4, <4>2, <4>3
    <3>4. QED  BY <3>2, <3>3
  <2>9. QED  BY <1>2, <2>5, <2>6, <2>7, <2>8, ExporterStep DEF writers
<1>8. QED  BY <1>6, <1>7

\* A refused batch is forgotten.
LEMMA TickRefusedKeeps ==
    ASSUME ExportInvariant, NEW t \in Ticks, TickRefused(t)
    PROVE  ExportInvariant'
<1>1. TypeOK /\ Stamped /\ Positions /\ CursorSound
  BY DEF ExportInvariant
<1>2. UNCHANGED <<now, createdAt, committed, disordered, cursor, exported>>
  BY DEF TickRefused, writers
<1>3. NoBatch \in [todo : Seq(Events), last : 0..MaxTime]
  BY ExporterAssumption DEF NoBatch
<1>4. TypeOK'
  BY <1>1, <1>2, <1>3 DEF TypeOK, TickRefused
<1>5. pc'[t] = "idle" /\ \A u \in Ticks \ {t} : batch'[u] = batch[u] /\ pc'[u] = pc[u]
  BY <1>1 DEF TypeOK, TickRefused
<1>6. Positions'
  BY <1>1, <1>2, <1>5 DEF Positions
<1>7. CursorSound'
  BY <1>1, <1>2 DEF CursorSound
<1>8. ASSUME ~disordered, NEW u \in Ticks PROVE Covered(u)'
  <2>1. Covered(u)
    BY <1>8 DEF ExportInvariant
  <2>2. QED  BY <1>2, <1>5, <2>1 DEF Covered, InTodo
<1>9. QED  BY <1>2, <1>4, <1>6, <1>7, <1>8, ExporterStep DEF writers

\* A restart forgets the cursor and every batch: timestamps are positive, so
\* cursor 0 passes nothing.
LEMMA RestartKeeps ==
    ASSUME ExportInvariant, Restart
    PROVE  ExportInvariant'
<1>1. TypeOK /\ Stamped /\ Positions /\ CursorSound
  BY DEF ExportInvariant
<1>2. UNCHANGED <<now, createdAt, committed, disordered, exported>> /\ cursor' = 0
  BY DEF Restart, writers
<1>3. NoBatch \in [todo : Seq(Events), last : 0..MaxTime]
  BY ExporterAssumption DEF NoBatch
<1>4. TypeOK'
  BY <1>1, <1>2, <1>3, ExporterAssumption DEF TypeOK, Restart
<1>5. \A t \in Ticks : pc'[t] = "idle"
  BY DEF Restart
<1>6. Positions'
  BY <1>2, <1>5 DEF Positions
<1>7. CursorSound'
  BY <1>1, <1>2, Numbers DEF CursorSound, Stamped, Enqueued
<1>8. \A t \in Ticks : Covered(t)'
  BY <1>5 DEF Covered
<1>9. QED  BY <1>2, <1>4, <1>6, <1>7, <1>8, ExporterStep DEF writers

----------------------------------------------------------------------------
(* The exporter: the theorems *)

\* The invariant holds at the start and is kept by every step.
THEOREM ExportInvariance == Spec => []ExportInvariant
<1>1. Init => ExportInvariant
  <2>1. SUFFICES ASSUME Init PROVE ExportInvariant
    OBVIOUS
  <2>2. NoBatch \in [todo : Seq(Events), last : 0..MaxTime]
    BY ExporterAssumption DEF NoBatch
  <2>3. TypeOK
    <3>1. 0 \in 0..MaxTime /\ 1 \in 1..MaxTime
      BY ExporterAssumption
    <3>2. batch \in [Ticks -> [todo : Seq(Events), last : 0..MaxTime]]
      BY <2>1, <2>2 DEF Init
    <3>3. QED  BY <2>1, <3>1, <3>2 DEF Init, TypeOK
  <2>4. Stamped /\ Positions
    BY <2>1, FS_EmptySet DEF Init, Stamped, Positions
  <2>5. Enqueued = {} /\ committed = {}
    BY <2>1 DEF Init, Enqueued
  <2>6. Ordered /\ CursorSound /\ \A t \in Ticks : Covered(t)
    BY <2>5 DEF Ordered, CursorSound, Covered
  <2>7. QED  BY <2>3, <2>4, <2>6 DEF ExportInvariant
<1>2. ExportInvariant /\ [Next]_vars => ExportInvariant'
  <2>1. SUFFICES ASSUME ExportInvariant, [Next]_vars PROVE ExportInvariant'
    OBVIOUS
  <2>2. CASE UNCHANGED vars
    BY <2>1, <2>2 DEF vars, ExportInvariant, TypeOK, Stamped, Positions, Ordered, Covered,
                      CursorSound, Enqueued, InTodo
  <2>3. QED
    BY <2>1, <2>2, AdvanceKeeps, EnqueueKeeps, CommitKeeps, TickReadKeeps, TickExportKeeps,
       TickRefusedKeeps, RestartKeeps DEF Next
<1>3. QED  BY <1>1, <1>2, PTL DEF Spec

\* Clock, timestamps, cursor and batches keep their kinds.
THEOREM ExporterTypeCorrect == Spec => []TypeOK
<1>1. ExportInvariant => TypeOK
  BY DEF ExportInvariant
<1>2. QED  BY <1>1, ExportInvariance, PTL

\* tick skips everything up to its cursor: as long as events become visible
\* in the order of their timestamps, whatever ticks overlap, fail or restart,
\* everything it skips has been exported.
THEOREM CursorSafe == Spec => []CursorSound
<1>1. ExportInvariant => CursorSound
  BY DEF ExportInvariant
<1>2. QED  BY <1>1, ExportInvariance, PTL

----------------------------------------------------------------------------
(* The playground: types *)

Processes == {"tick", "sweep"}

\* Every table a session may have rows in.
Tables == Seed \cup {"approval", "execution", "log"}

Session == [idle : Nat, executions : Nat]

Window == [age : Nat, sessions : Nat, executions : Nat]

Creation == [state : {"none", "inserting", "registered", "failed"}, inserted : 0..6]

Reaper ==
    [phase : {"asleep", "list", "work"}, todo : SUBSET Sessions, at : Sessions \cup {None},
     step : 0..9, user : BOOLEAN, role : BOOLEAN]

Counts == [0..(Hour - 1) -> Nat]

Requests == {"none", "counted", "running", "read", "decided", "created", "configured"}

PlaygroundTypeOK ==
    /\ rows \in [Sessions -> SUBSET Tables]
    /\ creation \in [Sessions -> Creation]
    /\ registry \in [Sessions -> Session \cup {None}]
    /\ windows \in [IPs -> Window \cup {None}]
    /\ token \in [Sessions -> Nat \cup {None}]
    /\ request \in [Sessions -> Requests]
    /\ reaper \in [Processes -> Reaper]
    /\ restarts \in Nat /\ faults \in Nat
    /\ recent \in [IPs -> Counts]
    /\ ran \in [Sessions -> Nat]
    /\ overlap \in BOOLEAN
    /\ met \subseteq Sessions /\ cut \subseteq Sessions /\ late \subseteq Sessions /\ cleared \subseteq Sessions

\* The tables, spelled out.
LEMMA SeedTables ==
    /\ DOMAIN InsertOrder = 1..6 /\ Len(InsertOrder) = 6 /\ Len(DeleteOrder) = 8
    /\ Seed = {"workspace", "role", "user", "member", "object", "permission", "agent"}
    /\ Tables = {"workspace", "role", "user", "member", "object", "permission", "agent",
                 "approval", "execution", "log"}
<1>1. Len(InsertOrder) = 6 /\ DOMAIN InsertOrder = 1..6 /\ Len(DeleteOrder) = 8
  BY DEF InsertOrder, DeleteOrder
<1>2. /\ InsertOrder[1] = {"workspace"} /\ InsertOrder[2] = {"role"} /\ InsertOrder[3] = {"user"}
      /\ InsertOrder[4] = {"member"} /\ InsertOrder[5] = {"object", "permission"}
      /\ InsertOrder[6] = {"agent"}
  BY DEF InsertOrder
<1>3. Range(InsertOrder) = {InsertOrder[i] : i \in 1..6}
  BY <1>1 DEF Range
<1>4. 1..6 = {1, 2, 3, 4, 5, 6}
  OBVIOUS
<1>5. ASSUME NEW x PROVE x \in Seed <=> \E i \in 1..6 : x \in InsertOrder[i]
  BY <1>3 DEF Seed
<1>6. Seed = {"workspace", "role", "user", "member", "object", "permission", "agent"}
  BY <1>2, <1>4, <1>5
<1>7. QED  BY <1>1, <1>6 DEF Tables

LEMMA HoursPass == Hour \in Nat /\ Hour > 0 /\ 0 \in 0..(Hour - 1)
<1>1. Hour \in Nat \ {0}
  BY PlaygroundAssumption
<1>2. QED  BY <1>1

LEMMA AddressesKnown ==
    ASSUME NEW s \in Sessions
    PROVE  IpOf[s] \in IPs
BY PlaygroundAssumption DEF IPs, Range

LEMMA WindowsTyped ==
    ASSUME PlaygroundTypeOK, NEW addr \in IPs
    PROVE  windowFor(addr) \in Window
<1>1. windows[addr] \in Window \cup {None}
  BY DEF PlaygroundTypeOK
<1>2. [age |-> 0, sessions |-> 0, executions |-> 0] \in Window
  BY DEF Window
<1>3. QED  BY <1>1, <1>2 DEF windowFor

LEMMA AsleepTyped ==
    /\ Asleep \in Reaper /\ Asleep.phase = "asleep" /\ Asleep.todo = {} /\ Asleep.at = None
    /\ ~Asleep.user /\ Asleep.step = 0
    /\ [Asleep EXCEPT !.phase = "list"] \in Reaper
<1>1. PICK r : r = Asleep
  OBVIOUS
<1>2. r \in Reaper /\ r.phase = "asleep" /\ r.todo = {} /\ r.at = None /\ ~r.user /\ r.step = 0
  BY <1>1 DEF Asleep, Reaper
<1>3. [r EXCEPT !.phase = "list"] \in Reaper
  BY <1>2 DEF Reaper
<1>4. QED  BY <1>1, <1>2, <1>3

LEMMA WorkingTyped ==
    ASSUME NEW todo \in SUBSET Sessions
    PROVE  /\ Working(todo) \in Reaper /\ Working(todo).phase = "work" /\ Working(todo).todo = todo
           /\ Working(todo).at = None /\ ~Working(todo).user /\ Working(todo).step = 0
<1>1. PICK asleep : asleep = Asleep
  OBVIOUS
<1>2. /\ asleep \in Reaper /\ asleep.at = None /\ ~asleep.user /\ asleep.step = 0
  BY <1>1, AsleepTyped
<1>3. PICK next : next = [asleep EXCEPT !.phase = "work", !.todo = todo]
  OBVIOUS
<1>4. /\ next \in Reaper /\ next.phase = "work" /\ next.todo = todo /\ next.at = None
      /\ ~next.user /\ next.step = 0
  BY <1>2, <1>3 DEF Reaper
<1>5. next = Working(todo)
  BY <1>1, <1>3 DEF Working
<1>6. QED  BY <1>4, <1>5

LEMMA ReaperTyped ==
    ASSUME reaper \in [Processes -> Reaper], NEW p \in Processes, NEW r \in Reaper, SetReaper(p, r)
    PROVE  /\ reaper' \in [Processes -> Reaper]
           /\ reaper'[p] = r
           /\ \A q \in Processes \ {p} : reaper'[q] = reaper[q]
BY DEF SetReaper

LEMMA InitTyped == PlaygroundInit => PlaygroundTypeOK
<1>1. SUFFICES ASSUME PlaygroundInit PROVE PlaygroundTypeOK
  OBVIOUS
<1>2. reaper \in [Processes -> Reaper]
  BY <1>1, AsleepTyped DEF PlaygroundInit, Processes
<1>3. Done("none") \in Creation
  BY DEF Done, Creation
<1>4. [age \in 0..(Hour - 1) |-> 0] \in Counts
  BY DEF Counts
<1>5. QED  BY <1>1, <1>2, <1>3, <1>4 DEF PlaygroundInit, PlaygroundTypeOK, Requests

\* What the recyclers' steps do to their records.
LEMMA LookedUp ==
    ASSUME PlaygroundTypeOK, NEW p \in Processes, LookupUser(p)
    PROVE  /\ reaper' \in [Processes -> Reaper]
           /\ \A q \in Processes \ {p} : reaper'[q] = reaper[q]
           /\ reaper'[p].phase = reaper[p].phase /\ reaper'[p].todo = reaper[p].todo
           /\ reaper'[p].at = reaper[p].at /\ reaper'[p].step = 1
           /\ reaper'[p].user <=> "user" \in rows[reaper[p].at]
           /\ reaper'[p].role <=> reaper[p].role \/ "user" \in rows[reaper[p].at]
<1>1. PICK r \in Reaper : r = reaper[p]
  BY DEF PlaygroundTypeOK
<1>2. PICK found \in BOOLEAN : found <=> "user" \in rows[r.at]
  OBVIOUS
<1>3. PICK known \in BOOLEAN : known <=> r.role \/ found
  OBVIOUS
<1>4. PICK next : next = [r EXCEPT !.step = 1, !.user = found, !.role = known]
  OBVIOUS
<1>5. /\ next \in Reaper
      /\ next.phase = r.phase /\ next.todo = r.todo /\ next.at = r.at /\ next.step = 1
  <2>1. next = [phase |-> r.phase, todo |-> r.todo, at |-> r.at, step |-> 1, user |-> found, role |-> known]
    BY <1>1, <1>4 DEF Reaper
  <2>2. found \in BOOLEAN /\ known \in BOOLEAN
    BY <1>2, <1>3
  <2>3. r.phase \in {"asleep", "list", "work"} /\ r.todo \in SUBSET Sessions /\ r.at \in Sessions \cup {None}
    BY <1>1 DEF Reaper
  <2>4. QED  BY <2>1, <2>2, <2>3 DEF Reaper
<1>6. next.user = found /\ next.role = known
  BY <1>1, <1>4 DEF Reaper
<1>7. SetReaper(p, next)
  <2>1. found = ("user" \in rows[r.at])
    BY <1>2
  <2>2. known = (r.role \/ found)
    BY <1>3
  <2>3. LookupUser(p) => SetReaper(p, [r EXCEPT !.step = 1, !.user = found, !.role = r.role \/ found])
    BY <1>1, <2>1, Zenon DEF LookupUser
  <2>4. QED  BY <1>4, <2>2, <2>3
<1>8. reaper' = [reaper EXCEPT ![p] = next]
  BY <1>7 DEF SetReaper
<1>9. reaper \in [Processes -> Reaper]
  BY DEF PlaygroundTypeOK
<1>10. QED  BY <1>1, <1>2, <1>3, <1>5, <1>6, <1>8, <1>9

LEMMA Picked ==
    ASSUME PlaygroundTypeOK, NEW p \in Processes, NEW s \in Sessions, NEW role \in BOOLEAN, NEW next,
           next = [phase |-> "work", todo |-> reaper[p].todo \ {s}, at |-> s, step |-> 0,
                   user |-> FALSE, role |-> role]
    PROVE  /\ next \in Reaper
           /\ next.phase = "work" /\ next.todo = reaper[p].todo \ {s} /\ next.at = s /\ next.step = 0
           /\ ~next.user /\ next.role = role
<1>1. reaper[p].todo \in SUBSET Sessions
  BY DEF PlaygroundTypeOK, Reaper
<1>2. QED  BY <1>1 DEF Reaper

\* A recycler gets a new list.
LEMMA Listed ==
    ASSUME PlaygroundTypeOK, NEW p \in Processes, NEW todo \in SUBSET Sessions,
           SetReaper(p, Working(todo))
    PROVE  /\ reaper' \in [Processes -> Reaper]
           /\ \A q \in Processes \ {p} : reaper'[q] = reaper[q]
           /\ reaper'[p].phase # "list" /\ reaper'[p].todo = todo
           /\ reaper'[p].at = None /\ ~reaper'[p].user /\ reaper'[p].step = 0
<1>1. PICK next : next = Working(todo)
  OBVIOUS
<1>2. /\ next \in Reaper /\ next.phase # "list" /\ next.todo = todo /\ next.at = None
      /\ ~next.user /\ next.step = 0
  BY <1>1, WorkingTyped
<1>3. SetReaper(p, next)
  BY <1>1
<1>4. QED  BY <1>2, <1>3, ReaperTyped DEF PlaygroundTypeOK

\* A recycler has no work left.
LEMMA Ended ==
    ASSUME PlaygroundTypeOK, NEW p \in Processes, SetReaper(p, Asleep)
    PROVE  /\ reaper' \in [Processes -> Reaper]
           /\ \A q \in Processes \ {p} : reaper'[q] = reaper[q]
           /\ reaper'[p].phase # "list" /\ reaper'[p].todo = {}
           /\ reaper'[p].at = None /\ ~reaper'[p].user /\ reaper'[p].step = 0
BY AsleepTyped, ReaperTyped DEF PlaygroundTypeOK

\* A recycler leaves its workspace.
LEMMA Left ==
    ASSUME PlaygroundTypeOK, NEW p \in Processes, Proceed(p) \/ Abandon(p)
    PROVE  /\ reaper' \in [Processes -> Reaper]
           /\ \A q \in Processes \ {p} : reaper'[q] = reaper[q]
           /\ reaper'[p].phase # "list" /\ reaper'[p].todo \subseteq reaper[p].todo
           /\ reaper'[p].at = None /\ ~reaper'[p].user /\ reaper'[p].step = 0
<1>1. reaper[p].todo \in SUBSET Sessions
  BY DEF PlaygroundTypeOK, Reaper
<1>2. CASE SetReaper(p, Working(reaper[p].todo))
  BY <1>1, <1>2, Listed
<1>3. CASE SetReaper(p, Asleep)
  BY <1>3, Ended
<1>4. CASE Proceed(p)
  <2>1. SetReaper(p, Working(reaper[p].todo)) \/ SetReaper(p, Asleep)
    BY <1>4, Zenon DEF Proceed
  <2>2. QED  BY <1>2, <1>3, <2>1
<1>5. Proceed(p) \/ SetReaper(p, Asleep)
  BY DEF Abandon
<1>6. QED  BY <1>3, <1>4, <1>5

LEMMA Stepped ==
    ASSUME PlaygroundTypeOK, NEW p \in Processes, reaper[p].step \in 1..8,
           SetReaper(p, [reaper[p] EXCEPT !.step = @ + 1])
    PROVE  /\ reaper' \in [Processes -> Reaper]
           /\ \A q \in Processes \ {p} : reaper'[q] = reaper[q]
           /\ reaper'[p].phase = reaper[p].phase /\ reaper'[p].todo = reaper[p].todo
           /\ reaper'[p].at = reaper[p].at /\ reaper'[p].step = reaper[p].step + 1
           /\ reaper'[p].user = reaper[p].user /\ reaper'[p].role = reaper[p].role
<1>1. PICK r \in Reaper : r = reaper[p]
  BY DEF PlaygroundTypeOK
<1>2. PICK next : next = [r EXCEPT !.step = r.step + 1]
  OBVIOUS
<1>3. /\ next \in Reaper
      /\ next.phase = r.phase /\ next.todo = r.todo /\ next.at = r.at /\ next.step = r.step + 1
  BY <1>1, <1>2 DEF Reaper
<1>4. next.user = r.user /\ next.role = r.role
  BY <1>1, <1>2 DEF Reaper
<1>5. reaper' = [reaper EXCEPT ![p] = next]
  BY <1>1, <1>2 DEF SetReaper
<1>6. reaper \in [Processes -> Reaper]
  BY DEF PlaygroundTypeOK
<1>7. QED  BY <1>1, <1>3, <1>4, <1>5, <1>6

\* What late requests may leave, and a request writes.
LateTables == {"approval", "execution", "log", "agent"}

LEMMA LateAreTables ==
    /\ LateTables \subseteq Tables
    /\ \A t \in LateTables : t \notin {"workspace", "user", "role", "permission"}
BY SeedTables DEF LateTables

LEMMA WritesLate ==
    ASSUME NEW s
    PROVE  Writes(s) \subseteq LateTables
<1>1. Writes(s) \in {{}, {"execution"}, {"approval", "log"}, {"approval"}, {"agent", "log"}, {"log"}}
  BY DEF Writes
<1>2. QED  BY <1>1 DEF LateTables

LEMMA VisitorTyped ==
    ASSUME PlaygroundTypeOK, NEW s \in Sessions, Visitor(s)
    PROVE  PlaygroundTypeOK'
<1> USE DEF PlaygroundTypeOK
<1>1. IpOf[s] \in IPs /\ windowFor(IpOf[s]) \in Window
  BY AddressesKnown, WindowsTyped
<1>2. creation[s] \in Creation /\ registry[s] \in Session \cup {None}
  OBVIOUS
<1>3. CASE CreateSession(s)
  <2>1. [creation[s] EXCEPT !.state = "inserting"] \in Creation
    BY <1>2 DEF Creation
  <2>2. creation' \in [Sessions -> Creation]
    BY <1>3, <2>1 DEF CreateSession
  <2>3. windows' \in [IPs -> Window \cup {None}]
    BY <1>1, <1>3 DEF CreateSession
  <2>4. overlap' \in BOOLEAN
    BY <1>3 DEF CreateSession
  <2>5. QED  BY <1>3, <2>2, <2>3, <2>4 DEF CreateSession
<1>4. CASE InsertRow(s)
  <2>1. creation[s].inserted \in 0..5
    BY <1>2, <1>4, SeedTables DEF InsertRow, Creation
  <2>2. [creation[s] EXCEPT !.inserted = @ + 1] \in Creation /\ Done("failed") \in Creation
    BY <1>2, <2>1 DEF Creation, Done
  <2>3. InsertOrder[creation[s].inserted + 1] \subseteq Tables
    <3>1. creation[s].inserted + 1 \in DOMAIN InsertOrder
      BY <2>1, SeedTables
    <3>2. QED  BY <3>1 DEF Seed, Range, Tables
  <2>4. creation' \in [Sessions -> Creation]
    BY <1>4, <2>2 DEF InsertRow
  <2>5. rows' \in [Sessions -> SUBSET Tables]
    BY <1>4, <2>3 DEF InsertRow
  <2>6. QED  BY <1>4, <2>4, <2>5 DEF InsertRow, ghosts
<1>5. CASE Register(s)
  <2>1. Done("registered") \in Creation /\ [idle |-> 0, executions |-> 0] \in Session
    BY DEF Done, Creation, Session
  <2>2. [windowFor(IpOf[s]) EXCEPT !.sessions = @ + 1] \in Window
    BY <1>1 DEF Window
  <2>3. QED  BY <1>1, <1>5, <2>1, <2>2 DEF Register, ghosts
<1>6. CASE ExecuteAgent(s)
  <2>1. request' \in [Sessions -> Requests]
    BY <1>6 DEF ExecuteAgent, Requests
  <2>2. CASE s \in Registered
    <3>1. registry[s] \in Session
      BY <1>2, <2>2 DEF Registered
    <3>2. [idle |-> 0, executions |-> registry[s].executions + 1] \in Session
      BY <3>1 DEF Session
    <3>3. [windowFor(IpOf[s]) EXCEPT !.executions = @ + 1] \in Window
      BY <1>1 DEF Window
    <3>4. registry' \in [Sessions -> Session \cup {None}] /\ windows' \in [IPs -> Window \cup {None}]
      BY <1>1, <1>6, <2>2, <3>2, <3>3 DEF ExecuteAgent, countExecution
    <3>5. [recent[IpOf[s]] EXCEPT ![0] = @ + 1] \in Counts
      <4>1. PICK counts \in Counts : counts = recent[IpOf[s]]
        BY <1>1
      <4>2. counts[0] \in Nat
        BY <4>1, HoursPass DEF Counts
      <4>3. [counts EXCEPT ![0] = counts[0] + 1] \in Counts
        BY <4>1, <4>2, HoursPass DEF Counts
      <4>4. QED  BY <4>1, <4>3
    <3>6. recent' \in [IPs -> Counts]
      BY <1>1, <1>6, <2>2, <3>5 DEF ExecuteAgent
    <3>7. QED  BY <1>6, <2>1, <2>2, <3>4, <3>6 DEF ExecuteAgent
  <2>3. QED  BY <1>6, <2>1, <2>2 DEF ExecuteAgent
<1>7. CASE Write(s)
  <2>1. Writes(s) \subseteq Tables /\ Afterwards(s) \in Requests
    BY WritesLate, LateAreTables DEF Afterwards, Requests
  <2>2. late' \subseteq Sessions
    BY <1>7 DEF Write
  <2>3. QED  BY <1>7, <2>1, <2>2 DEF Write
<1>8. CASE FindApproval(s) \/ ChangeAgents(s)
  <2>1. request' \in [Sessions -> Requests]
    BY <1>8 DEF FindApproval, ChangeAgents, Requests
  <2>2. QED  BY <1>8, <2>1 DEF FindApproval, ChangeAgents, ghosts
<1>9. CASE Decide(s)
  <2>1. ASSUME s \in Registered PROVE [registry[s] EXCEPT !.idle = 0] \in Session
    BY <1>2, <2>1 DEF Session, Registered
  <2>2. registry' \in [Sessions -> Session \cup {None}]
    BY <1>9, <2>1 DEF Decide
  <2>3. request' \in [Sessions -> Requests]
    BY <1>9 DEF Decide, Requests
  <2>4. QED  BY <1>9, <2>2, <2>3 DEF Decide, ghosts
<1>10. QED  BY <1>3, <1>4, <1>5, <1>6, <1>7, <1>8, <1>9 DEF Visitor

LEMMA RecyclerTyped ==
    ASSUME PlaygroundTypeOK, NEW p \in Processes, Recycler(p) \/ DeleteThrows(p)
    PROVE  PlaygroundTypeOK'
<1>1. CASE NextWorkspace(p)
  <2>1. PICK s \in reaper[p].todo :
            /\ SetReaper(p, [phase |-> "work", todo |-> reaper[p].todo \ {s}, at |-> s, step |-> 0,
                             user |-> FALSE, role |-> p = "sweep" /\ "user" \in rows[s]])
            /\ met' = IF Creating(s) THEN met \cup {s} ELSE met
    BY <1>1 DEF NextWorkspace
  <2>2. s \in Sessions
    BY DEF PlaygroundTypeOK, Reaper
  <2>3. PICK role \in BOOLEAN : role = (p = "sweep" /\ "user" \in rows[s])
    OBVIOUS
  <2>4. reaper' \in [Processes -> Reaper]
    <3>1. PICK next : next = [phase |-> "work", todo |-> reaper[p].todo \ {s}, at |-> s, step |-> 0,
                              user |-> FALSE, role |-> role]
      OBVIOUS
    <3>2. SetReaper(p, next)
      BY <2>1, <2>3, <3>1, Zenon
    <3>3. next \in Reaper
      BY <2>2, <3>1, Picked
    <3>4. QED  BY <3>2, <3>3, ReaperTyped DEF PlaygroundTypeOK
  <2>5. QED  BY <1>1, <2>1, <2>2, <2>4 DEF NextWorkspace, RecyclerOnly, PlaygroundTypeOK
<1>2. CASE LookupUser(p)
  BY <1>2, LookedUp DEF LookupUser, RecyclerOnly, ghosts, PlaygroundTypeOK
<1>3. reaper[p].at \in Sessions \cup {None}
  BY DEF PlaygroundTypeOK, Reaper
<1>4. CASE DeleteRows(p)
  <2>1. rows' \in [Sessions -> SUBSET Tables] /\ cut' \subseteq Sessions
    BY <1>3, <1>4 DEF DeleteRows, without, PlaygroundTypeOK
  <2>2. reaper' \in [Processes -> Reaper]
    <3>1. reaper[p].step \in 1..8
      BY <1>4, SeedTables DEF DeleteRows
    <3>2. SetReaper(p, [reaper[p] EXCEPT !.step = @ + 1]) \/ Abandon(p)
      BY <1>4 DEF DeleteRows
    <3>3. QED  BY <3>1, <3>2, Stepped, Left
  <2>3. QED  BY <1>4, <2>1, <2>2 DEF DeleteRows, RecyclerOnly, PlaygroundTypeOK
<1>5. CASE Forget(p)
  <2>1. reaper' \in [Processes -> Reaper]
    BY <1>5, Left DEF Forget
  <2>2. QED  BY <1>5, <2>1 DEF Forget, RecyclerOnly, ghosts, PlaygroundTypeOK
<1>6. CASE DeleteThrows(p)
  <2>1. reaper' \in [Processes -> Reaper]
    BY <1>6, Left DEF DeleteThrows
  <2>2. QED  BY <1>3, <1>6, <2>1 DEF DeleteThrows, RecyclerOnly, PlaygroundTypeOK
<1>7. QED  BY <1>1, <1>2, <1>4, <1>5, <1>6 DEF Recycler


LEMMA ReaperListTyped ==
    ASSUME PlaygroundTypeOK, Tick \/ SweepOrphans
    PROVE  PlaygroundTypeOK'
<1>1. CASE Tick
  <2>1. "tick" \in Processes /\ expiredWorkspaceIds \in SUBSET Sessions
    BY DEF Processes, expiredWorkspaceIds, Registered
  <2>2. reaper' \in [Processes -> Reaper]
    BY <1>1, <2>1, Listed DEF Tick
  <2>3. QED  BY <1>1, <2>2 DEF Tick, RecyclerOnly, ghosts, PlaygroundTypeOK
<1>2. CASE SweepOrphans
  <2>1. "sweep" \in Processes /\ {s \in Sessions : "workspace" \in rows[s]} \in SUBSET Sessions
    BY DEF Processes
  <2>2. reaper' \in [Processes -> Reaper]
    BY <1>2, <2>1, Listed DEF SweepOrphans
  <2>3. QED  BY <1>2, <2>2 DEF SweepOrphans, RecyclerOnly, ghosts, PlaygroundTypeOK
<1>3. QED  BY <1>1, <1>2

LEMMA NoneYet == [age \in 0..(Hour - 1) |-> 0] \in Counts
BY DEF Counts

LEMMA ClearTyped ==
    ASSUME PlaygroundTypeOK, Clear
    PROVE  PlaygroundTypeOK'
<1>1. "sweep" \in Processes
  BY DEF Processes
<1>2. reaper' \in [Processes -> Reaper]
  BY <1>1, Ended DEF Clear
<1>3. QED  BY <1>2, NoneYet DEF Clear, Registered, PlaygroundTypeOK

LEMMA NewProcessTyped ==
    ASSUME PlaygroundTypeOK, NewProcess
    PROVE  PlaygroundTypeOK'
<1>1. reaper' \in [Processes -> Reaper]
  BY AsleepTyped DEF NewProcess, Processes
<1>2. Done("failed") \in Creation
  BY DEF Done, Creation
<1>3. creation' \in [Sessions -> Creation]
  <2>1. creation \in [Sessions -> Creation]
    BY DEF PlaygroundTypeOK
  <2>2. creation' = [s \in Sessions |-> IF Creating(s) THEN Done("failed") ELSE creation[s]]
    BY DEF NewProcess
  <2>3. QED  BY <1>2, <2>1, <2>2
<1>4. restarts' \in Nat /\ cut' \subseteq Sessions
  BY DEF NewProcess, PlaygroundTypeOK
<1>5. overlap' \in BOOLEAN
  BY DEF NewProcess
<1>6. QED  BY <1>1, <1>3, <1>4, <1>5, NoneYet DEF NewProcess, PlaygroundTypeOK, Requests

LEMMA OlderTyped ==
    ASSUME NEW age \in Nat, NEW cap
    PROVE  older(age, cap) \in Nat
BY DEF older

LEMMA ClockTyped ==
    ASSUME PlaygroundTypeOK, Clock
    PROVE  PlaygroundTypeOK'
<1>1. registry' \in [Sessions -> Session \cup {None}]
  <2>1. ASSUME NEW s \in Registered PROVE [registry[s] EXCEPT !.idle = older(@, Ttl)] \in Session
    BY OlderTyped DEF Registered, Session, PlaygroundTypeOK
  <2>2. QED  BY <2>1 DEF Clock
<1>2. windows' \in [IPs -> Window \cup {None}]
  <2>1. ASSUME NEW ip \in IPs, windows[ip] # None PROVE [windows[ip] EXCEPT !.age = older(@, Hour)] \in Window
    BY <2>1, OlderTyped DEF Window, PlaygroundTypeOK
  <2>2. QED  BY <2>1 DEF Clock
<1>3. token' \in [Sessions -> Nat \cup {None}]
  BY OlderTyped DEF Clock, PlaygroundTypeOK
<1>4. recent' \in [IPs -> Counts]
  <2>1. ASSUME NEW ip \in IPs
        PROVE  [age \in 0..(Hour - 1) |-> IF age = 0 THEN 0 ELSE recent[ip][age - 1]] \in Counts
    <3>1. recent[ip] \in [0..(Hour - 1) -> Nat]
      BY DEF PlaygroundTypeOK, Counts
    <3>2. ASSUME NEW age \in 0..(Hour - 1), age # 0 PROVE recent[ip][age - 1] \in Nat
      BY <3>1, <3>2, HoursPass
    <3>3. QED  BY <3>2 DEF Counts
  <2>2. QED  BY <2>1 DEF Clock
<1>5. QED  BY <1>1, <1>2, <1>3, <1>4 DEF Clock, PlaygroundTypeOK

LEMMA NextTyped ==
    ASSUME PlaygroundTypeOK, [PlaygroundNext]_playgroundVars
    PROVE  PlaygroundTypeOK'
<1>1. CASE UNCHANGED playgroundVars
  BY <1>1 DEF playgroundVars, PlaygroundTypeOK
<1>2. CASE PlaygroundNext
  BY <1>2, VisitorTyped, RecyclerTyped, ReaperListTyped, ClearTyped, NewProcessTyped, ClockTyped
     DEF PlaygroundNext, Processes
<1>3. QED  BY <1>1, <1>2

----------------------------------------------------------------------------
(* The playground: no trace: what recyclers have deleted, and what they will delete *)

\* The step of recycleWorkspace that deletes from a table.
StepOf(t) == CHOOSE j \in 1..8 : t \in DeleteOrder[j]

\* A recycler deletes from a table if it knows the role and found the user.
Willing(r, t) ==
    /\ t \in {"permission", "role"} => r.role
    /\ t = "user" => r.user

\* What the first k steps of createSession insert.
Inserted(k) == UNION {InsertOrder[j] : j \in 1..k}

Late(s) == IF s \in late THEN LateTables ELSE {}

Excused(s) == Late(s) \cup (IF s \in cut THEN {"role"} ELSE {})

\* Whoever recycled the workspace from the beginning would delete from the table.
Found(s, t) == "workspace" \in rows[s] /\ (t \in {"permission", "role"} => "user" \in rows[s])

\* Some recycler at s knows the role and has it ahead.
RolePromised(s) == \E p \in Processes : reaper[p].at = s /\ reaper[p].step <= 6 /\ reaper[p].role

\* A recycler past its first step has found the user, if there is one, and
\* has left nothing behind that it was willing to delete.
RecyclerOK(p) ==
    /\ reaper[p].phase = "list" => reaper[p].at = None
    /\ \A s \in reaper[p].todo : creation[s].state # "none"
    /\ reaper[p].user => reaper[p].role
    /\ reaper[p].at \in Sessions =>
           /\ creation[reaper[p].at].state # "none"
           /\ reaper[p].at \notin met /\ reaper[p].step > 0 =>
                  /\ "user" \in rows[reaper[p].at] => reaper[p].user
                  /\ \A t \in rows[reaper[p].at] \ Late(reaper[p].at) :
                         StepOf(t) < reaper[p].step => ~Willing(reaper[p], t)

\* A session that is being created has what was inserted so far; any other has,
\* but for what is excused, only what the next recycler would find, or a role
\* that one under way will delete.
WorldOK(s) ==
    /\ creation[s].state = "none" => rows[s] = {} /\ creation[s].inserted = 0
    /\ token[s] # None => creation[s].state = "registered"
    /\ request[s] # "none" => token[s] # None
    /\ s \notin met /\ Creating(s) =>
           /\ ~Recycling(s)
           /\ rows[s] = Inserted(creation[s].inserted)
    /\ s \notin met /\ ~Creating(s) =>
           \A t \in rows[s] \ Excused(s) : Found(s, t) \/ (t = "role" /\ RolePromised(s))
    /\ /\ s \notin met \cup cut /\ creation[s].state = "registered"
       /\ ~Recycling(s) /\ "workspace" \in rows[s]
       => Seed \subseteq rows[s]

World ==
    /\ \A s \in Sessions : WorldOK(s)
    /\ \A s \in Sessions : registry[s] # None => creation[s].state = "registered"
    /\ \A p \in Processes : RecyclerOK(p)

\* The order of the deletes, spelled out.
LEMMA DeleteSteps ==
    ASSUME NEW t \in Tables, NEW j \in 1..8
    PROVE  /\ t \in DeleteOrder[j] <=> StepOf(t) = j
           /\ StepOf(t) \in 1..8
           /\ StepOf("permission") = 4 /\ StepOf("user") = 5 /\ StepOf("role") = 6
           /\ StepOf("workspace") = 8 /\ (t # "workspace" => StepOf(t) < 8)
<1>1. /\ DeleteOrder[1] = {"approval", "execution", "log"} /\ DeleteOrder[2] = {"agent"}
      /\ DeleteOrder[3] = {"member"} /\ DeleteOrder[4] = {"permission"} /\ DeleteOrder[5] = {"user"}
      /\ DeleteOrder[6] = {"role"} /\ DeleteOrder[7] = {"object"} /\ DeleteOrder[8] = {"workspace"}
  BY DEF DeleteOrder
<1>2. 1..8 = {1, 2, 3, 4, 5, 6, 7, 8}
  OBVIOUS
<1>3. ASSUME NEW x \in Tables
      PROVE  \E i \in 1..8 : x \in DeleteOrder[i] /\ \A k \in 1..8 : x \in DeleteOrder[k] => k = i
  <2>1. CASE x \in {"approval", "execution", "log", "agent", "member"}
    BY <1>1, <1>2, <2>1
  <2>2. CASE x \in {"permission", "user", "role", "object", "workspace"}
    BY <1>1, <1>2, <2>2
  <2>3. QED  BY <2>1, <2>2, SeedTables
<1>4. ASSUME NEW x \in Tables, NEW k \in 1..8
      PROVE  StepOf(x) \in 1..8 /\ x \in DeleteOrder[StepOf(x)] /\ (x \in DeleteOrder[k] => StepOf(x) = k)
  BY <1>3, Zenon DEF StepOf
<1>5. "permission" \in Tables /\ "user" \in Tables /\ "role" \in Tables /\ "workspace" \in Tables
  BY SeedTables
<1>6. QED  BY <1>1, <1>2, <1>4, <1>5

\* What a recycler's next step deletes from.
LEMMA DeletesAre ==
    ASSUME NEW r \in Reaper, r.step \in 1..8, NEW t \in Tables
    PROVE  t \in Deletes(r) <=> StepOf(t) = r.step /\ Willing(r, t)
BY DeleteSteps DEF Deletes, Willing

LEMMA OnlyTables == ASSUME PlaygroundTypeOK, NEW s \in Sessions PROVE rows[s] \subseteq Tables
BY DEF PlaygroundTypeOK

LEMMA TwoProcesses == "tick" \in Processes /\ "sweep" \in Processes
BY DEF Processes

LEMMA NoneIsNoSession == None \notin Sessions /\ None \notin Nat /\ None \notin Session /\ None \notin Window
BY PlaygroundAssumption DEF Session, Window

LEMMA RecyclingMeans ==
    ASSUME NEW s
    PROVE  Recycling(s) <=> \E p \in Processes : reaper[p].at = s
BY DEF Recycling, Processes

\* What is inserted before and after a step of createSession.
LEMMA InsertSteps ==
    ASSUME NEW k \in 0..6
    PROVE  /\ k = 0 => Inserted(k) = {}
           /\ k = 6 => Inserted(k) = Seed
           /\ k < 6 => /\ insertable(InsertOrder[k + 1], Inserted(k))
                       /\ Inserted(k + 1) = Inserted(k) \cup InsertOrder[k + 1]
<1>1. ASSUME NEW x, NEW i PROVE x \in Inserted(i) <=> \E j \in 1..i : x \in InsertOrder[j]
  BY DEF Inserted
<1>2. k = 0 => Inserted(k) = {}
  BY <1>1
<1>3. k = 6 => Inserted(k) = Seed
  <2>1. ASSUME NEW x, k = 6 PROVE x \in Seed <=> \E j \in 1..6 : x \in InsertOrder[j]
    BY SeedTables DEF Seed, Range
  <2>2. QED  BY <1>1, <2>1
<1>4. ASSUME k < 6
      PROVE  Inserted(k + 1) = Inserted(k) \cup InsertOrder[k + 1]
  <2>1. ASSUME NEW x
        PROVE  (\E j \in 1..(k + 1) : x \in InsertOrder[j]) <=> x \in Inserted(k) \/ x \in InsertOrder[k + 1]
    BY <1>1, <1>4
  <2>2. QED  BY <1>1, <2>1
<1>5. ASSUME k < 6 PROVE insertable(InsertOrder[k + 1], Inserted(k))
  <2>1. /\ InsertOrder[1] = {"workspace"} /\ InsertOrder[2] = {"role"} /\ InsertOrder[3] = {"user"}
        /\ InsertOrder[4] = {"member"} /\ InsertOrder[5] = {"object", "permission"}
        /\ InsertOrder[6] = {"agent"}
    BY DEF InsertOrder
  <2>2. k \in {0, 1, 2, 3, 4, 5}
    BY <1>5
  <2>3. ASSUME NEW key \in Refers \cup Cascades, key[1] \in InsertOrder[k + 1] PROVE key[2] \in Inserted(k)
    <3>1. key \in {<<"user", "workspace">>, <<"user", "role">>, <<"member", "workspace">>,
                   <<"member", "user">>, <<"permission", "role">>, <<"execution", "agent">>}
      BY DEF Refers, Cascades
    <3>2. \/ key[1] = "user" /\ key[2] \in {"workspace", "role"}
          \/ key[1] = "member" /\ key[2] \in {"workspace", "user"}
          \/ key[1] = "permission" /\ key[2] = "role"
          \/ key[1] = "execution" /\ key[2] = "agent"
      BY <3>1
    <3>3. CASE k + 1 \in {1, 2, 6}
      BY <2>1, <2>3, <3>2, <3>3
    <3>4. CASE k + 1 = 3
      <4>1. key[2] \in InsertOrder[1] \cup InsertOrder[2]
        BY <2>1, <2>3, <3>2, <3>4
      <4>2. QED  BY <1>1, <3>4, <4>1
    <3>5. CASE k + 1 = 4
      <4>1. key[2] \in InsertOrder[1] \cup InsertOrder[3]
        BY <2>1, <2>3, <3>2, <3>5
      <4>2. QED  BY <1>1, <3>5, <4>1
    <3>6. CASE k + 1 = 5
      <4>1. key[2] \in InsertOrder[2]
        BY <2>1, <2>3, <3>2, <3>6
      <4>2. QED  BY <1>1, <3>6, <4>1
    <3>7. QED  BY <2>2, <3>3, <3>4, <3>5, <3>6
  <2>4. QED  BY <2>3 DEF insertable
<1>6. QED  BY <1>2, <1>3, <1>4, <1>5

\* Of what was inserted, all but the role alone is found.
LEMMA InsertedFound ==
    ASSUME NEW k \in 0..6, NEW t \in Inserted(k)
    PROVE  /\ "workspace" \in Inserted(k)
           /\ t = "permission" => "user" \in Inserted(k)
<1>1. PICK j \in 1..k : t \in InsertOrder[j]
  BY DEF Inserted
<1>2. ASSUME NEW i \in 1..k, NEW x \in InsertOrder[i] PROVE x \in Inserted(k)
  BY DEF Inserted
<1>3. /\ InsertOrder[1] = {"workspace"} /\ InsertOrder[2] = {"role"} /\ InsertOrder[3] = {"user"}
      /\ InsertOrder[4] = {"member"} /\ InsertOrder[5] = {"object", "permission"}
      /\ InsertOrder[6] = {"agent"}
  BY DEF InsertOrder
<1>4. "workspace" \in Inserted(k)
  BY <1>1, <1>2, <1>3
<1>5. ASSUME t = "permission" PROVE "user" \in Inserted(k)
  <2>1. j \in {1, 2, 3, 4, 5, 6}
    BY <1>1
  <2>2. j = 5
    BY <1>1, <1>3, <1>5, <2>1
  <2>3. 3 \in 1..k
    BY <1>1, <2>2
  <2>4. QED  BY <1>2, <1>3, <2>3
<1>6. QED  BY <1>4, <1>5

\* Ghosts only grow, and so do the excuses.
Grow == met \subseteq met' /\ cut \subseteq cut' /\ late \subseteq late'

LEMMA ExcusesGrow ==
    ASSUME Grow, NEW s
    PROVE  Late(s) \subseteq Late(s)' /\ Excused(s) \subseteq Excused(s)'
BY DEF Grow, Late, Excused

\* A session nobody does anything to stays as it is, and so does a recycler.
LEMMA WorldStays ==
    ASSUME NEW s \in Sessions, WorldOK(s), Grow,
           rows'[s] = rows[s], creation'[s] = creation[s],
           token'[s] # None <=> token[s] # None,
           request'[s] # "none" => request[s] # "none" \/ token[s] # None,
           \A p \in Processes : reaper'[p] = reaper[p] \/ (reaper[p].at # s /\ reaper'[p].at # s)
    PROVE  WorldOK(s)'
<1>1. Recycling(s)' <=> Recycling(s)
  BY DEF Recycling, Processes
<1>2. ASSUME RolePromised(s) PROVE RolePromised(s)'
  <2>1. PICK p \in Processes : reaper[p].at = s /\ reaper[p].step <= 6 /\ reaper[p].role
    BY <1>2 DEF RolePromised
  <2>2. reaper'[p] = reaper[p]
    BY <2>1
  <2>3. QED  BY <2>1, <2>2 DEF RolePromised
<1>3. creation[s].state = "none" => rows[s] = {} /\ creation[s].inserted = 0
  BY DEF WorldOK
<1>4. (token[s] # None => creation[s].state = "registered") /\ (request[s] # "none" => token[s] # None)
  BY DEF WorldOK
<1>5. s \notin met' /\ Creating(s)' => ~Recycling(s)' /\ rows'[s] = Inserted(creation[s].inserted)
  BY <1>1 DEF WorldOK, Creating, Grow
<1>6. ASSUME s \notin met', ~Creating(s)', NEW t \in rows'[s] \ Excused(s)'
      PROVE  Found(s, t)' \/ (t = "role" /\ RolePromised(s)')
  <2>1. s \notin met /\ ~Creating(s) /\ t \in rows[s] \ Excused(s)
    BY <1>6, ExcusesGrow DEF Creating, Grow
  <2>2. Found(s, t) \/ (t = "role" /\ RolePromised(s))
    BY <2>1 DEF WorldOK
  <2>3. QED  BY <1>2, <2>2 DEF Found
<1>7. /\ s \notin met' \cup cut' /\ creation'[s].state = "registered"
      /\ ~Recycling(s)' /\ "workspace" \in rows'[s]
      => Seed \subseteq rows'[s]
  BY <1>1 DEF WorldOK, Grow
<1>8. QED  BY <1>3, <1>4, <1>5, <1>6, <1>7 DEF WorldOK

LEMMA RecyclerStays ==
    ASSUME NEW p \in Processes, RecyclerOK(p), reaper'[p] = reaper[p],
           reaper[p].todo \subseteq Sessions, Grow,
           \A x \in Sessions : creation[x].state # "none" => creation'[x].state # "none",
           \A x \in Sessions \ met' :
               reaper[p].at = x => /\ rows'[x] \ Late(x)' \subseteq rows[x]
                                   /\ "user" \in rows'[x] => "user" \in rows[x]
    PROVE  RecyclerOK(p)'
<1>1. /\ reaper'[p].phase = "list" => reaper'[p].at = None
      /\ \A s \in reaper'[p].todo : creation'[s].state # "none"
      /\ reaper'[p].user => reaper'[p].role
  BY DEF RecyclerOK
<1>2. ASSUME NEW x \in Sessions, reaper[p].at = x
      PROVE  /\ creation'[x].state # "none"
             /\ x \notin met' /\ reaper[p].step > 0 =>
                    /\ "user" \in rows'[x] => reaper[p].user
                    /\ \A t \in rows'[x] \ Late(x)' : StepOf(t) < reaper[p].step => ~Willing(reaper[p], t)
  <2>1. creation'[x].state # "none"
    BY <1>2 DEF RecyclerOK
  <2>2. ASSUME x \notin met', reaper[p].step > 0, "user" \in rows'[x] PROVE reaper[p].user
    BY <1>2, <2>2 DEF RecyclerOK, Grow
  <2>3. ASSUME x \notin met', reaper[p].step > 0, NEW t \in rows'[x] \ Late(x)', StepOf(t) < reaper[p].step
        PROVE  ~Willing(reaper[p], t)
    <3>1. t \in rows[x] \ Late(x) /\ x \notin met
      BY <1>2, <2>3, ExcusesGrow DEF Grow
    <3>2. QED  BY <1>2, <2>3, <3>1 DEF RecyclerOK
  <2>4. QED  BY <2>1, <2>2, <2>3
<1>3. QED  BY <1>1, <1>2 DEF RecyclerOK, Willing

LEMMA TodoKnown ==
    ASSUME PlaygroundTypeOK, NEW p \in Processes
    PROVE  reaper[p].todo \subseteq Sessions /\ reaper[p].at \in Sessions \cup {None} /\ reaper[p] \in Reaper
BY DEF PlaygroundTypeOK, Reaper

\* Requests of visitors.
LEMMA VisitorWorld ==
    ASSUME PlaygroundTypeOK, PlaygroundTypeOK', World, NEW s \in Sessions, Visitor(s)
    PROVE  World'
<1>1. reaper' = reaper /\ Grow /\ cut' = cut /\ met' = met
  BY DEF Visitor, CreateSession, InsertRow, Register, ExecuteAgent, Decide, FindApproval, ChangeAgents, Write,
         ghosts, Grow
<1>2. ASSUME NEW x \in Sessions, x # s
      PROVE  /\ rows'[x] = rows[x] /\ creation'[x] = creation[x] /\ token'[x] = token[x]
             /\ request'[x] = request[x] /\ Late(x)' = Late(x)
  BY <1>2 DEF Visitor, CreateSession, InsertRow, Register, ExecuteAgent, Decide, FindApproval, ChangeAgents, Write,
              ghosts, PlaygroundTypeOK, Late
<1>3. ASSUME NEW x \in Sessions, x # s PROVE WorldOK(x)'
  BY <1>1, <1>2, <1>3, WorldStays DEF World
<1>4. WorldOK(s) /\ creation[s] \in Creation
  BY DEF World, PlaygroundTypeOK
<1>5. creation[s].state # "none" => creation'[s].state # "none"
  BY <1>4 DEF Visitor, CreateSession, InsertRow, Register, ExecuteAgent, Decide, FindApproval, ChangeAgents, Write,
              ghosts, PlaygroundTypeOK, Creation, Done
<1>6. (Recycling(s)' <=> Recycling(s)) /\ (RolePromised(s)' <=> RolePromised(s))
  BY <1>1 DEF Recycling, RolePromised
<1>7. /\ WorldOK(s)'
      /\ s \notin met /\ Recycling(s) => /\ rows'[s] \ Late(s)' \subseteq rows[s]
                                         /\ "user" \in rows'[s] => "user" \in rows[s]
  <2>1. CASE CreateSession(s)
    <3>1. /\ creation[s].state = "none" /\ creation[s].inserted = 0 /\ rows[s] = {} /\ rows'[s] = {}
          /\ token'[s] = token[s] /\ request'[s] = request[s]
      BY <1>4, <2>1 DEF CreateSession, WorldOK
    <3>2. creation'[s].state = "inserting" /\ creation'[s].inserted = 0
      BY <1>4, <2>1, <3>1 DEF CreateSession, Creation, PlaygroundTypeOK
    <3>3. ~Recycling(s)
      <4>1. ASSUME NEW p \in Processes, reaper[p].at = s PROVE FALSE
        BY <3>1, <4>1 DEF World, RecyclerOK
      <4>2. QED  BY <4>1, RecyclingMeans
    <3>4. rows'[s] = Inserted(creation'[s].inserted)
      BY <3>1, <3>2, InsertSteps
    <3>5. QED  BY <1>4, <1>6, <3>1, <3>2, <3>3, <3>4 DEF WorldOK, Creating
  <2>2. CASE InsertRow(s)
    <3>1. /\ creation[s].state = "inserting" /\ token'[s] = token[s] /\ request'[s] = request[s]
          /\ token[s] = None /\ request[s] = "none"
      BY <1>4, <2>2 DEF InsertRow, Creating, WorldOK
    <3>2. creation[s].inserted \in 0..5
      BY <1>4, <2>2, SeedTables DEF InsertRow, Creation
    <3>3. s \notin met => /\ ~Recycling(s) /\ rows[s] = Inserted(creation[s].inserted)
                          /\ insertable(InsertOrder[creation[s].inserted + 1], rows[s])
      BY <1>4, <3>1, <3>2, InsertSteps DEF WorldOK, Creating
    <3>4. CASE /\ rows' = [rows EXCEPT ![s] = @ \cup InsertOrder[creation[s].inserted + 1]]
               /\ creation' = [creation EXCEPT ![s].inserted = @ + 1]
      <4>1. /\ creation'[s].state = "inserting" /\ creation'[s].inserted = creation[s].inserted + 1
            /\ rows'[s] = rows[s] \cup InsertOrder[creation[s].inserted + 1]
        BY <1>4, <3>1, <3>4 DEF PlaygroundTypeOK, Creation
      <4>2. s \notin met => rows'[s] = Inserted(creation[s].inserted + 1)
        BY <3>2, <3>3, <4>1, InsertSteps
      <4>3. QED  BY <1>1, <1>6, <3>1, <3>3, <4>1, <4>2 DEF WorldOK, Creating
    <3>5. CASE /\ ~insertable(InsertOrder[creation[s].inserted + 1], rows[s])
               /\ creation' = [creation EXCEPT ![s] = Done("failed")]
      <4>1. creation'[s].state = "failed" /\ s \in met
        BY <3>3, <3>5 DEF PlaygroundTypeOK, Done
      <4>2. QED  BY <1>1, <3>1, <4>1 DEF WorldOK, Creating
    <3>6. QED  BY <2>2, <3>4, <3>5 DEF InsertRow
  <2>3. CASE Register(s)
    <3>1. /\ creation[s].state = "inserting" /\ creation[s].inserted = 6
          /\ rows' = rows /\ request'[s] = request[s]
      BY <2>3, SeedTables DEF Register, Creating
    <3>2. creation'[s].state = "registered"
      BY <2>3 DEF Register, Done, PlaygroundTypeOK
    <3>3. token'[s] = 0 /\ token'[s] # None
      BY <2>3, NoneIsNoSession DEF Register, PlaygroundTypeOK
    <3>4. s \notin met => ~Recycling(s) /\ rows[s] = Seed
      BY <1>4, <3>1, InsertSteps DEF WorldOK, Creating
    <3>5. ASSUME s \notin met, NEW t PROVE Found(s, t)'
      BY <3>1, <3>4, <3>5, SeedTables DEF Found
    <3>6. QED  BY <1>1, <1>6, <3>1, <3>2, <3>3, <3>4, <3>5 DEF WorldOK, Creating
  <2>4. CASE ExecuteAgent(s) \/ Decide(s) \/ FindApproval(s) \/ ChangeAgents(s)
    <3>1. rows' = rows /\ creation' = creation /\ token' = token /\ token[s] # None
      BY <1>4, <2>4 DEF ExecuteAgent, Decide, FindApproval, ChangeAgents, authenticate, WorldOK
    <3>2. QED  BY <1>1, <1>4, <3>1, WorldStays
  <2>5. CASE Write(s)
    <3>1. /\ creation' = creation /\ token' = token /\ token[s] # None /\ creation[s].state = "registered"
          /\ ~Creating(s)
      BY <1>4, <2>5 DEF Write, WorldOK, Creating
    <3>2. rows'[s] = rows[s] \cup Writes(s) /\ Writes(s) \subseteq LateTables
      BY <2>5, WritesLate DEF Write, PlaygroundTypeOK
    <3>3. rows'[s] = rows[s] \/ s \in late' \/ (~Recycling(s) /\ "workspace" \in rows[s])
      BY <2>5, <3>2 DEF Write
    <3>4. rows'[s] \ Late(s)' \subseteq rows[s] \/ (~Recycling(s) /\ "workspace" \in rows[s])
      BY <3>2, <3>3 DEF Late
    <3>5. "user" \in rows'[s] => "user" \in rows[s]
      BY <3>2, LateAreTables
    <3>6. ASSUME s \notin met, NEW t \in rows'[s] \ Excused(s)'
          PROVE  Found(s, t)' \/ (t = "role" /\ RolePromised(s)')
      <4>1. CASE t \in rows[s]
        <5>1. Found(s, t) \/ (t = "role" /\ RolePromised(s))
          BY <1>1, <1>4, <3>1, <3>6, <4>1, ExcusesGrow DEF WorldOK
        <5>2. QED  BY <1>6, <3>2, <5>1 DEF Found
      <4>2. CASE t \notin rows[s]
        <5>1. "workspace" \in rows[s] /\ t \in LateTables
          BY <3>2, <3>4, <3>6, <4>2 DEF Excused
        <5>2. QED  BY <3>2, <5>1, LateAreTables DEF Found
      <4>3. QED  BY <4>1, <4>2
    <3>7. "workspace" \in rows'[s] => "workspace" \in rows[s]
      BY <3>2, LateAreTables
    <3>8. WorldOK(s)'
      BY <1>1, <1>4, <1>6, <3>1, <3>2, <3>6, <3>7 DEF WorldOK, Creating
    <3>9. QED  BY <3>4, <3>5, <3>8
  <2>6. CASE rows' = rows /\ WorldOK(s)'
    BY <2>6
  <2>7. QED
    BY <2>1, <2>2, <2>3, <2>4, <2>5, <2>6 DEF Visitor, CreateSession, Register, ExecuteAgent, Decide, FindApproval,
       ChangeAgents
<1>8. ASSUME NEW p \in Processes PROVE RecyclerOK(p)'
  <2>1. ASSUME NEW x \in Sessions \ met', reaper[p].at = x
        PROVE  rows'[x] \ Late(x)' \subseteq rows[x] /\ ("user" \in rows'[x] => "user" \in rows[x])
    <3>1. x = s => Recycling(s)
      BY <2>1, RecyclingMeans
    <3>2. QED  BY <1>1, <1>2, <1>7, <2>1, <3>1
  <2>2. \A x \in Sessions : creation[x].state # "none" => creation'[x].state # "none"
    BY <1>2, <1>5
  <2>3. QED  BY <1>1, <2>1, <2>2, RecyclerStays, TodoKnown DEF World
<1>9. ASSUME NEW x \in Sessions, registry'[x] # None PROVE creation'[x].state = "registered"
  <2>1. CASE Register(s) /\ x = s
    BY <2>1 DEF Register, Done, PlaygroundTypeOK
  <2>2. CASE ~(Register(s) /\ x = s)
    <3>1. registry[x] # None
      BY <1>9, <2>2 DEF Visitor, CreateSession, InsertRow, Register, ExecuteAgent, Decide, FindApproval,
                        ChangeAgents, Write, countExecution, Registered, PlaygroundTypeOK
    <3>2. creation[x].state = "registered"
      BY <3>1 DEF World
    <3>3. creation'[x] = creation[x]
      BY <1>2, <2>2, <3>2 DEF Visitor, CreateSession, InsertRow, Creating, ExecuteAgent, Decide, FindApproval,
                              ChangeAgents, Write
    <3>4. QED  BY <3>2, <3>3
  <2>3. QED  BY <2>1, <2>2
<1>10. QED  BY <1>3, <1>7, <1>8, <1>9 DEF World

\* What a step of a recycler leaves alone.
LEMMA RecyclerFrame ==
    ASSUME World, RecyclerOnly
    PROVE  /\ \A x \in Sessions : creation'[x] = creation[x] /\ token'[x] = token[x] /\ request'[x] = request[x]
           /\ \A x \in Sessions : registry[x] # None => creation'[x].state = "registered"
BY DEF RecyclerOnly, World

\* A recycler that is at no session, before and after.
LEMMA IdleRecycler ==
    ASSUME NEW p \in Processes, reaper'[p].at = None, ~reaper'[p].user,
           \A s \in reaper'[p].todo : creation'[s].state # "none"
    PROVE  RecyclerOK(p)'
BY NoneIsNoSession DEF RecyclerOK

LEMMA ListWorld ==
    ASSUME PlaygroundTypeOK, World, Tick \/ SweepOrphans
    PROVE  World'
<1>1. PICK p \in Processes, todo \in SUBSET Sessions :
          /\ SetReaper(p, Working(todo))
          /\ reaper[p].at = None
          /\ \A s \in todo : creation[s].state # "none"
  <2>1. CASE Tick
    <3>1. reaper["tick"].at = None
      BY <2>1, AsleepTyped DEF Tick
    <3>2. expiredWorkspaceIds \in SUBSET Sessions
      BY DEF expiredWorkspaceIds, Registered
    <3>3. \A s \in expiredWorkspaceIds : creation[s].state # "none"
      BY DEF expiredWorkspaceIds, Registered, World
    <3>4. SetReaper("tick", Working(expiredWorkspaceIds))
      BY <2>1 DEF Tick
    <3>5. QED  BY <3>1, <3>2, <3>3, <3>4, TwoProcesses
  <2>2. CASE SweepOrphans
    <3>1. reaper["sweep"].at = None
      BY <2>2, TwoProcesses DEF SweepOrphans, World, RecyclerOK
    <3>2. PICK todo \in SUBSET Sessions : todo = {s \in Sessions : "workspace" \in rows[s]}
      OBVIOUS
    <3>3. \A s \in todo : creation[s].state # "none"
      BY <3>2 DEF World, WorldOK
    <3>4. SetReaper("sweep", Working(todo))
      BY <2>2, <3>2 DEF SweepOrphans
    <3>5. QED  BY <3>1, <3>3, <3>4, TwoProcesses
  <2>3. QED  BY <2>1, <2>2
<1>2. /\ \A q \in Processes \ {p} : reaper'[q] = reaper[q]
      /\ reaper'[p].todo = todo /\ reaper'[p].at = None /\ ~reaper'[p].user
  BY <1>1, Listed
<1>3. RecyclerOnly /\ rows' = rows /\ registry' = registry /\ Grow /\ late' = late
  BY DEF Tick, SweepOrphans, ghosts, Grow
<1>4. /\ \A x \in Sessions : creation'[x] = creation[x] /\ token'[x] = token[x] /\ request'[x] = request[x]
      /\ \A x \in Sessions : registry'[x] # None => creation'[x].state = "registered"
  BY <1>3, RecyclerFrame
<1>5. ASSUME NEW s \in Sessions PROVE WorldOK(s)'
  <2>1. \A q \in Processes : reaper'[q] = reaper[q] \/ (reaper[q].at # s /\ reaper'[q].at # s)
    BY <1>1, <1>2, NoneIsNoSession
  <2>2. QED  BY <1>3, <1>4, <2>1, WorldStays DEF World
<1>6. ASSUME NEW q \in Processes PROVE RecyclerOK(q)'
  <2>1. CASE q = p
    BY <1>1, <1>2, <1>4, <2>1, IdleRecycler
  <2>2. CASE q # p
    BY <1>2, <1>3, <1>4, <2>2, RecyclerStays, TodoKnown DEF World
  <2>3. QED  BY <2>1, <2>2
<1>7. QED  BY <1>4, <1>5, <1>6 DEF World

LEMMA ClearWorld ==
    ASSUME PlaygroundTypeOK, World, Clear
    PROVE  World'
<1>1. /\ \A q \in Processes \ {"sweep"} : reaper'[q] = reaper[q]
      /\ reaper["sweep"].at = None
      /\ reaper'["sweep"].todo = {} /\ reaper'["sweep"].at = None /\ ~reaper'["sweep"].user
  BY Ended, TwoProcesses DEF Clear
<1>2. rows' = rows /\ creation' = creation /\ token' = token /\ request' = request /\ Grow
  BY DEF Clear, Grow
<1>3. ASSUME NEW s \in Sessions PROVE WorldOK(s)' /\ registry'[s] = None
  <2>1. \A q \in Processes : reaper'[q] = reaper[q] \/ (reaper[q].at # s /\ reaper'[q].at # s)
    BY <1>1, NoneIsNoSession
  <2>2. registry'[s] = None
    BY DEF Clear
  <2>3. QED  BY <1>2, <2>1, <2>2, WorldStays DEF World
<1>4. ASSUME NEW q \in Processes PROVE RecyclerOK(q)'
  <2>1. CASE q = "sweep"
    BY <1>1, <2>1, IdleRecycler
  <2>2. CASE q # "sweep"
    BY <1>1, <1>2, <2>2, RecyclerStays, TodoKnown DEF World
  <2>3. QED  BY <2>1, <2>2
<1>5. QED  BY <1>3, <1>4 DEF World

\* What a creation or a recycling leaves when the process stops is excused, or found.
LEMMA NewProcessWorld ==
    ASSUME PlaygroundTypeOK, World, NewProcess
    PROVE  World'
<1>1. ASSUME NEW p \in Processes PROVE RecyclerOK(p)' /\ reaper'[p].at = None
  <2>1. reaper'[p] = Asleep \/ reaper'[p] = [Asleep EXCEPT !.phase = "list"]
    BY DEF NewProcess, Processes
  <2>2. PICK asleep : asleep = Asleep
    OBVIOUS
  <2>3. asleep \in Reaper /\ asleep.todo = {} /\ asleep.at = None /\ ~asleep.user
    BY <2>2, AsleepTyped
  <2>4. PICK list : list = [asleep EXCEPT !.phase = "list"]
    OBVIOUS
  <2>5. list.todo = {} /\ list.at = None /\ ~list.user
    BY <2>3, <2>4 DEF Reaper
  <2>6. reaper'[p] = asleep \/ reaper'[p] = list
    BY <2>1, <2>2, <2>4
  <2>7. reaper'[p].todo = {} /\ reaper'[p].at = None /\ ~reaper'[p].user
    BY <2>3, <2>5, <2>6
  <2>8. QED  BY <2>7, IdleRecycler
<1>2. ASSUME NEW s \in Sessions PROVE WorldOK(s)' /\ registry'[s] = None
  <2>1. /\ rows'[s] = rows[s] /\ token'[s] = token[s] /\ request'[s] = "none" /\ registry'[s] = None
        /\ creation'[s] = IF Creating(s) THEN Done("failed") ELSE creation[s]
        /\ s \in cut' <=> s \in cut \/ Creating(s) \/ Recycling(s)
        /\ Grow /\ met' = met
    BY DEF NewProcess, Grow
  <2>2. ~Recycling(s)'
    BY <1>1, NoneIsNoSession DEF Recycling, Processes
  <2>3. WorldOK(s) /\ creation[s] \in Creation
    BY DEF World, PlaygroundTypeOK
  <2>4. s \in cut' => "role" \in Excused(s)'
    BY DEF Excused
  <2>5. CASE Creating(s)
    <3>1. token[s] = None /\ creation'[s].state = "failed"
      BY <2>1, <2>3, <2>5 DEF WorldOK, Creating, Done
    <3>2. ASSUME s \notin met', NEW t \in rows'[s] \ Excused(s)' PROVE Found(s, t)'
      <4>1. rows[s] = Inserted(creation[s].inserted) /\ creation[s].inserted \in 0..6
        BY <2>1, <2>3, <2>5, <3>2 DEF WorldOK, Creation
      <4>2. t # "role"
        BY <2>1, <2>4, <2>5, <3>2
      <4>3. QED  BY <2>1, <3>2, <4>1, <4>2, InsertedFound DEF Found
    <3>3. QED  BY <2>1, <2>2, <3>1, <3>2 DEF WorldOK, Creating
  <2>6. CASE ~Creating(s)
    <3>1. creation'[s] = creation[s]
      BY <2>1, <2>6
    <3>2. ASSUME s \notin met', NEW t \in rows'[s] \ Excused(s)' PROVE Found(s, t)'
      <4>1. t \in rows[s] \ Excused(s)
        BY <2>1, <3>2, ExcusesGrow
      <4>2. Found(s, t) \/ (t = "role" /\ RolePromised(s))
        BY <2>1, <2>3, <2>6, <3>2, <4>1 DEF WorldOK
      <4>3. t = "role" => ~RolePromised(s)
        BY <2>1, <2>4, <3>2, RecyclingMeans DEF RolePromised
      <4>4. QED  BY <2>1, <4>2, <4>3 DEF Found
    <3>3. QED  BY <2>1, <2>2, <2>3, <2>6, <3>1, <3>2 DEF WorldOK, Creating
  <2>7. QED  BY <2>1, <2>5, <2>6
<1>3. QED  BY <1>1, <1>2 DEF World

LEMMA ClockWorld ==
    ASSUME PlaygroundTypeOK, World, Clock
    PROVE  World'
<1>1. rows' = rows /\ creation' = creation /\ request' = request /\ reaper' = reaper /\ Grow
  BY DEF Clock, Grow
<1>2. ASSUME NEW s \in Sessions PROVE token'[s] # None <=> token[s] # None
  BY OlderTyped, NoneIsNoSession DEF Clock, PlaygroundTypeOK
<1>3. ASSUME NEW s \in Sessions, registry'[s] # None PROVE registry[s] # None
  BY <1>3 DEF Clock, Registered
<1>4. ASSUME NEW s \in Sessions PROVE WorldOK(s)'
  BY <1>1, <1>2, WorldStays DEF World
<1>5. ASSUME NEW p \in Processes PROVE RecyclerOK(p)'
  BY <1>1, RecyclerStays, TodoKnown DEF World
<1>6. QED  BY <1>1, <1>3, <1>4, <1>5 DEF World

\* A recycler that gives its session up, or has met a fault there, breaks no promise.
LEMMA LeftWorld ==
    ASSUME PlaygroundTypeOK, World, NEW p \in Processes, NEW s \in Sessions, reaper[p].at = s,
           Proceed(p) \/ Abandon(p), RecyclerOnly, rows' = rows, Grow,
           \A x \in Sessions : registry'[x] # None => registry[x] # None,
           s \notin cut' => reaper[p].step > 8
    PROVE  World'
<1>1. /\ \A q \in Processes \ {p} : reaper'[q] = reaper[q]
      /\ reaper'[p].todo \subseteq reaper[p].todo /\ reaper'[p].at = None /\ ~reaper'[p].user
  BY Left
<1>2. /\ \A x \in Sessions : creation'[x] = creation[x] /\ token'[x] = token[x] /\ request'[x] = request[x]
      /\ \A x \in Sessions : registry'[x] # None => creation'[x].state = "registered"
  BY RecyclerFrame
<1>3. ASSUME NEW x \in Sessions, x # s PROVE WorldOK(x)'
  <2>1. \A q \in Processes : reaper'[q] = reaper[q] \/ (reaper[q].at # x /\ reaper'[q].at # x)
    BY <1>1, <1>3, NoneIsNoSession
  <2>2. QED  BY <1>2, <2>1, WorldStays DEF World
<1>4. WorldOK(s)'
  <2>1. /\ WorldOK(s) /\ rows[s] \subseteq Tables /\ reaper[p].step \in 0..9 /\ RecyclerOK(p)
        /\ creation'[s] = creation[s] /\ token'[s] = token[s] /\ request'[s] = request[s]
    BY <1>2, OnlyTables DEF World, PlaygroundTypeOK, Reaper
  <2>2. Recycling(s)
    BY RecyclingMeans
  <2>3. s \notin met' => ~Creating(s)' /\ ~Creating(s)
    BY <2>1, <2>2 DEF WorldOK, Creating, Grow
  <2>4. ASSUME s \notin met', NEW t \in rows'[s] \ Excused(s)'
        PROVE  Found(s, t)' \/ (t = "role" /\ RolePromised(s)')
    <3>1. Found(s, t) \/ (t = "role" /\ RolePromised(s))
      BY <2>1, <2>3, <2>4, ExcusesGrow DEF WorldOK, Grow
    <3>2. ASSUME t = "role" PROVE s \notin cut'
      BY <2>4, <3>2 DEF Excused
    <3>3. ASSUME t = "role", RolePromised(s) PROVE RolePromised(s)'
      <4>1. PICK q \in Processes : reaper[q].at = s /\ reaper[q].step <= 6 /\ reaper[q].role
        BY <3>3 DEF RolePromised
      <4>2. q # p
        BY <2>1, <3>2, <3>3, <4>1
      <4>3. QED  BY <1>1, <4>1, <4>2 DEF RolePromised
    <3>4. QED  BY <3>1, <3>3 DEF Found
  <2>5. ASSUME s \notin met' \cup cut' PROVE "workspace" \notin rows'[s]
    <3>1. reaper[p].step > 8 /\ s \notin met /\ s # None
      BY <2>5, NoneIsNoSession DEF Grow
    <3>2. "workspace" \in Tables /\ StepOf("workspace") \in 1..8 /\ "workspace" \notin Late(s)
      BY SeedTables, DeleteSteps, LateAreTables DEF Late
    <3>3. Willing(reaper[p], "workspace")
      BY DEF Willing
    <3>4. QED  BY <2>1, <3>1, <3>2, <3>3 DEF RecyclerOK
  <2>6. QED  BY <2>1, <2>3, <2>4, <2>5 DEF WorldOK, Creating
<1>5. ASSUME NEW q \in Processes PROVE RecyclerOK(q)'
  <2>1. CASE q = p
    BY <1>1, <1>2, <2>1, IdleRecycler, TodoKnown DEF World, RecyclerOK
  <2>2. CASE q # p
    BY <1>1, <1>2, <2>2, RecyclerStays, TodoKnown DEF World
  <2>3. QED  BY <2>1, <2>2
<1>6. QED  BY <1>2, <1>3, <1>4, <1>5 DEF World

LEMMA ForgetWorld ==
    ASSUME PlaygroundTypeOK, World, NEW p \in Processes, Forget(p) \/ DeleteThrows(p)
    PROVE  World'
<1>1. PICK s \in Sessions : reaper[p].at = s
  BY TodoKnown DEF Forget, DeleteThrows
<1>2. CASE Forget(p)
  <2>1. \A x \in Sessions : registry'[x] # None => registry[x] # None
    BY <1>1, <1>2 DEF Forget, PlaygroundTypeOK
  <2>2. QED  BY <1>1, <1>2, <2>1, LeftWorld, SeedTables DEF Forget, ghosts, Grow
<1>3. CASE DeleteThrows(p)
  BY <1>1, <1>3, LeftWorld DEF DeleteThrows, Grow
<1>4. QED  BY <1>2, <1>3

\* The next workspace of the list.
LEMMA NextWorkspaceWorld ==
    ASSUME PlaygroundTypeOK, World, NEW p \in Processes, NextWorkspace(p)
    PROVE  World'
<1>1. PICK s \in reaper[p].todo :
          /\ SetReaper(p, [phase |-> "work", todo |-> reaper[p].todo \ {s}, at |-> s, step |-> 0,
                           user |-> FALSE, role |-> p = "sweep" /\ "user" \in rows[s]])
          /\ met' = IF Creating(s) THEN met \cup {s} ELSE met
  BY DEF NextWorkspace
<1>2. /\ s \in Sessions /\ reaper[p].at = None /\ rows' = rows /\ registry' = registry /\ RecyclerOnly
      /\ Grow
  BY <1>1, TodoKnown DEF NextWorkspace, Grow
<1>3. /\ \A x \in Sessions : creation'[x] = creation[x] /\ token'[x] = token[x] /\ request'[x] = request[x]
      /\ \A x \in Sessions : registry'[x] # None => creation'[x].state = "registered"
  BY <1>2, RecyclerFrame
<1>4. /\ \A q \in Processes \ {p} : reaper'[q] = reaper[q]
      /\ reaper'[p].phase = "work" /\ reaper'[p].todo = reaper[p].todo \ {s} /\ reaper'[p].at = s
      /\ reaper'[p].step = 0 /\ ~reaper'[p].user
  <2>1. PICK role \in BOOLEAN : role = (p = "sweep" /\ "user" \in rows[s])
    OBVIOUS
  <2>2. PICK next : next = [phase |-> "work", todo |-> reaper[p].todo \ {s}, at |-> s, step |-> 0,
                            user |-> FALSE, role |-> role]
    OBVIOUS
  <2>3. SetReaper(p, next)
    BY <1>1, <2>1, <2>2, Zenon
  <2>4. /\ next \in Reaper
        /\ next.phase = "work" /\ next.todo = reaper[p].todo \ {s} /\ next.at = s /\ next.step = 0
        /\ ~next.user
    BY <1>2, <2>1, <2>2, Picked
  <2>5. QED  BY <2>3, <2>4, ReaperTyped DEF PlaygroundTypeOK
<1>5. ASSUME NEW x \in Sessions, x # s PROVE WorldOK(x)'
  <2>1. \A q \in Processes : reaper'[q] = reaper[q] \/ (reaper[q].at # x /\ reaper'[q].at # x)
    BY <1>2, <1>4, <1>5, NoneIsNoSession
  <2>2. QED  BY <1>2, <1>3, <1>5, <2>1, WorldStays DEF World
<1>6. WorldOK(s)'
  <2>1. /\ WorldOK(s) /\ rows'[s] = rows[s]
        /\ creation'[s] = creation[s] /\ token'[s] = token[s] /\ request'[s] = request[s]
    BY <1>2, <1>3 DEF World
  <2>2. Recycling(s)'
    BY <1>4 DEF Recycling, Processes
  <2>3. s \notin met' => s \notin met /\ ~Creating(s) /\ ~Creating(s)'
    BY <1>1, <2>1 DEF Creating
  <2>4. RolePromised(s) => RolePromised(s)'
    <3>1. ASSUME NEW q \in Processes, reaper[q].at = s PROVE reaper'[q] = reaper[q]
      BY <1>2, <1>4, <3>1, NoneIsNoSession
    <3>2. QED  BY <3>1 DEF RolePromised
  <2>5. ASSUME s \notin met', NEW t \in rows'[s] \ Excused(s)'
        PROVE  Found(s, t)' \/ (t = "role" /\ RolePromised(s)')
    <3>1. Found(s, t) \/ (t = "role" /\ RolePromised(s))
      BY <1>2, <2>1, <2>3, <2>5, ExcusesGrow DEF WorldOK
    <3>2. QED  BY <2>1, <2>4, <3>1 DEF Found
  <2>6. QED  BY <2>1, <2>2, <2>3, <2>5 DEF WorldOK
<1>7. ASSUME NEW q \in Processes PROVE RecyclerOK(q)'
  <2>1. CASE q = p
    <3>1. \A x \in reaper[p].todo : x \in Sessions /\ creation[x].state # "none"
      BY TodoKnown DEF World, RecyclerOK
    <3>2. QED  BY <1>3, <1>4, <2>1, <3>1 DEF RecyclerOK
  <2>2. CASE q # p
    BY <1>2, <1>3, <1>4, <2>2, RecyclerStays, TodoKnown DEF World
  <2>3. QED  BY <2>1, <2>2
<1>8. QED  BY <1>3, <1>5, <1>6, <1>7 DEF World

\* Looking the user up keeps what was promised.
LEMMA LookupUserWorld ==
    ASSUME PlaygroundTypeOK, World, NEW p \in Processes, LookupUser(p)
    PROVE  World'
<1>1. PICK s \in Sessions : reaper[p].at = s
  BY TodoKnown DEF LookupUser
<1>2. reaper[p].step = 0 /\ RecyclerOnly /\ rows' = rows /\ registry' = registry /\ Grow
  BY DEF LookupUser, ghosts, Grow
<1>3. /\ \A x \in Sessions : creation'[x] = creation[x] /\ token'[x] = token[x] /\ request'[x] = request[x]
      /\ \A x \in Sessions : registry'[x] # None => creation'[x].state = "registered"
  BY <1>2, RecyclerFrame
<1>4. /\ \A q \in Processes \ {p} : reaper'[q] = reaper[q]
      /\ reaper'[p].phase = reaper[p].phase /\ reaper'[p].todo = reaper[p].todo
      /\ reaper'[p].at = s /\ reaper'[p].step = 1
      /\ reaper'[p].user <=> "user" \in rows[s]
      /\ reaper'[p].role <=> reaper[p].role \/ "user" \in rows[s]
  BY <1>1, LookedUp
<1>5. ASSUME NEW x \in Sessions, x # s PROVE WorldOK(x)'
  <2>1. \A q \in Processes : reaper'[q] = reaper[q] \/ (reaper[q].at # x /\ reaper'[q].at # x)
    BY <1>1, <1>4, <1>5
  <2>2. QED  BY <1>2, <1>3, <2>1, WorldStays DEF World
<1>6. WorldOK(s)'
  <2>1. /\ WorldOK(s) /\ rows'[s] = rows[s]
        /\ creation'[s] = creation[s] /\ token'[s] = token[s] /\ request'[s] = request[s]
    BY <1>2, <1>3 DEF World
  <2>2. Recycling(s) /\ Recycling(s)'
    BY <1>1, <1>4 DEF Recycling, Processes
  <2>3. RolePromised(s) => RolePromised(s)'
    BY <1>4 DEF RolePromised
  <2>4. s \notin met' => s \notin met /\ ~Creating(s) /\ ~Creating(s)'
    BY <1>2, <2>1, <2>2 DEF WorldOK, Creating, Grow
  <2>5. ASSUME s \notin met', NEW t \in rows'[s] \ Excused(s)'
        PROVE  Found(s, t)' \/ (t = "role" /\ RolePromised(s)')
    <3>1. Found(s, t) \/ (t = "role" /\ RolePromised(s))
      BY <1>2, <2>1, <2>4, <2>5, ExcusesGrow DEF WorldOK
    <3>2. QED  BY <2>1, <2>3, <3>1 DEF Found
  <2>6. QED  BY <2>1, <2>2, <2>4, <2>5 DEF WorldOK
<1>7. ASSUME NEW q \in Processes PROVE RecyclerOK(q)'
  <2>1. CASE q = p
    <3>1. \A t \in rows[s] : ~(StepOf(t) < 1)
      BY OnlyTables, DeleteSteps
    <3>2. RecyclerOK(p) /\ s # None
      BY NoneIsNoSession DEF World
    <3>3. /\ reaper'[p].phase = "list" => reaper'[p].at = None
          /\ \A x \in reaper'[p].todo : creation'[x].state # "none"
          /\ reaper'[p].user => reaper'[p].role
          /\ creation'[s].state # "none"
      BY <1>1, <1>3, <1>4, <3>2, TodoKnown DEF RecyclerOK
    <3>4. QED  BY <1>2, <1>4, <2>1, <3>1, <3>3 DEF RecyclerOK
  <2>2. CASE q # p
    BY <1>2, <1>3, <1>4, <2>2, RecyclerStays, TodoKnown DEF World
  <2>3. QED  BY <2>1, <2>2
<1>8. QED  BY <1>3, <1>5, <1>6, <1>7 DEF World

\* One of the deletes.  If the user goes, permissions are gone and whoever
\* deletes it goes on to the role; if the workspace goes, all else is gone.
LEMMA DeleteRowsWorld ==
    ASSUME PlaygroundTypeOK, World, NEW p \in Processes, DeleteRows(p)
    PROVE  World'
<1>1. PICK s \in Sessions : reaper[p].at = s
  BY TodoKnown DEF DeleteRows
<1>2. PICK r \in Reaper : r = reaper[p]
  BY TodoKnown
<1>3. PICK tables : tables = Deletes(r)
  OBVIOUS
<1>4. r.step \in 1..8 /\ RecyclerOnly /\ registry' = registry /\ Grow
  BY <1>2, SeedTables DEF DeleteRows, Grow
<1>5. /\ \A x \in Sessions : creation'[x] = creation[x] /\ token'[x] = token[x] /\ request'[x] = request[x]
      /\ \A x \in Sessions : registry'[x] # None => creation'[x].state = "registered"
  BY <1>4, RecyclerFrame
<1>6. \/ /\ rows' = [rows EXCEPT ![s] = without(tables, rows[s])]
         /\ SetReaper(p, [reaper[p] EXCEPT !.step = @ + 1])
         /\ UNCHANGED <<met, cut, late>>
      \/ Abandon(p) /\ cut' = cut \cup {s} /\ rows' = rows
  BY <1>1, <1>2, <1>3 DEF DeleteRows
<1>7. CASE Abandon(p) /\ cut' = cut \cup {s} /\ rows' = rows
  BY <1>1, <1>4, <1>7, LeftWorld
<1>8. CASE /\ rows' = [rows EXCEPT ![s] = without(tables, rows[s])]
           /\ SetReaper(p, [reaper[p] EXCEPT !.step = @ + 1])
           /\ UNCHANGED <<met, cut, late>>
  <2>1. /\ \A q \in Processes \ {p} : reaper'[q] = reaper[q]
        /\ reaper'[p].phase = r.phase /\ reaper'[p].todo = r.todo /\ reaper'[p].at = s
        /\ reaper'[p].step = r.step + 1 /\ reaper'[p].user = r.user /\ reaper'[p].role = r.role
    BY <1>1, <1>2, <1>4, <1>8, Stepped
  <2>2. /\ rows[s] \subseteq Tables /\ rows'[s] = without(tables, rows[s])
        /\ rows'[s] \subseteq rows[s] /\ rows'[s] \cap tables = {}
        /\ "user" \in rows[s] /\ "user" \notin rows'[s] => "user" \in tables
        /\ "workspace" \in rows[s] /\ "workspace" \notin rows'[s] => "workspace" \in tables
    <3>1. rows[s] \subseteq Tables /\ rows'[s] = without(tables, rows[s])
      BY <1>8, OnlyTables DEF PlaygroundTypeOK
    <3>2. ASSUME NEW key \in Cascades PROVE key[1] \notin {"user", "workspace"}
      BY DEF Cascades
    <3>3. QED  BY <3>1, <3>2 DEF without
  <2>3. \A x \in Sessions \ {s} : rows'[x] = rows[x]
    BY <1>8 DEF PlaygroundTypeOK
  <2>4. ASSUME NEW x \in Sessions, x # s PROVE WorldOK(x)'
    <3>1. \A q \in Processes : reaper'[q] = reaper[q] \/ (reaper[q].at # x /\ reaper'[q].at # x)
      BY <1>1, <1>2, <2>1, <2>4
    <3>2. QED  BY <1>4, <1>5, <2>3, <2>4, <3>1, WorldStays DEF World
  <2>5. RecyclerOK(p) /\ r.user \in BOOLEAN /\ r.role \in BOOLEAN
    BY <1>2 DEF World, Reaper
  <2>6. ASSUME NEW t \in Tables
        PROVE  t \in tables <=> StepOf(t) = r.step /\ Willing(r, t)
    BY <1>3, <1>4, DeletesAre
  <2>7. /\ r.user => r.role
        /\ s \notin met => /\ "user" \in rows[s] => r.user
                           /\ \A t \in rows[s] \ Late(s) : StepOf(t) < r.step => ~Willing(r, t)
    BY <1>1, <1>2, <1>4, <2>5 DEF RecyclerOK
  <2>8. ASSUME NEW t \in Tables
        PROVE  /\ StepOf(t) \in 1..8 /\ StepOf("permission") = 4 /\ StepOf("user") = 5
               /\ StepOf("role") = 6 /\ StepOf("workspace") = 8
               /\ t # "workspace" => StepOf(t) < 8
    BY DeleteSteps
  <2>9. {"user", "workspace", "role", "permission"} \subseteq Tables
    BY SeedTables
  <2>10. {"user", "workspace", "role", "permission"} \cap Late(s) = {}
    BY LateAreTables DEF Late
  <2>11. WorldOK(s)'
    <3>1. /\ WorldOK(s)
          /\ creation'[s] = creation[s] /\ token'[s] = token[s] /\ request'[s] = request[s]
      BY <1>5 DEF World
    <3>2. Recycling(s) /\ Recycling(s)'
      BY <1>1, <2>1 DEF Recycling, Processes
    <3>3. ASSUME RolePromised(s), "role" \in rows'[s] PROVE RolePromised(s)'
      <4>1. PICK q \in Processes : reaper[q].at = s /\ reaper[q].step <= 6 /\ reaper[q].role
        BY <3>3 DEF RolePromised
      <4>2. CASE q # p
        BY <2>1, <4>1, <4>2 DEF RolePromised
      <4>3. CASE q = p
        <5>1. Willing(r, "role") /\ "role" \notin tables /\ r.step <= 6
          BY <1>2, <2>2, <3>3, <4>1, <4>3 DEF Willing
        <5>2. r.step # 6
          BY <2>6, <2>8, <2>9, <5>1
        <5>3. QED  BY <1>2, <1>4, <2>1, <4>1, <4>3, <5>1, <5>2 DEF RolePromised
      <4>4. QED  BY <4>2, <4>3
    <3>4. ASSUME s \notin met, ~Creating(s), NEW t \in rows'[s] \ Excused(s), Found(s, t)
          PROVE  Found(s, t)' \/ (t = "role" /\ RolePromised(s)')
      <4>1. t \in rows[s] \ Late(s) /\ t \in Tables /\ t \notin tables /\ "workspace" \in rows[s]
        BY <2>2, <3>4 DEF Excused, Found
      <4>2. CASE "workspace" \notin rows'[s]
        <5>1. r.step = 8 /\ t # "workspace"
          BY <2>2, <2>6, <2>8, <2>9, <3>4, <4>1, <4>2
        <5>2. ~Willing(r, t)
          BY <2>7, <2>8, <3>4, <4>1, <5>1
        <5>3. "user" \in rows[s]
          BY <3>4, <4>1, <5>2 DEF Found, Willing
        <5>4. Willing(r, "user") /\ StepOf("user") < r.step
          BY <2>7, <2>8, <3>4, <4>1, <5>1, <5>3 DEF Willing
        <5>5. QED  BY <2>7, <2>9, <2>10, <3>4, <5>3, <5>4
      <4>3. CASE "workspace" \in rows'[s] /\ ~Found(s, t)'
        <5>1. t \in {"permission", "role"} /\ "user" \in rows[s] /\ "user" \notin rows'[s]
          BY <3>4, <4>3 DEF Found
        <5>2. "user" \in tables /\ r.step = 5 /\ r.role
          BY <2>2, <2>6, <2>7, <2>8, <2>9, <3>4, <4>1, <5>1
        <5>3. t # "permission"
          BY <2>7, <2>8, <3>4, <4>1, <5>2 DEF Willing
        <5>4. reaper'[p].at = s /\ reaper'[p].step <= 6 /\ reaper'[p].role
          BY <2>1, <5>2
        <5>5. QED  BY <5>1, <5>3, <5>4 DEF RolePromised
      <4>4. QED  BY <4>2, <4>3
    <3>5. ASSUME s \notin met, ~Creating(s), NEW t \in rows'[s] \ Excused(s)
          PROVE  Found(s, t)' \/ (t = "role" /\ RolePromised(s)')
      <4>1. Found(s, t) \/ (t = "role" /\ RolePromised(s))
        BY <2>2, <3>1, <3>5 DEF WorldOK
      <4>2. QED  BY <3>3, <3>4, <3>5, <4>1
    <3>6. Excused(s)' = Excused(s) /\ met' = met /\ (Creating(s)' <=> Creating(s))
      BY <1>8, <3>1 DEF Excused, Late, Creating
    <3>7. s \notin met => ~Creating(s)
      BY <3>1, <3>2 DEF WorldOK
    <3>8. creation[s].state = "none" => rows'[s] = {}
      BY <2>2, <3>1 DEF WorldOK
    <3>9. QED  BY <3>1, <3>2, <3>5, <3>6, <3>7, <3>8 DEF WorldOK
  <2>12. ASSUME NEW q \in Processes PROVE RecyclerOK(q)'
    <3>1. CASE q = p
      <4>1. ASSUME s \notin met, NEW t \in rows'[s] \ Late(s), StepOf(t) < r.step + 1
            PROVE  ~Willing(reaper'[p], t)
        <5>1. t \in rows[s] \ Late(s) /\ t \in Tables /\ t \notin tables /\ StepOf(t) \in 1..8
          BY <2>2, <2>8, <4>1
        <5>2. ~Willing(r, t)
          BY <1>4, <2>6, <2>7, <4>1, <5>1
        <5>3. QED  BY <2>1, <5>2 DEF Willing
      <4>2. /\ reaper'[p].phase = "list" => reaper'[p].at = None
            /\ \A x \in reaper'[p].todo : creation'[x].state # "none"
            /\ reaper'[p].user => reaper'[p].role
            /\ creation'[s].state # "none"
        BY <1>1, <1>2, <1>5, <2>1, <2>5, TodoKnown DEF RecyclerOK
      <4>3. s \notin met => ("user" \in rows'[s] => reaper'[p].user)
        BY <2>1, <2>2, <2>7
      <4>4. Late(s)' = Late(s) /\ met' = met
        BY <1>8 DEF Late
      <4>5. QED  BY <2>1, <3>1, <4>1, <4>2, <4>3, <4>4 DEF RecyclerOK
    <3>2. CASE q # p
      <4>1. \A x \in Sessions : rows'[x] \subseteq rows[x]
        BY <2>2, <2>3
      <4>2. QED  BY <1>4, <1>5, <2>1, <3>2, <4>1, RecyclerStays, TodoKnown DEF World
    <3>3. QED  BY <3>1, <3>2
  <2>13. QED  BY <1>5, <2>4, <2>11, <2>12 DEF World
<1>9. QED  BY <1>6, <1>7, <1>8

LEMMA InitWorld == PlaygroundInit => World
<1> SUFFICES ASSUME PlaygroundInit PROVE World
  OBVIOUS
<1>1. ASSUME NEW p \in Processes
      PROVE  reaper[p].todo = {} /\ reaper[p].at = None /\ ~reaper[p].user
  <2>1. reaper[p] = Asleep \/ reaper[p] = [Asleep EXCEPT !.phase = "list"]
    BY DEF PlaygroundInit, Processes
  <2>2. PICK asleep : asleep = Asleep
    OBVIOUS
  <2>3. asleep \in Reaper /\ asleep.todo = {} /\ asleep.at = None /\ ~asleep.user
    BY <2>2, AsleepTyped
  <2>4. PICK list : list = [asleep EXCEPT !.phase = "list"]
    OBVIOUS
  <2>5. list.todo = {} /\ list.at = None /\ ~list.user
    BY <2>3, <2>4 DEF Reaper
  <2>6. reaper[p] = asleep \/ reaper[p] = list
    BY <2>1, <2>2, <2>4
  <2>7. QED  BY <2>3, <2>5, <2>6
<1>2. ASSUME NEW p \in Processes PROVE RecyclerOK(p)
  BY <1>1, NoneIsNoSession DEF RecyclerOK
<1>3. ASSUME NEW s \in Sessions PROVE WorldOK(s) /\ registry[s] = None
  BY SeedTables DEF PlaygroundInit, WorldOK, Done, Creating
<1>4. QED  BY <1>2, <1>3 DEF World

LEMMA NextWorld ==
    ASSUME PlaygroundTypeOK, World, [PlaygroundNext]_playgroundVars
    PROVE  World'
<1>1. PlaygroundTypeOK'
  BY NextTyped
<1>2. CASE UNCHANGED playgroundVars
  <2>1. ASSUME NEW s \in Sessions PROVE WorldOK(s)'
    BY <1>2, WorldStays DEF playgroundVars, World, Grow
  <2>2. ASSUME NEW p \in Processes PROVE RecyclerOK(p)'
    BY <1>2, RecyclerStays, TodoKnown DEF playgroundVars, World, Grow
  <2>3. QED  BY <1>2, <2>1, <2>2 DEF playgroundVars, World
<1>3. CASE \E s \in Sessions : Visitor(s)
  BY <1>1, <1>3, VisitorWorld
<1>4. CASE Tick \/ SweepOrphans \/ Clear \/ NewProcess \/ Clock
  BY <1>4, ListWorld, ClearWorld, NewProcessWorld, ClockWorld
<1>5. CASE \E p \in Processes : Recycler(p) \/ DeleteThrows(p)
  BY <1>5, NextWorkspaceWorld, LookupUserWorld, DeleteRowsWorld, ForgetWorld DEF Recycler
<1>6. QED  BY <1>2, <1>3, <1>4, <1>5 DEF PlaygroundNext, Processes

----------------------------------------------------------------------------
(* The playground: limits: sums of counts by age *)

\* What holds of 0 and, with a number below n, of the next one, holds up to n.
LEMMA UpTo ==
    ASSUME NEW n \in Nat, NEW S, 0 \in S, \A i \in 0..(n - 1) : i \in S => i + 1 \in S
    PROVE  \A i \in 0..n : i \in S
<1> DEFINE missing == {i \in 0..n : i \notin S}
<1>1. SUFFICES ASSUME missing # {} PROVE FALSE
  OBVIOUS
<1>2. missing \in SUBSET Nat
  OBVIOUS
<1>3. PICK m \in missing : \A k \in missing : ~(<<k, m>> \in OpToRel(<, Nat))
  BY <1>1, <1>2, NatLessThanWellFounded, WFMin
<1>4. m \in 1..n
  OBVIOUS
<1>5. <<m - 1, m>> \in OpToRel(<, Nat)
  BY <1>4 DEF OpToRel
<1>6. m - 1 \notin missing /\ m - 1 \in 0..(n - 1)
  <2> HIDE DEF missing
  <2>1. m - 1 \notin missing
    BY <1>3, <1>5
  <2>2. QED  BY <1>4, <2>1
<1>7. m - 1 + 1 \in S
  BY <1>6
<1>8. QED  BY <1>4, <1>7

\* f adds counts up to age n.
Adds(f, counts, n) == f = [age \in 0..n |-> IF age = 0 THEN 0 ELSE f[age - 1] + counts[age - 1]]

LEMMA SumsExist ==
    ASSUME NEW counts
    PROVE  \E f : Adds(f, counts, Hour)
<1> DEFINE S == {n \in Nat : \E f : Adds(f, counts, n)}
<1>1. 0 \in S
  <2>1. PICK f : f = [age \in 0..0 |-> 0]
    OBVIOUS
  <2>2. f = [age \in 0..0 |-> IF age = 0 THEN 0 ELSE f[age - 1] + counts[age - 1]]
    BY <2>1
  <2>3. QED  BY <2>2 DEF Adds
<1>2. ASSUME NEW n \in Nat, n \in S PROVE n + 1 \in S
  <2>1. PICK g : Adds(g, counts, n)
    BY <1>2
  <2>2. PICK sum : sum = g[n] + counts[n]
    OBVIOUS
  <2>3. PICK f : f = [age \in 0..(n + 1) |-> IF age = n + 1 THEN sum ELSE g[age]]
    OBVIOUS
  <2>4. \A age \in 0..n : g[age] = IF age = 0 THEN 0 ELSE g[age - 1] + counts[age - 1]
    BY <2>1 DEF Adds
  <2>5. ASSUME NEW age \in 0..(n + 1)
        PROVE  f[age] = IF age = 0 THEN 0 ELSE f[age - 1] + counts[age - 1]
    <3>1. CASE age = n + 1
      BY <2>2, <2>3, <3>1
    <3>2. CASE age \in 0..n
      BY <2>3, <2>4, <3>2
    <3>3. QED  BY <3>1, <3>2
  <2>6. f = [age \in 0..(n + 1) |-> IF age = 0 THEN 0 ELSE f[age - 1] + counts[age - 1]]
    BY <2>3, <2>5
  <2>7. QED  BY <2>6 DEF Adds
<1>3. \A i \in 0..Hour : i \in S
  <2> HIDE DEF S
  <2>1. QED  BY <1>1, <1>2, HoursPass, UpTo
<1>4. QED  BY <1>3, HoursPass

\* The recursion of Sums.
LEMMA SumsAre ==
    ASSUME NEW counts \in Counts
    PROVE  /\ Sums(counts)[0] = 0
           /\ \A age \in 0..(Hour - 1) : Sums(counts)[age + 1] = Sums(counts)[age] + counts[age]
           /\ \A age \in 0..Hour : Sums(counts)[age] \in Nat
<1> DEFINE f == CHOOSE f : f = [age \in 0..Hour |-> IF age = 0 THEN 0 ELSE f[age - 1] + counts[age - 1]]
<1>1. Sums(counts) = f
  BY Zenon DEF Sums
<1>2. f = [age \in 0..Hour |-> IF age = 0 THEN 0 ELSE f[age - 1] + counts[age - 1]]
  BY SumsExist, Zenon DEF Adds
<1> HIDE DEF f
<1>3. f[0] = 0 /\ \A age \in 0..(Hour - 1) : f[age + 1] = f[age] + counts[age]
  BY <1>2, HoursPass
<1>4. \A age \in 0..Hour : f[age] \in Nat
  <2> DEFINE S == {age \in Nat : f[age] \in Nat}
  <2>1. 0 \in S
    BY <1>3
  <2>2. \A age \in 0..(Hour - 1) : age \in S => age + 1 \in S
    BY <1>3, HoursPass DEF Counts
  <2>3. \A age \in 0..Hour : age \in S
    <3> HIDE DEF S
    <3>1. QED  BY <2>1, <2>2, HoursPass, UpTo
  <2>4. QED  BY <2>3
<1>5. QED  BY <1>1, <1>3, <1>4

\* Older counts only add.
LEMMA SumsGrow ==
    ASSUME NEW counts \in Counts, NEW age \in 0..Hour
    PROVE  Sums(counts)[age] <= Sums(counts)[Hour]
<1> DEFINE f == Sums(counts)
           S == {n \in Nat : age + n <= Hour => f[age] <= f[age + n]}
<1>1. /\ \A n \in 0..(Hour - 1) : f[n + 1] = f[n] + counts[n] /\ counts[n] \in Nat
      /\ \A n \in 0..Hour : f[n] \in Nat
  BY SumsAre DEF Counts
<1> HIDE DEF f
<1>2. 0 \in S
  BY <1>1, HoursPass
<1>3. \A n \in 0..((Hour - age) - 1) : n \in S => n + 1 \in S
  <2> SUFFICES ASSUME NEW n \in 0..((Hour - age) - 1), n \in S PROVE n + 1 \in S
    OBVIOUS
  <2>1. f[age + n + 1] = f[age + n] + counts[age + n] /\ counts[age + n] \in Nat
    BY <1>1, HoursPass
  <2>2. f[age] \in Nat /\ f[age + n] \in Nat /\ f[age] <= f[age + n]
    BY <1>1, HoursPass
  <2>3. QED  BY <2>1, <2>2
<1>4. Hour - age \in S
  <2> HIDE DEF S
  <2>1. Hour - age \in Nat
    BY HoursPass
  <2>2. QED  BY <1>2, <1>3, <2>1, UpTo
<1>5. f[age] <= f[age + (Hour - age)]
  BY <1>4, HoursPass
<1>6. QED  BY <1>5, HoursPass DEF f

\* One more execution now is one more in every sum.
LEMMA SumsBump ==
    ASSUME NEW counts \in Counts, NEW more \in Counts, more = [counts EXCEPT ![0] = @ + 1]
    PROVE  \A age \in 1..Hour : Sums(more)[age] = Sums(counts)[age] + 1
<1> DEFINE f == Sums(counts)
           g == Sums(more)
           S == {n \in Nat : n > 0 => g[n] = f[n] + 1}
<1>1. /\ f[0] = 0 /\ \A n \in 0..(Hour - 1) : f[n + 1] = f[n] + counts[n]
      /\ \A n \in 0..Hour : f[n] \in Nat
  BY SumsAre
<1>2. g[0] = 0 /\ \A n \in 0..(Hour - 1) : g[n + 1] = g[n] + more[n]
  BY SumsAre
<1>3. more[0] = counts[0] + 1 /\ \A n \in 1..(Hour - 1) : more[n] = counts[n]
  BY HoursPass DEF Counts
<1>4. \A n \in 0..(Hour - 1) : counts[n] \in Nat
  BY DEF Counts
<1> HIDE DEF f, g
<1>5. 0 \in S
  OBVIOUS
<1>6. \A n \in 0..(Hour - 1) : n \in S => n + 1 \in S
  <2> SUFFICES ASSUME NEW n \in 0..(Hour - 1), n \in S PROVE n + 1 \in S
    OBVIOUS
  <2>1. CASE n = 0
    BY <1>1, <1>2, <1>3, <1>4, <2>1, HoursPass
  <2>2. CASE n # 0
    <3>1. g[n] = f[n] + 1 /\ more[n] = counts[n] /\ f[n] \in Nat /\ counts[n] \in Nat
      BY <1>1, <1>3, <1>4, <2>2, HoursPass
    <3>2. g[n + 1] = g[n] + more[n] /\ f[n + 1] = f[n] + counts[n]
      BY <1>1, <1>2
    <3>3. QED  BY <3>1, <3>2
  <2>3. QED  BY <2>1, <2>2
<1>7. \A age \in 0..Hour : age \in S
  <2> HIDE DEF S
  <2>1. QED  BY <1>5, <1>6, HoursPass, UpTo
<1>8. \A age \in 1..Hour : g[age] = f[age] + 1
  BY <1>7, HoursPass
<1>9. QED  BY <1>8 DEF f, g

\* Everything gets older.
LEMMA SumsShift ==
    ASSUME NEW counts \in Counts, NEW later \in Counts,
           later = [age \in 0..(Hour - 1) |-> IF age = 0 THEN 0 ELSE counts[age - 1]]
    PROVE  \A age \in 0..(Hour - 1) : Sums(later)[age + 1] = Sums(counts)[age]
<1> DEFINE f == Sums(counts)
           g == Sums(later)
           S == {n \in Nat : g[n + 1] = f[n]}
<1>1. f[0] = 0 /\ \A n \in 0..(Hour - 1) : f[n + 1] = f[n] + counts[n]
  BY SumsAre
<1>2. g[0] = 0 /\ \A n \in 0..(Hour - 1) : g[n + 1] = g[n] + later[n]
  BY SumsAre
<1>3. later[0] = 0 /\ \A n \in 1..(Hour - 1) : later[n] = counts[n - 1]
  BY HoursPass
<1> HIDE DEF f, g
<1>4. 0 \in S
  BY <1>1, <1>2, <1>3, HoursPass
<1>5. \A n \in 0..((Hour - 1) - 1) : n \in S => n + 1 \in S
  BY <1>1, <1>2, <1>3, HoursPass
<1>6. \A age \in 0..(Hour - 1) : age \in S
  <2> HIDE DEF S
  <2>1. Hour - 1 \in Nat
    BY HoursPass
  <2>2. QED  BY <1>4, <1>5, <2>1, UpTo
<1>7. QED  BY <1>6, HoursPass DEF f, g

\* No executions, no sum.
LEMMA SumsOfNone ==
    ASSUME NEW counts \in Counts, \A age \in 0..(Hour - 1) : counts[age] = 0
    PROVE  \A age \in 0..Hour : Sums(counts)[age] = 0
<1> DEFINE f == Sums(counts)
           S == {n \in Nat : f[n] = 0}
<1>1. f[0] = 0 /\ \A n \in 0..(Hour - 1) : f[n + 1] = f[n] + counts[n]
  BY SumsAre
<1> HIDE DEF f
<1>2. 0 \in S
  BY <1>1
<1>3. \A n \in 0..(Hour - 1) : n \in S => n + 1 \in S
  BY <1>1
<1>4. \A age \in 0..Hour : age \in S
  <2> HIDE DEF S
  <2>1. QED  BY <1>2, <1>3, HoursPass, UpTo
<1>5. QED  BY <1>4, HoursPass DEF f

----------------------------------------------------------------------------
(* The playground: limits: sessions, windows, seats *)

SessionOK(s) ==
    /\ ran[s] <= executionsPerSession
    /\ registry[s] # None => ran[s] = registry[s].executions
    /\ creation[s].state \in {"none", "inserting"} => ran[s] = 0

\* A window that is not over counts every execution it has lasted for, and what
\* is younger than an hour but older than the window fitted in the one before.
Fits(w, counts) ==
    /\ w.age < Hour
    /\ Sums(counts)[w.age + 1] <= w.executions
    /\ w.executions <= executionsPerIpPerHour
    /\ Sums(counts)[Hour] <= Sums(counts)[w.age + 1] + executionsPerIpPerHour

WindowOK(ip) ==
    IF windows[ip] = None THEN \A age \in 0..(Hour - 1) : recent[ip][age] = 0
    ELSE IF windows[ip].age < Hour THEN Fits(windows[ip], recent[ip])
    ELSE recent[ip][0] = 0 /\ Sums(recent[ip])[Hour] <= executionsPerIpPerHour

\* Unless creations overlapped, one at a time holds the seat it was granted.
SeatsOK ==
    /\ IsFiniteSet(Registered)
    /\ ~overlap => /\ \A s, o \in Sessions : Creating(s) /\ Creating(o) => s = o
                   /\ Cardinality(Registered) <= maxConcurrentSessions
                   /\ \A s \in Sessions : Creating(s) => Cardinality(Registered) < maxConcurrentSessions

Limits ==
    /\ \A s \in Sessions : SessionOK(s)
    /\ \A ip \in IPs : WindowOK(ip)
    /\ SeatsOK

LEMMA LimitsAreNumbers ==
    /\ executionsPerSession \in Nat /\ executionsPerIpPerHour \in Nat /\ maxConcurrentSessions \in Nat
    /\ executionsPerSession > 0 /\ executionsPerIpPerHour > 0 /\ maxConcurrentSessions > 0
<1>1. /\ executionsPerSession \in Nat \ {0} /\ executionsPerIpPerHour \in Nat \ {0}
      /\ maxConcurrentSessions \in Nat \ {0}
  BY PlaygroundAssumption
<1>2. QED  BY <1>1

\* The window a request finds, or starts.
LEMMA WindowFound ==
    ASSUME PlaygroundTypeOK, NEW ip \in IPs, WindowOK(ip)
    PROVE  Fits(windowFor(ip), recent[ip]) /\ windowFor(ip) \in Window
<1>1. windowFor(ip) \in Window /\ recent[ip] \in Counts
  BY WindowsTyped DEF PlaygroundTypeOK
<1>2. PICK new : new = [age |-> 0, sessions |-> 0, executions |-> 0]
  OBVIOUS
<1>3. ASSUME recent[ip][0] = 0, Sums(recent[ip])[Hour] <= executionsPerIpPerHour PROVE Fits(new, recent[ip])
  <2>1. Sums(recent[ip])[1] = 0
    <3>1. Sums(recent[ip])[0 + 1] = Sums(recent[ip])[0] + recent[ip][0] /\ Sums(recent[ip])[0] = 0
      BY <1>1, HoursPass, SumsAre
    <3>2. QED  BY <1>3, <3>1
  <2>2. new.age = 0 /\ new.executions = 0 /\ 0 + 1 = 1
    BY <1>2
  <2>3. Sums(recent[ip])[Hour] \in Nat
    BY <1>1, HoursPass, SumsAre
  <2>4. QED  BY <1>3, <2>1, <2>2, <2>3, HoursPass, LimitsAreNumbers DEF Fits
<1>4. CASE windows[ip] = None
  <2>1. Sums(recent[ip])[Hour] = 0 /\ recent[ip][0] = 0
    BY <1>1, <1>4, HoursPass, SumsOfNone DEF WindowOK
  <2>2. windowFor(ip) = new
    BY <1>2, <1>4 DEF windowFor
  <2>3. QED  BY <1>1, <1>3, <2>1, <2>2, LimitsAreNumbers
<1>5. CASE windows[ip] # None /\ windows[ip].age < Hour
  <2>1. windows[ip] \in Window /\ ~(windows[ip].age >= Hour)
    BY <1>5, HoursPass DEF PlaygroundTypeOK, Window
  <2>2. windowFor(ip) = windows[ip]
    BY <1>5, <2>1 DEF windowFor
  <2>3. QED  BY <1>1, <1>5, <2>2 DEF WindowOK
<1>6. CASE windows[ip] # None /\ ~(windows[ip].age < Hour)
  <2>1. windows[ip] \in Window /\ windows[ip].age >= Hour
    BY <1>6, HoursPass DEF PlaygroundTypeOK, Window
  <2>2. windowFor(ip) = new
    BY <1>2, <1>6, <2>1 DEF windowFor
  <2>3. QED  BY <1>1, <1>3, <1>6, <2>2 DEF WindowOK
<1>7. QED  BY <1>4, <1>5, <1>6

LEMMA HourBounded ==
    ASSUME PlaygroundTypeOK, NEW ip \in IPs, WindowOK(ip)
    PROVE  InLastHour(ip) <= 2 * executionsPerIpPerHour
<1>1. PICK w \in Window : Fits(w, recent[ip])
  BY WindowFound
<1>2. PICK sum : sum = Sums(recent[ip])
  OBVIOUS
<1>3. sum[w.age + 1] \in Nat /\ sum[Hour] \in Nat /\ w.executions \in Nat
  <2>1. w.age + 1 \in 0..Hour
    BY <1>1, HoursPass DEF Fits, Window
  <2>2. recent[ip] \in Counts
    BY DEF PlaygroundTypeOK
  <2>3. QED  BY <1>1, <1>2, <2>1, <2>2, HoursPass, SumsAre DEF Window
<1>4. QED  BY <1>1, <1>2, <1>3, LimitsAreNumbers DEF Fits, InLastHour

LEMMA WindowStays ==
    ASSUME NEW ip, WindowOK(ip), windows'[ip] = windows[ip], recent'[ip] = recent[ip]
    PROVE  WindowOK(ip)'
BY DEF WindowOK

LEMMA WindowStarts ==
    ASSUME NEW ip, NEW w \in Window, windows'[ip] = w, Fits(w, recent'[ip])
    PROVE  WindowOK(ip)'
BY NoneIsNoSession DEF WindowOK, Fits

LEMMA SessionStays ==
    ASSUME NEW s, SessionOK(s), ran'[s] = ran[s],
           registry'[s] # None => registry[s] # None /\ registry'[s].executions = registry[s].executions,
           creation'[s].state \in {"none", "inserting"} => creation[s].state \in {"none", "inserting"}
    PROVE  SessionOK(s)'
BY DEF SessionOK

LEMMA SeatsStay ==
    ASSUME SeatsOK, Registered' \subseteq Registered, overlap => overlap',
           \A s \in Sessions : Creating(s)' => Creating(s)
    PROVE  SeatsOK'
<1>1. IsFiniteSet(Registered') /\ Cardinality(Registered') <= Cardinality(Registered)
  BY FS_Subset DEF SeatsOK
<1>2. Cardinality(Registered) \in Nat /\ Cardinality(Registered') \in Nat
  BY <1>1, FS_CardinalityType DEF SeatsOK
<1>3. QED  BY <1>1, <1>2, LimitsAreNumbers DEF SeatsOK

LEMMA LimitsStay ==
    ASSUME Limits, registry' = registry, windows' = windows, recent' = recent, ran' = ran, overlap' = overlap,
           \A s \in Sessions : creation'[s].state = creation[s].state \/ creation'[s].state = "failed"
    PROVE  Limits'
<1>1. ASSUME NEW s \in Sessions PROVE SessionOK(s)'
  BY SessionStays DEF Limits
<1>2. ASSUME NEW ip \in IPs PROVE WindowOK(ip)'
  BY WindowStays DEF Limits
<1>3. SeatsOK'
  BY SeatsStay DEF Limits, Registered, Creating
<1>4. QED  BY <1>1, <1>2, <1>3 DEF Limits

LEMMA CreateSessionLimits ==
    ASSUME PlaygroundTypeOK, Limits, NEW s \in Sessions, CreateSession(s)
    PROVE  Limits'
<1>1. /\ registry' = registry /\ recent' = recent /\ ran' = ran
      /\ creation[s].state = "none" /\ Cardinality(Registered) < maxConcurrentSessions
      /\ windows' = [windows EXCEPT ![IpOf[s]] = windowFor(IpOf[s])]
      /\ overlap' <=> overlap \/ \E o \in Sessions : Creating(o)
  BY DEF CreateSession, assertSessionAllowed
<1>2. \A x \in Sessions \ {s} : creation'[x] = creation[x]
  BY DEF CreateSession, PlaygroundTypeOK
<1>3. ASSUME NEW x \in Sessions PROVE SessionOK(x)'
  <2>1. SessionOK(x)
    BY DEF Limits
  <2>2. creation'[x].state \in {"none", "inserting"} => creation[x].state \in {"none", "inserting"}
    BY <1>1, <1>2
  <2>3. QED  BY <1>1, <2>1, <2>2, SessionStays
<1>4. ASSUME NEW ip \in IPs PROVE WindowOK(ip)'
  <2>1. CASE ip = IpOf[s]
    <3>1. windowFor(ip) \in Window /\ Fits(windowFor(ip), recent[ip])
      BY WindowFound DEF Limits
    <3>2. windows'[ip] = windowFor(ip)
      BY <1>1, <2>1 DEF PlaygroundTypeOK
    <3>3. QED  BY <1>1, <3>1, <3>2, WindowStarts
  <2>2. CASE ip # IpOf[s]
    <3>1. windows'[ip] = windows[ip]
      BY <1>1, <2>2 DEF PlaygroundTypeOK
    <3>2. QED  BY <1>1, <3>1, WindowStays DEF Limits
  <2>3. QED  BY <2>1, <2>2
<1>5. SeatsOK'
  <2>1. Registered' = Registered
    BY <1>1 DEF Registered
  <2>2. IsFiniteSet(Registered) /\ Cardinality(Registered) \in Nat
    BY FS_CardinalityType DEF Limits, SeatsOK
  <2>3. ASSUME ~overlap', NEW o \in Sessions, Creating(o)' PROVE o = s
    BY <1>1, <1>2, <2>3 DEF Creating
  <2>4. QED  BY <1>1, <2>1, <2>2, <2>3, LimitsAreNumbers DEF SeatsOK
<1>6. QED  BY <1>3, <1>4, <1>5 DEF Limits

LEMMA RegisterLimits ==
    ASSUME PlaygroundTypeOK, Limits, NEW s \in Sessions, Register(s)
    PROVE  Limits'
<1>1. /\ Creating(s) /\ recent' = recent /\ ran' = ran /\ overlap' = overlap
      /\ creation' = [creation EXCEPT ![s] = Done("registered")]
      /\ registry' = [registry EXCEPT ![s] = [idle |-> 0, executions |-> 0]]
      /\ windows' = [windows EXCEPT ![IpOf[s]] = [windowFor(IpOf[s]) EXCEPT !.sessions = @ + 1]]
  BY DEF Register, ghosts
<1>2. creation'[s].state = "registered" /\ \A x \in Sessions \ {s} : creation'[x] = creation[x]
  BY <1>1 DEF Done, PlaygroundTypeOK
<1>3. /\ registry'[s].executions = 0 /\ [idle |-> 0, executions |-> 0] # None
      /\ \A x \in Sessions \ {s} : registry'[x] = registry[x]
  BY <1>1, NoneIsNoSession DEF PlaygroundTypeOK, Session
<1>4. ASSUME NEW x \in Sessions PROVE SessionOK(x)'
  <2>1. SessionOK(x)
    BY DEF Limits
  <2>2. CASE x = s
    BY <1>1, <1>2, <1>3, <2>1, <2>2 DEF SessionOK, Creating
  <2>3. CASE x # s
    BY <1>1, <1>2, <1>3, <2>1, <2>3, SessionStays
  <2>4. QED  BY <2>2, <2>3
<1>5. ASSUME NEW ip \in IPs PROVE WindowOK(ip)'
  <2>1. CASE ip = IpOf[s]
    <3>1. PICK w \in Window : w = windowFor(ip) /\ Fits(w, recent[ip])
      BY WindowFound DEF Limits
    <3>2. PICK next : next = [w EXCEPT !.sessions = @ + 1]
      OBVIOUS
    <3>3. next \in Window /\ next.age = w.age /\ next.executions = w.executions
      BY <3>1, <3>2 DEF Window
    <3>4. windows'[ip] = next
      BY <1>1, <2>1, <3>1, <3>2 DEF PlaygroundTypeOK
    <3>5. Fits(next, recent[ip])
      BY <3>1, <3>3 DEF Fits
    <3>6. QED  BY <1>1, <3>3, <3>4, <3>5, WindowStarts
  <2>2. CASE ip # IpOf[s]
    <3>1. windows'[ip] = windows[ip]
      BY <1>1, <2>2 DEF PlaygroundTypeOK
    <3>2. QED  BY <1>1, <3>1, WindowStays DEF Limits
  <2>3. QED  BY <2>1, <2>2
<1>6. SeatsOK'
  <2>1. Registered' = Registered \cup {s}
    BY <1>1, <1>3 DEF Registered, PlaygroundTypeOK
  <2>2. IsFiniteSet(Registered) /\ Cardinality(Registered) \in Nat
    BY FS_CardinalityType DEF Limits, SeatsOK
  <2>3. IsFiniteSet(Registered') /\ Cardinality(Registered') <= Cardinality(Registered) + 1
    BY <2>1, <2>2, FS_AddElement
  <2>4. Cardinality(Registered') \in Nat
    BY <2>3, FS_CardinalityType
  <2>5. ASSUME ~overlap', NEW o \in Sessions PROVE ~Creating(o)'
    BY <1>1, <1>2, <2>5 DEF Limits, SeatsOK, Creating
  <2>6. ~overlap => Cardinality(Registered) < maxConcurrentSessions
    BY <1>1 DEF Limits, SeatsOK
  <2>7. QED  BY <1>1, <2>2, <2>3, <2>4, <2>5, <2>6, LimitsAreNumbers DEF SeatsOK
<1>7. QED  BY <1>4, <1>5, <1>6 DEF Limits

LEMMA ExecuteAgentLimits ==
    ASSUME PlaygroundTypeOK, PlaygroundTypeOK', Limits, World, NEW s \in Sessions, ExecuteAgent(s)
    PROVE  Limits'
<1>1. creation' = creation /\ overlap' = overlap /\ assertExecutionAllowed(s)
  BY DEF ExecuteAgent
<1>2. CASE s \notin Registered
  BY <1>1, <1>2, LimitsStay DEF ExecuteAgent
<1>3. CASE s \in Registered
  <2>1. /\ registry[s] \in Session /\ registry[s] # None /\ creation[s].state = "registered"
        /\ IpOf[s] \in IPs /\ registry[s].executions < executionsPerSession
        /\ windowFor(IpOf[s]).executions < executionsPerIpPerHour
    BY <1>1, <1>3, AddressesKnown DEF assertExecutionAllowed, Registered, World, PlaygroundTypeOK
  <2>2. /\ registry' = [registry EXCEPT ![s] = [idle |-> 0, executions |-> registry[s].executions + 1]]
        /\ windows' = [windows EXCEPT ![IpOf[s]] = [windowFor(IpOf[s]) EXCEPT !.executions = @ + 1]]
        /\ recent' = [recent EXCEPT ![IpOf[s]] = [recent[IpOf[s]] EXCEPT ![0] = @ + 1]]
        /\ ran' = [ran EXCEPT ![s] = @ + 1]
    BY <1>3 DEF ExecuteAgent, countExecution
  <2>3. PICK next : next = [idle |-> 0, executions |-> registry[s].executions + 1]
    OBVIOUS
  <2>4. next # None /\ next.executions = registry[s].executions + 1
    BY <2>1, <2>3, NoneIsNoSession DEF Session
  <2>5. /\ registry'[s] = next /\ \A x \in Sessions \ {s} : registry'[x] = registry[x]
        /\ ran'[s] = ran[s] + 1 /\ \A x \in Sessions \ {s} : ran'[x] = ran[x]
    BY <2>2, <2>3 DEF PlaygroundTypeOK
  <2>6. ASSUME NEW x \in Sessions PROVE SessionOK(x)'
    <3>1. SessionOK(x)
      BY DEF Limits
    <3>2. CASE x = s
      <4>1. ran'[s] = registry[s].executions + 1
        BY <2>1, <2>5, <3>1, <3>2 DEF SessionOK
      <4>2. registry[s].executions + 1 <= executionsPerSession
        BY <2>1, LimitsAreNumbers DEF Session
      <4>3. QED  BY <1>1, <2>1, <2>4, <2>5, <3>2, <4>1, <4>2 DEF SessionOK
    <3>3. CASE x # s
      BY <1>1, <2>5, <3>1, <3>3, SessionStays
    <3>4. QED  BY <3>2, <3>3
  <2>7. ASSUME NEW ip \in IPs PROVE WindowOK(ip)'
    <3>1. CASE ip = IpOf[s]
      <4>1. PICK w \in Window : w = windowFor(ip) /\ Fits(w, recent[ip])
        BY WindowFound DEF Limits
      <4>2. PICK new : new = [w EXCEPT !.executions = @ + 1]
        OBVIOUS
      <4>3. new \in Window /\ new.age = w.age /\ new.executions = w.executions + 1
        BY <4>1, <4>2 DEF Window
      <4>4. windows'[ip] = new
        BY <2>2, <3>1, <4>1, <4>2 DEF PlaygroundTypeOK
      <4>5. PICK old \in Counts : old = recent[ip]
        BY DEF PlaygroundTypeOK
      <4>6. PICK more : more = [old EXCEPT ![0] = @ + 1]
        OBVIOUS
      <4>7. recent'[ip] = more
        BY <2>2, <3>1, <4>5, <4>6 DEF PlaygroundTypeOK
      <4>8. more \in Counts
        BY <4>7 DEF PlaygroundTypeOK
      <4>9. /\ w.age + 1 \in 1..Hour /\ Hour \in 1..Hour /\ w.executions \in Nat
        BY <4>1, HoursPass DEF Fits, Window
      <4>10. /\ Sums(more)[w.age + 1] = Sums(old)[w.age + 1] + 1
             /\ Sums(more)[Hour] = Sums(old)[Hour] + 1
        BY <4>5, <4>6, <4>8, <4>9, SumsBump
      <4>11. Sums(old)[w.age + 1] \in Nat /\ Sums(old)[Hour] \in Nat
        BY <4>5, <4>9, HoursPass, SumsAre
      <4>12. w.executions < executionsPerIpPerHour
        BY <2>1, <3>1, <4>1
      <4>13. Fits(new, more)
        BY <4>1, <4>3, <4>5, <4>9, <4>10, <4>11, <4>12, LimitsAreNumbers DEF Fits
      <4>14. QED  BY <4>3, <4>4, <4>7, <4>13, WindowStarts
    <3>2. CASE ip # IpOf[s]
      <4>1. windows'[ip] = windows[ip] /\ recent'[ip] = recent[ip]
        BY <2>2, <3>2 DEF PlaygroundTypeOK
      <4>2. QED  BY <4>1, WindowStays DEF Limits
    <3>3. QED  BY <3>1, <3>2
  <2>8. SeatsOK'
    <3>1. Registered' \subseteq Registered
      BY <1>3, <2>5 DEF Registered
    <3>2. QED  BY <1>1, <3>1, SeatsStay DEF Limits, Creating
  <2>9. QED  BY <2>6, <2>7, <2>8 DEF Limits
<1>4. QED  BY <1>2, <1>3

LEMMA DecideLimits ==
    ASSUME PlaygroundTypeOK, Limits, NEW s \in Sessions, Decide(s)
    PROVE  Limits'
<1>1. /\ creation' = creation /\ windows' = windows /\ recent' = recent /\ ran' = ran /\ overlap' = overlap
      /\ registry' = registry \/ (registry[s] # None /\ registry' = [registry EXCEPT ![s].idle = 0])
  BY DEF Decide, Registered, ghosts
<1>2. /\ registry'[s] # None => registry[s] # None /\ registry'[s].executions = registry[s].executions
      /\ \A x \in Sessions \ {s} : registry'[x] = registry[x]
  BY <1>1 DEF PlaygroundTypeOK, Session
<1>3. ASSUME NEW x \in Sessions PROVE SessionOK(x)'
  BY <1>1, <1>2, SessionStays DEF Limits
<1>4. ASSUME NEW ip \in IPs PROVE WindowOK(ip)'
  BY <1>1, WindowStays DEF Limits
<1>5. Registered' \subseteq Registered
  BY <1>1, <1>2 DEF Registered
<1>6. SeatsOK'
  BY <1>1, <1>5, SeatsStay DEF Limits, Creating
<1>7. QED  BY <1>3, <1>4, <1>6 DEF Limits

LEMMA ForgetLimits ==
    ASSUME PlaygroundTypeOK, Limits, NEW p \in Processes, Forget(p)
    PROVE  Limits'
<1>1. /\ creation' = creation /\ windows' = windows /\ recent' = recent /\ ran' = ran /\ overlap' = overlap
      /\ \A x \in Sessions : registry'[x] = registry[x] \/ registry'[x] = None
  BY DEF Forget, RecyclerOnly, ghosts, PlaygroundTypeOK
<1>2. ASSUME NEW x \in Sessions PROVE SessionOK(x)'
  BY <1>1, SessionStays DEF Limits
<1>3. ASSUME NEW ip \in IPs PROVE WindowOK(ip)'
  BY <1>1, WindowStays DEF Limits
<1>4. Registered' \subseteq Registered
  BY <1>1 DEF Registered
<1>5. SeatsOK'
  BY <1>1, <1>4, SeatsStay DEF Limits, Creating
<1>6. QED  BY <1>2, <1>3, <1>5 DEF Limits

\* No sessions and no windows.
LEMMA EmptyLimits ==
    ASSUME \A s \in Sessions : registry[s] = None,
           \A ip \in IPs : windows[ip] = None /\ recent[ip] = [age \in 0..(Hour - 1) |-> 0],
           \A s \in Sessions : /\ ran[s] <= executionsPerSession
                               /\ creation[s].state \in {"none", "inserting"} => ran[s] = 0,
           ~overlap => \A s, o \in Sessions : Creating(s) /\ Creating(o) => s = o
    PROVE  Limits
<1>1. ASSUME NEW s \in Sessions PROVE SessionOK(s)
  BY DEF SessionOK
<1>2. ASSUME NEW ip \in IPs PROVE WindowOK(ip)
  BY DEF WindowOK
<1>3. Registered = {}
  BY DEF Registered
<1>4. SeatsOK
  BY <1>3, FS_EmptySet, LimitsAreNumbers DEF SeatsOK
<1>5. QED  BY <1>1, <1>2, <1>4 DEF Limits

LEMMA EmptyLimitsNext ==
    ASSUME \A s \in Sessions : registry'[s] = None,
           \A ip \in IPs : windows'[ip] = None /\ recent'[ip] = [age \in 0..(Hour - 1) |-> 0],
           \A s \in Sessions : /\ ran'[s] <= executionsPerSession
                               /\ creation'[s].state \in {"none", "inserting"} => ran'[s] = 0,
           ~overlap' => \A s, o \in Sessions : Creating(s)' /\ Creating(o)' => s = o
    PROVE  Limits'
<1>1. ASSUME NEW s \in Sessions PROVE SessionOK(s)'
  BY DEF SessionOK
<1>2. ASSUME NEW ip \in IPs PROVE WindowOK(ip)'
  BY DEF WindowOK
<1>3. Registered' = {}
  BY DEF Registered
<1>4. SeatsOK'
  BY <1>3, FS_EmptySet, LimitsAreNumbers DEF SeatsOK
<1>5. QED  BY <1>1, <1>2, <1>4 DEF Limits

LEMMA ClearLimits ==
    ASSUME PlaygroundTypeOK, Limits, Clear \/ NewProcess
    PROVE  Limits'
<1>1. /\ \A s \in Sessions : registry'[s] = None
      /\ \A ip \in IPs : windows'[ip] = None /\ recent'[ip] = [age \in 0..(Hour - 1) |-> 0]
  BY DEF Clear, NewProcess
<1>2. CASE Clear
  <2>1. creation' = creation /\ ran' = ran /\ overlap' = overlap
    BY <1>2 DEF Clear
  <2>2. QED  BY <1>1, <2>1, EmptyLimitsNext DEF Limits, SessionOK, SeatsOK, Creating
<1>3. CASE NewProcess
  <2>1. ASSUME NEW s \in Sessions PROVE ran'[s] = 0 /\ ~Creating(s)'
    <3>1. ran'[s] = 0
      BY <1>3 DEF NewProcess
    <3>2. creation'[s] = IF Creating(s) THEN Done("failed") ELSE creation[s]
      BY <1>3, Zenon DEF NewProcess
    <3>3. CASE Creating(s)
      BY <3>1, <3>2, <3>3 DEF Creating, Done
    <3>4. CASE ~Creating(s)
      <4>1. creation'[s] = creation[s]
        BY <3>2, <3>4
      <4>2. QED  BY <3>1, <3>4, <4>1 DEF Creating
    <3>5. QED  BY <3>3, <3>4
  <2>2. \A s \in Sessions : ran'[s] <= executionsPerSession
    BY <2>1, LimitsAreNumbers
  <2>3. ~overlap' => \A s, o \in Sessions : Creating(s)' /\ Creating(o)' => s = o
    <3> HIDE DEF Creating
    <3> QED  BY <2>1
  <2>4. QED  BY <1>1, <2>1, <2>2, <2>3, EmptyLimitsNext
<1>4. QED  BY <1>2, <1>3

LEMMA ClockLimits ==
    ASSUME PlaygroundTypeOK, PlaygroundTypeOK', Limits, Clock
    PROVE  Limits'
<1>1. creation' = creation /\ ran' = ran /\ overlap' = overlap
  BY DEF Clock
<1>2. ASSUME NEW s \in Sessions
      PROVE  registry'[s] # None => registry[s] # None /\ registry'[s].executions = registry[s].executions
  <2>1. CASE s \in Registered
    <3>1. registry'[s] = [registry[s] EXCEPT !.idle = older(@, Ttl)]
      BY <2>1 DEF Clock
    <3>2. registry[s] \in Session
      BY <2>1 DEF Registered, PlaygroundTypeOK
    <3>3. QED  BY <2>1, <3>1, <3>2 DEF Session, Registered
  <2>2. CASE s \notin Registered
    BY <2>2 DEF Clock
  <2>3. QED  BY <2>1, <2>2
<1>3. ASSUME NEW s \in Sessions PROVE SessionOK(s)'
  BY <1>1, <1>2, SessionStays DEF Limits
<1>4. ASSUME NEW ip \in IPs PROVE WindowOK(ip)'
  <2>1. PICK old \in Counts : old = recent[ip]
    BY DEF PlaygroundTypeOK
  <2>2. PICK later \in Counts : later = recent'[ip]
    BY DEF PlaygroundTypeOK
  <2>3. later = [age \in 0..(Hour - 1) |-> IF age = 0 THEN 0 ELSE old[age - 1]]
    BY <2>1, <2>2 DEF Clock
  <2>4. \A age \in 0..(Hour - 1) : Sums(later)[age + 1] = Sums(old)[age]
    BY <2>1, <2>2, <2>3, SumsShift
  <2>5. later[0] = 0 /\ Sums(later)[Hour] <= Sums(old)[Hour]
    <3>1. Hour - 1 \in 0..(Hour - 1) /\ Hour - 1 \in 0..Hour /\ Hour - 1 + 1 = Hour
      BY HoursPass
    <3>2. Sums(later)[Hour] = Sums(old)[Hour - 1]
      BY <2>4, <3>1
    <3>3. Sums(old)[Hour - 1] <= Sums(old)[Hour]
      BY <2>1, <3>1, SumsGrow
    <3>4. QED  BY <2>3, <3>2, <3>3, HoursPass
  <2>6. Sums(later)[Hour] \in Nat /\ Sums(old)[Hour] \in Nat
    BY <2>1, <2>2, HoursPass, SumsAre
  <2>7. WindowOK(ip)
    BY DEF Limits
  <2>8. CASE windows[ip] = None
    <3>1. windows'[ip] = None
      BY <2>8 DEF Clock
    <3>2. ASSUME NEW age \in 0..(Hour - 1) PROVE later[age] = 0
      <4>1. CASE age = 0
        BY <2>5, <4>1
      <4>2. CASE age # 0
        <5>1. age - 1 \in 0..(Hour - 1)
          BY <4>2, HoursPass
        <5>2. old[age - 1] = 0
          BY <2>1, <2>7, <2>8, <5>1 DEF WindowOK
        <5>3. QED  BY <2>3, <4>2, <5>2
      <4>3. QED  BY <4>1, <4>2
    <3>3. QED  BY <2>2, <3>1, <3>2 DEF WindowOK
  <2>9. CASE windows[ip] # None
    <3>1. PICK w \in Window : w = windows[ip]
      BY <2>9 DEF PlaygroundTypeOK
    <3>2. PICK next : next = [w EXCEPT !.age = older(w.age, Hour)]
      OBVIOUS
    <3>3. windows'[ip] = next
      BY <2>9, <3>1, <3>2 DEF Clock
    <3>4. /\ next \in Window /\ next.executions = w.executions /\ next.age = older(w.age, Hour)
          /\ w.age \in Nat /\ w.executions \in Nat
      BY <3>1, <3>2, OlderTyped DEF Window
    <3>5. CASE ~(w.age < Hour)
      <4>1. Sums(old)[Hour] <= executionsPerIpPerHour
        BY <2>1, <2>7, <2>9, <3>1, <3>5 DEF WindowOK
      <4>2. next.age = w.age
        BY <3>4, <3>5 DEF older
      <4>3. next # None
        BY <3>4, NoneIsNoSession
      <4>4. QED  BY <2>2, <2>5, <2>6, <3>3, <3>5, <4>1, <4>2, <4>3, LimitsAreNumbers DEF WindowOK
    <3>6. CASE w.age < Hour
      <4>1. Fits(w, old)
        BY <2>1, <2>7, <2>9, <3>1, <3>6 DEF WindowOK
      <4>2. next.age = w.age + 1
        BY <3>4, <3>6 DEF older
      <4>3. w.age + 1 \in 1..Hour /\ Sums(old)[w.age + 1] \in Nat
        <5>1. w.age + 1 \in 1..Hour /\ w.age + 1 \in 0..Hour
          BY <3>4, <3>6, HoursPass
        <5>2. QED  BY <2>1, <5>1, SumsAre
      <4>4. CASE w.age + 1 = Hour
        <5>1. Sums(old)[Hour] <= executionsPerIpPerHour
          BY <2>6, <3>4, <4>1, <4>4, LimitsAreNumbers DEF Fits
        <5>2. next # None /\ ~(next.age < Hour)
          BY <3>4, <4>2, <4>4, HoursPass, NoneIsNoSession
        <5>3. QED  BY <2>2, <2>5, <2>6, <3>3, <5>1, <5>2, LimitsAreNumbers DEF WindowOK
      <4>5. CASE w.age + 1 < Hour
        <5>1. Sums(later)[(w.age + 1) + 1] = Sums(old)[w.age + 1]
          <6>1. w.age + 1 \in 0..(Hour - 1)
            BY <4>3, <4>5, HoursPass
          <6>2. QED  BY <2>4, <6>1
        <5>2. Fits(next, later)
          BY <2>5, <2>6, <3>4, <4>1, <4>2, <4>3, <4>5, <5>1, LimitsAreNumbers DEF Fits
        <5>3. QED  BY <2>2, <3>3, <3>4, <5>2, WindowStarts
      <4>6. QED  BY <4>3, <4>4, <4>5, HoursPass
    <3>7. QED  BY <3>5, <3>6
  <2>10. QED  BY <2>8, <2>9
<1>5. Registered' \subseteq Registered
  BY <1>2 DEF Registered
<1>6. SeatsOK'
  BY <1>1, <1>5, SeatsStay DEF Limits, Creating
<1>7. QED  BY <1>3, <1>4, <1>6 DEF Limits

LEMMA InitLimits == PlaygroundInit => Limits
BY EmptyLimits, LimitsAreNumbers DEF PlaygroundInit, Creating, Done

LEMMA NextLimits ==
    ASSUME PlaygroundTypeOK, World, Limits, [PlaygroundNext]_playgroundVars
    PROVE  Limits'
<1>1. PlaygroundTypeOK'
  BY NextTyped
<1>2. CASE UNCHANGED playgroundVars
  BY <1>2, LimitsStay DEF playgroundVars
<1>3. CASE \E s \in Sessions : InsertRow(s) \/ FindApproval(s) \/ ChangeAgents(s) \/ Write(s)
  <2>1. PICK s \in Sessions : InsertRow(s) \/ FindApproval(s) \/ ChangeAgents(s) \/ Write(s)
    BY <1>3
  <2>2. \A x \in Sessions : creation'[x].state = creation[x].state \/ creation'[x].state = "failed"
    <3>1. CASE creation' = creation
      BY <3>1
    <3>2. CASE creation' = [creation EXCEPT ![s].inserted = @ + 1]
      BY <3>2 DEF PlaygroundTypeOK, Creation
    <3>3. CASE creation' = [creation EXCEPT ![s] = Done("failed")]
      BY <3>3 DEF PlaygroundTypeOK, Done
    <3>4. QED  BY <2>1, <3>1, <3>2, <3>3 DEF InsertRow, FindApproval, ChangeAgents, Write, ghosts
  <2>3. QED  BY <2>1, <2>2, LimitsStay DEF InsertRow, FindApproval, ChangeAgents, Write, ghosts
<1>4. CASE \E s \in Sessions : CreateSession(s) \/ Register(s) \/ ExecuteAgent(s) \/ Decide(s)
  BY <1>1, <1>4, CreateSessionLimits, RegisterLimits, ExecuteAgentLimits, DecideLimits
<1>5. CASE Tick \/ SweepOrphans
  BY <1>5, LimitsStay DEF Tick, SweepOrphans, RecyclerOnly, ghosts
<1>6. CASE Clear \/ NewProcess \/ Clock
  BY <1>1, <1>6, ClearLimits, ClockLimits
<1>7. CASE \E p \in Processes : NextWorkspace(p) \/ LookupUser(p) \/ DeleteRows(p) \/ DeleteThrows(p)
  BY <1>7, LimitsStay DEF NextWorkspace, LookupUser, DeleteRows, DeleteThrows, RecyclerOnly, ghosts
<1>8. CASE \E p \in Processes : Forget(p)
  BY <1>8, ForgetLimits
<1>9. QED  BY <1>2, <1>3, <1>4, <1>5, <1>6, <1>7, <1>8 DEF PlaygroundNext, Visitor, Recycler, Processes

----------------------------------------------------------------------------
(* The playground: theorems *)

PlaygroundInvariant == PlaygroundTypeOK /\ World /\ Limits

\* Sessions, recyclers, windows and seats fit together, whatever visitors do
\* and wherever deletes fail or the process stops.
THEOREM PlaygroundInvariance == PlaygroundSpec => []PlaygroundInvariant
<1>1. PlaygroundInit => PlaygroundInvariant
  BY InitTyped, InitWorld, InitLimits DEF PlaygroundInvariant
<1>2. PlaygroundInvariant /\ [PlaygroundNext]_playgroundVars => PlaygroundInvariant'
  BY NextTyped, NextWorld, NextLimits DEF PlaygroundInvariant
<1>3. QED  BY <1>1, <1>2, PTL DEF PlaygroundSpec

\* Tables, registry, windows, tokens and recyclers keep their types.
THEOREM PlaygroundTypeCorrect == PlaygroundSpec => []PlaygroundTypeOK
<1>1. PlaygroundInvariant => PlaygroundTypeOK
  BY DEF PlaygroundInvariant
<1>2. QED  BY <1>1, PlaygroundInvariance, PTL

\* LimitsHold: the checks of assertSessionAllowed and assertExecutionAllowed
\* suffice, although windows restart and a session is counted after its inserts.
THEOREM LimitsKept == PlaygroundSpec => []LimitsHold
<1>1. PlaygroundInvariant => LimitsHold
  <2> SUFFICES ASSUME PlaygroundInvariant PROVE LimitsHold
    OBVIOUS
  <2>1. \A s \in Sessions : ran[s] <= executionsPerSession
    BY DEF PlaygroundInvariant, Limits, SessionOK
  <2>2. \A ip \in IPs : InLastHour(ip) <= 2 * executionsPerIpPerHour
    BY HourBounded DEF PlaygroundInvariant, Limits
  <2>3. ~overlap => Cardinality(Registered) <= maxConcurrentSessions
    BY DEF PlaygroundInvariant, Limits, SeatsOK
  <2>4. QED  BY <2>1, <2>2, <2>3 DEF LimitsHold
<1>2. QED  BY <1>1, PlaygroundInvariance, PTL

\* NoTrace: what recycleWorkspace leaves of a workspace, also when a tick and
\* the sweep recycle it together: at most the role after a stop or a fault, and
\* what requests in flight wrote too late.
THEOREM RecyclingIsComplete == PlaygroundSpec => []NoTrace
<1>1. PlaygroundInvariant => NoTrace
  <2> SUFFICES ASSUME PlaygroundInvariant, NEW s \in Sessions \ met, ~Recycling(s)
               PROVE  /\ "workspace" \notin rows[s] => rows[s] \subseteq Excused(s)
                      /\ s \in Registered \ cut /\ "workspace" \in rows[s] => Seed \subseteq rows[s]
    BY DEF NoTrace, Excused, Late, LateTables
  <2>1. WorldOK(s) /\ creation[s] \in Creation
    BY DEF PlaygroundInvariant, World, PlaygroundTypeOK
  <2>2. ASSUME "workspace" \notin rows[s], NEW t \in rows[s] PROVE t \in Excused(s)
    <3>1. CASE Creating(s)
      <4>1. rows[s] = Inserted(creation[s].inserted) /\ creation[s].inserted \in 0..6
        BY <2>1, <3>1 DEF WorldOK, Creation
      <4>2. QED  BY <2>2, <4>1, InsertedFound
    <3>2. CASE ~Creating(s)
      <4>1. ~RolePromised(s)
        BY RecyclingMeans DEF RolePromised
      <4>2. QED  BY <2>1, <2>2, <3>2, <4>1 DEF WorldOK, Found
    <3>3. QED  BY <3>1, <3>2
  <2>3. ASSUME s \in Registered \ cut, "workspace" \in rows[s] PROVE Seed \subseteq rows[s]
    BY <2>1, <2>3 DEF PlaygroundInvariant, World, Registered, WorldOK
  <2>4. QED  BY <2>2, <2>3
<1>2. QED  BY <1>1, PlaygroundInvariance, PTL

=============================================================================
