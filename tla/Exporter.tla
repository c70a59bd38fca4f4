------------------------------ MODULE Exporter ------------------------------
(***************************************************************************)
(* The SIEM exporter: handlers tee every audit entry they append to a      *)
(* buffer, and one goroutine flushes the buffer to an HTTP sink, on a      *)
(* ticker or when a batch has filled up.  A flush that fails puts its      *)
(* batch back.  The buffer is bounded; its oldest entries are dropped.     *)
(*                                                                         *)
(* Entries are numbered in the order of their appends to the audit log.    *)
(***************************************************************************)
EXTENDS Integers, Sequences, FiniteSets, FiniteSetsExt, SequencesExt

CONSTANTS
    Handlers,       \* the requests that append through Service.auditLog
    BatchSize,      \* Exporter.batchSize
    MaxBuffered,    \* Exporter.maxBuffered
    MaxEntries,     \* bound on the entries appended
    MaxOutages      \* bound on the outages of the sink

ASSUME ExporterAssumption ==
    /\ BatchSize \in Nat \ {0}
    /\ MaxBuffered \in Nat /\ MaxBuffered >= BatchSize
    /\ MaxEntries \in Nat /\ MaxOutages \in Nat

VARIABLES
    count,          \* how many entries were appended to the audit log or failed to be
    tees,           \* per handler: its program counter and its entry
    buf,            \* Exporter.buf
    flushNow,       \* whether the channel flushNow holds a signal
    flusher,        \* the flush loop's program counter
    last,           \* whether this is its flush on exit
    batch,          \* the batch it is posting
    running,        \* whether the daemon's context is live
    sinkUp,         \* whether the sink answers
    outages,        \* outages so far
    enqueued,       \* history: every entry enqueued, in order
    received,       \* history: the entries the sink has received
    acked,          \* history: the entries of batches it acknowledged
    failed          \* history: whether the last flush failed

handling == <<count, tees, enqueued>>

exporting == <<flusher, last, batch, received, acked, failed>>

world == <<running, sinkUp, outages>>

vars == <<handling, buf, flushNow, exporting, world>>

Entries == 1..MaxEntries

TypeOK ==
    /\ count \in 0..MaxEntries
    /\ tees \in [Handlers -> [pc : {"idle", "tee", "signal"}, entry : 0..MaxEntries]]
    /\ buf \in Seq(Entries) /\ Len(buf) <= MaxBuffered
    /\ flushNow \in BOOLEAN
    /\ flusher \in {"select", "flush", "post", "stopped"}
    /\ last \in BOOLEAN
    /\ batch \in Seq(Entries) /\ Len(batch) <= MaxBuffered
    /\ running \in BOOLEAN
    /\ sinkUp \in BOOLEAN
    /\ outages \in 0..MaxOutages
    /\ enqueued \in Seq(1..count)
    /\ received \subseteq ToSet(enqueued)
    /\ acked \subseteq received
    /\ failed \in BOOLEAN

Idle == [pc |-> "idle", entry |-> 0]

Init ==
    /\ count = 0
    /\ tees = [h \in Handlers |-> Idle]
    /\ buf = <<>>
    /\ flushNow = FALSE
    /\ flusher = "select"
    /\ last = FALSE
    /\ batch = <<>>
    /\ running = TRUE
    /\ sinkUp = TRUE
    /\ outages = 0
    /\ enqueued = <<>>
    /\ received = {}
    /\ acked = {}
    /\ failed = FALSE

-----------------------------------------------------------------------------
(* siemAuditLog.Append writes to the audit log, and goes on with the       *)
(* exporter whether that failed or not.                                    *)
Tee(h) ==
    /\ tees[h].pc = "idle"
    /\ count < MaxEntries
    /\ count' = count + 1
    /\ tees' = [tees EXCEPT ![h] = [pc |-> "tee", entry |-> count']]
    /\ UNCHANGED <<enqueued, buf, flushNow, exporting, world>>

(* The newest entries of s that fit into the buffer.                       *)
MutantKeepOldest(s) == SubSeq(s, 1, Min({Len(s), MaxBuffered}))

Keep(s) == SubSeq(s, Max({1, Len(s) - MaxBuffered + 1}), Len(s))

(* Enqueue, under the mutex.                                               *)
Enqueue(h) ==
    /\ tees[h].pc = "tee"
    /\ buf' = Keep(Append(buf, tees[h].entry))
    /\ enqueued' = Append(enqueued, tees[h].entry)
    /\ tees' = [tees EXCEPT ![h] =
                  IF Len(buf') >= BatchSize THEN [@ EXCEPT !.pc = "signal"] ELSE Idle]
    /\ UNCHANGED <<count, flushNow, exporting, world>>

(* Enqueue, after the mutex: the channel holds one signal and never blocks. *)
Signal(h) ==
    /\ tees[h].pc = "signal"
    /\ flushNow' = TRUE
    /\ tees' = [tees EXCEPT ![h] = Idle]
    /\ UNCHANGED <<count, enqueued, buf, exporting, world>>

-----------------------------------------------------------------------------
(* The loop of Start.  select picks any case that is ready.                *)
StartFlush(final) ==
    /\ flusher = "select"
    /\ flusher' = "flush"
    /\ last' = final
    /\ UNCHANGED <<handling, buf, batch, received, acked, failed, world>>

FlushOnTick == StartFlush(FALSE) /\ UNCHANGED flushNow

FlushOnSignal == flushNow /\ flushNow' = FALSE /\ StartFlush(FALSE)

FlushOnExit == ~running /\ StartFlush(TRUE) /\ UNCHANGED flushNow

AfterFlush == IF last THEN "stopped" ELSE "select"

(* Flush takes the whole buffer, under the mutex.                          *)
MutantTakeCopy ==
    /\ flusher = "flush"
    /\ IF buf = <<>>
         THEN flusher' = AfterFlush /\ UNCHANGED <<batch, buf>>
         ELSE flusher' = "post" /\ batch' = buf /\ UNCHANGED buf
    /\ UNCHANGED <<handling, flushNow, last, received, acked, failed, world>>

MutantTakeFullOnly ==
    /\ flusher = "flush"
    /\ IF Len(buf) < BatchSize
         THEN flusher' = AfterFlush /\ UNCHANGED <<batch, buf>>
         ELSE flusher' = "post" /\ batch' = buf /\ buf' = <<>>
    /\ UNCHANGED <<handling, flushNow, last, received, acked, failed, world>>

Take ==
    /\ flusher = "flush"
    /\ IF buf = <<>>
         THEN flusher' = AfterFlush /\ UNCHANGED <<batch, buf>>
         ELSE flusher' = "post" /\ batch' = buf /\ buf' = <<>>
    /\ UNCHANGED <<handling, flushNow, last, received, acked, failed, world>>

(* The sink answers below 300.                                             *)
MutantDeliverDrains ==
    /\ flusher = "post" /\ sinkUp
    /\ received' = received \cup ToSet(batch)
    /\ acked' = acked \cup ToSet(batch)
    /\ batch' = <<>>
    /\ flushNow' = FALSE
    /\ failed' = FALSE
    /\ flusher' = AfterFlush
    /\ UNCHANGED <<handling, buf, last, world>>

Deliver ==
    /\ flusher = "post" /\ sinkUp
    /\ received' = received \cup ToSet(batch)
    /\ acked' = acked \cup ToSet(batch)
    /\ batch' = <<>>
    /\ failed' = FALSE
    /\ flusher' = AfterFlush
    /\ UNCHANGED <<handling, buf, flushNow, last, world>>

(***************************************************************************)
(* The post fails: the sink never got the batch, or got it and its answer  *)
(* was an error or was lost.  The batch goes back in front of the buffer.  *)
(***************************************************************************)
MutantRequeueBehind ==
    /\ flusher = "post" /\ ~sinkUp
    /\ received' \in {received, received \cup ToSet(batch)}
    /\ buf' = Keep(buf \o batch)
    /\ batch' = <<>>
    /\ failed' = TRUE
    /\ flusher' = AfterFlush
    /\ UNCHANGED <<handling, flushNow, last, acked, world>>

Requeue ==
    /\ flusher = "post" /\ ~sinkUp
    /\ received' \in {received, received \cup ToSet(batch)}
    /\ buf' = Keep(batch \o buf)
    /\ batch' = <<>>
    /\ failed' = TRUE
    /\ flusher' = AfterFlush
    /\ UNCHANGED <<handling, flushNow, last, acked, world>>

-----------------------------------------------------------------------------
(* The daemon's context is cancelled; requests in flight go on.            *)
Cancel ==
    /\ running
    /\ running' = FALSE
    /\ UNCHANGED <<handling, buf, flushNow, exporting, sinkUp, outages>>

Outage ==
    /\ sinkUp /\ outages < MaxOutages
    /\ sinkUp' = FALSE
    /\ outages' = outages + 1
    /\ UNCHANGED <<handling, buf, flushNow, exporting, running>>

Recover ==
    /\ ~sinkUp
    /\ sinkUp' = TRUE
    /\ UNCHANGED <<handling, buf, flushNow, exporting, running, outages>>

Next ==
    \/ \E h \in Handlers : Tee(h) \/ Enqueue(h) \/ Signal(h)
    \/ FlushOnTick \/ FlushOnSignal \/ FlushOnExit
    \/ Take \/ Deliver \/ Requeue
    \/ Cancel \/ Outage \/ Recover

Spec == Init /\ [][Next]_vars

(***************************************************************************)
(* The ticker fires, and a flush that has begun goes on: the client's      *)
(* timeout ends every post.  A request that has appended enqueues.         *)
(***************************************************************************)
FairSpec ==
    /\ Spec
    /\ WF_vars(FlushOnTick)
    /\ WF_vars(Take \/ Deliver \/ Requeue)
    /\ \A h \in Handlers : WF_vars(Enqueue(h) \/ Signal(h))

-----------------------------------------------------------------------------
Pending == ToSet(batch) \cup ToSet(buf)

(* At least a whole buffer of entries was enqueued after the i-th.         *)
Superseded(i) == Len(enqueued) - i >= MaxBuffered

(***************************************************************************)
(* An entry that was enqueued has reached the sink or is waiting, unless a *)
(* whole buffer of newer ones came after it (Enqueue, Flush: only the      *)
(* oldest are dropped, and only over the cap), however flushes, failures   *)
(* and requests interleave.                                                *)
(***************************************************************************)
OnlyOldestDropped ==
    \A i \in 1..Len(enqueued) :
      enqueued[i] \in received \cup Pending \/ Superseded(i)

(***************************************************************************)
(* What waits is in the order of the enqueues, and what the sink has not   *)
(* seen yet is newer than all it has seen: it never receives an entry for  *)
(* the first time after a newer one (Flush: a failed batch goes back in    *)
(* front).                                                                 *)
(***************************************************************************)
Position(e) == CHOOSE i \in 1..Len(enqueued) : enqueued[i] = e

OldestFirst ==
    LET waiting == batch \o buf
    IN  /\ \A i, j \in 1..Len(waiting) :
             i < j => Position(waiting[i]) < Position(waiting[j])
        /\ \A e \in Pending \ received, r \in received : Position(r) < Position(e)

(* What the sink acknowledged is never sent again (Flush: duplicates come  *)
(* only from failed posts).                                                *)
AckedNeverAgain == acked \cap Pending = {}

(***************************************************************************)
(* A full batch does not wait for the ticker: while the loop is in select, *)
(* a signal is there or on its way (Enqueue: the channel keeps one).       *)
(* After a failed flush only the ticker or the next entry wakes it.        *)
(***************************************************************************)
FullBatchSignalled ==
    flusher = "select" /\ Len(buf) >= BatchSize =>
      flushNow \/ failed \/ \E h \in Handlers : tees[h].pc = "signal"

(***************************************************************************)
(* Once the sink stays up and the daemon runs, every entry enqueued gets   *)
(* there in the end, unless newer ones pushed it out (Start, Flush).       *)
(***************************************************************************)
EventuallyExported ==
    <>[](sinkUp /\ running) =>
      \A i \in Entries :
        i <= Len(enqueued) ~>
          i <= Len(enqueued) /\ (enqueued[i] \in received \/ Superseded(i))

=============================================================================
