---------------------------- MODULE RuntimeQueue ----------------------------
(***************************************************************************)
(* The records of one child on their way to its handle (index.ts, and the  *)
(* queue of dispatch-event.ts).  While the extension is reloaded no        *)
(* consumer is attached and records wait in a bounded queue; its overflow  *)
(* fences the child's transport for good.  After the reload the queue is   *)
(* drained from a timer, and a record that arrives meanwhile goes straight *)
(* to the consumer.  The close of the transport is handed over last, and    *)
(* the runtime of a killed child is then removed; that of another child is *)
(* kept for the next reload, and a shutdown removes what is left.          *)
(*                                                                         *)
(* A record is its number in the child's stream and what the queue tells   *)
(* apart: an update, another lifecycle boundary, or a settlement.          *)
(***************************************************************************)
EXTENDS Integers, Sequences, FiniteSets, SequencesExt

CONSTANTS
  MAX_RECORDS,            \* MAX_SUBAGENT_EVENT_QUEUE_RECORDS
  CRITICAL_RESERVE,       \* MAX_SUBAGENT_EVENT_CRITICAL_RECORDS
  MAX_DRAIN_RECORDS,      \* MAX_SUBAGENT_EVENT_DRAIN_RECORDS
  MAX_RELOAD_DRAIN_RETRIES,
  MaxSent, MaxReloads, MaxFaults    \* bounds: records, reloads, consumer errors

ASSUME QueueAssumption ==
  /\ MAX_RECORDS \in Nat \ {0}
  /\ CRITICAL_RESERVE \in 0..MAX_RECORDS - 1
  /\ MAX_DRAIN_RECORDS \in Nat \ {0}
  /\ MAX_RELOAD_DRAIN_RETRIES \in Nat
  /\ MaxSent \in Nat /\ MaxReloads \in Nat /\ MaxFaults \in Nat

Kind == {"update", "boundary", "agent_settled"}
Record == [n : 1..MaxSent, kind : Kind]

VARIABLES
  queuedRecords,
  overflowed,             \* queueState.overflowed
  fenced,
  fenceTimer,             \* overflowFenceTimer is set
  attached,               \* a consumer is attached
  drainTimer, drainFailures,
  closed,                 \* the transport is closed and its close noted
  closeHandled,           \* the close was handed to the handle
  killed,                 \* killRequestedAt is set
  removed,                \* removeRuntime was called
  inChunk,                \* a record closed the transport; its chunk may go on
  sent, reloads, faults,  \* history: how often; also the bounds' counters
  delivered, rejected,    \* history: records the consumer took, and refused ones
  lost,                   \* history: those handed to a consumer that failed at once
  abandoned               \* history: those that a shutdown dropped

fence == <<overflowed, fenced, fenceTimer>>
closing == <<closed, closeHandled, killed, removed>>
drainState == <<drainTimer, drainFailures>>
history == <<sent, reloads, faults, delivered, rejected, lost, abandoned>>
vars == <<queuedRecords, fence, attached, drainState, closing, inChunk, history>>

Init ==
  /\ queuedRecords = << >>
  /\ overflowed = FALSE /\ fenced = FALSE /\ fenceTimer = FALSE
  /\ attached = TRUE
  /\ drainTimer = FALSE /\ drainFailures = 0
  /\ closed = FALSE /\ closeHandled = FALSE /\ inChunk = FALSE
  /\ killed = FALSE /\ removed = FALSE
  /\ sent = 0 /\ reloads = 0 /\ faults = 0
  /\ delivered = << >> /\ rejected = {} /\ lost = {} /\ abandoned = {}

isCritical(r) == r.kind # "update"

-----------------------------------------------------------------------------
(* Closing.                                                                *)

(***************************************************************************)
(* handleProcessClose: the runtime of a killed child goes with its close;  *)
(* of another child, when a reload hands the same close over once more.    *)
(***************************************************************************)
RemovedWithClose == killed \/ closeHandled

CloseHandedOver ==
  /\ closeHandled' = TRUE
  /\ removed' = RemovedWithClose
  /\ drainTimer' = FALSE

(* Mutant: the close does not wait for the retained records. *)
deliverCloseAtOnce(queue, timer) ==
  IF closed' /\ attached' /\ ~removed
  THEN CloseHandedOver
  ELSE drainTimer' = timer /\ UNCHANGED <<closeHandled, removed>>

(* deliverClose, given the queue and the drain timer at its call. *)
deliverClose(queue, timer) ==
  IF closed' /\ attached' /\ ~removed /\ ~timer
  THEN IF queue = << >>
       THEN CloseHandedOver
       ELSE drainTimer' = TRUE /\ UNCHANGED <<closeHandled, removed>>
  ELSE drainTimer' = timer /\ UNCHANGED <<closeHandled, removed>>

(* A settlement ends the grace that a fenced transport was given. *)
FencesTransport(r, isFenced) == isFenced /\ r.kind = "agent_settled"

(* The close of the transport, noted at once. *)
CloseNoted ==
  /\ closed' = TRUE
  /\ inChunk' = FALSE
  /\ fenceTimer' = FALSE
  /\ UNCHANGED <<queuedRecords, overflowed, fenced, attached, drainFailures,
                 killed, history>>
  /\ deliverClose(queuedRecords, drainTimer)

TransportCloses == ~closed /\ CloseNoted

OverflowFenceTimeout == fenceTimer /\ ~closed /\ CloseNoted

-----------------------------------------------------------------------------
(* Records from the child.                                                 *)

(* Mutant: boundaries have no slots of their own. *)
HasRoomUnreserved(r) == Len(queuedRecords) < MAX_RECORDS

HasRoom(r) ==
  /\ Len(queuedRecords) < MAX_RECORDS
  /\ isCritical(r) \/ Len(queuedRecords) < MAX_RECORDS - CRITICAL_RESERVE

Admitted(r) == fenced => isCritical(r)

(* After an overflow only the bound of the queue itself counts. *)
Enqueues(r) ==
  IF overflowed THEN isCritical(r) /\ Len(queuedRecords) < MAX_RECORDS
                ELSE HasRoom(r)

Refuse(r) ==
  /\ rejected' = rejected \union {r}
  /\ UNCHANGED <<queuedRecords, drainState, closing, delivered, faults, lost>>

(* Mutant: the transport is left to a settlement that may never come. *)
NoFenceTimer == FALSE

(* The first overflow starts the grace of the transport. *)
StartsFenceTimer == ~overflowed /\ ~closed

(* A record without room in the queue overflows it, which is terminal. *)
Overflow(r) ==
  /\ overflowed' = TRUE
  /\ fenced' = TRUE
  /\ fenceTimer' = (fenceTimer \/ StartsFenceTimer)
  /\ Refuse(r)

(* After the record a settlement may close the fenced transport. *)
FenceAfter(r) ==
  /\ closed' = (closed \/ FencesTransport(r, fenced))
  /\ fenceTimer' = (fenceTimer /\ ~FencesTransport(r, fenced))
  /\ UNCHANGED <<overflowed, fenced, rejected, drainFailures, killed>>

Consumes == attached /\ ~removed

ConsumerTakes(r) ==
  /\ delivered' = Append(delivered, r)
  /\ UNCHANGED <<faults, lost>>

(***************************************************************************)
(* The attached consumer throws.  Nothing catches it before the transport, *)
(* which only notes a diagnostic: the record is not retained.              *)
(***************************************************************************)
ConsumerFails(r) ==
  /\ faults < MaxFaults
  /\ faults' = faults + 1
  /\ lost' = lost \union {r}
  /\ delivered' = delivered

(* The fence after the record is in a finally: it comes in both cases. *)
routeRuntimeRecord(r) ==
  \/ /\ ~Admitted(r)
     /\ Refuse(r)
     /\ UNCHANGED fence
  \/ /\ Admitted(r)
     /\ Consumes /\ closeHandled         \* ignored after the process close
     /\ Refuse(r)
     /\ UNCHANGED fence
  \/ /\ Admitted(r)
     /\ Consumes /\ ~closeHandled
     /\ ConsumerTakes(r) \/ ConsumerFails(r)
     /\ queuedRecords' = queuedRecords
     /\ FenceAfter(r)
     /\ deliverClose(queuedRecords, drainTimer)
  \/ /\ Admitted(r)
     /\ ~Consumes
     /\ Enqueues(r)
     /\ queuedRecords' = Append(queuedRecords, r)
     /\ UNCHANGED <<delivered, faults, lost>>
     /\ FenceAfter(r)
     /\ UNCHANGED <<drainTimer, closeHandled, removed>>
  \/ /\ Admitted(r)
     /\ ~Consumes
     /\ ~Enqueues(r)
     /\ Overflow(r)

(* A chunk of the child's output holds several records, and the rest of it *)
(* is still handled when one of them closes the transport.                 *)
Receive ==
  \E kind \in Kind :
    /\ ~closed \/ inChunk
    /\ sent < MaxSent
    /\ sent' = sent + 1
    /\ attached' = attached
    /\ routeRuntimeRecord([n |-> sent + 1, kind |-> kind])
    /\ inChunk' = closed'
    /\ UNCHANGED <<reloads, abandoned>>

-----------------------------------------------------------------------------
(* Reload and drain.                                                       *)

detachRuntime ==
  /\ Consumes
  /\ reloads < MaxReloads
  /\ reloads' = reloads + 1
  /\ attached' = FALSE
  /\ inChunk' = FALSE
  /\ drainTimer' = FALSE
  /\ UNCHANGED <<queuedRecords, fence, drainFailures, closing, sent, faults,
                 delivered, rejected, lost, abandoned>>

DrainOnAttach(queue) == queue # << >>

attachRuntime ==
  /\ ~attached
  /\ attached' = TRUE
  /\ inChunk' = FALSE
  /\ drainFailures' = 0
  /\ UNCHANGED <<closed, killed>>
  /\ IF DrainOnAttach(queuedRecords)
     THEN drainTimer' = TRUE /\ UNCHANGED <<closeHandled, removed>>
     ELSE deliverClose(queuedRecords, FALSE)
  /\ UNCHANGED <<queuedRecords, fence, history>>

(* The records of a batch that belong to keep, in the order of the batch. *)
Kept(batch, keep) ==
  LET kept[n \in 0..Len(batch)] ==
        IF n = 0 THEN << >>
        ELSE IF batch[n] \in keep THEN Append(kept[n - 1], batch[n])
        ELSE kept[n - 1]
  IN  kept[Len(batch)]

(* Mutant: a record whose consumer failed is dropped. *)
dropFailed(queue, batch, failed) == queue

(* Records whose consumer failed move to the tail. *)
retainFailed(queue, batch, failed) == queue \o Kept(batch, failed)

(* Mutant: the last retry is not made. *)
RetriesLeftOffByOne(failures) == failures < MAX_RELOAD_DRAIN_RETRIES

RetriesLeft(failures) == failures <= MAX_RELOAD_DRAIN_RETRIES

(***************************************************************************)
(* One drain turn: a batch leaves the queue, the consumer fails on some of *)
(* it, and what is left is drained in another turn; after failures only    *)
(* while retries are left.                                                 *)
(***************************************************************************)
drain ==
  LET size == IF Len(queuedRecords) < MAX_DRAIN_RECORDS
              THEN Len(queuedRecords) ELSE MAX_DRAIN_RECORDS
      batch == SubSeq(queuedRecords, 1, size)
      fences == \E r \in ToSet(batch) : FencesTransport(r, fenced)
  IN  \E failed \in SUBSET ToSet(batch) :
        LET left == retainFailed(SubSeq(queuedRecords, size + 1,
                                        Len(queuedRecords)), batch, failed)
        IN  /\ Consumes
            /\ drainTimer
            /\ faults + Cardinality(failed) <= MaxFaults
            /\ faults' = faults + Cardinality(failed)
            /\ queuedRecords' = left
            /\ delivered' = delivered \o Kept(batch, ToSet(batch) \ failed)
            /\ closed' = (closed \/ fences)
            /\ fenceTimer' = (fenceTimer /\ ~fences)
            /\ attached' = attached
            /\ inChunk' = FALSE
            /\ drainFailures' = IF failed = {} THEN 0 ELSE drainFailures + 1
            /\ IF left # << >>
               THEN /\ drainTimer' = RetriesLeft(drainFailures')
                    /\ UNCHANGED <<closeHandled, removed>>
               ELSE deliverClose(left, FALSE)
            /\ UNCHANGED <<overflowed, fenced, killed, sent, reloads, rejected,
                           lost, abandoned>>

-----------------------------------------------------------------------------
(* Kill and removal.                                                       *)

requestKill ==
  /\ Consumes /\ ~closeHandled /\ ~killed
  /\ killed' = TRUE
  /\ inChunk' = FALSE
  /\ UNCHANGED <<queuedRecords, fence, attached, drainState, closed, closeHandled,
                 removed, history>>

(***************************************************************************)
(* A shutdown removes the runtime as soon as its transport is closed, even *)
(* if records and the close still wait for a drain.                        *)
(***************************************************************************)
forceCleanupRuntime ==
  /\ attached /\ closed /\ ~removed
  /\ removed' = TRUE
  /\ abandoned' = ToSet(queuedRecords)
  /\ queuedRecords' = << >>
  /\ fenceTimer' = FALSE /\ drainTimer' = FALSE /\ drainFailures' = 0
  /\ inChunk' = FALSE
  /\ UNCHANGED <<overflowed, fenced, attached, closed, closeHandled, killed,
                 sent, reloads, faults, delivered, rejected, lost>>

Next ==
  \/ Receive
  \/ TransportCloses
  \/ OverflowFenceTimeout
  \/ detachRuntime
  \/ attachRuntime
  \/ drain
  \/ requestKill
  \/ forceCleanupRuntime

(* Timers fire, and a reload ends with the consumer attached again. *)
Fairness ==
  /\ WF_vars(drain)
  /\ WF_vars(OverflowFenceTimeout)
  /\ WF_vars(attachRuntime)

Spec == Init /\ [][Next]_vars /\ Fairness

-----------------------------------------------------------------------------
(* Properties.                                                             *)

(* The runtime's fields keep their types, and the queue its bound. *)
TypeOK ==
  /\ queuedRecords \in Seq(Record)
  /\ Len(queuedRecords) <= MAX_RECORDS
  /\ overflowed \in BOOLEAN /\ fenced \in BOOLEAN /\ fenceTimer \in BOOLEAN
  /\ attached \in BOOLEAN /\ drainTimer \in BOOLEAN /\ drainFailures \in Nat
  /\ closed \in BOOLEAN /\ closeHandled \in BOOLEAN
  /\ killed \in BOOLEAN /\ removed \in BOOLEAN
  /\ sent \in 0..MaxSent
  /\ delivered \in Seq(Record) /\ rejected \subseteq Record
  /\ lost \subseteq Record /\ abandoned \subseteq Record

(***************************************************************************)
(* Every record of the child is in exactly one place: taken by a consumer, *)
(* waiting, refused, dropped by a shutdown, or lost because the consumer    *)
(* that was attached when it came failed on it.  Reloads, retries at the   *)
(* tail, the terminal overflow and the removal of a killed child's runtime *)
(* neither lose nor repeat one, nor does a consumer that fails on a record *)
(* that waited; each loss is an error of its own.                          *)
(***************************************************************************)
EachRecordOnce ==
  /\ Len(delivered) + Len(queuedRecords)
       + Cardinality(rejected \union lost \union abandoned) = sent
  /\ {r.n : r \in ToSet(delivered) \union ToSet(queuedRecords) \union rejected
                  \union lost \union abandoned} = 1..sent
  /\ Cardinality(lost) <= faults

(***************************************************************************)
(* "The queue reserves critical boundary slots before overflow": until the *)
(* close is handled, a lifecycle boundary is refused only when the whole    *)
(* reserve is taken by boundaries; updates never fill it, not even across   *)
(* several reloads with records left over from the one before.             *)
(***************************************************************************)
BoundaryRefusedOnlyWhenFull ==
  [][\A r \in rejected' \ rejected :
       isCritical(r) /\ ~closeHandled =>
         /\ ~Consumes
         /\ Len(queuedRecords) = MAX_RECORDS
         /\ Cardinality({q \in ToSet(queuedRecords) : isCritical(q)})
              >= CRITICAL_RESERVE]_vars

(***************************************************************************)
(* "Deliver a close event after any retained reload records drain": the    *)
(* handle never sees the close before a record that was accepted.  Only    *)
(* the rest of a chunk may still reach the queue of a runtime that is gone. *)
(***************************************************************************)
CloseComesLast == closeHandled => closed /\ (queuedRecords = << >> \/ removed)

(***************************************************************************)
(* A close reaches the handle in the end, through reloads, batches and a   *)
(* consumer that fails no more often than it is retried, unless a shutdown *)
(* removes the runtime first.                                              *)
(***************************************************************************)
CloseIsHandled == closed ~> closeHandled \/ removed

(* An overflow ends the transport, settlement or not. *)
OverflowEndsTransport == overflowed ~> closed

(* Why a close is handled: one that is held back has a drain turn to come, *)
(* or a reload under way whose end makes one, unless the consumer used up  *)
(* its retries.                                                            *)
CloseIsCarried ==
  closed /\ ~closeHandled /\ ~removed =>
    ~attached \/ drainTimer \/ ~RetriesLeft(drainFailures)

(* Why an overflow ends the transport: its grace has a timer, which no     *)
(* later record, reload or drain turn takes away.                          *)
OverflowIsTimed == overflowed => fenceTimer \/ closed

Delivery == INSTANCE RecordDelivery
              WITH Message <- Record,
                   seen <- ToSet(delivered) \union ToSet(queuedRecords)
                             \union rejected \union lost \union abandoned,
                   waiting <- ToSet(queuedRecords),
                   taken <- delivered,
                   ended <- closeHandled,
                   gone <- removed

(***************************************************************************)
(* The queue, the drain and the routing implement the delivery of records: *)
(* a record that waited is taken once, whatever is retried, only one that  *)
(* comes to an attached consumer can be lost, and the handle is told of    *)
(* the close after the last record and takes nothing more.                 *)
(***************************************************************************)
ImplementsDelivery == Delivery!DeliverySpec
==============================================================================
