---------------------------- MODULE RpcTransport ----------------------------
(***************************************************************************)
(* The transport of one child process (rpc.ts): requests matched with      *)
(* their responses, a chain that writes them to stdin one at a time, the   *)
(* child's lines, the ladder of terminate, and the close, which comes from *)
(* the operating system or is forced.                                      *)
(*                                                                         *)
(* A request is its number in requestSequence.  Framing is left out: a     *)
(* line is a response or another record; a line that is neither only makes *)
(* a diagnostic.                                                           *)
(***************************************************************************)
EXTENDS Integers, Sequences, FiniteSets, SequencesExt

CONSTANTS
  maxPendingRequests, maxRequestBytes, maxPendingBytes,
  Sizes,                  \* bound: encoded sizes that requests have
  Terminations,           \* bound: the calls of terminate
  MaxRequests             \* bound: requests

ASSUME TransportAssumption ==
  /\ maxPendingRequests \in Nat \ {0}
  /\ maxRequestBytes \in Nat \ {0} /\ maxPendingBytes \in Nat \ {0}
  /\ Sizes \subseteq Nat \ {0} /\ IsFiniteSet(Sizes)
  /\ IsFiniteSet(Terminations)
  /\ MaxRequests \in Nat

Request == 1..MaxRequests

VARIABLES
  requestSequence,
  bytes,            \* per pending request: its encoded size
  pending,          \* the keys of the map of pending requests
  pendingBytes,
  queuedWrites,
  writeChain,       \* the requests whose turn to be written has not come
  writing,          \* the request being written, 0 if none
  stdin,            \* open or destroyed
  processError,
  closed,
  sigkillDelivered,
  ladder,           \* per call of terminate: the rung it waits on
  alive,            \* the child process runs
  waiting,          \* history: the requests whose caller still waits
  closes,           \* history: the closes that onClose was called with
  sigkillTried      \* history: kill("SIGKILL") was called

requests == <<requestSequence, bytes, pending, pendingBytes, waiting>>
writes == <<queuedWrites, writeChain, writing>>
kill == <<sigkillDelivered, sigkillTried>>
vars == <<requests, writes, stdin, processError, closed, kill, ladder, alive, closes>>

Init ==
  /\ requestSequence = 0
  /\ bytes = [id \in Request |-> 0]
  /\ pending = {} /\ pendingBytes = 0
  /\ waiting = {}
  /\ queuedWrites = 0 /\ writeChain = << >> /\ writing = 0
  /\ stdin = "open" /\ processError = FALSE
  /\ closed = FALSE /\ closes = << >>
  /\ sigkillDelivered = FALSE /\ sigkillTried = FALSE
  /\ ladder = [t \in Terminations |-> "idle"]
  /\ alive = TRUE

-----------------------------------------------------------------------------
(* Pending requests.                                                       *)

BytesOf(sizes, ids) ==
  LET total[n \in 0..MaxRequests] ==
        IF n = 0 THEN 0
        ELSE total[n - 1] + (IF n \in ids THEN sizes[n] ELSE 0)
  IN  total[MaxRequests]

TotalBytes(ids) == BytesOf(bytes, ids)

(* Mutant: the bytes of a settled request stay counted. *)
KeptBytes(ids) == pendingBytes

BytesWithout(ids) ==
  LET left == pendingBytes - TotalBytes(ids) IN IF left > 0 THEN left ELSE 0

removePending(ids) ==
  /\ pending' = pending \ ids
  /\ pendingBytes' = BytesWithout(ids \intersect pending)
  /\ bytes' = [id \in Request |-> IF id \in ids THEN 0 ELSE bytes[id]]
  /\ UNCHANGED requestSequence

(* removePending, and the promises of those that were pending. *)
Settle(ids) == removePending(ids) /\ waiting' = waiting \ (ids \intersect pending)

rejectRequest(id) == Settle({id})
rejectPending == Settle(pending)

(* A request is refused without a trace but for its number. *)
CanSend(size) ==
  /\ ~closed /\ ~processError
  /\ Cardinality(pending) < maxPendingRequests
  /\ queuedWrites < maxPendingRequests
  /\ stdin = "open"
  /\ size <= maxRequestBytes
  /\ pendingBytes + size <= maxPendingBytes

(* Registered at once; its write waits for the writes before it. *)
Enqueue(size) ==
  LET id == requestSequence + 1
  IN  /\ requestSequence' = id
      /\ bytes' = [bytes EXCEPT ![id] = size]
      /\ pending' = pending \union {id}
      /\ pendingBytes' = pendingBytes + size
      /\ waiting' = waiting \union {id}
      /\ queuedWrites' = queuedWrites + 1
      /\ writeChain' = Append(writeChain, id)
      /\ writing' = writing

send(size) ==
  /\ requestSequence < MaxRequests
  /\ CanSend(size)
  /\ Enqueue(size)
  /\ UNCHANGED <<stdin, processError, closed, kill, ladder, alive, closes>>

RequestTimeout(id) ==
  /\ id \in pending
  /\ rejectRequest(id)
  /\ UNCHANGED <<writes, stdin, processError, closed, kill, ladder, alive, closes>>

(* The caller's signal: it also ends the wait of a write under way. *)
RequestAborted(id) ==
  /\ id \in pending \/ id = writing
  /\ rejectRequest(id)
  /\ writing' = IF id = writing THEN 0 ELSE writing
  /\ UNCHANGED <<queuedWrites, writeChain, stdin, processError, closed, kill,
                 ladder, alive, closes>>

-----------------------------------------------------------------------------
(* The write chain.                                                        *)

(* The next write; a request that was settled before its turn is skipped.  *)
WriteStart ==
  /\ writing = 0 /\ writeChain # << >>
  /\ queuedWrites' = queuedWrites - 1
  /\ writeChain' = Tail(writeChain)
  /\ writing' = IF Head(writeChain) \in pending THEN Head(writeChain) ELSE 0
  /\ UNCHANGED <<requests, stdin, processError, closed, kill, ladder, alive, closes>>

WriteDone ==
  /\ writing # 0 /\ stdin = "open"
  /\ writing' = 0
  /\ UNCHANGED <<requests, queuedWrites, writeChain, stdin, processError,
                 closed, kill, ladder, alive, closes>>

WriteFails ==
  /\ writing # 0
  /\ rejectRequest(writing)
  /\ writing' = 0
  /\ UNCHANGED <<queuedWrites, writeChain, stdin, processError, closed, kill,
                 ladder, alive, closes>>

(* Mutant: a write has no time limit. *)
NeverTimesOut == FALSE
WriteHasTimer == writing # 0

(* A write that the child does not take in time ends stdin. *)
WriteTimesOut ==
  /\ WriteHasTimer
  /\ stdin' = "destroyed"
  /\ rejectRequest(writing)
  /\ writing' = 0
  /\ UNCHANGED <<queuedWrites, writeChain, processError, closed, kill, ladder,
                 alive, closes>>

-----------------------------------------------------------------------------
(* Closing.                                                                *)

RejectedByClose == rejectPending

(* The first close wins.  Queued writes are left to skip themselves. *)
finishClose(how) ==
  /\ IF ~closed
     THEN /\ closed' = TRUE
          /\ closes' = Append(closes, how)
          /\ stdin' = "destroyed"
          /\ RejectedByClose
          /\ writing' = 0
     ELSE UNCHANGED <<closed, closes, stdin, requests, writing>>
  /\ UNCHANGED <<queuedWrites, writeChain>>

(* The signal may be refused; one that was delivered is not sent again. *)
trySigkill ==
  IF sigkillDelivered \/ ~alive THEN UNCHANGED kill
  ELSE sigkillTried' = TRUE /\ sigkillDelivered' \in BOOLEAN

(* Mutant: the guarded form, which does nothing once closed. *)
signalSigkill == IF closed' THEN UNCHANGED kill ELSE trySigkill

KillAfterFence == trySigkill

(* forceClose: the fence first, and the signal after it. *)
FenceTransport ==
  /\ finishClose("forced")
  /\ IF closed THEN UNCHANGED kill ELSE KillAfterFence

(* By the owner, at a deadline of its own or while it handles a record; the *)
(* records behind that one in its chunk find no request pending, and where *)
(* they go is the runtime's matter.                                        *)
forceClose ==
  /\ ~closed
  /\ FenceTransport
  /\ UNCHANGED <<processError, ladder, alive>>

ProcessExits ==
  /\ alive
  /\ alive' = FALSE
  /\ UNCHANGED <<requests, writes, stdin, processError, closed, kill, ladder, closes>>

(* The process's close event; none may come for a process that exited. *)
OsClose ==
  /\ ~alive
  /\ "os" \notin {closes[i] : i \in DOMAIN closes}
  /\ finishClose("os")
  /\ UNCHANGED <<processError, kill, ladder, alive>>

(* An error of the process or of its stdin. *)
ProcessError ==
  /\ ~closed /\ ~processError
  /\ processError' = TRUE
  /\ rejectPending
  /\ UNCHANGED <<writes, stdin, closed, kill, ladder, alive, closes>>

-----------------------------------------------------------------------------
(* Responses of the child.                                                 *)

(* A response settles its request; one for no pending request is ignored.  *)
HandleResponse(id) ==
  /\ ~closed
  /\ id \in pending
  /\ Settle({id})
  /\ UNCHANGED <<writes, stdin, processError, closed, kill, ladder, alive, closes>>

-----------------------------------------------------------------------------
(* terminate: abort, SIGTERM, SIGKILL, and the fence.                      *)

Climb(t, rung) == ladder' = [ladder EXCEPT ![t] = rung]

LadderFrame == UNCHANGED <<processError, alive>>

(* The call, with its abort request if one can be sent. *)
terminate(t) ==
  /\ ladder[t] = "idle"
  /\ \/ /\ closed
        /\ Climb(t, "done")
        /\ UNCHANGED <<requests, writes>>
     \/ /\ ~closed
        /\ \E size \in Sizes : CanSend(size) /\ requestSequence < MaxRequests
                                             /\ Enqueue(size)
        /\ Climb(t, "abort")
     \/ /\ ~closed                              \* refused, or without an abort
        /\ \E rung \in {"afterAbort", "term"} : Climb(t, rung)
        /\ UNCHANGED <<requests, writes>>
  /\ UNCHANGED <<stdin, closed, closes, kill>>
  /\ LadderFrame

(* The abort request is settled, or given up after its time. *)
AbortEnds(t) ==
  /\ ladder[t] = "abort"
  /\ Climb(t, "afterAbort")
  /\ UNCHANGED <<requests, writes, stdin, closed, closes, kill>>
  /\ LadderFrame

(* waitForClose saw the close. *)
CloseSeen(t) ==
  /\ ladder[t] \in {"afterAbort", "term", "kill"}
  /\ closed
  /\ Climb(t, "done")
  /\ UNCHANGED <<requests, writes, stdin, closed, closes, kill>>
  /\ LadderFrame

(* Mutant: the last wait ends the call although nothing was closed. *)
GiveUp == UNCHANGED <<closed, closes, stdin, requests, writes, kill>>

LastRung == FenceTransport

(* Mutant: the wait for the close after SIGKILL has no limit. *)
WaitsForeverAfterKill(t) == ladder[t] \in {"afterAbort", "term"}
WaitHasTimer(t) == ladder[t] \in {"afterAbort", "term", "kill"}

(* waitForClose timed out: the next rung. *)
WaitTimesOut(t) ==
  /\ WaitHasTimer(t)
  /\ \/ /\ ladder[t] = "afterAbort"
        /\ Climb(t, "term")
        /\ UNCHANGED <<closed, closes, stdin, requests, writes, kill>>
     \/ /\ ladder[t] = "term"
        /\ Climb(t, "kill")
        /\ IF closed THEN UNCHANGED kill ELSE trySigkill
        /\ UNCHANGED <<closed, closes, stdin, requests, writes>>
     \/ /\ ladder[t] = "kill"
        /\ Climb(t, "done")
        /\ LastRung
  /\ LadderFrame

-----------------------------------------------------------------------------
Next ==
  \/ \E size \in Sizes : send(size)
  \/ \E id \in Request :
       RequestTimeout(id) \/ RequestAborted(id) \/ HandleResponse(id)
  \/ WriteStart \/ WriteDone \/ WriteFails \/ WriteTimesOut
  \/ forceClose \/ ProcessExits \/ OsClose \/ ProcessError
  \/ \E t \in Terminations :
       terminate(t) \/ AbortEnds(t) \/ CloseSeen(t) \/ WaitTimesOut(t)

Spec == Init /\ [][Next]_vars

(* Timers fire and the chain goes on; the child answers nothing, and need  *)
(* not exit.                                                               *)
Fairness ==
  /\ \A id \in Request : WF_vars(RequestTimeout(id))
  /\ WF_vars(WriteStart) /\ WF_vars(WriteTimesOut)
  /\ \A t \in Terminations : WF_vars(AbortEnds(t)) /\ WF_vars(WaitTimesOut(t))

FairSpec == Spec /\ Fairness

-----------------------------------------------------------------------------
(* Properties.                                                             *)

(* However requests end - by a response, a timeout, a signal, a failed      *)
(* write, an error or the close - the limits count what is really there.   *)
AccountsAreExact ==
  /\ pendingBytes = TotalBytes(pending)
  /\ queuedWrites = Len(writeChain)
  /\ Cardinality(pending) <= maxPendingRequests
  /\ queuedWrites <= maxPendingRequests
  /\ pendingBytes <= maxPendingBytes

(* A caller waits only for a request that something can still settle.      *)
NobodyWaitsInVain == waiting = pending

(* When a call of terminate has returned, the transport is closed, whoever *)
(* else closes it, and however the signals fare.                           *)
TerminatedIsClosed == \A t \in Terminations : ladder[t] = "done" => closed

(* A transport that fenced itself has tried to kill its process. *)
FencedIsKilled == closed /\ closes[1] = "forced" /\ alive => sigkillTried

(* A closed transport owes nobody an answer and takes no more requests: the *)
(* close settles what is pending, though queued writes are left behind.    *)
ClosedOwesNothing ==
  closed => pending = {} /\ waiting = {} /\ writing = 0 /\ stdin = "destroyed"

(* Requests are written in the order in which they were sent, each once:   *)
(* those that wait to be written are in that order, behind the one that is *)
(* being written, whichever were settled or given up in between.           *)
WrittenInOrder ==
  /\ \A i, j \in DOMAIN writeChain : i < j => writeChain[i] < writeChain[j]
  /\ \A i \in DOMAIN writeChain :
       writing < writeChain[i] /\ writeChain[i] <= requestSequence
  /\ writing <= requestSequence

(* Even if the child neither reads nor answers, each write gets its turn   *)
(* and ends.                                                               *)
WritesEnd ==
  \A id \in Request :
    /\ id \in ToSet(writeChain) ~> id \notin ToSet(writeChain)
    /\ writing = id ~> writing # id

(* Every call of terminate returns, whatever the child does. *)
TerminateReturns ==
  \A t \in Terminations : ladder[t] # "idle" ~> ladder[t] = "done"
=============================================================================
