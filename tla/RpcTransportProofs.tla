--------------------------- MODULE RpcTransportProofs ---------------------------
(***************************************************************************)
(* Proofs about one child's transport, for any limits, any number of       *)
(* requests and any number of calls of terminate.                          *)
(***************************************************************************)
EXTENDS RpcTransport, FiniteSetTheorems, SequenceTheorems, WellFoundedInduction, TLAPS

-----------------------------------------------------------------------------
(* The callers of requests.                                                *)

(* Settling takes the same requests from the map and from their callers.   *)
LEMMA SettleKeepsWaiting ==
  ASSUME NobodyWaitsInVain, NEW ids, Settle(ids)
  PROVE  NobodyWaitsInVain'
BY DEF Settle, removePending, NobodyWaitsInVain

(* A new request is pending and has a caller.                              *)
LEMMA EnqueueKeepsWaiting ==
  ASSUME NobodyWaitsInVain, NEW size, Enqueue(size)
  PROVE  NobodyWaitsInVain'
BY DEF Enqueue, NobodyWaitsInVain

(* A close settles all that is pending, or there was one before.           *)
LEMMA CloseKeepsWaiting ==
  ASSUME NobodyWaitsInVain, NEW how, finishClose(how)
  PROVE  NobodyWaitsInVain'
<1>1. CASE closed
  BY <1>1 DEF finishClose, requests, NobodyWaitsInVain
<1>2. CASE ~closed
  BY <1>2, SettleKeepsWaiting DEF finishClose, RejectedByClose, rejectPending
<1> QED
  BY <1>1, <1>2

(* Nothing about the requests changed.                                     *)
LEMMA UnchangedKeepsWaiting ==
  ASSUME NobodyWaitsInVain, UNCHANGED requests
  PROVE  NobodyWaitsInVain'
BY DEF requests, NobodyWaitsInVain

(* A step of terminate or of its wait.                                     *)
LEMMA LadderKeepsWaiting ==
  ASSUME NobodyWaitsInVain, NEW t \in Terminations,
         terminate(t) \/ AbortEnds(t) \/ CloseSeen(t) \/ WaitTimesOut(t)
  PROVE  NobodyWaitsInVain'
<1>1. CASE terminate(t)
  BY <1>1, EnqueueKeepsWaiting, UnchangedKeepsWaiting DEF terminate
<1>2. CASE AbortEnds(t)
  BY <1>2, UnchangedKeepsWaiting DEF AbortEnds
<1>3. CASE CloseSeen(t)
  BY <1>3, UnchangedKeepsWaiting DEF CloseSeen
<1>4. CASE WaitTimesOut(t)
  BY <1>4, CloseKeepsWaiting, UnchangedKeepsWaiting
  DEF WaitTimesOut, LastRung, FenceTransport
<1> QED
  BY <1>1, <1>2, <1>3, <1>4

(***************************************************************************)
(* However requests end - a response, a timeout, a signal, a failed or     *)
(* stalled write, an error, a close - their callers are told: who still    *)
(* waits, waits for a request in the map.                                  *)
(***************************************************************************)
THEOREM WaitersArePending == Spec => []NobodyWaitsInVain
<1>1. Init => NobodyWaitsInVain
  BY DEF Init, NobodyWaitsInVain
<1>2. NobodyWaitsInVain /\ [Next]_vars => NobodyWaitsInVain'
  <2> SUFFICES ASSUME NobodyWaitsInVain, [Next]_vars
               PROVE  NobodyWaitsInVain'
    OBVIOUS
  <2>1. ASSUME NEW size \in Sizes, send(size)
        PROVE  NobodyWaitsInVain'
    BY <2>1, EnqueueKeepsWaiting DEF send
  <2>2. ASSUME NEW id \in Request,
               RequestTimeout(id) \/ RequestAborted(id) \/ HandleResponse(id)
        PROVE  NobodyWaitsInVain'
    BY <2>2, SettleKeepsWaiting
    DEF RequestTimeout, RequestAborted, HandleResponse, rejectRequest
  <2>3. CASE WriteStart \/ WriteDone
    BY <2>3, UnchangedKeepsWaiting DEF WriteStart, WriteDone
  <2>4. CASE WriteFails \/ WriteTimesOut
    BY <2>4, SettleKeepsWaiting DEF WriteFails, WriteTimesOut, rejectRequest
  <2>5. CASE forceClose \/ OsClose
    BY <2>5, CloseKeepsWaiting DEF forceClose, FenceTransport, OsClose
  <2>6. CASE ProcessExits
    BY <2>6, UnchangedKeepsWaiting DEF ProcessExits
  <2>7. CASE ProcessError
    BY <2>7, SettleKeepsWaiting DEF ProcessError, rejectPending
  <2>8. ASSUME NEW t \in Terminations,
               terminate(t) \/ AbortEnds(t) \/ CloseSeen(t) \/ WaitTimesOut(t)
        PROVE  NobodyWaitsInVain'
    BY <2>8, LadderKeepsWaiting
  <2>9. CASE UNCHANGED vars
    BY <2>9, UnchangedKeepsWaiting DEF vars
  <2> QED
    BY <2>1, <2>2, <2>3, <2>4, <2>5, <2>6, <2>7, <2>8, <2>9 DEF Next
<1> QED
  BY <1>1, <1>2, PTL DEF Spec

-----------------------------------------------------------------------------
(* The close and the signal.                                               *)

(* What the close has to carry along: it comes once, so that the first one *)
(* is the one that closed the transport, and a signal that was delivered   *)
(* was sent.                                                               *)
CloseInvariant ==
  /\ closed \in BOOLEAN
  /\ ~closed => closes = << >>
  /\ sigkillDelivered => sigkillTried
  /\ ladder \in [Terminations -> {"idle", "abort", "afterAbort", "term", "kill", "done"}]
  /\ TerminatedIsClosed
  /\ FencedIsKilled

(* A signal is sent at most more often, and not to a process that exited.  *)
LEMMA SigkillTried ==
  ASSUME CloseInvariant, trySigkill
  PROVE  /\ sigkillDelivered' => sigkillTried'
         /\ sigkillTried => sigkillTried'
         /\ alive => sigkillTried'
<1>1. CASE sigkillDelivered \/ ~alive
  BY <1>1 DEF trySigkill, kill, CloseInvariant
<1>2. CASE ~(sigkillDelivered \/ ~alive)
  BY <1>2 DEF trySigkill
<1> QED
  BY <1>1, <1>2

(* What a step may do to the close, the signal and the calls of terminate. *)
LEMMA KeepsCloseInvariant ==
  ASSUME CloseInvariant,
         closed' = closed, closes' = closes,
         alive' => alive,
         sigkillDelivered' => sigkillTried',
         sigkillTried => sigkillTried',
         ladder' \in [Terminations ->
                       {"idle", "abort", "afterAbort", "term", "kill", "done"}],
         \A t \in Terminations :
           ladder'[t] = "done" => ladder[t] = "done" \/ closed
  PROVE  CloseInvariant'
BY DEF CloseInvariant, TerminatedIsClosed, FencedIsKilled

(* After a close every call of terminate may end; after a forced one the   *)
(* signal has been sent.                                                   *)
LEMMA ClosesOnce ==
  ASSUME CloseInvariant, ~closed,
         NEW how, finishClose(how),
         sigkillDelivered' => sigkillTried',
         how = "forced" /\ alive' => sigkillTried',
         ladder' \in [Terminations ->
                       {"idle", "abort", "afterAbort", "term", "kill", "done"}]
  PROVE  CloseInvariant'
<1>1. closed' = TRUE /\ closes' = Append(<< >>, how)
  BY DEF finishClose, CloseInvariant
<1>2. closes'[1] = how
  BY <1>1
<1> QED
  BY <1>1, <1>2 DEF CloseInvariant, TerminatedIsClosed, FencedIsKilled

(* The fence closes, and tries the signal where the process still runs.    *)
LEMMA FenceKeeps ==
  ASSUME CloseInvariant, FenceTransport, alive' = alive,
         ladder' \in [Terminations ->
                       {"idle", "abort", "afterAbort", "term", "kill", "done"}]
  PROVE  CloseInvariant'
<1>1. finishClose("forced")
  BY DEF FenceTransport
<1>2. CASE closed
  <2>1. closed' = closed /\ closes' = closes /\ UNCHANGED kill
    BY <1>1, <1>2 DEF finishClose, FenceTransport
  <2> QED
    BY <1>2, <2>1, KeepsCloseInvariant DEF kill, CloseInvariant
<1>3. CASE ~closed
  <2>1. trySigkill
    BY <1>3 DEF FenceTransport, KillAfterFence
  <2> QED
    BY <1>1, <1>3, <2>1, SigkillTried, ClosesOnce
<1> QED
  BY <1>2, <1>3

(* The steps that touch neither the close nor a call of terminate.         *)
LEMMA RequestStepsKeep ==
  ASSUME CloseInvariant,
         UNCHANGED <<closed, kill, ladder, closes>>,
         alive' => alive
  PROVE  CloseInvariant'
BY KeepsCloseInvariant DEF kill, CloseInvariant

(* A step of terminate ends the call only on a closed transport.           *)
LEMMA LadderKeepsClose ==
  ASSUME CloseInvariant, NEW t \in Terminations,
         terminate(t) \/ AbortEnds(t) \/ CloseSeen(t) \/ WaitTimesOut(t)
  PROVE  CloseInvariant'
<1>1. \E rung \in {"abort", "afterAbort", "term", "kill", "done"} :
        Climb(t, rung) /\ (rung = "done" => closed \/ ladder[t] = "kill")
  BY DEF terminate, AbortEnds, CloseSeen, WaitTimesOut
<1>2. PICK rung \in {"abort", "afterAbort", "term", "kill", "done"} :
        Climb(t, rung) /\ (rung = "done" => closed \/ ladder[t] = "kill")
  BY <1>1
<1>3. /\ ladder' \in [Terminations ->
                       {"idle", "abort", "afterAbort", "term", "kill", "done"}]
      /\ \A u \in Terminations : u # t => ladder'[u] = ladder[u]
      /\ ladder'[t] = rung
  BY <1>2 DEF Climb, CloseInvariant
<1>4. alive' = alive
  BY DEF terminate, AbortEnds, CloseSeen, WaitTimesOut, LadderFrame
<1>5. CASE terminate(t) \/ AbortEnds(t) \/ CloseSeen(t)
  <2>1. UNCHANGED <<closed, closes, kill>>
    BY <1>5 DEF terminate, AbortEnds, CloseSeen
  <2>2. rung = "done" => closed
    BY <1>3, <1>5 DEF terminate, AbortEnds, CloseSeen, Climb, CloseInvariant
  <2> QED
    BY <1>3, <1>4, <2>1, <2>2, KeepsCloseInvariant DEF kill, CloseInvariant
<1>6. CASE WaitTimesOut(t)
  <2>1. CASE ladder[t] = "kill"
    <3>1. FenceTransport
      BY <1>6, <2>1 DEF WaitTimesOut, LastRung
    <3> QED
      BY <1>3, <1>4, <3>1, FenceKeeps
  <2>2. CASE ladder[t] # "kill"
    <3>1. /\ UNCHANGED <<closed, closes>>
          /\ UNCHANGED kill \/ trySigkill
          /\ ladder'[t] # "done"
      BY <1>3, <1>6, <2>2 DEF WaitTimesOut, Climb, CloseInvariant
    <3>2. /\ sigkillDelivered' => sigkillTried'
          /\ sigkillTried => sigkillTried'
      BY <3>1, SigkillTried DEF kill, CloseInvariant
    <3> QED
      BY <1>3, <1>4, <3>1, <3>2, KeepsCloseInvariant
  <2> QED
    BY <2>1, <2>2
<1> QED
  BY <1>5, <1>6

(* The invariant of the close and the signal is inductive.                 *)
LEMMA CloseInvariantHolds == Spec => []CloseInvariant
<1>1. Init => CloseInvariant
  BY DEF Init, CloseInvariant, TerminatedIsClosed, FencedIsKilled
<1>2. CloseInvariant /\ [Next]_vars => CloseInvariant'
  <2> SUFFICES ASSUME CloseInvariant, [Next]_vars
               PROVE  CloseInvariant'
    OBVIOUS
  <2>1. ASSUME NEW size \in Sizes, send(size)
        PROVE  CloseInvariant'
    BY <2>1, RequestStepsKeep DEF send
  <2>2. ASSUME NEW id \in Request,
               RequestTimeout(id) \/ RequestAborted(id) \/ HandleResponse(id)
        PROVE  CloseInvariant'
    BY <2>2, RequestStepsKeep DEF RequestTimeout, RequestAborted, HandleResponse
  <2>3. CASE WriteStart \/ WriteDone \/ WriteFails \/ WriteTimesOut
    BY <2>3, RequestStepsKeep
    DEF WriteStart, WriteDone, WriteFails, WriteTimesOut
  <2>4. CASE forceClose
    BY <2>4, FenceKeeps DEF forceClose, CloseInvariant
  <2>5. CASE ProcessExits
    BY <2>5, RequestStepsKeep DEF ProcessExits
  <2>6. CASE OsClose
    <3>1. finishClose("os") /\ UNCHANGED <<kill, ladder, alive>>
      BY <2>6 DEF OsClose
    <3>2. CASE closed
      BY <3>1, <3>2, RequestStepsKeep DEF finishClose
    <3>3. CASE ~closed
      BY <3>1, <3>3, ClosesOnce DEF kill, CloseInvariant
    <3> QED
      BY <3>2, <3>3
  <2>7. CASE ProcessError
    BY <2>7, RequestStepsKeep DEF ProcessError
  <2>8. ASSUME NEW t \in Terminations,
               terminate(t) \/ AbortEnds(t) \/ CloseSeen(t) \/ WaitTimesOut(t)
        PROVE  CloseInvariant'
    BY <2>8, LadderKeepsClose
  <2>9. CASE UNCHANGED vars
    BY <2>9, RequestStepsKeep DEF vars
  <2> QED
    BY <2>1, <2>2, <2>3, <2>4, <2>5, <2>6, <2>7, <2>8, <2>9 DEF Next
<1> QED
  BY <1>1, <1>2, PTL DEF Spec

(***************************************************************************)
(* When terminate has returned the transport is closed, for any number of  *)
(* calls that climb the ladder at once, and whether the close comes from   *)
(* the process, from another call or from the last rung.                   *)
(***************************************************************************)
THEOREM TerminateCloses == Spec => []TerminatedIsClosed
<1>1. CloseInvariant => TerminatedIsClosed
  BY DEF CloseInvariant
<1> QED
  BY <1>1, CloseInvariantHolds, PTL

(***************************************************************************)
(* A transport that was fenced while its process ran has tried to kill it: *)
(* the fence itself does not keep the signal back.                         *)
(***************************************************************************)
THEOREM FenceKills == Spec => []FencedIsKilled
<1>1. CloseInvariant => FencedIsKilled
  BY DEF CloseInvariant
<1> QED
  BY <1>1, CloseInvariantHolds, PTL

-----------------------------------------------------------------------------
(* The limits.  The bytes of the pending requests are a sum, a recursive   *)
(* function of the request numbers, so its facts need induction.           *)

(* A set with 0 and with the successor of each of its numbers has them all: *)
(* the least number outside of it would be a counterexample.                *)
LEMMA NatSetInduction ==
  ASSUME NEW S, 0 \in S, \A n \in Nat : n \in S => n + 1 \in S
  PROVE  Nat \subseteq S
<1> DEFINE less == OpToRel(<, Nat)
           T == Nat \ S
<1>1. SUFFICES ASSUME T # {} PROVE FALSE
  OBVIOUS
<1>2. \E x \in T : \A y \in T : <<y, x>> \notin less
  <2> HIDE DEF less, T
  <2>1. IsWellFoundedOn(less, Nat)
    BY NatLessThanWellFounded DEF less
  <2>2. T \subseteq Nat
    BY DEF T
  <2> QED
    BY <1>1, <2>1, <2>2, WFMin
<1>3. PICK x \in T : \A y \in T : <<y, x>> \notin less
  BY <1>2
<1>4. \A y \in Nat : y < x => <<y, x>> \in less
  BY DEF OpToRel
<1> HIDE DEF less
<1>5. x # 0 /\ x \in Nat
  BY <1>3
<1>6. x - 1 \in Nat /\ x - 1 < x
  BY <1>5
<1>7. x - 1 \in S
  BY <1>3, <1>4, <1>6
<1>8. x \in S
  BY <1>6, <1>7, <1>5
<1> QED
  BY <1>3, <1>8

(* What request n adds to the sum. *)
Counted(sizes, ids, n) == IF n \in ids THEN sizes[n] ELSE 0

(* The sum exists: it is built up, one request at a time. *)
LEMMA BytesDefined ==
  ASSUME NEW sizes, NEW ids
  PROVE  \E f : /\ f[0] = 0
                /\ \A n \in 0..MaxRequests - 1 :
                     f[n + 1] = f[n] + Counted(sizes, ids, n + 1)
                /\ BytesOf(sizes, ids) = f[MaxRequests]
<1> DEFINE Is(f, m) == f = [n \in 0..m |->
                              IF n = 0 THEN 0
                              ELSE f[n - 1] + (IF n \in ids THEN sizes[n] ELSE 0)]
           Built == {m \in Nat : \E f : Is(f, m)}
<1>0. MaxRequests \in Nat
  BY TransportAssumption
<1>1. 0 \in Built
  <2> DEFINE f0 == [n \in 0..0 |-> 0]
  <2>1. Is(f0, 0)
    OBVIOUS
  <2> QED
    BY <2>1
<1>2. ASSUME NEW m \in Nat, m \in Built
      PROVE  m + 1 \in Built
  <2>1. PICK f : Is(f, m)
    BY <1>2
  <2> DEFINE v == f[m] + (IF m + 1 \in ids THEN sizes[m + 1] ELSE 0)
             g == [n \in 0..m + 1 |-> IF n = m + 1 THEN v ELSE f[n]]
  <2>2. \A n \in 0..m :
          f[n] = IF n = 0 THEN 0
                 ELSE f[n - 1] + (IF n \in ids THEN sizes[n] ELSE 0)
    BY <2>1
  <2>3. \A n \in 0..m : g[n] = f[n]
    OBVIOUS
  <2>4. g[m + 1] = v
    OBVIOUS
  <2> HIDE DEF v
  <2>5. g = [n \in 0..m + 1 |-> g[n]]
    OBVIOUS
  <2> HIDE DEF g
  <2>6. ASSUME NEW n \in 0..m + 1
        PROVE  g[n] = IF n = 0 THEN 0
                      ELSE g[n - 1] + (IF n \in ids THEN sizes[n] ELSE 0)
    <3>1. CASE n \in 0..m
      BY <2>2, <2>3, <3>1
    <3>2. CASE n = m + 1
      BY <2>3, <2>4, <3>2 DEF v
    <3> QED
      BY <3>1, <3>2
  <2>7. Is(g, m + 1)
    BY <2>5, <2>6
  <2> QED
    BY <2>7
<1>3. Nat \subseteq Built
  <2> HIDE DEF Built
  <2> QED
    BY <1>1, <1>2, NatSetInduction
<1> HIDE DEF Is
<1>4. \E f : Is(f, MaxRequests)
  BY <1>0, <1>3
<1>5. BytesOf(sizes, ids) = (CHOOSE f : Is(f, MaxRequests))[MaxRequests]
  BY DEF BytesOf, Is
<1>6. PICK f : Is(f, MaxRequests) /\ BytesOf(sizes, ids) = f[MaxRequests]
  BY <1>4, <1>5
<1>7. \A n \in 0..MaxRequests :
        f[n] = IF n = 0 THEN 0
               ELSE f[n - 1] + (IF n \in ids THEN sizes[n] ELSE 0)
  BY <1>6 DEF Is
<1>8. f[0] = 0
  BY <1>0, <1>7
<1>9. ASSUME NEW n \in 0..MaxRequests - 1
      PROVE  f[n + 1] = f[n] + Counted(sizes, ids, n + 1)
  <2>1. n + 1 \in 0..MaxRequests /\ n + 1 # 0 /\ (n + 1) - 1 = n
    BY <1>0
  <2> QED
    BY <1>7, <2>1 DEF Counted
<1> QED
  BY <1>6, <1>8, <1>9

(* Every request counts as much in the whole as in the two parts. *)
Splits(s, S, a, A, b, B) ==
  \A n \in Request :
    /\ Counted(s, S, n) \in Nat
    /\ Counted(a, A, n) \in Nat
    /\ Counted(b, B, n) \in Nat
    /\ Counted(s, S, n) = Counted(a, A, n) + Counted(b, B, n)

(* What is so for each request is so for the sums. *)
LEMMA BytesAdd ==
  ASSUME NEW s, NEW S, NEW a, NEW A, NEW b, NEW B, Splits(s, S, a, A, b, B)
  PROVE  /\ BytesOf(s, S) \in Nat /\ BytesOf(a, A) \in Nat /\ BytesOf(b, B) \in Nat
         /\ BytesOf(s, S) = BytesOf(a, A) + BytesOf(b, B)
<1>0. MaxRequests \in Nat
  BY TransportAssumption
<1>1. PICK f : /\ f[0] = 0
               /\ \A n \in 0..MaxRequests - 1 : f[n + 1] = f[n] + Counted(s, S, n + 1)
               /\ BytesOf(s, S) = f[MaxRequests]
  BY BytesDefined
<1>2. PICK g : /\ g[0] = 0
               /\ \A n \in 0..MaxRequests - 1 : g[n + 1] = g[n] + Counted(a, A, n + 1)
               /\ BytesOf(a, A) = g[MaxRequests]
  BY BytesDefined
<1>3. PICK h : /\ h[0] = 0
               /\ \A n \in 0..MaxRequests - 1 : h[n + 1] = h[n] + Counted(b, B, n + 1)
               /\ BytesOf(b, B) = h[MaxRequests]
  BY BytesDefined
<1> DEFINE Right(n) == /\ f[n] \in Nat /\ g[n] \in Nat /\ h[n] \in Nat
                       /\ f[n] = g[n] + h[n]
           Good == {n \in Nat : n <= MaxRequests => Right(n)}
<1>4. 0 \in Good
  BY <1>1, <1>2, <1>3
<1>5. ASSUME NEW n \in Nat, n \in Good
      PROVE  n + 1 \in Good
  <2>1. SUFFICES ASSUME n + 1 <= MaxRequests PROVE Right(n + 1)
    OBVIOUS
  <2>2. n \in 0..MaxRequests - 1 /\ n + 1 \in Request
    BY <1>0, <2>1 DEF Request
  <2>3. Right(n)
    BY <1>0, <1>5, <2>2
  <2>4. /\ f[n + 1] = f[n] + Counted(s, S, n + 1)
        /\ g[n + 1] = g[n] + Counted(a, A, n + 1)
        /\ h[n + 1] = h[n] + Counted(b, B, n + 1)
    BY <1>1, <1>2, <1>3, <2>2
  <2>5. /\ Counted(s, S, n + 1) \in Nat
        /\ Counted(a, A, n + 1) \in Nat
        /\ Counted(b, B, n + 1) \in Nat
        /\ Counted(s, S, n + 1) = Counted(a, A, n + 1) + Counted(b, B, n + 1)
    BY <2>2 DEF Splits
  <2> QED
    BY <2>3, <2>4, <2>5
<1>6. Nat \subseteq Good
  <2> HIDE DEF Good
  <2> QED
    BY <1>4, <1>5, NatSetInduction
<1>7. Right(MaxRequests)
  BY <1>0, <1>6
<1> QED
  BY <1>1, <1>2, <1>3, <1>7

(* No request, no bytes; one request, its bytes. *)
LEMMA BytesOfOne ==
  ASSUME NEW s, NEW id \in Request, s[id] \in Nat
  PROVE  BytesOf(s, {id}) = s[id]
<1>0. MaxRequests \in Nat
  BY TransportAssumption
<1>1. PICK f : /\ f[0] = 0
               /\ \A n \in 0..MaxRequests - 1 :
                    f[n + 1] = f[n] + Counted(s, {id}, n + 1)
               /\ BytesOf(s, {id}) = f[MaxRequests]
  BY BytesDefined
<1> DEFINE Right(n) == f[n] = IF n < id THEN 0 ELSE s[id]
           Good == {n \in Nat : n <= MaxRequests => Right(n)}
<1>2. 0 \in Good
  BY <1>1 DEF Request
<1>3. ASSUME NEW n \in Nat, n \in Good
      PROVE  n + 1 \in Good
  <2>1. SUFFICES ASSUME n + 1 <= MaxRequests PROVE Right(n + 1)
    OBVIOUS
  <2>2. n \in 0..MaxRequests - 1 /\ id \in Nat
    BY <1>0, <2>1 DEF Request
  <2>3. f[n] = IF n < id THEN 0 ELSE s[id]
    BY <1>0, <1>3, <2>2
  <2>4. f[n + 1] = f[n] + Counted(s, {id}, n + 1)
    BY <1>1, <2>2
  <2>5. Counted(s, {id}, n + 1) = IF n + 1 = id THEN s[id] ELSE 0
    BY DEF Counted
  <2> QED
    BY <2>2, <2>3, <2>4, <2>5
<1>4. Nat \subseteq Good
  <2> HIDE DEF Good
  <2> QED
    BY <1>2, <1>3, NatSetInduction
<1>5. f[MaxRequests] = s[id]
  BY <1>0, <1>4 DEF Request
<1> QED
  BY <1>1, <1>5

(* Where nothing counts the sum is 0. *)
LEMMA BytesOfNone ==
  ASSUME NEW s
  PROVE  BytesOf(s, {}) = 0
<1> DEFINE sum == BytesOf(s, {})
<1>1. Splits(s, {}, s, {}, s, {})
  BY DEF Splits, Counted
<1>2. sum \in Nat /\ sum = sum + sum
  BY <1>1, BytesAdd
<1> HIDE DEF sum
<1>3. sum = 0
  BY <1>2
<1> QED
  BY <1>3 DEF sum

(***************************************************************************)
(* What the limits rest on: request numbers are given out once, so that a   *)
(* new request is not pending yet, and every size is a number.              *)
(***************************************************************************)
AccountInvariant ==
  /\ requestSequence \in 0..MaxRequests
  /\ bytes \in [Request -> Nat]
  /\ pending \subseteq 1..requestSequence
  /\ writeChain \in Seq(Request)
  /\ AccountsAreExact

(* The pending requests are finitely many. *)
LEMMA PendingIsFinite ==
  ASSUME AccountInvariant
  PROVE  /\ IsFiniteSet(pending) /\ Cardinality(pending) \in Nat
         /\ pending \subseteq Request
<1>1. requestSequence \in Nat /\ requestSequence <= MaxRequests /\ MaxRequests \in Nat
  BY TransportAssumption DEF AccountInvariant
<1>2. IsFiniteSet(1..requestSequence)
  BY <1>1, FS_Interval
<1>3. pending \subseteq 1..requestSequence
  BY DEF AccountInvariant
<1>4. IsFiniteSet(pending)
  BY <1>2, <1>3, FS_Subset
<1>5. Cardinality(pending) \in Nat
  BY <1>4, FS_CardinalityType
<1>6. pending \subseteq Request
  BY <1>1, <1>3 DEF Request
<1> QED
  BY <1>4, <1>5, <1>6

(* Neither the pending requests nor the queued writes changed. *)
LEMMA AccountsUnchanged ==
  ASSUME AccountInvariant,
         UNCHANGED <<requestSequence, bytes, pending, pendingBytes,
                     queuedWrites, writeChain>>
  PROVE  AccountInvariant'
<1>1. TotalBytes(pending)' = TotalBytes(pending)
  BY DEF TotalBytes
<1> QED
  BY <1>1 DEF AccountInvariant, AccountsAreExact

(* Settled requests take their bytes along. *)
LEMMA SettleIsExact ==
  ASSUME AccountInvariant, NEW ids, Settle(ids), UNCHANGED <<queuedWrites, writeChain>>
  PROVE  AccountInvariant'
<1>1. /\ pending' = pending \ ids
      /\ pendingBytes' = BytesWithout(ids \intersect pending)
      /\ bytes' = [id \in Request |-> IF id \in ids THEN 0 ELSE bytes[id]]
      /\ requestSequence' = requestSequence
  BY DEF Settle, removePending
<1>2. /\ bytes \in [Request -> Nat] /\ pendingBytes = TotalBytes(pending)
      /\ pendingBytes <= maxPendingBytes
  BY DEF AccountInvariant, AccountsAreExact
<1>3. bytes' \in [Request -> Nat]
  BY <1>1, <1>2
<1>4. Splits(bytes, pending, bytes', pending', bytes, ids \intersect pending)
  BY <1>1, <1>2 DEF Splits, Counted
<1>5. /\ TotalBytes(pending)' \in Nat
      /\ TotalBytes(ids \intersect pending) \in Nat
      /\ TotalBytes(pending) = TotalBytes(pending)' + TotalBytes(ids \intersect pending)
  BY <1>4, BytesAdd DEF TotalBytes
<1>6. pendingBytes' = TotalBytes(pending)'
  BY <1>1, <1>2, <1>5 DEF BytesWithout
<1>7. /\ IsFiniteSet(pending) /\ Cardinality(pending) \in Nat
      /\ Cardinality(pending) <= maxPendingRequests
  BY PendingIsFinite DEF AccountInvariant, AccountsAreExact
<1>8. Cardinality(pending') <= maxPendingRequests
  <2> DEFINE left == pending'
  <2>1. left \subseteq pending
    BY <1>1
  <2> HIDE DEF left
  <2>2. /\ Cardinality(left) \in Nat
        /\ Cardinality(left) <= Cardinality(pending)
    BY <1>7, <2>1, FS_Subset, FS_CardinalityType
  <2>3. Cardinality(left) <= maxPendingRequests
    BY <1>7, <2>2, TransportAssumption
  <2> QED
    BY <2>3 DEF left
<1>9. pendingBytes' <= maxPendingBytes
  BY <1>2, <1>5, <1>6, TransportAssumption
<1> QED
  BY <1>1, <1>3, <1>6, <1>8, <1>9 DEF AccountInvariant, AccountsAreExact

(* A request that the limits let in stays within them. *)
LEMMA EnqueueIsExact ==
  ASSUME AccountInvariant, NEW size \in Sizes, CanSend(size),
         requestSequence < MaxRequests, Enqueue(size)
  PROVE  AccountInvariant'
<1> DEFINE id == requestSequence + 1
<1>1. /\ requestSequence \in Nat /\ MaxRequests \in Nat /\ size \in Nat
      /\ id \in Request /\ id \notin 1..requestSequence
      /\ (1..requestSequence) \union {id} \subseteq 1..id
  BY TransportAssumption DEF AccountInvariant, Request
<1>2. /\ requestSequence' = id
      /\ bytes' = [bytes EXCEPT ![id] = size]
      /\ pending' = pending \union {id}
      /\ pendingBytes' = pendingBytes + size
      /\ queuedWrites' = queuedWrites + 1
      /\ writeChain' = Append(writeChain, id)
  BY DEF Enqueue
<1>3. /\ bytes \in [Request -> Nat] /\ pending \subseteq 1..requestSequence
      /\ writeChain \in Seq(Request) /\ queuedWrites = Len(writeChain)
      /\ pendingBytes = TotalBytes(pending)
  BY DEF AccountInvariant, AccountsAreExact
<1> HIDE DEF id
<1>4. id \notin pending
  BY <1>1, <1>3
<1>5. bytes' \in [Request -> Nat] /\ bytes'[id] = size
  BY <1>1, <1>2, <1>3
<1>6. Splits(bytes', pending', bytes, pending, bytes', {id})
  BY <1>1, <1>2, <1>3, <1>4, <1>5 DEF Splits, Counted
<1>7. BytesOf(bytes', pending') = BytesOf(bytes, pending) + BytesOf(bytes', {id})
  BY <1>6, BytesAdd
<1>8. BytesOf(bytes', {id}) = size
  BY <1>1, <1>5, BytesOfOne
<1>9. pendingBytes' = TotalBytes(pending)'
  BY <1>2, <1>3, <1>7, <1>8 DEF TotalBytes
<1>10. pendingBytes' <= maxPendingBytes
  BY <1>2 DEF CanSend
<1>11. Cardinality(pending') <= maxPendingRequests
  <2>1. IsFiniteSet(pending) /\ Cardinality(pending) \in Nat
    BY PendingIsFinite
  <2>2. Cardinality(pending \union {id}) = Cardinality(pending) + 1
    BY <1>4, <2>1, FS_AddElement
  <2>3. Cardinality(pending) < maxPendingRequests
    BY DEF CanSend
  <2> QED
    BY <1>2, <2>1, <2>2, <2>3, TransportAssumption
<1>12. /\ queuedWrites' = Len(writeChain') /\ writeChain' \in Seq(Request)
       /\ queuedWrites' <= maxPendingRequests
  <2>1. queuedWrites < maxPendingRequests
    BY DEF CanSend
  <2> QED
    BY <1>1, <1>2, <1>3, <2>1, TransportAssumption
<1>13. requestSequence' \in 0..MaxRequests /\ pending' \subseteq 1..requestSequence'
  BY <1>1, <1>2, <1>3 DEF Request
<1> QED
  BY <1>5, <1>9, <1>10, <1>11, <1>12, <1>13 DEF AccountInvariant, AccountsAreExact

(* A write leaves the chain when its turn comes. *)
LEMMA WriteStartIsExact ==
  ASSUME AccountInvariant, WriteStart
  PROVE  AccountInvariant'
<1>1. /\ writeChain # << >> /\ writeChain' = Tail(writeChain)
      /\ queuedWrites' = queuedWrites - 1
      /\ UNCHANGED <<requestSequence, bytes, pending, pendingBytes>>
  BY DEF WriteStart, requests
<1>2. /\ writeChain \in Seq(Request) /\ queuedWrites = Len(writeChain)
      /\ queuedWrites <= maxPendingRequests
  BY DEF AccountInvariant, AccountsAreExact
<1>3. /\ writeChain' \in Seq(Request) /\ Len(writeChain') = Len(writeChain) - 1
      /\ Len(writeChain) \in Nat
  BY <1>1, <1>2
<1>4. queuedWrites' = Len(writeChain') /\ queuedWrites' <= maxPendingRequests
  BY <1>1, <1>2, <1>3, TransportAssumption
<1>5. TotalBytes(pending)' = TotalBytes(pending)
  BY <1>1 DEF TotalBytes
<1> QED
  BY <1>1, <1>3, <1>4, <1>5 DEF AccountInvariant, AccountsAreExact

(* A close settles everything, or there was one before. *)
LEMMA CloseIsExact ==
  ASSUME AccountInvariant, NEW how, finishClose(how)
  PROVE  AccountInvariant'
<1>1. CASE closed
  BY <1>1, AccountsUnchanged DEF finishClose, requests
<1>2. CASE ~closed
  BY <1>2, SettleIsExact DEF finishClose, RejectedByClose, rejectPending
<1> QED
  BY <1>1, <1>2

(* A step of terminate or of its wait. *)
LEMMA LadderIsExact ==
  ASSUME AccountInvariant, NEW t \in Terminations,
         terminate(t) \/ AbortEnds(t) \/ CloseSeen(t) \/ WaitTimesOut(t)
  PROVE  AccountInvariant'
<1>1. CASE UNCHANGED <<requests, writes>>
  BY <1>1, AccountsUnchanged DEF requests, writes
<1>2. ASSUME NEW size \in Sizes, CanSend(size), requestSequence < MaxRequests,
             Enqueue(size)
      PROVE  AccountInvariant'
  BY <1>2, EnqueueIsExact
<1>3. CASE FenceTransport
  BY <1>3, CloseIsExact DEF FenceTransport
<1> QED
  BY <1>1, <1>2, <1>3 DEF terminate, AbortEnds, CloseSeen, WaitTimesOut, LastRung

(* It holds in every state. *)
LEMMA AccountInvariantHolds == Spec => []AccountInvariant
<1>1. Init => AccountInvariant
  <2> SUFFICES ASSUME Init PROVE AccountInvariant
    OBVIOUS
  <2>1. /\ requestSequence = 0 /\ bytes = [id \in Request |-> 0]
        /\ pending = {} /\ pendingBytes = 0
        /\ queuedWrites = 0 /\ writeChain = << >>
    BY DEF Init
  <2>2. TotalBytes(pending) = 0 /\ Cardinality(pending) = 0
    BY <2>1, BytesOfNone, FS_EmptySet DEF TotalBytes
  <2>3. writeChain \in Seq(Request) /\ Len(writeChain) = 0
    BY <2>1
  <2> QED
    BY <2>1, <2>2, <2>3, TransportAssumption DEF AccountInvariant, AccountsAreExact
<1>2. AccountInvariant /\ [Next]_vars => AccountInvariant'
  <2> SUFFICES ASSUME AccountInvariant, [Next]_vars
               PROVE  AccountInvariant'
    OBVIOUS
  <2>1. ASSUME NEW size \in Sizes, send(size)
        PROVE  AccountInvariant'
    BY <2>1, EnqueueIsExact DEF send
  <2>2. ASSUME NEW id \in Request,
               RequestTimeout(id) \/ RequestAborted(id) \/ HandleResponse(id)
        PROVE  AccountInvariant'
    BY <2>2, SettleIsExact
    DEF RequestTimeout, RequestAborted, HandleResponse, rejectRequest, writes
  <2>3. CASE WriteStart
    BY <2>3, WriteStartIsExact
  <2>4. CASE WriteDone
    BY <2>4, AccountsUnchanged DEF WriteDone, requests
  <2>5. CASE WriteFails \/ WriteTimesOut
    BY <2>5, SettleIsExact DEF WriteFails, WriteTimesOut, rejectRequest
  <2>6. CASE forceClose \/ OsClose
    BY <2>6, CloseIsExact DEF forceClose, FenceTransport, OsClose
  <2>7. CASE ProcessExits
    BY <2>7, AccountsUnchanged DEF ProcessExits, requests, writes
  <2>8. CASE ProcessError
    BY <2>8, SettleIsExact DEF ProcessError, rejectPending, writes
  <2>9. ASSUME NEW t \in Terminations,
               terminate(t) \/ AbortEnds(t) \/ CloseSeen(t) \/ WaitTimesOut(t)
        PROVE  AccountInvariant'
    BY <2>9, LadderIsExact
  <2>10. CASE UNCHANGED vars
    BY <2>10, AccountsUnchanged DEF vars, requests, writes
  <2> QED
    BY <2>1, <2>2, <2>3, <2>4, <2>5, <2>6, <2>7, <2>8, <2>9, <2>10 DEF Next
<1> QED
  BY <1>1, <1>2, PTL DEF Spec

(***************************************************************************)
(* However requests end, the limits count what is really pending and queued *)
(* and are kept: for any limits, sizes and numbers of requests.             *)
(***************************************************************************)
THEOREM AccountsStayExact == Spec => []AccountsAreExact
<1>1. AccountInvariant => AccountsAreExact
  BY DEF AccountInvariant
<1> QED
  BY <1>1, AccountInvariantHolds, PTL

-----------------------------------------------------------------------------
(* The order of the writes.                                                *)

(* The queued writes are a sequence of numbers of requests. *)
LEMMA ChainOfNumbers ==
  ASSUME AccountInvariant
  PROVE  /\ requestSequence \in Nat
         /\ writeChain \in Seq(Nat) /\ Len(writeChain) \in Nat
         /\ DOMAIN writeChain = 1..Len(writeChain)
         /\ \A i \in 1..Len(writeChain) : writeChain[i] \in Nat /\ writeChain[i] > 0
<1>1. writeChain \in Seq(Request) /\ requestSequence \in Nat
  BY TransportAssumption DEF AccountInvariant
<1>2. Request \subseteq Nat /\ \A n \in Request : n > 0
  BY TransportAssumption DEF Request
<1>3. writeChain \in Seq(Nat)
  BY <1>1, <1>2, SeqMonotonic
<1>4. Len(writeChain) \in Nat /\ DOMAIN writeChain = 1..Len(writeChain)
  BY <1>1
<1>5. \A i \in 1..Len(writeChain) : writeChain[i] \in Request
  BY <1>1, ElementOfSeq
<1> QED
  BY <1>1, <1>2, <1>3, <1>4, <1>5

(* What is sent gets the next number, behind all that is queued. *)
LEMMA EnqueueInOrder ==
  ASSUME AccountInvariant, WrittenInOrder, writing \in Nat, NEW size, Enqueue(size)
  PROVE  WrittenInOrder'
<1>1. /\ requestSequence' = requestSequence + 1
      /\ writeChain' = Append(writeChain, requestSequence + 1)
      /\ writing' = writing
  BY DEF Enqueue
<1>2. /\ requestSequence \in Nat
      /\ writeChain \in Seq(Nat) /\ Len(writeChain) \in Nat
      /\ DOMAIN writeChain = 1..Len(writeChain)
  BY ChainOfNumbers
<1>3. /\ DOMAIN writeChain' = 1..Len(writeChain) + 1
      /\ \A i \in 1..Len(writeChain) : writeChain'[i] = writeChain[i]
      /\ writeChain'[Len(writeChain) + 1] = requestSequence + 1
  BY <1>1, <1>2
<1>4. \A i \in 1..Len(writeChain) :
        /\ writeChain[i] \in Nat /\ writeChain[i] < requestSequence + 1
        /\ writing < writeChain[i]
  BY <1>2 DEF WrittenInOrder
<1>5. \A i, j \in 1..Len(writeChain) : i < j => writeChain[i] < writeChain[j]
  BY <1>2 DEF WrittenInOrder
<1>6. writing < requestSequence + 1
  BY <1>2 DEF WrittenInOrder
<1>7. ASSUME NEW i \in 1..Len(writeChain) + 1, NEW j \in 1..Len(writeChain) + 1, i < j
      PROVE  writeChain'[i] < writeChain'[j]
  <2>1. i \in 1..Len(writeChain)
    BY <1>2, <1>7
  <2>2. CASE j = Len(writeChain) + 1
    BY <1>3, <1>4, <2>1, <2>2
  <2>3. CASE j \in 1..Len(writeChain)
    BY <1>3, <1>5, <1>7, <2>1, <2>3
  <2> QED
    BY <1>2, <2>2, <2>3
<1>8. ASSUME NEW i \in 1..Len(writeChain) + 1
      PROVE  writing < writeChain'[i] /\ writeChain'[i] <= requestSequence + 1
  <2>1. CASE i = Len(writeChain) + 1
    BY <1>2, <1>3, <1>6, <2>1
  <2>2. CASE i \in 1..Len(writeChain)
    BY <1>2, <1>3, <1>4, <2>2
  <2> QED
    BY <1>2, <2>1, <2>2
<1>9. writing <= requestSequence + 1
  BY <1>2, <1>6
<1> QED
  BY <1>1, <1>3, <1>7, <1>8, <1>9 DEF WrittenInOrder

(* The next write is before all that are left. *)
LEMMA WriteStartInOrder ==
  ASSUME AccountInvariant, WrittenInOrder, WriteStart
  PROVE  WrittenInOrder' /\ writing' \in Nat
<1>1. /\ writeChain # << >> /\ writeChain' = Tail(writeChain)
      /\ writing' = Head(writeChain) \/ writing' = 0
      /\ requestSequence' = requestSequence
  BY DEF WriteStart, requests
<1>2. /\ requestSequence \in Nat
      /\ writeChain \in Seq(Nat) /\ Len(writeChain) \in Nat /\ Len(writeChain) > 0
      /\ DOMAIN writeChain = 1..Len(writeChain)
      /\ \A i \in 1..Len(writeChain) : writeChain[i] \in Nat /\ writeChain[i] > 0
  <2>1. Len(writeChain) # 0
    BY <1>1, ChainOfNumbers, EmptySeq
  <2> QED
    BY <2>1, ChainOfNumbers
<1>3. /\ DOMAIN writeChain' = 1..Len(writeChain) - 1
      /\ \A i \in 1..Len(writeChain) - 1 : writeChain'[i] = writeChain[i + 1]
      /\ Head(writeChain) = writeChain[1]
  BY <1>1, <1>2
<1>4. /\ \A i, j \in 1..Len(writeChain) : i < j => writeChain[i] < writeChain[j]
      /\ \A i \in 1..Len(writeChain) : writeChain[i] <= requestSequence
  BY <1>2 DEF WrittenInOrder
<1>5. writing' \in Nat /\ writing' <= requestSequence
  BY <1>1, <1>2, <1>3, <1>4
<1>6. ASSUME NEW i \in 1..Len(writeChain) - 1
      PROVE  writing' < writeChain'[i] /\ writeChain'[i] <= requestSequence
  <2>1. 1 \in 1..Len(writeChain) /\ i + 1 \in 1..Len(writeChain) /\ 1 < i + 1
    BY <1>2
  <2>2. writeChain[1] < writeChain[i + 1] /\ writeChain[i + 1] > 0
    BY <1>2, <1>4, <2>1
  <2> QED
    BY <1>1, <1>3, <1>4, <2>1, <2>2
<1>7. ASSUME NEW i \in 1..Len(writeChain) - 1, NEW j \in 1..Len(writeChain) - 1, i < j
      PROVE  writeChain'[i] < writeChain'[j]
  <2>1. /\ i + 1 \in 1..Len(writeChain) /\ j + 1 \in 1..Len(writeChain)
        /\ i + 1 < j + 1
    BY <1>2, <1>7
  <2> QED
    BY <1>3, <1>4, <2>1
<1> QED
  BY <1>1, <1>3, <1>5, <1>6, <1>7 DEF WrittenInOrder

(* A step of another kind leaves the chain, and ends at most the write. *)
LEMMA StillInOrder ==
  ASSUME AccountInvariant, WrittenInOrder, writing \in Nat,
         UNCHANGED <<writeChain, requestSequence>>, writing' \in {writing, 0}
  PROVE  WrittenInOrder' /\ writing' \in Nat
<1>1. /\ \A i \in DOMAIN writeChain : writeChain[i] \in Nat /\ 0 < writeChain[i]
      /\ requestSequence \in Nat
  BY ChainOfNumbers
<1> QED
  BY <1>1 DEF WrittenInOrder

(* What a settlement and a close leave alone. *)
LEMMA CloseLeavesChain ==
  ASSUME NEW how, finishClose(how)
  PROVE  UNCHANGED <<writeChain, requestSequence>> /\ writing' \in {writing, 0}
BY DEF finishClose, RejectedByClose, rejectPending, Settle, removePending, requests

(***************************************************************************)
(* Requests are written in the order in which they were sent, and each at  *)
(* most once, for any number of them and whichever end before their turn.  *)
(***************************************************************************)
THEOREM WritesKeepOrder == Spec => []WrittenInOrder
<1>1. Init => WrittenInOrder /\ writing \in Nat
  <2> SUFFICES ASSUME Init PROVE WrittenInOrder /\ writing \in Nat
    OBVIOUS
  <2>1. writeChain = << >> /\ writing = 0 /\ requestSequence = 0 /\ DOMAIN << >> = {}
    BY DEF Init
  <2> QED
    BY <2>1 DEF WrittenInOrder
<1>2. /\ AccountInvariant /\ WrittenInOrder /\ writing \in Nat /\ [Next]_vars
      => WrittenInOrder' /\ (writing \in Nat)'
  <2> SUFFICES ASSUME AccountInvariant, WrittenInOrder, writing \in Nat, [Next]_vars
               PROVE  WrittenInOrder' /\ writing' \in Nat
    OBVIOUS
  <2>1. ASSUME NEW size, Enqueue(size) PROVE WrittenInOrder' /\ writing' \in Nat
    BY <2>1, EnqueueInOrder DEF Enqueue
  <2>2. ASSUME UNCHANGED <<requests, writes>> PROVE WrittenInOrder' /\ writing' \in Nat
    BY <2>2, StillInOrder DEF requests, writes
  <2>3. ASSUME NEW how, finishClose(how) PROVE WrittenInOrder' /\ writing' \in Nat
    BY <2>3, CloseLeavesChain, StillInOrder
  <2>4. CASE \E size \in Sizes : send(size)
    BY <2>1, <2>4 DEF send
  <2>5. ASSUME NEW id \in Request,
               RequestTimeout(id) \/ RequestAborted(id) \/ HandleResponse(id)
        PROVE  WrittenInOrder' /\ writing' \in Nat
    BY <2>5, StillInOrder
    DEF RequestTimeout, RequestAborted, HandleResponse, rejectRequest, Settle,
        removePending, writes
  <2>6. CASE WriteStart
    BY <2>6, WriteStartInOrder
  <2>7. CASE WriteDone \/ WriteFails \/ WriteTimesOut
    BY <2>7, StillInOrder
    DEF WriteDone, WriteFails, WriteTimesOut, rejectRequest, Settle, removePending, requests
  <2>8. CASE forceClose \/ OsClose
    BY <2>3, <2>8 DEF forceClose, FenceTransport, OsClose
  <2>9. CASE ProcessExits \/ UNCHANGED vars
    BY <2>2, <2>9 DEF ProcessExits, vars
  <2>10. CASE ProcessError
    BY <2>10, StillInOrder DEF ProcessError, rejectPending, Settle, removePending, writes
  <2>11. ASSUME NEW t \in Terminations,
                terminate(t) \/ AbortEnds(t) \/ CloseSeen(t) \/ WaitTimesOut(t)
         PROVE  WrittenInOrder' /\ writing' \in Nat
    BY <2>1, <2>2, <2>3, <2>11
    DEF terminate, AbortEnds, CloseSeen, WaitTimesOut, LastRung, FenceTransport
  <2> QED
    BY <2>4, <2>5, <2>6, <2>7, <2>8, <2>9, <2>10, <2>11 DEF Next
<1> QED
  BY <1>1, <1>2, AccountInvariantHolds, PTL DEF Spec

-----------------------------------------------------------------------------
(* After the close.                                                        *)

(* Nothing more is sent, and what was pending is settled. *)
LEMMA SettleOwesNothing ==
  ASSUME ClosedOwesNothing, NEW ids, Settle(ids), UNCHANGED <<closed, stdin>>,
         writing' \in {writing, 0}
  PROVE  ClosedOwesNothing'
BY DEF ClosedOwesNothing, Settle, removePending

(* The close settles all that is pending. *)
LEMMA CloseOwesNothing ==
  ASSUME ClosedOwesNothing, NobodyWaitsInVain, NEW how, finishClose(how)
  PROVE  ClosedOwesNothing'
BY DEF ClosedOwesNothing, NobodyWaitsInVain, finishClose, RejectedByClose, rejectPending,
       Settle, removePending, requests

(***************************************************************************)
(* After the close, forced or not and whatever was under way, no caller    *)
(* waits, nothing is pending or written, and nothing new is sent.          *)
(***************************************************************************)
THEOREM CloseSettlesAll == Spec => []ClosedOwesNothing
<1>1. Init => ClosedOwesNothing
  BY DEF Init, ClosedOwesNothing
<1>2. NobodyWaitsInVain /\ ClosedOwesNothing /\ [Next]_vars => ClosedOwesNothing'
  <2> SUFFICES ASSUME NobodyWaitsInVain, ClosedOwesNothing, [Next]_vars
               PROVE  ClosedOwesNothing'
    OBVIOUS
  <2>1. ASSUME UNCHANGED <<requests, writes, stdin, closed>> PROVE ClosedOwesNothing'
    BY <2>1 DEF requests, writes, ClosedOwesNothing
  <2>2. CASE \E size \in Sizes : send(size)
    BY <2>2 DEF send, CanSend, ClosedOwesNothing
  <2>3. ASSUME NEW id \in Request,
               RequestTimeout(id) \/ RequestAborted(id) \/ HandleResponse(id)
        PROVE  ClosedOwesNothing'
    BY <2>3, SettleOwesNothing
    DEF RequestTimeout, RequestAborted, HandleResponse, rejectRequest, writes
  <2>4. CASE WriteStart
    BY <2>4 DEF WriteStart, requests, ClosedOwesNothing
  <2>5. CASE WriteDone
    BY <2>5 DEF WriteDone, requests, ClosedOwesNothing
  <2>6. CASE WriteFails \/ WriteTimesOut
    BY <2>6 DEF WriteFails, WriteTimesOut, WriteHasTimer, ClosedOwesNothing
  <2>7. CASE forceClose \/ OsClose
    BY <2>7, CloseOwesNothing DEF forceClose, FenceTransport, OsClose
  <2>8. CASE ProcessExits \/ UNCHANGED vars
    BY <2>1, <2>8 DEF ProcessExits, vars
  <2>9. CASE ProcessError
    BY <2>9, SettleOwesNothing DEF ProcessError, rejectPending, writes
  <2>10. ASSUME NEW t \in Terminations,
                terminate(t) \/ AbortEnds(t) \/ CloseSeen(t) \/ WaitTimesOut(t)
         PROVE  ClosedOwesNothing'
    <3>1. CASE FenceTransport
      BY <3>1, CloseOwesNothing DEF FenceTransport
    <3>2. CASE \E size \in Sizes : ~closed /\ Enqueue(size) /\ closed' = closed
      BY <3>2 DEF ClosedOwesNothing
    <3> QED
      BY <2>1, <2>10, <3>1, <3>2
      DEF terminate, AbortEnds, CloseSeen, WaitTimesOut, LastRung, writes
  <2> QED
    BY <2>2, <2>3, <2>4, <2>5, <2>6, <2>7, <2>8, <2>9, <2>10 DEF Next
<1> QED
  BY <1>1, <1>2, WaitersArePending, PTL DEF Spec
=============================================================================
