-------------------------- MODULE RuntimeQueueProofs --------------------------
(***************************************************************************)
(* Proofs about the way of a child's records to its handle, for any sizes  *)
(* of the queue, any number of reloads and any failures of the consumer.   *)
(***************************************************************************)
EXTENDS RuntimeQueue, FiniteSetTheorems, SequenceTheorems, WellFoundedInduction,
        TLAPS

(* A runtime whose close was handed over and that is not removed is at     *)
(* rest: nothing waits or drains, and what still comes of a chunk is not   *)
(* queued, because the consumer that ignores it is attached.               *)
AtRestAfterClose ==
  closeHandled /\ ~removed =>
    /\ queuedRecords = << >>
    /\ ~drainTimer
    /\ inChunk => attached

(* CloseComesLast, and why: a close is handed over, and a runtime removed, *)
(* only when the transport is closed.                                      *)
CloseInvariant ==
  /\ closeHandled => closed
  /\ removed => closed
  /\ AtRestAfterClose

(* deliverClose hands the close over only after the records of the queue.  *)
LEMMA DeliverCloseWaits ==
  ASSUME NEW queue, NEW timer,
         deliverClose(queue, timer),
         queuedRecords' = queue,
         ~closeHandled, removed => closed, closed => closed',
         inChunk' => attached'
  PROVE  CloseInvariant'
<1>1. CASE closed' /\ attached' /\ ~removed /\ ~timer /\ queue = << >>
  <2>1. queuedRecords' = << >> /\ drainTimer' = FALSE
    BY <1>1 DEF deliverClose, CloseHandedOver
  <2> QED
    BY <1>1, <2>1 DEF CloseInvariant, AtRestAfterClose
<1>2. CASE ~(closed' /\ attached' /\ ~removed /\ ~timer /\ queue = << >>)
  <2>1. closeHandled' = closeHandled /\ removed' = removed
    BY <1>2 DEF deliverClose
  <2> QED
    BY <2>1 DEF CloseInvariant, AtRestAfterClose
<1> QED
  BY <1>1, <1>2

(* The close itself comes once, and before it nothing was handed over. *)
LEMMA CloseNotedKeeps ==
  ASSUME CloseInvariant, ~closed, CloseNoted
  PROVE  CloseInvariant'
<1>1. /\ closed' = TRUE /\ inChunk' = FALSE
      /\ queuedRecords' = queuedRecords
      /\ deliverClose(queuedRecords, drainTimer)
  BY DEF CloseNoted
<1>2. ~closeHandled /\ ~removed
  BY DEF CloseInvariant
<1> QED
  BY <1>1, <1>2, DeliverCloseWaits

(* A record that arrives: taken, queued or refused.                        *)
LEMMA ReceiveKeeps ==
  ASSUME CloseInvariant, Receive
  PROVE  CloseInvariant'
<1>1. PICK kind \in Kind :
        /\ ~closed \/ inChunk
        /\ attached' = attached
        /\ routeRuntimeRecord([n |-> sent + 1, kind |-> kind])
        /\ inChunk' = closed'
  BY DEF Receive
<1> DEFINE r == [n |-> sent + 1, kind |-> kind]
<1>2. CASE /\ queuedRecords' = queuedRecords
           /\ UNCHANGED <<drainTimer, closed, closeHandled, removed>>
  <2>1. closeHandled /\ ~removed => attached
    BY <1>1 DEF CloseInvariant, AtRestAfterClose
  <2> QED
    BY <1>1, <1>2, <2>1 DEF CloseInvariant, AtRestAfterClose
<1>3. CASE /\ Consumes /\ ~closeHandled
           /\ queuedRecords' = queuedRecords
           /\ FenceAfter(r)
           /\ deliverClose(queuedRecords, drainTimer)
  <2>1. closed => closed'
    BY <1>3 DEF FenceAfter
  <2>2. attached'
    BY <1>1, <1>3 DEF Consumes
  <2> QED
    BY <1>3, <2>1, <2>2, DeliverCloseWaits DEF CloseInvariant
<1>4. CASE /\ ~Consumes
           /\ FenceAfter(r)
           /\ UNCHANGED <<drainTimer, closeHandled, removed>>
  <2>1. closed => closed'
    BY <1>4 DEF FenceAfter
  <2>2. ~(closeHandled /\ ~removed)     \* it would be attached
    BY <1>1, <1>4 DEF CloseInvariant, AtRestAfterClose, Consumes
  <2> QED
    BY <1>4, <2>1, <2>2 DEF CloseInvariant, AtRestAfterClose
<1>5. routeRuntimeRecord(r)
  BY <1>1
<1> HIDE DEF r
<1> QED
  BY <1>2, <1>3, <1>4, <1>5
  DEF routeRuntimeRecord, Refuse, Overflow, drainState, closing

(* The reload: while it lasts nothing is handed over.                      *)
LEMMA ReloadKeeps ==
  ASSUME CloseInvariant, detachRuntime \/ attachRuntime
  PROVE  CloseInvariant'
<1>1. CASE detachRuntime
  BY <1>1 DEF detachRuntime, closing, CloseInvariant, AtRestAfterClose
<1>2. CASE attachRuntime
  <2>1. /\ closed' = closed /\ attached' = TRUE
        /\ queuedRecords' = queuedRecords /\ inChunk' = FALSE
    BY <1>2 DEF attachRuntime
  <2>2. CASE queuedRecords # << >>
    <3>1. closeHandled' = closeHandled /\ removed' = removed
      BY <1>2, <2>2 DEF attachRuntime, DrainOnAttach
    <3>2. ~(closeHandled /\ ~removed)
      BY <2>2 DEF CloseInvariant, AtRestAfterClose
    <3> QED
      BY <2>1, <3>1, <3>2 DEF CloseInvariant, AtRestAfterClose
  <2>3. CASE queuedRecords = << >>
    <3>1. deliverClose(queuedRecords, FALSE)
      BY <1>2, <2>3 DEF attachRuntime, DrainOnAttach
    <3>2. CASE closed /\ ~removed       \* a second close removes the runtime
      <4>1. /\ closeHandled' = TRUE
            /\ removed' = (killed \/ closeHandled)
            /\ drainTimer' = FALSE
        BY <2>1, <2>3, <3>1, <3>2
        DEF deliverClose, CloseHandedOver, RemovedWithClose
      <4> QED
        BY <2>1, <2>3, <3>2, <4>1 DEF CloseInvariant, AtRestAfterClose
    <3>3. CASE ~(closed /\ ~removed)
      <4>1. /\ closeHandled' = closeHandled /\ removed' = removed
        BY <2>1, <3>1, <3>3 DEF deliverClose
      <4> QED
        BY <2>1, <3>3, <4>1 DEF CloseInvariant, AtRestAfterClose
    <3> QED
      BY <3>2, <3>3
  <2> QED
    BY <2>2, <2>3
<1> QED
  BY <1>1, <1>2

(* A drain turn: the timer runs only while the close was not handed over.  *)
LEMMA DrainKeeps ==
  ASSUME CloseInvariant, drain
  PROVE  CloseInvariant'
<1>1. /\ Consumes /\ drainTimer
      /\ inChunk' = FALSE
      /\ closed => closed'
  BY DEF drain
<1>2. \E left :
        /\ queuedRecords' = left
        /\ IF left # << >>
           THEN UNCHANGED <<closeHandled, removed>>
           ELSE deliverClose(left, FALSE)
  BY Zenon DEF drain
<1>3. PICK left :
        /\ queuedRecords' = left
        /\ IF left # << >>
           THEN UNCHANGED <<closeHandled, removed>>
           ELSE deliverClose(left, FALSE)
  BY <1>2
<1>4. ~closeHandled /\ ~removed
  BY <1>1 DEF CloseInvariant, AtRestAfterClose, Consumes
<1>5. CASE left # << >>
  BY <1>1, <1>3, <1>4, <1>5 DEF CloseInvariant, AtRestAfterClose
<1>6. CASE left = << >>
  BY <1>1, <1>3, <1>4, <1>6, DeliverCloseWaits
<1> QED
  BY <1>5, <1>6

(* The close is handed over last, at first and after every step. *)
LEMMA CloseInvariantInductive ==
  /\ Init => CloseInvariant
  /\ CloseInvariant /\ [Next]_vars => CloseInvariant'
<1>1. Init => CloseInvariant
  BY DEF Init, CloseInvariant, AtRestAfterClose
<1>2. CloseInvariant /\ [Next]_vars => CloseInvariant'
  <2> SUFFICES ASSUME CloseInvariant, [Next]_vars
               PROVE  CloseInvariant'
    OBVIOUS
  <2>1. CASE Receive
    BY <2>1, ReceiveKeeps
  <2>2. CASE TransportCloses \/ OverflowFenceTimeout
    BY <2>2, CloseNotedKeeps DEF TransportCloses, OverflowFenceTimeout
  <2>3. CASE detachRuntime \/ attachRuntime
    BY <2>3, ReloadKeeps
  <2>4. CASE drain
    BY <2>4, DrainKeeps
  <2>5. CASE requestKill
    BY <2>5 DEF requestKill, drainState, CloseInvariant, AtRestAfterClose
  <2>6. CASE forceCleanupRuntime
    BY <2>6 DEF forceCleanupRuntime, CloseInvariant, AtRestAfterClose
  <2>7. CASE UNCHANGED vars
    BY <2>7
    DEF vars, drainState, closing, CloseInvariant, AtRestAfterClose
  <2> QED
    BY <2>1, <2>2, <2>3, <2>4, <2>5, <2>6, <2>7 DEF Next
<1> QED
  BY <1>1, <1>2

(***************************************************************************)
(* "Deliver a close event after any retained reload records drain", for    *)
(* any number of records, reloads, failed batches and retries.             *)
(***************************************************************************)
THEOREM CloseIsLast == Spec => []CloseComesLast
<1>1. CloseInvariant => CloseComesLast
  BY DEF CloseInvariant, AtRestAfterClose, CloseComesLast
<1> QED
  BY <1>1, CloseInvariantInductive, PTL DEF Spec

-----------------------------------------------------------------------------
(* Induction.  A set of numbers stands for the predicate, and the least     *)
(* number outside of it for the counterexample.                             *)

(* A set with 0 and with the successor of each of its numbers has them all. *)
LEMMA NatSetInduction ==
  ASSUME NEW S, 0 \in S, \A n \in Nat : n \in S => n + 1 \in S
  PROVE  Nat \subseteq S
<1> DEFINE less == OpToRel(<, Nat)
           T == Nat \ S
<1>1. SUFFICES ASSUME T # {} PROVE FALSE
  OBVIOUS
<1>2. \E x \in T : \A y \in T : <<y, x>> \notin less
  <2> HIDE DEF less, T
  <2>1. IsWellFoundedOn(less, Nat)
    BY NatLessThanWellFounded DEF less
  <2>2. T \subseteq Nat
    BY DEF T
  <2> QED
    BY <1>1, <2>1, <2>2, WFMin
<1>3. PICK x \in T : \A y \in T : <<y, x>> \notin less
  BY <1>2
<1>4. \A y \in Nat : y < x => <<y, x>> \in less
  BY DEF OpToRel
<1> HIDE DEF less
<1>5. x # 0 /\ x \in Nat
  BY <1>3
<1>6. x - 1 \in Nat /\ x - 1 < x
  BY <1>5
<1>7. x - 1 \in S
  BY <1>3, <1>4, <1>6
<1>8. x \in S
  BY <1>6, <1>7, <1>5
<1> QED
  BY <1>3, <1>8

(* The recursive function of Kept exists: built up, one argument at a time. *)
LEMMA KeptDefined ==
  ASSUME NEW batch, NEW keep, Len(batch) \in Nat
  PROVE  \E f : /\ f = [n \in 0..Len(batch) |->
                          IF n = 0 THEN << >>
                          ELSE IF batch[n] \in keep
                               THEN Append(f[n - 1], batch[n])
                               ELSE f[n - 1]]
                /\ Kept(batch, keep) = f[Len(batch)]
<1> DEFINE Is(f, m) == f = [n \in 0..m |->
                              IF n = 0 THEN << >>
                              ELSE IF batch[n] \in keep
                                   THEN Append(f[n - 1], batch[n])
                                   ELSE f[n - 1]]
           Built == {m \in Nat : \E f : Is(f, m)}
<1>1. 0 \in Built
  <2> DEFINE f0 == [n \in 0..0 |-> << >>]
  <2>1. Is(f0, 0)
    OBVIOUS
  <2> QED
    BY <2>1
<1>2. ASSUME NEW m \in Nat, m \in Built
      PROVE  m + 1 \in Built
  <2>1. PICK f : Is(f, m)
    BY <1>2
  <2> DEFINE v == IF batch[m + 1] \in keep
                  THEN Append(f[m], batch[m + 1]) ELSE f[m]
             g == [n \in 0..m + 1 |-> IF n = m + 1 THEN v ELSE f[n]]
  <2>2. \A n \in 0..m :
          f[n] = IF n = 0 THEN << >>
                 ELSE IF batch[n] \in keep THEN Append(f[n - 1], batch[n])
                 ELSE f[n - 1]
    BY <2>1
  <2>3. \A n \in 0..m : g[n] = f[n]
    OBVIOUS
  <2>4. g[m + 1] = v
    OBVIOUS
  <2> HIDE DEF v
  <2>5. g = [n \in 0..m + 1 |-> g[n]]
    OBVIOUS
  <2> HIDE DEF g
  <2>6. ASSUME NEW n \in 0..m + 1
        PROVE  g[n] = IF n = 0 THEN << >>
                      ELSE IF batch[n] \in keep
                           THEN Append(g[n - 1], batch[n])
                      ELSE g[n - 1]
    <3>1. CASE n \in 0..m
      BY <2>2, <2>3, <3>1
    <3>2. CASE n = m + 1
      BY <2>3, <2>4, <3>2 DEF v
    <3> QED
      BY <3>1, <3>2
  <2>7. Is(g, m + 1)
    BY <2>5, <2>6
  <2> QED
    BY <2>7, SMTT(30)
<1> HIDE DEF Is
<1>3. Nat \subseteq Built
  <2> HIDE DEF Built
  <2> QED
    BY <1>1, <1>2, NatSetInduction
<1>4. \E f : Is(f, Len(batch))
  BY <1>3
<1>5. Kept(batch, keep) = (CHOOSE f : Is(f, Len(batch)))[Len(batch)]
  BY DEF Kept, Is
<1> QED
  BY <1>4, <1>5 DEF Is

-----------------------------------------------------------------------------
(* Sequences of records, no one of which is there twice.                    *)

(* A record added at the tail.                                              *)
LEMMA AppendFacts ==
  ASSUME NEW S, NEW s \in Seq(S), NEW e \in S
  PROVE  /\ Append(s, e) \in Seq(S)
         /\ Len(Append(s, e)) = Len(s) + 1
         /\ ToSet(Append(s, e)) = ToSet(s) \union {e}
         /\ IsInjective(s) /\ e \notin ToSet(s) => IsInjective(Append(s, e))
<1>1. /\ Append(s, e) \in Seq(S)
      /\ Len(Append(s, e)) = Len(s) + 1
      /\ DOMAIN Append(s, e) = 1..Len(s) + 1
      /\ DOMAIN s = 1..Len(s)
      /\ Len(s) \in Nat
      /\ Append(s, e)[Len(s) + 1] = e
      /\ \A i \in 1..Len(s) : Append(s, e)[i] = s[i]
  OBVIOUS
<1>2. ToSet(Append(s, e)) = ToSet(s) \union {e}
  <2>1. ASSUME NEW x \in ToSet(Append(s, e))
        PROVE  x \in ToSet(s) \union {e}
    <3>1. PICK i \in 1..Len(s) + 1 : x = Append(s, e)[i]
      BY <1>1, <2>1 DEF ToSet
    <3>2. CASE i = Len(s) + 1
      BY <1>1, <3>1, <3>2
    <3>3. CASE i \in 1..Len(s)
      BY <1>1, <3>1, <3>3 DEF ToSet
    <3> QED
      BY <1>1, <3>1, <3>2, <3>3
  <2>2. ASSUME NEW x \in ToSet(s)
        PROVE  x \in ToSet(Append(s, e))
    <3>1. PICK i \in 1..Len(s) : x = s[i]
      BY <1>1 DEF ToSet
    <3>2. i \in 1..Len(s) + 1 /\ x = Append(s, e)[i]
      BY <1>1, <3>1
    <3> QED
      BY <1>1, <3>2 DEF ToSet
  <2>3. e \in ToSet(Append(s, e))
    <3>1. Len(s) + 1 \in 1..Len(s) + 1
      BY <1>1
    <3> QED
      BY <1>1, <3>1 DEF ToSet
  <2> QED
    BY <2>1, <2>2, <2>3
<1>3. ASSUME IsInjective(s), e \notin ToSet(s)
      PROVE  IsInjective(Append(s, e))
  <2>1. \A i \in 1..Len(s) : s[i] # e
    BY <1>1, <1>3 DEF ToSet
  <2>2. \A i, j \in 1..Len(s) : s[i] = s[j] => i = j
    BY <1>1, <1>3 DEF IsInjective
  <2> QED
    BY <1>1, <2>1, <2>2 DEF IsInjective
<1> QED
  BY <1>1, <1>2, <1>3

(* One sequence behind the other.                                           *)
LEMMA JoinFacts ==
  ASSUME NEW S, NEW s \in Seq(S), NEW t \in Seq(S)
  PROVE  /\ s \o t \in Seq(S)
         /\ Len(s \o t) = Len(s) + Len(t)
         /\ ToSet(s \o t) = ToSet(s) \union ToSet(t)
         /\ IsInjective(s) /\ IsInjective(t) /\ ToSet(s) \intersect ToSet(t) = {}
              => IsInjective(s \o t)
<1> DEFINE u == s \o t
<1>1. /\ u \in Seq(S)
      /\ Len(u) = Len(s) + Len(t)
      /\ \A i \in 1..Len(s) + Len(t) :
           u[i] = IF i <= Len(s) THEN s[i] ELSE t[i - Len(s)]
  BY ConcatProperties
<1>2. /\ Len(s) \in Nat /\ Len(t) \in Nat
      /\ DOMAIN s = 1..Len(s) /\ DOMAIN t = 1..Len(t)
  OBVIOUS
<1>3. DOMAIN u = 1..Len(s) + Len(t)
  BY <1>1
<1> HIDE DEF u
<1>4. \A i \in 1..Len(s) : i \in 1..Len(s) + Len(t) /\ u[i] = s[i]
  BY <1>1, <1>2
<1>5. \A i \in 1..Len(t) : Len(s) + i \in 1..Len(s) + Len(t) /\ u[Len(s) + i] = t[i]
  BY <1>1, <1>2, SMTT(30)
<1>6. \A i \in 1..Len(s) + Len(t) :
        \/ i \in 1..Len(s) /\ u[i] = s[i]
        \/ i - Len(s) \in 1..Len(t) /\ u[i] = t[i - Len(s)]
  BY <1>1, <1>2
<1>7. ToSet(u) = ToSet(s) \union ToSet(t)
  <2>1. ASSUME NEW x \in ToSet(u)
        PROVE  x \in ToSet(s) \union ToSet(t)
    <3>1. PICK i \in 1..Len(s) + Len(t) : x = u[i]
      BY <1>3 DEF ToSet
    <3> QED
      BY <1>2, <1>6, <3>1 DEF ToSet
  <2>2. ToSet(s) \subseteq ToSet(u)
    BY <1>2, <1>3, <1>4 DEF ToSet
  <2>3. ToSet(t) \subseteq ToSet(u)
    BY <1>2, <1>3, <1>5 DEF ToSet
  <2> QED
    BY <2>1, <2>2, <2>3
<1>8. ASSUME IsInjective(s), IsInjective(t), ToSet(s) \intersect ToSet(t) = {}
      PROVE  IsInjective(u)
  <2>1. SUFFICES ASSUME NEW i \in 1..Len(s) + Len(t),
                        NEW j \in 1..Len(s) + Len(t),
                        u[i] = u[j]
                 PROVE  i = j
    BY <1>3 DEF IsInjective
  <2>2. \A a, b \in 1..Len(s) : s[a] = s[b] => a = b
    BY <1>2, <1>8 DEF IsInjective
  <2>3. \A a, b \in 1..Len(t) : t[a] = t[b] => a = b
    BY <1>2, <1>8 DEF IsInjective
  <2>4. \A a \in 1..Len(s), b \in 1..Len(t) : s[a] # t[b]
    BY <1>2, <1>8 DEF ToSet
  <2>5. i \in Int /\ j \in Int /\ Len(s) \in Int
    BY <1>2
  <2> QED
    BY <1>6, <2>1, <2>2, <2>3, <2>4, <2>5
<1> QED
  BY <1>1, <1>7, <1>8 DEF u

(* A sequence is cut in two.                                                *)
LEMMA CutFacts ==
  ASSUME NEW S, NEW s \in Seq(S), NEW n \in 0..Len(s)
  PROVE  LET a == SubSeq(s, 1, n)
             b == SubSeq(s, n + 1, Len(s))
         IN  /\ a \in Seq(S) /\ b \in Seq(S)
             /\ Len(a) + Len(b) = Len(s)
             /\ ToSet(a) \union ToSet(b) = ToSet(s)
             /\ IsInjective(s) => /\ IsInjective(a) /\ IsInjective(b)
                                  /\ ToSet(a) \intersect ToSet(b) = {}
<1> DEFINE a == SubSeq(s, 1, n)
           b == SubSeq(s, n + 1, Len(s))
<1>1. /\ Len(s) \in Nat /\ n \in Nat /\ n <= Len(s)
      /\ DOMAIN s = 1..Len(s)
      /\ \A i \in 1..Len(s) : s[i] \in S
  OBVIOUS
<1>2. /\ a \in Seq(S) /\ Len(a) = n
      /\ \A i \in 1..n : a[i] = s[i]
  <2>1. /\ a \in Seq(S)
        /\ Len(a) = IF 1 <= n THEN n - 1 + 1 ELSE 0
        /\ \A i \in 1..n - 1 + 1 : a[i] = s[1 + i - 1]
    BY <1>1, SubSeqProperties
  <2> HIDE DEF a
  <2> QED
    BY <1>1, <2>1
<1>3. /\ b \in Seq(S) /\ Len(b) = Len(s) - n
      /\ \A i \in 1..Len(s) - n : b[i] = s[n + i]
  <2>1. /\ b \in Seq(S)
        /\ Len(b) = IF n + 1 <= Len(s) THEN Len(s) - (n + 1) + 1 ELSE 0
        /\ \A i \in 1..Len(s) - (n + 1) + 1 : b[i] = s[(n + 1) + i - 1]
    BY <1>1, SubSeqProperties
  <2> HIDE DEF b
  <2>2. \A i \in 1..Len(s) - n :
          i \in 1..Len(s) - (n + 1) + 1 /\ (n + 1) + i - 1 = n + i
    BY <1>1
  <2>3. Len(b) = Len(s) - n
    <3>1. CASE n + 1 <= Len(s)
      <4>1. Len(b) = Len(s) - (n + 1) + 1
        BY <2>1, <3>1
      <4> QED
        BY <1>1, <4>1
    <3>2. CASE ~(n + 1 <= Len(s))
      <4>1. Len(b) = 0
        BY <2>1, <3>2
      <4>2. Len(s) \in Nat /\ n \in Nat /\ n <= Len(s)
        BY <1>1
      <4>3. Len(s) - n = 0
        BY <3>2, <4>2
      <4> QED
        BY <4>1, <4>3
    <3> QED
      BY <3>1, <3>2
  <2>4. ASSUME NEW i \in 1..Len(s) - n
        PROVE  b[i] = s[n + i]
    <3>1. b[i] = s[(n + 1) + i - 1]
      BY <2>1, <2>2
    <3> QED
      BY <2>2, <3>1
  <2> QED
    BY <2>1, <2>3, <2>4
<1> HIDE DEF a, b
<1>4. DOMAIN a = 1..n /\ DOMAIN b = 1..Len(s) - n
  BY <1>2, <1>3
<1>5. ToSet(a) \union ToSet(b) = ToSet(s)
  <2>1. ASSUME NEW x \in ToSet(s)
        PROVE  x \in ToSet(a) \union ToSet(b)
    <3>1. PICK i \in 1..Len(s) : x = s[i]
      BY <1>1 DEF ToSet
    <3>2. CASE i <= n
      <4>1. i \in 1..n /\ x = a[i]
        BY <1>1, <1>2, <3>1, <3>2
      <4> QED
        BY <1>4, <4>1 DEF ToSet
    <3>3. CASE ~(i <= n)
      <4>1. i - n \in 1..Len(s) - n /\ x = b[i - n]
        BY <1>1, <1>3, <3>1, <3>3
      <4> QED
        BY <1>4, <4>1 DEF ToSet
    <3> QED
      BY <3>2, <3>3
  <2>2. ToSet(a) \subseteq ToSet(s)
    BY <1>1, <1>2, <1>4 DEF ToSet
  <2>3. \A i \in 1..Len(s) - n : n + i \in 1..Len(s)
    BY <1>1
  <2>4. ToSet(b) \subseteq ToSet(s)
    BY <1>1, <1>3, <1>4, <2>3 DEF ToSet
  <2> QED
    BY <2>1, <2>2, <2>4
<1>6. ASSUME IsInjective(s)
      PROVE  /\ IsInjective(a) /\ IsInjective(b)
             /\ ToSet(a) \intersect ToSet(b) = {}
  <2>1. \A i, j \in 1..Len(s) : s[i] = s[j] => i = j
    BY <1>1, <1>6 DEF IsInjective
  <2>2. IsInjective(a)
    BY <1>1, <1>2, <1>4, <2>1 DEF IsInjective
  <2>3. IsInjective(b)
    <3>1. SUFFICES ASSUME NEW i \in 1..Len(s) - n, NEW j \in 1..Len(s) - n,
                          b[i] = b[j]
                   PROVE  i = j
      BY <1>4 DEF IsInjective
    <3>2. s[n + i] = s[n + j]
      BY <1>3, <3>1
    <3>3. n + i \in 1..Len(s) /\ n + j \in 1..Len(s)
      BY <1>1
    <3> QED
      BY <1>1, <2>1, <3>2, <3>3
  <2>4. ASSUME NEW i \in 1..n, NEW j \in 1..Len(s) - n
        PROVE  a[i] # b[j]
    <3>1. a[i] = s[i] /\ b[j] = s[n + j]
      BY <1>2, <1>3
    <3>2. i \in 1..Len(s) /\ n + j \in 1..Len(s) /\ i # n + j
      BY <1>1
    <3> QED
      BY <2>1, <3>1, <3>2
  <2>5. ToSet(a) \intersect ToSet(b) = {}
    BY <1>4, <2>4 DEF ToSet
  <2> QED
    BY <2>2, <2>3, <2>5
<1>7. Len(a) + Len(b) = Len(s)
  BY <1>1, <1>2, <1>3
<1> QED
  BY <1>2, <1>3, <1>5, <1>6, <1>7 DEF a, b

(* Kept keeps the records of the set, each once, in no more room.           *)
LEMMA KeptFacts ==
  ASSUME NEW S, NEW s \in Seq(S), NEW keep, IsInjective(s)
  PROVE  /\ Kept(s, keep) \in Seq(S)
         /\ Len(Kept(s, keep)) <= Len(s)
         /\ ToSet(Kept(s, keep)) = ToSet(s) \intersect keep
         /\ IsInjective(Kept(s, keep))
<1>1. /\ Len(s) \in Nat
      /\ DOMAIN s = 1..Len(s)
      /\ \A i \in 1..Len(s) : s[i] \in S
  OBVIOUS
<1>2. \A i, j \in 1..Len(s) : s[i] = s[j] => i = j
  BY <1>1 DEF IsInjective
<1>3. PICK f : /\ f = [n \in 0..Len(s) |->
                         IF n = 0 THEN << >>
                         ELSE IF s[n] \in keep THEN Append(f[n - 1], s[n])
                         ELSE f[n - 1]]
               /\ Kept(s, keep) = f[Len(s)]
  BY <1>1, KeptDefined
<1>4. /\ f[0] = << >>
      /\ \A n \in 0..Len(s) - 1 :
           f[n + 1] = IF s[n + 1] \in keep THEN Append(f[n], s[n + 1]) ELSE f[n]
  <2>1. \A n \in 0..Len(s) :
          f[n] = IF n = 0 THEN << >>
                 ELSE IF s[n] \in keep THEN Append(f[n - 1], s[n])
                 ELSE f[n - 1]
    BY <1>3
  <2>2. \A n \in 0..Len(s) - 1 :
          n + 1 \in 0..Len(s) /\ n + 1 # 0 /\ (n + 1) - 1 = n
    BY <1>1
  <2> QED
    BY <1>1, <2>1, <2>2
<1> DEFINE Prefix(n) == {s[i] : i \in 1..n}
           Right(n) == /\ f[n] \in Seq(S)
                       /\ Len(f[n]) <= n
                       /\ ToSet(f[n]) = Prefix(n) \intersect keep
                       /\ IsInjective(f[n])
           Good == {n \in Nat : n <= Len(s) => Right(n)}
<1>5. 0 \in Good
  <2>1. /\ << >> \in Seq(S) /\ Len(<< >>) = 0 /\ DOMAIN << >> = {}
    OBVIOUS
  <2>2. ToSet(<< >>) = {} /\ IsInjective(<< >>)
    BY <2>1 DEF ToSet, IsInjective
  <2>3. Prefix(0) = {}
    OBVIOUS
  <2>4. /\ f[0] \in Seq(S) /\ Len(f[0]) <= 0
        /\ ToSet(f[0]) = {} /\ IsInjective(f[0])
    BY <1>4, <2>1, <2>2
  <2> HIDE DEF Prefix
  <2> QED
    BY <2>3, <2>4
<1>6. ASSUME NEW n \in Nat, n \in Good
      PROVE  n + 1 \in Good
  <2>1. SUFFICES ASSUME n + 1 <= Len(s) PROVE Right(n + 1)
    OBVIOUS
  <2>2. n \in 0..Len(s) - 1 /\ n + 1 \in 1..Len(s) /\ n <= Len(s)
    BY <1>1, <2>1
  <2>3. Right(n)
    BY <1>6, <2>2
  <2>4. Prefix(n + 1) = Prefix(n) \union {s[n + 1]}
    <3>1. 1..n + 1 = (1..n) \union {n + 1}
      OBVIOUS
    <3> QED
      BY <3>1
  <2>5. s[n + 1] \notin Prefix(n)
    <3>1. \A i \in 1..n : i \in 1..Len(s) /\ i # n + 1
      BY <2>2
    <3> QED
      BY <1>2, <2>2, <3>1
  <2>6. s[n + 1] \in S
    BY <1>1, <2>2
  <2> HIDE DEF Prefix
  <2>7. CASE s[n + 1] \in keep
    <3>1. f[n + 1] = Append(f[n], s[n + 1])
      BY <1>4, <2>2, <2>7
    <3>2. s[n + 1] \notin ToSet(f[n])
      BY <2>3, <2>5
    <3>3. /\ f[n + 1] \in Seq(S)
          /\ Len(f[n + 1]) = Len(f[n]) + 1
          /\ ToSet(f[n + 1]) = ToSet(f[n]) \union {s[n + 1]}
          /\ IsInjective(f[n + 1])
      BY <2>3, <2>6, <3>1, <3>2, AppendFacts
    <3>4. Len(f[n + 1]) <= n + 1
      BY <2>3, <3>3
    <3>5. ToSet(f[n + 1]) = Prefix(n + 1) \intersect keep
      BY <2>3, <2>4, <2>7, <3>3
    <3> QED
      BY <3>3, <3>4, <3>5
  <2>8. CASE s[n + 1] \notin keep
    <3>1. f[n + 1] = f[n]
      BY <1>4, <2>2, <2>8
    <3>2. Len(f[n + 1]) <= n + 1
      BY <2>3, <3>1
    <3>3. ToSet(f[n + 1]) = Prefix(n + 1) \intersect keep
      BY <2>3, <2>4, <2>8, <3>1
    <3> QED
      BY <2>3, <3>1, <3>2, <3>3
  <2> QED
    BY <2>7, <2>8
<1>7. Right(Len(s))
  <2>1. Nat \subseteq Good
    <3> HIDE DEF Good
    <3> QED
      BY <1>5, <1>6, NatSetInduction
  <2> HIDE DEF Right
  <2>2. Len(s) \in Nat /\ Len(s) \in Good
    BY <1>1, <2>1
  <2> QED
    BY <2>2
<1>8. Prefix(Len(s)) = ToSet(s)
  BY <1>1 DEF ToSet
<1> QED
  BY <1>3, <1>7, <1>8

(* So many places, so many records.                                         *)
LEMMA InjectiveCounts ==
  ASSUME NEW S, NEW s \in Seq(S), IsInjective(s)
  PROVE  IsFiniteSet(ToSet(s)) /\ Cardinality(ToSet(s)) = Len(s)
<1>1. Len(s) \in Nat /\ DOMAIN s = 1..Len(s)
  OBVIOUS
<1>2. s \in Bijection(1..Len(s), ToSet(s))
  <2>1. s \in [1..Len(s) -> ToSet(s)]
    BY <1>1 DEF ToSet
  <2>2. \A i, j \in 1..Len(s) : s[i] = s[j] => i = j
    BY <1>1 DEF IsInjective
  <2>3. \A x \in ToSet(s) : \E i \in 1..Len(s) : s[i] = x
    BY <1>1 DEF ToSet
  <2> QED
    BY <2>1, <2>2, <2>3 DEF Bijection, Injection, Surjection, IsInjective
<1>3. IsFiniteSet(1..Len(s)) /\ Cardinality(1..Len(s)) = Len(s)
  BY <1>1, FS_Interval
<1>4. ExistsBijection(1..Len(s), ToSet(s))
  BY <1>2 DEF ExistsBijection
<1> QED
  BY <1>3, <1>4, FS_Bijection

-----------------------------------------------------------------------------
(* The places of the records.                                               *)

(* Where a record of the child can be, and all of them together.            *)
Waiting == ToSet(queuedRecords)
Taken == ToSet(delivered)
Gone == rejected \union lost \union abandoned
Records == Taken \union Waiting \union Gone

(* No record is in two places, or twice in one of them. *)
Apart ==
  /\ IsInjective(queuedRecords) /\ IsInjective(delivered)
  /\ Taken \intersect Waiting = {}
  /\ Taken \intersect Gone = {}
  /\ Waiting \intersect Gone = {}

(* The numbers of the stream, each on one record. *)
Numbered ==
  /\ \A r, q \in Records : r.n = q.n => r = q
  /\ {r.n : r \in Records} = 1..sent

(* The waiting updates never reach into the slots of the boundaries. *)
Updates(S) == {q \in S : ~isCritical(q)}
UpdatesLeaveRoom ==
  Cardinality(Updates(Waiting)) <= MAX_RECORDS - CRITICAL_RESERVE

(* What is recorded is of the right kind, and the queue within its bound. *)
Stored ==
  /\ queuedRecords \in Seq(Record) /\ Len(queuedRecords) <= MAX_RECORDS
  /\ delivered \in Seq(Record)
  /\ rejected \subseteq Record /\ lost \subseteq Record /\ abandoned \subseteq Record
  /\ sent \in 0..MaxSent

(* Only a removal abandons records, and nothing is removed twice. *)
AbandonedByRemoval == abandoned # {} => removed

(* Each loss is an error of a consumer of its own. *)
LossesAreFaults ==
  /\ faults \in Nat
  /\ IsFiniteSet(lost) /\ Cardinality(lost) \in Nat /\ Cardinality(lost) <= faults

PlaceInvariant ==
  Stored /\ Apart /\ Numbered /\ UpdatesLeaveRoom /\ AbandonedByRemoval

(* Records that only change their place keep their numbers. *)
LEMMA MovesKeepNumbers ==
  ASSUME Numbered, Records' = Records, sent' = sent
  PROVE  Numbered'
BY DEF Numbered

(* The queue holds as many records as it is long, and fewer updates. *)
LEMMA WaitingCounts ==
  ASSUME NEW S, NEW s \in Seq(S), IsInjective(s)
  PROVE  /\ IsFiniteSet(Updates(ToSet(s)))
         /\ Cardinality(Updates(ToSet(s))) \in Nat
         /\ Cardinality(Updates(ToSet(s))) <= Len(s)
<1>1. IsFiniteSet(ToSet(s)) /\ Cardinality(ToSet(s)) = Len(s)
  BY InjectiveCounts
<1>2. Updates(ToSet(s)) \subseteq ToSet(s)
  BY DEF Updates
<1> QED
  BY <1>1, <1>2, FS_Subset, FS_CardinalityType

(* Fewer records wait: the boundaries keep their slots. *)
LEMMA FewerWait ==
  ASSUME Stored, Apart, UpdatesLeaveRoom, Waiting' \subseteq Waiting
  PROVE  UpdatesLeaveRoom'
<1>1. /\ IsFiniteSet(Updates(Waiting))
      /\ Cardinality(Updates(Waiting)) \in Nat
  BY WaitingCounts DEF Stored, Apart, Waiting
<1> DEFINE left == Waiting'
<1>2. Updates(left) \subseteq Updates(Waiting)
  BY DEF Updates
<1>3. /\ IsFiniteSet(Updates(left))
      /\ Cardinality(Updates(left)) \in Nat
      /\ Cardinality(Updates(left)) <= Cardinality(Updates(Waiting))
  BY <1>1, <1>2, FS_Subset, FS_CardinalityType
<1>4. Updates(Waiting)' = Updates(left)
  BY DEF Updates, isCritical
<1>5. MAX_RECORDS - CRITICAL_RESERVE \in Int
  BY QueueAssumption
<1> QED
  BY <1>1, <1>3, <1>4, <1>5 DEF UpdatesLeaveRoom

(* Nothing of it changed. *)
LEMMA StillPlaced ==
  ASSUME PlaceInvariant, removed => removed',
         UNCHANGED <<queuedRecords, delivered, rejected, lost, abandoned, sent>>
  PROVE  PlaceInvariant'
<1>1. Stored' /\ Apart' /\ AbandonedByRemoval'
  BY DEF PlaceInvariant, Stored, Apart, Taken, Waiting, Gone, AbandonedByRemoval
<1>2. Waiting' = Waiting /\ Records' = Records
  BY DEF Waiting, Records, Taken, Gone
<1>3. Numbered' /\ UpdatesLeaveRoom'
  BY <1>2, MovesKeepNumbers, FewerWait DEF PlaceInvariant
<1> QED
  BY <1>1, <1>3 DEF PlaceInvariant

(* The next record of the child is none of those before it. *)
LEMMA NextRecordIsNew ==
  ASSUME Stored, Numbered, sent < MaxSent, NEW kind \in Kind
  PROVE  /\ [n |-> sent + 1, kind |-> kind] \in Record
         /\ [n |-> sent + 1, kind |-> kind] \notin Records
<1>1. sent \in Nat /\ sent + 1 \in 1..MaxSent /\ sent + 1 \notin 1..sent
  BY QueueAssumption DEF Stored
<1>2. [n |-> sent + 1, kind |-> kind].n = sent + 1
  OBVIOUS
<1> QED
  BY <1>1, <1>2 DEF Record, Numbered

(* It gets the next number. *)
LEMMA NewKeepsNumbers ==
  ASSUME Stored, Numbered, sent' = sent + 1,
         NEW r, r.n = sent + 1, Records' = Records \union {r}
  PROVE  Numbered'
<1>1. sent \in Nat /\ sent + 1 \notin 1..sent
  BY QueueAssumption DEF Stored
<1>2. \A q \in Records : q.n \in 1..sent
  BY DEF Numbered
<1> DEFINE all == Records
<1>3. \A p, q \in all \union {r} : p.n = q.n => p = q
  BY <1>1, <1>2 DEF Numbered
<1>4. {q.n : q \in all \union {r}} = {q.n : q \in all} \union {sent + 1}
  OBVIOUS
<1>5. (1..sent) \union {sent + 1} = 1..sent + 1
  BY <1>1
<1>6. {q.n : q \in all} = 1..sent
  BY DEF Numbered
<1> HIDE DEF all
<1>7. all = Records
  BY DEF all
<1> QED
  BY <1>3, <1>4, <1>5, <1>6, <1>7 DEF Numbered

(* Refused or lost: the record is gone at once. *)
LEMMA GoneAtOnceIsPlaced ==
  ASSUME PlaceInvariant, NEW r \in Record, r \notin Records,
         sent < MaxSent, sent' = sent + 1, r.n = sent + 1,
         \/ rejected' = rejected \union {r} /\ lost' = lost
         \/ lost' = lost \union {r} /\ rejected' = rejected,
         removed => removed',
         UNCHANGED <<queuedRecords, delivered, abandoned>>
  PROVE  PlaceInvariant'
<1>1. sent' \in 0..MaxSent
  BY QueueAssumption DEF PlaceInvariant, Stored
<1>2. Stored' /\ AbandonedByRemoval'
  BY <1>1 DEF PlaceInvariant, Stored, AbandonedByRemoval
<1>3. Waiting' = Waiting /\ Taken' = Taken /\ Gone' = Gone \union {r}
  BY DEF Waiting, Taken, Gone
<1>4. Apart'
  BY <1>3 DEF PlaceInvariant, Apart, Records
<1>5. Records' = Records \union {r}
  BY <1>3 DEF Records
<1>6. Numbered' /\ UpdatesLeaveRoom'
  BY <1>3, <1>5, NewKeepsNumbers, FewerWait DEF PlaceInvariant
<1> QED
  BY <1>2, <1>4, <1>6 DEF PlaceInvariant

(* Taken by the consumer. *)
LEMMA TakenIsPlaced ==
  ASSUME PlaceInvariant, NEW r \in Record, r \notin Records,
         sent < MaxSent, sent' = sent + 1, r.n = sent + 1,
         delivered' = Append(delivered, r), removed => removed',
         UNCHANGED <<queuedRecords, rejected, lost, abandoned>>
  PROVE  PlaceInvariant'
<1>1. sent' \in 0..MaxSent
  BY QueueAssumption DEF PlaceInvariant, Stored
<1>2. /\ delivered' \in Seq(Record)
      /\ Taken' = Taken \union {r}
      /\ IsInjective(delivered)'
  <2>1. delivered \in Seq(Record) /\ IsInjective(delivered) /\ r \notin Taken
    BY DEF PlaceInvariant, Stored, Apart, Records
  <2> QED
    BY <2>1, AppendFacts DEF Taken
<1>3. Stored' /\ AbandonedByRemoval'
  BY <1>1, <1>2 DEF PlaceInvariant, Stored, AbandonedByRemoval
<1>4. Waiting' = Waiting /\ Gone' = Gone
  BY DEF Waiting, Gone
<1>5. Apart'
  BY <1>2, <1>4 DEF PlaceInvariant, Apart, Records
<1>6. Records' = Records \union {r}
  BY <1>2, <1>4 DEF Records
<1>7. Numbered' /\ UpdatesLeaveRoom'
  BY <1>4, <1>6, NewKeepsNumbers, FewerWait DEF PlaceInvariant
<1> QED
  BY <1>3, <1>5, <1>7 DEF PlaceInvariant

(* Queued: there was room, and an update left the reserve alone. *)
LEMMA QueuedIsPlaced ==
  ASSUME PlaceInvariant, NEW r \in Record, r \notin Records, Enqueues(r),
         sent < MaxSent, sent' = sent + 1, r.n = sent + 1,
         queuedRecords' = Append(queuedRecords, r), removed => removed',
         UNCHANGED <<delivered, rejected, lost, abandoned>>
  PROVE  PlaceInvariant'
<1>1. sent' \in 0..MaxSent
  BY QueueAssumption DEF PlaceInvariant, Stored
<1>2. queuedRecords \in Seq(Record) /\ IsInjective(queuedRecords) /\ r \notin Waiting
  BY DEF PlaceInvariant, Stored, Apart, Records
<1>3. /\ queuedRecords' \in Seq(Record)
      /\ Len(queuedRecords') = Len(queuedRecords) + 1
      /\ Waiting' = Waiting \union {r}
      /\ IsInjective(queuedRecords)'
  BY <1>2, AppendFacts DEF Waiting
<1>4. Len(queuedRecords) \in Nat /\ Len(queuedRecords) < MAX_RECORDS
  BY <1>2 DEF Enqueues, HasRoom
<1>5. Stored' /\ AbandonedByRemoval'
  BY <1>1, <1>3, <1>4, QueueAssumption
  DEF PlaceInvariant, Stored, AbandonedByRemoval
<1>6. Taken' = Taken /\ Gone' = Gone
  BY DEF Taken, Gone
<1>7. Apart'
  BY <1>3, <1>6 DEF PlaceInvariant, Apart, Records
<1>8. Records' = Records \union {r}
  BY <1>3, <1>6 DEF Records
<1>9. Numbered'
  BY <1>8, NewKeepsNumbers DEF PlaceInvariant
<1>10. UpdatesLeaveRoom'
  <2> DEFINE more == Waiting'
  <2>1. Updates(Waiting)' = Updates(more)
    BY DEF Updates, isCritical
  <2>2. CASE isCritical(r)
    <3>1. Updates(more) = Updates(Waiting)
      BY <1>3, <2>2 DEF Updates
    <3> QED
      BY <2>1, <3>1 DEF PlaceInvariant, UpdatesLeaveRoom
  <2>3. CASE ~isCritical(r)
    <3>1. Len(queuedRecords) < MAX_RECORDS - CRITICAL_RESERVE
      BY <2>3 DEF Enqueues, HasRoom
    <3>2. /\ Cardinality(Updates(more)) \in Nat
          /\ Cardinality(Updates(more)) <= Len(queuedRecords')
      <4> DEFINE q == queuedRecords'
      <4>1. q \in Seq(Record) /\ IsInjective(q)
        BY <1>3 DEF IsInjective
      <4>2. more = ToSet(q)
        BY DEF Waiting, ToSet
      <4> HIDE DEF q, more
      <4>3. /\ Cardinality(Updates(ToSet(q))) \in Nat
            /\ Cardinality(Updates(ToSet(q))) <= Len(q)
        BY <4>1, WaitingCounts
      <4> QED
        BY <4>2, <4>3 DEF q
    <3> HIDE DEF more
    <3> QED
      BY <1>3, <1>4, <2>1, <3>1, <3>2, QueueAssumption DEF UpdatesLeaveRoom
  <2> QED
    BY <2>2, <2>3
<1> QED
  BY <1>5, <1>7, <1>9, <1>10 DEF PlaceInvariant

(* Records that wait are taken, and those alone. *)
WaitingAreTaken ==
  /\ IsPrefix(delivered, delivered')
  /\ Waiting' \subseteq Waiting
  /\ Taken' = Taken \union (Waiting \ Waiting')
  /\ Records' = Records

(* A drain turn: of the batch, what failed moves to the tail, and the rest  *)
(* to the consumer.                                                         *)
LEMMA BatchIsPlaced ==
  ASSUME PlaceInvariant, NEW size \in 0..Len(queuedRecords), NEW failed,
         failed \subseteq ToSet(SubSeq(queuedRecords, 1, size)),
         queuedRecords' = retainFailed(SubSeq(queuedRecords, size + 1,
                                              Len(queuedRecords)),
                                       SubSeq(queuedRecords, 1, size), failed),
         delivered' = delivered
                      \o Kept(SubSeq(queuedRecords, 1, size),
                              ToSet(SubSeq(queuedRecords, 1, size)) \ failed),
         removed => removed',
         UNCHANGED <<rejected, lost, abandoned, sent>>
  PROVE  PlaceInvariant' /\ WaitingAreTaken
<1> DEFINE batch == SubSeq(queuedRecords, 1, size)
           rest == SubSeq(queuedRecords, size + 1, Len(queuedRecords))
           retried == Kept(batch, failed)
           done == Kept(batch, ToSet(batch) \ failed)
<1>1. /\ queuedRecords \in Seq(Record) /\ IsInjective(queuedRecords)
      /\ Len(queuedRecords) \in Nat /\ Len(queuedRecords) <= MAX_RECORDS
      /\ delivered \in Seq(Record) /\ IsInjective(delivered)
  BY DEF PlaceInvariant, Stored, Apart
<1>2. /\ batch \in Seq(Record) /\ rest \in Seq(Record)
      /\ Len(batch) + Len(rest) = Len(queuedRecords)
      /\ ToSet(batch) \union ToSet(rest) = Waiting
      /\ IsInjective(batch) /\ IsInjective(rest)
      /\ ToSet(batch) \intersect ToSet(rest) = {}
  BY <1>1, CutFacts DEF Waiting
<1>3. failed \subseteq ToSet(batch)
  OBVIOUS
<1>4. queuedRecords' = rest \o retried /\ delivered' = delivered \o done
  BY DEF retainFailed
<1> HIDE DEF batch, rest
<1>5. /\ retried \in Seq(Record) /\ Len(retried) <= Len(batch)
      /\ ToSet(retried) = failed
      /\ IsInjective(retried)
  <2>1. ToSet(batch) \intersect failed = failed
    BY <1>3
  <2> QED
    BY <1>2, <2>1, KeptFacts, ZenonT(60)
<1>6. /\ done \in Seq(Record)
      /\ ToSet(done) = ToSet(batch) \ failed
      /\ IsInjective(done)
  <2>1. ToSet(batch) \intersect (ToSet(batch) \ failed) = ToSet(batch) \ failed
    OBVIOUS
  <2> QED
    BY <1>2, <2>1, KeptFacts
<1> HIDE DEF retried, done
<1>7. /\ queuedRecords' \in Seq(Record)
      /\ Len(queuedRecords') = Len(rest) + Len(retried)
      /\ Waiting' = ToSet(rest) \union failed
      /\ IsInjective(queuedRecords)'
  <2>1. ToSet(rest) \intersect ToSet(retried) = {}
    BY <1>2, <1>3, <1>5
  <2>2. /\ rest \o retried \in Seq(Record)
        /\ Len(rest \o retried) = Len(rest) + Len(retried)
        /\ ToSet(rest \o retried) = ToSet(rest) \union failed
        /\ IsInjective(rest \o retried)
    BY <1>2, <1>5, <2>1, JoinFacts
  <2> QED
    BY <1>4, <2>2 DEF Waiting
<1>8. /\ delivered' \in Seq(Record)
      /\ Taken' = Taken \union (ToSet(batch) \ failed)
      /\ IsInjective(delivered)'
  <2>1. Taken \intersect ToSet(batch) = {}
    BY <1>2 DEF PlaceInvariant, Apart
  <2>2. ToSet(delivered) \intersect ToSet(done) = {}
    BY <1>6, <2>1 DEF Taken
  <2>3. /\ delivered \o done \in Seq(Record)
        /\ ToSet(delivered \o done) = Taken \union (ToSet(batch) \ failed)
        /\ IsInjective(delivered \o done)
    BY <1>1, <1>6, <2>2, JoinFacts DEF Taken
  <2> QED
    BY <1>4, <2>3 DEF Taken
<1>9. Gone' = Gone
  BY DEF Gone
<1>10. Len(queuedRecords') <= MAX_RECORDS
  <2>1. Len(batch) \in Nat /\ Len(rest) \in Nat /\ Len(retried) \in Nat
    BY <1>2, <1>5
  <2> QED
    BY <1>1, <1>2, <1>5, <1>7, <2>1, QueueAssumption
<1>11. Stored' /\ AbandonedByRemoval'
  BY <1>7, <1>8, <1>10 DEF PlaceInvariant, Stored, AbandonedByRemoval
<1>12. Apart'
  BY <1>2, <1>3, <1>7, <1>8, <1>9 DEF PlaceInvariant, Apart
<1>13. Records' = Records
  BY <1>2, <1>3, <1>7, <1>8, <1>9 DEF Records
<1>14. Waiting' \subseteq Waiting
  BY <1>2, <1>3, <1>7
<1>15. Numbered' /\ UpdatesLeaveRoom'
  BY <1>13, <1>14, MovesKeepNumbers, FewerWait DEF PlaceInvariant
<1>16. IsPrefix(delivered, delivered')
  <2>1. \A i \in 1..Len(delivered) : (delivered \o done)[i] = delivered[i]
    BY <1>1, <1>6
  <2> QED
    BY <1>1, <1>4, <1>6, <2>1 DEF IsPrefix
<1>17. Taken' = Taken \union (Waiting \ Waiting')
  BY <1>2, <1>3, <1>7, <1>8
<1> QED
  BY <1>11, <1>12, <1>13, <1>14, <1>15, <1>16, <1>17
     DEF PlaceInvariant, WaitingAreTaken

(* A shutdown drops what waits, and there was nothing it dropped before. *)
LEMMA DroppedIsPlaced ==
  ASSUME PlaceInvariant, ~removed, removed' = TRUE,
         abandoned' = ToSet(queuedRecords), queuedRecords' = << >>,
         UNCHANGED <<delivered, rejected, lost, sent>>
  PROVE  PlaceInvariant'
<1>1. abandoned = {}
  BY DEF PlaceInvariant, AbandonedByRemoval
<1>2. /\ << >> \in Seq(Record) /\ Len(<< >>) = 0 /\ DOMAIN << >> = {}
  OBVIOUS
<1>3. Waiting' = {} /\ IsInjective(queuedRecords)' /\ queuedRecords' \in Seq(Record)
  BY <1>2 DEF Waiting, ToSet, IsInjective
<1>4. Gone' = Gone \union Waiting /\ Taken' = Taken
  BY <1>1 DEF Gone, Waiting, Taken
<1>5. Waiting \subseteq Record
  BY DEF PlaceInvariant, Stored, Waiting, ToSet
<1>6. Stored' /\ AbandonedByRemoval'
  BY <1>2, <1>3, <1>5, QueueAssumption
  DEF PlaceInvariant, Stored, AbandonedByRemoval, Waiting
<1>7. Apart'
  BY <1>3, <1>4 DEF PlaceInvariant, Apart
<1>8. Records' = Records
  BY <1>3, <1>4 DEF Records
<1>9. Numbered' /\ UpdatesLeaveRoom'
  BY <1>3, <1>8, MovesKeepNumbers, FewerWait DEF PlaceInvariant
<1> QED
  BY <1>6, <1>7, <1>9 DEF PlaceInvariant

-----------------------------------------------------------------------------
(* The invariant, and what follows from it.                                 *)

(* deliverClose only ever removes. *)
LEMMA DeliverCloseRemoves ==
  ASSUME NEW queue, NEW timer, deliverClose(queue, timer)
  PROVE  removed => removed'
BY DEF deliverClose, CloseHandedOver

(* A record arrives. *)
LEMMA ReceiveIsPlaced ==
  ASSUME PlaceInvariant, Receive
  PROVE  PlaceInvariant'
<1>1. PICK kind \in Kind :
        /\ sent < MaxSent
        /\ sent' = sent + 1
        /\ abandoned' = abandoned
        /\ routeRuntimeRecord([n |-> sent + 1, kind |-> kind])
  BY DEF Receive
<1> DEFINE r == [n |-> sent + 1, kind |-> kind]
<1>2. r \in Record /\ r \notin Records /\ r.n = sent + 1
  BY <1>1, NextRecordIsNew DEF PlaceInvariant
<1>3. routeRuntimeRecord(r)
  BY <1>1
<1> HIDE DEF r
<1>4. CASE Refuse(r)
  <2>1. /\ rejected' = rejected \union {r} /\ (removed => removed')
        /\ UNCHANGED <<queuedRecords, delivered, lost>>
    BY <1>4 DEF Refuse, closing
  <2> QED
    BY <1>1, <1>2, <2>1, GoneAtOnceIsPlaced
<1>5. CASE /\ ConsumerTakes(r) \/ ConsumerFails(r)
           /\ queuedRecords' = queuedRecords
           /\ FenceAfter(r)
           /\ deliverClose(queuedRecords, drainTimer)
  <2>1. rejected' = rejected /\ (removed => removed')
    BY <1>5, DeliverCloseRemoves DEF FenceAfter
  <2>2. CASE ConsumerTakes(r)
    <3>1. delivered' = Append(delivered, r) /\ lost' = lost
      BY <2>2 DEF ConsumerTakes
    <3> QED
      BY <1>1, <1>2, <1>5, <2>1, <3>1, TakenIsPlaced
  <2>3. CASE ConsumerFails(r)
    <3>1. lost' = lost \union {r} /\ delivered' = delivered
      BY <2>3 DEF ConsumerFails
    <3> QED
      BY <1>1, <1>2, <1>5, <2>1, <3>1, GoneAtOnceIsPlaced
  <2> QED
    BY <1>5, <2>2, <2>3
<1>6. CASE /\ Enqueues(r)
           /\ queuedRecords' = Append(queuedRecords, r)
           /\ UNCHANGED <<delivered, faults, lost>>
           /\ FenceAfter(r)
           /\ UNCHANGED <<drainTimer, closeHandled, removed>>
  <2>1. rejected' = rejected
    BY <1>6 DEF FenceAfter
  <2> QED
    BY <1>1, <1>2, <1>6, <2>1, QueuedIsPlaced
<1> QED
  BY <1>3, <1>4, <1>5, <1>6 DEF routeRuntimeRecord, Overflow

(* A drain turn. *)
LEMMA DrainIsPlaced ==
  ASSUME PlaceInvariant, drain
  PROVE  PlaceInvariant' /\ WaitingAreTaken
<1> DEFINE size == IF Len(queuedRecords) < MAX_DRAIN_RECORDS
                   THEN Len(queuedRecords) ELSE MAX_DRAIN_RECORDS
           batch == SubSeq(queuedRecords, 1, size)
           rest == SubSeq(queuedRecords, size + 1, Len(queuedRecords))
<1>1. size \in 0..Len(queuedRecords)
  <2>1. Len(queuedRecords) \in Nat
    BY DEF PlaceInvariant, Stored
  <2> QED
    BY <2>1, QueueAssumption
<1>2. PICK failed \in SUBSET ToSet(batch) :
        /\ queuedRecords' = retainFailed(rest, batch, failed)
        /\ delivered' = delivered \o Kept(batch, ToSet(batch) \ failed)
        /\ Consumes
        /\ UNCHANGED <<rejected, lost, abandoned, sent>>
  BY Zenon DEF drain
<1>3. removed => removed'
  BY <1>2 DEF Consumes
<1> HIDE DEF size
<1> QED
  BY <1>1, <1>2, <1>3, BatchIsPlaced

(* The places of the records, at first and after every step. *)
LEMMA PlaceInvariantInductive ==
  /\ Init => PlaceInvariant
  /\ PlaceInvariant /\ [Next]_vars => PlaceInvariant'
<1>1. ASSUME Init PROVE PlaceInvariant
  <2>1. /\ queuedRecords = << >> /\ delivered = << >>
        /\ rejected = {} /\ lost = {} /\ abandoned = {} /\ sent = 0
    BY <1>1 DEF Init
  <2>2. /\ << >> \in Seq(Record) /\ Len(<< >>) = 0 /\ DOMAIN << >> = {}
    OBVIOUS
  <2>3. Waiting = {} /\ Taken = {} /\ Gone = {} /\ Records = {}
    BY <2>1, <2>2 DEF Waiting, Taken, Gone, Records, ToSet
  <2>4. Stored /\ AbandonedByRemoval
    BY <2>1, <2>2, QueueAssumption DEF Stored, AbandonedByRemoval
  <2>5. Apart
    BY <2>1, <2>2, <2>3 DEF Apart, IsInjective
  <2>6. Numbered
    BY <2>1, <2>3 DEF Numbered
  <2>7. UpdatesLeaveRoom
    <3>1. Updates(Waiting) = {}
      BY <2>3 DEF Updates
    <3>2. Cardinality({}) = 0
      BY FS_EmptySet
    <3> QED
      BY <3>1, <3>2, QueueAssumption DEF UpdatesLeaveRoom
  <2> QED
    BY <2>4, <2>5, <2>6, <2>7 DEF PlaceInvariant
<1>2. ASSUME PlaceInvariant, [Next]_vars PROVE PlaceInvariant'
  <2>1. CASE Receive
    BY <1>2, <2>1, ReceiveIsPlaced
  <2>2. CASE drain
    BY <1>2, <2>2, DrainIsPlaced
  <2>3. CASE forceCleanupRuntime
    <3>1. /\ ~removed /\ removed' = TRUE
          /\ abandoned' = ToSet(queuedRecords) /\ queuedRecords' = << >>
          /\ UNCHANGED <<delivered, rejected, lost, sent>>
      BY <2>3 DEF forceCleanupRuntime
    <3> QED
      BY <1>2, <3>1, DroppedIsPlaced
  <2>4. CASE TransportCloses \/ OverflowFenceTimeout
    <3>1. removed => removed'
      BY <2>4, DeliverCloseRemoves
      DEF TransportCloses, OverflowFenceTimeout, CloseNoted
    <3>2. UNCHANGED <<queuedRecords, delivered, rejected, lost, abandoned, sent>>
      BY <2>4 DEF TransportCloses, OverflowFenceTimeout, CloseNoted, history
    <3> QED
      BY <1>2, <3>1, <3>2, StillPlaced
  <2>5. CASE detachRuntime
    <3>1. /\ removed' = removed
          /\ UNCHANGED <<queuedRecords, delivered, rejected, lost, abandoned, sent>>
      BY <2>5 DEF detachRuntime, closing
    <3> QED
      BY <1>2, <3>1, StillPlaced
  <2>6. CASE attachRuntime
    <3>1. removed => removed'
      BY <2>6, DeliverCloseRemoves DEF attachRuntime
    <3>2. UNCHANGED <<queuedRecords, delivered, rejected, lost, abandoned, sent>>
      BY <2>6 DEF attachRuntime, history
    <3> QED
      BY <1>2, <3>1, <3>2, StillPlaced
  <2>7. CASE requestKill
    <3>1. /\ removed' = removed
          /\ UNCHANGED <<queuedRecords, delivered, rejected, lost, abandoned, sent>>
      BY <2>7 DEF requestKill, history
    <3> QED
      BY <1>2, <3>1, StillPlaced
  <2>8. CASE UNCHANGED vars
    <3>1. /\ removed' = removed
          /\ UNCHANGED <<queuedRecords, delivered, rejected, lost, abandoned, sent>>
      BY <2>8 DEF vars, closing, history
    <3> QED
      BY <1>2, <3>1, StillPlaced
  <2> QED
    BY <1>2, <2>1, <2>2, <2>3, <2>4, <2>5, <2>6, <2>7, <2>8 DEF Next
<1> QED
  BY <1>1, <1>2

(* So many numbers, so many records, and every record in one place.        *)
LEMMA PlacesCount ==
  ASSUME PlaceInvariant, LossesAreFaults
  PROVE  EachRecordOnce
<1>1. /\ Numbered /\ Apart /\ sent \in Nat
      /\ queuedRecords \in Seq(Record) /\ delivered \in Seq(Record)
  BY QueueAssumption DEF PlaceInvariant, Stored
<1>2. IsFiniteSet(Records) /\ Cardinality(Records) = sent
  <2> DEFINE number == [r \in Records |-> r.n]
  <2>1. number \in [Records -> 1..sent]
    BY <1>1 DEF Numbered
  <2>2. \A r, q \in Records : number[r] = number[q] => r = q
    BY <1>1 DEF Numbered
  <2>3. \A n \in 1..sent : \E r \in Records : number[r] = n
    BY <1>1 DEF Numbered
  <2> HIDE DEF number
  <2>4. number \in Injection(Records, 1..sent)
    BY <2>1, <2>2 DEF Injection, IsInjective
  <2>5. number \in Surjection(Records, 1..sent)
    BY <2>1, <2>3 DEF Surjection
  <2>6. IsFiniteSet(1..sent) /\ Cardinality(1..sent) = sent
    BY <1>1, FS_Interval
  <2> QED
    BY <2>4, <2>5, <2>6, FS_Injection
<1>3. /\ IsFiniteSet(Taken) /\ Cardinality(Taken) = Len(delivered)
      /\ IsFiniteSet(Waiting) /\ Cardinality(Waiting) = Len(queuedRecords)
  BY <1>1, InjectiveCounts DEF Apart, Taken, Waiting
<1>4. IsFiniteSet(Gone) /\ Cardinality(Gone) \in Nat
  BY <1>2, FS_Subset, FS_CardinalityType DEF Records
<1>5. Cardinality({}) = 0
  BY FS_EmptySet
<1>6. /\ IsFiniteSet(Taken \union Waiting)
      /\ Cardinality(Taken \union Waiting) = Len(delivered) + Len(queuedRecords)
  <2>1. /\ IsFiniteSet(Taken \union Waiting)
        /\ Cardinality(Taken \union Waiting)
             = Cardinality(Taken) + Cardinality(Waiting)
               - Cardinality(Taken \intersect Waiting)
    BY <1>3, FS_Union
  <2>2. Cardinality(Taken \intersect Waiting) = 0
    BY <1>1, <1>5 DEF Apart
  <2>3. Len(delivered) \in Nat /\ Len(queuedRecords) \in Nat
    BY <1>1
  <2> QED
    BY <1>3, <2>1, <2>2, <2>3
<1>7. Cardinality(Records)
        = Len(delivered) + Len(queuedRecords) + Cardinality(Gone)
  <2>1. Cardinality(Taken \union Waiting \union Gone)
          = Cardinality(Taken \union Waiting) + Cardinality(Gone)
            - Cardinality((Taken \union Waiting) \intersect Gone)
    BY <1>4, <1>6, FS_Union
  <2>2. (Taken \union Waiting) \intersect Gone = {}
    BY <1>1 DEF Apart
  <2>3. Cardinality((Taken \union Waiting) \intersect Gone) = 0
    BY <1>5, <2>2
  <2>4. Len(delivered) \in Nat /\ Len(queuedRecords) \in Nat
    BY <1>1
  <2> QED
    BY <1>4, <1>6, <2>1, <2>3, <2>4 DEF Records
<1>8. Records = ToSet(delivered) \union ToSet(queuedRecords) \union rejected
                  \union lost \union abandoned
  BY DEF Records, Taken, Waiting, Gone
<1>9. Cardinality(lost) <= faults
  BY DEF LossesAreFaults
<1> QED
  BY <1>1, <1>2, <1>7, <1>8, <1>9 DEF EachRecordOnce, Numbered, Gone

(* A record is lost with an error of its own, at first and after every step. *)
LEMMA LossesAreFaultsInductive ==
  /\ Init => LossesAreFaults
  /\ PlaceInvariant /\ LossesAreFaults /\ [Next]_vars => LossesAreFaults'
<1>1. Init => LossesAreFaults
  BY FS_EmptySet DEF Init, LossesAreFaults
<1>2. ASSUME PlaceInvariant, LossesAreFaults, [Next]_vars PROVE LossesAreFaults'
  <2>1. ASSUME UNCHANGED <<lost, faults>> PROVE LossesAreFaults'
    BY <1>2, <2>1 DEF LossesAreFaults
  <2>2. CASE Receive
    <3>1. PICK r : routeRuntimeRecord(r)
      BY <2>2 DEF Receive
    <3>2. CASE ConsumerFails(r)
      <4>1. lost' = lost \union {r} /\ faults' = faults + 1
        BY <3>2 DEF ConsumerFails
      <4>2. /\ IsFiniteSet(lost \union {r})
            /\ Cardinality(lost \union {r}) \in Nat
            /\ Cardinality(lost \union {r}) <= Cardinality(lost) + 1
        <5>1. /\ IsFiniteSet(lost \union {r})
              /\ Cardinality(lost \union {r})
                   = IF r \in lost THEN Cardinality(lost) ELSE Cardinality(lost) + 1
          BY <1>2, FS_AddElement DEF LossesAreFaults
        <5> QED
          BY <1>2, <5>1 DEF LossesAreFaults
      <4> QED
        BY <1>2, <4>1, <4>2 DEF LossesAreFaults
    <3>3. CASE UNCHANGED <<lost, faults>>
      BY <2>1, <3>3
    <3> QED
      BY <3>1, <3>2, <3>3
         DEF routeRuntimeRecord, Refuse, Overflow, ConsumerTakes
  <2>3. CASE drain
    <3> DEFINE size == IF Len(queuedRecords) < MAX_DRAIN_RECORDS
                       THEN Len(queuedRecords) ELSE MAX_DRAIN_RECORDS
               batch == SubSeq(queuedRecords, 1, size)
    <3>1. PICK failed \in SUBSET ToSet(batch) :
            faults' = faults + Cardinality(failed) /\ lost' = lost
      BY <2>3, Zenon DEF drain
    <3>2. IsFiniteSet(ToSet(batch))
      <4>1. queuedRecords \in Seq(Record) /\ IsInjective(queuedRecords)
        BY <1>2 DEF PlaceInvariant, Stored, Apart
      <4>2. size \in 0..Len(queuedRecords)
        BY <4>1, QueueAssumption
      <4> HIDE DEF size
      <4>3. batch \in Seq(Record) /\ (IsInjective(queuedRecords) => IsInjective(batch))
        BY <4>1, <4>2, CutFacts
      <4> HIDE DEF batch
      <4> QED
        BY <4>1, <4>3, InjectiveCounts
    <3>3. Cardinality(failed) \in Nat
      BY <3>1, <3>2, FS_Subset, FS_CardinalityType
    <3> QED
      BY <1>2, <3>1, <3>3 DEF LossesAreFaults
  <2>4. CASE ~Receive /\ ~drain
    <3>1. UNCHANGED <<lost, faults>>
      BY <1>2, <2>4
         DEF Next, vars, history, TransportCloses, OverflowFenceTimeout, CloseNoted,
             detachRuntime, attachRuntime, requestKill, forceCleanupRuntime
    <3> QED
      BY <2>1, <3>1
  <2> QED
    BY <2>2, <2>3, <2>4
<1> QED
  BY <1>1, <1>2

(***************************************************************************)
(* Through reloads, retries at the tail, overflow, removal and failing      *)
(* consumers every record of the child is in exactly one place, and there   *)
(* are no more lost records than consumer errors: for any sizes of queue,   *)
(* reserve and batch.                                                       *)
(***************************************************************************)
THEOREM EachRecordHasOnePlace == Spec => []EachRecordOnce
<1>1. PlaceInvariant /\ LossesAreFaults => EachRecordOnce
  BY PlacesCount
<1> QED
  BY <1>1, PlaceInvariantInductive, LossesAreFaultsInductive, PTL DEF Spec

(* A full queue whose updates keep to their part is full of boundaries.     *)
LEMMA FullOfBoundaries ==
  ASSUME PlaceInvariant, Len(queuedRecords) = MAX_RECORDS
  PROVE  Cardinality({q \in Waiting : isCritical(q)}) >= CRITICAL_RESERVE
<1> DEFINE boundaries == {q \in Waiting : isCritical(q)}
<1>1. queuedRecords \in Seq(Record) /\ IsInjective(queuedRecords)
  BY DEF PlaceInvariant, Stored, Apart
<1>2. IsFiniteSet(Waiting) /\ Cardinality(Waiting) = MAX_RECORDS
  BY <1>1, InjectiveCounts DEF Waiting
<1>3. /\ IsFiniteSet(Updates(Waiting))
      /\ Cardinality(Updates(Waiting)) \in Nat
      /\ Cardinality(Updates(Waiting)) <= MAX_RECORDS - CRITICAL_RESERVE
  BY <1>1, WaitingCounts DEF PlaceInvariant, UpdatesLeaveRoom, Waiting
<1>4. boundaries = Waiting \ Updates(Waiting)
  BY DEF Updates
<1>5. Waiting \intersect Updates(Waiting) = Updates(Waiting)
  BY DEF Updates
<1> HIDE DEF boundaries
<1>6. Cardinality(boundaries) = MAX_RECORDS - Cardinality(Updates(Waiting))
  <2>1. Cardinality(Waiting \ Updates(Waiting))
          = Cardinality(Waiting) - Cardinality(Waiting \intersect Updates(Waiting))
    BY <1>2, FS_Difference
  <2> QED
    BY <1>2, <1>4, <1>5, <2>1
<1>7. Cardinality(boundaries) >= CRITICAL_RESERVE
  BY <1>3, <1>6, QueueAssumption
<1> QED
  BY <1>7 DEF boundaries

(* Only what arrives is refused, and a boundary that is refused while the   *)
(* close was not handed over found a full queue and no consumer.            *)
LEMMA RefusedWhenFull ==
  ASSUME PlaceInvariant, Receive,
         NEW r \in rejected' \ rejected, isCritical(r), ~closeHandled
  PROVE  ~Consumes /\ Len(queuedRecords) = MAX_RECORDS
<1>1. PICK kind \in Kind : routeRuntimeRecord([n |-> sent + 1, kind |-> kind])
  BY DEF Receive
<1> DEFINE q == [n |-> sent + 1, kind |-> kind]
<1>2. routeRuntimeRecord(q)
  BY <1>1
<1> HIDE DEF q
<1>3. CASE FenceAfter(q)
  BY <1>3 DEF FenceAfter
<1>4. CASE Refuse(q) /\ ~Admitted(q)
  BY <1>4 DEF Refuse, Admitted
<1>5. CASE Overflow(q) /\ ~Enqueues(q) /\ ~Consumes
  <2>1. q = r
    BY <1>5 DEF Overflow, Refuse
  <2>2. Len(queuedRecords) \in Nat /\ Len(queuedRecords) <= MAX_RECORDS
    BY DEF PlaceInvariant, Stored
  <2>3. ~(Len(queuedRecords) < MAX_RECORDS)
    BY <1>5, <2>1 DEF Enqueues, HasRoom
  <2> QED
    BY <1>5, <2>2, <2>3, QueueAssumption
<1> QED
  BY <1>2, <1>3, <1>4, <1>5 DEF routeRuntimeRecord

(***************************************************************************)
(* "The queue reserves critical boundary slots before overflow": for any    *)
(* sizes, an update flood never keeps a boundary out, across reloads.       *)
(***************************************************************************)
THEOREM BoundariesKeepTheirSlots == Spec => BoundaryRefusedOnlyWhenFull
<1> DEFINE A == \A r \in rejected' \ rejected :
                  isCritical(r) /\ ~closeHandled =>
                    /\ ~Consumes
                    /\ Len(queuedRecords) = MAX_RECORDS
                    /\ Cardinality({q \in ToSet(queuedRecords) : isCritical(q)})
                         >= CRITICAL_RESERVE
<1>1. Init => PlaceInvariant
  BY PlaceInvariantInductive
<1>2. PlaceInvariant /\ [Next]_vars => PlaceInvariant'
  BY PlaceInvariantInductive
<1>3. PlaceInvariant /\ [Next]_vars => [A]_vars
  <2> SUFFICES ASSUME PlaceInvariant, Next PROVE A
    OBVIOUS
  <2>1. CASE Receive
    BY <2>1, RefusedWhenFull, FullOfBoundaries DEF Waiting
  <2>2. CASE ~Receive
    <3>1. rejected' = rejected
      BY <2>2 DEF Next, TransportCloses, OverflowFenceTimeout, CloseNoted,
                  detachRuntime, attachRuntime, drain, requestKill,
                  forceCleanupRuntime, history
    <3> QED
      BY <3>1
  <2> QED
    BY <2>1, <2>2
<1> HIDE DEF A
<1>4. Spec => [][A]_vars
  BY <1>1, <1>2, <1>3, PTL DEF Spec
<1> QED
  BY <1>4 DEF BoundaryRefusedOnlyWhenFull, A

(* The flags of one runtime. *)
Flags ==
  /\ overflowed \in BOOLEAN /\ fenced \in BOOLEAN /\ fenceTimer \in BOOLEAN
  /\ attached \in BOOLEAN /\ drainTimer \in BOOLEAN /\ drainFailures \in Nat
  /\ closed \in BOOLEAN /\ closeHandled \in BOOLEAN
  /\ killed \in BOOLEAN /\ removed \in BOOLEAN

(* deliverClose sets flags to flags. *)
LEMMA DeliverCloseFlags ==
  ASSUME Flags, NEW queue, NEW timer \in BOOLEAN, deliverClose(queue, timer)
  PROVE  drainTimer' \in BOOLEAN /\ closeHandled' \in BOOLEAN /\ removed' \in BOOLEAN
<1>1. CASE CloseHandedOver
  BY <1>1 DEF CloseHandedOver, RemovedWithClose, Flags
<1>2. CASE /\ drainTimer' \in {timer, TRUE}
           /\ closeHandled' = closeHandled /\ removed' = removed
  BY <1>2 DEF Flags
<1> QED
  BY <1>1, <1>2 DEF deliverClose

(* A close that is noted leaves flags. *)
LEMMA CloseNotedFlags ==
  ASSUME Flags, CloseNoted
  PROVE  Flags'
<1>1. drainTimer' \in BOOLEAN /\ closeHandled' \in BOOLEAN /\ removed' \in BOOLEAN
  <2>1. drainTimer \in BOOLEAN /\ deliverClose(queuedRecords, drainTimer)
    BY DEF Flags, CloseNoted
  <2> QED
    BY <2>1, DeliverCloseFlags
<1>2. /\ closed' = TRUE /\ fenceTimer' = FALSE
      /\ UNCHANGED <<overflowed, fenced, attached, drainFailures, killed>>
  BY DEF CloseNoted
<1> QED
  BY <1>1, <1>2 DEF Flags

(* Every step keeps the flags flags. *)
LEMMA FlagsStay ==
  ASSUME Flags, [Next]_vars
  PROVE  Flags'
<1>1. CASE Receive
  <2>1. PICK kind \in Kind :
          /\ attached' = attached
          /\ routeRuntimeRecord([n |-> sent + 1, kind |-> kind])
    BY <1>1 DEF Receive
  <2> DEFINE r == [n |-> sent + 1, kind |-> kind]
  <2>2. routeRuntimeRecord(r)
    BY <2>1
  <2> HIDE DEF r
  <2>3. CASE Refuse(r) /\ UNCHANGED fence
    BY <2>1, <2>3 DEF Refuse, fence, closing, drainState, Flags
  <2>4. CASE Overflow(r)
    <3>1. /\ overflowed' = TRUE /\ fenced' = TRUE
          /\ fenceTimer' = (fenceTimer \/ StartsFenceTimer)
          /\ UNCHANGED <<drainTimer, drainFailures, closed, closeHandled, killed,
                         removed>>
      BY <2>4 DEF Overflow, Refuse, closing, drainState
    <3>2. (fenceTimer \/ StartsFenceTimer) \in BOOLEAN
      OBVIOUS
    <3> QED
      BY <2>1, <3>1, <3>2 DEF Flags
  <2>5. CASE FenceAfter(r) /\ (\/ deliverClose(queuedRecords, drainTimer)
                               \/ UNCHANGED <<drainTimer, closeHandled, removed>>)
    <3>1. drainTimer' \in BOOLEAN /\ closeHandled' \in BOOLEAN
          /\ removed' \in BOOLEAN
      BY <2>5, DeliverCloseFlags DEF Flags
    <3>2. /\ closed' \in BOOLEAN /\ fenceTimer' \in BOOLEAN
          /\ UNCHANGED <<overflowed, fenced, drainFailures, killed>>
      BY <2>5 DEF FenceAfter
    <3> QED
      BY <2>1, <3>1, <3>2 DEF Flags
  <2> QED
    BY <2>2, <2>3, <2>4, <2>5 DEF routeRuntimeRecord
<1>2. CASE TransportCloses \/ OverflowFenceTimeout
  BY <1>2, CloseNotedFlags DEF TransportCloses, OverflowFenceTimeout
<1>3. CASE detachRuntime
  BY <1>3 DEF detachRuntime, fence, closing, Flags
<1>4. CASE attachRuntime
  <2>1. drainTimer' \in BOOLEAN /\ closeHandled' \in BOOLEAN /\ removed' \in BOOLEAN
    <3>1. CASE deliverClose(queuedRecords, FALSE)
      BY <3>1, DeliverCloseFlags
    <3>2. CASE drainTimer' = TRUE /\ UNCHANGED <<closeHandled, removed>>
      BY <3>2 DEF Flags
    <3> QED
      BY <1>4, <3>1, <3>2 DEF attachRuntime
  <2> QED
    BY <1>4, <2>1 DEF attachRuntime, fence, Flags
<1>5. CASE drain
  <2>1. \E failed, fences, left :
          /\ closed' = (closed \/ fences)
          /\ fenceTimer' = (fenceTimer /\ ~fences)
          /\ attached' = attached
          /\ drainFailures' = IF failed = {} THEN 0 ELSE drainFailures + 1
          /\ IF left # << >>
             THEN /\ drainTimer' = RetriesLeft(drainFailures')
                  /\ UNCHANGED <<closeHandled, removed>>
             ELSE deliverClose(left, FALSE)
          /\ UNCHANGED <<overflowed, fenced, killed>>
    BY <1>5, ZenonT(60) DEF drain
  <2>2. PICK failed, fences, left :
          /\ closed' = (closed \/ fences)
          /\ fenceTimer' = (fenceTimer /\ ~fences)
          /\ attached' = attached
          /\ drainFailures' = IF failed = {} THEN 0 ELSE drainFailures + 1
          /\ IF left # << >>
             THEN /\ drainTimer' = RetriesLeft(drainFailures')
                  /\ UNCHANGED <<closeHandled, removed>>
             ELSE deliverClose(left, FALSE)
          /\ UNCHANGED <<overflowed, fenced, killed>>
    BY <2>1
  <2>3. drainTimer' \in BOOLEAN /\ closeHandled' \in BOOLEAN /\ removed' \in BOOLEAN
    <3>1. CASE left # << >>
      BY <2>2, <3>1 DEF RetriesLeft, Flags
    <3>2. CASE left = << >>
      BY <2>2, <3>2, DeliverCloseFlags
    <3> QED
      BY <3>1, <3>2
  <2>4. closed' \in BOOLEAN /\ fenceTimer' \in BOOLEAN /\ drainFailures' \in Nat
    BY <2>2 DEF Flags
  <2> QED
    BY <2>2, <2>3, <2>4 DEF Flags
<1>6. CASE requestKill
  BY <1>6 DEF requestKill, fence, drainState, Flags
<1>7. CASE forceCleanupRuntime
  BY <1>7 DEF forceCleanupRuntime, Flags
<1>8. CASE UNCHANGED vars
  BY <1>8 DEF vars, fence, drainState, closing, Flags
<1> QED
  BY <1>1, <1>2, <1>3, <1>4, <1>5, <1>6, <1>7, <1>8 DEF Next

(* The fields keep their types and the queue its bound, for any sizes. *)
THEOREM QueueTypeOK == Spec => []TypeOK
<1>1. Init => PlaceInvariant /\ Flags
  <2>1. Init => /\ overflowed = FALSE /\ fenced = FALSE /\ fenceTimer = FALSE
                /\ attached = TRUE /\ drainTimer = FALSE /\ drainFailures = 0
                /\ closed = FALSE /\ closeHandled = FALSE
                /\ killed = FALSE /\ removed = FALSE
    BY DEF Init
  <2>2. Init => Flags
    <3>1. Init => drainFailures \in Nat
      BY <2>1
    <3> QED
      BY Zenon, <2>1, <3>1 DEF Flags
  <2> QED
    BY <2>2, PlaceInvariantInductive
<1>2. PlaceInvariant /\ Flags /\ [Next]_vars => PlaceInvariant' /\ Flags'
  BY PlaceInvariantInductive, FlagsStay
<1>3. PlaceInvariant /\ Flags => TypeOK
  BY DEF PlaceInvariant, Stored, Flags, TypeOK
<1> QED
  BY <1>1, <1>2, <1>3, PTL DEF Spec

-----------------------------------------------------------------------------
(* The delivery of records.                                                 *)

(* What the delivery calls seen. *)
LEMMA SeenAreRecords ==
  /\ ToSet(delivered) \union ToSet(queuedRecords) \union rejected \union lost
       \union abandoned = Records
  /\ (ToSet(delivered) \union ToSet(queuedRecords) \union rejected \union lost
       \union abandoned)' = Records'
BY DEF Records, Taken, Waiting, Gone

(* The close is handed over, for the first time or once more, or it is not. *)
LEMMA DeliverCloseEnds ==
  ASSUME NEW queue, NEW timer, deliverClose(queue, timer), queuedRecords' = queue
  PROVE  Delivery!MayEnd /\ (removed => UNCHANGED <<closeHandled, removed>>)
<1>1. CASE closed' /\ attached' /\ ~removed /\ ~timer /\ queue = << >>
  <2>1. closeHandled' = TRUE /\ removed' \in BOOLEAN
    BY <1>1 DEF deliverClose, CloseHandedOver, RemovedWithClose
  <2>2. ToSet(queuedRecords') = {}
    <3>1. queuedRecords' = << >> /\ DOMAIN << >> = {}
      BY <1>1
    <3> QED
      BY <3>1 DEF ToSet
  <2> QED
    BY <1>1, <2>1, <2>2 DEF Delivery!MayEnd
<1>2. CASE ~(closed' /\ attached' /\ ~removed /\ ~timer /\ queue = << >>)
  BY <1>2 DEF deliverClose, Delivery!MayEnd
<1> QED
  BY <1>1, <1>2

(* A record that comes waits, is taken, lost or refused. *)
LEMMA ReceiveDelivers ==
  ASSUME PlaceInvariant, CloseInvariant, Receive
  PROVE  \E m \in Record : \/ Delivery!Wait(m) \/ Delivery!Refuse(m)
                           \/ Delivery!Take(m) \/ Delivery!Lose(m)
<1>1. PICK kind \in Kind :
        /\ ~closed \/ inChunk
        /\ sent < MaxSent
        /\ attached' = attached
        /\ abandoned' = abandoned
        /\ routeRuntimeRecord([n |-> sent + 1, kind |-> kind])
  BY DEF Receive
<1> DEFINE r == [n |-> sent + 1, kind |-> kind]
<1>2. r \in Record /\ r \notin Records
  BY <1>1, NextRecordIsNew DEF PlaceInvariant
<1>3. routeRuntimeRecord(r)
  BY <1>1
<1> HIDE DEF r
<1>4. ASSUME Records' = Records \union {r} PROVE Delivery!Comes(r)
  BY <1>2, <1>4, SeenAreRecords DEF Delivery!Comes
<1>5. CASE Refuse(r)
  <2>1. /\ rejected' = rejected \union {r}
        /\ UNCHANGED <<queuedRecords, delivered, lost, closeHandled, removed>>
    BY <1>5 DEF Refuse, closing
  <2>2. Records' = Records \union {r}
    BY <1>1, <2>1 DEF Records, Taken, Waiting, Gone
  <2> QED
    BY <1>2, <1>4, <2>1, <2>2 DEF Delivery!Refuse
<1>6. CASE /\ Consumes /\ ~closeHandled
           /\ ConsumerTakes(r) \/ ConsumerFails(r)
           /\ queuedRecords' = queuedRecords
           /\ FenceAfter(r)
           /\ deliverClose(queuedRecords, drainTimer)
  <2>1. rejected' = rejected /\ ~closeHandled /\ ~removed
    BY <1>6 DEF FenceAfter, Consumes
  <2>2. Delivery!MayEnd
    BY <1>6, DeliverCloseEnds
  <2>3. CASE ConsumerTakes(r)
    <3>1. delivered' = Append(delivered, r) /\ lost' = lost
      BY <2>3 DEF ConsumerTakes
    <3>2. Taken' = Taken \union {r}
      <4>1. delivered \in Seq(Record)
        BY DEF PlaceInvariant, Stored
      <4> QED
        BY <1>2, <3>1, <4>1, AppendFacts DEF Taken
    <3>3. Records' = Records \union {r}
      BY <1>1, <1>6, <2>1, <3>1, <3>2 DEF Records, Waiting, Gone
    <3> QED
      BY <1>2, <1>4, <1>6, <2>1, <2>2, <3>1, <3>3 DEF Delivery!Take
  <2>4. CASE ConsumerFails(r)
    <3>1. lost' = lost \union {r} /\ delivered' = delivered
      BY <2>4 DEF ConsumerFails
    <3>2. Records' = Records \union {r}
      BY <1>1, <1>6, <2>1, <3>1 DEF Records, Taken, Waiting, Gone
    <3> QED
      BY <1>2, <1>4, <1>6, <2>1, <2>2, <3>1, <3>2 DEF Delivery!Lose
  <2> QED
    BY <1>6, <2>3, <2>4
<1>7. CASE /\ ~Consumes
           /\ queuedRecords' = Append(queuedRecords, r)
           /\ UNCHANGED <<delivered, faults, lost>>
           /\ FenceAfter(r)
           /\ UNCHANGED <<drainTimer, closeHandled, removed>>
  <2>1. rejected' = rejected
    BY <1>7 DEF FenceAfter
  <2>2. closeHandled => removed
    BY <1>1, <1>7 DEF CloseInvariant, AtRestAfterClose, Consumes
  <2>3. Waiting' = Waiting \union {r}
    <3>1. queuedRecords \in Seq(Record)
      BY DEF PlaceInvariant, Stored
    <3> QED
      BY <1>2, <1>7, <3>1, AppendFacts DEF Waiting
  <2>4. Records' = Records \union {r}
    BY <1>1, <1>7, <2>1, <2>3 DEF Records, Taken, Gone
  <2> QED
    BY <1>2, <1>4, <1>7, <2>2, <2>3, <2>4 DEF Delivery!Wait, Waiting
<1> QED
  BY <1>3, <1>5, <1>6, <1>7 DEF routeRuntimeRecord, Overflow

(* A drain turn takes records that wait, and the close may follow them. *)
LEMMA DrainDelivers ==
  ASSUME PlaceInvariant, CloseInvariant, drain
  PROVE  Delivery!TakeWaiting
<1>1. PlaceInvariant' /\ WaitingAreTaken
  BY DrainIsPlaced
<1>2. Consumes /\ drainTimer
  BY DEF drain
<1>3. ~closeHandled /\ ~removed
  BY <1>2 DEF CloseInvariant, AtRestAfterClose, Consumes
<1>4. PICK left :
        /\ queuedRecords' = left
        /\ \/ UNCHANGED <<closeHandled, removed>>
           \/ deliverClose(left, FALSE)
  BY Zenon DEF drain
<1>5. Delivery!MayEnd
  BY <1>4, DeliverCloseEnds DEF Delivery!MayEnd
<1>6. IsInjective(delivered')
  BY <1>1 DEF PlaceInvariant, Apart, IsInjective
<1>7. /\ Delivery!IsPrefix(delivered, delivered') <=> IsPrefix(delivered, delivered')
      /\ Delivery!IsInjective(delivered') <=> IsInjective(delivered')
      /\ Delivery!ToSet(delivered) = Taken /\ Delivery!ToSet(delivered') = Taken'
  BY DEF Delivery!IsPrefix, Delivery!IsInjective, Delivery!ToSet, IsPrefix, IsInjective,
         ToSet, Taken
<1>8. /\ IsPrefix(delivered, delivered')
      /\ Taken' = Taken \union (Waiting \ Waiting')
      /\ Waiting' \subseteq Waiting /\ Records' = Records
  BY <1>1 DEF WaitingAreTaken
<1> QED
  BY <1>3, <1>5, <1>6, <1>7, <1>8, SeenAreRecords DEF Waiting, Delivery!TakeWaiting

(* The other steps move no record, unless they drop all. *)
LEMMA OtherStepsDeliver ==
  ASSUME PlaceInvariant, CloseInvariant,
         \/ TransportCloses \/ OverflowFenceTimeout \/ detachRuntime \/ attachRuntime
         \/ requestKill \/ forceCleanupRuntime \/ UNCHANGED vars
  PROVE  Delivery!End \/ Delivery!Drop \/ UNCHANGED Delivery!deliveryVars
<1>1. ASSUME UNCHANGED <<queuedRecords, delivered, rejected, lost, abandoned>>
      PROVE  /\ UNCHANGED <<closeHandled, removed>> => UNCHANGED Delivery!deliveryVars
             /\ ~removed /\ Delivery!MayEnd => Delivery!End
  BY <1>1 DEF Delivery!deliveryVars, Delivery!End
<1>2. ASSUME UNCHANGED <<queuedRecords, delivered, rejected, lost, abandoned>>,
             NEW timer, deliverClose(queuedRecords, timer)
      PROVE  Delivery!End \/ UNCHANGED Delivery!deliveryVars
  <2>1. Delivery!MayEnd /\ (removed => UNCHANGED <<closeHandled, removed>>)
    BY <1>2, DeliverCloseEnds
  <2> QED
    BY <1>1, <1>2, <2>1
<1>3. CASE TransportCloses \/ OverflowFenceTimeout
  <2>1. /\ UNCHANGED <<queuedRecords, delivered, rejected, lost, abandoned>>
        /\ deliverClose(queuedRecords, drainTimer)
    BY <1>3 DEF TransportCloses, OverflowFenceTimeout, CloseNoted, history
  <2> QED
    BY <1>2, <2>1
<1>4. CASE attachRuntime
  <2>1. UNCHANGED <<queuedRecords, delivered, rejected, lost, abandoned>>
    BY <1>4 DEF attachRuntime, history
  <2>2. \/ UNCHANGED <<closeHandled, removed>>
        \/ deliverClose(queuedRecords, FALSE)
    BY <1>4 DEF attachRuntime
  <2> QED
    BY <1>1, <1>2, <2>1, <2>2
<1>5. CASE detachRuntime \/ requestKill \/ UNCHANGED vars
  <2>1. UNCHANGED <<queuedRecords, delivered, rejected, lost, abandoned,
                    closeHandled, removed>>
    BY <1>5 DEF detachRuntime, requestKill, vars, closing, history
  <2> QED
    BY <1>1, <2>1
<1>6. CASE forceCleanupRuntime
  <2>1. /\ ~removed /\ removed' = TRUE
        /\ abandoned' = ToSet(queuedRecords) /\ queuedRecords' = << >>
        /\ UNCHANGED <<delivered, rejected, lost, closeHandled>>
    BY <1>6 DEF forceCleanupRuntime
  <2>2. abandoned = {}
    BY <2>1 DEF PlaceInvariant, AbandonedByRemoval
  <2>3. ToSet(queuedRecords') = {}
    <3>1. DOMAIN << >> = {}
      OBVIOUS
    <3> QED
      BY <2>1, <3>1 DEF ToSet
  <2> QED
    BY <2>1, <2>2, <2>3 DEF Delivery!Drop
<1> QED
  BY <1>3, <1>4, <1>5, <1>6

(***************************************************************************)
(* The runtime implements the delivery of records, for any sizes, reloads  *)
(* and failures: a record that waited is taken once, only one that comes   *)
(* to an attached consumer can be lost, then the close is told, and        *)
(* nothing is taken after it.                                              *)
(***************************************************************************)
THEOREM RuntimeImplementsDelivery == Spec => ImplementsDelivery
<1>1. Init => Delivery!DeliveryInit
  <2> SUFFICES ASSUME Init PROVE Delivery!DeliveryInit
    OBVIOUS
  <2>1. /\ queuedRecords = << >> /\ delivered = << >>
        /\ rejected = {} /\ lost = {} /\ abandoned = {}
        /\ closeHandled = FALSE /\ removed = FALSE
    BY DEF Init
  <2>2. ToSet(<< >>) = {}
    <3>1. DOMAIN << >> = {}
      OBVIOUS
    <3> QED
      BY <3>1 DEF ToSet
  <2> QED
    BY <2>1, <2>2 DEF Delivery!DeliveryInit
<1>2. PlaceInvariant /\ CloseInvariant /\ [Next]_vars
        => [Delivery!DeliveryNext]_(Delivery!deliveryVars)
  BY ReceiveDelivers, DrainDelivers, OtherStepsDeliver DEF Next, Delivery!DeliveryNext
<1> QED
  BY <1>1, <1>2, CloseInvariantInductive, PlaceInvariantInductive, PTL
     DEF Spec, ImplementsDelivery, Delivery!DeliverySpec

-----------------------------------------------------------------------------
(* What carries a close and ends a fenced transport.                        *)

(* A close is handed over, waits for a drain turn, or for a consumer. *)
LEMMA DeliverCloseCarries ==
  ASSUME NEW queue, NEW timer \in BOOLEAN, deliverClose(queue, timer)
  PROVE  CloseIsCarried'
BY DEF deliverClose, CloseHandedOver, CloseIsCarried

(* A step that neither closes nor takes the turn of a drain away. *)
LEMMA StillCarried ==
  ASSUME CloseIsCarried, closed' = closed, closeHandled' = closeHandled,
         removed' = removed, drainTimer' = drainTimer,
         drainFailures' = drainFailures, attached' = attached
  PROVE  CloseIsCarried'
BY DEF CloseIsCarried, RetriesLeft

(***************************************************************************)
(* A close that is held back is carried by a drain turn or by a reload,    *)
(* until the retries are used up, in any order of records, reloads, closes *)
(* and failures: the safety half of CloseIsHandled.                        *)
(***************************************************************************)
THEOREM HeldCloseIsCarried == Spec => []CloseIsCarried
<1>1. Init => CloseIsCarried
  BY DEF Init, CloseIsCarried
<1>2. TypeOK /\ CloseIsCarried /\ [Next]_vars => CloseIsCarried'
  <2> SUFFICES ASSUME TypeOK, CloseIsCarried, [Next]_vars
               PROVE  CloseIsCarried'
    OBVIOUS
  <2>0. drainTimer \in BOOLEAN
    BY DEF TypeOK
  <2>1. CASE Receive
    <3>1. PICK kind \in Kind :
            /\ attached' = attached
            /\ routeRuntimeRecord([n |-> sent + 1, kind |-> kind])
      BY <2>1 DEF Receive
    <3> DEFINE r == [n |-> sent + 1, kind |-> kind]
    <3>2. routeRuntimeRecord(r)
      BY <3>1
    <3> HIDE DEF r
    <3>3. CASE Refuse(r)
      BY <3>1, <3>3, StillCarried DEF Refuse, closing, drainState
    <3>4. CASE FenceAfter(r) /\ deliverClose(queuedRecords, drainTimer)
      BY <2>0, <3>4, DeliverCloseCarries
    <3>5. CASE ~Consumes /\ FenceAfter(r) /\ UNCHANGED <<drainTimer, closeHandled, removed>>
      BY <3>1, <3>5 DEF Consumes, CloseIsCarried
    <3> QED
      BY <3>2, <3>3, <3>4, <3>5 DEF routeRuntimeRecord, Overflow
  <2>2. CASE TransportCloses \/ OverflowFenceTimeout
    BY <2>0, <2>2, DeliverCloseCarries DEF TransportCloses, OverflowFenceTimeout, CloseNoted
  <2>3. CASE detachRuntime
    BY <2>3 DEF detachRuntime, CloseIsCarried
  <2>4. CASE attachRuntime
    <3>1. CASE DrainOnAttach(queuedRecords)
      BY <2>4, <3>1 DEF attachRuntime, CloseIsCarried
    <3>2. CASE ~DrainOnAttach(queuedRecords)
      BY <2>4, <3>2, DeliverCloseCarries DEF attachRuntime
    <3> QED
      BY <3>1, <3>2
  <2>5. CASE drain
    <3>1. PICK left : IF left # << >>
                      THEN drainTimer' = RetriesLeft(drainFailures')
                      ELSE deliverClose(left, FALSE)
      BY <2>5, Zenon DEF drain
    <3>2. CASE left # << >>
      <4>1. drainTimer' = RetriesLeft(drainFailures)'
        BY <3>1, <3>2 DEF RetriesLeft
      <4> QED
        BY <4>1 DEF CloseIsCarried
    <3>3. CASE left = << >>
      BY <3>1, <3>3, DeliverCloseCarries
    <3> QED
      BY <3>2, <3>3
  <2>6. CASE requestKill
    BY <2>6, StillCarried DEF requestKill, drainState
  <2>7. CASE forceCleanupRuntime
    BY <2>7 DEF forceCleanupRuntime, CloseIsCarried
  <2>8. CASE UNCHANGED vars
    BY <2>8, StillCarried DEF vars, drainState, closing
  <2> QED
    BY <2>1, <2>2, <2>3, <2>4, <2>5, <2>6, <2>7, <2>8 DEF Next
<1> QED
  BY <1>1, <1>2, QueueTypeOK, PTL DEF Spec

(***************************************************************************)
(* A transport that an overflow fenced is closed or has its timer, however *)
(* often the runtime is reloaded: the safety half of OverflowEndsTransport.*)
(***************************************************************************)
THEOREM FencedTransportIsTimed == Spec => []OverflowIsTimed
<1>1. Init => OverflowIsTimed
  BY DEF Init, OverflowIsTimed
<1>2. OverflowIsTimed /\ [Next]_vars => OverflowIsTimed'
  <2> SUFFICES ASSUME OverflowIsTimed, [Next]_vars PROVE OverflowIsTimed'
    OBVIOUS
  <2>1. CASE Receive
    <3>1. PICK kind \in Kind : routeRuntimeRecord([n |-> sent + 1, kind |-> kind])
      BY <2>1 DEF Receive
    <3> DEFINE r == [n |-> sent + 1, kind |-> kind]
    <3>2. routeRuntimeRecord(r)
      BY <3>1
    <3> HIDE DEF r
    <3>3. CASE Refuse(r) /\ UNCHANGED fence
      BY <3>3 DEF Refuse, closing, fence, OverflowIsTimed
    <3>4. CASE FenceAfter(r)
      BY <3>4 DEF FenceAfter, OverflowIsTimed
    <3>5. CASE Overflow(r)
      BY <3>5 DEF Overflow, Refuse, closing, StartsFenceTimer, OverflowIsTimed
    <3> QED
      BY <3>2, <3>3, <3>4, <3>5 DEF routeRuntimeRecord
  <2>2. CASE TransportCloses \/ OverflowFenceTimeout
    BY <2>2 DEF TransportCloses, OverflowFenceTimeout, CloseNoted, OverflowIsTimed
  <2>3. CASE drain
    <3>1. PICK fences : /\ closed' = (closed \/ fences)
                        /\ fenceTimer' = (fenceTimer /\ ~fences)
                        /\ overflowed' = overflowed
      BY <2>3, Zenon DEF drain
    <3>2. CASE fences
      BY <3>1, <3>2 DEF OverflowIsTimed
    <3>3. CASE ~fences
      BY <3>1, <3>3, Zenon DEF OverflowIsTimed
    <3> QED
      BY <3>2, <3>3
  <2>4. CASE detachRuntime \/ attachRuntime \/ requestKill \/ UNCHANGED vars
    BY <2>4 DEF detachRuntime, attachRuntime, requestKill, vars, fence, closing,
                OverflowIsTimed
  <2>5. CASE forceCleanupRuntime
    BY <2>5 DEF forceCleanupRuntime, OverflowIsTimed
  <2> QED
    BY <2>1, <2>2, <2>3, <2>4, <2>5 DEF Next
<1> QED
  BY <1>1, <1>2, PTL DEF Spec

===============================================================================
