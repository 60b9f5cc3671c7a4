-------------------- MODULE SettlementNotificationsProofs --------------------
(***************************************************************************)
(* Proofs about the queue of settlement wakes, for any children, records   *)
(* and limits.                                                             *)
(***************************************************************************)
EXTENDS SettlementNotifications, FunctionTheorems, FiniteSetTheorems,
        SequenceTheorems, WellFoundedInduction, TLAPS

-----------------------------------------------------------------------------
(* Numbers and sequences.                                                  *)

(* A set with 0 and with the successor of each of its numbers has them all. *)
LEMMA NatSetInduction ==
  ASSUME NEW S, 0 \in S, \A n \in Nat : n \in S => n + 1 \in S
  PROVE  Nat \subseteq S
<1> DEFINE less == OpToRel(<, Nat)
           T == Nat \ S
<1>1. SUFFICES ASSUME T # {} PROVE FALSE
  OBVIOUS
<1>2. \E x \in T : \A y \in T : <<y, x>> \notin less
  <2> HIDE DEF less, T
  <2>1. IsWellFoundedOn(less, Nat)
    BY NatLessThanWellFounded DEF less
  <2>2. T \subseteq Nat
    BY DEF T
  <2> QED
    BY <1>1, <2>1, <2>2, WFMin
<1>3. PICK x \in T : \A y \in T : <<y, x>> \notin less
  BY <1>2
<1>4. \A y \in Nat : y < x => <<y, x>> \in less
  BY DEF OpToRel
<1> HIDE DEF less
<1>5. x # 0 /\ x \in Nat
  BY <1>3
<1>6. x - 1 \in Nat /\ x - 1 < x
  BY <1>5
<1>7. x - 1 \in S
  BY <1>3, <1>4, <1>6
<1>8. x \in S
  BY <1>6, <1>7, <1>5
<1> QED
  BY <1>3, <1>8

(* A record added at the tail.                                              *)
LEMMA AppendFacts ==
  ASSUME NEW S, NEW s \in Seq(S), NEW e \in S
  PROVE  /\ Append(s, e) \in Seq(S)
         /\ Len(Append(s, e)) = Len(s) + 1
         /\ ToSet(Append(s, e)) = ToSet(s) \union {e}
         /\ IsInjective(s) /\ e \notin ToSet(s) => IsInjective(Append(s, e))
<1>1. /\ Append(s, e) \in Seq(S)
      /\ Len(Append(s, e)) = Len(s) + 1
      /\ DOMAIN Append(s, e) = 1..Len(s) + 1
      /\ DOMAIN s = 1..Len(s)
      /\ Len(s) \in Nat
      /\ Append(s, e)[Len(s) + 1] = e
      /\ \A i \in 1..Len(s) : Append(s, e)[i] = s[i]
  OBVIOUS
<1>2. ToSet(Append(s, e)) = ToSet(s) \union {e}
  <2>1. ASSUME NEW x \in ToSet(Append(s, e))
        PROVE  x \in ToSet(s) \union {e}
    <3>1. PICK i \in 1..Len(s) + 1 : x = Append(s, e)[i]
      BY <1>1, <2>1 DEF ToSet
    <3>2. CASE i = Len(s) + 1
      BY <1>1, <3>1, <3>2
    <3>3. CASE i \in 1..Len(s)
      BY <1>1, <3>1, <3>3 DEF ToSet
    <3> QED
      BY <1>1, <3>1, <3>2, <3>3
  <2>2. ASSUME NEW x \in ToSet(s)
        PROVE  x \in ToSet(Append(s, e))
    <3>1. PICK i \in 1..Len(s) : x = s[i]
      BY <1>1 DEF ToSet
    <3>2. i \in 1..Len(s) + 1 /\ x = Append(s, e)[i]
      BY <1>1, <3>1
    <3> QED
      BY <1>1, <3>2 DEF ToSet
  <2>3. e \in ToSet(Append(s, e))
    <3>1. Len(s) + 1 \in 1..Len(s) + 1
      BY <1>1
    <3> QED
      BY <1>1, <3>1 DEF ToSet
  <2> QED
    BY <2>1, <2>2, <2>3
<1>3. ASSUME IsInjective(s), e \notin ToSet(s)
      PROVE  IsInjective(Append(s, e))
  <2>1. \A i \in 1..Len(s) : s[i] # e
    BY <1>1, <1>3 DEF ToSet
  <2>2. \A i, j \in 1..Len(s) : s[i] = s[j] => i = j
    BY <1>1, <1>3 DEF IsInjective
  <2> QED
    BY <1>1, <2>1, <2>2 DEF IsInjective
<1> QED
  BY <1>1, <1>2, <1>3

(* A part of a sequence. *)
LEMMA PartFacts ==
  ASSUME NEW S, NEW s \in Seq(S), NEW m \in 1..Len(s) + 1, NEW n \in 0..Len(s)
  PROVE  /\ SubSeq(s, m, n) \in Seq(S)
         /\ ToSet(SubSeq(s, m, n)) = {s[i] : i \in m..n}
         /\ IsInjective(s) => IsInjective(SubSeq(s, m, n))
<1> DEFINE t == SubSeq(s, m, n)
<1>1. /\ Len(s) \in Nat /\ m \in Nat /\ n \in Nat
      /\ DOMAIN s = 1..Len(s)
  OBVIOUS
<1>2. /\ t \in Seq(S)
      /\ Len(t) = IF m <= n THEN n - m + 1 ELSE 0
      /\ \A i \in 1..n - m + 1 : t[i] = s[m + i - 1]
  BY <1>1, SubSeqProperties
<1> HIDE DEF t
<1>3. DOMAIN t = 1..n - m + 1
  <2>1. CASE m <= n
    <3>1. DOMAIN t = 1..Len(t) /\ Len(t) = n - m + 1
      BY <1>2, <2>1
    <3> QED
      BY <3>1
  <2>2. CASE ~(m <= n)
    <3>1. DOMAIN t = 1..Len(t) /\ Len(t) = 0
      BY <1>2, <2>2
    <3>2. 1..n - m + 1 = {} /\ 1..0 = {}
      BY <1>1, <2>2
    <3> QED
      BY <3>1, <3>2
  <2> QED
    BY <2>1, <2>2
<1>4. ToSet(t) = {s[i] : i \in m..n}
  <2>1. ASSUME NEW x \in ToSet(t)
        PROVE  x \in {s[i] : i \in m..n}
    <3>1. PICK i \in 1..n - m + 1 : x = t[i]
      BY <1>3 DEF ToSet
    <3>2. x = s[m + i - 1] /\ m + i - 1 \in m..n
      BY <1>1, <1>2, <3>1
    <3> QED
      BY <3>2
  <2>2. ASSUME NEW i \in m..n
        PROVE  s[i] \in ToSet(t)
    <3>1. i - m + 1 \in 1..n - m + 1 /\ m + (i - m + 1) - 1 = i
      BY <1>1
    <3>2. t[i - m + 1] = s[i]
      BY <1>2, <3>1
    <3> QED
      BY <1>3, <3>1, <3>2 DEF ToSet
  <2> QED
    BY <2>1, <2>2
<1>5. ASSUME IsInjective(s)
      PROVE  IsInjective(t)
  <2>1. \A i, j \in 1..Len(s) : s[i] = s[j] => i = j
    BY <1>1, <1>5 DEF IsInjective
  <2>2. SUFFICES ASSUME NEW i \in 1..n - m + 1, NEW j \in 1..n - m + 1, t[i] = t[j]
                 PROVE  i = j
    BY <1>3 DEF IsInjective
  <2>3. s[m + i - 1] = s[m + j - 1]
    BY <1>2, <2>2
  <2>4. m + i - 1 \in 1..Len(s) /\ m + j - 1 \in 1..Len(s)
    BY <1>1
  <2> QED
    BY <1>1, <2>1, <2>3, <2>4
<1> QED
  BY <1>2, <1>4, <1>5 DEF t

(* A set of numbers that is not empty has a least one.                     *)
LEMMA LeastNumber ==
  ASSUME NEW S, S # {}, S \subseteq Nat
  PROVE  \E n \in S : \A m \in S : n <= m
<1> DEFINE Below == {n \in Nat : \A m \in 0..n : m \notin S}
<1>1. SUFFICES ASSUME ~ \E n \in S : \A m \in S : n <= m PROVE FALSE
  OBVIOUS
<1>2. 0 \in Below
  <2>1. CASE 0 \in S
    <3>1. \A m \in S : 0 <= m
      OBVIOUS
    <3> QED
      BY <1>1, <2>1, <3>1
  <2>2. CASE 0 \notin S
    BY <2>2
  <2> QED
    BY <2>1, <2>2
<1>3. ASSUME NEW n \in Nat, n \in Below
      PROVE  n + 1 \in Below
  <2>1. \A m \in 0..n : m \notin S
    BY <1>3
  <2>2. n + 1 \notin S
    <3>1. SUFFICES ASSUME n + 1 \in S PROVE FALSE
      OBVIOUS
    <3>2. \A m \in S : n + 1 <= m
      BY <2>1
    <3> QED
      BY <1>1, <3>1, <3>2
  <2>3. \A m \in 0..n + 1 : m \in 0..n \/ m = n + 1
    OBVIOUS
  <2> QED
    BY <2>1, <2>2, <2>3
<1>4. Nat \subseteq Below
  <2> HIDE DEF Below
  <2> QED
    BY <1>2, <1>3, NatSetInduction
<1>5. \A n \in Nat : n \in 0..n
  OBVIOUS
<1> QED
  BY <1>4, <1>5

(* The keys of the other children: each where it was, and no key anew.     *)
LEMMA WithoutChildFacts ==
  ASSUME NEW S, NEW s \in Seq(S), NEW c, IsInjective(s)
  PROVE  LET t == WithoutChild(s, c)
         IN  /\ t \in Seq(S) /\ IsInjective(t)
             /\ \A k \in ToSet(t) : k \in ToSet(s) /\ ChildOf(k) # c
<1> DEFINE kept == {i \in DOMAIN s : ChildOf(s[i]) # c}
           UpTo(i) == {j \in kept : j <= i}
           Place(i) == Cardinality(UpTo(i))
           N == Cardinality(kept)
           t == WithoutChild(s, c)
<1>1. /\ Len(s) \in Nat /\ DOMAIN s = 1..Len(s)
      /\ \A i \in 1..Len(s) : s[i] \in S
  OBVIOUS
<1>2. kept \subseteq 1..Len(s) /\ IsFiniteSet(kept) /\ N \in Nat
  <2>1. kept \subseteq 1..Len(s)
    BY <1>1
  <2>2. IsFiniteSet(1..Len(s))
    BY <1>1, FS_Interval
  <2>3. IsFiniteSet(kept)
    BY <2>1, <2>2, FS_Subset
  <2> QED
    BY <2>1, <2>3, FS_CardinalityType
<1>3. t = [n \in 1..N |-> s[CHOOSE i \in kept : Place(i) = n]]
  BY DEF WithoutChild
<1>4. \A i \in kept : ChildOf(s[i]) # c
  OBVIOUS
<1>5. \A i \in kept : i \in Nat /\ s[i] \in S /\ s[i] \in ToSet(s)
  BY <1>1, <1>2 DEF ToSet
<1>6. \A i, j \in kept : s[i] = s[j] => i = j
  BY <1>1, <1>2 DEF IsInjective
<1> HIDE DEF kept
<1>7. \A i \in kept : IsFiniteSet(UpTo(i)) /\ Place(i) \in Nat /\ Place(i) <= N
  <2>1. SUFFICES ASSUME NEW i \in kept
                 PROVE  IsFiniteSet(UpTo(i)) /\ Place(i) \in Nat /\ Place(i) <= N
    OBVIOUS
  <2>2. UpTo(i) \subseteq kept
    OBVIOUS
  <2> HIDE DEF UpTo
  <2>3. IsFiniteSet(UpTo(i)) /\ Cardinality(UpTo(i)) <= Cardinality(kept)
    BY <1>2, <2>2, FS_Subset
  <2> QED
    BY <2>3, FS_CardinalityType
<1>8. \A i, j \in kept : i < j => Place(i) < Place(j)
  <2>1. SUFFICES ASSUME NEW i \in kept, NEW j \in kept, i < j
                 PROVE  Place(i) < Place(j)
    OBVIOUS
  <2>2. UpTo(i) \union {j} \subseteq UpTo(j) /\ j \notin UpTo(i)
    BY <1>5, <2>1
  <2> HIDE DEF UpTo
  <2>3. Cardinality(UpTo(i) \union {j}) = Cardinality(UpTo(i)) + 1
    BY <1>7, <2>2, FS_AddElement
  <2>4. Cardinality(UpTo(i) \union {j}) <= Cardinality(UpTo(j))
    BY <1>7, <2>2, FS_Subset
  <2> QED
    BY <1>7, <2>3, <2>4
<1>9. \A i \in kept : Place(i) >= 1
  <2>1. SUFFICES ASSUME NEW i \in kept PROVE Place(i) >= 1
    OBVIOUS
  <2>2. i \in UpTo(i)
    BY <1>5
  <2> HIDE DEF UpTo
  <2>3. Cardinality(UpTo(i)) # 0
    BY <1>7, <2>2, FS_EmptySet
  <2> QED
    BY <1>7, <2>3
<1> HIDE DEF UpTo, Place, N
<1>10. \A n \in 1..N : \E i \in kept : Place(i) = n
  <2> DEFINE place == [i \in kept |-> Place(i)]
  <2>0. \A i \in kept : i \in Nat /\ Place(i) \in Nat /\ Place(i) \in 1..N
    BY <1>2, <1>5, <1>7, <1>9
  <2>1. place \in [kept -> 1..N]
    BY <2>0
  <2>2. ASSUME NEW i \in kept, NEW j \in kept, Place(i) = Place(j)
        PROVE  i = j
    <3>1. i \in Nat /\ j \in Nat /\ Place(i) \in Nat
      BY <2>0
    <3>2. ~(i < j) /\ ~(j < i)
      BY <1>8, <2>2, <3>1
    <3> QED
      BY <3>1, <3>2
  <2>3. IsInjective(place)
    BY <2>2 DEF IsInjective
  <2>4. place \in Injection(kept, 1..N)
    BY <2>1, <2>3 DEF Injection
  <2>5. IsFiniteSet(1..N) /\ Cardinality(1..N) = N
    BY <1>2, FS_Interval
  <2>6. Cardinality(kept) = N
    BY DEF N
  <2>7. place \in Surjection(kept, 1..N)
    BY <2>4, <2>5, <2>6, FS_Injection
  <2> QED
    BY <2>7 DEF Surjection
<1> DEFINE At(n) == CHOOSE i \in kept : Place(i) = n
<1>11. \A n \in 1..N : At(n) \in kept /\ Place(At(n)) = n
  BY <1>10
<1>12. t = [n \in 1..N |-> s[At(n)]]
  BY <1>3
<1> HIDE DEF At, t
<1>13. t \in Seq(S) /\ DOMAIN t = 1..N
  <2>1. \A n \in 1..N : s[At(n)] \in S
    BY <1>5, <1>11
  <2>2. t \in [1..N -> S]
    BY <1>12, <2>1
  <2> QED
    BY <1>2, <2>2
<1>14. IsInjective(t)
  BY <1>6, <1>11, <1>12, <1>13 DEF IsInjective
<1>15. \A k \in ToSet(t) : k \in ToSet(s) /\ ChildOf(k) # c
  BY <1>4, <1>5, <1>11, <1>12, <1>13 DEF ToSet
<1> QED
  BY <1>13, <1>14, <1>15 DEF t

(* Without keys there are none of other children.                          *)
LEMMA WithoutChildOfNone ==
  ASSUME NEW c
  PROVE  WithoutChild(<< >>, c) = << >>
<1> DEFINE kept == {i \in DOMAIN << >> : ChildOf(<< >>[i]) # c}
           Place(i) == Cardinality({j \in kept : j <= i})
<1>1. kept = {}
  OBVIOUS
<1>2. WithoutChild(<< >>, c)
        = [n \in 1..Cardinality(kept) |-> << >>[CHOOSE i \in kept : Place(i) = n]]
  BY DEF WithoutChild
<1> HIDE DEF kept, Place
<1>3. Cardinality(kept) = 0
  BY <1>1, FS_EmptySet
<1>4. 1..0 = {}
  OBVIOUS
<1> DEFINE none == WithoutChild(<< >>, c)
<1>5. none = [n \in 1..0 |-> << >>[CHOOSE i \in kept : Place(i) = n]]
  BY <1>2, <1>3
<1> HIDE DEF none
<1>6. none \in [1..0 -> {}]
  BY <1>4, <1>5
<1>7. none \in Seq({}) /\ Len(none) = 0
  BY <1>6
<1>8. none = << >>
  BY <1>7
<1> QED
  BY <1>8 DEF none

-----------------------------------------------------------------------------
(* No lost wake-up.                                                        *)

(* What the run of a flush leaves: a next flush for whatever waits. *)
LEMMA RunOnSchedules ==
  ASSUME NEW rest, NEW epochs, NEW waiting, NEW tried, NEW verdicts,
         RunOn(rest, epochs, waiting, tried, verdicts)
  PROVE  PendingIsScheduled'
<1> DEFINE next == SelectInSeq(rest, LAMBDA k : MaySend(k, epochs))
<1>1. pending' = waiting
  BY DEF RunOn
<1>2. CASE next = 0
  <2>1. timer' = scheduleAfterFlush(waiting)
    BY <1>2 DEF RunOn
  <2> QED
    BY <1>1, <2>1 DEF PendingIsScheduled, scheduleAfterFlush
<1>3. CASE next # 0
  <2>1. flush' = [sending |-> TRUE, key |-> rest[next],
                  rest |-> SubSeq(rest, next + 1, Len(rest)), epochs |-> epochs]
    BY <1>3 DEF RunOn
  <2>2. flush'.sending
    BY <2>1
  <2> QED
    BY <2>2 DEF PendingIsScheduled, flushing
<1> QED
  BY <1>2, <1>3

(* Everything else leaves the flush alone and keeps the timer it needs. *)
LEMMA StepKeepsScheduled ==
  ASSUME PendingIsScheduled, [Next]_vars
  PROVE  PendingIsScheduled'
<1>1. CASE Queue
  <2>1. timer' = (timer \/ ~flushing) /\ flush' = flush
    BY <1>1 DEF Queue, schedule
  <2> QED
    BY <2>1 DEF PendingIsScheduled, flushing
<1>2. ASSUME NEW c \in Child, suppressChild(c)
      PROVE  PendingIsScheduled'
  <2>1. timer' = timer /\ flush' = flush /\ pending' = WithoutChild(pending, c)
    BY <1>2 DEF suppressChild
  <2>2. CASE pending = << >>
    <3>1. pending' = << >>
      BY <2>1, <2>2, WithoutChildOfNone
    <3> QED
      BY <3>1 DEF PendingIsScheduled
  <2>3. CASE pending # << >>
    BY <2>1, <2>3 DEF PendingIsScheduled, flushing
  <2> QED
    BY <2>2, <2>3
<1>3. CASE suppressAll
  <2>1. pending' = << >>
    BY <1>3 DEF suppressAll
  <2> QED
    BY <2>1 DEF PendingIsScheduled
<1>4. CASE LoseEligibility
  BY <1>4 DEF LoseEligibility, queueVars, PendingIsScheduled, flushing
<1>5. CASE Flush
  BY <1>5, RunOnSchedules DEF Flush
<1>6. CASE SendSucceeds
  BY <1>6, RunOnSchedules DEF SendSucceeds
<1>7. CASE SendFails
  BY <1>7, RunOnSchedules DEF SendFails
<1>8. CASE UNCHANGED vars
  BY <1>8 DEF vars, queueVars, PendingIsScheduled, flushing
<1> QED
  BY <1>1, <1>2, <1>3, <1>4, <1>5, <1>6, <1>7, <1>8 DEF Next

(* No accepted stop ever waits without a flush scheduled or running. *)
THEOREM NoLostWakeup == Spec => []PendingIsScheduled
<1>1. Init => PendingIsScheduled
  BY DEF Init, PendingIsScheduled
<1>2. PendingIsScheduled /\ [Next]_vars => PendingIsScheduled'
  BY StepKeepsScheduled
<1> QED
  BY <1>1, <1>2, PTL DEF Spec

-----------------------------------------------------------------------------
(* The next key that a flush sends is one that may be sent.                *)
LEMMA NextMaySend ==
  ASSUME NEW rest \in Seq(Key), NEW epochs
  PROVE  LET next == SelectInSeq(rest, LAMBDA k : MaySend(k, epochs))
         IN  next # 0 => next \in 1..Len(rest) /\ MaySend(rest[next], epochs)
<1> DEFINE next == SelectInSeq(rest, LAMBDA k : MaySend(k, epochs))
           I == {i \in 1..Len(rest) : MaySend(rest[i], epochs)}
<1>1. next = IF I # {} THEN CHOOSE x \in I : \A y \in I : x =< y ELSE 0
  BY DEF SelectInSeq, Min
<1>2. I \subseteq Nat
  OBVIOUS
<1>3. \A i \in I : i \in 1..Len(rest) /\ MaySend(rest[i], epochs)
  OBVIOUS
<1> HIDE DEF next, I
<1>4. ASSUME next # 0
      PROVE  next \in I
  <2>1. I # {} /\ next = CHOOSE x \in I : \A y \in I : x =< y
    BY <1>1, <1>4
  <2> QED
    BY <1>2, <2>1, LeastNumber
<1> QED
  BY <1>3, <1>4 DEF next

(* A flush passes over some keys and ends, or sends the key after them.    *)
Passes(rest, epochs, tried, verdicts, waiting, passed) ==
  /\ pending' = waiting
  /\ attempts' = [k \in Key |-> IF k \in passed THEN 0 ELSE tried[k]]
  /\ fate' = [k \in Key |-> IF k \in passed \ ToSet(waiting) /\ verdicts[k] = "queued"
                            THEN "withheld" ELSE verdicts[k]]
  /\ passed \subseteq ToSet(rest)
  /\ UNCHANGED <<acceptedOrder, epochVars, eligible, acceptances, accepts>>

Sends(rest, epochs, passed, k, left) ==
  /\ k \in ToSet(rest) /\ MaySend(k, epochs)
  /\ left \in Seq(Key) /\ IsInjective(left) /\ ToSet(left) \subseteq ToSet(rest)
  /\ k \notin ToSet(left) /\ k \notin passed /\ passed \intersect ToSet(left) = {}
  /\ flush' = [sending |-> TRUE, key |-> k, rest |-> left, epochs |-> epochs]
  /\ timer' = FALSE
  /\ sends' = [sends EXCEPT ![k] = @ + 1]

(* A flush that runs on is one of these: it ends or sends, after passing.  *)
LEMMA RunOnFacts ==
  ASSUME NEW rest \in Seq(Key), IsInjective(rest), NEW epochs, NEW waiting,
         NEW tried, NEW verdicts, RunOn(rest, epochs, waiting, tried, verdicts)
  PROVE  \E passed \in SUBSET ToSet(rest) :
           /\ Passes(rest, epochs, tried, verdicts, waiting, passed)
           /\ \/ /\ passed = ToSet(rest) /\ flush' = NoFlush
                 /\ timer' = scheduleAfterFlush(waiting) /\ sends' = sends
              \/ \E k, left : Sends(rest, epochs, passed, k, left)
<1> DEFINE next == SelectInSeq(rest, LAMBDA k : MaySend(k, epochs))
           passed == ToSet(IF next = 0 THEN rest ELSE SubSeq(rest, 1, next - 1))
           left == SubSeq(rest, next + 1, Len(rest))
<1>1. /\ pending' = waiting
      /\ attempts' = [k \in Key |-> IF k \in passed THEN 0 ELSE tried[k]]
      /\ fate' = [k \in Key |-> IF k \in passed \ ToSet(waiting) /\ verdicts[k] = "queued"
                                THEN "withheld" ELSE verdicts[k]]
      /\ UNCHANGED <<acceptedOrder, epochVars, eligible, acceptances, accepts>>
  BY DEF RunOn
<1>2. /\ next = 0 => /\ flush' = NoFlush
                     /\ timer' = scheduleAfterFlush(waiting) /\ sends' = sends
      /\ next # 0 => /\ flush' = [sending |-> TRUE, key |-> rest[next],
                                  rest |-> left, epochs |-> epochs]
                     /\ timer' = FALSE
                     /\ sends' = [sends EXCEPT ![rest[next]] = @ + 1]
  BY DEF RunOn
<1>3. next # 0 => next \in 1..Len(rest) /\ MaySend(rest[next], epochs)
  BY NextMaySend
<1>4. next = 0 => passed = ToSet(rest)
  OBVIOUS
<1>5. next # 0 => passed = ToSet(SubSeq(rest, 1, next - 1))
  OBVIOUS
<1> HIDE DEF next, passed, left
<1>6. CASE next = 0
  <2>1. Passes(rest, epochs, tried, verdicts, waiting, passed)
    BY <1>1, <1>4, <1>6 DEF Passes
  <2> QED
    BY <1>2, <1>4, <1>6, <2>1
<1>7. CASE next # 0
  <2> DEFINE k == rest[next]
  <2>1. /\ Len(rest) \in Nat /\ next \in 1..Len(rest)
        /\ DOMAIN rest = 1..Len(rest)
    BY <1>3, <1>7
  <2>2. passed = {rest[i] : i \in 1..next - 1}
    <3>1. 1 \in 1..Len(rest) + 1 /\ next - 1 \in 0..Len(rest)
      BY <2>1
    <3> QED
      BY <1>5, <1>7, <3>1, PartFacts
  <2>3. /\ left \in Seq(Key) /\ IsInjective(left)
        /\ ToSet(left) = {rest[i] : i \in next + 1..Len(rest)}
    <3>1. next + 1 \in 1..Len(rest) + 1 /\ Len(rest) \in 0..Len(rest)
      BY <2>1
    <3> QED
      BY <3>1, PartFacts DEF left
  <2>4. \A i, j \in 1..Len(rest) : rest[i] = rest[j] => i = j
    BY <2>1 DEF IsInjective
  <2>5. /\ \A i \in 1..next - 1 : i \in 1..Len(rest) /\ i # next
        /\ \A i \in next + 1..Len(rest) : i \in 1..Len(rest) /\ i # next
        /\ \A i \in 1..next - 1, j \in next + 1..Len(rest) : i # j
    BY <2>1
  <2>6. \A i \in 1..Len(rest) : rest[i] \in ToSet(rest)
    BY <2>1 DEF ToSet
  <2>7. passed \subseteq ToSet(rest) /\ ToSet(left) \subseteq ToSet(rest) /\ k \in ToSet(rest)
    BY <2>1, <2>2, <2>3, <2>5, <2>6
  <2>8. k \notin passed /\ k \notin ToSet(left) /\ passed \intersect ToSet(left) = {}
    BY <2>1, <2>2, <2>3, <2>4, <2>5
  <2>9. Passes(rest, epochs, tried, verdicts, waiting, passed)
    BY <1>1, <2>7 DEF Passes
  <2>10. Sends(rest, epochs, passed, k, left)
    BY <1>2, <1>3, <1>7, <2>3, <2>7, <2>8 DEF Sends
  <2> QED
    BY <2>7, <2>9, <2>10
<1> QED
  BY <1>6, <1>7

-----------------------------------------------------------------------------
(***************************************************************************)
(* The invariant.                                                          *)
(***************************************************************************)

(* Where a key is: in the flush's send, or behind it in the flush.         *)
Sending == IF flushing THEN {flush.key} ELSE {}
Taken == IF flushing THEN ToSet(flush.rest) ELSE {}

(* The epochs that a flush saw are not ahead of the present ones.          *)
Seen(epochs) ==
  /\ epochs \in Epochs
  /\ epochs.all <= suppressionEpoch
  /\ \A c \in Child : epochs.child[c] <= childSuppressionEpochs[c]

(* No key is twice in the queue, nor twice in a flush.                     *)
Queued ==
  /\ pending \in Seq(Key) /\ IsInjective(pending)
  /\ attempts \in [Key -> 0..MAX_SEND_RETRIES]
  /\ fate \in [Key -> Fate]
  /\ eligible \subseteq Child
  /\ timer \in BOOLEAN

Epoched ==
  /\ suppressionEpoch \in 0..MaxEpoch
  /\ childSuppressionEpochs \in [Child -> 0..MaxEpoch]

InFlush ==
  \/ flush = NoFlush
  \/ /\ flush \in [sending : {TRUE}, key : Key, rest : Seq(Key), epochs : Epochs]
     /\ IsInjective(flush.rest) /\ flush.key \notin ToSet(flush.rest)
     /\ Seen(flush.epochs)

Counted ==
  /\ acceptances \in Nat
  /\ accepts \in [Key -> Nat]
  /\ sends \in [Key -> Nat]
  /\ deliveries \in [Key -> Nat]

(* There is no verdict on what waits or on what the flush may still send.  *)
NoVerdictYet ==
  /\ \A k \in ToSet(pending) : fate[k] = "queued"
  /\ \A k \in Sending \union Taken :
       ~suppressed(k, flush.epochs) => fate[k] = "queued"

(***************************************************************************)
(* The sends that a key may still have without being accepted again.  A    *)
(* key that only waits has the retries left to it.  One that was accepted  *)
(* again while it is in a flush has all of its retries, since the flush    *)
(* may reset the count of failures that both share.                        *)
(***************************************************************************)
Room(queued, sending, taken, open, failures) ==
  IF queued
  THEN IF sending THEN 1 + MAX_SEND_RETRIES
       ELSE IF taken THEN IF open THEN 2 + MAX_SEND_RETRIES ELSE 1 + MAX_SEND_RETRIES
       ELSE 1 + MAX_SEND_RETRIES - failures
  ELSE IF ~open THEN 0
       ELSE IF sending THEN MAX_SEND_RETRIES - failures
       ELSE IF taken THEN 1 + MAX_SEND_RETRIES - failures
       ELSE 0

Open(k) == ~suppressed(k, flush.epochs)

SendsLeft(k) ==
  Room(k \in ToSet(pending), k \in Sending, k \in Taken, Open(k), attempts[k])

Allowed(k) == accepts[k] * (1 + MAX_SEND_RETRIES)

SendsAreCovered == \A k \in Key : sends[k] + SendsLeft(k) <= Allowed(k)

One(b) == IF b THEN 1 ELSE 0

DeliveriesAreCovered ==
  \A k \in Key :
    deliveries[k] + One(k \in ToSet(pending)) + One(k \in Sending \union Taken)
      <= accepts[k]

WakeInvariant ==
  /\ Queued /\ Epoched /\ InFlush /\ Counted
  /\ NoVerdictYet /\ SendsAreCovered /\ DeliveriesAreCovered

-----------------------------------------------------------------------------
(***************************************************************************)
(* A flush that runs on.                                                   *)
(***************************************************************************)

(* What holds of the keys before the flush runs on over them.              *)
Resumes(rest, epochs, waiting, tried, verdicts) ==
  /\ rest \in Seq(Key) /\ IsInjective(rest) /\ Seen(epochs)
  /\ waiting \in Seq(Key) /\ IsInjective(waiting)
  /\ tried \in [Key -> 0..MAX_SEND_RETRIES]
  /\ verdicts \in [Key -> Fate]
  /\ \A k \in ToSet(waiting) : verdicts[k] = "queued"
  /\ \A k \in ToSet(rest) : ~suppressed(k, epochs) => verdicts[k] = "queued"
  /\ \A k \in Key :
       sends[k] + Room(k \in ToSet(waiting), FALSE, k \in ToSet(rest),
                       ~suppressed(k, epochs), tried[k]) <= Allowed(k)
  /\ deliveries' \in [Key -> Nat]
  /\ \A k \in Key :
       deliveries'[k] + One(k \in ToSet(waiting)) + One(k \in ToSet(rest)) <= accepts[k]

(* Members of a sequence of keys are keys.                                 *)
LEMMA KeysOnly ==
  ASSUME NEW s \in Seq(Key)
  PROVE  ToSet(s) \subseteq Key
BY DEF ToSet

(* The child of a key, and so whether it is suppressed, is known.          *)
LEMMA ChildOfKey ==
  ASSUME NEW k \in Key
  PROVE  ChildOf(k) \in Child
BY InputAssumption DEF Key, KeyOf, ChildOf

(* The sends allowed are a number.                                         *)
LEMMA AllowedIsNat ==
  ASSUME Counted, NEW k \in Key
  PROVE  Allowed(k) \in Nat /\ accepts[k] \in Nat /\ sends[k] \in Nat
<1>1. accepts[k] \in Nat /\ sends[k] \in Nat /\ MAX_SEND_RETRIES \in Nat
  BY LimitsAssumption DEF Counted
<1> DEFINE a == accepts[k]
<1> HIDE DEF a
<1>2. \A x \in Nat : x * (1 + MAX_SEND_RETRIES) \in Nat
  BY <1>1
<1> QED
  BY <1>1, <1>2 DEF Allowed

(* A flush that ends leaves what waits.                                    *)
LEMMA EndKeeps ==
  ASSUME Epoched, Counted, eligible \subseteq Child,
         NEW rest, NEW epochs, NEW waiting, NEW tried, NEW verdicts,
         Resumes(rest, epochs, waiting, tried, verdicts),
         NEW passed, passed = ToSet(rest),
         Passes(rest, epochs, tried, verdicts, waiting, passed),
         flush' = NoFlush, timer' \in BOOLEAN, sends' = sends
  PROVE  WakeInvariant'
<1>1. /\ pending' = waiting /\ waiting \in Seq(Key) /\ IsInjective(waiting)
      /\ attempts' = [k \in Key |-> IF k \in passed THEN 0 ELSE tried[k]]
      /\ tried \in [Key -> 0..MAX_SEND_RETRIES]
      /\ verdicts \in [Key -> Fate]
      /\ fate' = [k \in Key |-> IF k \in passed \ ToSet(waiting) /\ verdicts[k] = "queued"
                                THEN "withheld" ELSE verdicts[k]]
      /\ UNCHANGED <<epochVars, eligible, acceptances, accepts>>
      /\ MAX_SEND_RETRIES \in Nat
  BY LimitsAssumption DEF Passes, Resumes
<1>2. Queued'
  <2>1. attempts' \in [Key -> 0..MAX_SEND_RETRIES]
    BY <1>1
  <2>2. fate' \in [Key -> Fate]
    BY <1>1 DEF Fate
  <2> QED
    BY <1>1, <2>1, <2>2 DEF Queued
<1>3. Epoched' /\ InFlush'
  BY <1>1 DEF Epoched, InFlush, epochVars
<1>4. Counted'
  BY <1>1 DEF Counted, Resumes
<1>5. Sending' = {} /\ Taken' = {}
  BY DEF Sending, Taken, flushing, NoFlush
<1>6. NoVerdictYet'
  BY <1>1, <1>5, KeysOnly DEF NoVerdictYet, Resumes
<1>7. SendsAreCovered'
  <2>1. SUFFICES ASSUME NEW k \in Key
                 PROVE  sends'[k] + SendsLeft(k)' <= Allowed(k)'
    BY DEF SendsAreCovered
  <2>2. /\ sends[k] \in Nat /\ tried[k] \in 0..MAX_SEND_RETRIES
        /\ Allowed(k) \in Nat /\ Allowed(k)' = Allowed(k)
    BY <1>1, AllowedIsNat DEF Allowed
  <2>3. sends[k] + Room(k \in ToSet(waiting), FALSE, k \in ToSet(rest),
                        ~suppressed(k, epochs), tried[k]) <= Allowed(k)
    BY DEF Resumes
  <2>4. SendsLeft(k)' = Room(k \in ToSet(waiting), FALSE, FALSE, Open(k)', attempts'[k])
    BY <1>1, <1>5 DEF SendsLeft, Room
  <2>5. attempts'[k] = IF k \in ToSet(rest) THEN 0 ELSE tried[k]
    BY <1>1
  <2> QED
    BY <1>1, <2>2, <2>3, <2>4, <2>5 DEF Room
<1>8. DeliveriesAreCovered'
  <2>1. SUFFICES ASSUME NEW k \in Key
                 PROVE  deliveries'[k] + One(k \in ToSet(waiting)) + One(FALSE) <= accepts[k]
    BY <1>1, <1>5 DEF DeliveriesAreCovered, One
  <2>2. /\ deliveries'[k] \in Nat /\ accepts[k] \in Nat
        /\ deliveries'[k] + One(k \in ToSet(waiting)) + One(k \in ToSet(rest)) <= accepts[k]
    BY AllowedIsNat DEF Resumes
  <2> QED
    BY <2>2 DEF One
<1> QED
  BY <1>2, <1>3, <1>4, <1>6, <1>7, <1>8 DEF WakeInvariant

(* A flush that sends the next key has used one of the sends left to it.   *)
LEMMA NextSendKeeps ==
  ASSUME Epoched, Counted, eligible \subseteq Child,
         NEW rest, NEW epochs, NEW waiting, NEW tried, NEW verdicts,
         Resumes(rest, epochs, waiting, tried, verdicts),
         NEW passed, Passes(rest, epochs, tried, verdicts, waiting, passed),
         NEW n, NEW left, Sends(rest, epochs, passed, n, left)
  PROVE  WakeInvariant'
<1>1. /\ pending' = waiting /\ waiting \in Seq(Key) /\ IsInjective(waiting)
      /\ attempts' = [k \in Key |-> IF k \in passed THEN 0 ELSE tried[k]]
      /\ tried \in [Key -> 0..MAX_SEND_RETRIES]
      /\ verdicts \in [Key -> Fate]
      /\ fate' = [k \in Key |-> IF k \in passed \ ToSet(waiting) /\ verdicts[k] = "queued"
                                THEN "withheld" ELSE verdicts[k]]
      /\ UNCHANGED <<epochVars, eligible, acceptances, accepts>>
      /\ MAX_SEND_RETRIES \in Nat
      /\ rest \in Seq(Key) /\ Seen(epochs) /\ epochs \in Epochs
      /\ passed \subseteq ToSet(rest)
  BY LimitsAssumption DEF Passes, Resumes, Seen
<1>2. /\ n \in ToSet(rest) /\ n \in Key
      /\ ~suppressed(n, epochs)
      /\ left \in Seq(Key) /\ IsInjective(left) /\ ToSet(left) \subseteq ToSet(rest)
      /\ n \notin ToSet(left) /\ n \notin passed /\ passed \intersect ToSet(left) = {}
      /\ flush' = [sending |-> TRUE, key |-> n, rest |-> left, epochs |-> epochs]
      /\ timer' = FALSE
      /\ sends' = [sends EXCEPT ![n] = @ + 1]
  BY <1>1, KeysOnly DEF Sends, MaySend
<1>3. Queued'
  <2>1. attempts' \in [Key -> 0..MAX_SEND_RETRIES]
    BY <1>1
  <2>2. fate' \in [Key -> Fate]
    BY <1>1 DEF Fate
  <2> QED
    BY <1>1, <1>2, <2>1, <2>2 DEF Queued
<1>4. /\ Sending' = {n} /\ Taken' = ToSet(left)
      /\ flush'.epochs = epochs
      /\ \A k : suppressed(k, flush.epochs)' = suppressed(k, epochs)
  BY <1>1, <1>2 DEF Sending, Taken, flushing, suppressed, epochVars
<1>5. Epoched' /\ InFlush'
  <2>1. Epoched' /\ Seen(epochs)'
    BY <1>1 DEF Epoched, Seen, epochVars
  <2>2. flush' \in [sending : {TRUE}, key : Key, rest : Seq(Key), epochs : Epochs]
    BY <1>1, <1>2
  <2>3. flush'.key = n /\ flush'.rest = left
    BY <1>2
  <2> QED
    BY <1>2, <1>4, <2>1, <2>2, <2>3 DEF InFlush, Seen
<1>6. Counted'
  BY <1>1, <1>2 DEF Counted, Resumes
<1>7. NoVerdictYet'
  <2>1. \A k \in ToSet(pending') : fate'[k] = "queued"
    BY <1>1, KeysOnly DEF Resumes
  <2>2. ASSUME NEW k \in {n} \union ToSet(left), ~suppressed(k, epochs)
        PROVE  fate'[k] = "queued"
    <3>1. k \in ToSet(rest) /\ k \in Key /\ k \notin passed
      BY <1>1, <1>2, KeysOnly
    <3>2. verdicts[k] = "queued"
      BY <2>2, <3>1 DEF Resumes
    <3> QED
      BY <1>1, <3>1, <3>2
  <2> QED
    BY <1>4, <2>1, <2>2 DEF NoVerdictYet
<1>8. SendsAreCovered'
  <2>1. SUFFICES ASSUME NEW k \in Key
                 PROVE  sends'[k] + SendsLeft(k)' <= Allowed(k)'
    BY DEF SendsAreCovered
  <2> DEFINE open == ~suppressed(k, epochs)
             queued == k \in ToSet(waiting)
  <2>2. /\ sends[k] \in Nat /\ tried[k] \in 0..MAX_SEND_RETRIES
        /\ Allowed(k) \in Nat /\ Allowed(k)' = Allowed(k)
        /\ sends'[k] = IF k = n THEN sends[k] + 1 ELSE sends[k]
    BY <1>1, <1>2, AllowedIsNat DEF Allowed, Counted
  <2>3. sends[k] + Room(queued, FALSE, k \in ToSet(rest), open, tried[k]) <= Allowed(k)
    BY DEF Resumes
  <2>4. SendsLeft(k)' = Room(queued, k = n, k \in ToSet(left), open, attempts'[k])
    BY <1>1, <1>4 DEF SendsLeft, Open
  <2>5. attempts'[k] = IF k \in passed THEN 0 ELSE tried[k]
    BY <1>1
  <2>6. k = n => open /\ k \in ToSet(rest)
    BY <1>2
  <2> HIDE DEF open, queued
  <2>7. CASE k = n
    <3>1. /\ sends'[k] = sends[k] + 1 /\ attempts'[k] = tried[k]
          /\ SendsLeft(k)' = Room(queued, TRUE, FALSE, TRUE, tried[k])
      BY <1>2, <2>2, <2>4, <2>5, <2>6, <2>7 DEF Room
    <3>2. sends[k] + Room(queued, FALSE, TRUE, TRUE, tried[k]) <= Allowed(k)
      BY <2>3, <2>6, <2>7 DEF Room
    <3> QED
      BY <1>1, <2>2, <3>1, <3>2 DEF Room
  <2>8. CASE k # n /\ k \in passed
    <3>1. /\ sends'[k] = sends[k]
          /\ SendsLeft(k)' = Room(queued, FALSE, FALSE, open, 0)
      BY <1>2, <2>2, <2>4, <2>5, <2>8 DEF Room
    <3>2. sends[k] + Room(queued, FALSE, TRUE, open, tried[k]) <= Allowed(k)
      BY <1>1, <2>3, <2>8 DEF Room
    <3> QED
      BY <1>1, <2>2, <3>1, <3>2 DEF Room
  <2>9. CASE k # n /\ k \notin passed
    <3>1. /\ sends'[k] = sends[k]
          /\ SendsLeft(k)' = Room(queued, FALSE, k \in ToSet(left), open, tried[k])
      BY <2>2, <2>4, <2>5, <2>9 DEF Room
    <3>2. k \in ToSet(left) => k \in ToSet(rest)
      BY <1>2
    <3> QED
      BY <1>1, <2>2, <2>3, <3>1, <3>2 DEF Room
  <2> QED
    BY <2>7, <2>8, <2>9
<1>9. DeliveriesAreCovered'
  <2>1. SUFFICES ASSUME NEW k \in Key
                 PROVE  deliveries'[k] + One(k \in ToSet(waiting))
                          + One(k \in {n} \union ToSet(left)) <= accepts[k]
    BY <1>1, <1>4 DEF DeliveriesAreCovered
  <2>2. /\ deliveries'[k] \in Nat /\ accepts[k] \in Nat
        /\ deliveries'[k] + One(k \in ToSet(waiting)) + One(k \in ToSet(rest)) <= accepts[k]
    BY AllowedIsNat DEF Resumes
  <2>3. k \in {n} \union ToSet(left) => k \in ToSet(rest)
    BY <1>2
  <2> QED
    BY <2>2, <2>3 DEF One
<1> QED
  BY <1>3, <1>5, <1>6, <1>7, <1>8, <1>9 DEF WakeInvariant

(* So the invariant holds again when the flush has run on.                 *)
LEMMA RunOnKeeps ==
  ASSUME Epoched, Counted, eligible \subseteq Child,
         NEW rest, NEW epochs, NEW waiting, NEW tried, NEW verdicts,
         Resumes(rest, epochs, waiting, tried, verdicts),
         RunOn(rest, epochs, waiting, tried, verdicts)
  PROVE  WakeInvariant' /\ UNCHANGED <<acceptedOrder, acceptances, accepts>>
<1>1. rest \in Seq(Key) /\ IsInjective(rest)
  BY DEF Resumes
<1>2. PICK passed \in SUBSET ToSet(rest) :
        /\ Passes(rest, epochs, tried, verdicts, waiting, passed)
        /\ \/ /\ passed = ToSet(rest) /\ flush' = NoFlush
              /\ timer' = scheduleAfterFlush(waiting) /\ sends' = sends
           \/ \E k, left : Sends(rest, epochs, passed, k, left)
  BY <1>1, RunOnFacts
<1>3. scheduleAfterFlush(waiting) \in BOOLEAN
  BY DEF scheduleAfterFlush
<1>4. WakeInvariant'
  <2>1. CASE flush' = NoFlush /\ passed = ToSet(rest) /\ sends' = sends
               /\ timer' = scheduleAfterFlush(waiting)
    BY <1>2, <1>3, <2>1, EndKeeps
  <2>2. ASSUME NEW k, NEW left, Sends(rest, epochs, passed, k, left)
        PROVE  WakeInvariant'
    BY <1>2, <2>2, NextSendKeeps
  <2> QED
    BY <1>2, <2>1, <2>2
<1> QED
  BY <1>2, <1>4 DEF Passes

-----------------------------------------------------------------------------
(***************************************************************************)
(* The steps of a flush.                                                   *)
(***************************************************************************)

(* What a flush that is running has.                                       *)
LEMMA Running ==
  ASSUME WakeInvariant, flushing
  PROVE  /\ flush.key \in Key /\ flush.rest \in Seq(Key) /\ IsInjective(flush.rest)
         /\ flush.key \notin ToSet(flush.rest) /\ Seen(flush.epochs)
         /\ Sending = {flush.key} /\ Taken = ToSet(flush.rest)
<1>1. flush # NoFlush
  BY DEF flushing, NoFlush
<1>2. /\ flush \in [sending : {TRUE}, key : Key, rest : Seq(Key), epochs : Epochs]
      /\ IsInjective(flush.rest) /\ flush.key \notin ToSet(flush.rest)
      /\ Seen(flush.epochs)
  BY <1>1 DEF WakeInvariant, InFlush
<1>3. flush.key \in Key /\ flush.rest \in Seq(Key)
  BY <1>2
<1> QED
  BY <1>2, <1>3 DEF Sending, Taken

(* The first keys of the queue, all of them open, become the flush.        *)
LEMMA FlushResumes ==
  ASSUME WakeInvariant, Flush
  PROVE  WakeInvariant' /\ UNCHANGED <<acceptedOrder, acceptances, accepts>>
<1> DEFINE size == IF Len(pending) < MAX_SENDS_PER_FLUSH
                   THEN Len(pending) ELSE MAX_SENDS_PER_FLUSH
           rest == SubSeq(pending, 1, size)
           waiting == SubSeq(pending, size + 1, Len(pending))
           epochs == [all |-> suppressionEpoch, child |-> childSuppressionEpochs]
<1>1. /\ ~flushing /\ deliveries' = deliveries
      /\ RunOn(rest, epochs, waiting, attempts, fate)
  BY DEF Flush
<1>2. /\ pending \in Seq(Key) /\ IsInjective(pending) /\ Len(pending) \in Nat
      /\ DOMAIN pending = 1..Len(pending)
      /\ Counted /\ Epoched /\ eligible \subseteq Child
      /\ attempts \in [Key -> 0..MAX_SEND_RETRIES] /\ fate \in [Key -> Fate]
  BY DEF WakeInvariant, Queued
<1>3. size \in 0..Len(pending) /\ size + 1 \in 1..Len(pending) + 1
  BY <1>2, LimitsAssumption
<1> HIDE DEF size
<1>4. /\ rest \in Seq(Key) /\ IsInjective(rest)
      /\ ToSet(rest) = {pending[i] : i \in 1..size}
  <2>1. 1 \in 1..Len(pending) + 1
    BY <1>2
  <2> QED
    BY <1>2, <1>3, <2>1, PartFacts
<1>5. /\ waiting \in Seq(Key) /\ IsInjective(waiting)
      /\ ToSet(waiting) = {pending[i] : i \in size + 1..Len(pending)}
  <2>1. Len(pending) \in 0..Len(pending)
    BY <1>2
  <2>2. ASSUME NEW m \in 1..Len(pending) + 1, NEW n \in 0..Len(pending)
        PROVE  /\ SubSeq(pending, m, n) \in Seq(Key) /\ IsInjective(SubSeq(pending, m, n))
               /\ ToSet(SubSeq(pending, m, n)) = {pending[i] : i \in m..n}
    <3>1. pending \in Seq(Key) /\ IsInjective(pending)
      BY <1>2
    <3> QED
      BY <3>1, PartFacts
  <2> QED
    BY <1>3, <2>1, <2>2
<1> HIDE DEF rest, waiting
<1>6. /\ ToSet(rest) \subseteq ToSet(pending) /\ ToSet(waiting) \subseteq ToSet(pending)
      /\ ToSet(rest) \intersect ToSet(waiting) = {}
  <2>1. \A i, j \in 1..Len(pending) : pending[i] = pending[j] => i = j
    BY <1>2 DEF IsInjective
  <2>2. /\ \A i \in 1..size : i \in 1..Len(pending)
        /\ \A i \in size + 1..Len(pending) : i \in 1..Len(pending)
        /\ \A i \in 1..size, j \in size + 1..Len(pending) : i # j
    BY <1>2, <1>3
  <2>3. \A i \in 1..Len(pending) : pending[i] \in ToSet(pending)
    BY <1>2 DEF ToSet
  <2>4. ToSet(rest) \subseteq ToSet(pending)
    BY <1>4, <2>2, <2>3
  <2>5. ToSet(waiting) \subseteq ToSet(pending)
    BY <1>5, <2>2, <2>3
  <2>6. ToSet(rest) \intersect ToSet(waiting) = {}
    BY <1>4, <1>5, <2>1, <2>2
  <2> QED
    BY <2>4, <2>5, <2>6
<1>7. Seen(epochs)
  <2>1. /\ epochs \in Epochs
        /\ epochs.all = suppressionEpoch /\ epochs.child = childSuppressionEpochs
    BY <1>2 DEF Epoched, Epochs
  <2>2. /\ suppressionEpoch \in Nat
        /\ \A c \in Child : childSuppressionEpochs[c] \in Nat
    BY <1>2, LimitsAssumption DEF Epoched
  <2> HIDE DEF epochs
  <2> QED
    BY <2>1, <2>2 DEF Seen
<1>8. Sending = {} /\ Taken = {}
  BY <1>1 DEF Sending, Taken
<1>9. \A k \in ToSet(pending) : fate[k] = "queued"
  BY DEF WakeInvariant, NoVerdictYet
<1>10. ASSUME NEW k \in Key
       PROVE  sends[k] + Room(k \in ToSet(waiting), FALSE, k \in ToSet(rest),
                              ~suppressed(k, epochs), attempts[k]) <= Allowed(k)
  <2>1. /\ sends[k] \in Nat /\ Allowed(k) \in Nat /\ MAX_SEND_RETRIES \in Nat
        /\ attempts[k] \in 0..MAX_SEND_RETRIES
    BY <1>2, AllowedIsNat, LimitsAssumption
  <2>2. sends[k] + Room(k \in ToSet(pending), FALSE, FALSE, Open(k), attempts[k])
          <= Allowed(k)
    <3>1. sends[k] + SendsLeft(k) <= Allowed(k)
      BY DEF WakeInvariant, SendsAreCovered
    <3>2. (k \in Sending) = FALSE /\ (k \in Taken) = FALSE
      BY <1>8
    <3>3. SendsLeft(k) = Room(k \in ToSet(pending), FALSE, FALSE, Open(k), attempts[k])
      BY <3>2 DEF SendsLeft
    <3> QED
      BY <3>1, <3>3
  <2> DEFINE open == ~suppressed(k, epochs)
             openNow == Open(k)
  <2> HIDE DEF open, openNow
  <2>3. sends[k] + Room(k \in ToSet(pending), FALSE, FALSE, openNow, attempts[k])
          <= Allowed(k)
    BY <2>2 DEF openNow
  <2>4. sends[k] + Room(k \in ToSet(waiting), FALSE, k \in ToSet(rest), open, attempts[k])
          <= Allowed(k)
    BY <1>6, <2>1, <2>3 DEF Room
  <2> QED
    BY <2>4 DEF open
<1>11. ASSUME NEW k \in Key
       PROVE  deliveries'[k] + One(k \in ToSet(waiting)) + One(k \in ToSet(rest)) <= accepts[k]
  <2>1. deliveries[k] \in Nat /\ accepts[k] \in Nat
    BY <1>2 DEF Counted
  <2>2. deliveries[k] + One(k \in ToSet(pending)) + One(FALSE) <= accepts[k]
    BY <1>8 DEF WakeInvariant, DeliveriesAreCovered, One
  <2> QED
    BY <1>1, <1>6, <2>1, <2>2 DEF One
<1> HIDE DEF epochs
<1>12. Resumes(rest, epochs, waiting, attempts, fate)
  <2>1. deliveries' \in [Key -> Nat]
    BY <1>1, <1>2 DEF Counted
  <2> QED
    BY <1>2, <1>4, <1>5, <1>6, <1>7, <1>9, <1>10, <1>11, <2>1 DEF Resumes
<1> QED
  BY <1>1, <1>2, <1>12, RunOnKeeps

(* A send that succeeded counts for its acceptance.                        *)
LEMMA SuccessResumes ==
  ASSUME WakeInvariant, SendSucceeds
  PROVE  WakeInvariant' /\ UNCHANGED <<acceptedOrder, acceptances, accepts>>
<1> DEFINE n == flush.key
           tried == [attempts EXCEPT ![n] = 0]
           verdicts == IF n \in ToSet(pending) THEN fate
                       ELSE [fate EXCEPT ![n] = "delivered"]
<1>1. /\ flushing /\ RunOn(flush.rest, flush.epochs, pending, tried, verdicts)
      /\ deliveries' = [deliveries EXCEPT ![n] = @ + 1]
  BY DEF SendSucceeds
<1>2. /\ n \in Key /\ flush.rest \in Seq(Key) /\ IsInjective(flush.rest)
      /\ n \notin ToSet(flush.rest) /\ Seen(flush.epochs)
      /\ Sending = {n} /\ Taken = ToSet(flush.rest)
  BY <1>1, Running
<1> HIDE DEF n
<1>3. /\ pending \in Seq(Key) /\ IsInjective(pending)
      /\ Counted /\ Epoched /\ eligible \subseteq Child
      /\ attempts \in [Key -> 0..MAX_SEND_RETRIES] /\ fate \in [Key -> Fate]
      /\ MAX_SEND_RETRIES \in Nat
  BY LimitsAssumption DEF WakeInvariant, Queued
<1>4. tried \in [Key -> 0..MAX_SEND_RETRIES] /\ verdicts \in [Key -> Fate]
  <2>1. 0 \in 0..MAX_SEND_RETRIES /\ "delivered" \in Fate
    BY <1>3 DEF Fate
  <2>2. tried \in [Key -> 0..MAX_SEND_RETRIES]
    BY <1>3, <2>1
  <2>3. verdicts \in [Key -> Fate]
    BY <1>3, <2>1
  <2> QED
    BY <2>2, <2>3
<1>5. /\ \A k \in ToSet(pending) : verdicts[k] = "queued"
      /\ \A k \in ToSet(flush.rest) : ~suppressed(k, flush.epochs) => verdicts[k] = "queued"
  BY <1>2, <1>3, KeysOnly DEF WakeInvariant, NoVerdictYet
<1>6. ASSUME NEW k \in Key
      PROVE  sends[k] + Room(k \in ToSet(pending), FALSE, k \in ToSet(flush.rest),
                             ~suppressed(k, flush.epochs), tried[k]) <= Allowed(k)
  <2>1. /\ sends[k] \in Nat /\ Allowed(k) \in Nat
        /\ attempts[k] \in 0..MAX_SEND_RETRIES
        /\ tried[k] = IF k = n THEN 0 ELSE attempts[k]
        /\ k = n => k \notin ToSet(flush.rest)
    BY <1>2, <1>3, AllowedIsNat
  <2> DEFINE open == ~suppressed(k, flush.epochs)
  <2>2. sends[k] + Room(k \in ToSet(pending), k = n, k \in ToSet(flush.rest), open, attempts[k])
          <= Allowed(k)
    BY <1>2 DEF WakeInvariant, SendsAreCovered, SendsLeft, Open
  <2> HIDE DEF open
  <2>3. sends[k] + Room(k \in ToSet(pending), FALSE, k \in ToSet(flush.rest), open, tried[k])
          <= Allowed(k)
    BY <1>3, <2>1, <2>2 DEF Room
  <2> QED
    BY <2>3 DEF open
<1>7. ASSUME NEW k \in Key
      PROVE  deliveries'[k] + One(k \in ToSet(pending)) + One(k \in ToSet(flush.rest))
               <= accepts[k]
  <2>1. /\ deliveries[k] \in Nat /\ accepts[k] \in Nat
        /\ deliveries'[k] = IF k = n THEN deliveries[k] + 1 ELSE deliveries[k]
        /\ k = n => k \notin ToSet(flush.rest)
    BY <1>1, <1>2, <1>3 DEF Counted
  <2>2. deliveries[k] + One(k \in ToSet(pending)) + One(k \in {n} \union ToSet(flush.rest))
          <= accepts[k]
    BY <1>2 DEF WakeInvariant, DeliveriesAreCovered
  <2> QED
    BY <2>1, <2>2 DEF One
<1>8. deliveries' \in [Key -> Nat]
  BY <1>1, <1>2, <1>3 DEF Counted
<1> HIDE DEF tried, verdicts
<1>9. Resumes(flush.rest, flush.epochs, pending, tried, verdicts)
  BY <1>2, <1>3, <1>4, <1>5, <1>6, <1>7, <1>8 DEF Resumes
<1> QED
  BY <1>1, <1>3, <1>9, RunOnKeeps

(* A send that failed is tried again in its own place, or given up.        *)
LEMMA FailureResumes ==
  ASSUME WakeInvariant, SendFails
  PROVE  WakeInvariant' /\ UNCHANGED <<acceptedOrder, acceptances, accepts>>
<1> DEFINE n == flush.key
           failures == attempts[n] + 1
           again == ~suppressed(n, flush.epochs) /\ mayRetry(failures)
           waiting == IF again /\ n \notin ToSet(pending) THEN Append(pending, n)
                                                          ELSE pending
           tried == [attempts EXCEPT ![n] = IF again THEN failures ELSE 0]
           verdicts == IF again \/ n \in ToSet(pending) \/ fate[n] # "queued" THEN fate
                       ELSE [fate EXCEPT ![n] = "failed"]
<1>1. /\ flushing /\ RunOn(flush.rest, flush.epochs, waiting, tried, verdicts)
      /\ deliveries' = deliveries
  BY DEF SendFails
<1>2. /\ n \in Key /\ flush.rest \in Seq(Key) /\ IsInjective(flush.rest)
      /\ n \notin ToSet(flush.rest) /\ Seen(flush.epochs)
      /\ Sending = {n} /\ Taken = ToSet(flush.rest)
  BY <1>1, Running
<1> HIDE DEF n
<1>3. /\ pending \in Seq(Key) /\ IsInjective(pending)
      /\ Counted /\ Epoched /\ eligible \subseteq Child
      /\ attempts \in [Key -> 0..MAX_SEND_RETRIES] /\ fate \in [Key -> Fate]
      /\ MAX_SEND_RETRIES \in Nat
  BY LimitsAssumption DEF WakeInvariant, Queued
<1>4. /\ attempts[n] \in 0..MAX_SEND_RETRIES /\ failures = attempts[n] + 1
      /\ again => /\ ~suppressed(n, flush.epochs)
                  /\ failures <= MAX_SEND_RETRIES
                  /\ fate[n] = "queued"
  BY <1>2, <1>3 DEF mayRetry, WakeInvariant, NoVerdictYet
<1> HIDE DEF again, failures
<1>5. tried \in [Key -> 0..MAX_SEND_RETRIES] /\ verdicts \in [Key -> Fate]
  <2>1. (IF again THEN failures ELSE 0) \in 0..MAX_SEND_RETRIES
    BY <1>3, <1>4
  <2> QED
    BY <1>3, <2>1 DEF Fate
<1>6. /\ waiting \in Seq(Key) /\ IsInjective(waiting)
      /\ ToSet(waiting) = ToSet(pending) \union (IF again THEN {n} ELSE {})
  <2>1. CASE again /\ n \notin ToSet(pending)
    BY <1>2, <1>3, <2>1, AppendFacts
  <2>2. CASE ~(again /\ n \notin ToSet(pending))
    BY <1>3, <2>2
  <2> QED
    BY <2>1, <2>2
<1>7. /\ \A k \in ToSet(waiting) : verdicts[k] = "queued"
      /\ \A k \in ToSet(flush.rest) : ~suppressed(k, flush.epochs) => verdicts[k] = "queued"
  <2>1. /\ \A k \in ToSet(pending) : fate[k] = "queued"
        /\ \A k \in ToSet(flush.rest) : ~suppressed(k, flush.epochs) => fate[k] = "queued"
    BY <1>2 DEF WakeInvariant, NoVerdictYet
  <2>2. \A k \in ToSet(pending) \union ToSet(flush.rest) : k \in Key
    BY <1>2, <1>3, KeysOnly
  <2>3. /\ \A k \in ToSet(pending) \union ToSet(flush.rest) : verdicts[k] = fate[k]
        /\ again => verdicts[n] = fate[n]
    BY <1>2, <1>3, <2>2
  <2> QED
    BY <1>4, <1>6, <2>1, <2>3
<1>8. ASSUME NEW k \in Key
      PROVE  sends[k] + Room(k \in ToSet(waiting), FALSE, k \in ToSet(flush.rest),
                             ~suppressed(k, flush.epochs), tried[k]) <= Allowed(k)
  <2>1. /\ sends[k] \in Nat /\ Allowed(k) \in Nat
        /\ attempts[k] \in 0..MAX_SEND_RETRIES
        /\ tried[k] = IF k = n THEN IF again THEN failures ELSE 0 ELSE attempts[k]
        /\ k = n => k \notin ToSet(flush.rest)
    BY <1>2, <1>3, AllowedIsNat
  <2> DEFINE open == ~suppressed(k, flush.epochs)
             queued == k \in ToSet(pending)
             taken == k \in ToSet(flush.rest)
             a == attempts[k]
  <2>2. sends[k] + Room(queued, k = n, taken, open, a) <= Allowed(k)
    BY <1>2 DEF WakeInvariant, SendsAreCovered, SendsLeft, Open
  <2>3. /\ k = n => ~taken
        /\ k = n /\ again => open /\ failures <= MAX_SEND_RETRIES /\ failures = a + 1
        /\ k \in ToSet(waiting) <=> queued \/ (k = n /\ again)
        /\ a \in 0..MAX_SEND_RETRIES
    BY <1>4, <1>6, <2>1
  <2> HIDE DEF open, queued, taken, a, waiting
  <2>4. CASE k # n
    <3>1. tried[k] = a
      BY <2>1, <2>4 DEF a
    <3>2. k \in ToSet(waiting) <=> queued
      BY <2>3, <2>4
    <3>3. sends[k] + Room(queued, FALSE, taken, open, a) <= Allowed(k)
      BY <2>2, <2>4 DEF Room
    <3>4. sends[k] + Room(k \in ToSet(waiting), FALSE, taken, open, a) <= Allowed(k)
      BY <3>2, <3>3 DEF Room
    <3> QED
      BY <3>1, <3>4 DEF open, taken
  <2>5. CASE k = n /\ again
    <3>1. /\ tried[k] = a + 1 /\ a + 1 <= MAX_SEND_RETRIES
          /\ k \in ToSet(waiting) /\ ~taken /\ open
      BY <2>1, <2>3, <2>5
    <3>2. sends[k] + Room(queued, TRUE, FALSE, TRUE, a) <= Allowed(k)
      BY <2>2, <2>5, <3>1 DEF Room
    <3>3. sends[k] + Room(TRUE, FALSE, FALSE, TRUE, a + 1) <= Allowed(k)
      BY <1>3, <2>1, <2>3, <3>1, <3>2 DEF Room
    <3> QED
      BY <3>1, <3>3 DEF open, taken, Room
  <2>6. CASE k = n /\ ~again
    <3>1. tried[k] = 0 /\ ~taken
      BY <2>1, <2>3, <2>6
    <3>4. k \in ToSet(waiting) <=> queued
      BY <2>3, <2>6
    <3>2. sends[k] + Room(queued, TRUE, FALSE, open, a) <= Allowed(k)
      BY <2>2, <2>6, <3>1 DEF Room
    <3>3. sends[k] + Room(queued, FALSE, FALSE, open, 0) <= Allowed(k)
      BY <1>3, <2>1, <2>3, <3>2 DEF Room
    <3>5. sends[k] + Room(k \in ToSet(waiting), FALSE, taken, open, 0) <= Allowed(k)
      BY <3>1, <3>3, <3>4 DEF Room
    <3> QED
      BY <3>1, <3>5 DEF open, taken
  <2> QED
    BY <2>4, <2>5, <2>6
<1>9. ASSUME NEW k \in Key
      PROVE  deliveries'[k] + One(k \in ToSet(waiting)) + One(k \in ToSet(flush.rest))
               <= accepts[k]
  <2>1. /\ deliveries[k] \in Nat /\ accepts[k] \in Nat
        /\ deliveries'[k] = deliveries[k]
        /\ k = n => k \notin ToSet(flush.rest)
        /\ k \in ToSet(waiting) => k \in ToSet(pending) \/ k = n
    BY <1>1, <1>2, <1>3, <1>6 DEF Counted
  <2>2. deliveries[k] + One(k \in ToSet(pending)) + One(k \in {n} \union ToSet(flush.rest))
          <= accepts[k]
    BY <1>2 DEF WakeInvariant, DeliveriesAreCovered
  <2> HIDE DEF waiting
  <2> QED
    BY <2>1, <2>2 DEF One
<1>10. deliveries' \in [Key -> Nat]
  BY <1>1, <1>3 DEF Counted
<1> HIDE DEF tried, verdicts, waiting
<1>11. Resumes(flush.rest, flush.epochs, waiting, tried, verdicts)
  BY <1>2, <1>3, <1>5, <1>6, <1>7, <1>8, <1>9, <1>10 DEF Resumes
<1> QED
  BY <1>1, <1>3, <1>11, RunOnKeeps

-----------------------------------------------------------------------------
(***************************************************************************)
(* The steps that do not belong to a flush.                                *)
(***************************************************************************)

(* The flush and its epochs stay; what of them is suppressed stays so.     *)
LEMMA FlushStays ==
  ASSUME WakeInvariant, flush' = flush
  PROVE  Sending' = Sending /\ Taken' = Taken
BY DEF Sending, Taken, flushing

(* An accepted stop brings its own wake and its own retries.               *)
LEMMA QueueKeeps ==
  ASSUME WakeInvariant, Queue
  PROVE  WakeInvariant'
<1>1. PICK r \in Input :
        /\ KeyOf(r) \notin ToSet(acceptedOrder)
        /\ acceptances' = acceptances + 1
        /\ pending' = IF KeyOf(r) \in ToSet(pending) THEN pending
                                                     ELSE Append(pending, KeyOf(r))
        /\ timer' = schedule
        /\ accepts' = [accepts EXCEPT ![KeyOf(r)] = @ + 1]
        /\ fate' = [fate EXCEPT ![KeyOf(r)] = "queued"]
        /\ UNCHANGED <<attempts, epochVars, flush, eligible, sends, deliveries>>
  BY DEF Queue
<1> DEFINE n == KeyOf(r)
<1>2. n \in Key
  BY DEF Key
<1> HIDE DEF n
<1>3. /\ pending' = IF n \in ToSet(pending) THEN pending ELSE Append(pending, n)
      /\ timer' = schedule
      /\ acceptances' = acceptances + 1
      /\ accepts' = [accepts EXCEPT ![n] = @ + 1]
      /\ fate' = [fate EXCEPT ![n] = "queued"]
      /\ UNCHANGED <<attempts, epochVars, flush, eligible, sends, deliveries>>
  BY <1>1 DEF n
<1>4. /\ pending \in Seq(Key) /\ IsInjective(pending)
      /\ Counted /\ Epoched /\ eligible \subseteq Child
      /\ attempts \in [Key -> 0..MAX_SEND_RETRIES] /\ fate \in [Key -> Fate]
      /\ MAX_SEND_RETRIES \in Nat
  BY LimitsAssumption DEF WakeInvariant, Queued
<1>5. /\ pending' \in Seq(Key) /\ IsInjective(pending')
      /\ ToSet(pending') = ToSet(pending) \union {n}
  BY <1>2, <1>3, <1>4, AppendFacts
<1>6. Sending' = Sending /\ Taken' = Taken
  BY <1>3, FlushStays
<1>7. \A k : suppressed(k, flush.epochs)' = suppressed(k, flush.epochs)
  BY <1>3 DEF suppressed, epochVars
<1>8. Queued'
  <2>1. fate' \in [Key -> Fate]
    BY <1>3, <1>4 DEF Fate
  <2>2. timer' \in BOOLEAN
    BY <1>3 DEF schedule
  <2> QED
    BY <1>3, <1>4, <1>5, <2>1, <2>2 DEF Queued
<1>9. Epoched' /\ InFlush' /\ Counted'
  <2>1. Epoched'
    BY <1>3, <1>4 DEF Epoched, epochVars
  <2>2. InFlush'
    BY <1>3 DEF WakeInvariant, InFlush, Seen, epochVars
  <2>3. Counted'
    BY <1>2, <1>3, <1>4 DEF Counted
  <2> QED
    BY <2>1, <2>2, <2>3
<1>10. NoVerdictYet'
  <2>1. \A k \in Key : fate[k] = "queued" => fate'[k] = "queued"
    BY <1>3, <1>4
  <2>2. fate'[n] = "queued"
    BY <1>2, <1>3, <1>4
  <2>3. Sending \union Taken \subseteq Key
    BY Running, KeysOnly DEF Sending, Taken
  <2>4. ToSet(pending) \subseteq Key
    BY <1>4, KeysOnly
  <2>5. /\ \A k \in ToSet(pending) : fate[k] = "queued"
        /\ \A k \in Sending \union Taken :
             ~suppressed(k, flush.epochs) => fate[k] = "queued"
    BY DEF WakeInvariant, NoVerdictYet
  <2>6. \A k \in ToSet(pending') : fate'[k] = "queued"
    BY <1>5, <2>1, <2>2, <2>4, <2>5
  <2> QED
    BY <1>6, <1>7, <2>1, <2>3, <2>5, <2>6 DEF NoVerdictYet
<1>11. SendsAreCovered'
  <2>1. SUFFICES ASSUME NEW k \in Key
                 PROVE  sends'[k] + SendsLeft(k)' <= Allowed(k)'
    BY DEF SendsAreCovered
  <2> DEFINE open == Open(k)
             sending == k \in Sending
             taken == k \in Taken
             queued == k \in ToSet(pending)
             a == attempts[k]
  <2>2. /\ sends[k] \in Nat /\ Allowed(k) \in Nat /\ a \in 0..MAX_SEND_RETRIES
        /\ sends'[k] = sends[k]
    BY <1>3, <1>4, AllowedIsNat
  <2>3. sends[k] + Room(queued, sending, taken, open, a) <= Allowed(k)
    BY DEF WakeInvariant, SendsAreCovered, SendsLeft
  <2>4. SendsLeft(k)' = Room(k \in ToSet(pending'), sending, taken, open, a)
    BY <1>3, <1>6, <1>7 DEF SendsLeft, Open
  <2>5. k # n => Allowed(k)' = Allowed(k) /\ (k \in ToSet(pending') <=> queued)
    BY <1>2, <1>3, <1>4, <1>5 DEF Allowed, Counted
  <2>6. k = n => Allowed(k)' = Allowed(k) + (1 + MAX_SEND_RETRIES) /\ k \in ToSet(pending')
    <3>1. SUFFICES ASSUME k = n
                   PROVE  Allowed(k)' = Allowed(k) + (1 + MAX_SEND_RETRIES)
      BY <1>5
    <3>2. accepts'[k] = accepts[k] + 1 /\ accepts[k] \in Nat
      BY <1>2, <1>3, <1>4, <3>1 DEF Counted
    <3>3. \A x \in Nat : (x + 1) * (1 + MAX_SEND_RETRIES)
                           = x * (1 + MAX_SEND_RETRIES) + (1 + MAX_SEND_RETRIES)
      BY <1>4
    <3> QED
      BY <3>2, <3>3 DEF Allowed
  <2>7. sending => ~taken
    BY Running DEF Sending, Taken
  <2> HIDE DEF open, sending, taken, queued, a
  <2>8. CASE k # n
    <3>1. Room(k \in ToSet(pending'), sending, taken, open, a)
            = Room(queued, sending, taken, open, a)
      BY <2>5, <2>8 DEF Room
    <3> QED
      BY <2>2, <2>3, <2>4, <2>5, <2>8, <3>1
  <2>9. CASE k = n
    <3>1. SendsLeft(k)' = Room(TRUE, sending, taken, open, a)
      BY <2>4, <2>6, <2>9 DEF Room
    <3>2. Allowed(k)' = Allowed(k) + (1 + MAX_SEND_RETRIES)
      BY <2>6, <2>9
    <3> QED
      BY <1>4, <2>2, <2>3, <2>7, <3>1, <3>2, SMTT(30) DEF Room
  <2> QED
    BY <2>8, <2>9
<1>12. DeliveriesAreCovered'
  <2>1. SUFFICES ASSUME NEW k \in Key
                 PROVE  deliveries'[k] + One(k \in ToSet(pending'))
                          + One(k \in Sending \union Taken) <= accepts'[k]
    BY <1>6 DEF DeliveriesAreCovered
  <2>2. /\ deliveries[k] \in Nat /\ accepts[k] \in Nat
        /\ deliveries'[k] = deliveries[k]
        /\ accepts'[k] = IF k = n THEN accepts[k] + 1 ELSE accepts[k]
        /\ k # n => (k \in ToSet(pending') <=> k \in ToSet(pending))
    BY <1>2, <1>3, <1>4, <1>5 DEF Counted
  <2>3. deliveries[k] + One(k \in ToSet(pending)) + One(k \in Sending \union Taken)
          <= accepts[k]
    BY DEF WakeInvariant, DeliveriesAreCovered
  <2> QED
    BY <2>2, <2>3 DEF One
<1> QED
  BY <1>8, <1>9, <1>10, <1>11, <1>12 DEF WakeInvariant

(* A suppression: fewer keys wait, and the others it meant are suppressed. *)
LEMMA SuppressionKeeps ==
  ASSUME WakeInvariant, Epoched',
         pending' \in Seq(Key), IsInjective(pending'),
         timer' \in BOOLEAN,
         NEW meant \in SUBSET Key, Withhold(meant),
         \A k \in ToSet(pending') : k \in ToSet(pending) /\ k \notin meant,
         attempts' \in [Key -> 0..MAX_SEND_RETRIES],
         \A k \in ToSet(pending') : attempts'[k] = attempts[k],
         \A k \in Key : attempts'[k] # attempts[k] => k \in meant,
         suppressionEpoch' >= suppressionEpoch,
         \A c \in Child : childSuppressionEpochs'[c] >= childSuppressionEpochs[c],
         \A k \in meant : \/ suppressionEpoch' > suppressionEpoch
                          \/ childSuppressionEpochs'[ChildOf(k)]
                               > childSuppressionEpochs[ChildOf(k)],
         UNCHANGED <<flush, eligible, counts>>
  PROVE  WakeInvariant'
<1>1. /\ Counted /\ Epoched /\ eligible \subseteq Child
      /\ attempts \in [Key -> 0..MAX_SEND_RETRIES] /\ fate \in [Key -> Fate]
      /\ MAX_SEND_RETRIES \in Nat /\ MaxEpoch \in Nat
  BY LimitsAssumption DEF WakeInvariant, Queued
<1>2. Queued'
  <2>1. fate' \in [Key -> Fate]
    BY <1>1 DEF Withhold, Fate
  <2> QED
    BY <1>1, <2>1 DEF Queued
<1>3. Counted'
  BY <1>1 DEF Counted, counts
<1>4. Sending' = Sending /\ Taken' = Taken
  BY FlushStays
<1>5. Sending \union Taken \subseteq Key /\ (\A k \in Sending : k \notin Taken)
  BY Running, KeysOnly DEF Sending, Taken
<1>6. /\ suppressionEpoch \in Nat /\ suppressionEpoch' \in Nat
      /\ \A c \in Child : /\ childSuppressionEpochs[c] \in Nat
                          /\ childSuppressionEpochs'[c] \in Nat
  BY <1>1 DEF Epoched
<1>7. ASSUME flushing
      PROVE  /\ Seen(flush.epochs) /\ flush.epochs.all \in Nat
             /\ \A c \in Child : flush.epochs.child[c] \in Nat
  <2>1. Seen(flush.epochs)
    BY <1>7, Running
  <2> QED
    BY <1>1, <2>1 DEF Seen, Epochs
<1>8. InFlush'
  <2>1. CASE flush = NoFlush
    BY <2>1 DEF InFlush
  <2>2. CASE flush # NoFlush
    <3>1. /\ flush \in [sending : {TRUE}, key : Key, rest : Seq(Key), epochs : Epochs]
          /\ IsInjective(flush.rest) /\ flush.key \notin ToSet(flush.rest)
          /\ Seen(flush.epochs)
      BY <2>2 DEF WakeInvariant, InFlush
    <3>2. flushing
      BY <3>1 DEF flushing
    <3>3. Seen(flush.epochs)'
      BY <1>6, <1>7, <3>2 DEF Seen
    <3> QED
      BY <3>1, <3>3 DEF InFlush
  <2> QED
    BY <2>1, <2>2
<1>9. ASSUME flushing, NEW k \in Key, ~suppressed(k, flush.epochs)'
      PROVE  ~suppressed(k, flush.epochs) /\ k \notin meant
  <2>1. /\ suppressionEpoch' = flush.epochs.all
        /\ childSuppressionEpochs'[ChildOf(k)] = flush.epochs.child[ChildOf(k)]
    BY <1>9 DEF suppressed
  <2>2. /\ suppressionEpoch >= flush.epochs.all
        /\ childSuppressionEpochs[ChildOf(k)] >= flush.epochs.child[ChildOf(k)]
    BY <1>6, <1>7, <1>9, ChildOfKey DEF Seen
  <2>3. /\ suppressionEpoch = suppressionEpoch'
        /\ childSuppressionEpochs[ChildOf(k)] = childSuppressionEpochs'[ChildOf(k)]
    BY <1>6, <1>7, <1>9, <2>1, <2>2, ChildOfKey
  <2>4. k \notin meant
    BY <1>6, <2>3, ChildOfKey
  <2> QED
    BY <2>1, <2>3, <2>4 DEF suppressed
<1>10. \A k \in Key : k \notin meant => fate'[k] = fate[k]
  BY DEF Withhold
<1>11. NoVerdictYet'
  <2>1. \A k \in ToSet(pending') : fate'[k] = "queued"
    BY <1>10, KeysOnly DEF WakeInvariant, NoVerdictYet
  <2>2. ASSUME NEW k \in Sending \union Taken, ~suppressed(k, flush.epochs)'
        PROVE  fate'[k] = "queued"
    <3>1. flushing /\ k \in Key
      BY <1>5 DEF Sending, Taken
    <3> QED
      BY <1>9, <1>10, <2>2, <3>1 DEF WakeInvariant, NoVerdictYet
  <2> QED
    BY <1>4, <2>1, <2>2 DEF NoVerdictYet
<1>12. SendsAreCovered'
  <2>1. SUFFICES ASSUME NEW k \in Key
                 PROVE  sends'[k] + SendsLeft(k)' <= Allowed(k)'
    BY DEF SendsAreCovered
  <2> DEFINE open == Open(k)
             openThen == ~suppressed(k, flush.epochs)'
             sending == k \in Sending
             taken == k \in Taken
             queued == k \in ToSet(pending)
             queuedThen == k \in ToSet(pending')
             a == attempts[k]
             aThen == attempts'[k]
  <2>2. /\ sends[k] \in Nat /\ Allowed(k) \in Nat /\ a \in 0..MAX_SEND_RETRIES
        /\ aThen \in 0..MAX_SEND_RETRIES
        /\ sends'[k] = sends[k] /\ Allowed(k)' = Allowed(k)
    BY <1>1, AllowedIsNat DEF counts, Allowed
  <2>3. sends[k] + Room(queued, sending, taken, open, a) <= Allowed(k)
    BY DEF WakeInvariant, SendsAreCovered, SendsLeft
  <2>4. SendsLeft(k)' = Room(queuedThen, sending, taken, openThen, aThen)
    BY <1>4 DEF SendsLeft, Open
  <2>5. queuedThen => queued /\ aThen = a
    OBVIOUS
  <2>6. (sending \/ taken) /\ openThen => open /\ aThen = a
    <3>1. SUFFICES ASSUME sending \/ taken, openThen
                   PROVE  open /\ k \notin meant
      OBVIOUS
    <3>2. flushing
      BY <3>1 DEF Sending, Taken
    <3> QED
      BY <1>9, <3>1, <3>2 DEF Open
  <2>7. sending => ~taken
    BY <1>5
  <2> HIDE DEF open, openThen, sending, taken, queued, queuedThen, a, aThen
  <2>8. Room(queuedThen, sending, taken, openThen, aThen)
          <= Room(queued, sending, taken, open, a)
    BY <1>1, <2>2, <2>5, <2>6, <2>7 DEF Room
  <2>9. /\ Room(queuedThen, sending, taken, openThen, aThen) \in Nat
        /\ Room(queued, sending, taken, open, a) \in Nat
    BY <1>1, <2>2 DEF Room
  <2> QED
    BY <2>2, <2>3, <2>4, <2>8, <2>9
<1>13. DeliveriesAreCovered'
  <2>1. SUFFICES ASSUME NEW k \in Key
                 PROVE  deliveries'[k] + One(k \in ToSet(pending'))
                          + One(k \in Sending \union Taken) <= accepts'[k]
    BY <1>4 DEF DeliveriesAreCovered
  <2>2. /\ deliveries[k] \in Nat /\ accepts[k] \in Nat
        /\ deliveries'[k] = deliveries[k] /\ accepts'[k] = accepts[k]
    BY <1>1 DEF Counted, counts
  <2>3. deliveries[k] + One(k \in ToSet(pending)) + One(k \in Sending \union Taken)
          <= accepts[k]
    BY DEF WakeInvariant, DeliveriesAreCovered
  <2> QED
    BY <2>2, <2>3 DEF One
<1> QED
  BY <1>2, <1>3, <1>8, <1>11, <1>12, <1>13 DEF WakeInvariant

(* The keys of one child are meant.                                        *)
LEMMA SuppressChildKeeps ==
  ASSUME WakeInvariant, NEW c \in Child, suppressChild(c)
  PROVE  WakeInvariant'
<1> DEFINE ofChild == {k \in Key : ChildOf(k) = c}
           dropped == ToSet(pending) \intersect ofChild
<1>1. /\ childSuppressionEpochs[c] < MaxEpoch
      /\ childSuppressionEpochs' = [childSuppressionEpochs EXCEPT ![c] = @ + 1]
      /\ pending' = WithoutChild(pending, c)
      /\ attempts' = [k \in Key |-> IF k \in dropped THEN 0 ELSE attempts[k]]
      /\ Withhold(ofChild)
      /\ UNCHANGED <<suppressionEpoch, timer, flush, eligible, counts>>
  BY DEF suppressChild
<1>2. /\ pending \in Seq(Key) /\ IsInjective(pending) /\ timer \in BOOLEAN
      /\ attempts \in [Key -> 0..MAX_SEND_RETRIES]
      /\ suppressionEpoch \in 0..MaxEpoch
      /\ childSuppressionEpochs \in [Child -> 0..MaxEpoch]
      /\ MAX_SEND_RETRIES \in Nat /\ MaxEpoch \in Nat
  BY LimitsAssumption DEF WakeInvariant, Queued, Epoched
<1>3. /\ pending' \in Seq(Key) /\ IsInjective(pending')
      /\ \A k \in ToSet(pending') : k \in ToSet(pending) /\ ChildOf(k) # c
  BY <1>1, <1>2, WithoutChildFacts
<1>4. ToSet(pending') \subseteq Key
  BY <1>3, KeysOnly
<1>5. /\ \A k \in ToSet(pending') : k \notin ofChild /\ k \notin dropped /\ k \in Key
      /\ \A k \in Key : k \in dropped => k \in ofChild
      /\ \A k \in ofChild : k \in Key /\ ChildOf(k) = c
  BY <1>3, <1>4
<1> HIDE DEF dropped, ofChild
<1>6. Epoched'
  <2>1. childSuppressionEpochs[c] + 1 \in 0..MaxEpoch
    BY <1>1, <1>2
  <2> QED
    BY <1>1, <1>2, <2>1 DEF Epoched
<1>7. /\ \A d \in Child : childSuppressionEpochs'[d] >= childSuppressionEpochs[d]
      /\ childSuppressionEpochs'[c] > childSuppressionEpochs[c]
      /\ suppressionEpoch' >= suppressionEpoch
  BY <1>1, <1>2
<1>8. /\ attempts' \in [Key -> 0..MAX_SEND_RETRIES]
      /\ \A k \in Key : attempts'[k] = IF k \in dropped THEN 0 ELSE attempts[k]
  BY <1>1, <1>2
<1>9. ofChild \in SUBSET Key
  BY DEF ofChild
<1>10. /\ \A k \in ToSet(pending') : k \in ToSet(pending) /\ k \notin ofChild
       /\ \A k \in ToSet(pending') : attempts'[k] = attempts[k]
       /\ \A k \in Key : attempts'[k] # attempts[k] => k \in ofChild
  BY <1>3, <1>5, <1>8
<1>11. \A k \in ofChild : childSuppressionEpochs'[ChildOf(k)] > childSuppressionEpochs[ChildOf(k)]
  BY <1>5, <1>7
<1> QED
  BY <1>1, <1>2, <1>3, <1>6, <1>7, <1>8, <1>9, <1>10, <1>11, SuppressionKeeps

(* Every key is meant.                                                     *)
LEMMA SuppressAllKeeps ==
  ASSUME WakeInvariant, suppressAll
  PROVE  WakeInvariant'
<1>1. /\ suppressionEpoch < MaxEpoch
      /\ suppressionEpoch' = suppressionEpoch + 1
      /\ pending' = << >> /\ timer' = FALSE
      /\ attempts' = [k \in Key |-> 0]
      /\ Withhold(Key)
      /\ UNCHANGED <<childSuppressionEpochs, flush, eligible, counts>>
  BY DEF suppressAll
<1>2. /\ suppressionEpoch \in 0..MaxEpoch
      /\ childSuppressionEpochs \in [Child -> 0..MaxEpoch]
      /\ MAX_SEND_RETRIES \in Nat /\ MaxEpoch \in Nat
  BY LimitsAssumption DEF WakeInvariant, Epoched
<1>3. /\ pending' \in Seq(Key) /\ IsInjective(pending') /\ ToSet(pending') = {}
  BY <1>1 DEF IsInjective, ToSet
<1>4. Epoched'
  BY <1>1, <1>2 DEF Epoched
<1>5. /\ suppressionEpoch' >= suppressionEpoch /\ suppressionEpoch' > suppressionEpoch
      /\ \A d \in Child : childSuppressionEpochs'[d] >= childSuppressionEpochs[d]
  BY <1>1, <1>2
<1>6. attempts' \in [Key -> 0..MAX_SEND_RETRIES]
  BY <1>1, <1>2
<1>7. timer' \in BOOLEAN
  BY <1>1
<1> QED
  BY <1>1, <1>3, <1>4, <1>5, <1>6, <1>7, SuppressionKeeps

(* Nothing but who may be woken changes.                                   *)
LEMMA NoKeyMoves ==
  ASSUME WakeInvariant, eligible' \subseteq Child,
         UNCHANGED <<queueVars, epochVars, flush, counts, fate>>
  PROVE  WakeInvariant'
<1>1. /\ Queued' /\ Epoched' /\ InFlush' /\ Counted'
      /\ Sending' = Sending /\ Taken' = Taken
  BY FlushStays DEF WakeInvariant, Queued, Epoched, InFlush, Counted, Seen,
                    queueVars, epochVars, counts
<1>2. \A k : suppressed(k, flush.epochs)' = suppressed(k, flush.epochs)
  BY DEF suppressed, epochVars
<1>3. NoVerdictYet'
  BY <1>1, <1>2 DEF WakeInvariant, NoVerdictYet, queueVars
<1>4. SendsAreCovered'
  BY <1>1, <1>2 DEF WakeInvariant, SendsAreCovered, SendsLeft, Open, Allowed,
                    queueVars, counts
<1>5. DeliveriesAreCovered'
  BY <1>1 DEF WakeInvariant, DeliveriesAreCovered, queueVars, counts
<1> QED
  BY <1>1, <1>3, <1>4, <1>5 DEF WakeInvariant

(* At first nothing waits and nothing was sent.                            *)
LEMMA InitWakes == Init => WakeInvariant
<1> SUFFICES ASSUME Init PROVE WakeInvariant
  OBVIOUS
<1>1. /\ pending = << >> /\ timer = FALSE /\ flush = NoFlush
      /\ attempts = [k \in Key |-> 0] /\ fate = [k \in Key |-> "none"]
      /\ suppressionEpoch = 0 /\ childSuppressionEpochs = [c \in Child |-> 0]
      /\ eligible = Child /\ acceptances = 0
      /\ accepts = [k \in Key |-> 0] /\ sends = [k \in Key |-> 0]
      /\ deliveries = [k \in Key |-> 0]
      /\ MAX_SEND_RETRIES \in Nat /\ MaxEpoch \in Nat
  BY LimitsAssumption DEF Init
<1>2. ToSet(pending) = {} /\ Sending = {} /\ Taken = {}
  BY <1>1 DEF ToSet, Sending, Taken, flushing, NoFlush
<1>3. Queued
  <2>1. pending \in Seq(Key) /\ IsInjective(pending)
    BY <1>1 DEF IsInjective
  <2>2. /\ attempts \in [Key -> 0..MAX_SEND_RETRIES]
        /\ timer \in BOOLEAN /\ eligible \subseteq Child
    <3>1. 0 \in 0..MAX_SEND_RETRIES
      BY <1>1
    <3>2. attempts \in [Key -> 0..MAX_SEND_RETRIES]
      BY <1>1, <3>1
    <3> QED
      BY <1>1, <3>2
  <2>3. fate \in [Key -> Fate]
    BY <1>1 DEF Fate
  <2> QED
    BY <2>1, <2>2, <2>3 DEF Queued
<1>4. Epoched /\ InFlush
  BY <1>1 DEF Epoched, InFlush
<1>5. Counted
  BY <1>1 DEF Counted
<1>6. NoVerdictYet
  BY <1>2 DEF NoVerdictYet
<1>7. SendsAreCovered
  <2>1. SUFFICES ASSUME NEW k \in Key
                 PROVE  sends[k] + SendsLeft(k) <= Allowed(k)
    BY DEF SendsAreCovered
  <2>2. SendsLeft(k) = 0
    BY <1>2 DEF SendsLeft, Room
  <2>3. Allowed(k) = 0 /\ sends[k] = 0
    <3>1. accepts[k] = 0 /\ sends[k] = 0 /\ 0 * (1 + MAX_SEND_RETRIES) = 0
      BY <1>1
    <3> QED
      BY <3>1 DEF Allowed
  <2> QED
    BY <2>2, <2>3
<1>8. DeliveriesAreCovered
  BY <1>1, <1>2 DEF DeliveriesAreCovered, One
<1> QED
  BY <1>3, <1>4, <1>5, <1>6, <1>7, <1>8 DEF WakeInvariant

(* One step for each action. *)
LEMMA WakesKeep ==
  ASSUME WakeInvariant, [Next]_vars
  PROVE  WakeInvariant'
<1>1. CASE Queue
  BY <1>1, QueueKeeps
<1>2. ASSUME NEW c \in Child, suppressChild(c)
      PROVE  WakeInvariant'
  BY <1>2, SuppressChildKeeps
<1>3. CASE suppressAll
  BY <1>3, SuppressAllKeeps
<1>4. CASE LoseEligibility
  <2>1. eligible \subseteq Child
    BY DEF WakeInvariant, Queued
  <2> QED
    BY <1>4, <2>1, NoKeyMoves DEF LoseEligibility
<1>5. CASE Flush \/ SendSucceeds \/ SendFails
  BY <1>5, FlushResumes, SuccessResumes, FailureResumes
<1>6. CASE UNCHANGED vars
  <2>1. eligible \subseteq Child
    BY DEF WakeInvariant, Queued
  <2> QED
    BY <1>6, <2>1, NoKeyMoves DEF vars
<1> QED
  BY <1>1, <1>2, <1>3, <1>4, <1>5, <1>6 DEF Next

(* So the invariant holds always.                                          *)
LEMMA WakeInvariantHolds == Spec => []WakeInvariant
  BY InitWakes, WakesKeep, PTL DEF Spec

-----------------------------------------------------------------------------
(***************************************************************************)
(* The bounded memory of accepted keys.  A key that is remembered was last  *)
(* accepted before all that stand behind it; of one that was forgotten,     *)
(* every acceptance was followed by MAX_ACCEPTED_KEYS others.               *)
(***************************************************************************)
Others(k) == acceptances - accepts[k]
Owed(k) == (accepts[k] - 1) * MAX_ACCEPTED_KEYS

Remembered ==
  /\ acceptances \in Nat
  /\ accepts \in [Key -> Nat]
  /\ acceptedOrder \in Seq(Key) /\ IsInjective(acceptedOrder)
  /\ Len(acceptedOrder) <= MAX_ACCEPTED_KEYS
  /\ \A k \in Key \ ToSet(acceptedOrder) : Owed(k) + MAX_ACCEPTED_KEYS <= Others(k)
  /\ \A i \in 1..Len(acceptedOrder), k \in Key :
       k = acceptedOrder[i] => Owed(k) + Len(acceptedOrder) - i <= Others(k)

(* An acceptance owes MAX_ACCEPTED_KEYS others, and is one of the others'. *)
LEMMA OwedFacts ==
  ASSUME Remembered, NEW n \in Key,
         acceptances' = acceptances + 1,
         accepts' = [accepts EXCEPT ![n] = @ + 1]
  PROVE  /\ \A k \in Key : /\ Owed(k) \in Int /\ Others(k) \in Int
                           /\ Owed(k)' \in Int /\ Others(k)' \in Int
         /\ Owed(n)' = Owed(n) + MAX_ACCEPTED_KEYS /\ Others(n)' = Others(n)
         /\ \A k \in Key : k # n => Owed(k)' = Owed(k) /\ Others(k)' = Others(k) + 1
<1>1. /\ MAX_ACCEPTED_KEYS \in Nat /\ acceptances \in Nat
      /\ \A k \in Key : accepts[k] \in Nat /\ accepts'[k] \in Nat
      /\ accepts'[n] = accepts[n] + 1
      /\ \A k \in Key : k # n => accepts'[k] = accepts[k]
  BY LimitsAssumption DEF Remembered
<1>2. \A a \in Nat : /\ (a - 1) * MAX_ACCEPTED_KEYS \in Int
                     /\ ((a + 1) - 1) * MAX_ACCEPTED_KEYS
                          = (a - 1) * MAX_ACCEPTED_KEYS + MAX_ACCEPTED_KEYS
  BY <1>1
<1>3. \A k \in Key : Owed(k) \in Int /\ Owed(k)' \in Int
  BY <1>1, <1>2 DEF Owed
<1>4. Owed(n)' = Owed(n) + MAX_ACCEPTED_KEYS
  BY <1>1, <1>2 DEF Owed
<1>5. \A k \in Key : k # n => Owed(k)' = Owed(k)
  BY <1>1 DEF Owed
<1>6. /\ \A k \in Key : Others(k) \in Int /\ Others(k)' \in Int
      /\ Others(n)' = Others(n)
      /\ \A k \in Key : k # n => Others(k)' = Others(k) + 1
  BY <1>1 DEF Others
<1> QED
  BY <1>3, <1>4, <1>5, <1>6

(* A key is remembered, as the newest, and the oldest may be forgotten.    *)
LEMMA RememberingKeeps ==
  ASSUME Remembered, NEW n \in Key, n \notin ToSet(acceptedOrder),
         acceptedOrder' = rememberAccepted(acceptedOrder, n),
         acceptances' = acceptances + 1,
         accepts' = [accepts EXCEPT ![n] = @ + 1]
  PROVE  Remembered'
<1> DEFINE M == MAX_ACCEPTED_KEYS
           s == acceptedOrder
           L == Len(s)
           grown == Append(s, n)
<1>1. /\ M \in Nat /\ M >= 1 /\ s \in Seq(Key) /\ IsInjective(s)
      /\ L \in Nat /\ L <= M /\ DOMAIN s = 1..L
      /\ acceptances \in Nat /\ accepts \in [Key -> Nat]
      /\ \A i \in 1..L : s[i] \in Key
  BY LimitsAssumption DEF Remembered
<1>2. acceptances' \in Nat /\ accepts' \in [Key -> Nat]
  BY <1>1
<1>3. /\ \A k \in Key : /\ Owed(k) \in Int /\ Others(k) \in Int
                        /\ Owed(k)' \in Int /\ Others(k)' \in Int
      /\ Owed(n)' = Owed(n) + M /\ Others(n)' = Others(n)
      /\ \A k \in Key : k # n => Owed(k)' = Owed(k) /\ Others(k)' = Others(k) + 1
  BY OwedFacts
<1>4. /\ \A k \in Key : k \notin ToSet(s) => Owed(k) + M <= Others(k)
      /\ \A i \in 1..L, k \in Key : k = s[i] => Owed(k) + L - i <= Others(k)
  BY DEF Remembered
<1>5. \A i \in 1..L : s[i] # n
  BY <1>1 DEF ToSet
<1>6. /\ grown \in Seq(Key) /\ Len(grown) = L + 1
      /\ ToSet(grown) = ToSet(s) \union {n} /\ IsInjective(grown)
      /\ grown[L + 1] = n /\ \A i \in 1..L : grown[i] = s[i]
  BY <1>1, AppendFacts
<1>7. acceptedOrder' = IF L + 1 > M THEN Tail(grown) ELSE grown
  BY <1>6 DEF rememberAccepted
<1> HIDE DEF M, grown, L
<1>8. ASSUME NEW i \in 1..L + 1, NEW k \in Key, k = grown[i]
      PROVE  Owed(k)' + (L + 1) - i <= Others(k)'
  <2>1. CASE i = L + 1
    <3>1. k = n /\ Owed(n) + M <= Others(n)
      BY <1>4, <1>6, <1>8, <2>1
    <3> QED
      BY <1>1, <1>3, <2>1, <3>1
  <2>2. CASE i \in 1..L
    <3>1. k # n /\ Owed(k) + L - i <= Others(k)
      BY <1>4, <1>5, <1>6, <1>8, <2>2
    <3>2. /\ Owed(k)' = Owed(k) /\ Others(k)' = Others(k) + 1
          /\ Owed(k) \in Int /\ Others(k) \in Int
      BY <1>3, <3>1
    <3>3. L \in Int /\ i \in Int
      BY <1>1, <2>2
    <3> QED
      BY <3>1, <3>2, <3>3
  <2> QED
    BY <1>1, <2>1, <2>2
<1>9. ASSUME NEW k \in Key, k \notin ToSet(grown)
      PROVE  Owed(k)' + M <= Others(k)'
  <2>1. k # n /\ Owed(k) + M <= Others(k)
    BY <1>4, <1>6, <1>9
  <2> QED
    BY <1>1, <1>3, <2>1
<1>10. CASE ~(L + 1 > M)
  <2>1. acceptedOrder' = grown /\ L + 1 <= M
    BY <1>1, <1>7, <1>10
  <2> QED
    BY <1>2, <1>6, <1>8, <1>9, <2>1 DEF Remembered, M
<1>11. CASE L + 1 > M
  <2> DEFINE t == Tail(grown)
  <2>1. L = M /\ L >= 1
    BY <1>1, <1>11
  <2>2. /\ t \in Seq(Key) /\ Len(t) = L /\ DOMAIN t = 1..L
        /\ \A i \in 1..L : t[i] = grown[i + 1]
        /\ DOMAIN grown = 1..L + 1
    BY <1>1, <1>6
  <2> HIDE DEF t
  <2>3. acceptedOrder' = t
    BY <1>7, <1>11 DEF t
  <2>4. \A i \in 1..L : i + 1 \in 1..L + 1
    BY <1>1
  <2>5. IsInjective(t)
    <3>1. \A i, j \in 1..L + 1 : grown[i] = grown[j] => i = j
      BY <1>6, <2>2 DEF IsInjective
    <3>2. SUFFICES ASSUME NEW i \in 1..L, NEW j \in 1..L, t[i] = t[j] PROVE i = j
      BY <2>2 DEF IsInjective
    <3>3. i + 1 = j + 1
      BY <2>2, <2>4, <3>1, <3>2
    <3> QED
      BY <3>3
  <2>6. ASSUME NEW i \in 1..L, NEW k \in Key, k = t[i]
        PROVE  Owed(k)' + L - i <= Others(k)'
    <3>1. Owed(k)' + (L + 1) - (i + 1) <= Others(k)'
      BY <1>8, <2>2, <2>4, <2>6
    <3> QED
      BY <1>1, <1>3, <3>1
  <2>7. ASSUME NEW k \in Key, k \notin ToSet(t)
        PROVE  Owed(k)' + M <= Others(k)'
    <3>1. CASE k \notin ToSet(grown)
      BY <1>9, <3>1
    <3>2. CASE k \in ToSet(grown)
      <4>1. PICK i \in 1..L + 1 : k = grown[i]
        BY <2>2, <3>2 DEF ToSet
      <4>2. i = 1
        <5>1. SUFFICES ASSUME i # 1 PROVE FALSE
          OBVIOUS
        <5>2. i - 1 \in 1..L /\ (i - 1) + 1 = i
          BY <1>1, <5>1
        <5>3. k = t[i - 1]
          BY <2>2, <4>1, <5>2
        <5> QED
          BY <2>2, <2>7, <5>2, <5>3 DEF ToSet
      <4>3. Owed(k)' + (L + 1) - 1 <= Others(k)'
        BY <1>8, <4>1, <4>2
      <4> QED
        BY <1>1, <1>3, <2>1, <4>3
    <3> QED
      BY <3>1, <3>2
  <2>8. Len(acceptedOrder') = L /\ L <= M
    BY <1>1, <2>2, <2>3
  <2>9. acceptedOrder' \in Seq(Key) /\ IsInjective(acceptedOrder')
    BY <2>2, <2>3, <2>5
  <2> QED
    BY <1>2, <2>3, <2>6, <2>7, <2>8, <2>9 DEF Remembered, M
<1> QED
  BY <1>10, <1>11

(* The memory is touched by an acceptance alone. *)
LEMMA RememberedHolds == Spec => []Remembered
<1>1. Init => Remembered
  <2> SUFFICES ASSUME Init PROVE Remembered
    OBVIOUS
  <2>1. /\ acceptances = 0 /\ accepts = [k \in Key |-> 0]
        /\ acceptedOrder = << >> /\ MAX_ACCEPTED_KEYS \in Nat
    BY LimitsAssumption DEF Init
  <2>2. acceptedOrder \in Seq(Key) /\ IsInjective(acceptedOrder) /\ Len(acceptedOrder) = 0
    BY <2>1 DEF IsInjective
  <2>3. \A k \in Key : Owed(k) = 0 - MAX_ACCEPTED_KEYS /\ Others(k) = 0
    BY <2>1 DEF Others, Owed
  <2>4. acceptances \in Nat /\ accepts \in [Key -> Nat]
    BY <2>1
  <2> QED
    BY <2>1, <2>2, <2>3, <2>4 DEF Remembered
<1>2. Remembered /\ [Next]_vars /\ WakeInvariant => Remembered'
  <2> SUFFICES ASSUME Remembered, [Next]_vars, WakeInvariant PROVE Remembered'
    OBVIOUS
  <2>1. CASE Queue
    <3>1. PICK r \in Input :
            /\ KeyOf(r) \notin ToSet(acceptedOrder)
            /\ acceptedOrder' = rememberAccepted(acceptedOrder, KeyOf(r))
            /\ acceptances' = acceptances + 1
            /\ accepts' = [accepts EXCEPT ![KeyOf(r)] = @ + 1]
      BY <2>1 DEF Queue
    <3>2. KeyOf(r) \in Key
      BY DEF Key
    <3> QED
      BY <3>1, <3>2, RememberingKeeps
  <2>2. ASSUME UNCHANGED <<acceptedOrder, acceptances, accepts>>
        PROVE  Remembered'
    BY <2>2 DEF Remembered, Others, Owed
  <2>3. CASE (\E c \in Child : suppressChild(c)) \/ suppressAll \/ LoseEligibility
    BY <2>2, <2>3 DEF suppressChild, suppressAll, LoseEligibility, counts, queueVars
  <2>4. CASE Flush \/ SendSucceeds \/ SendFails
    BY <2>2, <2>4, FlushResumes, SuccessResumes, FailureResumes
  <2>5. CASE UNCHANGED vars
    BY <2>2, <2>5 DEF vars, counts, queueVars
  <2> QED
    BY <2>1, <2>3, <2>4, <2>5 DEF Next
<1> QED
  BY <1>1, <1>2, WakeInvariantHolds, PTL DEF Spec

(***************************************************************************)
(* One wake for each accepted stop and one retry of each, with another      *)
(* acceptance of the same stop only when the memory has turned over: for    *)
(* any children, records and limits.                                       *)
(***************************************************************************)
THEOREM StopsWakeOnce == Spec => []OneWakePerStop
<1>1. WakeInvariant /\ Remembered => OneWakePerStop
  <2> SUFFICES ASSUME WakeInvariant, Remembered, NEW k \in Key
               PROVE  /\ deliveries[k] <= accepts[k]
                      /\ sends[k] <= accepts[k] * (1 + MAX_SEND_RETRIES)
                      /\ (accepts[k] - 1) * MAX_ACCEPTED_KEYS <= acceptances - accepts[k]
    BY DEF OneWakePerStop
  <2>1. /\ accepts[k] \in Nat /\ deliveries[k] \in Nat /\ sends[k] \in Nat
        /\ acceptances \in Nat /\ Others(k) \in Int
        /\ MAX_ACCEPTED_KEYS \in Nat /\ MAX_SEND_RETRIES \in Nat
        /\ attempts[k] \in 0..MAX_SEND_RETRIES
    BY LimitsAssumption DEF WakeInvariant, Counted, Queued, Others
  <2>2. deliveries[k] <= accepts[k]
    <3>1. deliveries[k] + One(k \in ToSet(pending)) + One(k \in Sending \union Taken)
            <= accepts[k]
      BY DEF WakeInvariant, DeliveriesAreCovered
    <3> QED
      BY <2>1, <3>1 DEF One
  <2>3. sends[k] <= accepts[k] * (1 + MAX_SEND_RETRIES)
    <3>1. sends[k] + SendsLeft(k) <= Allowed(k)
      BY DEF WakeInvariant, SendsAreCovered
    <3>2. SendsLeft(k) \in Nat
      BY <2>1 DEF SendsLeft, Room
    <3>3. Allowed(k) \in Nat
      BY AllowedIsNat DEF WakeInvariant
    <3>4. sends[k] <= Allowed(k)
      BY <2>1, <3>1, <3>2, <3>3
    <3> QED
      BY <3>4 DEF Allowed
  <2>4. Owed(k) <= Others(k)
    <3>1. Owed(k) \in Int
      BY <2>1 DEF Owed
    <3>2. CASE k \notin ToSet(acceptedOrder)
      <4>1. Owed(k) + MAX_ACCEPTED_KEYS <= Others(k)
        BY <3>2 DEF Remembered
      <4> QED
        BY <2>1, <3>1, <4>1
    <3>3. CASE k \in ToSet(acceptedOrder)
      <4>1. acceptedOrder \in Seq(Key) /\ Len(acceptedOrder) \in Nat
        BY DEF Remembered
      <4>2. PICK i \in 1..Len(acceptedOrder) : k = acceptedOrder[i]
        BY <3>3, <4>1 DEF ToSet
      <4>3. Owed(k) + Len(acceptedOrder) - i <= Others(k)
        BY <4>2 DEF Remembered
      <4> QED
        BY <2>1, <3>1, <4>1, <4>2, <4>3
    <3> QED
      BY <3>2, <3>3
  <2> QED
    BY <2>2, <2>3, <2>4 DEF Others, Owed
<1> QED
  BY <1>1, WakeInvariantHolds, RememberedHolds, PTL

(***************************************************************************)
(* A send starts only for a stop on which there is no verdict: whatever was *)
(* suppressed, delivered or given up wakes nobody.                         *)
(***************************************************************************)
THEOREM VerdictsAreFinal == Spec => NoSendAfterVerdict
<1>1. WakeInvariant /\ [Next]_vars =>
        [\A k \in Key : sends'[k] > sends[k] =>
            /\ fate[k] = "queued"
            /\ ChildOf(k) \in eligible]_vars
  <2> SUFFICES ASSUME WakeInvariant, Next, NEW k \in Key, sends'[k] > sends[k]
               PROVE  fate[k] = "queued" /\ ChildOf(k) \in eligible
    OBVIOUS
  <2>1. sends[k] \in Nat /\ sends \in [Key -> Nat]
    BY DEF WakeInvariant, Counted
  <2>2. ASSUME NEW rest \in Seq(Key), IsInjective(rest), NEW epochs, NEW waiting,
               NEW tried, NEW verdicts, RunOn(rest, epochs, waiting, tried, verdicts)
        PROVE  k \in ToSet(rest) /\ MaySend(k, epochs)
    <3>1. PICK passed \in SUBSET ToSet(rest) :
            \/ sends' = sends
            \/ \E n, left : Sends(rest, epochs, passed, n, left)
      BY <2>2, RunOnFacts
    <3>2. PICK n, left : Sends(rest, epochs, passed, n, left)
      BY <2>1, <3>1
    <3>3. n = k
      BY <2>1, <3>2 DEF Sends
    <3> QED
      BY <3>2, <3>3 DEF Sends
  <2>3. CASE Flush
    <3> DEFINE size == IF Len(pending) < MAX_SENDS_PER_FLUSH
                       THEN Len(pending) ELSE MAX_SENDS_PER_FLUSH
               rest == SubSeq(pending, 1, size)
               epochs == [all |-> suppressionEpoch, child |-> childSuppressionEpochs]
    <3>1. RunOn(rest, epochs, SubSeq(pending, size + 1, Len(pending)), attempts, fate)
      BY <2>3 DEF Flush
    <3>2. /\ pending \in Seq(Key) /\ IsInjective(pending) /\ Len(pending) \in Nat
          /\ DOMAIN pending = 1..Len(pending)
      BY DEF WakeInvariant, Queued
    <3>3. size \in 0..Len(pending) /\ 1 \in 1..Len(pending) + 1
      BY <3>2, LimitsAssumption
    <3> HIDE DEF size
    <3>4. /\ rest \in Seq(Key) /\ IsInjective(rest)
          /\ ToSet(rest) = {pending[i] : i \in 1..size}
      BY <3>2, <3>3, PartFacts
    <3> HIDE DEF rest, epochs
    <3>5. k \in ToSet(rest) /\ MaySend(k, epochs)
      BY <2>2, <3>1, <3>4
    <3>6. k \in ToSet(pending)
      <4>1. \A i \in 1..size : i \in DOMAIN pending
        BY <3>2, <3>3
      <4> QED
        BY <3>4, <3>5, <4>1 DEF ToSet
    <3> QED
      BY <3>5, <3>6 DEF MaySend, WakeInvariant, NoVerdictYet
  <2>4. CASE SendSucceeds \/ SendFails
    <3>1. /\ flushing
          /\ \E waiting, tried, verdicts :
               RunOn(flush.rest, flush.epochs, waiting, tried, verdicts)
      BY <2>4 DEF SendSucceeds, SendFails
    <3>2. /\ flush.rest \in Seq(Key) /\ IsInjective(flush.rest)
          /\ Taken = ToSet(flush.rest)
      BY <3>1, Running
    <3>3. k \in ToSet(flush.rest) /\ MaySend(k, flush.epochs)
      BY <2>2, <3>1, <3>2
    <3> QED
      BY <3>2, <3>3 DEF MaySend, WakeInvariant, NoVerdictYet
  <2>5. CASE Queue \/ (\E c \in Child : suppressChild(c)) \/ suppressAll \/ LoseEligibility
    <3>1. sends' = sends
      BY <2>5 DEF Queue, suppressChild, suppressAll, LoseEligibility, counts
    <3> QED
      BY <2>1, <3>1
  <2> QED
    BY <2>3, <2>4, <2>5 DEF Next
<1> QED
  BY <1>1, WakeInvariantHolds, PTL DEF Spec, NoSendAfterVerdict

(***************************************************************************)
(* The fields keep their types, and no count of failures passes the limit.  *)
(***************************************************************************)
THEOREM WakeTypeOK == Spec => []TypeOK
<1>1. WakeInvariant /\ Remembered => TypeOK
  BY DEF WakeInvariant, Queued, Epoched, InFlush, Remembered, TypeOK
<1> QED
  BY <1>1, WakeInvariantHolds, RememberedHolds, PTL
=============================================================================
