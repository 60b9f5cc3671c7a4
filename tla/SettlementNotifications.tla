---------------------- MODULE SettlementNotifications ----------------------
(***************************************************************************)
(* The queue that wakes the owner of a subagent once for each accepted     *)
(* stop (settlement-notifications.ts).  A flush runs without interruption  *)
(* from one awaited send to the next, so a step ends at a send or at the   *)
(* end of the flush; every other operation interleaves while a send is     *)
(* awaited.  The send itself (the host's sendMessage) may fail.            *)
(*                                                                         *)
(* A queued record is abstracted to its key; the texts are left out.       *)
(***************************************************************************)
EXTENDS Integers, Sequences, FiniteSets, SequencesExt

CONSTANTS
  Child,                  \* subagent handle ids
  Input,                  \* the records that queue is called with
  MAX_SEND_RETRIES, MAX_ACCEPTED_KEYS, MAX_SENDS_PER_FLUSH,
  MaxEpoch,               \* bound: suppressions of a child, and of all
  MaxAccepts              \* bound: records accepted

ASSUME InputAssumption ==
  Input \subseteq [ child : Child,
                    runId : Nat,
                    eventKind : {"run_settled", "process_died"},
                    outcome : {"succeeded", "failed", "aborted", "died"} ]
ASSUME LimitsAssumption ==
  /\ MAX_SEND_RETRIES \in Nat
  /\ MAX_ACCEPTED_KEYS \in Nat \ {0}
  /\ MAX_SENDS_PER_FLUSH \in Nat \ {0}
  /\ MaxEpoch \in Nat
  /\ MaxAccepts \in Nat

isRealSettlement(r) ==
  r.eventKind = "run_settled" => r.runId > 0 /\ r.outcome # "died"

KeyOf(r) == <<r.child, r.runId, r.eventKind>>
Key == {KeyOf(r) : r \in Input}
ChildOf(k) == k[1]

VARIABLES
  pending,        \* keys waiting for a flush, in insertion order
  attempts,       \* failed sends of a key that is still to be retried
  acceptedOrder,  \* the most recently accepted keys, oldest first
  suppressionEpoch, childSuppressionEpochs,
  timer,          \* a flush is scheduled
  flush,          \* the running flush, or NoFlush
  eligible,       \* the children whose owner may still be woken
  acceptances,    \* history: records accepted;
  accepts,        \*   times a key was accepted,
  sends,          \*   sent,
  deliveries,     \*   and sent with success
  fate            \* history: what became of a key's last acceptance

queueVars == <<pending, attempts, acceptedOrder, timer>>
epochVars == <<suppressionEpoch, childSuppressionEpochs>>
counts == <<acceptances, accepts, sends, deliveries>>
vars == <<queueVars, epochVars, flush, eligible, counts, fate>>

Fate == {"none", "queued", "delivered", "withheld", "failed"}

(* A flush that awaits a send: the key it sends and the keys after it, with *)
(* the suppression epochs it saw when it started.                           *)
NoFlush == [sending |-> FALSE]
flushing == flush.sending

Init ==
  /\ pending = << >>
  /\ attempts = [k \in Key |-> 0]
  /\ acceptedOrder = << >>
  /\ suppressionEpoch = 0
  /\ childSuppressionEpochs = [c \in Child |-> 0]
  /\ timer = FALSE
  /\ flush = NoFlush
  /\ eligible = Child
  /\ acceptances = 0
  /\ accepts = [k \in Key |-> 0]
  /\ sends = [k \in Key |-> 0]
  /\ deliveries = [k \in Key |-> 0]
  /\ fate = [k \in Key |-> "none"]

-----------------------------------------------------------------------------
(* Accepting and suppressing.                                              *)

(* The timer after schedule(): nothing is scheduled during a flush. *)
schedule == timer \/ ~flushing

(* Mutant: accepted keys are not remembered. *)
rememberNothing(keys, k) == keys

rememberAccepted(keys, k) ==
  LET grown == Append(keys, k)
  IN  IF Len(grown) > MAX_ACCEPTED_KEYS THEN Tail(grown) ELSE grown

Queue ==
  \E r \in Input :
    LET k == KeyOf(r)
    IN  /\ isRealSettlement(r)
        /\ k \notin ToSet(acceptedOrder)
        /\ acceptances < MaxAccepts
        /\ acceptedOrder' = rememberAccepted(acceptedOrder, k)
        /\ pending' = IF k \in ToSet(pending) THEN pending
                                              ELSE Append(pending, k)
        /\ timer' = schedule
        /\ acceptances' = acceptances + 1
        /\ accepts' = [accepts EXCEPT ![k] = @ + 1]
        /\ fate' = [fate EXCEPT ![k] = "queued"]
        /\ UNCHANGED <<attempts, epochVars, flush, eligible, sends, deliveries>>

(* The history records which queued keys a suppression withholds. *)
Withhold(keys) ==
  fate' = [k \in Key |-> IF k \in keys /\ fate[k] = "queued"
                         THEN "withheld" ELSE fate[k]]

(* The keys of the other children, in their order. *)
WithoutChild(keys, c) ==
  LET kept == {i \in DOMAIN keys : ChildOf(keys[i]) # c}
      Place(i) == Cardinality({j \in kept : j <= i})
  IN  [n \in 1..Cardinality(kept) |-> keys[CHOOSE i \in kept : Place(i) = n]]

suppressChild(c) ==
  LET ofChild == {k \in Key : ChildOf(k) = c}
      dropped == ToSet(pending) \intersect ofChild
  IN  /\ childSuppressionEpochs[c] < MaxEpoch
      /\ childSuppressionEpochs' = [childSuppressionEpochs EXCEPT ![c] = @ + 1]
      /\ pending' = WithoutChild(pending, c)
      /\ attempts' = [k \in Key |-> IF k \in dropped THEN 0 ELSE attempts[k]]
      /\ Withhold(ofChild)
      /\ UNCHANGED <<acceptedOrder, suppressionEpoch, timer, flush, eligible,
                     counts>>

suppressAll ==
  /\ suppressionEpoch < MaxEpoch
  /\ suppressionEpoch' = suppressionEpoch + 1
  /\ pending' = << >>
  /\ attempts' = [k \in Key |-> 0]
  /\ timer' = FALSE
  /\ Withhold(Key)
  /\ UNCHANGED <<acceptedOrder, childSuppressionEpochs, flush, eligible,
                 counts>>

(* The owner's side: a kill request or a removed handle is final. *)
LoseEligibility ==
  \E c \in eligible :
    /\ eligible' = eligible \ {c}
    /\ UNCHANGED <<queueVars, epochVars, flush, counts, fate>>

-----------------------------------------------------------------------------
(* Flushing.                                                               *)

(* Mutant: only the suppression of all children is noticed. *)
suppressedWithAll(k, epochs) == suppressionEpoch # epochs.all

suppressed(k, epochs) ==
  \/ suppressionEpoch # epochs.all
  \/ childSuppressionEpochs[ChildOf(k)] # epochs.child[ChildOf(k)]

MaySend(k, epochs) == ChildOf(k) \in eligible /\ ~suppressed(k, epochs)

(* Mutant: a flush leaves what it did not take to the next stop. *)
neverRescheduled(waiting) == FALSE

scheduleAfterFlush(waiting) == waiting # << >>

(***************************************************************************)
(* The flush runs on from the keys in rest: keys that may no longer be     *)
(* sent are passed over, and it stops at the next send or at the end.      *)
(* waiting, tried and verdicts are pending, attempts and fate as the       *)
(* outcome of the previous send left them.                                 *)
(***************************************************************************)
RunOn(rest, epochs, waiting, tried, verdicts) ==
  LET next == SelectInSeq(rest, LAMBDA k : MaySend(k, epochs))
      passed == ToSet(IF next = 0 THEN rest ELSE SubSeq(rest, 1, next - 1))
  IN  /\ pending' = waiting
      /\ attempts' = [k \in Key |-> IF k \in passed THEN 0 ELSE tried[k]]
      /\ fate' = [k \in Key |->
                    IF k \in passed \ ToSet(waiting) /\ verdicts[k] = "queued"
                    THEN "withheld" ELSE verdicts[k]]
      /\ IF next = 0
         THEN /\ flush' = NoFlush
              /\ timer' = scheduleAfterFlush(waiting)
              /\ sends' = sends
         ELSE /\ flush' = [sending |-> TRUE,
                           key |-> rest[next],
                           rest |-> SubSeq(rest, next + 1, Len(rest)),
                           epochs |-> epochs]
              /\ timer' = FALSE
              /\ sends' = [sends EXCEPT ![rest[next]] = @ + 1]
      /\ UNCHANGED <<acceptedOrder, epochVars, eligible, acceptances, accepts>>

Flush ==
  LET size == IF Len(pending) < MAX_SENDS_PER_FLUSH
              THEN Len(pending) ELSE MAX_SENDS_PER_FLUSH
  IN  /\ timer
      /\ ~flushing
      /\ deliveries' = deliveries
      /\ RunOn(SubSeq(pending, 1, size),
               [all |-> suppressionEpoch, child |-> childSuppressionEpochs],
               SubSeq(pending, size + 1, Len(pending)), attempts, fate)

SendSucceeds ==
  /\ flushing
  /\ RunOn(flush.rest, flush.epochs, pending,
           [attempts EXCEPT ![flush.key] = 0],
           IF flush.key \in ToSet(pending) THEN fate
           ELSE [fate EXCEPT ![flush.key] = "delivered"])
  /\ deliveries' = [deliveries EXCEPT ![flush.key] = @ + 1]

mayRetry(failures) == failures <= MAX_SEND_RETRIES

(* A failed send is retried at the end of the queue, unless the key was *)
(* suppressed meanwhile or has no retry left.                           *)
SendFails ==
  /\ flushing
  /\ deliveries' = deliveries
  /\ LET k == flush.key
         failures == attempts[k] + 1
         again == ~suppressed(k, flush.epochs) /\ mayRetry(failures)
     IN  RunOn(flush.rest, flush.epochs,
               IF again /\ k \notin ToSet(pending) THEN Append(pending, k)
                                                   ELSE pending,
               [attempts EXCEPT ![k] = IF again THEN failures ELSE 0],
               IF again \/ k \in ToSet(pending) \/ fate[k] # "queued" THEN fate
               ELSE [fate EXCEPT ![k] = "failed"])

Next ==
  \/ Queue
  \/ \E c \in Child : suppressChild(c)
  \/ suppressAll
  \/ LoseEligibility
  \/ Flush
  \/ SendSucceeds
  \/ SendFails

(* The timer fires, and the host answers every send one way or the other: *)
(* these are never enabled together, so one conjunct asks for both.       *)
Fairness == WF_vars(Flush \/ SendSucceeds \/ SendFails)

Spec == Init /\ [][Next]_vars /\ Fairness

-----------------------------------------------------------------------------
(* Properties.                                                             *)

Epochs == [all : 0..MaxEpoch, child : [Child -> 0..MaxEpoch]]

(* The queue's fields keep their types, and no retry count passes its limit. *)
TypeOK ==
  /\ pending \in Seq(Key)
  /\ attempts \in [Key -> 0..MAX_SEND_RETRIES]
  /\ acceptedOrder \in Seq(Key)
  /\ suppressionEpoch \in 0..MaxEpoch
  /\ childSuppressionEpochs \in [Child -> 0..MaxEpoch]
  /\ timer \in BOOLEAN
  /\ \/ flush = NoFlush
     \/ flush \in [sending : {TRUE}, key : Key, rest : Seq(Key), epochs : Epochs]
  /\ eligible \subseteq Child
  /\ fate \in [Key -> Fate]

(***************************************************************************)
(* No lost wake-up: whatever waits has a flush scheduled or running, with  *)
(* schedule() silent during a flush and suppressAll clearing the timer.    *)
(***************************************************************************)
PendingIsScheduled == pending # << >> => timer \/ flushing

(***************************************************************************)
(* "One non-durable wake for each accepted subagent stop", and one retry:  *)
(* a stop reported again is accepted again only when MAX_ACCEPTED_KEYS     *)
(* others were accepted in between, and when the bounded memory forgets a  *)
(* key that still waits, is in a running flush or is in flight, its sends  *)
(* and deliveries still add up.                                            *)
(***************************************************************************)
OneWakePerStop ==
  \A k \in Key :
    /\ deliveries[k] <= accepts[k]
    /\ sends[k] <= accepts[k] * (1 + MAX_SEND_RETRIES)
    /\ (accepts[k] - 1) * MAX_ACCEPTED_KEYS
         <= acceptances - accepts[k]

(***************************************************************************)
(* No send starts for a stop that was suppressed after it was accepted,    *)
(* was delivered, or has used up its retry: suppression may come while the *)
(* key is queued, in a running flush, in flight, or about to be retried.   *)
(***************************************************************************)
NoSendAfterVerdict ==
  [][\A k \in Key : sends'[k] > sends[k] =>
        /\ fate[k] = "queued"
        /\ ChildOf(k) \in eligible]_vars

(* Every accepted stop is delivered, withheld or given up: none is lost. *)
EveryStopDecided ==
  \A k \in Key : fate[k] = "queued" ~> fate[k] # "queued"
==============================================================================
