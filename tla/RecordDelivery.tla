--------------------------- MODULE RecordDelivery ---------------------------
(***************************************************************************)
(* What the way of a child's records to its handle promises.  A record     *)
(* that comes is taken at once, lost at once, waits, or is refused; one    *)
(* that waits is taken later, once, unless everything is dropped with the  *)
(* runtime: having waited it is not lost.  The end is told when nothing    *)
(* waits, and after it nothing is taken.  In which order the waiting       *)
(* records are taken is left open.                                         *)
(***************************************************************************)
EXTENDS Sequences, SequencesExt

CONSTANT Message

VARIABLES
  seen,         \* the records that came
  waiting,      \* those that wait to be taken
  taken,        \* those that were taken, in this order
  ended,        \* the end was told
  gone          \* nobody is there to take anything

deliveryVars == <<seen, waiting, taken, ended, gone>>

DeliveryInit ==
  /\ seen = {} /\ waiting = {} /\ taken = << >>
  /\ ended = FALSE /\ gone = FALSE

Comes(m) == m \notin seen /\ seen' = seen \union {m}

(* The end comes with the last record, or on its own. *)
MayEnd ==
  \/ UNCHANGED <<ended, gone>>
  \/ waiting' = {} /\ ended' = TRUE /\ gone' \in BOOLEAN

Wait(m) ==
  /\ Comes(m)
  /\ ended => gone
  /\ waiting' = waiting \union {m}
  /\ UNCHANGED <<taken, ended, gone>>

Refuse(m) == Comes(m) /\ UNCHANGED <<waiting, taken, ended, gone>>

Take(m) ==
  /\ Comes(m)
  /\ ~ended /\ ~gone
  /\ taken' = Append(taken, m)
  /\ waiting' = waiting
  /\ MayEnd

(* Who should take it fails, and nobody keeps it. *)
Lose(m) ==
  /\ Comes(m)
  /\ ~ended /\ ~gone
  /\ UNCHANGED <<waiting, taken>>
  /\ MayEnd

(* Some of those that wait are taken, each of them once. *)
TakeWaiting ==
  /\ ~ended /\ ~gone
  /\ IsPrefix(taken, taken') /\ IsInjective(taken')
  /\ ToSet(taken') = ToSet(taken) \union (waiting \ waiting')
  /\ waiting' \subseteq waiting
  /\ MayEnd
  /\ seen' = seen

End == ~gone /\ MayEnd /\ UNCHANGED <<seen, waiting, taken>>

Drop ==
  /\ ~gone /\ gone' = TRUE
  /\ waiting' = {}
  /\ UNCHANGED <<seen, taken, ended>>

DeliveryNext ==
  \/ \E m \in Message : Wait(m) \/ Refuse(m) \/ Take(m) \/ Lose(m)
  \/ TakeWaiting \/ End \/ Drop

DeliverySpec == DeliveryInit /\ [][DeliveryNext]_deliveryVars
=============================================================================
