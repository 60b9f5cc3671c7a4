------------------------------ MODULE RunLedger ------------------------------
(***************************************************************************)
(* What the lifecycle of one child promises to whoever counts its turns:   *)
(* turns are numbered upwards, the settlement cursor only ever moves to a  *)
(* turn that was started and has not settled before, and nothing moves     *)
(* once the process has stopped.                                           *)
(***************************************************************************)
EXTENDS Naturals

VARIABLES started,      \* the highest turn that was started
          settled,      \* the highest turn that was settled
          alive         \* the child process has not been seen to stop

ledgerVars == <<started, settled, alive>>

LedgerInit ==
  /\ started = 0
  /\ settled = 0
  /\ alive = TRUE

StartTurn ==
  /\ alive
  /\ started' \in Nat
  /\ started' > started
  /\ UNCHANGED <<settled, alive>>

SettleTurn ==
  /\ alive
  /\ settled' \in Nat
  /\ settled' > settled
  /\ settled' <= started
  /\ UNCHANGED <<started, alive>>

StopProcess ==
  /\ alive
  /\ alive' = FALSE
  /\ UNCHANGED <<started, settled>>

LedgerNext == StartTurn \/ SettleTurn \/ StopProcess

LedgerSpec == LedgerInit /\ [][LedgerNext]_ledgerVars
==============================================================================
