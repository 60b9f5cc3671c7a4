--------------------- MODULE MCSettlementNotifications ---------------------
(***************************************************************************)
(* Model checking instance of SettlementNotifications: one stop of each of *)
(* two children and one that is not a real settlement, a flush of two      *)
(* sends, and a memory of one accepted key, so that each acceptance makes  *)
(* it forget the other's key and a stop can be accepted anew.              *)
(***************************************************************************)
EXTENDS SettlementNotifications

CONSTANTS c1, c2

MCChild == {c1, c2}

Settlement(c, id, outcome) ==
  [child |-> c, runId |-> id, eventKind |-> "run_settled", outcome |-> outcome]

MCInput ==
  { Settlement(c1, 1, "succeeded"), Settlement(c1, 1, "died"),
    Settlement(c2, 1, "aborted") }
=============================================================================
