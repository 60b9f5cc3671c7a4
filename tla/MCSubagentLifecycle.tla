------------------------- MODULE MCSubagentLifecycle -------------------------
(***************************************************************************)
(* Model checking instance of SubagentLifecycle: a history of two runs, so *)
(* that runs leave it, and four run ids, so that supplied ids leave gaps.  *)
(***************************************************************************)
EXTENDS SubagentLifecycle
==============================================================================
