---------------------------- MODULE MCSubagentHandle ----------------------------
(***************************************************************************)
(* A model checking instance of SubagentHandle: a message that is          *)
(* identified by its timestamp, two that share it and are told apart by    *)
(* their response ids, two tool calls, and a record that names run 1.      *)
(***************************************************************************)
EXTENDS SubagentHandle

CONSTANTS t1, t2

MCToolCall == {t1, t2}

Msg(ts, rid) == [ts |-> ts, rid |-> rid]
MCMessage == {Msg(1, 0), Msg(1, 1), Msg(1, 2)}
MCStaleRunId == {1}
=================================================================================
