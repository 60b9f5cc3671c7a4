------------------------------ MODULE Lifecycle ------------------------------
(***************************************************************************)
(* The run/process model of one subagent handle (lifecycle.ts), as         *)
(* operators on a lifecycle record.  Each exported function of the source  *)
(* that mutates its argument is an operator that returns the new record;   *)
(* where the source returns a rejection, the matching Can... operator is   *)
(* its precondition.                                                       *)
(*                                                                         *)
(* Timestamps and stop reasons are display data and are left out, except   *)
(* that killRequestedAt is kept as the flag killRequested.  An error text  *)
(* is abstracted to where it came from (ErrorText); "none" is undefined.   *)
(***************************************************************************)
EXTENDS Integers, Sequences

CONSTANT MAX_RUN_HISTORY

ASSUME HistoryAssumption == MAX_RUN_HISTORY \in Nat \ {0}

Outcome == {"pending", "succeeded", "failed", "aborted"}
ErrorText == {"none", "assistant", "settlement", "killed", "exit"}

SubagentRun ==
  [ id : Nat \ {0},
    phase : {"active", "ended"},
    outcome : Outcome,
    error : ErrorText,
    assistantMessageGeneration : Nat,       \* 0 is undefined
    corroborated : BOOLEAN ]

LifecycleState ==
  [ state : {"starting", "running", "done", "error", "killed"},
    lifecycle : {"idle", "running", "retrying", "finishing", "killing",
                 "done", "error", "killed"},
    processState : {"alive", "stopped"},
    runState : {"idle", "running", "retrying", "finishing"},
    runSequence : Nat,
    lastSettledRunId : Nat,
    runs : Seq(SubagentRun),
    runOutcome : Outcome,
    settlementStatus : {"pending", "settled", "closed_without_settlement"},
    tentativeError : ErrorText,
    finalError : ErrorText,
    killRequested : BOOLEAN ]

-----------------------------------------------------------------------------
(* Derived compatibility fields.                                           *)

CompatState(s) ==
  IF s.processState = "stopped"
  THEN IF s.killRequested THEN "killed"
       ELSE IF s.settlementStatus = "settled" /\ s.runOutcome # "failed"
            THEN "done" ELSE "error"
  ELSE IF s.runState # "idle" THEN "running"
  ELSE IF s.settlementStatus # "settled" THEN "starting"
  ELSE IF s.runOutcome = "failed" THEN "error" ELSE "done"

CompatLifecycle(s) ==
  IF s.processState = "stopped" THEN CompatState(s)
  ELSE IF s.killRequested THEN "killing" ELSE s.runState

syncLifecycleCompatibility(s) ==
  [s EXCEPT !.state = CompatState(s), !.lifecycle = CompatLifecycle(s)]

-----------------------------------------------------------------------------
(* Reading the record.                                                     *)

HasRun(s) == s.runs # << >>
currentRun(s) == s.runs[Len(s.runs)]
CurrentRunIn(s, phase) == HasRun(s) /\ currentRun(s).phase = phase
isLifecycleTerminal(s) == s.processState = "stopped"

(* A fresh handle: createLifecycleState with the overrides of createHandle. *)
createLifecycleState ==
  syncLifecycleCompatibility(
    [ state |-> "starting", lifecycle |-> "idle", processState |-> "alive",
      runState |-> "idle", runSequence |-> 0, lastSettledRunId |-> 0,
      runs |-> << >>, runOutcome |-> "pending", settlementStatus |-> "pending",
      tentativeError |-> "none", finalError |-> "none",
      killRequested |-> FALSE ])

-----------------------------------------------------------------------------
(* Run boundaries.                                                         *)

(* The oldest runs leave a history that has grown past its bound. *)
KeepRecent(runs) ==
  IF Len(runs) > MAX_RUN_HISTORY
  THEN SubSeq(runs, Len(runs) - MAX_RUN_HISTORY + 1, Len(runs))
  ELSE runs

NewRun(id) ==
  [ id |-> id, phase |-> "active", outcome |-> "pending", error |-> "none",
    assistantMessageGeneration |-> 0, corroborated |-> FALSE ]

(* id is the supplied run id, or runSequence + 1 when none is supplied. *)
CanStartRun(s, id) ==
  /\ ~isLifecycleTerminal(s)
  /\ ~CurrentRunIn(s, "active")
  /\ ~s.killRequested
  /\ id > s.runSequence

startRun(s, id) ==
  syncLifecycleCompatibility(
    [s EXCEPT !.runSequence = id,
              !.runs = KeepRecent(Append(s.runs, NewRun(id))),
              !.runState = "running",
              !.runOutcome = "pending",
              !.settlementStatus = "pending",
              !.tentativeError = "none",
              !.finalError = "none"])

(* The guard that corroborateRun, recordAssistantEnd and endRun share. *)
HasActiveRun(s) == ~isLifecycleTerminal(s) /\ CurrentRunIn(s, "active")

UpdateCurrentRun(s, run) == [s EXCEPT !.runs[Len(s.runs)] = run]

corroborateRun(s) ==
  UpdateCurrentRun(s, [currentRun(s) EXCEPT !.corroborated = TRUE])

(***************************************************************************)
(* verdict is what the final assistant message says of the run: "aborted"  *)
(* (stopReason aborted), "failed" (stopReason error, or an error text) or  *)
(* "none"; generation is the finalized message generation, 0 if unknown.   *)
(***************************************************************************)
recordAssistantEnd(s, verdict, generation) ==
  LET run == [currentRun(s) EXCEPT
                !.corroborated = TRUE,
                !.assistantMessageGeneration =
                  IF generation = 0 THEN @ ELSE generation,
                !.outcome = IF verdict = "none" THEN @ ELSE verdict,
                !.error = IF verdict = "failed" THEN "assistant" ELSE @]
      tentative == CASE verdict = "aborted" -> "none"
                     [] verdict = "failed" -> "assistant"
                     [] OTHER -> s.tentativeError
  IN  [UpdateCurrentRun(s, run) EXCEPT !.tentativeError = tentative]

(* Mutant: a run that ends keeps no outcome. *)
endRunPending(s, willRetry) ==
  syncLifecycleCompatibility(
    [UpdateCurrentRun(s, [currentRun(s) EXCEPT !.phase = "ended",
                                               !.corroborated = TRUE])
       EXCEPT !.runState = IF willRetry THEN "retrying" ELSE "finishing"])

endRun(s, willRetry) ==
  LET run == [currentRun(s) EXCEPT
                !.phase = "ended",
                !.corroborated = TRUE,
                !.outcome = IF @ = "pending" THEN "succeeded" ELSE @]
  IN  syncLifecycleCompatibility(
        [UpdateCurrentRun(s, run) EXCEPT
           !.runState = IF willRetry THEN "retrying" ELSE "finishing"])

CanAbortRun(s) == ~isLifecycleTerminal(s) /\ HasRun(s)

(* An active run is ended as well; an ended one keeps its runState. *)
abortRun(s) ==
  LET run == [currentRun(s) EXCEPT !.outcome = "aborted", !.error = "none"]
      fenced == [UpdateCurrentRun(s, run) EXCEPT !.tentativeError = "none"]
  IN  IF CurrentRunIn(s, "active") THEN endRun(fenced, FALSE)
      ELSE syncLifecycleCompatibility(fenced)

requestKill(s) ==
  syncLifecycleCompatibility([s EXCEPT !.killRequested = TRUE])

(* Mutant: the counter is reset along with the view. *)
resetRunViewAndCounter(s) ==
  syncLifecycleCompatibility(
    [s EXCEPT !.runState = "idle",
              !.runOutcome = "pending",
              !.runs = << >>,
              !.runSequence = 0,
              !.settlementStatus = "pending",
              !.tentativeError = "none",
              !.finalError = "none"])

resetRunViewForSession(s) ==
  syncLifecycleCompatibility(
    [s EXCEPT !.runState = "idle",
              !.runOutcome = "pending",
              !.runs = << >>,
              !.settlementStatus = "pending",
              !.tentativeError = "none",
              !.finalError = "none"])

-----------------------------------------------------------------------------
(* Settlement.                                                             *)

(* An active run nothing has corroborated is dropped before settling. *)
DropUncorroborated(s) ==
  IF CurrentRunIn(s, "active") /\ ~currentRun(s).corroborated
  THEN [s EXCEPT !.runs = SubSeq(@, 1, Len(@) - 1)]
  ELSE s

(* Mutant: a settled run accepts a settlement. *)
CanSettleAgain(s) ==
  ~isLifecycleTerminal(s) /\ CurrentRunIn(DropUncorroborated(s), "ended")

CanSettle(s) ==
  LET dropped == DropUncorroborated(s)
  IN  /\ ~isLifecycleTerminal(s)
      /\ CurrentRunIn(dropped, "ended")
      /\ currentRun(dropped).id > s.lastSettledRunId

(* Mutant: a success overrides an abort. *)
SettledOutcomeOverAbort(run, outcome, aborted) ==
  IF aborted THEN "aborted" ELSE IF outcome = "none" THEN run.outcome ELSE outcome

(***************************************************************************)
(* outcome is "none" or a settled outcome; aborted says that the stop      *)
(* reason is "aborted"; withError that an error message came along.        *)
(***************************************************************************)
SettledOutcome(run, outcome, aborted) ==
  IF aborted THEN "aborted"
  ELSE IF outcome = "none" \/ (run.outcome = "aborted" /\ outcome = "succeeded")
       THEN run.outcome
       ELSE outcome

settleRunToIdle(s, outcome, aborted, withError) ==
  LET dropped == DropUncorroborated(s)
      old == currentRun(dropped)
      settled == [old EXCEPT
                    !.outcome = SettledOutcome(old, outcome, aborted),
                    !.error = IF withError THEN "settlement" ELSE @]
      failure == IF settled.error # "none" THEN settled.error ELSE "assistant"
  IN  IF CanSettle(s)
      THEN syncLifecycleCompatibility(
             [UpdateCurrentRun(dropped, settled) EXCEPT
                !.lastSettledRunId = settled.id,
                !.settlementStatus = "settled",
                !.runState = "idle",
                !.tentativeError = "none",
                !.runOutcome = settled.outcome,
                !.finalError = IF settled.outcome = "failed"
                               THEN failure ELSE "none"])
      ELSE IF isLifecycleTerminal(s) THEN s ELSE dropped

-----------------------------------------------------------------------------
(* Process end.                                                            *)

(* The error of the most recent failed run in the history, if there is one. *)
LastFailure(runs) ==
  LET latest == {i \in 1..Len(runs) :
                   /\ runs[i].outcome = "failed"
                   /\ \A j \in i + 1..Len(runs) : runs[j].outcome # "failed"}
  IN  IF latest = {} THEN "none" ELSE runs[CHOOSE i \in latest : TRUE].error

StopError(s, closedWithError) ==
  LET failed == IF HasRun(s) THEN currentRun(s).outcome = "failed"
                             ELSE s.runOutcome = "failed"
      own == IF HasRun(s) THEN currentRun(s).error ELSE "none"
      settledView == IF HasRun(s)
                     THEN currentRun(s).id <= s.lastSettledRunId
                     ELSE s.settlementStatus = "settled"
      FirstOf(a, b, c) == IF a # "none" THEN a ELSE IF b # "none" THEN b ELSE c
  IN  IF s.killRequested THEN FirstOf(s.finalError, "killed", "killed")
      ELSE IF settledView
           THEN IF failed THEN FirstOf(own, s.finalError, "assistant")
                          ELSE "none"
      ELSE FirstOf(IF closedWithError THEN "exit" ELSE "none",
                   LastFailure(s.runs), "exit")

(* Mutant: a run that left the history is not missed at the close. *)
ClosedWithoutVisibleSettlement(s) ==
  HasRun(s) /\ currentRun(s).id > s.lastSettledRunId

ClosedWithoutSettlement(s) ==
  \/ s.runSequence > s.lastSettledRunId
  \/ HasRun(s) /\ currentRun(s).id > s.lastSettledRunId

(* closedWithError says that the close carried an error of its own. *)
markStopped(s, closedWithError) ==
  LET marked == IF ClosedWithoutSettlement(s)
                THEN [s EXCEPT !.settlementStatus = "closed_without_settlement"]
                ELSE s
      stopped == [marked EXCEPT !.processState = "stopped",
                                !.runState = "idle",
                                !.tentativeError = "none"]
  IN  IF isLifecycleTerminal(s) THEN s
      ELSE syncLifecycleCompatibility(
             [stopped EXCEPT !.finalError = StopError(marked, closedWithError)])

-----------------------------------------------------------------------------
(* What makes a record well formed; the properties and proofs build on it. *)

(***************************************************************************)
(* A history is a window on the runs numbered up to last: ids grow along   *)
(* it, only its newest run may be active, an ended run has an outcome.     *)
(***************************************************************************)
OrderedRuns(runs, last) ==
  /\ \A i \in 1..Len(runs) : runs[i].id <= last
  /\ \A i, j \in 1..Len(runs) : i < j => runs[i].id < runs[j].id
  /\ \A i \in 1..Len(runs) : runs[i].phase = "active" => i = Len(runs)
  /\ \A i \in 1..Len(runs) :
       runs[i].phase = "ended" => runs[i].outcome # "pending"

CursorBehind(s) ==
  /\ s.lastSettledRunId <= s.runSequence
  /\ CurrentRunIn(s, "active") => currentRun(s).id > s.lastSettledRunId
  /\ s.runState \in {"retrying", "finishing"} =>
       /\ CurrentRunIn(s, "ended")
       /\ currentRun(s).id > s.lastSettledRunId

InSync(s) ==
  /\ s.state = CompatState(s)
  /\ s.lifecycle = CompatLifecycle(s)

(* An active run of a live child is what its run state reports. *)
ActiveRunShown(s) ==
  HasActiveRun(s) => /\ s.runState = "running"
                     /\ s.settlementStatus = "pending"

(* The settled result of a live child is one of an idle child, ... *)
ShowsResult(s) == s.settlementStatus = "settled" /\ ~isLifecycleTerminal(s)
SettledIsIdle(s) == ShowsResult(s) => s.runState = "idle"

(* ... and its error is there exactly when the run failed. *)
ErrorOfResult(s) ==
  ShowsResult(s) =>
    /\ s.tentativeError = "none"
    /\ (s.finalError # "none") <=> (s.runOutcome = "failed")

CoherentResult(s) == SettledIsIdle(s) /\ ErrorOfResult(s)

(* All but the errors, which a handle resets by itself. *)
Consistent(s) ==
  /\ s \in LifecycleState
  /\ OrderedRuns(s.runs, s.runSequence)
  /\ Len(s.runs) <= MAX_RUN_HISTORY
  /\ CursorBehind(s)
  /\ InSync(s)
  /\ ActiveRunShown(s)
  /\ SettledIsIdle(s)

WellFormed(s) == Consistent(s) /\ ErrorOfResult(s)
==============================================================================
