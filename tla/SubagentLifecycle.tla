-------------------------- MODULE SubagentLifecycle --------------------------
(***************************************************************************)
(* The lifecycle record of one subagent handle under its exported          *)
(* operations (lifecycle.ts), called in any order and with any argument:   *)
(* the caller is an RPC child that may duplicate, delay or omit records,   *)
(* so no call sequence is ruled out.  A call that the source rejects       *)
(* without a change is a stuttering step and has no action.                *)
(* SubagentHandle has the same record, with the handlers that call them.   *)
(***************************************************************************)
EXTENDS Lifecycle

CONSTANT MaxRunId       \* bound: runs started in a behaviour

ASSUME MaxRunIdAssumption == MaxRunId \in Nat

VARIABLE life

lifecycleVars == <<life>>

LifecycleInit == life = createLifecycleState

StartRun ==
  \E id \in 1..MaxRunId :
    /\ CanStartRun(life, id)
    /\ life' = startRun(life, id)

CorroborateRun ==
  /\ HasActiveRun(life)
  /\ life' = corroborateRun(life)

RecordAssistantEnd ==
  \E verdict \in {"none", "failed", "aborted"}, generation \in {0, 1} :
    /\ HasActiveRun(life)
    /\ life' = recordAssistantEnd(life, verdict, generation)

EndRun ==
  \E willRetry \in BOOLEAN :
    /\ HasActiveRun(life)
    /\ life' = endRun(life, willRetry)

AbortRun ==
  /\ CanAbortRun(life)
  /\ life' = abortRun(life)

RequestKill ==
  /\ ~isLifecycleTerminal(life)
  /\ life' = requestKill(life)

ResetRunViewForSession ==
  /\ ~isLifecycleTerminal(life)
  /\ life' = resetRunViewForSession(life)

SettleRunToIdle ==
  \E outcome \in {"none", "succeeded", "failed", "aborted"},
     aborted, withError \in BOOLEAN :
    life' = settleRunToIdle(life, outcome, aborted, withError)

MarkStopped ==
  \E closedWithError \in BOOLEAN :
    /\ ~isLifecycleTerminal(life)
    /\ life' = markStopped(life, closedWithError)

LifecycleNext ==
  \/ StartRun
  \/ CorroborateRun
  \/ RecordAssistantEnd
  \/ EndRun
  \/ AbortRun
  \/ RequestKill
  \/ ResetRunViewForSession
  \/ SettleRunToIdle
  \/ MarkStopped

LifecycleSpec == LifecycleInit /\ [][LifecycleNext]_lifecycleVars

-----------------------------------------------------------------------------
(* Types and the shape of the run history.                                 *)

(* The lifecycle record keeps the field types of lifecycle.ts. *)
LifecycleTypeOK == life \in LifecycleState

(***************************************************************************)
(* The history is a window on the numbered runs: ids grow along it, none   *)
(* is beyond the run counter, and only the newest run can be active, so    *)
(* that currentRun is the only run an event can still change.              *)
(***************************************************************************)
HistoryOrdered ==
  /\ OrderedRuns(life.runs, life.runSequence)
  /\ Len(life.runs) <= MAX_RUN_HISTORY

(***************************************************************************)
(* The settlement cursor never passes the run counter, and a run that is   *)
(* active, retrying or finishing is beyond the cursor: the run the handle  *)
(* reports on is always one whose settlement is still to come.             *)
(***************************************************************************)
CursorBehindOpenRun == CursorBehind(life)

(***************************************************************************)
(* A live handle that reports a settled result reports it of an idle       *)
(* child, and the error it shows is one of this run: present exactly when  *)
(* the run failed.  startRun, settleRunToIdle and resetRunViewForSession   *)
(* each clear part of the previous result; a leftover would be shown as    *)
(* the new one's.                                                          *)
(***************************************************************************)
SettledViewCoherent == CoherentResult(life)

(***************************************************************************)
(* The derived fields that the inspector and older readers use agree with  *)
(* the process and run model after every operation, although each          *)
(* operation decides for itself whether to call syncLifecycleCompatibility *)
(***************************************************************************)
CompatInSync == InSync(life)

(* A closed process with an unsettled run is never reported as done. *)
UnsettledCloseIsError ==
  (life.processState = "stopped" /\ life.lastSettledRunId < life.runSequence) =>
    /\ life.settlementStatus = "closed_without_settlement"
    /\ life.state \in {"error", "killed"}

-----------------------------------------------------------------------------
(* What a step may never do.                                               *)

(* No late event changes any field of a handle whose process has stopped. *)
StoppedIsFinal == [][life.processState = "stopped" => UNCHANGED life]_lifecycleVars

(***************************************************************************)
(* Once a kill was requested no further run starts, and the request is     *)
(* never withdrawn, so a child that is being removed cannot look busy with *)
(* a new turn.                                                             *)
(***************************************************************************)
KillIsSticky ==
  [][life.killRequested =>
       /\ life'.killRequested
       /\ life'.runSequence = life.runSequence]_lifecycleVars

(***************************************************************************)
(* A run that ended aborted is never settled as anything else: neither a   *)
(* native success record nor a retry can overwrite an interruption that    *)
(* abortRun or the final message recorded.  Only an explicit failure can.  *)
(***************************************************************************)
AbortedNeverSucceeds ==
  [][\A i \in 1..Len(life.runs), j \in 1..Len(life'.runs) :
       /\ life.runs[i].id = life'.runs[j].id
       /\ life.runs[i].outcome = "aborted"
       => life'.runs[j].outcome \notin {"succeeded", "pending"}]_lifecycleVars

Ledger == INSTANCE RunLedger
            WITH started <- life.runSequence,
                 settled <- life.lastSettledRunId,
                 alive <- life.processState = "alive"

(***************************************************************************)
(* The lifecycle record implements the run ledger: under any sequence of   *)
(* calls each run settles at most once, in order, and only while alive.    *)
(***************************************************************************)
RefinesRunLedger == Ledger!LedgerSpec

(* The inductive invariant: every operation keeps the record well formed. *)
LifecycleInvariant == WellFormed(life) /\ UnsettledCloseIsError
==============================================================================
