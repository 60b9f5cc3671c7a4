--------------------------- MODULE LifecycleProofs ---------------------------
(***************************************************************************)
(* The operations on a lifecycle record, one lemma each: what the record   *)
(* was, it is again, and what else the operation promises its callers; and *)
(* what holds of a record under any sequence of them.                      *)
(***************************************************************************)
EXTENDS SubagentLifecycle, SequenceTheorems, TLAPS

(* Only the two derived fields change. *)
LEMMA SyncType ==
  ASSUME NEW s \in LifecycleState
  PROVE  /\ syncLifecycleCompatibility(s) \in LifecycleState
         /\ syncLifecycleCompatibility(s) =
              [s EXCEPT !.state = CompatState(s),
                        !.lifecycle = CompatLifecycle(s)]
<1>1. CompatState(s) \in {"starting", "running", "done", "error", "killed"}
  BY DEF CompatState
<1>2. CompatLifecycle(s) \in
        {"idle", "running", "retrying", "finishing", "killing",
         "done", "error", "killed"}
  <2>1. CASE s.processState = "stopped"
    BY <2>1 DEF CompatLifecycle, CompatState
  <2>2. CASE s.processState # "stopped"
    BY <2>2 DEF CompatLifecycle, LifecycleState
  <2> QED
    BY <2>1, <2>2
<1> QED
  BY <1>1, <1>2, ZenonT(60) DEF LifecycleState, syncLifecycleCompatibility

-----------------------------------------------------------------------------
(* Run histories.                                                          *)

(* A window on an ordered history is an ordered history. *)
LEMMA WindowOfRuns ==
  ASSUME NEW runs \in Seq(SubagentRun), NEW last \in Nat,
         OrderedRuns(runs, last),
         NEW m \in Nat, m >= 1, NEW n \in Nat, n <= Len(runs)
  PROVE  /\ SubSeq(runs, m, n) \in Seq(SubagentRun)
         /\ Len(SubSeq(runs, m, n)) = IF m <= n THEN n - m + 1 ELSE 0
         /\ \A i \in 1..Len(SubSeq(runs, m, n)) :
              /\ m + i - 1 \in m..n
              /\ SubSeq(runs, m, n)[i] = runs[m + i - 1]
         /\ OrderedRuns(SubSeq(runs, m, n), last)
<1>1. \A i \in m..n : i \in 1..Len(runs) /\ runs[i] \in SubagentRun
  BY ElementOfSeq
<1>2. /\ SubSeq(runs, m, n) \in Seq(SubagentRun)
      /\ Len(SubSeq(runs, m, n)) = IF m <= n THEN n - m + 1 ELSE 0
      /\ \A i \in 1..n - m + 1 : SubSeq(runs, m, n)[i] = runs[m + i - 1]
  BY <1>1, SubSeqProperties
<1> HIDE <1>1
<1>3. SUFFICES ASSUME NEW w, w = SubSeq(runs, m, n)
               PROVE  /\ \A i \in 1..Len(w) :
                           m + i - 1 \in m..n /\ w[i] = runs[m + i - 1]
                      /\ OrderedRuns(w, last)
  BY <1>2
<1>4. \A i \in 1..Len(w) :
        /\ m + i - 1 \in m..n
        /\ m + i - 1 \in 1..Len(runs)
        /\ w[i] = runs[m + i - 1]
        /\ i = Len(w) <=> m + i - 1 = n
  BY <1>2, <1>3
<1>5. Len(w) \in Nat
  BY <1>2, <1>3
<1>6. \A i \in 1..Len(w) : w[i].id <= last
  BY <1>4 DEF OrderedRuns
<1>7. \A i, j \in 1..Len(w) : i < j => w[i].id < w[j].id
  <2> SUFFICES ASSUME NEW i \in 1..Len(w), NEW j \in 1..Len(w), i < j
               PROVE  w[i].id < w[j].id
    OBVIOUS
  <2>1. m + i - 1 < m + j - 1
    BY <1>5
  <2> QED
    BY <2>1, <1>4 DEF OrderedRuns
<1>8. \A i \in 1..Len(w) : w[i].phase = "active" => i = Len(w)
  <2> SUFFICES ASSUME NEW i \in 1..Len(w), w[i].phase = "active"
               PROVE  i = Len(w)
    OBVIOUS
  <2>1. m + i - 1 = Len(runs)
    BY <1>4 DEF OrderedRuns
  <2>2. m + i - 1 <= n
    BY <1>4
  <2> QED
    BY <2>1, <2>2, <1>4
<1>9. \A i \in 1..Len(w) : w[i].phase = "ended" => w[i].outcome # "pending"
  BY <1>4 DEF OrderedRuns
<1> QED
  BY <1>4, <1>6, <1>7, <1>8, <1>9 DEF OrderedRuns

(* A run started after the newest one extends an ordered history. *)
LEMMA AppendRun ==
  ASSUME NEW runs \in Seq(SubagentRun), NEW last \in Nat,
         OrderedRuns(runs, last),
         \A i \in 1..Len(runs) : runs[i].phase # "active",
         NEW run \in SubagentRun, run.id > last, run.phase = "active"
  PROVE  /\ Append(runs, run) \in Seq(SubagentRun)
         /\ Len(Append(runs, run)) = Len(runs) + 1
         /\ Append(runs, run)[Len(runs) + 1] = run
         /\ OrderedRuns(Append(runs, run), run.id)
<1>1. SUFFICES ASSUME NEW grown, grown = Append(runs, run)
               PROVE  /\ grown \in Seq(SubagentRun)
                      /\ Len(grown) = Len(runs) + 1
                      /\ grown[Len(runs) + 1] = run
                      /\ OrderedRuns(grown, run.id)
  OBVIOUS
<1>2. /\ grown \in Seq(SubagentRun)
      /\ Len(grown) = Len(runs) + 1
      /\ grown[Len(runs) + 1] = run
      /\ \A i \in 1..Len(runs) : grown[i] = runs[i]
      /\ Len(runs) \in Nat
  BY <1>1, AppendProperties
<1>3. /\ run.id \in Nat
      /\ \A i \in 1..Len(runs) : runs[i].id \in Nat
  <2>1. \A i \in 1..Len(runs) : runs[i] \in SubagentRun
    BY ElementOfSeq
  <2> QED
    BY <2>1 DEF SubagentRun
<1>4. \A i \in 1..Len(grown) : grown[i].id <= run.id
  BY <1>2, <1>3 DEF OrderedRuns
<1>5. \A i, j \in 1..Len(grown) : i < j => grown[i].id < grown[j].id
  <2> SUFFICES ASSUME NEW i \in 1..Len(grown), NEW j \in 1..Len(grown), i < j
               PROVE  grown[i].id < grown[j].id
    OBVIOUS
  <2>1. CASE j = Len(runs) + 1
    BY <2>1, <1>2, <1>3 DEF OrderedRuns
  <2>2. CASE j # Len(runs) + 1
    BY <2>2, <1>2 DEF OrderedRuns
  <2> QED
    BY <2>1, <2>2
<1>6. \A i \in 1..Len(grown) : grown[i].phase = "active" => i = Len(grown)
  BY <1>2
<1>7. \A i \in 1..Len(grown) :
        grown[i].phase = "ended" => grown[i].outcome # "pending"
  BY <1>2 DEF OrderedRuns
<1> QED
  BY <1>2, <1>4, <1>5, <1>6, <1>7 DEF OrderedRuns

(* Trimming a history to its bound keeps its newest run. *)
LEMMA KeepRecentRuns ==
  ASSUME NEW runs \in Seq(SubagentRun), NEW last \in Nat,
         OrderedRuns(runs, last), runs # << >>
  PROVE  /\ KeepRecent(runs) \in Seq(SubagentRun)
         /\ KeepRecent(runs) # << >>
         /\ Len(KeepRecent(runs)) <= MAX_RUN_HISTORY
         /\ KeepRecent(runs)[Len(KeepRecent(runs))] = runs[Len(runs)]
         /\ OrderedRuns(KeepRecent(runs), last)
<1>1. /\ Len(runs) \in Nat
      /\ Len(runs) >= 1
  OBVIOUS
<1>2. CASE Len(runs) <= MAX_RUN_HISTORY
  BY <1>1, <1>2, HistoryAssumption DEF KeepRecent
<1>3. CASE ~(Len(runs) <= MAX_RUN_HISTORY)
  <2> DEFINE m == Len(runs) - MAX_RUN_HISTORY + 1
  <2>1. /\ m \in Nat
        /\ m >= 1
        /\ m <= Len(runs)
        /\ m + MAX_RUN_HISTORY - 1 = Len(runs)
        /\ Len(runs) - m + 1 = MAX_RUN_HISTORY
    BY <1>1, <1>3, HistoryAssumption
  <2>2. KeepRecent(runs) = SubSeq(runs, m, Len(runs))
    BY <1>1, <1>3, HistoryAssumption DEF KeepRecent
  <2> HIDE DEF m
  <2>3. /\ SubSeq(runs, m, Len(runs)) \in Seq(SubagentRun)
        /\ Len(SubSeq(runs, m, Len(runs))) =
             IF m <= Len(runs) THEN Len(runs) - m + 1 ELSE 0
        /\ \A i \in 1..Len(SubSeq(runs, m, Len(runs))) :
              SubSeq(runs, m, Len(runs))[i] = runs[m + i - 1]
        /\ OrderedRuns(SubSeq(runs, m, Len(runs)), last)
    BY <1>1, <2>1, WindowOfRuns
  <2>4. /\ Len(KeepRecent(runs)) = MAX_RUN_HISTORY
        /\ MAX_RUN_HISTORY \in 1..MAX_RUN_HISTORY
    BY <2>1, <2>2, <2>3, HistoryAssumption
  <2>5. KeepRecent(runs)[MAX_RUN_HISTORY] = runs[Len(runs)]
    <3>1. MAX_RUN_HISTORY \in 1..Len(SubSeq(runs, m, Len(runs)))
      BY <2>2, <2>4
    <3>2. SubSeq(runs, m, Len(runs))[MAX_RUN_HISTORY]
            = runs[m + MAX_RUN_HISTORY - 1]
      BY <2>3, <3>1
    <3> QED
      BY <2>1, <2>2, <3>2
  <2>6. KeepRecent(runs) # << >>
    BY <2>4, HistoryAssumption
  <2>7. /\ KeepRecent(runs) \in Seq(SubagentRun)
        /\ OrderedRuns(KeepRecent(runs), last)
    BY <2>2, <2>3
  <2>8. MAX_RUN_HISTORY <= MAX_RUN_HISTORY
    BY HistoryAssumption
  <2>9. /\ KeepRecent(runs)[Len(KeepRecent(runs))] = runs[Len(runs)]
        /\ Len(KeepRecent(runs)) <= MAX_RUN_HISTORY
    BY <2>4, <2>5, <2>8
  <2> QED
    BY <2>6, <2>7, <2>9
<1> QED
  BY <1>2, <1>3

(* Rewriting the newest run, under its own id, keeps a history ordered. *)
LEMMA ReplaceRun ==
  ASSUME NEW runs \in Seq(SubagentRun), NEW last \in Nat,
         OrderedRuns(runs, last), runs # << >>,
         NEW run \in SubagentRun,
         run.id = runs[Len(runs)].id,
         run.phase = "ended" => run.outcome # "pending"
  PROVE  /\ [runs EXCEPT ![Len(runs)] = run] \in Seq(SubagentRun)
         /\ Len([runs EXCEPT ![Len(runs)] = run]) = Len(runs)
         /\ [runs EXCEPT ![Len(runs)] = run][Len(runs)] = run
         /\ OrderedRuns([runs EXCEPT ![Len(runs)] = run], last)
<1> DEFINE new == [runs EXCEPT ![Len(runs)] = run]
<1>1. /\ Len(runs) \in 1..Len(runs)
      /\ Len(runs) \in Nat
  OBVIOUS
<1>2. /\ new \in Seq(SubagentRun)
      /\ Len(new) = Len(runs)
      /\ \A i \in 1..Len(runs) : new[i] = IF i = Len(runs) THEN run ELSE runs[i]
  BY <1>1, ExceptSeq
<1>3. \A i \in 1..Len(runs) : new[i].id = runs[i].id
  BY <1>2
<1>4. \A i \in 1..Len(new) : new[i].id <= last
  BY <1>2, <1>3 DEF OrderedRuns
<1>5. \A i, j \in 1..Len(new) : i < j => new[i].id < new[j].id
  BY <1>2, <1>3 DEF OrderedRuns
<1>6. \A i \in 1..Len(new) : new[i].phase = "active" => i = Len(new)
  BY <1>2 DEF OrderedRuns
<1>7. \A i \in 1..Len(new) : new[i].phase = "ended" => new[i].outcome # "pending"
  BY <1>2 DEF OrderedRuns
<1> QED
  BY <1>1, <1>2, <1>4, <1>5, <1>6, <1>7 DEF OrderedRuns

(* Dropping the newest run leaves an ordered history of ended runs. *)
LEMMA DropRun ==
  ASSUME NEW runs \in Seq(SubagentRun), NEW last \in Nat,
         OrderedRuns(runs, last), runs # << >>
  PROVE  /\ SubSeq(runs, 1, Len(runs) - 1) \in Seq(SubagentRun)
         /\ Len(SubSeq(runs, 1, Len(runs) - 1)) = Len(runs) - 1
         /\ OrderedRuns(SubSeq(runs, 1, Len(runs) - 1), last)
         /\ \A i \in 1..Len(SubSeq(runs, 1, Len(runs) - 1)) :
              SubSeq(runs, 1, Len(runs) - 1)[i].phase # "active"
<1>0. Len(runs) - 1 \in Nat
  OBVIOUS
<1>1. SUFFICES ASSUME NEW n \in Nat, n = Len(runs) - 1
               PROVE  /\ SubSeq(runs, 1, n) \in Seq(SubagentRun)
                      /\ Len(SubSeq(runs, 1, n)) = n
                      /\ OrderedRuns(SubSeq(runs, 1, n), last)
                      /\ \A i \in 1..Len(SubSeq(runs, 1, n)) :
                           SubSeq(runs, 1, n)[i].phase # "active"
  BY <1>0
<1>2. /\ SubSeq(runs, 1, n) \in Seq(SubagentRun)
      /\ Len(SubSeq(runs, 1, n)) = IF 1 <= n THEN n - 1 + 1 ELSE 0
      /\ \A i \in 1..Len(SubSeq(runs, 1, n)) :
            /\ 1 + i - 1 \in 1..n
            /\ SubSeq(runs, 1, n)[i] = runs[1 + i - 1]
      /\ OrderedRuns(SubSeq(runs, 1, n), last)
  BY <1>1, WindowOfRuns
<1>3. /\ Len(SubSeq(runs, 1, n)) = n
      /\ \A i \in 1..n : SubSeq(runs, 1, n)[i] = runs[i]
      /\ \A i \in 1..n : runs[i].phase # "active"
  BY <1>1, <1>2 DEF OrderedRuns
<1> QED
  BY <1>2, <1>3

-----------------------------------------------------------------------------
(* Records.  Core is consistentness before the derived fields are synced. *)

Core(s) ==
  /\ s \in LifecycleState
  /\ OrderedRuns(s.runs, s.runSequence)
  /\ Len(s.runs) <= MAX_RUN_HISTORY
  /\ CursorBehind(s)
  /\ ActiveRunShown(s)
  /\ SettledIsIdle(s)

(* Two records that agree on the fields Core and the ledger read. *)
SameModel(s, t) ==
  /\ t.processState = s.processState
  /\ t.runState = s.runState
  /\ t.runSequence = s.runSequence
  /\ t.lastSettledRunId = s.lastSettledRunId
  /\ t.runs = s.runs
  /\ t.runOutcome = s.runOutcome
  /\ t.settlementStatus = s.settlementStatus
  /\ t.tentativeError = s.tentativeError
  /\ t.finalError = s.finalError
  /\ t.killRequested = s.killRequested

(* Syncing changes no field of the model, only the two derived ones. *)
LEMMA SyncFields ==
  ASSUME NEW s \in LifecycleState
  PROVE  /\ SameModel(s, syncLifecycleCompatibility(s))
         /\ syncLifecycleCompatibility(s).state = CompatState(s)
         /\ syncLifecycleCompatibility(s).lifecycle = CompatLifecycle(s)
BY DEF SameModel, LifecycleState, syncLifecycleCompatibility

(* Syncing the derived fields of a core record makes it consistent. *)
LEMMA SyncConsistent ==
  ASSUME NEW s, Core(s)
  PROVE  /\ Consistent(syncLifecycleCompatibility(s))
         /\ ErrorOfResult(s) => ErrorOfResult(syncLifecycleCompatibility(s))
<1> DEFINE t == syncLifecycleCompatibility(s)
<1>1. /\ s \in LifecycleState
      /\ t \in LifecycleState
  BY SyncType DEF Core
<1>2. /\ SameModel(s, t)
      /\ t.state = CompatState(s)
      /\ t.lifecycle = CompatLifecycle(s)
  BY <1>1, SyncFields
<1> HIDE DEF t
<1>3. InSync(t)
  BY <1>2 DEF InSync, CompatState, CompatLifecycle, SameModel
<1>4. CursorBehind(t) /\ ActiveRunShown(t) /\ SettledIsIdle(t)
  BY <1>2 DEF Core, SameModel, CursorBehind, ActiveRunShown, SettledIsIdle, ShowsResult,
              HasActiveRun, isLifecycleTerminal, CurrentRunIn, HasRun, currentRun
<1>5. OrderedRuns(t.runs, t.runSequence) /\ Len(t.runs) <= MAX_RUN_HISTORY
  BY <1>2 DEF Core, SameModel
<1>6. ErrorOfResult(s) => ErrorOfResult(t)
  BY <1>2 DEF SameModel, ErrorOfResult, ShowsResult, isLifecycleTerminal
<1> QED
  BY <1>1, <1>3, <1>4, <1>5, <1>6 DEF Consistent, t

(* A consistent record is a core record. *)
LEMMA ConsistentCore ==
  ASSUME NEW s, Consistent(s)
  PROVE  Core(s)
BY DEF Consistent, Core

(* The newest run of a consistent record that has one. *)
LEMMA CurrentRunFacts ==
  ASSUME NEW s, Core(s), HasRun(s)
  PROVE  /\ Len(s.runs) \in 1..Len(s.runs)
         /\ currentRun(s) \in SubagentRun
         /\ currentRun(s) = s.runs[Len(s.runs)]
         /\ currentRun(s).id \in Nat
         /\ currentRun(s).id <= s.runSequence
         /\ currentRun(s).phase = "ended" => currentRun(s).outcome # "pending"
<1>1. s.runs \in Seq(SubagentRun) /\ s.runs # << >>
  BY DEF Core, LifecycleState, HasRun
<1>2. Len(s.runs) \in 1..Len(s.runs)
  BY <1>1
<1>3. currentRun(s) \in SubagentRun
  BY <1>1, <1>2, ElementOfSeq DEF currentRun
<1> QED
  BY <1>2, <1>3 DEF Core, OrderedRuns, currentRun, SubagentRun

(* Rewriting the newest run of a record. *)
LEMMA UpdateCurrentRunFacts ==
  ASSUME NEW s, Core(s), HasRun(s),
         NEW run \in SubagentRun, run.id = currentRun(s).id,
         run.phase = "ended" => run.outcome # "pending"
  PROVE  LET t == UpdateCurrentRun(s, run)
         IN  /\ t \in LifecycleState
             /\ t = [s EXCEPT !.runs = t.runs]
             /\ HasRun(t)
             /\ currentRun(t) = run
             /\ Len(t.runs) <= MAX_RUN_HISTORY
             /\ OrderedRuns(t.runs, s.runSequence)
<1> DEFINE runs == [s.runs EXCEPT ![Len(s.runs)] = run]
           t == UpdateCurrentRun(s, run)
<1>1. /\ s \in LifecycleState
      /\ s.runs \in Seq(SubagentRun)
      /\ s.runs # << >>
      /\ s.runSequence \in Nat
      /\ run.id = s.runs[Len(s.runs)].id
      /\ OrderedRuns(s.runs, s.runSequence)
      /\ Len(s.runs) <= MAX_RUN_HISTORY
  BY DEF Core, LifecycleState, HasRun, currentRun
<1>2. /\ runs \in Seq(SubagentRun)
      /\ Len(runs) = Len(s.runs)
      /\ runs[Len(s.runs)] = run
      /\ OrderedRuns(runs, s.runSequence)
  BY <1>1, ReplaceRun
<1>3. t = [s EXCEPT !.runs = runs] /\ t.runs = runs
  BY <1>1 DEF UpdateCurrentRun, LifecycleState
<1>4. runs # << >>
  BY <1>1, <1>2
<1> HIDE DEF runs
<1>5. t \in LifecycleState
  BY <1>1, <1>2, <1>3 DEF LifecycleState
<1> QED
  BY <1>1, <1>2, <1>3, <1>4, <1>5 DEF HasRun, currentRun

-----------------------------------------------------------------------------
(* One lemma per operation: it keeps a record consistent, and it moves    *)
(* the counters and flags of the ledger only as stated.                    *)

SameLedger(s, t) ==
  /\ t.processState = s.processState
  /\ t.runSequence = s.runSequence
  /\ t.lastSettledRunId = s.lastSettledRunId
  /\ t.killRequested = s.killRequested

(* A settlement that is accepted is the one of the newest run, which has    *)
(* not settled before.                                                     *)
RunSettled(s, t, aborted) ==
  /\ t.settlementStatus = "settled"
  /\ HasRun(t) /\ ~CurrentRunIn(t, "active")
  /\ t.lastSettledRunId = currentRun(t).id
  /\ t.lastSettledRunId > s.lastSettledRunId
  /\ currentRun(t).outcome \in Outcome \ {"pending"}
  /\ aborted => currentRun(t).outcome = "aborted"

(* At most the newest run has gone, one that was active. *)
RunsDropped(s, t) ==
  /\ t.settlementStatus = s.settlementStatus
  /\ \/ t = s
     \/ CurrentRunIn(s, "active") /\ ~currentRun(s).corroborated

(* The newest run has ended, and what the handle reports of its settlement *)
(* is not changed by that.                                                 *)
RunEnded(s, t) ==
  /\ CurrentRunIn(t, "ended")
  /\ currentRun(t).id = currentRun(s).id
  /\ t.settlementStatus = s.settlementStatus

(* A fresh handle is consistent and has counted no run. *)
LEMMA InitialRecord ==
  /\ WellFormed(createLifecycleState)
  /\ createLifecycleState.runs = << >>
  /\ createLifecycleState.settlementStatus = "pending"
  /\ createLifecycleState.runSequence = 0
  /\ createLifecycleState.lastSettledRunId = 0
  /\ createLifecycleState.processState = "alive"
<1> DEFINE fresh ==
      [ state |-> "starting", lifecycle |-> "idle", processState |-> "alive",
        runState |-> "idle", runSequence |-> 0, lastSettledRunId |-> 0,
        runs |-> << >>, runOutcome |-> "pending", settlementStatus |-> "pending",
        tentativeError |-> "none", finalError |-> "none",
        killRequested |-> FALSE ]
<1>1. fresh \in LifecycleState
  BY DEF LifecycleState, Outcome, ErrorText
<1>2. Len(fresh.runs) = 0 /\ 0 <= MAX_RUN_HISTORY
  BY HistoryAssumption
<1>3. OrderedRuns(fresh.runs, fresh.runSequence)
  BY <1>2 DEF OrderedRuns
<1>4. CursorBehind(fresh) /\ ActiveRunShown(fresh) /\ SettledIsIdle(fresh) /\ ErrorOfResult(fresh)
  BY DEF ErrorOfResult, CursorBehind, ActiveRunShown, SettledIsIdle, ShowsResult, HasActiveRun,
         CurrentRunIn, HasRun, isLifecycleTerminal
<1>5. Core(fresh)
  BY <1>1, <1>2, <1>3, <1>4 DEF Core
<1>6. createLifecycleState = syncLifecycleCompatibility(fresh)
  BY DEF createLifecycleState
<1> QED
  BY <1>1, <1>4, <1>5, <1>6, SyncConsistent, SyncFields DEF SameModel, WellFormed

(* Starting a run opens it beyond the cursor, and clears the old result. *)
LEMMA StartRunStep ==
  ASSUME NEW s, Consistent(s), NEW id \in Nat \ {0}, CanStartRun(s, id)
  PROVE  /\ Consistent(startRun(s, id)) /\ ErrorOfResult(startRun(s, id))
         /\ startRun(s, id).settlementStatus = "pending"
         /\ HasActiveRun(startRun(s, id)) /\ currentRun(startRun(s, id)).id = id
         /\ startRun(s, id).runSequence = id
         /\ startRun(s, id).lastSettledRunId = s.lastSettledRunId
         /\ startRun(s, id).processState = s.processState
         /\ startRun(s, id).killRequested = s.killRequested
<1> DEFINE runs == KeepRecent(Append(s.runs, NewRun(id)))
<1>1. /\ s \in LifecycleState
      /\ s.runs \in Seq(SubagentRun)
      /\ s.runSequence \in Nat
      /\ s.lastSettledRunId \in Nat
      /\ s.lastSettledRunId <= s.runSequence
      /\ OrderedRuns(s.runs, s.runSequence)
      /\ s.processState = "alive"
      /\ id > s.runSequence
  BY DEF Consistent, LifecycleState, CursorBehind, CanStartRun,
         isLifecycleTerminal
<1>2. \A i \in 1..Len(s.runs) : s.runs[i].phase # "active"
  BY <1>1 DEF CanStartRun, CurrentRunIn, HasRun, currentRun, OrderedRuns
<1>3. /\ NewRun(id) \in SubagentRun
      /\ NewRun(id).id = id
      /\ NewRun(id).phase = "active"
  BY DEF NewRun, SubagentRun, Outcome, ErrorText
<1>4. /\ Append(s.runs, NewRun(id)) \in Seq(SubagentRun)
      /\ Len(Append(s.runs, NewRun(id))) = Len(s.runs) + 1
      /\ Append(s.runs, NewRun(id))[Len(s.runs) + 1] = NewRun(id)
      /\ OrderedRuns(Append(s.runs, NewRun(id)), id)
  BY <1>1, <1>2, <1>3, AppendRun
<1>5. Append(s.runs, NewRun(id)) # << >>
  BY <1>1, <1>3, AppendProperties
<1>6. /\ runs \in Seq(SubagentRun)
      /\ runs # << >>
      /\ Len(runs) <= MAX_RUN_HISTORY
      /\ runs[Len(runs)] = NewRun(id)
      /\ OrderedRuns(runs, id)
  BY <1>4, <1>5, KeepRecentRuns
<1> HIDE DEF runs
<1> DEFINE p == [s EXCEPT !.runSequence = id,
                          !.runs = runs,
                          !.runState = "running",
                          !.runOutcome = "pending",
                          !.settlementStatus = "pending",
                          !.tentativeError = "none",
                          !.finalError = "none"]
<1>7. "pending" \in Outcome /\ "none" \in ErrorText
  BY DEF Outcome, ErrorText
<1>8. p \in LifecycleState
  BY <1>1, <1>6, <1>7 DEF LifecycleState
<1>9. /\ p.runSequence = id
      /\ p.runs = runs
      /\ p.runState = "running"
      /\ p.settlementStatus = "pending"
      /\ p.lastSettledRunId = s.lastSettledRunId
      /\ p.processState = s.processState
      /\ p.killRequested = s.killRequested
  BY <1>1 DEF LifecycleState
<1>10. startRun(s, id) = syncLifecycleCompatibility(p)
  BY DEF startRun, runs
<1> HIDE DEF p
<1>11. Core(p)
  <2>1. CursorBehind(p)
    BY <1>1, <1>3, <1>6, <1>9 DEF CursorBehind, CurrentRunIn, currentRun
  <2>2. ActiveRunShown(p) /\ SettledIsIdle(p)
    BY <1>9 DEF ActiveRunShown, SettledIsIdle, ShowsResult
  <2> QED
    BY <2>1, <2>2, <1>6, <1>8, <1>9 DEF Core
<1>12. ErrorOfResult(p)
  BY <1>9 DEF ErrorOfResult, ShowsResult
<1>13. HasActiveRun(p) /\ currentRun(p).id = id
  BY <1>1, <1>3, <1>6, <1>9
     DEF HasActiveRun, isLifecycleTerminal, CurrentRunIn, HasRun, currentRun
<1>14. /\ SameModel(p, startRun(s, id))
       /\ Consistent(startRun(s, id)) /\ ErrorOfResult(startRun(s, id))
  BY <1>8, <1>10, <1>11, <1>12, SyncConsistent, SyncFields
<1> QED
  BY <1>9, <1>13, <1>14
     DEF SameModel, HasActiveRun, isLifecycleTerminal, CurrentRunIn, HasRun, currentRun

(* Corroborating a run changes nothing but its flag. *)
LEMMA CorroborateRunStep ==
  ASSUME NEW s, Consistent(s), HasActiveRun(s)
  PROVE  /\ Consistent(corroborateRun(s))
         /\ ErrorOfResult(s) => ErrorOfResult(corroborateRun(s))
         /\ SameLedger(s, corroborateRun(s))
         /\ HasActiveRun(corroborateRun(s))
         /\ currentRun(corroborateRun(s)).corroborated
         /\ currentRun(corroborateRun(s)).id = currentRun(s).id
<1> DEFINE run == [currentRun(s) EXCEPT !.corroborated = TRUE]
           t == UpdateCurrentRun(s, run)
<1>1. Core(s) /\ HasRun(s) /\ currentRun(s).phase = "active"
  BY ConsistentCore DEF HasActiveRun, CurrentRunIn
<1>2. /\ run \in SubagentRun
      /\ run.id = currentRun(s).id
      /\ run.phase = "active"
      /\ run.corroborated
  BY <1>1, CurrentRunFacts DEF SubagentRun
<1> HIDE DEF run
<1>3. /\ t \in LifecycleState
      /\ t = [s EXCEPT !.runs = t.runs]
      /\ HasRun(t)
      /\ currentRun(t) = run
      /\ Len(t.runs) <= MAX_RUN_HISTORY
      /\ OrderedRuns(t.runs, s.runSequence)
  BY <1>1, <1>2, UpdateCurrentRunFacts
<1> HIDE DEF t
<1>4. /\ s \in LifecycleState
      /\ SameLedger(s, t)
      /\ t.runState = s.runState
      /\ t.settlementStatus = s.settlementStatus
      /\ t.tentativeError = s.tentativeError
      /\ t.finalError = s.finalError
      /\ t.runOutcome = s.runOutcome
      /\ t.state = s.state
      /\ t.lifecycle = s.lifecycle
  BY <1>1, <1>3 DEF Core, LifecycleState, SameLedger
<1>5. CursorBehind(t) /\ ActiveRunShown(t) /\ SettledIsIdle(t) /\ InSync(t)
  BY <1>1, <1>2, <1>3, <1>4
     DEF Consistent, SameLedger, CursorBehind, ActiveRunShown, SettledIsIdle, ShowsResult,
         InSync, CompatState, CompatLifecycle, HasActiveRun,
         isLifecycleTerminal, CurrentRunIn
<1>6. corroborateRun(s) = t
  BY DEF corroborateRun, run, t
<1>7. HasActiveRun(t)
  BY <1>2, <1>3, <1>4 DEF HasActiveRun, CurrentRunIn, SameLedger, isLifecycleTerminal
<1>8. ErrorOfResult(s) => ErrorOfResult(t)
  BY <1>4 DEF ErrorOfResult, ShowsResult, SameLedger, isLifecycleTerminal
<1> QED
  BY <1>2, <1>3, <1>4, <1>5, <1>6, <1>7, <1>8 DEF Consistent, SameLedger

(* Recording the final message keeps the active run active. *)
LEMMA RecordAssistantEndStep ==
  ASSUME NEW s, Consistent(s), HasActiveRun(s),
         NEW verdict \in {"none", "failed", "aborted"},
         NEW generation \in Nat
  PROVE  LET t == recordAssistantEnd(s, verdict, generation)
         IN  /\ Consistent(t) /\ ErrorOfResult(t)
             /\ SameLedger(s, t)
             /\ HasActiveRun(t)
             /\ currentRun(t).id = currentRun(s).id
<1> DEFINE run == [currentRun(s) EXCEPT
                     !.corroborated = TRUE,
                     !.assistantMessageGeneration =
                       IF generation = 0 THEN @ ELSE generation,
                     !.outcome = IF verdict = "none" THEN @ ELSE verdict,
                     !.error = IF verdict = "failed" THEN "assistant" ELSE @]
           tentative == CASE verdict = "aborted" -> "none"
                          [] verdict = "failed" -> "assistant"
                          [] OTHER -> s.tentativeError
           t == UpdateCurrentRun(s, run)
           p == [t EXCEPT !.tentativeError = tentative]
<1>1. Core(s) /\ HasRun(s) /\ currentRun(s).phase = "active"
  BY ConsistentCore DEF HasActiveRun, CurrentRunIn
<1>2. /\ run \in SubagentRun
      /\ run.id = currentRun(s).id
      /\ run.phase = "active"
  <2>1. currentRun(s) \in SubagentRun
    BY <1>1, CurrentRunFacts
  <2> QED
    BY <1>1, <2>1 DEF SubagentRun, Outcome, ErrorText
<1>3. tentative \in ErrorText
  BY <1>1 DEF Core, LifecycleState, ErrorText
<1> HIDE DEF run, tentative
<1>4. /\ t \in LifecycleState
      /\ t = [s EXCEPT !.runs = t.runs]
      /\ HasRun(t)
      /\ currentRun(t) = run
      /\ Len(t.runs) <= MAX_RUN_HISTORY
      /\ OrderedRuns(t.runs, s.runSequence)
  BY <1>1, <1>2, UpdateCurrentRunFacts
<1> HIDE DEF t
<1>5. /\ s \in LifecycleState
      /\ p \in LifecycleState
      /\ SameLedger(s, p)
      /\ p.runs = t.runs
      /\ p.runState = s.runState
      /\ p.settlementStatus = s.settlementStatus
      /\ p.runOutcome = s.runOutcome
      /\ p.state = s.state
      /\ p.lifecycle = s.lifecycle
  BY <1>1, <1>3, <1>4 DEF Core, LifecycleState, SameLedger
<1> HIDE DEF p
<1>6. s.settlementStatus = "pending" /\ s.runState = "running"
  BY DEF Consistent, ActiveRunShown
<1>7. CurrentRunIn(p, "active") /\ currentRun(p) = run
  BY <1>2, <1>4, <1>5 DEF CurrentRunIn, HasRun, currentRun
<1>8. CursorBehind(p) /\ ActiveRunShown(p) /\ SettledIsIdle(p) /\ InSync(p)
  BY <1>1, <1>2, <1>5, <1>6, <1>7
     DEF Consistent, SameLedger, CursorBehind, ActiveRunShown, SettledIsIdle, ShowsResult,
         InSync, CompatState, CompatLifecycle, CurrentRunIn
<1>9. recordAssistantEnd(s, verdict, generation) = p
  BY DEF recordAssistantEnd, run, tentative, t, p
<1>10. HasActiveRun(p) /\ ErrorOfResult(p)
  BY <1>5, <1>6, <1>7
     DEF HasActiveRun, SameLedger, isLifecycleTerminal, ErrorOfResult, ShowsResult
<1> QED
  BY <1>2, <1>4, <1>5, <1>7, <1>8, <1>9, <1>10 DEF Consistent, SameLedger

(* Ending a run keeps it beyond the cursor, retrying or finishing. *)
LEMMA EndRunStep ==
  ASSUME NEW s, Core(s), HasActiveRun(s), NEW willRetry \in BOOLEAN
  PROVE  /\ Consistent(endRun(s, willRetry)) /\ ErrorOfResult(endRun(s, willRetry))
         /\ SameLedger(s, endRun(s, willRetry))
         /\ RunEnded(s, endRun(s, willRetry))
<1> DEFINE run == [currentRun(s) EXCEPT
                     !.phase = "ended",
                     !.corroborated = TRUE,
                     !.outcome = IF @ = "pending" THEN "succeeded" ELSE @]
           t == UpdateCurrentRun(s, run)
           p == [t EXCEPT !.runState =
                   IF willRetry THEN "retrying" ELSE "finishing"]
<1>1. HasRun(s) /\ currentRun(s).phase = "active"
  BY DEF HasActiveRun, CurrentRunIn
<1>2. /\ run \in SubagentRun
      /\ run.id = currentRun(s).id
      /\ run.phase = "ended"
      /\ run.outcome # "pending"
  <2>1. currentRun(s) \in SubagentRun
    BY <1>1, CurrentRunFacts
  <2> QED
    BY <1>1, <2>1 DEF SubagentRun, Outcome
<1> HIDE DEF run
<1>3. /\ t \in LifecycleState
      /\ t = [s EXCEPT !.runs = t.runs]
      /\ HasRun(t)
      /\ currentRun(t) = run
      /\ Len(t.runs) <= MAX_RUN_HISTORY
      /\ OrderedRuns(t.runs, s.runSequence)
  BY <1>1, <1>2, UpdateCurrentRunFacts
<1> HIDE DEF t
<1>4. /\ s \in LifecycleState
      /\ p \in LifecycleState
      /\ SameLedger(s, p)
      /\ p.runs = t.runs
      /\ p.settlementStatus = s.settlementStatus
  BY <1>3 DEF Core, LifecycleState, SameLedger
<1> HIDE DEF p
<1>5. s.settlementStatus = "pending"
  BY DEF Core, ActiveRunShown
<1>6. CurrentRunIn(p, "ended") /\ currentRun(p) = run
  BY <1>2, <1>3, <1>4 DEF CurrentRunIn, HasRun, currentRun
<1>7. CursorBehind(p)
  BY <1>1, <1>2, <1>4, <1>6 DEF Core, SameLedger, CursorBehind, CurrentRunIn
<1>8. ActiveRunShown(p) /\ SettledIsIdle(p) /\ ErrorOfResult(p)
  BY <1>4, <1>5, <1>6
     DEF ActiveRunShown, SettledIsIdle, ErrorOfResult, ShowsResult, HasActiveRun, CurrentRunIn
<1>9. Core(p)
  BY <1>3, <1>4, <1>7, <1>8 DEF Core, SameLedger
<1>10. endRun(s, willRetry) = syncLifecycleCompatibility(p)
  BY DEF endRun, run, t, p
<1>11. RunEnded(s, p)
  BY <1>2, <1>4, <1>6 DEF RunEnded
<1>12. SameModel(p, endRun(s, willRetry))
  BY <1>4, <1>10, SyncFields
<1> QED
  BY <1>4, <1>8, <1>9, <1>10, <1>11, <1>12, SyncConsistent
     DEF SameLedger, SameModel, RunEnded, CurrentRunIn, HasRun, currentRun

(* Aborting ends an active run and keeps an ended one where it is. *)
LEMMA AbortRunStep ==
  ASSUME NEW s, Consistent(s), CanAbortRun(s)
  PROVE  /\ Consistent(abortRun(s))
         /\ ErrorOfResult(s) => ErrorOfResult(abortRun(s))
         /\ SameLedger(s, abortRun(s))
         /\ RunEnded(s, abortRun(s))
<1> DEFINE run == [currentRun(s) EXCEPT !.outcome = "aborted", !.error = "none"]
           t == UpdateCurrentRun(s, run)
           fenced == [t EXCEPT !.tentativeError = "none"]
<1>1. Core(s) /\ HasRun(s)
  BY ConsistentCore DEF CanAbortRun
<1>2. /\ run \in SubagentRun
      /\ run.id = currentRun(s).id
      /\ run.phase = currentRun(s).phase
      /\ run.outcome # "pending"
  <2>1. currentRun(s) \in SubagentRun
    BY <1>1, CurrentRunFacts
  <2> QED
    BY <2>1 DEF SubagentRun, Outcome, ErrorText
<1> HIDE DEF run
<1>3. /\ t \in LifecycleState
      /\ t = [s EXCEPT !.runs = t.runs]
      /\ HasRun(t)
      /\ currentRun(t) = run
      /\ Len(t.runs) <= MAX_RUN_HISTORY
      /\ OrderedRuns(t.runs, s.runSequence)
  BY <1>1, <1>2, UpdateCurrentRunFacts
<1> HIDE DEF t
<1>4. "none" \in ErrorText
  BY DEF ErrorText
<1>5. /\ s \in LifecycleState
      /\ fenced \in LifecycleState
      /\ SameLedger(s, fenced)
      /\ fenced.runs = t.runs
      /\ fenced.runState = s.runState
      /\ fenced.settlementStatus = s.settlementStatus
      /\ fenced.runOutcome = s.runOutcome
      /\ fenced.finalError = s.finalError
      /\ fenced.tentativeError = "none"
  BY <1>1, <1>3, <1>4 DEF Core, LifecycleState, SameLedger
<1> HIDE DEF fenced
<1>6. HasRun(fenced) /\ currentRun(fenced) = run
  BY <1>3, <1>5 DEF HasRun, currentRun
<1>7. CursorBehind(fenced) /\ ActiveRunShown(fenced) /\ SettledIsIdle(fenced)
  BY <1>1, <1>2, <1>5, <1>6
     DEF Core, SameLedger, CursorBehind, ActiveRunShown, SettledIsIdle, ShowsResult,
         HasActiveRun, isLifecycleTerminal, CurrentRunIn
<1>8. Core(fenced)
  BY <1>3, <1>5, <1>7 DEF Core, SameLedger
<1>11. ErrorOfResult(s) => ErrorOfResult(fenced)
  BY <1>5 DEF ErrorOfResult, ShowsResult, SameLedger, isLifecycleTerminal
<1>9. CASE CurrentRunIn(s, "active")
  <2>1. HasActiveRun(fenced)
    BY <1>2, <1>5, <1>6, <1>9
       DEF HasActiveRun, CurrentRunIn, CanAbortRun, isLifecycleTerminal,
           SameLedger
  <2>2. abortRun(s) = endRun(fenced, FALSE)
    BY <1>9 DEF abortRun, run, t, fenced
  <2>3. /\ Consistent(endRun(fenced, FALSE)) /\ ErrorOfResult(endRun(fenced, FALSE))
        /\ SameLedger(fenced, endRun(fenced, FALSE))
        /\ RunEnded(fenced, endRun(fenced, FALSE))
    BY <2>1, <1>8, EndRunStep
  <2>4. SameLedger(s, abortRun(s)) /\ RunEnded(s, abortRun(s))
    BY <2>2, <2>3, <1>2, <1>5, <1>6 DEF SameLedger, RunEnded
  <2> QED
    BY <2>2, <2>3, <2>4
<1>10. CASE ~CurrentRunIn(s, "active")
  <2>1. abortRun(s) = syncLifecycleCompatibility(fenced)
    BY <1>10 DEF abortRun, run, t, fenced
  <2>2. RunEnded(s, fenced)
    <3>1. currentRun(s) \in SubagentRun
      BY <1>1, CurrentRunFacts
    <3> QED
      BY <1>1, <1>2, <1>5, <1>6, <1>10, <3>1 DEF RunEnded, CurrentRunIn, SubagentRun
  <2>3. SameModel(fenced, abortRun(s))
    BY <2>1, <1>5, SyncFields
  <2> QED
    BY <2>1, <2>2, <2>3, <1>5, <1>8, <1>11, SyncConsistent
       DEF SameLedger, SameModel, RunEnded, CurrentRunIn, HasRun, currentRun
<1> QED
  BY <1>9, <1>10

(* A kill request changes only its flag and the derived fields. *)
LEMMA RequestKillStep ==
  ASSUME NEW s, Consistent(s)
  PROVE  /\ Consistent(requestKill(s))
         /\ ErrorOfResult(s) => ErrorOfResult(requestKill(s))
         /\ requestKill(s).runs = s.runs
         /\ requestKill(s).settlementStatus = s.settlementStatus
         /\ requestKill(s).killRequested
         /\ requestKill(s).runSequence = s.runSequence
         /\ requestKill(s).lastSettledRunId = s.lastSettledRunId
         /\ requestKill(s).processState = s.processState
<1> DEFINE p == [s EXCEPT !.killRequested = TRUE]
<1>1. Core(s)
  BY ConsistentCore
<1>2. /\ p \in LifecycleState
      /\ p.killRequested
      /\ p.runs = s.runs
      /\ p.runState = s.runState
      /\ p.runSequence = s.runSequence
      /\ p.lastSettledRunId = s.lastSettledRunId
      /\ p.processState = s.processState
      /\ p.settlementStatus = s.settlementStatus
      /\ p.tentativeError = s.tentativeError
      /\ p.finalError = s.finalError
      /\ p.runOutcome = s.runOutcome
  BY <1>1 DEF Core, LifecycleState, SameModel
<1> HIDE DEF p
<1>3. Core(p)
  BY <1>1, <1>2
     DEF Core, CursorBehind, ActiveRunShown, SettledIsIdle, ShowsResult, HasActiveRun,
         isLifecycleTerminal, CurrentRunIn, HasRun, currentRun
<1>4. requestKill(s) = syncLifecycleCompatibility(p)
  BY DEF requestKill, p
<1>5. ErrorOfResult(s) => ErrorOfResult(p)
  BY <1>2 DEF ErrorOfResult, ShowsResult, isLifecycleTerminal
<1> QED
  BY <1>2, <1>3, <1>4, <1>5, SyncConsistent, SyncFields DEF SameModel

(* Resetting the view forgets the runs but not the counters. *)
LEMMA ResetRunViewStep ==
  ASSUME NEW s, Consistent(s)
  PROVE  /\ Consistent(resetRunViewForSession(s))
         /\ ErrorOfResult(resetRunViewForSession(s))
         /\ SameLedger(s, resetRunViewForSession(s))
<1> DEFINE p == [s EXCEPT !.runState = "idle",
                          !.runOutcome = "pending",
                          !.runs = << >>,
                          !.settlementStatus = "pending",
                          !.tentativeError = "none",
                          !.finalError = "none"]
<1>1. Core(s)
  BY ConsistentCore
<1>2. /\ "pending" \in Outcome
      /\ "none" \in ErrorText
      /\ << >> \in Seq(SubagentRun)
  BY DEF Outcome, ErrorText
<1>3. /\ p \in LifecycleState
      /\ SameLedger(s, p)
      /\ p.runs = << >>
      /\ p.runState = "idle"
      /\ p.settlementStatus = "pending"
  BY <1>1, <1>2, ZenonT(60) DEF Core, LifecycleState, SameLedger
<1> HIDE DEF p
<1>4. /\ Len(p.runs) = 0
      /\ 0 <= MAX_RUN_HISTORY
      /\ ~HasRun(p)
  BY <1>3, HistoryAssumption DEF HasRun
<1>5. OrderedRuns(p.runs, p.runSequence)
  BY <1>4 DEF OrderedRuns
<1>6. CursorBehind(p) /\ ActiveRunShown(p) /\ SettledIsIdle(p)
  BY <1>1, <1>3, <1>4
     DEF Core, SameLedger, CursorBehind, ActiveRunShown, SettledIsIdle, ShowsResult,
         HasActiveRun, CurrentRunIn
<1>7. Core(p)
  BY <1>3, <1>4, <1>5, <1>6 DEF Core
<1>8. resetRunViewForSession(s) = syncLifecycleCompatibility(p)
  BY DEF resetRunViewForSession, p
<1>9. ErrorOfResult(p)
  BY <1>3 DEF ErrorOfResult, ShowsResult
<1> QED
  BY <1>3, <1>7, <1>8, <1>9, SyncConsistent, SyncFields DEF SameModel, SameLedger

(* Dropping an uncorroborated run leaves a consistent record. *)
LEMMA DropUncorroboratedStep ==
  ASSUME NEW s, Consistent(s), ~isLifecycleTerminal(s)
  PROVE  /\ Consistent(DropUncorroborated(s))
         /\ ErrorOfResult(s) => ErrorOfResult(DropUncorroborated(s))
         /\ SameLedger(s, DropUncorroborated(s))
         /\ RunsDropped(s, DropUncorroborated(s))
<1> DEFINE t == DropUncorroborated(s)
<1>1. CASE ~(CurrentRunIn(s, "active") /\ ~currentRun(s).corroborated)
  <2>1. DropUncorroborated(s) = s
    BY <1>1 DEF DropUncorroborated
  <2>2. SameLedger(s, s) /\ RunsDropped(s, s)
    BY DEF SameLedger, RunsDropped
  <2> QED
    BY <2>1, <2>2
<1>2. CASE CurrentRunIn(s, "active") /\ ~currentRun(s).corroborated
  <2> DEFINE rest == SubSeq(s.runs, 1, Len(s.runs) - 1)
  <2>1. /\ s \in LifecycleState
        /\ s.runs \in Seq(SubagentRun)
        /\ s.runs # << >>
        /\ s.runSequence \in Nat
        /\ OrderedRuns(s.runs, s.runSequence)
        /\ Len(s.runs) <= MAX_RUN_HISTORY
    BY <1>2 DEF Consistent, LifecycleState, CurrentRunIn, HasRun
  <2>2. /\ rest \in Seq(SubagentRun)
        /\ Len(rest) = Len(s.runs) - 1
        /\ OrderedRuns(rest, s.runSequence)
        /\ \A i \in 1..Len(rest) : rest[i].phase # "active"
    BY <2>1, DropRun
  <2>3. Len(rest) <= MAX_RUN_HISTORY
    BY <2>1, <2>2, HistoryAssumption
  <2> HIDE DEF rest
  <2>4. t = [s EXCEPT !.runs = rest]
    BY <1>2 DEF DropUncorroborated, rest
  <2>5. /\ t \in LifecycleState
        /\ SameLedger(s, t)
        /\ t.runs = rest
        /\ t.runState = s.runState
        /\ t.settlementStatus = s.settlementStatus
        /\ t.tentativeError = s.tentativeError
        /\ t.finalError = s.finalError
        /\ t.runOutcome = s.runOutcome
        /\ t.state = s.state
        /\ t.lifecycle = s.lifecycle
    BY <2>1, <2>2, <2>4 DEF LifecycleState, SameLedger
  <2> HIDE DEF t
  <2>6. s.runState = "running" /\ s.settlementStatus = "pending"
    BY <1>2 DEF Consistent, ActiveRunShown, HasActiveRun
  <2>7. ~CurrentRunIn(t, "active")
    BY <2>2, <2>5 DEF CurrentRunIn, HasRun, currentRun
  <2>8. CursorBehind(t) /\ ActiveRunShown(t) /\ SettledIsIdle(t) /\ InSync(t)
    BY <2>5, <2>6, <2>7
       DEF Consistent, SameLedger, CursorBehind, ActiveRunShown, HasActiveRun,
           SettledIsIdle, ShowsResult, InSync, CompatState, CompatLifecycle
  <2>9. OrderedRuns(t.runs, t.runSequence)
    BY <2>2, <2>5 DEF SameLedger
  <2>10. RunsDropped(s, t) /\ (ErrorOfResult(s) => ErrorOfResult(t))
    BY <1>2, <2>5, <2>6 DEF RunsDropped, ErrorOfResult, ShowsResult
  <2> QED
    BY <2>3, <2>5, <2>8, <2>9, <2>10 DEF Consistent, t
<1> QED
  BY <1>1, <1>2

(* A settlement moves the cursor forward, to a run that was started, or *)
(* leaves it; what it does when it rejects keeps the record consistent.  *)
LEMMA SettleStep ==
  ASSUME NEW s, Consistent(s),
         NEW outcome \in {"none", "succeeded", "failed", "aborted"},
         NEW aborted \in BOOLEAN, NEW withError \in BOOLEAN
  PROVE  LET t == settleRunToIdle(s, outcome, aborted, withError)
         IN  /\ Consistent(t)
             /\ ErrorOfResult(s) => ErrorOfResult(t)
             /\ isLifecycleTerminal(s) => t = s
             /\ ~CanSettle(s) => /\ t.lastSettledRunId = s.lastSettledRunId
                                /\ RunsDropped(s, t)
             /\ CanSettle(s) => RunSettled(s, t, aborted)
             /\ t.processState = s.processState
             /\ t.runSequence = s.runSequence
             /\ t.killRequested = s.killRequested
             /\ \/ t.lastSettledRunId = s.lastSettledRunId
                \/ /\ t.lastSettledRunId > s.lastSettledRunId
                   /\ t.lastSettledRunId <= s.runSequence
<1> DEFINE t == settleRunToIdle(s, outcome, aborted, withError)
           dropped == DropUncorroborated(s)
           old == currentRun(dropped)
           settled == [old EXCEPT
                         !.outcome = SettledOutcome(old, outcome, aborted),
                         !.error = IF withError THEN "settlement" ELSE @]
           failure == IF settled.error # "none"
                      THEN settled.error ELSE "assistant"
           finalError == IF settled.outcome = "failed" THEN failure ELSE "none"
           u == UpdateCurrentRun(dropped, settled)
           p == [u EXCEPT
                   !.lastSettledRunId = settled.id,
                   !.settlementStatus = "settled",
                   !.runState = "idle",
                   !.tentativeError = "none",
                   !.runOutcome = settled.outcome,
                   !.finalError = finalError]
<1>1. CASE isLifecycleTerminal(s)
  <2>1. t = s /\ ~CanSettle(s)
    BY <1>1 DEF settleRunToIdle, CanSettle
  <2>2. RunsDropped(s, s)
    BY DEF RunsDropped
  <2> QED
    BY <2>1, <2>2
<1>2. CASE ~isLifecycleTerminal(s) /\ ~CanSettle(s)
  <2>1. t = dropped
    BY <1>2 DEF settleRunToIdle
  <2> QED
    BY <2>1, <1>2, DropUncorroboratedStep DEF SameLedger
<1>3. CASE CanSettle(s)
  <2>1. /\ ~isLifecycleTerminal(s)
        /\ CurrentRunIn(dropped, "ended")
        /\ old.id > s.lastSettledRunId
    BY <1>3 DEF CanSettle
  <2>2. t = syncLifecycleCompatibility(p)
    BY <1>3 DEF settleRunToIdle
  <2>3. Consistent(dropped) /\ SameLedger(s, dropped)
    BY <2>1, DropUncorroboratedStep
  <2> HIDE DEF dropped
  <2>4. Core(dropped) /\ HasRun(dropped) /\ old.phase = "ended"
    BY <2>1, <2>3, ConsistentCore DEF CurrentRunIn
  <2>5. /\ old \in SubagentRun
        /\ old.id \in Nat
        /\ old.id <= dropped.runSequence
        /\ old.outcome # "pending"
    BY <2>4, CurrentRunFacts
  <2> HIDE DEF old
  <2>6. /\ SettledOutcome(old, outcome, aborted) \in Outcome
        /\ SettledOutcome(old, outcome, aborted) # "pending"
    BY <2>5 DEF SettledOutcome, SubagentRun, Outcome
  <2>7. /\ settled \in SubagentRun
        /\ settled.id = old.id
        /\ settled.phase = "ended"
        /\ settled.outcome # "pending"
    BY <2>4, <2>5, <2>6 DEF SubagentRun, ErrorText
  <2>8. failure \in ErrorText /\ failure # "none"
    BY <2>7 DEF SubagentRun, ErrorText
  <2>9. /\ finalError \in ErrorText
        /\ (finalError # "none") <=> (settled.outcome = "failed")
    BY <2>8 DEF ErrorText
  <2> HIDE DEF settled, failure, finalError
  <2>10. /\ u \in LifecycleState
         /\ u = [dropped EXCEPT !.runs = u.runs]
         /\ HasRun(u)
         /\ currentRun(u) = settled
         /\ Len(u.runs) <= MAX_RUN_HISTORY
         /\ OrderedRuns(u.runs, dropped.runSequence)
    BY <2>4, <2>7, UpdateCurrentRunFacts DEF old
  <2> HIDE DEF u
  <2>11. /\ settled.id \in Nat
         /\ settled.outcome \in Outcome
         /\ "none" \in ErrorText
    BY <2>5, <2>7, <2>8 DEF SubagentRun, ErrorText
  <2>12. /\ p \in LifecycleState
         /\ p.runs = u.runs
         /\ p.processState = dropped.processState
         /\ p.runSequence = dropped.runSequence
         /\ p.killRequested = dropped.killRequested
         /\ p.lastSettledRunId = settled.id
         /\ p.settlementStatus = "settled"
         /\ p.runState = "idle"
         /\ p.tentativeError = "none"
         /\ p.runOutcome = settled.outcome
         /\ p.finalError = finalError
    <3>1. /\ u.processState = dropped.processState
          /\ u.runSequence = dropped.runSequence
          /\ u.killRequested = dropped.killRequested
      BY <2>4, <2>10 DEF Core, LifecycleState
    <3>2. u \in LifecycleState /\ finalError \in ErrorText
      BY <2>9, <2>10
    <3> QED
      BY <3>1, <3>2, <2>11, ZenonT(60) DEF LifecycleState
  <2> HIDE DEF p
  <2>13. ~CurrentRunIn(p, "active")
    BY <2>7, <2>10, <2>12 DEF CurrentRunIn, HasRun, currentRun
  <2>14. CursorBehind(p) /\ ActiveRunShown(p) /\ SettledIsIdle(p) /\ ErrorOfResult(p)
    <3>1. CursorBehind(p)
      BY <2>5, <2>7, <2>12, <2>13 DEF CursorBehind
    <3>2. ActiveRunShown(p)
      BY <2>13 DEF ActiveRunShown, HasActiveRun
    <3>3. SettledIsIdle(p) /\ ErrorOfResult(p)
      BY <2>9, <2>12 DEF SettledIsIdle, ErrorOfResult, ShowsResult
    <3> QED
      BY <3>1, <3>2, <3>3
  <2>15. Core(p)
    BY <2>10, <2>12, <2>14 DEF Core
  <2>16. Consistent(t) /\ ErrorOfResult(t) /\ SameModel(p, t)
    BY <2>2, <2>12, <2>14, <2>15, SyncConsistent, SyncFields
  <2>17. aborted => settled.outcome = "aborted"
    BY <2>5 DEF settled, SettledOutcome, SubagentRun
  <2>18. RunSettled(s, t, aborted)
    <3>1. /\ p.runs # << >> /\ currentRun(p) = settled
          /\ settled.id > s.lastSettledRunId
      BY <2>1, <2>7, <2>10, <2>12 DEF HasRun, currentRun
    <3>2. /\ t.settlementStatus = "settled"
          /\ t.lastSettledRunId = settled.id
          /\ HasRun(t) /\ currentRun(t) = settled
      BY <2>12, <2>16, <3>1 DEF SameModel, HasRun, currentRun
    <3> QED
      BY <2>7, <2>11, <2>17, <3>1, <3>2 DEF RunSettled, CurrentRunIn
  <2> HIDE DEF t
  <2> QED
    BY <1>3, <2>1, <2>3, <2>5, <2>7, <2>12, <2>16, <2>18
       DEF SameLedger, SameModel, t
<1> QED
  BY <1>1, <1>2, <1>3

(* The error of the latest failed run is one of the known error texts. *)
LEMMA LastFailureType ==
  ASSUME NEW runs \in Seq(SubagentRun)
  PROVE  LastFailure(runs) \in ErrorText
<1> DEFINE latest == {i \in 1..Len(runs) :
                        /\ runs[i].outcome = "failed"
                        /\ \A j \in i + 1..Len(runs) :
                             runs[j].outcome # "failed"}
<1>1. CASE latest = {}
  BY <1>1 DEF LastFailure, ErrorText
<1>2. ASSUME NEW i \in latest PROVE runs[i].error \in ErrorText
  <2>1. runs[i] \in SubagentRun
    BY <1>2, ElementOfSeq
  <2> QED
    BY <2>1 DEF SubagentRun
<1>3. CASE latest # {}
  BY <1>2, <1>3 DEF LastFailure
<1> QED
  BY <1>1, <1>3

(* The error a close leaves on the handle is one of the known error texts. *)
LEMMA StopErrorType ==
  ASSUME NEW s, s \in LifecycleState, NEW closedWithError \in BOOLEAN
  PROVE  StopError(s, closedWithError) \in ErrorText
<1>1. LastFailure(s.runs) \in ErrorText
  BY LastFailureType DEF LifecycleState
<1>2. s.finalError \in ErrorText
  BY DEF LifecycleState
<1>3. HasRun(s) => currentRun(s).error \in ErrorText
  <2> SUFFICES ASSUME HasRun(s) PROVE currentRun(s).error \in ErrorText
    OBVIOUS
  <2>1. s.runs \in Seq(SubagentRun) /\ s.runs # << >>
    BY DEF LifecycleState, HasRun
  <2>2. Len(s.runs) \in 1..Len(s.runs)
    BY <2>1
  <2>3. currentRun(s) \in SubagentRun
    BY <2>1, <2>2, ElementOfSeq DEF currentRun
  <2> QED
    BY <2>3 DEF SubagentRun
<1>4. {"none", "assistant", "settlement", "killed", "exit"} = ErrorText
  BY DEF ErrorText
<1> QED
  BY <1>1, <1>2, <1>3, <1>4 DEF StopError

(* The close of the process is the last change, and never reads as done *)
(* while a run is unsettled.                                             *)
LEMMA MarkStoppedStep ==
  ASSUME NEW s, Consistent(s), ~isLifecycleTerminal(s),
         NEW closedWithError \in BOOLEAN
  PROVE  LET t == markStopped(s, closedWithError)
         IN  /\ Consistent(t) /\ ErrorOfResult(t)
             /\ t.processState = "stopped"
             /\ t.runSequence = s.runSequence
             /\ t.lastSettledRunId = s.lastSettledRunId
             /\ t.killRequested = s.killRequested
             /\ t.lastSettledRunId < t.runSequence =>
                  /\ t.settlementStatus = "closed_without_settlement"
                  /\ t.state \in {"error", "killed"}
<1> DEFINE marked == IF ClosedWithoutSettlement(s)
                     THEN [s EXCEPT !.settlementStatus =
                             "closed_without_settlement"]
                     ELSE s
           stopped == [marked EXCEPT !.processState = "stopped",
                                     !.runState = "idle",
                                     !.tentativeError = "none"]
           cause == StopError(marked, closedWithError)
           p == [stopped EXCEPT !.finalError = cause]
           t == markStopped(s, closedWithError)
<1>1. Core(s)
  BY ConsistentCore
<1>2. /\ marked \in LifecycleState
      /\ SameLedger(s, marked)
      /\ marked.runs = s.runs
      /\ ClosedWithoutSettlement(s) =>
           marked.settlementStatus = "closed_without_settlement"
  BY <1>1 DEF Core, LifecycleState, SameLedger
<1>3. t = syncLifecycleCompatibility(p)
  BY DEF markStopped
<1> HIDE DEF marked
<1>4. cause \in ErrorText
  BY <1>2, StopErrorType
<1> HIDE DEF cause
<1>5. "none" \in ErrorText
  BY DEF ErrorText
<1>6. /\ p \in LifecycleState
      /\ p.processState = "stopped"
      /\ p.runState = "idle"
      /\ p.runSequence = s.runSequence
      /\ p.lastSettledRunId = s.lastSettledRunId
      /\ p.killRequested = s.killRequested
      /\ p.runs = s.runs
      /\ p.settlementStatus = marked.settlementStatus
  BY <1>2, <1>4, <1>5 DEF LifecycleState, SameLedger
<1> HIDE DEF p
<1>7. Core(p)
  BY <1>1, <1>6
     DEF Core, CursorBehind, ActiveRunShown, SettledIsIdle, ShowsResult, HasActiveRun,
         isLifecycleTerminal, CurrentRunIn, HasRun, currentRun
<1>8. /\ Consistent(t)
      /\ SameModel(p, t)
      /\ t.state = CompatState(p)
  BY <1>3, <1>6, <1>7, SyncConsistent, SyncFields
<1>10. ErrorOfResult(t)
  BY <1>6, <1>8 DEF ErrorOfResult, ShowsResult, isLifecycleTerminal, SameModel
<1>9. ASSUME s.lastSettledRunId < s.runSequence
      PROVE  /\ t.settlementStatus = "closed_without_settlement"
             /\ t.state \in {"error", "killed"}
  <2>1. s.lastSettledRunId \in Nat /\ s.runSequence \in Nat
    BY <1>1 DEF Core, LifecycleState
  <2>2. p.settlementStatus = "closed_without_settlement"
    BY <1>2, <1>6, <1>9, <2>1 DEF ClosedWithoutSettlement
  <2> QED
    BY <1>6, <1>8, <2>2 DEF SameModel, CompatState
<1> HIDE DEF t
<1> QED
  BY <1>6, <1>8, <1>9, <1>10 DEF SameModel, t

-----------------------------------------------------------------------------
(* Every step, from the operations.                                        *)

(***************************************************************************)
(* What a step may do to the counters and flags: start a run, settle one,  *)
(* stop the process, or none of these while a kill may be requested.       *)
(***************************************************************************)
RunStarts(s, t) ==
  /\ ~s.killRequested
  /\ t.runSequence > s.runSequence
  /\ t.lastSettledRunId = s.lastSettledRunId
  /\ t.processState = s.processState
  /\ t.killRequested = s.killRequested

RunSettles(s, t) ==
  /\ t.lastSettledRunId > s.lastSettledRunId
  /\ t.lastSettledRunId <= s.runSequence
  /\ t.runSequence = s.runSequence
  /\ t.processState = s.processState
  /\ t.killRequested = s.killRequested

ProcessStops(s, t) ==
  /\ t.processState = "stopped"
  /\ t.runSequence = s.runSequence
  /\ t.lastSettledRunId = s.lastSettledRunId
  /\ t.killRequested = s.killRequested
  /\ t.lastSettledRunId < t.runSequence =>
       /\ t.settlementStatus = "closed_without_settlement"
       /\ t.state \in {"error", "killed"}

CountersKept(s, t) ==
  /\ t.runSequence = s.runSequence
  /\ t.lastSettledRunId = s.lastSettledRunId
  /\ t.processState = s.processState
  /\ s.killRequested => t.killRequested

RecordMoves(s, t) == RunStarts(s, t) \/ RunSettles(s, t) \/ ProcessStops(s, t) \/ CountersKept(s, t)

(* An operation keeps the record well formed and moves it in a known way, *)
(* and only a record of a live process moves.                             *)
LEMMA StepMoves ==
  ASSUME WellFormed(life), LifecycleNext
  PROVE  /\ WellFormed(life')
         /\ \/ life' = life
            \/ ~isLifecycleTerminal(life) /\ RecordMoves(life, life')
<1>0. life.killRequested \in BOOLEAN
  BY DEF WellFormed, Consistent, LifecycleState
<1>1. CASE StartRun
  <2> PICK id \in 1..MaxRunId :
             CanStartRun(life, id) /\ life' = startRun(life, id)
    BY <1>1 DEF StartRun
  <2>1. id \in Nat \ {0}
    BY MaxRunIdAssumption
  <2>2. /\ WellFormed(life')
        /\ life'.runSequence = id
        /\ life'.lastSettledRunId = life.lastSettledRunId
        /\ life'.processState = life.processState
        /\ life'.killRequested = life.killRequested
    BY <2>1, StartRunStep DEF WellFormed
  <2> QED
    BY <2>2 DEF CanStartRun, RecordMoves, RunStarts
<1>2. CASE CorroborateRun
  BY <1>2, CorroborateRunStep
     DEF WellFormed, CorroborateRun, HasActiveRun, SameLedger, RecordMoves, CountersKept
<1>3. CASE RecordAssistantEnd
  <2> PICK verdict \in {"none", "failed", "aborted"}, generation \in {0, 1} :
             /\ HasActiveRun(life)
             /\ life' = recordAssistantEnd(life, verdict, generation)
    BY <1>3 DEF RecordAssistantEnd
  <2>1. WellFormed(life') /\ SameLedger(life, life')
    BY RecordAssistantEndStep DEF WellFormed
  <2>2. RecordMoves(life, life')
    BY <2>1 DEF SameLedger, RecordMoves, CountersKept
  <2> QED
    BY <2>1, <2>2 DEF HasActiveRun
<1>4. CASE EndRun
  <2> PICK willRetry \in BOOLEAN :
             HasActiveRun(life) /\ life' = endRun(life, willRetry)
    BY <1>4 DEF EndRun
  <2>1. Core(life)
    BY ConsistentCore DEF WellFormed
  <2>2. /\ Consistent(endRun(life, willRetry)) /\ ErrorOfResult(endRun(life, willRetry))
        /\ SameLedger(life, endRun(life, willRetry))
    BY <2>1, EndRunStep
  <2>3. RecordMoves(life, life')
    BY <2>2 DEF SameLedger, RecordMoves, CountersKept
  <2> QED
    BY <2>2, <2>3 DEF WellFormed, HasActiveRun
<1>5. CASE AbortRun
  BY <1>5, AbortRunStep DEF WellFormed, AbortRun, CanAbortRun, SameLedger, RecordMoves, CountersKept
<1>6. CASE RequestKill
  BY <1>6, RequestKillStep DEF WellFormed, RequestKill, RecordMoves, CountersKept
<1>7. CASE ResetRunViewForSession
  BY <1>7, ResetRunViewStep
     DEF WellFormed, ResetRunViewForSession, SameLedger, RecordMoves, CountersKept
<1>8. CASE SettleRunToIdle
  <2> PICK outcome \in {"none", "succeeded", "failed", "aborted"},
           aborted \in BOOLEAN, withError \in BOOLEAN :
             life' = settleRunToIdle(life, outcome, aborted, withError)
    BY <1>8 DEF SettleRunToIdle
  <2>1. /\ WellFormed(life')
        /\ isLifecycleTerminal(life) => life' = life
        /\ life'.processState = life.processState
        /\ life'.runSequence = life.runSequence
        /\ life'.killRequested = life.killRequested
        /\ \/ life'.lastSettledRunId = life.lastSettledRunId
           \/ /\ life'.lastSettledRunId > life.lastSettledRunId
              /\ life'.lastSettledRunId <= life.runSequence
    <3> DEFINE t == settleRunToIdle(life, outcome, aborted, withError)
    <3>1. Consistent(life)
      BY DEF WellFormed
    <3>2. /\ Consistent(t)
          /\ ErrorOfResult(life) => ErrorOfResult(t)
          /\ isLifecycleTerminal(life) => t = life
          /\ ~CanSettle(life) => /\ t.lastSettledRunId = life.lastSettledRunId
                                 /\ RunsDropped(life, t)
          /\ CanSettle(life) => RunSettled(life, t, aborted)
          /\ t.processState = life.processState
          /\ t.runSequence = life.runSequence
          /\ t.killRequested = life.killRequested
          /\ \/ t.lastSettledRunId = life.lastSettledRunId
             \/ /\ t.lastSettledRunId > life.lastSettledRunId
                /\ t.lastSettledRunId <= life.runSequence
      BY <3>1, SettleStep, ZenonT(60)
    <3>3. life' = t
      OBVIOUS
    <3> HIDE DEF t
    <3> QED
      BY <3>2, <3>3 DEF WellFormed
  <2> QED
    BY <2>1 DEF RecordMoves, RunSettles, CountersKept
<1>9. CASE MarkStopped
  <2> PICK closedWithError \in BOOLEAN :
             /\ ~isLifecycleTerminal(life)
             /\ life' = markStopped(life, closedWithError)
    BY <1>9 DEF MarkStopped
  <2>1. WellFormed(life') /\ ProcessStops(life, life')
    BY MarkStoppedStep DEF WellFormed, ProcessStops
  <2> QED
    BY <2>1 DEF RecordMoves
<1> QED
  BY <1>1, <1>2, <1>3, <1>4, <1>5, <1>6, <1>7, <1>8, <1>9 DEF LifecycleNext

-----------------------------------------------------------------------------
(* An aborted run stays aborted, or fails.                                 *)

AbortKept(old, new) ==
  old.outcome = "aborted" => new.outcome \notin {"succeeded", "pending"}

(* Each run of the new history comes from the old one, under its id, or is *)
(* newer than all of it.                                                   *)
Succeeds(runs, new, last) ==
  \A j \in 1..Len(new) :
    \/ new[j].id > last
    \/ \E i \in 1..Len(runs) : /\ new[j].id = runs[i].id
                               /\ AbortKept(runs[i], new[j])

(* The ids of a history tell its runs apart, so what holds of the run a    *)
(* new one comes from holds of every run with its id.                      *)
LEMMA SucceedsById ==
  ASSUME NEW runs \in Seq(SubagentRun), NEW last \in Nat, OrderedRuns(runs, last),
         NEW new, Succeeds(runs, new, last),
         NEW i \in 1..Len(runs), NEW j \in 1..Len(new), runs[i].id = new[j].id
  PROVE  AbortKept(runs[i], new[j])
<1>0. \A n \in 1..Len(runs) : runs[n] \in SubagentRun
  BY ElementOfSeq
<1>1. \A n \in 1..Len(runs) : runs[n].id \in Nat /\ runs[n].id <= last
  BY <1>0 DEF SubagentRun, OrderedRuns
<1>2. PICK n \in 1..Len(runs) : new[j].id = runs[n].id /\ AbortKept(runs[n], new[j])
  BY <1>1 DEF Succeeds
<1>3. n = i
  BY <1>1, <1>2 DEF OrderedRuns
<1> QED
  BY <1>2, <1>3

(* A history comes from itself. *)
LEMMA HistorySucceeds ==
  ASSUME NEW runs, NEW last
  PROVE  Succeeds(runs, runs, last)
<1>1. \A i \in 1..Len(runs) : AbortKept(runs[i], runs[i])
  BY DEF AbortKept
<1> QED
  BY <1>1 DEF Succeeds

(* Rewriting the newest run, under its own id. *)
LEMMA UpdateSucceeds ==
  ASSUME NEW s, Core(s), HasRun(s), NEW run, run.id = currentRun(s).id,
         AbortKept(currentRun(s), run)
  PROVE  Succeeds(s.runs, UpdateCurrentRun(s, run).runs, s.runSequence)
<1>1. s \in LifecycleState /\ s.runs \in Seq(SubagentRun) /\ s.runs # << >>
  BY DEF Core, LifecycleState, HasRun
<1>2. UpdateCurrentRun(s, run).runs = [s.runs EXCEPT ![Len(s.runs)] = run]
  BY <1>1 DEF UpdateCurrentRun, LifecycleState
<1>3. /\ Len(s.runs) \in 1..Len(s.runs)
      /\ Len([s.runs EXCEPT ![Len(s.runs)] = run]) = Len(s.runs)
      /\ \A i \in 1..Len(s.runs) :
           [s.runs EXCEPT ![Len(s.runs)] = run][i] = IF i = Len(s.runs) THEN run ELSE s.runs[i]
  BY <1>1
<1>4. \A i \in 1..Len(s.runs) : AbortKept(s.runs[i], s.runs[i])
  BY DEF AbortKept
<1> QED
  BY <1>2, <1>3, <1>4 DEF Succeeds, currentRun

(* A run that is started is newer than all others, and only old runs go.   *)
LEMMA StartSucceeds ==
  ASSUME NEW s, Consistent(s), NEW id \in Nat \ {0}, CanStartRun(s, id)
  PROVE  Succeeds(s.runs, startRun(s, id).runs, s.runSequence)
<1>1. /\ s \in LifecycleState /\ s.runs \in Seq(SubagentRun) /\ s.runSequence \in Nat
      /\ OrderedRuns(s.runs, s.runSequence)
  BY DEF Consistent, LifecycleState
<1> DEFINE grown == Append(s.runs, NewRun(id))
<1>2. NewRun(id) \in SubagentRun /\ NewRun(id).id = id
  BY DEF NewRun, SubagentRun, Outcome, ErrorText
<1>3. /\ grown \in Seq(SubagentRun) /\ Len(grown) = Len(s.runs) + 1
      /\ grown[Len(s.runs) + 1] = NewRun(id)
      /\ \A i \in 1..Len(s.runs) : grown[i] = s.runs[i]
  BY <1>1, <1>2
<1>4. \A i \in 1..Len(s.runs) : AbortKept(s.runs[i], s.runs[i])
  BY DEF AbortKept
<1>5. Succeeds(s.runs, grown, s.runSequence)
  BY <1>1, <1>2, <1>3, <1>4 DEF Succeeds, CanStartRun
<1> HIDE DEF grown
<1>6. \A j \in 1..Len(KeepRecent(grown)) :
        \E n \in 1..Len(grown) : KeepRecent(grown)[j] = grown[n]
  <2>1. CASE Len(grown) > MAX_RUN_HISTORY
    <3> DEFINE m == Len(grown) - MAX_RUN_HISTORY + 1
    <3>1. m \in Nat /\ m >= 1 /\ m <= Len(grown) /\ Len(grown) \in Nat
      BY <2>1, <1>3, HistoryAssumption
    <3>2. KeepRecent(grown) = SubSeq(grown, m, Len(grown))
      BY <2>1 DEF KeepRecent
    <3> HIDE DEF m
    <3>3. /\ Len(SubSeq(grown, m, Len(grown))) = Len(grown) - m + 1
          /\ \A j \in 1..Len(grown) - m + 1 :
               SubSeq(grown, m, Len(grown))[j] = grown[m + j - 1]
      BY <1>3, <3>1
    <3>4. \A j \in 1..Len(grown) - m + 1 : m + j - 1 \in 1..Len(grown)
      BY <3>1
    <3> QED
      BY <3>2, <3>3, <3>4
  <2>2. CASE ~(Len(grown) > MAX_RUN_HISTORY)
    BY <2>2 DEF KeepRecent
  <2> QED
    BY <2>1, <2>2
<1>7. Succeeds(s.runs, KeepRecent(grown), s.runSequence)
  BY <1>5, <1>6 DEF Succeeds
<1>8. startRun(s, id).runs = KeepRecent(grown)
  BY <1>1 DEF startRun, syncLifecycleCompatibility, LifecycleState, grown
<1> QED
  BY <1>7, <1>8

(* What comes from some of the runs of a history comes from that history. *)
LEMMA PartSucceeds ==
  ASSUME NEW runs, NEW part, NEW new, NEW last, Succeeds(part, new, last),
         \A i \in 1..Len(part) : \E n \in 1..Len(runs) : part[i] = runs[n]
  PROVE  Succeeds(runs, new, last)
<1> SUFFICES ASSUME NEW j \in 1..Len(new), ~(new[j].id > last)
             PROVE  \E n \in 1..Len(runs) : /\ new[j].id = runs[n].id
                                            /\ AbortKept(runs[n], new[j])
  BY DEF Succeeds
<1>1. PICK i \in 1..Len(part) : new[j].id = part[i].id /\ AbortKept(part[i], new[j])
  BY DEF Succeeds
<1>2. PICK n \in 1..Len(runs) : part[i] = runs[n]
  OBVIOUS
<1> QED
  BY <1>1, <1>2

(* A run that ends keeps the outcome it has. *)
LEMMA EndSucceeds ==
  ASSUME NEW s, Core(s), HasRun(s), NEW willRetry \in BOOLEAN
  PROVE  Succeeds(s.runs, endRun(s, willRetry).runs, s.runSequence)
<1> DEFINE run == [currentRun(s) EXCEPT
                     !.phase = "ended",
                     !.corroborated = TRUE,
                     !.outcome = IF @ = "pending" THEN "succeeded" ELSE @]
<1>1. s \in LifecycleState /\ currentRun(s) \in SubagentRun
  BY CurrentRunFacts DEF Core
<1>2. run.id = currentRun(s).id /\ AbortKept(currentRun(s), run)
  BY <1>1 DEF SubagentRun, AbortKept
<1>3. endRun(s, willRetry).runs = UpdateCurrentRun(s, run).runs
  BY <1>1 DEF endRun, syncLifecycleCompatibility, UpdateCurrentRun, LifecycleState
<1> HIDE DEF run
<1> QED
  BY <1>2, <1>3, UpdateSucceeds

(* An abort ends an active run, and marks one that has ended. *)
LEMMA AbortSucceeds ==
  ASSUME NEW s, Consistent(s), HasRun(s)
  PROVE  Succeeds(s.runs, abortRun(s).runs, s.runSequence)
<1> DEFINE run == [currentRun(s) EXCEPT !.outcome = "aborted", !.error = "none"]
           done == [run EXCEPT !.phase = "ended", !.corroborated = TRUE]
<1>1. s \in LifecycleState /\ currentRun(s) \in SubagentRun /\ Core(s)
  BY CurrentRunFacts, ConsistentCore DEF Consistent
<1>2. /\ run.id = currentRun(s).id /\ AbortKept(currentRun(s), run)
      /\ done.id = currentRun(s).id /\ AbortKept(currentRun(s), done)
      /\ done = [run EXCEPT !.phase = "ended", !.corroborated = TRUE,
                            !.outcome = IF @ = "pending" THEN "succeeded" ELSE @]
  BY <1>1 DEF SubagentRun, AbortKept
<1>3. s.runs \in Seq(SubagentRun) /\ s.runs # << >> /\ Len(s.runs) \in 1..Len(s.runs)
  BY <1>1 DEF LifecycleState, HasRun
<1>4. abortRun(s).runs = UpdateCurrentRun(s, run).runs
        \/ abortRun(s).runs = UpdateCurrentRun(s, done).runs
  <2> DEFINE fenced == [UpdateCurrentRun(s, run) EXCEPT !.tentativeError = "none"]
  <2>1. fenced.runs = [s.runs EXCEPT ![Len(s.runs)] = run]
    BY <1>1 DEF UpdateCurrentRun, LifecycleState
  <2>2. UpdateCurrentRun(s, run).runs = [s.runs EXCEPT ![Len(s.runs)] = run]
    BY <1>1 DEF UpdateCurrentRun, LifecycleState
  <2>3. UpdateCurrentRun(s, done).runs = [s.runs EXCEPT ![Len(s.runs)] = done]
    BY <1>1 DEF UpdateCurrentRun, LifecycleState
  <2>4. Len(fenced.runs) = Len(s.runs) /\ currentRun(fenced) = run
    BY <1>3, <2>1 DEF currentRun
  <2>5. syncLifecycleCompatibility(fenced).runs = fenced.runs
    BY <1>1 DEF syncLifecycleCompatibility, UpdateCurrentRun, LifecycleState
  <2>6. endRun(fenced, FALSE).runs = [fenced.runs EXCEPT ![Len(fenced.runs)] = done]
    <3>1. endRun(fenced, FALSE).runs = UpdateCurrentRun(fenced, done).runs
      BY <1>1, <1>2, <2>4
         DEF endRun, syncLifecycleCompatibility, UpdateCurrentRun, LifecycleState
    <3> QED
      BY <1>1, <3>1 DEF UpdateCurrentRun, LifecycleState
  <2>7. [fenced.runs EXCEPT ![Len(fenced.runs)] = done] = [s.runs EXCEPT ![Len(s.runs)] = done]
    BY <1>3, <2>1, <2>4
  <2> HIDE DEF fenced
  <2>8. abortRun(s) \in {endRun(fenced, FALSE), syncLifecycleCompatibility(fenced)}
    BY DEF abortRun, fenced
  <2> QED
    BY <2>1, <2>2, <2>3, <2>5, <2>6, <2>7, <2>8
<1> HIDE DEF run, done
<1> QED
  BY <1>1, <1>2, <1>4, UpdateSucceeds

(* A settlement does not turn an abort into a success; what it drops was   *)
(* the newest run.                                                         *)
LEMMA SettleSucceeds ==
  ASSUME NEW s, Consistent(s),
         NEW outcome \in {"none", "succeeded", "failed", "aborted"},
         NEW aborted \in BOOLEAN, NEW withError \in BOOLEAN
  PROVE  Succeeds(s.runs, settleRunToIdle(s, outcome, aborted, withError).runs, s.runSequence)
<1> DEFINE dropped == DropUncorroborated(s)
           old == currentRun(dropped)
           settled == [old EXCEPT
                         !.outcome = SettledOutcome(old, outcome, aborted),
                         !.error = IF withError THEN "settlement" ELSE @]
<1>1. /\ s \in LifecycleState /\ s.runs \in Seq(SubagentRun) /\ s.runSequence \in Nat
      /\ OrderedRuns(s.runs, s.runSequence)
  BY DEF Consistent, LifecycleState
<1>2. CASE isLifecycleTerminal(s)
  BY <1>2, HistorySucceeds DEF settleRunToIdle, CanSettle
<1>3. CASE ~isLifecycleTerminal(s)
  <2>1. Consistent(dropped) /\ Core(dropped) /\ dropped.runSequence = s.runSequence
    BY <1>3, DropUncorroboratedStep, ConsistentCore DEF SameLedger
  <2>2. \A i \in 1..Len(dropped.runs) : \E n \in 1..Len(s.runs) : dropped.runs[i] = s.runs[n]
    <3>1. CASE dropped = s
      BY <3>1
    <3>2. CASE dropped # s
      <4>1. dropped.runs = SubSeq(s.runs, 1, Len(s.runs) - 1) /\ Len(s.runs) \in Nat \ {0}
        BY <1>1, <3>2 DEF DropUncorroborated, CurrentRunIn, HasRun, LifecycleState
      <4>2. /\ Len(dropped.runs) = Len(s.runs) - 1
            /\ \A i \in 1..Len(s.runs) - 1 : dropped.runs[i] = s.runs[i]
        BY <1>1, <4>1
      <4> QED
        BY <4>1, <4>2
    <3> QED
      BY <3>1, <3>2
  <2>3. CASE ~CanSettle(s)
    <3>1. Succeeds(dropped.runs, dropped.runs, s.runSequence)
      BY HistorySucceeds
    <3>2. settleRunToIdle(s, outcome, aborted, withError) = dropped
      BY <1>3, <2>3 DEF settleRunToIdle
    <3> HIDE DEF dropped
    <3> QED
      BY <2>2, <3>1, <3>2, PartSucceeds
  <2>4. CASE CanSettle(s)
    <3>1. HasRun(dropped) /\ old \in SubagentRun /\ old.phase = "ended"
      BY <2>1, <2>4, CurrentRunFacts DEF CanSettle, CurrentRunIn
    <3>2. settled.id = old.id /\ AbortKept(old, settled)
      BY <3>1 DEF SubagentRun, AbortKept, SettledOutcome
    <3>3. settleRunToIdle(s, outcome, aborted, withError).runs
            = UpdateCurrentRun(dropped, settled).runs
      BY <2>1, <2>4
         DEF settleRunToIdle, syncLifecycleCompatibility, UpdateCurrentRun, LifecycleState, Core
    <3> HIDE DEF settled, dropped
    <3>4. Succeeds(dropped.runs, UpdateCurrentRun(dropped, settled).runs, s.runSequence)
      BY <2>1, <3>1, <3>2, UpdateSucceeds
    <3> QED
      BY <2>2, <3>3, <3>4, PartSucceeds
  <2> QED
    BY <2>3, <2>4
<1> QED
  BY <1>2, <1>3

(***************************************************************************)
(* Every operation: the new history comes from the old one.                *)
(***************************************************************************)
LEMMA StepSucceeds ==
  ASSUME WellFormed(life), LifecycleNext
  PROVE  Succeeds(life.runs, life'.runs, life.runSequence)
<1>1. /\ Consistent(life) /\ Core(life) /\ life \in LifecycleState
      /\ life.runs \in Seq(SubagentRun) /\ life.runSequence \in Nat
      /\ OrderedRuns(life.runs, life.runSequence)
  BY ConsistentCore DEF WellFormed, Consistent, LifecycleState
<1>2. Succeeds(life.runs, life.runs, life.runSequence)
  BY HistorySucceeds
<1>3. HasRun(life) => currentRun(life) \in SubagentRun
  BY <1>1, CurrentRunFacts
<1>4. CASE StartRun
  <2> PICK id \in 1..MaxRunId : CanStartRun(life, id) /\ life' = startRun(life, id)
    BY <1>4 DEF StartRun
  <2> QED
    BY <1>1, StartSucceeds, MaxRunIdAssumption
<1>5. CASE CorroborateRun
  <2> DEFINE run == [currentRun(life) EXCEPT !.corroborated = TRUE]
  <2>1. HasRun(life) /\ run.id = currentRun(life).id /\ AbortKept(currentRun(life), run)
    BY <1>3, <1>5 DEF CorroborateRun, HasActiveRun, CurrentRunIn, SubagentRun, AbortKept
  <2>2. life' = UpdateCurrentRun(life, run)
    BY <1>5 DEF CorroborateRun, corroborateRun
  <2> HIDE DEF run
  <2> QED
    BY <1>1, <2>1, <2>2, UpdateSucceeds
<1>6. CASE RecordAssistantEnd
  <2> PICK verdict \in {"none", "failed", "aborted"}, generation \in {0, 1} :
             /\ HasActiveRun(life)
             /\ life' = recordAssistantEnd(life, verdict, generation)
    BY <1>6 DEF RecordAssistantEnd
  <2> DEFINE run == [currentRun(life) EXCEPT
                       !.corroborated = TRUE,
                       !.assistantMessageGeneration =
                         IF generation = 0 THEN @ ELSE generation,
                       !.outcome = IF verdict = "none" THEN @ ELSE verdict,
                       !.error = IF verdict = "failed" THEN "assistant" ELSE @]
  <2>1. HasRun(life) /\ run.id = currentRun(life).id /\ AbortKept(currentRun(life), run)
    BY <1>3 DEF HasActiveRun, CurrentRunIn, SubagentRun, AbortKept
  <2>2. life'.runs = UpdateCurrentRun(life, run).runs
    BY <1>1 DEF recordAssistantEnd, UpdateCurrentRun, LifecycleState
  <2> HIDE DEF run
  <2> QED
    BY <1>1, <2>1, <2>2, UpdateSucceeds
<1>7. CASE EndRun
  <2> PICK willRetry \in BOOLEAN : HasActiveRun(life) /\ life' = endRun(life, willRetry)
    BY <1>7 DEF EndRun
  <2> QED
    BY <1>1, EndSucceeds DEF HasActiveRun, CurrentRunIn
<1>8. CASE AbortRun
  BY <1>1, <1>8, AbortSucceeds DEF AbortRun, CanAbortRun
<1>9. CASE RequestKill
  BY <1>1, <1>2, <1>9 DEF RequestKill, requestKill, syncLifecycleCompatibility, LifecycleState
<1>10. CASE ResetRunViewForSession
  <2>1. life'.runs = << >>
    BY <1>1, <1>10 DEF ResetRunViewForSession, resetRunViewForSession,
                       syncLifecycleCompatibility, LifecycleState
  <2> QED
    BY <2>1 DEF Succeeds
<1>11. CASE SettleRunToIdle
  BY <1>1, <1>11, SettleSucceeds DEF SettleRunToIdle
<1>12. CASE MarkStopped
  <2>1. life'.runs = life.runs
    BY <1>1, <1>12 DEF MarkStopped, markStopped, syncLifecycleCompatibility, LifecycleState
  <2> QED
    BY <1>2, <2>1
<1> QED
  BY <1>4, <1>5, <1>6, <1>7, <1>8, <1>9, <1>10, <1>11, <1>12 DEF LifecycleNext

-----------------------------------------------------------------------------
(* The theorems.                                                           *)

(* Every operation, in any order, keeps the lifecycle record well formed, *)
(* and a process that closed with an unsettled run is not reported done.  *)
THEOREM InvariantHolds == LifecycleSpec => []LifecycleInvariant
<1>1. LifecycleInit => LifecycleInvariant
  BY InitialRecord DEF LifecycleInit, LifecycleInvariant, UnsettledCloseIsError
<1>2. LifecycleInvariant /\ [LifecycleNext]_lifecycleVars => LifecycleInvariant'
  <2> SUFFICES ASSUME LifecycleInvariant, [LifecycleNext]_lifecycleVars
               PROVE  LifecycleInvariant'
    OBVIOUS
  <2>1. CASE life' = life
    BY <2>1 DEF LifecycleInvariant, UnsettledCloseIsError
  <2>2. CASE LifecycleNext /\ life' # life
    <3>1. /\ WellFormed(life')
          /\ ~isLifecycleTerminal(life)
          /\ RecordMoves(life, life')
      BY <2>2, StepMoves DEF LifecycleInvariant
    <3>2. UnsettledCloseIsError'
      BY <3>1 DEF UnsettledCloseIsError, isLifecycleTerminal, RecordMoves,
                  RunStarts, RunSettles, ProcessStops, CountersKept
    <3> QED
      BY <3>1, <3>2 DEF LifecycleInvariant
  <2> QED
    BY <2>1, <2>2 DEF lifecycleVars
<1> QED
  BY <1>1, <1>2, PTL DEF LifecycleSpec

(* The lifecycle record keeps the field types of lifecycle.ts. *)
THEOREM TypeCorrect == LifecycleSpec => []LifecycleTypeOK
<1>1. LifecycleInvariant => LifecycleTypeOK
  BY DEF LifecycleInvariant, WellFormed, Consistent, LifecycleTypeOK
<1> QED
  BY <1>1, InvariantHolds, PTL

(* The run history stays a bounded, ordered window whose newest run is the *)
(* only one that can be active.                                            *)
THEOREM HistoryStaysOrdered == LifecycleSpec => []HistoryOrdered
<1>1. LifecycleInvariant => HistoryOrdered
  BY DEF LifecycleInvariant, WellFormed, Consistent, HistoryOrdered
<1> QED
  BY <1>1, InvariantHolds, PTL

(* The settlement cursor never reaches the run the handle reports open. *)
THEOREM CursorStaysBehind == LifecycleSpec => []CursorBehindOpenRun
<1>1. LifecycleInvariant => CursorBehindOpenRun
  BY DEF LifecycleInvariant, WellFormed, Consistent, CursorBehindOpenRun
<1> QED
  BY <1>1, InvariantHolds, PTL

(* A live settled handle shows an error exactly when its run failed. *)
THEOREM SettledViewStaysCoherent == LifecycleSpec => []SettledViewCoherent
<1>1. LifecycleInvariant => SettledViewCoherent
  BY DEF LifecycleInvariant, WellFormed, Consistent, CoherentResult, SettledViewCoherent
<1> QED
  BY <1>1, InvariantHolds, PTL

(* Every operation leaves the derived compatibility fields in agreement. *)
THEOREM CompatStaysInSync == LifecycleSpec => []CompatInSync
<1>1. LifecycleInvariant => CompatInSync
  BY DEF LifecycleInvariant, WellFormed, Consistent, CompatInSync
<1> QED
  BY <1>1, InvariantHolds, PTL

(* A process that closes with an unsettled run is never reported done. *)
THEOREM UnsettledCloseIsReported == LifecycleSpec => []UnsettledCloseIsError
<1>1. LifecycleInvariant => UnsettledCloseIsError
  BY DEF LifecycleInvariant
<1> QED
  BY <1>1, InvariantHolds, PTL

(* No event of any kind changes a handle whose process has stopped. *)
THEOREM StoppedStaysFinal == LifecycleSpec => StoppedIsFinal
<1>1. LifecycleInvariant /\ [LifecycleNext]_lifecycleVars
        => [life.processState = "stopped" => UNCHANGED life]_lifecycleVars
  BY StepMoves DEF LifecycleInvariant, isLifecycleTerminal, lifecycleVars
<1> QED
  BY <1>1, InvariantHolds, PTL DEF LifecycleSpec, StoppedIsFinal

(* A requested kill is never withdrawn and no run starts after it. *)
THEOREM KillStaysSticky == LifecycleSpec => KillIsSticky
<1>1. LifecycleInvariant /\ [LifecycleNext]_lifecycleVars
        => [life.killRequested =>
              /\ life'.killRequested
              /\ life'.runSequence = life.runSequence]_lifecycleVars
  <2>1. LifecycleInvariant /\ LifecycleNext => life' = life \/ RecordMoves(life, life')
    BY StepMoves DEF LifecycleInvariant
  <2>2. RecordMoves(life, life') /\ life.killRequested =>
          /\ life'.killRequested
          /\ life'.runSequence = life.runSequence
    BY Zenon DEF RecordMoves, RunStarts, RunSettles, ProcessStops, CountersKept
  <2> QED
    BY <2>1, <2>2, Zenon DEF lifecycleVars
<1> QED
  BY <1>1, InvariantHolds, PTL DEF LifecycleSpec, KillIsSticky

(* No operation turns an aborted run into a success or opens it again; only *)
(* a failure that is reported for it may replace the abort.                 *)
THEOREM AbortStays == LifecycleSpec => AbortedNeverSucceeds
<1>1. LifecycleInvariant /\ [LifecycleNext]_lifecycleVars
        => [\A i \in 1..Len(life.runs), j \in 1..Len(life'.runs) :
              /\ life.runs[i].id = life'.runs[j].id
              /\ life.runs[i].outcome = "aborted"
              => life'.runs[j].outcome \notin {"succeeded", "pending"}]_lifecycleVars
  <2> SUFFICES ASSUME LifecycleInvariant, LifecycleNext,
                      NEW i \in 1..Len(life.runs), NEW j \in 1..Len(life'.runs),
                      life.runs[i].id = life'.runs[j].id
               PROVE  AbortKept(life.runs[i], life'.runs[j])
    BY Zenon DEF AbortKept, lifecycleVars
  <2>1. /\ WellFormed(life)
        /\ life.runs \in Seq(SubagentRun) /\ life.runSequence \in Nat
        /\ OrderedRuns(life.runs, life.runSequence)
    BY DEF LifecycleInvariant, WellFormed, Consistent, LifecycleState
  <2> QED
    BY <2>1, StepSucceeds, SucceedsById
<1> QED
  BY <1>1, InvariantHolds, PTL DEF LifecycleSpec, AbortedNeverSucceeds

(* The lifecycle record implements the run ledger: each run settles at most *)
(* once, in order, only after it was started and while the child is alive.  *)
THEOREM RefinesLedger == LifecycleSpec => RefinesRunLedger
<1>1. LifecycleInit => Ledger!LedgerInit
  BY InitialRecord DEF LifecycleInit, Ledger!LedgerInit
<1>2. LifecycleInvariant /\ [LifecycleNext]_lifecycleVars
        => [Ledger!LedgerNext]_(Ledger!ledgerVars)
  <2> SUFFICES ASSUME LifecycleInvariant, [LifecycleNext]_lifecycleVars
               PROVE  [Ledger!LedgerNext]_(Ledger!ledgerVars)
    OBVIOUS
  <2>1. CASE life' = life
    BY <2>1 DEF Ledger!ledgerVars
  <2>2. CASE LifecycleNext /\ life' # life
    <3>1. /\ WellFormed(life')
          /\ ~isLifecycleTerminal(life)
          /\ RecordMoves(life, life')
      BY <2>2, StepMoves DEF LifecycleInvariant
    <3>2. /\ life \in LifecycleState
          /\ life' \in LifecycleState
      BY <3>1 DEF LifecycleInvariant, WellFormed, Consistent
    <3>3. /\ life.processState = "alive"
          /\ life'.runSequence \in Nat
          /\ life'.lastSettledRunId \in Nat
      BY <3>1, <3>2 DEF LifecycleState, isLifecycleTerminal
    <3>4. CASE RunStarts(life, life')
      BY <3>3, <3>4 DEF RunStarts, Ledger!LedgerNext, Ledger!StartTurn
    <3>5. CASE RunSettles(life, life')
      BY <3>3, <3>5 DEF RunSettles, Ledger!LedgerNext, Ledger!SettleTurn
    <3>6. CASE ProcessStops(life, life')
      BY <3>3, <3>6 DEF ProcessStops, Ledger!LedgerNext, Ledger!StopProcess
    <3>7. CASE CountersKept(life, life')
      BY <3>3, <3>7 DEF CountersKept, Ledger!ledgerVars
    <3> QED
      BY <3>1, <3>4, <3>5, <3>6, <3>7 DEF RecordMoves
  <2> QED
    BY <2>1, <2>2 DEF lifecycleVars
<1> QED
  BY <1>1, <1>2, InvariantHolds, PTL DEF LifecycleSpec, RefinesRunLedger,
     Ledger!LedgerSpec
=============================================================================
