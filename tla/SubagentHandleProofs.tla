------------------------- MODULE SubagentHandleProofs -------------------------
(***************************************************************************)
(* What one handle guarantees, for any number of runs, messages and tool   *)
(* calls and any order of records: it is quiet once its run has settled,   *)
(* its owner is woken once for each stop and for every death, and nothing  *)
(* is counted or started twice.                                            *)
(***************************************************************************)
EXTENDS SubagentHandle, LifecycleProofs, FiniteSetTheorems

-----------------------------------------------------------------------------
(* The parts of the inductive invariant.                                   *)

(* A stream within its limit. *)
Stream(m) ==
  /\ m \in AssistantLiveState
  /\ Len(m.finalized) <= MAX_FINALIZED_ASSISTANT_IDENTITIES

(* The types of what is shown and of what the owner was told. *)
Shown ==
  /\ abortRequested \in BOOLEAN
  /\ Stream(stream)
  /\ isStreaming \in BOOLEAN
  /\ assembly \in Identity
  /\ activeTools \subseteq ToolCall
  /\ IsFiniteSet(activeTools) /\ Cardinality(activeTools) <= MAX_ACTIVE_TOOLS

Told ==
  /\ shuttingDown \in BOOLEAN
  /\ announcedRunId \in Nat \union {-1}
  /\ wakes \in Seq(Wake)
  /\ awaiting \in {"prompted", "running", "none"}

(* The newest run of a record is still to settle. *)
Unsettled(l) == HasRun(l) /\ currentRun(l).id > l.lastSettledRunId

(* What the owner was told is told of runs that were counted, and leaves    *)
(* nothing that could be told a second time.                               *)
Announced ==
  /\ announcedRunId <= life.runSequence
  /\ awaiting = "running" /\ ~life.killRequested /\ ~shuttingDown =>
       announcedRunId < life.runSequence
  /\ awaiting = "none" =>
       /\ announcedRunId = life.runSequence
       /\ ~isLifecycleTerminal(life) => ~Unsettled(life)

(* While the child lives each wake is the settlement of a run. *)
WakesSettled ==
  ~isLifecycleTerminal(life) =>
    \A n \in 1..Len(wakes) : wakes[n] # Died /\ wakes[n].runId <= life.lastSettledRunId

(* A bounded memory of what was seen, the oldest forgotten first: until its *)
(* limit is exceeded it is exact, and so is the count n.                   *)
Remembers(known, limit, seen, n) ==
  Cardinality(seen) <= limit =>
    /\ n = Cardinality(seen)
    /\ n = Len(known)
    /\ \A x \in seen : \E k \in 1..Len(known) : known[k] = x

(* The memories of the tool calls and of the messages of a run. *)
ToolMemory ==
  /\ knownToolCallIds \in Seq(ToolCall)
  /\ Len(knownToolCallIds) <= MAX_KNOWN_TOOL_CALL_IDS
  /\ toolStarts \in Nat
  /\ begun \subseteq ToolCall /\ IsFiniteSet(begun)
  /\ Remembers(knownToolCallIds, MAX_KNOWN_TOOL_CALL_IDS, begun, toolStarts)

MessageMemory ==
  /\ turns \in Nat
  /\ counted \subseteq Message /\ IsFiniteSet(counted)
  /\ Remembers(stream.finalized, MAX_FINALIZED_ASSISTANT_IDENTITIES, counted, turns)

HandleInvariant ==
  /\ Consistent(life)
  /\ Shown /\ SettledHandleIsQuiet
  /\ Told /\ Announced /\ DeathOfRunIsAnnounced
  /\ WakesSettled /\ WakesInOrder
  /\ ToolMemory /\ MessageMemory

-----------------------------------------------------------------------------
(* How the record of a handle moves, and what its owner is told of it.     *)

(* A run begins; the owner now waits for it. *)
Starts ==
  /\ ~isLifecycleTerminal(life) /\ ~life.killRequested
  /\ life'.processState = life.processState
  /\ life'.killRequested = life.killRequested
  /\ life'.lastSettledRunId = life.lastSettledRunId
  /\ life'.runSequence > life.runSequence
  /\ awaiting' = "running"
  /\ UNCHANGED <<announcedRunId, wakes>>

(* The newest run settles and is announced with its outcome. *)
Settles(aborted) ==
  /\ ~isLifecycleTerminal(life) /\ Unsettled(life)
  /\ RunSettled(life, life', aborted)
  /\ life'.processState = life.processState
  /\ life'.killRequested = life.killRequested
  /\ life'.runSequence = life.runSequence
  /\ announceStop(life', [runId |-> currentRun(life').id,
                          outcome |-> currentRun(life').outcome])

(* The process closes, which is announced unless its last stop was. *)
Stops ==
  /\ ~isLifecycleTerminal(life) /\ isLifecycleTerminal(life')
  /\ life'.killRequested = life.killRequested
  /\ life'.runSequence = life.runSequence
  /\ life'.lastSettledRunId = life.lastSettledRunId
  /\ IF AlreadyAnnounced THEN UNCHANGED notices ELSE announceStop(life', Died)

(* Nothing is announced, and no run becomes one that is still to settle. *)
Keeps ==
  /\ life'.processState = life.processState
  /\ life'.runSequence = life.runSequence
  /\ life'.lastSettledRunId = life.lastSettledRunId
  /\ life.killRequested => life'.killRequested
  /\ ~isLifecycleTerminal(life) /\ Unsettled(life') => Unsettled(life)
  /\ UNCHANGED <<announcedRunId, wakes>>
  /\ awaiting' \in {awaiting, "prompted"}

Moves ==
  /\ Consistent(life')
  /\ \/ Starts
     \/ \E aborted \in BOOLEAN : (abortRequested => aborted) /\ Settles(aborted)
     \/ Stops
     \/ Keeps

(* Resetting the errors of a record leaves it consistent. *)
LEMMA ResetRunErrorsStep ==
  ASSUME NEW s, Consistent(s)
  PROVE  /\ Consistent(resetRunErrors(s))
         /\ SameLedger(s, resetRunErrors(s))
         /\ resetRunErrors(s).runs = s.runs
         /\ resetRunErrors(s).settlementStatus = s.settlementStatus
<1> DEFINE t == resetRunErrors(s)
<1>1. /\ t \in LifecycleState
      /\ t.state = s.state /\ t.lifecycle = s.lifecycle
      /\ t.processState = s.processState
      /\ t.runState = s.runState
      /\ t.runSequence = s.runSequence
      /\ t.lastSettledRunId = s.lastSettledRunId
      /\ t.runs = s.runs
      /\ t.runOutcome = s.runOutcome
      /\ t.settlementStatus = s.settlementStatus
      /\ t.killRequested = s.killRequested
  <2>1. s \in LifecycleState /\ "none" \in ErrorText
    BY DEF Consistent, ErrorText
  <2> QED
    BY <2>1 DEF LifecycleState, resetRunErrors
<1> HIDE DEF t
<1>2. CursorBehind(t) /\ ActiveRunShown(t) /\ SettledIsIdle(t)
  BY <1>1 DEF Consistent, CursorBehind, ActiveRunShown, SettledIsIdle, ShowsResult,
              HasActiveRun, isLifecycleTerminal, CurrentRunIn, HasRun, currentRun
<1>3. InSync(t)
  BY <1>1 DEF Consistent, InSync, CompatState, CompatLifecycle
<1>4. Consistent(t)
  BY <1>1, <1>2, <1>3 DEF Consistent
<1> QED
  BY <1>1, <1>4 DEF t, SameLedger

(* A settlement can only be accepted for a run that is still to settle. *)
LEMMA CanSettleUnsettled ==
  ASSUME NEW s, Consistent(s), CanSettle(s)
  PROVE  Unsettled(s)
<1>1. CASE CurrentRunIn(s, "active")
  BY <1>1 DEF Consistent, CursorBehind, Unsettled, CurrentRunIn
<1>2. CASE ~CurrentRunIn(s, "active")
  <2>1. DropUncorroborated(s) = s
    BY <1>2 DEF DropUncorroborated
  <2> QED
    BY <2>1 DEF CanSettle, CurrentRunIn, Unsettled
<1> QED
  BY <1>1, <1>2

(* A settlement that is refused leaves no run to settle that was not. *)
LEMMA RunsDroppedUnsettled ==
  ASSUME NEW s, Consistent(s), NEW t, RunsDropped(s, t), Unsettled(t)
  PROVE  Unsettled(s)
BY DEF RunsDropped, Consistent, CursorBehind, CurrentRunIn, Unsettled

(* A settlement first ends the current run, or leaves the record alone. *)
LEMMA EndedByFacts ==
  ASSUME NEW r \in Settlement, Consistent(life)
  PROVE  /\ Consistent(EndedBy(r))
         /\ SameLedger(life, EndedBy(r))
         /\ EndedBy(r).settlementStatus = life.settlementStatus
         /\ Unsettled(EndedBy(r)) => Unsettled(life)
         /\ \/ EndedBy(r) = life
            \/ CurrentRunIn(EndedBy(r), "ended")
         /\ HasActiveRun(life) /\ currentRun(life).corroborated =>
              /\ CurrentRunIn(EndedBy(r), "ended")
              /\ currentRun(EndedBy(r)).id = currentRun(life).id
<1> DEFINE Ended(e) == /\ Consistent(e) /\ SameLedger(life, e)
                       /\ RunEnded(life, e)
<1>1. ASSUME EndedBy(r) = life PROVE SameLedger(life, EndedBy(r))
  BY <1>1 DEF SameLedger
<1>2. CASE AbortFence(r)
  <2>1. CASE CanAbortRun(life)
    <3>1. EndedBy(r) = abortRun(life)
      BY <1>2, <2>1 DEF EndedBy
    <3>2. Ended(EndedBy(r))
      BY <2>1, <3>1, AbortRunStep
    <3>3. HasRun(life)
      BY <2>1 DEF CanAbortRun
    <3> QED
      BY <3>2, <3>3 DEF RunEnded, SameLedger, Unsettled
  <2>2. CASE ~CanAbortRun(life)
    <3>1. EndedBy(r) = life
      BY <1>2, <2>2 DEF EndedBy
    <3>2. ~HasActiveRun(life)
      BY <2>2 DEF CanAbortRun, HasActiveRun, CurrentRunIn
    <3> QED
      BY <1>1, <3>1, <3>2
  <2> QED
    BY <2>1, <2>2
<1>3. CASE ~AbortFence(r) /\ HasActiveRun(life) /\ currentRun(life).corroborated
  <2>1. EndedBy(r) = endRun(life, FALSE)
    BY <1>3 DEF EndedBy
  <2>2. Ended(EndedBy(r))
    BY <1>3, <2>1, ConsistentCore, EndRunStep
  <2>3. HasRun(life)
    BY <1>3 DEF HasActiveRun, CurrentRunIn
  <2> QED
    BY <2>2, <2>3 DEF RunEnded, SameLedger, Unsettled
<1>4. CASE ~AbortFence(r) /\ ~(HasActiveRun(life) /\ currentRun(life).corroborated)
  <2>1. EndedBy(r) = life
    BY <1>4 DEF EndedBy
  <2> QED
    BY <1>1, <1>4, <2>1
<1> QED
  BY <1>2, <1>3, <1>4

(* A corroborated run in progress is one that a settlement ends. *)
LEMMA ActiveRunCanSettle ==
  ASSUME NEW r \in Settlement, Consistent(life), HasActiveRun(life),
         currentRun(life).corroborated
  PROVE  CanSettle(EndedBy(r))
<1>1. /\ CurrentRunIn(EndedBy(r), "ended")
      /\ currentRun(EndedBy(r)).id = currentRun(life).id
      /\ SameLedger(life, EndedBy(r))
  BY EndedByFacts
<1>2. currentRun(life).id > life.lastSettledRunId
  BY DEF Consistent, CursorBehind, HasActiveRun
<1>3. DropUncorroborated(EndedBy(r)) = EndedBy(r)
  BY <1>1 DEF DropUncorroborated, CurrentRunIn
<1> QED
  BY <1>1, <1>2, <1>3 DEF CanSettle, SameLedger, HasActiveRun, isLifecycleTerminal

(* A settlement either settles the newest run or is ignored. *)
LEMMA SettledMoves ==
  ASSUME NEW r \in Settlement, Consistent(life), AgentSettled(r)
  PROVE  Moves
<1> DEFINE e == EndedBy(r)
           outcome == IF AbortFence(r) THEN "aborted" ELSE r.outcome
           fence == AbortFence(r)
           withError == r.withError /\ ~fence
<1>1. /\ ~isLifecycleTerminal(life)
      /\ life' = settleRunToIdle(e, outcome, fence, withError)
      /\ SettlementAccepted(r) <=> CanSettle(e)
  BY DEF AgentSettled, SettlementAccepted
<1>2. /\ Consistent(e)
      /\ SameLedger(life, e)
      /\ Unsettled(e) => Unsettled(life)
  BY EndedByFacts
<1>3. /\ outcome \in {"none", "succeeded", "failed", "aborted"}
      /\ r.outcome \in {"none", "succeeded", "failed", "aborted"}
      /\ withError \in BOOLEAN
  BY DEF Settlement
<1>4. fence \in BOOLEAN /\ (abortRequested => fence)
  BY DEF AbortFence
<1> HIDE DEF e, outcome, fence, withError
<1>5. /\ Consistent(life')
      /\ ~CanSettle(e) => /\ life'.lastSettledRunId = e.lastSettledRunId
                          /\ RunsDropped(e, life')
      /\ CanSettle(e) => RunSettled(e, life', fence)
      /\ life'.processState = e.processState
      /\ life'.runSequence = e.runSequence
      /\ life'.killRequested = e.killRequested
  <2> DEFINE t == settleRunToIdle(e, outcome, fence, withError)
  <2>1. /\ Consistent(t)
        /\ ErrorOfResult(e) => ErrorOfResult(t)
        /\ isLifecycleTerminal(e) => t = e
        /\ ~CanSettle(e) => /\ t.lastSettledRunId = e.lastSettledRunId
                            /\ RunsDropped(e, t)
        /\ CanSettle(e) => RunSettled(e, t, fence)
        /\ t.processState = e.processState
        /\ t.runSequence = e.runSequence
        /\ t.killRequested = e.killRequested
        /\ \/ t.lastSettledRunId = e.lastSettledRunId
           \/ /\ t.lastSettledRunId > e.lastSettledRunId
              /\ t.lastSettledRunId <= e.runSequence
    BY <1>2, <1>3, <1>4, SettleStep, ZenonT(60)
  <2> QED
    BY <1>1, <2>1
<1>6. CASE CanSettle(e)
  <2>1. Unsettled(life)
    BY <1>2, <1>6, CanSettleUnsettled
  <2>2. RunSettled(life, life', fence)
    BY <1>2, <1>5, <1>6 DEF RunSettled, SameLedger
  <2>3. announceStop(life', [runId |-> currentRun(life').id,
                             outcome |-> currentRun(life').outcome])
    BY <1>1, <1>6 DEF AgentSettled
  <2>4. Settles(fence)
    BY <1>1, <1>2, <1>5, <2>1, <2>2, <2>3 DEF Settles, SameLedger
  <2> QED
    BY <1>4, <1>5, <2>4 DEF Moves
<1>7. CASE ~CanSettle(e)
  <2>1. UNCHANGED notices
    BY <1>1, <1>7 DEF AgentSettled
  <2>2. Unsettled(life') => Unsettled(life)
    BY <1>2, <1>5, <1>7, RunsDroppedUnsettled
  <2>3. Keeps
    BY <1>2, <1>5, <1>7, <2>1, <2>2 DEF Keeps, SameLedger, notices
  <2> QED
    BY <1>5, <2>3 DEF Moves
<1> QED
  BY <1>6, <1>7

(* A start begins a run or only resets what the handle shows. *)
LEMMA StartMoves ==
  ASSUME NEW runId \in Nat, Consistent(life), AgentStart(runId)
  PROVE  Moves
<1> DEFINE before == IF ResetsForRun THEN resetRunErrors(life) ELSE life
           id == IF runId = 0 THEN life.runSequence + 1 ELSE runId
<1>1. /\ Consistent(before)
      /\ SameLedger(life, before)
      /\ before.runs = life.runs
  BY ResetRunErrorsStep DEF SameLedger
<1>2. /\ ~isLifecycleTerminal(life)
      /\ life' = IF CanStartRun(before, id) THEN startRun(before, id) ELSE before
      /\ awaiting' = IF CanStartRun(before, id) THEN "running" ELSE awaiting
      /\ UNCHANGED <<announcedRunId, wakes>>
  BY DEF AgentStart
<1>3. life.runSequence \in Nat
  BY DEF Consistent, LifecycleState
<1>4. id \in Nat \ {0}
  BY <1>3
<1> HIDE DEF before, id
<1>5. CASE CanStartRun(before, id)
  <2>1. /\ Consistent(life')
        /\ life'.runSequence = id
        /\ life'.lastSettledRunId = before.lastSettledRunId
        /\ life'.processState = before.processState
        /\ life'.killRequested = before.killRequested
    BY <1>1, <1>2, <1>4, <1>5, StartRunStep
  <2>2. id > life.runSequence /\ ~life.killRequested
    BY <1>1, <1>5 DEF CanStartRun, SameLedger
  <2>3. Starts
    BY <1>1, <1>2, <1>5, <2>1, <2>2 DEF Starts, SameLedger
  <2> QED
    BY <2>1, <2>3 DEF Moves
<1>6. CASE ~CanStartRun(before, id)
  <2>1. life' = before
    BY <1>2, <1>6
  <2>2. Unsettled(life') => Unsettled(life)
    BY <1>1, <2>1 DEF Unsettled, HasRun, currentRun, SameLedger
  <2>3. Keeps
    BY <1>1, <1>2, <1>6, <2>1, <2>2 DEF Keeps, SameLedger
  <2> QED
    BY <1>1, <2>1, <2>3 DEF Moves
<1> QED
  BY <1>5, <1>6

(* A step that leaves the record alone, or only its newest run's details. *)
LEMMA DetailMoves ==
  ASSUME UNCHANGED <<announcedRunId, wakes>>, awaiting' \in {awaiting, "prompted"},
         Consistent(life'), SameLedger(life, life'),
         Unsettled(life') => Unsettled(life)
  PROVE  Moves
BY DEF Moves, Keeps, SameLedger

(* What an action that neither starts, settles nor closes does to the record. *)
Details ==
  \/ life' = life
  \/ HasActiveRun(life) /\ life' = corroborateRun(life)
  \/ /\ HasActiveRun(life)
     /\ \E willRetry \in BOOLEAN : life' = endRun(life, willRetry)
  \/ /\ HasActiveRun(life)
     /\ \E verdict \in {"none", "failed", "aborted"}, generation \in Nat :
          life' = recordAssistantEnd(life, verdict, generation)

(* A step that changes only details announces nothing and settles nothing.   *)
LEMMA DetailsKept ==
  ASSUME Consistent(life), Details,
         UNCHANGED <<announcedRunId, wakes>>, awaiting' \in {awaiting, "prompted"}
  PROVE  Moves
<1>1. HasActiveRun(life) => HasRun(life)
  BY DEF HasActiveRun, CurrentRunIn
<1>2. CASE life' = life
  <2>1. Consistent(life') /\ SameLedger(life, life') /\ (Unsettled(life') => Unsettled(life))
    BY <1>2 DEF SameLedger
  <2> QED
    BY <2>1, DetailMoves
<1>3. ASSUME HasActiveRun(life), Consistent(life'), SameLedger(life, life'),
             currentRun(life').id = currentRun(life).id
      PROVE  Moves
  <2>1. Unsettled(life') => Unsettled(life)
    BY <1>1, <1>3 DEF Unsettled, SameLedger
  <2> QED
    BY <1>3, <2>1, DetailMoves
<1>4. CASE HasActiveRun(life) /\ life' = corroborateRun(life)
  BY <1>3, <1>4, CorroborateRunStep
<1>5. ASSUME HasActiveRun(life), NEW willRetry \in BOOLEAN, life' = endRun(life, willRetry)
      PROVE  Moves
  <2>1. Consistent(life') /\ SameLedger(life, life') /\ RunEnded(life, life')
    BY <1>5, EndRunStep, ConsistentCore
  <2> QED
    BY <1>3, <1>5, <2>1 DEF RunEnded
<1>6. ASSUME HasActiveRun(life), NEW verdict \in {"none", "failed", "aborted"},
             NEW generation \in Nat,
             life' = recordAssistantEnd(life, verdict, generation)
      PROVE  Moves
  BY <1>3, <1>6, RecordAssistantEndStep
<1> QED
  BY <1>2, <1>4, <1>5, <1>6 DEF Details

-----------------------------------------------------------------------------
(* The message stream and what is remembered of it.                        *)

(* A handle begins with an empty stream. *)
LEMMA NoStreamType == NoIdentity \in Identity /\ Stream(NoStream)
<1>1. NoIdentity \in Identity
  BY DEF NoIdentity, Identity
<1>2. /\ NoStream.finalized = << >>
      /\ NoStream \in AssistantLiveState
  BY <1>1 DEF NoStream, AssistantLiveState
<1>3. Len(NoStream.finalized) = 0
  BY <1>2
<1> QED
  BY <1>1, <1>2, <1>3, TombstoneAssumption DEF Stream

(* Starting a message opens the stream and forgets no finalized one. *)
LEMMA StartMessageStep ==
  ASSUME NEW m, Stream(m), NEW i \in Identity
  PROVE  /\ Stream(startAssistantMessage(m, i))
         /\ startAssistantMessage(m, i).finalized = m.finalized
<1> DEFINE new == [m EXCEPT !.generation = m.generation + 1, !.active = TRUE,
                            !.current = i]
<1>1. m \in AssistantLiveState /\ m.generation + 1 \in Nat
  BY DEF Stream, AssistantLiveState
<1>2. new \in AssistantLiveState /\ new.finalized = m.finalized
  BY <1>1 DEF AssistantLiveState
<1>3. new = startAssistantMessage(m, i)
  BY DEF startAssistantMessage
<1> HIDE DEF new
<1> QED
  BY <1>2, <1>3 DEF Stream

(* An update may give the current message its response id, no more. *)
LEMMA UpdateMessageStep ==
  ASSUME NEW m, Stream(m), NEW i \in Identity
  PROVE  /\ Stream(updateAssistantMessage(m, i))
         /\ updateAssistantMessage(m, i).finalized = m.finalized
         /\ updateAssistantMessage(m, i).active = m.active
<1>1. ASSUME NEW c \in Identity
      PROVE  [c EXCEPT !.rid = i.rid] \in Identity
  BY DEF Identity
<1>2. ASSUME NEW c \in Identity
      PROVE  /\ Stream([m EXCEPT !.current = c])
             /\ [m EXCEPT !.current = c].finalized = m.finalized
             /\ [m EXCEPT !.current = c].active = m.active
  BY DEF Stream, AssistantLiveState
<1>3. m.current \in Identity
  BY DEF Stream, AssistantLiveState
<1>4. [m EXCEPT !.current.rid = i.rid] =
        [m EXCEPT !.current = [m.current EXCEPT !.rid = i.rid]]
  OBVIOUS
<1>5. CASE m.current.rid = 0
  <2>1. updateAssistantMessage(m, i) =
          [m EXCEPT !.current = [m.current EXCEPT !.rid = i.rid]]
    BY <1>4, <1>5 DEF updateAssistantMessage
  <2> QED
    BY <1>1, <1>2, <1>3, <2>1
<1>6. CASE m.current.rid # 0
  BY <1>6 DEF updateAssistantMessage
<1> QED
  BY <1>5, <1>6

(* A deactivated stream shows no open message and keeps its tombstones. *)
LEMMA DeactivateMessageStep ==
  ASSUME NEW m, Stream(m)
  PROVE  /\ Stream(deactivateAssistantMessage(m))
         /\ deactivateAssistantMessage(m).finalized = m.finalized
         /\ deactivateAssistantMessage(m).active = FALSE
<1>1. NoIdentity \in Identity
  BY DEF NoIdentity, Identity
<1> QED
  BY <1>1 DEF Stream, AssistantLiveState, deactivateAssistantMessage

(* A list that drops its oldest element when it has grown over its limit. *)
LEMMA BoundedAppend ==
  ASSUME NEW S, NEW known \in Seq(S), NEW x \in S, NEW limit \in Nat \ {0},
         NEW grown, grown = Append(known, x),
         NEW kept, kept = IF Len(grown) > limit THEN Tail(grown) ELSE grown,
         Len(known) <= limit
  PROVE  kept \in Seq(S) /\ Len(kept) <= limit
<1>1. grown \in Seq(S) /\ Len(grown) = Len(known) + 1 /\ Len(known) \in Nat
  OBVIOUS
<1>2. CASE Len(grown) > limit
  <2>1. grown # << >>
    BY <1>1
  <2>2. Tail(grown) \in Seq(S) /\ Len(Tail(grown)) = Len(grown) - 1
    BY <1>1, <2>1, HeadTailProperties
  <2> QED
    BY <1>1, <1>2, <2>2
<1>3. CASE ~(Len(grown) > limit)
  BY <1>1, <1>3
<1> QED
  BY <1>2, <1>3

(* Finalizing a message closes the stream and keeps it within its limit. *)
LEMMA FinalizeMessageStep ==
  ASSUME NEW m, Stream(m), NEW i \in Identity
  PROVE  /\ Stream(finalizeAssistantMessage(m, i))
         /\ finalizeAssistantMessage(m, i).finalized = rememberFinalized(m, i)
         /\ finalizeAssistantMessage(m, i).finalGeneration \in Nat
<1> DEFINE u == updateAssistantMessage(m, i)
           kept == rememberFinalized(u, i)
           new == [u EXCEPT !.active = FALSE, !.finalGeneration = u.generation,
                            !.final = u.current, !.finalized = kept]
<1>1. Stream(u) /\ u.finalized = m.finalized
  BY UpdateMessageStep
<1>2. kept = rememberFinalized(m, i)
  BY <1>1 DEF rememberFinalized, wasFinalized
<1> HIDE DEF u
<1>3. u.finalized \in Seq(Identity)
  BY <1>1 DEF Stream, AssistantLiveState
<1>4. kept \in Seq(Identity) /\ Len(kept) <= MAX_FINALIZED_ASSISTANT_IDENTITIES
  <2> DEFINE grown == Append(u.finalized, i)
             short == IF Len(grown) > MAX_FINALIZED_ASSISTANT_IDENTITIES
                      THEN Tail(grown) ELSE grown
  <2>1. short \in Seq(Identity) /\ Len(short) <= MAX_FINALIZED_ASSISTANT_IDENTITIES
    BY <1>1, <1>3, BoundedAppend, TombstoneAssumption DEF Stream
  <2>2. kept = IF wasFinalized(u, i) THEN u.finalized ELSE short
    BY DEF rememberFinalized
  <2> HIDE DEF short, kept
  <2> QED
    BY <1>1, <1>3, <2>1, <2>2 DEF Stream
<1> HIDE DEF kept
<1>5. /\ new \in AssistantLiveState
      /\ new.finalized = kept
      /\ new.finalGeneration \in Nat
  BY <1>1, <1>4 DEF Stream, AssistantLiveState
<1> QED
  BY <1>2, <1>4, <1>5 DEF Stream, finalizeAssistantMessage, u, kept

(* A new element is remembered; what fits the limit is still all known. *)
LEMMA RememberNew ==
  ASSUME NEW S, NEW known \in Seq(S), NEW x \in S, NEW limit \in Nat,
         NEW seen, IsFiniteSet(seen), NEW n,
         Remembers(known, limit, seen, n),
         \A k \in 1..Len(known) : known[k] # x,
         NEW grown, grown = Append(known, x),
         NEW kept, kept = IF Len(grown) > limit THEN Tail(grown) ELSE grown
  PROVE  Remembers(kept, limit, seen \union {x}, n + 1)
<1> SUFFICES ASSUME Cardinality(seen \union {x}) <= limit
             PROVE  /\ n + 1 = Cardinality(seen \union {x})
                    /\ n + 1 = Len(kept)
                    /\ \A y \in seen \union {x} : \E k \in 1..Len(kept) : kept[k] = y
  BY DEF Remembers
<1>1. /\ IsFiniteSet(seen \union {x})
      /\ Cardinality(seen) \in Nat
      /\ Cardinality(seen \union {x}) =
           IF x \in seen THEN Cardinality(seen) ELSE Cardinality(seen) + 1
  BY FS_AddElement, FS_CardinalityType
<1>2. Cardinality(seen) <= limit
  BY <1>1
<1>3. /\ n = Cardinality(seen) /\ n = Len(known)
      /\ \A y \in seen : \E k \in 1..Len(known) : known[k] = y
  BY <1>2 DEF Remembers
<1>4. x \notin seen
  BY <1>3
<1>5. Cardinality(seen \union {x}) = n + 1
  BY <1>1, <1>3, <1>4
<1>6. /\ grown \in Seq(S) /\ Len(grown) = n + 1
      /\ grown[n + 1] = x
      /\ \A k \in 1..n : grown[k] = known[k]
  BY <1>3
<1>7. kept = grown
  BY <1>5, <1>6
<1>8. ASSUME NEW y \in seen \union {x}
      PROVE  \E k \in 1..Len(kept) : kept[k] = y
  <2>1. CASE y = x
    BY <1>1, <1>3, <1>6, <1>7, <2>1
  <2>2. CASE y \in seen
    <3>1. PICK k \in 1..n : known[k] = y
      BY <1>3, <2>2
    <3>2. k \in 1..Len(kept) /\ kept[k] = y
      BY <1>1, <1>3, <1>6, <1>7, <3>1
    <3> QED
      BY <3>2
  <2> QED
    BY <2>1, <2>2
<1> QED
  BY <1>5, <1>6, <1>7, <1>8

(* A message without a tombstone is none of the finalized ones. *)
LEMMA NewMessageUnknown ==
  ASSUME NEW m, NEW i \in Identity, ~wasFinalized(m, i)
  PROVE  \A k \in 1..Len(m.finalized) : m.finalized[k] # i
BY DEF wasFinalized, matchesRetained

-----------------------------------------------------------------------------
(* Each action moves the record, and what its owner is told, as above.     *)

(* An action starts a run, settles one, stops the process or keeps them.   *)
LEMMA NextMoves ==
  ASSUME Consistent(life), Shown, Next
  PROVE  Moves
<1>1. Message \subseteq Identity /\ StaleRunId \subseteq Nat
  BY HandleAssumption
<1>2. ASSUME NEW id \in {0} \union StaleRunId, AgentStart(id)
      PROVE  Moves
  <2>1. id \in Nat
    BY <1>1, <1>2
  <2> QED
    BY <1>2, <2>1, StartMoves
<1>3. ASSUME NEW r \in Settlement, AgentSettled(r)
      PROVE  Moves
  BY <1>3, SettledMoves
<1>4. ASSUME NEW i \in Message, NEW willRetry \in BOOLEAN, AgentEnd(i, willRetry)
      PROVE  Moves
  <2>1. Details /\ UNCHANGED notices
    BY <1>4 DEF AgentEnd, Details
  <2> QED
    BY <2>1, DetailsKept DEF notices
<1>5. ASSUME NEW t \in ToolCall, ToolStart(t) \/ ToolUpdate(t) \/ ToolEnd(t)
      PROVE  Moves
  <2>1. Details /\ UNCHANGED notices
    BY <1>5 DEF ToolStart, ToolUpdate, ToolEnd, Details
  <2> QED
    BY <2>1, DetailsKept DEF notices
<1>6. ASSUME NEW i \in Message, MessageStart(i)
      PROVE  Moves
  <2>1. Details /\ UNCHANGED notices
    BY <1>6 DEF MessageStart, Details
  <2> QED
    BY <2>1, DetailsKept DEF notices
<1>7. ASSUME NEW i, NEW finished, UpdateWith(i, finished)
      PROVE  Moves
  <2>1. Details /\ UNCHANGED notices
    BY <1>7 DEF UpdateWith, Details
  <2> QED
    BY <2>1, DetailsKept DEF notices
<1>8. ASSUME NEW i \in Message, NEW verdict \in {"none", "failed", "aborted"},
             MessageEnd(i, verdict)
      PROVE  Moves
  <2> DEFINE final == finalizeAssistantMessage(stream, i)
  <2>1. final.finalGeneration \in Nat
    BY <1>1, FinalizeMessageStep DEF Shown
  <2>2. \/ life' = life
        \/ /\ HasActiveRun(life)
           /\ life' = recordAssistantEnd(life, verdict, final.finalGeneration)
    BY <1>8 DEF MessageEnd
  <2>3. Details
    BY <2>1, <2>2 DEF Details
  <2>4. UNCHANGED notices
    BY <1>8 DEF MessageEnd
  <2> QED
    BY <2>3, <2>4, DetailsKept DEF notices
<1>9. CASE Prompt \/ Interrupt
  <2>1. Details /\ UNCHANGED <<announcedRunId, wakes>> /\ awaiting' \in {awaiting, "prompted"}
    BY <1>9 DEF Prompt, Interrupt, Details, notices
  <2> QED
    BY <2>1, DetailsKept
<1>10. CASE Kill
  <2>1. life' = requestKill(life) /\ UNCHANGED notices
    BY <1>10 DEF Kill
  <2>2. /\ Consistent(life')
        /\ life'.runs = life.runs
        /\ life'.killRequested
        /\ life'.runSequence = life.runSequence
        /\ life'.lastSettledRunId = life.lastSettledRunId
        /\ life'.processState = life.processState
    BY <2>1, RequestKillStep
  <2>3. Unsettled(life') => Unsettled(life)
    BY <2>2 DEF Unsettled, HasRun, currentRun
  <2>4. Keeps
    BY <2>1, <2>2, <2>3 DEF Keeps, notices
  <2> QED
    BY <2>2, <2>4 DEF Moves
<1>11. ASSUME NEW closedWithError \in BOOLEAN, ProcessClose(closedWithError)
       PROVE  Moves
  <2>1. /\ ~isLifecycleTerminal(life)
        /\ life' = markStopped(life, closedWithError)
        /\ IF AlreadyAnnounced THEN UNCHANGED notices ELSE announceStop(life', Died)
    BY <1>11 DEF ProcessClose
  <2>2. /\ Consistent(life')
        /\ life'.processState = "stopped"
        /\ life'.runSequence = life.runSequence
        /\ life'.lastSettledRunId = life.lastSettledRunId
        /\ life'.killRequested = life.killRequested
    BY <2>1, MarkStoppedStep
  <2>3. Stops
    BY <2>1, <2>2 DEF Stops, isLifecycleTerminal
  <2> QED
    BY <2>2, <2>3 DEF Moves
<1>12. CASE SessionShutdown
  <2>1. Details /\ UNCHANGED <<announcedRunId, wakes>> /\ awaiting' = awaiting
    BY <1>12 DEF SessionShutdown, Details
  <2> QED
    BY <2>1, DetailsKept
<1> QED
  BY <1>2, <1>3, <1>4, <1>5, <1>6, <1>7, <1>8, <1>9, <1>10, <1>11, <1>12
  DEF Next, MessageUpdate, MessageDelta

(* A session that is being shut down is so to the end. *)
StaysDown == shuttingDown' \in BOOLEAN /\ (shuttingDown => shuttingDown')

(* Only the shutdown touches the flag. *)
LEMMA NextStaysDown ==
  ASSUME Told, Next
  PROVE  StaysDown
<1>1. CASE SessionShutdown
  BY <1>1 DEF SessionShutdown, StaysDown
<1>2. CASE ~SessionShutdown
  <2>1. shuttingDown' = shuttingDown
    BY <1>2 DEF Next, notices, announceStop, AgentStart, AgentEnd, AgentSettled, ToolStart,
                ToolUpdate, ToolEnd, MessageStart, MessageUpdate, MessageDelta, UpdateWith,
                MessageEnd, Prompt, Interrupt, Kill, ProcessClose
  <2> QED
    BY <2>1 DEF Told, StaysDown
<1> QED
  BY <1>1, <1>2

-----------------------------------------------------------------------------
(* What the owner is told.                                                 *)

(* The wake of a settlement or of a death is a wake. *)
LEMMA MovesTold ==
  ASSUME Consistent(life), Told, Moves, StaysDown
  PROVE  Told'
<1>1. life'.runSequence \in Nat /\ Consistent(life')
  BY DEF Moves, Consistent, LifecycleState
<1>2. Died \in Wake
  BY DEF Died, Wake
<1>3. ASSUME NEW wake \in Wake, announceStop(life', wake)
      PROVE  Told'
  <2>1. announcedRunId' \in Nat
    BY <1>1, <1>3 DEF announceStop
  <2>2. wakes' \in {wakes, Append(wakes, wake)} /\ awaiting' \in {awaiting, "none"}
    BY <1>3 DEF announceStop
  <2> QED
    BY <2>1, <2>2 DEF Told, StaysDown
<1>4. ASSUME NEW aborted \in BOOLEAN, Settles(aborted)
      PROVE  [runId |-> currentRun(life').id, outcome |-> currentRun(life').outcome] \in Wake
  <2>1. currentRun(life').id \in Nat
    BY <1>1, <1>4, ConsistentCore, CurrentRunFacts DEF Settles, RunSettled
  <2>2. currentRun(life').outcome \in {"succeeded", "failed", "aborted"}
    BY <1>4 DEF Settles, RunSettled, Outcome
  <2> QED
    BY <2>1, <2>2 DEF Wake
<1>5. ASSUME NEW aborted \in BOOLEAN, Settles(aborted)
      PROVE  Told'
  BY <1>3, <1>4, <1>5 DEF Settles
<1>6. CASE Stops
  BY <1>2, <1>3, <1>6 DEF Stops, notices, Told, StaysDown
<1>7. CASE Starts \/ Keeps
  BY <1>7 DEF Starts, Keeps, Told, StaysDown
<1> QED
  BY <1>5, <1>6, <1>7 DEF Moves

(* The cursor of announced runs never runs ahead of what began. *)
LEMMA MovesAnnounced ==
  ASSUME Consistent(life), Told, Announced, DeathOfRunIsAnnounced, Moves, StaysDown
  PROVE  Announced' /\ DeathOfRunIsAnnounced'
<1>1. /\ life.runSequence \in Nat
      /\ life'.runSequence \in Nat
      /\ announcedRunId \in Int
  BY DEF Moves, Consistent, LifecycleState, Told
<1>0. ~shuttingDown' => ~shuttingDown
  BY DEF StaysDown
<1>2. CASE Starts
  BY <1>1, <1>0, <1>2 DEF Starts, Announced, DeathOfRunIsAnnounced, isLifecycleTerminal
<1>3. ASSUME NEW aborted \in BOOLEAN, Settles(aborted)
      PROVE  Announced' /\ DeathOfRunIsAnnounced'
  <2>1. ~Unsettled(life')
    <3>1. life'.lastSettledRunId = currentRun(life').id /\ life'.lastSettledRunId \in Nat
      BY <1>3 DEF Settles, RunSettled, Moves, Consistent, LifecycleState
    <3> QED
      BY <3>1 DEF Unsettled
  <2>2. /\ announcedRunId' = life'.runSequence
        /\ ~life'.killRequested /\ ~shuttingDown' => awaiting' = "none"
        /\ ~isLifecycleTerminal(life')
    BY <1>0, <1>3 DEF Settles, announceStop, isLifecycleTerminal
  <2> QED
    BY <1>1, <2>1, <2>2 DEF Announced, DeathOfRunIsAnnounced
<1>4. CASE Stops
  <2>1. /\ announcedRunId' = life'.runSequence
        /\ isLifecycleTerminal(life')
    BY <1>4 DEF Stops, announceStop, AlreadyAnnounced, notices
  <2>2. awaiting' # "running" \/ life'.killRequested \/ shuttingDown'
    BY <1>1, <1>0, <1>4 DEF Stops, announceStop, AlreadyAnnounced, notices, Announced
  <2> QED
    BY <1>1, <2>1, <2>2 DEF Announced, DeathOfRunIsAnnounced
<1>5. CASE Keeps
  BY <1>1, <1>0, <1>5 DEF Keeps, Announced, DeathOfRunIsAnnounced, isLifecycleTerminal
<1> QED
  BY <1>2, <1>3, <1>4, <1>5 DEF Moves

(* Wakes are settlements in the order of their runs, until the death. *)
LEMMA MovesWakes ==
  ASSUME Consistent(life), Told, WakesSettled, WakesInOrder, Moves
  PROVE  WakesSettled' /\ WakesInOrder'
<1>1. /\ life.lastSettledRunId \in Nat /\ life'.lastSettledRunId \in Nat
      /\ wakes \in Seq(Wake)
      /\ \A n \in 1..Len(wakes) : wakes[n].runId \in Nat
  <2>1. life.lastSettledRunId \in Nat /\ life'.lastSettledRunId \in Nat
    BY DEF Moves, Consistent, LifecycleState
  <2>2. wakes \in Seq(Wake)
    BY DEF Told
  <2>3. \A n \in 1..Len(wakes) : wakes[n] \in Wake
    BY <2>2, ElementOfSeq
  <2> QED
    BY <2>1, <2>2, <2>3 DEF Wake
<1>2. CASE Starts \/ Keeps
  <2>1. /\ wakes' = wakes
        /\ life'.processState = life.processState
        /\ life'.lastSettledRunId = life.lastSettledRunId
    BY <1>2 DEF Starts, Keeps
  <2>2. WakesSettled'
    BY <2>1 DEF WakesSettled, isLifecycleTerminal
  <2>3. WakesInOrder'
    BY <2>1 DEF WakesInOrder
  <2> QED
    BY <2>2, <2>3
<1>3. ASSUME NEW wake, ~isLifecycleTerminal(life),
             wakes' \in {wakes, Append(wakes, wake)},
             wake # Died =>
               wake.runId \in Nat /\ wake.runId > life.lastSettledRunId
      PROVE  WakesInOrder'
  <2> SUFFICES ASSUME wakes' = Append(wakes, wake),
                      NEW m \in 1..Len(wakes'), NEW n \in 1..Len(wakes'), m < n
               PROVE  /\ wakes'[m] # Died
                      /\ wakes'[n] # Died => wakes'[m].runId < wakes'[n].runId
    BY <1>3 DEF WakesInOrder
  <2>1. Len(wakes) \in Nat /\ m \in 1..Len(wakes)
        /\ wakes'[m] = wakes[m]
    BY <1>1
  <2>2. wakes[m] # Died /\ wakes[m].runId <= life.lastSettledRunId
    BY <1>3, <2>1 DEF WakesSettled
  <2>3. CASE n = Len(wakes) + 1
    <3>1. wakes'[n] = wake
      BY <1>1, <2>3
    <3>2. wakes[m].runId \in Nat
      BY <1>1, <2>1
    <3> QED
      BY <1>1, <1>3, <2>1, <2>2, <3>1, <3>2
  <2>4. CASE n # Len(wakes) + 1
    <3>1. n \in 1..Len(wakes) /\ wakes'[n] = wakes[n]
      BY <1>1, <2>4
    <3> QED
      BY <2>1, <3>1 DEF WakesInOrder
  <2> QED
    BY <2>3, <2>4
<1>4. ASSUME NEW aborted \in BOOLEAN, Settles(aborted)
      PROVE  WakesSettled' /\ WakesInOrder'
  <2>1. PICK run : run = currentRun(life')
    OBVIOUS
  <2>2. /\ life'.lastSettledRunId = run.id
        /\ run.id > life.lastSettledRunId
        /\ run.outcome # "died"
    BY <1>4, <2>1 DEF Settles, RunSettled, Outcome
  <2> DEFINE wake == [runId |-> run.id, outcome |-> run.outcome]
  <2>3. wake # Died /\ wake.runId = run.id
    BY <2>2 DEF Died
  <2>4. wakes' \in {wakes, Append(wakes, wake)}
    BY <1>4, <2>1 DEF Settles, announceStop
  <2> HIDE DEF wake
  <2>5. WakesInOrder'
    BY <1>1, <1>3, <1>4, <2>2, <2>3, <2>4 DEF Settles
  <2>6. \A n \in 1..Len(wakes) :
          wakes[n] # Died /\ wakes[n].runId <= life'.lastSettledRunId
    BY <1>1, <1>4, <2>2 DEF Settles, WakesSettled
  <2>7. ASSUME NEW n \in 1..Len(wakes')
        PROVE  wakes'[n] # Died /\ wakes'[n].runId <= life'.lastSettledRunId
    <3>1. CASE wakes' = wakes
      BY <2>6, <3>1
    <3>2. CASE wakes' = Append(wakes, wake) /\ n = Len(wakes) + 1
      BY <1>1, <2>2, <2>3, <3>2
    <3>3. CASE wakes' = Append(wakes, wake) /\ n # Len(wakes) + 1
      <4>1. n \in 1..Len(wakes) /\ wakes'[n] = wakes[n]
        BY <1>1, <3>3
      <4> QED
        BY <2>6, <4>1
    <3> QED
      BY <2>4, <3>1, <3>2, <3>3
  <2> QED
    BY <2>5, <2>7 DEF WakesSettled
<1>5. CASE Stops
  <2>1. wakes' \in {wakes, Append(wakes, Died)}
    BY <1>5 DEF Stops, announceStop, notices
  <2>2. WakesInOrder'
    BY <1>3, <1>5, <2>1 DEF Stops
  <2> QED
    BY <1>5, <2>2 DEF Stops, WakesSettled
<1> QED
  BY <1>2, <1>4, <1>5 DEF Moves

-----------------------------------------------------------------------------
(* What the handle shows.                                                  *)

(* Nothing, or one more call, or one less: the calls stay few. *)
LEMMA ToolsKept ==
  ASSUME NEW tools, tools \subseteq ToolCall, IsFiniteSet(tools),
         Cardinality(tools) <= MAX_ACTIVE_TOOLS
  PROVE  /\ IsFiniteSet({}) /\ Cardinality({}) <= MAX_ACTIVE_TOOLS
         /\ \A t \in ToolCall :
              /\ IsFiniteSet(tools \ {t})
              /\ Cardinality(tools \ {t}) <= MAX_ACTIVE_TOOLS
              /\ IsFiniteSet(tools \union {t})
              /\ Cardinality(tools) < MAX_ACTIVE_TOOLS =>
                   Cardinality(tools \union {t}) <= MAX_ACTIVE_TOOLS
<1>1. MAX_ACTIVE_TOOLS \in Nat /\ Cardinality(tools) \in Nat
  BY HandleAssumption, FS_CardinalityType
<1>2. IsFiniteSet({}) /\ Cardinality({}) = 0
  BY FS_EmptySet
<1>3. ASSUME NEW t \in ToolCall
      PROVE  /\ IsFiniteSet(tools \ {t})
             /\ Cardinality(tools \ {t}) <= MAX_ACTIVE_TOOLS
             /\ IsFiniteSet(tools \union {t})
             /\ Cardinality(tools) < MAX_ACTIVE_TOOLS =>
                  Cardinality(tools \union {t}) <= MAX_ACTIVE_TOOLS
  <2>1. /\ IsFiniteSet(tools \ {t})
        /\ Cardinality(tools \ {t}) \in {Cardinality(tools), Cardinality(tools) - 1}
    BY FS_RemoveElement
  <2>2. /\ IsFiniteSet(tools \union {t})
        /\ Cardinality(tools \union {t}) \in {Cardinality(tools), Cardinality(tools) + 1}
    BY FS_AddElement
  <2> QED
    BY <1>1, <2>1, <2>2
<1> QED
  BY <1>1, <1>2, <1>3

(* What is shown stays within its limits.                                   *)
LEMMA NextShown ==
  ASSUME Shown, Next
  PROVE  Shown'
<1>1. NoIdentity \in Identity
  BY NoStreamType
<1>2. Stream(NoStream)
  BY NoStreamType
<1>3. Message \subseteq Identity
  BY HandleAssumption
<1>4. ToolsAfterSettlement(activeTools) = {}
  BY DEF ToolsAfterSettlement
<1>5. ASSUME abortRequested' \in {abortRequested, TRUE, FALSE},
             stream' = stream \/ Stream(stream'),
             isStreaming' \in {isStreaming, TRUE, FALSE},
             assembly' = assembly \/ assembly' \in Identity,
             \/ activeTools' = activeTools
             \/ activeTools' = {}
             \/ \E t \in ToolCall : \/ activeTools' = activeTools \ {t}
                                    \/ /\ activeTools' = activeTools \union {t}
                                       /\ Cardinality(activeTools) < MAX_ACTIVE_TOOLS
      PROVE  Shown'
  <2>1. /\ activeTools \subseteq ToolCall
        /\ IsFiniteSet(activeTools) /\ Cardinality(activeTools) <= MAX_ACTIVE_TOOLS
    BY DEF Shown
  <2>2. /\ activeTools' \subseteq ToolCall
        /\ IsFiniteSet(activeTools') /\ Cardinality(activeTools') <= MAX_ACTIVE_TOOLS
    BY <1>5, <2>1, ToolsKept, ZenonT(60)
  <2>3. /\ abortRequested' \in BOOLEAN
        /\ isStreaming' \in BOOLEAN
        /\ assembly' \in Identity
    BY <1>5 DEF Shown
  <2>4. Stream(stream')
    BY <1>5 DEF Shown
  <2> QED
    BY <2>2, <2>3, <2>4 DEF Shown
<1>6. ASSUME NEW id, AgentStart(id)
      PROVE  Shown'
  <2>1. /\ abortRequested' \in {abortRequested, FALSE}
        /\ stream' = stream \/ stream' = NoStream
        /\ isStreaming' \in {isStreaming, FALSE}
        /\ assembly' = NoIdentity
        /\ activeTools' \in {activeTools, {}}
    BY <1>6 DEF AgentStart, Shown
  <2> QED
    BY <1>1, <1>2, <1>5, <2>1
<1>7. ASSUME NEW i, NEW willRetry, AgentEnd(i, willRetry)
      PROVE  Shown'
  BY <1>5, <1>7 DEF AgentEnd
<1>8. ASSUME NEW r, AgentSettled(r)
      PROVE  Shown'
  <2>1. Stream(deactivateAssistantMessage(stream))
    BY DeactivateMessageStep DEF Shown
  <2>2. /\ abortRequested' \in {abortRequested, FALSE}
        /\ stream' = stream \/ stream' = deactivateAssistantMessage(stream)
        /\ isStreaming' \in {isStreaming, FALSE}
        /\ assembly' = assembly \/ assembly' = NoIdentity
        /\ activeTools' \in {activeTools, {}}
    BY <1>4, <1>8 DEF AgentSettled
  <2> QED
    BY <1>1, <1>5, <2>1, <2>2
<1>9. ASSUME NEW t \in ToolCall, ToolStart(t) \/ ToolUpdate(t) \/ ToolEnd(t)
      PROVE  Shown'
  <2>1. CASE ToolStart(t)
    BY <1>5, <2>1 DEF ToolStart, CanStartTool
  <2>2. CASE ToolUpdate(t)
    BY <1>5, <2>2 DEF ToolUpdate, activity
  <2>3. CASE ToolEnd(t)
    BY <1>5, <2>3 DEF ToolEnd
  <2> QED
    BY <1>9, <2>1, <2>2, <2>3
<1>10. ASSUME NEW i \in Message, MessageStart(i)
       PROVE  Shown'
  <2>1. i \in Identity /\ Stream(startAssistantMessage(stream, i))
    BY <1>3, StartMessageStep DEF Shown
  <2> QED
    BY <1>5, <1>10, <2>1 DEF MessageStart
<1>11. ASSUME NEW i \in Identity, NEW finished \in BOOLEAN, UpdateWith(i, finished),
              assembly' = i
       PROVE  Shown'
  <2>1. Stream(updateAssistantMessage(stream, i))
    BY UpdateMessageStep DEF Shown
  <2> QED
    BY <1>5, <1>11, <2>1 DEF UpdateWith
<1>12. ASSUME NEW i \in Message, NEW verdict, MessageEnd(i, verdict)
       PROVE  Shown'
  <2>1. Stream(finalizeAssistantMessage(stream, i))
    BY <1>3, FinalizeMessageStep DEF Shown
  <2> QED
    BY <1>1, <1>5, <1>12, <2>1 DEF MessageEnd
<1>13. CASE Prompt \/ Interrupt \/ Kill \/ SessionShutdown
  BY <1>5, <1>13 DEF Prompt, Interrupt, Kill, SessionShutdown, activity
<1>14. ASSUME NEW closedWithError, ProcessClose(closedWithError)
       PROVE  Shown'
  <2>1. Stream(deactivateAssistantMessage(stream))
    BY DeactivateMessageStep DEF Shown
  <2> QED
    BY <1>1, <1>5, <1>14, <2>1 DEF ProcessClose
<1>15. ASSUME NEW i \in Message, NEW finished \in BOOLEAN, MessageUpdate(i, finished)
       PROVE  Shown'
  BY <1>3, <1>11, <1>15 DEF MessageUpdate
<1>16. ASSUME NEW finished \in BOOLEAN, MessageDelta(finished)
       PROVE  Shown'
  BY <1>11, <1>16 DEF MessageDelta, Shown
<1> QED
  BY <1>6, <1>7, <1>8, <1>9, <1>10, <1>12, <1>13, <1>14, <1>15, <1>16 DEF Next

(* While a run is in progress nothing is settled, and a corroborated one   *)
(* may stream.                                                             *)
LEMMA ActiveIsQuiet ==
  ASSUME Consistent(life'), HasActiveRun(life'),
         isStreaming' => currentRun(life').corroborated
  PROVE  SettledHandleIsQuiet'
<1>1. life'.settlementStatus = "pending" /\ ~isLifecycleTerminal(life')
  BY DEF Consistent, ActiveRunShown, HasActiveRun
<1> QED
  BY <1>1 DEF SettledHandleIsQuiet

(* Clearing what is shown is quiet. *)
LEMMA ClearedIsQuiet ==
  ASSUME activeTools' = {}, isStreaming' = FALSE, stream'.active = FALSE,
         isLifecycleTerminal(life') \/ abortRequested' = FALSE
  PROVE  SettledHandleIsQuiet'
BY DEF SettledHandleIsQuiet

(* A record that reports the same keeps quiet what was, unless it streams. *)
LEMMA SameIsQuiet ==
  ASSUME SettledHandleIsQuiet,
         activeTools' = activeTools, stream' = stream,
         abortRequested' = abortRequested,
         life'.settlementStatus = life.settlementStatus,
         life'.processState = life.processState,
         \/ isStreaming' = FALSE
         \/ isStreaming' = isStreaming /\ life'.runs = life.runs
  PROVE  SettledHandleIsQuiet'
BY DEF SettledHandleIsQuiet, isLifecycleTerminal, HasActiveRun, CurrentRunIn, HasRun, currentRun

(* A run starts on a handle that shows no tool of the settled run before it. *)
LEMMA StartIsQuiet ==
  ASSUME NEW runId \in Nat, Consistent(life), Shown, SettledHandleIsQuiet,
         Consistent(life'), AgentStart(runId)
  PROVE  SettledHandleIsQuiet'
<1> DEFINE before == IF ResetsForRun THEN resetRunErrors(life) ELSE life
           id == IF runId = 0 THEN life.runSequence + 1 ELSE runId
<1>1. /\ Consistent(before)
      /\ SameLedger(life, before)
      /\ before.runs = life.runs
      /\ before.settlementStatus = life.settlementStatus
  BY ResetRunErrorsStep DEF SameLedger
<1>2. /\ life' = IF CanStartRun(before, id) THEN startRun(before, id) ELSE before
      /\ abortRequested' = (abortRequested /\ ~ResetsForRun /\ ~CanStartRun(before, id))
      /\ activeTools' = IF ResetsForRun \/ CanStartRun(before, id) THEN {} ELSE activeTools
      /\ ResetsForRun => stream' = NoStream /\ isStreaming' = FALSE
      /\ ~ResetsForRun => stream' = stream /\ isStreaming' = isStreaming
  BY DEF AgentStart
<1>3. life.runSequence \in Nat
  BY DEF Consistent, LifecycleState
<1>4. id \in Nat \ {0}
  BY <1>3
<1> HIDE DEF before, id
<1>5. CASE CanStartRun(before, id)
  <2>1. HasActiveRun(life')
    BY <1>1, <1>2, <1>4, <1>5, StartRunStep
  <2>2. ~CurrentRunIn(life, "active")
    BY <1>1, <1>5 DEF CanStartRun, CurrentRunIn, HasRun, currentRun
  <2>3. ~isStreaming
    BY <2>2 DEF SettledHandleIsQuiet, HasActiveRun
  <2>4. ~isStreaming'
    BY <1>2, <2>3
  <2> QED
    BY <2>1, <2>4, ActiveIsQuiet
<1>6. CASE ~CanStartRun(before, id) /\ ResetsForRun
  <2>1. stream'.active = FALSE
    BY <1>2, <1>6 DEF NoStream
  <2>2. /\ activeTools' = {}
        /\ isStreaming' = FALSE
        /\ abortRequested' = FALSE
    BY <1>2, <1>6
  <2> QED
    BY <2>1, <2>2, ClearedIsQuiet
<1>7. CASE ~CanStartRun(before, id) /\ ~ResetsForRun
  <2>1. life' = life
    BY <1>2, <1>7 DEF before
  <2>2. abortRequested' = abortRequested
    BY <1>2, <1>7 DEF Shown
  <2>3. UNCHANGED <<activeTools, stream, isStreaming>>
    BY <1>2, <1>7
  <2> QED
    BY <2>1, <2>2, <2>3, SameIsQuiet
<1> QED
  BY <1>5, <1>6, <1>7

(* A settlement that is accepted clears what the run showed.                 *)
LEMMA SettledIsQuiet ==
  ASSUME NEW r \in Settlement, Consistent(life), Shown, SettledHandleIsQuiet,
         AgentSettled(r)
  PROVE  SettledHandleIsQuiet'
<1> DEFINE e == EndedBy(r)
<1>1. CASE CanSettle(e)
  <2>1. SettlementAccepted(r)
    BY <1>1 DEF AgentSettled, SettlementAccepted
  <2>2. /\ abortRequested' = FALSE
        /\ isStreaming' = FALSE
        /\ activeTools' = {}
        /\ stream' = deactivateAssistantMessage(stream)
    BY <2>1 DEF AgentSettled, ToolsAfterSettlement
  <2>3. stream'.active = FALSE
    BY <2>2, DeactivateMessageStep DEF Shown
  <2> QED
    BY <2>2, <2>3, ClearedIsQuiet
<1>2. CASE ~CanSettle(e)
  <2>1. /\ UNCHANGED <<abortRequested, isStreaming, activeTools, stream>>
        /\ ~isLifecycleTerminal(life)
    BY <1>2 DEF AgentSettled, SettlementAccepted
  <2>2. ~isStreaming
    BY <1>2, ActiveRunCanSettle DEF SettledHandleIsQuiet
  <2>3. isStreaming' = FALSE
    BY <2>1, <2>2 DEF Shown
  <2>4. /\ Consistent(e)
        /\ e.settlementStatus = life.settlementStatus
        /\ e.processState = life.processState
    BY EndedByFacts DEF SameLedger
  <2>5. life' = DropUncorroborated(e)
    BY <1>2, <2>1, <2>4 DEF AgentSettled, settleRunToIdle, isLifecycleTerminal
  <2>6. /\ life'.settlementStatus = e.settlementStatus
        /\ life'.processState = e.processState
    BY <2>1, <2>4, <2>5, DropUncorroboratedStep
    DEF RunsDropped, SameLedger, isLifecycleTerminal
  <2> QED
    BY <2>1, <2>3, <2>4, <2>6, SameIsQuiet
<1> QED
  BY <1>1, <1>2

(* No step shows a tool or a message of a handle that has settled.           *)
LEMMA NextQuiet ==
  ASSUME Consistent(life), Shown, SettledHandleIsQuiet, Consistent(life'), Next
  PROVE  SettledHandleIsQuiet'
<1>1. ASSUME HasActiveRun(life), life' = corroborateRun(life)
      PROVE  SettledHandleIsQuiet'
  BY <1>1, CorroborateRunStep, ActiveIsQuiet
<1>2. ASSUME NEW id \in {0} \union StaleRunId, AgentStart(id)
      PROVE  SettledHandleIsQuiet'
  <2>1. id \in Nat
    BY <1>2, HandleAssumption
  <2> QED
    BY <1>2, <2>1, StartIsQuiet
<1>3. ASSUME NEW r \in Settlement, AgentSettled(r)
      PROVE  SettledHandleIsQuiet'
  BY <1>3, SettledIsQuiet
<1>4. ASSUME NEW i \in Message, NEW willRetry \in BOOLEAN, AgentEnd(i, willRetry)
      PROVE  SettledHandleIsQuiet'
  <2>1. /\ HasActiveRun(life) /\ life' = endRun(life, willRetry)
        /\ isStreaming' = FALSE
        /\ UNCHANGED <<abortRequested, stream, activeTools>>
    BY <1>4 DEF AgentEnd
  <2>2. /\ life'.settlementStatus = life.settlementStatus
        /\ life'.processState = life.processState
    BY <1>4, <2>1, EndRunStep, ConsistentCore DEF RunEnded, SameLedger
  <2> QED
    BY <2>1, <2>2, SameIsQuiet
<1>5. ASSUME NEW t \in ToolCall, ToolStart(t) \/ ToolUpdate(t) \/ ToolEnd(t)
      PROVE  SettledHandleIsQuiet'
  BY <1>1, <1>5 DEF ToolStart, ToolUpdate, ToolEnd
<1>6. ASSUME UNCHANGED <<life, stream, isStreaming, activeTools, abortRequested>>
      PROVE  SettledHandleIsQuiet'
  BY <1>6 DEF SettledHandleIsQuiet
<1>7. ASSUME NEW i \in Message, MessageStart(i)
      PROVE  SettledHandleIsQuiet'
  BY <1>1, <1>6, <1>7 DEF MessageStart
<1>8. ASSUME NEW i, NEW finished, UpdateWith(i, finished)
      PROVE  SettledHandleIsQuiet'
  BY <1>1, <1>6, <1>8 DEF UpdateWith
<1>9. ASSUME NEW i \in Message, NEW verdict \in {"none", "failed", "aborted"},
             MessageEnd(i, verdict)
      PROVE  SettledHandleIsQuiet'
  <2> DEFINE final == finalizeAssistantMessage(stream, i)
  <2>1. i \in Identity /\ final.finalGeneration \in Nat
    BY FinalizeMessageStep, HandleAssumption DEF Shown
  <2>2. CASE HasActiveRun(life) /\ CanUpdateMessage(stream, i)
    <3>1. /\ life' = recordAssistantEnd(life, verdict, final.finalGeneration)
          /\ isStreaming' = FALSE
      BY <1>9, <2>2 DEF MessageEnd
    <3>2. HasActiveRun(life')
      BY <1>9, <2>1, <2>2, <3>1, RecordAssistantEndStep
    <3> QED
      BY <3>1, <3>2, ActiveIsQuiet
  <2>3. CASE ~(HasActiveRun(life) /\ CanUpdateMessage(stream, i))
    BY <1>6, <1>9, <2>3 DEF MessageEnd
  <2> QED
    BY <2>2, <2>3
<1>10. CASE Prompt \/ SessionShutdown
  BY <1>6, <1>10 DEF Prompt, SessionShutdown, activity
<1>11. CASE Interrupt
  <2>1. /\ life' = life
        /\ UNCHANGED <<stream, isStreaming, activeTools>>
        /\ life.processState = "alive" /\ life.runState # "idle"
    BY <1>11 DEF Interrupt, activity
  <2>2. life.settlementStatus # "settled" /\ ~isLifecycleTerminal(life)
    BY <2>1 DEF Consistent, SettledIsIdle, ShowsResult, isLifecycleTerminal
  <2> QED
    BY <2>1, <2>2 DEF SettledHandleIsQuiet
<1>12. CASE Kill
  <2>1. /\ life' = requestKill(life)
        /\ UNCHANGED <<abortRequested, stream, isStreaming, activeTools>>
    BY <1>12 DEF Kill, activity
  <2>2. /\ life'.runs = life.runs
        /\ life'.settlementStatus = life.settlementStatus
        /\ life'.processState = life.processState
    BY <2>1, RequestKillStep
  <2> QED
    BY <2>1, <2>2, SameIsQuiet
<1>13. ASSUME NEW closedWithError \in BOOLEAN, ProcessClose(closedWithError)
       PROVE  SettledHandleIsQuiet'
  <2>1. /\ ~isLifecycleTerminal(life)
        /\ life' = markStopped(life, closedWithError)
        /\ isStreaming' = FALSE
        /\ activeTools' = {}
        /\ stream' = deactivateAssistantMessage(stream)
    BY <1>13 DEF ProcessClose
  <2>2. isLifecycleTerminal(life')
    BY <2>1, MarkStoppedStep DEF isLifecycleTerminal
  <2>3. stream'.active = FALSE
    BY <2>1, DeactivateMessageStep DEF Shown
  <2> QED
    BY <2>1, <2>2, <2>3, ClearedIsQuiet
<1> QED
  BY <1>2, <1>3, <1>4, <1>5, <1>7, <1>8, <1>9, <1>10, <1>11, <1>12, <1>13
  DEF Next, MessageUpdate, MessageDelta

-----------------------------------------------------------------------------
(* What the handle remembers.                                              *)

(* An empty memory of nothing is exact. *)
LEMMA RemembersNothing ==
  ASSUME NEW limit
  PROVE  Remembers(<< >>, limit, {}, 0)
BY FS_EmptySet DEF Remembers

(* A call that begins is remembered and counted once.                        *)
LEMMA ToolStartMemory ==
  ASSUME NEW t \in ToolCall, ToolMemory, ToolStart(t)
  PROVE  ToolMemory'
<1> DEFINE grown == Append(knownToolCallIds, t)
           kept == IF Len(grown) > MAX_KNOWN_TOOL_CALL_IDS THEN Tail(grown) ELSE grown
<1>1. /\ knownToolCallIds' = kept
      /\ toolStarts' = toolStarts + 1
      /\ begun' = begun \union {t}
      /\ \A k \in 1..Len(knownToolCallIds) : knownToolCallIds[k] # t
  BY DEF ToolStart, CanStartTool, Known, rememberNewToolCallId
<1>2. /\ knownToolCallIds \in Seq(ToolCall)
      /\ Len(knownToolCallIds) <= MAX_KNOWN_TOOL_CALL_IDS
      /\ MAX_KNOWN_TOOL_CALL_IDS \in Nat \ {0}
      /\ IsFiniteSet(begun) /\ begun \subseteq ToolCall
      /\ toolStarts \in Nat
      /\ Remembers(knownToolCallIds, MAX_KNOWN_TOOL_CALL_IDS, begun, toolStarts)
  BY HandleAssumption DEF ToolMemory
<1>3. kept \in Seq(ToolCall) /\ Len(kept) <= MAX_KNOWN_TOOL_CALL_IDS
  BY <1>2, BoundedAppend
<1>4. Remembers(kept, MAX_KNOWN_TOOL_CALL_IDS, begun \union {t}, toolStarts + 1)
  BY <1>1, <1>2, RememberNew, Zenon
<1>5. IsFiniteSet(begun \union {t})
  BY <1>2, FS_AddElement
<1> HIDE DEF kept
<1>6. /\ toolStarts' \in Nat
      /\ begun' \subseteq ToolCall
  BY <1>1, <1>2
<1>7. Remembers(knownToolCallIds, MAX_KNOWN_TOOL_CALL_IDS, begun, toolStarts)'
  BY <1>1, <1>4 DEF Remembers
<1> QED
  BY <1>1, <1>3, <1>5, <1>6, <1>7 DEF ToolMemory

(* The memory of tool calls survives every step.                             *)
LEMMA NextToolMemory ==
  ASSUME ToolMemory, Next
  PROVE  ToolMemory'
<1>1. ASSUME UNCHANGED calls
      PROVE  ToolMemory'
  BY <1>1 DEF calls, ToolMemory, Remembers
<1>2. ASSUME knownToolCallIds' = << >>, toolStarts' = 0, begun' = {}
      PROVE  ToolMemory'
  <2>1. Len(<< >>) = 0 /\ MAX_KNOWN_TOOL_CALL_IDS \in Nat
    BY HandleAssumption
  <2>2. Remembers(knownToolCallIds, MAX_KNOWN_TOOL_CALL_IDS, begun, toolStarts)'
    BY <1>2, RemembersNothing DEF Remembers
  <2> QED
    BY <1>2, <2>1, <2>2, FS_EmptySet DEF ToolMemory
<1>3. ASSUME NEW id, AgentStart(id)
      PROVE  ToolMemory'
  BY <1>1, <1>2, <1>3 DEF AgentStart
<1>4. ASSUME NEW t \in ToolCall, ToolStart(t)
      PROVE  ToolMemory'
  BY <1>4, ToolStartMemory
<1>5. CASE /\ ~\E id \in {0} \union StaleRunId : AgentStart(id)
           /\ ~\E t \in ToolCall : ToolStart(t)
  <2>1. UNCHANGED calls
    BY <1>5 DEF Next, AgentEnd, AgentSettled, ToolUpdate, ToolEnd, MessageStart,
                MessageUpdate, MessageDelta, UpdateWith, MessageEnd, Prompt, Interrupt,
                Kill, SessionShutdown, ProcessClose
  <2> QED
    BY <1>1, <2>1
<1> QED
  BY <1>3, <1>4, <1>5

(* A finalized message enters the memory and the usage together.             *)
LEMMA MessageEndMemory ==
  ASSUME NEW i \in Message, NEW verdict, Shown, MessageMemory, MessageEnd(i, verdict),
         CanUpdateMessage(stream, i), HasActiveRun(life)
  PROVE  MessageMemory'
<1> DEFINE grown == Append(stream.finalized, i)
           kept == IF Len(grown) > MAX_FINALIZED_ASSISTANT_IDENTITIES
                   THEN Tail(grown) ELSE grown
<1>1. /\ i \in Identity
      /\ stream.finalized \in Seq(Identity)
      /\ MAX_FINALIZED_ASSISTANT_IDENTITIES \in Nat
  BY HandleAssumption, TombstoneAssumption DEF Shown, Stream, AssistantLiveState
<1>2. /\ turns' = turns + 1
      /\ counted' = counted \union {i}
      /\ stream' = finalizeAssistantMessage(stream, i)
      /\ ~wasFinalized(stream, i)
  BY DEF MessageEnd, CanUpdateMessage
<1>3. stream'.finalized = kept
  BY <1>1, <1>2, FinalizeMessageStep DEF Shown, rememberFinalized
<1>4. \A k \in 1..Len(stream.finalized) : stream.finalized[k] # i
  BY <1>1, <1>2, NewMessageUnknown
<1>5. /\ IsFiniteSet(counted) /\ counted \subseteq Message
      /\ turns \in Nat
      /\ Remembers(stream.finalized, MAX_FINALIZED_ASSISTANT_IDENTITIES, counted, turns)
  BY DEF MessageMemory
<1>6. Remembers(kept, MAX_FINALIZED_ASSISTANT_IDENTITIES, counted \union {i}, turns + 1)
  BY <1>1, <1>4, <1>5, RememberNew, Zenon
<1>7. IsFiniteSet(counted \union {i})
  BY <1>5, FS_AddElement
<1> HIDE DEF kept
<1>8. turns' \in Nat /\ counted' \subseteq Message
  BY <1>2, <1>5
<1>9. Remembers(stream.finalized, MAX_FINALIZED_ASSISTANT_IDENTITIES, counted, turns)'
  BY <1>2, <1>3, <1>6 DEF Remembers
<1> QED
  BY <1>2, <1>7, <1>8, <1>9 DEF MessageMemory

(* The memory of messages survives every step.                               *)
LEMMA NextMessageMemory ==
  ASSUME Shown, MessageMemory, Next
  PROVE  MessageMemory'
<1>1. ASSUME UNCHANGED usage, stream'.finalized = stream.finalized
      PROVE  MessageMemory'
  BY <1>1 DEF usage, MessageMemory, Remembers
<1>2. ASSUME NEW id, AgentStart(id)
      PROVE  MessageMemory'
  <2>1. CASE ResetsForRun
    <3>1. turns' = 0 /\ counted' = {} /\ stream'.finalized = << >>
      BY <1>2, <2>1 DEF AgentStart, NoStream
    <3>2. Remembers(stream.finalized, MAX_FINALIZED_ASSISTANT_IDENTITIES, counted, turns)'
      BY <3>1, RemembersNothing DEF Remembers
    <3> QED
      BY <3>1, <3>2, FS_EmptySet DEF MessageMemory
  <2>2. CASE ~ResetsForRun
    BY <1>1, <1>2, <2>2 DEF AgentStart
  <2> QED
    BY <2>1, <2>2
<1>3. ASSUME NEW i, NEW willRetry, AgentEnd(i, willRetry)
      PROVE  MessageMemory'
  BY <1>1, <1>3 DEF AgentEnd
<1>4. ASSUME NEW r, AgentSettled(r)
      PROVE  MessageMemory'
  <2>1. stream'.finalized = stream.finalized
    BY <1>4, DeactivateMessageStep DEF AgentSettled, Shown
  <2> QED
    BY <1>1, <1>4, <2>1 DEF AgentSettled
<1>5. ASSUME NEW t, ToolStart(t) \/ ToolUpdate(t) \/ ToolEnd(t)
      PROVE  MessageMemory'
  BY <1>1, <1>5 DEF ToolStart, ToolUpdate, ToolEnd, activity
<1>6. ASSUME NEW i \in Message, MessageStart(i)
      PROVE  MessageMemory'
  <2>1. stream'.finalized = stream.finalized
    BY <1>6, StartMessageStep, HandleAssumption DEF MessageStart, Shown
  <2> QED
    BY <1>1, <1>6, <2>1 DEF MessageStart
<1>7. ASSUME NEW i \in Identity, NEW finished, UpdateWith(i, finished)
      PROVE  MessageMemory'
  <2>1. stream'.finalized = stream.finalized
    BY <1>7, UpdateMessageStep DEF UpdateWith, Shown
  <2> QED
    BY <1>1, <1>7, <2>1 DEF UpdateWith
<1>8. ASSUME NEW i \in Message, NEW verdict, MessageEnd(i, verdict)
      PROVE  MessageMemory'
  <2>1. CASE HasActiveRun(life) /\ CanUpdateMessage(stream, i)
    BY <1>8, <2>1, MessageEndMemory
  <2>2. CASE ~(HasActiveRun(life) /\ CanUpdateMessage(stream, i))
    BY <1>1, <1>8, <2>2 DEF MessageEnd
  <2> QED
    BY <2>1, <2>2
<1>9. CASE Prompt \/ Interrupt \/ Kill \/ SessionShutdown
  BY <1>1, <1>9 DEF Prompt, Interrupt, Kill, SessionShutdown, activity
<1>10. ASSUME NEW closedWithError, ProcessClose(closedWithError)
       PROVE  MessageMemory'
  <2>1. stream'.finalized = stream.finalized
    BY <1>10, DeactivateMessageStep DEF ProcessClose, Shown
  <2> QED
    BY <1>1, <1>10, <2>1 DEF ProcessClose
<1>11. ASSUME NEW i \in Message, NEW finished, MessageUpdate(i, finished)
       PROVE  MessageMemory'
  BY <1>7, <1>11, HandleAssumption DEF MessageUpdate
<1>12. ASSUME NEW finished, MessageDelta(finished)
       PROVE  MessageMemory'
  BY <1>7, <1>12 DEF MessageDelta, Shown
<1> QED
  BY <1>2, <1>3, <1>4, <1>5, <1>6, <1>8, <1>9, <1>10, <1>11, <1>12 DEF Next

-----------------------------------------------------------------------------
(* The invariant and what follows from it.                                 *)

(* A new handle has no run, nothing to announce and nothing remembered.      *)
LEMMA InitHandle == Init => HandleInvariant
<1> SUFFICES ASSUME Init PROVE HandleInvariant
  OBVIOUS
<1>1. /\ Consistent(life) /\ ~HasRun(life)
      /\ life.settlementStatus = "pending"
      /\ life.runSequence = 0
      /\ ~isLifecycleTerminal(life)
  BY InitialRecord DEF Init, WellFormed, HasRun, isLifecycleTerminal
<1>2. IsFiniteSet({}) /\ Cardinality({}) = 0
  BY FS_EmptySet
<1>3. Shown
  <2>1. MAX_ACTIVE_TOOLS \in Nat
    BY HandleAssumption
  <2>2. IsFiniteSet(activeTools) /\ Cardinality(activeTools) = 0
    BY <1>2 DEF Init
  <2>3. Stream(stream) /\ assembly \in Identity
    BY NoStreamType DEF Init
  <2>4. /\ abortRequested \in BOOLEAN /\ isStreaming \in BOOLEAN
        /\ activeTools \subseteq ToolCall
    BY DEF Init
  <2> QED
    BY <2>1, <2>2, <2>3, <2>4 DEF Shown
<1>4. SettledHandleIsQuiet
  BY <1>1 DEF Init, SettledHandleIsQuiet
<1>5. Told
  <2>1. shuttingDown \in BOOLEAN
    BY DEF Init
  <2>2. /\ announcedRunId \in Nat \union {-1} /\ wakes \in Seq(Wake)
        /\ awaiting \in {"prompted", "running", "none"}
    BY DEF Init
  <2> QED
    BY <2>1, <2>2 DEF Told
<1>6. Announced /\ DeathOfRunIsAnnounced
  BY <1>1 DEF Init, Announced, DeathOfRunIsAnnounced
<1>7. WakesSettled /\ WakesInOrder
  BY DEF Init, WakesSettled, WakesInOrder
<1>8. ToolMemory
  <2>1. Len(<< >>) = 0 /\ MAX_KNOWN_TOOL_CALL_IDS \in Nat
    BY HandleAssumption
  <2> QED
    BY <1>2, <2>1, RemembersNothing DEF Init, ToolMemory
<1>9. MessageMemory
  <2>1. stream.finalized = << >>
    BY DEF Init, NoStream
  <2> QED
    BY <1>2, <2>1, RemembersNothing DEF Init, MessageMemory
<1> QED
  BY <1>1, <1>3, <1>4, <1>5, <1>6, <1>7, <1>8, <1>9 DEF HandleInvariant

(* The parts together are inductive: each needs only those proved above.     *)
LEMMA StepHandle == HandleInvariant /\ [Next]_vars => HandleInvariant'
<1> SUFFICES ASSUME HandleInvariant, [Next]_vars PROVE HandleInvariant'
  OBVIOUS
<1>1. CASE Next
  <2>1. /\ Consistent(life) /\ Shown /\ SettledHandleIsQuiet
        /\ Told /\ Announced /\ DeathOfRunIsAnnounced
        /\ WakesSettled /\ WakesInOrder
        /\ ToolMemory /\ MessageMemory
    BY DEF HandleInvariant
  <2>2. Moves /\ Consistent(life') /\ StaysDown
    BY <1>1, <2>1, NextMoves, NextStaysDown DEF Moves
  <2>3. Shown' /\ SettledHandleIsQuiet'
    BY <1>1, <2>1, <2>2, NextShown, NextQuiet
  <2>4. /\ Told' /\ Announced' /\ DeathOfRunIsAnnounced'
        /\ WakesSettled' /\ WakesInOrder'
    BY <2>1, <2>2, MovesTold, MovesAnnounced, MovesWakes
  <2>5. ToolMemory' /\ MessageMemory'
    BY <1>1, <2>1, NextToolMemory, NextMessageMemory
  <2> QED
    BY <2>2, <2>3, <2>4, <2>5 DEF HandleInvariant
<1>2. CASE UNCHANGED vars
  BY <1>2 DEF vars, activity, calls, notices, usage, HandleInvariant, Shown,
              SettledHandleIsQuiet, Told, Announced, DeathOfRunIsAnnounced,
              WakesSettled, WakesInOrder, ToolMemory, MessageMemory, Remembers
<1> QED
  BY <1>1, <1>2

(* The invariant the other theorems rest on: what a handle shows, what it   *)
(* told its owner and what it remembers agree with its record after any     *)
(* records of its child (dispatch-event.ts, index.ts).                     *)
THEOREM HandleInvariantHolds == Spec => []HandleInvariant
BY InitHandle, StepHandle, PTL DEF Spec

(* The handle's fields keep their types and its lists their limits. *)
THEOREM HandleTypeOK == Spec => []TypeOK
<1>1. HandleInvariant => TypeOK
  BY DEF HandleInvariant, Consistent, Shown, Stream, Told, ToolMemory, MessageMemory, TypeOK
<1> QED
  BY <1>1, HandleInvariantHolds, PTL

(* Only a corroborated run in progress streams; a settled or closed handle  *)
(* shows no open call or message and keeps no abort for the next run        *)
(* (dispatch-event.ts agent_settled, index.ts close handler).              *)
THEOREM QuietOnceSettled == Spec => []SettledHandleIsQuiet
<1>1. HandleInvariant => SettledHandleIsQuiet
  BY DEF HandleInvariant
<1> QED
  BY <1>1, HandleInvariantHolds, PTL

(* The owner is told of the death of every run it waits for (announceStop   *)
(* and the close handler in index.ts).                                     *)
THEOREM DeathsAreAnnounced == Spec => []DeathOfRunIsAnnounced
<1>1. HandleInvariant => DeathOfRunIsAnnounced
  BY DEF HandleInvariant
<1> QED
  BY <1>1, HandleInvariantHolds, PTL

(* Runs are announced in order, each once, and nothing after the death     *)
(* (announceStop in index.ts).                                             *)
THEOREM WakesAreInOrder == Spec => []WakesInOrder
<1>1. HandleInvariant => WakesInOrder
  BY DEF HandleInvariant
<1> QED
  BY <1>1, HandleInvariantHolds, PTL

(* As long as the tombstones last, no message adds to the usage twice       *)
(* (message_end in dispatch-event.ts).                                     *)
THEOREM MessagesCountOnce == Spec => []UsageCountedOnce
<1>1. HandleInvariant => UsageCountedOnce
  BY DEF HandleInvariant, MessageMemory, Remembers, UsageCountedOnce
<1> QED
  BY <1>1, HandleInvariantHolds, PTL

(* As long as the known ids last, no tool call is started twice             *)
(* (tool_execution_start in dispatch-event.ts).                            *)
THEOREM ToolCallsBeginOnce == Spec => []ToolCallsStartOnce
<1>1. HandleInvariant => ToolCallsStartOnce
  BY DEF HandleInvariant, ToolMemory, Remembers, ToolCallsStartOnce
<1> QED
  BY <1>1, HandleInvariantHolds, PTL

(* The owner is not woken a second time for a stop (announcedRunId in       *)
(* index.ts): something was asked for or began since the wake before.      *)
THEOREM OneWakeForEachStop == Spec => WakeOnlyWhenAwaited
<1>1. HandleInvariant /\ [Next]_vars => [wakes' # wakes => awaiting # "none"]_vars
  <2> SUFFICES ASSUME HandleInvariant, Next, awaiting = "none"
               PROVE  wakes' = wakes
    OBVIOUS
  <2>1. Moves /\ Announced
    BY NextMoves DEF HandleInvariant
  <2>2. announcedRunId = life.runSequence /\ (~isLifecycleTerminal(life) => ~Unsettled(life))
    BY <2>1 DEF Announced
  <2>3. \A aborted \in BOOLEAN : ~Settles(aborted)
    BY <2>2 DEF Settles
  <2> QED
    BY <2>1, <2>2, <2>3 DEF Moves, Starts, Keeps, Stops, AlreadyAnnounced, notices
<1> QED
  BY <1>1, HandleInvariantHolds, PTL DEF Spec, WakeOnlyWhenAwaited

(* An interrupted run is announced as aborted or dead (abortRequestedAt in  *)
(* dispatch-event.ts), whatever its settlement says of it.                 *)
THEOREM InterruptsAreHonoured == Spec => InterruptedRunSettlesAborted
<1>1. HandleInvariant /\ [Next]_vars =>
        [wakes' # wakes /\ abortRequested =>
           wakes'[Len(wakes')].outcome \in {"aborted", "died"}]_vars
  <2> SUFFICES ASSUME HandleInvariant, Next, wakes' # wakes, abortRequested
               PROVE  wakes'[Len(wakes')].outcome \in {"aborted", "died"}
    OBVIOUS
  <2>1. Moves /\ wakes \in Seq(Wake)
    BY NextMoves DEF HandleInvariant, Told
  <2>2. ASSUME NEW wake, announceStop(life', wake), wake.outcome \in {"aborted", "died"}
        PROVE  wakes'[Len(wakes')].outcome \in {"aborted", "died"}
    <3>1. wakes' = Append(wakes, wake)
      BY <2>2 DEF announceStop
    <3>2. wakes'[Len(wakes')] = wake
      BY <2>1, <3>1
    <3> QED
      BY <2>2, <3>2
  <2>3. ASSUME Settles(TRUE)
        PROVE  wakes'[Len(wakes')].outcome \in {"aborted", "died"}
    BY <2>2, <2>3 DEF Settles, RunSettled
  <2>4. CASE Stops
    BY <2>2, <2>4 DEF Stops, notices, Died
  <2>5. CASE Starts \/ Keeps
    BY <2>5 DEF Starts, Keeps
  <2>6. (\E aborted \in BOOLEAN : (abortRequested => aborted) /\ Settles(aborted)) =>
          Settles(TRUE)
    BY DEF Settles
  <2> QED
    BY <2>1, <2>3, <2>4, <2>5, <2>6 DEF Moves
<1> QED
  BY <1>1, HandleInvariantHolds, PTL DEF Spec, InterruptedRunSettlesAborted

(***************************************************************************)
(* The handle implements the run ledger for any order of its child's       *)
(* records, with the guards of the dispatcher in place of those of         *)
(* lifecycle.ts: it never settles a run twice or one that did not begin.   *)
(***************************************************************************)
THEOREM HandleRefinesLedger == Spec => RefinesRunLedger
<1>1. Init => Ledger!LedgerInit
  BY InitialRecord DEF Init, Ledger!LedgerInit
<1>2. HandleInvariant /\ HandleInvariant' /\ [Next]_vars
        => [Ledger!LedgerNext]_(Ledger!ledgerVars)
  <2> SUFFICES ASSUME HandleInvariant, HandleInvariant', [Next]_vars
               PROVE  [Ledger!LedgerNext]_(Ledger!ledgerVars)
    OBVIOUS
  <2>1. CASE UNCHANGED vars
    BY <2>1 DEF vars, Ledger!ledgerVars
  <2>2. CASE Next
    <3>1. Moves /\ Consistent(life) /\ Consistent(life')
      BY <2>2, NextMoves DEF HandleInvariant
    <3>2. life \in LifecycleState /\ life' \in LifecycleState
      BY <3>1 DEF Consistent
    <3>3. /\ life.runSequence \in Nat /\ life'.runSequence \in Nat
          /\ life.lastSettledRunId \in Nat /\ life'.lastSettledRunId \in Nat
          /\ life.processState \in {"alive", "stopped"}
          /\ life'.processState \in {"alive", "stopped"}
      BY <3>2 DEF LifecycleState
    <3>4. CASE Starts
      BY <3>3, <3>4 DEF Starts, isLifecycleTerminal, Ledger!LedgerNext, Ledger!StartTurn
    <3>5. ASSUME NEW aborted \in BOOLEAN, Settles(aborted)
          PROVE  Ledger!SettleTurn
      <4>1. life'.lastSettledRunId > life.lastSettledRunId
        BY <3>5 DEF Settles, RunSettled, Unsettled
      <4>2. life'.lastSettledRunId <= life'.runSequence
        BY <3>1, <3>3 DEF Consistent, CursorBehind
      <4> QED
        BY <3>3, <3>5, <4>1, <4>2 DEF Settles, isLifecycleTerminal, Ledger!SettleTurn
    <3>6. CASE Stops
      BY <3>3, <3>6 DEF Stops, isLifecycleTerminal, Ledger!LedgerNext, Ledger!StopProcess
    <3>7. CASE Keeps
      BY <3>3, <3>7 DEF Keeps, Ledger!ledgerVars
    <3> QED
      BY <3>1, <3>4, <3>5, <3>6, <3>7 DEF Moves, Ledger!LedgerNext
  <2> QED
    BY <2>1, <2>2
<1> QED
  BY <1>1, <1>2, HandleInvariantHolds, PTL DEF Spec, RefinesRunLedger, Ledger!LedgerSpec
===============================================================================
