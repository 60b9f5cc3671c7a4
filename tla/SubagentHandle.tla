---------------------------- MODULE SubagentHandle ----------------------------
(***************************************************************************)
(* One subagent handle of the extension: the RPC records of its child are  *)
(* dispatched to it (handleRpcRecord, dispatch-event.ts), its owner        *)
(* prompts, interrupts and kills it, its process may close, and each stop  *)
(* is announced to the owner once (announceStop).  From the shutdown of    *)
(* the session on nothing is announced: its handle is not the next         *)
(* session's, and a reload is no shutdown.                                 *)
(*                                                                         *)
(* Records come from the child in any order, duplicated, delayed or left   *)
(* out.  A record that is ignored and changes nothing has no action.       *)
(* Texts, tool output, models and every other displayed value are left     *)
(* out; a tool call is its id, a message its identity.                     *)
(*                                                                         *)
(* The record `life' is SubagentLifecycle's, and so is what it promises    *)
(* (RefinesRunLedger); here its operations have the handle's guards.       *)
(***************************************************************************)
EXTENDS SubagentLifecycle, AssistantStream, FiniteSets

CONSTANTS
  ToolCall,               \* tool call ids
  Message,                \* identities of assistant messages
  StaleRunId,             \* run ids a record may carry; 0 is none
  MAX_KNOWN_TOOL_CALL_IDS, MAX_ACTIVE_TOOLS,
  MaxTurns                \* bound: two for each run, one for what it began before

ASSUME HandleAssumption ==
  /\ Message \subseteq Identity
  /\ StaleRunId \subseteq Nat
  /\ MAX_KNOWN_TOOL_CALL_IDS \in Nat \ {0}
  /\ MAX_ACTIVE_TOOLS \in Nat \ {0}
  /\ MaxTurns \in Nat

VARIABLES
  abortRequested,   \* abortRequestedAt is set
  stream,           \* the assistant message state
  isStreaming,
  assembly,         \* the message that delta records are applied to
  activeTools, knownToolCallIds,
  turns,            \* usage.turns
  announcedRunId,   \* -1 is undefined
  shuttingDown,     \* sessionShuttingDown
  wakes,            \* history: the stops announced to the owner
  awaiting,         \* history: what the owner last asked for or saw begin
                    \*   and has not been woken for since
  counted,          \* history: the messages counted in turns
  toolStarts, begun \* history: tool starts accepted in the run, of which calls

activity == <<stream, isStreaming, assembly, activeTools>>
notices == <<announcedRunId, shuttingDown, wakes, awaiting>>
usage == <<turns, counted>>
calls == <<knownToolCallIds, toolStarts, begun>>
vars == <<life, abortRequested, activity, calls, notices, usage>>

Wake == [runId : Nat, outcome : {"succeeded", "failed", "aborted", "died"}]
Died == [runId |-> 0, outcome |-> "died"]

(* A launched handle: its first prompt was accepted by the child. *)
Init ==
  /\ life = createLifecycleState
  /\ abortRequested = FALSE
  /\ stream = NoStream
  /\ isStreaming = FALSE
  /\ assembly = NoIdentity
  /\ activeTools = {}
  /\ knownToolCallIds = << >>
  /\ turns = 0
  /\ announcedRunId = -1
  /\ shuttingDown = FALSE
  /\ wakes = << >>
  /\ awaiting = "prompted"
  /\ counted = {}
  /\ toolStarts = 0
  /\ begun = {}

-----------------------------------------------------------------------------
(* Announcing a stop.                                                      *)

(* Mutant: the cursor is the id of the run. *)
announceRunId(l, wake) ==
  /\ announcedRunId' = wake.runId
  /\ shuttingDown' = shuttingDown
  /\ IF l.killRequested \/ shuttingDown THEN UNCHANGED <<wakes, awaiting>>
     ELSE /\ wakes' = Append(wakes, wake)
          /\ awaiting' = "none"

(* l is the lifecycle record at the time of the call. *)
announceStop(l, wake) ==
  /\ announcedRunId' = l.runSequence
  /\ shuttingDown' = shuttingDown
  /\ IF l.killRequested \/ shuttingDown THEN UNCHANGED <<wakes, awaiting>>
     ELSE /\ wakes' = Append(wakes, wake)
          /\ awaiting' = "none"

-----------------------------------------------------------------------------
(* Run boundaries.                                                         *)

(* An agent_start resets the handle unless it reports a run in progress. *)
ResetsForRun == life.runState # "running" /\ ~life.killRequested

resetRunErrors(l) == [l EXCEPT !.tentativeError = "none", !.finalError = "none"]

(* runId is 0 when the record carries none. *)
AgentStart(runId) ==
  LET before == IF ResetsForRun THEN resetRunErrors(life) ELSE life
      id == IF runId = 0 THEN life.runSequence + 1 ELSE runId
      starts == CanStartRun(before, id)
  IN  /\ ~isLifecycleTerminal(life)
      /\ id <= MaxRunId
      /\ assembly' = NoIdentity
      /\ life' = IF starts THEN startRun(before, id) ELSE before
      /\ abortRequested' = (abortRequested /\ ~ResetsForRun /\ ~starts)
      /\ activeTools' = IF ResetsForRun \/ starts THEN {} ELSE activeTools
      /\ awaiting' = IF starts THEN "running" ELSE awaiting
      /\ IF ResetsForRun
         THEN /\ knownToolCallIds' = << >>
              /\ stream' = NoStream
              /\ isStreaming' = FALSE
              /\ turns' = 0
              /\ counted' = {}
              /\ toolStarts' = 0
              /\ begun' = {}
         ELSE UNCHANGED <<calls, stream, isStreaming, usage>>
      /\ UNCHANGED <<announcedRunId, shuttingDown, wakes>>

(* The final message of an agent_end is the one this run finalized last. *)
EndsRun(i) ==
  /\ currentRun(life).assistantMessageGeneration # 0
  /\ currentRun(life).assistantMessageGeneration = stream.finalGeneration
  /\ assistantMessageMatchesFinalized(stream, i)

AgentEnd(i, willRetry) ==
  /\ HasActiveRun(life)
  /\ EndsRun(i)
  /\ life' = endRun(life, willRetry)
  /\ isStreaming' = FALSE
  /\ UNCHANGED <<abortRequested, stream, assembly, activeTools, calls,
                 notices, usage>>

-----------------------------------------------------------------------------
(* Settlement.                                                             *)

Settlement ==
  [ runId : {0} \union StaleRunId,
    outcome : {"none", "succeeded", "failed", "aborted"},
    withError : BOOLEAN ]

ForCurrentRun(r) ==
  r.runId # 0 /\ HasRun(life) => r.runId = currentRun(life).id

(* Mutant: only the record's own outcome tells an abort. *)
AbortFenceOfRecord(r) == r.outcome = "aborted"

(* A stopReason "aborted" counts as an aborted outcome. *)
AbortFence(r) == abortRequested \/ r.outcome = "aborted"

(* The record with its current run ended, as agent_settled leaves it. *)
EndedBy(r) ==
  IF AbortFence(r) THEN IF CanAbortRun(life) THEN abortRun(life) ELSE life
  ELSE IF HasActiveRun(life) /\ currentRun(life).corroborated
       THEN endRun(life, FALSE)
  ELSE life

SettlementAccepted(r) == ForCurrentRun(r) /\ CanSettle(EndedBy(r))

(* Mutant: calls without an end record stay active. *)
ToolsLeftOpen(tools) == tools

ToolsAfterSettlement(tools) == {}

AgentSettled(r) ==
  LET fence == AbortFence(r)
  IN  /\ ~isLifecycleTerminal(life)
      /\ ForCurrentRun(r)
      /\ life' = settleRunToIdle(EndedBy(r), IF fence THEN "aborted" ELSE r.outcome,
                                 fence, r.withError /\ ~fence)
      /\ IF SettlementAccepted(r)
         THEN /\ abortRequested' = FALSE
              /\ isStreaming' = FALSE
              /\ activeTools' = ToolsAfterSettlement(activeTools)
              /\ stream' = deactivateAssistantMessage(stream)
              /\ assembly' = NoIdentity
              /\ announceStop(life', [runId |-> currentRun(life').id,
                                      outcome |-> currentRun(life').outcome])
         ELSE UNCHANGED <<abortRequested, isStreaming, activeTools, stream,
                          assembly, notices>>
      /\ UNCHANGED <<calls, usage>>

-----------------------------------------------------------------------------
(* The bound on messages and calls: those begun in the run, the more of    *)
(* them the earlier the run.                                               *)
InBound(begunInRun) == 2 * life.runSequence + begunInRun <= MaxTurns

(* Tool calls.                                                             *)

rememberNewToolCallId(known, t) ==
  LET grown == Append(known, t)
  IN  IF Len(grown) > MAX_KNOWN_TOOL_CALL_IDS THEN Tail(grown) ELSE grown

Known(t) == \E n \in 1..Len(knownToolCallIds) : knownToolCallIds[n] = t

(* Mutant: only an active call counts as seen. *)
CanStartInactiveTool(t) ==
  t \notin activeTools /\ Cardinality(activeTools) < MAX_ACTIVE_TOOLS

CanStartTool(t) == ~Known(t) /\ Cardinality(activeTools) < MAX_ACTIVE_TOOLS

ToolStart(t) ==
  /\ HasActiveRun(life)
  /\ InBound(Cardinality(begun))
  /\ CanStartTool(t)
  /\ knownToolCallIds' = rememberNewToolCallId(knownToolCallIds, t)
  /\ activeTools' = activeTools \union {t}
  /\ toolStarts' = toolStarts + 1
  /\ begun' = begun \union {t}
  /\ life' = corroborateRun(life)
  /\ UNCHANGED <<abortRequested, stream, isStreaming, assembly, notices, usage>>

ToolUpdate(t) ==
  /\ HasActiveRun(life)
  /\ t \in activeTools
  /\ life' = corroborateRun(life)
  /\ UNCHANGED <<abortRequested, activity, calls, notices, usage>>

ToolEnd(t) ==
  /\ HasActiveRun(life)
  /\ t \in activeTools
  /\ activeTools' = activeTools \ {t}
  /\ life' = corroborateRun(life)
  /\ UNCHANGED <<abortRequested, stream, isStreaming, assembly, calls,
                 notices, usage>>

-----------------------------------------------------------------------------
(* Assistant messages.  The assembly follows a record even when the        *)
(* dispatcher then ignores it.                                             *)

MessageStart(i) ==
  /\ ~isLifecycleTerminal(life)
  /\ InBound(stream.generation)
  /\ assembly' = i
  /\ IF HasActiveRun(life) /\ CanStartMessage(stream, i)
     THEN /\ stream' = startAssistantMessage(stream, i)
          /\ life' = corroborateRun(life)
          /\ isStreaming' = TRUE
     ELSE UNCHANGED <<stream, life, isStreaming>>
  /\ UNCHANGED <<abortRequested, activeTools, calls, notices, usage>>

(* finished: the update carries the done or error event of its stream. *)
UpdateWith(i, finished) ==
  /\ IF HasActiveRun(life) /\ CanUpdateMessage(stream, i)
     THEN /\ stream' = updateAssistantMessage(stream, i)
          /\ life' = corroborateRun(life)
          /\ isStreaming' = ~finished
     ELSE UNCHANGED <<stream, life, isStreaming>>
  /\ UNCHANGED <<abortRequested, activeTools, calls, notices, usage>>

MessageUpdate(i, finished) ==
  /\ ~isLifecycleTerminal(life)
  /\ assembly' = i
  /\ UpdateWith(i, finished)

(* A delta names no message: it belongs to the one being assembled. *)
MessageDelta(finished) ==
  /\ ~isLifecycleTerminal(life)
  /\ assembly # NoIdentity
  /\ assembly' = assembly
  /\ UpdateWith(assembly, finished)

MessageEnd(i, verdict) ==
  LET final == finalizeAssistantMessage(stream, i)
  IN  /\ ~isLifecycleTerminal(life)
      /\ assembly' = NoIdentity
      /\ IF HasActiveRun(life) /\ CanUpdateMessage(stream, i)
         THEN /\ stream' = final
              /\ isStreaming' = FALSE
              /\ turns' = turns + 1
              /\ counted' = counted \union {i}
              /\ life' = recordAssistantEnd(life, verdict, final.finalGeneration)
         ELSE UNCHANGED <<stream, isStreaming, usage, life>>
      /\ UNCHANGED <<abortRequested, activeTools, calls, notices>>

-----------------------------------------------------------------------------
(* The owner and the process.                                              *)

(* deliverMessage to an idle child: the child has accepted the prompt. *)
Prompt ==
  /\ life.processState = "alive"
  /\ life.runState = "idle"
  /\ ~life.killRequested
  /\ awaiting' = "prompted"
  /\ UNCHANGED <<life, abortRequested, activity, calls, announcedRunId,
                 shuttingDown, wakes, usage>>

Interrupt ==
  /\ life.processState = "alive"
  /\ life.runState # "idle"
  /\ abortRequested' = TRUE
  /\ UNCHANGED <<life, activity, calls, notices, usage>>

Kill ==
  /\ ~isLifecycleTerminal(life)
  /\ ~life.killRequested
  /\ life' = requestKill(life)
  /\ UNCHANGED <<abortRequested, activity, calls, notices, usage>>

(* session_shutdown, unless it is a reload; closing the child is left to   *)
(* Kill and ProcessClose.  A later session clears the flag, and has handles *)
(* of its own.                                                             *)
SessionShutdown ==
  /\ ~shuttingDown
  /\ shuttingDown' = TRUE
  /\ UNCHANGED <<life, abortRequested, activity, calls, announcedRunId, wakes,
                 awaiting, usage>>

(* Mutant: any earlier stop silences the death. *)
AnnouncedOnce == announcedRunId # -1

AlreadyAnnounced == announcedRunId = life.runSequence

ProcessClose(closedWithError) ==
  /\ ~isLifecycleTerminal(life)
  /\ isStreaming' = FALSE
  /\ activeTools' = {}
  /\ stream' = deactivateAssistantMessage(stream)
  /\ assembly' = NoIdentity
  /\ life' = markStopped(life, closedWithError)
  /\ IF AlreadyAnnounced THEN UNCHANGED notices ELSE announceStop(life', Died)
  /\ UNCHANGED <<abortRequested, calls, usage>>

Next ==
  \/ \E id \in {0} \union StaleRunId : AgentStart(id)
  \/ \E i \in Message, willRetry \in BOOLEAN : AgentEnd(i, willRetry)
  \/ \E r \in Settlement : AgentSettled(r)
  \/ \E t \in ToolCall : ToolStart(t) \/ ToolUpdate(t) \/ ToolEnd(t)
  \/ \E i \in Message : MessageStart(i)
  \/ \E i \in Message, finished \in BOOLEAN : MessageUpdate(i, finished)
  \/ \E finished \in BOOLEAN : MessageDelta(finished)
  \/ \E i \in Message, verdict \in {"none", "failed", "aborted"} :
       MessageEnd(i, verdict)
  \/ Prompt
  \/ Interrupt
  \/ Kill
  \/ SessionShutdown
  \/ \E closedWithError \in BOOLEAN : ProcessClose(closedWithError)

Spec == Init /\ [][Next]_vars

-----------------------------------------------------------------------------
(* Types and limits.                                                       *)

(* The handle's fields keep their types and its lists their limits. *)
TypeOK ==
  /\ life \in LifecycleState
  /\ abortRequested \in BOOLEAN
  /\ stream \in AssistantLiveState
  /\ Len(stream.finalized) <= MAX_FINALIZED_ASSISTANT_IDENTITIES
  /\ isStreaming \in BOOLEAN
  /\ assembly \in Identity
  /\ activeTools \subseteq ToolCall
  /\ Cardinality(activeTools) <= MAX_ACTIVE_TOOLS
  /\ knownToolCallIds \in Seq(ToolCall)
  /\ Len(knownToolCallIds) <= MAX_KNOWN_TOOL_CALL_IDS
  /\ turns \in Nat
  /\ announcedRunId \in Nat \union {-1}
  /\ shuttingDown \in BOOLEAN
  /\ wakes \in Seq(Wake)
  /\ awaiting \in {"prompted", "running", "none"}
  /\ counted \subseteq Message
  /\ toolStarts \in Nat
  /\ begun \subseteq ToolCall

-----------------------------------------------------------------------------
(* The activity a handle shows.                                            *)

(***************************************************************************)
(* A streaming message is shown only while a run is in progress that it    *)
(* corroborates: no order of starts, ends, settlements and closes leaves   *)
(* the spinner on, and a stray settlement cannot drop the run under it.    *)
(* A settled or closed handle shows no call as running and no message as   *)
(* open and, while it lives, keeps no abort that would turn the next run's *)
(* success into an abort.                                                  *)
(***************************************************************************)
SettledHandleIsQuiet ==
  /\ isStreaming => HasActiveRun(life) /\ currentRun(life).corroborated
  /\ life.settlementStatus = "settled" \/ isLifecycleTerminal(life) =>
      /\ activeTools = {}
      /\ ~isStreaming
      /\ ~stream.active
      /\ abortRequested => isLifecycleTerminal(life)

(***************************************************************************)
(* No message of a run is counted twice, whatever is replayed: until more  *)
(* messages were finalized than there are tombstones.                      *)
(***************************************************************************)
UsageCountedOnce ==
  Cardinality(counted) <= MAX_FINALIZED_ASSISTANT_IDENTITIES =>
    turns = Cardinality(counted)

(***************************************************************************)
(* No tool call of a run is started twice, whether it still runs, ended or *)
(* is replayed late: until more calls began than ids are remembered.       *)
(***************************************************************************)
ToolCallsStartOnce ==
  Cardinality(begun) <= MAX_KNOWN_TOOL_CALL_IDS =>
    toolStarts = Cardinality(begun)

-----------------------------------------------------------------------------
(* What the owner is told.                                                 *)

(***************************************************************************)
(* "Wake the owner once for any stop the owner did not ask for": between   *)
(* two wakes something was asked for or begun.  A retry that settles with  *)
(* the run before it, a dropped run and a late settlement do not wake the  *)
(* owner a second time for the same stop.                                  *)
(***************************************************************************)
WakeOnlyWhenAwaited == [][wakes' # wakes => awaiting # "none"]_vars

(***************************************************************************)
(* A run that began and was not answered by a wake is answered when the    *)
(* process closes, unless the owner killed the child or the session is     *)
(* being shut down: the announced run cursor never hides the death of a    *)
(* run in progress.                                                        *)
(***************************************************************************)
DeathOfRunIsAnnounced ==
  isLifecycleTerminal(life) /\ ~life.killRequested /\ ~shuttingDown =>
    awaiting # "running"

(* Runs are announced in order, each once; nothing follows a death. *)
WakesInOrder ==
  \A m, n \in 1..Len(wakes) :
    m < n => /\ wakes[m] # Died
             /\ wakes[n] # Died => wakes[m].runId < wakes[n].runId

(***************************************************************************)
(* An interrupted run is never announced as a success or a failure: not    *)
(* by its own settlement's outcome, by a late message nor by a retry that  *)
(* did not start.                                                          *)
(***************************************************************************)
InterruptedRunSettlesAborted ==
  [][wakes' # wakes /\ abortRequested =>
       wakes'[Len(wakes')].outcome \in {"aborted", "died"}]_vars

-----------------------------------------------------------------------------
(* What comments and documentation say of the handle.                      *)

(***************************************************************************)
(* index.ts:2250: "You are notified automatically when a subagent stops,   *)
(* whether it finished, errored, was interrupted, or died."                *)
(***************************************************************************)
StopIsAnnounced ==
  isLifecycleTerminal(life) /\ ~life.killRequested /\ ~shuttingDown =>
    awaiting = "none"

(***************************************************************************)
(* dispatch-event.ts:315: "Preserve abort evidence until native            *)
(* agent_settled consumes the fence.", and index.ts:1852: the abort of a   *)
(* run that is still to settle is kept until that settlement.              *)
(***************************************************************************)
AbortFenceKept ==
  [][/\ abortRequested
     /\ HasRun(life)
     /\ currentRun(life).id > life.lastSettledRunId
     /\ ~abortRequested'
     => life'.lastSettledRunId # life.lastSettledRunId]_vars
==============================================================================
