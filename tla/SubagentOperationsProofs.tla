----------------------- MODULE SubagentOperationsProofs -----------------------
(***************************************************************************)
(* Proofs about the tools and the session control, for any children, any   *)
(* callers and any limits.                                                 *)
(***************************************************************************)
EXTENDS SubagentOperations, FiniteSetTheorems, WellFoundedInduction, TLAPS

TurnState ==
  {"none", "waiting", "canceled", "running", "afterTermination", "afterRequest",
   "released"}
StepState == {"none", "files", "get_state", "prompt", "terminate", "response"}
StartState == {"idle", "pending", "serializing", "terminating", "ok", "failed"}
PhaseState ==
  {"idle", "killing", "stopping", "forceLive", "forceAll", "down"}

(* The types, by groups of variables that steps change together.           *)
ChainType ==
  /\ turn \in [Turn -> TurnState]
  /\ before \in [Turn -> Turn \union {NoTurn}]
  /\ tail \in [Queue -> Turn \union {NoTurn}]
  /\ count \in [Child -> Int]

CallType == call \in [Call -> [does : {"none", "send", "remove"}, on : Queue]]

ChildType ==
  /\ proc \in [Child -> {"none", "live", "closed"}]
  /\ termination \in [Child -> {"none", "running", "done"}]
  /\ request \in [Child -> Turn \union {NoTurn}]

SessionType ==
  /\ phase \in PhaseState
  /\ sweep \subseteq Child /\ tracked \subseteq Child /\ late \subseteq Child

TypeOK ==
  /\ ChainType /\ CallType /\ ChildType /\ SessionType
  /\ step \in [Turn -> StepState]
  /\ start \in [Child -> StartState]

-----------------------------------------------------------------------------
(* Turns and what chains them.                                             *)

(* The turns of a child: the place of its launch among the launches, and in *)
(* its own queue that launch and the kill.                                 *)
LEMMA TurnsOfChild ==
  ASSUME NEW c \in Child
  PROVE  /\ Reservation(c) \in Turn /\ Launch(c) \in Turn /\ Kill(c) \in Turn
         /\ Reservation(c)[1] = "reservation" /\ Reservation(c)[2] = c
         /\ Launch(c)[1] = "launch" /\ Launch(c)[2] = c
         /\ Kill(c)[1] = "kill" /\ Kill(c)[2] = c
         /\ QueueOf(Reservation(c)) = Launches
         /\ QueueOf(Launch(c)) = c /\ QueueOf(Kill(c)) = c
BY DEF Reservation, Launch, Kill, Turn, ChildTurn, QueueOf

(* The turn of a tool call is in the queue of the child it is on.          *)
LEMMA TurnsOfCall ==
  ASSUME NEW k \in Call
  PROVE  /\ CallTurn(k) \in Turn
         /\ CallTurn(k)[1] = "call" /\ CallTurn(k)[2] = k
         /\ QueueOf(CallTurn(k)) = call[k].on
BY DEF CallTurn, Turn, QueueOf

(* Each turn is one of four kinds.                                         *)
LEMMA TurnKinds ==
  ASSUME NEW t \in Turn
  PROVE  \/ \E c \in Child : t = Reservation(c) \/ t = Launch(c) \/ t = Kill(c)
         \/ \E k \in Call : t = CallTurn(k)
BY DEF Turn, ChildTurn, Reservation, Launch, Kill, CallTurn

(* No turn is the absence of one.                                          *)
LEMMA NoTurnIsNone == NoTurn \notin Turn
BY DEF NoTurn, Turn, ChildTurn

(* Each turn has a queue.                                                  *)
LEMMA QueueType ==
  ASSUME CallType, NEW t \in Turn
  PROVE  QueueOf(t) \in Queue
<1>1. CASE \E c \in Child : t = Reservation(c) \/ t = Launch(c) \/ t = Kill(c)
  BY <1>1, TurnsOfChild DEF Queue
<1>2. CASE \E k \in Call : t = CallTurn(k)
  BY <1>2, TurnsOfCall DEF Queue, CallType
<1> QED
  BY <1>1, <1>2, TurnKinds

(* The effect of the four ways to move a turn on.                          *)
LEMMA EnterEffect ==
  ASSUME ChainType, NEW queue, NEW as \in TurnState,
         DOMAIN queue \subseteq Turn,
         \A t \in DOMAIN queue : queue[t] \in Queue,
         Enter(queue, as)
  PROVE  /\ ChainType'
         /\ \A t \in Turn : t \notin DOMAIN queue =>
              turn'[t] = turn[t] /\ before'[t] = before[t]
         /\ \A t \in DOMAIN queue : turn'[t] = as /\ before'[t] = tail[queue[t]]
<1> DEFINE of(q) == CHOOSE t \in DOMAIN queue : queue[t] = q
<1>1. \A q \in {queue[t] : t \in DOMAIN queue} : of(q) \in DOMAIN queue
  OBVIOUS
<1>2. tail' = [q \in Queue |-> IF q \in {queue[t] : t \in DOMAIN queue}
                               THEN of(q) ELSE tail[q]]
  BY DEF Enter
<1> HIDE DEF of
<1>3. tail' \in [Queue -> Turn \union {NoTurn}]
  BY <1>1, <1>2 DEF ChainType
<1>4. count' \in [Child -> Int]
  BY DEF Enter, ChainType
<1>5. /\ turn' = [t \in Turn |-> IF t \in DOMAIN queue THEN as ELSE turn[t]]
      /\ before' = [t \in Turn |-> IF t \in DOMAIN queue THEN tail[queue[t]]
                                   ELSE before[t]]
  BY DEF Enter
<1> QED
  BY <1>3, <1>4, <1>5 DEF ChainType

(* A release frees the turn, and whoever was chained to it.                *)
LEMMA ReleaseEffect ==
  ASSUME ChainType, CallType, NEW t \in Turn, Release(t)
  PROVE  /\ ChainType'
         /\ \A u \in Turn : u # t => turn'[u] = turn[u]
         /\ turn'[t] = IF t[1] = "call" THEN "none" ELSE "released"
         /\ \A u \in Turn : before'[u] = IF t = u \/ t = before[u]
                                         THEN NoTurn ELSE before[u]
<1>1. turn' = [turn EXCEPT ![t] = IF t[1] = "call" THEN "none" ELSE "released"]
  BY DEF Release
<1>2. before' = [u \in Turn |-> IF t \in {u, before[u]} THEN NoTurn ELSE before[u]]
  BY DEF Release
<1>3. tail' \in [Queue -> Turn \union {NoTurn}]
  BY QueueType DEF Release, ChainType
<1>4. count' \in [Child -> Int]
  <2>1. CASE Counted(t)
    <3>1. PICK q : count' = [count EXCEPT ![q] = count[q] - 1]
      BY <2>1 DEF Release
    <3>2. count' = [c \in Child |-> IF c = q THEN count[c] - 1 ELSE count[c]]
      BY <3>1 DEF ChainType
    <3>3. \A c \in Child : count[c] \in Int
      BY DEF ChainType
    <3> QED
      BY <3>2, <3>3
  <2>2. CASE ~Counted(t)
    BY <2>2 DEF Release, ChainType
  <2> QED
    BY <2>1, <2>2
<1>5. turn' \in [Turn -> TurnState]
  BY <1>1 DEF ChainType, TurnState
<1>6. before' \in [Turn -> Turn \union {NoTurn}]
  BY <1>2 DEF ChainType
<1> QED
  BY <1>1, <1>2, <1>3, <1>4, <1>5, <1>6 DEF ChainType

(* An operation that begins keeps its place.                               *)
LEMMA BeginEffect ==
  ASSUME ChainType, step \in [Turn -> StepState],
         NEW t \in Turn, NEW what \in StepState, Begin(t, what)
  PROVE  /\ ChainType' /\ step' \in [Turn -> StepState]
         /\ UNCHANGED <<before, tail, count>>
         /\ \A u \in Turn : u # t => turn'[u] = turn[u] /\ step'[u] = step[u]
         /\ turn'[t] = "running" /\ step'[t] = what
BY DEF Begin, Await, ChainType, TurnState

(* An operation that returns keeps its place until its cleanup has settled. *)
LEMMA SettleEffect ==
  ASSUME ChainType, step \in [Turn -> StepState], NEW t \in Turn, Settle(t)
  PROVE  /\ ChainType' /\ step' \in [Turn -> StepState]
         /\ UNCHANGED <<before, tail, count>>
         /\ \A u \in Turn : u # t => turn'[u] = turn[u] /\ step'[u] = step[u]
         /\ turn'[t] \in {"afterTermination", "afterRequest"} /\ step'[t] = "none"
<1>1. AfterOperation(QueueOf(t)) \in {"afterTermination", "afterRequest"}
  BY DEF AfterOperation
<1> QED
  BY <1>1 DEF Settle, Await, ChainType, TurnState, StepState

(* A waiter that gives up keeps its place.                                 *)
LEMMA CancelEffect ==
  ASSUME ChainType, NEW t \in Turn, Cancel(t)
  PROVE  /\ ChainType'
         /\ UNCHANGED <<before, tail, count>>
         /\ \A u \in Turn : u # t => turn'[u] = turn[u]
         /\ turn'[t] = "canceled"
BY DEF Cancel, ChainType, TurnState

-----------------------------------------------------------------------------
(* Types.                                                                  *)

(* A close keeps the types of what it changes.                             *)
LEMMA CloseType ==
  ASSUME ChildType, SessionType, NEW cs \in SUBSET Child, Close(cs)
  PROVE  /\ proc' \in [Child -> {"none", "live", "closed"}]
         /\ request' \in [Child -> Turn \union {NoTurn}]
         /\ sweep' \subseteq Child
BY DEF Close, ChildType, SessionType

(* A termination keeps its type.                                           *)
LEMMA TerminateType ==
  ASSUME ChildType, NEW c \in Child, terminate(c)
  PROVE  termination' \in [Child -> {"none", "running", "done"}]
BY DEF terminate, ChildType

(* The steps that do not touch the chains.                                 *)
LEMMA ChildStepsType ==
  ASSUME TypeOK, NEW c \in Child,
         \/ TerminationEnds(c) \/ ProcessCloses(c) \/ RequestSettles(c)
         \/ forceCleanupRuntime(c) \/ StartReplies(c) \/ StartAborted(c)
         \/ AbortedStartReplies(c) \/ LaunchFails(c) \/ LaunchContinues(c)
  PROVE  TypeOK'
<1>1. CASE TerminationEnds(c)
  BY <1>1, CloseType
  DEF TerminationEnds, TypeOK, ChainType, CallType, ChildType, SessionType, chain
<1>2. CASE ProcessCloses(c)
  BY <1>2, CloseType
  DEF ProcessCloses, TypeOK, ChainType, CallType, ChildType, SessionType, chain
<1>3. CASE RequestSettles(c)
  BY <1>3
  DEF RequestSettles, TypeOK, ChainType, CallType, ChildType, SessionType, chain,
      session
<1>4. CASE forceCleanupRuntime(c)
  BY <1>4, CloseType
  DEF forceCleanupRuntime, TypeOK, ChainType, CallType, ChildType, SessionType,
      chain
<1>5. CASE StartReplies(c) \/ AbortedStartReplies(c)
  BY <1>5
  DEF StartReplies, AbortedStartReplies, Starting, StartState, TypeOK, ChainType,
      CallType, ChildType, SessionType, chain, child, session
<1>6. CASE StartAborted(c)
  BY <1>6, TerminateType
  DEF StartAborted, Starting, StartState, TypeOK, ChainType, CallType, ChildType,
      SessionType, chain, session
<1>7. CASE LaunchFails(c)
  BY <1>7, TerminateType, TurnsOfChild
  DEF LaunchFails, Await, StepState, TypeOK, ChainType, CallType, ChildType,
      SessionType, chain, session
<1>8. CASE LaunchContinues(c)
  <2>1. request' = [request EXCEPT ![c] = Launch(c)]
    BY <1>8, TurnsOfChild DEF LaunchContinues, sendRpc
  <2> QED
    BY <1>8, <2>1, TurnsOfChild
    DEF LaunchContinues, Await, StepState, TypeOK, ChainType, CallType, ChildType,
        SessionType, chain, session
<1> QED
  BY <1>1, <1>2, <1>3, <1>4, <1>5, <1>6, <1>7, <1>8

(* The steps of a launch that move its turns.                              *)
LEMMA LaunchStepsType ==
  ASSUME TypeOK, NEW c \in Child,
         \/ subagent_start(c) \/ launch(c) \/ FilesFail(c) \/ startRuntime(c)
         \/ Launched(c) \/ LaunchFailed(c) \/ LaunchEnds(c)
  PROVE  TypeOK'
<1>0. /\ ChainType /\ CallType /\ ChildType /\ SessionType
      /\ step \in [Turn -> StepState] /\ start \in [Child -> StartState]
      /\ Reservation(c) \in Turn /\ Launch(c) \in Turn
      /\ Launches \in Queue /\ c \in Queue
  BY TurnsOfChild DEF TypeOK, Queue
<1>1. CASE subagent_start(c)
  <2>1. ChainType'
    BY <1>0, <1>1, EnterEffect DEF subagent_start, TurnState
  <2> QED
    BY <1>0, <1>1, <2>1
    DEF subagent_start, Starting, StartState, TypeOK, CallType, ChildType,
        SessionType, child, session
<1>2. CASE launch(c)
  <2>1. ChainType' /\ step' \in [Turn -> StepState]
    BY <1>0, <1>2, ReleaseEffect, BeginEffect DEF launch, StepState
  <2>2. start' \in [Child -> StartState]
    BY <1>0, <1>2 DEF launch, Starting, StartState
  <2> QED
    BY <1>0, <1>2, <2>1, <2>2
    DEF launch, TypeOK, CallType, ChildType, SessionType, child, session
<1>3. CASE FilesFail(c)
  <2>1. ChainType'
    BY <1>0, <1>3, ReleaseEffect DEF FilesFail
  <2> QED
    BY <1>0, <1>3, <2>1
    DEF FilesFail, Await, StepState, Starting, StartState, TypeOK, CallType,
        ChildType, SessionType, child, session
<1>4. CASE startRuntime(c)
  <2>1. ChainType'
    BY <1>0, <1>4, EnterEffect DEF startRuntime, TurnState
  <2>2. step' \in [Turn -> StepState]
    BY <1>0, <1>4 DEF startRuntime, StepState
  <2>3. ChildType'
    BY <1>0, <1>4 DEF startRuntime, ChildType
  <2>4. SessionType'
    BY <1>0, <1>4 DEF startRuntime, SessionType, session
  <2> QED
    BY <1>0, <1>4, <2>1, <2>2, <2>3, <2>4 DEF startRuntime, TypeOK, CallType
<1>5. CASE Launched(c) \/ LaunchFailed(c)
  <2>1. ChainType' /\ step' \in [Turn -> StepState]
    BY <1>0, <1>5, SettleEffect DEF Launched, LaunchFailed
  <2> QED
    BY <1>0, <1>5, <2>1
    DEF Launched, LaunchFailed, Starting, StartState, TypeOK, CallType, ChildType,
        SessionType, child, session
<1>6. CASE LaunchEnds(c)
  <2>1. ChainType'
    BY <1>0, <1>6, ReleaseEffect DEF LaunchEnds
  <2> QED
    BY <1>0, <1>6, <2>1
    DEF LaunchEnds, TypeOK, CallType, ChildType, SessionType, child, session
<1> QED
  BY <1>1, <1>2, <1>3, <1>4, <1>5, <1>6

(* The steps of a call, and those of any turn.                             *)
LEMMA TurnStepsType ==
  ASSUME TypeOK,
         \/ \E k \in Call :
              \/ \E what \in {"send", "remove"}, c \in Child :
                   withChildOperation(k, what, c)
              \/ SendBegins(k) \/ RemoveBegins(k) \/ CallEnds(k)
         \/ \E c \in Child : KillBegins(c) \/ KillEnds(c)
         \/ \E t \in Turn : GiveUp(t) \/ CanceledTurnPasses(t) \/ TurnReleased(t)
  PROVE  TypeOK'
<1>0. /\ ChainType /\ CallType /\ ChildType /\ SessionType
      /\ step \in [Turn -> StepState] /\ start \in [Child -> StartState]
  BY DEF TypeOK
<1>1. ASSUME NEW k \in Call, NEW what \in {"send", "remove"}, NEW c \in Child,
             withChildOperation(k, what, c)
      PROVE  TypeOK'
  <2>1. c \in Queue /\ CallTurn(k) \in Turn
    BY TurnsOfCall DEF Queue
  <2>2. ChainType'
    BY <1>0, <1>1, <2>1, EnterEffect DEF withChildOperation, TurnState
  <2>3. CallType'
    BY <1>0, <1>1, <2>1 DEF withChildOperation, CallType
  <2> QED
    BY <1>0, <1>1, <2>2, <2>3
    DEF withChildOperation, TypeOK, ChildType, SessionType, child, session
<1>2. ASSUME NEW k \in Call, SendBegins(k)
      PROVE  TypeOK'
  <2>1. CallTurn(k) \in Turn
    BY TurnsOfCall
  <2>2. ChainType' /\ step' \in [Turn -> StepState]
    BY <1>0, <1>2, <2>1, BeginEffect, SettleEffect DEF SendBegins, StepState
  <2>3. request' \in [Child -> Turn \union {NoTurn}]
    BY <1>0, <1>2, <2>1 DEF SendBegins, sendRpc, ChildType
  <2> QED
    BY <1>0, <1>2, <2>2, <2>3
    DEF SendBegins, TypeOK, CallType, ChildType, SessionType, session
<1>3. ASSUME NEW k \in Call, RemoveBegins(k)
      PROVE  TypeOK'
  <2>1. CallTurn(k) \in Turn
    BY TurnsOfCall
  <2>2. ChainType' /\ step' \in [Turn -> StepState]
    BY <1>0, <1>3, <2>1, BeginEffect, SettleEffect DEF RemoveBegins, StepState
  <2>3. termination' \in [Child -> {"none", "running", "done"}]
    BY <1>0, <1>3 DEF RemoveBegins, terminate, ChildType
  <2> QED
    BY <1>0, <1>3, <2>2, <2>3
    DEF RemoveBegins, TypeOK, CallType, ChildType, SessionType, session
<1>4. ASSUME NEW k \in Call, CallEnds(k)
      PROVE  TypeOK'
  <2>1. ChainType' /\ step' \in [Turn -> StepState]
    BY <1>0, <1>4, TurnsOfCall, SettleEffect DEF CallEnds
  <2> QED
    BY <1>0, <1>4, <2>1
    DEF CallEnds, TypeOK, CallType, ChildType, SessionType, child, session
<1>5. ASSUME NEW c \in Child, KillBegins(c)
      PROVE  TypeOK'
  <2>1. Kill(c) \in Turn
    BY TurnsOfChild
  <2>2. ChainType' /\ step' \in [Turn -> StepState]
    BY <1>0, <1>5, <2>1, BeginEffect, SettleEffect DEF KillBegins, StepState
  <2>3. termination' \in [Child -> {"none", "running", "done"}]
    BY <1>0, <1>5, TerminateType DEF KillBegins
  <2> QED
    BY <1>0, <1>5, <2>2, <2>3
    DEF KillBegins, TypeOK, CallType, ChildType, SessionType, session
<1>6. ASSUME NEW c \in Child, KillEnds(c)
      PROVE  TypeOK'
  <2>1. ChainType' /\ step' \in [Turn -> StepState]
    BY <1>0, <1>6, TurnsOfChild, SettleEffect DEF KillEnds
  <2> QED
    BY <1>0, <1>6, <2>1
    DEF KillEnds, TypeOK, CallType, ChildType, SessionType, child, session
<1>7. ASSUME NEW t \in Turn, GiveUp(t)
      PROVE  TypeOK'
  <2>1. ChainType'
    BY <1>0, <1>7, CancelEffect DEF GiveUp
  <2> QED
    BY <1>0, <1>7, <2>1
    DEF GiveUp, StartState, TypeOK, CallType, ChildType, SessionType, child, session
<1>8. ASSUME NEW t \in Turn, CanceledTurnPasses(t) \/ TurnReleased(t)
      PROVE  TypeOK'
  <2>1. ChainType'
    BY <1>0, <1>8, ReleaseEffect DEF CanceledTurnPasses, TurnReleased
  <2>2. call' = CallAfter(t)
    BY <1>8 DEF CanceledTurnPasses, TurnReleased
  <2>3. CallType'
    BY <1>0, <2>2 DEF CallType, CallAfter, NoCall, Queue
  <2> QED
    BY <1>0, <1>8, <2>1, <2>3
    DEF CanceledTurnPasses, TurnReleased, TypeOK, ChildType, SessionType, child,
        session
<1> QED
  BY <1>1, <1>2, <1>3, <1>4, <1>5, <1>6, <1>7, <1>8

SessionStep ==
  \/ clearFinished \/ killAllCommand \/ session_shutdown
  \/ StoppedInTime \/ DeadlinePasses \/ ForcedLive \/ ShutdownEnds

(* The steps of the session keep the types.                                *)
LEMMA SessionStepsType ==
  ASSUME TypeOK, SessionStep
  PROVE  TypeOK'
<1>0. /\ ChainType /\ CallType /\ ChildType /\ SessionType
      /\ step \in [Turn -> StepState] /\ start \in [Child -> StartState]
  BY DEF TypeOK
<1>1. Active \subseteq Child /\ Live \subseteq Child
  BY <1>0 DEF Active, Live, SessionType
<1>2. CASE clearFinished \/ ShutdownEnds
  BY <1>0, <1>1, <1>2
  DEF clearFinished, ShutdownEnds, PhaseState, TypeOK, ChainType, CallType,
      ChildType, SessionType, chain, child, session
<1>3. ASSUME NEW next \in {"killing", "stopping"}, terminateActive(next)
      PROVE  TypeOK'
  <2> DEFINE killed == {Kill(c) : c \in {d \in Active : ~QueueFull(d)}}
             queue == [t \in killed |-> t[2]]
  <2>1. Enter(queue, "waiting")
    BY <1>3 DEF terminateActive
  <2>2. /\ DOMAIN queue \subseteq Turn
        /\ \A t \in DOMAIN queue : queue[t] \in Queue
    BY <1>1, TurnsOfChild DEF Queue
  <2> HIDE DEF queue
  <2>3. ChainType'
    BY <1>0, <2>1, <2>2, EnterEffect DEF TurnState
  <2> QED
    BY <1>0, <1>3, <2>3
    DEF terminateActive, PhaseState, TypeOK, CallType, ChildType, SessionType, child
<1>4. CASE StoppedInTime \/ DeadlinePasses \/ ForcedLive
  BY <1>0, <1>1, <1>4
  DEF StoppedInTime, DeadlinePasses, ForcedLive, PhaseGoes, RuntimesToForce,
      PhaseState, TypeOK, ChainType, CallType, ChildType, SessionType, chain, child
<1> QED
  BY <1>2, <1>3, <1>4 DEF SessionStep, killAllCommand, session_shutdown

-----------------------------------------------------------------------------
(* Launches.                                                               *)

(***************************************************************************)
(* Where the start of a child can be: before the spawn only its            *)
(* reservation moves, after it only the launch; a start that fails or is   *)
(* aborted has its child terminated first, and a termination that ended    *)
(* left no process.                                                        *)
(***************************************************************************)
ChildOK(c) ==
  /\ turn[Reservation(c)] = "waiting" \/ step[Reservation(c)] = "files"
       => proc[c] = "none"
  /\ step[Reservation(c)] \in {"none", "files"}
  /\ step[Reservation(c)] = "files" => turn[Reservation(c)] = "running"
  /\ turn[Reservation(c)] = "running" =>
       step[Reservation(c)] = "files" \/ turn[Launch(c)] # "none"
  /\ turn[Reservation(c)] \notin {"afterTermination", "afterRequest"}
  /\ step[Launch(c)] \in {"none", "get_state", "prompt", "terminate"}
  /\ step[Launch(c)] # "none" <=> turn[Launch(c)] = "running"
  /\ proc[c] = "none" <=> turn[Launch(c)] = "none"
  /\ start[c] = "idle" => turn[Reservation(c)] = "none" /\ proc[c] = "none"
  /\ start[c] \in {"serializing", "terminating"} => proc[c] # "none"
  /\ start[c] = "failed" => /\ proc[c] # "live"
                            /\ turn[Reservation(c)] # "waiting"
                            /\ step[Reservation(c)] # "files"
  /\ proc[c] = "none" => termination[c] = "none" /\ c \notin tracked
  /\ termination[c] = "done" => proc[c] # "live"
  /\ step[Launch(c)] = "terminate" \/ start[c] = "terminating"
       => termination[c] # "none" \/ proc[c] # "live"

Held == {c \in Child : turn[Reservation(c)] = "running"}

(* The limit, as a launch sees it: a child counts from its reservation on. *)
LimitKept == Cardinality(Active \union Held) <= MAX_ACTIVE_CHILDREN

(* What can still reach a live child: its handle, or a sweep under way.    *)
Reached ==
  /\ sweep \subseteq Live
  /\ phase \in {"forceAll", "down"} => Live \subseteq sweep \union late
  /\ phase = "down" => sweep = {}
  /\ Live \subseteq tracked \union late

LaunchInvariant ==
  /\ TypeOK
  /\ \A c \in Child : ChildOK(c)
  /\ LimitKept
  /\ Reached

(* A step that does not get the start of this child on: a process may      *)
(* close, a termination go on, a turn that ended be left.                  *)
Quiet(c) ==
  /\ step'[Reservation(c)] = step[Reservation(c)]
  /\ step'[Launch(c)] = step[Launch(c)]
  /\ \/ turn'[Reservation(c)] = turn[Reservation(c)]
     \/ /\ turn[Reservation(c)] # "none" /\ step[Reservation(c)] = "none"
        /\ turn'[Reservation(c)] \in {"canceled", "released"}
  /\ \/ turn'[Launch(c)] = turn[Launch(c)]
     \/ /\ turn[Launch(c)] # "none" /\ step[Launch(c)] = "none"
        /\ turn'[Launch(c)] \notin {"none", "running"}
  /\ start'[c] = start[c]
  /\ \/ proc'[c] = proc[c]
     \/ proc[c] = "live" /\ proc'[c] = "closed"
  /\ \/ termination'[c] = termination[c]
     \/ termination[c] = "none" /\ termination'[c] = "running" /\ proc[c] = "live"
     \/ termination[c] = "running" /\ termination'[c] = "done" /\ proc'[c] = "closed"
  /\ c \in tracked' => c \in tracked

(* A step that is quiet for a child activates, holds and spawns nothing of it. *)
LEMMA QuietKeeps ==
  ASSUME NEW c \in Child, ChildOK(c), Quiet(c)
  PROVE  /\ ChildOK(c)'
         /\ c \in Active' => c \in Active
         /\ c \in Held' => c \in Held
         /\ c \in Live' => c \in Live
BY DEF ChildOK, Quiet, Active, active, Held, Live

(* Turns of different kinds or owners differ.                              *)
LEMMA TurnsDiffer ==
  ASSUME NEW c \in Child, NEW d \in Child, NEW k \in Call
  PROVE  /\ Reservation(c) # Launch(d) /\ Reservation(c) # Kill(d)
         /\ Launch(c) # Kill(d)
         /\ CallTurn(k) # Reservation(c) /\ CallTurn(k) # Launch(c)
         /\ CallTurn(k) # Kill(c)
         /\ c # d => /\ Reservation(c) # Reservation(d)
                     /\ Launch(c) # Launch(d) /\ Kill(c) # Kill(d)
BY DEF Reservation, Launch, Kill, CallTurn

(* The set that the limit counts only shrinks.                             *)
LEMMA FewerKeepLimit ==
  ASSUME TypeOK, TypeOK', LimitKept,
         Active' \union Held' \subseteq Active \union Held
  PROVE  LimitKept'
<1>1. IsFiniteSet(Active \union Held)
  <2>1. Active \union Held \subseteq Child
    BY DEF Active, Held, TypeOK, SessionType
  <2> QED
    BY <2>1, OperationsAssumption, FS_Subset
<1>2. Cardinality(Active' \union Held') <= Cardinality(Active \union Held)
  BY <1>1, FS_Subset
<1>3. /\ Cardinality(Active' \union Held') \in Nat
      /\ Cardinality(Active \union Held) \in Nat
  BY <1>1, FS_Subset, FS_CardinalityType
<1>4. (Active \union Held)' = Active' \union Held'
  OBVIOUS
<1> QED
  BY <1>2, <1>3, <1>4, OperationsAssumption DEF LimitKept

(* Steps that are quiet for every child, whatever they do to the session.  *)
LEMMA AllQuiet ==
  ASSUME LaunchInvariant, TypeOK',
         \A c \in Child : Quiet(c)
  PROVE  /\ \A c \in Child : ChildOK(c)'
         /\ LimitKept'
         /\ Live' \subseteq Live
<1>1. \A c \in Child :
        /\ ChildOK(c)'
        /\ c \in Active' => c \in Active
        /\ c \in Held' => c \in Held
        /\ c \in Live' => c \in Live
  BY QuietKeeps DEF LaunchInvariant
<1>2. Active' \subseteq Child /\ Held' \subseteq Child /\ Live' \subseteq Child
  BY DEF Active, Held, Live, TypeOK, SessionType
<1>3. Active' \union Held' \subseteq Active \union Held
  BY <1>1, <1>2
<1> QED
  BY <1>1, <1>2, <1>3, FewerKeepLimit DEF LaunchInvariant

(* ... and those that leave the session alone but for its sweep.           *)
LEMMA AllQuietKeeps ==
  ASSUME LaunchInvariant, TypeOK',
         \A c \in Child : Quiet(c),
         UNCHANGED <<tracked, phase, late>>,
         \/ sweep' = sweep /\ proc' = proc
         \/ \E cs \in SUBSET Child : Close(cs)
  PROVE  LaunchInvariant'
<1>1. /\ \A c \in Child : ChildOK(c)'
      /\ LimitKept'
      /\ Live' \subseteq Live
  BY AllQuiet
<1>2. CASE sweep' = sweep /\ proc' = proc
  <2>1. Live' = Live
    BY <1>2 DEF Live, active
  <2> QED
    BY <1>1, <1>2, <2>1 DEF LaunchInvariant, Reached
<1>3. ASSUME NEW cs \in SUBSET Child, Close(cs)
      PROVE  LaunchInvariant'
  <2>1. sweep' = sweep \ cs
    BY <1>3 DEF Close
  <2>2. Live' = Live \ cs
    BY <1>3 DEF Close, Live, active
  <2> QED
    BY <1>1, <2>1, <2>2 DEF LaunchInvariant, Reached
<1> QED
  BY <1>2, <1>3

(* Whatever is not the start of a child is quiet for it.                   *)
LEMMA ChildStepsQuiet ==
  ASSUME LaunchInvariant, TypeOK', NEW c \in Child,
         \/ TerminationEnds(c) \/ ProcessCloses(c) \/ RequestSettles(c)
         \/ forceCleanupRuntime(c)
  PROVE  LaunchInvariant'
<1>1. UNCHANGED <<chain, step, start, tracked, phase, late>>
  BY DEF TerminationEnds, ProcessCloses, RequestSettles, forceCleanupRuntime, session
<1>2. \/ sweep' = sweep /\ proc' = proc
      \/ Close({c})
  BY DEF TerminationEnds, ProcessCloses, RequestSettles, forceCleanupRuntime, session
<1>3. ASSUME NEW d \in Child
      PROVE  Quiet(d)
  <2>1. \/ proc'[d] = proc[d]
        \/ proc[d] = "live" /\ proc'[d] = "closed"
    <3>1. CASE TerminationEnds(c)
      BY <3>1 DEF TerminationEnds, Close, LaunchInvariant, ChildOK, TypeOK, ChildType
    <3>2. CASE ProcessCloses(c)
      BY <3>2 DEF ProcessCloses, Close, active
    <3>3. CASE RequestSettles(c)
      BY <3>3 DEF RequestSettles
    <3>4. CASE forceCleanupRuntime(c)
      BY <3>4
      DEF forceCleanupRuntime, Close, LaunchInvariant, Reached, Live, active
    <3> QED
      BY <3>1, <3>2, <3>3, <3>4
  <2>2. \/ termination'[d] = termination[d]
        \/ termination[d] = "running" /\ termination'[d] = "done"
                                      /\ proc'[d] = "closed"
    <3>1. CASE TerminationEnds(c)
      <4>1. /\ termination[c] = "running"
            /\ termination' = [termination EXCEPT ![c] = "done"]
            /\ proc'[c] = "closed"
        BY <3>1 DEF TerminationEnds, Close
      <4>2. termination \in [Child -> {"none", "running", "done"}]
        BY DEF LaunchInvariant, TypeOK, ChildType
      <4> QED
        BY <4>1, <4>2
    <3>2. CASE ~TerminationEnds(c)
      BY <3>2 DEF ProcessCloses, RequestSettles, forceCleanupRuntime
    <3> QED
      BY <3>1, <3>2
  <2> QED
    BY <1>1, <2>1, <2>2 DEF Quiet, chain
<1> QED
  BY <1>1, <1>2, <1>3, AllQuietKeeps

(* The turns of calls and kills, in whatever state.                        *)
LEMMA OtherTurnsQuiet ==
  ASSUME TypeOK, NEW t \in Turn,
         \A c \in Child : t # Reservation(c) /\ t # Launch(c),
         \A u \in Turn : u # t => turn'[u] = turn[u] /\ step'[u] = step[u],
         UNCHANGED <<start, proc, tracked>>,
         \/ UNCHANGED termination
         \/ \E q \in Queue : terminate(q)
  PROVE  \A c \in Child : Quiet(c)
<1> SUFFICES ASSUME NEW c \in Child
             PROVE  Quiet(c)
  OBVIOUS
<1>1. /\ turn'[Reservation(c)] = turn[Reservation(c)]
      /\ step'[Reservation(c)] = step[Reservation(c)]
      /\ turn'[Launch(c)] = turn[Launch(c)]
      /\ step'[Launch(c)] = step[Launch(c)]
  BY TurnsOfChild
<1>2. \/ termination'[c] = termination[c]
      \/ termination[c] = "none" /\ termination'[c] = "running" /\ proc[c] = "live"
  <2>1. CASE UNCHANGED termination
    BY <2>1
  <2>2. ASSUME NEW q \in Queue, terminate(q)
        PROVE  <1>2!1 \/ <1>2!2
    <3>1. termination \in [Child -> {"none", "running", "done"}]
      BY DEF TypeOK, ChildType
    <3>2. \/ termination' = termination
          \/ /\ proc[q] = "live" /\ termination[q] = "none"
             /\ termination' = [termination EXCEPT ![q] = "running"]
      BY <2>2 DEF terminate, active
    <3> QED
      BY <3>1, <3>2
  <2> QED
    BY <2>1, <2>2
<1> QED
  BY <1>1, <1>2 DEF Quiet

(* Tool calls launch nothing.                                              *)
LEMMA CallStepsKeep ==
  ASSUME LaunchInvariant, TypeOK', NEW k \in Call,
         \/ \E what \in {"send", "remove"}, c \in Child :
              withChildOperation(k, what, c)
         \/ SendBegins(k) \/ RemoveBegins(k) \/ CallEnds(k)
  PROVE  LaunchInvariant'
<1>0. /\ CallTurn(k) \in Turn
      /\ \A c \in Child : CallTurn(k) # Reservation(c) /\ CallTurn(k) # Launch(c)
      /\ TypeOK /\ ChainType /\ CallType /\ step \in [Turn -> StepState]
  BY TurnsOfCall, TurnsDiffer DEF LaunchInvariant, TypeOK
<1>1. UNCHANGED <<start, proc, tracked, phase, sweep, late>>
  BY DEF withChildOperation, SendBegins, RemoveBegins, CallEnds, child, session
<1>2. \/ UNCHANGED termination
      \/ \E q \in Queue : terminate(q)
  BY <1>0 DEF withChildOperation, SendBegins, RemoveBegins, CallEnds, child, CallType
<1>3. \A u \in Turn : u # CallTurn(k) => turn'[u] = turn[u] /\ step'[u] = step[u]
  <2>1. ASSUME NEW what \in {"send", "remove"}, NEW c \in Child,
               withChildOperation(k, what, c)
        PROVE  <1>3
    BY <1>0, <2>1, EnterEffect DEF withChildOperation, TurnState, Queue
  <2>2. CASE SendBegins(k)
    BY <1>0, <2>2, BeginEffect, SettleEffect DEF SendBegins, StepState
  <2>3. CASE RemoveBegins(k)
    BY <1>0, <2>3, BeginEffect, SettleEffect DEF RemoveBegins, StepState
  <2>4. CASE CallEnds(k)
    BY <1>0, <2>4, SettleEffect DEF CallEnds
  <2> QED
    BY <2>1, <2>2, <2>3, <2>4
<1>4. \A c \in Child : Quiet(c)
  BY <1>0, <1>1, <1>2, <1>3, OtherTurnsQuiet
<1> QED
  BY <1>1, <1>4, AllQuietKeeps

(* Kills launch nothing.                                                   *)
LEMMA KillStepsKeep ==
  ASSUME LaunchInvariant, TypeOK', NEW c \in Child, KillBegins(c) \/ KillEnds(c)
  PROVE  LaunchInvariant'
<1>0. /\ Kill(c) \in Turn /\ c \in Queue
      /\ \A d \in Child : Kill(c) # Reservation(d) /\ Kill(c) # Launch(d)
      /\ TypeOK /\ ChainType /\ step \in [Turn -> StepState]
  BY TurnsOfChild, TurnsDiffer DEF LaunchInvariant, TypeOK, Queue
<1>1. UNCHANGED <<start, proc, tracked, phase, sweep, late>>
  BY DEF KillBegins, KillEnds, child, session
<1>2. UNCHANGED termination \/ terminate(c)
  BY DEF KillBegins, KillEnds, child
<1>3. \A u \in Turn : u # Kill(c) => turn'[u] = turn[u] /\ step'[u] = step[u]
  BY <1>0, BeginEffect, SettleEffect DEF KillBegins, KillEnds, StepState
<1>4. \A d \in Child : Quiet(d)
  BY <1>0, <1>1, <1>2, <1>3, OtherTurnsQuiet
<1> QED
  BY <1>1, <1>4, AllQuietKeeps

(* A canceled turn that passes, or an ended one that is released.          *)
LEMMA PassingKeeps ==
  ASSUME LaunchInvariant, TypeOK', NEW t \in Turn,
         CanceledTurnPasses(t) \/ TurnReleased(t)
  PROVE  LaunchInvariant'
<1>0. TypeOK /\ ChainType /\ CallType
  BY DEF LaunchInvariant, TypeOK
<1>1. UNCHANGED <<step, start, proc, termination, tracked, phase, sweep, late>>
  BY DEF CanceledTurnPasses, TurnReleased, child, session
<1>2. /\ Release(t)
      /\ turn[t] \in {"canceled", "afterTermination", "afterRequest"}
  BY DEF CanceledTurnPasses, TurnReleased
<1>3. /\ \A u \in Turn : u # t => turn'[u] = turn[u]
      /\ turn'[t] = IF t[1] = "call" THEN "none" ELSE "released"
  BY <1>0, <1>2, ReleaseEffect
<1>4. ASSUME NEW c \in Child
      PROVE  Quiet(c)
  <2>1. ChildOK(c)
    BY DEF LaunchInvariant
  <2>2. \/ turn'[Reservation(c)] = turn[Reservation(c)]
        \/ /\ turn[Reservation(c)] # "none" /\ step[Reservation(c)] = "none"
           /\ turn'[Reservation(c)] = "released"
    <3>1. CASE t = Reservation(c)
      BY <1>2, <1>3, <2>1, <3>1, TurnsOfChild DEF ChildOK
    <3>2. CASE t # Reservation(c)
      BY <1>3, <3>2, TurnsOfChild
    <3> QED
      BY <3>1, <3>2
  <2>3. \/ turn'[Launch(c)] = turn[Launch(c)]
        \/ /\ turn[Launch(c)] # "none" /\ step[Launch(c)] = "none"
           /\ turn'[Launch(c)] = "released"
    <3>1. CASE t = Launch(c)
      BY <1>2, <1>3, <2>1, <3>1, TurnsOfChild DEF ChildOK
    <3>2. CASE t # Launch(c)
      BY <1>3, <3>2, TurnsOfChild
    <3> QED
      BY <3>1, <3>2
  <2> QED
    BY <1>1, <2>2, <2>3 DEF Quiet
<1> QED
  BY <1>1, <1>4, AllQuietKeeps

(* A waiter that gives up; that of a reservation fails its start.          *)
LEMMA GiveUpKeeps ==
  ASSUME LaunchInvariant, TypeOK', NEW t \in Turn, GiveUp(t)
  PROVE  LaunchInvariant'
<1>0. TypeOK /\ ChainType /\ start \in [Child -> StartState]
  BY DEF LaunchInvariant, TypeOK
<1>1. UNCHANGED <<step, proc, termination, tracked, phase, sweep, late>>
  BY DEF GiveUp, child, session
<1>2. /\ turn[t] = "waiting" /\ turn'[t] = "canceled"
      /\ \A u \in Turn : u # t => turn'[u] = turn[u]
  BY <1>0, CancelEffect DEF GiveUp
<1>3. /\ Active' = Active /\ Live' = Live
      /\ Held' \subseteq Held
  <2>1. Active' = Active /\ Live' = Live
    BY <1>1 DEF Active, Live, active
  <2>2. ASSUME NEW c \in Child, turn'[Reservation(c)] = "running"
        PROVE  turn[Reservation(c)] = "running"
    BY <1>2, <2>2, TurnsOfChild
  <2> QED
    BY <2>1, <2>2 DEF Held
<1>4. ASSUME NEW c \in Child
      PROVE  ChildOK(c)'
  <2>1. ChildOK(c)
    BY DEF LaunchInvariant
  <2>2. CASE t = Reservation(c)
    <3>1. start'[c] = "failed"
      BY <1>0, <2>2, TurnsOfChild DEF GiveUp
    <3>2. turn'[Launch(c)] = turn[Launch(c)]
      BY <1>2, <2>2, TurnsOfChild, TurnsDiffer
    <3> QED
      BY <1>1, <1>2, <2>1, <2>2, <3>1, <3>2 DEF ChildOK
  <2>3. CASE t # Reservation(c)
    <3>1. turn'[Reservation(c)] = turn[Reservation(c)]
      BY <1>2, <2>3, TurnsOfChild
    <3>2. \/ turn'[Launch(c)] = turn[Launch(c)]
          \/ turn[Launch(c)] = "waiting" /\ turn'[Launch(c)] = "canceled"
      BY <1>2, TurnsOfChild
    <3>3. start'[c] = start[c]
      <4>1. t[1] = "reservation" => t[2] # c
        BY <2>3 DEF Turn, ChildTurn, Reservation
      <4> QED
        BY <1>0, <4>1 DEF GiveUp
    <3> QED
      BY <1>1, <2>1, <3>1, <3>2, <3>3 DEF ChildOK
  <2> QED
    BY <2>2, <2>3
<1>5. LimitKept'
  BY <1>0, <1>3, FewerKeepLimit DEF LaunchInvariant
<1>6. Reached'
  BY <1>1, <1>3 DEF LaunchInvariant, Reached
<1> QED
  BY <1>4, <1>5, <1>6 DEF LaunchInvariant

(* The steps of a start are quiet for every other child.                   *)
LEMMA OthersQuiet ==
  ASSUME NEW c \in Child,
         \A u \in Turn : u # Reservation(c) /\ u # Launch(c) =>
           turn'[u] = turn[u] /\ step'[u] = step[u],
         \A d \in Child : d # c =>
           /\ start'[d] = start[d] /\ proc'[d] = proc[d]
           /\ termination'[d] = termination[d]
           /\ d \in tracked' => d \in tracked
  PROVE  \A d \in Child : d # c => Quiet(d)
<1> SUFFICES ASSUME NEW d \in Child, d # c
             PROVE  Quiet(d)
  OBVIOUS
<1>1. /\ turn'[Reservation(d)] = turn[Reservation(d)]
      /\ step'[Reservation(d)] = step[Reservation(d)]
      /\ turn'[Launch(d)] = turn[Launch(d)]
      /\ step'[Launch(d)] = step[Launch(d)]
  <2>1. /\ Reservation(d) # Reservation(c) /\ Reservation(d) # Launch(c)
        /\ Launch(d) # Reservation(c) /\ Launch(d) # Launch(c)
    BY DEF Reservation, Launch
  <2> QED
    BY <2>1, TurnsOfChild
<1> QED
  BY <1>1 DEF Quiet

(* A step of one start, which keeps what the limit counts.                 *)
LEMMA StartStepKeeps ==
  ASSUME LaunchInvariant, TypeOK', NEW c \in Child,
         \A d \in Child : d # c => Quiet(d),
         ChildOK(c)',
         c \in Active' => c \in Active \/ c \in Held,
         c \in Held' => c \in Held
  PROVE  (\A d \in Child : ChildOK(d)') /\ LimitKept'
<1>1. ASSUME NEW d \in Child
      PROVE  /\ ChildOK(d)'
             /\ d \in Active' \/ d \in Held' => d \in Active \/ d \in Held
  BY QuietKeeps DEF LaunchInvariant
<1>2. Active' \union Held' \subseteq Child
  BY DEF Active, Held, TypeOK, SessionType
<1>3. Active' \union Held' \subseteq Active \union Held
  BY <1>1, <1>2
<1> QED
  BY <1>1, <1>3, FewerKeepLimit DEF LaunchInvariant

(* ... and, if it spawns no child and forgets none, what reaches them.     *)
LEMMA PlainStartStepKeeps ==
  ASSUME LaunchInvariant, TypeOK', NEW c \in Child,
         \A d \in Child : d # c => Quiet(d),
         ChildOK(c)',
         c \in Held' => c \in Held,
         UNCHANGED <<proc, tracked, phase, sweep, late>>
  PROVE  LaunchInvariant'
<1>1. Active' = Active /\ Live' = Live
  BY DEF Active, Live, active
<1>2. (\A d \in Child : ChildOK(d)') /\ LimitKept'
  BY <1>1, StartStepKeeps
<1> QED
  BY <1>1, <1>2 DEF LaunchInvariant, Reached

(* The call takes its turn among the reservations.                         *)
LEMMA subagent_startKeeps ==
  ASSUME LaunchInvariant, TypeOK', NEW c \in Child, subagent_start(c)
  PROVE  LaunchInvariant'
<1>0. /\ TypeOK /\ ChainType /\ start \in [Child -> StartState] /\ ChildOK(c)
      /\ Reservation(c) \in Turn /\ Launch(c) \in Turn
      /\ Reservation(c) # Launch(c)
  BY TurnsOfChild DEF LaunchInvariant, TypeOK, Reservation, Launch
<1>1. /\ UNCHANGED <<step, proc, termination, tracked, phase, sweep, late>>
      /\ start[c] = "idle" /\ start'[c] = "pending"
      /\ \A d \in Child : d # c => start'[d] = start[d]
  BY <1>0 DEF subagent_start, Starting, child, session
<1>2. /\ turn'[Reservation(c)] = "waiting"
      /\ \A u \in Turn : u # Reservation(c) => turn'[u] = turn[u]
  BY <1>0, EnterEffect DEF subagent_start, TurnState, Queue
<1>3. \A d \in Child : d # c => Quiet(d)
  BY <1>1, <1>2, OthersQuiet
<1>4. ChildOK(c)'
  BY <1>0, <1>1, <1>2 DEF ChildOK
<1>5. c \notin Held'
  BY <1>2 DEF Held
<1> QED
  BY <1>1, <1>3, <1>4, <1>5, PlainStartStepKeeps

(* The reservation: within the limit a child is held, or the call fails.   *)
LEMMA launchKeeps ==
  ASSUME LaunchInvariant, TypeOK', NEW c \in Child, launch(c)
  PROVE  LaunchInvariant'
<1>0. /\ TypeOK /\ ChainType /\ CallType /\ start \in [Child -> StartState]
      /\ step \in [Turn -> StepState] /\ ChildOK(c)
      /\ Reservation(c) \in Turn /\ Launch(c) \in Turn
      /\ Reservation(c) # Launch(c) /\ Reservation(c)[1] # "call"
  BY TurnsOfChild DEF LaunchInvariant, TypeOK, Reservation, Launch
<1>1. /\ UNCHANGED <<proc, termination, tracked, phase, sweep, late>>
      /\ turn[Reservation(c)] = "waiting"
  BY DEF launch, MayBegin, child, session
<1>2. CASE LimitReached
  <2>1. /\ Release(Reservation(c)) /\ UNCHANGED step
        /\ start'[c] = "failed"
        /\ \A d \in Child : d # c => start'[d] = start[d]
    BY <1>0, <1>2 DEF launch, Starting
  <2>2. /\ turn'[Reservation(c)] = "released"
        /\ \A u \in Turn : u # Reservation(c) => turn'[u] = turn[u]
    BY <1>0, <2>1, ReleaseEffect
  <2>3. \A d \in Child : d # c => Quiet(d)
    BY <1>1, <2>1, <2>2, OthersQuiet
  <2>4. ChildOK(c)'
    BY <1>0, <1>1, <2>1, <2>2 DEF ChildOK
  <2>5. c \notin Held'
    BY <2>2 DEF Held
  <2> QED
    BY <1>1, <2>3, <2>4, <2>5, PlainStartStepKeeps
<1>3. CASE ~LimitReached
  <2>1. Begin(Reservation(c), "files") /\ UNCHANGED start
    BY <1>3 DEF launch
  <2>2. /\ turn'[Reservation(c)] = "running" /\ step'[Reservation(c)] = "files"
        /\ \A u \in Turn : u # Reservation(c) =>
             turn'[u] = turn[u] /\ step'[u] = step[u]
    BY <1>0, <2>1, BeginEffect DEF StepState
  <2>3. \A d \in Child : d # c => Quiet(d)
    BY <1>1, <2>1, <2>2, OthersQuiet
  <2>4. ChildOK(c)'
    BY <1>0, <1>1, <2>1, <2>2 DEF ChildOK
  <2>5. Active' = Active /\ Live' = Live
    BY <1>1 DEF Active, Live, active
  <2>6. Held' = Held \union {c}
    <3>1. ASSUME NEW d \in Child, d # c
          PROVE  turn'[Reservation(d)] = turn[Reservation(d)]
      BY <2>2, <3>1, TurnsOfChild DEF Reservation
    <3> QED
      BY <2>2, <3>1 DEF Held
  <2>7. LimitKept'
    <3>1. /\ IsFiniteSet(Active) /\ IsFiniteSet(Held)
          /\ Active \subseteq Child /\ Held \subseteq Child
      <4>1. Active \subseteq Child /\ Held \subseteq Child
        BY <1>0 DEF Active, Held, TypeOK, SessionType
      <4> QED
        BY <4>1, OperationsAssumption, FS_Subset
    <3>2. Cardinality(Active) + Cardinality(Held) < MAX_ACTIVE_CHILDREN
      <4>1. /\ Cardinality(Active) \in Nat /\ Cardinality(Held) \in Nat
        BY <3>1, FS_CardinalityType
      <4>2. ~(Cardinality(Active) + Cardinality(Held) >= MAX_ACTIVE_CHILDREN)
        BY <1>3 DEF LimitReached, pendingLaunches, Held
      <4> QED
        BY <4>1, <4>2, OperationsAssumption
    <3>3. /\ IsFiniteSet(Held \union {c})
          /\ Cardinality(Held \union {c}) \in Nat
          /\ Cardinality(Held \union {c}) <= Cardinality(Held) + 1
      BY <3>1, FS_AddElement, FS_CardinalityType
    <3>4. /\ Cardinality(Active \union (Held \union {c}))
               = Cardinality(Active) + Cardinality(Held \union {c})
                 - Cardinality(Active \intersect (Held \union {c}))
          /\ IsFiniteSet(Active \intersect (Held \union {c}))
      BY <3>1, <3>3, FS_Union, FS_Intersection
    <3>5. /\ Cardinality(Active) \in Nat /\ Cardinality(Held) \in Nat
          /\ Cardinality(Active \intersect (Held \union {c})) \in Nat
      BY <3>1, <3>4, FS_CardinalityType
    <3>6. Cardinality(Active \union (Held \union {c})) <= MAX_ACTIVE_CHILDREN
      BY <3>2, <3>3, <3>4, <3>5, OperationsAssumption
    <3> QED
      BY <2>5, <2>6, <3>6 DEF LimitKept
  <2>8. \A d \in Child : ChildOK(d)'
    BY <2>3, <2>4, QuietKeeps DEF LaunchInvariant
  <2> QED
    BY <1>1, <2>5, <2>7, <2>8 DEF LaunchInvariant, Reached
<1> QED
  BY <1>2, <1>3

(* What the rest of a launch's steps start from.                           *)
LEMMA StartOfStep ==
  ASSUME LaunchInvariant, NEW c \in Child
  PROVE  /\ TypeOK /\ ChainType /\ CallType /\ ChildOK(c) /\ Reached
         /\ start \in [Child -> StartState] /\ step \in [Turn -> StepState]
         /\ proc \in [Child -> {"none", "live", "closed"}]
         /\ termination \in [Child -> {"none", "running", "done"}]
         /\ Reservation(c) \in Turn /\ Launch(c) \in Turn
         /\ Reservation(c) # Launch(c)
         /\ Reservation(c)[1] # "call" /\ Launch(c)[1] # "call"
BY TurnsOfChild
DEF LaunchInvariant, TypeOK, ChildType, Reservation, Launch

(* The end of a reservation, with its files or with its launch.            *)
LEMMA ReservationEndKeeps ==
  ASSUME LaunchInvariant, TypeOK', NEW c \in Child, FilesFail(c) \/ LaunchEnds(c)
  PROVE  LaunchInvariant'
<1>0. /\ TypeOK /\ ChainType /\ CallType /\ ChildOK(c)
      /\ start \in [Child -> StartState] /\ step \in [Turn -> StepState]
      /\ Reservation(c) \in Turn /\ Launch(c) \in Turn
      /\ Reservation(c) # Launch(c) /\ Reservation(c)[1] # "call"
  BY StartOfStep
<1>1. /\ UNCHANGED <<proc, termination, tracked, phase, sweep, late>>
      /\ Release(Reservation(c))
  BY DEF FilesFail, LaunchEnds, child, session
<1>2. /\ turn'[Reservation(c)] = "released"
      /\ \A u \in Turn : u # Reservation(c) => turn'[u] = turn[u]
  BY <1>0, <1>1, ReleaseEffect
<1>3. c \notin Held'
  BY <1>2 DEF Held
<1>4. CASE FilesFail(c)
  <2>1. /\ step[Reservation(c)] = "files" /\ step'[Reservation(c)] = "none"
        /\ \A u \in Turn : u # Reservation(c) => step'[u] = step[u]
        /\ start'[c] = "failed"
        /\ \A d \in Child : d # c => start'[d] = start[d]
    BY <1>0, <1>4 DEF FilesFail, Await, Starting
  <2>2. \A d \in Child : d # c => Quiet(d)
    BY <1>1, <1>2, <2>1, OthersQuiet
  <2>3. ChildOK(c)'
    BY <1>0, <1>1, <1>2, <2>1 DEF ChildOK
  <2> QED
    BY <1>1, <1>3, <2>2, <2>3, PlainStartStepKeeps
<1>5. CASE LaunchEnds(c)
  <2>1. /\ UNCHANGED <<step, start>>
        /\ turn[Reservation(c)] = "running" /\ turn[Launch(c)] # "none"
    BY <1>5 DEF LaunchEnds
  <2>2. \A d \in Child : d # c => Quiet(d)
    BY <1>1, <1>2, <2>1, OthersQuiet
  <2>3. ChildOK(c)'
    BY <1>0, <1>1, <1>2, <2>1 DEF ChildOK
  <2> QED
    BY <1>1, <1>3, <2>2, <2>3, PlainStartStepKeeps
<1> QED
  BY <1>4, <1>5

(* The spawn: the child was held, and is tracked from here on.             *)
LEMMA startRuntimeKeeps ==
  ASSUME LaunchInvariant, TypeOK', NEW c \in Child, startRuntime(c)
  PROVE  LaunchInvariant'
<1>0. /\ TypeOK /\ ChainType /\ ChildOK(c) /\ Reached
      /\ step \in [Turn -> StepState]
      /\ proc \in [Child -> {"none", "live", "closed"}]
      /\ termination \in [Child -> {"none", "running", "done"}]
      /\ Reservation(c) \in Turn /\ Launch(c) \in Turn
      /\ Reservation(c) # Launch(c)
  BY StartOfStep
<1>1. /\ step[Reservation(c)] = "files" /\ step'[Reservation(c)] = "none"
      /\ step'[Launch(c)] \in {"get_state", "terminate"}
      /\ \A u \in Turn : u # Reservation(c) /\ u # Launch(c) => step'[u] = step[u]
      /\ UNCHANGED <<start, phase, sweep>>
      /\ tracked' = tracked \union {c}
  BY <1>0 DEF startRuntime, session
<1>2. /\ turn'[Launch(c)] = "running"
      /\ \A u \in Turn : u # Launch(c) => turn'[u] = turn[u]
  BY <1>0, EnterEffect DEF startRuntime, TurnState, Queue
<1>3. /\ proc[c] = "none" /\ turn[Reservation(c)] = "running"
      /\ termination[c] = "none" /\ c \in Held
  BY <1>0, <1>1 DEF ChildOK, Held
<1>4. \/ /\ proc' = [proc EXCEPT ![c] = "live"]
         /\ termination' = termination
         /\ late' = IF phase \in {"forceAll", "down"} THEN late \union {c} ELSE late
         /\ step'[Launch(c)] = "get_state"
      \/ /\ proc' = [proc EXCEPT ![c] = "closed"]
         /\ termination' = [termination EXCEPT ![c] = "done"]
         /\ late' = late
  BY <1>0 DEF startRuntime
<1>5. \A d \in Child : d # c => Quiet(d)
  <2>1. \A d \in Child : d # c => /\ proc'[d] = proc[d]
                                  /\ termination'[d] = termination[d]
    BY <1>0, <1>4
  <2> QED
    BY <1>1, <1>2, <2>1, OthersQuiet
<1>6. ChildOK(c)'
  <2>1. \/ proc'[c] = "live" /\ termination'[c] = "none"
                             /\ step'[Launch(c)] = "get_state"
        \/ proc'[c] = "closed" /\ termination'[c] = "done"
    BY <1>0, <1>3, <1>4
  <2>2. start[c] \notin {"idle", "failed", "serializing", "terminating"}
    BY <1>0, <1>1, <1>3 DEF ChildOK
  <2> QED
    BY <1>0, <1>1, <1>2, <1>3, <2>1, <2>2 DEF ChildOK
<1>7. (\A d \in Child : ChildOK(d)') /\ LimitKept'
  BY <1>3, <1>5, <1>6, StartStepKeeps
<1>8. Reached'
  <2>1. CASE proc' = [proc EXCEPT ![c] = "live"]
    <3>1. Live' = Live \union {c}
      BY <1>0, <2>1 DEF Live, active
    <3>2. late' = IF phase \in {"forceAll", "down"} THEN late \union {c} ELSE late
      <4>1. proc'[c] = "live"
        BY <1>0, <2>1
      <4> QED
        BY <1>0, <1>4, <4>1
    <3> QED
      BY <1>0, <1>1, <3>1, <3>2 DEF Reached
  <2>2. CASE proc' = [proc EXCEPT ![c] = "closed"]
    <3>1. Live' = Live
      BY <1>0, <1>3, <2>2 DEF Live, active
    <3>2. late' = late
      <4>1. proc'[c] = "closed"
        BY <1>0, <2>2
      <4> QED
        BY <1>0, <1>4, <4>1
    <3> QED
      BY <1>0, <1>1, <3>1, <3>2 DEF Reached
  <2> QED
    BY <1>4, <2>1, <2>2
<1> QED
  BY <1>7, <1>8 DEF LaunchInvariant

(* The waits of a launch, and the reply of the call.                       *)
LEMMA WaitsOfStartKeep ==
  ASSUME LaunchInvariant, TypeOK', NEW c \in Child,
         \/ LaunchContinues(c) \/ LaunchFails(c) \/ Launched(c)
         \/ StartReplies(c) \/ StartAborted(c) \/ AbortedStartReplies(c)
  PROVE  LaunchInvariant'
<1>0. /\ TypeOK /\ ChainType /\ ChildOK(c)
      /\ start \in [Child -> StartState] /\ step \in [Turn -> StepState]
      /\ proc \in [Child -> {"none", "live", "closed"}]
      /\ termination \in [Child -> {"none", "running", "done"}]
      /\ Reservation(c) \in Turn /\ Launch(c) \in Turn
      /\ Reservation(c) # Launch(c)
  BY StartOfStep
<1>1. UNCHANGED <<proc, tracked, phase, sweep, late>>
  BY DEF LaunchContinues, LaunchFails, Launched, StartReplies, StartAborted,
         AbortedStartReplies, child, session
<1>2. /\ \A u \in Turn : u # Launch(c) => turn'[u] = turn[u] /\ step'[u] = step[u]
      /\ \A d \in Child : d # c => /\ start'[d] = start[d]
                                   /\ termination'[d] = termination[d]
  <2>1. CASE LaunchContinues(c)
    BY <1>0, <2>1 DEF LaunchContinues, Await, chain
  <2>2. CASE LaunchFails(c)
    BY <1>0, <2>2 DEF LaunchFails, Await, terminate, chain
  <2>3. CASE Launched(c)
    BY <1>0, <2>3, SettleEffect DEF Launched, Starting, child
  <2>4. CASE StartReplies(c) \/ AbortedStartReplies(c)
    BY <1>0, <2>4 DEF StartReplies, AbortedStartReplies, Starting, chain, child
  <2>5. CASE StartAborted(c)
    BY <1>0, <2>5 DEF StartAborted, Starting, terminate, chain
  <2> QED
    BY <2>1, <2>2, <2>3, <2>4, <2>5
<1>3. \A d \in Child : d # c => Quiet(d)
  BY <1>1, <1>2, OthersQuiet
<1>4. ChildOK(c)'
  <2>0. UNCHANGED <<turn[Reservation(c)], step[Reservation(c)]>>
    BY <1>0, <1>2
  <2>1. CASE LaunchContinues(c)
    <3>1. /\ step[Launch(c)] = "get_state" /\ step'[Launch(c)] = "prompt"
          /\ UNCHANGED <<turn, start, termination>>
      BY <1>0, <2>1 DEF LaunchContinues, Await, chain
    <3> QED
      BY <1>0, <1>1, <2>0, <3>1 DEF ChildOK
  <2>2. CASE LaunchFails(c)
    <3>1. /\ step[Launch(c)] # "none" /\ step'[Launch(c)] = "terminate"
          /\ UNCHANGED <<turn, start>>
      BY <1>0, <2>2 DEF LaunchFails, Await, chain
    <3>2. /\ termination'[c] # "none" \/ proc[c] # "live"
          /\ \/ termination'[c] = termination[c]
             \/ termination'[c] = "running" /\ proc[c] = "live"
      BY <1>0, <2>2 DEF LaunchFails, terminate, active
    <3> QED
      BY <1>0, <1>1, <2>0, <3>1, <3>2 DEF ChildOK
  <2>3. CASE Launched(c)
    <3>1. /\ step[Launch(c)] = "prompt" /\ step'[Launch(c)] = "none"
          /\ turn'[Launch(c)] \in {"afterTermination", "afterRequest"}
          /\ start'[c] = "serializing" /\ UNCHANGED termination
      BY <1>0, <2>3, SettleEffect DEF Launched, Starting, child
    <3> QED
      BY <1>0, <1>1, <2>0, <3>1 DEF ChildOK
  <2>4. CASE StartReplies(c)
    <3>1. /\ start[c] = "serializing" /\ start'[c] = "ok"
          /\ UNCHANGED <<turn, step, termination>>
      BY <1>0, <2>4 DEF StartReplies, Starting, chain, child
    <3> QED
      BY <1>0, <1>1, <3>1 DEF ChildOK
  <2>5. CASE StartAborted(c)
    <3>1. /\ start[c] = "serializing" /\ start'[c] = "terminating"
          /\ UNCHANGED <<turn, step>>
      BY <1>0, <2>5 DEF StartAborted, Starting, chain
    <3>2. /\ termination'[c] # "none" \/ proc[c] # "live"
          /\ \/ termination'[c] = termination[c]
             \/ termination'[c] = "running" /\ proc[c] = "live"
      BY <1>0, <2>5 DEF StartAborted, terminate, active
    <3> QED
      BY <1>0, <1>1, <3>1, <3>2 DEF ChildOK
  <2>6. CASE AbortedStartReplies(c)
    <3>1. /\ start[c] = "terminating" /\ start'[c] = "failed"
          /\ termination[c] # "running"
          /\ UNCHANGED <<turn, step, termination>>
      BY <1>0, <2>6
      DEF AbortedStartReplies, Starting, Terminated, chain, child
    <3> QED
      BY <1>0, <1>1, <3>1 DEF ChildOK
  <2> QED
    BY <2>1, <2>2, <2>3, <2>4, <2>5, <2>6
<1>5. c \in Held' => c \in Held
  BY <1>0, <1>2 DEF Held
<1> QED
  BY <1>1, <1>3, <1>4, <1>5, PlainStartStepKeeps

(* A failed launch forgets its child, which is terminated.                 *)
LEMMA LaunchFailedKeeps ==
  ASSUME LaunchInvariant, TypeOK', NEW c \in Child, LaunchFailed(c)
  PROVE  LaunchInvariant'
<1>0. /\ TypeOK /\ ChainType /\ ChildOK(c) /\ Reached
      /\ start \in [Child -> StartState] /\ step \in [Turn -> StepState]
      /\ proc \in [Child -> {"none", "live", "closed"}]
      /\ termination \in [Child -> {"none", "running", "done"}]
      /\ Reservation(c) \in Turn /\ Launch(c) \in Turn
      /\ Reservation(c) # Launch(c)
  BY StartOfStep
<1>1. /\ UNCHANGED <<proc, termination, phase, sweep, late>>
      /\ tracked' = tracked \ {c}
      /\ step[Launch(c)] = "terminate" /\ termination[c] # "running"
      /\ Settle(Launch(c))
      /\ start'[c] = "failed"
      /\ \A d \in Child : d # c => start'[d] = start[d]
  BY <1>0 DEF LaunchFailed, Terminated, Starting, child, session
<1>2. /\ turn'[Launch(c)] \in {"afterTermination", "afterRequest"}
      /\ step'[Launch(c)] = "none"
      /\ \A u \in Turn : u # Launch(c) => turn'[u] = turn[u] /\ step'[u] = step[u]
  BY <1>0, <1>1, SettleEffect
<1>3. proc[c] = "closed"
  BY <1>0, <1>1 DEF ChildOK
<1>4. \A d \in Child : d # c => Quiet(d)
  BY <1>1, <1>2, OthersQuiet
<1>5. ChildOK(c)'
  BY <1>0, <1>1, <1>2, <1>3 DEF ChildOK
<1>6. (\A d \in Child : ChildOK(d)') /\ LimitKept'
  <2>1. c \notin Active' /\ (c \in Held' => c \in Held)
    BY <1>0, <1>1, <1>2 DEF Active, Held
  <2> QED
    BY <1>4, <1>5, <2>1, StartStepKeeps
<1>7. Reached'
  <2>1. Live' = Live /\ c \notin Live
    BY <1>1, <1>3 DEF Live, active
  <2> QED
    BY <1>0, <1>1, <2>1 DEF Reached
<1> QED
  BY <1>6, <1>7 DEF LaunchInvariant

(* clearFinished and the commands that terminate everything.               *)
LEMMA SessionStepsKeep ==
  ASSUME LaunchInvariant, TypeOK', SessionStep
  PROVE  LaunchInvariant'
<1>0. /\ TypeOK /\ ChainType /\ Reached /\ tracked \subseteq Child
  BY DEF LaunchInvariant, TypeOK, SessionType
<1>1. UNCHANGED <<step, start, proc, termination, late>>
  BY DEF SessionStep, clearFinished, killAllCommand, session_shutdown,
         terminateActive, StoppedInTime, DeadlinePasses, ForcedLive, PhaseGoes,
         ShutdownEnds, child
<1>2. Live' = Live
  BY <1>1 DEF Live, active
<1>3. \A c \in Child : /\ turn'[Reservation(c)] = turn[Reservation(c)]
                       /\ turn'[Launch(c)] = turn[Launch(c)]
  <2>1. ASSUME NEW next, terminateActive(next)
        PROVE  <1>3
    <3> DEFINE killed == {Kill(c) : c \in {d \in Active : ~QueueFull(d)}}
               queue == [t \in killed |-> t[2]]
    <3>1. Enter(queue, "waiting")
      BY <2>1 DEF terminateActive
    <3>2. Active \subseteq Child
      BY <1>0 DEF Active
    <3>3. /\ DOMAIN queue \subseteq Turn
          /\ \A t \in DOMAIN queue : queue[t] \in Queue
      BY <3>2, TurnsOfChild DEF Queue
    <3>4. \A c \in Child : /\ Reservation(c) \notin DOMAIN queue
                           /\ Launch(c) \notin DOMAIN queue
      BY DEF Kill, Reservation, Launch
    <3> HIDE DEF queue
    <3>5. \A t \in Turn : t \notin DOMAIN queue => turn'[t] = turn[t]
      BY <1>0, <3>1, <3>3, EnterEffect DEF TurnState
    <3> QED
      BY <3>4, <3>5, TurnsOfChild
  <2>2. CASE ~\E next : terminateActive(next)
    BY <2>2
    DEF SessionStep, clearFinished, killAllCommand, session_shutdown, StoppedInTime,
        DeadlinePasses, ForcedLive, PhaseGoes, ShutdownEnds, chain
  <2> QED
    BY <2>1, <2>2
<1>4. tracked' \subseteq tracked
  BY DEF SessionStep, clearFinished, killAllCommand, session_shutdown,
         terminateActive, StoppedInTime, DeadlinePasses, ForcedLive, PhaseGoes,
         ShutdownEnds, Active
<1>5. \A c \in Child : Quiet(c)
  BY <1>1, <1>3, <1>4 DEF Quiet
<1>6. (\A c \in Child : ChildOK(c)') /\ LimitKept'
  BY <1>5, AllQuiet
<1>7. Reached'
  <2>1. Active \subseteq Live /\ Live \intersect tracked = Active
    BY <1>0 DEF Active, Live
  <2>2. CASE clearFinished
    BY <1>0, <1>1, <1>2, <2>1, <2>2 DEF clearFinished, session, Reached
  <2>3. CASE killAllCommand \/ session_shutdown
    BY <1>0, <1>1, <1>2, <2>3
    DEF killAllCommand, session_shutdown, terminateActive, Reached
  <2>4. CASE StoppedInTime \/ DeadlinePasses \/ ForcedLive
    BY <1>0, <1>1, <1>2, <2>1, <2>4
    DEF StoppedInTime, DeadlinePasses, ForcedLive, PhaseGoes, RuntimesToForce,
        Reached
  <2>5. CASE ShutdownEnds
    BY <1>0, <1>1, <1>2, <2>5 DEF ShutdownEnds, Reached
  <2> QED
    BY <2>2, <2>3, <2>4, <2>5 DEF SessionStep
<1> QED
  BY <1>6, <1>7 DEF LaunchInvariant

(* The steps of Next by their kind, as the lemmas have them.               *)
LaunchStep(c) ==
  \/ subagent_start(c) \/ launch(c) \/ FilesFail(c) \/ startRuntime(c)
  \/ Launched(c) \/ LaunchFailed(c) \/ LaunchEnds(c)

ChildStep(c) ==
  \/ TerminationEnds(c) \/ ProcessCloses(c) \/ RequestSettles(c)
  \/ forceCleanupRuntime(c) \/ StartReplies(c) \/ StartAborted(c)
  \/ AbortedStartReplies(c) \/ LaunchFails(c) \/ LaunchContinues(c)

CallStep(k) ==
  \/ \E what \in {"send", "remove"}, c \in Child : withChildOperation(k, what, c)
  \/ SendBegins(k) \/ RemoveBegins(k) \/ CallEnds(k)

(* Every step is of one of these kinds.                                    *)
LEMMA StepKinds ==
  ASSUME Next
  PROVE  \/ \E c \in Child :
              LaunchStep(c) \/ ChildStep(c) \/ KillBegins(c) \/ KillEnds(c)
         \/ \E k \in Call : CallStep(k)
         \/ \E t \in Turn : GiveUp(t) \/ CanceledTurnPasses(t) \/ TurnReleased(t)
         \/ SessionStep
BY DEF Next, LaunchStep, ChildStep, CallStep, SessionStep

(* The types hold in the beginning ...                                     *)
LEMMA InitTypeOK == Init => TypeOK
<1> SUFFICES ASSUME Init
             PROVE  TypeOK
  OBVIOUS
<1>1. ChainType
  BY DEF Init, ChainType, TurnState
<1>2. CallType
  BY DEF Init, NoCall, CallType, Queue
<1>3. ChildType /\ SessionType
  BY DEF Init, ChildType, SessionType, PhaseState
<1>4. step \in [Turn -> StepState] /\ start \in [Child -> StartState]
  BY DEF Init, StepState, StartState
<1> QED
  BY <1>1, <1>2, <1>3, <1>4 DEF TypeOK

(* ... and every step keeps them.                                          *)
LEMMA StepTypeOK == TypeOK /\ [Next]_vars => TypeOK'
<1> SUFFICES ASSUME TypeOK, [Next]_vars
             PROVE  TypeOK'
  OBVIOUS
<1>1. CASE UNCHANGED vars
  BY <1>1
  DEF vars, chain, child, session, TypeOK, ChainType, CallType, ChildType, SessionType
<1>2. ASSUME NEW c \in Child, LaunchStep(c)
      PROVE  TypeOK'
  BY <1>2, LaunchStepsType DEF LaunchStep
<1>3. ASSUME NEW c \in Child, ChildStep(c)
      PROVE  TypeOK'
  BY <1>3, ChildStepsType DEF ChildStep
<1>4. ASSUME NEW k \in Call, CallStep(k)
      PROVE  TypeOK'
  BY <1>4, TurnStepsType DEF CallStep
<1>5. ASSUME \/ \E c \in Child : KillBegins(c) \/ KillEnds(c)
             \/ \E t \in Turn :
                  GiveUp(t) \/ CanceledTurnPasses(t) \/ TurnReleased(t)
      PROVE  TypeOK'
  BY <1>5, TurnStepsType
<1>6. CASE SessionStep
  BY <1>6, SessionStepsType
<1> QED
  BY <1>1, <1>2, <1>3, <1>4, <1>5, <1>6, StepKinds

(***************************************************************************)
(* The inductive invariant of launches and of the shutdown.                *)
(***************************************************************************)
THEOREM LaunchInvariantHolds == Spec => []LaunchInvariant
<1>1. Init => LaunchInvariant
  <2> SUFFICES ASSUME Init
               PROVE  LaunchInvariant
    OBVIOUS
  <2>1. \A c \in Child : ChildOK(c)
    BY TurnsOfChild DEF Init, ChildOK
  <2>2. Active = {} /\ Held = {} /\ Live = {}
    BY TurnsOfChild DEF Init, Active, active, Held, Live
  <2>3. LimitKept
    BY <2>2, FS_EmptySet, OperationsAssumption DEF LimitKept
  <2>4. Reached
    BY <2>2 DEF Init, Reached
  <2> QED
    BY <2>1, <2>3, <2>4, InitTypeOK DEF LaunchInvariant
<1>2. LaunchInvariant /\ [Next]_vars => LaunchInvariant'
  <2> SUFFICES ASSUME LaunchInvariant, [Next]_vars
               PROVE  LaunchInvariant'
    OBVIOUS
  <2>0. TypeOK'
    BY StepTypeOK DEF LaunchInvariant
  <2>1. CASE UNCHANGED vars
    <3>1. \A c \in Child : Quiet(c)
      BY <2>1 DEF vars, chain, child, session, Quiet
    <3> QED
      BY <2>0, <2>1, <3>1, AllQuietKeeps DEF vars, chain, child, session
  <2>2. ASSUME NEW c \in Child, LaunchStep(c)
        PROVE  LaunchInvariant'
    BY <2>0, <2>2, subagent_startKeeps, launchKeeps, ReservationEndKeeps,
       startRuntimeKeeps, WaitsOfStartKeep, LaunchFailedKeeps DEF LaunchStep
  <2>3. ASSUME NEW c \in Child, ChildStep(c)
        PROVE  LaunchInvariant'
    BY <2>0, <2>3, ChildStepsQuiet, WaitsOfStartKeep DEF ChildStep
  <2>4. ASSUME NEW c \in Child, KillBegins(c) \/ KillEnds(c)
        PROVE  LaunchInvariant'
    BY <2>0, <2>4, KillStepsKeep
  <2>5. ASSUME NEW k \in Call, CallStep(k)
        PROVE  LaunchInvariant'
    BY <2>0, <2>5, CallStepsKeep DEF CallStep
  <2>6. ASSUME NEW t \in Turn, GiveUp(t) \/ CanceledTurnPasses(t) \/ TurnReleased(t)
        PROVE  LaunchInvariant'
    BY <2>0, <2>6, GiveUpKeeps, PassingKeeps
  <2>7. CASE SessionStep
    BY <2>0, <2>7, SessionStepsKeep
  <2> QED
    BY <2>1, <2>2, <2>3, <2>4, <2>5, <2>6, <2>7, StepKinds
<1> QED
  BY <1>1, <1>2, PTL DEF Spec

(***************************************************************************)
(* However starts overlap, fail or are aborted, there are never more       *)
(* active children than the limit, for any number of starts and any limit. *)
(***************************************************************************)
THEOREM LimitHolds == Spec => []ActiveLimit
<1>1. LaunchInvariant => ActiveLimit
  <2> SUFFICES ASSUME LaunchInvariant
               PROVE  ActiveLimit
    OBVIOUS
  <2>1. IsFiniteSet(Active \union Held) /\ Active \subseteq Active \union Held
    <3>1. Active \union Held \subseteq Child
      BY DEF Active, Held, LaunchInvariant, TypeOK, SessionType
    <3> QED
      BY <3>1, OperationsAssumption, FS_Subset
  <2>2. /\ Cardinality(Active) <= Cardinality(Active \union Held)
        /\ Cardinality(Active) \in Nat /\ Cardinality(Active \union Held) \in Nat
    BY <2>1, FS_Subset, FS_CardinalityType
  <2> QED
    BY <2>2, OperationsAssumption DEF ActiveLimit, LaunchInvariant, LimitKept
<1> QED
  BY <1>1, LaunchInvariantHolds, PTL

(***************************************************************************)
(* A live child keeps its handle, whatever fails, is cleared or is ended   *)
(* around it, except one that a start spawned after the last sweep.        *)
(***************************************************************************)
THEOREM LiveStaysTracked == Spec => []LiveIsTracked
<1>1. LaunchInvariant => LiveIsTracked
  BY DEF LaunchInvariant, Reached, LiveIsTracked
<1> QED
  BY <1>1, LaunchInvariantHolds, PTL

(***************************************************************************)
(* A start that failed or was aborted, at whichever of its waits, left no  *)
(* live child.                                                             *)
(***************************************************************************)
THEOREM FailedStartIsClean == Spec => []FailedStartLeavesNoChild
<1>1. LaunchInvariant => FailedStartLeavesNoChild
  BY DEF LaunchInvariant, ChildOK, FailedStartLeavesNoChild, active
<1> QED
  BY <1>1, LaunchInvariantHolds, PTL

(***************************************************************************)
(* A shutdown that ended closed every child that was there at its last     *)
(* sweep, for any state of their queues.                                   *)
(***************************************************************************)
THEOREM ShutdownIsComplete == Spec => []ShutdownLeavesNoChild
<1>1. LaunchInvariant => ShutdownLeavesNoChild
  BY DEF LaunchInvariant, Reached, ShutdownLeavesNoChild
<1> QED
  BY <1>1, LaunchInvariantHolds, PTL

-----------------------------------------------------------------------------
(* The queues of the children.                                             *)

(***************************************************************************)
(* The turns of a child stand in one line: they can be numbered so that    *)
(* each follows the one it is chained to, only the first is chained to     *)
(* none, and the tail is the last.  The numbers are what excludes a second *)
(* line, or a circle, that nothing would ever release.                     *)
(***************************************************************************)
InLine(c, pos) ==
  /\ \A t \in Chained(c), u \in Chained(c) :
       /\ pos[t] = pos[u] => t = u
       /\ before[t] = NoTurn => pos[t] <= pos[u]
       /\ before[t] = u => pos[t] = pos[u] + 1
  /\ \A t \in Chained(c) : before[t] \in Chained(c) \union {NoTurn}
  /\ tail[c] = NoTurn => Chained(c) = {}
  /\ tail[c] # NoTurn =>
       /\ tail[c] \in Chained(c)
       /\ \A t \in Chained(c) : pos[t] <= pos[tail[c]]

Lined == \E pos \in [Turn -> Int] : \A c \in Child : InLine(c, pos)

(* Only the first in line has begun, and the count is that of the line.    *)
Served(c) ==
  /\ \A t \in Chained(c) : Begun(t) => before[t] = NoTurn
  /\ IsFiniteSet(Chained(c))
  /\ count[c] = Cardinality(Chained(c))
  /\ count[c] <= MAX_QUEUED_CHILD_OPERATIONS
  /\ proc[c] = "none" => Chained(c) = {}

(* A request belongs to a turn that holds its place, and to a live child.  *)
Requested(c) ==
  /\ request[c] # NoTurn => request[c] \in Chained(c) /\ Begun(request[c])
  /\ proc[c] # "live" => request[c] = NoTurn

(* Turns that may still enter are not in line.                             *)
Entry ==
  /\ \A k \in Call : /\ call[k].does = "none" <=> turn[CallTurn(k)] = "none"
                     /\ call[k].does # "none" => call[k].on \in Child
  /\ phase = "idle" => \A c \in Child : turn[Kill(c)] = "none"

QueueInvariant ==
  /\ LaunchInvariant
  /\ Lined
  /\ \A c \in Child : Served(c) /\ Requested(c)
  /\ Entry

(* A line whose turns, chains and tail stay is the same line.              *)
LEMMA LineKept ==
  ASSUME NEW c \in Child, NEW pos \in [Turn -> Int], InLine(c, pos),
         Chained(c)' = Chained(c),
         \A t \in Chained(c) : before'[t] = before[t],
         tail'[c] = tail[c]
  PROVE  InLine(c, pos)'
BY DEF InLine

(* The first leaves, and the next is first.                                *)
LEMMA LineReleased ==
  ASSUME NEW c \in Child, NEW pos \in [Turn -> Int], InLine(c, pos),
         NEW t \in Chained(c), before[t] = NoTurn,
         Chained(c)' = Chained(c) \ {t},
         \A u \in Turn : before'[u] = IF t = u \/ t = before[u]
                                      THEN NoTurn ELSE before[u],
         tail'[c] = IF tail[c] = t THEN NoTurn ELSE tail[c]
  PROVE  InLine(c, pos)'
<1>0. Chained(c) \subseteq Turn /\ t # NoTurn
  BY NoTurnIsNone DEF Chained
<1>1. ASSUME NEW u \in Chained(c) \ {t}, NEW v \in Chained(c) \ {t}
      PROVE  /\ pos[u] = pos[v] => u = v
             /\ before'[u] = NoTurn => pos[u] <= pos[v]
             /\ before'[u] = v => pos[u] = pos[v] + 1
  <2>1. pos[u] \in Int /\ pos[v] \in Int /\ pos[t] \in Int
    BY <1>0
  <2>2. pos[t] <= pos[v] /\ pos[t] # pos[v]
    BY DEF InLine
  <2>3. CASE before[u] = t
    <3>1. before'[u] = NoTurn /\ pos[u] = pos[t] + 1
      BY <1>0, <2>3 DEF InLine
    <3> QED
      BY <1>0, <2>1, <2>2, <3>1, NoTurnIsNone DEF InLine
  <2>4. CASE before[u] # t
    <3>1. before'[u] = before[u]
      BY <1>0, <2>4
    <3> QED
      BY <3>1 DEF InLine
  <2> QED
    BY <2>3, <2>4
<1>2. ASSUME NEW u \in Chained(c) \ {t}
      PROVE  before'[u] \in (Chained(c) \ {t}) \union {NoTurn}
  BY <1>0 DEF InLine
<1>3. CASE tail[c] = t
  <2>1. ASSUME NEW u \in Chained(c)
        PROVE  u = t
    <3>1. pos[u] <= pos[t] /\ pos[t] <= pos[u]
      BY <1>0, <1>3 DEF InLine
    <3>2. pos[u] \in Int /\ pos[t] \in Int
      BY <1>0
    <3>3. pos[u] = pos[t]
      BY <3>1, <3>2
    <3> QED
      BY <3>3 DEF InLine
  <2> QED
    BY <1>1, <1>2, <1>3, <2>1 DEF InLine
<1>4. CASE tail[c] # t
  <2>1. tail'[c] = tail[c]
    BY <1>4
  <2>2. tail[c] # NoTurn
    BY DEF InLine
  <2> QED
    BY <1>1, <1>2, <1>4, <2>1, <2>2 DEF InLine
<1> QED
  BY <1>3, <1>4

(* One more at the end.                                                    *)
LEMMA LineEntered ==
  ASSUME NEW c \in Child, NEW pos \in [Turn -> Int], InLine(c, pos),
         NEW t \in Turn, t \notin Chained(c),
         Chained(c)' = Chained(c) \union {t},
         \A u \in Chained(c) : before'[u] = before[u],
         before'[t] = tail[c], tail'[c] = t,
         NEW next \in [Turn -> Int],
         \A u \in Chained(c) : next[u] = pos[u],
         next[t] = IF tail[c] = NoTurn THEN 0 ELSE pos[tail[c]] + 1
  PROVE  InLine(c, next)'
<1>0. Chained(c) \subseteq Turn /\ t # NoTurn
  BY NoTurnIsNone DEF Chained
<1>1. CASE tail[c] = NoTurn
  <2>1. Chained(c)' = {t} /\ before'[t] = NoTurn
    BY <1>1 DEF InLine
  <2> QED
    BY <1>0, <2>1 DEF InLine
<1>2. CASE tail[c] # NoTurn
  <2>1. /\ tail[c] \in Chained(c) /\ next[t] = pos[tail[c]] + 1
        /\ \A u \in Chained(c) : pos[u] <= pos[tail[c]]
    BY <1>2 DEF InLine
  <2>2. \A u \in Chained(c) : pos[u] \in Int /\ next[u] < next[t]
    BY <1>0, <2>1
  <2>3. ASSUME NEW u \in Chained(c) \union {t}, NEW v \in Chained(c) \union {t}
        PROVE  /\ next[u] = next[v] => u = v
               /\ before'[u] = NoTurn => next[u] <= next[v]
               /\ before'[u] = v => next[u] = next[v] + 1
    <3>1. CASE u = t
      BY <1>2, <2>1, <2>2, <3>1
    <3>2. CASE u # t /\ v = t
      <4>1. before[u] # t
        BY <1>0, <3>2 DEF InLine
      <4> QED
        BY <1>0, <2>2, <3>2, <4>1
    <3>3. CASE u # t /\ v # t
      BY <3>3 DEF InLine
    <3> QED
      BY <3>1, <3>2, <3>3
  <2>4. \A u \in Chained(c) \union {t} : next[u] <= next[t]
    BY <1>0, <2>2
  <2>5. \A u \in Chained(c) \union {t} :
          before'[u] \in Chained(c) \union {t} \union {NoTurn}
    BY <2>1 DEF InLine
  <2> QED
    BY <1>0, <2>3, <2>4, <2>5 DEF InLine
<1> QED
  BY <1>1, <1>2

(* The lines and what they serve, given that launches keep their own.      *)
LEMMA QueueParts ==
  ASSUME LaunchInvariant', NEW pos \in [Turn -> Int],
         \A c \in Child : InLine(c, pos)' /\ Served(c)' /\ Requested(c)',
         Entry'
  PROVE  QueueInvariant'
<1>1. Lined'
  BY DEF Lined
<1> QED
  BY <1>1 DEF QueueInvariant

(* A turn in line goes on, and begins only at the head of its line.        *)
GoesOn(t) ==
  /\ turn[t] \notin {"none", "released"} /\ turn'[t] \notin {"none", "released"}
  /\ Begun(t)' => before[t] = NoTurn
  /\ Begun(t) => Begun(t)'

(* Steps that leave the lines of the children as they are.                 *)
LEMMA KeptKeeps ==
  ASSUME QueueInvariant, LaunchInvariant',
         \A t \in Turn :
           t[1] = "reservation" \/ turn'[t] = turn[t] \/ GoesOn(t),
         \A c \in Child :
           /\ \A t \in Chained(c) : before'[t] = before[t]
           /\ tail'[c] = tail[c] /\ count'[c] = count[c]
           /\ proc'[c] = "none" => proc[c] = "none"
           /\ proc'[c] # "live" => request'[c] = NoTurn
           /\ \/ request'[c] \in {request[c], NoTurn}
              \/ request'[c] \in Chained(c) /\ Begun(request[c])',
         call' = call,
         phase' = "idle" => phase = "idle"
  PROVE  QueueInvariant'
<1>1. PICK pos \in [Turn -> Int] : \A c \in Child : InLine(c, pos)
  BY DEF QueueInvariant, Lined
<1>2. \A t \in Turn : QueueOf(t)' = QueueOf(t)
  BY DEF QueueOf
<1>3. ASSUME NEW c \in Child
      PROVE  /\ Chained(c)' = Chained(c)
             /\ \A t \in Chained(c) : turn'[t] = turn[t] \/ GoesOn(t)
  <2>1. ASSUME NEW t \in Turn
        PROVE  t \in Chained(c)' <=> t \in Chained(c)
    BY <1>2 DEF Chained, GoesOn
  <2> QED
    BY <2>1 DEF Chained
<1>4. ASSUME NEW c \in Child
      PROVE  InLine(c, pos)'
  BY <1>1, <1>3, LineKept
<1>5. ASSUME NEW c \in Child
      PROVE  Served(c)' /\ Requested(c)'
  <2>1. Served(c) /\ Requested(c)
    BY DEF QueueInvariant
  <2>2. \A t \in Chained(c) : Begun(t)' => before'[t] = NoTurn
    BY <1>3, <2>1 DEF Served, GoesOn, Begun
  <2>3. Served(c)'
    BY <1>3, <2>1, <2>2 DEF Served
  <2>4. \A t \in Chained(c) : Begun(t) => Begun(t)'
    BY <1>3 DEF GoesOn, Begun
  <2>5. request'[c] # NoTurn => request'[c] \in Chained(c) /\ Begun(request[c])'
    BY <2>1, <2>4 DEF Requested
  <2> QED
    BY <1>3, <2>3, <2>5 DEF Requested, Begun
<1>6. Entry'
  <2>1. Entry
    BY DEF QueueInvariant
  <2>2. ASSUME NEW t \in Turn, t[1] # "reservation"
        PROVE  turn'[t] = "none" <=> turn[t] = "none"
    BY <2>2 DEF GoesOn
  <2>3. \A k \in Call : turn'[CallTurn(k)] = "none" <=> turn[CallTurn(k)] = "none"
    BY <2>2, TurnsOfCall
  <2>4. \A c \in Child : turn'[Kill(c)] = "none" <=> turn[Kill(c)] = "none"
    BY <2>2, TurnsOfChild
  <2> QED
    BY <2>1, <2>3, <2>4 DEF Entry
<1> QED
  BY <1>1, <1>4, <1>5, <1>6, QueueParts

(* A chained turn is in the line of a child, at its head if it has begun.  *)
LEMMA LineOf ==
  ASSUME QueueInvariant, NEW t \in Turn,
         t[1] # "reservation", turn[t] \notin {"none", "released"}
  PROVE  /\ QueueOf(t) \in Child
         /\ \A c \in Child : t \in Chained(c) <=> c = QueueOf(t)
         /\ Begun(t) => before[t] = NoTurn
<1>1. QueueOf(t) \in Child
  <2>1. CASE \E c \in Child : t = Reservation(c) \/ t = Launch(c) \/ t = Kill(c)
    BY <2>1, TurnsOfChild
  <2>2. ASSUME NEW k \in Call, t = CallTurn(k)
        PROVE  QueueOf(t) \in Child
    BY <2>2, TurnsOfCall DEF QueueInvariant, Entry
  <2> QED
    BY <2>1, <2>2, TurnKinds
<1>2. \A c \in Child : t \in Chained(c) <=> c = QueueOf(t)
  BY DEF Chained
<1> QED
  BY <1>1, <1>2 DEF QueueInvariant, Served

(* The head of a line leaves it.                                           *)
LEMMA ReleaseKeeps ==
  ASSUME QueueInvariant, LaunchInvariant', NEW t \in Turn,
         t[1] # "reservation",
         turn[t] \notin {"none", "released"}, before[t] = NoTurn,
         \A c \in Child : request[c] # t,
         Release(t), call' = CallAfter(t),
         UNCHANGED <<proc, request, phase>>
  PROVE  QueueInvariant'
<1>0. ChainType /\ CallType /\ Entry
  BY DEF QueueInvariant, LaunchInvariant, TypeOK
<1>1. PICK pos \in [Turn -> Int] : \A c \in Child : InLine(c, pos)
  BY DEF QueueInvariant, Lined
<1>2. /\ \A u \in Turn : u # t => turn'[u] = turn[u]
      /\ turn'[t] = IF t[1] = "call" THEN "none" ELSE "released"
      /\ \A u \in Turn : before'[u] = IF t = u \/ t = before[u]
                                      THEN NoTurn ELSE before[u]
  BY <1>0, ReleaseEffect
<1> DEFINE q == QueueOf(t)
<1>3. q \in Child
  BY LineOf
<1>4. /\ \A c \in Child : tail'[c] = IF c = q /\ tail[c] = t THEN NoTurn ELSE tail[c]
      /\ \A c \in Child : count'[c] = IF c = q THEN count[c] - 1 ELSE count[c]
  <2>1. /\ tail' = [tail EXCEPT ![q] = IF tail[q] = t THEN NoTurn ELSE tail[q]]
        /\ count' = [count EXCEPT ![q] = count[q] - 1]
    BY DEF Release, Counted
  <2>2. DOMAIN tail = Queue /\ DOMAIN count = Child /\ Child \subseteq Queue
    BY <1>0 DEF ChainType, Queue
  <2> HIDE DEF q
  <2> QED
    BY <2>1, <2>2
<1>5. \A u \in Turn : u # t => QueueOf(u)' = QueueOf(u)
  <2>1. ASSUME NEW c \in Child, NEW u \in {Reservation(c), Launch(c), Kill(c)}
        PROVE  QueueOf(u)' = QueueOf(u)
    BY DEF QueueOf, Reservation, Launch, Kill
  <2>2. ASSUME NEW k \in Call, CallTurn(k) # t
        PROVE  QueueOf(CallTurn(k))' = QueueOf(CallTurn(k))
    BY <2>2 DEF QueueOf, CallTurn, CallAfter
  <2> QED
    BY <2>1, <2>2, TurnKinds
<1>6. ASSUME NEW c \in Child
      PROVE  Chained(c)' = Chained(c) \ {t}
  <2>1. ASSUME NEW u \in Turn
        PROVE  u \in Chained(c)' <=> u \in Chained(c) /\ u # t
    BY <1>2, <1>5 DEF Chained
  <2> QED
    BY <2>1 DEF Chained
<1>7. \A c \in Child : t \in Chained(c) <=> c = q
  BY LineOf
<1> HIDE DEF q
<1>8. ASSUME NEW c \in Child, c = q
      PROVE  InLine(c, pos)' /\ Served(c)'
  <2>1. Served(c) /\ t \in Chained(c) /\ Chained(c) \subseteq Turn /\ NoTurn \notin Turn
    BY <1>7, <1>8, NoTurnIsNone DEF QueueInvariant, Chained
  <2>2. InLine(c, pos)'
    BY <1>1, <1>2, <1>4, <1>6, <1>8, <2>1, LineReleased
  <2>3. /\ IsFiniteSet(Chained(c) \ {t})
        /\ Cardinality(Chained(c) \ {t}) = Cardinality(Chained(c)) - 1
    BY <2>1, FS_RemoveElement DEF Served
  <2>4. count'[c] = Cardinality(Chained(c)')
    BY <1>4, <1>6, <1>8, <2>1, <2>3 DEF Served
  <2>5. count'[c] <= MAX_QUEUED_CHILD_OPERATIONS
    BY <1>0, <1>4, <1>8, <2>1, OperationsAssumption DEF Served, ChainType
  <2>6. \A u \in Chained(c)' : Begun(u)' => before'[u] = NoTurn
    BY <1>2, <1>6, <2>1 DEF Served, Begun
  <2> QED
    BY <1>6, <2>1, <2>2, <2>3, <2>4, <2>5, <2>6 DEF Served
<1>9. ASSUME NEW c \in Child, c # q
      PROVE  InLine(c, pos)' /\ Served(c)'
  <2>1. Served(c) /\ t \notin Chained(c) /\ Chained(c)' = Chained(c)
    BY <1>6, <1>7, <1>9 DEF QueueInvariant
  <2>2. \A u \in Chained(c) : before'[u] = before[u] /\ u # t /\ u \in Turn
    BY <1>1, <1>2, <2>1, NoTurnIsNone DEF InLine, Chained
  <2>3. tail'[c] = tail[c] /\ count'[c] = count[c]
    BY <1>4, <1>9
  <2>4. InLine(c, pos)'
    BY <1>1, <2>1, <2>2, <2>3, LineKept
  <2>5. \A u \in Chained(c)' : Begun(u)' => before'[u] = NoTurn
    BY <1>2, <2>1, <2>2 DEF Served, Begun
  <2> QED
    BY <2>1, <2>3, <2>4, <2>5 DEF Served
<1>10. ASSUME NEW c \in Child
       PROVE  Requested(c)'
  <2>1. Requested(c) /\ Chained(c) \subseteq Turn
    BY DEF QueueInvariant, Chained
  <2> QED
    BY <1>2, <1>6, <2>1 DEF Requested, Begun
<1>11. Entry'
  <2>1. ASSUME NEW k \in Call
        PROVE  /\ call'[k].does = "none" <=> turn'[CallTurn(k)] = "none"
               /\ call'[k].does # "none" => call'[k].on \in Child
    <3>1. CASE CallTurn(k) = t
      BY <1>2, <3>1, TurnsOfCall DEF CallAfter, NoCall
    <3>2. CASE CallTurn(k) # t
      BY <1>0, <1>2, <3>2, TurnsOfCall DEF CallAfter, Entry
    <3> QED
      BY <3>1, <3>2
  <2>2. ASSUME NEW c \in Child, phase' = "idle"
        PROVE  turn'[Kill(c)] = "none"
    BY <1>0, <1>2, <2>2, TurnsOfChild DEF Entry
  <2> QED
    BY <2>1, <2>2 DEF Entry
<1> QED
  BY <1>1, <1>3, <1>8, <1>9, <1>10, <1>11, QueueParts

(* What entering does to the lines: at most one turn comes to each.        *)
Entered(ts, queue, as) ==
  /\ \A t \in Turn \ ts : turn'[t] = turn[t] /\ before'[t] = before[t]
  /\ \A t \in ts : /\ turn'[t] = as /\ before'[t] = tail[queue[t]]
                   /\ tail'[queue[t]] = t
                   /\ count'[queue[t]] = count[queue[t]] + 1
  /\ \A c \in Child : (\A t \in ts : queue[t] # c) =>
       tail'[c] = tail[c] /\ count'[c] = count[c]

(* What entering does to each line: nothing, or one more turn at its end.  *)
LEMMA EnterLines ==
  ASSUME ChainType, NEW ts \in SUBSET Turn, NEW queue \in [ts -> Child],
         NEW as, Enter(queue, as),
         \A t \in ts, u \in ts : queue[t] = queue[u] => t = u
  PROVE  Entered(ts, queue, as)
<1> DEFINE of(q) == CHOOSE t \in ts : queue[t] = q
           entering == {queue[t] : t \in ts}
<1>0. DOMAIN queue = ts
  OBVIOUS
<1>1. /\ turn' = [t \in Turn |-> IF t \in ts THEN as ELSE turn[t]]
      /\ before' = [t \in Turn |-> IF t \in ts THEN tail[queue[t]] ELSE before[t]]
      /\ tail' = [q \in Queue |-> IF q \in entering THEN of(q) ELSE tail[q]]
      /\ count' = [c \in Child |-> IF c \in entering THEN count[c] + 1 ELSE count[c]]
  BY <1>0 DEF Enter
<1>2. \A t \in ts : of(queue[t]) = t
  OBVIOUS
<1>3. Child \subseteq Queue
  BY DEF Queue
<1> HIDE DEF of
<1> QED
  BY <1>1, <1>2, <1>3 DEF Entered

(* Turns that come to lines of live children, or to those of new ones.     *)
LEMMA EnterKeeps ==
  ASSUME QueueInvariant, LaunchInvariant',
         NEW ts \in SUBSET Turn, NEW queue \in [ts -> Child],
         NEW as \in {"waiting", "running"},
         Entered(ts, queue, as),
         \A t \in ts, u \in ts : queue[t] = queue[u] => t = u,
         \A t \in ts :
           /\ turn[t] = "none" /\ t[1] # "reservation"
           /\ QueueOf(t)' = queue[t]
           /\ ~QueueFull(queue[t])
           /\ as = "running" => Chained(queue[t]) = {}
           /\ proc'[queue[t]] # "none",
         \A t \in Turn \ ts : QueueOf(t)' = QueueOf(t),
         \A c \in Child :
           /\ proc'[c] = "none" => proc[c] = "none"
           /\ proc'[c] # "live" => request'[c] = NoTurn
           /\ \/ request'[c] = request[c]
              \/ as = "running" /\ request'[c] \in ts /\ queue[request'[c]] = c,
         Entry'
  PROVE  QueueInvariant'
<1>0. ChainType /\ ts \subseteq Turn /\ DOMAIN queue = ts /\ Child \subseteq Queue
  BY DEF QueueInvariant, LaunchInvariant, TypeOK, Queue
<1>1. PICK pos \in [Turn -> Int] : \A c \in Child : InLine(c, pos)
  BY DEF QueueInvariant, Lined
<1>2. /\ \A t \in Turn \ ts : turn'[t] = turn[t] /\ before'[t] = before[t]
      /\ \A t \in ts : /\ turn'[t] = as /\ before'[t] = tail[queue[t]]
                       /\ tail'[queue[t]] = t
                       /\ count'[queue[t]] = count[queue[t]] + 1
      /\ \A c \in Child : (\A t \in ts : queue[t] # c) =>
           tail'[c] = tail[c] /\ count'[c] = count[c]
  BY DEF Entered
<1>4. ASSUME NEW c \in Child
      PROVE  /\ Chained(c)' = Chained(c) \union {t \in ts : queue[t] = c}
             /\ Chained(c) \intersect ts = {}
             /\ Chained(c) \subseteq Turn
  <2>1. ASSUME NEW t \in Turn
        PROVE  t \in Chained(c)' <=> t \in Chained(c) \/ (t \in ts /\ queue[t] = c)
    <3>1. CASE t \in ts
      BY <1>2, <3>1 DEF Chained
    <3>2. CASE t \notin ts
      BY <1>2, <3>2 DEF Chained
    <3> QED
      BY <3>1, <3>2
  <2> QED
    BY <1>0, <2>1, ZenonT(60) DEF Chained
<1>5. PICK next \in [Turn -> Int] :
        /\ \A t \in Turn \ ts : next[t] = pos[t]
        /\ \A t \in ts : next[t] = IF tail[queue[t]] = NoTurn THEN 0
                                   ELSE pos[tail[queue[t]]] + 1
  <2> DEFINE after(t) == IF tail[queue[t]] = NoTurn THEN 0
                         ELSE pos[tail[queue[t]]] + 1
             n == [t \in Turn |-> IF t \notin ts THEN pos[t] ELSE after(t)]
  <2>1. ASSUME NEW t \in ts
        PROVE  after(t) \in Int
    <3>1. tail[queue[t]] \in Turn \union {NoTurn}
      BY <1>0 DEF ChainType
    <3> QED
      BY <3>1
  <2>2. n \in [Turn -> Int]
    BY <2>1
  <2>3. \A t \in Turn \ ts : n[t] = pos[t]
    OBVIOUS
  <2>4. \A t \in ts : n[t] = after(t)
    BY <1>0
  <2> QED
    BY <2>2, <2>3, <2>4
<1>7. ASSUME NEW t \in ts
      PROVE  InLine(queue[t], next)' /\ Served(queue[t])'
  <2> DEFINE c == queue[t]
  <2>0. c \in Child /\ t \in Turn /\ Served(c) /\ t \notin Chained(c)
    BY <1>0, <1>4 DEF QueueInvariant
  <2> HIDE DEF c
  <2>1. Chained(c)' = Chained(c) \union {t}
    <3>1. {u \in ts : queue[u] = c} = {t}
      BY DEF c
    <3> QED
      BY <1>4, <2>0, <3>1
  <2>2. \A u \in Chained(c) : next[u] = pos[u] /\ before'[u] = before[u]
                              /\ turn'[u] = turn[u]
    BY <1>2, <1>4, <1>5, <2>0
  <2>3. /\ before'[t] = tail[c] /\ tail'[c] = t /\ turn'[t] = as
        /\ count'[c] = count[c] + 1
        /\ next[t] = IF tail[c] = NoTurn THEN 0 ELSE pos[tail[c]] + 1
    BY <1>2, <1>5 DEF c
  <2>4. InLine(c, next)'
    BY <1>1, <2>0, <2>1, <2>2, <2>3, LineEntered
  <2>5. /\ IsFiniteSet(Chained(c) \union {t})
        /\ Cardinality(Chained(c) \union {t}) = Cardinality(Chained(c)) + 1
    BY <2>0, FS_AddElement DEF Served
  <2>6. count[c] < MAX_QUEUED_CHILD_OPERATIONS /\ count[c] \in Int
    <3>1. ~(count[c] >= MAX_QUEUED_CHILD_OPERATIONS)
      BY DEF c, QueueFull
    <3>2. count[c] \in Int
      BY <1>0, <2>0 DEF ChainType
    <3> QED
      BY <3>1, <3>2, OperationsAssumption
  <2>7. Begun(t)' => before'[t] = NoTurn
    <3>1. CASE as = "waiting"
      BY <2>3, <3>1 DEF Begun
    <3>2. CASE as = "running"
      <4>1. Chained(c) = {}
        BY <3>2 DEF c
      <4> QED
        BY <1>1, <2>0, <2>3, <4>1 DEF InLine
    <3> QED
      BY <3>1, <3>2
  <2>8. \A u \in Chained(c)' : Begun(u)' => before'[u] = NoTurn
    BY <2>0, <2>1, <2>2, <2>7 DEF Served, Begun
  <2>9. /\ count'[c] = Cardinality(Chained(c)')
        /\ count'[c] <= MAX_QUEUED_CHILD_OPERATIONS
        /\ IsFiniteSet(Chained(c)')
    BY <2>0, <2>1, <2>3, <2>5, <2>6, OperationsAssumption DEF Served
  <2>10. proc'[c] # "none"
    BY DEF c
  <2>11. Served(c)'
    BY <2>8, <2>9, <2>10 DEF Served
  <2> QED
    BY <2>4, <2>11 DEF c
<1>8. ASSUME NEW c \in Child, \A t \in ts : queue[t] # c
      PROVE  InLine(c, next)' /\ Served(c)'
  <2>1. Served(c) /\ Chained(c)' = Chained(c)
    <3>1. {t \in ts : queue[t] = c} = {}
      BY <1>8
    <3> QED
      BY <1>4, <3>1 DEF QueueInvariant
  <2>2. \A u \in Chained(c) : next[u] = pos[u] /\ before'[u] = before[u]
                              /\ turn'[u] = turn[u]
    BY <1>2, <1>4, <1>5
  <2>3. tail'[c] = tail[c] /\ count'[c] = count[c]
    BY <1>2, <1>8
  <2>4. InLine(c, next)
    BY <1>1, <2>2 DEF InLine
  <2>5. InLine(c, next)'
    BY <2>1, <2>2, <2>3, <2>4, LineKept
  <2>6. Served(c)'
    BY <2>1, <2>2, <2>3, ZenonT(60) DEF Served, Begun
  <2> QED
    BY <2>5, <2>6
<1>9. ASSUME NEW c \in Child
      PROVE  Requested(c)'
  <2>1. Requested(c)
    BY DEF QueueInvariant
  <2>2. CASE request'[c] = request[c]
    <3>1. /\ request[c] \in Chained(c) => turn'[request[c]] = turn[request[c]]
          /\ Chained(c) \subseteq Chained(c)'
      BY <1>2, <1>4
    <3> QED
      BY <2>1, <2>2, <3>1 DEF Requested, Begun
  <2>3. CASE request'[c] # request[c]
    <3>1. request'[c] \in ts /\ queue[request'[c]] = c /\ as = "running"
      BY <2>3
    <3> QED
      BY <1>2, <1>4, <3>1 DEF Requested, Begun
  <2> QED
    BY <2>2, <2>3
<1>10. \A c \in Child : InLine(c, next)' /\ Served(c)' /\ Requested(c)'
  BY <1>7, <1>8, <1>9
<1> QED
  BY <1>10, QueueParts

(* Steps that move one turn on, in line or among the launches.             *)
LEMMA OneGoesOn ==
  ASSUME QueueInvariant, LaunchInvariant', NEW t \in Turn,
         GoesOn(t), \A u \in Turn : u # t => turn'[u] = turn[u],
         UNCHANGED <<before, tail, count, call, proc, phase>>,
         \A c \in Child :
           \/ request'[c] = request[c]
           \/ /\ request'[c] = t /\ t \in Chained(c) /\ Begun(t)'
              /\ proc[c] = "live"
  PROVE  QueueInvariant'
<1>1. \A c \in Child : proc'[c] # "live" => request'[c] = NoTurn
  BY DEF QueueInvariant, Requested
<1>2. ASSUME NEW c \in Child
      PROVE  \/ request'[c] \in {request[c], NoTurn}
             \/ request'[c] \in Chained(c) /\ Begun(request[c])'
  BY DEF Begun
<1> QED
  BY <1>1, <1>2, KeptKeeps

(* ... and those that move none.                                           *)
LEMMA NoneGoesOn ==
  ASSUME QueueInvariant, LaunchInvariant',
         UNCHANGED <<turn, before, tail, count, call>>,
         \A c \in Child :
           /\ proc'[c] = "none" => proc[c] = "none"
           /\ proc'[c] # "live" => request'[c] = NoTurn
           /\ request'[c] \in {request[c], NoTurn},
         phase' = "idle" => phase = "idle"
  PROVE  QueueInvariant'
BY KeptKeeps

(* Processes, terminations and requests.                                   *)
LEMMA ChildStepsKeepLines ==
  ASSUME QueueInvariant, LaunchInvariant', NEW c \in Child, ChildStep(c)
  PROVE  QueueInvariant'
<1>0. /\ ChildOK(c) /\ request \in [Child -> Turn \union {NoTurn}]
      /\ Launch(c) \in Turn /\ Launch(c)[1] # "reservation" /\ QueueOf(Launch(c)) = c
      /\ \A d \in Child : Requested(d)
  BY TurnsOfChild DEF QueueInvariant, LaunchInvariant, TypeOK, ChildType
<1>1. UNCHANGED <<turn, before, tail, count, call, phase>>
  BY DEF ChildStep, TerminationEnds, ProcessCloses, RequestSettles,
         forceCleanupRuntime, StartReplies, StartAborted, AbortedStartReplies,
         LaunchFails, LaunchContinues, chain, session
<1>2. CASE LaunchContinues(c)
  <2>1. /\ turn[Launch(c)] = "running" /\ proc[c] = "live" /\ proc' = proc
        /\ request' = [request EXCEPT ![c] = Launch(c)]
    BY <1>0, <1>2 DEF LaunchContinues, active, sendRpc, ChildOK
  <2>2. Launch(c) \in Chained(c) /\ Begun(Launch(c))'
    BY <1>0, <1>1, <2>1 DEF Chained, Begun
  <2>3. ASSUME NEW d \in Child
        PROVE  /\ proc'[d] # "live" => request'[d] = NoTurn
               /\ \/ request'[d] \in {request[d], NoTurn}
                  \/ request'[d] \in Chained(d) /\ Begun(request[d])'
    BY <1>0, <2>1, <2>2 DEF Requested
  <2> QED
    BY <1>1, <2>1, <2>3, KeptKeeps
<1>3. CASE ~LaunchContinues(c)
  <2>1. \/ UNCHANGED <<proc, request>>
        \/ proc' = proc /\ request' = [request EXCEPT ![c] = NoTurn]
        \/ Close({c})
    BY <1>3 DEF ChildStep, TerminationEnds, ProcessCloses, RequestSettles,
           forceCleanupRuntime, StartReplies, StartAborted, AbortedStartReplies,
           LaunchFails, child
  <2>2. ASSUME NEW d \in Child
        PROVE  /\ proc'[d] = "none" => proc[d] = "none"
               /\ proc'[d] # "live" => request'[d] = NoTurn
               /\ request'[d] \in {request[d], NoTurn}
    BY <1>0, <2>1 DEF Close, Requested
  <2> QED
    BY <1>1, <2>2, NoneGoesOn
<1> QED
  BY <1>2, <1>3

(* The operation of the turn settles, before it began or after.            *)
LEMMA SettleGoesOn ==
  ASSUME QueueInvariant, LaunchInvariant', NEW t \in Turn,
         t[1] # "reservation", MayBegin(t) \/ turn[t] = "running",
         Settle(t), UNCHANGED <<call, proc, request, phase>>
  PROVE  QueueInvariant'
<1>0. ChainType /\ step \in [Turn -> StepState]
  BY DEF QueueInvariant, LaunchInvariant, TypeOK
<1>1. /\ UNCHANGED <<before, tail, count>>
      /\ \A u \in Turn : u # t => turn'[u] = turn[u]
      /\ turn'[t] \in {"afterTermination", "afterRequest"}
  BY <1>0, SettleEffect
<1>2. before[t] = NoTurn
  BY LineOf DEF MayBegin, Begun
<1>3. GoesOn(t)
  BY <1>1, <1>2 DEF GoesOn, MayBegin, Begun
<1> QED
  BY <1>1, <1>3, OneGoesOn

(* The operation of the turn begins, with its request or without one.      *)
LEMMA BeginGoesOn ==
  ASSUME QueueInvariant, LaunchInvariant', NEW t \in Turn, NEW what \in StepState,
         t[1] # "reservation", MayBegin(t), Begin(t, what),
         UNCHANGED <<call, proc, phase>>,
         request' = request \/ (sendRpc(t) /\ active(QueueOf(t)))
  PROVE  QueueInvariant'
<1>0. /\ ChainType /\ step \in [Turn -> StepState]
      /\ request \in [Child -> Turn \union {NoTurn}]
  BY DEF QueueInvariant, LaunchInvariant, TypeOK, ChildType
<1>1. /\ UNCHANGED <<before, tail, count>>
      /\ \A u \in Turn : u # t => turn'[u] = turn[u]
      /\ turn'[t] = "running"
  BY <1>0, BeginEffect
<1>2. GoesOn(t)
  BY <1>1 DEF GoesOn, MayBegin, Begun
<1>3. ASSUME NEW c \in Child
      PROVE  \/ request'[c] = request[c]
             \/ /\ request'[c] = t /\ t \in Chained(c) /\ Begun(t)'
                /\ proc[c] = "live"
  <2>1. /\ QueueOf(t) \in Child
        /\ \A d \in Child : t \in Chained(d) <=> d = QueueOf(t)
    BY LineOf DEF MayBegin
  <2>2. request' = request \/ request' = [request EXCEPT ![QueueOf(t)] = t]
    BY DEF sendRpc
  <2> QED
    BY <1>0, <1>1, <2>1, <2>2 DEF active, Begun
<1> QED
  BY <1>1, <1>2, <1>3, OneGoesOn

(* A reservation is in no child's line, whatever becomes of it.            *)
LEMMA ReservationKeepsLines ==
  ASSUME QueueInvariant, LaunchInvariant', NEW t \in Turn, t[1] = "reservation",
         \/ Enter([u \in {t} |-> Launches], "waiting")
         \/ \E what \in StepState : Begin(t, what)
         \/ Cancel(t)
         \/ Release(t),
         UNCHANGED <<call, proc, request, phase>>
  PROVE  QueueInvariant'
<1>0. /\ ChainType /\ CallType /\ step \in [Turn -> StepState]
      /\ \A c \in Child : Requested(c)
      /\ QueueOf(t) = Launches /\ Launches \notin Child /\ t # NoTurn
  BY OperationsAssumption, NoTurnIsNone
  DEF QueueInvariant, LaunchInvariant, TypeOK, QueueOf
<1>1. \A u \in Turn : u # t => turn'[u] = turn[u]
  BY <1>0, EnterEffect, BeginEffect, CancelEffect, ReleaseEffect DEF TurnState, Queue
<1>2. /\ \A c \in Child : tail'[c] = tail[c] /\ count'[c] = count[c]
      /\ \A u \in Turn : u # t /\ before[u] # t => before'[u] = before[u]
  <2>1. CASE Enter([u \in {t} |-> Launches], "waiting")
    <3>1. /\ before' = [u \in Turn |-> IF u = t THEN tail[Launches] ELSE before[u]]
          /\ count' = count
          /\ \A c \in Child : tail'[c] = tail[c]
      BY <1>0, <2>1 DEF Enter, ChainType, Queue
    <3> QED
      BY <3>1
  <2>2. CASE (\E what \in StepState : Begin(t, what)) \/ Cancel(t)
    BY <2>2 DEF Begin, Cancel
  <2>3. CASE Release(t)
    BY <1>0, <2>3 DEF Release, Counted, ChainType, Queue
  <2> QED
    BY <2>1, <2>2, <2>3
<1>3. ASSUME NEW c \in Child, NEW u \in Chained(c)
      PROVE  u \in Turn /\ u # t /\ before[u] # t
  <2>1. PICK pos : InLine(c, pos)
    BY DEF QueueInvariant, Lined
  <2>2. before[u] \in Chained(c) \union {NoTurn}
    BY <2>1 DEF InLine
  <2> QED
    BY <1>0, <2>2 DEF Chained
<1>4. \A c \in Child :
        /\ \A u \in Chained(c) : before'[u] = before[u]
        /\ tail'[c] = tail[c] /\ count'[c] = count[c]
        /\ proc'[c] = "none" => proc[c] = "none"
        /\ proc'[c] # "live" => request'[c] = NoTurn
        /\ request'[c] \in {request[c], NoTurn}
  BY <1>0, <1>2, <1>3 DEF Requested
<1> QED
  BY <1>1, <1>4, KeptKeeps

(* A canceled turn that passes, or an ended one that is released.          *)
LEMMA PassingKeepsLines ==
  ASSUME QueueInvariant, LaunchInvariant', NEW t \in Turn,
         CanceledTurnPasses(t) \/ TurnReleased(t)
  PROVE  QueueInvariant'
<1>0. CallType /\ \A c \in Child : ChildOK(c) /\ Requested(c)
  BY DEF QueueInvariant, LaunchInvariant, TypeOK
<1>1. /\ Release(t) /\ call' = CallAfter(t)
      /\ UNCHANGED <<proc, request, phase>>
      /\ turn[t] \in {"canceled", "afterTermination", "afterRequest"}
  BY DEF CanceledTurnPasses, TurnReleased, child, session
<1>2. CASE t[1] = "reservation"
  <2>1. ASSUME NEW k \in Call
        PROVE  call'[k] = call[k]
    BY <1>1, <1>2, TurnsOfCall DEF CallAfter
  <2>2. call' = call
    BY <1>0, <1>1, <2>1 DEF CallType, CallAfter
  <2> QED
    BY <1>1, <1>2, <2>2, ReservationKeepsLines
<1>3. CASE t[1] # "reservation"
  <2>1. /\ QueueOf(t) \in Child
        /\ \A c \in Child : t \in Chained(c) <=> c = QueueOf(t)
        /\ Begun(t) => before[t] = NoTurn
    BY <1>1, <1>3, LineOf
  <2>2. before[t] = NoTurn
    BY <2>1 DEF CanceledTurnPasses, TurnReleased, Begun
  <2>3. ASSUME NEW c \in Child, request[c] = t
        PROVE  FALSE
    <3>1. c = QueueOf(t) /\ Begun(t) /\ proc[c] = "live"
      BY <1>0, <2>1, <2>3, NoTurnIsNone DEF Requested
    <3> QED
      BY <1>0, <2>3, <3>1, NoTurnIsNone
      DEF CanceledTurnPasses, TurnReleased, CleanupSettled, ChildOK, Begun
  <2> QED
    BY <1>1, <1>3, <2>2, <2>3, ReleaseKeeps
<1> QED
  BY <1>2, <1>3

(* A waiter that gives up stays in line.                                   *)
LEMMA GiveUpKeepsLines ==
  ASSUME QueueInvariant, LaunchInvariant', NEW t \in Turn, GiveUp(t)
  PROVE  QueueInvariant'
<1>0. ChainType
  BY DEF QueueInvariant, LaunchInvariant, TypeOK
<1>1. /\ turn[t] = "waiting" /\ Cancel(t)
      /\ UNCHANGED <<call, proc, request, phase>>
  BY DEF GiveUp, child, session
<1>2. CASE t[1] = "reservation"
  BY <1>1, <1>2, ReservationKeepsLines
<1>3. CASE t[1] # "reservation"
  <2>1. GoesOn(t)
    BY <1>0, <1>1, CancelEffect DEF GoesOn, Begun
  <2> QED
    BY <1>0, <1>1, <2>1, CancelEffect, OneGoesOn
<1> QED
  BY <1>2, <1>3

(* The handle of a child comes with its launch, alone in its line.         *)
LEMMA startRuntimeKeepsLines ==
  ASSUME QueueInvariant, LaunchInvariant', NEW c \in Child, startRuntime(c)
  PROVE  QueueInvariant'
<1> DEFINE t == Launch(c)
           ts == {t}
           queue == [u \in ts |-> c]
<1>0. /\ ChainType /\ ChildOK(c) /\ Served(c) /\ Entry
      /\ \A d \in Child : Requested(d)
      /\ request \in [Child -> Turn \union {NoTurn}]
      /\ proc \in [Child -> {"none", "live", "closed"}]
      /\ t \in Turn /\ t[1] # "reservation" /\ t[1] # "call"
  BY TurnsOfChild DEF QueueInvariant, LaunchInvariant, TypeOK, ChildType, Launch
<1>1. /\ Enter(queue, "running")
      /\ UNCHANGED <<call, phase>>
      /\ proc[c] = "none"
  BY <1>0 DEF startRuntime, session, ChildOK
<1>2. /\ turn[t] = "none" /\ Chained(c) = {} /\ count[c] = 0
  BY <1>0, <1>1, FS_EmptySet DEF ChildOK, Served
<1>3. ~QueueFull(c)
  BY <1>2, OperationsAssumption DEF QueueFull
<1>4. \A u \in Turn : QueueOf(u)' = QueueOf(u)
  BY <1>1 DEF QueueOf
<1>5. QueueOf(t)' = c
  BY <1>0, <1>4, TurnsOfChild
<1>6. ASSUME NEW d \in Child
      PROVE  /\ proc'[d] = "none" => proc[d] = "none" /\ d # c
             /\ proc'[d] # "live" => request'[d] = NoTurn
             /\ \/ request'[d] = request[d]
                \/ request'[d] = t /\ d = c
  <2>1. \/ /\ proc' = [proc EXCEPT ![c] = "live"]
           /\ request' = [request EXCEPT ![c] = t]
        \/ /\ proc' = [proc EXCEPT ![c] = "closed"]
           /\ request' = request
    BY DEF startRuntime
  <2>2. Requested(d) /\ Requested(c)
    BY <1>0
  <2> HIDE DEF t
  <2> QED
    BY <1>0, <1>1, <2>1, <2>2 DEF Requested
<1>7. ts \in SUBSET Turn /\ queue \in [ts -> Child]
  BY <1>0
<1>8. Entered(ts, queue, "running")
  BY <1>0, <1>1, <1>7, EnterLines
<1>9. Entry'
  <2>1. \A u \in Turn \ ts : turn'[u] = turn[u]
    BY <1>8 DEF Entered
  <2>2. \A k \in Call, d \in Child :
          CallTurn(k) \in Turn \ ts /\ Kill(d) \in Turn \ ts
    BY TurnsOfCall, TurnsOfChild, TurnsDiffer
  <2>3. \A k \in Call : turn'[CallTurn(k)] = turn[CallTurn(k)]
    BY <2>1, <2>2
  <2>4. \A d \in Child : turn'[Kill(d)] = turn[Kill(d)]
    BY <2>1, TurnsOfChild, TurnsDiffer
  <2> QED
    BY <1>0, <1>1, <2>3, <2>4 DEF Entry
<1>10. \A u \in ts : u = t /\ queue[u] = c
  OBVIOUS
<1> HIDE DEF t, ts, queue
<1> QED
  BY <1>0, <1>1, <1>2, <1>3, <1>4, <1>5, <1>6, <1>7, <1>8, <1>9, <1>10, EnterKeeps
     DEF ts

(* What a launch and its reservation do.                                   *)
LEMMA LaunchStepsKeepLines ==
  ASSUME QueueInvariant, LaunchInvariant', NEW c \in Child, LaunchStep(c)
  PROVE  QueueInvariant'
<1>0. /\ Reservation(c) \in Turn /\ Reservation(c)[1] = "reservation"
      /\ Launch(c) \in Turn /\ Launch(c)[1] # "reservation"
      /\ ChildOK(c)
  BY TurnsOfChild DEF QueueInvariant, LaunchInvariant, Launch
<1>1. CASE subagent_start(c) \/ launch(c) \/ FilesFail(c) \/ LaunchEnds(c)
  BY <1>0, <1>1, ReservationKeepsLines
  DEF subagent_start, launch, FilesFail, LaunchEnds, child, session, StepState
<1>2. CASE startRuntime(c)
  BY <1>2, startRuntimeKeepsLines
<1>3. CASE Launched(c) \/ LaunchFailed(c)
  <2>1. turn[Launch(c)] = "running"
    BY <1>0, <1>3 DEF Launched, LaunchFailed, ChildOK
  <2> QED
    BY <1>0, <1>3, <2>1, SettleGoesOn DEF Launched, LaunchFailed, child, session
<1> QED
  BY <1>1, <1>2, <1>3 DEF LaunchStep

(* A call takes its place at the end of a line that has room.              *)
LEMMA withChildOperationKeepsLines ==
  ASSUME QueueInvariant, LaunchInvariant',
         NEW k \in Call, NEW what \in {"send", "remove"}, NEW c \in Child,
         withChildOperation(k, what, c)
  PROVE  QueueInvariant'
<1> DEFINE t == CallTurn(k)
           ts == {t}
           queue == [u \in ts |-> c]
<1>0. /\ ChainType /\ CallType /\ ChildOK(c) /\ Entry
      /\ \A d \in Child : Requested(d)
      /\ t \in Turn /\ t[1] = "call"
  BY TurnsOfCall DEF QueueInvariant, LaunchInvariant, TypeOK
<1>1. /\ Enter(queue, "waiting")
      /\ call' = [call EXCEPT ![k] = [does |-> what, on |-> c]]
      /\ UNCHANGED <<phase, proc, request>>
      /\ call[k].does = "none" /\ ~QueueFull(c) /\ proc[c] # "none"
  BY <1>0 DEF withChildOperation, session, child, ChildOK
<1>2. turn[t] = "none"
  BY <1>0, <1>1 DEF Entry
<1>3. call'[k] = [does |-> what, on |-> c] /\ \A j \in Call : j # k => call'[j] = call[j]
  BY <1>0, <1>1 DEF CallType
<1>4. /\ \A u \in Turn \ ts : QueueOf(u)' = QueueOf(u)
      /\ QueueOf(t)' = c
  <2>1. ASSUME NEW d \in Child, NEW u \in {Reservation(d), Launch(d), Kill(d)}
        PROVE  QueueOf(u)' = QueueOf(u)
    BY DEF QueueOf, Reservation, Launch, Kill
  <2>2. ASSUME NEW j \in Call
        PROVE  QueueOf(CallTurn(j))' = call'[j].on /\ QueueOf(CallTurn(j)) = call[j].on
    BY DEF QueueOf, CallTurn
  <2> QED
    BY <1>3, <2>1, <2>2, TurnKinds
<1>5. ts \in SUBSET Turn /\ queue \in [ts -> Child]
  BY <1>0
<1>6. Entered(ts, queue, "waiting")
  BY <1>0, <1>1, <1>5, EnterLines
<1>7. Entry'
  <2>1. \A u \in Turn : turn'[u] = IF u = t THEN "waiting" ELSE turn[u]
    BY <1>0, <1>6 DEF Entered
  <2>2. \A j \in Call : CallTurn(j) \in Turn /\ (j # k => CallTurn(j) # t)
    BY TurnsOfCall
  <2>3. \A d \in Child : Kill(d) \in Turn /\ Kill(d) # t
    BY TurnsOfChild, TurnsDiffer
  <2> HIDE DEF t
  <2>4. ASSUME NEW j \in Call
        PROVE  /\ call'[j].does = "none" <=> turn'[CallTurn(j)] = "none"
               /\ call'[j].does # "none" => call'[j].on \in Child
    BY <1>0, <1>3, <2>1, <2>2 DEF Entry, t
  <2> QED
    BY <1>0, <1>1, <2>1, <2>3, <2>4 DEF Entry
<1>8. \A d \in Child : proc'[d] # "live" => request'[d] = NoTurn
  BY <1>0, <1>1 DEF Requested
<1>9. \A u \in ts : u = t /\ queue[u] = c
  OBVIOUS
<1> HIDE DEF t, ts, queue
<1> QED
  BY <1>0, <1>1, <1>2, <1>4, <1>5, <1>6, <1>7, <1>8, <1>9, EnterKeeps

(* What calls and kills do with their turns.                               *)
LEMMA CallStepsKeepLines ==
  ASSUME QueueInvariant, LaunchInvariant', NEW k \in Call, CallStep(k)
  PROVE  QueueInvariant'
<1>0. /\ CallTurn(k) \in Turn /\ CallTurn(k)[1] # "reservation"
      /\ QueueOf(CallTurn(k)) = call[k].on
  BY TurnsOfCall
<1>1. ASSUME NEW what \in {"send", "remove"}, NEW c \in Child,
             withChildOperation(k, what, c)
      PROVE  QueueInvariant'
  BY <1>1, withChildOperationKeepsLines
<1>2. CASE SendBegins(k)
  <2>1. MayBegin(CallTurn(k)) /\ UNCHANGED <<call, proc, phase>>
    BY <1>2 DEF SendBegins, session
  <2>2. \/ Begin(CallTurn(k), "response") /\ sendRpc(CallTurn(k)) /\ active(call[k].on)
        \/ Settle(CallTurn(k)) /\ UNCHANGED request
    BY <1>2 DEF SendBegins
  <2> QED
    BY <1>0, <2>1, <2>2, BeginGoesOn, SettleGoesOn DEF StepState
<1>3. CASE RemoveBegins(k)
  BY <1>0, <1>3, BeginGoesOn, SettleGoesOn DEF RemoveBegins, StepState, session
<1>4. CASE CallEnds(k)
  BY <1>0, <1>4, SettleGoesOn DEF CallEnds, child, session
<1> QED
  BY <1>1, <1>2, <1>3, <1>4 DEF CallStep

(* Kills keep the lines.                                                   *)
LEMMA KillStepsKeepLines ==
  ASSUME QueueInvariant, LaunchInvariant', NEW c \in Child, KillBegins(c) \/ KillEnds(c)
  PROVE  QueueInvariant'
<1>0. Kill(c) \in Turn /\ Kill(c)[1] # "reservation" /\ QueueOf(Kill(c)) = c
  BY TurnsOfChild DEF Kill
<1>1. CASE KillBegins(c)
  BY <1>0, <1>1, BeginGoesOn, SettleGoesOn DEF KillBegins, StepState, session
<1>2. CASE KillEnds(c)
  BY <1>0, <1>2, SettleGoesOn DEF KillEnds, child, session
<1> QED
  BY <1>1, <1>2

(* All kills come at once, each to its own line.                           *)
LEMMA terminateActiveKeepsLines ==
  ASSUME QueueInvariant, LaunchInvariant', NEW next \in {"killing", "stopping"},
         terminateActive(next)
  PROVE  QueueInvariant'
<1> DEFINE ts == {Kill(c) : c \in {d \in Active : ~QueueFull(d)}}
           queue == [t \in ts |-> t[2]]
<1>0. /\ ChainType /\ Entry /\ \A c \in Child : Requested(c)
      /\ Active \subseteq Child
  BY DEF QueueInvariant, LaunchInvariant, TypeOK, SessionType, Active
<1>1. /\ Enter(queue, "waiting")
      /\ UNCHANGED <<call, proc, request>>
      /\ phase = "idle" /\ phase' # "idle"
  BY DEF terminateActive, child
<1>2. ASSUME NEW t \in ts
      PROVE  \E c \in Child :
               /\ t = Kill(c) /\ t \in Turn /\ queue[t] = c /\ QueueOf(t) = c
               /\ turn[t] = "none" /\ t[1] = "kill" /\ ~QueueFull(c)
               /\ proc[c] # "none"
  <2>1. PICK c \in Active : t = Kill(c) /\ ~QueueFull(c)
    OBVIOUS
  <2>2. c \in Child /\ proc[c] = "live"
    BY <1>0 DEF Active, active
  <2>3. turn[Kill(c)] = "none"
    BY <1>0, <1>1, <2>2 DEF Entry
  <2> QED
    BY <2>1, <2>2, <2>3, TurnsOfChild
<1> HIDE DEF ts, queue
<1>3. ts \in SUBSET Turn /\ queue \in [ts -> Child]
  <2>1. \A t \in ts : t \in Turn /\ queue[t] \in Child
    BY <1>2
  <2> QED
    BY <2>1 DEF queue
<1>4. \A t \in ts, u \in ts : queue[t] = queue[u] => t = u
  BY <1>2
<1>5. Entered(ts, queue, "waiting")
  BY <1>0, <1>1, <1>3, <1>4, EnterLines
<1>6. \A t \in Turn : QueueOf(t)' = QueueOf(t)
  BY <1>1 DEF QueueOf
<1>7. \A t \in ts :
        /\ turn[t] = "none" /\ t[1] # "reservation"
        /\ QueueOf(t)' = queue[t]
        /\ ~QueueFull(queue[t])
        /\ proc'[queue[t]] # "none"
  BY <1>1, <1>2, <1>6
<1>8. Entry'
  <2>1. \A k \in Call : CallTurn(k) \notin ts /\ CallTurn(k) \in Turn
    BY <1>2, TurnsOfCall
  <2>2. \A k \in Call : turn'[CallTurn(k)] = turn[CallTurn(k)]
    BY <1>5, <2>1 DEF Entered
  <2> QED
    BY <1>0, <1>1, <2>2 DEF Entry
<1>9. \A c \in Child : proc'[c] # "live" => request'[c] = NoTurn
  BY <1>0, <1>1 DEF Requested
<1> QED
  BY <1>1, <1>3, <1>4, <1>5, <1>6, <1>7, <1>8, <1>9, EnterKeeps

(* The steps of the session keep the lines.                                *)
LEMMA SessionStepsKeepLines ==
  ASSUME QueueInvariant, LaunchInvariant', SessionStep
  PROVE  QueueInvariant'
<1>1. CASE killAllCommand \/ session_shutdown
  BY <1>1, terminateActiveKeepsLines DEF killAllCommand, session_shutdown
<1>2. CASE ~(killAllCommand \/ session_shutdown)
  <2>1. /\ UNCHANGED <<turn, before, tail, count, call, proc, request>>
        /\ phase' = "idle" => phase = "idle"
    BY <1>2 DEF SessionStep, clearFinished, StoppedInTime, DeadlinePasses,
                ForcedLive, ShutdownEnds, PhaseGoes, chain, child, session
  <2>2. \A c \in Child : Requested(c)
    BY DEF QueueInvariant
  <2> QED
    BY <2>1, <2>2, NoneGoesOn DEF Requested
<1> QED
  BY <1>1, <1>2

(***************************************************************************)
(* The inductive invariant of the queues of the children.                  *)
(***************************************************************************)
THEOREM QueueInvariantHolds == Spec => []QueueInvariant
<1>1. Init /\ LaunchInvariant => QueueInvariant
  <2> SUFFICES ASSUME Init, LaunchInvariant
               PROVE  QueueInvariant
    OBVIOUS
  <2>1. \A c \in Child : Chained(c) = {}
    BY DEF Init, Chained
  <2>2. \A c \in Child : tail[c] = NoTurn
    BY DEF Init, Queue
  <2>3. Lined
    <3>1. [t \in Turn |-> 0] \in [Turn -> Int]
      OBVIOUS
    <3>2. \A c \in Child : InLine(c, [t \in Turn |-> 0])
      BY <2>1, <2>2 DEF InLine
    <3> QED
      BY <3>1, <3>2 DEF Lined
  <2>4. \A c \in Child : Served(c) /\ Requested(c)
    BY <2>1, FS_EmptySet, OperationsAssumption DEF Init, Served, Requested
  <2>5. Entry
    BY TurnsOfCall, TurnsOfChild DEF Init, Entry, NoCall
  <2> QED
    BY <2>3, <2>4, <2>5 DEF QueueInvariant
<1>2. QueueInvariant /\ LaunchInvariant' /\ [Next]_vars => QueueInvariant'
  <2> SUFFICES ASSUME QueueInvariant, LaunchInvariant', [Next]_vars
               PROVE  QueueInvariant'
    OBVIOUS
  <2>1. CASE UNCHANGED vars
    <3>1. \A c \in Child : Requested(c)
      BY DEF QueueInvariant
    <3> QED
      BY <2>1, <3>1, NoneGoesOn DEF vars, chain, child, session, Requested
  <2>2. ASSUME NEW c \in Child, LaunchStep(c) \/ ChildStep(c)
        PROVE  QueueInvariant'
    BY <2>2, LaunchStepsKeepLines, ChildStepsKeepLines
  <2>3. ASSUME NEW c \in Child, KillBegins(c) \/ KillEnds(c)
        PROVE  QueueInvariant'
    BY <2>3, KillStepsKeepLines
  <2>4. ASSUME NEW k \in Call, CallStep(k)
        PROVE  QueueInvariant'
    BY <2>4, CallStepsKeepLines
  <2>5. ASSUME NEW t \in Turn, GiveUp(t) \/ CanceledTurnPasses(t) \/ TurnReleased(t)
        PROVE  QueueInvariant'
    BY <2>5, GiveUpKeepsLines, PassingKeepsLines
  <2>6. CASE SessionStep
    BY <2>6, SessionStepsKeepLines
  <2> QED
    BY <2>1, <2>2, <2>3, <2>4, <2>5, <2>6, StepKinds
<1> QED
  BY <1>1, <1>2, LaunchInvariantHolds, PTL DEF Spec

(***************************************************************************)
(* For any number of callers and any limit: on a child one operation at a  *)
(* time, until what it started has settled, whoever gave up in between.    *)
(***************************************************************************)
THEOREM OneAtATime == Spec => []OneOperationAtATime
<1>1. QueueInvariant => OneOperationAtATime
  <2> SUFFICES ASSUME QueueInvariant, NEW c \in Child
               PROVE  /\ Cardinality({t \in Chained(c) : Begun(t)}) <= 1
                      /\ request[c] # NoTurn => Begun(request[c])
    BY DEF OneOperationAtATime
  <2> DEFINE begun == {t \in Chained(c) : Begun(t)}
  <2>1. PICK pos \in [Turn -> Int] : InLine(c, pos)
    BY DEF QueueInvariant, Lined
  <2>2. ASSUME NEW t \in begun, NEW u \in begun
        PROVE  t = u
    <3>1. before[t] = NoTurn /\ before[u] = NoTurn
      BY DEF QueueInvariant, Served
    <3>2. pos[t] <= pos[u] /\ pos[u] <= pos[t]
      BY <2>1, <3>1 DEF InLine
    <3>3. pos[t] \in Int /\ pos[u] \in Int
      BY DEF Chained
    <3>4. pos[t] = pos[u]
      BY <3>2, <3>3
    <3> QED
      BY <2>1, <3>4 DEF InLine
  <2>3. Cardinality(begun) <= 1
    <3>1. CASE begun = {}
      BY <3>1, FS_EmptySet
    <3>2. ASSUME NEW t \in begun
          PROVE  Cardinality(begun) <= 1
      <4>1. begun = {t}
        BY <2>2
      <4>2. Cardinality({t}) = 1
        BY FS_Singleton
      <4> QED
        BY <4>1, <4>2
    <3> QED
      BY <3>1, <3>2
  <2> QED
    BY <2>3 DEF QueueInvariant, Requested
<1> QED
  BY <1>1, QueueInvariantHolds, PTL

(***************************************************************************)
(* The count of a queue is the number of turns in its line, and its tail   *)
(* the last of them, however many of its waiters gave up.                  *)
(***************************************************************************)
THEOREM AccountsHold == Spec => []QueueAccounts
<1>1. QueueInvariant => QueueAccounts
  <2> SUFFICES ASSUME QueueInvariant, NEW c \in Child
               PROVE  /\ count[c] = Cardinality(Chained(c))
                      /\ count[c] <= MAX_QUEUED_CHILD_OPERATIONS
                      /\ IF Chained(c) = {} THEN tail[c] = NoTurn
                                            ELSE tail[c] \in Chained(c)
    BY DEF QueueAccounts
  <2>1. PICK pos \in [Turn -> Int] : InLine(c, pos)
    BY DEF QueueInvariant, Lined
  <2> QED
    BY <2>1 DEF QueueInvariant, Served, InLine
<1> QED
  BY <1>1, QueueInvariantHolds, PTL

-----------------------------------------------------------------------------
(* What waits for what.                                                    *)

Unreleased(t) == turn[t] \notin {"none", "released"}

(***************************************************************************)
(* A turn waits only for one that has still to be released and that came   *)
(* before it.  The ranks exclude a circle, of reservations as well.        *)
(***************************************************************************)
WaitsBack ==
  /\ \A q \in Queue : tail[q] # NoTurn => Unreleased(tail[q]) /\ QueueOf(tail[q]) = q
  /\ \A t \in Turn : before[t] # NoTurn => Unreleased(before[t])
  /\ \E rank \in [Turn -> Nat] :
       \A t \in Turn : before[t] # NoTurn => rank[before[t]] < rank[t]

(* A cleanup waits for a termination only where there is one.              *)
CleanupEnds ==
  \A t \in Turn : turn[t] = "afterTermination" => termination[QueueOf(t)] # "none"

WaitInvariant == QueueInvariant /\ WaitsBack /\ CleanupEnds

(* A chained turn is that of a call or of a child, and so in some queue.   *)
LEMMA UnreleasedQueue ==
  ASSUME QueueInvariant, NEW t \in Turn, Unreleased(t)
  PROVE  /\ QueueOf(t) \in Queue
         /\ turn[t] \in {"afterTermination", "afterRequest"} => QueueOf(t) \in Child
<1>1. CallType
  BY DEF QueueInvariant, LaunchInvariant, TypeOK
<1>2. QueueOf(t) \in Queue
  BY <1>1, QueueType
<1>3. t[1] # "reservation" => QueueOf(t) \in Child
  BY LineOf DEF Unreleased
<1>4. ASSUME NEW c \in Child, t = Reservation(c)
      PROVE  turn[t] \notin {"afterTermination", "afterRequest"}
  BY <1>4 DEF QueueInvariant, LaunchInvariant, ChildOK
<1>5. t[1] = "reservation" => \E c \in Child : t = Reservation(c)
  BY TurnKinds, TurnsOfChild, TurnsOfCall
<1> QED
  BY <1>2, <1>3, <1>4, <1>5

(* Steps that move turns on in their places keep what waits for what.      *)
LEMMA PlacesKept ==
  ASSUME WaitsBack, UNCHANGED <<before, tail, call>>, ChainType,
         \A t \in Turn : Unreleased(t) => Unreleased(t)'
  PROVE  WaitsBack'
<1>1. \A t \in Turn : QueueOf(t)' = QueueOf(t)
  BY DEF QueueOf
<1>2. \A q \in Queue : tail[q] # NoTurn => tail[q] \in Turn
  BY DEF ChainType
<1>3. \A t \in Turn : before[t] # NoTurn => before[t] \in Turn
  BY DEF ChainType
<1> QED
  BY <1>1, <1>2, <1>3 DEF WaitsBack

(* A released turn is waited for by none.                                  *)
LEMMA ReleasedKept ==
  ASSUME QueueInvariant, WaitsBack, NEW t \in Turn, Unreleased(t), Release(t),
         \A u \in Turn : u # t => QueueOf(u)' = QueueOf(u)
  PROVE  WaitsBack'
<1>1. ChainType /\ CallType
  BY DEF QueueInvariant, LaunchInvariant, TypeOK
<1>2. /\ \A u \in Turn : u # t => turn'[u] = turn[u]
      /\ \A u \in Turn : before'[u] = IF t = u \/ t = before[u] THEN NoTurn ELSE before[u]
  BY <1>1, ReleaseEffect
<1>3. /\ \A q \in Queue : tail[q] # NoTurn => tail[q] \in Turn
      /\ \A u \in Turn : before[u] # NoTurn => before[u] \in Turn
      /\ QueueOf(t) \in Queue
  BY <1>1, QueueType DEF ChainType
<1>4. \A q \in Queue : tail'[q] = IF q = QueueOf(t) /\ tail[q] = t THEN NoTurn ELSE tail[q]
  <2>1. tail' = [tail EXCEPT ![QueueOf(t)] = IF tail[QueueOf(t)] = t THEN NoTurn
                                             ELSE tail[QueueOf(t)]]
    BY DEF Release
  <2> QED
    BY <1>1, <1>3, <2>1 DEF ChainType
<1>5. ASSUME NEW q \in Queue, NEW u, u = tail'[q], u # NoTurn
      PROVE  turn'[u] \notin {"none", "released"} /\ QueueOf(u)' = q
  <2>1. u = tail[q] /\ u # t /\ u \in Turn /\ Unreleased(u) /\ QueueOf(u) = q
    BY <1>3, <1>4, <1>5 DEF WaitsBack
  <2> QED
    BY <1>2, <2>1 DEF Unreleased
<1>6. ASSUME NEW u \in Turn, before'[u] # NoTurn
      PROVE  before'[u] = before[u] /\ turn'[before[u]] \notin {"none", "released"}
  <2>1. before'[u] = before[u] /\ before[u] # t
    BY <1>2, <1>6
  <2>2. before[u] \in Turn /\ Unreleased(before[u])
    BY <1>3, <1>6, <2>1 DEF WaitsBack
  <2> QED
    BY <1>2, <2>1, <2>2 DEF Unreleased
<1>9. PICK rank \in [Turn -> Nat] :
        \A u \in Turn : before[u] # NoTurn => rank[before[u]] < rank[u]
  BY DEF WaitsBack
<1>10. \A u \in Turn : before'[u] # NoTurn => rank[before'[u]] < rank[u]
  BY <1>6, <1>9
<1>11. \A q \in Queue : tail'[q] # NoTurn =>
         turn'[tail'[q]] \notin {"none", "released"} /\ (QueueOf(tail[q]) = q)'
  BY <1>5 DEF QueueOf
<1> QED
  BY <1>6, <1>9, <1>10, <1>11 DEF WaitsBack, Unreleased

(* Turns that enter come after all that are there.                         *)
LEMMA EnteredKept ==
  ASSUME QueueInvariant, WaitsBack, NEW ts \in SUBSET Turn, NEW queue \in [ts -> Queue],
         NEW as \in {"waiting", "running"}, Enter(queue, as),
         \A t \in ts : ~Unreleased(t) /\ QueueOf(t)' = queue[t],
         \A t \in Turn \ ts : QueueOf(t)' = QueueOf(t)
  PROVE  WaitsBack'
<1> DEFINE of(q) == CHOOSE t \in ts : queue[t] = q
<1>1. ChainType /\ DOMAIN queue = ts
  BY DEF QueueInvariant, LaunchInvariant, TypeOK
<1>2. /\ \A t \in Turn \ ts : turn'[t] = turn[t] /\ before'[t] = before[t]
      /\ \A t \in ts : turn'[t] = as /\ before'[t] = tail[queue[t]]
  BY <1>1 DEF Enter
<1>3. /\ \A q \in Queue : tail[q] # NoTurn => tail[q] \in Turn \ ts
      /\ \A t \in Turn : before[t] # NoTurn => before[t] \in Turn \ ts
  BY <1>1 DEF ChainType, WaitsBack
<1>4. \A t \in Turn \ ts : Unreleased(t)' <=> Unreleased(t)
  BY <1>2 DEF Unreleased
<1>5. \A t \in ts : Unreleased(t)'
  BY <1>2 DEF Unreleased
<1>6. ASSUME NEW q \in Queue
      PROVE  \/ tail'[q] \in ts /\ queue[tail'[q]] = q
             \/ tail'[q] = tail[q]
  <2>1. tail'[q] = IF q \in {queue[t] : t \in ts} THEN of(q) ELSE tail[q]
    BY <1>1 DEF Enter
  <2>2. q \in {queue[t] : t \in ts} => of(q) \in ts /\ queue[of(q)] = q
    OBVIOUS
  <2> HIDE DEF of
  <2> QED
    BY <2>1, <2>2
<1>7. ASSUME NEW q \in Queue, NEW u, u = tail'[q], u # NoTurn
      PROVE  turn'[u] \notin {"none", "released"} /\ QueueOf(u)' = q
  <2>1. CASE u \in ts /\ queue[u] = q
    BY <1>5, <2>1 DEF Unreleased
  <2>2. CASE u = tail[q]
    <3>1. u \in Turn \ ts /\ Unreleased(u) /\ QueueOf(u) = q
      BY <1>3, <1>7, <2>2 DEF WaitsBack
    <3> QED
      BY <1>2, <3>1 DEF Unreleased
  <2> QED
    BY <1>6, <1>7, <2>1, <2>2
<1>8. ASSUME NEW t \in Turn, before'[t] # NoTurn
      PROVE  /\ before'[t] \in Turn \ ts
             /\ turn'[before'[t]] \notin {"none", "released"}
  <2>1. CASE t \in ts
    <3>1. queue[t] \in Queue /\ before'[t] = tail[queue[t]]
      BY <1>2, <2>1
    <3> QED
      BY <1>2, <1>3, <1>8, <3>1 DEF WaitsBack, Unreleased
  <2>2. CASE t \notin ts
    BY <1>2, <1>3, <1>8, <2>2 DEF WaitsBack, Unreleased
  <2> QED
    BY <2>1, <2>2
<1>9. PICK rank \in [Turn -> Nat] :
        \A t \in Turn : before[t] # NoTurn => rank[before[t]] < rank[t]
  BY DEF WaitsBack
<1> DEFINE next == [t \in Turn |-> IF t \in ts
                                   THEN IF tail[queue[t]] = NoTurn THEN 0
                                        ELSE rank[tail[queue[t]]] + 1
                                   ELSE rank[t]]
<1>10. next \in [Turn -> Nat]
  <2>1. \A t \in ts : tail[queue[t]] # NoTurn => tail[queue[t]] \in Turn
    BY <1>3
  <2> QED
    BY <1>9, <2>1
<1>11. ASSUME NEW t \in Turn, before'[t] # NoTurn
       PROVE  next[before'[t]] < next[t]
  <2>1. before'[t] \in Turn \ ts /\ next[before'[t]] = rank[before'[t]]
    BY <1>8, <1>11
  <2>2. rank[before'[t]] \in Nat
    BY <1>9, <2>1
  <2>3. CASE t \in ts
    <3>1. before'[t] = tail[queue[t]] /\ next[t] = rank[before'[t]] + 1
      BY <1>2, <1>11, <2>3
    <3> HIDE DEF next
    <3> QED
      BY <2>1, <2>2, <3>1
  <2>4. CASE t \notin ts
    <3>1. before'[t] = before[t] /\ next[t] = rank[t]
      BY <1>2, <2>4
    <3> QED
      BY <1>9, <1>11, <2>1, <3>1
  <2> QED
    BY <2>3, <2>4
<1> HIDE DEF next
<1>12. \E r \in [Turn -> Nat] : \A t \in Turn : before'[t] # NoTurn => r[before'[t]] < r[t]
  BY <1>10, <1>11
<1>13. \A q \in Queue : tail'[q] # NoTurn =>
         turn'[tail'[q]] \notin {"none", "released"} /\ (QueueOf(tail[q]) = q)'
  BY <1>7 DEF QueueOf
<1> QED
  BY <1>8, <1>12, <1>13 DEF WaitsBack, Unreleased

(* A cleanup that begins reads the termination, which nothing takes back.  *)
LEMMA CleanupKept ==
  ASSUME QueueInvariant, CleanupEnds,
         \A c \in Child : termination[c] # "none" => termination'[c] # "none",
         \A t \in Turn : turn'[t] = "afterTermination" =>
           /\ Unreleased(t) /\ QueueOf(t)' = QueueOf(t)
           /\ \/ turn[t] = "afterTermination"
              \/ QueueOf(t) \in Child /\ turn'[t] = AfterOperation(QueueOf(t))
  PROVE  CleanupEnds'
<1> SUFFICES ASSUME NEW t \in Turn, turn'[t] = "afterTermination"
             PROVE  termination'[QueueOf(t)'] # "none"
  BY DEF CleanupEnds
<1>1. CASE turn[t] = "afterTermination"
  BY <1>1, UnreleasedQueue DEF CleanupEnds
<1>2. CASE turn[t] # "afterTermination"
  BY <1>2 DEF AfterOperation
<1> QED
  BY <1>1, <1>2

(* A termination once begun is not forgotten.                              *)
LEMMA TerminationGrows ==
  ASSUME TypeOK, Next
  PROVE  \A c \in Child : termination[c] # "none" => termination'[c] # "none"
<1>1. termination \in [Child -> {"none", "running", "done"}]
  BY DEF TypeOK, ChildType
<1>2. ASSUME NEW c \in Child, terminate(c)
      PROVE  \A d \in Child : termination[d] # "none" => termination'[d] # "none"
  BY <1>1, <1>2 DEF terminate
<1>3. ASSUME NEW c \in Child, LaunchStep(c) \/ ChildStep(c) \/ KillBegins(c) \/ KillEnds(c)
      PROVE  \A d \in Child : termination[d] # "none" => termination'[d] # "none"
  <2>1. \/ termination' = termination
        \/ termination' = [termination EXCEPT ![c] = "done"]
        \/ terminate(c)
    BY <1>3 DEF LaunchStep, ChildStep, subagent_start, launch, FilesFail, startRuntime,
                Launched, LaunchFailed, LaunchEnds, TerminationEnds, ProcessCloses,
                RequestSettles, forceCleanupRuntime, StartReplies, StartAborted,
                AbortedStartReplies, LaunchFails, LaunchContinues, KillBegins, KillEnds, child
  <2> QED
    BY <1>1, <1>2, <2>1
<1>4. ASSUME NEW k \in Call, CallStep(k)
      PROVE  \A d \in Child : termination[d] # "none" => termination'[d] # "none"
  <2>1. termination' = termination \/ terminate(call[k].on)
    BY <1>4 DEF CallStep, withChildOperation, SendBegins, RemoveBegins, CallEnds, child
  <2> QED
    BY <1>1, <2>1 DEF terminate
<1>5. ASSUME NEW t \in Turn, GiveUp(t) \/ CanceledTurnPasses(t) \/ TurnReleased(t)
      PROVE  termination' = termination
  BY <1>5 DEF GiveUp, CanceledTurnPasses, TurnReleased, child
<1>6. CASE SessionStep
  BY <1>6 DEF SessionStep, clearFinished, killAllCommand, session_shutdown, terminateActive,
              StoppedInTime, DeadlinePasses, ForcedLive, ShutdownEnds, PhaseGoes, child
<1> QED
  BY <1>3, <1>4, <1>5, <1>6, StepKinds

(* Steps in which no turn moves.                                           *)
LEMMA NoneMoves ==
  ASSUME WaitInvariant, Next, UNCHANGED <<turn, before, tail, call>>
  PROVE  WaitsBack' /\ CleanupEnds'
<1>1. TypeOK /\ ChainType
  BY DEF WaitInvariant, QueueInvariant, LaunchInvariant, TypeOK
<1>2. \A t \in Turn : QueueOf(t)' = QueueOf(t) /\ (Unreleased(t) => Unreleased(t)')
  BY DEF QueueOf, Unreleased
<1>3. WaitsBack'
  BY <1>1, <1>2, PlacesKept DEF WaitInvariant
<1>4. \A t \in Turn : turn'[t] = "afterTermination" =>
        Unreleased(t) /\ QueueOf(t)' = QueueOf(t) /\ turn[t] = "afterTermination"
  BY <1>2 DEF Unreleased
<1>20. \A c \in Child : termination[c] # "none" => termination'[c] # "none"
  BY <1>1, TerminationGrows
<1>21. CleanupEnds'
  <2>1. QueueInvariant /\ CleanupEnds
    BY DEF WaitInvariant
  <2> QED
    BY <1>20, <1>4, <2>1, CleanupKept
<1> QED
  BY <1>3, <1>21

(* A turn moves on in its place: it begins, settles or is canceled.        *)
LEMMA OneMoves ==
  ASSUME WaitInvariant, Next, NEW t \in Turn, turn[t] \in {"waiting", "running"},
         \/ \E what \in StepState : Begin(t, what)
         \/ Settle(t) /\ t[1] # "reservation"
         \/ Cancel(t),
         UNCHANGED call
  PROVE  WaitsBack' /\ CleanupEnds'
<1>1. TypeOK /\ ChainType /\ step \in [Turn -> StepState]
  BY DEF WaitInvariant, QueueInvariant, LaunchInvariant, TypeOK
<1>2. /\ UNCHANGED <<before, tail>>
      /\ \A u \in Turn : u # t => turn'[u] = turn[u]
      /\ \/ turn'[t] \in {"running", "canceled"}
         \/ t[1] # "reservation" /\ turn'[t] = AfterOperation(QueueOf(t))
  BY <1>1 DEF Begin, Settle, Cancel, ChainType
<1>3. AfterOperation(QueueOf(t)) \in {"afterTermination", "afterRequest"}
  BY DEF AfterOperation
<1>4. t[1] # "reservation" => QueueOf(t) \in Child
  BY LineOf DEF WaitInvariant
<1>5. \A u \in Turn : QueueOf(u)' = QueueOf(u)
  BY DEF QueueOf
<1>6. \A u \in Turn : Unreleased(u) => Unreleased(u)'
  BY <1>2, <1>3 DEF Unreleased
<1>7. WaitsBack'
  BY <1>1, <1>2, <1>6, PlacesKept DEF WaitInvariant
<1>8. ASSUME NEW u \in Turn, turn'[u] = "afterTermination"
      PROVE  /\ Unreleased(u)
             /\ \/ turn[u] = "afterTermination"
                \/ QueueOf(u) \in Child /\ turn'[u] = AfterOperation(QueueOf(u))
  <2>1. CASE u = t
    <3>1. t[1] # "reservation" /\ turn'[t] = AfterOperation(QueueOf(t))
      BY <1>2, <1>8, <2>1
    <3> QED
      BY <1>4, <2>1, <3>1 DEF Unreleased
  <2>2. CASE u # t
    BY <1>2, <1>8, <2>2 DEF Unreleased
  <2> QED
    BY <2>1, <2>2
<1>9. \A u \in Turn : turn'[u] = "afterTermination" =>
        /\ Unreleased(u) /\ QueueOf(u)' = QueueOf(u)
        /\ \/ turn[u] = "afterTermination"
           \/ QueueOf(u) \in Child /\ turn'[u] = AfterOperation(QueueOf(u))
  BY <1>5, <1>8
<1>20. \A c \in Child : termination[c] # "none" => termination'[c] # "none"
  BY <1>1, TerminationGrows
<1>21. CleanupEnds'
  <2>1. QueueInvariant /\ CleanupEnds
    BY DEF WaitInvariant
  <2> QED
    BY <1>20, <1>9, <2>1, CleanupKept
<1> QED
  BY <1>7, <1>21

(* A turn is released.                                                     *)
LEMMA OneLeaves ==
  ASSUME WaitInvariant, Next, NEW t \in Turn, Unreleased(t), Release(t),
         call' \in {call, CallAfter(t)}
  PROVE  WaitsBack' /\ CleanupEnds'
<1>1. TypeOK /\ ChainType /\ CallType
  BY DEF WaitInvariant, QueueInvariant, LaunchInvariant, TypeOK
<1>2. \A u \in Turn : u # t => QueueOf(u)' = QueueOf(u)
  <2> SUFFICES ASSUME NEW u \in Turn, u # t
               PROVE  QueueOf(u)' = QueueOf(u)
    OBVIOUS
  <2>1. ASSUME NEW k \in Call, u = CallTurn(k)
        PROVE  call'[k] = call[k]
    BY <1>1, <2>1 DEF CallAfter, CallType
  <2>2. u[1] = "call" => \E k \in Call : u = CallTurn(k) /\ u[2] = k
    BY TurnKinds, TurnsOfChild, TurnsOfCall
  <2> QED
    BY <2>1, <2>2 DEF QueueOf
<1>3. WaitsBack'
  BY <1>2, ReleasedKept DEF WaitInvariant
<1>4. /\ \A u \in Turn : u # t => turn'[u] = turn[u]
      /\ turn'[t] \in {"none", "released"}
  BY <1>1, ReleaseEffect
<1>5. \A u \in Turn : turn'[u] = "afterTermination" =>
        Unreleased(u) /\ QueueOf(u)' = QueueOf(u) /\ turn[u] = "afterTermination"
  BY <1>2, <1>4 DEF Unreleased
<1>20. \A c \in Child : termination[c] # "none" => termination'[c] # "none"
  BY <1>1, TerminationGrows
<1>21. CleanupEnds'
  <2>1. QueueInvariant /\ CleanupEnds
    BY DEF WaitInvariant
  <2> QED
    BY <1>20, <1>5, <2>1, CleanupKept
<1> QED
  BY <1>3, <1>21

(* Turns enter, each at the end of its queue.                              *)
LEMMA SomeCome ==
  ASSUME WaitInvariant, Next, NEW ts \in SUBSET Turn, NEW queue \in [ts -> Queue],
         NEW as \in {"waiting", "running"}, Enter(queue, as),
         \A t \in ts : ~Unreleased(t) /\ QueueOf(t)' = queue[t],
         \A t \in Turn \ ts : QueueOf(t)' = QueueOf(t)
  PROVE  WaitsBack' /\ CleanupEnds'
<1>1. TypeOK /\ ChainType /\ DOMAIN queue = ts
  BY DEF WaitInvariant, QueueInvariant, LaunchInvariant, TypeOK
<1>2. WaitsBack'
  BY EnteredKept DEF WaitInvariant
<1>3. \A t \in Turn : turn'[t] = IF t \in ts THEN as ELSE turn[t]
  BY <1>1 DEF Enter
<1>4. \A t \in Turn : turn'[t] = "afterTermination" =>
        Unreleased(t) /\ QueueOf(t)' = QueueOf(t) /\ turn[t] = "afterTermination"
  BY <1>3 DEF Unreleased
<1>20. \A c \in Child : termination[c] # "none" => termination'[c] # "none"
  BY <1>1, TerminationGrows
<1>21. CleanupEnds'
  <2>1. QueueInvariant /\ CleanupEnds
    BY DEF WaitInvariant
  <2> QED
    BY <1>20, <1>4, <2>1, CleanupKept
<1> QED
  BY <1>2, <1>21

(* What a launch and its reservation do.                                   *)
LEMMA LaunchStepsWait ==
  ASSUME WaitInvariant, Next, NEW c \in Child, LaunchStep(c)
  PROVE  WaitsBack' /\ CleanupEnds'
<1>1. /\ Reservation(c) \in Turn /\ Launch(c) \in Turn /\ Launch(c)[1] = "launch"
      /\ QueueOf(Reservation(c)) = Launches /\ QueueOf(Launch(c)) = c
      /\ ChildOK(c) /\ c \in Queue /\ Launches \in Queue
  BY TurnsOfChild DEF WaitInvariant, QueueInvariant, LaunchInvariant, Queue
<1>2. call' = call => \A t \in Turn : QueueOf(t)' = QueueOf(t)
  BY DEF QueueOf
<1>3. CASE subagent_start(c)
  <2> DEFINE ts == {Reservation(c)}
             queue == [t \in ts |-> Launches]
  <2>1. Enter(queue, "waiting") /\ call' = call /\ ~Unreleased(Reservation(c))
    BY <1>1, <1>3 DEF subagent_start, ChildOK, Unreleased
  <2>2. ts \in SUBSET Turn /\ queue \in [ts -> Queue] /\ \A t \in ts : queue[t] = Launches
    BY <1>1
  <2>3. \A t \in ts : t = Reservation(c)
    OBVIOUS
  <2> HIDE DEF ts, queue
  <2> QED
    BY <1>1, <1>2, <2>1, <2>2, <2>3, SomeCome
<1>4. CASE launch(c)
  <2>1. turn[Reservation(c)] = "waiting" /\ call' = call
    BY <1>4 DEF launch, MayBegin
  <2>2. Release(Reservation(c)) \/ Begin(Reservation(c), "files")
    BY <1>4 DEF launch
  <2>3. "files" \in StepState
    BY DEF StepState
  <2> QED
    BY <1>1, <2>1, <2>2, <2>3, OneLeaves, OneMoves DEF Unreleased
<1>5. CASE FilesFail(c) \/ LaunchEnds(c)
  <2>1. Release(Reservation(c)) /\ call' = call /\ Unreleased(Reservation(c))
    BY <1>1, <1>5 DEF FilesFail, LaunchEnds, ChildOK, Unreleased
  <2> QED
    BY <1>1, <2>1, OneLeaves
<1>6. CASE startRuntime(c)
  <2> DEFINE ts == {Launch(c)}
             queue == [t \in ts |-> c]
  <2>1. Enter(queue, "running") /\ call' = call /\ ~Unreleased(Launch(c))
    BY <1>1, <1>6 DEF startRuntime, ChildOK, Unreleased
  <2>2. ts \in SUBSET Turn /\ queue \in [ts -> Queue] /\ \A t \in ts : queue[t] = c
    BY <1>1
  <2>3. \A t \in ts : t = Launch(c)
    OBVIOUS
  <2> HIDE DEF ts, queue
  <2> QED
    BY <1>1, <1>2, <2>1, <2>2, <2>3, SomeCome
<1>7. CASE Launched(c) \/ LaunchFailed(c)
  <2>1. turn[Launch(c)] = "running" /\ Settle(Launch(c)) /\ call' = call
    BY <1>1, <1>7 DEF Launched, LaunchFailed, ChildOK
  <2> QED
    BY <1>1, <2>1, OneMoves
<1> QED
  BY <1>3, <1>4, <1>5, <1>6, <1>7 DEF LaunchStep

(* What calls and kills do with their turns.                               *)
LEMMA OperationStepsWait ==
  ASSUME WaitInvariant, Next,
         \/ \E k \in Call : CallStep(k)
         \/ \E c \in Child : KillBegins(c) \/ KillEnds(c)
  PROVE  WaitsBack' /\ CleanupEnds'
<1>0. "terminate" \in StepState /\ "response" \in StepState
  BY DEF StepState
<1>1. ASSUME NEW c \in Child, KillBegins(c) \/ KillEnds(c)
      PROVE  WaitsBack' /\ CleanupEnds'
  <2>1. /\ Kill(c) \in Turn /\ Kill(c)[1] # "reservation"
        /\ turn[Kill(c)] \in {"waiting", "running"} /\ call' = call
        /\ Begin(Kill(c), "terminate") \/ Settle(Kill(c))
    BY <1>1, TurnsOfChild DEF KillBegins, KillEnds, MayBegin, Kill
  <2> QED
    BY <1>0, <2>1, OneMoves
<1>2. ASSUME NEW k \in Call, SendBegins(k) \/ RemoveBegins(k) \/ CallEnds(k)
      PROVE  WaitsBack' /\ CleanupEnds'
  <2>1. /\ CallTurn(k) \in Turn /\ CallTurn(k)[1] # "reservation"
        /\ turn[CallTurn(k)] \in {"waiting", "running"} /\ call' = call
        /\ \E what \in {"terminate", "response"} :
             Begin(CallTurn(k), what) \/ Settle(CallTurn(k))
    BY <1>2, TurnsOfCall DEF SendBegins, RemoveBegins, CallEnds, MayBegin, CallTurn
  <2> QED
    BY <1>0, <2>1, OneMoves
<1>3. ASSUME NEW k \in Call, NEW what \in {"send", "remove"}, NEW c \in Child,
             withChildOperation(k, what, c)
      PROVE  WaitsBack' /\ CleanupEnds'
  <2> DEFINE ts == {CallTurn(k)}
             queue == [t \in ts |-> c]
  <2>1. /\ Enter(queue, "waiting")
        /\ call' = [call EXCEPT ![k] = [does |-> what, on |-> c]]
        /\ CallTurn(k) \in Turn /\ CallTurn(k)[1] = "call" /\ CallTurn(k)[2] = k
        /\ ~Unreleased(CallTurn(k)) /\ CallType
    BY <1>3, TurnsOfCall
    DEF withChildOperation, WaitInvariant, QueueInvariant, LaunchInvariant, TypeOK, Entry,
        Unreleased
  <2>2. /\ call'[k] = [does |-> what, on |-> c]
        /\ \A j \in Call : j # k => call'[j] = call[j]
    BY <2>1 DEF CallType
  <2>3. QueueOf(CallTurn(k))' = c
    BY <2>2, <2>1 DEF QueueOf
  <2>4. ASSUME NEW t \in Turn, t # CallTurn(k)
        PROVE  QueueOf(t)' = QueueOf(t)
    <3>1. t[1] = "call" => \E j \in Call : t = CallTurn(j) /\ t[2] = j
      BY TurnKinds, TurnsOfChild, TurnsOfCall
    <3> QED
      BY <2>2, <2>4, <3>1 DEF QueueOf
  <2>5. /\ ts \in SUBSET Turn /\ queue \in [ts -> Queue]
        /\ \A t \in ts : queue[t] = c /\ t = CallTurn(k)
        /\ CallTurn(k) \in ts
    BY <2>1 DEF Queue
  <2> HIDE DEF ts, queue
  <2> QED
    BY <2>1, <2>3, <2>4, <2>5, SomeCome
<1> QED
  BY <1>1, <1>2, <1>3 DEF CallStep

(* All kills of a command come at once, each to its own queue.             *)
LEMMA SessionStepsWait ==
  ASSUME WaitInvariant, Next, SessionStep
  PROVE  WaitsBack' /\ CleanupEnds'
<1>1. ASSUME NEW next \in {"killing", "stopping"}, terminateActive(next)
      PROVE  WaitsBack' /\ CleanupEnds'
  <2> DEFINE ts == {Kill(c) : c \in {d \in Active : ~QueueFull(d)}}
             queue == [t \in ts |-> t[2]]
  <2>1. /\ Enter(queue, "waiting") /\ call' = call /\ phase = "idle"
        /\ Entry /\ Active \subseteq Child
    BY <1>1 DEF terminateActive, WaitInvariant, QueueInvariant, LaunchInvariant, TypeOK,
                SessionType, Active
  <2>2. ASSUME NEW t \in ts
        PROVE  t \in Turn /\ ~Unreleased(t) /\ QueueOf(t) = queue[t] /\ queue[t] \in Queue
    <3>1. PICK c \in Child : t = Kill(c)
      BY <2>1
    <3> QED
      BY <2>1, <3>1, TurnsOfChild DEF Entry, Unreleased, Queue
  <2>3. ts \in SUBSET Turn /\ queue \in [ts -> Queue]
    BY <2>2
  <2>4. \A t \in Turn : QueueOf(t)' = QueueOf(t)
    BY <2>1 DEF QueueOf
  <2> HIDE DEF ts, queue
  <2> QED
    BY <2>1, <2>2, <2>3, <2>4, SomeCome
<1>2. CASE ~(killAllCommand \/ session_shutdown)
  BY <1>2, NoneMoves DEF SessionStep, clearFinished, StoppedInTime, DeadlinePasses,
                         ForcedLive, ShutdownEnds, PhaseGoes, chain
<1> QED
  BY <1>1, <1>2 DEF killAllCommand, session_shutdown

(***************************************************************************)
(* No wait leads in a circle, for any children, callers and limits.        *)
(***************************************************************************)
THEOREM WaitInvariantHolds == Spec => []WaitInvariant
<1>1. Init /\ QueueInvariant => WaitInvariant
  <2> SUFFICES ASSUME Init
               PROVE  WaitsBack /\ CleanupEnds
    BY DEF WaitInvariant
  <2>1. [t \in Turn |-> 0] \in [Turn -> Nat]
    OBVIOUS
  <2>2. \E rank \in [Turn -> Nat] :
          \A t \in Turn : before[t] # NoTurn => rank[before[t]] < rank[t]
    BY <2>1 DEF Init
  <2> QED
    BY <2>2 DEF Init, WaitsBack, CleanupEnds
<1>2. WaitInvariant /\ QueueInvariant' /\ [Next]_vars => WaitInvariant'
  <2> SUFFICES ASSUME WaitInvariant, [Next]_vars
               PROVE  WaitsBack' /\ CleanupEnds'
    BY DEF WaitInvariant
  <2>1. CASE UNCHANGED vars
    BY <2>1 DEF vars, chain, child, session, WaitInvariant, WaitsBack, CleanupEnds,
                Unreleased, QueueOf
  <2>2. ASSUME Next, NEW c \in Child, LaunchStep(c)
        PROVE  WaitsBack' /\ CleanupEnds'
    BY <2>2, LaunchStepsWait
  <2>3. ASSUME Next, NEW c \in Child, ChildStep(c)
        PROVE  WaitsBack' /\ CleanupEnds'
    BY <2>3, NoneMoves
    DEF ChildStep, TerminationEnds, ProcessCloses, RequestSettles, forceCleanupRuntime,
        StartReplies, StartAborted, AbortedStartReplies, LaunchFails, LaunchContinues, chain
  <2>4. ASSUME Next, NEW t \in Turn, GiveUp(t) \/ CanceledTurnPasses(t) \/ TurnReleased(t)
        PROVE  WaitsBack' /\ CleanupEnds'
    BY <2>4, OneMoves, OneLeaves
    DEF GiveUp, CanceledTurnPasses, TurnReleased, Unreleased
  <2> QED
    BY <2>1, <2>2, <2>3, <2>4, OperationStepsWait, SessionStepsWait, StepKinds
<1> QED
  BY <1>1, <1>2, QueueInvariantHolds, PTL DEF Spec

(* Numbers that are there have a least one. *)
LEMMA LeastRank ==
  ASSUME NEW S \in SUBSET Turn, S # {}, NEW rank \in [Turn -> Nat]
  PROVE  \E t \in S : \A u \in S : rank[t] <= rank[u]
<1> DEFINE N == {rank[t] : t \in S}
<1>1. N \in SUBSET Nat /\ N # {}
  OBVIOUS
<1> HIDE DEF N
<1>2. PICK n \in N : \A m \in N : n <= m
  <2> DEFINE less == OpToRel(<, Nat)
  <2>1. \E n \in N : \A m \in N : <<m, n>> \notin less
    <3> HIDE DEF less
    <3>1. IsWellFoundedOn(less, Nat)
      BY NatLessThanWellFounded DEF less
    <3> QED
      BY <1>1, <3>1, WFMin
  <2>2. PICK n \in N : \A m \in N : <<m, n>> \notin less
    BY <2>1
  <2>3. \A i, j \in Nat : i < j => <<i, j>> \in less
    BY DEF OpToRel
  <2> HIDE DEF less
  <2>4. \A m \in N : n <= m
    <3> SUFFICES ASSUME NEW m \in N
                 PROVE  n <= m
      OBVIOUS
    <3>1. m \in Nat /\ n \in Nat /\ <<m, n>> \notin less
      BY <1>1, <2>2
    <3>2. ~(m < n)
      BY <2>3, <3>1
    <3> QED
      BY <3>1, <3>2
  <2> QED
    BY <2>4
<1> QED
  BY <1>2 DEF N

(***************************************************************************)
(* The tools and the session control never come to a halt with a turn, a   *)
(* reply or a shutdown unfinished (withChildOperation, waitForTurn and     *)
(* session_shutdown in index.ts): something can go on without a child.     *)
(***************************************************************************)
THEOREM NeverStuck == Spec => []UnfinishedGoesOn
<1>1. WaitInvariant => UnfinishedGoesOn
  <2> SUFFICES ASSUME WaitInvariant, Unfinished, ~CanGoOn
               PROVE  FALSE
    BY DEF UnfinishedGoesOn
  <2>0. TypeOK /\ QueueInvariant /\ \A c \in Child : ChildOK(c)
    BY DEF WaitInvariant, QueueInvariant, LaunchInvariant
  <2>1. \A c \in Child : /\ termination[c] \in {"none", "done"} /\ request[c] = NoTurn
                         /\ start[c] \notin {"serializing", "terminating"}
    BY <2>0 DEF CanGoOn, Terminated, TypeOK, ChildType
  <2>2. phase \in {"idle", "killing", "down"}
    BY <2>0 DEF CanGoOn, TypeOK, SessionType, PhaseState
  <2>3. \A t \in Turn : turn[t] # "waiting"
    BY DEF CanGoOn
  <2>4. \A t \in Turn : turn[t] # "running"
    <3>1. \A k \in Call : turn[CallTurn(k)] # "running"
      BY DEF CanGoOn
    <3>2. ASSUME NEW c \in Child
          PROVE  turn[Kill(c)] # "running" /\ turn[Launch(c)] # "running"
      BY <2>0, <2>1 DEF CanGoOn, Terminated, ChildOK
    <3>3. ASSUME NEW c \in Child
          PROVE  turn[Reservation(c)] # "running"
      BY <2>0, <2>3, <3>2, TurnsOfChild DEF CanGoOn, ChildOK, Ended
    <3> QED
      BY <3>1, <3>2, <3>3, TurnKinds
  <2>5. ASSUME NEW t \in Turn
        PROVE  turn[t] \notin {"afterTermination", "afterRequest"}
    <3> SUFFICES ASSUME turn[t] \in {"afterTermination", "afterRequest"}
                 PROVE  FALSE
      OBVIOUS
    <3>1. QueueOf(t) \in Child
      BY <2>0, UnreleasedQueue DEF Unreleased
    <3>2. CleanupSettled(t)
      BY <2>1, <3>1 DEF WaitInvariant, CleanupEnds, CleanupSettled
    <3> QED
      BY <3>2 DEF CanGoOn
  <2> DEFINE Left == {t \in Turn : Unreleased(t)}
  <2>6. Left # {}
    BY <2>1, <2>2 DEF Unfinished, Unreleased
  <2>7. \A t \in Left : turn[t] = "canceled"
    BY <2>0, <2>3, <2>4, <2>5 DEF Unreleased, TypeOK, ChainType, TurnState
  <2>8. PICK rank \in [Turn -> Nat] :
          \A t \in Turn : before[t] # NoTurn => rank[before[t]] < rank[t]
    BY DEF WaitInvariant, WaitsBack
  <2>9. PICK t \in Left : \A u \in Left : rank[t] <= rank[u]
    BY <2>6, <2>8, LeastRank
  <2>10. before[t] # NoTurn
    BY <2>7, <2>9 DEF CanGoOn
  <2>11. before[t] \in Left
    BY <2>0, <2>10 DEF WaitInvariant, WaitsBack, TypeOK, ChainType
  <2> QED
    BY <2>8, <2>9, <2>10, <2>11
<1> QED
  BY <1>1, WaitInvariantHolds, PTL
=============================================================================
