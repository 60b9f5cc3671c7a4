------------------------- MODULE SubagentOperations -------------------------
(***************************************************************************)
(* The tools and the session control of the subagent extension (index.ts): *)
(* one launch at a time, one operation at a time on each child, and a      *)
(* shutdown with a deadline.  Every wait may end early, by its signal or   *)
(* its timer, while what it waited for goes on.                            *)
(*                                                                         *)
(* A turn is a place in a chain of promises: of launches (Launches), or of *)
(* the operations of one child.  Its holder waits for the turn before it.  *)
(* What a child's runs do is SubagentHandle's matter, how its process is   *)
(* ended RpcTransport's; here it is live until its transport is closed.    *)
(***************************************************************************)
EXTENDS Integers, FiniteSets

CONSTANTS
  Child,                  \* bound: the calls of subagent_start, by their child
  Call,                   \* bound: the callers of steer, interrupt and remove
  MAX_ACTIVE_CHILDREN,
  MAX_QUEUED_CHILD_OPERATIONS

Launches == "launches"
Queue == Child \union {Launches}

ASSUME OperationsAssumption ==
  /\ IsFiniteSet(Child) /\ IsFiniteSet(Call)
  /\ Launches \notin Child
  /\ MAX_ACTIVE_CHILDREN \in Nat \ {0}
  /\ MAX_QUEUED_CHILD_OPERATIONS \in Nat \ {0}

Reservation(c) == <<"reservation", c>>
Launch(c) == <<"launch", c>>
Kill(c) == <<"kill", c>>      \* of subagents-kill-all or session_shutdown
CallTurn(k) == <<"call", k>>
NoTurn == <<"none", "none">>
NoCall == [does |-> "none", on |-> Launches]

ChildTurn == {"reservation", "launch", "kill"} \X Child
Turn == ChildTurn \union ({"call"} \X Call)

VARIABLES
  turn,         \* per turn: none, waiting, canceled, running, afterTermination,
                \* afterRequest, released
  before,       \* per turn: the unreleased turn it is chained to
  tail,         \* per queue: launchReservationTail, childOperationTails
  count,        \* childOperationCounts
  step,         \* per turn: what its running operation awaits
  start,        \* per call of subagent_start: how far it is
  call,         \* per caller: what it does, and to which child
  proc,         \* per child: none, live, closed
  tracked,      \* the keys of handles
  termination,  \* per child: terminationPromise
  request,      \* per child: the turn of an unsettled rpcOperationPromise
  phase,        \* idle; subagents-kill-all: killing;
                \* session_shutdown: stopping, forceLive, forceAll, down
  sweep,        \* the children whose runtimes are still to be forced
  late          \* history: children that started after the last sweep's listing

chain == <<turn, before, tail, count>>
child == <<proc, termination, request>>
session == <<phase, sweep>>
vars == <<chain, step, start, call, child, tracked, session, late>>

Init ==
  /\ turn = [t \in Turn |-> "none"]
  /\ before = [t \in Turn |-> NoTurn]
  /\ tail = [q \in Queue |-> NoTurn]
  /\ count = [c \in Child |-> 0]
  /\ step = [t \in Turn |-> "none"]
  /\ start = [c \in Child |-> "idle"]
  /\ call = [k \in Call |-> NoCall]
  /\ proc = [c \in Child |-> "none"]
  /\ tracked = {}
  /\ termination = [c \in Child |-> "none"]
  /\ request = [c \in Child |-> NoTurn]
  /\ phase = "idle" /\ sweep = {}
  /\ late = {}

active(c) == proc[c] = "live"
Active == {c \in tracked : active(c)}

-----------------------------------------------------------------------------
(* Turns.                                                                  *)

QueueOf(t) ==
  CASE t[1] = "reservation" -> Launches
    [] t[1] = "call" -> call[t[2]].on
    [] OTHER -> t[2]

(* The turns of one child that are chained and not released. *)
Chained(c) ==
  {t \in Turn : /\ turn[t] \notin {"none", "released"}
                /\ t[1] # "reservation" /\ QueueOf(t) = c}

(* The operation has begun, and what it started has not settled. *)
Begun(t) == turn[t] \in {"running", "afterTermination", "afterRequest"}

(* The operation has ended for its caller, or never began. *)
Ended(t) == turn[t] \notin {"waiting", "running"}

QueueFull(c) == count[c] >= MAX_QUEUED_CHILD_OPERATIONS

(* The turns in queue's domain enter, at most one in each queue. *)
Enter(queue, as) ==
  LET ts == DOMAIN queue
      entering == {queue[t] : t \in ts}
      of(q) == CHOOSE t \in ts : queue[t] = q
  IN  /\ turn' = [t \in Turn |-> IF t \in ts THEN as ELSE turn[t]]
      /\ before' = [t \in Turn |-> IF t \in ts THEN tail[queue[t]] ELSE before[t]]
      /\ tail' = [q \in Queue |-> IF q \in entering THEN of(q) ELSE tail[q]]
      /\ count' = [c \in Child |-> IF c \in entering THEN count[c] + 1 ELSE count[c]]

MayBegin(t) == turn[t] = "waiting" /\ before[t] = NoTurn

(* Mutant: the place of a canceled waiter stays counted. *)
CountedIfBegun(t) == t[1] # "reservation" /\ turn[t] # "canceled"

Counted(t) == t[1] # "reservation"

(* releaseCurrent: the turn after this one may begin. *)
Release(t) ==
  LET q == QueueOf(t)
  IN  /\ turn' = [turn EXCEPT ![t] = IF t[1] = "call" THEN "none" ELSE "released"]
      /\ before' = [u \in Turn |-> IF t \in {u, before[u]} THEN NoTurn ELSE before[u]]
      /\ tail' = [tail EXCEPT ![q] = IF @ = t THEN NoTurn ELSE @]
      /\ count' = IF Counted(t) THEN [count EXCEPT ![q] = @ - 1] ELSE count

CallAfter(t) == [k \in Call |-> IF t = CallTurn(k) THEN NoCall ELSE call[k]]

(* Mutant: a waiter that gives up lets the next one through. *)
Unchained(t) == Release(t)

(* A canceled waiter stays chained to its live predecessor. *)
Cancel(t) == turn' = [turn EXCEPT ![t] = "canceled"] /\ UNCHANGED <<before, tail, count>>

CanceledTurnPasses(t) ==
  /\ turn[t] = "canceled" /\ before[t] = NoTurn
  /\ Release(t)
  /\ call' = CallAfter(t)
  /\ UNCHANGED <<step, start, child, tracked, session, late>>

(* Mutant: the cleanup waits for a termination that nobody may have started. *)
ForTermination(c) == "afterTermination"

(* What settleCleanup awaits is read when the operation settles. *)
AfterOperation(c) ==
  IF termination[c] # "none" THEN "afterTermination" ELSE "afterRequest"

CleanupSettled(t) ==
  LET c == QueueOf(t)
  IN  \/ turn[t] = "afterTermination" /\ termination[c] = "done"
      \/ turn[t] = "afterRequest" /\ request[c] = NoTurn

TurnReleased(t) ==
  /\ turn[t] \in {"afterTermination", "afterRequest"}
  /\ CleanupSettled(t)
  /\ Release(t)
  /\ call' = CallAfter(t)
  /\ UNCHANGED <<step, start, child, tracked, session, late>>

-----------------------------------------------------------------------------
(* Children.                                                               *)

(* The close of a transport rejects the request under way, and is what the *)
(* cleanup of the runtime waits for.                                       *)
Close(cs) ==
  /\ proc' = [c \in Child |-> IF c \in cs THEN "closed" ELSE proc[c]]
  /\ request' = [c \in Child |-> IF c \in cs THEN NoTurn ELSE request[c]]
  /\ sweep' = sweep \ cs

(* The first call starts the termination that later calls share. *)
terminate(c) ==
  termination' = IF active(c) /\ termination[c] = "none"
                 THEN [termination EXCEPT ![c] = "running"] ELSE termination

(* Mutant: nobody waits for the termination. *)
NotAwaited(c) == TRUE

(* A child that stopped by itself has no termination to wait for. *)
Terminated(c) == termination[c] # "running"

(* The transport's terminate ended, or its time did and it was forced. *)
TerminationEnds(c) ==
  /\ termination[c] = "running"
  /\ termination' = [termination EXCEPT ![c] = "done"]
  /\ Close({c})
  /\ UNCHANGED <<chain, step, start, call, tracked, phase, late>>

(* The child exits, or its transport is fenced. *)
ProcessCloses(c) ==
  /\ active(c)
  /\ Close({c})
  /\ UNCHANGED <<chain, step, start, call, tracked, termination, phase, late>>

sendRpc(t) == request' = [request EXCEPT ![QueueOf(t)] = t]

(* A response, the request's timeout, or its signal. *)
RequestSettles(c) ==
  /\ request[c] # NoTurn
  /\ request' = [request EXCEPT ![c] = NoTurn]
  /\ UNCHANGED <<chain, step, start, call, proc, tracked, termination, session, late>>

Await(t, what) == step' = [step EXCEPT ![t] = what]

Begin(t, what) ==
  /\ turn' = [turn EXCEPT ![t] = "running"]
  /\ Await(t, what)
  /\ UNCHANGED <<before, tail, count>>

(* The operation of a turn on a child settled. *)
Settle(t) ==
  /\ turn' = [turn EXCEPT ![t] = AfterOperation(QueueOf(t))]
  /\ Await(t, "none")
  /\ UNCHANGED <<before, tail, count>>

-----------------------------------------------------------------------------
(* subagent_start.                                                         *)

Starting(c, how) == start' = [start EXCEPT ![c] = how]

subagent_start(c) ==
  /\ start[c] = "idle"
  /\ Starting(c, "pending")
  /\ Enter([t \in {Reservation(c)} |-> Launches], "waiting")
  /\ UNCHANGED <<step, call, child, tracked, session, late>>

pendingLaunches == Cardinality({c \in Child : turn[Reservation(c)] = "running"})

(* Mutant: off by one. *)
LimitOffByOne == Cardinality(Active) + pendingLaunches > MAX_ACTIVE_CHILDREN

LimitReached == Cardinality(Active) + pendingLaunches >= MAX_ACTIVE_CHILDREN

(* The reservation's turn: the limit, then the session directory. *)
launch(c) ==
  /\ MayBegin(Reservation(c))
  /\ IF LimitReached
     THEN /\ Release(Reservation(c))
          /\ Starting(c, "failed")
          /\ UNCHANGED step
     ELSE /\ Begin(Reservation(c), "files")
          /\ UNCHANGED start
  /\ UNCHANGED <<call, child, tracked, session, late>>

(* The cwd, the directory or the signal. *)
FilesFail(c) ==
  /\ step[Reservation(c)] = "files"
  /\ Await(Reservation(c), "none")
  /\ Release(Reservation(c))
  /\ Starting(c, "failed")
  /\ UNCHANGED <<call, child, tracked, session, late>>

(***************************************************************************)
(* The handle, its first operation and its runtime, in one turn of the     *)
(* event loop, up to the wait for the answer to get_state.  If the process *)
(* cannot be spawned, the handle is closed and forgotten at once.  The      *)
(* microtasks between handles.set and the spawn are one step here: an       *)
(* abort by another promise callback of the same turn is left out.          *)
(***************************************************************************)
startRuntime(c) ==
  /\ step[Reservation(c)] = "files"
  /\ Enter([t \in {Launch(c)} |-> c], "running")
  /\ \/ /\ step' = [step EXCEPT ![Reservation(c)] = "none", ![Launch(c)] = "get_state"]
        /\ proc' = [proc EXCEPT ![c] = "live"]
        /\ request' = [request EXCEPT ![c] = Launch(c)]
        /\ tracked' = tracked \union {c}
        /\ late' = IF phase \in {"forceAll", "down"} THEN late \union {c} ELSE late
        /\ UNCHANGED termination
     \/ /\ step' = [step EXCEPT ![Reservation(c)] = "none", ![Launch(c)] = "terminate"]
        /\ proc' = [proc EXCEPT ![c] = "closed"]
        /\ termination' = [termination EXCEPT ![c] = "done"]
        /\ tracked' = tracked \union {c}
        /\ UNCHANGED <<request, late>>
  /\ UNCHANGED <<start, call, session>>

(* The child's state is known and its extension healthy: the prompt. *)
LaunchContinues(c) ==
  LET t == Launch(c)
  IN  /\ step[t] = "get_state" /\ request[c] # t
      /\ active(c)
      /\ Await(t, "prompt")
      /\ sendRpc(t)
      /\ UNCHANGED <<chain, start, call, proc, tracked, termination, session, late>>

(* The settled launch passes its reservation on. *)
LaunchEnds(c) ==
  /\ turn[Reservation(c)] = "running"
  /\ turn[Launch(c)] # "none" /\ Ended(Launch(c))
  /\ Release(Reservation(c))
  /\ UNCHANGED <<step, start, call, child, tracked, session, late>>

Launched(c) ==
  /\ step[Launch(c)] = "prompt" /\ request[c] # Launch(c)
  /\ Settle(Launch(c))
  /\ Starting(c, "serializing")
  /\ UNCHANGED <<call, child, tracked, session, late>>

(* A wait failed, timed out or was aborted: the child is terminated. *)
LaunchFails(c) ==
  /\ step[Launch(c)] \in {"get_state", "prompt"}
  /\ Await(Launch(c), "terminate")
  /\ terminate(c)
  /\ UNCHANGED <<chain, start, call, proc, tracked, request, session, late>>

LaunchFailed(c) ==
  /\ step[Launch(c)] = "terminate"
  /\ Terminated(c)
  /\ tracked' = tracked \ {c}
  /\ Settle(Launch(c))
  /\ Starting(c, "failed")
  /\ UNCHANGED <<call, child, session, late>>

(* The reply's transcript is read; an abort then terminates the child too. *)
StartReplies(c) ==
  /\ start[c] = "serializing"
  /\ Starting(c, "ok")
  /\ UNCHANGED <<chain, step, call, child, tracked, session, late>>

StartAborted(c) ==
  /\ start[c] = "serializing"
  /\ Starting(c, "terminating")
  /\ terminate(c)
  /\ UNCHANGED <<chain, step, call, proc, tracked, request, session, late>>

AbortedStartReplies(c) ==
  /\ start[c] = "terminating"
  /\ Terminated(c)
  /\ Starting(c, "failed")
  /\ UNCHANGED <<chain, step, call, child, tracked, session, late>>

-----------------------------------------------------------------------------
(* subagent_steer, subagent_interrupt and subagent_remove.                 *)

(* A call on a tracked child takes its place in the queue, if it has room. *)
withChildOperation(k, what, c) ==
  /\ call[k].does = "none"
  /\ c \in tracked
  /\ ~QueueFull(c)
  /\ call' = [call EXCEPT ![k] = [does |-> what, on |-> c]]
  /\ Enter([t \in {CallTurn(k)} |-> c], "waiting")
  /\ UNCHANGED <<step, start, child, tracked, session, late>>

(* deliverMessage and interrupt send one request, unless the child stopped *)
(* or has nothing to interrupt.                                            *)
SendBegins(k) ==
  LET t == CallTurn(k)
  IN  /\ call[k].does = "send"
      /\ MayBegin(t)
      /\ \/ active(call[k].on) /\ Begin(t, "response") /\ sendRpc(t)
         \/ Settle(t) /\ UNCHANGED request
      /\ UNCHANGED <<start, call, proc, termination, tracked, session, late>>

RemoveBegins(k) ==
  LET t == CallTurn(k)  c == call[k].on
  IN  /\ call[k].does = "remove"
      /\ MayBegin(t)
      /\ terminate(c)
      /\ IF active(c) THEN Begin(t, "terminate") ELSE Settle(t)
      /\ UNCHANGED <<start, call, proc, request, tracked, session, late>>

(* An answer, a failure, or the signal, which ends only the call's wait. *)
CallEnds(k) ==
  LET t == CallTurn(k)
  IN  /\ turn[t] = "running"
      /\ Settle(t)
      /\ UNCHANGED <<start, call, child, tracked, session, late>>

(* A waiter's timer or signal; a kill has only its timer. *)
GiveUp(t) ==
  /\ turn[t] = "waiting"
  /\ Cancel(t)
  /\ start' = IF t[1] = "reservation" THEN [start EXCEPT ![t[2]] = "failed"] ELSE start
  /\ UNCHANGED <<step, call, child, tracked, session, late>>

-----------------------------------------------------------------------------
(* The inspector's clearFinished, subagents-kill-all, session_shutdown.    *)

clearFinished ==
  /\ Active # tracked
  /\ tracked' = Active
  /\ UNCHANGED <<chain, step, start, call, child, session, late>>

(* Each active child whose queue has room gets a turn that terminates it. *)
terminateActive(next) ==
  /\ phase = "idle"
  /\ phase' = next
  /\ LET killed == {Kill(c) : c \in {d \in Active : ~QueueFull(d)}}
     IN  Enter([t \in killed |-> t[2]], "waiting")
  /\ UNCHANGED <<step, start, call, child, tracked, sweep, late>>

killAllCommand == terminateActive("killing")

session_shutdown == terminateActive("stopping")

KillBegins(c) ==
  LET t == Kill(c)
  IN  /\ MayBegin(t)
      /\ terminate(c)
      /\ IF active(c) THEN Begin(t, "terminate") ELSE Settle(t)
      /\ UNCHANGED <<start, call, proc, request, tracked, session, late>>

DeadlinePassed == phase \in {"forceLive", "forceAll", "down"}

(* The shutdown's own wait for a termination ends at its deadline. *)
KillEnds(c) ==
  /\ turn[Kill(c)] = "running"
  /\ Terminated(c) \/ DeadlinePassed
  /\ Settle(Kill(c))
  /\ UNCHANGED <<start, call, child, tracked, session, late>>

(* Promise.allSettled: refused and timed-out turns count as settled. *)
AllSettled == \A c \in Child : Ended(Kill(c))

PhaseGoes(to, cs) ==
  /\ phase' = to
  /\ sweep' = cs
  /\ UNCHANGED <<chain, step, start, call, child, tracked, late>>

Live == {c \in Child : active(c)}

(* Mutant: only what still has a handle is forced. *)
NothingMore == {}

(* forceCleanupRuntimes lists every runtime that is not closed; where the  *)
(* records of one that starts later go is not followed here.               *)
RuntimesToForce == Live

StoppedInTime ==
  phase = "stopping" /\ AllSettled /\ PhaseGoes("forceAll", RuntimesToForce)

DeadlinePasses ==
  phase = "stopping" /\ ~AllSettled /\ PhaseGoes("forceLive", Active)

ForcedLive ==
  phase = "forceLive" /\ sweep = {} /\ PhaseGoes("forceAll", RuntimesToForce)

forceCleanupRuntime(c) ==
  /\ c \in sweep
  /\ Close({c})
  /\ UNCHANGED <<chain, step, start, call, tracked, termination, phase, late>>

(* A quit ends the host; every other reason forgets the handles. *)
ShutdownEnds ==
  /\ phase = "forceAll" /\ sweep = {}
  /\ phase' = "down"
  /\ tracked' = {}
  /\ UNCHANGED <<chain, step, start, call, child, sweep, late>>

-----------------------------------------------------------------------------
Next ==
  \/ \E c \in Child :
       \/ subagent_start(c) \/ launch(c) \/ FilesFail(c) \/ startRuntime(c)
       \/ LaunchContinues(c) \/ Launched(c) \/ LaunchFails(c) \/ LaunchFailed(c)
       \/ LaunchEnds(c)
       \/ StartReplies(c) \/ StartAborted(c) \/ AbortedStartReplies(c)
       \/ TerminationEnds(c) \/ ProcessCloses(c) \/ RequestSettles(c)
       \/ forceCleanupRuntime(c) \/ KillBegins(c) \/ KillEnds(c)
  \/ \E k \in Call :
       \/ \E what \in {"send", "remove"}, c \in Child : withChildOperation(k, what, c)
       \/ SendBegins(k) \/ RemoveBegins(k) \/ CallEnds(k)
  \/ \E t \in Turn :
       GiveUp(t) \/ CanceledTurnPasses(t) \/ TurnReleased(t)
  \/ clearFinished \/ killAllCommand
  \/ session_shutdown \/ StoppedInTime \/ DeadlinePasses \/ ForcedLive \/ ShutdownEnds

Spec == Init /\ [][Next]_vars

-----------------------------------------------------------------------------
(* Properties.                                                             *)

(***************************************************************************)
(* On each child one operation at a time, and its request or termination   *)
(* has settled before the next one begins, however many waiters gave up in *)
(* between and whatever made the operation return early.                   *)
(***************************************************************************)
OneOperationAtATime ==
  \A c \in Child :
    /\ Cardinality({t \in Chained(c) : Begun(t)}) <= 1
    /\ request[c] # NoTurn => Begun(request[c])

(***************************************************************************)
(* The count of a child's queue is the number of turns still chained, so   *)
(* the limit refuses no call for a turn that is gone; and the next turn is *)
(* chained to the last one.                                                *)
(***************************************************************************)
QueueAccounts ==
  \A c \in Child :
    /\ count[c] = Cardinality(Chained(c))
    /\ count[c] <= MAX_QUEUED_CHILD_OPERATIONS
    /\ IF Chained(c) = {} THEN tail[c] = NoTurn ELSE tail[c] \in Chained(c)

(***************************************************************************)
(* Concurrent starts, failing ones included, never make more active        *)
(* children than the limit.                                                *)
(***************************************************************************)
ActiveLimit == Cardinality(Active) <= MAX_ACTIVE_CHILDREN

(***************************************************************************)
(* A live child can be reached by its id: failed starts, clearFinished and *)
(* the end of a session forget no child that runs - but for one that a     *)
(* start already under way spawned after the shutdown's last sweep.        *)
(***************************************************************************)
LiveIsTracked == Live \subseteq tracked \union late

(* A start that failed, was refused or aborted leaves no live child. *)
FailedStartLeavesNoChild ==
  \A c \in Child : start[c] = "failed" => ~active(c)

(* What started before the last sweep of a shutdown is closed when it ends, *)
(* whatever its queue was doing: full, stuck, or in the middle of a launch. *)
ShutdownLeavesNoChild == phase = "down" => Live \subseteq late

(* What goes on with nobody's help: timers fire, promises are followed.    *)
Progress ==
  \/ \E c \in Child :
       \/ FilesFail(c) \/ LaunchFails(c) \/ LaunchFailed(c) \/ LaunchEnds(c)
       \/ StartReplies(c) \/ AbortedStartReplies(c)
       \/ TerminationEnds(c) \/ RequestSettles(c)
       \/ forceCleanupRuntime(c) \/ KillEnds(c)
  \/ \E k \in Call : CallEnds(k)
  \/ \E t \in Turn : GiveUp(t) \/ CanceledTurnPasses(t) \/ TurnReleased(t)
  \/ StoppedInTime \/ DeadlinePasses \/ ForcedLive \/ ShutdownEnds

Unfinished ==
  \/ \E t \in Turn : turn[t] \notin {"none", "released"}
  \/ phase \notin {"idle", "killing", "down"}
  \/ \E c \in Child : start[c] \in {"serializing", "terminating"}

(* One of the steps of Progress has what it waits for: their guards.       *)
CanGoOn ==
  \/ \E c \in Child :
       \/ step[Reservation(c)] = "files"
       \/ step[Launch(c)] \in {"get_state", "prompt"}
       \/ step[Launch(c)] = "terminate" /\ Terminated(c)
       \/ /\ turn[Reservation(c)] = "running"
          /\ turn[Launch(c)] # "none" /\ Ended(Launch(c))
       \/ start[c] = "serializing"
       \/ start[c] = "terminating" /\ Terminated(c)
       \/ termination[c] = "running" \/ request[c] # NoTurn \/ c \in sweep
       \/ turn[Kill(c)] = "running" /\ (Terminated(c) \/ DeadlinePassed)
  \/ \E k \in Call : turn[CallTurn(k)] = "running"
  \/ \E t \in Turn :
       \/ turn[t] = "waiting"
       \/ turn[t] = "canceled" /\ before[t] = NoTurn
       \/ turn[t] \in {"afterTermination", "afterRequest"} /\ CleanupSettled(t)
  \/ phase = "stopping"
  \/ phase \in {"forceLive", "forceAll"} /\ sweep = {}

(***************************************************************************)
(* Turns, replies and shutdowns wait for each other, for terminations and  *)
(* for requests, but never in a circle or for a child: while one is        *)
(* unfinished something else goes on, even if no child answers or exits.   *)
(***************************************************************************)
UnfinishedGoesOn == Unfinished => CanGoOn

(* ... and what can go on is a step that the program can take. *)
NothingIsStuck == UnfinishedGoesOn /\ (CanGoOn <=> ENABLED Progress)
=============================================================================
