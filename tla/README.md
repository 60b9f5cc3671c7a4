# A verification of nixenv's stateful programs

nixenv is a personal Nix configuration. Most of it is declarative and has no
behaviour of its own; this project is about the programs in it that keep state
across events. The largest is the **subagent extension** of the Pi coding agent
(`modules/home-manager/pi/extension/subagent/`): it starts child agents as RPC
processes, follows their runs from a stream of records, and tells the owner
when one stops. The second modelled here is the **throwaway containers service**
(`modules/services/throwaway-containers/`), an HTTP API that makes short-lived
NixOS boxes which a reaper in another process removes.

`PROJECT.json` lists components, runs, mutants, the source lines behind every
definition, hazards, findings and theorems. Paths below are relative to the
subagent extension unless they start with `modules/`.

## 1. Inventory

### The subagent extension

| Part | State | Operations | Talks to |
| --- | --- | --- | --- |
| `lifecycle.ts` | per child: process state, run state, a bounded history of runs, the settlement cursor, derived display fields | start, corroborate, end, abort, settle a run; record an assistant end; request a kill; mark stopped; reset the view | called by dispatch and by `index.ts` |
| `dispatch-event.ts`, `live-state.ts` | per child: message identities and tombstones, active and known tool calls, abort fence | one branch per RPC record type | reads and writes the lifecycle; calls back to announce a settlement |
| `dispatch-event.ts` (queue), `index.ts` (runtime) | per runtime: retained records, overflow fence, drain timer, the close | route, queue, drain, attach, detach, note the close | between the transport and the handle |
| `settlement-notifications.ts` | keys pending, attempts, accepted keys, suppression epochs, a flush | queue, schedule, flush, suppress, dispose | fed by `announceStop`, calls the host's `sendMessage` |
| `rpc.ts` | per process: pending requests, write chain, closed, kill flags | send, terminate, forceClose, lines, errors, close | Node streams and the child process |
| `index.ts` (handles) | per handle: announced run, process close handled | records, close, prompt, interrupt, kill | all of the above |
| `index.ts` (tools, session) | the chain of launches, a chain of operations per child with its count, terminations, requests, a shutdown's phase | start, steer, interrupt, remove, kill all, shutdown; each wait has a signal or a timer | all of the above |
| `child.ts` | the child's side | health report, tool restrictions | the extension, over RPC |
| `transcript.ts`, `ui.ts` | the inspector's selection, pages and the generation of each read | bounded reading of a session file; display | reads what the others keep |

One record goes through these parts in this order:

    child --stdout--> rpc.ts handleLine --onRecord--> routeRuntimeRecord
      --(queue while reloading)--> handleRpcRecord --> dispatchSubagentEvent
      --> lifecycle operations --> announceStop --> settlement notifications
      --> the host's sendMessage (awaited)

All of it runs on one thread. What makes it hard is everything asynchronous
between two turns of that thread: the child's records arrive in any order and
after anything (a kill, an interruption, the close); a reload detaches the
consumer while records keep coming; sends and writes are awaited; the process
closes whenever it likes; timers race all of these.

### The throwaway containers service

| Part | State | Operations |
| --- | --- | --- |
| `serve` | `mu`, goroutines; on disk: `meta.json`, state directories, containers | create, delete, extend, reconfigure, exec and files, recovery at its start |
| `reap` (a timer, another process) | a sweep in progress | destroys what has expired or has no `meta.json` |
| `wipe` (once per boot) | a sweep in progress | destroys everything |

The three share the disk but not the mutex; each may die at any step.

### The rest of the repository

The Cloudflare DNS planner, the tailnet address updater, the AdGuard
reconciler, the LLM proxy's key handling, the Firefly jobs and the Unicode hex
input method have some logic and are planned below. Desktop scripts, one-shot
tools and the Nix configuration keep no state and are not modelled.

### What makes each part correct

- *Lifecycle*: each run settles at most once, in order, while its process lives;
  a closed process with an unsettled run is an error; a kill is never withdrawn.
- *Dispatch*: replayed or late records neither repeat work nor corrupt the
  record; an interrupted run ends aborted.
- *Announcement*: the owner is told of every stop it did not ask for, once, in
  order, and of none after a kill or once its session shuts down.
- *Notifications*: no accepted stop is forgotten, none is sent after it was
  suppressed, one wake per stop.
- *Queue*: nothing that waits for a reload is lost or repeated, boundaries survive a flood of
  updates, the close comes last, an overflow is terminal.
- *Tools and session*: one operation on a child at a time, also when callers give
  up; the limit of active children holds while starts overlap and fail; a child
  that runs can be reached; a shutdown ends in bounded time and leaves none.
- *Transport*: each request settles, the limits are exact, terminate ends with a
  closed transport, and the fence kills what it fences.
- *Inspector*: a view shows only what was read for it, however late that read
  ends; a view the user opens loads; the live view follows its file.
- *Containers*: each box goes in the end, whatever died; a deleted box is not
  seen again; nothing survives a boot; no box waits for a worker that is gone.

## 2. Modules

### `Lifecycle`, `SubagentLifecycle`, `RunLedger`

`Lifecycle` has the functions of `lifecycle.ts` as operators on a record, one
per exported function; a function that may reject has a `Can...` operator.
Timestamps and stop reasons are left out, but `killRequestedAt` stays as a flag.
An error text is reduced to where it came from. `SubagentLifecycle` is the
state machine that calls them in any order with any arguments. `RunLedger` is
what it promises: turns are numbered upwards, the cursor moves only to a turn
that was started and not yet settled, nothing moves after the process stopped.
The mapping is `started <- runSequence`, `settled <- lastSettledRunId`,
`alive <- processState = "alive"`, and the property is `RefinesRunLedger`. `SubagentHandle`
extends `SubagentLifecycle` for its record, and with it this property: there the
dispatcher's guards stand in front of each operation.

### `AssistantStream`, `SubagentHandle`

`AssistantStream` has the message identities of `live-state.ts` with their
tombstones: how a message is told from a replay when timestamps are shared or
response ids are missing. `SubagentHandle` is one handle: `life` (the record of
`Lifecycle`), the message state, the tool calls, the abort fence and the
announcement cursor. Its actions are the branches of `dispatchSubagentEvent`
inside `handleRpcRecord`, `handleProcessClose`, and the state changes of
`deliverMessage`, interrupt and terminate, and the start of a shutdown of the session
(`SessionShutdown`), after which `announceStop` withholds the wake. Records are enabled at any
time: the child's protocol is not assumed. A record's consumer runs to its end here; one that
throws is `RuntimeQueue`'s matter. The history variables `wakes` and `awaiting`
say what the owner was told and whether it waits for something. `InBound`
bounds the records of an instance, per run; it is no part of the code.

### `SettlementNotifications`

The queue of wakes. A flush runs without interruption between awaited sends, so
a step ends at a send or at the end of the flush; `flush` holds the key in
flight, the keys after it and the epochs read at its start. `SendSucceeds`
and `SendFails` are the two answers of the host. The other operations interleave.
`WithoutChild` is the filter of a suppression, stated by the places that the keys
it keeps move to. The histories `accepts` and `acceptances` count what was
accepted, per key and in all, which the bounded memory of accepted keys forgets.

### `RuntimeQueue`, `RecordDelivery`

`RuntimeQueue` is one runtime: routing, the bounded queue with its reserve for boundaries, the
overflow fence and its timer, reload (detach and attach), drain turns with a
failing consumer, the close and the removal. A record is its number in the stream and its kind.
The rest of a chunk of output is still routed when one of its records closes
the transport, hence `inChunk`. `removeRuntime` has two callers here:
`handleProcessClose` (`CloseHandedOver`), which removes the runtime of a killed
child at once and that of any other child when a later reload hands the same
close over again; and `forceCleanupRuntime` of a shutdown, which drops what is
still queued. `abandoned` has the records dropped that way.

A consumer may fail in two places. In a drain turn the error is caught and the record goes to
the tail of the queue for a retry. On the direct route (`routeRuntimeRecord` with a consumer
attached) it is not: it passes through the `finally` to `rpc.ts:656`, which notes a diagnostic, and
the record is lost (`ConsumerFails`, `lost`). `faults` counts both. So
`EachRecordOnce` does not say that nothing is lost. It says that each record is in one of five
places (delivered, waiting, refused, abandoned or lost), that no record which once
waited is lost to an error, and that there are no more losses than errors. `Kept` has the records of a batch
that were handed over, or that failed and are retained, in their order.

`RecordDelivery` is what all of this promises: a record that comes is taken, waits,
is refused, or is lost on the spot (`Lose`); one that waits is taken later, once, and not lost; the end is told when nothing
waits, and nothing is taken after it; only the removal drops what waits. The order
is left open, because a new record overtakes those retained from a reload
(`index.ts:528`). The mapping (`ImplementsDelivery`): `taken <- delivered`,
`waiting` the records in the queue, `seen` these and all that were refused, abandoned or lost,
`ended <- closeHandled`, `gone <- removed`.

### `SubagentOperations`

The tools and the session control around the handles. A `Turn` is a place in a
chain of promises: `launchReservationTail` or one of `childOperationTails`. It
is chained to the turn `before` it, and passes that on only when it is released,
so a waiter that gives up (`GiveUp`) stays in the chain as `canceled`
(`CanceledTurnPasses`). An operation that settles is not released until its
cleanup has (`AfterOperation`, `TurnReleased`): the termination of its child, or
else the request it sent. `subagent_start` takes a reservation, then a turn on
the new child, which it starts in one turn of the event loop (`startRuntime`). In the
code a few microtasks lie between `handles.set` (`index.ts:1940`) and the spawn, and `withChildOperation`
looks at the signal in them. An abort from another promise callback of just that turn
would leave a handle without a process in the map; the model takes them as one step and
leaves that abort out.
`phase` and `sweep` are the two commands that terminate everything;
`session_shutdown` also forces what outlives its deadline, twice.

A child is `live` from its spawn to the close of its transport; what its runs do
is `SubagentHandle`'s matter, and how `terminate` proceeds is
`RpcTransport`'s. A request settles by answer, failure, timeout or signal without a
distinction. A caller whose turn was released may call again. Left out: reload (the tools wait for nothing in it), the
trimming of stopped handles, `list`, `inspect` and `wait`, which change nothing,
and what happens to the records of a child that starts after the last sweep:
`late` only names it.

### `RpcTransport`

One process's transport. `pending` holds the keys of the map, `waiting` the
requests whose caller still waits; `writeChain` and `writing` are the promise chain; `ladder` has
the rung on which each call of `terminate` waits. A refused request leaves
nothing but its number and is not a step. `BytesOf` is what a set of requests weighs: the
property compares it with the running counts. Framing and diagnostics are left out.

### `SubagentInspector`

What the user looks at, and the reads that fill it. A handle is its place in the
order of creation and stands for the paths of its prompt and its transcript; a
transcript is the number of times it grew. `transcriptRead` is the one read
that `transcriptReadActive` allows: its `phase` is at the `stat`, at the text, or at
its end, and `fresh` says that its generation is still `requestGeneration`. An aborted read
is not gone: it ends later, and until then it keeps the next one waiting
(`transcriptReadPending`). `recent` and `transcriptDelay` are the throttle of one read per
second and file, `transcriptCache` the lines kept with the size and time that an
earlier `stat` saw.

The other parts of the extension are the steps under `Others`: a change of a run
and a trimmed handle are followed by `refresh` (`update`, which schedules it in the same
turn), the start of a child and a failed start are not. A handle's session path
is taken as known. Left out: scrolling, layout, the keys for steer and kill,
and a file that opens after its read was given up.

### `ThrowawayContainers`

The service for one box. `writer` is a write of `meta.json` in progress under
`mu`: `WriteMkdir` then `WriteRename`, because `MkdirAll` may bring a removed
directory back. `destroying` and `sweep` say where each process is in `destroy`,
`reap` and `wipe`; `job` where the box's goroutine is. A sweep reads the time
once and decides on each box by one read. Ids are random and not drawn twice;
disk writes succeed, the tools (`nixos-container`, the build) may fail, and
a create that fails may leave a container. `ServeCrash` and `Reboot` strike anywhere.

The unit of the API is ordered after the wipe and wants it, but does not require it
(`modules/services/throwaway-containers/default.nix:94`). So the wipe may fail or be killed at any point
(`WipeFails`), and the API starts all the same, with what is left of the last boot
(`MayServe`); the recovery and the reaper then treat it like any other box. When the API is
restarted later, systemd starts a wanted unit that has failed once more (`WipeOfNextStart`). Hence
`WipedAtBoot` is conditional on a wipe that ran to its end (`wipe = "done"`).

A clock instant is longer than the shortest TTL (`TTL`), so an extension may move an
expiry within three instants. One DELETE is handled at a time: that two of them overlap in
the code is left out.

## 3. Runs

| Run | What it asks | Bounds, and why they are enough |
| --- | --- | --- |
| `lifecycle` | invariants, action properties and the refinement of `RunLedger` | 4 runs, history of 2: two runs leave the history while the cursor still refers to them |
| `handle` | what the handle shows, what the owner is told, and that nothing is counted or started twice | 3 runs, history of 2, stale run id 1: a settlement for a run that left the history, a dropped run and a retry all occur; one message identified by its timestamp and two that share it, two calls with one slot: every list reaches its limit; the first run may have three messages and two calls, the second one of each; a kill, the close and a shutdown of the session at any time |
| `notifications` | no lost wake, one wake per stop, none after a suppression, every stop decided | two children with a stop each, a memory of one key, flushes of two sends, one retry, four acceptances: each stop is forgotten and accepted again while it may still wait, fly or be retried |
| `runtime_queue` | each record in one place, none lost that has waited, boundaries keep their slots, the close comes, an overflow ends the transport, and all of it implements `RecordDelivery`: the close comes last; with a kill or a shutdown at any time | a queue of 3 with one slot reserved, batches of 2, 4 records, 2 reloads, 2 consumer errors (in a drain or on the direct route), 2 retries: an overflow in the second reload with records left from the first, and the last retry of a drain |
| `operations` | one operation at a time, exact counts, the limit of active children, no live child out of reach or left behind, nothing stuck | two interchangeable children (hence the symmetry), one other caller, a queue of 2, a limit of one active child, one kill of all or one shutdown: the second start meets the limit; the call, the launch and the kill of one child fill its queue, and each may give up while the one before it runs |
| `rpc_transport` | accounts, promises, close, fence; writes end and terminate returns | 3 requests of 1 or 2 bytes, at most 2 and 3 bytes pending, so that each limit refuses one; 2 calls of terminate, which meet on each rung |
| `inspector` | a view shows only its own reads, loads, and follows its file | two handles, 3 keys, one growth, one failed file operation: a view is opened, left and opened again, or its handle is replaced, while the aborted read still ends, the throttle holds and the cache is older than the file |
| `throwaway_containers` | no state without a worker, deleted stays deleted, clean boot, every box goes | one box, 3 instants (in each but the last it may be created or extended), 2 crashes, reboots or failed wipes, 1 failed destroy; boxes meet only in `mu` and in the order of a sweep, and a second box makes the state space too large |

Each property of these runs has a mutant in `PROJECT.json`: a plausible bug in
the modelled code under which the run fails.

### Runs that disagree with a comment

| Run | The code | The text it contradicts |
| --- | --- | --- |
| `notified` | a child that dies between the acceptance of a prompt and its `agent_start` wakes nobody | `index.ts:2250` |
| `fence` | an interruption that arrives while a run is retrying is dropped by the next `agent_start` | `dispatch-event.ts:315`, `index.ts:1852` |
| `reaper_obeys_meta` | the reaper may remove a box that is just being created (the run's shortest trace), or that was extended since the reaper read it (a longer one of the same run's states) | `main.go:11` |
| `destroy_is_complete` | a DELETE that races the build leaves a container until the next sweep | `main.go:242` |

The races of the service leave nothing for good: the reaper's next sweep
removes it, as `EveryBoxGoes` shows.

### Fairness

- `SettlementNotifications`: the flush timer fires and the host answers each
  send, with success or not. A host that never answers stops all wakes.
- `RuntimeQueue`: timers fire, and a reload ends with the consumer attached;
  consumer errors are bounded by the number of retries, beyond which the code gives up. A
  child that sends records for ever or a user that kills asks for no fairness.
- `SubagentOperations` states none. `NothingIsStuck` is its freedom from deadlock:
  while a turn, a reply or a shutdown is unfinished, a step of `Progress` is
  enabled, which holds only what happens with nobody's help (timers, settled
  promises), never an answer or an exit of the child. It has two parts:
  `UnfinishedGoesOn` says it with the guards of those steps (`CanGoOn`) and is proved;
  that `CanGoOn` holds exactly where `Progress` is enabled is checked by the run.
  Liveness itself is too slow on the instance.
- `SubagentInspector`: timers fire, a file operation ends by its deadline
  (`boundedFileOperation`), and the display is refreshed again and again (`render`): a child
  that starts ends in a run or in its termination, and both update it. Nothing
  is asked of the user or of the children.
- `RpcTransport`: request, write and wait timers fire and the promise chain goes
  on. Nothing is asked of the child: it may never read, answer or exit.
- `ThrowawayContainers`: time passes and systemd runs the reaper
  (`modules/services/throwaway-containers/default.nix:107`, "The host reaps, not the caller: also while
  the API is down"). Nothing is asked of the API process or its builds. Requests
  stop before the last instant: an update may revive a removed box after each
  sweep, so a client that updates for ever could keep its `meta.json`.

Deadlock is not checked where a program may rightly come to rest: a handle whose
process stopped, a queue after its close, a closed transport, a session after
its shutdown, a disposed inspector. It is checked for the containers, whose reaper never rests.

## 4. Proofs

All proofs hold for every value of the constants that the named assumptions
allow (a history of at least one run; positive limits; finite sets of children
and callers; the inspector's bounds are any natural numbers). Every invariant,
action property and refinement of the passing runs is proved, except the half of
`NothingIsStuck` that speaks of `ENABLED`. A theorem may say more than the properties
of a run: the inductive invariants are theorems too, and some properties have a
theorem and no run of their own (TLC agreed on an instance before each was
proved): `StoppedStaysFinal`, `KillStaysSticky`, `NobodyWaitsInVain`, `ClosedOwesNothing`,
`WrittenInOrder`, `CloseComesLast`, `CloseIsCarried`, `OverflowIsTimed`, `LiveViewNeverGoesBack`,
`LoadingIsUnderWay`. `CloseIsCarried`, `OverflowIsTimed` and `LoadingIsUnderWay` are the safety part of
three liveness properties: they say that what must happen has somebody to do it,
and leave to TLC only that the fair step is then taken.

**`LifecycleProofs`.** Its first part has one lemma per operation of
`Lifecycle`, for any record: it keeps the record `Consistent` and moves its counters
in a known way. `Consistent` is the type, the order of the history (`OrderedRuns`), the
cursor (`CursorBehind`: an open run is beyond it), the active run being shown
(`ActiveRunShown`) and the derived fields (`InSync`). The order of the history is what
makes `currentRun` the only run an event can change; without it a settlement
could move the cursor past an open run. These lemmas rest on lemmas about windows of
the history (`WindowOfRuns`) and about the derived fields, and the handle uses them as well.

The second part combines them for `LifecycleSpec`. `LifecycleInvariant` is inductive:
`WellFormed(life)`, which adds the coherence of the settled result
(`CoherentResult`), and `UnsettledCloseIsError`, carried along because the fields it
speaks of freeze with the process. Type correctness, `HistoryOrdered`, `CursorBehindOpenRun`,
`SettledViewCoherent`, `CompatInSync` and `UnsettledCloseIsError` follow. `RefinesLedger` maps each
step to a step of `RunLedger` or a stutter. The action properties compare a record with the one
before: `StoppedStaysFinal` and `KillStaysSticky`, which have no run of their own, and
`AbortStays`, that no operation opens an aborted run again or makes it a success.
The last needs more than one record to speak about: the run with some id may have
moved in the history, left it, or been dropped, so it goes by the ids of two
histories (`Succeeds`) and by what each operation does to the one run that it changes.

**`SubagentHandleProofs`.** `HandleInvariant` relates four things that the code keeps apart.

- The record is `Consistent`. It is not coherent in the sense of `CoherentResult`: the
  handle's own reset of the errors breaks that.
- What is shown (`Shown`, `SettledHandleIsQuiet`): nothing streams but a corroborated run in
  progress, and each way to settle or to close clears the calls and the message.
- What the owner was told (`Told`, `Announced`, `WakesSettled`). The announced cursor never
  passes the run counter, and is behind it while the owner waits for a run that
  began; with nothing awaited it has reached the counter, and no run is still
  to settle. That is why a close can compare two numbers to know whether its stop was
  announced, and why neither a dropped run nor a late settlement wakes twice.
- What is remembered (`ToolMemory`, `MessageMemory`): up to its limit a bounded list
  holds exactly what was seen (`Remembers`), and the count is its length.

An action is first reduced to one of four moves of the record and its notices
(`NextMoves`: a run starts, one settles, the process stops, or neither); the parts
about the owner need only that. `DeathsAreAnnounced`, `WakesAreInOrder`, `OneWakeForEachStop`,
`InterruptsAreHonoured`, `QuietOnceSettled`, `MessagesCountOnce` and `ToolCallsBeginOnce` follow, and
`HandleRefinesLedger`: the dispatcher with its
guards implements `RunLedger`, for any order of records (`RefinesRunLedger` again, of the
handle's specification).

**`SettlementNotificationsProofs`.** `NoLostWakeup`, that a queued stop always has a flush
scheduled or running, is inductive by itself: `RunOnSchedules` shows that the end
of a flush reschedules what waits. `StopsWakeOnce` needs `WakeInvariant`, in two accounts.

- Deliveries: a key in the queue or in the flush has an acceptance that is not
  delivered yet (`DeliveriesAreCovered`).
- Sends: what a key was sent, and what it may still be sent (`Room`), is covered by its
  acceptances (`SendsAreCovered`). A key that only waits has the retries that its count of
  failures leaves. One accepted again while it is in a flush has them all, and one
  more if the flush has still to send it, because the flush and the queue
  share the count and the flush may reset it; a suppressed key in a flush has none.

`Remembered` adds what the bounded memory allows: every acceptance of a key but
its first came after at least `MAX_ACCEPTED_KEYS` acceptances of other keys, and one
that is still remembered was followed by those that stand behind it. `VerdictsAreFinal`
follows from `NoVerdictYet`: what waits, or may still be sent in the flush, has no verdict.

**`RuntimeQueueProofs`.** `CloseInvariant` says where each fact about the close may be: once
it was handed over, the queue is empty and nothing is being drained
(`AtRestAfterClose`), and the transport is closed; every action that routes or drains is disabled or
harmless in such a state, hence `CloseIsLast`. `PlaceInvariant` is about the records: each
number of the stream is on one record (`Numbered`) in one place (`Apart`): delivered,
waiting, or gone (refused, abandoned, lost); `LossesAreFaults` counts the lost; and updates leave the reserve to the boundaries
(`UpdatesLeaveRoom`), also those retained from a failed batch or from the reload
before. So a queue that is full has the reserve taken by boundaries. `EachRecordHasOnePlace`, `BoundariesKeepTheirSlots` and
`QueueTypeOK` follow. What `Kept` returns is proved by induction on its length.

`RuntimeImplementsDelivery` joins the two: each operation on the queue is placed as a step of
`RecordDelivery`. A routed record is taken, waits, is refused or is lost; a drain turn takes those that left
the queue, once each because places are apart, and tells the end only with nothing left, which is
`CloseInvariant`; a removal that is not the close's drops the rest. `HeldCloseIsCarried`: a close that
is held back has a drain turn or the end of a reload to come, unless the retries are used up.
`FencedTransportIsTimed`: an overflowed runtime has a closed transport or a running grace timer.

**`RpcTransportProofs`.** `WaitersArePending` (a caller that waits has an entry in the map, so
each answer, timeout, signal or close finds both or neither; `NobodyWaitsInVain`, which has
no run of its own); `TerminateCloses` (a call of `terminate` that returned left a closed
transport) and `FenceKills` (a fenced process was sent its kill), from
`CloseInvariant`; `AccountsStayExact`: the counts of requests and bytes that the limits read
are those of the map and of the write chain. The step is that `BytesOf` splits over disjoint sets
(`Splits`), by induction on the request number; `AccountInvariant` adds that a
number is given out once. `WritesKeepOrder` says of the same chain that requests are written in
the order they were sent, each at most once, whichever end before their turn; `CloseSettlesAll` that
a closed transport has nothing pending, nobody waiting and nothing being written.

**`SubagentOperationsProofs`**, in three inductive invariants, each on top of the one before.

- `LaunchInvariant` concerns launches, children and the shutdown. The limit is
  kept because a child is counted from its reservation, long before it lives
  (`LimitKept`); a live child has a launch or an announced handle that reaches it
  (`ChildOK`), and a launch that fails stops its child before its reservation
  goes. `Reached` says how far a sweep has come and which children it may still
  leave behind. `LimitHolds`, `LiveStaysTracked`, `FailedStartIsClean` and
  `ShutdownIsComplete` follow.
- `QueueInvariant` concerns the chains of promises. That one operation runs at a
  time is a fact about the whole chain: each turn waits for the one chained
  before it, so there must be no second line and no circle. `Lined` states that
  as a numbering of each child's unfinished turns in which every turn but the
  first is chained to the one with the number before, and the tail has the
  last. A new turn extends the numbering, a released first turn shifts it.
  `Served` says that only the first turn may run, `Requested` that a request
  belongs to a turn that is not released, `Entry` that a count is the number
  of the turns of its line. `OneAtATime` and `AccountsHold` follow.
- `WaitInvariant` concerns all chains, the one of the reservations too. A turn waits
  only for one that is not released, and some rank falls along every such wait
  (`WaitsBack`); a cleanup waits for a termination only where one began
  (`CleanupEnds`). `NeverStuck` is freedom from deadlock: suppose a turn is left and nothing can go on.
  No operation runs, and no waiter is left that has not given up; a reservation waits for its
  launch, and a cleanup for its child's termination, which can go on. So all that are left are
  canceled turns, and the one of the least rank has nothing before it and passes.

**`ThrowawayContainersProofs`.** `ServiceInvariant` is one invariant for the three properties:

- `DeletedIsFinal`: no write is under way for a box whose DELETE was answered
  (the directory is removed under the mutex, and a write begins with a read under it),
  hence `DeletedBoxStaysDeleted`;
- `WipeOnTheWay` and `NothingOldIsMade`: what the wipe has still to destroy is in its list or in its
  hands, and, unless the wipe failed, nothing that could make something again belongs to an
  earlier boot; a restart that runs a failed wipe again has no worker left, hence `BootWipesAll`;
- `WorkersFit` and `StartupCovers`: each transient state has a goroutine at a stage that
  fits it, except that a startup, which has none, has each unfinished
  box before it or in its hands; hence `TransientBoxHasWorker`.

`ApiAtRest` says what a process that is down or starting cannot be doing; a crash
establishes all of it at once.

**`SubagentInspectorProofs`.** Three inductive invariants on top of the types (`InspectorTypeOK`; that the
newest and the oldest of some handles is one of them is proved there too).

- `ShownInv`: what is shown is of the selected handle and of somebody, and the
  outcome of an aborted read is not `fresh` (`Honest`). Nearly every step is `Quiet`: it clears
  the views, or leaves them and the selection alone, so that only the end of a
  read remains to look at. Hence `ContentStaysOfTheView`.
- `TextInv`: a read that is not aborted has read at least what its `stat` saw and no more
  than there is; so has the cache; and a read that ends is not older than what is shown of the same
  file. Hence `LiveViewStaysCurrent`: the cache serves by size and time of a stat that came before its
  read, and still the live view never goes back.
- `LoadInv`: whenever an opened view still shows nothing, its prompt is being read; or a read
  of its transcript is under way that will be shown, or that begins the next one
  (`transcriptReadPending`); or the delay of the throttle is set, and then its timer runs (`DelayKept`). It
  needs that the selection is no handle yet to be created (`SelectionIsKnown`). Hence
  `OpenedViewIsLoaded`.

**Induction over data.** `Kept` and `BytesOf` are recursive functions. What they return is proved
with sets of numbers in place of predicates (`NatSetInduction`): a set of naturals that is
closed under successor has no least number outside, because `<` is well founded on
`Nat`. That such a function satisfies its recursion equation comes first, by
the same induction over the length up to which one exists.

Only model-checked:

- `CanGoOn <=> ENABLED Progress`, the second half of `NothingIsStuck`: the prover has no rules for
  `ENABLED`;
- all liveness, for the same reason (fairness is about `ENABLED`): `EveryStopDecided`, `CloseIsHandled`,
  `OverflowEndsTransport`, `WritesEnd`, `TerminateReturns`, `OpenedViewLoads`, `LiveViewFollows`, `EveryBoxGoes`.

## 5. Plan

Done: `Lifecycle`, `SubagentLifecycle`, `RunLedger`, `AssistantStream`,
`SubagentHandle`, `SettlementNotifications`, `RuntimeQueue`, `RpcTransport`,
`RecordDelivery`, `SubagentOperations`, `SubagentInspector` and `ThrowawayContainers`, each
component with proofs of its safety properties.

Next, in this order:

1. `SubagentSystem`, which composes `RuntimeQueue` with `SubagentHandle`: after a
   reload a new record overtakes the retained ones (`index.ts:528`), so an
   `agent_start` may reach the handle before the `agent_settled` of the run
   before it. `SubagentHandle` takes records in any order, so its invariants
   cover that; the question left is what the owner is then told.
2. The tail of a transcript (`transcript.ts`) as a pure function, and `child.ts`'s health
   report.
3. `TailscaleDns`: the planner as a pure function against a reference
   definition, and an apply that fails part of the way
   (`packages/tailscale-cf-dns`); with it the AdGuard reconciler.
4. The LLM proxy's key hand-over, the key poller, the Firefly jobs and the
   Unicode hex input method.

Abstract specifications worth stating: a set of owed wakes that
`SettlementNotifications` implements; a map of live boxes that
`ThrowawayContainers` implements for boxes its clients do not race.

Proofs to come: that the wakes of `SubagentHandle` are owed at most one per run of the
`RunLedger`, as a refinement; with `SubagentSystem`, that the handle behind the queue keeps its
invariants.

## 6. Not modelled

- Layout, scrolling and formatting of `ui.ts` and `transcript.ts`, and the smaller Pi
  extensions: display and adapters, no state that another part reads.
- `exec` and file transfer of the containers: they act inside a box.
- UTF-8 and JSONL framing: pure conversion; a partial line at the end of the
  stream is discarded and reaches no modelled part.
- Nix modules and machines: declarative, except the units' order, timers and
  restarts, which `ThrowawayContainers` uses.
- Desktop scripts and one-shot tools: no state across invocations.
