--------------------------- MODULE SubagentInspector ---------------------------
(***************************************************************************)
(* The inspector of ui.ts: which handle and view the user looks at, and    *)
(* the file reads that fill the views.  Each file operation is bounded by  *)
(* a deadline and by the abort of its read, while the user moves on, the   *)
(* file grows and handles come and go.                                     *)
(*                                                                         *)
(* A handle is its place in the order of creation, newest shown first, and *)
(* stands for the paths of its prompt and of its transcript.  The text of  *)
(* a transcript is its version, the number of times it grew.  Scrolling,   *)
(* layout and the actions "steer" and "kill" are left out.                 *)
(***************************************************************************)
EXTENDS Integers, FiniteSets, FiniteSetsExt

CONSTANTS
  MaxHandles,   \* bound: handles created
  MaxVersion,   \* bound: times transcripts grow
  MaxKeys,      \* bound: keys pressed
  MaxFaults     \* bound: file operations that fail or meet their deadline

ASSUME InspectorAssumption ==
  /\ MaxHandles \in Nat /\ MaxVersion \in Nat
  /\ MaxKeys \in Nat /\ MaxFaults \in Nat

Handle == 1..MaxHandles
Nobody == 0
View == {"list", "status", "task", "live"}

VARIABLES
  created, handles,      \* how many were created, and those still tracked
  active,                \* the handles that are starting or in a run
  version,               \* per handle: its transcript
  view, selectedId, disposed,
  promptContent,         \* whose prompt is shown
  transcriptContent,
  promptRead,            \* whose prompt is being read
  transcriptRead,        \* the read that is active
  transcriptReadPending,
  transcriptDelay,       \* the timer set by a refresh that came too soon
  recent,                \* the transcripts read less than a second ago
  transcriptCache,
  refreshTimer,
  keys, faults,          \* bounds
  opened                 \* history: the user opened the view that is shown

others == <<created, handles, active, version>>
shown == <<view, selectedId, disposed, promptContent, transcriptContent, opened>>
refreshing == <<transcriptRead, transcriptReadPending, transcriptDelay, recent>>
vars == <<others, shown, promptRead, refreshing, transcriptCache, refreshTimer, keys, faults>>

selected == IF selectedId \in handles THEN selectedId ELSE Nobody

-----------------------------------------------------------------------------
(* Reads and what they leave.                                              *)

Phase == {"none", "stat", "read", "ending"}
Result == {"none", "lines", "error", "aborted"}

NoRead == [phase |-> "none", of |-> Nobody, fresh |-> FALSE, seen |-> 0,
           result |-> "none", at |-> 0]

(* fresh: its generation is still requestGeneration. *)
NewRead(h) == [NoRead EXCEPT !.phase = "stat", !.of = h, !.fresh = TRUE]

Ended(read, result) ==
  [read EXCEPT !.phase = "ending", !.result = result,
               !.seen = IF result = "lines" THEN @ ELSE 0]

(* An aborted read closes its file and ends later, with nothing to show.  *)
Aborted(read) ==
  [(IF read.phase \in {"stat", "read"} THEN Ended(read, "aborted") ELSE read)
     EXCEPT !.fresh = FALSE]

NoContent == [of |-> Nobody, result |-> "none", at |-> 0]
Content(read) == [of |-> read.of, result |-> read.result, at |-> read.at]

NoDelay == [of |-> Nobody, due |-> FALSE]
NoCache == [of |-> Nobody, seen |-> 0, at |-> 0]

Init ==
  /\ created \in 0..MaxHandles /\ handles = 1..created /\ active = {}
  /\ version = [h \in Handle |-> 0]
  /\ view = "list" /\ selectedId = Nobody /\ disposed = FALSE
  /\ promptContent = Nobody /\ transcriptContent = NoContent
  /\ promptRead = Nobody /\ transcriptRead = NoRead
  /\ transcriptReadPending = FALSE /\ transcriptDelay = NoDelay /\ recent = {}
  /\ transcriptCache = NoCache
  /\ refreshTimer = FALSE
  /\ keys = 0 /\ faults = 0
  /\ opened = FALSE

(* Mutant: the read under way is taken for the one that was asked for. *)
AskNothing(pending) == pending

(* What a refresh that comes during a read leaves behind. *)
AskAgain(pending) == TRUE

(* refreshTranscript, after the checks its callers repeat: at most one read *)
(* of a transcript in a second, and at most one read at a time.             *)
refreshTranscript(h, read, pending, delay) ==
  \/ /\ h \in recent
     /\ transcriptDelay' = IF delay = NoDelay THEN [of |-> h, due |-> FALSE] ELSE delay
     /\ transcriptRead' = read /\ transcriptReadPending' = pending
     /\ UNCHANGED recent
  \/ /\ h \notin recent /\ read.phase # "none"
     /\ transcriptReadPending' = AskAgain(pending)
     /\ transcriptRead' = read /\ transcriptDelay' = delay
     /\ UNCHANGED recent
  \/ /\ h \notin recent /\ read.phase = "none"
     /\ transcriptRead' = NewRead(h)
     /\ recent' = recent \union {h}
     /\ transcriptReadPending' = pending /\ transcriptDelay' = delay

(* A refresh asked for by a timer or by the end of a read. *)
RefreshSelected(read, pending, delay) ==
  \/ /\ view = "live" /\ selected # Nobody
     /\ refreshTranscript(selected, read, pending, delay)
  \/ /\ view # "live" \/ selected = Nobody
     /\ transcriptRead' = read /\ transcriptReadPending' = pending /\ transcriptDelay' = delay
     /\ UNCHANGED recent

dropContents == promptContent' = Nobody /\ transcriptContent' = NoContent

invalidateReads ==
  /\ dropContents
  /\ promptRead' = Nobody
  /\ transcriptRead' = Aborted(transcriptRead) /\ transcriptReadPending' = FALSE
  /\ UNCHANGED <<transcriptDelay, recent>>

-----------------------------------------------------------------------------
(* The selection.                                                          *)

(* The newest of the tracked handles takes the place of one that is gone.  *)
ensureSelection(tracked) ==
  LET first == IF tracked = {} THEN Nobody ELSE Max(tracked)
      stays == selectedId \in tracked \/ selectedId = first
  IN  /\ selectedId' = IF stays THEN selectedId ELSE first
      /\ view' = IF tracked = {} THEN "list" ELSE view
      /\ opened' = (opened /\ stays)
      /\ IF stays THEN UNCHANGED <<promptContent, transcriptContent, promptRead, refreshing>>
                  ELSE invalidateReads
      /\ UNCHANGED disposed

reconcileRefreshTimer(running) == refreshTimer' = (running # {})

(* refresh(), for the handles and the runs there are then. *)
refresh(tracked, running) ==
  /\ ~disposed
  /\ ensureSelection(tracked)
  /\ reconcileRefreshTimer(running)
  /\ UNCHANGED <<transcriptCache, keys, faults>>

(* Without a change of a handle: the same, asked for by anything else. *)
render == refresh(handles, active) /\ UNCHANGED others

Key ==
  /\ ~disposed /\ keys < MaxKeys /\ keys' = keys + 1
  /\ UNCHANGED <<disposed, transcriptCache, refreshTimer, faults>>

(* The next older handle and the next newer one, as far as they exist. *)
Neighbours(h) ==
  LET older == {g \in handles : g < h}
      newer == {g \in handles : g > h}
  IN  (IF older = {} THEN {} ELSE {Max(older)}) \union (IF newer = {} THEN {} ELSE {Min(newer)})

moveSelection ==
  /\ Key /\ view = "list" /\ handles # {}
  /\ LET current == IF selected = Nobody THEN Max(handles) ELSE selected
     IN  selectedId' \in {current} \union Neighbours(current)
  /\ selectedId' # selectedId
  /\ invalidateReads
  /\ UNCHANGED <<others, view, opened>>

showList ==
  /\ Key /\ view # "list"
  /\ view' = "list" /\ opened' = FALSE
  /\ invalidateReads
  /\ UNCHANGED <<others, selectedId>>

showDetail(detail) ==
  /\ Key /\ selected # Nobody
  /\ view' = detail /\ opened' = TRUE
  /\ \/ /\ detail = "live"
        /\ dropContents /\ promptRead' = Nobody
        /\ refreshTranscript(selected, Aborted(transcriptRead), FALSE, transcriptDelay)
     \/ /\ detail # "live"
        /\ dropContents /\ promptRead' = IF detail = "task" THEN selected ELSE Nobody
        /\ transcriptRead' = Aborted(transcriptRead) /\ transcriptReadPending' = FALSE
        /\ UNCHANGED <<transcriptDelay, recent>>
  /\ UNCHANGED <<others, selectedId>>

(* Some of the handles that are at rest belong to closed processes. *)
clearFinished ==
  /\ Key
  /\ \E finished \in SUBSET (handles \ active) :
       /\ handles' = handles \ finished
       /\ ensureSelection(handles \ finished)
  /\ UNCHANGED <<created, active, version>>

dispose ==
  /\ ~disposed /\ view = "list"
  /\ disposed' = TRUE
  /\ promptRead' = Nobody
  /\ transcriptRead' = Aborted(transcriptRead)
  /\ transcriptReadPending' = FALSE /\ transcriptDelay' = NoDelay
  /\ refreshTimer' = FALSE
  /\ UNCHANGED <<others, view, selectedId, promptContent, transcriptContent, opened,
                 recent, transcriptCache, keys, faults>>

-----------------------------------------------------------------------------
(* The timers.                                                             *)

TimerStep == UNCHANGED <<others, shown, promptRead, transcriptCache, refreshTimer, keys, faults>>

refreshTimerFires ==
  /\ refreshTimer
  /\ RefreshSelected(transcriptRead, transcriptReadPending, transcriptDelay)
  /\ TimerStep

(* A second has passed since the last read of h began. *)
SecondPasses(h) ==
  /\ h \in recent
  /\ recent' = recent \ {h}
  /\ transcriptDelay' = [transcriptDelay EXCEPT !.due = @ \/ transcriptDelay.of = h]
  /\ UNCHANGED <<transcriptRead, transcriptReadPending>>
  /\ TimerStep

transcriptDelayFires ==
  /\ transcriptDelay.due
  /\ RefreshSelected(transcriptRead, transcriptReadPending, NoDelay)
  /\ TimerStep

-----------------------------------------------------------------------------
(* The operations of a read.                                               *)

Fault == faults < MaxFaults /\ faults' = faults + 1

ReadStep(read) ==
  /\ transcriptRead' = read
  /\ UNCHANGED <<others, shown, promptRead, transcriptReadPending, transcriptDelay, recent,
                 transcriptCache, refreshTimer, keys>>

(* Mutant: cached lines serve for the same file, whatever its size and time. *)
CacheServesPath(h, seen) == transcriptCache.of = h

(* The lines of an earlier read serve while size and time of the file are the same. *)
CacheServes(h, seen) == transcriptCache.of = h /\ transcriptCache.seen = seen

Stat ==
  LET read == [transcriptRead EXCEPT !.seen = version[transcriptRead.of]]
      cached == [Ended(read, "lines") EXCEPT !.at = transcriptCache.at]
  IN  /\ transcriptRead.phase = "stat"
      /\ ReadStep(IF CacheServes(read.of, read.seen) THEN cached
                  ELSE [read EXCEPT !.phase = "read"])
      /\ UNCHANGED faults

(* Open, stat, read and close: the text may be newer than what stat saw. *)
ReadText ==
  /\ transcriptRead.phase = "read"
  /\ ReadStep([Ended(transcriptRead, "lines") EXCEPT !.at = version[transcriptRead.of]])
  /\ UNCHANGED faults

ReadFails ==
  /\ transcriptRead.phase \in {"stat", "read"}
  /\ Fault
  /\ ReadStep(Ended(transcriptRead, "error"))

(* Mutant: the generation of the read is not compared. *)
ShowsAnyGeneration(read) ==
  ~disposed /\ view = "live" /\ selected # Nobody /\ selected = read.of

(* What was read is shown if the user still looks at what it was read for. *)
Shows(read) ==
  ~disposed /\ read.fresh /\ view = "live" /\ selected # Nobody /\ selected = read.of

(* The end of the read under way, which may ask for the next one. *)
refreshTranscriptEnds ==
  LET read == transcriptRead IN
  /\ read.phase = "ending"
  /\ transcriptContent' = IF Shows(read) THEN Content(read) ELSE transcriptContent
  /\ transcriptCache' = IF read.result = "lines"
                        THEN [of |-> read.of, seen |-> read.seen, at |-> read.at]
                        ELSE transcriptCache
  /\ \/ transcriptReadPending /\ RefreshSelected(NoRead, FALSE, transcriptDelay)
     \/ /\ ~transcriptReadPending
        /\ transcriptRead' = NoRead
        /\ UNCHANGED <<transcriptReadPending, transcriptDelay, recent>>
  /\ UNCHANGED <<others, view, selectedId, disposed, promptContent, opened, promptRead,
                 refreshTimer, keys, faults>>

(* A prompt that cannot be read is shown as the error.  Its aborted reads end *)
(* with nothing to show and nobody waits for them.                            *)
loadPromptEnds ==
  /\ promptRead # Nobody
  /\ promptRead' = Nobody
  /\ promptContent' = IF view = "task" /\ selected = promptRead THEN promptRead
                      ELSE promptContent
  /\ UNCHANGED <<others, view, selectedId, disposed, transcriptContent, opened, refreshing,
                 transcriptCache, refreshTimer, keys, faults>>

-----------------------------------------------------------------------------
(* The rest of the extension, as the inspector sees it.                    *)

(* Each change of a run, a close, and the trimming of old handles is     *)
(* followed by refresh (update); the start of a child and a start that    *)
(* failed are not, and wait for the next one.  What happens after the     *)
(* inspector was disposed does not concern it.                            *)
OthersStep ==
  /\ ~disposed
  /\ UNCHANGED <<shown, promptRead, refreshing, transcriptCache, refreshTimer, keys, faults>>

SubagentStarted ==
  /\ created < MaxHandles
  /\ created' = created + 1
  /\ handles' = handles \union {created + 1} /\ active' = active \union {created + 1}
  /\ UNCHANGED version /\ OthersStep

StartFailed(h) ==
  /\ h \in handles
  /\ handles' = handles \ {h} /\ active' = active \ {h}
  /\ UNCHANGED <<created, version>> /\ OthersStep

(* The run of a child begins, settles, or ends with its process. *)
RunChanges(h) ==
  /\ h \in handles
  /\ active' = IF h \in active THEN active \ {h} ELSE active \union {h}
  /\ refresh(handles, active')
  /\ UNCHANGED <<created, handles, version>>

trimRetained(h) ==
  /\ h \in handles \ active
  /\ handles' = handles \ {h}
  /\ refresh(handles', active)
  /\ UNCHANGED <<created, active, version>>

TranscriptGrows(h) ==
  /\ h \in active /\ MapThenSumSet(LAMBDA g : version[g], Handle) < MaxVersion
  /\ version' = [version EXCEPT ![h] = @ + 1]
  /\ UNCHANGED <<created, handles, active>> /\ OthersStep

-----------------------------------------------------------------------------

User == moveSelection \/ showList \/ clearFinished \/ dispose
        \/ \E detail \in View \ {"list"} : showDetail(detail)

Others ==
  \/ SubagentStarted
  \/ \E h \in Handle :
       StartFailed(h) \/ RunChanges(h) \/ trimRetained(h) \/ TranscriptGrows(h)

Reads == Stat \/ ReadText \/ ReadFails \/ refreshTranscriptEnds

Next ==
  \/ User \/ Others \/ render \/ refreshTimerFires \/ transcriptDelayFires
  \/ \E h \in Handle : SecondPasses(h)
  \/ Reads \/ loadPromptEnds

(* Timers fire, file operations end by their deadline, and each change is  *)
(* followed by a refresh or by a render.                                   *)
Fairness ==
  /\ WF_vars(render) /\ WF_vars(refreshTimerFires) /\ WF_vars(transcriptDelayFires)
  /\ \A h \in Handle : WF_vars(SecondPasses(h))
  /\ WF_vars(Reads) /\ WF_vars(loadPromptEnds)

Spec == Init /\ [][Next]_vars /\ Fairness

-----------------------------------------------------------------------------

Someone == Handle \union {Nobody}

(* Types, and at most the one read that transcriptRead names. *)
TypeOK ==
  /\ created \in 0..MaxHandles /\ handles \subseteq 1..created /\ active \subseteq handles
  /\ version \in [Handle -> Nat]
  /\ view \in View /\ {selectedId, promptContent, promptRead} \subseteq Someone
  /\ transcriptRead \in [phase : Phase, of : Someone, fresh : BOOLEAN, seen : Nat,
                         result : Result, at : Nat]
  /\ transcriptRead.phase # "none" => transcriptRead.of # Nobody
  /\ transcriptContent \in [of : Someone, result : Result, at : Nat]
  /\ transcriptDelay \in [of : Someone, due : BOOLEAN]
  /\ transcriptCache \in [of : Someone, seen : Nat, at : Nat]
  /\ recent \subseteq Handle
  /\ {disposed, transcriptReadPending, refreshTimer, opened} \subseteq BOOLEAN
  /\ keys \in 0..MaxKeys /\ faults \in 0..MaxFaults

(* What a view shows was read for the handle the user looks at, since the    *)
(* view was opened: an aborted read, however late it ends, is never shown.   *)
ContentIsOfTheView ==
  /\ promptContent # Nobody => view = "task" /\ promptContent = selectedId
  /\ transcriptContent # NoContent => view = "live" /\ transcriptContent.of = selectedId
  /\ transcriptContent.result # "aborted"

(* The transcript of a live view never goes back to an older text: a cached  *)
(* text serves only for the file it was read from, and no read that began    *)
(* before the shown one ends after it.                                       *)
LiveViewNeverGoesBack ==
  [][/\ transcriptContent.result = "lines" /\ transcriptContent'.result = "lines"
     /\ transcriptContent'.of = transcriptContent.of
     => transcriptContent'.at >= transcriptContent.at]_vars

(* A view that the user opened and does not leave shows its content in the   *)
(* end (its file, or why it cannot be read), whatever was being read when it *)
(* was opened and however soon after the last read of the same file.         *)
Loading ==
  /\ ~disposed /\ opened /\ selected # Nobody
  /\ \/ view = "task" /\ promptContent = Nobody
     \/ view = "live" /\ transcriptContent = NoContent
OpenedViewLoads == []<>~Loading

(* A view that loads is never forgotten: its prompt is being read; of its    *)
(* transcript a read is under way that will show it or begin the next one,   *)
(* or the timer that waits for the second to pass is set and will fire.      *)
DelayRuns == transcriptDelay.due \/ transcriptDelay.of \in recent

TranscriptUnderWay(h) ==
  \/ /\ transcriptRead.phase # "none"
     /\ transcriptReadPending \/ (transcriptRead.fresh /\ transcriptRead.of = h)
  \/ DelayRuns

LoadingIsUnderWay ==
  Loading => IF view = "task" THEN promptRead = selected ELSE TranscriptUnderWay(selected)

(* While some child is active the live view always catches up with its file, *)
(* also when its selection was moved to it.                                  *)
LiveViewFollows ==
  []<>(~disposed /\ view = "live" /\ selected # Nobody /\ active # {}
       => transcriptContent = [of |-> selected, result |-> "lines", at |-> version[selected]])
================================================================================
