----------------------- MODULE SubagentInspectorProofs -----------------------
(***************************************************************************)
(* Proofs about the inspector, for any number of handles, of texts, of     *)
(* keys and of failed file operations.                                     *)
(***************************************************************************)
EXTENDS SubagentInspector, WellFoundedInduction, TLAPS

-----------------------------------------------------------------------------
(* Types.                                                                  *)

ReadRecord == [phase : Phase, of : Someone, fresh : BOOLEAN, seen : Nat,
               result : Result, at : Nat]
ContentRecord == [of : Someone, result : Result, at : Nat]
DelayRecord == [of : Someone, due : BOOLEAN]
CacheRecord == [of : Someone, seen : Nat, at : Nat]

(* A read is of some handle, if there is one. *)
ReadType(read) == read \in ReadRecord /\ (read.phase # "none" => read.of # Nobody)

RefreshType ==
  /\ ReadType(transcriptRead)
  /\ transcriptDelay \in DelayRecord
  /\ recent \subseteq Handle
  /\ transcriptReadPending \in BOOLEAN

HandleType ==
  /\ created \in 0..MaxHandles /\ handles \subseteq 1..created /\ active \subseteq handles
  /\ version \in [Handle -> Nat]

ViewType ==
  /\ view \in View /\ selectedId \in Someone /\ promptContent \in Someone
  /\ promptRead \in Someone
  /\ transcriptContent \in ContentRecord
  /\ disposed \in BOOLEAN /\ opened \in BOOLEAN

RestType ==
  /\ transcriptCache \in CacheRecord
  /\ refreshTimer \in BOOLEAN
  /\ keys \in 0..MaxKeys /\ faults \in 0..MaxFaults

Types == HandleType /\ ViewType /\ RefreshType /\ RestType

(* The parts make up the type invariant. *)
LEMMA TypesIsTypeOK == Types <=> TypeOK
BY DEF Types, TypeOK, HandleType, ViewType, RefreshType, RestType, ReadType,
       ReadRecord, ContentRecord, DelayRecord, CacheRecord

(* What is selected is a handle, or nobody. *)
LEMMA SelectedType ==
  ASSUME HandleType, selectedId \in Someone
  PROVE  /\ selected \in Someone
         /\ selected # Nobody => selected \in Handle /\ selected = selectedId
         /\ handles \subseteq Handle
<1>1. handles \subseteq Handle
  BY InspectorAssumption DEF HandleType, Handle
<1> QED
  BY <1>1 DEF selected, Someone, Nobody

(* The newest of some handles is one of them. *)
LEMMA NewestIsOne ==
  ASSUME NEW n \in Nat, NEW S, S \subseteq 1..n, S # {}
  PROVE  Max(S) \in S
<1> DEFINE less == OpToRel(<, Nat)
           T == {n - x : x \in S}
<1>1. T \subseteq Nat /\ T # {}
  OBVIOUS
<1>2. \E m \in T : \A k \in T : <<k, m>> \notin less
  <2> HIDE DEF T
  <2>1. IsWellFoundedOn(less, Nat)
    BY NatLessThanWellFounded
  <2> HIDE DEF less
  <2> QED
    BY <1>1, <2>1, WFMin
<1>3. PICK x \in S : \A k \in T : <<k, n - x>> \notin less
  BY <1>2
<1>4. \A y \in S : x >= y
  <2> SUFFICES ASSUME NEW y \in S, ~(x >= y) PROVE FALSE
    OBVIOUS
  <2>1. n - y \in T /\ n - y \in Nat /\ n - x \in Nat /\ n - y < n - x
    OBVIOUS
  <2>2. <<n - y, n - x>> \in less
    BY <2>1 DEF OpToRel
  <2> QED
    BY <1>3, <2>1, <2>2
<1> QED
  BY <1>3, <1>4 DEF Max

(* So is the oldest. *)
LEMMA OldestIsOne ==
  ASSUME NEW S, S \subseteq Nat, S # {}
  PROVE  Min(S) \in S
<1> DEFINE less == OpToRel(<, Nat)
<1>1. \E x \in S : \A y \in S : <<y, x>> \notin less
  <2>1. IsWellFoundedOn(less, Nat)
    BY NatLessThanWellFounded
  <2> HIDE DEF less
  <2> QED
    BY <2>1, WFMin
<1>2. PICK x \in S : \A y \in S : <<y, x>> \notin less
  BY <1>1
<1>3. \A y \in S : x =< y
  <2> SUFFICES ASSUME NEW y \in S, ~(x =< y) PROVE FALSE
    OBVIOUS
  <2>1. y \in Nat /\ x \in Nat /\ y < x
    OBVIOUS
  <2>2. <<y, x>> \in less
    BY <2>1 DEF OpToRel
  <2> QED
    BY <1>2, <2>2
<1> QED
  BY <1>2, <1>3 DEF Min

(* An abort keeps a read of the same file, and its outcome is not shown. *)
LEMMA AbortedType ==
  ASSUME NEW read, ReadType(read)
  PROVE  /\ ReadType(Aborted(read))
         /\ ~Aborted(read).fresh
         /\ Aborted(read).of = read.of
         /\ Aborted(read).phase # "none" => read.phase # "none"
BY DEF ReadType, ReadRecord, Aborted, Ended, Phase, Result

(* A new read is of a handle, at its stat. *)
LEMMA NewReadType ==
  ASSUME NEW h \in Handle
  PROVE  ReadType(NewRead(h)) /\ NewRead(h).phase = "stat" /\ NewRead(h).result = "none"
<1>1. h # Nobody
  BY InspectorAssumption DEF Handle, Nobody
<1> QED
  BY <1>1 DEF ReadType, ReadRecord, NewRead, NoRead, Phase, Result, Someone

(* No read is a read record as well. *)
LEMMA NoReadType == ReadType(NoRead)
BY DEF ReadType, ReadRecord, NoRead, Phase, Result, Someone

(* A refresh leaves the read that it found, or begins one. *)
Refreshes(read) ==
  /\ RefreshType'
  /\ transcriptRead' = read \/ \E h \in Handle : transcriptRead' = NewRead(h)

(* refreshTranscript leaves the read it found or begins one. *)
LEMMA RefreshStep ==
  ASSUME NEW h \in Handle, NEW read, ReadType(read), NEW pending \in BOOLEAN,
         NEW delay \in DelayRecord, recent \subseteq Handle,
         refreshTranscript(h, read, pending, delay)
  PROVE  Refreshes(read)
<1>1. [of |-> h, due |-> FALSE] \in DelayRecord
  BY DEF DelayRecord, Someone
<1>2. AskAgain(pending) \in BOOLEAN
  BY DEF AskAgain
<1> QED
  BY <1>1, <1>2, NewReadType DEF Refreshes, RefreshType, refreshTranscript

(* So does a refresh of the selection. *)
LEMMA RefreshSelectedStep ==
  ASSUME HandleType, selectedId \in Someone, NEW read, ReadType(read),
         NEW pending \in BOOLEAN, NEW delay \in DelayRecord, recent \subseteq Handle,
         RefreshSelected(read, pending, delay)
  PROVE  Refreshes(read)
<1>1. CASE view = "live" /\ selected # Nobody
  BY <1>1, RefreshStep, SelectedType DEF RefreshSelected
<1>2. CASE view # "live" \/ selected = Nobody
  BY <1>2 DEF RefreshSelected, Refreshes, RefreshType
<1> QED
  BY <1>1, <1>2

(* Reads that are invalidated keep their types. *)
LEMMA InvalidateStep ==
  ASSUME RefreshType, invalidateReads
  PROVE  RefreshType'
BY AbortedType DEF RefreshType, invalidateReads

(* What ensureSelection may leave of the selection, the view and the reads. *)
LEMMA EnsureSelectionStep ==
  ASSUME Types, NEW n \in Nat, n <= MaxHandles,
         NEW tracked, tracked \subseteq 1..n, ensureSelection(tracked)
  PROVE  ViewType' /\ RefreshType'
<1> DEFINE first == IF tracked = {} THEN Nobody ELSE Max(tracked)
           stays == selectedId \in tracked \/ selectedId = first
<1>1. first \in Someone
  <2>1. CASE tracked = {}
    BY <2>1 DEF Someone
  <2>2. CASE tracked # {}
    <3>1. first \in 1..n
      BY <2>2, NewestIsOne
    <3> QED
      BY <3>1, InspectorAssumption DEF Someone, Handle
  <2> QED
    BY <2>1, <2>2
<1>2. /\ selectedId' = IF stays THEN selectedId ELSE first
      /\ view' = IF tracked = {} THEN "list" ELSE view
      /\ opened' = (opened /\ stays)
      /\ IF stays THEN UNCHANGED <<promptContent, transcriptContent, promptRead, refreshing>>
                  ELSE invalidateReads
      /\ disposed' = disposed
  BY DEF ensureSelection
<1> HIDE DEF first
<1>3. ViewType /\ RefreshType
  BY DEF Types
<1>4. opened' \in BOOLEAN /\ selectedId' \in Someone /\ view' \in View
  BY <1>1, <1>2, <1>3 DEF ViewType, View
<1>5. CASE stays
  <2>1. UNCHANGED <<promptContent, transcriptContent, promptRead, refreshing>>
    BY <1>2, <1>5
  <2>2. RefreshType'
    BY <1>3, <2>1 DEF RefreshType, refreshing
  <2> QED
    BY <1>2, <1>3, <1>4, <2>1, <2>2 DEF ViewType
<1>6. CASE ~stays
  <2>1. invalidateReads
    BY <1>2, <1>6
  <2>2. RefreshType'
    BY <1>3, <2>1, InvalidateStep
  <2>3. promptContent' = Nobody /\ promptRead' = Nobody /\ transcriptContent' = NoContent
    BY <2>1 DEF invalidateReads, dropContents
  <2> QED
    BY <1>2, <1>3, <1>4, <2>2, <2>3 DEF ViewType, Someone, NoContent, ContentRecord, Result
<1> QED
  BY <1>5, <1>6

(* The selection after a change of the handles. *)
LEMMA RefreshTypes ==
  ASSUME Types, NEW n \in Nat, n <= MaxHandles,
         NEW tracked, tracked \subseteq 1..n, NEW running, refresh(tracked, running)
  PROVE  ViewType' /\ RefreshType' /\ RestType'
<1>1. ViewType' /\ RefreshType'
  BY EnsureSelectionStep DEF refresh
<1>2. RestType'
  BY DEF Types, RestType, refresh, reconcileRefreshTimer
<1> QED
  BY <1>1, <1>2

(* A key leaves the cache and the timer alone. *)
LEMMA KeyTypes ==
  ASSUME Types, Key
  PROVE  RestType'
BY InspectorAssumption DEF Types, RestType, Key

(* The selection moves to a handle. *)
LEMMA MovedSelection ==
  ASSUME HandleType, selectedId \in Someone, moveSelection
  PROVE  selectedId' \in handles
<1> DEFINE current == IF selected = Nobody THEN Max(handles) ELSE selected
           older == {g \in handles : g < current}
           newer == {g \in handles : g > current}
<1>1. created \in Nat /\ handles \subseteq 1..created /\ handles \subseteq Nat
  BY InspectorAssumption DEF HandleType
<1>2. handles \subseteq Handle /\ handles # {}
  BY SelectedType DEF moveSelection
<1>3. current \in handles
  <2>1. Max(handles) \in handles
    BY <1>1, <1>2, NewestIsOne
  <2> QED
    BY <2>1 DEF selected
<1>4. selectedId' \in {current} \union Neighbours(current)
  BY DEF moveSelection
<1>5. Neighbours(current) = (IF older = {} THEN {} ELSE {Max(older)})
                              \union (IF newer = {} THEN {} ELSE {Min(newer)})
  BY DEF Neighbours
<1>6. older # {} => Max(older) \in handles
  <2>1. older \subseteq handles /\ older \subseteq 1..created
    BY <1>1
  <2> HIDE DEF older
  <2> QED
    BY <1>1, <2>1, NewestIsOne
<1>7. newer # {} => Min(newer) \in handles
  <2>1. newer \subseteq handles /\ newer \subseteq Nat
    BY <1>1
  <2> HIDE DEF newer
  <2> QED
    BY <2>1, OldestIsOne
<1> HIDE DEF current, older, newer
<1> QED
  BY <1>3, <1>4, <1>5, <1>6, <1>7

(* The user's keys. *)
LEMMA UserTypes ==
  ASSUME Types, User
  PROVE  Types'
<1>0. /\ HandleType /\ ViewType /\ RefreshType /\ RestType
      /\ selected \in Someone
      /\ selected # Nobody => selected \in Handle
  BY SelectedType DEF Types, ViewType
<1>1. CASE moveSelection
  <2>1. RestType' /\ RefreshType'
    BY <1>0, <1>1, KeyTypes, InvalidateStep DEF moveSelection
  <2>2. HandleType'
    BY <1>0, <1>1 DEF moveSelection, others, HandleType
  <2>3. selectedId' \in Someone
    BY <1>0, <1>1, MovedSelection, SelectedType DEF ViewType, Someone
  <2>4. ViewType'
    BY <1>0, <1>1, <2>3
       DEF ViewType, moveSelection, Key, invalidateReads, dropContents, NoContent,
           ContentRecord, Someone, Result
  <2> QED
    BY <2>1, <2>2, <2>4 DEF Types
<1>2. CASE showList
  <2>1. RestType' /\ RefreshType'
    BY <1>0, <1>2, KeyTypes, InvalidateStep DEF showList
  <2>2. HandleType'
    BY <1>0, <1>2 DEF showList, others, HandleType
  <2>3. ViewType'
    BY <1>0, <1>2
       DEF ViewType, View, showList, Key, invalidateReads, dropContents, NoContent,
           ContentRecord, Someone, Result
  <2> QED
    BY <2>1, <2>2, <2>3 DEF Types
<1>3. ASSUME NEW detail \in View \ {"list"}, showDetail(detail)
      PROVE  Types'
  <2>1. RestType'
    BY <1>3, KeyTypes DEF showDetail
  <2>2. HandleType'
    BY <1>0, <1>3 DEF showDetail, others, HandleType
  <2>3. /\ dropContents /\ promptRead' \in Someone
        /\ selectedId' = selectedId /\ disposed' = disposed
        /\ view' = detail /\ opened' = TRUE
    BY <1>0, <1>3 DEF showDetail, Someone, Key
  <2>4. ViewType'
    BY <1>0, <2>3 DEF ViewType, dropContents, NoContent, ContentRecord, Someone, Result
  <2>5. RefreshType'
    <3>1. ReadType(Aborted(transcriptRead))
      BY <1>0, AbortedType DEF RefreshType
    <3>2. CASE detail = "live"
      <4>1. refreshTranscript(selected, Aborted(transcriptRead), FALSE, transcriptDelay)
        BY <1>3, <3>2 DEF showDetail
      <4>2. selected \in Handle
        BY <1>0, <1>3 DEF showDetail
      <4> QED
        BY <1>0, <3>1, <4>1, <4>2, RefreshStep DEF RefreshType, Refreshes
    <3>3. CASE detail # "live"
      BY <1>0, <1>3, <3>1, <3>3 DEF showDetail, RefreshType
    <3> QED
      BY <3>2, <3>3
  <2> QED
    BY <2>1, <2>2, <2>4, <2>5 DEF Types
<1>4. CASE clearFinished
  <2>1. PICK finished \in SUBSET (handles \ active) :
               handles' = handles \ finished /\ ensureSelection(handles \ finished)
    BY <1>4 DEF clearFinished
  <2>2. created \in Nat /\ created <= MaxHandles /\ handles \ finished \subseteq 1..created
    BY <1>0, InspectorAssumption DEF HandleType
  <2>3. ViewType' /\ RefreshType'
    BY <2>1, <2>2, EnsureSelectionStep
  <2>4. RestType'
    BY <1>4, KeyTypes DEF clearFinished
  <2>5. HandleType'
    BY <1>0, <1>4, <2>1, <2>2 DEF clearFinished, HandleType
  <2> QED
    BY <2>3, <2>4, <2>5 DEF Types
<1>5. CASE dispose
  <2>1. RefreshType'
    BY <1>0, <1>5, AbortedType
       DEF dispose, RefreshType, NoDelay, DelayRecord, Someone
  <2>2. HandleType' /\ ViewType' /\ RestType'
    BY <1>0, <1>5 DEF dispose, others, HandleType, ViewType, RestType, Someone
  <2> QED
    BY <2>1, <2>2 DEF Types
<1> QED
  BY <1>1, <1>2, <1>3, <1>4, <1>5 DEF User

(* What the rest of the extension does. *)
LEMMA OthersTypes ==
  ASSUME Types, Others
  PROVE  Types'
<1>0. /\ HandleType /\ ViewType /\ RefreshType /\ RestType
      /\ created \in Nat /\ MaxHandles \in Nat /\ created <= MaxHandles
      /\ handles \subseteq 1..created /\ handles \subseteq Handle
  BY SelectedType, InspectorAssumption DEF Types, ViewType, HandleType
<1>1. ASSUME OthersStep, HandleType' PROVE Types'
  BY <1>0, <1>1
     DEF OthersStep, shown, refreshing, Types, ViewType, RefreshType, RestType
<1>2. CASE SubagentStarted
  BY <1>0, <1>1, <1>2 DEF SubagentStarted, HandleType
<1>3. ASSUME NEW h \in Handle, StartFailed(h) PROVE Types'
  BY <1>0, <1>1, <1>3 DEF StartFailed, HandleType
<1>4. ASSUME NEW h \in Handle, RunChanges(h) PROVE Types'
  <2>1. refresh(handles, active') /\ UNCHANGED <<created, handles, version>>
    BY <1>4 DEF RunChanges
  <2>2. ViewType' /\ RefreshType' /\ RestType'
    BY <1>0, <2>1, RefreshTypes
  <2>3. HandleType'
    BY <1>0, <1>4, <2>1 DEF RunChanges, HandleType
  <2> QED
    BY <2>2, <2>3 DEF Types
<1>5. ASSUME NEW h \in Handle, trimRetained(h) PROVE Types'
  <2>1. /\ refresh(handles \ {h}, active) /\ handles' = handles \ {h}
        /\ h \notin active /\ UNCHANGED <<created, active, version>>
    BY <1>5 DEF trimRetained
  <2>2. handles \ {h} \subseteq 1..created
    BY <1>0
  <2>3. ViewType' /\ RefreshType' /\ RestType'
    BY <1>0, <2>1, <2>2, RefreshTypes
  <2>4. HandleType'
    BY <1>0, <2>1 DEF HandleType
  <2> QED
    BY <2>3, <2>4 DEF Types
<1>6. ASSUME NEW h \in Handle, TranscriptGrows(h) PROVE Types'
  BY <1>0, <1>1, <1>6 DEF TranscriptGrows, HandleType
<1> QED
  BY <1>2, <1>3, <1>4, <1>5, <1>6 DEF Others

(* Timers and file operations. *)
LEMMA TimerTypes ==
  ASSUME Types,
         \/ render \/ refreshTimerFires \/ transcriptDelayFires
         \/ \E h \in Handle : SecondPasses(h)
  PROVE  Types'
<1>0. /\ HandleType /\ ViewType /\ RefreshType /\ RestType
      /\ created \in Nat /\ created <= MaxHandles /\ handles \subseteq 1..created
  BY InspectorAssumption DEF Types, HandleType
<1>1. CASE render
  BY <1>0, <1>1, RefreshTypes DEF render, others, Types, HandleType
<1>2. ASSUME TimerStep, RefreshType' PROVE Types'
  BY <1>0, <1>2 DEF TimerStep, others, shown, Types, HandleType, ViewType, RestType
<1>3. CASE refreshTimerFires
  <2>1. RefreshType'
    BY <1>0, <1>3, RefreshSelectedStep
       DEF refreshTimerFires, RefreshType, ViewType, Refreshes
  <2> QED
    BY <1>2, <1>3, <2>1 DEF refreshTimerFires
<1>4. CASE transcriptDelayFires
  <2>1. NoDelay \in DelayRecord
    BY DEF NoDelay, DelayRecord, Someone
  <2>2. RefreshType'
    BY <1>0, <1>4, <2>1, RefreshSelectedStep
       DEF transcriptDelayFires, RefreshType, ViewType, Refreshes
  <2> QED
    BY <1>2, <1>4, <2>2 DEF transcriptDelayFires
<1>5. ASSUME NEW h \in Handle, SecondPasses(h) PROVE Types'
  <2>1. RefreshType'
    BY <1>0, <1>5 DEF SecondPasses, RefreshType, DelayRecord
  <2> QED
    BY <1>2, <1>5, <2>1 DEF SecondPasses
<1> QED
  BY <1>1, <1>3, <1>4, <1>5

(* The operations of a read keep the types. *)
LEMMA ReadsTypes ==
  ASSUME Types, Reads \/ loadPromptEnds
  PROVE  Types'
<1>0. /\ HandleType /\ ViewType /\ RefreshType /\ RestType
      /\ transcriptRead.phase # "none" =>
           /\ transcriptRead.of \in Handle
           /\ version[transcriptRead.of] \in Nat
  BY DEF Types, RefreshType, HandleType, ReadType, ReadRecord, Someone
<1>1. ASSUME NEW read, ReadStep(read), ReadType(read), faults' \in 0..MaxFaults
      PROVE  Types'
  BY <1>0, <1>1
     DEF ReadStep, others, shown, Types, HandleType, ViewType, RefreshType, RestType
<1>2. ASSUME NEW result \in {"lines", "error"}, NEW read, ReadType(read),
             read.phase # "none"
      PROVE  ReadType(Ended(read, result))
  BY <1>2 DEF ReadType, ReadRecord, Ended, Phase, Result
<1>3. CASE Stat
  <2> DEFINE read == [transcriptRead EXCEPT !.seen = version[transcriptRead.of]]
             cached == [Ended(read, "lines") EXCEPT !.at = transcriptCache.at]
  <2>1. ReadType(read) /\ read.phase # "none"
    BY <1>0, <1>3 DEF Stat, RefreshType, ReadType, ReadRecord
  <2>2. ReadType(cached)
    <3>1. ReadType(Ended(read, "lines")) /\ transcriptCache.at \in Nat
      BY <1>0, <1>2, <2>1 DEF RestType, CacheRecord
    <3> QED
      BY <3>1 DEF ReadType, ReadRecord
  <2>3. ReadType([read EXCEPT !.phase = "read"])
    BY <2>1 DEF ReadType, ReadRecord, Phase
  <2>4. /\ ReadStep(cached) \/ ReadStep([read EXCEPT !.phase = "read"])
        /\ faults' = faults
    BY <1>3 DEF Stat
  <2> HIDE DEF cached, read
  <2> QED
    BY <1>0, <1>1, <2>2, <2>3, <2>4 DEF RestType
<1>4. CASE ReadText
  <2> DEFINE ended == [Ended(transcriptRead, "lines") EXCEPT !.at = version[transcriptRead.of]]
  <2>1. ReadType(Ended(transcriptRead, "lines")) /\ version[transcriptRead.of] \in Nat
    BY <1>0, <1>2, <1>4 DEF ReadText, RefreshType
  <2>2. ReadType(ended)
    BY <2>1 DEF ReadType, ReadRecord
  <2>3. ReadStep(ended) /\ faults' = faults
    BY <1>4 DEF ReadText
  <2> HIDE DEF ended
  <2> QED
    BY <1>0, <1>1, <2>2, <2>3 DEF RestType
<1>5. CASE ReadFails
  <2>1. ReadType(Ended(transcriptRead, "error"))
    BY <1>0, <1>2, <1>5 DEF ReadFails, RefreshType
  <2>2. faults' \in 0..MaxFaults /\ ReadStep(Ended(transcriptRead, "error"))
    BY <1>0, <1>5, InspectorAssumption DEF ReadFails, Fault, RestType
  <2> QED
    BY <1>1, <2>1, <2>2
<1>6. CASE refreshTranscriptEnds
  <2>1. RefreshType'
    <3>1. CASE transcriptReadPending /\ RefreshSelected(NoRead, FALSE, transcriptDelay)
      BY <1>0, <3>1, NoReadType, RefreshSelectedStep DEF RefreshType, ViewType, Refreshes
    <3>2. CASE ~transcriptReadPending
      BY <1>0, <1>6, <3>2, NoReadType DEF refreshTranscriptEnds, RefreshType
    <3> QED
      BY <1>6, <3>1, <3>2 DEF refreshTranscriptEnds
  <2>2. transcriptContent' \in ContentRecord /\ transcriptCache' \in CacheRecord
    BY <1>0, <1>6
       DEF refreshTranscriptEnds, RefreshType, ReadType, ReadRecord, ViewType, RestType,
           ContentRecord, CacheRecord, Content
  <2> QED
    BY <1>0, <1>6, <2>1, <2>2
       DEF refreshTranscriptEnds, others, Types, HandleType, ViewType, RestType
<1>7. CASE loadPromptEnds
  BY <1>0, <1>7
     DEF loadPromptEnds, others, refreshing, Types, HandleType, ViewType, RefreshType,
         RestType, Someone
<1> QED
  BY <1>3, <1>4, <1>5, <1>6, <1>7 DEF Reads

(* So does a step that changes nothing. *)
LEMMA NothingTypes ==
  ASSUME Types, UNCHANGED vars
  PROVE  Types'
BY DEF vars, others, shown, refreshing, Types, HandleType, ViewType, RefreshType, RestType

(* Every step keeps the types. *)
LEMMA TypesStep ==
  ASSUME Types, [Next]_vars
  PROVE  Types'
BY UserTypes, OthersTypes, TimerTypes, ReadsTypes, NothingTypes DEF Next

(* The initial state has the types. *)
LEMMA InitTypes ==
  ASSUME Init
  PROVE  Types
<1>1. HandleType
  BY InspectorAssumption DEF Init, HandleType
<1>2. ViewType
  BY DEF Init, ViewType, View, Someone, NoContent, ContentRecord, Result
<1>3. RefreshType
  BY NoReadType DEF Init, RefreshType, NoDelay, DelayRecord, Someone
<1>4. RestType
  <2>1. /\ transcriptCache = NoCache /\ refreshTimer = FALSE
        /\ keys = 0 /\ faults = 0
    BY DEF Init
  <2>2. 0 \in 0..MaxKeys /\ 0 \in 0..MaxFaults
    BY InspectorAssumption
  <2>3. NoCache \in CacheRecord
    BY DEF NoCache, CacheRecord, Someone
  <2> QED
    BY <2>1, <2>2, <2>3 DEF RestType
<1> QED
  BY <1>1, <1>2, <1>3, <1>4 DEF Types

(***************************************************************************)
(* The inspector's fields keep their types: the selection is a handle that *)
(* exists or existed, and a read is the read of some handle.               *)
(***************************************************************************)
THEOREM InspectorTypeOK == Spec => []TypeOK
<1>1. Init => TypeOK
  BY InitTypes, TypesIsTypeOK
<1>2. TypeOK /\ [Next]_vars => TypeOK'
  <2> SUFFICES ASSUME TypeOK, [Next]_vars PROVE TypeOK'
    OBVIOUS
  <2>1. Types
    BY TypesIsTypeOK
  <2>2. Types'
    BY <2>1, TypesStep
  <2> QED
    BY <2>2
       DEF Types, TypeOK, HandleType, ViewType, RefreshType, RestType, ReadType,
           ReadRecord, ContentRecord, DelayRecord, CacheRecord
<1> QED
  BY <1>1, <1>2, PTL DEF Spec

-----------------------------------------------------------------------------
(* What the views show.                                                    *)

(* What is shown is of the view, and it is of somebody. *)
Contents ==
  /\ ContentIsOfTheView
  /\ transcriptContent # NoContent => transcriptContent.of # Nobody

(* The outcome of an aborted read is not fresh. *)
Honest(read) == read.result = "aborted" => ~read.fresh

(* A step that shows nothing new: it clears the views, or leaves them and *)
(* the selection alone; the read is left, aborted, or a new one.          *)
Quiet ==
  /\ dropContents \/ UNCHANGED <<promptContent, transcriptContent, view, selectedId>>
  /\ transcriptCache' = transcriptCache
  /\ \/ transcriptRead' = transcriptRead
     \/ transcriptRead' = Aborted(transcriptRead)
     \/ \E h \in Handle : transcriptRead' = NewRead(h)
  /\ \A h \in Handle : version[h] <= version'[h]

(* A selection that loses its handle loses its views with it. *)
LEMMA EnsureSelectionQuiet ==
  ASSUME Contents, NEW tracked, ensureSelection(tracked)
  PROVE  /\ dropContents \/ UNCHANGED <<promptContent, transcriptContent, view, selectedId>>
         /\ \/ transcriptRead' = transcriptRead
            \/ transcriptRead' = Aborted(transcriptRead)
<1> DEFINE first == IF tracked = {} THEN Nobody ELSE Max(tracked)
           stays == selectedId \in tracked \/ selectedId = first
<1>1. /\ selectedId' = IF stays THEN selectedId ELSE first
      /\ view' = IF tracked = {} THEN "list" ELSE view
      /\ IF stays THEN UNCHANGED <<promptContent, transcriptContent, promptRead, refreshing>>
                  ELSE invalidateReads
  BY DEF ensureSelection
<1>2. tracked = {} => first = Nobody
  OBVIOUS
<1> HIDE DEF first
<1>3. CASE ~stays
  BY <1>1, <1>3 DEF invalidateReads
<1>4. CASE stays /\ tracked # {}
  BY <1>1, <1>4 DEF refreshing
<1>5. CASE stays /\ tracked = {}
  <2>1. selectedId = Nobody
    BY <1>2, <1>5
  <2>2. promptContent = Nobody /\ transcriptContent = NoContent
    BY <2>1 DEF Contents, ContentIsOfTheView
  <2> QED
    BY <1>1, <1>5, <2>2 DEF dropContents, refreshing
<1> QED
  BY <1>3, <1>4, <1>5

(* Transcripts only grow. *)
LEMMA VersionsGrow ==
  ASSUME HandleType
  PROVE  /\ version' = version => \A h \in Handle : version[h] <= version'[h]
         /\ \A g \in Handle : version' = [version EXCEPT ![g] = @ + 1] =>
              \A h \in Handle : version[h] <= version'[h]
BY DEF HandleType

(* The keys show nothing by themselves. *)
LEMMA UserQuiet ==
  ASSUME Types, Contents, User
  PROVE  Quiet
<1>0. /\ HandleType /\ RefreshType /\ selectedId \in Someone
      /\ ReadType(transcriptRead)
      /\ selected # Nobody => selected \in Handle
      /\ version' = version => \A h \in Handle : version[h] <= version'[h]
  BY SelectedType, VersionsGrow DEF Types, ViewType, RefreshType
<1>1. CASE moveSelection
  BY <1>0, <1>1 DEF moveSelection, Key, invalidateReads, others, Quiet
<1>2. CASE showList
  BY <1>0, <1>2 DEF showList, Key, invalidateReads, others, Quiet
<1>3. ASSUME NEW detail \in View \ {"list"}, showDetail(detail)
      PROVE  Quiet
  <2>1. dropContents /\ transcriptCache' = transcriptCache /\ version' = version
    BY <1>3 DEF showDetail, Key, others
  <2>2. CASE detail = "live"
    <3>1. refreshTranscript(selected, Aborted(transcriptRead), FALSE, transcriptDelay)
      BY <1>3, <2>2 DEF showDetail
    <3>2. selected \in Handle /\ ReadType(Aborted(transcriptRead))
      BY <1>0, <1>3, AbortedType DEF showDetail
    <3>3. Refreshes(Aborted(transcriptRead))
      BY <1>0, <3>1, <3>2, RefreshStep DEF RefreshType
    <3> QED
      BY <1>0, <2>1, <3>3 DEF Refreshes, Quiet
  <2>3. CASE detail # "live"
    BY <1>0, <1>3, <2>1, <2>3 DEF showDetail, Quiet
  <2> QED
    BY <2>2, <2>3
<1>4. CASE clearFinished
  <2>1. PICK finished \in SUBSET (handles \ active) : ensureSelection(handles \ finished)
    BY <1>4 DEF clearFinished
  <2>2. transcriptCache' = transcriptCache /\ version' = version
    BY <1>4 DEF clearFinished, Key
  <2> QED
    BY <1>0, <2>1, <2>2, EnsureSelectionQuiet DEF Quiet
<1>5. CASE dispose
  BY <1>0, <1>5 DEF dispose, others, Quiet
<1> QED
  BY <1>1, <1>2, <1>3, <1>4, <1>5 DEF User

(* Nor does the rest of the extension. *)
LEMMA OthersQuiet ==
  ASSUME Types, Contents, Others
  PROVE  Quiet
<1>0. /\ HandleType
      /\ version' = version => \A h \in Handle : version[h] <= version'[h]
  BY VersionsGrow DEF Types
<1>1. ASSUME OthersStep, \A h \in Handle : version[h] <= version'[h] PROVE Quiet
  BY <1>1 DEF OthersStep, shown, refreshing, Quiet
<1>2. ASSUME NEW tracked, NEW running, refresh(tracked, running), version' = version
      PROVE  Quiet
  BY <1>0, <1>2, EnsureSelectionQuiet DEF refresh, Quiet
<1>3. CASE SubagentStarted
  BY <1>0, <1>1, <1>3 DEF SubagentStarted
<1>4. ASSUME NEW h \in Handle, StartFailed(h) PROVE Quiet
  BY <1>0, <1>1, <1>4 DEF StartFailed
<1>5. ASSUME NEW h \in Handle, RunChanges(h) PROVE Quiet
  BY <1>2, <1>5 DEF RunChanges
<1>6. ASSUME NEW h \in Handle, trimRetained(h) PROVE Quiet
  BY <1>2, <1>6 DEF trimRetained
<1>7. ASSUME NEW h \in Handle, TranscriptGrows(h) PROVE Quiet
  BY <1>0, <1>1, <1>7, VersionsGrow DEF TranscriptGrows
<1> QED
  BY <1>3, <1>4, <1>5, <1>6, <1>7 DEF Others

(* Nor do the timers, which ask for reads. *)
LEMMA TimerQuiet ==
  ASSUME Types, Contents,
         \/ render \/ refreshTimerFires \/ transcriptDelayFires
         \/ \E h \in Handle : SecondPasses(h)
         \/ UNCHANGED vars
  PROVE  Quiet
<1>0. /\ HandleType /\ RefreshType /\ selectedId \in Someone
      /\ version' = version => \A h \in Handle : version[h] <= version'[h]
  BY VersionsGrow DEF Types, ViewType
<1>1. CASE render
  BY <1>0, <1>1, EnsureSelectionQuiet DEF render, refresh, others, Quiet
<1>2. ASSUME TimerStep, Refreshes(transcriptRead) PROVE Quiet
  BY <1>0, <1>2 DEF TimerStep, others, shown, Refreshes, Quiet
<1>3. CASE refreshTimerFires
  BY <1>0, <1>2, <1>3, RefreshSelectedStep DEF refreshTimerFires, RefreshType
<1>4. CASE transcriptDelayFires
  <2>1. NoDelay \in DelayRecord
    BY DEF NoDelay, DelayRecord, Someone
  <2> QED
    BY <1>0, <1>2, <1>4, <2>1, RefreshSelectedStep DEF transcriptDelayFires, RefreshType
<1>5. ASSUME NEW h \in Handle, SecondPasses(h) PROVE Quiet
  BY <1>0, <1>5 DEF SecondPasses, TimerStep, others, shown, Quiet
<1>6. CASE UNCHANGED vars
  BY <1>0, <1>6 DEF vars, others, shown, refreshing, Quiet
<1> QED
  BY <1>1, <1>3, <1>4, <1>5, <1>6

(* A step that shows nothing new leaves the views right. *)
LEMMA QuietContents ==
  ASSUME Contents, Honest(transcriptRead), Quiet
  PROVE  Contents' /\ Honest(transcriptRead)'
<1>1. Contents'
  BY DEF Quiet, Contents, ContentIsOfTheView, dropContents, NoContent
<1>2. Honest(Aborted(transcriptRead))
  BY DEF Honest, Aborted
<1>3. \A h \in Handle : Honest(NewRead(h))
  BY DEF Honest, NewRead, NoRead
<1>4. Honest(transcriptRead)'
  BY <1>2, <1>3 DEF Quiet, Honest
<1> QED
  BY <1>1, <1>4

(* A file operation brings the outcome of a read, but does not show it. *)
LEMMA OperationContents ==
  ASSUME Types, Contents, Honest(transcriptRead), Stat \/ ReadText \/ ReadFails
  PROVE  Contents' /\ Honest(transcriptRead)'
<1>1. ReadType(transcriptRead)
  BY DEF Types, RefreshType
<1>2. /\ UNCHANGED <<view, selectedId, promptContent, transcriptContent>>
      /\ transcriptRead'.result \in {transcriptRead.result, "lines", "error"}
      /\ transcriptRead'.fresh = transcriptRead.fresh
  <2>1. CASE Stat
    BY <1>1, <2>1 DEF Stat, ReadStep, shown, Ended, ReadType, ReadRecord
  <2>2. CASE ReadText
    BY <1>1, <2>2 DEF ReadText, ReadStep, shown, Ended, ReadType, ReadRecord
  <2>3. CASE ReadFails
    BY <1>1, <2>3 DEF ReadFails, ReadStep, shown, Ended, ReadType, ReadRecord
  <2> QED
    BY <2>1, <2>2, <2>3
<1> QED
  BY <1>2 DEF Contents, ContentIsOfTheView, NoContent, Honest

(* The read that the end of a read may ask for. *)
LEMMA EndRead ==
  ASSUME Types, refreshTranscriptEnds
  PROVE  transcriptRead' = NoRead \/ \E h \in Handle : transcriptRead' = NewRead(h)
<1>0. HandleType /\ RefreshType /\ selectedId \in Someone
  BY DEF Types, ViewType
<1>1. CASE transcriptReadPending /\ RefreshSelected(NoRead, FALSE, transcriptDelay)
  BY <1>0, <1>1, NoReadType, RefreshSelectedStep DEF RefreshType, Refreshes
<1> QED
  BY <1>1 DEF refreshTranscriptEnds

(* The end of a read shows what it read only to the view it was read for. *)
LEMMA EndContents ==
  ASSUME Types, Contents, Honest(transcriptRead), refreshTranscriptEnds
  PROVE  Contents' /\ Honest(transcriptRead)'
<1>0. HandleType /\ selectedId \in Someone
  BY DEF Types, ViewType
<1>1. UNCHANGED <<view, selectedId, promptContent>>
  BY DEF refreshTranscriptEnds
<1>2. Contents'
  <2>1. CASE Shows(transcriptRead)
    <3>1. transcriptContent' = Content(transcriptRead)
      BY <2>1 DEF refreshTranscriptEnds
    <3>2. /\ transcriptRead.of = selectedId /\ transcriptRead.of # Nobody
          /\ view = "live" /\ transcriptRead.result # "aborted"
      BY <1>0, <2>1, SelectedType DEF Shows, Honest
    <3> QED
      BY <1>1, <3>1, <3>2 DEF Contents, ContentIsOfTheView, Content, NoContent
  <2>2. CASE ~Shows(transcriptRead)
    <3>1. transcriptContent' = transcriptContent
      BY <2>2 DEF refreshTranscriptEnds
    <3> QED
      BY <1>1, <3>1 DEF Contents, ContentIsOfTheView, NoContent
  <2> QED
    BY <2>1, <2>2
<1>3. Honest(transcriptRead)'
  <2>1. Honest(NoRead) /\ \A h \in Handle : Honest(NewRead(h))
    BY DEF Honest, NewRead, NoRead
  <2> QED
    BY <2>1, EndRead DEF Honest
<1> QED
  BY <1>2, <1>3

(* So does the end of the read of a prompt. *)
LEMMA PromptContents ==
  ASSUME Types, Contents, Honest(transcriptRead), loadPromptEnds
  PROVE  Contents' /\ Honest(transcriptRead)'
<1>1. HandleType /\ selectedId \in Someone
  BY DEF Types, ViewType
<1>2. /\ promptRead # Nobody
      /\ promptContent' = IF view = "task" /\ selected = promptRead THEN promptRead
                          ELSE promptContent
      /\ UNCHANGED <<view, selectedId, transcriptContent, transcriptRead>>
  BY DEF loadPromptEnds, refreshing
<1> QED
  BY <1>1, <1>2, SelectedType DEF Contents, ContentIsOfTheView, NoContent, Honest

(* The views are right, and no aborted read can make them wrong. *)
ShownInv == Types /\ Contents /\ Honest(transcriptRead)

(* Nothing is shown or read at first. *)
LEMMA ShownInit ==
  ASSUME Init
  PROVE  ShownInv
<1>1. /\ promptContent = Nobody /\ transcriptContent = NoContent
      /\ transcriptRead = NoRead
  BY DEF Init
<1>2. Contents /\ Honest(transcriptRead)
  BY <1>1 DEF Contents, ContentIsOfTheView, Honest, NoContent, NoRead
<1> QED
  BY <1>2, InitTypes DEF ShownInv

(* Every step leaves what is shown right. *)
LEMMA ShownStep ==
  ASSUME ShownInv, [Next]_vars
  PROVE  ShownInv'
<1>0. Types /\ Contents /\ Honest(transcriptRead) /\ Types'
  BY TypesStep DEF ShownInv
<1>1. CASE Quiet
  BY <1>0, <1>1, QuietContents DEF ShownInv
<1>2. CASE Stat \/ ReadText \/ ReadFails
  BY <1>0, <1>2, OperationContents DEF ShownInv
<1>3. CASE refreshTranscriptEnds
  BY <1>0, <1>3, EndContents DEF ShownInv
<1>4. CASE loadPromptEnds
  BY <1>0, <1>4, PromptContents DEF ShownInv
<1> QED
  BY <1>0, <1>1, <1>2, <1>3, <1>4, UserQuiet, OthersQuiet, TimerQuiet DEF Next, Reads

(***************************************************************************)
(* What a view shows was read for the handle that the user looks at, since *)
(* the view was opened, whatever reads are aborted, fail or end late.      *)
(***************************************************************************)
THEOREM ContentStaysOfTheView == Spec => []ContentIsOfTheView
<1>1. ShownInv /\ [Next]_vars => ShownInv'
  BY ShownStep
<1>2. ShownInv => ContentIsOfTheView
  BY DEF ShownInv, Contents
<1> QED
  BY <1>1, <1>2, ShownInit, PTL DEF Spec

-----------------------------------------------------------------------------
(* How old a text is.                                                      *)

(* A read that was not aborted has read at least what stat saw, and never *)
(* more than there is.                                                    *)
ReadCurrent(read) ==
  /\ read.phase = "read" => read.seen <= version[read.of]
  /\ read.phase = "ending" /\ read.result = "lines" =>
       read.seen <= read.at /\ read.at <= version[read.of]

(* It is not older than the text that is shown of the same file. *)
NotOlder(read) ==
  /\ transcriptContent.result = "lines"
  /\ read.phase = "ending" /\ read.result = "lines" /\ read.of = transcriptContent.of
  => transcriptContent.at <= read.at

CacheCurrent ==
  transcriptCache.of # Nobody =>
    /\ transcriptCache.seen <= transcriptCache.at
    /\ transcriptCache.at <= version[transcriptCache.of]

ContentCurrent ==
  transcriptContent.result = "lines" =>
    transcriptContent.at <= version[transcriptContent.of]

Texts ==
  ReadCurrent(transcriptRead) /\ NotOlder(transcriptRead) /\ CacheCurrent /\ ContentCurrent

TextInv == ShownInv /\ Texts

(* A step that brings no text. *)
NoNewText ==
  /\ transcriptContent' = transcriptContent \/ transcriptContent' = NoContent
  /\ transcriptCache' = transcriptCache
  /\ \/ transcriptRead' = transcriptRead
     \/ transcriptRead' = Aborted(transcriptRead)
     \/ \E h \in Handle : transcriptRead' = NewRead(h)
  /\ \A h \in Handle : version[h] <= version'[h]

(* Whose text it is. *)
LEMMA TextTypes ==
  ASSUME ShownInv
  PROVE  /\ version \in [Handle -> Nat]
         /\ transcriptRead \in ReadRecord
         /\ transcriptRead.phase # "none" => transcriptRead.of \in Handle
         /\ transcriptContent \in ContentRecord
         /\ transcriptContent.result = "lines" => transcriptContent.of \in Handle
         /\ transcriptCache \in CacheRecord
         /\ transcriptCache.of # Nobody => transcriptCache.of \in Handle
<1>1. /\ version \in [Handle -> Nat]
      /\ transcriptRead \in ReadRecord
      /\ transcriptRead.phase # "none" => transcriptRead.of \in Handle
      /\ transcriptContent \in ContentRecord
      /\ transcriptCache \in CacheRecord
      /\ transcriptCache.of # Nobody => transcriptCache.of \in Handle
  BY DEF ShownInv, Types, HandleType, ViewType, RefreshType, RestType, ReadType,
         ReadRecord, CacheRecord, Someone
<1>2. transcriptContent.result = "lines" => transcriptContent.of \in Handle
  <2>1. transcriptContent.result = "lines" => transcriptContent # NoContent
    BY DEF NoContent
  <2> QED
    BY <1>1, <2>1 DEF ShownInv, Contents, ContentRecord, Someone
<1> QED
  BY <1>1, <1>2

(* Files only grow, so that what was read of them stays a part of them. *)
LEMMA NoNewTextStep ==
  ASSUME TextInv, ShownInv', NoNewText
  PROVE  Texts'
<1>0. /\ version \in [Handle -> Nat] /\ version' \in [Handle -> Nat]
      /\ \A h \in Handle : version[h] <= version'[h]
      /\ transcriptRead \in ReadRecord
      /\ transcriptRead.phase # "none" => transcriptRead.of \in Handle
      /\ transcriptContent \in ContentRecord
      /\ transcriptContent.result = "lines" => transcriptContent.of \in Handle
      /\ transcriptCache \in CacheRecord
      /\ transcriptCache.of # Nobody => transcriptCache.of \in Handle
      /\ Texts
  BY TextTypes DEF NoNewText, TextInv, ShownInv, Types, HandleType
<1>1. ContentCurrent'
  <2>1. CASE transcriptContent' = transcriptContent
    BY <1>0, <2>1 DEF Texts, ContentCurrent, ContentRecord
  <2>2. CASE transcriptContent' = NoContent
    BY <2>2 DEF ContentCurrent, NoContent
  <2> QED
    BY <2>1, <2>2 DEF NoNewText
<1>2. CacheCurrent'
  BY <1>0 DEF Texts, CacheCurrent, CacheRecord, NoNewText
<1>3. CASE transcriptRead' = transcriptRead
  <2>1. ReadCurrent(transcriptRead)'
    BY <1>0, <1>3 DEF Texts, ReadCurrent, ReadRecord
  <2>2. NotOlder(transcriptRead)'
    BY <1>0, <1>3 DEF Texts, NotOlder, NoContent, NoNewText
  <2> QED
    BY <1>1, <1>2, <2>1, <2>2 DEF Texts
<1>4. CASE transcriptRead' = Aborted(transcriptRead)
  <2>1. \/ transcriptRead'.phase = "ending" /\ transcriptRead'.result = "aborted"
        \/ transcriptRead' = [transcriptRead EXCEPT !.fresh = FALSE]
    BY <1>0, <1>4 DEF Aborted, Ended, ReadRecord
  <2>2. ReadCurrent(transcriptRead)'
    BY <1>0, <2>1 DEF Texts, ReadCurrent, ReadRecord
  <2>3. NotOlder(transcriptRead)'
    BY <1>0, <2>1 DEF Texts, NotOlder, NoContent, NoNewText, ReadRecord
  <2> QED
    BY <1>1, <1>2, <2>2, <2>3 DEF Texts
<1>5. CASE \E h \in Handle : transcriptRead' = NewRead(h)
  <2>1. transcriptRead'.phase = "stat"
    BY <1>5 DEF NewRead, NoRead
  <2> QED
    BY <1>1, <1>2, <2>1 DEF Texts, ReadCurrent, NotOlder
<1> QED
  BY <1>3, <1>4, <1>5 DEF NoNewText

(* A cached text serves only while the file is what it was, and a text that *)
(* is read is all there is.                                                 *)
LEMMA OperationTexts ==
  ASSUME TextInv, Stat \/ ReadText \/ ReadFails
  PROVE  Texts' /\ transcriptContent' = transcriptContent
<1>0. /\ version \in [Handle -> Nat]
      /\ transcriptRead \in ReadRecord
      /\ transcriptRead.phase # "none" => transcriptRead.of \in Handle
      /\ transcriptContent \in ContentRecord
      /\ transcriptContent.result = "lines" => transcriptContent.of \in Handle
      /\ transcriptCache \in CacheRecord
      /\ transcriptCache.of # Nobody => transcriptCache.of \in Handle
      /\ Texts
  BY TextTypes DEF TextInv
<1>1. UNCHANGED <<transcriptContent, transcriptCache, version>>
  BY DEF Stat, ReadText, ReadFails, ReadStep, others, shown
<1>2. CacheCurrent' /\ ContentCurrent'
  BY <1>0, <1>1 DEF Texts, CacheCurrent, ContentCurrent
<1>3. ASSUME /\ transcriptRead'.phase = "ending" /\ transcriptRead'.result = "lines"
             /\ transcriptRead'.of = transcriptRead.of
             /\ transcriptRead.phase # "none"
             /\ transcriptRead'.at = version[transcriptRead.of]
             /\ transcriptRead'.seen <= version[transcriptRead.of]
      PROVE  Texts'
  <2>1. ReadCurrent(transcriptRead)'
    BY <1>0, <1>1, <1>3 DEF ReadCurrent
  <2>2. NotOlder(transcriptRead)'
    BY <1>0, <1>1, <1>3 DEF NotOlder, Texts, ContentCurrent
  <2> QED
    BY <1>2, <2>1, <2>2 DEF Texts
<1>4. CASE Stat
  <2> DEFINE read == [transcriptRead EXCEPT !.seen = version[transcriptRead.of]]
             cached == [Ended(read, "lines") EXCEPT !.at = transcriptCache.at]
  <2>1. /\ transcriptRead.phase = "stat"
        /\ transcriptRead' = IF CacheServes(read.of, read.seen) THEN cached
                             ELSE [read EXCEPT !.phase = "read"]
    BY <1>4 DEF Stat, ReadStep
  <2>2. /\ read.of = transcriptRead.of /\ read.seen = version[transcriptRead.of]
        /\ transcriptRead.of \in Handle /\ version[transcriptRead.of] \in Nat
    BY <1>0, <2>1 DEF ReadRecord
  <2>3. CASE CacheServes(read.of, read.seen)
    <3>1. /\ transcriptCache.of = transcriptRead.of
          /\ transcriptCache.seen = version[transcriptRead.of]
      BY <2>2, <2>3 DEF CacheServes
    <3>2. transcriptRead.of # Nobody
      BY <2>2, InspectorAssumption DEF Handle, Nobody
    <3>3. transcriptCache.at = version[transcriptRead.of]
      BY <1>0, <2>2, <3>1, <3>2 DEF Texts, CacheCurrent, CacheRecord
    <3>4. /\ cached.phase = "ending" /\ cached.result = "lines"
          /\ cached.of = transcriptRead.of /\ cached.at = transcriptCache.at
          /\ cached.seen = version[transcriptRead.of]
      BY <1>0 DEF Ended, ReadRecord
    <3>5. transcriptRead' = cached
      BY <2>1, <2>3
    <3>6. version[transcriptRead.of] <= version[transcriptRead.of]
      BY <2>2
    <3>7. /\ transcriptRead'.phase = "ending" /\ transcriptRead'.result = "lines"
          /\ transcriptRead'.of = transcriptRead.of
          /\ transcriptRead'.at = version[transcriptRead.of]
          /\ transcriptRead'.seen = version[transcriptRead.of]
      BY <3>3, <3>4, <3>5
    <3> HIDE DEF cached, read
    <3> QED
      BY <1>1, <1>3, <2>1, <3>6, <3>7
  <2>4. CASE ~CacheServes(read.of, read.seen)
    <3>1. /\ transcriptRead'.phase = "read" /\ transcriptRead'.of = transcriptRead.of
          /\ transcriptRead'.seen = version[transcriptRead.of]
      BY <1>0, <2>1, <2>4 DEF ReadRecord
    <3> QED
      BY <1>1, <1>2, <2>2, <3>1 DEF Texts, ReadCurrent, NotOlder
  <2> QED
    BY <2>3, <2>4
<1>5. CASE ReadText
  <2>1. /\ transcriptRead.phase = "read"
        /\ transcriptRead' = [Ended(transcriptRead, "lines")
                                EXCEPT !.at = version[transcriptRead.of]]
    BY <1>5 DEF ReadText, ReadStep
  <2>2. /\ transcriptRead'.phase = "ending" /\ transcriptRead'.result = "lines"
        /\ transcriptRead'.of = transcriptRead.of
        /\ transcriptRead'.at = version[transcriptRead.of]
        /\ transcriptRead'.seen = transcriptRead.seen
    BY <1>0, <2>1 DEF Ended, ReadRecord
  <2> QED
    BY <1>0, <1>1, <1>3, <2>1, <2>2 DEF Texts, ReadCurrent
<1>6. CASE ReadFails
  <2>1. transcriptRead'.phase = "ending" /\ transcriptRead'.result = "error"
    BY <1>0, <1>6 DEF ReadFails, ReadStep, Ended, ReadRecord
  <2> QED
    BY <1>1, <1>2, <2>1 DEF Texts, ReadCurrent, NotOlder
<1> QED
  BY <1>1, <1>4, <1>5, <1>6

(* What ends is not older than what is shown of the same file. *)
LEMMA EndTexts ==
  ASSUME TextInv, refreshTranscriptEnds
  PROVE  /\ Texts'
         /\ \/ transcriptContent' = transcriptContent
            \/ transcriptRead.phase = "ending" /\ transcriptContent' = Content(transcriptRead)
<1>0. /\ version \in [Handle -> Nat]
      /\ transcriptRead \in ReadRecord
      /\ transcriptRead.phase = "ending"
      /\ transcriptRead.of \in Handle
      /\ Texts /\ Types
  BY TextTypes DEF TextInv, ShownInv, refreshTranscriptEnds
<1>1. version' = version
  BY DEF refreshTranscriptEnds, others
<1>2. transcriptRead'.phase \in {"none", "stat"}
  <2>1. NoRead.phase = "none" /\ \A h \in Handle : NewRead(h).phase = "stat"
    BY DEF NoRead, NewRead
  <2> QED
    BY <1>0, <2>1, EndRead
<1>3. ReadCurrent(transcriptRead)' /\ NotOlder(transcriptRead)'
  BY <1>2 DEF ReadCurrent, NotOlder
<1>4. CacheCurrent'
  <2>1. CASE transcriptRead.result = "lines"
    <3>1. transcriptCache' = [of |-> transcriptRead.of, seen |-> transcriptRead.seen,
                              at |-> transcriptRead.at]
      BY <2>1 DEF refreshTranscriptEnds
    <3> QED
      BY <1>0, <1>1, <2>1, <3>1 DEF CacheCurrent, Texts, ReadCurrent
  <2>2. CASE transcriptRead.result # "lines"
    <3>1. transcriptCache' = transcriptCache
      BY <2>2 DEF refreshTranscriptEnds
    <3> QED
      BY <1>0, <1>1, <3>1 DEF CacheCurrent, Texts
  <2> QED
    BY <2>1, <2>2
<1>5. \/ transcriptContent' = transcriptContent
      \/ transcriptContent' = Content(transcriptRead)
  BY DEF refreshTranscriptEnds
<1>6. ContentCurrent'
  <2>1. CASE transcriptContent' = transcriptContent
    BY <1>0, <1>1, <2>1 DEF ContentCurrent, Texts
  <2>2. CASE transcriptContent' = Content(transcriptRead)
    BY <1>0, <1>1, <2>2 DEF ContentCurrent, Content, Texts, ReadCurrent
  <2> QED
    BY <1>5, <2>1, <2>2
<1> QED
  BY <1>0, <1>3, <1>4, <1>5, <1>6 DEF Texts

(* The three kinds of steps. *)
LEMMA TextSteps ==
  ASSUME ShownInv, [Next]_vars
  PROVE  NoNewText \/ Stat \/ ReadText \/ ReadFails \/ refreshTranscriptEnds
<1>0. Types /\ Contents
  BY DEF ShownInv
<1>1. Quiet => NoNewText
  BY DEF Quiet, NoNewText, dropContents
<1>2. loadPromptEnds => NoNewText
  <2> SUFFICES ASSUME loadPromptEnds PROVE NoNewText
    OBVIOUS
  <2>1. UNCHANGED <<transcriptContent, transcriptRead, transcriptCache, version>>
    BY DEF loadPromptEnds, refreshing, others
  <2> QED
    BY <1>0, <2>1, VersionsGrow DEF NoNewText, Types
<1> QED
  BY <1>0, <1>1, <1>2, UserQuiet, OthersQuiet, TimerQuiet DEF Next, Reads

(* Nothing has been read at first. *)
LEMMA TextInit ==
  ASSUME Init
  PROVE  TextInv
<1>1. /\ transcriptContent = NoContent /\ transcriptRead = NoRead
      /\ transcriptCache = NoCache
  BY DEF Init
<1>2. Texts
  BY <1>1 DEF Texts, ReadCurrent, NotOlder, CacheCurrent, ContentCurrent, NoContent,
              NoRead, NoCache
<1> QED
  BY <1>2, ShownInit DEF TextInv

(* Every step keeps the texts current. *)
LEMMA TextStep ==
  ASSUME TextInv, [Next]_vars
  PROVE  TextInv'
<1>1. ShownInv /\ ShownInv'
  BY ShownStep DEF TextInv
<1> QED
  BY <1>1, TextSteps, NoNewTextStep, OperationTexts, EndTexts DEF TextInv

(* One step brings no older text. *)
LEMMA NoStepBack ==
  ASSUME TextInv, [Next]_vars,
         transcriptContent.result = "lines", transcriptContent'.result = "lines",
         transcriptContent'.of = transcriptContent.of
  PROVE  transcriptContent'.at >= transcriptContent.at
<1>0. ShownInv /\ transcriptContent \in ContentRecord /\ transcriptRead \in ReadRecord
  BY TextTypes DEF TextInv
<1>1. CASE transcriptContent' = transcriptContent
  BY <1>0, <1>1 DEF ContentRecord
<1>2. CASE transcriptContent' = NoContent
  BY <1>2 DEF NoContent
<1>3. CASE transcriptRead.phase = "ending" /\ transcriptContent' = Content(transcriptRead)
  BY <1>0, <1>3 DEF Content, TextInv, Texts, NotOlder, ContentRecord, ReadRecord
<1> QED
  BY <1>0, <1>1, <1>2, <1>3, TextSteps, OperationTexts, EndTexts DEF NoNewText

(***************************************************************************)
(* The transcript of a live view never goes back to an older text of the   *)
(* same file, whatever was cached and however the file grows meanwhile.    *)
(***************************************************************************)
THEOREM LiveViewStaysCurrent == Spec => LiveViewNeverGoesBack
<1>1. TextInv /\ [Next]_vars => TextInv'
  BY TextStep
<1>2. TextInv /\ [Next]_vars =>
        [/\ transcriptContent.result = "lines" /\ transcriptContent'.result = "lines"
         /\ transcriptContent'.of = transcriptContent.of
         => transcriptContent'.at >= transcriptContent.at]_vars
  BY NoStepBack
<1> QED
  BY <1>1, <1>2, TextInit, PTL DEF Spec, LiveViewNeverGoesBack

-----------------------------------------------------------------------------
(* A view that loads.                                                      *)

(* The timer of the delay is set whenever there is a delay. *)
DelayKept == transcriptDelay # NoDelay => DelayRuns

(* The selection is no handle of the future, which a start would bring. *)
SelectionIsKnown == selectedId \in 0..created

LoadInv == Types /\ SelectionIsKnown /\ DelayKept /\ LoadingIsUnderWay

(* A refresh of a transcript sees to it, whatever it finds under way. *)
LEMMA RefreshIsUnderWay ==
  ASSUME NEW h \in Handle, NEW read, NEW pending, NEW delay,
         recent \subseteq Handle,
         delay # NoDelay => delay.due \/ delay.of \in recent,
         refreshTranscript(h, read, pending, delay)
  PROVE  TranscriptUnderWay(h)' /\ DelayKept'
<1>1. ASSUME h \in recent, recent' = recent,
             transcriptDelay' = IF delay = NoDelay THEN [of |-> h, due |-> FALSE] ELSE delay
      PROVE  DelayRuns'
  BY <1>1 DEF DelayRuns
<1>2. ASSUME read.phase # "none", transcriptRead' = read, transcriptReadPending' = TRUE,
             transcriptDelay' = delay, recent' = recent
      PROVE  TranscriptUnderWay(h)' /\ DelayKept'
  BY <1>2 DEF TranscriptUnderWay, DelayKept, DelayRuns
<1>3. ASSUME transcriptRead' = NewRead(h), transcriptDelay' = delay,
             recent' = recent \union {h}
      PROVE  TranscriptUnderWay(h)' /\ DelayKept'
  <2>1. NewRead(h).phase = "stat" /\ NewRead(h).fresh /\ NewRead(h).of = h
    BY DEF NewRead, NoRead
  <2> QED
    BY <1>3, <2>1 DEF TranscriptUnderWay, DelayKept, DelayRuns
<1> QED
  BY <1>1, <1>2, <1>3 DEF refreshTranscript, AskAgain, TranscriptUnderWay, DelayKept

(* So does one that is asked for by a timer or by the end of a read. *)
LEMMA RefreshSelectedIsUnderWay ==
  ASSUME HandleType, selectedId \in Someone, NEW read, NEW pending, NEW delay,
         recent \subseteq Handle,
         delay # NoDelay => delay.due \/ delay.of \in recent,
         RefreshSelected(read, pending, delay)
  PROVE  /\ \A h \in Handle : view = "live" /\ selected = h => TranscriptUnderWay(h)'
         /\ DelayKept'
<1>1. \A h \in Handle : h # Nobody
  BY InspectorAssumption DEF Handle, Nobody
<1>2. ASSUME NEW h \in Handle, view = "live", selected = h
      PROVE  TranscriptUnderWay(h)' /\ DelayKept'
  <2>1. refreshTranscript(h, read, pending, delay)
    BY <1>1, <1>2 DEF RefreshSelected
  <2> QED
    BY <2>1, RefreshIsUnderWay
<1>3. CASE view # "live" \/ selected = Nobody
  BY <1>1, <1>3 DEF RefreshSelected, DelayKept, DelayRuns
<1> QED
  BY <1>2, <1>3, SelectedType

(* A step that leaves what loads and what is read alone. *)
LEMMA LoadingLeftAlone ==
  ASSUME LoadInv, Types', UNCHANGED <<selectedId, promptContent, transcriptContent, promptRead>>,
         disposed => disposed', opened' => opened,
         UNCHANGED <<transcriptRead, transcriptReadPending, transcriptDelay, recent>>,
         view' \in {view, "list"},
         selected' # Nobody => selected # Nobody,
         created <= created'
  PROVE  LoadInv'
<1>1. selected' # Nobody => selected' = selected
  BY DEF selected
<1>2. \A h : TranscriptUnderWay(h)' <=> TranscriptUnderWay(h)
  BY DEF TranscriptUnderWay, DelayRuns
<1>3. Loading' => Loading /\ view' = view /\ selected' = selected
  BY <1>1 DEF Loading
<1>4. SelectionIsKnown'
  BY InspectorAssumption DEF LoadInv, SelectionIsKnown, Types, HandleType
<1>5. DelayKept'
  BY DEF LoadInv, DelayKept, DelayRuns
<1>6. LoadingIsUnderWay'
  BY <1>2, <1>3 DEF LoadInv, LoadingIsUnderWay
<1> QED
  BY <1>4, <1>5, <1>6 DEF LoadInv

(* A step after which nothing loads. *)
LEMMA NothingLoads ==
  ASSUME LoadInv, Types', SelectionIsKnown', ~Loading',
         transcriptDelay' \in {transcriptDelay, NoDelay}, recent' = recent
  PROVE  LoadInv'
BY DEF LoadInv, LoadingIsUnderWay, DelayKept, DelayRuns

(* A selection that moves on closes what loads. *)
LEMMA EnsureSelectionLoads ==
  ASSUME LoadInv, Types', NEW tracked, tracked \subseteq handles, handles' = tracked,
         created' = created, ensureSelection(tracked)
  PROVE  LoadInv'
<1> DEFINE first == IF tracked = {} THEN Nobody ELSE Max(tracked)
           stays == selectedId \in tracked \/ selectedId = first
<1>1. /\ selectedId' = IF stays THEN selectedId ELSE first
      /\ view' = IF tracked = {} THEN "list" ELSE view
      /\ opened' = (opened /\ stays)
      /\ IF stays THEN UNCHANGED <<promptContent, transcriptContent, promptRead, refreshing>>
                  ELSE invalidateReads
      /\ disposed' = disposed
  BY DEF ensureSelection
<1>2. created \in Nat /\ handles \subseteq 1..created
  BY InspectorAssumption DEF LoadInv, Types, HandleType
<1>3. first \in 0..created
  <2>1. CASE tracked = {}
    BY <1>2, <2>1 DEF Nobody
  <2>2. CASE tracked # {}
    <3>1. tracked \subseteq 1..created
      BY <1>2
    <3>2. first \in tracked
      BY <1>2, <2>2, <3>1, NewestIsOne
    <3> HIDE DEF first
    <3> QED
      BY <1>2, <3>1, <3>2
  <2> QED
    BY <2>1, <2>2
<1> HIDE DEF first
<1>4. opened \in BOOLEAN
  BY DEF LoadInv, Types, ViewType
<1>5. CASE stays
  <2>1. selected' # Nobody => selected # Nobody
    BY <1>1, <1>5 DEF selected
  <2>2. /\ UNCHANGED <<selectedId, promptContent, transcriptContent, promptRead>>
        /\ UNCHANGED <<transcriptRead, transcriptReadPending, transcriptDelay, recent>>
        /\ view' \in {view, "list"} /\ opened' = opened /\ disposed' = disposed
    BY <1>1, <1>4, <1>5 DEF refreshing
  <2> QED
    BY <1>2, <2>1, <2>2, LoadingLeftAlone
<1>6. CASE ~stays
  <2>1. ~Loading'
    BY <1>1, <1>6 DEF Loading
  <2>2. SelectionIsKnown'
    BY <1>1, <1>3, <1>6 DEF SelectionIsKnown
  <2>3. transcriptDelay' = transcriptDelay /\ recent' = recent
    BY <1>1, <1>6 DEF invalidateReads
  <2> QED
    BY <2>1, <2>2, <2>3, NothingLoads
<1> QED
  BY <1>5, <1>6

(* A view that the user opens is loaded from then on. *)
LEMMA UserLoads ==
  ASSUME LoadInv, Types', User
  PROVE  LoadInv'
<1>0. /\ HandleType /\ RefreshType /\ selectedId \in Someone
      /\ created \in Nat /\ handles \subseteq 1..created /\ handles \subseteq Handle
      /\ selected # Nobody => selected \in Handle
      /\ SelectionIsKnown /\ DelayKept
  BY SelectedType, InspectorAssumption DEF LoadInv, Types, ViewType, HandleType
<1>1. CASE moveSelection
  <2>1. selectedId' \in handles /\ view' = "list" /\ created' = created
    BY <1>0, <1>1, MovedSelection DEF moveSelection, others
  <2>2. SelectionIsKnown'
    BY <1>0, <2>1 DEF SelectionIsKnown
  <2>3. transcriptDelay' = transcriptDelay /\ recent' = recent
    BY <1>1 DEF moveSelection, invalidateReads
  <2>4. ~Loading'
    BY <2>1 DEF Loading
  <2> QED
    BY <2>2, <2>3, <2>4, NothingLoads
<1>2. CASE showList
  <2>1. UNCHANGED <<selectedId, created, transcriptDelay, recent>> /\ view' = "list"
    BY <1>2 DEF showList, others, invalidateReads
  <2>2. SelectionIsKnown' /\ ~Loading'
    BY <1>0, <2>1 DEF SelectionIsKnown, Loading
  <2> QED
    BY <2>1, <2>2, NothingLoads
<1>3. ASSUME NEW detail \in View \ {"list"}, showDetail(detail)
      PROVE  LoadInv'
  <2>1. UNCHANGED <<selectedId, created, handles>> /\ view' = detail /\ selected # Nobody
    BY <1>3 DEF showDetail, others
  <2>2. SelectionIsKnown' /\ selected' = selected
    BY <1>0, <2>1 DEF SelectionIsKnown, selected
  <2>3. CASE detail = "live"
    <3>1. refreshTranscript(selected, Aborted(transcriptRead), FALSE, transcriptDelay)
      BY <1>3, <2>3 DEF showDetail
    <3>2. PICK h \in Handle : h = selected
      BY <1>0, <2>1
    <3>3. TranscriptUnderWay(h)' /\ DelayKept'
      BY <1>0, <3>1, <3>2, RefreshIsUnderWay DEF RefreshType, DelayKept, DelayRuns
    <3>4. TranscriptUnderWay(selected)'
      BY <2>2, <3>2, <3>3
    <3> QED
      BY <2>1, <2>2, <2>3, <3>3, <3>4 DEF LoadInv, LoadingIsUnderWay
  <2>4. CASE detail # "live"
    <3>1. /\ transcriptDelay' = transcriptDelay /\ recent' = recent
          /\ detail = "task" => promptRead' = selected
      BY <1>3, <2>4 DEF showDetail
    <3>2. DelayKept'
      BY <1>0, <3>1 DEF DelayKept, DelayRuns
    <3>3. LoadingIsUnderWay'
      BY <2>1, <2>2, <2>4, <3>1 DEF LoadingIsUnderWay, Loading
    <3> QED
      BY <2>2, <3>2, <3>3 DEF LoadInv
  <2> QED
    BY <2>3, <2>4
<1>4. CASE clearFinished
  <2>1. PICK finished \in SUBSET (handles \ active) :
               handles' = handles \ finished /\ ensureSelection(handles \ finished)
    BY <1>4 DEF clearFinished
  <2>2. created' = created
    BY <1>4 DEF clearFinished
  <2> QED
    BY <2>1, <2>2, EnsureSelectionLoads
<1>5. CASE dispose
  <2>1. /\ UNCHANGED <<selectedId, created, recent>> /\ transcriptDelay' = NoDelay
        /\ disposed' = TRUE
    BY <1>5 DEF dispose, others
  <2>2. SelectionIsKnown' /\ ~Loading'
    BY <1>0, <2>1 DEF SelectionIsKnown, Loading
  <2> QED
    BY <2>1, <2>2, NothingLoads
<1> QED
  BY <1>1, <1>2, <1>3, <1>4, <1>5 DEF User

(* The rest of the extension takes a selection away, but starts no load. *)
LEMMA OthersLoads ==
  ASSUME LoadInv, Types', Others
  PROVE  LoadInv'
<1>0. /\ created \in Nat /\ handles \subseteq 1..created
      /\ selectedId \in 0..created
  BY InspectorAssumption DEF LoadInv, Types, HandleType, SelectionIsKnown
<1>1. ASSUME OthersStep, created <= created', selected' # Nobody => selected # Nobody
      PROVE  LoadInv'
  BY <1>1, LoadingLeftAlone DEF OthersStep, shown, refreshing
<1>2. CASE SubagentStarted
  <2>1. /\ created' = created + 1 /\ handles' = handles \union {created + 1}
        /\ OthersStep
    BY <1>2 DEF SubagentStarted
  <2>2. selectedId' = selectedId
    BY <2>1 DEF OthersStep, shown
  <2>3. selected' # Nobody => selected # Nobody
    BY <1>0, <2>1, <2>2 DEF selected
  <2> QED
    BY <1>0, <1>1, <2>1, <2>3
<1>3. ASSUME NEW h \in Handle, StartFailed(h) PROVE LoadInv'
  <2>1. created' = created /\ handles' = handles \ {h} /\ OthersStep
    BY <1>3 DEF StartFailed
  <2>2. selected' # Nobody => selected # Nobody
    BY <2>1 DEF OthersStep, shown, selected
  <2> QED
    BY <1>0, <1>1, <2>1, <2>2
<1>4. ASSUME NEW h \in Handle, RunChanges(h) PROVE LoadInv'
  BY <1>4, EnsureSelectionLoads DEF RunChanges, refresh
<1>5. ASSUME NEW h \in Handle, trimRetained(h) PROVE LoadInv'
  <2>1. /\ handles' = handles \ {h} /\ ensureSelection(handles \ {h})
        /\ created' = created
    BY <1>5 DEF trimRetained, refresh
  <2> QED
    BY <2>1, EnsureSelectionLoads
<1>6. ASSUME NEW h \in Handle, TranscriptGrows(h) PROVE LoadInv'
  <2>1. created' = created /\ handles' = handles /\ OthersStep
    BY <1>6 DEF TranscriptGrows
  <2>2. selected' # Nobody => selected # Nobody
    BY <2>1 DEF OthersStep, shown, selected
  <2> QED
    BY <1>0, <1>1, <2>1, <2>2
<1> QED
  BY <1>2, <1>3, <1>4, <1>5, <1>6 DEF Others

(* A timer that ends asks for what still loads. *)
LEMMA TimerLoads ==
  ASSUME LoadInv, Types',
         \/ render \/ refreshTimerFires \/ transcriptDelayFires
         \/ \E h \in Handle : SecondPasses(h)
         \/ UNCHANGED vars
  PROVE  LoadInv'
<1>0. /\ HandleType /\ RefreshType /\ selectedId \in Someone
      /\ recent \subseteq Handle
      /\ selected # Nobody => selected \in Handle
      /\ SelectionIsKnown /\ DelayKept /\ LoadingIsUnderWay
  BY SelectedType DEF LoadInv, Types, ViewType, RefreshType
<1>1. CASE render
  BY <1>1, EnsureSelectionLoads DEF render, refresh, others
<1>2. ASSUME TimerStep
      PROVE  /\ UNCHANGED <<selectedId, created, promptRead, view>>
             /\ selected' = selected /\ (Loading' <=> Loading) /\ SelectionIsKnown'
  BY <1>0, <1>2 DEF TimerStep, others, shown, selected, Loading, SelectionIsKnown
<1>3. ASSUME TimerStep, DelayKept',
             \A h \in Handle : view = "live" /\ selected = h => TranscriptUnderWay(h)'
      PROVE  LoadInv'
  <2>1. Loading => selected \in Handle /\ (view # "task" => view = "live")
    BY <1>0 DEF Loading
  <2>2. Loading /\ view = "live" => TranscriptUnderWay(selected)'
    BY <1>2, <1>3, <2>1
  <2>3. LoadingIsUnderWay'
    BY <1>0, <1>2, <1>3, <2>1, <2>2 DEF LoadingIsUnderWay
  <2> QED
    BY <1>2, <1>3, <2>3 DEF LoadInv
<1>4. CASE refreshTimerFires
  <2>1. /\ TimerStep
        /\ RefreshSelected(transcriptRead, transcriptReadPending, transcriptDelay)
    BY <1>4 DEF refreshTimerFires
  <2> QED
    BY <1>0, <1>3, <2>1, RefreshSelectedIsUnderWay DEF DelayKept, DelayRuns
<1>5. CASE transcriptDelayFires
  <2>1. TimerStep /\ RefreshSelected(transcriptRead, transcriptReadPending, NoDelay)
    BY <1>5 DEF transcriptDelayFires
  <2> QED
    BY <1>0, <1>3, <2>1, RefreshSelectedIsUnderWay
<1>6. ASSUME NEW h \in Handle, SecondPasses(h) PROVE LoadInv'
  <2>1. /\ TimerStep /\ recent' = recent \ {h}
        /\ transcriptDelay' = [transcriptDelay EXCEPT !.due = @ \/ transcriptDelay.of = h]
        /\ UNCHANGED <<transcriptRead, transcriptReadPending>>
    BY <1>6 DEF SecondPasses
  <2>2. transcriptDelay \in DelayRecord
    BY <1>0 DEF RefreshType
  <2>3. /\ transcriptDelay'.of = transcriptDelay.of
        /\ transcriptDelay'.due <=> transcriptDelay.due \/ transcriptDelay.of = h
    BY <2>1, <2>2 DEF DelayRecord
  <2>4. DelayRuns => DelayRuns'
    BY <2>1, <2>3 DEF DelayRuns
  <2>5. transcriptDelay = NoDelay => transcriptDelay' = NoDelay
    <3>1. h # Nobody
      BY InspectorAssumption DEF Handle, Nobody
    <3>2. transcriptDelay' \in DelayRecord
      BY DEF Types, RefreshType
    <3>3. transcriptDelay = NoDelay => transcriptDelay'.of = Nobody /\ ~transcriptDelay'.due
      BY <2>3, <3>1 DEF NoDelay
    <3> QED
      BY <3>2, <3>3 DEF NoDelay, DelayRecord
  <2>6. DelayKept'
    BY <1>0, <2>4, <2>5 DEF DelayKept
  <2>7. \A g : TranscriptUnderWay(g) => TranscriptUnderWay(g)'
    BY <2>1, <2>4 DEF TranscriptUnderWay
  <2>8. LoadingIsUnderWay'
    BY <1>0, <1>2, <2>1, <2>7 DEF LoadingIsUnderWay
  <2> QED
    BY <1>2, <2>1, <2>6, <2>8 DEF LoadInv
<1>7. CASE UNCHANGED vars
  <2>1. created <= created'
    BY <1>0, <1>7, InspectorAssumption DEF vars, others, HandleType
  <2> QED
    BY <1>7, <2>1, LoadingLeftAlone DEF vars, others, shown, refreshing, selected
<1> QED
  BY <1>1, <1>4, <1>5, <1>6, <1>7

(* A read that ends shows what loads, or begins the read that was asked for. *)
LEMMA ReadsLoad ==
  ASSUME LoadInv, Types', Reads \/ loadPromptEnds
  PROVE  LoadInv'
<1>0. /\ HandleType /\ RefreshType /\ selectedId \in Someone /\ ReadType(transcriptRead)
      /\ recent \subseteq Handle
      /\ selected # Nobody => selected \in Handle
      /\ SelectionIsKnown /\ DelayKept /\ LoadingIsUnderWay
  BY SelectedType DEF LoadInv, Types, ViewType, RefreshType
<1>1. CASE Stat \/ ReadText \/ ReadFails
  <2>1. /\ transcriptRead'.phase # "none"
        /\ transcriptRead'.fresh = transcriptRead.fresh
        /\ transcriptRead'.of = transcriptRead.of /\ transcriptRead.phase # "none"
    <3>1. CASE Stat
      BY <1>0, <3>1 DEF Stat, ReadStep, Ended, ReadType, ReadRecord
    <3>2. CASE ReadText
      BY <1>0, <3>2 DEF ReadText, ReadStep, Ended, ReadType, ReadRecord
    <3>3. CASE ReadFails
      BY <1>0, <3>3 DEF ReadFails, ReadStep, Ended, ReadType, ReadRecord
    <3> QED
      BY <1>1, <3>1, <3>2, <3>3
  <2>2. UNCHANGED <<others, shown, promptRead, transcriptReadPending, transcriptDelay, recent>>
    BY <1>1 DEF Stat, ReadText, ReadFails, ReadStep
  <2>3. /\ selected' = selected /\ (Loading' <=> Loading) /\ SelectionIsKnown'
        /\ view' = view /\ DelayKept'
    BY <1>0, <2>2
       DEF others, shown, selected, Loading, SelectionIsKnown, DelayKept, DelayRuns
  <2>4. \A h : TranscriptUnderWay(h) => TranscriptUnderWay(h)'
    BY <2>1, <2>2 DEF TranscriptUnderWay, DelayRuns
  <2>5. LoadingIsUnderWay'
    BY <1>0, <2>2, <2>3, <2>4 DEF LoadingIsUnderWay
  <2> QED
    BY <2>3, <2>5 DEF LoadInv
<1>2. CASE refreshTranscriptEnds
  <2>1. /\ UNCHANGED <<created, handles, view, selectedId, disposed, promptContent, opened,
                       promptRead>>
        /\ transcriptContent' = IF Shows(transcriptRead) THEN Content(transcriptRead)
                                ELSE transcriptContent
        /\ transcriptRead.phase = "ending"
    BY <1>2 DEF refreshTranscriptEnds, others
  <2>2. selected' = selected /\ SelectionIsKnown'
    BY <1>0, <2>1 DEF selected, SelectionIsKnown
  <2>3. Loading' => Loading /\ (view = "live" => ~Shows(transcriptRead))
    <3>1. Content(transcriptRead) # NoContent
      BY <1>0, <2>1 DEF ReadType, Content, NoContent
    <3>2. Shows(transcriptRead) => view = "live"
      BY DEF Shows
    <3> QED
      BY <2>1, <2>2, <3>1, <3>2 DEF Loading
  <2>4. CASE transcriptReadPending /\ RefreshSelected(NoRead, FALSE, transcriptDelay)
    <3>1. /\ DelayKept'
          /\ \A h \in Handle : view = "live" /\ selected = h => TranscriptUnderWay(h)'
      BY <1>0, <2>4, RefreshSelectedIsUnderWay DEF DelayKept, DelayRuns
    <3>2. Loading' /\ view # "task" => TranscriptUnderWay(selected)'
      BY <1>0, <2>2, <2>3, <3>1 DEF Loading
    <3>3. LoadingIsUnderWay'
      BY <1>0, <2>1, <2>2, <2>3, <3>2 DEF LoadingIsUnderWay
    <3> QED
      BY <2>2, <3>1, <3>3 DEF LoadInv
  <2>5. CASE ~transcriptReadPending /\ UNCHANGED <<transcriptDelay, recent>>
    <3>1. DelayKept' /\ (DelayRuns => DelayRuns')
      BY <1>0, <2>5 DEF DelayKept, DelayRuns
    <3>2. Loading' /\ view # "task" => DelayRuns
      BY <1>0, <2>3, <2>5 DEF Loading, LoadingIsUnderWay, TranscriptUnderWay, Shows
    <3>3. LoadingIsUnderWay'
      BY <1>0, <2>1, <2>2, <2>3, <3>1, <3>2 DEF LoadingIsUnderWay, TranscriptUnderWay
    <3> QED
      BY <2>2, <3>1, <3>3 DEF LoadInv
  <2> QED
    BY <1>2, <2>4, <2>5 DEF refreshTranscriptEnds
<1>3. CASE loadPromptEnds
  <2>1. /\ UNCHANGED <<created, handles, view, selectedId, disposed, transcriptContent, opened,
                       refreshing>>
        /\ promptRead # Nobody
        /\ promptContent' = IF view = "task" /\ selected = promptRead THEN promptRead
                            ELSE promptContent
    BY <1>3 DEF loadPromptEnds, others
  <2>2. selected' = selected /\ SelectionIsKnown' /\ DelayKept'
    BY <1>0, <2>1 DEF selected, SelectionIsKnown, DelayKept, DelayRuns, refreshing
  <2>3. Loading' => Loading /\ view # "task"
    BY <1>0, <2>1, <2>2 DEF Loading, LoadingIsUnderWay
  <2>4. \A h : TranscriptUnderWay(h) => TranscriptUnderWay(h)'
    BY <2>1 DEF TranscriptUnderWay, DelayRuns, refreshing
  <2>5. LoadingIsUnderWay'
    BY <1>0, <2>1, <2>2, <2>3, <2>4 DEF LoadingIsUnderWay
  <2> QED
    BY <2>2, <2>5 DEF LoadInv
<1> QED
  BY <1>1, <1>2, <1>3 DEF Reads

(***************************************************************************)
(* A view that the user opened and that shows nothing yet is never         *)
(* forgotten: a read that will fill it is under way or asked for, or the   *)
(* timer that asks for it is set, whatever was read when it was opened.    *)
(***************************************************************************)
THEOREM OpenedViewIsLoaded == Spec => []LoadingIsUnderWay
<1>1. Init => LoadInv
  <2> SUFFICES ASSUME Init PROVE LoadInv
    OBVIOUS
  <2>1. /\ created \in Nat /\ selectedId = Nobody /\ opened = FALSE
        /\ transcriptDelay = NoDelay
    BY InspectorAssumption DEF Init
  <2>2. SelectionIsKnown /\ DelayKept /\ LoadingIsUnderWay
    BY <2>1 DEF SelectionIsKnown, DelayKept, LoadingIsUnderWay, Loading, Nobody
  <2> QED
    BY <2>2, InitTypes DEF LoadInv
<1>2. LoadInv /\ [Next]_vars => LoadInv'
  <2> SUFFICES ASSUME LoadInv, [Next]_vars PROVE LoadInv'
    OBVIOUS
  <2>1. Types'
    BY TypesStep DEF LoadInv
  <2> QED
    BY <2>1, UserLoads, OthersLoads, TimerLoads, ReadsLoad DEF Next
<1>3. LoadInv => LoadingIsUnderWay
  BY DEF LoadInv
<1> QED
  BY <1>1, <1>2, <1>3, PTL DEF Spec

=============================================================================
