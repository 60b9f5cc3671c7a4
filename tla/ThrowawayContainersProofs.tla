---------------------- MODULE ThrowawayContainersProofs ----------------------
(***************************************************************************)
(* What the throwaway-containers service guarantees, for any set of boxes  *)
(* and any number of crashes, reboots and failed tools: a deleted box is   *)
(* not seen again, nothing is left of an earlier boot once the API runs,   *)
(* and no box waits for a goroutine that is gone.                          *)
(***************************************************************************)
EXTENDS ThrowawayContainers, TLAPS

-----------------------------------------------------------------------------
(* The parts of the inductive invariant.                                   *)

Writer == {"create", "extend", "reconfigure", "conflict", "record", "failure",
           "finish", "recover"}

MetaWrite == [by : Writer, id : Id, meta : Container, made : BOOLEAN]

Destruction == [stage : {"container", "state"}, id : Id]

Sweep == [phase : {"containers", "dirs"}, now : 0..MaxClock,
          todo : SUBSET Id, seen : SUBSET Id]

Types ==
  /\ TypeOK
  /\ drawn \subseteq Id
  /\ writer \in {NoWrite} \union MetaWrite
  /\ destroying \in [Process -> {NotDestroying} \union Destruction]
  /\ sweep \in [Sweeper -> {Asleep} \union Sweep]

(* A box that can be read has a state, and a write gives it one. *)
Readable ==
  /\ \A id \in Id : ~Gone(id) => meta[id].state # "none"
  /\ writer # NoWrite => writer.meta.state # "none"

(* Whatever belongs to a box has an id that was drawn. *)
OnlyDrawn ==
  /\ dirs \subseteq drawn
  /\ writer # NoWrite => writer.id \in drawn
  /\ \A id \in Id : job[id] # "none" => id \in drawn
  /\ destroying["api"] # NotDestroying => destroying["api"].id \in drawn

(* What the API process may be doing before, during and after its startup. *)
ApiAtRest ==
  /\ serve # "up" =>
       /\ \A id \in Id : job[id] = "none"
       /\ destroying["api"] = NotDestroying
       /\ writer # NoWrite => serve = "starting" /\ writer.by = "recover"
  /\ serve # "starting" =>
       /\ recover = {}
       /\ destroying["serve"] = NotDestroying
       /\ sweep["serve"] = Asleep
  /\ sweep["serve"] # Asleep => writer = NoWrite /\ recover = {}
  /\ writer.by = "recover" => serve = "starting"

(* No write is under way for a box whose DELETE was answered. *)
DeletedIsFinal ==
  \A id \in deleted : Gone(id) /\ writer.id # id

-----------------------------------------------------------------------------
(* What is left of earlier boots, and how far the wipe has come.           *)

(* The boxes the wipe is about to destroy, as a set. *)
InWipe(stage) ==
  IF destroying["boot"].stage = stage THEN {destroying["boot"].id} ELSE {}

(* Where a container, and where a directory, of an earlier boot may be. *)
OldContainers == earlier \intersect containers
OldDirs == earlier \intersect dirs

WipeOnTheWay ==
  /\ wipe # "due" => sweep["boot"] = Asleep /\ destroying["boot"] = NotDestroying
  /\ wipe = "done" => OldDirs = {} /\ OldContainers \subseteq undead
  /\ wipe = "due" => serve = "down"
  /\ sweep["boot"].phase = "containers" =>
       OldContainers \subseteq undead \union sweep["boot"].todo \union InWipe("container")
  /\ sweep["boot"].phase = "dirs" =>
       /\ OldContainers \subseteq undead \union InWipe("container")
       /\ OldDirs \subseteq sweep["boot"].todo \union InWipe("container") \union InWipe("state")

(* Unless the wipe failed, nothing that may still make something belongs to  *)
(* an earlier boot. *)
NothingOldIsMade ==
  wipe # "failed" =>
    /\ writer # NoWrite => writer.id \notin earlier
    /\ \A id \in Id : job[id] # "none" => id \notin earlier

-----------------------------------------------------------------------------
(* Who will change a state that is not final.                              *)

(* The goroutine of a box fits its state; a box that is gone may have any. *)
JobFits(id) ==
  /\ meta[id].state = "creating" => job[id] \notin {"none", "rebuild", "finish", "undo"}
  /\ meta[id].state = "updating" => job[id] \in {"rebuild", "finish"}
  /\ meta[id].state \in {"running", "failed"} => job[id] = "none"

(* What the write in progress found, if the box was not removed since. *)
WriterFits ==
  LET id == writer.id
      now == meta[id].state
      next == writer.meta.state
  IN  /\ writer.by = "create" => Gone(id) /\ job[id] = "none" /\ next = "creating"
      /\ writer.by \in {"extend", "conflict"} /\ ~Gone(id) => next = now
      /\ writer.by = "reconfigure" => next = "updating"
      /\ writer.by = "record" => next = "running"
      /\ writer.by = "failure" => next = "failed"
      /\ writer.by = "finish" => next = "running"
      /\ writer.by = "recover" => next = "running"

WorkersFit ==
  /\ writer # NoWrite => WriterFits
  /\ serve = "up" => \A id \in Id \ resurrected : JobFits(id)

(* A startup has each unfinished box still before it, or at hand. *)
StartupCovers ==
  serve = "starting" =>
    \A id \in Unfinished :
      \/ [id |-> id, state |-> meta[id].state] \in recover
      \/ destroying["serve"].id = id
      \/ writer.id = id

ServiceInvariant ==
  /\ Types /\ Readable /\ OnlyDrawn /\ ApiAtRest
  /\ DeletedIsFinal
  /\ WipeOnTheWay /\ NothingOldIsMade
  /\ WorkersFit /\ StartupCovers

-----------------------------------------------------------------------------
(* Facts about the values of the model.                                    *)

(* The values that stand for nothing are none of the others. *)
LEMMA Nothing ==
  /\ NoWrite.id \notin Id /\ NoWrite.by = "none"
  /\ NotDestroying.id \notin Id /\ NotDestroying.stage = "none"
  /\ Asleep.phase = "idle" /\ Asleep.todo = {} /\ Asleep.seen = {}
  /\ NoMeta \in Container /\ NoMeta.state = "none"
BY ContainersAssumption DEF NoWrite, NotDestroying, Asleep, NoMeta, Container

(* The steps of the system, each with the process or the box it is of. *)
LEMMA Steps ==
  ASSUME Next
  PROVE  \/ Tick \/ StartReaper \/ StartWipe
         \/ \E p \in Sweeper : SweepVisit(p) \/ SweepTurn(p) \/ SweepEnd(p)
         \/ \E p \in Process : DestroyContainerStep(p) \/ RemoveStateStep(p)
         \/ WriteMkdir \/ WriteRename
         \/ StartServe \/ ServeRecovers \/ ServeReaps
         \/ \E id \in Id : handleDelete(id) \/ handleReconfigure(id)
         \/ \E id \in Id, ttl \in TTL : handleCreate(id, ttl) \/ handleExtend(id, ttl)
         \/ Goroutine
         \/ ServeCrash \/ WipeFails \/ Reboot
BY DEF Next, Timer, Wipe, Serve, SweepStep, Destroy, Request, Process, Sweeper

(* What a write that begins is. *)
LEMMA WriteIs ==
  ASSUME NEW by, NEW id, NEW new, BeginWrite(by, id, new)
  PROVE  writer'.by = by /\ writer'.id = id /\ writer'.meta = new
BY DEF BeginWrite

(* A write that begins is one of a box and finds none under way. *)
LEMMA WriteBegins ==
  ASSUME NEW by \in Writer, NEW id \in Id, NEW new \in Container, BeginWrite(by, id, new)
  PROVE  /\ writer = NoWrite
         /\ writer' \in MetaWrite
         /\ writer'.by = by /\ writer'.id = id /\ writer'.meta = new /\ ~writer'.made
BY DEF BeginWrite, muFree, MetaWrite

-----------------------------------------------------------------------------
(* Types, and what exists of a box that was drawn.                         *)

Basics == Types /\ Readable /\ OnlyDrawn

(* At the start nothing exists. *)
LEMMA InitialBasics == Init => Basics
<1> SUFFICES ASSUME Init PROVE Basics
  OBVIOUS
<1>1. /\ clock \in 0..MaxClock
      /\ meta \in [Id -> Container]
      /\ \A id \in Id : Gone(id)
      /\ job \in [Id -> {"none"}]
  BY Nothing, ContainersAssumption DEF Init, Gone, readMeta
<1>2. /\ destroying \in [Process -> {NotDestroying} \union Destruction]
      /\ sweep \in [Sweeper -> {Asleep} \union Sweep]
      /\ writer = NoWrite
      /\ \A p \in Process : destroying[p] = NotDestroying
      /\ \A p \in Sweeper : sweep[p] = Asleep
  BY DEF Init
<1>3. TypeOK
  BY <1>1, <1>2, Nothing DEF Init, TypeOK
<1>4. Types
  BY <1>2, <1>3 DEF Init, Types
<1> QED
  BY <1>1, <1>2, <1>4 DEF Init, Basics, Readable, OnlyDrawn, Process

(* Any write that a handler or a goroutine begins is of a box that was      *)
(* drawn, and with a readable state.                                       *)
LEMMA BeginWriteBasics ==
  ASSUME Basics, NEW by \in Writer, NEW id \in Id, NEW new \in Container,
         new.state # "none", id \in drawn',
         BeginWrite(by, id, new), drawn \subseteq drawn', drawn' \subseteq Id,
         UNCHANGED <<clock, disk, serve, job, sweep, wipe, earlier, deleted, resurrected>>,
         destroying' = destroying, recover' \subseteq recover
  PROVE  Basics'
<1>1. writer' \in MetaWrite /\ writer'.id = id /\ writer'.meta = new
  BY WriteBegins
<1>2. TypeOK'
  BY <1>1 DEF Basics, Types, TypeOK, disk, Gone, readMeta, MetaWrite
<1>3. Types'
  BY <1>1, <1>2 DEF Basics, Types
<1>4. Readable' /\ OnlyDrawn'
  BY <1>1 DEF Basics, Readable, OnlyDrawn, disk, Gone, readMeta
<1> QED
  BY <1>3, <1>4 DEF Basics

(* Every step keeps the types, the readable states and the ids drawn. *)
LEMMA BasicsStep ==
  ASSUME Basics, Next
  PROVE  Basics'
<1> USE DEF disk, api, bounds, history
<1>0. /\ Types /\ TypeOK /\ Readable /\ OnlyDrawn
      /\ drawn \subseteq Id /\ dirs \subseteq Id /\ containers \subseteq Id
      /\ clock \in 0..MaxClock /\ MaxClock \in Nat
      /\ meta \in [Id -> Container]
      /\ \A id \in Id : ~Gone(id) => id \in drawn /\ meta[id].state # "none"
  BY ContainersAssumption DEF Basics, Types, TypeOK, Readable, OnlyDrawn
<1>1. CASE Tick
  BY <1>0, <1>1 DEF Tick, Basics, Types, TypeOK, Readable, OnlyDrawn, Gone, readMeta
<1>2. CASE StartReaper \/ StartWipe \/ ServeReaps
  <2>1. \E p \in Sweeper :
          sweep' = [sweep EXCEPT ![p] = [phase |-> "containers", now |-> clock,
                                         todo |-> containers, seen |-> containers]]
    BY <1>2 DEF StartReaper, StartWipe, ServeReaps, BeginSweep, Sweeper, Process
  <2>2. [phase |-> "containers", now |-> clock, todo |-> containers,
         seen |-> containers] \in Sweep
    BY <1>0 DEF Sweep
  <2>3. sweep' \in [Sweeper -> {Asleep} \union Sweep]
    BY <1>0, <2>1, <2>2 DEF Types
  <2>4. TypeOK'
    BY <1>0, <1>2, <2>3, Nothing
       DEF TypeOK, StartReaper, StartWipe, ServeReaps, Gone, readMeta, Sweep
  <2> QED
    BY <1>0, <1>2, <2>3, <2>4
       DEF Basics, Types, Readable, OnlyDrawn, StartReaper, StartWipe, ServeReaps,
           Gone, readMeta
<1>3. ASSUME NEW p \in Sweeper, SweepVisit(p) \/ SweepTurn(p) \/ SweepEnd(p)
      PROVE  Basics'
  <2>0. sweep[p] \in {Asleep} \union Sweep /\ sweep[p].todo \subseteq Id /\ p \in Process /\ p # "api"
    BY <1>0, Nothing DEF Types, Sweep, Sweeper
  <2>1. CASE SweepVisit(p)
    <3>1. PICK id \in sweep[p].todo :
            /\ sweep' = [sweep EXCEPT ![p].todo = @ \ {id}]
            /\ IF IsDue(p, id) THEN BeginDestroy(p, id) ELSE UNCHANGED destroying
      BY <2>1 DEF SweepVisit
    <3>2. sweep[p] \in Sweep /\ id \in Id
      BY <2>0, <3>1, Nothing
    <3>3. sweep' \in [Sweeper -> {Asleep} \union Sweep]
      BY <1>0, <3>1, <3>2 DEF Types, Sweep
    <3>4. /\ destroying' \in [Process -> {NotDestroying} \union Destruction]
          /\ destroying'["api"] = destroying["api"]
      <4>1. [stage |-> "container", id |-> id] \in Destruction
        BY <3>2 DEF Destruction
      <4>2. destroying \in [Process -> {NotDestroying} \union Destruction]
        BY <1>0 DEF Types
      <4>3. CASE UNCHANGED destroying
        BY <4>2, <4>3
      <4>4. CASE BeginDestroy(p, id)
        BY <2>0, <4>1, <4>2, <4>4 DEF BeginDestroy, Process
      <4> QED
        BY <3>1, <4>3, <4>4
    <3>5. TypeOK'
      BY <1>0, <2>1, <3>3, <3>4, Nothing
         DEF TypeOK, SweepVisit, Gone, readMeta, Sweep, Destruction
    <3> QED
      BY <1>0, <2>1, <3>3, <3>4, <3>5
         DEF Basics, Types, Readable, OnlyDrawn, SweepVisit, Gone, readMeta
  <2>2. CASE SweepTurn(p)
    <3>1. sweep[p] \in Sweep
      BY <2>0, <2>2, Nothing DEF SweepTurn
    <3>2. LeftForSecondPass(p) \subseteq Id
      BY <1>0 DEF LeftForSecondPass
    <3>3. sweep' \in [Sweeper -> {Asleep} \union Sweep]
      BY <1>0, <2>2, <3>1, <3>2 DEF Types, Sweep, SweepTurn
    <3>4. TypeOK'
      BY <1>0, <2>2, <3>3, Nothing DEF TypeOK, SweepTurn, Gone, readMeta, Sweep
    <3> QED
      BY <1>0, <2>2, <3>3, <3>4
         DEF Basics, Types, Readable, OnlyDrawn, SweepTurn, Gone, readMeta
  <2>3. CASE SweepEnd(p)
    <3>1. sweep' \in [Sweeper -> {Asleep} \union Sweep]
      BY <1>0, <2>3 DEF Types, SweepEnd
    <3>2. TypeOK'
      BY <1>0, <2>3, <3>1, Nothing DEF TypeOK, SweepEnd, Gone, readMeta, Sweep
    <3> QED
      BY <1>0, <2>3, <3>1, <3>2
         DEF Basics, Types, Readable, OnlyDrawn, SweepEnd, Gone, readMeta
  <2> QED
    BY <1>3, <2>1, <2>2, <2>3
<1>4. ASSUME NEW p \in Process, DestroyContainerStep(p)
      PROVE  Basics'
  <2>0. destroying[p] \in Destruction
    BY <1>0, <1>4, Nothing DEF Types, DestroyContainerStep
  <2>1. /\ destroying' \in [Process -> {NotDestroying} \union Destruction]
        /\ \A q \in Process : destroying'[q] # NotDestroying =>
             destroying[q] # NotDestroying /\ destroying'[q].id = destroying[q].id
    BY <1>0, <1>4, <2>0, Nothing DEF Types, DestroyContainerStep, Destruction
  <2>2. containers' \subseteq Id
    BY <1>0, <1>4 DEF DestroyContainerStep, destroyContainer
  <2>3. TypeOK'
    BY <1>0, <1>4, <2>1, <2>2
       DEF TypeOK, DestroyContainerStep, Gone, readMeta
  <2> QED
    BY <1>0, <1>4, <2>1, <2>3
       DEF Basics, Types, Readable, OnlyDrawn, DestroyContainerStep, Gone, readMeta, Process
<1>5. ASSUME NEW p \in Process, RemoveStateStep(p)
      PROVE  Basics'
  <2>0. destroying[p] \in Destruction /\ destroying[p].id \in Id
    BY <1>0, <1>5, Nothing DEF Types, RemoveStateStep, Destruction
  <2>1. /\ destroying' \in [Process -> {NotDestroying} \union Destruction]
        /\ \A q \in Process : destroying'[q] # NotDestroying => destroying'[q] = destroying[q]
    BY <1>0, <1>5 DEF Types, RemoveStateStep
  <2>2. /\ meta' \in [Id -> Container]
        /\ \A id \in Id : meta'[id] = IF id = destroying[p].id THEN NoMeta ELSE meta[id]
        /\ dirs' = dirs \ {destroying[p].id}
    BY <1>0, <1>5, <2>0, Nothing DEF RemoveStateStep
  <2>3. deleted' \subseteq drawn
    BY <1>0, <1>5, <2>0, Nothing DEF RemoveStateStep, OnlyDrawn, TypeOK
  <2>4. TypeOK'
    BY <1>0, <1>5, <2>1, <2>2, <2>3 DEF TypeOK, RemoveStateStep, Gone, readMeta
  <2> QED
    BY <1>0, <1>5, <2>1, <2>2, <2>4
       DEF Basics, Types, Readable, OnlyDrawn, RemoveStateStep, Gone, readMeta, Process
<1>6. CASE WriteMkdir
  <2>1. writer \in MetaWrite /\ writer' = [writer EXCEPT !.made = TRUE] /\ writer' \in MetaWrite
    BY <1>0, <1>6 DEF WriteMkdir, Types, MetaWrite
  <2>2. writer.id \in Id /\ writer'.id = writer.id /\ writer'.meta = writer.meta
    BY <2>1 DEF MetaWrite
  <2>3. TypeOK'
    BY <1>0, <1>6, <2>2 DEF TypeOK, WriteMkdir, Gone, readMeta
  <2> QED
    BY <1>0, <1>6, <2>1, <2>2, <2>3
       DEF Basics, Types, Readable, OnlyDrawn, WriteMkdir, Gone, readMeta
<1>7. CASE WriteRename
  <2>1. writer \in MetaWrite /\ writer.id \in Id /\ writer.meta \in Container
    BY <1>0, <1>7 DEF WriteRename, Types, MetaWrite
  <2>2. /\ meta' \in [Id -> Container]
        /\ \A id \in Id : meta'[id] = meta[id] \/ (id = writer.id /\ id \in dirs /\ meta'[id] = writer.meta)
    BY <1>0, <1>7, <2>1 DEF WriteRename
  <2>3. /\ job' \in [Id -> {"none", "build", "check", "create", "ephemeral", "start",
                     "record", "cleanup", "failure", "undo", "rebuild", "finish"}]
        /\ \A id \in Id : job'[id] # "none" => job[id] # "none" \/ id = writer.id
    <3>1. JobAfterWrite(writer.by, writer.id, writer.id \in dirs) \in
            {"none", "build", "rebuild", job[writer.id]}
      BY DEF JobAfterWrite
    <3> QED
      BY <1>0, <1>7, <2>1, <3>1 DEF WriteRename, TypeOK
  <2>4. writer' = NoWrite /\ resurrected' \subseteq drawn
    BY <1>0, <1>7 DEF WriteRename, OnlyDrawn, TypeOK
  <2>5. TypeOK'
    BY <1>0, <1>7, <2>2, <2>3, <2>4 DEF TypeOK, WriteRename, Gone, readMeta
  <2>6. Readable' /\ OnlyDrawn'
    BY <1>0, <1>7, <2>1, <2>2, <2>3, <2>4, Nothing
       DEF Readable, OnlyDrawn, WriteRename, Gone, readMeta
  <2> QED
    BY <1>0, <1>7, <2>4, <2>5, <2>6 DEF Basics, Types, WriteRename
<1>8. CASE StartServe
  <2>1. recover' \subseteq [id : Id, state : {"creating", "updating"}]
    BY <1>8 DEF StartServe, Unfinished
  <2>2. TypeOK'
    BY <1>0, <1>8, <2>1 DEF TypeOK, StartServe, Gone, readMeta
  <2> QED
    BY <1>0, <1>8, <2>2 DEF Basics, Types, Readable, OnlyDrawn, StartServe, Gone, readMeta
<1>9. CASE ServeRecovers
  <2>1. PICK c \in recover :
          /\ recover' = recover \ {c}
          /\ \/ BeginDestroy("serve", c.id) /\ UNCHANGED writer
             \/ /\ ~Gone(c.id)
                /\ BeginWrite("recover", c.id, [readMeta(c.id) EXCEPT !.state = "running"])
                /\ UNCHANGED destroying
             \/ UNCHANGED <<writer, destroying>>
    BY <1>9 DEF ServeRecovers
  <2>2. c.id \in Id
    BY <1>0 DEF TypeOK
  <2>3. CASE UNCHANGED writer
    <3>1. /\ destroying' \in [Process -> {NotDestroying} \union Destruction]
          /\ destroying'["api"] = destroying["api"]
      BY <1>0, <2>1, <2>2, <2>3 DEF Types, BeginDestroy, Destruction, Process, BeginWrite
    <3>2. TypeOK'
      BY <1>0, <1>9, <2>1, <2>3, <3>1, Nothing
         DEF TypeOK, ServeRecovers, Gone, readMeta, Destruction
    <3> QED
      BY <1>0, <1>9, <2>3, <3>1, <3>2
         DEF Basics, Types, Readable, OnlyDrawn, ServeRecovers, Gone, readMeta
  <2>4. CASE /\ ~Gone(c.id)
             /\ BeginWrite("recover", c.id, [readMeta(c.id) EXCEPT !.state = "running"])
             /\ UNCHANGED destroying
    <3>1. /\ [readMeta(c.id) EXCEPT !.state = "running"] \in Container
          /\ [readMeta(c.id) EXCEPT !.state = "running"].state # "none"
      BY <1>0, <2>2 DEF readMeta, Container
    <3> QED
      BY <1>0, <1>9, <2>1, <2>2, <2>4, <3>1, BeginWriteBasics DEF ServeRecovers, Writer
  <2> QED
    BY <2>1, <2>3, <2>4
<1>10. ASSUME NEW id \in Id, handleDelete(id)
       PROVE  Basics'
  <2>1. /\ destroying' \in [Process -> {NotDestroying} \union Destruction]
        /\ destroying'["api"].id = id
    BY <1>0, <1>10 DEF Types, handleDelete, BeginDestroy, Destruction, Process
  <2>2. TypeOK'
    BY <1>0, <1>10, <2>1, Nothing DEF TypeOK, handleDelete, Gone, readMeta, Destruction
  <2> QED
    BY <1>0, <1>10, <2>1, <2>2
       DEF Basics, Types, Readable, OnlyDrawn, handleDelete, Gone, readMeta
<1>11. ASSUME NEW id \in Id, handleReconfigure(id)
       PROVE  Basics'
  <2>1. PICK by \in Writer, new \in {readMeta(id), [readMeta(id) EXCEPT !.state = "updating"]} :
          BeginWrite(by, id, new)
    BY <1>11 DEF handleReconfigure, Writer
  <2>2. new \in Container /\ new.state # "none"
    BY <1>0, <1>11, <2>1 DEF handleReconfigure, readMeta, Container
  <2> QED
    BY <1>0, <1>11, <2>1, <2>2, BeginWriteBasics DEF handleReconfigure
<1>12. ASSUME NEW id \in Id, NEW ttl \in TTL, handleCreate(id, ttl)
       PROVE  Basics'
  <2>1. [state |-> "creating", expiresAt |-> clock + ttl] \in Container
    BY <1>0 DEF TTL, Container
  <2> QED
    BY <1>0, <1>12, <2>1, BeginWriteBasics DEF handleCreate, Writer
<1>13. ASSUME NEW id \in Id, NEW ttl \in TTL, handleExtend(id, ttl)
       PROVE  Basics'
  <2>1. /\ [readMeta(id) EXCEPT !.expiresAt = clock + ttl] \in Container
        /\ [readMeta(id) EXCEPT !.expiresAt = clock + ttl].state # "none"
    BY <1>0, <1>13 DEF handleExtend, readMeta, TTL, Container
  <2> QED
    BY <1>0, <1>13, <2>1, BeginWriteBasics DEF handleExtend, Writer
<1>14. ASSUME NEW id \in Id, JobLooks(id) \/ JobCreates(id) \/ JobDestroys(id) \/ JobRecords(id)
       PROVE  Basics'
  <2>1. CASE UNCHANGED writer
    <3>1. /\ job' \in [Id -> {"none", "build", "check", "create", "ephemeral", "start",
                              "record", "cleanup", "failure", "undo", "rebuild", "finish"}]
          /\ \A i \in Id : job'[i] # "none" => job[i] # "none"
      BY <1>0, <1>14, <2>1
         DEF TypeOK, JobLooks, JobCreates, JobDestroys, JobRecords, Goto, BeginWrite
    <3>2. containers' \subseteq Id
      BY <1>0, <1>14 DEF JobLooks, JobCreates, JobDestroys, JobRecords, destroyContainer
    <3>3. UNCHANGED <<clock, meta, dirs, serve, recover, destroying, sweep, wipe, drawn,
                      earlier, deleted, resurrected>>
      BY <1>14 DEF JobLooks, JobCreates, JobDestroys, JobRecords, JobFrame
    <3>4. TypeOK'
      BY <1>0, <2>1, <3>1, <3>2, <3>3 DEF TypeOK, Gone, readMeta
    <3> QED
      BY <1>0, <2>1, <3>1, <3>3, <3>4
         DEF Basics, Types, Readable, OnlyDrawn, Gone, readMeta
  <2>2. CASE /\ JobRecords(id) /\ ~Gone(id) /\ UNCHANGED job
             /\ BeginWrite(job[id], id, [readMeta(id) EXCEPT !.state = OutcomeState(job[id])])
    <3>1. /\ [readMeta(id) EXCEPT !.state = OutcomeState(job[id])] \in Container
          /\ [readMeta(id) EXCEPT !.state = OutcomeState(job[id])].state # "none"
      BY <1>0 DEF readMeta, Container, OutcomeState
    <3>2. job[id] \in Writer
      BY <2>2 DEF JobRecords, Writer
    <3> QED
      BY <1>0, <2>2, <3>1, <3>2, BeginWriteBasics DEF JobRecords, JobFrame
  <2> QED
    BY <1>14, <2>1, <2>2 DEF JobLooks, JobCreates, JobDestroys, JobRecords
<1>15. CASE ServeCrash \/ WipeFails \/ Reboot
  <2>1. /\ destroying' \in [Process -> {NotDestroying} \union Destruction]
        /\ sweep' \in [Sweeper -> {Asleep} \union Sweep]
        /\ destroying'["api"] \in {destroying["api"], NotDestroying}
    BY <1>0, <1>15 DEF Types, ServeCrash, WipeFails, Reboot, Process
  <2>2. /\ wipe \in {"due", "done", "failed"} /\ wipe' \in {"due", "done", "failed"}
        /\ serve' \in {serve, "down"} /\ recover' \in {recover, {}}
        /\ job' \in {job, [id \in Id |-> "none"]} /\ writer' \in {writer, NoWrite}
        /\ earlier' \in {earlier, drawn}
        /\ UNCHANGED <<clock, meta, dirs, containers, drawn, deleted, resurrected>>
    BY <1>0, <1>15 DEF TypeOK, ServeCrash, WipeFails, Reboot, ApiDies, WipeOfNextStart
  <2>3. TypeOK'
    BY <1>0, <2>1, <2>2, Nothing DEF TypeOK, Gone, readMeta, Destruction, Sweep
  <2> QED
    BY <1>0, <2>1, <2>2, <2>3
       DEF Basics, Types, Readable, OnlyDrawn, Gone, readMeta
<1> QED
  BY <1>1, <1>2, <1>3, <1>4, <1>5, <1>6, <1>7, <1>8, <1>9, <1>10, <1>11, <1>12,
     <1>13, <1>14, <1>15, Steps DEF Goroutine

-----------------------------------------------------------------------------
(* What the later lemmas need of a step, in the terms of one process.      *)

(* A sweep that visits or turns goes on; only the last step ends it. *)
LEMMA SweepGoesOn ==
  ASSUME Basics, NEW p \in Sweeper, SweepVisit(p) \/ SweepTurn(p)
  PROVE  /\ sweep[p] # Asleep /\ sweep'[p] # Asleep
         /\ destroying[p] = NotDestroying
         /\ sweep'[p].phase = "dirs" => sweep[p].phase = "dirs" \/ SweepTurn(p)
         /\ sweep'[p].phase = "containers" => sweep[p].phase = "containers" /\ SweepVisit(p)
         /\ \A q \in Sweeper : q # p => sweep'[q] = sweep[q]
         /\ \A q \in Process : q # p => destroying'[q] = destroying[q]
<1>1. /\ sweep \in [Sweeper -> {Asleep} \union Sweep]
      /\ destroying \in [Process -> {NotDestroying} \union Destruction]
  BY DEF Basics, Types
<1>2. CASE SweepVisit(p)
  <2>1. PICK id \in sweep[p].todo :
          /\ sweep' = [sweep EXCEPT ![p].todo = @ \ {id}]
          /\ IF IsDue(p, id) THEN BeginDestroy(p, id) ELSE UNCHANGED destroying
    BY <1>2 DEF SweepVisit
  <2>2. sweep[p] \in Sweep
    BY <1>1, <2>1, Nothing
  <2>3. sweep'[p].phase = sweep[p].phase /\ sweep[p].phase # "idle"
    BY <1>1, <2>1, <2>2 DEF Sweep
  <2> QED
    BY <1>1, <1>2, <2>1, <2>2, <2>3, Nothing DEF SweepVisit, BeginDestroy
<1>3. CASE SweepTurn(p)
  <2>1. sweep[p] \in Sweep
    BY <1>1, <1>3, Nothing DEF SweepTurn
  <2>2. sweep'[p].phase = "dirs"
    BY <1>1, <1>3, <2>1 DEF SweepTurn, Sweep
  <2> QED
    BY <1>1, <1>3, <2>1, <2>2, Nothing DEF SweepTurn
<1> QED
  BY <1>2, <1>3

(* A destruction moves from the container to the state, and ends there. *)
LEMMA DestroyGoesOn ==
  ASSUME Basics, NEW p \in Process, DestroyContainerStep(p) \/ RemoveStateStep(p)
  PROVE  /\ destroying[p] \in Destruction /\ destroying[p].id \in Id
         /\ DestroyContainerStep(p) =>
              /\ destroying[p].stage = "container"
              /\ destroying'[p].stage = "state" /\ destroying'[p].id = destroying[p].id
         /\ RemoveStateStep(p) =>
              /\ destroying[p].stage = "state"
              /\ destroying'[p] = NotDestroying
         /\ \A q \in Process : q # p => destroying'[q] = destroying[q]
<1>1. destroying \in [Process -> {NotDestroying} \union Destruction]
  BY DEF Basics, Types
<1>2. destroying[p] \in Destruction
  BY <1>1, Nothing DEF DestroyContainerStep, RemoveStateStep
<1> QED
  BY <1>1, <1>2 DEF DestroyContainerStep, RemoveStateStep, Destruction

(* A meta.json that is written is the one of the box of the write; the     *)
(* step also sends the goroutine of the box on.                            *)
LEMMA RenameWrites ==
  ASSUME Basics, WriteRename
  PROVE  LET id == writer.id IN
         /\ writer \in MetaWrite /\ id \in Id /\ writer' = NoWrite
         /\ id \in dirs => meta'[id] = writer.meta
         /\ id \notin dirs => meta'[id] = meta[id] /\ Gone(id)
         /\ job'[id] = JobAfterWrite(writer.by, id, id \in dirs)
         /\ \A i \in Id : i # id => meta'[i] = meta[i] /\ job'[i] = job[i]
<1>1. /\ meta \in [Id -> Container] /\ writer \in MetaWrite /\ writer.id \in Id
      /\ \A id \in Id : ~Gone(id) => id \in dirs
      /\ DOMAIN job = Id
  BY DEF Basics, Types, TypeOK, WriteRename, MetaWrite
<1> QED
  BY <1>1 DEF WriteRename

(* A state directory that is removed takes its meta.json with it. *)
LEMMA RemoveClears ==
  ASSUME Basics, NEW p \in Process, RemoveStateStep(p)
  PROVE  /\ meta'[destroying[p].id] = NoMeta
         /\ \A i \in Id : i # destroying[p].id => meta'[i] = meta[i]
BY DestroyGoesOn DEF RemoveStateStep, Basics, Types, TypeOK

(* The step of a goroutine is of a box that has one. *)
LEMMA GoroutineMoves ==
  ASSUME Basics, NEW id \in Id,
         JobLooks(id) \/ JobCreates(id) \/ JobDestroys(id) \/ JobRecords(id)
  PROVE  /\ job[id] # "none"
         /\ \A i \in Id : i # id => job'[i] = job[i]
         /\ \/ UNCHANGED writer
            \/ /\ JobRecords(id) /\ ~Gone(id) /\ UNCHANGED job
               /\ writer = NoWrite
               /\ writer' = [by |-> job[id], id |-> id, made |-> FALSE,
                             meta |-> [meta[id] EXCEPT !.state = OutcomeState(job[id])]]
               /\ job[id] \in {"record", "failure", "finish"}
         /\ UNCHANGED <<clock, meta, dirs, serve, recover, destroying, sweep, wipe,
                        drawn, earlier, deleted, resurrected>>
<1>1. DOMAIN job = Id
  BY DEF Basics, Types, TypeOK
<1> QED
  BY <1>1 DEF JobLooks, JobCreates, JobDestroys, JobRecords, JobFrame, Goto, BeginWrite,
              muFree, readMeta

-----------------------------------------------------------------------------
(* What the API process may be doing.                                      *)

(* A handler or a goroutine runs only while the API is up, and the startup   *)
(* alone before that. *)
LEMMA ApiAtRestStep ==
  ASSUME Basics, ApiAtRest, Next
  PROVE  ApiAtRest'
<1> USE DEF disk, api, bounds, history
<1>0. /\ "serve" \in Sweeper /\ "serve" \in Process /\ "api" \in Process
      /\ destroying \in [Process -> {NotDestroying} \union Destruction]
      /\ sweep \in [Sweeper -> {Asleep} \union Sweep]
      /\ writer \in {NoWrite} \union MetaWrite
  BY DEF Basics, Types, TypeOK, Sweeper, Process
<1>1. CASE Tick \/ StartReaper \/ StartWipe
  BY <1>0, <1>1 DEF Tick, StartReaper, StartWipe, BeginSweep, ApiAtRest
<1>2. CASE ServeReaps
  BY <1>0, <1>2 DEF ServeReaps, ApiAtRest, muFree
<1>3. ASSUME NEW p \in Sweeper, SweepVisit(p) \/ SweepTurn(p)
      PROVE  ApiAtRest'
  <2>1. /\ destroying'["api"] = destroying["api"]
        /\ sweep'["serve"] # Asleep => sweep["serve"] # Asleep
        /\ sweep["serve"] = Asleep => destroying'["serve"] = destroying["serve"]
                                      /\ sweep'["serve"] = sweep["serve"]
    BY <1>0, <1>3, SweepGoesOn DEF Sweeper, Process
  <2>2. UNCHANGED api
    BY <1>3 DEF SweepVisit, SweepTurn
  <2> QED
    BY <2>1, <2>2 DEF ApiAtRest
<1>14. CASE WipeFails
  BY <1>0, <1>14 DEF WipeFails, ApiAtRest
<1>4. ASSUME NEW p \in Sweeper, SweepEnd(p)
      PROVE  ApiAtRest'
  <2>1. CASE p = "serve"
    <3>1. sweep["serve"] # Asleep
      BY <1>4, <2>1, Nothing DEF SweepEnd
    <3>2. /\ serve = "starting" /\ writer = NoWrite /\ recover = {}
          /\ serve' = "up" /\ writer' = NoWrite /\ recover' = {}
          /\ destroying'["serve"] = NotDestroying
          /\ sweep'["serve"] = Asleep
      BY <1>0, <1>4, <2>1, <3>1 DEF SweepEnd, ApiAtRest
    <3> QED
      BY <3>2, Nothing DEF ApiAtRest
  <2>2. CASE p # "serve"
    BY <1>0, <1>4, <2>2 DEF SweepEnd, ApiAtRest
  <2> QED
    BY <2>1, <2>2
<1>5. ASSUME NEW p \in Process, DestroyContainerStep(p) \/ RemoveStateStep(p)
      PROVE  ApiAtRest'
  <2>1. /\ destroying["api"] = NotDestroying => destroying'["api"] = NotDestroying
        /\ destroying["serve"] = NotDestroying => destroying'["serve"] = NotDestroying
    BY <1>0, <1>5, DestroyGoesOn, Nothing DEF Destruction
  <2>2. UNCHANGED <<api, sweep>>
    BY <1>5 DEF DestroyContainerStep, RemoveStateStep
  <2> QED
    BY <2>1, <2>2 DEF ApiAtRest
<1>6. CASE WriteMkdir
  <2>1. writer # NoWrite /\ writer \in MetaWrite /\ writer'.by = writer.by
    BY <1>0, <1>6 DEF WriteMkdir, MetaWrite
  <2> QED
    BY <1>6, <2>1 DEF ApiAtRest, WriteMkdir
<1>7. CASE WriteRename
  <2>1. serve # "up" => \A id \in Id : job'[id] = "none"
    <3> SUFFICES ASSUME serve # "up", NEW id \in Id
                 PROVE  job'[id] = "none"
      OBVIOUS
    <3>1. writer.by = "recover" /\ job[id] = "none"
      BY <1>7 DEF ApiAtRest, WriteRename
    <3>2. JobAfterWrite("recover", writer.id, writer.id \in dirs) = job[writer.id]
      BY DEF JobAfterWrite
    <3> QED
      BY <1>7, <3>1, <3>2, RenameWrites
  <2> QED
    BY <1>7, <2>1, Nothing DEF ApiAtRest, WriteRename
<1>8. CASE StartServe
  BY <1>8 DEF ApiAtRest, StartServe
<1>9. CASE ServeRecovers
  <2>1. /\ serve = "starting" /\ sweep["serve"] = Asleep
        /\ destroying'["api"] = destroying["api"]
        /\ writer' # NoWrite => writer'.by = "recover"
    BY <1>0, <1>9 DEF ServeRecovers, ApiAtRest, BeginDestroy, BeginWrite, muFree
  <2> QED
    BY <1>9, <2>1 DEF ApiAtRest, ServeRecovers
<1>10. ASSUME NEW id \in Id, handleDelete(id)
       PROVE  ApiAtRest'
  BY <1>0, <1>10 DEF handleDelete, BeginDestroy, ApiAtRest
<1>11. ASSUME NEW id \in Id,
              handleReconfigure(id) \/ \E ttl \in TTL : handleCreate(id, ttl) \/ handleExtend(id, ttl)
       PROVE  ApiAtRest'
  <2>1. serve = "up" /\ writer'.by # "recover"
        /\ UNCHANGED <<serve, recover, job, destroying, sweep>>
    BY <1>11 DEF handleReconfigure, handleCreate, handleExtend, BeginWrite
  <2> QED
    BY <2>1 DEF ApiAtRest
<1>12. ASSUME NEW id \in Id, JobLooks(id) \/ JobCreates(id) \/ JobDestroys(id) \/ JobRecords(id)
       PROVE  ApiAtRest'
  BY <1>12, GoroutineMoves DEF ApiAtRest
<1>13. CASE ServeCrash \/ Reboot
  <2>1. /\ serve' = "down" /\ recover' = {} /\ writer' = NoWrite
        /\ \A id \in Id : job'[id] = "none"
        /\ destroying'["api"] = NotDestroying /\ destroying'["serve"] = NotDestroying
        /\ sweep'["serve"] = Asleep
    BY <1>0, <1>13 DEF ServeCrash, Reboot, ApiDies
  <2> QED
    BY <2>1, Nothing DEF ApiAtRest
<1> QED
  BY <1>1, <1>2, <1>3, <1>4, <1>5, <1>6, <1>7, <1>8, <1>9, <1>10, <1>11, <1>12,
     <1>13, <1>14, Steps DEF Goroutine

-----------------------------------------------------------------------------
(* A box that was deleted.                                                 *)

(* The three writers that change a box look at it under mu, and a removal by *)
(* the API waits for mu: neither can be late for the other. *)
LEMMA DeletedIsFinalStep ==
  ASSUME Basics, DeletedIsFinal, Next
  PROVE  DeletedIsFinal'
<1> USE DEF disk, api, bounds, history
<1>0. /\ deleted \subseteq drawn /\ drawn \subseteq Id
      /\ meta \in [Id -> Container]
      /\ \A id \in Id : ~Gone(id) => id \in drawn
  BY DEF Basics, Types, TypeOK, OnlyDrawn
<1>1. CASE UNCHANGED <<meta, deleted>> /\ (UNCHANGED writer \/ writer'.id \notin deleted)
  BY <1>1 DEF DeletedIsFinal, Gone, readMeta
<1>2. ASSUME NEW p \in Process, RemoveStateStep(p)
      PROVE  DeletedIsFinal'
  <2>1. \A id \in Id : Gone(id) => Gone(id)'
    BY <1>2, RemoveClears DEF Gone, readMeta
  <2>2. writer' = writer /\ (p = "api" => writer = NoWrite)
    BY <1>2 DEF RemoveStateStep, MayRemove, muFree
  <2>3. destroying[p].id \in Id /\ meta'[destroying[p].id] = NoMeta
    BY <1>2, RemoveClears, DestroyGoesOn
  <2>4. deleted' = deleted \/ (p = "api" /\ deleted' = deleted \union {destroying[p].id})
    BY <1>2 DEF RemoveStateStep
  <2> QED
    BY <1>0, <2>1, <2>2, <2>3, <2>4, Nothing DEF DeletedIsFinal, Gone, readMeta
<1>3. CASE WriteRename
  <2>1. \A id \in Id : id # writer.id => (Gone(id) => Gone(id)')
    BY <1>3, RenameWrites DEF Gone, readMeta
  <2>2. writer'.id \notin Id /\ deleted' = deleted
    BY <1>3, Nothing DEF WriteRename
  <2> QED
    BY <1>0, <2>1, <2>2 DEF DeletedIsFinal
<1>4. CASE WriteMkdir
  <2>1. writer'.id = writer.id
    BY <1>4 DEF WriteMkdir, Basics, Types, MetaWrite
  <2> QED
    BY <1>4, <2>1 DEF WriteMkdir, DeletedIsFinal, Gone, readMeta
<1>5. CASE ServeRecovers
  BY <1>1, <1>5 DEF ServeRecovers, BeginWrite, DeletedIsFinal
<1>6. ASSUME NEW id \in Id,
             handleReconfigure(id) \/ \E ttl \in TTL : handleCreate(id, ttl) \/ handleExtend(id, ttl)
      PROVE  DeletedIsFinal'
  <2>1. writer'.id = id /\ id \notin deleted
    BY <1>0, <1>6 DEF handleReconfigure, handleCreate, handleExtend, BeginWrite, DeletedIsFinal
  <2> QED
    BY <1>1, <1>6, <2>1 DEF handleReconfigure, handleCreate, handleExtend
<1>7. ASSUME NEW id \in Id, JobLooks(id) \/ JobCreates(id) \/ JobDestroys(id) \/ JobRecords(id)
      PROVE  DeletedIsFinal'
  BY <1>1, <1>7, GoroutineMoves DEF DeletedIsFinal
<1>8. CASE ServeCrash \/ Reboot
  BY <1>0, <1>1, <1>8, Nothing DEF ServeCrash, Reboot, ApiDies
<1>9. CASE Tick \/ StartReaper \/ StartWipe \/ StartServe \/ ServeReaps \/ WipeFails
  BY <1>1, <1>9 DEF Tick, StartReaper, StartWipe, StartServe, ServeReaps, WipeFails
<1>10. ASSUME NEW p \in Sweeper, SweepVisit(p) \/ SweepTurn(p) \/ SweepEnd(p)
       PROVE  DeletedIsFinal'
  BY <1>1, <1>10 DEF SweepVisit, SweepTurn, SweepEnd
<1>11. ASSUME NEW p \in Process, DestroyContainerStep(p)
       PROVE  DeletedIsFinal'
  BY <1>1, <1>11 DEF DestroyContainerStep
<1>12. ASSUME NEW id \in Id, handleDelete(id)
       PROVE  DeletedIsFinal'
  BY <1>1, <1>12 DEF handleDelete
<1> QED
  BY <1>2, <1>3, <1>4, <1>5, <1>6, <1>7, <1>8, <1>9, <1>10, <1>11, <1>12, Steps DEF Goroutine

-----------------------------------------------------------------------------
(* Nothing comes back after a reboot.                                      *)

(* Whatever a handler, a goroutine or a write makes is of the present boot. *)
LEMMA NothingOldIsMadeStep ==
  ASSUME Basics, WipeOnTheWay, NothingOldIsMade, Next
  PROVE  NothingOldIsMade'
<1> USE DEF disk, api, bounds, history
<1>0. /\ earlier \subseteq drawn
      /\ \A id \in Id : ~Gone(id) => id \in dirs
      /\ serve # "down" /\ wipe # "failed" => OldDirs = {}
      /\ wipe \in {"due", "done", "failed"}
  BY DEF Basics, Types, TypeOK, WipeOnTheWay
<1>1. CASE /\ UNCHANGED <<job, earlier>> /\ (wipe' = "failed" \/ wipe # "failed")
           /\ wipe = "failed" \/ UNCHANGED writer \/ writer'.id \notin earlier
  BY <1>1 DEF NothingOldIsMade
<1>2. CASE WriteRename
  <2>1. writer' = NoWrite /\ UNCHANGED <<earlier, wipe>> /\ writer # NoWrite
    BY <1>2 DEF WriteRename
  <2>2. wipe # "failed" => \A id \in Id : job'[id] # "none" => id \notin earlier
    BY <1>2, <2>1, RenameWrites DEF NothingOldIsMade
  <2> QED
    BY <2>1, <2>2 DEF NothingOldIsMade
<1>3. CASE WriteMkdir
  <2>1. writer'.id = writer.id /\ writer # NoWrite
    BY <1>3 DEF WriteMkdir, Basics, Types, MetaWrite
  <2> QED
    BY <1>3, <2>1 DEF WriteMkdir, NothingOldIsMade
<1>4. CASE ServeRecovers
  <2>1. writer' = writer \/ \E id \in Id : ~Gone(id) /\ writer'.id = id
    BY <1>4 DEF ServeRecovers, BeginWrite, Basics, Types, TypeOK
  <2> QED
    BY <1>0, <1>1, <1>4, <2>1 DEF ServeRecovers, OldDirs
<1>5. ASSUME NEW id \in Id,
             handleReconfigure(id) \/ \E ttl \in TTL : handleCreate(id, ttl) \/ handleExtend(id, ttl)
      PROVE  NothingOldIsMade'
  <2>1. writer'.id = id /\ serve = "up" /\ (id \notin drawn \/ ~Gone(id))
    BY <1>5 DEF handleReconfigure, handleCreate, handleExtend, BeginWrite
  <2> QED
    BY <1>0, <1>1, <1>5, <2>1 DEF handleReconfigure, handleCreate, handleExtend, OldDirs
<1>6. ASSUME NEW id \in Id, JobLooks(id) \/ JobCreates(id) \/ JobDestroys(id) \/ JobRecords(id)
      PROVE  NothingOldIsMade'
  BY <1>6, GoroutineMoves DEF NothingOldIsMade
<1>7. CASE ServeCrash \/ Reboot
  BY <1>7 DEF ServeCrash, Reboot, ApiDies, NothingOldIsMade
<1>8. CASE Tick \/ StartReaper \/ StartWipe \/ StartServe \/ ServeReaps \/ WipeFails
  BY <1>1, <1>8 DEF Tick, StartReaper, StartWipe, StartServe, ServeReaps, WipeFails
<1>9. ASSUME NEW p \in Sweeper, SweepVisit(p) \/ SweepTurn(p) \/ SweepEnd(p)
      PROVE  NothingOldIsMade'
  <2>1. SweepEnd("boot") => wipe = "due" \/ sweep["boot"] = Asleep
    BY DEF WipeOnTheWay, Basics, Types, TypeOK
  <2>2. wipe' = wipe \/ wipe # "failed"
    BY <1>0, <1>9, <2>1, Nothing DEF SweepVisit, SweepTurn, SweepEnd
  <2> QED
    BY <1>1, <1>9, <2>2 DEF SweepVisit, SweepTurn, SweepEnd
<1>10. ASSUME NEW p \in Process, DestroyContainerStep(p) \/ RemoveStateStep(p)
       PROVE  NothingOldIsMade'
  BY <1>1, <1>10 DEF DestroyContainerStep, RemoveStateStep
<1>11. ASSUME NEW id \in Id, handleDelete(id)
       PROVE  NothingOldIsMade'
  BY <1>1, <1>11 DEF handleDelete
<1> QED
  BY <1>2, <1>3, <1>4, <1>5, <1>6, <1>7, <1>8, <1>9, <1>10, <1>11, Steps DEF Goroutine

(* The wipe itself is left alone, and only less is left of an earlier boot. *)
LEMMA LessIsLeft ==
  ASSUME WipeOnTheWay,
         UNCHANGED <<wipe, earlier>>, serve' = "down" \/ wipe # "due",
         sweep'["boot"] = sweep["boot"], destroying'["boot"] = destroying["boot"],
         wipe # "failed" =>
           /\ OldDirs' \subseteq OldDirs
           /\ OldContainers' \subseteq OldContainers
           /\ OldContainers' \intersect undead \subseteq undead'
  PROVE  WipeOnTheWay'
<1>1. \A stage : InWipe(stage)' = InWipe(stage)
  BY DEF InWipe
<1>2. CASE wipe = "failed"
  BY <1>2, Nothing DEF WipeOnTheWay
<1>3. CASE wipe # "failed"
  BY <1>1, <1>3 DEF WipeOnTheWay
<1> QED
  BY <1>2, <1>3

(* A container that could not be destroyed is remembered as such. *)
LEMMA DestroyedOrUndead ==
  ASSUME NEW id, destroyContainer(id), UNCHANGED earlier
  PROVE  /\ OldContainers' \subseteq OldContainers
         /\ OldContainers' \intersect undead \subseteq undead'
         /\ id \in OldContainers' => id \in undead'
BY DEF destroyContainer, OldContainers

(* What is left of an earlier boot is before the wipe or at hand. *)
LEMMA WipeOnTheWayStep ==
  ASSUME Basics, ApiAtRest, WipeOnTheWay, NothingOldIsMade, Next
  PROVE  WipeOnTheWay'
<1> USE DEF disk, api, bounds, history
<1>0. /\ "boot" \in Sweeper /\ "boot" \in Process
      /\ destroying \in [Process -> {NotDestroying} \union Destruction]
      /\ sweep \in [Sweeper -> {Asleep} \union Sweep]
      /\ writer \in {NoWrite} \union MetaWrite
      /\ earlier \subseteq drawn
      /\ wipe \in {"due", "done", "failed"} /\ (wipe = "due" => serve = "down")
  BY DEF Basics, Types, TypeOK, Sweeper, Process, WipeOnTheWay
<1>1. CASE /\ UNCHANGED <<wipe, earlier, undead, dirs, containers, serve>>
           /\ sweep'["boot"] = sweep["boot"]
           /\ destroying'["boot"] = destroying["boot"]
  BY <1>0, <1>1, LessIsLeft DEF OldDirs, OldContainers
<1>2. ASSUME NEW p \in Sweeper, p # "boot", SweepVisit(p) \/ SweepTurn(p)
      PROVE  WipeOnTheWay'
  BY <1>0, <1>1, <1>2, SweepGoesOn DEF SweepVisit, SweepTurn
<1>3. CASE SweepVisit("boot")
  <2>1. PICK id \in sweep["boot"].todo :
          /\ sweep' = [sweep EXCEPT !["boot"].todo = @ \ {id}]
          /\ destroying' = [destroying EXCEPT !["boot"] = [stage |-> "container", id |-> id]]
    BY <1>3 DEF SweepVisit, IsDue, BeginDestroy
  <2>2. sweep["boot"] \in Sweep /\ sweep["boot"].todo \subseteq Id
    BY <1>0, <2>1, Nothing DEF Sweep
  <2>3. /\ sweep'["boot"].phase = sweep["boot"].phase
        /\ sweep'["boot"].todo = sweep["boot"].todo \ {id}
        /\ destroying["boot"] = NotDestroying
        /\ wipe = "due"
    BY <1>0, <1>3, <2>1, <2>2, Nothing DEF SweepVisit, Sweep, WipeOnTheWay
  <2>4. /\ InWipe("container")' = {id}
        /\ InWipe("container") = {} /\ InWipe("state") = {}
    BY <1>0, <2>1, <2>3, Nothing DEF InWipe
  <2>5. UNCHANGED <<OldDirs, OldContainers, undead, serve, wipe>>
    BY <1>3 DEF SweepVisit, OldDirs, OldContainers
  <2> QED
    BY <1>0, <2>1, <2>3, <2>4, <2>5 DEF WipeOnTheWay
<1>4. CASE SweepTurn("boot")
  <2>1. sweep["boot"] \in Sweep
    BY <1>0, <1>4, Nothing DEF SweepTurn
  <2>2. /\ sweep'["boot"].phase = "dirs" /\ sweep'["boot"].todo = dirs
        /\ sweep["boot"].phase = "containers" /\ sweep["boot"].todo = {}
        /\ destroying["boot"] = NotDestroying
        /\ wipe = "due"
    BY <1>0, <1>4, <2>1, Nothing DEF SweepTurn, Sweep, WipeOnTheWay, LeftForSecondPass
  <2>3. InWipe("container") = {}
    BY <2>2, Nothing DEF InWipe
  <2>4. UNCHANGED <<OldDirs, OldContainers, undead, serve, wipe>> /\ OldDirs \subseteq dirs
    BY <1>4 DEF SweepTurn, OldDirs, OldContainers
  <2> QED
    BY <1>0, <2>2, <2>3, <2>4 DEF WipeOnTheWay
<1>5. CASE SweepEnd("boot")
  <2>1. /\ sweep["boot"].phase = "dirs" /\ sweep["boot"].todo = {}
        /\ destroying["boot"] = NotDestroying
        /\ sweep'["boot"] = Asleep /\ destroying'["boot"] = NotDestroying
        /\ wipe' = "done"
    BY <1>0, <1>5 DEF SweepEnd
  <2>2. InWipe("container") = {} /\ InWipe("state") = {}
    BY <2>1, Nothing DEF InWipe
  <2>3. UNCHANGED <<OldDirs, OldContainers, undead>>
    BY <1>5 DEF SweepEnd, OldDirs, OldContainers
  <2> QED
    BY <2>1, <2>2, <2>3, Nothing DEF WipeOnTheWay
<1>6. ASSUME NEW p \in Sweeper, p # "boot", SweepEnd(p)
      PROVE  WipeOnTheWay'
  <2>1. sweep["serve"] # Asleep => wipe # "due"
    BY <1>0 DEF ApiAtRest
  <2>2. p = "serve" => wipe # "due"
    BY <1>6, <2>1, Nothing DEF SweepEnd
  <2>3. serve' = "down" \/ wipe # "due"
    BY <1>0, <1>6, <2>2 DEF SweepEnd
  <2> QED
    BY <1>0, <1>6, <2>3, LessIsLeft DEF SweepEnd, OldDirs, OldContainers
<1>7. ASSUME NEW p \in Process, p # "boot", DestroyContainerStep(p)
      PROVE  WipeOnTheWay'
  <2>1. destroyContainer(destroying[p].id) /\ UNCHANGED <<wipe, earlier, dirs, serve, sweep>>
    BY <1>7 DEF DestroyContainerStep
  <2>2. destroying'["boot"] = destroying["boot"]
    BY <1>0, <1>7, DestroyGoesOn
  <2> QED
    BY <1>0, <2>1, <2>2, DestroyedOrUndead, LessIsLeft DEF OldDirs
<1>8. CASE DestroyContainerStep("boot")
  <2> DEFINE id == destroying["boot"].id
  <2>1. /\ destroyContainer(id)
        /\ UNCHANGED <<wipe, earlier, dirs, serve, sweep, OldDirs>>
    BY <1>8 DEF DestroyContainerStep, OldDirs
  <2>2. /\ destroying["boot"].stage = "container" /\ destroying["boot"] \in Destruction
        /\ destroying'["boot"].stage = "state" /\ destroying'["boot"].id = id
    BY <1>0, <1>8, DestroyGoesOn
  <2>3. /\ InWipe("container") = {id} /\ InWipe("container")' = {}
        /\ InWipe("state") = {} /\ InWipe("state")' = {id}
    BY <2>2 DEF InWipe
  <2>4. wipe = "due"
    BY <2>2, Nothing DEF WipeOnTheWay
  <2>5. /\ OldContainers' \subseteq OldContainers
        /\ OldContainers' \intersect undead \subseteq undead'
        /\ id \in OldContainers' => id \in undead'
    BY <2>1, DestroyedOrUndead
  <2> QED
    BY <1>0, <2>1, <2>3, <2>4, <2>5 DEF WipeOnTheWay
<1>9. ASSUME NEW p \in Process, p # "boot", RemoveStateStep(p)
      PROVE  WipeOnTheWay'
  <2>1. destroying'["boot"] = destroying["boot"]
    BY <1>0, <1>9, DestroyGoesOn
  <2>2. /\ UNCHANGED <<wipe, earlier, serve, sweep, OldContainers, undead>>
        /\ OldDirs' \subseteq OldDirs
    BY <1>9 DEF RemoveStateStep, OldDirs, OldContainers
  <2> QED
    BY <1>0, <2>1, <2>2, LessIsLeft
<1>10. CASE RemoveStateStep("boot")
  <2> DEFINE id == destroying["boot"].id
  <2>1. /\ UNCHANGED <<wipe, earlier, serve, sweep, OldContainers, undead>>
        /\ OldDirs' = OldDirs \ {id}
    BY <1>10 DEF RemoveStateStep, OldDirs, OldContainers
  <2>2. /\ destroying["boot"].stage = "state" /\ destroying["boot"] \in Destruction
        /\ destroying'["boot"] = NotDestroying
    BY <1>0, <1>10, DestroyGoesOn
  <2>3. /\ InWipe("container") = {} /\ InWipe("container")' = {}
        /\ InWipe("state") = {id} /\ InWipe("state")' = {}
    BY <2>2, Nothing DEF InWipe
  <2>4. wipe = "due"
    BY <2>2, Nothing DEF WipeOnTheWay
  <2> QED
    BY <1>0, <2>1, <2>3, <2>4 DEF WipeOnTheWay
<1>11. CASE StartWipe
  <2>1. /\ sweep'["boot"].phase = "containers" /\ sweep'["boot"].todo = containers
        /\ wipe = "due"
        /\ UNCHANGED <<wipe, serve, OldContainers, undead>> /\ OldContainers \subseteq containers
    BY <1>0, <1>11 DEF StartWipe, BeginSweep, OldContainers
  <2> QED
    BY <1>0, <2>1 DEF WipeOnTheWay
<1>12. CASE WriteMkdir
  <2>1. wipe # "failed" => writer.id \notin earlier
    BY <1>12 DEF WriteMkdir, NothingOldIsMade
  <2>2. wipe # "failed" => UNCHANGED <<OldDirs, OldContainers>>
    BY <1>12, <2>1 DEF WriteMkdir, OldDirs, OldContainers
  <2> QED
    BY <1>0, <1>12, <2>2, LessIsLeft DEF WriteMkdir
<1>13. ASSUME NEW id \in Id, JobLooks(id) \/ JobCreates(id) \/ JobDestroys(id) \/ JobRecords(id)
       PROVE  WipeOnTheWay'
  <2>0. /\ wipe # "failed" => id \notin earlier
        /\ UNCHANGED <<wipe, earlier, serve, sweep, destroying, OldDirs>>
    BY <1>13, GoroutineMoves DEF NothingOldIsMade, OldDirs
  <2>1. CASE JobLooks(id) \/ JobCreates(id) \/ JobRecords(id)
    <3>1. containers' \in {containers, containers \union {id}} /\ undead' = undead
      BY <2>1 DEF JobLooks, JobCreates, JobRecords
    <3> QED
      BY <1>0, <2>0, <3>1, LessIsLeft DEF OldContainers
  <2>2. CASE JobDestroys(id)
    BY <1>0, <2>0, <2>2, LessIsLeft, DestroyedOrUndead DEF JobDestroys
  <2> QED
    BY <1>13, <2>1, <2>2
<1>14. CASE StartServe
  BY <1>0, <1>14, LessIsLeft DEF StartServe, MayServe, OldDirs, OldContainers
<1>15. CASE ServeCrash
  <2>1. sweep'["boot"] = sweep["boot"] /\ destroying'["boot"] = destroying["boot"]
    BY <1>0, <1>15 DEF ServeCrash
  <2>2. UNCHANGED <<earlier, undead, OldDirs, OldContainers>> /\ serve' = "down"
    BY <1>15 DEF ServeCrash, ApiDies, OldDirs, OldContainers
  <2>3. CASE wipe = "failed"
    <3>1. sweep'["boot"] = Asleep /\ wipe' = "due"
      BY <1>15, <2>1, <2>3 DEF ServeCrash, WipeOfNextStart, WipeOnTheWay
    <3> QED
      BY <2>2, <3>1, Nothing DEF WipeOnTheWay
  <2>4. CASE wipe # "failed"
    BY <1>0, <1>15, <2>1, <2>2, <2>4, LessIsLeft DEF ServeCrash, WipeOfNextStart
  <2> QED
    BY <2>3, <2>4
<1>20. CASE WipeFails
  <2>1. /\ wipe' = "failed"
        /\ sweep'["boot"] = Asleep /\ destroying'["boot"] = NotDestroying
    BY <1>0, <1>20 DEF WipeFails
  <2> QED
    BY <2>1, Nothing DEF WipeOnTheWay
<1>16. CASE Reboot
  <2>1. /\ wipe' = "due" /\ serve' = "down"
        /\ sweep'["boot"] = Asleep
    BY <1>0, <1>16 DEF Reboot, ApiDies
  <2> QED
    BY <2>1, Nothing DEF WipeOnTheWay
<1>17. CASE Tick \/ StartReaper \/ ServeReaps \/ WriteRename
  <2>1. sweep'["boot"] = sweep["boot"]
    BY <1>0, <1>17 DEF Tick, StartReaper, ServeReaps, WriteRename, BeginSweep
  <2> QED
    BY <1>1, <1>17, <2>1 DEF Tick, StartReaper, ServeReaps, WriteRename
<1>18. CASE ServeRecovers
  <2>1. destroying'["boot"] = destroying["boot"]
    BY <1>0, <1>18 DEF ServeRecovers, BeginDestroy
  <2> QED
    BY <1>1, <1>18, <2>1 DEF ServeRecovers
<1>19. ASSUME NEW id \in Id,
              \/ handleDelete(id) \/ handleReconfigure(id)
              \/ \E ttl \in TTL : handleCreate(id, ttl) \/ handleExtend(id, ttl)
       PROVE  WipeOnTheWay'
  <2>1. destroying'["boot"] = destroying["boot"]
    BY <1>0, <1>19
       DEF handleDelete, handleReconfigure, handleCreate, handleExtend, BeginDestroy
  <2> QED
    BY <1>1, <1>19, <2>1 DEF handleDelete, handleReconfigure, handleCreate, handleExtend
<1> QED
  BY <1>2, <1>3, <1>4, <1>5, <1>6, <1>7, <1>8, <1>9, <1>10, <1>11, <1>12, <1>13,
     <1>14, <1>15, <1>16, <1>17, <1>18, <1>19, <1>20, Steps DEF Goroutine

-----------------------------------------------------------------------------
(* A state that is not final has somebody who will change it.              *)

(* A startup loses sight of no unfinished box. *)
LEMMA StartupCoversStep ==
  ASSUME Basics, ApiAtRest, WorkersFit, StartupCovers, Next
  PROVE  StartupCovers'
<1> USE DEF disk, api, bounds, history
<1>0. /\ "serve" \in Sweeper /\ "serve" \in Process
      /\ destroying \in [Process -> {NotDestroying} \union Destruction]
      /\ writer \in {NoWrite} \union MetaWrite
      /\ recover \subseteq [id : Id, state : {"creating", "updating"}]
      /\ \A id \in Id : ~Gone(id) => id \in dirs
  BY DEF Basics, Types, TypeOK, Sweeper, Process
<1>1. CASE /\ UNCHANGED <<serve, meta, recover, writer>>
           /\ destroying["serve"] # NotDestroying =>
                destroying'["serve"].id = destroying["serve"].id
  BY <1>0, <1>1, Nothing DEF StartupCovers, Unfinished, readMeta
<1>2. ASSUME NEW p \in Sweeper, SweepVisit(p) \/ SweepTurn(p)
      PROVE  StartupCovers'
  <2>1. p = "serve" => destroying["serve"] = NotDestroying
    BY <1>2, SweepGoesOn
  <2>2. p # "serve" => destroying'["serve"] = destroying["serve"]
    BY <1>0, <1>2, SweepGoesOn
  <2> QED
    BY <1>1, <1>2, <2>1, <2>2 DEF SweepVisit, SweepTurn
<1>3. ASSUME NEW p \in Sweeper, SweepEnd(p)
      PROVE  StartupCovers'
  BY <1>1, <1>3 DEF SweepEnd, StartupCovers
<1>4. ASSUME NEW p \in Process, DestroyContainerStep(p)
      PROVE  StartupCovers'
  <2>1. destroying'["serve"].id = destroying["serve"].id
    BY <1>0, <1>4, DestroyGoesOn
  <2> QED
    BY <1>1, <1>4, <2>1 DEF DestroyContainerStep
<1>5. ASSUME NEW p \in Process, RemoveStateStep(p)
      PROVE  StartupCovers'
  <2> DEFINE d == destroying[p].id
  <2>1. UNCHANGED <<serve, recover, writer>>
    BY <1>5 DEF RemoveStateStep
  <2>2. Unfinished' = Unfinished \ {d} /\ \A id \in Unfinished' : meta'[id] = meta[id]
    BY <1>5, RemoveClears, DestroyGoesOn, Nothing DEF Unfinished, readMeta
  <2>3. p # "serve" => destroying'["serve"] = destroying["serve"]
    BY <1>0, <1>5, DestroyGoesOn
  <2> QED
    BY <2>1, <2>2, <2>3 DEF StartupCovers
<1>6. CASE WriteMkdir
  <2>1. writer'.id = writer.id
    BY <1>0, <1>6 DEF WriteMkdir, MetaWrite
  <2> QED
    BY <1>6, <2>1 DEF WriteMkdir, StartupCovers, Unfinished, readMeta
<1>7. CASE ServeRecovers
  <2>1. PICK c \in recover :
          /\ recover' = recover \ {c}
          /\ \/ destroying' = [destroying EXCEPT !["serve"] = [stage |-> "container", id |-> c.id]]
                /\ UNCHANGED writer
             \/ writer'.id = c.id /\ UNCHANGED destroying
             \/ Gone(c.id) /\ UNCHANGED <<writer, destroying>>
    BY <1>7 DEF ServeRecovers, BeginDestroy, BeginWrite
  <2>2. /\ destroying["serve"].id \notin Id /\ writer.id \notin Id
        /\ UNCHANGED <<serve, meta>>
    BY <1>7, Nothing DEF ServeRecovers, muFree
  <2>3. c.id \in Unfinished => \/ destroying'["serve"].id = c.id
                               \/ writer'.id = c.id
    BY <1>0, <2>1, Nothing DEF Unfinished, Gone, readMeta
  <2>4. /\ Unfinished' = Unfinished
        /\ serve = "starting"
        /\ \A id \in Unfinished : [id |-> id, state |-> meta[id].state] \in recover
    BY <1>7, <2>2 DEF StartupCovers, Unfinished, readMeta, ServeRecovers
  <2>5. \A id \in Unfinished : id # c.id => [id |-> id, state |-> meta'[id].state] \in recover'
    BY <2>1, <2>2, <2>4
  <2> QED
    BY <2>3, <2>4, <2>5 DEF StartupCovers
<1>8. CASE StartServe
  BY <1>8 DEF StartServe, StartupCovers, Unfinished, readMeta
<1>9. CASE ServeReaps \/ Tick \/ StartReaper \/ StartWipe \/ WipeFails
  BY <1>0, <1>1, <1>9 DEF ServeReaps, Tick, StartReaper, StartWipe, WipeFails
<1>10. CASE ServeCrash \/ Reboot
  BY <1>10 DEF ServeCrash, Reboot, ApiDies, StartupCovers
<1>11. ASSUME NEW id \in Id,
              \/ handleDelete(id) \/ handleReconfigure(id)
              \/ \E ttl \in TTL : handleCreate(id, ttl) \/ handleExtend(id, ttl)
       PROVE  StartupCovers'
  BY <1>11 DEF handleDelete, handleReconfigure, handleCreate, handleExtend, StartupCovers
<1>12. ASSUME NEW id \in Id, JobLooks(id) \/ JobCreates(id) \/ JobDestroys(id) \/ JobRecords(id)
       PROVE  StartupCovers'
  BY <1>12, GoroutineMoves DEF ApiAtRest, StartupCovers
<1>13. CASE WriteRename /\ serve = "starting"
  <2>1. writer.by = "recover" /\ UNCHANGED <<serve, recover, destroying>> /\ writer # NoWrite
    BY <1>13 DEF WriteRename, ApiAtRest
  <2>2. writer.id \in Id /\ \A id \in Id : id # writer.id => meta'[id] = meta[id]
    BY <1>13, RenameWrites
  <2>3. writer.id \notin Unfinished'
    <3>1. CASE writer.id \in dirs
      <4>1. writer.meta.state = "running"
        BY <2>1 DEF WorkersFit, WriterFits
      <4> QED
        BY <1>13, <3>1, <4>1, RenameWrites DEF Unfinished, readMeta
    <3>2. CASE writer.id \notin dirs
      BY <1>13, <3>2, RenameWrites, Nothing DEF Unfinished, readMeta, Gone
    <3> QED
      BY <3>1, <3>2
  <2> QED
    BY <2>1, <2>2, <2>3 DEF StartupCovers, Unfinished, readMeta
<1>14. CASE WriteRename /\ serve # "starting"
  BY <1>14 DEF WriteRename, StartupCovers
<1> QED
  BY <1>2, <1>3, <1>4, <1>5, <1>6, <1>7, <1>8, <1>9, <1>10, <1>11, <1>12, <1>13,
     <1>14, Steps DEF Goroutine

(* While boxes are only removed and the goroutines and the write stay, all   *)
(* of them fit on.                                                         *)
LEMMA FitsWithLess ==
  ASSUME WorkersFit, UNCHANGED <<job, resurrected>>, serve' = serve \/ serve' # "up",
         \/ writer' = writer
         \/ /\ writer # NoWrite
            /\ writer'.by = writer.by /\ writer'.id = writer.id /\ writer'.meta = writer.meta,
         \A id : meta'[id] = meta[id] \/ meta'[id] = NoMeta
  PROVE  WorkersFit'
<1>1. ASSUME NEW id, JobFits(id) PROVE JobFits(id)'
  BY <1>1, Nothing DEF JobFits
<1>2. ASSUME writer' # NoWrite PROVE WriterFits'
  <2>1. /\ WriterFits /\ writer # NoWrite
        /\ writer'.by = writer.by /\ writer'.id = writer.id /\ writer'.meta = writer.meta
    BY <1>2 DEF WorkersFit
  <2>2. meta'[writer.id] = meta[writer.id] \/ meta'[writer.id] = NoMeta
    OBVIOUS
  <2> QED
    BY <2>1, <2>2, Nothing DEF WriterFits, Gone, readMeta
<1> QED
  BY <1>1, <1>2 DEF WorkersFit

(* A write that begins while the goroutines and the boxes stay. *)
LEMMA FitsWithWrite ==
  ASSUME WorkersFit, UNCHANGED <<job, resurrected, serve, meta>>, WriterFits'
  PROVE  WorkersFit'
BY DEF WorkersFit, JobFits

(* A goroutine and a write always fit the state they will change. *)
LEMMA WorkersFitStep ==
  ASSUME Basics, ApiAtRest, WorkersFit, StartupCovers, Next
  PROVE  WorkersFit'
<1> USE DEF disk, api, bounds, history
<1>0. /\ meta \in [Id -> Container]
      /\ \A id \in Id : job[id] \in {"none", "build", "check", "create", "ephemeral", "start",
                     "record", "cleanup", "failure", "undo", "rebuild", "finish"}
      /\ \A id \in Id : ~Gone(id) => id \in drawn
      /\ \A id \in Id : job[id] # "none" => id \in drawn
      /\ destroying \in [Process -> {NotDestroying} \union Destruction]
      /\ sweep \in [Sweeper -> {Asleep} \union Sweep]
  BY DEF Basics, Types, TypeOK, OnlyDrawn
<1>1. CASE UNCHANGED <<meta, job, writer, resurrected>> /\ (serve' = serve \/ serve' # "up")
  BY <1>1, FitsWithLess
<1>2. ASSUME NEW p \in Sweeper, SweepEnd(p)
      PROVE  WorkersFit'
  <2>1. CASE p = "serve"
    <3>1. sweep["serve"] # Asleep
      BY <1>2, <2>1, Nothing DEF SweepEnd
    <3>2. /\ serve = "starting" /\ writer = NoWrite /\ recover = {}
          /\ destroying["serve"] = NotDestroying
          /\ \A id \in Id : job[id] = "none"
      BY <1>2, <2>1, <3>1 DEF SweepEnd, ApiAtRest
    <3>3. Unfinished = {}
      BY <3>2, Nothing DEF StartupCovers, Unfinished
    <3>4. /\ writer' = NoWrite
          /\ \A id \in Id : /\ meta'[id].state \notin {"creating", "updating"}
                            /\ job'[id] = "none"
      BY <1>2, <3>2, <3>3 DEF SweepEnd, Unfinished, readMeta
    <3> QED
      BY <3>4 DEF WorkersFit, JobFits
  <2>2. CASE p # "serve"
    BY <1>1, <1>2, <2>2 DEF SweepEnd
  <2> QED
    BY <2>1, <2>2
<1>3. ASSUME NEW p \in Process, RemoveStateStep(p)
      PROVE  WorkersFit'
  <2>1. meta' = [meta EXCEPT ![destroying[p].id] = NoMeta] /\ UNCHANGED <<api, resurrected>>
    BY <1>3 DEF RemoveStateStep
  <2>2. \A id : meta'[id] = meta[id] \/ meta'[id] = NoMeta
    BY <1>0, <1>3, <2>1, DestroyGoesOn
  <2> QED
    BY <2>1, <2>2, FitsWithLess
<1>4. CASE WriteMkdir
  <2>1. writer'.by = writer.by /\ writer'.id = writer.id /\ writer'.meta = writer.meta
    BY <1>4 DEF WriteMkdir, Basics, Types, MetaWrite
  <2> QED
    BY <1>4, <2>1, FitsWithLess DEF WriteMkdir
<1>5. CASE WriteRename
  <2>0. PICK i \in Id : i = writer.id
    BY <1>5, RenameWrites
  <2>1. WriterFits /\ writer' = NoWrite /\ writer.by \in Writer
    BY <1>5, RenameWrites DEF WriteRename, WorkersFit, MetaWrite
  <2>2. resurrected \subseteq resurrected' /\ serve' = serve
    BY <1>5 DEF WriteRename
  <2>3. ASSUME serve = "up", i \notin resurrected'
        PROVE  JobFits(i)'
    <3>0. JobFits(i) /\ writer.by # "recover"
      BY <1>5, <2>1, <2>2, <2>3 DEF WorkersFit, ApiAtRest, WriteRename
    <3>1. CASE i \notin dirs
      BY <1>5, <2>0, <3>1, RenameWrites, Nothing DEF JobFits, Gone, readMeta
    <3>2. CASE i \in dirs
      <4>1. meta'[i] = writer.meta /\ job'[i] = JobAfterWrite(writer.by, i, TRUE)
        BY <1>5, <2>0, <3>2, RenameWrites
      <4>2. ~Gone(i) \/ writer.by = "create"
        BY <1>5, <2>0, <2>3, <3>2 DEF WriteRename
      <4>3. CASE writer.by = "create"
        BY <2>0, <2>1, <4>1, <4>3 DEF WriterFits, JobAfterWrite, JobFits
      <4>4. CASE writer.by \in {"extend", "conflict"}
        BY <2>0, <2>1, <3>0, <4>1, <4>2, <4>4 DEF WriterFits, JobAfterWrite, JobFits
      <4>5. CASE writer.by = "reconfigure"
        BY <2>0, <2>1, <4>1, <4>5 DEF WriterFits, JobAfterWrite, JobFits
      <4>6. CASE writer.by \in {"record", "failure", "finish"}
        BY <2>0, <2>1, <4>1, <4>6 DEF WriterFits, JobAfterWrite, JobFits
      <4> QED
        BY <2>0, <2>1, <3>0, <4>3, <4>4, <4>5, <4>6 DEF Writer
    <3> QED
      BY <3>1, <3>2
  <2>4. ASSUME serve = "up", NEW id \in Id, id # i, id \notin resurrected'
        PROVE  JobFits(id)'
    BY <1>5, <2>0, <2>2, <2>4, RenameWrites DEF WorkersFit, JobFits
  <2> QED
    BY <2>0, <2>1, <2>2, <2>3, <2>4 DEF WorkersFit
<1>6. CASE ServeRecovers
  <2>1. CASE UNCHANGED writer
    BY <1>1, <1>6, <2>1 DEF ServeRecovers
  <2>2. CASE writer'.by = "recover" /\ writer'.meta.state = "running"
    BY <1>6, <2>2, FitsWithWrite DEF ServeRecovers, WriterFits
  <2>3. \A c \in recover : [readMeta(c.id) EXCEPT !.state = "running"].state = "running"
    BY <1>0 DEF readMeta, Container, Basics, Types, TypeOK
  <2>4. \A c \in recover :
          BeginWrite("recover", c.id, [readMeta(c.id) EXCEPT !.state = "running"])
            => writer'.by = "recover" /\ writer'.meta.state = "running"
    BY <2>3, WriteIs
  <2> QED
    BY <1>6, <2>1, <2>2, <2>4 DEF ServeRecovers
<1>7. ASSUME NEW id \in Id, handleReconfigure(id)
      PROVE  WorkersFit'
  <2>1. [readMeta(id) EXCEPT !.state = "updating"].state = "updating"
    BY <1>0 DEF readMeta, Container
  <2>2. /\ writer'.id = id /\ UNCHANGED meta
        /\ \/ writer'.by = "reconfigure" /\ writer'.meta.state = "updating"
           \/ writer'.by = "conflict" /\ writer'.meta = meta[id]
    BY <1>7, <2>1, WriteIs DEF handleReconfigure, readMeta
  <2>3. WriterFits'
    BY <2>2 DEF WriterFits
  <2> QED
    BY <1>7, <2>3, FitsWithWrite DEF handleReconfigure
<1>8. ASSUME NEW id \in Id, NEW ttl \in TTL, handleCreate(id, ttl)
      PROVE  WorkersFit'
  <2>1. Gone(id) /\ job[id] = "none" /\ UNCHANGED <<meta, job>>
    BY <1>0, <1>8 DEF handleCreate
  <2>2. WriterFits'
    BY <1>8, <2>1 DEF handleCreate, BeginWrite, WriterFits, Gone, readMeta
  <2> QED
    BY <1>8, <2>2, FitsWithWrite DEF handleCreate
<1>9. ASSUME NEW id \in Id, NEW ttl \in TTL, handleExtend(id, ttl)
      PROVE  WorkersFit'
  <2>1. [readMeta(id) EXCEPT !.expiresAt = clock + ttl].state = meta[id].state
    BY <1>0 DEF readMeta, Container
  <2>2. WriterFits'
    BY <1>9, <2>1 DEF handleExtend, BeginWrite, WriterFits
  <2> QED
    BY <1>9, <2>2, FitsWithWrite DEF handleExtend
<1>10. ASSUME NEW id \in Id, JobLooks(id) \/ JobCreates(id) \/ JobDestroys(id) \/ JobRecords(id)
       PROVE  WorkersFit'
  <2>0. /\ job[id] # "none"
        /\ \A i \in Id : i # id => job'[i] = job[i]
        /\ UNCHANGED <<meta, serve, resurrected>>
    BY <1>10, GoroutineMoves
  <2>1. CASE UNCHANGED writer
    <3>1. JobFits(id) => JobFits(id)'
      BY <1>0, <1>10, <2>0, <2>1, Nothing
         DEF JobFits, JobLooks, JobCreates, JobDestroys, JobRecords, Goto, Gone, readMeta,
             Basics, Types, TypeOK
    <3>2. \A i \in Id : JobFits(i) => JobFits(i)'
      BY <2>0, <3>1 DEF JobFits
    <3>3. writer # NoWrite /\ writer.by = "create" => writer.id # id
      BY <2>0 DEF WorkersFit, WriterFits
    <3>4. writer # NoWrite => WriterFits'
      BY <2>0, <2>1, <3>3 DEF WorkersFit, WriterFits, Gone, readMeta, Basics, Types, MetaWrite
    <3> QED
      BY <2>0, <2>1, <3>2, <3>4 DEF WorkersFit
  <2>2. CASE ~UNCHANGED writer
    <3>1. /\ job[id] \in {"record", "failure", "finish"} /\ UNCHANGED job
          /\ writer'.by = job[id]
          /\ writer'.meta.state = OutcomeState(job[id])
      BY <1>0, <1>10, <2>2, GoroutineMoves DEF Container
    <3>2. WriterFits'
      BY <3>1 DEF WriterFits, OutcomeState
    <3> QED
      BY <2>0, <3>1, <3>2, FitsWithWrite
  <2> QED
    BY <2>1, <2>2
<1>11. CASE ServeCrash \/ Reboot
  BY <1>11 DEF ServeCrash, Reboot, ApiDies, WorkersFit
<1>12. CASE Tick \/ StartReaper \/ StartWipe \/ StartServe \/ ServeReaps \/ WipeFails
  BY <1>1, <1>12 DEF Tick, StartReaper, StartWipe, StartServe, ServeReaps, WipeFails
<1>13. ASSUME NEW p \in Sweeper, SweepVisit(p) \/ SweepTurn(p)
       PROVE  WorkersFit'
  BY <1>1, <1>13 DEF SweepVisit, SweepTurn
<1>14. ASSUME NEW p \in Process, DestroyContainerStep(p)
       PROVE  WorkersFit'
  BY <1>1, <1>14 DEF DestroyContainerStep
<1>15. ASSUME NEW id \in Id, handleDelete(id)
       PROVE  WorkersFit'
  BY <1>1, <1>15 DEF handleDelete
<1> QED
  BY <1>2, <1>3, <1>4, <1>5, <1>6, <1>7, <1>8, <1>9, <1>10, <1>11, <1>12, <1>13,
     <1>14, <1>15, Steps DEF Goroutine

-----------------------------------------------------------------------------
(* The theorems.                                                           *)

(* At the start there is nothing to serve. *)
LEMMA InitialService == Init => ServiceInvariant
<1> SUFFICES ASSUME Init PROVE ServiceInvariant
  OBVIOUS
<1>1. /\ Basics
      /\ \A p \in Process : destroying[p] = NotDestroying
      /\ \A p \in Sweeper : sweep[p] = Asleep
      /\ \A id \in Id : job[id] = "none"
      /\ "boot" \in Sweeper /\ "serve" \in Sweeper /\ "serve" \in Process /\ "api" \in Process
  BY InitialBasics DEF Init, Sweeper, Process
<1>2. ApiAtRest /\ WorkersFit /\ StartupCovers
  BY <1>1, Nothing DEF Init, ApiAtRest, WorkersFit, StartupCovers
<1>3. DeletedIsFinal /\ WipeOnTheWay /\ NothingOldIsMade
  BY <1>1, Nothing DEF Init, DeletedIsFinal, WipeOnTheWay, NothingOldIsMade
<1> QED
  BY <1>1, <1>2, <1>3 DEF ServiceInvariant, Basics

(* The inductive invariant of the service: every part of it holds at every   *)
(* moment, through crashes of the API process, reboots, and failures of the  *)
(* tools that build and destroy boxes.                                     *)
THEOREM ServiceInvariantHolds == Spec => []ServiceInvariant
<1>1. ASSUME ServiceInvariant, [Next]_vars
      PROVE  ServiceInvariant'
  <2>1. CASE Next
    BY <1>1, <2>1, BasicsStep, ApiAtRestStep, DeletedIsFinalStep, WipeOnTheWayStep,
       NothingOldIsMadeStep, WorkersFitStep, StartupCoversStep
       DEF ServiceInvariant, Basics
  <2>2. CASE UNCHANGED vars
    BY <1>1, <2>2
       DEF vars, disk, api, bounds, history, ServiceInvariant, Types, TypeOK, Readable,
           OnlyDrawn, ApiAtRest, DeletedIsFinal, WipeOnTheWay, OldDirs, OldContainers,
           InWipe, NothingOldIsMade, WorkersFit, WriterFits, JobFits, StartupCovers,
           Unfinished, Gone, readMeta
  <2> QED
    BY <1>1, <2>1, <2>2
<1> QED
  BY <1>1, InitialService, PTL DEF Spec

(* Every variable of the service has its type, and a meta.json is always in *)
(* a state directory, whatever processes work on the disk at once.         *)
THEOREM ServiceTypeOK == Spec => []TypeOK
<1>1. ServiceInvariant => TypeOK
  BY DEF ServiceInvariant, Types
<1> QED
  BY <1>1, ServiceInvariantHolds, PTL

(* Once a DELETE was answered nobody can read the box's meta.json again:     *)
(* the handlers that write one hold mu and look at the box under it.        *)
THEOREM DeletedBoxStaysDeleted == Spec => []DeletedStaysDeleted
<1>1. ServiceInvariant => DeletedStaysDeleted
  BY DEF ServiceInvariant, DeletedIsFinal, DeletedStaysDeleted
<1> QED
  BY <1>1, ServiceInvariantHolds, PTL

(* Once the API runs after a wipe that ran to its end, no directory is left  *)
(* of a box of before the reboot, and no container but one that could not   *)
(* be destroyed.                                                           *)
THEOREM BootWipesAll == Spec => []WipedAtBoot
<1>1. ServiceInvariant => WipedAtBoot
  BY DEF ServiceInvariant, Types, WipeOnTheWay, WipedAtBoot, OldDirs, OldContainers
<1> QED
  BY <1>1, ServiceInvariantHolds, PTL

(* While the API is up, a box that is creating or updating has a goroutine   *)
(* that will say otherwise; the startup leaves none to a process that died. *)
THEOREM TransientBoxHasWorker == Spec => []TransientHasWorker
<1>1. ServiceInvariant => TransientHasWorker
  BY DEF ServiceInvariant, WorkersFit, JobFits, TransientHasWorker, readMeta
<1> QED
  BY <1>1, ServiceInvariantHolds, PTL

==============================================================================
