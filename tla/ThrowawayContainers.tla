------------------------ MODULE ThrowawayContainers ------------------------
(***************************************************************************)
(* The throwaway-containers service (main.go): an HTTP API, a reaper run   *)
(* by a timer in a process of its own, and a wipe at boot, all working on  *)
(* the same containers and state directories.  The mutex `mu' orders the   *)
(* API's own threads only; the reaper does not know it.                    *)
(*                                                                         *)
(* A box is an id, with a state directory, a meta.json in it and, once     *)
(* built, a container.  An id is drawn at random and is not drawn again.   *)
(***************************************************************************)
EXTENDS Integers, FiniteSets

CONSTANTS
  Id, NoId,
  MaxClock,                 \* bound: the last instant; every TTL and request is before it
  MaxCrashes, MaxFaults     \* bounds: crashes, reboots, failed wipes; failed destroys

ASSUME ContainersAssumption ==
  /\ NoId \notin Id
  /\ MaxClock \in Nat \ {0} /\ MaxCrashes \in Nat /\ MaxFaults \in Nat

Process == {"api", "serve", "timer", "boot"}    \* who destroys boxes
Sweeper == Process \ {"api"}                    \* who sweeps all of them

Container ==
  [state : {"none", "creating", "running", "updating", "failed"},
   expiresAt : 0..MaxClock]

NoMeta == [state |-> "none", expiresAt |-> 0]   \* no readable meta.json

VARIABLES
  clock,
  meta,         \* per id: its meta.json
  dirs,         \* the state directories
  containers,   \* the containers of nixos-container
  serve,        \* the API process: down, starting or up
  recover,      \* what its startup has left to look at
  job,          \* per id: where its createBox or reconfigureBox is
  writer,       \* the write of a meta.json under mu, if one is in progress
  destroying,   \* per process: the box it is in the middle of destroying
  sweep,        \* per sweeper: where its sweep is
  wipe,         \* the wipe's unit: due, done or failed
  crashes, faults,
  drawn, earlier, deleted, resurrected, undead
      \* history: ids drawn, ids drawn before the last boot; ids a DELETE
      \* answered ok for; ids whose meta an update wrote after it was removed;
      \* ids whose container nixos-container failed to destroy

disk == <<meta, dirs, containers>>
api == <<serve, recover, job, writer>>
bounds == <<crashes, faults>>
history == <<drawn, earlier, deleted, resurrected, undead>>
vars == <<clock, disk, api, destroying, sweep, wipe, bounds, history>>

NoWrite == [by |-> "none", id |-> NoId, meta |-> NoMeta, made |-> FALSE]
NotDestroying == [stage |-> "none", id |-> NoId]
Asleep == [phase |-> "idle", now |-> 0, todo |-> {}, seen |-> {}]

Init ==
  /\ clock = 0
  /\ meta = [id \in Id |-> NoMeta] /\ dirs = {} /\ containers = {}
  /\ serve = "down" /\ recover = {}
  /\ job = [id \in Id |-> "none"] /\ writer = NoWrite
  /\ destroying = [p \in Process |-> NotDestroying]
  /\ sweep = [p \in Sweeper |-> Asleep]
  /\ wipe = "due"
  /\ crashes = 0 /\ faults = 0
  /\ drawn = {} /\ earlier = {} /\ deleted = {} /\ resurrected = {} /\ undead = {}

readMeta(id) == meta[id]
Gone(id) == readMeta(id) = NoMeta

(* A TTL in whole instants of the clock, rounded down: a short one ends     *)
(* with the instant it begins in.                                          *)
TTL == {t \in 0..MaxClock : clock + t < MaxClock}

Tick ==
  /\ clock < MaxClock
  /\ clock' = clock + 1
  /\ UNCHANGED <<disk, api, destroying, sweep, wipe, bounds, history>>

-----------------------------------------------------------------------------
(* Writing meta.json: mkdir, then a rename, with mu held.                  *)

(* mu is held by the write in progress, and by nothing across two steps.   *)
muFree == writer = NoWrite

BeginWrite(by, id, new) ==
  /\ muFree
  /\ writer' = [by |-> by, id |-> id, meta |-> new, made |-> FALSE]

(* MkdirAll: also makes the directory anew if the reaper just removed it. *)
WriteMkdir ==
  /\ writer # NoWrite /\ ~writer.made
  /\ dirs' = dirs \union {writer.id}
  /\ writer' = [writer EXCEPT !.made = TRUE]
  /\ UNCHANGED <<clock, meta, containers, serve, recover, job, destroying,
                 sweep, wipe, bounds, history>>

(* Where the thread that wrote goes on; a box created without its meta is   *)
(* not built.                                                              *)
JobAfterWrite(by, id, ok) ==
  CASE by = "create" -> IF ok THEN "build" ELSE "none"
    [] by = "reconfigure" -> "rebuild"
    [] by \in {"record", "failure", "finish"} -> "none"
    [] OTHER -> job[id]

(* The rename, and the end of the critical section.  It fails when the     *)
(* directory is gone, which an update only logs.                           *)
WriteRename ==
  /\ writer # NoWrite /\ writer.made
  /\ LET id == writer.id
         ok == id \in dirs
     IN /\ meta' = IF ok THEN [meta EXCEPT ![id] = writer.meta] ELSE meta
        /\ job' = [job EXCEPT ![id] = JobAfterWrite(writer.by, id, ok)]
        /\ resurrected' = IF ok /\ Gone(id) /\ writer.by # "create"
                          THEN resurrected \union {id} ELSE resurrected
  /\ writer' = NoWrite
  /\ UNCHANGED <<clock, dirs, containers, serve, recover, destroying, sweep,
                 wipe, bounds, drawn, earlier, deleted, undead>>

-----------------------------------------------------------------------------
(* Destroying a box: the container first, then the directory under mu.     *)

(* nixos-container destroy, which may fail; a failure is only logged. *)
destroyContainer(id) ==
  \/ /\ containers' = containers \ {id}
     /\ undead' = undead \ {id}
     /\ UNCHANGED faults
  \/ /\ id \in containers
     /\ faults < MaxFaults
     /\ faults' = faults + 1
     /\ undead' = undead \union {id}
     /\ UNCHANGED containers

BeginDestroy(p, id) ==
  destroying' = [destroying EXCEPT ![p] = [stage |-> "container", id |-> id]]

DestroyContainerStep(p) ==
  /\ destroying[p].stage = "container"
  /\ destroyContainer(destroying[p].id)
  /\ destroying' = [destroying EXCEPT ![p].stage = "state"]
  /\ UNCHANGED <<clock, meta, dirs, api, sweep, wipe, crashes, drawn, earlier,
                 deleted, resurrected>>

(* Mutant: the directory is removed without mu. *)
MayRemoveUnlocked(p) == TRUE

(* Each process has a mutex of its own. *)
MayRemove(p) == p \in {"api", "serve"} => muFree

RemoveStateStep(p) ==
  /\ destroying[p].stage = "state"
  /\ MayRemove(p)
  /\ LET id == destroying[p].id
     IN /\ dirs' = dirs \ {id}
        /\ meta' = [meta EXCEPT ![id] = NoMeta]
        /\ deleted' = IF p = "api" THEN deleted \union {id} ELSE deleted
  /\ destroying' = [destroying EXCEPT ![p] = NotDestroying]
  /\ UNCHANGED <<clock, containers, api, sweep, wipe, bounds, drawn,
                 earlier, resurrected, undead>>

-----------------------------------------------------------------------------
(* HTTP handlers.                                                          *)

handleCreate(id, ttl) ==
  /\ serve = "up"
  /\ id \notin drawn
  /\ drawn' = drawn \union {id}
  /\ BeginWrite("create", id, [state |-> "creating", expiresAt |-> clock + ttl])
  /\ UNCHANGED <<clock, disk, serve, recover, job, destroying, sweep, wipe,
                 bounds, earlier, deleted, resurrected, undead>>

(* A DELETE also answers for a box that is gone.  One is handled at a time *)
(* here, an abstraction: in the code several may overlap.                  *)
handleDelete(id) ==
  /\ serve = "up"
  /\ id \in drawn
  /\ ~(writer.by = "create" /\ writer.id = id)     \* its id is not known yet
  /\ destroying["api"] = NotDestroying
  /\ BeginDestroy("api", id)
  /\ UNCHANGED <<clock, disk, api, sweep, wipe, bounds, history>>

handleExtend(id, ttl) ==
  /\ serve = "up"
  /\ ~Gone(id)
  /\ BeginWrite("extend", id, [readMeta(id) EXCEPT !.expiresAt = clock + ttl])
  /\ UNCHANGED <<clock, disk, serve, recover, job, destroying, sweep, wipe,
                 bounds, history>>

(* In any other state the meta.json is written back as it was. *)
handleReconfigure(id) ==
  /\ serve = "up"
  /\ ~Gone(id)
  /\ IF readMeta(id).state = "running"
     THEN BeginWrite("reconfigure", id, [readMeta(id) EXCEPT !.state = "updating"])
     ELSE BeginWrite("conflict", id, readMeta(id))
  /\ UNCHANGED <<clock, disk, serve, recover, job, destroying, sweep, wipe,
                 bounds, history>>

-----------------------------------------------------------------------------
(* The goroutines of a box.  Every tool they run may fail.                 *)

Goto(id, pc) == job' = [job EXCEPT ![id] = pc]

JobFrame == UNCHANGED <<clock, meta, dirs, serve, recover, destroying, sweep,
                        wipe, crashes, drawn, earlier, deleted,
                        resurrected>>

(* A step that runs a tool or looks at the disk, and changes no container. *)
JobLooks(id) ==
  /\ \/ job[id] = "build" /\ (Goto(id, "check") \/ Goto(id, "cleanup"))
     \/ job[id] = "check" /\ Goto(id, IF Gone(id) THEN "none" ELSE "create")
     \/ /\ job[id] = "ephemeral"
        /\ Goto(id, IF id \in containers THEN "start" ELSE "cleanup")
     \/ /\ job[id] = "start"
        /\ \/ id \in containers /\ Goto(id, "record")
           \/ Goto(id, "cleanup")
     \/ job[id] = "rebuild" /\ Goto(id, "finish")
  /\ UNCHANGED <<containers, writer, faults, undead>>
  /\ JobFrame

(* nixos-container create: a failure may leave a container behind. *)
JobCreates(id) ==
  /\ job[id] = "create"
  /\ \/ containers' = containers \union {id} /\ Goto(id, "ephemeral")
     \/ containers' \in {containers, containers \union {id}} /\ Goto(id, "cleanup")
  /\ UNCHANGED <<writer, faults, undead>>
  /\ JobFrame

(* After a failure, and for a box that was deleted meanwhile. *)
JobDestroys(id) ==
  /\ \/ job[id] = "cleanup" /\ Goto(id, "failure")
     \/ job[id] = "undo" /\ Goto(id, "none")
  /\ destroyContainer(id)
  /\ UNCHANGED writer
  /\ JobFrame

(* The state a goroutine records at its end. *)
OutcomeState(pc) == IF pc = "failure" THEN "failed" ELSE "running"

(* updateMeta at the end: nothing is written for a box that is gone. *)
JobRecords(id) ==
  /\ job[id] \in {"record", "failure", "finish"}
  /\ muFree
  /\ \/ /\ Gone(id)
        /\ Goto(id, IF job[id] = "record" THEN "undo" ELSE "none")
        /\ UNCHANGED writer
     \/ /\ ~Gone(id)
        /\ BeginWrite(job[id], id,
                      [readMeta(id) EXCEPT !.state = OutcomeState(job[id])])
        /\ UNCHANGED job
  /\ UNCHANGED <<containers, faults, undead>>
  /\ JobFrame

-----------------------------------------------------------------------------
(* Sweeps: the reaper (of the timer, and at the start of serve), the wipe. *)

BeginSweep(p) ==
  sweep' = [sweep EXCEPT ![p] = [phase |-> "containers", now |-> clock,
                                 todo |-> containers, seen |-> containers]]

(* Mutant: a box whose meta.json cannot be read is left alone. *)
IsDueIfRead(p, id) ==
  p = "boot" \/ (~Gone(id) /\ sweep[p].now > readMeta(id).expiresAt)

(* What the wipe and the reaper destroy. *)
IsDue(p, id) ==
  \/ p = "boot"
  \/ Gone(id)
  \/ sweep[p].now > readMeta(id).expiresAt

SweepVisit(p) ==
  /\ destroying[p] = NotDestroying
  /\ \E id \in sweep[p].todo :
       /\ sweep' = [sweep EXCEPT ![p].todo = @ \ {id}]
       /\ IF IsDue(p, id) THEN BeginDestroy(p, id) ELSE UNCHANGED destroying
  /\ UNCHANGED <<clock, disk, api, wipe, bounds, history>>

(* Mutant: the wipe looks only at containers. *)
LeftForSecondPassReaper(p) == IF p = "boot" THEN {} ELSE dirs \ sweep[p].seen

(* Directories whose container the first pass did not see; all, for a wipe. *)
LeftForSecondPass(p) == IF p = "boot" THEN dirs ELSE dirs \ sweep[p].seen

SweepTurn(p) ==
  /\ destroying[p] = NotDestroying /\ sweep[p].todo = {}
  /\ sweep[p].phase = "containers"
  /\ sweep' = [sweep EXCEPT ![p].phase = "dirs", ![p].todo = LeftForSecondPass(p)]
  /\ UNCHANGED <<clock, disk, api, destroying, wipe, bounds, history>>

SweepEnd(p) ==
  /\ destroying[p] = NotDestroying /\ sweep[p].todo = {}
  /\ sweep[p].phase = "dirs"
  /\ sweep' = [sweep EXCEPT ![p] = Asleep]
  /\ wipe' = IF p = "boot" THEN "done" ELSE wipe
  /\ serve' = IF p = "serve" THEN "up" ELSE serve
  /\ UNCHANGED <<clock, disk, recover, job, writer, destroying, bounds, history>>

(* Started by systemd: the reaper by its timer, the wipe before the API. *)
StartReaper ==
  /\ sweep["timer"] = Asleep
  /\ BeginSweep("timer")
  /\ UNCHANGED <<clock, disk, api, destroying, wipe, bounds, history>>

StartWipe ==
  /\ wipe = "due" /\ sweep["boot"] = Asleep
  /\ BeginSweep("boot")
  /\ UNCHANGED <<clock, disk, api, destroying, wipe, bounds, history>>

-----------------------------------------------------------------------------
(* The life of the API process.                                            *)

(* Mutant: the startup forgets updating boxes. *)
UnfinishedBuilds == {id \in Id : readMeta(id).state = "creating"}

(* The unit wants the wipe and is ordered after it, but does not require it: *)
(* it starts once the wipe is over, whether or not it did its work.         *)
MayServe == wipe # "due"

(* Boxes whose build died with the previous process. *)
Unfinished == {id \in Id : readMeta(id).state \in {"creating", "updating"}}

(* listMeta at the start, with the states it read. *)
StartServe ==
  /\ serve = "down" /\ MayServe
  /\ serve' = "starting"
  /\ recover' = {[id |-> id, state |-> readMeta(id).state] : id \in Unfinished}
  /\ UNCHANGED <<clock, disk, job, writer, destroying, sweep, wipe, bounds,
                 history>>

ServeRecovers ==
  /\ serve = "starting" /\ muFree /\ destroying["serve"] = NotDestroying
  /\ \E c \in recover :
       /\ recover' = recover \ {c}
       /\ \/ /\ c.state = "creating"
             /\ BeginDestroy("serve", c.id)
             /\ UNCHANGED writer
          \/ /\ c.state = "updating" /\ ~Gone(c.id)
             /\ BeginWrite("recover", c.id,
                           [readMeta(c.id) EXCEPT !.state = "running"])
             /\ UNCHANGED destroying
          \/ /\ c.state = "updating" /\ Gone(c.id)
             /\ UNCHANGED <<writer, destroying>>
  /\ UNCHANGED <<clock, disk, serve, job, sweep, wipe, bounds, history>>

ServeReaps ==
  /\ serve = "starting" /\ recover = {} /\ muFree
  /\ destroying["serve"] = NotDestroying /\ sweep["serve"] = Asleep
  /\ BeginSweep("serve")
  /\ UNCHANGED <<clock, disk, api, destroying, wipe, bounds, history>>

(* Every goroutine and handler of the API process dies with it. *)
ApiDies ==
  /\ crashes < MaxCrashes
  /\ crashes' = crashes + 1
  /\ serve' = "down" /\ recover' = {}
  /\ job' = [id \in Id |-> "none"] /\ writer' = NoWrite
  /\ UNCHANGED <<clock, disk, faults, drawn, deleted, resurrected, undead>>

(* The API's restart wants the wipe again: one that failed is run again,   *)
(* one that was done is not (RemainAfterExit).                             *)
WipeOfNextStart == IF wipe = "failed" THEN "due" ELSE wipe

ServeCrash ==
  /\ serve # "down"
  /\ ApiDies
  /\ destroying' = [destroying EXCEPT !["api"] = NotDestroying,
                                      !["serve"] = NotDestroying]
  /\ sweep' = [sweep EXCEPT !["serve"] = Asleep]
  /\ wipe' = WipeOfNextStart
  /\ UNCHANGED earlier

(* A reboot ends all processes; only the disk stays. *)
Reboot ==
  /\ ApiDies
  /\ destroying' = [p \in Process |-> NotDestroying]
  /\ sweep' = [p \in Sweeper |-> Asleep]
  /\ wipe' = "due"
  /\ earlier' = drawn

(* The process of the wipe fails or is killed, at any point of its work. *)
WipeFails ==
  /\ wipe = "due"
  /\ crashes < MaxCrashes
  /\ crashes' = crashes + 1
  /\ wipe' = "failed"
  /\ sweep' = [sweep EXCEPT !["boot"] = Asleep]
  /\ destroying' = [destroying EXCEPT !["boot"] = NotDestroying]
  /\ UNCHANGED <<clock, disk, api, faults, history>>

-----------------------------------------------------------------------------
Destroy(p) == DestroyContainerStep(p) \/ RemoveStateStep(p)
SweepStep(p) == SweepVisit(p) \/ SweepTurn(p) \/ SweepEnd(p) \/ Destroy(p)

Timer == StartReaper \/ SweepStep("timer")
Wipe == StartWipe \/ SweepStep("boot")

Serve ==
  \/ StartServe \/ ServeRecovers \/ ServeReaps \/ SweepStep("serve")
  \/ WriteMkdir \/ WriteRename \/ Destroy("api")

(* Requests stop before the last instant: an update may bring a box back   *)
(* after each sweep, without end.                                          *)
Request ==
  /\ clock < MaxClock
  /\ \E id \in Id :
       \/ handleDelete(id) \/ handleReconfigure(id)
       \/ \E ttl \in TTL : handleCreate(id, ttl) \/ handleExtend(id, ttl)

Goroutine ==
  \E id \in Id : JobLooks(id) \/ JobCreates(id) \/ JobDestroys(id) \/ JobRecords(id)

Next ==
  \/ Tick \/ Timer \/ Wipe \/ Serve \/ Request \/ Goroutine
  \/ ServeCrash \/ WipeFails \/ Reboot

Spec == Init /\ [][Next]_vars

(* Time passes and systemd runs the reaper; nothing is asked of the API    *)
(* process, of its builds or of the wipe.                                  *)
FairSpec == Spec /\ WF_vars(Tick) /\ WF_vars(Timer)

-----------------------------------------------------------------------------
(* Properties.                                                             *)

(* Types; and a meta.json is always in a directory. *)
TypeOK ==
  /\ clock \in 0..MaxClock
  /\ meta \in [Id -> Container]
  /\ dirs \subseteq Id /\ containers \subseteq Id
  /\ \A id \in Id : ~Gone(id) => id \in dirs
  /\ serve \in {"down", "starting", "up"} /\ wipe \in {"due", "done", "failed"}
  /\ recover \subseteq [id : Id, state : {"creating", "updating"}]
  /\ job \in [Id -> {"none", "build", "check", "create", "ephemeral", "start",
                     "record", "cleanup", "failure", "undo", "rebuild", "finish"}]
  /\ writer = NoWrite \/ writer.id \in Id
  /\ \A p \in Process : destroying[p] = NotDestroying \/ destroying[p].id \in Id
  /\ \A p \in Sweeper : sweep[p].todo \subseteq Id /\ sweep[p].seen \subseteq Id
  /\ deleted \subseteq drawn /\ resurrected \subseteq drawn /\ earlier \subseteq drawn

(* While the API is up, a box that says it is creating or updating has a   *)
(* goroutine that will say otherwise, whatever crashed before.  (Not one   *)
(* that an update brought back after the reaper had removed it.)           *)
TransientHasWorker ==
  serve = "up" =>
    \A id \in Id \ resurrected :
      /\ readMeta(id).state = "creating" => job[id] \notin {"none", "rebuild", "finish"}
      /\ readMeta(id).state = "updating" => job[id] \in {"rebuild", "finish"}

(* Once a DELETE was answered nobody can see the box again, whatever       *)
(* extension, build or reconfiguration was under way.                      *)
DeletedStaysDeleted == \A id \in deleted : Gone(id)

(* Nothing comes back after a reboot (default.nix:77): once the API runs    *)
(* again after a wipe that ran to its end, nothing is left of an earlier   *)
(* box but a container that could not be destroyed.  (After a wipe that     *)
(* failed the API runs too, with whatever is left, until its next restart.) *)
WipedAtBoot ==
  serve # "down" /\ wipe = "done" =>
    /\ earlier \intersect dirs = {}
    /\ earlier \intersect containers \subseteq undead

(* Every box goes, with all that belongs to it, even if the API dies or    *)
(* hangs at any point of a build, a deletion or an update.                 *)
EveryBoxGoes == <>[](containers = {} /\ dirs = {})

(* main.go:11, "meta.json is the truth for the TTL". *)
ReaperObeysMeta ==
  [][\A p \in {"timer", "serve"} :
       RemoveStateStep(p) =>
         LET id == destroying[p].id IN Gone(id) \/ clock > readMeta(id).expiresAt]_vars

(* main.go:242, "destroy removes a box completely".                        *)
DestroyIsComplete ==
  \A id \in deleted : job[id] = "none" /\ id \notin undead => id \notin containers
=============================================================================
