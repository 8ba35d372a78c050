-------------------------- MODULE WorkspaceLifecycle --------------------------
(***************************************************************************)
(* The container of one workspace and the operations that use it           *)
(* (workspace-lifecycle.ts in the object of workspace-object.ts, with the  *)
(* boot of workspace-boot.ts and the disk of disk-sandbox.ts).             *)
(*                                                                         *)
(* An operation waits for a boot, runs, and on an error may replace the    *)
(* container.  Between two awaits of one operation the others run, and     *)
(* the container may stop.  A call on a stopped container starts it: that  *)
(* is how a boot begins (its first call is a command) and how a restore is *)
(* tried again after a destroy.                                            *)
(***************************************************************************)
EXTENDS Naturals

CONSTANTS
  Use,          \* calls of use()
  SideEffecting,\* those of that kind; the others are idempotent
  Published,    \* published snapshots a boot may try: at most 3
  None,         \* absence of a boot, of a disk, of a home
  Budget        \* bounds: how often each of Mishaps may happen, and any of them

Mishaps == {"stop", "hang", "pause", "restart", "call", "destroy"}

ASSUME KindAssumption == SideEffecting \subseteq Use
ASSUME PublishedAssumption == Published \in 1..3
ASSUME BudgetAssumption == Budget \in [Mishaps \cup {"any"} -> Nat]

VARIABLES
  container,    \* "down", "up", or "hung": marked running but not answering
  starts,       \* how often it was started: its boot id
  home,         \* what /home/user holds
  ready,        \* the marker in it names this boot id
  disk,         \* storage: boot-snapshot
  fromDisk,     \* storage: restored-from
  expected,     \* storage: workspace-expected-running
  verified,     \* memory: the container has been booted
  boot,         \* memory: `booting`, the boot under way
  pc, stage,    \* where a use stands, and whether it has replaced
  ran,          \* how often its operation was begun
  on,           \* the boot id of the container its call in flight is for
  worked,       \* the home its operation completed on
  result,       \* what the caller was told
  leaving,      \* a pause or a stop of the container under way
  owed,         \* a stop nobody expected has not been announced
  left          \* what is left of Budget

machine == <<container, starts, home, ready, fromDisk>>
memory == <<verified, boot>>
uses == <<pc, stage, ran, on, worked, result>>
vars == <<container, starts, home, ready, disk, fromDisk, expected, verified, boot,
          pc, stage, ran, on, worked, result, leaving, owed, left>>
-----------------------------------------------------------------------------
\* "saved" is the latest published snapshot, with what was done since;
\* "older" is one published before it.
Home == {"blank", "older", "saved"}

Boot == [at : {"announce", "marker", "measure", "restore", "destroy", "init", "end"},
         on : Nat, candidate : 1..3, destroyed : BOOLEAN]

Init ==
  /\ container = "down" /\ starts = 0 /\ home = "blank" /\ ready = FALSE
  /\ disk = None /\ fromDisk = FALSE
  /\ expected = FALSE /\ verified = FALSE /\ boot = None
  /\ pc = [u \in Use |-> "idle"]
  /\ stage = [u \in Use |-> "first"]
  /\ ran = [u \in Use |-> 0]
  /\ on = [u \in Use |-> 0]
  /\ worked = [u \in Use |-> None]
  /\ result = [u \in Use |-> "none"]
  /\ leaving = "no" /\ owed = FALSE
  /\ left = Budget

\* One of the mishaps of the bound.
Mishap(m) ==
  /\ left[m] > 0 /\ left["any"] > 0
  /\ left' = [left EXCEPT ![m] = @ - 1, !["any"] = @ - 1]

Running == container # "down"
-----------------------------------------------------------------------------
(* Calls *)

BugFoundDisk == IF Running THEN home ELSE disk
\* The home a call finds: a stopped container starts from the disk, else empty.
Found == IF Running THEN home ELSE IF disk = None THEN "blank" ELSE disk
FoundReady == container = "up" /\ ready

\* A call is answered, and starts the container where it is stopped.
Answered ==
  /\ container # "hung"
  /\ container' = "up"
  /\ starts' = IF Running THEN starts ELSE starts + 1
  /\ fromDisk' = IF Running THEN fromDisk ELSE disk # None

\* The container that a call made now is for; and it is gone.
Target(running, id) == IF running THEN id ELSE id + 1
Gone(id) == id < starts \/ (id = starts /\ ~Running)

\* A call fails: the container hangs or went away under it, or it fails by itself.
CallFails(id) ==
  /\ \/ (container = "hung" \/ Gone(id)) /\ UNCHANGED left
     \/ Mishap("call")
  /\ UNCHANGED machine

\* destroy(), whose failure every caller swallows.
Destroys ==
  \/ container' = "down" /\ UNCHANGED <<starts, home, ready, fromDisk, left>>
  \/ Mishap("destroy") /\ UNCHANGED machine
-----------------------------------------------------------------------------
(* Boots *)

\* A boot begins; an unexpected stop is to be announced first.
NewBoot(running) ==
  [at |-> IF expected /\ ~running THEN "announce" ELSE "marker",
   on |-> Target(running, starts), candidate |-> 1, destroyed |-> FALSE]

At(step) == boot # None /\ boot.at = step
Goto(step) ==
  boot' = [boot EXCEPT !.at = step, !.on = Target(container' # "down", starts')]

BugRerunAnything(u) == TRUE
MayRerun(u) == u \notin SideEffecting

\* The operation of u begins, for the first time or again.
Operate(U) ==
  /\ ran' = [u \in Use |-> IF u \in U THEN ran[u] + 1 ELSE ran[u]]
  /\ on' = [u \in Use |-> IF u \in U THEN Target(container' # "down", starts') ELSE on[u]]

\* The promise is resolved: those that wait go on, each as its code does.
Booted ==
  LET waiting == {u \in Use : pc[u] = "waiting"}
      working == {u \in waiting : stage[u] = "after" => MayRerun(u)}
  IN /\ boot' = None /\ expected' = TRUE /\ verified' = TRUE
     /\ pc' = [u \in Use |-> IF u \in working THEN "op"
                             ELSE IF u \in waiting THEN "done" ELSE pc[u]]
     /\ result' = [u \in Use |-> IF u \in waiting \ working THEN "lost" ELSE result[u]]
     /\ Operate(working)
     /\ UNCHANGED <<stage, worked, disk, leaving>>

\* It is rejected: a use that has replaced the container gives up, another
\* looks whether the container is alive.
BootFailed ==
  LET waiting == {u \in Use : pc[u] = "waiting"}
      trying == {u \in waiting : stage[u] = "first"}
  IN /\ boot' = None
     /\ pc' = [u \in Use |-> IF u \in trying THEN IF Running THEN "probing" ELSE "announcing"
                             ELSE IF u \in waiting THEN "done" ELSE pc[u]]
     /\ stage' = [u \in Use |-> IF u \in trying /\ ~Running THEN "before" ELSE stage[u]]
     /\ result' = [u \in Use |-> IF u \in waiting \ trying THEN "error" ELSE result[u]]
     /\ on' = [u \in Use |-> IF u \in trying THEN starts ELSE on[u]]
     /\ UNCHANGED <<ran, worked, expected, verified, disk, leaving>>

BootStep(step) == At(step) /\ UNCHANGED <<uses, verified, disk, leaving>>

\* announceLoss never throws.
BootAnnounces ==
  /\ BootStep("announce")
  /\ UNCHANGED <<machine, expected, left>>
  /\ Goto("marker") /\ owed' = FALSE

\* Is this the container that was initialised?  A failing check counts as no.
BootReady ==
  /\ At("marker")
  /\ Answered /\ home' = Found /\ ready' = FoundReady
  /\ FoundReady /\ Booted
  /\ UNCHANGED <<owed, left>>

BootRecycled ==
  /\ BootStep("marker")
  /\ \/ /\ Answered /\ home' = Found /\ ready' = FoundReady
        /\ ~FoundReady
        /\ UNCHANGED left
     \/ CallFails(boot.on)
  /\ Goto(IF fromDisk' THEN "measure" ELSE "restore")
  /\ UNCHANGED <<expected, owed>>

BugMeasureThroughUse ==
  /\ BootStep("measure") /\ boot = None
  /\ Answered /\ home' = Found /\ ready' = FoundReady
  /\ Goto(IF Found = "blank" THEN "restore" ELSE "init")
  /\ UNCHANGED <<expected, owed, left>>
\* A home from the disk is restored over only where it looks wiped.
BootMeasures ==
  /\ BootStep("measure")
  /\ \/ /\ Answered /\ home' = Found /\ ready' = FoundReady
        /\ Goto(IF Found = "blank" THEN "restore" ELSE "init")
        /\ UNCHANGED left
     \/ CallFails(boot.on) /\ Goto("init")
  /\ UNCHANGED <<expected, owed>>

BootRestores ==
  /\ BootStep("restore")
  /\ Answered /\ ready' = FoundReady
  /\ home' = IF boot.candidate = 1 THEN "saved" ELSE "older"
  /\ Goto("init")
  /\ UNCHANGED <<expected, owed, left>>

\* The rows that name the snapshots cannot be read.
BootCandidatesFail ==
  /\ At("restore") /\ boot.candidate = 1 /\ ~boot.destroyed
  /\ Mishap("call")
  /\ UNCHANGED <<machine, owed>>
  /\ BootFailed

\* The first failure destroys the container and tries once more, a later one
\* goes to an older snapshot; with none left the boot continues.
BootRestoreFails ==
  /\ BootStep("restore")
  /\ CallFails(boot.on)
  /\ CASE ~boot.destroyed -> Goto("destroy")
       [] boot.destroyed /\ boot.candidate < Published ->
            boot' = [boot EXCEPT !.candidate = @ + 1, !.on = Target(Running, starts)]
       [] OTHER -> Goto("init")
  /\ UNCHANGED <<expected, owed>>

BootDestroys ==
  /\ BootStep("destroy")
  /\ Destroys
  /\ boot' = [boot EXCEPT !.at = "restore", !.destroyed = TRUE,
                       !.on = Target(container' # "down", starts)]
  /\ UNCHANGED <<expected, owed>>

BootInits ==
  /\ BootStep("init")
  /\ Answered /\ home' = Found /\ ready' = TRUE
  /\ Goto("end")
  /\ UNCHANGED <<expected, owed, left>>

BootInitFails ==
  /\ At("init")
  /\ CallFails(boot.on) /\ BootFailed
  /\ UNCHANGED owed

\* After the last note.
BootEnds ==
  /\ At("end")
  /\ UNCHANGED <<machine, owed, left>>
  /\ Booted
-----------------------------------------------------------------------------
(* use() *)

Move(u, to) == pc' = [pc EXCEPT ![u] = to]
Tell(u, r) == Move(u, "done") /\ result' = [result EXCEPT ![u] = r]

BugTrustVerified == verified
IsAwake == verified /\ Running

\* awake(): join the boot under way, go on, or boot.
Begin(u) ==
  /\ pc[u] = "idle"
  /\ \/ /\ boot = None /\ IsAwake
        /\ Move(u, "op")
        /\ ran' = [ran EXCEPT ![u] = 1] /\ on' = [on EXCEPT ![u] = starts]
        /\ UNCHANGED memory
     \/ /\ boot = None /\ ~IsAwake
        /\ Move(u, "waiting") /\ verified' = FALSE /\ boot' = NewBoot(Running)
        /\ UNCHANGED <<ran, on>>
     \/ /\ boot # None
        /\ Move(u, "waiting")
        /\ UNCHANGED <<memory, ran, on>>
  /\ UNCHANGED <<machine, disk, expected, stage, worked, result, leaving, owed, left>>

\* The last call of the operation is answered.
OpEnds(u) ==
  /\ pc[u] = "op" /\ ~Gone(on[u])
  /\ Answered /\ home' = Found /\ ready' = FoundReady
  /\ Tell(u, "ok")
  /\ worked' = [worked EXCEPT ![u] = Found]
  /\ UNCHANGED <<disk, expected, memory, stage, ran, on, leaving, owed, left>>

\* One of its calls fails.  The second time the error is the caller's.
OpFails(u) ==
  /\ pc[u] = "op"
  /\ CallFails(on[u])
  /\ \/ /\ stage[u] = "after"
        /\ Tell(u, "error") /\ UNCHANGED <<stage, on>>
     \/ /\ stage[u] # "after" /\ Running
        /\ Move(u, "probing") /\ on' = [on EXCEPT ![u] = starts]
        /\ UNCHANGED <<stage, result>>
     \/ /\ stage[u] # "after" /\ ~Running
        /\ Move(u, "announcing") /\ on' = [on EXCEPT ![u] = starts]
        /\ stage' = [stage EXCEPT ![u] = "after"]
        /\ UNCHANGED result
  /\ UNCHANGED <<disk, expected, memory, ran, worked, leaving, owed>>

\* stillAlive(): a marked container is asked.
ProbeAnswered(u) ==
  /\ pc[u] = "probing" /\ ~Gone(on[u])
  /\ Answered /\ home' = Found /\ ready' = FoundReady
  /\ Tell(u, "error")
  /\ UNCHANGED <<disk, expected, memory, stage, ran, on, worked, leaving, owed, left>>

ProbeFails(u) ==
  /\ pc[u] = "probing"
  /\ CallFails(on[u])
  /\ Move(u, "announcing")
  /\ stage' = [stage EXCEPT ![u] = IF ran[u] = 0 THEN "before" ELSE "after"]
  /\ UNCHANGED <<disk, expected, memory, ran, on, worked, result, leaving, owed>>

\* replace(): announce, then destroy, then boot or join a boot.
Announce(u) ==
  /\ pc[u] = "announcing"
  /\ Move(u, "destroying")
  /\ expected' = FALSE /\ verified' = FALSE /\ owed' = FALSE
  /\ UNCHANGED <<machine, disk, boot, stage, ran, on, worked, result, leaving, left>>

Replace(u) ==
  /\ pc[u] = "destroying"
  /\ Destroys
  /\ Move(u, "waiting")
  /\ boot' = IF boot = None THEN NewBoot(container' # "down") ELSE boot
  /\ UNCHANGED <<disk, expected, verified, stage, ran, on, worked, result, leaving, owed>>
-----------------------------------------------------------------------------
(* The end of a container *)

Quiet == \A u \in Use : pc[u] \in {"idle", "done"}

\* stopped(), by a pause and by stopContainer(); a stop is then expected.
Leaves ==
  /\ verified' = FALSE /\ expected' = FALSE /\ owed' = FALSE
  /\ leaving' = "stopping"
  /\ UNCHANGED <<machine, boot, uses>>

\* onActivityExpired: nothing was used for a while.  The disk is saved first.
ActivityExpires ==
  /\ Mishap("pause")
  /\ leaving = "no" /\ Running /\ Quiet
  /\ leaving' = "saving"
  /\ UNCHANGED <<machine, disk, expected, memory, uses, owed>>

PauseSaves ==
  /\ leaving = "saving"
  /\ \/ container = "up" /\ disk' = home /\ UNCHANGED left
     \/ container = "down" /\ UNCHANGED <<disk, left>>
     \/ container = "hung" /\ UNCHANGED <<disk, left>>
     \/ Mishap("call") /\ UNCHANGED disk
  /\ Leaves

StopContainer ==
  /\ leaving = "no"
  /\ Mishap("pause")
  /\ Leaves
  /\ UNCHANGED disk

Left ==
  /\ leaving = "stopping"
  /\ leaving' = "no"
  /\ Destroys
  /\ UNCHANGED <<disk, expected, memory, uses, owed>>

\* The platform takes the container away, or it stops answering.
ContainerStops ==
  /\ Running /\ Mishap("stop")
  /\ container' = "down"
  /\ owed' = (owed \/ (verified /\ Quiet))
  /\ UNCHANGED <<starts, home, ready, disk, fromDisk, expected, memory, uses, leaving>>

ContainerHangs ==
  /\ container = "up" /\ Mishap("hang")
  /\ container' = "hung"
  /\ UNCHANGED <<starts, home, ready, disk, fromDisk, expected, memory, uses, leaving, owed>>

\* The object restarts: memory goes, the callers' requests fail.
ObjectRestarts ==
  /\ Mishap("restart")
  /\ verified' = FALSE /\ boot' = None /\ leaving' = "no"
  /\ pc' = [u \in Use |-> IF pc[u] = "idle" THEN "idle" ELSE "done"]
  /\ result' = [u \in Use |-> IF pc[u] \in {"idle", "done"} THEN result[u] ELSE "error"]
  /\ UNCHANGED <<machine, disk, expected, stage, ran, on, worked, owed>>
-----------------------------------------------------------------------------
BootNext ==
  \/ BootAnnounces \/ BootReady \/ BootRecycled \/ BootMeasures
  \/ BootRestores \/ BootCandidatesFail \/ BootRestoreFails \/ BootDestroys
  \/ BootInits \/ BootInitFails \/ BootEnds

UseNext(u) ==
  OpEnds(u) \/ OpFails(u) \/ ProbeAnswered(u) \/ ProbeFails(u) \/ Announce(u) \/ Replace(u)

Next ==
  \/ BootNext
  \/ \E u \in Use : Begin(u) \/ UseNext(u)
  \/ ActivityExpires \/ PauseSaves \/ StopContainer \/ Left
  \/ ContainerStops \/ ContainerHangs \/ ObjectRestarts

Spec == Init /\ [][Next]_vars

\* Every call has a timeout.
FairSpec ==
  Spec /\ WF_vars(BootNext) /\ \A u \in Use : WF_vars(UseNext(u))
-----------------------------------------------------------------------------
(***************************************************************************)
(* Properties.                                                             *)
(***************************************************************************)

\* Every variable has its type.
TypeOK ==
  /\ container \in {"down", "up", "hung"} /\ starts \in Nat
  /\ home \in Home /\ ready \in BOOLEAN
  /\ disk \in Home \cup {None} /\ fromDisk \in BOOLEAN
  /\ expected \in BOOLEAN /\ verified \in BOOLEAN /\ boot \in Boot \cup {None}
  /\ pc \in [Use -> {"idle", "waiting", "op", "probing", "announcing", "destroying", "done"}]
  /\ stage \in [Use -> {"first", "before", "after"}]
  /\ ran \in [Use -> 0..2] /\ on \in [Use -> Nat]
  /\ worked \in [Use -> Home \cup {None}]
  /\ result \in [Use -> {"none", "ok", "error", "lost"}]
  /\ leaving \in {"no", "saving", "stopping"} /\ owed \in BOOLEAN
  /\ left \in [Mishaps \cup {"any"} -> Nat]

\* A side-effecting command is begun at most once, and its caller is told that
\* it was lost only where the container it ran on is gone: unless a destroy
\* failed, that container can still do nothing behind the caller's back.
LostMeansGone ==
  \A u \in Use :
    /\ u \in SideEffecting => ran[u] <= 1
    /\ result[u] = "lost" /\ left["destroy"] = Budget["destroy"] => Gone(on[u])

\* A container that stops while nothing uses it is missed: no operation runs
\* before the loss is announced, also after a restart of the object.
StopIsAnnounced == owed => \A u \in Use : pc[u] # "op"

\* Every use is answered.
EveryUseAnswered == \A u \in Use : pc[u] # "idle" ~> pc[u] = "done"

\* "A replacement container restores the latest published snapshot before it
\* accepts work" (docs/feature-tour.md:20): no operation completes on a home
\* that is blank or older, if every restore succeeds.
RestoredBeforeWork == \A u \in Use : worked[u] \in {None, "saved"}
=============================================================================
