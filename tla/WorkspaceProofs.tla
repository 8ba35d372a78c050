---------------------------- MODULE WorkspaceProofs ----------------------------
(* Proofs about the workspace (WorkspaceLifecycle), for any number of uses,     *)
(* snapshots and mishaps, and about the Pi chat that works in it (PiChat), for  *)
(* every length of a conversation and every number of failures and deaths.      *)
EXTENDS WorkspaceLifecycle, PiChat, SequenceTheorems, TLAPS

-----------------------------------------------------------------------------
(* The workspace.                                                              *)

\* The times the operation of a use was begun before the container it waits for.
Before(u) == IF stage[u] = "after" THEN 1 ELSE 0

\* Where a use stands says how often its operation was begun; one that begins
\* again is idempotent.
BegunOf(u) ==
  /\ pc[u] = "idle" => ran[u] = 0 /\ stage[u] = "first"
  /\ pc[u] = "waiting" => ran[u] = Before(u)
  /\ pc[u] = "op" => ran[u] = Before(u) + 1 /\ (stage[u] = "after" => u \notin SideEffecting)
  /\ pc[u] = "probing" => ran[u] <= 1 /\ stage[u] # "after"
  /\ pc[u] \in {"announcing", "destroying"} => ran[u] = Before(u) /\ stage[u] # "first"
  /\ pc[u] = "done" /\ u \in SideEffecting => ran[u] <= 1

\* A use that replaces looks at a container that was started, and once its
\* destroy has not failed that container is gone.
ReplacedOf(u) ==
  /\ result[u] # "none" => pc[u] = "done"
  /\ pc[u] \in {"probing", "announcing", "destroying"} => on[u] <= starts
  /\ left["destroy"] = Budget["destroy"] =>
       /\ pc[u] = "waiting" /\ stage[u] = "after" => Gone(on[u])
       /\ result[u] = "lost" => Gone(on[u])

UseInv ==
  /\ left["destroy"] <= Budget["destroy"]
  /\ \A u \in Use : BegunOf(u) /\ ReplacedOf(u)

\* A loss that is owed is expected to be noticed by the next boot, and nothing
\* but that boot goes on before it.
OwedInv ==
  /\ verified => expected
  /\ boot # None => \E u \in Use : pc[u] = "waiting"
  /\ owed => /\ expected /\ ~Running
             /\ boot = None \/ boot.at = "announce"
             /\ \A u \in Use : pc[u] \in {"idle", "waiting", "done"}

WorkspaceInv == TypeOK /\ UseInv /\ OwedInv

-----------------------------------------------------------------------------
(* What any step does to the container.                                        *)

Bound == Mishaps \cup {"any"}

MachineTyped ==
  /\ container \in {"down", "up", "hung"} /\ starts \in Nat
  /\ home \in Home /\ ready \in BOOLEAN /\ fromDisk \in BOOLEAN
  /\ left \in [Bound -> Nat]

\* A container that is gone stays so: a later one has another boot id.
MachineStep ==
  /\ MachineTyped'
  /\ left'["destroy"] <= left["destroy"]
  /\ starts' >= starts
  /\ \A id \in Nat : Gone(id) => Gone(id)'

LEMMA MishapTyped ==
  ASSUME TypeOK, NEW m \in Mishaps, Mishap(m)
  PROVE  /\ left' \in [Bound -> Nat]
         /\ left'["destroy"] <= left["destroy"]
         /\ m = "destroy" => left'["destroy"] < left["destroy"]
         /\ m # "destroy" => left'["destroy"] = left["destroy"]
<1>1. left \in [Bound -> Nat] /\ m \in Bound /\ m # "any" /\ "any" \in Bound /\ "destroy" \in Bound
  BY DEF TypeOK, Bound, Mishaps
<1>2. left' = [left EXCEPT ![m] = @ - 1, !["any"] = @ - 1] /\ left[m] > 0 /\ left["any"] > 0
  BY DEF Mishap
<1>3. \A k \in Bound : left'[k] = IF k = m \/ k = "any" THEN left[k] - 1 ELSE left[k]
  BY <1>1, <1>2
<1>4. \A k \in Bound : left'[k] \in Nat
  BY <1>1, <1>2, <1>3
<1>5. left' \in [Bound -> Nat]
  BY <1>1, <1>2, <1>4
<1>6. left["destroy"] \in Nat
  BY <1>1
<1> QED BY <1>1, <1>3, <1>5, <1>6

LEMMA FoundTyped == ASSUME TypeOK PROVE Found \in Home /\ FoundReady \in BOOLEAN
  BY DEF TypeOK, Found, FoundReady, Home

LEMMA AnsweredStep ==
  ASSUME TypeOK, Answered, home' \in Home, ready' \in BOOLEAN, left' = left PROVE MachineStep
<1>1. left \in [Bound -> Nat] /\ left["destroy"] \in Nat
  BY DEF TypeOK, Bound, Mishaps
<1>2. container' \in {"down", "up", "hung"} /\ starts' \in Nat /\ starts' >= starts
  BY DEF TypeOK, Answered, Running
<1>4. fromDisk' \in BOOLEAN
  <2>1. CASE Running
    BY <2>1 DEF TypeOK, Answered
  <2>2. CASE ~Running
    BY <2>2 DEF Answered
  <2> QED BY <2>1, <2>2
<1>3. ASSUME NEW id \in Nat, Gone(id) PROVE Gone(id)'
  BY <1>3 DEF TypeOK, Answered, Gone, Running
<1> QED BY <1>1, <1>2, <1>3, <1>4 DEF MachineStep, MachineTyped

LEMMA FailedStep ==
  ASSUME TypeOK, UNCHANGED machine, left' \in [Bound -> Nat], left'["destroy"] <= left["destroy"]
  PROVE  MachineStep
  BY DEF TypeOK, MachineStep, MachineTyped, machine, Gone, Running

\* Nothing but the container's own steps is left of the budget.
LEMMA SameStep == ASSUME TypeOK, UNCHANGED machine, left' = left PROVE MachineStep
<1>1. left \in [Bound -> Nat] /\ left["destroy"] \in Nat
  BY DEF TypeOK, Bound, Mishaps
<1> QED BY <1>1, FailedStep

LEMMA MishapStep ==
  ASSUME TypeOK, NEW m \in Mishaps, Mishap(m), UNCHANGED machine PROVE MachineStep
  BY MishapTyped, FailedStep

LEMMA CallFailsStep ==
  ASSUME TypeOK, NEW id, CallFails(id) PROVE MachineStep /\ UNCHANGED machine
<1>1. UNCHANGED machine
  BY DEF CallFails
<1>2. CASE left' = left
  BY <1>1, <1>2, SameStep
<1>3. CASE Mishap("call")
  BY <1>1, <1>3, MishapStep DEF Mishaps
<1> QED BY <1>1, <1>2, <1>3 DEF CallFails

\* A destroy takes the container away, unless it fails.
LEMMA DestroysStep ==
  ASSUME TypeOK, Destroys
  PROVE  /\ MachineStep /\ starts' = starts
         /\ left'["destroy"] = left["destroy"] => container' = "down"
<1>1. CASE container' = "down" /\ UNCHANGED <<starts, home, ready, fromDisk, left>>
  <2>1. left \in [Bound -> Nat] /\ left["destroy"] \in Nat
    BY DEF TypeOK, Bound, Mishaps
  <2> QED BY <1>1, <2>1 DEF TypeOK, MachineStep, MachineTyped, Gone, Running
<1>2. CASE Mishap("destroy") /\ UNCHANGED machine
  <2>1. left'["destroy"] < left["destroy"] /\ left["destroy"] \in Nat /\ left'["destroy"] \in Nat
    BY <1>2, MishapTyped DEF TypeOK, Bound, Mishaps
  <2>2. MachineStep
    BY <1>2, MishapStep DEF Mishaps
  <2> QED BY <1>2, <2>1, <2>2 DEF machine
<1> QED BY <1>1, <1>2 DEF Destroys
-----------------------------------------------------------------------------
(* Boots.                                                                      *)

UsesTyped ==
  /\ pc \in [Use -> {"idle", "waiting", "op", "probing", "announcing", "destroying", "done"}]
  /\ stage \in [Use -> {"first", "before", "after"}]
  /\ ran \in [Use -> 0..2] /\ on \in [Use -> Nat]
  /\ worked \in [Use -> Home \cup {None}]
  /\ result \in [Use -> {"none", "ok", "error", "lost"}]

ObjectTyped ==
  /\ disk \in Home \cup {None} /\ expected \in BOOLEAN /\ verified \in BOOLEAN
  /\ boot \in Boot \cup {None}
  /\ leaving \in {"no", "saving", "stopping"} /\ owed \in BOOLEAN

LEMMA TypeParts == ASSUME MachineTyped', UsesTyped', ObjectTyped' PROVE TypeOK'
  BY DEF TypeOK, MachineTyped, UsesTyped, ObjectTyped, Bound

LEMMA DestroysLeft ==
  ASSUME TypeOK, MachineStep, left["destroy"] <= Budget["destroy"]
  PROVE  /\ left'["destroy"] <= Budget["destroy"]
         /\ left'["destroy"] = Budget["destroy"] =>
              left["destroy"] = Budget["destroy"] /\ left'["destroy"] = left["destroy"]
<1>1. left["destroy"] \in Nat /\ left'["destroy"] \in Nat /\ Budget["destroy"] \in Nat
  BY BudgetAssumption DEF TypeOK, MachineStep, MachineTyped, Bound, Mishaps
<1> QED BY <1>1 DEF MachineStep

\* What holds of a use holds after a step that leaves it alone.
LEMMA Elsewhere ==
  ASSUME TypeOK, UseInv, MachineStep, NEW u \in Use,
         pc'[u] = pc[u], stage'[u] = stage[u], ran'[u] = ran[u], on'[u] = on[u],
         result'[u] = result[u]
  PROVE  BegunOf(u)' /\ ReplacedOf(u)'
<1>1. BegunOf(u) /\ ReplacedOf(u) /\ on[u] \in Nat /\ starts \in Nat /\ starts' \in Nat
  BY DEF UseInv, TypeOK, MachineStep, MachineTyped
<1>2. BegunOf(u)'
  BY <1>1 DEF BegunOf, Before
<1>3. left'["destroy"] = Budget["destroy"] => left["destroy"] = Budget["destroy"]
  BY DestroysLeft DEF UseInv
<1>4. Gone(on[u]) => Gone(on[u])'
  BY <1>1 DEF MachineStep
<1>5. starts' >= starts
  BY DEF MachineStep
<1>6. ReplacedOf(u)'
  BY <1>1, <1>3, <1>4, <1>5 DEF ReplacedOf, Gone, Running
<1> QED BY <1>2, <1>6

LEMMA UsesKept ==
  ASSUME TypeOK, UseInv, MachineStep, UNCHANGED uses PROVE UsesTyped' /\ UseInv'
<1>1. UsesTyped'
  BY DEF TypeOK, UsesTyped, uses
<1>2. \A u \in Use : BegunOf(u)' /\ ReplacedOf(u)'
  BY Elsewhere DEF uses
<1> QED BY <1>1, <1>2, DestroysLeft DEF UseInv

LEMMA TargetTyped == ASSUME NEW running, NEW id \in Nat PROVE Target(running, id) \in Nat
  BY DEF Target

Steps == {"announce", "marker", "measure", "restore", "destroy", "init", "end"}

LEMMA GotoTyped ==
  ASSUME NEW step \in Steps, boot \in Boot, starts' \in Nat, Goto(step) PROVE boot' \in Boot
<1>1. Target(container' # "down", starts') \in Nat
  BY TargetTyped
<1> QED BY <1>1 DEF Goto, Boot, Steps

LEMMA NewBootTyped ==
  ASSUME TypeOK, NEW running PROVE NewBoot(running) \in Boot
<1>1. Target(running, starts) \in Nat
  BY TargetTyped DEF TypeOK
<1> QED BY <1>1 DEF NewBoot, Boot

\* A boot that goes on after its announcement finds nothing owed.
LEMMA BootGoesOn ==
  ASSUME WorkspaceInv, NEW step \in Steps \ {"announce"}, BootStep(step), MachineStep, boot' \in Boot,
         UNCHANGED <<expected, owed>>
  PROVE  WorkspaceInv'
<1>0. TypeOK /\ UseInv /\ OwedInv
  BY DEF WorkspaceInv
<1>1. boot # None /\ boot.at = step /\ UNCHANGED <<uses, verified, disk, leaving>>
  BY DEF BootStep, At
<1>2. UsesTyped' /\ UseInv'
  BY <1>0, <1>1, UsesKept
<1>3. ObjectTyped'
  BY <1>0, <1>1 DEF TypeOK, ObjectTyped
<1>4. ~owed'
  BY <1>0, <1>1 DEF OwedInv
<1>5. OwedInv'
  BY <1>0, <1>1, <1>4 DEF OwedInv, uses
<1>6. MachineTyped'
  BY DEF MachineStep
<1> QED BY <1>2, <1>3, <1>5, <1>6, TypeParts DEF WorkspaceInv

LEMMA AtTyped == ASSUME TypeOK, NEW step, At(step) PROVE boot \in Boot /\ starts \in Nat /\ boot.at = step
  BY DEF TypeOK, At

LEMMA BootAnnouncesKeeps == ASSUME WorkspaceInv, BootAnnounces PROVE WorkspaceInv'
<1>0. TypeOK /\ UseInv /\ OwedInv
  BY DEF WorkspaceInv
<1>1. /\ UNCHANGED <<machine, expected, left>> /\ Goto("marker") /\ owed' = FALSE
      /\ boot # None /\ UNCHANGED <<uses, verified, disk, leaving>>
  BY DEF BootAnnounces, BootStep, At
<1>2. MachineStep
  BY <1>0, <1>1, SameStep
<1>3. boot \in Boot /\ boot' \in Boot
  BY <1>0, <1>1, <1>2, GotoTyped DEF TypeOK, Steps, MachineStep, MachineTyped
<1>4. UsesTyped' /\ UseInv'
  BY <1>0, <1>1, <1>2, UsesKept
<1>5. ObjectTyped' /\ MachineTyped'
  BY <1>0, <1>1, <1>2, <1>3 DEF TypeOK, ObjectTyped, MachineStep
<1>6. OwedInv'
  BY <1>0, <1>1 DEF OwedInv, uses
<1> QED BY <1>4, <1>5, <1>6, TypeParts DEF WorkspaceInv

LEMMA AnsweredHere ==
  ASSUME TypeOK, Answered, home' = Found, ready' = FoundReady, left' = left PROVE MachineStep
  BY FoundTyped, AnsweredStep

LEMMA BootRecycledKeeps == ASSUME WorkspaceInv, BootRecycled PROVE WorkspaceInv'
<1>0. TypeOK /\ BootStep("marker") /\ boot \in Boot
  BY AtTyped DEF WorkspaceInv, BootRecycled, BootStep
<1>1. MachineStep
  BY <1>0, AnsweredHere, CallFailsStep DEF BootRecycled
<1>2. boot' \in Boot
  <2>1. PICK step \in Steps : Goto(step)
    BY DEF BootRecycled, Steps
  <2> QED BY <1>0, <1>1, <2>1, GotoTyped DEF MachineStep, MachineTyped
<1>3. UNCHANGED <<expected, owed>>
  BY DEF BootRecycled
<1> QED BY <1>0, <1>1, <1>2, <1>3, BootGoesOn DEF Steps

LEMMA BootMeasuresKeeps == ASSUME WorkspaceInv, BootMeasures PROVE WorkspaceInv'
<1>0. TypeOK /\ BootStep("measure") /\ boot \in Boot
  BY AtTyped DEF WorkspaceInv, BootMeasures, BootStep
<1>1. MachineStep
  BY <1>0, AnsweredHere, CallFailsStep DEF BootMeasures
<1>2. boot' \in Boot
  <2>1. PICK step \in Steps : Goto(step)
    BY DEF BootMeasures, Steps
  <2> QED BY <1>0, <1>1, <2>1, GotoTyped DEF MachineStep, MachineTyped
<1>3. UNCHANGED <<expected, owed>>
  BY DEF BootMeasures
<1> QED BY <1>0, <1>1, <1>2, <1>3, BootGoesOn DEF Steps

LEMMA BootRestoresKeeps == ASSUME WorkspaceInv, BootRestores PROVE WorkspaceInv'
<1>0. TypeOK /\ BootStep("restore") /\ boot \in Boot
  BY AtTyped DEF WorkspaceInv, BootRestores, BootStep
<1>1. MachineStep
  <2>1. home' \in Home /\ ready' \in BOOLEAN
    BY <1>0, FoundTyped DEF BootRestores, Home
  <2> QED BY <1>0, <2>1, AnsweredStep DEF BootRestores
<1>2. boot' \in Boot
  BY <1>0, <1>1, GotoTyped DEF BootRestores, Steps, MachineStep, MachineTyped
<1> QED BY <1>0, <1>1, <1>2, BootGoesOn DEF BootRestores, Steps

LEMMA BootRestoreFailsKeeps == ASSUME WorkspaceInv, BootRestoreFails PROVE WorkspaceInv'
<1>0. TypeOK /\ BootStep("restore") /\ boot \in Boot /\ starts \in Nat
  BY AtTyped DEF WorkspaceInv, BootRestoreFails, BootStep
<1>1. MachineStep
  BY <1>0, CallFailsStep DEF BootRestoreFails
<1>2. boot' \in Boot
  <2>1. CASE ~boot.destroyed
    BY <1>0, <1>1, <2>1, GotoTyped DEF BootRestoreFails, Steps, MachineStep, MachineTyped
  <2>2. CASE boot.destroyed /\ boot.candidate < Published
    <3>1. boot.candidate + 1 \in 1..3 /\ Target(Running, starts) \in Nat
      BY <1>0, <2>2, PublishedAssumption, TargetTyped DEF Boot
    <3>2. boot' = [boot EXCEPT !.candidate = boot.candidate + 1, !.on = Target(Running, starts)]
      BY <2>2 DEF BootRestoreFails
    <3> QED BY <1>0, <3>1, <3>2 DEF Boot
  <2>3. CASE boot.destroyed /\ ~(boot.candidate < Published)
    BY <1>0, <1>1, <2>3, GotoTyped DEF BootRestoreFails, Steps, MachineStep, MachineTyped
  <2> QED BY <2>1, <2>2, <2>3
<1> QED BY <1>0, <1>1, <1>2, BootGoesOn DEF BootRestoreFails, Steps

LEMMA BootDestroysKeeps == ASSUME WorkspaceInv, BootDestroys PROVE WorkspaceInv'
<1>0. TypeOK /\ BootStep("destroy") /\ boot \in Boot /\ starts \in Nat
  BY AtTyped DEF WorkspaceInv, BootDestroys, BootStep
<1>1. MachineStep
  BY <1>0, DestroysStep DEF BootDestroys
<1>2. boot' \in Boot
  <2>1. Target(container' # "down", starts) \in Nat
    BY <1>0, TargetTyped
  <2> QED BY <1>0, <2>1 DEF BootDestroys, Boot
<1> QED BY <1>0, <1>1, <1>2, BootGoesOn DEF BootDestroys, Steps

LEMMA BootInitsKeeps == ASSUME WorkspaceInv, BootInits PROVE WorkspaceInv'
<1>0. TypeOK /\ BootStep("init") /\ boot \in Boot
  BY AtTyped DEF WorkspaceInv, BootInits, BootStep
<1>1. MachineStep
  <2>1. home' \in Home /\ ready' \in BOOLEAN
    BY <1>0, FoundTyped DEF BootInits
  <2> QED BY <1>0, <2>1, AnsweredStep DEF BootInits
<1>2. boot' \in Boot
  BY <1>0, <1>1, GotoTyped DEF BootInits, Steps, MachineStep, MachineTyped
<1> QED BY <1>0, <1>1, <1>2, BootGoesOn DEF BootInits, Steps

\* A boot that ends lets all that wait for it go on.
LEMMA BootedKeeps ==
  ASSUME WorkspaceInv, NEW step \in Steps \ {"announce"}, At(step), MachineStep, Booted, owed' = owed
  PROVE  WorkspaceInv'
<1> DEFINE waiting == {u \in Use : pc[u] = "waiting"}
           working == {u \in waiting : stage[u] = "after" => MayRerun(u)}
           here == Target(container' # "down", starts')
<1>0. TypeOK /\ UseInv /\ OwedInv
  BY DEF WorkspaceInv
<1>1. boot # None /\ boot.at = step
  BY DEF At
<1>2. here \in Nat
  BY TargetTyped DEF MachineStep, MachineTyped
<1> HIDE DEF here
<1>3. /\ pc' = [u \in Use |-> IF u \in working THEN "op"
                             ELSE IF u \in waiting THEN "done" ELSE pc[u]]
      /\ result' = [u \in Use |-> IF u \in waiting \ working THEN "lost" ELSE result[u]]
      /\ ran' = [u \in Use |-> IF u \in working THEN ran[u] + 1 ELSE ran[u]]
      /\ on' = [u \in Use |-> IF u \in working THEN here ELSE on[u]]
      /\ UNCHANGED <<stage, worked, disk, leaving>>
      /\ boot' = None /\ expected' = TRUE /\ verified' = TRUE
  BY DEF Booted, Operate, here
<1>4. \A u \in waiting : ran[u] = Before(u) /\ ran[u] \in 0..1 /\ result[u] = "none"
  BY <1>0 DEF UseInv, BegunOf, ReplacedOf, Before, TypeOK
<1>5. UsesTyped'
  <2>1. ASSUME NEW u \in Use
        PROVE  /\ pc'[u] \in {"idle", "waiting", "op", "probing", "announcing", "destroying", "done"}
               /\ ran'[u] \in 0..2 /\ on'[u] \in Nat /\ result'[u] \in {"none", "ok", "error", "lost"}
    BY <1>0, <1>2, <1>3, <1>4 DEF TypeOK
  <2> HIDE DEF working
  <2> QED BY <1>0, <1>3, <2>1 DEF TypeOK, UsesTyped
<1>6. ASSUME NEW u \in Use PROVE BegunOf(u)' /\ ReplacedOf(u)'
  <2>1. CASE u \in working
    <3>1. pc'[u] = "op" /\ ran'[u] = Before(u) + 1 /\ result'[u] = "none" /\ stage' = stage
      BY <1>3, <1>4, <2>1
    <3>2. stage[u] = "after" => u \notin SideEffecting
      BY <2>1 DEF MayRerun
    <3> QED BY <3>1, <3>2 DEF BegunOf, ReplacedOf, Before
  <2>2. CASE u \in waiting \ working
    <3>1. pc'[u] = "done" /\ ran'[u] = ran[u] /\ on'[u] = on[u] /\ result'[u] = "lost" /\ stage' = stage
      BY <1>3, <2>2
    <3>2. stage[u] = "after" /\ pc[u] = "waiting" /\ on[u] \in Nat
      BY <1>0, <2>2 DEF TypeOK
    <3>3. left'["destroy"] = Budget["destroy"] => Gone(on[u])
      BY <1>0, <3>2, DestroysLeft DEF UseInv, ReplacedOf
    <3>4. Gone(on[u]) => Gone(on[u])'
      BY <3>1, <3>2 DEF MachineStep, Gone, Running
    <3>5. BegunOf(u)'
      BY <1>4, <2>2, <3>1 DEF BegunOf
    <3> QED BY <3>1, <3>3, <3>4, <3>5 DEF ReplacedOf
  <2>3. CASE u \notin waiting
    BY <1>0, <1>3, <2>3, Elsewhere
  <2> QED BY <2>1, <2>2, <2>3
<1>7. UseInv'
  BY <1>0, <1>6, DestroysLeft DEF UseInv
<1>8. ObjectTyped' /\ OwedInv'
  <2>1. ~owed'
    BY <1>0, <1>1 DEF OwedInv
  <2> QED BY <1>0, <1>3, <2>1 DEF TypeOK, ObjectTyped, OwedInv
<1>9. MachineTyped'
  BY DEF MachineStep
<1> QED BY <1>5, <1>7, <1>8, <1>9, TypeParts DEF WorkspaceInv

LEMMA BootEndsKeeps == ASSUME WorkspaceInv, BootReady \/ BootEnds PROVE WorkspaceInv'
<1>0. TypeOK
  BY DEF WorkspaceInv
<1>1. CASE BootReady
  <2>1. MachineStep
    BY <1>0, <1>1, AnsweredHere DEF BootReady
  <2>2. At("marker") /\ Booted /\ owed' = owed
    BY <1>1 DEF BootReady
  <2> QED BY <2>1, <2>2, BootedKeeps DEF Steps
<1>2. CASE BootEnds
  <2>1. MachineStep
    BY <1>0, <1>2, SameStep DEF BootEnds
  <2>2. At("end") /\ Booted /\ owed' = owed
    BY <1>2 DEF BootEnds
  <2> QED BY <2>1, <2>2, BootedKeeps DEF Steps
<1> QED BY <1>1, <1>2

\* One that fails sends them to look at the container, or to their callers.
LEMMA BootFailedKeeps ==
  ASSUME WorkspaceInv, NEW step \in Steps \ {"announce"}, At(step), MachineStep, UNCHANGED machine,
         BootFailed, owed' = owed
  PROVE  WorkspaceInv'
<1> DEFINE waiting == {u \in Use : pc[u] = "waiting"}
           trying == {u \in waiting : stage[u] = "first"}
<1>0. TypeOK /\ UseInv /\ OwedInv
  BY DEF WorkspaceInv
<1>1. boot # None /\ boot.at = step /\ starts \in Nat /\ starts' = starts
  BY <1>0 DEF At, TypeOK, machine
<1>3. /\ pc' = [u \in Use |-> IF u \in trying THEN IF Running THEN "probing" ELSE "announcing"
                             ELSE IF u \in waiting THEN "done" ELSE pc[u]]
      /\ stage' = [u \in Use |-> IF u \in trying /\ ~Running THEN "before" ELSE stage[u]]
      /\ result' = [u \in Use |-> IF u \in waiting \ trying THEN "error" ELSE result[u]]
      /\ on' = [u \in Use |-> IF u \in trying THEN starts ELSE on[u]]
      /\ UNCHANGED <<ran, worked, expected, verified, disk, leaving>>
      /\ boot' = None
  BY DEF BootFailed
<1>4. \A u \in waiting : ran[u] = Before(u) /\ ran[u] \in 0..1 /\ result[u] = "none"
  BY <1>0 DEF UseInv, BegunOf, ReplacedOf, Before, TypeOK
<1>5. UsesTyped'
  <2>1. ASSUME NEW u \in Use
        PROVE  /\ pc'[u] \in {"idle", "waiting", "op", "probing", "announcing", "destroying", "done"}
               /\ stage'[u] \in {"first", "before", "after"}
               /\ on'[u] \in Nat /\ result'[u] \in {"none", "ok", "error", "lost"}
    BY <1>0, <1>1, <1>3 DEF TypeOK
  <2> HIDE DEF trying
  <2> QED BY <1>0, <1>3, <2>1 DEF TypeOK, UsesTyped
<1>6. ASSUME NEW u \in Use PROVE BegunOf(u)' /\ ReplacedOf(u)'
  <2>1. CASE u \in trying
    <3>1. /\ pc'[u] = IF Running THEN "probing" ELSE "announcing"
          /\ stage'[u] = IF Running THEN "first" ELSE "before"
          /\ ran'[u] = 0 /\ on'[u] = starts /\ result'[u] = "none"
      BY <1>3, <1>4, <2>1 DEF Before
    <3> QED BY <1>1, <3>1 DEF BegunOf, ReplacedOf, Before
  <2>2. CASE u \in waiting \ trying
    <3>1. pc'[u] = "done" /\ ran'[u] = ran[u] /\ result'[u] = "error"
      BY <1>3, <2>2
    <3> QED BY <1>4, <2>2, <3>1 DEF BegunOf, ReplacedOf
  <2>3. CASE u \notin waiting
    BY <1>0, <1>3, <2>3, Elsewhere
  <2> QED BY <2>1, <2>2, <2>3
<1>7. UseInv'
  BY <1>0, <1>6, DestroysLeft DEF UseInv
<1>8. ObjectTyped' /\ OwedInv'
  <2>1. ~owed'
    BY <1>0, <1>1 DEF OwedInv
  <2> QED BY <1>0, <1>3, <2>1 DEF TypeOK, ObjectTyped, OwedInv
<1>9. MachineTyped'
  BY DEF MachineStep
<1> QED BY <1>5, <1>7, <1>8, <1>9, TypeParts DEF WorkspaceInv

LEMMA BootFailsKeeps == ASSUME WorkspaceInv, BootCandidatesFail \/ BootInitFails PROVE WorkspaceInv'
<1>0. TypeOK
  BY DEF WorkspaceInv
<1>1. CASE BootCandidatesFail
  <2>1. At("restore") /\ Mishap("call") /\ UNCHANGED machine /\ BootFailed /\ owed' = owed
    BY <1>1 DEF BootCandidatesFail
  <2>2. MachineStep
    BY <1>0, <2>1, MishapStep DEF Mishaps
  <2> QED BY <2>1, <2>2, BootFailedKeeps DEF Steps
<1>2. CASE BootInitFails
  <2>1. At("init") /\ CallFails(boot.on) /\ BootFailed /\ owed' = owed
    BY <1>2 DEF BootInitFails
  <2>2. MachineStep /\ UNCHANGED machine
    BY <1>0, <2>1, CallFailsStep
  <2> QED BY <2>1, <2>2, BootFailedKeeps DEF Steps
<1> QED BY <1>1, <1>2
-----------------------------------------------------------------------------
(* Uses.                                                                       *)

\* A step of one use.
OneStep(u) ==
  \A v \in Use \ {u} : /\ pc'[v] = pc[v] /\ stage'[v] = stage[v] /\ ran'[v] = ran[v]
                       /\ on'[v] = on[v] /\ result'[v] = result[v]

LEMMA OneUse ==
  ASSUME TypeOK, UseInv, MachineStep, NEW u \in Use, OneStep(u), BegunOf(u)', ReplacedOf(u)'
  PROVE  UseInv'
<1>1. \A v \in Use \ {u} : BegunOf(v)' /\ ReplacedOf(v)'
  BY Elsewhere DEF OneStep
<1> QED BY <1>1, DestroysLeft DEF UseInv

LEMMA BeginKeeps == ASSUME WorkspaceInv, NEW u \in Use, Begin(u) PROVE WorkspaceInv'
<1>0. /\ TypeOK /\ UseInv /\ OwedInv
      /\ UNCHANGED <<machine, disk, expected, stage, worked, result, leaving, owed, left>>
      /\ pc[u] = "idle" /\ ran[u] = 0 /\ stage[u] = "first" /\ result[u] = "none" /\ starts \in Nat
  BY DEF WorkspaceInv, Begin, UseInv, BegunOf, ReplacedOf, TypeOK
<1>1. MachineStep
  BY <1>0, SameStep
<1>2. UsesTyped' /\ OneStep(u)
  BY <1>0 DEF Begin, Move, TypeOK, UsesTyped, OneStep
<1>3. \/ pc'[u] = "waiting" /\ ran'[u] = 0
      \/ pc'[u] = "op" /\ ran'[u] = 1
  BY <1>0 DEF Begin, Move, TypeOK
<1>4. BegunOf(u)' /\ ReplacedOf(u)'
  BY <1>0, <1>3 DEF BegunOf, ReplacedOf, Before
<1>5. UseInv'
  BY <1>0, <1>1, <1>2, <1>4, OneUse
<1>6. boot' \in Boot \cup {None} /\ verified' \in BOOLEAN
  <2>1. verified' = verified \/ verified' = FALSE
    BY DEF Begin, memory
  <2>2. verified' \in BOOLEAN
    BY <1>0, <2>1 DEF TypeOK
  <2>3. boot' = boot \/ boot' = NewBoot(Running)
    BY DEF Begin, memory
  <2>4. boot' \in Boot \cup {None}
    BY <1>0, <2>3, NewBootTyped DEF TypeOK
  <2> QED BY <2>2, <2>4
<1>7. ObjectTyped' /\ MachineTyped'
  BY <1>0, <1>1, <1>6 DEF TypeOK, ObjectTyped, MachineStep
<1>8. OwedInv'
  <2>1. verified' => expected'
    <3>1. verified' = verified \/ verified' = FALSE
      BY DEF Begin, memory
    <3> QED BY <1>0, <3>1 DEF OwedInv
  <2>2. boot' # None => \E v \in Use : pc'[v] = "waiting"
    <3>1. CASE pc'[u] = "waiting"
      BY <3>1
    <3>2. CASE boot = None /\ boot' = boot
      BY <3>2
    <3> QED BY <1>0, <3>1, <3>2 DEF Begin, Move, memory, TypeOK
  <2>3. ASSUME owed PROVE /\ expected' /\ ~Running'
                          /\ boot' = None \/ boot'.at = "announce"
                          /\ pc'[u] = "waiting"
    <3>1. expected /\ ~Running /\ (boot = None \/ boot.at = "announce")
      BY <1>0, <2>3 DEF OwedInv
    <3>2. NewBoot(Running).at = "announce"
      BY <3>1 DEF NewBoot
    <3>3. expected' /\ ~Running'
      BY <1>0, <3>1 DEF Running, machine
    <3> QED BY <1>0, <3>1, <3>2, <3>3 DEF Begin, Move, memory, TypeOK, IsAwake
  <2> QED BY <1>0, <1>2, <2>1, <2>2, <2>3 DEF OwedInv, OneStep
<1> QED BY <1>2, <1>5, <1>7, <1>8, TypeParts DEF WorkspaceInv

\* While a use is at work nothing is owed.
LEMMA Working ==
  ASSUME WorkspaceInv, NEW u \in Use, pc[u] \in {"op", "probing", "announcing", "destroying"},
         MachineStep, UsesTyped', OneStep(u), BegunOf(u)', ReplacedOf(u)',
         \/ UNCHANGED <<expected, verified>>
         \/ expected' = FALSE /\ verified' = FALSE,
         boot' = boot \/ (boot' \in Boot \cup {None} /\ pc'[u] = "waiting"),
         owed' = owed \/ owed' = FALSE, UNCHANGED <<disk, leaving>>
  PROVE  WorkspaceInv'
<1>0. TypeOK /\ UseInv /\ OwedInv
  BY DEF WorkspaceInv
<1>1. UseInv'
  BY <1>0, OneUse
<1>2. ObjectTyped' /\ MachineTyped'
  BY <1>0 DEF TypeOK, ObjectTyped, MachineStep
<1>3. ~owed'
  BY <1>0 DEF OwedInv
<1>4. verified' => expected'
  BY <1>0 DEF OwedInv
<1>5. ASSUME boot' # None PROVE \E v \in Use : pc'[v] = "waiting"
  <2>1. CASE pc'[u] = "waiting"
    BY <2>1
  <2>2. CASE boot' = boot
    <3>1. PICK v \in Use : pc[v] = "waiting"
      BY <1>0, <1>5, <2>2 DEF OwedInv
    <3>2. v # u /\ pc'[v] = pc[v]
      BY <3>1 DEF OneStep
    <3> QED BY <3>1, <3>2
  <2> QED BY <2>1, <2>2
<1> QED BY <1>1, <1>2, <1>3, <1>4, <1>5, TypeParts DEF WorkspaceInv, OwedInv

LEMMA WorkingTyped ==
  ASSUME WorkspaceInv, NEW u \in Use, pc[u] \in {"op", "probing", "announcing", "destroying"}
  PROVE  /\ TypeOK /\ result[u] = "none" /\ starts \in Nat /\ on[u] \in Nat
         /\ ran[u] \in 0..2 /\ BegunOf(u) /\ ReplacedOf(u)
  BY DEF WorkspaceInv, UseInv, ReplacedOf, TypeOK

LEMMA OpEndsKeeps == ASSUME WorkspaceInv, NEW u \in Use, OpEnds(u) PROVE WorkspaceInv'
<1>0. TypeOK /\ BegunOf(u) /\ ReplacedOf(u) /\ pc[u] = "op" /\ ran[u] \in 0..2
  BY WorkingTyped DEF OpEnds
<1>1. MachineStep
  BY <1>0, AnsweredHere DEF OpEnds
<1>2. /\ pc' = [pc EXCEPT ![u] = "done"] /\ result' = [result EXCEPT ![u] = "ok"]
      /\ worked' = [worked EXCEPT ![u] = Found]
      /\ UNCHANGED <<disk, expected, memory, stage, ran, on, leaving, owed, left>>
  BY DEF OpEnds, Tell, Move
<1>3. UsesTyped' /\ OneStep(u) /\ pc'[u] = "done" /\ result'[u] = "ok"
  BY <1>0, <1>2, FoundTyped DEF TypeOK, UsesTyped, OneStep
<1>4. u \in SideEffecting => ran[u] <= 1
  BY <1>0 DEF BegunOf, Before
<1>5. BegunOf(u)' /\ ReplacedOf(u)'
  BY <1>2, <1>3, <1>4 DEF BegunOf, ReplacedOf
<1> QED BY <1>0, <1>1, <1>2, <1>3, <1>5, Working DEF memory

LEMMA OpFailsKeeps == ASSUME WorkspaceInv, NEW u \in Use, OpFails(u) PROVE WorkspaceInv'
<1>0. /\ TypeOK /\ BegunOf(u) /\ ReplacedOf(u) /\ pc[u] = "op" /\ ran[u] \in 0..2
      /\ starts \in Nat /\ result[u] = "none"
  BY WorkingTyped DEF OpFails
<1>1. MachineStep /\ UNCHANGED machine
  BY <1>0, CallFailsStep DEF OpFails
<1>2. UNCHANGED <<disk, expected, memory, ran, worked, leaving, owed>>
  BY DEF OpFails
<1>3. starts' = starts
  BY <1>1 DEF machine
<1>4. CASE stage[u] = "after"
  <2>1. /\ pc' = [pc EXCEPT ![u] = "done"] /\ result' = [result EXCEPT ![u] = "error"]
        /\ UNCHANGED <<stage, on>>
    BY <1>4 DEF OpFails, Tell, Move
  <2>2. UsesTyped' /\ OneStep(u) /\ pc'[u] = "done" /\ result'[u] = "error"
    BY <1>0, <1>2, <2>1 DEF TypeOK, UsesTyped, OneStep
  <2>3. BegunOf(u)' /\ ReplacedOf(u)'
    BY <1>0, <1>2, <1>4, <2>2 DEF BegunOf, ReplacedOf, Before
  <2> QED BY <1>0, <1>1, <1>2, <2>2, <2>3, Working DEF memory
<1>5. CASE stage[u] # "after" /\ Running
  <2>1. /\ pc' = [pc EXCEPT ![u] = "probing"] /\ on' = [on EXCEPT ![u] = starts]
        /\ UNCHANGED <<stage, result>>
    BY <1>5 DEF OpFails, Move
  <2>2. UsesTyped' /\ OneStep(u) /\ pc'[u] = "probing" /\ result'[u] = "none" /\ on'[u] = starts
    BY <1>0, <1>2, <2>1 DEF TypeOK, UsesTyped, OneStep
  <2>3. BegunOf(u)' /\ ReplacedOf(u)'
    BY <1>0, <1>2, <1>3, <1>5, <2>1, <2>2 DEF BegunOf, ReplacedOf, Before
  <2> QED BY <1>0, <1>1, <1>2, <2>2, <2>3, Working DEF memory
<1>6. CASE stage[u] # "after" /\ ~Running
  <2>1. /\ pc' = [pc EXCEPT ![u] = "announcing"] /\ on' = [on EXCEPT ![u] = starts]
        /\ stage' = [stage EXCEPT ![u] = "after"] /\ UNCHANGED result
    BY <1>6 DEF OpFails, Move
  <2>2. /\ UsesTyped' /\ OneStep(u)
        /\ pc'[u] = "announcing" /\ result'[u] = "none" /\ on'[u] = starts /\ stage'[u] = "after"
    BY <1>0, <1>2, <2>1 DEF TypeOK, UsesTyped, OneStep
  <2>3. BegunOf(u)' /\ ReplacedOf(u)'
    BY <1>0, <1>2, <1>3, <1>6, <2>2 DEF BegunOf, ReplacedOf, Before
  <2> QED BY <1>0, <1>1, <1>2, <2>2, <2>3, Working DEF memory
<1> QED BY <1>4, <1>5, <1>6

LEMMA ProbeAnsweredKeeps == ASSUME WorkspaceInv, NEW u \in Use, ProbeAnswered(u) PROVE WorkspaceInv'
<1>0. TypeOK /\ BegunOf(u) /\ ReplacedOf(u) /\ pc[u] = "probing" /\ ran[u] \in 0..2
  BY WorkingTyped DEF ProbeAnswered
<1>1. MachineStep
  BY <1>0, AnsweredHere DEF ProbeAnswered
<1>2. /\ pc' = [pc EXCEPT ![u] = "done"] /\ result' = [result EXCEPT ![u] = "error"]
      /\ UNCHANGED <<disk, expected, memory, stage, ran, on, worked, leaving, owed, left>>
  BY DEF ProbeAnswered, Tell, Move
<1>3. UsesTyped' /\ OneStep(u) /\ pc'[u] = "done" /\ result'[u] = "error"
  BY <1>0, <1>2 DEF TypeOK, UsesTyped, OneStep
<1>4. BegunOf(u)' /\ ReplacedOf(u)'
  BY <1>0, <1>2, <1>3 DEF BegunOf, ReplacedOf
<1> QED BY <1>0, <1>1, <1>2, <1>3, <1>4, Working DEF memory

LEMMA ProbeFailsKeeps == ASSUME WorkspaceInv, NEW u \in Use, ProbeFails(u) PROVE WorkspaceInv'
<1>0. /\ TypeOK /\ BegunOf(u) /\ ReplacedOf(u) /\ pc[u] = "probing" /\ ran[u] \in 0..2
      /\ starts \in Nat /\ on[u] \in Nat /\ result[u] = "none"
  BY WorkingTyped DEF ProbeFails
<1>1. MachineStep
  BY <1>0, CallFailsStep DEF ProbeFails
<1>2. /\ pc' = [pc EXCEPT ![u] = "announcing"]
      /\ stage' = [stage EXCEPT ![u] = IF ran[u] = 0 THEN "before" ELSE "after"]
      /\ UNCHANGED <<disk, expected, memory, ran, on, worked, result, leaving, owed>>
  BY DEF ProbeFails, Move
<1>3. /\ UsesTyped' /\ OneStep(u) /\ pc'[u] = "announcing"
      /\ stage'[u] = IF ran[u] = 0 THEN "before" ELSE "after"
  BY <1>0, <1>2 DEF TypeOK, UsesTyped, OneStep
<1>4. starts' >= starts /\ starts' \in Nat /\ on[u] <= starts /\ ran[u] <= 1
  BY <1>0, <1>1 DEF MachineStep, MachineTyped, BegunOf, ReplacedOf
<1>5. BegunOf(u)' /\ ReplacedOf(u)'
  BY <1>0, <1>2, <1>3, <1>4 DEF BegunOf, ReplacedOf, Before
<1> QED BY <1>0, <1>1, <1>2, <1>3, <1>5, Working DEF memory

LEMMA AnnounceKeeps == ASSUME WorkspaceInv, NEW u \in Use, Announce(u) PROVE WorkspaceInv'
<1>0. /\ TypeOK /\ BegunOf(u) /\ ReplacedOf(u) /\ pc[u] = "announcing" /\ ran[u] \in 0..2
      /\ starts \in Nat /\ result[u] = "none"
  BY WorkingTyped DEF Announce
<1>1. MachineStep
  BY <1>0, SameStep DEF Announce
<1>2. /\ pc' = [pc EXCEPT ![u] = "destroying"]
      /\ expected' = FALSE /\ verified' = FALSE /\ owed' = FALSE
      /\ UNCHANGED <<machine, disk, boot, stage, ran, on, worked, result, leaving, left>>
  BY DEF Announce, Move
<1>3. UsesTyped' /\ OneStep(u) /\ pc'[u] = "destroying"
  BY <1>0, <1>2 DEF TypeOK, UsesTyped, OneStep
<1>4. BegunOf(u)' /\ ReplacedOf(u)'
  BY <1>0, <1>2, <1>3 DEF BegunOf, ReplacedOf, Before, machine
<1> QED BY <1>0, <1>1, <1>2, <1>3, <1>4, Working

LEMMA ReplaceKeeps == ASSUME WorkspaceInv, NEW u \in Use, Replace(u) PROVE WorkspaceInv'
<1>0. /\ TypeOK /\ BegunOf(u) /\ ReplacedOf(u) /\ pc[u] = "destroying" /\ ran[u] \in 0..2
      /\ starts \in Nat /\ on[u] \in Nat /\ result[u] = "none" /\ UseInv
  BY WorkingTyped DEF Replace, WorkspaceInv
<1>1. /\ MachineStep /\ starts' = starts
      /\ left'["destroy"] = left["destroy"] => container' = "down"
  BY <1>0, DestroysStep DEF Replace
<1>2. /\ pc' = [pc EXCEPT ![u] = "waiting"]
      /\ boot' = IF boot = None THEN NewBoot(container' # "down") ELSE boot
      /\ UNCHANGED <<disk, expected, verified, stage, ran, on, worked, result, leaving, owed>>
  BY DEF Replace, Move
<1>3. UsesTyped' /\ OneStep(u) /\ pc'[u] = "waiting"
  BY <1>0, <1>2 DEF TypeOK, UsesTyped, OneStep
<1>4. left'["destroy"] = Budget["destroy"] => Gone(on[u])'
  <2>1. left'["destroy"] = Budget["destroy"] => container' = "down"
    BY <1>0, <1>1, DestroysLeft DEF UseInv
  <2>2. on'[u] = on[u] /\ on[u] <= starts
    BY <1>0, <1>2 DEF ReplacedOf
  <2> QED BY <1>0, <1>1, <2>1, <2>2 DEF Gone, Running
<1>5. BegunOf(u)' /\ ReplacedOf(u)'
  BY <1>0, <1>2, <1>3, <1>4 DEF BegunOf, ReplacedOf, Before
<1>6. boot' \in Boot \cup {None}
  BY <1>0, <1>2, NewBootTyped DEF TypeOK
<1> QED BY <1>0, <1>1, <1>2, <1>3, <1>5, <1>6, Working

-----------------------------------------------------------------------------
(* The end of a container, and of the object.                                  *)

\* A step that no use takes part in.
LEMMA NoUse ==
  ASSUME WorkspaceInv, MachineStep, UNCHANGED uses,
         disk' \in Home \cup {None}, boot' = boot, leaving' \in {"no", "saving", "stopping"},
         \/ UNCHANGED <<expected, verified>>
         \/ expected' = FALSE /\ verified' = FALSE,
         \/ owed' = FALSE
         \/ owed' = owed /\ expected' = expected /\ (~Running => ~Running')
         \/ owed' = (owed \/ (verified /\ Quiet)) /\ expected' = expected /\ ~Running'
  PROVE  WorkspaceInv'
<1>0. TypeOK /\ UseInv /\ OwedInv
  BY DEF WorkspaceInv
<1>1. UsesTyped' /\ UseInv'
  BY <1>0, UsesKept
<1>2. owed' \in BOOLEAN
  BY <1>0 DEF TypeOK, Quiet
<1>3. ObjectTyped' /\ MachineTyped'
  BY <1>0, <1>2 DEF TypeOK, ObjectTyped, MachineStep
<1>4. verified' => expected'
  BY <1>0 DEF OwedInv
<1>5. boot' # None => \E u \in Use : pc'[u] = "waiting"
  BY <1>0 DEF OwedInv, uses
<1>6. ASSUME owed' PROVE /\ expected' /\ ~Running'
                         /\ boot' = None \/ boot'.at = "announce"
                         /\ \A u \in Use : pc'[u] \in {"idle", "waiting", "done"}
  <2>1. CASE owed
    BY <1>0, <1>6, <2>1 DEF OwedInv, uses
  <2>2. CASE ~owed
    <3>1. verified /\ Quiet /\ expected' = expected /\ ~Running'
      BY <1>6, <2>2
    <3>2. boot = None
      BY <1>0, <3>1 DEF OwedInv, Quiet
    <3> QED BY <1>0, <3>1, <3>2 DEF OwedInv, Quiet, uses
  <2> QED BY <2>1, <2>2
<1> QED BY <1>1, <1>3, <1>4, <1>5, <1>6, TypeParts DEF WorkspaceInv, OwedInv

LEMMA LeavingKeeps ==
  ASSUME WorkspaceInv, ActivityExpires \/ PauseSaves \/ StopContainer \/ Left PROVE WorkspaceInv'
<1>0. /\ TypeOK /\ disk \in Home \cup {None} /\ home \in Home
      /\ leaving \in {"no", "saving", "stopping"}
  BY DEF WorkspaceInv, TypeOK
<1>1. CASE ActivityExpires
  <2>1. MachineStep
    BY <1>0, <1>1, MishapStep DEF ActivityExpires, Mishaps
  <2> QED BY <1>0, <1>1, <2>1, NoUse DEF ActivityExpires, memory, machine, Running
<1>2. CASE PauseSaves \/ StopContainer
  <2>1. Leaves /\ (left' = left \/ Mishap("call") \/ Mishap("pause"))
    BY <1>2 DEF PauseSaves, StopContainer
  <2>2. MachineStep
    BY <1>0, <2>1, MishapStep, SameStep DEF Leaves, Mishaps
  <2>3. disk' \in Home \cup {None}
    BY <1>0, <1>2 DEF PauseSaves, StopContainer
  <2> QED BY <2>1, <2>2, <2>3, NoUse DEF Leaves
<1>3. CASE Left
  <2>1. MachineStep /\ (~Running => ~Running')
    BY <1>0, <1>3, DestroysStep DEF Left, Destroys, Running, machine
  <2> QED BY <1>0, <1>3, <2>1, NoUse DEF Left, memory
<1> QED BY <1>1, <1>2, <1>3

LEMMA StopsKeeps == ASSUME WorkspaceInv, ContainerStops \/ ContainerHangs PROVE WorkspaceInv'
<1>0. /\ TypeOK /\ disk \in Home \cup {None} /\ leaving \in {"no", "saving", "stopping"}
  BY DEF WorkspaceInv, TypeOK
<1>1. CASE ContainerStops
  <2>1. MachineStep
    <3>1. left' \in [Bound -> Nat] /\ left'["destroy"] <= left["destroy"]
      BY <1>0, <1>1, MishapTyped DEF ContainerStops, Mishaps
    <3> QED BY <1>0, <1>1, <3>1 DEF ContainerStops, TypeOK, MachineStep, MachineTyped, Gone, Running
  <2>2. UNCHANGED uses
    BY <1>1 DEF ContainerStops
  <2> QED BY <1>0, <1>1, <2>1, <2>2, NoUse DEF ContainerStops, memory, Running
<1>2. CASE ContainerHangs
  <2>1. MachineStep
    <3>1. left' \in [Bound -> Nat] /\ left'["destroy"] <= left["destroy"]
      BY <1>0, <1>2, MishapTyped DEF ContainerHangs, Mishaps
    <3> QED BY <1>0, <1>2, <3>1 DEF ContainerHangs, TypeOK, MachineStep, MachineTyped, Gone, Running
  <2> QED BY <1>0, <1>2, <2>1, NoUse DEF ContainerHangs, memory, Running
<1> QED BY <1>1, <1>2

LEMMA RestartKeeps == ASSUME WorkspaceInv, ObjectRestarts PROVE WorkspaceInv'
<1>0. TypeOK /\ UseInv /\ OwedInv
  BY DEF WorkspaceInv
<1>1. MachineStep
  BY <1>0, MishapStep DEF ObjectRestarts, Mishaps
<1>2. /\ verified' = FALSE /\ boot' = None /\ leaving' = "no"
      /\ pc' = [u \in Use |-> IF pc[u] = "idle" THEN "idle" ELSE "done"]
      /\ result' = [u \in Use |-> IF pc[u] \in {"idle", "done"} THEN result[u] ELSE "error"]
      /\ UNCHANGED <<machine, disk, expected, stage, ran, on, worked, owed>>
  BY DEF ObjectRestarts
<1>3. UsesTyped'
  BY <1>0, <1>2 DEF TypeOK, UsesTyped
<1>4. ASSUME NEW u \in Use PROVE BegunOf(u)' /\ ReplacedOf(u)'
  <2>0. BegunOf(u) /\ ReplacedOf(u) /\ ran[u] \in 0..2
    BY <1>0 DEF UseInv, TypeOK
  <2>1. CASE pc[u] \in {"idle", "done"}
    BY <1>0, <1>1, <1>2, <2>1, Elsewhere
  <2>2. CASE pc[u] \notin {"idle", "done"}
    <3>1. pc'[u] = "done" /\ result'[u] = "error" /\ ran'[u] = ran[u]
      BY <1>2, <2>2
    <3>2. u \in SideEffecting => ran[u] <= 1
      BY <1>0, <2>0, <2>2 DEF BegunOf, Before, TypeOK
    <3> QED BY <3>1, <3>2 DEF BegunOf, ReplacedOf
  <2> QED BY <2>1, <2>2
<1>5. UseInv'
  BY <1>0, <1>1, <1>4, DestroysLeft DEF UseInv
<1>6. ObjectTyped' /\ MachineTyped'
  BY <1>0, <1>1, <1>2 DEF TypeOK, ObjectTyped, MachineStep
<1>7. OwedInv'
  BY <1>0, <1>2 DEF OwedInv, machine, Running
<1> QED BY <1>3, <1>5, <1>6, <1>7, TypeParts DEF WorkspaceInv
-----------------------------------------------------------------------------
LEMMA WorkspaceStarts == Init => WorkspaceInv
<1> SUFFICES ASSUME Init PROVE WorkspaceInv
  OBVIOUS
<1>1. TypeOK
  <2>1. /\ pc \in [Use -> {"idle", "waiting", "op", "probing", "announcing", "destroying", "done"}]
        /\ stage \in [Use -> {"first", "before", "after"}]
        /\ ran \in [Use -> 0..2] /\ on \in [Use -> Nat] /\ worked \in [Use -> Home \cup {None}]
        /\ result \in [Use -> {"none", "ok", "error", "lost"}]
    BY DEF Init
  <2>2. left \in [Mishaps \cup {"any"} -> Nat]
    BY BudgetAssumption DEF Init
  <2> QED BY <2>1, <2>2 DEF Init, TypeOK, Home
<1>2. UseInv
  <2>1. left["destroy"] <= Budget["destroy"]
    BY BudgetAssumption DEF Init, Mishaps
  <2> QED BY <2>1 DEF Init, UseInv, BegunOf, ReplacedOf, Before
<1>3. OwedInv
  BY DEF Init, OwedInv
<1> QED BY <1>1, <1>2, <1>3 DEF WorkspaceInv

LEMMA WorkspaceStutters == ASSUME WorkspaceInv, UNCHANGED vars PROVE WorkspaceInv'
<1>1. TypeOK /\ UNCHANGED machine /\ left' = left
  BY DEF WorkspaceInv, vars, machine
<1>2. MachineStep
  BY <1>1, SameStep
<1>3. disk \in Home \cup {None} /\ leaving \in {"no", "saving", "stopping"}
  BY <1>1 DEF TypeOK
<1> QED BY <1>2, <1>3, NoUse DEF vars, uses, Running

LEMMA WorkspaceStep == WorkspaceInv /\ [Next]_vars => WorkspaceInv'
<1> SUFFICES ASSUME WorkspaceInv, [Next]_vars PROVE WorkspaceInv'
  OBVIOUS
<1>1. CASE BootNext
  BY <1>1, BootAnnouncesKeeps, BootEndsKeeps, BootRecycledKeeps, BootMeasuresKeeps, BootRestoresKeeps,
     BootFailsKeeps, BootRestoreFailsKeeps, BootDestroysKeeps, BootInitsKeeps DEF BootNext
<1>2. ASSUME NEW u \in Use, Begin(u) \/ UseNext(u) PROVE WorkspaceInv'
  BY <1>2, BeginKeeps, OpEndsKeeps, OpFailsKeeps, ProbeAnsweredKeeps, ProbeFailsKeeps, AnnounceKeeps,
     ReplaceKeeps DEF UseNext
<1> QED BY <1>1, <1>2, LeavingKeeps, StopsKeeps, RestartKeeps, WorkspaceStutters DEF Next

\* The container, the boot and the uses are always well formed.
THEOREM TypeCorrect == Spec => []TypeOK
<1>1. WorkspaceInv => TypeOK
  BY DEF WorkspaceInv
<1> QED BY <1>1, WorkspaceStarts, WorkspaceStep, PTL DEF Spec

\* LostMeansGone, for any number of uses, snapshots and mishaps: a command with
\* side effects is begun once, and where its caller hears that it was lost, the
\* container it ran on is gone, as long as no destroy has failed.
THEOREM LostMeansGoneHolds == Spec => []LostMeansGone
<1>1. ASSUME WorkspaceInv PROVE LostMeansGone
  <2>1. \A u \in Use : u \in SideEffecting => ran[u] <= 1
    BY <1>1 DEF WorkspaceInv, UseInv, BegunOf, Before, TypeOK
  <2> QED BY <1>1, <2>1 DEF WorkspaceInv, UseInv, ReplacedOf, LostMeansGone
<1> QED BY <1>1, WorkspaceStarts, WorkspaceStep, PTL DEF Spec

\* StopIsAnnounced, for any number of uses and mishaps: after a silent stop no
\* operation runs before the loss is announced, also after a restart.
THEOREM StopIsAnnouncedHolds == Spec => []StopIsAnnounced
<1>1. WorkspaceInv => StopIsAnnounced
  BY DEF WorkspaceInv, OwedInv, StopIsAnnounced
<1> QED BY <1>1, WorkspaceStarts, WorkspaceStep, PTL DEF Spec

-----------------------------------------------------------------------------
(* The copy of a Pi chat.  The mark and the copy under way never run ahead of the rows.     *)

CopyInv ==
  /\ rows \in Seq(Nat) /\ through \in Nat /\ entries \in Nat
  /\ index \in [at : {"idle", "copy"}, next : Nat, last : Nat]
  /\ CopyIsPrefix
  /\ index.at = "copy" => index.next >= 1 /\ index.next <= Len(rows) + 1

\* A step that copies nothing may end a copy, or add to the conversation.
LEMMA NotCopying ==
  ASSUME CopyInv, UNCHANGED <<rows, through>>, entries' \in Nat, index' \in {index, IdleIndex}
  PROVE  CopyInv'
<1>1. CASE index' = index
  BY <1>1 DEF CopyInv, CopyIsPrefix
<1>2. CASE index' = IdleIndex
  BY <1>2 DEF CopyInv, CopyIsPrefix, IdleIndex
<1> QED BY <1>1, <1>2

LEMMA IndexBeginKeeps == ASSUME CopyInv, IndexBegin PROVE CopyInv'
<1>1. rows' = rows /\ through' = through /\ entries' = entries
  BY DEF IndexBegin, harness
<1>2. CASE index' = [at |-> "copy", next |-> through + 1, last |-> entries]
  BY <1>1, <1>2 DEF CopyInv, CopyIsPrefix
<1>3. CASE index' = index
  BY <1>1, <1>3, NotCopying DEF CopyInv
<1> QED BY <1>2, <1>3 DEF IndexBegin

LEMMA IndexInsertKeeps == ASSUME CopyInv, IndexInsert PROVE CopyInv'
<1>1. through' = through /\ entries' = entries /\ index.at = "copy" /\ rows \in Seq(Nat) /\ Len(rows) \in Nat
  BY DEF IndexInsert, harness, CopyInv
<1>2. CASE rows' = rows /\ index' = IdleIndex
  BY <1>1, <1>2, NotCopying DEF CopyInv
<1>3. ASSUME rows' = IF IsNew(index.next) THEN Append(rows, index.next) ELSE rows,
             index' = [index EXCEPT !.next = @ + 1]
      PROVE  CopyInv'
  <2>1. /\ index'.next = index.next + 1 /\ index'.last = index.last /\ index'.at = index.at
        /\ index' \in [at : {"idle", "copy"}, next : Nat, last : Nat]
    BY <1>3 DEF CopyInv
  <2>2. CASE IsNew(index.next)
    <3>1. index.next = Len(rows) + 1
      BY <1>1, <2>2 DEF CopyInv, CopyIsPrefix, IsNew
    <3>2. /\ rows' \in Seq(Nat) /\ Len(rows') = Len(rows) + 1
          /\ \A i \in 1..Len(rows) : rows'[i] = rows[i]
          /\ rows'[Len(rows) + 1] = index.next
      BY <1>1, <1>3, <2>2, AppendProperties DEF CopyInv
    <3>3. \A i \in 1..Len(rows') : rows'[i] = i
      <4>1. \A i \in 1..Len(rows) : rows[i] = i
        BY <1>1 DEF CopyInv, CopyIsPrefix
      <4>2. ASSUME NEW i \in 1..(Len(rows) + 1) PROVE rows'[i] = i
        BY <1>1, <3>1, <3>2, <4>1
      <4> QED BY <3>2, <4>2
    <3>4. through <= Len(rows) /\ through \in Nat
      BY DEF CopyInv, CopyIsPrefix
    <3>5. CopyIsPrefix'
      BY <1>1, <3>2, <3>3, <3>4 DEF CopyIsPrefix
    <3> QED BY <1>1, <2>1, <3>1, <3>2, <3>4, <3>5 DEF CopyInv
  <2>3. CASE ~IsNew(index.next)
    <3>1. index.next <= Len(rows)
      BY <1>1, <2>3 DEF CopyInv, CopyIsPrefix, IsNew
    <3> QED BY <1>1, <1>3, <2>1, <2>3, <3>1 DEF CopyInv, CopyIsPrefix
  <2> QED BY <2>2, <2>3
<1> QED BY <1>2, <1>3 DEF IndexInsert

LEMMA IndexEndKeeps == ASSUME CopyInv, IndexEnd PROVE CopyInv'
  BY DEF CopyInv, CopyIsPrefix, IndexEnd, IdleIndex, harness

LEMMA CopyInvStep == CopyInv /\ [PiNext]_piVars => CopyInv'
<1> SUFFICES ASSUME CopyInv, [PiNext]_piVars PROVE CopyInv'
  OBVIOUS
<1>0. entries \in Nat
  BY DEF CopyInv
<1>1. CASE UNCHANGED piVars
  BY <1>0, <1>1, NotCopying DEF piVars, harness, indexing
<1>2. CASE PubStep
  BY <1>0, <1>2, NotCopying DEF PubStep, PubRead, PubEntries, PubUpdate, harness, indexing
<1>3. CASE IndexStep
  <2>1. CASE IndexRejected
    BY <1>0, <2>1, NotCopying DEF IndexRejected, harness
  <2> QED BY <1>3, <2>1, IndexBeginKeeps, IndexInsertKeeps, IndexEndKeeps DEF IndexStep
<1>4. CASE SubmitStep
  BY <1>0, <1>4, NotCopying DEF SubmitStep, SubmitPublished, SubmitList, SubmitArm, harness, indexing
<1>5. CASE CheckStep
  <2>1. CASE CheckAbort
    BY <1>0, <2>1, NotCopying DEF CheckAbort, AbortRun
  <2>2. CASE Tick \/ CheckIndexed \/ CheckDisarm \/ CheckUpdate
    BY <1>0, <2>2, NotCopying DEF Tick, CheckIndexed, CheckDisarm, CheckUpdate, harness, indexing
  <2> QED BY <1>5, <2>1, <2>2 DEF CheckStep
<1>6. CASE RunStep
  BY <1>0, <1>6, NotCopying DEF RunStep, Progress, Finish
<1>7. CASE Hang \/ Abort \/ Submit \/ Open
  BY <1>0, <1>7, NotCopying DEF Hang, Abort, AbortRun, Submit, Open, harness, indexing
<1>8. CASE Crash
  BY <1>0, <1>8, NotCopying DEF Crash
<1> QED BY <1>1, <1>2, <1>3, <1>4, <1>5, <1>6, <1>7, <1>8 DEF PiNext

\* CopyIsPrefix, for every length of the conversation: whatever fails or dies
\* between two inserts, the copy is a prefix of the conversation, once and in
\* order, and the stored mark is behind it.
THEOREM CopyIsPrefixHolds == PiSpec => []CopyIsPrefix
<1>1. PiInit => CopyInv
  BY DEF PiInit, CopyInv, CopyIsPrefix, IdleIndex
<1>2. CopyInv => CopyIsPrefix
  BY DEF CopyInv
<1> QED BY <1>1, <1>2, CopyInvStep, PTL DEF PiSpec
-----------------------------------------------------------------------------
(* Types of the Pi chat.  A copy under way ends within the conversation it was begun for.     *)

PiJob == {"now", "active", "error"}

PiTypeInv ==
  /\ PiTypeOK
  /\ index.at = "copy" => index.next <= index.last + 1 /\ index.last <= entries /\ index.next >= 1

LEMMA EnqueueTyped == ASSUME PiTypeOK, NEW job \in PiJob PROVE Enqueue(job) \in Seq(PiJob)
  BY AppendProperties DEF PiTypeOK, Enqueue, PiJob

LEMMA TailTyped == ASSUME PiTypeOK, jobs # <<>> PROVE Tail(jobs) \in Seq(PiJob) /\ Head(jobs) \in PiJob
  BY HeadTailProperties DEF PiTypeOK, PiJob

LEMMA SettledTyped == ASSUME NEW f \in BOOLEAN PROVE Settled(f) \in {"active", "error"}
  BY DEF Settled

\* A fault counts within its bound.
LEMMA FaultTyped == ASSUME PiTypeOK, Fault PROVE faults' \in 0..MaxFaults /\ opens' = opens /\ crashes' = crashes
  BY PiAssumption DEF PiTypeOK, Fault

LEMMA PubTyped == ASSUME PiTypeInv, PubStep PROVE PiTypeInv'
<1>0. PiTypeOK /\ UNCHANGED <<harness, indexing, watch, stream, submit, check, crossed>>
  BY DEF PiTypeInv, PubStep, PubRead, PubEntries, PubUpdate
<1>1. bounds' = bounds \/ Fault
  BY DEF PubStep, PubRead, PubEntries, PubUpdate, WriteStatus
<1>2. opens' \in 0..MaxOpens /\ faults' \in 0..MaxFaults /\ crashes' \in 0..MaxCrashes
  BY <1>0, <1>1, FaultTyped DEF PiTypeOK, bounds
<1>3. pub \in [at : {"idle", "entries", "update"}, status : Statuses] /\ failed \in BOOLEAN
  BY <1>0 DEF PiTypeOK
<1>4. jobs' \in Seq(PiJob)
  BY <1>0, TailTyped DEF PubStep, PubRead, PubEntries, PubUpdate, PiTypeOK, PiJob
<1>5. pub' \in [at : {"idle", "entries", "update"}, status : Statuses]
  BY <1>0, <1>3, TailTyped, SettledTyped
     DEF PubStep, PubRead, PubEntries, PubUpdate, IdlePub, Statuses, PiJob
<1>6. published' \in {"unknown", "running", "idle"}
  BY <1>0 DEF PubStep, PubRead, PubEntries, PubUpdate, PiTypeOK
<1>7. status' \in Statuses
  BY <1>0, <1>3 DEF PubStep, PubRead, PubEntries, PubUpdate, WriteStatus, PiTypeOK
<1> QED BY <1>0, <1>2, <1>4, <1>5, <1>6, <1>7 DEF PiTypeInv, PiTypeOK, harness, indexing, PiJob

LEMMA IndexTyped == ASSUME PiTypeInv, IndexStep PROVE PiTypeInv'
<1>0. PiTypeOK /\ UNCHANGED <<harness, publishing, watch, stream, submit, check, crossed>>
  BY DEF PiTypeInv, IndexStep, IndexBegin, IndexInsert, IndexEnd, IndexRejected
<1>1. bounds' = bounds \/ Fault
  BY DEF IndexStep, IndexBegin, IndexInsert, IndexEnd, IndexRejected
<1>2. opens' \in 0..MaxOpens /\ faults' \in 0..MaxFaults /\ crashes' \in 0..MaxCrashes
  BY <1>0, <1>1, FaultTyped DEF PiTypeOK, bounds
<1>3. /\ index \in [at : {"idle", "copy"}, next : 0..(MaxEntries + 1), last : 0..MaxEntries]
      /\ through \in 0..entries /\ entries \in 0..MaxEntries /\ MaxEntries \in Nat
      /\ rows \in Seq(1..MaxEntries)
      /\ index.at = "copy" => index.next <= index.last + 1 /\ index.last <= entries /\ index.next >= 1
  BY <1>0, PiAssumption DEF PiTypeOK, PiTypeInv
<1>4. /\ wanted' \in BOOLEAN /\ poisoned' \in BOOLEAN
      /\ rows' \in Seq(1..MaxEntries) /\ through' \in 0..entries
      /\ index' \in [at : {"idle", "copy"}, next : 0..(MaxEntries + 1), last : 0..MaxEntries]
      /\ index'.at = "copy" => index'.next <= index'.last + 1 /\ index'.last <= entries /\ index'.next >= 1
  <2>0. wanted \in BOOLEAN /\ poisoned \in BOOLEAN
    BY <1>0 DEF PiTypeOK
  <2>1. wanted' \in BOOLEAN /\ poisoned' \in BOOLEAN
    BY <2>0 DEF IndexStep, IndexBegin, IndexInsert, IndexEnd, IndexRejected
  <2>2. rows' \in Seq(1..MaxEntries)
    <3>1. CASE IndexInsert
      <4>1. index.next \in 1..MaxEntries
        BY <1>3, <3>1 DEF IndexInsert
      <4>2. Append(rows, index.next) \in Seq(1..MaxEntries)
        BY <1>3, <4>1, AppendProperties
      <4> QED BY <1>3, <3>1, <4>2 DEF IndexInsert
    <3>2. CASE ~IndexInsert
      BY <1>3, <3>2 DEF IndexStep, IndexBegin, IndexEnd, IndexRejected
    <3> QED BY <3>1, <3>2
  <2>3. through' \in 0..entries
    BY <1>3 DEF IndexStep, IndexBegin, IndexInsert, IndexEnd, IndexRejected
  <2>4. /\ index' \in [at : {"idle", "copy"}, next : 0..(MaxEntries + 1), last : 0..MaxEntries]
        /\ index'.at = "copy" => index'.next <= index'.last + 1 /\ index'.last <= entries /\ index'.next >= 1
    <3>1. CASE index' = [at |-> "copy", next |-> through + 1, last |-> entries]
      BY <1>3, <3>1
    <3>2. CASE index' = index \/ index' = IdleIndex
      BY <1>3, <3>2 DEF IdleIndex
    <3>3. CASE index.at = "copy" /\ index.next <= index.last /\ index' = [index EXCEPT !.next = @ + 1]
      <4>1. index'.at = index.at /\ index'.next = index.next + 1 /\ index'.last = index.last
        BY <1>3, <3>3
      <4>2. index.next + 1 \in 0..(MaxEntries + 1)
        BY <1>3, <3>3
      <4>3. index' \in [at : {"idle", "copy"}, next : 0..(MaxEntries + 1), last : 0..MaxEntries]
        BY <1>3, <3>3, <4>2
      <4> QED BY <1>3, <3>3, <4>1, <4>3
    <3> QED BY <3>1, <3>2, <3>3 DEF IndexStep, IndexBegin, IndexInsert, IndexEnd, IndexRejected
  <2> QED BY <2>1, <2>2, <2>3, <2>4
<1> QED BY <1>0, <1>2, <1>3, <1>4 DEF PiTypeInv, PiTypeOK, harness, publishing

LEMMA SubmitTyped == ASSUME PiTypeInv, SubmitStep PROVE PiTypeInv'
<1>0. PiTypeOK /\ UNCHANGED <<harness, publishing, indexing, stream, check, crossed>>
  BY DEF PiTypeInv, SubmitStep, SubmitPublished, SubmitList, SubmitArm
<1>1. bounds' = bounds \/ Fault
  BY DEF SubmitStep, SubmitPublished, SubmitList, SubmitArm
<1>2. opens' \in 0..MaxOpens /\ faults' \in 0..MaxFaults /\ crashes' \in 0..MaxCrashes
  BY <1>0, <1>1, FaultTyped DEF PiTypeOK, bounds
<1>3. submit' \in {"idle", "publish", "list", "arm"} /\ watch' \in BOOLEAN
  BY <1>0 DEF PiTypeOK, SubmitStep, SubmitPublished, SubmitList, SubmitArm
<1> QED BY <1>0, <1>2, <1>3 DEF PiTypeInv, PiTypeOK, harness, publishing, indexing

LEMMA CheckTyped == ASSUME PiTypeInv, CheckStep PROVE PiTypeInv'
<1>0. PiTypeOK /\ UNCHANGED <<entries, failed, pub, poisoned, index, rows, through, stream, submit>>
  BY DEF PiTypeInv, CheckStep, Tick, CheckIndexed, CheckDisarm, CheckUpdate, CheckAbort, AbortRun, harness,
         indexing, publishing
<1>1. bounds' = bounds \/ Fault
  BY DEF CheckStep, Tick, CheckIndexed, CheckDisarm, CheckUpdate, CheckAbort, WriteStatus
<1>2. opens' \in 0..MaxOpens /\ faults' \in 0..MaxFaults /\ crashes' \in 0..MaxCrashes
  BY <1>0, <1>1, FaultTyped DEF PiTypeOK, bounds
<1>3. /\ check \in [at : {"idle", "index", "disarm", "update", "abort"},
                    verdict : {"idle", "stuck", "healthy"}, status : Statuses]
      /\ busy \in BOOLEAN /\ hung \in BOOLEAN /\ failed \in BOOLEAN /\ wanted \in BOOLEAN
      /\ watch \in BOOLEAN /\ crossed \in BOOLEAN
      /\ status \in Statuses /\ published \in {"unknown", "running", "idle"} /\ jobs \in Seq(PiJob)
  BY <1>0 DEF PiTypeOK, PiJob
<1>4. check' \in [at : {"idle", "index", "disarm", "update", "abort"},
                 verdict : {"idle", "stuck", "healthy"}, status : Statuses]
  BY <1>3, SettledTyped DEF CheckStep, Tick, CheckIndexed, CheckDisarm, CheckUpdate, CheckAbort, IdleCheck,
     JudgeTurn, Statuses
<1>5. jobs' \in Seq(PiJob)
  BY <1>0, <1>3, EnqueueTyped, SettledTyped DEF CheckStep, Tick, CheckIndexed, CheckDisarm, CheckUpdate,
     CheckAbort, AbortRun, Emit, indexing, publishing, PiJob
<1>6. busy' \in BOOLEAN /\ hung' \in BOOLEAN
  BY <1>3 DEF CheckStep, Tick, CheckIndexed, CheckDisarm, CheckUpdate, CheckAbort, AbortRun, harness
<1>7. wanted' \in BOOLEAN
  BY <1>3 DEF CheckStep, Tick, CheckIndexed, CheckDisarm, CheckUpdate, CheckAbort, AbortRun, Emit, indexing
<1>8. watch' \in BOOLEAN /\ published' \in {"unknown", "running", "idle"}
  BY <1>3 DEF CheckStep, Tick, CheckIndexed, CheckDisarm, CheckUpdate, CheckAbort, publishing
<1>9. status' \in Statuses
  BY <1>3 DEF CheckStep, Tick, CheckIndexed, CheckDisarm, CheckUpdate, CheckAbort, WriteStatus, publishing
<1>10. crossed' \in BOOLEAN
  BY <1>3 DEF CheckStep, Tick, CheckIndexed, CheckDisarm, CheckUpdate, CheckAbort
<1> QED BY <1>0, <1>2, <1>4, <1>5, <1>6, <1>7, <1>8, <1>9, <1>10 DEF PiTypeInv, PiTypeOK, PiJob

LEMMA RunTyped == ASSUME PiTypeInv, RunStep \/ Hang \/ Abort \/ Submit PROVE PiTypeInv'
<1>0. PiTypeOK /\ UNCHANGED <<published, pub, status, poisoned, index, rows, through, watch, check, crossed, bounds>>
  BY DEF PiTypeInv, RunStep, Progress, Finish, Hang, Abort, Submit, publishing, indexing
<1>1. /\ busy \in BOOLEAN /\ hung \in BOOLEAN /\ failed \in BOOLEAN /\ wanted \in BOOLEAN
      /\ entries \in 0..MaxEntries /\ MaxEntries \in Nat /\ jobs \in Seq(PiJob) /\ stream \in BOOLEAN
      /\ submit \in {"idle", "publish", "list", "arm"}
  BY <1>0, PiAssumption DEF PiTypeOK, PiJob
<1>2. entries' \in 0..MaxEntries /\ entries' >= entries
  BY <1>1 DEF RunStep, Progress, Finish, Hang, Abort, AbortRun, Submit
<1>3. busy' \in BOOLEAN /\ hung' \in BOOLEAN /\ failed' \in BOOLEAN /\ stream' \in BOOLEAN
  BY <1>1 DEF RunStep, Progress, Finish, Hang, Abort, AbortRun, Submit
<1>4. jobs' \in Seq(PiJob) /\ wanted' \in BOOLEAN
  BY <1>0, <1>1, EnqueueTyped DEF RunStep, Progress, Finish, Hang, Abort, AbortRun, Submit, Emit, publishing,
     indexing, PiJob
<1>5. submit' \in {"idle", "publish", "list", "arm"}
  BY <1>1 DEF RunStep, Progress, Finish, Hang, Abort, Submit
<1>6. through' \in 0..entries' /\ (index.at = "copy" => index.last <= entries')
  BY <1>0, <1>1, <1>2 DEF PiTypeInv, PiTypeOK
<1> QED BY <1>0, <1>2, <1>3, <1>4, <1>5, <1>6 DEF PiTypeInv, PiTypeOK, bounds, PiJob

LEMMA IdleTyped ==
  /\ IdlePub \in [at : {"idle", "entries", "update"}, status : Statuses]
  /\ IdleIndex \in [at : {"idle", "copy"}, next : 0..(MaxEntries + 1), last : 0..MaxEntries]
  /\ IdleIndex.at = "idle"
  /\ IdleCheck \in [at : {"idle", "index", "disarm", "update", "abort"},
                    verdict : {"idle", "stuck", "healthy"}, status : Statuses]
  BY PiAssumption DEF IdlePub, IdleIndex, IdleCheck, Statuses

LEMMA OpenTyped == ASSUME PiTypeInv, Open \/ Crash PROVE PiTypeInv'
<1>1. CASE Open
  <2>1. jobs' \in Seq(PiJob)
    BY <1>1, EnqueueTyped, SettledTyped DEF Open, PiTypeInv, PiTypeOK, PiJob
  <2>2. opens' \in 0..MaxOpens
    BY <1>1, PiAssumption DEF Open, PiTypeInv, PiTypeOK
  <2> QED BY <1>1, <2>1, <2>2 DEF Open, PiTypeInv, PiTypeOK, harness, indexing, PiJob
<1>2. CASE Crash
  <2>1. crashes' \in 0..MaxCrashes
    BY <1>2, PiAssumption DEF Crash, PiTypeInv, PiTypeOK
  <2>2. jobs' \in Seq({"now", "active", "error"})
    BY <1>2 DEF Crash
  <2>3. /\ pub' \in [at : {"idle", "entries", "update"}, status : Statuses]
        /\ index' \in [at : {"idle", "copy"}, next : 0..(MaxEntries + 1), last : 0..MaxEntries]
        /\ index'.at = "idle"
        /\ check' \in [at : {"idle", "index", "disarm", "update", "abort"},
                      verdict : {"idle", "stuck", "healthy"}, status : Statuses]
    BY <1>2, IdleTyped DEF Crash
  <2>4. PiTypeOK'
    BY <1>2, <2>1, <2>2, <2>3 DEF Crash, PiTypeInv, PiTypeOK
  <2> QED BY <2>3, <2>4 DEF PiTypeInv
<1> QED BY <1>1, <1>2

\* The chains, the copy and the watchdog are always well formed.
THEOREM PiTypeCorrect == PiSpec => []PiTypeOK
<1>1. PiInit => PiTypeInv
  <2>1. ASSUME PiInit
        PROVE  /\ pub \in [at : {"idle", "entries", "update"}, status : Statuses]
               /\ index \in [at : {"idle", "copy"}, next : 0..(MaxEntries + 1), last : 0..MaxEntries]
               /\ index.at = "idle"
               /\ check \in [at : {"idle", "index", "disarm", "update", "abort"},
                            verdict : {"idle", "stuck", "healthy"}, status : Statuses]
    BY <2>1, IdleTyped DEF PiInit
  <2>2. ASSUME PiInit PROVE rows \in Seq(1..MaxEntries) /\ jobs \in Seq({"now", "active", "error"})
    BY <2>2 DEF PiInit
  <2>3. ASSUME PiInit
        PROVE  /\ entries \in 0..MaxEntries /\ through \in 0..entries /\ status \in Statuses
               /\ opens \in 0..MaxOpens /\ faults \in 0..MaxFaults /\ crashes \in 0..MaxCrashes
    BY <2>3, PiAssumption DEF PiInit, Statuses
  <2>4. ASSUME PiInit PROVE PiTypeOK
    BY <2>1, <2>2, <2>3, <2>4 DEF PiInit, PiTypeOK
  <2> QED BY <2>1, <2>4 DEF PiTypeInv
<1>2. PiTypeInv /\ [PiNext]_piVars => PiTypeInv'
  <2>1. ASSUME PiTypeInv, UNCHANGED piVars PROVE PiTypeInv'
    BY <2>1 DEF piVars, harness, publishing, indexing, bounds, PiTypeInv, PiTypeOK
  <2>2. ASSUME PiTypeInv, PiNext PROVE PiTypeInv'
    BY <2>2, PubTyped, IndexTyped, SubmitTyped, CheckTyped, RunTyped, OpenTyped DEF PiNext
  <2> QED BY <2>1, <2>2
<1> QED BY <1>1, <1>2, PTL DEF PiSpec, PiTypeInv
================================================================================
