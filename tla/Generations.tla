----------------------------- MODULE Generations -----------------------------
(***************************************************************************)
(* Generations of a product over the kernels that run them: install, trial,*)
(* promote, admit, drain and retire; the native images each kernel starts in*)
(* order and stops in reverse, halfway through a failed load too; and the  *)
(* Root handles that pin a kernel beyond the life of the collection.        *)
(*                                                                         *)
(* The control plane is one thread: `ctl` is the load or the stop it is in, *)
(* and plugins run while one image is created, initialized or stopped, but  *)
(* cannot reach this interface.  What happens inside a root is the business *)
(* of PendingTickets; here a kernel has the state KernelLease promises.     *)
(***************************************************************************)
EXTENDS Naturals, Sequences, TLAPS

CONSTANTS Ids,      \* generation identities
          Startup,  \* Prepared.startup_order
          None      \* no identity

ASSUME NoneAssumption == None \notin Ids

Plugins == {Startup[i] : i \in DOMAIN Startup}

ASSUME StartupAssumption ==
    /\ Startup \in Seq(Plugins)
    /\ \A i, j \in DOMAIN Startup : Startup[i] = Startup[j] => i = j

VARIABLES
    status,    \* "absent", "candidate", "resident" or "failed", per identity
    default,   \* Generations.default
    image,     \* per identity and plugin: the instance of the current kernel
    stops,     \* history: native stops of that instance
    root,      \* Kernel.state.active_root is Some, per identity
    held,      \* the Root handle is alive, and pins the kernel
    busy,      \* plugins with a physical lease, per identity
    ctl,       \* the load or stop in progress
    dropping,  \* kernels whose drop is still to run
    closed     \* the collection itself was dropped

vars == <<status, default, image, stops, root, held, busy, ctl, dropping, closed>>

leaseVars == <<root, held, busy>>

imageVars == <<image, stops>>

Status == {"absent", "candidate", "resident", "failed"}

Image == {"none",     \* no instance
          "running",  \* created, and in Kernel.images
          "stopped",  \* Native::stop has run
          "leaked"}   \* forgotten with its library, for good

(* The load or stop in progress, and the place it has reached in Startup. *)
Ctl == [op: {"idle", "load", "stop"}, gen: Ids \cup {None},
        at: 0..(Len(Startup) + 1), promote: BOOLEAN]

NoCtl == [op |-> "idle", gen |-> None, at |-> 0, promote |-> FALSE]

Idle == ctl = NoCtl /\ dropping = {}

Control == Idle /\ ~closed

Init ==
    /\ status = [g \in Ids |-> "absent"]
    /\ default = None
    /\ image = [g \in Ids |-> [p \in Plugins |-> "none"]]
    /\ stops = [g \in Ids |-> [p \in Plugins |-> 0]]
    /\ root = [g \in Ids |-> FALSE]
    /\ held = [g \in Ids |-> FALSE]
    /\ busy = [g \in Ids |-> {}]
    /\ ctl = NoCtl
    /\ dropping = {}
    /\ closed = FALSE

-----------------------------------------------------------------------------
(* Candidates and activation. *)

InstallCandidate(g) ==
    /\ Control /\ status[g] = "absent"
    /\ status' = [status EXCEPT ![g] = "candidate"]
    /\ UNCHANGED <<default, imageVars, leaseVars, ctl, dropping, closed>>

(* trial and promote of a candidate: load_generation takes Prepared, so a load
   runs once.  Either may fail before the first image (recheck). *)
Activate(g, promote) ==
    /\ Control /\ status[g] = "candidate"
    /\ image' = [image EXCEPT ![g] = [p \in Plugins |-> "none"]]
    /\ stops' = [stops EXCEPT ![g] = [p \in Plugins |-> 0]]
    /\ \/ /\ ctl' = [op |-> "load", gen |-> g, at |-> 1, promote |-> promote]
          /\ UNCHANGED status
       \/ /\ status' = [status EXCEPT ![g] = "failed"]
          /\ UNCHANGED ctl
    /\ UNCHANGED <<default, leaseVars, dropping, closed>>

(* promote of a resident generation, a rollback for instance. *)
PromoteResident(g) ==
    /\ Control /\ status[g] = "resident"
    /\ default' = g
    /\ UNCHANGED <<status, imageVars, leaseVars, ctl, dropping, closed>>

Loading == ctl.op = "load" /\ ctl.at <= Len(Startup)

Stopping(g, i) == [op |-> "stop", gen |-> g, at |-> i, promote |-> FALSE]

(* Native::load and initialize of the next plugin succeed. *)
StartNext ==
    /\ Loading
    /\ image' = [image EXCEPT ![ctl.gen][Startup[ctl.at]] = "running"]
    /\ ctl' = [ctl EXCEPT !.at = @ + 1]
    /\ UNCHANGED <<status, default, stops, leaseVars, dropping, closed>>

(* Native::load fails: its own instance, if any, is stopped inside. *)
CreateFails ==
    /\ Loading
    /\ ctl' = Stopping(ctl.gen, Len(Startup))
    /\ UNCHANGED <<status, default, imageVars, leaseVars, dropping, closed>>

UnwindFromLast == Len(Startup)

(* The instance is in Kernel.images before it is initialized. *)
InitializeFails ==
    /\ Loading
    /\ image' = [image EXCEPT ![ctl.gen][Startup[ctl.at]] = "running"]
    /\ ctl' = Stopping(ctl.gen, UnwindFromLast)
    /\ UNCHANGED <<status, default, stops, leaseVars, dropping, closed>>

LoadDone ==
    /\ ctl.op = "load" /\ ctl.at > Len(Startup)
    /\ status' = [status EXCEPT ![ctl.gen] = "resident"]
    /\ default' = IF ctl.promote THEN ctl.gen ELSE default
    /\ ctl' = NoCtl
    /\ UNCHANGED <<imageVars, leaseVars, dropping, closed>>

-----------------------------------------------------------------------------
(* stop_images: whatever is in Kernel.images, in reverse startup order; a stop
   that fails is recorded and the loop goes on. *)

NextToStop == Startup[ctl.at]

StopNext ==
    /\ ctl.op = "stop" /\ ctl.at > 0
    /\ IF image[ctl.gen][NextToStop] = "running"
       THEN /\ image' = [image EXCEPT ![ctl.gen][NextToStop] = "stopped"]
            /\ stops' = [stops EXCEPT ![ctl.gen][NextToStop] = @ + 1]
       ELSE UNCHANGED imageVars
    /\ ctl' = [ctl EXCEPT !.at = @ - 1]
    /\ UNCHANGED <<status, default, leaseVars, dropping, closed>>

(* The load that failed leaves its generation failed, for good. *)
StopDone ==
    /\ ctl.op = "stop" /\ ctl.at = 0
    /\ status' = IF status[ctl.gen] = "candidate"
                 THEN [status EXCEPT ![ctl.gen] = "failed"] ELSE status
    /\ ctl' = NoCtl
    /\ UNCHANGED <<default, imageVars, leaseVars, dropping, closed>>

Blocked(g) == default = g \/ root[g] \/ busy[g] # {}

(* retire: the generation leaves the map first, then its kernel shuts down. *)
Retire(g) ==
    /\ Control /\ status[g] # "absent" /\ ~Blocked(g)
    /\ status' = [status EXCEPT ![g] = "absent"]
    /\ ctl' = IF status[g] = "resident" THEN Stopping(g, Len(Startup)) ELSE NoCtl
    /\ UNCHANGED <<default, imageVars, leaseVars, dropping, closed>>

(* The host drops the collection: every kernel no Root handle pins is dropped. *)
Close ==
    /\ Control
    /\ closed' = TRUE
    /\ default' = None
    /\ status' = [g \in Ids |-> "absent"]
    /\ dropping' = {g \in Ids : status[g] = "resident" /\ ~held[g]}
    /\ UNCHANGED <<imageVars, leaseVars, ctl>>

(* Fault: the images of a live lease are stopped with the others. *)
StopsUnderLease(g) == TRUE

(* Drop for Kernel: with a live lease the whole closure is forgotten. *)
StopsAtDrop(g) == busy[g] = {}

DropKernel(g) ==
    /\ ctl = NoCtl /\ g \in dropping
    /\ dropping' = dropping \ {g}
    /\ IF StopsAtDrop(g)
       THEN ctl' = Stopping(g, Len(Startup)) /\ UNCHANGED image
       ELSE /\ image' = [image EXCEPT ![g] =
                           [p \in Plugins |-> IF @[p] = "running" THEN "leaked" ELSE @[p]]]
            /\ UNCHANGED ctl
    /\ UNCHANGED <<status, default, stops, leaseVars, closed>>

-----------------------------------------------------------------------------
(* Roots, with the kernel as KernelLease describes it. *)

(* admit_default_root and admit_root_on, pinned to the kernel. *)
Admit(g) ==
    /\ Control /\ status[g] = "resident" /\ ~root[g]
    /\ root' = [root EXCEPT ![g] = TRUE]
    /\ held' = [held EXCEPT ![g] = TRUE]
    /\ UNCHANGED <<status, default, imageVars, busy, ctl, dropping, closed>>

(* Work under a root: leases are taken and given back. *)
Work(g) ==
    /\ Idle /\ held[g]
    /\ \E S \in SUBSET Plugins : S # busy[g] /\ busy' = [busy EXCEPT ![g] = S]
    /\ UNCHANGED <<status, default, imageVars, root, held, ctl, dropping, closed>>

DroppedWithHandle(g) == IF closed THEN {g} ELSE {}

(* Root::drop cancels; leases whose work goes on keep the admission.  Then the
   handle lets go of the kernel, which nothing else may own any more. *)
DropRoot(g) ==
    /\ Idle /\ held[g]
    /\ held' = [held EXCEPT ![g] = FALSE]
    /\ \E left \in SUBSET busy[g] :
         /\ busy' = [busy EXCEPT ![g] = left]
         /\ root' = [root EXCEPT ![g] = left # {}]
    /\ dropping' = DroppedWithHandle(g)
    /\ UNCHANGED <<status, default, imageVars, ctl, closed>>

DrainCancelled(g) ==
    /\ Control /\ status[g] = "resident" /\ root[g] /\ ~held[g]
    /\ \E left \in SUBSET busy[g] :
         /\ left # busy[g]
         /\ busy' = [busy EXCEPT ![g] = left]
         /\ root' = [root EXCEPT ![g] = left # {}]
    /\ UNCHANGED <<status, default, imageVars, held, ctl, dropping, closed>>

-----------------------------------------------------------------------------
Next ==
    \/ StartNext \/ CreateFails \/ InitializeFails \/ LoadDone
    \/ StopNext \/ StopDone \/ Close
    \/ \E g \in Ids :
         \/ InstallCandidate(g) \/ PromoteResident(g) \/ Retire(g) \/ DropKernel(g)
         \/ \E promote \in BOOLEAN : Activate(g, promote)
         \/ Admit(g) \/ Work(g) \/ DropRoot(g) \/ DrainCancelled(g)

Spec == Init /\ [][Next]_vars

-----------------------------------------------------------------------------
(* Properties. *)

(* Every variable keeps its type, and the default is a key of the map
   (generation.rs, native.rs). *)
TypeOK ==
    /\ status \in [Ids -> Status]
    /\ default \in {g \in Ids : status[g] # "absent"} \cup {None}
    /\ image \in [Ids -> [Plugins -> Image]]
    /\ stops \in [Ids -> [Plugins -> Nat]]
    /\ root \in [Ids -> BOOLEAN] /\ held \in [Ids -> BOOLEAN]
    /\ busy \in [Ids -> SUBSET Plugins]
    /\ ctl \in Ctl
    /\ dropping \in SUBSET Ids
    /\ closed \in BOOLEAN

(* Native code that may still run keeps its image, and those of the whole
   closure it was started with: they are never stopped or unloaded under it
   (Generations::blockers, Drop for Kernel). *)
LeasesKeepImages ==
    \A g \in Ids : busy[g] # {} =>
        \A p \in Plugins : image[g][p] \in {"running", "leaked"}

(* A root stays usable on the generation it was admitted on, through promotion,
   rollback, retirement and the end of the collection (Root::pin). *)
RootsPinTheirGeneration ==
    \A g \in Ids : held[g] =>
        /\ root[g]
        /\ \A p \in Plugins : image[g][p] = "running"

(* The default always names a generation that can admit a root: a promotion
   that fails leaves the one before (promote, retire). *)
DefaultIsRunning ==
    default # None =>
        /\ status[default] = "resident"
        /\ \A p \in Plugins : image[default][p] = "running"

(* What a plugin depends on is started before it and stopped after it, also
   when a load fails halfway (load_generation, stop_images). *)
DependenciesOutlive ==
    \A g \in Ids, i, j \in DOMAIN Startup :
        i < j /\ image[g][Startup[j]] = "running" => image[g][Startup[i]] = "running"

(* Every instance is stopped at most once, and unless it was leaked under a
   lease none survives its kernel (Native::stop, load_generation, retire). *)
StoppedExactlyOnce ==
    \A g \in Ids, p \in Plugins :
        /\ stops[g][p] = IF image[g][p] = "stopped" THEN 1 ELSE 0
        /\ Idle /\ status[g] # "resident" /\ ~held[g] => image[g][p] # "running"
-----------------------------------------------------------------------------
(* What holds between any two steps, and makes the properties above hold. *)

AllRunning(g) == \A p \in Plugins : image[g][p] = "running"

NoneRunning(g) == \A p \in Plugins : image[g][p] # "running"

ResidentRuns(g) == status[g] = "resident" => AllRunning(g)

HandlePins(g) ==
    held[g] => /\ AllRunning(g) /\ root[g] /\ g \notin dropping
               /\ status[g] = "resident" \/ closed

WorkIsRooted(g) ==
    busy[g] # {} =>
        /\ status[g] = "resident" \/ closed
        /\ \A p \in Plugins : image[g][p] \in {"running", "leaked"}

DropsRun(g) == g \in dropping => AllRunning(g) /\ closed /\ ~held[g]

(* A kernel nobody owns any more has nothing left to run. *)
OwnerlessIsStopped(g) ==
    status[g] # "resident" /\ ~held[g] /\ g \notin dropping /\ ctl.gen # g
        => NoneRunning(g)

StopsCounted(g) ==
    \A p \in Plugins : stops[g][p] = IF image[g][p] = "stopped" THEN 1 ELSE 0

(* A load has started exactly the plugins before `at`. *)
LoadInOrder ==
    ctl.op = "load" =>
        /\ ctl.gen \in Ids /\ status[ctl.gen] = "candidate" /\ ctl.at >= 1
        /\ \A i \in DOMAIN Startup :
             image[ctl.gen][Startup[i]] = IF i < ctl.at THEN "running" ELSE "none"

(* A stop has left nothing running after `at`, on a kernel without work. *)
StopInReverse ==
    ctl.op = "stop" =>
        /\ ctl.gen \in Ids /\ status[ctl.gen] \in {"candidate", "absent"}
        /\ ~held[ctl.gen] /\ busy[ctl.gen] = {} /\ ctl.gen \notin dropping
        /\ ctl.at <= Len(Startup)
        /\ \A i \in DOMAIN Startup : i > ctl.at => image[ctl.gen][Startup[i]] # "running"

(* Every kernel is owned by exactly what its images, its leases and the control
   plane agree on: the collection, a handle, a pending drop or the load or stop
   in progress (Generations, Root, Drop for Kernel). *)
Ownership ==
    /\ \A g \in Ids : /\ ResidentRuns(g) /\ HandlePins(g) /\ WorkIsRooted(g)
                       /\ DropsRun(g) /\ OwnerlessIsStopped(g) /\ StopsCounted(g)
    /\ LoadInOrder /\ StopInReverse /\ DependenciesOutlive
    /\ ctl.op = "idle" => ctl = NoCtl
    /\ closed => status = [g \in Ids |-> "absent"]
    /\ default # None => status[default] = "resident"

(* Whatever is loaded, tried, promoted, rolled back, retired and closed while
   roots and leases are out: nothing that may still run loses its images, the
   default can always admit, and every instance is stopped once and in order. *)
GenerationsAreSafe ==
    /\ TypeOK
    /\ LeasesKeepImages
    /\ RootsPinTheirGeneration
    /\ DefaultIsRunning
    /\ DependenciesOutlive
    /\ StoppedExactlyOnce
    /\ Ownership

-----------------------------------------------------------------------------
(***************************************************************************)
(* The proof, for every set of identities and every startup order: TypeOK  *)
(* and Ownership are inductive together: one lemma per action, then the    *)
(* properties follow from Ownership.                                       *)
(***************************************************************************)
Inv == TypeOK /\ Ownership

(* The startup order lists every plugin, once. *)
LEMMA StartupTyped ==
    /\ Len(Startup) \in Nat
    /\ DOMAIN Startup = 1..Len(Startup)
    /\ \A i \in 1..Len(Startup) : Startup[i] \in Plugins
  BY StartupAssumption DEF Plugins

LEMMA StartupOnto == \A p \in Plugins : \E i \in 1..Len(Startup) : Startup[i] = p
  BY StartupAssumption DEF Plugins

LEMMA StartupInjective ==
    \A i, j \in 1..Len(Startup) : Startup[i] = Startup[j] => i = j
  BY StartupAssumption

(* The values of ctl. *)
LEMMA CtlTyped ==
    /\ NoCtl \in Ctl
    /\ \A g \in Ids, i \in 0..(Len(Startup) + 1) : Stopping(g, i) \in Ctl
    /\ \A g \in Ids, b \in BOOLEAN :
         [op |-> "load", gen |-> g, at |-> 1, promote |-> b] \in Ctl
    /\ \A c \in Ctl, i \in 0..(Len(Startup) + 1) :
         LET d == [c EXCEPT !.at = i] IN
         d \in Ctl /\ d.op = c.op /\ d.gen = c.gen /\ d.at = i /\ d.promote = c.promote
    /\ \A c \in Ctl : c.gen \in Ids \cup {None} /\ c.at \in 0..(Len(Startup) + 1)
<1> USE StartupTyped DEF NoCtl, Stopping, Ctl
<1>1. NoCtl \in Ctl
  OBVIOUS
<1>2. \A g \in Ids, i \in 0..(Len(Startup) + 1) : Stopping(g, i) \in Ctl
  OBVIOUS
<1>3. \A g \in Ids, b \in BOOLEAN :
        [op |-> "load", gen |-> g, at |-> 1, promote |-> b] \in Ctl
  OBVIOUS
<1>4. \A c \in Ctl, i \in 0..(Len(Startup) + 1) :
        LET d == [c EXCEPT !.at = i] IN
        d \in Ctl /\ d.op = c.op /\ d.gen = c.gen /\ d.at = i /\ d.promote = c.promote
  OBVIOUS
<1>5. \A c \in Ctl : c.gen \in Ids \cup {None} /\ c.at \in 0..(Len(Startup) + 1)
  OBVIOUS
<1> QED
  BY <1>1, <1>2, <1>3, <1>4, <1>5

LEMMA InitInv == Init => Inv
<1> SUFFICES ASSUME Init PROVE Inv
  OBVIOUS
<1> USE StartupTyped, NoneAssumption DEF Init, NoCtl
<1>1. TypeOK
  <2>1. ctl \in Ctl
    BY DEF Ctl
  <2>2. stops \in [Ids -> [Plugins -> Nat]] /\ image \in [Ids -> [Plugins -> Image]]
    BY DEF Image
  <2> QED
    BY <2>1, <2>2 DEF TypeOK, Status
<1>2. Ownership
  BY DEF Ownership, ResidentRuns, HandlePins, WorkIsRooted, DropsRun, OwnerlessIsStopped,
         StopsCounted, LoadInOrder, StopInReverse, DependenciesOutlive, AllRunning, NoneRunning
<1> QED
  BY <1>1, <1>2 DEF Inv

(***************************************************************************)
(* The steps.                                                               *)
(***************************************************************************)

(* A generation being loaded is a candidate without leases, on an open
   collection, and its plugins start in order. *)
LEMMA LoadFacts ==
  ASSUME Inv, ctl.op = "load"
  PROVE  /\ ctl.gen \in Ids /\ status[ctl.gen] = "candidate" /\ ~closed
         /\ ~held[ctl.gen] /\ busy[ctl.gen] = {} /\ ctl.gen \notin dropping
         /\ ctl.at \in 1..(Len(Startup) + 1)
         /\ ctl.at <= Len(Startup) => ctl.at \in 1..Len(Startup)
         /\ \A i \in 1..Len(Startup) :
              image[ctl.gen][Startup[i]] = IF i < ctl.at THEN "running" ELSE "none"
<1> USE DEF Inv, Ownership
<1>1. ctl.gen \in Ids /\ status[ctl.gen] = "candidate" /\ ~closed
  BY DEF LoadInOrder
<1>2. ~held[ctl.gen] /\ busy[ctl.gen] = {} /\ ctl.gen \notin dropping
  BY <1>1 DEF HandlePins, WorkIsRooted, DropsRun
<1>3. ctl.at \in 1..(Len(Startup) + 1)
  BY CtlTyped, StartupTyped DEF LoadInOrder, TypeOK
<1> QED
  BY <1>1, <1>2, <1>3, StartupTyped DEF LoadInOrder

(* What holds once the next plugin has an instance in Kernel.images. *)
Started ==
    /\ image' \in [Ids -> [Plugins -> Image]]
    /\ \A i \in 1..Len(Startup) :
         image'[ctl.gen][Startup[i]] = IF i < ctl.at + 1 THEN "running" ELSE "none"
    /\ \A h \in Ids : /\ ResidentRuns(h)' /\ HandlePins(h)' /\ WorkIsRooted(h)'
                      /\ DropsRun(h)' /\ OwnerlessIsStopped(h)' /\ StopsCounted(h)'
    /\ DependenciesOutlive'

LEMMA StartEffect ==
  ASSUME Inv, ctl.op = "load", ctl.at <= Len(Startup), ctl'.gen = ctl.gen,
         image' = [image EXCEPT ![ctl.gen][Startup[ctl.at]] = "running"],
         UNCHANGED <<status, default, stops, root, held, busy, dropping, closed>>
  PROVE  Started
<1> USE DEF Inv, Ownership
<1>0. ctl.gen \in Ids /\ ctl.at \in 1..Len(Startup) /\ Startup[ctl.at] \in Plugins
  BY LoadFacts, StartupTyped
<1>1. PICK k \in Ids, n \in 1..Len(Startup), q \in Plugins :
        k = ctl.gen /\ n = ctl.at /\ q = Startup[n]
  BY <1>0
<1>2. /\ status[k] = "candidate" /\ ~closed /\ ~held[k] /\ busy[k] = {} /\ k \notin dropping
      /\ image[k][q] = "none"
      /\ \A i \in 1..Len(Startup) :
           image[k][Startup[i]] = IF i < n THEN "running" ELSE "none"
  BY <1>1, LoadFacts
<1>3. image' \in [Ids -> [Plugins -> Image]]
  <2>1. image \in [Ids -> [Plugins -> Image]]
    BY DEF TypeOK
  <2> QED
    BY <1>1, <2>1 DEF Image
<1>4. /\ image'[k][q] = "running"
      /\ \A p \in Plugins : p # q => image'[k][p] = image[k][p]
      /\ \A h \in Ids : h # k => image'[h] = image[h]
  BY <1>1 DEF TypeOK
<1>5. \A i \in 1..Len(Startup) :
        image'[k][Startup[i]] = IF i < n + 1 THEN "running" ELSE "none"
  <2>1. SUFFICES ASSUME NEW i \in 1..Len(Startup)
                 PROVE  image'[k][Startup[i]] = IF i < n + 1 THEN "running" ELSE "none"
    OBVIOUS
  <2>2. CASE i = n
    BY <1>1, <1>4, <2>2, StartupTyped
  <2>3. CASE i # n
    <3>1. Startup[i] \in Plugins /\ Startup[i] # q
      BY <1>1, <2>3, StartupTyped, StartupInjective
    <3>2. image'[k][Startup[i]] = image[k][Startup[i]]
      BY <1>4, <3>1
    <3> QED
      BY <1>2, <2>3, <3>2, StartupTyped
  <2> QED
    BY <2>2, <2>3
<1>6. /\ ResidentRuns(k)' /\ HandlePins(k)' /\ WorkIsRooted(k)' /\ DropsRun(k)'
      /\ OwnerlessIsStopped(k)'
  BY <1>1, <1>2 DEF ResidentRuns, HandlePins, WorkIsRooted, DropsRun, OwnerlessIsStopped
<1>7. StopsCounted(k)'
  <2>1. SUFFICES ASSUME NEW p \in Plugins
                 PROVE  stops[k][p] = IF image'[k][p] = "stopped" THEN 1 ELSE 0
    BY DEF StopsCounted
  <2>2. stops[k][p] = IF image[k][p] = "stopped" THEN 1 ELSE 0
    BY DEF StopsCounted
  <2> QED
    BY <1>2, <1>4, <2>2
<1>8. ASSUME NEW h \in Ids, h # k
      PROVE  /\ ResidentRuns(h)' /\ HandlePins(h)' /\ WorkIsRooted(h)' /\ DropsRun(h)'
             /\ OwnerlessIsStopped(h)' /\ StopsCounted(h)'
  <2>1. image'[h] = image[h]
    BY <1>4, <1>8
  <2> QED
    BY <1>1, <2>1 DEF ResidentRuns, HandlePins, WorkIsRooted, DropsRun, OwnerlessIsStopped,
       StopsCounted, AllRunning, NoneRunning
<1>9. DependenciesOutlive'
  <2>1. SUFFICES ASSUME NEW h \in Ids, NEW i \in DOMAIN Startup, NEW j \in DOMAIN Startup,
                        i < j, image'[h][Startup[j]] = "running"
                 PROVE  image'[h][Startup[i]] = "running"
    BY DEF DependenciesOutlive
  <2>2. CASE h = k
    BY <1>5, <2>1, <2>2, StartupTyped
  <2>3. CASE h # k
    <3>1. image'[h] = image[h]
      BY <1>4, <2>3
    <3>2. image[h][Startup[i]] = "running"
      BY <2>1, <3>1 DEF DependenciesOutlive
    <3> QED
      BY <3>1, <3>2
  <2> QED
    BY <2>2, <2>3
<1>10. \A h \in Ids : /\ ResidentRuns(h)' /\ HandlePins(h)' /\ WorkIsRooted(h)'
                      /\ DropsRun(h)' /\ OwnerlessIsStopped(h)' /\ StopsCounted(h)'
  BY <1>6, <1>7, <1>8
<1> QED
  BY <1>1, <1>3, <1>5, <1>9, <1>10 DEF Started

LEMMA InstallCandidateInv == ASSUME Inv, NEW g \in Ids, InstallCandidate(g) PROVE Inv'
<1> USE StartupTyped, CtlTyped, NoneAssumption
    DEF Inv, InstallCandidate, Control, Idle, imageVars, leaseVars
<1>1. TypeOK'
  BY DEF TypeOK, Status, Image, LoadInOrder, StopInReverse, Ownership
<1>2. Ownership'
  BY DEF TypeOK, Status, Image, Ownership, ResidentRuns, HandlePins, WorkIsRooted, DropsRun,
         OwnerlessIsStopped, StopsCounted, LoadInOrder, StopInReverse, DependenciesOutlive,
         AllRunning, NoneRunning
<1> QED
  BY <1>1, <1>2

LEMMA PromoteResidentInv == ASSUME Inv, NEW g \in Ids, PromoteResident(g) PROVE Inv'
<1> USE StartupTyped, CtlTyped, NoneAssumption
    DEF Inv, PromoteResident, Control, Idle, imageVars, leaseVars
<1>1. TypeOK'
  BY DEF TypeOK, Status, Image, LoadInOrder, StopInReverse, Ownership
<1>2. Ownership'
  BY DEF TypeOK, Status, Image, Ownership, ResidentRuns, HandlePins, WorkIsRooted, DropsRun,
         OwnerlessIsStopped, StopsCounted, LoadInOrder, StopInReverse, DependenciesOutlive,
         AllRunning, NoneRunning
<1> QED
  BY <1>1, <1>2

LEMMA RetireInv == ASSUME Inv, NEW g \in Ids, Retire(g) PROVE Inv'
<1> USE StartupTyped, CtlTyped, NoneAssumption
    DEF Inv, Retire, Control, Idle, NoCtl, Stopping, Blocked, imageVars, leaseVars
<1>1. TypeOK'
  BY DEF TypeOK, Status, Image, LoadInOrder, StopInReverse, Ownership
<1>2. Ownership'
  BY DEF TypeOK, Status, Image, Ownership, ResidentRuns, HandlePins, WorkIsRooted, DropsRun,
         OwnerlessIsStopped, StopsCounted, LoadInOrder, StopInReverse, DependenciesOutlive,
         AllRunning, NoneRunning
<1> QED
  BY <1>1, <1>2

LEMMA DropKernelInv == ASSUME Inv, NEW g \in Ids, DropKernel(g) PROVE Inv'
<1> USE NoneAssumption, StartupTyped DEF Inv, Ownership
<1>1. /\ ctl = NoCtl /\ g \in dropping /\ dropping' = dropping \ {g}
      /\ status' = status /\ default' = default /\ stops' = stops /\ root' = root
      /\ held' = held /\ busy' = busy /\ closed' = closed
  BY DEF DropKernel, leaseVars
<1>2. AllRunning(g) /\ closed /\ ~held[g] /\ status[g] = "absent"
  BY <1>1 DEF DropsRun, TypeOK
<1>3. CASE busy[g] = {}
  <2>1. ctl' = Stopping(g, Len(Startup)) /\ image' = image
    BY <1>3 DEF DropKernel, StopsAtDrop
  <2>2. TypeOK'
    <3>1. Len(Startup) \in 0..(Len(Startup) + 1)
      OBVIOUS
    <3>2. ctl' \in Ctl
      BY <1>1, <2>1, <3>1, CtlTyped
    <3> QED
      BY <1>1, <2>1, <3>2 DEF TypeOK
  <2>3. ctl'.op = "stop" /\ ctl'.gen = g /\ ctl'.at = Len(Startup)
    BY <2>1 DEF Stopping
  <2>4. StopInReverse' /\ LoadInOrder'
    BY <1>1, <1>2, <1>3, <2>1, <2>3 DEF StopInReverse, LoadInOrder
  <2>5. \A h \in Ids : OwnerlessIsStopped(h)'
    BY <1>1, <2>1, <2>3 DEF OwnerlessIsStopped, NoneRunning, NoCtl
  <2>6. \A h \in Ids : /\ ResidentRuns(h)' /\ HandlePins(h)' /\ WorkIsRooted(h)'
                       /\ DropsRun(h)' /\ StopsCounted(h)'
    BY <1>1, <2>1 DEF ResidentRuns, HandlePins, WorkIsRooted, DropsRun, StopsCounted, AllRunning
  <2>7. DependenciesOutlive'
    BY <2>1 DEF DependenciesOutlive
  <2> QED
    BY <1>1, <2>2, <2>3, <2>4, <2>5, <2>6, <2>7
<1>4. CASE busy[g] # {}
  <2>1. /\ ctl' = ctl
        /\ image' = [image EXCEPT ![g] =
                      [p \in Plugins |-> IF @[p] = "running" THEN "leaked" ELSE @[p]]]
    BY <1>4 DEF DropKernel, StopsAtDrop
  <2>2. /\ image' \in [Ids -> [Plugins -> Image]]
        /\ \A p \in Plugins : image'[g][p] = "leaked"
        /\ \A h \in Ids : h # g => image'[h] = image[h]
    BY <1>1, <1>2, <2>1 DEF TypeOK, Image, AllRunning
  <2>3. TypeOK'
    BY <1>1, <2>1, <2>2 DEF TypeOK
  <2>4. ResidentRuns(g)' /\ HandlePins(g)' /\ WorkIsRooted(g)' /\ DropsRun(g)'
          /\ OwnerlessIsStopped(g)'
    BY <1>1, <1>2, <2>2 DEF ResidentRuns, HandlePins, WorkIsRooted, DropsRun,
       OwnerlessIsStopped, NoneRunning
  <2>5. StopsCounted(g)'
    BY <1>1, <1>2, <2>2 DEF StopsCounted, AllRunning
  <2>6. ASSUME NEW h \in Ids, h # g
        PROVE  /\ ResidentRuns(h)' /\ HandlePins(h)' /\ WorkIsRooted(h)' /\ DropsRun(h)'
               /\ OwnerlessIsStopped(h)' /\ StopsCounted(h)'
    BY <1>1, <2>1, <2>2, <2>6 DEF ResidentRuns, HandlePins, WorkIsRooted, DropsRun,
       OwnerlessIsStopped, StopsCounted, AllRunning, NoneRunning
  <2>7. DependenciesOutlive'
    BY <2>2 DEF DependenciesOutlive
  <2>8. LoadInOrder' /\ StopInReverse'
    BY <1>1, <2>1 DEF LoadInOrder, StopInReverse, NoCtl
  <2> QED
    BY <1>1, <2>1, <2>3, <2>4, <2>5, <2>6, <2>7, <2>8
<1> QED
  BY <1>3, <1>4

LEMMA ActivateInv == ASSUME Inv, NEW g \in Ids, NEW promote \in BOOLEAN, Activate(g, promote) PROVE Inv'
<1> USE NoneAssumption, StartupTyped DEF Inv, Ownership
<1>1. /\ status[g] = "candidate" /\ ~closed /\ dropping = {} /\ ctl = NoCtl
      /\ default' = default /\ root' = root /\ held' = held /\ busy' = busy
      /\ dropping' = dropping /\ closed' = closed
  BY DEF Activate, Control, Idle, leaseVars
<1>2. /\ image' \in [Ids -> [Plugins -> Image]] /\ stops' \in [Ids -> [Plugins -> Nat]]
      /\ \A p \in Plugins : image'[g][p] = "none" /\ stops'[g][p] = 0
      /\ \A h \in Ids : h # g => image'[h] = image[h] /\ stops'[h] = stops[h]
  BY DEF Activate, TypeOK, Image
<1>3. \/ /\ ctl' = [op |-> "load", gen |-> g, at |-> 1, promote |-> promote]
         /\ status' = status
      \/ ctl' = ctl /\ status' = [status EXCEPT ![g] = "failed"]
  BY DEF Activate
<1>4. /\ status' \in [Ids -> Status]
      /\ \A h \in Ids : h # g => status'[h] = status[h]
      /\ status'[g] \in {"candidate", "failed"}
  BY <1>1, <1>3 DEF TypeOK, Status
<1>5. ctl' \in Ctl
  BY <1>1, <1>3, CtlTyped
<1>6. TypeOK'
  BY <1>1, <1>2, <1>4, <1>5 DEF TypeOK
<1>7. ~held[g] /\ busy[g] = {}
  BY <1>1 DEF HandlePins, WorkIsRooted
<1>8. /\ ResidentRuns(g)' /\ HandlePins(g)' /\ WorkIsRooted(g)' /\ DropsRun(g)'
      /\ OwnerlessIsStopped(g)' /\ StopsCounted(g)'
  BY <1>1, <1>2, <1>4, <1>7 DEF ResidentRuns, HandlePins, WorkIsRooted, DropsRun,
     OwnerlessIsStopped, StopsCounted, NoneRunning
<1>9. ASSUME NEW h \in Ids, h # g
      PROVE  /\ ResidentRuns(h)' /\ HandlePins(h)' /\ WorkIsRooted(h)' /\ DropsRun(h)'
             /\ OwnerlessIsStopped(h)' /\ StopsCounted(h)'
  <2>1. image'[h] = image[h] /\ stops'[h] = stops[h] /\ status'[h] = status[h]
    BY <1>2, <1>4, <1>9
  <2>2. ResidentRuns(h)' /\ HandlePins(h)' /\ WorkIsRooted(h)' /\ DropsRun(h)' /\ StopsCounted(h)'
    BY <1>1, <2>1 DEF ResidentRuns, HandlePins, WorkIsRooted, DropsRun, StopsCounted, AllRunning
  <2>3. ctl.gen # h
    BY <1>1 DEF NoCtl
  <2>4. OwnerlessIsStopped(h)'
    BY <1>1, <2>1, <2>3 DEF OwnerlessIsStopped, NoneRunning
  <2> QED
    BY <2>2, <2>4
<1>10. LoadInOrder' /\ StopInReverse'
  BY <1>1, <1>2, <1>3 DEF LoadInOrder, StopInReverse, NoCtl
<1>11. DependenciesOutlive'
  <2>1. SUFFICES ASSUME NEW h \in Ids, NEW i \in DOMAIN Startup, NEW j \in DOMAIN Startup,
                        i < j, image'[h][Startup[j]] = "running"
                 PROVE  image'[h][Startup[i]] = "running"
    BY DEF DependenciesOutlive
  <2>2. h # g
    BY <1>2, <2>1
  <2>3. image'[h] = image[h]
    BY <1>2, <2>2
  <2>4. image[h][Startup[i]] = "running"
    BY <2>1, <2>3 DEF DependenciesOutlive
  <2> QED
    BY <2>3, <2>4
<1>12. /\ ctl'.op = "idle" => ctl' = NoCtl
       /\ closed' => status' = [h \in Ids |-> "absent"]
       /\ default' # None => status'[default'] = "resident"
  BY <1>1, <1>3, <1>4 DEF TypeOK
<1> QED
  BY <1>6, <1>8, <1>9, <1>10, <1>11, <1>12

LEMMA AdmitInv == ASSUME Inv, NEW g \in Ids, Admit(g) PROVE Inv'
<1> USE StartupTyped, CtlTyped, NoneAssumption
    DEF Inv, Admit, Control, Idle, imageVars
<1>1. TypeOK'
  BY DEF TypeOK, Status, Image, LoadInOrder, StopInReverse, Ownership
<1>2. Ownership'
  BY DEF TypeOK, Status, Image, Ownership, ResidentRuns, HandlePins, WorkIsRooted, DropsRun,
         OwnerlessIsStopped, StopsCounted, LoadInOrder, StopInReverse, DependenciesOutlive,
         AllRunning, NoneRunning
<1> QED
  BY <1>1, <1>2

LEMMA WorkInv == ASSUME Inv, NEW g \in Ids, Work(g) PROVE Inv'
<1> USE StartupTyped, CtlTyped, NoneAssumption
    DEF Inv, Work, Idle, imageVars
<1>1. TypeOK'
  BY DEF TypeOK, Status, Image, LoadInOrder, StopInReverse, Ownership
<1>2. Ownership'
  BY DEF TypeOK, Status, Image, Ownership, ResidentRuns, HandlePins, WorkIsRooted, DropsRun,
         OwnerlessIsStopped, StopsCounted, LoadInOrder, StopInReverse, DependenciesOutlive,
         AllRunning, NoneRunning
<1> QED
  BY <1>1, <1>2

LEMMA DropRootInv == ASSUME Inv, NEW g \in Ids, DropRoot(g) PROVE Inv'
<1> USE StartupTyped, CtlTyped, NoneAssumption
    DEF Inv, DropRoot, Idle, DroppedWithHandle, imageVars
<1>1. TypeOK'
  BY DEF TypeOK, Status, Image, LoadInOrder, StopInReverse, Ownership
<1>2. Ownership'
  BY DEF TypeOK, Status, Image, Ownership, ResidentRuns, HandlePins, WorkIsRooted, DropsRun,
         OwnerlessIsStopped, StopsCounted, LoadInOrder, StopInReverse, DependenciesOutlive,
         AllRunning, NoneRunning
<1> QED
  BY <1>1, <1>2

LEMMA DrainCancelledInv == ASSUME Inv, NEW g \in Ids, DrainCancelled(g) PROVE Inv'
<1> USE StartupTyped, CtlTyped, NoneAssumption
    DEF Inv, DrainCancelled, Control, Idle, imageVars
<1>1. TypeOK'
  BY DEF TypeOK, Status, Image, LoadInOrder, StopInReverse, Ownership
<1>2. Ownership'
  BY DEF TypeOK, Status, Image, Ownership, ResidentRuns, HandlePins, WorkIsRooted, DropsRun,
         OwnerlessIsStopped, StopsCounted, LoadInOrder, StopInReverse, DependenciesOutlive,
         AllRunning, NoneRunning
<1> QED
  BY <1>1, <1>2

LEMMA StartNextInv == ASSUME Inv, StartNext PROVE Inv'
<1>1. /\ ctl.op = "load" /\ ctl.at <= Len(Startup)
      /\ image' = [image EXCEPT ![ctl.gen][Startup[ctl.at]] = "running"]
      /\ ctl' = [ctl EXCEPT !.at = ctl.at + 1]
      /\ UNCHANGED <<status, default, stops, root, held, busy, dropping, closed>>
  BY DEF StartNext, Loading, leaseVars
<1>2. ctl.gen \in Ids /\ ctl.at \in 1..Len(Startup)
  BY <1>1, LoadFacts
<1>3. /\ ctl' \in Ctl /\ ctl'.op = "load" /\ ctl'.gen = ctl.gen /\ ctl'.at = ctl.at + 1
  <2>1. ctl \in Ctl /\ ctl.at + 1 \in 0..(Len(Startup) + 1)
    BY <1>2, StartupTyped DEF Inv, TypeOK
  <2> QED
    BY <1>1, <2>1, CtlTyped
<1>4. Started
  BY <1>1, <1>3, StartEffect
<1>5. TypeOK'
  BY <1>1, <1>3, <1>4 DEF Inv, TypeOK, Started
<1>6. LoadInOrder' /\ StopInReverse'
  BY <1>1, <1>2, <1>3, <1>4, LoadFacts DEF LoadInOrder, StopInReverse, Started
<1> QED
  BY <1>1, <1>3, <1>4, <1>5, <1>6 DEF Inv, Ownership, Started

LEMMA CreateFailsInv == ASSUME Inv, CreateFails PROVE Inv'
<1> USE DEF Inv, Ownership
<1>1. /\ ctl.op = "load" /\ ctl' = Stopping(ctl.gen, Len(Startup))
      /\ UNCHANGED <<status, default, image, stops, root, held, busy, dropping, closed>>
  BY DEF CreateFails, Loading, imageVars, leaseVars
<1>2. ctl.gen \in Ids
  BY <1>1, LoadFacts
<1>3. ctl' \in Ctl /\ ctl'.op = "stop" /\ ctl'.gen = ctl.gen /\ ctl'.at = Len(Startup)
  BY <1>1, <1>2, CtlTyped, StartupTyped DEF Stopping
<1>4. TypeOK'
  BY <1>1, <1>3 DEF TypeOK
<1>5. LoadInOrder' /\ StopInReverse'
  BY <1>1, <1>2, <1>3, LoadFacts, StartupTyped DEF LoadInOrder, StopInReverse
<1>6. \A h \in Ids : /\ ResidentRuns(h)' /\ HandlePins(h)' /\ WorkIsRooted(h)'
                     /\ DropsRun(h)' /\ OwnerlessIsStopped(h)' /\ StopsCounted(h)'
  BY <1>1, <1>3 DEF ResidentRuns, HandlePins, WorkIsRooted, DropsRun, OwnerlessIsStopped,
     StopsCounted, AllRunning, NoneRunning
<1> QED
  BY <1>1, <1>3, <1>4, <1>5, <1>6 DEF DependenciesOutlive

LEMMA InitializeFailsInv == ASSUME Inv, InitializeFails PROVE Inv'
<1>1. /\ ctl.op = "load" /\ ctl.at <= Len(Startup)
      /\ image' = [image EXCEPT ![ctl.gen][Startup[ctl.at]] = "running"]
      /\ ctl' = Stopping(ctl.gen, Len(Startup))
      /\ UNCHANGED <<status, default, stops, root, held, busy, dropping, closed>>
  BY DEF InitializeFails, UnwindFromLast, Loading, leaseVars
<1>2. ctl.gen \in Ids
  BY <1>1, LoadFacts
<1>3. ctl' \in Ctl /\ ctl'.op = "stop" /\ ctl'.gen = ctl.gen /\ ctl'.at = Len(Startup)
  BY <1>1, <1>2, CtlTyped, StartupTyped DEF Stopping
<1>4. Started
  BY <1>1, <1>3, StartEffect
<1>5. TypeOK'
  BY <1>1, <1>3, <1>4 DEF Inv, TypeOK, Started
<1>6. LoadInOrder' /\ StopInReverse'
  BY <1>1, <1>2, <1>3, <1>4, LoadFacts, StartupTyped DEF LoadInOrder, StopInReverse, Started
<1> QED
  BY <1>1, <1>3, <1>4, <1>5, <1>6 DEF Inv, Ownership, Started

LEMMA LoadDoneInv == ASSUME Inv, LoadDone PROVE Inv'
<1> USE NoneAssumption DEF Inv, Ownership
<1>1. /\ ctl.op = "load" /\ ctl.at > Len(Startup) /\ ctl' = NoCtl
      /\ status' = [status EXCEPT ![ctl.gen] = "resident"]
      /\ default' = IF ctl.promote THEN ctl.gen ELSE default
      /\ UNCHANGED <<image, stops, root, held, busy, dropping, closed>>
  BY DEF LoadDone, imageVars, leaseVars
<1>2. /\ ctl.gen \in Ids /\ status[ctl.gen] = "candidate" /\ ~closed
      /\ ~held[ctl.gen] /\ busy[ctl.gen] = {} /\ ctl.gen \notin dropping
  BY <1>1, LoadFacts
<1>3. AllRunning(ctl.gen)
  <2>1. \A i \in 1..Len(Startup) : image[ctl.gen][Startup[i]] = "running"
    BY <1>1, LoadFacts, StartupTyped
  <2> QED
    BY <2>1, StartupOnto DEF AllRunning
<1>4. /\ status' \in [Ids -> Status] /\ status'[ctl.gen] = "resident"
      /\ \A h \in Ids : h # ctl.gen => status'[h] = status[h]
  BY <1>1, <1>2 DEF TypeOK, Status
<1>5. default' # None => default' \in Ids /\ status'[default'] = "resident"
  BY <1>1, <1>2, <1>4 DEF TypeOK
<1>6. TypeOK'
  BY <1>1, <1>4, <1>5, CtlTyped DEF TypeOK
<1>7. ASSUME NEW h \in Ids
      PROVE  /\ ResidentRuns(h)' /\ HandlePins(h)' /\ WorkIsRooted(h)' /\ DropsRun(h)'
             /\ OwnerlessIsStopped(h)' /\ StopsCounted(h)'
  <2>1. CASE h = ctl.gen
    BY <1>1, <1>2, <1>3, <1>4, <2>1 DEF ResidentRuns, HandlePins, WorkIsRooted, DropsRun,
       OwnerlessIsStopped, StopsCounted, AllRunning
  <2>2. CASE h # ctl.gen
    BY <1>1, <1>4, <2>2 DEF ResidentRuns, HandlePins, WorkIsRooted, DropsRun,
       OwnerlessIsStopped, StopsCounted, AllRunning, NoneRunning
  <2> QED
    BY <2>1, <2>2
<1>8. LoadInOrder' /\ StopInReverse' /\ DependenciesOutlive'
  BY <1>1 DEF LoadInOrder, StopInReverse, DependenciesOutlive, NoCtl
<1> QED
  BY <1>1, <1>2, <1>5, <1>6, <1>7, <1>8

LEMMA StopNextInv == ASSUME Inv, StopNext PROVE Inv'
<1> USE NoneAssumption, StartupTyped DEF Inv, Ownership
<1>0. /\ ctl.op = "stop" /\ ctl.gen \in Ids
      /\ ctl.at \in 1..Len(Startup) /\ Startup[ctl.at] \in Plugins
  BY CtlTyped DEF StopNext, TypeOK, StopInReverse
<1> PICK k \in Ids, n \in 1..Len(Startup), q \in Plugins :
      k = ctl.gen /\ n = ctl.at /\ q = Startup[n]
  BY <1>0
<1>1. /\ status' = status /\ default' = default /\ root' = root /\ held' = held
      /\ busy' = busy /\ dropping' = dropping /\ closed' = closed
      /\ ctl' = [ctl EXCEPT !.at = n - 1]
      /\ \/ /\ image[k][q] = "running"
            /\ image' = [image EXCEPT ![k][q] = "stopped"]
            /\ stops' = [stops EXCEPT ![k][q] = @ + 1]
         \/ image[k][q] # "running" /\ image' = image /\ stops' = stops
  BY DEF StopNext, NextToStop, leaseVars, imageVars
<1>2. ctl' \in Ctl /\ ctl'.op = "stop" /\ ctl'.gen = k /\ ctl'.at = n - 1
  <2>1. ctl \in Ctl /\ n - 1 \in 0..(Len(Startup) + 1)
    BY DEF TypeOK
  <2> QED
    BY <1>0, <1>1, <2>1, CtlTyped
<1>3. /\ image' \in [Ids -> [Plugins -> Image]] /\ stops' \in [Ids -> [Plugins -> Nat]]
      /\ image'[k][q] # "running"
      /\ \A p \in Plugins : p # q => image'[k][p] = image[k][p] /\ stops'[k][p] = stops[k][p]
      /\ \A h \in Ids : h # k => image'[h] = image[h] /\ stops'[h] = stops[h]
  <2>1. image \in [Ids -> [Plugins -> Image]] /\ stops \in [Ids -> [Plugins -> Nat]]
    BY DEF TypeOK
  <2>2. CASE image' = image /\ stops' = stops
    BY <1>1, <2>1, <2>2, SMTT(30)
  <2>3. CASE /\ image' = [image EXCEPT ![k][q] = "stopped"]
             /\ stops' = [stops EXCEPT ![k][q] = @ + 1]
    <3>1. image' \in [Ids -> [Plugins -> Image]]
      BY <2>1, <2>3 DEF Image
    <3>2. stops' \in [Ids -> [Plugins -> Nat]]
      BY <2>1, <2>3
    <3> QED
      BY <2>1, <2>3, <3>1, <3>2
  <2> QED
    BY <1>1, <2>2, <2>3
<1>4. TypeOK'
  BY <1>1, <1>2, <1>3 DEF TypeOK
<1>5. stops'[k][q] = IF image'[k][q] = "stopped" THEN 1 ELSE 0
  <2>1. stops[k][q] = IF image[k][q] = "stopped" THEN 1 ELSE 0
    BY DEF StopsCounted
  <2>2. image \in [Ids -> [Plugins -> Image]] /\ stops \in [Ids -> [Plugins -> Nat]]
    BY DEF TypeOK
  <2> QED
    BY <1>1, <2>1, <2>2
<1>6. /\ status[k] \in {"candidate", "absent"} /\ ~held[k] /\ busy[k] = {} /\ k \notin dropping
      /\ \A i \in DOMAIN Startup : i > n => image[k][Startup[i]] # "running"
  BY <1>0 DEF StopInReverse
<1>7. StopInReverse' /\ LoadInOrder'
  <2>1. ASSUME NEW i \in DOMAIN Startup, i > n - 1
        PROVE  image'[k][Startup[i]] # "running"
    <3>1. CASE i = n
      BY <1>3, <3>1
    <3>2. CASE i > n
      <4>1. Startup[i] \in Plugins /\ Startup[i] # q
        BY <3>2, StartupInjective
      <4> QED
        BY <1>3, <1>6, <3>2, <4>1, ZenonT(40)
    <3> QED
      BY <2>1, <3>1, <3>2
  <2> QED
    BY <1>1, <1>2, <1>6, <2>1 DEF StopInReverse, LoadInOrder
<1>8. /\ ResidentRuns(k)' /\ HandlePins(k)' /\ WorkIsRooted(k)' /\ DropsRun(k)'
      /\ OwnerlessIsStopped(k)'
  BY <1>1, <1>2, <1>6 DEF ResidentRuns, HandlePins, WorkIsRooted, DropsRun, OwnerlessIsStopped
<1>9. StopsCounted(k)'
  <2>1. SUFFICES ASSUME NEW p \in Plugins
                 PROVE  stops'[k][p] = IF image'[k][p] = "stopped" THEN 1 ELSE 0
    BY DEF StopsCounted
  <2>2. stops[k][p] = IF image[k][p] = "stopped" THEN 1 ELSE 0
    BY DEF StopsCounted
  <2> QED
    BY <1>3, <1>5, <2>2
<1>10. ASSUME NEW h \in Ids, h # k
       PROVE  /\ ResidentRuns(h)' /\ HandlePins(h)' /\ WorkIsRooted(h)' /\ DropsRun(h)'
              /\ OwnerlessIsStopped(h)' /\ StopsCounted(h)'
  <2>1. image'[h] = image[h] /\ stops'[h] = stops[h]
    BY <1>3, <1>10
  <2>2. ResidentRuns(h)' /\ HandlePins(h)' /\ WorkIsRooted(h)' /\ DropsRun(h)' /\ StopsCounted(h)'
    BY <1>1, <2>1 DEF ResidentRuns, HandlePins, WorkIsRooted, DropsRun, StopsCounted, AllRunning
  <2>3. OwnerlessIsStopped(h)'
    BY <1>1, <1>2, <2>1 DEF OwnerlessIsStopped, NoneRunning
  <2> QED
    BY <2>2, <2>3
<1>11. DependenciesOutlive'
  <2>1. SUFFICES ASSUME NEW h \in Ids, NEW i \in DOMAIN Startup, NEW j \in DOMAIN Startup,
                        i < j, image'[h][Startup[j]] = "running"
                 PROVE  image'[h][Startup[i]] = "running"
    BY DEF DependenciesOutlive
  <2>2. CASE h # k
    <3>1. image'[h] = image[h]
      BY <1>3, <2>2
    <3>2. image[h][Startup[i]] = "running"
      BY <2>1, <3>1 DEF DependenciesOutlive
    <3> QED
      BY <3>1, <3>2
  <2>3. CASE h = k
    <3>1. image[k][Startup[j]] = "running" /\ j < n
      BY <1>3, <1>6, <2>1, <2>3
    <3>2. image[k][Startup[i]] = "running" /\ Startup[i] # q
      BY <2>1, <3>1, StartupInjective DEF DependenciesOutlive
    <3> QED
      BY <1>3, <2>3, <3>2
  <2> QED
    BY <2>2, <2>3
<1> QED
  BY <1>1, <1>2, <1>4, <1>7, <1>8, <1>9, <1>10, <1>11

LEMMA StopDoneInv == ASSUME Inv, StopDone PROVE Inv'
<1> USE NoneAssumption, StartupTyped DEF Inv, Ownership
<1>0. ctl.op = "stop" /\ ctl.at = 0 /\ ctl.gen \in Ids
  BY DEF StopDone, StopInReverse
<1> PICK k \in Ids : k = ctl.gen
  BY <1>0
<1>1. /\ status[k] \in {"candidate", "absent"} /\ ~held[k] /\ busy[k] = {} /\ k \notin dropping
      /\ NoneRunning(k)
  BY <1>0, StartupOnto DEF StopInReverse, NoneRunning
<1>2. /\ default' = default /\ image' = image /\ stops' = stops /\ root' = root
      /\ held' = held /\ busy' = busy /\ dropping' = dropping /\ closed' = closed
      /\ ctl' = NoCtl
      /\ status' = IF status[k] = "candidate" THEN [status EXCEPT ![k] = "failed"] ELSE status
  BY DEF StopDone, imageVars, leaseVars
<1>3. /\ status' \in [Ids -> Status] /\ status'[k] \in {"failed", "absent"}
      /\ \A h \in Ids : h # k => status'[h] = status[h]
  BY <1>1, <1>2 DEF TypeOK, Status
<1>4. default' # None => default # k /\ status'[default'] = "resident"
  BY <1>1, <1>2, <1>3 DEF TypeOK
<1>5. TypeOK'
  BY <1>2, <1>3, <1>4, CtlTyped DEF TypeOK
<1>6. /\ ResidentRuns(k)' /\ HandlePins(k)' /\ WorkIsRooted(k)' /\ DropsRun(k)'
      /\ OwnerlessIsStopped(k)' /\ StopsCounted(k)'
  BY <1>1, <1>2, <1>3 DEF ResidentRuns, HandlePins, WorkIsRooted, DropsRun,
     OwnerlessIsStopped, StopsCounted, NoneRunning
<1>7. ASSUME NEW h \in Ids, h # k
      PROVE  /\ ResidentRuns(h)' /\ HandlePins(h)' /\ WorkIsRooted(h)' /\ DropsRun(h)'
             /\ OwnerlessIsStopped(h)' /\ StopsCounted(h)'
  BY <1>2, <1>3, <1>7 DEF ResidentRuns, HandlePins, WorkIsRooted, DropsRun,
     OwnerlessIsStopped, StopsCounted, AllRunning, NoneRunning
<1>8. LoadInOrder' /\ StopInReverse' /\ DependenciesOutlive'
  BY <1>2 DEF LoadInOrder, StopInReverse, DependenciesOutlive, NoCtl
<1>9. closed' => status' = [h \in Ids |-> "absent"]
  BY <1>1, <1>2
<1> QED
  BY <1>2, <1>4, <1>5, <1>6, <1>7, <1>8, <1>9

LEMMA CloseInv == ASSUME Inv, Close PROVE Inv'
<1> USE StartupTyped, CtlTyped, NoneAssumption
    DEF Inv, Close, Control, Idle, NoCtl, imageVars, leaseVars
<1>1. TypeOK'
  BY DEF TypeOK, Status, Image, LoadInOrder, StopInReverse, Ownership
<1>2. Ownership'
  BY DEF TypeOK, Status, Image, Ownership, ResidentRuns, HandlePins, WorkIsRooted, DropsRun,
         OwnerlessIsStopped, StopsCounted, LoadInOrder, StopInReverse, DependenciesOutlive,
         AllRunning, NoneRunning
<1> QED
  BY <1>1, <1>2

(* A step that changes nothing. *)
LEMMA StutterInv == ASSUME Inv, UNCHANGED vars PROVE Inv'
<1>1. /\ UNCHANGED <<status, default, image, stops, root, held, busy, ctl, dropping, closed>>
  BY DEF vars
<1>2. TypeOK'
  BY <1>1 DEF Inv, TypeOK
<1>3. Ownership'
  BY <1>1 DEF Inv, Ownership, ResidentRuns, HandlePins, WorkIsRooted, DropsRun,
     OwnerlessIsStopped, StopsCounted, LoadInOrder, StopInReverse, DependenciesOutlive,
     AllRunning, NoneRunning
<1> QED
  BY <1>2, <1>3 DEF Inv

(* One case per disjunct of Next. *)
LEMMA NextInv == ASSUME Inv, [Next]_vars PROVE Inv'
<1>1. CASE StartNext
  BY <1>1, StartNextInv
<1>2. CASE CreateFails
  BY <1>2, CreateFailsInv
<1>3. CASE InitializeFails
  BY <1>3, InitializeFailsInv
<1>4. CASE LoadDone
  BY <1>4, LoadDoneInv
<1>5. CASE StopNext
  BY <1>5, StopNextInv
<1>6. CASE StopDone
  BY <1>6, StopDoneInv
<1>7. CASE Close
  BY <1>7, CloseInv
<1>8. ASSUME NEW g \in Ids, InstallCandidate(g) \/ PromoteResident(g) \/ Retire(g) \/ DropKernel(g)
      PROVE  Inv'
  BY <1>8, InstallCandidateInv, PromoteResidentInv, RetireInv, DropKernelInv
<1>9. ASSUME NEW g \in Ids, NEW promote \in BOOLEAN, Activate(g, promote)
      PROVE  Inv'
  BY <1>9, ActivateInv
<1>10. ASSUME NEW g \in Ids, Admit(g) \/ Work(g) \/ DropRoot(g) \/ DrainCancelled(g)
       PROVE  Inv'
  BY <1>10, AdmitInv, WorkInv, DropRootInv, DrainCancelledInv
<1>11. CASE UNCHANGED vars
  BY <1>11, StutterInv
<1> QED
  BY <1>1, <1>2, <1>3, <1>4, <1>5, <1>6, <1>7, <1>8, <1>9, <1>10, <1>11 DEF Next

(* TypeOK and Ownership hold together at every step (generation.rs, runtime.rs). *)
THEOREM InvHolds == Spec => []Inv
<1>1. Init => Inv
  BY InitInv
<1>2. Inv /\ [Next]_vars => Inv'
  BY NextInv
<1> QED
  BY <1>1, <1>2, PTL DEF Spec

(***************************************************************************)
(* The properties.                                                          *)
(***************************************************************************)

(* Every variable keeps its type, and the default names a generation of the
   map (generation.rs, native.rs). *)
THEOREM TypeCorrect == Spec => []TypeOK
<1>1. Inv => TypeOK
  BY DEF Inv
<1> QED
  BY <1>1, InvHolds, PTL

(* Every kernel has the owners its images, its leases and the control plane
   agree on (Generations, Root::pin, Drop for Kernel). *)
THEOREM KernelsAreOwned == Spec => []Ownership
<1>1. Inv => Ownership
  BY DEF Inv
<1> QED
  BY <1>1, InvHolds, PTL

(* Native code that may still run keeps the images of its whole closure, for
   any number of generations and plugins (blockers, Drop for Kernel). *)
THEOREM LeasesAlwaysKeepImages == Spec => []LeasesKeepImages
<1>1. Inv => LeasesKeepImages
  BY DEF Inv, Ownership, WorkIsRooted, LeasesKeepImages
<1> QED
  BY <1>1, InvHolds, PTL

(* A root stays usable on its own generation, whatever is promoted, retired or
   dropped meanwhile (Root::pin, retire). *)
THEOREM RootsStayPinned == Spec => []RootsPinTheirGeneration
<1>1. Inv => RootsPinTheirGeneration
  BY DEF Inv, Ownership, HandlePins, AllRunning, RootsPinTheirGeneration
<1> QED
  BY <1>1, InvHolds, PTL

(* The default can admit a root at any time (promote, retire). *)
THEOREM DefaultAlwaysRuns == Spec => []DefaultIsRunning
<1>1. Inv => DefaultIsRunning
  BY DEF Inv, TypeOK, Ownership, ResidentRuns, AllRunning, DefaultIsRunning
<1> QED
  BY <1>1, InvHolds, PTL

(* No plugin runs without those it was started after (load_generation,
   stop_images). *)
THEOREM DependenciesAlwaysOutlive == Spec => []DependenciesOutlive
<1>1. Inv => DependenciesOutlive
  BY DEF Inv, Ownership
<1> QED
  BY <1>1, InvHolds, PTL

(* No instance is stopped twice, and none survives its kernel unless it was
   leaked under a lease (Native::stop, stop_images). *)
THEOREM EveryInstanceIsStoppedOnce == Spec => []StoppedExactlyOnce
<1>1. Inv => StoppedExactlyOnce
  <2>1. ASSUME Inv, NEW g \in Ids, NEW p \in Plugins
        PROVE  stops[g][p] = IF image[g][p] = "stopped" THEN 1 ELSE 0
    BY <2>1 DEF Inv, Ownership, StopsCounted
  <2>2. ASSUME Inv, NEW g \in Ids, NEW p \in Plugins,
               Idle, status[g] # "resident", ~held[g]
        PROVE  image[g][p] # "running"
    BY <2>2, NoneAssumption
       DEF Inv, Ownership, OwnerlessIsStopped, NoneRunning, Idle, NoCtl
  <2> QED
    BY <2>1, <2>2 DEF StoppedExactlyOnce
<1> QED
  BY <1>1, InvHolds, PTL

(* All of it together, for any number of generations and plugins. *)
THEOREM GenerationsAlwaysSafe == Spec => []GenerationsAreSafe
  BY TypeCorrect, KernelsAreOwned, LeasesAlwaysKeepImages, RootsStayPinned,
     DefaultAlwaysRuns, DependenciesAlwaysOutlive, EveryInstanceIsStoppedOnce, PTL
     DEF GenerationsAreSafe
=============================================================================
