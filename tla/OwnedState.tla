------------------------------ MODULE OwnedState ------------------------------
(***************************************************************************)
(* One plugin instance as the `plugin` attribute generates it: created,    *)
(* initialized once, entered by invoke, poll and cancel, and stopped; with  *)
(* its owner-held fields, which are published to property cells before the  *)
(* Rust field changes.  The kernel's side is one ticket at a time, for it   *)
(* admits no second call to a provider whose work is not quiescent.         *)
(*                                                                         *)
(* What a hook does between its entry and its reply is up to the plugin: it *)
(* publishes, starts or ends physical work, returns anything or panics.     *)
(***************************************************************************)
EXTENDS Naturals, FiniteSets

CONSTANTS Properties,     \* the fields marked `expose`
          Values,         \* what a field may hold
          Synchronous,    \* operations with a `provide` handler
          Pending,        \* operations with `pending`, `poll` and `cancel` hooks
          None,
          MaxRevision, MaxCalls   \* bounds of the model

OwnedStateAssumption ==
    /\ Synchronous \cap Pending = {} /\ Values # {} /\ None \notin Values
    /\ MaxRevision \in Nat /\ MaxCalls \in Nat

Operations == Synchronous \cup Pending

VARIABLES
    phase,        \* "absent", "created", "up", "failed" or "stopped", for the kernel
    initialized, poisoned,   \* the flags of __Instance
    field,        \* State.FIELD of each property
    sidecar,      \* State.__published_FIELD: the revision, or None before it is bound
    cells,        \* the property's cell in the kernel: [revision, value], or None
    entry,        \* the entry into the instance that is running, or None
    work,         \* physical work of the plugin that outlives its entry
    ticket,       \* the kernel's record of the call, or None
    calls,        \* calls made, for the bound
    panicked      \* history: a hook or handler panicked

instanceVars == <<phase, initialized, poisoned>>
fieldVars == <<field, sidecar, cells>>
callVars == <<ticket, calls>>
vars == <<instanceVars, fieldVars, entry, work, callVars, panicked>>

Modes == {"initialize", "invoke", "poll", "cancel"}

(* effects: the host accepts this entry's requests (grant, resource, no revocation);
   was: instance.poisoned at the entry, put back when the hook returns. *)
Entry == [mode: Modes, op: Operations \cup {None}, ticket: BOOLEAN,
          effects: BOOLEAN, was: BOOLEAN]

Ticket == [op: Operations, logical: {"Pending", "Ready", "Failed", "Cancelled"},
           quiescent: BOOLEAN, cancelled: BOOLEAN]

Snapshot == [revision: 0 .. MaxRevision, value: Values]

(* Nothing is not something. *)
NoneAssumption == None \notin Operations \cup Nat \cup Snapshot \cup Entry \cup Ticket

TypeOK ==
    /\ phase \in {"absent", "created", "up", "failed", "stopped"}
    /\ initialized \in BOOLEAN /\ poisoned \in BOOLEAN
    /\ field \in [Properties -> Values]
    /\ sidecar \in [Properties -> 0 .. MaxRevision \cup {None}]
    /\ cells \in [Properties -> Snapshot \cup {None}]
    /\ entry \in Entry \cup {None} /\ work \in BOOLEAN
    /\ ticket \in Ticket \cup {None} /\ calls \in 0 .. MaxCalls /\ panicked \in BOOLEAN
    /\ entry # None => poisoned

Initial == CHOOSE v \in Values : TRUE    \* State::default()

Init ==
    /\ phase = "absent" /\ initialized = FALSE /\ poisoned = FALSE
    /\ field = [p \in Properties |-> Initial]
    /\ sidecar = [p \in Properties |-> None] /\ cells = [p \in Properties |-> None]
    /\ entry = None /\ work = FALSE /\ ticket = None /\ calls = 0 /\ panicked = FALSE

-----------------------------------------------------------------------------
(* Create and initialize. *)

(* __create: a panic of State::default() leaves no instance behind. *)
Create ==
    /\ phase = "absent"
    /\ \/ phase' = "created" /\ UNCHANGED panicked
       \/ phase' = "stopped" /\ panicked' = TRUE
    /\ UNCHANGED <<initialized, poisoned, fieldVars, entry, work, callVars>>

(* __initialize: single use, and poisoned until all of it has succeeded. *)
Initialize ==
    /\ phase = "created" /\ entry = None /\ ~initialized
    /\ initialized' = TRUE /\ poisoned' = TRUE
    /\ entry' = [mode |-> "initialize", op |-> None, ticket |-> FALSE,
                 effects |-> TRUE, was |-> FALSE]
    /\ UNCHANGED <<phase, fieldVars, work, callVars, panicked>>

Initializing == entry # None /\ entry.mode = "initialize"

(* The generated bindings: create the cell and keep its reference beside the field. *)
Bind(p) ==
    /\ Initializing /\ sidecar[p] = None
    /\ cells' = [cells EXCEPT ![p] = [revision |-> 0, value |-> field[p]]]
    /\ sidecar' = [sidecar EXCEPT ![p] = 0]
    /\ UNCHANGED <<instanceVars, field, entry, work, callVars, panicked>>

(* The start hook succeeds after every binding. *)
Initialized ==
    /\ Initializing /\ \A p \in Properties : sidecar[p] # None
    /\ phase' = "up" /\ poisoned' = FALSE /\ entry' = None
    /\ UNCHANGED <<initialized, fieldVars, work, callVars, panicked>>

(* A binding or the start hook fails (its panic is caught by `lifecycle`): the
   kernel abandons the load, and the instance stays poisoned until it is stopped. *)
InitializeFails ==
    /\ Initializing
    /\ phase' = "failed" /\ entry' = None
    /\ UNCHANGED <<initialized, poisoned, fieldVars, work, callVars, panicked>>

-----------------------------------------------------------------------------
(* The kernel's side of a reply: accept_reply without children. *)

Quiescent(status) == status \in {0, 1, 5}

Accepted(t, status) ==
    CASE status = 3 -> t
      [] status = 4 /\ t.cancelled -> [t EXCEPT !.quiescent = TRUE]
      [] OTHER ->
            LET ok == status \in {0, 1}
            IN [t EXCEPT !.quiescent = @ \/ Quiescent(status),
                         !.logical = IF @ # "Pending" THEN @
                                     ELSE IF ok THEN "Ready" ELSE "Failed"]

(* A call without a ticket returns to its caller; one with a ticket is recorded. *)
Reply(status, e) ==
    ticket' = IF e.ticket THEN Accepted(ticket, status) ELSE ticket

NewTicket(op) ==
    [op |-> op, logical |-> "Pending", quiescent |-> FALSE,
     cancelled |-> FALSE]

(* __entry: what the instance refuses before any hook runs. *)
Admits(mode) == initialized /\ ~(poisoned /\ mode = "invoke")

(* Invoke, through a ticket (begin) or without one (invoke); the kernel admits no
   second call while the provider has a live ticket. *)
Invoke(op, begins, allowed) ==
    LET e == [mode |-> "invoke", op |-> op, ticket |-> begins,
              effects |-> allowed, was |-> poisoned]
        refused == ~Admits("invoke") \/ (op \in Pending /\ ~begins)
    IN /\ phase = "up" /\ entry = None /\ ticket = None /\ calls < MaxCalls
       /\ calls' = calls + 1
       /\ IF refused
          THEN /\ ticket' = IF begins THEN Accepted(NewTicket(op), 5) ELSE None
               /\ UNCHANGED <<entry, poisoned>>
          ELSE /\ ticket' = IF begins THEN NewTicket(op) ELSE None
               /\ entry' = e /\ poisoned' = TRUE
       /\ UNCHANGED <<phase, initialized, fieldVars, work, panicked>>

(* enter_ticket: a cancelled or failed call has no host effects.  An operation with a
   synchronous handler has no poll or cancel hook: the generated entry fails (2). *)
Enter(mode, t, allowed) ==
    LET e == [mode |-> mode, op |-> t.op, ticket |-> TRUE,
              effects |-> allowed /\ ~t.cancelled /\ t.logical # "Failed", was |-> poisoned]
    IN IF t.op \in Pending /\ Admits(mode)
       THEN entry' = e /\ poisoned' = TRUE /\ ticket' = t
       ELSE /\ ticket' = Accepted(t, IF Admits(mode) THEN 2 ELSE 5)
            /\ UNCHANGED <<entry, poisoned>>

Live == ticket # None /\ ~ticket.quiescent /\ entry = None /\ phase = "up"

Poll(allowed) ==
    /\ Live
    /\ Enter("poll", ticket, allowed)
    /\ UNCHANGED <<phase, initialized, fieldVars, work, calls, panicked>>

(* cancel_ticket: once for each ticket. *)
Cancel ==
    /\ Live /\ ~ticket.cancelled
    /\ Enter("cancel", [ticket EXCEPT !.cancelled = TRUE,
                           !.logical = IF @ = "Pending" THEN "Cancelled" ELSE @], FALSE)
    /\ UNCHANGED <<phase, initialized, fieldVars, work, calls, panicked>>

(* The root takes the result, or releases a call whose lease is over. *)
Release ==
    /\ ticket # None /\ ticket.quiescent /\ entry = None
    /\ ticket' = None
    /\ UNCHANGED <<instanceVars, fieldVars, entry, work, calls, panicked>>

-----------------------------------------------------------------------------
(* What a handler or hook does. *)

Inside == entry # None /\ ~Initializing

(* Host::publish: compare-exchange from the sidecar's revision.  It fails on a
   revoked or unauthorized entry, or when the cell is at another revision. *)
Publishes(p) == entry.effects /\ cells[p].revision = sidecar[p]

Published(p, next) == [revision |-> cells[p].revision + 1, value |-> next]

(* Fault: the field is assigned before its publication. *)
AssignThenPublish(p, next) ==
    /\ field' = [field EXCEPT ![p] = next]
    /\ IF Publishes(p)
       THEN /\ cells' = [cells EXCEPT ![p] = Published(p, next)]
            /\ sidecar' = [sidecar EXCEPT ![p] = Published(p, next).revision]
       ELSE UNCHANGED <<cells, sidecar>>

(* publish_FIELD, update_FIELD and an accepted try_update_FIELD; a rejected
   try_update_FIELD changes nothing and is no step. *)
PublishField(p, next) ==
    IF Publishes(p)
    THEN /\ cells' = [cells EXCEPT ![p] = Published(p, next)]
         /\ field' = [field EXCEPT ![p] = next]
         /\ sidecar' = [sidecar EXCEPT ![p] = Published(p, next).revision]
    ELSE UNCHANGED fieldVars

Publish(p, next) ==
    /\ Inside /\ cells[p].revision < MaxRevision
    /\ PublishField(p, next)
    /\ UNCHANGED <<instanceVars, entry, work, callVars, panicked>>

(* Hooks of a pending operation start work, or end it; they own it (external). *)
Work(on) ==
    /\ Inside /\ entry.op \in Pending /\ work # on
    /\ on => entry.mode = "invoke"
    /\ work' = on
    /\ UNCHANGED <<instanceVars, fieldVars, entry, callVars, panicked>>

(* The statuses of a reply.  A handler's kernel error is quiescent (5); a pending
   hook that says so answers 5 too, and Ready with a kernel error 2.  A hook that
   says its work is over (0, 1, 4, 5) has ended it. *)
Statuses(e) ==
    CASE e.op \in Synchronous -> {0, 1, 5}
      [] e.mode = "cancel" -> {3} \cup (IF work THEN {} ELSE {4})
      [] OTHER -> {2, 3} \cup (IF work THEN {} ELSE {0, 1, 5})

(* The hook returns: the flag is what it was at the entry. *)
Return ==
    /\ Inside
    /\ \E status \in Statuses(entry) : Reply(status, entry)
    /\ poisoned' = entry.was /\ entry' = None
    /\ UNCHANGED <<phase, initialized, fieldVars, work, calls, panicked>>

(* `boundary` catches the panic; the flag stays set, and the reply is a failure. *)
Panic ==
    /\ Inside
    /\ Reply(2, entry)
    /\ panicked' = TRUE /\ entry' = None
    /\ UNCHANGED <<instanceVars, fieldVars, work, calls>>

(* __stop, when the kernel shuts down with every lease over or drops a failed load;
   whatever it answers, the instance is gone. *)
Stop ==
    /\ phase \in {"up", "failed"} /\ entry = None /\ ticket = None
    /\ phase' = "stopped"
    /\ UNCHANGED <<initialized, poisoned, fieldVars, entry, work, callVars, panicked>>

Next ==
    \/ Create \/ Initialize \/ Initialized \/ InitializeFails
    \/ \E p \in Properties : Bind(p)
    \/ \E op \in Operations, begins, allowed \in BOOLEAN : Invoke(op, begins, allowed)
    \/ \E allowed \in BOOLEAN : Poll(allowed)
    \/ Cancel \/ Release
    \/ \E p \in Properties, next \in Values : Publish(p, next)
    \/ \E on \in BOOLEAN : Work(on)
    \/ Return \/ Panic \/ Stop

Spec == Init /\ [][Next]_vars

(* The root keeps draining a cancelled call; hooks return, and the plugin's work
   ends once it is cancelled (the cooperation a provider owes). *)
Finishes ==
    /\ Inside /\ entry.mode \in {"poll", "cancel"} /\ ~work
    /\ Reply(IF entry.mode = "cancel" THEN 4 ELSE 5, entry)
    /\ poisoned' = entry.was /\ entry' = None
    /\ UNCHANGED <<phase, initialized, fieldVars, work, calls, panicked>>

WorkEndsWhenCancelled ==
    Inside /\ ticket # None /\ ticket.cancelled /\ Work(FALSE)

Fairness ==
    /\ WF_vars(\E allowed \in BOOLEAN : Poll(allowed))
    /\ WF_vars(Return \/ Panic) /\ SF_vars(Finishes)
    /\ SF_vars(WorkEndsWhenCancelled)

FairSpec == Spec /\ Fairness

-----------------------------------------------------------------------------

(* An owner's field is what its observers see, and its sidecar is the revision they
   see it at: after failed publications, rejected candidates and panics too. *)
FieldsArePublished ==
    \A p \in Properties :
        sidecar[p] # None => cells[p] = [revision |-> sidecar[p], value |-> field[p]]

(* No handler starts in an instance one of whose hooks panicked, or whose
   initialization did not bind every property. *)
PoisonedInstancesStartNothing ==
    entry = None /\ entry' # None /\ entry'.mode = "invoke"
        => ~panicked /\ \A p \in Properties : sidecar[p] # None

(* Between calls the flag says exactly that a hook panicked: a domain error, a kernel
   failure or a refused call does not condemn the instance. *)
PoisonedMeansPanicked ==
    phase = "up" /\ entry = None => (poisoned <=> panicked)

(* Physical work keeps its lease: nothing says quiescent while it runs, whatever
   panicked and whatever was refused, so that stop never comes under it. *)
WorkKeepsItsLease ==
    work => /\ ticket # None /\ ~ticket.quiescent
            /\ phase = "up"

(* A cancelled call of a pending operation drains, in a poisoned instance too. *)
ToBeDrained == ticket # None /\ ticket.cancelled /\ ticket.op \in Pending

Drained == ticket = None \/ ticket.quiescent

CancelledCallsDrain == ToBeDrained ~> Drained

(* Safety, as one formula. *)
InstancesKeepTheirFields ==
    /\ [](TypeOK /\ FieldsArePublished /\ WorkKeepsItsLease /\ PoisonedMeansPanicked)
    /\ [][PoisonedInstancesStartNothing]_vars
=============================================================================
