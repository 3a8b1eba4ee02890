--------------------------- MODULE PendingTickets ---------------------------
(***************************************************************************)
(* The pending-call runtime of the kernel: roots, imported tickets, their  *)
(* cancellation, draining and release.                                     *)
(*                                                                         *)
(* The kernel is single threaded, but its calls nest: native plugin code   *)
(* runs inside begin, poll and cancel, and may call the kernel back, which *)
(* enters other plugins.  `ctl` is the resulting stack of activations,     *)
(* innermost last: plugin code (a free choice of host calls and of a final *)
(* reply) and the kernel routines suspended below it.                      *)
(***************************************************************************)
EXTENDS Naturals, Sequences

CONSTANTS Providers,    \* selected plugin instances
          Imports,      \* <<caller, provider>>: the prepared bindings
          NoProvider,   \* "no CallGuard is held by this activation"
          MaxTickets,   \* bound on ticket identities ever allocated
          MaxRoots      \* bound on roots ever admitted

ASSUME ImportsAssumption == Imports \subseteq Providers \X Providers
ASSUME NoProviderAssumption == NoProvider \notin Providers
ASSUME BoundsAssumption == MaxTickets \in Nat /\ MaxRoots \in Nat

VARIABLES
    tickets,         \* State.tickets: partial function from ids to records
    ctl,             \* the stack of activations
    nextTicket,      \* NEXT_TICKET
    activeRoot,      \* State.active_root, 0 for None
    rootLive,        \* State.root_live
    nextRoot,        \* State.next_root
    completedRoots,  \* State.completed_roots
    watches,         \* tickets that own live cell subscriptions
    stopped,         \* State.stopped
    panic            \* the routine whose lookup of a ticket panicked, if any

vars == <<tickets, ctl, nextTicket, activeRoot, rootLive, nextRoot,
          completedRoots, watches, stopped, panic>>

rootVars == <<activeRoot, rootLive, nextRoot, completedRoots>>

Ids == Nat \ {0}

Logical == {"Pending", "Ready", "Failed", "Cancelled"}

Record ==
    [root: Ids, parent: Nat, provider: Providers, native_quiescent: BOOLEAN,
     logical: Logical, quiescent: BOOLEAN, delivered: BOOLEAN,
     cancelled: BOOLEAN, abandoned: BOOLEAN, result: {"none", "ok", "err"}]

(***************************************************************************)
(* Activations.  id is the ticket served (0: none), provider the instance  *)
(* whose CallGuard is held, todo the ids a loop has still to visit.        *)
(***************************************************************************)
Ops == {"native",       \* plugin code is running
        "awaitPoll",    \* plugin code is inside an imported poll of todo
        "settle",       \* accept_reply is in cancel_children
        "settled",      \* accept_reply has returned
        "drain",        \* drain_children
        "cancelTree",   \* cancel_ticket is in cancel_children
        "rootPoll",     \* Root::poll of todo
        "abandon",      \* abandon_root
        "drainAll"}     \* drain_cancelled

Activation ==
    [op: Ops, id: Nat, provider: Providers \cup {NoProvider},
     revoked: BOOLEAN, begin: BOOLEAN, todo: SUBSET Ids]

Routine(op, id, todo) ==
    [op |-> op, id |-> id, provider |-> NoProvider, revoked |-> FALSE,
     begin |-> FALSE, todo |-> todo]

Native(id, p, revoked, begin) ==
    [op |-> "native", id |-> id, provider |-> p, revoked |-> revoked,
     begin |-> begin, todo |-> {}]

Live == DOMAIN tickets

Children(T, id) == {c \in DOMAIN T : T[c].parent = id}

IsRevoked(r) == r.cancelled \/ r.logical = "Failed"

Top == ctl[Len(ctl)]

TopIs(op) == panic = "none" /\ ctl # <<>> /\ Top.op = op

Pop == SubSeq(ctl, 1, Len(ctl) - 1)

Become(a) == [ctl EXCEPT ![Len(ctl)] = a]

Visited(c) == Become([Top EXCEPT !.todo = @ \ {c}])

IsFirst(c, S) == c \in S /\ \A d \in S : c <= d

(***************************************************************************)
(* enter_ticket: a ticket whose native call is over only drains its        *)
(* children; any other is re-entered under a guard that inherits revocation*)
(***************************************************************************)
Enter(T, id) ==
    IF T[id].native_quiescent
    THEN Routine("drain", id, Children(T, id))
    ELSE Native(id, T[id].provider, IsRevoked(T[id]), FALSE)

(***************************************************************************)
(* refresh_quiescence.  Its single descending pass visits children before  *)
(* parents, so it computes the solution of this equation (unique: a child's*)
(* id is larger than its parent's).                                        *)
(***************************************************************************)
IsQuiescence(q, T) ==
    \A id \in DOMAIN T :
        q[id] = (T[id].native_quiescent /\ \A c \in Children(T, id) : q[c])

Refresh(T) ==
    \E q \in [DOMAIN T -> BOOLEAN] :
        /\ IsQuiescence(q, T)
        /\ tickets' = [id \in DOMAIN T |-> [T[id] EXCEPT !.quiescent = q[id]]]

(***************************************************************************)
(* release_tree: R is the ticket and everything below it.                  *)
(***************************************************************************)
IsTree(R, id) ==
    /\ id \in R
    /\ \A d \in Live \ {id} : d \in R <=> tickets[d].parent \in R

Trees(id) == {R \in SUBSET {d \in Live : id <= d} : IsTree(R, id)}

Without(R) == [d \in Live \ R |-> tickets[d]]

(* Cells::release_ticket. *)
ReleaseWatches(R) == watches' = watches \ R

CancelledRecord(r) ==
    [r EXCEPT !.cancelled = TRUE,
              !.logical = IF @ = "Pending" THEN "Cancelled" ELSE @]

MarkCancelled(T, id) == [T EXCEPT ![id] = CancelledRecord(@)]

NewRecord(p, parent) ==
    [root |-> activeRoot, parent |-> parent, provider |-> p,
     native_quiescent |-> FALSE, logical |-> "Pending", quiescent |-> FALSE,
     delivered |-> FALSE, cancelled |-> FALSE, abandoned |-> FALSE,
     result |-> "none"]

-----------------------------------------------------------------------------
Init ==
    /\ tickets = <<>>
    /\ ctl = <<>>
    /\ nextTicket = 1
    /\ activeRoot = 0
    /\ rootLive = FALSE
    /\ nextRoot = 0
    /\ completedRoots = 0
    /\ watches = {}
    /\ stopped = FALSE
    /\ panic = "none"

Idle == ctl = <<>> /\ panic = "none"

HasRoot == Idle /\ activeRoot # 0 /\ rootLive

(* Fault: only the call stack is consulted, suspended tickets are forgotten. *)
CanDispatchOverTickets(p) ==
    activeRoot # 0 /\ \A i \in 1..Len(ctl) : ctl[i].provider # p

(***************************************************************************)
(* dispatch_call's admission of a provider, and the two kinds of call.     *)
(***************************************************************************)
CanDispatch(p) ==
    /\ activeRoot # 0
    /\ \A id \in Live : tickets[id].provider = p => tickets[id].quiescent
    /\ \A i \in 1..Len(ctl) : ctl[i].provider # p

(* Fault: the new identity is read but NEXT_TICKET is not advanced. *)
BeginStaleIdentity(p, parent) ==
    /\ nextTicket <= MaxTickets
    /\ CanDispatch(p)
    /\ tickets' = [d \in Live \cup {nextTicket} |->
                     IF d = nextTicket THEN NewRecord(p, parent) ELSE tickets[d]]
    /\ ctl' = Append(ctl, Native(nextTicket, p, FALSE, TRUE))
    /\ UNCHANGED <<nextTicket, rootVars, watches, stopped, panic>>

Begin(p, parent) ==
    /\ nextTicket <= MaxTickets
    /\ CanDispatch(p)
    /\ tickets' = [d \in Live \cup {nextTicket} |->
                     IF d = nextTicket THEN NewRecord(p, parent) ELSE tickets[d]]
    /\ ctl' = Append(ctl, Native(nextTicket, p, FALSE, TRUE))
    /\ nextTicket' = nextTicket + 1
    /\ UNCHANGED <<rootVars, watches, stopped, panic>>

Invoke(p) ==
    /\ CanDispatch(p)
    /\ ctl' = Append(ctl, Native(0, p, FALSE, FALSE))
    /\ UNCHANGED <<tickets, nextTicket, rootVars, watches, stopped, panic>>

-----------------------------------------------------------------------------
(* The host: Kernel::admit_root, Root::*, drain_cancelled, shutdown. *)

AdmitRoot ==
    /\ Idle /\ ~stopped /\ activeRoot = 0 /\ nextRoot < MaxRoots
    /\ nextRoot' = nextRoot + 1
    /\ activeRoot' = nextRoot + 1
    /\ rootLive' = TRUE
    /\ UNCHANGED <<tickets, ctl, nextTicket, completedRoots, watches, stopped, panic>>

RootBegin(p) == HasRoot /\ Begin(p, 0)

RootInvoke(p) == HasRoot /\ Invoke(p)

RootPoll(id) ==
    /\ HasRoot
    /\ tickets[id].parent = 0
    /\ ~(tickets[id].quiescent /\ tickets[id].delivered)
    /\ ctl' = <<Routine("rootPoll", 0, {id})>> \o
                (IF tickets[id].quiescent THEN <<>> ELSE <<Enter(tickets, id)>>)
    /\ UNCHANGED <<tickets, nextTicket, rootVars, watches, stopped, panic>>

Delivered(r) == [r EXCEPT !.result = "none", !.delivered = TRUE]

RootPollDone ==
    /\ TopIs("rootPoll")
    /\ \E id \in Top.todo \cap Live :
         tickets' = IF tickets[id].result = "none" THEN tickets
                    ELSE [tickets EXCEPT ![id] = Delivered(@)]
    /\ ctl' = Pop
    /\ UNCHANGED <<nextTicket, rootVars, watches, stopped, panic>>

(* cancel_ticket up to its cancel_children loop. *)
Cancel(id) ==
    /\ ~tickets[id].cancelled /\ ~tickets[id].quiescent
    /\ tickets' = MarkCancelled(tickets, id)

(* Fault: cancel_ticket skips its cancel_children loop. *)
CancelRoutineAlone(id) == Routine("cancelTree", id, {})

CancelRoutine(id) == Routine("cancelTree", id, Children(tickets, id))

RootCancel(id) ==
    /\ HasRoot
    /\ tickets[id].parent = 0
    /\ Cancel(id)
    /\ ctl' = <<CancelRoutine(id)>>
    /\ UNCHANGED <<nextTicket, rootVars, watches, stopped, panic>>

RootRelease(id) ==
    /\ HasRoot
    /\ tickets[id].parent = 0
    /\ tickets[id].quiescent
    /\ \E R \in Trees(id) : tickets' = Without(R) /\ ReleaseWatches(R)
    /\ UNCHANGED <<ctl, nextTicket, rootVars, stopped, panic>>

(* Root::drop: the root dies first, then abandon_root visits its tickets. *)
DropRoot ==
    /\ HasRoot
    /\ rootLive' = FALSE
    /\ watches' = {id \in watches : tickets[id].root # activeRoot}
    /\ ctl' = <<Routine("abandon", 0, {id \in Live : tickets[id].root = activeRoot})>>
    /\ UNCHANGED <<tickets, nextTicket, activeRoot, nextRoot, completedRoots, stopped, panic>>

AbandonNext ==
    /\ TopIs("abandon")
    /\ \E id \in Top.todo \cap Live :
         /\ IsFirst(id, Top.todo)
         /\ LET T == [tickets EXCEPT ![id].abandoned = TRUE] IN
            IF T[id].quiescent \/ T[id].cancelled
            THEN tickets' = T /\ ctl' = Visited(id)
            ELSE /\ tickets' = MarkCancelled(T, id)
                 /\ ctl' = Append(Visited(id), CancelRoutine(id))
    /\ UNCHANGED <<nextTicket, rootVars, watches, stopped, panic>>

(* release_abandoned, the end of abandon_root and of drain_cancelled. *)
Unfinished(T) == {id \in DOMAIN T : ~(T[id].abandoned /\ T[id].quiescent)}

(* Fault: the root retires with the loop, whatever is left in the map. *)
RootOverEarly(kept) == ~rootLive /\ activeRoot # 0

RootOver(kept) == ~rootLive /\ kept = {} /\ activeRoot # 0

ReleaseAbandoned ==
    /\ TopIs("abandon") \/ TopIs("drainAll")
    /\ Top.todo = {}
    /\ LET kept == Unfinished(tickets)
       IN /\ tickets' = [id \in kept |-> tickets[id]]
          /\ activeRoot' = IF RootOver(kept) THEN 0 ELSE activeRoot
          /\ completedRoots' = IF RootOver(kept) THEN completedRoots + 1 ELSE completedRoots
    /\ ctl' = Pop
    /\ UNCHANGED <<nextTicket, rootLive, nextRoot, watches, stopped, panic>>

(* Fault: roots whose own native call is over are taken to be drained. *)
DrainCancelledNatively ==
    /\ Idle /\ ~stopped /\ activeRoot # 0 /\ ~rootLive
    /\ ctl' = <<Routine("drainAll", 0,
                  {id \in Live : /\ tickets[id].abandoned
                                 /\ ~tickets[id].native_quiescent
                                 /\ tickets[id].parent = 0})>>
    /\ UNCHANGED <<tickets, nextTicket, rootVars, watches, stopped, panic>>

(* With a live root nothing is abandoned and drain_cancelled does nothing. *)
DrainCancelled ==
    /\ Idle /\ ~stopped /\ activeRoot # 0 /\ ~rootLive
    /\ ctl' = <<Routine("drainAll", 0,
                  {id \in Live : /\ tickets[id].abandoned
                                 /\ ~tickets[id].quiescent
                                 /\ tickets[id].parent = 0})>>
    /\ UNCHANGED <<tickets, nextTicket, rootVars, watches, stopped, panic>>

DrainAllNext ==
    /\ TopIs("drainAll")
    /\ \E id \in Top.todo \cap Live :
         /\ IsFirst(id, Top.todo)
         /\ ctl' = Append(Visited(id), Enter(tickets, id))
    /\ UNCHANGED <<tickets, nextTicket, rootVars, watches, stopped, panic>>

Shutdown ==
    /\ Idle /\ ~stopped
    /\ \A id \in Live : tickets[id].quiescent
    /\ activeRoot = 0
    /\ stopped' = TRUE
    /\ watches' = {}
    /\ UNCHANGED <<tickets, ctl, nextTicket, rootVars, panic>>

-----------------------------------------------------------------------------
(* Plugin code: what it may ask of the kernel while it runs. *)

Running == TopIs("native")

Authorized == Running /\ ~Top.revoked

ImportBegin(p) ==
    /\ Authorized /\ Top.id # 0
    /\ <<Top.provider, p>> \in Imports
    /\ Begin(p, Top.id)

ImportInvoke(p) ==
    /\ Authorized
    /\ <<Top.provider, p>> \in Imports
    /\ Invoke(p)

(* The frame's own import: the ticket it polls or cancels is its child. *)
IsImport(c) == tickets[c].parent = Top.id

(* Poll and cancel are cleanup commands: a revoked frame may use them. *)
ImportPoll(c) ==
    /\ Running /\ Top.id # 0
    /\ IsImport(c)
    /\ LET waiting == Become([Top EXCEPT !.op = "awaitPoll", !.todo = {c}])
       IN ctl' = IF tickets[c].quiescent THEN waiting
                 ELSE Append(waiting, Enter(tickets, c))
    /\ UNCHANGED <<tickets, nextTicket, rootVars, watches, stopped, panic>>

HasOutcome(r) == r.result # "none" \/ r.logical = "Cancelled"

ImportPollDone ==
    /\ TopIs("awaitPoll")
    /\ \E c \in Top.todo \cap Live :
         IF tickets[c].quiescent /\ HasOutcome(tickets[c])
         THEN \E R \in Trees(c) : Refresh(Without(R)) /\ ReleaseWatches(R)
         ELSE UNCHANGED <<tickets, watches>>
    /\ ctl' = Become([Top EXCEPT !.op = "native", !.todo = {}])
    /\ UNCHANGED <<nextTicket, rootVars, stopped, panic>>

ImportCancel(c) ==
    /\ Running /\ Top.id # 0
    /\ IsImport(c)
    /\ Cancel(c)
    /\ ctl' = Append(ctl, CancelRoutine(c))
    /\ UNCHANGED <<nextTicket, rootVars, watches, stopped, panic>>

Subscribe ==
    /\ Authorized /\ Top.id # 0
    /\ watches' = watches \cup {Top.id}
    /\ UNCHANGED <<tickets, ctl, nextTicket, rootVars, stopped, panic>>

InvokeReturn ==
    /\ Running /\ Top.id = 0
    /\ ctl' = Pop
    /\ UNCHANGED <<tickets, nextTicket, rootVars, watches, stopped, panic>>

-----------------------------------------------------------------------------
(***************************************************************************)
(* accept_reply.  Replies: "pending" 3; "cancelled" 4; "ok" 0 or 1 with an *)
(* accepted value; "quietFail" 5, or 0 and 1 with a rejected value; "fail" *)
(* 2, an unknown status or a transport error.                              *)
(***************************************************************************)
(* The frame of a ticket returns: accept_reply looks its record up. *)
Replying == Running /\ Top.id \in Live

ReplyPending ==
    /\ Replying
    /\ ctl' = Become([Top EXCEPT !.op = "settled"])
    /\ UNCHANGED <<tickets, nextTicket, rootVars, watches, stopped, panic>>

ReplyCancelled ==
    /\ Replying
    /\ tickets[Top.id].cancelled
    /\ Refresh([tickets EXCEPT ![Top.id].native_quiescent = TRUE])
    /\ ctl' = Become([Top EXCEPT !.op = "settled"])
    /\ UNCHANGED <<nextTicket, rootVars, watches, stopped, panic>>

LiveChildren(id) == \E c \in Children(tickets, id) : ~tickets[c].quiescent

IsFailure(reply, id) == reply # "ok" \/ LiveChildren(id)

(* Fault: a late reply overwrites an outcome already decided. *)
AcceptedAgain(reply, r, failed) ==
    [r EXCEPT
       !.native_quiescent = @ \/ reply \in {"ok", "quietFail"},
       !.logical = IF failed THEN "Failed" ELSE "Ready",
       !.result = IF failed THEN "err" ELSE "ok"]

(* The record once the reply is accepted: the first outcome is final. *)
Accepted(reply, r, failed) ==
    [r EXCEPT
       !.native_quiescent = @ \/ reply \in {"ok", "quietFail"},
       !.logical = IF @ # "Pending" THEN @ ELSE IF failed THEN "Failed" ELSE "Ready",
       !.result = IF r.logical # "Pending" THEN @ ELSE IF failed THEN "err" ELSE "ok"]

ReplyOutcome(reply) ==
    /\ Replying
    /\ reply = "cancelled" => ~tickets[Top.id].cancelled
    /\ LET id == Top.id
           failed == IsFailure(reply, id)
           T == [tickets EXCEPT ![id] = Accepted(reply, @, failed)]
       IN IF failed
          THEN /\ tickets' = T
               /\ ReleaseWatches({id})
               /\ ctl' = Become([Top EXCEPT !.op = "settle", !.todo = Children(T, id)])
          ELSE /\ Refresh(T)
               /\ ctl' = Become([Top EXCEPT !.op = "settled"])
               /\ UNCHANGED watches
    /\ UNCHANGED <<nextTicket, rootVars, stopped, panic>>

Reply == ReplyPending \/ ReplyCancelled
         \/ \E reply \in {"ok", "fail", "quietFail", "cancelled"} : ReplyOutcome(reply)

(* cancel_children, in accept_reply and in cancel_ticket. *)
CancelNext ==
    /\ TopIs("settle") \/ TopIs("cancelTree")
    /\ \E c \in Top.todo \cap Live :
         /\ IsFirst(c, Top.todo)
         /\ IF tickets[c].cancelled \/ tickets[c].quiescent
            THEN UNCHANGED tickets /\ ctl' = Visited(c)
            ELSE Cancel(c) /\ ctl' = Append(Visited(c), CancelRoutine(c))
    /\ UNCHANGED <<nextTicket, rootVars, watches, stopped, panic>>

(* Fault: a failing reply returns before refresh_quiescence. *)
SettleDoneUnrefreshed ==
    /\ TopIs("settle") /\ Top.todo = {}
    /\ ctl' = Become([Top EXCEPT !.op = "settled"])
    /\ UNCHANGED <<tickets, nextTicket, rootVars, watches, stopped, panic>>

SettleDone ==
    /\ TopIs("settle") /\ Top.todo = {}
    /\ Refresh(tickets)
    /\ ctl' = Become([Top EXCEPT !.op = "settled"])
    /\ UNCHANGED <<nextTicket, rootVars, watches, stopped, panic>>

(* cancel_ticket goes on to the ticket's own native cancel. *)
CancelEnter ==
    /\ TopIs("cancelTree") /\ Top.todo = {} /\ Top.id \in Live
    /\ ctl' = Become(Enter(tickets, Top.id))
    /\ UNCHANGED <<tickets, nextTicket, rootVars, watches, stopped, panic>>

(* The end of begin_pending: an imported call that is over is delivered at once. *)
BeginDone ==
    /\ TopIs("settled") /\ Top.begin /\ Top.id \in Live
    /\ LET r == tickets[Top.id] IN
       IF r.parent # 0 /\ r.quiescent /\ r.result = "ok"
       THEN \E R \in Trees(Top.id) : tickets' = Without(R) /\ ReleaseWatches(R)
       ELSE UNCHANGED <<tickets, watches>>
    /\ ctl' = Pop
    /\ UNCHANGED <<nextTicket, rootVars, stopped, panic>>

(* The end of enter_ticket: a revoked ticket drains its children first. *)
EnterDone ==
    /\ TopIs("settled") /\ ~Top.begin /\ Top.id \in Live
    /\ IF IsRevoked(tickets[Top.id])
       THEN /\ ctl' = Become([Top EXCEPT !.op = "drain", !.todo = Children(tickets, Top.id)])
            /\ UNCHANGED tickets
       ELSE Refresh(tickets) /\ ctl' = Pop
    /\ UNCHANGED <<nextTicket, rootVars, watches, stopped, panic>>

DrainNext ==
    /\ TopIs("drain")
    /\ \E c \in Top.todo \cap Live :
         /\ IsFirst(c, Top.todo)
         /\ ctl' = IF tickets[c].quiescent THEN Visited(c)
                   ELSE Append(Visited(c), Enter(tickets, c))
    /\ UNCHANGED <<tickets, nextTicket, rootVars, watches, stopped, panic>>

DrainDone ==
    /\ TopIs("drain") /\ Top.todo = {}
    /\ Refresh(tickets)
    /\ ctl' = Pop
    /\ UNCHANGED <<nextTicket, rootVars, watches, stopped, panic>>

(***************************************************************************)
(* Every loop walks a snapshot of ids and indexes the map with each; the   *)
(* routines resumed after native code index it with their own ticket.  A   *)
(* missing id panics: the thread unwinds and nothing more is modelled.     *)
(***************************************************************************)
Missing ==
    \/ \E id \in Top.todo : IsFirst(id, Top.todo) /\ id \notin Live
    \/ /\ Top.op \in {"native", "settled", "cancelTree"} /\ Top.todo = {}
       /\ Top.id # 0 /\ Top.id \notin Live

Panic ==
    /\ panic = "none" /\ ctl # <<>> /\ Missing
    /\ panic' = Top.op
    /\ UNCHANGED <<tickets, ctl, nextTicket, rootVars, watches, stopped>>

Finished == (stopped \/ panic # "none") /\ UNCHANGED vars

-----------------------------------------------------------------------------
HostStep ==
    \/ AdmitRoot \/ DropRoot \/ DrainCancelled \/ Shutdown
    \/ \E p \in Providers : RootBegin(p) \/ RootInvoke(p)
    \/ \E id \in Live : RootPoll(id) \/ RootCancel(id) \/ RootRelease(id)

PluginStep ==
    \/ \E p \in Providers : ImportBegin(p) \/ ImportInvoke(p)
    \/ \E c \in Live : ImportPoll(c) \/ ImportCancel(c)
    \/ Subscribe \/ InvokeReturn \/ Reply

KernelStep ==
    \/ RootPollDone \/ AbandonNext \/ ReleaseAbandoned \/ DrainAllNext
    \/ ImportPollDone \/ CancelNext \/ SettleDone \/ CancelEnter
    \/ BeginDone \/ EnterDone \/ DrainNext \/ DrainDone \/ Panic

Next == HostStep \/ PluginStep \/ KernelStep \/ Finished

Spec == Init /\ [][Next]_vars

-----------------------------------------------------------------------------
(* Properties. *)

(* Every variable keeps its type; in particular the ids on the stack and in
   the map were all issued by NEXT_TICKET (begin_pending). *)
TypeOK ==
    /\ tickets \in [Live -> Record]
    /\ ctl \in Seq(Activation)
    /\ nextTicket \in Ids
    /\ \A id \in Live : id \in Ids /\ id < nextTicket
    /\ activeRoot \in Nat
    /\ rootLive \in BOOLEAN
    /\ nextRoot \in Nat
    /\ completedRoots \in Nat
    /\ watches \in SUBSET Ids
    /\ stopped \in BOOLEAN
    /\ panic \in {"none"} \cup Ops

(* An instance serves one physical call at a time: two tickets that may still
   run native code never share a provider (dispatch_call's ticket check, kept
   true by refresh_quiescence and by cancelling and draining). *)
OneLeasePerProvider ==
    \A a, b \in Live :
        /\ tickets[a].provider = tickets[b].provider
        /\ ~tickets[a].quiescent /\ ~tickets[b].quiescent
        => a = b

(* No instance is re-entered: the guards held on the call stack belong to
   distinct providers, synchronous and pending calls together. *)
NeverReentered ==
    \A i, j \in 1..Len(ctl) :
        ctl[i].provider = ctl[j].provider /\ ctl[i].provider # NoProvider => i = j

(* A success is only ever reported for a call whose whole tree is physically
   over ("native completion with live imported work" is a failure). *)
ReadyIsQuiescent ==
    \A id \in Live : tickets[id].logical = "Ready" => tickets[id].quiescent

(* Between host calls the quiescence flags are exact: a ticket is quiescent iff
   its native call and every call below it are over. *)
QuiescenceIsExact ==
    Idle => \A id \in Live :
        tickets[id].quiescent <=>
            /\ tickets[id].native_quiescent
            /\ \A c \in Children(tickets, id) : tickets[c].quiescent

(* The map is a forest at all times: releasing never leaves a child whose
   parent is gone (release_tree, release_abandoned). *)
NoOrphans ==
    \A id \in Live : tickets[id].parent # 0 =>
        /\ tickets[id].parent \in Live
        /\ tickets[id].parent < id
        /\ tickets[tickets[id].parent].root = tickets[id].root

(* Between host calls revocation has reached the whole tree: nothing runs
   unrevoked below a cancelled or failed ticket. *)
RevocationInherited ==
    Idle => \A id \in Live :
        tickets[id].parent # 0 /\ IsRevoked(tickets[tickets[id].parent])
            => tickets[id].cancelled \/ tickets[id].quiescent

(* Plugin code holding host authority works for a live root and for a ticket
   that is still pending, as is every guard below it on the stack. *)
AuthorityIsLive ==
    Authorized =>
        /\ rootLive /\ activeRoot # 0
        /\ \A i \in 1..Len(ctl) : ctl[i].id # 0 =>
              /\ ctl[i].id \in Live
              /\ tickets[ctl[i].id].logical = "Pending"
              /\ ~tickets[ctl[i].id].cancelled

(* The admitted root is held while any of its tickets is in the map, and no
   ticket of another root is ever there. *)
RootOutlivesTickets ==
    \A id \in Live : tickets[id].root = activeRoot

(* A ticket that is released or failed owns no cell subscription. *)
SubscriptionsFollowTickets ==
    \A id \in watches : id \in Live /\ tickets[id].logical # "Failed"

(* The loops of accept_reply, cancel_ticket, drain_children, Root::poll and
   imported polls never index a ticket that has been released meanwhile. *)
LoopLookupsSucceed == panic \in {"none", "abandon"}

(* "Root::drop cannot return an error" (pending.rs): dropping a root runs to
   its end and leaves unfinished work to drain_cancelled. *)
RootDropDoesNotPanic == panic # "abandon"

(* No physical lease is forgotten: whatever leaves the map was quiescent. *)
LeaseIsKept == \A id \in Live : id \notin Live' => tickets[id].quiescent

(* A call has one outcome, delivered at most once: a terminal logical state
   never changes, a delivered ticket never gets a result again, and a quiescent
   ticket never wakes up. *)
OutcomeStays ==
    \A id \in Live \cap Live' :
        /\ tickets[id].logical # "Pending" =>
              tickets'[id].logical = tickets[id].logical
        /\ tickets[id].delivered => tickets'[id].result = "none"
        /\ tickets[id].quiescent => tickets'[id].quiescent

(* No step, of whatever call, poll, cancellation or release, takes back what a
   ticket has told its caller or drops one whose native work may still run. *)
OutcomesAreFinal == [][LeaseIsKept /\ OutcomeStays]_vars

(* The leases of this kernel are those KernelLease promises. *)
Lease == INSTANCE KernelLease WITH
    root <- activeRoot, held <- rootLive, last <- nextRoot,
    busy <- {tickets[id].provider : id \in {d \in Live : ~tickets[d].quiescent}}

ImplementsKernelLease == Lease!Spec

(* Liveness, under the cooperation of plugin code and of the host stated by
   Fairness: a dropped root is eventually released, so another can be admitted;
   and every host call returns. *)
DroppedRootIsReleased ==
    (activeRoot # 0 /\ ~rootLive) ~> (activeRoot = 0 \/ panic # "none")

HostCallReturns == (ctl # <<>>) ~> (ctl = <<>> \/ panic # "none")

(* Nothing waits for ever: neither the next root nor the host. *)
RootsAndCallsEnd == DroppedRootIsReleased /\ HostCallReturns

QuietReply(id) ==
    /\ Running /\ Top.id = id
    /\ ReplyCancelled \/ \E reply \in {"ok", "quietFail"} : ReplyOutcome(reply)

Fairness ==
    /\ WF_vars(KernelStep)
    /\ WF_vars(DrainCancelled)
    /\ \A id \in 1..MaxTickets :
          /\ SF_vars(Running /\ Top.id = id /\ Reply)
          /\ SF_vars(Running /\ Top.revoked /\ QuietReply(id))
    /\ \A p \in Providers : SF_vars(Running /\ Top.provider = p /\ InvokeReturn)

FairSpec == Spec /\ Fairness
-----------------------------------------------------------------------------
(* The inductive invariant behind OneLeasePerProvider and NeverReentered: the
   ticket forest, its leases, and the call stack as a path through it. *)

HostOps == {"rootPoll", "abandon", "drainAll"}

(* One activation: its ticket is in the map and holds the provider of its
   guard, plugin code runs only where the native call is not over, and the ids
   a loop has still to visit are children of its ticket (ids in the map at
   least, for abandon_root, which loses some). *)
FrameOK(a, T) ==
    /\ a.id # 0 => a.id \in DOMAIN T
    /\ a.id = 0 => a.op \in HostOps \cup {"native"}
    /\ a.op \in HostOps => a.id = 0 /\ a.provider = NoProvider
    /\ a.id # 0 /\ a.provider # NoProvider => a.provider = T[a.id].provider
    /\ a.id # 0 /\ a.op \in {"native", "awaitPoll"} => ~T[a.id].native_quiescent
    /\ a.op # "abandon" => \A d \in a.todo : d \in DOMAIN T /\ T[d].parent = a.id

(* S holds with every ticket its children. *)
Closed(S, T) == \A d \in DOMAIN T : T[d].parent \in S => d \in S

(* Ticket c lies below ticket a: it is in every closed set that holds a. *)
Below(a, c, T) == \A S \in SUBSET DOMAIN T : Closed(S, T) /\ a \in S => c \in S

(* Activation a may have something that serves ticket id running above it. *)
Hosts(a, id, T) ==
    /\ a.id = 0 => a.op \in HostOps
    /\ a.id # 0 => a.id < id /\ Below(a.id, id, T)

(* Two activations, b above a. *)
PairOK(a, b, T) ==
    /\ b.op \notin HostOps
    /\ b.id # 0 => Hosts(a, b.id, T)
    /\ a.provider # NoProvider => a.provider # b.provider
    /\ b.begin /\ a.op # "abandon" => b.id \notin a.todo

StackOK(s, T) ==
    /\ \A i \in 1..Len(s) : FrameOK(s[i], T)
    /\ \A i, j \in 1..Len(s) : i < j => PairOK(s[i], s[j], T)

(* What refresh_quiescence needs to be monotonic. *)
ForestOK(T) ==
    \A id \in DOMAIN T :
        /\ T[id].parent \in Nat /\ T[id].parent < id
        /\ T[id].quiescent => T[id].native_quiescent
        /\ T[id].quiescent => \A c \in Children(T, id) : T[c].quiescent

LeaseOK(T) ==
    \A a, b \in DOMAIN T :
        /\ T[a].provider = T[b].provider
        /\ ~T[a].quiescent /\ ~T[b].quiescent
        => a = b

(* The call stack is a path down the ticket forest: every guard serves a live
   ticket below the tickets served further out, every loop has children of its
   own ticket left to visit, and no quiescent ticket is ever above live work
   (enter_ticket, drain_children, cancel_children, refresh_quiescence). *)
StackFollowsForest ==
    StackOK(ctl, tickets) /\ ForestOK(tickets) /\ LeaseOK(tickets)

(* Instances are never entered twice: no provider serves two physical calls, no
   instance is on the call stack twice, no loop meets a ticket that was released
   under it, and the call stack is a path down the ticket forest. *)
CallsAreExclusive ==
    /\ OneLeasePerProvider
    /\ NeverReentered
    /\ LoopLookupsSucceed
    /\ StackFollowsForest
-----------------------------------------------------------------------------
(* What the other safety properties rest on: revocation, outcomes and flags
   while calls are in progress, when routines on the stack still owe a step. *)

(* One record: its outcome, its flags and its revocation agree. *)
RecordOK(r) ==
    /\ r.quiescent => r.native_quiescent
    /\ r.native_quiescent => r.quiescent \/ IsRevoked(r)
    /\ r.logical = "Ready" => r.quiescent
    /\ r.logical = "Cancelled" => r.cancelled
    /\ r.abandoned => r.cancelled \/ r.quiescent
    /\ r.result # "none" \/ r.delivered => r.logical # "Pending"
    /\ r.delivered => r.result = "none"

RecordsOK(T) == \A d \in DOMAIN T : RecordOK(T[d])

Undecided(r) == r.logical = "Pending" /\ ~r.cancelled

(* Plugin code that has authority, or will have it again after a poll. *)
Working(a) == a.op \in {"native", "awaitPoll"} /\ ~a.revoked

(* An activation without authority serves a revoked ticket. *)
FrameAuthority(a, T) ==
    /\ a.revoked => a.id # 0 /\ IsRevoked(T[a.id])
    /\ a.op = "cancelTree" => T[a.id].cancelled
    /\ a.op = "drain" => IsRevoked(T[a.id]) \/ T[a.id].quiescent

(* Below plugin code with authority nothing is decided or revoked. *)
StackAuthority(s, T) ==
    \A i \in 1..Len(s) :
        /\ FrameAuthority(s[i], T)
        /\ Working(s[i]) => \A k \in 1..i : s[k].id # 0 => Undecided(T[s[k].id])

(* Authority comes from a root that is held; cleaning up after it begins when it
   is dropped. *)
RootAuthority ==
    /\ (\E i \in 1..Len(ctl) : Working(ctl[i])) => rootLive /\ activeRoot # 0
    /\ (\E i \in 1..Len(ctl) : ctl[i].op \in {"abandon", "drainAll"}) => ~rootLive

(* A loop over the children of p has still to cancel c. *)
WillCancel(c, p, s) ==
    \E i \in 1..Len(s) : s[i].op \in {"settle", "cancelTree"} /\ s[i].id = p /\ c \in s[i].todo

RevocationReaches(s, T) ==
    \A c \in DOMAIN T :
        T[c].parent \in DOMAIN T /\ IsRevoked(T[T[c].parent])
            => T[c].cancelled \/ T[c].quiescent \/ WillCancel(c, T[c].parent, s)

IsExact(id, T) ==
    T[id].quiescent <=>
        T[id].native_quiescent /\ \A c \in Children(T, id) : T[c].quiescent

(* accept_reply refreshes the flags when its loop is over. *)
WillRefresh(id, s) == \E i \in 1..Len(s) : s[i].op = "settle" /\ s[i].id = id

FlagsAreExact(s, T) == \A id \in DOMAIN T : IsExact(id, T) \/ WillRefresh(id, s)

(* abandon_root has still to visit id. *)
WillAbandon(id, s) == s # <<>> /\ s[1].op = "abandon" /\ id \in s[1].todo

(* The map belongs to the admitted root; once it is dropped every ticket is
   abandoned and no subscription is left. *)
MapFollowsRoot ==
    /\ \A id \in Live : tickets[id].root = activeRoot
    /\ \A id \in Live : tickets[id].parent \in Live \cup {0}
    /\ activeRoot = 0 => Live = {}
    /\ rootLive => \A id \in Live : ~tickets[id].abandoned
    /\ ~rootLive => watches = {} /\ \A id \in Live : tickets[id].abandoned \/ WillAbandon(id, ctl)
    /\ SubscriptionsFollowTickets

(* At every moment, revocation has reached every ticket that no loop on the
   stack has still to reach, and no plugin works for a ticket it has reached
   (enter_ticket, cancel_children, abandon_root). *)
RevocationIsUnderWay ==
    /\ RecordsOK(tickets)
    /\ StackAuthority(ctl, tickets)
    /\ RootAuthority
    /\ RevocationReaches(ctl, tickets)
    /\ MapFollowsRoot

(* Tickets settle: success is reported for finished trees only, the flags that
   polls and releases trust are exact, and releasing on any path leaves neither
   an orphan nor a subscription (refresh_quiescence, release_tree,
   release_abandoned, release_ticket). *)
TicketsSettle ==
    /\ ReadyIsQuiescent
    /\ QuiescenceIsExact
    /\ NoOrphans
    /\ SubscriptionsFollowTickets
    /\ FlagsAreExact(ctl, tickets)

(* Authority follows the forest: plugin code never works with the authority of
   a root that is gone or of a call that was revoked, at whatever depth of
   nested calls, polls and imports (enter_ticket, cancel_ticket, admit_root). *)
AuthorityFollowsTheForest ==
    /\ RevocationInherited
    /\ AuthorityIsLive
    /\ RootOutlivesTickets
    /\ RevocationIsUnderWay
=============================================================================
