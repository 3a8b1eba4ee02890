------------------------ MODULE PendingTicketsProofs ------------------------
(* Theorems about PendingTickets, for every set of providers and bindings. *)
EXTENDS PendingTickets, FiniteSetTheorems, SequenceTheorems, TLAPS

-----------------------------------------------------------------------------
(* Types of the building blocks. *)

LEMMA TopType ==
    ASSUME ctl \in Seq(Activation), ctl # <<>>
    PROVE  /\ Top \in Activation
           /\ Len(ctl) \in Nat /\ Len(ctl) >= 1
    BY DEF Top

LEMMA PopType ==
    ASSUME ctl \in Seq(Activation), ctl # <<>>
    PROVE  Pop \in Seq(Activation)
    BY DEF Pop

LEMMA PushType ==
    ASSUME NEW s \in Seq(Activation), NEW a \in Activation
    PROVE  Append(s, a) \in Seq(Activation)
    OBVIOUS

LEMMA BecomeType ==
    ASSUME ctl \in Seq(Activation), ctl # <<>>, NEW a \in Activation
    PROVE  Become(a) \in Seq(Activation)
    BY DEF Become

LEMMA VisitedType ==
    ASSUME ctl \in Seq(Activation), ctl # <<>>, NEW c
    PROVE  Visited(c) \in Seq(Activation)
  <1>1. [Top EXCEPT !.todo = @ \ {c}] \in Activation
    BY TopType DEF Activation
  <1> QED BY <1>1, BecomeType DEF Visited

(* A map of records over issued identities. *)
IsMap(T) == T \in [DOMAIN T -> Record] /\ DOMAIN T \subseteq Ids

LEMMA RoutineType ==
    ASSUME NEW op \in Ops, NEW id \in Nat, NEW S \in SUBSET Ids
    PROVE  Routine(op, id, S) \in Activation
    BY DEF Routine, Activation

LEMMA ChildrenType ==
    ASSUME NEW T, IsMap(T), NEW id
    PROVE  Children(T, id) \in SUBSET Ids
    BY DEF Children, IsMap

LEMMA EnterType ==
    ASSUME NEW T, IsMap(T), NEW id \in DOMAIN T
    PROVE  Enter(T, id) \in Activation
  <1>1. T[id] \in Record /\ id \in Nat
    BY DEF IsMap, Ids
  <1>2. CASE T[id].native_quiescent
    BY <1>1, <1>2, RoutineType, ChildrenType DEF Enter, Ops
  <1>3. CASE ~T[id].native_quiescent
    BY <1>1, <1>3 DEF Enter, Native, Activation, Ops, Record, IsRevoked
  <1> QED BY <1>2, <1>3

LEMMA CancelRoutineType ==
    ASSUME IsMap(tickets), NEW id \in Live
    PROVE  CancelRoutine(id) \in Activation
    BY RoutineType, ChildrenType DEF CancelRoutine, IsMap, Ids, Ops, Live

LEMMA RefreshType ==
    ASSUME NEW T, IsMap(T), Refresh(T)
    PROVE  IsMap(tickets') /\ DOMAIN tickets' = DOMAIN T
  <1>1. PICK q \in [DOMAIN T -> BOOLEAN] :
          tickets' = [id \in DOMAIN T |-> [T[id] EXCEPT !.quiescent = q[id]]]
    BY DEF Refresh
  <1>2. \A id \in DOMAIN T : [T[id] EXCEPT !.quiescent = q[id]] \in Record
    BY DEF IsMap, Record
  <1> QED BY <1>1, <1>2 DEF IsMap


LEMMA WithoutType ==
    ASSUME IsMap(tickets), NEW R
    PROVE  IsMap(Without(R)) /\ DOMAIN Without(R) = Live \ R
    BY DEF IsMap, Without, Live

LEMMA RecordUpdates ==
    ASSUME NEW r \in Record
    PROVE  /\ [r EXCEPT !.abandoned = TRUE] \in Record
           /\ [r EXCEPT !.native_quiescent = TRUE] \in Record
           /\ Delivered(r) \in Record
           /\ CancelledRecord(r) \in Record
           /\ \A reply, failed : Accepted(reply, r, failed) \in Record
  <1>1. [r EXCEPT !.abandoned = TRUE] \in Record
    BY DEF Record
  <1>2. [r EXCEPT !.native_quiescent = TRUE] \in Record
    BY DEF Record
  <1>3. Delivered(r) \in Record
    BY DEF Record, Delivered
  <1>5. CancelledRecord(r) \in Record
    BY DEF Record, CancelledRecord, Logical
  <1>4. ASSUME NEW reply, NEW failed
        PROVE  Accepted(reply, r, failed) \in Record
    BY DEF Record, Accepted, Logical
  <1> QED BY <1>1, <1>2, <1>3, <1>4, <1>5

(* What cancelling and abandoning leave alone. *)
LEMMA FlagsKept ==
    ASSUME NEW r \in Record, NEW t, t = CancelledRecord(r) \/ t = [r EXCEPT !.abandoned = TRUE]
    PROVE  /\ t \in Record /\ t.parent = r.parent /\ t.provider = r.provider
           /\ t.native_quiescent = r.native_quiescent /\ t.quiescent = r.quiescent
  <1>1. LET u == [r EXCEPT !.abandoned = TRUE] IN
        /\ u \in Record /\ u.parent = r.parent /\ u.provider = r.provider
        /\ u.native_quiescent = r.native_quiescent /\ u.quiescent = r.quiescent
    BY DEF Record
  <1>2. CancelledRecord(r) \in Record
    BY RecordUpdates
  <1>3. /\ CancelledRecord(r).parent = r.parent
        /\ CancelledRecord(r).provider = r.provider
        /\ CancelledRecord(r).native_quiescent = r.native_quiescent
        /\ CancelledRecord(r).quiescent = r.quiescent
    BY DEF Record, CancelledRecord
  <1> QED BY <1>1, <1>2, <1>3

(* Replacing one record of a map by another record. *)
LEMMA UpdateType ==
    ASSUME NEW T, IsMap(T), NEW id, NEW r, id \in DOMAIN T => r \in Record
    PROVE  IsMap([T EXCEPT ![id] = r]) /\ DOMAIN [T EXCEPT ![id] = r] = DOMAIN T
    BY DEF IsMap

LEMMA MarkCancelledType ==
    ASSUME NEW T, IsMap(T), NEW id
    PROVE  IsMap(MarkCancelled(T, id)) /\ DOMAIN MarkCancelled(T, id) = DOMAIN T
  <1>1. id \in DOMAIN T => CancelledRecord(T[id]) \in Record
    BY RecordUpdates DEF IsMap
  <1> QED BY <1>1, UpdateType DEF MarkCancelled

-----------------------------------------------------------------------------
(* What a step must show to keep every type. *)

LEMMA TypeStep ==
    ASSUME TypeOK,
           IsMap(tickets'), ctl' \in Seq(Activation),
           \A id \in Live' : id < nextTicket',
           nextTicket' \in Ids, activeRoot' \in Nat, rootLive' \in BOOLEAN,
           nextRoot' \in Nat, completedRoots' \in Nat,
           watches' \in SUBSET Ids, stopped' \in BOOLEAN,
           panic' \in {"none"} \cup Ops
    PROVE  TypeOK'
    BY DEF TypeOK, IsMap, Live

(* The common case: the map keeps or loses identities, counters stand still. *)
LEMMA QuietTypeStep ==
    ASSUME TypeOK,
           IsMap(tickets'), Live' \subseteq Live, ctl' \in Seq(Activation),
           watches' \subseteq watches \cup Ids,
           UNCHANGED <<nextTicket, nextRoot, stopped, panic>>,
           activeRoot' \in Nat, rootLive' \in BOOLEAN, completedRoots' \in Nat
    PROVE  TypeOK'
    BY DEF TypeOK, IsMap, Live

LEMMA TypeFacts ==
    ASSUME TypeOK
    PROVE  /\ IsMap(tickets) /\ ctl \in Seq(Activation)
           /\ activeRoot \in Nat /\ rootLive \in BOOLEAN /\ completedRoots \in Nat
    BY DEF TypeOK, IsMap, Live

LEMMA BeginType ==
    ASSUME TypeOK, NEW p \in Providers, NEW parent \in Nat, Begin(p, parent)
    PROVE  TypeOK'
  <1>1. NewRecord(p, parent) \in Record
    BY DEF TypeOK, Begin, CanDispatch, NewRecord, Record, Logical, Ids
  <1>2. IsMap(tickets') /\ Live' = Live \cup {nextTicket}
    BY <1>1, TypeFacts DEF Begin, IsMap, Live, TypeOK
  <1>3. Native(nextTicket, p, FALSE, TRUE) \in Activation
    BY DEF TypeOK, Native, Activation, Ops, Ids
  <1>4. ctl' \in Seq(Activation)
    BY <1>3, PushType, TypeFacts DEF Begin
  <1>5. nextTicket' \in Ids /\ \A id \in Live' : id < nextTicket'
    BY <1>2 DEF TypeOK, Begin, Ids
  <1> QED BY <1>2, <1>4, <1>5, TypeStep DEF TypeOK, Begin, rootVars

LEMMA InvokeType ==
    ASSUME TypeOK, NEW p \in Providers, Invoke(p)
    PROVE  TypeOK'
  <1>1. Native(0, p, FALSE, FALSE) \in Activation
    BY DEF Native, Activation, Ops
  <1>2. ctl' \in Seq(Activation)
    BY <1>1, PushType, TypeFacts DEF Invoke
  <1> QED BY <1>2, QuietTypeStep, TypeFacts DEF Invoke, rootVars, Live

LEMMA HostStepType ==
    ASSUME TypeOK, HostStep
    PROVE  TypeOK'
  <1> USE TypeFacts
  <1>1. CASE AdmitRoot
    BY <1>1, TypeStep DEF AdmitRoot, TypeOK, Live
  <1>2. CASE DropRoot
    <2>1. {id \in Live : tickets[id].root = activeRoot} \in SUBSET Ids
      BY DEF IsMap, Live
    <2>2. ctl' \in Seq(Activation)
      BY <1>2, <2>1, RoutineType DEF DropRoot, Ops
    <2> QED BY <1>2, <2>2, QuietTypeStep DEF DropRoot, Live
  <1>3. CASE DrainCancelled
    <2>1. {id \in Live : tickets[id].abandoned /\ ~tickets[id].quiescent
                         /\ tickets[id].parent = 0} \in SUBSET Ids
      BY DEF IsMap, Live
    <2>2. ctl' \in Seq(Activation)
      BY <1>3, <2>1, RoutineType DEF DrainCancelled, Ops
    <2> QED BY <1>3, <2>2, QuietTypeStep DEF DrainCancelled, Live, rootVars
  <1>4. CASE Shutdown
    BY <1>4, TypeStep DEF Shutdown, TypeOK, Live, rootVars
  <1>5. ASSUME NEW p \in Providers, RootBegin(p) PROVE TypeOK'
    BY <1>5, BeginType DEF RootBegin
  <1>6. ASSUME NEW p \in Providers, RootInvoke(p) PROVE TypeOK'
    BY <1>6, InvokeType DEF RootInvoke
  <1>7. ASSUME NEW id \in Live, RootPoll(id) PROVE TypeOK'
    <2>1. id \in Ids /\ Routine("rootPoll", 0, {id}) \in Activation
      BY RoutineType DEF IsMap, Live, Ops
    <2>2. Enter(tickets, id) \in Activation
      BY EnterType DEF Live
    <2>3. ctl' \in Seq(Activation)
      BY <1>7, <2>1, <2>2 DEF RootPoll
    <2> QED BY <1>7, <2>3, QuietTypeStep DEF RootPoll, Live, rootVars
  <1>8. ASSUME NEW id \in Live, RootCancel(id) PROVE TypeOK'
    <2>1. IsMap(tickets') /\ Live' = Live
      BY <1>8, MarkCancelledType DEF RootCancel, Cancel, Live
    <2>2. ctl' \in Seq(Activation)
      BY <1>8, CancelRoutineType DEF RootCancel
    <2> QED BY <1>8, <2>1, <2>2, QuietTypeStep DEF RootCancel, rootVars
  <1>9. ASSUME NEW id \in Live, RootRelease(id) PROVE TypeOK'
    <2>1. PICK R : tickets' = Without(R) /\ watches' = watches \ R
      BY <1>9 DEF RootRelease, ReleaseWatches
    <2>2. IsMap(tickets') /\ Live' \subseteq Live
      BY <2>1, WithoutType DEF Live
    <2> QED BY <1>9, <2>1, <2>2, QuietTypeStep DEF RootRelease, rootVars
  <1> QED BY <1>1, <1>2, <1>3, <1>4, <1>5, <1>6, <1>7, <1>8, <1>9 DEF HostStep

LEMMA AcceptType ==
    ASSUME IsMap(tickets), NEW id, NEW reply, NEW failed
    PROVE  /\ IsMap([tickets EXCEPT ![id] = Accepted(reply, @, failed)])
           /\ DOMAIN [tickets EXCEPT ![id] = Accepted(reply, @, failed)] = Live
  <1>1. id \in Live => Accepted(reply, tickets[id], failed) \in Record
    BY RecordUpdates DEF IsMap, Live
  <1> QED BY <1>1, UpdateType DEF Live

LEMMA ReplyType ==
    ASSUME TypeOK, Reply
    PROVE  TypeOK'
  <1> USE TypeFacts
  <1>1. Running /\ ctl # <<>> /\ Top \in Activation
    BY TopType DEF Reply, ReplyPending, ReplyCancelled, ReplyOutcome, Replying, Running, TopIs
  <1>2. Become([Top EXCEPT !.op = "settled"]) \in Seq(Activation)
    <2>1. [Top EXCEPT !.op = "settled"] \in Activation
      BY <1>1 DEF Activation, Ops
    <2> QED BY <1>1, <2>1, BecomeType
  <1>3. CASE ReplyPending
    BY <1>2, <1>3, QuietTypeStep DEF ReplyPending, rootVars, Live
  <1>4. CASE ReplyCancelled
    <2> DEFINE T == [tickets EXCEPT ![Top.id].native_quiescent = TRUE]
    <2>1. Top.id \in DOMAIN tickets => [tickets[Top.id] EXCEPT !.native_quiescent = TRUE] \in Record
      BY RecordUpdates DEF IsMap
    <2>2. IsMap(T) /\ DOMAIN T = Live
      BY <2>1, UpdateType DEF Live
    <2>3. IsMap(tickets') /\ Live' = Live
      BY <1>4, <2>2, RefreshType DEF ReplyCancelled, Live
    <2> QED BY <1>2, <1>4, <2>3, QuietTypeStep DEF ReplyCancelled, rootVars
  <1>5. ASSUME NEW reply \in {"ok", "fail", "quietFail", "cancelled"}, ReplyOutcome(reply)
        PROVE  TypeOK'
    <2> DEFINE id == Top.id
               failed == IsFailure(reply, id)
               T == [tickets EXCEPT ![id] = Accepted(reply, @, failed)]
    <2>1. IsMap(T) /\ DOMAIN T = Live
      BY AcceptType
    <2>2. CASE failed
      <3>1. tickets' = T /\ watches' = watches \ {id}
        BY <1>5, <2>2 DEF ReplyOutcome, ReleaseWatches
      <3>2. [Top EXCEPT !.op = "settle", !.todo = Children(T, id)] \in Activation
        BY <1>1, <2>1, ChildrenType DEF Activation, Ops
      <3>3. ctl' \in Seq(Activation)
        BY <1>1, <1>5, <2>2, <3>2, BecomeType DEF ReplyOutcome
      <3> QED BY <1>5, <2>1, <3>1, <3>3, QuietTypeStep DEF ReplyOutcome, rootVars, Live
    <2>3. CASE ~failed
      <3>1. Refresh(T) /\ ctl' = Become([Top EXCEPT !.op = "settled"]) /\ UNCHANGED watches
        BY <1>5, <2>3 DEF ReplyOutcome
      <3>2. IsMap(tickets') /\ Live' = Live
        BY <2>1, <3>1, RefreshType DEF Live
      <3> QED BY <1>2, <1>5, <3>1, <3>2, QuietTypeStep DEF ReplyOutcome, rootVars
    <2> QED BY <2>2, <2>3
  <1> QED BY <1>3, <1>4, <1>5 DEF Reply

LEMMA PluginStepType ==
    ASSUME TypeOK, PluginStep
    PROVE  TypeOK'
  <1> USE TypeFacts
  <1>0. ASSUME Running PROVE ctl # <<>> /\ Top \in Activation /\ Top.id \in Nat
    BY <1>0, TopType DEF Running, TopIs, Activation
  <1>1. ASSUME NEW p \in Providers, ImportBegin(p) PROVE TypeOK'
    BY <1>0, <1>1, BeginType DEF ImportBegin, Authorized
  <1>2. ASSUME NEW p \in Providers, ImportInvoke(p) PROVE TypeOK'
    BY <1>2, InvokeType DEF ImportInvoke
  <1>3. ASSUME NEW c \in Live, ImportPoll(c) PROVE TypeOK'
    <2> DEFINE waiting == Become([Top EXCEPT !.op = "awaitPoll", !.todo = {c}])
    <2>1. ctl # <<>> /\ Top \in Activation /\ c \in Ids
      BY <1>0, <1>3 DEF ImportPoll, IsMap, Live
    <2>2. [Top EXCEPT !.op = "awaitPoll", !.todo = {c}] \in Activation
      BY <2>1 DEF Activation, Ops
    <2>3. waiting \in Seq(Activation)
      BY <2>1, <2>2, BecomeType
    <2>4. Append(waiting, Enter(tickets, c)) \in Seq(Activation)
      BY <2>3, EnterType, PushType DEF Live
    <2>5. ctl' \in Seq(Activation)
      BY <1>3, <2>3, <2>4 DEF ImportPoll
    <2> QED BY <1>3, <2>5, QuietTypeStep DEF ImportPoll, rootVars, Live
  <1>4. ASSUME NEW c \in Live, ImportCancel(c) PROVE TypeOK'
    <2>1. IsMap(tickets') /\ Live' = Live
      BY <1>4, MarkCancelledType DEF ImportCancel, Cancel, Live
    <2>2. ctl' \in Seq(Activation)
      BY <1>4, CancelRoutineType, PushType DEF ImportCancel
    <2> QED BY <1>4, <2>1, <2>2, QuietTypeStep DEF ImportCancel, rootVars
  <1>5. CASE Subscribe
    <2>1. Top.id \in Ids
      BY <1>0, <1>5 DEF Subscribe, Authorized, Ids
    <2> QED BY <1>5, <2>1, QuietTypeStep DEF Subscribe, rootVars, Live
  <1>6. CASE InvokeReturn
    BY <1>0, <1>6, PopType, QuietTypeStep DEF InvokeReturn, rootVars, Live
  <1> QED BY <1>1, <1>2, <1>3, <1>4, <1>5, <1>6, ReplyType DEF PluginStep

LEMMA KernelStepType ==
    ASSUME TypeOK, KernelStep
    PROVE  TypeOK'
  <1> USE TypeFacts
  <1>0. ASSUME NEW op, TopIs(op) PROVE ctl # <<>> /\ Top \in Activation /\ Top.id \in Nat
    BY <1>0, TopType DEF TopIs, Activation
  <1>1. CASE RootPollDone
    <2>1. PICK id \in Live : tickets' = tickets
                             \/ tickets' = [tickets EXCEPT ![id] = Delivered(@)]
      BY <1>1 DEF RootPollDone
    <2>2. Delivered(tickets[id]) \in Record
      BY RecordUpdates DEF IsMap, Live
    <2>3. IsMap(tickets') /\ Live' = Live
      BY <2>1, <2>2, UpdateType DEF Live
    <2> QED BY <1>0, <1>1, <2>3, PopType, QuietTypeStep DEF RootPollDone, rootVars
  <1>2. CASE AbandonNext
    <2>1. PICK id \in Live :
            LET T == [tickets EXCEPT ![id].abandoned = TRUE] IN
            IF T[id].quiescent \/ T[id].cancelled
            THEN tickets' = T /\ ctl' = Visited(id)
            ELSE /\ tickets' = MarkCancelled(T, id)
                 /\ ctl' = Append(Visited(id), CancelRoutine(id))
      BY <1>2 DEF AbandonNext
    <2> DEFINE T == [tickets EXCEPT ![id].abandoned = TRUE]
    <2>2. [tickets[id] EXCEPT !.abandoned = TRUE] \in Record
      BY RecordUpdates DEF IsMap, Live
    <2>3. IsMap(T) /\ DOMAIN T = Live
      BY <2>2, UpdateType DEF Live
    <2>4. IsMap(tickets') /\ Live' = Live
      <3>1. tickets' = T \/ tickets' = MarkCancelled(T, id)
        BY <2>1
      <3> HIDE DEF T
      <3> QED BY <2>3, <3>1, MarkCancelledType DEF Live
    <2>5. Visited(id) \in Seq(Activation)
      BY <1>0, <1>2, VisitedType DEF AbandonNext
    <2>6. ctl' \in Seq(Activation)
      BY <2>1, <2>5, CancelRoutineType, PushType
    <2> QED BY <1>2, <2>4, <2>6, QuietTypeStep DEF AbandonNext, rootVars
  <1>3. CASE ReleaseAbandoned
    <2>1. IsMap(tickets') /\ Live' \subseteq Live
      BY <1>3 DEF ReleaseAbandoned, Unfinished, IsMap, Live
    <2>2. ctl' \in Seq(Activation)
      BY <1>0, <1>3, PopType DEF ReleaseAbandoned
    <2>3. activeRoot' \in Nat /\ completedRoots' \in Nat
      BY <1>3 DEF ReleaseAbandoned
    <2> QED BY <1>3, <2>1, <2>2, <2>3, QuietTypeStep DEF ReleaseAbandoned
  <1>4. CASE DrainAllNext
    <2>1. PICK id \in Live : ctl' = Append(Visited(id), Enter(tickets, id))
      BY <1>4 DEF DrainAllNext
    <2>2. ctl' \in Seq(Activation)
      BY <1>0, <1>4, <2>1, VisitedType, EnterType, PushType DEF DrainAllNext, Live
    <2> QED BY <1>4, <2>2, QuietTypeStep DEF DrainAllNext, rootVars, Live
  <1>5. CASE ImportPollDone
    <2>1. [Top EXCEPT !.op = "native", !.todo = {}] \in Activation
      BY <1>0, <1>5 DEF ImportPollDone, Activation, Ops
    <2>2. ctl' \in Seq(Activation)
      BY <1>0, <1>5, <2>1, BecomeType DEF ImportPollDone
    <2>3. \/ UNCHANGED <<tickets, watches>>
          \/ \E R : Refresh(Without(R)) /\ watches' = watches \ R
      BY <1>5 DEF ImportPollDone, ReleaseWatches
    <2>4. IsMap(tickets') /\ Live' \subseteq Live /\ watches' \subseteq watches
      BY <2>3, WithoutType, RefreshType DEF Live
    <2> QED BY <1>5, <2>2, <2>4, QuietTypeStep DEF ImportPollDone, rootVars
  <1>6. CASE CancelNext
    <2>1. PICK c \in Live :
            IF tickets[c].cancelled \/ tickets[c].quiescent
            THEN UNCHANGED tickets /\ ctl' = Visited(c)
            ELSE Cancel(c) /\ ctl' = Append(Visited(c), CancelRoutine(c))
      BY <1>6 DEF CancelNext
    <2>2. IsMap(tickets') /\ Live' = Live
      BY <2>1, MarkCancelledType DEF Cancel, Live
    <2>3. Visited(c) \in Seq(Activation)
      BY <1>0, <1>6, VisitedType DEF CancelNext
    <2>4. ctl' \in Seq(Activation)
      BY <2>1, <2>3, CancelRoutineType, PushType
    <2> QED BY <1>6, <2>2, <2>4, QuietTypeStep DEF CancelNext, rootVars
  <1>7. CASE SettleDone
    <2>1. [Top EXCEPT !.op = "settled"] \in Activation
      BY <1>0, <1>7 DEF SettleDone, Activation, Ops
    <2>2. ctl' \in Seq(Activation)
      BY <1>0, <1>7, <2>1, BecomeType DEF SettleDone
    <2> QED BY <1>7, <2>2, RefreshType, QuietTypeStep DEF SettleDone, rootVars, Live
  <1>8. CASE CancelEnter
    <2>1. ctl' \in Seq(Activation)
      BY <1>0, <1>8, EnterType, BecomeType DEF CancelEnter, Live
    <2> QED BY <1>8, <2>1, QuietTypeStep DEF CancelEnter, rootVars, Live
  <1>9. CASE BeginDone
    <2>1. \/ UNCHANGED <<tickets, watches>>
          \/ \E R : tickets' = Without(R) /\ watches' = watches \ R
      BY <1>9 DEF BeginDone, ReleaseWatches
    <2>2. IsMap(tickets') /\ Live' \subseteq Live /\ watches' \subseteq watches
      BY <2>1, WithoutType DEF Live
    <2>3. ctl' \in Seq(Activation)
      BY <1>0, <1>9, PopType DEF BeginDone
    <2> QED BY <1>9, <2>2, <2>3, QuietTypeStep DEF BeginDone, rootVars
  <1>10. CASE EnterDone
    <2>1. [Top EXCEPT !.op = "drain", !.todo = Children(tickets, Top.id)] \in Activation
      BY <1>0, <1>10, ChildrenType DEF EnterDone, Activation, Ops
    <2>2. ctl' \in Seq(Activation)
      BY <1>0, <1>10, <2>1, BecomeType, PopType DEF EnterDone
    <2>3. IsMap(tickets') /\ Live' = Live
      BY <1>10, RefreshType DEF EnterDone, Live
    <2> QED BY <1>10, <2>2, <2>3, QuietTypeStep DEF EnterDone, rootVars
  <1>11. CASE DrainNext
    <2>1. PICK c \in Live : ctl' = IF tickets[c].quiescent THEN Visited(c)
                                   ELSE Append(Visited(c), Enter(tickets, c))
      BY <1>11 DEF DrainNext
    <2>2. ctl' \in Seq(Activation)
      BY <1>0, <1>11, <2>1, VisitedType, EnterType, PushType DEF DrainNext, Live
    <2> QED BY <1>11, <2>2, QuietTypeStep DEF DrainNext, rootVars, Live
  <1>12. CASE DrainDone
    BY <1>0, <1>12, PopType, RefreshType, QuietTypeStep DEF DrainDone, rootVars, Live
  <1>13. CASE Panic
    <2>1. panic' \in Ops
      BY <1>13, TopType DEF Panic, Activation
    <2> QED BY <1>13, <2>1, TypeStep DEF Panic, rootVars, TypeOK, Live
  <1> QED BY <1>1, <1>2, <1>3, <1>4, <1>5, <1>6, <1>7, <1>8, <1>9, <1>10, <1>11,
             <1>12, <1>13 DEF KernelStep

LEMMA InitType == Init => TypeOK
  <1> SUFFICES ASSUME Init PROVE TypeOK
    OBVIOUS
  <1>1. Live = {}
    BY DEF Init, Live
  <1>2. tickets \in [Live -> Record] /\ ctl \in Seq(Activation)
    BY <1>1 DEF Init
  <1>3. nextTicket \in Ids /\ activeRoot \in Nat /\ nextRoot \in Nat /\ completedRoots \in Nat
    BY DEF Init, Ids
  <1>4. rootLive \in BOOLEAN /\ stopped \in BOOLEAN
    BY DEF Init
  <1>5. watches \in SUBSET Ids /\ panic = "none"
    BY DEF Init
  <1> QED BY <1>1, <1>2, <1>3, <1>4, <1>5 DEF TypeOK

LEMMA NextType == TypeOK /\ [Next]_vars => TypeOK'
  <1> SUFFICES ASSUME TypeOK, [Next]_vars PROVE TypeOK'
    OBVIOUS
  <1>1. CASE UNCHANGED vars
    BY <1>1 DEF vars, TypeOK, Live
  <1>2. CASE Finished
    BY <1>1, <1>2 DEF Finished
  <1> QED BY <1>1, <1>2, HostStepType, PluginStepType, KernelStepType DEF Next

(* Every variable keeps its type, whatever the plugins do. *)
THEOREM TypeCorrect == Spec => []TypeOK
    BY InitType, NextType, PTL DEF Spec

-----------------------------------------------------------------------------
(***************************************************************************)
(* StackFollowsForest is inductive, hence no provider is leased twice, no  *)
(* instance is re-entered and no loop indexes a ticket that is gone.       *)
(***************************************************************************)
(* A bounded, non-empty set of naturals has a maximum. *)

LEMMA MaxElement ==
    ASSUME NEW S \in SUBSET Nat, S # {}, NEW N \in Nat, \A k \in S : k <= N
    PROVE  \E m \in S : \A k \in S : k <= m
  <1> DEFINE F == {k..N : k \in S}
  <1>1. F \subseteq FiniteSubsetsOf(Nat)
    <2> SUFFICES ASSUME NEW k \in S PROVE k..N \in FiniteSubsetsOf(Nat)
      OBVIOUS
    <2>1. IsFiniteSet(k..N)
      BY FS_Interval
    <2> QED BY <2>1 DEF FiniteSubsetsOf
  <1>2. F # {}
    OBVIOUS
  <1>3. PICK x \in F : \A y \in F : ~(<<y, x>> \in StrictSubsetOrdering(Nat))
    <2> HIDE DEF F
    <2> QED BY <1>1, <1>2, WFMin, FS_StrictSubsetOrderingWellFounded
  <1>4. PICK m \in S : x = m..N
    BY <1>3
  <1>5. ASSUME NEW k \in S, ~(k <= m) PROVE FALSE
    <2>1. k..N \subseteq m..N /\ m \in m..N /\ m \notin k..N
      BY <1>5
    <2>2. <<k..N, m..N>> \in StrictSubsetOrdering(Nat)
      BY <2>1 DEF StrictSubsetOrdering
    <2> QED BY <1>3, <1>4, <2>2
  <1> QED BY <1>5

-----------------------------------------------------------------------------
(* The call stack under pushes, pops and replacements of its top. *)

LEMMA PushOK ==
    ASSUME NEW s \in Seq(Activation), NEW T, NEW a \in Activation,
           StackOK(s, T), FrameOK(a, T), \A i \in 1..Len(s) : PairOK(s[i], a, T)
    PROVE  StackOK(Append(s, a), T)
  <1> DEFINE t == Append(s, a)
  <1>1. Len(t) = Len(s) + 1 /\ t[Len(t)] = a /\ \A i \in 1..Len(s) : t[i] = s[i]
    OBVIOUS
  <1> HIDE DEF t
  <1>2. ASSUME NEW i \in 1..Len(t) PROVE FrameOK(t[i], T)
    BY <1>1, i \in 1..Len(s) \/ i = Len(t) DEF StackOK
  <1>3. ASSUME NEW i \in 1..Len(t), NEW j \in 1..Len(t), i < j
        PROVE  PairOK(t[i], t[j], T)
    <2>1. i \in 1..Len(s)
      BY <1>1, <1>3
    <2>2. CASE j \in 1..Len(s)
      BY <1>1, <1>3, <2>1, <2>2 DEF StackOK
    <2>3. CASE j = Len(t)
      BY <1>1, <2>1, <2>3
    <2> QED BY <1>1, <2>2, <2>3
  <1>4. StackOK(t, T)
    BY <1>2, <1>3 DEF StackOK
  <1> QED BY <1>4 DEF t

LEMMA AllButLast ==
    ASSUME NEW S, NEW s \in Seq(S), s # <<>>
    PROVE  LET t == SubSeq(s, 1, Len(s) - 1) IN
           /\ Len(t) = Len(s) - 1 /\ Len(s) \in Nat /\ Len(s) >= 1
           /\ \A i \in 1..Len(t) : t[i] = s[i]
  <1> DEFINE n == Len(s) - 1
             t == SubSeq(s, 1, n)
  <1>1. n \in Nat /\ Len(s) = n + 1 /\ \A i \in 1..n : s[i] \in S
    OBVIOUS
  <1> HIDE DEF n
  <1>2. /\ Len(t) = IF 1 <= n THEN n - 1 + 1 ELSE 0
        /\ \A i \in 1..(n - 1 + 1) : t[i] = s[1 + i - 1]
    BY <1>1, SubSeqProperties
  <1> HIDE DEF t
  <1>3. Len(t) = n /\ \A i \in 1..n : t[i] = s[i]
    BY <1>1, <1>2
  <1> QED BY <1>1, <1>3 DEF n, t

LEMMA PopOK ==
    ASSUME NEW s \in Seq(Activation), s # <<>>, NEW T, StackOK(s, T)
    PROVE  LET t == SubSeq(s, 1, Len(s) - 1) IN
           /\ StackOK(t, T) /\ Len(t) = Len(s) - 1
           /\ \A i \in 1..Len(t) : t[i] = s[i]
  <1> DEFINE t == SubSeq(s, 1, Len(s) - 1)
  <1>1. Len(t) = Len(s) - 1 /\ Len(s) \in Nat /\ \A i \in 1..Len(t) : t[i] = s[i]
    BY AllButLast
  <1> HIDE DEF t
  <1>2. StackOK(t, T)
    BY <1>1 DEF StackOK
  <1> QED BY <1>1, <1>2 DEF t

LEMMA TopOK ==
    ASSUME NEW s \in Seq(Activation), s # <<>>, NEW T, NEW a \in Activation,
           StackOK(s, T), FrameOK(a, T),
           \A i \in 1..(Len(s) - 1) : PairOK(s[i], a, T)
    PROVE  StackOK([s EXCEPT ![Len(s)] = a], T)
  <1> DEFINE t == [s EXCEPT ![Len(s)] = a]
  <1>1. /\ Len(t) = Len(s) /\ Len(s) \in Nat /\ t[Len(t)] = a
        /\ \A i \in 1..(Len(s) - 1) : t[i] = s[i]
    OBVIOUS
  <1> HIDE DEF t
  <1>2. ASSUME NEW i \in 1..Len(t) PROVE FrameOK(t[i], T)
    BY <1>1, i \in 1..(Len(s) - 1) \/ i = Len(t) DEF StackOK
  <1>3. ASSUME NEW i \in 1..Len(t), NEW j \in 1..Len(t), i < j
        PROVE  PairOK(t[i], t[j], T)
    <2>1. i \in 1..(Len(s) - 1)
      BY <1>1, <1>3
    <2>2. CASE j \in 1..(Len(s) - 1)
      BY <1>1, <1>3, <2>1, <2>2 DEF StackOK
    <2>3. CASE j = Len(t)
      BY <1>1, <2>1, <2>3
    <2> QED BY <1>1, <2>2, <2>3
  <1>4. StackOK(t, T)
    BY <1>2, <1>3 DEF StackOK
  <1> QED BY <1>4 DEF t

(* A routine that goes on under the same ticket, guard and kind of call. *)
LEMMA GoOnOK ==
    ASSUME ctl \in Seq(Activation), ctl # <<>>, NEW T, StackOK(ctl, T),
           NEW a \in Activation, FrameOK(a, T),
           a.op \notin HostOps \/ a.op = Top.op,
           a.id = Top.id, a.provider = Top.provider, a.begin = Top.begin
    PROVE  StackOK(Become(a), T)
  <1>1. ASSUME NEW i \in 1..(Len(ctl) - 1) PROVE PairOK(ctl[i], a, T)
    <2>1. PairOK(ctl[i], Top, T)
      BY DEF StackOK, Top
    <2> QED BY <2>1 DEF PairOK
  <1> QED BY <1>1, TopOK DEF Become


-----------------------------------------------------------------------------
(* Entering a ticket below the top of the stack. *)

LEMMA Ancestry ==
    ASSUME NEW s \in Seq(Activation), s # <<>>, NEW T, IsMap(T),
           StackOK(s, T), ForestOK(T), NEW c \in DOMAIN T,
           \/ s[Len(s)].op \in HostOps
           \/ s[Len(s)].id # 0 /\ T[c].parent = s[Len(s)].id
    PROVE  \A i \in 1..Len(s) : Hosts(s[i], c, T)
  <1> DEFINE a == s[Len(s)]
  <1>1. Len(s) \in Nat /\ Len(s) >= 1 /\ c \in Nat
    BY DEF IsMap, Ids
  <1>2. FrameOK(a, T) /\ a \in Activation
    BY <1>1 DEF StackOK
  <1>3. ASSUME NEW i \in 1..Len(s), i # Len(s) PROVE PairOK(s[i], a, T)
    BY <1>1, <1>3 DEF StackOK
  <1>4. CASE a.op \in HostOps
    BY <1>2, <1>3, <1>4 DEF PairOK, Hosts, FrameOK
  <1>5. CASE a.id # 0 /\ T[c].parent = a.id
    <2>1. a.id \in DOMAIN T /\ a.id \in Nat /\ a.id < c
      BY <1>2, <1>5 DEF FrameOK, ForestOK, Activation
    <2>2. Below(a.id, c, T)
      BY <1>5 DEF Below, Closed
    <2>3. ASSUME NEW i \in 1..Len(s), i # Len(s) PROVE Hosts(s[i], c, T)
      <3>1. Hosts(s[i], a.id, T) /\ s[i] \in Activation
        BY <1>3, <1>5, <2>3 DEF PairOK
      <3>2. CASE s[i].id = 0
        BY <3>1, <3>2 DEF Hosts
      <3>3. CASE s[i].id # 0
        <4>1. s[i].id \in Nat /\ s[i].id < a.id /\ Below(s[i].id, a.id, T)
          BY <3>1, <3>3 DEF Hosts, Activation
        <4>2. s[i].id < c
          BY <1>1, <2>1, <4>1
        <4>3. Below(s[i].id, c, T)
          BY <2>2, <4>1 DEF Below
        <4> QED BY <3>3, <4>2, <4>3 DEF Hosts
      <3> QED BY <3>2, <3>3
    <2> QED BY <1>5, <2>1, <2>2, <2>3 DEF Hosts
  <1> QED BY <1>4, <1>5

(* A guard on the path to live work is held for a live ticket. *)
LEMMA GuardFree ==
    ASSUME NEW T, IsMap(T), ForestOK(T), LeaseOK(T),
           NEW c \in DOMAIN T, ~T[c].quiescent,
           NEW a, FrameOK(a, T), Hosts(a, c, T), a.provider # NoProvider
    PROVE  a.provider # T[c].provider
  <1> DEFINE Q == {d \in DOMAIN T : T[d].quiescent}
  <1>1. a.id # 0
    BY DEF FrameOK, Hosts
  <1>2. /\ a.id \in DOMAIN T /\ a.provider = T[a.id].provider
        /\ a.id < c /\ Below(a.id, c, T)
    BY <1>1 DEF FrameOK, Hosts
  <1>3. Closed(Q, T)
    BY DEF Closed, ForestOK, Children
  <1>4. ~T[a.id].quiescent
    BY <1>2, <1>3 DEF Below
  <1>5. c \in Nat
    BY DEF IsMap, Ids
  <1> QED BY <1>2, <1>4, <1>5 DEF LeaseOK

LEMMA RoutineFrameOK ==
    ASSUME NEW T, NEW c \in DOMAIN T, 0 \notin DOMAIN T,
           NEW op \in {"drain", "cancelTree"}
    PROVE  FrameOK(Routine(op, c, Children(T, c)), T)
    BY DEF FrameOK, Routine, HostOps, Children

LEMMA RoutinePairOK ==
    ASSUME NEW T, NEW a, NEW c, NEW op \in {"drain", "cancelTree"}, NEW S,
           Hosts(a, c, T)
    PROVE  PairOK(a, Routine(op, c, S), T)
    BY DEF PairOK, Routine, HostOps

LEMMA EnterOK ==
    ASSUME NEW T, IsMap(T), ForestOK(T), LeaseOK(T), NEW c \in DOMAIN T
    PROVE  /\ FrameOK(Enter(T, c), T)
           /\ \A a : FrameOK(a, T) /\ Hosts(a, c, T) => PairOK(a, Enter(T, c), T)
  <1>1. c # 0 /\ 0 \notin DOMAIN T /\ T[c].provider # NoProvider
    BY NoProviderAssumption DEF IsMap, Ids, Record
  <1>2. CASE T[c].native_quiescent
    BY <1>1, <1>2, RoutineFrameOK, RoutinePairOK DEF Enter
  <1>3. CASE ~T[c].native_quiescent
    <2>1. Enter(T, c) = Native(c, T[c].provider, IsRevoked(T[c]), FALSE)
      BY <1>3 DEF Enter
    <2>2. FrameOK(Enter(T, c), T)
      BY <1>1, <1>3, <2>1 DEF FrameOK, Native, HostOps
    <2>3. ASSUME NEW a, FrameOK(a, T), Hosts(a, c, T) PROVE PairOK(a, Enter(T, c), T)
      <3>1. ~T[c].quiescent
        BY <1>3 DEF ForestOK
      <3>2. a.provider # NoProvider => a.provider # T[c].provider
        BY <2>3, <3>1, GuardFree
      <3> QED BY <2>1, <2>3, <3>2 DEF PairOK, Native, HostOps
    <2> QED BY <2>2, <2>3
  <1> QED BY <1>2, <1>3

-----------------------------------------------------------------------------
(* Changing the map under a stack that stands still. *)

SameTree(T, U) ==
    /\ DOMAIN U = DOMAIN T
    /\ \A d \in DOMAIN T : U[d].parent = T[d].parent /\ U[d].provider = T[d].provider

LEMMA SameBelow ==
    ASSUME NEW T, NEW U, SameTree(T, U), NEW a, NEW c, Below(a, c, T)
    PROVE  Below(a, c, U)
    BY DEF SameTree, Below, Closed

LEMMA SameTreeStack ==
    ASSUME NEW s \in Seq(Activation), NEW T, NEW U, SameTree(T, U), StackOK(s, T),
           \A i \in 1..Len(s) : s[i].id # 0 /\ s[i].op \in {"native", "awaitPoll"}
                                  => ~U[s[i].id].native_quiescent
    PROVE  StackOK(s, U)
  <1>1. ASSUME NEW i \in 1..Len(s) PROVE FrameOK(s[i], U)
    BY DEF StackOK, FrameOK, SameTree
  <1>2. ASSUME NEW i \in 1..Len(s), NEW j \in 1..Len(s), i < j
        PROVE  PairOK(s[i], s[j], U)
    <2>1. PairOK(s[i], s[j], T)
      BY <1>2 DEF StackOK
    <2> QED BY <2>1, SameBelow DEF PairOK, Hosts
  <1> QED BY <1>1, <1>2 DEF StackOK

(* Native completion grows, nothing else moves. *)
LEMMA SameTreeForest ==
    ASSUME NEW T, NEW U, SameTree(T, U), ForestOK(T), LeaseOK(T),
           \A d \in DOMAIN T : /\ U[d].quiescent = T[d].quiescent
                               /\ T[d].native_quiescent => U[d].native_quiescent
    PROVE  ForestOK(U) /\ LeaseOK(U)
  <1>1. \A id : Children(U, id) = Children(T, id)
    BY DEF Children, SameTree
  <1>2. ForestOK(U)
    BY <1>1 DEF ForestOK, SameTree, Children
  <1>3. LeaseOK(U)
    BY DEF LeaseOK, SameTree
  <1> QED BY <1>2, <1>3

(* refresh_quiescence only ever ends leases. *)
LEMMA RefreshForest ==
    ASSUME NEW T, IsMap(T), NEW N \in Nat, \A d \in DOMAIN T : d < N,
           ForestOK(T), LeaseOK(T), Refresh(T)
    PROVE  /\ ForestOK(tickets') /\ LeaseOK(tickets') /\ SameTree(T, tickets')
           /\ \A d \in DOMAIN T : tickets'[d].native_quiescent = T[d].native_quiescent
  <1>1. PICK q \in [DOMAIN T -> BOOLEAN] :
          /\ IsQuiescence(q, T)
          /\ tickets' = [id \in DOMAIN T |-> [T[id] EXCEPT !.quiescent = q[id]]]
    BY DEF Refresh
  <1>2. ASSUME NEW d \in DOMAIN T
        PROVE  /\ tickets'[d].parent = T[d].parent
               /\ tickets'[d].provider = T[d].provider
               /\ tickets'[d].native_quiescent = T[d].native_quiescent
               /\ tickets'[d].quiescent = q[d]
    BY <1>1 DEF IsMap, Record
  <1>3. DOMAIN tickets' = DOMAIN T
    BY <1>1
  <1>4. SameTree(T, tickets')
    BY <1>2, <1>3 DEF SameTree
  <1> DEFINE Bad == {d \in DOMAIN T : T[d].quiescent /\ ~q[d]}
  <1>5. Bad = {}
    <2> SUFFICES ASSUME Bad # {} PROVE FALSE
      OBVIOUS
    <2>1. Bad \in SUBSET Nat /\ \A d \in Bad : d <= N
      BY DEF IsMap, Ids
    <2>2. PICK m \in Bad : \A d \in Bad : d <= m
      <3> HIDE DEF Bad
      <3> QED BY <2>1, MaxElement
    <2>3. T[m].native_quiescent /\ \A c \in Children(T, m) : T[c].quiescent
      BY DEF ForestOK
    <2>4. PICK c \in Children(T, m) : ~q[c]
      BY <1>1, <2>3 DEF IsQuiescence
    <2>5. c \in Bad /\ m < c /\ c \in Nat /\ m \in Nat
      BY <2>3, <2>4 DEF Children, ForestOK, IsMap, Ids
    <2> QED BY <2>2, <2>5
  <1>6. \A id : Children(tickets', id) = Children(T, id)
    BY <1>2, <1>3 DEF Children
  <1>7. ForestOK(tickets')
    <2> SUFFICES ASSUME NEW id \in DOMAIN T
                 PROVE  /\ T[id].parent \in Nat /\ T[id].parent < id
                        /\ q[id] => T[id].native_quiescent
                        /\ q[id] => \A c \in Children(T, id) : q[c]
      BY <1>2, <1>3, <1>6 DEF ForestOK, Children
    <2> QED BY <1>1 DEF ForestOK, IsQuiescence
  <1>8. LeaseOK(tickets')
    <2> SUFFICES ASSUME NEW a \in DOMAIN T, NEW b \in DOMAIN T,
                        T[a].provider = T[b].provider, ~q[a], ~q[b]
                 PROVE  a = b
      BY <1>2, <1>3 DEF LeaseOK
    <2> QED BY <1>5 DEF LeaseOK
  <1> QED BY <1>2, <1>4, <1>7, <1>8

(* Removing records. *)
LEMMA ShrinkForest ==
    ASSUME NEW T, NEW S, S \subseteq DOMAIN T, ForestOK(T), LeaseOK(T)
    PROVE  ForestOK([d \in S |-> T[d]]) /\ LeaseOK([d \in S |-> T[d]])
    BY DEF ForestOK, LeaseOK, Children

(* R is a ticket tree: it holds the children of its members. *)
LEMMA ShrinkStack ==
    ASSUME NEW s \in Seq(Activation), NEW T, StackOK(s, T),
           NEW R \in SUBSET DOMAIN T, Closed(R, T),
           \A i \in 1..Len(s) : /\ s[i].id \notin R
                                /\ s[i].op # "abandon" => s[i].todo \cap R = {}
    PROVE  StackOK(s, [d \in DOMAIN T \ R |-> T[d]])
  <1> DEFINE U == [d \in DOMAIN T \ R |-> T[d]]
  <1>1. DOMAIN U = DOMAIN T \ R /\ \A d \in DOMAIN U : U[d] = T[d]
    OBVIOUS
  <1> HIDE DEF U
  <1>2. ASSUME NEW i \in 1..Len(s) PROVE FrameOK(s[i], U)
    BY <1>1 DEF StackOK, FrameOK
  <1>3. ASSUME NEW a, NEW c, c \notin R, Below(a, c, T) PROVE Below(a, c, U)
    <2> SUFFICES ASSUME NEW S \in SUBSET DOMAIN U, Closed(S, U), a \in S PROVE c \in S
      BY DEF Below
    <2>1. S \cup R \in SUBSET DOMAIN T /\ Closed(S \cup R, T)
      BY <1>1 DEF Closed
    <2> QED BY <1>3, <2>1 DEF Below
  <1>4. ASSUME NEW i \in 1..Len(s), NEW j \in 1..Len(s), i < j
        PROVE  PairOK(s[i], s[j], U)
    <2>1. PairOK(s[i], s[j], T)
      BY <1>4 DEF StackOK
    <2> QED BY <1>3, <2>1 DEF PairOK, Hosts
  <1>5. StackOK(s, U)
    BY <1>2, <1>4 DEF StackOK
  <1> QED BY <1>5 DEF U

-----------------------------------------------------------------------------
(* The inductive invariant and what every step may use of it. *)

LeaseInv == TypeOK /\ StackFollowsForest

LEMMA InvFacts ==
    ASSUME LeaseInv
    PROVE  /\ TypeOK /\ IsMap(tickets) /\ ctl \in Seq(Activation)
           /\ nextTicket \in Nat /\ nextTicket # 0 /\ nextTicket \notin Live
           /\ \A d \in Live : d \in Nat /\ d # 0 /\ d < nextTicket
           /\ 0 \notin Live
           /\ StackOK(ctl, tickets) /\ ForestOK(tickets) /\ LeaseOK(tickets)
    BY TypeFacts DEF LeaseInv, StackFollowsForest, TypeOK, IsMap, Ids, Live

LEMMA TopFacts ==
    ASSUME LeaseInv, ctl # <<>>
    PROVE  /\ Len(ctl) \in Nat /\ Len(ctl) >= 1 /\ Top = ctl[Len(ctl)]
           /\ Top \in Activation /\ FrameOK(Top, tickets)
           /\ \A i \in 1..(Len(ctl) - 1) : PairOK(ctl[i], Top, tickets)
    BY InvFacts, TopType DEF StackOK, Top

(* begin_pending: from the host, or from the plugin code on top. *)
LEMMA BeginForest ==
    ASSUME LeaseInv, NEW p \in Providers, NEW parent \in Nat, Begin(p, parent),
           \/ parent = 0
           \/ ctl # <<>> /\ Top.op = "native" /\ Top.id # 0 /\ parent = Top.id
    PROVE  /\ ForestOK(tickets') /\ LeaseOK(tickets')
           /\ StackOK(ctl, tickets')
           /\ Live' = Live \cup {nextTicket}
           /\ tickets'[nextTicket] = NewRecord(p, parent)
  <1> DEFINE n == nextTicket
             U == tickets'
  <1>1. /\ DOMAIN U = Live \cup {n} /\ U[n] = NewRecord(p, parent)
        /\ \A d \in Live : U[d] = tickets[d]
    BY InvFacts DEF Begin
  <1>2. \/ parent = 0
        \/ parent \in Live /\ ~tickets[parent].native_quiescent /\ ~tickets[parent].quiescent
    BY InvFacts, TopFacts DEF FrameOK, ForestOK, Live
  <1>3. /\ NewRecord(p, parent).parent = parent /\ NewRecord(p, parent).provider = p
        /\ ~NewRecord(p, parent).quiescent
    BY DEF NewRecord
  <1>4. ASSUME NEW d \in Live PROVE Children(U, d) \subseteq Children(tickets, d) \cup {n}
    BY <1>1 DEF Children, Live
  <1>5. ForestOK(U)
    <2>1. n \in Nat /\ parent < n /\ \A d \in Live : d \in Nat
      BY <1>2, InvFacts
    <2>2. ASSUME NEW d \in Live, tickets[d].quiescent, NEW c \in Children(U, d)
          PROVE  U[c].quiescent
      <3>1. CASE c = n
        BY <1>1, <1>2, <1>3, <2>2, <3>1, InvFacts DEF Children
      <3>2. CASE c # n
        BY <1>1, <1>4, <2>2, <3>2, InvFacts DEF ForestOK, Children, Live
      <3> QED BY <3>1, <3>2
    <2> QED BY <1>1, <1>3, <2>1, <2>2, InvFacts DEF ForestOK, Live
  <1>6. LeaseOK(U)
    BY <1>1, <1>3, InvFacts DEF LeaseOK, Begin, CanDispatch, Live
  <1>7. StackOK(ctl, U)
    <2>1. ASSUME NEW a \in Live, NEW c \in Live, Below(a, c, tickets)
          PROVE  Below(a, c, U)
      <3> SUFFICES ASSUME NEW S \in SUBSET DOMAIN U, Closed(S, U), a \in S PROVE c \in S
        BY DEF Below
      <3>1. S \ {n} \in SUBSET Live /\ Closed(S \ {n}, tickets)
        BY <1>1, InvFacts DEF Closed, Live
      <3> QED BY <2>1, <3>1, InvFacts DEF Below, Live
    <2>2. ASSUME NEW i \in 1..Len(ctl) PROVE FrameOK(ctl[i], U)
      BY <1>1, InvFacts DEF StackOK, FrameOK, Live
    <2>3. ASSUME NEW i \in 1..Len(ctl), NEW j \in 1..Len(ctl), i < j
          PROVE  PairOK(ctl[i], ctl[j], U)
      <3>1. /\ PairOK(ctl[i], ctl[j], tickets)
            /\ FrameOK(ctl[i], tickets) /\ FrameOK(ctl[j], tickets)
        BY <2>3, InvFacts DEF StackOK
      <3> QED BY <2>1, <3>1 DEF PairOK, Hosts, FrameOK, Live
    <2> QED BY <2>2, <2>3 DEF StackOK
  <1> QED BY <1>1, <1>5, <1>6, <1>7 DEF Live

LEMMA BeginInv ==
    ASSUME LeaseInv, NEW p \in Providers, NEW parent \in Nat, Begin(p, parent),
           \/ ctl = <<>> /\ parent = 0
           \/ ctl # <<>> /\ Top.op = "native" /\ Top.id # 0 /\ parent = Top.id
    PROVE  LeaseInv'
  <1> DEFINE n == nextTicket
             U == tickets'
             a == Native(n, p, FALSE, TRUE)
  <1>1. TypeOK'
    BY InvFacts, BeginType
  <1>2. /\ ForestOK(U) /\ LeaseOK(U) /\ StackOK(ctl, U)
        /\ DOMAIN U = Live \cup {n} /\ U[n] = NewRecord(p, parent) /\ IsMap(U)
    BY <1>1, BeginForest, TypeFacts DEF IsMap, TypeOK, Live
  <1>3. a \in Activation /\ n # 0 /\ ctl' = Append(ctl, a)
    BY InvFacts DEF Native, Activation, Ops, Begin
  <1>4. FrameOK(a, U)
    BY <1>2, <1>3 DEF FrameOK, Native, HostOps, NewRecord
  <1>5. ASSUME NEW i \in 1..Len(ctl) PROVE PairOK(ctl[i], a, U)
    <2>1. ctl # <<>> /\ Top.op = "native" /\ Top.id # 0 /\ parent = Top.id
      BY <1>5
    <2>2. U[n].parent = ctl[Len(ctl)].id /\ ctl[Len(ctl)].id # 0
      BY <1>2, <2>1 DEF NewRecord, Top
    <2>3. Hosts(ctl[i], n, U)
      BY <1>2, <2>1, <2>2, Ancestry, InvFacts
    <2>4. ctl[i].provider # p
      BY DEF Begin, CanDispatch
    <2>5. ctl[i].op # "abandon" => n \notin ctl[i].todo
      BY InvFacts DEF StackOK, FrameOK, Live
    <2> QED BY <1>3, <2>3, <2>4, <2>5 DEF PairOK, Native, HostOps
  <1>6. StackOK(ctl', U)
    BY <1>2, <1>3, <1>4, <1>5, PushOK, InvFacts
  <1> QED BY <1>1, <1>2, <1>6 DEF LeaseInv, StackFollowsForest

LEMMA InvokeInv ==
    ASSUME LeaseInv, NEW p \in Providers, Invoke(p)
    PROVE  LeaseInv'
  <1> DEFINE a == Native(0, p, FALSE, FALSE)
  <1>1. TypeOK' /\ tickets' = tickets /\ ctl' = Append(ctl, a) /\ a \in Activation
    BY InvFacts, InvokeType DEF Invoke, Native, Activation, Ops
  <1>2. FrameOK(a, tickets)
    BY DEF FrameOK, Native, HostOps
  <1>3. ASSUME NEW i \in 1..Len(ctl) PROVE PairOK(ctl[i], a, tickets)
    BY DEF PairOK, Native, HostOps, Invoke, CanDispatch
  <1>4. StackOK(ctl', tickets)
    BY <1>1, <1>2, <1>3, PushOK, InvFacts
  <1> QED BY <1>1, <1>4, InvFacts DEF LeaseInv, StackFollowsForest

-----------------------------------------------------------------------------
(* Descending into a ticket from the routine on top: s is the stack with that
   routine's loop advanced. *)

LEMMA DescendOK ==
    ASSUME LeaseInv, NEW s \in Seq(Activation), s # <<>>, StackOK(s, tickets),
           NEW c \in Live,
           \/ s[Len(s)].op \in HostOps
           \/ s[Len(s)].id # 0 /\ tickets[c].parent = s[Len(s)].id
    PROVE  /\ StackOK(Append(s, Enter(tickets, c)), tickets)
           /\ StackOK(Append(s, CancelRoutine(c)), tickets)
  <1>1. \A i \in 1..Len(s) : Hosts(s[i], c, tickets) /\ FrameOK(s[i], tickets)
    BY Ancestry, InvFacts DEF Live, StackOK
  <1>2. Enter(tickets, c) \in Activation /\ CancelRoutine(c) \in Activation
    BY EnterType, CancelRoutineType, InvFacts DEF Live
  <1>3. StackOK(Append(s, Enter(tickets, c)), tickets)
    BY <1>1, <1>2, EnterOK, PushOK, InvFacts DEF Live
  <1>4. StackOK(Append(s, CancelRoutine(c)), tickets)
    BY <1>1, <1>2, RoutineFrameOK, RoutinePairOK, PushOK, InvFacts DEF Live, CancelRoutine
  <1> QED BY <1>3, <1>4

LEMMA VisitedOK ==
    ASSUME LeaseInv, ctl # <<>>, NEW c
    PROVE  /\ StackOK(Visited(c), tickets) /\ Visited(c) \in Seq(Activation)
           /\ Visited(c) # <<>>
           /\ Visited(c)[Len(Visited(c))] = [Top EXCEPT !.todo = @ \ {c}]
  <1> DEFINE a == [Top EXCEPT !.todo = @ \ {c}]
  <1>1. /\ a \in Activation /\ a.todo \subseteq Top.todo /\ a.op = Top.op /\ a.id = Top.id
        /\ a.provider = Top.provider /\ a.begin = Top.begin
    BY TopFacts DEF Activation
  <1>2. FrameOK(a, tickets)
    BY <1>1, TopFacts DEF FrameOK
  <1>3. StackOK(Visited(c), tickets)
    BY <1>1, <1>2, GoOnOK, InvFacts DEF Visited
  <1>4. /\ Visited(c) = [ctl EXCEPT ![Len(ctl)] = a] /\ Len(Visited(c)) = Len(ctl)
        /\ Visited(c) \in Seq(Activation) /\ Visited(c) # <<>>
        /\ Visited(c)[Len(ctl)] = a
    BY <1>1, InvFacts DEF Visited, Become
  <1> QED BY <1>3, <1>4

-----------------------------------------------------------------------------
(* Updates of the map in the form the steps make them. *)

(* Flags that neither the stack nor the leases depend on. *)
LEMMA FlagsOK ==
    ASSUME LeaseInv, NEW U, DOMAIN U = Live,
           \A d \in Live : /\ U[d].parent = tickets[d].parent
                           /\ U[d].provider = tickets[d].provider
                           /\ U[d].native_quiescent = tickets[d].native_quiescent
                           /\ U[d].quiescent = tickets[d].quiescent
    PROVE  /\ ForestOK(U) /\ LeaseOK(U)
           /\ \A s \in Seq(Activation) : StackOK(s, tickets) => StackOK(s, U)
  <1>1. SameTree(tickets, U)
    BY DEF SameTree, Live
  <1>2. ForestOK(U) /\ LeaseOK(U)
    BY <1>1, SameTreeForest, InvFacts DEF Live
  <1>3. ASSUME NEW s \in Seq(Activation), StackOK(s, tickets) PROVE StackOK(s, U)
    <2>1. \A i \in 1..Len(s) : s[i].id # 0 /\ s[i].op \in {"native", "awaitPoll"}
                                 => ~U[s[i].id].native_quiescent
      BY <1>3 DEF StackOK, FrameOK, Live
    <2> QED BY <1>1, <1>3, <2>1, SameTreeStack
  <1> QED BY <1>2, <1>3

LEMMA MarkOK ==
    ASSUME LeaseInv, NEW id \in Live
    PROVE  LET U == MarkCancelled(tickets, id) IN
           /\ ForestOK(U) /\ LeaseOK(U)
           /\ \A s \in Seq(Activation) : StackOK(s, tickets) => StackOK(s, U)
  <1> DEFINE U == MarkCancelled(tickets, id)
  <1>1. DOMAIN U = Live /\ \A d \in Live : U[d] = IF d = id THEN CancelledRecord(tickets[d])
                                                            ELSE tickets[d]
    BY InvFacts DEF MarkCancelled, Live, IsMap
  <1>2. \A d \in Live : tickets[d] \in Record
    BY InvFacts DEF IsMap, Live
  <1> HIDE DEF U
  <1>3. \A d \in Live : /\ U[d].parent = tickets[d].parent
                        /\ U[d].provider = tickets[d].provider
                        /\ U[d].native_quiescent = tickets[d].native_quiescent
                        /\ U[d].quiescent = tickets[d].quiescent
    <2> SUFFICES ASSUME NEW d \in Live
                 PROVE  /\ U[d].parent = tickets[d].parent
                        /\ U[d].provider = tickets[d].provider
                        /\ U[d].native_quiescent = tickets[d].native_quiescent
                        /\ U[d].quiescent = tickets[d].quiescent
      OBVIOUS
    <2>1. U[d] = CancelledRecord(tickets[d]) \/ U[d] = tickets[d]
      BY <1>1
    <2> QED BY <1>2, <2>1, FlagsKept
  <1>4. /\ ForestOK(U) /\ LeaseOK(U)
        /\ \A s \in Seq(Activation) : StackOK(s, tickets) => StackOK(s, U)
    BY <1>1, <1>3, FlagsOK
  <1> QED BY <1>4 DEF U

LEMMA RefreshOK ==
    ASSUME LeaseInv, NEW T, IsMap(T), DOMAIN T \subseteq Live, ForestOK(T), LeaseOK(T),
           Refresh(T), NEW s \in Seq(Activation), StackOK(s, T)
    PROVE  ForestOK(tickets') /\ LeaseOK(tickets') /\ StackOK(s, tickets')
  <1>1. /\ ForestOK(tickets') /\ LeaseOK(tickets') /\ SameTree(T, tickets')
        /\ \A d \in DOMAIN T : tickets'[d].native_quiescent = T[d].native_quiescent
    <2>1. \A d \in DOMAIN T : d < nextTicket
      BY InvFacts
    <2> QED BY <2>1, RefreshForest, InvFacts
  <1>2. \A i \in 1..Len(s) : s[i].id # 0 /\ s[i].op \in {"native", "awaitPoll"}
                               => ~tickets'[s[i].id].native_quiescent
    BY <1>1 DEF StackOK, FrameOK
  <1> QED BY <1>1, <1>2, SameTreeStack

(* The native call of the ticket on top is over. *)
LEMMA CompleteOK ==
    ASSUME LeaseInv, ctl # <<>>, Top.id # 0,
           NEW a \in Activation, FrameOK(a, tickets),
           a.op \notin HostOps \cup {"native", "awaitPoll"},
           a.id = Top.id, a.provider = Top.provider, a.begin = Top.begin,
           NEW U, SameTree(tickets, U),
           \A d \in Live : d # Top.id =>
                U[d].native_quiescent = tickets[d].native_quiescent
    PROVE  StackOK(Become(a), U)
  <1> DEFINE s == Become(a)
  <1>1. StackOK(s, tickets)
    BY GoOnOK, InvFacts
  <1>2. /\ s \in Seq(Activation) /\ Len(s) = Len(ctl) /\ s[Len(s)] = a
        /\ \A i \in 1..(Len(s) - 1) : s[i] = ctl[i]
    BY InvFacts DEF Become
  <1>3. ASSUME NEW i \in 1..Len(s), s[i].id # 0, s[i].op \in {"native", "awaitPoll"}
        PROVE  ~U[s[i].id].native_quiescent
    <2>1. i \in 1..(Len(s) - 1) /\ s[i] = ctl[i]
      BY <1>2, <1>3, TopFacts
    <2>2. PairOK(ctl[i], Top, tickets) /\ FrameOK(ctl[i], tickets)
      BY <1>2, <2>1, TopFacts, InvFacts DEF StackOK
    <2>3. ctl[i].id \in Live /\ ctl[i].id < Top.id /\ ~tickets[ctl[i].id].native_quiescent
      BY <1>3, <2>1, <2>2 DEF PairOK, Hosts, FrameOK, Live
    <2>4. ctl[i].id # Top.id
      BY <2>3, TopFacts, InvFacts DEF Activation
    <2> QED BY <2>1, <2>3, <2>4
  <1> HIDE DEF s
  <1>4. StackOK(s, U)
    BY <1>1, <1>2, <1>3, SameTreeStack
  <1> QED BY <1>4 DEF s

LEMMA SingleOK ==
    ASSUME NEW T, NEW a \in Activation, FrameOK(a, T)
    PROVE  StackOK(<<a>>, T)
    BY DEF StackOK

LEMMA EmptyOK == ASSUME NEW T PROVE StackOK(<<>>, T)
    BY DEF StackOK

LEMMA TreeFacts ==
    ASSUME LeaseInv, NEW c \in Live, NEW R \in Trees(c)
    PROVE  /\ R \in SUBSET Live /\ Closed(R, tickets)
           /\ \A d \in R : c <= d
           /\ \A d \in R : d = c \/ tickets[d].parent \in R
           /\ Without(R) = [d \in Live \ R |-> tickets[d]]
           /\ IsMap(Without(R)) /\ DOMAIN Without(R) = Live \ R
           /\ ForestOK(Without(R)) /\ LeaseOK(Without(R))
  <1>1. /\ R \in SUBSET Live /\ c \in R /\ \A d \in R : c <= d
        /\ \A d \in Live \ {c} : d \in R <=> tickets[d].parent \in R
    BY DEF Trees, IsTree
  <1>2. Closed(R, tickets)
    BY <1>1 DEF Closed, Live
  <1>3. ForestOK(Without(R)) /\ LeaseOK(Without(R))
    BY ShrinkForest, InvFacts DEF Without, Live
  <1> QED BY <1>1, <1>2, <1>3, WithoutType, InvFacts DEF Without

-----------------------------------------------------------------------------
(* Every step keeps the invariant. *)

LEMMA StepInv ==
    ASSUME TypeOK', StackOK(ctl', tickets'), ForestOK(tickets'), LeaseOK(tickets')
    PROVE  LeaseInv'
    BY DEF LeaseInv, StackFollowsForest

LEMMA HostStepLease ==
    ASSUME LeaseInv, TypeOK', HostStep
    PROVE  LeaseInv'
  <1> USE InvFacts
  <1>1. CASE AdmitRoot
    BY <1>1, StepInv DEF AdmitRoot
  <1>2. CASE DropRoot
    <2> DEFINE S == {id \in Live : tickets[id].root = activeRoot}
               a == Routine("abandon", 0, S)
    <2>1. S \in SUBSET Ids
      BY DEF IsMap, Live
    <2>2. a \in Activation /\ FrameOK(a, tickets)
      BY <2>1, RoutineType DEF FrameOK, Routine, HostOps, Ops
    <2> QED BY <1>2, <2>2, SingleOK, StepInv DEF DropRoot
  <1>3. CASE DrainCancelled
    <2> DEFINE S == {id \in Live : /\ tickets[id].abandoned /\ ~tickets[id].quiescent
                                   /\ tickets[id].parent = 0}
               a == Routine("drainAll", 0, S)
    <2>1. S \in SUBSET Ids
      BY DEF IsMap, Live
    <2>2. a \in Activation /\ FrameOK(a, tickets)
      BY <2>1, RoutineType DEF FrameOK, Routine, HostOps, Ops, Live
    <2> QED BY <1>3, <2>2, SingleOK, StepInv DEF DrainCancelled
  <1>4. CASE Shutdown
    BY <1>4, StepInv DEF Shutdown
  <1>5. ASSUME NEW p \in Providers, RootBegin(p) PROVE LeaseInv'
    BY <1>5, BeginInv DEF RootBegin, HasRoot, Idle
  <1>6. ASSUME NEW p \in Providers, RootInvoke(p) PROVE LeaseInv'
    BY <1>6, InvokeInv DEF RootInvoke
  <1>7. ASSUME NEW id \in Live, RootPoll(id) PROVE LeaseInv'
    <2> DEFINE a == Routine("rootPoll", 0, {id})
               s == <<a>>
    <2>1. a \in Activation /\ a.op \in HostOps
      BY RoutineType DEF IsMap, Live, Ops, Routine, HostOps
    <2>2. FrameOK(a, tickets)
      BY <1>7 DEF RootPoll, FrameOK, Routine, HostOps, Live
    <2>3. StackOK(s, tickets) /\ s \in Seq(Activation) /\ s # <<>> /\ s[Len(s)] = a
      BY <2>1, <2>2, SingleOK
    <2>4. StackOK(Append(s, Enter(tickets, id)), tickets)
      <3> HIDE DEF s, a
      <3> QED BY <2>1, <2>3, DescendOK
    <2>5. Append(s, Enter(tickets, id)) = s \o <<Enter(tickets, id)>> /\ s \o <<>> = s
      BY <2>3, EnterType DEF Live
    <2>6. tickets' = tickets /\ (ctl' = s \/ ctl' = Append(s, Enter(tickets, id)))
      BY <1>7, <2>5 DEF RootPoll
    <2> HIDE DEF s
    <2> QED BY <2>3, <2>4, <2>6, StepInv
  <1>8. ASSUME NEW id \in Live, RootCancel(id) PROVE LeaseInv'
    <2>1. FrameOK(CancelRoutine(id), tickets) /\ CancelRoutine(id) \in Activation
      BY RoutineFrameOK, CancelRoutineType DEF CancelRoutine, Live
    <2>2. StackOK(ctl', tickets) /\ ctl' \in Seq(Activation)
      BY <1>8, <2>1, SingleOK DEF RootCancel
    <2>3. tickets' = MarkCancelled(tickets, id)
      BY <1>8 DEF RootCancel, Cancel
    <2> QED BY <2>2, <2>3, MarkOK, StepInv
  <1>9. ASSUME NEW id \in Live, RootRelease(id) PROVE LeaseInv'
    <2>1. PICK R \in Trees(id) : tickets' = Without(R)
      BY <1>9 DEF RootRelease
    <2>2. ctl' = <<>>
      BY <1>9 DEF RootRelease, HasRoot, Idle
    <2> QED BY <2>1, <2>2, TreeFacts, EmptyOK, StepInv
  <1> QED BY <1>1, <1>2, <1>3, <1>4, <1>5, <1>6, <1>7, <1>8, <1>9 DEF HostStep

LEMMA AcceptedKeeps ==
    ASSUME NEW r \in Record, NEW reply, NEW failed
    PROVE  LET a == Accepted(reply, r, failed) IN
           /\ a.parent = r.parent /\ a.provider = r.provider
           /\ a.quiescent = r.quiescent /\ (r.native_quiescent => a.native_quiescent)
  <1>1. /\ Accepted(reply, r, failed).parent = r.parent
        /\ Accepted(reply, r, failed).provider = r.provider
        /\ Accepted(reply, r, failed).quiescent = r.quiescent
    BY DEF Accepted, Record
  <1>2. Accepted(reply, r, failed).native_quiescent
          = (r.native_quiescent \/ reply \in {"ok", "quietFail"})
    BY DEF Accepted, Record
  <1> QED BY <1>1, <1>2

LEMMA ReplyLease ==
    ASSUME LeaseInv, TypeOK', Reply
    PROVE  LeaseInv'
  <1> USE InvFacts
  <1> DEFINE settled == [Top EXCEPT !.op = "settled"]
             id == Top.id
  <1>1. /\ ctl # <<>> /\ Top \in Activation /\ id \in Live /\ id # 0
        /\ Top.op = "native" /\ FrameOK(Top, tickets)
    BY TopFacts DEF Reply, ReplyPending, ReplyCancelled, ReplyOutcome, Replying, Running, TopIs
  <1>2. /\ settled \in Activation /\ settled.op = "settled" /\ settled.id = id
        /\ settled.provider = Top.provider /\ settled.begin = Top.begin
        /\ FrameOK(settled, tickets)
    BY <1>1 DEF FrameOK, Activation, HostOps, Ops
  <1>3. StackOK(Become(settled), tickets) /\ Become(settled) \in Seq(Activation)
    BY <1>1, <1>2, GoOnOK, BecomeType DEF HostOps
  <1>4. CASE ReplyPending
    BY <1>3, <1>4, StepInv DEF ReplyPending
  <1>5. ASSUME NEW U, IsMap(U), SameTree(tickets, U),
               \A d \in Live : /\ U[d].quiescent = tickets[d].quiescent
                               /\ tickets[d].native_quiescent => U[d].native_quiescent
                               /\ d # id => U[d] = tickets[d]
        PROVE  /\ ForestOK(U) /\ LeaseOK(U) /\ DOMAIN U = Live
               /\ StackOK(Become(settled), U)
    <2>1. ForestOK(U) /\ LeaseOK(U) /\ DOMAIN U = Live
      BY <1>5, SameTreeForest DEF SameTree, Live
    <2>2. StackOK(Become(settled), U)
      <3> HIDE DEF settled
      <3> QED BY <1>1, <1>2, <1>5, CompleteOK DEF HostOps
    <2> QED BY <2>1, <2>2
  <1> HIDE DEF settled
  <1>6. CASE ReplyCancelled
    <2> DEFINE T == [tickets EXCEPT ![id].native_quiescent = TRUE]
    <2>1. \A d \in Live : tickets[d] \in Record
      BY DEF IsMap, Live
    <2>2. DOMAIN T = Live /\ \A d \in Live :
            T[d] = IF d = id THEN [tickets[d] EXCEPT !.native_quiescent = TRUE] ELSE tickets[d]
      BY DEF IsMap, Live
    <2>3. IsMap(T)
      BY <2>1, <2>2, RecordUpdates DEF IsMap, Live
    <2>4. Refresh(T) /\ ctl' = Become(settled)
      BY <1>6 DEF ReplyCancelled, settled
    <2> HIDE DEF T
    <2>5. /\ SameTree(tickets, T)
          /\ \A d \in Live : /\ T[d].quiescent = tickets[d].quiescent
                             /\ tickets[d].native_quiescent => T[d].native_quiescent
                             /\ d # id => T[d] = tickets[d]
      BY <2>1, <2>2 DEF SameTree, Record, Live
    <2>6. ForestOK(T) /\ LeaseOK(T) /\ StackOK(Become(settled), T)
      BY <1>5, <2>3, <2>5
    <2> QED BY <1>3, <2>2, <2>3, <2>4, <2>6, RefreshOK, StepInv
  <1>7. ASSUME NEW reply \in {"ok", "fail", "quietFail", "cancelled"}, ReplyOutcome(reply)
        PROVE  LeaseInv'
    <2> DEFINE failed == IsFailure(reply, id)
               T == [tickets EXCEPT ![id] = Accepted(reply, @, failed)]
    <2>1. \A d \in Live : tickets[d] \in Record
      BY DEF IsMap, Live
    <2>2. DOMAIN T = Live /\ \A d \in Live :
            T[d] = IF d = id THEN Accepted(reply, tickets[d], failed) ELSE tickets[d]
      BY DEF IsMap, Live
    <2>3. IsMap(T)
      BY AcceptType
    <2>4. \/ Refresh(T) /\ ctl' = Become(settled)
          \/ /\ tickets' = T
             /\ ctl' = Become([Top EXCEPT !.op = "settle", !.todo = Children(T, id)])
      BY <1>7 DEF ReplyOutcome, settled
    <2> HIDE DEF T, failed
    <2>5. /\ SameTree(tickets, T)
          /\ \A d \in Live : /\ T[d].quiescent = tickets[d].quiescent
                             /\ tickets[d].native_quiescent => T[d].native_quiescent
                             /\ d # id => T[d] = tickets[d]
      BY <2>1, <2>2, AcceptedKeeps DEF SameTree, Live
    <2>6. ForestOK(T) /\ LeaseOK(T) /\ StackOK(Become(settled), T) /\ DOMAIN T = Live
      BY <1>5, <2>3, <2>5
    <2>7. CASE Refresh(T) /\ ctl' = Become(settled)
      BY <1>3, <2>3, <2>6, <2>7, RefreshOK, StepInv
    <2>8. CASE /\ tickets' = T
               /\ ctl' = Become([Top EXCEPT !.op = "settle", !.todo = Children(T, id)])
      <3> DEFINE a == [Top EXCEPT !.op = "settle", !.todo = Children(T, id)]
      <3>1. Children(T, id) = Children(tickets, id)
        BY <2>5 DEF Children, SameTree
      <3>2. /\ a \in Activation /\ a.op = "settle" /\ a.id = id /\ a.provider = Top.provider
            /\ a.begin = Top.begin /\ a.todo = Children(tickets, id)
        BY <1>1, <2>3, <3>1, ChildrenType DEF Activation, Ops
      <3>3. FrameOK(a, tickets)
        BY <1>1, <3>2 DEF FrameOK, HostOps, Children
      <3>4. StackOK(Become(a), T)
        <4> HIDE DEF a
        <4> QED BY <1>1, <2>5, <3>2, <3>3, CompleteOK DEF HostOps
      <3> QED BY <2>6, <2>8, <3>4, StepInv
    <2> QED BY <2>4, <2>7, <2>8
  <1> QED BY <1>4, <1>6, <1>7 DEF Reply

LEMMA PluginStepLease ==
    ASSUME LeaseInv, TypeOK', PluginStep
    PROVE  LeaseInv'
  <1> USE InvFacts
  <1>0. ASSUME Running
        PROVE  ctl # <<>> /\ Top \in Activation /\ Top.op = "native" /\ FrameOK(Top, tickets)
    BY <1>0, TopFacts DEF Running, TopIs
  <1>1. ASSUME NEW p \in Providers, ImportBegin(p) PROVE LeaseInv'
    <2>1. Top.id \in Nat /\ Top.id # 0 /\ Begin(p, Top.id) /\ Running
      BY <1>0, <1>1 DEF ImportBegin, Authorized, Activation
    <2> QED BY <1>0, <2>1, BeginInv
  <1>2. ASSUME NEW p \in Providers, ImportInvoke(p) PROVE LeaseInv'
    BY <1>2, InvokeInv DEF ImportInvoke
  <1>3. ASSUME NEW c \in Live, ImportPoll(c) PROVE LeaseInv'
    <2> DEFINE a == [Top EXCEPT !.op = "awaitPoll", !.todo = {c}]
               s == Become(a)
    <2>1. /\ ctl # <<>> /\ Top \in Activation /\ Top.op = "native" /\ FrameOK(Top, tickets)
          /\ Top.id # 0 /\ tickets[c].parent = Top.id
          /\ tickets' = tickets
          /\ ctl' = s \/ ctl' = Append(s, Enter(tickets, c))
      BY <1>0, <1>3 DEF ImportPoll, IsImport
    <2>2. /\ a \in Activation /\ a.op = "awaitPoll" /\ a.id = Top.id /\ a.todo = {c}
          /\ a.provider = Top.provider /\ a.begin = Top.begin
      BY <2>1 DEF Activation, Ops, IsMap, Live
    <2>3. FrameOK(a, tickets)
      BY <2>1, <2>2 DEF FrameOK, HostOps, Live
    <2>4. /\ StackOK(s, tickets) /\ s \in Seq(Activation) /\ s # <<>>
          /\ s[Len(s)].id = Top.id
      <3>1. StackOK(s, tickets)
        <4> HIDE DEF a
        <4> QED BY <2>1, <2>2, <2>3, GoOnOK DEF HostOps
      <3>2. s \in Seq(Activation) /\ s # <<>> /\ s[Len(s)] = a
        <4> HIDE DEF a
        <4> QED BY <2>1, <2>2, TopFacts DEF Become
      <3> QED BY <2>2, <3>1, <3>2
    <2> HIDE DEF s
    <2>5. StackOK(Append(s, Enter(tickets, c)), tickets)
      BY <2>1, <2>4, DescendOK
    <2> QED BY <2>1, <2>4, <2>5, StepInv
  <1>4. ASSUME NEW c \in Live, ImportCancel(c) PROVE LeaseInv'
    <2>1. /\ ctl # <<>> /\ ctl[Len(ctl)].id # 0 /\ tickets[c].parent = ctl[Len(ctl)].id
          /\ tickets' = MarkCancelled(tickets, c)
          /\ ctl' = Append(ctl, CancelRoutine(c))
      BY <1>0, <1>4 DEF ImportCancel, IsImport, Cancel, Top
    <2>2. StackOK(ctl', tickets) /\ ctl' \in Seq(Activation)
      BY <2>1, DescendOK, CancelRoutineType, PushType
    <2> QED BY <2>1, <2>2, MarkOK, StepInv
  <1>5. CASE Subscribe
    BY <1>5, StepInv DEF Subscribe
  <1>6. CASE InvokeReturn
    BY <1>0, <1>6, PopOK, StepInv DEF InvokeReturn, Pop
  <1> QED BY <1>1, <1>2, <1>3, <1>4, <1>5, <1>6, ReplyLease DEF PluginStep

-----------------------------------------------------------------------------
(* The kernel's own routines. *)

LEMMA PopFacts ==
    ASSUME LeaseInv, ctl # <<>>
    PROVE  /\ Pop \in Seq(Activation) /\ StackOK(Pop, tickets) /\ Len(Pop) = Len(ctl) - 1
           /\ \A i \in 1..Len(Pop) : Pop[i] = ctl[i] /\ PairOK(ctl[i], Top, tickets)
                                     /\ FrameOK(ctl[i], tickets) /\ ctl[i] \in Activation
  <1>1. /\ Pop \in Seq(Activation) /\ StackOK(Pop, tickets) /\ Len(Pop) = Len(ctl) - 1
        /\ \A i \in 1..Len(Pop) : Pop[i] = ctl[i]
    BY PopOK, PopType, InvFacts DEF Pop
  <1> QED BY <1>1, TopFacts, InvFacts DEF StackOK

(* refresh_quiescence, then the routine on top returns or goes on as s. *)
LEMMA RefreshStep ==
    ASSUME LeaseInv, TypeOK', Refresh(tickets),
           ctl' \in Seq(Activation), StackOK(ctl', tickets)
    PROVE  LeaseInv'
    BY RefreshOK, StepInv, InvFacts DEF Live

(* A host routine is alone on the stack. *)
LEMMA HostAlone ==
    ASSUME LeaseInv, ctl # <<>>, Top.op \in HostOps
    PROVE  Pop = <<>>
  <1>1. Len(Pop) = 0
    BY PopFacts, TopFacts DEF PairOK
  <1> QED BY <1>1, PopFacts

LEMMA LoopTop ==
    ASSUME LeaseInv, ctl # <<>>, Top.op \notin HostOps \cup {"native"}
    PROVE  /\ Top.id # 0 /\ Top.id \in Live
           /\ \A c \in Top.todo : c \in Live /\ tickets[c].parent = Top.id
    BY TopFacts DEF FrameOK, Live, HostOps

(* The routine on top goes on with another operation and other ids to visit. *)
LEMMA TurnOK ==
    ASSUME LeaseInv, ctl # <<>>, Top.op \notin HostOps \cup {"native"},
           NEW op \in Ops \ HostOps, NEW S \in SUBSET Ids,
           op \in {"native", "awaitPoll"} => Top.op \in {"native", "awaitPoll"},
           \A c \in S : c \in Live /\ tickets[c].parent = Top.id
    PROVE  /\ StackOK(Become([Top EXCEPT !.op = op, !.todo = S]), tickets)
           /\ Become([Top EXCEPT !.op = op, !.todo = S]) \in Seq(Activation)
  <1> DEFINE a == [Top EXCEPT !.op = op, !.todo = S]
  <1>1. /\ a \in Activation /\ a.op = op /\ a.id = Top.id /\ a.todo = S
        /\ a.provider = Top.provider /\ a.begin = Top.begin
    BY TopFacts DEF Activation
  <1>2. FrameOK(a, tickets)
    BY <1>1, TopFacts, LoopTop DEF FrameOK, Live
  <1> HIDE DEF a
  <1>3. StackOK(Become(a), tickets) /\ Become(a) \in Seq(Activation)
    BY <1>1, <1>2, GoOnOK, BecomeType, InvFacts
  <1> QED BY <1>3 DEF a

(* release_tree, under a stack that serves none of the released tickets. *)
LEMMA ReleaseStack ==
    ASSUME NEW s \in Seq(Activation), StackOK(s, tickets),
           NEW R \in SUBSET Live, Closed(R, tickets),
           \A i \in 1..Len(s) : /\ s[i].id \notin R
                                /\ s[i].op # "abandon" => s[i].todo \cap R = {}
    PROVE  StackOK(s, Without(R))
  <1>1. StackOK(s, [d \in DOMAIN tickets \ R |-> tickets[d]])
    BY ShrinkStack DEF Live
  <1> QED BY <1>1 DEF Without, Live

(* release_tree of the child just delivered, below a frame that goes on. *)
LEMMA ImportPollDoneLease ==
    ASSUME LeaseInv, TypeOK', ImportPollDone
    PROVE  LeaseInv'
  <1> USE InvFacts
  <1> DEFINE a == [Top EXCEPT !.op = "native", !.todo = {}]
             s == Become(a)
  <1>1. ctl # <<>> /\ Top.op = "awaitPoll" /\ ctl' = s
    BY DEF ImportPollDone, TopIs
  <1>2. StackOK(s, tickets) /\ s \in Seq(Activation)
    BY <1>1, TurnOK DEF Ops, HostOps
  <1>3. /\ Len(s) = Len(ctl) /\ \A i \in 1..(Len(s) - 1) : s[i] = ctl[i]
        /\ s[Len(s)].todo = {} /\ s[Len(s)].id = Top.id
    <2>1. a.todo = {} /\ a.id = Top.id
      BY <1>1, TopFacts DEF Activation
    <2> HIDE DEF a
    <2> QED BY <1>1, <2>1, TopFacts DEF Become
  <1> HIDE DEF s
  <1>4. CASE UNCHANGED tickets
    BY <1>1, <1>2, <1>4, StepInv
  <1>5. ASSUME NEW c \in Top.todo \cap Live, NEW R \in Trees(c), Refresh(Without(R))
        PROVE  LeaseInv'
    <2>1. Top.id \in Live /\ tickets[c].parent = Top.id /\ Top.id < c
      BY <1>1, LoopTop DEF HostOps, ForestOK, Live
    <2>2. /\ R \in SUBSET Live /\ Closed(R, tickets)
          /\ \A d \in R : c <= d
          /\ \A d \in R : d = c \/ tickets[d].parent \in R
          /\ Without(R) = [d \in Live \ R |-> tickets[d]]
          /\ IsMap(Without(R)) /\ DOMAIN Without(R) = Live \ R
          /\ ForestOK(Without(R)) /\ LeaseOK(Without(R))
      BY <1>5, TreeFacts
    <2>3. ASSUME NEW i \in 1..Len(s)
          PROVE  /\ s[i].id \in Nat /\ s[i].id <= Top.id /\ FrameOK(s[i], tickets)
                 /\ i # Len(s) => s[i].id < Top.id
      <3>1. FrameOK(s[i], tickets) /\ s[i].id \in Nat /\ Top.id \in Nat
        <4>1. s[i] \in Activation /\ Top.id \in Nat
          BY <1>2, <2>1
        <4>2. FrameOK(s[i], tickets)
          BY <1>2 DEF StackOK
        <4> QED BY <4>1, <4>2 DEF Activation
      <3>2. CASE i = Len(s)
        BY <1>3, <3>1, <3>2
      <3>3. CASE i # Len(s)
        <4>1. i \in 1..(Len(ctl) - 1) /\ s[i] = ctl[i]
          BY <1>1, <1>3, <3>3, TopFacts
        <4>2. Hosts(s[i], Top.id, tickets)
          BY <1>1, <2>1, <4>1, TopFacts DEF PairOK
        <4> QED BY <2>1, <3>1, <4>2 DEF Hosts
      <3> QED BY <3>2, <3>3
    <2>4. ASSUME NEW i \in 1..Len(s)
          PROVE  /\ s[i].id \notin R
                 /\ s[i].op # "abandon" => s[i].todo \cap R = {}
      <3>1. s[i].id < c /\ s[i].id \notin R
        BY <2>1, <2>2, <2>3
      <3>2. ASSUME s[i].op # "abandon", NEW d \in s[i].todo \cap R PROVE FALSE
        <4>1. tickets[d].parent = s[i].id
          BY <2>3, <3>2 DEF FrameOK
        <4>2. d = c
          BY <2>2, <3>1, <3>2, <4>1
        <4>3. i = Len(s)
          BY <2>1, <2>3, <4>1, <4>2
        <4> QED BY <1>3, <3>2, <4>3
      <3> QED BY <3>1, <3>2
    <2>5. StackOK(s, Without(R))
      BY <1>2, <2>2, <2>4, ReleaseStack
    <2> QED BY <1>1, <1>2, <1>5, <2>2, <2>5, RefreshOK, StepInv
  <1> QED BY <1>4, <1>5 DEF ImportPollDone

(* The immediate delivery of a call that was over when begin_pending returned. *)
LEMMA BeginDoneLease ==
    ASSUME LeaseInv, TypeOK', BeginDone
    PROVE  LeaseInv'
  <1> USE InvFacts
  <1>1. ctl # <<>> /\ Top.op = "settled" /\ Top.begin /\ Top.id \in Live /\ ctl' = Pop
    BY DEF BeginDone, TopIs
  <1>2. CASE UNCHANGED tickets
    BY <1>1, <1>2, PopFacts, StepInv
  <1>3. ASSUME NEW R \in Trees(Top.id), tickets' = Without(R) PROVE LeaseInv'
    <2>1. /\ R \in SUBSET Live /\ Closed(R, tickets)
          /\ \A d \in R : Top.id <= d
          /\ \A d \in R : d = Top.id \/ tickets[d].parent \in R
          /\ Without(R) = [d \in Live \ R |-> tickets[d]]
          /\ ForestOK(Without(R)) /\ LeaseOK(Without(R))
      BY <1>1, <1>3, TreeFacts
    <2>2. ASSUME NEW i \in 1..Len(Pop)
          PROVE  /\ Pop[i].id \notin R
                 /\ Pop[i].op # "abandon" => Pop[i].todo \cap R = {}
      <3>1. /\ PairOK(Pop[i], Top, tickets) /\ FrameOK(Pop[i], tickets)
            /\ Pop[i].id \in Nat
        BY <1>1, PopFacts DEF Activation
      <3>2. Pop[i].id \notin R
        BY <1>1, <2>1, <3>1 DEF PairOK, Hosts
      <3>3. ASSUME Pop[i].op # "abandon", NEW d \in Pop[i].todo \cap R PROVE FALSE
        BY <1>1, <2>1, <3>1, <3>2, <3>3 DEF FrameOK, PairOK
      <3> QED BY <3>2, <3>3
    <2>3. StackOK(Pop, Without(R))
      BY <1>1, <2>1, <2>2, PopFacts, ReleaseStack
    <2> QED BY <1>1, <1>3, <2>1, <2>3, StepInv
  <1> QED BY <1>2, <1>3 DEF BeginDone

LEMMA AbandonNextLease ==
    ASSUME LeaseInv, TypeOK', AbandonNext
    PROVE  LeaseInv'
  <1> USE InvFacts
  <1>1. PICK id \in Live :
          LET T == [tickets EXCEPT ![id].abandoned = TRUE] IN
          IF T[id].quiescent \/ T[id].cancelled
          THEN tickets' = T /\ ctl' = Visited(id)
          ELSE /\ tickets' = MarkCancelled(T, id)
               /\ ctl' = Append(Visited(id), CancelRoutine(id))
    BY DEF AbandonNext
  <1> DEFINE T == [tickets EXCEPT ![id].abandoned = TRUE]
             U == MarkCancelled(T, id)
  <1>2. ctl # <<>> /\ Top.op = "abandon"
    BY DEF AbandonNext, TopIs
  <1>3. \A d \in Live : tickets[d] \in Record
    BY DEF IsMap, Live
  <1>4. DOMAIN T = Live /\ \A d \in Live :
          T[d] = IF d = id THEN [tickets[d] EXCEPT !.abandoned = TRUE] ELSE tickets[d]
    BY DEF IsMap, Live
  <1> HIDE DEF T
  <1>5. DOMAIN U = Live /\ \A d \in Live : U[d] = IF d = id THEN CancelledRecord(T[d]) ELSE T[d]
    <2>1. IsMap(T)
      <3>1. \A d \in Live : T[d] \in Record
        BY <1>3, <1>4, FlagsKept
      <3>2. T = [d \in Live |-> T[d]]
        BY <1>4 DEF T, Live
      <3>3. T \in [Live -> Record] /\ Live \subseteq Ids
        BY <3>1, <3>2 DEF IsMap, Live
      <3> QED BY <1>4, <3>3 DEF IsMap
    <2> QED BY <1>4, <2>1 DEF MarkCancelled, IsMap
  <1> HIDE DEF U
  <1>6. \A d \in Live : /\ T[d].parent = tickets[d].parent
                        /\ T[d].provider = tickets[d].provider
                        /\ T[d].native_quiescent = tickets[d].native_quiescent
                        /\ T[d].quiescent = tickets[d].quiescent
                        /\ T[d] \in Record
    BY <1>3, <1>4, FlagsKept
  <1>7. \A d \in Live : /\ U[d].parent = tickets[d].parent
                        /\ U[d].provider = tickets[d].provider
                        /\ U[d].native_quiescent = tickets[d].native_quiescent
                        /\ U[d].quiescent = tickets[d].quiescent
    <2> SUFFICES ASSUME NEW d \in Live
                 PROVE  /\ U[d].parent = T[d].parent /\ U[d].provider = T[d].provider
                        /\ U[d].native_quiescent = T[d].native_quiescent
                        /\ U[d].quiescent = T[d].quiescent
      BY <1>6
    <2>1. U[d] = CancelledRecord(T[d]) \/ U[d] = T[d]
      BY <1>5
    <2>2. T[d] \in Record
      BY <1>6
    <2> QED BY <2>1, <2>2, FlagsKept
  <1>8. /\ StackOK(Visited(id), tickets) /\ Visited(id) \in Seq(Activation)
        /\ StackOK(Append(Visited(id), CancelRoutine(id)), tickets)
        /\ Append(Visited(id), CancelRoutine(id)) \in Seq(Activation)
    <2>1. [Top EXCEPT !.todo = @ \ {id}].op = Top.op
      BY <1>2, TopFacts DEF Activation
    <2> QED BY <1>2, <2>1, VisitedOK, DescendOK, CancelRoutineType, PushType DEF HostOps
  <1>9. CASE tickets' = T /\ ctl' = Visited(id)
    BY <1>4, <1>6, <1>8, <1>9, FlagsOK, StepInv
  <1>10. CASE tickets' = U /\ ctl' = Append(Visited(id), CancelRoutine(id))
    BY <1>5, <1>7, <1>8, <1>10, FlagsOK, StepInv
  <1> QED BY <1>1, <1>9, <1>10 DEF T, U

(* The loops that enter a ticket, one id at a time. *)
LEMMA LoopNextLease ==
    ASSUME LeaseInv, TypeOK', CancelNext \/ DrainNext \/ DrainAllNext
    PROVE  LeaseInv'
  <1> USE InvFacts
  <1>1. ctl # <<>> /\ Top.op \in {"settle", "cancelTree", "drain", "drainAll"}
    BY DEF CancelNext, DrainNext, DrainAllNext, TopIs
  <1>2. PICK c \in Top.todo \cap Live :
          \/ tickets' = tickets /\ ctl' = Visited(c)
          \/ tickets' = tickets /\ ctl' = Append(Visited(c), Enter(tickets, c))
          \/ /\ tickets' = MarkCancelled(tickets, c)
             /\ ctl' = Append(Visited(c), CancelRoutine(c))
    BY DEF CancelNext, DrainNext, DrainAllNext, Cancel
  <1>3. /\ StackOK(Visited(c), tickets) /\ Visited(c) \in Seq(Activation)
        /\ Visited(c) # <<>>
        /\ \/ Visited(c)[Len(Visited(c))].op \in HostOps
           \/ /\ Visited(c)[Len(Visited(c))].id # 0
              /\ tickets[c].parent = Visited(c)[Len(Visited(c))].id
    <2>1. /\ [Top EXCEPT !.todo = @ \ {c}].op = Top.op
          /\ [Top EXCEPT !.todo = @ \ {c}].id = Top.id
      BY <1>1, TopFacts DEF Activation
    <2>2. Top.op \in HostOps \/ (Top.id # 0 /\ tickets[c].parent = Top.id)
      BY <1>1, LoopTop DEF HostOps
    <2> QED BY <1>1, <2>1, <2>2, VisitedOK
  <1>4. /\ StackOK(Append(Visited(c), Enter(tickets, c)), tickets)
        /\ StackOK(Append(Visited(c), CancelRoutine(c)), tickets)
        /\ Append(Visited(c), CancelRoutine(c)) \in Seq(Activation)
    BY <1>3, DescendOK, CancelRoutineType, PushType
  <1> QED BY <1>2, <1>3, <1>4, MarkOK, StepInv

LEMMA RootPollDoneLease ==
    ASSUME LeaseInv, TypeOK', RootPollDone
    PROVE  LeaseInv'
  <1> USE InvFacts
  <1>1. ctl # <<>> /\ ctl' = Pop /\ StackOK(Pop, tickets) /\ Pop \in Seq(Activation)
    BY PopFacts DEF RootPollDone, TopIs
  <1>2. PICK id \in Live : \/ tickets' = tickets
                           \/ tickets' = [tickets EXCEPT ![id] = Delivered(@)]
    BY DEF RootPollDone
  <1> DEFINE T == [tickets EXCEPT ![id] = Delivered(@)]
  <1>3. \A d \in Live : tickets[d] \in Record
    BY DEF IsMap, Live
  <1>4. DOMAIN T = Live /\ \A d \in Live :
          T[d] = IF d = id THEN Delivered(tickets[d]) ELSE tickets[d]
    BY DEF IsMap, Live
  <1> HIDE DEF T
  <1>5. \A r \in Record :
          /\ Delivered(r).parent = r.parent /\ Delivered(r).provider = r.provider
          /\ Delivered(r).native_quiescent = r.native_quiescent
          /\ Delivered(r).quiescent = r.quiescent
    BY DEF Record, Delivered
  <1>6. ForestOK(T) /\ LeaseOK(T) /\ StackOK(Pop, T)
    BY <1>1, <1>3, <1>4, <1>5, FlagsOK
  <1>7. CASE tickets' = T
    BY <1>1, <1>6, <1>7, StepInv
  <1>8. CASE tickets' = tickets
    BY <1>1, <1>8, StepInv
  <1> QED BY <1>2, <1>7, <1>8 DEF T

LEMMA CancelEnterLease ==
    ASSUME LeaseInv, TypeOK', CancelEnter
    PROVE  LeaseInv'
  <1> USE InvFacts
  <1> DEFINE a == Enter(tickets, Top.id)
  <1>1. /\ ctl # <<>> /\ Top.op = "cancelTree" /\ Top.id \in Live /\ Top.id # 0
        /\ tickets' = tickets /\ ctl' = Become(a)
    BY DEF CancelEnter, TopIs
  <1>2. a \in Activation /\ FrameOK(a, tickets)
    BY <1>1, EnterType, EnterOK DEF Live
  <1>3. ASSUME NEW i \in 1..(Len(ctl) - 1) PROVE PairOK(ctl[i], a, tickets)
    <2>1. Hosts(ctl[i], Top.id, tickets) /\ FrameOK(ctl[i], tickets)
      BY <1>1, TopFacts DEF PairOK, StackOK
    <2> QED BY <1>1, <2>1, EnterOK DEF Live
  <1> HIDE DEF a
  <1>4. StackOK(Become(a), tickets)
    BY <1>1, <1>2, <1>3, TopOK DEF Become
  <1> QED BY <1>1, <1>4, StepInv

(* enter_ticket and drain_children return, or turn to the children. *)
LEMMA ReturnLease ==
    ASSUME LeaseInv, TypeOK', EnterDone \/ DrainDone \/ SettleDone
    PROVE  LeaseInv'
  <1> USE InvFacts
  <1>1. ctl # <<>> /\ Top.op \in {"settle", "settled", "drain"}
    BY DEF EnterDone, DrainDone, SettleDone, TopIs
  <1>2. Pop \in Seq(Activation) /\ StackOK(Pop, tickets)
    BY <1>1, PopFacts
  <1>3. ASSUME Refresh(tickets), ctl' = Pop PROVE LeaseInv'
    BY <1>2, <1>3, RefreshStep
  <1>4. CASE SettleDone
    <2> DEFINE a == [Top EXCEPT !.op = "settled"]
    <2>1. /\ a \in Activation /\ a.op = "settled" /\ a.id = Top.id /\ a.todo = Top.todo
          /\ a.provider = Top.provider /\ a.begin = Top.begin
      BY <1>1, TopFacts DEF Activation, Ops
    <2>2. FrameOK(a, tickets)
      BY <1>1, <2>1, TopFacts, LoopTop DEF FrameOK, HostOps
    <2>3. Refresh(tickets) /\ ctl' = Become(a)
      BY <1>4 DEF SettleDone
    <2> HIDE DEF a
    <2>4. StackOK(Become(a), tickets) /\ Become(a) \in Seq(Activation)
      BY <1>1, <2>1, <2>2, GoOnOK, BecomeType DEF HostOps
    <2> QED BY <2>3, <2>4, RefreshStep
  <1>5. CASE EnterDone
    <2> DEFINE S == Children(tickets, Top.id)
               s == Become([Top EXCEPT !.op = "drain", !.todo = S])
    <2>1. S \in SUBSET Ids /\ \A c \in S : c \in Live /\ tickets[c].parent = Top.id
      BY ChildrenType DEF Children, Live
    <2>2. StackOK(s, tickets)
      <3> HIDE DEF S
      <3> QED BY <1>1, <2>1, TurnOK DEF Ops, HostOps
    <2>3. (tickets' = tickets /\ ctl' = s) \/ (Refresh(tickets) /\ ctl' = Pop)
      BY <1>5 DEF EnterDone
    <2> HIDE DEF s
    <2> QED BY <1>3, <2>2, <2>3, StepInv
  <1>6. CASE DrainDone
    BY <1>3, <1>6 DEF DrainDone
  <1> QED BY <1>4, <1>5, <1>6

LEMMA ReleaseAbandonedLease ==
    ASSUME LeaseInv, TypeOK', ReleaseAbandoned
    PROVE  LeaseInv'
  <1> USE InvFacts
  <1>1. ctl # <<>> /\ Top.op \in HostOps /\ ctl' = Pop
        /\ tickets' = [id \in Unfinished(tickets) |-> tickets[id]]
    BY DEF ReleaseAbandoned, TopIs, HostOps
  <1>2. ctl' = <<>>
    BY <1>1, HostAlone
  <1>3. Unfinished(tickets) \subseteq DOMAIN tickets
    BY DEF Unfinished
  <1>4. ForestOK(tickets') /\ LeaseOK(tickets')
    BY <1>1, <1>3, ShrinkForest
  <1> QED BY <1>2, <1>4, EmptyOK, StepInv

LEMMA KernelStepLease ==
    ASSUME LeaseInv, TypeOK', KernelStep
    PROVE  LeaseInv'
  <1>1. CASE Panic
    BY <1>1, InvFacts, StepInv DEF Panic
  <1> QED BY <1>1, RootPollDoneLease, AbandonNextLease, ReleaseAbandonedLease,
             LoopNextLease, ImportPollDoneLease, CancelEnterLease, BeginDoneLease,
             ReturnLease DEF KernelStep

LEMMA InitLease == Init => LeaseInv
  <1> SUFFICES ASSUME Init PROVE LeaseInv
    OBVIOUS
  <1>1. TypeOK
    BY InitType
  <1>2. ctl = <<>> /\ DOMAIN tickets = {}
    BY DEF Init
  <1>3. ForestOK(tickets) /\ LeaseOK(tickets)
    BY <1>2 DEF ForestOK, LeaseOK
  <1>4. StackOK(ctl, tickets)
    BY <1>2, EmptyOK
  <1> QED BY <1>1, <1>3, <1>4 DEF LeaseInv, StackFollowsForest

LEMMA NextLease == LeaseInv /\ [Next]_vars => LeaseInv'
  <1> SUFFICES ASSUME LeaseInv, [Next]_vars PROVE LeaseInv'
    OBVIOUS
  <1>1. TypeOK'
    BY NextType, InvFacts
  <1>2. CASE UNCHANGED vars
    BY <1>1, <1>2, InvFacts, StepInv DEF vars
  <1>3. CASE Finished
    BY <1>2, <1>3 DEF Finished
  <1> QED BY <1>1, <1>2, <1>3, HostStepLease, PluginStepLease, KernelStepLease DEF Next

-----------------------------------------------------------------------------
(* At every moment the call stack is a path down the ticket forest and no
   quiescent ticket has live work below it. *)
THEOREM StackAlwaysFollowsForest == Spec => []StackFollowsForest
  <1>1. LeaseInv => StackFollowsForest
    BY DEF LeaseInv
  <1> QED BY <1>1, InitLease, NextLease, PTL DEF Spec

(* No provider ever serves two physical calls. *)
THEOREM LeasesAreExclusive == Spec => []OneLeasePerProvider
  <1>1. LeaseInv => OneLeasePerProvider
    BY DEF LeaseInv, StackFollowsForest, LeaseOK, OneLeasePerProvider, Live
  <1> QED BY <1>1, InitLease, NextLease, PTL DEF Spec

(* No instance is ever re-entered, however calls, polls and cancellations nest. *)
THEOREM NoReentry == Spec => []NeverReentered
  <1>1. LeaseInv => NeverReentered
    <2> SUFFICES ASSUME LeaseInv, NEW i \in 1..Len(ctl), NEW j \in 1..Len(ctl),
                        ctl[i].provider = ctl[j].provider, ctl[i].provider # NoProvider
                 PROVE  i = j
      BY DEF NeverReentered
    <2>1. i \in Int /\ j \in Int /\ (i < j \/ j < i \/ i = j)
      BY InvFacts
    <2>2. CASE i < j
      BY <2>2, InvFacts DEF StackOK, PairOK
    <2>3. CASE j < i
      BY <2>3, InvFacts DEF StackOK, PairOK
    <2> QED BY <2>1, <2>2, <2>3
  <1> QED BY <1>1, InitLease, NextLease, PTL DEF Spec

(* Apart from abandon_root no routine ever indexes a ticket that is gone. *)
THEOREM LookupsSucceed == Spec => []LoopLookupsSucceed
  <1>1. Init => LoopLookupsSucceed
    BY DEF Init, LoopLookupsSucceed
  <1>2. LeaseInv /\ LoopLookupsSucceed /\ [Next]_vars => LoopLookupsSucceed'
    <2> SUFFICES ASSUME LeaseInv, LoopLookupsSucceed, [Next]_vars PROVE LoopLookupsSucceed'
      OBVIOUS
    <2>1. CASE Panic
      <3>1. ctl # <<>> /\ Missing /\ panic' = Top.op
        BY <2>1 DEF Panic
      <3>2. FrameOK(Top, tickets) /\ Top \in Activation
        BY <3>1, TopFacts
      <3>3. Top.op = "abandon"
        BY <3>1, <3>2 DEF Missing, IsFirst, FrameOK, HostOps, Live
      <3> QED BY <3>1, <3>3 DEF LoopLookupsSucceed
    <2>2. CASE UNCHANGED panic
      BY <2>2 DEF LoopLookupsSucceed
    <2>3. [Next]_vars => Panic \/ UNCHANGED panic
      <3>1. HostStep => UNCHANGED panic
        BY DEF HostStep, AdmitRoot, DropRoot, DrainCancelled, Shutdown, RootBegin, Begin,
               RootInvoke, Invoke, RootPoll, RootCancel, RootRelease
      <3>2. PluginStep => UNCHANGED panic
        BY Zenon DEF PluginStep, ImportBegin, Begin, ImportInvoke, Invoke, ImportPoll,
               ImportCancel, Subscribe, InvokeReturn, Reply, ReplyPending,
               ReplyCancelled, ReplyOutcome
      <3>3. KernelStep => Panic \/ UNCHANGED panic
        BY DEF KernelStep, RootPollDone, AbandonNext, ReleaseAbandoned, DrainAllNext,
               ImportPollDone, CancelNext, SettleDone, CancelEnter, BeginDone,
               EnterDone, DrainNext, DrainDone
      <3> QED BY <3>1, <3>2, <3>3 DEF Next, Finished, vars
    <2> QED BY <2>1, <2>2, <2>3
  <1> QED BY <1>1, <1>2, InitLease, NextLease, PTL DEF Spec

(* Instances are never entered twice, for every set of providers and however
   calls, polls and cancellations nest. *)
THEOREM CallsStayExclusive == Spec => []CallsAreExclusive
  BY LeasesAreExclusive, NoReentry, LookupsSucceed, StackAlwaysFollowsForest, PTL
     DEF CallsAreExclusive

-----------------------------------------------------------------------------
(***************************************************************************)
(* Outcomes are final: a record only ever advances, and what leaves the    *)
(* map is quiescent.                                                       *)
(***************************************************************************)
Advances(r, s) ==
    /\ s.root = r.root /\ s.parent = r.parent /\ s.provider = r.provider
    /\ r.native_quiescent => s.native_quiescent
    /\ r.quiescent => s.quiescent
    /\ r.cancelled => s.cancelled
    /\ r.abandoned => s.abandoned
    /\ r.logical # "Pending" => s.logical = r.logical
    /\ r.delivered => s.delivered /\ s.result = "none"

(* Cancelling a record decides it at most and touches no flag. *)
LEMMA CancelledAdvances ==
    ASSUME NEW r \in Record, RecordOK(r)
    PROVE  LET s == CancelledRecord(r) IN
           /\ Advances(r, s) /\ RecordOK(s) /\ s.cancelled /\ IsRevoked(s)
           /\ s.native_quiescent = r.native_quiescent /\ s.quiescent = r.quiescent
           /\ s.abandoned = r.abandoned /\ (s.logical = "Failed" <=> r.logical = "Failed")
  <1> DEFINE s == CancelledRecord(r)
  <1>1. /\ s.root = r.root /\ s.parent = r.parent /\ s.provider = r.provider
        /\ s.native_quiescent = r.native_quiescent /\ s.quiescent = r.quiescent
        /\ s.abandoned = r.abandoned /\ s.delivered = r.delivered /\ s.result = r.result
        /\ s.cancelled = TRUE
        /\ s.logical = IF r.logical = "Pending" THEN "Cancelled" ELSE r.logical
    BY DEF CancelledRecord, Record
  <1> HIDE DEF s
  <1>2. RecordOK(s)
    BY <1>1 DEF RecordOK, IsRevoked
  <1>3. Advances(r, s)
    BY <1>1 DEF Advances, RecordOK
  <1>4. s.cancelled /\ IsRevoked(s) /\ (s.logical = "Failed" <=> r.logical = "Failed")
    BY <1>1 DEF IsRevoked
  <1> QED BY <1>1, <1>2, <1>3, <1>4 DEF s

LEMMA AbandonedAdvances ==
    ASSUME NEW r \in Record, RecordOK(r)
    PROVE  LET s == [r EXCEPT !.abandoned = TRUE] IN
           /\ Advances(r, s) /\ s.abandoned /\ s.cancelled = r.cancelled
           /\ s.native_quiescent = r.native_quiescent /\ s.quiescent = r.quiescent
           /\ s.logical = r.logical
           /\ (r.cancelled \/ r.quiescent => RecordOK(s))
           /\ Advances(r, CancelledRecord(s)) /\ RecordOK(CancelledRecord(s))
           /\ CancelledRecord(s).abandoned /\ CancelledRecord(s).cancelled
           /\ CancelledRecord(s).native_quiescent = r.native_quiescent
           /\ CancelledRecord(s).quiescent = r.quiescent
           /\ (CancelledRecord(s).logical = "Failed" <=> r.logical = "Failed")
  <1> DEFINE s == [r EXCEPT !.abandoned = TRUE]
             t == CancelledRecord(s)
  <1>1. /\ s.root = r.root /\ s.parent = r.parent /\ s.provider = r.provider
        /\ s.native_quiescent = r.native_quiescent /\ s.quiescent = r.quiescent
        /\ s.abandoned = TRUE /\ s.delivered = r.delivered /\ s.result = r.result
        /\ s.cancelled = r.cancelled /\ s.logical = r.logical
    BY DEF Record
  <1>2. s \in Record
    BY RecordUpdates
  <1> HIDE DEF s
  <1>3. /\ t.root = s.root /\ t.parent = s.parent /\ t.provider = s.provider
        /\ t.native_quiescent = s.native_quiescent /\ t.quiescent = s.quiescent
        /\ t.abandoned = s.abandoned /\ t.delivered = s.delivered /\ t.result = s.result
        /\ t.cancelled = TRUE
        /\ t.logical = IF s.logical = "Pending" THEN "Cancelled" ELSE s.logical
    BY <1>2 DEF CancelledRecord, Record
  <1> HIDE DEF t
  <1>4. r.cancelled \/ r.quiescent => RecordOK(s)
    BY <1>1 DEF RecordOK, IsRevoked
  <1>5. Advances(r, s)
    BY <1>1 DEF Advances, RecordOK
  <1>6. RecordOK(t)
    BY <1>1, <1>3 DEF RecordOK, IsRevoked
  <1>7. Advances(r, t)
    BY <1>1, <1>3 DEF Advances, RecordOK
  <1>8. /\ s.abandoned /\ t.abandoned /\ t.cancelled
        /\ t.native_quiescent = r.native_quiescent /\ t.quiescent = r.quiescent
        /\ (t.logical = "Failed" <=> r.logical = "Failed")
    BY <1>1, <1>3
  <1> QED BY <1>1, <1>4, <1>5, <1>6, <1>7, <1>8 DEF s, t

LEMMA DeliveredAdvances ==
    ASSUME NEW r \in Record, RecordOK(r), r.result # "none"
    PROVE  LET s == Delivered(r) IN
           /\ Advances(r, s) /\ RecordOK(s)
           /\ s.native_quiescent = r.native_quiescent /\ s.quiescent = r.quiescent
           /\ s.cancelled = r.cancelled /\ s.logical = r.logical /\ s.abandoned = r.abandoned
  <1> DEFINE s == Delivered(r)
  <1>1. /\ s.root = r.root /\ s.parent = r.parent /\ s.provider = r.provider
        /\ s.native_quiescent = r.native_quiescent /\ s.quiescent = r.quiescent
        /\ s.abandoned = r.abandoned /\ s.delivered = TRUE /\ s.result = "none"
        /\ s.cancelled = r.cancelled /\ s.logical = r.logical
    BY DEF Delivered, Record
  <1> HIDE DEF s
  <1>2. RecordOK(s) /\ Advances(r, s)
    BY <1>1 DEF RecordOK, IsRevoked, Advances
  <1> QED BY <1>1, <1>2 DEF s

(* A reply decides the outcome unless it was decided before. *)
LEMMA AcceptedAdvances ==
    ASSUME NEW r \in Record, RecordOK(r), ~r.native_quiescent, NEW reply, NEW failed \in BOOLEAN,
           reply = "ok" \/ failed
    PROVE  LET s == Accepted(reply, r, failed) IN
           /\ Advances(r, s)
           /\ s.cancelled = r.cancelled /\ s.abandoned = r.abandoned /\ s.quiescent = r.quiescent
           /\ (failed => RecordOK(s) /\ IsRevoked(s))
           /\ (~failed => /\ RecordOK([s EXCEPT !.quiescent = TRUE]) /\ s.native_quiescent
                          /\ Advances(r, [s EXCEPT !.quiescent = TRUE])
                          /\ [s EXCEPT !.quiescent = TRUE].cancelled = r.cancelled
                          /\ [s EXCEPT !.quiescent = TRUE].abandoned = r.abandoned
                          /\ ([s EXCEPT !.quiescent = TRUE].logical = "Failed" => r.logical = "Failed"))
  <1> DEFINE s == Accepted(reply, r, failed)
             t == [s EXCEPT !.quiescent = TRUE]
  <1>1. /\ s.root = r.root /\ s.parent = r.parent /\ s.provider = r.provider
        /\ s.quiescent = r.quiescent
        /\ s.abandoned = r.abandoned /\ s.delivered = r.delivered
        /\ s.cancelled = r.cancelled
    BY DEF Accepted, Record
  <1>2. s.native_quiescent = (r.native_quiescent \/ reply \in {"ok", "quietFail"})
    BY DEF Accepted, Record
  <1>3. s.logical = IF r.logical # "Pending" THEN r.logical
                    ELSE IF failed THEN "Failed" ELSE "Ready"
    BY DEF Accepted, Record
  <1>4. s.result = IF r.logical # "Pending" THEN r.result
                   ELSE IF failed THEN "err" ELSE "ok"
    BY DEF Accepted, Record
  <1>5. s \in Record
    BY RecordUpdates
  <1> HIDE DEF s
  <1>6. /\ t.root = s.root /\ t.parent = s.parent /\ t.provider = s.provider
        /\ t.native_quiescent = s.native_quiescent /\ t.quiescent = TRUE
        /\ t.abandoned = s.abandoned /\ t.delivered = s.delivered
        /\ t.cancelled = s.cancelled /\ t.logical = s.logical /\ t.result = s.result
    BY <1>5 DEF Record
  <1> HIDE DEF t
  <1>7. r.logical \in Logical /\ r.logical # "Ready"
    BY DEF RecordOK, Record
  <1>8. Advances(r, s)
    BY <1>1, <1>2, <1>3, <1>4 DEF Advances, RecordOK
  <1>9. failed => RecordOK(s) /\ IsRevoked(s)
    BY <1>1, <1>2, <1>3, <1>4, <1>7 DEF RecordOK, IsRevoked, Logical
  <1>10. ASSUME ~failed
         PROVE  /\ RecordOK(t) /\ s.native_quiescent /\ Advances(r, t)
                /\ t.cancelled = r.cancelled /\ t.abandoned = r.abandoned
                /\ (t.logical = "Failed" => r.logical = "Failed")
    <2>1. RecordOK(t) /\ s.native_quiescent
      BY <1>1, <1>2, <1>3, <1>4, <1>6, <1>7, <1>10 DEF RecordOK, IsRevoked, Logical
    <2>2. Advances(r, t)
      BY <1>1, <1>2, <1>3, <1>4, <1>6, <1>7, <1>10 DEF RecordOK, Advances
    <2>3. /\ t.cancelled = r.cancelled /\ t.abandoned = r.abandoned
          /\ (t.logical = "Failed" => r.logical = "Failed")
      BY <1>1, <1>3, <1>6, <1>10
    <2> QED BY <2>1, <2>2, <2>3
  <1> QED BY <1>1, <1>8, <1>9, <1>10 DEF s, t

LEMMA NewRecordOK ==
    ASSUME NEW p, NEW parent
    PROVE  RecordOK(NewRecord(p, parent)) /\ Undecided(NewRecord(p, parent))
    BY DEF RecordOK, NewRecord, Undecided

(* What refresh_quiescence does to each record. *)
LEMMA RefreshGrows ==
    ASSUME NEW T, IsMap(T), NEW N \in Nat, \A d \in DOMAIN T : d < N,
           ForestOK(T), Refresh(T)
    PROVE  /\ DOMAIN tickets' = DOMAIN T
           /\ \A d \in DOMAIN T :
                /\ tickets'[d] = [T[d] EXCEPT !.quiescent = tickets'[d].quiescent]
                /\ tickets'[d].quiescent \in BOOLEAN
                /\ T[d].quiescent => tickets'[d].quiescent
                /\ IsExact(d, tickets')
                /\ tickets'[d].native_quiescent = T[d].native_quiescent
                /\ tickets'[d].parent = T[d].parent
  <1>1. PICK q \in [DOMAIN T -> BOOLEAN] :
          /\ IsQuiescence(q, T)
          /\ tickets' = [id \in DOMAIN T |-> [T[id] EXCEPT !.quiescent = q[id]]]
    BY DEF Refresh
  <1>2. ASSUME NEW d \in DOMAIN T
        PROVE  /\ tickets'[d].parent = T[d].parent
               /\ tickets'[d].native_quiescent = T[d].native_quiescent
               /\ tickets'[d].quiescent = q[d] /\ q[d] \in BOOLEAN
               /\ tickets'[d] = [T[d] EXCEPT !.quiescent = q[d]]
    BY <1>1 DEF IsMap, Record
  <1>3. DOMAIN tickets' = DOMAIN T
    BY <1>1
  <1> DEFINE Bad == {d \in DOMAIN T : T[d].quiescent /\ ~q[d]}
  <1>5. Bad = {}
    <2> SUFFICES ASSUME Bad # {} PROVE FALSE
      OBVIOUS
    <2>1. Bad \in SUBSET Nat /\ \A d \in Bad : d <= N
      BY DEF IsMap, Ids
    <2>2. PICK m \in Bad : \A d \in Bad : d <= m
      <3> HIDE DEF Bad
      <3> QED BY <2>1, MaxElement
    <2>3. T[m].native_quiescent /\ \A c \in Children(T, m) : T[c].quiescent
      BY DEF ForestOK
    <2>4. PICK c \in Children(T, m) : ~q[c]
      BY <1>1, <2>3 DEF IsQuiescence
    <2>5. c \in Bad /\ m < c /\ c \in Nat /\ m \in Nat
      BY <2>3, <2>4 DEF Children, ForestOK, IsMap, Ids
    <2> QED BY <2>2, <2>5
  <1>6. \A id : Children(tickets', id) = Children(T, id)
    BY <1>2, <1>3 DEF Children
  <1>7. ASSUME NEW d \in DOMAIN T PROVE IsExact(d, tickets')
    BY <1>1, <1>2, <1>6 DEF IsExact, IsQuiescence, Children
  <1> QED BY <1>2, <1>3, <1>5, <1>7

(* A non-empty set of naturals has a least element. *)
LEMMA MinElement ==
    ASSUME NEW S \in SUBSET Nat, S # {}
    PROVE  \E m \in S : \A k \in S : m <= k
  <1>1. PICK n \in S : TRUE
    OBVIOUS
  <1> DEFINE D == {n - k : k \in {j \in S : j <= n}}
  <1>2. D \in SUBSET Nat /\ D # {} /\ \A x \in D : x <= n
    <2>1. n - n \in D
      BY <1>1
    <2>2. \A k \in S : k <= n => n - k \in Nat /\ n - k <= n
      OBVIOUS
    <2> QED BY <2>1, <2>2
  <1>3. PICK x \in D : \A y \in D : y <= x
    <2> HIDE DEF D
    <2> QED BY <1>2, MaxElement
  <1>4. PICK m \in S : m <= n /\ x = n - m
    BY <1>3
  <1>5. ASSUME NEW k \in S PROVE m <= k
    <2>1. CASE k <= n
      <3>1. n - k \in D
        BY <2>1
      <3>2. n - k <= n - m
        BY <1>3, <1>4, <3>1
      <3> QED BY <1>4, <3>2
    <2>2. CASE ~(k <= n)
      BY <1>4, <2>2
    <2> QED BY <2>1, <2>2
  <1> QED BY <1>5

-----------------------------------------------------------------------------
(***************************************************************************)
(* How a step moves the map, apart from begin_pending: it decides, cancels *)
(* or abandons ticket c at most, and forgets quiescent tickets at most.    *)
(***************************************************************************)
Moves(T, U, c) ==
    /\ DOMAIN U \subseteq DOMAIN T
    /\ \A d \in DOMAIN U : Advances(T[d], U[d]) /\ RecordOK(U[d])
    /\ \A d \in DOMAIN U : d # c => /\ U[d].logical = T[d].logical
                                    /\ U[d].cancelled = T[d].cancelled
                                    /\ U[d].abandoned = T[d].abandoned
    /\ \A d \in DOMAIN T \ DOMAIN U : T[d].quiescent
    /\ \A d \in DOMAIN U : T[d].parent \in DOMAIN T => T[d].parent \in DOMAIN U

LEMMA MovesNot ==
    ASSUME NEW T, RecordsOK(T), NEW c
    PROVE  Moves(T, T, c)
    BY DEF Moves, Advances, RecordsOK, RecordOK

LEMMA MovesTwice ==
    ASSUME NEW T, NEW U, NEW V, NEW c, Moves(T, U, c), Moves(U, V, 0),
           0 \notin DOMAIN T, DOMAIN V = DOMAIN U
    PROVE  Moves(T, V, c)
  <1>1. DOMAIN V \subseteq DOMAIN U /\ DOMAIN U \subseteq DOMAIN T
    BY DEF Moves
  <1>2. ASSUME NEW d \in DOMAIN V
        PROVE  Advances(T[d], V[d]) /\ RecordOK(V[d])
    BY <1>1, <1>2 DEF Moves, Advances
  <1>3. ASSUME NEW d \in DOMAIN V, d # c
        PROVE  /\ V[d].logical = T[d].logical
               /\ V[d].cancelled = T[d].cancelled
               /\ V[d].abandoned = T[d].abandoned
    BY <1>1, <1>3 DEF Moves
  <1>4. \A d \in DOMAIN T \ DOMAIN V : T[d].quiescent
    BY DEF Moves
  <1>5. \A d \in DOMAIN V : T[d].parent \in DOMAIN T => T[d].parent \in DOMAIN V
    BY <1>1 DEF Moves, Advances
  <1> QED BY <1>1, <1>2, <1>3, <1>4, <1>5 DEF Moves

LEMMA FlagAdvances ==
    ASSUME NEW r \in Record, RecordOK(r), NEW b \in BOOLEAN,
           r.quiescent => b, b => r.native_quiescent
    PROVE  LET s == [r EXCEPT !.quiescent = b] IN
           /\ Advances(r, s) /\ RecordOK(s)
           /\ s.logical = r.logical /\ s.cancelled = r.cancelled /\ s.abandoned = r.abandoned
  <1> DEFINE s == [r EXCEPT !.quiescent = b]
  <1>1. /\ s.root = r.root /\ s.parent = r.parent /\ s.provider = r.provider
        /\ s.native_quiescent = r.native_quiescent /\ s.quiescent = b
        /\ s.abandoned = r.abandoned /\ s.delivered = r.delivered /\ s.result = r.result
        /\ s.cancelled = r.cancelled /\ s.logical = r.logical
    BY DEF Record
  <1> HIDE DEF s
  <1>2. RecordOK(s)
    BY <1>1 DEF RecordOK, IsRevoked
  <1>3. Advances(r, s)
    BY <1>1 DEF RecordOK, Advances
  <1> QED BY <1>1, <1>2, <1>3 DEF s

LEMMA RefreshMoves ==
    ASSUME NEW T, IsMap(T), NEW N \in Nat, \A d \in DOMAIN T : d < N,
           ForestOK(T), RecordsOK(T), Refresh(T)
    PROVE  Moves(T, tickets', 0) /\ \A d \in DOMAIN tickets' : IsExact(d, tickets')
  <1>1. /\ DOMAIN tickets' = DOMAIN T
        /\ \A d \in DOMAIN T :
             /\ tickets'[d] = [T[d] EXCEPT !.quiescent = tickets'[d].quiescent]
             /\ tickets'[d].quiescent \in BOOLEAN
             /\ T[d].quiescent => tickets'[d].quiescent
             /\ IsExact(d, tickets')
             /\ tickets'[d].native_quiescent = T[d].native_quiescent
             /\ tickets'[d].parent = T[d].parent
    BY RefreshGrows
  <1>2. ASSUME NEW d \in DOMAIN T
        PROVE  /\ Advances(T[d], tickets'[d]) /\ RecordOK(tickets'[d])
               /\ tickets'[d].logical = T[d].logical
               /\ tickets'[d].cancelled = T[d].cancelled
               /\ tickets'[d].abandoned = T[d].abandoned
    <2>1. T[d] \in Record /\ RecordOK(T[d])
      BY DEF IsMap, RecordsOK
    <2>2. tickets'[d].quiescent => T[d].native_quiescent
      BY <1>1 DEF IsExact
    <2> DEFINE b == tickets'[d].quiescent
    <2>3. b \in BOOLEAN /\ (T[d].quiescent => b) /\ tickets'[d] = [T[d] EXCEPT !.quiescent = b]
      BY <1>1
    <2> HIDE DEF b
    <2>4. b => T[d].native_quiescent
      BY <2>2 DEF b
    <2> QED BY <2>1, <2>3, <2>4, FlagAdvances
  <1>3. Moves(T, tickets', 0)
    BY <1>1, <1>2 DEF Moves
  <1> QED BY <1>1, <1>3

LEMMA MarkMoves ==
    ASSUME LeaseInv, RecordsOK(tickets), NEW id \in Live
    PROVE  LET U == MarkCancelled(tickets, id) IN
           /\ Moves(tickets, U, id) /\ DOMAIN U = Live /\ U[id].cancelled
           /\ \A d \in Live : /\ U[d].quiescent = tickets[d].quiescent
                              /\ U[d].native_quiescent = tickets[d].native_quiescent
                              /\ U[d].abandoned = tickets[d].abandoned
                              /\ U[d].parent = tickets[d].parent
                              /\ U[d].logical = "Failed" => tickets[d].logical = "Failed"
  <1> DEFINE U == MarkCancelled(tickets, id)
  <1>1. DOMAIN U = Live /\ \A d \in Live : U[d] = IF d = id THEN CancelledRecord(tickets[d])
                                                            ELSE tickets[d]
    BY InvFacts DEF MarkCancelled, Live, IsMap
  <1>2. \A d \in Live : tickets[d] \in Record /\ RecordOK(tickets[d])
    BY InvFacts DEF IsMap, Live, RecordsOK
  <1> HIDE DEF U
  <1>3. ASSUME NEW d \in Live
        PROVE  /\ Advances(tickets[d], U[d]) /\ RecordOK(U[d])
               /\ d = id => U[d].cancelled
               /\ d # id => U[d] = tickets[d]
               /\ U[d].quiescent = tickets[d].quiescent
               /\ U[d].native_quiescent = tickets[d].native_quiescent
               /\ U[d].abandoned = tickets[d].abandoned
               /\ U[d].logical = "Failed" => tickets[d].logical = "Failed"
    <2>1. CASE d = id
      BY <1>1, <1>2, <2>1, CancelledAdvances
    <2>2. CASE d # id
      <3>1. U[d] = tickets[d] /\ RecordOK(tickets[d])
        BY <1>1, <1>2, <2>2
      <3> QED BY <2>2, <3>1 DEF Advances, RecordOK
    <2> QED BY <2>1, <2>2
  <1>4. Moves(tickets, U, id)
    BY <1>1, <1>3 DEF Moves, Live
  <1>5. \A d \in Live : U[d].parent = tickets[d].parent
    BY <1>3 DEF Advances
  <1> QED BY <1>1, <1>3, <1>4, <1>5 DEF U

(* A quiescent ticket's whole tree is quiescent. *)
LEMMA TreeQuiescent ==
    ASSUME LeaseInv, NEW id \in Live, tickets[id].quiescent, NEW R \in Trees(id)
    PROVE  \A d \in R : tickets[d].quiescent
  <1> DEFINE B == {d \in R : ~tickets[d].quiescent}
  <1>1. /\ R \in SUBSET Live
        /\ \A d \in R : d = id \/ tickets[d].parent \in R
    BY TreeFacts
  <1>2. ASSUME B # {} PROVE FALSE
    <2>1. B \in SUBSET Nat
      BY <1>1, InvFacts
    <2>2. PICK m \in B : \A k \in B : m <= k
      <3> HIDE DEF B
      <3> QED BY <1>2, <2>1, MinElement
    <2>3. tickets[m].parent \in R /\ tickets[m].parent < m /\ m \in Live
      BY <1>1, <2>2, InvFacts DEF ForestOK, Live
    <2>4. ~tickets[tickets[m].parent].quiescent
      BY <1>1, <2>2, <2>3, InvFacts DEF ForestOK, Children, Live
    <2>5. tickets[m].parent \in B /\ tickets[m].parent \in Nat /\ m \in Nat
      BY <1>1, <2>1, <2>2, <2>3, <2>4, InvFacts
    <2> QED BY <2>2, <2>3, <2>5
  <1> QED BY <1>2

LEMMA WithoutMoves ==
    ASSUME LeaseInv, RecordsOK(tickets), NEW id \in Live, tickets[id].quiescent,
           NEW R \in Trees(id)
    PROVE  /\ Moves(tickets, Without(R), 0) /\ RecordsOK(Without(R))
           /\ \A d \in Live \ R : /\ Without(R)[d] = tickets[d]
                                  /\ IsExact(d, tickets) => IsExact(d, Without(R))
  <1> DEFINE U == Without(R)
  <1>1. /\ R \in SUBSET Live /\ Closed(R, tickets)
        /\ DOMAIN U = Live \ R /\ U = [d \in Live \ R |-> tickets[d]]
    BY TreeFacts
  <1>2. \A d \in Live \ R : U[d] = tickets[d]
    BY <1>1
  <1>3. \A d \in R : tickets[d].quiescent
    BY TreeQuiescent
  <1> HIDE DEF U
  <1>4. ASSUME NEW d \in Live \ R PROVE Advances(tickets[d], U[d]) /\ RecordOK(U[d])
    BY <1>2 DEF Advances, RecordsOK, RecordOK, Live
  <1>5. Moves(tickets, U, 0)
    BY <1>1, <1>2, <1>3, <1>4 DEF Moves, Closed, Live
  <1>6. RecordsOK(U)
    BY <1>1, <1>4 DEF RecordsOK
  <1>7. ASSUME NEW d \in Live \ R, IsExact(d, tickets) PROVE IsExact(d, U)
    <2>1. Children(U, d) = Children(tickets, d) \ R
      BY <1>1, <1>2 DEF Children, Live
    <2>2. \A c \in Children(U, d) : U[c] = tickets[c]
      BY <1>1, <1>2 DEF Children
    <2>3. (\A c \in Children(U, d) : U[c].quiescent)
            <=> (\A c \in Children(tickets, d) : tickets[c].quiescent)
      BY <1>3, <2>1, <2>2
    <2> QED BY <1>2, <1>7, <2>3 DEF IsExact
  <1> QED BY <1>2, <1>5, <1>6, <1>7 DEF U

-----------------------------------------------------------------------------
(* Authority on the stack under pushes, pops, replacements of its top and moves
   of the map. *)

BelowUndecided(s, n, T) == \A k \in 1..n : s[k].id # 0 => Undecided(T[s[k].id])

LEMMA AuthPush ==
    ASSUME NEW s \in Seq(Activation), NEW T, NEW a \in Activation,
           StackAuthority(s, T), FrameAuthority(a, T),
           Working(a) => /\ BelowUndecided(s, Len(s), T)
                         /\ a.id # 0 => Undecided(T[a.id])
    PROVE  StackAuthority(Append(s, a), T)
  <1> DEFINE t == Append(s, a)
  <1>1. Len(t) = Len(s) + 1 /\ t[Len(t)] = a /\ (\A i \in 1..Len(s) : t[i] = s[i])
        /\ Len(s) \in Nat
    OBVIOUS
  <1> HIDE DEF t
  <1>2. ASSUME NEW i \in 1..Len(t) PROVE FrameAuthority(t[i], T)
    BY <1>1, i \in 1..Len(s) \/ i = Len(t) DEF StackAuthority
  <1>3. ASSUME NEW i \in 1..Len(t), Working(t[i]), NEW k \in 1..i, t[k].id # 0
        PROVE  Undecided(T[t[k].id])
    <2>1. CASE i \in 1..Len(s)
      BY <1>1, <1>3, <2>1 DEF StackAuthority
    <2>2. CASE i = Len(t)
      BY <1>1, <1>3, <2>2, k \in 1..Len(s) \/ k = Len(t) DEF BelowUndecided
    <2> QED BY <1>1, <2>1, <2>2
  <1>4. StackAuthority(t, T)
    BY <1>2, <1>3 DEF StackAuthority
  <1> QED BY <1>4 DEF t

LEMMA AuthTop ==
    ASSUME NEW s \in Seq(Activation), s # <<>>, NEW T, NEW a \in Activation,
           StackAuthority(s, T), FrameAuthority(a, T),
           Working(a) => /\ BelowUndecided(s, Len(s) - 1, T)
                         /\ a.id # 0 => Undecided(T[a.id])
    PROVE  StackAuthority([s EXCEPT ![Len(s)] = a], T)
  <1> DEFINE t == [s EXCEPT ![Len(s)] = a]
  <1>1. /\ Len(t) = Len(s) /\ Len(s) \in Nat /\ Len(s) >= 1 /\ t[Len(t)] = a
        /\ \A i \in 1..(Len(s) - 1) : t[i] = s[i]
    OBVIOUS
  <1> HIDE DEF t
  <1>2. ASSUME NEW i \in 1..Len(t) PROVE FrameAuthority(t[i], T)
    BY <1>1, i \in 1..(Len(s) - 1) \/ i = Len(t) DEF StackAuthority
  <1>3. ASSUME NEW i \in 1..Len(t), Working(t[i]), NEW k \in 1..i, t[k].id # 0
        PROVE  Undecided(T[t[k].id])
    <2>1. CASE i \in 1..(Len(s) - 1)
      <3>1. k \in 1..(Len(s) - 1) /\ i \in 1..Len(s)
        BY <1>1, <2>1
      <3> QED BY <1>1, <1>3, <2>1, <3>1 DEF StackAuthority
    <2>2. CASE i = Len(t)
      BY <1>1, <1>3, <2>2, k \in 1..(Len(s) - 1) \/ k = Len(t) DEF BelowUndecided
    <2> QED BY <1>1, <2>1, <2>2
  <1>4. StackAuthority(t, T)
    BY <1>2, <1>3 DEF StackAuthority
  <1> QED BY <1>4 DEF t

LEMMA AuthPop ==
    ASSUME NEW s \in Seq(Activation), s # <<>>, NEW T, StackAuthority(s, T)
    PROVE  StackAuthority(SubSeq(s, 1, Len(s) - 1), T)
  <1> DEFINE t == SubSeq(s, 1, Len(s) - 1)
  <1>1. Len(t) = Len(s) - 1 /\ Len(s) \in Nat /\ \A i \in 1..Len(t) : t[i] = s[i]
    BY AllButLast
  <1> HIDE DEF t
  <1>2. StackAuthority(t, T)
    BY <1>1 DEF StackAuthority
  <1> QED BY <1>2 DEF t

LEMMA AuthEmpty == ASSUME NEW T PROVE StackAuthority(<<>>, T)
    BY DEF StackAuthority

LEMMA FrameAuthorityMoves ==
    ASSUME NEW T, NEW U, NEW c, Moves(T, U, c), NEW a, FrameAuthority(a, T),
           a.id # 0 => a.id \in DOMAIN U, a.op \in {"cancelTree", "drain"} => a.id # 0
    PROVE  FrameAuthority(a, U)
    BY DEF FrameAuthority, Moves, Advances, IsRevoked

LEMMA AuthMoves ==
    ASSUME NEW s \in Seq(Activation), NEW T, NEW U, NEW c, Moves(T, U, c),
           StackAuthority(s, T), StackOK(s, U),
           \/ c = 0
           \/ U[c].logical = T[c].logical /\ U[c].cancelled = T[c].cancelled
           \/ s # <<>> /\ s[Len(s)].id = c /\ ~Working(s[Len(s)])
    PROVE  StackAuthority(s, U)
  <1>1. ASSUME NEW i \in 1..Len(s) PROVE FrameAuthority(s[i], U)
    BY FrameAuthorityMoves DEF StackAuthority, StackOK, FrameOK, HostOps
  <1>2. ASSUME NEW i \in 1..Len(s), Working(s[i]), NEW k \in 1..i, s[k].id # 0
        PROVE  Undecided(U[s[k].id])
    <2>1. Undecided(T[s[k].id]) /\ s[k].id \in DOMAIN U
      BY <1>2 DEF StackAuthority, StackOK, FrameOK
    <2>2. CASE s[k].id # c \/ (U[c].logical = T[c].logical /\ U[c].cancelled = T[c].cancelled)
      BY <2>1, <2>2 DEF Moves, Undecided
    <2>3. CASE s[k].id = c /\ c # 0 /\ s # <<>> /\ s[Len(s)].id = c /\ ~Working(s[Len(s)])
      <3>1. Len(s) \in Nat /\ k <= i /\ i # Len(s) /\ k \in 1..Len(s) /\ Len(s) \in 1..Len(s)
            /\ k < Len(s)
        BY <1>2, <2>3
      <3>2. PairOK(s[k], s[Len(s)], U)
        BY <3>1 DEF StackOK
      <3>3. s[k] \in Activation
        BY <3>1
      <3>4. s[k].id \in Nat
        BY <3>3 DEF Activation
      <3>5. Hosts(s[k], c, U)
        BY <2>3, <3>2 DEF PairOK
      <3>6. s[k].id < c
        BY <1>2, <3>5 DEF Hosts
      <3> QED BY <2>3, <3>4, <3>6
    <2> QED BY <1>2, <2>2, <2>3
  <1> QED BY <1>1, <1>2 DEF StackAuthority

-----------------------------------------------------------------------------
(* What the routines on the stack still owe, under changes of the stack. *)

KeepsCancels(s, t) == \A d, p : WillCancel(d, p, s) => WillCancel(d, p, t)
KeepsRefreshes(s, t) == \A d : WillRefresh(d, s) => WillRefresh(d, t)
KeepsAbandons(s, t) == \A d : WillAbandon(d, s) => WillAbandon(d, t)

LEMMA PushDebts ==
    ASSUME NEW s \in Seq(Activation), NEW a
    PROVE  /\ KeepsCancels(s, Append(s, a))
           /\ KeepsRefreshes(s, Append(s, a))
           /\ KeepsAbandons(s, Append(s, a))
  <1> DEFINE t == Append(s, a)
  <1>1. /\ Len(t) = Len(s) + 1 /\ Len(s) \in Nat /\ \A i \in 1..Len(s) : t[i] = s[i]
        /\ t # <<>>
    OBVIOUS
  <1> HIDE DEF t
  <1>2. KeepsCancels(s, t)
    BY <1>1 DEF KeepsCancels, WillCancel
  <1>3. KeepsRefreshes(s, t)
    BY <1>1 DEF KeepsRefreshes, WillRefresh
  <1>4. s # <<>> => 1 \in 1..Len(s)
    OBVIOUS
  <1>5. KeepsAbandons(s, t)
    BY <1>1, <1>4 DEF KeepsAbandons, WillAbandon
  <1> QED BY <1>2, <1>3, <1>5 DEF t

LEMMA TopDebts ==
    ASSUME ctl \in Seq(Activation), ctl # <<>>, NEW a \in Activation
    PROVE  /\ \/ Top.op \notin {"settle", "cancelTree"} \/ Top.todo = {}
              \/ Top.op = a.op /\ Top.id = a.id /\ Top.todo \subseteq a.todo
              => KeepsCancels(ctl, Become(a))
           /\ Top.op # "settle" \/ (a.op = "settle" /\ a.id = Top.id)
              => KeepsRefreshes(ctl, Become(a))
           /\ Top.op # "abandon" => KeepsAbandons(ctl, Become(a))
  <1> DEFINE t == Become(a)
             n == Len(ctl)
  <1>1. /\ Len(t) = n /\ n \in Nat /\ n >= 1 /\ t[n] = a /\ Top = ctl[n]
        /\ \A i \in 1..(n - 1) : t[i] = ctl[i]
        /\ t # <<>>
    BY DEF Become, Top
  <1> HIDE DEF t, n
  <1>2. \A i \in 1..Len(ctl) : i = n \/ (i \in 1..(n - 1) /\ t[i] = ctl[i])
    BY <1>1 DEF n
  <1>3. n = Len(ctl) /\ n \in 1..Len(t) /\ 1..Len(t) = 1..Len(ctl)
    BY <1>1 DEF n
  <1>4. ASSUME \/ Top.op \notin {"settle", "cancelTree"} \/ Top.todo = {}
               \/ Top.op = a.op /\ Top.id = a.id /\ Top.todo \subseteq a.todo
        PROVE  KeepsCancels(ctl, t)
    BY <1>1, <1>2, <1>3, <1>4 DEF KeepsCancels, WillCancel
  <1>5. ASSUME Top.op # "settle" \/ (a.op = "settle" /\ a.id = Top.id)
        PROVE  KeepsRefreshes(ctl, t)
    BY <1>1, <1>2, <1>3, <1>5 DEF KeepsRefreshes, WillRefresh
  <1>6. ASSUME Top.op # "abandon" PROVE KeepsAbandons(ctl, t)
    <2>1. 1 \in 1..Len(ctl)
      BY <1>1 DEF n
    <2> QED BY <1>1, <1>2, <1>6, <2>1 DEF KeepsAbandons, WillAbandon
  <1> QED BY <1>4, <1>5, <1>6 DEF t

LEMMA VisitedDebts ==
    ASSUME ctl \in Seq(Activation), ctl # <<>>, NEW c
    PROVE  /\ \A d, p : WillCancel(d, p, ctl) => d = c \/ WillCancel(d, p, Visited(c))
           /\ KeepsRefreshes(ctl, Visited(c))
           /\ \A d : WillAbandon(d, ctl) => d = c \/ WillAbandon(d, Visited(c))
  <1> DEFINE a == [Top EXCEPT !.todo = @ \ {c}]
             t == Visited(c)
             n == Len(ctl)
  <1>1. /\ a \in Activation /\ a.todo = Top.todo \ {c} /\ a.op = Top.op /\ a.id = Top.id
    BY TopType DEF Activation
  <1>0. t = [ctl EXCEPT ![Len(ctl)] = a]
    BY DEF Visited, Become
  <1> HIDE DEF a, t
  <1>2. /\ Len(t) = n /\ n \in Nat /\ n >= 1 /\ t[n] = a /\ Top = ctl[n]
        /\ \A i \in 1..(n - 1) : t[i] = ctl[i]
        /\ t # <<>>
    BY <1>0, <1>1 DEF Top
  <1> HIDE DEF n
  <1>3. \A i \in 1..Len(ctl) : /\ t[i].op = ctl[i].op /\ t[i].id = ctl[i].id
                               /\ \A d \in ctl[i].todo : d = c \/ d \in t[i].todo
    <2>1. \A i \in 1..Len(ctl) : i = n \/ (i \in 1..(n - 1) /\ t[i] = ctl[i])
      BY <1>2 DEF n
    <2> QED BY <1>1, <1>2, <2>1
  <1>4. 1..Len(t) = 1..Len(ctl) /\ 1 \in 1..Len(ctl)
    BY <1>2 DEF n
  <1>5. \A d, p : WillCancel(d, p, ctl) => d = c \/ WillCancel(d, p, t)
    BY <1>3, <1>4 DEF WillCancel
  <1>6. KeepsRefreshes(ctl, t)
    BY <1>3, <1>4 DEF KeepsRefreshes, WillRefresh
  <1>7. \A d : WillAbandon(d, ctl) => d = c \/ WillAbandon(d, t)
    BY <1>2, <1>3, <1>4 DEF WillAbandon
  <1> QED BY <1>5, <1>6, <1>7 DEF t

LEMMA PopDebts ==
    ASSUME ctl \in Seq(Activation), ctl # <<>>
    PROVE  /\ Top.op \notin {"settle", "cancelTree"} \/ Top.todo = {} => KeepsCancels(ctl, Pop)
           /\ Top.op # "settle" => KeepsRefreshes(ctl, Pop)
           /\ Top.op # "abandon" => KeepsAbandons(ctl, Pop)
  <1> DEFINE t == Pop
             n == Len(ctl)
  <1>1. /\ Len(t) = n - 1 /\ n \in Nat /\ n >= 1 /\ Top = ctl[n]
        /\ \A i \in 1..(n - 1) : t[i] = ctl[i]
    BY AllButLast DEF Pop, Top
  <1>2. n > 1 => t # <<>>
    BY <1>1
  <1> HIDE DEF t, n
  <1>3. \A i \in 1..Len(ctl) : i = n \/ (i \in 1..Len(t) /\ t[i] = ctl[i])
    BY <1>1 DEF n
  <1>4. Top.op \notin {"settle", "cancelTree"} \/ Top.todo = {} => KeepsCancels(ctl, t)
    BY <1>1, <1>3 DEF KeepsCancels, WillCancel
  <1>5. Top.op # "settle" => KeepsRefreshes(ctl, t)
    BY <1>1, <1>3 DEF KeepsRefreshes, WillRefresh
  <1>6. ASSUME Top.op # "abandon" PROVE KeepsAbandons(ctl, t)
    <2>1. 1 \in 1..Len(ctl)
      BY <1>1 DEF n
    <2>2. ctl[1].op = "abandon" => n # 1 /\ t[1] = ctl[1]
      BY <1>1, <1>3, <1>6, <2>1
    <2> QED BY <1>1, <1>2, <2>2 DEF KeepsAbandons, WillAbandon
  <1> QED BY <1>4, <1>5, <1>6 DEF t

-----------------------------------------------------------------------------
(* The layers of the invariant under moves of the map. *)

LEMMA ReachMoves ==
    ASSUME NEW s, NEW t, NEW T, NEW U, NEW c, Moves(T, U, c),
           RevocationReaches(s, T),
           \A d \in DOMAIN U : \A p : WillCancel(d, p, s) =>
                WillCancel(d, p, t) \/ U[d].cancelled \/ U[d].quiescent,
           c \in DOMAIN U /\ IsRevoked(U[c]) /\ ~IsRevoked(T[c]) =>
                \A d \in Children(U, c) : WillCancel(d, c, t)
    PROVE  RevocationReaches(t, U)
  <1> SUFFICES ASSUME NEW d \in DOMAIN U, U[d].parent \in DOMAIN U, IsRevoked(U[U[d].parent])
               PROVE  U[d].cancelled \/ U[d].quiescent \/ WillCancel(d, U[d].parent, t)
    BY DEF RevocationReaches
  <1> DEFINE p == U[d].parent
  <1>1. /\ d \in DOMAIN T /\ p \in DOMAIN T /\ T[d].parent = p
        /\ T[d].cancelled => U[d].cancelled
        /\ T[d].quiescent => U[d].quiescent
    BY DEF Moves, Advances
  <1>2. CASE IsRevoked(T[p])
    <2>1. T[d].cancelled \/ T[d].quiescent \/ WillCancel(d, p, s)
      BY <1>1, <1>2 DEF RevocationReaches
    <2> QED BY <1>1, <2>1
  <1>3. CASE ~IsRevoked(T[p])
    <2>1. p = c
      BY <1>1, <1>3 DEF Moves, IsRevoked
    <2>2. d \in Children(U, c)
      BY <2>1 DEF Children
    <2> QED BY <1>3, <2>1, <2>2
  <1> QED BY <1>2, <1>3

LEMMA ExactMoves ==
    ASSUME NEW s, NEW t, NEW T, NEW U, DOMAIN U \subseteq DOMAIN T, FlagsAreExact(s, T),
           \A d \in DOMAIN U : IsExact(d, T) => IsExact(d, U) \/ WillRefresh(d, t),
           KeepsRefreshes(s, t)
    PROVE  FlagsAreExact(t, U)
    BY DEF FlagsAreExact, KeepsRefreshes

LEMMA SameFlagsExact ==
    ASSUME NEW T, NEW U, DOMAIN U = DOMAIN T,
           \A d \in DOMAIN T : /\ U[d].parent = T[d].parent
                               /\ U[d].quiescent = T[d].quiescent,
           NEW d \in DOMAIN T, U[d].native_quiescent = T[d].native_quiescent,
           IsExact(d, T)
    PROVE  IsExact(d, U)
  <1>1. Children(U, d) = Children(T, d)
    BY DEF Children
  <1> QED BY <1>1 DEF IsExact, Children

LEMMA AllExact ==
    ASSUME NEW t, NEW U, \A d \in DOMAIN U : IsExact(d, U)
    PROVE  FlagsAreExact(t, U)
    BY DEF FlagsAreExact

LEMMA MapMoves ==
    ASSUME LeaseInv, MapFollowsRoot, NEW c, Moves(tickets, tickets', c),
           UNCHANGED <<activeRoot, rootLive>>,
           c \in Live' => tickets'[c].abandoned = tickets[c].abandoned \/ ~rootLive,
           \A d \in Live' : WillAbandon(d, ctl) => WillAbandon(d, ctl') \/ tickets'[d].abandoned,
           watches' \subseteq watches,
           \A d \in watches' : d \in Live' /\ tickets'[d].logical # "Failed"
    PROVE  MapFollowsRoot'
  <1>1. Live' \subseteq Live /\ Live' = DOMAIN tickets' /\ Live = DOMAIN tickets
    BY DEF Moves, Live
  <1>2. \A d \in Live' : tickets'[d].root = activeRoot'
    BY <1>1 DEF Moves, Advances, MapFollowsRoot
  <1>3. \A d \in Live' : tickets'[d].parent \in Live' \cup {0}
    BY <1>1 DEF Moves, Advances, MapFollowsRoot
  <1>4. activeRoot' = 0 => Live' = {}
    BY <1>1 DEF MapFollowsRoot
  <1>5. rootLive' => \A d \in Live' : ~tickets'[d].abandoned
    BY <1>1 DEF Moves, MapFollowsRoot
  <1>6. ~rootLive' => watches' = {} /\ \A d \in Live' : tickets'[d].abandoned \/ WillAbandon(d, ctl')
    BY <1>1 DEF Moves, Advances, MapFollowsRoot
  <1>7. SubscriptionsFollowTickets'
    BY DEF SubscriptionsFollowTickets
  <1> QED BY <1>2, <1>3, <1>4, <1>5, <1>6, <1>7 DEF MapFollowsRoot

-----------------------------------------------------------------------------
(* The invariant, and what every step may use of it. *)

RevInv == LeaseInv /\ RevocationIsUnderWay /\ FlagsAreExact(ctl, tickets)

(* What every step but begin_pending does to the map. *)
Onward == \E c : Moves(tickets, tickets', c)

LEMMA RevFacts ==
    ASSUME RevInv
    PROVE  /\ LeaseInv /\ RecordsOK(tickets) /\ StackAuthority(ctl, tickets) /\ RootAuthority
           /\ RevocationReaches(ctl, tickets) /\ MapFollowsRoot /\ FlagsAreExact(ctl, tickets)
           /\ \A d \in Live : tickets[d] \in Record /\ RecordOK(tickets[d]) /\ d # 0
    BY InvFacts DEF RevInv, RevocationIsUnderWay, RecordsOK, Live, IsMap

LEMMA RevStep ==
    ASSUME LeaseInv', NEW c, Moves(tickets, tickets', c),
           StackAuthority(ctl', tickets'), RootAuthority', RevocationReaches(ctl', tickets'),
           MapFollowsRoot', FlagsAreExact(ctl', tickets')
    PROVE  RevInv' /\ Onward
  <1>1. RecordsOK(tickets')
    BY DEF Moves, RecordsOK
  <1> QED BY <1>1 DEF RevInv, RevocationIsUnderWay, Onward

(* Steps that leave the map and the root alone. *)
LEMMA StillStep ==
    ASSUME RevInv, LeaseInv', UNCHANGED <<tickets, activeRoot, rootLive, watches>>,
           StackAuthority(ctl', tickets), RootAuthority',
           \A d \in Live : \A p : WillCancel(d, p, ctl) =>
                WillCancel(d, p, ctl') \/ tickets[d].cancelled \/ tickets[d].quiescent,
           KeepsRefreshes(ctl, ctl'), KeepsAbandons(ctl, ctl')
    PROVE  RevInv' /\ Onward
  <1> USE RevFacts
  <1>1. Moves(tickets, tickets', 0) /\ Live' = Live
    BY MovesNot DEF Live
  <1>2. RevocationReaches(ctl', tickets')
    <2>1. 0 \notin DOMAIN tickets'
      BY <1>1, InvFacts DEF Live
    <2> QED BY <1>1, <2>1, ReachMoves DEF Live
  <1>3. FlagsAreExact(ctl', tickets')
    BY ExactMoves
  <1>4. MapFollowsRoot'
    <2>1. \A d \in watches : d \in Live /\ tickets[d].logical # "Failed"
      BY DEF MapFollowsRoot, SubscriptionsFollowTickets
    <2> QED BY <1>1, <2>1, MapMoves DEF KeepsAbandons
  <1> QED BY <1>1, <1>2, <1>3, <1>4, RevStep

(* Authority comes and goes with the frames of the stack. *)
LEMMA RootPush ==
    ASSUME RevInv, UNCHANGED <<activeRoot, rootLive>>,
           NEW s \in Seq(Activation), NEW a, ctl' = Append(s, a),
           \A i \in 1..Len(s) : Working(s[i]) => \E j \in 1..Len(ctl) : Working(ctl[j]),
           \A i \in 1..Len(s) : s[i].op \in {"abandon", "drainAll"}
                => \E j \in 1..Len(ctl) : ctl[j].op \in {"abandon", "drainAll"},
           a.op \notin {"abandon", "drainAll"},
           Working(a) => rootLive /\ activeRoot # 0
    PROVE  RootAuthority'
  <1>1. /\ Len(ctl') = Len(s) + 1 /\ Len(s) \in Nat /\ ctl'[Len(ctl')] = a
        /\ \A i \in 1..Len(s) : ctl'[i] = s[i]
    OBVIOUS
  <1>2. \A i \in 1..Len(ctl') : i \in 1..Len(s) \/ i = Len(ctl')
    BY <1>1
  <1> QED BY <1>1, <1>2, RevFacts DEF RootAuthority

LEMMA RootTop ==
    ASSUME RevInv, ctl # <<>>, UNCHANGED <<activeRoot, rootLive>>,
           NEW a \in Activation, ctl' = Become(a),
           a.op \in {"abandon", "drainAll"} => Top.op = a.op,
           Working(a) => Working(Top) \/ (rootLive /\ activeRoot # 0)
    PROVE  RootAuthority'
  <1>1. /\ Len(ctl') = Len(ctl) /\ Len(ctl) \in Nat /\ Len(ctl) >= 1 /\ ctl'[Len(ctl)] = a
        /\ Top = ctl[Len(ctl)]
        /\ \A i \in 1..Len(ctl) : i # Len(ctl) => ctl'[i] = ctl[i]
    BY RevFacts, InvFacts, TopFacts DEF Become
  <1> QED BY <1>1, RevFacts DEF RootAuthority

LEMMA RootPop ==
    ASSUME RevInv, ctl # <<>>, UNCHANGED <<activeRoot, rootLive>>, ctl' = Pop
    PROVE  RootAuthority'
  <1>1. Len(Pop) = Len(ctl) - 1 /\ Len(ctl) \in Nat /\ \A i \in 1..Len(Pop) : Pop[i] = ctl[i]
    BY RevFacts, InvFacts, AllButLast DEF Pop
  <1>2. \A i \in 1..Len(ctl') : i \in 1..Len(ctl) /\ ctl'[i] = ctl[i]
    BY <1>1
  <1> QED BY <1>2, RevFacts DEF RootAuthority

(* A ticket that may be entered with authority is still pending. *)
LEMMA EnterUndecided ==
    ASSUME RevInv, NEW c \in Live
    PROVE  /\ FrameAuthority(Enter(tickets, c), tickets)
           /\ Enter(tickets, c).op \notin HostOps
           /\ Enter(tickets, c).id = c
           /\ Working(Enter(tickets, c)) => Undecided(tickets[c]) /\ ~IsRevoked(tickets[c])
  <1>1. RecordOK(tickets[c]) /\ c # 0 /\ tickets[c].logical \in Logical
    BY RevFacts DEF Record
  <1>2. CASE tickets[c].native_quiescent
    <2>1. Enter(tickets, c) = Routine("drain", c, Children(tickets, c))
      BY <1>2 DEF Enter
    <2> QED BY <1>1, <1>2, <2>1 DEF Routine, FrameAuthority, Working, RecordOK, HostOps
  <1>3. CASE ~tickets[c].native_quiescent
    <2>1. Enter(tickets, c) = Native(c, tickets[c].provider, IsRevoked(tickets[c]), FALSE)
      BY <1>3 DEF Enter
    <2>2. ~IsRevoked(tickets[c]) => Undecided(tickets[c])
      BY <1>1, <1>3 DEF RecordOK, IsRevoked, Undecided, Logical
    <2> QED BY <1>1, <2>1, <2>2 DEF Native, FrameAuthority, Working, HostOps
  <1> QED BY <1>2, <1>3

LEMMA CancelRoutineAuthority ==
    ASSUME NEW id, NEW U, U[id].cancelled
    PROVE  /\ FrameAuthority(CancelRoutine(id), U) /\ ~Working(CancelRoutine(id))
           /\ CancelRoutine(id).op = "cancelTree" /\ CancelRoutine(id).id = id
           /\ CancelRoutine(id).todo = Children(tickets, id)
    BY DEF FrameAuthority, CancelRoutine, Routine, Working

-----------------------------------------------------------------------------
(* Host calls. *)

LEMMA IdleDebts ==
    ASSUME ctl = <<>>, NEW t
    PROVE  /\ KeepsCancels(ctl, t) /\ KeepsRefreshes(ctl, t) /\ KeepsAbandons(ctl, t)
           /\ \A d, p : ~WillCancel(d, p, ctl)
    BY DEF KeepsCancels, KeepsRefreshes, KeepsAbandons, WillCancel, WillRefresh, WillAbandon

LEMMA AdmitRootRev ==
    ASSUME RevInv, LeaseInv', AdmitRoot
    PROVE  RevInv' /\ Onward
  <1> USE RevFacts
  <1>1. ctl = <<>> /\ UNCHANGED <<tickets, ctl, watches>> /\ Live = {} /\ DOMAIN tickets = {}
        /\ Live' = {} /\ watches' = {} /\ ctl' = <<>>
    BY DEF AdmitRoot, Idle, MapFollowsRoot, SubscriptionsFollowTickets, Live
  <1>2. MapFollowsRoot'
    BY <1>1 DEF MapFollowsRoot, SubscriptionsFollowTickets
  <1>3. RootAuthority' /\ StackAuthority(ctl', tickets')
    BY <1>1, AuthEmpty DEF RootAuthority
  <1>4. RevocationReaches(ctl', tickets') /\ FlagsAreExact(ctl', tickets')
    BY <1>1 DEF RevocationReaches, FlagsAreExact
  <1> QED BY <1>1, <1>2, <1>3, <1>4, MovesNot, RevStep

LEMMA DropRootRev ==
    ASSUME RevInv, LeaseInv', DropRoot
    PROVE  RevInv' /\ Onward
  <1> USE RevFacts
  <1> DEFINE S == {id \in Live : tickets[id].root = activeRoot}
             a == Routine("abandon", 0, S)
  <1>1. /\ ctl = <<>> /\ ctl' = <<a>> /\ UNCHANGED <<tickets, activeRoot>> /\ rootLive' = FALSE
        /\ Live' = Live
    BY DEF DropRoot, HasRoot, Idle, Live
  <1>2. watches' = {} /\ S = Live
    BY DEF DropRoot, MapFollowsRoot, SubscriptionsFollowTickets
  <1>3. /\ a.op = "abandon" /\ a.todo = Live /\ ~Working(a) /\ ctl'[1] = a /\ Len(ctl') = 1
        /\ FrameAuthority(a, tickets)
    BY <1>1, <1>2 DEF Routine, Working, FrameAuthority
  <1> HIDE DEF a, S
  <1>4. MapFollowsRoot'
    BY <1>1, <1>2, <1>3 DEF MapFollowsRoot, SubscriptionsFollowTickets, WillAbandon
  <1>5. RootAuthority' /\ StackAuthority(ctl', tickets')
    BY <1>1, <1>3 DEF RootAuthority, StackAuthority
  <1>6. RevocationReaches(ctl', tickets') /\ FlagsAreExact(ctl', tickets')
    BY <1>1, IdleDebts DEF RevocationReaches, FlagsAreExact, KeepsRefreshes
  <1> QED BY <1>1, <1>4, <1>5, <1>6, MovesNot, RevStep

LEMMA DrainCancelledRev ==
    ASSUME RevInv, LeaseInv', DrainCancelled
    PROVE  RevInv' /\ Onward
  <1> USE RevFacts
  <1>1. PICK S : ctl' = <<Routine("drainAll", 0, S)>>
    BY DEF DrainCancelled
  <1> DEFINE a == Routine("drainAll", 0, S)
  <1>2. ctl = <<>> /\ ~rootLive /\ UNCHANGED <<tickets, activeRoot, rootLive, watches>>
    BY DEF DrainCancelled, Idle, rootVars
  <1>3. /\ a.op = "drainAll" /\ ~Working(a) /\ ctl'[1] = a /\ Len(ctl') = 1
        /\ FrameAuthority(a, tickets)
    BY <1>1 DEF Routine, Working, FrameAuthority
  <1> HIDE DEF a
  <1>4. RootAuthority' /\ StackAuthority(ctl', tickets)
    BY <1>2, <1>3 DEF RootAuthority, StackAuthority
  <1> QED BY <1>2, <1>4, IdleDebts, StillStep

LEMMA ShutdownRev ==
    ASSUME RevInv, LeaseInv', Shutdown
    PROVE  RevInv' /\ Onward
  <1> USE RevFacts
  <1>1. /\ ctl = <<>> /\ ctl' = ctl /\ UNCHANGED <<tickets, activeRoot, rootLive>> /\ watches' = {}
        /\ Moves(tickets, tickets', 0) /\ 0 \notin Live' /\ Live' = Live
    BY MovesNot, InvFacts DEF Shutdown, Idle, rootVars, Live
  <1>2. MapFollowsRoot'
    BY <1>1, MapMoves
  <1>3. RootAuthority' /\ StackAuthority(ctl', tickets')
    BY <1>1 DEF RootAuthority
  <1> QED BY <1>1, <1>2, <1>3, RevStep

LEMMA AuthorizedFacts ==
    ASSUME RevInv, Running, ~Top.revoked
    PROVE  /\ ctl # <<>> /\ Working(Top) /\ rootLive /\ activeRoot # 0
           /\ BelowUndecided(ctl, Len(ctl), tickets)
           /\ Top.id # 0 => Top.id \in Live /\ Undecided(tickets[Top.id])
  <1>1. ctl # <<>> /\ Working(Top) /\ Len(ctl) \in 1..Len(ctl) /\ Top = ctl[Len(ctl)]
        /\ FrameOK(Top, tickets)
    BY RevFacts, TopFacts DEF Running, TopIs, Working
  <1>2. rootLive /\ activeRoot # 0
    BY <1>1, RevFacts DEF RootAuthority
  <1>3. BelowUndecided(ctl, Len(ctl), tickets)
    BY <1>1, RevFacts DEF StackAuthority, BelowUndecided
  <1> QED BY <1>1, <1>2, <1>3 DEF BelowUndecided, FrameOK, Live

(* begin_pending. *)
LEMMA BeginRev ==
    ASSUME RevInv, LeaseInv', NEW p \in Providers, NEW parent \in Nat, Begin(p, parent),
           \/ parent = 0 /\ ctl = <<>> /\ rootLive
           \/ Authorized /\ Top.id # 0 /\ parent = Top.id
    PROVE  RevInv'
  <1> USE RevFacts, InvFacts
  <1> DEFINE n == nextTicket
             U == tickets'
             a == Native(n, p, FALSE, TRUE)
  <1>1. /\ DOMAIN U = Live \cup {n} /\ U[n] = NewRecord(p, parent)
        /\ \A d \in Live : U[d] = tickets[d]
        /\ ctl' = Append(ctl, a) /\ a \in Activation /\ n \notin Live
        /\ UNCHANGED <<activeRoot, rootLive, watches>> /\ Live' = DOMAIN U
        /\ activeRoot # 0
    BY DEF Begin, CanDispatch, Live, rootVars, Native, Activation, Ops
  <1>2. /\ rootLive
        /\ BelowUndecided(ctl, Len(ctl), tickets)
        /\ parent # 0 => /\ parent \in Live /\ Undecided(tickets[parent])
                         /\ ~tickets[parent].native_quiescent /\ ~tickets[parent].quiescent
    <2>1. CASE parent = 0 /\ ctl = <<>> /\ rootLive
      BY <2>1 DEF BelowUndecided
    <2>2. CASE Authorized /\ Top.id # 0 /\ parent = Top.id
      <3>1. /\ ctl # <<>> /\ Top.op = "native" /\ rootLive /\ BelowUndecided(ctl, Len(ctl), tickets)
            /\ Top.id \in Live /\ Undecided(tickets[Top.id])
        BY <2>2, AuthorizedFacts DEF Authorized, Running, TopIs
      <3>2. ~tickets[Top.id].native_quiescent /\ ~tickets[Top.id].quiescent
        BY <2>2, <3>1, TopFacts DEF FrameOK, ForestOK, Live
      <3> QED BY <2>2, <3>1, <3>2
    <2> QED BY <2>1, <2>2
  <1>3. /\ NewRecord(p, parent).parent = parent /\ NewRecord(p, parent).root = activeRoot
        /\ ~NewRecord(p, parent).quiescent /\ ~NewRecord(p, parent).native_quiescent
        /\ ~NewRecord(p, parent).abandoned /\ NewRecord(p, parent).logical = "Pending"
        /\ ~IsRevoked(NewRecord(p, parent))
        /\ RecordOK(NewRecord(p, parent)) /\ Undecided(NewRecord(p, parent))
    BY NewRecordOK DEF NewRecord, IsRevoked
  <1>4. /\ a.op = "native" /\ a.id = n /\ ~a.revoked /\ FrameAuthority(a, U)
    BY DEF Native, FrameAuthority
  <1>5. \A d \in Live : tickets[d].parent # n
    BY <1>1 DEF MapFollowsRoot
  <1> HIDE DEF U, a, n
  <1>6. StackAuthority(ctl', U)
    <2>1. ASSUME NEW i \in 1..Len(ctl) PROVE ctl[i].id # 0 => ctl[i].id \in Live
      BY DEF StackOK, FrameOK, Live
    <2>2. StackAuthority(ctl, U)
      <3>1. ASSUME NEW i \in 1..Len(ctl) PROVE FrameAuthority(ctl[i], U)
        <4>1. FrameOK(ctl[i], tickets) /\ FrameAuthority(ctl[i], tickets)
          BY DEF StackOK, StackAuthority
        <4> QED BY <1>1, <2>1, <4>1 DEF FrameAuthority, FrameOK, HostOps
      <3>2. ASSUME NEW i \in 1..Len(ctl), Working(ctl[i]), NEW k \in 1..i, ctl[k].id # 0
            PROVE  Undecided(U[ctl[k].id])
        <4>1. k \in 1..Len(ctl) /\ Undecided(tickets[ctl[k].id])
          BY <3>2 DEF StackAuthority
        <4> QED BY <1>1, <2>1, <3>2, <4>1
      <3> QED BY <3>1, <3>2 DEF StackAuthority
    <2>3. BelowUndecided(ctl, Len(ctl), U)
      BY <1>1, <1>2, <2>1 DEF BelowUndecided
    <2> QED BY <1>1, <1>3, <1>4, <2>2, <2>3, AuthPush
  <1>7. RootAuthority'
    BY <1>1, <1>2, <1>4, RootPush
  <1>8. RevocationReaches(ctl', U)
    <2> SUFFICES ASSUME NEW d \in DOMAIN U, U[d].parent \in DOMAIN U, IsRevoked(U[U[d].parent])
                 PROVE  U[d].cancelled \/ U[d].quiescent \/ WillCancel(d, U[d].parent, ctl')
      BY DEF RevocationReaches
    <2>1. d # n
      BY <1>1, <1>2, <1>3 DEF Undecided, IsRevoked
    <2>2. d \in Live /\ U[d] = tickets[d] /\ tickets[d].parent \in Live
          /\ U[U[d].parent] = tickets[tickets[d].parent]
      BY <1>1, <1>5, <2>1
    <2>3. tickets[d].cancelled \/ tickets[d].quiescent \/ WillCancel(d, tickets[d].parent, ctl)
      BY <2>2 DEF RevocationReaches, Live
    <2> QED BY <1>1, <2>2, <2>3, PushDebts DEF KeepsCancels
  <1>9. FlagsAreExact(ctl', U)
    <2> SUFFICES ASSUME NEW d \in DOMAIN U PROVE IsExact(d, U) \/ WillRefresh(d, ctl')
      BY DEF FlagsAreExact
    <2>1. CASE d = n
      BY <1>1, <1>3, <2>1 DEF IsExact
    <2>2. CASE d # n /\ d = parent
      <3>1. d \in Live /\ U[d] = tickets[d] /\ ~U[d].native_quiescent /\ ~U[d].quiescent
        BY <1>1, <1>2, <2>2
      <3> QED BY <3>1 DEF IsExact
    <2>3. CASE d # n /\ d # parent
      <3>1. d \in Live /\ U[d] = tickets[d]
        BY <1>1, <2>3
      <3>2. Children(U, d) = Children(tickets, d)
        BY <1>1, <1>3, <2>3 DEF Children, Live
      <3>3. \A c \in Children(tickets, d) : U[c] = tickets[c]
        BY <1>1 DEF Children, Live
      <3>4. IsExact(d, tickets) => IsExact(d, U)
        BY <3>1, <3>2, <3>3 DEF IsExact
      <3> QED BY <1>1, <3>1, <3>4, PushDebts DEF FlagsAreExact, KeepsRefreshes, Live
    <2> QED BY <2>1, <2>2, <2>3
  <1>10. MapFollowsRoot'
    <2>1. \A d \in Live' : tickets'[d].root = activeRoot'
      BY <1>1, <1>3 DEF MapFollowsRoot, U
    <2>2. \A d \in Live' : tickets'[d].parent \in Live' \cup {0}
      BY <1>1, <1>2, <1>3 DEF MapFollowsRoot, U
    <2>3. \A d \in Live' : ~tickets'[d].abandoned
      BY <1>1, <1>2, <1>3 DEF MapFollowsRoot, U
    <2>4. SubscriptionsFollowTickets'
      BY <1>1 DEF MapFollowsRoot, SubscriptionsFollowTickets, U
    <2> QED BY <1>1, <1>2, <2>1, <2>2, <2>3, <2>4 DEF MapFollowsRoot
  <1>11. RecordsOK(U)
    BY <1>1, <1>3 DEF RecordsOK
  <1> QED BY <1>6, <1>7, <1>8, <1>9, <1>10, <1>11 DEF RevInv, RevocationIsUnderWay, U

LEMMA InvokeRev ==
    ASSUME RevInv, LeaseInv', NEW p \in Providers, Invoke(p),
           (ctl = <<>> /\ rootLive) \/ Authorized
    PROVE  RevInv' /\ Onward
  <1> USE RevFacts, InvFacts
  <1> DEFINE a == Native(0, p, FALSE, FALSE)
  <1>1. /\ ctl' = Append(ctl, a) /\ a \in Activation /\ activeRoot # 0
        /\ UNCHANGED <<tickets, activeRoot, rootLive, watches>>
        /\ a.op = "native" /\ a.id = 0 /\ ~a.revoked /\ FrameAuthority(a, tickets)
    BY DEF Invoke, CanDispatch, rootVars, Native, Activation, Ops, FrameAuthority
  <1>2. rootLive /\ BelowUndecided(ctl, Len(ctl), tickets)
    <2>1. CASE ctl = <<>> /\ rootLive
      BY <2>1 DEF BelowUndecided
    <2>2. CASE Authorized
      BY <2>2, AuthorizedFacts DEF Authorized
    <2> QED BY <2>1, <2>2
  <1> HIDE DEF a
  <1>3. StackAuthority(ctl', tickets)
    BY <1>1, <1>2, AuthPush
  <1>4. RootAuthority'
    BY <1>1, <1>2, RootPush
  <1> QED BY <1>1, <1>3, <1>4, PushDebts, StillStep DEF KeepsCancels

LEMMA RootPollRev ==
    ASSUME RevInv, LeaseInv', NEW id \in Live, RootPoll(id)
    PROVE  RevInv' /\ Onward
  <1> USE RevFacts, InvFacts
  <1> DEFINE a == Routine("rootPoll", 0, {id})
             e == Enter(tickets, id)
             s == <<a>>
  <1>1. /\ ctl = <<>> /\ rootLive /\ activeRoot # 0
        /\ UNCHANGED <<tickets, activeRoot, rootLive, watches>>
    BY DEF RootPoll, HasRoot, Idle, rootVars
  <1>2. /\ a \in Activation /\ a.op = "rootPoll" /\ a.id = 0 /\ ~Working(a)
        /\ FrameAuthority(a, tickets)
    BY RoutineType DEF IsMap, Live, Ops, Routine, Working, FrameAuthority
  <1>3. e \in Activation
    BY EnterType DEF Live
  <1>4. s \o <<e>> = Append(s, e) /\ s \o <<>> = s /\ s = Append(ctl, a) /\ s \in Seq(Activation)
        /\ Len(s) = 1 /\ s[1] = a
    <2> HIDE DEF e, a
    <2> QED BY <1>1, <1>2, <1>3
  <1>5. ctl' = s \/ ctl' = Append(s, e)
    BY <1>4 DEF RootPoll
  <1> HIDE DEF s, a
  <1>6. StackAuthority(s, tickets)
    BY <1>2, <1>4 DEF StackAuthority
  <1>7. BelowUndecided(s, Len(s), tickets)
    BY <1>2, <1>4 DEF BelowUndecided
  <1>8. /\ FrameAuthority(e, tickets) /\ e.op \notin HostOps /\ e.id = id
        /\ Working(e) => Undecided(tickets[id])
    BY EnterUndecided
  <1> HIDE DEF e
  <1>9. StackAuthority(ctl', tickets)
    BY <1>3, <1>4, <1>5, <1>6, <1>7, <1>8, AuthPush
  <1>10. RootAuthority'
    <2>1. CASE ctl' = s
      BY <1>1, <1>2, <1>4, <2>1 DEF RootAuthority
    <2>2. CASE ctl' = Append(s, e)
      <3>1. \A i \in 1..Len(s) : ~Working(s[i]) /\ s[i].op \notin {"abandon", "drainAll"}
        BY <1>2, <1>4
      <3>2. e.op \notin {"abandon", "drainAll"}
        BY <1>8 DEF HostOps
      <3> QED BY <1>1, <1>4, <2>2, <3>1, <3>2, RootPush
    <2> QED BY <1>5, <2>1, <2>2
  <1> QED BY <1>1, <1>9, <1>10, IdleDebts, StillStep

(* cancel_ticket: ticket id is marked, and the routine that will reach its children
   is on top of s. *)
LEMMA MarkedRev ==
    ASSUME RevInv, LeaseInv', NEW id \in Live, Moves(tickets, tickets', id),
           Live' = Live, tickets'[id].cancelled,
           \A d \in Live : /\ tickets'[d].quiescent = tickets[d].quiescent
                           /\ tickets'[d].native_quiescent = tickets[d].native_quiescent
                           /\ tickets'[d].logical = "Failed" => tickets[d].logical = "Failed",
           tickets'[id].abandoned = tickets[id].abandoned \/ ~rootLive,
           UNCHANGED <<activeRoot, rootLive, watches>>,
           NEW s \in Seq(Activation), ctl' = Append(s, CancelRoutine(id)),
           StackAuthority(s, tickets),
           \A i \in 1..Len(s) : Working(s[i]) => \E j \in 1..Len(ctl) : Working(ctl[j]),
           \A i \in 1..Len(s) : s[i].op \in {"abandon", "drainAll"}
                => \E j \in 1..Len(ctl) : ctl[j].op \in {"abandon", "drainAll"},
           \A d, p : WillCancel(d, p, ctl) => d = id \/ WillCancel(d, p, s),
           KeepsRefreshes(ctl, s),
           \A d \in Live : WillAbandon(d, ctl) => WillAbandon(d, s) \/ tickets'[d].abandoned
    PROVE  RevInv' /\ Onward
  <1> USE RevFacts, InvFacts
  <1> DEFINE a == CancelRoutine(id)
  <1>1. \A d \in Live : tickets'[d].parent = tickets[d].parent
    BY DEF Moves, Advances, Live
  <1>2. a \in Activation /\ FrameAuthority(a, tickets') /\ ~Working(a) /\ a.op = "cancelTree"
        /\ a.id = id /\ a.todo = Children(tickets, id)
    BY CancelRoutineType DEF CancelRoutine, Routine, Working, FrameAuthority
  <1> HIDE DEF a
  <1>3. /\ Len(ctl') = Len(s) + 1 /\ Len(s) \in Nat /\ ctl'[Len(ctl')] = a /\ ctl' # <<>>
        /\ \A i \in 1..Len(s) : ctl'[i] = s[i]
        /\ ctl' \in Seq(Activation)
    BY <1>2 DEF a
  <1>4. StackAuthority(ctl', tickets')
    <2>1. StackOK(ctl', tickets')
      BY DEF LeaseInv, StackFollowsForest
    <2>2. ASSUME NEW i \in 1..Len(s) PROVE FrameAuthority(s[i], tickets')
      <3>1. FrameOK(s[i], tickets')
        BY <1>3, <2>1, i \in 1..Len(ctl') DEF StackOK
      <3>2. FrameAuthority(s[i], tickets)
        BY DEF StackAuthority
      <3> QED BY <3>1, <3>2, FrameAuthorityMoves DEF FrameOK, HostOps
    <2>3. ASSUME NEW i \in 1..Len(s), NEW k \in 1..i, s[k].id # 0, Working(s[i])
          PROVE  Undecided(tickets'[s[k].id])
      <3>1. Undecided(tickets[s[k].id]) /\ k \in 1..Len(s)
        BY <2>3 DEF StackAuthority
      <3>2. PairOK(s[k], a, tickets') /\ FrameOK(s[k], tickets') /\ s[k] \in Activation
        BY <1>3, <2>1, <3>1, k \in 1..Len(ctl'), Len(ctl') \in 1..Len(ctl'), SMTT(30) DEF StackOK
      <3>3. s[k].id < id /\ s[k].id \in Nat /\ s[k].id \in DOMAIN tickets'
        BY <1>2, <2>3, <3>2 DEF PairOK, Hosts, Activation, FrameOK
      <3>4. s[k].id # id
        BY <3>3
      <3>5. /\ tickets'[s[k].id].logical = tickets[s[k].id].logical
            /\ tickets'[s[k].id].cancelled = tickets[s[k].id].cancelled
        BY <3>3, <3>4 DEF Moves
      <3> QED BY <3>1, <3>5 DEF Undecided
    <2>4. StackAuthority(s, tickets')
      BY <2>2, <2>3 DEF StackAuthority
    <2> QED BY <1>2, <2>4, AuthPush DEF a
  <1>5. RootAuthority'
    BY <1>2, RootPush DEF a
  <1>6. RevocationReaches(ctl', tickets')
    <2>1. ASSUME NEW d \in DOMAIN tickets', NEW p, WillCancel(d, p, ctl)
          PROVE  WillCancel(d, p, ctl') \/ tickets'[d].cancelled
      BY <2>1, PushDebts DEF KeepsCancels
    <2>2. ASSUME NEW d \in Children(tickets', id) PROVE WillCancel(d, id, ctl')
      <3>1. d \in a.todo
        BY <1>1, <1>2 DEF Children, Live
      <3> QED BY <1>2, <1>3, <3>1, Len(ctl') \in 1..Len(ctl') DEF WillCancel
    <2> QED BY <2>1, <2>2, ReachMoves
  <1>7. FlagsAreExact(ctl', tickets')
    <2>1. \A d \in Live : IsExact(d, tickets) => IsExact(d, tickets')
      BY <1>1, SameFlagsExact DEF Live
    <2>2. KeepsRefreshes(ctl, ctl')
      BY PushDebts DEF KeepsRefreshes
    <2> QED BY <2>1, <2>2, ExactMoves DEF Live
  <1>8. MapFollowsRoot'
    <2>1. \A d \in Live : WillAbandon(d, ctl) => WillAbandon(d, ctl') \/ tickets'[d].abandoned
      BY PushDebts DEF KeepsAbandons
    <2>2. \A d \in watches : d \in Live /\ tickets[d].logical # "Failed"
      BY DEF MapFollowsRoot, SubscriptionsFollowTickets
    <2> QED BY <2>1, <2>2, MapMoves
  <1> QED BY <1>4, <1>5, <1>6, <1>7, <1>8, RevStep

LEMMA CancelRev ==
    ASSUME RevInv, LeaseInv', NEW id \in Live, Cancel(id),
           UNCHANGED <<activeRoot, rootLive, watches>>,
           NEW s \in Seq(Activation), ctl' = Append(s, CancelRoutine(id)),
           StackAuthority(s, tickets),
           \A i \in 1..Len(s) : Working(s[i]) => \E j \in 1..Len(ctl) : Working(ctl[j]),
           \A i \in 1..Len(s) : s[i].op \in {"abandon", "drainAll"}
                => \E j \in 1..Len(ctl) : ctl[j].op \in {"abandon", "drainAll"},
           \A d, p : WillCancel(d, p, ctl) => d = id \/ WillCancel(d, p, s),
           KeepsRefreshes(ctl, s), KeepsAbandons(ctl, s)
    PROVE  RevInv' /\ Onward
  <1> DEFINE U == MarkCancelled(tickets, id)
  <1>1. /\ tickets' = U /\ Moves(tickets, U, id) /\ DOMAIN U = Live /\ U[id].cancelled
        /\ \A d \in Live : /\ U[d].quiescent = tickets[d].quiescent
                           /\ U[d].native_quiescent = tickets[d].native_quiescent
                           /\ U[d].abandoned = tickets[d].abandoned
                           /\ U[d].logical = "Failed" => tickets[d].logical = "Failed"
    BY RevFacts, MarkMoves DEF Cancel
  <1> HIDE DEF U
  <1>2. Live' = Live
    BY <1>1 DEF Live
  <1> QED BY <1>1, <1>2, MarkedRev DEF KeepsAbandons

LEMMA RootCancelRev ==
    ASSUME RevInv, LeaseInv', NEW id \in Live, RootCancel(id)
    PROVE  RevInv' /\ Onward
  <1>1. /\ ctl = <<>> /\ Cancel(id) /\ UNCHANGED <<activeRoot, rootLive, watches>>
        /\ ctl' = <<CancelRoutine(id)>>
    BY DEF RootCancel, HasRoot, Idle, rootVars
  <1>2. CancelRoutine(id) \in Activation
    BY CancelRoutineType, RevFacts, InvFacts
  <1>3. ctl' = Append(ctl, CancelRoutine(id))
    BY <1>1, <1>2
  <1> QED BY <1>1, <1>3, CancelRev, RevFacts, InvFacts DEF KeepsRefreshes, KeepsAbandons

LEMMA ImportCancelRev ==
    ASSUME RevInv, LeaseInv', NEW c \in Live, ImportCancel(c)
    PROVE  RevInv' /\ Onward
  <1>1. /\ Cancel(c) /\ UNCHANGED <<activeRoot, rootLive, watches>>
        /\ ctl' = Append(ctl, CancelRoutine(c))
    BY DEF ImportCancel, rootVars
  <1> QED BY <1>1, CancelRev, RevFacts, InvFacts DEF KeepsRefreshes, KeepsAbandons

(* Removing records with the rest of the map unmoved, or refreshed. *)
LEMMA ForgetRev ==
    ASSUME RevInv, LeaseInv', Moves(tickets, tickets', 0),
           UNCHANGED <<activeRoot, rootLive>>,
           StackAuthority(ctl', tickets), RootAuthority',
           KeepsCancels(ctl, ctl'), KeepsAbandons(ctl, ctl'),
           FlagsAreExact(ctl', tickets'),
           watches' \subseteq watches, \A d \in watches' : d \in Live'
    PROVE  RevInv' /\ Onward
  <1> USE RevFacts
  <1>1. 0 \notin DOMAIN tickets' /\ ctl' \in Seq(Activation) /\ StackOK(ctl', tickets')
        /\ DOMAIN tickets' = Live' /\ Live' \subseteq Live
    <2>1. DOMAIN tickets' \subseteq Live
      BY DEF Moves, Live
    <2>2. 0 \notin Live
      BY InvFacts
    <2> QED BY <2>1, <2>2 DEF LeaseInv, StackFollowsForest, TypeOK, Live
  <1>2. StackAuthority(ctl', tickets')
    BY <1>1, AuthMoves
  <1>3. RevocationReaches(ctl', tickets')
    BY <1>1, ReachMoves DEF KeepsCancels
  <1>4. MapFollowsRoot'
    <2>1. \A d \in watches' : tickets'[d].logical # "Failed"
      BY <1>1 DEF Moves, MapFollowsRoot, SubscriptionsFollowTickets
    <2> QED BY <1>1, <2>1, MapMoves DEF KeepsAbandons
  <1> QED BY <1>2, <1>3, <1>4, RevStep

LEMMA WatchesLive ==
    ASSUME RevInv, NEW R, watches' = watches \ R, Live' = Live \ R
    PROVE  watches' \subseteq watches /\ \A d \in watches' : d \in Live'
    BY RevFacts DEF MapFollowsRoot, SubscriptionsFollowTickets

LEMMA RootReleaseRev ==
    ASSUME RevInv, LeaseInv', NEW id \in Live, RootRelease(id)
    PROVE  RevInv' /\ Onward
  <1> USE RevFacts
  <1>1. /\ ctl = <<>> /\ ctl' = ctl /\ UNCHANGED <<activeRoot, rootLive>> /\ tickets[id].quiescent
    BY DEF RootRelease, HasRoot, Idle, rootVars
  <1>2. PICK R \in Trees(id) : tickets' = Without(R) /\ watches' = watches \ R
    BY DEF RootRelease, ReleaseWatches
  <1>3. /\ Moves(tickets, tickets', 0)
        /\ \A d \in Live \ R : IsExact(d, tickets) => IsExact(d, tickets')
        /\ Live' = Live \ R
    <2>1. Moves(tickets, Without(R), 0)
          /\ \A d \in Live \ R : IsExact(d, tickets) => IsExact(d, Without(R))
      BY <1>1, WithoutMoves
    <2>2. DOMAIN Without(R) = Live \ R
      BY TreeFacts
    <2> QED BY <1>2, <2>1, <2>2 DEF Live
  <1>4. FlagsAreExact(ctl', tickets')
    BY <1>1, <1>3 DEF FlagsAreExact, Live
  <1>5. RootAuthority'
    BY <1>1 DEF RootAuthority
  <1> QED BY <1>1, <1>2, <1>3, <1>4, <1>5, WatchesLive, ForgetRev DEF KeepsCancels, KeepsAbandons

-----------------------------------------------------------------------------
(* Plugin code. *)

(* Tickets on the stack are distinct: no loop further out serves Top's. *)
LEMMA NobodyCancels ==
    ASSUME RevInv, ctl # <<>>, Top.id # 0, Top.op \notin {"settle", "cancelTree"}
    PROVE  \A d : ~WillCancel(d, Top.id, ctl)
  <1> USE RevFacts, InvFacts, TopFacts
  <1> SUFFICES ASSUME NEW i \in 1..Len(ctl), ctl[i].op \in {"settle", "cancelTree"},
                      ctl[i].id = Top.id
               PROVE  FALSE
    BY DEF WillCancel
  <1>1. i # Len(ctl) /\ i \in 1..(Len(ctl) - 1)
    BY DEF Top
  <1>2. PairOK(ctl[i], Top, tickets) /\ Top.id \in Nat
    BY <1>1 DEF Activation
  <1>3. ctl[i].id < Top.id
    BY <1>2 DEF PairOK, Hosts
  <1> QED BY <1>2, <1>3

(* The frame on top goes on as a, with no more authority than it had. *)
LEMMA GoOnAuthority ==
    ASSUME RevInv, ctl # <<>>, NEW a \in Activation, FrameAuthority(a, tickets),
           Working(a) => Working(Top), a.id = Top.id
    PROVE  StackAuthority(Become(a), tickets)
  <1>1. Working(Top) => BelowUndecided(ctl, Len(ctl), tickets)
    BY RevFacts, TopFacts DEF StackAuthority, BelowUndecided
  <1>2. Working(a) => /\ BelowUndecided(ctl, Len(ctl) - 1, tickets)
                      /\ a.id # 0 => Undecided(tickets[a.id])
    BY <1>1, TopFacts, RevFacts DEF BelowUndecided
  <1> QED BY <1>2, AuthTop, RevFacts, InvFacts DEF Become

LEMMA ImportPollRev ==
    ASSUME RevInv, LeaseInv', NEW c \in Live, ImportPoll(c)
    PROVE  RevInv' /\ Onward
  <1> USE RevFacts, InvFacts
  <1> DEFINE a == [Top EXCEPT !.op = "awaitPoll", !.todo = {c}]
             s == Become(a)
             e == Enter(tickets, c)
  <1>1. /\ ctl # <<>> /\ Top \in Activation /\ Top.op = "native" /\ FrameAuthority(Top, tickets)
        /\ Top.id # 0 /\ tickets[c].parent = Top.id /\ FrameOK(Top, tickets)
        /\ UNCHANGED <<tickets, activeRoot, rootLive, watches>>
    BY TopFacts DEF ImportPoll, IsImport, Running, TopIs, rootVars, StackAuthority
  <1>2. /\ a \in Activation /\ a.op = "awaitPoll" /\ a.id = Top.id /\ a.todo = {c}
        /\ a.revoked = Top.revoked /\ (Working(a) <=> Working(Top))
        /\ FrameAuthority(a, tickets)
    BY <1>1 DEF Activation, Ops, IsMap, Live, Working, FrameAuthority
  <1>3. ctl' = s \/ (~tickets[c].quiescent /\ ctl' = Append(s, e))
    BY DEF ImportPoll
  <1>4. e \in Activation
    BY EnterType DEF Live
  <1> HIDE DEF a
  <1>5. StackAuthority(s, tickets) /\ s \in Seq(Activation)
    BY <1>1, <1>2, GoOnAuthority, BecomeType
  <1>6. /\ Len(s) = Len(ctl) /\ s[Len(ctl)] = a
        /\ \A i \in 1..Len(ctl) : i # Len(ctl) => s[i] = ctl[i]
    BY <1>1, <1>2 DEF Become
  <1>7. KeepsCancels(ctl, s) /\ KeepsRefreshes(ctl, s) /\ KeepsAbandons(ctl, s)
    BY <1>1, <1>2, TopDebts
  <1>8. /\ FrameAuthority(e, tickets) /\ e.op \notin HostOps /\ e.id = c
        /\ Working(e) => Undecided(tickets[c]) /\ ~IsRevoked(tickets[c])
    BY EnterUndecided
  <1> HIDE DEF s, e
  <1>9. CASE ctl' = s
    <2>1. RootAuthority'
      BY <1>1, <1>2, <1>9, RootTop DEF s
    <2> QED BY <1>1, <1>5, <1>7, <1>9, <2>1, StillStep DEF KeepsCancels
  <1>10. CASE ~tickets[c].quiescent /\ ctl' = Append(s, e)
    <2>1. Working(e) => ~Top.revoked
      <3> SUFFICES ASSUME Working(e), Top.revoked PROVE FALSE
        BY DEF Activation
      <3>1. IsRevoked(tickets[Top.id]) /\ Top.id \in Live
        BY <1>1 DEF FrameAuthority, FrameOK, Live
      <3>2. tickets[c].cancelled \/ tickets[c].quiescent \/ WillCancel(c, Top.id, ctl)
        BY <1>1, <3>1 DEF RevocationReaches, Live
      <3>3. ~WillCancel(c, Top.id, ctl)
        BY <1>1, NobodyCancels
      <3> QED BY <1>8, <1>10, <3>2, <3>3 DEF IsRevoked
    <2>2. Working(e) => Working(Top)
      BY <1>1, <2>1 DEF Working
    <2>3. Working(e) => BelowUndecided(s, Len(s), tickets)
      <3>1. Working(Top) => BelowUndecided(ctl, Len(ctl), tickets)
        BY <1>1, TopFacts DEF StackAuthority, BelowUndecided
      <3>2. \A i \in 1..Len(ctl) : s[i].id = ctl[i].id
        BY <1>2, <1>6 DEF Top
      <3> QED BY <1>6, <2>2, <3>1, <3>2 DEF BelowUndecided
    <2>4. StackAuthority(ctl', tickets)
      BY <1>4, <1>5, <1>8, <1>10, <2>3, AuthPush
    <2>5. RootAuthority'
      <3>1. Len(ctl) \in 1..Len(ctl) /\ Top = ctl[Len(ctl)]
        BY <1>1, TopFacts
      <3>2. \A i \in 1..Len(s) : Working(s[i]) => \E j \in 1..Len(ctl) : Working(ctl[j])
        BY <1>2, <1>6, <3>1
      <3>3. \A i \in 1..Len(s) : s[i].op \in {"abandon", "drainAll"}
              => \E j \in 1..Len(ctl) : ctl[j].op \in {"abandon", "drainAll"}
        BY <1>2, <1>6, <3>1
      <3>4. Working(e) => rootLive /\ activeRoot # 0
        BY <2>2, <3>1 DEF RootAuthority
      <3> QED BY <1>1, <1>5, <1>8, <1>10, <3>2, <3>3, <3>4, RootPush DEF HostOps
    <2>6. KeepsCancels(ctl, ctl') /\ KeepsRefreshes(ctl, ctl') /\ KeepsAbandons(ctl, ctl')
      BY <1>5, <1>7, <1>10, PushDebts DEF KeepsCancels, KeepsRefreshes, KeepsAbandons
    <2> QED BY <1>1, <2>4, <2>5, <2>6, StillStep DEF KeepsCancels
  <1> QED BY <1>3, <1>9, <1>10

LEMMA SubscribeRev ==
    ASSUME RevInv, LeaseInv', Subscribe
    PROVE  RevInv' /\ Onward
  <1> USE RevFacts
  <1>1. /\ UNCHANGED <<tickets, ctl, activeRoot, rootLive>> /\ watches' = watches \cup {Top.id}
        /\ rootLive /\ Top.id \in Live /\ tickets[Top.id].logical # "Failed" /\ Live' = Live
    BY AuthorizedFacts DEF Subscribe, Authorized, rootVars, Undecided, Live
  <1>2. MapFollowsRoot'
    BY <1>1 DEF MapFollowsRoot, SubscriptionsFollowTickets
  <1>3. RootAuthority'
    BY <1>1 DEF RootAuthority
  <1> QED BY <1>1, <1>2, <1>3, MovesNot, RevStep

LEMMA InvokeReturnRev ==
    ASSUME RevInv, LeaseInv', InvokeReturn
    PROVE  RevInv' /\ Onward
  <1> USE RevFacts, InvFacts
  <1>1. /\ ctl # <<>> /\ Top.op = "native" /\ ctl' = Pop
        /\ UNCHANGED <<tickets, activeRoot, rootLive, watches>>
    BY DEF InvokeReturn, Running, TopIs, rootVars
  <1>2. StackAuthority(Pop, tickets) /\ RootAuthority'
    BY <1>1, AuthPop, RootPop DEF Pop
  <1> QED BY <1>1, <1>2, PopDebts, StillStep DEF KeepsCancels

-----------------------------------------------------------------------------
(* accept_reply. *)

LEMMA ReplyPendingRev ==
    ASSUME RevInv, LeaseInv', ReplyPending
    PROVE  RevInv' /\ Onward
  <1> USE RevFacts, InvFacts
  <1> DEFINE a == [Top EXCEPT !.op = "settled"]
  <1>1. /\ ctl # <<>> /\ Top \in Activation /\ Top.op = "native" /\ ctl' = Become(a)
        /\ UNCHANGED <<tickets, activeRoot, rootLive, watches>> /\ FrameAuthority(Top, tickets)
    BY TopFacts DEF ReplyPending, Replying, Running, TopIs, rootVars, StackAuthority
  <1>2. /\ a \in Activation /\ a.op = "settled" /\ a.id = Top.id /\ ~Working(a)
        /\ FrameAuthority(a, tickets)
    BY <1>1 DEF Activation, Ops, Working, FrameAuthority
  <1> HIDE DEF a
  <1>3. StackAuthority(ctl', tickets) /\ RootAuthority'
    BY <1>1, <1>2, GoOnAuthority, RootTop
  <1> QED BY <1>1, <1>2, <1>3, TopDebts, StillStep DEF KeepsCancels

LEMMA ReplyCancelledRev ==
    ASSUME RevInv, LeaseInv', ReplyCancelled
    PROVE  RevInv' /\ Onward
  <1> USE RevFacts, InvFacts
  <1> DEFINE id == Top.id
             a == [Top EXCEPT !.op = "settled"]
             T == [tickets EXCEPT ![id].native_quiescent = TRUE]
  <1>1. /\ ctl # <<>> /\ Top \in Activation /\ Top.op = "native" /\ ctl' = Become(a)
        /\ id \in Live /\ tickets[id].cancelled /\ Refresh(T)
        /\ UNCHANGED <<activeRoot, rootLive, watches>> /\ FrameAuthority(Top, tickets)
    BY TopFacts DEF ReplyCancelled, Replying, Running, TopIs, rootVars, StackAuthority
  <1>2. /\ a \in Activation /\ a.op = "settled" /\ a.id = Top.id /\ ~Working(a)
        /\ FrameAuthority(a, tickets)
    BY <1>1 DEF Activation, Ops, Working, FrameAuthority
  <1>3. DOMAIN T = Live /\ \A d \in Live :
          T[d] = IF d = id THEN [tickets[d] EXCEPT !.native_quiescent = TRUE] ELSE tickets[d]
    BY DEF IsMap, Live
  <1>4. IsMap(T)
    BY <1>3, RecordUpdates DEF IsMap, Live
  <1> HIDE DEF T, a
  <1>5. ASSUME NEW r \in Record, RecordOK(r), r.cancelled
        PROVE  LET s == [r EXCEPT !.native_quiescent = TRUE] IN
               /\ Advances(r, s) /\ RecordOK(s) /\ s.quiescent = r.quiescent
               /\ s.logical = r.logical /\ s.cancelled = r.cancelled /\ s.abandoned = r.abandoned
    <2> DEFINE s == [r EXCEPT !.native_quiescent = TRUE]
    <2>1. /\ s.root = r.root /\ s.parent = r.parent /\ s.provider = r.provider
          /\ s.native_quiescent = TRUE /\ s.quiescent = r.quiescent
          /\ s.abandoned = r.abandoned /\ s.delivered = r.delivered /\ s.result = r.result
          /\ s.cancelled = r.cancelled /\ s.logical = r.logical
      BY DEF Record
    <2> HIDE DEF s
    <2>2. RecordOK(s)
      BY <1>5, <2>1 DEF RecordOK, IsRevoked
    <2>3. Advances(r, s)
      BY <1>5, <2>1 DEF RecordOK, Advances
    <2> QED BY <2>1, <2>2, <2>3 DEF s
  <1>6. ASSUME NEW d \in Live
        PROVE  /\ Advances(tickets[d], T[d]) /\ RecordOK(T[d])
               /\ T[d].quiescent = tickets[d].quiescent
               /\ T[d].logical = tickets[d].logical
               /\ T[d].cancelled = tickets[d].cancelled
               /\ T[d].abandoned = tickets[d].abandoned
    <2>1. CASE d = id
      <3>1. /\ tickets[d] \in Record /\ RecordOK(tickets[d]) /\ tickets[d].cancelled
            /\ T[d] = [tickets[d] EXCEPT !.native_quiescent = TRUE]
        BY <1>1, <1>3, <2>1
      <3> QED BY ONLY <1>5, <3>1
    <2>2. CASE d # id
      BY <1>3, <2>2 DEF Advances, RecordOK
    <2> QED BY <2>1, <2>2
  <1>7. Moves(tickets, T, 0) /\ RecordsOK(T)
    BY <1>3, <1>6 DEF Moves, RecordsOK, Live
  <1>8. ForestOK(T)
    <2>1. SameTree(tickets, T)
      BY <1>3, <1>6 DEF SameTree, Advances, Live
    <2>2. \A d \in Live : tickets[d].native_quiescent => T[d].native_quiescent
      BY <1>6 DEF Advances
    <2> QED BY <1>6, <2>1, <2>2, SameTreeForest DEF Live
  <1>9. Moves(T, tickets', 0) /\ \A d \in DOMAIN tickets' : IsExact(d, tickets')
    BY <1>1, <1>3, <1>4, <1>7, <1>8, RefreshMoves
  <1>10. DOMAIN tickets' = DOMAIN T /\ Live' = Live
    BY <1>1, <1>3, <1>4, RefreshType DEF Live
  <1>11. Moves(tickets, tickets', 0)
    BY <1>7, <1>9, <1>10, MovesTwice DEF Live
  <1>12. StackAuthority(ctl', tickets) /\ RootAuthority'
    BY <1>1, <1>2, GoOnAuthority, RootTop
  <1>13. KeepsCancels(ctl, ctl') /\ KeepsAbandons(ctl, ctl')
    BY <1>1, <1>2, TopDebts
  <1>14. \A d \in watches' : d \in Live'
    BY <1>1, <1>10 DEF MapFollowsRoot, SubscriptionsFollowTickets
  <1> QED BY <1>1, <1>9, <1>11, <1>12, <1>13, <1>14, AllExact, ForgetRev

(* A reply that decides the outcome: a failure is settled, a success refreshed. *)
LEMMA ReplyOutcomeRev ==
    ASSUME RevInv, LeaseInv', NEW reply \in {"ok", "fail", "quietFail", "cancelled"},
           ReplyOutcome(reply)
    PROVE  RevInv' /\ Onward
  <1> USE RevFacts, InvFacts
  <1> DEFINE id == Top.id
             failed == IsFailure(reply, id)
             T == [tickets EXCEPT ![id] = Accepted(reply, @, failed)]
             a == [Top EXCEPT !.op = "settle", !.todo = Children(T, id)]
             b == [Top EXCEPT !.op = "settled"]
  <1>1. /\ ctl # <<>> /\ Top \in Activation /\ Top.op = "native"
        /\ id \in Live /\ id # 0 /\ ~tickets[id].native_quiescent
        /\ UNCHANGED <<activeRoot, rootLive>> /\ FrameAuthority(Top, tickets)
    BY TopFacts DEF ReplyOutcome, Replying, Running, TopIs, rootVars, StackAuthority, FrameOK
  <1>2. \/ failed /\ tickets' = T /\ watches' = watches \ {id} /\ ctl' = Become(a)
        \/ ~failed /\ Refresh(T) /\ watches' = watches /\ ctl' = Become(b)
    BY DEF ReplyOutcome, ReleaseWatches
  <1>3. DOMAIN T = Live /\ \A d \in Live :
          T[d] = IF d = id THEN Accepted(reply, tickets[d], failed) ELSE tickets[d]
    BY DEF IsMap, Live
  <1>4. IsMap(T)
    BY AcceptType
  <1>5. failed \in BOOLEAN /\ (reply = "ok" \/ failed)
        /\ (~failed => \A c \in Children(tickets, id) : tickets[c].quiescent)
    BY DEF IsFailure, LiveChildren
  <1>6. \A d \in Live : d # id => T[d] = tickets[d]
    BY <1>3
  <1>7. LET s == T[id] IN
        /\ Advances(tickets[id], s)
        /\ s.cancelled = tickets[id].cancelled /\ s.abandoned = tickets[id].abandoned
        /\ s.quiescent = tickets[id].quiescent
        /\ (failed => RecordOK(s) /\ IsRevoked(s))
        /\ (~failed => /\ RecordOK([s EXCEPT !.quiescent = TRUE]) /\ s.native_quiescent
                       /\ Advances(tickets[id], [s EXCEPT !.quiescent = TRUE])
                       /\ [s EXCEPT !.quiescent = TRUE].cancelled = tickets[id].cancelled
                       /\ [s EXCEPT !.quiescent = TRUE].abandoned = tickets[id].abandoned
                       /\ ([s EXCEPT !.quiescent = TRUE].logical = "Failed"
                             => tickets[id].logical = "Failed"))
    <2>1. T[id] = Accepted(reply, tickets[id], failed)
      BY <1>1, <1>3
    <2>2. tickets[id] \in Record /\ RecordOK(tickets[id])
      BY <1>1
    <2> HIDE DEF T, failed, id
    <2> QED BY ONLY <1>1, <1>5, <2>1, <2>2, AcceptedAdvances
  <1> HIDE DEF T, failed
  <1>8. \A d \in Live : /\ T[d].parent = tickets[d].parent
                        /\ T[d].provider = tickets[d].provider
                        /\ T[d].quiescent = tickets[d].quiescent
                        /\ tickets[d].native_quiescent => T[d].native_quiescent
    BY <1>6, <1>7 DEF Advances
  <1>9. SameTree(tickets, T) /\ Children(T, id) = Children(tickets, id)
    BY <1>3, <1>8 DEF SameTree, Children, Live
  <1>10. CASE failed /\ tickets' = T /\ watches' = watches \ {id} /\ ctl' = Become(a)
    <2>1. /\ a \in Activation /\ a.op = "settle" /\ a.id = id /\ ~Working(a)
          /\ a.todo = Children(T, id) /\ FrameAuthority(a, tickets)
      BY <1>1, <1>4, ChildrenType DEF Activation, Ops, Working, FrameAuthority
    <2> HIDE DEF a
    <2>2. ASSUME NEW d \in Live
          PROVE  /\ Advances(tickets[d], T[d]) /\ RecordOK(T[d])
                 /\ d # id => T[d] = tickets[d]
                 /\ T[d].abandoned = tickets[d].abandoned
      BY <1>6, <1>7, <1>10 DEF Advances, RecordOK
    <2>3. Moves(tickets, tickets', id) /\ Live' = Live
      BY <1>3, <1>10, <2>2 DEF Moves, Live
    <2>4. /\ Len(ctl') = Len(ctl) /\ Len(ctl) \in 1..Len(ctl') /\ ctl'[Len(ctl')] = a
          /\ ctl' # <<>> /\ ctl' \in Seq(Activation)
      BY <1>1, <1>10, <2>1, TopFacts DEF Become
    <2>5. StackAuthority(ctl', tickets) /\ RootAuthority'
      BY <1>1, <1>10, <2>1, GoOnAuthority, RootTop
    <2>6. StackAuthority(ctl', tickets')
      <3>1. StackOK(ctl', tickets')
        BY DEF LeaseInv, StackFollowsForest
      <3> QED BY <2>1, <2>3, <2>4, <2>5, <3>1, AuthMoves
    <2>7. KeepsCancels(ctl, ctl') /\ KeepsRefreshes(ctl, ctl') /\ KeepsAbandons(ctl, ctl')
      BY <1>1, <1>10, <2>1, TopDebts
    <2>8. RevocationReaches(ctl', tickets')
      <3>1. \A d \in Children(tickets', id) : WillCancel(d, id, ctl')
        BY <1>10, <2>1, <2>4 DEF WillCancel
      <3> QED BY <2>3, <2>7, <3>1, ReachMoves DEF KeepsCancels
    <2>9. FlagsAreExact(ctl', tickets')
      <3>1. WillRefresh(id, ctl')
        BY <2>1, <2>4 DEF WillRefresh
      <3>2. ASSUME NEW d \in Live, d # id, IsExact(d, tickets) PROVE IsExact(d, T)
        BY <1>3, <1>6, <1>8, <3>2, SameFlagsExact DEF Live
      <3> QED BY <1>3, <1>10, <2>7, <3>1, <3>2, ExactMoves DEF Live
    <2>10. MapFollowsRoot'
      <3>1. \A d \in watches' : d \in Live' /\ tickets'[d].logical # "Failed"
        BY <1>6, <1>10, <2>3 DEF MapFollowsRoot, SubscriptionsFollowTickets
      <3> QED BY <1>1, <1>10, <2>2, <2>3, <2>7, <3>1, MapMoves DEF KeepsAbandons
    <2> QED BY <2>3, <2>5, <2>6, <2>8, <2>9, <2>10, RevStep
  <1>11. CASE ~failed /\ Refresh(T) /\ watches' = watches /\ ctl' = Become(b)
    <2>1. b \in Activation /\ b.op = "settled" /\ b.id = id /\ ~Working(b)
          /\ FrameAuthority(b, tickets)
      BY <1>1 DEF Activation, Ops, Working, FrameAuthority
    <2> HIDE DEF b
    <2>2. ForestOK(T)
      BY <1>8, <1>9, SameTreeForest DEF Live
    <2>3. /\ DOMAIN tickets' = DOMAIN T
          /\ \A d \in DOMAIN T :
               /\ tickets'[d] = [T[d] EXCEPT !.quiescent = tickets'[d].quiescent]
               /\ tickets'[d].quiescent \in BOOLEAN
               /\ T[d].quiescent => tickets'[d].quiescent
               /\ IsExact(d, tickets')
               /\ tickets'[d].native_quiescent = T[d].native_quiescent
               /\ tickets'[d].parent = T[d].parent
      BY <1>3, <1>4, <1>11, <2>2, RefreshGrows
    <2>4. tickets'[id].quiescent = TRUE
      <3>1. Children(tickets', id) = Children(tickets, id)
        BY <1>3, <1>8, <2>3 DEF Children, Live
      <3>2. \A c \in Children(tickets, id) : tickets'[c].quiescent
        BY <1>3, <1>5, <1>8, <1>11, <2>3 DEF Children, Live
      <3>3. tickets'[id].native_quiescent
        BY <1>1, <1>3, <1>7, <1>11, <2>3
      <3>4. tickets'[id].quiescent
        BY <1>1, <1>3, <2>3, <3>1, <3>2, <3>3 DEF IsExact
      <3> QED BY <1>1, <1>3, <2>3, <3>4
    <2>5. tickets'[id] = [T[id] EXCEPT !.quiescent = TRUE]
      BY <1>1, <1>3, <2>3, <2>4
    <2>6. /\ Advances(tickets[id], tickets'[id]) /\ RecordOK(tickets'[id])
          /\ tickets'[id].cancelled = tickets[id].cancelled
          /\ tickets'[id].abandoned = tickets[id].abandoned
          /\ tickets'[id].logical = "Failed" => tickets[id].logical = "Failed"
      BY <1>7, <1>11, <2>5
    <2>7. ASSUME NEW d \in Live, d # id
          PROVE  /\ Advances(tickets[d], tickets'[d]) /\ RecordOK(tickets'[d])
                 /\ tickets'[d].logical = tickets[d].logical
                 /\ tickets'[d].cancelled = tickets[d].cancelled
                 /\ tickets'[d].abandoned = tickets[d].abandoned
      <3> DEFINE q == tickets'[d].quiescent
      <3>1. /\ tickets[d] \in Record /\ RecordOK(tickets[d]) /\ q \in BOOLEAN
            /\ tickets[d].quiescent => q
            /\ tickets'[d] = [tickets[d] EXCEPT !.quiescent = q]
        BY <1>3, <1>6, <2>3, <2>7
      <3>2. q => tickets[d].native_quiescent
        <4>1. q => tickets'[d].native_quiescent
          BY <1>3, <2>3 DEF IsExact
        <4> QED BY <1>3, <1>6, <2>3, <2>7, <4>1
      <3> HIDE DEF q
      <3> QED BY <3>1, <3>2, FlagAdvances
    <2>8. Moves(tickets, tickets', id) /\ Live' = Live
      BY <1>3, <2>3, <2>6, <2>7 DEF Moves, Live
    <2>9. /\ Len(ctl') = Len(ctl) /\ Len(ctl) \in 1..Len(ctl') /\ ctl'[Len(ctl')] = b
          /\ ctl' # <<>> /\ ctl' \in Seq(Activation)
      BY <1>1, <1>11, <2>1, TopFacts DEF Become
    <2>10. StackAuthority(ctl', tickets) /\ RootAuthority'
      BY <1>1, <1>11, <2>1, GoOnAuthority, RootTop
    <2>11. StackAuthority(ctl', tickets')
      <3>1. StackOK(ctl', tickets')
        BY DEF LeaseInv, StackFollowsForest
      <3> QED BY <2>1, <2>8, <2>9, <2>10, <3>1, AuthMoves
    <2>12. KeepsCancels(ctl, ctl') /\ KeepsRefreshes(ctl, ctl') /\ KeepsAbandons(ctl, ctl')
      BY <1>1, <1>11, <2>1, TopDebts
    <2>13. RevocationReaches(ctl', tickets')
      <3>1. ~(IsRevoked(tickets'[id]) /\ ~IsRevoked(tickets[id]))
        BY <2>6 DEF IsRevoked
      <3> QED BY <2>8, <2>12, <3>1, ReachMoves DEF KeepsCancels
    <2>14. FlagsAreExact(ctl', tickets')
      BY <2>3, AllExact
    <2>15. MapFollowsRoot'
      <3>1. \A d \in watches' : d \in Live' /\ tickets'[d].logical # "Failed"
        BY <1>11, <2>6, <2>7, <2>8 DEF MapFollowsRoot, SubscriptionsFollowTickets
      <3> QED BY <1>1, <1>11, <2>6, <2>8, <2>12, <3>1, MapMoves DEF KeepsAbandons
    <2> QED BY <2>8, <2>10, <2>11, <2>13, <2>14, <2>15, RevStep
  <1> QED BY <1>2, <1>10, <1>11

-----------------------------------------------------------------------------
(* The kernel's own routines. *)

(* A loop of the kernel moves on to the next id. *)
LEMMA VisitedRev ==
    ASSUME RevInv, ctl # <<>>, NEW c
    PROVE  /\ Visited(c) \in Seq(Activation) /\ StackAuthority(Visited(c), tickets)
           /\ Len(Visited(c)) = Len(ctl)
           /\ \A i \in 1..Len(ctl) : /\ Visited(c)[i].op = ctl[i].op
                                     /\ Visited(c)[i].id = ctl[i].id
                                     /\ Visited(c)[i].revoked = ctl[i].revoked
  <1> USE RevFacts, InvFacts, TopFacts
  <1> DEFINE a == [Top EXCEPT !.todo = @ \ {c}]
  <1>0. Top \in Activation /\ FrameAuthority(Top, tickets)
    BY DEF StackAuthority
  <1>1. /\ a \in Activation /\ a.op = Top.op /\ a.id = Top.id /\ a.revoked = Top.revoked
    BY ONLY <1>0 DEF Activation
  <1>2. FrameAuthority(a, tickets) /\ (Working(a) => Working(Top))
    BY <1>0, <1>1 DEF FrameAuthority, Working
  <1>3. Visited(c) = Become(a)
    BY DEF Visited
  <1> HIDE DEF a
  <1>4. StackAuthority(Become(a), tickets) /\ Become(a) \in Seq(Activation)
    BY <1>1, <1>2, GoOnAuthority, BecomeType
  <1>5. /\ Len(Become(a)) = Len(ctl) /\ Become(a)[Len(ctl)] = a
        /\ \A i \in 1..Len(ctl) : i # Len(ctl) => Become(a)[i] = ctl[i]
    BY <1>1 DEF Become
  <1> QED BY <1>1, <1>3, <1>4, <1>5

LEMMA VisitedRoot ==
    ASSUME RevInv, ctl # <<>>, NEW c
    PROVE  /\ \A i \in 1..Len(Visited(c)) :
                Working(Visited(c)[i]) => \E j \in 1..Len(ctl) : Working(ctl[j])
           /\ \A i \in 1..Len(Visited(c)) : Visited(c)[i].op \in {"abandon", "drainAll"}
                => \E j \in 1..Len(ctl) : ctl[j].op \in {"abandon", "drainAll"}
           /\ UNCHANGED <<activeRoot, rootLive>> /\ ctl' = Visited(c) => RootAuthority'
  <1>1. /\ Len(Visited(c)) = Len(ctl)
        /\ \A i \in 1..Len(ctl) : /\ Visited(c)[i].op = ctl[i].op
                                  /\ Visited(c)[i].revoked = ctl[i].revoked
    BY VisitedRev
  <1>2. \A i \in 1..Len(ctl) : Working(Visited(c)[i]) <=> Working(ctl[i])
    BY <1>1 DEF Working
  <1> QED BY <1>1, <1>2, RevFacts DEF RootAuthority

LEMMA VisitedAbandons ==
    ASSUME RevInv, ctl # <<>>, Top.op # "abandon", NEW c
    PROVE  KeepsAbandons(ctl, Visited(c))
  <1> DEFINE a == [Top EXCEPT !.todo = @ \ {c}]
  <1>1. a \in Activation
    BY RevFacts, TopFacts DEF Activation
  <1> QED BY <1>1, TopDebts, RevFacts, InvFacts DEF Visited

LEMMA CancelNextRev ==
    ASSUME RevInv, LeaseInv', CancelNext
    PROVE  RevInv' /\ Onward
  <1> USE RevFacts, InvFacts
  <1>1. PICK c \in Top.todo \cap Live :
          IF tickets[c].cancelled \/ tickets[c].quiescent
          THEN UNCHANGED tickets /\ ctl' = Visited(c)
          ELSE Cancel(c) /\ ctl' = Append(Visited(c), CancelRoutine(c))
    BY DEF CancelNext
  <1>2. /\ ctl # <<>> /\ Top.op # "abandon" /\ UNCHANGED <<activeRoot, rootLive, watches>>
    BY DEF CancelNext, TopIs, rootVars
  <1>3. /\ KeepsRefreshes(ctl, Visited(c)) /\ KeepsAbandons(ctl, Visited(c))
        /\ \A d, p : WillCancel(d, p, ctl) => d = c \/ WillCancel(d, p, Visited(c))
    BY <1>2, VisitedDebts, VisitedAbandons
  <1>4. CASE (tickets[c].cancelled \/ tickets[c].quiescent) /\ UNCHANGED tickets /\ ctl' = Visited(c)
    <2>1. RootAuthority' /\ StackAuthority(ctl', tickets)
      BY <1>2, <1>4, VisitedRev, VisitedRoot
    <2> QED BY <1>2, <1>3, <1>4, <2>1, StillStep
  <1>5. CASE Cancel(c) /\ ctl' = Append(Visited(c), CancelRoutine(c))
    BY <1>2, <1>3, <1>5, VisitedRev, VisitedRoot, CancelRev
  <1> QED BY <1>1, <1>4, <1>5

LEMMA AbandonNextRev ==
    ASSUME RevInv, LeaseInv', AbandonNext
    PROVE  RevInv' /\ Onward
  <1> USE RevFacts, InvFacts
  <1>1. PICK id \in Live :
          LET T == [tickets EXCEPT ![id].abandoned = TRUE] IN
          IF T[id].quiescent \/ T[id].cancelled
          THEN tickets' = T /\ ctl' = Visited(id)
          ELSE /\ tickets' = MarkCancelled(T, id)
               /\ ctl' = Append(Visited(id), CancelRoutine(id))
    BY DEF AbandonNext
  <1> DEFINE T == [tickets EXCEPT ![id].abandoned = TRUE]
             U == MarkCancelled(T, id)
             r == tickets[id]
             s == [r EXCEPT !.abandoned = TRUE]
             t == CancelledRecord(s)
  <1>2. /\ ctl # <<>> /\ Top.op = "abandon" /\ UNCHANGED <<activeRoot, rootLive, watches>>
        /\ ~rootLive /\ FrameOK(Top, tickets) /\ Top \in Activation
    <2>1. ctl # <<>> /\ Top.op = "abandon" /\ UNCHANGED <<activeRoot, rootLive, watches>>
      BY DEF AbandonNext, TopIs, rootVars
    <2>2. Len(ctl) \in 1..Len(ctl) /\ Top = ctl[Len(ctl)]
      BY <2>1, TopFacts
    <2> QED BY <2>1, <2>2, TopFacts DEF RootAuthority
  <1>3. DOMAIN T = Live /\ T[id] = s /\ \A d \in Live : d # id => T[d] = tickets[d]
    BY DEF IsMap, Live
  <1>4. DOMAIN U = Live /\ U[id] = t /\ \A d \in Live : d # id => U[d] = tickets[d]
    BY <1>3 DEF MarkCancelled
  <1>5. /\ Advances(r, s) /\ s.abandoned /\ s.cancelled = r.cancelled
        /\ s.native_quiescent = r.native_quiescent /\ s.quiescent = r.quiescent
        /\ s.logical = r.logical
        /\ (r.cancelled \/ r.quiescent => RecordOK(s))
        /\ Advances(r, t) /\ RecordOK(t)
        /\ t.abandoned /\ t.cancelled
        /\ t.native_quiescent = r.native_quiescent
        /\ t.quiescent = r.quiescent
        /\ (t.logical = "Failed" <=> r.logical = "Failed")
    BY AbandonedAdvances
  <1>6. /\ Visited(id) \in Seq(Activation) /\ StackAuthority(Visited(id), tickets)
        /\ KeepsRefreshes(ctl, Visited(id))
        /\ \A d : WillAbandon(d, ctl) => d = id \/ WillAbandon(d, Visited(id))
        /\ KeepsCancels(ctl, Visited(id))
    <2>1. KeepsCancels(ctl, Visited(id))
      <3> DEFINE a == [Top EXCEPT !.todo = @ \ {id}]
      <3>1. a \in Activation
        BY <1>2 DEF Activation
      <3> QED BY <1>2, <3>1, TopDebts DEF Visited
    <2> QED BY <1>2, <2>1, VisitedRev, VisitedDebts
  <1> HIDE DEF T, U, s, t
  <1>7. CASE (r.quiescent \/ r.cancelled) /\ tickets' = T /\ ctl' = Visited(id)
    <2>1. Live' = Live /\ \A d \in Live : d # id => tickets'[d] = tickets[d]
      BY <1>3, <1>7 DEF Live
    <2>2. tickets'[id] = s /\ RecordOK(s)
      BY <1>3, <1>5, <1>7
    <2>3. \A d \in Live : Advances(tickets[d], tickets'[d]) /\ RecordOK(tickets'[d])
      BY <1>5, <2>1, <2>2 DEF Advances, RecordOK
    <2>4. Moves(tickets, tickets', id)
      BY <2>1, <2>3 DEF Moves, Live
    <2>5. StackAuthority(ctl', tickets')
      <3>1. StackOK(ctl', tickets') /\ ctl' \in Seq(Activation)
        BY <1>6, <1>7 DEF LeaseInv, StackFollowsForest
      <3> QED BY <1>5, <1>6, <1>7, <2>2, <2>4, <3>1, AuthMoves
    <2>6. RootAuthority'
      BY <1>2, <1>7, VisitedRoot
    <2>7. RevocationReaches(ctl', tickets')
      <3>1. ~(IsRevoked(tickets'[id]) /\ ~IsRevoked(tickets[id]))
        BY <1>5, <2>2 DEF IsRevoked
      <3> QED BY <1>6, <1>7, <2>4, <3>1, ReachMoves DEF KeepsCancels
    <2>8. FlagsAreExact(ctl', tickets')
      <3>1. \A d \in Live : /\ tickets'[d].parent = tickets[d].parent
                            /\ tickets'[d].quiescent = tickets[d].quiescent
                            /\ tickets'[d].native_quiescent = tickets[d].native_quiescent
        BY <1>5, <2>1, <2>2 DEF Advances
      <3>2. \A d \in Live : IsExact(d, tickets) => IsExact(d, tickets')
        BY <2>1, <3>1, SameFlagsExact DEF Live
      <3> QED BY <1>6, <1>7, <2>1, <3>2, ExactMoves DEF Live
    <2>9. MapFollowsRoot'
      <3>1. \A d \in watches' : d \in Live' /\ tickets'[d].logical # "Failed"
        BY <1>2, <1>5, <2>1, <2>2 DEF MapFollowsRoot, SubscriptionsFollowTickets
      <3>2. \A d \in Live' : WillAbandon(d, ctl) => WillAbandon(d, ctl') \/ tickets'[d].abandoned
        BY <1>5, <1>6, <1>7, <2>2
      <3> QED BY <1>2, <2>1, <2>4, <3>1, <3>2, MapMoves
    <2> QED BY <2>4, <2>5, <2>6, <2>7, <2>8, <2>9, RevStep
  <1>8. CASE tickets' = U /\ ctl' = Append(Visited(id), CancelRoutine(id))
    <2>1. Live' = Live /\ \A d \in Live : d # id => tickets'[d] = tickets[d]
      BY <1>4, <1>8 DEF Live
    <2>2. tickets'[id] = t
      BY <1>4, <1>8
    <2>3. \A d \in Live : Advances(tickets[d], tickets'[d]) /\ RecordOK(tickets'[d])
      BY <1>5, <2>1, <2>2 DEF Advances, RecordOK
    <2>4. Moves(tickets, tickets', id)
      BY <2>1, <2>3 DEF Moves, Live
    <2>5. \A d \in Live : /\ tickets'[d].quiescent = tickets[d].quiescent
                          /\ tickets'[d].native_quiescent = tickets[d].native_quiescent
                          /\ tickets'[d].logical = "Failed" => tickets[d].logical = "Failed"
      BY <1>5, <2>1, <2>2
    <2>6. \A d \in Live : WillAbandon(d, ctl) => WillAbandon(d, Visited(id)) \/ tickets'[d].abandoned
      BY <1>5, <1>6, <2>2
    <2>7. \A d, p : WillCancel(d, p, ctl) => d = id \/ WillCancel(d, p, Visited(id))
      BY <1>6 DEF KeepsCancels
    <2> QED BY <1>2, <1>5, <1>6, <1>8, <2>1, <2>2, <2>4, <2>5, <2>6, <2>7, VisitedRoot, MarkedRev
  <1>9. T[id].quiescent = r.quiescent /\ T[id].cancelled = r.cancelled
    BY <1>3, <1>5
  <1> QED BY <1>1, <1>7, <1>8, <1>9 DEF T, U

LEMMA DrainAllNextRev ==
    ASSUME RevInv, LeaseInv', DrainAllNext
    PROVE  RevInv' /\ Onward
  <1> USE RevFacts, InvFacts
  <1>1. PICK c \in Top.todo \cap Live : ctl' = Append(Visited(c), Enter(tickets, c))
    BY DEF DrainAllNext
  <1> DEFINE s == Visited(c)
             e == Enter(tickets, c)
  <1>2. /\ ctl # <<>> /\ Top.op = "drainAll"
        /\ UNCHANGED <<tickets, activeRoot, rootLive, watches>>
    BY DEF DrainAllNext, TopIs, rootVars
  <1>3. Len(ctl) = 1 /\ Top = ctl[1] /\ Top.id = 0
    <2>1. Pop = <<>> /\ Len(Pop) = Len(ctl) - 1
      BY <1>2, HostAlone, PopFacts DEF HostOps
    <2>2. Len(ctl) = 1
      BY <2>1, <1>2, TopFacts
    <2> QED BY <1>2, <2>2, TopFacts DEF FrameOK, HostOps
  <1>4. ~rootLive
    BY <1>2, <1>3 DEF RootAuthority
  <1>5. /\ FrameAuthority(e, tickets) /\ e.op \notin HostOps /\ e.id = c /\ e \in Activation
        /\ Working(e) => Undecided(tickets[c]) /\ ~IsRevoked(tickets[c])
    BY EnterUndecided, EnterType DEF Live
  <1>6. ~Working(e)
    <2> SUFFICES ASSUME Working(e) PROVE FALSE
      OBVIOUS
    <2>1. tickets[c].abandoned
      BY <1>2, <1>3, <1>4 DEF MapFollowsRoot, WillAbandon
    <2>2. tickets[c].quiescent /\ tickets[c].native_quiescent
      BY <1>5, <2>1 DEF RecordOK, IsRevoked
    <2> QED BY <2>2 DEF Working, Enter, Routine
  <1>7. StackAuthority(s, tickets) /\ s \in Seq(Activation)
    BY <1>2, VisitedRev
  <1> HIDE DEF s, e
  <1>8. StackAuthority(ctl', tickets)
    BY <1>1, <1>5, <1>6, <1>7, AuthPush DEF s, e
  <1>9. RootAuthority'
    BY <1>1, <1>2, <1>5, <1>6, <1>7, VisitedRoot, RootPush DEF s, e, HostOps
  <1>10. /\ KeepsCancels(ctl, s) /\ KeepsRefreshes(ctl, s) /\ KeepsAbandons(ctl, s)
    <2> DEFINE a == [Top EXCEPT !.todo = @ \ {c}]
    <2>1. a \in Activation
      BY <1>2, TopFacts DEF Activation
    <2> QED BY <1>2, <2>1, TopDebts DEF Visited, s
  <1>11. /\ KeepsCancels(ctl, ctl') /\ KeepsRefreshes(ctl, ctl') /\ KeepsAbandons(ctl, ctl')
    BY <1>1, <1>7, <1>10, PushDebts DEF KeepsCancels, KeepsRefreshes, KeepsAbandons, s
  <1> QED BY <1>2, <1>8, <1>9, <1>11, StillStep DEF KeepsCancels

LEMMA DrainNextRev ==
    ASSUME RevInv, LeaseInv', DrainNext
    PROVE  RevInv' /\ Onward
  <1> USE RevFacts, InvFacts
  <1>1. PICK c \in Top.todo \cap Live :
          ctl' = IF tickets[c].quiescent THEN Visited(c) ELSE Append(Visited(c), Enter(tickets, c))
    BY DEF DrainNext
  <1> DEFINE s == Visited(c)
             e == Enter(tickets, c)
  <1>2. /\ ctl # <<>> /\ Top.op = "drain" /\ FrameAuthority(Top, tickets)
        /\ UNCHANGED <<tickets, activeRoot, rootLive, watches>>
    BY TopFacts DEF DrainNext, TopIs, rootVars, StackAuthority
  <1>3. Top.id \in Live /\ Top.id # 0 /\ tickets[c].parent = Top.id
    BY <1>2, LoopTop DEF HostOps
  <1>4. StackAuthority(s, tickets) /\ s \in Seq(Activation)
    BY <1>2, VisitedRev
  <1>5. /\ KeepsCancels(ctl, s) /\ KeepsRefreshes(ctl, s) /\ KeepsAbandons(ctl, s)
    <2> DEFINE a == [Top EXCEPT !.todo = @ \ {c}]
    <2>1. a \in Activation
      BY <1>2, TopFacts DEF Activation
    <2> QED BY <1>2, <2>1, TopDebts DEF Visited
  <1>6. /\ FrameAuthority(e, tickets) /\ e.op \notin HostOps /\ e.id = c /\ e \in Activation
        /\ Working(e) => Undecided(tickets[c]) /\ ~IsRevoked(tickets[c])
    BY EnterUndecided, EnterType DEF Live
  <1> HIDE DEF s, e
  <1>7. CASE ctl' = s
    <2>1. RootAuthority'
      BY <1>2, <1>7, VisitedRoot DEF s
    <2> QED BY <1>2, <1>4, <1>5, <1>7, <2>1, StillStep DEF KeepsCancels
  <1>8. CASE ~tickets[c].quiescent /\ ctl' = Append(s, e)
    <2>1. ~Working(e)
      <3> SUFFICES ASSUME Working(e) PROVE FALSE
        OBVIOUS
      <3>1. IsRevoked(tickets[Top.id])
        <4>1. ~tickets[Top.id].quiescent
          BY <1>3, <1>8 DEF ForestOK, Children, Live
        <4> QED BY <1>2, <4>1 DEF FrameAuthority
      <3>2. tickets[c].cancelled \/ tickets[c].quiescent \/ WillCancel(c, Top.id, ctl)
        BY <1>3, <3>1 DEF RevocationReaches, Live
      <3>3. ~WillCancel(c, Top.id, ctl)
        BY <1>2, <1>3, NobodyCancels
      <3> QED BY <1>6, <1>8, <3>2, <3>3 DEF IsRevoked
    <2>2. StackAuthority(ctl', tickets)
      BY <1>4, <1>6, <1>8, <2>1, AuthPush
    <2>3. RootAuthority'
      BY <1>2, <1>4, <1>6, <1>8, <2>1, VisitedRoot, RootPush DEF s, HostOps
    <2>4. /\ KeepsCancels(ctl, ctl') /\ KeepsRefreshes(ctl, ctl') /\ KeepsAbandons(ctl, ctl')
      BY <1>4, <1>5, <1>8, PushDebts DEF KeepsCancels, KeepsRefreshes, KeepsAbandons
    <2> QED BY <1>2, <2>2, <2>3, <2>4, StillStep DEF KeepsCancels
  <1> QED BY <1>1, <1>7, <1>8 DEF s, e

LEMMA CancelEnterRev ==
    ASSUME RevInv, LeaseInv', CancelEnter
    PROVE  RevInv' /\ Onward
  <1> USE RevFacts, InvFacts
  <1> DEFINE e == Enter(tickets, Top.id)
  <1>1. /\ ctl # <<>> /\ Top.op = "cancelTree" /\ Top.todo = {} /\ Top.id \in Live
        /\ FrameAuthority(Top, tickets) /\ ctl' = Become(e)
        /\ UNCHANGED <<tickets, activeRoot, rootLive, watches>>
    BY TopFacts DEF CancelEnter, TopIs, rootVars, StackAuthority
  <1>2. /\ FrameAuthority(e, tickets) /\ e.op \notin HostOps /\ e.id = Top.id /\ e \in Activation
        /\ ~Working(e)
    BY <1>1, EnterUndecided, EnterType DEF Live, FrameAuthority, IsRevoked
  <1> HIDE DEF e
  <1>3. StackAuthority(ctl', tickets)
    BY <1>1, <1>2, GoOnAuthority
  <1>4. RootAuthority'
    BY <1>1, <1>2, RootTop DEF HostOps
  <1> QED BY <1>1, <1>2, <1>3, <1>4, TopDebts, StillStep DEF KeepsCancels

(* refresh_quiescence, on the way out of a routine. *)
LEMMA RefreshedMoves ==
    ASSUME RevInv, Refresh(tickets)
    PROVE  /\ Moves(tickets, tickets', 0) /\ FlagsAreExact(ctl', tickets') /\ Live' = Live
  <1>1. Moves(tickets, tickets', 0) /\ \A d \in DOMAIN tickets' : IsExact(d, tickets')
    <2>1. \A d \in DOMAIN tickets : d < nextTicket
      BY RevFacts, InvFacts DEF Live
    <2> QED BY <2>1, RevFacts, InvFacts, RefreshMoves
  <1>2. Live' = Live
    BY RevFacts, InvFacts, RefreshType DEF Live
  <1> QED BY <1>1, <1>2, AllExact

LEMMA SubscribersLive ==
    ASSUME RevInv
    PROVE  \A d \in watches : d \in Live
    BY RevFacts DEF MapFollowsRoot, SubscriptionsFollowTickets

LEMMA SettleDoneRev ==
    ASSUME RevInv, LeaseInv', SettleDone
    PROVE  RevInv' /\ Onward
  <1> USE RevFacts, InvFacts
  <1> DEFINE a == [Top EXCEPT !.op = "settled"]
  <1>1. /\ ctl # <<>> /\ Top.op = "settle" /\ Top.todo = {} /\ ctl' = Become(a)
        /\ FrameAuthority(Top, tickets) /\ Top \in Activation
        /\ UNCHANGED <<activeRoot, rootLive, watches>> /\ Refresh(tickets)
    BY TopFacts DEF SettleDone, TopIs, rootVars, StackAuthority
  <1>2. a \in Activation /\ a.op = "settled" /\ a.id = Top.id /\ ~Working(a)
        /\ FrameAuthority(a, tickets)
    BY <1>1 DEF Activation, Ops, Working, FrameAuthority
  <1> HIDE DEF a
  <1>3. StackAuthority(ctl', tickets) /\ RootAuthority'
    BY <1>1, <1>2, GoOnAuthority, RootTop
  <1>4. KeepsCancels(ctl, ctl') /\ KeepsAbandons(ctl, ctl')
    BY <1>1, <1>2, TopDebts
  <1> QED BY <1>1, <1>3, <1>4, RefreshedMoves, SubscribersLive, ForgetRev

LEMMA PoppedRev ==
    ASSUME RevInv, LeaseInv', ctl # <<>>, Top.op \in {"settled", "drain"}, ctl' = Pop,
           Refresh(tickets), UNCHANGED <<activeRoot, rootLive, watches>>
    PROVE  RevInv' /\ Onward
  <1> USE RevFacts, InvFacts
  <1>1. StackAuthority(ctl', tickets) /\ RootAuthority'
    BY AuthPop, RootPop DEF Pop
  <1>2. KeepsCancels(ctl, ctl') /\ KeepsAbandons(ctl, ctl')
    BY PopDebts
  <1> QED BY <1>1, <1>2, RefreshedMoves, SubscribersLive, ForgetRev

LEMMA DrainDoneRev ==
    ASSUME RevInv, LeaseInv', DrainDone
    PROVE  RevInv' /\ Onward
  <1>1. /\ ctl # <<>> /\ Top.op = "drain" /\ ctl' = Pop /\ Refresh(tickets)
        /\ UNCHANGED <<activeRoot, rootLive, watches>>
    BY DEF DrainDone, TopIs, rootVars
  <1> QED BY <1>1, PoppedRev

LEMMA EnterDoneRev ==
    ASSUME RevInv, LeaseInv', EnterDone
    PROVE  RevInv' /\ Onward
  <1> USE RevFacts, InvFacts
  <1> DEFINE a == [Top EXCEPT !.op = "drain", !.todo = Children(tickets, Top.id)]
  <1>1. /\ ctl # <<>> /\ Top.op = "settled" /\ Top.id \in Live
        /\ FrameAuthority(Top, tickets) /\ Top \in Activation
        /\ UNCHANGED <<activeRoot, rootLive, watches>>
        /\ \/ IsRevoked(tickets[Top.id]) /\ ctl' = Become(a) /\ UNCHANGED tickets
           \/ Refresh(tickets) /\ ctl' = Pop
    BY TopFacts DEF EnterDone, TopIs, rootVars, StackAuthority
  <1>2. CASE IsRevoked(tickets[Top.id]) /\ ctl' = Become(a) /\ UNCHANGED tickets
    <2>1. a \in Activation /\ a.op = "drain" /\ a.id = Top.id /\ ~Working(a)
      BY <1>1, ChildrenType DEF Activation, Ops, Working
    <2>2. FrameAuthority(a, tickets)
      <3>1. a.revoked = Top.revoked
        BY <1>1 DEF Activation
      <3> HIDE DEF a
      <3> QED BY <1>1, <1>2, <2>1, <3>1 DEF FrameAuthority
    <2> HIDE DEF a
    <2>3. StackAuthority(ctl', tickets) /\ RootAuthority'
      BY <1>1, <1>2, <2>1, <2>2, GoOnAuthority, RootTop
    <2> QED BY <1>1, <1>2, <2>1, <2>3, TopDebts, StillStep DEF KeepsCancels
  <1>3. CASE Refresh(tickets) /\ ctl' = Pop
    BY <1>1, <1>3, PoppedRev
  <1> QED BY <1>1, <1>2, <1>3

(* A delivered result leaves every flag as it is. *)
LEMMA RootPollDoneRev ==
    ASSUME RevInv, LeaseInv', RootPollDone
    PROVE  RevInv' /\ Onward
  <1> USE RevFacts, InvFacts
  <1>1. /\ ctl # <<>> /\ Top.op = "rootPoll" /\ ctl' = Pop
        /\ UNCHANGED <<activeRoot, rootLive, watches>>
    BY DEF RootPollDone, TopIs, rootVars
  <1>2. StackAuthority(ctl', tickets) /\ RootAuthority'
    BY <1>1, AuthPop, RootPop DEF Pop
  <1>3. KeepsCancels(ctl, ctl') /\ KeepsRefreshes(ctl, ctl') /\ KeepsAbandons(ctl, ctl')
    BY <1>1, PopDebts
  <1>4. PICK id \in Live :
          tickets' = IF tickets[id].result = "none" THEN tickets
                     ELSE [tickets EXCEPT ![id] = Delivered(@)]
    BY DEF RootPollDone
  <1>5. CASE tickets' = tickets
    BY <1>1, <1>2, <1>3, <1>5, StillStep DEF KeepsCancels
  <1>6. CASE tickets[id].result # "none" /\ tickets' = [tickets EXCEPT ![id] = Delivered(@)]
    <2>1. /\ Live' = Live /\ DOMAIN tickets' = Live /\ tickets'[id] = Delivered(tickets[id])
          /\ \A d \in Live : d # id => tickets'[d] = tickets[d]
      BY <1>6 DEF Live, IsMap
    <2>2. ASSUME NEW d \in Live
          PROVE  /\ Advances(tickets[d], tickets'[d]) /\ RecordOK(tickets'[d])
                 /\ tickets'[d].native_quiescent = tickets[d].native_quiescent
                 /\ tickets'[d].quiescent = tickets[d].quiescent
                 /\ tickets'[d].cancelled = tickets[d].cancelled
                 /\ tickets'[d].logical = tickets[d].logical
                 /\ tickets'[d].abandoned = tickets[d].abandoned
      <3>1. CASE d = id
        BY <1>6, <2>1, <3>1, DeliveredAdvances
      <3>2. CASE d # id
        BY <2>1, <3>2 DEF Advances, RecordOK
      <3> QED BY <3>1, <3>2
    <2>3. Moves(tickets, tickets', 0)
      BY <2>1, <2>2 DEF Moves, Live
    <2>4. FlagsAreExact(ctl', tickets')
      <3>1. \A d \in Live : IsExact(d, tickets) => IsExact(d, tickets')
        BY <2>1, <2>2, SameFlagsExact DEF Live, Advances
      <3> QED BY <1>3, <2>1, <3>1, ExactMoves DEF Live
    <2> QED BY <1>1, <1>2, <1>3, <2>1, <2>3, <2>4, SubscribersLive, ForgetRev
  <1> QED BY <1>4, <1>5, <1>6

(* An imported poll returns, and releases the child it delivers. *)
LEMMA ImportPollDoneRev ==
    ASSUME RevInv, LeaseInv', ImportPollDone
    PROVE  RevInv' /\ Onward
  <1> USE RevFacts, InvFacts
  <1> DEFINE a == [Top EXCEPT !.op = "native", !.todo = {}]
  <1>1. /\ ctl # <<>> /\ Top.op = "awaitPoll" /\ Top \in Activation /\ ctl' = Become(a)
        /\ UNCHANGED <<activeRoot, rootLive>> /\ FrameAuthority(Top, tickets)
    BY TopFacts DEF ImportPollDone, TopIs, rootVars, StackAuthority
  <1>2. /\ a \in Activation /\ a.op = "native" /\ a.id = Top.id /\ a.revoked = Top.revoked
    BY <1>1 DEF Activation, Ops
  <1>3. FrameAuthority(a, tickets) /\ (Working(a) => Working(Top))
    BY <1>1, <1>2 DEF FrameAuthority, Working
  <1> HIDE DEF a
  <1>4. StackAuthority(ctl', tickets) /\ RootAuthority'
    BY <1>1, <1>2, <1>3, GoOnAuthority, RootTop
  <1>5. KeepsCancels(ctl, ctl') /\ KeepsRefreshes(ctl, ctl') /\ KeepsAbandons(ctl, ctl')
    BY <1>1, <1>2, TopDebts
  <1>6. CASE UNCHANGED <<tickets, watches>>
    BY <1>1, <1>4, <1>5, <1>6, StillStep DEF KeepsCancels
  <1>7. ASSUME NEW c \in Top.todo \cap Live, tickets[c].quiescent, NEW R \in Trees(c),
               Refresh(Without(R)), ReleaseWatches(R)
        PROVE  RevInv' /\ Onward
    <2> DEFINE U == Without(R)
    <2>1. /\ IsMap(U) /\ DOMAIN U = Live \ R /\ ForestOK(U)
      BY <1>7, TreeFacts
    <2>2. Moves(tickets, U, 0) /\ RecordsOK(U)
      BY <1>7, WithoutMoves
    <2> HIDE DEF U
    <2>3. Refresh(U)
      BY <1>7 DEF U
    <2>4. Moves(U, tickets', 0) /\ \A d \in DOMAIN tickets' : IsExact(d, tickets')
      <3>1. \A d \in DOMAIN U : d < nextTicket
        BY <2>1
      <3> QED BY <2>1, <2>2, <2>3, <3>1, RefreshMoves
    <2>5. DOMAIN tickets' = DOMAIN U /\ Live' = Live \ R
      BY <2>1, <2>3, RefreshType DEF Live
    <2>6. Moves(tickets, tickets', 0)
      BY <2>2, <2>4, <2>5, MovesTwice DEF Live
    <2>7. watches' \subseteq watches /\ \A d \in watches' : d \in Live'
      BY <1>7, <2>5, WatchesLive DEF ReleaseWatches
    <2> QED BY <1>1, <1>4, <1>5, <2>4, <2>6, <2>7, AllExact, ForgetRev
  <1> QED BY <1>6, <1>7 DEF ImportPollDone

(* begin_pending returns, and releases the call it delivers at once. *)
LEMMA BeginDoneRev ==
    ASSUME RevInv, LeaseInv', BeginDone
    PROVE  RevInv' /\ Onward
  <1> USE RevFacts, InvFacts
  <1>1. /\ ctl # <<>> /\ Top.op = "settled" /\ Top.id \in Live /\ ctl' = Pop
        /\ UNCHANGED <<activeRoot, rootLive>>
    BY DEF BeginDone, TopIs, rootVars
  <1>2. StackAuthority(ctl', tickets) /\ RootAuthority'
    BY <1>1, AuthPop, RootPop DEF Pop
  <1>3. KeepsCancels(ctl, ctl') /\ KeepsRefreshes(ctl, ctl') /\ KeepsAbandons(ctl, ctl')
    BY <1>1, PopDebts
  <1>4. CASE UNCHANGED <<tickets, watches>>
    BY <1>1, <1>2, <1>3, <1>4, StillStep DEF KeepsCancels
  <1>5. ASSUME tickets[Top.id].quiescent, NEW R \in Trees(Top.id),
               tickets' = Without(R), ReleaseWatches(R)
        PROVE  RevInv' /\ Onward
    <2>1. /\ Moves(tickets, tickets', 0)
          /\ \A d \in Live \ R : IsExact(d, tickets) => IsExact(d, tickets')
      BY <1>1, <1>5, WithoutMoves
    <2>2. Live' = Live \ R /\ DOMAIN tickets' = Live \ R
      BY <1>1, <1>5, TreeFacts DEF Live
    <2>3. FlagsAreExact(ctl', tickets')
      BY <1>3, <2>1, <2>2, ExactMoves DEF Live
    <2>4. watches' \subseteq watches /\ \A d \in watches' : d \in Live'
      BY <1>5, <2>2, WatchesLive DEF ReleaseWatches
    <2> QED BY <1>1, <1>2, <1>3, <2>1, <2>3, <2>4, ForgetRev
  <1> QED BY <1>4, <1>5 DEF BeginDone

(* release_abandoned forgets what is abandoned and quiescent, and retires the root
   when nothing is left. *)
LEMMA ReleaseAbandonedRev ==
    ASSUME RevInv, LeaseInv', ReleaseAbandoned
    PROVE  RevInv' /\ Onward
  <1> USE RevFacts, InvFacts
  <1> DEFINE kept == Unfinished(tickets)
  <1>1. /\ ctl # <<>> /\ Top.op \in {"abandon", "drainAll"} /\ Top.todo = {} /\ ctl' = Pop
        /\ tickets' = [id \in kept |-> tickets[id]]
        /\ activeRoot' = IF RootOver(kept) THEN 0 ELSE activeRoot
        /\ UNCHANGED <<rootLive, watches>>
    BY DEF ReleaseAbandoned, TopIs
  <1>2. ctl' = <<>> /\ Top = ctl[1] /\ Len(ctl) = 1
    <2>1. Pop = <<>> /\ Len(Pop) = Len(ctl) - 1
      BY <1>1, HostAlone, PopFacts DEF HostOps
    <2>2. Len(ctl) = 1
      BY <1>1, <2>1, TopFacts
    <2> QED BY <1>1, <2>1, <2>2, TopFacts
  <1>3. ~rootLive
    BY <1>1, <1>2 DEF RootAuthority
  <1>4. watches = {} /\ \A d \in Live : tickets[d].abandoned
    BY <1>1, <1>2, <1>3 DEF MapFollowsRoot, WillAbandon
  <1>5. kept = {d \in Live : ~tickets[d].quiescent}
    BY <1>4 DEF Unfinished, Live
  <1> HIDE DEF kept
  <1>6. DOMAIN tickets' = kept /\ Live' = kept /\ kept \subseteq Live
        /\ \A d \in kept : tickets'[d] = tickets[d]
    BY <1>1, <1>5 DEF Live
  <1>7. Moves(tickets, tickets', 0)
    <2>1. ASSUME NEW d \in kept PROVE Advances(tickets[d], tickets'[d]) /\ RecordOK(tickets'[d])
      BY <1>6 DEF Advances, RecordOK
    <2>2. ASSUME NEW d \in kept, tickets[d].parent \in Live PROVE tickets[d].parent \in kept
      BY <1>5, <2>2 DEF ForestOK, Children, Live
    <2> QED BY <1>5, <1>6, <2>1, <2>2 DEF Moves, Live
  <1>8. ASSUME NEW d \in kept PROVE IsExact(d, tickets')
    <2>1. IsExact(d, tickets)
      <3>1. ~WillRefresh(d, ctl)
        BY <1>1, <1>2 DEF WillRefresh
      <3> QED BY <1>6, <3>1 DEF FlagsAreExact, Live
    <2>2. Children(tickets', d) = {c \in Children(tickets, d) : ~tickets[c].quiescent}
      BY <1>5, <1>6 DEF Children, Live
    <2>3. (\A c \in Children(tickets', d) : tickets'[c].quiescent)
            <=> (\A c \in Children(tickets, d) : tickets[c].quiescent)
      BY <1>5, <1>6, <2>2 DEF Children, Live
    <2> QED BY <1>6, <2>1, <2>3 DEF IsExact
  <1>9. RevocationReaches(ctl', tickets')
    <2>1. ASSUME NEW d \in DOMAIN tickets', NEW p, WillCancel(d, p, ctl) PROVE FALSE
      BY <1>1, <1>2, <2>1 DEF WillCancel
    <2> QED BY <1>6, <1>7, <2>1, ReachMoves DEF Live
  <1>10. StackAuthority(ctl', tickets') /\ RootAuthority' /\ FlagsAreExact(ctl', tickets')
    BY <1>2, <1>6, <1>8, AuthEmpty DEF RootAuthority, FlagsAreExact
  <1>11. MapFollowsRoot'
    <2>1. activeRoot' = activeRoot \/ (activeRoot' = 0 /\ kept = {})
      BY <1>1 DEF RootOver
    <2>2. \A d \in Live' : tickets'[d].parent \in Live' \cup {0}
      BY <1>6, <1>7 DEF Moves, MapFollowsRoot, Live
    <2>3. \A d \in Live' : tickets'[d].root = activeRoot'
      BY <1>6, <2>1 DEF MapFollowsRoot
    <2>4. activeRoot' = 0 => Live' = {}
      BY <1>6, <2>1 DEF MapFollowsRoot
    <2>5. \A d \in Live' : tickets'[d].abandoned
      BY <1>4, <1>6
    <2>6. watches' = {} /\ SubscriptionsFollowTickets'
      BY <1>1, <1>4 DEF SubscriptionsFollowTickets
    <2> QED BY <1>1, <1>3, <2>2, <2>3, <2>4, <2>5, <2>6 DEF MapFollowsRoot
  <1> QED BY <1>7, <1>9, <1>10, <1>11, RevStep

-----------------------------------------------------------------------------
(* Every step keeps the invariant, and moves the map onward or begins a call. *)

Begun == rootLive /\ \E p \in Providers, parent \in Nat : Begin(p, parent)

LEMMA BegunRev ==
    ASSUME RevInv, LeaseInv', NEW p \in Providers, RootBegin(p) \/ ImportBegin(p)
    PROVE  RevInv' /\ Begun
  <1>1. CASE RootBegin(p)
    <2>1. Begin(p, 0) /\ ctl = <<>> /\ rootLive
      BY <1>1 DEF RootBegin, HasRoot, Idle
    <2> QED BY <2>1, BeginRev DEF Begun
  <1>2. CASE ImportBegin(p)
    <2>1. Begin(p, Top.id) /\ Authorized /\ Running /\ ~Top.revoked /\ Top.id # 0
      BY <1>2 DEF ImportBegin, Authorized
    <2>2. rootLive /\ Top.id \in Nat
      BY <2>1, AuthorizedFacts, RevFacts, InvFacts
    <2> QED BY <2>1, <2>2, BeginRev DEF Begun
  <1> QED BY <1>1, <1>2

LEMMA InvokedRev ==
    ASSUME RevInv, LeaseInv', NEW p \in Providers, RootInvoke(p) \/ ImportInvoke(p)
    PROVE  RevInv' /\ Onward
    BY InvokeRev DEF RootInvoke, HasRoot, Idle, ImportInvoke

LEMMA QuietRev ==
    ASSUME RevInv, LeaseInv',
           UNCHANGED <<tickets, ctl, activeRoot, rootLive, watches>>
    PROVE  RevInv' /\ Onward
  <1>1. RootAuthority' /\ StackAuthority(ctl', tickets)
    BY RevFacts DEF RootAuthority
  <1> QED BY <1>1, StillStep DEF KeepsRefreshes, KeepsAbandons

LEMMA NextRev ==
    ASSUME RevInv, [Next]_vars
    PROVE  RevInv' /\ (Onward \/ Begun)
  <1>1. LeaseInv'
    BY RevFacts, NextLease
  <1>2. CASE HostStep
    BY <1>1, <1>2, AdmitRootRev, DropRootRev, DrainCancelledRev, ShutdownRev, BegunRev,
       InvokedRev, RootPollRev, RootCancelRev, RootReleaseRev DEF HostStep
  <1>3. CASE PluginStep
    BY <1>1, <1>3, BegunRev, InvokedRev, ImportPollRev, ImportCancelRev, SubscribeRev,
       InvokeReturnRev, ReplyPendingRev, ReplyCancelledRev, ReplyOutcomeRev
       DEF PluginStep, Reply
  <1>4. CASE KernelStep
    <2>1. CASE Panic
      BY <1>1, <2>1, QuietRev DEF Panic, rootVars
    <2> QED BY <1>1, <1>4, <2>1, RootPollDoneRev, AbandonNextRev, ReleaseAbandonedRev,
               DrainAllNextRev, ImportPollDoneRev, CancelNextRev, SettleDoneRev,
               CancelEnterRev, BeginDoneRev, EnterDoneRev, DrainNextRev, DrainDoneRev
               DEF KernelStep
  <1>5. CASE UNCHANGED vars
    BY <1>1, <1>5, QuietRev DEF vars
  <1> QED BY <1>2, <1>3, <1>4, <1>5 DEF Next, Finished

LEMMA InitRev == Init => RevInv
  <1> SUFFICES ASSUME Init PROVE RevInv
    OBVIOUS
  <1>1. LeaseInv
    BY InitLease
  <1>2. ctl = <<>> /\ DOMAIN tickets = {} /\ Live = {} /\ watches = {} /\ ~rootLive
    BY DEF Init, Live
  <1>3. RecordsOK(tickets) /\ RevocationReaches(ctl, tickets) /\ FlagsAreExact(ctl, tickets)
    BY <1>2 DEF RecordsOK, RevocationReaches, FlagsAreExact
  <1>4. StackAuthority(ctl, tickets) /\ RootAuthority
    BY <1>2, AuthEmpty DEF RootAuthority
  <1>5. MapFollowsRoot
    BY <1>2 DEF MapFollowsRoot, SubscriptionsFollowTickets
  <1> QED BY <1>1, <1>3, <1>4, <1>5 DEF RevInv, RevocationIsUnderWay

LEMMA SpecRev == Spec => []RevInv
  <1>1. RevInv /\ [Next]_vars => RevInv'
    BY NextRev
  <1> QED BY <1>1, InitRev, PTL DEF Spec

-----------------------------------------------------------------------------
(* Tickets settle, for every set of providers and imports and however calls nest:
   success means a finished tree, the quiescence flags are exact whenever no reply
   is being settled, no ticket is orphaned and none that failed is subscribed. *)
THEOREM TicketsAlwaysSettle == Spec => []TicketsSettle
  <1>1. RevInv => TicketsSettle
    <2> SUFFICES ASSUME RevInv PROVE TicketsSettle
      OBVIOUS
    <2> USE RevFacts, InvFacts
    <2>1. ReadyIsQuiescent
      BY DEF ReadyIsQuiescent, RecordOK
    <2>2. QuiescenceIsExact
      <3>1. ctl = <<>> => \A d \in Live : IsExact(d, tickets)
        BY DEF FlagsAreExact, WillRefresh, Live
      <3> QED BY <3>1 DEF QuiescenceIsExact, Idle, IsExact
    <2>3. NoOrphans
      BY DEF NoOrphans, MapFollowsRoot, ForestOK, Live
    <2>4. SubscriptionsFollowTickets
      BY DEF MapFollowsRoot
    <2> QED BY <2>1, <2>2, <2>3, <2>4 DEF TicketsSettle
  <1> QED BY <1>1, SpecRev, PTL

(* Authority follows the forest: whoever acts with the host's authority acts for a
   root that is held and for calls that are undecided, all the way down the stack,
   and revocation has reached every ticket no loop has still to reach. *)
THEOREM AuthorityAlwaysFollows == Spec => []AuthorityFollowsTheForest
  <1>1. RevInv => AuthorityFollowsTheForest
    <2> SUFFICES ASSUME RevInv PROVE AuthorityFollowsTheForest
      OBVIOUS
    <2> USE RevFacts, InvFacts
    <2>1. RevocationInherited
      <3> SUFFICES ASSUME Idle, NEW id \in Live, tickets[id].parent # 0,
                          IsRevoked(tickets[tickets[id].parent])
                   PROVE  tickets[id].cancelled \/ tickets[id].quiescent
        BY DEF RevocationInherited
      <3>1. tickets[id].parent \in DOMAIN tickets
        BY DEF MapFollowsRoot, Live
      <3>2. ~WillCancel(id, tickets[id].parent, ctl)
        BY DEF WillCancel, Idle
      <3> QED BY <3>1, <3>2 DEF RevocationReaches, Live
    <2>2. AuthorityIsLive
      <3> SUFFICES ASSUME Authorized, NEW i \in 1..Len(ctl), ctl[i].id # 0
                   PROVE  /\ rootLive /\ activeRoot # 0
                          /\ ctl[i].id \in Live
                          /\ tickets[ctl[i].id].logical = "Pending"
                          /\ ~tickets[ctl[i].id].cancelled
        BY AuthorizedFacts DEF AuthorityIsLive, Authorized
      <3>1. rootLive /\ activeRoot # 0 /\ BelowUndecided(ctl, Len(ctl), tickets)
        BY AuthorizedFacts DEF Authorized
      <3>2. FrameOK(ctl[i], tickets)
        BY DEF StackOK
      <3> QED BY <3>1, <3>2 DEF BelowUndecided, Undecided, FrameOK, Live
    <2>3. RootOutlivesTickets
      BY DEF RootOutlivesTickets, MapFollowsRoot
    <2> QED BY <2>1, <2>2, <2>3 DEF AuthorityFollowsTheForest, RevInv
  <1> QED BY <1>1, SpecRev, PTL

(* No step takes back an outcome, wakes a quiescent ticket or forgets one that may
   still run. *)
THEOREM OutcomesStayFinal == Spec => OutcomesAreFinal
  <1>1. RevInv /\ [Next]_vars => [LeaseIsKept /\ OutcomeStays]_vars
    <2> SUFFICES ASSUME RevInv, [Next]_vars PROVE LeaseIsKept /\ OutcomeStays
      OBVIOUS
    <2>1. CASE Onward
      <3>1. PICK c : Moves(tickets, tickets', c)
        BY <2>1 DEF Onward
      <3>2. LeaseIsKept
        BY <3>1 DEF LeaseIsKept, Moves, Live
      <3>3. OutcomeStays
        BY <3>1 DEF OutcomeStays, Moves, Advances, Live
      <3> QED BY <3>2, <3>3
    <2>2. CASE Begun
      <3>1. /\ Live' = Live \cup {nextTicket} /\ nextTicket \notin Live
            /\ \A d \in Live : tickets'[d] = tickets[d]
        BY <2>2, RevFacts, InvFacts DEF Begun, Begin, Live
      <3>2. \A d \in Live : tickets[d].delivered => tickets[d].result = "none"
        BY RevFacts DEF RecordOK
      <3> QED BY <3>1, <3>2 DEF LeaseIsKept, OutcomeStays
    <2> QED BY <2>1, <2>2, NextRev
  <1> QED BY <1>1, SpecRev, PTL DEF Spec, OutcomesAreFinal

-----------------------------------------------------------------------------
(* The refinement: tickets, calls and cancellations implement the leases. *)

Busy == {tickets[id].provider : id \in {d \in Live : ~tickets[d].quiescent}}

(* Only three operations touch the root. *)
LEMMA RootSteps ==
    ASSUME [Next]_vars
    PROVE  AdmitRoot \/ DropRoot \/ ReleaseAbandoned
           \/ UNCHANGED <<activeRoot, rootLive, nextRoot>>
  <1>1. HostStep => AdmitRoot \/ DropRoot \/ UNCHANGED rootVars
    BY DEF HostStep, DrainCancelled, Shutdown, RootBegin, Begin, RootInvoke, Invoke,
           RootPoll, RootCancel, RootRelease, rootVars
  <1>2. PluginStep => UNCHANGED rootVars
    BY Zenon DEF PluginStep, ImportBegin, Begin, ImportInvoke, Invoke, ImportPoll,
           ImportCancel, Subscribe, InvokeReturn, Reply, ReplyPending,
           ReplyCancelled, ReplyOutcome, rootVars
  <1>3. KernelStep => ReleaseAbandoned \/ UNCHANGED rootVars
    BY DEF KernelStep, RootPollDone, AbandonNext, DrainAllNext,
           ImportPollDone, CancelNext, SettleDone, CancelEnter, BeginDone,
           EnterDone, DrainNext, DrainDone, Panic, rootVars
  <1> QED BY <1>1, <1>2, <1>3 DEF Next, Finished, vars, rootVars

(* Moves of the map end leases and take none. *)
LEMMA OnwardEnds ==
    ASSUME Onward
    PROVE  Busy' \subseteq Busy
  <1>1. PICK c : Moves(tickets, tickets', c)
    BY DEF Onward
  <1>2. \A d \in Live' : ~tickets'[d].quiescent =>
          d \in Live /\ ~tickets[d].quiescent /\ tickets'[d].provider = tickets[d].provider
    BY <1>1 DEF Moves, Advances, Live
  <1> QED BY <1>2 DEF Busy

LEMMA LeaseStep ==
    ASSUME RevInv, [Next]_vars
    PROVE  [Lease!Next]_(Lease!vars)
  <1>1. /\ Lease!vars = <<activeRoot, rootLive, nextRoot, Busy>>
        /\ Lease!vars' = <<activeRoot', rootLive', nextRoot', Busy'>>
    BY DEF Lease!vars, Busy
  <1>2. Onward \/ Begun
    BY NextRev
  <1>3. CASE Begun
    <2>1. PICK p \in Providers, parent \in Nat : Begin(p, parent)
      BY <1>3 DEF Begun
    <2>2. /\ activeRoot # 0 /\ rootLive /\ UNCHANGED <<activeRoot, rootLive, nextRoot>>
          /\ \A d \in Live : tickets[d].provider = p => tickets[d].quiescent
      BY <1>3, <2>1 DEF Begun, Begin, CanDispatch, rootVars
    <2>3. p \notin Busy
      BY <2>2 DEF Busy
    <2>4. /\ Live' = Live \cup {nextTicket} /\ nextTicket \notin Live
          /\ tickets'[nextTicket] = NewRecord(p, parent)
          /\ \A d \in Live : tickets'[d] = tickets[d]
      BY <2>1, RevFacts, InvFacts DEF Begin, Live
    <2>5. ~tickets'[nextTicket].quiescent /\ tickets'[nextTicket].provider = p
      BY <2>4 DEF NewRecord
    <2>6. Busy' = Busy \cup {p}
      BY <2>4, <2>5 DEF Busy
    <2>7. Lease!Acquire(p)
      BY <2>2, <2>3, <2>6 DEF Lease!Acquire, Busy
    <2> QED BY <2>7 DEF Lease!Next
  <1>4. CASE AdmitRoot
    <2>1. Live = {} /\ Busy = {} /\ Busy' = Busy
      BY <1>4, RevFacts DEF AdmitRoot, MapFollowsRoot, Busy, Live
    <2>2. Lease!Admit
      BY <1>4, <2>1 DEF AdmitRoot, Lease!Admit, Busy
    <2> QED BY <2>2 DEF Lease!Next
  <1>5. CASE DropRoot
    <2>1. Busy' = Busy
      BY <1>5 DEF DropRoot, Busy, Live
    <2>2. Lease!Drop
      BY <1>5, <2>1 DEF DropRoot, HasRoot, Lease!Drop, Busy
    <2> QED BY <2>2 DEF Lease!Next
  <1>6. CASE Onward /\ UNCHANGED <<activeRoot, rootLive, nextRoot>>
    <2>1. Busy' \subseteq Busy
      BY <1>6, OnwardEnds
    <2>2. CASE Busy' = Busy
      BY <1>1, <1>6, <2>2
    <2>3. CASE Busy' # Busy
      <3>1. PICK S \in SUBSET Busy : S # {} /\ Busy' = Busy \ S
        BY <2>1, <2>3, Busy \ Busy' \in SUBSET Busy
      <3>2. Lease!End(S)
        BY <1>6, <3>1 DEF Lease!End, Busy
      <3>3. S \in SUBSET {tickets[id].provider : id \in {d \in Live : ~tickets[d].quiescent}}
        BY <3>1 DEF Busy
      <3> QED BY <3>2, <3>3 DEF Lease!Next
    <2> QED BY <2>2, <2>3
  <1>7. CASE ReleaseAbandoned /\ Onward
    <2>1. CASE RootOver(Unfinished(tickets))
      <3>1. /\ ~rootLive /\ activeRoot # 0 /\ activeRoot' = 0
            /\ UNCHANGED <<rootLive, nextRoot>>
            /\ Unfinished(tickets) = {}
        BY <1>7, <2>1 DEF ReleaseAbandoned, RootOver
      <3>2. Busy = {} /\ Busy' = Busy
        BY <1>7, <3>1, OnwardEnds DEF Unfinished, Busy, Live
      <3>3. Lease!Retire
        BY <3>1, <3>2 DEF Lease!Retire, Busy
      <3> QED BY <3>3 DEF Lease!Next
    <2>2. CASE ~RootOver(Unfinished(tickets))
      BY <1>6, <1>7, <2>2 DEF ReleaseAbandoned
    <2> QED BY <2>1, <2>2
  <1> QED BY <1>2, <1>3, <1>4, <1>5, <1>6, <1>7, RootSteps

(* The kernel keeps the promise of KernelLease: whatever tickets, calls and
   cancellations do inside, leases are only taken for a root that is held, by one
   call each, and a root is retired only when all of them have physically ended. *)
THEOREM KernelKeepsTheLease == Spec => ImplementsKernelLease
  <1>1. Init => Lease!Init
    BY DEF Init, Lease!Init, Live
  <1>2. RevInv /\ [Next]_vars => [Lease!Next]_(Lease!vars)
    BY LeaseStep
  <1> QED BY <1>1, <1>2, SpecRev, PTL DEF Spec, ImplementsKernelLease, Lease!Spec
=============================================================================
