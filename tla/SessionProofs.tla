------------------------- MODULE SessionProofs -------------------------
(***************************************************************************)
(* The sessions of a product and what stands between them and their models: *)
(* the runs of a session (SessionRuns), an instance of a plugin             *)
(* (OwnedState) and the calls of a model over HTTP (HttpModelWorker).       *)
(***************************************************************************)
EXTENDS SessionRuns, FiniteSetTheorems, SequenceTheorems, TLAPS

----------------------------------------------------------------------------
(***************************************************************************)
(* What holds in every state of SessionRuns, for any number of hosts, runs, *)
(* tool calls, deaths and failures: EffectsAreSafe, that no executed call   *)
(* is forgotten, made twice or unannounced.                                  *)
(* The argument: a host past the lock is alone, so that what its agent has   *)
(* copied out of the store is still what the store holds; the calls of a     *)
(* run are numbered on from its recorded ones, so that the next pending call *)
(* is one that was never executed; and a write either replaces exactly that  *)
(* stored snapshot or leaves it, so that the executed calls stay among its   *)
(* pending and recorded ones whatever fails on the way.                      *)
(*                                                                         *)
(* Then RunsEndOnce, how runs end: every step of a host leaves the store,    *)
(* advances the session or adds an event; each of the three keeps journal    *)
(* and session in agreement, because a host that says how a run ended began  *)
(* that run itself, and nobody else's copy knows of it yet.                  *)
(***************************************************************************)

(* Whatever was executed is pending or recorded in s.                        *)
Covers(s) == Range(effects) \subseteq s.pending \cup s.recorded

(* The calls a snapshot speaks of are of its run or of earlier ones.         *)
Bounded(s) == \A c \in s.pending \cup s.recorded : c.run <= s.run

CallsOf(s) == {c \in s.recorded : c.run = s.run}

(* The pending calls follow the recorded ones of the run in number.          *)
Numbered(s) ==
    LET used == Cardinality(CallsOf(s)) IN
    /\ \A c \in CallsOf(s) : c.k <= used
    /\ \E n \in 0..MaxCalls : s.pending = {[run |-> s.run, k |-> i] : i \in used + 1..used + n}

(* Where the agent's copy is the stored session.                             *)
Driving == {"accept", "abort", "turn", "model", "suspended", "waiting", "stopping", "answering",
            "begin", "execute", "finished"}

(* Where it has no pending call.                                             *)
Quiet == {"accept", "turn", "model", "suspended", "waiting", "answering"}

(* Where it makes the calls of one reply.                                    *)
Calling == {"calling", "begin", "execute", "record", "finished"}

(* Where a host is not past the lock.                                        *)
Off == {"idle", "down"}

(* Whoever is past the lock holds it; nobody else works on a copy.           *)
HoldersHaveTheLock ==
    \A h \in Hosts : IF pc[h] \in {"idle", "down"} THEN mine[h] = NoCopy ELSE lock = h

(* A snapshot the store holds or has held.                                   *)
Trails(s) ==
    /\ s.revision <= snap.revision
    /\ s.revision = snap.revision => s = snap

CachesTrail == \A h \in Hosts : cache[h] # NoCopy => Trails(cache[h])

(* The journal has the call's ToolStarted event.                             *)
Announced(c) ==
    \E i \in DOMAIN journal : journal[i] = [kind |-> "ToolStarted", run |-> c.run, k |-> c.k]

(* The copy a host works on, by what the host does next.                     *)
Copy(h) ==
    /\ pc[h] \in {"fence", "settle"} => mine[h] = cache[h] /\ mine[h] # NoCopy /\ mine[h].status = "Running"
    /\ pc[h] \in {"note", "failing", "lastword", "answer", "tell_cancelled"} => mine[h] # NoCopy /\ mine[h].run # 0
    /\ pc[h] \in Driving \cup Calling \cup {"cleanup"} =>
        /\ mine[h] # NoCopy
        /\ mine[h].run # 0
        /\ Bounded(mine[h])
        /\ mine[h].revision <= snap.revision
    /\ pc[h] \in Driving \cup Calling =>
        /\ mine[h].status = "Running" /\ snap.status = "Running"
        /\ mine[h].run = snap.run /\ mine[h].revision = snap.revision
    /\ pc[h] \in Driving => mine[h] = snap
    /\ pc[h] \in Calling \cup Quiet => Numbered(mine[h])
    /\ pc[h] \in Quiet => mine[h].pending = {}
    /\ pc[h] \in {"calling", "begin", "execute"} => mine[h].pending # {}
    /\ pc[h] \in Calling => Range(effects) \cap mine[h].pending = {}
    /\ pc[h] \in Calling => Covers(mine[h])
    /\ pc[h] = "cleanup" /\ mine[h].revision = snap.revision => Covers(mine[h])
    /\ pc[h] \in {"failing", "answer"} => Bounded(mine[h]) /\ mine[h].revision < snap.revision
    /\ pc[h] = "execute" => Announced(Due(h))

(* The inductive invariant.                                                  *)
IInv ==
    /\ TypeOK
    /\ HoldersHaveTheLock
    /\ CachesTrail
    /\ Covers(snap) /\ Bounded(snap)
    /\ EffectsHappenOnce
    /\ EffectsAreAnnounced
    /\ \A h \in Hosts : Copy(h)

----------------------------------------------------------------------------
(* Snapshots. *)
LEMMA CallsAreFinite == IsFiniteSet(Call)
  <1>1. IsFiniteSet(1..MaxRuns) /\ IsFiniteSet(1..MaxCalls)
    BY SessionAssumption, FS_Interval
  <1>2. IsFiniteSet((1..MaxRuns) \X (1..MaxCalls))
    BY <1>1, FS_Product
  <1>. DEFINE f == [p \in (1..MaxRuns) \X (1..MaxCalls) |-> [run |-> p[1], k |-> p[2]]]
  <1>3. f \in Surjection((1..MaxRuns) \X (1..MaxCalls), Call)
    <2>1. ASSUME NEW c \in Call PROVE \E p \in (1..MaxRuns) \X (1..MaxCalls) : f[p] = c
      <3>1. <<c.run, c.k>> \in (1..MaxRuns) \X (1..MaxCalls) /\ f[<<c.run, c.k>>] = c
        BY DEF Call
      <3> QED BY <3>1
    <2>2. f \in [(1..MaxRuns) \X (1..MaxCalls) -> Call]
      BY DEF Call
    <2> QED BY <2>1, <2>2 DEF Surjection
  <1> QED BY <1>2, <1>3, FS_Surjection

(* How many calls of its run a snapshot has recorded.                        *)
LEMMA UsedIsNat ==
    ASSUME NEW s \in Snapshot
    PROVE  /\ IsFiniteSet(CallsOf(s))
           /\ Cardinality(CallsOf(s)) \in Nat
  <1>1. CallsOf(s) \subseteq Call
    BY DEF CallsOf, Snapshot
  <1> QED BY <1>1, CallsAreFinite, FS_Subset, FS_CardinalityType

(* The next call to execute is numbered next. *)
LEMMA DueIsNext ==
    ASSUME NEW h \in Hosts, mine[h] \in Snapshot, Numbered(mine[h]), mine[h].pending # {}
    PROVE  /\ Due(h) = [run |-> mine[h].run, k |-> Cardinality(CallsOf(mine[h])) + 1]
           /\ Due(h) \in mine[h].pending
           /\ Due(h) \in Call
  <1>. DEFINE used == Cardinality(CallsOf(mine[h]))
              p == mine[h].pending
  <1>1. used \in Nat
    BY UsedIsNat
  <1>2. PICK n \in 0..MaxCalls : p = {[run |-> mine[h].run, k |-> i] : i \in used + 1..used + n}
    BY DEF Numbered
  <1>. HIDE DEF used
  <1>3. n # 0
    BY <1>1, <1>2
  <1>. DEFINE next == [run |-> mine[h].run, k |-> used + 1]
  <1>4. next \in p /\ \A d \in p : next.k <= d.k
    BY <1>1, <1>2, <1>3, SessionAssumption
  <1>5. \A c \in p : (\A d \in p : c.k <= d.k) => c = next
    <2>1. SUFFICES ASSUME NEW c \in p, \A d \in p : c.k <= d.k PROVE c = next
      OBVIOUS
    <2>2. PICK i \in used + 1..used + n : c = [run |-> mine[h].run, k |-> i]
      BY <1>2
    <2>3. c.k <= next.k
      BY <1>4, <2>1
    <2> QED BY <2>2, <2>3, <1>1, SessionAssumption
  <1>6. Due(h) \in p /\ \A d \in p : Due(h).k <= d.k
    <2>. HIDE DEF p, next
    <2> QED BY <1>4, Zenon DEF Due, p
  <1>7. Due(h) = next
    BY <1>5, <1>6
  <1>8. p \subseteq Call
    BY DEF Snapshot
  <1> QED BY <1>6, <1>7, <1>8 DEF used

----------------------------------------------------------------------------
(* What a write of the session does: it is refused, or it replaces a stored  *)
(* snapshot that the host's plugin has.                                      *)
LEMMA CurrentIsASnapshot ==
    ASSUME TypeOK, NEW h \in Hosts
    PROVE  Current(h) \in Snapshot
    BY DEF Current, TypeOK

(* A write of s can reach the store only as the successor of what is there,  *)
(* and of what the host's plugin has; it keeps a session Indeterminate.      *)
Stored(h, s) ==
    /\ snap' = Committed(s)
    /\ s.revision = snap.revision /\ Current(h) = snap
    /\ snap.status = "Indeterminate" => s.status = "Indeterminate"

(* What a write may leave behind, whatever it answers.                       *)
LEMMA WriteIsConditional ==
    ASSUME TypeOK, CachesTrail, NEW h \in Hosts, NEW s \in Snapshot, NEW result \in Results,
           Write(h, s, result)
    PROVE  /\ snap' = snap \/ Stored(h, s)
           /\ result = "ok" => Stored(h, s) /\ cache'[h] = snap'
           /\ cache' = [cache EXCEPT ![h] = cache'[h]]
           /\ cache'[h] \in {Current(h), snap', NoCopy}
           /\ cache'[h] = NoCopy \/ Trails(cache[h])'
           /\ snap.revision <= snap'.revision
           /\ snap' # snap => snap.revision < snap'.revision
           /\ snap' \in Snapshot
           /\ faults' \in Nat
  <1>. DEFINE saved == Committed(s)
  <1>1. saved \in Snapshot /\ saved.revision = s.revision + 1
    BY DEF Committed, Snapshot
  <1>2. snap \in Snapshot /\ snap.revision \in Nat /\ s.revision \in Nat
    BY DEF TypeOK, Snapshot
  <1>3. Current(h) \in Snapshot /\ Trails(Current(h))
    BY CurrentIsASnapshot, <1>2 DEF Current, Trails, CachesTrail
  <1>4. Accepts(Current(h), s) => s.revision = Current(h).revision
    BY DEF Accepts
  <1>5. Accepts(Current(h), s) /\ s.revision = snap.revision
          => Current(h) = snap /\ (snap.status = "Indeterminate" => s.status = "Indeterminate")
    BY <1>3, <1>4 DEF Accepts, Trails
  <1>6. faults \in Nat /\ cache \in [Hosts -> Snapshot \cup {NoCopy}]
    BY DEF TypeOK
  <1>7. CASE result = "domain" /\ ~Accepts(Current(h), s) /\ Loaded(h) /\ UNCHANGED <<snap, faults>>
    BY <1>7, <1>2, <1>3, <1>6 DEF Loaded, Trails, Results
  <1>8. CASE /\ Accepts(Current(h), s) /\ s.revision = snap.revision
             /\ result = "ok"
             /\ snap' = saved /\ cache' = [cache EXCEPT ![h] = saved]
             /\ UNCHANGED faults
    BY <1>8, <1>1, <1>2, <1>5, <1>6 DEF Trails, Stored
  <1>9. CASE /\ Accepts(Current(h), s) /\ s.revision # snap.revision
             /\ result = "domain"
             /\ cache' = [cache EXCEPT ![h] = CopyAfterFailure(s)]
             /\ UNCHANGED <<snap, faults>>
    BY <1>9, <1>2, <1>6 DEF CopyAfterFailure
  <1>10. CASE /\ Accepts(Current(h), s) /\ faults < MaxFaults
              /\ result \in {"domain", "kernel"}
              /\ snap' \in {snap} \cup (IF s.revision = snap.revision THEN {saved} ELSE {})
              /\ cache' = [cache EXCEPT ![h] = CopyAfterFailure(s)]
              /\ faults' = faults + 1
    BY <1>10, <1>1, <1>2, <1>5, <1>6 DEF CopyAfterFailure, Stored
  <1> QED BY <1>7, <1>8, <1>9, <1>10 DEF Write

(* An append to the journal adds its event or nothing.                       *)
LEMMA JournalGrows ==
    ASSUME TypeOK, NEW kind, NEW run, NEW k, NEW result \in Results,
           [kind |-> kind, run |-> run, k |-> k] \in Event,
           Journalled(kind, run, k, result)
    PROVE  /\ journal' = journal \/ journal' = Append(journal, [kind |-> kind, run |-> run, k |-> k])
           /\ result = "ok" => journal' = Append(journal, [kind |-> kind, run |-> run, k |-> k])
           /\ journal' \in Seq(Event) /\ faults' \in Nat
  <1>. DEFINE e == [kind |-> kind, run |-> run, k |-> k]
  <1>1. journal \in Seq(Event) /\ faults \in Nat
    BY DEF TypeOK
  <1>2. Append(journal, e) \in Seq(Event)
    BY <1>1
  <1>. HIDE DEF e
  <1> QED BY <1>1, <1>2 DEF Journalled, Results, e

----------------------------------------------------------------------------
(* Types.                                                                    *)
LEMMA LeaveTypes ==
    ASSUME TypeOK, NEW h \in Hosts, NEW label \in Labels, Leave(h, label)
    PROVE  /\ pc' \in [Hosts -> Labels] /\ lock' \in Hosts \cup {NoOne}
           /\ marked' \in [Hosts -> BOOLEAN] /\ turns' \in [Hosts -> Nat]
           /\ outcome' \in [Hosts -> {"none", "ok", "soft", "hard", "cancelled"}]
           /\ mine' \in [Hosts -> Snapshot \cup {NoCopy}]
    BY DEF TypeOK, Leave, Go

(* ... because a step failed.                                                *)
LEMMA FailsTypes ==
    ASSUME TypeOK, NEW h \in Hosts, Fails(h)
    PROVE  /\ pc' \in [Hosts -> Labels] /\ lock' \in Hosts \cup {NoOne}
           /\ marked' \in [Hosts -> BOOLEAN] /\ turns' \in [Hosts -> Nat]
           /\ outcome' \in [Hosts -> {"none", "ok", "soft", "hard", "cancelled"}]
           /\ mine' \in [Hosts -> Snapshot \cup {NoCopy}]
  <1>1. "idle" \in Labels /\ "down" \in Labels
    BY DEF Labels
  <1>2. Leave(h, "idle") \/ Leave(h, "down")
    BY DEF Fails
  <1> QED BY <1>1, <1>2, LeaveTypes

(* A host that goes on, and one whose graph ends.                            *)
LEMMA GoTypes ==
    ASSUME TypeOK, NEW h \in Hosts, NEW label \in Labels, Go(h, label)
    PROVE  pc' \in [Hosts -> Labels]
  <1>1. pc \in [Hosts -> Labels]
    BY DEF TypeOK
  <1> QED BY <1>1, Zenon DEF Go

LEMMA EndTypes ==
    ASSUME TypeOK, NEW h \in Hosts, NEW label \in Labels,
           NEW how \in {"none", "ok", "soft", "hard", "cancelled"}, End(h, how, label)
    PROVE  /\ pc' \in [Hosts -> Labels]
           /\ outcome' \in [Hosts -> {"none", "ok", "soft", "hard", "cancelled"}]
  <1>1. outcome \in [Hosts -> {"none", "ok", "soft", "hard", "cancelled"}]
    BY DEF TypeOK
  <1>2. outcome' \in [Hosts -> {"none", "ok", "soft", "hard", "cancelled"}]
    BY <1>1, Zenon DEF End
  <1> QED BY <1>2, GoTypes, Zenon DEF End

(* The outcomes of a call in the agent: it goes on, or the graph ends. *)
LEMMA AfterCases ==
    ASSUME NEW h \in Hosts, NEW result \in Results, NEW next, After(h, result, next)
    PROVE  \/ result = "ok" /\ pc' = [pc EXCEPT ![h] = next] /\ outcome' = outcome
           \/ /\ result = "domain" /\ pc' = [pc EXCEPT ![h] = Pumped(h)]
              /\ outcome' = [outcome EXCEPT ![h] = "hard"]
           \/ /\ result = "kernel" /\ pc' = [pc EXCEPT ![h] = "cleanup"]
              /\ outcome' = [outcome EXCEPT ![h] = "hard"]
    BY DEF After, Go, End, Results

(* Where an ended graph goes on.                                             *)
LEMMA PumpedIsALabel ==
    ASSUME NEW h PROVE Pumped(h) \in {"finish", "ended"} /\ Pumped(h) \in Labels
    BY DEF Pumped, Labels

(* The types after a call of the agent.                                      *)
LEMMA AfterTypes ==
    ASSUME TypeOK, NEW h \in Hosts, NEW result \in Results, NEW next \in Labels, After(h, result, next)
    PROVE  /\ pc' \in [Hosts -> Labels]
           /\ outcome' \in [Hosts -> {"none", "ok", "soft", "hard", "cancelled"}]
  <1>1. "cleanup" \in Labels
    BY DEF Labels
  <1>2. /\ pc' \in {[pc EXCEPT ![h] = next], [pc EXCEPT ![h] = Pumped(h)], [pc EXCEPT ![h] = "cleanup"]}
        /\ outcome' \in {outcome, [outcome EXCEPT ![h] = "hard"]}
    BY AfterCases
  <1>3. Pumped(h) \in Labels
    BY PumpedIsALabel
  <1>4. PICK label \in Labels : pc' = [pc EXCEPT ![h] = label]
    BY <1>1, <1>2, <1>3, Zenon
  <1>5. pc \in [Hosts -> Labels] /\ outcome \in [Hosts -> {"none", "ok", "soft", "hard", "cancelled"}]
    BY DEF TypeOK
  <1>6. pc' \in [Hosts -> Labels]
    BY <1>4, <1>5, Zenon
  <1>7. outcome' \in [Hosts -> {"none", "ok", "soft", "hard", "cancelled"}]
    BY <1>2, <1>5, Zenon
  <1> QED BY <1>6, <1>7

(* The empty lock file is a marker.                                          *)
LEMMA ClearedIsAMarker == Cleared \in Marker
    BY SessionAssumption DEF Cleared, Marker

(* What a cut-off writing of the marker leaves is a marker.                  *)
LEMMA TornTypes ==
    ASSUME TypeOK, NEW h \in Hosts, Copy(h)
    PROVE  Torn(h) \subseteq Marker
  <1>1. pc[h] = "fence" => mine[h].run \in 0..MaxRuns
    BY DEF TypeOK, Copy, Snapshot
  <1>2. Current(h).run \in 0..MaxRuns
    BY CurrentIsASnapshot DEF Snapshot
  <1>3. marker \in Marker /\ Cleared \in Marker /\ (\A r \in 0..MaxRuns : Owner(r) \in Marker /\ Recovery(r) \in Marker)
    BY SessionAssumption DEF TypeOK, Marker, Cleared, Owner, Recovery
  <1> QED BY <1>1, <1>2, <1>3, SessionAssumption DEF Torn

(* Reconciling one call gives a snapshot.                                    *)
LEMMA ReconciledIsASnapshot ==
    ASSUME NEW s \in Snapshot, s.run # 0, NEW c \in s.pending
    PROVE  Reconciled(s, c) \in Snapshot
  <1>1. c \in Call /\ s.pending \ {c} \in SUBSET Call /\ s.recorded \cup {c} \in SUBSET Call
    BY DEF Snapshot
  <1>2. (IF s.pending = {c} THEN "Running" ELSE s.status) \in Statuses
    BY DEF Snapshot, Statuses
  <1>. DEFINE T == [status: Statuses, run: 0..MaxRuns, pending: SUBSET Call, recorded: SUBSET Call,
                    revision: Nat]
              a == [s EXCEPT !.pending = s.pending \ {c}]
              b == [a EXCEPT !.recorded = s.recorded \cup {c}]
              d == [b EXCEPT !.revision = s.revision + 1]
              e == [d EXCEPT !.status = IF s.pending = {c} THEN "Running" ELSE s.status]
  <1>3. s \in T /\ s.revision + 1 \in Nat
    BY DEF Snapshot
  <1>4. a \in T
    BY <1>1, <1>3
  <1>5. b \in T
    BY <1>1, <1>4
  <1>6. d \in T
    BY <1>3, <1>5
  <1>7. e \in T /\ e.run = s.run
    BY <1>2, <1>3, <1>6
  <1>8. e = Reconciled(s, c)
    BY DEF Reconciled
  <1>. HIDE DEF e
  <1> QED BY <1>7, <1>8 DEF Snapshot

(* A reconciliation keeps the types.                                         *)
LEMMA ReconcileTypes ==
    ASSUME TypeOK, Bounded(snap), Reconcile
    PROVE  TypeOK'
  <1>1. snap.pending # {} => snap.run # 0
    BY SessionAssumption DEF Bounded, TypeOK, Snapshot, Call
  <1>. PICK c \in snap.pending : snap' = Reconciled(snap, c)
    BY DEF Reconcile
  <1>2. snap' \in Snapshot
    BY <1>1, ReconciledIsASnapshot DEF TypeOK
  <1>3. snap.run \in 1..MaxRuns
    BY <1>1, SessionAssumption DEF TypeOK, Snapshot
  <1>4. resumed' \subseteq 1..MaxRuns
    BY <1>3 DEF TypeOK, Reconcile
  <1> QED BY <1>2, <1>4 DEF TypeOK, Reconcile, control

(* Only a host that is down starts.                                          *)
LEMMA StartsOff ==
    ASSUME NEW h \in Hosts, Start(h) PROVE pc[h] \in Off
    BY DEF Start, Off

(* Types: the steps that write no session and run no call.                   *)
LEMMA TypesStayPlain ==
    ASSUME TypeOK, Bounded(snap), NEW h \in Hosts, Copy(h),
           \/ Start(h) \/ TakeLock(h) \/ Examine(h) \/ Fence(h) \/ Unmark(h) \/ Suspend(h) \/ Turn(h)
           \/ ModelFails(h) \/ Cancel(h) \/ Finish(h) \/ Release(h) \/ MarkAdmitted(h) \/ Kill(h) \/ Abandon(h)
    PROVE  TypeOK'
  <1>1. CASE Start(h)
    BY <1>1 DEF TypeOK, Start, Go, history, Labels
  <1>2. CASE TakeLock(h)
    BY <1>2 DEF TypeOK, TakeLock, Go, history, Labels
  <1>3. CASE Examine(h)
    <2>1. Current(h) \in Snapshot
      BY CurrentIsASnapshot
    <2>2. Examined(marker, Current(h)) \in Labels \cup {"error"}
      BY DEF Examined, Labels
    <2>3. CASE Fails(h)
      BY <1>3, <2>1, <2>2, <2>3, FailsTypes DEF TypeOK, Examine, Loaded, history
    <2>4. CASE Examined(marker, Current(h)) # "error" /\ Go(h, Examined(marker, Current(h)))
          /\ mine' = [mine EXCEPT ![h] = Current(h)]
          /\ UNCHANGED <<lock, marked, outcome, turns>>
      BY <1>3, <2>1, <2>2, <2>4 DEF TypeOK, Examine, Loaded, Go, history
    <2> QED BY <1>3, <2>3, <2>4 DEF Examine, RefuseRun
  <1>4. CASE Fence(h)
    BY <1>4, TornTypes DEF TypeOK, Fence, Go, history, Labels, Torn
  <1>5. CASE Unmark(h)
    BY <1>5, ClearedIsAMarker DEF TypeOK, Unmark, Go, history, Labels
  <1>6. CASE Suspend(h)
    BY <1>6 DEF TypeOK, Suspend, Go, history, Labels
  <1>7. CASE Turn(h)
    <2>1. "model" \in Labels /\ "stopping" \in Labels
      BY DEF Labels
    <2>2. CASE /\ End(h, "soft", "stopping") /\ UNCHANGED faults
      BY <1>7, <2>1, <2>2 DEF TypeOK, Turn, End, Go, history
    <2>3. ASSUME NEW result \in Results, Unrecorded(result), After(h, result, "model")
          PROVE  TypeOK'
      BY <1>7, <2>1, <2>3, AfterTypes DEF TypeOK, Turn, Unrecorded, history
    <2> QED BY <1>7, <2>2, <2>3 DEF Turn
  <1>8. CASE ModelFails(h)
    <2>1. PICK how \in {"soft", "hard"}, label \in {"stopping", "cleanup", "finish"} : End(h, how, label)
      BY <1>8, Zenon DEF ModelFails
    <2>2. label \in Labels /\ how \in {"none", "ok", "soft", "hard", "cancelled"}
      BY ONLY <2>1 DEF Labels
    <2>3. /\ pc' \in [Hosts -> Labels]
          /\ outcome' \in [Hosts -> {"none", "ok", "soft", "hard", "cancelled"}]
      BY <2>1, <2>2, EndTypes, Zenon
    <2> QED BY <1>8, <2>3, Zenon DEF TypeOK, ModelFails, history
  <1>9. CASE Cancel(h)
    BY <1>9 DEF TypeOK, Cancel, Go, End, Pumped, history, Labels
  <1>10. CASE Finish(h)
    <2>1. CASE Fails(h)
      BY <1>10, <2>1, FailsTypes DEF TypeOK, Finish, history
    <2>2. CASE (Go(h, "clear") \/ Go(h, "record_cancelled")) /\ UNCHANGED locals
      BY <1>10, <2>2 DEF TypeOK, Finish, Go, locals, history, Labels
    <2> QED BY <1>10, <2>1, <2>2 DEF Finish
  <1>11. CASE Release(h)
    <2>1. "idle" \in Labels /\ Leave(h, "idle")
      BY <1>11 DEF Release, Labels
    <2> QED BY <1>11, <2>1, LeaveTypes, ClearedIsAMarker DEF TypeOK, Release, history
  <1>12. CASE MarkAdmitted(h)
    BY <1>12, CurrentIsASnapshot DEF TypeOK, MarkAdmitted, Loaded, Go, history, Labels, Marker, Owner, Snapshot
  <1>13. CASE Kill(h)
    <2>1. "down" \in Labels /\ Leave(h, "down")
      BY <1>13 DEF Kill, Labels
    <2>2. marker' \in Marker
      BY <1>13, TornTypes DEF Kill
    <2>3. cache' \in [Hosts -> Snapshot \cup {NoCopy}] /\ kills' \in Nat
      BY <1>13 DEF TypeOK, Kill
    <2>4. /\ pc' \in [Hosts -> Labels] /\ lock' \in Hosts \cup {NoOne}
          /\ marked' \in [Hosts -> BOOLEAN] /\ turns' \in [Hosts -> Nat]
          /\ outcome' \in [Hosts -> {"none", "ok", "soft", "hard", "cancelled"}]
          /\ mine' \in [Hosts -> Snapshot \cup {NoCopy}]
      BY <2>1, LeaveTypes
    <2> QED BY <1>13, <2>2, <2>3, <2>4, Zenon DEF TypeOK, Kill
  <1>14. CASE Abandon(h)
    <2>1. marker' \in Marker
      BY <1>14, TornTypes DEF Abandon
    <2>2. faults' \in Nat
      BY <1>14 DEF TypeOK, Abandon
    <2>3. /\ pc' \in [Hosts -> Labels] /\ lock' \in Hosts \cup {NoOne}
          /\ marked' \in [Hosts -> BOOLEAN] /\ turns' \in [Hosts -> Nat]
          /\ outcome' \in [Hosts -> {"none", "ok", "soft", "hard", "cancelled"}]
          /\ mine' \in [Hosts -> Snapshot \cup {NoCopy}]
      BY <1>14, FailsTypes DEF Abandon
    <2> QED BY <1>14, <2>1, <2>2, <2>3, Zenon DEF TypeOK, Abandon, history
  <1> QED BY <1>1, <1>2, <1>3, <1>4, <1>5, <1>6, <1>7, <1>8, <1>9, <1>10, <1>11, <1>12, <1>13, <1>14

(* Types: a write of the session.                                            *)
LEMMA WriteTypes ==
    ASSUME TypeOK, CachesTrail, NEW h \in Hosts, NEW s \in Snapshot, NEW result \in Results,
           Write(h, s, result)
    PROVE  /\ snap' \in Snapshot /\ faults' \in Nat
           /\ cache' \in [Hosts -> Snapshot \cup {NoCopy}]
  <1>1. /\ snap' \in Snapshot /\ faults' \in Nat
        /\ cache' = [cache EXCEPT ![h] = cache'[h]]
        /\ cache'[h] \in {Current(h), snap', NoCopy}
    BY WriteIsConditional
  <1>2. Current(h) \in Snapshot
    BY CurrentIsASnapshot
  <1>3. cache'[h] \in Snapshot \cup {NoCopy}
    BY <1>1, <1>2
  <1>. DEFINE x == cache'[h]
  <1>4. cache' = [cache EXCEPT ![h] = x] /\ x \in Snapshot \cup {NoCopy}
    BY <1>1, <1>3
  <1>. HIDE DEF x
  <1>5. cache' \in [Hosts -> Snapshot \cup {NoCopy}]
    BY <1>4 DEF TypeOK
  <1> QED BY <1>1, <1>5

(* A snapshot with another status.                                           *)
LEMMA StatusChanges ==
    ASSUME NEW s \in Snapshot, NEW status \in Statuses \ {"Running"}
    PROVE  [s EXCEPT !.status = status] \in Snapshot
    BY DEF Snapshot

(* What recovery makes of a run.                                             *)
LEMMA InterruptedIsAStatus == \A s : Interrupted(s) \in Statuses \ {"Running"}
    BY DEF Interrupted, Statuses

(* The snapshot of a new run.                                                *)
LEMMA BegunIsASnapshot ==
    ASSUME NEW s \in Snapshot, s.run < MaxRuns
    PROVE  Begun(s) \in Snapshot
  <1>. DEFINE T == [status: Statuses, run: 0..MaxRuns, pending: SUBSET Call, recorded: SUBSET Call,
                    revision: Nat]
              a == [s EXCEPT !.run = s.run + 1]
              b == [a EXCEPT !.status = "Running"]
  <1>1. s \in T /\ s.run + 1 \in 0..MaxRuns /\ s.run + 1 # 0
    BY SessionAssumption DEF Snapshot
  <1>2. a \in T /\ a.run # 0
    BY <1>1
  <1>3. b \in T /\ b.run # 0
    BY <1>2 DEF Statuses
  <1>4. b = Begun(s)
    BY DEF Begun
  <1>. HIDE DEF b
  <1> QED BY <1>3, <1>4 DEF Snapshot

(* The snapshot of a failed run.                                             *)
LEMMA FailedIsASnapshot ==
    ASSUME NEW h \in Hosts, mine[h] \in Snapshot
    PROVE  Failed(h) \in Snapshot
    BY StatusChanges DEF Failed, Statuses

(* The calls of a reply. *)
LEMMA FreshCalls ==
    ASSUME NEW h \in Hosts, mine[h] \in Snapshot, NEW n \in 1..MaxCalls, Fresh(h, n) \subseteq Call
    PROVE  [mine[h] EXCEPT !.pending = Fresh(h, n)] \in Snapshot
    BY DEF Snapshot

(* The snapshot with the result of the call.                                 *)
LEMMA ExecutedIsASnapshot ==
    ASSUME NEW h \in Hosts, mine[h] \in Snapshot, NEW c \in Call
    PROVE  [mine[h] EXCEPT !.pending = @ \ {c}, !.recorded = @ \cup {c}] \in Snapshot
  <1>. DEFINE T == [status: Statuses, run: 0..MaxRuns, pending: SUBSET Call, recorded: SUBSET Call,
                    revision: Nat]
              a == [mine[h] EXCEPT !.pending = mine[h].pending \ {c}]
              b == [a EXCEPT !.recorded = mine[h].recorded \cup {c}]
  <1>1. mine[h] \in T /\ (mine[h].status = "Running" => mine[h].run # 0)
    BY DEF Snapshot
  <1>2. a \in T /\ a.status = mine[h].status /\ a.run = mine[h].run
    BY <1>1
  <1>3. b \in T /\ b.status = mine[h].status /\ b.run = mine[h].run
    BY <1>1, <1>2
  <1>4. b = [mine[h] EXCEPT !.pending = @ \ {c}, !.recorded = @ \cup {c}]
    OBVIOUS
  <1>. HIDE DEF b
  <1> QED BY <1>1, <1>3, <1>4 DEF Snapshot

(* A host's copy is a snapshot.                                              *)
LEMMA MineIsASnapshot ==
    ASSUME TypeOK, NEW h \in Hosts, mine[h] # NoCopy
    PROVE  mine[h] \in Snapshot
    BY DEF TypeOK

(* Types: recovery and the closing of a prompt.                              *)
LEMMA TypesStayRecovering ==
    ASSUME TypeOK, CachesTrail, NEW h \in Hosts, Copy(h),
           Settle(h) \/ Note(h) \/ RecordCancelled(h) \/ TellCancelled(h)
    PROVE  TypeOK'
  <1>0. {"note", "unmark", "clear", "tell_cancelled"} \subseteq Labels
    BY DEF Labels
  <1>1. CASE Settle(h)
    <2>1. mine[h] \in Snapshot
      BY <1>1, MineIsASnapshot DEF Settle, Copy
    <2>2. [mine[h] EXCEPT !.status = Interrupted(mine[h])] \in Snapshot
      BY <2>1, StatusChanges, InterruptedIsAStatus
    <2>3. PICK result \in Results :
            /\ Write(h, [mine[h] EXCEPT !.status = Interrupted(mine[h])], result)
            /\ \/ result = "ok" /\ Go(h, "note") /\ UNCHANGED locals
               \/ result # "ok" /\ Fails(h)
      BY <1>1 DEF Settle
    <2>4. /\ snap' \in Snapshot /\ faults' \in Nat
          /\ cache' \in [Hosts -> Snapshot \cup {NoCopy}]
      BY <2>2, <2>3, WriteTypes
    <2>5. CASE Go(h, "note") /\ UNCHANGED locals
      BY <1>0, <1>1, <2>4, <2>5 DEF TypeOK, Settle, Go, locals, history
    <2>6. CASE Fails(h)
      BY <1>1, <2>4, <2>6, FailsTypes DEF TypeOK, Settle, history
    <2> QED BY <2>3, <2>5, <2>6
  <1>2. CASE Note(h)
    <2>1. CASE Go(h, "unmark") /\ UNCHANGED <<journal, locals, faults>>
      BY <1>0, <1>2, <2>1 DEF TypeOK, Note, Go, locals, history
    <2>2. ASSUME NEW result \in Results, Journalled("Interrupted", mine[h].run, 0, result),
                 \/ result = "ok" /\ Go(h, "unmark") /\ UNCHANGED locals
                 \/ result # "ok" /\ Fails(h)
          PROVE  TypeOK'
      <3>1. mine[h] \in Snapshot /\ mine[h].run # 0
        BY <1>2, MineIsASnapshot DEF Note, Copy
      <3>2. [kind |-> "Interrupted", run |-> mine[h].run, k |-> 0] \in Event
        BY <3>1, SessionAssumption DEF Snapshot, Event
      <3>3. journal' \in Seq(Event) /\ faults' \in Nat
        BY <2>2, <3>2, JournalGrows
      <3>4. CASE Go(h, "unmark") /\ UNCHANGED locals
        BY <1>0, <1>2, <3>3, <3>4 DEF TypeOK, Note, Go, locals, history
      <3>5. CASE Fails(h)
        BY <1>2, <3>3, <3>5, FailsTypes DEF TypeOK, Note, history
      <3> QED BY <2>2, <3>4, <3>5
    <2> QED BY <1>2, <2>1, <2>2 DEF Note
  <1>3. CASE RecordCancelled(h)
    <2>1. CASE Loaded(h) /\ Fails(h) /\ UNCHANGED <<snap, faults>>
      BY <1>3, <2>1, CurrentIsASnapshot, FailsTypes DEF TypeOK, RecordCancelled, Loaded, history
    <2>2. ASSUME NEW result \in Results, Write(h, [Current(h) EXCEPT !.status = "Cancelled"], result),
                 \/ /\ result = "ok" /\ Go(h, "tell_cancelled")
                    /\ mine' = [mine EXCEPT ![h] = snap']
                    /\ UNCHANGED <<lock, marked, outcome, turns>>
                 \/ result # "ok" /\ Fails(h)
          PROVE  TypeOK'
      <3>1. [Current(h) EXCEPT !.status = "Cancelled"] \in Snapshot
        BY CurrentIsASnapshot, StatusChanges DEF Statuses
      <3>2. /\ snap' \in Snapshot /\ faults' \in Nat
            /\ cache' \in [Hosts -> Snapshot \cup {NoCopy}]
        BY <2>2, <3>1, WriteTypes
      <3>3. CASE Go(h, "tell_cancelled") /\ mine' = [mine EXCEPT ![h] = snap']
                 /\ UNCHANGED <<lock, marked, outcome, turns>>
        BY <1>0, <1>3, <3>2, <3>3 DEF TypeOK, RecordCancelled, Go, history
      <3>4. CASE Fails(h)
        BY <1>3, <3>2, <3>4, FailsTypes DEF TypeOK, RecordCancelled, history
      <3> QED BY <2>2, <3>3, <3>4
    <2> QED BY <1>3, <2>1, <2>2 DEF RecordCancelled
  <1>4. CASE TellCancelled(h)
    <2>1. PICK result \in Results :
            /\ Journalled("Cancelled", mine[h].run, 0, result)
            /\ \/ result = "ok" /\ Go(h, "clear") /\ UNCHANGED locals
               \/ result # "ok" /\ Fails(h)
      BY <1>4 DEF TellCancelled
    <2>2. mine[h] \in Snapshot /\ mine[h].run # 0
      BY <1>4, MineIsASnapshot DEF TellCancelled, Copy
    <2>3. [kind |-> "Cancelled", run |-> mine[h].run, k |-> 0] \in Event
      BY <2>2, SessionAssumption DEF Snapshot, Event
    <2>4. journal' \in Seq(Event) /\ faults' \in Nat
      BY <2>1, <2>3, JournalGrows
    <2>5. CASE Go(h, "clear") /\ UNCHANGED locals
      BY <1>0, <1>4, <2>4, <2>5 DEF TypeOK, TellCancelled, Go, locals, history
    <2>6. CASE Fails(h)
      BY <1>4, <2>4, <2>6, FailsTypes DEF TypeOK, TellCancelled, history
    <2> QED BY <2>1, <2>5, <2>6
  <1> QED BY <1>1, <1>2, <1>3, <1>4

(* Types: the agent.                                                         *)
LEMMA TypesStayAgent ==
    ASSUME TypeOK, CachesTrail, NEW h \in Hosts, Copy(h),
           \/ Prepare(h) \/ Accept(h) \/ Abort(h) \/ Reply(h) \/ Stop(h) \/ TellFailure(h) \/ Complete(h)
           \/ Answer(h) \/ SaveCalls(h) \/ StartTool(h) \/ Execute(h) \/ SaveResult(h) \/ EndTool(h)
    PROVE  TypeOK'
  <1>. DEFINE NextLabels == {"accept", "turn", "abort", "failing", "lastword", "answer", "answering", "calling",
                             "begin", "finished", "record", "execute", "stopping", "cleanup", "finish"}
  <1>a. NextLabels \subseteq Labels /\ Pumped(h) \in Labels
    BY PumpedIsALabel DEF Labels
  <1>b. ASSUME NEW kind, NEW k \in Nat, kind \in {"PromptAccepted", "ToolStarted", "ToolFinished", "Answer", "Failure"},
               pc[h] \in Driving \cup Calling \cup {"failing", "lastword", "answer"}
        PROVE  [kind |-> kind, run |-> mine[h].run, k |-> k] \in Event
    BY <1>b, MineIsASnapshot, SessionAssumption DEF Copy, Event, Snapshot
  <1>1. CASE Prepare(h)
    <2>1. CASE Loaded(h) /\ End(h, "hard", Pumped(h)) /\ UNCHANGED <<snap, mine, faults>>
      BY <1>1, <1>a, <2>1, CurrentIsASnapshot DEF TypeOK, Prepare, Loaded, End, Go, history
    <2>2. ASSUME Current(h).run < MaxRuns, NEW result \in Results, Write(h, Begun(Current(h)), result),
                 \/ result = "ok" /\ Go(h, "accept") /\ mine' = [mine EXCEPT ![h] = snap']
                    /\ UNCHANGED outcome
                 \/ result # "ok" /\ End(h, "hard", Pumped(h)) /\ UNCHANGED mine
          PROVE  TypeOK'
      <3>1. Begun(Current(h)) \in Snapshot
        BY <2>2, CurrentIsASnapshot, BegunIsASnapshot
      <3>2. /\ snap' \in Snapshot /\ faults' \in Nat
            /\ cache' \in [Hosts -> Snapshot \cup {NoCopy}]
        BY <2>2, <3>1, WriteTypes
      <3>3. /\ pc' \in [Hosts -> Labels]
            /\ outcome' \in [Hosts -> {"none", "ok", "soft", "hard", "cancelled"}]
        <4>1. CASE Go(h, "accept") /\ UNCHANGED outcome
          BY <1>a, <4>1, GoTypes DEF TypeOK
        <4>2. CASE End(h, "hard", Pumped(h))
          BY <1>a, <4>2, EndTypes
        <4> QED BY <2>2, <4>1, <4>2
      <3>4. mine' \in [Hosts -> Snapshot \cup {NoCopy}]
        <4>1. CASE mine' = [mine EXCEPT ![h] = snap']
          BY <3>2, <4>1, Zenon DEF TypeOK
        <4>2. CASE UNCHANGED mine
          BY <4>2, Zenon DEF TypeOK
        <4> QED BY <2>2, <4>1, <4>2
      <3>5. turns' \in [Hosts -> Nat]
        BY <1>1 DEF TypeOK, Prepare
      <3> QED BY <1>1, <3>2, <3>3, <3>4, <3>5, Zenon DEF TypeOK, Prepare, history
    <2> QED BY <1>1, <2>1, <2>2 DEF Prepare
  <1>2. CASE Accept(h)
    <2>1. mine[h] \in Snapshot /\ [kind |-> "PromptAccepted", run |-> mine[h].run, k |-> 0] \in Event
      BY <1>2, <1>b, MineIsASnapshot DEF Accept, Copy, Driving
    <2>2. journal' \in Seq(Event) /\ faults' \in Nat
      <3>1. ASSUME NEW result \in Results, Journalled("PromptAccepted", mine[h].run, 0, result)
            PROVE  journal' \in Seq(Event) /\ faults' \in Nat
        BY <2>1, <3>1, JournalGrows
      <3>2. CASE journal' = Append(journal, [kind |-> "PromptAccepted", run |-> mine[h].run, k |-> 0])
                 /\ faults' = faults + 1
        BY <2>1, <3>2 DEF TypeOK
      <3> QED BY <1>2, <3>1, <3>2 DEF Accept
    <2>3. Go(h, "turn") \/ Go(h, "abort")
      BY <1>2 DEF Accept
    <2>4. pc' \in [Hosts -> Labels]
      BY <1>a, <2>3, GoTypes
    <2> QED BY <1>2, <2>2, <2>4, Zenon DEF TypeOK, Accept, history
  <1>3. CASE Abort(h)
    <2>1. mine[h] \in Snapshot
      BY <1>3, MineIsASnapshot DEF Abort, Copy, Driving
    <2>2. /\ snap' \in Snapshot /\ faults' \in Nat
          /\ cache' \in [Hosts -> Snapshot \cup {NoCopy}]
      BY <1>3, <2>1, FailedIsASnapshot, WriteTypes DEF Abort
    <2> QED BY <1>3, <1>a, <2>2 DEF TypeOK, Abort, End, Go, history
  <1>4. CASE Reply(h)
    <2>1. mine[h] \in Snapshot
      BY <1>4, MineIsASnapshot DEF Reply, Copy, Driving
    <2>2. faults' \in Nat
      BY <1>4 DEF TypeOK, Reply, Unrecorded
    <2>3. ASSUME NEW n \in 1..MaxCalls, Fresh(h, n) \subseteq Call,
                 mine' = [mine EXCEPT ![h].pending = Fresh(h, n)], Go(h, "calling"), UNCHANGED outcome
          PROVE  TypeOK'
      <3>1. mine' = [mine EXCEPT ![h] = [mine[h] EXCEPT !.pending = Fresh(h, n)]]
        BY <2>3
      <3>2. mine' \in [Hosts -> Snapshot \cup {NoCopy}]
        <4>1. PICK s \in Snapshot : s = [mine[h] EXCEPT !.pending = Fresh(h, n)]
          BY <2>1, <2>3, FreshCalls
        <4>2. mine \in [Hosts -> Snapshot \cup {NoCopy}] /\ mine' = [mine EXCEPT ![h] = s]
          BY <3>1, <4>1, Zenon DEF TypeOK
        <4> QED BY ONLY <4>2
      <3>3. pc' \in [Hosts -> Labels]
        BY <1>a, <2>3, GoTypes
      <3>4. turns' \in [Hosts -> Nat]
        BY <1>4 DEF TypeOK, Reply
      <3> QED BY <1>4, <2>2, <2>3, <3>2, <3>3, <3>4, Zenon DEF TypeOK, Reply, history
    <2>4. CASE UNCHANGED mine /\ \/ \E how \in {"soft", "hard"} : End(h, how, "stopping")
                                 \/ End(h, "hard", "cleanup")
                                 \/ Go(h, "answering") /\ UNCHANGED outcome
      <3>1. turns' \in [Hosts -> Nat]
        BY <1>4 DEF TypeOK, Reply
      <3>2. /\ pc' \in [Hosts -> Labels]
            /\ outcome' \in [Hosts -> {"none", "ok", "soft", "hard", "cancelled"}]
        <4>1. CASE Go(h, "answering") /\ UNCHANGED outcome
          BY <1>a, <4>1, GoTypes DEF TypeOK
        <4>2. CASE \E how \in {"soft", "hard"} : End(h, how, "stopping")
          BY <1>a, <4>2, EndTypes
        <4>3. CASE End(h, "hard", "cleanup")
          BY <1>a, <4>3, EndTypes
        <4> QED BY <2>4, <4>1, <4>2, <4>3
      <3> QED BY <1>4, <2>2, <2>4, <3>1, <3>2 DEF TypeOK, Reply, history
    <2> QED BY <1>4, <2>3, <2>4 DEF Reply
  <1>5. CASE Stop(h)
    <2>1. PICK result \in Results :
            /\ Write(h, Failed(h), result)
            /\ IF pc[h] = "stopping" THEN After(h, result, "failing")
               ELSE End(h, "hard", IF result = "ok" THEN "lastword" ELSE Pumped(h))
      BY <1>5 DEF Stop
    <2>2. Failed(h) \in Snapshot
      BY <1>5, MineIsASnapshot, FailedIsASnapshot DEF Stop, Copy, Driving
    <2>3. /\ snap' \in Snapshot /\ faults' \in Nat
          /\ cache' \in [Hosts -> Snapshot \cup {NoCopy}]
      BY <2>1, <2>2, WriteTypes
    <2>4. /\ pc' \in [Hosts -> Labels]
          /\ outcome' \in [Hosts -> {"none", "ok", "soft", "hard", "cancelled"}]
      <3>1. CASE After(h, result, "failing")
        BY <1>a, <3>1, AfterTypes
      <3>2. CASE End(h, "hard", "lastword") \/ End(h, "hard", Pumped(h))
        BY <1>a, <3>2, EndTypes
      <3> QED BY <2>1, <3>1, <3>2
    <2> QED BY <1>5, <2>3, <2>4 DEF TypeOK, Stop, history
  <1>6. CASE TellFailure(h)
    <2>1. PICK result \in Results :
            /\ Journalled("Failure", mine[h].run, 0, result)
            /\ IF pc[h] = "failing" THEN After(h, result, Pumped(h)) ELSE End(h, "hard", Pumped(h))
      BY <1>6 DEF TellFailure
    <2>2. [kind |-> "Failure", run |-> mine[h].run, k |-> 0] \in Event
      BY <1>6, <1>b DEF TellFailure
    <2>3. journal' \in Seq(Event) /\ faults' \in Nat
      BY <2>1, <2>2, JournalGrows
    <2>4. /\ pc' \in [Hosts -> Labels]
          /\ outcome' \in [Hosts -> {"none", "ok", "soft", "hard", "cancelled"}]
      <3>1. CASE After(h, result, Pumped(h))
        BY <1>a, <3>1, AfterTypes
      <3>2. CASE End(h, "hard", Pumped(h))
        BY <1>a, <3>2, EndTypes
      <3> QED BY <2>1, <3>1, <3>2
    <2> QED BY <1>6, <2>3, <2>4 DEF TypeOK, TellFailure, history
  <1>7. CASE Complete(h)
    <2>1. PICK result \in Results :
            /\ Write(h, [mine[h] EXCEPT !.status = "Completed"], result)
            /\ After(h, result, "answer")
      BY <1>7 DEF Complete
    <2>2. [mine[h] EXCEPT !.status = "Completed"] \in Snapshot
      BY <1>7, MineIsASnapshot, StatusChanges DEF Complete, Copy, Driving, Statuses
    <2>3. /\ snap' \in Snapshot /\ faults' \in Nat
          /\ cache' \in [Hosts -> Snapshot \cup {NoCopy}]
      BY <2>1, <2>2, WriteTypes
    <2>4. /\ pc' \in [Hosts -> Labels]
          /\ outcome' \in [Hosts -> {"none", "ok", "soft", "hard", "cancelled"}]
      BY <1>a, <2>1, AfterTypes
    <2> QED BY <1>7, <2>3, <2>4 DEF TypeOK, Complete, history
  <1>8. CASE Answer(h)
    <2>1. PICK result \in Results :
            /\ Journalled("Answer", mine[h].run, 0, result)
            /\ \/ result = "ok" /\ End(h, "ok", Pumped(h))
               \/ result # "ok" /\ After(h, result, "finish")
      BY <1>8 DEF Answer
    <2>2. [kind |-> "Answer", run |-> mine[h].run, k |-> 0] \in Event
      BY <1>8, <1>b DEF Answer
    <2>3. journal' \in Seq(Event) /\ faults' \in Nat
      BY <2>1, <2>2, JournalGrows
    <2>4. /\ pc' \in [Hosts -> Labels]
          /\ outcome' \in [Hosts -> {"none", "ok", "soft", "hard", "cancelled"}]
      <3>1. CASE After(h, result, "finish")
        BY <1>a, <3>1, AfterTypes
      <3>2. CASE End(h, "ok", Pumped(h))
        BY <1>a, <3>2, EndTypes
      <3> QED BY <2>1, <3>1, <3>2
    <2> QED BY <1>8, <2>3, <2>4 DEF TypeOK, Answer, history
  <1>9. ASSUME NEW label \in Calling, NEW next \in NextLabels, Save(h, label, next)
        PROVE  TypeOK'
    <2>1. PICK result \in Results :
            /\ Write(h, mine[h], result)
            /\ mine' = [mine EXCEPT ![h] = IF result = "ok" THEN snap' ELSE @]
            /\ After(h, result, next)
      BY <1>9 DEF Save
    <2>2. mine[h] \in Snapshot
      BY <1>9, MineIsASnapshot DEF Save, Copy
    <2>3. /\ snap' \in Snapshot /\ faults' \in Nat
          /\ cache' \in [Hosts -> Snapshot \cup {NoCopy}]
      BY <2>1, <2>2, WriteTypes
    <2>4. /\ pc' \in [Hosts -> Labels]
          /\ outcome' \in [Hosts -> {"none", "ok", "soft", "hard", "cancelled"}]
      BY <1>a, <2>1, AfterTypes
    <2>5. mine' \in [Hosts -> Snapshot \cup {NoCopy}]
      BY <2>1, <2>2, <2>3 DEF TypeOK
    <2> QED BY <1>9, <2>3, <2>4, <2>5 DEF TypeOK, Save, history
  <1>10. CASE StartTool(h)
    <2>1. PICK result \in Results :
            Journalled("ToolStarted", mine[h].run, Due(h).k, result) /\ After(h, result, "execute")
      BY <1>10 DEF StartTool
    <2>2. Due(h).k \in Nat
      BY <1>10, MineIsASnapshot, DueIsNext, SessionAssumption DEF StartTool, Copy, Calling, Call
    <2>3. [kind |-> "ToolStarted", run |-> mine[h].run, k |-> Due(h).k] \in Event
      BY <1>10, <1>b, <2>2 DEF StartTool, Calling
    <2>4. journal' \in Seq(Event) /\ faults' \in Nat
      BY <2>1, <2>3, JournalGrows
    <2>5. /\ pc' \in [Hosts -> Labels]
          /\ outcome' \in [Hosts -> {"none", "ok", "soft", "hard", "cancelled"}]
      BY <1>a, <2>1, AfterTypes
    <2> QED BY <1>10, <2>4, <2>5 DEF TypeOK, StartTool, history
  <1>11. CASE Execute(h)
    <2>1. mine[h] \in Snapshot /\ Due(h) \in Call
      BY <1>11, MineIsASnapshot, DueIsNext DEF Execute, Copy, Calling
    <2>2. Append(effects, Due(h)) \in Seq(Call) /\ effects \in Seq(Call)
      BY <2>1 DEF TypeOK
    <2>3. ASSUME mine' = [mine EXCEPT ![h].pending = @ \ {Due(h)}, ![h].recorded = @ \cup {Due(h)}],
                 effects' = Append(effects, Due(h)), Go(h, "record"), UNCHANGED <<outcome, faults>>
          PROVE  TypeOK'
      <3>. DEFINE done == [mine[h] EXCEPT !.pending = @ \ {Due(h)}, !.recorded = @ \cup {Due(h)}]
      <3>1. done \in Snapshot
        BY <2>1, ExecutedIsASnapshot
      <3>2. mine' = [mine EXCEPT ![h] = done]
        BY <2>3 DEF TypeOK
      <3>. HIDE DEF done
      <3>3. mine' \in [Hosts -> Snapshot \cup {NoCopy}]
        BY <3>1, <3>2 DEF TypeOK
      <3> QED BY <1>11, <1>a, <2>2, <2>3, <3>3 DEF TypeOK, Execute, Go, history
    <2>4. CASE effects' \in {effects, Append(effects, Due(h))} /\ faults' = faults + 1
               /\ End(h, "hard", "cleanup") /\ UNCHANGED mine
      <3>1. effects' \in Seq(Call) /\ faults' \in Nat
        <4>1. effects' \in Seq(Call)
          BY <2>2, <2>4
        <4>2. faults' \in Nat
          BY <2>4 DEF TypeOK
        <4> QED BY <4>1, <4>2
      <3>2. /\ pc' \in [Hosts -> Labels]
            /\ outcome' \in [Hosts -> {"none", "ok", "soft", "hard", "cancelled"}]
        BY <1>a, <2>4 DEF TypeOK, End, Go
      <3> QED BY <1>11, <2>4, <3>1, <3>2 DEF TypeOK, Execute, history
    <2> QED BY <1>11, <2>3, <2>4 DEF Execute
  <1>12. CASE EndTool(h)
    <2>. DEFINE k == Cardinality({c \in mine[h].recorded : c.run = mine[h].run})
                next == IF mine[h].pending = {} THEN "turn" ELSE "begin"
    <2>1. PICK result \in Results :
            Journalled("ToolFinished", mine[h].run, k, result) /\ After(h, result, next)
      BY <1>12 DEF EndTool
    <2>2. k \in Nat
      BY <1>12, MineIsASnapshot, UsedIsNat DEF EndTool, Copy, Calling, CallsOf
    <2>3. next \in Labels
      BY <1>a
    <2>. HIDE DEF k, next
    <2>4. [kind |-> "ToolFinished", run |-> mine[h].run, k |-> k] \in Event
      BY <1>12, <1>b, <2>2 DEF EndTool, Calling
    <2>5. journal' \in Seq(Event) /\ faults' \in Nat
      BY <2>1, <2>4, JournalGrows
    <2>6. /\ pc' \in [Hosts -> Labels]
          /\ outcome' \in [Hosts -> {"none", "ok", "soft", "hard", "cancelled"}]
      BY <2>1, <2>3, AfterTypes
    <2> QED BY <1>12, <2>5, <2>6 DEF TypeOK, EndTool, history
  <1>13. CASE SaveCalls(h)
    BY <1>9, <1>13 DEF SaveCalls, Calling
  <1>14. CASE SaveResult(h)
    BY <1>9, <1>14 DEF SaveResult, Calling
  <1> QED BY <1>1, <1>2, <1>3, <1>4, <1>5, <1>6, <1>7, <1>8, <1>10, <1>11, <1>12, <1>13, <1>14

----------------------------------------------------------------------------
(* A step is of one host, which holds the lock unless it waits for it.       *)
Leaves(h) == Leave(h, "idle") \/ Leave(h, "down")

(* ... and one that goes on: it touches no other host.                       *)
Moves(h) ==
    /\ pc[h] \notin Off
    /\ \E label \in Labels \ Off : pc' = [pc EXCEPT ![h] = label]
    /\ lock' = lock
    /\ \E copy : mine' = [mine EXCEPT ![h] = copy]

(* A failing step leaves.                                                    *)
LEMMA FailsLeaves == ASSUME NEW h \in Hosts, Fails(h) PROVE Leaves(h)
    BY DEF Fails, Leaves

(* A call of the agent is a step of its host.                                *)
LEMMA AfterMoves ==
    ASSUME NEW h \in Hosts, NEW result \in Results, NEW next \in Labels \ Off, After(h, result, next)
    PROVE  \E label \in Labels \ Off : pc' = [pc EXCEPT ![h] = label]
  <1>1. "cleanup" \in Labels \ Off /\ Pumped(h) \in Labels \ Off
    BY DEF Labels, Off, Pumped
  <1>2. pc' \in {[pc EXCEPT ![h] = next], [pc EXCEPT ![h] = Pumped(h)], [pc EXCEPT ![h] = "cleanup"]}
    BY AfterCases
  <1> QED BY <1>1, <1>2

(* Every step of a host leaves or moves.                                     *)
LEMMA OneHostMoves ==
    ASSUME NEW h \in Hosts, Work(h) \/ Cancel(h) \/ Abandon(h) \/ Kill(h), TypeOK
    PROVE  Leaves(h) \/ Moves(h)
  <1>. DEFINE On == Labels \ Off
  <1>0. /\ Labels \ Off = On
        /\ {"fence", "settle", "note", "unmark", "admitted", "accept", "abort", "turn", "model", "waiting",
            "suspended", "stopping", "cleanup", "failing", "lastword", "answering", "answer", "calling",
            "begin", "execute", "record", "finished", "ended", "finish", "record_cancelled",
            "tell_cancelled", "clear"} \subseteq On
        /\ Pumped(h) \in On
    BY DEF Labels, Off, Pumped
  <1>m. mine = [mine EXCEPT ![h] = mine[h]]
    BY DEF TypeOK
  <1>. HIDE DEF On
  <1>. USE DEF Moves
  <1>1. CASE Examine(h)
    <2>1. Examined(marker, Current(h)) \in On \cup {"error"}
      BY <1>0 DEF Examined
    <2>2. pc[h] \notin Off
      BY <1>1 DEF Examine, Off
    <2>3. CASE Go(h, Examined(marker, Current(h))) /\ mine' = [mine EXCEPT ![h] = Current(h)]
               /\ Examined(marker, Current(h)) # "error" /\ UNCHANGED <<lock, marked, outcome, turns>>
      BY <1>0, <2>1, <2>2, <2>3 DEF Go
    <2> QED BY <1>1, <2>3, FailsLeaves DEF Examine, RefuseRun
  <1>2. CASE Fence(h)
    BY <1>0, <1>2, <1>m DEF Fence, Go, Off
  <1>3. CASE Settle(h)
    BY <1>0, <1>3, <1>m, FailsLeaves DEF Settle, Go, Off, locals
  <1>4. CASE Note(h)
    BY <1>0, <1>4, <1>m, FailsLeaves DEF Note, Go, Off, locals
  <1>5. CASE Unmark(h)
    BY <1>0, <1>5, <1>m DEF Unmark, Go, Off
  <1>6. CASE Prepare(h)
    BY <1>0, <1>6, <1>m DEF Prepare, Go, End, Off
  <1>7. CASE Accept(h)
    BY <1>0, <1>7, <1>m DEF Accept, Go, Off
  <1>8. CASE Abort(h)
    BY <1>0, <1>8, <1>m DEF Abort, Go, End, Off
  <1>9. CASE Turn(h)
    <2>1. pc[h] \notin Off /\ UNCHANGED <<lock, mine>>
      BY <1>9 DEF Turn, Off
    <2>2. ASSUME NEW result \in Results, After(h, result, "model")
          PROVE  \E label \in Labels \ Off : pc' = [pc EXCEPT ![h] = label]
      BY <1>0, <2>2, AfterMoves
    <2>3. \E label \in Labels \ Off : pc' = [pc EXCEPT ![h] = label]
      BY <1>0, <1>9, <2>2 DEF Turn, Go, End
    <2> QED BY <1>m, <2>1, <2>3
  <1>10. CASE Suspend(h)
    BY <1>0, <1>10, <1>m DEF Suspend, Go, Off
  <1>11. CASE ModelFails(h)
    BY <1>0, <1>11, <1>m DEF ModelFails, Go, End, Off
  <1>12. CASE Reply(h)
    <2>1. pc[h] \notin Off /\ UNCHANGED lock
      BY <1>12 DEF Reply, Off
    <2>2. \E copy : mine' = [mine EXCEPT ![h] = copy]
      BY <1>12, <1>m DEF Reply
    <2>3. \E label \in Labels \ Off : pc' = [pc EXCEPT ![h] = label]
      BY <1>0, <1>12 DEF Reply, Go, End
    <2> QED BY <2>1, <2>2, <2>3
  <1>13. CASE Stop(h)
    <2>1. pc[h] \notin Off /\ UNCHANGED <<lock, mine>>
      BY <1>13 DEF Stop, Off
    <2>2. ASSUME NEW result \in Results, After(h, result, "failing")
          PROVE  \E label \in Labels \ Off : pc' = [pc EXCEPT ![h] = label]
      BY <1>0, <2>2, AfterMoves
    <2>3. \E label \in Labels \ Off : pc' = [pc EXCEPT ![h] = label]
      BY <1>0, <1>13, <2>2 DEF Stop, Go, End
    <2> QED BY <1>m, <2>1, <2>3
  <1>14. CASE TellFailure(h)
    <2>1. pc[h] \notin Off /\ UNCHANGED <<lock, mine>>
      BY <1>14 DEF TellFailure, Off
    <2>2. ASSUME NEW result \in Results, After(h, result, Pumped(h))
          PROVE  \E label \in Labels \ Off : pc' = [pc EXCEPT ![h] = label]
      BY <1>0, <2>2, AfterMoves
    <2>3. \E label \in Labels \ Off : pc' = [pc EXCEPT ![h] = label]
      BY <1>0, <1>14, <2>2 DEF TellFailure, Go, End
    <2> QED BY <1>m, <2>1, <2>3
  <1>15. CASE Complete(h)
    <2>1. pc[h] \notin Off /\ UNCHANGED <<lock, mine>>
      BY <1>15 DEF Complete, Off
    <2>2. ASSUME NEW result \in Results, After(h, result, "answer")
          PROVE  \E label \in Labels \ Off : pc' = [pc EXCEPT ![h] = label]
      BY <1>0, <2>2, AfterMoves
    <2> QED BY <1>m, <1>15, <2>1, <2>2 DEF Complete
  <1>16. CASE Answer(h)
    <2>1. pc[h] \notin Off /\ UNCHANGED <<lock, mine>>
      BY <1>16 DEF Answer, Off
    <2>2. ASSUME NEW result \in Results, After(h, result, "finish")
          PROVE  \E label \in Labels \ Off : pc' = [pc EXCEPT ![h] = label]
      BY <1>0, <2>2, AfterMoves
    <2>3. \E label \in Labels \ Off : pc' = [pc EXCEPT ![h] = label]
      BY <1>0, <1>16, <2>2 DEF Answer, Go, End
    <2> QED BY <1>m, <2>1, <2>3
  <1>17. ASSUME NEW label \in Calling, NEW next \in {"begin", "finished"}, Save(h, label, next)
         PROVE  Moves(h)
    <2>1. pc[h] \notin Off /\ UNCHANGED lock
      BY <1>17 DEF Save, Off, Calling
    <2>2. PICK result \in Results :
            /\ mine' = [mine EXCEPT ![h] = IF result = "ok" THEN snap' ELSE @]
            /\ After(h, result, next)
      BY <1>17 DEF Save
    <2>3. \E l \in Labels \ Off : pc' = [pc EXCEPT ![h] = l]
      BY <1>0, <2>2, AfterMoves
    <2>4. \E copy : mine' = [mine EXCEPT ![h] = copy]
      BY <2>2
    <2> QED BY <2>1, <2>3, <2>4
  <1>18. CASE SaveCalls(h)
    BY <1>17, <1>18 DEF SaveCalls, Calling
  <1>19. CASE SaveResult(h)
    BY <1>17, <1>19 DEF SaveResult, Calling
  <1>20. CASE StartTool(h)
    <2>1. pc[h] \notin Off /\ UNCHANGED <<lock, mine>>
      BY <1>20 DEF StartTool, Off
    <2>2. ASSUME NEW result \in Results, After(h, result, "execute")
          PROVE  \E label \in Labels \ Off : pc' = [pc EXCEPT ![h] = label]
      BY <1>0, <2>2, AfterMoves
    <2> QED BY <1>m, <1>20, <2>1, <2>2 DEF StartTool
  <1>21. CASE Execute(h)
    <2>1. pc[h] \notin Off /\ UNCHANGED lock
      BY <1>21 DEF Execute, Off
    <2>2. \E copy : mine' = [mine EXCEPT ![h] = copy]
      <3>1. CASE mine' = [mine EXCEPT ![h].pending = @ \ {Due(h)}, ![h].recorded = @ \cup {Due(h)}]
        <4>1. mine' = [mine EXCEPT ![h] = [mine[h] EXCEPT !.pending = @ \ {Due(h)}, !.recorded = @ \cup {Due(h)}]]
          BY <3>1 DEF TypeOK
        <4> QED BY <4>1
      <3> QED BY <1>21, <1>m, <3>1 DEF Execute
    <2>3. \E label \in Labels \ Off : pc' = [pc EXCEPT ![h] = label]
      BY <1>0, <1>21 DEF Execute, Go, End
    <2> QED BY <2>1, <2>2, <2>3
  <1>22. CASE EndTool(h)
    <2>1. pc[h] \notin Off /\ UNCHANGED <<lock, mine>>
      BY <1>22 DEF EndTool, Off
    <2>2. ASSUME NEW result \in Results, NEW next \in {"turn", "begin"}, After(h, result, next)
          PROVE  \E label \in Labels \ Off : pc' = [pc EXCEPT ![h] = label]
      BY <1>0, <2>2, AfterMoves
    <2> QED BY <1>m, <1>22, <2>1, <2>2 DEF EndTool
  <1>23. CASE MarkAdmitted(h)
    BY <1>0, <1>23, <1>m DEF MarkAdmitted, Go, Off
  <1>24. CASE Finish(h)
    BY <1>0, <1>24, <1>m, FailsLeaves DEF Finish, Go, Off, locals
  <1>25. CASE RecordCancelled(h)
    BY <1>0, <1>25, <1>m, FailsLeaves DEF RecordCancelled, Go, Off, locals
  <1>26. CASE TellCancelled(h)
    BY <1>0, <1>26, <1>m, FailsLeaves DEF TellCancelled, Go, Off, locals
  <1>27. CASE Release(h)
    BY <1>27 DEF Release, Leaves
  <1>28. CASE Cancel(h)
    BY <1>0, <1>28, <1>m DEF Cancel, Go, End, Off
  <1>29. CASE Abandon(h)
    BY <1>29, FailsLeaves DEF Abandon
  <1>30. CASE Kill(h)
    BY <1>30 DEF Kill, Leaves
  <1>31. CASE Agent(h)
    BY <1>31, <1>6, <1>7, <1>8, <1>9, <1>10, <1>11, <1>12, <1>13, <1>14, <1>15, <1>16, <1>18, <1>19, <1>20, <1>21,
       <1>22 DEF Agent
  <1> QED BY <1>1, <1>2, <1>3, <1>4, <1>5, <1>23, <1>24, <1>25, <1>26, <1>27, <1>28, <1>29, <1>30, <1>31
          DEF Work, Recover, Close

(* The lock: nobody gets past it but its holder.                             *)
LEMMA LockIsKept ==
    ASSUME TypeOK, HoldersHaveTheLock, Next
    PROVE  HoldersHaveTheLock'
  <1>. USE DEF HoldersHaveTheLock
  <1>0. NoOne \notin Hosts /\ pc \in [Hosts -> Labels] /\ mine \in [Hosts -> Snapshot \cup {NoCopy}]
    BY SessionAssumption DEF TypeOK
  <1>1. ASSUME NEW h \in Hosts, Moves(h) PROVE HoldersHaveTheLock'
    BY <1>0, <1>1 DEF Moves, Off
  <1>2. ASSUME NEW h \in Hosts, Leaves(h) PROVE HoldersHaveTheLock'
    BY <1>0, <1>2 DEF Leaves, Leave, Go
  <1>3. ASSUME NEW h \in Hosts, Start(h) PROVE HoldersHaveTheLock'
    BY <1>0, <1>3 DEF Start, Go
  <1>4. ASSUME NEW h \in Hosts, TakeLock(h) PROVE HoldersHaveTheLock'
    BY <1>0, <1>4 DEF TakeLock, Go
  <1>5. CASE Reconcile
    BY <1>5 DEF Reconcile, control
  <1> QED BY <1>1, <1>2, <1>3, <1>4, <1>5, OneHostMoves DEF Next

(* Whoever waits for the lock has no copy of the session. *)
LEMMA IdleCopies ==
    ASSUME NEW g \in Hosts, pc'[g] \in Off
    PROVE  Copy(g)'
    BY DEF Copy, Off, Driving, Calling, Quiet

(* The other hosts of a mover have no copy.                                  *)
LEMMA OthersAreIdle ==
    ASSUME TypeOK, HoldersHaveTheLock, NEW h \in Hosts, Moves(h), Copy(h)'
    PROVE  \A g \in Hosts : Copy(g)'
  <1>1. SUFFICES ASSUME NEW g \in Hosts, g # h PROVE Copy(g)'
    OBVIOUS
  <1>2. pc[g] \in Off /\ pc'[g] = pc[g]
    BY <1>1 DEF HoldersHaveTheLock, Moves, TypeOK, Off
  <1> QED BY <1>2, IdleCopies

(* Nor has anybody once it has left.                                         *)
LEMMA LeaversAreIdle ==
    ASSUME TypeOK, HoldersHaveTheLock, NEW h \in Hosts, pc[h] \notin Off, Leaves(h)
    PROVE  \A g \in Hosts : Copy(g)'
  <1>1. SUFFICES ASSUME NEW g \in Hosts PROVE Copy(g)'
    OBVIOUS
  <1>2. pc'[g] \in Off
    BY <1>1, ZenonT(40) DEF HoldersHaveTheLock, Leaves, Leave, Go, TypeOK, Off
  <1> QED BY <1>2, IdleCopies

----------------------------------------------------------------------------
(* The store: what a step may do to it.                                      *)
Stores(h) ==
    \E s \in Snapshot, result \in Results :
        /\ Write(h, s, result)
        /\ s.revision = snap.revision => Covers(s) /\ Bounded(s)

(* ... and one that leaves the store alone.                                  *)
Rests(h) ==
    /\ snap' = snap
    /\ \/ cache' = cache
       \/ cache' = [cache EXCEPT ![h] = Current(h)]
       \/ cache' = [cache EXCEPT ![h] = NoCopy]

(* A snapshot with another status has the same calls.                        *)
LEMMA StatusKeeps ==
    ASSUME NEW s \in Snapshot, NEW status \in Statuses \ {"Running"}
    PROVE  LET z == [s EXCEPT !.status = status] IN
           /\ z \in Snapshot /\ z.revision = s.revision
           /\ (Covers(s) => Covers(z)) /\ (Bounded(s) => Bounded(z))
    BY StatusChanges DEF Snapshot, Covers, Bounded

(* A plugin at the store's revision has the store's snapshot.                *)
LEMMA TrailingIsStored ==
    ASSUME IInv, NEW h \in Hosts, Current(h).revision = snap.revision
    PROVE  Current(h) = snap
    BY DEF IInv, CachesTrail, Trails, Current

(* Every step of a host stores such a snapshot or rests.                     *)
LEMMA StoreShapes ==
    ASSUME IInv, NEW h \in Hosts,
           Work(h) \/ Cancel(h) \/ Abandon(h) \/ Kill(h) \/ Start(h) \/ TakeLock(h)
    PROVE  Stores(h) \/ Rests(h)
  <1>0. TypeOK /\ CachesTrail /\ Covers(snap) /\ Bounded(snap) /\ Copy(h)
    BY DEF IInv
  <1>c. Current(h) \in Snapshot
    BY <1>0, CurrentIsASnapshot
  <1>r. "Failed" \in Statuses \ {"Running"} /\ "Completed" \in Statuses \ {"Running"}
        /\ "Cancelled" \in Statuses \ {"Running"} /\ Interrupted(mine[h]) \in Statuses \ {"Running"}
    BY InterruptedIsAStatus DEF Statuses
  <1>f. ASSUME pc[h] \in {"abort", "stopping", "cleanup"}
        PROVE  Failed(h) \in Snapshot /\ (Failed(h).revision = snap.revision => Covers(Failed(h)) /\ Bounded(Failed(h)))
    <2>1. mine[h] \in Snapshot /\ Bounded(mine[h])
      BY <1>0, <1>f, MineIsASnapshot DEF Copy, Driving
    <2>2. mine[h].revision = snap.revision => Covers(mine[h])
      BY <1>0, <1>f DEF Copy, Driving
    <2> QED BY <1>r, <2>1, <2>2, StatusKeeps DEF Failed
  <1>1. CASE Settle(h)
    <2>1. mine[h] \in Snapshot /\ mine[h] = cache[h]
      BY <1>0, <1>1, MineIsASnapshot DEF Settle, Copy
    <2>2. mine[h].revision = snap.revision => Covers(mine[h]) /\ Bounded(mine[h])
      BY <1>0, <2>1, SessionAssumption DEF CachesTrail, Trails
    <2> QED BY <1>1, <1>r, <2>1, <2>2, StatusKeeps DEF Settle, Stores
  <1>2. CASE Prepare(h)
    <2>1. CASE Loaded(h) /\ UNCHANGED snap
      BY <2>1 DEF Rests, Loaded
    <2>2. ASSUME Current(h).run < MaxRuns, NEW result \in Results, Write(h, Begun(Current(h)), result)
          PROVE  Stores(h)
      <3>1. Begun(Current(h)) \in Snapshot
        BY <1>c, <2>2, BegunIsASnapshot
      <3>2. ASSUME Begun(Current(h)).revision = snap.revision
            PROVE  Covers(Begun(Current(h))) /\ Bounded(Begun(Current(h)))
        <4>1. Current(h) = snap
          BY <1>c, <3>2, TrailingIsStored DEF Begun, Snapshot
        <4>2. LET z == Begun(snap) IN z.pending = snap.pending /\ z.recorded = snap.recorded /\ z.run = snap.run + 1
          BY <1>0 DEF Begun, TypeOK, Snapshot
        <4>3. snap.run \in Nat /\ \A c \in snap.pending \cup snap.recorded : c.run \in Nat
          BY <1>0, SessionAssumption DEF TypeOK, Snapshot, Call
        <4> QED BY <1>0, <4>1, <4>2, <4>3 DEF Covers, Bounded
      <3> QED BY <2>2, <3>1, <3>2 DEF Stores
    <2> QED BY <1>2, <2>1, <2>2 DEF Prepare
  <1>3. CASE Abort(h)
    BY <1>3, <1>f DEF Abort, Stores
  <1>4. CASE Stop(h)
    BY <1>4, <1>f DEF Stop, Stores
  <1>5. CASE Complete(h)
    <2>1. mine[h] \in Snapshot /\ Bounded(mine[h]) /\ Covers(mine[h])
      BY <1>0, <1>5, MineIsASnapshot DEF Complete, Copy, Driving
    <2> QED BY <1>5, <1>r, <2>1, StatusKeeps DEF Complete, Stores
  <1>6. CASE SaveCalls(h) \/ SaveResult(h)
    <2>1. mine[h] \in Snapshot /\ Bounded(mine[h]) /\ Covers(mine[h])
      BY <1>0, <1>6, MineIsASnapshot DEF SaveCalls, SaveResult, Save, Copy, Calling
    <2> QED BY <1>6, <2>1 DEF SaveCalls, SaveResult, Save, Stores
  <1>7. CASE RecordCancelled(h)
    <2>1. CASE Loaded(h) /\ UNCHANGED snap
      BY <2>1 DEF Rests, Loaded
    <2>2. ASSUME NEW result \in Results, Write(h, [Current(h) EXCEPT !.status = "Cancelled"], result)
          PROVE  Stores(h)
      <3>1. PICK s : s = [Current(h) EXCEPT !.status = "Cancelled"]
        OBVIOUS
      <3>2. /\ s \in Snapshot /\ s.revision = Current(h).revision
            /\ (Covers(Current(h)) => Covers(s)) /\ (Bounded(Current(h)) => Bounded(s))
        BY <1>c, <1>r, <3>1, StatusKeeps
      <3>3. s.revision = snap.revision => Covers(s) /\ Bounded(s)
        <4>1. s.revision = snap.revision => Current(h) = snap
          BY <3>2, TrailingIsStored
        <4> QED BY <1>0, <3>2, <4>1
      <3> QED BY <2>2, <3>1, <3>2, <3>3 DEF Stores
    <2> QED BY <1>7, <2>1, <2>2 DEF RecordCancelled
  <1>8. CASE Examine(h) \/ MarkAdmitted(h)
    BY <1>8 DEF Examine, MarkAdmitted, Loaded, Rests
  <1>9. CASE Start(h) \/ Kill(h)
    BY <1>9 DEF Start, Kill, Rests
  <1>10. CASE \/ Fence(h) \/ Note(h) \/ Unmark(h) \/ Accept(h) \/ Turn(h) \/ Suspend(h) \/ ModelFails(h) \/ Reply(h)
              \/ TellFailure(h) \/ Answer(h) \/ StartTool(h) \/ Execute(h) \/ EndTool(h) \/ Finish(h)
              \/ TellCancelled(h) \/ Release(h) \/ Cancel(h) \/ Abandon(h) \/ TakeLock(h)
    BY <1>10 DEF Fence, Note, Unmark, Accept, Turn, Suspend, ModelFails, Reply, TellFailure, Answer, StartTool,
                 Execute, EndTool, Finish, TellCancelled, Release, Cancel, Abandon, TakeLock, Rests
  <1> QED BY <1>1, <1>2, <1>3, <1>4, <1>5, <1>6, <1>7, <1>8, <1>9, <1>10 DEF Work, Agent, Recover, Close

(* What a step does to the journal and the effects.                          *)
LEMMA HistoryShapes ==
    ASSUME NEW h \in Hosts, Work(h) \/ Cancel(h) \/ Abandon(h) \/ Kill(h) \/ Start(h) \/ TakeLock(h)
    PROVE  /\ journal' = journal \/ \E e : journal' = Append(journal, e)
           /\ effects' = effects \/ Execute(h)
  <1>1. ASSUME NEW kind, NEW run, NEW k, NEW result, Journalled(kind, run, k, result)
        PROVE  journal' = journal \/ \E e : journal' = Append(journal, e)
    BY <1>1 DEF Journalled
  <1>2. CASE Note(h) \/ Accept(h) \/ TellFailure(h) \/ Answer(h) \/ StartTool(h) \/ EndTool(h) \/ TellCancelled(h)
    BY <1>1, <1>2 DEF Note, Accept, TellFailure, Answer, StartTool, EndTool, TellCancelled
  <1>3. CASE \/ Fence(h) \/ Unmark(h) \/ Turn(h) \/ Suspend(h) \/ ModelFails(h) \/ Reply(h)
             \/ Execute(h) \/ Finish(h) \/ Settle(h) \/ Prepare(h) \/ Abort(h) \/ Stop(h) \/ Complete(h)
             \/ SaveCalls(h) \/ SaveResult(h) \/ RecordCancelled(h) \/ Examine(h) \/ MarkAdmitted(h) \/ Start(h)
             \/ Kill(h) \/ Release(h) \/ Cancel(h) \/ Abandon(h) \/ TakeLock(h)
    BY <1>3 DEF Fence, Unmark, Turn, Suspend, ModelFails, Reply, Execute, Finish, Settle, Prepare, Abort, Stop,
                Complete, SaveCalls, SaveResult, Save, RecordCancelled, Examine, MarkAdmitted, Start, Kill,
                Release, Cancel, Abandon, TakeLock
  <1> QED BY <1>2, <1>3 DEF Work, Agent, Recover, Close

(* No plugin gets ahead of the store, which only advances.                   *)
LEMMA CachesKeepTrailing ==
    ASSUME IInv, Next
    PROVE  CachesTrail' /\ snap.revision <= snap'.revision
  <1>0. TypeOK /\ CachesTrail /\ snap.revision \in Nat /\ cache \in [Hosts -> Snapshot \cup {NoCopy}]
    BY DEF IInv, TypeOK, Snapshot
  <1>n. ASSUME NEW g \in Hosts, cache[g] # NoCopy
        PROVE  cache[g].revision \in Nat /\ Trails(cache[g])
    BY <1>0, <1>n DEF CachesTrail, Snapshot
  <1>1. ASSUME NEW h \in Hosts, Rests(h) PROVE CachesTrail' /\ snap.revision <= snap'.revision
    <2>1. Current(h) = snap \/ Trails(Current(h))
      BY <1>n DEF Current
    <2>2. \A g \in Hosts : cache'[g] = NoCopy \/ cache'[g] = cache[g] \/ cache'[g] = Current(h)
      BY <1>0, <1>1 DEF Rests
    <2> QED BY <1>0, <1>n, <1>1, <2>1, <2>2 DEF Rests, CachesTrail, Trails
  <1>2. ASSUME NEW h \in Hosts, Stores(h) PROVE CachesTrail' /\ snap.revision <= snap'.revision
    <2>1. PICK s \in Snapshot, result \in Results : Write(h, s, result)
      BY <1>2 DEF Stores
    <2>2. /\ cache' = [cache EXCEPT ![h] = cache'[h]]
          /\ cache'[h] = NoCopy \/ Trails(cache[h])'
          /\ snap.revision <= snap'.revision
          /\ snap' # snap => snap.revision < snap'.revision
          /\ snap' \in Snapshot
      BY <1>0, <2>1, WriteIsConditional
    <2>3. ASSUME NEW g \in Hosts, g # h, cache'[g] # NoCopy PROVE Trails(cache[g])'
      <3>1. cache'[g] = cache[g]
        BY <1>0, <2>2, <2>3
      <3>2. snap'.revision \in Nat
        BY <2>2 DEF Snapshot
      <3> QED BY <1>0, <1>n, <2>2, <2>3, <3>1, <3>2 DEF Trails
    <2> QED BY <2>2, <2>3 DEF CachesTrail
  <1>3. CASE Reconcile
    <2>1. snap'.revision = snap.revision + 1 /\ cache' = cache
      BY <1>0, <1>3 DEF Reconcile, Reconciled, TypeOK, Snapshot
    <2> QED BY <1>0, <1>n, <2>1 DEF CachesTrail, Trails
  <1> QED BY <1>1, <1>2, <1>3, StoreShapes DEF Next

(* What has been executed stays in the stored session. *)
LEMMA ExecutedIsPending ==
    ASSUME IInv, NEW h \in Hosts, Execute(h)
    PROVE  /\ effects' = effects \/ effects' = Append(effects, Due(h))
           /\ Due(h) \in Call /\ Due(h) \in snap.pending /\ Due(h) \in mine[h].pending
           /\ Due(h) \notin Range(effects) /\ Announced(Due(h))
           /\ Due(h).run = mine[h].run /\ Due(h).k = Cardinality(CallsOf(mine[h])) + 1
           /\ snap' = snap /\ journal' = journal
  <1>1. /\ mine[h] \in Snapshot /\ mine[h] = snap /\ Numbered(mine[h]) /\ mine[h].pending # {}
        /\ Range(effects) \cap mine[h].pending = {} /\ Announced(Due(h))
    BY MineIsASnapshot DEF IInv, Execute, Copy, Driving, Calling
  <1>2. effects' = effects \/ effects' = Append(effects, Due(h))
    BY DEF Execute
  <1>3. /\ Due(h) = [run |-> mine[h].run, k |-> Cardinality(CallsOf(mine[h])) + 1]
        /\ Due(h) \in mine[h].pending /\ Due(h) \in Call
    BY <1>1, DueIsNext
  <1> QED BY <1>1, <1>2, <1>3 DEF Execute

(* The elements of a longer sequence, and when it stays injective.           *)
LEMMA AppendedRange ==
    ASSUME NEW S, NEW q \in Seq(S), NEW e \in S
    PROVE  /\ Range(Append(q, e)) = Range(q) \cup {e}
           /\ IsInjective(q) /\ e \notin Range(q) => IsInjective(Append(q, e))
           /\ \A i \in DOMAIN q : i \in DOMAIN Append(q, e) /\ Append(q, e)[i] = q[i]
  <1>1. /\ DOMAIN q = 1..Len(q) /\ DOMAIN Append(q, e) = 1..Len(q) + 1 /\ Len(q) \in Nat
        /\ \A i \in 1..Len(q) : Append(q, e)[i] = q[i]
        /\ Append(q, e)[Len(q) + 1] = e
    OBVIOUS
  <1>. DEFINE z == Append(q, e)
  <1>. HIDE DEF z
  <1>2. \A i \in DOMAIN z : i \in DOMAIN q \/ i = Len(q) + 1
    BY <1>1 DEF z
  <1>3. Range(z) = Range(q) \cup {e}
    BY <1>1, <1>2 DEF Range, z
  <1>4. IsInjective(q) /\ e \notin Range(q) => IsInjective(z)
    BY <1>1, <1>2 DEF IsInjective, Range, z
  <1> QED BY <1>1, <1>3, <1>4 DEF z

(* What is said of the store and the history.                                *)
Kept == Covers(snap) /\ Bounded(snap) /\ EffectsHappenOnce /\ EffectsAreAnnounced

(* An event once in the journal stays where it is.                           *)
LEMMA JournalOnlyGrows ==
    ASSUME TypeOK, TypeOK', journal' = journal \/ \E e : journal' = Append(journal, e)
    PROVE  \A i \in DOMAIN journal : i \in DOMAIN journal' /\ journal'[i] = journal[i]
  <1>1. CASE journal' = journal
    BY <1>1
  <1>2. ASSUME NEW e, journal' = Append(journal, e)
        PROVE  \A i \in DOMAIN journal : i \in DOMAIN journal' /\ journal'[i] = journal[i]
    BY <1>2 DEF TypeOK
  <1> QED BY <1>1, <1>2

(* No step forgets, repeats or conceals an effect.                           *)
LEMMA EffectsAreKept ==
    ASSUME IInv, TypeOK', Next
    PROVE  Kept'
  <1>0. /\ TypeOK /\ CachesTrail /\ Covers(snap) /\ Bounded(snap) /\ EffectsHappenOnce /\ EffectsAreAnnounced
    BY DEF IInv
  <1>1. CASE Reconcile
    <2>1. PICK c \in snap.pending : snap' = Reconciled(snap, c)
      BY <1>1 DEF Reconcile
    <2>2. /\ snap'.pending = snap.pending \ {c} /\ snap'.recorded = snap.recorded \cup {c} /\ snap'.run = snap.run
      BY <1>0, <2>1 DEF Reconciled, TypeOK, Snapshot
    <2>3. Covers(snap)' /\ Bounded(snap)'
      BY <1>0, <1>1, <2>2 DEF Covers, Bounded, Reconcile
    <2> QED BY <1>0, <1>1, <2>3 DEF Kept, Reconcile, EffectsHappenOnce, EffectsAreAnnounced
  <1>2. ASSUME NEW h \in Hosts, Work(h) \/ Cancel(h) \/ Abandon(h) \/ Kill(h) \/ Start(h) \/ TakeLock(h)
        PROVE  Kept'
    <2>1. \A i \in DOMAIN journal : i \in DOMAIN journal' /\ journal'[i] = journal[i]
      BY <1>0, <1>2, HistoryShapes, JournalOnlyGrows
    <2>2. \A c : Announced(c) => Announced(c)'
      BY <2>1 DEF Announced
    <2>3. CASE effects' = effects
      <3>1. CASE snap' = snap
        BY <1>0, <2>2, <2>3, <3>1 DEF Kept, Covers, Bounded, EffectsHappenOnce, EffectsAreAnnounced, Announced
      <3>2. CASE Stores(h) /\ snap' # snap
        <4>1. PICK s \in Snapshot, result \in Results :
                /\ Write(h, s, result)
                /\ s.revision = snap.revision => Covers(s) /\ Bounded(s)
          BY <3>2 DEF Stores
        <4>2. Stored(h, s)
          BY <1>0, <3>2, <4>1, WriteIsConditional
        <4>3. Covers(s) /\ Bounded(s)
          BY <4>1, <4>2 DEF Stored
        <4>4. snap'.pending = s.pending /\ snap'.recorded = s.recorded /\ snap'.run = s.run
          BY <4>2 DEF Stored, Committed, Snapshot
        <4>5. Covers(snap)' /\ Bounded(snap)'
          BY <2>3, <4>3, <4>4 DEF Covers, Bounded
        <4> QED BY <1>0, <2>2, <2>3, <4>5 DEF Kept, EffectsHappenOnce, EffectsAreAnnounced, Announced
      <3> QED BY <1>2, <3>1, <3>2, StoreShapes DEF Rests
    <2>4. CASE effects' # effects
      <3>1. Execute(h) /\ effects' = Append(effects, Due(h)) /\ effects \in Seq(Call)
        BY <1>0, <1>2, <2>4, HistoryShapes, ExecutedIsPending DEF TypeOK
      <3>2. /\ Due(h) \in Call /\ Due(h) \in snap.pending
            /\ Due(h) \notin Range(effects) /\ Announced(Due(h))
            /\ snap' = snap
        BY <3>1, ExecutedIsPending
      <3>3. Range(effects') = Range(effects) \cup {Due(h)} /\ IsInjective(effects')
        BY <1>0, <3>1, <3>2, AppendedRange DEF EffectsHappenOnce
      <3>4. \A c \in Range(effects') : Announced(c)'
        BY <1>0, <2>2, <3>2, <3>3 DEF EffectsAreAnnounced, Announced
      <3> QED BY <1>0, <3>2, <3>3, <3>4 DEF Kept, Covers, Bounded, EffectsHappenOnce, EffectsAreAnnounced, Announced
    <2> QED BY <2>3, <2>4
  <1> QED BY <1>1, <1>2 DEF Next

----------------------------------------------------------------------------
(* The copy a host works on.                                                 *)
LEMMA UntouchedCopies ==
    ASSUME NEW g \in Hosts, Copy(g), pc'[g] = pc[g], mine'[g] = mine[g], cache'[g] = cache[g],
           UNCHANGED <<snap, effects, journal>>
    PROVE  Copy(g)'
  <1>1. Due(g)' = Due(g)
    BY Zenon DEF Due
  <1>2. Announced(Due(g)) => Announced(Due(g))'
    BY <1>1 DEF Announced
  <1> QED BY <1>2 DEF Copy, Covers, Bounded, Numbered, CallsOf

(* The numbering is of the calls and the run alone.                          *)
LEMMA NumberedAlike ==
    \A s, z : s.pending = z.pending /\ s.recorded = z.recorded /\ s.run = z.run /\ Numbered(s) => Numbered(z)
  <1>1. SUFFICES ASSUME NEW s, NEW z, s.pending = z.pending, s.recorded = z.recorded, s.run = z.run, Numbered(s)
                 PROVE  Numbered(z)
    OBVIOUS
  <1>2. CallsOf(s) = CallsOf(z)
    BY <1>1 DEF CallsOf
  <1> QED BY <1>1, <1>2 DEF Numbered

(* A new run starts its numbering.                                           *)
LEMMA NumberedFirst ==
    ASSUME NEW s \in Snapshot, s.pending = {}, CallsOf(s) = {}
    PROVE  Numbered(s)
  <1>1. Cardinality(CallsOf(s)) = 0
    BY FS_EmptySet
  <1>2. 0 \in 0..MaxCalls /\ s.pending = {[run |-> s.run, k |-> i] : i \in 0 + 1..0 + 0}
    BY SessionAssumption
  <1> QED BY <1>1, <1>2 DEF Numbered

(* The calls of a reply are numbered on.                                     *)
LEMMA NumberedFresh ==
    ASSUME NEW h \in Hosts, mine[h] \in Snapshot, Numbered(mine[h]), NEW n \in 1..MaxCalls,
           Fresh(h, n) \subseteq Call
    PROVE  LET z == [mine[h] EXCEPT !.pending = Fresh(h, n)] IN
           /\ Numbered(z) /\ z.pending # {}
           /\ z.pending \cap mine[h].recorded = {}
           /\ \A c \in z.pending : c.run = mine[h].run
  <1>. DEFINE z == [mine[h] EXCEPT !.pending = Fresh(h, n)]
              used == Cardinality(CallsOf(mine[h]))
  <1>1. used \in Nat /\ \A c \in CallsOf(mine[h]) : c.k <= used
    BY UsedIsNat DEF Numbered
  <1>2. z.pending = {[run |-> mine[h].run, k |-> used + i] : i \in 1..n} /\ z.run = mine[h].run
        /\ z.recorded = mine[h].recorded
    BY DEF Fresh, CallsOf, Snapshot
  <1>3. CallsOf(z) = CallsOf(mine[h])
    BY <1>2 DEF CallsOf
  <1>4. n \in 0..MaxCalls /\ n \in Nat /\ n >= 1
    BY SessionAssumption
  <1>. HIDE DEF z, used
  <1>5. z.pending = {[run |-> z.run, k |-> i] : i \in used + 1..used + n}
    <2>1. ASSUME NEW i \in 1..n PROVE used + i \in used + 1..used + n
      BY <1>1, <1>4
    <2>2. ASSUME NEW i \in used + 1..used + n PROVE i - used \in 1..n /\ used + (i - used) = i
      BY <1>1, <1>4
    <2> QED BY <1>2, <2>1, <2>2
  <1>6. Numbered(z)
    BY <1>1, <1>3, <1>4, <1>5 DEF Numbered, used
  <1>7. [run |-> mine[h].run, k |-> used + 1] \in z.pending
    BY <1>2, <1>4
  <1>8. ASSUME NEW c \in z.pending PROVE c.run = mine[h].run /\ c \notin mine[h].recorded
    <2>1. PICK i \in 1..n : c = [run |-> mine[h].run, k |-> used + i]
      BY <1>2
    <2> QED BY <1>1, <1>4, <2>1 DEF CallsOf
  <1> QED BY <1>6, <1>7, <1>8 DEF z

(* ... and stay so when the first of them has its result.                    *)
LEMMA NumberedNext ==
    ASSUME NEW h \in Hosts, mine[h] \in Snapshot, Numbered(mine[h]), mine[h].pending # {}
    PROVE  LET z == [mine[h] EXCEPT !.pending = @ \ {Due(h)}, !.recorded = @ \cup {Due(h)}] IN
           Numbered(z)
  <1>. DEFINE z == [mine[h] EXCEPT !.pending = @ \ {Due(h)}, !.recorded = @ \cup {Due(h)}]
              used == Cardinality(CallsOf(mine[h]))
              d == Due(h)
  <1>1. used \in Nat /\ IsFiniteSet(CallsOf(mine[h])) /\ \A c \in CallsOf(mine[h]) : c.k <= used
    BY UsedIsNat DEF Numbered
  <1>2. d = [run |-> mine[h].run, k |-> used + 1] /\ d \in mine[h].pending
    BY DueIsNext
  <1>3. z.pending = mine[h].pending \ {d} /\ z.recorded = mine[h].recorded \cup {d} /\ z.run = mine[h].run
    BY DEF Snapshot
  <1>4. PICK n \in 0..MaxCalls : mine[h].pending = {[run |-> mine[h].run, k |-> i] : i \in used + 1..used + n}
    BY DEF Numbered
  <1>. HIDE DEF z, d, used
  <1>5. CallsOf(z) = CallsOf(mine[h]) \cup {d}
    BY <1>2, <1>3 DEF CallsOf
  <1>6. d \notin CallsOf(mine[h])
    BY <1>1, <1>2
  <1>7. Cardinality(CallsOf(z)) = used + 1
    BY <1>1, <1>5, <1>6, FS_AddElement DEF used
  <1>8. n # 0 /\ n - 1 \in 0..MaxCalls
    BY <1>1, <1>2, <1>4, SessionAssumption
  <1>9. z.pending = {[run |-> z.run, k |-> i] : i \in (used + 1) + 1..(used + 1) + (n - 1)}
    <2>1. ASSUME NEW i \in used + 1..used + n, i # used + 1 PROVE i \in (used + 1) + 1..(used + 1) + (n - 1)
      BY <1>1, <1>8, <2>1
    <2>2. ASSUME NEW i \in (used + 1) + 1..(used + 1) + (n - 1) PROVE i \in used + 1..used + n /\ i # used + 1
      BY <1>1, <1>8, <2>2
    <2> QED BY <1>2, <1>3, <1>4, <2>1, <2>2
  <1>10. \A c \in CallsOf(z) : c.k <= used + 1
    BY <1>1, <1>2, <1>5 DEF CallsOf, Snapshot, Call
  <1>11. Numbered(z)
    BY <1>7, <1>8, <1>9, <1>10 DEF Numbered
  <1> QED BY <1>11 DEF z

(* The next state of a host that moves, by where it moves to.                *)
LEMMA PlainLabels ==
    ASSUME NEW h \in Hosts,
           pc'[h] \in {"unmark", "admitted", "ended", "finish", "record_cancelled", "clear", "locked"}
    PROVE  Copy(h)'
    BY DEF Copy, Driving, Calling, Quiet

(* The copy: recovery and the closing of a prompt.                           *)
LEMMA CopiesStayRecovering ==
    ASSUME IInv, TypeOK', snap.revision <= snap'.revision, NEW h \in Hosts, Moves(h),
           Recover(h) \/ Close(h) \/ Cancel(h)
    PROVE  Copy(h)'
  <1>0. /\ TypeOK /\ TypeOK' /\ CachesTrail /\ Copy(h) /\ pc \in [Hosts -> Labels]
        /\ mine \in [Hosts -> Snapshot \cup {NoCopy}] /\ cache \in [Hosts -> Snapshot \cup {NoCopy}]
    BY DEF IInv, TypeOK
  <1>a. pc'[h] \notin Off
    BY <1>0 DEF Moves
  <1>b. ~Fails(h) /\ ~Leaves(h)
    BY <1>0, <1>a DEF Fails, Leaves, Leave, Go, Off
  <1>1. CASE Examine(h)
    <2>1. /\ Go(h, Examined(marker, Current(h))) /\ Examined(marker, Current(h)) # "error"
          /\ mine'[h] = Current(h) /\ cache'[h] = Current(h) /\ Current(h) \in Snapshot
      BY <1>0, <1>1, <1>b, CurrentIsASnapshot DEF Examine, RefuseRun, Loaded
    <2>2. pc'[h] = Examined(marker, Current(h))
      BY <1>0, <2>1 DEF Go
    <2>3. pc'[h] \in {"fence", "settle"} => Current(h).status = "Running"
      BY <2>2 DEF Examined
    <2>4. pc'[h] = "note" => Current(h).run # 0
      BY <2>2 DEF Examined
    <2>5. pc'[h] \in {"fence", "settle", "note", "unmark"}
      BY <2>1, <2>2 DEF Examined
    <2> QED BY <2>1, <2>3, <2>4, <2>5, SessionAssumption DEF Copy, Driving, Calling, Quiet
  <1>2. CASE Fence(h)
    BY <1>0, <1>2 DEF Fence, Go, Copy, Driving, Calling, Quiet
  <1>3. CASE Settle(h)
    <2>1. pc'[h] = "note" /\ mine'[h] = mine[h]
      BY <1>0, <1>3, <1>b DEF Settle, Go, locals
    <2>2. mine[h] # NoCopy /\ mine[h].run # 0
      BY <1>0, <1>3, MineIsASnapshot DEF Settle, Copy, Snapshot
    <2> QED BY <2>1, <2>2 DEF Copy, Driving, Calling, Quiet
  <1>4. CASE Note(h)
    BY <1>0, <1>4, <1>b, PlainLabels DEF Note, Go
  <1>5. CASE Unmark(h)
    BY <1>0, <1>5, PlainLabels DEF Unmark, Go
  <1>6. CASE MarkAdmitted(h)
    <2>1. CASE pc[h] = "ended"
      BY <1>0, <1>6, <2>1, PlainLabels DEF MarkAdmitted, Go
    <2>2. CASE pc[h] = "suspended"
      BY <1>0, <1>6, <2>2 DEF MarkAdmitted, Go, Copy, Driving, Calling, Quiet, Bounded, Numbered, CallsOf
    <2> QED BY <1>6, <2>1, <2>2 DEF MarkAdmitted
  <1>7. CASE Finish(h)
    BY <1>0, <1>7, <1>b, PlainLabels DEF Finish, Go
  <1>8. CASE RecordCancelled(h)
    <2>1. PICK result \in Results :
            /\ Cancellable(Current(h))
            /\ Write(h, [Current(h) EXCEPT !.status = "Cancelled"], result)
            /\ result = "ok" /\ Go(h, "tell_cancelled") /\ mine' = [mine EXCEPT ![h] = snap']
      BY <1>8, <1>b DEF RecordCancelled
    <2>2. Current(h) \in Snapshot /\ Current(h).run # 0
      BY <1>0, <2>1, CurrentIsASnapshot DEF Cancellable, Snapshot
    <2>3. [Current(h) EXCEPT !.status = "Cancelled"] \in Snapshot
      BY <2>2, StatusChanges DEF Statuses
    <2>4. snap' = Committed([Current(h) EXCEPT !.status = "Cancelled"]) /\ snap' \in Snapshot
      BY <1>0, <2>1, <2>3, WriteIsConditional DEF Stored
    <2>5. snap'.run # 0
      BY <2>2, <2>3, <2>4 DEF Committed, Snapshot
    <2>6. mine'[h] = snap' /\ snap' # NoCopy /\ pc'[h] = "tell_cancelled"
      BY <1>0, <2>1, <2>4, SessionAssumption DEF Go
    <2> QED BY <2>5, <2>6 DEF Copy, Driving, Calling, Quiet
  <1>9. CASE TellCancelled(h)
    BY <1>0, <1>9, <1>b, PlainLabels DEF TellCancelled, Go
  <1>10. CASE Release(h)
    BY <1>10, <1>b DEF Release, Leaves
  <1>11. CASE Cancel(h)
    BY <1>0, <1>11, PlainLabels DEF Cancel, End, Go, Pumped
  <1> QED BY <1>1, <1>2, <1>3, <1>4, <1>5, <1>6, <1>7, <1>8, <1>9, <1>10, <1>11 DEF Recover, Close

(* What a failing call leaves behind is still known to the agent.            *)
Dangling(h) ==
    /\ mine[h] # NoCopy /\ mine[h].run # 0 /\ Bounded(mine[h])
    /\ mine[h].revision <= snap.revision
    /\ mine[h].revision = snap.revision => Covers(mine[h])

(* It is all that is said of the copy there.                                 *)
LEMMA DanglingCopies ==
    ASSUME NEW h \in Hosts, pc'[h] = "cleanup", Dangling(h)'
    PROVE  Copy(h)'
    BY DEF Dangling, Copy, Driving, Calling, Quiet

(* A call of the agent that ends the graph.                                  *)
LEMMA AfterStops ==
    ASSUME TypeOK, NEW h \in Hosts, NEW result \in Results, NEW next \in Labels, After(h, result, next),
           Dangling(h)', result = "ok" => Copy(h)'
    PROVE  Copy(h)'
  <1>1. CASE result = "ok"
    BY <1>1
  <1>2. CASE pc' = [pc EXCEPT ![h] = Pumped(h)]
    BY <1>2, PlainLabels DEF Pumped, TypeOK
  <1>3. CASE pc' = [pc EXCEPT ![h] = "cleanup"]
    BY <1>3, DanglingCopies DEF TypeOK
  <1> QED BY <1>1, <1>2, <1>3, AfterCases

(* The copy: the agent's checkpoints.                                        *)
LEMMA CopiesStayWriting ==
    ASSUME IInv, TypeOK', NEW h \in Hosts,
           Prepare(h) \/ Abort(h) \/ Stop(h) \/ Complete(h) \/ SaveCalls(h) \/ SaveResult(h)
    PROVE  Copy(h)'
  <1>0. /\ TypeOK /\ CachesTrail /\ Copy(h) /\ pc \in [Hosts -> Labels] /\ Covers(snap) /\ Bounded(snap)
        /\ mine \in [Hosts -> Snapshot \cup {NoCopy}] /\ cache \in [Hosts -> Snapshot \cup {NoCopy}]
        /\ snap \in Snapshot
    BY DEF IInv, TypeOK
  <1>l. {"failing", "answer", "begin", "finished"} \subseteq Labels
    BY DEF Labels
  <1>1. CASE Prepare(h)
    <2>1. CASE pc'[h] = Pumped(h)
      BY <2>1, PlainLabels DEF Pumped
    <2>2. ASSUME NEW result \in Results, Admits(Current(h)), Current(h).run < MaxRuns,
                 Write(h, Begun(Current(h)), result),
                 result = "ok", Go(h, "accept"), mine' = [mine EXCEPT ![h] = snap']
          PROVE  Copy(h)'
      <3>1. Current(h) \in Snapshot
        BY <1>0, CurrentIsASnapshot
      <3>2. Begun(Current(h)) \in Snapshot
        BY <2>2, <3>1, BegunIsASnapshot
      <3>3. snap' = Committed(Begun(snap)) /\ Current(h) = snap /\ snap' \in Snapshot
        BY <1>0, <2>2, <3>2, WriteIsConditional DEF Stored
      <3>4. /\ snap'.pending = {} /\ snap'.recorded = snap.recorded /\ snap'.run = snap.run + 1
            /\ snap'.status = "Running"
        BY <1>0, <2>2, <3>3 DEF Committed, Begun, Snapshot, Admits
      <3>5. snap.run \in Nat /\ \A c \in snap.recorded : c.run \in Nat /\ c.run <= snap.run
        BY <1>0, SessionAssumption DEF Bounded, Snapshot, Call
      <3>6. Bounded(snap') /\ CallsOf(snap') = {} /\ snap'.run # 0
        BY <3>4, <3>5 DEF Bounded, CallsOf
      <3>7. Numbered(snap')
        BY <3>3, <3>4, <3>6, NumberedFirst
      <3>8. mine'[h] = snap' /\ pc'[h] = "accept" /\ snap' # NoCopy /\ snap'.revision \in Nat
        BY <1>0, <2>2, <3>3, SessionAssumption DEF Go, Snapshot
      <3>. DEFINE z == snap'
      <3>9. /\ z # NoCopy /\ z.run # 0 /\ Bounded(z) /\ Numbered(z) /\ z.status = "Running" /\ z.pending = {}
            /\ z.revision <= z.revision
        BY <3>4, <3>6, <3>7, <3>8
      <3>10. mine'[h] = z /\ snap' = z /\ pc'[h] = "accept"
        BY <3>8
      <3>. HIDE DEF z
      <3>11. Bounded(mine[h])' /\ Numbered(mine[h])'
        BY <3>9, <3>10 DEF Bounded, Numbered, CallsOf
      <3> QED BY <3>9, <3>10, <3>11 DEF Copy, Driving, Calling, Quiet
    <2>3. CASE End(h, "hard", Pumped(h))
      BY <1>0, <2>1, <2>3 DEF End, Go
    <2> QED BY <1>1, <2>2, <2>3 DEF Prepare
  <1>2. CASE Abort(h)
    BY <1>0, <1>2, PlainLabels DEF Abort, End, Go, Pumped
  <1>3. ASSUME pc[h] \in {"stopping", "cleanup", "answering"}, mine'[h] = mine[h],
               NEW status \in Statuses \ {"Running"}, NEW result \in Results, effects' = effects,
               Write(h, [mine[h] EXCEPT !.status = status], result)
        PROVE  /\ Dangling(h)'
               /\ result = "ok" => /\ mine'[h] # NoCopy /\ mine'[h].run # 0 /\ Bounded(mine[h])'
                                   /\ mine'[h].revision < snap'.revision
    <2>1. Dangling(h) /\ mine[h] \in Snapshot
      BY <1>0, <1>3, MineIsASnapshot DEF Copy, Driving, Dangling
    <2>2. [mine[h] EXCEPT !.status = status] \in Snapshot /\ [mine[h] EXCEPT !.status = status].revision = mine[h].revision
      BY <2>1, StatusKeeps
    <2>3. /\ snap' = snap \/ snap' = Committed([mine[h] EXCEPT !.status = status])
          /\ result = "ok" => snap' = Committed([mine[h] EXCEPT !.status = status])
      BY <1>0, <1>3, <2>2, WriteIsConditional DEF Stored
    <2>4. Committed([mine[h] EXCEPT !.status = status]).revision = mine[h].revision + 1
      BY <2>2 DEF Committed, Snapshot
    <2>5. mine[h].revision \in Nat
      BY <2>1 DEF Snapshot
    <2>6. Bounded(mine[h])' /\ (Covers(mine[h]) => Covers(mine[h])')
      BY <1>3, <2>1 DEF Dangling, Bounded, Covers
    <2> QED BY <1>3, <2>1, <2>3, <2>4, <2>5, <2>6 DEF Dangling
  <1>4. CASE Stop(h)
    <2>1. PICK result \in Results :
            /\ Write(h, Failed(h), result)
            /\ IF pc[h] = "stopping" THEN After(h, result, "failing")
               ELSE End(h, "hard", IF result = "ok" THEN "lastword" ELSE Pumped(h))
      BY <1>4 DEF Stop
    <2>2. /\ Dangling(h)'
          /\ result = "ok" => /\ mine'[h] # NoCopy /\ mine'[h].run # 0 /\ Bounded(mine[h])'
                              /\ mine'[h].revision < snap'.revision
      BY <1>3, <1>4, <2>1 DEF Stop, Failed, Statuses
    <2>3. CASE pc[h] = "stopping"
      <3>1. result = "ok" => pc'[h] = "failing"
        BY <1>0, <2>1, <2>3, AfterCases
      <3>2. result = "ok" => Copy(h)'
        BY <2>2, <3>1 DEF Copy, Driving, Calling, Quiet
      <3> QED BY <1>0, <1>l, <2>1, <2>2, <2>3, <3>2, AfterStops
    <2>4. CASE pc[h] = "cleanup"
      <3>1. pc'[h] = IF result = "ok" THEN "lastword" ELSE Pumped(h)
        BY <1>0, <2>1, <2>4 DEF End, Go
      <3>2. CASE result = "ok"
        BY <2>2, <3>1, <3>2 DEF Copy, Driving, Calling, Quiet
      <3> QED BY <3>1, <3>2, PlainLabels DEF Pumped
    <2> QED BY <1>4, <2>3, <2>4 DEF Stop
  <1>5. CASE Complete(h)
    <2>1. PICK result \in Results :
            /\ Write(h, [mine[h] EXCEPT !.status = "Completed"], result)
            /\ After(h, result, "answer")
      BY <1>5 DEF Complete
    <2>2. /\ Dangling(h)'
          /\ result = "ok" => /\ mine'[h] # NoCopy /\ mine'[h].run # 0 /\ Bounded(mine[h])'
                              /\ mine'[h].revision < snap'.revision
      BY <1>3, <1>5, <2>1 DEF Complete, Statuses
    <2>3. result = "ok" => pc'[h] = "answer"
      BY <1>0, <2>1, AfterCases
    <2>4. result = "ok" => Copy(h)'
      BY <2>2, <2>3 DEF Copy, Driving, Calling, Quiet
    <2> QED BY <1>0, <1>l, <2>1, <2>2, <2>4, AfterStops
  <1>6. ASSUME NEW next \in {"begin", "finished"}, SaveCalls(h) \/ SaveResult(h), effects' = effects,
               pc[h] \in {"calling", "record"}, next = "begin" => pc[h] = "calling",
               NEW result \in Results, Write(h, mine[h], result),
               mine' = [mine EXCEPT ![h] = IF result = "ok" THEN snap' ELSE @], After(h, result, next)
        PROVE  Copy(h)'
    <2>1. /\ mine[h] \in Snapshot /\ Bounded(mine[h]) /\ Covers(mine[h]) /\ Numbered(mine[h])
          /\ mine[h].run # 0 /\ mine[h].status = "Running" /\ mine[h].revision = snap.revision
          /\ Range(effects) \cap mine[h].pending = {}
          /\ pc[h] = "calling" => mine[h].pending # {}
      BY <1>0, <1>6, MineIsASnapshot DEF Copy, Calling
    <2>2. /\ snap' = snap \/ snap' = Committed(mine[h])
          /\ result = "ok" => snap' = Committed(mine[h])
          /\ snap.revision <= snap'.revision
          /\ snap' \in Snapshot
      BY <1>0, <1>6, <2>1, WriteIsConditional DEF Stored
    <2>3. LET z == Committed(mine[h]) IN
          /\ z.pending = mine[h].pending /\ z.recorded = mine[h].recorded /\ z.run = mine[h].run
          /\ z.status = mine[h].status /\ z.revision = mine[h].revision + 1
      BY <2>1 DEF Committed, Snapshot
    <2>4. mine[h] # NoCopy /\ mine[h].revision \in Nat /\ snap' # NoCopy
      BY <2>1, <2>2, SessionAssumption DEF Snapshot
    <2>5. CASE result = "ok"
      <3>1. mine'[h] = snap' /\ snap' = Committed(mine[h]) /\ pc'[h] = next
        BY <1>0, <1>6, <2>2, <2>5, AfterCases
      <3>2. /\ Bounded(mine[h])' /\ Numbered(mine[h])'
            /\ (Range(effects) \cap mine[h].pending = {})'
            /\ Covers(mine[h])'
            /\ mine'[h].run # 0 /\ mine'[h].status = "Running"
            /\ pc[h] = "calling" => mine'[h].pending # {}
        <4>1. /\ mine'[h].pending = mine[h].pending /\ mine'[h].recorded = mine[h].recorded
              /\ mine'[h].run = mine[h].run /\ mine'[h].status = mine[h].status
          BY <2>3, <3>1
        <4>2. Bounded(mine[h])' /\ Covers(mine[h])'
          BY <1>6, <2>1, <4>1 DEF Bounded, Covers
        <4>3. Numbered(mine[h])'
          BY <2>1, <4>1, NumberedAlike
        <4> QED BY <1>6, <2>1, <4>1, <4>2, <4>3
      <3>3. mine'[h].revision <= snap'.revision
        BY <2>2, <3>1 DEF Snapshot
      <3> QED BY <1>6, <2>4, <3>1, <3>2, <3>3 DEF Copy, Driving, Calling, Quiet
    <2>6. CASE result # "ok"
      <3>1. mine'[h] = mine[h]
        BY <1>0, <1>6, <2>6
      <3>2. Bounded(mine[h])' /\ Covers(mine[h])'
        BY <1>6, <2>1, <3>1 DEF Bounded, Covers
      <3>3. Dangling(h)'
        BY <2>1, <2>2, <2>4, <3>1, <3>2 DEF Dangling
      <3> QED BY <1>0, <1>6, <1>l, <2>6, <3>3, AfterStops
    <2> QED BY <2>5, <2>6
  <1>7. CASE SaveCalls(h)
    BY <1>6, <1>7 DEF SaveCalls, Save
  <1>8. CASE SaveResult(h)
    BY <1>6, <1>8 DEF SaveResult, Save
  <1> QED BY <1>1, <1>2, <1>4, <1>5, <1>7, <1>8

(* A step that leaves the copy, the store and the effects alone.             *)
LEMMA SteadyDangling ==
    ASSUME NEW h \in Hosts, Dangling(h), mine'[h] = mine[h], UNCHANGED <<snap, effects>>
    PROVE  Dangling(h)'
    BY DEF Dangling, Bounded, Covers

(* Cleanup: the agent was at work.                                           *)
LEMMA DrivingDangles ==
    ASSUME TypeOK, NEW h \in Hosts, Copy(h), Covers(snap),
           pc[h] \in Driving \cup Calling \cup {"failing", "answer"}
    PROVE  Dangling(h)
  <1>1. mine[h] # NoCopy /\ mine[h].run # 0 /\ Bounded(mine[h]) /\ mine[h].revision <= snap.revision
    BY MineIsASnapshot DEF Copy, TypeOK, Snapshot
  <1>2. mine[h].revision = snap.revision => Covers(mine[h])
    BY MineIsASnapshot DEF Copy, TypeOK, Snapshot
  <1> QED BY <1>1, <1>2 DEF Dangling

(* The copy: the journal and the model.                                      *)
LEMMA CopiesStayTalking ==
    ASSUME IInv, TypeOK', NEW h \in Hosts,
           Accept(h) \/ Turn(h) \/ Suspend(h) \/ ModelFails(h) \/ TellFailure(h) \/ Answer(h) \/ EndTool(h)
    PROVE  Copy(h)'
  <1>0. /\ TypeOK /\ CachesTrail /\ Copy(h) /\ pc \in [Hosts -> Labels] /\ Covers(snap) /\ Bounded(snap)
        /\ snap \in Snapshot
    BY DEF IInv, TypeOK
  <1>1. UNCHANGED <<snap, effects, mine, cache>>
    BY DEF Accept, Turn, Suspend, ModelFails, TellFailure, Answer, EndTool
  <1>2. pc[h] \in Driving \cup Calling \cup {"failing", "answer", "lastword"}
    BY DEF Accept, Turn, Suspend, ModelFails, TellFailure, Answer, EndTool, Driving, Calling
  <1>3. pc[h] # "lastword" => Dangling(h)'
    BY <1>0, <1>1, <1>2, DrivingDangles, SteadyDangling
  <1>4. (Bounded(mine[h]) => Bounded(mine[h])') /\ (Numbered(mine[h]) => Numbered(mine[h])')
        /\ (Covers(mine[h]) => Covers(mine[h])')
    BY <1>1, NumberedAlike DEF Bounded, Covers
  <1>5. ASSUME pc[h] \in {"accept", "turn", "model", "waiting", "suspended"},
               pc'[h] \in {"abort", "turn", "model", "waiting", "suspended", "stopping"}
        PROVE  Copy(h)'
    BY <1>0, <1>1, <1>4, <1>5 DEF Copy, Driving, Calling, Quiet
  <1>6. CASE Accept(h)
    BY <1>0, <1>5, <1>6 DEF Accept, Go
  <1>7. CASE Turn(h)
    <2>1. CASE End(h, "soft", "stopping")
      BY <1>0, <1>5, <1>7, <2>1 DEF Turn, End, Go
    <2>2. ASSUME NEW result \in Results, After(h, result, "model")
          PROVE  Copy(h)'
      <3>1. result = "ok" => pc'[h] = "model"
        BY <1>0, <2>2, AfterCases
      <3>2. result = "ok" => Copy(h)'
        BY <1>5, <1>7, <3>1 DEF Turn
      <3>3. "model" \in Labels /\ pc[h] # "lastword"
        BY <1>7 DEF Labels, Turn
      <3> QED BY <1>0, <1>3, <2>2, <3>2, <3>3, AfterStops
    <2> QED BY <1>7, <2>1, <2>2 DEF Turn
  <1>8. CASE Suspend(h)
    BY <1>0, <1>5, <1>8 DEF Suspend, Go
  <1>9. CASE ModelFails(h)
    <2>1. pc'[h] \in {"stopping", "cleanup", "finish"}
      BY <1>0, <1>9 DEF ModelFails, End, Go
    <2> QED BY <1>3, <1>5, <1>9, <2>1, DanglingCopies, PlainLabels DEF ModelFails
  <1>10. CASE TellFailure(h)
    <2>1. PICK result \in Results :
            IF pc[h] = "failing" THEN After(h, result, Pumped(h)) ELSE End(h, "hard", Pumped(h))
      BY <1>10 DEF TellFailure
    <2>2. pc'[h] = Pumped(h) => Copy(h)'
      BY PlainLabels DEF Pumped
    <2>3. CASE pc[h] = "failing"
      <3>1. result = "ok" => Copy(h)'
        BY <1>0, <2>1, <2>2, <2>3, AfterCases
      <3> QED BY <1>0, <1>3, <2>1, <2>3, <3>1, AfterStops, PumpedIsALabel
    <2>4. CASE pc[h] = "lastword"
      BY <1>0, <2>1, <2>2, <2>4 DEF End, Go
    <2> QED BY <1>10, <2>3, <2>4 DEF TellFailure
  <1>11. CASE Answer(h)
    <2>1. PICK result \in Results :
            \/ result = "ok" /\ End(h, "ok", Pumped(h))
            \/ result # "ok" /\ After(h, result, "finish")
      BY <1>11 DEF Answer
    <2>2. CASE End(h, "ok", Pumped(h))
      BY <1>0, <2>2, PlainLabels DEF End, Go, Pumped
    <2>3. CASE result # "ok" /\ After(h, result, "finish")
      <3>1. "finish" \in Labels /\ pc[h] # "lastword"
        BY <1>11 DEF Answer, Labels
      <3> QED BY <1>0, <1>3, <2>3, <3>1, AfterStops
    <2> QED BY <2>1, <2>2, <2>3
  <1>12. CASE EndTool(h)
    <2>. DEFINE next == IF mine[h].pending = {} THEN "turn" ELSE "begin"
    <2>1. PICK result \in Results : After(h, result, next)
      BY <1>12 DEF EndTool
    <2>2. next \in Labels /\ pc[h] = "finished"
      BY <1>12 DEF Labels, EndTool
    <2>3. result = "ok" => pc'[h] = next
      BY <1>0, <2>1, AfterCases
    <2>4. ASSUME result = "ok" PROVE Copy(h)'
      <3>1. CASE mine[h].pending = {}
        BY <1>0, <1>1, <1>4, <2>2, <2>3, <2>4, <3>1 DEF Copy, Driving, Calling, Quiet
      <3>2. CASE mine[h].pending # {}
        BY <1>0, <1>1, <1>4, <2>2, <2>3, <2>4, <3>2 DEF Copy, Driving, Calling, Quiet
      <3> QED BY <3>1, <3>2
    <2>. HIDE DEF next
    <2> QED BY <1>0, <1>3, <2>1, <2>2, <2>4, AfterStops
  <1> QED BY <1>6, <1>7, <1>8, <1>9, <1>10, <1>11, <1>12

(* The copy: a reply and the calls it asks for.                              *)
LEMMA CopiesStayExecuting ==
    ASSUME IInv, TypeOK', NEW h \in Hosts,
           Reply(h) \/ StartTool(h) \/ Execute(h)
    PROVE  Copy(h)'
  <1>0. /\ TypeOK /\ CachesTrail /\ Copy(h) /\ pc \in [Hosts -> Labels] /\ Covers(snap) /\ Bounded(snap)
        /\ snap \in Snapshot /\ mine \in [Hosts -> Snapshot \cup {NoCopy}] /\ effects \in Seq(Call)
    BY DEF IInv, TypeOK
  <1>1. UNCHANGED <<snap, cache>> /\ pc[h] \in Driving \cup Calling /\ pc[h] # "lastword"
    BY DEF Reply, StartTool, Execute, Driving, Calling
  <1>2. Dangling(h) /\ mine[h] \in Snapshot
    BY <1>0, <1>1, DrivingDangles, MineIsASnapshot DEF Dangling
  <1>3. mine[h] = snap /\ snap.status = "Running" /\ Numbered(mine[h]) /\ mine[h].revision \in Nat
    BY <1>0, <1>2 DEF Copy, Driving, Calling, Quiet, Reply, StartTool, Execute, Snapshot
  <1>4. CASE Reply(h)
    <2>1. effects' = effects /\ mine[h].pending = {}
      BY <1>0, <1>4 DEF Reply, Copy, Driving, Quiet
    <2>2. CASE UNCHANGED mine /\ pc'[h] \in {"stopping", "answering"}
      <3>1. pc[h] \in {"model", "waiting"}
        BY <1>4 DEF Reply
      <3>2. Bounded(mine[h])' /\ Numbered(mine[h])'
        BY <1>0, <1>2, <1>3, <2>2, NumberedAlike DEF Dangling, Bounded
      <3> QED BY <1>0, <1>1, <1>2, <1>3, <2>1, <2>2, <3>1, <3>2 DEF Dangling, Copy, Driving, Calling, Quiet
    <2>3. CASE UNCHANGED mine /\ pc'[h] = "cleanup"
      BY <1>1, <1>2, <2>1, <2>3, SteadyDangling, DanglingCopies
    <2>4. ASSUME NEW n \in 1..MaxCalls, Fresh(h, n) \subseteq Call,
                 mine' = [mine EXCEPT ![h].pending = Fresh(h, n)], pc'[h] = "calling"
          PROVE  Copy(h)'
      <3>. DEFINE z == [mine[h] EXCEPT !.pending = Fresh(h, n)]
      <3>1. mine'[h] = z
        BY <1>0, <2>4
      <3>2. z \in Snapshot
        BY <1>2, <2>4, FreshCalls
      <3>3. /\ Numbered(z) /\ z.pending # {} /\ z.pending \cap mine[h].recorded = {}
            /\ \A c \in z.pending : c.run = mine[h].run
        BY <1>2, <1>3, <2>4, NumberedFresh
      <3>4. /\ z.recorded = mine[h].recorded /\ z.run = mine[h].run /\ z.status = mine[h].status
            /\ z.revision = mine[h].revision
        BY <1>2 DEF Snapshot
      <3>. HIDE DEF z
      <3>5. Range(effects) \subseteq mine[h].recorded
        BY <1>0, <1>3, <2>1 DEF Covers
      <3>6. Bounded(z) /\ z.run \in Nat
        BY <1>2, <3>3, <3>4 DEF Bounded, Dangling, Snapshot
      <3>7. /\ Numbered(mine[h])' /\ Bounded(mine[h])' /\ Covers(mine[h])'
            /\ (Range(effects) \cap mine[h].pending = {})'
        BY <2>1, <3>1, <3>3, <3>4, <3>5, <3>6, NumberedAlike DEF Bounded, Covers
      <3>8. /\ mine'[h] # NoCopy /\ mine'[h].run # 0 /\ mine'[h].revision <= snap'.revision
            /\ mine'[h].status = "Running" /\ snap'.status = "Running"
            /\ mine'[h].run = snap'.run /\ mine'[h].revision = snap'.revision
            /\ mine'[h].pending # {}
        BY <1>1, <1>2, <1>3, <3>1, <3>2, <3>3, <3>4, SessionAssumption DEF Dangling
      <3> QED BY <2>4, <3>7, <3>8 DEF Copy, Driving, Calling, Quiet
    <2>5. \/ UNCHANGED mine /\ pc'[h] \in {"stopping", "answering", "cleanup"}
          \/ \E n \in 1..MaxCalls : Fresh(h, n) \subseteq Call
               /\ mine' = [mine EXCEPT ![h].pending = Fresh(h, n)] /\ pc'[h] = "calling"
      BY <1>0, <1>4 DEF Reply, End, Go
    <2> QED BY <2>2, <2>3, <2>4, <2>5
  <1>5. CASE StartTool(h)
    <2>1. PICK result \in Results :
            Journalled("ToolStarted", mine[h].run, Due(h).k, result) /\ After(h, result, "execute")
      BY <1>5 DEF StartTool
    <2>2. UNCHANGED <<effects, mine>> /\ pc[h] = "begin" /\ mine[h].pending # {}
      BY <1>0, <1>5 DEF StartTool, Copy
    <2>3. Dangling(h)'
      BY <1>1, <1>2, <2>2, SteadyDangling
    <2>4. Due(h).run = mine[h].run /\ Due(h).k \in Nat
      BY <1>2, <1>3, <2>2, DueIsNext, UsedIsNat
    <2>5. ASSUME result = "ok" PROVE Copy(h)'
      <3>1. pc'[h] = "execute"
        BY <1>0, <2>1, <2>5, AfterCases
      <3>2. journal' = Append(journal, [kind |-> "ToolStarted", run |-> mine[h].run, k |-> Due(h).k])
        BY <2>1, <2>5 DEF Journalled
      <3>3. Due(h)' = Due(h)
        BY <2>2, Zenon DEF Due
      <3>4. Len(journal) + 1 \in DOMAIN journal'
            /\ journal'[Len(journal) + 1] = [kind |-> "ToolStarted", run |-> mine[h].run, k |-> Due(h).k]
        BY <1>0, <3>2 DEF TypeOK
      <3>5. Announced(Due(h))'
        BY <2>4, <3>3, <3>4 DEF Announced
      <3>6. /\ Bounded(mine[h])' /\ Numbered(mine[h])' /\ Covers(mine[h])'
        BY <1>0, <1>2, <1>3, <2>2, NumberedAlike DEF Bounded, Covers, Dangling
      <3> QED BY <1>0, <1>1, <1>2, <1>3, <2>2, <3>1, <3>5, <3>6 DEF Dangling, Copy, Driving, Calling, Quiet
    <2>6. "execute" \in Labels
      BY DEF Labels
    <2> QED BY <1>0, <2>1, <2>3, <2>5, <2>6, AfterStops
  <1>6. CASE Execute(h)
    <2>1. /\ effects' = effects \/ effects' = Append(effects, Due(h))
          /\ Due(h) \in Call /\ Due(h) \in mine[h].pending /\ Due(h) \notin Range(effects)
          /\ Due(h).run = mine[h].run
      BY <1>6, ExecutedIsPending
    <2>2. Range(effects') \subseteq Range(effects) \cup {Due(h)}
      <3>1. Range(Append(effects, Due(h))) = Range(effects) \cup {Due(h)}
        BY <1>0, <2>1, AppendedRange
      <3> QED BY <2>1, <3>1
    <2>3. Range(effects') \subseteq mine[h].pending \cup mine[h].recorded
      BY <1>0, <1>3, <2>1, <2>2 DEF Covers
    <2>4. CASE UNCHANGED mine /\ pc'[h] = "cleanup"
      <3>1. Dangling(h)'
        BY <1>1, <1>2, <2>3, <2>4 DEF Dangling, Bounded, Covers
      <3> QED BY <2>4, <3>1, DanglingCopies
    <2>5. CASE mine' = [mine EXCEPT ![h].pending = @ \ {Due(h)}, ![h].recorded = @ \cup {Due(h)}]
               /\ pc'[h] = "record"
      <3>. DEFINE z == [mine[h] EXCEPT !.pending = @ \ {Due(h)}, !.recorded = @ \cup {Due(h)}]
      <3>1. mine'[h] = z
        BY <1>0, <2>5
      <3>2. z \in Snapshot
        BY <1>2, <2>1, ExecutedIsASnapshot
      <3>3. Numbered(z)
        BY <1>2, <1>3, <2>1, NumberedNext
      <3>4. /\ z.pending = mine[h].pending \ {Due(h)} /\ z.recorded = mine[h].recorded \cup {Due(h)}
            /\ z.run = mine[h].run /\ z.status = mine[h].status /\ z.revision = mine[h].revision
        BY <1>2 DEF Snapshot
      <3>. HIDE DEF z
      <3>5. Range(effects) \cap mine[h].pending = {}
        BY <1>0, <1>6 DEF Execute, Copy, Calling
      <3>6. Range(effects') \cap z.pending = {} /\ Range(effects') \subseteq z.pending \cup z.recorded
        BY <2>2, <2>3, <3>4, <3>5
      <3>7. Bounded(z)
        BY <1>2, <2>1, <3>4 DEF Bounded, Dangling, Snapshot
      <3>8. /\ Numbered(mine[h])' /\ Bounded(mine[h])' /\ Covers(mine[h])'
            /\ (Range(effects) \cap mine[h].pending = {})'
        BY <3>1, <3>3, <3>6, <3>7, NumberedAlike DEF Bounded, Covers
      <3>9. /\ mine'[h] # NoCopy /\ mine'[h].run # 0 /\ mine'[h].revision <= snap'.revision
            /\ mine'[h].status = "Running" /\ snap'.status = "Running"
            /\ mine'[h].run = snap'.run /\ mine'[h].revision = snap'.revision
        BY <1>1, <1>2, <1>3, <3>1, <3>2, <3>4, SessionAssumption DEF Dangling
      <3> QED BY <2>5, <3>8, <3>9 DEF Copy, Driving, Calling, Quiet
    <2>6. \/ UNCHANGED mine /\ pc'[h] = "cleanup"
          \/ /\ mine' = [mine EXCEPT ![h].pending = @ \ {Due(h)}, ![h].recorded = @ \cup {Due(h)}]
             /\ pc'[h] = "record"
      BY <1>0, <1>6 DEF Execute, End, Go
    <2> QED BY <2>4, <2>5, <2>6
  <1> QED BY <1>4, <1>5, <1>6

----------------------------------------------------------------------------
(* Every step keeps the invariant.                                           *)
LEMMA TypesAreKept ==
    ASSUME IInv, Next
    PROVE  TypeOK'
  <1>0. TypeOK /\ CachesTrail /\ Bounded(snap) /\ \A h \in Hosts : Copy(h)
    BY DEF IInv
  <1>1. ASSUME NEW h \in Hosts, Start(h) \/ TakeLock(h) \/ Work(h) \/ Cancel(h) \/ Abandon(h) \/ Kill(h)
        PROVE  TypeOK'
    BY <1>0, <1>1, TypesStayPlain, TypesStayRecovering, TypesStayAgent DEF Work, Recover, Agent, Close
  <1>2. CASE Reconcile
    BY <1>0, <1>2, ReconcileTypes
  <1> QED BY <1>1, <1>2 DEF Next

(* and every host's copy.                                                    *)
LEMMA CopiesAreKept ==
    ASSUME IInv, TypeOK', snap.revision <= snap'.revision, Next
    PROVE  \A g \in Hosts : Copy(g)'
  <1>0. /\ TypeOK /\ CachesTrail /\ HoldersHaveTheLock /\ (\A h \in Hosts : Copy(h)) /\ Covers(snap)
        /\ pc \in [Hosts -> Labels] /\ cache \in [Hosts -> Snapshot \cup {NoCopy}]
        /\ mine \in [Hosts -> Snapshot \cup {NoCopy}] /\ lock \in Hosts \cup {NoOne}
    BY DEF IInv, TypeOK
  <1>1. ASSUME NEW h \in Hosts, Work(h) \/ Cancel(h), Moves(h) PROVE \A g \in Hosts : Copy(g)'
    <2>1. Copy(h)'
      BY <1>1, CopiesStayRecovering, CopiesStayWriting, CopiesStayTalking, CopiesStayExecuting DEF Work, Agent
    <2> QED BY <1>0, <1>1, <2>1, OthersAreIdle
  <1>2. ASSUME NEW h \in Hosts, Moves(h), Abandon(h) \/ Kill(h) PROVE FALSE
    <2>1. Leaves(h)
      BY <1>2, FailsLeaves DEF Abandon, Kill, Leaves
    <2>2. pc'[h] \in Off
      BY <1>0, <2>1 DEF Leaves, Leave, Go, Off
    <2> QED BY <1>0, <1>2, <2>2 DEF Moves
  <1>3. ASSUME NEW h \in Hosts, Leaves(h), pc[h] \notin Off PROVE \A g \in Hosts : Copy(g)'
    BY <1>0, <1>3, LeaversAreIdle
  <1>4. ASSUME NEW h \in Hosts, pc[h] \in Off, Start(h) \/ Kill(h), NEW g \in Hosts PROVE Copy(g)'
    <2>1. CASE g = h
      <3>1. pc'[h] \in Off
        BY <1>0, <1>4 DEF Start, Kill, Leave, Go, Off
      <3> QED BY <2>1, <3>1, IdleCopies
    <2>2. CASE g # h
      <3>1. pc'[g] = pc[g] /\ mine'[g] = mine[g] /\ cache'[g] = cache[g] /\ UNCHANGED <<snap, effects, journal>>
        BY <1>0, <1>4, <2>2 DEF Start, Kill, Leave, Go
      <3> QED BY <1>0, <3>1, UntouchedCopies
    <2> QED BY <2>1, <2>2
  <1>5. ASSUME NEW h \in Hosts, TakeLock(h), NEW g \in Hosts PROVE Copy(g)'
    <2>1. CASE g = h
      BY <1>0, <1>5, <2>1, PlainLabels DEF TakeLock, Go
    <2>2. CASE g # h
      <3>1. pc'[g] = pc[g] /\ mine'[g] = mine[g] /\ cache'[g] = cache[g] /\ UNCHANGED <<snap, effects, journal>>
        BY <1>0, <1>5, <2>2 DEF TakeLock, Go
      <3> QED BY <1>0, <3>1, UntouchedCopies
    <2> QED BY <2>1, <2>2
  <1>6. ASSUME Reconcile, NEW g \in Hosts PROVE Copy(g)'
    <2>1. UNCHANGED <<pc, mine, cache, effects, journal>> /\ snap.status = "Indeterminate"
      BY <1>6 DEF Reconcile, control
    <2>2. snap'.revision = snap.revision + 1 /\ snap.revision \in Nat
      BY <1>0, <1>6 DEF Reconcile, Reconciled, TypeOK, Snapshot
    <2>3. pc[g] \notin Driving \cup Calling
      BY <1>0, <2>1 DEF Copy
    <2>4. mine[g] # NoCopy => mine[g].revision \in Nat
      BY <1>0 DEF Snapshot
    <2>5. /\ pc'[g] = pc[g] /\ mine'[g] = mine[g] /\ cache'[g] = cache[g]
          /\ Bounded(mine[g]) => Bounded(mine[g])'
      BY <2>1 DEF Bounded
    <2> QED BY <1>0, <2>2, <2>3, <2>4, <2>5 DEF Copy, Driving, Calling, Quiet
  <1>7. ASSUME NEW h \in Hosts, Work(h) \/ Cancel(h) \/ Abandon(h) PROVE pc[h] \notin Off
    BY <1>7 DEF Work, Recover, Agent, Close, Cancel, Abandon, Off, Examine, Fence, Settle, Note, Unmark, Prepare,
                Accept, Abort, Turn, Suspend, ModelFails, Reply, Stop, TellFailure, Complete, Answer, SaveCalls,
                SaveResult, Save, StartTool, Execute, EndTool, MarkAdmitted, Finish, RecordCancelled, TellCancelled,
                Release
  <1>8. ASSUME NEW h \in Hosts, Work(h) \/ Cancel(h) \/ Abandon(h) \/ Kill(h) PROVE \A g \in Hosts : Copy(g)'
    <2>1. Leaves(h) \/ Moves(h)
      BY <1>0, <1>8, OneHostMoves
    <2> QED BY <1>1, <1>2, <1>3, <1>4, <1>7, <1>8, <2>1
  <1> QED BY <1>4, <1>5, <1>6, <1>8, StartsOff DEF Next

(* The invariant holds at first,                                             *)
LEMMA StartsSafe == Init => IInv
  <1>. SUFFICES ASSUME Init PROVE IInv
    OBVIOUS
  <1>. USE DEF Init
  <1>1. TypeOK
    <2>1. snap \in Snapshot
      BY SessionAssumption DEF Snapshot, Statuses
    <2>2. marker \in Marker
      BY ClearedIsAMarker
    <2>3. journal \in Seq(Event) /\ effects \in Seq(Call) /\ "idle" \in Labels
      BY DEF Labels
    <2> QED BY <2>1, <2>2, <2>3 DEF TypeOK
  <1>2. Range(effects) = {} /\ IsInjective(effects)
    BY DEF Range, IsInjective
  <1>3. HoldersHaveTheLock /\ CachesTrail
    BY DEF HoldersHaveTheLock, CachesTrail, Off
  <1>4. Covers(snap) /\ Bounded(snap) /\ EffectsHappenOnce /\ EffectsAreAnnounced
    BY <1>2 DEF Covers, Bounded, EffectsHappenOnce, EffectsAreAnnounced
  <1>5. \A h \in Hosts : Copy(h)
    BY DEF Copy, Driving, Calling, Quiet
  <1> QED BY <1>1, <1>3, <1>4, <1>5 DEF IInv

(* every step keeps it,                                                      *)
LEMMA StepsSafe == IInv /\ [Next]_vars => IInv'
  <1>. SUFFICES ASSUME IInv, [Next]_vars PROVE IInv'
    OBVIOUS
  <1>1. CASE Next
    <2>1. TypeOK' /\ HoldersHaveTheLock' /\ CachesTrail' /\ snap.revision <= snap'.revision
      BY <1>1, TypesAreKept, LockIsKept, CachesKeepTrailing DEF IInv
    <2>2. Kept'
      BY <1>1, <2>1, EffectsAreKept
    <2>3. \A h \in Hosts : Copy(h)'
      BY <1>1, <2>1, CopiesAreKept
    <2> QED BY <2>1, <2>2, <2>3 DEF IInv, Kept
  <1>2. CASE UNCHANGED vars
    <2>1. \A g \in Hosts : Copy(g)'
      BY <1>2, UntouchedCopies DEF IInv, vars, control, history
    <2>2. (TypeOK /\ HoldersHaveTheLock /\ CachesTrail)'
      BY <1>2 DEF IInv, vars, control, history, TypeOK, HoldersHaveTheLock, CachesTrail, Trails
    <2>3. (Covers(snap) /\ Bounded(snap) /\ EffectsHappenOnce /\ EffectsAreAnnounced)'
      BY <1>2 DEF IInv, vars, control, history, Covers, Bounded, EffectsHappenOnce, EffectsAreAnnounced
    <2> QED BY <2>1, <2>2, <2>3 DEF IInv
  <1> QED BY <1>1, <1>2

(* and it is as strong as what the runs check.                               *)
LEMMA InvariantIsSafe == IInv => EffectsAreSafe
  <1>. SUFFICES ASSUME IInv PROVE EffectsAreSafe
    OBVIOUS
  <1>1. EffectsAreAnnounced /\ EffectsAreAccounted /\ EffectsHappenOnce /\ TypeOK
    BY DEF IInv, Covers, EffectsAreAccounted
  <1>2. DriverOwnsTheSession
    BY DEF IInv, Copy, Driving, DriverOwnsTheSession
  <1>3. CachesTrailTheStore
    BY DEF IInv, CachesTrail, Trails, CachesTrailTheStore
  <1> QED BY <1>1, <1>2, <1>3 DEF EffectsAreSafe

(* No executed tool call is forgotten by the stored session, made twice, or  *)
(* missing from the journal, and an agent's copy is the stored session       *)
(* while it drives the run, whatever calls fail and whoever dies between any *)
(* two steps (handle_model_reply, checkpoint, recover_owned_run).            *)
THEOREM EffectsAreAlwaysSafe == Spec => []EffectsAreSafe
  <1>1. Spec => []IInv
    BY StartsSafe, StepsSafe, PTL DEF Spec
  <1> QED BY <1>1, InvariantIsSafe, PTL

----------------------------------------------------------------------------
(* How runs end.                                                             *)

Ended(r) == \E i \in DOMAIN journal : journal[i].run = r /\ journal[i].kind \in Endings

(* An interrupted run may go on once it is reconciled; these end it for good. *)
Closings == Endings \ {"Interrupted"}

Closed(r) == \E i \in DOMAIN journal : journal[i].run = r /\ journal[i].kind \in Closings

(* The run did not end as it should, or was taken up again after that.       *)
Sunk(s) == s.status \in {"Failed", "Indeterminate"} \/ (s.status = "Running" /\ s.run \in resumed)

(* What a plugin's copy says is still true of the run, if less than all.     *)
Known(c) ==
    /\ c.run <= snap.run
    /\ c.status = "Running" => ~Closed(c.run)
    /\ c.run = snap.run /\ c.status \in {"Failed", "Indeterminate"} => Sunk(snap)

(* The other hosts know nothing of the run yet.                              *)
New(h) == \A g \in Hosts \ {h} : cache[g] # NoCopy => cache[g].run < snap.run

(* The run is the host's own: begun by it, and never taken up again.         *)
Owned(h) ==
    /\ snap.run = mine[h].run /\ snap.run \notin resumed
    /\ New(h)

(* Where a host is about to journal how the run it drove has ended.          *)
LastWords == {"failing", "lastword", "answer", "tell_cancelled"}

LastStatus(label) ==
    CASE label \in {"failing", "lastword"} -> "Failed"
      [] label = "answer" -> "Completed"
      [] OTHER -> "Cancelled"

Stale(h) == cache[h] # NoCopy /\ cache[h].status # "Running"

(* What a host knows of the end of the run it works on.                      *)
Ending(h) ==
    /\ pc[h] \in Driving \cup Calling => Owned(h) /\ ~Ended(snap.run)
    /\ pc[h] = "cleanup" =>
        /\ Owned(h) /\ snap.status \notin {"Indeterminate", "Cancelled"}
        /\ mine[h].revision = snap.revision => ~Ended(snap.run) /\ snap.status = "Running"
    /\ pc[h] \in LastWords => Owned(h) /\ ~Ended(snap.run) /\ cache[h] = snap /\ snap.status = LastStatus(pc[h])
    /\ pc[h] = "note" => /\ ~Closed(mine[h].run) /\ mine[h].run <= snap.run /\ Stale(h)
                         /\ mine[h].run = snap.run => Sunk(snap)
    /\ pc[h] \in {"unmark", "admitted"} => Stale(h)
    /\ outcome[h] = "cancelled" => pc[h] \in {"ended", "finish", "record_cancelled", "tell_cancelled", "clear"}
    /\ pc[h] = "record_cancelled" => outcome[h] = "cancelled"
    /\ outcome[h] = "cancelled" /\ pc[h] \in {"ended", "finish", "record_cancelled"} =>
        \/ Stale(h)
        \/ snap = mine[h] /\ snap.status = "Running" /\ Owned(h) /\ ~Ended(snap.run)

(* The journal names no run the session does not know.                       *)
Agreed ==
    /\ \A i \in DOMAIN journal : journal[i].run <= snap.run
    /\ resumed \subseteq 1..snap.run
    /\ EndingsAreFinal
    /\ JournalAgrees

(* Where the marker is past recovering a run.                                *)
Unmarked == Labels \ {"idle", "down", "locked", "fence", "settle", "note", "unmark"}

(* A run being recovered has not come to an end of its own.                  *)
Fenced ==
    /\ marker.kind = "recovery" => ~Closed(marker.run)
    /\ \A h \in Hosts : pc[h] \in Unmarked => marker.kind # "recovery"

Cached == \A g \in Hosts : cache[g] # NoCopy => Known(cache[g])

(* The inductive invariant.                                                  *)
EInv ==
    /\ IInv
    /\ Agreed
    /\ Fenced
    /\ Cached
    /\ \A h \in Hosts : Ending(h)

----------------------------------------------------------------------------
(* What a step of a host does to the store: nothing, an advance of the       *)
(* session, or an event more.  Its plugin's copy comes from the store.       *)
Copied(h) ==
    /\ cache' = [cache EXCEPT ![h] = cache'[h]]
    /\ cache'[h] \in {Current(h), snap', NoCopy}

Keeps(h) == UNCHANGED <<snap, journal, resumed>> /\ Copied(h)

(* A snapshot that may follow the stored one: of the next run, of an         *)
(* interrupted run, or of a run of the host's own that has not ended.        *)
Fit(h, s) ==
    \/ s.run = snap.run + 1
    \/ /\ s.run = snap.run /\ snap.status = "Running"
       /\ s.status \in {"Failed", "Indeterminate"} \/ (New(h) /\ ~Ended(snap.run))

Saves(h) ==
    /\ UNCHANGED <<journal, marker, resumed>> /\ Copied(h) /\ Current(h) = snap
    /\ \E s \in Snapshot : snap' = Committed(s) /\ Fit(h, s)

(* The status that a closing event tells of.                                 *)
Told(kind) == CASE kind = "Answer" -> "Completed" [] kind = "Failure" -> "Failed" [] OTHER -> "Cancelled"

(* An event that may follow: none that ends a run, the interruption of a run *)
(* that has sunk, or the end of the run as the host left it in the store.    *)
Fitting(h, e) ==
    /\ e.run <= snap.run
    /\ \/ e.kind \notin Endings
       \/ e.kind = "Interrupted" /\ (e.run = snap.run => Sunk(snap))
       \/ /\ e.kind \in Closings
          /\ e.run = snap.run /\ snap.status = Told(e.kind) /\ New(h)
          /\ cache[h] = snap /\ marker.kind # "recovery"

Tells(h) ==
    /\ UNCHANGED <<snap, cache, marker, resumed>>
    /\ \E e \in Event : journal' = Append(journal, e) /\ ~Ended(e.run) /\ Fitting(h, e)

(* A longer journal.                                                         *)
LEMMA EndedAfterAppend ==
    ASSUME TypeOK, NEW e \in Event, journal' = Append(journal, e)
    PROVE  /\ \A r : Ended(r)' <=> Ended(r) \/ (e.run = r /\ e.kind \in Endings)
           /\ \A r : Closed(r)' <=> Closed(r) \/ (e.run = r /\ e.kind \in Closings)
           /\ \A kind, r : Recorded(kind, r)' <=> Recorded(kind, r) \/ (e.run = r /\ e.kind = kind)
  <1>1. journal \in Seq(Event)
    BY DEF TypeOK
  <1>2. DOMAIN journal' = DOMAIN journal \cup {Len(journal) + 1}
    BY <1>1
  <1>3. /\ \A i \in DOMAIN journal : journal'[i] = journal[i]
        /\ journal'[Len(journal) + 1] = e
    BY <1>1
  <1>. HIDE DEF Endings, Closings
  <1> QED BY <1>2, <1>3 DEF Ended, Closed, Recorded

(* The same journal.                                                         *)
LEMMA EndedAlike ==
    ASSUME journal' = journal
    PROVE  /\ \A r : (Ended(r)' <=> Ended(r)) /\ (Closed(r)' <=> Closed(r))
           /\ \A kind, r : Recorded(kind, r)' <=> Recorded(kind, r)
    BY DEF Ended, Closed, Recorded

(* A run that has ended has a status that says how.                          *)
LEMMA ClosedIsTold ==
    ASSUME Agreed
    PROVE  /\ Closed(snap.run) => snap.status \in {"Completed", "Failed", "Cancelled"}
           /\ Ended(snap.run) <=> Closed(snap.run) \/ Recorded("Interrupted", snap.run)
    BY DEF Agreed, JournalAgrees, Recorded, Closed, Ended, Closings, Endings

(* The stored session is known, too.                                         *)
LEMMA SnapIsKnown ==
    ASSUME Agreed, snap \in Snapshot
    PROVE  Known(snap)
    BY ClosedIsTold DEF Known, Sunk, Snapshot

(* The journal and the session agree after every such step.                  *)
LEMMA KeepersAgree ==
    ASSUME EInv, NEW h \in Hosts, Keeps(h)
    PROVE  Agreed' /\ Cached'
  <1>0. Agreed /\ Cached /\ TypeOK /\ snap \in Snapshot /\ cache \in [Hosts -> Snapshot \cup {NoCopy}]
    BY DEF EInv, IInv, TypeOK
  <1>1. Agreed'
    BY <1>0 DEF Keeps, Agreed, EndingsAreFinal, JournalAgrees, Recorded
  <1>2. Known(snap) /\ (\A c : Known(c)' <=> Known(c))
    BY <1>0, SnapIsKnown, EndedAlike DEF Keeps, Known, Sunk
  <1>3. Known(Current(h))
    BY <1>0, <1>2 DEF Current, Cached
  <1>4. \A g \in Hosts : cache'[g] # NoCopy => Known(cache'[g])
    BY <1>0, <1>2, <1>3 DEF Keeps, Copied, Cached
  <1> QED BY <1>1, <1>2, <1>4 DEF Cached

LEMMA SaversAgree ==
    ASSUME EInv, NEW h \in Hosts, Saves(h)
    PROVE  Agreed' /\ Cached'
  <1>0. Agreed /\ Cached /\ TypeOK /\ snap \in Snapshot /\ cache \in [Hosts -> Snapshot \cup {NoCopy}]
    BY DEF EInv, IInv, TypeOK
  <1>1. PICK s \in Snapshot : snap' = Committed(s) /\ Fit(h, s)
    BY DEF Saves
  <1>2. snap'.run = s.run /\ snap'.status = s.status /\ s.run \in Nat /\ snap.run \in Nat
    BY <1>0, <1>1, SessionAssumption DEF Committed, Snapshot
  <1>3. /\ \A r : (Ended(r)' <=> Ended(r)) /\ (Closed(r)' <=> Closed(r))
        /\ \A kind, r : Recorded(kind, r)' <=> Recorded(kind, r)
    BY EndedAlike DEF Saves
  <1>4. \A i \in DOMAIN journal : journal[i].run \in Nat
    <2>1. ASSUME NEW i \in DOMAIN journal PROVE journal[i].run \in Nat
      <3>1. journal[i] \in Event
        BY <1>0, ElementOfSeq DEF TypeOK
      <3> QED BY <3>1, SessionAssumption DEF Event
    <2> QED BY <2>1
  <1>5. (\A i \in DOMAIN journal : journal[i].run <= snap.run) /\ resumed \subseteq 1..snap.run
    BY <1>0 DEF Agreed
  <1>6. snap.run <= s.run /\ (s.run # snap.run => s.run = snap.run + 1)
    BY <1>1, <1>2 DEF Fit
  <1>7. (\A i \in DOMAIN journal : journal[i].run <= snap.run)' /\ (resumed \subseteq 1..snap.run)'
    BY <1>2, <1>4, <1>5, <1>6 DEF Saves
  <1>8. EndingsAreFinal'
    BY <1>0 DEF Agreed, EndingsAreFinal, Saves
  <1>9. JournalAgrees'
    <2>1. CASE s.run = snap.run + 1
      <3>1. \A kind : ~Recorded(kind, s.run)
        BY <1>2, <1>4, <1>5, <2>1 DEF Recorded
      <3> QED BY <1>2, <1>3, <3>1 DEF JournalAgrees
    <2>2. CASE s.run = snap.run /\ snap.status = "Running" /\ s.status \in {"Failed", "Indeterminate"}
      <3>1. \A kind \in Closings : ~Recorded(kind, snap.run)
        BY <1>0, <2>2 DEF Agreed, JournalAgrees, Closings, Endings
      <3> QED BY <1>2, <1>3, <2>2, <3>1 DEF JournalAgrees, Closings, Endings
    <2>3. CASE s.run = snap.run /\ ~Ended(snap.run)
      <3>1. \A kind \in Endings : ~Recorded(kind, snap.run)
        BY <2>3 DEF Ended, Recorded
      <3> QED BY <1>2, <1>3, <2>3, <3>1 DEF JournalAgrees, Endings
    <2> QED BY <1>1, <2>1, <2>2, <2>3 DEF Fit
  <1>10. Agreed'
    BY <1>7, <1>8, <1>9 DEF Agreed
  <1>11. Known(snap)'
    <2>1. (snap.status = "Running" => ~Closed(snap.run))'
      BY <1>10 DEF Agreed, JournalAgrees, Recorded, Closed, Closings, Endings
    <2>2. snap'.run <= snap'.run /\ snap'.status \in Statuses
      BY <1>1, <1>2 DEF Snapshot
    <2> QED BY <2>1, <2>2 DEF Known, Sunk, Statuses
  <1>12. ASSUME NEW c \in Snapshot, Known(c), c.run < snap.run \/ s.run # snap.run
                    \/ s.status \in {"Failed", "Indeterminate"} \/ c.status = "Running"
         PROVE  Known(c)'
    <2>1. c.run \in Nat
      BY SessionAssumption DEF Snapshot
    <2> QED BY <1>2, <1>3, <1>6, <1>12, <2>1 DEF Known, Sunk
  <1>13. ASSUME NEW g \in Hosts, cache'[g] # NoCopy PROVE Known(cache[g])'
    <2>1. CASE g # h
      <3>1. cache'[g] = cache[g] /\ Known(cache[g]) /\ cache[g] \in Snapshot
        BY <1>0, <1>13, <2>1 DEF Saves, Copied, Cached
      <3>2. New(h) => cache[g].run < snap.run
        BY <2>1, <3>1, SessionAssumption DEF New
      <3>3. Known(cache[g])
        BY <3>1
      <3>. DEFINE c == cache[g]
      <3>4. c.run < snap.run \/ s.run # snap.run
                    \/ s.status \in {"Failed", "Indeterminate"} \/ c.status = "Running"
        BY <1>1, <1>2, <3>2 DEF Fit
      <3>5. PICK d \in Snapshot : d = cache[g]
        BY <3>1
      <3>6. Known(d)'
        BY <1>12, <3>3, <3>4, <3>5
      <3> QED BY <3>1, <3>5, <3>6 DEF Known
    <2>2. CASE g = h
      <3>1. CASE cache'[h] = snap'
        BY <1>11, <2>2, <3>1 DEF Known
      <3>2. CASE cache'[h] = snap
        <4>1. PICK d \in Snapshot : d = snap
          BY <1>0
        <4>2. s.run # snap.run \/ d.status = "Running"
          BY <1>1, <1>2, <4>1 DEF Fit
        <4>3. Known(d)
          BY <1>0, <4>1, SnapIsKnown
        <4>4. Known(d)'
          BY <1>12, <4>2, <4>3
        <4> QED BY <2>2, <3>2, <4>1, <4>4 DEF Known
      <3> QED BY <1>13, <2>2, <3>1, <3>2 DEF Saves, Copied
    <2> QED BY <2>1, <2>2
  <1> QED BY <1>10, <1>13 DEF Cached

LEMMA TellersAgree ==
    ASSUME EInv, NEW h \in Hosts, Tells(h)
    PROVE  Agreed' /\ Cached'
  <1>0. Agreed /\ Cached /\ TypeOK /\ snap \in Snapshot /\ cache \in [Hosts -> Snapshot \cup {NoCopy}]
    BY DEF EInv, IInv, TypeOK
  <1>1. PICK e \in Event : journal' = Append(journal, e) /\ ~Ended(e.run) /\ Fitting(h, e)
    BY DEF Tells
  <1>2. journal \in Seq(Event) /\ DOMAIN journal' = DOMAIN journal \cup {Len(journal) + 1}
    BY <1>0, <1>1 DEF TypeOK
  <1>3. /\ \A i \in DOMAIN journal : journal'[i] = journal[i] /\ i \in 1..Len(journal)
        /\ journal'[Len(journal) + 1] = e /\ Len(journal) \in Nat
    BY <1>1, <1>2
  <1>4. /\ \A r : Ended(r)' <=> Ended(r) \/ (e.run = r /\ e.kind \in Endings)
        /\ \A r : Closed(r)' <=> Closed(r) \/ (e.run = r /\ e.kind \in Closings)
        /\ \A kind, r : Recorded(kind, r)' <=> Recorded(kind, r) \/ (e.run = r /\ e.kind = kind)
    BY <1>0, <1>1, EndedAfterAppend
  <1>5. UNCHANGED <<snap, cache, resumed>> /\ e.run <= snap.run
    BY <1>1 DEF Tells, Fitting
  <1>6. (\A i \in DOMAIN journal : journal[i].run <= snap.run)' /\ (resumed \subseteq 1..snap.run)'
    BY <1>0, <1>2, <1>3, <1>5 DEF Agreed
  <1>7. EndingsAreFinal'
    <2>1. SUFFICES ASSUME NEW i \in DOMAIN journal', NEW j \in DOMAIN journal', i < j,
                          journal'[i].run = journal'[j].run
                   PROVE  journal'[i].kind \notin Endings
      BY DEF EndingsAreFinal
    <2>2. i \in DOMAIN journal
      BY <1>2, <1>3, <2>1
    <2>3. CASE j \in DOMAIN journal
      BY <1>0, <1>3, <2>1, <2>2, <2>3 DEF Agreed, EndingsAreFinal
    <2>4. CASE j = Len(journal) + 1
      BY <1>1, <1>3, <2>1, <2>2, <2>4 DEF Ended
    <2> QED BY <1>2, <2>1, <2>3, <2>4
  <1>8. JournalAgrees'
    <2>1. CASE e.kind \notin Endings \/ e.run # snap.run
      <3>1. \A kind \in Endings : Recorded(kind, snap.run)' <=> Recorded(kind, snap.run)
        BY <1>4, <1>5, <2>1
      <3> QED BY <1>0, <1>5, <3>1 DEF Agreed, JournalAgrees, Endings
    <2>2. CASE e.kind \in Endings /\ e.run = snap.run
      <3>1. \A kind \in Endings : ~Recorded(kind, snap.run)
        BY <1>1, <2>2 DEF Ended, Recorded
      <3>2. \A kind \in Endings : Recorded(kind, snap.run)' <=> e.kind = kind
        BY <1>4, <1>5, <2>2, <3>1
      <3>3. \/ e.kind = "Interrupted" /\ Sunk(snap)
            \/ e.kind \in Closings /\ snap.status = Told(e.kind)
        BY <1>1, <2>2 DEF Fitting
      <3> QED BY <1>5, <2>2, <3>2, <3>3 DEF JournalAgrees, Sunk, Told, Closings, Endings
    <2> QED BY <2>1, <2>2
  <1>9. ASSUME NEW g \in Hosts, cache[g] # NoCopy PROVE Known(cache[g])'
    <2>1. Known(cache[g]) /\ cache[g] \in Snapshot
      BY <1>0, <1>9 DEF Cached
    <2>2. e.kind \in Closings /\ e.run = cache[g].run => cache[g].status # "Running"
      <3>1. SUFFICES ASSUME e.kind \in Closings, e.run = cache[g].run PROVE cache[g].status # "Running"
        OBVIOUS
      <3>2. e.run = snap.run /\ New(h) /\ cache[h] = snap /\ snap.status = Told(e.kind)
        BY <1>1, <3>1 DEF Fitting, Closings
      <3>3. cache[g].run \in Nat
        BY <2>1, SessionAssumption DEF Snapshot
      <3>4. ~(cache[g].run < snap.run)
        BY <3>1, <3>2, <3>3
      <3>5. g = h
        BY <1>9, <3>2, <3>4 DEF New
      <3> QED BY <3>2, <3>5 DEF Told
    <2> QED BY <1>4, <1>5, <2>1, <2>2 DEF Known, Sunk
  <1> QED BY <1>5, <1>6, <1>7, <1>8, <1>9 DEF Agreed, Cached

----------------------------------------------------------------------------
(* Every step of a host is such a step.                                      *)
LEMMA WritersFit ==
    ASSUME EInv, NEW h \in Hosts, NEW s \in Snapshot, NEW result \in Results, Write(h, s, result),
           UNCHANGED <<journal, marker, resumed>>,
           s.revision = snap.revision /\ Current(h) = snap => Fit(h, s)
    PROVE  Keeps(h) \/ Saves(h)
  <1>1. TypeOK /\ CachesTrail
    BY DEF EInv, IInv
  <1>2. /\ snap' = snap \/ Stored(h, s)
        /\ cache' = [cache EXCEPT ![h] = cache'[h]]
        /\ cache'[h] \in {Current(h), snap', NoCopy}
    BY <1>1, WriteIsConditional
  <1>3. Copied(h)
    BY <1>2 DEF Copied
  <1>4. CASE Stored(h, s)
    BY <1>3, <1>4 DEF Saves, Stored
  <1>5. CASE snap' = snap
    BY <1>3, <1>5 DEF Keeps
  <1> QED BY <1>2, <1>4, <1>5

(* ... of those that leave the plugin's copy, or load or lose it.            *)
LEMMA RestersKeep ==
    ASSUME EInv, NEW h \in Hosts, UNCHANGED <<snap, journal, resumed>>,
           \/ cache' = cache
           \/ cache' = [cache EXCEPT ![h] = Current(h)]
           \/ cache' = [cache EXCEPT ![h] = NoCopy]
    PROVE  Keeps(h)
  <1>1. cache \in [Hosts -> Snapshot \cup {NoCopy}]
    BY DEF EInv, IInv, TypeOK
  <1>2. cache' = [cache EXCEPT ![h] = cache'[h]]
    BY <1>1
  <1>3. cache'[h] \in {Current(h), NoCopy}
    BY <1>1 DEF Current
  <1> QED BY <1>2, <1>3 DEF Keeps, Copied

LEMMA AppendersTell ==
    ASSUME EInv, NEW h \in Hosts, NEW kind, NEW k, NEW result \in Results,
           [kind |-> kind, run |-> mine[h].run, k |-> k] \in Event,
           Journalled(kind, mine[h].run, k, result),
           UNCHANGED <<snap, cache, marker, resumed>>,
           ~Ended(mine[h].run), Fitting(h, [kind |-> kind, run |-> mine[h].run, k |-> k])
    PROVE  Keeps(h) \/ Tells(h)
  <1>. DEFINE e == [kind |-> kind, run |-> mine[h].run, k |-> k]
  <1>1. TypeOK
    BY DEF EInv, IInv
  <1>2. journal' = journal \/ journal' = Append(journal, e)
    BY <1>1, JournalGrows
  <1>3. CASE journal' = journal
    BY <1>3, RestersKeep
  <1>4. CASE journal' = Append(journal, e)
    <2>1. e \in Event /\ Fitting(h, e) /\ e.run = mine[h].run
      OBVIOUS
    <2>. HIDE DEF e
    <2> QED BY <1>4, <2>1 DEF Tells
  <1> QED BY <1>2, <1>3, <1>4

(* A run that somebody drives is one the journal can name.                   *)
LEMMA RunsAreNamed ==
    ASSUME TypeOK, NEW h \in Hosts, mine[h] # NoCopy, mine[h].run # 0, NEW kind, NEW k \in Nat,
           kind \in {"PromptAccepted", "ToolStarted", "ToolFinished", "Answer", "Failure",
                 "Interrupted", "Cancelled"}
    PROVE  [kind |-> kind, run |-> mine[h].run, k |-> k] \in Event
  <1>1. mine[h].run \in 1..MaxRuns
    BY MineIsASnapshot, SessionAssumption DEF Snapshot
  <1> QED BY <1>1 DEF Event

(* The writers.                                                              *)
LEMMA AgentsFit ==
    ASSUME EInv, NEW h \in Hosts,
           Abort(h) \/ Stop(h) \/ Complete(h) \/ SaveCalls(h) \/ SaveResult(h)
    PROVE  Keeps(h) \/ Saves(h)
  <1>0. TypeOK /\ Copy(h) /\ Ending(h)
    BY DEF EInv, IInv
  <1>1. pc[h] \in Driving \cup Calling \cup {"cleanup"} /\ UNCHANGED <<journal, marker, resumed>>
    BY DEF Abort, Stop, Complete, SaveCalls, SaveResult, Save, Driving, Calling, history
  <1>2. mine[h] \in Snapshot
    BY <1>0, <1>1, MineIsASnapshot DEF Copy
  <1>3. /\ snap.run = mine[h].run /\ New(h)
        /\ mine[h].revision = snap.revision => snap.status = "Running" /\ ~Ended(snap.run)
    BY <1>0, <1>1 DEF Ending, Owned, Copy
  <1>4. PICK s \in {mine[h], Failed(h), [mine[h] EXCEPT !.status = "Completed"]}, result \in Results :
          Write(h, s, result)
    BY DEF Abort, Stop, Complete, SaveCalls, SaveResult, Save
  <1>5. /\ s \in Snapshot /\ s.run = mine[h].run /\ s.revision = mine[h].revision
    <2>1. Failed(h) \in Snapshot /\ [mine[h] EXCEPT !.status = "Completed"] \in Snapshot
      BY <1>2, FailedIsASnapshot, StatusChanges DEF Statuses
    <2> QED BY <1>2, <1>4, <2>1 DEF Failed, Snapshot
  <1>6. s.revision = snap.revision => Fit(h, s)
    BY <1>3, <1>5 DEF Fit
  <1> QED BY <1>1, <1>4, <1>5, <1>6, WritersFit

LEMMA OthersFit ==
    ASSUME EInv, NEW h \in Hosts, Prepare(h) \/ Settle(h) \/ RecordCancelled(h)
    PROVE  Keeps(h) \/ Saves(h)
  <1>0. TypeOK /\ Copy(h) /\ Ending(h) /\ Current(h) \in Snapshot
    BY CurrentIsASnapshot DEF EInv, IInv
  <1>1. UNCHANGED <<journal, marker, resumed>>
    BY DEF Prepare, Settle, RecordCancelled, history
  <1>2. CASE Prepare(h)
    <2>1. CASE Loaded(h) /\ snap' = snap
      BY <1>1, <2>1, RestersKeep DEF Loaded
    <2>2. CASE Current(h).run < MaxRuns /\ \E result \in Results : Write(h, Begun(Current(h)), result)
      <3>1. Begun(Current(h)) \in Snapshot
        BY <1>0, <2>2, BegunIsASnapshot
      <3>2. Current(h) = snap => Fit(h, Begun(Current(h)))
        BY <1>0 DEF Fit, Begun, Snapshot
      <3> QED BY <1>1, <2>2, <3>1, <3>2, WritersFit
    <2> QED BY <1>2, <2>1, <2>2 DEF Prepare
  <1>3. CASE Settle(h)
    <2>. DEFINE s == [mine[h] EXCEPT !.status = Interrupted(mine[h])]
    <2>1. mine[h] = cache[h] /\ mine[h] \in Snapshot /\ mine[h].status = "Running"
      BY <1>0, <1>3, MineIsASnapshot DEF Settle, Copy
    <2>2. s \in Snapshot
      BY <2>1, InterruptedIsAStatus, StatusChanges
    <2>3. s.run = mine[h].run /\ s.status \in {"Failed", "Indeterminate"}
      BY <2>1 DEF Interrupted, Snapshot
    <2>4. Current(h) = snap => Fit(h, s)
      BY <2>1, <2>3, SessionAssumption DEF Current, Fit
    <2>5. \E result \in Results : Write(h, s, result)
      BY <1>3 DEF Settle
    <2>. HIDE DEF s
    <2> QED BY <1>1, <2>2, <2>4, <2>5, WritersFit
  <1>4. CASE RecordCancelled(h)
    <2>1. CASE Loaded(h) /\ snap' = snap
      BY <1>1, <2>1, RestersKeep DEF Loaded
    <2>2. CASE Cancellable(Current(h))
               /\ \E result \in Results : Write(h, [Current(h) EXCEPT !.status = "Cancelled"], result)
      <3>. DEFINE s == [Current(h) EXCEPT !.status = "Cancelled"]
      <3>1. s \in Snapshot /\ s.run = Current(h).run
        BY <1>0, StatusChanges DEF Statuses, Snapshot
      <3>2. Current(h) = snap => ~Stale(h)
        BY <2>2 DEF Cancellable, Current, Stale
      <3>3. Current(h) = snap => snap.status = "Running" /\ Owned(h) /\ ~Ended(snap.run)
        BY <1>0, <1>4, <3>2 DEF Ending, RecordCancelled
      <3>4. Current(h) = snap => Fit(h, s)
        BY <3>1, <3>3 DEF Fit, Owned
      <3>. HIDE DEF s
      <3>5. \E result \in Results : Write(h, s, result)
        BY <2>2 DEF s
      <3> QED BY <1>1, <3>1, <3>4, <3>5, WritersFit
    <2> QED BY <1>4, <2>1, <2>2 DEF RecordCancelled
  <1> QED BY <1>2, <1>3, <1>4

(* The tellers.                                                              *)
LEMMA DriversTell ==
    ASSUME EInv, NEW h \in Hosts, Accept(h) \/ StartTool(h) \/ EndTool(h)
    PROVE  Keeps(h) \/ Tells(h)
  <1>0. TypeOK /\ Copy(h) /\ Ending(h)
    BY DEF EInv, IInv
  <1>1. pc[h] \in Driving \cup Calling /\ UNCHANGED <<snap, cache, marker, resumed>>
    BY DEF Accept, StartTool, EndTool, Driving, Calling, history
  <1>2. mine[h] \in Snapshot /\ mine[h] # NoCopy /\ mine[h].run # 0
    BY <1>0, <1>1, MineIsASnapshot DEF Copy
  <1>3. snap.run = mine[h].run /\ ~Ended(mine[h].run) /\ snap.run \in Nat
    BY <1>0, <1>1, <1>2, SessionAssumption DEF Ending, Owned, Snapshot
  <1>4. ASSUME NEW k \in Nat, NEW kind \in {"PromptAccepted", "ToolStarted", "ToolFinished"},
               NEW result \in Results, Journalled(kind, mine[h].run, k, result)
        PROVE  Keeps(h) \/ Tells(h)
    <2>1. [kind |-> kind, run |-> mine[h].run, k |-> k] \in Event
      BY <1>0, <1>2, <1>4, RunsAreNamed
    <2>2. Fitting(h, [kind |-> kind, run |-> mine[h].run, k |-> k])
      BY <1>3 DEF Fitting, Endings
    <2> QED BY <1>1, <1>3, <1>4, <2>1, <2>2, AppendersTell
  <1>5. CASE Accept(h)
    <2>1. CASE \E result \in Results : Journalled("PromptAccepted", mine[h].run, 0, result)
      BY <1>4, <2>1
    <2>2. CASE journal' = Append(journal, [kind |-> "PromptAccepted", run |-> mine[h].run, k |-> 0])
               /\ faults < MaxFaults /\ faults' = faults + 1
      <3>1. "kernel" \in Results /\ Journalled("PromptAccepted", mine[h].run, 0, "kernel")
        BY <2>2 DEF Journalled, Results
      <3> QED BY <1>4, <3>1
    <2> QED BY <1>5, <2>1, <2>2 DEF Accept
  <1>6. CASE StartTool(h)
    <2>1. Numbered(mine[h]) /\ mine[h].pending # {}
      BY <1>0, <1>6 DEF StartTool, Copy, Calling, Quiet
    <2>2. Due(h).k \in Nat
      BY <1>2, <2>1, DueIsNext, UsedIsNat
    <2> QED BY <1>4, <1>6, <2>2 DEF StartTool
  <1>7. CASE EndTool(h)
    <2>1. Cardinality({c \in mine[h].recorded : c.run = mine[h].run}) \in Nat
      BY <1>2, UsedIsNat DEF CallsOf
    <2> QED BY <1>4, <1>7, <2>1 DEF EndTool
  <1> QED BY <1>5, <1>6, <1>7

LEMMA EndersTell ==
    ASSUME EInv, NEW h \in Hosts, Note(h) \/ TellFailure(h) \/ Answer(h) \/ TellCancelled(h)
    PROVE  Keeps(h) \/ Tells(h)
  <1>0. TypeOK /\ Copy(h) /\ Ending(h) /\ Fenced
    BY DEF EInv, IInv
  <1>1. pc[h] \in LastWords \cup {"note"} /\ UNCHANGED <<snap, cache, marker, resumed>>
    BY DEF Note, TellFailure, Answer, TellCancelled, LastWords, history
  <1>2. mine[h] \in Snapshot /\ mine[h] # NoCopy /\ mine[h].run # 0
    BY <1>0, <1>1, MineIsASnapshot DEF Copy, LastWords
  <1>3. CASE Note(h)
    <2>1. ~Closed(mine[h].run) /\ mine[h].run <= snap.run /\ (mine[h].run = snap.run => Sunk(snap))
      BY <1>0, <1>3 DEF Note, Ending
    <2>2. CASE journal' = journal
      BY <1>1, <2>2, RestersKeep
    <2>3. CASE ~Noted(mine[h].run) /\ \E result \in Results : Journalled("Interrupted", mine[h].run, 0, result)
      <3>1. ~Ended(mine[h].run)
        BY <2>1, <2>3 DEF Noted, Recorded, Closed, Ended, Closings
      <3>2. [kind |-> "Interrupted", run |-> mine[h].run, k |-> 0] \in Event
        BY <1>0, <1>2, RunsAreNamed
      <3>3. Fitting(h, [kind |-> "Interrupted", run |-> mine[h].run, k |-> 0])
        BY <2>1 DEF Fitting
      <3> QED BY <1>1, <2>3, <3>1, <3>2, <3>3, AppendersTell
    <2> QED BY <1>3, <2>2, <2>3 DEF Note
  <1>4. ASSUME NEW kind \in Closings, NEW result \in Results, Journalled(kind, mine[h].run, 0, result),
               pc[h] \in LastWords, LastStatus(pc[h]) = Told(kind)
        PROVE  Keeps(h) \/ Tells(h)
    <2>1. Owned(h) /\ ~Ended(snap.run) /\ cache[h] = snap /\ snap.status = LastStatus(pc[h])
      BY <1>0, <1>4 DEF Ending
    <2>2. marker.kind # "recovery"
      BY <1>0, <1>4 DEF Fenced, LastWords, Unmarked, Labels
    <2>3. [kind |-> kind, run |-> mine[h].run, k |-> 0] \in Event
      BY <1>0, <1>2, <1>4, RunsAreNamed DEF Closings, Endings
    <2>4. Fitting(h, [kind |-> kind, run |-> mine[h].run, k |-> 0])
      <3>1. snap.run = mine[h].run /\ snap.run \in Nat
        BY <1>2, <2>1, SessionAssumption DEF Owned, Snapshot
      <3> QED BY <1>4, <2>1, <2>2, <3>1 DEF Fitting, Owned
    <2> QED BY <1>1, <1>4, <2>1, <2>3, <2>4, AppendersTell DEF Owned
  <1>5. CASE TellFailure(h)
    <2>1. "Failure" \in Closings /\ pc[h] \in LastWords /\ LastStatus(pc[h]) = Told("Failure")
      BY <1>5 DEF TellFailure, Closings, Endings, LastWords, LastStatus, Told
    <2> QED BY <1>4, <1>5, <2>1 DEF TellFailure
  <1>6. CASE Answer(h)
    <2>1. "Answer" \in Closings /\ pc[h] \in LastWords /\ LastStatus(pc[h]) = Told("Answer")
      BY <1>6 DEF Answer, Closings, Endings, LastWords, LastStatus, Told
    <2> QED BY <1>4, <1>6, <2>1 DEF Answer
  <1>7. CASE TellCancelled(h)
    <2>1. "Cancelled" \in Closings /\ pc[h] \in LastWords /\ LastStatus(pc[h]) = Told("Cancelled")
      BY <1>7 DEF TellCancelled, Closings, Endings, LastWords, LastStatus, Told
    <2> QED BY <1>4, <1>7, <2>1 DEF TellCancelled
  <1> QED BY <1>3, <1>5, <1>6, <1>7

LEMMA StepsFit ==
    ASSUME EInv, NEW h \in Hosts, Work(h) \/ Cancel(h) \/ Abandon(h) \/ Kill(h) \/ Start(h) \/ TakeLock(h)
    PROVE  Keeps(h) \/ Saves(h) \/ Tells(h)
  <1>1. CASE \/ Start(h) \/ TakeLock(h) \/ Kill(h) \/ Abandon(h) \/ Cancel(h) \/ Examine(h) \/ Fence(h) \/ Unmark(h)
             \/ Turn(h) \/ Suspend(h) \/ ModelFails(h) \/ Reply(h) \/ Execute(h) \/ MarkAdmitted(h) \/ Finish(h)
             \/ Release(h)
    <2>1. /\ UNCHANGED <<snap, journal, resumed>>
          /\ \/ cache' = cache
             \/ cache' = [cache EXCEPT ![h] = Current(h)]
             \/ cache' = [cache EXCEPT ![h] = NoCopy]
      BY <1>1 DEF Start, TakeLock, Kill, Abandon, Cancel, Examine, Fence, Unmark, Turn, Suspend, ModelFails, Reply,
                  Execute, MarkAdmitted, Finish, Release, Loaded, history
    <2> QED BY <2>1, RestersKeep
  <1>2. CASE Prepare(h) \/ Settle(h) \/ RecordCancelled(h)
    BY <1>2, OthersFit
  <1>3. CASE Abort(h) \/ Stop(h) \/ Complete(h) \/ SaveCalls(h) \/ SaveResult(h)
    BY <1>3, AgentsFit
  <1>4. CASE Accept(h) \/ StartTool(h) \/ EndTool(h)
    BY <1>4, DriversTell
  <1>5. CASE Note(h) \/ TellFailure(h) \/ Answer(h) \/ TellCancelled(h)
    BY <1>5, EndersTell
  <1> QED BY <1>1, <1>2, <1>3, <1>4, <1>5 DEF Work, Recover, Agent, Close

----------------------------------------------------------------------------
(* The marker.                                                               *)
LEMMA MarkerShapes ==
    ASSUME NEW h \in Hosts, Work(h) \/ Cancel(h) \/ Abandon(h) \/ Kill(h) \/ Start(h) \/ TakeLock(h)
    PROVE  \/ marker' = marker
           \/ /\ journal' = journal /\ pc[h] \notin Off
              /\ \/ marker'.kind # "recovery"
                 \/ marker' = Recovery(0)
                 \/ pc[h] = "fence" /\ marker' = Recovery(mine[h].run)
  <1>1. CASE Kill(h) \/ Abandon(h)
    BY <1>1 DEF Kill, Abandon, Torn, Cleared, Owner, Off
  <1>2. CASE Fence(h) \/ Unmark(h) \/ Release(h) \/ MarkAdmitted(h)
    BY <1>2 DEF Fence, Unmark, Release, MarkAdmitted, Cleared, Owner, Off
  <1>3. CASE Start(h) \/ TakeLock(h) \/ Cancel(h) \/ Agent(h)
    BY <1>3 DEF Start, TakeLock, Cancel, Agent, Prepare, Accept, Abort, Turn, Suspend, ModelFails, Reply, Stop,
                TellFailure, Complete, Answer, SaveCalls, SaveResult, Save, StartTool, Execute, EndTool
  <1>4. CASE Examine(h) \/ Settle(h) \/ Note(h) \/ Finish(h) \/ RecordCancelled(h) \/ TellCancelled(h)
    BY <1>4 DEF Examine, Settle, Note, Finish, RecordCancelled, TellCancelled
  <1> QED BY <1>1, <1>2, <1>3, <1>4 DEF Work, Recover, Close

(* Only the fence of a recovery leaves a recovery marker that was not there. *)
LEMMA WorkMarks ==
    ASSUME NEW h \in Hosts, Work(h) \/ Cancel(h)
    PROVE  marker' = marker \/ marker'.kind # "recovery" \/ pc[h] = "fence"
  <1>1. CASE Fence(h) \/ Unmark(h) \/ Release(h) \/ MarkAdmitted(h)
    BY <1>1 DEF Fence, Unmark, Release, MarkAdmitted, Cleared, Owner
  <1>2. CASE Cancel(h) \/ Agent(h)
    BY <1>2 DEF Cancel, Agent, Prepare, Accept, Abort, Turn, Suspend, ModelFails, Reply, Stop, TellFailure,
                Complete, Answer, SaveCalls, SaveResult, Save, StartTool, Execute, EndTool
  <1>3. CASE Examine(h) \/ Settle(h) \/ Note(h) \/ Finish(h) \/ RecordCancelled(h) \/ TellCancelled(h)
    BY <1>3 DEF Examine, Settle, Note, Finish, RecordCancelled, TellCancelled
  <1> QED BY <1>1, <1>2, <1>3 DEF Work, Recover, Close

(* A host past the recovery has cleared the marker, or came from there.      *)
LEMMA RecoveryIsLeft ==
    ASSUME TypeOK, NEW h \in Hosts, Work(h) \/ Cancel(h), pc'[h] \in Unmarked
    PROVE  pc[h] \in Unmarked \/ marker'.kind # "recovery"
  <1>1. /\ pc \in [Hosts -> Labels]
        /\ Unmarked = {"admitted", "accept", "abort", "turn", "model", "suspended", "waiting", "stopping",
               "cleanup", "failing", "lastword", "answering", "answer", "calling", "begin", "execute",
               "record", "finished", "ended", "finish", "record_cancelled", "tell_cancelled", "clear"}
    BY DEF TypeOK, Unmarked, Labels
  <1>2. CASE Agent(h) \/ Close(h) \/ Cancel(h)
    BY <1>1, <1>2 DEF Cancel, Agent, Prepare, Accept, Abort, Turn, Suspend, ModelFails, Reply, Stop,
                TellFailure, Complete, Answer, SaveCalls, SaveResult, Save, StartTool, Execute, EndTool,
                Close, MarkAdmitted, Finish, RecordCancelled, TellCancelled, Release
  <1>3. CASE Unmark(h)
    BY <1>3 DEF Unmark, Cleared
  <1>4. ASSUME Fails(h) PROVE FALSE
    BY <1>1, <1>4 DEF Fails, Leave, Go
  <1>5. CASE Fence(h)
    BY <1>1, <1>5 DEF Fence, Go
  <1>6. CASE Examine(h)
    <2>1. Examined(marker, Current(h)) \in {"fence", "settle", "error", "note", "unmark"}
      BY DEF Examined
    <2> QED BY <1>1, <1>4, <1>6, <2>1 DEF Examine, RefuseRun, Go
  <1>7. CASE Settle(h) \/ Note(h)
    BY <1>1, <1>4, <1>7 DEF Settle, Note, Go
  <1> QED BY <1>2, <1>3, <1>5, <1>6, <1>7 DEF Work, Recover

(* A step touches no other host.                                             *)
LEMMA OutcomesAreTheirOwn ==
    ASSUME NEW h \in Hosts, Work(h) \/ Cancel(h) \/ Abandon(h) \/ Kill(h) \/ Start(h) \/ TakeLock(h)
    PROVE  outcome' = outcome \/ \E how : outcome' = [outcome EXCEPT ![h] = how]
  <1>1. CASE Kill(h) \/ Abandon(h) \/ Start(h) \/ TakeLock(h) \/ Recover(h) \/ Close(h) \/ Cancel(h)
    BY <1>1 DEF Kill, Abandon, Start, TakeLock, Recover, Close, Cancel, Fails, Leave, locals, End,
                Examine, RefuseRun, Fence, Settle, Note, Unmark,
                MarkAdmitted, Finish, RecordCancelled, TellCancelled, Release
  <1>2. ASSUME NEW result \in Results, NEW next, After(h, result, next)
        PROVE  outcome' = outcome \/ \E how : outcome' = [outcome EXCEPT ![h] = how]
    BY <1>2, AfterCases
  <1>3. CASE Turn(h) \/ StartTool(h) \/ EndTool(h) \/ Stop(h) \/ TellFailure(h) \/ Complete(h)
             \/ Answer(h) \/ SaveCalls(h) \/ SaveResult(h)
    BY <1>2, <1>3 DEF Turn, StartTool, EndTool, Stop, TellFailure, Complete, Answer, SaveCalls, SaveResult, Save, End
  <1>4. CASE Prepare(h) \/ Accept(h) \/ Abort(h) \/ Suspend(h) \/ ModelFails(h) \/ Reply(h) \/ Execute(h)
    BY <1>4 DEF Prepare, Accept, Abort, Suspend, ModelFails, Reply, Execute, End
  <1> QED BY <1>1, <1>3, <1>4 DEF Work, Agent

LEMMA OthersAreUntouched ==
    ASSUME TypeOK, HoldersHaveTheLock, NEW h \in Hosts,
           Work(h) \/ Cancel(h) \/ Abandon(h) \/ Kill(h) \/ Start(h) \/ TakeLock(h),
           NEW g \in Hosts \ {h}
    PROVE  /\ pc'[g] = pc[g] /\ mine'[g] = mine[g] /\ outcome'[g] = outcome[g]
           /\ pc[h] \notin Off => pc[g] \in Off
  <1>1. outcome'[g] = outcome[g]
    BY OutcomesAreTheirOwn DEF TypeOK
  <1>2. pc[h] \notin Off => pc[g] \in Off
    BY DEF HoldersHaveTheLock, Off
  <1>3. pc'[g] = pc[g] /\ mine'[g] = mine[g]
    <2>1. CASE Start(h) \/ TakeLock(h)
      BY <2>1 DEF TypeOK, Start, TakeLock, Go
    <2>2. CASE Moves(h)
      BY <2>2 DEF TypeOK, Moves
    <2>3. CASE Leaves(h)
      BY <2>3 DEF TypeOK, Leaves, Leave, Go
    <2> QED BY <2>1, <2>2, <2>3, OneHostMoves
  <1> QED BY <1>1, <1>2, <1>3

LEMMA IdleSteps ==
    ASSUME NEW h \in Hosts, Work(h) \/ Cancel(h) \/ Abandon(h) \/ Kill(h) \/ Start(h) \/ TakeLock(h),
           pc[h] \in Off
    PROVE  Kill(h) \/ Start(h) \/ TakeLock(h)
    BY DEF Work, Recover, Agent, Close, Cancel, Abandon, Off, Examine, Fence, Settle, Note, Unmark, Prepare,
           Accept, Abort, Turn, Suspend, ModelFails, Reply, Stop, TellFailure, Complete, Answer, SaveCalls,
           SaveResult, Save, StartTool, Execute, EndTool, MarkAdmitted, Finish, RecordCancelled, TellCancelled,
           Release

LEMMA MarkersAreKept ==
    ASSUME EInv, NEW h \in Hosts, Work(h) \/ Cancel(h) \/ Abandon(h) \/ Kill(h) \/ Start(h) \/ TakeLock(h)
    PROVE  Fenced'
  <1>0. /\ TypeOK /\ HoldersHaveTheLock /\ Copy(h) /\ Fenced /\ Cached /\ pc \in [Hosts -> Labels]
    BY DEF EInv, IInv, TypeOK
  <1>1. (marker.kind = "recovery" => ~Closed(marker.run))'
    <2>1. CASE marker' = marker
      <3>1. CASE journal' = journal
        BY <1>0, <2>1, <3>1, EndedAlike DEF Fenced
      <3>2. CASE Tells(h)
        <4>1. PICK e \in Event : journal' = Append(journal, e) /\ Fitting(h, e)
          BY <3>2 DEF Tells
        <4>2. Closed(marker.run)' <=> Closed(marker.run) \/ (e.run = marker.run /\ e.kind \in Closings)
          BY <1>0, <2>1, <4>1, EndedAfterAppend
        <4>3. e.kind \in Closings => marker.kind # "recovery"
          BY <4>1 DEF Fitting, Closings
        <4> QED BY <1>0, <2>1, <4>2, <4>3 DEF Fenced
      <3> QED BY <3>1, <3>2, StepsFit DEF Keeps, Saves
    <2>2. CASE journal' = journal /\ marker' = Recovery(0)
      <3>1. \A i \in DOMAIN journal : journal[i].run # 0
        <4>1. \A i \in DOMAIN journal : journal[i] \in Event
          BY <1>0, ElementOfSeq DEF TypeOK
        <4> QED BY <4>1 DEF Event
      <3>2. marker'.run = 0
        BY <2>2 DEF Recovery
      <3> QED BY <2>2, <3>1, <3>2 DEF Closed
    <2>3. CASE journal' = journal /\ pc[h] = "fence" /\ marker' = Recovery(mine[h].run)
      <3>1. ~Closed(mine[h].run)
        BY <1>0, <2>3 DEF Copy, Cached, Known
      <3>2. marker'.run = mine[h].run
        BY <2>3 DEF Recovery
      <3> QED BY <2>3, <3>1, <3>2, EndedAlike
    <2> QED BY <2>1, <2>2, <2>3, MarkerShapes
  <1>2. ASSUME NEW g \in Hosts, pc'[g] \in Unmarked PROVE marker'.kind # "recovery"
    <2>0. Unmarked \cap Off = {} /\ "locked" \notin Unmarked
      BY DEF Unmarked, Off
    <2>1. CASE g # h
      <3>1. pc[g] \in Unmarked
        BY <1>2, <2>1, OthersAreUntouched, <1>0
      <3>2. pc[h] \in Off
        BY <1>0, <2>0, <2>1, <3>1, OthersAreUntouched
      <3>3. marker' = marker
        BY <3>2, MarkerShapes
      <3> QED BY <1>0, <3>1, <3>3 DEF Fenced
    <2>2. CASE g = h
      <3>1. CASE Start(h) \/ TakeLock(h) \/ Kill(h) \/ Abandon(h)
        <4>1. pc'[h] \in Off \cup {"locked"}
          BY <1>0, <3>1 DEF Start, TakeLock, Kill, Abandon, Fails, Leave, Go, Off
        <4> QED BY <1>2, <2>0, <2>2, <4>1
      <3>2. CASE Work(h) \/ Cancel(h)
        <4>1. pc[h] \in Unmarked => marker.kind # "recovery"
          BY <1>0 DEF Fenced
        <4>2. pc[h] \in Unmarked => pc[h] # "fence"
          BY DEF Unmarked
        <4> QED BY <1>0, <1>2, <2>2, <3>2, <4>1, <4>2, RecoveryIsLeft, WorkMarks
      <3> QED BY <3>1, <3>2
    <2> QED BY <2>1, <2>2
  <1> QED BY <1>1, <1>2 DEF Fenced

----------------------------------------------------------------------------
(* What a host knows of the end of its run.                                  *)
Silent == {"idle", "down", "locked", "fence", "settle", "ended", "finish", "clear"}

LEMMA SilentEndings ==
    ASSUME NEW h \in Hosts, pc'[h] \in Silent, pc'[h] # "clear" => outcome'[h] # "cancelled"
    PROVE  Ending(h)'
    BY DEF Ending, Silent, Driving, Calling, LastWords

(* The host drives a run that is its own and has not ended.                  *)
Drives(h) == Owned(h) /\ ~Ended(snap.run) /\ snap.status = "Running"

LEMMA DrivingEndings ==
    ASSUME NEW h \in Hosts, pc'[h] \in Driving \cup Calling \cup {"cleanup"}, Drives(h)', outcome'[h] # "cancelled"
    PROVE  Ending(h)'
    BY DEF Ending, Drives, Driving, Calling, LastWords

(* An agent that was cut off: the run has ended, or its copy is the latest.  *)
LEMMA CleanupEndings ==
    ASSUME NEW h \in Hosts, pc'[h] = "cleanup", Owned(h)', snap'.status \notin {"Indeterminate", "Cancelled"},
           mine'[h].revision = snap'.revision => Drives(h)', outcome'[h] # "cancelled"
    PROVE  Ending(h)'
    BY DEF Ending, Drives, Driving, Calling, LastWords

LEMMA LastEndings ==
    ASSUME NEW h \in Hosts, pc'[h] \in LastWords, Owned(h)', ~Ended(snap.run)', cache'[h] = snap',
           snap'.status = LastStatus(pc'[h]), outcome'[h] = "cancelled" => pc'[h] = "tell_cancelled"
    PROVE  Ending(h)'
    BY DEF Ending, Driving, Calling, LastWords

LEMMA OwnedStays ==
    ASSUME NEW h \in Hosts, Owned(h), snap'.run = snap.run, resumed' = resumed, mine'[h].run = mine[h].run,
           \A g \in Hosts \ {h} : cache'[g] = cache[g]
    PROVE  Owned(h)'
    BY DEF Owned, New

LEMMA AfterEndings ==
    ASSUME TypeOK, NEW h \in Hosts, NEW result \in Results, NEW next, After(h, result, next),
           result = "ok" /\ pc'[h] = next /\ outcome'[h] = outcome[h] => Ending(h)',
           result = "kernel" /\ pc'[h] = "cleanup" /\ outcome'[h] = "hard" => Ending(h)'
    PROVE  Ending(h)'
  <1>1. CASE result = "domain"
    <2>1. pc'[h] \in {"finish", "ended"} /\ outcome'[h] = "hard"
      BY <1>1, AfterCases, PumpedIsALabel DEF TypeOK
    <2> QED BY <2>1, SilentEndings DEF Silent
  <1> QED BY <1>1, AfterCases DEF TypeOK

(* Recovery, ...                                                             *)
LEMMA EndingsStayRecovering ==
    ASSUME EInv, NEW h \in Hosts, Recover(h)
    PROVE  Ending(h)'
  <1>0. /\ TypeOK /\ Copy(h) /\ Ending(h) /\ Fenced /\ Cached /\ Agreed /\ pc \in [Hosts -> Labels]
        /\ mine \in [Hosts -> Snapshot \cup {NoCopy}] /\ cache \in [Hosts -> Snapshot \cup {NoCopy}]
        /\ Current(h) \in Snapshot /\ snap \in Snapshot
    BY CurrentIsASnapshot DEF EInv, IInv, TypeOK
  <1>1. outcome[h] # "cancelled"
    BY <1>0 DEF Recover, Examine, Fence, Settle, Note, Unmark, Ending
  <1>2. ASSUME Fails(h) PROVE Ending(h)'
    <2>1. pc'[h] \in {"idle", "down"} /\ outcome'[h] = "none"
      BY <1>0, <1>2 DEF Fails, Leave, Go, TypeOK
    <2> QED BY <2>1, SilentEndings DEF Silent
  <1>3. ASSUME pc'[h] \in {"unmark", "admitted"}, outcome'[h] = outcome[h], Stale(h)' PROVE Ending(h)'
    BY <1>1, <1>3 DEF Ending, Driving, Calling, LastWords
  <1>4. ASSUME pc'[h] = "note", outcome'[h] = outcome[h], Stale(h)', ~Closed(mine[h].run)',
               mine'[h].run <= snap'.run, (mine[h].run = snap.run => Sunk(snap))'
        PROVE  Ending(h)'
    BY <1>1, <1>4 DEF Ending, Driving, Calling, LastWords
  <1>5. CASE Examine(h)
    <2>. DEFINE c == Current(h)
    <2>1. cache'[h] = c /\ UNCHANGED <<snap, journal, resumed>>
      BY <1>0, <1>5 DEF Examine, Loaded, history
    <2>2. CASE RefuseRun(h)
      BY <1>2, <2>2 DEF RefuseRun
    <2>3. CASE /\ Examined(marker, c) # "error" /\ Go(h, Examined(marker, c)) /\ mine' = [mine EXCEPT ![h] = c]
               /\ UNCHANGED outcome
      <3>1. pc'[h] = Examined(marker, c) /\ mine'[h] = c /\ c # NoCopy
        BY <1>0, <2>3, SessionAssumption DEF Go
      <3>2. CASE pc'[h] \in {"fence", "settle"}
        BY <1>1, <2>3, <3>2, SilentEndings DEF Silent
      <3>3. CASE pc'[h] = "unmark"
        <4>1. c.status # "Running"
          BY <3>1, <3>3 DEF Examined
        <4> QED BY <1>3, <2>1, <2>3, <3>1, <3>3, <4>1 DEF Stale
      <3>4. CASE pc'[h] = "note"
        <4>1. c.status \in {"Failed", "Indeterminate"} /\ marker = Recovery(c.run)
          BY <3>1, <3>4 DEF Examined
        <4>2. ~Closed(c.run)
          BY <1>0, <4>1 DEF Fenced, Recovery
        <4>3. Known(c)
          BY <1>0, SnapIsKnown DEF Current, Cached
        <4>4. ~Closed(mine[h].run)'
          BY <2>1, <3>1, <4>2 DEF Closed
        <4>5. (mine[h].run = snap.run => Sunk(snap))'
          BY <2>1, <3>1, <4>1, <4>3 DEF Known, Sunk
        <4> QED BY <1>4, <2>1, <2>3, <3>1, <3>4, <4>1, <4>3, <4>4, <4>5 DEF Stale, Known
      <3> QED BY <2>3, <3>1, <3>2, <3>3, <3>4 DEF Examined
    <2> QED BY <1>5, <2>2, <2>3 DEF Examine
  <1>6. CASE Fence(h)
    <2>1. pc'[h] = "settle" /\ outcome'[h] = outcome[h]
      BY <1>0, <1>6 DEF Fence, Go
    <2> QED BY <1>1, <2>1, SilentEndings DEF Silent
  <1>7. CASE Settle(h)
    <2>. DEFINE s == [mine[h] EXCEPT !.status = Interrupted(mine[h])]
    <2>1. PICK result \in Results :
            /\ Write(h, s, result)
            /\ \/ result = "ok" /\ Go(h, "note") /\ UNCHANGED locals
               \/ result # "ok" /\ Fails(h)
      BY <1>7 DEF Settle
    <2>2. CASE result = "ok"
      <3>1. mine[h] \in Snapshot /\ mine[h] = cache[h] /\ mine[h].status = "Running" /\ mine[h] # NoCopy
        BY <1>0, <1>7, MineIsASnapshot DEF Settle, Copy
      <3>2. s \in Snapshot
        BY <3>1, InterruptedIsAStatus, StatusChanges
      <3>3. s.run = mine[h].run /\ s.status \in {"Failed", "Indeterminate"} /\ s.run \in Nat
        BY <3>1, SessionAssumption DEF Interrupted, Snapshot
      <3>. HIDE DEF s
      <3>4. CachesTrail
        BY DEF EInv, IInv
      <3>5. snap' = Committed(s) /\ cache'[h] = snap'
        BY <1>0, <2>1, <2>2, <3>2, <3>4, WriteIsConditional DEF Stored
      <3>6. snap'.run = s.run /\ snap'.status = s.status /\ snap' # NoCopy
        BY <3>2, <3>5, SessionAssumption DEF Committed, Snapshot
      <3>7. pc'[h] = "note" /\ mine' = mine /\ outcome' = outcome /\ journal' = journal
        BY <1>0, <1>7, <2>1, <2>2 DEF Settle, Go, locals
      <3>8. ~Closed(mine[h].run)'
        BY <1>0, <3>1, <3>7 DEF Cached, Known, Closed
      <3>9. Sunk(snap)' /\ Stale(h)'
        BY <3>3, <3>5, <3>6 DEF Sunk, Stale
      <3> QED BY <1>4, <3>3, <3>6, <3>7, <3>8, <3>9
    <2> QED BY <1>2, <2>1, <2>2
  <1>8. CASE Note(h)
    <2>1. cache' = cache /\ Stale(h)
      BY <1>0, <1>8 DEF Note, Ending
    <2>2. (pc'[h] = "unmark" /\ outcome' = outcome) \/ Fails(h)
      BY <1>0, <1>8 DEF Note, Go, locals
    <2> QED BY <1>2, <1>3, <2>1, <2>2 DEF Stale
  <1>9. CASE Unmark(h)
    <2>1. cache' = cache /\ Stale(h)
      BY <1>0, <1>9 DEF Unmark, Ending
    <2>2. pc'[h] = "admitted" /\ outcome' = outcome
      BY <1>0, <1>9 DEF Unmark, Go
    <2> QED BY <1>3, <2>1, <2>2 DEF Stale
  <1> QED BY <1>5, <1>6, <1>7, <1>8, <1>9 DEF Recover

(* ... the agent where it does not write the session, ...                    *)
LEMMA EndingsStayDriving ==
    ASSUME EInv, NEW h \in Hosts,
           Accept(h) \/ Turn(h) \/ Suspend(h) \/ ModelFails(h) \/ Reply(h) \/ StartTool(h) \/ Execute(h) \/ EndTool(h)
    PROVE  Ending(h)'
  <1>0. /\ TypeOK /\ Copy(h) /\ Ending(h) /\ pc \in [Hosts -> Labels]
        /\ mine \in [Hosts -> Snapshot \cup {NoCopy}]
        /\ outcome \in [Hosts -> {"none", "ok", "soft", "hard", "cancelled"}]
    BY DEF EInv, IInv, TypeOK
  <1>1. pc[h] \in Driving \cup Calling /\ UNCHANGED <<snap, cache, marker, resumed>>
    BY DEF Accept, Turn, Suspend, ModelFails, Reply, StartTool, Execute, EndTool, Driving, Calling, history
  <1>2. mine[h] \in Snapshot /\ Drives(h) /\ outcome[h] # "cancelled"
    BY <1>0, <1>1, MineIsASnapshot DEF Copy, Ending, Drives, Driving, Calling
  <1>3. mine'[h].run = mine[h].run
    BY <1>0, <1>2 DEF Accept, Turn, Suspend, ModelFails, Reply, StartTool, Execute, EndTool, Snapshot
  <1>4. Drives(h)'
    <2>1. ~Ended(snap.run)'
      <3>1. CASE journal' = journal
        BY <1>1, <1>2, <3>1, EndedAlike DEF Drives
      <3>2. CASE Tells(h)
        <4>1. PICK e \in Event : journal' = Append(journal, e) /\ Fitting(h, e)
          BY <3>2 DEF Tells
        <4>2. e.run = snap.run => e.kind \notin Endings
          BY <1>2, <4>1 DEF Fitting, Drives, Owned, Sunk, Told
        <4> QED BY <1>0, <1>1, <1>2, <4>1, <4>2, EndedAfterAppend DEF Drives
      <3> QED BY <3>1, <3>2, StepsFit DEF Work, Agent, Keeps, Saves
    <2>2. Owned(h)'
      BY <1>1, <1>2, <1>3, OwnedStays DEF Drives
    <2> QED BY <1>1, <1>2, <2>1, <2>2 DEF Drives
  <1>5. ASSUME pc'[h] \in Driving \cup Calling \cup {"cleanup", "finish", "ended"}, outcome'[h] # "cancelled"
        PROVE  Ending(h)'
    <2>1. CASE pc'[h] \in Driving \cup Calling \cup {"cleanup"}
      BY <1>4, <1>5, <2>1, DrivingEndings
    <2>2. CASE pc'[h] \in {"finish", "ended"}
      BY <1>5, <2>2, SilentEndings DEF Silent
    <2> QED BY <1>5, <2>1, <2>2
  <1>6. CASE Accept(h) \/ Suspend(h) \/ ModelFails(h) \/ Reply(h) \/ Execute(h)
    <2>1. pc'[h] \in Driving \cup Calling \cup {"cleanup", "finish", "ended"} /\ outcome'[h] # "cancelled"
      BY <1>0, <1>2, <1>6 DEF Accept, Suspend, ModelFails, Reply, Execute, Go, End, Driving, Calling
    <2> QED BY <1>5, <2>1
  <1>7. ASSUME NEW result \in Results, NEW next \in Driving \cup Calling, After(h, result, next)
        PROVE  Ending(h)'
    BY <1>0, <1>2, <1>5, <1>7, AfterEndings
  <1>8. CASE Turn(h)
    <2>1. CASE End(h, "soft", "stopping")
      BY <1>0, <1>5, <2>1 DEF End, Go, Driving
    <2>2. CASE \E result \in Results : After(h, result, "model")
      BY <1>7, <2>2 DEF Driving
    <2> QED BY <1>8, <2>1, <2>2 DEF Turn
  <1>9. CASE StartTool(h)
    BY <1>7, <1>9 DEF StartTool, Calling
  <1>10. CASE EndTool(h)
    BY <1>7, <1>10 DEF EndTool, Calling, Driving
  <1> QED BY <1>6, <1>8, <1>9, <1>10

(* ... and where it does: what it writes over is the run it drives, ...      *)
LEMMA EndingsStayWriting ==
    ASSUME EInv, NEW h \in Hosts, Abort(h) \/ Stop(h) \/ Complete(h) \/ SaveCalls(h) \/ SaveResult(h)
    PROVE  Ending(h)'
  <1>0. /\ TypeOK /\ CachesTrail /\ Copy(h) /\ Ending(h) /\ pc \in [Hosts -> Labels]
        /\ mine \in [Hosts -> Snapshot \cup {NoCopy}] /\ cache \in [Hosts -> Snapshot \cup {NoCopy}]
        /\ outcome \in [Hosts -> {"none", "ok", "soft", "hard", "cancelled"}] /\ snap \in Snapshot
    BY DEF EInv, IInv, TypeOK
  <1>1. pc[h] \in Driving \cup Calling \cup {"cleanup"} /\ UNCHANGED <<journal, marker, resumed>>
    BY DEF Abort, Stop, Complete, SaveCalls, SaveResult, Save, Driving, Calling, history
  <1>2. mine[h] \in Snapshot /\ mine[h] # NoCopy /\ outcome[h] # "cancelled"
    BY <1>0, <1>1, MineIsASnapshot DEF Copy, Ending, Driving, Calling
  <1>3. /\ Owned(h) /\ snap.status \notin {"Indeterminate", "Cancelled"}
        /\ mine[h].revision = snap.revision => Drives(h)
        /\ mine[h].revision \in Nat /\ snap.revision \in Nat
    BY <1>0, <1>1, <1>2 DEF Ending, Owned, Copy, Drives, Snapshot
  <1>4. ASSUME NEW s \in Snapshot, NEW result \in Results, Write(h, s, result), mine'[h].run = mine[h].run,
               s.run = mine[h].run, s.revision = mine[h].revision,
               s.status \in {"Running", "Failed", "Completed"}
        PROVE  /\ Owned(h)' /\ snap'.status \notin {"Indeterminate", "Cancelled"}
               /\ mine[h].revision = snap'.revision => snap' = snap /\ Drives(h)
               /\ result = "ok" => /\ cache'[h] = snap' /\ snap'.status = s.status /\ snap' = Committed(s)
                                   /\ ~Ended(snap.run)'
    <2>1. /\ snap' = snap \/ Stored(h, s)
          /\ result = "ok" => Stored(h, s) /\ cache'[h] = snap'
          /\ cache' = [cache EXCEPT ![h] = cache'[h]]
      BY <1>0, <1>4, WriteIsConditional
    <2>2. Stored(h, s) => /\ snap'.run = s.run /\ snap'.status = s.status /\ snap'.revision = s.revision + 1
                          /\ s.revision = snap.revision /\ snap' = Committed(s)
      BY <1>4 DEF Stored, Committed, Snapshot
    <2>3. snap'.run = snap.run
      BY <1>3, <1>4, <2>1, <2>2 DEF Owned
    <2>4. Owned(h)'
      BY <1>0, <1>1, <1>3, <1>4, <2>1, <2>3, OwnedStays
    <2>5. Stored(h, s) => ~Ended(snap.run)'
      BY <1>1, <1>3, <1>4, <2>2, <2>3, EndedAlike DEF Drives
    <2> QED BY <1>3, <1>4, <2>1, <2>2, <2>4, <2>5
  <1>5. ASSUME NEW s \in Snapshot, NEW result \in Results, Write(h, s, result), mine' = mine,
               s.run = mine[h].run, s.revision = mine[h].revision,
               s.status \in {"Running", "Failed", "Completed"}, pc'[h] = "cleanup", outcome'[h] # "cancelled"
        PROVE  Ending(h)'
    <2>1. mine'[h].run = mine[h].run
      BY <1>5
    <2>2. /\ Owned(h)' /\ snap'.status \notin {"Indeterminate", "Cancelled"}
          /\ mine[h].revision = snap'.revision => snap' = snap /\ Drives(h)
      BY <1>4, <1>5, <2>1
    <2>3. mine'[h].revision = snap'.revision => Drives(h)'
      BY <1>1, <1>5, <2>2, EndedAlike DEF Drives
    <2> QED BY <1>5, <2>2, <2>3, CleanupEndings
  <1>6. ASSUME NEW s \in Snapshot, Write(h, s, "ok"), mine' = mine,
               s.run = mine[h].run, s.revision = mine[h].revision,
               s.status \in {"Failed", "Completed"}, pc'[h] \in LastWords, s.status = LastStatus(pc'[h]),
               outcome'[h] # "cancelled"
        PROVE  Ending(h)'
    <2>1. mine'[h].run = mine[h].run /\ "ok" \in Results
      BY <1>6 DEF Results
    <2>2. Owned(h)' /\ cache'[h] = snap' /\ snap'.status = s.status /\ ~Ended(snap.run)'
      BY <1>4, <1>6, <2>1
    <2> QED BY <1>6, <2>2, LastEndings
  <1>7. Failed(h) \in Snapshot /\ Failed(h).run = mine[h].run /\ Failed(h).revision = mine[h].revision
        /\ Failed(h).status = "Failed"
    BY <1>2, FailedIsASnapshot DEF Failed, Snapshot
  <1>8. ASSUME End(h, "hard", Pumped(h)) PROVE Ending(h)'
    <2>1. pc'[h] \in {"finish", "ended"} /\ outcome'[h] = "hard"
      BY <1>0, <1>8, PumpedIsALabel DEF End, Go
    <2> QED BY <2>1, SilentEndings DEF Silent
  <1>9. CASE Abort(h)
    BY <1>8, <1>9 DEF Abort
  <1>10. CASE Stop(h)
    <2>1. PICK result \in Results :
            /\ Write(h, Failed(h), result)
            /\ IF pc[h] = "stopping" THEN After(h, result, "failing")
               ELSE End(h, "hard", IF result = "ok" THEN "lastword" ELSE Pumped(h))
      BY <1>10 DEF Stop
    <2>2. mine' = mine
      BY <1>10 DEF Stop
    <2>3. CASE pc[h] = "stopping"
      <3>1. After(h, result, "failing")
        BY <2>1, <2>3
      <3>2. result = "ok" /\ pc'[h] = "failing" /\ outcome'[h] = outcome[h] => Ending(h)'
        BY <1>2, <1>6, <1>7, <2>1, <2>2 DEF LastWords, LastStatus
      <3>3. pc'[h] = "cleanup" /\ outcome'[h] = "hard" => Ending(h)'
        BY <1>5, <1>7, <2>1, <2>2
      <3> QED BY <1>0, <3>1, <3>2, <3>3, AfterEndings
    <2>4. CASE pc[h] # "stopping" /\ result = "ok"
      <3>1. pc'[h] = "lastword" /\ outcome'[h] = "hard"
        BY <1>0, <2>1, <2>4 DEF End, Go
      <3> QED BY <1>6, <1>7, <2>1, <2>2, <2>4, <3>1 DEF LastWords, LastStatus
    <2>5. CASE pc[h] # "stopping" /\ result # "ok"
      BY <1>8, <2>1, <2>5
    <2> QED BY <2>3, <2>4, <2>5
  <1>11. CASE Complete(h)
    <2>. DEFINE s == [mine[h] EXCEPT !.status = "Completed"]
    <2>1. PICK result \in Results : Write(h, s, result) /\ After(h, result, "answer")
      BY <1>11 DEF Complete
    <2>2. mine' = mine
      BY <1>11 DEF Complete
    <2>3. s \in Snapshot /\ s.run = mine[h].run /\ s.revision = mine[h].revision /\ s.status = "Completed"
      BY <1>2, StatusChanges DEF Statuses, Snapshot
    <2>. HIDE DEF s
    <2>4. result = "ok" /\ pc'[h] = "answer" /\ outcome'[h] = outcome[h] => Ending(h)'
      BY <1>2, <1>6, <2>1, <2>2, <2>3 DEF LastWords, LastStatus
    <2>5. pc'[h] = "cleanup" /\ outcome'[h] = "hard" => Ending(h)'
      BY <1>5, <2>1, <2>2, <2>3
    <2> QED BY <1>0, <2>1, <2>4, <2>5, AfterEndings
  <1>12. ASSUME NEW label \in Calling, NEW next \in Calling, Save(h, label, next) PROVE Ending(h)'
    <2>1. PICK result \in Results :
            /\ Write(h, mine[h], result)
            /\ mine' = [mine EXCEPT ![h] = IF result = "ok" THEN snap' ELSE @]
            /\ After(h, result, next)
      BY <1>12 DEF Save
    <2>2. mine[h].status = "Running"
      BY <1>0, <1>12 DEF Save, Copy
    <2>3. ASSUME result = "ok", pc'[h] = next, outcome'[h] = outcome[h] PROVE Ending(h)'
      <3>1. mine'[h] = snap'
        BY <1>0, <2>1, <2>3
      <3>2. snap' = Committed(mine[h])
        BY <1>0, <1>2, <2>1, <2>3, WriteIsConditional DEF Stored
      <3>3. snap'.run = mine[h].run
        BY <1>2, <3>2 DEF Committed, Snapshot
      <3>4. Owned(h)' /\ snap'.status = "Running" /\ ~Ended(snap.run)'
        BY <1>2, <1>4, <2>1, <2>2, <2>3, <3>1, <3>3
      <3> QED BY <1>2, <1>12, <2>3, <3>4, DrivingEndings DEF Drives
    <2>4. ASSUME result = "kernel", pc'[h] = "cleanup", outcome'[h] = "hard" PROVE Ending(h)'
      <3>1. mine' = mine
        BY <1>0, <2>1, <2>4
      <3> QED BY <1>2, <1>5, <2>1, <2>2, <2>4, <3>1
    <2> QED BY <1>0, <2>1, <2>3, <2>4, AfterEndings
  <1>13. CASE SaveCalls(h) \/ SaveResult(h)
    BY <1>12, <1>13 DEF SaveCalls, SaveResult, Calling
  <1> QED BY <1>9, <1>10, <1>11, <1>13

(* ... where it begins a run, ...                                            *)
LEMMA EndingsStayPreparing ==
    ASSUME EInv, NEW h \in Hosts, Prepare(h)
    PROVE  Ending(h)'
  <1>0. /\ TypeOK /\ CachesTrail /\ Ending(h) /\ Agreed /\ Cached /\ pc \in [Hosts -> Labels]
        /\ mine \in [Hosts -> Snapshot \cup {NoCopy}] /\ cache \in [Hosts -> Snapshot \cup {NoCopy}]
        /\ outcome \in [Hosts -> {"none", "ok", "soft", "hard", "cancelled"}] /\ snap \in Snapshot
        /\ Current(h) \in Snapshot
    BY CurrentIsASnapshot DEF EInv, IInv, TypeOK
  <1>1. outcome[h] # "cancelled"
    BY <1>0 DEF Prepare, Ending
  <1>2. CASE End(h, "hard", Pumped(h))
    <2>1. pc'[h] \in {"finish", "ended"} /\ outcome'[h] = "hard"
      BY <1>0, <1>2, PumpedIsALabel DEF End, Go
    <2> QED BY <2>1, SilentEndings DEF Silent
  <1>3. CASE /\ Current(h).run < MaxRuns /\ Write(h, Begun(Current(h)), "ok") /\ Go(h, "accept")
             /\ mine' = [mine EXCEPT ![h] = snap'] /\ UNCHANGED outcome
    <2>. DEFINE s == Begun(Current(h))
    <2>1. s \in Snapshot /\ s.run = Current(h).run + 1 /\ s.status = "Running"
      BY <1>0, <1>3, BegunIsASnapshot DEF Begun, Snapshot
    <2>. HIDE DEF s
    <2>2. Stored(h, s) /\ cache' = [cache EXCEPT ![h] = cache'[h]] /\ "ok" \in Results
      <3>1. "ok" \in Results
        BY DEF Results
      <3> QED BY <1>0, <1>3, <2>1, <3>1, WriteIsConditional DEF s
    <2>3. snap'.run = snap.run + 1 /\ snap'.status = "Running" /\ snap.run \in Nat
      BY <1>0, <2>1, <2>2, SessionAssumption DEF Stored, Committed, Snapshot
    <2>4. New(h)'
      <3>1. ASSUME NEW g \in Hosts \ {h}, cache[g] # NoCopy PROVE cache'[g] = cache[g] /\ cache[g].run < snap'.run
        <4>1. cache'[g] = cache[g]
          BY <1>0, <2>2
        <4>2. cache[g].run \in Nat /\ cache[g].run <= snap.run
          BY <1>0, <3>1, SessionAssumption DEF Cached, Known, Snapshot
        <4> QED BY <2>3, <4>1, <4>2
      <3>2. \A g \in Hosts \ {h} : cache'[g] = cache[g]
        BY <1>0, <2>2
      <3> QED BY <3>1, <3>2 DEF New
    <2>5. UNCHANGED <<journal, resumed>>
      BY DEF Prepare, history
    <2>6. snap'.run \notin resumed'
      BY <1>0, <2>3, <2>5 DEF Agreed
    <2>7. ~Ended(snap.run)'
      <3>1. \A i \in DOMAIN journal : journal[i].run <= snap.run /\ journal[i].run \in Nat
        <4>1. ASSUME NEW i \in DOMAIN journal PROVE journal[i].run \in Nat
          <5>1. journal[i] \in Event
            BY <1>0, ElementOfSeq DEF TypeOK
          <5> QED BY <5>1, SessionAssumption DEF Event
        <4> QED BY <1>0, <4>1 DEF Agreed
      <3>2. \A i \in DOMAIN journal : journal[i].run # snap'.run
        BY <2>3, <3>1
      <3> QED BY <2>5, <3>2 DEF Ended
    <2>8. mine'[h] = snap' /\ pc'[h] = "accept" /\ outcome'[h] = outcome[h]
      BY <1>0, <1>3 DEF Go
    <2>9. Drives(h)'
      BY <2>3, <2>4, <2>6, <2>7, <2>8 DEF Drives, Owned
    <2> QED BY <1>1, <2>8, <2>9, DrivingEndings DEF Driving
  <1> QED BY <1>2, <1>3 DEF Prepare

(* ... and where it says how the run ended; ...                              *)
LEMMA EndingsStayTold ==
    ASSUME EInv, NEW h \in Hosts, TellFailure(h) \/ Answer(h)
    PROVE  Ending(h)'
  <1>0. /\ TypeOK /\ Copy(h) /\ Ending(h) /\ pc \in [Hosts -> Labels]
        /\ outcome \in [Hosts -> {"none", "ok", "soft", "hard", "cancelled"}] /\ snap \in Snapshot
    BY DEF EInv, IInv, TypeOK
  <1>1. /\ pc[h] \in {"failing", "lastword", "answer"} /\ UNCHANGED <<snap, cache, mine, resumed>>
    BY DEF TellFailure, Answer, history
  <1>2. Owned(h) /\ snap.status \in {"Failed", "Completed"} /\ outcome[h] # "cancelled"
    BY <1>0, <1>1 DEF Ending, LastWords, LastStatus
  <1>3. Owned(h)'
    BY <1>1, <1>2, OwnedStays
  <1>4. ASSUME pc'[h] \in {"finish", "ended"}, outcome'[h] # "cancelled" PROVE Ending(h)'
    BY <1>4, SilentEndings DEF Silent
  <1>5. ASSUME pc[h] # "lastword", pc'[h] = "cleanup", outcome'[h] = "hard" PROVE Ending(h)'
    <2>1. mine'[h].revision < snap'.revision
      BY <1>0, <1>1, <1>5 DEF Copy
    <2>2. mine'[h].revision # snap'.revision
      <3>1. mine[h] # NoCopy
        BY <1>0, <1>1 DEF Copy
      <3>2. mine[h].revision \in Nat /\ snap.revision \in Nat
        BY <1>0, <3>1, MineIsASnapshot DEF Snapshot
      <3> QED BY <1>1, <2>1, <3>2
    <2> QED BY <1>1, <1>2, <1>3, <1>5, <2>2, CleanupEndings
  <1>6. ASSUME NEW how \in {"ok", "hard"}, End(h, how, Pumped(h)) PROVE Ending(h)'
    <2>1. pc'[h] \in {"finish", "ended"} /\ outcome'[h] = how
      BY <1>0, <1>6, PumpedIsALabel DEF End, Go
    <2> QED BY <1>4, <2>1
  <1>7. ASSUME NEW result \in Results, NEW next \in {"finish", "ended"}, After(h, result, next), pc[h] # "lastword"
        PROVE  Ending(h)'
    BY <1>0, <1>2, <1>4, <1>5, <1>7, AfterEndings
  <1>8. CASE TellFailure(h)
    BY <1>6, <1>7, <1>8, PumpedIsALabel DEF TellFailure
  <1>9. CASE Answer(h)
    <2>1. pc[h] # "lastword"
      BY <1>9 DEF Answer
    <2>2. PICK result \in Results : \/ End(h, "ok", Pumped(h))
                                    \/ After(h, result, "finish")
      BY <1>9 DEF Answer
    <2> QED BY <1>6, <1>7, <2>1, <2>2
  <1> QED BY <1>8, <1>9

(* ... the host around it.                                                   *)
LEMMA EndingsStayClosing ==
    ASSUME EInv, NEW h \in Hosts, Close(h) \/ Cancel(h)
    PROVE  Ending(h)'
  <1>0. /\ TypeOK /\ CachesTrail /\ Copy(h) /\ Ending(h) /\ pc \in [Hosts -> Labels]
        /\ mine \in [Hosts -> Snapshot \cup {NoCopy}] /\ cache \in [Hosts -> Snapshot \cup {NoCopy}]
        /\ outcome \in [Hosts -> {"none", "ok", "soft", "hard", "cancelled"}] /\ snap \in Snapshot
        /\ Current(h) \in Snapshot
    BY CurrentIsASnapshot DEF EInv, IInv, TypeOK
  <1>1. ASSUME Leaves(h) PROVE Ending(h)'
    <2>1. pc'[h] \in {"idle", "down"} /\ outcome'[h] = "none"
      BY <1>0, <1>1 DEF Leaves, Leave, Go, TypeOK
    <2> QED BY <2>1, SilentEndings DEF Silent
  <1>2. ASSUME pc'[h] \in {"ended", "finish", "record_cancelled"}, outcome'[h] = "cancelled",
               Stale(h)' \/ (snap' = mine'[h] /\ Drives(h)')
        PROVE  Ending(h)'
    BY <1>2 DEF Ending, Drives, Driving, Calling, LastWords
  <1>3. ASSUME UNCHANGED <<snap, journal, mine, resumed>>, \A g \in Hosts \ {h} : cache'[g] = cache[g],
               Drives(h)
        PROVE  Drives(h)'
    BY <1>3, OwnedStays, EndedAlike DEF Drives
  <1>4. outcome[h] = "cancelled" /\ pc[h] \in {"ended", "finish", "record_cancelled"} =>
            Stale(h) \/ (snap = mine[h] /\ Drives(h))
    BY <1>0 DEF Ending, Drives
  <1>5. CASE MarkAdmitted(h)
    <2>0. UNCHANGED <<snap, journal, mine, resumed, outcome>>
      BY <1>5 DEF MarkAdmitted, history
    <2>1. /\ UNCHANGED <<snap, journal, mine, resumed, outcome>> /\ cache' = [cache EXCEPT ![h] = Current(h)]
          /\ \/ pc[h] = "ended" /\ pc'[h] = "finish"
             \/ pc[h] = "suspended" /\ pc'[h] = "waiting"
      BY <1>0, <1>5, <2>0 DEF MarkAdmitted, Loaded, Go
    <2>2. \A g \in Hosts \ {h} : cache'[g] = cache[g]
      BY <1>0, <2>1
    <2>3. Drives(h) => Drives(h)'
      BY <1>3, <2>1, <2>2
    <2>4. CASE pc[h] = "suspended"
      <3>1. Drives(h) /\ outcome[h] # "cancelled"
        BY <1>0, <2>4 DEF Ending, Drives, Copy, Driving
      <3> QED BY <2>1, <2>3, <2>4, <3>1, DrivingEndings DEF Driving
    <2>5. CASE pc[h] = "ended" /\ outcome[h] = "cancelled"
      <3>1. Stale(h) => Stale(h)'
        BY <1>0, <2>1 DEF Stale, Current
      <3> QED BY <1>2, <1>4, <2>1, <2>3, <2>5, <3>1
    <2>6. CASE pc[h] = "ended" /\ outcome[h] # "cancelled"
      BY <2>1, <2>6, SilentEndings DEF Silent
    <2> QED BY <2>1, <2>4, <2>5, <2>6
  <1>6. CASE Cancel(h)
    <2>1. UNCHANGED <<snap, journal, mine, resumed, cache>> /\ outcome'[h] = "cancelled"
          /\ pc'[h] \in {"ended", "finish"}
      BY <1>0, <1>6, PumpedIsALabel DEF Cancel, End, Go, history
    <2>2. CASE pc[h] = "admitted"
      <3>1. Stale(h)
        BY <1>0, <2>2 DEF Ending
      <3>2. Stale(h)'
        BY <2>1, <3>1 DEF Stale
      <3> QED BY <1>2, <2>1, <3>2
    <2>3. CASE pc[h] = "waiting"
      <3>1. Drives(h) /\ snap = mine[h]
        BY <1>0, <2>3 DEF Ending, Drives, Copy, Driving
      <3> QED BY <1>2, <1>3, <2>1, <3>1
    <2> QED BY <1>6, <2>2, <2>3 DEF Cancel
  <1>7. CASE Finish(h)
    <2>1. UNCHANGED <<snap, journal, resumed, cache>> /\ pc[h] = "finish"
      BY <1>7 DEF Finish, history
    <2>2. CASE Go(h, "clear")
      BY <1>0, <2>2, SilentEndings DEF Go, Silent
    <2>3. CASE outcome[h] = "cancelled" /\ Go(h, "record_cancelled") /\ UNCHANGED locals
      <3>1. pc'[h] = "record_cancelled" /\ outcome'[h] = "cancelled" /\ mine' = mine
        BY <1>0, <2>3 DEF Go, locals
      <3>2. (Stale(h) => Stale(h)') /\ (Drives(h) => Drives(h)')
        BY <1>3, <2>1, <3>1 DEF Stale
      <3>3. Stale(h)' \/ (snap' = mine'[h] /\ Drives(h)')
        BY <1>4, <2>1, <2>3, <3>1, <3>2
      <3> QED BY <1>2, <3>1, <3>3
    <2> QED BY <1>1, <1>7, <2>2, <2>3, FailsLeaves DEF Finish
  <1>8. CASE RecordCancelled(h)
    <2>. DEFINE s == [Current(h) EXCEPT !.status = "Cancelled"]
    <2>1. CASE /\ Cancellable(Current(h)) /\ Write(h, s, "ok") /\ Go(h, "tell_cancelled")
               /\ mine' = [mine EXCEPT ![h] = snap'] /\ UNCHANGED outcome
      <3>1. s \in Snapshot /\ s.run = Current(h).run /\ s.status = "Cancelled"
        BY <1>0, StatusChanges DEF Statuses, Snapshot
      <3>2. "ok" \in Results
        BY DEF Results
      <3>. HIDE DEF s
      <3>3. Stored(h, s) /\ cache'[h] = snap' /\ cache' = [cache EXCEPT ![h] = cache'[h]]
        BY <1>0, <2>1, <3>1, <3>2, WriteIsConditional DEF s
      <3>4. snap' = Committed(s) /\ Current(h) = snap
        BY <3>3 DEF Stored
      <3>5. snap'.run = snap.run /\ snap'.status = "Cancelled"
        BY <3>1, <3>4 DEF Committed, Snapshot
      <3>6. ~Stale(h)
        BY <2>1, <3>4 DEF Cancellable, Current, Stale
      <3>7. Drives(h) /\ snap = mine[h] /\ outcome[h] = "cancelled"
        BY <1>0, <1>4, <1>8, <3>6 DEF RecordCancelled, Ending
      <3>8. mine'[h] = snap' /\ pc'[h] = "tell_cancelled" /\ UNCHANGED <<journal, resumed>>
        BY <1>0, <1>8, <2>1 DEF RecordCancelled, Go, history
      <3>9. Owned(h)'
        <4>1. \A g \in Hosts \ {h} : cache'[g] = cache[g]
          BY <1>0, <3>3
        <4> QED BY <3>5, <3>7, <3>8, <4>1, OwnedStays DEF Drives
      <3>10. ~Ended(snap.run)'
        BY <3>5, <3>7, <3>8, EndedAlike DEF Drives
      <3> QED BY <3>3, <3>5, <3>8, <3>9, <3>10, LastEndings DEF LastWords, LastStatus
    <2>2. CASE Fails(h)
      BY <1>1, <2>2, FailsLeaves
    <2> QED BY <1>8, <2>1, <2>2 DEF RecordCancelled
  <1>9. CASE TellCancelled(h)
    <2>1. CASE Go(h, "clear")
      BY <1>0, <2>1, SilentEndings DEF Go, Silent
    <2> QED BY <1>1, <1>9, <2>1, FailsLeaves DEF TellCancelled
  <1>10. CASE Release(h)
    BY <1>1, <1>10 DEF Release, Leaves
  <1> QED BY <1>5, <1>6, <1>7, <1>8, <1>9, <1>10 DEF Close

(* Nobody else's knowledge is disturbed.                                     *)
LEMMA EndingsAreKept ==
    ASSUME EInv, NEW h \in Hosts, Work(h) \/ Cancel(h) \/ Abandon(h) \/ Kill(h) \/ Start(h) \/ TakeLock(h)
    PROVE  \A g \in Hosts : Ending(g)'
  <1>0. /\ TypeOK /\ HoldersHaveTheLock /\ (\A g \in Hosts : Ending(g)) /\ pc \in [Hosts -> Labels]
        /\ outcome \in [Hosts -> {"none", "ok", "soft", "hard", "cancelled"}]
        /\ cache \in [Hosts -> Snapshot \cup {NoCopy}]
    BY DEF EInv, IInv, TypeOK
  <1>1. Ending(h)'
    <2>1. CASE Abandon(h) \/ Kill(h)
      <3>1. Leaves(h)
        BY <2>1, FailsLeaves DEF Abandon, Kill, Leaves
      <3>2. pc'[h] \in {"idle", "down"} /\ outcome'[h] = "none"
        BY <1>0, <3>1 DEF Leaves, Leave, Go
      <3> QED BY <3>2, SilentEndings DEF Silent
    <2>2. CASE Start(h) \/ TakeLock(h)
      <3>1. pc'[h] \in {"idle", "locked"} /\ outcome' = outcome /\ outcome[h] # "cancelled"
        BY <1>0, <2>2 DEF Start, TakeLock, Go, Ending
      <3> QED BY <3>1, SilentEndings DEF Silent
    <2>3. CASE Work(h) \/ Cancel(h)
      BY <2>3, EndingsStayRecovering, EndingsStayDriving, EndingsStayWriting, EndingsStayPreparing, EndingsStayTold,
         EndingsStayClosing DEF Work, Agent
    <2> QED BY <2>1, <2>2, <2>3
  <1>2. ASSUME NEW g \in Hosts \ {h} PROVE Ending(g)'
    <2>1. pc'[g] = pc[g] /\ mine'[g] = mine[g] /\ outcome'[g] = outcome[g] /\ (pc[h] \notin Off => pc[g] \in Off)
      BY <1>0, OthersAreUntouched
    <2>2. CASE pc[g] \in Off
      <3>1. outcome[g] # "cancelled"
        BY <1>0, <2>2 DEF Ending, Off
      <3> QED BY <2>1, <2>2, <3>1, SilentEndings DEF Off, Silent
    <2>3. CASE pc[h] \in Off
      <3>1. Kill(h) \/ Start(h) \/ TakeLock(h)
        BY <2>3, IdleSteps
      <3>2. UNCHANGED <<snap, journal, resumed>> /\ (cache' = cache \/ cache' = [cache EXCEPT ![h] = NoCopy])
        BY <3>1 DEF Kill, Start, TakeLock, history
      <3>3. \A f \in Hosts : cache'[f] # NoCopy => cache'[f] = cache[f]
        BY <1>0, <3>2
      <3>4. cache'[g] = cache[g]
        BY <1>0, <3>2
      <3>5. /\ Owned(g) => Owned(g)'
            /\ Stale(g) => Stale(g)'
            /\ \A r : (Ended(r)' <=> Ended(r)) /\ (Closed(r)' <=> Closed(r))
            /\ Sunk(snap)' <=> Sunk(snap)
        BY <2>1, <3>2, <3>3, <3>4, EndedAlike DEF Owned, New, Stale, Sunk
      <3>6. Ending(g)
        BY <1>0
      <3> QED BY <2>1, <3>2, <3>4, <3>5, <3>6 DEF Ending
    <2> QED BY <2>1, <2>2, <2>3
  <1> QED BY <1>1, <1>2

LEMMA ReconcilingKeeps ==
    ASSUME EInv, Reconcile
    PROVE  Agreed' /\ Fenced' /\ Cached' /\ \A g \in Hosts : Ending(g)'
  <1>0. /\ TypeOK /\ Bounded(snap) /\ Agreed /\ Fenced /\ Cached /\ snap \in Snapshot
        /\ \A g \in Hosts : Copy(g) /\ Ending(g)
    BY DEF EInv, IInv, TypeOK
  <1>1. PICK c \in snap.pending : snap' = Reconciled(snap, c)
    BY DEF Reconcile
  <1>2. UNCHANGED <<journal, marker, cache, mine, pc, outcome>> /\ snap.status = "Indeterminate"
    BY DEF Reconcile, control
  <1>3. snap'.run = snap.run /\ snap'.status \in {"Running", "Indeterminate"}
    BY <1>0, <1>1, <1>2 DEF Reconciled, Snapshot
  <1>4. resumed' = IF snap'.status = "Running" THEN resumed \cup {snap.run} ELSE resumed
    BY DEF Reconcile
  <1>5. snap.run \in 1..snap.run
    <2>1. c.run <= snap.run /\ c \in Call
      BY <1>0 DEF Bounded, Snapshot
    <2>2. snap.run \in Nat /\ c.run \in 1..MaxRuns
      BY <1>0, <2>1, SessionAssumption DEF Snapshot, Call
    <2> QED BY <2>1, <2>2, SessionAssumption
  <1>6. Sunk(snap)'
    BY <1>3, <1>4 DEF Sunk
  <1>7. /\ \A r : (Ended(r)' <=> Ended(r)) /\ (Closed(r)' <=> Closed(r))
        /\ \A kind, r : Recorded(kind, r)' <=> Recorded(kind, r)
    BY <1>2, EndedAlike
  <1>8. Agreed'
    <2>1. (resumed \subseteq 1..snap.run)'
      BY <1>0, <1>3, <1>4, <1>5 DEF Agreed
    <2>2. JournalAgrees'
      BY <1>0, <1>2, <1>3, <1>6, <1>7 DEF Agreed, JournalAgrees, Sunk
    <2> QED BY <1>0, <1>2, <1>3, <2>1, <2>2 DEF Agreed, EndingsAreFinal
  <1>9. Fenced'
    BY <1>0, <1>2, <1>7 DEF Fenced
  <1>10. Cached'
    BY <1>0, <1>2, <1>3, <1>6, <1>7 DEF Cached, Known
  <1>11. ASSUME NEW g \in Hosts PROVE Ending(g)'
    <2>1. Copy(g) /\ Ending(g)
      BY <1>0
    <2>2. pc[g] \notin Driving \cup Calling \cup {"cleanup"} \cup LastWords
      BY <1>2, <2>1 DEF Ending, Copy, LastWords, LastStatus
    <2>3. Stale(g)' <=> Stale(g)
      BY <1>2 DEF Stale
    <2>4. outcome[g] = "cancelled" /\ pc[g] \in {"ended", "finish", "record_cancelled"} => Stale(g)
      BY <1>2, <2>1 DEF Ending
    <2> QED BY <1>2, <1>3, <1>6, <1>7, <2>1, <2>2, <2>3, <2>4 DEF Ending
  <1> QED BY <1>8, <1>9, <1>10, <1>11

----------------------------------------------------------------------------
(* The invariant holds at first,                                             *)
LEMMA StartsAgreed == Init => EInv
  <1>. SUFFICES ASSUME Init PROVE EInv
    OBVIOUS
  <1>1. IInv
    BY StartsSafe
  <1>2. DOMAIN journal = {}
    BY DEF Init
  <1>3. Agreed
    BY <1>2 DEF Init, Agreed, EndingsAreFinal, JournalAgrees, Recorded
  <1>4. Fenced /\ Cached
    BY DEF Init, Fenced, Cleared, Cached
  <1>5. \A h \in Hosts : Ending(h)
    BY DEF Init, Ending, Driving, Calling, LastWords
  <1> QED BY <1>1, <1>3, <1>4, <1>5 DEF EInv

(* and every step keeps it.                                                  *)
LEMMA StepsAgree == EInv /\ [Next]_vars => EInv'
  <1>. SUFFICES ASSUME EInv, [Next]_vars PROVE EInv'
    OBVIOUS
  <1>1. IInv'
    BY StepsSafe DEF EInv
  <1>2. ASSUME NEW h \in Hosts, Work(h) \/ Cancel(h) \/ Abandon(h) \/ Kill(h) \/ Start(h) \/ TakeLock(h)
        PROVE  EInv'
    <2>1. Agreed' /\ Cached'
      BY <1>2, StepsFit, KeepersAgree, SaversAgree, TellersAgree
    <2> QED BY <1>1, <1>2, <2>1, MarkersAreKept, EndingsAreKept DEF EInv
  <1>3. CASE Reconcile
    BY <1>1, <1>3, ReconcilingKeeps DEF EInv
  <1>4. CASE UNCHANGED vars
    <2>1. UNCHANGED <<snap, journal, marker, cache, pc, mine, outcome, resumed>>
      BY <1>4 DEF vars, control, history
    <2>2. /\ \A r : (Ended(r)' <=> Ended(r)) /\ (Closed(r)' <=> Closed(r))
          /\ \A kind, r : Recorded(kind, r)' <=> Recorded(kind, r)
          /\ Sunk(snap)' <=> Sunk(snap)
      BY <2>1, EndedAlike DEF Sunk
    <2>3. Agreed' /\ Fenced' /\ Cached'
      BY <2>1, <2>2 DEF EInv, Agreed, EndingsAreFinal, JournalAgrees, Fenced, Cached, Known, Sunk
    <2>4. ASSUME NEW h \in Hosts PROVE Ending(h)'
      <3>1. Ending(h) /\ (Owned(h)' <=> Owned(h)) /\ (Stale(h)' <=> Stale(h))
        BY <2>1 DEF EInv, Owned, New, Stale
      <3> QED BY <2>1, <2>2, <3>1 DEF Ending
    <2> QED BY <1>1, <2>3, <2>4 DEF EInv
  <1> QED BY <1>2, <1>3, <1>4 DEF Next

(* Only a reconciled call leaves the session's doubt.                        *)
LEMMA DoubtIsReconciled ==
    ASSUME EInv, [Next]_vars, snap.status = "Indeterminate", snap'.status # "Indeterminate"
    PROVE  snap'.pending = {} /\ snap.pending \subseteq snap'.recorded
  <1>0. TypeOK /\ snap \in Snapshot
    BY DEF EInv, IInv, TypeOK
  <1>1. CASE Reconcile
    <2>1. PICK c \in snap.pending : snap' = Reconciled(snap, c)
      BY <1>1 DEF Reconcile
    <2>2. /\ snap'.pending = snap.pending \ {c} /\ snap'.recorded = snap.recorded \cup {c}
          /\ snap'.status = IF snap.pending = {c} THEN "Running" ELSE snap.status
      BY <1>0, <2>1 DEF Reconciled, Snapshot
    <2> QED BY <2>2
  <1>2. ASSUME NEW h \in Hosts, Work(h) \/ Cancel(h) \/ Abandon(h) \/ Kill(h) \/ Start(h) \/ TakeLock(h)
        PROVE  FALSE
    <2>1. CASE Stores(h)
      <3>1. PICK s \in Snapshot, result \in Results : Write(h, s, result)
        BY <2>1 DEF Stores
      <3>2. CachesTrail
        BY DEF EInv, IInv
      <3>3. snap' = snap \/ Stored(h, s)
        BY <1>0, <3>1, <3>2, WriteIsConditional
      <3>4. Stored(h, s) => snap'.status = "Indeterminate"
        BY DEF Stored, Committed, Snapshot
      <3> QED BY <3>3, <3>4
    <2>2. CASE Rests(h)
      BY <2>2 DEF Rests
    <2> QED BY <1>2, <2>1, <2>2, StoreShapes DEF EInv
  <1>3. CASE UNCHANGED vars
    BY <1>3 DEF vars
  <1> QED BY <1>1, <1>2, <1>3 DEF Next

(* A run ends once in the journal, and the stored session agrees with it     *)
(* about how; and a session whose outcome is in doubt goes on only when each *)
(* of its pending calls has its result -- whatever fails, whoever dies, and  *)
(* whichever host recovers the run (recover_owned_run, checkpoint,           *)
(* record_session_failure, reconcile).                                       *)
THEOREM RunsAlwaysEndOnce == Spec => RunsEndOnce
  <1>1. EInv => EndingsAreFinal /\ JournalAgrees
    BY DEF EInv, Agreed
  <1>2. EInv /\ [Next]_vars => [snap.status = "Indeterminate" /\ snap'.status # "Indeterminate" =>
                                   snap'.pending = {} /\ snap.pending \subseteq snap'.recorded]_snap
    BY DoubtIsReconciled
  <1> QED BY <1>1, <1>2, StartsAgreed, StepsAgree, PTL DEF Spec, RunsEndOnce, IndeterminateIsReconciled

-----------------------------------------------------------------------------
(***************************************************************************)
(* The instance of a plugin.  Whoever is inside a hook holds the flag that *)
(* marks the instance poisoned, and puts back what it found.               *)
(***************************************************************************)
CONSTANTS Properties, Values, Synchronous, Deferred, None, MaxRevision, MaxHooks

VARIABLES phase, initialized, poisoned, field, sidecar, cells, entry, work, ticket, calls, panicked

Instance == INSTANCE OwnedState WITH Pending <- Deferred, MaxCalls <- MaxHooks

(* The fields of an instance are what its observers see after failed        *)
(* publications and panics; work keeps its lease, and nothing starts in an  *)
(* instance that was poisoned.                                              *)
InstancesKeepTheirFields == Instance!InstancesKeepTheirFields

(* Every property has its cell. *)
Bound == \A p \in Properties : sidecar[p] # None

(* A hook runs in an initialized instance for the ticket of its call, and puts back a flag *)
(* that says whether an earlier one panicked.                                               *)
EntryOK ==
    entry # None /\ entry.mode # "initialize" =>
       /\ phase = "up" /\ entry.op \in Instance!Operations
       /\ entry.was <=> panicked
       /\ entry.op \in Deferred => entry.ticket
       /\ entry.ticket => ticket # None /\ ~ticket.quiescent /\ ticket.op = entry.op
       /\ ~entry.ticket => ticket = None

PhaseOK ==
    /\ phase \in {"absent", "created"} => ~panicked
    /\ phase \notin {"absent", "created"} /\ entry # None => entry.mode # "initialize" /\ phase = "up"
    /\ phase = "up" => initialized /\ Bound
    /\ phase # "up" => ticket = None
    /\ phase = "absent" => entry = None
    /\ entry # None => initialized

WorkOK == work => ticket # None /\ ~ticket.quiescent /\ ticket.op \in Deferred /\ phase = "up"

OwnerInv ==
    /\ Instance!TypeOK /\ Instance!FieldsArePublished /\ Instance!PoisonedMeansPanicked
    /\ EntryOK /\ PhaseOK /\ WorkOK

Assumed == Instance!OwnedStateAssumption /\ Instance!NoneAssumption

LEMMA OwnerInit == ASSUME Assumed, Values # {}, Instance!Init PROVE OwnerInv
<1>1. Instance!Initial \in Values
  BY DEF Instance!Initial
<1>2. /\ phase = "absent" /\ initialized = FALSE /\ poisoned = FALSE /\ entry = None /\ work = FALSE
      /\ ticket = None /\ calls = 0 /\ panicked = FALSE
      /\ field = [p \in Properties |-> Instance!Initial]
      /\ sidecar = [p \in Properties |-> None] /\ cells = [p \in Properties |-> None]
  BY DEF Instance!Init
<1>3. calls \in 0 .. MaxHooks
  BY <1>2 DEF Assumed, Instance!OwnedStateAssumption
<1>4. /\ field \in [Properties -> Values]
      /\ sidecar \in [Properties -> 0 .. MaxRevision \cup {None}]
      /\ cells \in [Properties -> Instance!Snapshot \cup {None}]
  BY <1>1, <1>2
<1>5. Instance!TypeOK
  BY <1>2, <1>3, <1>4 DEF Instance!TypeOK
<1>6. Instance!FieldsArePublished
  BY <1>2 DEF Instance!FieldsArePublished
<1> QED BY <1>2, <1>5, <1>6 DEF OwnerInv, Instance!PoisonedMeansPanicked, EntryOK, PhaseOK, WorkOK

LEMMA QuiescentFacts ==
    ASSUME NEW t \in Instance!Ticket, NEW q \in BOOLEAN, NEW l \in {"Pending", "Ready", "Failed", "Cancelled"}
    PROVE  LET u == [t EXCEPT !.quiescent = q, !.logical = l] IN
           u \in Instance!Ticket /\ u.op = t.op /\ u.cancelled = t.cancelled /\ u.quiescent = q
  BY DEF Instance!Ticket

LEMMA OverFacts ==
    ASSUME NEW t \in Instance!Ticket, NEW q \in BOOLEAN
    PROVE  LET u == [t EXCEPT !.quiescent = q] IN
           u \in Instance!Ticket /\ u.op = t.op /\ u.cancelled = t.cancelled /\ u.quiescent = q
  BY DEF Instance!Ticket

LEMMA EntryFacts ==
    ASSUME NEW e \in Instance!Entry, Assumed
    PROVE  /\ e.mode \in {"initialize", "invoke", "poll", "cancel"}
           /\ e.op \in Instance!Operations \cup {None}
           /\ e.ticket \in BOOLEAN /\ e.effects \in BOOLEAN /\ e.was \in BOOLEAN /\ e # None
  BY DEF Instance!Entry, Instance!Modes, Assumed, Instance!NoneAssumption

LEMMA TicketFacts ==
    ASSUME NEW t \in Instance!Ticket, Assumed
    PROVE  /\ t.op \in Instance!Operations /\ t.logical \in {"Pending", "Ready", "Failed", "Cancelled"}
           /\ t.quiescent \in BOOLEAN /\ t.cancelled \in BOOLEAN /\ t # None
  BY DEF Instance!Ticket, Assumed, Instance!NoneAssumption

LEMMA AcceptedFacts ==
    ASSUME NEW t \in Instance!Ticket, NEW status \in 0 .. 5, Assumed
    PROVE  LET u == Instance!Accepted(t, status) IN
           /\ u \in Instance!Ticket /\ u # None /\ u.op = t.op /\ u.cancelled = t.cancelled
           /\ ~t.quiescent /\ status \in {2, 3} => ~u.quiescent
<1> DEFINE u == Instance!Accepted(t, status)
<1>0. u = Instance!Accepted(t, status)
  OBVIOUS
<1> HIDE DEF u
<1>1. u \in Instance!Ticket /\ u.op = t.op /\ u.cancelled = t.cancelled
      /\ (~t.quiescent /\ status \in {2, 3} => ~u.quiescent)
  <2>1. CASE status = 3
    BY <1>0, <2>1 DEF Instance!Accepted
  <2>2. CASE status = 4 /\ t.cancelled
    <3>1. u = [t EXCEPT !.quiescent = TRUE] /\ status \notin {2, 3}
      BY <1>0, <2>2 DEF Instance!Accepted
    <3> QED BY <3>1, OverFacts
  <2>3. CASE status # 3 /\ ~(status = 4 /\ t.cancelled)
    <3> DEFINE q == t.quiescent \/ status \in {0, 1, 5}
               l == IF t.logical # "Pending" THEN t.logical
                    ELSE IF status \in {0, 1} THEN "Ready" ELSE "Failed"
    <3>1. u = [t EXCEPT !.quiescent = q, !.logical = l]
      BY <1>0, <2>3 DEF Instance!Accepted, Instance!Quiescent
    <3>2. q \in BOOLEAN /\ l \in {"Pending", "Ready", "Failed", "Cancelled"}
      BY TicketFacts
    <3>3. ~t.quiescent /\ status \in {2, 3} => q = FALSE
      OBVIOUS
    <3> HIDE DEF q, l
    <3>4. u \in Instance!Ticket /\ u.op = t.op /\ u.cancelled = t.cancelled /\ u.quiescent = q
      BY ONLY <3>1, <3>2, t \in Instance!Ticket DEF Instance!Ticket
    <3> QED BY <3>3, <3>4
  <2> QED BY <2>1, <2>2, <2>3
<1> QED BY <1>0, <1>1, TicketFacts DEF u

LEMMA NewTicketFacts ==
    ASSUME NEW op \in Instance!Operations, Assumed
    PROVE  LET t == Instance!NewTicket(op) IN
           t \in Instance!Ticket /\ t # None /\ t.op = op /\ ~t.quiescent /\ ~t.cancelled
  BY TicketFacts DEF Instance!NewTicket, Instance!Ticket

(* Steps outside the fields, with the entry and the ticket they leave.       *)
LEMMA OwnerCreate == ASSUME Assumed, OwnerInv, Instance!Create PROVE OwnerInv'
<1>1. /\ phase = "absent" /\ UNCHANGED <<initialized, poisoned, field, sidecar, cells, entry, work, ticket, calls>>
      /\ \/ phase' = "created" /\ panicked' = panicked
         \/ phase' = "stopped" /\ panicked' = TRUE
  BY DEF Instance!Create, Instance!fieldVars, Instance!callVars
<1>2. entry = None /\ ticket = None /\ ~work
  BY <1>1 DEF OwnerInv, PhaseOK, WorkOK
<1>3. Instance!TypeOK' /\ Instance!FieldsArePublished'
  BY <1>1 DEF OwnerInv, Instance!TypeOK, Instance!FieldsArePublished
<1> QED BY <1>1, <1>2, <1>3 DEF OwnerInv, Instance!PoisonedMeansPanicked, EntryOK, PhaseOK, WorkOK, Bound

LEMMA OwnerInitialize == ASSUME Assumed, OwnerInv, Instance!Initialize PROVE OwnerInv'
<1>1. entry' \in Instance!Entry /\ entry'.mode = "initialize" /\ entry' # None
  BY EntryFacts DEF Instance!Initialize, Instance!Entry, Instance!Modes
<1> QED BY <1>1
     DEF Instance!Initialize, OwnerInv, Instance!TypeOK, Instance!FieldsArePublished, Instance!PoisonedMeansPanicked,
         EntryOK, PhaseOK, WorkOK, Bound, Instance!fieldVars, Instance!callVars

LEMMA OwnerBind == ASSUME Assumed, OwnerInv, NEW p \in Properties, Instance!Bind(p) PROVE OwnerInv'
<1>1. /\ cells' = [cells EXCEPT ![p] = [revision |-> 0, value |-> field[p]]]
      /\ sidecar' = [sidecar EXCEPT ![p] = 0]
      /\ field' = field /\ field[p] \in Values
      /\ UNCHANGED <<phase, initialized, poisoned, entry, work, ticket, calls, panicked>>
      /\ entry # None /\ entry.mode = "initialize" /\ sidecar[p] = None
  BY DEF Instance!Bind, Instance!instanceVars, Instance!callVars, Instance!Initializing, OwnerInv, Instance!TypeOK
<1>2. /\ [revision |-> 0, value |-> field[p]] \in Instance!Snapshot /\ 0 \in 0 .. MaxRevision /\ 0 # None
  BY <1>1 DEF Instance!Snapshot, Assumed, Instance!OwnedStateAssumption, Instance!NoneAssumption
<1>3. /\ cells' \in [Properties -> Instance!Snapshot \cup {None}]
      /\ sidecar' \in [Properties -> 0 .. MaxRevision \cup {None}]
  BY <1>1, <1>2 DEF OwnerInv, Instance!TypeOK
<1>4. Instance!TypeOK'
  BY <1>1, <1>3 DEF OwnerInv, Instance!TypeOK
<1>5. Instance!FieldsArePublished' /\ (Bound => Bound')
  BY <1>1, <1>2 DEF OwnerInv, Instance!TypeOK, Instance!FieldsArePublished, Bound
<1> QED BY <1>1, <1>4, <1>5 DEF OwnerInv, Instance!PoisonedMeansPanicked, EntryOK, PhaseOK, WorkOK

LEMMA OwnerInitialized == ASSUME Assumed, OwnerInv, Instance!Initialized PROVE OwnerInv'
<1>1. /\ entry # None /\ entry.mode = "initialize" /\ Bound
      /\ phase' = "up" /\ poisoned' = FALSE /\ entry' = None
      /\ UNCHANGED <<initialized, field, sidecar, cells, work, ticket, calls, panicked>>
  BY DEF Instance!Initialized, Instance!Initializing, Instance!fieldVars, Instance!callVars, Bound
<1>2. phase = "created" /\ ~panicked /\ initialized /\ ticket = None /\ ~work
  BY <1>1 DEF OwnerInv, PhaseOK, WorkOK, Instance!TypeOK
<1>3. Instance!TypeOK' /\ Instance!FieldsArePublished' /\ Bound'
  BY <1>1 DEF OwnerInv, Instance!TypeOK, Instance!FieldsArePublished, Bound
<1> QED BY <1>1, <1>2, <1>3 DEF OwnerInv, Instance!PoisonedMeansPanicked, EntryOK, PhaseOK, WorkOK

LEMMA OwnerInitializeFails == ASSUME Assumed, OwnerInv, Instance!InitializeFails PROVE OwnerInv'
  BY DEF Instance!InitializeFails, Instance!Initializing, OwnerInv, Instance!TypeOK, Instance!FieldsArePublished,
         Instance!PoisonedMeansPanicked, EntryOK, PhaseOK, WorkOK, Bound, Instance!fieldVars, Instance!callVars

LEMMA OwnerStop == ASSUME Assumed, OwnerInv, Instance!Stop PROVE OwnerInv'
  BY DEF Instance!Stop, OwnerInv, Instance!TypeOK, Instance!FieldsArePublished,
         Instance!PoisonedMeansPanicked, EntryOK, PhaseOK, WorkOK, Bound, Instance!fieldVars, Instance!callVars

LEMMA OwnerRelease == ASSUME Assumed, OwnerInv, Instance!Release PROVE OwnerInv'
  BY DEF Instance!Release, OwnerInv, Instance!TypeOK, Instance!FieldsArePublished,
         Instance!PoisonedMeansPanicked, EntryOK, PhaseOK, WorkOK, Bound, Instance!fieldVars, Instance!instanceVars

LEMMA OwnerWork == ASSUME Assumed, OwnerInv, NEW on \in BOOLEAN, Instance!Work(on) PROVE OwnerInv'
  BY DEF Instance!Work, Instance!Inside, Instance!Initializing, OwnerInv, Instance!TypeOK, Instance!FieldsArePublished,
         Instance!PoisonedMeansPanicked, EntryOK, PhaseOK, WorkOK, Bound, Instance!fieldVars, Instance!instanceVars,
         Instance!callVars

LEMMA OwnerPublish ==
    ASSUME Assumed, OwnerInv, NEW p \in Properties, NEW next \in Values, Instance!Publish(p, next)
    PROVE  OwnerInv'
<1>1. /\ entry # None /\ entry.mode # "initialize" /\ cells[p].revision < MaxRevision
      /\ UNCHANGED <<phase, initialized, poisoned, entry, work, ticket, calls, panicked>>
  BY DEF Instance!Publish, Instance!Inside, Instance!Initializing, Instance!instanceVars, Instance!callVars
<1>2. sidecar[p] # None /\ cells[p] = [revision |-> sidecar[p], value |-> field[p]]
      /\ sidecar[p] \in 0 .. MaxRevision
  BY <1>1 DEF OwnerInv, EntryOK, PhaseOK, Bound, Instance!FieldsArePublished, Instance!TypeOK
<1> DEFINE n == sidecar[p] + 1
<1>3. /\ n \in 0 .. MaxRevision /\ n # None /\ [revision |-> n, value |-> next] \in Instance!Snapshot
  BY <1>1, <1>2 DEF Instance!Snapshot, Assumed, Instance!OwnedStateAssumption, Instance!NoneAssumption
<1>4. CASE Instance!Publishes(p)
  <2>1. /\ cells' = [cells EXCEPT ![p] = [revision |-> n, value |-> next]]
        /\ field' = [field EXCEPT ![p] = next] /\ sidecar' = [sidecar EXCEPT ![p] = n]
    BY <1>2, <1>4 DEF Instance!Publish, Instance!PublishField, Instance!Published
  <2> HIDE DEF n
  <2>2. /\ cells' \in [Properties -> Instance!Snapshot \cup {None}]
        /\ sidecar' \in [Properties -> 0 .. MaxRevision \cup {None}]
        /\ field' \in [Properties -> Values]
    BY <1>3, <2>1 DEF OwnerInv, Instance!TypeOK
  <2>3. Instance!TypeOK'
    BY <1>1, <2>2 DEF OwnerInv, Instance!TypeOK
  <2>4. Instance!FieldsArePublished' /\ (Bound => Bound')
    BY <1>3, <2>1 DEF OwnerInv, Instance!TypeOK, Instance!FieldsArePublished, Bound
  <2> QED BY <1>1, <2>3, <2>4 DEF OwnerInv, Instance!PoisonedMeansPanicked, EntryOK, PhaseOK, WorkOK
<1>5. CASE ~Instance!Publishes(p)
  <2>1. UNCHANGED <<field, sidecar, cells>>
    BY <1>5 DEF Instance!Publish, Instance!PublishField, Instance!fieldVars
  <2> QED BY <1>1, <2>1 DEF OwnerInv, Instance!TypeOK, Instance!FieldsArePublished,
             Instance!PoisonedMeansPanicked, EntryOK, PhaseOK, WorkOK, Bound
<1> QED BY <1>4, <1>5

(* What the kernel and the instance make of a call, whichever way it goes.   *)
LEMMA QuietFields ==
    ASSUME OwnerInv, UNCHANGED Instance!fieldVars, UNCHANGED <<phase, initialized>>,
           poisoned' \in BOOLEAN, panicked' \in BOOLEAN, work' \in BOOLEAN, calls' \in 0 .. MaxHooks,
           entry' \in Instance!Entry \cup {None}, ticket' \in Instance!Ticket \cup {None},
           entry' # None => poisoned'
    PROVE  Instance!TypeOK' /\ Instance!FieldsArePublished' /\ (Bound => Bound')
  BY DEF OwnerInv, Instance!TypeOK, Instance!FieldsArePublished, Bound, Instance!fieldVars

LEMMA OwnerInvoke ==
    ASSUME Assumed, OwnerInv, NEW op \in Instance!Operations, NEW begins \in BOOLEAN,
           NEW allowed \in BOOLEAN, Instance!Invoke(op, begins, allowed)
    PROVE  OwnerInv'
<1> DEFINE e == [mode |-> "invoke", op |-> op, ticket |-> begins, effects |-> allowed, was |-> poisoned]
           refused == ~Instance!Admits("invoke") \/ (op \in Deferred /\ ~begins)
<1>1. /\ phase = "up" /\ entry = None /\ ticket = None /\ calls < MaxHooks /\ calls' = calls + 1
      /\ UNCHANGED <<phase, initialized, work, panicked>> /\ UNCHANGED Instance!fieldVars
      /\ ~refused => ticket' = (IF begins THEN Instance!NewTicket(op) ELSE None) /\ entry' = e /\ poisoned' = TRUE
      /\ refused => /\ ticket' = IF begins THEN Instance!Accepted(Instance!NewTicket(op), 5) ELSE None
                    /\ UNCHANGED <<entry, poisoned>>
  BY DEF Instance!Invoke
<1>2. ~work /\ calls' \in 0 .. MaxHooks /\ poisoned \in BOOLEAN
  BY <1>1 DEF OwnerInv, WorkOK, Instance!TypeOK, Assumed, Instance!OwnedStateAssumption
<1>3. /\ e \in Instance!Entry /\ e # None /\ e.mode = "invoke" /\ e.op = op /\ e.ticket = begins /\ e.was = poisoned
  <2>1. e \in Instance!Entry
    BY <1>2 DEF Instance!Entry, Instance!Modes
  <2> QED BY <2>1, EntryFacts
<1> HIDE DEF e
<1>4. PICK t : t = Instance!NewTicket(op)
  OBVIOUS
<1>5. t \in Instance!Ticket /\ t # None /\ t.op = op /\ ~t.quiescent
  BY <1>4, NewTicketFacts
<1>6. PICK u : u = Instance!Accepted(t, 5)
  OBVIOUS
<1>7. u \in Instance!Ticket /\ u # None
  BY <1>5, <1>6, AcceptedFacts
<1>8. CASE refused
  <2>1. ticket' \in {u, None} /\ entry' = None /\ poisoned' = poisoned
    BY <1>1, <1>4, <1>6, <1>8
  <2>2. Instance!TypeOK' /\ Instance!FieldsArePublished' /\ (Bound => Bound')
    BY <1>1, <1>2, <1>7, <2>1, QuietFields DEF OwnerInv, Instance!TypeOK
  <2> QED BY <1>1, <1>2, <2>1, <2>2 DEF OwnerInv, EntryOK, PhaseOK, WorkOK, Instance!PoisonedMeansPanicked
<1>9. CASE ~refused
  <2>1. /\ ticket' = (IF begins THEN t ELSE None) /\ entry' = e /\ poisoned' = TRUE /\ initialized
        /\ op \in Deferred => begins
    BY <1>1, <1>4, <1>9 DEF Instance!Admits
  <2>2. Instance!TypeOK' /\ Instance!FieldsArePublished' /\ (Bound => Bound')
    BY <1>1, <1>2, <1>3, <1>5, <2>1, QuietFields DEF OwnerInv, Instance!TypeOK
  <2>3. poisoned <=> panicked
    BY <1>1 DEF OwnerInv, Instance!PoisonedMeansPanicked
  <2>4. EntryOK' /\ PhaseOK'
    BY <1>1, <1>3, <1>5, <2>1, <2>2, <2>3 DEF OwnerInv, EntryOK, PhaseOK
  <2> QED BY <1>1, <1>2, <1>3, <2>1, <2>2, <2>4 DEF OwnerInv, WorkOK, Instance!PoisonedMeansPanicked
<1> QED BY <1>8, <1>9

LEMMA OwnerEnter ==
    ASSUME Assumed, OwnerInv, Instance!Live, NEW mode \in {"poll", "cancel"}, NEW t \in Instance!Ticket,
           NEW allowed \in BOOLEAN, ~t.quiescent, t.op = ticket.op, Instance!Enter(mode, t, allowed),
           UNCHANGED <<phase, initialized, Instance!fieldVars, work, calls, panicked>>
    PROVE  OwnerInv'
<1> DEFINE e == [mode |-> mode, op |-> t.op, ticket |-> TRUE,
                 effects |-> allowed /\ ~t.cancelled /\ t.logical # "Failed", was |-> poisoned]
<1>1. /\ phase = "up" /\ entry = None /\ ticket # None
      /\ UNCHANGED <<phase, initialized, work, panicked, calls>> /\ UNCHANGED Instance!fieldVars
      /\ Instance!Admits(mode)
      /\ t.op \in Deferred => ticket' = t /\ entry' = e /\ poisoned' = TRUE
      /\ t.op \notin Deferred => ticket' = Instance!Accepted(t, 2) /\ UNCHANGED <<entry, poisoned>>
  BY DEF Instance!Live, Instance!Enter, Instance!Admits, OwnerInv, PhaseOK
<1>2. poisoned \in BOOLEAN /\ (poisoned <=> panicked) /\ initialized
  BY <1>1 DEF OwnerInv, PhaseOK, Instance!PoisonedMeansPanicked, Instance!TypeOK
<1>3. /\ e \in Instance!Entry /\ e # None /\ e.mode = mode /\ e.op = t.op /\ e.ticket = TRUE /\ e.was = poisoned
  <2>1. (allowed /\ ~t.cancelled /\ t.logical # "Failed") \in BOOLEAN /\ t.op \in Instance!Operations
    BY TicketFacts
  <2>2. e \in Instance!Entry
    BY <1>2, <2>1 DEF Instance!Entry, Instance!Modes
  <2> QED BY <2>2, EntryFacts
<1> HIDE DEF e
<1>4. t # None /\ t.op \in Instance!Operations
  BY TicketFacts
<1>5. CASE t.op \in Deferred
  <2>1. Instance!TypeOK' /\ Instance!FieldsArePublished' /\ (Bound => Bound')
    BY <1>1, <1>2, <1>3, <1>5, QuietFields DEF OwnerInv, Instance!TypeOK
  <2>2. EntryOK' /\ PhaseOK'
    BY <1>1, <1>2, <1>3, <1>4, <1>5, <2>1 DEF OwnerInv, EntryOK, PhaseOK
  <2> QED BY <1>1, <1>3, <1>4, <1>5, <2>1, <2>2 DEF OwnerInv, WorkOK, Instance!PoisonedMeansPanicked
<1>6. CASE t.op \notin Deferred
  <2>1. PICK u : u = Instance!Accepted(t, 2)
    OBVIOUS
  <2>2. u \in Instance!Ticket /\ u # None /\ ticket' = u /\ entry' = None /\ poisoned' = poisoned
    BY <1>1, <1>6, <2>1, AcceptedFacts
  <2>3. Instance!TypeOK' /\ Instance!FieldsArePublished' /\ (Bound => Bound')
    BY <1>1, <1>2, <2>2, QuietFields DEF OwnerInv, Instance!TypeOK
  <2>4. ~work
    BY <1>6 DEF OwnerInv, WorkOK
  <2> QED BY <1>1, <2>2, <2>3, <2>4 DEF OwnerInv, EntryOK, PhaseOK, WorkOK, Instance!PoisonedMeansPanicked
<1> QED BY <1>5, <1>6

LEMMA OwnerPoll == ASSUME Assumed, OwnerInv, NEW allowed \in BOOLEAN, Instance!Poll(allowed) PROVE OwnerInv'
<1>1. /\ Instance!Live /\ Instance!Enter("poll", ticket, allowed)
      /\ UNCHANGED <<phase, initialized, Instance!fieldVars, work, calls, panicked>>
  BY DEF Instance!Poll
<1>2. ticket \in Instance!Ticket /\ ~ticket.quiescent
  BY <1>1 DEF Instance!Live, OwnerInv, Instance!TypeOK
<1> QED BY <1>1, <1>2, OwnerEnter

LEMMA OwnerCancel == ASSUME Assumed, OwnerInv, Instance!Cancel PROVE OwnerInv'
<1> DEFINE l == IF ticket.logical = "Pending" THEN "Cancelled" ELSE ticket.logical
           t == [ticket EXCEPT !.cancelled = TRUE, !.logical = l]
<1>1. /\ Instance!Live /\ Instance!Enter("cancel", t, FALSE)
      /\ UNCHANGED <<phase, initialized, Instance!fieldVars, work, calls, panicked>>
  BY DEF Instance!Cancel
<1>2. ticket \in Instance!Ticket /\ ~ticket.quiescent
  BY <1>1 DEF Instance!Live, OwnerInv, Instance!TypeOK
<1>3. l \in {"Pending", "Ready", "Failed", "Cancelled"}
  BY <1>2, TicketFacts
<1> HIDE DEF l
<1>4. t \in Instance!Ticket /\ ~t.quiescent /\ t.op = ticket.op
  BY ONLY <1>2, <1>3 DEF Instance!Ticket
<1> HIDE DEF t
<1> QED BY <1>1, <1>4, OwnerEnter

(* The hook is over, with a reply. *)
LEMMA OwnerReplies ==
    ASSUME Assumed, OwnerInv, Instance!Inside, NEW status \in 0 .. 5, Instance!Reply(status, entry),
           work => status \in {2, 3}, entry' = None, poisoned' \in BOOLEAN, panicked' \in BOOLEAN,
           poisoned' <=> panicked', UNCHANGED <<phase, initialized, Instance!fieldVars, work, calls>>
    PROVE  OwnerInv'
<1>1. /\ phase = "up"
      /\ entry.ticket => ticket # None /\ ~ticket.quiescent
      /\ ~entry.ticket => ticket = None
  BY DEF Instance!Inside, Instance!Initializing, OwnerInv, EntryOK
<1>2. PICK u : u = Instance!Accepted(ticket, status)
  OBVIOUS
<1>3. CASE entry.ticket
  <2>1. ticket \in Instance!Ticket
    BY <1>1, <1>3 DEF OwnerInv, Instance!TypeOK
  <2>2. /\ u \in Instance!Ticket /\ u # None /\ u.op = ticket.op /\ ticket' = u
        /\ status \in {2, 3} => ~u.quiescent
    BY <1>1, <1>2, <1>3, <2>1, AcceptedFacts DEF Instance!Reply
  <2>3. Instance!TypeOK' /\ Instance!FieldsArePublished' /\ (Bound => Bound')
    BY <2>2, QuietFields DEF OwnerInv, Instance!TypeOK
  <2> QED BY <1>1, <2>2, <2>3 DEF OwnerInv, EntryOK, PhaseOK, WorkOK, Instance!PoisonedMeansPanicked
<1>4. CASE ~entry.ticket
  <2>1. ticket' = None /\ ticket = None
    BY <1>1, <1>4 DEF Instance!Reply
  <2>2. Instance!TypeOK' /\ Instance!FieldsArePublished' /\ (Bound => Bound')
    BY <2>1, QuietFields DEF OwnerInv, Instance!TypeOK
  <2> QED BY <1>1, <2>1, <2>2 DEF OwnerInv, EntryOK, PhaseOK, WorkOK, Instance!PoisonedMeansPanicked
<1> QED BY <1>3, <1>4

LEMMA OwnerReturn == ASSUME Assumed, OwnerInv, Instance!Return PROVE OwnerInv'
<1>1. PICK status \in Instance!Statuses(entry) : Instance!Reply(status, entry)
  BY DEF Instance!Return
<1>2. /\ Instance!Inside /\ poisoned' = entry.was /\ entry' = None
      /\ UNCHANGED <<phase, initialized, Instance!fieldVars, work, calls, panicked>>
  BY DEF Instance!Return
<1>3. /\ entry \in Instance!Entry /\ (entry.was <=> panicked) /\ panicked \in BOOLEAN /\ entry.was \in BOOLEAN
      /\ entry.ticket => ticket.op = entry.op
      /\ ~entry.ticket => ticket = None
  BY <1>2, EntryFacts DEF Instance!Inside, Instance!Initializing, OwnerInv, Instance!TypeOK, EntryOK
<1>4. work => entry.op \in Deferred /\ entry.op \notin Synchronous
  BY <1>3 DEF OwnerInv, WorkOK, Assumed, Instance!OwnedStateAssumption
<1>5. status \in 0 .. 5 /\ (work => status \in {2, 3})
  BY <1>1, <1>4 DEF Instance!Statuses
<1> QED BY <1>1, <1>2, <1>3, <1>5, OwnerReplies

LEMMA OwnerPanic == ASSUME Assumed, OwnerInv, Instance!Panic PROVE OwnerInv'
<1>1. /\ Instance!Inside /\ Instance!Reply(2, entry) /\ panicked' = TRUE /\ entry' = None
      /\ UNCHANGED <<phase, initialized, poisoned, Instance!fieldVars, work, calls>>
  BY DEF Instance!Panic, Instance!instanceVars
<1>2. poisoned = TRUE /\ 2 \in 0 .. 5
  BY <1>1 DEF Instance!Inside, OwnerInv, Instance!TypeOK
<1> QED BY <1>1, <1>2, OwnerReplies

LEMMA OwnerNext == ASSUME Assumed, OwnerInv, [Instance!Next]_(Instance!vars) PROVE OwnerInv'
<1>1. CASE Instance!Create BY <1>1, OwnerCreate
<1>2. CASE Instance!Initialize BY <1>2, OwnerInitialize
<1>3. CASE Instance!Initialized BY <1>3, OwnerInitialized
<1>4. CASE Instance!InitializeFails BY <1>4, OwnerInitializeFails
<1>5. CASE \E p \in Properties : Instance!Bind(p) BY <1>5, OwnerBind
<1>6. CASE \E op \in Instance!Operations, begins, allowed \in BOOLEAN : Instance!Invoke(op, begins, allowed)
  BY <1>6, OwnerInvoke
<1>7. CASE \E allowed \in BOOLEAN : Instance!Poll(allowed) BY <1>7, OwnerPoll
<1>8. CASE Instance!Cancel BY <1>8, OwnerCancel
<1>9. CASE Instance!Release BY <1>9, OwnerRelease
<1>10. CASE \E p \in Properties, next \in Values : Instance!Publish(p, next) BY <1>10, OwnerPublish
<1>11. CASE \E on \in BOOLEAN : Instance!Work(on) BY <1>11, OwnerWork
<1>12. CASE Instance!Return BY <1>12, OwnerReturn
<1>13. CASE Instance!Panic BY <1>13, OwnerPanic
<1>14. CASE Instance!Stop BY <1>14, OwnerStop
<1>15. CASE UNCHANGED Instance!vars
  BY <1>15 DEF Instance!vars, Instance!instanceVars, Instance!fieldVars, Instance!callVars, OwnerInv, Instance!TypeOK,
     Instance!FieldsArePublished, Instance!PoisonedMeansPanicked, EntryOK, PhaseOK, WorkOK, Bound
<1> QED BY <1>1, <1>2, <1>3, <1>4, <1>5, <1>6, <1>7, <1>8, <1>9, <1>10, <1>11, <1>12, <1>13, <1>14, <1>15
        DEF Instance!Next

(* No step but an accepted invoke enters a handler. *)
LEMMA OwnerStarts ==
    ASSUME Assumed, OwnerInv, [Instance!Next]_(Instance!vars)
    PROVE  Instance!PoisonedInstancesStartNothing
<1> SUFFICES ASSUME entry = None, entry' # None, entry'.mode = "invoke"
             PROVE  ~panicked /\ Bound
  BY DEF Instance!PoisonedInstancesStartNothing, Bound
<1>1. CASE \E op \in Instance!Operations, begins, allowed \in BOOLEAN : Instance!Invoke(op, begins, allowed)
  <2>1. phase = "up" /\ Instance!Admits("invoke")
    BY <1>1 DEF Instance!Invoke
  <2> QED BY <2>1 DEF OwnerInv, PhaseOK, Instance!PoisonedMeansPanicked, Instance!Admits
<1>2. CASE Instance!Initialize
  BY <1>2 DEF Instance!Initialize
<1>3. CASE \E allowed \in BOOLEAN : Instance!Poll(allowed)
  BY <1>3 DEF Instance!Poll, Instance!Enter
<1>4. CASE Instance!Cancel
  BY <1>4 DEF Instance!Cancel, Instance!Enter
<1>5. CASE \/ Instance!Create \/ Instance!Initialized \/ Instance!InitializeFails \/ Instance!Release
           \/ Instance!Return \/ Instance!Panic \/ Instance!Stop \/ UNCHANGED Instance!vars
  BY <1>5 DEF Instance!Create, Instance!Initialized, Instance!InitializeFails, Instance!Release, Instance!Return,
     Instance!Panic, Instance!Stop, Instance!vars
<1>6. CASE \/ \E p \in Properties : Instance!Bind(p)
           \/ \E p \in Properties, next \in Values : Instance!Publish(p, next)
           \/ \E on \in BOOLEAN : Instance!Work(on)
  BY <1>6 DEF Instance!Bind, Instance!Publish, Instance!Work
<1> QED BY <1>1, <1>2, <1>3, <1>4, <1>5, <1>6 DEF Instance!Next

(* An owner's fields are what observers see, work keeps its lease, the flag *)
(* says that a hook panicked, and nothing starts in a poisoned instance.    *)
THEOREM InstancesAlwaysKeepTheirFields ==
    ASSUME Instance!OwnedStateAssumption, Instance!NoneAssumption
    PROVE  Instance!Spec => InstancesKeepTheirFields
<1>1. Instance!Init => OwnerInv
  BY OwnerInit DEF Assumed, Instance!OwnedStateAssumption
<1>2. OwnerInv /\ [Instance!Next]_(Instance!vars) => OwnerInv'
  BY OwnerNext DEF Assumed
<1>3. OwnerInv /\ [Instance!Next]_(Instance!vars) => Instance!PoisonedInstancesStartNothing
  BY OwnerStarts DEF Assumed
<1>4. OwnerInv => /\ Instance!TypeOK /\ Instance!FieldsArePublished /\ Instance!WorkKeepsItsLease
                  /\ Instance!PoisonedMeansPanicked
  BY DEF OwnerInv, WorkOK, Instance!WorkKeepsItsLease
<1> QED BY <1>1, <1>2, <1>3, <1>4, PTL DEF Instance!Spec, Instance!InstancesKeepTheirFields,
       InstancesKeepTheirFields

-----------------------------------------------------------------------------
(***************************************************************************)
(* The worker of a model call.  Every piece that was received is in the    *)
(* journal, with the poll, or still with the thread, in this order.        *)
(***************************************************************************)
CONSTANTS Calls, MaxPieces, MaxCuts

VARIABLES worker, failure, cancelled, progress, result, thread, sent, handler, polled, replied,
          texts, refused, cuts

Model == INSTANCE HttpModelWorker WITH ticket <- polled, answer <- replied, faults <- cuts, journal <- texts,
                                       MaxFaults <- MaxCuts

(* A reply is given after the journal has all of its text in order, a text  *)
(* the journal refused fails its call, no thread outlives its plugin        *)
(* unheard, and a cancelled call journals nothing more.                     *)
TransportsAreSilenced == Model!TransportsAreSilenced

Handlers == [at : {"take", "append", "return"}, finished : BOOLEAN, cancelled : BOOLEAN, text : Seq(Nat)]

(* The text a poll has taken and not written yet. *)
Taken(c) == IF handler.at = "append" /\ worker = c THEN handler.text ELSE << >>

WorkTyped ==
    /\ Model!TypeOK
    /\ sent \in [Calls -> Nat] /\ progress \in [Calls -> Seq(Nat)] /\ texts \in [Calls -> Seq(Nat)]
    /\ handler \in {Model!Idle} \cup Handlers /\ refused \subseteq Calls

(* The text is in the journal, with the poll, or still with the thread, in this order; *)
(* a text that was refused is lost, and is the last that was taken.                     *)
TextIsSomewhere ==
    \A c \in Calls :
       /\ c \notin refused => (texts[c] \o Taken(c)) \o progress[c] = Model!Whole(c)
       /\ c \in refused => Model!IsPrefix(texts[c], Model!Whole(c))

(* A poll that saw its thread finished and took the text left none. *)
PollOK ==
    handler # Model!Idle =>
       /\ worker \in Calls
       /\ handler.finished => thread[worker] = "finished"
       /\ handler.at \in {"take", "append"} => polled[worker] = "pending" /\ ~failure
       /\ handler.at \in {"append", "return"} /\ handler.finished /\ ~handler.cancelled /\ ~failure
             => progress[worker] = << >>

CallStates ==
    \A c \in Calls :
       /\ polled[c] = "new" => thread[c] = "none" /\ c \notin refused
       /\ polled[c] \in {"new", "pending"} => replied[c] = "none"
       /\ polled[c] = "draining" => replied[c] = "cancelled" /\ cancelled[c]
       /\ polled[c] = "done" => thread[c] \in {"none", "finished"}
       /\ replied[c] = "reply" => polled[c] = "done" /\ texts[c] = Model!Whole(c)
       /\ c \in refused => replied[c] \in {"none", "failed", "cancelled"}
       /\ c \in refused /\ worker = c => failure

WorkInv == WorkTyped /\ TextIsSomewhere /\ PollOK /\ CallStates

LEMMA HandlerFacts ==
    ASSUME NEW h \in Handlers
    PROVE  /\ h.at \in {"take", "append", "return"} /\ h.finished \in BOOLEAN
           /\ h.cancelled \in BOOLEAN /\ h.text \in Seq(Nat) /\ h # Model!Idle
<1>1. /\ h.at \in {"take", "append", "return"} /\ h.finished \in BOOLEAN
      /\ h.cancelled \in BOOLEAN /\ h.text \in Seq(Nat)
  BY DEF Handlers
<1> QED BY <1>1 DEF Model!Idle

LEMMA Regroup ==
    ASSUME NEW s \in Seq(Nat), NEW t \in Seq(Nat), NEW w \in Seq(Nat)
    PROVE  s \o (t \o w) = (s \o t) \o w /\ t \o w \in Seq(Nat)
<1>1. s \o (t \o w) = (s \o t) \o w
  <2>1. PICK S : s \in Seq(S) /\ t \in Seq(S) /\ w \in Seq(S)
    BY Zenon
  <2> QED BY ONLY <2>1
<1>2. t \o w \in Seq(Nat)
  BY ConcatProperties
<1> QED BY <1>1, <1>2

(* A beginning of a text is one of the text with a further piece. *)
LEMMA PrefixOfConcat ==
    ASSUME NEW s \in Seq(Nat), NEW t \in Seq(Nat), NEW w, s \o t = w
    PROVE  Model!IsPrefix(s, w)
<1>1. Len(s) \in Nat /\ Len(t) \in Nat /\ Len(w) = Len(s) + Len(t)
  BY ConcatProperties, LenProperties
<1>2. SubSeq(s, 1, Len(s)) = s
  BY SubSeqFull
<1>3. SubSeq(w, 1, Len(s)) = s
  BY SubSeqOfConcat1, SubSeqFull
<1> QED BY <1>1, <1>2, <1>3 DEF Model!IsPrefix

LEMMA PrefixGrows ==
    ASSUME NEW s \in Seq(Nat), NEW n \in Nat, Model!IsPrefix(s, [i \in 1 .. n |-> i])
    PROVE  Model!IsPrefix(s, [i \in 1 .. n + 1 |-> i])
<1> DEFINE w == [i \in 1 .. n |-> i]
           v == [i \in 1 .. n + 1 |-> i]
           m == Len(s)
<1>0. m \in Nat
  BY LenProperties
<1> HIDE DEF m
<1>1. w \in Seq(Nat) /\ v \in Seq(Nat) /\ Len(w) = n /\ Len(v) = n + 1
  OBVIOUS
<1>2. m <= n /\ SubSeq(s, 1, m) = SubSeq(w, 1, m)
  BY <1>1 DEF Model!IsPrefix, m
<1>3. \A i \in 1 .. m : w[i] = i /\ v[i] = i
  BY <1>0, <1>2
<1> HIDE DEF w, v
<1>4. SubSeq(w, 1, m) = SubSeq(v, 1, m)
  <2>1. /\ SubSeq(w, 1, m) \in Seq(Nat) /\ SubSeq(v, 1, m) \in Seq(Nat)
        /\ Len(SubSeq(w, 1, m)) = IF 1 <= m THEN m - 1 + 1 ELSE 0
        /\ Len(SubSeq(v, 1, m)) = IF 1 <= m THEN m - 1 + 1 ELSE 0
        /\ \A i \in 1 .. m - 1 + 1 : SubSeq(w, 1, m)[i] = w[1 + i - 1] /\ SubSeq(v, 1, m)[i] = v[1 + i - 1]
    BY <1>0, <1>3, SubSeqProperties
  <2>2. Len(SubSeq(w, 1, m)) = m /\ Len(SubSeq(v, 1, m)) = m
    BY <1>0, <2>1
  <2>3. \A i \in 1 .. m : SubSeq(w, 1, m)[i] = SubSeq(v, 1, m)[i]
    BY <1>0, <1>3, <2>1
  <2> QED BY <2>1, <2>2, <2>3, SeqEqual
<1>5. Len(s) = m /\ m <= n + 1
  BY <1>0, <1>2 DEF m
<1>6. Len(s) <= Len(v) /\ SubSeq(s, 1, Len(s)) = SubSeq(v, 1, Len(s))
  BY <1>1, <1>2, <1>4, <1>5
<1> QED BY <1>6 DEF Model!IsPrefix, v

LEMMA WholeGrows ==
    ASSUME NEW n \in Nat
    PROVE  Append([i \in 1 .. n |-> i], n + 1) = [i \in 1 .. n + 1 |-> i]
  OBVIOUS

(* A step that touches no text, no thread and no call. *)
LEMMA QuietTexts ==
    ASSUME TextIsSomewhere, UNCHANGED <<texts, progress, sent, refused>>,
           \A c \in Calls : c \notin refused => Taken(c)' = Taken(c)
    PROVE  TextIsSomewhere'
  BY DEF TextIsSomewhere, Model!Whole

LEMMA WorkInit == ASSUME Model!HttpModelAssumption, Model!Init PROVE WorkInv
<1>1. WorkTyped
  <2>1. Model!TypeOK
    BY DEF Model!Init, Model!TypeOK, Model!HttpModelAssumption
  <2>2. << >> \in Seq(Nat)
    OBVIOUS
  <2> QED BY <2>1, <2>2 DEF Model!Init, WorkTyped
<1>2. TextIsSomewhere
  <2> SUFFICES ASSUME NEW c \in Calls PROVE (texts[c] \o Taken(c)) \o progress[c] = Model!Whole(c)
    BY DEF Model!Init, TextIsSomewhere
  <2>1. texts[c] = << >> /\ Taken(c) = << >> /\ progress[c] = << >> /\ sent[c] = 0
    BY DEF Model!Init, Taken, Model!Idle
  <2>2. Model!Whole(c) = << >>
    BY <2>1 DEF Model!Whole
  <2> QED BY <2>1, <2>2
<1>3. PollOK /\ CallStates
  BY DEF Model!Init, PollOK, CallStates
<1> QED BY <1>1, <1>2, <1>3 DEF WorkInv

LEMMA WorkBegin == ASSUME Model!HttpModelAssumption, WorkInv, NEW c \in Calls, Model!Begin(c) PROVE WorkInv'
<1>1. /\ handler = Model!Idle /\ polled[c] = "new" /\ UNCHANGED <<cancelled, progress, result, sent, handler, texts, refused>>
      /\ \/ /\ worker = Model!NoCall /\ worker' = c /\ failure' = FALSE
            /\ thread' = [thread EXCEPT ![c] = "start"] /\ polled' = [polled EXCEPT ![c] = "pending"]
            /\ replied' = replied
         \/ /\ polled' = [polled EXCEPT ![c] = "done"] /\ replied' = [replied EXCEPT ![c] = "failed"]
            /\ UNCHANGED <<worker, failure, thread>>
  BY DEF Model!Begin, Model!End, Model!Set, Model!shared
<1>2. thread[c] = "none" /\ c \notin refused /\ worker # c
  BY <1>1 DEF WorkInv, CallStates, WorkTyped, Model!TypeOK
<1>3. WorkTyped'
  <2>1. Model!TypeOK /\ Model!NoCall \notin Calls
    BY DEF WorkInv, WorkTyped, Model!HttpModelAssumption
  <2>2. \A d \in Calls : polled'[d] \in {"pending", "draining"} <=> worker' = d
    BY <1>1, <1>2, <2>1 DEF Model!TypeOK
  <2>3. /\ worker' \in Calls \cup {Model!NoCall} /\ failure' \in BOOLEAN
        /\ thread' \in [Calls -> {"none", "start", "transfer", "send", "exit", "finished"}]
        /\ polled' \in [Calls -> {"new", "pending", "draining", "done"}]
        /\ replied' \in [Calls -> {"none", "reply", "empty", "failed", "cancelled"}]
    BY <1>1, <2>1 DEF Model!TypeOK
  <2>4. Model!TypeOK'
    BY <1>1, <2>1, <2>2, <2>3 DEF Model!TypeOK
  <2> QED BY <1>1, <2>4 DEF WorkInv, WorkTyped
<1>4. TextIsSomewhere'
  BY <1>1, QuietTexts DEF WorkInv, Taken, Model!Idle
<1>5. PollOK'
  BY <1>1 DEF PollOK
<1>6. CallStates'
  BY <1>1, <1>2 DEF WorkInv, WorkTyped, Model!TypeOK, CallStates, Model!Whole, Model!HttpModelAssumption
<1> QED BY <1>3, <1>4, <1>5, <1>6 DEF WorkInv

LEMMA WorkLook == ASSUME WorkInv, NEW c \in Calls, Model!Look(c) PROVE WorkInv'
<1> DEFINE h == [at |-> IF cancelled[c] \/ failure THEN "return" ELSE "take",
                 finished |-> thread[c] = "finished", cancelled |-> cancelled[c], text |-> << >>]
<1>1. /\ handler = Model!Idle /\ polled[c] \in {"pending", "draining"} /\ worker = c /\ handler' = h
      /\ UNCHANGED <<worker, failure, cancelled, progress, result, thread, sent, polled, replied, texts, refused>>
  BY DEF Model!Look, Model!shared, Model!call
<1>2. cancelled[c] \in BOOLEAN
  BY DEF WorkInv, WorkTyped, Model!TypeOK
<1>3. h \in Handlers /\ h.at = (IF cancelled[c] \/ failure THEN "return" ELSE "take")
      /\ h.finished = (thread[c] = "finished") /\ h.cancelled = cancelled[c]
  BY <1>2 DEF Handlers
<1> HIDE DEF h
<1>4. WorkTyped'
  BY <1>1, <1>3 DEF WorkInv, WorkTyped, Model!TypeOK
<1>5. TextIsSomewhere'
  BY <1>1, <1>3, QuietTexts DEF WorkInv, Taken, Model!Idle
<1>6. PollOK'
  BY <1>1, <1>3 DEF WorkInv, PollOK, CallStates
<1>7. CallStates'
  BY <1>1 DEF WorkInv, CallStates, Model!Whole
<1> QED BY <1>4, <1>5, <1>6, <1>7 DEF WorkInv

LEMMA TakeFacts ==
    ASSUME NEW h \in Handlers, NEW text \in Seq(Nat), NEW at \in {"append", "return"}
    PROVE  LET z == [h EXCEPT !.at = at, !.text = text] IN
           /\ z \in Handlers /\ z.at = at /\ z.text = text
           /\ z.finished = h.finished /\ z.cancelled = h.cancelled
  BY DEF Handlers

LEMMA WorkTake == ASSUME WorkInv, NEW c \in Calls, Model!Take(c) PROVE WorkInv'
<1> DEFINE z == [handler EXCEPT !.at = "append", !.text = progress[c]]
<1>1. /\ handler.at = "take" /\ worker = c /\ handler' = z /\ progress' = [progress EXCEPT ![c] = << >>]
      /\ UNCHANGED <<worker, failure, cancelled, result, thread, sent, polled, replied, texts, refused>>
  BY DEF Model!Take, Model!Set, Model!call
<1>2. handler \in Handlers /\ progress[c] \in Seq(Nat) /\ handler # Model!Idle
  BY <1>1 DEF WorkInv, WorkTyped, Model!Idle
<1>3. /\ z \in Handlers /\ z.at = "append" /\ z.text = progress[c]
      /\ z.finished = handler.finished /\ z.cancelled = handler.cancelled
  BY ONLY <1>2 DEF Handlers
<1> HIDE DEF z
<1>4. WorkTyped'
  BY <1>1, <1>3 DEF WorkInv, WorkTyped, Model!TypeOK
<1>5. TextIsSomewhere'
  <2> SUFFICES ASSUME NEW d \in Calls, d \notin refused
               PROVE  (texts[d] \o Taken(d)') \o progress'[d] = Model!Whole(d)
    BY <1>1 DEF WorkInv, TextIsSomewhere, Model!Whole
  <2>1. /\ (texts[d] \o Taken(d)) \o progress[d] = Model!Whole(d)
        /\ texts[d] \in Seq(Nat) /\ progress[d] \in Seq(Nat)
    BY DEF WorkInv, TextIsSomewhere, WorkTyped
  <2>2. CASE d = c
    <3>1. Taken(d) = << >> /\ Taken(d)' = progress[d] /\ progress'[d] = << >>
      BY <1>1, <1>3, <2>2 DEF WorkInv, WorkTyped, Taken
    <3>2. texts[d] \o << >> = texts[d] /\ texts[d] \o progress[d] \in Seq(Nat)
      BY <2>1, ConcatEmptySeq, ConcatProperties
    <3>3. (texts[d] \o progress[d]) \o << >> = texts[d] \o progress[d]
      BY <3>2, ConcatEmptySeq
    <3> QED BY <2>1, <3>1, <3>2, <3>3
  <2>3. CASE d # c
    <3>1. Taken(d) = << >> /\ Taken(d)' = << >> /\ progress'[d] = progress[d]
      BY <1>1, <2>3 DEF WorkInv, WorkTyped, Taken
    <3> QED BY <2>1, <3>1
  <2> QED BY <2>2, <2>3
<1>6. PollOK'
  BY <1>1, <1>2, <1>3 DEF WorkInv, WorkTyped, PollOK
<1>7. CallStates'
  BY <1>1 DEF WorkInv, CallStates, Model!Whole
<1> QED BY <1>4, <1>5, <1>6, <1>7 DEF WorkInv

LEMMA ConcatAppend ==
    ASSUME NEW s \in Seq(Nat), NEW t \in Seq(Nat), NEW n \in Nat
    PROVE  s \o Append(t, n) = Append(s \o t, n)
<1>1. Append(t, n) = t \o <<n>> /\ <<n>> \in Seq(Nat) /\ s \o t \in Seq(Nat)
  BY AppendIsConcat, ConcatProperties
<1>2. Append(s \o t, n) = (s \o t) \o <<n>>
  BY <1>1, AppendIsConcat
<1>3. s \o (t \o <<n>>) = (s \o t) \o <<n>>
  BY <1>1, ConcatAssociative
<1> QED BY <1>1, <1>2, <1>3

LEMMA WorkWrite == ASSUME WorkInv, NEW c \in Calls, Model!Write(c) PROVE WorkInv'
<1> DEFINE z == [handler EXCEPT !.at = "return", !.text = << >>]
<1>1. /\ handler.at = "append" /\ worker = c /\ handler' = z
      /\ UNCHANGED <<worker, progress, result, thread, sent, polled, replied>>
      /\ \/ texts' = [texts EXCEPT ![c] = texts[c] \o handler.text] /\ UNCHANGED <<failure, cancelled, refused>>
         \/ /\ failure' = TRUE /\ cancelled' = [cancelled EXCEPT ![c] = TRUE]
            /\ refused' = refused \cup {c} /\ texts' = texts
  BY DEF Model!Write, Model!Set, Model!call
<1>2. handler \in Handlers /\ handler # Model!Idle /\ << >> \in Seq(Nat)
  BY <1>1 DEF WorkInv, WorkTyped, Model!Idle
<1>3. /\ z \in Handlers /\ z.at = "return"
      /\ z.finished = handler.finished /\ z.cancelled = handler.cancelled
  BY ONLY <1>2 DEF Handlers
<1> HIDE DEF z
<1>4. /\ handler.text \in Seq(Nat) /\ texts \in [Calls -> Seq(Nat)] /\ progress \in [Calls -> Seq(Nat)]
  BY <1>2, HandlerFacts DEF WorkInv, WorkTyped
<1>5. /\ ~failure /\ polled[c] = "pending" /\ replied[c] = "none" /\ c \notin refused
  BY <1>1, <1>2 DEF WorkInv, PollOK, CallStates
<1>6. /\ Taken(c) = handler.text /\ Taken(c)' = << >>
      /\ \A d \in Calls \ {c} : Taken(d) = << >> /\ Taken(d)' = << >>
  BY <1>1, <1>3 DEF Taken
<1>7. (texts[c] \o handler.text) \o progress[c] = Model!Whole(c)
  BY <1>5, <1>6 DEF WorkInv, TextIsSomewhere
<1>8. CASE texts' = [texts EXCEPT ![c] = texts[c] \o handler.text] /\ UNCHANGED <<failure, cancelled, refused>>
  <2>1. texts[c] \o handler.text \in Seq(Nat)
    BY <1>4, ConcatProperties
  <2>2. WorkTyped'
    BY <1>1, <1>3, <1>4, <1>8, <2>1 DEF WorkInv, WorkTyped, Model!TypeOK
  <2>3. texts'[c] = texts[c] \o handler.text /\ texts'[c] \o << >> = texts'[c]
    BY <1>4, <1>8, <2>1, ConcatEmptySeq
  <2>4. TextIsSomewhere'
    <3> SUFFICES ASSUME NEW d \in Calls
                 PROVE  /\ d \notin refused => (texts'[d] \o Taken(d)') \o progress[d] = Model!Whole(d)
                        /\ d \in refused => Model!IsPrefix(texts'[d], Model!Whole(d))
      BY <1>1, <1>8 DEF TextIsSomewhere, Model!Whole
    <3>1. CASE d = c
      BY <1>5, <1>6, <1>7, <2>3, <3>1
    <3>2. CASE d # c
      <4>1. Taken(d) = << >> /\ Taken(d)' = << >> /\ texts'[d] = texts[d]
        BY <1>4, <1>6, <1>8, <3>2
      <4> QED BY <4>1 DEF WorkInv, TextIsSomewhere
    <3> QED BY <3>1, <3>2
  <2>5. PollOK'
    BY <1>1, <1>2, <1>3, <1>8 DEF WorkInv, WorkTyped, PollOK
  <2>6. CallStates'
    BY <1>1, <1>4, <1>5, <1>8 DEF WorkInv, CallStates, Model!Whole
  <2> QED BY <2>2, <2>4, <2>5, <2>6 DEF WorkInv
<1>9. CASE /\ failure' = TRUE /\ cancelled' = [cancelled EXCEPT ![c] = TRUE]
           /\ refused' = refused \cup {c} /\ texts' = texts
  <2>1. WorkTyped'
    BY <1>1, <1>3, <1>9 DEF WorkInv, WorkTyped, Model!TypeOK
  <2>2. Model!IsPrefix(texts[c], Model!Whole(c))
    <3>1. handler.text \o progress[c] \in Seq(Nat)
      BY <1>4, ConcatProperties
    <3>2. texts[c] \in Seq(Nat) /\ progress[c] \in Seq(Nat)
      BY <1>4
    <3>3. texts[c] \o (handler.text \o progress[c]) = (texts[c] \o handler.text) \o progress[c]
      BY <1>4, <3>2, Regroup, ZenonT(40)
    <3> QED BY <1>7, <3>1, <3>2, <3>3, PrefixOfConcat
  <2>3. TextIsSomewhere'
    BY <1>1, <1>6, <1>9, <2>2 DEF WorkInv, TextIsSomewhere, Model!Whole
  <2>4. PollOK'
    BY <1>1, <1>2, <1>3, <1>9 DEF WorkInv, WorkTyped, PollOK
  <2>5. CallStates'
    BY <1>1, <1>5, <1>9 DEF WorkInv, WorkTyped, Model!TypeOK, CallStates, Model!Whole
  <2> QED BY <2>1, <2>3, <2>4, <2>5 DEF WorkInv
<1> QED BY <1>1, <1>8, <1>9

LEMMA WorkReturn == ASSUME Model!HttpModelAssumption, WorkInv, NEW c \in Calls, Model!Return(c) PROVE WorkInv'
<1>1. /\ handler.at = "return" /\ worker = c /\ handler' = Model!Idle
      /\ UNCHANGED <<cancelled, progress, result, thread, sent, texts, refused>>
      /\ ~handler.finished => UNCHANGED <<worker, failure, polled, replied>>
  BY DEF Model!Return, Model!Finished, Model!shared, Model!call
<1>2. /\ handler # Model!Idle /\ handler \in Handlers /\ Model!NoCall \notin Calls
      /\ handler.finished => thread[c] = "finished"
  BY <1>1 DEF WorkInv, WorkTyped, PollOK, Model!Idle, Model!HttpModelAssumption
<1>3. TextIsSomewhere'
  BY <1>1, QuietTexts DEF WorkInv, Taken, Model!Idle
<1>4. PollOK'
  BY <1>1 DEF PollOK
<1>5. CASE ~handler.finished
  <2>1. WorkTyped' /\ CallStates'
    BY <1>1, <1>5 DEF WorkInv, WorkTyped, Model!TypeOK, CallStates, Model!Whole
  <2> QED BY <1>3, <1>4, <2>1 DEF WorkInv
<1>6. CASE handler.finished
  <2> DEFINE what == IF handler.cancelled /\ ~failure THEN "empty" ELSE Model!Joined(c)
  <2>1. /\ worker' = Model!NoCall /\ failure' = FALSE /\ polled' = [polled EXCEPT ![c] = "done"]
        /\ replied' = IF polled[c] = "draining" THEN replied ELSE [replied EXCEPT ![c] = what]
    BY <1>6 DEF Model!Return, Model!Finished, Model!End, Model!Set
  <2>2. what \in {"reply", "empty", "failed"} /\ (failure => what = "failed")
        /\ (what = "reply" => ~failure /\ ~handler.cancelled)
    BY DEF Model!Joined
  <2> HIDE DEF what
  <2>3. polled[c] \in {"pending", "draining"} /\ (c \in refused => failure)
        /\ (polled[c] = "draining" => replied[c] = "cancelled")
    BY <1>1 DEF WorkInv, WorkTyped, Model!TypeOK, CallStates
  <2>4. what = "reply" => texts[c] = Model!Whole(c)
    <3> SUFFICES ASSUME what = "reply" PROVE texts[c] = Model!Whole(c)
      OBVIOUS
    <3>1. progress[c] = << >> /\ Taken(c) = << >> /\ c \notin refused
      BY <1>1, <1>2, <1>6, <2>2, <2>3 DEF WorkInv, PollOK, Taken
    <3>2. (texts[c] \o << >>) \o << >> = Model!Whole(c) /\ texts[c] \in Seq(Nat)
      BY <3>1 DEF WorkInv, TextIsSomewhere, WorkTyped
    <3> QED BY <3>2, ConcatEmptySeq
  <2>5. WorkTyped'
    <3>1. \A d \in Calls : polled'[d] \in {"pending", "draining"} <=> worker' = d
      BY <1>1, <1>2, <2>1 DEF WorkInv, WorkTyped, Model!TypeOK
    <3>2. /\ polled' \in [Calls -> {"new", "pending", "draining", "done"}]
          /\ replied' \in [Calls -> {"none", "reply", "empty", "failed", "cancelled"}]
      BY <2>1, <2>2 DEF WorkInv, WorkTyped, Model!TypeOK
    <3>3. Model!TypeOK'
      BY <1>1, <2>1, <3>1, <3>2 DEF WorkInv, WorkTyped, Model!TypeOK
    <3> QED BY <1>1, <3>3 DEF WorkInv, WorkTyped
  <2>6. CallStates'
    <3> SUFFICES ASSUME NEW d \in Calls
                 PROVE  (/\ polled[d] = "new" => thread[d] = "none" /\ d \notin refused
                         /\ polled[d] \in {"new", "pending"} => replied[d] = "none"
                         /\ polled[d] = "draining" => replied[d] = "cancelled" /\ cancelled[d]
                         /\ polled[d] = "done" => thread[d] \in {"none", "finished"}
                         /\ replied[d] = "reply" => polled[d] = "done" /\ texts[d] = Model!Whole(d)
                         /\ d \in refused => replied[d] \in {"none", "failed", "cancelled"}
                         /\ d \in refused /\ worker = d => failure)'
      BY DEF CallStates
    <3>1. CASE d = c
      <4>1. polled'[c] = "done" /\ worker' # c /\ replied'[c] = IF polled[c] = "draining" THEN "cancelled" ELSE what
        BY <1>2, <2>1, <2>3 DEF WorkInv, WorkTyped, Model!TypeOK
      <4> QED BY <1>1, <1>2, <1>6, <2>2, <2>3, <2>4, <3>1, <4>1 DEF Model!Whole
    <3>2. CASE d # c
      BY <1>1, <1>2, <2>1, <3>2 DEF WorkInv, WorkTyped, Model!TypeOK, CallStates, Model!Whole
    <3> QED BY <3>1, <3>2
  <2> QED BY <1>3, <1>4, <2>5, <2>6 DEF WorkInv
<1> QED BY <1>5, <1>6

LEMMA WorkCancel == ASSUME Model!HttpModelAssumption, WorkInv, NEW c \in Calls, Model!Cancel(c) PROVE WorkInv'
<1>1. /\ handler = Model!Idle /\ handler' = Model!Idle /\ polled[c] = "pending"
      /\ UNCHANGED <<progress, result, thread, sent, handler, texts, refused>>
      /\ cancelled' = [cancelled EXCEPT ![c] = TRUE] /\ replied' = [replied EXCEPT ![c] = "cancelled"]
      /\ \/ /\ thread[c] = "finished" /\ worker' = Model!NoCall /\ failure' = FALSE
            /\ polled' = [polled EXCEPT ![c] = "done"]
         \/ polled' = [polled EXCEPT ![c] = "draining"] /\ UNCHANGED <<worker, failure>>
  BY DEF Model!Cancel, Model!Set
<1>2. worker = c /\ Model!NoCall \notin Calls
  BY <1>1 DEF WorkInv, WorkTyped, Model!TypeOK, Model!HttpModelAssumption
<1>3. WorkTyped'
  <2>1. \A d \in Calls : polled'[d] \in {"pending", "draining"} <=> worker' = d
    BY <1>1, <1>2 DEF WorkInv, WorkTyped, Model!TypeOK
  <2>2. /\ worker' \in Calls \cup {Model!NoCall} /\ failure' \in BOOLEAN /\ cancelled' \in [Calls -> BOOLEAN]
        /\ polled' \in [Calls -> {"new", "pending", "draining", "done"}]
        /\ replied' \in [Calls -> {"none", "reply", "empty", "failed", "cancelled"}]
    BY <1>1 DEF WorkInv, WorkTyped, Model!TypeOK
  <2>3. Model!TypeOK'
    BY <1>1, <2>1, <2>2 DEF WorkInv, WorkTyped, Model!TypeOK
  <2> QED BY <1>1, <2>3 DEF WorkInv, WorkTyped
<1>4. TextIsSomewhere'
  BY <1>1, QuietTexts DEF WorkInv, Taken, Model!Idle
<1>5. PollOK'
  BY <1>1 DEF PollOK
<1>6. CallStates'
  BY <1>1, <1>2 DEF WorkInv, WorkTyped, Model!TypeOK, CallStates, Model!Whole
<1> QED BY <1>3, <1>4, <1>5, <1>6 DEF WorkInv

(* A step of the thread that leaves its texts alone. *)
LEMMA WorkRuns ==
    ASSUME WorkInv, NEW c \in Calls, NEW to \in {"transfer", "send", "exit", "finished"},
           thread[c] \in {"start", "transfer", "send", "exit"},
           thread' = [thread EXCEPT ![c] = to],
           result' \in [Calls -> {"none", "reply", "error"}],
           UNCHANGED <<worker, failure, cancelled, progress, sent, handler, polled, replied, texts, refused>>
    PROVE  WorkInv'
<1>1. polled[c] \in {"pending", "draining"} /\ worker = c
  <2>1. polled[c] \in {"new", "pending", "draining", "done"}
    BY DEF WorkInv, WorkTyped, Model!TypeOK
  <2>2. polled[c] \in {"pending", "draining"}
    BY <2>1 DEF WorkInv, CallStates
  <2> QED BY <2>2 DEF WorkInv, WorkTyped, Model!TypeOK
<1>2. WorkTyped'
  BY DEF WorkInv, WorkTyped, Model!TypeOK
<1>3. TextIsSomewhere'
  BY QuietTexts DEF WorkInv, Taken
<1>4. PollOK'
  BY DEF WorkInv, WorkTyped, Model!TypeOK, PollOK
<1>5. CallStates'
  BY <1>1 DEF WorkInv, WorkTyped, Model!TypeOK, CallStates, Model!Whole
<1> QED BY <1>2, <1>3, <1>4, <1>5 DEF WorkInv

LEMMA WorkThread ==
    ASSUME WorkInv, NEW c \in Calls,
           Model!Connect(c) \/ Model!Complete(c) \/ Model!Stop(c) \/ Model!Break(c) \/ Model!Leave(c)
    PROVE  WorkInv'
<1>1. UNCHANGED <<worker, failure, cancelled, progress, sent, handler, polled, replied, texts, refused>>
  BY DEF Model!Connect, Model!Complete, Model!Stop, Model!Break, Model!Leave, Model!shared, Model!call
<1>2. result' \in [Calls -> {"none", "reply", "error"}]
  BY DEF WorkInv, WorkTyped, Model!TypeOK, Model!Connect, Model!Complete, Model!Stop, Model!Break, Model!Leave,
         Model!shared, Model!Set
<1>3. \E to \in {"transfer", "send", "exit", "finished"} :
         thread[c] \in {"start", "transfer", "send", "exit"} /\ thread' = [thread EXCEPT ![c] = to]
  BY DEF Model!Connect, Model!Complete, Model!Stop, Model!Break, Model!Leave, Model!Ran, Model!Set
<1> QED BY <1>1, <1>2, <1>3, WorkRuns

LEMMA WorkReceive == ASSUME WorkInv, NEW c \in Calls, Model!Receive(c) PROVE WorkInv'
<1>1. /\ thread[c] = "transfer" /\ sent' = [sent EXCEPT ![c] = sent[c] + 1]
      /\ progress' = [progress EXCEPT ![c] = Append(progress[c], sent[c] + 1)]
      /\ UNCHANGED <<worker, failure, cancelled, result, thread, handler, polled, replied, texts, refused>>
  BY DEF Model!Receive, Model!Set, Model!call
<1>2. /\ sent \in [Calls -> Nat] /\ progress \in [Calls -> Seq(Nat)] /\ texts \in [Calls -> Seq(Nat)]
      /\ sent[c] \in Nat /\ sent[c] + 1 \in Nat /\ progress[c] \in Seq(Nat) /\ texts[c] \in Seq(Nat)
  BY DEF WorkInv, WorkTyped
<1>3. /\ sent'[c] = sent[c] + 1 /\ progress'[c] = Append(progress[c], sent[c] + 1)
      /\ Append(progress[c], sent[c] + 1) \in Seq(Nat)
      /\ \A d \in Calls \ {c} : sent'[d] = sent[d] /\ progress'[d] = progress[d]
  BY <1>1, <1>2
<1>4. \A d \in Calls : Taken(d)' = Taken(d)
  BY <1>1 DEF Taken
<1>5. Taken(c) \in Seq(Nat)
  <2>1. handler.at = "append" => handler \in Handlers
    BY DEF WorkInv, WorkTyped, Model!Idle
  <2>2. handler.at = "append" => handler.text \in Seq(Nat)
    BY <2>1, HandlerFacts
  <2> QED BY <2>2 DEF Taken
<1>6. WorkTyped'
  BY <1>1, <1>2, <1>3 DEF WorkInv, WorkTyped, Model!TypeOK
<1>7. TextIsSomewhere'
  <2> SUFFICES ASSUME NEW d \in Calls
               PROVE  /\ d \notin refused => (texts[d] \o Taken(d)) \o progress'[d] = [n \in 1 .. sent'[d] |-> n]
                      /\ d \in refused => Model!IsPrefix(texts[d], [n \in 1 .. sent'[d] |-> n])
    BY <1>1, <1>4 DEF TextIsSomewhere, Model!Whole
  <2>1. /\ d \notin refused => (texts[d] \o Taken(d)) \o progress[d] = [n \in 1 .. sent[d] |-> n]
        /\ d \in refused => Model!IsPrefix(texts[d], [n \in 1 .. sent[d] |-> n])
    BY DEF WorkInv, TextIsSomewhere, Model!Whole
  <2>2. CASE d = c /\ c \notin refused
    <3>1. texts[c] \o Taken(c) \in Seq(Nat)
      BY <1>2, <1>5, ConcatProperties
    <3>2. (texts[c] \o Taken(c)) \o Append(progress[c], sent[c] + 1)
            = Append((texts[c] \o Taken(c)) \o progress[c], sent[c] + 1)
      BY <1>2, <3>1, ConcatAppend
    <3>3. Append([n \in 1 .. sent[c] |-> n], sent[c] + 1) = [n \in 1 .. sent[c] + 1 |-> n]
      BY <1>2, WholeGrows
    <3> QED BY <1>3, <2>1, <2>2, <3>2, <3>3, Zenon
  <2>3. CASE d = c /\ c \in refused
    <3>1. Model!IsPrefix(texts[c], [n \in 1 .. sent[c] |-> n])
      BY <2>1, <2>3
    <3>2. Model!IsPrefix(texts[c], [n \in 1 .. sent[c] + 1 |-> n])
      BY <1>2, <3>1, PrefixGrows
    <3> QED BY <1>3, <2>3, <3>2
  <2>4. CASE d # c
    BY <1>3, <2>1, <2>4
  <2> QED BY <2>2, <2>3, <2>4
<1>8. PollOK'
  BY <1>1, <1>3 DEF WorkInv, WorkTyped, PollOK
<1>9. CallStates'
  <2>1. polled[c] \in {"new", "pending", "draining", "done"}
    BY DEF WorkInv, WorkTyped, Model!TypeOK
  <2>2. polled[c] \in {"pending", "draining"}
    BY <1>1, <2>1 DEF WorkInv, CallStates
  <2>3. replied[c] # "reply"
    BY <2>2 DEF WorkInv, CallStates
  <2> QED BY <1>1, <1>3, <2>2, <2>3 DEF WorkInv, WorkTyped, Model!TypeOK, CallStates, Model!Whole
<1> QED BY <1>6, <1>7, <1>8, <1>9 DEF WorkInv

LEMMA WorkStep == ASSUME Model!HttpModelAssumption, WorkInv, [Model!Next]_(Model!vars) PROVE WorkInv'
<1>1. CASE UNCHANGED Model!vars
  BY <1>1, Zenon DEF Model!vars, Model!shared, Model!call, WorkInv, WorkTyped, Model!TypeOK, TextIsSomewhere, Taken,
              PollOK, CallStates, Model!Whole
<1>2. CASE Model!Next
  BY <1>2, WorkBegin, WorkLook, WorkTake, WorkWrite, WorkReturn, WorkCancel, WorkThread, WorkReceive DEF Model!Next
<1> QED BY <1>1, <1>2

LEMMA WorkSilent ==
    ASSUME WorkInv, [Model!Next]_(Model!vars)
    PROVE  [Model!CancelledCallsAreSilent]_(Model!vars)
<1> SUFFICES ASSUME NEW c \in Calls, replied[c] = "cancelled", Model!Next PROVE texts'[c] = texts[c]
  BY DEF Model!CancelledCallsAreSilent
<1>1. PICK d \in Calls :
         \/ Model!Begin(d) \/ Model!Look(d) \/ Model!Take(d) \/ Model!Write(d) \/ Model!Return(d) \/ Model!Cancel(d)
         \/ Model!Connect(d) \/ Model!Receive(d) \/ Model!Complete(d) \/ Model!Stop(d) \/ Model!Break(d) \/ Model!Leave(d)
  BY DEF Model!Next
<1>2. CASE Model!Write(d)
  <2>1. handler.at = "append" /\ worker = d
    BY <1>2 DEF Model!Write
  <2>2. replied[d] = "none"
    BY <2>1 DEF WorkInv, PollOK, CallStates, Model!Idle
  <2>3. c # d
    BY <2>2
  <2>4. texts \in [Calls -> Seq(Nat)]
    BY DEF WorkInv, WorkTyped
  <2> QED BY <1>2, <2>3, <2>4 DEF Model!Write, Model!Set
<1>3. CASE ~Model!Write(d)
  BY <1>1, <1>3 DEF Model!Begin, Model!Look, Model!Take, Model!Return, Model!Cancel, Model!Connect, Model!Receive,
                    Model!Complete, Model!Stop, Model!Break, Model!Leave
<1> QED BY <1>2, <1>3

LEMMA WorkSafe ==
    ASSUME WorkInv
    PROVE  /\ Model!TypeOK /\ Model!RepliesAreJournalled /\ Model!JournalsFollowTheStream
           /\ Model!RefusedTextsFail /\ Model!NoThreadIsLeftBehind
<1>1. Model!TypeOK /\ Model!RepliesAreJournalled /\ Model!RefusedTextsFail /\ Model!NoThreadIsLeftBehind
  BY DEF WorkInv, WorkTyped, CallStates, Model!RepliesAreJournalled, Model!RefusedTextsFail,
         Model!NoThreadIsLeftBehind
<1>2. ASSUME NEW c \in Calls PROVE Model!IsPrefix(texts[c], Model!Whole(c))
  <2>1. CASE c \in refused
    BY <2>1 DEF WorkInv, TextIsSomewhere
  <2>2. CASE c \notin refused
    <3>1. (texts[c] \o Taken(c)) \o progress[c] = Model!Whole(c)
      BY <2>2 DEF WorkInv, TextIsSomewhere
    <3>2. texts[c] \in Seq(Nat) /\ progress[c] \in Seq(Nat)
      BY DEF WorkInv, WorkTyped
    <3>3. handler.at = "append" => handler \in Handlers
      BY DEF WorkInv, WorkTyped, Model!Idle
    <3>4. Taken(c) \in Seq(Nat)
      BY <3>3, HandlerFacts DEF Taken
    <3>5. texts[c] \o (Taken(c) \o progress[c]) = Model!Whole(c) /\ Taken(c) \o progress[c] \in Seq(Nat)
      BY <3>1, <3>2, <3>4, Regroup, ZenonT(40)
    <3> QED BY <3>2, <3>5, PrefixOfConcat
  <2> QED BY <2>1, <2>2
<1> QED BY <1>1, <1>2 DEF Model!JournalsFollowTheStream

(* Whatever the network does and whenever the call is cancelled: a reply is *)
(* answered when its whole text is in the journal, the journal holds a      *)
(* beginning of the stream, a text the journal refused fails its call, no   *)
(* thread outlives a call, and a cancelled call writes nothing more.        *)
THEOREM TransportsStaySilenced ==
    ASSUME Model!HttpModelAssumption
    PROVE  Model!Spec => TransportsAreSilenced
<1>1. Model!Init => WorkInv
  BY WorkInit
<1>2. WorkInv /\ [Model!Next]_(Model!vars) => WorkInv'
  BY WorkStep
<1>3. WorkInv /\ [Model!Next]_(Model!vars) => [Model!CancelledCallsAreSilent]_(Model!vars)
  BY WorkSilent
<1>4. WorkInv => /\ Model!TypeOK /\ Model!RepliesAreJournalled /\ Model!JournalsFollowTheStream
                 /\ Model!RefusedTextsFail /\ Model!NoThreadIsLeftBehind
  BY WorkSafe
<1> QED BY <1>1, <1>2, <1>3, <1>4, PTL DEF Model!Spec, Model!TransportsAreSilenced,
       TransportsAreSilenced
============================================================================
