----------------------------- MODULE SessionRuns -----------------------------
(***************************************************************************)
(* The runs of one session, driven by several host processes: each prompt   *)
(* is fenced by an advisory lock on a file that also holds the marker of the *)
(* run it admitted; the agent checkpoints the session and appends to the    *)
(* journal around every model turn and tool call; the next holder of the    *)
(* lock recovers the run of a host that died.  Every durable call may fail   *)
(* before or after it took effect, and a host may die between any two.      *)
(***************************************************************************)
EXTENDS Naturals, Sequences, FiniteSets, Functions

CONSTANTS Hosts,      \* processes, each with its own session plugin
          Acp,        \* the hosts that answer a failed prompt and live on
          NoOne, NoCopy,
          TurnLimit,  \* model turns the caller allows
          MaxCalls,   \* bounds of the model: tool calls in a run,
          MaxRuns, MaxKills, MaxFaults, MaxReconciles

VARIABLES
    snap,     \* the session's record in storage
    journal,  \* the session's events in storage
    marker,   \* contents of the lock file
    lock,     \* the host whose descriptor holds the lock
    cache,    \* the session plugin of each host: its live snapshot
    pc,       \* what each host does next
    mine,     \* the snapshot the host or its agent works on
    turns,    \* model turns of the agent's run
    marked,   \* the host has marked the admitted run
    outcome,  \* how the graph ended
    effects,  \* history: the tool calls executed
    resumed,  \* history: runs whose last pending call was reconciled
    kills, faults, reconciles

control == <<lock, pc, marked, outcome>>

history == <<resumed, kills, reconciles>>

vars == <<snap, journal, marker, cache, mine, turns, effects, faults, control, history>>

Call == [run: 1..MaxRuns, k: 1..MaxCalls]

Statuses == {"Idle", "Running", "Completed", "Failed", "Cancelled", "Indeterminate"}

(* A session that runs has a run. *)
Snapshot ==
    {s \in [status: Statuses, run: 0..MaxRuns, pending: SUBSET Call, recorded: SUBSET Call,
            revision: Nat] :
        s.status = "Running" => s.run # 0}

Event == [kind: {"PromptAccepted", "ToolStarted", "ToolFinished", "Answer", "Failure",
                 "Interrupted", "Cancelled"},
          run: 1..MaxRuns, k: Nat]

Marker == [kind: {"none", "owner", "recovery"}, run: 0..MaxRuns]

Labels == {"idle", "down", "locked", "fence", "settle", "note", "unmark",
           "admitted", "accept", "abort", "turn", "model", "suspended", "waiting", "stopping",
           "cleanup", "failing", "lastword", "answering", "answer", "calling", "begin", "execute",
           "record", "finished", "ended", "finish", "record_cancelled", "tell_cancelled", "clear"}

ASSUME SessionAssumption ==
    /\ Acp \subseteq Hosts /\ NoOne \notin Hosts
    /\ NoCopy \notin Snapshot
    /\ TurnLimit \in Nat /\ MaxCalls \in Nat /\ MaxRuns \in Nat
    /\ MaxKills \in Nat /\ MaxFaults \in Nat /\ MaxReconciles \in Nat

Cleared == [kind |-> "none", run |-> 0]

Owner(run) == [kind |-> "owner", run |-> run]

Recovery(run) == [kind |-> "recovery", run |-> run]

Init ==
    /\ snap = [status |-> "Idle", run |-> 0, pending |-> {}, recorded |-> {}, revision |-> 0]
    /\ journal = <<>>
    /\ marker = Cleared /\ lock = NoOne
    /\ cache = [h \in Hosts |-> NoCopy]
    /\ pc = [h \in Hosts |-> "idle"]
    /\ mine = [h \in Hosts |-> NoCopy]
    /\ turns = [h \in Hosts |-> 0]
    /\ marked = [h \in Hosts |-> FALSE]
    /\ outcome = [h \in Hosts |-> "none"]
    /\ effects = <<>> /\ resumed = {}
    /\ kills = 0 /\ faults = 0 /\ reconciles = 0

Go(h, label) == pc' = [pc EXCEPT ![h] = label]

End(h, how, label) == outcome' = [outcome EXCEPT ![h] = how] /\ Go(h, label)

(* A graph ends: its first pump is followed by the marking of the run. *)
Pumped(h) == IF marked[h] THEN "finish" ELSE "ended"

----------------------------------------------------------------------------
(* The session plugin, and calls of it and of the journal.                  *)
(* A call answers "ok", or fails in the domain or in the kernel.            *)

Current(h) == IF cache[h] = NoCopy THEN snap ELSE cache[h]

Loaded(h) == cache' = [cache EXCEPT ![h] = Current(h)]

Accepts(prior, s) ==
    /\ s.revision = prior.revision
    /\ prior.status = "Indeterminate" => s.status = "Indeterminate"

Committed(s) == [s EXCEPT !.revision = @ + 1]

CopyAfterFailure(s) == NoCopy

Write(h, s, result) ==
    LET saved == Committed(s) IN
    \/ /\ result = "domain" /\ ~Accepts(Current(h), s)
       /\ Loaded(h)
       /\ UNCHANGED <<snap, faults>>
    \/ /\ Accepts(Current(h), s) /\ s.revision = snap.revision
       /\ result = "ok"
       /\ snap' = saved /\ cache' = [cache EXCEPT ![h] = saved]
       /\ UNCHANGED faults
    \/ /\ Accepts(Current(h), s) /\ s.revision # snap.revision
       /\ result = "domain"
       /\ cache' = [cache EXCEPT ![h] = CopyAfterFailure(s)]
       /\ UNCHANGED <<snap, faults>>
    \/ /\ Accepts(Current(h), s) /\ faults < MaxFaults
       /\ result \in {"domain", "kernel"}
       /\ snap' \in {snap} \cup (IF s.revision = snap.revision THEN {saved} ELSE {})
       /\ cache' = [cache EXCEPT ![h] = CopyAfterFailure(s)]
       /\ faults' = faults + 1

Results == {"ok", "domain", "kernel"}

Journalled(kind, run, k, result) ==
    LET longer == Append(journal, [kind |-> kind, run |-> run, k |-> k]) IN
    \/ /\ result = "ok" /\ journal' = longer
       /\ UNCHANGED faults
    \/ /\ result \in {"domain", "kernel"} /\ faults < MaxFaults
       /\ journal' \in {journal, longer}
       /\ faults' = faults + 1

(* ModelStarted and TextDelta events are left out of the journal. *)
Unrecorded(result) ==
    \/ result = "ok" /\ UNCHANGED faults
    \/ result # "ok" /\ faults < MaxFaults /\ faults' = faults + 1

Recorded(kind, run) == \E i \in DOMAIN journal : journal[i].kind = kind /\ journal[i].run = run
----------------------------------------------------------------------------
(* The host: a failed step ends a stream host and fails the prompt of an    *)
(* ACP host; either way the descriptor is closed and the marker stays.      *)

Leave(h, label) ==
    /\ Go(h, label)
    /\ lock' = IF lock = h THEN NoOne ELSE lock
    /\ marked' = [marked EXCEPT ![h] = FALSE]
    /\ outcome' = [outcome EXCEPT ![h] = "none"]
    /\ mine' = [mine EXCEPT ![h] = NoCopy]
    /\ turns' = [turns EXCEPT ![h] = 0]

Fails(h) == Leave(h, IF h \in Acp THEN "idle" ELSE "down")

locals == <<lock, marked, outcome, mine, turns>>

Start(h) ==
    /\ pc[h] = "down"
    /\ Go(h, "idle")
    /\ cache' = [cache EXCEPT ![h] = NoCopy]
    /\ UNCHANGED <<snap, journal, marker, lock, mine, turns, marked, outcome, effects, faults, history>>

(* What writing the marker may leave behind when it is cut short or fails. *)
Torn(h) ==
    CASE pc[h] = "fence" -> {marker, Cleared, Recovery(0), Recovery(mine[h].run)}
      [] pc[h] \in {"ended", "suspended"} /\ Current(h).status = "Running" ->
            {marker, Cleared, Owner(0), Owner(Current(h).run)}
      [] pc[h] \in {"unmark", "clear"} -> {marker, Cleared}
      [] OTHER -> {marker}

Kill(h) ==
    /\ pc[h] # "down" /\ kills < MaxKills
    /\ kills' = kills + 1
    /\ marker' \in Torn(h)
    /\ Leave(h, "down")
    /\ cache' = [cache EXCEPT ![h] = NoCopy]
    /\ UNCHANGED <<snap, journal, effects, faults, resumed, reconciles>>

(* The lock file, the session's open, the frontend or the renderer fails. *)
Abandon(h) ==
    /\ pc[h] \in {"locked", "fence", "note", "unmark", "ended", "suspended", "waiting", "finish", "clear"}
    /\ faults < MaxFaults /\ faults' = faults + 1
    /\ marker' \in Torn(h)
    /\ Fails(h)
    /\ UNCHANGED <<snap, journal, cache, effects, history>>

TakeLock(h) ==
    /\ pc[h] = "idle" /\ lock = NoOne
    /\ lock' = h
    /\ Go(h, "locked")
    /\ UNCHANGED <<snap, journal, marker, cache, mine, turns, marked, outcome, effects, faults, history>>

(* Fault: the host waits for the owner of a running session to come back. *)
FailsLater(h) == UNCHANGED <<pc, locals>>

RefuseRun(h) == Fails(h)

(* recover_owned_run reads the marker and opens the session. *)
Examined(m, s) ==
    IF s.status = "Running"
    THEN IF m = Owner(s.run) THEN "fence" ELSE IF m = Recovery(s.run) THEN "settle" ELSE "error"
    ELSE IF m = Recovery(s.run) /\ s.run # 0
    THEN IF s.status \in {"Failed", "Indeterminate"} THEN "note" ELSE "error"
    ELSE IF m.kind = "recovery" THEN "error" ELSE "unmark"

Examine(h) ==
    LET next == Examined(marker, Current(h)) IN
    /\ pc[h] = "locked"
    /\ Loaded(h)
    /\ \/ /\ next # "error" /\ Go(h, next)
          /\ mine' = [mine EXCEPT ![h] = Current(h)]
          /\ UNCHANGED <<lock, marked, outcome, turns>>
       \/ next = "error" /\ RefuseRun(h)
    /\ UNCHANGED <<snap, journal, marker, effects, faults, history>>

(* The intent to recover is written before the terminal checkpoint. *)
Fence(h) ==
    /\ pc[h] = "fence"
    /\ marker' = Recovery(mine[h].run)
    /\ Go(h, "settle")
    /\ UNCHANGED <<snap, journal, lock, cache, mine, turns, marked, outcome, effects, faults, history>>

Interrupted(s) == IF s.pending = {} THEN "Failed" ELSE "Indeterminate"

Settle(h) ==
    /\ pc[h] = "settle"
    /\ \E result \in Results :
        /\ Write(h, [mine[h] EXCEPT !.status = Interrupted(mine[h])], result)
        /\ \/ result = "ok" /\ Go(h, "note") /\ UNCHANGED locals
           \/ result # "ok" /\ Fails(h)
    /\ UNCHANGED <<journal, marker, effects, history>>

(* Fault: the journal is not scanned for an earlier attempt. *)
NotedBlindly(run) == FALSE

Noted(run) == Recorded("Interrupted", run)

Note(h) ==
    /\ pc[h] = "note"
    /\ \/ /\ Noted(mine[h].run) /\ Go(h, "unmark")
          /\ UNCHANGED <<journal, locals, faults>>
       \/ /\ ~Noted(mine[h].run)
          /\ \E result \in Results :
              /\ Journalled("Interrupted", mine[h].run, 0, result)
              /\ \/ result = "ok" /\ Go(h, "unmark") /\ UNCHANGED locals
                 \/ result # "ok" /\ Fails(h)
    /\ UNCHANGED <<snap, marker, cache, effects, history>>

(* The lock file is emptied, and the graph of the prompt admitted. *)
Unmark(h) ==
    /\ pc[h] = "unmark"
    /\ marker' = Cleared
    /\ Go(h, "admitted")
    /\ UNCHANGED <<snap, journal, lock, cache, mine, turns, marked, outcome, effects, faults, history>>

----------------------------------------------------------------------------
(* The agent, inside a pump of the graph.  A domain failure ends the graph; *)
(* a kernel failure first tries to leave the session failed (cleanup).      *)

After(h, result, next) ==
    CASE result = "ok"     -> Go(h, next) /\ UNCHANGED outcome
      [] result = "domain" -> End(h, "hard", Pumped(h))
      [] result = "kernel" -> End(h, "hard", "cleanup")

(* A prompt is refused while the session has a run, or calls without result. *)
Admits(s) == s.status \notin {"Running", "Indeterminate"} /\ s.pending = {}

Begun(s) == [s EXCEPT !.run = @ + 1, !.status = "Running"]

Prepare(h) ==
    /\ pc[h] = "admitted"
    /\ turns' = [turns EXCEPT ![h] = 0]
    /\ \/ /\ \/ ~Admits(Current(h))
             \/ Current(h).run = MaxRuns \* bound: any further prompt is an empty one
          /\ Loaded(h)
          /\ End(h, "hard", Pumped(h))
          /\ UNCHANGED <<snap, mine, faults>>
       \/ /\ Admits(Current(h)) /\ Current(h).run < MaxRuns
          /\ \E result \in Results :
              /\ Write(h, Begun(Current(h)), result)
              /\ \/ result = "ok" /\ Go(h, "accept") /\ mine' = [mine EXCEPT ![h] = snap']
                    /\ UNCHANGED outcome
                 \/ result # "ok" /\ End(h, "hard", Pumped(h)) /\ UNCHANGED mine
    /\ UNCHANGED <<journal, marker, lock, marked, effects, history>>

(* PromptAccepted, then the catalogue, the skills and the context. *)
Accept(h) ==
    /\ pc[h] = "accept"
    /\ \/ \E result \in Results :
            /\ Journalled("PromptAccepted", mine[h].run, 0, result)
            /\ Go(h, IF result = "ok" THEN "turn" ELSE "abort")
       \/ /\ journal' = Append(journal, [kind |-> "PromptAccepted", run |-> mine[h].run, k |-> 0])
          /\ faults < MaxFaults /\ faults' = faults + 1
          /\ Go(h, "abort")
    /\ UNCHANGED <<snap, marker, lock, cache, mine, turns, marked, outcome, effects, history>>

(* Fault: failing the session clears its pending calls. *)
FailedForgetting(h) == [mine[h] EXCEPT !.status = "Failed", !.pending = {}]

Failed(h) == [mine[h] EXCEPT !.status = "Failed"]

Abort(h) ==
    /\ pc[h] = "abort"
    /\ \E result \in Results : Write(h, Failed(h), result)
    /\ End(h, "hard", Pumped(h))
    /\ UNCHANGED <<journal, marker, lock, mine, turns, marked, effects, history>>

(* prepare_next_model_request *)
Turn(h) ==
    /\ pc[h] = "turn"
    /\ \/ /\ turns[h] >= TurnLimit
          /\ End(h, "soft", "stopping")
          /\ UNCHANGED faults
       \/ /\ turns[h] < TurnLimit
          /\ \E result \in Results :
              Unrecorded(result) /\ After(h, result, "model")
    /\ UNCHANGED <<snap, journal, marker, lock, cache, mine, turns, marked, effects, history>>

(* The model answers later: the pump returns. *)
Suspend(h) ==
    /\ pc[h] = "model"
    /\ Go(h, IF marked[h] THEN "waiting" ELSE "suspended")
    /\ UNCHANGED <<snap, journal, marker, lock, cache, mine, turns, marked, outcome, effects, faults, history>>

(* The model fails: a domain failure is soft if it is the model's or a limit's. *)
ModelFails(h) ==
    /\ pc[h] \in {"model", "waiting"}
    /\ \/ \E how \in {"soft", "hard"} : End(h, how, "stopping")
       \/ End(h, "hard", "cleanup")
       \/ pc[h] = "waiting" /\ End(h, "hard", "finish")
    /\ UNCHANGED <<snap, journal, marker, lock, cache, mine, turns, marked, effects, faults, history>>

Fresh(h, n) ==
    LET used == Cardinality({c \in mine[h].recorded : c.run = mine[h].run}) IN
    {[run |-> mine[h].run, k |-> used + i] : i \in 1..n}

(* A reply: text not streamed yet is journalled, then it is the answer, asks *)
(* for calls, or asks for more than the limit or under a repeated id.        *)
Reply(h) ==
    /\ pc[h] \in {"model", "waiting"}
    /\ turns' = [turns EXCEPT ![h] = @ + 1]
    /\ \E result \in Results :
        /\ Unrecorded(result)
        /\ \/ result = "domain" /\ End(h, "hard", "stopping") /\ UNCHANGED mine
           \/ result = "kernel" /\ End(h, "hard", "cleanup") /\ UNCHANGED mine
           \/ /\ result = "ok"
              /\ \/ Go(h, "answering") /\ UNCHANGED <<mine, outcome>>
                 \/ \E how \in {"soft", "hard"} : End(h, how, "stopping") /\ UNCHANGED mine
                 \/ \E n \in 1..MaxCalls :
                      /\ Fresh(h, n) \subseteq Call
                      /\ mine' = [mine EXCEPT ![h].pending = Fresh(h, n)]
                      /\ Go(h, "calling")
                      /\ UNCHANGED outcome
    /\ UNCHANGED <<snap, journal, marker, lock, cache, marked, effects, history>>

(* stopped: the session fails, then the journal says so; "cleanup" and      *)
(* "lastword" are the second attempt, after a failure of the kernel.        *)
Stop(h) ==
    /\ pc[h] \in {"stopping", "cleanup"}
    /\ \E result \in Results :
        /\ Write(h, Failed(h), result)
        /\ IF pc[h] = "stopping" THEN After(h, result, "failing")
           ELSE End(h, "hard", IF result = "ok" THEN "lastword" ELSE Pumped(h))
    /\ UNCHANGED <<journal, marker, lock, mine, turns, marked, effects, history>>

TellFailure(h) ==
    /\ pc[h] \in {"failing", "lastword"}
    /\ \E result \in Results :
        /\ Journalled("Failure", mine[h].run, 0, result)
        /\ IF pc[h] = "failing" THEN After(h, result, Pumped(h)) ELSE End(h, "hard", Pumped(h))
    /\ UNCHANGED <<snap, marker, lock, cache, mine, turns, marked, effects, history>>

Complete(h) ==
    /\ pc[h] = "answering"
    /\ \E result \in Results :
        /\ Write(h, [mine[h] EXCEPT !.status = "Completed"], result)
        /\ After(h, result, "answer")
    /\ UNCHANGED <<journal, marker, lock, mine, turns, marked, effects, history>>

Answer(h) ==
    /\ pc[h] = "answer"
    /\ \E result \in Results :
        /\ Journalled("Answer", mine[h].run, 0, result)
        /\ \/ result = "ok" /\ End(h, "ok", Pumped(h))
           \/ result # "ok" /\ After(h, result, "finish")
    /\ UNCHANGED <<snap, marker, lock, cache, mine, turns, marked, effects, history>>

(* The agent's copy is checkpointed: the calls it will make, or a result. *)
Save(h, label, next) ==
    /\ pc[h] = label
    /\ \E result \in Results :
        /\ Write(h, mine[h], result)
        /\ mine' = [mine EXCEPT ![h] = IF result = "ok" THEN snap' ELSE @]
        /\ After(h, result, next)
    /\ UNCHANGED <<journal, marker, lock, turns, marked, effects, history>>

SaveCalls(h) == Save(h, "calling", "begin")

SaveResult(h) == Save(h, "record", "finished")

Due(h) == CHOOSE c \in mine[h].pending : \A d \in mine[h].pending : c.k <= d.k

StartTool(h) ==
    /\ pc[h] = "begin"
    /\ \E result \in Results :
        Journalled("ToolStarted", mine[h].run, Due(h).k, result) /\ After(h, result, "execute")
    /\ UNCHANGED <<snap, marker, lock, cache, mine, turns, marked, effects, history>>

(* A tool succeeds or fails in its domain, or the kernel fails the call     *)
(* before or after the tool had its effect.                                 *)
Execute(h) ==
    /\ pc[h] = "execute"
    /\ \/ /\ effects' = Append(effects, Due(h))
          /\ mine' = [mine EXCEPT ![h].pending = @ \ {Due(h)}, ![h].recorded = @ \cup {Due(h)}]
          /\ Go(h, "record")
          /\ UNCHANGED <<outcome, faults>>
       \/ /\ effects' \in {effects, Append(effects, Due(h))}
          /\ faults < MaxFaults /\ faults' = faults + 1
          /\ End(h, "hard", "cleanup")
          /\ UNCHANGED mine
    /\ UNCHANGED <<snap, journal, marker, lock, cache, turns, marked, history>>

EndTool(h) ==
    /\ pc[h] = "finished"
    /\ \E result \in Results :
        /\ Journalled("ToolFinished", mine[h].run, Cardinality({c \in mine[h].recorded : c.run = mine[h].run}), result)
        /\ After(h, result, IF mine[h].pending = {} THEN "turn" ELSE "begin")
    /\ UNCHANGED <<snap, marker, lock, cache, mine, turns, marked, effects, history>>

----------------------------------------------------------------------------
(* The host, after a pump. *)

MarkAdmitted(h) ==
    LET running == Current(h).status = "Running" IN
    /\ pc[h] \in {"ended", "suspended"}
    /\ Loaded(h)
    /\ marker' = IF running THEN Owner(Current(h).run) ELSE marker
    /\ marked' = [marked EXCEPT ![h] = running]
    /\ Go(h, IF pc[h] = "ended" THEN "finish" ELSE "waiting")
    /\ UNCHANGED <<snap, journal, lock, mine, turns, outcome, effects, faults, history>>

(* The user cancels between pumps; the agent forgets its run. *)
Cancel(h) ==
    /\ pc[h] \in {"admitted", "waiting"}
    /\ End(h, "cancelled", Pumped(h))
    /\ UNCHANGED <<snap, journal, marker, lock, cache, mine, turns, marked, effects, faults, history>>

Finish(h) ==
    /\ pc[h] = "finish"
    /\ \/ /\ outcome[h] = "ok" \/ (outcome[h] = "soft" /\ h \notin Acp)
          /\ Go(h, "clear") /\ UNCHANGED locals
       \/ /\ outcome[h] = "cancelled"
          /\ Go(h, "record_cancelled") /\ UNCHANGED locals
       \/ /\ outcome[h] = "hard" \/ (outcome[h] = "soft" /\ h \in Acp)
          /\ Fails(h)
    /\ UNCHANGED <<snap, journal, marker, cache, effects, faults, history>>

Cancellable(s) == s.status = "Running" /\ s.pending = {}

RecordCancelled(h) ==
    /\ pc[h] = "record_cancelled"
    /\ \/ /\ ~Cancellable(Current(h)) /\ Loaded(h) /\ Fails(h)
          /\ UNCHANGED <<snap, faults>>
       \/ /\ Cancellable(Current(h))
          /\ \E result \in Results :
              /\ Write(h, [Current(h) EXCEPT !.status = "Cancelled"], result)
              /\ \/ /\ result = "ok" /\ Go(h, "tell_cancelled")
                    /\ mine' = [mine EXCEPT ![h] = snap']
                    /\ UNCHANGED <<lock, marked, outcome, turns>>
                 \/ result # "ok" /\ Fails(h)
    /\ UNCHANGED <<journal, marker, effects, history>>

TellCancelled(h) ==
    /\ pc[h] = "tell_cancelled"
    /\ \E result \in Results :
        /\ Journalled("Cancelled", mine[h].run, 0, result)
        /\ \/ result = "ok" /\ Go(h, "clear") /\ UNCHANGED locals
           \/ result # "ok" /\ Fails(h)
    /\ UNCHANGED <<snap, marker, cache, effects, history>>

(* The marker goes before the lock. *)
Release(h) ==
    /\ pc[h] = "clear"
    /\ marker' = Cleared
    /\ Leave(h, "idle")
    /\ UNCHANGED <<snap, journal, cache, effects, faults, history>>

----------------------------------------------------------------------------
(* An operator supplies the result of one pending call. *)

Reconciled(s, c) ==
    [s EXCEPT !.pending = @ \ {c}, !.recorded = @ \cup {c}, !.revision = @ + 1,
              !.status = IF s.pending = {c} THEN "Running" ELSE @]

Reconcile ==
    /\ snap.status = "Indeterminate" /\ reconciles < MaxReconciles
    /\ reconciles' = reconciles + 1
    /\ \E c \in snap.pending : snap' = Reconciled(snap, c)
    /\ resumed' = IF snap'.status = "Running" THEN resumed \cup {snap.run} ELSE resumed
    /\ UNCHANGED <<journal, marker, cache, mine, turns, effects, faults, control, kills>>

----------------------------------------------------------------------------

Agent(h) ==
    \/ Prepare(h) \/ Accept(h) \/ Abort(h) \/ Turn(h) \/ Suspend(h) \/ ModelFails(h) \/ Reply(h)
    \/ Stop(h) \/ TellFailure(h) \/ Complete(h) \/ Answer(h) \/ SaveCalls(h) \/ StartTool(h)
    \/ Execute(h) \/ SaveResult(h) \/ EndTool(h)

Recover(h) == Examine(h) \/ Fence(h) \/ Settle(h) \/ Note(h) \/ Unmark(h)

Close(h) ==
    MarkAdmitted(h) \/ Finish(h) \/ RecordCancelled(h) \/ TellCancelled(h) \/ Release(h)

Work(h) == Recover(h) \/ Agent(h) \/ Close(h)

Next ==
    \/ \E h \in Hosts : Start(h) \/ TakeLock(h) \/ Work(h) \/ Cancel(h) \/ Abandon(h) \/ Kill(h)
    \/ Reconcile

(* A host works on once it holds the lock, and a model answers in the end;  *)
(* no prompt, cancellation, restart or reconciliation need ever come.       *)
Fairness == \A h \in Hosts : WF_vars(Work(h))

Spec == Init /\ [][Next]_vars /\ Fairness

----------------------------------------------------------------------------
(* Types. *)
TypeOK ==
    /\ snap \in Snapshot
    /\ cache \in [Hosts -> Snapshot \cup {NoCopy}] /\ mine \in [Hosts -> Snapshot \cup {NoCopy}]
    /\ journal \in Seq(Event) /\ effects \in Seq(Call)
    /\ pc \in [Hosts -> Labels]
    /\ marker \in Marker /\ lock \in Hosts \cup {NoOne}
    /\ marked \in [Hosts -> BOOLEAN] /\ turns \in [Hosts -> Nat]
    /\ outcome \in [Hosts -> {"none", "ok", "soft", "hard", "cancelled"}]
    /\ resumed \subseteq 1..MaxRuns
    /\ kills \in Nat /\ faults \in Nat /\ reconciles \in Nat

(* Every tool call that was executed is, in the stored session, either still *)
(* pending or has its result in the history: whatever failed or died in      *)
(* between, no effect is forgotten (handle_model_reply, basic-agent).        *)
EffectsAreAccounted == Range(effects) \subseteq snap.pending \cup snap.recorded

(* No tool call is executed twice, by the same host or by the one that       *)
(* recovers its run: nothing repeats a call whose outcome is unknown.        *)
EffectsHappenOnce == IsInjective(effects)

(* Every executed call has its ToolStarted event in the journal. *)
EffectsAreAnnounced ==
    \A c \in Range(effects) :
        \E i \in DOMAIN journal : journal[i] = [kind |-> "ToolStarted", run |-> c.run, k |-> c.k]

(* The event that ends a run -- its answer, failure, interruption or         *)
(* cancellation -- is its last one: no host adds a second ending, or works   *)
(* on, after any mixture of lost acknowledgements, deaths and recoveries.    *)
Endings == {"Answer", "Failure", "Interrupted", "Cancelled"}

EndingsAreFinal ==
    \A i, j \in DOMAIN journal :
        i < j /\ journal[i].run = journal[j].run => journal[i].kind \notin Endings

(* The journal and the stored session agree on how the last run ended.  An   *)
(* interrupted run may have been reconciled.                                 *)
JournalAgrees ==
    /\ Recorded("Answer", snap.run) => snap.status = "Completed"
    /\ Recorded("Cancelled", snap.run) => snap.status = "Cancelled"
    /\ Recorded("Failure", snap.run) => snap.status = "Failed"
    /\ Recorded("Interrupted", snap.run) =>
          \/ snap.status \in {"Failed", "Indeterminate"}
          \/ snap.status = "Running" /\ snap.run \in resumed

(* While an agent drives a run, its copy is the stored session: no other     *)
(* host recovers, cancels or continues the run under it.                     *)
DriverOwnsTheSession ==
    \A h \in Hosts :
        pc[h] \in {"accept", "turn", "model", "suspended", "waiting", "begin", "execute", "finished"} =>
            snap = mine[h]

(* The live snapshot of a session plugin is one the store holds or has held: *)
(* never ahead of it, and the same content at the same revision.             *)
CachesTrailTheStore ==
    \A h \in Hosts : cache[h] # NoCopy =>
        /\ cache[h].revision <= snap.revision
        /\ cache[h].revision = snap.revision => cache[h] = snap

(* A session leaves Indeterminate only when each call that was pending has   *)
(* got its result.                                                           *)
IndeterminateIsReconciled ==
    [][snap.status = "Indeterminate" /\ snap'.status # "Indeterminate" =>
          snap'.pending = {} /\ snap.pending \subseteq snap'.recorded]_snap

(* No tool call is forgotten or made twice: all of it together. *)
EffectsAreSafe ==
    /\ TypeOK
    /\ EffectsAreAccounted
    /\ EffectsHappenOnce
    /\ EffectsAreAnnounced
    /\ DriverOwnsTheSession
    /\ CachesTrailTheStore

(* A run ends once, and as the journal says. *)
RunsEndOnce == [](EndingsAreFinal /\ JournalAgrees) /\ IndeterminateIsReconciled

(* A host that starts on a prompt gives the session free again. *)
PromptsEnd == \A h \in Hosts : lock = h ~> lock # h

=============================================================================
