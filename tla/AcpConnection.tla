------------------------------ MODULE AcpConnection ------------------------------
(***************************************************************************)
(* One ACP connection of the Basic runtime: the wire, on its own threads,   *)
(* puts requests on a bounded queue and marks the prompts that the client   *)
(* cancels; the controller, on the kernel's thread, answers one request at  *)
(* a time, drives the graph of a prompt and shows the client the journal.   *)
(* Source: phenix-basic-runtime acp_sdk.rs, with render_new, bounded input  *)
(* and record_cancelled of main.rs.                                         *)
(*                                                                         *)
(* The run of a prompt is modelled by what the pump makes of it; the agent, *)
(* the lock and the owner marker are the subject of SessionRuns.            *)
(***************************************************************************)
EXTENDS Naturals, Sequences, SequencesExt, FiniteSets

CONSTANTS Sessions,
          QueueLimit,  \* the 64 entries of the command channel
          PageLimit,   \* the 128 events of a journal page
          MaxRequests, MaxEvents, MaxCancels, MaxFaults \* bounds of the model

ConnectionAssumption ==
    /\ QueueLimit \in Nat \ {0} /\ PageLimit \in Nat \ {0}
    /\ MaxRequests \in Nat /\ MaxEvents \in Nat /\ MaxCancels \in Nat /\ MaxFaults \in Nat

VARIABLES
    sent,        \* the requests received: their kinds and sessions
    inbox,       \* the command channel
    registry,    \* PendingPrompts: the prompts a cancellation may reach
    flag,        \* the prompts whose flag is raised
    answer,      \* the answers given
    closed,      \* the flag shared by all threads
    peer,        \* does the client still read?
    initialized,
    known,       \* sessions with a kernel
    stored,      \* sessions with a stored revision
    running,     \* sessions whose stored run is Running
    pending,     \* sessions whose stored run awaits the result of a tool
    journal,     \* events in the journal of a session
    offset,      \* Controller.offsets
    step,        \* what the controller does next
    prompt,      \* the prompt it drives, or 0
    run,         \* its graph: "fresh", "live", or how it ended
    stopping,    \* has drive cancelled it?
    shown,       \* history: events of the session the client was sent
    torn,        \* history: sessions with a rendering that failed after a page
    deserted,    \* history: sessions whose run a failing host left behind
    cancels,     \* history: cancel notices by session
    faults

wire == <<sent, inbox, flag, cancels, peer>>
state == <<initialized, known, stored, running, pending, journal>>
view == <<offset, shown, torn>>
control == <<step, prompt, run, stopping>>
vars == <<wire, registry, answer, closed, state, view, control, deserted, faults>>

Kinds == {"initialize", "new", "load", "control", "prompt"}

Init ==
    /\ sent = <<>> /\ inbox = <<>> /\ registry = <<>>
    /\ flag = {} /\ answer = [r \in 1..MaxRequests |-> "none"]
    /\ closed = FALSE /\ peer = TRUE
    /\ initialized = FALSE /\ known = {}
    /\ stored \in SUBSET Sessions
    /\ journal = [s \in Sessions |-> IF s \in stored THEN 1 ELSE 0]
    /\ running = {} /\ pending = {}
    /\ offset = [s \in Sessions |-> 0] /\ shown = [s \in Sessions |-> {}]
    /\ torn = {} /\ deserted = {}
    /\ step = "idle" /\ prompt = 0 /\ run = "none" /\ stopping = FALSE
    /\ cancels = [s \in Sessions |-> 0] /\ faults = 0

Answer(r, a) == answer' = [answer EXCEPT ![r] = a]

-------------------------------------------------------------------------------
(* The wire *)

Without(q, r) == SelectSeq(q, LAMBDA x : x # r)

Refused(r) == registry

(* A request arrives: the flag of a prompt is registered before the channel *)
(* has it, and taken back when the channel is full.                         *)
Receive ==
    /\ Len(sent) < MaxRequests /\ peer
    /\ \E kind \in Kinds : \E s \in IF kind \in {"load", "prompt"} THEN Sessions ELSE {"none"} :
        LET r == Len(sent) + 1 IN
        /\ sent' = Append(sent, [kind |-> kind, session |-> s])
        /\ IF step = "down" \/ Len(inbox) = QueueLimit
           THEN /\ Answer(r, "rejected")
                /\ registry' = IF kind = "prompt" THEN Refused(r) ELSE registry
                /\ UNCHANGED inbox
           ELSE /\ inbox' = Append(inbox, r)
                /\ registry' = IF kind = "prompt" THEN Append(registry, r) ELSE registry
                /\ UNCHANGED answer
    /\ UNCHANGED <<flag, cancels, peer, closed, state, view, control, deserted, faults>>

Of(q, s) == SelectSeq(q, LAMBDA r : sent[r].session = s)

(* signal_cancel: the earliest registered prompt of the session. *)
Targets(s) == IF Of(registry, s) = <<>> THEN {} ELSE {Head(Of(registry, s))}

Cancel ==
    /\ peer
    /\ \E s \in Sessions :
        /\ cancels[s] < MaxCancels
        /\ cancels' = [cancels EXCEPT ![s] = @ + 1]
        /\ flag' = flag \cup Targets(s)
    /\ UNCHANGED <<sent, inbox, registry, answer, peer, closed, state, view, control, deserted, faults>>

(* The client ends its output, or goes away altogether: the reader of the   *)
(* standard input, or the SDK's on_close, raises the flag.                  *)
EndOfInput ==
    /\ ~ closed
    /\ closed' = TRUE
    /\ peer' \in {peer, FALSE}
    /\ UNCHANGED <<sent, inbox, flag, cancels, registry, answer, state, view, control, deserted, faults>>

(* The client stops reading; nothing tells the controller yet. *)
Vanish ==
    /\ peer /\ ~ closed
    /\ peer' = FALSE
    /\ UNCHANGED <<sent, inbox, flag, cancels, registry, answer, closed, state, view, control,
                   deserted, faults>>

-------------------------------------------------------------------------------
(* Showing the journal *)

Unseen(s) == offset[s] + 1..journal[s]

(* send_updates: all pages are rendered before the first line is sent. A    *)
(* page that fails leaves the cursor behind the pages before it.            *)
Show(s) ==
    /\ offset' = [offset EXCEPT ![s] = journal[s]]
    /\ \/ /\ peer
          /\ shown' = [shown EXCEPT ![s] = @ \cup Unseen(s)]
          /\ UNCHANGED closed
       \/ /\ ~ peer
          /\ closed' = (closed \/ Unseen(s) # {})
          /\ UNCHANGED shown
    /\ UNCHANGED <<torn, faults>>

ShowFails(s) ==
    /\ faults < MaxFaults /\ faults' = faults + 1
    /\ \E pages \in 0..Cardinality(Unseen(s)) :
        /\ pages * PageLimit <= Cardinality(Unseen(s))
        /\ offset' = [offset EXCEPT ![s] = @ + pages * PageLimit]
        /\ torn' = IF pages > 0 THEN torn \cup {s} ELSE torn
    /\ UNCHANGED <<closed, shown>>

-------------------------------------------------------------------------------
(* The controller: one command at a time *)

Command == Head(inbox)
Kind == sent[Command].kind
Session == sent[Command].session

Take(kind) == step = "idle" /\ ~ closed /\ inbox # <<>> /\ Kind = kind /\ inbox' = Tail(inbox)

Rest == UNCHANGED <<sent, flag, cancels, peer>>

Initialize ==
    /\ Take("initialize")
    /\ \E version \in {"V0", "V1"} :
        /\ initialized' = (initialized \/ version = "V1")
        /\ Answer(Command, IF initialized \/ version = "V0" THEN "invalid" ELSE "ok")
    /\ Rest /\ UNCHANGED <<registry, closed, known, stored, running, pending, journal, view, control,
                           deserted, faults>>

(* Configuration options, provider management and credentials. *)
Control ==
    /\ Take("control")
    /\ \E a \in {"ok", "invalid"} : (initialized \/ a = "invalid") /\ Answer(Command, a)
    /\ Rest /\ UNCHANGED <<registry, closed, state, view, control, deserted, faults>>

(* A new session has a name of its own; its options may not be had. *)
NewSession ==
    /\ Take("new")
    /\ \/ /\ ~ initialized
          /\ Answer(Command, "invalid")
          /\ UNCHANGED <<known, offset, shown>>
       \/ /\ initialized
          /\ \E s \in Sessions \ (known \cup stored) :
                /\ known' = known \cup {s}
                /\ offset' = [offset EXCEPT ![s] = 0] /\ shown' = [shown EXCEPT ![s] = {}]
          /\ \E a \in {"ok", "error"} : Answer(Command, a)
       \/ /\ initialized \* bound: no name is left, or the kernel does not load
          /\ Answer(Command, "error")
          /\ UNCHANGED <<known, offset, shown>>
    /\ Rest /\ UNCHANGED <<registry, closed, initialized, stored, running, pending, journal, torn,
                           control, deserted, faults>>

ReplayFrom(s) == 0

(* load_session: the session's kernel is loaded anew and its journal shown  *)
(* from the start.  A stored session or one of this connection is loaded.   *)
Load ==
    /\ Take("load")
    /\ \/ /\ ~ initialized \/ Session \notin stored \cup known
          /\ Answer(Command, "invalid")
          /\ UNCHANGED <<control, known, view>>
       \/ /\ initialized /\ Session \in stored \cup known
          /\ \/ Answer(Command, "error") /\ UNCHANGED <<control, known, view>>
             \/ \* the previous kernel does not shut down
                /\ Session \in known
                /\ Answer(Command, "error")
                /\ known' = known \ {Session}
                /\ UNCHANGED <<control, view>>
             \/ /\ known' = known \cup {Session}
                /\ offset' = [offset EXCEPT ![Session] = ReplayFrom(Session)]
                /\ shown' = [shown EXCEPT ![Session] = {}]
                /\ torn' = torn \ {Session}
                /\ step' = "replay" /\ prompt' = Command
                /\ UNCHANGED <<run, stopping, answer>>
    /\ Rest /\ UNCHANGED <<registry, closed, initialized, stored, running, pending, journal,
                           deserted, faults>>

Driven == sent[prompt].session

Replay ==
    /\ step = "replay"
    /\ \/ Show(Driven) /\ \E a \in {"ok", "error"} : Answer(prompt, a)
       \/ ShowFails(Driven) /\ Answer(prompt, "error")
    /\ step' = "idle" /\ prompt' = 0
    /\ UNCHANGED <<wire, registry, state, run, stopping, deserted>>

Leave(a) == /\ step' = "leave" /\ run' = a /\ UNCHANGED <<prompt, stopping>>

(* prompt: the model is installed, the frontend decodes, the session's lock *)
(* is taken and the run of a dead host recovered; then the graph begins.    *)
Begin ==
    /\ Take("prompt")
    /\ prompt' = Command /\ stopping' = FALSE
    /\ \/ /\ ~ initialized \/ Session \notin known
          /\ step' = "leave" /\ run' = "invalid"
          /\ UNCHANGED running
       \/ /\ initialized /\ Session \in known
          /\ \/ step' = "leave" /\ run' = "error" /\ UNCHANGED running
             \/ step' = "check" /\ run' = "fresh" /\ running' = running \ {Session}
    /\ Rest /\ UNCHANGED <<registry, answer, closed, initialized, known, stored, pending, journal, view,
                           deserted, faults>>

StopNow == closed \/ prompt \in flag

(* drive: the flag is taken down as it is read. *)
Check ==
    /\ step = "check"
    /\ step' = "pump"
    /\ stopping' = (stopping \/ StopNow)
    /\ flag' = IF stopping \/ closed THEN flag ELSE flag \ {prompt}
    /\ UNCHANGED <<sent, inbox, cancels, peer, registry, answer, closed, state, view, prompt, run,
                   deserted, faults>>

Grow(s) == \E n \in journal[s]..MaxEvents : journal' = [journal EXCEPT ![s] = n]

(* A pump: the agent accepts the prompt, unless a call of an earlier run is *)
(* still unaccounted for, and the session is Running, with or without a     *)
(* call of a tool in flight; the graph ends in an answer or a failure,      *)
(* which the agent records.  A cancelled graph ends when its calls have     *)
(* drained.                                                                 *)
Pump ==
    /\ step = "pump" /\ run \in {"fresh", "live"}
    /\ \/ /\ ~ stopping /\ run = "fresh" /\ Driven \in pending
          /\ run' = "error" /\ step' = "show"
          /\ UNCHANGED <<journal, stored, running, pending>>
       \/ /\ ~ stopping /\ (run = "fresh" => Driven \notin pending)
          /\ Grow(Driven)
          /\ stored' = stored \cup {Driven}
          /\ step' = "show"
          /\ \/ /\ run' = "live"
                /\ running' = running \cup {Driven}
                /\ pending' \in {pending \cup {Driven}, pending \ {Driven}}
             \/ /\ run' = "end_turn"
                /\ running' = running \ {Driven} /\ pending' = pending \ {Driven}
             \/ /\ run' = "error"
                /\ running' = running \ {Driven} /\ UNCHANGED pending
       \/ /\ stopping
          /\ run' = "cancelled" /\ step' = "show"
          /\ UNCHANGED <<journal, stored, running, pending>>
       \/ \* the pump itself, or the marking of the run, fails
          /\ faults < MaxFaults
          /\ run' = "error" /\ step' = "leave"
          /\ UNCHANGED <<journal, stored, running, pending>>
    /\ faults' = IF step' = "leave" THEN faults + 1 ELSE faults
    /\ deserted' = IF step' = "leave" THEN deserted \cup {Driven} ELSE deserted
    /\ UNCHANGED <<wire, registry, answer, closed, initialized, known, view, prompt, stopping>>

Update ==
    /\ step = "show"
    /\ \/ /\ closed
          /\ step' = IF run = "live" THEN "check" ELSE "finish"
          /\ UNCHANGED <<run, closed, view, faults, deserted>>
       \/ /\ ~ closed /\ Show(Driven)
          /\ step' = IF run = "live" THEN "check" ELSE "finish"
          /\ UNCHANGED <<run, deserted>>
       \/ /\ ~ closed /\ ShowFails(Driven)
          /\ step' = "leave" /\ run' = "error"
          /\ deserted' = deserted \cup {Driven}
    /\ UNCHANGED <<wire, registry, answer, state, prompt, stopping>>

(* finish_submission, and record_cancelled for a graph that was cancelled:  *)
(* the session must be Running and have no call in flight.                  *)
Finish ==
    /\ step = "finish"
    /\ \/ /\ run # "cancelled"
          /\ step' = "leave"
          /\ UNCHANGED <<run, running, journal>>
       \/ /\ run = "cancelled" /\ Driven \in running \ pending
          /\ step' = "showlast"
          /\ running' = running \ {Driven}
          /\ journal' = [journal EXCEPT ![Driven] = @ + 1]
          /\ UNCHANGED run
       \/ /\ run = "cancelled" /\ Driven \notin running \ pending
          /\ step' = "leave" /\ run' = "unrecorded"
          /\ UNCHANGED <<running, journal>>
    /\ UNCHANGED <<wire, registry, answer, closed, initialized, known, stored, pending, view, prompt,
                   stopping, deserted, faults>>

ShowLast ==
    /\ step = "showlast"
    /\ step' = "leave"
    /\ \/ closed /\ UNCHANGED <<run, closed, view, faults>>
       \/ ~ closed /\ Show(Driven) /\ UNCHANGED run
       \/ ~ closed /\ ShowFails(Driven) /\ run' = "error"
    /\ UNCHANGED <<wire, registry, answer, state, prompt, stopping, deserted>>

(* Fault: the controller stays with the prompt it answered. *)
ReplyAndStay ==
    /\ step = "leave"
    /\ registry' = Without(registry, prompt)
    /\ Answer(prompt, run)
    /\ step' = "idle" /\ prompt' = prompt /\ run' = "none" /\ stopping' = FALSE
    /\ UNCHANGED <<wire, closed, state, view, deserted, faults>>

(* The prompt is taken off the registry, then answered. *)
Reply ==
    /\ step = "leave"
    /\ registry' = Without(registry, prompt)
    /\ Answer(prompt, run)
    /\ step' = "idle" /\ prompt' = 0 /\ run' = "none" /\ stopping' = FALSE
    /\ UNCHANGED <<wire, closed, state, view, deserted, faults>>

(* serve ends: the requests still queued go unanswered. *)
Stop ==
    /\ step = "idle" /\ closed
    /\ step' = "down"
    /\ UNCHANGED <<wire, registry, answer, closed, state, view, prompt, run, stopping, deserted, faults>>

Controller ==
    \/ Initialize \/ Control \/ NewSession \/ Load \/ Replay \/ Begin \/ Check \/ Pump \/ Update
    \/ Finish \/ ShowLast \/ Reply \/ Stop

Next == Receive \/ Cancel \/ EndOfInput \/ Vanish \/ Controller

(* The controller's thread runs, and a pump polls and returns; a graph that *)
(* nobody cancels may stay with its model for ever.                         *)
Fairness ==
    /\ WF_vars(Check) /\ WF_vars(Pump) /\ WF_vars(Update)
    /\ WF_vars(Finish \/ ShowLast \/ Replay \/ Reply \/ Stop)

Spec == Init /\ [][Next]_vars /\ Fairness

-------------------------------------------------------------------------------
Ids == 1..MaxRequests

TypeOK ==
    /\ Len(sent) <= MaxRequests /\ Len(inbox) <= QueueLimit
    /\ Range(inbox) \cup Range(registry) \cup flag \subseteq DOMAIN sent
    /\ answer \in [Ids -> {"none", "ok", "invalid", "error", "rejected", "end_turn", "cancelled", "unrecorded"}]
    /\ known \cup stored \cup running \cup pending \cup torn \cup deserted \subseteq Sessions
    /\ \A s \in Sessions : offset[s] \in 0..journal[s] /\ shown[s] \subseteq 1..journal[s]
    /\ prompt \in 0..Len(sent) /\ prompt = 0 <=> step \in {"idle", "down"}

IsPrompt(r) == sent[r].kind = "prompt"

(* A cancellation finds the prompts that can still be cancelled, in the     *)
(* order the client sent them: the one being driven, then the queued ones.  *)
RegistryFollowsTheQueue ==
    registry = (IF prompt # 0 /\ IsPrompt(prompt) THEN <<prompt>> ELSE <<>>)
                   \o SelectSeq(inbox, IsPrompt)

(* A notice cancels one prompt of its session at most, and nothing but a    *)
(* notice or the end of the connection cancels one, recorded or not.        *)
NoticesCancelOne ==
    ~ closed => \A s \in Sessions :
        Cardinality({r \in DOMAIN sent : sent[r].session = s /\ answer[r] \in {"cancelled", "unrecorded"}})
            <= cancels[s]

(* A prompt is answered after the client was shown what its run journaled   *)
(* -- the journal of the session as a whole, if the session was loaded --   *)
(* unless a rendering failed midway before.                                 *)
AnswersFollowTheirUpdates ==
    \A r \in DOMAIN sent : answer[r] = "none" /\ answer'[r] \in {"end_turn", "cancelled"} =>
        \/ closed \/ sent[r].session \in torn
        \/ shown[sent[r].session] = 1..journal[sent[r].session]

(* "Never abandon a live graph with a durable owner marker on a broken      *)
(* writer": a host that ends with its connection leaves no run behind but   *)
(* those whose driving failed or whose tool may still have had its effect.  *)
EndedHostsLeaveNoRun == step = "down" => running \subseteq deserted \cup pending

(* A run that was asked to stop is answered. *)
ToBeStopped(r) == prompt = r /\ step # "replay" /\ (closed \/ r \in flag)

StoppedPromptsEnd == \A r \in Ids : ToBeStopped(r) ~> prompt # r

(* A host whose connection is gone ends. *)
ClosedHostsEnd == closed ~> step = "down"
=================================================================================
