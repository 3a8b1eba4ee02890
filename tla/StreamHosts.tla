---------------------------- MODULE StreamHosts ----------------------------
(***************************************************************************)
(* The Terminal and the JSONL host (run_console and run_jsonl of main.rs). *)
(* A thread puts the lines of the client on a bounded channel; the         *)
(* controller queues prompts, drives one graph at a time, cancels it, and  *)
(* prints the journal behind a durable checkpoint of what was printed.     *)
(*                                                                         *)
(* A graph is what its pumps make of it; markers and locks are the subject *)
(* of SessionRuns.                                                         *)
(***************************************************************************)
EXTENDS Naturals, Sequences, SequencesExt, FiniteSets

CONSTANTS Sessions,
          Default,       \* the session of a terminal
          ChannelLimit,  \* the 64 entries of the channel
          QueueLimit,    \* the 32 prompts that may wait
          ReadLimit,     \* the 32 lines JSONL reads between two pumps
          SessionLimit,  \* the 32 sessions of a JSONL host
          PageLimit,     \* the 128 events of a journal page
          MaxLines, MaxEvents, MaxFaults \* bounds of the model

VARIABLES
    mode,     \* "console" or "jsonl"
    sent,     \* the lines of the client
    first,    \* how many of them went to earlier hosts
    channel,  \* lines read and not received
    closed,   \* the reading thread has ended
    queue,    \* lines put off
    step,     \* what the controller does next
    line,     \* the line a JSONL host begins with, or 0
    active,   \* the prompt whose graph is driven, or 0
    run,      \* its graph: "fresh", "live", "cancelling", or how it ended
    read,     \* lines read since the last pump
    open,     \* sessions with a kernel
    status,   \* the stored run of each session
    journal,  \* events of each session
    observer, \* the checkpoint of what was printed
    printed,  \* history: how often each event was printed
    done,     \* history: prompts of this host that are over
    cancelled,\* history: prompts that ended cancelled
    faults    \* history: calls that failed and hosts that were killed

input == <<mode, sent, first, channel, closed>>
stored == <<status, journal>>
output == <<observer, printed>>
history == <<done, cancelled, faults>>
vars == <<input, queue, step, line, active, run, read, open, stored, output, history>>

Kinds == {"prompt", "cancel", "bad", "garbage"}

Up == step \notin {"ended", "failed"}

(* The session a host starts with is open and its journal is shown. *)
Init ==
    /\ mode \in {"console", "jsonl"}
    /\ sent = <<>> /\ first = 0 /\ channel = <<>> /\ closed = FALSE
    /\ queue = <<>> /\ step = "replay" /\ line = 0
    /\ active = 0 /\ run = "none" /\ read = 0
    /\ open = {Default}
    /\ status = [s \in Sessions |-> "idle"]
    /\ journal = [s \in Sessions |-> 0]
    /\ observer = [s \in Sessions |-> 0]
    /\ printed = [s \in Sessions |-> [e \in 1 .. MaxEvents |-> 0]]
    /\ done = <<>> /\ cancelled = {} /\ faults = 0

-----------------------------------------------------------------------------
(* The client, the reading thread and the host process.                    *)

(* bad lines are refused when they are decoded: no JSON, no session, a      *)
(* foreign one, an empty prompt.  garbage is too long or no UTF-8: the      *)
(* thread reports it and ends.                                              *)
Write ==
    /\ Up /\ ~closed
    /\ Len(sent) < MaxLines /\ Len(channel) < ChannelLimit
    /\ \E kind \in Kinds :
       \E s \in IF mode = "console" \/ kind \in {"bad", "garbage"} THEN {Default} ELSE Sessions :
          /\ sent' = Append(sent, [kind |-> kind, session |-> s])
          /\ channel' = Append(channel, Len(sent) + 1)
          /\ closed' = (kind = "garbage")
    /\ UNCHANGED <<mode, first, queue, step, line, active, run, read, open, stored,
                   output, history>>

EndOfInput ==
    /\ Up /\ ~closed
    /\ closed' = TRUE
    /\ UNCHANGED <<mode, sent, first, channel, queue, step, line, active, run, read,
                   open, stored, output, history>>

Fail == step' = "failed"

(* A durable call, the frontend or the lock fails, or the host is killed. *)
Break ==
    /\ Up /\ faults < MaxFaults
    /\ faults' = faults + 1
    /\ Fail
    /\ UNCHANGED <<input, queue, line, active, run, read, open, stored, output, done,
                   cancelled>>

Restart ==
    /\ ~Up /\ first = 0 /\ sent # <<>> \* bound: one restart
    /\ Len(sent) < MaxLines
    /\ first' = Len(sent) /\ channel' = <<>> /\ closed' = FALSE
    /\ queue' = <<>> /\ step' = "replay" /\ line' = 0
    /\ active' = 0 /\ run' = "none" /\ read' = 0
    /\ open' = {Default} /\ done' = <<>>
    /\ UNCHANGED <<mode, sent, stored, output, cancelled, faults>>

-----------------------------------------------------------------------------
(* render_new: pages are printed, then checkpointed, until none is left.   *)

Shown == IF active # 0 THEN sent[active].session
         ELSE IF line # 0 THEN sent[line].session ELSE Default

Ready == observer[Shown] = journal[Shown]

Page == {e \in 1 .. MaxEvents :
            /\ observer[Shown] < e /\ e <= journal[Shown]
            /\ e <= observer[Shown] + PageLimit}

Saving == [replay |-> "replay saves", show |-> "show saves", last |-> "last saves"]

Saved == [s \in {"replay saves", "show saves", "last saves"} |->
            CASE s = "replay saves" -> "replay" [] s = "show saves" -> "show"
              [] s = "last saves" -> "last"]

PageEnd == observer[Shown] + Cardinality(Page)

ShowPage ==
    /\ step \in DOMAIN Saving /\ ~Ready
    /\ printed' = [printed EXCEPT ![Shown] =
                      [e \in 1 .. MaxEvents |-> @[e] + IF e \in Page THEN 1 ELSE 0]]
    /\ step' = Saving[step]
    /\ UNCHANGED <<input, queue, line, active, run, read, open, stored, observer, history>>

SavePage ==
    /\ step \in DOMAIN Saved
    /\ observer' = [observer EXCEPT ![Shown] = PageEnd]
    /\ step' = Saved[step]
    /\ UNCHANGED <<input, queue, line, active, run, read, open, stored, printed, history>>

-----------------------------------------------------------------------------
(* Which line is next.                                                     *)

Idle == active = 0 /\ queue = <<>>

(* The first page of a host, or of a session, is out. *)
Replayed ==
    /\ step = "replay" /\ Ready
    /\ step' = IF line = 0 THEN "read" ELSE "decode"
    /\ UNCHANGED <<input, queue, line, active, run, read, open, stored, output, history>>

(* The channel is empty, its sender gone and nothing is left to do. *)
Finished == channel = <<>> /\ closed /\ Idle

Shutdown ==
    /\ step = "read" /\ Finished
    /\ step' = "ended"
    /\ UNCHANGED <<input, queue, line, active, run, read, open, stored, output, history>>

(* The console looks at one line, and waits for one only when it is idle.  *)
Receive ==
    /\ mode = "console" /\ step = "read"
    /\ \/ /\ channel = <<>> /\ ~Idle
          /\ step' = "begin"
          /\ UNCHANGED <<channel, queue, run>>
       \/ /\ channel # <<>> /\ channel' = Tail(channel)
          /\ LET kind == sent[Head(channel)].kind IN
             \/ kind \in {"bad", "garbage"} /\ Fail /\ UNCHANGED <<queue, run>>
             \/ /\ kind = "cancel" /\ active = 0
                /\ Fail /\ UNCHANGED <<queue, run>>
             \/ /\ kind = "cancel" /\ active # 0
                /\ run' = "cancelling" /\ step' = "begin"
                /\ UNCHANGED queue
             \/ /\ kind = "prompt" /\ Len(queue) >= QueueLimit
                /\ Fail /\ UNCHANGED <<queue, run>>
             \/ /\ kind = "prompt" /\ Len(queue) < QueueLimit
                /\ queue' = Append(queue, Head(channel))
                /\ step' = "begin" /\ UNCHANGED run
    /\ UNCHANGED <<mode, sent, first, closed, line, active, read, open, stored, output,
                   history>>

(* Fault: a fresh line is preferred to a queued one. *)
QueueLast == channel = <<>>

QueueFirst == queue # <<>>

(* JSONL takes a line that was put off, or waits for the next one.         *)
TakeLine ==
    /\ mode = "jsonl" /\ step = "read" /\ channel \o queue # <<>>
    /\ LET next == IF QueueFirst THEN Head(queue) ELSE Head(channel)
           s == sent[next].session
       IN  /\ IF QueueFirst
              THEN queue' = Tail(queue) /\ UNCHANGED channel
              ELSE channel' = Tail(channel) /\ UNCHANGED queue
           /\ \/ /\ \/ sent[next].kind \in {"bad", "garbage"}
                    \/ s \notin open /\ Cardinality(open) >= SessionLimit
                 /\ Fail
                 /\ UNCHANGED <<line, open>>
              \/ /\ sent[next].kind \in {"prompt", "cancel"}
                 /\ s \in open \/ Cardinality(open) < SessionLimit
                 /\ open' = open \cup {s}
                 /\ line' = next
                 /\ step' = "replay"
    /\ UNCHANGED <<mode, sent, first, closed, active, run, read, stored, output, history>>

(* Cancelling a session without an active run does nothing. *)
Decode ==
    /\ step = "decode"
    /\ IF sent[line].kind = "cancel"
       THEN step' = "read" /\ line' = 0
       ELSE step' = "begin" /\ UNCHANGED line
    /\ UNCHANGED <<input, queue, active, run, read, open, stored, output, history>>

-----------------------------------------------------------------------------
(* Runs.                                                                   *)

(* bound: events beyond MaxEvents are left out *)
Logged(s) == journal' = [journal EXCEPT ![s] = IF @ < MaxEvents THEN @ + 1 ELSE @]

Pending == IF mode = "jsonl" THEN line ELSE Head(queue)

Start(p) ==
    /\ active' = p /\ run' = "fresh" /\ read' = 0
    /\ line' = 0
    /\ queue' = IF mode = "jsonl" THEN queue ELSE Tail(queue)
    /\ step' = IF mode = "jsonl" THEN "peek" ELSE "pump"

(* The session is locked and the run a dead host left is recovered.        *)
Begin ==
    /\ step = "begin" /\ active = 0
    /\ IF mode = "console" /\ queue = <<>>
       THEN step' = "read" /\ UNCHANGED <<queue, active, run, read, line, status, journal>>
       ELSE LET s == sent[Pending].session IN
            \/ /\ status[s] \in {"idle", "stuck"}
               /\ Start(Pending)
               /\ UNCHANGED stored
            \/ /\ status[s] \in {"running", "calling"}
               /\ status' = [status EXCEPT ![s] = IF @ = "calling" THEN "stuck" ELSE "idle"]
               /\ Logged(s)
               /\ Start(Pending)
            \/ \* its owner is not attested
               /\ status[s] \in {"running", "calling"}
               /\ Fail
               /\ UNCHANGED <<queue, active, run, read, line, status, journal>>
    /\ UNCHANGED <<input, open, output, history>>

Continue ==
    /\ step = "begin" /\ active # 0
    /\ step' = "pump"
    /\ UNCHANGED <<input, queue, line, active, run, read, open, stored, output, history>>

Means(p) == sent[p].session = sent[active].session

(* Between two pumps JSONL reads ahead while there is room.                *)
Peek ==
    /\ step = "peek" /\ channel # <<>> /\ read < ReadLimit /\ Len(queue) < QueueLimit
    /\ channel' = Tail(channel) /\ read' = read + 1
    /\ LET p == Head(channel)
           kind == sent[p].kind
       IN  \/ kind = "garbage" /\ Fail /\ UNCHANGED <<queue, run>>
           \/ /\ kind \in {"bad", "prompt"}
              /\ queue' = Append(queue, p)
              /\ UNCHANGED <<step, run>>
           \/ /\ kind = "cancel"
              /\ run' = IF Means(p) THEN "cancelling" ELSE run
              /\ UNCHANGED <<step, queue>>
    /\ UNCHANGED <<mode, sent, first, closed, line, active, open, stored, output, history>>

Peeked ==
    /\ step = "peek"
    /\ channel = <<>> \/ read = ReadLimit \/ Len(queue) >= QueueLimit
    /\ step' = "pump" /\ read' = 0
    /\ UNCHANGED <<input, queue, line, active, run, open, stored, output, history>>

Session == sent[active].session

Becomes(s, how) == status' = [status EXCEPT ![s] = how]

(* An agent refuses a session whose last call is unaccounted for; else it   *)
(* is Running, perhaps with a call in flight, until its graph ends.         *)
Pump ==
    /\ step = "pump" /\ step' = "show"
    /\ \/ /\ run = "fresh" /\ status[Session] = "stuck"
          /\ run' = "hard" /\ UNCHANGED stored
       \/ /\ run \in {"fresh", "live"}
          /\ run = "fresh" => status[Session] # "stuck"
          /\ \E n \in journal[Session] .. MaxEvents :
                journal' = [journal EXCEPT ![Session] = n]
          /\ \/ \E how \in {"running", "calling"} : run' = "live" /\ Becomes(Session, how)
             \/ \E how \in {"ok", "soft"} : run' = how /\ Becomes(Session, "idle")
             \/ run' = "hard" /\ \E how \in {"idle", "running"} : Becomes(Session, how)
       \/ run = "cancelling" /\ run' = "cancelled" /\ UNCHANGED stored
    /\ UNCHANGED <<input, queue, line, active, read, open, output, history>>

(* What was pumped is out. *)
Updated ==
    /\ step = "show" /\ Ready
    /\ step' = CASE run # "live" -> "finish"
                 [] run = "live" /\ mode = "jsonl" -> "peek"
                 [] run = "live" /\ mode = "console" -> "read"
    /\ UNCHANGED <<input, queue, line, active, run, read, open, stored, output, history>>

(* record_cancelled: the session must be Running without a call in flight.  *)
Recordable == IF status[Session] = "running" THEN "last" ELSE "failed"

(* finish_stream_submission *)
Finish ==
    /\ step = "finish"
    /\ \/ run = "hard" /\ Fail /\ UNCHANGED <<status, journal>>
       \/ /\ run \in {"ok", "soft"}
          /\ step' = "over" /\ UNCHANGED <<status, journal>>
       \/ /\ run = "cancelled"
          /\ step' = Recordable
          /\ IF status[Session] = "running"
             THEN /\ Becomes(Session, "idle")
                  /\ Logged(Session)
             ELSE UNCHANGED <<status, journal>>
    /\ UNCHANGED <<input, queue, line, active, run, read, open, output, history>>

LastShown ==
    /\ step = "last" /\ Ready
    /\ step' = "over"
    /\ UNCHANGED <<input, queue, line, active, run, read, open, stored, output, history>>

(* The marker is cleared and the lock released. *)
Over ==
    /\ step = "over"
    /\ done' = Append(done, active)
    /\ cancelled' = IF run = "cancelled" THEN cancelled \cup {active} ELSE cancelled
    /\ active' = 0 /\ run' = "none" /\ step' = "read"
    /\ UNCHANGED <<input, queue, line, read, open, stored, output, faults>>

Controller ==
    \/ ShowPage \/ SavePage \/ Replayed \/ Shutdown \/ Receive \/ TakeLine \/ Decode
    \/ Begin \/ Continue \/ Peek \/ Peeked \/ Pump \/ Updated \/ Finish \/ LastShown \/ Over

Next == Write \/ EndOfInput \/ Break \/ Restart \/ Controller

Spec == Init /\ [][Next]_vars /\ WF_vars(Controller)

-----------------------------------------------------------------------------

Lines == 1 .. Len(sent)

(* The host has its shape. *)
TypeOK ==
    /\ ToSet(channel) \cup ToSet(queue) \cup ToSet(done) \cup cancelled \subseteq Lines
    /\ line \in {0} \cup Lines /\ active \in {0} \cup Lines
    /\ Len(channel) <= ChannelLimit /\ Len(queue) <= QueueLimit
    /\ Cardinality(open) <= SessionLimit
    /\ active # 0 => line = 0
    /\ run \in {"none", "fresh", "live", "cancelling", "ok", "soft", "hard", "cancelled"}
    /\ status \in [Sessions -> {"idle", "running", "calling", "stuck"}]
    /\ \A s \in Sessions : observer[s] <= journal[s] /\ journal[s] <= MaxEvents

IsPrompt(p) == sent[p].kind = "prompt"

Prompts(q) == SelectSeq(q, IsPrompt)

InHand == (IF active # 0 THEN <<active>> ELSE <<>>) \o (IF line # 0 THEN <<line>> ELSE <<>>)

(* No prompt is lost, doubled or overtaken while the host lives, however    *)
(* its lines are spread over the run, the queue and the channel.            *)
PromptsKeepTheirOrder ==
    Up => done \o Prompts(InHand) \o Prompts(queue) \o Prompts(channel)
            = Prompts([k \in 1 .. Len(sent) - first |-> first + k])

(* A run is cancelled by a notice of its own session that the client sent   *)
(* after the prompt, and no notice cancels two runs.                        *)
NoticesStayWithTheirSession ==
    \A p \in cancelled :
        LET later(q) == {c \in Lines : /\ sent[c].kind = "cancel" /\ c > q
                                       /\ sent[c].session = sent[p].session}
        IN  /\ later(p) # {}
            /\ Cardinality({q \in cancelled : q >= p /\ sent[q].session = sent[p].session})
                 <= Cardinality(later(p))

(* What the checkpoint says was printed was printed, across restarts, and   *)
(* only a failure makes the host print a page again.                        *)
OutputIsComplete ==
    \A s \in Sessions :
        /\ \A e \in 1 .. observer[s] : printed[s][e] > 0
        /\ \A e \in 1 .. MaxEvents : printed[s][e] > 1 => faults >= printed[s][e] - 1

(* The client has seen all that is journaled of a run when the next line is *)
(* looked at.                                                               *)
RunsAreShown ==
    active # 0 /\ active' = 0 /\ Up /\ Up' => observer[Session] = journal[Session]

(* A host that ends with its input has run every prompt it was given and    *)
(* leaves no session Running.                                               *)
EndedHostsAreDone ==
    step = "ended" =>
        /\ \A p \in first + 1 .. Len(sent) : IsPrompt(p) => p \in ToSet(done)
        /\ \A p \in ToSet(done) : status[sent[p].session] # "running"

(* A notice for the run is heard: the run ends, or the host does, unless    *)
(* the queue is full of lines that were sent before it.                     *)
Noticed(p) ==
    /\ active = p /\ Up
    /\ \E c \in ToSet(channel) : /\ sent[c].kind = "cancel"
                                /\ sent[c].session = sent[p].session

Heard(p) == active # p \/ ~Up \/ Len(queue) >= QueueLimit

NoticesAreHeard == \A p \in 1 .. MaxLines : Noticed(p) ~> Heard(p)
=============================================================================
