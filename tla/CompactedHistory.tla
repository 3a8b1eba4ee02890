------------------------------ MODULE CompactedHistory ------------------------------
(***************************************************************************)
(* The history a model is shown after compaction.  A checkpoint divides    *)
(* the journal of a session into spans that are summarized, retained or    *)
(* excluded; the request is rebuilt by walking the journal along the       *)
(* session's own messages, keeping what is retained and refusing whatever  *)
(* does not line up.  A planner proposes checkpoints, and a checkpoint is  *)
(* reused for a journal that has grown since.  Source: the crate           *)
(* phenix-p2-compaction-replay (view.rs, history.rs, plan.rs, tail.rs,     *)
(* lib.rs) and phenix-advanced-contracts (compaction.rs).                  *)
(*                                                                         *)
(* A digest is the events it stands for.  The text of events and messages  *)
(* is "said" or, when it was tampered with, "forged".  Every refusal is    *)
(* the empty set, so that a result is a set of at most one value.          *)
(***************************************************************************)
EXTENDS Integers, Sequences, SequencesExt, FiniteSets

CONSTANTS MaxEvents,  \* bound on the length of the journal
          MaxRuns,    \* bound on the runs of the session
          Calls,      \* identities of tool calls within a run
          Offers,     \* the lists of distinct calls a model may reply with
          NoCall,     \* the empty call identity
          Budget      \* the bound on visible bytes; an event counts as one

OffersAssumption == \A calls \in Offers :
    calls \in Seq(Calls) /\ calls # <<>> /\ IsInjective(calls)

CompactionAssumption ==
    /\ MaxEvents \in Nat /\ MaxRuns \in Nat /\ Budget \in Nat
    /\ NoCall \notin Calls

VARIABLES journal,    \* the session's events
          history,    \* the session's messages, as the request carries them
          todo,       \* tool calls the running turn still has to make
          published,  \* the last checkpoint that was published, if any
          forged      \* was the journal or the history tampered with?

vars == <<journal, history, todo, published, forged>>

Kinds == {"PromptAccepted", "ModelStarted", "AssistantReply", "ToolStarted",
          "ToolFinished", "Answer", "Failure"}
Texts == {"said", "forged"}
CallLists == {<<>>} \cup UNION {{SubSeq(o, n, Len(o)) : n \in DOMAIN o} : o \in Offers}
Events == [sequence : 1..MaxEvents, run : 1..MaxRuns, kind : Kinds,
           text : Texts, call : Calls \cup {NoCall}, calls : CallLists]
Messages == [role : {"user", "assistant", "tool", "nobody"}, run : 0..MaxRuns,
             text : Texts, call : Calls \cup {NoCall}, calls : CallLists]

ToolKinds == {"ToolStarted", "ToolFinished"}

-------------------------------------------------------------------------------
(* Checkpoints and views *)

Contiguous(events) == \A i \in DOMAIN events : events[i].sequence = events[1].sequence + i - 1

(* span_for_events: only a contiguous, non-empty range has a span. *)
SpanOf(events) ==
    IF events # <<>> /\ Contiguous(events)
    THEN {[first |-> events[1].sequence, last |-> Last(events).sequence, digest |-> events]}
    ELSE {}

InSpan(span, n) == span.first <= n /\ n <= span.last
Covered(spans) == UNION {span.first..span.last : span \in Range(spans)}

(* validate_checkpoint: the spans lie in the input and cover each of its   *)
(* events exactly once; there is a summary exactly when something is       *)
(* summarized.                                                             *)
ValidCheckpoint(cp) ==
    LET parts == cp.summarized \o cp.retained \o cp.excluded IN
      /\ parts # <<>>
      /\ \A i \in DOMAIN parts : /\ parts[i].first <= parts[i].last
                                 /\ cp.input.first <= parts[i].first
                                 /\ parts[i].last <= cp.input.last
      /\ \A n \in cp.input.first..cp.input.last :
            Cardinality({i \in DOMAIN parts : InSpan(parts[i], n)}) = 1
      /\ cp.summary <=> cp.summarized # <<>>

(* restore_original_events: the journal is the input of the checkpoint,    *)
(* as a whole and in each of its spans.                                    *)
Restores(cp, events) ==
    /\ ValidCheckpoint(cp)
    /\ SpanOf(events) = {cp.input}
    /\ \A span \in Range(cp.summarized \o cp.retained \o cp.excluded) :
          span.digest = SubSeq(events, span.first - cp.input.first + 1,
                                       span.last - cp.input.first + 1)

(* visibility *)
Visibility(cp, n) ==
    CASE \E span \in Range(cp.retained) : InSpan(span, n) -> "retained"
      [] \E span \in Range(cp.summarized) : InSpan(span, n) -> "summarized"
      [] OTHER -> "excluded"

(* Tool calls are opened and closed in order, and none stays open. *)
ToolsAreResolved(events) ==
    LET starts == {i \in DOMAIN events : events[i].kind = "ToolStarted"}
        ends == {i \in DOMAIN events : events[i].kind = "ToolFinished"}
        closes(i, j) == i < j /\ j \in ends /\ events[j].call = events[i].call
        end(i) == CHOOSE j \in ends : closes(i, j) /\ \A k \in ends : closes(i, k) => j <= k
    IN  /\ Cardinality(starts) = Cardinality(ends)
        /\ \A i \in starts : events[i].call # NoCall /\ \E j \in ends : closes(i, j)
        /\ \A i, k \in starts : i < k /\ events[i].call = events[k].call => end(i) < k

(* The completion of a call has the visibility of its start. *)
ToolsAreTogether(cp, events) ==
    \A i, j \in DOMAIN events :
        /\ events[i].kind = "ToolStarted" /\ events[j].kind = "ToolFinished"
        /\ i < j /\ events[i].call = events[j].call
        /\ \A k \in i + 1..j - 1 : ~ (events[k].kind = "ToolFinished" /\ events[k].call = events[i].call)
        => Visibility(cp, events[i].sequence) = Visibility(cp, events[j].sequence)

(* compacted_view: the summary replaces a prefix, tool calls are whole,    *)
(* and what is visible fits.  The view is the set of visible sequences.    *)
View(cp, events, budget) ==
    LET visible == Covered(cp.retained) IN
    IF /\ budget > 0
       /\ \A m \in Covered(cp.summarized), n \in visible \cup Covered(cp.excluded) : m < n
       /\ Restores(cp, events)
       /\ ToolsAreResolved(events) /\ ToolsAreTogether(cp, events)
       /\ Cardinality(visible) + (IF cp.summary THEN 1 ELSE 0) <= budget
    THEN {visible}
    ELSE {}

-------------------------------------------------------------------------------
(* Rebuilding the request: one step per event of the journal *)

Nobody == [role |-> "nobody", run |-> 0, text |-> "said", call |-> NoCall, calls |-> <<>>]

(* The next message of the authoritative history. *)
Expected(s) == IF s.matched < Len(s.history) THEN s.history[s.matched + 1] ELSE Nobody

Plain(m, role, text) == m.role = role /\ m.text = text /\ m.calls = <<>> /\ m.call = NoCall

Take(s, kept) == [s EXCEPT !.matched = @ + 1,
                           !.out = IF kept THEN Append(@, Expected(s)) ELSE @]
Check(s, condition) == [s EXCEPT !.ok = @ /\ condition]

Settled(s) == s.active = NoCall /\ s.queued = <<>>
Side(kept) == IF kept THEN "kept" ELSE "elided"

AtPrompt(s, e, kept) ==
    LET t == Check(s, s.turn = "none" /\ Settled(s) /\ Plain(Expected(s), "user", e.text))
    IN  [Take(t, kept) EXCEPT !.turn = Side(kept), !.run = e.run, !.seen = {}]

(* The calls of an assistant message are fresh and distinct. *)
FreshCalls(s, calls) == calls # <<>> /\ IsInjective(calls) /\ Range(calls) \cap s.seen = {}

(* The receipt of a reply with tool calls: it is the message. *)
AtReply(s, e, kept) ==
    LET m == Expected(s)
        t == Check(s, /\ s.turn = Side(kept) /\ Settled(s)
                      /\ m.role = "assistant" /\ m.call = NoCall
                      /\ m.text = e.text /\ m.calls = e.calls /\ FreshCalls(s, m.calls))
    IN  [Take(t, kept) EXCEPT !.queued = m.calls, !.seen = @ \cup Range(m.calls)]

(* Without a receipt the message that made the calls is taken as it is,    *)
(* and only a retained one.                                                *)
Unreceipted(s, kept) ==
    LET m == Expected(s)
        t == Check(s, /\ kept /\ m.role = "assistant" /\ m.call = NoCall
                      /\ FreshCalls(s, m.calls))
    IN  IF s.queued # <<>> THEN s
        ELSE [Take(t, kept) EXCEPT !.queued = m.calls, !.seen = @ \cup Range(m.calls)]

AtToolStart(s, e, kept) ==
    LET t == Unreceipted(Check(s, s.turn = Side(kept) /\ s.active = NoCall), kept)
    IN  IF ~ t.ok \/ t.queued = <<>> THEN Check(t, FALSE)
        ELSE [Check(t, Head(t.queued) = e.call) EXCEPT !.queued = Tail(@), !.active = e.call]

AtToolFinish(s, e, kept) ==
    LET m == Expected(s)
        t == Check(s, /\ s.turn = Side(kept) /\ s.active # NoCall
                      /\ m.role = "tool" /\ m.call = s.active /\ e.call = s.active
                      /\ m.calls = <<>> /\ m.text = e.text)
    IN  [Take(t, kept) EXCEPT !.active = NoCall]

(* Fault: an answer may be elided whose prompt is kept. *)
AtAnswerOfAnyTurn(s, e, kept) ==
    LET t == Check(s, s.turn # "none" /\ Settled(s) /\ Plain(Expected(s), "assistant", e.text))
    IN  [Take(t, kept) EXCEPT !.turn = "none", !.run = 0]

AtAnswer(s, e, kept) ==
    LET t == Check(s, s.turn = Side(kept) /\ Settled(s) /\ Plain(Expected(s), "assistant", e.text))
    IN  [Take(t, kept) EXCEPT !.turn = "none", !.run = 0]

(* A run that uses tools is wholly kept or wholly summarized. *)
ToolRunIsWhole(cp, events, e) ==
    \A f \in Range(events) : f.kind \in ToolKinds /\ f.run = e.run =>
        /\ Visibility(cp, e.sequence) \in {"retained", "summarized"}
        /\ Visibility(cp, e.sequence) = Visibility(cp, f.sequence)

Along(cp, events, s, e) ==
    LET kept == Visibility(cp, e.sequence) = "retained"
        t == Check(s, ToolRunIsWhole(cp, events, e)
                        /\ (e.kind # "PromptAccepted" /\ s.turn # "none" => e.run = s.run))
    IN  CASE ~ t.ok -> t
          [] t.ok /\ e.kind = "PromptAccepted" -> AtPrompt(t, e, kept)
          [] t.ok /\ e.kind = "AssistantReply" -> AtReply(t, e, kept)
          [] t.ok /\ e.kind = "ToolStarted"    -> AtToolStart(t, e, kept)
          [] t.ok /\ e.kind = "ToolFinished"   -> AtToolFinish(t, e, kept)
          [] t.ok /\ e.kind = "Answer"         -> AtAnswer(t, e, kept)
          [] t.ok /\ e.kind = "ModelStarted"   -> Check(t, t.turn # "none")
          [] t.ok /\ e.kind = "Failure"        -> Check(t, FALSE)

UsesTools(messages) == \E m \in Range(messages) : m.role = "tool" \/ m.calls # <<>> \/ m.call # NoCall

(* assemble_verified_basic_request: the messages of the rebuilt request    *)
(* of a run, or a refusal.                                                 *)
Assemble(messages, run, events, cp, budget) ==
    LET start == [ok |-> TRUE, history |-> messages, matched |-> 0, out |-> <<>>, turn |-> "none",
                  run |-> 0, queued |-> <<>>, active |-> NoCall, seen |-> {}]
        walked == FoldLeft(LAMBDA s, e : Along(cp, events, s, e), start, events)
    IN  IF /\ View(cp, events, budget) # {}
           /\ UsesTools(messages) <=> \E e \in Range(events) : e.kind \in ToolKinds
           /\ walked.ok
           /\ walked.matched = Len(messages)
           /\ walked.run = run /\ walked.turn = "kept" /\ Settled(walked)
           /\ walked.out # <<>> /\ Last(walked.out).role \in {"user", "tool"}
           /\ Last(walked.out).role = "tool" => Last(events).kind = "ModelStarted"
        THEN {walked.out}
        ELSE {}

-------------------------------------------------------------------------------
(* Planning a checkpoint *)

(* The events after which a run is complete. *)
Completed(events) == SetToSortSeq({i \in DOMAIN events : events[i].kind = "Answer"}, <)

(* Every event belongs to the run of the prompt before it, and no turn     *)
(* begins before the one before it was answered, or ends otherwise.        *)
TurnsAreComplete(events) ==
    LET prompts(i) == {p \in 1..i : events[p].kind = "PromptAccepted"}
        open(i) == IF prompts(i) = {} THEN 0
                   ELSE CHOOSE p \in prompts(i) : \A q \in prompts(i) : q <= p
        answered(p, i) == \E a \in p..i : events[a].kind = "Answer"
    IN  \A i \in DOMAIN events :
          /\ events[i].kind # "Failure"
          /\ IF events[i].kind = "PromptAccepted"
             THEN i = 1 \/ (open(i - 1) # 0 /\ answered(open(i - 1), i - 1))
             ELSE /\ open(i) # 0 /\ events[open(i)].run = events[i].run
                  /\ ~ answered(open(i), i - 1)

RunIsOpen(events, run) ==
    \E p \in DOMAIN events : /\ events[p].kind = "PromptAccepted" /\ events[p].run = run
                             /\ \A i \in p + 1..Len(events) :
                                  events[i].kind \notin {"PromptAccepted", "Answer"}

Spans(events) == SetToSeq(SpanOf(events))

CheckpointOf(id, events, split) ==
    [id |-> id, input |-> CHOOSE s \in SpanOf(events) : TRUE,
     summarized |-> Spans(SubSeq(events, 1, split)),
     retained |-> Spans(SubSeq(events, split + 1, Len(events))),
     excluded |-> <<>>, summary |-> split > 0]

SplitAt(completed, retain) == completed[Len(completed) - retain]

(* plan_verified_checkpoint, for a request of a run: a refusal, no         *)
(* candidate, or a candidate that keeps the last retain completed turns.   *)
Plan(messages, run, events, previous, retain) ==
    LET full == CheckpointOf(0, events, 0)
        sourceIsValid ==
          /\ SpanOf(events) # {}
          /\ Last(events).kind = "ModelStarted" /\ Last(events).run = run
          /\ \A cp \in previous :
                /\ cp.input.last <= Last(events).sequence
                /\ cp.input.first >= events[1].sequence
                /\ Restores(cp, SubSeq(events, cp.input.first - events[1].sequence + 1,
                                               cp.input.last - events[1].sequence + 1))
          /\ TurnsAreComplete(events) /\ RunIsOpen(events, run)
        revision == Cardinality(previous) + 1
        due == /\ \A cp \in previous : {cp.input} # SpanOf(events)
               /\ Len(Completed(events)) > retain
        candidate == CheckpointOf(revision, events, SplitAt(Completed(events), retain))
    IN  IF ~ sourceIsValid \/ Assemble(messages, run, events, full, Budget) = {}
        THEN [refused |-> TRUE, candidate |-> {}]
        ELSE IF ~ due THEN [refused |-> FALSE, candidate |-> {}]
        ELSE IF Assemble(messages, run, events, candidate, Budget) = {}
             THEN [refused |-> TRUE, candidate |-> {}]
             ELSE [refused |-> FALSE, candidate |-> {candidate}]

-------------------------------------------------------------------------------
(* A checkpoint reused for a journal that has grown *)

(* extend_verified_view: what was appended follows on, and its tool calls  *)
(* are resolved among themselves.                                          *)
Extends(cp, original, appended, budget) ==
    /\ View(cp, original, budget) # {}
    /\ \A i \in DOMAIN appended : appended[i].sequence = cp.input.last + i
    /\ ToolsAreResolved(appended)
    /\ \A visible \in View(cp, original, budget) :
          Cardinality(visible) + Len(appended) + (IF cp.summary THEN 1 ELSE 0) <= budget

(* assemble_verified_tail_request *)
AssembleTail(messages, run, cp, original, appended, budget) ==
    LET grown == [cp EXCEPT !.input = CHOOSE s \in SpanOf(original \o appended) : TRUE,
                            !.retained = @ \o Spans(appended)]
    IN  IF ~ Extends(cp, original, appended, budget) THEN {}
        ELSE IF appended = <<>> THEN Assemble(messages, run, original, cp, budget)
        ELSE IF SpanOf(original \o appended) = {} THEN {}
        ELSE Assemble(messages, run, original \o appended, grown, budget)

-------------------------------------------------------------------------------
(* The session the planner sees: the agent's turns, and tampering *)

CurrentRun == IF journal = <<>> THEN 0 ELSE Last(journal).run
Ended == journal # <<>> => Last(journal).kind \in {"Answer", "Failure"}

Event(kind, run, call, calls) ==
    [sequence |-> Len(journal) + 1, run |-> run, kind |-> kind, text |-> "said",
     call |-> call, calls |-> calls]
Message(role, run, call, calls) ==
    [role |-> role, run |-> run, text |-> "said", call |-> call, calls |-> calls]

Init == /\ journal = <<>> /\ history = <<>> /\ todo = <<>>
        /\ published = {} /\ forged = FALSE

Journal(events) == /\ Len(journal \o events) <= MaxEvents
                   /\ journal' = journal \o events

Prompted == /\ Ended /\ CurrentRun < MaxRuns
            /\ Journal(<<Event("PromptAccepted", CurrentRun + 1, NoCall, <<>>)>>)
            /\ history' = Append(history, Message("user", CurrentRun + 1, NoCall, <<>>))
            /\ UNCHANGED todo

ModelIsCalled == /\ ~ Ended /\ todo = <<>>
                 /\ Last(journal).kind \in {"PromptAccepted", "ToolFinished"}
                 /\ Journal(<<Event("ModelStarted", CurrentRun, NoCall, <<>>)>>)
                 /\ UNCHANGED <<history, todo>>

(* The model is about to be called, and the request is rebuilt. *)
Requestable == /\ journal # <<>> => Last(journal).kind = "ModelStarted"
               /\ journal # <<>> /\ todo = <<>>

Answers == /\ Requestable
           /\ Journal(<<Event("Answer", CurrentRun, NoCall, <<>>)>>)
           /\ history' = Append(history, Message("assistant", CurrentRun, NoCall, <<>>))
           /\ UNCHANGED todo

(* The receipt is written only by the advanced model adapter. *)
CallsTools == /\ Requestable
              /\ \E calls \in Offers, receipt \in BOOLEAN :
                    /\ IF receipt THEN Journal(<<Event("AssistantReply", CurrentRun, NoCall, calls)>>)
                                  ELSE UNCHANGED journal
                    /\ history' = Append(history, Message("assistant", CurrentRun, NoCall, calls))
                    /\ todo' = calls

StartsTool == /\ todo # <<>> /\ Last(journal).kind # "ToolStarted"
              /\ Journal(<<Event("ToolStarted", CurrentRun, Head(todo), <<>>)>>)
              /\ UNCHANGED <<history, todo>>

FinishesTool == /\ todo # <<>> /\ Last(journal).kind = "ToolStarted"
                /\ Journal(<<Event("ToolFinished", CurrentRun, Head(todo), <<>>)>>)
                /\ history' = Append(history, Message("tool", CurrentRun, Head(todo), <<>>))
                /\ todo' = Tail(todo)

Fails == /\ Requestable
         /\ Journal(<<Event("Failure", CurrentRun, NoCall, <<>>)>>)
         /\ UNCHANGED <<history, todo>>

Grow == /\ ~ forged
        /\ \/ Prompted \/ ModelIsCalled \/ Answers \/ CallsTools
           \/ StartsTool \/ FinishesTool \/ Fails
        /\ UNCHANGED <<published, forged>>

(* The proposal of a planner becomes the session's checkpoint. *)
Publish == /\ ~ forged
           /\ Requestable
           /\ \E retain \in 1..2 :
                 LET plan == Plan(history, CurrentRun, journal, published, retain) IN
                   /\ plan.candidate # {}
                   /\ published' = plan.candidate
           /\ UNCHANGED <<journal, history, todo, forged>>

(* One event or one message is changed or lost. *)
Forge == /\ ~ forged
         /\ Requestable
         /\ forged' = TRUE
         /\ \/ \E i \in DOMAIN history :
                 \/ /\ history' = [history EXCEPT ![i].text = "forged"]
                    /\ UNCHANGED journal
                 \/ /\ history' = RemoveAt(history, i)
                    /\ UNCHANGED journal
            \/ \E i \in DOMAIN journal :
                 \/ /\ journal' = [journal EXCEPT ![i].text = "forged"]
                    /\ UNCHANGED history
                 \/ /\ journal' = RemoveAt(journal, i)
                    /\ UNCHANGED history
         /\ UNCHANGED <<todo, published>>

Next == Grow \/ Publish \/ Forge

Spec == Init /\ [][Next]_vars

-------------------------------------------------------------------------------
TypeOK ==
    /\ journal \in Seq(Events) /\ history \in Seq(Messages)
    /\ todo \in CallLists /\ forged \in BOOLEAN
    /\ Cardinality(published) <= 1
    /\ \A cp \in published : ValidCheckpoint(cp)

(* Every division of the journal into a prefix, a middle and a rest, each  *)
(* of which is summarized, retained or excluded.                           *)
Divisions(events) ==
    LET n == Len(events)
        spans(kind, kinds, cuts) == FlattenSeq([p \in 1..3 |->
            IF kinds[p] = kind THEN Spans(SubSeq(events, cuts[p], cuts[p + 1] - 1)) ELSE <<>>])
    IN  {[id |-> 0, input |-> input,
          summarized |-> spans("summarized", kinds, cuts),
          retained |-> spans("retained", kinds, cuts),
          excluded |-> spans("excluded", kinds, cuts),
          summary |-> spans("summarized", kinds, cuts) # <<>>] :
            kinds \in {k \in [1..3 -> {"summarized", "retained", "excluded"}] :
                          k[1] # k[2] /\ k[2] # k[3]},
            cuts \in {c \in {<<1, i, j, n + 1>> : i, j \in 2..n + 1} : c[2] < c[3] \/ c[3] = n + 1}, input \in SpanOf(events)}

RunsOf(messages) == {m.run : m \in Range(messages)}

(* However a journal is divided, a request that is rebuilt from it keeps   *)
(* or drops every completed turn as a whole, in order, keeps the turn that *)
(* is running, and so never shows a tool result without its call or a      *)
(* prompt without its answer.                                              *)
TurnsAreNeverSplit ==
    Requestable => \A cp \in Divisions(journal) :
        \A out \in Assemble(history, CurrentRun, journal, cp, Budget) :
            /\ out = SelectSeq(history, LAMBDA m : m.run \in RunsOf(out))
            /\ CurrentRun \in RunsOf(out)

(* What is dropped from a request was exactly what the journal records: a  *)
(* message that was tampered with, in the history or in the journal, is    *)
(* never elided, because its digest or its text no longer agrees ("tool    *)
(* transactions may be elided only when every assistant call is            *)
(* independently journaled").                                              *)
OnlyTheTruthIsElided ==
    Requestable => \A cp \in Divisions(journal) :
        \A out \in Assemble(history, CurrentRun, journal, cp, Budget) :
            \A i \in DOMAIN history : history[i].run \notin RunsOf(out) => history[i].text = "said"

(* A proposal keeps at least the retained number of completed turns and    *)
(* the running one, drops at least one, and the turns it drops are         *)
(* completed.                                                              *)
ProposalsAreSafe ==
    Requestable => \A retain \in 1..2 :
        \A cp \in Plan(history, CurrentRun, journal, published, retain).candidate :
            LET answers == {e \in Range(journal) : e.kind = "Answer"}
                dropped == {e \in answers : Visibility(cp, e.sequence) = "summarized"}
            IN  /\ dropped # {} /\ Cardinality(answers \ dropped) = retain
                /\ \A out \in Assemble(history, CurrentRun, journal, cp, Budget) :
                      RunsOf(out) = RunsOf(history) \ {e.run : e \in dropped}

(* The planner proposes whenever it can: when every turn was answered and  *)
(* every call has a receipt and an identity of its own in its turn, a      *)
(* session with more completed turns than are to be retained gets a        *)
(* proposal.                                                               *)
ProposalsAreMade ==
    Requestable /\ ~ forged /\ published = {} => \A retain \in 1..2 :
        LET answers == Completed(journal)
            bare(r) == \E e \in Range(journal) : e.run = r /\ e.kind = "ToolStarted"
                         /\ ~ \E f \in Range(journal) : f.run = r /\ f.kind = "AssistantReply"
                              /\ e.call \in Range(f.calls)
        IN  /\ \A e \in Range(journal) : e.kind # "Failure" /\ ~ bare(e.run)
            /\ \A i, j \in DOMAIN journal :
                  /\ journal[i].kind = "ToolStarted" /\ journal[j].kind = "ToolStarted"
                  /\ journal[i].run = journal[j].run /\ journal[i].call = journal[j].call
                  => i = j
            /\ Len(answers) > retain
            => Plan(history, CurrentRun, journal, {}, retain).candidate # {}

(* A published checkpoint outlives the growth of its session: the events   *)
(* it was made from are still its source, and a request rebuilt from it    *)
(* and the appended events drops exactly the turns it summarizes.  Any     *)
(* tampering with those events is refused.                                 *)
CheckpointsCarryOver ==
    Requestable => \A cp \in published :
        LET original == SelectSeq(journal, LAMBDA e : e.sequence <= cp.input.last)
            appended == SelectSeq(journal, LAMBDA e : e.sequence > cp.input.last)
            summarized == {e.run : e \in UNION {Range(s.digest) : s \in Range(cp.summarized)}}
        IN  /\ Restores(cp, original) <=> original = cp.input.digest
            /\ \A out \in AssembleTail(history, CurrentRun, cp, original, appended, Budget) :
                  /\ original = cp.input.digest
                  /\ out = SelectSeq(history, LAMBDA m : m.run \notin summarized)

===============================================================================
