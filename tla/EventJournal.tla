---------------------------- MODULE EventJournal ----------------------------
(***************************************************************************)
(* The event journal plugin in several processes over one record store, and *)
(* the renderer that prints the events of a session and checkpoints how far *)
(* it has come.  Each operation reads the journal, computes, and submits    *)
(* one edit; another process may have written meanwhile, the store may      *)
(* apply an edit and fail to say so, and a process may die between steps.   *)
(***************************************************************************)
EXTENDS Naturals, Sequences, FiniteSets, Functions

CONSTANTS Clients,    \* processes, each with its own plugin instance
          Observers,  \* identities under which renderers keep their place
          Journal,    \* JOURNAL_KEY
          NoRecord,
          PageLimit,  \* events in a page
          MaxAppends, \* bounds of the model: appends of a process,
          MaxRenders, \* renderings it starts,
          MaxJobs     \* and both of all processes

VARIABLES
    records, phase, request, answer, \* the record store, as this module sees it
    job,       \* what each process is doing
    progress,  \* how far it is: the read of the journal, of the observer, the write
    batch,     \* the events it appends
    place,     \* the checkpoint its renderer knows
    page,      \* the events of the page it rendered last
    tail,      \* last sequence of the journal it loaded
    told,      \* how its last append ended
    appends, renders, \* how often it has started either
    shown      \* history: the events printed under each observer

storeVars == <<records, phase, request, answer>>

clientVars == <<job, progress, batch, place, page, tail, told, appends, renders>>

vars == <<storeVars, clientVars, shown>>

Batches ==
    {<<[sequence |-> 0, by |-> c, attempt |-> n, part |-> 1]>> : c \in Clients, n \in 1..MaxAppends}
    \cup {<<[sequence |-> 0, by |-> c, attempt |-> n, part |-> 1],
            [sequence |-> 0, by |-> c, attempt |-> n, part |-> 2]>> : c \in Clients, n \in 1..MaxAppends}

Forged == {<<[sequence |-> 1, by |-> c, attempt |-> n, part |-> 1]>> : c \in Clients, n \in 1..MaxAppends}

Events == [sequence: Nat, by: Clients, attempt: 1..MaxAppends, part: 1..2]

JournalAssumption ==
    /\ Journal \notin Observers
    /\ PageLimit \in Nat \ {0}
    /\ {MaxAppends, MaxRenders, MaxJobs} \subseteq Nat
    /\ NoRecord \notin [revision: Nat, data: Seq(Events) \cup Nat]

Store == INSTANCE RecordStore WITH
            Keys <- {Journal} \cup Observers, Data <- Seq(Events) \cup Nat,
            Transactions <- {}, MaxRevision <- 2 * MaxAppends * Cardinality(Clients) + 1

Init ==
    /\ records = [k \in {Journal} \cup Observers |-> NoRecord]
    /\ phase = [c \in Clients |-> "idle"]
    /\ request = [c \in Clients |-> [op |-> "read", key |-> Journal]]
    /\ answer = [c \in Clients |-> Store!Unanswered]
    /\ job = [c \in Clients |-> "none"] /\ progress = [c \in Clients |-> "journal"]
    /\ batch = [c \in Clients |-> <<>>]
    /\ place \in [Clients -> [observer: Observers, after: {0}, revision: {0}]]
    /\ page = [c \in Clients |-> <<>>] /\ tail = [c \in Clients |-> 0]
    /\ told = [c \in Clients |-> [outcome |-> "none", count |-> 0]]
    /\ appends = [c \in Clients |-> 0] /\ renders = [c \in Clients |-> 0]
    /\ shown = [o \in Observers |-> {}]

----------------------------------------------------------------------------
(* Calls of the store. *)

AskFor(c, key) == Store!Call(c, [op |-> "read", key |-> key])

Submit(c, key, expected, data) ==
    Store!Call(c, [op |-> "transact",
                   edits |-> <<[key |-> key, expected |-> expected, data |-> data]>>])

Serve(c) ==
    /\ \/ Store!Read(c) \/ Store!Refuse(c) \/ Store!Apply(c) \/ Store!Acknowledge(c)
       \/ Store!Fail(c)
    /\ UNCHANGED <<clientVars, shown>>

(* The store has answered what the process asked at this point of its job. *)
Heard(c, doing, at) ==
    job[c] = doing /\ progress[c] = at /\ phase[c] = "idle" /\ answer[c] # Store!Unanswered

Succeeded(c) == answer[c].outcome \in {"ok", "not_found"}

(* What the journal read returned: no record is an empty journal. *)
LoadedEvents(c) == IF answer[c].outcome = "ok" THEN answer[c].records[1].data ELSE <<>>

LoadedRevision(c) == IF answer[c].outcome = "ok" THEN answer[c].records[1].revision ELSE 0

LoadedAfter(c) == IF answer[c].outcome = "ok" THEN answer[c].records[1].data ELSE 0

Started == FoldFunction(+, 0, appends) + FoldFunction(+, 0, renders)

Begin(c, doing) ==
    /\ job' = [job EXCEPT ![c] = doing] /\ progress' = [progress EXCEPT ![c] = "journal"]
    /\ AskFor(c, Journal)

End(c) ==
    /\ job' = [job EXCEPT ![c] = "none"]
    /\ UNCHANGED <<storeVars, progress>>

----------------------------------------------------------------------------
(* append *)

StartAppend(c, events) ==
    /\ job[c] = "none" /\ appends[c] < MaxAppends /\ Started < MaxJobs
    /\ \A i \in DOMAIN events : events[i].by = c /\ events[i].attempt = appends[c] + 1
    /\ batch' = [batch EXCEPT ![c] = events]
    /\ appends' = [appends EXCEPT ![c] = @ + 1]
    /\ told' = [told EXCEPT ![c] = [outcome |-> "none", count |-> 0]]
    /\ Begin(c, "append")
    /\ UNCHANGED <<place, page, tail, renders, shown>>

(* append_checked: contiguous sequences after the loaded ones. *)
Updated(existing, events) ==
    existing \o [i \in DOMAIN events |-> [events[i] EXCEPT !.sequence = Len(existing) + i]]

Valid(events) == \A i \in DOMAIN events : events[i].sequence = 0

Tell(c, outcome, count) ==
    /\ told' = [told EXCEPT ![c] = [outcome |-> outcome, count |-> count]]
    /\ End(c)
    /\ UNCHANGED <<batch, place, page, tail, appends, renders, shown>>

AppendLoaded(c) ==
    /\ Heard(c, "append", "journal") /\ Succeeded(c)
    /\ \/ /\ ~Valid(batch[c])
          /\ Tell(c, "invalid", 0)
       \/ /\ Valid(batch[c]) /\ batch[c] = <<>>
          /\ Tell(c, "empty", Len(LoadedEvents(c)))
       \/ /\ Valid(batch[c]) /\ batch[c] # <<>>
          /\ progress' = [progress EXCEPT ![c] = "write"]
          /\ Submit(c, Journal, LoadedRevision(c), Updated(LoadedEvents(c), batch[c]))
          /\ UNCHANGED <<job, batch, place, page, tail, told, appends, renders, shown>>

(* Fault: a failure is taken for a refusal and the batch is sent again. *)
AppendSentAgain(c) ==
    /\ Heard(c, "append", "write")
    /\ IF answer[c].outcome = "failed"
         THEN Begin(c, "append") /\ UNCHANGED <<batch, place, page, tail, told, appends, renders, shown>>
         ELSE Tell(c, answer[c].outcome, Len(request[c].edits[1].data))

(* transact_one: only an exact acknowledgement is a success; a conflict is  *)
(* returned, and so is a failure that leaves the caller in doubt.           *)
AppendWritten(c) ==
    /\ Heard(c, "append", "write")
    /\ IF answer[c].outcome = "ok" THEN Tell(c, "ok", Len(request[c].edits[1].data))
                                   ELSE Tell(c, answer[c].outcome, 0)

AppendFailed(c) ==
    /\ Heard(c, "append", "journal") /\ ~Succeeded(c)
    /\ Tell(c, "failed", 0)

----------------------------------------------------------------------------
(* The renderer: find the place of the observer, then print page after page *)
(* and checkpoint each.                                                     *)

StartRender(c, o) ==
    /\ job[c] = "none" /\ renders[c] < MaxRenders /\ Started < MaxJobs
    /\ renders' = [renders EXCEPT ![c] = @ + 1]
    /\ place' = [place EXCEPT ![c] = [observer |-> o, after |-> 0, revision |-> 0]]
    /\ Begin(c, "observer")
    /\ UNCHANGED <<batch, page, tail, told, appends, shown>>

(* load_observer, first half: the tail bounds what a checkpoint may say. *)
TailLoaded(c) ==
    /\ job[c] \in {"observer", "checkpoint"}
    /\ Heard(c, job[c], "journal") /\ Succeeded(c)
    /\ tail' = [tail EXCEPT ![c] = Len(LoadedEvents(c))]
    /\ progress' = [progress EXCEPT ![c] = "observer"]
    /\ AskFor(c, place[c].observer)
    /\ UNCHANGED <<job, batch, place, page, told, appends, renders, shown>>

(* The renderer knows its place and reads on from there. *)
Placed(c, after, revision) ==
    /\ place' = [place EXCEPT ![c].after = after, ![c].revision = revision]
    /\ Begin(c, "page")
    /\ UNCHANGED <<batch, page, tail, told, appends, renders, shown>>

ObserverLoaded(c) ==
    /\ Heard(c, "observer", "observer") /\ Succeeded(c)
    /\ LoadedAfter(c) <= tail[c]
    /\ Placed(c, LoadedAfter(c), LoadedRevision(c))

(* page_from, up to the limit. *)
PageAfter(events, after) ==
    SubSeq(events, after + 1, IF after + PageLimit < Len(events) THEN after + PageLimit ELSE Len(events))

(* Events are printed before the checkpoint is asked for; an empty page     *)
(* ends the rendering, and an offset beyond the tail fails it.              *)
PageLoaded(c) ==
    /\ Heard(c, "page", "journal") /\ Succeeded(c)
    /\ LET events == LoadedEvents(c)
           found == PageAfter(events, place[c].after)
       IN  IF place[c].after > Len(events) \/ found = <<>>
             THEN /\ End(c)
                  /\ UNCHANGED <<batch, place, page, tail, told, appends, renders, shown>>
             ELSE /\ page' = [page EXCEPT ![c] = found]
                  /\ shown' = [shown EXCEPT ![place[c].observer] =
                                  @ \cup {found[i].sequence : i \in DOMAIN found}]
                  /\ Begin(c, "checkpoint")
                  /\ UNCHANGED <<batch, place, tail, told, appends, renders>>

NextAfter(c) == page[c][Len(page[c])].sequence

(* checkpoint_observer's conditions, on what it has just loaded. *)
AcceptsCheckpoint(c, after, revision) ==
    place[c].revision = revision /\ NextAfter(c) >= after /\ NextAfter(c) <= tail[c]

CheckpointLoaded(c) ==
    /\ Heard(c, "checkpoint", "observer") /\ Succeeded(c)
    /\ LoadedAfter(c) <= tail[c]
    /\ AcceptsCheckpoint(c, LoadedAfter(c), LoadedRevision(c))
    /\ \/ /\ NextAfter(c) = LoadedAfter(c)
          /\ Placed(c, LoadedAfter(c), LoadedRevision(c))
       \/ /\ NextAfter(c) # LoadedAfter(c)
          /\ progress' = [progress EXCEPT ![c] = "write"]
          /\ Submit(c, place[c].observer, LoadedRevision(c), NextAfter(c))
          /\ UNCHANGED <<job, batch, place, page, tail, told, appends, renders, shown>>

CheckpointWritten(c) ==
    /\ Heard(c, "checkpoint", "write") /\ answer[c].outcome = "ok"
    /\ Placed(c, NextAfter(c), answer[c].records[1].revision)

(* Any other answer, or a place the journal does not accept, ends the       *)
(* rendering; the next one starts from the stored checkpoint.               *)
RenderFails(c) ==
    /\ \/ /\ \E doing \in {"observer", "page", "checkpoint"}, at \in {"journal", "observer"} :
                 Heard(c, doing, at)
          /\ ~Succeeded(c)
       \/ Heard(c, "checkpoint", "write") /\ answer[c].outcome # "ok"
       \/ \E doing \in {"observer", "checkpoint"} :
             Heard(c, doing, "observer") /\ Succeeded(c) /\ LoadedAfter(c) > tail[c]
       \/ Heard(c, "checkpoint", "observer") /\ Succeeded(c)
             /\ ~AcceptsCheckpoint(c, LoadedAfter(c), LoadedRevision(c))
    /\ End(c)
    /\ UNCHANGED <<batch, place, page, tail, told, appends, renders, shown>>

(* The process dies between two steps, or inside the store (Serve's Fail). *)
Die(c) ==
    /\ job[c] # "none" /\ phase[c] = "idle"
    /\ End(c)
    /\ UNCHANGED <<batch, place, page, tail, told, appends, renders, shown>>

Next == \E c \in Clients :
    \/ Serve(c)
    \/ \E events \in Batches \cup Forged \cup {<<>>} : StartAppend(c, events)
    \/ AppendLoaded(c) \/ AppendWritten(c) \/ AppendFailed(c)
    \/ \E o \in Observers : StartRender(c, o)
    \/ TailLoaded(c) \/ ObserverLoaded(c) \/ PageLoaded(c)
    \/ CheckpointLoaded(c) \/ CheckpointWritten(c) \/ RenderFails(c) \/ Die(c)

Spec == Init /\ [][Next]_vars

----------------------------------------------------------------------------
log == IF records[Journal] = NoRecord THEN <<>> ELSE records[Journal].data

cursor == [o \in Observers |-> IF records[o] = NoRecord THEN 0 ELSE records[o].data]

(* What the journal promises: an append-only sequence of numbered events,   *)
(* extended by whole batches, and a cursor for each observer that only      *)
(* advances over events that exist.                                         *)
LogStarts == log = <<>> /\ cursor = [o \in Observers |-> 0]

(* The events of a batch, numbered after those that are there. *)
Numbered(last, events) ==
    [i \in DOMAIN events |-> [events[i] EXCEPT !.sequence = last + i]]

Extend(events) ==
    /\ log' = log \o Numbered(Len(log), events)
    /\ UNCHANGED cursor

Advance(o, after) ==
    /\ after \in (cursor[o] + 1)..Len(log)
    /\ cursor' = [cursor EXCEPT ![o] = after]
    /\ UNCHANGED log

(* The types of what the processes keep. *)
TypeOK ==
    /\ job \in [Clients -> {"none", "append", "observer", "page", "checkpoint"}]
    /\ progress \in [Clients -> {"journal", "observer", "write"}]
    /\ \A c \in Clients : batch[c] \in Batches \cup Forged \cup {<<>>}
    /\ place \in [Clients -> [observer: Observers, after: Nat, revision: Nat]]
    /\ log \in Seq({e \in Events : e.sequence > 0}) /\ cursor \in [Observers -> Nat]
    /\ tail \in [Clients -> Nat]
    /\ told \in [Clients -> [outcome: {"none", "ok", "empty", "invalid", "conflict", "failed"},
                             count: Nat]]

(* However the processes interleave and fail, the stored journal is an      *)
(* append-only log of whole, contiguously numbered batches, and observers'  *)
(* cursors only advance, over events that exist.                            *)
LogStep ==
    \/ UNCHANGED <<log, cursor>>
    \/ \E events \in Batches : Extend(events)
    \/ \E o \in Observers : \E after \in 1..Len(log) : Advance(o, after)

(* An acknowledged append stands in the journal where its answer says.      *)
AcknowledgedIsLogged ==
    \A c \in Clients : told[c].outcome = "ok" =>
        LET first == told[c].count - Len(batch[c])
        IN  /\ told[c].count <= Len(log)
            /\ SubSeq(log, first + 1, told[c].count) = Numbered(first, batch[c])

(* No batch is logged twice, and one that was refused is not logged at all. *)
LoggedAtMostOnce ==
    /\ \A i, j \in DOMAIN log :
          [log[i] EXCEPT !.sequence = 0] = [log[j] EXCEPT !.sequence = 0] => i = j
    /\ \A c \in Clients : told[c].outcome \in {"invalid", "conflict"} =>
          \A i \in DOMAIN log : log[i].by = c => log[i].attempt < appends[c]

(* An observer never passes over an event that was not printed for it.      *)
PrintedBeforeCheckpointed == \A o \in Observers : 1..cursor[o] \subseteq shown[o]
============================================================================
