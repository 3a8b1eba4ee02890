------------------------------ MODULE MCSessions ------------------------------
(****************************************************************************)
(* The sessions of a product and what stands between them and their users:  *)
(* the runs of one session under several hosts, the connection of an        *)
(* editor, terminals and line streams, the fields, edits and imports of     *)
(* plugins, and the calls of a model over HTTP. A behaviour is of one       *)
(* component (part); the variables of the others hold Unused, or, for the   *)
(* components that SessionProofs is about, their initial values.            *)
(****************************************************************************)
EXTENDS SessionProofs, SequencesExt, TLC

CONSTANTS Parts,   \* the components a behaviour may be of
          Unused,  \* what the variables of the others hold
          oneTab, otherTab, \* sessions of a connection
          oldEdit, newEdit, watcher, \* handles of a plugin
          oldCall, newCall \* calls of a model

VARIABLE part  \* the component this behaviour is of

VARIABLES requests, inbox, registry, flag, replies, hungUp, peer, greeted,
          known, stored, running, awaiting, written, offset, task, prompt,
          graph, stopping, shown, torn, deserted, cancels, failures
VARIABLES mode, given, first, channel, inputOver, queue, does, opening,
          driven, driving, read, open, runStatus, logged, observer, printed,
          done, cancelledRuns, breaks
VARIABLES input, whole, line, long, out
VARIABLES store, epoch, edits, commits, subs, nextCursor, watches, answer,
          child, import
------------------------------------------------------------------------------
(* Two sessions, either of which an earlier host may have stored, and a     *)
(* channel of two commands.                                                 *)
Connection == INSTANCE AcpConnection WITH
    Sessions <- {oneTab, otherTab}, QueueLimit <- 2, PageLimit <- 1, MaxRequests <- 3,
    MaxEvents <- 2, MaxCancels <- 1, MaxFaults <- 1, sent <- requests,
    answer <- replies, closed <- hungUp, initialized <- greeted,
    pending <- awaiting, journal <- written, step <- task, run <- graph,
    faults <- failures

ASSUME Connection!ConnectionAssumption

(* One session with more requests, among them a prompt for a session whose  *)
(* last tool call has no result.                                            *)
Alone == INSTANCE AcpConnection WITH
    Sessions <- {oneTab}, QueueLimit <- 1, PageLimit <- 1, MaxRequests <- 4,
    MaxEvents <- 1, MaxCancels <- 0, MaxFaults <- 1, sent <- requests,
    answer <- replies, closed <- hungUp, initialized <- greeted,
    pending <- awaiting, journal <- written, step <- task, run <- graph,
    faults <- failures

ASSUME Alone!ConnectionAssumption

(* One session whose prompts are cancelled.                                 *)
Cancelling == INSTANCE AcpConnection WITH
    Sessions <- {oneTab}, QueueLimit <- 1, PageLimit <- 1, MaxRequests <- 3,
    MaxEvents <- 2, MaxCancels <- 1, MaxFaults <- 1, sent <- requests,
    answer <- replies, closed <- hungUp, initialized <- greeted,
    pending <- awaiting, journal <- written, step <- task, run <- graph,
    faults <- failures

ASSUME Cancelling!ConnectionAssumption

connectionVars == <<requests, inbox, registry, flag, replies, hungUp, peer,
                    greeted, known, stored, running, awaiting, written,
                    offset, task, prompt, graph, stopping, shown, torn,
                    deserted, cancels, failures>>

NoConnection ==
    /\ requests = Unused /\ inbox = Unused /\ registry = Unused
    /\ flag = Unused /\ replies = Unused /\ hungUp = Unused
    /\ peer = Unused /\ greeted = Unused /\ known = Unused
    /\ stored = Unused /\ running = Unused /\ awaiting = Unused
    /\ written = Unused /\ offset = Unused /\ task = Unused
    /\ prompt = Unused /\ graph = Unused /\ stopping = Unused
    /\ shown = Unused /\ torn = Unused /\ deserted = Unused
    /\ cancels = Unused /\ failures = Unused

(* Two sessions whose lines share one stream.                               *)
Streams == INSTANCE StreamHosts WITH
    Sessions <- {"s1", "s2"}, Default <- "s1", ChannelLimit <- 2,
    QueueLimit <- 1, ReadLimit <- 2, SessionLimit <- 2, PageLimit <- 1,
    MaxLines <- 3, MaxEvents <- 1, MaxFaults <- 1, sent <- given,
    closed <- inputOver, step <- does, line <- opening, active <- driven,
    run <- driving, status <- runStatus, journal <- logged,
    cancelled <- cancelledRuns, faults <- breaks

(* The same where nothing fails, in a host that serves one of them.         *)
Notices == INSTANCE StreamHosts WITH
    Sessions <- {"s1", "s2"}, Default <- "s1", ChannelLimit <- 2,
    QueueLimit <- 1, ReadLimit <- 2, SessionLimit <- 1, PageLimit <- 1,
    MaxLines <- 3, MaxEvents <- 1, MaxFaults <- 0, sent <- given,
    closed <- inputOver, step <- does, line <- opening, active <- driven,
    run <- driving, status <- runStatus, journal <- logged,
    cancelled <- cancelledRuns, faults <- breaks

streamsVars == <<mode, given, first, channel, inputOver, queue, does, opening,
                 driven, driving, read, open, runStatus, logged, observer,
                 printed, done, cancelledRuns, breaks>>

NoStreams ==
    /\ mode = Unused /\ given = Unused /\ first = Unused
    /\ channel = Unused /\ inputOver = Unused /\ queue = Unused
    /\ does = Unused /\ opening = Unused /\ driven = Unused
    /\ driving = Unused /\ read = Unused /\ open = Unused
    /\ runStatus = Unused /\ logged = Unused /\ observer = Unused
    /\ printed = Unused /\ done = Unused /\ cancelledRuns = Unused
    /\ breaks = Unused

(* All texts of up to five bytes, with lines of up to three.                *)
Reader == INSTANCE StdinLines WITH
    Limit <- 3, CR <- "cr", LF <- "lf", Broken <- "ff",
    Inputs <- BoundedSeq({"x", "cr", "lf", "ff"}, 5)

readerVars == <<input, whole, line, long, out>>

NoReader ==
    /\ input = Unused /\ whole = Unused /\ line = Unused
    /\ long = Unused /\ out = Unused

ASSUME Instance!OwnedStateAssumption /\ Instance!NoneAssumption

instanceVars == <<phase, initialized, poisoned, field, sidecar, cells, entry,
                  work, ticket, calls, panicked>>

(* Two edits of two cells that others write too.                            *)
Handles == INSTANCE LiveValues WITH
    Locations <- {1, 2}, Edits <- {oldEdit, newEdit}, Watches <- {},
    Values <- {0, 1}, None <- NoOne, Imports <- 0, MaxEpoch <- 2

ASSUME Handles!LiveValuesAssumption

(* An import and a watch beside an edit of the same cell.                   *)
Imported == INSTANCE LiveValues WITH
    Locations <- {1}, Edits <- {oldEdit}, Watches <- {watcher},
    Values <- {0, 1}, None <- NoOne, Imports <- 1, MaxEpoch <- 2

ASSUME Imported!LiveValuesAssumption

handlesVars == <<store, epoch, edits, commits, subs, nextCursor, watches,
                 answer, child, import>>

NoHandles ==
    /\ store = Unused /\ epoch = Unused /\ edits = Unused
    /\ commits = Unused /\ subs = Unused /\ nextCursor = Unused
    /\ watches = Unused /\ answer = Unused /\ child = Unused
    /\ import = Unused

ASSUME Model!HttpModelAssumption

transportVars == <<worker, failure, cancelled, progress, result, thread, sent,
                   handler, polled, replied, texts, refused, cuts>>

------------------------------------------------------------------------------
(* A behaviour is of one part. The parts share no variable, so running them *)
(* side by side would add interleavings that no property tells apart.       *)
MCInit ==
    /\ part \in Parts
    /\ IF part = "connection" THEN Connection!Init ELSE IF part = "alone" THEN Alone!Init ELSE IF part = "cancelling" THEN Cancelling!Init ELSE NoConnection
    /\ IF part = "streams" THEN Streams!Init ELSE IF part = "notices" THEN Notices!Init ELSE NoStreams
    /\ IF part = "reader" THEN Reader!Init ELSE NoReader
    /\ IF part = "handles" THEN Handles!Init ELSE IF part = "imports" THEN Imported!Init ELSE NoHandles
    /\ Init /\ Instance!Init /\ Model!Init

ConnectionStep ==
    /\ part = "connection" /\ Connection!Next
    /\ UNCHANGED <<part, streamsVars, readerVars, instanceVars, handlesVars,
                   transportVars, vars>>

AloneStep ==
    /\ part = "alone" /\ Alone!Next
    /\ UNCHANGED <<part, streamsVars, readerVars, instanceVars, handlesVars,
                   transportVars, vars>>

CancellingStep ==
    /\ part = "cancelling" /\ Cancelling!Next
    /\ UNCHANGED <<part, streamsVars, readerVars, instanceVars, handlesVars,
                   transportVars, vars>>

StreamsStep ==
    /\ part = "streams" /\ Streams!Next
    /\ UNCHANGED <<part, connectionVars, readerVars, instanceVars,
                   handlesVars, transportVars, vars>>

NoticesStep ==
    /\ part = "notices" /\ Notices!Next
    /\ UNCHANGED <<part, connectionVars, readerVars, instanceVars,
                   handlesVars, transportVars, vars>>

ReaderStep ==
    /\ part = "reader" /\ Reader!Next
    /\ UNCHANGED <<part, connectionVars, streamsVars, instanceVars,
                   handlesVars, transportVars, vars>>

InstanceStep ==
    /\ part = "instance" /\ Instance!Next
    /\ UNCHANGED <<part, connectionVars, streamsVars, readerVars, handlesVars,
                   transportVars, vars>>

HandlesStep ==
    /\ part = "handles" /\ Handles!Next
    /\ UNCHANGED <<part, connectionVars, streamsVars, readerVars,
                   instanceVars, transportVars, vars>>

ImportedStep ==
    /\ part = "imports" /\ Imported!Next
    /\ UNCHANGED <<part, connectionVars, streamsVars, readerVars,
                   instanceVars, transportVars, vars>>

TransportStep ==
    /\ part = "transport" /\ Model!Next
    /\ UNCHANGED <<part, connectionVars, streamsVars, readerVars,
                   instanceVars, handlesVars, vars>>

RunStep ==
    /\ part = "runs" /\ Next
    /\ UNCHANGED <<part, connectionVars, streamsVars, readerVars, instanceVars,
                   handlesVars, transportVars>>

MCNext ==
    \/ ConnectionStep \/ AloneStep \/ CancellingStep \/ StreamsStep
    \/ NoticesStep \/ ReaderStep \/ InstanceStep \/ HandlesStep
    \/ ImportedStep \/ TransportStep \/ RunStep

allVars == <<part, connectionVars, streamsVars, readerVars, instanceVars,
             handlesVars, transportVars, vars>>

MCSpec == MCInit /\ [][MCNext]_allVars

(* Which of two sessions, or calls, is which makes no difference.           *)
Interchangeable == Permutations({oneTab, otherTab}) \cup Permutations({oldCall, newCall})

------------------------------------------------------------------------------
(* A cancellation finds the earliest prompt of its session that can still   *)
(* be cancelled, and cancels that one only; a prompt is answered after the  *)
(* client was shown what its run journaled, and a host that ends leaves no  *)
(* run behind but those whose driving failed.                               *)
ConnectionsAnswerTheirRequests ==
    /\ [](part = "connection" =>
             /\ Connection!TypeOK
             /\ Connection!RegistryFollowsTheQueue
             /\ Connection!NoticesCancelOne
             /\ Connection!EndedHostsLeaveNoRun)
    /\ [][part = "connection" =>
             /\ Connection!AnswersFollowTheirUpdates]_allVars
    /\ [](part = "alone" =>
             /\ Alone!TypeOK
             /\ Alone!RegistryFollowsTheQueue
             /\ Alone!NoticesCancelOne
             /\ Alone!EndedHostsLeaveNoRun)
    /\ [][part = "alone" =>
             /\ Alone!AnswersFollowTheirUpdates]_allVars

(* No prompt of a stream is lost, doubled or overtaken, a notice cancels    *)
(* the run it was meant for, output survives restarts, what a run journaled *)
(* is shown before the next line is looked at, and lines are the bytes the  *)
(* client sent however they came in chunks.                                 *)
StreamsKeepTheirLines ==
    /\ [](part = "streams" =>
             /\ Streams!TypeOK
             /\ Streams!PromptsKeepTheirOrder
             /\ Streams!NoticesStayWithTheirSession
             /\ Streams!OutputIsComplete
             /\ Streams!EndedHostsAreDone)
    /\ [][part = "streams" =>
             /\ Streams!RunsAreShown]_allVars
    /\ [](part = "reader" =>
             /\ Reader!TypeOK
             /\ Reader!LinesIgnoreChunks)

(* An edit replaces the snapshot it was made from and publishes once,       *)
(* answers are of the reference they were asked for, watches miss nothing,  *)
(* and an import is settled exactly when its child is released.             *)
HandlesTellTheTruth ==
    /\ [](part = "handles" =>
             /\ Handles!TypeOK
             /\ Handles!EditsPublishOnce
             /\ Handles!AnswersMatchReferences)
    /\ [][part = "handles" =>
             /\ Handles!EditsReplaceTheirBase]_allVars
    /\ [](part = "imports" =>
             /\ Imported!TypeOK
             /\ Imported!WatchesMissNothing
             /\ Imported!ClosedWatchesAreGone
             /\ Imported!SettledMeansReleased)
    /\ [][part = "imports" =>
             /\ Imported!EditsReplaceTheirBase]_allVars

(****************************************************************************)
(* Progress, under the fairness of each component.                          *)
(****************************************************************************)
MCFairness ==
    /\ \A h \in Hosts : WF_vars(part = "runs" /\ Work(h))
    /\ WF_connectionVars(part = "cancelling" /\ Cancelling!Check)
    /\ WF_connectionVars(part = "cancelling" /\ Cancelling!Pump)
    /\ WF_connectionVars(part = "cancelling" /\ Cancelling!Update)
    /\ WF_connectionVars(/\ part = "cancelling"
                          /\ \/ Cancelling!Finish \/ Cancelling!ShowLast
                             \/ Cancelling!Replay \/ Cancelling!Reply
                             \/ Cancelling!Stop)
    /\ WF_streamsVars(part = "notices" /\ Notices!Controller)
    /\ WF_instanceVars(part = "instance" /\ \E allowed \in BOOLEAN : Instance!Poll(allowed))
    /\ WF_instanceVars(part = "instance" /\ (Instance!Return \/ Instance!Panic))
    /\ SF_instanceVars(part = "instance" /\ Instance!Finishes)
    /\ SF_instanceVars(part = "instance" /\ Instance!WorkEndsWhenCancelled)
    /\ \A c \in Calls :
          /\ WF_transportVars(part = "transport" /\ Model!Look(c))
          /\ WF_transportVars(part = "transport" /\ Model!Take(c))
          /\ WF_transportVars(part = "transport" /\ Model!Write(c))
          /\ WF_transportVars(part = "transport" /\ Model!Return(c))
          /\ WF_transportVars(part = "transport" /\ Model!Connect(c))
          /\ WF_transportVars(part = "transport" /\ Model!Stop(c))
          /\ WF_transportVars(part = "transport" /\ Model!Leave(c))

MCFairSpec == MCSpec /\ MCFairness

(* Whoever takes the lock of a session gives it back; a prompt that was     *)
(* asked to stop is answered and a host without its client ends; a notice   *)
(* for the active run is heard unless the queue is full; and a cancelled    *)
(* call of a pending operation drains, in a poisoned instance too; a call   *)
(* to a model that is cancelled, or whose thread is done, ends even if the  *)
(* network does not answer.                                                 *)
SessionsMakeProgress ==
    /\ PromptsEnd
    /\ \A r \in 1 .. 3 :
          part = "cancelling" /\ Cancelling!ToBeStopped(r) ~> prompt # r
    /\ part = "cancelling" /\ hungUp ~> task = "down"
    /\ \A p \in 1 .. 3 :
          part = "notices" /\ Notices!Noticed(p) ~> Notices!Heard(p)
    /\ part = "instance" /\ Instance!ToBeDrained ~> part = "instance" /\ Instance!Drained
    /\ \A c \in Calls :
          part = "transport" /\ Model!ToBeReturned(c) ~> part = "transport" /\ Model!Returned(c)
==============================================================================
