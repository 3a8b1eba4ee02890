------------------------------ MODULE HttpModelWorker ------------------------------
(***************************************************************************)
(* A model call of the HTTP plugin: its worker thread, which talks to the  *)
(* network, and its polls, which write what arrived to the journal         *)
(* (phenix-plugin-model-http, lib.rs and transport.rs).                    *)
(*                                                                         *)
(* The handlers of the plugin run one at a time; the thread runs beside    *)
(* them and shares three things with them: the progress text, the          *)
(* cancelled flag and the channel with the result.  The kernel polls a     *)
(* call until it is done, and once more asks to cancel it at any time.     *)
(* A text is the number of its piece; configuration and encoding of the    *)
(* request, and the stream's checks, are a failure or none.                *)
(***************************************************************************)
EXTENDS Naturals, Sequences, FiniteSets, SequencesExt

CONSTANTS Calls, MaxPieces, MaxFaults

NoCall == "none"

HttpModelAssumption == NoCall \notin Calls /\ MaxPieces \in Nat /\ MaxFaults \in Nat

Idle   == [at |-> "idle"]

VARIABLES
    worker,     \* the call whose worker the plugin holds
    failure,    \* whether its journal failed
    cancelled,  \* the flag each worker shares with its thread
    progress,   \* the text it has not taken yet
    result,     \* its channel: none, reply or error
    thread,     \* none, start, transfer, send, exit, finished
    sent,       \* the pieces it received
    handler,    \* a poll in the middle of its work
    ticket,     \* the call: new, pending, draining, done
    answer,     \* none, reply, empty, failed, cancelled
    journal,    \* the pieces in the journal
    refused,    \* history: the calls whose journal failed
    faults

shared == <<cancelled, progress, result>>
call   == <<ticket, answer>>
vars   == <<worker, failure, shared, thread, sent, handler, call, journal, refused, faults>>

Init ==
    /\ worker = NoCall /\ failure = FALSE
    /\ cancelled = [c \in Calls |-> FALSE] /\ progress = [c \in Calls |-> << >>]
    /\ result = [c \in Calls |-> "none"] /\ thread = [c \in Calls |-> "none"]
    /\ sent = [c \in Calls |-> 0] /\ handler = Idle
    /\ ticket = [c \in Calls |-> "new"] /\ answer = [c \in Calls |-> "none"]
    /\ journal = [c \in Calls |-> << >>] /\ refused = {} /\ faults = 0

Fault == faults < MaxFaults /\ faults' = faults + 1

Set(f, c, v) == [f EXCEPT ![c] = v]

(* A call that was cancelled keeps that answer while it drains. *)
End(c, what) ==
    /\ ticket' = Set(ticket, c, "done")
    /\ answer' = IF ticket[c] = "draining" THEN answer ELSE Set(answer, c, what)

-----------------------------------------------------------------------------
(***************************************************************************)
(* The handlers.                                                            *)
(***************************************************************************)
(* begin: the call has a worker, unless another one has or it fails.       *)
Begin(c) ==
    /\ handler = Idle /\ ticket[c] = "new"
    /\ \/ /\ worker = NoCall
          /\ worker' = c /\ failure' = FALSE
          /\ thread' = Set(thread, c, "start")
          /\ ticket' = Set(ticket, c, "pending")
          /\ UNCHANGED <<answer, faults>>
       \/ /\ worker # NoCall
          /\ End(c, "failed")
          /\ UNCHANGED <<worker, failure, thread, faults>>
       \/ /\ worker = NoCall /\ Fault
          /\ End(c, "failed")
          /\ UNCHANGED <<worker, failure, thread>>
    /\ UNCHANGED <<shared, sent, handler, journal, refused>>

(* poll first looks whether the thread has finished, and whether the call  *)
(* was cancelled.                                                          *)
Look(c) ==
    /\ handler = Idle /\ ticket[c] \in {"pending", "draining"} /\ worker = c
    /\ handler' = [at |-> IF cancelled[c] \/ failure THEN "return" ELSE "take",
                   finished |-> thread[c] = "finished", cancelled |-> cancelled[c], text |-> << >>]
    /\ UNCHANGED <<worker, failure, shared, thread, sent, call, journal, refused, faults>>

(* Fault: the text is read, and left for the next poll as well. *)
TakeCopy(c) ==
    /\ handler.at = "take" /\ worker = c
    /\ handler' = [handler EXCEPT !.at = "append", !.text = progress[c]]
    /\ UNCHANGED <<worker, failure, shared, thread, sent, call, journal, refused, faults>>

Take(c) ==
    /\ handler.at = "take" /\ worker = c
    /\ handler' = [handler EXCEPT !.at = "append", !.text = progress[c]]
    /\ progress' = Set(progress, c, << >>)
    /\ UNCHANGED <<worker, failure, cancelled, result, thread, sent, call, journal, refused, faults>>

(* The text goes to the journal in one event; if that fails, the call will *)
(* fail, and its thread is told to stop.                                   *)
Write(c) ==
    /\ handler.at = "append" /\ worker = c
    /\ \/ /\ journal' = Set(journal, c, journal[c] \o handler.text)
          /\ UNCHANGED <<failure, cancelled, refused, faults>>
       \/ /\ handler.text # << >> /\ Fault
          /\ failure' = TRUE /\ cancelled' = Set(cancelled, c, TRUE)
          /\ refused' = refused \cup {c}
          /\ UNCHANGED journal
    /\ handler' = [handler EXCEPT !.at = "return", !.text = << >>]
    /\ UNCHANGED <<worker, progress, result, thread, sent, call>>

Finished(c) == handler.finished

(* The journal's failure comes before the thread's result.                 *)
Joined(c) == IF ~failure /\ result[c] = "reply" THEN "reply" ELSE "failed"

(* Only a thread that had finished before ends the call: it is joined, and *)
(* its result is what the channel holds.                                   *)
Return(c) ==
    /\ handler.at = "return" /\ worker = c
    /\ handler' = Idle
    /\ IF ~Finished(c)
       THEN UNCHANGED <<worker, failure, call>>
       ELSE /\ worker' = NoCall /\ failure' = FALSE
            /\ End(c, IF handler.cancelled /\ ~failure THEN "empty" ELSE Joined(c))
    /\ UNCHANGED <<shared, thread, sent, journal, refused, faults>>

(* cancel tells the thread to stop; the call is done at once if it had.    *)
Cancel(c) ==
    /\ handler = Idle /\ ticket[c] = "pending"
    /\ cancelled' = Set(cancelled, c, TRUE)
    /\ answer' = Set(answer, c, "cancelled")
    /\ IF thread[c] = "finished"
       THEN worker' = NoCall /\ failure' = FALSE /\ ticket' = Set(ticket, c, "done")
       ELSE UNCHANGED <<worker, failure>> /\ ticket' = Set(ticket, c, "draining")
    /\ UNCHANGED <<progress, result, thread, sent, handler, journal, refused, faults>>

-----------------------------------------------------------------------------
(***************************************************************************)
(* The thread.                                                              *)
(***************************************************************************)
Ran(c, from, to) == thread[c] = from /\ thread' = Set(thread, c, to)

Connect(c) ==
    /\ ~cancelled[c] /\ Ran(c, "start", "transfer")
    /\ UNCHANGED <<worker, failure, shared, sent, handler, call, journal, refused, faults>>

(* The transfer's write callback: the stream has a further piece of text.  *)
Receive(c) ==
    /\ thread[c] = "transfer" /\ ~cancelled[c] /\ sent[c] < MaxPieces
    /\ sent' = Set(sent, c, sent[c] + 1)
    /\ progress' = Set(progress, c, Append(progress[c], sent[c] + 1))
    /\ UNCHANGED <<worker, failure, cancelled, result, thread, handler, call, journal, refused, faults>>

(* The stream came to its end, with a reply of all its pieces.             *)
Complete(c) ==
    /\ Ran(c, "transfer", "send")
    /\ result' = Set(result, c, "reply")
    /\ UNCHANGED <<worker, failure, cancelled, progress, sent, handler, call, journal, refused, faults>>

(* The progress callback, and each look before the transfer: cancelled.    *)
Stop(c) ==
    /\ cancelled[c] /\ (Ran(c, "start", "send") \/ Ran(c, "transfer", "send"))
    /\ result' = Set(result, c, "error")
    /\ UNCHANGED <<worker, failure, cancelled, progress, sent, handler, call, journal, refused, faults>>

(* The transport, the status, the stream or its timeout fails; or the      *)
(* thread panics, and nothing is sent.                                     *)
Break(c) ==
    /\ Fault
    /\ \/ Ran(c, "transfer", "send") /\ result' = Set(result, c, "error")
       \/ Ran(c, "transfer", "finished") /\ UNCHANGED result
    /\ UNCHANGED <<worker, failure, cancelled, progress, sent, handler, call, journal, refused>>

(* The result is in the channel and the kernel woken; then it is over.     *)
Leave(c) ==
    /\ Ran(c, "send", "exit") \/ Ran(c, "exit", "finished")
    /\ UNCHANGED <<worker, failure, shared, sent, handler, call, journal, refused, faults>>

Next ==
    \E c \in Calls :
        \/ Begin(c) \/ Look(c) \/ Take(c) \/ Write(c) \/ Return(c) \/ Cancel(c)
        \/ Connect(c) \/ Receive(c) \/ Complete(c) \/ Stop(c) \/ Break(c) \/ Leave(c)

Spec == Init /\ [][Next]_vars

-----------------------------------------------------------------------------
TypeOK ==
    /\ worker \in Calls \cup {NoCall} /\ failure \in BOOLEAN
    /\ thread \in [Calls -> {"none", "start", "transfer", "send", "exit", "finished"}]
    /\ ticket \in [Calls -> {"new", "pending", "draining", "done"}]
    /\ answer \in [Calls -> {"none", "reply", "empty", "failed", "cancelled"}]
    /\ result \in [Calls -> {"none", "reply", "error"}] /\ cancelled \in [Calls -> BOOLEAN]
    /\ \A c \in Calls : ticket[c] \in {"pending", "draining"} <=> worker = c

Whole(c) == [n \in 1 .. sent[c] |-> n]

(* A reply is answered only when all of its text is in the journal, once   *)
(* and in order: the last piece may arrive while a poll is writing the     *)
(* ones before it.                                                         *)
RepliesAreJournalled == \A c \in Calls : answer[c] = "reply" => journal[c] = Whole(c)

(* Whatever fails, the journal holds a beginning of the streamed text.     *)
JournalsFollowTheStream == \A c \in Calls : IsPrefix(journal[c], Whole(c))

(* A call whose text could not be journalled does not succeed.             *)
RefusedTextsFail == \A c \in refused : answer[c] \in {"none", "failed", "cancelled"}

(* A call that is done has no thread: none wakes a ticket, touches the     *)
(* plugin or talks to the model after it.                                  *)
NoThreadIsLeftBehind ==
    \A c \in Calls : ticket[c] = "done" => thread[c] \in {"none", "finished"}

(* After cancel, the call writes nothing more.                             *)
CancelledCallsAreSilent ==
    \A c \in Calls : answer[c] = "cancelled" => journal'[c] = journal[c]

(* A call that is cancelled comes to its end, even if the network does     *)
(* not answer, and so does one whose thread has finished: the former leads *)
(* to the latter.                                                          *)
ToBeReturned(c) == ticket[c] = "draining" \/ thread[c] = "finished"
Returned(c) == ticket[c] = "done"

(* Safety, as one formula. *)
TransportsAreSilenced ==
    /\ [](/\ TypeOK /\ RepliesAreJournalled /\ JournalsFollowTheStream /\ RefusedTextsFail
         /\ NoThreadIsLeftBehind)
    /\ [][CancelledCallsAreSilent]_vars
=================================================================================
