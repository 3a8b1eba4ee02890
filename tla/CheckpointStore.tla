------------------------------ MODULE CheckpointStore ------------------------------
(***************************************************************************)
(* The store of compaction checkpoints of one session, and publication     *)
(* through it.  The checkpoints form one line, kept in one record of the   *)
(* selected storage and appended to by compare-and-swap; a checkpoint is   *)
(* answered or appended only after the events that it and each of its      *)
(* ancestors cite were read from the journal again and found unchanged.    *)
(* A publisher looks at the newest checkpoint, puts its own on top and     *)
(* reads it back.  Sources: phenix-plugin-compaction-checkpoints and       *)
(* phenix-p2-compaction-replay (publish.rs).                               *)
(*                                                                         *)
(* One action is one call to an import: the storage and the journal may    *)
(* change between any two.  The revision of the record is the length of    *)
(* the line, which load demands.                                           *)
(***************************************************************************)
EXTENDS Integers, Sequences, SequencesExt, FiniteSets

CONSTANTS Callers, Ids, NoId,
          Events,     \* the events of the journal that can be cited
          Citations,  \* the sets of events a checkpoint may cite
          Asked,      \* the requests that are made
          MaxLine,    \* the capacity of the line (256 in the code)
          MaxLost     \* bound on the events that are erased or altered

StoreAssumption ==
    /\ NoId \notin Ids /\ MaxLine \in Nat /\ MaxLost \in Nat
    /\ \A cited \in Citations : cited \subseteq Events

VARIABLES line,     \* the stored checkpoints, the oldest first
          lost,     \* events that are no longer what was cited
          call,     \* call[c]: the request of caller c and how far it is
          created,  \* created[id]: publications that claim to have created id
          answered  \* the answer the last step gave, if it gave one

vars == <<line, lost, call, created, answered>>

Checkpoints == [id : Ids, revision : 1..MaxLine + 1, parent : Ids \cup {NoId}, cites : Citations]

Requests == [kind : {"put", "publish"}, checkpoint : Checkpoints]
              \cup [kind : {"get"}, id : Ids] \cup {[kind |-> "latest"]}

AskedAssumption == Asked \subseteq Requests

Idle == [step |-> "idle"]

IdsOf(history) == {history[i].id : i \in DOMAIN history}
HeadId(history) == IF history = <<>> THEN NoId ELSE Last(history).id

-------------------------------------------------------------------------------
(* The line *)

(* validate_checkpoint: none is its own parent. *)
IsValid(cp) == cp.parent # cp.id

(* validate_ledger *)
ValidLedger(history) ==
    /\ Len(history) <= MaxLine
    /\ \A i \in DOMAIN history :
          /\ IsValid(history[i])
          /\ history[i].revision = i
          /\ history[i].parent = HeadId(SubSeq(history, 1, i - 1))
          /\ history[i].id \notin IdsOf(SubSeq(history, 1, i - 1))

(* Fault: the revision is checked, and the parent is taken as it comes. *)
AppendableAnyParent(history, cp) ==
    /\ ValidLedger(history)
    /\ cp.id \notin IdsOf(history) /\ IsValid(cp)
    /\ Len(history) < MaxLine
    /\ cp.revision = Len(history) + 1

(* append_checkpoint *)
Appendable(history, cp) ==
    /\ ValidLedger(history)
    /\ cp.id \notin IdsOf(history) /\ IsValid(cp)
    /\ Len(history) < MaxLine
    /\ cp.revision = Len(history) + 1
    /\ cp.parent = HeadId(history)

(* verify_checkpoint_ancestry: a checkpoint and all that came before it. *)
Ancestry(history, id) ==
    SubSeq(history, 1, CHOOSE i \in DOMAIN history : history[i].id = id)

(* verify_journal: one read of the journal. *)
IsIntact(cp) == cp.cites \cap lost = {}

-------------------------------------------------------------------------------
Init == /\ line = <<>> /\ lost = {}
        /\ call = [c \in Callers |-> Idle]
        /\ created = [id \in Ids |-> 0]
        /\ answered = {}

Lose == /\ Cardinality(lost) < MaxLost
        /\ \E e \in Events \ lost : lost' = lost \cup {e}
        /\ answered' = {}
        /\ UNCHANGED <<line, call, created>>

(* The store call a request makes next: a publication makes three. *)
StoreCall(r, phase) ==
    CASE r.kind # "publish" -> r
      [] r.kind = "publish" /\ phase \in {"head", "readback"} -> [kind |-> "latest"]
      [] r.kind = "publish" /\ phase = "put" -> [kind |-> "put", checkpoint |-> r.checkpoint]

(* The last three fields are witnesses for the properties: what was lost   *)
(* and how long the line was when the call began, what was lost when its   *)
(* checkpoint was stored.                                                  *)
Begin(request, phase) ==
    [step |-> "asked", request |-> request, phase |-> phase, now |-> StoreCall(request, phase),
     id |-> NoId, history |-> <<>>, left |-> <<>>,
     known |-> lost, since |-> Len(line), atSwap |-> {}]

(* Anyone may put or publish anything: what does not fit is for the store  *)
(* to refuse.                                                              *)
Ask(c, request) ==
    /\ call[c] = Idle
    /\ call' = [call EXCEPT ![c] = Begin(request, "head")]
    /\ answered' = {}
    /\ UNCHANGED <<line, lost, created>>

(* load, and the choice of the checkpoint the call is about. *)
Loaded(c, history, id) ==
    call' = [call EXCEPT ![c].step = "loaded", ![c].id = id, ![c].history = history,
                         ![c].left = Ancestry(history, id)]

Load(c) ==
    /\ call[c].step = "asked"
    /\ ValidLedger(line)
    /\ LET now == call[c].now IN
         \/ /\ now.kind = "latest" /\ line # <<>>
            /\ Loaded(c, line, Last(line).id)
         \/ /\ now.kind = "get" /\ now.id \in IdsOf(line)
            /\ Loaded(c, line, now.id)
         \/ /\ now.kind = "put" /\ Appendable(line, now.checkpoint)
            /\ Loaded(c, Append(line, now.checkpoint), now.checkpoint.id)
    /\ answered' = {}
    /\ UNCHANGED <<line, lost, created>>

(* verify_source_ancestry: one ancestor, the oldest first. *)
Verify(c) ==
    /\ call[c].step = "loaded" /\ call[c].left # <<>>
    /\ IsIntact(Head(call[c].left))
    /\ call' = [call EXCEPT ![c].left = Tail(@)]
    /\ answered' = {}
    /\ UNCHANGED <<line, lost, created>>

Verified(c) == call[c].step = "loaded" /\ call[c].left = <<>>

(* The compare-and-swap of put. *)
Swap(c) ==
    /\ Verified(c) /\ call[c].now.kind = "put"
    /\ Len(line) = Len(call[c].history) - 1
    /\ line' = call[c].history
    /\ call' = [call EXCEPT ![c].step = "stored", ![c].atSwap = lost]
    /\ answered' = {}
    /\ UNCHANGED <<lost, created>>

(* The answer of the store call under way. *)
Result(c) ==
    IF Verified(c) /\ call[c].now.kind # "put" THEN {Last(Ancestry(call[c].history, call[c].id))}
    ELSE IF call[c].step = "stored" THEN {Last(call[c].history)}
    ELSE {}

(* An empty line has no newest checkpoint, which a publisher may expect. *)
IsEmpty(c) == call[c].step = "asked" /\ call[c].now.kind = "latest" /\ line = <<>>

(* get, latest and put answer their caller. *)
Answer(c, checkpoint, isNew) ==
    /\ call' = [call EXCEPT ![c] = Idle]
    /\ answered' = {[caller |-> c, call |-> call[c], checkpoint |-> checkpoint, created |-> isNew]}
    /\ created' = [created EXCEPT ![checkpoint.id] = @ + (IF isNew THEN 1 ELSE 0)]

Reply(c) ==
    /\ call[c].step # "idle" /\ call[c].request.kind # "publish"
    /\ \E cp \in Result(c) : Answer(c, cp, FALSE)
    /\ UNCHANGED <<line, lost>>

GoOn(c, phase) ==
    call' = [call EXCEPT ![c] = [Begin(@.request, phase) EXCEPT !.known = call[c].known,
                                    !.since = call[c].since, !.atSwap = call[c].atSwap]]

(* publish_verified_checkpoint: the newest checkpoint is the candidate,    *)
(* or its parent, or there is none and the candidate is the first.  (An    *)
(* invalid candidate is refused before the head is read, which changes     *)
(* nothing.)                                                               *)
FindHead(c) ==
    /\ call[c].step # "idle" /\ call[c].request.kind = "publish" /\ call[c].phase = "head"
    /\ IsValid(call[c].request.checkpoint)
    /\ LET candidate == call[c].request.checkpoint IN
         \/ /\ Result(c) = {candidate}
            /\ Answer(c, candidate, FALSE)
         \/ /\ \E head \in Result(c) : /\ head # candidate /\ candidate.parent = head.id
                                       /\ candidate.revision = head.revision + 1
            /\ GoOn(c, "put") /\ answered' = {} /\ UNCHANGED created
         \/ /\ IsEmpty(c) /\ candidate.revision = 1 /\ candidate.parent = NoId
            /\ GoOn(c, "put") /\ answered' = {} /\ UNCHANGED created
    /\ UNCHANGED <<line, lost>>

IsStored(c) ==
    /\ call[c].step # "idle" /\ call[c].request.kind = "publish" /\ call[c].phase = "put"
    /\ Result(c) = {call[c].request.checkpoint}

Settle(c) ==
    /\ IsStored(c)
    /\ GoOn(c, "readback") /\ answered' = {}
    /\ UNCHANGED <<line, lost, created>>

ReadBack(c) ==
    /\ call[c].step # "idle" /\ call[c].request.kind = "publish" /\ call[c].phase = "readback"
    /\ Result(c) = {call[c].request.checkpoint}
    /\ Answer(c, call[c].request.checkpoint, TRUE)
    /\ UNCHANGED <<line, lost>>

(* Any refusal, failing import or lost answer ends a call: nothing is      *)
(* tried again.                                                            *)
Fail(c) ==
    /\ call[c] # Idle
    /\ call' = [call EXCEPT ![c] = Idle]
    /\ answered' = {}
    /\ UNCHANGED <<line, lost, created>>

Next ==
    \/ Lose
    \/ \E c \in Callers :
         \/ \E request \in Asked : Ask(c, request)
         \/ Load(c) \/ Verify(c) \/ Swap(c) \/ Reply(c)
         \/ FindHead(c) \/ Settle(c) \/ ReadBack(c) \/ Fail(c)

Spec == Init /\ [][Next]_vars

-------------------------------------------------------------------------------
Steps == {"idle", "asked", "loaded", "stored"}

TypeOK ==
    /\ line \in Seq(Checkpoints) /\ Len(line) <= MaxLine
    /\ lost \subseteq Events
    /\ created \in [Ids -> Nat]
    /\ \A c \in Callers : call[c] # Idle =>
          /\ call[c].step \in Steps \ {"idle"} /\ call[c].request \in Requests
          /\ call[c].step = "loaded" => IsSuffix(call[c].left, call[c].history)
                                          \/ call[c].now.kind = "get"

(* Whatever callers put, publish and lose, the checkpoints stay one line:  *)
(* each is the child of the one before it, and an identity names one       *)
(* checkpoint ("a snapshot cannot repair missing checkpoint revisions,     *)
(* identity collisions or branched lineage").                              *)
LineIsLinear ==
    \A i \in DOMAIN line :
        /\ line[i].revision = i
        /\ line[i].parent = IF i = 1 THEN NoId ELSE line[i - 1].id
        /\ \A j \in DOMAIN line : line[i].id = line[j].id => i = j

(* No step removes or changes a stored checkpoint. *)
LineOnlyGrows == IsPrefix(line, line')

(* A checkpoint is answered, whether it was read, put or published, only   *)
(* if nothing that it or an ancestor cites was lost when the call began:   *)
(* erasing a source disables every checkpoint above it.                    *)
AnswersHadTheirSources ==
    \A a \in answered : \A i \in 1..a.checkpoint.revision :
        line[i].cites \cap a.call.known = {}

(* An answered checkpoint is stored at its place in the line, and the      *)
(* newest one is never passed over for an older one, not even when its     *)
(* source was lost.                                                        *)
AnswersAreOfTheLine ==
    \A a \in answered :
        /\ a.checkpoint.revision \in DOMAIN line
        /\ line[a.checkpoint.revision] = a.checkpoint
        /\ a.call.now.kind = "latest" => a.checkpoint.revision >= a.call.since

(* At most one publication of a checkpoint claims to have created it,      *)
(* although publishers race, lose answers and come back.                   *)
CheckpointsAreCreatedOnce ==
    \A id \in Ids : created[id] <= 1 /\ (created[id] = 1 => id \in IdsOf(line))

(* A publication that claims to have created a checkpoint has read its     *)
(* sources after it was stored: what was lost until then makes it fail.    *)
PublicationsAreReadBack ==
    \A a \in answered : a.created =>
        \A i \in 1..a.checkpoint.revision : line[i].cites \cap a.call.atSwap = {}

===============================================================================
