------------------------------ MODULE ProjectStorage ------------------------------
(***************************************************************************)
(* The project storage plugin: the records of a project and the sessions   *)
(* that are members of it, in one SQLite file that several processes open. *)
(* A host that holds the project's resource may change the membership and  *)
(* read or write the records; a call on behalf of a session may do so only *)
(* while the session is an active member.  Source: the crate               *)
(* phenix-plugin-project-storage-sqlite.                                   *)
(*                                                                         *)
(* One action is one SQL statement or one handler step, because another    *)
(* process may commit between any two of them.  SQLite's promises are      *)
(* taken as documented: one writer at a time after BEGIN IMMEDIATE, and a  *)
(* deferred transaction reads one committed state.  There is one project;  *)
(* what belongs to another project is the resource Elsewhere.              *)
(***************************************************************************)
EXTENDS Integers, Sequences, SequencesExt, FiniteSets

CONSTANTS Callers,      \* calls in flight, each on a connection of its own
          Sessions, Keys, Values,
          Project, Elsewhere,   \* the project's resource and any other one
          Asked,        \* the requests that are made
          MaxRevision,  \* bound on the revision a caller expects
          MaxCommits    \* bound on committed transactions

ProjectStorageAssumption ==
    /\ MaxRevision \in Nat /\ MaxCommits \in Nat /\ Values # {}
    /\ Project \notin Sessions /\ Elsewhere \notin Sessions \cup {Project}

VARIABLES past,     \* every committed state of the database, oldest first
          shape,    \* what the file's project_records table looks like
          lock,     \* the caller inside BEGIN IMMEDIATE, or {}
          call,     \* call[c]: what c asked for and how far it is
          answers   \* the answer the last step gave, if it gave one

vars == <<past, shape, lock, call, answers>>

Never == [revision |-> 0, active |-> FALSE]
Missing == [revision |-> 0, data |-> CHOOSE v \in Values : TRUE]

Databases == [member : [Sessions -> [revision : Nat, active : BOOLEAN]],
              records : [Keys -> [revision : Nat, data : Values]]]

Edits == [key : Keys, expected : 0..MaxRevision, data : Values]

Requests ==
    [kind : {"read", "observe"}, as : Sessions \cup {Project, Elsewhere}, key : Keys]
      \cup [kind : {"write"}, as : Sessions \cup {Project, Elsewhere},
            edits : UNION {[1..n -> Edits] : n \in 1..2}]
      \cup [kind : {"set"}, as : {Project, Elsewhere}, session : Sessions,
            expected : 0..MaxRevision, active : BOOLEAN]
      \cup [kind : {"get"}, as : Sessions \cup {Elsewhere}, session : Sessions]

AskedAssumption == Asked \subseteq Requests

Steps == {"idle", "opening", "open", "authorized", "written", "committed"}

Idle == [step |-> "idle"]

(* The state a new connection sees. *)
Committed == Last(past)

DistinctKeys(edits) == \A i, j \in DOMAIN edits : edits[i].key = edits[j].key => i = j

-------------------------------------------------------------------------------
Init ==
    /\ past = <<[member |-> [s \in Sessions |-> Never],
                 records |-> [k \in Keys |-> Missing]]>>
    /\ shape \in {"none", "ok", "foreign"}
    /\ lock = {}
    /\ call = [c \in Callers |-> Idle]
    /\ answers = {}

(* The call of c ends: an open transaction is rolled back by its drop. *)
Leave(c, answer) ==
    /\ call' = [call EXCEPT ![c] = Idle]
    /\ lock' = lock \ {c}
    /\ answers' = answer

Answer(c, result) ==
    [request |-> call[c].request, since |-> call[c].since, result |-> result]

Unanswered == answers' = {}

GoTo(c, step) == call' = [call EXCEPT ![c].step = step]

(* Which requests the handlers refuse before they open the database. *)
Entitled(request) ==
    CASE request.kind = "set"   -> request.as = Project
      [] request.kind = "get"   -> request.as = request.session
      [] request.kind = "write" -> request.as # Elsewhere /\ DistinctKeys(request.edits)
      [] OTHER                  -> TRUE

(* A handler is entered: the request is validated, a refusal changes       *)
(* nothing and is not tracked further.                                     *)
Ask(c, request) ==
    /\ call[c] = Idle
    /\ Entitled(request)
    /\ call' = [call EXCEPT ![c] = [step |-> "opening", request |-> request,
                                    since |-> Len(past), view |-> Head(past)]]
    /\ UNCHANGED <<past, shape, lock>>
    /\ Unanswered

(* open: the tables are created when they are missing, and a table of      *)
(* another shape is refused.                                               *)
Open(c) ==
    /\ call[c].step = "opening"
    /\ shape # "foreign"
    /\ shape' = "ok"
    /\ GoTo(c, "open")
    /\ UNCHANGED <<past, lock>>
    /\ Unanswered

Reads == {"read", "observe"}

(* The first statement of a deferred transaction: the membership is read   *)
(* and everything the transaction reads later is of the same state.        *)
Authorize(c) ==
    /\ call[c].step = "open" /\ call[c].request.kind \in Reads
    /\ \/ call[c].request.as = Project
       \/ call[c].request.as \in Sessions
            /\ Committed.member[call[c].request.as].active
    /\ call' = [call EXCEPT ![c].step = "authorized", ![c].view = Committed]
    /\ UNCHANGED <<past, shape, lock>>
    /\ Unanswered

(* The record of an authorized reader; observe answers the revision and    *)
(* the digest of the data, which stands for the data.                      *)
Select(c) ==
    /\ call[c].step = "authorized" /\ call[c].request.kind \in Reads
    /\ call[c].view.records[call[c].request.key].revision # 0
    /\ Leave(c, {Answer(c, call[c].view.records[call[c].request.key])})
    /\ UNCHANGED <<past, shape>>

(* A session asks for its own membership: one statement, active rows only. *)
Get(c) ==
    /\ call[c].step = "open" /\ call[c].request.kind = "get"
    /\ Committed.member[call[c].request.session].active
    /\ Leave(c, {Answer(c, Committed.member[call[c].request.session])})
    /\ UNCHANGED <<past, shape>>

(* Fault: the transaction is deferred, so that no lock protects its reads. *)
BeginDeferred(c) ==
    /\ call[c].step = "open" /\ call[c].request.kind \in {"write", "set"}
    /\ call' = [call EXCEPT ![c].step = "authorized", ![c].view = Committed]
    /\ UNCHANGED <<past, shape, lock>>
    /\ Unanswered

(* BEGIN IMMEDIATE of a writer: it waits for the other writer. *)
Begin(c) ==
    /\ call[c].step = "open" /\ call[c].request.kind \in {"write", "set"}
    /\ lock = {}
    /\ lock' = {c}
    /\ call' = [call EXCEPT ![c].step = "authorized", ![c].view = Committed]
    /\ UNCHANGED <<past, shape>>
    /\ Unanswered

(* Fault: an inactive membership entitles a session to write. *)
MemberOnce(view, as) == as \in Sessions => view.member[as].revision > 0

(* The project's own resource, or an active membership. *)
MayWrite(view, as) == as \in Sessions => view.member[as].active

Matches(view, edits) == \A i \in DOMAIN edits :
    view.records[edits[i].key].revision = edits[i].expected

(* transact_scoped: the membership check and every edit in the open        *)
(* transaction.  The edits have distinct keys, so each is compared with    *)
(* the state the transaction began with.                                   *)
Write(c) ==
    /\ call[c].step = "authorized" /\ call[c].request.kind = "write"
    /\ LET view == call[c].view  edits == call[c].request.edits
           written(k) == {i \in DOMAIN edits : edits[i].key = k}
           after(k) == LET i == CHOOSE i \in written(k) : TRUE
                       IN  [revision |-> edits[i].expected + 1, data |-> edits[i].data]
       IN  /\ MayWrite(view, call[c].request.as)
           /\ Matches(view, edits)
           /\ call' = [call EXCEPT ![c].step = "written",
                 ![c].view.records = [k \in Keys |->
                     IF written(k) = {} THEN view.records[k] ELSE after(k)]]
    /\ UNCHANGED <<past, shape, lock>>
    /\ Unanswered

(* set_membership: a compare-and-swap on the membership's revision.  What  *)
(* was never granted cannot be revoked.                                    *)
Set(c) ==
    /\ call[c].step = "authorized" /\ call[c].request.kind = "set"
    /\ LET request == call[c].request  old == call[c].view.member[request.session] IN
         /\ old.revision = request.expected
         /\ ~ (old.revision = 0 /\ ~ request.active)
         /\ call' = [call EXCEPT ![c].step = "written",
                ![c].view.member[request.session] =
                    [revision |-> request.expected + 1, active |-> request.active]]
    /\ UNCHANGED <<past, shape, lock>>
    /\ Unanswered

Commit(c) ==
    /\ call[c].step = "written"
    /\ Len(past) <= MaxCommits
    /\ past' = Append(past, call[c].view)
    /\ lock' = lock \ {c}
    /\ GoTo(c, "committed")
    /\ UNCHANGED shape
    /\ Unanswered

(* The caller learns of its commit: the revisions its request now has. *)
Acknowledge(c) ==
    /\ call[c].step = "committed"
    /\ Leave(c, {Answer(c, "done")})
    /\ UNCHANGED <<past, shape>>

(* Any error ends the call without an answer that is tracked: a refusal, a *)
(* conflict, a missing record, a busy timeout, a failed statement, a kill  *)
(* of the process, or an answer that is lost after its commit.             *)
Fail(c) ==
    /\ call[c] # Idle
    /\ Leave(c, {})
    /\ UNCHANGED <<past, shape>>

Next ==
    \E c \in Callers :
        \/ \E request \in Asked : Ask(c, request)
        \/ Open(c) \/ Authorize(c) \/ Select(c) \/ Get(c)
        \/ Begin(c) \/ Write(c) \/ Set(c) \/ Commit(c) \/ Acknowledge(c) \/ Fail(c)

Spec == Init /\ [][Next]_vars

-------------------------------------------------------------------------------
TypeOK ==
    /\ past \in Seq(Databases) /\ past # <<>>
    /\ shape \in {"none", "ok", "foreign"}
    /\ lock \subseteq Callers
    /\ \A c \in Callers : call[c] = Idle \/
         /\ call[c].step \in Steps
         /\ call[c].request \in Requests /\ Entitled(call[c].request)
         /\ call[c].since \in DOMAIN past /\ call[c].view \in Databases
    /\ \A a \in answers : a.request \in Requests /\ a.since \in DOMAIN past
    (* Exactly the writers inside their transaction hold the lock. *)
    /\ lock = {c \in Callers : call[c] # Idle /\ call[c].request.kind \in {"write", "set"}
                                 /\ call[c].step \in {"authorized", "written"}}

(* The two committed states a transaction lies between. *)
Changes == {i \in DOMAIN past : i + 1 \in DOMAIN past}

MembershipOf(i, s) == past[i].member[s]

(* What a session reads, it was entitled to read: some one committed state *)
(* no older than the call has the session as an active member and holds    *)
(* exactly the record that was answered.  A revocation between the         *)
(* membership check and the read never shows the reader later data         *)
(* ("freeze authorization and record data in the same snapshot").          *)
ReadsAreOfOneState ==
    \A a \in answers : a.request.kind \in Reads /\ a.request.as \in Sessions =>
        \E i \in a.since..Len(past) :
            /\ MembershipOf(i, a.request.as).active
            /\ past[i].records[a.request.key] = a.result

(* A commit never loses one that came before it: each one raises the       *)
(* revision of what it changes by exactly one, and changes records or a    *)
(* membership, never both.                                                 *)
NothingIsOverwritten ==
    \A i \in Changes :
        LET keys == {k \in Keys : past[i].records[k] # past[i+1].records[k]}
            sessions == {s \in Sessions : MembershipOf(i, s) # MembershipOf(i+1, s)}
        IN  /\ \A k \in keys : past[i+1].records[k].revision = past[i].records[k].revision + 1
            /\ \A s \in sessions : MembershipOf(i+1, s).revision = MembershipOf(i, s).revision + 1
            /\ keys = {} \/ sessions = {}

(* An acknowledged change is in the history, whole, at one place after the *)
(* call was made: all the edits of a write, with the writer an active      *)
(* member of the state they replaced, or the change of a membership.       *)
AcknowledgedChangesAreWhole ==
    \A a \in answers : a.request.kind \in {"write", "set"} =>
        \E i \in Changes : i >= a.since /\
            IF a.request.kind = "set"
            THEN /\ MembershipOf(i, a.request.session).revision = a.request.expected
                 /\ MembershipOf(i+1, a.request.session) =
                      [revision |-> a.request.expected + 1, active |-> a.request.active]
            ELSE /\ a.request.as \in Sessions => MembershipOf(i, a.request.as).active
                 /\ \A e \in Range(a.request.edits) :
                      /\ past[i].records[e.key].revision = e.expected
                      /\ past[i+1].records[e.key] =
                           [revision |-> e.expected + 1, data |-> e.data]

(* The membership a session is told of was active at some moment of its    *)
(* call, and a session is told of no other session's.                      *)
MembersAreTold ==
    \A a \in answers : a.request.kind = "get" =>
        \E i \in a.since..Len(past) :
            a.result = MembershipOf(i, a.request.as) /\ a.result.active

(* Revocation stops writing: a call of a session that is still to commit   *)
(* has the session as an active member of the database as it stands, so    *)
(* that no revocation lies between its check and its commit.               *)
RevocationStopsWrites ==
    \A c \in Callers :
        call[c] # Idle /\ call[c].step = "written" /\ call[c].request.kind = "write"
          /\ call[c].request.as \in Sessions
        => Committed.member[call[c].request.as].active

(* All of it, in every state. *)
ProjectIsSerializable ==
    /\ TypeOK /\ ReadsAreOfOneState /\ NothingIsOverwritten
    /\ AcknowledgedChangesAreWhole /\ MembersAreTold /\ RevocationStopsWrites

===============================================================================
