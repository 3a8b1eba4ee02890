------------------------------ MODULE MCStorage ------------------------------
(****************************************************************************)
(* The components that keep something in a store, each for TLC on a small   *)
(* instance of its own. A behaviour is of one component (part); the         *)
(* variables of the others keep their initial values.                       *)
(****************************************************************************)
EXTENDS StoreProofs, TLC

CONSTANTS Parts,   \* the components a behaviour may be of
          c1, c2, i1, i2, e1, e2, k1, k2, d1, d2, s1, x, y

VARIABLE part  \* the component this behaviour is of

------------------------------------------------------------------------------
(* Two processes append and render over one journal. *)
ASSUME Journal!JournalAssumption

journalVars == <<jrecords, jphase, jrequest, janswer, jjob, progress, batch,
                 place, page, tail, told, appends, renders, shown>>

WritesOf(as, edits) == [kind |-> "write", as |-> as, edits |-> edits]

EditOf(key, expected, data) == [key |-> key, expected |-> expected, data |-> data]

(* Reads, single and double edits, of the project, a member and a stranger, *)
(* and changes of the membership.                                           *)
AskedOfTheProject ==
    [kind : {"read"}, as : {s1, Project}, key : {k1}]
      \cup [kind : {"observe"}, as : {s1, Elsewhere}, key : {k2}]
      \cup {WritesOf(s1, <<EditOf(k1, n, d1)>>) : n \in 0..1}
      \cup {WritesOf(s1, <<EditOf(k1, 0, d1), EditOf(k2, 0, d2)>>),
            WritesOf(Project, <<EditOf(k2, 0, d1), EditOf(k1, 1, d2)>>),
            WritesOf(Elsewhere, <<EditOf(k1, 0, d2)>>),
            WritesOf(Project, <<EditOf(k1, 0, d1), EditOf(k1, 1, d2)>>)}
      \cup [kind : {"set"}, as : {Project}, session : {s1}, expected : 0..2, active : BOOLEAN]
      \cup {[kind |-> "set", as |-> Elsewhere, session |-> s1, expected |-> 0, active |-> TRUE]}
      \cup [kind : {"get"}, as : {s1, Elsewhere}, session : {s1}]

ASSUME Members!ProjectStorageAssumption

ASSUME Members!AskedAssumption

projectVars == <<past, shape, held, call, answers>>

Cited(v) == <<[source |-> "src", version |-> v]>>

Fact(id, revision, from, until, withdrawn, sources) ==
    [id |-> id, revision |-> revision, from |-> from, until |-> until,
     withdrawn |-> withdrawn, sources |-> sources]

Always == -1

(* Facts with and without an end, corrections, a withdrawal, and facts that *)
(* cite the source wrongly, twice or not at all.                            *)
SomeFacts ==
    {Fact(x, 1, 1, 2, FALSE, Cited(1)), Fact(x, 2, 2, Always, FALSE, Cited(2)),
     Fact(x, 2, 1, 3, FALSE, Cited(1)),
     Fact(x, 2, 3, Always, TRUE, Cited(1)), Fact(x, 3, 3, Always, FALSE, Cited(1)),
     Fact(y, 1, 1, Always, FALSE, Cited(2)), Fact(y, 1, 2, 2, FALSE, Cited(1)),
     Fact(y, 1, 1, Always, FALSE, Cited(1) \o Cited(2)), Fact(y, 1, 1, Always, FALSE, <<>>)}

ASSUME Ledger!EvidenceAssumption

ASSUME Ledger!FactsAssumption

evidenceVars == <<ledger, version, active, grants, ecall, eanswered>>

Checkpoint(id, revision, parent, cites) ==
    [id |-> id, revision |-> revision, parent |-> parent, cites |-> cites]

(* Checkpoints that start a line or follow, and those that must be refused  *)
(* on some line or on each: that name the wrong parent or themselves, skip  *)
(* a revision, or come back with other citations. All are put and published.*)
Offered ==
    {Checkpoint(i1, 1, NoCheckpoint, {e1}), Checkpoint(i1, 1, NoCheckpoint, {e2}),
     Checkpoint(i2, 1, NoCheckpoint, {e1}), Checkpoint(i2, 2, i1, {e2}),
     Checkpoint(i2, 2, NoCheckpoint, {e1}), Checkpoint(i2, 3, i1, {e1}),
     Checkpoint(i2, 2, i2, {e2})}

AskedOfTheLine ==
    [kind : {"put", "publish"}, checkpoint : Offered]
      \cup [kind : {"get"}, id : {i1, i2}] \cup {[kind |-> "latest"]}

ASSUME Line!StoreAssumption

ASSUME Line!AskedAssumption

checkpointsVars == <<line, lost, ccall, created, canswered>>

ASSUME Catalogue!CacheAssumption

catalogueVars == <<entries, nextRevision, now, credential, offered, inFlight,
                   accepted>>

------------------------------------------------------------------------------
(* A behaviour is of one part. The parts share no variable, so running them *)
(* side by side would add interleavings that no property tells apart.       *)
MCInit ==
    /\ part \in Parts
    /\ Members!Init /\ (part # "project" => shape = "none")
    /\ Journal!Init /\ Ledger!Init /\ Line!Init
    /\ Init /\ Catalogue!Init

JournalStep ==
    /\ part = "journal" /\ Journal!Next
    /\ UNCHANGED <<part, projectVars, evidenceVars, checkpointsVars,
                   vars, catalogueVars>>

MembersStep ==
    /\ part = "project" /\ Members!Next
    /\ UNCHANGED <<part, journalVars, evidenceVars, checkpointsVars,
                   vars, catalogueVars>>

EvidenceStep ==
    /\ part = "evidence" /\ Ledger!Next
    /\ UNCHANGED <<part, journalVars, projectVars, checkpointsVars, vars,
                   catalogueVars>>

CheckpointsStep ==
    /\ part = "checkpoints" /\ Line!Next
    /\ UNCHANGED <<part, journalVars, projectVars, evidenceVars, vars,
                   catalogueVars>>

FilesStep ==
    /\ part = "files" /\ Next
    /\ UNCHANGED <<part, journalVars, projectVars, evidenceVars,
                   checkpointsVars, catalogueVars>>

CatalogueStep ==
    /\ part = "catalogue" /\ Catalogue!Next
    /\ UNCHANGED <<part, journalVars, projectVars, evidenceVars,
                   checkpointsVars, vars>>

MCNext ==
    \/ JournalStep \/ MembersStep \/ EvidenceStep \/ CheckpointsStep
    \/ FilesStep \/ CatalogueStep

allVars == <<part, journalVars, projectVars, evidenceVars, checkpointsVars,
             vars, catalogueVars>>

MCSpec == MCInit /\ [][MCNext]_allVars

(* The callers of a store are interchangeable in every part. *)
Interchangeable ==
    Permutations({c1, c2})

==============================================================================
