----------------------------- MODULE StoreProofs -----------------------------
(***************************************************************************)
(* The stores of the plugins: a credential that was acknowledged survives  *)
(* (CredentialFiles), the catalogues of the providers never go back        *)
(* (CatalogCache), the members of a project see and change one committed   *)
(* state at a time (ProjectStorage), the checkpoints of a session form a   *)
(* line (CheckpointStore), the ledger of evidence keeps what was           *)
(* acknowledged (EvidenceStore), and the journal of events is a log        *)
(* (EventJournal), for every set of processes, connections, callers and    *)
(* values.                                                                 *)
(***************************************************************************)
EXTENDS CredentialFiles, Integers, Sequences, FiniteSetTheorems, TLAPS

----------------------------------------------------------------------------
(***************************************************************************)
(* Proof.  The holder of the lock alone changes the directory, so what is  *)
(* known of it follows from where the holder is; and every directory that  *)
(* could survive is sound by itself.                                       *)
(***************************************************************************)

Recovering == {"recover", "unmark", "flush"}

\* From the comparison to the rename, and to the acknowledgement.
Staging == {"create", "write", "syncMarker", "syncMark", "link", "rename"}
Storing == {"stage"} \cup Staging \cup {"syncFile", "unlink", "syncDone"}

Labels == {"idle", "lock", "act", "remove", "syncRemoval", "failed"} \cup Recovering \cup Storing

Jobs ==
    {NoJob}
      \cup [op: {"open", "resolve", "revoke"}, profile: Profiles, expected: {Absent}, secret: {Absent}]
      \cup [op: {"store"}, profile: Profiles, expected: {Absent}, secret: Secrets]
      \cup [op: {"rotate"}, profile: Profiles, expected: Keys, secret: Keys]

Written(s) == [content |-> s, synced |-> TRUE]

Shapes ==
    /\ lock \in Processes \cup {Absent}
    /\ dir \in survivors /\ survivors \subseteq Directories
    /\ pc \in [Processes -> Labels]
    /\ next \in [Processes -> {"idle", "act", "remove", "failed"}]
    /\ job \in [Processes -> Jobs]
    /\ staged \in [Processes -> Files \cup {Absent}]
    /\ promised \in [Profiles -> Secrets \cup {Absent, Unknown}]

Exclusive == \A p \in Processes : pc[p] \notin {"idle", "lock"} <=> lock = p

Marked(d) == d.pending # Absent => d.marker = Written(Mark)

Durable(d) ==
    \A f \in Profiles : d.files[f] # Absent => \E s \in Secrets : d.files[f] = Written(s)

Keeps(d) ==
    \A f \in Profiles : promised[f] # Unknown =>
        d.files[f] = IF promised[f] = Absent THEN Absent ELSE Written(promised[f])

SurvivorsAreSound == \A d \in survivors : Marked(d) /\ Durable(d) /\ Keeps(d)

Progress(p) ==
    /\ pc[p] # "idle" => next[p] # "idle"
    /\ (next[p] = "remove" \/ pc[p] \in {"remove", "syncRemoval"}) => job[p].op = "revoke"
    /\ pc[p] \in Storing => job[p].op \in {"store", "rotate"}
    /\ pc[p] = "stage" => staged[p] = [content |-> job[p].secret, synced |-> FALSE]
    /\ pc[p] \in Staging => staged[p] = Written(job[p].secret)
    /\ pc[p] \in Labels \ {"idle", "lock", "recover", "rename"} => dir.pending = Absent
    /\ pc[p] \in {"write", "syncMarker"} => dir.marker # Absent
    /\ pc[p] \in {"syncMark", "link", "rename"} => dir.marker = Written(Mark)
    /\ pc[p] = "rename" => dir.pending = staged[p]
    /\ pc[p] \in {"syncFile", "unlink", "syncDone"} =>
          dir.files[job[p].profile] = Written(job[p].secret)
    /\ pc[p] = "syncRemoval" => dir.files[job[p].profile] = Absent
    /\ pc[p] \in {"stage"} \cup Staging /\ job[p].op = "rotate" =>
          Holds(job[p].profile, {job[p].expected})

ProgressOK == \A p \in Processes : Progress(p)

IInv == Shapes /\ Exclusive /\ SurvivorsAreSound /\ ProgressOK

LEMMA FileFacts ==
    /\ Absent \notin Processes /\ Absent \notin Files /\ Absent \notin Secrets
    /\ Absent # Unknown /\ Unknown \notin Secrets
    /\ \A s \in Secrets \cup {Mark, Torn}, b \in BOOLEAN :
          /\ [content |-> s, synced |-> b] \in Files /\ [content |-> s, synced |-> b] # Absent
          /\ [content |-> s, synced |-> b].content = s
          /\ [content |-> s, synced |-> b].synced = b
<1>1. /\ Absent \notin Processes /\ Absent \notin Files /\ Absent \notin Secrets
      /\ Absent # Unknown /\ Unknown \notin Secrets
  BY ValuesAssumption DEF Secrets
<1>2. \A s \in Secrets \cup {Mark, Torn}, b \in BOOLEAN : [content |-> s, synced |-> b] \in Files
  BY DEF Files
<1> QED BY <1>1, <1>2

LEMMA SyncedFacts ==
    ASSUME NEW file \in Files, NEW w \in Files, w.content = file.content, w.synced = TRUE
    PROVE  [file EXCEPT !.synced = TRUE] = w
<1>1. [file EXCEPT !.synced = TRUE] \in Files
  BY DEF Files
<1>2. [file EXCEPT !.synced = TRUE].content = w.content /\ [file EXCEPT !.synced = TRUE].synced = w.synced
  BY DEF Files
<1> HIDE DEF Files
<1> QED BY <1>1, <1>2 DEF Files

LEMMA JobFacts ==
    ASSUME NEW j \in Jobs
    PROVE  /\ j.op \in {"none", "open", "resolve", "revoke", "store", "rotate"}
           /\ j.secret \in Secrets \cup {Absent}
           /\ j.op = "revoke" => j.secret = Absent
           /\ j.op \in {"store", "rotate"} => j.secret \in Secrets
           /\ j.op # "none" => j.profile \in Profiles
           /\ j.op = "rotate" => j.expected \in Keys
  BY DEF Jobs, NoJob, Secrets

LEMMA DirectoryFacts ==
    ASSUME NEW d \in Directories
    PROVE  /\ d.marker \in Files \cup {Absent} /\ d.pending \in Files \cup {Absent}
           /\ d.files \in [Profiles -> Files \cup {Absent}]
           /\ \A m, q \in Files \cup {Absent}, fs \in [Profiles -> Files \cup {Absent}] :
                 [marker |-> m, pending |-> q, files |-> fs] \in Directories
           /\ d = [marker |-> d.marker, pending |-> d.pending, files |-> d.files]
  BY DEF Directories

(***************************************************************************)
(* What a change, and an fsync, of the directory keep.                     *)
(***************************************************************************)
DirectoryOK ==
    /\ dir \in survivors /\ survivors \subseteq Directories
    /\ promised \in [Profiles -> Secrets \cup {Absent, Unknown}]
    /\ SurvivorsAreSound

LEMMA ChangeKeepsSound ==
    ASSUME DirectoryOK, NEW d \in Directories, Marked(d), Durable(d), Change(d)
    PROVE  DirectoryOK'
<1>1. /\ dir' = d /\ survivors' = survivors \cup {d}
      /\ \A f \in Profiles : promised'[f] = IF d.files[f] = dir.files[f] THEN promised[f] ELSE Unknown
      /\ promised' \in [Profiles -> Secrets \cup {Absent, Unknown}]
  BY DEF Change, DirectoryOK
<1>2. \A c \in survivors : Marked(c) /\ Durable(c) /\ Keeps(c)
  BY DEF DirectoryOK, SurvivorsAreSound
<1>3. ASSUME NEW c \in survivors PROVE Keeps(c)'
  BY <1>1, <1>2, <1>3 DEF Keeps
<1>4. Keeps(d)'
  <2>1. Keeps(dir)
    BY <1>2 DEF DirectoryOK
  <2> QED BY ONLY <1>1, <2>1 DEF Keeps
<1>5. \A c \in survivors \cup {d} : Marked(c)' /\ Durable(c)'
  BY <1>2 DEF Marked, Durable
<1> QED BY <1>1, <1>3, <1>4, <1>5 DEF DirectoryOK, SurvivorsAreSound

LEMMA SyncKeepsSound ==
    ASSUME DirectoryOK, SyncDirectory
    PROVE  DirectoryOK'
<1>1. dir' = dir /\ survivors' = {dir} /\ promised' = promised
  BY DEF SyncDirectory
<1> QED BY <1>1 DEF DirectoryOK, SurvivorsAreSound, Marked, Durable, Keeps

LEMMA SameIsSound == ASSUME DirectoryOK, UNCHANGED directoryVars PROVE DirectoryOK'
  BY DEF directoryVars, DirectoryOK, SurvivorsAreSound, Marked, Durable, Keeps

(***************************************************************************)
(* What a step of one process keeps of the others, and of the lock.        *)
(***************************************************************************)
ControlOK ==
    /\ lock \in Processes \cup {Absent}
    /\ pc \in [Processes -> Labels]
    /\ next \in [Processes -> {"idle", "act", "remove", "failed"}]
    /\ job \in [Processes -> Jobs]
    /\ staged \in [Processes -> Files \cup {Absent}]
    /\ Exclusive

LEMMA IInvParts == IInv <=> ControlOK /\ DirectoryOK /\ ProgressOK
  BY DEF IInv, ControlOK, DirectoryOK, Shapes

LEMMA OthersKeep ==
    ASSUME ControlOK, ProgressOK, NEW p \in Processes, lock = p \/ dir' = dir,
           NEW q \in Processes, q # p,
           pc'[q] = pc[q], next'[q] = next[q], job'[q] = job[q], staged'[q] = staged[q]
    PROVE  Progress(q)'
<1>1. Progress(q)
  BY DEF ProgressOK
<1>2. CASE dir' = dir
  BY <1>1, <1>2 DEF Progress, Holds
<1>3. CASE lock = p
  <2>1. pc[q] \in {"idle", "lock"}
    BY <1>3 DEF ControlOK, Exclusive
  <2> QED BY <1>1, <2>1 DEF Progress, Holds, Storing, Staging
<1> QED BY <1>2, <1>3

\* A step inside an operation.
LEMMA StepKeeps ==
    ASSUME ControlOK, ProgressOK, NEW p \in Processes,
           NEW from \in Labels \ {"idle", "lock"}, NEW to \in Labels \ {"idle", "lock"},
           Step(p, from, to), Progress(p)'
    PROVE  ControlOK' /\ ProgressOK'
<1>1. /\ pc[p] = from /\ pc' = [pc EXCEPT ![p] = to]
      /\ lock' = lock /\ next' = next /\ job' = job /\ staged' = staged
  BY DEF Step, Goto, processVars
<1>2. lock = p
  BY <1>1 DEF ControlOK, Exclusive
<1>3. ControlOK'
  BY <1>1, <1>2 DEF ControlOK, Exclusive
<1>4. ASSUME NEW q \in Processes, q # p PROVE Progress(q)'
  <2>1. pc'[q] = pc[q]
    BY <1>1, <1>4 DEF ControlOK
  <2> QED BY <1>1, <1>2, <1>4, <2>1, OthersKeep
<1> QED BY <1>3, <1>4 DEF ProgressOK

\* The end of one, however it ends.
LEMMA LeaveKeeps ==
    ASSUME ControlOK, ProgressOK, NEW p \in Processes, Leave(p), lock = p \/ dir' = dir
    PROVE  ControlOK' /\ ProgressOK'
<1>1. /\ pc' = [pc EXCEPT ![p] = "idle"] /\ lock' = IF lock = p THEN Absent ELSE lock
      /\ next' = [next EXCEPT ![p] = "idle"] /\ job' = [job EXCEPT ![p] = NoJob]
      /\ staged' = [staged EXCEPT ![p] = Absent]
  BY DEF Leave, Goto
<1>2. ControlOK'
  BY <1>1, FileFacts DEF ControlOK, Exclusive, Labels, Jobs
<1>3. Progress(p)'
  <2>1. pc'[p] = "idle" /\ next'[p] = "idle"
    BY <1>1 DEF ControlOK
  <2> QED BY <2>1 DEF Progress, Storing, Staging
<1>4. ASSUME NEW q \in Processes, q # p PROVE Progress(q)'
  <2>1. pc'[q] = pc[q] /\ next'[q] = next[q] /\ job'[q] = job[q] /\ staged'[q] = staged[q]
    BY <1>1, <1>4 DEF ControlOK
  <2> QED BY <1>4, <2>1, OthersKeep
<1> QED BY <1>2, <1>3, <1>4 DEF ProgressOK

LEMMA ReturnKeeps ==
    ASSUME IInv, NEW p \in Processes, Return(p)
    PROVE  IInv'
<1>1. Leave(p) /\ UNCHANGED directoryVars
  BY DEF Return
<1>2. dir' = dir
  BY <1>1 DEF directoryVars
<1>3. ControlOK /\ DirectoryOK /\ ProgressOK
  BY IInvParts
<1>4. ControlOK' /\ ProgressOK'
  BY <1>1, <1>2, <1>3, LeaveKeeps
<1>5. DirectoryOK'
  BY <1>1, <1>3, SameIsSound
<1> QED BY <1>4, <1>5 DEF IInv, ControlOK, DirectoryOK, Shapes

(***************************************************************************)
(* The steps, one lemma for each group of actions.                         *)
(***************************************************************************)

\* A step inside an operation that leaves a sound directory behind.
LEMMA InsideKeeps ==
    ASSUME IInv, NEW p \in Processes,
           NEW from \in Labels \ {"idle", "lock"}, NEW to \in Labels \ {"idle", "lock"},
           Step(p, from, to), Progress(p)', DirectoryOK'
    PROVE  IInv'
<1>1. ControlOK' /\ ProgressOK'
  BY IInvParts, StepKeeps
<1> QED BY <1>1 DEF IInv, ControlOK, DirectoryOK, Shapes

LEMMA HereFacts ==
    ASSUME IInv, NEW p \in Processes
    PROVE  /\ Progress(p) /\ DirectoryOK /\ dir \in Directories
           /\ Marked(dir) /\ Durable(dir) /\ Keeps(dir)
           /\ job[p] \in Jobs /\ staged[p] \in Files \cup {Absent}
           /\ next[p] \in {"idle", "act", "remove", "failed"}
           /\ pc[p] \in Labels
  BY IInvParts DEF IInv, Shapes, SurvivorsAreSound, ProgressOK

LEMMA StepFacts ==
    ASSUME IInv, NEW p \in Processes, NEW from, NEW to, Step(p, from, to)
    PROVE  /\ pc[p] = from /\ pc'[p] = to
           /\ next'[p] = next[p] /\ job'[p] = job[p] /\ staged'[p] = staged[p]
  BY DEF IInv, Shapes, Step, Goto, processVars

LEMMA RecoverKeeps ==
    ASSUME IInv, NEW p \in Processes, Recover(p)
    PROVE  IInv'
<1> USE HereFacts
<1>1. CASE pc[p] \in {"recover", "unmark", "flush"} /\ Return(p)
  BY <1>1, ReturnKeeps
<1>2. CASE /\ ~ShortMarker /\ ~OrphanedPending(dir)
           /\ Step(p, "recover", "unmark") /\ Change([dir EXCEPT !.pending = Absent])
  <2> DEFINE d == [dir EXCEPT !.pending = Absent]
  <2>1. /\ d = [marker |-> dir.marker, pending |-> Absent, files |-> dir.files]
        /\ d.pending = Absent /\ d.marker = dir.marker /\ d.files = dir.files
    BY DirectoryFacts
  <2>2. d \in Directories
    BY <2>1, DirectoryFacts
  <2> HIDE DEF d
  <2>3. Marked(d) /\ Durable(d)
    BY <2>1 DEF Marked, Durable
  <2>4. Change(d)
    BY <1>2 DEF d
  <2>5. DirectoryOK' /\ dir' = d
    BY <2>2, <2>3, <2>4, ChangeKeepsSound DEF Change
  <2>6. Progress(p)'
    BY <1>2, <2>1, <2>5, StepFacts DEF Progress, Holds, Storing, Staging
  <2> QED BY <1>2, <2>5, <2>6, InsideKeeps DEF Labels, Recovering
<1>3. CASE /\ dir.marker # Absent
           /\ Step(p, "unmark", "flush") /\ Change([dir EXCEPT !.marker = Absent])
  <2> DEFINE d == [dir EXCEPT !.marker = Absent]
  <2>1. /\ d = [marker |-> Absent, pending |-> dir.pending, files |-> dir.files]
        /\ d.pending = dir.pending /\ d.marker = Absent /\ d.files = dir.files
    BY DirectoryFacts
  <2>2. d \in Directories
    BY <2>1, DirectoryFacts
  <2> HIDE DEF d
  <2>3. dir.pending = Absent
    <3>1. pc[p] = "unmark" /\ Progress(p)
      BY <1>3, StepFacts
    <3> QED BY ONLY <3>1 DEF Progress, Labels, Recovering
  <2>4. Marked(d) /\ Durable(d)
    BY <2>1, <2>3 DEF Marked, Durable
  <2>5. Change(d)
    BY <1>3 DEF d
  <2>6. DirectoryOK' /\ dir' = d
    BY <2>2, <2>4, <2>5, ChangeKeepsSound DEF Change
  <2>7. Progress(p)'
    BY <1>3, <2>1, <2>3, <2>6, StepFacts DEF Progress, Holds, Storing, Staging
  <2> QED BY <1>3, <2>6, <2>7, InsideKeeps DEF Labels, Recovering
<1>4. CASE /\ dir.marker = Absent
           /\ Step(p, "unmark", next[p]) /\ UNCHANGED directoryVars
  <2>1. DirectoryOK' /\ dir' = dir
    BY <1>4, SameIsSound DEF directoryVars
  <2>2. pc[p] = "unmark" /\ next[p] \in {"act", "remove", "failed"} /\ dir.pending = Absent
    <3>1. pc[p] = "unmark" /\ Progress(p) /\ next[p] \in {"idle", "act", "remove", "failed"}
      BY <1>4, StepFacts
    <3> QED BY ONLY <3>1 DEF Progress, Labels, Recovering
  <2>3. Progress(p)'
    BY <1>4, <2>1, <2>2, StepFacts DEF Progress, Holds, Storing, Staging
  <2> QED BY <1>4, <2>1, <2>2, <2>3, InsideKeeps DEF Labels, Recovering
<1>5. CASE Step(p, "flush", next[p]) /\ SyncDirectory
  <2>1. DirectoryOK' /\ dir' = dir
    BY <1>5, SyncKeepsSound DEF SyncDirectory
  <2>2. pc[p] = "flush" /\ next[p] \in {"act", "remove", "failed"} /\ dir.pending = Absent
    <3>1. pc[p] = "flush" /\ Progress(p) /\ next[p] \in {"idle", "act", "remove", "failed"}
      BY <1>5, StepFacts
    <3> QED BY ONLY <3>1 DEF Progress, Labels, Recovering
  <2>3. Progress(p)'
    BY <1>5, <2>1, <2>2, StepFacts DEF Progress, Holds, Storing, Staging
  <2> QED BY <1>5, <2>1, <2>2, <2>3, InsideKeeps DEF Labels, Recovering
<1> QED BY <1>1, <1>2, <1>3, <1>4, <1>5 DEF Recover

\* A step that leaves the directory alone.
LEMMA QuietKeeps ==
    ASSUME IInv, NEW p \in Processes, UNCHANGED directoryVars, ControlOK', Progress(p)',
           \A q \in Processes \ {p} : /\ pc'[q] = pc[q] /\ next'[q] = next[q]
                                      /\ job'[q] = job[q] /\ staged'[q] = staged[q]
    PROVE  IInv'
<1>1. DirectoryOK' /\ dir' = dir
  BY IInvParts, SameIsSound DEF directoryVars
<1>2. ASSUME NEW q \in Processes, q # p PROVE Progress(q)'
  BY <1>1, <1>2, IInvParts, OthersKeep
<1> QED BY <1>1, <1>2 DEF IInv, ControlOK, DirectoryOK, Shapes, ProgressOK

LEMMA BeginKeeps ==
    ASSUME IInv, NEW p \in Processes, Begin(p)
    PROVE  IInv'
<1>1. /\ pc[p] = "idle" /\ pc' = [pc EXCEPT ![p] = "lock"]
      /\ next' = [next EXCEPT ![p] = "act"] /\ lock' = lock /\ staged' = staged
      /\ UNCHANGED directoryVars
  BY DEF Begin, Goto
<1>2. PICK j \in Jobs : job' = [job EXCEPT ![p] = j]
  BY DEF Begin, Jobs
<1>3. ControlOK'
  BY <1>1, <1>2 DEF IInv, Shapes, ControlOK, Exclusive, Labels
<1>4. pc'[p] = "lock" /\ next'[p] = "act"
  BY <1>1 DEF IInv, Shapes
<1>5. Progress(p)'
  BY <1>4 DEF Progress, Storing, Staging
<1> QED BY <1>1, <1>2, <1>3, <1>5, QuietKeeps DEF IInv, Shapes

LEMMA LockDirectoryKeeps ==
    ASSUME IInv, NEW p \in Processes, LockDirectory(p)
    PROVE  IInv'
<1>1. /\ pc[p] = "lock" /\ pc' = [pc EXCEPT ![p] = "recover"] /\ lock = Absent /\ lock' = p
      /\ next' = next /\ job' = job /\ staged' = staged /\ UNCHANGED directoryVars
  BY DEF LockDirectory, Goto
<1>2. ControlOK'
  BY <1>1, FileFacts DEF IInv, Shapes, ControlOK, Exclusive, Labels, Recovering
<1>3. pc'[p] = "recover" /\ Progress(p)
  BY <1>1, HereFacts DEF IInv, Shapes
<1>4. Progress(p)'
  BY ONLY <1>1, <1>3 DEF Progress, Storing, Staging
<1> QED BY <1>1, <1>2, <1>4, QuietKeeps DEF IInv, Shapes

LEMMA ActKeeps ==
    ASSUME IInv, NEW p \in Processes, Act(p)
    PROVE  IInv'
<1>1. CASE Return(p)
  BY <1>1, ReturnKeeps
<1>2. CASE /\ Admitted(p)
           /\ staged' = [staged EXCEPT ![p] = [content |-> job[p].secret, synced |-> FALSE]]
           /\ Goto(p, "stage") /\ UNCHANGED <<lock, next, job>> /\ UNCHANGED directoryVars
  <2>1. /\ pc[p] = "act" /\ pc' = [pc EXCEPT ![p] = "stage"]
        /\ lock' = lock /\ next' = next /\ job' = job
    BY <1>2 DEF Act, Goto
  <2>2. job[p].op \in {"store", "rotate"} /\ job[p].secret \in Secrets
    BY <1>2, HereFacts, JobFacts DEF Admitted
  <2>3. [content |-> job[p].secret, synced |-> FALSE] \in Files
    BY <2>2, FileFacts
  <2>4. ControlOK'
    BY <1>2, <2>1, <2>3 DEF IInv, Shapes, ControlOK, Exclusive, Labels, Storing
  <2>5. /\ pc'[p] = "stage" /\ Progress(p) /\ dir' = dir
        /\ staged'[p] = [content |-> job[p].secret, synced |-> FALSE]
    BY <1>2, <2>1, HereFacts DEF IInv, Shapes, directoryVars
  <2>6. job[p].op = "rotate" => Holds(job[p].profile, {job[p].expected})
    BY <1>2 DEF Admitted
  <2>7. Progress(p)'
    BY ONLY <2>1, <2>2, <2>5, <2>6 DEF Progress, Storing, Staging, Holds, Labels, Recovering
  <2> QED BY <1>2, <2>1, <2>4, <2>7, QuietKeeps DEF IInv, Shapes
<1> QED BY <1>1, <1>2 DEF Act

LEMMA ReadBeforeRevokeKeeps ==
    ASSUME IInv, NEW p \in Processes, ReadBeforeRevoke(p)
    PROVE  IInv'
<1>1. /\ job[p].op = "revoke" /\ pc[p] \in {"recover", "unmark", "flush", "act"}
      /\ pc' = [pc EXCEPT ![p] = "lock"] /\ lock' = Absent
      /\ next' = [next EXCEPT ![p] = "remove"] /\ job' = job /\ staged' = staged
      /\ UNCHANGED directoryVars
  BY DEF ReadBeforeRevoke, Goto
<1>2. lock = p
  BY <1>1 DEF IInv, Exclusive
<1>3. ControlOK'
  BY <1>1, <1>2, FileFacts DEF IInv, Shapes, ControlOK, Exclusive, Labels
<1>4. pc'[p] = "lock" /\ next'[p] = "remove"
  BY <1>1 DEF IInv, Shapes
<1>5. Progress(p)'
  BY <1>1, <1>4 DEF Progress, Storing, Staging
<1> QED BY <1>1, <1>3, <1>5, QuietKeeps DEF IInv, Shapes

LEMMA SyncSecretKeeps ==
    ASSUME IInv, NEW p \in Processes, SyncSecret(p)
    PROVE  IInv'
<1>1. CASE Return(p)
  BY <1>1, ReturnKeeps
<1>2. CASE /\ staged' = [staged EXCEPT ![p].synced = TRUE]
           /\ Goto(p, "create") /\ UNCHANGED <<lock, next, job>> /\ UNCHANGED directoryVars
  <2>1. /\ pc[p] = "stage" /\ pc' = [pc EXCEPT ![p] = "create"]
        /\ lock' = lock /\ next' = next /\ job' = job /\ dir' = dir
    BY <1>2 DEF SyncSecret, Goto, directoryVars
  <2>2. Progress(p)
    BY HereFacts
  <2>3. job[p].op \in {"store", "rotate"} /\ staged[p] = [content |-> job[p].secret, synced |-> FALSE]
    BY ONLY <2>1, <2>2 DEF Progress, Storing
  <2>4. Written(job[p].secret) \in Files
    BY <2>3, HereFacts, JobFacts, FileFacts DEF Written
  <2>5. staged' = [staged EXCEPT ![p] = Written(job[p].secret)]
    <3>1. staged' = [staged EXCEPT ![p] = [staged[p] EXCEPT !.synced = TRUE]]
      BY <1>2
    <3>2. [staged[p] EXCEPT !.synced = TRUE] = Written(job[p].secret)
      <4>1. /\ staged[p] \in Files /\ staged[p].content = job[p].secret
            /\ Written(job[p].secret) \in Files /\ Written(job[p].secret).content = job[p].secret
            /\ Written(job[p].secret).synced = TRUE
        <5>1. job[p].secret \in Secrets
          BY <2>3, HereFacts, JobFacts
        <5>2. /\ staged[p] \in Files /\ Written(job[p].secret) \in Files
          BY <2>3, <5>1, FileFacts DEF Written
        <5>3. staged[p].content = job[p].secret
          BY ONLY <2>3
        <5>4. Written(job[p].secret).content = job[p].secret /\ Written(job[p].secret).synced = TRUE
          BY ONLY DEF Written
        <5> QED BY <5>2, <5>3, <5>4
      <4> HIDE DEF Written
      <4> QED BY ONLY <4>1, SyncedFacts
    <3> QED BY <3>1, <3>2
  <2>6. ControlOK'
    BY <2>1, <2>4, <2>5 DEF IInv, Shapes, ControlOK, Exclusive, Labels, Storing, Staging
  <2>7. pc'[p] = "create" /\ staged'[p] = Written(job[p].secret)
    BY <2>1, <2>5 DEF IInv, Shapes
  <2>8. Progress(p)'
    BY ONLY <2>1, <2>2, <2>3, <2>7 DEF Progress, Storing, Staging, Holds, Labels, Recovering
  <2> QED BY <1>2, <2>1, <2>5, <2>6, <2>8, QuietKeeps DEF IInv, Shapes
<1> QED BY <1>1, <1>2 DEF SyncSecret

\* Whatever makes the marker, it vanishes only while nothing is pending.
LEMMA UnmarkKeeps ==
    ASSUME IInv, NEW p \in Processes, Unmark(p),
           pc[p] \in {"write", "syncMarker", "syncMark", "link"}
    PROVE  IInv'
<1>1. CASE Return(p)
  BY <1>1, ReturnKeeps
<1>2. CASE Leave(p) /\ Change([dir EXCEPT !.marker = Absent])
  <2> USE HereFacts
  <2> DEFINE d == [dir EXCEPT !.marker = Absent]
  <2>1. /\ d = [marker |-> Absent, pending |-> dir.pending, files |-> dir.files]
        /\ d.pending = dir.pending /\ d.marker = Absent /\ d.files = dir.files
    BY DirectoryFacts
  <2>2. d \in Directories
    BY <2>1, DirectoryFacts
  <2>3. Change(d)
    BY <1>2
  <2> HIDE DEF d
  <2>4. dir.pending = Absent
    BY DEF Progress, Labels, Storing, Staging
  <2>5. Marked(d) /\ Durable(d)
    BY <2>1, <2>4 DEF Marked, Durable
  <2>6. DirectoryOK'
    BY <2>2, <2>3, <2>5, ChangeKeepsSound
  <2>7. lock = p
    BY DEF IInv, Exclusive
  <2>8. ControlOK' /\ ProgressOK'
    BY <1>2, <2>7, IInvParts, LeaveKeeps
  <2> QED BY <2>6, <2>8 DEF IInv, ControlOK, DirectoryOK, Shapes
<1> QED BY <1>1, <1>2 DEF Unmark

LEMMA SyncMarkerKeepsSound ==
    ASSUME DirectoryOK, SyncMarker, dir.marker # Absent
    PROVE  /\ DirectoryOK' /\ dir'.marker = Written(Mark)
           /\ dir'.pending = dir.pending /\ dir'.files = dir.files
<1> DEFINE synced(d) ==
      IF d.marker = Absent THEN d ELSE [d EXCEPT !.marker = [content |-> Mark, synced |-> TRUE]]
<1>1. /\ dir' = synced(dir) /\ survivors' = {synced(d) : d \in survivors}
      /\ promised' = promised
  BY DEF SyncMarker
<1>2. ASSUME NEW d \in survivors
      PROVE  /\ synced(d) \in Directories
             /\ synced(d).pending = d.pending /\ synced(d).files = d.files
             /\ synced(d).marker = IF d.marker = Absent THEN Absent ELSE Written(Mark)
  <2>1. d \in Directories
    BY <1>2 DEF DirectoryOK
  <2>2. Written(Mark) \in Files
    BY FileFacts DEF Written
  <2>3. CASE d.marker = Absent
    BY <2>1, <2>3
  <2>4. CASE d.marker # Absent
    <3>1. synced(d) = [marker |-> Written(Mark), pending |-> d.pending, files |-> d.files]
      BY <2>1, <2>4 DEF Directories, Written
    <3>2. [marker |-> Written(Mark), pending |-> d.pending, files |-> d.files] \in Directories
      BY <2>1, <2>2, DirectoryFacts
    <3> QED BY <2>4, <3>1, <3>2
  <2> QED BY <2>3, <2>4
<1> HIDE DEF synced
<1>3. \A d \in survivors : Marked(d) /\ Durable(d) /\ Keeps(d)
  BY DEF DirectoryOK, SurvivorsAreSound
<1>4. ASSUME NEW d \in survivors PROVE Marked(synced(d))' /\ Durable(synced(d))' /\ Keeps(synced(d))'
  <2>1. Marked(synced(d))'
    BY <1>2, <1>3, <1>4 DEF Marked
  <2>2. Durable(synced(d))'
    BY <1>2, <1>3, <1>4 DEF Durable
  <2>3. Keeps(synced(d))'
    BY <1>1, <1>2, <1>3, <1>4 DEF Keeps
  <2> QED BY <2>1, <2>2, <2>3
<1>5. DirectoryOK'
  <2>1. dir' \in survivors' /\ survivors' \subseteq Directories
    BY <1>1, <1>2 DEF DirectoryOK
  <2>2. SurvivorsAreSound'
    BY <1>1, <1>4 DEF SurvivorsAreSound
  <2> QED BY <1>1, <2>1, <2>2 DEF DirectoryOK
<1> QED BY <1>1, <1>2, <1>5 DEF DirectoryOK

LEMMA MarkPendingKeeps ==
    ASSUME IInv, NEW p \in Processes, MarkPending(p)
    PROVE  IInv'
<1> USE HereFacts
<1>1. CASE /\ dir.marker = Absent
           /\ Step(p, "create", "write")
           /\ Change([dir EXCEPT !.marker = [content |-> Torn, synced |-> FALSE]])
  <2> DEFINE m == [content |-> Torn, synced |-> FALSE]
             d == [dir EXCEPT !.marker = m]
  <2>1. m \in Files /\ m # Absent
    BY FileFacts
  <2> HIDE DEF m
  <2>2. /\ d = [marker |-> m, pending |-> dir.pending, files |-> dir.files]
        /\ d.pending = dir.pending /\ d.marker = m /\ d.files = dir.files
    BY DirectoryFacts
  <2>3. d \in Directories
    BY <2>1, <2>2, DirectoryFacts
  <2>4. Change(d)
    BY <1>1 DEF m
  <2> HIDE DEF d
  <2>5. pc[p] = "create" /\ Progress(p)
    BY <1>1, StepFacts
  <2>6. dir.pending = Absent
    BY ONLY <2>5 DEF Progress, Labels, Storing, Staging
  <2>7. Marked(d) /\ Durable(d)
    BY <2>2, <2>6 DEF Marked, Durable
  <2>8. DirectoryOK' /\ dir' = d
    BY <2>3, <2>4, <2>7, ChangeKeepsSound DEF Change
  <2>9. Progress(p)'
    BY <1>1, <2>1, <2>2, <2>5, <2>8, StepFacts
       DEF Progress, Holds, Storing, Staging, Labels, Recovering
  <2> QED BY <1>1, <2>8, <2>9, InsideKeeps DEF Labels, Storing, Staging
<1>2. CASE Step(p, "write", "syncMarker") /\ Change([dir EXCEPT !.marker.content = Mark])
  <2> DEFINE m == [dir.marker EXCEPT !.content = Mark]
             d == [dir EXCEPT !.marker = m]
  <2>1. pc[p] = "write" /\ Progress(p)
    BY <1>2, StepFacts
  <2>2. dir.marker # Absent /\ dir.pending = Absent
    BY ONLY <2>1 DEF Progress, Labels, Storing, Staging
  <2>3. m \in Files /\ m # Absent
    BY <2>2, DirectoryFacts, FileFacts DEF Files
  <2>4. Change(d)
    BY <1>2
  <2> HIDE DEF m
  <2>5. /\ d = [marker |-> m, pending |-> dir.pending, files |-> dir.files]
        /\ d.pending = dir.pending /\ d.marker = m /\ d.files = dir.files
    BY DirectoryFacts
  <2>6. d \in Directories
    BY <2>3, <2>5, DirectoryFacts
  <2> HIDE DEF d
  <2>7. Marked(d) /\ Durable(d)
    BY <2>2, <2>5 DEF Marked, Durable
  <2>8. DirectoryOK' /\ dir' = d
    BY <2>4, <2>6, <2>7, ChangeKeepsSound DEF Change
  <2>9. Progress(p)'
    BY <1>2, <2>1, <2>3, <2>5, <2>8, StepFacts
       DEF Progress, Holds, Storing, Staging, Labels, Recovering
  <2> QED BY <1>2, <2>8, <2>9, InsideKeeps DEF Labels, Storing, Staging
<1>3. CASE Step(p, "syncMarker", "syncMark") /\ SyncMarker
  <2>1. pc[p] = "syncMarker" /\ Progress(p)
    BY <1>3, StepFacts
  <2>2. dir.marker # Absent
    BY ONLY <2>1 DEF Progress
  <2>3. /\ DirectoryOK' /\ dir'.marker = Written(Mark)
        /\ dir'.pending = dir.pending /\ dir'.files = dir.files
    BY <1>3, <2>2, SyncMarkerKeepsSound
  <2>4. Progress(p)'
    BY <1>3, <2>1, <2>3, StepFacts DEF Progress, Holds, Storing, Staging, Labels, Recovering
  <2> QED BY <1>3, <2>3, <2>4, InsideKeeps DEF Labels, Storing, Staging
<1>4. CASE Step(p, "syncMark", "link") /\ SyncDirectory
  <2>1. DirectoryOK' /\ dir' = dir
    BY <1>4, SyncKeepsSound DEF SyncDirectory
  <2>2. Progress(p)'
    BY <1>4, <2>1, StepFacts DEF Progress, Holds, Storing, Staging, Labels, Recovering
  <2> QED BY <1>4, <2>1, <2>2, InsideKeeps DEF Labels, Storing, Staging
<1>5. CASE pc[p] = "create" /\ Return(p)
  BY <1>5, ReturnKeeps
<1>6. CASE pc[p] \in {"write", "syncMarker", "syncMark", "link"} /\ Unmark(p)
  BY <1>6, UnmarkKeeps
<1> QED BY <1>1, <1>2, <1>3, <1>4, <1>5, <1>6 DEF MarkPending

\* The directory was synced with what is acknowledged in it.
LEMMA AcknowledgeKeeps ==
    ASSUME IInv, NEW p \in Processes, pc[p] \notin {"idle", "lock"},
           Acknowledge(p), survivors' = {dir}, dir' = dir,
           job[p].profile \in Profiles, job[p].secret \in Secrets \cup {Absent},
           dir.files[job[p].profile] =
              IF job[p].secret = Absent THEN Absent ELSE Written(job[p].secret)
    PROVE  IInv'
<1>1. ControlOK' /\ ProgressOK'
  BY IInvParts, LeaveKeeps DEF Acknowledge
<1>2. promised' = [promised EXCEPT ![job[p].profile] = job[p].secret]
  BY DEF Acknowledge
<1>3. Marked(dir) /\ Durable(dir) /\ Keeps(dir) /\ dir \in Directories
  BY HereFacts
<1>4. promised \in [Profiles -> Secrets \cup {Absent, Unknown}]
  BY DEF IInv, Shapes
<1>5. promised' \in [Profiles -> Secrets \cup {Absent, Unknown}]
  BY <1>2, <1>4
<1>6. Keeps(dir)'
  BY <1>2, <1>3, <1>4 DEF Keeps
<1>7. DirectoryOK'
  BY <1>3, <1>5, <1>6 DEF DirectoryOK, SurvivorsAreSound, Marked, Durable
<1> QED BY <1>1, <1>7 DEF IInv, ControlOK, DirectoryOK, Shapes

LEMMA PublishKeeps ==
    ASSUME IInv, NEW p \in Processes, Publish(p)
    PROVE  IInv'
<1> USE HereFacts
<1>1. CASE Step(p, "link", "rename") /\ Change([dir EXCEPT !.pending = staged[p]])
  <2> DEFINE d == [dir EXCEPT !.pending = staged[p]]
  <2>1. /\ d = [marker |-> dir.marker, pending |-> staged[p], files |-> dir.files]
        /\ d.pending = staged[p] /\ d.marker = dir.marker /\ d.files = dir.files
    BY DirectoryFacts
  <2>2. d \in Directories
    BY <2>1, DirectoryFacts
  <2>3. Change(d)
    BY <1>1
  <2> HIDE DEF d
  <2>4. pc[p] = "link" /\ Progress(p)
    BY <1>1, StepFacts
  <2>5. dir.marker = Written(Mark)
    BY ONLY <2>4 DEF Progress
  <2>6. Marked(d) /\ Durable(d)
    BY <2>1, <2>5 DEF Marked, Durable
  <2>7. DirectoryOK' /\ dir' = d
    BY <2>2, <2>3, <2>6, ChangeKeepsSound DEF Change
  <2>8. Progress(p)'
    BY <1>1, <2>1, <2>4, <2>7, StepFacts DEF Progress, Holds, Storing, Staging, Labels, Recovering
  <2> QED BY <1>1, <2>7, <2>8, InsideKeeps DEF Labels, Storing, Staging
<1>2. CASE /\ Step(p, "rename", "syncFile")
           /\ Change([dir EXCEPT !.pending = Absent, !.files[job[p].profile] = dir.pending])
  <2> DEFINE fs == [dir.files EXCEPT ![job[p].profile] = dir.pending]
             d  == [dir EXCEPT !.pending = Absent, !.files = fs]
  <2>1. Change(d)
    BY <1>2
  <2>2. pc[p] = "rename" /\ Progress(p)
    BY <1>2, StepFacts
  <2>3. /\ job[p].op \in {"store", "rotate"} /\ dir.pending = Written(job[p].secret)
        /\ dir.marker = Written(Mark)
    BY ONLY <2>2 DEF Progress, Storing, Staging
  <2>4. job[p].secret \in Secrets /\ job[p].profile \in Profiles
    BY <2>3, JobFacts
  <2>5. dir.pending \in Files
    <3>1. Written(job[p].secret) \in Files
      BY <2>4, FileFacts DEF Written
    <3> QED BY ONLY <2>3, <3>1
  <2>6. /\ fs \in [Profiles -> Files \cup {Absent}] /\ fs[job[p].profile] = Written(job[p].secret)
        /\ \A f \in Profiles \ {job[p].profile} : fs[f] = dir.files[f]
    BY <2>3, <2>4, <2>5, DirectoryFacts
  <2> HIDE DEF fs
  <2>7. /\ d = [marker |-> dir.marker, pending |-> Absent, files |-> fs]
        /\ d.pending = Absent /\ d.marker = dir.marker /\ d.files = fs
    <3> DEFINE e == [dir EXCEPT !.pending = Absent]
    <3>1. e = [marker |-> dir.marker, pending |-> Absent, files |-> dir.files]
      BY DirectoryFacts
    <3>2. e \in Directories
      BY <3>1, DirectoryFacts
    <3>3. d = [e EXCEPT !.files = fs]
      BY DirectoryFacts
    <3> HIDE DEF e, d
    <3>4. [e EXCEPT !.files = fs] = [marker |-> e.marker, pending |-> e.pending, files |-> fs]
      BY <3>2, DirectoryFacts
    <3>5. e.marker = dir.marker /\ e.pending = Absent
      BY ONLY <3>1
    <3> QED BY ONLY <3>3, <3>4, <3>5
  <2>8. d \in Directories
    BY <2>6, <2>7, DirectoryFacts
  <2> HIDE DEF d
  <2>9. Marked(d) /\ Durable(d)
    BY <2>4, <2>6, <2>7 DEF Marked, Durable
  <2>10. DirectoryOK' /\ dir' = d
    BY <2>1, <2>8, <2>9, ChangeKeepsSound DEF Change
  <2>11. Progress(p)'
    BY <1>2, <2>2, <2>3, <2>6, <2>7, <2>10, StepFacts
       DEF Progress, Holds, Storing, Staging, Labels, Recovering
  <2> QED BY <1>2, <2>10, <2>11, InsideKeeps DEF Labels, Storing, Staging
<1>3. CASE Step(p, "syncFile", "unlink") /\ SyncDirectory
  <2>1. DirectoryOK' /\ dir' = dir
    BY <1>3, SyncKeepsSound DEF SyncDirectory
  <2>2. Progress(p)'
    BY <1>3, <2>1, StepFacts DEF Progress, Holds, Storing, Staging, Labels, Recovering
  <2> QED BY <1>3, <2>1, <2>2, InsideKeeps DEF Labels, Storing
<1>4. CASE Step(p, "unlink", "syncDone") /\ Change([dir EXCEPT !.marker = Absent])
  <2> DEFINE d == [dir EXCEPT !.marker = Absent]
  <2>1. /\ d = [marker |-> Absent, pending |-> dir.pending, files |-> dir.files]
        /\ d.pending = dir.pending /\ d.marker = Absent /\ d.files = dir.files
    BY DirectoryFacts
  <2>2. d \in Directories
    BY <2>1, DirectoryFacts
  <2>3. Change(d)
    BY <1>4
  <2> HIDE DEF d
  <2>4. pc[p] = "unlink" /\ Progress(p)
    BY <1>4, StepFacts
  <2>5. dir.pending = Absent
    BY ONLY <2>4 DEF Progress, Labels, Storing
  <2>6. Marked(d) /\ Durable(d)
    BY <2>1, <2>5 DEF Marked, Durable
  <2>7. DirectoryOK' /\ dir' = d
    BY <2>2, <2>3, <2>6, ChangeKeepsSound DEF Change
  <2>8. Progress(p)'
    BY <1>4, <2>1, <2>4, <2>5, <2>7, StepFacts DEF Progress, Holds, Storing, Staging, Labels, Recovering
  <2> QED BY <1>4, <2>7, <2>8, InsideKeeps DEF Labels, Storing
<1>5. CASE pc[p] = "syncDone" /\ Acknowledge(p) /\ survivors' = {dir} /\ UNCHANGED dir
  <2>1. Progress(p) /\ pc[p] = "syncDone"
    BY <1>5
  <2>2. /\ job[p].op \in {"store", "rotate"}
        /\ dir.files[job[p].profile] = Written(job[p].secret)
    BY ONLY <2>1 DEF Progress, Storing
  <2>3. job[p].secret \in Secrets /\ job[p].profile \in Profiles
    BY <2>2, JobFacts
  <2> QED BY <1>5, <2>2, <2>3, AcknowledgeKeeps, FileFacts
<1>6. CASE /\ pc[p] \in {"rename", "syncFile", "unlink", "syncDone"}
           /\ Goto(p, "recover") /\ next' = [next EXCEPT ![p] = "failed"]
           /\ UNCHANGED <<lock, job, staged>> /\ UNCHANGED directoryVars
  <2>1. /\ pc' = [pc EXCEPT ![p] = "recover"] /\ lock' = lock /\ job' = job /\ staged' = staged
    BY <1>6 DEF Goto
  <2>2. ControlOK'
    BY <1>6, <2>1 DEF IInv, Shapes, ControlOK, Exclusive, Labels, Recovering
  <2>3. pc'[p] = "recover" /\ next'[p] = "failed"
    BY <1>6, <2>1 DEF IInv, Shapes
  <2>4. Progress(p)'
    BY ONLY <2>3 DEF Progress, Storing, Staging
  <2> QED BY <1>6, <2>1, <2>2, <2>4, QuietKeeps DEF IInv, Shapes
<1>7. CASE pc[p] = "failed" /\ Return(p)
  BY <1>7, ReturnKeeps
<1> QED BY <1>1, <1>2, <1>3, <1>4, <1>5, <1>6, <1>7 DEF Publish

LEMMA RemoveKeeps ==
    ASSUME IInv, NEW p \in Processes, Remove(p)
    PROVE  IInv'
<1> USE HereFacts
<1>1. CASE pc[p] \in {"remove", "syncRemoval"} /\ Return(p)
  BY <1>1, ReturnKeeps
<1>2. CASE /\ Step(p, "remove", "syncRemoval")
           /\ dir.files[job[p].profile] # Absent
           /\ Change([dir EXCEPT !.files[job[p].profile] = Absent])
  <2> DEFINE fs == [dir.files EXCEPT ![job[p].profile] = Absent]
             d  == [dir EXCEPT !.files = fs]
  <2>1. Change(d)
    BY <1>2
  <2>2. pc[p] = "remove" /\ Progress(p)
    BY <1>2, StepFacts
  <2>3. job[p].op = "revoke" /\ dir.pending = Absent
    BY ONLY <2>2 DEF Progress, Labels
  <2>4. job[p].profile \in Profiles
    BY <2>3, JobFacts
  <2>5. /\ fs \in [Profiles -> Files \cup {Absent}] /\ fs[job[p].profile] = Absent
        /\ \A f \in Profiles \ {job[p].profile} : fs[f] = dir.files[f]
    BY <2>4, DirectoryFacts
  <2> HIDE DEF fs
  <2>6. /\ d = [marker |-> dir.marker, pending |-> dir.pending, files |-> fs]
        /\ d.pending = dir.pending /\ d.marker = dir.marker /\ d.files = fs
    BY DirectoryFacts
  <2>7. d \in Directories
    BY <2>5, <2>6, DirectoryFacts
  <2> HIDE DEF d
  <2>8. Marked(d) /\ Durable(d)
    BY <2>3, <2>5, <2>6 DEF Marked, Durable
  <2>9. DirectoryOK' /\ dir' = d
    BY <2>1, <2>7, <2>8, ChangeKeepsSound DEF Change
  <2>10. Progress(p)'
    BY <1>2, <2>2, <2>3, <2>5, <2>6, <2>9, StepFacts
       DEF Progress, Holds, Storing, Staging, Labels, Recovering
  <2> QED BY <1>2, <2>9, <2>10, InsideKeeps DEF Labels
<1>3. CASE pc[p] = "syncRemoval" /\ Acknowledge(p) /\ survivors' = {dir} /\ UNCHANGED dir
  <2>1. Progress(p) /\ pc[p] = "syncRemoval"
    BY <1>3
  <2>2. job[p].op = "revoke" /\ dir.files[job[p].profile] = Absent
    BY ONLY <2>1 DEF Progress
  <2>3. job[p].secret = Absent /\ job[p].profile \in Profiles
    BY <2>2, JobFacts
  <2> QED BY <1>3, <2>2, <2>3, AcknowledgeKeeps
<1> QED BY <1>1, <1>2, <1>3 DEF Remove

(***************************************************************************)
(* A power failure: what survives is one of the directories that could.    *)
(***************************************************************************)
LEMMA SettledFacts ==
    ASSUME NEW file \in Files \cup {Absent}
    PROVE  /\ Settled(file) \in Files \cup {Absent}
           /\ Settled(file) = Absent <=> file = Absent
           /\ \A s \in Secrets \cup {Mark} : file = Written(s) => Settled(file) = Written(s)
<1>1. CASE file = Absent
  BY <1>1, FileFacts DEF Settled, Written
<1>2. CASE file # Absent
  <2>1. file.content \in Secrets \cup {Torn, Mark} /\ file.synced \in BOOLEAN
    BY <1>2 DEF Files
  <2>2. Settled(file) = [content |-> IF file.synced THEN file.content ELSE Torn, synced |-> TRUE]
    BY <1>2 DEF Settled
  <2>3. Settled(file) \in Files /\ Settled(file) # Absent
    <3>1. PICK s \in Secrets \cup {Mark, Torn} : Settled(file) = [content |-> s, synced |-> TRUE]
      BY ONLY <2>1, <2>2
    <3> QED BY ONLY <3>1, FileFacts
  <2>4. ASSUME NEW s \in Secrets \cup {Mark}, file = Written(s) PROVE Settled(file) = Written(s)
    <3>1. file.content = s /\ file.synced
      BY ONLY <2>4 DEF Written
    <3> QED BY ONLY <2>2, <3>1 DEF Written
  <2> QED BY <1>2, <2>3, <2>4
<1> QED BY <1>1, <1>2

LEMMA AfterPowerFailureFacts ==
    ASSUME NEW d \in Directories
    PROVE  /\ AfterPowerFailure(d) \in Directories
           /\ AfterPowerFailure(d).marker = Settled(d.marker)
           /\ AfterPowerFailure(d).pending = Settled(d.pending)
           /\ \A f \in Profiles : AfterPowerFailure(d).files[f] = Settled(d.files[f])
  BY DirectoryFacts, SettledFacts DEF AfterPowerFailure

LEMMA SoundAfterwards ==
    ASSUME NEW d \in Directories, Marked(d), Durable(d), Keeps(d)
    PROVE  LET after == AfterPowerFailure(d) IN
             /\ Marked(after) /\ Durable(after) /\ Keeps(after)
             /\ \A f \in Profiles : after.files[f] = d.files[f]
<1> DEFINE after == AfterPowerFailure(d)
<1>1. /\ after.marker = Settled(d.marker) /\ after.pending = Settled(d.pending)
      /\ \A f \in Profiles : after.files[f] = Settled(d.files[f])
  BY AfterPowerFailureFacts
<1> HIDE DEF after
<1>2. Marked(after)
  BY <1>1, DirectoryFacts, SettledFacts DEF Marked
<1>3. ASSUME NEW f \in Profiles PROVE after.files[f] = d.files[f]
  <2>1. d.files[f] \in Files \cup {Absent}
    BY <1>3, DirectoryFacts
  <2>2. CASE d.files[f] = Absent
    BY <1>1, <1>3, <2>1, <2>2, SettledFacts
  <2>3. CASE d.files[f] # Absent
    <3>1. PICK s \in Secrets : d.files[f] = Written(s)
      BY <1>3, <2>3 DEF Durable
    <3> QED BY <1>1, <1>3, <2>1, <3>1, SettledFacts
  <2> QED BY <2>2, <2>3
<1>4. Durable(after) /\ Keeps(after)
  BY <1>3 DEF Durable, Keeps
<1> QED BY <1>2, <1>3, <1>4 DEF after

LEMMA PowerFailureKeeps ==
    ASSUME IInv, PowerFailure
    PROVE  IInv'
<1>1. PICK d \in survivors : dir' = AfterPowerFailure(d) /\ survivors' = {AfterPowerFailure(d)}
  BY DEF PowerFailure
<1>2. /\ lock' = Absent /\ pc' = [p \in Processes |-> "idle"] /\ next' = [p \in Processes |-> "idle"]
      /\ job' = [p \in Processes |-> NoJob] /\ staged' = [p \in Processes |-> Absent]
      /\ promised' = promised
  BY DEF PowerFailure
<1>3. d \in Directories /\ Marked(d) /\ Durable(d) /\ Keeps(d)
  BY DEF IInv, Shapes, SurvivorsAreSound
<1>4. dir' \in Directories /\ Marked(dir') /\ Durable(dir') /\ Keeps(dir')
  BY <1>1, <1>2, <1>3, AfterPowerFailureFacts, SoundAfterwards DEF Keeps
<1>5. DirectoryOK'
  <2>1. dir' \in survivors' /\ survivors' \subseteq Directories /\ survivors' = {dir'}
    BY <1>1, <1>4
  <2>2. promised' \in [Profiles -> Secrets \cup {Absent, Unknown}]
    BY <1>2 DEF IInv, Shapes
  <2>3. SurvivorsAreSound'
    BY <1>2, <1>4, <2>1 DEF SurvivorsAreSound, Marked, Durable, Keeps
  <2> QED BY <2>1, <2>2, <2>3 DEF DirectoryOK
<1>6. ControlOK'
  BY <1>2, FileFacts DEF ControlOK, Exclusive, Labels, Jobs
<1>7. ASSUME NEW p \in Processes PROVE Progress(p)'
  <2>1. pc'[p] = "idle" /\ next'[p] = "idle"
    BY <1>2, <1>7
  <2> QED BY ONLY <2>1 DEF Progress, Storing, Staging
<1> QED BY <1>5, <1>6, <1>7 DEF IInv, ControlOK, DirectoryOK, Shapes, ProgressOK

LEMMA Initially == Init => IInv
<1> SUFFICES ASSUME Init PROVE IInv
  OBVIOUS
<1>1. EmptyDir \in Directories /\ EmptyDir.pending = Absent
      /\ \A f \in Profiles : EmptyDir.files[f] = Absent
  BY DEF EmptyDir, Directories
<1>2. Shapes
  BY <1>1 DEF Init, Shapes, Labels, Jobs
<1>3. Exclusive
  BY FileFacts DEF Init, Exclusive
<1>4. SurvivorsAreSound
  BY <1>1 DEF Init, SurvivorsAreSound, Marked, Durable, Keeps
<1>5. ASSUME NEW p \in Processes PROVE Progress(p)
  <2>1. pc[p] = "idle" /\ next[p] = "idle"
    BY <1>5 DEF Init
  <2> QED BY ONLY <2>1 DEF Progress, Storing, Staging
<1> QED BY <1>2, <1>3, <1>4, <1>5 DEF IInv, ProgressOK

LEMMA NextKeeps == IInv /\ [Next]_vars => IInv'
<1> SUFFICES ASSUME IInv, [Next]_vars PROVE IInv'
  OBVIOUS
<1>1. CASE PowerFailure
  BY <1>1, PowerFailureKeeps
<1>2. ASSUME NEW p \in Processes,
             \/ Begin(p) \/ LockDirectory(p) \/ Recover(p) \/ Act(p) \/ ReadBeforeRevoke(p)
             \/ SyncSecret(p) \/ MarkPending(p) \/ Publish(p) \/ Remove(p) \/ Kill(p)
      PROVE IInv'
  <2>1. CASE Kill(p)
    BY <2>1, ReturnKeeps DEF Kill
  <2> QED BY <1>2, <2>1, BeginKeeps, LockDirectoryKeeps, RecoverKeeps, ActKeeps,
             ReadBeforeRevokeKeeps, SyncSecretKeeps, MarkPendingKeeps, PublishKeeps, RemoveKeeps
<1>3. CASE UNCHANGED vars
  BY <1>3 DEF vars, IInv, Shapes, Exclusive, SurvivorsAreSound, ProgressOK, Progress,
              Marked, Durable, Keeps, Holds
<1> QED BY <1>1, <1>2, <1>3 DEF Next

LEMMA InvariantImplies ==
    IInv => TypeOK /\ AcknowledgedSurvives /\ MarkerPrecedesPending /\ NeverTorn
<1> SUFFICES ASSUME IInv PROVE TypeOK /\ AcknowledgedSurvives /\ MarkerPrecedesPending /\ NeverTorn
  OBVIOUS
<1>1. TypeOK
  BY DEF IInv, Shapes, Exclusive, TypeOK
<1>2. ASSUME NEW d \in survivors
      PROVE  /\ d \in Directories /\ Marked(d) /\ Durable(d) /\ Keeps(d)
             /\ \A f \in Profiles : AfterPowerFailure(d).files[f] = d.files[f]
             /\ AfterPowerFailure(d).marker = Settled(d.marker)
  BY SoundAfterwards, AfterPowerFailureFacts DEF IInv, Shapes, SurvivorsAreSound
<1>3. survivors \cup {dir} = survivors
  BY DEF IInv, Shapes
<1>4. ASSUME NEW s PROVE Written(s).content = s
  BY DEF Written
<1>5. AcknowledgedSurvives
  <2> SUFFICES ASSUME NEW f \in Profiles, promised[f] # Unknown, NEW d \in survivors
               PROVE  LET after == AfterPowerFailure(d).files[f]
                      IN IF promised[f] = Absent THEN after = Absent
                         ELSE after # Absent /\ after.content = promised[f]
    BY DEF AcknowledgedSurvives
  <2>1. AfterPowerFailure(d).files[f] = IF promised[f] = Absent THEN Absent ELSE Written(promised[f])
    BY <1>2 DEF Keeps
  <2>2. promised[f] # Absent => Written(promised[f]) # Absent
    <3>1. promised[f] \in Secrets \cup {Absent, Unknown}
      BY DEF IInv, Shapes
    <3> QED BY <3>1, FileFacts DEF Written
  <2> QED BY <1>4, <2>1, <2>2
<1>6. MarkerPrecedesPending
  <2> SUFFICES ASSUME NEW d \in survivors, d.pending # Absent
               PROVE  LET after == AfterPowerFailure(d)
                      IN after.marker # Absent /\ after.marker.content = Mark
    BY <1>3 DEF MarkerPrecedesPending
  <2>1. d.marker = Written(Mark) /\ d.marker \in Files \cup {Absent}
    BY <1>2, DirectoryFacts DEF Marked
  <2>2. AfterPowerFailure(d).marker = Written(Mark)
    BY <1>2, <2>1, SettledFacts
  <2>3. Written(Mark) # Absent
    BY FileFacts DEF Written
  <2> QED BY <1>4, <2>2, <2>3
<1>7. NeverTorn
  <2> SUFFICES ASSUME NEW d \in survivors, NEW f \in Profiles, d.files[f] # Absent
               PROVE  AfterPowerFailure(d).files[f].content \in Secrets
    BY <1>3 DEF NeverTorn
  <2> QED BY <1>2, <1>4 DEF Durable
<1> QED BY <1>1, <1>5, <1>6, <1>7

LEMMA ExactRotations == IInv /\ [Next]_vars => [RotationsAreExact]_vars
<1> SUFFICES ASSUME IInv, NEW p \in Processes, job[p].op = "rotate", pc[p] = "rename"
             PROVE  Holds(job[p].profile, {job[p].expected})
  BY DEF RotationsAreExact
<1>1. Progress(p)
  BY DEF IInv, ProgressOK
<1> QED BY <1>1 DEF Progress, Staging

(***************************************************************************)
(* For any processes, profiles and credentials, whoever is killed and      *)
(* whenever the power fails: an acknowledged credential, or its removal,   *)
(* survives, nothing torn is published, recovery can tell a candidate from *)
(* a stranger's file, and a rotation replaces only what it expected.       *)
(***************************************************************************)
THEOREM CredentialsAlwaysSurvive == Spec => CredentialsSurvive
<1>1. Spec => []IInv
  BY Initially, NextKeeps, PTL DEF Spec
<1> QED BY <1>1, InvariantImplies, ExactRotations, PTL DEF Spec, CredentialsSurvive

-----------------------------------------------------------------------------
(***************************************************************************)
(* The catalogue cache.  Refreshes that are out and the ones the entries   *)
(* answered are ordered alike by their clock, credential and page, so a    *)
(* late answer that is refused is older, and one that is kept is not.      *)
(***************************************************************************)
CONSTANTS Connections, Declared, Ttl, MaxIdentities, NoEntry,
          MaxClock, MaxCredential, MaxPage, MaxRevision, MaxInFlight

VARIABLES entries, nextRevision, now, credential, offered, inFlight, accepted

Catalogue == INSTANCE CatalogCache WITH Keys <- Connections, catalogue <- offered

(* A fresh entry was asked for with the credentials of now and within its   *)
(* time to live; late answers replace nothing newer, and only an answer     *)
(* makes an entry fresh.                                                    *)
CataloguesAreCurrent == Catalogue!CataloguesAreCurrent

(* The refreshes of a connection that were asked for and still count. *)
Asks(k) ==
    {r \in inFlight : r.key = k} \cup (IF k \in Catalogue!Identities THEN {accepted[k]} ELSE {})

Ordered(r, q) ==
    r.checkedAt > q.checkedAt \/ r.credential > q.credential => r.page >= q.page

IsPast(r) == r.checkedAt <= now /\ r.credential <= credential[r.key] /\ r.page <= offered[r.key]

Fits(r) == IsPast(r) /\ \A q \in Asks(r.key) : Ordered(r, q) /\ Ordered(q, r)

AsksAreOrdered == \A k \in Connections : \A r \in Asks(k) : Fits(r)

EntriesAreAnswers ==
    \A k \in Catalogue!Identities :
        LET a == accepted[k] e == entries[k] IN
        /\ a \in Catalogue!Refreshes /\ a.key = k
        /\ e \in Catalogue!Snapshots
        /\ e.page = a.page /\ e.checkedAt = a.checkedAt /\ e.credential = a.credential
        /\ a.policy = "declared" => k \in Declared
        /\ a.policy = "dynamic" => e.expiresAt = a.checkedAt + Ttl

AskedDynamically == \A r \in inFlight : r.policy = "dynamic"

CatalogueInv ==
    /\ Catalogue!TypeOK /\ IsFiniteSet(Catalogue!Identities)
    /\ EntriesAreAnswers /\ AsksAreOrdered /\ AskedDynamically

LEMMA RefreshFacts ==
    ASSUME Catalogue!CacheAssumption, Catalogue!TypeOK, NEW k \in Connections,
           NEW policy \in {"declared", "dynamic"}
    PROVE  /\ Catalogue!Refresh(k, policy) \in Catalogue!Refreshes
           /\ Catalogue!Refresh(k, policy).key = k
           /\ Catalogue!Refresh(k, policy).checkedAt = now
           /\ Catalogue!Refresh(k, policy).credential = credential[k]
           /\ Catalogue!Refresh(k, policy).page = offered[k]
           /\ Catalogue!Refresh(k, policy).policy = policy
  BY DEF Catalogue!Refresh, Catalogue!TypeOK, Catalogue!Refreshes

LEMMA SnapshotFacts ==
    ASSUME Catalogue!CacheAssumption, Catalogue!TypeOK, NEW r \in Catalogue!Refreshes,
           Catalogue!Accepts(r)
    PROVE  LET s == Catalogue!Snapshot(r) IN
           /\ s \in Catalogue!Snapshots /\ s.page = r.page /\ s.checkedAt = r.checkedAt
           /\ s.credential = r.credential
           /\ r.policy = "dynamic" => s.expiresAt = r.checkedAt + Ttl
  BY DEF Catalogue!Snapshot, Catalogue!TypeOK, Catalogue!Refreshes, Catalogue!Snapshots,
         Catalogue!Accepts, Catalogue!CacheAssumption, Catalogue!Forever

LEMMA SameCardinality == \A S : Catalogue!Cardinality(S) = Cardinality(S)
  BY DEF Catalogue!Cardinality, Cardinality

LEMMA AskFacts ==
    ASSUME Catalogue!TypeOK, EntriesAreAnswers, NEW k \in Connections, NEW r \in Asks(k)
    PROVE  r \in Catalogue!Refreshes /\ r.key = k
  BY DEF Asks, EntriesAreAnswers, Catalogue!TypeOK

LEMMA OrderKeeps ==
    ASSUME Catalogue!TypeOK, EntriesAreAnswers, AsksAreOrdered,
           NEW r \in Catalogue!Refreshes, Fits(r), UNCHANGED Catalogue!worldVars,
           \A k \in Connections : Asks(k)' \subseteq Asks(k) \cup (IF k = r.key THEN {r} ELSE {})
    PROVE  AsksAreOrdered'
<1> SUFFICES ASSUME NEW k \in Connections, NEW q \in Asks(k)' PROVE Fits(q)'
  BY DEF AsksAreOrdered
<1>1. Ordered(r, r)
  BY DEF Ordered, Catalogue!Refreshes
<1>2. q.key = k /\ (q = r \/ q \in Asks(k)) /\ (q = r => k = r.key)
  BY AskFacts
<1>3. IsPast(q)'
  BY <1>2 DEF IsPast, Fits, AsksAreOrdered, Catalogue!worldVars
<1>4. \A z \in Asks(k) \cup (IF k = r.key THEN {r} ELSE {}) : Ordered(q, z) /\ Ordered(z, q)
  BY <1>1, <1>2 DEF Fits, AsksAreOrdered
<1> QED BY <1>2, <1>3, <1>4 DEF Fits, Ordered

LEMMA PutKeeps ==
    ASSUME Catalogue!CacheAssumption, CatalogueInv, NEW r \in Catalogue!Refreshes, Fits(r),
           r.policy = "declared" => r.page = offered[r.key], Catalogue!Put(r), inFlight' \subseteq inFlight, UNCHANGED Catalogue!worldVars
    PROVE  /\ CatalogueInv'
           /\ Catalogue!CataloguesNeverRegress /\ Catalogue!FreshnessNeedsAnAnswer
<1> DEFINE s == Catalogue!Snapshot(r)
<1>0. /\ Catalogue!TypeOK /\ IsFiniteSet(Catalogue!Identities) /\ EntriesAreAnswers
      /\ AsksAreOrdered /\ now' = now /\ credential' = credential /\ offered' = offered
  BY DEF CatalogueInv, Catalogue!worldVars
<1>1. CASE UNCHANGED Catalogue!cacheVars
  <2>1. entries' = entries /\ nextRevision' = nextRevision /\ accepted' = accepted
    BY <1>1 DEF Catalogue!cacheVars
  <2>2. Catalogue!Identities' = Catalogue!Identities
    BY <2>1 DEF Catalogue!Identities
  <2>3. Catalogue!TypeOK' /\ IsFiniteSet(Catalogue!Identities')
    BY <1>0, <2>1, <2>2 DEF Catalogue!TypeOK
  <2>4. EntriesAreAnswers'
    BY <1>0, <2>1, <2>2 DEF EntriesAreAnswers
  <2>5. \A k \in Connections : Asks(k)' \subseteq Asks(k)
    BY <2>1, <2>2 DEF Asks
  <2>6. AsksAreOrdered'
    BY <1>0, <2>5, OrderKeeps
  <2>7. Catalogue!CataloguesNeverRegress /\ Catalogue!FreshnessNeedsAnAnswer
    <3>1. \A k \in Catalogue!Identities : entries[k].page \in Nat
      BY <1>0 DEF EntriesAreAnswers, Catalogue!Snapshots
    <3> QED BY <1>0, <2>1, <2>2, <3>1
            DEF Catalogue!CataloguesNeverRegress, Catalogue!FreshnessNeedsAnAnswer, Catalogue!Fresh
  <2> QED BY <2>3, <2>4, <2>6, <2>7 DEF CatalogueInv, AskedDynamically
<1>2. CASE /\ Catalogue!Accepts(r)
           /\ entries' = [entries EXCEPT ![r.key] = s]
           /\ nextRevision' = nextRevision + 1
           /\ accepted' = [accepted EXCEPT ![r.key] = r]
  <2>1. /\ s \in Catalogue!Snapshots /\ s.page = r.page /\ s.checkedAt = r.checkedAt
        /\ s.credential = r.credential
        /\ r.policy = "dynamic" => s.expiresAt = r.checkedAt + Ttl
    BY <1>0, <1>2, SnapshotFacts
  <2>2. /\ r.key \in Connections /\ r.policy \in {"declared", "dynamic"}
        /\ r.policy = "declared" => r.key \in Declared
    BY <1>2 DEF Catalogue!Refreshes, Catalogue!Accepts
  <2> HIDE DEF s
  <2>3. /\ entries' \in [Connections -> Catalogue!Snapshots \cup {NoEntry}]
        /\ entries'[r.key] = s /\ accepted'[r.key] = r
        /\ accepted' \in [Connections -> Catalogue!Refreshes \cup {NoEntry}]
        /\ \A k \in Connections \ {r.key} : entries'[k] = entries[k] /\ accepted'[k] = accepted[k]
    BY <1>0, <1>2, <2>1, <2>2 DEF Catalogue!TypeOK
  <2>4. /\ Catalogue!Identities' \subseteq Catalogue!Identities \cup {r.key}
        /\ r.key \in Catalogue!Identities => Catalogue!Identities' \subseteq Catalogue!Identities
        /\ Catalogue!Identities' \ {r.key} \subseteq Catalogue!Identities
    BY <2>2, <2>3 DEF Catalogue!Identities
  <2>5. /\ IsFiniteSet(Catalogue!Identities') /\ Cardinality(Catalogue!Identities') <= MaxIdentities
    <3>0. MaxIdentities \in Nat /\ Cardinality(Catalogue!Identities) \in Nat
          /\ Cardinality(Catalogue!Identities) <= MaxIdentities
      BY <1>0, FS_CardinalityType, SameCardinality DEF Catalogue!CacheAssumption, Catalogue!TypeOK
    <3>1. CASE r.key \in Catalogue!Identities
      <4>1. IsFiniteSet(Catalogue!Identities')
            /\ Cardinality(Catalogue!Identities') <= Cardinality(Catalogue!Identities)
        BY <1>0, <2>4, <3>1, FS_Subset
      <4>2. Cardinality(Catalogue!Identities') \in Nat
        BY <4>1, FS_CardinalityType
      <4> QED BY <3>0, <4>1, <4>2
    <3>2. CASE r.key \notin Catalogue!Identities
      <4>1. Cardinality(Catalogue!Identities) < MaxIdentities
        BY <1>2, <3>2, SameCardinality DEF Catalogue!Accepts
      <4>2. /\ IsFiniteSet(Catalogue!Identities \cup {r.key})
            /\ Cardinality(Catalogue!Identities \cup {r.key}) = Cardinality(Catalogue!Identities) + 1
        BY <1>0, <3>2, FS_AddElement
      <4>3. /\ IsFiniteSet(Catalogue!Identities')
            /\ Cardinality(Catalogue!Identities') <= Cardinality(Catalogue!Identities \cup {r.key})
        BY <2>4, <4>2, FS_Subset
      <4>4. Cardinality(Catalogue!Identities') \in Nat
        BY <4>3, FS_CardinalityType
      <4> QED BY <3>0, <4>1, <4>2, <4>3, <4>4
    <3> QED BY <3>1, <3>2
  <2>6. Catalogue!TypeOK'
    <3>1. nextRevision' \in 0..MaxRevision
      BY <1>0, <1>2 DEF Catalogue!TypeOK, Catalogue!Accepts, Catalogue!CacheAssumption
    <3> QED BY <1>0, <2>3, <2>5, <3>1, SameCardinality DEF Catalogue!TypeOK
  <2>7. EntriesAreAnswers'
    <3> SUFFICES ASSUME NEW k \in Catalogue!Identities'
                 PROVE  LET a == accepted'[k] e == entries'[k] IN
                        /\ a \in Catalogue!Refreshes /\ a.key = k
                        /\ e \in Catalogue!Snapshots
                        /\ e.page = a.page /\ e.checkedAt = a.checkedAt /\ e.credential = a.credential
                        /\ a.policy = "declared" => k \in Declared
                        /\ a.policy = "dynamic" => e.expiresAt = a.checkedAt + Ttl
      BY DEF EntriesAreAnswers
    <3>1. CASE k = r.key
      BY <2>1, <2>2, <2>3, <3>1
    <3>2. CASE k # r.key
      <4>1. k \in Catalogue!Identities /\ k \in Connections
        BY <2>4, <3>2 DEF Catalogue!Identities
      <4> QED BY <1>0, <2>3, <3>2, <4>1 DEF EntriesAreAnswers
    <3> QED BY <3>1, <3>2
  <2>8. \A k \in Connections : Asks(k)' \subseteq Asks(k) \cup (IF k = r.key THEN {r} ELSE {})
    BY <2>3, <2>4 DEF Asks
  <2>10. AsksAreOrdered'
    BY <1>0, <2>8, OrderKeeps
  <2>11. Catalogue!CataloguesNeverRegress
    <3> SUFFICES ASSUME NEW k \in Catalogue!Identities PROVE entries[k].page <= entries'[k].page
      BY DEF Catalogue!CataloguesNeverRegress
    <3>1. /\ k \in Connections /\ entries[k] \in Catalogue!Snapshots /\ entries[k].page \in Nat
          /\ accepted[k] \in Asks(k)
      BY <1>0 DEF EntriesAreAnswers, Catalogue!Snapshots, Catalogue!Identities, Asks
    <3>2. CASE k = r.key
      <4>1. ~Catalogue!IsStale(entries[k], r)
        BY <1>2, <3>2 DEF Catalogue!Accepts
      <4>2. Ordered(r, accepted[k])
        BY <3>1, <3>2 DEF Fits
      <4>3. CASE r.policy = "dynamic"
        <5>1. /\ entries[k].page = accepted[k].page /\ entries[k].checkedAt = accepted[k].checkedAt
              /\ entries[k].credential = accepted[k].credential
              /\ accepted[k].checkedAt \in Int /\ accepted[k].credential \in Int
          BY <1>0, <3>1 DEF EntriesAreAnswers, Catalogue!Refreshes
        <5>2. r.checkedAt \in Int /\ r.credential \in Int /\ r.page = entries'[k].page
          BY <1>0, <2>1, <2>3, <3>2 DEF Catalogue!Refreshes
        <5>3. r.checkedAt > accepted[k].checkedAt \/ r.credential > accepted[k].credential
          BY ONLY <4>1, <4>3, <5>1, <5>2 DEF Catalogue!IsStale
        <5> QED BY ONLY <4>2, <5>1, <5>2, <5>3 DEF Ordered
      <4>4. CASE r.policy = "declared"
        BY <1>0, <2>1, <2>3, <3>1, <3>2, <4>4
           DEF AsksAreOrdered, Fits, IsPast, EntriesAreAnswers
      <4> QED BY <2>2, <4>3, <4>4
    <3>3. CASE k # r.key
      BY <2>3, <3>1, <3>3
    <3> QED BY <3>2, <3>3
  <2>12. Catalogue!FreshnessNeedsAnAnswer
    BY <1>0, <1>2 DEF Catalogue!FreshnessNeedsAnAnswer, Catalogue!TypeOK
  <2> QED BY <2>5, <2>6, <2>7, <2>10, <2>11, <2>12 DEF CatalogueInv, AskedDynamically
<1> QED BY <1>1, <1>2 DEF Catalogue!Put

LEMMA RefreshFits ==
    ASSUME Catalogue!CacheAssumption, CatalogueInv, NEW k \in Connections,
           NEW policy \in {"declared", "dynamic"}
    PROVE  Fits(Catalogue!Refresh(k, policy))
<1>1. /\ Catalogue!TypeOK /\ AsksAreOrdered /\ EntriesAreAnswers
      /\ now \in Nat /\ credential[k] \in Nat /\ offered[k] \in Nat
  BY DEF CatalogueInv, Catalogue!TypeOK, Catalogue!CacheAssumption
<1>2. ASSUME NEW q \in Asks(k) PROVE /\ q.checkedAt \in Nat /\ q.checkedAt <= now
                                     /\ q.credential \in Nat /\ q.credential <= credential[k]
                                     /\ q.page \in Nat /\ q.page <= offered[k]
  BY <1>1, AskFacts DEF AsksAreOrdered, Fits, IsPast, Catalogue!Refreshes
<1> QED BY <1>1, <1>2, RefreshFacts DEF Fits, IsPast, Ordered

LEMMA RefreshAsked ==
    ASSUME Catalogue!CacheAssumption, CatalogueInv, Catalogue!Ask
    PROVE  CatalogueInv' /\ Catalogue!CataloguesNeverRegress /\ Catalogue!FreshnessNeedsAnAnswer
<1>1. PICK k \in Connections : inFlight' = inFlight \cup {Catalogue!Refresh(k, "dynamic")}
  BY DEF Catalogue!Ask
<1> DEFINE r == Catalogue!Refresh(k, "dynamic")
<1>2. /\ Catalogue!TypeOK /\ AsksAreOrdered /\ EntriesAreAnswers
      /\ IsFiniteSet(Catalogue!Identities) /\ UNCHANGED Catalogue!worldVars
      /\ entries' = entries /\ nextRevision' = nextRevision /\ accepted' = accepted
      /\ now' = now /\ credential' = credential /\ offered' = offered
  BY DEF CatalogueInv, Catalogue!Ask, Catalogue!cacheVars, Catalogue!worldVars
<1>3. r \in Catalogue!Refreshes /\ r.key = k /\ Fits(r)
  BY <1>2, RefreshFacts, RefreshFits
<1> HIDE DEF r
<1>4. Catalogue!Identities' = Catalogue!Identities
  BY <1>2 DEF Catalogue!Identities
<1>5. \A c \in Connections : Asks(c)' \subseteq Asks(c) \cup (IF c = r.key THEN {r} ELSE {})
  BY <1>1, <1>2, <1>3, <1>4 DEF Asks, r
<1>6. AsksAreOrdered'
  BY <1>2, <1>3, <1>5, OrderKeeps
<1>7. Catalogue!TypeOK'
  BY <1>1, <1>2, <1>3, <1>4, SameCardinality DEF Catalogue!TypeOK, r
<1>8. EntriesAreAnswers'
  BY <1>2, <1>4 DEF EntriesAreAnswers
<1>9. \A c \in Catalogue!Identities : entries[c].page \in Nat
  BY <1>2 DEF EntriesAreAnswers, Catalogue!Snapshots
<1>10. Catalogue!CataloguesNeverRegress /\ Catalogue!FreshnessNeedsAnAnswer
  BY <1>2, <1>4, <1>9 DEF Catalogue!CataloguesNeverRegress, Catalogue!FreshnessNeedsAnAnswer, Catalogue!Fresh
<1>11. AskedDynamically'
  BY <1>1, <1>2, RefreshFacts DEF CatalogueInv, AskedDynamically
<1> QED BY <1>2, <1>4, <1>6, <1>7, <1>8, <1>10, <1>11 DEF CatalogueInv

(* Entries that are marked or purged. *)
LEMMA ForgettingKeeps ==
    ASSUME Catalogue!CacheAssumption, CatalogueInv, Catalogue!MarkStale \/ Catalogue!Purge
    PROVE  CatalogueInv' /\ Catalogue!CataloguesNeverRegress /\ Catalogue!FreshnessNeedsAnAnswer
<1>1. /\ Catalogue!TypeOK /\ AsksAreOrdered /\ EntriesAreAnswers
      /\ IsFiniteSet(Catalogue!Identities)
      /\ nextRevision' = nextRevision /\ inFlight' = inFlight
      /\ now' = now /\ credential' = credential /\ offered' = offered
  BY DEF CatalogueInv, Catalogue!MarkStale, Catalogue!Purge, Catalogue!worldVars
<1>2. PICK k \in Catalogue!Identities :
        \/ /\ entries' = [entries EXCEPT ![k].invalidated = TRUE] /\ accepted' = accepted
        \/ /\ entries' = [entries EXCEPT ![k] = NoEntry]
           /\ accepted' = [accepted EXCEPT ![k] = NoEntry]
  BY DEF Catalogue!MarkStale, Catalogue!Purge
<1>3. k \in Connections /\ entries[k] \in Catalogue!Snapshots /\ entries[k] # NoEntry
  BY <1>1 DEF Catalogue!Identities, EntriesAreAnswers
<1>4. /\ [entries[k] EXCEPT !.invalidated = TRUE] \in Catalogue!Snapshots
      /\ [entries[k] EXCEPT !.invalidated = TRUE].invalidated = TRUE
      /\ \A e \in {[entries[k] EXCEPT !.invalidated = TRUE]} :
            /\ e.page = entries[k].page /\ e.checkedAt = entries[k].checkedAt
            /\ e.credential = entries[k].credential /\ e.expiresAt = entries[k].expiresAt
  BY <1>3 DEF Catalogue!Snapshots
<1>5. /\ entries' \in [Connections -> Catalogue!Snapshots \cup {NoEntry}]
      /\ accepted' \in [Connections -> Catalogue!Refreshes \cup {NoEntry}]
      /\ \A c \in Connections \ {k} : entries'[c] = entries[c] /\ accepted'[c] = accepted[c]
      /\ entries'[k] = NoEntry \/ /\ entries'[k] = [entries[k] EXCEPT !.invalidated = TRUE]
                                  /\ accepted'[k] = accepted[k]
  BY <1>1, <1>2, <1>3, <1>4 DEF Catalogue!TypeOK
<1>6. Catalogue!Identities' \subseteq Catalogue!Identities
  BY <1>3, <1>5 DEF Catalogue!Identities
<1>7. /\ IsFiniteSet(Catalogue!Identities') /\ Cardinality(Catalogue!Identities') <= MaxIdentities
  <2>1. IsFiniteSet(Catalogue!Identities')
        /\ Cardinality(Catalogue!Identities') <= Cardinality(Catalogue!Identities)
    BY <1>1, <1>6, FS_Subset
  <2>2. Cardinality(Catalogue!Identities') \in Nat /\ Cardinality(Catalogue!Identities) \in Nat
    BY <1>1, <2>1, FS_CardinalityType
  <2>3. Cardinality(Catalogue!Identities) <= MaxIdentities /\ MaxIdentities \in Nat
    BY <1>1, SameCardinality DEF Catalogue!TypeOK, Catalogue!CacheAssumption
  <2> QED BY <2>1, <2>2, <2>3
<1>8. Catalogue!TypeOK'
  BY <1>1, <1>5, <1>7, SameCardinality DEF Catalogue!TypeOK
<1>9. ASSUME NEW c \in Catalogue!Identities'
      PROVE  /\ c \in Catalogue!Identities /\ c \in Connections /\ accepted'[c] = accepted[c]
             /\ entries'[c] \in Catalogue!Snapshots
             /\ entries'[c].page = entries[c].page /\ entries'[c].checkedAt = entries[c].checkedAt
             /\ entries'[c].credential = entries[c].credential
             /\ entries'[c].expiresAt = entries[c].expiresAt
  <2>1. c \in Catalogue!Identities /\ c \in Connections /\ entries'[c] # NoEntry
    BY <1>6 DEF Catalogue!Identities
  <2>2. CASE c = k
    BY <1>4, <1>5, <2>1, <2>2
  <2>3. CASE c # k
    BY <1>1, <1>5, <2>1, <2>3 DEF EntriesAreAnswers
  <2> QED BY <2>2, <2>3
<1>10. EntriesAreAnswers'
  BY <1>1, <1>9 DEF EntriesAreAnswers
<1>11. \A c \in Connections : Asks(c)' \subseteq Asks(c)
  BY <1>1, <1>9 DEF Asks
<1>12. AsksAreOrdered'
  BY <1>1, <1>11, AskFacts DEF AsksAreOrdered, Fits, IsPast, Ordered
<1>13. Catalogue!CataloguesNeverRegress
  <2> SUFFICES ASSUME NEW c \in Catalogue!Identities, entries'[c] # NoEntry
               PROVE  entries[c].page <= entries'[c].page
    BY DEF Catalogue!CataloguesNeverRegress
  <2>1. c \in Catalogue!Identities' /\ entries[c].page \in Nat
    BY <1>1 DEF Catalogue!Identities, EntriesAreAnswers, Catalogue!Snapshots
  <2> QED BY <1>9, <2>1
<1>14. Catalogue!FreshnessNeedsAnAnswer
  <2> SUFFICES ASSUME NEW c \in Connections, ~Catalogue!Fresh(c), Catalogue!Fresh(c)' PROVE FALSE
    BY DEF Catalogue!FreshnessNeedsAnAnswer
  <2>1. c \in Catalogue!Identities' /\ ~entries'[c].invalidated
    BY DEF Catalogue!Fresh
  <2>2. c # k
    BY <1>4, <1>5, <2>1 DEF Catalogue!Identities
  <2>3. entries'[c] = entries[c]
    BY <1>5, <2>2
  <2> QED BY <1>1, <1>9, <2>1, <2>3 DEF Catalogue!Fresh
<1> QED BY <1>1, <1>7, <1>8, <1>10, <1>12, <1>13, <1>14 DEF CatalogueInv, AskedDynamically

(* Time, credentials and models go on. *)
LEMMA WorldKeeps ==
    ASSUME Catalogue!CacheAssumption, CatalogueInv,
           Catalogue!Tick \/ Catalogue!Rotate \/ Catalogue!Change,
           UNCHANGED <<Catalogue!cacheVars, inFlight>>
    PROVE  CatalogueInv' /\ Catalogue!CataloguesNeverRegress /\ Catalogue!FreshnessNeedsAnAnswer
<1>1. /\ Catalogue!TypeOK /\ AsksAreOrdered /\ EntriesAreAnswers
      /\ IsFiniteSet(Catalogue!Identities)
      /\ entries' = entries /\ nextRevision' = nextRevision /\ accepted' = accepted
      /\ inFlight' = inFlight
  BY DEF CatalogueInv, Catalogue!cacheVars
<1>2. Catalogue!Identities' = Catalogue!Identities
  BY <1>1 DEF Catalogue!Identities
<1>3. /\ now' \in 0..MaxClock /\ now' \in Nat /\ now \in Nat /\ now <= now'
      /\ credential' \in [Connections -> 0..MaxCredential]
      /\ offered' \in [Connections -> 0..MaxPage]
      /\ \A k \in Connections :
            /\ credential[k] \in Nat /\ credential'[k] \in Nat /\ credential[k] <= credential'[k]
            /\ offered[k] \in Nat /\ offered'[k] \in Nat /\ offered[k] <= offered'[k]
  BY <1>1 DEF Catalogue!Tick, Catalogue!Rotate, Catalogue!Change, Catalogue!TypeOK,
              Catalogue!CacheAssumption
<1>4. Catalogue!TypeOK'
  BY <1>1, <1>2, <1>3, SameCardinality DEF Catalogue!TypeOK
<1>5. EntriesAreAnswers'
  BY <1>1, <1>2 DEF EntriesAreAnswers
<1>6. \A k \in Connections : Asks(k)' = Asks(k)
  BY <1>1, <1>2 DEF Asks
<1>7. AsksAreOrdered'
  <2> SUFFICES ASSUME NEW k \in Connections, NEW r \in Asks(k) PROVE Fits(r)'
    BY <1>6 DEF AsksAreOrdered
  <2>1. r \in Catalogue!Refreshes /\ r.key = k /\ Fits(r)
    BY <1>1, AskFacts DEF AsksAreOrdered
  <2>2. r.checkedAt \in Nat /\ r.credential \in Nat /\ r.page \in Nat
    BY <2>1 DEF Catalogue!Refreshes
  <2>3. IsPast(r)'
    BY <1>3, <2>1, <2>2 DEF Fits, IsPast
  <2> QED BY <1>6, <2>1, <2>3 DEF Fits, Ordered
<1>8. \A k \in Catalogue!Identities :
        /\ k \in Connections /\ accepted[k] \in Asks(k)
        /\ entries[k].page \in Nat /\ entries[k].checkedAt \in Nat
        /\ entries[k].credential \in Nat /\ entries[k].expiresAt \in Nat
        /\ entries[k].checkedAt <= now /\ entries[k].credential <= credential[k]
  <2> SUFFICES ASSUME NEW k \in Catalogue!Identities
               PROVE  /\ k \in Connections /\ accepted[k] \in Asks(k)
                      /\ entries[k].page \in Nat /\ entries[k].checkedAt \in Nat
                      /\ entries[k].credential \in Nat /\ entries[k].expiresAt \in Nat
                      /\ entries[k].checkedAt <= now /\ entries[k].credential <= credential[k]
    OBVIOUS
  <2>1. k \in Connections /\ accepted[k] \in Asks(k)
    BY DEF Catalogue!Identities, Asks
  <2>2. entries[k].page \in Nat /\ entries[k].checkedAt \in Nat
        /\ entries[k].credential \in Nat /\ entries[k].expiresAt \in Nat
    BY <1>1 DEF EntriesAreAnswers, Catalogue!Snapshots
  <2>3. IsPast(accepted[k]) /\ accepted[k].key = k
    BY <1>1, <2>1, AskFacts DEF AsksAreOrdered, Fits
  <2> QED BY <1>1, <2>1, <2>2, <2>3 DEF EntriesAreAnswers, IsPast
<1>9. Catalogue!CataloguesNeverRegress
  BY <1>1, <1>8 DEF Catalogue!CataloguesNeverRegress
<1>10. Catalogue!FreshnessNeedsAnAnswer
  <2> SUFFICES ASSUME NEW k \in Connections, ~Catalogue!Fresh(k), Catalogue!Fresh(k)' PROVE FALSE
    BY DEF Catalogue!FreshnessNeedsAnAnswer
  <2>1. /\ k \in Catalogue!Identities /\ ~entries[k].invalidated
        /\ entries[k].credential = credential'[k] /\ now' < entries[k].expiresAt
    BY <1>1, <1>2 DEF Catalogue!Fresh
  <2>2. entries[k].credential = credential[k] /\ now < entries[k].expiresAt
    BY <1>3, <1>8, <2>1
  <2> QED BY <1>8, <2>1, <2>2 DEF Catalogue!Fresh
<1> QED BY <1>1, <1>2, <1>4, <1>5, <1>7, <1>9, <1>10 DEF CatalogueInv, AskedDynamically

LEMMA CatalogueStarts == ASSUME Catalogue!CacheAssumption, Catalogue!Init PROVE CatalogueInv
<1>1. Catalogue!Identities = {}
  BY DEF Catalogue!Init, Catalogue!Identities
<1>2. IsFiniteSet({}) /\ Cardinality({}) = 0
  BY FS_EmptySet
<1>3. /\ Catalogue!TypeOK
  BY <1>1, <1>2, SameCardinality DEF Catalogue!Init, Catalogue!TypeOK, Catalogue!CacheAssumption
<1>4. \A k \in Connections : Asks(k) = {}
  BY <1>1 DEF Catalogue!Init, Asks
<1>5. AskedDynamically
  BY DEF Catalogue!Init, AskedDynamically
<1> QED BY <1>1, <1>2, <1>3, <1>4, <1>5 DEF CatalogueInv, EntriesAreAnswers, AsksAreOrdered

LEMMA CatalogueKeeps ==
    ASSUME Catalogue!CacheAssumption, CatalogueInv, [Catalogue!Next]_Catalogue!vars
    PROVE  CatalogueInv' /\ Catalogue!CataloguesNeverRegress /\ Catalogue!FreshnessNeedsAnAnswer
<1>1. /\ Catalogue!TypeOK /\ AsksAreOrdered
  BY DEF CatalogueInv
<1>2. CASE Catalogue!Declare
  <2>1. PICK k \in Connections : Catalogue!Put(Catalogue!Refresh(k, "declared"))
    BY <1>2 DEF Catalogue!Declare
  <2>2. inFlight' = inFlight /\ UNCHANGED Catalogue!worldVars
    BY <1>2 DEF Catalogue!Declare
  <2> QED BY <1>1, <2>1, <2>2, PutKeeps, RefreshFacts, RefreshFits
<1>3. CASE Catalogue!Ask
  BY <1>3, RefreshAsked
<1>4. CASE Catalogue!Answer
  <2>1. PICK r \in inFlight : Catalogue!Put(r) /\ inFlight' = inFlight \ {r}
    BY <1>4 DEF Catalogue!Answer
  <2>2. r \in Catalogue!Refreshes /\ r.key \in Connections /\ UNCHANGED Catalogue!worldVars
    BY <1>1, <1>4 DEF Catalogue!Answer, Catalogue!TypeOK, Catalogue!Refreshes
  <2>3. Fits(r)
    BY <1>1, <2>2 DEF AsksAreOrdered, Asks
  <2> QED BY <2>1, <2>2, <2>3, PutKeeps DEF CatalogueInv, AskedDynamically
<1>5. CASE Catalogue!MarkStale \/ Catalogue!Purge
  BY <1>5, ForgettingKeeps
<1>6. CASE /\ Catalogue!Tick \/ Catalogue!Rotate \/ Catalogue!Change
           /\ UNCHANGED <<Catalogue!cacheVars, inFlight>>
  BY <1>6, WorldKeeps
<1>7. CASE UNCHANGED Catalogue!vars
  <2>1. /\ entries' = entries /\ nextRevision' = nextRevision /\ accepted' = accepted
        /\ now' = now /\ credential' = credential /\ offered' = offered /\ inFlight' = inFlight
    BY <1>7 DEF Catalogue!vars
  <2>2. \A k \in Catalogue!Identities : entries[k].page \in Nat
    BY DEF CatalogueInv, EntriesAreAnswers, Catalogue!Snapshots
  <2>3. Catalogue!CataloguesNeverRegress /\ Catalogue!FreshnessNeedsAnAnswer
    BY <2>1, <2>2
       DEF Catalogue!CataloguesNeverRegress, Catalogue!FreshnessNeedsAnAnswer, Catalogue!Fresh,
           Catalogue!Identities
  <2>4. CatalogueInv'
    BY <2>1, SameCardinality
       DEF CatalogueInv, Catalogue!TypeOK, Catalogue!Identities, EntriesAreAnswers, AsksAreOrdered, Asks,
           Fits, IsPast, Ordered, AskedDynamically
  <2> QED BY <2>3, <2>4
<1> QED BY <1>2, <1>3, <1>4, <1>5, <1>6, <1>7 DEF Catalogue!Next

LEMMA FreshIsAnswered ==
    ASSUME Catalogue!CacheAssumption, CatalogueInv
    PROVE  Catalogue!TypeOK /\ Catalogue!FreshIsEntitled
<1> SUFFICES ASSUME NEW k \in Connections, Catalogue!Fresh(k)
             PROVE  /\ accepted[k].credential = credential[k]
                    /\ accepted[k].policy = "dynamic" => now < accepted[k].checkedAt + Ttl
                    /\ accepted[k].policy = "declared" => k \in Declared
  BY DEF CatalogueInv, Catalogue!FreshIsEntitled
<1> QED BY DEF Catalogue!Fresh, CatalogueInv, EntriesAreAnswers

(* Whatever order the answers arrive in, and whatever rotates, passes or is *)
(* purged in between: what the cache calls fresh was asked for with the     *)
(* credentials of now, no answer replaces a newer one, and only an answer   *)
(* makes an entry fresh.                                                    *)
THEOREM CataloguesStayCurrent ==
    ASSUME Catalogue!CacheAssumption
    PROVE  Catalogue!Spec => CataloguesAreCurrent
<1>1. Catalogue!Init => CatalogueInv
  BY CatalogueStarts
<1>2. CatalogueInv /\ [Catalogue!Next]_Catalogue!vars => CatalogueInv'
  BY CatalogueKeeps
<1>3. CatalogueInv => Catalogue!TypeOK /\ Catalogue!FreshIsEntitled
  BY FreshIsAnswered
<1>4. CatalogueInv /\ [Catalogue!Next]_Catalogue!vars
        => [Catalogue!CataloguesNeverRegress /\ Catalogue!FreshnessNeedsAnAnswer]_Catalogue!vars
  BY CatalogueKeeps
<1> QED BY <1>1, <1>2, <1>3, <1>4, PTL DEF Catalogue!Spec, Catalogue!CataloguesAreCurrent, CataloguesAreCurrent

-----------------------------------------------------------------------------
(***************************************************************************)
(* Project storage.  The lock has one holder, what it read inside its      *)
(* transaction is the last committed state, and what it writes follows     *)
(* from that state by the request alone.                                   *)
(***************************************************************************)
CONSTANTS Callers, Sessions, RecordKeys, Values, Project, Elsewhere, Asked, MaxVersion, MaxCommits

VARIABLES past, shape, held, call, answers

Members == INSTANCE ProjectStorage WITH
    Keys <- RecordKeys, MaxRevision <- MaxVersion, lock <- held

(* Reads are of one committed state in which the reader is a member, no     *)
(* commit loses an earlier one, an acknowledged change is whole in the      *)
(* history, and a revocation stops the writes behind it.                    *)
ProjectIsSerializable == Members!ProjectIsSerializable

(* What a commit of a request does to the database. *)
Changed(d, e, request) ==
    IF request.kind = "set"
    THEN /\ d.member[request.session].revision = request.expected
         /\ e.member[request.session] =
               [revision |-> request.expected + 1, active |-> request.active]
         /\ \A s \in Sessions \ {request.session} : e.member[s] = d.member[s]
         /\ e.records = d.records
    ELSE /\ request.as \in Sessions => d.member[request.as].active
         /\ e.member = d.member
         /\ \A i \in DOMAIN request.edits :
               LET edit == request.edits[i] IN
               /\ d.records[edit.key].revision = edit.expected
               /\ e.records[edit.key] = [revision |-> edit.expected + 1, data |-> edit.data]
         /\ \A k \in RecordKeys : (\A i \in DOMAIN request.edits : request.edits[i].key # k)
                               => e.records[k] = d.records[k]

Writes(r) == r.request.kind \in {"write", "set"}

Calls == [step : Members!Steps \ {"idle"}, request : Members!Requests, since : Nat,
          view : Members!Databases]

CallOK(r) ==
    /\ r \in Calls /\ Members!Entitled(r.request) /\ r.since \in 1 .. Len(past)
    /\ r.request.kind \in Members!Reads /\ r.step = "authorized" =>
          \E i \in r.since .. Len(past) :
             /\ past[i] = r.view
             /\ r.request.as \in Sessions => past[i].member[r.request.as].active
    /\ Writes(r) /\ r.step = "authorized" => r.view = past[Len(past)]
    /\ r.step = "written" => Writes(r) /\ Changed(past[Len(past)], r.view, r.request)
    /\ r.step = "committed" => Writes(r) /\
          \E i \in r.since .. Len(past) - 1 : Changed(past[i], past[i + 1], r.request)

Writer(c) == call[c] # Members!Idle /\ Writes(call[c]) /\ call[c].step \in {"authorized", "written"}

CallsOK ==
    /\ call \in [Callers -> {Members!Idle} \cup Calls]
    /\ \A c \in Callers : call[c] # Members!Idle => CallOK(call[c])
    /\ held = {c \in Callers : Writer(c)}
    /\ \A c, d \in held : c = d

AnswersOK ==
    /\ \A a \in answers : a.request \in Members!Requests /\ a.since \in 1 .. Len(past)
    /\ Members!ReadsAreOfOneState /\ Members!AcknowledgedChangesAreWhole /\ Members!MembersAreTold

PastOK ==
    /\ past \in Seq(Members!Databases) /\ past # <<>>
    /\ shape \in {"none", "ok", "foreign"}
    /\ Members!NothingIsOverwritten

MembersInv == PastOK /\ CallsOK /\ AnswersOK

(* A step that leaves the history alone, and the calls of the others. *)
LEMMA MemberOthersKeep ==
    ASSUME CallsOK, NEW c \in Callers, past' = past,
           NEW r \in {Members!Idle} \cup Calls, call' = [call EXCEPT ![c] = r],
           r # Members!Idle => CallOK(r),
           held' = IF r # Members!Idle /\ Writes(r) /\ r.step \in {"authorized", "written"}
                   THEN held \cup {c} ELSE held \ {c},
           r # Members!Idle /\ Writes(r) /\ r.step \in {"authorized", "written"} => held \subseteq {c}
    PROVE  CallsOK'
<1>1. /\ call' \in [Callers -> {Members!Idle} \cup Calls]
      /\ call'[c] = r /\ \A d \in Callers \ {c} : call'[d] = call[d]
  BY DEF CallsOK
<1>2. \A d \in Callers : call'[d] # Members!Idle => CallOK(call'[d])
  BY <1>1 DEF CallsOK
<1>3. \A d \in Callers : call'[d] # Members!Idle => CallOK(call[d])' 
  BY <1>2 DEF CallOK
<1>4. held' = {d \in Callers : Writer(d)'}
  BY <1>1 DEF CallsOK, Writer
<1>5. \A d, e \in held' : d = e
  BY DEF CallsOK
<1> QED BY <1>1, <1>3, <1>4, <1>5 DEF CallsOK

LEMMA MemberCallFacts ==
    ASSUME NEW r \in Calls
    PROVE  /\ r.step \in Members!Steps \ {"idle"} /\ r.request \in Members!Requests
           /\ r.since \in Nat /\ r.view \in Members!Databases /\ r # Members!Idle
<1>1. /\ r.step \in Members!Steps \ {"idle"} /\ r.request \in Members!Requests
      /\ r.since \in Nat /\ r.view \in Members!Databases
  BY DEF Calls
<1>2. r # Members!Idle
  BY <1>1 DEF Members!Idle
<1> QED BY <1>1, <1>2

LEMMA MemberStepFacts ==
    ASSUME NEW r \in Calls, NEW step \in Members!Steps \ {"idle"}
    PROVE  LET z == [r EXCEPT !.step = step] IN
           /\ z \in Calls /\ z # Members!Idle /\ z.step = step /\ z.request = r.request
           /\ z.since = r.since /\ z.view = r.view
<1> DEFINE z == [r EXCEPT !.step = step]
<1>1. /\ z \in Calls /\ z.step = step /\ z.request = r.request /\ z.since = r.since /\ z.view = r.view
  BY DEF Calls
<1> QED BY <1>1, MemberCallFacts

LEMMA MemberViewFacts ==
    ASSUME NEW r \in Calls, NEW step \in Members!Steps \ {"idle"}, NEW view \in Members!Databases
    PROVE  LET z == [r EXCEPT !.step = step, !.view = view] IN
           /\ z \in Calls /\ z # Members!Idle /\ z.step = step /\ z.request = r.request
           /\ z.since = r.since /\ z.view = view
<1> DEFINE z == [r EXCEPT !.step = step, !.view = view]
<1>1. /\ z \in Calls /\ z.step = step /\ z.request = r.request /\ z.since = r.since /\ z.view = view
  BY DEF Calls
<1> QED BY <1>1, MemberCallFacts

LEMMA MemberStepNames == {"opening", "open", "authorized", "written", "committed"} = Members!Steps \ {"idle"}
  BY DEF Members!Steps

LEMMA MemberQuietAnswers == ASSUME answers' = {} PROVE AnswersOK'
  BY DEF AnswersOK, Members!ReadsAreOfOneState, Members!AcknowledgedChangesAreWhole, Members!MembersAreTold

(* A call of c that is under way. *)
LEMMA MembersHere ==
    ASSUME CallsOK, NEW c \in Callers, call[c].step # "idle"
    PROVE  call[c] \in Calls /\ CallOK(call[c])
<1>1. call[c] # Members!Idle
  BY DEF Members!Idle
<1> QED BY <1>1 DEF CallsOK

LEMMA MemberAskKeeps ==
    ASSUME MembersInv, Members!AskedAssumption, NEW c \in Callers, NEW request \in Asked, Members!Ask(c, request)
    PROVE  MembersInv'
<1> DEFINE r == [step |-> "opening", request |-> request, since |-> Len(past), view |-> Head(past)]
<1>1. /\ call' = [call EXCEPT ![c] = r] /\ past' = past /\ shape' = shape /\ held' = held
      /\ answers' = {} /\ Members!Entitled(request) /\ call[c] = Members!Idle
  BY DEF Members!Ask, Members!Unanswered
<1>2. PastOK /\ CallsOK
  BY DEF MembersInv
<1>3. /\ request \in Members!Requests /\ Head(past) \in Members!Databases
      /\ Len(past) \in Nat /\ Len(past) \in 1 .. Len(past)
  BY <1>2 DEF Members!AskedAssumption, PastOK
<1>4. r \in Calls /\ r # Members!Idle
  BY <1>3, MemberCallFacts DEF Calls, Members!Steps
<1>5. CallOK(r)
  BY <1>1, <1>3, <1>4 DEF CallOK
<1>6. held' = held \ {c}
  BY <1>1, <1>2 DEF CallsOK, Writer
<1>7. CallsOK'
  BY <1>1, <1>2, <1>4, <1>5, <1>6, MemberOthersKeep
<1> QED BY <1>1, <1>2, <1>7, MemberQuietAnswers DEF MembersInv, PastOK, Members!NothingIsOverwritten,
           Members!Changes, Members!MembershipOf

(* Steps that leave the history alone and answer nothing. *)
LEMMA MemberAloneKeeps ==
    ASSUME MembersInv, NEW c \in Callers, past' = past, shape' \in {"none", "ok", "foreign"}, answers' = {},
           CallsOK'
    PROVE  MembersInv'
  BY MemberQuietAnswers DEF MembersInv, PastOK, Members!NothingIsOverwritten, Members!Changes, Members!MembershipOf

LEMMA MemberOpenKeeps == ASSUME MembersInv, NEW c \in Callers, Members!Open(c) PROVE MembersInv'
<1> DEFINE r == [call[c] EXCEPT !.step = "open"]
<1>1. /\ call[c].step = "opening" /\ call' = [call EXCEPT ![c] = r] /\ past' = past
      /\ shape' = "ok" /\ held' = held /\ answers' = {}
  BY DEF Members!Open, Members!GoTo, Members!Unanswered
<1>2. CallsOK /\ call[c] \in Calls /\ CallOK(call[c])
  BY <1>1, MembersHere DEF MembersInv
<1>3. /\ r \in Calls /\ r # Members!Idle /\ r.step = "open" /\ r.request = call[c].request
      /\ r.since = call[c].since /\ r.view = call[c].view
  BY <1>2, MemberStepNames, MemberStepFacts
<1> HIDE DEF r
<1>4. CallOK(r)
  BY <1>2, <1>3 DEF CallOK
<1>5. held' = held \ {c}
  BY <1>1, <1>2 DEF CallsOK, Writer
<1>6. CallsOK'
  BY <1>1, <1>2, <1>3, <1>4, <1>5, MemberOthersKeep
<1> QED BY <1>1, <1>6, MemberAloneKeeps

LEMMA MemberAuthorizeKeeps ==
    ASSUME Members!ProjectStorageAssumption, MembersInv, NEW c \in Callers, Members!Authorize(c)
    PROVE  MembersInv'
<1> DEFINE d == past[Len(past)]
           r == [call[c] EXCEPT !.step = "authorized", !.view = d]
<1>1. /\ call[c].step = "open" /\ call' = [call EXCEPT ![c] = r] /\ past' = past
      /\ shape' = shape /\ held' = held /\ answers' = {}
      /\ call[c].request.kind \in Members!Reads
  BY DEF Members!Authorize, Members!Unanswered, Members!Committed, Members!Last
<1>2. /\ PastOK /\ CallsOK /\ call[c] \in Calls /\ CallOK(call[c])
  BY <1>1, MembersHere DEF MembersInv
<1>3. d \in Members!Databases /\ Len(past) \in Nat \ {0} /\ d = past[Len(past)]
  BY <1>2 DEF PastOK
<1> HIDE DEF d
<1>4. /\ r \in Calls /\ r # Members!Idle /\ r.step = "authorized" /\ r.request = call[c].request
      /\ r.since = call[c].since /\ r.view = d
  <2>1. "authorized" \in Members!Steps \ {"idle"}
    BY MemberStepNames
  <2>2. call[c] \in Calls /\ d \in Members!Databases
    BY <1>2, <1>3
  <2>3. r \in Calls /\ r.step = "authorized" /\ r.request = call[c].request
        /\ r.since = call[c].since /\ r.view = d
    BY ONLY <2>1, <2>2 DEF Calls
  <2> QED BY <2>3, MemberCallFacts
<1> HIDE DEF r
<1>5. r.request.as \in Sessions => past[Len(past)].member[r.request.as].active
  BY <1>3, <1>4 DEF Members!Authorize, Members!Committed, Members!Last, Members!ProjectStorageAssumption
<1>6. CallOK(r)
  BY <1>1, <1>2, <1>3, <1>4, <1>5 DEF CallOK, Members!Reads, Writes
<1>7. held' = held \ {c} /\ ~Writes(r)
  BY <1>1, <1>2, <1>4 DEF CallsOK, Writer, Writes, Members!Reads
<1>8. CallsOK'
  BY <1>1, <1>2, <1>4, <1>6, <1>7, MemberOthersKeep
<1> QED BY <1>1, <1>2, <1>8, MemberAloneKeeps DEF PastOK

(* A call that ends, with an answer or without. *)
LEMMA MemberLeaveKeeps ==
    ASSUME MembersInv, NEW c \in Callers, NEW answer, Members!Leave(c, answer), past' = past
    PROVE  CallsOK'
<1>1. CallsOK /\ call' = [call EXCEPT ![c] = Members!Idle] /\ held' = held \ {c}
  BY DEF MembersInv, Members!Leave
<1> QED BY <1>1, MemberOthersKeep

LEMMA MemberFailKeeps == ASSUME MembersInv, NEW c \in Callers, Members!Fail(c) PROVE MembersInv'
  BY MemberLeaveKeeps, MemberAloneKeeps DEF Members!Fail, Members!Leave, MembersInv, PastOK

LEMMA MemberBeginKeeps == ASSUME MembersInv, NEW c \in Callers, Members!Begin(c) PROVE MembersInv'
<1> DEFINE d == past[Len(past)]
           r == [call[c] EXCEPT !.step = "authorized", !.view = d]
<1>1. /\ call[c].step = "open" /\ call' = [call EXCEPT ![c] = r] /\ past' = past
      /\ shape' = shape /\ held = {} /\ held' = {c} /\ answers' = {} /\ Writes(call[c])
  BY DEF Members!Begin, Members!Unanswered, Members!Committed, Members!Last, Writes
<1>2. /\ PastOK /\ CallsOK /\ call[c] \in Calls /\ CallOK(call[c])
  BY <1>1, MembersHere DEF MembersInv
<1>3. d \in Members!Databases /\ Len(past) \in Nat \ {0} /\ d = past[Len(past)]
  BY <1>2 DEF PastOK
<1> HIDE DEF d
<1>4. /\ r \in Calls /\ r # Members!Idle /\ r.step = "authorized" /\ r.request = call[c].request
      /\ r.since = call[c].since /\ r.view = d
  <2>1. "authorized" \in Members!Steps \ {"idle"}
    BY MemberStepNames
  <2>2. call[c] \in Calls /\ d \in Members!Databases
    BY <1>2, <1>3
  <2>3. r \in Calls /\ r.step = "authorized" /\ r.request = call[c].request
        /\ r.since = call[c].since /\ r.view = d
    BY ONLY <2>1, <2>2 DEF Calls
  <2> QED BY <2>3, MemberCallFacts
<1> HIDE DEF r
<1>5. CallOK(r) /\ Writes(r)
  BY <1>1, <1>2, <1>3, <1>4 DEF CallOK, Members!Reads, Writes
<1>6. CallsOK'
  BY <1>1, <1>2, <1>4, <1>5, MemberOthersKeep
<1> QED BY <1>1, <1>2, <1>6, MemberAloneKeeps DEF PastOK

(* A reader is answered from one state of the history. *)
LEMMA MemberSelectKeeps == ASSUME MembersInv, NEW c \in Callers, Members!Select(c) PROVE MembersInv'
<1>1. /\ call[c].step = "authorized" /\ call[c].request.kind \in Members!Reads
      /\ past' = past /\ shape' = shape
      /\ Members!Leave(c, {Members!Answer(c, call[c].view.records[call[c].request.key])})
  BY DEF Members!Select
<1>2. CallOK(call[c]) /\ call[c] \in Calls
  BY <1>1, MembersHere DEF MembersInv
<1>3. PICK i \in call[c].since .. Len(past) :
        /\ past[i] = call[c].view
        /\ call[c].request.as \in Sessions => past[i].member[call[c].request.as].active
  BY <1>1, <1>2, Zenon DEF CallOK
<1>4. ASSUME NEW a \in answers'
      PROVE  /\ a.request = call[c].request /\ a.since = call[c].since
             /\ a.result = past[i].records[a.request.key]
  BY <1>1, <1>3 DEF Members!Leave, Members!Answer
<1>5. AnswersOK'
  <2> DEFINE asked == call[c].request
  <2>1. /\ asked.kind \in {"read", "observe"} /\ asked \in Members!Requests
        /\ call[c].since \in 1 .. Len(past) /\ i \in call[c].since .. Len(past)
        /\ asked.as \in Sessions => past[i].member[asked.as].active
    BY <1>1, <1>2, <1>3 DEF CallOK, Calls, Members!Reads
  <2> HIDE DEF asked
  <2>2. ASSUME NEW a \in answers'
        PROVE  a.request = asked /\ a.since = call[c].since /\ a.result = past[i].records[a.request.key]
    BY <1>4 DEF asked
  <2>3. \A a \in answers' : a.request \in Members!Requests /\ a.since \in 1 .. Len(past)
    BY ONLY <2>1, <2>2
  <2>4. Members!ReadsAreOfOneState'
    BY ONLY <1>1, <2>1, <2>2, Zenon DEF Members!ReadsAreOfOneState, Members!MembershipOf
  <2>5. Members!AcknowledgedChangesAreWhole' /\ Members!MembersAreTold'
    BY ONLY <2>1, <2>2 DEF Members!AcknowledgedChangesAreWhole, Members!MembersAreTold
  <2> QED BY <1>1, <2>3, <2>4, <2>5, Zenon DEF AnswersOK
<1> QED BY <1>1, <1>5, MemberLeaveKeeps
        DEF MembersInv, PastOK, Members!NothingIsOverwritten, Members!Changes, Members!MembershipOf

LEMMA MemberGetKeeps == ASSUME MembersInv, NEW c \in Callers, Members!Get(c) PROVE MembersInv'
<1>1. /\ call[c].step = "open" /\ call[c].request.kind = "get"
      /\ past' = past /\ shape' = shape
      /\ past[Len(past)].member[call[c].request.session].active
      /\ Members!Leave(c, {Members!Answer(c, past[Len(past)].member[call[c].request.session])})
  BY DEF Members!Get, Members!Committed, Members!Last
<1>2. CallOK(call[c]) /\ call[c] \in Calls /\ Len(past) \in Nat
  BY <1>1, MembersHere DEF MembersInv, PastOK
<1>3. call[c].request.as = call[c].request.session
  BY <1>1, <1>2 DEF CallOK, Members!Entitled
<1>4. ASSUME NEW a \in answers'
      PROVE  /\ a.request = call[c].request /\ a.since = call[c].since
             /\ a.result = past[Len(past)].member[a.request.as]
  BY <1>1, <1>3 DEF Members!Leave, Members!Answer
<1>5. call[c].since \in 1 .. Len(past) /\ Len(past) \in call[c].since .. Len(past)
  BY <1>2 DEF CallOK
<1>6. AnswersOK'
  <2> DEFINE asked == call[c].request
  <2>1. /\ asked.kind = "get" /\ asked \in Members!Requests /\ past[Len(past)].member[asked.as].active
    BY <1>1, <1>2, <1>3 DEF Calls
  <2> HIDE DEF asked
  <2>2. ASSUME NEW a \in answers'
        PROVE  a.request = asked /\ a.since = call[c].since /\ a.result = past[Len(past)].member[asked.as]
    BY <1>4 DEF asked
  <2>3. \A a \in answers' : a.request \in Members!Requests /\ a.since \in 1 .. Len(past)
    BY ONLY <1>5, <2>1, <2>2
  <2>4. Members!MembersAreTold'
    BY ONLY <1>1, <1>5, <2>1, <2>2, Zenon DEF Members!MembersAreTold, Members!MembershipOf
  <2>5. Members!AcknowledgedChangesAreWhole' /\ Members!ReadsAreOfOneState'
    BY ONLY <2>1, <2>2 DEF Members!AcknowledgedChangesAreWhole, Members!ReadsAreOfOneState, Members!Reads
  <2> QED BY <1>1, <2>3, <2>4, <2>5, Zenon DEF AnswersOK
<1> QED BY <1>1, <1>6, MemberLeaveKeeps
        DEF MembersInv, PastOK, Members!NothingIsOverwritten, Members!Changes, Members!MembershipOf

(* The writer's copy is what its commit will make of the database. *)
LEMMA MemberSetKeeps == ASSUME MembersInv, NEW c \in Callers, Members!Set(c) PROVE MembersInv'
<1> DEFINE request == call[c].request
           d == call[c].view
           e == [d EXCEPT !.member[request.session] =
                    [revision |-> request.expected + 1, active |-> request.active]]
           r == [call[c] EXCEPT !.step = "written", !.view = e]
<1>1. /\ call[c].step = "authorized" /\ request.kind = "set"
      /\ d.member[request.session].revision = request.expected
      /\ call' = [call EXCEPT ![c] = r] /\ past' = past
      /\ shape' = shape /\ held' = held /\ answers' = {}
  BY Zenon DEF Members!Set, Members!Unanswered
<1>2. /\ PastOK /\ CallsOK /\ call[c] \in Calls /\ CallOK(call[c])
  BY <1>1, MembersHere DEF MembersInv
<1>3. /\ request.session \in Sessions /\ request.expected \in Nat /\ request.active \in BOOLEAN
      /\ d \in Members!Databases
  BY <1>1, <1>2, MemberCallFacts DEF Members!Requests
<1>4. /\ e \in Members!Databases /\ e.records = d.records
      /\ e.member[request.session] = [revision |-> request.expected + 1, active |-> request.active]
      /\ \A s \in Sessions \ {request.session} : e.member[s] = d.member[s]
  <2>1. PICK m \in [revision : Nat, active : BOOLEAN] :
          m = [revision |-> request.expected + 1, active |-> request.active]
    <3>1. PICK v \in Nat, b \in BOOLEAN : v = request.expected /\ b = request.active
      BY ONLY <1>3, Zenon
    <3>2. [revision |-> v + 1, active |-> b] \in [revision : Nat, active : BOOLEAN]
      BY ONLY <3>1
    <3> QED BY ONLY <3>1, <3>2, Zenon
  <2>2. e = [d EXCEPT !.member[request.session] = m]
    BY ONLY <2>1
  <2>3. request.session \in Sessions /\ d \in Members!Databases
    BY ONLY <1>3
  <2> HIDE DEF d, e
  <2> QED BY ONLY <2>1, <2>2, <2>3 DEF Members!Databases
<1>5. Writes(call[c]) /\ d = past[Len(past)]
  BY <1>1, <1>2, Zenon DEF CallOK, Writes
<1>6. Changed(d, e, request)
  BY <1>1, <1>4, Zenon DEF Changed
<1> HIDE DEF d, e
<1>7. /\ r \in Calls /\ r # Members!Idle /\ r.step = "written" /\ r.request = request
      /\ r.since = call[c].since /\ r.view = e
  <2>1. call[c] \in Calls /\ e \in Members!Databases /\ "written" \in Members!Steps \ {"idle"}
    BY <1>2, <1>4, MemberStepNames
  <2>2. r \in Calls /\ r.step = "written" /\ r.request = request
        /\ r.since = call[c].since /\ r.view = e
    BY ONLY <2>1 DEF Calls
  <2> QED BY <2>2, MemberCallFacts
<1> HIDE DEF r
<1>8. CallOK(r) /\ Writes(r)
  BY <1>2, <1>5, <1>6, <1>7 DEF CallOK, Writes
<1>9. c \in held /\ held \subseteq {c} /\ held' = held \cup {c}
  BY <1>1, <1>2, <1>5, MemberCallFacts DEF CallsOK, Writer
<1>10. CallsOK'
  BY <1>1, <1>2, <1>7, <1>8, <1>9, MemberOthersKeep
<1> QED BY <1>1, <1>2, <1>10, MemberAloneKeeps DEF PastOK

LEMMA MemberWriteKeeps ==
    ASSUME Members!ProjectStorageAssumption, MembersInv, NEW c \in Callers, Members!Write(c)
    PROVE  MembersInv'
<1> DEFINE request == call[c].request
           edits == request.edits
           d == call[c].view
           written(k) == {i \in DOMAIN edits : edits[i].key = k}
           after(k) == LET i == CHOOSE i \in written(k) : TRUE
                       IN  [revision |-> edits[i].expected + 1, data |-> edits[i].data]
           rows == [k \in RecordKeys |-> IF written(k) = {} THEN d.records[k] ELSE after(k)]
           e == [d EXCEPT !.records = rows]
           r == [call[c] EXCEPT !.step = "written", !.view = e]
<1>1. /\ call[c].step = "authorized" /\ request.kind = "write"
      /\ request.as \in Sessions => d.member[request.as].active
      /\ \A i \in DOMAIN edits : d.records[edits[i].key].revision = edits[i].expected
      /\ call' = [call EXCEPT ![c] = r] /\ past' = past
      /\ shape' = shape /\ held' = held /\ answers' = {}
  BY Zenon DEF Members!Write, Members!Unanswered, Members!MayWrite, Members!Matches
<1>2. /\ PastOK /\ CallsOK /\ call[c] \in Calls /\ CallOK(call[c])
  BY <1>1, MembersHere, Zenon DEF MembersInv
<1>3. /\ d \in Members!Databases /\ call[c].request \in Members!Requests
  BY <1>2, MemberCallFacts
<1>4. /\ \A i \in DOMAIN edits : edits[i] \in Members!Edits
      /\ \A i, j \in DOMAIN edits : edits[i].key = edits[j].key => i = j
  <2>1. PICK n \in 1 .. 2 : edits \in [1 .. n -> Members!Edits]
    BY <1>1, <1>3, Zenon DEF Members!Requests
  <2>2. Members!DistinctKeys(edits)
    BY <1>1, <1>2, Zenon DEF CallOK, Members!Entitled
  <2> QED BY <2>1, <2>2 DEF Members!DistinctKeys
<1>5. ASSUME NEW i \in DOMAIN edits
      PROVE  /\ edits[i].key \in RecordKeys /\ edits[i].expected \in Nat /\ edits[i].data \in Values
             /\ rows[edits[i].key] = [revision |-> edits[i].expected + 1, data |-> edits[i].data]
  <2>1. edits[i].key \in RecordKeys /\ edits[i].expected \in Nat /\ edits[i].data \in Values
    BY <1>4 DEF Members!Edits
  <2>2. written(edits[i].key) = {i}
    BY <1>4
  <2>3. (CHOOSE j \in written(edits[i].key) : TRUE) = i
    BY <2>2
  <2> QED BY <2>1, <2>2, <2>3, Zenon
<1>6. ASSUME NEW k \in RecordKeys
      PROVE  /\ (\A i \in DOMAIN edits : edits[i].key # k) => rows[k] = d.records[k]
             /\ rows[k] \in [revision : Nat, data : Values]
  <2>1. CASE \A i \in DOMAIN edits : edits[i].key # k
    <3>1. written(k) = {} /\ d.records[k] \in [revision : Nat, data : Values]
      BY <1>3, <2>1 DEF Members!Databases
    <3> QED BY <3>1, Zenon
  <2>2. CASE \E i \in DOMAIN edits : edits[i].key = k
    <3>1. PICK i \in DOMAIN edits : edits[i].key = k
      BY <2>2
    <3> HIDE DEF rows
    <3>2. /\ rows[edits[i].key] = [revision |-> edits[i].expected + 1, data |-> edits[i].data]
          /\ edits[i].expected \in Nat /\ edits[i].data \in Values
      BY ONLY <1>5, Zenon
    <3>3. PICK x : x = edits[i]
      OBVIOUS
    <3>4. x.key = k /\ rows[x.key] = [revision |-> x.expected + 1, data |-> x.data]
          /\ x.expected \in Nat /\ x.data \in Values
      BY ONLY <3>1, <3>2, <3>3
    <3>5. rows[k] \in [revision : Nat, data : Values]
      BY ONLY <3>4
    <3> QED BY ONLY <3>1, <3>5, Zenon
  <2> QED BY <2>1, <2>2, Zenon
<1>7. rows \in [RecordKeys -> [revision : Nat, data : Values]]
  BY <1>6, Zenon
<1> HIDE DEF rows
<1>8. e \in Members!Databases /\ e.records = rows /\ e.member = d.member
  BY <1>3, <1>7 DEF Members!Databases
<1> HIDE DEF e, d
<1>9. Writes(call[c]) /\ d = past[Len(past)]
  BY <1>1, <1>2, Zenon DEF CallOK, Writes, d
<1>10. Changed(d, e, request)
  BY <1>1, <1>5, <1>6, <1>8, Zenon DEF Changed
<1>11. /\ r \in Calls /\ r # Members!Idle /\ r.step = "written" /\ r.request = request
       /\ r.since = call[c].since /\ r.view = e
  <2>1. "written" \in Members!Steps \ {"idle"}
    BY MemberStepNames
  <2>2. call[c] \in Calls /\ e \in Members!Databases
    BY <1>2, <1>8
  <2>3. r \in Calls /\ r.step = "written" /\ r.request = request
        /\ r.since = call[c].since /\ r.view = e
    BY ONLY <2>1, <2>2 DEF Calls
  <2> QED BY <2>3, MemberCallFacts
<1> HIDE DEF r
<1>12. CallOK(r) /\ Writes(r)
  BY <1>2, <1>9, <1>10, <1>11 DEF CallOK, Writes
<1>13. c \in held /\ held \subseteq {c} /\ held' = held \cup {c}
  BY <1>1, <1>2, <1>9, MemberCallFacts DEF CallsOK, Writer
<1>14. CallsOK'
  BY <1>1, <1>2, <1>11, <1>12, <1>13, MemberOthersKeep
<1> QED BY <1>1, <1>2, <1>14, MemberAloneKeeps DEF PastOK

(* A change raises the revision of what it changes, and of nothing else.     *)
LEMMA MemberChangeFacts ==
    ASSUME NEW d \in Members!Databases, NEW e \in Members!Databases, NEW request \in Members!Requests,
           Changed(d, e, request), request.kind \in {"write", "set"}
    PROVE  LET keys == {k \in RecordKeys : d.records[k] # e.records[k]}
               sessions == {s \in Sessions : d.member[s] # e.member[s]}
           IN  /\ \A k \in keys : e.records[k].revision = d.records[k].revision + 1
               /\ \A s \in sessions : e.member[s].revision = d.member[s].revision + 1
               /\ keys = {} \/ sessions = {}
<1>1. CASE request.kind = "set"
  <2>1. \A s \in Sessions : d.member[s] # e.member[s] =>
            s = request.session /\ e.member[s].revision = d.member[s].revision + 1
    BY <1>1 DEF Changed
  <2> QED BY <1>1, <2>1 DEF Changed
<1>2. CASE request.kind = "write"
  <2>1. /\ e.member = d.member
        /\ \A k \in RecordKeys : (\A i \in DOMAIN request.edits : request.edits[i].key # k)
                               => e.records[k] = d.records[k]
    BY <1>2 DEF Changed
  <2>2. ASSUME NEW i \in DOMAIN request.edits
        PROVE  e.records[request.edits[i].key].revision = d.records[request.edits[i].key].revision + 1
    <3>1. PICK edit : edit = request.edits[i]
      OBVIOUS
    <3>2. /\ d.records[edit.key].revision = edit.expected
          /\ e.records[edit.key] = [revision |-> edit.expected + 1, data |-> edit.data]
      BY <1>2, <3>1 DEF Changed
    <3>3. e.records[edit.key].revision = edit.expected + 1
      BY <3>2
    <3> QED BY <3>1, <3>2, <3>3
  <2> QED BY <2>1, <2>2
<1> QED BY <1>1, <1>2

LEMMA MemberCommitKeeps == ASSUME MembersInv, NEW c \in Callers, Members!Commit(c) PROVE MembersInv'
<1> DEFINE d == past[Len(past)]
           e == call[c].view
           r == [call[c] EXCEPT !.step = "committed"]
           n == Len(past)
<1>1. /\ call[c].step = "written" /\ call' = [call EXCEPT ![c] = r] /\ past' = Append(past, e)
      /\ shape' = shape /\ held' = held \ {c} /\ answers' = {}
  BY DEF Members!Commit, Members!Unanswered, Members!GoTo
<1>2. /\ PastOK /\ CallsOK /\ call[c] \in Calls /\ CallOK(call[c])
  BY <1>1, MembersHere DEF MembersInv
<1>3. /\ Writes(call[c]) /\ Changed(d, e, call[c].request) /\ e \in Members!Databases
      /\ call[c].request \in Members!Requests
  BY <1>1, <1>2, MemberCallFacts DEF CallOK
<1>4. /\ n \in Nat \ {0} /\ d \in Members!Databases
      /\ past' \in Seq(Members!Databases) /\ past' # <<>> /\ Len(past') = n + 1
      /\ \A i \in 1 .. n : past'[i] = past[i]
      /\ past'[n + 1] = e
  BY <1>1, <1>2, <1>3 DEF PastOK
<1> HIDE DEF d, e
<1>5. /\ r \in Calls /\ r # Members!Idle /\ r.step = "committed" /\ r.request = call[c].request
      /\ r.since = call[c].since
  <2>1. "committed" \in Members!Steps \ {"idle"}
    BY MemberStepNames
  <2> QED BY ONLY <1>2, <2>1, MemberStepFacts
<1> HIDE DEF r
<1>6. c \in held /\ held \subseteq {c}
  BY <1>1, <1>2, <1>3, MemberCallFacts DEF CallsOK, Writer
<1>7. ASSUME NEW z, z = r PROVE CallOK(z)'
  <2>1. z.since \in 1 .. n /\ Members!Entitled(z.request) /\ Writes(z) /\ z \in Calls /\ z.step = "committed"
    BY <1>2, <1>3, <1>5, <1>7 DEF CallOK, Writes
  <2>2. z.since \in 1 .. Len(past') /\ n \in z.since .. Len(past') - 1
    BY <1>4, <2>1
  <2>3. Changed(past'[n], past'[n + 1], z.request)
    BY <1>3, <1>4, <1>5, <1>7 DEF d
  <2> QED BY <2>1, <2>2, <2>3 DEF CallOK, Members!Reads, Writes
<1>8. ASSUME NEW b \in Callers \ {c}, call[b] # Members!Idle, NEW z, z = call[b] PROVE CallOK(z)'
  <2>1. z \in Calls /\ CallOK(z)
    BY <1>2, <1>8 DEF CallsOK
  <2>2. ~ (Writes(z) /\ z.step \in {"authorized", "written"})
    BY <1>2, <1>6, <1>8 DEF CallsOK, Writer
  <2>3. /\ z.step # "written" /\ (Writes(z) => z.step # "authorized")
    BY <2>1, <2>2 DEF CallOK
  <2>4. z.since \in 1 .. n /\ z.since \in Nat
    BY <2>1, MemberCallFacts DEF CallOK
  <2>5. z.since \in 1 .. Len(past')
    BY <1>4, <2>4
  <2>6. z.request.kind \in Members!Reads /\ z.step = "authorized" =>
          \E i \in z.since .. Len(past') :
             /\ past'[i] = z.view
             /\ z.request.as \in Sessions => past'[i].member[z.request.as].active
    BY <1>4, <2>1, <2>4 DEF CallOK
  <2>7. z.step = "committed" => Writes(z) /\
          \E i \in z.since .. Len(past') - 1 : Changed(past'[i], past'[i + 1], z.request)
    <3> SUFFICES ASSUME z.step = "committed"
                 PROVE  \E i \in z.since .. Len(past') - 1 : Changed(past'[i], past'[i + 1], z.request)
      BY <2>1 DEF CallOK
    <3>1. PICK i \in z.since .. Len(past) - 1 : Changed(past[i], past[i + 1], z.request)
      BY <2>1 DEF CallOK
    <3>2. i \in z.since .. Len(past') - 1 /\ past'[i] = past[i] /\ past'[i + 1] = past[i + 1]
      BY <1>4, <2>4, <3>1
    <3> QED BY <3>1, <3>2
  <2> QED BY <2>1, <2>3, <2>5, <2>6, <2>7 DEF CallOK, Writes
<1>9. CallsOK'
  <2>1. /\ call' \in [Callers -> {Members!Idle} \cup Calls]
        /\ call'[c] = r /\ \A b \in Callers \ {c} : call'[b] = call[b]
    BY <1>1, <1>2, <1>5 DEF CallsOK
  <2>2. held' = {} /\ \A b \in Callers : ~Writer(b)'
    BY <1>1, <1>2, <1>5, <1>6, <2>1 DEF CallsOK, Writer
  <2>3. ASSUME NEW b \in Callers, call'[b] # Members!Idle PROVE CallOK(call[b])'
    <3>1. PICK z : z = call'[b]
      OBVIOUS
    <3>2. CASE b = c
      <4>1. z = r
        BY <2>1, <3>1, <3>2
      <4>2. CallOK(z)'
        BY <1>7, <4>1
      <4> QED BY <3>1, <4>2
    <3>3. CASE b # c
      <4>1. z = call[b] /\ call[b] # Members!Idle
        BY <2>1, <2>3, <3>1, <3>3
      <4>2. CallOK(z)'
        BY <1>8, <3>3, <4>1
      <4> QED BY <3>1, <4>2
    <3> QED BY <3>2, <3>3
  <2> QED BY <2>1, <2>2, <2>3 DEF CallsOK
<1>10. Members!NothingIsOverwritten'
  <2> SUFFICES ASSUME NEW i \in 1 .. n
               PROVE  LET keys == {k \in RecordKeys : past'[i].records[k] # past'[i+1].records[k]}
                          sessions == {s \in Sessions : past'[i].member[s] # past'[i+1].member[s]}
                      IN  /\ \A k \in keys : past'[i+1].records[k].revision = past'[i].records[k].revision + 1
                          /\ \A s \in sessions : past'[i+1].member[s].revision = past'[i].member[s].revision + 1
                          /\ keys = {} \/ sessions = {}
    <3>1. Members!Changes' \subseteq 1 .. n
      <4>1. past' \in Seq(Members!Databases) /\ Len(past') = n + 1 /\ n \in Nat
        BY <1>4
      <4>2. DOMAIN past' = 1 .. n + 1
        BY ONLY <4>1
      <4> HIDE DEF n
      <4> QED BY ONLY <4>1, <4>2 DEF Members!Changes
    <3> QED BY <3>1, Zenon DEF Members!NothingIsOverwritten, Members!MembershipOf
  <2>1. CASE i < n
    <3>1. past'[i] = past[i] /\ past'[i + 1] = past[i + 1] /\ i \in Members!Changes
      BY <1>2, <1>4, <2>1 DEF PastOK, Members!Changes
    <3> QED BY <1>2, <3>1 DEF PastOK, Members!NothingIsOverwritten, Members!MembershipOf
  <2>2. CASE i = n
    <3>1. past'[i] = d /\ past'[i + 1] = e
      BY <1>4, <2>2 DEF d
    <3>2. call[c].request.kind \in {"write", "set"}
      BY <1>3 DEF Writes
    <3> QED BY <1>3, <1>4, <3>1, <3>2, MemberChangeFacts
  <2> QED BY <1>4, <2>1, <2>2
<1> QED BY <1>1, <1>2, <1>4, <1>9, <1>10, MemberQuietAnswers DEF MembersInv, PastOK

LEMMA MemberAcknowledgeKeeps == ASSUME MembersInv, NEW c \in Callers, Members!Acknowledge(c) PROVE MembersInv'
<1>1. /\ call[c].step = "committed" /\ past' = past /\ shape' = shape
      /\ Members!Leave(c, {Members!Answer(c, "done")})
  BY DEF Members!Acknowledge
<1>2. CallOK(call[c]) /\ call[c] \in Calls /\ Writes(call[c]) /\ Len(past) \in Nat
  BY <1>1, MembersHere DEF MembersInv, PastOK, CallOK
<1>3. PICK i \in call[c].since .. Len(past) - 1 : Changed(past[i], past[i + 1], call[c].request)
  BY <1>1, <1>2 DEF CallOK
<1>4. ASSUME NEW a \in answers' PROVE a.request = call[c].request /\ a.since = call[c].since
  BY <1>1 DEF Members!Leave, Members!Answer
<1>5. /\ i \in Members!Changes' /\ i >= call[c].since
      /\ call[c].since \in 1 .. Len(past) /\ call[c].request \in Members!Requests
  BY <1>1, <1>2, <1>3, MemberCallFacts DEF Members!Changes, CallOK
<1>6. Members!AcknowledgedChangesAreWhole'
  <2> SUFFICES ASSUME NEW a \in answers'
               PROVE  IF a.request.kind = "set"
                      THEN /\ past[i].member[a.request.session].revision = a.request.expected
                           /\ past[i + 1].member[a.request.session] =
                                 [revision |-> a.request.expected + 1, active |-> a.request.active]
                      ELSE /\ a.request.as \in Sessions => past[i].member[a.request.as].active
                           /\ \A x \in Members!Range(a.request.edits) :
                                 /\ past[i].records[x.key].revision = x.expected
                                 /\ past[i + 1].records[x.key] =
                                       [revision |-> x.expected + 1, data |-> x.data]
    BY <1>1, <1>4, <1>5 DEF Members!AcknowledgedChangesAreWhole, Members!MembershipOf
  <2>1. a.request = call[c].request
    BY <1>4
  <2>2. CASE a.request.kind = "set"
    BY <1>3, <2>1, <2>2, Zenon DEF Changed
  <2>3. CASE a.request.kind # "set"
    <3>1. ASSUME NEW x \in Members!Range(a.request.edits)
          PROVE  /\ past[i].records[x.key].revision = x.expected
                 /\ past[i + 1].records[x.key] = [revision |-> x.expected + 1, data |-> x.data]
      <4>1. PICK j \in DOMAIN call[c].request.edits : x = call[c].request.edits[j]
        BY <2>1, Zenon DEF Members!Range
      <4> QED BY <1>3, <2>1, <2>3, <4>1, Zenon DEF Changed
    <3>2. a.request.as \in Sessions => past[i].member[a.request.as].active
      BY <1>3, <2>1, <2>3, Zenon DEF Changed
    <3> QED BY <2>3, <3>1, <3>2, Zenon
  <2> QED BY <2>2, <2>3
<1>7. AnswersOK'
  BY <1>1, <1>2, <1>4, <1>5, <1>6
     DEF AnswersOK, Members!ReadsAreOfOneState, Members!MembersAreTold, Members!Reads, Writes
<1> QED BY <1>1, <1>7, MemberLeaveKeeps
        DEF MembersInv, PastOK, Members!NothingIsOverwritten, Members!Changes, Members!MembershipOf

LEMMA MemberInitHolds == ASSUME Members!ProjectStorageAssumption, Members!Init PROVE MembersInv
<1> DEFINE d == [member |-> [s \in Sessions |-> Members!Never],
                 records |-> [k \in RecordKeys |-> Members!Missing]]
<1>1. Members!Never \in [revision : Nat, active : BOOLEAN]
  BY DEF Members!Never
<1>2. Members!Missing \in [revision : Nat, data : Values]
  BY DEF Members!Missing, Members!ProjectStorageAssumption
<1>3. d \in Members!Databases
  BY <1>1, <1>2 DEF Members!Databases
<1>4. past = <<d>> /\ answers = {} /\ held = {} /\ call = [c \in Callers |-> Members!Idle]
      /\ shape \in {"none", "ok", "foreign"}
  BY DEF Members!Init
<1> HIDE DEF d
<1>5. past \in Seq(Members!Databases) /\ past # <<>> /\ DOMAIN past = {1}
  BY <1>3, <1>4
<1>6. PastOK
  BY <1>4, <1>5 DEF PastOK, Members!NothingIsOverwritten, Members!Changes
<1>7. CallsOK
  BY <1>4 DEF CallsOK, Writer
<1>8. AnswersOK
  BY <1>4 DEF AnswersOK, Members!ReadsAreOfOneState, Members!AcknowledgedChangesAreWhole, Members!MembersAreTold
<1> QED BY <1>6, <1>7, <1>8 DEF MembersInv

LEMMA MemberStutterKeeps == ASSUME MembersInv, UNCHANGED Members!vars PROVE MembersInv'
<1>1. past' = past /\ shape' = shape /\ held' = held /\ call' = call /\ answers' = answers
  BY DEF Members!vars
<1>2. PastOK' /\ AnswersOK'
  BY <1>1 DEF MembersInv, PastOK, AnswersOK, Members!NothingIsOverwritten, Members!Changes, Members!MembershipOf,
     Members!ReadsAreOfOneState, Members!AcknowledgedChangesAreWhole, Members!MembersAreTold
<1>3. CallsOK'
  BY <1>1 DEF MembersInv, CallsOK, CallOK, Writer
<1> QED BY <1>2, <1>3 DEF MembersInv

(* What is promised follows from the invariant.                              *)
LEMMA MembersAreSafe ==
    ASSUME Members!ProjectStorageAssumption, MembersInv
    PROVE  Members!ProjectIsSerializable
<1>1. PastOK /\ CallsOK /\ AnswersOK
  BY DEF MembersInv
<1>2. ASSUME NEW c \in Callers, call[c] # Members!Idle
      PROVE  /\ call[c] \in Calls /\ CallOK(call[c])
             /\ call[c].step \in Members!Steps /\ call[c].request \in Members!Requests
             /\ call[c].view \in Members!Databases /\ Members!Entitled(call[c].request)
             /\ call[c].since \in DOMAIN past
  <2>1. call[c] \in Calls /\ CallOK(call[c])
    BY <1>1, <1>2 DEF CallsOK
  <2>2. DOMAIN past = 1 .. Len(past)
    BY <1>1 DEF PastOK
  <2> QED BY <2>1, <2>2, MemberCallFacts DEF CallOK
<1>3. held = {c \in Callers : call[c] # Members!Idle /\ call[c].request.kind \in {"write", "set"}
                                 /\ call[c].step \in {"authorized", "written"}}
  BY <1>1 DEF CallsOK, Writer, Writes
<1>4. \A a \in answers : a.request \in Members!Requests /\ a.since \in DOMAIN past
  BY <1>1 DEF AnswersOK, PastOK
<1>5. Members!TypeOK
  BY <1>1, <1>2, <1>3, <1>4 DEF Members!TypeOK, PastOK, CallsOK
<1>6. ASSUME NEW c \in Callers, call[c] # Members!Idle, call[c].step = "written",
             call[c].request.kind = "write", call[c].request.as \in Sessions
      PROVE  Members!Committed.member[call[c].request.as].active
  <2>1. Changed(past[Len(past)], call[c].view, call[c].request)
    BY <1>2, <1>6 DEF CallOK
  <2> QED BY <1>6, <2>1, Zenon DEF Changed, Members!Committed, Members!Last
<1>7. Members!RevocationStopsWrites
  BY <1>6 DEF Members!RevocationStopsWrites
<1> QED BY <1>1, <1>5, <1>7 DEF Members!ProjectIsSerializable, PastOK, AnswersOK

(* In every state of the project's storage: what a session reads it was     *)
(* entitled to read, of one state; no commit loses another; an acknowledged *)
(* change is in the history whole; and a revocation stops the writing.      *)
THEOREM ProjectsStaySerializable ==
    ASSUME Members!ProjectStorageAssumption, Members!AskedAssumption
    PROVE  Members!Spec => []ProjectIsSerializable
<1>1. Members!Init => MembersInv
  BY MemberInitHolds
<1>2. MembersInv /\ [Members!Next]_(Members!vars) => MembersInv'
  <2> SUFFICES ASSUME MembersInv, [Members!Next]_(Members!vars) PROVE MembersInv'
    OBVIOUS
  <2>1. CASE Members!Next
    <3> PICK c \in Callers :
        \/ \E request \in Asked : Members!Ask(c, request)
        \/ Members!Open(c) \/ Members!Authorize(c) \/ Members!Select(c) \/ Members!Get(c)
        \/ Members!Begin(c) \/ Members!Write(c) \/ Members!Set(c) \/ Members!Commit(c)
        \/ Members!Acknowledge(c) \/ Members!Fail(c)
      BY <2>1 DEF Members!Next
    <3>1. CASE \E request \in Asked : Members!Ask(c, request)
      BY <3>1, MemberAskKeeps
    <3>2. CASE Members!Open(c)
      BY <3>2, MemberOpenKeeps
    <3>3. CASE Members!Authorize(c)
      BY <3>3, MemberAuthorizeKeeps
    <3>4. CASE Members!Select(c)
      BY <3>4, MemberSelectKeeps
    <3>5. CASE Members!Get(c)
      BY <3>5, MemberGetKeeps
    <3>6. CASE Members!Begin(c)
      BY <3>6, MemberBeginKeeps
    <3>7. CASE Members!Write(c)
      BY <3>7, MemberWriteKeeps
    <3>8. CASE Members!Set(c)
      BY <3>8, MemberSetKeeps
    <3>9. CASE Members!Commit(c)
      BY <3>9, MemberCommitKeeps
    <3>10. CASE Members!Acknowledge(c)
      BY <3>10, MemberAcknowledgeKeeps
    <3>11. CASE Members!Fail(c)
      BY <3>11, MemberFailKeeps
    <3> QED BY <3>1, <3>2, <3>3, <3>4, <3>5, <3>6, <3>7, <3>8, <3>9, <3>10, <3>11
  <2>2. CASE UNCHANGED Members!vars
    BY <2>2, MemberStutterKeeps
  <2> QED BY <2>1, <2>2
<1>3. MembersInv => ProjectIsSerializable
  BY MembersAreSafe DEF ProjectIsSerializable
<1> QED BY <1>1, <1>2, <1>3, PTL DEF Members!Spec

----------------------------------------------------------------------------
(***************************************************************************)
(* The checkpoints of one session (CheckpointStore).                       *)
(***************************************************************************)
CONSTANTS CheckpointIds, NoCheckpoint, SourceEvents, CitedSets, AskedOfLine, MaxLine, MaxLost

VARIABLES line, lost, ccall, created, canswered

Line == INSTANCE CheckpointStore WITH
    Ids <- CheckpointIds, NoId <- NoCheckpoint, Events <- SourceEvents,
    Citations <- CitedSets, Asked <- AskedOfLine, call <- ccall, answered <- canswered

\* However publishers race and sources disappear: one line of checkpoints
\* that only grows, answers that are of it and whose sources were all there,
\* one creator for each checkpoint.
CheckpointsFormALine ==
    /\ [](/\ Line!TypeOK
          /\ Line!LineIsLinear
          /\ Line!AnswersHadTheirSources
          /\ Line!AnswersAreOfTheLine
          /\ Line!CheckpointsAreCreatedOnce
          /\ Line!PublicationsAreReadBack)
    /\ [][Line!LineOnlyGrows]_(Line!vars)

----------------------------------------------------------------------------
(***************************************************************************)
(* Proof.  What a call loaded is the line as it was, with the checkpoint   *)
(* it puts, and the line has only grown since; what it has left to verify  *)
(* are the last of the checkpoints up to its own, and those before had     *)
(* their sources after everything the call must not have lost.  A caller   *)
(* owns the creation of a checkpoint from the swap to the answer, and      *)
(* nobody else can swap it in, for it is in the line.                      *)
(***************************************************************************)
Sound(history) == history \in Seq(Line!Checkpoints) /\ Line!ValidLedger(history)

\* The first n checkpoints of a history stand in the line.
Stands(history, n, kept) == n <= Len(kept) /\ \A i \in 1..n : kept[i] = history[i]

\* The call is about checkpoint n of its history, and those before what is
\* left have lost none of gone.
Reached(k, n, gone) ==
    /\ n \in 1..Len(k.history) /\ k.history[n].id = k.id
    /\ k.now.kind # "get" => n = Len(k.history)
    /\ Len(k.left) <= n
    /\ \A j \in 1..Len(k.left) : k.left[j] = k.history[n - Len(k.left) + j]
    /\ \A i \in 1..n - Len(k.left) : k.history[i].cites \cap gone = {}

Phases == {"head", "put", "readback"}

StoreCalls == {Line!StoreCall(r, phase) : r \in Line!Requests, phase \in Phases}

LineCalls ==
    [step : {"asked", "loaded", "stored"}, request : Line!Requests, phase : Phases,
     now : StoreCalls, id : CheckpointIds \cup {NoCheckpoint},
     history : Seq(Line!Checkpoints), left : Seq(Line!Checkpoints),
     known : SUBSET SourceEvents, since : Nat, atSwap : SUBSET SourceEvents]

\* A call when kept is the line and gone what was lost.
LineCallOK(k, kept, gone) ==
    /\ k \in LineCalls /\ k.now = Line!StoreCall(k.request, k.phase)
    /\ k.known \subseteq gone /\ k.atSwap \subseteq gone /\ k.since <= Len(kept)
    /\ k.step # "asked" =>
          /\ Line!ValidLedger(k.history)
          /\ k.now.kind = "latest" => k.since <= Len(k.history)
          /\ k.now.kind = "put" => k.history[Len(k.history)] = k.now.checkpoint
    /\ k.step = "loaded" =>
          /\ \E n \in Nat : Reached(k, n, k.known \cup k.atSwap)
          /\ Stands(k.history, IF k.now.kind = "put" THEN Len(k.history) - 1 ELSE Len(k.history), kept)
    /\ k.step = "stored" =>
          /\ k.now.kind = "put" /\ k.left = <<>>
          /\ Reached(k, Len(k.history), k.known)
          /\ Stands(k.history, Len(k.history), kept)

LineCallsOK ==
    /\ ccall \in [Callers -> {Line!Idle} \cup LineCalls]
    /\ \A c \in Callers : ccall[c] # Line!Idle => LineCallOK(ccall[c], line, lost)

\* A call that has put the checkpoint called id and may yet claim so.
Owns(k, id) ==
    /\ k # Line!Idle /\ k.request.kind = "publish" /\ k.request.checkpoint.id = id
    /\ k.phase = "readback" \/ (k.phase = "put" /\ k.step = "stored")

CreationsOK ==
    /\ created \in [CheckpointIds -> Nat]
    /\ \A id \in CheckpointIds :
        /\ created[id] <= 1
        /\ created[id] = 1 => id \in Line!IdsOf(line)
        /\ \A c \in Callers : Owns(ccall[c], id) =>
              /\ created[id] = 0 /\ id \in Line!IdsOf(line)
              /\ \A d \in Callers : Owns(ccall[d], id) => c = d

LineAnswersOK ==
    Line!AnswersHadTheirSources /\ Line!AnswersAreOfTheLine /\ Line!PublicationsAreReadBack

LineShape == Sound(line) /\ lost \subseteq SourceEvents

LineInv == LineShape /\ LineCallsOK /\ CreationsOK /\ LineAnswersOK

(***************************************************************************)
(* Requests, calls and histories.                                          *)
(***************************************************************************)
LEMMA LineRequestFacts ==
    ASSUME NEW r \in Line!Requests, NEW phase \in Phases
    PROVE  /\ r.kind \in {"put", "publish", "get", "latest"}
           /\ r.kind \in {"put", "publish"} => r.checkpoint \in Line!Checkpoints
           /\ Line!StoreCall(r, phase).kind \in {"put", "get", "latest"}
           /\ Line!StoreCall(r, phase).kind = "put" =>
                 r.kind \in {"put", "publish"} /\ Line!StoreCall(r, phase).checkpoint = r.checkpoint
           /\ Line!StoreCall(r, phase).kind = "get" => r.kind = "get" /\ r.id \in CheckpointIds
                                                         /\ Line!StoreCall(r, phase).id = r.id
           /\ r.kind = "publish" => (Line!StoreCall(r, phase).kind = "put" <=> phase = "put")
<1>1. /\ r.kind \in {"put", "publish", "get", "latest"}
      /\ r.kind \in {"put", "publish"} => r.checkpoint \in Line!Checkpoints
      /\ r.kind = "get" => r.id \in CheckpointIds
  BY DEF Line!Requests
<1>2. CASE r.kind # "publish"
  BY <1>1, <1>2 DEF Line!StoreCall
<1>3. CASE r.kind = "publish"
  BY <1>1, <1>3 DEF Line!StoreCall, Phases
<1> QED BY <1>2, <1>3

LEMMA LineCallFacts ==
    ASSUME NEW k \in LineCalls
    PROVE  /\ k.step \in {"asked", "loaded", "stored"} /\ k.request \in Line!Requests
           /\ k.phase \in Phases /\ k.now \in StoreCalls /\ k.id \in CheckpointIds \cup {NoCheckpoint}
           /\ k.history \in Seq(Line!Checkpoints) /\ k.left \in Seq(Line!Checkpoints)
           /\ k.known \subseteq SourceEvents /\ k.since \in Nat /\ k.atSwap \subseteq SourceEvents
           /\ k # Line!Idle
<1>1. /\ k.step \in {"asked", "loaded", "stored"} /\ k.request \in Line!Requests
      /\ k.phase \in Phases /\ k.now \in StoreCalls /\ k.id \in CheckpointIds \cup {NoCheckpoint}
      /\ k.history \in Seq(Line!Checkpoints) /\ k.left \in Seq(Line!Checkpoints)
      /\ k.known \subseteq SourceEvents /\ k.since \in Nat /\ k.atSwap \subseteq SourceEvents
  BY DEF LineCalls
<1>2. k # Line!Idle
  BY <1>1 DEF Line!Idle
<1> QED BY <1>1, <1>2

LEMMA CheckpointFacts ==
    ASSUME NEW cp \in Line!Checkpoints
    PROVE  /\ cp.id \in CheckpointIds /\ cp.revision \in 1..MaxLine + 1
           /\ cp.parent \in CheckpointIds \cup {NoCheckpoint} /\ cp.cites \in CitedSets
  BY DEF Line!Checkpoints

LEMMA SoundFacts ==
    ASSUME NEW history, Sound(history)
    PROVE  /\ Len(history) \in Nat /\ Len(history) <= MaxLine
           /\ \A i \in 1..Len(history) :
                 /\ history[i] \in Line!Checkpoints /\ history[i].revision = i
                 /\ history[i].parent = IF i = 1 THEN NoCheckpoint ELSE history[i - 1].id
           /\ \A i, j \in 1..Len(history) : history[i].id = history[j].id => i = j
<1>1. /\ history \in Seq(Line!Checkpoints) /\ Len(history) \in Nat /\ DOMAIN history = 1..Len(history)
      /\ Len(history) <= MaxLine
      /\ \A i \in 1..Len(history) :
            /\ history[i] \in Line!Checkpoints /\ history[i].revision = i
            /\ history[i].parent = Line!HeadId(SubSeq(history, 1, i - 1))
            /\ history[i].id \notin Line!IdsOf(SubSeq(history, 1, i - 1))
  BY DEF Sound, Line!ValidLedger
<1>2. ASSUME NEW i \in 1..Len(history)
      PROVE  history[i].parent = IF i = 1 THEN NoCheckpoint ELSE history[i - 1].id
  <2>1. CASE i = 1
    <3>1. SubSeq(history, 1, i - 1) = <<>>
      BY <1>1, <2>1
    <3> QED BY <1>1, <2>1, <3>1 DEF Line!HeadId
  <2>2. CASE i # 1
    <3>1. /\ Len(SubSeq(history, 1, i - 1)) = i - 1
          /\ SubSeq(history, 1, i - 1)[i - 1] = history[i - 1]
          /\ SubSeq(history, 1, i - 1) # <<>>
      <4>1. i - 1 \in 1..Len(history) /\ history \in Seq(Line!Checkpoints) /\ Len(history) \in Nat
        BY ONLY <1>1, <2>2
      <4>2. /\ Len(SubSeq(history, 1, i - 1)) = i - 1
            /\ SubSeq(history, 1, i - 1)[i - 1] = history[i - 1]
        BY ONLY <4>1
      <4> QED BY ONLY <4>1, <4>2
    <3> QED BY <1>1, <2>2, <3>1 DEF Line!HeadId, Line!Last
  <2> QED BY <2>1, <2>2
<1>3. ASSUME NEW i \in 1..Len(history), NEW j \in 1..Len(history), j < i
      PROVE  history[i].id # history[j].id
  <2>1. j \in DOMAIN SubSeq(history, 1, i - 1) /\ SubSeq(history, 1, i - 1)[j] = history[j]
    BY <1>1, <1>3
  <2>2. history[j].id \in Line!IdsOf(SubSeq(history, 1, i - 1))
    BY <2>1 DEF Line!IdsOf
  <2> QED BY <1>1, <2>2
<1>4. \A i, j \in 1..Len(history) : history[i].id = history[j].id => i = j
  BY <1>1, <1>3
<1> QED BY <1>1, <1>2, <1>4

LEMMA AppendedFacts ==
    ASSUME MaxLine \in Nat, NEW history, Sound(history), NEW cp \in Line!Checkpoints, Line!Appendable(history, cp)
    PROVE  /\ Sound(Append(history, cp))
           /\ Len(Append(history, cp)) = Len(history) + 1
           /\ Append(history, cp)[Len(history) + 1] = cp
           /\ \A i \in 1..Len(history) : Append(history, cp)[i] = history[i]
<1> DEFINE longer == Append(history, cp)
<1>1. /\ history \in Seq(Line!Checkpoints) /\ Len(history) \in Nat
      /\ longer \in Seq(Line!Checkpoints) /\ Len(longer) = Len(history) + 1
      /\ DOMAIN longer = 1..Len(history) + 1 /\ DOMAIN history = 1..Len(history)
      /\ longer[Len(history) + 1] = cp
      /\ \A i \in 1..Len(history) : longer[i] = history[i]
  BY DEF Sound
<1>2. /\ Line!ValidLedger(history) /\ cp.id \notin Line!IdsOf(history) /\ Len(history) < MaxLine
      /\ cp.revision = Len(history) + 1 /\ cp.parent = Line!HeadId(history) /\ Line!IsValid(cp)
  BY DEF Line!Appendable
<1>3. ASSUME NEW i \in 1..Len(history) + 1
      PROVE  SubSeq(longer, 1, i - 1) = SubSeq(history, 1, i - 1)
  <2>1. \A j \in 1..i - 1 : longer[j] = history[j]
    BY <1>1
  <2> QED BY <1>1, <2>1
<1>4. SubSeq(history, 1, Len(history)) = history
  BY <1>1
<1>5. Len(longer) <= MaxLine
  BY <1>1, <1>2
<1> HIDE DEF longer
<1>6. ASSUME NEW i \in DOMAIN longer
      PROVE  /\ Line!IsValid(longer[i])
             /\ longer[i].revision = i
             /\ longer[i].parent = Line!HeadId(SubSeq(longer, 1, i - 1))
             /\ longer[i].id \notin Line!IdsOf(SubSeq(longer, 1, i - 1))
  <2>1. CASE i \in 1..Len(history)
    BY <1>1, <1>2, <1>3, <2>1 DEF Line!ValidLedger
  <2>2. CASE i = Len(history) + 1
    <3>1. i - 1 = Len(history)
      BY <1>1, <2>2
    <3>2. SubSeq(longer, 1, i - 1) = history
      BY <1>1, <1>3, <1>4, <3>1
    <3> QED BY <1>1, <1>2, <2>2, <3>2
  <2> QED BY <1>1, <2>1, <2>2
<1>7. Line!ValidLedger(longer)
  BY <1>5, <1>6 DEF Line!ValidLedger
<1>8. Sound(longer)
  BY <1>1, <1>7 DEF Sound
<1> QED BY <1>1, <1>8 DEF longer

LEMMA AncestryFacts ==
    ASSUME NEW history, Sound(history), NEW n \in 1..Len(history)
    PROVE  /\ Line!Ancestry(history, history[n].id) \in Seq(Line!Checkpoints)
           /\ Len(Line!Ancestry(history, history[n].id)) = n
           /\ \A j \in 1..n : Line!Ancestry(history, history[n].id)[j] = history[j]
<1>1. /\ history \in Seq(Line!Checkpoints) /\ Len(history) \in Nat /\ DOMAIN history = 1..Len(history)
      /\ \A i, j \in 1..Len(history) : history[i].id = history[j].id => i = j
  BY SoundFacts DEF Sound
<1>2. (CHOOSE i \in DOMAIN history : history[i].id = history[n].id) = n
  BY <1>1
<1>3. Line!Ancestry(history, history[n].id) = SubSeq(history, 1, n)
  BY <1>2 DEF Line!Ancestry
<1> QED BY <1>1, <1>3

(***************************************************************************)
(* What a step of the others leaves as it is.                              *)
(***************************************************************************)
LEMMA LineOthersKeep ==
    ASSUME NEW kept, NEW grown, NEW gone, NEW more, gone \subseteq more,
           Len(kept) \in Nat, Len(grown) \in Nat, Stands(kept, Len(kept), grown),
           NEW k, LineCallOK(k, kept, gone)
    PROVE  LineCallOK(k, grown, more)
<1>1. k \in LineCalls /\ k.since \in Nat /\ Len(k.history) \in Nat
  BY LineCallFacts DEF LineCallOK
<1>2. ASSUME NEW n \in Int, Stands(k.history, n, kept) PROVE Stands(k.history, n, grown)
  BY <1>2 DEF Stands
<1>3. k.since <= Len(grown)
  BY <1>1 DEF LineCallOK, Stands
<1>4. /\ k.known \subseteq more /\ k.atSwap \subseteq more
      /\ k.now = Line!StoreCall(k.request, k.phase)
      /\ k.step # "asked" =>
            /\ Line!ValidLedger(k.history)
            /\ k.now.kind = "latest" => k.since <= Len(k.history)
            /\ k.now.kind = "put" => k.history[Len(k.history)] = k.now.checkpoint
  BY DEF LineCallOK
<1>5. k.step = "loaded" =>
         /\ \E n \in Nat : Reached(k, n, k.known \cup k.atSwap)
         /\ Stands(k.history, IF k.now.kind = "put" THEN Len(k.history) - 1 ELSE Len(k.history), grown)
  <2>1. (IF k.now.kind = "put" THEN Len(k.history) - 1 ELSE Len(k.history)) \in Int
    BY <1>1
  <2> QED BY <1>2, <2>1 DEF LineCallOK
<1>6. k.step = "stored" =>
         /\ k.now.kind = "put" /\ k.left = <<>>
         /\ Reached(k, Len(k.history), k.known)
         /\ Stands(k.history, Len(k.history), grown)
  BY <1>1, <1>2 DEF LineCallOK
<1> QED BY <1>1, <1>3, <1>4, <1>5, <1>6 DEF LineCallOK

LEMMA LineCallsKeep ==
    ASSUME LineCallsOK, Len(line) \in Nat, Len(line)' \in Nat, Stands(line, Len(line), line'),
           lost \subseteq lost', NEW c \in Callers, NEW r \in {Line!Idle} \cup LineCalls,
           ccall' = [ccall EXCEPT ![c] = r], r # Line!Idle => LineCallOK(r, line', lost')
    PROVE  LineCallsOK'
<1>1. /\ ccall' \in [Callers -> {Line!Idle} \cup LineCalls]
      /\ ccall'[c] = r /\ \A d \in Callers \ {c} : ccall'[d] = ccall[d]
  BY DEF LineCallsOK
<1>2. \A d \in Callers \ {c} : ccall[d] # Line!Idle => LineCallOK(ccall[d], line', lost')
  BY LineOthersKeep DEF LineCallsOK
<1>3. \A d \in Callers : ccall'[d] # Line!Idle => LineCallOK(ccall'[d], line', lost')
  BY <1>1, <1>2
<1> QED BY <1>1, <1>3 DEF LineCallsOK

LEMMA LineQuietAnswers == ASSUME canswered' = {} PROVE LineAnswersOK'
  BY DEF LineAnswersOK, Line!AnswersHadTheirSources, Line!AnswersAreOfTheLine, Line!PublicationsAreReadBack

LEMMA StandsItself == ASSUME Len(line) \in Nat PROVE Stands(line, Len(line), line)
  BY DEF Stands

LEMMA LineCreationsKeep ==
    ASSUME LineCallsOK, CreationsOK, created' = created, line' = line,
           NEW c \in Callers, NEW r, ccall' = [ccall EXCEPT ![c] = r],
           \A id \in CheckpointIds : Owns(r, id) => Owns(ccall[c], id)
    PROVE  CreationsOK'
<1>1. \A d \in Callers : ccall'[d] = IF d = c THEN r ELSE ccall[d]
  BY DEF LineCallsOK
<1>2. \A d \in Callers, id \in CheckpointIds : Owns(ccall'[d], id) => Owns(ccall[d], id)
  BY <1>1
<1>3. Line!IdsOf(line') = Line!IdsOf(line)
  OBVIOUS
<1>4. \A d \in Callers, id \in CheckpointIds : Owns(ccall[d], id)' => Owns(ccall[d], id)
  BY <1>2 DEF Owns
<1> QED BY <1>3, <1>4 DEF CreationsOK

(* A step that only moves one call. *)
LEMMA LineAloneKeeps ==
    ASSUME LineInv, line' = line, lost' = lost, created' = created, canswered' = {},
           NEW c \in Callers, NEW r \in {Line!Idle} \cup LineCalls, ccall' = [ccall EXCEPT ![c] = r],
           r # Line!Idle => LineCallOK(r, line, lost),
           \A id \in CheckpointIds : Owns(r, id) => Owns(ccall[c], id)
    PROVE  LineInv'
<1>1. LineShape /\ LineCallsOK /\ CreationsOK /\ Len(line) \in Nat
  BY SoundFacts DEF LineInv, LineShape
<1>2. LineCallsOK'
  BY <1>1, StandsItself, LineCallsKeep
<1>3. CreationsOK'
  BY <1>1, LineCreationsKeep
<1>4. LineShape'
  BY <1>1 DEF LineShape
<1>5. LineAnswersOK'
  BY LineQuietAnswers
<1> QED BY <1>2, <1>3, <1>4, <1>5 DEF LineInv

LEMMA LineHere ==
    ASSUME LineInv, NEW c \in Callers, ccall[c] # Line!Idle
    PROVE  /\ ccall[c] \in LineCalls /\ LineCallOK(ccall[c], line, lost)
           /\ Sound(line) /\ Len(line) \in Nat /\ lost \subseteq SourceEvents
  BY SoundFacts DEF LineInv, LineShape, LineCallsOK

LEMMA StepIsCall ==
    ASSUME NEW c \in Callers, ccall[c].step # "idle"
    PROVE  ccall[c] # Line!Idle
  BY DEF Line!Idle

(***************************************************************************)
(* The steps of a store call.                                              *)
(***************************************************************************)
LEMMA BegunFacts ==
    ASSUME LineShape, NEW request \in Line!Requests, NEW phase \in Phases
    PROVE  /\ Line!Begin(request, phase) \in LineCalls
           /\ LineCallOK(Line!Begin(request, phase), line, lost)
           /\ Line!Begin(request, phase).phase = phase
           /\ Line!Begin(request, phase).request = request
           /\ Line!Begin(request, phase).step = "asked"
<1> DEFINE k == Line!Begin(request, phase)
<1>1. /\ Len(line) \in Nat /\ lost \subseteq SourceEvents
  BY SoundFacts DEF LineShape
<1>2. /\ k.step = "asked" /\ k.request = request /\ k.phase = phase
      /\ k.now = Line!StoreCall(request, phase)
      /\ k.known = lost /\ k.since = Len(line) /\ k.atSwap = {}
  BY DEF Line!Begin
<1>3. Line!StoreCall(request, phase) \in StoreCalls
  BY DEF StoreCalls
<1>4. k \in LineCalls
  <2>1. <<>> \in Seq(Line!Checkpoints)
    OBVIOUS
  <2> QED BY <1>1, <1>3, <2>1 DEF LineCalls, Line!Begin
<1> HIDE DEF k
<1>5. LineCallOK(k, line, lost)
  BY <1>1, <1>2, <1>4 DEF LineCallOK
<1> QED BY <1>2, <1>4, <1>5 DEF k

LEMMA LineAskKeeps ==
    ASSUME LineInv, Line!AskedAssumption, NEW c \in Callers, NEW request \in AskedOfLine,
           Line!Ask(c, request)
    PROVE  LineInv'
<1> DEFINE r == Line!Begin(request, "head")
<1>1. /\ line' = line /\ lost' = lost /\ created' = created /\ canswered' = {}
      /\ ccall' = [ccall EXCEPT ![c] = r]
  BY DEF Line!Ask
<1>2. request \in Line!Requests /\ "head" \in Phases /\ LineShape
  BY DEF Line!AskedAssumption, Phases, LineInv
<1>3. r \in LineCalls /\ LineCallOK(r, line, lost) /\ r.phase = "head"
  BY <1>2, BegunFacts
<1> HIDE DEF r
<1>4. \A id \in CheckpointIds : ~ Owns(r, id)
  BY <1>3 DEF Owns
<1> QED BY <1>1, <1>3, <1>4, LineAloneKeeps

LEMMA LoadedFacts ==
    ASSUME NEW k \in LineCalls, LineCallOK(k, line, lost), Sound(line),
           NEW history, Sound(history), NEW n \in 1..Len(history),
           k.now.kind # "get" => n = Len(history),
           k.now.kind = "put" => Stands(history, Len(history) - 1, line),
           k.now.kind # "put" => Stands(history, Len(history), line),
           k.now.kind = "latest" => k.since <= Len(history),
           k.now.kind = "put" => history[Len(history)] = k.now.checkpoint,
           NEW r \in LineCalls, r.step = "loaded", r.request = k.request, r.phase = k.phase,
           r.now = k.now, r.id = history[n].id, r.history = history,
           r.left = Line!Ancestry(history, history[n].id),
           r.known = k.known, r.since = k.since, r.atSwap = k.atSwap
    PROVE  LineCallOK(r, line, lost)
<1>1. /\ Len(r.left) = n /\ \A j \in 1..n : r.left[j] = history[j]
  BY AncestryFacts
<1>2. history \in Seq(Line!Checkpoints) /\ Line!ValidLedger(history) /\ n \in Nat
  BY DEF Sound
<1>3. Reached(r, n, r.known \cup r.atSwap)
  BY <1>1, <1>2 DEF Reached
<1> QED BY <1>2, <1>3 DEF LineCallOK

LEMMA LineLoadKeeps ==
    ASSUME LineInv, MaxLine \in Nat, NEW c \in Callers, Line!Load(c)
    PROVE  LineInv'
<1> DEFINE k == ccall[c]
<1>0. /\ line' = line /\ lost' = lost /\ created' = created /\ canswered' = {} /\ k.step = "asked"
      /\ ccall[c] # Line!Idle
  BY StepIsCall DEF Line!Load
<1>1. /\ k \in LineCalls /\ LineCallOK(k, line, lost) /\ Sound(line) /\ Len(line) \in Nat
      /\ k.now = Line!StoreCall(k.request, k.phase) /\ k.request \in Line!Requests
      /\ k.phase \in Phases /\ k.since \in Nat /\ k.since <= Len(line)
  BY <1>0, LineHere, LineCallFacts DEF LineCallOK
<1> HIDE DEF k
<1>2. ASSUME NEW history, Sound(history), NEW n \in 1..Len(history),
             k.now.kind # "get" => n = Len(history),
             k.now.kind = "put" => Stands(history, Len(history) - 1, line),
             k.now.kind # "put" => Stands(history, Len(history), line),
             k.now.kind = "latest" => k.since <= Len(history),
           k.now.kind = "put" => history[Len(history)] = k.now.checkpoint,
             Line!Loaded(c, history, history[n].id)
      PROVE  LineInv'
  <2> DEFINE r == [k EXCEPT !.step = "loaded", !.id = history[n].id, !.history = history,
                            !.left = Line!Ancestry(history, history[n].id)]
  <2>1. ccall' = [ccall EXCEPT ![c] = r]
    BY <1>2 DEF Line!Loaded, k
  <2>2. /\ r \in LineCalls /\ LineCallOK(r, line, lost)
        /\ r.request = k.request /\ r.phase = k.phase /\ r.step = "loaded"
    <3>1. /\ history[n].id \in CheckpointIds \cup {NoCheckpoint} /\ history \in Seq(Line!Checkpoints)
          /\ Line!Ancestry(history, history[n].id) \in Seq(Line!Checkpoints)
      BY <1>2, SoundFacts, CheckpointFacts, AncestryFacts DEF Sound
    <3>2. /\ r \in LineCalls /\ r.step = "loaded" /\ r.request = k.request /\ r.phase = k.phase
          /\ r.now = k.now /\ r.id = history[n].id /\ r.history = history
          /\ r.left = Line!Ancestry(history, history[n].id)
          /\ r.known = k.known /\ r.since = k.since /\ r.atSwap = k.atSwap
      BY ONLY <1>1, <3>1 DEF LineCalls
    <3> HIDE DEF r
    <3>3. LineCallOK(r, line, lost)
      BY <1>1, <1>2, <3>2, LoadedFacts
    <3> QED BY <3>2, <3>3
  <2> HIDE DEF r
  <2>3. \A id \in CheckpointIds : Owns(r, id) => Owns(ccall[c], id)
    BY <1>0, <2>2 DEF Owns, k
  <2> QED BY <1>0, <2>1, <2>2, <2>3, LineAloneKeeps
<1>3. CASE k.now.kind = "latest" /\ line # <<>> /\ Line!Loaded(c, line, Line!Last(line).id)
  <2>1. Len(line) \in 1..Len(line) /\ Line!Last(line) = line[Len(line)]
    BY <1>1, <1>3 DEF Line!Last, Sound
  <2>2. Stands(line, Len(line), line)
    BY <1>1, StandsItself
  <2> QED BY <1>1, <1>2, <1>3, <2>1, <2>2
<1>4. CASE k.now.kind = "get" /\ k.now.id \in Line!IdsOf(line) /\ Line!Loaded(c, line, k.now.id)
  <2>1. PICK n \in 1..Len(line) : line[n].id = k.now.id
    BY <1>1, <1>4 DEF Line!IdsOf, Sound
  <2>2. Stands(line, Len(line), line)
    BY <1>1, StandsItself
  <2> QED BY <1>1, <1>2, <1>4, <2>1, <2>2
<1>5. CASE /\ k.now.kind = "put" /\ Line!Appendable(line, k.now.checkpoint)
           /\ Line!Loaded(c, Append(line, k.now.checkpoint), k.now.checkpoint.id)
  <2>1. k.now.checkpoint \in Line!Checkpoints
    BY <1>1, <1>5, LineRequestFacts
  <2> DEFINE longer == Append(line, k.now.checkpoint)
  <2>2. /\ Sound(longer) /\ Len(longer) = Len(line) + 1 /\ longer[Len(longer)] = k.now.checkpoint
        /\ \A i \in 1..Len(line) : longer[i] = line[i]
    BY <1>1, <1>5, <2>1, AppendedFacts
  <2> HIDE DEF longer
  <2>3. Stands(longer, Len(longer) - 1, line) /\ Len(longer) \in 1..Len(longer)
    BY <1>1, <2>2 DEF Stands
  <2>4. Line!Loaded(c, longer, longer[Len(longer)].id)
    BY <1>5, <2>2 DEF longer
  <2> QED BY <1>2, <1>5, <2>2, <2>3, <2>4
<1> QED BY <1>3, <1>4, <1>5 DEF Line!Load, k

LEMMA LineVerifyKeeps == ASSUME LineInv, NEW c \in Callers, Line!Verify(c) PROVE LineInv'
<1> DEFINE k == ccall[c]
           r == [k EXCEPT !.left = Tail(k.left)]
<1>0. /\ line' = line /\ lost' = lost /\ created' = created /\ canswered' = {}
      /\ ccall' = [ccall EXCEPT ![c] = r]
      /\ k.step = "loaded" /\ k.left # <<>> /\ Head(k.left).cites \cap lost = {}
      /\ ccall[c] # Line!Idle
  BY StepIsCall DEF Line!Verify, Line!IsIntact
<1>1. /\ k \in LineCalls /\ LineCallOK(k, line, lost)
  BY <1>0, LineHere
<1>2. PICK n \in Nat : Reached(k, n, k.known \cup k.atSwap)
  BY <1>0, <1>1 DEF LineCallOK
<1>3. /\ k.left \in Seq(Line!Checkpoints) /\ k.history \in Seq(Line!Checkpoints)
      /\ k.known \subseteq lost /\ k.atSwap \subseteq lost
  BY <1>1, LineCallFacts DEF LineCallOK
<1>4. /\ Tail(k.left) \in Seq(Line!Checkpoints) /\ Len(Tail(k.left)) = Len(k.left) - 1
      /\ Len(k.left) \in Nat \ {0} /\ Head(k.left) = k.left[1]
      /\ \A j \in 1..Len(k.left) - 1 : Tail(k.left)[j] = k.left[j + 1]
  BY <1>0, <1>3
<1>5. /\ r \in LineCalls /\ r.step = k.step /\ r.request = k.request /\ r.phase = k.phase
      /\ r.now = k.now /\ r.id = k.id /\ r.history = k.history /\ r.left = Tail(k.left)
      /\ r.known = k.known /\ r.since = k.since /\ r.atSwap = k.atSwap
  BY ONLY <1>1, <1>4 DEF LineCalls
<1> HIDE DEF k, r
<1>6. Reached(r, n, r.known \cup r.atSwap)
  <2> DEFINE gone == k.known \cup k.atSwap
             m == n - Len(k.left)
  <2>1. /\ n \in 1..Len(k.history) /\ k.history[n].id = k.id
        /\ k.now.kind # "get" => n = Len(k.history)
        /\ Len(k.left) <= n
        /\ \A j \in 1..Len(k.left) : k.left[j] = k.history[m + j]
        /\ \A i \in 1..m : k.history[i].cites \cap gone = {}
    BY <1>2 DEF Reached
  <2>2. m \in Nat /\ n - (Len(k.left) - 1) = m + 1
    BY <1>4, <2>1
  <2>3. k.history[m + 1].cites \cap gone = {}
    <3>1. k.left[1] = k.history[m + 1]
      <4>1. 1 \in 1..Len(k.left)
        BY ONLY <1>4
      <4> QED BY ONLY <4>1, <2>1
    <3>2. k.history[m + 1] = Head(k.left)
      BY ONLY <1>4, <3>1
    <3> QED BY <1>0, <1>3, <3>2
  <2>4. \A i \in 1..m + 1 : k.history[i].cites \cap gone = {}
    <3> HIDE DEF m, gone
    <3> TAKE i \in 1..m + 1
    <3>1. i \in 1..m \/ i = m + 1
      BY <2>2
    <3> QED BY <2>1, <2>3, <3>1
  <2>5. \A j \in 1..Len(k.left) - 1 : Tail(k.left)[j] = k.history[m + 1 + j]
    <3> TAKE j \in 1..Len(k.left) - 1
    <3>1. Tail(k.left)[j] = k.left[j + 1] /\ j + 1 \in 1..Len(k.left)
      BY <1>4
    <3>2. k.left[j + 1] = k.history[m + (j + 1)]
      BY <2>1, <3>1
    <3>3. m + (j + 1) = m + 1 + j
      BY <2>2, <1>4
    <3> QED BY <3>1, <3>2, <3>3
  <2> HIDE DEF m, gone
  <2>6. /\ n \in 1..Len(r.history) /\ r.history[n].id = r.id
        /\ r.now.kind # "get" => n = Len(r.history)
        /\ Len(r.left) <= n /\ Len(r.left) = Len(k.left) - 1
    BY <1>4, <1>5, <2>1
  <2>7. n - Len(r.left) = m + 1 /\ r.known \cup r.atSwap = gone
    BY <1>5, <2>2, <2>6 DEF gone
  <2> QED BY <1>5, <2>4, <2>5, <2>6, <2>7 DEF Reached
<1>7. LineCallOK(r, line, lost)
  BY <1>0, <1>1, <1>5, <1>6 DEF LineCallOK
<1>8. \A id \in CheckpointIds : Owns(r, id) => Owns(ccall[c], id)
  BY <1>0, <1>5 DEF Owns, k
<1> QED BY <1>0, <1>5, <1>7, <1>8, LineAloneKeeps

(* The compare-and-swap succeeds only on the line that was loaded.         *)
LEMMA LineSwapKeeps ==
    ASSUME LineInv, NEW c \in Callers, Line!Swap(c)
    PROVE  LineInv' /\ Line!LineOnlyGrows
<1> DEFINE k == ccall[c]
           r == [k EXCEPT !.step = "stored", !.atSwap = lost]
<1>0. /\ line' = k.history /\ lost' = lost /\ created' = created /\ canswered' = {}
      /\ ccall' = [ccall EXCEPT ![c] = r]
      /\ k.step = "loaded" /\ k.left = <<>> /\ k.now.kind = "put"
      /\ Len(line) = Len(k.history) - 1 /\ ccall[c] # Line!Idle
  BY StepIsCall DEF Line!Swap, Line!Verified
<1>1. /\ k \in LineCalls /\ LineCallOK(k, line, lost) /\ Sound(line) /\ Len(line) \in Nat
      /\ lost \subseteq SourceEvents
  BY <1>0, LineHere
<1>2. /\ k.request \in Line!Requests /\ k.phase \in Phases /\ k.now = Line!StoreCall(k.request, k.phase)
      /\ k.history \in Seq(Line!Checkpoints) /\ Line!ValidLedger(k.history) /\ k.since \in Nat
      /\ k.since <= Len(line) /\ k.known \subseteq lost
      /\ Stands(k.history, Len(k.history) - 1, line)
  BY <1>0, <1>1, LineCallFacts DEF LineCallOK
<1>3. PICK n \in Nat : Reached(k, n, k.known \cup k.atSwap)
  BY <1>0, <1>1 DEF LineCallOK
<1>4. /\ r \in LineCalls /\ r.step = "stored" /\ r.request = k.request /\ r.phase = k.phase
      /\ r.now = k.now /\ r.id = k.id /\ r.history = k.history /\ r.left = k.left
      /\ r.known = k.known /\ r.since = k.since /\ r.atSwap = lost
  BY ONLY <1>1 DEF LineCalls
<1> HIDE DEF k, r
<1>5. Sound(line') /\ Len(line') = Len(line) + 1 /\ Len(line') \in Nat
  BY <1>0, <1>1, <1>2 DEF Sound
<1>6. \A i \in 1..Len(line) : line'[i] = line[i]
  BY <1>0, <1>1, <1>2 DEF Stands
<1>7. Stands(line, Len(line), line') /\ Stands(k.history, Len(k.history), line')
  BY <1>0, <1>1, <1>5, <1>6 DEF Stands
<1>8. LineCallOK(r, line', lost)
  <2>1. n = Len(k.history)
    BY <1>0, <1>3 DEF Reached
  <2>2. Reached(r, Len(r.history), r.known)
    BY <1>3, <1>4, <2>1 DEF Reached
  <2> QED BY <1>0, <1>1, <1>2, <1>4, <1>5, <1>7, <2>2 DEF LineCallOK
<1>9. LineCallsOK'
  <2>1. LineCallsOK
    BY DEF LineInv
  <2> QED BY <1>0, <1>1, <1>4, <1>5, <1>7, <1>8, <2>1, LineCallsKeep
<1> DEFINE cp == k.now.checkpoint
<1>10. cp \in Line!Checkpoints /\ cp = k.request.checkpoint /\ line'[Len(line')] = cp
  BY <1>0, <1>1, <1>2, LineRequestFacts DEF LineCallOK
<1>11. /\ cp.id \notin Line!IdsOf(line) /\ Line!IdsOf(line) \subseteq Line!IdsOf(line')
       /\ cp.id \in Line!IdsOf(line')
  <2>1. /\ \A i, j \in 1..Len(line') : line'[i].id = line'[j].id => i = j
        /\ DOMAIN line = 1..Len(line) /\ DOMAIN line' = 1..Len(line')
    BY <1>1, <1>5, SoundFacts DEF Sound
  <2>2. Line!IdsOf(line) = {line[i].id : i \in 1..Len(line)}
    BY <2>1 DEF Line!IdsOf
  <2>3. Line!IdsOf(line') = {line'[i].id : i \in 1..Len(line')}
    BY <2>1 DEF Line!IdsOf
  <2>4. Len(line) + 1 \in 1..Len(line')
    BY <1>1, <1>5
  <2>5. \A i \in 1..Len(line) : line'[i].id # cp.id
    BY <1>1, <1>5, <1>10, <2>1, <2>4
  <2> HIDE DEF cp
  <2>6. line'[Len(line) + 1] = cp
    BY ONLY <1>5, <1>10
  <2>7. \A i \in 1..Len(line) : i \in 1..Len(line') /\ line'[i].id = line[i].id
    BY ONLY <1>1, <1>5, <1>6
  <2> QED BY ONLY <2>2, <2>3, <2>4, <2>5, <2>6, <2>7, Zenon
<1>12. CreationsOK'
  <2> USE DEF CreationsOK
  <2>1. CreationsOK /\ LineCallsOK
    BY DEF LineInv
  <2>2. \A d \in Callers : ccall'[d] = IF d = c THEN r ELSE ccall[d]
    BY <1>0, <2>1 DEF LineCallsOK
  <2>3. \A d \in Callers, id \in CheckpointIds :
           Owns(ccall'[d], id) => Owns(ccall[d], id) \/ (d = c /\ id = cp.id)
    BY <1>4, <1>10, <2>2 DEF Owns
  <2>4. cp.id \in CheckpointIds /\ created[cp.id] \in Nat
    BY <1>10, <2>1, CheckpointFacts
  <2>5. created[cp.id] = 0 /\ \A d \in Callers : ~ Owns(ccall[d], cp.id)
    BY <1>11, <2>1, <2>4
  <2> HIDE DEF cp
  <2>6. ASSUME NEW id \in CheckpointIds
        PROVE  /\ created'[id] <= 1
               /\ created'[id] = 1 => id \in Line!IdsOf(line')
               /\ \A d \in Callers : Owns(ccall'[d], id) =>
                     /\ created'[id] = 0 /\ id \in Line!IdsOf(line')
                     /\ \A e \in Callers : Owns(ccall'[e], id) => d = e
    <3>1. CASE id = cp.id
      BY <1>0, <1>11, <2>3, <2>5, <3>1
    <3>2. CASE id # cp.id
      BY <1>0, <1>11, <2>1, <2>3, <3>2
    <3> QED BY <3>1, <3>2
  <2>7. \A d \in Callers, id \in CheckpointIds : Owns(ccall[d], id)' <=> Owns(ccall'[d], id)
    BY DEF Owns
  <2>8. Line!IdsOf(line)' = Line!IdsOf(line')
    OBVIOUS
  <2>9. created' \in [CheckpointIds -> Nat]
    BY <1>0, <2>1
  <2> QED BY <2>6, <2>7, <2>8, <2>9
<1>13. LineShape'
  BY <1>0, <1>1, <1>5 DEF LineShape
<1>14. Line!LineOnlyGrows
  <2>1. SubSeq(line, 1, Len(line)) = SubSeq(line', 1, Len(line))
    BY <1>1, <1>5, <1>6 DEF Sound
  <2> QED BY <1>1, <1>5, <2>1 DEF Line!LineOnlyGrows, Line!IsPrefix
<1> QED BY <1>0, <1>9, <1>12, <1>13, <1>14, LineQuietAnswers DEF LineInv

(***************************************************************************)
(* Answers.                                                                *)
(***************************************************************************)

(* What a store call answers is in the line, with all its ancestors.       *)
LEMMA ResultFacts ==
    ASSUME NEW c \in Callers, LineCallOK(ccall[c], line, lost), Sound(line),
           NEW cp \in Line!Result(c)
    PROVE  \E n \in 1..Len(line) :
              /\ cp = line[n]
              /\ \A i \in 1..n : line[i].cites \cap ccall[c].known = {}
              /\ ccall[c].now.kind # "put" =>
                    \A i \in 1..n : line[i].cites \cap ccall[c].atSwap = {}
              /\ ccall[c].now.kind = "latest" => ccall[c].since <= n
<1> DEFINE k == ccall[c]
<1>1. k \in LineCalls /\ k.history \in Seq(Line!Checkpoints) /\ Len(line) \in Nat
  BY LineCallFacts, SoundFacts DEF LineCallOK
<1>2. CASE k.step = "stored"
  <2>1. cp = k.history[Len(k.history)]
    BY <1>2 DEF Line!Result, Line!Verified, Line!Last
  <2>2. /\ k.now.kind = "put" /\ k.left = <<>> /\ Len(k.left) = 0
        /\ Reached(k, Len(k.history), k.known) /\ Stands(k.history, Len(k.history), line)
    BY <1>2 DEF LineCallOK
  <2>3. /\ Len(k.history) \in 1..Len(k.history) /\ Len(k.history) <= Len(line)
        /\ \A i \in 1..Len(k.history) : k.history[i].cites \cap k.known = {} /\ line[i] = k.history[i]
    BY <1>1, <2>2 DEF Reached, Stands
  <2>4. PICK n \in 1..Len(line) : n = Len(k.history)
    BY ONLY <1>1, <2>3
  <2> HIDE DEF k
  <2>5. /\ cp = line[n] /\ \A i \in 1..n : line[i].cites \cap k.known = {}
        /\ k.now.kind \notin {"get", "latest"} /\ k.now.kind = "put"
    BY ONLY <2>1, <2>2, <2>3, <2>4
  <2> QED BY ONLY <2>5, Zenon DEF k
<1>3. CASE k.step # "stored"
  <2>1. k.step = "loaded" /\ k.left = <<>> /\ Len(k.left) = 0 /\ k.now.kind # "put"
        /\ cp = Line!Last(Line!Ancestry(k.history, k.id))
    BY <1>3 DEF Line!Result, Line!Verified
  <2>2. PICK n \in Nat : Reached(k, n, k.known \cup k.atSwap)
    BY <2>1 DEF LineCallOK
  <2>3. /\ Sound(k.history) /\ Stands(k.history, Len(k.history), line)
        /\ k.now.kind = "latest" => k.since <= Len(k.history)
    BY <1>1, <2>1 DEF LineCallOK, Sound
  <2> HIDE DEF k
  <2>4. /\ n \in 1..Len(k.history) /\ k.history[n].id = k.id
        /\ k.now.kind # "get" => n = Len(k.history)
        /\ \A i \in 1..n : k.history[i].cites \cap (k.known \cup k.atSwap) = {}
    BY <2>1, <2>2 DEF Reached
  <2>5. cp = k.history[n]
    BY <2>1, <2>3, <2>4, AncestryFacts DEF Line!Last
  <2>6. /\ n \in 1..Len(line)
        /\ \A i \in 1..n : line[i] = k.history[i]
    BY <1>1, <2>3, <2>4 DEF Stands
  <2>7. n \in 1..n
    BY <2>6
  <2>8. k.now.kind = "latest" => k.since <= n
    BY <2>3, <2>4
  <2> QED BY <2>1, <2>4, <2>5, <2>6, <2>7, <2>8 DEF k
<1> QED BY <1>2, <1>3

LEMMA LineAnswerKeeps ==
    ASSUME LineInv, NEW c \in Callers, ccall[c] # Line!Idle, NEW cp \in Line!Result(c),
           NEW isNew \in BOOLEAN, Line!Answer(c, cp, isNew), line' = line, lost' = lost,
           isNew => /\ ccall[c].phase = "readback" /\ ccall[c].request.kind = "publish"
                    /\ ccall[c].request.checkpoint = cp
    PROVE  LineInv'
<1> DEFINE k == ccall[c]
           a == [caller |-> c, call |-> k, checkpoint |-> cp, created |-> isNew]
<1>1. /\ k \in LineCalls /\ LineCallOK(k, line, lost) /\ Sound(line) /\ Len(line) \in Nat
      /\ k.request \in Line!Requests /\ k.phase \in Phases /\ k.now = Line!StoreCall(k.request, k.phase)
      /\ k.since \in Nat
  BY LineHere, LineCallFacts DEF LineCallOK
<1>2. PICK n \in 1..Len(line) :
         /\ cp = line[n]
         /\ \A i \in 1..n : line[i].cites \cap k.known = {}
         /\ k.now.kind # "put" => \A i \in 1..n : line[i].cites \cap k.atSwap = {}
         /\ k.now.kind = "latest" => k.since <= n
  BY <1>1, ResultFacts
<1>3. /\ cp \in Line!Checkpoints /\ cp.revision = n /\ cp.id \in CheckpointIds
      /\ cp.id \in Line!IdsOf(line)
  <2>1. line[n] \in Line!Checkpoints /\ line[n].revision = n /\ DOMAIN line = 1..Len(line)
    BY <1>1, <1>2, SoundFacts DEF Sound
  <2> QED BY <1>2, <2>1, CheckpointFacts DEF Line!IdsOf
<1>4. isNew => k.now.kind # "put"
  BY <1>1, LineRequestFacts
<1>5. /\ ccall' = [ccall EXCEPT ![c] = Line!Idle] /\ canswered' = {a}
      /\ created' = [created EXCEPT ![cp.id] = @ + (IF isNew THEN 1 ELSE 0)]
  BY DEF Line!Answer
<1>6. LineShape /\ LineCallsOK /\ CreationsOK
  BY DEF LineInv
<1>7. LineCallsOK'
  BY <1>1, <1>5, <1>6, StandsItself, LineCallsKeep
<1>8. LineShape'
  BY <1>6 DEF LineShape
<1> HIDE DEF k
<1>9. LineAnswersOK'
  <2>1. a.checkpoint = cp /\ a.call = k /\ a.created = isNew
    OBVIOUS
  <2>2. \A i \in 1..cp.revision : line'[i].cites \cap k.known = {}
    BY <1>2, <1>3
  <2>3. isNew => \A i \in 1..cp.revision : line'[i].cites \cap k.atSwap = {}
    BY <1>2, <1>3, <1>4
  <2>4. /\ cp.revision \in DOMAIN line' /\ line'[cp.revision] = cp
        /\ k.now.kind = "latest" => cp.revision >= k.since
    BY <1>1, <1>2, <1>3 DEF Sound
  <2> HIDE DEF a
  <2>5. Line!AnswersHadTheirSources'
    BY <1>5, <2>1, <2>2 DEF Line!AnswersHadTheirSources
  <2>6. Line!PublicationsAreReadBack'
    BY <1>5, <2>1, <2>3 DEF Line!PublicationsAreReadBack
  <2>7. Line!AnswersAreOfTheLine'
    BY <1>5, <2>1, <2>4 DEF Line!AnswersAreOfTheLine
  <2> QED BY <2>5, <2>6, <2>7 DEF LineAnswersOK
<1>10. CreationsOK'
  <2>1. \A d \in Callers : ccall'[d] = IF d = c THEN Line!Idle ELSE ccall[d]
    BY <1>5, <1>6 DEF LineCallsOK
  <2>2. \A d \in Callers, id \in CheckpointIds : Owns(ccall'[d], id) => Owns(ccall[d], id) /\ d # c
    BY <2>1 DEF Owns
  <2>3. \A d \in Callers, id \in CheckpointIds : Owns(ccall[d], id)' <=> Owns(ccall'[d], id)
    BY DEF Owns
  <2>4. isNew => Owns(ccall[c], cp.id)
    BY DEF Owns
  <2>5. created' \in [CheckpointIds -> Nat]
    BY <1>3, <1>5, <1>6 DEF CreationsOK
  <2>6. ASSUME NEW id \in CheckpointIds
        PROVE  /\ created'[id] <= 1
               /\ created'[id] = 1 => id \in Line!IdsOf(line')
               /\ \A d \in Callers : Owns(ccall'[d], id) =>
                     /\ created'[id] = 0 /\ id \in Line!IdsOf(line')
                     /\ \A e \in Callers : Owns(ccall'[e], id) => d = e
    <3>1. CASE isNew /\ id = cp.id
      <4>1. created[id] = 0 /\ created'[id] = 1
        BY <1>3, <1>5, <1>6, <2>4, <3>1 DEF CreationsOK
      <4>2. \A d \in Callers : ~ Owns(ccall'[d], id)
        BY <1>6, <2>2, <2>4, <3>1 DEF CreationsOK
      <4> QED BY <1>3, <3>1, <4>1, <4>2
    <3>2. CASE ~ (isNew /\ id = cp.id)
      <4>1. created'[id] = created[id]
        BY <1>3, <1>5, <1>6, <3>2 DEF CreationsOK
      <4> QED BY <1>6, <2>2, <4>1 DEF CreationsOK
    <3> QED BY <3>1, <3>2
  <2>7. Line!IdsOf(line)' = Line!IdsOf(line')
    OBVIOUS
  <2> QED BY <2>3, <2>5, <2>6, <2>7 DEF CreationsOK
<1> QED BY <1>7, <1>8, <1>9, <1>10 DEF LineInv

LEMMA LineReplyKeeps == ASSUME LineInv, NEW c \in Callers, Line!Reply(c) PROVE LineInv'
<1>1. PICK cp \in Line!Result(c) : Line!Answer(c, cp, FALSE)
  BY DEF Line!Reply
<1>2. ccall[c] # Line!Idle /\ line' = line /\ lost' = lost
  BY StepIsCall DEF Line!Reply
<1> QED BY <1>1, <1>2, LineAnswerKeeps

(* A publication goes on with its next store call.                         *)
LEMMA LineGoOnKeeps ==
    ASSUME LineInv, NEW c \in Callers, ccall[c] # Line!Idle, NEW phase \in Phases,
           Line!GoOn(c, phase), canswered' = {}, line' = line, lost' = lost, created' = created,
           phase = "readback" => ccall[c].phase = "put" /\ ccall[c].step = "stored"
    PROVE  LineInv'
<1> DEFINE k == ccall[c]
           b == Line!Begin(k.request, phase)
           r == [b EXCEPT !.known = k.known, !.since = k.since, !.atSwap = k.atSwap]
<1>1. /\ k \in LineCalls /\ LineCallOK(k, line, lost) /\ Sound(line) /\ Len(line) \in Nat
      /\ k.request \in Line!Requests /\ LineShape
  BY LineHere, LineCallFacts DEF LineInv
<1>2. /\ k.since \in Nat /\ k.since <= Len(line)
      /\ k.known \in SUBSET SourceEvents /\ k.atSwap \in SUBSET SourceEvents
      /\ k.known \subseteq lost /\ k.atSwap \subseteq lost
  BY <1>1, LineCallFacts DEF LineCallOK
<1>3. /\ b \in LineCalls /\ LineCallOK(b, line, lost) /\ b.phase = phase /\ b.request = k.request
      /\ b.step = "asked"
  BY <1>1, BegunFacts
<1>4. ccall' = [ccall EXCEPT ![c] = r]
  <2>1. LineCallsOK
    BY DEF LineInv
  <2> QED BY <2>1 DEF Line!GoOn, LineCallsOK
<1> HIDE DEF k, b
<1>5. /\ r \in LineCalls /\ r.step = "asked" /\ r.request = k.request /\ r.phase = phase
      /\ r.now = b.now /\ r.known = k.known /\ r.since = k.since /\ r.atSwap = k.atSwap
  BY ONLY <1>2, <1>3 DEF LineCalls
<1> HIDE DEF r
<1>6. LineCallOK(r, line, lost)
  BY <1>2, <1>3, <1>5 DEF LineCallOK
<1>7. \A id \in CheckpointIds : Owns(r, id) => Owns(ccall[c], id)
  BY <1>5 DEF Owns, k
<1> QED BY <1>4, <1>5, <1>6, <1>7, LineAloneKeeps

LEMMA LineFindHeadKeeps == ASSUME LineInv, NEW c \in Callers, Line!FindHead(c) PROVE LineInv'
<1> DEFINE cp == ccall[c].request.checkpoint
<1>1. ccall[c] # Line!Idle /\ line' = line /\ lost' = lost
  BY StepIsCall DEF Line!FindHead
<1>2. CASE Line!Result(c) = {cp} /\ Line!Answer(c, cp, FALSE)
  BY <1>1, <1>2, LineAnswerKeeps
<1>3. CASE Line!GoOn(c, "put") /\ canswered' = {} /\ UNCHANGED created
  BY <1>1, <1>3, LineGoOnKeeps DEF Phases
<1> QED BY <1>2, <1>3 DEF Line!FindHead

LEMMA StoredFacts ==
    ASSUME LineInv, NEW c \in Callers, Line!IsStored(c)
    PROVE  ccall[c].step = "stored" /\ ccall[c].phase = "put" /\ ccall[c] # Line!Idle
<1>1. /\ ccall[c] # Line!Idle /\ ccall[c].phase = "put" /\ ccall[c].request.kind = "publish"
      /\ Line!Result(c) # {}
  BY StepIsCall DEF Line!IsStored
<1>2. /\ ccall[c].request \in Line!Requests /\ ccall[c].phase \in Phases
      /\ ccall[c].now = Line!StoreCall(ccall[c].request, ccall[c].phase)
  BY <1>1, LineHere, LineCallFacts DEF LineCallOK
<1>3. ccall[c].now.kind = "put"
  BY <1>1, <1>2, LineRequestFacts
<1> QED BY <1>1, <1>3 DEF Line!Result

LEMMA LineSettleKeeps == ASSUME LineInv, NEW c \in Callers, Line!Settle(c) PROVE LineInv'
  BY StoredFacts, LineGoOnKeeps DEF Line!Settle, Phases

LEMMA LineReadBackKeeps == ASSUME LineInv, NEW c \in Callers, Line!ReadBack(c) PROVE LineInv'
<1> DEFINE cp == ccall[c].request.checkpoint
<1>1. /\ ccall[c] # Line!Idle /\ ccall[c].phase = "readback" /\ ccall[c].request.kind = "publish"
      /\ cp \in Line!Result(c) /\ Line!Answer(c, cp, TRUE) /\ line' = line /\ lost' = lost
  BY StepIsCall DEF Line!ReadBack
<1> QED BY <1>1, LineAnswerKeeps

LEMMA LineFailKeeps == ASSUME LineInv, NEW c \in Callers, Line!Fail(c) PROVE LineInv'
<1>1. \A id \in CheckpointIds : ~ Owns(Line!Idle, id)
  BY DEF Owns
<1> QED BY <1>1, LineAloneKeeps DEF Line!Fail

LEMMA LineLoseKeeps == ASSUME LineInv, Line!Lose PROVE LineInv'
<1>1. /\ lost \subseteq lost' /\ lost' \subseteq SourceEvents /\ canswered' = {}
      /\ line' = line /\ ccall' = ccall /\ created' = created
      /\ LineShape /\ LineCallsOK /\ CreationsOK
  BY DEF Line!Lose, LineInv, LineShape
<1>2. LineShape' /\ Len(line) \in Nat
  BY <1>1, SoundFacts DEF LineShape
<1>3. LineCallsOK'
  <2>1. \A d \in Callers : ccall[d] # Line!Idle => LineCallOK(ccall[d], line, lost')
    BY <1>1, <1>2, StandsItself, LineOthersKeep DEF LineCallsOK
  <2> QED BY <1>1, <2>1 DEF LineCallsOK
<1>4. CreationsOK'
  BY <1>1 DEF CreationsOK, Owns, Line!IdsOf
<1>5. LineAnswersOK'
  BY <1>1, LineQuietAnswers
<1> QED BY <1>2, <1>3, <1>4, <1>5 DEF LineInv

(***************************************************************************)
(* All steps.                                                              *)
(***************************************************************************)
LEMMA LineStarts == ASSUME Line!StoreAssumption, Line!Init PROVE LineInv
<1>1. /\ line = <<>> /\ lost = {} /\ ccall = [c \in Callers |-> Line!Idle]
      /\ created = [id \in CheckpointIds |-> 0] /\ canswered = {} /\ MaxLine \in Nat
  BY DEF Line!Init, Line!StoreAssumption
<1>2. LineShape
  BY <1>1 DEF LineShape, Sound, Line!ValidLedger
<1>3. LineCallsOK
  BY <1>1 DEF LineCallsOK
<1>4. CreationsOK
  BY <1>1 DEF CreationsOK, Owns
<1>5. LineAnswersOK
  BY <1>1 DEF LineAnswersOK, Line!AnswersHadTheirSources, Line!AnswersAreOfTheLine, Line!PublicationsAreReadBack
<1> QED BY <1>2, <1>3, <1>4, <1>5 DEF LineInv

LEMMA LineStutterKeeps == ASSUME LineInv, UNCHANGED Line!vars PROVE LineInv'
<1>1. /\ line' = line /\ lost' = lost /\ ccall' = ccall /\ created' = created /\ canswered' = canswered
  BY DEF Line!vars
<1>2. LineShape'
  BY <1>1 DEF LineInv, LineShape
<1>3. LineCallsOK'
  BY <1>1 DEF LineInv, LineCallsOK
<1>4. CreationsOK'
  BY <1>1 DEF LineInv, CreationsOK, Owns, Line!IdsOf
<1>5. LineAnswersOK'
  BY <1>1 DEF LineInv, LineAnswersOK, Line!AnswersHadTheirSources, Line!AnswersAreOfTheLine, Line!PublicationsAreReadBack
<1> QED BY <1>2, <1>3, <1>4, <1>5 DEF LineInv

(* A step that leaves the line alone lets it grow by nothing.              *)
LEMMA LineStays == ASSUME LineInv, line' = line PROVE Line!LineOnlyGrows
<1>1. Len(line) \in Nat
  BY SoundFacts DEF LineInv, LineShape
<1> QED BY <1>1 DEF Line!LineOnlyGrows, Line!IsPrefix

LEMMA LineStepKeeps ==
    ASSUME Line!StoreAssumption, Line!AskedAssumption, LineInv, Line!Next \/ UNCHANGED Line!vars
    PROVE  LineInv' /\ (Line!LineOnlyGrows \/ UNCHANGED Line!vars)
<1>1. CASE UNCHANGED Line!vars
  BY <1>1, LineStutterKeeps
<1>2. CASE Line!Lose
  BY <1>2, LineLoseKeeps, LineStays DEF Line!Lose
<1>3. ASSUME NEW c \in Callers, NEW request \in AskedOfLine, Line!Ask(c, request)
      PROVE  LineInv' /\ Line!LineOnlyGrows
  BY <1>3, LineAskKeeps, LineStays DEF Line!Ask
<1>4. ASSUME NEW c \in Callers, Line!Load(c) PROVE LineInv' /\ Line!LineOnlyGrows
  BY <1>4, LineLoadKeeps, LineStays DEF Line!Load, Line!StoreAssumption
<1>5. ASSUME NEW c \in Callers, Line!Verify(c) PROVE LineInv' /\ Line!LineOnlyGrows
  BY <1>5, LineVerifyKeeps, LineStays DEF Line!Verify
<1>6. ASSUME NEW c \in Callers, Line!Swap(c) PROVE LineInv' /\ Line!LineOnlyGrows
  BY <1>6, LineSwapKeeps
<1>7. ASSUME NEW c \in Callers, Line!Reply(c) PROVE LineInv' /\ Line!LineOnlyGrows
  BY <1>7, LineReplyKeeps, LineStays DEF Line!Reply
<1>8. ASSUME NEW c \in Callers, Line!FindHead(c) PROVE LineInv' /\ Line!LineOnlyGrows
  BY <1>8, LineFindHeadKeeps, LineStays DEF Line!FindHead
<1>9. ASSUME NEW c \in Callers, Line!Settle(c) PROVE LineInv' /\ Line!LineOnlyGrows
  BY <1>9, LineSettleKeeps, LineStays DEF Line!Settle
<1>10. ASSUME NEW c \in Callers, Line!ReadBack(c) PROVE LineInv' /\ Line!LineOnlyGrows
  BY <1>10, LineReadBackKeeps, LineStays DEF Line!ReadBack
<1>11. ASSUME NEW c \in Callers, Line!Fail(c) PROVE LineInv' /\ Line!LineOnlyGrows
  BY <1>11, LineFailKeeps, LineStays DEF Line!Fail
<1> QED BY <1>1, <1>2, <1>3, <1>4, <1>5, <1>6, <1>7, <1>8, <1>9, <1>10, <1>11 DEF Line!Next

(* What is left of what was loaded is its end, unless one was asked for.   *)
IsEnd(s, t) == Len(s) <= Len(t) /\ \A j \in 1..Len(s) : s[j] = t[Len(t) - Len(s) + j]

LEMMA EndIsSuffix ==
    ASSUME NEW S, NEW s \in Seq(S), NEW t \in Seq(S), IsEnd(s, t)
    PROVE  Line!IsSuffix(s, t)
<1>0. PICK l \in Nat, n \in Nat :
        /\ l = Len(s) /\ n = Len(t) /\ l <= n /\ \A j \in 1..l : s[j] = t[n - l + j]
  BY DEF IsEnd
<1> USE <1>0
<1>1. /\ Line!Reverse(s) = [i \in 1..l |-> s[l - i + 1]]
      /\ Line!Reverse(t) = [i \in 1..n |-> t[n - i + 1]]
  BY DEF Line!Reverse
<1>2. ASSUME NEW i \in 1..l PROVE Line!Reverse(s)[i] = Line!Reverse(t)[i]
  <2>1. i \in Int /\ 1 <= i /\ i <= l
    OBVIOUS
  <2>2. l - i + 1 \in 1..l /\ i \in 1..n
    BY <2>1
  <2>3. n - l + (l - i + 1) = n - i + 1
    BY <2>1
  <2>4. s[l - i + 1] = t[n - l + (l - i + 1)]
    BY <2>2
  <2> QED BY <1>1, <2>2, <2>3, <2>4
<1>3. Line!Reverse(s) \in Seq(S) /\ Len(Line!Reverse(s)) = l
  <2>1. \A i \in 1..l : l - i + 1 \in 1..l
    OBVIOUS
  <2>2. Line!Reverse(s) \in [1..l -> S]
    BY <1>1, <2>1
  <2> QED BY <1>1, <2>2
<1>4. Line!Reverse(t) \in Seq(S) /\ Len(Line!Reverse(t)) = n
  <2>1. \A i \in 1..n : n - i + 1 \in 1..n
    OBVIOUS
  <2>2. Line!Reverse(t) \in [1..n -> S]
    BY <1>1, <2>1
  <2> QED BY <1>1, <2>2
<1>5. SubSeq(Line!Reverse(s), 1, l) = SubSeq(Line!Reverse(t), 1, l)
  BY <1>2, <1>3, <1>4
<1> QED BY <1>3, <1>4, <1>5 DEF Line!IsSuffix, Line!IsPrefix

LEMMA LeftIsSuffix ==
    ASSUME NEW k \in LineCalls, NEW n \in Nat, Reached(k, n, k.known \cup k.atSwap), k.now.kind # "get"
    PROVE  Line!IsSuffix(k.left, k.history)
<1>1. k.left \in Seq(Line!Checkpoints) /\ k.history \in Seq(Line!Checkpoints) /\ Len(k.left) \in Nat
  BY LineCallFacts
<1>2. /\ n = Len(k.history) /\ Len(k.left) <= n
      /\ \A j \in 1..Len(k.left) : k.left[j] = k.history[n - Len(k.left) + j]
  BY DEF Reached
<1>3. IsEnd(k.left, k.history)
  BY ONLY <1>2 DEF IsEnd
<1> QED BY ONLY <1>1, <1>3, EndIsSuffix

LEMMA LineInvImplies ==
    ASSUME LineInv
    PROVE  /\ Line!TypeOK /\ Line!LineIsLinear /\ Line!AnswersHadTheirSources
           /\ Line!AnswersAreOfTheLine /\ Line!CheckpointsAreCreatedOnce
           /\ Line!PublicationsAreReadBack
<1>1. /\ LineShape /\ LineCallsOK /\ CreationsOK /\ LineAnswersOK
      /\ line \in Seq(Line!Checkpoints) /\ Len(line) <= MaxLine /\ DOMAIN line = 1..Len(line)
  BY SoundFacts DEF LineInv, LineShape, Sound
<1>2. Line!LineIsLinear
  BY <1>1, SoundFacts DEF Line!LineIsLinear, LineShape
<1>3. ASSUME NEW c \in Callers, ccall[c] # Line!Idle
      PROVE  /\ ccall[c].step \in Line!Steps \ {"idle"} /\ ccall[c].request \in Line!Requests
             /\ ccall[c].step = "loaded" => Line!IsSuffix(ccall[c].left, ccall[c].history)
                                              \/ ccall[c].now.kind = "get"
  <2>1. ccall[c] \in LineCalls /\ LineCallOK(ccall[c], line, lost)
    BY <1>3, LineHere
  <2>2. ccall[c].step = "loaded" => \E n \in Nat : Reached(ccall[c], n, ccall[c].known \cup ccall[c].atSwap)
    BY <2>1 DEF LineCallOK
  <2>3. ccall[c].step \in {"asked", "loaded", "stored"} /\ ccall[c].request \in Line!Requests
    BY <2>1, LineCallFacts
  <2> QED BY <2>1, <2>2, <2>3, LeftIsSuffix DEF Line!Steps
<1>4. Line!TypeOK
  BY <1>1, <1>3 DEF Line!TypeOK, LineShape, CreationsOK
<1>5. Line!CheckpointsAreCreatedOnce
  BY <1>1 DEF Line!CheckpointsAreCreatedOnce, CreationsOK
<1> QED BY <1>1, <1>2, <1>4, <1>5 DEF LineAnswersOK

\* However publishers race, lose answers and come back, and whatever source
\* disappears meanwhile: the compaction checkpoints of a session stay one
\* line that only grows, an answered checkpoint is of that line and its
\* sources and those of its ancestors were there when the call began, and one
\* publication at most claims to have created a checkpoint, after it read
\* its sources again (phenix-plugin-compaction-checkpoints, publish.rs).
THEOREM CheckpointsStayALine ==
    ASSUME Line!StoreAssumption, Line!AskedAssumption
    PROVE  Line!Spec => CheckpointsFormALine
<1>1. Line!Init => LineInv
  BY LineStarts
<1>2. LineInv /\ [Line!Next]_(Line!vars) => LineInv'
  BY LineStepKeeps
<1>3. LineInv /\ [Line!Next]_(Line!vars) => [Line!LineOnlyGrows]_(Line!vars)
  BY LineStepKeeps
<1>4. LineInv => /\ Line!TypeOK /\ Line!LineIsLinear /\ Line!AnswersHadTheirSources
                 /\ Line!AnswersAreOfTheLine /\ Line!CheckpointsAreCreatedOnce
                 /\ Line!PublicationsAreReadBack
  BY LineInvImplies
<1> QED BY <1>1, <1>2, <1>3, <1>4, PTL DEF Line!Spec, CheckpointsFormALine

----------------------------------------------------------------------------
(***************************************************************************)
(* The ledger of evidence (EvidenceStore).                                 *)
(***************************************************************************)
CONSTANTS FactIds, Sources, Times, Facts, MaxHistory, MaxLimit, MaxSourceVersion, MaxGrants

VARIABLES ledger, version, active, grants, ecall, eanswered

Ledger == INSTANCE EvidenceStore WITH
    Ids <- FactIds, MaxVersion <- MaxSourceVersion, call <- ecall, answered <- eanswered

\* What is written and answered cites sources as they were observed during
\* the call; an acknowledged fact stays; the ledger only grows; a correction
\* changes no answer about the time before it.
EvidenceIsKept ==
    /\ [](/\ Ledger!TypeOK
          /\ Ledger!FactsAreSupported
          /\ Ledger!AcknowledgedFactsStay
          /\ Ledger!EndedFactsAnswerForTheirTime)
    /\ [][/\ Ledger!LedgerOnlyGrows
          /\ Ledger!HistoricalAnswersStand]_(Ledger!vars)

(***************************************************************************)
(* Proof.  Of an identity the records follow one another, in revision and  *)
(* in time, so that at most one of them with an end is valid at a moment   *)
(* and a new one is the newest.  What a call loaded is how the ledger      *)
(* begins, and what it has not left to observe was seen as cited.          *)
(***************************************************************************)
Follows(r, s) ==
    /\ r.revision < s.revision /\ s.from >= r.from
    /\ r.until # Ledger!NoEnd => s.from >= r.until

HasNewest(records) == \E r \in records : \A s \in records : s.revision <= r.revision

IsLedger(history) ==
    /\ history \in Seq(Ledger!Records) /\ Ledger!ValidLedger(history)
    /\ \A i, j \in 1..Len(history) :
          history[i].id = history[j].id /\ i < j => Follows(history[i], history[j])
    /\ \A id \in FactIds : \A some \in SUBSET Ledger!OfId(history, id) : some # {} => HasNewest(some)

Ledgers == [revision : Nat, history : Seq(Ledger!Records)]

Cites == [source : Sources, version : Nat]

Authorized == [step : {"authorized"}, request : Ledger!Requests]

Working == [step : {"loaded", "stored"}, request : Ledger!Requests, ledger : Ledgers,
            facts : SUBSET Ledger!Records, left : SUBSET Cites, witness : SUBSET (Sources \X Nat)]

Seen(facts, left, witness) ==
    \A r \in facts : \A i \in DOMAIN r.sources :
        r.sources[i] \in left \/ <<r.sources[i].source, r.sources[i].version>> \in witness

\* A call that has loaded the ledger, when history is the ledger's and
\* sources what their versions are.
WorkOK(k, history, sources) ==
    /\ k \in Working
    /\ k.ledger.revision = Len(k.ledger.history)
    /\ Stands(k.ledger.history, Len(k.ledger.history), history)
    /\ Seen(k.facts, k.left, k.witness)
    /\ \A s \in Sources : <<s, sources[s]>> \in k.witness
    /\ k.request.kind = "put" => Ledger!Appendable(k.ledger.history, k.request.fact)
    /\ k.step = "stored" =>
          /\ k.request.kind = "put" /\ k.left = {}
          /\ Stands(Append(k.ledger.history, k.request.fact), Len(k.ledger.history) + 1, history)

EvidenceCallsOK ==
    /\ ecall \in [Callers -> {Ledger!Idle} \cup Authorized \cup Working]
    /\ \A c \in Callers : ecall[c] \in Working => WorkOK(ecall[c], ledger.history, version)

EvidenceShape ==
    /\ ledger \in Ledgers /\ ledger.revision = Len(ledger.history) /\ IsLedger(ledger.history)
    /\ version \in [Sources -> 1..MaxSourceVersion]
    /\ active \in BOOLEAN /\ grants \in 0..MaxGrants

EvidenceAnswersOK ==
    /\ \A a \in eanswered : a.facts \subseteq Ledger!Records
    /\ Ledger!FactsAreSupported /\ Ledger!AcknowledgedFactsStay

EvidenceInv == EvidenceShape /\ EvidenceCallsOK /\ EvidenceAnswersOK

(***************************************************************************)
(* Histories.                                                              *)
(***************************************************************************)
LEMMA NewestFacts ==
    ASSUME NEW records, HasNewest(records)
    PROVE  /\ Ledger!Newest(records) \in records
           /\ \A s \in records : s.revision <= Ledger!Newest(records).revision
  BY DEF HasNewest, Ledger!Newest

LEMMA FactRecordFacts ==
    ASSUME NEW r \in Ledger!Records
    PROVE  /\ r.id \in FactIds /\ r.revision \in Nat /\ r.from \in Nat
           /\ r.until \in Nat \cup {Ledger!NoEnd} /\ r.withdrawn \in BOOLEAN
           /\ r.sources \in Seq(Cites) /\ Ledger!NoEnd \in Int
  BY DEF Ledger!Records, Cites, Ledger!NoEnd

LEMMA OfIdFacts ==
    ASSUME NEW history \in Seq(Ledger!Records)
    PROVE  \A id : Ledger!OfId(history, id) = {history[i] : i \in {j \in 1..Len(history) : history[j].id = id}}
  BY DEF Ledger!OfId, Ledger!ToSet

LEMMA LedgerFacts ==
    ASSUME NEW history, IsLedger(history)
    PROVE  /\ history \in Seq(Ledger!Records) /\ Len(history) \in Nat
           /\ \A i \in 1..Len(history) : history[i] \in Ledger!Records
  BY DEF IsLedger

LEMMA AppendIsLedger ==
    ASSUME MaxHistory \in Nat, NEW history, IsLedger(history), NEW r \in Ledger!Records,
           Ledger!Appendable(history, r)
    PROVE  /\ IsLedger(Append(history, r))
           /\ Len(Append(history, r)) = Len(history) + 1
           /\ \A i \in 1..Len(history) :
                 /\ Append(history, r)[i] = history[i]
                 /\ history[i].id = r.id => Follows(history[i], r)
           /\ Append(history, r)[Len(history) + 1] = r
<1> DEFINE longer == Append(history, r)
           n == Len(history)
<1>1. /\ history \in Seq(Ledger!Records) /\ n \in Nat /\ longer \in Seq(Ledger!Records)
      /\ Len(longer) = n + 1 /\ longer[n + 1] = r /\ \A i \in 1..n : longer[i] = history[i]
      /\ DOMAIN history = 1..n /\ DOMAIN longer = 1..n + 1
      /\ \A i \in 1..n : history[i] \in Ledger!Records
  BY DEF IsLedger
<1>2. /\ Ledger!WellFormed(r) /\ n < MaxHistory /\ Ledger!ValidLedger(history)
      /\ r.revision = Ledger!NextRevision(history, r.id)
      /\ Ledger!OfId(history, r.id) # {} =>
            /\ r.from >= Ledger!Newest(Ledger!OfId(history, r.id)).from
            /\ Ledger!Newest(Ledger!OfId(history, r.id)).until # Ledger!NoEnd =>
                  r.from >= Ledger!Newest(Ledger!OfId(history, r.id)).until
  BY DEF Ledger!Appendable
<1>3. /\ \A i, j \in 1..n : history[i].id = history[j].id /\ i < j => Follows(history[i], history[j])
      /\ \A id \in FactIds : \A some \in SUBSET Ledger!OfId(history, id) : some # {} => HasNewest(some)
  BY DEF IsLedger
<1> HIDE DEF longer, n
<1>4. ASSUME NEW i \in 1..n, history[i].id = r.id PROVE Follows(history[i], r)
  <2> DEFINE last == Ledger!Newest(Ledger!OfId(history, r.id))
  <2>1. history[i] \in Ledger!OfId(history, r.id)
    BY <1>1, <1>4, OfIdFacts DEF n
  <2>2. /\ last \in Ledger!OfId(history, r.id) /\ history[i].revision <= last.revision
        /\ r.revision = last.revision + 1
        /\ r.from >= last.from /\ (last.until # Ledger!NoEnd => r.from >= last.until)
    <3>1. HasNewest(Ledger!OfId(history, r.id))
      BY <1>3, <2>1, FactRecordFacts
    <3> QED BY <1>2, <2>1, <3>1, NewestFacts DEF Ledger!NextRevision
  <2> HIDE DEF last
  <2>3. PICK k \in 1..n : history[k] = last /\ history[k].id = r.id
    BY <1>1, <2>2, OfIdFacts DEF n
  <2>4. /\ last.revision \in Nat /\ history[i].revision \in Nat /\ r.from \in Nat /\ last.from \in Nat
        /\ history[i].from \in Nat /\ history[i].until \in Nat \cup {Ledger!NoEnd} /\ Ledger!NoEnd \in Int
    BY <1>1, <2>3, FactRecordFacts
  <2>5. CASE i = k
    BY <2>2, <2>3, <2>4, <2>5 DEF Follows
  <2>6. CASE i < k
    <3>1. Follows(history[i], last)
      BY <1>3, <1>4, <2>3, <2>6
    <3> QED BY <2>2, <2>4, <3>1 DEF Follows
  <2>7. CASE k < i
    <3>1. Follows(last, history[i])
      BY <1>3, <1>4, <2>3, <2>7
    <3> QED BY <2>2, <2>4, <3>1 DEF Follows
  <2> QED BY <1>1, <2>5, <2>6, <2>7
<1>5. ASSUME NEW i \in 1..n + 1, NEW j \in 1..n + 1, longer[i].id = longer[j].id, i < j
      PROVE  Follows(longer[i], longer[j])
  <2>1. i \in 1..n /\ (j \in 1..n \/ j = n + 1)
    BY <1>1, <1>5
  <2> QED BY <1>1, <1>3, <1>4, <1>5, <2>1
<1>6. ASSUME NEW id \in FactIds, NEW some \in SUBSET Ledger!OfId(longer, id), some # {}
      PROVE  HasNewest(some)
  <2>1. Ledger!OfId(longer, id) = Ledger!OfId(history, id) \cup (IF id = r.id THEN {r} ELSE {})
    <3>1. Ledger!OfId(longer, id) = {longer[i] : i \in {j \in 1..n + 1 : longer[j].id = id}}
      BY <1>1, OfIdFacts
    <3>2. Ledger!OfId(history, id) = {history[i] : i \in {j \in 1..n : history[j].id = id}}
      BY <1>1, OfIdFacts DEF n
    <3>3. \A i \in 1..n + 1 : i \in 1..n \/ i = n + 1
      BY <1>1
    <3>4. n + 1 \in 1..n + 1 /\ \A i \in 1..n : i \in 1..n + 1
      BY <1>1
    <3> QED BY <1>1, <3>1, <3>2, <3>3, <3>4
  <2>2. CASE r \in some /\ id = r.id
    <3>1. \A s \in Ledger!OfId(history, id) : s.revision < r.revision
      BY <1>1, <1>4, <2>2, OfIdFacts DEF n, Follows
    <3>2. r.revision \in Nat /\ \A s \in Ledger!OfId(history, id) : s.revision \in Nat
      BY <1>1, OfIdFacts, FactRecordFacts DEF n
    <3> QED BY <2>1, <2>2, <3>1, <3>2 DEF HasNewest
  <2>3. CASE ~ (r \in some /\ id = r.id)
    <3>1. some \in SUBSET Ledger!OfId(history, id)
      BY <2>1, <2>3
    <3> QED BY <1>3, <1>6, <3>1
  <2> QED BY <2>2, <2>3
<1>7. Ledger!ValidLedger(longer)
  <2>1. ASSUME NEW i \in 1..n + 1
        PROVE  /\ Ledger!WellFormed(longer[i])
               /\ longer[i].revision = Ledger!NextRevision(SubSeq(longer, 1, i - 1), longer[i].id)
    <3>1. SubSeq(longer, 1, i - 1) = SubSeq(history, 1, i - 1)
      <4>1. \A j \in 1..i - 1 : longer[j] = history[j]
        BY <1>1
      <4> QED BY <1>1, <4>1 DEF n
    <3>2. CASE i \in 1..n
      BY <1>1, <1>2, <3>1, <3>2 DEF Ledger!ValidLedger
    <3>3. CASE i = n + 1
      <4>1. SubSeq(history, 1, i - 1) = history
        BY <1>1, <3>3 DEF n
      <4> QED BY <1>1, <1>2, <3>1, <3>3, <4>1
    <3> QED BY <1>1, <3>2, <3>3
  <2> QED BY <1>1, <1>2, <2>1 DEF Ledger!ValidLedger
<1>8. IsLedger(longer)
  BY <1>1, <1>5, <1>6, <1>7 DEF IsLedger
<1> QED BY <1>1, <1>4, <1>8 DEF longer, n

(***************************************************************************)
(* What is selected of a history, as of a moment.                          *)
(***************************************************************************)
ValidOf(history, id, t) == {r \in Ledger!OfId(history, id) : Ledger!ValidAt(r, t)}

LEMMA SelectedFacts ==
    ASSUME NEW history, NEW t \in Nat
    PROVE  Ledger!Selected(history, t) =
              {r \in {Ledger!Newest(ValidOf(history, id, t)) :
                         id \in {i \in FactIds : ValidOf(history, i, t) # {}}} : ~ r.withdrawn}
<1>1. t # Ledger!NoEnd
  BY DEF Ledger!NoEnd
<1>2. \A id : {r \in Ledger!OfId(history, id) : t # Ledger!NoEnd => Ledger!ValidAt(r, t)}
                 = ValidOf(history, id, t)
  BY <1>1 DEF ValidOf
<1> QED BY <1>2 DEF Ledger!Selected

LEMMA NewestOfValid ==
    ASSUME NEW history, IsLedger(history), NEW id \in FactIds, NEW t, ValidOf(history, id, t) # {}
    PROVE  /\ Ledger!Newest(ValidOf(history, id, t)) \in ValidOf(history, id, t)
           /\ \A s \in ValidOf(history, id, t) :
                 s.revision <= Ledger!Newest(ValidOf(history, id, t)).revision
<1>1. ValidOf(history, id, t) \in SUBSET Ledger!OfId(history, id)
  BY DEF ValidOf
<1> QED BY <1>1, NewestFacts DEF IsLedger

LEMMA EndedIsSelected ==
    ASSUME NEW history, IsLedger(history), NEW t \in Nat, NEW i \in 1..Len(history),
           history[i].until # Ledger!NoEnd, Ledger!ValidAt(history[i], t)
    PROVE  history[i] \in Ledger!Selected(history, t)
<1> DEFINE r == history[i]
           m == Ledger!Newest(ValidOf(history, r.id, t))
<1>1. /\ history \in Seq(Ledger!Records) /\ Len(history) \in Nat
      /\ \A j \in 1..Len(history) : history[j] \in Ledger!Records
      /\ \A j, k \in 1..Len(history) :
            history[j].id = history[k].id /\ j < k => Follows(history[j], history[k])
  BY DEF IsLedger
<1>2. r \in Ledger!Records /\ r.id \in FactIds /\ r.from \in Nat /\ r.until \in Nat /\ r.revision \in Nat
  BY <1>1, FactRecordFacts
<1>3. r \in ValidOf(history, r.id, t)
  BY <1>1, OfIdFacts DEF ValidOf
<1>4. m \in ValidOf(history, r.id, t) /\ r.revision <= m.revision
  BY <1>2, <1>3, NewestOfValid
<1> HIDE DEF m
<1>5. PICK j \in 1..Len(history) : history[j] = m /\ history[j].id = r.id /\ Ledger!ValidAt(m, t)
  BY <1>1, <1>4, OfIdFacts DEF ValidOf
<1>6. m \in Ledger!Records /\ m.revision \in Nat /\ m.from \in Nat
  BY <1>1, <1>5, FactRecordFacts
<1>7. ~ (i < j)
  <2>1. i < j => Follows(r, m)
    BY ONLY <1>1, <1>5
  <2>2. m.from <= t /\ t < r.until /\ r.until # Ledger!NoEnd
    BY <1>2, <1>5 DEF Ledger!ValidAt
  <2> QED BY ONLY <1>2, <1>6, <2>1, <2>2 DEF Follows
<1>8. ~ (j < i)
  BY <1>1, <1>2, <1>4, <1>5, <1>6 DEF Follows
<1>9. m = r
  BY <1>5, <1>7, <1>8
<1> QED BY <1>2, <1>3, <1>9, SelectedFacts DEF Ledger!ValidAt, m

LEMMA CorrectionStands ==
    ASSUME MaxHistory \in Nat, NEW history, IsLedger(history), NEW r \in Ledger!Records,
           Ledger!Appendable(history, r), NEW t \in Nat,
           Ledger!Selected(Append(history, r), t) # Ledger!Selected(history, t)
    PROVE  /\ Ledger!Selected(Append(history, r), t) \ Ledger!Selected(history, t) = {r}
           /\ Ledger!ValidAt(r, t)
<1> DEFINE longer == Append(history, r)
           n == Len(history)
<1>0. /\ IsLedger(longer) /\ Len(longer) = n + 1 /\ longer[n + 1] = r
      /\ \A i \in 1..n : longer[i] = history[i] /\ (history[i].id = r.id => Follows(history[i], r))
  BY AppendIsLedger
<1> HIDE DEF longer
<1>1. /\ IsLedger(longer) /\ Len(longer) = n + 1 /\ longer[n + 1] = r /\ n \in Nat
      /\ \A i \in 1..n : longer[i] = history[i] /\ (history[i].id = r.id => Follows(history[i], r))
      /\ history \in Seq(Ledger!Records) /\ longer \in Seq(Ledger!Records)
      /\ \A i \in 1..n : history[i] \in Ledger!Records
      /\ r.id \in FactIds /\ r.revision \in Nat
  BY <1>0, FactRecordFacts, LedgerFacts
<1>2. \A id \in FactIds : ValidOf(longer, id, t) =
         ValidOf(history, id, t) \cup (IF id = r.id /\ Ledger!ValidAt(r, t) THEN {r} ELSE {})
  <2> TAKE id \in FactIds
  <2>1. Ledger!OfId(longer, id) = {longer[i] : i \in {j \in 1..n + 1 : longer[j].id = id}}
    BY <1>1, OfIdFacts
  <2>2. Ledger!OfId(history, id) = {history[i] : i \in {j \in 1..n : history[j].id = id}}
    BY <1>1, OfIdFacts
  <2>3. \A i \in 1..n + 1 : i \in 1..n \/ i = n + 1
    BY <1>1
  <2>4. n + 1 \in 1..n + 1 /\ \A i \in 1..n : i \in 1..n + 1
    BY <1>1
  <2>5. Ledger!OfId(longer, id) = Ledger!OfId(history, id) \cup (IF id = r.id THEN {r} ELSE {})
    BY <1>1, <2>1, <2>2, <2>3, <2>4
  <2> QED BY <2>5 DEF ValidOf
<1>3. Ledger!ValidAt(r, t)
  <2> SUFFICES ASSUME ~ Ledger!ValidAt(r, t) PROVE FALSE
    OBVIOUS
  <2>1. \A id \in FactIds : ValidOf(longer, id, t) = ValidOf(history, id, t)
    BY <1>2
  <2> QED BY <2>1, SelectedFacts DEF longer
<1>4. Ledger!Newest(ValidOf(longer, r.id, t)) = r
  <2>1. r \in ValidOf(longer, r.id, t)
    BY <1>1, <1>2, <1>3
  <2>2. \A s \in ValidOf(history, r.id, t) : s.revision < r.revision /\ s.revision \in Nat
    <3> TAKE s \in ValidOf(history, r.id, t)
    <3>1. PICK i \in 1..n : history[i] = s /\ history[i].id = r.id
      BY <1>1, OfIdFacts DEF ValidOf
    <3> QED BY <1>1, <3>1, FactRecordFacts DEF Follows
  <2> DEFINE m == Ledger!Newest(ValidOf(longer, r.id, t))
  <2>3. m \in ValidOf(longer, r.id, t) /\ r.revision <= m.revision
    BY <1>1, <2>1, NewestOfValid
  <2> HIDE DEF m
  <2>4. m \notin ValidOf(history, r.id, t)
    BY <1>1, <2>2, <2>3
  <2>5. m = r
    BY <1>1, <1>2, <1>3, <2>3, <2>4
  <2> QED BY <2>5 DEF m
<1>5. r \in Ledger!Selected(longer, t)
  BY <1>1, <1>2, <1>3, <1>4, SelectedFacts DEF Ledger!ValidAt
<1>6. r \notin Ledger!Selected(history, t)
  <2> SUFFICES ASSUME r \in Ledger!Selected(history, t) PROVE FALSE
    OBVIOUS
  <2>1. PICK id \in FactIds : ValidOf(history, id, t) # {} /\ r = Ledger!Newest(ValidOf(history, id, t))
    BY SelectedFacts
  <2>2. r \in ValidOf(history, id, t)
    BY <2>1, NewestOfValid
  <2>3. \E i \in 1..n : history[i] = r
    BY <1>1, <2>2, OfIdFacts DEF ValidOf
  <2> QED BY <1>1, <2>3 DEF Follows
<1>7. ASSUME NEW x \in Ledger!Selected(longer, t), x # r PROVE x \in Ledger!Selected(history, t)
  <2>1. PICK id \in FactIds : /\ ValidOf(longer, id, t) # {} /\ x = Ledger!Newest(ValidOf(longer, id, t))
                              /\ ~ x.withdrawn
    BY SelectedFacts
  <2>2. id # r.id
    BY <1>4, <1>7, <2>1
  <2>3. ValidOf(longer, id, t) = ValidOf(history, id, t)
    BY <1>2, <2>2
  <2> QED BY <2>1, <2>3, SelectedFacts
<1> QED BY <1>3, <1>5, <1>6, <1>7 DEF longer

(***************************************************************************)
(* Calls.                                                                  *)
(***************************************************************************)
LEMMA EvidenceCallFacts ==
    ASSUME NEW k
    PROVE  /\ k \in Authorized => /\ k.step = "authorized" /\ k.request \in Ledger!Requests
                                  /\ k # Ledger!Idle /\ k \notin Working /\ "witness" \notin DOMAIN k
           /\ k \in Working => /\ k.step \in {"loaded", "stored"} /\ k.request \in Ledger!Requests
                               /\ k.ledger \in Ledgers /\ k.facts \subseteq Ledger!Records
                               /\ k.left \subseteq Cites /\ k.witness \subseteq Sources \X Nat
                               /\ k # Ledger!Idle /\ "witness" \in DOMAIN k
           /\ k = Ledger!Idle => k.step = "idle" /\ "witness" \notin DOMAIN k /\ k \notin Working
<1>1. k \in Authorized => /\ k.step = "authorized" /\ k.request \in Ledger!Requests
                          /\ "witness" \notin DOMAIN k
  BY DEF Authorized
<1>2. k \in Working => /\ k.step \in {"loaded", "stored"} /\ k.request \in Ledger!Requests
                       /\ k.ledger \in Ledgers /\ k.facts \subseteq Ledger!Records
                       /\ k.left \subseteq Cites /\ k.witness \subseteq Sources \X Nat
                       /\ "witness" \in DOMAIN k
  BY DEF Working
<1>3. k = Ledger!Idle => k.step = "idle" /\ "witness" \notin DOMAIN k
  BY DEF Ledger!Idle
<1> QED BY <1>1, <1>2, <1>3

LEMMA EvidenceHere ==
    ASSUME EvidenceInv, NEW c \in Callers
    PROVE  /\ ecall[c].step = "authorized" => ecall[c] \in Authorized
           /\ ecall[c].step \in {"loaded", "stored"} =>
                 ecall[c] \in Working /\ WorkOK(ecall[c], ledger.history, version)
<1>1. ecall[c] \in {Ledger!Idle} \cup Authorized \cup Working
  BY DEF EvidenceInv, EvidenceCallsOK
<1> QED BY <1>1, EvidenceCallFacts DEF EvidenceInv, EvidenceCallsOK

LEMMA EvidenceQuietAnswers == ASSUME eanswered' = {} PROVE EvidenceAnswersOK'
  BY DEF EvidenceAnswersOK, Ledger!FactsAreSupported, Ledger!AcknowledgedFactsStay

(* Others append to the ledger: what a call knows of its beginning stands. *)
LEMMA WorkKeeps ==
    ASSUME NEW k, NEW history, NEW grown, NEW sources, WorkOK(k, history, sources),
           Len(history) \in Nat, Len(grown) \in Nat, Stands(history, Len(history), grown)
    PROVE  WorkOK(k, grown, sources)
<1>1. k \in Working /\ Len(k.ledger.history) \in Nat
  BY EvidenceCallFacts DEF WorkOK, Ledgers
<1>2. ASSUME NEW some, NEW n \in Int, Stands(some, n, history) PROVE Stands(some, n, grown)
  BY <1>2 DEF Stands
<1>3. Len(k.ledger.history) \in Int /\ Len(k.ledger.history) + 1 \in Int
  BY <1>1
<1> QED BY <1>1, <1>2, <1>3 DEF WorkOK

LEMMA EvidenceCallsKeep ==
    ASSUME EvidenceCallsOK, Len(ledger.history) \in Nat, Len(ledger.history)' \in Nat,
           Stands(ledger.history, Len(ledger.history), ledger.history'), version' = version,
           NEW c \in Callers, NEW k \in {Ledger!Idle} \cup Authorized \cup Working,
           ecall' = [ecall EXCEPT ![c] = k],
           k \in Working => WorkOK(k, ledger.history', version)
    PROVE  EvidenceCallsOK'
<1>1. /\ ecall' \in [Callers -> {Ledger!Idle} \cup Authorized \cup Working]
      /\ ecall'[c] = k /\ \A d \in Callers \ {c} : ecall'[d] = ecall[d]
  BY DEF EvidenceCallsOK
<1>2. \A d \in Callers \ {c} : ecall[d] \in Working => WorkOK(ecall[d], ledger.history', version)
  BY WorkKeeps DEF EvidenceCallsOK
<1>3. \A d \in Callers : ecall'[d] \in Working => WorkOK(ecall'[d], ledger'.history, version')
  BY <1>1, <1>2
<1> QED BY <1>1, <1>3 DEF EvidenceCallsOK

LEMMA EvidenceAloneKeeps ==
    ASSUME EvidenceInv, ledger' = ledger, version' = version, active' = active, grants' = grants,
           eanswered' = {}, NEW c \in Callers,
           NEW k \in {Ledger!Idle} \cup Authorized \cup Working, ecall' = [ecall EXCEPT ![c] = k],
           k \in Working => WorkOK(k, ledger.history, version)
    PROVE  EvidenceInv'
<1>1. EvidenceShape /\ EvidenceCallsOK /\ Len(ledger.history) \in Nat
  BY DEF EvidenceInv, EvidenceShape, IsLedger
<1>2. Stands(ledger.history, Len(ledger.history), ledger.history)
  BY <1>1 DEF Stands
<1>3. EvidenceCallsOK'
  BY <1>1, <1>2, EvidenceCallsKeep
<1>4. EvidenceShape'
  BY <1>1 DEF EvidenceShape
<1>5. EvidenceAnswersOK'
  BY EvidenceQuietAnswers
<1> QED BY <1>3, <1>4, <1>5 DEF EvidenceInv

(***************************************************************************)
(* Steps.                                                                  *)
(***************************************************************************)
LEMMA EvidenceAskKeeps ==
    ASSUME EvidenceInv, NEW c \in Callers, NEW request \in Ledger!Requests, Ledger!Ask(c, request)
    PROVE  EvidenceInv'
<1> DEFINE k == [step |-> "authorized", request |-> request]
<1>1. k \in Authorized
  BY DEF Authorized
<1>2. k \notin Working
  BY <1>1, EvidenceCallFacts
<1> QED BY <1>1, <1>2, EvidenceAloneKeeps DEF Ledger!Ask

LEMMA EvidenceFailKeeps ==
    ASSUME EvidenceInv, NEW c \in Callers, Ledger!Fail(c)
    PROVE  EvidenceInv'
<1>1. Ledger!Idle \notin Working
  BY EvidenceCallFacts
<1> QED BY <1>1, EvidenceAloneKeeps DEF Ledger!Fail

(* The facts a call chooses are of the ledger, or the one it puts.         *)
LEMMA ChosenFacts ==
    ASSUME Ledger!FactsAssumption, NEW request \in Ledger!Requests, NEW history, IsLedger(history)
    PROVE  /\ Ledger!Chosen(request, history) \subseteq Ledger!Records
           /\ request.kind = "put" /\ Ledger!Chosen(request, history) # {} =>
                 request.fact \in Ledger!Records /\ Ledger!Appendable(history, request.fact)
<1>1. /\ request.kind \in {"put", "get", "search"}
      /\ request.kind = "put" => request.fact \in Facts
  BY DEF Ledger!Requests
<1>2. \A id : Ledger!OfId(history, id) \subseteq Ledger!Records
  BY OfIdFacts, LedgerFacts
<1>3. CASE request.kind = "put"
  BY <1>1, <1>3 DEF Ledger!Chosen, Ledger!FactsAssumption
<1>4. CASE request.kind = "get"
  BY <1>2, <1>4 DEF Ledger!Chosen
<1>5. CASE request.kind = "search"
  <2> DEFINE eligible(id) == {r \in Ledger!OfId(history, id) :
                                 request.as_of # Ledger!NoEnd => Ledger!ValidAt(r, request.as_of)}
  <2>1. \A id \in FactIds : eligible(id) # {} => Ledger!Newest(eligible(id)) \in Ledger!Records
    <3> TAKE id \in FactIds
    <3> HAVE eligible(id) # {}
    <3>1. eligible(id) \in SUBSET Ledger!OfId(history, id)
      OBVIOUS
    <3>2. Ledger!Newest(eligible(id)) \in eligible(id)
      <4> HIDE DEF eligible
      <4> QED BY <3>1, NewestFacts DEF IsLedger
    <3> QED BY <1>2, <3>1, <3>2
  <2>2. Ledger!Selected(history, request.as_of) \subseteq Ledger!Records
    BY <2>1 DEF Ledger!Selected
  <2> QED BY <1>5, <2>2 DEF Ledger!Chosen
<1> QED BY <1>1, <1>3, <1>4, <1>5

LEMMA EvidenceLoadKeeps ==
    ASSUME Ledger!FactsAssumption, EvidenceInv, NEW c \in Callers, Ledger!Load(c)
    PROVE  EvidenceInv'
<1> DEFINE request == ecall[c].request
           chosen == Ledger!Chosen(request, ledger.history)
           left == UNION {Ledger!ToSet(r.sources) : r \in chosen}
           witness == {<<s, version[s]>> : s \in Sources}
           k == [step |-> "loaded", request |-> request, ledger |-> ledger,
                 facts |-> chosen, left |-> left, witness |-> witness]
<1>0. /\ ecall[c].step = "authorized" /\ Ledger!Admissible(request, chosen)
      /\ ecall' = [ecall EXCEPT ![c] = k] /\ ledger' = ledger /\ version' = version
      /\ active' = active /\ grants' = grants /\ eanswered' = {}
  BY DEF Ledger!Load
<1>1. /\ request \in Ledger!Requests /\ EvidenceShape
  BY <1>0, EvidenceHere, EvidenceCallFacts DEF EvidenceInv
<1>2. /\ ledger \in Ledgers /\ ledger.revision = Len(ledger.history) /\ IsLedger(ledger.history)
      /\ \A s \in Sources : version[s] \in Nat
  BY <1>1 DEF EvidenceShape
<1>3. chosen \subseteq Ledger!Records /\ (request.kind = "put" =>
         request.fact \in Ledger!Records /\ Ledger!Appendable(ledger.history, request.fact))
  BY <1>0, <1>1, <1>2, ChosenFacts DEF Ledger!Admissible
<1> HIDE DEF chosen, request
<1>4. /\ left \subseteq Cites /\ witness \subseteq Sources \X Nat
      /\ \A r \in chosen : \A i \in DOMAIN r.sources : r.sources[i] \in left
  <2>1. \A r \in chosen : r.sources \in Seq(Cites)
    BY <1>3, FactRecordFacts
  <2>2. \A r \in chosen : Ledger!ToSet(r.sources) \subseteq Cites
    BY <2>1 DEF Ledger!ToSet
  <2>3. \A r \in chosen : \A i \in DOMAIN r.sources : r.sources[i] \in Ledger!ToSet(r.sources)
    BY DEF Ledger!ToSet
  <2> QED BY <1>2, <2>2, <2>3
<1> HIDE DEF left
<1>5. k \in Working
  BY <1>1, <1>2, <1>3, <1>4 DEF Working
<1>6. \A s \in Sources : <<s, version[s]>> \in witness
  OBVIOUS
<1> HIDE DEF witness
<1>7. /\ k.step = "loaded" /\ k.request = request /\ k.ledger = ledger /\ k.facts = chosen
      /\ k.left = left /\ k.witness = witness
  OBVIOUS
<1> HIDE DEF k
<1>8. Stands(ledger.history, Len(ledger.history), ledger.history)
  BY <1>2, LedgerFacts DEF Stands
<1>9. WorkOK(k, ledger.history, version)
  BY <1>2, <1>3, <1>4, <1>5, <1>6, <1>7, <1>8 DEF WorkOK, Seen
<1> QED BY <1>0, <1>5, <1>9, EvidenceAloneKeeps

LEMMA EvidenceObserveKeeps ==
    ASSUME EvidenceInv, NEW c \in Callers, Ledger!Observe(c)
    PROVE  EvidenceInv'
<1>0. PICK cited \in ecall[c].left :
         /\ version[cited.source] = cited.version
         /\ ecall' = [ecall EXCEPT ![c].left = @ \ {cited}]
  BY DEF Ledger!Observe
<1> DEFINE w == ecall[c]
           k == [w EXCEPT !.left = w.left \ {cited}]
<1>1. /\ w \in Working /\ WorkOK(w, ledger.history, version) /\ w.step = "loaded"
      /\ ecall' = [ecall EXCEPT ![c] = k] /\ ledger' = ledger /\ version' = version
      /\ active' = active /\ grants' = grants /\ eanswered' = {}
  BY <1>0, EvidenceHere DEF Ledger!Observe
<1>2. w.left \subseteq Cites /\ cited \in Cites /\ cited.source \in Sources
  BY <1>0, <1>1, EvidenceCallFacts DEF Cites
<1> HIDE DEF w
<1>3. /\ k \in Working /\ k.step = w.step /\ k.request = w.request /\ k.ledger = w.ledger
      /\ k.facts = w.facts /\ k.left = w.left \ {cited} /\ k.witness = w.witness
  BY ONLY <1>1, <1>2 DEF Working
<1> HIDE DEF k
<1>4. <<cited.source, cited.version>> \in w.witness
  BY <1>0, <1>1, <1>2 DEF WorkOK
<1>5. Seen(k.facts, k.left, k.witness)
  BY <1>1, <1>3, <1>4 DEF WorkOK, Seen
<1>6. WorkOK(k, ledger.history, version)
  BY <1>1, <1>3, <1>5 DEF WorkOK
<1> QED BY <1>1, <1>3, <1>6, EvidenceAloneKeeps

LEMMA SourceChangeKeeps ==
    ASSUME EvidenceInv, NEW s \in Sources, Ledger!ChangeSource(s), MaxSourceVersion \in Nat
    PROVE  EvidenceInv'
<1>1. /\ version' = [version EXCEPT ![s] = @ + 1] /\ version[s] < MaxSourceVersion
      /\ ecall' = Ledger!Witness(ecall) /\ eanswered' = {} /\ ledger' = ledger
      /\ active' = active /\ grants' = grants /\ EvidenceShape /\ EvidenceCallsOK
  BY DEF Ledger!ChangeSource, EvidenceInv
<1>2. version' \in [Sources -> 1..MaxSourceVersion]
  BY <1>1 DEF EvidenceShape
<1>3. EvidenceShape'
  BY <1>1, <1>2 DEF EvidenceShape
<1> DEFINE more == {<<z, version'[z]>> : z \in Sources}
<1>4. more \subseteq Sources \X Nat
  BY <1>2
<1>5. \A z \in Sources : <<z, version'[z]>> \in more
  OBVIOUS
<1>6. ASSUME NEW c \in Callers
      PROVE  /\ ecall'[c] \in {Ledger!Idle} \cup Authorized \cup Working
             /\ ecall'[c] \in Working => WorkOK(ecall'[c], ledger.history, version')
  <2>1. ecall[c] \in {Ledger!Idle} \cup Authorized \cup Working
    BY <1>1 DEF EvidenceCallsOK
  <2>2. CASE ecall[c] \notin Working
    <3>1. ecall'[c] = ecall[c]
      BY <1>1, <2>1, <2>2, EvidenceCallFacts DEF Ledger!Witness
    <3> QED BY <2>1, <2>2, <3>1
  <2>3. CASE ecall[c] \in Working
    <3> DEFINE w == ecall[c]
               k == [w EXCEPT !.witness = w.witness \cup more]
    <3>1. ecall'[c] = k
      BY <1>1, <2>3, EvidenceCallFacts DEF Ledger!Witness
    <3>2. WorkOK(w, ledger.history, version) /\ w \in Working
      BY <1>1, <2>3 DEF EvidenceCallsOK
    <3> HIDE DEF w, more
    <3>3. /\ k \in Working /\ k.step = w.step /\ k.request = w.request /\ k.ledger = w.ledger
          /\ k.facts = w.facts /\ k.left = w.left /\ k.witness = w.witness \cup more
      BY ONLY <1>4, <3>2 DEF Working
    <3> HIDE DEF k
    <3>4. Seen(k.facts, k.left, k.witness)
      BY <3>2, <3>3 DEF WorkOK, Seen
    <3>5. \A z \in Sources : <<z, version'[z]>> \in k.witness
      BY <1>5, <3>3
    <3>6. WorkOK(k, ledger.history, version')
      BY <3>2, <3>3, <3>4, <3>5 DEF WorkOK
    <3> QED BY <3>1, <3>3, <3>6
  <2> QED BY <2>2, <2>3
<1>7. EvidenceCallsOK'
  <2>1. ecall' \in [Callers -> {Ledger!Idle} \cup Authorized \cup Working]
    BY <1>1, <1>6 DEF Ledger!Witness
  <2> QED BY <1>1, <1>6, <2>1 DEF EvidenceCallsOK
<1>8. EvidenceAnswersOK'
  BY <1>1, EvidenceQuietAnswers
<1> QED BY <1>3, <1>7, <1>8 DEF EvidenceInv

LEMMA MembershipChangeKeeps ==
    ASSUME EvidenceInv, Ledger!ChangeMembership, MaxGrants \in Nat
    PROVE  EvidenceInv'
<1>1. /\ grants < MaxGrants /\ grants' = grants + 1 /\ active' = ~ active
      /\ eanswered' = {} /\ ledger' = ledger /\ version' = version /\ ecall' = ecall
  BY DEF Ledger!ChangeMembership
<1>2. EvidenceShape'
  BY <1>1 DEF EvidenceInv, EvidenceShape
<1>3. EvidenceCallsOK'
  BY <1>1 DEF EvidenceInv, EvidenceCallsOK
<1>4. EvidenceAnswersOK'
  BY <1>1, EvidenceQuietAnswers
<1> QED BY <1>2, <1>3, <1>4 DEF EvidenceInv

LEMMA EvidenceAnswerKeeps ==
    ASSUME EvidenceInv, NEW c \in Callers, ecall[c] \in Working, ecall[c].left = {},
           ecall[c].request.kind = "put" => ecall[c].step = "stored", Ledger!Answer(c),
           ledger' = ledger, version' = version, active' = active, grants' = grants
    PROVE  EvidenceInv'
<1> DEFINE k == ecall[c]
<1>1. /\ ecall' = [ecall EXCEPT ![c] = Ledger!Idle] /\ eanswered' = {k}
  BY DEF Ledger!Answer
<1>2. EvidenceShape /\ EvidenceCallsOK /\ WorkOK(k, ledger.history, version) /\ Len(ledger.history) \in Nat
  BY LedgerFacts DEF EvidenceInv, EvidenceCallsOK, EvidenceShape
<1>3. k \in Working /\ k.facts \subseteq Ledger!Records /\ k.ledger.history \in Seq(Ledger!Records)
  BY EvidenceCallFacts DEF Ledgers
<1>4. Stands(ledger.history, Len(ledger.history), ledger.history)
  BY <1>2 DEF Stands
<1>5. EvidenceCallsOK'
  <2>1. Ledger!Idle \notin Working
    BY EvidenceCallFacts
  <2> QED BY <1>1, <1>2, <1>4, <2>1, EvidenceCallsKeep
<1>6. EvidenceShape'
  BY <1>2 DEF EvidenceShape
<1> HIDE DEF k
<1>7. Ledger!FactsAreSupported'
  BY <1>1, <1>2 DEF Ledger!FactsAreSupported, WorkOK, Seen, k
<1>8. Ledger!AcknowledgedFactsStay'
  <2>1. ASSUME k.request.kind = "put"
        PROVE  Append(k.ledger.history, k.request.fact) \in Ledger!Prefixes(ledger.history)
    <3> DEFINE n == Len(k.ledger.history)
               longer == Append(k.ledger.history, k.request.fact)
    <3>1. Stands(longer, n + 1, ledger.history) /\ n \in Nat
      BY <1>2, <1>3, <2>1 DEF WorkOK, k
    <3>2. Len(longer) = n + 1 /\ DOMAIN longer = 1..n + 1
      BY <1>3
    <3>3. n + 1 \in 0..Len(ledger.history)
      BY <1>2, <3>1 DEF Stands
    <3>4. longer = [i \in 1..n + 1 |-> longer[i]]
      BY <1>3
    <3> HIDE DEF longer, n
    <3>5. SubSeq(ledger.history, 1, n + 1) = longer
      BY <1>2, <3>1, <3>2, <3>3, <3>4 DEF Stands
    <3> QED BY <3>3, <3>5 DEF Ledger!Prefixes, longer
  <2> QED BY <1>1, <2>1 DEF Ledger!AcknowledgedFactsStay
<1>9. EvidenceAnswersOK'
  BY <1>1, <1>3, <1>7, <1>8 DEF EvidenceAnswersOK
<1> QED BY <1>5, <1>6, <1>9 DEF EvidenceInv

LEMMA EvidenceReplyKeeps ==
    ASSUME EvidenceInv, NEW c \in Callers, Ledger!Reply(c) \/ Ledger!Acknowledge(c)
    PROVE  EvidenceInv'
<1>1. CASE Ledger!Reply(c)
  <2>1. ecall[c].step = "loaded" /\ ecall[c].left = {} /\ ecall[c].request.kind # "put"
    BY <1>1 DEF Ledger!Reply, Ledger!Verified
  <2>2. ecall[c] \in Working
    BY <2>1, EvidenceHere
  <2> QED BY <1>1, <2>1, <2>2, EvidenceAnswerKeeps DEF Ledger!Reply
<1>2. CASE Ledger!Acknowledge(c)
  <2>1. ecall[c].step = "stored"
    BY <1>2 DEF Ledger!Acknowledge
  <2>2. ecall[c] \in Working /\ ecall[c].left = {}
    BY <2>1, EvidenceHere DEF WorkOK
  <2> QED BY <1>2, <2>1, <2>2, EvidenceAnswerKeeps DEF Ledger!Acknowledge
<1> QED BY <1>1, <1>2

(* The compare-and-swap appends one fact to the ledger that was loaded.    *)
LEMMA EvidenceSwapKeeps ==
    ASSUME MaxHistory \in Nat, Times \subseteq Nat, Ledger!FactsAssumption,
           EvidenceInv, NEW c \in Callers, Ledger!Swap(c)
    PROVE  EvidenceInv' /\ Ledger!LedgerOnlyGrows /\ Ledger!HistoricalAnswersStand
<1> DEFINE w == ecall[c]
           fact == w.request.fact
           k == [w EXCEPT !.step = "stored"]
           history == ledger.history
<1>0. /\ w.step = "loaded" /\ w.left = {} /\ w.request.kind = "put" /\ active
      /\ ledger.revision = w.ledger.revision
      /\ ledger' = [revision |-> ledger.revision + 1, history |-> Append(w.ledger.history, fact)]
      /\ ecall' = [ecall EXCEPT ![c] = k] /\ eanswered' = {}
      /\ version' = version /\ active' = active /\ grants' = grants
  BY DEF Ledger!Swap, Ledger!Verified
<1>1. /\ w \in Working /\ WorkOK(w, history, version) /\ EvidenceShape /\ EvidenceCallsOK
  BY <1>0, EvidenceHere DEF EvidenceInv
<1>2. /\ w.request \in Ledger!Requests /\ w.ledger.history \in Seq(Ledger!Records)
      /\ history \in Seq(Ledger!Records) /\ Len(history) \in Nat /\ IsLedger(history)
      /\ ledger.revision = Len(history)
  BY <1>1, EvidenceCallFacts, LedgerFacts DEF EvidenceShape, Ledgers
<1>3. fact \in Ledger!Records
  BY <1>0, <1>2 DEF Ledger!Requests, Ledger!FactsAssumption
<1> HIDE DEF w, history
<1>4. w.ledger.history = history
  <2>1. /\ Len(w.ledger.history) = Len(history)
        /\ \A i \in 1..Len(history) : history[i] = w.ledger.history[i]
    BY <1>0, <1>1, <1>2 DEF WorkOK, Stands
  <2> QED BY <1>2, <2>1
<1>5. Ledger!Appendable(history, fact)
  BY <1>0, <1>1, <1>4 DEF WorkOK
<1> HIDE DEF fact
<1> DEFINE longer == Append(history, fact)
<1>6. /\ IsLedger(longer) /\ Len(longer) = Len(history) + 1 /\ longer[Len(history) + 1] = fact
      /\ \A i \in 1..Len(history) : longer[i] = history[i]
  BY <1>2, <1>3, <1>5, AppendIsLedger
<1>7. ledger' = [revision |-> Len(history) + 1, history |-> longer]
  BY <1>0, <1>2, <1>4
<1> HIDE DEF longer
<1>8. /\ longer \in Seq(Ledger!Records) /\ Len(longer) \in Nat /\ ledger'.history = longer
      /\ Stands(history, Len(history), longer) /\ Stands(longer, Len(history) + 1, longer)
  BY <1>2, <1>6, <1>7, LedgerFacts DEF Stands
<1>9. /\ k \in Working /\ k.step = "stored" /\ k.request = w.request /\ k.ledger = w.ledger
      /\ k.facts = w.facts /\ k.left = w.left /\ k.witness = w.witness
  BY ONLY <1>1 DEF Working
<1> HIDE DEF k
<1>10. WorkOK(k, longer, version)
  <2>1. WorkOK(w, longer, version)
    BY <1>1, <1>2, <1>8, WorkKeeps
  <2>2. Stands(Append(k.ledger.history, k.request.fact), Len(k.ledger.history) + 1, longer)
    BY <1>4, <1>8, <1>9 DEF longer, fact
  <2> QED BY <1>0, <1>9, <2>1, <2>2 DEF WorkOK
<1>11. EvidenceCallsOK'
  BY <1>0, <1>1, <1>2, <1>8, <1>9, <1>10, EvidenceCallsKeep DEF history
<1>12. EvidenceShape'
  <2>1. ledger' \in Ledgers /\ ledger'.revision = Len(ledger'.history) /\ IsLedger(ledger'.history)
    BY <1>2, <1>6, <1>7, <1>8 DEF Ledgers
  <2> QED BY <1>0, <1>1, <2>1 DEF EvidenceShape
<1>13. EvidenceAnswersOK'
  BY <1>0, EvidenceQuietAnswers
<1>14. Ledger!LedgerOnlyGrows
  BY <1>0, <1>7, SMTT(20) DEF Ledger!LedgerOnlyGrows, history, longer, fact, w
<1>15. Ledger!HistoricalAnswersStand
  <2>1. Ledger!Last(ledger'.history) = fact
    BY <1>2, <1>6, <1>8 DEF Ledger!Last
  <2>2. ASSUME NEW t \in Times, Ledger!Selected(longer, t) # Ledger!Selected(history, t)
        PROVE  /\ Ledger!Selected(longer, t) \ Ledger!Selected(history, t) = {fact}
               /\ Ledger!ValidAt(fact, t)
    <3>1. t \in Nat
      OBVIOUS
    <3> QED BY <1>2, <1>3, <1>5, <2>2, <3>1, CorrectionStands DEF longer
  <2> QED BY <1>8, <2>1, <2>2 DEF Ledger!HistoricalAnswersStand, history
<1> QED BY <1>11, <1>12, <1>13, <1>14, <1>15 DEF EvidenceInv

LEMMA EvidenceStarts == ASSUME Ledger!EvidenceAssumption, Ledger!Init PROVE EvidenceInv
<1>1. /\ ledger = [revision |-> 0, history |-> <<>>] /\ version = [s \in Sources |-> 1]
      /\ active = TRUE /\ grants = 0 /\ ecall = [c \in Callers |-> Ledger!Idle] /\ eanswered = {}
      /\ MaxHistory \in Nat /\ MaxSourceVersion \in Nat \ {0} /\ MaxGrants \in Nat
  BY DEF Ledger!Init, Ledger!EvidenceAssumption
<1>2. IsLedger(<<>>)
  <2>1. \A id : Ledger!OfId(<<>>, id) = {}
    BY DEF Ledger!OfId, Ledger!ToSet
  <2> QED BY <1>1, <2>1 DEF IsLedger, Ledger!ValidLedger
<1>3. EvidenceShape
  BY <1>1, <1>2 DEF EvidenceShape, Ledgers
<1>4. EvidenceCallsOK
  BY <1>1, EvidenceCallFacts DEF EvidenceCallsOK
<1>5. EvidenceAnswersOK
  BY <1>1 DEF EvidenceAnswersOK, Ledger!FactsAreSupported, Ledger!AcknowledgedFactsStay
<1> QED BY <1>3, <1>4, <1>5 DEF EvidenceInv

LEMMA EvidenceStutterKeeps == ASSUME EvidenceInv, UNCHANGED Ledger!vars PROVE EvidenceInv'
<1>1. /\ ledger' = ledger /\ version' = version /\ active' = active /\ grants' = grants
      /\ ecall' = ecall /\ eanswered' = eanswered
  BY DEF Ledger!vars
<1>2. EvidenceShape'
  BY <1>1 DEF EvidenceInv, EvidenceShape
<1>3. EvidenceCallsOK'
  BY <1>1 DEF EvidenceInv, EvidenceCallsOK
<1>4. EvidenceAnswersOK'
  BY <1>1 DEF EvidenceInv, EvidenceAnswersOK, Ledger!FactsAreSupported, Ledger!AcknowledgedFactsStay
<1> QED BY <1>2, <1>3, <1>4 DEF EvidenceInv

LEMMA LedgerStays ==
    ASSUME ledger' = ledger
    PROVE  Ledger!LedgerOnlyGrows /\ Ledger!HistoricalAnswersStand
  BY DEF Ledger!LedgerOnlyGrows, Ledger!HistoricalAnswersStand

LEMMA EvidenceNextKeeps ==
    ASSUME Ledger!EvidenceAssumption, Ledger!FactsAssumption, EvidenceInv, Ledger!Next
    PROVE  EvidenceInv' /\ Ledger!LedgerOnlyGrows /\ Ledger!HistoricalAnswersStand
<1>0. /\ MaxHistory \in Nat /\ MaxSourceVersion \in Nat \ {0} /\ MaxGrants \in Nat /\ Times \subseteq Nat
  BY DEF Ledger!EvidenceAssumption
<1>1. ASSUME NEW s \in Sources, Ledger!ChangeSource(s)
      PROVE  EvidenceInv' /\ Ledger!LedgerOnlyGrows /\ Ledger!HistoricalAnswersStand
  BY <1>0, <1>1, SourceChangeKeeps, LedgerStays DEF Ledger!ChangeSource
<1>2. CASE Ledger!ChangeMembership
  BY <1>0, <1>2, MembershipChangeKeeps, LedgerStays DEF Ledger!ChangeMembership
<1>3. ASSUME NEW c \in Callers, NEW request \in Ledger!Requests, Ledger!Ask(c, request)
      PROVE  EvidenceInv' /\ Ledger!LedgerOnlyGrows /\ Ledger!HistoricalAnswersStand
  BY <1>3, EvidenceAskKeeps, LedgerStays DEF Ledger!Ask
<1>4. ASSUME NEW c \in Callers, Ledger!Load(c)
      PROVE  EvidenceInv' /\ Ledger!LedgerOnlyGrows /\ Ledger!HistoricalAnswersStand
  BY <1>4, EvidenceLoadKeeps, LedgerStays DEF Ledger!Load
<1>5. ASSUME NEW c \in Callers, Ledger!Observe(c)
      PROVE  EvidenceInv' /\ Ledger!LedgerOnlyGrows /\ Ledger!HistoricalAnswersStand
  BY <1>5, EvidenceObserveKeeps, LedgerStays DEF Ledger!Observe
<1>6. ASSUME NEW c \in Callers, Ledger!Reply(c) \/ Ledger!Acknowledge(c)
      PROVE  EvidenceInv' /\ Ledger!LedgerOnlyGrows /\ Ledger!HistoricalAnswersStand
  BY <1>6, EvidenceReplyKeeps, LedgerStays DEF Ledger!Reply, Ledger!Acknowledge
<1>7. ASSUME NEW c \in Callers, Ledger!Swap(c)
      PROVE  EvidenceInv' /\ Ledger!LedgerOnlyGrows /\ Ledger!HistoricalAnswersStand
  BY <1>0, <1>7, EvidenceSwapKeeps
<1>8. ASSUME NEW c \in Callers, Ledger!Fail(c)
      PROVE  EvidenceInv' /\ Ledger!LedgerOnlyGrows /\ Ledger!HistoricalAnswersStand
  BY <1>8, EvidenceFailKeeps, LedgerStays DEF Ledger!Fail
<1> QED BY <1>1, <1>2, <1>3, <1>4, <1>5, <1>6, <1>7, <1>8 DEF Ledger!Next

LEMMA EvidenceIsSafe ==
    ASSUME Ledger!EvidenceAssumption, EvidenceInv
    PROVE  /\ Ledger!TypeOK /\ Ledger!FactsAreSupported /\ Ledger!AcknowledgedFactsStay
           /\ Ledger!EndedFactsAnswerForTheirTime
<1>1. /\ EvidenceShape /\ EvidenceCallsOK /\ EvidenceAnswersOK /\ IsLedger(ledger.history)
      /\ ledger.revision \in Nat /\ ledger.history \in Seq(Ledger!Records)
      /\ Ledger!ValidLedger(ledger.history)
  BY DEF EvidenceInv, EvidenceShape, IsLedger, Ledgers
<1>2. ASSUME NEW c \in Callers
      PROVE  ecall[c] = Ledger!Idle \/ ( /\ ecall[c].step \in {"authorized", "loaded", "stored"}
                                         /\ ecall[c].request \in Ledger!Requests)
  <2>1. ecall[c] \in {Ledger!Idle} \cup Authorized \cup Working
    BY <1>1 DEF EvidenceCallsOK
  <2> QED BY <2>1, EvidenceCallFacts
<1>3. Ledger!TypeOK
  BY <1>1, <1>2 DEF Ledger!TypeOK, EvidenceShape, EvidenceAnswersOK
<1>4. Ledger!EndedFactsAnswerForTheirTime
  <2> SUFFICES ASSUME NEW r \in Ledger!ToSet(ledger.history), NEW t \in Times,
                      r.until # Ledger!NoEnd, Ledger!ValidAt(r, t)
               PROVE  r \in Ledger!Selected(ledger.history, t)
    BY DEF Ledger!EndedFactsAnswerForTheirTime
  <2>1. PICK i \in 1..Len(ledger.history) : ledger.history[i] = r
    BY <1>1 DEF Ledger!ToSet
  <2>2. t \in Nat
    BY DEF Ledger!EvidenceAssumption
  <2> QED BY <1>1, <2>1, <2>2, EndedIsSelected
<1> QED BY <1>1, <1>3, <1>4 DEF EvidenceAnswersOK

\* However callers race, sources change and the membership is revoked: a
\* fact is answered only as its sources were seen to support it, an
\* acknowledged fact stays where it was put, the ledger only grows, and a
\* correction changes no answer about the time before it
\* (phenix-plugin-evidence-store: put, get, search).
THEOREM EvidenceStaysKept ==
    ASSUME Ledger!EvidenceAssumption, Ledger!FactsAssumption
    PROVE  Ledger!Spec => EvidenceIsKept
<1>1. Ledger!Init => EvidenceInv
  BY EvidenceStarts
<1>2. EvidenceInv /\ [Ledger!Next]_(Ledger!vars) => EvidenceInv'
  BY EvidenceNextKeeps, EvidenceStutterKeeps
<1>3. EvidenceInv /\ [Ledger!Next]_(Ledger!vars) =>
         [Ledger!LedgerOnlyGrows /\ Ledger!HistoricalAnswersStand]_(Ledger!vars)
  BY EvidenceNextKeeps
<1>4. EvidenceInv => /\ Ledger!TypeOK /\ Ledger!FactsAreSupported /\ Ledger!AcknowledgedFactsStay
                     /\ Ledger!EndedFactsAnswerForTheirTime
  BY EvidenceIsSafe
<1> QED BY <1>1, <1>2, <1>3, <1>4, PTL DEF Ledger!Spec, EvidenceIsKept

----------------------------------------------------------------------------
(***************************************************************************)
(* The journal of events (EventJournal).                                   *)
(***************************************************************************)
CONSTANTS Clients, Observers, JournalKey, NoRecord, PageLimit, MaxAppends, MaxRenders, MaxJobs

VARIABLES jrecords, jphase, jrequest, janswer, jjob, progress, batch, place, page, tail, told,
          appends, renders, shown

Journal == INSTANCE EventJournal WITH
    Journal <- JournalKey, records <- jrecords, phase <- jphase, request <- jrequest,
    answer <- janswer, job <- jjob

\* Whatever processes append, print, lose and repeat: the stored journal is
\* an append-only log of whole batches, an acknowledged batch stands in it
\* where the answer says and stands there once, and no observer passes over
\* an event that was not printed.
JournalIsALog ==
    /\ [](/\ Journal!TypeOK
          /\ Journal!AcknowledgedIsLogged
          /\ Journal!LoggedAtMostOnce
          /\ Journal!PrintedBeforeCheckpointed)
    /\ [][Journal!LogStep]_(Journal!vars)

----------------------------------------------------------------------------
(***************************************************************************)
(* Proof.  A process and what all of them share are taken as two records.  *)
(* What a process read at some revision is how the log began, or an older  *)
(* place of an observer, and as long as the revision is the same it still  *)
(* is all there is; so an edit that the store applies extends the log, and *)
(* the place, that its process has seen.  Before its edit is applied no    *)
(* event of the attempt is in the log.                                     *)
(***************************************************************************)
Event == Journal!Events
Client(c) ==
    [job |-> jjob[c], progress |-> progress[c], phase |-> jphase[c], request |-> jrequest[c],
     answer |-> janswer[c], batch |-> batch[c], place |-> place[c], page |-> page[c],
     tail |-> tail[c], told |-> told[c], appends |-> appends[c]]

RevisionIn(record) == IF record = NoRecord THEN 0 ELSE record.revision

Shared ==
    [log |-> Journal!log, revision |-> RevisionIn(jrecords[JournalKey]), cursor |-> Journal!cursor,
     placed |-> [o \in Observers |-> RevisionIn(jrecords[o])], shown |-> shown]

\* What an answer of the store holds.
Revision(a) == IF a.outcome = "ok" THEN a.records[1].revision ELSE 0
Logged(a) == IF a.outcome = "ok" THEN a.records[1].data ELSE <<>>
Place(a) == IF a.outcome = "ok" THEN a.records[1].data ELSE 0

ReadTheLog(n, events, w) ==
    /\ n \in Nat /\ events \in Seq(Event) /\ Stands(events, Len(events), w.log)
    /\ n <= w.revision /\ (n = w.revision => events = w.log)

ReadThePlace(n, after, o, w) ==
    /\ n \in Nat /\ after \in Nat /\ after <= w.cursor[o]
    /\ n <= w.placed[o] /\ (n = w.placed[o] => after = w.cursor[o])

\* No event of c's attempt n, or of a later one, is in the log.
Unwritten(c, n, log) == \A i \in 1..Len(log) : log[i].by = c => log[i].attempt < n

Answers == {"ok", "not_found", "failed"}

ReaderOK(k, w) ==
    k.job # "none" /\ k.progress = "journal" =>
       /\ k.phase \in {"idle", "called"}
       /\ k.request.op = "read" /\ k.request.key = JournalKey
       /\ k.phase = "idle" =>
             /\ k.answer.outcome \in Answers
             /\ k.answer.outcome # "failed" => ReadTheLog(Revision(k.answer), Logged(k.answer), w)

ObserverOK(k, w) ==
    k.job # "none" /\ k.progress = "observer" =>
       /\ k.job \in {"observer", "checkpoint"} /\ k.phase \in {"idle", "called"}
       /\ k.request.op = "read" /\ k.request.key = k.place.observer
       /\ k.phase = "idle" =>
             /\ k.answer.outcome \in Answers
             /\ k.answer.outcome # "failed" =>
                   ReadThePlace(Revision(k.answer), Place(k.answer), k.place.observer, w)

Edit(k) == k.request.edits[1]

WriterOK(k, w) ==
    k.job # "none" /\ k.progress = "write" =>
       /\ k.job \in {"append", "checkpoint"}
       /\ k.request.op = "transact" /\ k.request.edits = <<Edit(k)>> /\ Edit(k).expected \in Nat
       /\ k.phase = "idle" =>
             /\ k.answer.outcome \in {"ok", "conflict", "failed"}
             /\ k.answer.outcome = "ok" => k.answer.records[1].revision \in Nat

AppenderOK(c, k, w) ==
    k.job = "append" =>
       /\ k.progress \in {"journal", "write"} /\ k.told.outcome = "none"
       /\ \A i \in 1..Len(k.batch) : k.batch[i].by = c /\ k.batch[i].attempt = k.appends
       /\ k.progress = "journal" \/ k.phase = "called" => Unwritten(c, k.appends, w.log)
       /\ k.progress = "write" =>
             /\ k.batch \in Journal!Batches /\ Edit(k).key = JournalKey
             /\ \E events \in Seq(Event) :
                   /\ Edit(k).data = Journal!Updated(events, k.batch)
                   /\ k.phase = "called" => ReadTheLog(Edit(k).expected, events, w)
             /\ k.phase = "applied" \/ (k.phase = "idle" /\ k.answer.outcome = "ok") =>
                   Stands(Edit(k).data, Len(Edit(k).data), w.log)
             /\ k.phase = "idle" /\ k.answer.outcome = "conflict" => Unwritten(c, k.appends, w.log)

LastOf(events) == events[Len(events)].sequence

RendererOK(k, w) ==
    /\ k.job = "observer" => k.progress \in {"journal", "observer"}
    /\ k.job = "page" => k.progress = "journal"
    /\ k.job \in {"page", "checkpoint"} => 1..k.place.after \subseteq w.shown[k.place.observer]
    /\ k.job = "checkpoint" =>
          /\ k.page # <<>> /\ 1..LastOf(k.page) \subseteq w.shown[k.place.observer]
          /\ k.progress = "write" =>
                /\ Edit(k).key = k.place.observer /\ Edit(k).data = LastOf(k.page)
                /\ LastOf(k.page) <= Len(w.log)
                /\ Edit(k).expected <= w.placed[k.place.observer]
                /\ k.phase = "called" /\ Edit(k).expected = w.placed[k.place.observer] =>
                      w.cursor[k.place.observer] < LastOf(k.page)

\* An event of a batch with its number.
At(event, n) == [event EXCEPT !.sequence = n]

ToldOK(c, k, w) ==
    /\ k.told.outcome = "ok" =>
          /\ Len(k.batch) <= k.told.count /\ k.told.count <= Len(w.log)
          /\ \A i \in 1..Len(k.batch) :
                w.log[k.told.count - Len(k.batch) + i] = At(k.batch[i], k.told.count - Len(k.batch) + i)
    /\ k.told.outcome \in {"invalid", "conflict"} => Unwritten(c, k.appends, w.log)

Outcomes == {"none", "ok", "empty", "invalid", "conflict", "failed"}

ClientType(k) ==
    /\ k.job \in {"none", "append", "observer", "page", "checkpoint"}
    /\ k.progress \in {"journal", "observer", "write"} /\ k.phase \in {"idle", "called", "applied"}
    /\ k.batch \in Journal!Batches \cup Journal!Forged \cup {<<>>}
    /\ k.place \in [observer : Observers, after : Nat, revision : Nat]
    /\ k.page \in Seq(Event) /\ k.tail \in Nat /\ k.told \in [outcome : Outcomes, count : Nat]
    /\ k.appends \in Nat
    /\ k.job = "none" => k.phase = "idle"
    /\ k.phase = "applied" => k.progress = "write"

ClientOK(c, k, w) ==
    /\ ClientType(k)
    /\ k.tail <= Len(w.log) /\ Unwritten(c, k.appends + 1, w.log)
    /\ ReaderOK(k, w) /\ ObserverOK(k, w) /\ WriterOK(k, w)
    /\ AppenderOK(c, k, w) /\ RendererOK(k, w) /\ ToldOK(c, k, w)

IsLog(log) ==
    /\ log \in Seq(Event)
    /\ \A i \in 1..Len(log) : log[i].sequence = i
    /\ \A i, j \in 1..Len(log) :
          log[i].by = log[j].by /\ log[i].attempt = log[j].attempt /\ log[i].part = log[j].part => i = j

SharedOK(w) ==
    /\ IsLog(w.log) /\ w.revision \in Nat
    /\ w.cursor \in [Observers -> Nat] /\ w.placed \in [Observers -> Nat]
    /\ \A o \in Observers : w.cursor[o] <= Len(w.log) /\ 1..w.cursor[o] \subseteq w.shown[o]

Domains ==
    /\ DOMAIN jjob = Clients /\ DOMAIN progress = Clients /\ DOMAIN jphase = Clients
    /\ DOMAIN jrequest = Clients /\ DOMAIN janswer = Clients /\ DOMAIN batch = Clients
    /\ DOMAIN place = Clients /\ DOMAIN page = Clients /\ DOMAIN tail = Clients
    /\ DOMAIN told = Clients /\ DOMAIN appends = Clients /\ DOMAIN shown = Observers
    /\ DOMAIN jrecords = {JournalKey} \cup Observers

StoredRow(data) == [revision : Nat \ {0}, data : data]

RecordsOK ==
    /\ jrecords[JournalKey] \in StoredRow(Seq(Event)) \cup {NoRecord}
    /\ \A o \in Observers : jrecords[o] \in StoredRow(Nat) \cup {NoRecord}

JournalInv ==
    /\ Domains /\ RecordsOK /\ SharedOK(Shared)
    /\ \A c \in Clients : ClientOK(c, Client(c), Shared)

LEMMA UpdatedIsALog ==
    ASSUME NEW events \in Seq(Event), NEW more \in Seq(Event)
    PROVE  /\ Journal!Updated(events, more) \in Seq(Event)
           /\ Len(Journal!Updated(events, more)) = Len(events) + Len(more)
           /\ \A i \in 1..Len(events) : Journal!Updated(events, more)[i] = events[i]
           /\ \A i \in 1..Len(more) :
                 Journal!Updated(events, more)[Len(events) + i] = At(more[i], Len(events) + i)
<1> DEFINE added == [i \in 1..Len(more) |-> At(more[i], Len(events) + i)]
<1>1. Journal!Updated(events, more) = events \o added
  <2>1. DOMAIN more = 1..Len(more)
    OBVIOUS
  <2> QED BY <2>1 DEF Journal!Updated, At
<1>2. added \in Seq(Event) /\ Len(added) = Len(more)
  <2>1. \A i \in 1..Len(more) : At(more[i], Len(events) + i) \in Event
    <3> TAKE i \in 1..Len(more)
    <3>1. more[i] \in Event /\ Len(events) + i \in Nat
      OBVIOUS
    <3> QED BY ONLY <3>1 DEF At, Event, Journal!Events
  <2> QED BY <2>1
<1>3. \A i \in 1..Len(more) : added[i] = At(more[i], Len(events) + i)
  OBVIOUS
<1> HIDE DEF added
<1>4. /\ events \o added \in Seq(Event) /\ Len(events \o added) = Len(events) + Len(more)
      /\ \A i \in 1..Len(events) : (events \o added)[i] = events[i]
      /\ \A i \in 1..Len(more) : (events \o added)[Len(events) + i] = added[i]
  BY <1>2
<1> QED BY <1>1, <1>3, <1>4

LEMMA BatchesAreEvents ==
    /\ \A b \in Journal!Batches : /\ b \in Seq(Event) /\ b # <<>> /\ Len(b) \in 1..2
                                  /\ \A i \in 1..Len(b) : b[i].part = i /\ b[i].sequence = 0
    /\ \A b \in Journal!Forged : b \in Seq(Event) /\ Len(b) = 1 /\ b[1].sequence = 1
<1> DEFINE first(n, c, a) == [sequence |-> n, by |-> c, attempt |-> a, part |-> 1]
           second(c, a) == [sequence |-> 0, by |-> c, attempt |-> a, part |-> 2]
<1>1. \A c \in Clients, a \in 1..MaxAppends :
         first(0, c, a) \in Event /\ first(1, c, a) \in Event /\ second(c, a) \in Event
  BY DEF Event, Journal!Events
<1>2. \A b \in Journal!Batches : \E c \in Clients, a \in 1..MaxAppends :
         b = <<first(0, c, a)>> \/ b = <<first(0, c, a), second(c, a)>>
  BY DEF Journal!Batches
<1>3. \A b \in Journal!Forged : \E c \in Clients, a \in 1..MaxAppends : b = <<first(1, c, a)>>
  BY DEF Journal!Forged
<1>4. \A c, a : /\ first(0, c, a).part = 1 /\ first(0, c, a).sequence = 0 /\ first(1, c, a).sequence = 1
                /\ second(c, a).part = 2 /\ second(c, a).sequence = 0
  OBVIOUS
<1> HIDE DEF first, second
<1>5. ASSUME NEW b \in Journal!Batches
      PROVE  /\ b \in Seq(Event) /\ b # <<>> /\ Len(b) \in 1..2
             /\ \A i \in 1..Len(b) : b[i].part = i /\ b[i].sequence = 0
  <2>1. PICK c \in Clients, a \in 1..MaxAppends :
           b = <<first(0, c, a)>> \/ b = <<first(0, c, a), second(c, a)>>
    BY <1>2
  <2>2. CASE b = <<first(0, c, a)>>
    BY <1>1, <1>4, <2>2
  <2>3. CASE b = <<first(0, c, a), second(c, a)>>
    BY <1>1, <1>4, <2>3
  <2> QED BY <2>1, <2>2, <2>3
<1>6. ASSUME NEW b \in Journal!Forged PROVE b \in Seq(Event) /\ Len(b) = 1 /\ b[1].sequence = 1
  <2>1. PICK c \in Clients, a \in 1..MaxAppends : b = <<first(1, c, a)>>
    BY <1>3
  <2> QED BY <1>1, <1>4, <2>1
<1> QED BY <1>5, <1>6

------
(* What the log and the places become keeps what a process knows of them.  *)
Later(w, v) ==
    /\ Stands(w.log, Len(w.log), v.log) /\ w.revision <= v.revision
    /\ w.revision = v.revision => v.log = w.log
    /\ \A o \in Observers :
          /\ w.cursor[o] <= v.cursor[o] /\ w.placed[o] <= v.placed[o]
          /\ w.placed[o] = v.placed[o] => v.cursor[o] = w.cursor[o]
          /\ w.shown[o] \subseteq v.shown[o]

ByOthers(c, w, v) == \A i \in Len(w.log) + 1..Len(v.log) : v.log[i].by # c

LEMMA Shareds ==
    ASSUME NEW w, SharedOK(w)
    PROVE  /\ w.log \in Seq(Event) /\ Len(w.log) \in Nat /\ w.revision \in Nat
           /\ \A o \in Observers : w.cursor[o] \in Nat /\ w.placed[o] \in Nat
  BY DEF SharedOK, IsLog

LEMMA StandsOn ==
    ASSUME NEW events \in Seq(Event), NEW log \in Seq(Event), NEW more \in Seq(Event),
           Stands(events, Len(events), log), Stands(log, Len(log), more)
    PROVE  Stands(events, Len(events), more)
  BY DEF Stands

LEMMA LogReadEndures ==
    ASSUME NEW w, NEW v, SharedOK(w), SharedOK(v), Later(w, v), NEW n, NEW events,
           ReadTheLog(n, events, w)
    PROVE  ReadTheLog(n, events, v)
<1>1. /\ n \in Nat /\ events \in Seq(Event) /\ Stands(events, Len(events), w.log)
      /\ n <= w.revision /\ (n = w.revision => events = w.log)
  BY DEF ReadTheLog
<1>2. Stands(events, Len(events), v.log)
  BY <1>1, Shareds, StandsOn DEF Later
<1>3. n <= v.revision /\ (n = v.revision => events = v.log)
  BY <1>1, Shareds DEF Later
<1> QED BY <1>1, <1>2, <1>3 DEF ReadTheLog

LEMMA PlaceReadEndures ==
    ASSUME NEW w, NEW v, SharedOK(w), SharedOK(v), Later(w, v), NEW n, NEW after,
           NEW o \in Observers, ReadThePlace(n, after, o, w)
    PROVE  ReadThePlace(n, after, o, v)
  BY Shareds, SMTT(20) DEF ReadThePlace, Later

LEMMA UnwrittenEndures ==
    ASSUME NEW w, NEW v, SharedOK(w), SharedOK(v), Later(w, v), NEW c, NEW n, ByOthers(c, w, v),
           Unwritten(c, n, w.log)
    PROVE  Unwritten(c, n, v.log)
<1> SUFFICES ASSUME NEW i \in 1..Len(v.log), v.log[i].by = c PROVE v.log[i].attempt < n
  BY DEF Unwritten
<1>1. i \in 1..Len(w.log)
  BY Shareds DEF ByOthers
<1>2. v.log[i] = w.log[i]
  BY <1>1 DEF Later, Stands
<1> QED BY <1>1, <1>2 DEF Unwritten

LEMMA ClientTypes ==
    ASSUME NEW k, ClientType(k)
    PROVE  /\ k.batch \in Seq(Event) /\ Len(k.batch) \in Nat
           /\ k.place.observer \in Observers /\ k.place.after \in Nat /\ k.place.revision \in Nat
           /\ k.page \in Seq(Event) /\ k.tail \in Nat /\ k.appends \in Nat
           /\ k.told.outcome \in Outcomes /\ k.told.count \in Nat
           /\ k.page # <<>> => LastOf(k.page) \in Nat
<1>1. k.batch \in Seq(Event)
  <2>1. k.batch \in Journal!Batches => k.batch \in Seq(Event)
    BY BatchesAreEvents
  <2>2. k.batch \in Journal!Forged => k.batch \in Seq(Event)
    BY BatchesAreEvents
  <2>3. <<>> \in Seq(Event)
    OBVIOUS
  <2> QED BY <2>1, <2>2, <2>3 DEF ClientType
<1>2. k.page # <<>> => LastOf(k.page) \in Nat
  <2> SUFFICES ASSUME k.page # <<>> PROVE LastOf(k.page) \in Nat
    OBVIOUS
  <2>1. k.page[Len(k.page)] \in Event
    BY DEF ClientType
  <2> QED BY <2>1 DEF LastOf, Event, Journal!Events
<1> QED BY <1>1, <1>2 DEF ClientType

LEMMA ClientEndures ==
    ASSUME NEW c, NEW k, NEW w, NEW v, SharedOK(w), SharedOK(v), Later(w, v), ByOthers(c, w, v),
           ClientOK(c, k, w)
    PROVE  ClientOK(c, k, v)
<1>0. /\ ClientType(k) /\ k.tail <= Len(w.log) /\ Unwritten(c, k.appends + 1, w.log)
      /\ ReaderOK(k, w) /\ ObserverOK(k, w) /\ WriterOK(k, w)
      /\ AppenderOK(c, k, w) /\ RendererOK(k, w) /\ ToldOK(c, k, w)
  BY DEF ClientOK
<1>t. /\ k.batch \in Seq(Event) /\ Len(k.batch) \in Nat /\ k.place.observer \in Observers
      /\ k.tail \in Nat /\ k.told.count \in Nat /\ (k.page # <<>> => LastOf(k.page) \in Nat)
  BY <1>0, ClientTypes
<1>w. /\ w.log \in Seq(Event) /\ v.log \in Seq(Event) /\ Len(w.log) \in Nat /\ Len(v.log) \in Nat
      /\ Len(w.log) <= Len(v.log) /\ \A i \in 1..Len(w.log) : v.log[i] = w.log[i]
  BY Shareds DEF Later, Stands
<1>1. k.tail <= Len(v.log)
  BY <1>0, <1>t, <1>w
<1>2. \A n : Unwritten(c, n, w.log) => Unwritten(c, n, v.log)
  BY UnwrittenEndures
<1>3. ReaderOK(k, v)
  BY <1>0, LogReadEndures DEF ReaderOK
<1>4. ObserverOK(k, v)
  BY <1>0, <1>t, PlaceReadEndures DEF ObserverOK
<1>5. WriterOK(k, v)
  BY <1>0 DEF WriterOK
<1>6. AppenderOK(c, k, v)
  <2> SUFFICES ASSUME k.job = "append" PROVE AppenderOK(c, k, v)
    BY DEF AppenderOK
  <2>1. /\ k.progress \in {"journal", "write"} /\ k.told.outcome = "none"
        /\ \A i \in 1..Len(k.batch) : k.batch[i].by = c /\ k.batch[i].attempt = k.appends
        /\ k.progress = "journal" \/ k.phase = "called" => Unwritten(c, k.appends, v.log)
    BY <1>0, <1>2 DEF AppenderOK
  <2>2. ASSUME k.progress = "write"
        PROVE  /\ k.batch \in Journal!Batches /\ Edit(k).key = JournalKey
               /\ \E events \in Seq(Event) :
                     /\ Edit(k).data = Journal!Updated(events, k.batch)
                     /\ k.phase = "called" => ReadTheLog(Edit(k).expected, events, v)
               /\ k.phase = "applied" \/ (k.phase = "idle" /\ k.answer.outcome = "ok") =>
                     Stands(Edit(k).data, Len(Edit(k).data), v.log)
               /\ k.phase = "idle" /\ k.answer.outcome = "conflict" => Unwritten(c, k.appends, v.log)
    <3>1. PICK events \in Seq(Event) :
             /\ Edit(k).data = Journal!Updated(events, k.batch)
             /\ k.phase = "called" => ReadTheLog(Edit(k).expected, events, w)
      BY <1>0, <2>2 DEF AppenderOK
    <3>2. k.phase = "called" => ReadTheLog(Edit(k).expected, events, v)
      BY <3>1, LogReadEndures
    <3>3. ASSUME k.phase = "applied" \/ (k.phase = "idle" /\ k.answer.outcome = "ok")
          PROVE  Stands(Edit(k).data, Len(Edit(k).data), v.log)
      <4>1. Stands(Edit(k).data, Len(Edit(k).data), w.log)
        BY <1>0, <2>2, <3>3 DEF AppenderOK
      <4>2. Edit(k).data \in Seq(Event)
        BY <3>1, <1>t, UpdatedIsALog
      <4> QED BY <4>1, <4>2, <1>w, StandsOn DEF Later
    <3>4. k.phase = "idle" /\ k.answer.outcome = "conflict" => Unwritten(c, k.appends, v.log)
      BY <1>0, <1>2, <2>2 DEF AppenderOK
    <3>5. k.batch \in Journal!Batches /\ Edit(k).key = JournalKey
      BY <1>0, <2>2 DEF AppenderOK
    <3> QED BY <3>1, <3>2, <3>3, <3>4, <3>5
  <2> QED BY <2>1, <2>2 DEF AppenderOK
<1>7. RendererOK(k, v)
  <2>1. /\ w.shown[k.place.observer] \subseteq v.shown[k.place.observer]
        /\ w.placed[k.place.observer] <= v.placed[k.place.observer]
        /\ w.placed[k.place.observer] = v.placed[k.place.observer] =>
              v.cursor[k.place.observer] = w.cursor[k.place.observer]
        /\ w.placed[k.place.observer] \in Nat /\ v.placed[k.place.observer] \in Nat
    BY <1>t, Shareds DEF Later
  <2>2. k.job = "checkpoint" /\ k.progress = "write" => Edit(k).expected \in Nat
    BY <1>0 DEF WriterOK
  <2> QED BY <1>0, <1>t, <1>w, <2>1, <2>2, SMTT(20) DEF RendererOK
<1>8. ToldOK(c, k, v)
  <2> SUFFICES ASSUME k.told.outcome = "ok"
               PROVE  /\ Len(k.batch) <= k.told.count /\ k.told.count <= Len(v.log)
                      /\ \A i \in 1..Len(k.batch) :
                            v.log[k.told.count - Len(k.batch) + i]
                                = At(k.batch[i], k.told.count - Len(k.batch) + i)
    BY <1>0, <1>2 DEF ToldOK
  <2>1. /\ Len(k.batch) <= k.told.count /\ k.told.count <= Len(w.log)
        /\ \A i \in 1..Len(k.batch) :
              w.log[k.told.count - Len(k.batch) + i] = At(k.batch[i], k.told.count - Len(k.batch) + i)
    BY <1>0 DEF ToldOK
  <2>2. \A i \in 1..Len(k.batch) : k.told.count - Len(k.batch) + i \in 1..Len(w.log)
    BY <2>1, <1>t, <1>w, SMTT(20)
  <2>3. k.told.count <= Len(v.log)
    BY <2>1, <1>t, <1>w
  <2>4. \A i \in 1..Len(k.batch) :
          v.log[k.told.count - Len(k.batch) + i] = At(k.batch[i], k.told.count - Len(k.batch) + i)
    BY ONLY <2>1, <2>2, <1>w
  <2> QED BY <2>1, <2>3, <2>4
<1> QED BY <1>0, <1>1, <1>2, <1>3, <1>4, <1>5, <1>6, <1>7, <1>8 DEF ClientOK

(* A step is of one process.                                               *)
Of(c) == Domains' /\ \A d \in Clients : d # c => Client(d)' = Client(d)

LEMMA OneProcessKeeps ==
    ASSUME JournalInv, NEW c \in Clients, Of(c), RecordsOK', SharedOK(Shared'),
           Later(Shared, Shared'), \A d \in Clients : d # c => ByOthers(d, Shared, Shared'),
           ClientOK(c, Client(c)', Shared')
    PROVE  JournalInv'
<1>1. ASSUME NEW d \in Clients PROVE ClientOK(d, Client(d)', Shared')
  <2>1. CASE d = c
    BY <2>1
  <2>2. CASE d # c
    <3>1. ClientOK(d, Client(d), Shared) /\ SharedOK(Shared) /\ ByOthers(d, Shared, Shared')
      BY <2>2 DEF JournalInv
    <3>2. ClientOK(d, Client(d), Shared')
      BY ONLY <3>1, ClientEndures, SharedOK(Shared'), Later(Shared, Shared')
    <3> QED BY <3>2, <2>2 DEF Of
  <2> QED BY <2>1, <2>2
<1> QED BY <1>1 DEF JournalInv, Of

LEMMA Unchanged ==
    ASSUME NEW w, SharedOK(w)
    PROVE  Later(w, w) /\ \A d : ByOthers(d, w, w)
<1>1. Later(w, w)
  BY Shareds DEF Later, Stands
<1>2. \A d : ByOthers(d, w, w)
  BY Shareds DEF ByOthers
<1> QED BY <1>1, <1>2

LEMMA SharedStays ==
    ASSUME UNCHANGED <<jrecords, shown>>
    PROVE  Shared' = Shared
<1>1. Journal!log' = Journal!log /\ Journal!cursor' = Journal!cursor
  BY DEF Journal!log, Journal!cursor
<1> QED BY <1>1 DEF Shared, RevisionIn

LEMMA QuietStepKeeps ==
    ASSUME JournalInv, NEW c \in Clients, Of(c), UNCHANGED <<jrecords, shown>>,
           ClientOK(c, Client(c)', Shared)
    PROVE  JournalInv'
<1>1. Shared' = Shared /\ SharedOK(Shared)
  BY SharedStays DEF JournalInv
<1>2. RecordsOK'
  BY DEF JournalInv, RecordsOK
<1>3. Later(Shared, Shared') /\ \A d \in Clients : ByOthers(d, Shared, Shared')
  BY <1>1, Unchanged
<1> QED BY <1>1, <1>2, <1>3, OneProcessKeeps

(* A process ends what it does, or asks for the newest record.                *)
Ends(k, r) ==
    /\ r.job = "none" /\ r.phase = "idle" /\ r.progress = k.progress /\ r.batch = k.batch
    /\ r.place = k.place /\ r.page = k.page /\ r.tail = k.tail /\ r.appends = k.appends

LEMMA EndedIsOK ==
    ASSUME NEW c, NEW k, NEW r, NEW w, ClientOK(c, k, w), Ends(k, r),
           r.told \in [outcome : Outcomes, count : Nat], ToldOK(c, r, w)
    PROVE  ClientOK(c, r, w)
<1>1. ClientType(k) /\ k.tail <= Len(w.log) /\ Unwritten(c, k.appends + 1, w.log)
  BY DEF ClientOK
<1>2. ClientType(r) /\ r.tail <= Len(w.log) /\ Unwritten(c, r.appends + 1, w.log)
  BY <1>1 DEF ClientType, Ends
<1>3. ReaderOK(r, w) /\ ObserverOK(r, w) /\ WriterOK(r, w) /\ AppenderOK(c, r, w) /\ RendererOK(r, w)
  BY DEF Ends, ReaderOK, ObserverOK, WriterOK, AppenderOK, RendererOK
<1> QED BY <1>2, <1>3 DEF ClientOK

Begins(r, doing) ==
    /\ r.job = doing /\ r.progress = "journal" /\ r.phase = "called"
    /\ r.request.op = "read" /\ r.request.key = JournalKey

LEMMA BegunIsOK ==
    ASSUME NEW c, NEW r, NEW w, NEW doing \in {"append", "observer", "page", "checkpoint"},
           Begins(r, doing), ClientType(r), r.tail <= Len(w.log),
           Unwritten(c, r.appends + 1, w.log), AppenderOK(c, r, w), RendererOK(r, w),
           ToldOK(c, r, w)
    PROVE  ClientOK(c, r, w)
  BY DEF Begins, ReaderOK, ObserverOK, WriterOK, ClientOK

(* What the guards say of the record of a process.                         *)
LEMMA ClientOf ==
    ASSUME JournalInv, NEW c \in Clients
    PROVE  ClientOK(c, Client(c), Shared) /\ ClientType(Client(c)) /\ SharedOK(Shared)
  BY DEF JournalInv, ClientOK

LEMMA FieldsOf ==
    ASSUME NEW c
    PROVE  LET k == Client(c) IN
           /\ k.job = jjob[c] /\ k.progress = progress[c] /\ k.phase = jphase[c]
           /\ k.request = jrequest[c] /\ k.answer = janswer[c] /\ k.batch = batch[c]
           /\ k.place = place[c] /\ k.page = page[c] /\ k.tail = tail[c] /\ k.told = told[c]
           /\ k.appends = appends[c]
  BY DEF Client

LEMMA NewFieldsOf ==
    ASSUME NEW c
    PROVE  LET k == Client(c)' IN
           /\ k.job = jjob'[c] /\ k.progress = progress'[c] /\ k.phase = jphase'[c]
           /\ k.request = jrequest'[c] /\ k.answer = janswer'[c] /\ k.batch = batch'[c]
           /\ k.place = place'[c] /\ k.page = page'[c] /\ k.tail = tail'[c] /\ k.told = told'[c]
           /\ k.appends = appends'[c]
  BY DEF Client

LEMMA UnwrittenNext ==
    ASSUME NEW c, NEW w, SharedOK(w), NEW n \in Nat, Unwritten(c, n, w.log)
    PROVE  Unwritten(c, n + 1, w.log)
<1>1. \A i \in 1..Len(w.log) : w.log[i] \in Event
  BY Shareds
<1>2. \A e \in Event : e.attempt \in Int
  BY DEF Event, Journal!Events
<1> QED BY <1>1, <1>2 DEF Unwritten

LEMMA StartAppendKeeps ==
    ASSUME JournalInv, NEW c \in Clients,
           NEW events \in Journal!Batches \cup Journal!Forged \cup {<<>>},
           Journal!StartAppend(c, events)
    PROVE  JournalInv'
<1> DEFINE k == Client(c)
           r == Client(c)'
<1>k. ClientOK(c, k, Shared) /\ ClientType(k) /\ SharedOK(Shared)
  BY ClientOf
<1>d. Domains
  BY DEF JournalInv
<1>1. Of(c) /\ UNCHANGED <<jrecords, shown>>
  BY <1>d DEF Of, Domains, Client, Journal!StartAppend, Journal!Begin, Journal!AskFor, Journal!Store!Call
<1>2. /\ r.job = "append" /\ r.progress = "journal" /\ r.phase = "called"
      /\ r.request = [op |-> "read", key |-> JournalKey] /\ r.batch = events
      /\ r.told = [outcome |-> "none", count |-> 0] /\ r.appends = k.appends + 1
      /\ r.place = k.place /\ r.page = k.page /\ r.tail = k.tail
      /\ \A i \in DOMAIN events : events[i].by = c /\ events[i].attempt = k.appends + 1
  BY <1>d DEF Domains, Client, Journal!StartAppend, Journal!Begin, Journal!AskFor, Journal!Store!Call
<1> HIDE DEF k, r
<1>3. Begins(r, "append") /\ ClientType(r) /\ r.tail <= Len(Shared.log)
  BY <1>k, <1>2 DEF Begins, ClientType, ClientOK, Outcomes
<1>4. k.appends \in Nat /\ Unwritten(c, k.appends + 1, Shared.log)
  BY <1>k DEF ClientOK, ClientType
<1>5. Unwritten(c, r.appends + 1, Shared.log) /\ Unwritten(c, r.appends, Shared.log)
  <2>1. Unwritten(c, k.appends + 1 + 1, Shared.log)
    BY <1>k, <1>4, UnwrittenNext, SMTT(20)
  <2> QED BY <1>2, <1>4, <2>1
<1>6. AppenderOK(c, r, Shared)
  <2>1. \A i \in 1..Len(r.batch) : r.batch[i].by = c /\ r.batch[i].attempt = r.appends
    <3>1. r.batch \in Seq(Event)
      BY <1>3, ClientTypes
    <3> QED BY <1>2, <3>1
  <2> QED BY <1>2, <1>5, <2>1 DEF AppenderOK
<1>7. RendererOK(r, Shared) /\ ToldOK(c, r, Shared)
  BY <1>2 DEF RendererOK, ToldOK
<1>8. ClientOK(c, r, Shared)
  BY <1>3, <1>5, <1>6, <1>7, BegunIsOK
<1> QED BY <1>1, <1>8, QuietStepKeeps DEF r

LEMMA StartRenderKeeps ==
    ASSUME JournalInv, NEW c \in Clients, NEW o \in Observers, Journal!StartRender(c, o)
    PROVE  JournalInv'
<1> DEFINE k == Client(c)
           r == Client(c)'
<1>k. ClientOK(c, k, Shared) /\ ClientType(k) /\ SharedOK(Shared)
  BY ClientOf
<1>d. Domains
  BY DEF JournalInv
<1>1. Of(c) /\ UNCHANGED <<jrecords, shown>>
  BY <1>d DEF Of, Domains, Client, Journal!StartRender, Journal!Begin, Journal!AskFor, Journal!Store!Call
<1>2. /\ r.job = "observer" /\ r.progress = "journal" /\ r.phase = "called"
      /\ r.request = [op |-> "read", key |-> JournalKey] /\ r.batch = k.batch
      /\ r.told = k.told /\ r.appends = k.appends
      /\ r.place = [observer |-> o, after |-> 0, revision |-> 0] /\ r.page = k.page /\ r.tail = k.tail
  BY <1>d DEF Domains, Client, Journal!StartRender, Journal!Begin, Journal!AskFor, Journal!Store!Call
<1> HIDE DEF k, r
<1>3. Begins(r, "observer") /\ ClientType(r) /\ r.tail <= Len(Shared.log)
  BY <1>k, <1>2 DEF Begins, ClientType, ClientOK
<1>4. Unwritten(c, r.appends + 1, Shared.log) /\ ToldOK(c, r, Shared)
  BY <1>k, <1>2 DEF ClientOK, ToldOK
<1>5. AppenderOK(c, r, Shared) /\ RendererOK(r, Shared)
  BY <1>2 DEF AppenderOK, RendererOK
<1>6. ClientOK(c, r, Shared)
  BY <1>3, <1>4, <1>5, BegunIsOK
<1> QED BY <1>1, <1>6, QuietStepKeeps DEF r

\* A process that only ends tells nothing new.
LEMMA EndKeeps ==
    ASSUME JournalInv, NEW c \in Clients, jphase[c] = "idle", Journal!End(c),
           UNCHANGED <<batch, place, page, tail, told, appends, shown>>
    PROVE  JournalInv'
<1> DEFINE k == Client(c)
           r == Client(c)'
<1>k. ClientOK(c, k, Shared) /\ ClientType(k) /\ SharedOK(Shared)
  BY ClientOf
<1>d. Domains
  BY DEF JournalInv
<1>1. Of(c) /\ UNCHANGED <<jrecords, shown>>
  BY <1>d DEF Of, Domains, Client, Journal!End, Journal!storeVars
<1>2. Ends(k, r) /\ r.told = k.told
  BY <1>d DEF Domains, Client, Journal!End, Journal!storeVars, Ends
<1> HIDE DEF k, r
<1>3. r.told \in [outcome : Outcomes, count : Nat] /\ ToldOK(c, r, Shared)
  BY <1>k, <1>2 DEF ClientOK, ClientType, ToldOK, Ends
<1>4. ClientOK(c, r, Shared)
  BY <1>k, <1>2, <1>3, EndedIsOK
<1> QED BY <1>1, <1>4, QuietStepKeeps DEF r

LEMMA DieKeeps ==
    ASSUME JournalInv, NEW c \in Clients, Journal!Die(c)
    PROVE  JournalInv'
  BY EndKeeps DEF Journal!Die

LEMMA RenderFailsKeeps ==
    ASSUME JournalInv, NEW c \in Clients, Journal!RenderFails(c)
    PROVE  JournalInv'
<1>1. jphase[c] = "idle"
  BY DEF Journal!RenderFails, Journal!Heard
<1> QED BY <1>1, EndKeeps DEF Journal!RenderFails

LEMMA TellKeeps ==
    ASSUME JournalInv, NEW c \in Clients, NEW outcome \in Outcomes, NEW count \in Nat,
           jphase[c] = "idle", Journal!Tell(c, outcome, count),
           outcome \in {"invalid", "conflict"} => Unwritten(c, Client(c).appends, Shared.log),
           outcome = "ok" =>
              /\ Len(Client(c).batch) <= count /\ count <= Len(Shared.log)
              /\ \A i \in 1..Len(Client(c).batch) :
                    Shared.log[count - Len(Client(c).batch) + i]
                        = At(Client(c).batch[i], count - Len(Client(c).batch) + i)
    PROVE  JournalInv'
<1> DEFINE k == Client(c)
           r == Client(c)'
<1>k. ClientOK(c, k, Shared) /\ ClientType(k) /\ SharedOK(Shared)
  BY ClientOf
<1>d. Domains
  BY DEF JournalInv
<1>1. Of(c) /\ UNCHANGED <<jrecords, shown>>
  BY <1>d DEF Of, Domains, Client, Journal!Tell, Journal!End, Journal!storeVars
<1>2. Ends(k, r) /\ r.told = [outcome |-> outcome, count |-> count]
  BY <1>d DEF Domains, Client, Journal!Tell, Journal!End, Journal!storeVars, Ends
<1>3. r.told \in [outcome : Outcomes, count : Nat] /\ ToldOK(c, r, Shared)
  <2> HIDE DEF r
  <2>1. r.told \in [outcome : Outcomes, count : Nat] /\ r.told.outcome = outcome /\ r.told.count = count
    BY <1>2
  <2>2. r.batch = k.batch /\ r.appends = k.appends
    BY <1>2 DEF Ends
  <2> QED BY <2>1, <2>2 DEF ToldOK
<1> HIDE DEF k, r
<1>4. ClientOK(c, r, Shared)
  BY <1>k, <1>2, <1>3, EndedIsOK
<1> QED BY <1>1, <1>4, QuietStepKeeps DEF r

LEMMA AppendFailedKeeps ==
    ASSUME JournalInv, NEW c \in Clients, Journal!AppendFailed(c)
    PROVE  JournalInv'
<1>1. Journal!Tell(c, "failed", 0) /\ jphase[c] = "idle"
  BY DEF Journal!AppendFailed, Journal!Heard
<1> QED BY <1>1, TellKeeps DEF Outcomes

\* The edit of an append was applied, refused or lost.
LEMMA AppendWrittenKeeps ==
    ASSUME JournalInv, NEW c \in Clients, Journal!AppendWritten(c)
    PROVE  JournalInv'
<1> DEFINE k == Client(c)
<1>k. ClientOK(c, k, Shared) /\ ClientType(k) /\ SharedOK(Shared)
  BY ClientOf
<1>1. /\ k.job = "append" /\ k.progress = "write" /\ k.phase = "idle"
      /\ k.answer = janswer[c] /\ k.request = jrequest[c] /\ jphase[c] = "idle"
      /\ \/ k.answer.outcome = "ok" /\ Journal!Tell(c, "ok", Len(Edit(k).data))
         \/ k.answer.outcome # "ok" /\ Journal!Tell(c, k.answer.outcome, 0)
  BY FieldsOf DEF Journal!AppendWritten, Journal!Heard, Edit
<1>2. k.answer.outcome \in {"ok", "conflict", "failed"}
  BY <1>k, <1>1 DEF ClientOK, WriterOK
<1>3. AppenderOK(c, k, Shared)
  BY <1>k DEF ClientOK
<1>4. CASE k.answer.outcome # "ok"
  <2>1. k.answer.outcome = "conflict" => Unwritten(c, k.appends, Shared.log)
    BY <1>1, <1>3 DEF AppenderOK
  <2> QED BY <1>1, <1>2, <1>4, <2>1, TellKeeps DEF Outcomes
<1>5. CASE k.answer.outcome = "ok"
  <2> DEFINE d == Edit(k).data
  <2>1. Stands(d, Len(d), Shared.log)
    BY <1>1, <1>3, <1>5 DEF AppenderOK
  <2>2. PICK events \in Seq(Event) : d = Journal!Updated(events, k.batch)
    BY <1>1, <1>3 DEF AppenderOK
  <2>3. k.batch \in Seq(Event) /\ Len(k.batch) \in Nat
    BY <1>k, ClientTypes
  <2>4. Journal!Tell(c, "ok", Len(d)) /\ jphase[c] = "idle"
    BY <1>1, <1>5
  <2> HIDE DEF d, k
  <2>5. /\ d \in Seq(Event) /\ Len(d) = Len(events) + Len(k.batch)
        /\ \A i \in 1..Len(k.batch) : d[Len(events) + i] = At(k.batch[i], Len(events) + i)
    BY ONLY <2>2, <2>3, UpdatedIsALog
  <2>6. Len(events) \in Nat /\ Len(d) \in Nat /\ Len(d) - Len(k.batch) = Len(events)
    BY <2>3, <2>5
  <2>7. Len(k.batch) <= Len(d) /\ Len(d) <= Len(Shared.log)
    BY <2>1, <2>3, <2>5, <2>6 DEF Stands
  <2>8. \A i \in 1..Len(k.batch) :
           Shared.log[Len(d) - Len(k.batch) + i] = At(k.batch[i], Len(d) - Len(k.batch) + i)
    <3> TAKE i \in 1..Len(k.batch)
    <3>1. Len(events) + i \in 1..Len(d)
      BY <2>3, <2>5, <2>6
    <3>2. Shared.log[Len(events) + i] = d[Len(events) + i]
      BY <2>1, <3>1 DEF Stands
    <3> QED BY <2>5, <2>6, <3>2
  <2> QED BY <2>4, <2>6, <2>7, <2>8, TellKeeps DEF Outcomes, k
<1> QED BY <1>4, <1>5

\* What a process has heard.
LEMMA HeardOf ==
    ASSUME JournalInv, NEW c \in Clients, NEW doing, NEW at, Journal!Heard(c, doing, at)
    PROVE  /\ Client(c).job = doing /\ Client(c).progress = at /\ Client(c).phase = "idle"
           /\ jphase[c] = "idle" /\ Client(c).answer = janswer[c] /\ Client(c).place = place[c]
           /\ Journal!LoadedEvents(c) = Logged(Client(c).answer)
           /\ Journal!LoadedAfter(c) = Place(Client(c).answer)
           /\ Journal!LoadedRevision(c) = Revision(Client(c).answer)
           /\ Journal!Succeeded(c) => Client(c).answer.outcome \in {"ok", "not_found"}
           /\ Journal!NextAfter(c) = LastOf(Client(c).page)
  BY FieldsOf DEF Journal!Heard, Journal!LoadedEvents, Journal!LoadedAfter, Journal!LoadedRevision,
                  Journal!Succeeded, Journal!NextAfter, Logged, Place, Revision, LastOf

LEMMA HeardTheLog ==
    ASSUME JournalInv, NEW c \in Clients, NEW doing \in {"append", "observer", "page", "checkpoint"},
           Journal!Heard(c, doing, "journal"), Journal!Succeeded(c)
    PROVE  ReadTheLog(Journal!LoadedRevision(c), Journal!LoadedEvents(c), Shared)
<1>1. ReaderOK(Client(c), Shared)
  BY ClientOf DEF ClientOK
<1> QED BY <1>1, HeardOf DEF ReaderOK

LEMMA HeardThePlace ==
    ASSUME JournalInv, NEW c \in Clients, NEW doing \in {"observer", "checkpoint"},
           Journal!Heard(c, doing, "observer"), Journal!Succeeded(c)
    PROVE  /\ place[c].observer \in Observers
           /\ ReadThePlace(Journal!LoadedRevision(c), Journal!LoadedAfter(c), place[c].observer, Shared)
<1>1. ObserverOK(Client(c), Shared) /\ Client(c).place.observer \in Observers
  BY ClientOf, ClientTypes DEF ClientOK
<1> QED BY <1>1, HeardOf DEF ObserverOK

LEMMA WritingIsOK ==
    ASSUME NEW c, NEW r, NEW w, r.progress = "write", ClientType(r), r.tail <= Len(w.log),
           Unwritten(c, r.appends + 1, w.log), WriterOK(r, w), AppenderOK(c, r, w),
           RendererOK(r, w), ToldOK(c, r, w)
    PROVE  ClientOK(c, r, w)
  BY DEF ReaderOK, ObserverOK, ClientOK

LEMMA AppendLoadedKeeps ==
    ASSUME JournalInv, NEW c \in Clients, Journal!AppendLoaded(c)
    PROVE  JournalInv'
<1> DEFINE k == Client(c)
           r == Client(c)'
           events == Journal!LoadedEvents(c)
           n == Journal!LoadedRevision(c)
<1>k. ClientOK(c, k, Shared) /\ ClientType(k) /\ SharedOK(Shared)
  BY ClientOf
<1>d. Domains
  BY DEF JournalInv
<1>0. Journal!Heard(c, "append", "journal") /\ Journal!Succeeded(c)
  BY DEF Journal!AppendLoaded
<1>1. k.job = "append" /\ k.progress = "journal" /\ k.phase = "idle" /\ jphase[c] = "idle"
  BY <1>0, HeardOf
<1>2. ReadTheLog(n, events, Shared)
  BY <1>0, HeardTheLog
<1>3. n \in Nat /\ events \in Seq(Event) /\ Len(events) \in Nat
  BY <1>2 DEF ReadTheLog
<1>4. /\ Unwritten(c, k.appends, Shared.log) /\ k.told.outcome = "none"
      /\ \A i \in 1..Len(k.batch) : k.batch[i].by = c /\ k.batch[i].attempt = k.appends
  BY <1>k, <1>1 DEF ClientOK, AppenderOK
<1>5. CASE Journal!Tell(c, "invalid", 0)
  BY <1>1, <1>4, <1>5, TellKeeps DEF Outcomes
<1>6. CASE Journal!Tell(c, "empty", Len(Journal!LoadedEvents(c)))
  BY <1>1, <1>3, <1>6, TellKeeps DEF Outcomes
<1>7. CASE /\ Journal!Valid(batch[c]) /\ batch[c] # <<>>
           /\ progress' = [progress EXCEPT ![c] = "write"]
           /\ Journal!Submit(c, JournalKey, n, Journal!Updated(events, batch[c]))
           /\ UNCHANGED <<jjob, batch, place, page, tail, told, appends, renders, shown>>
  <2>1. k.batch = batch[c] /\ k.batch \in Journal!Batches
    <3>1. k.batch = batch[c] /\ k.batch \in Journal!Batches \cup Journal!Forged \cup {<<>>}
      BY <1>k, FieldsOf DEF ClientType
    <3>2. k.batch \in Journal!Forged => 1 \in DOMAIN k.batch /\ k.batch[1].sequence = 1
      BY BatchesAreEvents
    <3> QED BY <1>7, <3>1, <3>2 DEF Journal!Valid
  <2> DEFINE d == Journal!Updated(events, k.batch)
  <2> HIDE DEF events, n
  <2>2. Of(c) /\ UNCHANGED <<jrecords, shown>>
    BY <1>d, <1>7 DEF Of, Domains, Client, Journal!Submit, Journal!Store!Call
  <2>3. /\ r.job = "append" /\ r.progress = "write" /\ r.phase = "called" /\ r.told = k.told
        /\ r.request = [op |-> "transact",
                        edits |-> <<[key |-> JournalKey, expected |-> n, data |-> d]>>]
        /\ r.batch = k.batch /\ r.appends = k.appends /\ r.place = k.place /\ r.page = k.page
        /\ r.tail = k.tail
    BY <1>d, <1>1, <1>7, <2>1 DEF Domains, Client, Journal!Submit, Journal!Store!Call
  <2>d. d = Journal!Updated(events, k.batch)
    OBVIOUS
  <2> HIDE DEF k, r, d
  <2>4. /\ r.request.op = "transact" /\ Edit(r) = [key |-> JournalKey, expected |-> n, data |-> d]
        /\ r.request.edits = <<Edit(r)>>
    BY <2>3 DEF Edit
  <2>5. ClientType(r) /\ r.tail <= Len(Shared.log) /\ Unwritten(c, r.appends + 1, Shared.log)
        /\ ToldOK(c, r, Shared)
    BY <1>k, <2>3 DEF ClientType, ClientOK, ToldOK
  <2>6. WriterOK(r, Shared) /\ RendererOK(r, Shared)
    BY <1>3, <2>3, <2>4 DEF WriterOK, RendererOK
  <2>7. AppenderOK(c, r, Shared)
    <3>1. Edit(r).data = d /\ Edit(r).expected = n /\ Edit(r).key = JournalKey
      BY <2>4
    <3> QED BY <1>2, <1>3, <1>4, <2>1, <2>3, <2>d, <3>1 DEF AppenderOK
  <2>8. ClientOK(c, r, Shared)
    BY <2>3, <2>5, <2>6, <2>7, WritingIsOK
  <2> QED BY <2>2, <2>8, QuietStepKeeps DEF r
<1> QED BY <1>5, <1>6, <1>7 DEF Journal!AppendLoaded

LEMMA TailLoadedKeeps ==
    ASSUME JournalInv, NEW c \in Clients, Journal!TailLoaded(c)
    PROVE  JournalInv'
<1> DEFINE k == Client(c)
           r == Client(c)'
<1>k. ClientOK(c, k, Shared) /\ ClientType(k) /\ SharedOK(Shared)
  BY ClientOf
<1>d. Domains
  BY DEF JournalInv
<1>0. jjob[c] \in {"observer", "checkpoint"} /\ Journal!Heard(c, jjob[c], "journal") /\ Journal!Succeeded(c)
  BY DEF Journal!TailLoaded
<1>1. k.job = jjob[c] /\ k.progress = "journal" /\ k.phase = "idle" /\ k.place = place[c]
  BY <1>0, HeardOf
<1>2. ReadTheLog(Journal!LoadedRevision(c), Journal!LoadedEvents(c), Shared)
  BY <1>0, HeardTheLog
<1>3. Of(c) /\ UNCHANGED <<jrecords, shown>>
  BY <1>d DEF Of, Domains, Client, Journal!TailLoaded, Journal!AskFor, Journal!Store!Call
<1>4. /\ r.job = k.job /\ r.progress = "observer" /\ r.phase = "called" /\ r.told = k.told
      /\ r.request = [op |-> "read", key |-> k.place.observer]
      /\ r.batch = k.batch /\ r.appends = k.appends /\ r.place = k.place /\ r.page = k.page
      /\ r.tail = Len(Journal!LoadedEvents(c))
  BY <1>d DEF Domains, Client, Journal!TailLoaded, Journal!AskFor, Journal!Store!Call
<1> HIDE DEF k, r
<1>5. r.tail \in Nat /\ r.tail <= Len(Shared.log)
  BY <1>2, <1>4 DEF ReadTheLog, Stands
<1>6. ClientType(r) /\ Unwritten(c, r.appends + 1, Shared.log) /\ ToldOK(c, r, Shared)
  BY <1>k, <1>0, <1>1, <1>4, <1>5 DEF ClientType, ClientOK, ToldOK
<1>7. AppenderOK(c, r, Shared) /\ ReaderOK(r, Shared) /\ ObserverOK(r, Shared) /\ WriterOK(r, Shared)
  BY <1>0, <1>1, <1>4 DEF AppenderOK, ReaderOK, ObserverOK, WriterOK
<1>8. RendererOK(r, Shared)
  BY <1>k, <1>0, <1>1, <1>4 DEF RendererOK, ClientOK
<1>9. ClientOK(c, r, Shared)
  BY <1>5, <1>6, <1>7, <1>8 DEF ClientOK
<1> QED BY <1>3, <1>9, QuietStepKeeps DEF r

LEMMA PlacedKeeps ==
    ASSUME JournalInv, NEW c \in Clients, NEW after \in Nat, NEW n \in Nat,
           1..after \subseteq shown[place[c].observer], Journal!Placed(c, after, n)
    PROVE  JournalInv'
<1> DEFINE k == Client(c)
           r == Client(c)'
<1>k. ClientOK(c, k, Shared) /\ ClientType(k) /\ SharedOK(Shared)
  BY ClientOf
<1>d. Domains
  BY DEF JournalInv
<1>1. Of(c) /\ UNCHANGED <<jrecords, shown>>
  BY <1>d DEF Of, Domains, Client, Journal!Placed, Journal!Begin, Journal!AskFor, Journal!Store!Call
<1>2. /\ r.job = "page" /\ r.progress = "journal" /\ r.phase = "called"
      /\ r.request = [op |-> "read", key |-> JournalKey] /\ r.batch = k.batch
      /\ r.told = k.told /\ r.appends = k.appends
      /\ r.place = [place[c] EXCEPT !.after = after, !.revision = n]
      /\ k.place = place[c] /\ r.page = k.page /\ r.tail = k.tail
  BY <1>d DEF Domains, Client, Journal!Placed, Journal!Begin, Journal!AskFor, Journal!Store!Call
<1>s. Shared.shown = shown
  BY DEF Shared
<1> HIDE DEF k, r
<1>3. /\ r.place \in [observer : Observers, after : Nat, revision : Nat]
      /\ r.place.after = after /\ r.place.observer = place[c].observer
  <2>1. place[c] \in [observer : Observers, after : Nat, revision : Nat]
    BY <1>k, <1>2 DEF ClientType
  <2> QED BY ONLY <2>1, <1>2, after \in Nat, n \in Nat
<1>4. Begins(r, "page") /\ ClientType(r) /\ r.tail <= Len(Shared.log)
  BY <1>k, <1>2, <1>3 DEF Begins, ClientType, ClientOK
<1>5. Unwritten(c, r.appends + 1, Shared.log) /\ ToldOK(c, r, Shared)
  BY <1>k, <1>2 DEF ClientOK, ToldOK
<1>6. AppenderOK(c, r, Shared) /\ RendererOK(r, Shared)
  BY <1>2, <1>3, <1>s DEF AppenderOK, RendererOK
<1>7. ClientOK(c, r, Shared)
  BY <1>4, <1>5, <1>6, BegunIsOK
<1> QED BY <1>1, <1>7, QuietStepKeeps DEF r

\* Whatever is at or before a stored place was printed.
LEMMA PlacesWerePrinted ==
    ASSUME JournalInv, NEW o \in Observers, NEW n, NEW after, ReadThePlace(n, after, o, Shared)
    PROVE  after \in Nat /\ n \in Nat /\ 1..after \subseteq shown[o]
<1>1. SharedOK(Shared) /\ Shared.shown = shown
  BY DEF JournalInv, Shared
<1>2. after \in Nat /\ n \in Nat /\ after <= Shared.cursor[o] /\ Shared.cursor[o] \in Nat
  BY <1>1, Shareds DEF ReadThePlace
<1>3. 1..Shared.cursor[o] \subseteq shown[o]
  BY <1>1 DEF SharedOK
<1> QED BY <1>2, <1>3

LEMMA ObserverLoadedKeeps ==
    ASSUME JournalInv, NEW c \in Clients, Journal!ObserverLoaded(c)
    PROVE  JournalInv'
<1>1. /\ Journal!Heard(c, "observer", "observer") /\ Journal!Succeeded(c)
      /\ Journal!Placed(c, Journal!LoadedAfter(c), Journal!LoadedRevision(c))
  BY DEF Journal!ObserverLoaded
<1> QED BY <1>1, HeardThePlace, PlacesWerePrinted, PlacedKeeps

LEMMA CheckpointWrittenKeeps ==
    ASSUME JournalInv, NEW c \in Clients, Journal!CheckpointWritten(c)
    PROVE  JournalInv'
<1> DEFINE k == Client(c)
<1>k. ClientOK(c, k, Shared) /\ ClientType(k)
  BY ClientOf
<1>1. /\ k.job = "checkpoint" /\ k.progress = "write" /\ k.phase = "idle" /\ k.place = place[c]
      /\ k.answer = janswer[c] /\ Journal!NextAfter(c) = LastOf(k.page) /\ janswer[c].outcome = "ok"
      /\ Journal!Placed(c, Journal!NextAfter(c), janswer[c].records[1].revision)
  BY HeardOf DEF Journal!CheckpointWritten
<1>2. janswer[c].records[1].revision \in Nat
  BY <1>k, <1>1 DEF ClientOK, WriterOK
<1>3. LastOf(k.page) \in Nat /\ 1..LastOf(k.page) \subseteq shown[place[c].observer]
  <2>1. k.page # <<>> /\ 1..LastOf(k.page) \subseteq Shared.shown[k.place.observer]
    BY <1>k, <1>1 DEF ClientOK, RendererOK
  <2> QED BY <1>k, <1>1, <2>1, ClientTypes DEF Shared
<1> HIDE DEF k
<1> QED BY <1>1, <1>2, <1>3, PlacedKeeps

LEMMA CheckpointLoadedKeeps ==
    ASSUME JournalInv, NEW c \in Clients, Journal!CheckpointLoaded(c)
    PROVE  JournalInv'
<1> DEFINE k == Client(c)
           r == Client(c)'
           o == place[c].observer
           n == Journal!LoadedRevision(c)
           after == Journal!LoadedAfter(c)
           newest == LastOf(k.page)
<1>k. ClientOK(c, k, Shared) /\ ClientType(k) /\ SharedOK(Shared)
  BY ClientOf
<1>d. Domains
  BY DEF JournalInv
<1>0. /\ Journal!Heard(c, "checkpoint", "observer") /\ Journal!Succeeded(c)
      /\ Journal!AcceptsCheckpoint(c, after, n)
  BY DEF Journal!CheckpointLoaded
<1>1. /\ k.job = "checkpoint" /\ k.progress = "observer" /\ k.phase = "idle" /\ k.place = place[c]
      /\ Journal!NextAfter(c) = newest
  BY <1>0, HeardOf
<1>2. o \in Observers /\ ReadThePlace(n, after, o, Shared)
  BY <1>0, HeardThePlace
<1>3. newest >= after /\ newest <= tail[c] /\ k.tail = tail[c]
  BY <1>0, <1>1, FieldsOf DEF Journal!AcceptsCheckpoint
<1>4. CASE Journal!Placed(c, Journal!LoadedAfter(c), Journal!LoadedRevision(c))
  BY <1>2, <1>4, PlacesWerePrinted, PlacedKeeps
<1>5. CASE /\ Journal!NextAfter(c) # Journal!LoadedAfter(c)
           /\ progress' = [progress EXCEPT ![c] = "write"]
           /\ Journal!Submit(c, place[c].observer, Journal!LoadedRevision(c), Journal!NextAfter(c))
           /\ UNCHANGED <<jjob, batch, place, page, tail, told, appends, renders, shown>>
  <2>1. Of(c) /\ UNCHANGED <<jrecords, shown>>
    BY <1>d, <1>5 DEF Of, Domains, Client, Journal!Submit, Journal!Store!Call
  <2> HIDE DEF n, after, newest
  <2>2. /\ r.job = "checkpoint" /\ r.progress = "write" /\ r.phase = "called" /\ r.told = k.told
        /\ r.request = [op |-> "transact",
                        edits |-> <<[key |-> o, expected |-> n, data |-> newest]>>]
        /\ r.batch = k.batch /\ r.appends = k.appends /\ r.place = k.place /\ r.page = k.page
        /\ r.tail = k.tail
    <3>1. Journal!Submit(c, place[c].observer, n, newest)
      BY <1>5, <1>1 DEF n
    <3> QED BY <1>d, <1>1, <1>5, <3>1 DEF Domains, Client, Journal!Submit, Journal!Store!Call
  <2>3. /\ newest # after /\ newest = LastOf(k.page)
    BY <1>5, <1>1 DEF after, newest
  <2>s. k.place.observer = o
    BY <1>1
  <2> HIDE DEF k, r, o
  <2>4. /\ r.request.op = "transact" /\ Edit(r) = [key |-> o, expected |-> n, data |-> newest]
        /\ r.request.edits = <<Edit(r)>> /\ Edit(r).key = o /\ Edit(r).expected = n /\ Edit(r).data = newest
    BY <2>2 DEF Edit
  <2>5. ClientType(r) /\ r.tail <= Len(Shared.log) /\ Unwritten(c, r.appends + 1, Shared.log)
        /\ ToldOK(c, r, Shared)
    BY <1>k, <2>2 DEF ClientType, ClientOK, ToldOK
  <2>6. WriterOK(r, Shared) /\ AppenderOK(c, r, Shared)
    BY <1>2, <2>2, <2>4 DEF WriterOK, AppenderOK, ReadThePlace
  <2>7. RendererOK(r, Shared)
    <3>1. /\ 1..k.place.after \subseteq Shared.shown[o]
          /\ k.page # <<>> /\ 1..newest \subseteq Shared.shown[o]
      BY <1>k, <1>1, <2>3, <2>s DEF ClientOK, RendererOK
    <3>2. newest \in Nat /\ k.tail \in Nat
      BY <1>k, <2>3, <3>1, ClientTypes
    <3>3. /\ n <= Shared.placed[o] /\ (n = Shared.placed[o] => Shared.cursor[o] < newest)
      BY <1>2, <1>3, <2>3, <3>2 DEF ReadThePlace
    <3>4. newest <= Len(Shared.log)
      BY <1>3, <2>2, <2>5, <3>2, <1>k, Shareds
    <3>5. LastOf(r.page) = newest /\ r.place = k.place /\ r.page = k.page
      BY <2>2, <2>3
    <3> QED BY <2>2, <2>4, <2>s, <3>1, <3>3, <3>4, <3>5 DEF RendererOK
  <2>8. ClientOK(c, r, Shared)
    BY <2>2, <2>5, <2>6, <2>7, WritingIsOK
  <2> QED BY <2>1, <2>8, QuietStepKeeps DEF r
<1> QED BY <1>4, <1>5 DEF Journal!CheckpointLoaded

LEMMA RecordsStay ==
    ASSUME UNCHANGED jrecords
    PROVE  /\ Shared'.log = Shared.log /\ Shared'.revision = Shared.revision
           /\ Shared'.cursor = Shared.cursor /\ Shared'.placed = Shared.placed
           /\ Shared'.shown = shown' /\ Shared.shown = shown
<1>1. Journal!log' = Journal!log /\ Journal!cursor' = Journal!cursor
  BY DEF Journal!log, Journal!cursor
<1> QED BY <1>1 DEF Shared, RevisionIn

LEMMA PageIs ==
    ASSUME Journal!JournalAssumption, NEW events \in Seq(Event), NEW after \in Nat,
           NEW found, found = Journal!PageAfter(events, after),
           after <= Len(events), found # <<>>
    PROVE  /\ found \in Seq(Event) /\ Len(found) \in Nat \ {0}
           /\ after + Len(found) <= Len(events)
           /\ \A i \in 1..Len(found) : found[i] = events[after + i]
<1> DEFINE last == IF after + PageLimit < Len(events) THEN after + PageLimit ELSE Len(events)
<1>1. last \in Nat /\ last >= after /\ last <= Len(events)
  BY DEF Journal!JournalAssumption
<1>2. found = SubSeq(events, after + 1, last)
  BY DEF Journal!PageAfter
<1> HIDE DEF last
<1>3. /\ found \in Seq(Event) /\ Len(found) = last - after
      /\ \A i \in 1..Len(found) : found[i] = events[after + i]
  <2>1. Len(found) = last - after
    BY <1>1, <1>2
  <2>2. \A i \in 1..last - after : found[i] = events[after + i]
    <3> TAKE i \in 1..last - after
    <3>1. after + 1 + i - 1 = after + i
      BY <1>1
    <3> QED BY <1>1, <1>2, <3>1
  <2>3. \A i \in 1..last - after : events[after + i] \in Event
    BY <1>1
  <2>4. found = [i \in 1..last - after |-> events[after + i]]
    BY <1>1, <1>2
  <2> QED BY <1>1, <2>1, <2>2, <2>3, <2>4
<1>4. last - after # 0
  BY <1>1, <1>3
<1> QED BY <1>1, <1>3, <1>4

LEMMA PageLoadedKeeps ==
    ASSUME Journal!JournalAssumption, JournalInv, NEW c \in Clients, Journal!PageLoaded(c)
    PROVE  JournalInv'
<1> DEFINE k == Client(c)
           r == Client(c)'
           w == Shared
           v == Shared'
           o == place[c].observer
           after == place[c].after
           events == Journal!LoadedEvents(c)
           found == Journal!PageAfter(events, after)
<1>k. ClientOK(c, k, w) /\ ClientType(k) /\ SharedOK(w)
  BY ClientOf
<1>d. Domains /\ RecordsOK
  BY DEF JournalInv
<1>0. Journal!Heard(c, "page", "journal") /\ Journal!Succeeded(c)
  BY DEF Journal!PageLoaded
<1>1. k.job = "page" /\ k.progress = "journal" /\ k.phase = "idle" /\ k.place = place[c] /\ jphase[c] = "idle"
  BY <1>0, HeardOf
<1>2. events \in Seq(Event) /\ Stands(events, Len(events), w.log)
  BY <1>0, HeardTheLog DEF ReadTheLog
<1>3. CASE Journal!End(c) /\ UNCHANGED <<batch, place, page, tail, told, appends, renders, shown>>
  BY <1>1, <1>3, EndKeeps
<1>4. CASE /\ ~ (after > Len(events)) /\ found # <<>>
           /\ page' = [page EXCEPT ![c] = found]
           /\ shown' = [shown EXCEPT ![o] = @ \cup {found[i].sequence : i \in DOMAIN found}]
           /\ Journal!Begin(c, "checkpoint")
           /\ UNCHANGED <<batch, place, tail, told, appends, renders>>
  <2>1. Of(c) /\ UNCHANGED jrecords
    BY <1>d, <1>4 DEF Of, Domains, Client, Journal!Begin, Journal!AskFor, Journal!Store!Call
  <2> HIDE DEF found, events
  <2>2. /\ r.job = "checkpoint" /\ r.progress = "journal" /\ r.phase = "called"
        /\ r.request = [op |-> "read", key |-> JournalKey] /\ r.batch = k.batch
        /\ r.told = k.told /\ r.appends = k.appends /\ r.place = k.place
        /\ r.page = found /\ r.tail = k.tail
    BY <1>d, <1>4 DEF Domains, Client, Journal!Begin, Journal!AskFor, Journal!Store!Call
  <2>3. o \in Observers /\ after \in Nat
    BY <1>k, <1>1, ClientTypes
  <2>4. /\ v.log = w.log /\ v.revision = w.revision /\ v.cursor = w.cursor /\ v.placed = w.placed
        /\ v.shown = shown' /\ w.shown = shown
    BY <2>1, RecordsStay
  <2>5. /\ \A p \in Observers : shown[p] \subseteq shown'[p]
        /\ shown'[o] = shown[o] \cup {found[i].sequence : i \in DOMAIN found}
    BY <1>d, <1>4, <2>3 DEF Domains
  <2>l. Len(events) \in Nat /\ after <= Len(events)
    BY <1>2, <1>4, <2>3
  <2>6. /\ found \in Seq(Event) /\ Len(found) \in Nat \ {0} /\ after + Len(found) <= Len(events)
        /\ \A i \in 1..Len(found) : found[i] = events[after + i]
    BY <1>2, <1>4, <2>3, <2>l, PageIs DEF found
  <2>s. k.place.observer = o /\ k.place.after = after
    BY <1>1
  <2> HIDE DEF k, r, w, v, o, after
  <2>7. \A i \in 1..Len(found) : found[i].sequence = after + i
    <3> TAKE i \in 1..Len(found)
    <3>1. after + i \in 1..Len(events)
      BY <2>3, <2>6, <2>l
    <3>2. after + i \in 1..Len(w.log) /\ w.log[after + i] = events[after + i]
      BY <1>2, <1>k, <2>l, <3>1, Shareds DEF Stands
    <3> QED BY <1>k, <2>6, <3>2 DEF SharedOK, IsLog
  <2>8. LastOf(found) = after + Len(found)
    BY <2>6, <2>7 DEF LastOf
  <2>9. 1..after \subseteq shown[o]
    BY <1>k, <1>1, <2>4, <2>s DEF ClientOK, RendererOK
  <2>10. 1..LastOf(found) \subseteq shown'[o]
    <3> SUFFICES ASSUME NEW x \in 1..after + Len(found) PROVE x \in shown'[o]
      BY <2>8
    <3>1. CASE x <= after
      BY <2>3, <2>5, <2>9, <3>1
    <3>2. CASE x > after
      <4>1. x - after \in 1..Len(found) /\ after + (x - after) = x
        BY <2>3, <2>6, <3>2
      <4>2. x - after \in DOMAIN found /\ found[x - after].sequence = x
        BY <2>6, <2>7, <4>1
      <4> QED BY <2>5, <4>2
    <3> QED BY <2>3, <2>6, <3>1, <3>2
  <2>11. SharedOK(v) /\ Later(w, v) /\ \A d \in Clients : ByOthers(d, w, v)
    <3>1. SharedOK(v)
      BY <1>k, <2>4, <2>5 DEF SharedOK
    <3>2. Later(w, w) /\ \A d : ByOthers(d, w, w)
      BY <1>k, Unchanged
    <3> QED BY <2>4, <2>5, <3>1, <3>2 DEF Later, ByOthers
  <2>12. Begins(r, "checkpoint") /\ ClientType(r) /\ r.tail <= Len(v.log)
    BY <1>k, <2>2, <2>4, <2>6 DEF Begins, ClientType, ClientOK
  <2>13. Unwritten(c, r.appends + 1, v.log) /\ ToldOK(c, r, v) /\ AppenderOK(c, r, v)
    BY <1>k, <2>2, <2>4 DEF ClientOK, ToldOK, AppenderOK
  <2>14. RendererOK(r, v)
    <3>1. r.page # <<>>
      BY <2>2, <2>6
    <3>2. 1..r.place.after \subseteq v.shown[o] /\ r.place.observer = o
      BY <2>2, <2>4, <2>3, <2>5, <2>9, <2>s
    <3> QED BY <2>2, <2>4, <2>10, <3>1, <3>2 DEF RendererOK
  <2>15. ClientOK(c, r, v)
    BY <2>12, <2>13, <2>14, BegunIsOK
  <2>16. RecordsOK'
    BY <1>d, <2>1 DEF RecordsOK
  <2> QED BY <2>1, <2>11, <2>15, <2>16, OneProcessKeeps DEF r, w, v
<1> QED BY <1>3, <1>4 DEF Journal!PageLoaded

----------------------------------------------------------------------------
(* What the store does for a process.                                      *)
LEMMA AnsweredKeeps ==
    ASSUME JournalInv, NEW c \in Clients, NEW said, jphase[c] # "idle",
           Journal!Store!Answered(c, said), UNCHANGED <<jrecords, Journal!clientVars, shown>>,
           Client(c).progress = "journal" =>
              /\ said.outcome \in Answers
              /\ said.outcome # "failed" => ReadTheLog(Revision(said), Logged(said), Shared),
           Client(c).progress = "observer" =>
              /\ said.outcome \in Answers
              /\ said.outcome # "failed" =>
                    ReadThePlace(Revision(said), Place(said), Client(c).place.observer, Shared),
           Client(c).progress = "write" =>
              /\ said.outcome \in {"ok", "conflict", "failed"}
              /\ said.outcome = "ok" => said.records[1].revision \in Nat
              /\ Client(c).job = "append" /\ said.outcome = "ok" =>
                    Stands(Edit(Client(c)).data, Len(Edit(Client(c)).data), Shared.log)
              /\ Client(c).job = "append" /\ said.outcome = "conflict" =>
                    Unwritten(c, Client(c).appends, Shared.log)
    PROVE  JournalInv'
<1> DEFINE k == Client(c)
           r == Client(c)'
           w == Shared
<1>k. ClientOK(c, k, w) /\ ClientType(k) /\ SharedOK(w)
  BY ClientOf
<1>d. Domains
  BY DEF JournalInv
<1>1. Of(c) /\ UNCHANGED <<jrecords, shown>>
  BY <1>d DEF Of, Domains, Client, Journal!Store!Answered, Journal!clientVars
<1>2. /\ r.job = k.job /\ r.progress = k.progress /\ r.phase = "idle" /\ r.answer = said
      /\ r.request = k.request /\ r.batch = k.batch /\ r.told = k.told /\ r.appends = k.appends
      /\ r.place = k.place /\ r.page = k.page /\ r.tail = k.tail
      /\ k.job # "none" /\ k.phase # "idle"
  <2>1. k.phase = jphase[c]
    BY FieldsOf
  <2>2. k.job # "none"
    BY <1>k, <2>1 DEF ClientType
  <2> QED BY <1>d, <2>1, <2>2 DEF Domains, Client, Journal!Store!Answered, Journal!clientVars
<1>3. /\ k.progress = "journal" =>
            /\ said.outcome \in Answers
            /\ said.outcome # "failed" => ReadTheLog(Revision(said), Logged(said), w)
      /\ k.progress = "observer" =>
            /\ said.outcome \in Answers
            /\ said.outcome # "failed" => ReadThePlace(Revision(said), Place(said), k.place.observer, w)
      /\ k.progress = "write" =>
            /\ said.outcome \in {"ok", "conflict", "failed"}
            /\ said.outcome = "ok" => said.records[1].revision \in Nat
            /\ k.job = "append" /\ said.outcome = "ok" => Stands(Edit(k).data, Len(Edit(k).data), w.log)
            /\ k.job = "append" /\ said.outcome = "conflict" => Unwritten(c, k.appends, w.log)
  OBVIOUS
<1> HIDE DEF k, r, w
<1>e. Edit(r) = Edit(k)
  BY <1>2 DEF Edit
<1>4. ClientType(r) /\ r.tail <= Len(w.log) /\ Unwritten(c, r.appends + 1, w.log) /\ ToldOK(c, r, w)
  BY <1>k, <1>2 DEF ClientType, ClientOK, ToldOK
<1>5. ReaderOK(r, w)
  BY <1>k, <1>2, <1>3 DEF ReaderOK, ClientOK
<1>6. ObserverOK(r, w)
  BY <1>k, <1>2, <1>3 DEF ObserverOK, ClientOK
<1>7. WriterOK(r, w)
  BY <1>k, <1>e, <1>2, <1>3 DEF WriterOK, ClientOK
<1>8. AppenderOK(c, r, w)
  BY <1>k, <1>e, <1>2, <1>3 DEF AppenderOK, ClientOK
<1>9. RendererOK(r, w)
  BY <1>k, <1>e, <1>2, <1>3 DEF RendererOK, ClientOK
<1>10. ClientOK(c, r, w)
  BY <1>4, <1>5, <1>6, <1>7, <1>8, <1>9 DEF ClientOK
<1> QED BY <1>1, <1>10, QuietStepKeeps DEF r, w

\* Whom the store serves.
LEMMA ServedIs ==
    ASSUME JournalInv, NEW c \in Clients, jphase[c] \in {"called", "applied"}
    PROVE  LET k == Client(c) IN
           /\ k.job # "none" /\ k.phase = jphase[c] /\ k.request = jrequest[c]
           /\ k.progress \in {"journal", "observer", "write"}
           /\ k.phase = "applied" => k.progress = "write"
           /\ k.progress = "journal" => k.request.op = "read" /\ k.request.key = JournalKey
           /\ k.progress = "observer" => k.request.op = "read" /\ k.request.key = k.place.observer
           /\ k.progress = "write" =>
                 /\ k.job \in {"append", "checkpoint"} /\ k.request.op = "transact"
                 /\ k.request.edits = <<Edit(k)>> /\ Edit(k).expected \in Nat
<1> DEFINE k == Client(c)
<1>1. ClientOK(c, k, Shared) /\ k.phase = jphase[c] /\ k.request = jrequest[c]
  BY ClientOf, FieldsOf
<1> HIDE DEF k
<1>2. k.job # "none"
  BY <1>1 DEF ClientOK, ClientType
<1>3. ReaderOK(k, Shared) /\ ObserverOK(k, Shared) /\ WriterOK(k, Shared) /\ ClientType(k)
  BY <1>1 DEF ClientOK
<1>4. /\ k.job # "none" /\ k.phase = jphase[c] /\ k.request = jrequest[c]
      /\ k.progress \in {"journal", "observer", "write"}
      /\ k.phase = "applied" => k.progress = "write"
      /\ k.progress = "journal" => k.request.op = "read" /\ k.request.key = JournalKey
      /\ k.progress = "observer" => k.request.op = "read" /\ k.request.key = k.place.observer
      /\ k.progress = "write" =>
            /\ k.job \in {"append", "checkpoint"} /\ k.request.op = "transact"
            /\ k.request.edits = <<Edit(k)>> /\ Edit(k).expected \in Nat
  BY <1>1, <1>2, <1>3 DEF ReaderOK, ObserverOK, WriterOK, ClientType
<1> QED BY <1>4 DEF k

LEMMA FailKeeps ==
    ASSUME JournalInv, NEW c \in Clients, Journal!Store!Fail(c),
           UNCHANGED <<Journal!clientVars, shown>>
    PROVE  JournalInv'
<1>1. /\ jphase[c] # "idle" /\ UNCHANGED jrecords
      /\ Journal!Store!Answered(c, Journal!Store!Failure)
  BY DEF Journal!Store!Fail
<1>2. Journal!Store!Failure.outcome = "failed"
  BY DEF Journal!Store!Failure
<1> HIDE DEF Journal!Store!Failure
<1> QED BY <1>1, <1>2, AnsweredKeeps DEF Answers

\* A record as it is stored.
LEMMA RecordIs ==
    ASSUME Journal!JournalAssumption, JournalInv
    PROVE  /\ Shared.revision = RevisionIn(jrecords[JournalKey])
           /\ IF jrecords[JournalKey] = NoRecord THEN Shared.revision = 0 /\ Shared.log = <<>>
              ELSE /\ jrecords[JournalKey].revision = Shared.revision
                   /\ jrecords[JournalKey].data = Shared.log
           /\ \A o \in Observers :
                 IF jrecords[o] = NoRecord THEN Shared.placed[o] = 0 /\ Shared.cursor[o] = 0
                 ELSE /\ jrecords[o].revision = Shared.placed[o]
                      /\ jrecords[o].data = Shared.cursor[o]
  BY DEF Shared, RevisionIn, Journal!log, Journal!cursor

LEMMA ReadKeeps ==
    ASSUME Journal!JournalAssumption, JournalInv, NEW c \in Clients, Journal!Store!Read(c),
           UNCHANGED <<Journal!clientVars, shown>>
    PROVE  JournalInv'
<1> DEFINE k == Client(c)
           row == jrecords[jrequest[c].key]
           said == Journal!Store!Found(row)
<1>1. /\ jphase[c] = "called" /\ jrequest[c].op = "read" /\ UNCHANGED jrecords
      /\ Journal!Store!Answered(c, said)
  BY DEF Journal!Store!Read
<1>2. /\ k.job # "none" /\ k.request = jrequest[c] /\ k.progress # "write"
      /\ k.progress = "journal" => jrequest[c].key = JournalKey
      /\ k.progress = "observer" => jrequest[c].key = k.place.observer
  BY <1>1, ServedIs
<1>3. SharedOK(Shared) /\ k.place.observer \in Observers
  BY ClientOf, ClientTypes
<1>4. /\ row = NoRecord => said.outcome = "not_found"
      /\ row # NoRecord => said.outcome = "ok" /\ said.records[1] = row
  BY DEF Journal!Store!Found
<1> HIDE DEF k, said
<1>5. /\ row = NoRecord => Revision(said) = 0 /\ Logged(said) = <<>> /\ Place(said) = 0
      /\ row # NoRecord => /\ Revision(said) = row.revision /\ Logged(said) = row.data
                           /\ Place(said) = row.data
      /\ said.outcome \in Answers
  BY <1>4 DEF Revision, Logged, Place, Answers
<1> HIDE DEF row
<1>6. ASSUME k.progress = "journal"
      PROVE  ReadTheLog(Revision(said), Logged(said), Shared)
  <2>1. row = jrecords[JournalKey]
    BY <1>2, <1>6 DEF row
  <2>2. Revision(said) = Shared.revision /\ Logged(said) = Shared.log
    BY <1>5, <2>1, RecordIs
  <2> QED BY <1>3, <2>2, Shareds DEF ReadTheLog, Stands
<1>7. ASSUME k.progress = "observer"
      PROVE  ReadThePlace(Revision(said), Place(said), k.place.observer, Shared)
  <2>1. row = jrecords[k.place.observer]
    BY <1>2, <1>7 DEF row
  <2>2. Revision(said) = Shared.placed[k.place.observer] /\ Place(said) = Shared.cursor[k.place.observer]
    BY <1>3, <1>5, <2>1, RecordIs
  <2> QED BY <1>3, <2>2, Shareds DEF ReadThePlace
<1> QED BY <1>1, <1>2, <1>5, <1>6, <1>7, AnsweredKeeps DEF k

LEMMA RefuseKeeps ==
    ASSUME JournalInv, NEW c \in Clients, Journal!Store!Refuse(c),
           UNCHANGED <<Journal!clientVars, shown>>
    PROVE  JournalInv'
<1> DEFINE k == Client(c)
<1>1. /\ jphase[c] = "called" /\ jrequest[c].op = "transact" /\ UNCHANGED jrecords
      /\ \/ ~ Journal!Store!DistinctKeys(jrequest[c].edits)
         \/ Journal!Store!Answered(c, Journal!Store!Conflict)
  BY DEF Journal!Store!Refuse
<1>2. /\ k.progress = "write" /\ k.phase = "called" /\ k.job \in {"append", "checkpoint"}
      /\ jrequest[c].edits = <<Edit(k)>>
  BY <1>1, ServedIs
<1>3. Journal!Store!DistinctKeys(jrequest[c].edits)
  BY <1>2 DEF Journal!Store!DistinctKeys
<1>4. Journal!Store!Conflict.outcome = "conflict"
  BY DEF Journal!Store!Conflict
<1>5. k.job = "append" => Unwritten(c, k.appends, Shared.log)
  BY <1>2, ClientOf DEF ClientOK, AppenderOK
<1> HIDE DEF k, Journal!Store!Conflict
<1> QED BY <1>1, <1>2, <1>3, <1>4, <1>5, AnsweredKeeps DEF k

LEMMA AcknowledgedKeeps ==
    ASSUME JournalInv, NEW c \in Clients, Journal!Store!Acknowledge(c),
           UNCHANGED <<Journal!clientVars, shown>>
    PROVE  JournalInv'
<1> DEFINE k == Client(c)
           said == Journal!Store!Acknowledgement(jrequest[c].edits)
<1>1. jphase[c] = "applied" /\ Journal!Store!Answered(c, said) /\ UNCHANGED jrecords
  BY DEF Journal!Store!Acknowledge
<1>2. /\ k.progress = "write" /\ k.phase = "applied" /\ k.job \in {"append", "checkpoint"}
      /\ jrequest[c].edits = <<Edit(k)>> /\ Edit(k).expected \in Nat
  BY <1>1, ServedIs
<1>3. said.outcome = "ok" /\ said.records[1].revision \in Nat
  <2>1. said.outcome = "ok" /\ said.records[1] = Journal!Store!RecordOf(Edit(k))
    BY <1>2 DEF Journal!Store!Acknowledgement
  <2> QED BY <1>2, <2>1 DEF Journal!Store!RecordOf
<1>4. k.job = "append" => Stands(Edit(k).data, Len(Edit(k).data), Shared.log)
  BY <1>2, ClientOf DEF ClientOK, AppenderOK
<1> HIDE DEF k, said
<1> QED BY <1>1, <1>2, <1>3, <1>4, AnsweredKeeps DEF k

\* An edit of one record.
LEMMA OneEditIsWritten ==
    ASSUME NEW rows, NEW e
    PROVE  Journal!Store!Written(rows, <<e>>, Len(<<e>>)) =
              [x \in {JournalKey} \cup Observers |->
                 IF e.key = x THEN Journal!Store!RecordOf(e) ELSE rows[x]]
<1>1. \A x : (\E i \in 1..Len(<<e>>) : <<e>>[i].key = x) <=> e.key = x
  OBVIOUS
<1>2. \A x : e.key = x => (CHOOSE i \in 1..Len(<<e>>) : <<e>>[i].key = x) = 1
  OBVIOUS
<1> QED BY <1>1, <1>2 DEF Journal!Store!Written

\* What the edit of a process finds and leaves.
LEMMA AppliedIs ==
    ASSUME Journal!JournalAssumption, JournalInv, NEW c \in Clients, Journal!Store!Apply(c),
           UNCHANGED <<Journal!clientVars, shown>>
    PROVE  LET k == Client(c)  e == Edit(k) IN
           /\ k.progress = "write" /\ k.phase = "called" /\ k.job \in {"append", "checkpoint"}
           /\ e.expected \in Nat
           /\ e.key \in {JournalKey} \cup Observers => RevisionIn(jrecords[e.key]) = e.expected
           /\ jrecords' = [x \in {JournalKey} \cup Observers |->
                             IF e.key = x THEN [revision |-> e.expected + 1, data |-> e.data]
                             ELSE jrecords[x]]
           /\ Of(c)
           /\ Client(c)'.phase = "applied" /\ Client(c)'.job = k.job
           /\ Client(c)'.progress = k.progress /\ Client(c)'.request = k.request
           /\ Client(c)'.answer = k.answer /\ Client(c)'.batch = k.batch
           /\ Client(c)'.place = k.place /\ Client(c)'.page = k.page /\ Client(c)'.tail = k.tail
           /\ Client(c)'.told = k.told /\ Client(c)'.appends = k.appends
<1> DEFINE k == Client(c)
           r == Client(c)'
           e == Edit(k)
<1>d. Domains
  BY DEF JournalInv
<1>1. /\ jphase[c] = "called" /\ jrequest[c].op = "transact"
      /\ Journal!Store!Matches(jrecords, jrequest[c].edits)
      /\ jrecords' = Journal!Store!Written(jrecords, jrequest[c].edits, Len(jrequest[c].edits))
      /\ jphase' = [jphase EXCEPT ![c] = "applied"] /\ UNCHANGED <<jrequest, janswer>>
  BY DEF Journal!Store!Apply
<1>2. /\ k.progress = "write" /\ k.phase = "called" /\ k.job \in {"append", "checkpoint"}
      /\ jrequest[c].edits = <<e>> /\ e.expected \in Nat
  BY <1>1, ServedIs
<1>3. /\ r.phase = "applied" /\ r.job = k.job /\ r.progress = k.progress /\ r.request = k.request
      /\ r.answer = k.answer /\ r.batch = k.batch /\ r.place = k.place /\ r.page = k.page
      /\ r.tail = k.tail /\ r.told = k.told /\ r.appends = k.appends
  BY <1>d, <1>1 DEF Domains, Client, Journal!clientVars
<1>4. jrecords' = [x \in {JournalKey} \cup Observers |->
                     IF e.key = x THEN Journal!Store!RecordOf(e) ELSE jrecords[x]]
  BY <1>1, <1>2, OneEditIsWritten, SMTT(20)
<1>5. Journal!Store!RecordOf(e) = [revision |-> e.expected + 1, data |-> e.data]
  BY DEF Journal!Store!RecordOf
<1>6. Of(c)
  BY <1>d, <1>1, <1>4 DEF Of, Domains, Client, Journal!clientVars
<1>7. RevisionIn(jrecords[e.key]) = e.expected
  <2>1. /\ 1 \in DOMAIN jrequest[c].edits /\ jrequest[c].edits[1] = e
    BY <1>2
  <2> QED BY <1>1, <2>1 DEF Journal!Store!Matches, Journal!Store!RevisionOf, RevisionIn
<1> HIDE DEF e
<1> QED BY <1>2, <1>3, <1>4, <1>5, <1>6, <1>7 DEF e

\* A log goes on with a batch of an attempt that is not in it.
OfAttempt(events, c, n) == \A i \in 1..Len(events) : events[i].by = c /\ events[i].attempt = n

GrownBy(c, n, log, more, grown) ==
    /\ IsLog(grown) /\ Len(grown) = Len(log) + Len(more) /\ Stands(log, Len(log), grown)
    /\ \A i \in Len(log) + 1..Len(grown) : grown[i].by = c
    /\ Unwritten(c, n + 1, grown)

LEMMA LogGoesOn ==
    ASSUME NEW log, IsLog(log), NEW c, NEW n \in Nat, Unwritten(c, n, log),
           NEW more \in Journal!Batches, OfAttempt(more, c, n)
    PROVE  GrownBy(c, n, log, more, Journal!Updated(log, more))
<1> DEFINE grown == Journal!Updated(log, more)
<1>1. /\ more \in Seq(Event) /\ Len(more) \in Nat
      /\ \A i \in 1..Len(more) : more[i].part = i /\ more[i].sequence = 0
  BY BatchesAreEvents
<1>2. log \in Seq(Event) /\ Len(log) \in Nat
  BY DEF IsLog
<1>3. /\ grown \in Seq(Event) /\ Len(grown) = Len(log) + Len(more)
      /\ \A i \in 1..Len(log) : grown[i] = log[i]
      /\ \A i \in 1..Len(more) : grown[Len(log) + i] = At(more[i], Len(log) + i)
  BY <1>1, <1>2, UpdatedIsALog
<1> HIDE DEF grown
<1>4. \A i \in 1..Len(more) :
         LET e == grown[Len(log) + i] IN
         e.sequence = Len(log) + i /\ e.by = c /\ e.attempt = n /\ e.part = i
  <2> TAKE i \in 1..Len(more)
  <2>1. more[i] \in Event
    BY <1>1
  <2>2. /\ At(more[i], Len(log) + i).sequence = Len(log) + i
        /\ At(more[i], Len(log) + i).by = more[i].by
        /\ At(more[i], Len(log) + i).attempt = more[i].attempt
        /\ At(more[i], Len(log) + i).part = more[i].part
    BY ONLY <2>1 DEF At, Event, Journal!Events
  <2> QED BY <1>1, <1>3, <2>2 DEF OfAttempt
<1>5. \A i \in 1..Len(grown) : i \in 1..Len(log) \/ (i - Len(log) \in 1..Len(more) /\ Len(log) + (i - Len(log)) = i)
  BY <1>1, <1>2, <1>3
<1>6. \A i \in 1..Len(grown) :
         \/ i \in 1..Len(log) /\ grown[i] = log[i]
         \/ /\ i > Len(log) /\ grown[i].sequence = i /\ grown[i].by = c /\ grown[i].attempt = n
            /\ grown[i].part = i - Len(log)
  <2> TAKE i \in 1..Len(grown)
  <2>1. CASE i \in 1..Len(log)
    BY <1>3, <2>1
  <2>2. CASE i - Len(log) \in 1..Len(more) /\ Len(log) + (i - Len(log)) = i
    <3> DEFINE j == i - Len(log)
    <3>1. j \in 1..Len(more) /\ Len(log) + j = i /\ i > Len(log)
      BY <1>2, <2>2
    <3> HIDE DEF j
    <3>2. /\ grown[Len(log) + j].sequence = Len(log) + j /\ grown[Len(log) + j].by = c
          /\ grown[Len(log) + j].attempt = n /\ grown[Len(log) + j].part = j
      BY ONLY <1>4, <3>1
    <3>3. grown[i].sequence = i /\ grown[i].by = c /\ grown[i].attempt = n /\ grown[i].part = j
      BY ONLY <3>1, <3>2
    <3> QED BY <3>1, <3>3 DEF j
  <2> QED BY <1>5, <2>1, <2>2
<1>7. \A i \in 1..Len(log) : log[i].attempt \in Int
  <2>1. \A i \in 1..Len(log) : log[i] \in Event
    BY <1>2
  <2> QED BY <2>1 DEF Event, Journal!Events
<1>8. \A i \in 1..Len(grown) : grown[i].sequence = i
  BY <1>6 DEF IsLog
<1>9. \A i, j \in 1..Len(grown) :
         grown[i].by = grown[j].by /\ grown[i].attempt = grown[j].attempt /\ grown[i].part = grown[j].part => i = j
  <2> SUFFICES ASSUME NEW i \in 1..Len(grown), NEW j \in 1..Len(grown), grown[i].by = grown[j].by,
                      grown[i].attempt = grown[j].attempt, grown[i].part = grown[j].part
               PROVE  i = j
    OBVIOUS
  <2>1. CASE i \in 1..Len(log) /\ j \in 1..Len(log)
    BY <1>3, <2>1 DEF IsLog
  <2>2. CASE i \in 1..Len(log) /\ j \notin 1..Len(log)
    <3>1. grown[i] = log[i] /\ grown[j].by = c /\ grown[j].attempt = n
      BY <1>6, <2>2
    <3> QED BY <1>7, <2>2, <3>1 DEF Unwritten
  <2>3. CASE i \notin 1..Len(log) /\ j \in 1..Len(log)
    <3>1. grown[j] = log[j] /\ grown[i].by = c /\ grown[i].attempt = n
      BY <1>6, <2>3
    <3> QED BY <1>7, <2>3, <3>1 DEF Unwritten
  <2>4. CASE i \notin 1..Len(log) /\ j \notin 1..Len(log)
    <3>1. grown[i].part = i - Len(log) /\ grown[j].part = j - Len(log)
      BY <1>6, <2>4
    <3>2. i - Len(log) = j - Len(log)
      BY ONLY <3>1, grown[i].part = grown[j].part
    <3>3. i \in Int /\ j \in Int
      OBVIOUS
    <3> QED BY ONLY <1>2, <3>2, <3>3
  <2> QED BY <2>1, <2>2, <2>3, <2>4
<1>10. Unwritten(c, n + 1, grown)
  BY <1>6, <1>7 DEF Unwritten
<1>11. \A i \in Len(log) + 1..Len(grown) : grown[i].by = c
  <2> TAKE i \in Len(log) + 1..Len(grown)
  <2>1. i \in 1..Len(grown) /\ ~ (i \in 1..Len(log))
    BY <1>2, <1>3, <1>1
  <2> QED BY <1>6, <2>1
<1>12. IsLog(grown)
  BY <1>3, <1>8, <1>9 DEF IsLog
<1>13. Stands(log, Len(log), grown)
  BY <1>1, <1>2, <1>3 DEF Stands
<1>14. GrownBy(c, n, log, more, grown)
  BY <1>3, <1>10, <1>11, <1>12, <1>13 DEF GrownBy
<1> QED BY <1>14 DEF grown

\* What an applied edit of an append does to the log.
LEMMA AppendApplied ==
    ASSUME Journal!JournalAssumption, JournalInv, NEW c \in Clients, Journal!Store!Apply(c),
           UNCHANGED <<Journal!clientVars, shown>>, Client(c).job = "append"
    PROVE  JournalInv' /\ Journal!LogStep
<1> DEFINE k == Client(c)
           r == Client(c)'
           w == Shared
           v == Shared'
           e == Edit(k)
<1>k. ClientOK(c, k, w) /\ ClientType(k) /\ SharedOK(w)
  BY ClientOf
<1>d. Domains /\ RecordsOK
  BY DEF JournalInv
<1>1. /\ k.progress = "write" /\ k.phase = "called" /\ k.job = "append" /\ e.expected \in Nat
      /\ e.key \in {JournalKey} \cup Observers => RevisionIn(jrecords[e.key]) = e.expected
      /\ jrecords' = [x \in {JournalKey} \cup Observers |->
                        IF e.key = x THEN [revision |-> e.expected + 1, data |-> e.data]
                        ELSE jrecords[x]]
      /\ Of(c)
      /\ r.phase = "applied" /\ r.job = k.job /\ r.progress = k.progress /\ r.request = k.request
      /\ r.answer = k.answer /\ r.batch = k.batch /\ r.place = k.place /\ r.page = k.page
      /\ r.tail = k.tail /\ r.told = k.told /\ r.appends = k.appends
  BY AppliedIs
<1>w. /\ w.revision = RevisionIn(jrecords[JournalKey]) /\ w.log = Journal!log
      /\ w.cursor = Journal!cursor /\ w.shown = shown
      /\ w.placed = [o \in Observers |-> RevisionIn(jrecords[o])]
  BY DEF Shared
<1>v. /\ v.revision = RevisionIn(jrecords[JournalKey]') /\ v.log = Journal!log'
      /\ v.cursor = Journal!cursor' /\ v.shown = shown'
      /\ v.placed = [o \in Observers |-> RevisionIn(jrecords[o]')]
  BY DEF Shared, RevisionIn
<1>2. /\ AppenderOK(c, k, w) /\ WriterOK(k, w) /\ Unwritten(c, k.appends, w.log)
      /\ k.batch \in Journal!Batches /\ e.key = JournalKey
      /\ \A i \in 1..Len(k.batch) : k.batch[i].by = c /\ k.batch[i].attempt = k.appends
      /\ k.told.outcome = "none" /\ k.appends \in Nat /\ k.tail \in Nat /\ k.tail <= Len(w.log)
  BY <1>k, <1>1, ClientTypes DEF ClientOK, AppenderOK
<1>3. PICK events \in Seq(Event) : /\ e.data = Journal!Updated(events, k.batch)
                                   /\ ReadTheLog(e.expected, events, w)
  BY <1>1, <1>2 DEF AppenderOK
<1>4. e.expected = w.revision /\ events = w.log /\ e.data = Journal!Updated(w.log, k.batch)
  BY <1>1, <1>2, <1>3, <1>w DEF ReadTheLog
<1> HIDE DEF k, r, w, v, e
<1>5. /\ IsLog(e.data) /\ Len(e.data) = Len(w.log) + Len(k.batch)
      /\ Stands(w.log, Len(w.log), e.data)
      /\ \A i \in Len(w.log) + 1..Len(e.data) : e.data[i].by = c
      /\ Unwritten(c, k.appends + 1, e.data)
  <2>1. IsLog(w.log)
    BY <1>k DEF SharedOK
  <2>2. OfAttempt(k.batch, c, k.appends)
    BY <1>2 DEF OfAttempt
  <2>3. k.batch \in Journal!Batches /\ k.appends \in Nat /\ Unwritten(c, k.appends, w.log)
    BY <1>2
  <2>4. e.data = Journal!Updated(w.log, k.batch)
    BY <1>4
  <2>5. GrownBy(c, k.appends, w.log, k.batch, e.data)
    BY <2>1, <2>2, <2>3, <2>4, LogGoesOn
  <2> QED BY <2>5 DEF GrownBy
<1>l. /\ e.data \in Seq(Event) /\ w.log \in Seq(Event)
      /\ Len(w.log) \in Nat /\ Len(e.data) \in Nat /\ Len(w.log) <= Len(e.data)
  <2>1. e.data \in Seq(Event) /\ w.log \in Seq(Event)
    BY <1>k, <1>5 DEF IsLog, SharedOK
  <2>2. Len(w.log) \in Nat /\ Len(e.data) \in Nat
    BY <2>1
  <2>3. Len(w.log) <= Len(e.data)
    BY ONLY <1>5 DEF Stands
  <2> QED BY <2>1, <2>2, <2>3
<1>6. /\ JournalKey \notin Observers
      /\ NoRecord # [revision |-> e.expected + 1, data |-> e.data]
  <2>1. e.data \in Seq(Event) /\ e.expected + 1 \in Nat
    BY <1>1, <1>5 DEF IsLog
  <2>2. [revision |-> e.expected + 1, data |-> e.data] \in [revision : Nat, data : Seq(Event) \cup Nat]
    BY <2>1
  <2> QED BY <2>2 DEF Journal!JournalAssumption, Event
<1>7. /\ jrecords'[JournalKey] = [revision |-> e.expected + 1, data |-> e.data]
      /\ \A o \in Observers : jrecords'[o] = jrecords[o]
  BY <1>1, <1>2, <1>6
<1>8. Journal!log' = e.data /\ Journal!cursor' = Journal!cursor
  <2>1. Journal!log' = e.data
    BY <1>6, <1>7 DEF Journal!log
  <2>2. Journal!cursor' = Journal!cursor
    BY <1>7 DEF Journal!cursor
  <2> QED BY <2>1, <2>2
<1>9. /\ v.log = e.data /\ v.revision = e.expected + 1 /\ v.cursor = w.cursor
      /\ v.placed = w.placed /\ v.shown = w.shown
  BY <1>6, <1>7, <1>8, <1>v, <1>w DEF RevisionIn
<1>10. SharedOK(v)
  <2>2. IsLog(v.log) /\ v.revision \in Nat
    BY <1>1, <1>5, <1>9
  <2>3. \A o \in Observers : v.cursor[o] <= Len(v.log) /\ 1..v.cursor[o] \subseteq v.shown[o]
    BY <1>k, <1>9, <1>l, Shareds DEF SharedOK
  <2> QED BY <1>k, <1>9, <2>2, <2>3 DEF SharedOK
<1>11. Later(w, v) /\ \A d \in Clients : d # c => ByOthers(d, w, v)
  <2>1. Later(w, v)
    <3>1. Later(w, w)
      BY <1>k, Unchanged
    <3>2. w.revision < v.revision /\ w.revision \in Nat /\ v.revision \in Nat
      BY <1>1, <1>4, <1>9
    <3> QED BY <1>5, <1>9, <3>1, <3>2 DEF Later
  <2> QED BY <1>5, <1>9, <2>1 DEF ByOthers
<1>12. ClientOK(c, r, v)
  <2>1. Edit(r) = e
    BY <1>1 DEF Edit, e
  <2>2. ClientType(r)
    BY <1>k, <1>1 DEF ClientType
  <2>3. r.tail <= Len(v.log) /\ Unwritten(c, r.appends + 1, v.log)
    <3>1. r.tail = k.tail /\ r.appends = k.appends /\ v.log = e.data
      BY <1>1, <1>9
    <3>2. k.tail \in Nat /\ k.tail <= Len(w.log)
      BY <1>2
    <3>3. Unwritten(c, k.appends + 1, e.data)
      BY <1>5
    <3> QED BY ONLY <1>l, <3>1, <3>2, <3>3
  <2>4. AppenderOK(c, r, v)
    <3>1. Stands(e.data, Len(e.data), v.log)
      BY <1>9, <1>l DEF Stands
    <3> QED BY <1>1, <1>2, <1>3, <2>1, <3>1 DEF AppenderOK
  <2>5. WriterOK(r, v)
    <3>1. k.request.op = "transact" /\ k.request.edits = <<Edit(k)>> /\ Edit(k) = e
      BY <1>1, <1>2 DEF WriterOK, e
    <3> QED BY <1>1, <2>1, <3>1 DEF WriterOK
  <2>6. RendererOK(r, v) /\ ToldOK(c, r, v)
    BY <1>1, <1>2 DEF RendererOK, ToldOK
  <2> QED BY <1>1, <2>2, <2>3, <2>4, <2>5, <2>6, WritingIsOK
<1>13. RecordsOK'
  <2>1. jrecords'[JournalKey] \in StoredRow(Seq(Event))
    <3>1. e.data \in Seq(Event) /\ e.expected + 1 \in Nat \ {0}
      BY <1>1, <1>5 DEF IsLog
    <3> QED BY <1>7, <3>1 DEF StoredRow
  <2> QED BY <1>d, <1>7, <2>1 DEF RecordsOK
<1>14. JournalInv'
  BY <1>1, <1>10, <1>11, <1>12, <1>13, OneProcessKeeps DEF r, w, v
<1>15. Journal!Extend(k.batch)
  <2>1. Journal!Updated(w.log, k.batch) = w.log \o Journal!Numbered(Len(w.log), k.batch)
    BY DEF Journal!Updated, Journal!Numbered
  <2> QED BY <1>4, <1>8, <1>w, <2>1 DEF Journal!Extend
<1> QED BY <1>2, <1>14, <1>15 DEF Journal!LogStep

\* What an applied checkpoint does to the place of its observer.
LEMMA CheckpointApplied ==
    ASSUME Journal!JournalAssumption, JournalInv, NEW c \in Clients, Journal!Store!Apply(c),
           UNCHANGED <<Journal!clientVars, shown>>, Client(c).job = "checkpoint"
    PROVE  JournalInv' /\ Journal!LogStep
<1> DEFINE k == Client(c)
           r == Client(c)'
           w == Shared
           v == Shared'
           e == Edit(k)
           o == k.place.observer
           newest == LastOf(k.page)
<1>k. ClientOK(c, k, w) /\ ClientType(k) /\ SharedOK(w)
  BY ClientOf
<1>d. Domains /\ RecordsOK
  BY DEF JournalInv
<1>1. /\ k.progress = "write" /\ k.phase = "called" /\ k.job = "checkpoint" /\ e.expected \in Nat
      /\ e.key \in {JournalKey} \cup Observers => RevisionIn(jrecords[e.key]) = e.expected
      /\ jrecords' = [x \in {JournalKey} \cup Observers |->
                        IF e.key = x THEN [revision |-> e.expected + 1, data |-> e.data]
                        ELSE jrecords[x]]
      /\ Of(c)
      /\ r.phase = "applied" /\ r.job = k.job /\ r.progress = k.progress /\ r.request = k.request
      /\ r.answer = k.answer /\ r.batch = k.batch /\ r.place = k.place /\ r.page = k.page
      /\ r.tail = k.tail /\ r.told = k.told /\ r.appends = k.appends
  BY AppliedIs
<1>w. /\ w.revision = RevisionIn(jrecords[JournalKey]) /\ w.log = Journal!log
      /\ w.cursor = Journal!cursor /\ w.shown = shown
      /\ w.placed = [p \in Observers |-> RevisionIn(jrecords[p])]
  BY DEF Shared
<1>v. /\ v.revision = RevisionIn(jrecords[JournalKey]') /\ v.log = Journal!log'
      /\ v.cursor = Journal!cursor' /\ v.shown = shown'
      /\ v.placed = [p \in Observers |-> RevisionIn(jrecords[p]')]
  BY DEF Shared, RevisionIn
<1>2. /\ RendererOK(k, w) /\ WriterOK(k, w) /\ o \in Observers /\ k.page # <<>> /\ newest \in Nat
  BY <1>k, <1>1, ClientTypes DEF ClientOK, RendererOK
<1>3. /\ e.key = o /\ e.data = newest /\ newest <= Len(w.log) /\ 1..newest \subseteq w.shown[o]
      /\ (e.expected = w.placed[o] => w.cursor[o] < newest)
  BY <1>1, <1>2 DEF RendererOK
<1>4. e.expected = w.placed[o] /\ w.cursor[o] < newest /\ w.cursor[o] \in Nat
  BY <1>1, <1>2, <1>3, <1>w, <1>k, Shareds
<1> HIDE DEF k, r, w, v, e, o, newest
<1>6. /\ JournalKey # o
      /\ NoRecord # [revision |-> e.expected + 1, data |-> newest]
  <2>2. [revision |-> e.expected + 1, data |-> newest] \in [revision : Nat, data : Seq(Event) \cup Nat]
    BY <1>1, <1>2
  <2> QED BY <1>2, <2>2 DEF Journal!JournalAssumption, Event
<1>7. /\ jrecords'[o] = [revision |-> e.expected + 1, data |-> newest]
      /\ jrecords'[JournalKey] = jrecords[JournalKey]
      /\ \A p \in Observers : p # o => jrecords'[p] = jrecords[p]
  BY <1>1, <1>2, <1>3, <1>6
<1>8. Journal!log' = Journal!log /\ Journal!cursor' = [Journal!cursor EXCEPT ![o] = newest]
  <2>1. Journal!log' = Journal!log
    BY <1>7 DEF Journal!log
  <2>2. Journal!cursor' = [Journal!cursor EXCEPT ![o] = newest]
    <3>1. Journal!cursor' = [p \in Observers |-> IF jrecords'[p] = NoRecord THEN 0 ELSE jrecords'[p].data]
      BY DEF Journal!cursor
    <3>2. Journal!cursor = [p \in Observers |-> IF jrecords[p] = NoRecord THEN 0 ELSE jrecords[p].data]
      BY DEF Journal!cursor
    <3>3. jrecords'[o] # NoRecord /\ jrecords'[o].data = newest
      BY <1>6, <1>7
    <3> HIDE DEF Journal!cursor
    <3>4. \A p \in Observers : Journal!cursor'[p] = IF p = o THEN newest ELSE Journal!cursor[p]
      BY <1>7, <3>1, <3>2, <3>3
    <3>5. Journal!cursor' = [p \in Observers |-> IF p = o THEN newest ELSE Journal!cursor[p]]
      BY <3>1, <3>4
    <3> QED BY <1>2, <3>2, <3>5
  <2> QED BY <2>1, <2>2
<1>9. /\ v.log = w.log /\ v.revision = w.revision /\ v.shown = w.shown
      /\ v.cursor = [w.cursor EXCEPT ![o] = newest]
      /\ v.placed = [w.placed EXCEPT ![o] = e.expected + 1]
  <2>1. v.placed = [w.placed EXCEPT ![o] = e.expected + 1]
    BY <1>2, <1>6, <1>7, <1>v, <1>w DEF RevisionIn
  <2> QED BY <1>7, <1>8, <1>v, <1>w, <2>1
<1>10. SharedOK(v)
  <2>1. v.cursor \in [Observers -> Nat] /\ v.placed \in [Observers -> Nat]
    BY <1>k, <1>1, <1>2, <1>9 DEF SharedOK
  <2>2. \A p \in Observers : v.cursor[p] <= Len(v.log) /\ 1..v.cursor[p] \subseteq v.shown[p]
    BY <1>k, <1>2, <1>3, <1>9 DEF SharedOK
  <2> QED BY <1>k, <1>9, <2>1, <2>2 DEF SharedOK
<1>11. Later(w, v) /\ \A d \in Clients : ByOthers(d, w, v)
  <2>1. Later(w, w) /\ \A d \in Clients : ByOthers(d, w, w)
    BY <1>k, Unchanged
  <2>2. \A p \in Observers : /\ w.cursor[p] <= v.cursor[p] /\ w.placed[p] <= v.placed[p]
                             /\ w.placed[p] = v.placed[p] => v.cursor[p] = w.cursor[p]
    BY <1>k, <1>2, <1>4, <1>9, Shareds DEF SharedOK
  <2>3. Later(w, v)
    BY <1>9, <2>1, <2>2 DEF Later
  <2> QED BY <1>9, <2>1, <2>3 DEF ByOthers
<1>12. ClientOK(c, r, v)
  <2>1. Edit(r) = e
    BY <1>1 DEF Edit, e
  <2>2. ClientOK(c, k, v)
    BY <1>k, <1>10, <1>11, ClientEndures
  <2>3. ClientType(r) /\ r.tail <= Len(v.log) /\ Unwritten(c, r.appends + 1, v.log) /\ ToldOK(c, r, v)
    BY <1>1, <2>2 DEF ClientType, ClientOK, ToldOK
  <2>4. AppenderOK(c, r, v)
    BY <1>1 DEF AppenderOK
  <2>5. WriterOK(r, v)
    <3>1. k.request.op = "transact" /\ k.request.edits = <<Edit(k)>> /\ Edit(k) = e
      BY <1>1, <1>2 DEF WriterOK, e
    <3> QED BY <1>1, <2>1, <3>1 DEF WriterOK
  <2>6. RendererOK(r, v)
    <3>1. RendererOK(k, v) /\ Edit(k) = e
      BY <2>2 DEF ClientOK, e
    <3> QED BY <1>1, <2>1, <3>1 DEF RendererOK
  <2> QED BY <1>1, <2>3, <2>4, <2>5, <2>6, WritingIsOK
<1>13. RecordsOK'
  <2>1. jrecords'[o] \in StoredRow(Nat)
    BY <1>1, <1>2, <1>7 DEF StoredRow
  <2> QED BY <1>d, <1>7, <2>1 DEF RecordsOK
<1>14. JournalInv'
  BY <1>1, <1>10, <1>11, <1>12, <1>13, OneProcessKeeps DEF r, w, v
<1>15. Journal!Advance(o, newest) /\ newest \in 1..Len(Journal!log)
  <2>1. newest \in (Journal!cursor[o] + 1)..Len(Journal!log) /\ newest \in 1..Len(Journal!log)
    BY <1>2, <1>3, <1>4, <1>w, <1>k, Shareds
  <2> QED BY <1>8, <2>1 DEF Journal!Advance
<1> QED BY <1>2, <1>14, <1>15 DEF Journal!LogStep

\* A step that leaves the records leaves the log and the places.
LEMMA RecordsLeaveTheLog ==
    ASSUME UNCHANGED jrecords
    PROVE  Journal!LogStep
<1>1. UNCHANGED <<Journal!log, Journal!cursor>>
  BY DEF Journal!log, Journal!cursor
<1> QED BY <1>1 DEF Journal!LogStep

\* The store's part of a step.
LEMMA ServeKeeps ==
    ASSUME Journal!JournalAssumption, JournalInv, NEW c \in Clients, Journal!Serve(c)
    PROVE  JournalInv' /\ Journal!LogStep
<1>u. UNCHANGED <<Journal!clientVars, shown>>
  BY DEF Journal!Serve
<1>1. CASE Journal!Store!Apply(c)
  <2>1. Client(c).job \in {"append", "checkpoint"}
    BY <1>u, <1>1, AppliedIs
  <2>2. CASE Client(c).job = "append"
    BY <1>u, <1>1, <2>2, AppendApplied
  <2>3. CASE Client(c).job = "checkpoint"
    BY <1>u, <1>1, <2>3, CheckpointApplied
  <2> QED BY <2>1, <2>2, <2>3
<1>2. CASE Journal!Store!Read(c) \/ Journal!Store!Refuse(c) \/ Journal!Store!Acknowledge(c)
              \/ Journal!Store!Fail(c)
  <2>1. JournalInv'
    BY <1>u, <1>2, ReadKeeps, RefuseKeeps, AcknowledgedKeeps, FailKeeps
  <2>2. UNCHANGED jrecords
    BY <1>2 DEF Journal!Store!Read, Journal!Store!Refuse, Journal!Store!Acknowledge, Journal!Store!Fail
  <2> QED BY <2>1, <2>2, RecordsLeaveTheLog
<1> QED BY <1>1, <1>2 DEF Journal!Serve

\* A process changes what it keeps for itself, and not the records.
IsMap(f) == f = [c \in Clients |-> f[c]]

Kept(f, g) == g = f \/ \E c \in Clients : \E x : g = [f EXCEPT ![c] = x]

Maps == IsMap(jjob) /\ IsMap(progress) /\ IsMap(place) /\ IsMap(tail) /\ IsMap(told)

AllKept ==
    /\ Kept(jjob, jjob') /\ Kept(progress, progress') /\ Kept(place, place')
    /\ Kept(tail, tail') /\ Kept(told, told')

LEMMA MapsStay ==
    ASSUME Maps, AllKept
    PROVE  Maps'
<1>1. ASSUME NEW f, NEW g, IsMap(f), Kept(f, g) PROVE IsMap(g)
  BY <1>1 DEF IsMap, Kept
<1> QED BY <1>1 DEF Maps, AllKept, IsMap

LEMMA EndsAreKept ==
    ASSUME NEW c \in Clients, Journal!End(c)
    PROVE  UNCHANGED jrecords /\ Kept(jjob, jjob') /\ Kept(progress, progress')
  BY DEF Journal!End, Journal!storeVars, Kept

LEMMA BeginsAreKept ==
    ASSUME NEW c \in Clients, NEW doing, Journal!Begin(c, doing)
    PROVE  UNCHANGED jrecords /\ Kept(jjob, jjob') /\ Kept(progress, progress')
  BY DEF Journal!Begin, Journal!AskFor, Journal!Store!Call, Kept

LEMMA TellsAreKept ==
    ASSUME NEW c \in Clients, NEW outcome, NEW count, Journal!Tell(c, outcome, count)
    PROVE  UNCHANGED jrecords /\ AllKept
<1>1. Journal!End(c) /\ UNCHANGED <<place, tail>> /\ Kept(told, told')
  BY DEF Journal!Tell, Kept
<1> QED BY <1>1, EndsAreKept DEF AllKept, Kept

LEMMA PlacesAreKept ==
    ASSUME NEW c \in Clients, NEW after, NEW n, Journal!Placed(c, after, n), DOMAIN place = Clients
    PROVE  UNCHANGED jrecords /\ AllKept
<1>1. Journal!Begin(c, "page") /\ UNCHANGED <<tail, told>>
  BY DEF Journal!Placed
<1>2. Kept(place, place')
  <2> DEFINE halfway == [place[c] EXCEPT !.after = after]
             there == [halfway EXCEPT !.revision = n]
             once == [place EXCEPT ![c] = halfway]
  <2>1. place' = [once EXCEPT ![c] = [@ EXCEPT !.revision = n]]
    BY DEF Journal!Placed
  <2>2. once[c] = halfway
    OBVIOUS
  <2> HIDE DEF halfway
  <2>3. place' = [place EXCEPT ![c] = there]
    BY <2>1, <2>2
  <2> QED BY <2>3 DEF Kept
<1> QED BY <1>1, <1>2, BeginsAreKept DEF AllKept, Kept

\* What a process does when the store has answered, or of itself.
ClientStep(c) ==
    \/ \E events \in Journal!Batches \cup Journal!Forged \cup {<<>>} : Journal!StartAppend(c, events)
    \/ Journal!AppendLoaded(c) \/ Journal!AppendWritten(c) \/ Journal!AppendFailed(c)
    \/ \E o \in Observers : Journal!StartRender(c, o)
    \/ Journal!TailLoaded(c) \/ Journal!ObserverLoaded(c) \/ Journal!PageLoaded(c)
    \/ Journal!CheckpointLoaded(c) \/ Journal!CheckpointWritten(c) \/ Journal!RenderFails(c)
    \/ Journal!Die(c)

LEMMA ClientStepKeeps ==
    ASSUME Journal!JournalAssumption, JournalInv, NEW c \in Clients, ClientStep(c)
    PROVE  JournalInv'
  BY StartAppendKeeps, StartRenderKeeps, AppendLoadedKeeps, AppendWrittenKeeps, AppendFailedKeeps,
     TailLoadedKeeps, ObserverLoadedKeeps, PageLoadedKeeps, CheckpointLoadedKeeps,
     CheckpointWrittenKeeps, RenderFailsKeeps, DieKeeps DEF ClientStep

LEMMA ClientStepIsKept ==
    ASSUME JournalInv, NEW c \in Clients, ClientStep(c)
    PROVE  UNCHANGED jrecords /\ AllKept
<1>d. DOMAIN place = Clients
  BY DEF JournalInv, Domains
<1>1. ASSUME NEW events, Journal!StartAppend(c, events) PROVE UNCHANGED jrecords /\ AllKept
  <2>1. Journal!Begin(c, "append") /\ UNCHANGED <<place, tail>> /\ Kept(told, told')
    BY <1>1 DEF Journal!StartAppend, Kept
  <2> QED BY <2>1, BeginsAreKept DEF AllKept, Kept
<1>2. ASSUME NEW o, Journal!StartRender(c, o) PROVE UNCHANGED jrecords /\ AllKept
  <2>1. Journal!Begin(c, "observer") /\ UNCHANGED <<tail, told>> /\ Kept(place, place')
    BY <1>2 DEF Journal!StartRender, Kept
  <2> QED BY <2>1, BeginsAreKept DEF AllKept, Kept
<1>3. CASE Journal!AppendLoaded(c)
  <2>1. CASE \E outcome, count : Journal!Tell(c, outcome, count)
    BY <2>1, TellsAreKept
  <2>2. CASE /\ progress' = [progress EXCEPT ![c] = "write"] /\ UNCHANGED <<jjob, place, tail, told>>
             /\ UNCHANGED jrecords
    BY <2>2 DEF AllKept, Kept
  <2> QED BY <1>3, <2>1, <2>2 DEF Journal!AppendLoaded, Journal!Submit, Journal!Store!Call
<1>4. CASE Journal!AppendWritten(c) \/ Journal!AppendFailed(c)
  BY <1>4, TellsAreKept DEF Journal!AppendWritten, Journal!AppendFailed
<1>5. CASE Journal!TailLoaded(c)
  BY <1>5 DEF Journal!TailLoaded, Journal!AskFor, Journal!Store!Call, AllKept, Kept
<1>6. CASE Journal!ObserverLoaded(c) \/ Journal!CheckpointWritten(c)
  BY <1>d, <1>6, PlacesAreKept DEF Journal!ObserverLoaded, Journal!CheckpointWritten
<1>7. CASE Journal!PageLoaded(c)
  <2>1. UNCHANGED <<place, tail, told>> /\ (Journal!End(c) \/ Journal!Begin(c, "checkpoint"))
    BY <1>7 DEF Journal!PageLoaded
  <2> QED BY <2>1, EndsAreKept, BeginsAreKept DEF AllKept, Kept
<1>8. CASE Journal!CheckpointLoaded(c)
  <2>1. CASE \E after, n : Journal!Placed(c, after, n)
    BY <1>d, <2>1, PlacesAreKept
  <2>2. CASE /\ progress' = [progress EXCEPT ![c] = "write"] /\ UNCHANGED <<jjob, place, tail, told>>
             /\ UNCHANGED jrecords
    BY <2>2 DEF AllKept, Kept
  <2> QED BY <1>8, <2>1, <2>2 DEF Journal!CheckpointLoaded, Journal!Submit, Journal!Store!Call
<1>9. CASE Journal!RenderFails(c) \/ Journal!Die(c)
  <2>1. UNCHANGED <<place, tail, told>> /\ Journal!End(c)
    BY <1>9 DEF Journal!RenderFails, Journal!Die
  <2> QED BY <2>1, EndsAreKept DEF AllKept, Kept
<1> QED BY <1>1, <1>2, <1>3, <1>4, <1>5, <1>6, <1>7, <1>8, <1>9 DEF ClientStep

LEMMA JournalStarts ==
    ASSUME Journal!Init
    PROVE  JournalInv /\ Maps
<1> USE DEF Journal!Init
<1>1. Domains /\ Maps
  BY DEF Domains, Maps, IsMap
<1>2. RecordsOK
  BY DEF RecordsOK
<1>3. /\ Shared.log = <<>> /\ Shared.revision = 0 /\ Shared.shown = [o \in Observers |-> {}]
      /\ Shared.cursor = [o \in Observers |-> 0] /\ Shared.placed = [o \in Observers |-> 0]
  BY DEF Shared, RevisionIn, Journal!log, Journal!cursor
<1>4. SharedOK(Shared)
  BY <1>3 DEF SharedOK, IsLog
<1>5. ASSUME NEW c \in Clients PROVE ClientOK(c, Client(c), Shared)
  <2>1. LET k == Client(c) IN
        /\ k.job = "none" /\ k.progress = "journal" /\ k.phase = "idle" /\ k.batch = <<>>
        /\ k.place \in [observer : Observers, after : {0}, revision : {0}] /\ k.page = <<>>
        /\ k.tail = 0 /\ k.told = [outcome |-> "none", count |-> 0] /\ k.appends = 0
    BY FieldsOf
  <2>2. ClientType(Client(c))
    BY <2>1 DEF ClientType, Outcomes
  <2>3. Client(c).tail <= Len(Shared.log) /\ Unwritten(c, Client(c).appends + 1, Shared.log)
    BY <1>3, <2>1 DEF Unwritten
  <2>4. /\ ReaderOK(Client(c), Shared) /\ ObserverOK(Client(c), Shared) /\ WriterOK(Client(c), Shared)
        /\ AppenderOK(c, Client(c), Shared) /\ RendererOK(Client(c), Shared)
        /\ ToldOK(c, Client(c), Shared)
    BY <2>1 DEF ReaderOK, ObserverOK, WriterOK, AppenderOK, RendererOK, ToldOK
  <2> QED BY <2>2, <2>3, <2>4 DEF ClientOK
<1> QED BY <1>1, <1>2, <1>4, <1>5 DEF JournalInv

LEMMA JournalGoesOn ==
    ASSUME Journal!JournalAssumption, JournalInv, Maps, [Journal!Next]_(Journal!vars)
    PROVE  JournalInv' /\ Maps' /\ [Journal!LogStep]_(Journal!vars)
<1>1. CASE UNCHANGED Journal!vars
  <2>1. UNCHANGED <<jrecords, jphase, jrequest, janswer, jjob, progress, batch, place, page, tail,
                    told, appends, shown>>
    BY <1>1 DEF Journal!vars, Journal!storeVars, Journal!clientVars
  <2>2. Shared' = Shared /\ \A c : Client(c)' = Client(c)
    BY <2>1, SharedStays DEF Client
  <2>3. JournalInv'
    BY <2>1, <2>2 DEF JournalInv, Domains, RecordsOK
  <2> QED BY <1>1, <2>1, <2>3 DEF Maps
<1>2. ASSUME NEW c \in Clients, ClientStep(c) PROVE JournalInv' /\ Maps' /\ Journal!LogStep
  BY <1>2, ClientStepKeeps, ClientStepIsKept, MapsStay, RecordsLeaveTheLog
<1>3. ASSUME NEW c \in Clients, Journal!Serve(c) PROVE JournalInv' /\ Maps' /\ Journal!LogStep
  <2>1. Maps'
    BY <1>3 DEF Journal!Serve, Journal!clientVars, Maps
  <2> QED BY <1>3, <2>1, ServeKeeps
<1>4. CASE Journal!Next
  BY <1>2, <1>3, <1>4 DEF Journal!Next, ClientStep
<1> QED BY <1>1, <1>4

\* What the invariant says in the words of the journal.
LEMMA LogIsTyped ==
    ASSUME JournalInv, Maps
    PROVE  Journal!TypeOK
<1>1. /\ Journal!log \in Seq(Event) /\ (\A i \in 1..Len(Journal!log) : Journal!log[i].sequence = i)
      /\ Journal!cursor \in [Observers -> Nat]
  BY DEF JournalInv, SharedOK, IsLog, Shared
<1>2. Journal!log \in Seq({e \in Event : e.sequence > 0})
  <2>1. \A i \in 1..Len(Journal!log) : Journal!log[i] \in {e \in Event : e.sequence > 0}
    BY <1>1
  <2> QED BY <1>1, <2>1
<1>3. ASSUME NEW c \in Clients
      PROVE  /\ jjob[c] \in {"none", "append", "observer", "page", "checkpoint"}
             /\ progress[c] \in {"journal", "observer", "write"}
             /\ batch[c] \in Journal!Batches \cup Journal!Forged \cup {<<>>}
             /\ place[c] \in [observer : Observers, after : Nat, revision : Nat]
             /\ tail[c] \in Nat
             /\ told[c] \in [outcome : {"none", "ok", "empty", "invalid", "conflict", "failed"}, count : Nat]
  BY ClientOf, FieldsOf DEF ClientType, Outcomes
<1> QED BY <1>1, <1>2, <1>3 DEF Journal!TypeOK, Maps, IsMap, Event

LEMMA LogIsAcknowledged ==
    ASSUME JournalInv
    PROVE  Journal!AcknowledgedIsLogged
<1> SUFFICES ASSUME NEW c \in Clients, told[c].outcome = "ok"
             PROVE  LET first == told[c].count - Len(batch[c]) IN
                    /\ told[c].count <= Len(Journal!log)
                    /\ SubSeq(Journal!log, first + 1, told[c].count) = Journal!Numbered(first, batch[c])
  BY DEF Journal!AcknowledgedIsLogged
<1> DEFINE events == batch[c]
           count == told[c].count
           first == count - Len(events)
           log == Journal!log
<1>1. /\ Len(events) <= count /\ count <= Len(log) /\ count \in Nat /\ log \in Seq(Event)
      /\ events \in Seq(Event)
      /\ \A i \in 1..Len(events) : log[first + i] = At(events[i], first + i)
  <2>1. ToldOK(c, Client(c), Shared) /\ SharedOK(Shared) /\ Shared.log = log
    BY ClientOf DEF ClientOK, Shared
  <2>2. events \in Seq(Event) /\ count \in Nat
    BY ClientOf, ClientTypes, FieldsOf
  <2>3. log \in Seq(Event)
    BY <2>1, Shareds
  <2>4. Client(c).told = told[c] /\ Client(c).batch = batch[c]
    BY FieldsOf
  <2>5. /\ Len(events) <= count /\ count <= Len(log)
        /\ \A i \in 1..Len(events) : log[first + i] = At(events[i], first + i)
    BY ONLY <2>1, <2>4, told[c].outcome = "ok" DEF ToldOK
  <2> QED BY <2>2, <2>3, <2>5
<1> HIDE DEF events, count, log
<1>2. first \in Nat /\ Len(events) \in Nat /\ first + Len(events) = count /\ Len(log) \in Nat
  <2>1. Len(events) \in Nat /\ Len(log) \in Nat
    BY ONLY <1>1
  <2>2. Len(events) <= count /\ count \in Nat
    BY ONLY <1>1
  <2> QED BY ONLY <2>1, <2>2
<1> HIDE DEF first
<1>3. SubSeq(log, first + 1, count) = [i \in 1..Len(events) |-> log[first + i]]
  <2>1. log \in Seq(Event)
    BY ONLY <1>1
  <2>2. SubSeq(log, first + 1, count) = [i \in 1..(count - (first + 1) + 1) |-> log[(first + 1) + i - 1]]
    BY ONLY <1>2, <2>1
  <2>3. count - (first + 1) + 1 = Len(events)
    BY ONLY <1>2
  <2>4. \A i \in 1..Len(events) : (first + 1) + i - 1 = first + i
    BY ONLY <1>2
  <2> QED BY ONLY <2>2, <2>3, <2>4
<1>4. Journal!Numbered(first, events) = [i \in 1..Len(events) |-> At(events[i], first + i)]
  <2>1. DOMAIN events = 1..Len(events)
    BY <1>1
  <2> QED BY <2>1 DEF Journal!Numbered, At
<1>5. SubSeq(log, first + 1, count) = Journal!Numbered(first, events)
  BY ONLY <1>1, <1>3, <1>4
<1> QED BY <1>1, <1>5 DEF events, count, log, first

LEMMA LogHoldsOnce ==
    ASSUME JournalInv
    PROVE  Journal!LoggedAtMostOnce
<1> DEFINE log == Journal!log
<1>1. /\ log \in Seq(Event)
      /\ \A i, j \in 1..Len(log) :
            log[i].by = log[j].by /\ log[i].attempt = log[j].attempt /\ log[i].part = log[j].part => i = j
  BY DEF JournalInv, SharedOK, IsLog, Shared
<1>2. ASSUME NEW c \in Clients, told[c].outcome \in {"invalid", "conflict"},
             NEW i \in 1..Len(log), log[i].by = c
      PROVE  log[i].attempt < appends[c]
  <2>1. ToldOK(c, Client(c), Shared) /\ Shared.log = log
    BY ClientOf DEF ClientOK, Shared
  <2>2. Unwritten(c, appends[c], log)
    BY <1>2, <2>1, FieldsOf DEF ToldOK
  <2> QED BY <1>2, <2>2 DEF Unwritten
<1>3. DOMAIN log = 1..Len(log)
  BY <1>1
<1>4. ASSUME NEW i \in 1..Len(log), NEW j \in 1..Len(log),
             [log[i] EXCEPT !.sequence = 0] = [log[j] EXCEPT !.sequence = 0]
      PROVE  i = j
  <2>1. log[i] \in Event /\ log[j] \in Event
    BY <1>1
  <2> HIDE DEF log
  <2>2. log[i].by = log[j].by /\ log[i].attempt = log[j].attempt /\ log[i].part = log[j].part
    BY ONLY <1>4, <2>1 DEF Event, Journal!Events
  <2> QED BY <1>1, <2>2
<1> QED BY <1>2, <1>3, <1>4 DEF Journal!LoggedAtMostOnce

LEMMA LogIsPrinted ==
    ASSUME JournalInv
    PROVE  Journal!PrintedBeforeCheckpointed
<1>1. \A o \in Observers : 1..Shared.cursor[o] \subseteq Shared.shown[o]
  BY DEF JournalInv, SharedOK
<1> QED BY <1>1 DEF Journal!PrintedBeforeCheckpointed, Shared

\* JournalIsALog, for any processes, observers, page limit and bounds on
\* what they start: append_checked and checkpoint_observer decide on what
\* they read, and transact_one's expected revision is what makes that safe.
THEOREM JournalsStayLogs ==
    ASSUME Journal!JournalAssumption
    PROVE  Journal!Spec => JournalIsALog
<1>1. Journal!Init => JournalInv /\ Maps
  BY JournalStarts
<1>2. JournalInv /\ Maps /\ [Journal!Next]_(Journal!vars)
         => (JournalInv /\ Maps)' /\ [Journal!LogStep]_(Journal!vars)
  BY JournalGoesOn
<1>3. JournalInv /\ Maps => /\ Journal!TypeOK
                            /\ Journal!AcknowledgedIsLogged
                            /\ Journal!LoggedAtMostOnce
                            /\ Journal!PrintedBeforeCheckpointed
  BY LogIsTyped, LogIsAcknowledged, LogHoldsOnce, LogIsPrinted
<1> QED BY <1>1, <1>2, <1>3, PTL DEF Journal!Spec, JournalIsALog
==============================================================================
