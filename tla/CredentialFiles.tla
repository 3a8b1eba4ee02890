--------------------------- MODULE CredentialFiles ---------------------------
(***************************************************************************)
(* The file-backed credential vault: one directory that processes share     *)
(* under flock, and the publication protocol that replaces a credential -   *)
(* an anonymous file, a marker, a link to the reserved name, a rename - one *)
(* system call at a time.  A process may be killed and the machine may lose *)
(* power between any two calls; what survives a power failure is a prefix   *)
(* of the directory changes since the last directory fsync (a journalled    *)
(* file system), with the contents that were never synced gone.             *)
(***************************************************************************)
EXTENDS Naturals, FiniteSets

CONSTANTS Processes,      \* instances of the plugin, each with its own descriptor
          Profiles,       \* CredentialId
          Keys,           \* API keys and OAuth tokens
          Bindings,       \* records that name an environment variable
          EnvironmentKey, \* PHENIX_CREDENTIAL_API_KEY_ENV_NAME names a set variable
          Absent          \* no such directory entry, no such value

Secrets == Keys \cup Bindings

Torn == "torn"            \* content not written yet, or lost in a power failure

Mark == "phenix-pending-v1"  \* PENDING_MARKER

Unknown == "unknown"

Files == [content: Secrets \cup {Torn, Mark}, synced: BOOLEAN]

ASSUME ValuesAssumption ==
    /\ Keys \cap Bindings = {} /\ {Absent, Torn, Mark, Unknown} \cap Secrets = {}
    /\ Absent \notin {Torn, Mark, Unknown} \cup Processes \cup Files
    /\ EnvironmentKey \in BOOLEAN

VARIABLES
    lock,       \* who holds the flock of the directory
    dir,        \* the directory as every process sees it
    survivors,  \* the directories a power failure now could leave
    pc, next,   \* where each process is, and what follows its recovery
    job,        \* its request
    staged,     \* its anonymous O_TMPFILE inode
    promised    \* history: the value last acknowledged, Unknown after a later change

vars == <<lock, dir, survivors, pc, next, job, staged, promised>>

processVars == <<lock, next, job, staged>>

directoryVars == <<dir, survivors, promised>>

EmptyDir == [marker |-> Absent, pending |-> Absent, files |-> [f \in Profiles |-> Absent]]

NoJob == [op |-> "none", profile |-> Absent, expected |-> Absent, secret |-> Absent]

Init ==
    /\ lock = Absent /\ dir = EmptyDir /\ survivors = {EmptyDir}
    /\ pc = [p \in Processes |-> "idle"]
    /\ next = [p \in Processes |-> "idle"]
    /\ job = [p \in Processes |-> NoJob]
    /\ staged = [p \in Processes |-> Absent]
    /\ promised = [f \in Profiles |-> Absent]

Goto(p, l) == pc' = [pc EXCEPT ![p] = l]

Step(p, from, to) == pc[p] = from /\ Goto(p, to) /\ UNCHANGED processVars

\* A directory change is visible at once and durable only after a directory fsync.
Change(d) ==
    /\ dir' = d /\ survivors' = survivors \cup {d}
    /\ promised' = [f \in Profiles |->
                      IF d.files[f] = dir.files[f] THEN promised[f] ELSE Unknown]

SyncDirectory == survivors' = {dir} /\ UNCHANGED <<dir, promised>>

\* Returning, or being killed, closes the lock's descriptor and the anonymous file.
Leave(p) ==
    /\ Goto(p, "idle") /\ lock' = (IF lock = p THEN Absent ELSE lock)
    /\ next' = [next EXCEPT ![p] = "idle"]
    /\ job' = [job EXCEPT ![p] = NoJob]
    /\ staged' = [staged EXCEPT ![p] = Absent]

Return(p) == Leave(p) /\ UNCHANGED directoryVars

Acknowledge(p) ==
    /\ Leave(p)
    /\ promised' = [promised EXCEPT ![job[p].profile] = job[p].secret]

----------------------------------------------------------------------------
(* Requests of the plugin.  An import or a rotation never carries the marker *)
(* of an environment binding; bind_environment stores one.                   *)

Begin(p) ==
    /\ pc[p] = "idle" /\ Goto(p, "lock")
    /\ next' = [next EXCEPT ![p] = "act"]
    /\ \E f \in Profiles :
          \/ \E op \in {"open", "resolve", "revoke"} :
                job' = [job EXCEPT ![p] =
                   [op |-> op, profile |-> f, expected |-> Absent, secret |-> Absent]]
          \/ \E s \in Secrets :
                job' = [job EXCEPT ![p] =
                   [op |-> "store", profile |-> f, expected |-> Absent, secret |-> s]]
          \/ \E e, s \in Keys :
                job' = [job EXCEPT ![p] =
                   [op |-> "rotate", profile |-> f, expected |-> e, secret |-> s]]
    /\ UNCHANGED <<lock, staged>> /\ UNCHANGED directoryVars

LockDirectory(p) ==
    /\ pc[p] = "lock" /\ lock = Absent
    /\ lock' = p /\ Goto(p, "recover")
    /\ UNCHANGED <<next, job, staged>> /\ UNCHANGED directoryVars

----------------------------------------------------------------------------
(* recover_pending, under the lock: before every operation, and after a      *)
(* store that failed past its link.  An unknown entry is never removed.      *)

ShortMarker == dir.marker # Absent /\ dir.marker.content # Mark

OrphanedPending(d) == d.pending # Absent /\ d.marker = Absent

Recover(p) ==
    \/ pc[p] \in {"recover", "unmark", "flush"} /\ Return(p)  \* rejected, or an I/O error
    \/ /\ ~ShortMarker /\ ~OrphanedPending(dir)
       /\ Step(p, "recover", "unmark") /\ Change([dir EXCEPT !.pending = Absent])
    \/ /\ dir.marker # Absent
       /\ Step(p, "unmark", "flush") /\ Change([dir EXCEPT !.marker = Absent])
    \/ /\ dir.marker = Absent
       /\ Step(p, "unmark", next[p]) /\ UNCHANGED directoryVars
    \/ Step(p, "flush", next[p]) /\ SyncDirectory

----------------------------------------------------------------------------
(* What each operation does once the directory is clean.                     *)

Holds(f, values) == dir.files[f] # Absent /\ dir.files[f].content \in values

Admitted(p) ==
    \/ job[p].op = "store"
    \/ job[p].op = "rotate" /\ Holds(job[p].profile, {job[p].expected})

\* A reader, a lost rotation, and any operation that fails ends here.
Act(p) ==
    /\ pc[p] = "act"
    /\ \/ Return(p)
       \/ /\ Admitted(p)
          /\ staged' = [staged EXCEPT ![p] = [content |-> job[p].secret, synced |-> FALSE]]
          /\ Goto(p, "stage") /\ UNCHANGED <<lock, next, job>> /\ UNCHANGED directoryVars

\* The plugin's revoke first reads under a lock of its own, whatever comes of
\* it, and is denied when the key comes from the environment.
ReadBeforeRevoke(p) ==
    /\ job[p].op = "revoke" /\ next[p] = "act"
    /\ \/ ~EnvironmentKey /\ pc[p] \in {"recover", "unmark", "flush", "act"}
       \/ pc[p] = "act" /\ Holds(job[p].profile, Bindings)
    /\ lock' = Absent /\ Goto(p, "lock")
    /\ next' = [next EXCEPT ![p] = "remove"]
    /\ UNCHANGED <<job, staged>> /\ UNCHANGED directoryVars

\* store_locked: write and sync the anonymous file, mark, link, rename, unmark.
SyncSecret(p) ==
    /\ pc[p] = "stage"
    /\ \/ Return(p)
       \/ /\ staged' = [staged EXCEPT ![p].synced = TRUE]
          /\ Goto(p, "create") /\ UNCHANGED <<lock, next, job>> /\ UNCHANGED directoryVars

\* mark_pending unlinks the marker again, without looking, when it fails.
Unmark(p) ==
    \/ Return(p)
    \/ Leave(p) /\ Change([dir EXCEPT !.marker = Absent])

\* fsync of the marker makes its content durable wherever its name already is.
SyncMarker ==
    LET synced(d) == IF d.marker = Absent THEN d ELSE [d EXCEPT !.marker = [content |-> Mark, synced |-> TRUE]]
    IN dir' = synced(dir) /\ survivors' = {synced(d) : d \in survivors} /\ UNCHANGED promised

MarkPending(p) ==
    \/ /\ dir.marker = Absent
       /\ Step(p, "create", "write")
       /\ Change([dir EXCEPT !.marker = [content |-> Torn, synced |-> FALSE]])
    \/ Step(p, "write", "syncMarker") /\ Change([dir EXCEPT !.marker.content = Mark])
    \/ Step(p, "syncMarker", "syncMark") /\ SyncMarker
    \/ Step(p, "syncMark", "link") /\ SyncDirectory
    \/ pc[p] = "create" /\ Return(p)
    \/ pc[p] \in {"write", "syncMarker", "syncMark", "link"} /\ Unmark(p)

Publish(p) ==
    \/ Step(p, "link", "rename") /\ Change([dir EXCEPT !.pending = staged[p]])
    \/ Step(p, "rename", "syncFile")
       /\ Change([dir EXCEPT !.pending = Absent, !.files[job[p].profile] = dir.pending])
    \/ Step(p, "syncFile", "unlink") /\ SyncDirectory
    \/ Step(p, "unlink", "syncDone") /\ Change([dir EXCEPT !.marker = Absent])
    \/ pc[p] = "syncDone" /\ Acknowledge(p) /\ survivors' = {dir} /\ UNCHANGED dir
    \/ /\ pc[p] \in {"rename", "syncFile", "unlink", "syncDone"}
       /\ Goto(p, "recover") /\ next' = [next EXCEPT ![p] = "failed"]
       /\ UNCHANGED <<lock, job, staged>> /\ UNCHANGED directoryVars
    \/ pc[p] = "failed" /\ Return(p)

(* Fault: a removal returns Ok before the directory is synced. *)
RemoveUnsynced(p) ==
    \/ pc[p] = "remove" /\ Return(p)
    \/ /\ pc[p] = "remove" /\ dir.files[job[p].profile] # Absent
       /\ Acknowledge(p)
       /\ dir' = [dir EXCEPT !.files[job[p].profile] = Absent]
       /\ survivors' = survivors \cup {dir'}

Remove(p) ==
    \/ pc[p] \in {"remove", "syncRemoval"} /\ Return(p)
    \/ /\ Step(p, "remove", "syncRemoval")
       /\ dir.files[job[p].profile] # Absent
       /\ Change([dir EXCEPT !.files[job[p].profile] = Absent])
    \/ pc[p] = "syncRemoval" /\ Acknowledge(p) /\ survivors' = {dir} /\ UNCHANGED dir

----------------------------------------------------------------------------
Kill(p) ==
    /\ pc[p] # "idle"
    /\ Return(p)

\* Contents that were never synced are gone.
Settled(file) ==
    IF file = Absent THEN Absent
    ELSE [content |-> IF file.synced THEN file.content ELSE Torn, synced |-> TRUE]

AfterPowerFailure(d) ==
    [marker |-> Settled(d.marker), pending |-> Settled(d.pending),
     files |-> [f \in Profiles |-> Settled(d.files[f])]]

PowerFailure ==
    /\ \E d \in survivors : dir' = AfterPowerFailure(d) /\ survivors' = {AfterPowerFailure(d)}
    /\ lock' = Absent
    /\ pc' = [p \in Processes |-> "idle"] /\ next' = [p \in Processes |-> "idle"]
    /\ job' = [p \in Processes |-> NoJob] /\ staged' = [p \in Processes |-> Absent]
    /\ UNCHANGED promised

Next ==
    \/ PowerFailure
    \/ \E p \in Processes :
          \/ Begin(p) \/ LockDirectory(p) \/ Recover(p) \/ Act(p) \/ ReadBeforeRevoke(p)
          \/ SyncSecret(p) \/ MarkPending(p) \/ Publish(p) \/ Remove(p) \/ Kill(p)

Spec == Init /\ [][Next]_vars

----------------------------------------------------------------------------
(* Properties.                                                               *)

Directories ==
    [marker: Files \cup {Absent}, pending: Files \cup {Absent},
     files: [Profiles -> Files \cup {Absent}]]

\* Types, and that only the holder of the flock is inside an operation.
TypeOK ==
    /\ lock \in Processes \cup {Absent}
    /\ dir \in survivors /\ survivors \subseteq Directories
    /\ next \in [Processes -> {"idle", "act", "remove", "failed"}]
    /\ staged \in [Processes -> Files \cup {Absent}]
    /\ promised \in [Profiles -> Secrets \cup {Absent, Unknown}]
    /\ \A p \in Processes : pc[p] \notin {"idle", "lock"} <=> lock = p

\* compare_and_store replaces a credential only while the stored bytes are the
\* expected ones (lib.rs:412 "A racing refresh cannot overwrite a newer
\* replacement token"): between the comparison and the rename, two lock
\* sections, kills and power failures may lie, but no other change.
RotationsAreExact ==
    \A p \in Processes :
      (job[p].op = "rotate" /\ pc[p] = "rename" /\ pc'[p] = "syncFile")
         => Holds(job[p].profile, {job[p].expected})

\* Once store, rotate or revoke returned Ok, no power failure brings the old
\* value back or loses the new one, until a later operation changes it.
AcknowledgedSurvives ==
    \A f \in Profiles : promised[f] # Unknown =>
        \A d \in survivors :
            LET after == AfterPowerFailure(d).files[f]
            IN IF promised[f] = Absent THEN after = Absent
               ELSE after # Absent /\ after.content = promised[f]

\* A candidate at the reserved name always comes with its whole marker, now and
\* after any power failure, so recovery can tell it from a stranger's entry.
MarkerPrecedesPending ==
    \A d \in survivors \cup {dir} :
        d.pending # Absent => LET after == AfterPowerFailure(d)
                              IN after.marker # Absent /\ after.marker.content = Mark

\* No credential is ever published with content that was not synced.
NeverTorn ==
    \A d \in survivors \cup {dir}, f \in Profiles :
        d.files[f] # Absent => AfterPowerFailure(d).files[f].content \in Secrets

(***************************************************************************)
(* Killed processes and power failures at any point leave an acknowledged  *)
(* credential in place, every pending file with its marker and no torn     *)
(* credential, and a rotation replaces only what it expected.              *)
(***************************************************************************)
CredentialsSurvive ==
    /\ [](TypeOK /\ AcknowledgedSurvives /\ MarkerPrecedesPending /\ NeverTorn)
    /\ [][RotationsAreExact]_vars
=============================================================================
