------------------------------ MODULE LiveValues ------------------------------
(***************************************************************************)
(* The typed client of the SDK (phenix_sdk::live) in one native call: edits *)
(* that keep the snapshot they were opened on, batches of edits, epoch      *)
(* snapshots, watches, and one pending import that the caller polls and     *)
(* cancels.  Other callers write the same cells between any two requests,   *)
(* and the kernel may refuse any request.                                   *)
(***************************************************************************)
EXTENDS Naturals, Sequences, FiniteSets, SequencesExt

CONSTANTS Locations,      \* cells, in the order of their locations (numbers)
          Edits, Watches, \* handles the plugin holds
          Imports,        \* how many imports the plugin begins, 0 or 1
          Values, None,
          MaxEpoch        \* bound of the model

LiveValuesAssumption ==
    /\ Locations \subseteq Nat /\ MaxEpoch \in Nat
    /\ None \notin Values /\ Imports \in 0 .. 1

VARIABLES
    store, epoch,     \* the kernel's cells and their epoch
    edits,            \* Edit: [ref, base, draft], or None
    commits,          \* history: how often each open edit has been published
    subs, nextCursor, \* the kernel's subscriptions
    watches,          \* Watch: [cursor, ref, closed, seen], or None
    answer,           \* what the last batch, snapshot or watch request returned
    child,            \* the kernel's record of the import
    import            \* PendingImport: "none", "pending" or "settled", and what poll said

storeVars == <<store, epoch>>
editVars == <<edits, commits>>
watchVars == <<subs, nextCursor, watches>>
importVars == <<child, import>>
vars == <<storeVars, editVars, watchVars, answer, importVars>>

Snapshot == [revision: Nat, value: Values]

TypeOK ==
    /\ store \in [Locations -> Snapshot] /\ epoch \in 0 .. MaxEpoch
    /\ \A e \in Edits : edits[e] # None => edits[e].ref \in Locations
    /\ \A r \in DOMAIN answer.got : answer.got[r] \in Snapshot
    /\ DOMAIN subs \subseteq 1 .. nextCursor
    /\ child \in {"none", "running", "ended", "draining", "cancelled", "released"}
    /\ import.state \in {"none", "pending", "settled"} /\ import.results \in Nat

Nothing == [kind |-> "none", refs |-> <<>>, got |-> <<>>]

Init ==
    /\ store \in [Locations -> [revision: {0}, value: Values]]
    /\ epoch = 0
    /\ edits = [e \in Edits |-> None] /\ commits = [e \in Edits |-> 0]
    /\ subs = <<>> /\ nextCursor = 0 /\ watches = [w \in Watches |-> None]
    /\ answer = Nothing
    /\ child = "none" /\ import = [state |-> "none", results |-> 0]

-----------------------------------------------------------------------------
(* Edits. *)

(* Another caller of the cell. *)
Write(r, v) ==
    /\ epoch < MaxEpoch
    /\ store' = [store EXCEPT ![r] = [revision |-> @.revision + 1, value |-> v]]
    /\ epoch' = epoch + 1
    /\ answer' = Nothing
    /\ UNCHANGED <<editVars, watchVars, importVars>>

(* ValueRef::edit *)
Open(e, r) ==
    /\ edits[e] = None
    /\ edits' = [edits EXCEPT ![e] = [ref |-> r, base |-> store[r], draft |-> None]]
    /\ commits' = [commits EXCEPT ![e] = 0]
    /\ answer' = Nothing
    /\ UNCHANGED <<storeVars, watchVars, importVars>>

(* DerefMut: the first mutable use copies the snapshot. *)
Change(e, v) ==
    /\ edits[e] # None /\ edits[e].draft # v
    /\ edits' = [edits EXCEPT ![e].draft = v]
    /\ answer' = Nothing
    /\ UNCHANGED <<storeVars, commits, watchVars, importVars>>

(* Deref: the draft, or the snapshot it would be made from. *)
Proposed(edit) == IF edit.draft = None THEN edit.base.value ELSE edit.draft

(* Dropping an edit has no host effect. *)
Drop(e) ==
    /\ edits[e] # None
    /\ edits' = [edits EXCEPT ![e] = None]
    /\ answer' = Nothing
    /\ UNCHANGED <<storeVars, commits, watchVars, importVars>>

(* Fault: the revision is read again just before the exchange. *)
ExpectedNow(edit) == store[edit.ref].revision

Expected(edit) == edit.base.revision

(* Cells::commit for some edits: all of them apply, or none. *)
Applies(S) == \A e \in S : Expected(edits[e]) = store[edits[e].ref].revision

Apply(S) ==
    LET by(r) == CHOOSE e \in S : edits[e].ref = r
        refs == {edits[e].ref : e \in S}
    IN /\ store' = [r \in Locations |->
                      IF r \in refs
                      THEN [revision |-> store[r].revision + 1, value |-> Proposed(edits[by(r)])]
                      ELSE store[r]]
       /\ epoch' = epoch + 1
       /\ commits' = [e \in Edits |-> commits[e] + IF e \in S THEN 1 ELSE 0]

(* Edit::commit: refused by the kernel, in conflict, or published. *)
Commit(e) ==
    /\ edits[e] # None /\ epoch < MaxEpoch
    /\ answer' = Nothing
    /\ \/ Applies({e}) /\ Apply({e})
       \/ UNCHANGED <<storeVars, commits>>
    /\ UNCHANGED <<edits, watchVars, importVars>>

-----------------------------------------------------------------------------
(* Several cells at once. *)

(* The kernel answers in the order of the request, which must ascend strictly. *)
Ascending(refs) == \A i, j \in DOMAIN refs : i < j => refs[i] < refs[j]

Sorted(refs) == SortSeq(refs, <)

(* The results paired with the locations, both in sorted order; get finds by location. *)
Zipped(refs, cells) ==
    LET places == Sorted(refs)
        values == [i \in DOMAIN places |-> cells[places[i]]]
    IN [r \in ToSet(refs) |-> values[CHOOSE i \in DOMAIN places : places[i] = r]]

(* Host::batch with batch_edit() of each handle, in any order. *)
Batch(handles) ==
    LET refs == [i \in DOMAIN handles |-> edits[handles[i]].ref]
        S == ToSet(handles)
    IN /\ \A e \in S : edits[e] # None
       /\ epoch < MaxEpoch
       /\ \/ /\ Ascending(Sorted(refs)) /\ Applies(S)
             /\ Apply(S)
             /\ answer' = [kind |-> "batch", refs |-> refs, got |-> Zipped(refs, store')]
          \/ answer' = Nothing /\ UNCHANGED <<storeVars, commits>>
       /\ UNCHANGED <<edits, watchVars, importVars>>

(* Host::snapshot of references in any order. *)
EpochSnapshot(refs) ==
    /\ Ascending(Sorted(refs))
    /\ answer' = [kind |-> "snapshot", refs |-> refs, got |-> Zipped(refs, store)]
    /\ UNCHANGED <<storeVars, editVars, watchVars, importVars>>

-----------------------------------------------------------------------------
(* Watches. *)

(* Host::subscribe: the watch starts at the snapshot it returns. *)
Subscribe(w, r) ==
    /\ watches[w] = None
    /\ nextCursor' = nextCursor + 1
    /\ subs' = Append(subs, [ref |-> r, revision |-> store[r].revision, live |-> TRUE])
    /\ watches' = [watches EXCEPT ![w] =
                     [cursor |-> nextCursor', ref |-> r, closed |-> FALSE, seen |-> store[r]]]
    /\ answer' = Nothing
    /\ UNCHANGED <<storeVars, editVars, importVars>>

IsOpen(w) == watches[w] # None /\ ~watches[w].closed

Newer(sub, seen) == store[sub.ref].revision # sub.revision

(* Watch::next: the latest snapshot, or None when it has been delivered. *)
WatchNext(w) ==
    LET sub == subs[watches[w].cursor] IN
    /\ IsOpen(w) /\ sub.live
    /\ IF Newer(sub, watches[w].seen)
       THEN /\ subs' = [subs EXCEPT ![watches[w].cursor].revision = store[sub.ref].revision]
            /\ watches' = [watches EXCEPT ![w].seen = store[sub.ref]]
            /\ answer' = Nothing
       ELSE /\ answer' = [kind |-> "current", refs |-> <<sub.ref>>,
                          got |-> [r \in {sub.ref} |-> watches[w].seen]]
            /\ UNCHANGED <<subs, watches>>
    /\ UNCHANGED <<storeVars, editVars, nextCursor, importVars>>

Closed(w, accepted) ==
    watches' = IF accepted THEN [watches EXCEPT ![w].closed = TRUE] ELSE watches

(* Watch::close, which the kernel may refuse. *)
Close(w) ==
    /\ IsOpen(w)
    /\ \E accepted \in BOOLEAN :
         /\ subs' = IF accepted THEN [subs EXCEPT ![watches[w].cursor].live = FALSE] ELSE subs
         /\ Closed(w, accepted)
    /\ answer' = Nothing
    /\ UNCHANGED <<storeVars, editVars, nextCursor, importVars>>

-----------------------------------------------------------------------------
(* One import.  The child's physical work is over in "ended", "cancelled" and
   "released"; "ended" and "cancelled" wait for the poll that releases them. *)

Begin ==
    /\ import.state = "none" /\ Imports = 1
    /\ \/ child' = "running" /\ import' = [import EXCEPT !.state = "pending"]
       \/ child' = "released" /\ import' = [state |-> "settled", results |-> 1]
    /\ answer' = Nothing
    /\ UNCHANGED <<storeVars, editVars, watchVars>>

(* The child ends by itself; a cancelled one drains. *)
ChildStep ==
    /\ \/ child = "running" /\ child' = "ended"
       \/ child = "draining" /\ child' = "cancelled"
    /\ answer' = Nothing
    /\ UNCHANGED <<storeVars, editVars, watchVars, import>>

Settles == child \in {"ended", "cancelled"}

(* PendingImport::poll: settled by a result or by Cancelled, never by Pending, by
   Draining, or by a refusal of the host. *)
Poll ==
    /\ import.state = "pending"
    /\ \/ /\ Settles
          /\ import' = [state |-> "settled", results |-> import.results + 1]
          /\ child' = IF child = "draining" THEN child ELSE "released"
       \/ ~Settles /\ UNCHANGED importVars
    /\ answer' = Nothing
    /\ UNCHANGED <<storeVars, editVars, watchVars>>

(* PendingImport::cancel: quiet or not, the result is still to be polled. *)
Cancel ==
    /\ import.state = "pending" /\ child = "running"
    /\ child' \in {"draining", "cancelled"}
    /\ answer' = Nothing
    /\ UNCHANGED <<storeVars, editVars, watchVars, import>>

Handles == {<<e>> : e \in Edits} \cup {h \in Edits \X Edits : h[1] # h[2]}

References == {<<r, q>> : r, q \in Locations}

Next ==
    \/ \E r \in Locations, v \in Values : Write(r, v)
    \/ \E e \in Edits : Drop(e) \/ Commit(e) \/ (\E r \in Locations : Open(e, r))
                        \/ (\E v \in Values : Change(e, v))
    \/ \E h \in Handles : Batch(h)
    \/ \E refs \in References : EpochSnapshot(refs)
    \/ \E w \in Watches : WatchNext(w) \/ Close(w) \/ (\E r \in Locations : Subscribe(w, r))
    \/ Begin \/ ChildStep \/ Poll \/ Cancel

Spec == Init /\ [][Next]_vars

-----------------------------------------------------------------------------

(* No update is lost: whoever else wrote the cell, and however often an edit is
   committed again alone or in a batch, an edit replaces the very snapshot its draft
   was made from. *)
EditsReplaceTheirBase ==
    \A e \in Edits : commits'[e] > commits[e] => edits[e].base = store[edits[e].ref]

(* A handle publishes once: committing it again, or batching what was committed,
   is a conflict. *)
EditsPublishOnce == \A e \in Edits : commits[e] <= 1

(* What a batch or an epoch snapshot gives for a reference is that reference's cell,
   in whatever order the caller listed them. *)
AnswersMatchReferences ==
    answer.kind \in {"batch", "snapshot"} =>
        /\ DOMAIN answer.got = ToSet(answer.refs)
        /\ \A r \in DOMAIN answer.got : answer.got[r] = store[r]

(* When a watch has nothing newer, what it delivered last is the present snapshot. *)
WatchesMissNothing ==
    answer.kind = "current" => \A r \in DOMAIN answer.got : answer.got[r] = store[r]

(* A closed watch has no subscription in the kernel, and an open one has. *)
ClosedWatchesAreGone ==
    \A w \in Watches :
        watches[w] # None => (watches[w].closed <=> ~subs[watches[w].cursor].live)

(* An import is settled exactly when its child is released: one result, and no live
   work behind an import nobody may poll any more. *)
SettledMeansReleased ==
    /\ import.state = "settled" <=> child = "released"
    /\ import.results = IF import.state = "settled" THEN 1 ELSE 0

=============================================================================
