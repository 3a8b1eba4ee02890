------------------------------- MODULE EvidenceStore -------------------------------
(***************************************************************************)
(* The evidence store plugin: a ledger of facts in one record of the       *)
(* selected storage, appended to by compare-and-swap.  Every fact cites    *)
(* sources that live elsewhere and change on their own; a fact is written  *)
(* and answered only after each of its sources was observed to be the one  *)
(* it cites.  Sources: phenix-plugin-evidence-store, with the validation   *)
(* of phenix-advanced-contracts.                                           *)
(*                                                                         *)
(* One action is one call to an import, because sources, membership and    *)
(* the ledger may change between any two of them.  One project is          *)
(* modelled: its storage refuses a session that is not an active member    *)
(* (module ProjectStorage), and a ledger for a session differs only in     *)
(* that its membership never changes.  Owner, resource and digest of a     *)
(* source are one version number; text search is left out.                 *)
(***************************************************************************)
EXTENDS Integers, Sequences, SequencesExt, FiniteSets

CONSTANTS Callers, Ids, Sources, Times,
          Facts,        \* the records that callers may put
          MaxHistory,   \* the capacity of a ledger (1024 in the code)
          MaxLimit,     \* the largest limit of a search (128 in the code)
          MaxVersion,   \* the last version of a source (they start at 1)
          MaxGrants     \* bound on the changes of the membership

EvidenceAssumption ==
    /\ Times \subseteq Nat /\ MaxHistory \in Nat
    /\ MaxLimit \in Nat /\ MaxVersion \in Nat \ {0} /\ MaxGrants \in Nat

NoEnd == -1

Records == [id : Ids, revision : Nat, from : Nat, until : Nat \cup {NoEnd},
            withdrawn : BOOLEAN, sources : Seq([source : Sources, version : Nat])]

FactsAssumption == Facts \subseteq Records

VARIABLES ledger,   \* the stored record: its revision and the history in it
          version,  \* version[s]: what an observation of source s answers
          active,   \* is the session a member of the project?
          grants,   \* changes of the membership so far
          call,     \* call[c]: the request of c, what it loaded, how far it is
          answered  \* the answer the last step gave, if it gave one

vars == <<ledger, version, active, grants, call, answered>>

Idle == [step |-> "idle"]

Requests == [kind : {"put"}, fact : Facts]
              \cup [kind : {"get"}, id : Ids]
              \cup [kind : {"search"}, as_of : Times \cup {NoEnd}, limit : 0..MaxLimit + 1]

-------------------------------------------------------------------------------
(* EvidenceRecord::valid_at *)
ValidAt(r, t) == r.from <= t /\ (r.until = NoEnd \/ t < r.until) /\ ~ r.withdrawn

(* validate_record: what does not depend on the ledger. *)
WellFormed(r) ==
    /\ r.revision > 0
    /\ r.sources # <<>>
    /\ IsInjective(r.sources)
    /\ r.until # NoEnd => r.until > r.from

OfId(history, id) == {r \in ToSet(history) : r.id = id}

(* latest: the record of an identity with the highest revision. *)
Newest(records) == CHOOSE r \in records : \A s \in records : s.revision <= r.revision

(* What validate_ledger and append_version demand of the next record: the  *)
(* revisions of an identity are 1, 2, 3, ...                               *)
NextRevision(history, id) ==
    IF OfId(history, id) = {} THEN 1 ELSE Newest(OfId(history, id)).revision + 1

(* validate_ledger: every record was the next one when it was appended.    *)
ValidLedger(history) ==
    /\ Len(history) <= MaxHistory
    /\ \A i \in DOMAIN history :
          /\ WellFormed(history[i])
          /\ history[i].revision = NextRevision(SubSeq(history, 1, i - 1), history[i].id)

(* append_version: the next revision of its identity, valid from no        *)
(* earlier than its predecessor began and, if it ended, than it ended.     *)
Appendable(history, r) ==
    /\ WellFormed(r)
    /\ Len(history) < MaxHistory
    /\ ValidLedger(history)
    /\ r.revision = NextRevision(history, r.id)
    /\ OfId(history, r.id) # {} =>
          LET previous == Newest(OfId(history, r.id)) IN
          /\ r.from >= previous.from
          /\ previous.until # NoEnd => r.from >= previous.until

(* select_records: of every identity the newest record, of those valid at  *)
(* as_of when that is given; a withdrawn one is not shown.                 *)
Selected(history, as_of) ==
    LET eligible(id) == {r \in OfId(history, id) : as_of # NoEnd => ValidAt(r, as_of)}
    IN  {r \in {Newest(eligible(id)) : id \in {i \in Ids : eligible(i) # {}}} : ~ r.withdrawn}

-------------------------------------------------------------------------------
Init ==
    /\ ledger = [revision |-> 0, history |-> <<>>]
    /\ version = [s \in Sources |-> 1]
    /\ active = TRUE
    /\ grants = 0
    /\ call = [c \in Callers |-> Idle]
    /\ answered = {}

(* What a source was at some moment since the call loaded the ledger: no   *)
(* part of the code, it is what the properties compare answers with.       *)
Witness(calls) == [c \in Callers |->
    IF "witness" \notin DOMAIN calls[c] THEN calls[c]
    ELSE [calls[c] EXCEPT !.witness = @ \cup {<<s, version'[s]>> : s \in Sources}]]

(* A source is changed by whoever owns it. *)
ChangeSource(s) ==
    /\ version[s] < MaxVersion
    /\ version' = [version EXCEPT ![s] = @ + 1]
    /\ call' = Witness(call)
    /\ answered' = {}
    /\ UNCHANGED <<ledger, active, grants>>

(* The project's host revokes or restores the membership. *)
ChangeMembership ==
    /\ grants < MaxGrants
    /\ grants' = grants + 1
    /\ active' = ~ active
    /\ answered' = {}
    /\ UNCHANGED <<ledger, version, call>>

(* put, get and search begin with authorize; put validates its record and  *)
(* search its limit at the latest before it looks at what it selected.     *)
Ask(c, request) ==
    /\ call[c] = Idle
    /\ active
    /\ request.kind = "put" => WellFormed(request.fact)
    /\ call' = [call EXCEPT ![c] = [step |-> "authorized", request |-> request]]
    /\ answered' = {}
    /\ UNCHANGED <<ledger, version, active, grants>>

(* The facts a loaded call must verify before it goes on. *)
Chosen(request, history) ==
    CASE request.kind = "put" ->
           IF Appendable(history, request.fact) THEN {request.fact} ELSE {}
      [] request.kind = "get" ->
           {r \in OfId(history, request.id) : ~ r.withdrawn /\ r = Newest(OfId(history, request.id))}
      [] request.kind = "search" -> Selected(history, request.as_of)

Admissible(request, chosen) ==
    IF request.kind = "search"
    THEN request.limit \in 1..MaxLimit /\ Cardinality(chosen) <= request.limit
    ELSE chosen # {}

(* load: one read of the ledger, after a second authorization; then the    *)
(* facts are chosen.  A call whose facts are refused ends in Fail.         *)
Load(c) ==
    /\ call[c].step = "authorized"
    /\ active
    /\ ValidLedger(ledger.history)
    /\ LET chosen == Chosen(call[c].request, ledger.history) IN
         /\ Admissible(call[c].request, chosen)
         /\ call' = [call EXCEPT ![c] =
              [step |-> "loaded", request |-> call[c].request, ledger |-> ledger,
               facts |-> chosen, left |-> UNION {ToSet(r.sources) : r \in chosen},
               witness |-> {<<s, version[s]>> : s \in Sources}]]
    /\ answered' = {}
    /\ UNCHANGED <<ledger, version, active, grants>>

(* Fault: it is enough that the source still exists. *)
ObserveAny(c) ==
    /\ call[c].step = "loaded"
    /\ active
    /\ \E cited \in call[c].left :
          call' = [call EXCEPT ![c].left = @ \ {cited}]
    /\ answered' = {}
    /\ UNCHANGED <<ledger, version, active, grants>>

(* verify_sources: one observation; the source must be what is cited.      *)
(* Observing a source of the project takes an active membership.           *)
Observe(c) ==
    /\ call[c].step = "loaded"
    /\ active
    /\ \E cited \in call[c].left :
          /\ version[cited.source] = cited.version
          /\ call' = [call EXCEPT ![c].left = @ \ {cited}]
    /\ answered' = {}
    /\ UNCHANGED <<ledger, version, active, grants>>

Answer(c) ==
    /\ call' = [call EXCEPT ![c] = Idle]
    /\ answered' = {call[c]}

Verified(c) == call[c].step = "loaded" /\ call[c].left = {}

(* get and search answer what they verified. *)
Reply(c) ==
    /\ Verified(c) /\ call[c].request.kind # "put"
    /\ Answer(c)
    /\ UNCHANGED <<ledger, version, active, grants>>

(* Fault: the ledger is replaced whatever its revision is. *)
SwapUnchecked(c) ==
    /\ Verified(c) /\ call[c].request.kind = "put"
    /\ active
    /\ ledger' = [revision |-> ledger.revision + 1,
                  history |-> Append(call[c].ledger.history, call[c].request.fact)]
    /\ call' = [call EXCEPT ![c].step = "stored"]
    /\ answered' = {}
    /\ UNCHANGED <<version, active, grants>>

(* The compare-and-swap of put: it fails when the ledger is no longer the  *)
(* loaded one, or the session no longer a member.                          *)
Swap(c) ==
    /\ Verified(c) /\ call[c].request.kind = "put"
    /\ active
    /\ ledger.revision = call[c].ledger.revision
    /\ ledger' = [revision |-> ledger.revision + 1,
                  history |-> Append(call[c].ledger.history, call[c].request.fact)]
    /\ call' = [call EXCEPT ![c].step = "stored"]
    /\ answered' = {}
    /\ UNCHANGED <<version, active, grants>>

Acknowledge(c) ==
    /\ call[c].step = "stored"
    /\ Answer(c)
    /\ UNCHANGED <<ledger, version, active, grants>>

(* Any error ends a call: a refusal, a changed source, a conflict, a       *)
(* failing import, or a reply that is lost after the swap.                 *)
Fail(c) ==
    /\ call[c] # Idle
    /\ call' = [call EXCEPT ![c] = Idle]
    /\ answered' = {}
    /\ UNCHANGED <<ledger, version, active, grants>>

Next ==
    \/ \E s \in Sources : ChangeSource(s)
    \/ ChangeMembership
    \/ \E c \in Callers :
         \/ \E request \in Requests : Ask(c, request)
         \/ Load(c) \/ Observe(c) \/ Reply(c) \/ Swap(c) \/ Acknowledge(c) \/ Fail(c)

Spec == Init /\ [][Next]_vars

-------------------------------------------------------------------------------
TypeOK ==
    /\ ledger.revision \in Nat /\ ledger.history \in Seq(Records)
    /\ version \in [Sources -> 1..MaxVersion]
    /\ active \in BOOLEAN /\ grants \in 0..MaxGrants
    /\ \A c \in Callers : call[c] = Idle \/
         /\ call[c].step \in {"authorized", "loaded", "stored"}
         /\ call[c].request \in Requests
    /\ \A a \in answered : a.facts \subseteq Records
    (* The ledger gains one record per revision and is one load accepts. *)
    /\ ledger.revision = Len(ledger.history)
    /\ ValidLedger(ledger.history)

(* Whatever put accepts and whatever get and search answer is supported:   *)
(* every source it cites was, at some moment after the ledger was loaded,  *)
(* exactly the version it cites ("every durable fact is checked through    *)
(* the selected source provider before write and retrieval").              *)
FactsAreSupported ==
    \A a \in answered : \A r \in a.facts : \A i \in DOMAIN r.sources :
        <<r.sources[i].source, r.sources[i].version>> \in a.witness

(* The ledger never loses or rewrites a fact: it only grows, one record at *)
(* a time, by a call of an active member whose sources were verified.      *)
LedgerOnlyGrows ==
    ledger' # ledger =>
      /\ active
      /\ \E c \in Callers : /\ call[c].step = "loaded" /\ call[c].request.kind = "put"
                            /\ ledger'.history = Append(ledger.history, call[c].request.fact)

(* An acknowledged fact is in the ledger, right after what its call had    *)
(* loaded.                                                                 *)
AcknowledgedFactsStay ==
    \A a \in answered : a.request.kind = "put" =>
        Append(a.ledger.history, a.request.fact) \in Prefixes(ledger.history)

(* A correction never rewrites the past: what the ledger said of an        *)
(* earlier moment changes only for the moments at which the record that    *)
(* was appended is itself valid, and there to that record.                 *)
HistoricalAnswersStand ==
    \A t \in Times :
      LET now == Selected(ledger.history, t)  next == Selected(ledger'.history, t)
      IN  next # now => next \ now = {Last(ledger'.history)}
                          /\ ValidAt(Last(ledger'.history), t)

(* A fact whose validity has ended answers for its whole time, whatever    *)
(* was appended since: no later revision reaches back into the time of a   *)
(* fact that was given an end.                                             *)
EndedFactsAnswerForTheirTime ==
    \A r \in ToSet(ledger.history) : \A t \in Times :
        r.until # NoEnd /\ ValidAt(r, t) => r \in Selected(ledger.history, t)

===============================================================================
