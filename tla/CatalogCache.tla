---------------------------- MODULE CatalogCache ----------------------------
(***************************************************************************)
(* The cache of provider model catalogues.  A dynamic refresh is asked over *)
(* the network and answered in any order, or never; between the question    *)
(* and the answer the provider's models change, credentials rotate, time    *)
(* passes, and entries are marked stale or purged.                          *)
(***************************************************************************)
EXTENDS Naturals, FiniteSets

CONSTANTS Keys,            \* scope, provider, connection and profile
          Declared,        \* keys without a profile, which may declare their models
          Ttl,             \* the dynamic time to live
          MaxIdentities,   \* MAX_CACHED_IDENTITIES
          NoEntry,         \* the key is not in the map
          MaxClock, MaxCredential, MaxPage, MaxRevision, MaxInFlight \* bounds of the model

CacheAssumption ==
    /\ Declared \subseteq Keys
    /\ {Ttl, MaxIdentities} \subseteq Nat \ {0}
    /\ {MaxClock, MaxCredential, MaxPage, MaxRevision, MaxInFlight} \subseteq Nat

VARIABLES
    entries,       \* CatalogCache.entries: key -> Snapshot
    nextRevision,  \* CatalogCache.next_revision
    now,           \* the monotonic timestamp the caller injects
    credential,    \* the runtime's credential generation of each key
    catalogue,     \* what the provider offers each key, numbered as it changes
    inFlight,      \* refreshes asked and not answered, with the page offered when asked
    accepted       \* history: the refresh behind each entry

vars == <<entries, nextRevision, now, credential, catalogue, inFlight, accepted>>

cacheVars == <<entries, nextRevision, accepted>>

worldVars == <<now, credential, catalogue>>

Forever == MaxClock + Ttl + 1  \* expires_at: None, beyond every timestamp of the model

Refreshes == [key: Keys, checkedAt: 0..MaxClock, credential: 0..MaxCredential,
              page: 0..MaxPage, policy: {"declared", "dynamic"}]

Snapshots == [page: 0..MaxPage, checkedAt: 0..MaxClock, expiresAt: 0..Forever,
              credential: 0..MaxCredential, revision: 1..MaxRevision, invalidated: BOOLEAN]

Init ==
    /\ entries = [k \in Keys |-> NoEntry] /\ nextRevision = 0
    /\ now = 0
    /\ credential = [k \in Keys |-> 0] /\ catalogue = [k \in Keys |-> 0]
    /\ inFlight = {}
    /\ accepted = [k \in Keys |-> NoEntry]

Identities == {k \in Keys : entries[k] # NoEntry}

----------------------------------------------------------------------------
Refresh(k, policy) == [key |-> k, checkedAt |-> now, credential |-> credential[k],
                       page |-> catalogue[k], policy |-> policy]

IsStale(existing, refresh) ==
    \/ refresh.checkedAt < existing.checkedAt
    \/ refresh.credential < existing.credential
    \/ /\ refresh.policy = "dynamic"
       /\ refresh.checkedAt = existing.checkedAt
       /\ refresh.credential = existing.credential

Accepts(refresh) ==
    /\ IF refresh.key \in Identities
       THEN ~IsStale(entries[refresh.key], refresh)
       ELSE Cardinality(Identities) < MaxIdentities
    /\ refresh.policy = "declared" => refresh.key \in Declared
    /\ nextRevision < MaxRevision

(* Fault: an answer counts for the credentials of the moment it arrives. *)
SnapshotOnArrival(refresh) ==
    [page |-> refresh.page, checkedAt |-> refresh.checkedAt,
     expiresAt |-> IF refresh.policy = "declared" THEN Forever ELSE refresh.checkedAt + Ttl,
     credential |-> credential[refresh.key], revision |-> nextRevision + 1,
     invalidated |-> FALSE]

Snapshot(refresh) ==
    [page |-> refresh.page, checkedAt |-> refresh.checkedAt,
     expiresAt |-> IF refresh.policy = "declared" THEN Forever ELSE refresh.checkedAt + Ttl,
     credential |-> refresh.credential, revision |-> nextRevision + 1,
     invalidated |-> FALSE]

\* An invalid page, like a stale or an excess one, changes nothing.
Put(refresh) ==
    \/ UNCHANGED cacheVars
    \/ /\ Accepts(refresh)
       /\ entries' = [entries EXCEPT ![refresh.key] = Snapshot(refresh)]
       /\ nextRevision' = nextRevision + 1
       /\ accepted' = [accepted EXCEPT ![refresh.key] = refresh]

Declare ==
    /\ \E k \in Keys : Put(Refresh(k, "declared"))
    /\ UNCHANGED <<inFlight, worldVars>>

Ask ==
    /\ Cardinality(inFlight) < MaxInFlight
    /\ \E k \in Keys : inFlight' = inFlight \cup {Refresh(k, "dynamic")}
    /\ UNCHANGED <<cacheVars, worldVars>>

Answer ==
    /\ \E refresh \in inFlight : Put(refresh) /\ inFlight' = inFlight \ {refresh}
    /\ UNCHANGED worldVars

\* A refresh failed, or the authentication was revoked.
MarkStale ==
    /\ \E k \in Identities : entries' = [entries EXCEPT ![k].invalidated = TRUE]
    /\ UNCHANGED <<nextRevision, accepted, inFlight, worldVars>>

Purge ==
    /\ \E k \in Identities :
          /\ entries' = [entries EXCEPT ![k] = NoEntry]
          /\ accepted' = [accepted EXCEPT ![k] = NoEntry]
    /\ UNCHANGED <<nextRevision, inFlight, worldVars>>

\* The caller's world: time, the account's credentials, the provider's models.
Tick == now < MaxClock /\ now' = now + 1 /\ UNCHANGED <<credential, catalogue>>

Rotate ==
    /\ \E k \in Keys : credential[k] < MaxCredential
                       /\ credential' = [credential EXCEPT ![k] = @ + 1]
    /\ UNCHANGED <<now, catalogue>>

Change ==
    /\ \E k \in Keys : catalogue[k] < MaxPage /\ catalogue' = [catalogue EXCEPT ![k] = @ + 1]
    /\ UNCHANGED <<now, credential>>

Next ==
    \/ Declare \/ Ask \/ Answer \/ MarkStale \/ Purge
    \/ (Tick \/ Rotate \/ Change) /\ UNCHANGED <<cacheVars, inFlight>>

Spec == Init /\ [][Next]_vars

----------------------------------------------------------------------------
(* view() *)

Fresh(k) ==
    /\ k \in Identities
    /\ ~entries[k].invalidated
    /\ entries[k].credential = credential[k]
    /\ entries[k].checkedAt <= now /\ now < entries[k].expiresAt

TypeOK ==
    /\ entries \in [Keys -> Snapshots \cup {NoEntry}] /\ nextRevision \in 0..MaxRevision
    /\ Cardinality(Identities) <= MaxIdentities
    /\ now \in 0..MaxClock /\ credential \in [Keys -> 0..MaxCredential]
    /\ catalogue \in [Keys -> 0..MaxPage]
    /\ inFlight \subseteq Refreshes /\ accepted \in [Keys -> Refreshes \cup {NoEntry}]

\* What view() calls fresh was asked for with the credentials of now, less than
\* a time to live ago (cache.rs:3 "Freshness and entitlement are distinct"),
\* whatever rotations and other answers came between the question and the view.
FreshIsEntitled ==
    \A k \in Keys : Fresh(k) =>
        /\ accepted[k].credential = credential[k]
        /\ accepted[k].policy = "dynamic" => now < accepted[k].checkedAt + Ttl
        /\ accepted[k].policy = "declared" => k \in Declared

\* A snapshot is never replaced by one asked for before, in whatever order the
\* answers arrive, within one clock tick too (cache.rs:142 "An old request must
\* never replace a newer snapshot").  Purging forgets the snapshot, and with it
\* what a late answer would have to be newer than.
CataloguesNeverRegress ==
    \A k \in Identities : entries'[k] # NoEntry => entries[k].page <= entries'[k].page

\* Neither time, nor a rotation, nor another key makes a stale entry fresh:
\* "Only a subsequent successful put() can restore freshness" (cache.rs:224).
FreshnessNeedsAnAnswer ==
    \A k \in Keys : ~Fresh(k) /\ Fresh(k)' => nextRevision' > nextRevision

\* All of it, in every state and in every step.
CataloguesAreCurrent ==
    /\ [](TypeOK /\ FreshIsEntitled)
    /\ [][CataloguesNeverRegress /\ FreshnessNeedsAnAnswer]_vars
============================================================================
