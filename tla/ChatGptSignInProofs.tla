------------------------ MODULE ChatGptSignInProofs ------------------------
(***************************************************************************)
(* What holds of every sign-in, for any persons and processes: the promise *)
(* SignInsAreSound of ChatGptSignIn.                                        *)
(***************************************************************************)
EXTENDS ChatGptSignIn, FiniteSetTheorems, SequenceTheorems, TLAPS

-----------------------------------------------------------------------------
(***************************************************************************)
(* Proof.                                                                   *)
(***************************************************************************)
Accounts == [session : Nat, refresh : Nat, subject : Subjects \cup {NoSubject}, client : Nat]

Records == [host : Nat, client : Nat, account : Accounts]

Sessions == [client : Nat, refresh : Nat, revoked : BOOLEAN]

Attempts ==
    [owner : Processes, prior : Records, client : Nat, subject : Subjects \cup {NoSubject},
     status : {"waiting", "called", "refused", "expired", "gone"}]

Tasks ==
    {Idle}
      \cup [op : {"begin"}, record : Records]
      \cup [op : {"login"}, attempt : Nat, prior : Records, account : Accounts,
            step : {"register", "exchange", "commit"}]
      \cup [op : {"use"}, record : Records, next : Accounts, ended : SUBSET Nat,
            step : {"renew", "rotate", "verify"}]
      \cup [op : {"sign-out"}, step : {"clear", "revoke"}, record : Records]

Shapes ==
    /\ vault \in Records /\ hosts \in Nat /\ clients \in Nat
    /\ issuer \in Seq(Sessions) /\ attempts \in Seq(Attempts)
    /\ task \in [Processes -> Tasks]
    /\ lapsed \subseteq Accounts /\ past \subseteq Accounts
    /\ known \subseteq 1 .. clients /\ ended \subseteq DOMAIN issuer
    /\ faults \in 0 .. MaxFaults /\ signOuts \in 0 .. MaxSignOuts

(* An account is one the issuer opened, with a token of its session. *)
GoodAccount(a) ==
    a # NoAccount =>
        /\ a.session \in DOMAIN issuer /\ a.subject \in Subjects
        /\ a.refresh \in 1 .. issuer[a.session].refresh
        /\ a.client = issuer[a.session].client

GoodRecord(r) ==
    /\ r.host <= hosts /\ r.client \in known \cup {0}
    /\ GoodAccount(r.account)
    /\ r.account # NoAccount => r.client = r.account.client

SessionsOK ==
    \A s \in DOMAIN issuer : issuer[s].client \in known /\ issuer[s].refresh >= 1

(* The sessions that were ever in the store. *)
Stored(s) == s = vault.account.session \/ \E a \in past : a.session = s

(* A record with an account that was read from the store at some time. *)
WasStored(r) ==
    /\ r.account # NoAccount /\ Stored(r.account.session)
    /\ r.account.session = vault.account.session =>
          /\ r.host = vault.host /\ r.account.subject = vault.account.subject
          /\ r.account.refresh <= vault.account.refresh

StoreOK ==
    /\ GoodRecord(vault)
    /\ \A a \in past :
          /\ a # NoAccount /\ GoodAccount(a)
          /\ a.session = vault.account.session => a.refresh < vault.account.refresh
    /\ \A s \in ended : Stored(s) /\ s # vault.account.session

LapsedOK ==
    /\ IsFiniteSet(lapsed) /\ Cardinality(lapsed) <= MaxLapses
    /\ \A a \in lapsed : GoodAccount(a)
    /\ \A s \in DOMAIN issuer : \A k \in 1 .. issuer[s].refresh - 1 :
          \E a \in lapsed : a.session = s /\ a.refresh = k

AttemptOK(x) ==
    /\ GoodRecord(x.prior)
    /\ x.status = "waiting" => x.subject = NoSubject
    /\ x.status = "called" =>
          /\ x.subject \in Subjects
          /\ IF x.prior.client = 0 THEN x.client \in 1 .. clients ELSE x.client = x.prior.client

AttemptsOK == \A a \in DOMAIN attempts : AttemptOK(attempts[a])

(* A login that may still exchange its code. *)
MayExchange(t) == t.op = "login" /\ t.step \in {"register", "exchange"}

MayCommit(t) == t.op = "login" /\ t.step = "commit"

LoginOK(t) ==
    t.op = "login" =>
        /\ t.attempt \in DOMAIN attempts /\ attempts[t.attempt].subject \in Subjects
        /\ GoodRecord(t.prior)
        /\ t.step = "register" => t.prior.client = 0 /\ attempts[t.attempt].client \in 1 .. clients
        /\ t.step = "exchange" => attempts[t.attempt].client \in known
        /\ t.step = "commit" =>
              /\ t.account # NoAccount /\ GoodAccount(t.account) /\ t.account.refresh = 1
              /\ issuer[t.account.session].refresh = 1 /\ ~issuer[t.account.session].revoked
              /\ ~Stored(t.account.session) /\ SameSubject(t.prior, t.account.subject)

UseOK(t) ==
    t.op = "use" =>
        /\ GoodRecord(t.record) /\ WasStored(t.record)
        /\ t.record.account.session \notin t.ended
        /\ t.step = "renew" => t.record.account \in lapsed
        /\ t.step = "rotate" => t.next = Renewed(t.record.account) /\ GoodAccount(t.next)

SignOutOK(t) ==
    t.op = "sign-out" =>
        /\ GoodRecord(t.record) /\ WasStored(t.record)
        /\ t.step = "revoke" => t.record.account.session \in ended

BeginOK(t) ==
    t.op = "begin" =>
        /\ t.record.account = NoAccount /\ t.record.client = 0 /\ t.record.host <= hosts

TaskOK(t) == BeginOK(t) /\ LoginOK(t) /\ UseOK(t) /\ SignOutOK(t)

TasksOK == \A p \in Processes : TaskOK(task[p])

CommitsAreDistinct ==
    \A p, q \in Processes :
        p # q /\ MayCommit(task[p]) /\ MayCommit(task[q])
            => task[p].account.session # task[q].account.session

LoginsInv ==
    /\ Shapes /\ SessionsOK /\ StoreOK /\ LapsedOK /\ AttemptsOK /\ TasksOK
    /\ CommitsAreDistinct /\ NoTokenAfterSignOut /\ StoredLoginsRenew

(* The counts. *)
Called == {a \in DOMAIN attempts : attempts[a].status = "called"}
Answered == {a \in DOMAIN attempts : attempts[a].subject # NoSubject}
Exchanging == {p \in Processes : MayExchange(task[p])}

SumOK == Len(issuer) + Cardinality(Exchanging) + Cardinality(Called) <= Cardinality(Answered)

RoomOK ==
    \A p \in Processes :
        /\ Cardinality(Open(p)) <= MaxAttempts
        /\ task[p].op = "begin" => Cardinality(Open(p)) < MaxAttempts

CountsInv == SumOK /\ RoomOK

IInv == LoginsInv /\ CountsInv

LEMMA NobodyFacts ==
    /\ NoAccount \in Accounts /\ NoAccount.session = 0 /\ NoAccount.client = 0 /\ NoAccount.refresh = 0
    /\ NoRecord \in Records /\ NoRecord.account = NoAccount /\ NoRecord.client = 0 /\ NoRecord.host = 0
  BY DEF NoAccount, NoRecord, Accounts, Records

LEMMA RecordFacts ==
    ASSUME NEW r \in Records
    PROVE  r.host \in Nat /\ r.client \in Nat /\ r.account \in Accounts
  BY DEF Records

LEMMA AccountFacts ==
    ASSUME NEW a \in Accounts
    PROVE  /\ a.session \in Nat /\ a.refresh \in Nat /\ a.client \in Nat
           /\ a.subject \in Subjects \cup {NoSubject}
  BY DEF Accounts

LEMMA RenewedFacts ==
    ASSUME NEW a \in Accounts
    PROVE  /\ Renewed(a) \in Accounts /\ Renewed(a).session = a.session
           /\ Renewed(a).refresh = a.refresh + 1 /\ Renewed(a).subject = a.subject
           /\ Renewed(a).client = a.client
  BY DEF Renewed, Accounts

LEMMA SessionFacts ==
    ASSUME NEW i \in Seq(Sessions), NEW s \in DOMAIN i
    PROVE  /\ i[s] \in Sessions /\ i[s].client \in Nat /\ i[s].refresh \in Nat
           /\ i[s].revoked \in BOOLEAN /\ s \in Nat /\ s >= 1 /\ s <= Len(i)
<1>1. i[s] \in Sessions /\ s \in Nat /\ s >= 1 /\ s <= Len(i)
  OBVIOUS
<1> QED BY <1>1 DEF Sessions

LEMMA AttemptFacts ==
    ASSUME Shapes, NEW a \in DOMAIN attempts
    PROVE  /\ attempts[a] \in Attempts /\ attempts[a].owner \in Processes
           /\ attempts[a].prior \in Records /\ attempts[a].client \in Nat
           /\ attempts[a].subject \in Subjects \cup {NoSubject}
           /\ attempts[a].status \in {"waiting", "called", "refused", "expired", "gone"}
           /\ a \in Nat /\ a >= 1 /\ a <= Len(attempts)
<1>1. attempts[a] \in Attempts /\ a \in Nat /\ a >= 1 /\ a <= Len(attempts)
  BY DEF Shapes
<1> QED BY <1>1 DEF Attempts

LEMMA TaskFacts ==
    ASSUME NEW t \in Tasks
    PROVE  /\ t.op \in {"idle", "begin", "login", "use", "sign-out"}
           /\ t.op = "idle" => t = Idle
           /\ t.op = "begin" => t.record \in Records
           /\ t.op = "login" => /\ t.attempt \in Nat /\ t.prior \in Records /\ t.account \in Accounts
                                /\ t.step \in {"register", "exchange", "commit"}
           /\ t.op = "use" => /\ t.record \in Records /\ t.next \in Accounts /\ t.ended \subseteq Nat
                              /\ t.step \in {"renew", "rotate", "verify"}
           /\ t.op = "sign-out" => t.record \in Records /\ t.step \in {"clear", "revoke"}
  BY DEF Tasks, Idle

LEMMA GoodFacts ==
    ASSUME Shapes, SessionsOK, NEW a \in Accounts, GoodAccount(a), a # NoAccount
    PROVE  /\ a.session \in Nat /\ a.session >= 1 /\ a.session \in DOMAIN issuer
           /\ a.refresh \in Nat /\ a.refresh >= 1 /\ a.refresh <= issuer[a.session].refresh
           /\ a.client \in known /\ a.client >= 1 /\ a.subject \in Subjects
<1>1. /\ a.session \in DOMAIN issuer /\ a.subject \in Subjects
      /\ a.refresh \in 1 .. issuer[a.session].refresh
      /\ a.client = issuer[a.session].client
  BY DEF GoodAccount
<1>2. a.client \in known /\ known \subseteq 1 .. clients /\ clients \in Nat
  BY <1>1 DEF SessionsOK, Shapes
<1>3. issuer \in Seq(Sessions)
  BY DEF Shapes
<1> QED BY <1>1, <1>2, <1>3, SessionFacts

\* A good record names its client itself.
LEMMA ReturningFacts ==
    ASSUME Shapes, NEW r \in Records, GoodRecord(r)
    PROVE  Returning(r) = r.client
  BY DEF GoodRecord, Returning

(***************************************************************************)
(* What only grows.                                                         *)
(***************************************************************************)
Grows ==
    /\ hosts' \in Nat /\ clients' \in Nat /\ issuer' \in Seq(Sessions)
    /\ hosts <= hosts' /\ clients <= clients' /\ known \subseteq known'
    /\ ended \subseteq ended' /\ lapsed \subseteq lapsed'
    /\ \A s \in DOMAIN issuer :
          /\ s \in DOMAIN issuer' /\ issuer'[s].client = issuer[s].client
          /\ issuer[s].refresh <= issuer'[s].refresh

LEMMA GoodAccountGrows ==
    ASSUME Shapes, Grows, NEW a \in Accounts, GoodAccount(a)
    PROVE  GoodAccount(a)'
<1> SUFFICES ASSUME a # NoAccount
             PROVE  /\ a.session \in DOMAIN issuer' /\ a.subject \in Subjects
                    /\ a.refresh \in 1 .. issuer'[a.session].refresh
                    /\ a.client = issuer'[a.session].client
  BY DEF GoodAccount
<1>1. /\ a.session \in DOMAIN issuer /\ a.subject \in Subjects
      /\ a.refresh \in 1 .. issuer[a.session].refresh
      /\ a.client = issuer[a.session].client
  BY DEF GoodAccount
<1>2. /\ a.session \in DOMAIN issuer' /\ issuer'[a.session].client = issuer[a.session].client
      /\ issuer[a.session].refresh <= issuer'[a.session].refresh
  BY <1>1 DEF Grows
<1>3. issuer[a.session].refresh \in Nat /\ issuer'[a.session].refresh \in Nat
  <2>1. issuer \in Seq(Sessions) /\ issuer' \in Seq(Sessions)
    BY DEF Shapes, Grows
  <2> QED BY <1>1, <1>2, <2>1, SessionFacts
<1> QED BY <1>1, <1>2, <1>3

LEMMA GoodRecordGrows ==
    ASSUME Shapes, Grows, NEW r \in Records, GoodRecord(r)
    PROVE  GoodRecord(r)'
<1>1. GoodAccount(r.account)'
  BY GoodAccountGrows, RecordFacts DEF GoodRecord
<1>2. r.host <= hosts'
  BY RecordFacts DEF Grows, GoodRecord, Shapes
<1> QED BY <1>1, <1>2 DEF GoodRecord, Grows

(***************************************************************************)
(* How the store changes: it is left alone, cleared, given a session it     *)
(* never had, or given the next token of the session it has.                *)
(***************************************************************************)
Kept == vault' = vault /\ past' = past

Cleared == vault'.account = NoAccount /\ past' = past \cup ({vault.account} \ {NoAccount})

Entered ==
    /\ vault'.account # NoAccount /\ ~Stored(vault'.account.session)
    /\ past' = past \cup ({vault.account} \ {vault'.account, NoAccount})

Turned ==
    /\ vault.account # NoAccount /\ vault'.host = vault.host
    /\ vault'.account = Renewed(vault.account)
    /\ past' = past \cup ({vault.account} \ {vault'.account, NoAccount})

StoreStep == Kept \/ Cleared \/ Entered \/ Turned

LEMMA TurnedFacts ==
    ASSUME Shapes, SessionsOK, StoreOK, Turned
    PROVE  /\ vault'.account.session = vault.account.session
           /\ vault'.account.refresh = vault.account.refresh + 1
           /\ vault'.account.subject = vault.account.subject
           /\ vault'.account # vault.account
           /\ past' = past \cup {vault.account}
<1>1. vault.account \in Accounts /\ vault.account.refresh \in Nat
  BY RecordFacts, AccountFacts DEF Shapes
<1>2. /\ vault'.account.session = vault.account.session
      /\ vault'.account.refresh = vault.account.refresh + 1
      /\ vault'.account.subject = vault.account.subject
  BY <1>1, RenewedFacts DEF Turned
<1>3. vault'.account # vault.account
  BY <1>1, <1>2
<1> QED BY <1>2, <1>3 DEF Turned

LEMMA StoredGrows ==
    ASSUME Shapes, SessionsOK, StoreOK, StoreStep, NEW s, Stored(s), s # 0
    PROVE  Stored(s)'
<1>1. CASE Kept
  BY <1>1 DEF Kept, Stored
<1>2. CASE Cleared
  BY <1>2, NobodyFacts DEF Cleared, Stored
<1>3. CASE Entered
  BY <1>3, NobodyFacts DEF Entered, Stored
<1>4. CASE Turned
  BY <1>4, TurnedFacts DEF Stored
<1> QED BY <1>1, <1>2, <1>3, <1>4 DEF StoreStep

LEMMA StoredComesFrom ==
    ASSUME Shapes, SessionsOK, StoreOK, StoreStep, NEW s, Stored(s)', s # 0
    PROVE  Stored(s) \/ (Entered /\ s = vault'.account.session)
<1>1. CASE Kept
  BY <1>1 DEF Kept, Stored
<1>2. CASE Cleared
  BY <1>2, NobodyFacts DEF Cleared, Stored
<1>3. CASE Entered
  BY <1>3 DEF Entered, Stored
<1>4. CASE Turned
  BY <1>4, TurnedFacts DEF Stored
<1> QED BY <1>1, <1>2, <1>3, <1>4 DEF StoreStep

LEMMA WasStoredStays ==
    ASSUME Shapes, SessionsOK, StoreOK, Shapes', StoreStep,
           NEW r \in Records, GoodRecord(r), WasStored(r)
    PROVE  WasStored(r)'
<1> DEFINE s == r.account.session
<1>1. r.account \in Accounts /\ r.account # NoAccount /\ Stored(s) /\ GoodAccount(r.account)
  BY RecordFacts DEF WasStored, GoodRecord
<1>2. s # 0
  BY <1>1, GoodFacts
<1>3. Stored(s)'
  BY <1>1, <1>2, StoredGrows
<1>4. ASSUME s = vault'.account.session
      PROVE  /\ r.host = vault'.host /\ r.account.subject = vault'.account.subject
             /\ r.account.refresh <= vault'.account.refresh
  <2>1. CASE Kept
    BY <1>4, <2>1 DEF Kept, WasStored
  <2>2. CASE Cleared
    BY <1>2, <1>4, <2>2, NobodyFacts DEF Cleared
  <2>3. CASE Entered
    BY <1>1, <1>4, <2>3 DEF Entered
  <2>4. CASE Turned
    <3>1. s = vault.account.session
      BY <1>4, <2>4, TurnedFacts
    <3>2. r.account.refresh \in Nat /\ vault.account.refresh \in Nat
      BY RecordFacts, AccountFacts DEF Shapes
    <3> QED BY <2>4, <3>1, <3>2, TurnedFacts DEF WasStored, Turned
  <2> QED BY <2>1, <2>2, <2>3, <2>4 DEF StoreStep
<1> QED BY <1>1, <1>3, <1>4 DEF WasStored

LEMMA StoreKeeps ==
    ASSUME Shapes, SessionsOK, StoreOK, Shapes', Grows, StoreStep, GoodRecord(vault)',
           \A s \in ended' : s \in ended \/ (Cleared /\ vault.account # NoAccount /\ s = vault.account.session)
    PROVE  StoreOK'
<1>1. vault \in Records /\ vault.account \in Accounts /\ GoodAccount(vault.account)
  BY RecordFacts DEF Shapes, StoreOK, GoodRecord
<1>2. ASSUME NEW a \in past' PROVE a # NoAccount /\ GoodAccount(a)'
  <2>1. a \in past \/ (a = vault.account /\ a # NoAccount)
    BY <1>2 DEF StoreStep, Kept, Cleared, Entered, Turned
  <2>2. a \in Accounts /\ a # NoAccount /\ GoodAccount(a)
    BY <1>1, <2>1 DEF StoreOK, Shapes
  <2> QED BY <2>2, GoodAccountGrows
<1>3. ASSUME NEW a \in past', a.session = vault'.account.session
      PROVE  a.refresh < vault'.account.refresh
  <2>1. a # NoAccount /\ a \in Accounts /\ GoodAccount(a)' /\ (a \in past \/ a = vault.account)
    BY <1>2, <1>3 DEF Shapes, StoreStep, Kept, Cleared, Entered, Turned
  <2>2. a.session # 0 /\ a.refresh \in Nat
    <3>1. GoodAccount(a)
      BY <1>1, <2>1 DEF StoreOK
    <3> QED BY <2>1, <3>1, GoodFacts
  <2>3. CASE Kept
    BY <1>3, <2>3 DEF Kept, StoreOK
  <2>4. CASE Cleared
    BY <1>3, <2>2, <2>4, NobodyFacts DEF Cleared
  <2>5. CASE Entered
    BY <1>3, <2>1, <2>5 DEF Entered, Stored
  <2>6. CASE Turned
    <3>1. vault.account.refresh \in Nat
      BY <1>1, AccountFacts
    <3>2. /\ a.session = vault.account.session
          /\ vault'.account.refresh = vault.account.refresh + 1
      BY <1>3, <2>6, TurnedFacts
    <3>3. a \in past => a.refresh < vault.account.refresh
      BY <3>2 DEF StoreOK
    <3> QED BY <2>1, <2>2, <3>1, <3>2, <3>3
  <2> QED BY <2>3, <2>4, <2>5, <2>6 DEF StoreStep
<1>4. ASSUME NEW s \in ended' PROVE Stored(s)' /\ s # vault'.account.session
  <2>1. CASE s \in ended
    <3>1. Stored(s) /\ s # vault.account.session /\ s # 0
      <4>1. Stored(s) /\ s # vault.account.session /\ s \in DOMAIN issuer /\ issuer \in Seq(Sessions)
        BY <2>1, Zenon DEF StoreOK, Shapes
      <4> QED BY ONLY <4>1
    <3>2. Stored(s)'
      BY <3>1, StoredGrows
    <3>3. s # vault'.account.session
      BY <3>1, TurnedFacts, NobodyFacts DEF StoreStep, Kept, Cleared, Entered
    <3> QED BY <3>2, <3>3
  <2>2. CASE Cleared /\ vault.account # NoAccount /\ s = vault.account.session
    BY <1>1, <2>2, NobodyFacts, GoodFacts DEF Cleared, Stored
  <2> QED BY <1>4, <2>1, <2>2
<1> QED BY <1>2, <1>3, <1>4 DEF StoreOK

\* What a process is in the middle of stays as good as it was.
LEMMA TaskStays ==
    ASSUME Shapes, SessionsOK, StoreOK, Shapes', Grows, StoreStep,
           NEW t \in Tasks, TaskOK(t),
           t.op = "login" => /\ t.attempt \in DOMAIN attempts'
                             /\ attempts'[t.attempt].subject = attempts[t.attempt].subject
                             /\ attempts'[t.attempt].client = attempts[t.attempt].client,
           MayCommit(t) => /\ issuer'[t.account.session] = issuer[t.account.session]
                           /\ Entered => vault'.account.session # t.account.session
    PROVE  TaskOK(t)'
<1> USE TaskFacts
<1>1. BeginOK(t)'
  <2> SUFFICES ASSUME t.op = "begin"
               PROVE  t.record.account = NoAccount /\ t.record.client = 0 /\ t.record.host <= hosts'
    BY DEF BeginOK
  <2>1. t.record.account = NoAccount /\ t.record.client = 0 /\ t.record.host <= hosts
    BY DEF TaskOK, BeginOK
  <2>2. t.record.host \in Nat /\ hosts \in Nat /\ hosts' \in Nat /\ hosts <= hosts'
    BY RecordFacts, Zenon DEF Grows, Shapes
  <2> QED BY ONLY <2>1, <2>2
<1>2. LoginOK(t)'
  <2> SUFFICES ASSUME t.op = "login" PROVE LoginOK(t)'
    BY DEF LoginOK
  <2>1. LoginOK(t)
    BY DEF TaskOK
  <2>2. GoodRecord(t.prior)'
    BY <2>1, GoodRecordGrows DEF LoginOK
  <2>3. ASSUME t.step = "commit"
        PROVE  /\ t.account # NoAccount /\ GoodAccount(t.account)' /\ t.account.refresh = 1
               /\ issuer'[t.account.session].refresh = 1 /\ ~issuer'[t.account.session].revoked
               /\ ~Stored(t.account.session)' /\ SameSubject(t.prior, t.account.subject)
    <3>1. /\ t.account # NoAccount /\ GoodAccount(t.account) /\ t.account.refresh = 1
          /\ issuer[t.account.session].refresh = 1 /\ ~issuer[t.account.session].revoked
          /\ ~Stored(t.account.session) /\ SameSubject(t.prior, t.account.subject)
      BY <2>1, <2>3 DEF LoginOK
    <3>2. MayCommit(t)
      BY <2>3 DEF MayCommit
    <3>3. t.account.session # 0
      BY <3>1, GoodFacts
    <3>4. ~Stored(t.account.session)'
      BY <3>1, <3>2, <3>3, StoredComesFrom
    <3>5. GoodAccount(t.account)'
      BY <3>1, GoodAccountGrows
    <3> QED BY <3>1, <3>2, <3>4, <3>5
  <2>4. t.step = "exchange" => attempts'[t.attempt].client \in known'
    BY <2>1 DEF LoginOK, Grows
  <2>5. t.step = "register" => t.prior.client = 0 /\ attempts'[t.attempt].client \in 1 .. clients'
    <3>1. t.step = "register" => t.prior.client = 0 /\ attempts'[t.attempt].client \in 1 .. clients
      BY <2>1, Zenon DEF LoginOK
    <3>2. clients \in Nat /\ clients' \in Nat /\ clients <= clients'
      BY Zenon DEF Grows, Shapes
    <3> QED BY ONLY <3>1, <3>2
  <2>6. t.attempt \in DOMAIN attempts' /\ attempts'[t.attempt].subject \in Subjects
    BY <2>1 DEF LoginOK
  <2> QED BY <2>2, <2>3, <2>4, <2>5, <2>6 DEF LoginOK
<1>3. UseOK(t)'
  <2> SUFFICES ASSUME t.op = "use" PROVE UseOK(t)'
    BY DEF UseOK
  <2>1. UseOK(t)
    BY DEF TaskOK
  <2>2. GoodRecord(t.record)' /\ WasStored(t.record)'
    BY <2>1, GoodRecordGrows, WasStoredStays DEF UseOK
  <2>3. t.step = "rotate" => t.next = Renewed(t.record.account) /\ GoodAccount(t.next)'
    BY <2>1, GoodAccountGrows DEF UseOK
  <2>4. t.step = "renew" => t.record.account \in lapsed'
    BY <2>1 DEF UseOK, Grows
  <2> QED BY <2>1, <2>2, <2>3, <2>4 DEF UseOK
<1>4. SignOutOK(t)'
  <2> SUFFICES ASSUME t.op = "sign-out" PROVE SignOutOK(t)'
    BY DEF SignOutOK
  <2>1. SignOutOK(t)
    BY DEF TaskOK
  <2>2. GoodRecord(t.record)' /\ WasStored(t.record)'
    BY <2>1, GoodRecordGrows, WasStoredStays DEF SignOutOK
  <2> QED BY <2>1, <2>2 DEF SignOutOK, Grows
<1> QED BY <1>1, <1>2, <1>3, <1>4 DEF TaskOK

(***************************************************************************)
(* What a step has to show of its own.                                      *)
(***************************************************************************)
AttemptsStay ==
    \A a \in DOMAIN attempts : attempts[a].subject \in Subjects =>
        /\ a \in DOMAIN attempts'
        /\ attempts'[a].subject = attempts[a].subject /\ attempts'[a].client = attempts[a].client

NoNewCommit == \A q \in Processes : MayCommit(task'[q]) => task'[q] = task[q]

LEMMA LoginsStep ==
    ASSUME LoginsInv, Shapes', Grows, StoreStep, GoodRecord(vault)',
           \A s \in ended' : s \in ended \/ (Cleared /\ vault.account # NoAccount /\ s = vault.account.session),
           SessionsOK', LapsedOK', AttemptsOK', AttemptsStay,
           \A q \in Processes : task'[q] # task[q] => TaskOK(task[q])',
           \A q \in Processes : MayCommit(task[q]) /\ task'[q] = task[q] =>
              /\ issuer'[task[q].account.session] = issuer[task[q].account.session]
              /\ Entered => vault'.account.session # task[q].account.session,
           CommitsAreDistinct', NoTokenAfterSignOut', StoredLoginsRenew'
    PROVE  LoginsInv'
<1>1. Shapes /\ SessionsOK /\ StoreOK /\ TasksOK
  BY DEF LoginsInv
<1>2. StoreOK'
  BY <1>1, StoreKeeps
<1>3. ASSUME NEW q \in Processes, task'[q] = task[q] PROVE TaskOK(task[q])'
  <2>1. task[q] \in Tasks /\ TaskOK(task[q])
    BY <1>1 DEF Shapes, TasksOK
  <2>2. task[q].op = "login" =>
          /\ task[q].attempt \in DOMAIN attempts'
          /\ attempts'[task[q].attempt].subject = attempts[task[q].attempt].subject
          /\ attempts'[task[q].attempt].client = attempts[task[q].attempt].client
    BY <2>1 DEF TaskOK, LoginOK, AttemptsStay
  <2> DEFINE t == task[q]
  <2>3. MayCommit(t) =>
          /\ issuer'[t.account.session] = issuer[t.account.session]
          /\ Entered => vault'.account.session # t.account.session
    BY <1>3
  <2> HIDE DEF t
  <2>4. ASSUME NEW u \in Tasks, u = t PROVE TaskOK(u)'
    BY <1>1, <2>1, <2>2, <2>3, <2>4, TaskStays DEF t
  <2>5. PICK u : u = task[q]
    OBVIOUS
  <2>6. TaskOK(u)' /\ u = task'[q]
    BY <1>3, <2>1, <2>4, <2>5 DEF t
  <2> QED BY <2>5, <2>6
<1>4. ASSUME NEW q \in Processes PROVE TaskOK(task[q])'
  BY <1>3
<1>5. TasksOK'
  BY <1>4 DEF TasksOK
<1> QED BY <1>2, <1>5 DEF LoginsInv

LEMMA DistinctStay ==
    ASSUME CommitsAreDistinct, NoNewCommit
    PROVE  CommitsAreDistinct'
  BY DEF CommitsAreDistinct, NoNewCommit

LEMMA RenewsStay ==
    ASSUME StoredLoginsRenew, faults \in Nat, faults' \in Nat, faults <= faults', vault' = vault,
           vault.account # NoAccount => issuer'[vault.account.session] = issuer[vault.account.session],
           \A q \in Processes : At(q, "use", "rotate") /\ task[q].record = vault =>
              task'[q] = task[q] \/ faults' # 0
    PROVE  StoredLoginsRenew'
<1> SUFFICES ASSUME faults' = 0, vault'.account # NoAccount
             PROVE  LET s == issuer'[vault'.account.session]
                    IN /\ ~s.revoked
                       /\ \/ s.refresh = vault'.account.refresh
                          \/ \E p \in Processes :
                                /\ task'[p].op = "use" /\ task'[p].step = "rotate"
                                /\ task'[p].record = vault' /\ task'[p].next.refresh = s.refresh
  BY DEF StoredLoginsRenew, At
<1>1. faults = 0 /\ vault.account # NoAccount
  OBVIOUS
<1>2. LET s == issuer[vault.account.session]
      IN /\ ~s.revoked
         /\ \/ s.refresh = vault.account.refresh
            \/ \E p \in Processes :
                  /\ task[p].op = "use" /\ task[p].step = "rotate"
                  /\ task[p].record = vault /\ task[p].next.refresh = s.refresh
  BY <1>1 DEF StoredLoginsRenew, At
<1> QED BY <1>1, <1>2 DEF At

\* A step that changes neither the store nor the issuer's sessions.
LEMMA QuietLogins ==
    ASSUME LoginsInv, Shapes', UNCHANGED <<vault, issuer, known, past, ended>>,
           hosts <= hosts', clients <= clients', lapsed \subseteq lapsed', faults <= faults',
           lapsed' = lapsed \/ LapsedOK', AttemptsOK', AttemptsStay,
           \A q \in Processes : task'[q] # task[q] => TaskOK(task[q])',
           NoNewCommit, NoTokenAfterSignOut',
           \A q \in Processes : At(q, "use", "rotate") => task'[q] = task[q] \/ faults' # 0
    PROVE  LoginsInv'
<1>1. Grows
  <2>1. \A s \in DOMAIN issuer : issuer[s].refresh \in Nat
    BY SessionFacts DEF LoginsInv, Shapes
  <2> QED BY <2>1 DEF Grows, LoginsInv, Shapes
<1>2. StoreStep
  BY DEF StoreStep, Kept
<1>3. GoodRecord(vault)'
  <2>1. GoodRecord(vault) /\ vault \in Records
    BY DEF LoginsInv, StoreOK, Shapes
  <2>2. \A r \in Records : GoodRecord(r) => GoodRecord(r)'
    BY <1>1, GoodRecordGrows DEF LoginsInv
  <2>3. PICK r \in Records : r = vault
    BY <2>1
  <2>4. GoodRecord(r)' /\ r = vault'
    BY <2>1, <2>2, <2>3
  <2> QED BY <2>4 DEF GoodRecord, GoodAccount
<1>4. SessionsOK'
  BY DEF LoginsInv, SessionsOK
<1>5. LapsedOK'
  BY DEF LoginsInv, LapsedOK, GoodAccount
<1>6. CommitsAreDistinct'
  BY DistinctStay DEF LoginsInv
<1>7. StoredLoginsRenew'
  BY RenewsStay DEF LoginsInv, Shapes
<1>8. ~Entered
  BY DEF Entered, Stored
<1> QED BY <1>1, <1>2, <1>3, <1>4, <1>5, <1>6, <1>7, <1>8, LoginsStep

LEMMA GoodRecordNow ==
    ASSUME LoginsInv
    PROVE  /\ vault \in Records /\ GoodRecord(vault) /\ vault.account \in Accounts
           /\ Returning(vault) = vault.client
  BY RecordFacts, ReturningFacts DEF LoginsInv, StoreOK, Shapes

(***************************************************************************)
(* The attempts: marked, reaped, dropped with their process, or begun.      *)
(***************************************************************************)
Over == {"refused", "expired", "gone"}

FadedTo(w) ==
    /\ Len(w) = Len(attempts) /\ DOMAIN w = DOMAIN attempts
    /\ \A b \in DOMAIN attempts :
          /\ w[b].owner = attempts[b].owner /\ w[b].prior = attempts[b].prior
          /\ w[b].client = attempts[b].client /\ w[b].subject = attempts[b].subject
          /\ w[b].status = attempts[b].status \/ w[b].status \in Over

Faded == FadedTo(attempts')

LEMMA StatusFacts ==
    ASSUME NEW x \in Attempts, NEW st \in {"waiting", "called", "refused", "expired", "gone"}
    PROVE  /\ [x EXCEPT !.status = st] \in Attempts /\ [x EXCEPT !.status = st].status = st
           /\ [x EXCEPT !.status = st].owner = x.owner /\ [x EXCEPT !.status = st].prior = x.prior
           /\ [x EXCEPT !.status = st].client = x.client /\ [x EXCEPT !.status = st].subject = x.subject
  BY DEF Attempts

\* Any change of a sequence that keeps its length.
LEMMA SameLength ==
    ASSUME NEW S, NEW i \in Seq(S), NEW j, DOMAIN j = DOMAIN i, j = [a \in DOMAIN j |-> j[a]],
           \A a \in DOMAIN i : j[a] \in S
    PROVE  j \in Seq(S) /\ Len(j) = Len(i)
<1>1. DOMAIN j = 1 .. Len(i) /\ Len(i) \in Nat
  OBVIOUS
<1>2. j \in [1 .. Len(i) -> S]
  BY <1>1
<1> QED BY <1>1, <1>2

LEMMA MarkFacts ==
    ASSUME Shapes, NEW a \in DOMAIN attempts, NEW st \in Over, Mark(a, st)
    PROVE  attempts' \in Seq(Attempts) /\ Faded /\ attempts'[a].status = st
<1>1. attempts' = [attempts EXCEPT ![a] = [attempts[a] EXCEPT !.status = st]]
  BY DEF Mark
<1> DEFINE x == [attempts[a] EXCEPT !.status = st]
<1>2. /\ x \in Attempts /\ x.status = st /\ x.owner = attempts[a].owner /\ x.prior = attempts[a].prior
      /\ x.client = attempts[a].client /\ x.subject = attempts[a].subject
  <2>1. attempts[a] \in Attempts /\ st \in {"waiting", "called", "refused", "expired", "gone"}
    BY AttemptFacts DEF Over
  <2>2. PICK y \in Attempts : y = attempts[a]
    BY <2>1
  <2>3. x = [y EXCEPT !.status = st]
    BY ONLY <2>2
  <2>4. /\ [y EXCEPT !.status = st] \in Attempts /\ [y EXCEPT !.status = st].status = st
        /\ [y EXCEPT !.status = st].owner = y.owner /\ [y EXCEPT !.status = st].prior = y.prior
        /\ [y EXCEPT !.status = st].client = y.client /\ [y EXCEPT !.status = st].subject = y.subject
    BY ONLY <2>1, StatusFacts
  <2> HIDE DEF x
  <2> QED BY ONLY <2>2, <2>3, <2>4, SMT
<1> HIDE DEF x
<1>3. /\ DOMAIN attempts' = DOMAIN attempts /\ attempts' = [b \in DOMAIN attempts' |-> attempts'[b]]
      /\ \A b \in DOMAIN attempts : attempts'[b] = IF b = a THEN x ELSE attempts[b]
  BY <1>1 DEF x
<1>4. \A b \in DOMAIN attempts : attempts'[b] \in Attempts
  BY <1>2, <1>3, AttemptFacts
<1>5. attempts' \in Seq(Attempts) /\ Len(attempts') = Len(attempts)
  BY <1>3, <1>4, SameLength DEF Shapes
<1> QED BY <1>2, <1>3, <1>5 DEF Faded, FadedTo

\* Attempts of which some are gone, as when they are reaped or their process dies.
LEMMA GoneFacts ==
    ASSUME Shapes, NEW W, NEW w,
           w = [a \in DOMAIN attempts |->
                          IF a \in W THEN [attempts[a] EXCEPT !.status = "gone"] ELSE attempts[a]]
    PROVE  /\ w \in Seq(Attempts) /\ FadedTo(w)
           /\ \A a \in DOMAIN attempts :
                 w[a].status = IF a \in W THEN "gone" ELSE attempts[a].status
<1>1. ASSUME NEW a \in DOMAIN attempts
      PROVE  /\ w[a] \in Attempts
             /\ w[a].owner = attempts[a].owner /\ w[a].prior = attempts[a].prior
             /\ w[a].client = attempts[a].client /\ w[a].subject = attempts[a].subject
             /\ w[a].status = IF a \in W THEN "gone" ELSE attempts[a].status
  <2>1. attempts[a] \in Attempts
    BY AttemptFacts
  <2>2. w[a] = IF a \in W THEN [attempts[a] EXCEPT !.status = "gone"] ELSE attempts[a]
    OBVIOUS
  <2>3. CASE a \in W
    <3>1. PICK x \in Attempts : x = attempts[a]
      BY <2>1
    <3>2. w[a] = [x EXCEPT !.status = "gone"]
      BY <2>2, <2>3, <3>1
    <3>3. /\ [x EXCEPT !.status = "gone"] \in Attempts /\ [x EXCEPT !.status = "gone"].status = "gone"
          /\ [x EXCEPT !.status = "gone"].owner = x.owner /\ [x EXCEPT !.status = "gone"].prior = x.prior
          /\ [x EXCEPT !.status = "gone"].client = x.client
          /\ [x EXCEPT !.status = "gone"].subject = x.subject
      BY StatusFacts
    <3> QED BY <2>3, <3>1, <3>2, <3>3
  <2>4. CASE a \notin W
    BY <2>1, <2>2, <2>4
  <2> QED BY <2>3, <2>4
<1>2. DOMAIN w = DOMAIN attempts /\ w = [b \in DOMAIN w |-> w[b]]
  OBVIOUS
<1>3. w \in Seq(Attempts) /\ Len(w) = Len(attempts)
  <2>1. attempts \in Seq(Attempts) /\ \A a \in DOMAIN attempts : w[a] \in Attempts
    BY <1>1 DEF Shapes
  <2> QED BY ONLY <1>2, <2>1, SameLength
<1> QED BY <1>1, <1>2, <1>3 DEF FadedTo, Over

LEMMA AttemptStays ==
    ASSUME Shapes, Grows, NEW x \in Attempts, AttemptOK(x), NEW y \in Attempts,
           y.prior = x.prior, y.client = x.client, y.subject = x.subject,
           y.status = x.status \/ y.status \in Over
    PROVE  AttemptOK(y)'
<1>1. GoodRecord(y.prior)'
  <2>1. y.prior \in Records /\ GoodRecord(y.prior)
    BY DEF AttemptOK, Attempts
  <2> QED BY <2>1, GoodRecordGrows
<1> QED BY <1>1 DEF AttemptOK, Over, Grows, Shapes

LEMMA FadedKeeps ==
    ASSUME Shapes, attempts' \in Seq(Attempts), AttemptsOK, Grows, Faded
    PROVE  AttemptsOK' /\ AttemptsStay
<1>1. AttemptsStay
  BY DEF AttemptsStay, Faded, FadedTo
<1>2. ASSUME NEW a \in DOMAIN attempts' PROVE AttemptOK(attempts[a])'
  <2>1. a \in DOMAIN attempts
    BY <1>2 DEF Faded, FadedTo
  <2>2. PICK x \in Attempts : x = attempts[a]
    BY <2>1, AttemptFacts
  <2>3. PICK y \in Attempts : y = attempts'[a]
    BY <1>2
  <2>4. AttemptOK(x)
    BY <2>1, <2>2 DEF AttemptsOK
  <2>5. /\ y.prior = x.prior /\ y.client = x.client /\ y.subject = x.subject
        /\ y.status = x.status \/ y.status \in Over
    BY <2>1, <2>2, <2>3 DEF Faded, FadedTo
  <2>6. AttemptOK(y)'
    BY <2>4, <2>5, AttemptStays
  <2> QED BY <2>3, <2>6
<1> QED BY <1>1, <1>2 DEF AttemptsOK

LEMMA GoFacts ==
    ASSUME Shapes, NEW p \in Processes, NEW t \in Tasks, Go(p, t)
    PROVE  /\ task' \in [Processes -> Tasks] /\ task'[p] = t
           /\ \A q \in Processes : q # p => task'[q] = task[q]
  BY DEF Go, Shapes

LEMMA IdleFacts ==
    /\ Idle \in Tasks /\ Idle.op = "idle" /\ ~MayCommit(Idle) /\ ~MayExchange(Idle)
    /\ TaskOK(Idle) /\ TaskOK(Idle)'
  BY DEF Idle, Tasks, MayCommit, MayExchange, TaskOK, BeginOK, LoginOK, UseOK, SignOutOK

LEMMA SameAttempts ==
    ASSUME UNCHANGED attempts
    PROVE  Faded
  BY DEF Faded, FadedTo

\* What a step may do to the tasks when it neither stores nor renews.
QuietTasks ==
    /\ task' \in [Processes -> Tasks]
    /\ \A q \in Processes : task'[q] # task[q] =>
          /\ TaskOK(task[q])' /\ ~MayCommit(task'[q])
          /\ At(q, "use", "rotate") => faults' # 0

LEMMA SameTasks ==
    ASSUME Shapes, UNCHANGED task
    PROVE  QuietTasks
  BY DEF QuietTasks, Shapes

LEMMA QuietGo ==
    ASSUME Shapes, NEW p \in Processes, NEW t \in Tasks, Go(p, t), TaskOK(t)', ~MayCommit(t),
           At(p, "use", "rotate") => faults' # 0
    PROVE  QuietTasks
<1>1. /\ task' \in [Processes -> Tasks] /\ task'[p] = t
      /\ \A q \in Processes : q # p => task'[q] = task[q]
  BY GoFacts
<1>2. TaskOK(task[p])' /\ ~MayCommit(task'[p])
  BY <1>1
<1> QED BY <1>1, <1>2 DEF QuietTasks

LEMMA QuietGrows ==
    ASSUME Shapes, UNCHANGED <<issuer, known, ended>>, lapsed \subseteq lapsed',
           hosts' \in Nat, hosts <= hosts', clients' \in Nat, clients <= clients'
    PROVE  Grows
<1>1. \A s \in DOMAIN issuer : issuer[s].refresh \in Nat
  BY SessionFacts DEF Shapes
<1> QED BY <1>1 DEF Grows, Shapes

LEMMA QuietStep ==
    ASSUME LoginsInv, UNCHANGED <<vault, issuer, known, past, ended>>,
           hosts' \in Nat, hosts <= hosts', clients' \in Nat, clients <= clients',
           lapsed' = lapsed \/ (lapsed' \subseteq Accounts /\ lapsed \subseteq lapsed' /\ LapsedOK'),
           faults' \in 0 .. MaxFaults, faults <= faults', signOuts' \in 0 .. MaxSignOuts,
           attempts' \in Seq(Attempts), Faded \/ (AttemptsOK' /\ AttemptsStay),
           QuietTasks, NoTokenAfterSignOut'
    PROVE  LoginsInv'
<1>1. Shapes /\ AttemptsOK
  BY DEF LoginsInv
<1>2. Shapes'
  <2>1. known' \subseteq 1 .. clients'
    BY <1>1 DEF Shapes
  <2> QED BY <1>1, <2>1 DEF Shapes, QuietTasks
<1>3. Grows
  BY <1>1, QuietGrows
<1>4. AttemptsOK' /\ AttemptsStay
  BY <1>1, <1>3, FadedKeeps
<1>5. NoNewCommit
  BY DEF QuietTasks, NoNewCommit
<1> QED BY <1>2, <1>4, <1>5, QuietLogins DEF QuietTasks

LEMMA SameAnswer ==
    ASSUME LoginsInv, UNCHANGED answer
    PROVE  NoTokenAfterSignOut'
  BY DEF LoginsInv, NoTokenAfterSignOut

(***************************************************************************)
(* The steps that leave the store and the sessions as they are.             *)
(***************************************************************************)
LEMMA ExpireKeeps == ASSUME LoginsInv, NEW a \in DOMAIN attempts, Expire(a) PROVE LoginsInv'
<1>1. Shapes /\ faults \in Nat
  BY DEF LoginsInv, Shapes
<1>2. attempts' \in Seq(Attempts) /\ Faded
  BY <1>1, MarkFacts DEF Expire, Over
<1> QED BY <1>1, <1>2, SameTasks, SameAnswer, QuietStep DEF Expire, Shapes, provider, history

LEMMA DropKeeps ==
    ASSUME LoginsInv, NEW p \in Processes, NEW a \in DOMAIN attempts, Drop(p, a) PROVE LoginsInv'
<1>1. Shapes
  BY DEF LoginsInv
<1>2. attempts' \in Seq(Attempts) /\ Faded
  BY <1>1, MarkFacts DEF Drop, Over
<1> QED BY <1>1, <1>2, SameTasks, SameAnswer, QuietStep DEF Drop, Shapes, provider, history

LEMMA VerifyKeeps == ASSUME LoginsInv, NEW p \in Processes, Verify(p) PROVE LoginsInv'
<1>1. Shapes /\ task[p] \in Tasks /\ TaskOK(task[p]) /\ task[p].op = "use" /\ task[p].step = "verify"
  BY DEF LoginsInv, Shapes, TasksOK, Verify, At
<1>2. NoTokenAfterSignOut'
  <2>1. task[p].record.account.session \notin task[p].ended
    BY <1>1 DEF TaskOK, UseOK
  <2>2. answer'.account = task[p].record.account /\ answer'.ended = task[p].ended
    BY DEF Verify
  <2> QED BY <2>1, <2>2 DEF NoTokenAfterSignOut
<1>3. QuietTasks
  <2>1. ~At(p, "use", "rotate")
    BY <1>1 DEF At
  <2> QED BY <1>1, <2>1, IdleFacts, QuietGo DEF Verify
<1> QED BY <1>1, <1>2, <1>3, SameAttempts, QuietStep DEF Verify, Shapes, provider, history

LEMMA DieKeeps == ASSUME LoginsInv, NEW p \in Processes, Die(p) PROVE LoginsInv'
<1>1. Shapes
  BY DEF LoginsInv
<1>2. attempts' \in Seq(Attempts) /\ Faded
  BY <1>1, GoneFacts DEF Die, Faded
<1>3. faults' \in 0 .. MaxFaults /\ faults <= faults' /\ faults' # 0
  BY <1>1, SignInAssumption DEF Die, Fault, Shapes
<1>4. QuietTasks
  BY <1>1, <1>3, IdleFacts, QuietGo DEF Die
<1> QED BY <1>1, <1>2, <1>3, <1>4, SameAnswer, QuietStep DEF Die, Shapes, provider, history

LEMMA LapseKeeps == ASSUME LoginsInv, Lapse PROVE LoginsInv'
<1>1. Shapes /\ LapsedOK
  BY DEF LoginsInv
<1>2. vault.account \in Accounts /\ GoodAccount(vault.account)
  BY GoodRecordNow DEF GoodRecord
<1>3. lapsed' = lapsed \cup {vault.account} /\ issuer' = issuer
  BY DEF Lapse, provider
<1>4. LapsedOK'
  <2>1. IsFiniteSet(lapsed) /\ vault.account \notin lapsed /\ Cardinality(lapsed) < MaxLapses
    BY <1>1 DEF LapsedOK, Lapse
  <2>2. IsFiniteSet(lapsed') /\ Cardinality(lapsed') = Cardinality(lapsed) + 1
    BY <1>3, <2>1, FS_AddElement
  <2>3. Cardinality(lapsed') <= MaxLapses
    BY <2>1, <2>2, FS_CardinalityType, SignInAssumption
  <2>4. \A a \in lapsed' : GoodAccount(a)'
    BY <1>1, <1>2, <1>3 DEF LapsedOK, GoodAccount
  <2>5. \A s \in DOMAIN issuer' : \A k \in 1 .. issuer'[s].refresh - 1 :
           \E a \in lapsed' : a.session = s /\ a.refresh = k
    BY <1>1, <1>3 DEF LapsedOK
  <2> QED BY <2>2, <2>3, <2>4, <2>5 DEF LapsedOK
<1> QED BY <1>1, <1>2, <1>3, <1>4, SameAttempts, SameTasks, SameAnswer, QuietStep
        DEF Lapse, Shapes, provider, history

LEMMA UseKeeps == ASSUME LoginsInv, NEW p \in Processes, Use(p) PROVE LoginsInv'
<1>1. Shapes /\ StoreOK
  BY DEF LoginsInv
<1>2. vault \in Records /\ GoodRecord(vault) /\ vault.account \in Accounts /\ vault.account # NoAccount
  BY GoodRecordNow DEF Use
<1>3. PICK t : t = [op |-> "use", record |-> vault, next |-> NoAccount, ended |-> ended,
                    step |-> IF vault.account \in lapsed THEN "renew" ELSE "verify"]
  OBVIOUS
<1>4. /\ t.op = "use" /\ t.record = vault /\ t.ended = ended
       /\ t.step = IF vault.account \in lapsed THEN "renew" ELSE "verify"
  BY <1>3
<1>5. t \in Tasks /\ Go(p, t)
  <2>1. ended \subseteq Nat
    BY <1>1 DEF Shapes
  <2>2. t \in [op : {"use"}, record : Records, next : Accounts, ended : SUBSET Nat,
               step : {"renew", "rotate", "verify"}]
    BY <1>2, <1>3, <2>1, NobodyFacts
  <2> QED BY <1>3, <2>2 DEF Tasks, Use
<1>6. /\ UNCHANGED <<vault, hosts, issuer, clients, attempts, lapsed, answer, known, past, ended>>
      /\ UNCHANGED <<signOuts, faults>> /\ ~At(p, "use", "rotate")
  BY DEF Use, provider, history, Idle, At
<1>7. TaskOK(t)'
  <2>1. GoodRecord(t.record)' /\ WasStored(t.record)'
    BY <1>2, <1>4, <1>6 DEF GoodRecord, GoodAccount, WasStored, Stored
  <2>2. t.record.account.session \notin t.ended
    BY <1>1, <1>4 DEF StoreOK
  <2>3. t.step # "rotate" /\ (t.step = "renew" => t.record.account \in lapsed')
    BY <1>4, <1>6
  <2> QED BY <1>4, <2>1, <2>2, <2>3 DEF TaskOK, BeginOK, LoginOK, UseOK, SignOutOK
<1>8. QuietTasks
  BY <1>1, <1>4, <1>5, <1>6, <1>7, QuietGo DEF MayCommit
<1> QED BY <1>1, <1>6, <1>8, SameAttempts, SameAnswer, QuietStep DEF Shapes

LEMMA SignOutKeeps == ASSUME LoginsInv, NEW p \in Processes, SignOut(p) PROVE LoginsInv'
<1>1. Shapes
  BY DEF LoginsInv
<1>2. vault \in Records /\ GoodRecord(vault) /\ vault.account # NoAccount
  BY GoodRecordNow DEF SignOut
<1>3. PICK t : t = [op |-> "sign-out", step |-> "clear", record |-> vault]
  OBVIOUS
<1>4. t.op = "sign-out" /\ t.record = vault /\ t.step = "clear"
  BY <1>3
<1>5. t \in Tasks /\ Go(p, t)
  BY <1>2, <1>3 DEF Tasks, SignOut
<1>6. /\ UNCHANGED <<vault, hosts, issuer, clients, attempts, lapsed, answer, known, past, ended>>
      /\ faults' = faults /\ ~At(p, "use", "rotate")
  BY DEF SignOut, provider, history, Idle, At
<1>7. TaskOK(t)'
  <2>1. GoodRecord(t.record)' /\ WasStored(t.record)'
    BY <1>2, <1>4, <1>6 DEF GoodRecord, GoodAccount, WasStored, Stored
  <2> QED BY <1>4, <2>1 DEF TaskOK, BeginOK, LoginOK, UseOK, SignOutOK
<1>8. QuietTasks
  BY <1>1, <1>4, <1>5, <1>6, <1>7, QuietGo DEF MayCommit
<1>9. signOuts' \in 0 .. MaxSignOuts
  BY <1>1, SignInAssumption DEF SignOut, Shapes
<1> QED BY <1>1, <1>6, <1>8, <1>9, SameAttempts, SameAnswer, QuietStep DEF Shapes

LEMMA PollKeeps ==
    ASSUME LoginsInv, NEW p \in Processes, NEW a \in DOMAIN attempts, Poll(p, a) PROVE LoginsInv'
<1>1. Shapes /\ AttemptOK(attempts[a])
  BY DEF LoginsInv, AttemptsOK
<1>2. attempts' \in Seq(Attempts) /\ Faded
  BY <1>1, MarkFacts DEF Poll, Over
<1>3. /\ attempts[a].prior \in Records /\ GoodRecord(attempts[a].prior) /\ a \in Nat
      /\ Returning(attempts[a].prior) = attempts[a].prior.client
      /\ attempts[a].status = "called"
  BY <1>1, AttemptFacts, ReturningFacts DEF AttemptOK, Poll
<1>4. PICK t : t = [op |-> "login", attempt |-> a, prior |-> attempts[a].prior, account |-> NoAccount,
                     step |-> IF Returning(attempts[a].prior) = 0 THEN "register" ELSE "exchange"]
  OBVIOUS
<1>5. /\ t.op = "login" /\ t.attempt = a /\ t.prior = attempts[a].prior
      /\ t.step = IF attempts[a].prior.client = 0 THEN "register" ELSE "exchange"
  BY <1>3, <1>4
<1>6. t \in Tasks /\ Go(p, t)
  BY <1>3, <1>4, NobodyFacts DEF Tasks, Poll
<1>7. /\ UNCHANGED <<vault, hosts, issuer, clients, lapsed, answer, known, past, ended, signOuts, faults>>
      /\ ~At(p, "use", "rotate")
  BY DEF Poll, provider, history, Idle, At
<1>8. TaskOK(t)'
  <2>1. GoodRecord(t.prior)'
    BY <1>3, <1>5, <1>7 DEF GoodRecord, GoodAccount
  <2>2. t.attempt \in DOMAIN attempts' /\ attempts'[t.attempt].subject \in Subjects
    BY <1>1, <1>2, <1>3, <1>5 DEF Faded, FadedTo, AttemptOK
  <2>3. attempts'[t.attempt].client = attempts[a].client
    BY <1>2, <1>5 DEF Faded, FadedTo
  <2>4. CASE attempts[a].prior.client = 0
    <3>1. t.step = "register" /\ t.prior.client = 0 /\ attempts[a].client \in 1 .. clients'
      BY <1>1, <1>3, <1>5, <1>7, <2>4 DEF AttemptOK
    <3> QED BY <1>5, <2>1, <2>2, <2>3, <3>1 DEF TaskOK, BeginOK, LoginOK, UseOK, SignOutOK
  <2>5. CASE attempts[a].prior.client # 0
    <3>1. t.step = "exchange" /\ attempts[a].client \in known'
      BY <1>1, <1>3, <1>5, <1>7, <2>5 DEF AttemptOK, GoodRecord
    <3> QED BY <1>5, <2>1, <2>2, <2>3, <3>1 DEF TaskOK, BeginOK, LoginOK, UseOK, SignOutOK
  <2> QED BY <2>4, <2>5
<1>9. QuietTasks
  BY <1>1, <1>5, <1>6, <1>7, <1>8, QuietGo DEF MayCommit
<1> QED BY <1>1, <1>2, <1>7, <1>9, SameAnswer, QuietStep DEF Shapes

LEMMA AppendFacts ==
    ASSUME NEW S, NEW i \in Seq(S), NEW x \in S
    PROVE  /\ Append(i, x) \in Seq(S) /\ Len(Append(i, x)) = Len(i) + 1
           /\ DOMAIN Append(i, x) = DOMAIN i \cup {Len(i) + 1} /\ Len(i) + 1 \notin DOMAIN i
           /\ Append(i, x)[Len(i) + 1] = x /\ \A k \in DOMAIN i : Append(i, x)[k] = i[k]
  OBVIOUS

\* A new attempt, after the ones that may have been reaped.
LEMMA BegunKeeps ==
    ASSUME Shapes, AttemptsOK, Grows, NEW w \in Seq(Attempts), FadedTo(w), NEW p \in Processes,
           NEW r \in Records, GoodRecord(r)', attempts' = Append(w, Attempt(p, r))
    PROVE  attempts' \in Seq(Attempts) /\ AttemptsOK' /\ AttemptsStay
<1> DEFINE x == Attempt(p, r)
<1>1. x \in Attempts /\ x.prior = r /\ x.status = "waiting" /\ x.subject = NoSubject
  BY DEF Attempt, Attempts
<1>2. AttemptOK(x)'
  BY <1>1 DEF AttemptOK
<1> HIDE DEF x
<1>3. /\ attempts' \in Seq(Attempts) /\ DOMAIN attempts' = DOMAIN w \cup {Len(w) + 1}
      /\ attempts'[Len(w) + 1] = x /\ \A k \in DOMAIN w : attempts'[k] = w[k]
      /\ Len(w) + 1 \notin DOMAIN w
  BY <1>1, AppendFacts DEF x
<1>4. ASSUME NEW a \in DOMAIN attempts' PROVE AttemptOK(attempts[a])'
  <2>1. CASE a \in DOMAIN w
    <3>1. PICK z \in Attempts : z = attempts[a] /\ a \in DOMAIN attempts
      BY <2>1, AttemptFacts DEF FadedTo
    <3>2. PICK y \in Attempts : y = w[a]
      BY <2>1
    <3>3. AttemptOK(z)
      BY <3>1 DEF AttemptsOK
    <3>4. /\ y.prior = z.prior /\ y.client = z.client /\ y.subject = z.subject
          /\ y.status = z.status \/ y.status \in Over
      BY <3>1, <3>2 DEF FadedTo
    <3>5. AttemptOK(y)'
      BY <3>3, <3>4, AttemptStays
    <3>6. attempts'[a] = y
      BY <1>3, <2>1, <3>2
    <3> QED BY <3>5, <3>6
  <2>2. CASE a = Len(w) + 1
    <3>1. attempts'[a] = x
      BY <1>3, <2>2
    <3>2. PICK y : y = x
      OBVIOUS
    <3> QED BY <1>2, <3>1, <3>2
  <2> QED BY <1>3, <2>1, <2>2
<1>5. AttemptsStay
  BY <1>3 DEF AttemptsStay, FadedTo
<1> QED BY <1>3, <1>4, <1>5 DEF AttemptsOK

LEMMA CallBackKeeps == ASSUME LoginsInv, NEW a \in DOMAIN attempts, CallBack(a) PROVE LoginsInv'
<1>1. Shapes /\ AttemptsOK /\ AttemptOK(attempts[a]) /\ attempts[a].status = "waiting"
  BY Zenon DEF LoginsInv, AttemptsOK, CallBack
<1>2. UNCHANGED <<vault, hosts, issuer, task, lapsed, answer, known, past, ended, signOuts, faults>>
  BY Zenon DEF CallBack, history
<1>3. CASE Mark(a, "refused") /\ UNCHANGED clients
  <2>1. attempts' \in Seq(Attempts) /\ Faded
    BY <1>1, <1>3, MarkFacts DEF Over
  <2> QED BY <1>1, <1>2, <1>3, <2>1, SameTasks, SameAnswer, QuietStep DEF Shapes
<1>4. ASSUME NEW s \in Subjects, NEW c, c = Returning(attempts[a].prior),
             clients' = (IF c = 0 THEN clients + 1 ELSE clients),
             attempts' = [attempts EXCEPT ![a].status = "called", ![a].subject = s,
                                          ![a].client = IF c = 0 THEN clients + 1 ELSE c]
      PROVE  LoginsInv'
  <2>1. /\ attempts[a] \in Attempts /\ attempts[a].prior \in Records /\ GoodRecord(attempts[a].prior)
        /\ c = attempts[a].prior.client /\ c \in Nat
    BY <1>1, <1>4, AttemptFacts, RecordFacts, ReturningFacts DEF AttemptOK
  <2>2. PICK d : d = IF c = 0 THEN clients + 1 ELSE c
    OBVIOUS
  <2>3. PICK x \in Attempts : x = attempts[a]
    BY <2>1
  <2>4. PICK y : y = [x EXCEPT !.status = "called", !.subject = s, !.client = d]
    OBVIOUS
  <2>5. /\ y \in Attempts /\ y.status = "called" /\ y.subject = s /\ y.client = d
        /\ y.prior = x.prior
    <3>1. d \in Nat
      BY <1>1, <2>1, <2>2 DEF Shapes
    <3> QED BY ONLY x \in Attempts, s \in Subjects, <2>4, <3>1 DEF Attempts
  <2>6. /\ DOMAIN attempts' = DOMAIN attempts /\ attempts' = [b \in DOMAIN attempts' |-> attempts'[b]]
        /\ attempts'[a] = y /\ \A b \in DOMAIN attempts : b # a => attempts'[b] = attempts[b]
    BY <1>4, <2>2, <2>3, <2>4
  <2>7. attempts' \in Seq(Attempts) /\ Len(attempts') = Len(attempts)
    <3>1. \A b \in DOMAIN attempts : attempts'[b] \in Attempts
      BY <1>1, <2>5, <2>6, AttemptFacts
    <3> QED BY <1>1, <2>6, <3>1, SameLength DEF Shapes
  <2>8. hosts' \in Nat /\ hosts <= hosts' /\ clients' \in Nat /\ clients <= clients'
    BY <1>1, <1>2, <1>4 DEF Shapes
  <2>9. Grows
    BY <1>1, <1>2, <2>8, QuietGrows
  <2>10. AttemptOK(y)'
    <3>1. GoodRecord(y.prior)'
      <4>1. y.prior \in Records /\ GoodRecord(y.prior)
        BY <2>1, <2>3, <2>5
      <4> QED BY <1>1, <2>9, <4>1, GoodRecordGrows
    <3>2. IF y.prior.client = 0 THEN y.client \in 1 .. clients' ELSE y.client = y.prior.client
      BY <1>1, <1>4, <2>1, <2>2, <2>3, <2>5 DEF Shapes
    <3> QED BY <2>5, <3>1, <3>2 DEF AttemptOK
  <2>11. ASSUME NEW b \in DOMAIN attempts' PROVE AttemptOK(attempts[b])'
    <3>1. CASE b = a
      BY <2>6, <2>10, <3>1
    <3>2. CASE b # a
      <4>1. PICK z \in Attempts : z = attempts[b] /\ AttemptOK(z)
        BY <1>1, <2>6, <2>11, AttemptFacts DEF AttemptsOK
      <4>2. AttemptOK(z)'
        BY <1>1, <2>9, <4>1, AttemptStays
      <4>3. attempts'[b] = z
        BY <2>6, <2>11, <3>2, <4>1
      <4> QED BY <4>2, <4>3
    <3> QED BY <3>1, <3>2
  <2>12. AttemptsStay
    <3>1. attempts[a].subject \notin Subjects
      BY <1>1, SignInAssumption DEF AttemptOK
    <3> QED BY <2>6, <3>1 DEF AttemptsStay
  <2> QED BY <1>1, <1>2, <2>7, <2>8, <2>11, <2>12, SameTasks, SameAnswer, QuietStep DEF Shapes, AttemptsOK
<1> QED BY <1>3, <1>4, Zenon DEF CallBack

LEMMA ReapedFacts ==
    ASSUME Shapes, NEW p
    PROVE  /\ Reaped(p) \in Seq(Attempts) /\ FadedTo(Reaped(p))
           /\ \A a \in DOMAIN attempts :
                 Reaped(p)[a].status = IF a \in Open(p) /\ attempts[a].status = "expired"
                                       THEN "gone" ELSE attempts[a].status
<1> DEFINE W == {a \in Open(p) : attempts[a].status = "expired"}
<1>1. Reaped(p) = [a \in DOMAIN attempts |->
                     IF a \in W THEN [attempts[a] EXCEPT !.status = "gone"] ELSE attempts[a]]
  BY DEF Reaped
<1>2. \A a : a \in W <=> a \in Open(p) /\ attempts[a].status = "expired"
  OBVIOUS
<1> HIDE DEF W
<1> QED BY <1>1, <1>2, GoneFacts

LEMMA BeginKeeps == ASSUME LoginsInv, NEW p \in Processes, Begin(p) PROVE LoginsInv'
<1>1. Shapes /\ AttemptsOK
  BY DEF LoginsInv
<1>2. /\ UNCHANGED <<vault, issuer, clients, lapsed, answer, known, past, ended, signOuts, faults>>
      /\ ~At(p, "use", "rotate")
  BY DEF Begin, provider, history, Idle, At
<1>3. Reaped(p) \in Seq(Attempts) /\ FadedTo(Reaped(p))
  BY <1>1, ReapedFacts
<1>4. CASE attempts' = Reaped(p) /\ UNCHANGED <<hosts, task>>
  BY <1>1, <1>2, <1>3, <1>4, SameTasks, SameAnswer, QuietStep DEF Shapes, Faded
<1>5. CASE attempts' = Append(Reaped(p), Attempt(p, vault)) /\ UNCHANGED <<hosts, task>>
  <2>1. Grows
    BY <1>1, <1>2, <1>5, QuietGrows DEF Shapes
  <2>2. PICK r \in Records : r = vault /\ GoodRecord(r)
    BY GoodRecordNow
  <2>3. GoodRecord(r)'
    BY <1>1, <2>1, <2>2, GoodRecordGrows
  <2>4. PICK w \in Seq(Attempts) : w = Reaped(p)
    BY <1>3
  <2>5. attempts' \in Seq(Attempts) /\ AttemptsOK' /\ AttemptsStay
    BY <1>1, <1>3, <1>5, <2>1, <2>2, <2>3, <2>4, BegunKeeps
  <2> QED BY <1>1, <1>2, <1>5, <2>5, SameTasks, SameAnswer, QuietStep DEF Shapes
<1>6. CASE /\ attempts' = Reaped(p) /\ hosts' = hosts + 1
           /\ Go(p, [op |-> "begin", record |-> [NoRecord EXCEPT !.host = hosts + 1]])
  <2>1. PICK r : r = [NoRecord EXCEPT !.host = hosts + 1]
    OBVIOUS
  <2>2. r \in Records /\ r.account = NoAccount /\ r.client = 0 /\ r.host = hosts'
    <3>1. NoRecord \in Records /\ NoRecord.account = NoAccount /\ NoRecord.client = 0
      BY NobodyFacts
    <3>2. hosts \in Nat /\ hosts' = hosts + 1
      BY <1>1, <1>6 DEF Shapes
    <3> QED BY ONLY <2>1, <3>1, <3>2 DEF Records
  <2>3. PICK t : t = [op |-> "begin", record |-> r]
    OBVIOUS
  <2>4. t \in Tasks /\ t.op = "begin" /\ t.record = r /\ Go(p, t)
    BY <1>6, <2>1, <2>2, <2>3 DEF Tasks
  <2>5. TaskOK(t)'
    BY <1>1, <1>6, <2>2, <2>4 DEF TaskOK, BeginOK, LoginOK, UseOK, SignOutOK, Shapes
  <2>6. QuietTasks
    BY <1>1, <1>2, <2>4, <2>5, QuietGo DEF MayCommit
  <2> QED BY <1>1, <1>2, <1>3, <1>6, <2>6, SameAnswer, QuietStep DEF Shapes, Faded
<1> QED BY <1>4, <1>5, <1>6 DEF Begin

(***************************************************************************)
(* The steps that store a record.                                           *)
(***************************************************************************)
LEMMA SaveFacts ==
    ASSUME Shapes, NEW r, NEW result \in {"stored", "failed"}, Save(r, result)
    PROVE  /\ Keep \/ Write(r)
           /\ result = "stored" => Write(r) /\ faults' = faults
           /\ faults' \in 0 .. MaxFaults /\ faults <= faults'
  BY SignInAssumption DEF Save, Fault, Shapes

LEMMA RotateFacts ==
    ASSUME Shapes, NEW e, NEW r, NEW result \in {"stored", "superseded", "failed"}, Rotate(e, r, result)
    PROVE  /\ Keep \/ (vault = e /\ Write(r))
           /\ result = "stored" => vault = e /\ Write(r) /\ faults' = faults
           /\ result = "superseded" => vault # e /\ Keep /\ faults' = faults
           /\ result = "failed" => faults' # 0
           /\ faults' \in 0 .. MaxFaults /\ faults <= faults'
  BY SignInAssumption DEF Rotate, Fault, Shapes

LEMMA WriteFacts ==
    ASSUME Shapes, NEW r \in Records, Returning(r) \in 0 .. clients, Keep \/ Write(r)
    PROVE  /\ vault' \in Records /\ past' \subseteq Accounts
           /\ known' \subseteq 1 .. clients /\ known \subseteq known'
           /\ Write(r) => vault' = r /\ Returning(r) \in known' \cup {0}
<1>1. vault.account \in Accounts /\ clients \in Nat
  BY RecordFacts DEF Shapes
<1>2. CASE Keep
  <2>1. Write(r) => known' = known \cup ({Returning(r)} \ {0}) /\ vault' = r
    BY DEF Write
  <2> QED BY <1>2, <2>1 DEF Keep, Shapes
<1>3. CASE Write(r)
  <2>1. /\ vault' = r /\ known' = known \cup ({Returning(r)} \ {0})
        /\ past' = past \cup ({vault.account} \ {r.account, NoAccount})
    BY <1>3 DEF Write
  <2>2. known \subseteq 1 .. clients /\ past \subseteq Accounts
    BY DEF Shapes
  <2>3. {Returning(r)} \ {0} \subseteq 1 .. clients
    BY <1>1
  <2> QED BY ONLY <1>1, <2>1, <2>2, <2>3, r \in Records
<1> QED BY <1>2, <1>3

StoreTasks ==
    /\ task' \in [Processes -> Tasks]
    /\ \A q \in Processes : task'[q] # task[q] => TaskOK(task[q])' /\ ~MayCommit(task'[q])

LEMMA StoreGo ==
    ASSUME Shapes, NEW p \in Processes, NEW t \in Tasks, Go(p, t), TaskOK(t)', ~MayCommit(t)
    PROVE  StoreTasks
<1>1. /\ task' \in [Processes -> Tasks] /\ task'[p] = t
      /\ \A q \in Processes : q # p => task'[q] = task[q]
  BY GoFacts
<1>2. TaskOK(task[p])' /\ ~MayCommit(task'[p])
  BY <1>1
<1> QED BY <1>1, <1>2 DEF StoreTasks

LEMMA StoreGrows ==
    ASSUME Shapes, NEW r \in Records, Returning(r) \in 0 .. clients, Keep \/ Write(r),
           UNCHANGED <<hosts, clients, issuer, lapsed>>, ended \subseteq ended'
    PROVE  Grows
<1>1. \A s \in DOMAIN issuer : issuer[s].refresh \in Nat
  BY SessionFacts DEF Shapes
<1>2. known \subseteq known'
  BY WriteFacts
<1> QED BY <1>1, <1>2 DEF Grows, Shapes

LEMMA StoreKeepsLogins ==
    ASSUME LoginsInv, NEW r \in Records, Returning(r) \in 0 .. clients, Keep \/ Write(r),
           Write(r) => StoreStep /\ GoodRecord(r)',
           UNCHANGED <<hosts, clients, issuer, lapsed, answer, signOuts>>,
           ended \subseteq ended', ended' \subseteq DOMAIN issuer,
           \A s \in ended' : s \in ended \/ (Cleared /\ vault.account # NoAccount /\ s = vault.account.session),
           faults' \in 0 .. MaxFaults, attempts' \in Seq(Attempts),
           Faded \/ (AttemptsOK' /\ AttemptsStay), StoreTasks,
           \A q \in Processes : MayCommit(task[q]) /\ task'[q] = task[q] /\ Entered
              => vault'.account.session # task[q].account.session,
           StoredLoginsRenew'
    PROVE  LoginsInv'
<1>1. Shapes /\ SessionsOK /\ LapsedOK /\ AttemptsOK /\ CommitsAreDistinct
  BY DEF LoginsInv
<1>2. /\ vault' \in Records /\ past' \subseteq Accounts /\ known' \subseteq 1 .. clients
      /\ known \subseteq known' /\ (Write(r) => vault' = r)
  BY <1>1, WriteFacts
<1>3. Shapes'
  BY <1>1, <1>2 DEF Shapes, StoreTasks
<1>4. Grows
  BY <1>1, StoreGrows
<1>5. StoreStep
  BY DEF StoreStep, Keep, Kept
<1>6. GoodRecord(vault)'
  <2>1. CASE Keep
    <3>1. PICK v \in Records : v = vault /\ GoodRecord(v)
      BY GoodRecordNow
    <3>2. GoodRecord(v)' /\ v = vault'
      BY <1>1, <1>4, <2>1, <3>1, GoodRecordGrows DEF Keep
    <3> QED BY <3>2
  <2>2. CASE Write(r)
    BY <1>2, <2>2
  <2> QED BY <2>1, <2>2
<1>7. AttemptsOK' /\ AttemptsStay
  BY <1>1, <1>4, FadedKeeps
<1>8. SessionsOK' /\ LapsedOK'
  <2>1. SessionsOK'
    BY <1>1, <1>2 DEF SessionsOK
  <2>2. LapsedOK'
    BY <1>1 DEF LapsedOK, GoodAccount
  <2> QED BY <2>1, <2>2
<1>9. CommitsAreDistinct'
  BY <1>1, DistinctStay DEF StoreTasks, NoNewCommit
<1>10. NoTokenAfterSignOut'
  BY SameAnswer
<1> QED BY <1>3, <1>4, <1>5, <1>6, <1>7, <1>8, <1>9, <1>10, LoginsStep DEF StoreTasks

\* A record without an account, as it is drawn, registered, or left by a sign-out.
LEMMA ClearedFacts ==
    ASSUME NEW r, r.account = NoAccount, Write(r)
    PROVE  Cleared /\ StoreStep /\ ~Entered /\ vault'.account = NoAccount
  BY DEF Write, Cleared, StoreStep, Entered

LEMMA ClearedRenews ==
    ASSUME LoginsInv, NEW r, r.account = NoAccount, Keep \/ Write(r), UNCHANGED issuer,
           faults' \in Nat, faults <= faults',
           \A q \in Processes : At(q, "use", "rotate") => task'[q] = task[q]
    PROVE  StoredLoginsRenew'
<1>1. CASE Keep
  BY <1>1, RenewsStay DEF Keep, LoginsInv, Shapes
<1>2. CASE Write(r)
  BY <1>2, ClearedFacts DEF StoredLoginsRenew
<1> QED BY <1>1, <1>2

LEMMA NotEntered ==
    ASSUME Kept
    PROVE  ~Entered
  BY DEF Kept, Entered, Stored

LEMMA DrawKeeps == ASSUME LoginsInv, NEW p \in Processes, Draw(p) PROVE LoginsInv'
<1>1. Shapes /\ AttemptsOK /\ task[p] \in Tasks /\ TaskOK(task[p]) /\ task[p].op = "begin"
  BY DEF LoginsInv, Shapes, TasksOK, Draw
<1>2. PICK r : r = task[p].record
  OBVIOUS
<1>3. r \in Records /\ r.account = NoAccount /\ r.client = 0 /\ r.host <= hosts /\ Returning(r) = 0
  BY <1>1, <1>2, TaskFacts DEF TaskOK, BeginOK, Returning
<1>4. PICK result \in {"stored", "failed"} :
         /\ Save(r, result)
         /\ attempts' = IF result = "stored" THEN Append(attempts, Attempt(p, r)) ELSE attempts
  BY <1>2 DEF Draw
<1>5. /\ (Keep \/ Write(r)) /\ (result = "stored" => Write(r))
      /\ faults' \in 0 .. MaxFaults /\ faults' \in Nat /\ faults <= faults'
  BY <1>1, <1>4, SaveFacts
<1>6. UNCHANGED <<hosts, clients, issuer, lapsed, answer, signOuts, ended>> /\ Go(p, Idle)
  BY DEF Draw, provider
<1>7. Grows
  BY <1>1, <1>3, <1>5, <1>6, StoreGrows DEF Shapes
<1>8. GoodRecord(r)'
  BY <1>1, <1>3, <1>6 DEF GoodRecord, GoodAccount
<1>9. attempts' \in Seq(Attempts) /\ (Faded \/ (AttemptsOK' /\ AttemptsStay))
  <2>1. CASE result = "stored"
    <3>1. PICK w \in Seq(Attempts) : w = attempts
      BY <1>1 DEF Shapes
    <3>2. FadedTo(w)
      BY <3>1 DEF FadedTo
    <3> QED BY <1>1, <1>3, <1>4, <1>7, <1>8, <2>1, <3>1, <3>2, BegunKeeps
  <2>2. CASE result = "failed"
    BY <1>1, <1>4, <2>2, SameAttempts DEF Shapes
  <2> QED BY <2>1, <2>2
<1>10. StoreTasks
  BY <1>1, <1>6, IdleFacts, StoreGo
<1>11. StoredLoginsRenew'
  <2>1. \A q \in Processes : At(q, "use", "rotate") => task'[q] = task[q]
    BY <1>1, <1>6, IdleFacts, GoFacts DEF At
  <2> QED BY <1>3, <1>5, <1>6, <2>1, ClearedRenews
<1>12. Returning(r) \in 0 .. clients /\ ended' \subseteq DOMAIN issuer /\ ~Entered
  <2>1. ~Entered
    BY <1>3, <1>5, ClearedFacts, NotEntered DEF Keep, Kept
  <2> QED BY <1>1, <1>3, <1>6, <2>1 DEF Shapes
<1> QED BY <1>3, <1>5, <1>6, <1>8, <1>9, <1>10, <1>11, <1>12, ClearedFacts, StoreKeepsLogins

Logins == [op : {"login"}, attempt : Nat, prior : Records, account : Accounts,
           step : {"register", "exchange", "commit"}]
Uses == [op : {"use"}, record : Records, next : Accounts, ended : SUBSET Nat,
         step : {"renew", "rotate", "verify"}]
SignOuts == [op : {"sign-out"}, step : {"clear", "revoke"}, record : Records]

LEMMA TaskKinds ==
    ASSUME NEW t \in Tasks
    PROVE  /\ t.op = "login" => t \in Logins
           /\ t.op = "use" => t \in Uses
           /\ t.op = "sign-out" => t \in SignOuts
  BY DEF Tasks, Logins, Uses, SignOuts, Idle

LEMMA KindsAreTasks == Logins \subseteq Tasks /\ Uses \subseteq Tasks /\ SignOuts \subseteq Tasks
  BY DEF Tasks, Logins, Uses, SignOuts

LEMMA RegisterKeeps == ASSUME LoginsInv, NEW p \in Processes, Register(p) PROVE LoginsInv'
<1>1. PICK t \in Tasks : t = task[p]
  BY DEF LoginsInv, Shapes
<1>2. Shapes /\ AttemptsOK /\ TaskOK(t) /\ t.op = "login" /\ t.step = "register" /\ t \in Logins
  BY <1>1, TaskKinds DEF LoginsInv, Shapes, TasksOK, Register, At
<1>3. /\ t.attempt \in DOMAIN attempts /\ attempts[t.attempt].subject \in Subjects
      /\ t.prior \in Records /\ GoodRecord(t.prior) /\ attempts[t.attempt].client \in 1 .. clients
  BY <1>2, TaskFacts DEF TaskOK, LoginOK
<1>4. PICK c : c = attempts[t.attempt].client
  OBVIOUS
<1>5. c \in 1 .. clients /\ c \in Nat /\ c # 0
  BY <1>2, <1>3, <1>4 DEF Shapes
<1>6. PICK r : r = [t.prior EXCEPT !.client = c, !.account = NoAccount]
  OBVIOUS
<1>7. r \in Records /\ r.host = t.prior.host /\ r.client = c /\ r.account = NoAccount
  BY ONLY <1>3, <1>5, <1>6, NobodyFacts DEF Records
<1>8. PICK u : u = [t EXCEPT !.step = "exchange", !.prior = r]
  OBVIOUS
<1>9. /\ u \in Tasks /\ u.op = "login" /\ u.step = "exchange" /\ u.prior = r
      /\ u.attempt = t.attempt
  <2>1. /\ u \in Logins /\ u.op = "login" /\ u.step = "exchange" /\ u.prior = r
        /\ u.attempt = t.attempt
    BY ONLY <1>2, <1>7, <1>8 DEF Logins
  <2> QED BY <2>1, KindsAreTasks
<1>10. PICK result \in {"stored", "superseded", "failed"} :
         Rotate(t.prior, r, result) /\ Go(p, IF result = "stored" THEN u ELSE Idle)
  BY <1>1, <1>4, <1>6, <1>8 DEF Register
<1>11. /\ (Keep \/ Write(r)) /\ (result = "stored" => Write(r))
       /\ faults' \in 0 .. MaxFaults /\ faults' \in Nat /\ faults <= faults'
  BY <1>2, <1>10, RotateFacts
<1>12. UNCHANGED <<hosts, clients, issuer, lapsed, answer, signOuts, ended, attempts>>
  BY DEF Register, provider
<1>13. Returning(r) = c /\ Returning(r) \in 0 .. clients
  BY <1>5, <1>7 DEF Returning
<1>14. Write(r) => c \in known'
  BY <1>5, <1>13 DEF Write
<1>15. Write(r) => GoodRecord(r)'
  BY <1>2, <1>3, <1>7, <1>12, <1>14, RecordFacts DEF GoodRecord, GoodAccount, Shapes
<1>16. StoreTasks
  <2>1. CASE result = "stored"
    <3>1. TaskOK(u)'
      BY <1>3, <1>4, <1>9, <1>11, <1>12, <1>14, <1>15, <2>1
         DEF TaskOK, BeginOK, LoginOK, UseOK, SignOutOK
    <3> QED BY <1>2, <1>9, <1>10, <2>1, <3>1, StoreGo DEF MayCommit
  <2>2. CASE result # "stored"
    BY <1>2, <1>10, <2>2, IdleFacts, StoreGo
  <2> QED BY <2>1, <2>2
<1>17. StoredLoginsRenew'
  <2>1. \A q \in Processes : At(q, "use", "rotate") => task'[q] = task[q]
    BY <1>1, <1>2, <1>9, <1>10, IdleFacts, GoFacts DEF At
  <2> QED BY <1>7, <1>11, <1>12, <2>1, ClearedRenews
<1>18. ended' \subseteq DOMAIN issuer /\ ~Entered
  <2>1. ~Entered
    BY <1>7, <1>11, ClearedFacts, NotEntered DEF Keep, Kept
  <2> QED BY <1>2, <1>12, <2>1 DEF Shapes
<1>19. attempts' \in Seq(Attempts) /\ Faded
  BY <1>2, <1>12, SameAttempts DEF Shapes
<1> QED BY <1>7, <1>11, <1>12, <1>13, <1>15, <1>16, <1>17, <1>18, <1>19, ClearedFacts, StoreKeepsLogins

LEMMA ClearKeeps == ASSUME LoginsInv, NEW p \in Processes, Clear(p) PROVE LoginsInv'
<1>1. PICK t \in Tasks : t = task[p]
  BY DEF LoginsInv, Shapes
<1>2. Shapes /\ SessionsOK /\ StoreOK /\ AttemptsOK /\ TaskOK(t) /\ t.op = "sign-out" /\ t \in SignOuts
  BY <1>1, TaskKinds DEF LoginsInv, Shapes, TasksOK, Clear, At
<1>3. t.record \in Records /\ GoodRecord(t.record) /\ WasStored(t.record)
  BY <1>2, TaskFacts DEF TaskOK, SignOutOK
<1>4. PICK s : s = t.record.account.session
  OBVIOUS
<1>5. /\ Returning(t.record) = t.record.client /\ t.record.client \in known \cup {0}
      /\ t.record.account \in Accounts /\ t.record.account # NoAccount /\ s \in DOMAIN issuer
      /\ t.record.client \in Nat
  BY <1>2, <1>3, <1>4, ReturningFacts, RecordFacts, GoodFacts DEF GoodRecord, WasStored
<1>6. PICK r : r = SignedOut(t.record)
  OBVIOUS
<1>7. r \in Records /\ r.host = t.record.host /\ r.client = t.record.client /\ r.account = NoAccount
  BY ONLY <1>3, <1>5, <1>6, NobodyFacts DEF Records, SignedOut
<1>8. PICK u : u = [t EXCEPT !.step = "revoke"]
  OBVIOUS
<1>9. u \in Tasks /\ u.op = "sign-out" /\ u.step = "revoke" /\ u.record = t.record
  <2>1. u \in SignOuts /\ u.op = "sign-out" /\ u.step = "revoke" /\ u.record = t.record
    BY ONLY <1>2, <1>8 DEF SignOuts
  <2> QED BY <2>1, KindsAreTasks
<1>10. PICK result \in {"stored", "superseded", "failed"} :
          /\ Rotate(t.record, r, result) /\ Go(p, IF result = "stored" THEN u ELSE Idle)
          /\ ended' = IF result = "stored" THEN ended \cup {s} ELSE ended
  BY <1>1, <1>4, <1>6, <1>8 DEF Clear
<1>11. /\ (Keep \/ Write(r)) /\ (result = "stored" => Write(r) /\ vault = t.record)
       /\ faults' \in 0 .. MaxFaults /\ faults' \in Nat /\ faults <= faults'
  BY <1>2, <1>10, RotateFacts
<1>12. UNCHANGED <<hosts, clients, issuer, lapsed, answer, signOuts, attempts>>
  BY DEF Clear, provider
<1>13. Returning(r) = r.client /\ Returning(r) \in 0 .. clients
  BY <1>2, <1>5, <1>7 DEF Returning, Shapes
<1>14. Grows
  <2>1. ended \subseteq ended'
    BY <1>10
  <2> QED BY <1>2, <1>7, <1>11, <1>12, <1>13, <2>1, StoreGrows
<1>15. GoodRecord(r)' /\ GoodRecord(t.record)'
  <2>1. GoodRecord(t.record)'
    BY <1>2, <1>3, <1>14, GoodRecordGrows
  <2> QED BY <1>7, <2>1 DEF GoodRecord, GoodAccount
<1>16. StoreTasks
  <2>1. CASE result = "stored"
    <3>1. Cleared /\ vault'.account = NoAccount /\ StoreStep
      BY <1>7, <1>11, <2>1, ClearedFacts
    <3>2. s # 0 /\ Stored(s)'
      BY <1>2, <1>3, <1>4, <1>5, <3>1, StoredGrows DEF WasStored, Shapes
    <3>3. WasStored(t.record)'
      BY <1>4, <1>5, <3>1, <3>2, NobodyFacts DEF WasStored
    <3>4. s \in ended'
      BY <1>10, <2>1
    <3>5. TaskOK(u)'
      BY <1>4, <1>9, <1>15, <3>3, <3>4 DEF TaskOK, BeginOK, LoginOK, UseOK, SignOutOK
    <3> QED BY <1>2, <1>9, <1>10, <2>1, <3>5, StoreGo DEF MayCommit
  <2>2. CASE result # "stored"
    BY <1>2, <1>10, <2>2, IdleFacts, StoreGo
  <2> QED BY <2>1, <2>2
<1>17. StoredLoginsRenew'
  <2>1. \A q \in Processes : At(q, "use", "rotate") => task'[q] = task[q]
    BY <1>1, <1>2, <1>9, <1>10, IdleFacts, GoFacts DEF At
  <2> QED BY <1>7, <1>11, <1>12, <2>1, ClearedRenews
<1>18. ended' \subseteq DOMAIN issuer /\ ended \subseteq ended' /\ ~Entered
  <2>1. ~Entered
    BY <1>7, <1>11, ClearedFacts, NotEntered DEF Keep, Kept
  <2> QED BY <1>2, <1>5, <1>10, <2>1 DEF Shapes
<1>19. \A k \in ended' : k \in ended \/ (Cleared /\ vault.account # NoAccount /\ k = vault.account.session)
  BY <1>4, <1>5, <1>7, <1>10, <1>11, ClearedFacts
<1>20. attempts' \in Seq(Attempts) /\ Faded
  BY <1>2, <1>12, SameAttempts DEF Shapes
<1> QED BY <1>7, <1>11, <1>12, <1>13, <1>15, <1>16, <1>17, <1>18, <1>19, <1>20, ClearedFacts, StoreKeepsLogins

LEMMA CompleteKeeps == ASSUME LoginsInv, NEW p \in Processes, Complete(p) PROVE LoginsInv'
<1>1. PICK t \in Tasks : t = task[p]
  BY DEF LoginsInv, Shapes
<1>2. /\ Shapes /\ SessionsOK /\ CommitsAreDistinct /\ TaskOK(t) /\ t.op = "login" /\ t.step = "commit"
      /\ MayCommit(t)
  BY <1>1 DEF LoginsInv, Shapes, TasksOK, Complete, At, MayCommit
<1>3. /\ t.prior \in Records /\ GoodRecord(t.prior) /\ t.account \in Accounts
      /\ t.account # NoAccount /\ GoodAccount(t.account) /\ t.account.refresh = 1
      /\ issuer[t.account.session].refresh = 1 /\ ~issuer[t.account.session].revoked
      /\ ~Stored(t.account.session)
  BY <1>2, TaskFacts DEF TaskOK, LoginOK
<1>4. t.account.client \in known /\ t.account.client \in Nat
  BY <1>2, <1>3, GoodFacts, AccountFacts
<1>5. PICK r : r = [host |-> t.prior.host, client |-> t.account.client, account |-> t.account]
  OBVIOUS
<1>6. r \in Records /\ r.host = t.prior.host /\ r.client = t.account.client /\ r.account = t.account
  BY <1>3, <1>4, <1>5, RecordFacts DEF Records
<1>7. PICK result \in {"stored", "superseded", "failed"} : Rotate(t.prior, r, result)
  BY <1>1, <1>5 DEF Complete
<1>8. /\ (Keep \/ Write(r)) /\ (result = "stored" => Write(r))
      /\ faults' \in 0 .. MaxFaults /\ faults' \in Nat /\ faults <= faults'
  BY <1>2, <1>7, RotateFacts
<1>9. UNCHANGED <<hosts, clients, issuer, lapsed, answer, signOuts, ended, attempts>> /\ Go(p, Idle)
  BY DEF Complete, provider
<1>10. Returning(r) = r.client /\ Returning(r) \in 0 .. clients
  BY <1>2, <1>4, <1>6 DEF Returning, Shapes
<1>11. Grows
  BY <1>2, <1>6, <1>8, <1>9, <1>10, StoreGrows
<1>12. GoodRecord(r)'
  <2>1. GoodAccount(t.account)' /\ GoodRecord(t.prior)'
    BY <1>2, <1>3, <1>11, GoodAccountGrows, GoodRecordGrows
  <2>2. t.account.client \in known'
    BY <1>4, <1>11 DEF Grows
  <2> QED BY <1>6, <2>1, <2>2 DEF GoodRecord
<1>13. Write(r) => vault'.account = t.account /\ Entered
  BY <1>3, <1>6 DEF Write, Entered
<1>14. StoreTasks /\ task'[p] = Idle /\ \A q \in Processes : q # p => task'[q] = task[q]
  BY <1>2, <1>9, IdleFacts, GoFacts, StoreGo
<1>15. ASSUME NEW q \in Processes, MayCommit(task[q]), task'[q] = task[q], Entered
       PROVE  vault'.account.session # task[q].account.session
  <2>1. Write(r) /\ vault'.account = t.account
    BY <1>8, <1>13, <1>15, NotEntered DEF Keep, Kept
  <2>2. q # p
    BY <1>14, <1>15, IdleFacts
  <2> QED BY <1>1, <1>2, <1>15, <2>1, <2>2 DEF CommitsAreDistinct
<1>16. StoredLoginsRenew'
  <2>1. CASE Keep
    <3>1. \A q \in Processes : At(q, "use", "rotate") => task'[q] = task[q]
      BY <1>1, <1>2, <1>14 DEF At
    <3> QED BY <1>8, <1>9, <2>1, <3>1, RenewsStay DEF Keep, LoginsInv, Shapes
  <2>2. CASE Write(r)
    BY <1>3, <1>9, <1>13, <2>2 DEF StoredLoginsRenew
  <2> QED BY <1>8, <2>1, <2>2
<1>17. ended' \subseteq DOMAIN issuer /\ ended \subseteq ended'
  BY <1>2, <1>9 DEF Shapes
<1>18. attempts' \in Seq(Attempts) /\ Faded
  BY <1>2, <1>9, SameAttempts DEF Shapes
<1>19. Write(r) => StoreStep
  BY <1>13 DEF StoreStep
<1> QED BY <1>6, <1>8, <1>9, <1>10, <1>12, <1>14, <1>15, <1>16, <1>17, <1>18, <1>19, StoreKeepsLogins

LEMMA RotatedKeeps == ASSUME LoginsInv, NEW p \in Processes, Rotated(p) PROVE LoginsInv'
<1>1. PICK t \in Tasks : t = task[p]
  BY DEF LoginsInv, Shapes
<1>2. Shapes /\ SessionsOK /\ StoreOK /\ TaskOK(t) /\ t.op = "use" /\ t.step = "rotate" /\ t \in Uses
  BY <1>1, TaskKinds DEF LoginsInv, Shapes, TasksOK, Rotated, At
<1>3. /\ t.record \in Records /\ GoodRecord(t.record) /\ WasStored(t.record) /\ t.next \in Accounts
      /\ t.record.account.session \notin t.ended
      /\ t.next = Renewed(t.record.account) /\ GoodAccount(t.next)
  BY <1>2, TaskFacts DEF TaskOK, UseOK
<1>4. /\ t.record.account \in Accounts /\ t.record.account # NoAccount
      /\ t.record.client = t.record.account.client /\ t.record.client \in known
      /\ t.record.account.session # 0 /\ t.record.client # 0
  BY <1>2, <1>3, RecordFacts, GoodFacts DEF GoodRecord, WasStored
<1>5. /\ t.next.session = t.record.account.session /\ t.next.client = t.record.account.client
      /\ t.next.refresh = t.record.account.refresh + 1 /\ t.next # NoAccount
  BY <1>3, <1>4, RenewedFacts, NobodyFacts
<1>6. PICK r : r = [t.record EXCEPT !.account = t.next]
  OBVIOUS
<1>7. r \in Records /\ r.host = t.record.host /\ r.client = t.record.client /\ r.account = t.next
  BY ONLY <1>3, <1>6 DEF Records
<1>8. PICK u : u = [t EXCEPT !.step = "verify", !.record = r]
  OBVIOUS
<1>9. u \in Tasks /\ u.op = "use" /\ u.step = "verify" /\ u.record = r /\ u.ended = t.ended
  <2>1. u \in Uses /\ u.op = "use" /\ u.step = "verify" /\ u.record = r /\ u.ended = t.ended
    BY ONLY <1>2, <1>7, <1>8 DEF Uses
  <2> QED BY <2>1, KindsAreTasks
<1>10. PICK result \in {"stored", "superseded", "failed"} :
          Rotate(t.record, r, result) /\ Go(p, IF result = "stored" THEN u ELSE Idle)
  BY <1>1, <1>6, <1>8 DEF Rotated
<1>11. /\ (Keep \/ (vault = t.record /\ Write(r))) /\ (result = "stored" => vault = t.record /\ Write(r))
       /\ result = "superseded" => vault # t.record /\ Keep
       /\ result = "failed" => faults' # 0
       /\ faults' \in 0 .. MaxFaults /\ faults' \in Nat /\ faults <= faults'
  BY <1>2, <1>10, RotateFacts
<1>12. UNCHANGED <<hosts, clients, issuer, lapsed, answer, signOuts, ended, attempts>>
  BY DEF Rotated, provider
<1>13. Returning(r) = r.client /\ Returning(r) \in 0 .. clients
  <2>1. r.account # NoAccount /\ r.account.client = r.client
    BY <1>4, <1>5, <1>7
  <2>2. r.client \in 1 .. clients
    BY <1>2, <1>4, <1>7 DEF Shapes
  <2> QED BY <2>1, <2>2 DEF Returning
<1>14. Grows
  BY <1>2, <1>7, <1>11, <1>12, <1>13, StoreGrows
<1>15. GoodRecord(r)'
  <2>1. GoodAccount(t.next)' /\ GoodRecord(t.record)'
    BY <1>2, <1>3, <1>14, GoodAccountGrows, GoodRecordGrows
  <2> QED BY <1>4, <1>5, <1>7, <2>1 DEF GoodRecord
<1>16. vault = t.record /\ Write(r) => Turned /\ vault' = r
  BY <1>3, <1>4, <1>7 DEF Write, Turned
<1>17. Keep \/ (Turned /\ StoreStep /\ vault' = r /\ vault = t.record)
  BY <1>11, <1>16 DEF StoreStep
<1>18. ~Entered
  <2>1. ASSUME Turned PROVE ~Entered
    BY <1>2, <2>1, TurnedFacts DEF Entered, Stored
  <2> QED BY <1>17, <2>1, NotEntered DEF Keep, Kept
<1>19. StoreTasks
  <2>1. CASE result = "stored"
    <3>1. vault' = r
      BY <1>11, <2>1 DEF Write
    <3>2. WasStored(r)'
      <4>1. r.account # NoAccount /\ r.account.refresh \in Nat
        BY <1>3, <1>5, <1>7, AccountFacts
      <4> QED BY <3>1, <4>1 DEF WasStored, Stored
    <3>3. TaskOK(u)'
      BY <1>3, <1>5, <1>7, <1>9, <1>15, <3>2 DEF TaskOK, BeginOK, LoginOK, UseOK, SignOutOK
    <3> QED BY <1>2, <1>9, <1>10, <2>1, <3>3, StoreGo DEF MayCommit
  <2>2. CASE result # "stored"
    BY <1>2, <1>10, <2>2, IdleFacts, StoreGo
  <2> QED BY <2>1, <2>2
<1>20. StoredLoginsRenew'
  <2>1. CASE result = "superseded"
    <3>1. \A q \in Processes : At(q, "use", "rotate") /\ task[q].record = vault => task'[q] = task[q]
      BY <1>1, <1>2, <1>9, <1>10, <1>11, <2>1, IdleFacts, GoFacts
    <3> QED BY <1>11, <1>12, <2>1, <3>1, RenewsStay DEF Keep, LoginsInv, Shapes
  <2>2. CASE result = "failed"
    BY <1>11, <2>2 DEF StoredLoginsRenew
  <2>3. CASE result = "stored"
    <3>1. vault = t.record /\ vault' = r /\ faults' = faults
      BY <1>2, <1>10, <2>3, RotateFacts DEF Write
    <3> SUFFICES ASSUME faults = 0
                 PROVE  /\ ~issuer[t.next.session].revoked
                        /\ issuer[t.next.session].refresh = t.next.refresh
      BY <1>7, <1>12, <3>1 DEF StoredLoginsRenew
    <3>2. PICK s : s = issuer[t.record.account.session]
      OBVIOUS
    <3>3. /\ ~s.revoked
          /\ \/ s.refresh = t.record.account.refresh
             \/ \E q \in Processes :
                   /\ At(q, "use", "rotate") /\ task[q].record = t.record
                   /\ task[q].next.refresh = s.refresh
      BY <1>4, <3>1, <3>2 DEF LoginsInv, StoredLoginsRenew
    <3>4. t.next.refresh <= s.refresh /\ s.refresh \in Nat /\ t.record.account.refresh \in Nat
      BY <1>2, <1>3, <1>4, <1>5, <3>2, SessionFacts, AccountFacts, GoodFacts DEF Shapes
    <3>5. ASSUME NEW q \in Processes, At(q, "use", "rotate"), task[q].record = t.record
          PROVE  task[q].next = t.next
      <4>1. TaskOK(task[q]) /\ task[q].op = "use" /\ task[q].step = "rotate"
        BY <3>5 DEF LoginsInv, TasksOK, At
      <4> QED BY <1>3, <3>5, <4>1 DEF TaskOK, UseOK
    <3>6. s.refresh = t.next.refresh
      BY <1>5, <3>3, <3>4, <3>5
    <3> QED BY <1>5, <3>2, <3>3, <3>6
  <2> QED BY <2>1, <2>2, <2>3
<1>21. ended' \subseteq DOMAIN issuer /\ ended \subseteq ended'
  BY <1>2, <1>12 DEF Shapes
<1>22. attempts' \in Seq(Attempts) /\ Faded
  BY <1>2, <1>12, SameAttempts DEF Shapes
<1>23. (Keep \/ Write(r)) /\ (Write(r) => StoreStep)
  <2>1. Keep => StoreStep
    BY DEF Keep, Kept, StoreStep
  <2> QED BY <1>11, <1>17, <2>1
<1> QED BY <1>7, <1>11, <1>12, <1>13, <1>15, <1>18, <1>19, <1>20, <1>21, <1>22, <1>23, StoreKeepsLogins

(***************************************************************************)
(* The steps in which the issuer opens, turns or ends a session.            *)
(***************************************************************************)
LEMMA IssuerKeepsLogins ==
    ASSUME LoginsInv, Grows, SessionsOK', LapsedOK',
           UNCHANGED <<vault, hosts, clients, attempts, lapsed, answer, known, past, ended, signOuts>>,
           faults' \in 0 .. MaxFaults, task' \in [Processes -> Tasks],
           \A q \in Processes : task'[q] # task[q] => TaskOK(task[q])',
           \A q \in Processes : MayCommit(task[q]) /\ task'[q] = task[q]
              => issuer'[task[q].account.session] = issuer[task[q].account.session],
           CommitsAreDistinct', StoredLoginsRenew'
    PROVE  LoginsInv'
<1>1. Shapes /\ AttemptsOK
  BY DEF LoginsInv
<1>2. Shapes'
  BY <1>1 DEF Shapes, Grows
<1>3. Kept /\ StoreStep /\ ~Entered
  BY NotEntered DEF Kept, StoreStep
<1>4. GoodRecord(vault)'
  <2>1. PICK v \in Records : v = vault /\ GoodRecord(v)
    BY GoodRecordNow
  <2>2. GoodRecord(v)' /\ v = vault'
    BY <1>1, <2>1, GoodRecordGrows
  <2> QED BY <2>2
<1>5. AttemptsOK' /\ AttemptsStay
  BY <1>1, <1>2, SameAttempts, FadedKeeps DEF Shapes
<1>6. NoTokenAfterSignOut'
  BY SameAnswer
<1> QED BY <1>2, <1>3, <1>4, <1>5, <1>6, LoginsStep

LEMMA StoredFacts ==
    ASSUME Shapes, SessionsOK, StoreOK, NEW s, Stored(s)
    PROVE  s = 0 \/ s \in DOMAIN issuer
<1>1. CASE s = vault.account.session
  BY <1>1, RecordFacts, GoodFacts, NobodyFacts DEF Shapes, StoreOK, GoodRecord
<1>2. CASE \E a \in past : a.session = s
  BY <1>2, GoodFacts DEF Shapes, StoreOK
<1> QED BY <1>1, <1>2 DEF Stored

LEMMA CommitFacts ==
    ASSUME LoginsInv, NEW q \in Processes, MayCommit(task[q])
    PROVE  /\ task[q].account.session \in DOMAIN issuer /\ task[q].account.session \in Nat
           /\ ~Stored(task[q].account.session)
<1>1. PICK t \in Tasks : t = task[q]
  BY DEF LoginsInv, Shapes
<1>2. t.op = "login" /\ t.step = "commit" /\ TaskOK(t) /\ t.account \in Accounts
  BY <1>1, TaskFacts DEF LoginsInv, TasksOK, MayCommit
<1> QED BY <1>1, <1>2, GoodFacts DEF TaskOK, LoginOK, LoginsInv

Opened(c) == issuer' = Append(issuer, [client |-> c, refresh |-> 1, revoked |-> FALSE])

LEMMA OpenedFacts ==
    ASSUME LoginsInv, NEW c \in known, Opened(c), UNCHANGED <<hosts, clients, known, ended, lapsed>>
    PROVE  /\ issuer' \in Seq(Sessions) /\ Len(issuer') = Len(issuer) + 1
           /\ DOMAIN issuer' = DOMAIN issuer \cup {Len(issuer) + 1} /\ Len(issuer) + 1 \notin DOMAIN issuer
           /\ \A s \in DOMAIN issuer : issuer'[s] = issuer[s]
           /\ issuer'[Len(issuer) + 1].client = c /\ issuer'[Len(issuer) + 1].refresh = 1
           /\ issuer'[Len(issuer) + 1].revoked = FALSE
           /\ Grows /\ SessionsOK' /\ LapsedOK'
<1>1. Shapes /\ SessionsOK /\ LapsedOK /\ c \in Nat /\ issuer \in Seq(Sessions) /\ Len(issuer) \in Nat
  BY DEF LoginsInv, Shapes
<1>2. PICK x : x = [client |-> c, refresh |-> 1, revoked |-> FALSE]
  OBVIOUS
<1>3. x \in Sessions /\ x.client = c /\ x.refresh = 1 /\ x.revoked = FALSE
  BY <1>1, <1>2 DEF Sessions
<1>4. /\ issuer' \in Seq(Sessions) /\ Len(issuer') = Len(issuer) + 1
      /\ DOMAIN issuer' = DOMAIN issuer \cup {Len(issuer) + 1} /\ Len(issuer) + 1 \notin DOMAIN issuer
      /\ issuer'[Len(issuer) + 1] = x /\ \A s \in DOMAIN issuer : issuer'[s] = issuer[s]
  BY <1>1, <1>2, <1>3, AppendFacts DEF Opened
<1>5. Grows
  <2>1. \A s \in DOMAIN issuer : issuer[s].refresh \in Nat
    BY <1>1, SessionFacts
  <2> QED BY <1>1, <1>4, <2>1 DEF Grows, Shapes
<1>6. SessionsOK'
  BY <1>1, <1>3, <1>4 DEF SessionsOK
<1>7. LapsedOK'
  <2>1. ASSUME NEW a \in lapsed' PROVE GoodAccount(a)'
    BY <1>1, <1>5, <2>1, GoodAccountGrows DEF LapsedOK, Shapes
  <2>2. ASSUME NEW s \in DOMAIN issuer', NEW k \in 1 .. issuer'[s].refresh - 1
        PROVE  \E a \in lapsed' : a.session = s /\ a.refresh = k
    <3>1. s \in DOMAIN issuer
      BY <1>3, <1>4, <2>2
    <3> QED BY <1>1, <1>4, <2>2, <3>1 DEF LapsedOK
  <2> QED BY <1>1, <2>1, <2>2 DEF LapsedOK
<1> QED BY <1>3, <1>4, <1>5, <1>6, <1>7

LEMMA ExchangeKeeps == ASSUME LoginsInv, NEW p \in Processes, Exchange(p) PROVE LoginsInv'
<1>1. PICK t \in Tasks : t = task[p]
  BY DEF LoginsInv, Shapes
<1>2. /\ Shapes /\ SessionsOK /\ StoreOK /\ LapsedOK /\ CommitsAreDistinct /\ StoredLoginsRenew
      /\ TaskOK(t) /\ t.op = "login" /\ t.step = "exchange" /\ t \in Logins
  BY <1>1, TaskKinds DEF LoginsInv, Shapes, TasksOK, Exchange, At
<1>3. PICK a \in Attempts : a = attempts[t.attempt]
  BY <1>2, AttemptFacts DEF TaskOK, LoginOK
<1>4. /\ t.attempt \in DOMAIN attempts /\ a.subject \in Subjects /\ t.prior \in Records
      /\ GoodRecord(t.prior) /\ a.client \in known /\ a.client \in Nat /\ Len(issuer) \in Nat
  BY <1>2, <1>3, TaskFacts DEF TaskOK, LoginOK, Attempts, Shapes
<1>5. PICK next : next = [session |-> Len(issuer) + 1, refresh |-> 1, subject |-> a.subject,
                          client |-> a.client]
  OBVIOUS
<1>6. /\ next \in Accounts /\ next.session = Len(issuer) + 1 /\ next.refresh = 1
      /\ next.subject = a.subject /\ next.client = a.client /\ next # NoAccount
  <2>1. /\ next \in Accounts /\ next.session = Len(issuer) + 1 /\ next.refresh = 1
        /\ next.subject = a.subject /\ next.client = a.client
    BY <1>4, <1>5 DEF Accounts
  <2> QED BY <2>1, NobodyFacts
<1>7. PICK u : u = [t EXCEPT !.step = "commit", !.account = next]
  OBVIOUS
<1>8. /\ u \in Tasks /\ u.op = "login" /\ u.step = "commit" /\ u.account = next
      /\ u.attempt = t.attempt /\ u.prior = t.prior
  <2>1. /\ u \in Logins /\ u.op = "login" /\ u.step = "commit" /\ u.account = next
        /\ u.attempt = t.attempt /\ u.prior = t.prior
    BY ONLY <1>2, <1>6, <1>7 DEF Logins
  <2> QED BY <2>1, KindsAreTasks
<1>9. UNCHANGED <<vault, hosts, clients, attempts, lapsed, answer, known, past, ended, signOuts>>
  BY DEF Exchange, history
<1>10. \/ Opened(a.client) /\ SameSubject(t.prior, a.subject) /\ Go(p, u) /\ faults' = faults
       \/ Opened(a.client) /\ Go(p, Idle) /\ faults' = faults
       \/ Fault /\ Go(p, Idle) /\ (Opened(a.client) \/ UNCHANGED issuer)
  BY <1>1, <1>3, <1>5, <1>7 DEF Exchange, Opened
<1>11. faults' \in 0 .. MaxFaults /\ faults' \in Nat /\ faults <= faults' /\ faults \in Nat
  BY <1>2, <1>10, SignInAssumption DEF Fault, Shapes
<1>12. /\ Grows /\ SessionsOK' /\ LapsedOK' /\ \A s \in DOMAIN issuer : issuer'[s] = issuer[s]
  <2>1. CASE Opened(a.client)
    BY <1>4, <1>9, <2>1, OpenedFacts
  <2>2. CASE UNCHANGED issuer
    <3>1. Grows
      BY <1>2, <1>9, <2>2, QuietGrows DEF Shapes
    <3>2. SessionsOK'
      BY <1>2, <1>9, <2>2 DEF SessionsOK
    <3>3. LapsedOK'
      BY <1>2, <1>9, <2>2 DEF LapsedOK, GoodAccount
    <3> QED BY <2>2, <3>1, <3>2, <3>3
  <2> QED BY <1>10, <2>1, <2>2
<1>13. \A q \in Processes : MayCommit(task[q])
          => issuer'[task[q].account.session] = issuer[task[q].account.session]
  BY <1>12, CommitFacts
<1>14. StoredLoginsRenew'
  <2>1. vault.account # NoAccount => vault.account.session \in DOMAIN issuer
    BY <1>2, RecordFacts, GoodFacts DEF StoreOK, GoodRecord, Shapes
  <2>2. \A q \in Processes : At(q, "use", "rotate") => task'[q] = task[q]
    BY <1>1, <1>2, <1>8, <1>10, IdleFacts, GoFacts DEF At
  <2> QED BY <1>2, <1>9, <1>11, <1>12, <2>1, <2>2, RenewsStay
<1>15. CASE Go(p, Idle)
  <2>1. task' \in [Processes -> Tasks] /\ \A q \in Processes : task'[q] = task[q] \/ task'[q] = Idle
    BY <1>2, <1>15, IdleFacts, GoFacts
  <2>2. CommitsAreDistinct'
    BY <1>2, <2>1, IdleFacts, DistinctStay DEF NoNewCommit
  <2> QED BY <1>9, <1>11, <1>12, <1>13, <1>14, <2>1, <2>2, IdleFacts, IssuerKeepsLogins
<1>16. CASE Opened(a.client) /\ SameSubject(t.prior, a.subject) /\ Go(p, u)
  <2>1. /\ DOMAIN issuer' = DOMAIN issuer \cup {Len(issuer) + 1} /\ Len(issuer) + 1 \notin DOMAIN issuer
        /\ issuer'[Len(issuer) + 1].client = a.client /\ issuer'[Len(issuer) + 1].refresh = 1
        /\ issuer'[Len(issuer) + 1].revoked = FALSE
    BY <1>4, <1>9, <1>16, OpenedFacts
  <2>2. /\ task' \in [Processes -> Tasks] /\ task'[p] = u
        /\ \A q \in Processes : q # p => task'[q] = task[q]
    BY <1>2, <1>8, <1>16, GoFacts
  <2>3. GoodAccount(next)' /\ ~Stored(next.session)'
    <3>1. ~Stored(Len(issuer) + 1)
      BY <1>2, <1>4, <2>1, StoredFacts
    <3>2. PICK k : k = Len(issuer) + 1
      OBVIOUS
    <3>3. ~Stored(k)' /\ k = next.session
      BY <1>6, <1>9, <3>1, <3>2 DEF Stored
    <3>4. GoodAccount(next)'
      BY <1>4, <1>6, <2>1 DEF GoodAccount
    <3> QED BY <3>3, <3>4
  <2>4. TaskOK(u)'
    <3>1. GoodRecord(t.prior)'
      BY <1>2, <1>4, <1>12, GoodRecordGrows
    <3>2. u.attempt \in DOMAIN attempts' /\ attempts'[u.attempt].subject \in Subjects
      BY <1>3, <1>4, <1>8, <1>9
    <3>3. /\ u.account # NoAccount /\ u.account.refresh = 1 /\ issuer'[u.account.session].refresh = 1
          /\ ~issuer'[u.account.session].revoked /\ SameSubject(u.prior, u.account.subject)
      BY <1>6, <1>8, <1>16, <2>1
    <3> QED BY <1>8, <2>3, <3>1, <3>2, <3>3 DEF TaskOK, BeginOK, LoginOK, UseOK, SignOutOK
  <2>5. ASSUME NEW q \in Processes, task'[q] # task[q] PROVE TaskOK(task[q])'
    BY <2>2, <2>4, <2>5
  <2>6. CommitsAreDistinct'
    <3>1. \A q \in Processes : q # p /\ MayCommit(task'[q]) => task'[q].account.session # u.account.session
      BY <1>6, <1>8, <2>1, <2>2, CommitFacts
    <3> QED BY <1>2, <2>2, <3>1 DEF CommitsAreDistinct
  <2> QED BY <1>9, <1>11, <1>12, <1>13, <1>14, <2>2, <2>5, <2>6, IssuerKeepsLogins
<1> QED BY <1>10, <1>15, <1>16

LEMMA TouchedFacts ==
    ASSUME Shapes, NEW k \in DOMAIN issuer, NEW x \in Sessions, issuer' = [issuer EXCEPT ![k] = x]
    PROVE  /\ issuer' \in Seq(Sessions) /\ Len(issuer') = Len(issuer) /\ DOMAIN issuer' = DOMAIN issuer
           /\ issuer'[k] = x /\ \A s \in DOMAIN issuer : s # k => issuer'[s] = issuer[s]
  BY DEF Shapes

Turn(k) == issuer' = [issuer EXCEPT ![k].refresh = @ + 1]

LEMMA TurnFacts ==
    ASSUME Shapes, NEW k \in DOMAIN issuer, Turn(k)
    PROVE  /\ issuer' \in Seq(Sessions) /\ Len(issuer') = Len(issuer) /\ DOMAIN issuer' = DOMAIN issuer
           /\ issuer'[k].client = issuer[k].client /\ issuer'[k].refresh = issuer[k].refresh + 1
           /\ issuer'[k].revoked = issuer[k].revoked
           /\ \A s \in DOMAIN issuer : s # k => issuer'[s] = issuer[s]
<1>1. PICK i \in Sessions : i = issuer[k]
  BY SessionFacts DEF Shapes
<1>2. PICK x : x = [i EXCEPT !.refresh = @ + 1]
  OBVIOUS
<1>3. x \in Sessions /\ x.client = i.client /\ x.refresh = i.refresh + 1 /\ x.revoked = i.revoked
  BY ONLY i \in Sessions, <1>2 DEF Sessions
<1>4. issuer' = [issuer EXCEPT ![k] = x]
  BY <1>1, <1>2 DEF Turn
<1> QED BY <1>1, <1>3, <1>4, TouchedFacts

End(k) == issuer' = [issuer EXCEPT ![k].revoked = TRUE]

LEMMA EndFacts ==
    ASSUME Shapes, NEW k \in DOMAIN issuer, End(k)
    PROVE  /\ issuer' \in Seq(Sessions) /\ Len(issuer') = Len(issuer) /\ DOMAIN issuer' = DOMAIN issuer
           /\ issuer'[k].client = issuer[k].client /\ issuer'[k].refresh = issuer[k].refresh
           /\ \A s \in DOMAIN issuer : s # k => issuer'[s] = issuer[s]
<1>1. PICK i \in Sessions : i = issuer[k]
  BY SessionFacts DEF Shapes
<1>2. PICK x : x = [i EXCEPT !.revoked = TRUE]
  OBVIOUS
<1>3. x \in Sessions /\ x.client = i.client /\ x.refresh = i.refresh
  BY ONLY i \in Sessions, <1>2 DEF Sessions
<1>4. issuer' = [issuer EXCEPT ![k] = x]
  BY <1>1, <1>2 DEF End
<1> QED BY <1>1, <1>3, <1>4, TouchedFacts

\* The issuer's sessions after one of them was turned or ended.
LEMMA TouchedKeeps ==
    ASSUME LoginsInv, UNCHANGED <<hosts, clients, known, ended, lapsed>>, NEW k \in DOMAIN issuer,
           issuer' \in Seq(Sessions), DOMAIN issuer' = DOMAIN issuer,
           issuer'[k].client = issuer[k].client, issuer[k].refresh <= issuer'[k].refresh,
           \A s \in DOMAIN issuer : s # k => issuer'[s] = issuer[s],
           \A j \in 1 .. issuer'[k].refresh - 1 : \E a \in lapsed : a.session = k /\ a.refresh = j
    PROVE  Grows /\ SessionsOK' /\ LapsedOK'
<1>1. Shapes /\ SessionsOK /\ LapsedOK
  BY DEF LoginsInv
<1>2. \A s \in DOMAIN issuer : issuer[s].refresh \in Nat /\ issuer'[s].refresh \in Nat
  BY <1>1, SessionFacts DEF Shapes
<1>3. Grows
  <2>1. \A s \in DOMAIN issuer : /\ s \in DOMAIN issuer' /\ issuer'[s].client = issuer[s].client
                                /\ issuer[s].refresh <= issuer'[s].refresh
    <3> SUFFICES ASSUME NEW s \in DOMAIN issuer
                 PROVE  issuer'[s].client = issuer[s].client /\ issuer[s].refresh <= issuer'[s].refresh
      BY Zenon
    <3>1. CASE s = k
      BY <3>1, Zenon
    <3>2. CASE s # k
      <4>1. issuer'[s] = issuer[s] /\ issuer[s].refresh \in Nat
        BY <1>2, <3>2, Zenon
      <4> QED BY ONLY <4>1
    <3> QED BY <3>1, <3>2
  <2>2. hosts' \in Nat /\ clients' \in Nat /\ hosts <= hosts' /\ clients <= clients'
    BY <1>1 DEF Shapes
  <2> QED BY <2>1, <2>2, Zenon DEF Grows
<1>4. SessionsOK'
  BY <1>1, <1>2 DEF SessionsOK
<1>5. LapsedOK'
  <2>1. ASSUME NEW a \in lapsed' PROVE GoodAccount(a)'
    BY <1>1, <1>3, <2>1, GoodAccountGrows DEF LapsedOK, Shapes
  <2>2. ASSUME NEW s \in DOMAIN issuer', NEW j \in 1 .. issuer'[s].refresh - 1
        PROVE  \E a \in lapsed' : a.session = s /\ a.refresh = j
    BY <1>1, <2>2 DEF LapsedOK
  <2> QED BY <1>1, <2>1, <2>2 DEF LapsedOK
<1> QED BY <1>3, <1>4, <1>5

\* A record that was read from the store and whose token is the last is the one there.
LEMMA LastIsStored ==
    ASSUME LoginsInv, NEW r \in Records, GoodRecord(r), WasStored(r), vault.account # NoAccount,
           r.account.session = vault.account.session,
           issuer[r.account.session].refresh = r.account.refresh
    PROVE  r = vault
<1>1. Shapes /\ SessionsOK
  BY DEF LoginsInv
<1>2. vault \in Records /\ GoodRecord(vault) /\ vault.account \in Accounts /\ r.account \in Accounts
  BY GoodRecordNow, RecordFacts
<1>3. GoodAccount(r.account) /\ GoodAccount(vault.account) /\ r.account # NoAccount
  BY <1>2 DEF GoodRecord, WasStored
<1>4. r.account.client = vault.account.client
  BY <1>3 DEF GoodAccount, WasStored
<1>5. r.account.refresh = vault.account.refresh
  <2>1. vault.account.refresh <= r.account.refresh /\ r.account.refresh <= vault.account.refresh
    BY <1>1, <1>2, <1>3, GoodFacts DEF WasStored
  <2> QED BY <1>2, <2>1, AccountFacts
<1>6. r.account.subject = vault.account.subject /\ r.host = vault.host
  BY DEF WasStored
<1>7. r.account = vault.account
  BY ONLY <1>2, <1>4, <1>5, <1>6, r.account.session = vault.account.session DEF Accounts
<1>8. r.client = vault.client
  BY <1>2, <1>3, <1>4 DEF GoodRecord
<1> QED BY ONLY <1>2, <1>6, <1>7, <1>8, r \in Records DEF Records

LEMMA RenewKeeps == ASSUME LoginsInv, NEW p \in Processes, Renew(p) PROVE LoginsInv'
<1>1. PICK t \in Tasks : t = task[p]
  BY DEF LoginsInv, Shapes
<1>2. /\ Shapes /\ SessionsOK /\ StoreOK /\ LapsedOK /\ CommitsAreDistinct /\ StoredLoginsRenew
      /\ TaskOK(t) /\ t.op = "use" /\ t.step = "renew" /\ t \in Uses
  BY <1>1, TaskKinds, Zenon DEF LoginsInv, Shapes, TasksOK, Renew, At
<1>3. /\ t.record \in Records /\ GoodRecord(t.record) /\ WasStored(t.record)
      /\ t.record.account.session \notin t.ended /\ t.record.account \in lapsed
  BY <1>2, TaskFacts DEF TaskOK, UseOK
<1>4. PICK old \in Accounts : old = t.record.account
  BY <1>3, RecordFacts
<1>5. PICK k : k = old.session
  OBVIOUS
<1>6. /\ old # NoAccount /\ GoodAccount(old) /\ k \in DOMAIN issuer /\ Stored(k) /\ k # 0
      /\ old.refresh \in Nat /\ old.refresh >= 1
  BY <1>2, <1>3, <1>4, <1>5, GoodFacts DEF GoodRecord, WasStored
<1>7. PICK u : u = [t EXCEPT !.step = "rotate", !.next = Renewed(old)]
  OBVIOUS
<1>8. /\ u \in Tasks /\ u.op = "use" /\ u.step = "rotate" /\ u.record = t.record
      /\ u.ended = t.ended /\ u.next = Renewed(old)
  <2>1. Renewed(old) \in Accounts
    BY RenewedFacts
  <2>2. /\ u \in Uses /\ u.op = "use" /\ u.step = "rotate" /\ u.record = t.record
        /\ u.ended = t.ended /\ u.next = Renewed(old)
    BY ONLY <1>2, <1>7, <2>1 DEF Uses
  <2> QED BY <2>2, KindsAreTasks
<1>9. UNCHANGED <<vault, hosts, clients, attempts, lapsed, answer, known, past, ended, signOuts>>
  BY Zenon DEF Renew, history
<1> DEFINE Taken == ~issuer[k].revoked /\ issuer[k].refresh = old.refresh
<1>10. \/ Taken /\ Turn(k) /\ faults' = faults /\ Go(p, u)
       \/ Go(p, Idle) /\ UNCHANGED <<issuer, faults>>
       \/ Taken /\ Fault /\ Go(p, Idle) /\ (Turn(k) \/ UNCHANGED issuer)
  BY <1>1, <1>4, <1>5, <1>7, Zenon DEF Renew, Turn
<1>11. faults' \in 0 .. MaxFaults /\ faults' \in Nat /\ faults <= faults' /\ (Fault => faults' # 0)
  BY <1>2, <1>10, SignInAssumption DEF Fault, Shapes
<1>12. ASSUME Taken, Turn(k)
       PROVE  /\ Grows /\ SessionsOK' /\ LapsedOK'
              /\ \A s \in DOMAIN issuer : s # k => issuer'[s] = issuer[s]
  <2>1. /\ issuer' \in Seq(Sessions) /\ DOMAIN issuer' = DOMAIN issuer
        /\ issuer'[k].client = issuer[k].client /\ issuer'[k].refresh = issuer[k].refresh + 1
        /\ \A s \in DOMAIN issuer : s # k => issuer'[s] = issuer[s]
    BY <1>2, <1>6, <1>12, TurnFacts
  <2>2. issuer[k].refresh \in Nat
    BY <1>6, <1>12
  <2>3. ASSUME NEW j \in 1 .. issuer'[k].refresh - 1
        PROVE  \E a \in lapsed : a.session = k /\ a.refresh = j
    <3>1. j \in 1 .. issuer[k].refresh - 1 \/ j = issuer[k].refresh
      BY <2>1, <2>2, <2>3
    <3>2. CASE j \in 1 .. issuer[k].refresh - 1
      BY <1>2, <1>6, <3>2 DEF LapsedOK
    <3>3. CASE j = issuer[k].refresh
      BY <1>3, <1>4, <1>5, <1>12, <3>3
    <3> QED BY <3>1, <3>2, <3>3
  <2>4. issuer[k].refresh <= issuer'[k].refresh
    BY <2>1, <2>2
  <2> QED BY <1>6, <1>9, <2>1, <2>3, <2>4, TouchedKeeps
<1>13. ASSUME UNCHANGED issuer
       PROVE  Grows /\ SessionsOK' /\ LapsedOK'
  <2>1. Grows
    BY <1>2, <1>9, <1>13, QuietGrows DEF Shapes
  <2>2. SessionsOK'
    BY <1>2, <1>9, <1>13 DEF SessionsOK
  <2>3. LapsedOK'
    BY <1>2, <1>9, <1>13 DEF LapsedOK, GoodAccount
  <2> QED BY <2>1, <2>2, <2>3
<1>14. /\ Grows /\ SessionsOK' /\ LapsedOK' /\ \A s \in DOMAIN issuer : s # k => issuer'[s] = issuer[s]
  BY <1>10, <1>12, <1>13
<1>15. \A q \in Processes : MayCommit(task[q])
          => issuer'[task[q].account.session] = issuer[task[q].account.session]
  BY <1>6, <1>14, CommitFacts
<1>16. /\ task' \in [Processes -> Tasks] /\ \A q \in Processes : q # p => task'[q] = task[q]
       /\ task'[p] = Idle \/ (task'[p] = u /\ Taken /\ Turn(k))
  BY <1>2, <1>8, <1>10, IdleFacts, GoFacts
<1>17. TaskOK(task[p])'
  <2>1. CASE task'[p] = Idle
    BY <2>1, IdleFacts
  <2>2. CASE task'[p] = u /\ Taken /\ Turn(k)
    <3>1. GoodRecord(t.record)'
      BY <1>2, <1>3, <1>14, GoodRecordGrows
    <3>2. WasStored(t.record)'
      BY <1>3, <1>9 DEF WasStored, Stored
    <3>3. GoodAccount(u.next)'
      <4>1. /\ u.next.session = k /\ u.next.refresh = old.refresh + 1 /\ u.next.subject = old.subject
            /\ u.next.client = old.client
        BY <1>5, <1>8, RenewedFacts
      <4>2. /\ DOMAIN issuer' = DOMAIN issuer /\ issuer'[k].client = issuer[k].client
            /\ issuer'[k].refresh = issuer[k].refresh + 1
        BY <1>2, <1>6, <2>2, TurnFacts
      <4> QED BY <1>5, <1>6, <2>2, <4>1, <4>2 DEF GoodAccount
    <3>4. TaskOK(u)'
      BY <1>3, <1>4, <1>8, <3>1, <3>2, <3>3 DEF TaskOK, BeginOK, LoginOK, UseOK, SignOutOK
    <3> QED BY <2>2, <3>4
  <2> QED BY <1>16, <2>1, <2>2
<1>18. CommitsAreDistinct'
  <2>1. NoNewCommit
    BY <1>8, <1>16, IdleFacts DEF NoNewCommit, MayCommit
  <2> QED BY <1>2, <2>1, DistinctStay
<1>19. StoredLoginsRenew'
  <2>1. vault.account # NoAccount => vault.account.session \in DOMAIN issuer
    BY <1>2, RecordFacts, GoodFacts DEF StoreOK, GoodRecord, Shapes
  <2>2. \A q \in Processes : At(q, "use", "rotate") => task'[q] = task[q]
    BY <1>1, <1>2, <1>16 DEF At
  <2>3. CASE vault.account # NoAccount => issuer'[vault.account.session] = issuer[vault.account.session]
    BY <1>2, <1>9, <1>11, <2>2, <2>3, RenewsStay DEF Shapes
  <2>4. CASE faults' # 0
    BY <2>4 DEF StoredLoginsRenew
  <2>5. CASE Taken /\ Turn(k) /\ Go(p, u) /\ vault.account # NoAccount /\ vault.account.session = k
    <3>1. t.record = vault
      BY <1>3, <1>4, <1>5, <2>5, LastIsStored
    <3>2. task'[p] = u
      BY <1>2, <1>8, <2>5, GoFacts
    <3>3. /\ issuer'[k].revoked = issuer[k].revoked /\ issuer'[k].refresh = issuer[k].refresh + 1
      BY <1>2, <1>6, <2>5, TurnFacts
    <3>4. u.next.refresh = issuer'[k].refresh
      BY <1>8, <2>5, <3>3, RenewedFacts
    <3> QED BY <1>8, <1>9, <2>5, <3>1, <3>2, <3>3, <3>4 DEF StoredLoginsRenew, At
  <2> QED BY <1>10, <1>11, <1>14, <2>1, <2>3, <2>4, <2>5
<1>20. \A q \in Processes : task'[q] # task[q] => TaskOK(task[q])'
  BY <1>16, <1>17
<1> QED BY <1>9, <1>11, <1>14, <1>15, <1>16, <1>18, <1>19, <1>20, IssuerKeepsLogins

LEMMA RevokeKeeps == ASSUME LoginsInv, NEW p \in Processes, Revoke(p) PROVE LoginsInv'
<1>1. PICK t \in Tasks : t = task[p]
  BY DEF LoginsInv, Shapes
<1>2. /\ Shapes /\ SessionsOK /\ StoreOK /\ LapsedOK /\ CommitsAreDistinct /\ StoredLoginsRenew
      /\ TaskOK(t) /\ t.op = "sign-out" /\ t.step = "revoke"
  BY <1>1 DEF LoginsInv, Shapes, TasksOK, Revoke, At
<1>3. PICK k : k = t.record.account.session
  OBVIOUS
<1>4. k \in ended /\ k \in DOMAIN issuer /\ Stored(k) /\ k # vault.account.session
  BY <1>2, <1>3 DEF TaskOK, SignOutOK, StoreOK, Shapes
<1>5. UNCHANGED <<vault, hosts, clients, attempts, lapsed, answer, known, past, ended, signOuts>>
  BY Zenon DEF Revoke, history
<1>6. Go(p, Idle) /\ (End(k) \/ UNCHANGED issuer) /\ (Fault \/ faults' = faults)
  BY <1>1, <1>3, Zenon DEF Revoke, End
<1>7. faults' \in 0 .. MaxFaults /\ faults' \in Nat /\ faults <= faults'
  BY <1>2, <1>6, SignInAssumption DEF Fault, Shapes
<1>8. Grows /\ SessionsOK' /\ LapsedOK' /\ \A s \in DOMAIN issuer : s # k => issuer'[s] = issuer[s]
  <2>1. CASE End(k)
    <3>1. /\ issuer' \in Seq(Sessions) /\ DOMAIN issuer' = DOMAIN issuer
          /\ issuer'[k].client = issuer[k].client /\ issuer'[k].refresh = issuer[k].refresh
          /\ \A s \in DOMAIN issuer : s # k => issuer'[s] = issuer[s]
      BY <1>2, <1>4, <2>1, EndFacts
    <3>2. issuer[k].refresh \in Nat
      BY <1>2, <1>4, SessionFacts DEF Shapes
    <3>3. \A j \in 1 .. issuer'[k].refresh - 1 : \E a \in lapsed : a.session = k /\ a.refresh = j
      BY <1>2, <1>4, <3>1 DEF LapsedOK
    <3> QED BY <1>4, <1>5, <3>1, <3>2, <3>3, TouchedKeeps
  <2>2. CASE UNCHANGED issuer
    <3>1. Grows
      BY <1>2, <1>5, <2>2, QuietGrows DEF Shapes
    <3>2. SessionsOK'
      BY <1>2, <1>5, <2>2 DEF SessionsOK
    <3>3. LapsedOK'
      BY <1>2, <1>5, <2>2 DEF LapsedOK, GoodAccount
    <3> QED BY <2>2, <3>1, <3>2, <3>3
  <2> QED BY <1>6, <2>1, <2>2
<1>9. \A q \in Processes : MayCommit(task[q])
         => issuer'[task[q].account.session] = issuer[task[q].account.session]
  BY <1>4, <1>8, CommitFacts
<1>10. /\ task' \in [Processes -> Tasks] /\ task'[p] = Idle
       /\ \A q \in Processes : q # p => task'[q] = task[q]
  BY <1>2, <1>6, IdleFacts, GoFacts
<1>11. CommitsAreDistinct'
  <2>1. NoNewCommit
    BY <1>10, IdleFacts DEF NoNewCommit
  <2> QED BY <1>2, <2>1, DistinctStay
<1>12. StoredLoginsRenew'
  <2>1. vault.account # NoAccount => vault.account.session \in DOMAIN issuer
    BY <1>2, RecordFacts, GoodFacts DEF StoreOK, GoodRecord, Shapes
  <2>2. \A q \in Processes : At(q, "use", "rotate") => task'[q] = task[q]
    BY <1>1, <1>2, <1>10 DEF At
  <2> QED BY <1>2, <1>4, <1>5, <1>7, <1>8, <2>1, <2>2, RenewsStay DEF Shapes
<1>13. \A q \in Processes : task'[q] # task[q] => TaskOK(task[q])'
  BY <1>10, IdleFacts
<1> QED BY <1>5, <1>7, <1>8, <1>9, <1>10, <1>11, <1>12, <1>13, IssuerKeepsLogins

(***************************************************************************)
(* The counts: of the sessions that are opened, of the attempts in the map. *)
(***************************************************************************)
LEMMA CardSub ==
    ASSUME NEW T, IsFiniteSet(T), NEW S, S \subseteq T
    PROVE  /\ IsFiniteSet(S) /\ Cardinality(S) \in Nat /\ Cardinality(T) \in Nat
           /\ Cardinality(S) <= Cardinality(T)
  BY FS_Subset, FS_CardinalityType

LEMMA CardAdd ==
    ASSUME NEW T, IsFiniteSet(T), NEW x, NEW S, S \subseteq T \cup {x}
    PROVE  Cardinality(S) \in Nat /\ Cardinality(T) \in Nat /\ Cardinality(S) <= Cardinality(T) + 1
<1>1. /\ IsFiniteSet(T \cup {x}) /\ Cardinality(T) \in Nat
      /\ Cardinality(T \cup {x}) <= Cardinality(T) + 1
  BY FS_AddElement, FS_CardinalityType
<1>2. Cardinality(S) \in Nat /\ Cardinality(T \cup {x}) \in Nat /\ Cardinality(S) <= Cardinality(T \cup {x})
  BY <1>1, CardSub
<1> QED BY <1>1, <1>2

LEMMA CardLess ==
    ASSUME NEW S, IsFiniteSet(S), NEW x \in S, NEW T, T \subseteq S \ {x}
    PROVE  Cardinality(T) \in Nat /\ Cardinality(S) \in Nat /\ Cardinality(T) + 1 <= Cardinality(S)
<1>1. IsFiniteSet(S \ {x}) /\ Cardinality(S \ {x}) = Cardinality(S) - 1 /\ Cardinality(S) \in Nat
  BY FS_RemoveElement, FS_CardinalityType
<1>2. Cardinality(T) \in Nat /\ Cardinality(T) <= Cardinality(S \ {x})
  BY <1>1, CardSub
<1> QED BY <1>1, <1>2

LEMMA Finite ==
    ASSUME Shapes
    PROVE  /\ IsFiniteSet(Called) /\ IsFiniteSet(Answered) /\ IsFiniteSet(Exchanging)
           /\ Len(issuer) \in Nat /\ \A p : IsFiniteSet(Open(p))
<1>1. Len(attempts) \in Nat /\ DOMAIN attempts = 1 .. Len(attempts) /\ Len(issuer) \in Nat
  BY DEF Shapes
<1>2. IsFiniteSet(DOMAIN attempts)
  BY <1>1, FS_Interval
<1>3. Called \subseteq DOMAIN attempts /\ Answered \subseteq DOMAIN attempts /\ Exchanging \subseteq Processes
      /\ \A p : Open(p) \subseteq DOMAIN attempts
  BY DEF Called, Answered, Exchanging, Open
<1> QED BY <1>1, <1>2, <1>3, CardSub, SignInAssumption

LEMMA SumStays ==
    ASSUME Shapes, Shapes', SumOK, Len(issuer') = Len(issuer), Exchanging' \subseteq Exchanging,
           Called' \subseteq Called, Answered \subseteq Answered'
    PROVE  SumOK'
<1>1. /\ Cardinality(Exchanging') \in Nat /\ Cardinality(Exchanging) \in Nat
      /\ Cardinality(Exchanging') <= Cardinality(Exchanging)
  BY Finite, CardSub
<1>2. /\ Cardinality(Called') \in Nat /\ Cardinality(Called) \in Nat
      /\ Cardinality(Called') <= Cardinality(Called)
  BY Finite, CardSub
<1>3. IsFiniteSet(Answered')
  <2>1. Len(attempts') \in Nat /\ DOMAIN attempts' = 1 .. Len(attempts')
    BY DEF Shapes
  <2>2. IsFiniteSet(DOMAIN attempts')
    BY <2>1, FS_Interval
  <2>3. Answered' \subseteq DOMAIN attempts'
    BY DEF Answered
  <2> QED BY <2>2, <2>3, CardSub
<1>4. /\ Cardinality(Answered') \in Nat /\ Cardinality(Answered) \in Nat
      /\ Cardinality(Answered) <= Cardinality(Answered')
  BY <1>3, CardSub
<1>5. Len(issuer) \in Nat
  BY Finite
<1> QED BY <1>1, <1>2, <1>4, <1>5 DEF SumOK

LEMMA RoomStays ==
    ASSUME Shapes, RoomOK, \A p \in Processes : Open(p)' \subseteq Open(p),
           \A p \in Processes : task'[p].op = "begin" => task[p].op = "begin"
    PROVE  RoomOK'
<1>1. ASSUME NEW p \in Processes
      PROVE  /\ Cardinality(Open(p)') <= MaxAttempts
             /\ task'[p].op = "begin" => Cardinality(Open(p)') < MaxAttempts
  <2>1. /\ Cardinality(Open(p)') \in Nat /\ Cardinality(Open(p)) \in Nat
        /\ Cardinality(Open(p)') <= Cardinality(Open(p))
    BY Finite, CardSub
  <2> QED BY <2>1, SignInAssumption DEF RoomOK
<1> QED BY <1>1 DEF RoomOK

\* An attempt that is gone stays so.
GoneStay == \A a \in DOMAIN attempts : attempts[a].status = "gone" => attempts'[a].status = "gone"

LEMMA FadedCounts ==
    ASSUME Faded, GoneStay
    PROVE  Called' \subseteq Called /\ Answered' = Answered /\ \A p : Open(p)' \subseteq Open(p)
  BY DEF Faded, FadedTo, GoneStay, Over, Called, Answered, Open

\* The tasks and the sessions of a step that opens none.
QuietCounts ==
    /\ Len(issuer') = Len(issuer)
    /\ \A q \in Processes :
          /\ MayExchange(task'[q]) => MayExchange(task[q])
          /\ task'[q].op = "begin" => task[q].op = "begin"

LEMMA FadedKeepsCounts ==
    ASSUME Shapes, Shapes', CountsInv, QuietCounts, Faded, GoneStay
    PROVE  CountsInv'
<1>1. Exchanging' \subseteq Exchanging
  BY DEF QuietCounts, Exchanging
<1> QED BY <1>1, FadedCounts, SumStays, RoomStays DEF CountsInv, QuietCounts

LEMMA GoCounts ==
    ASSUME Shapes, NEW p \in Processes, NEW t \in Tasks, Go(p, t), t.op # "begin",
           MayExchange(t) => MayExchange(task[p]), Len(issuer') = Len(issuer)
    PROVE  QuietCounts
  BY GoFacts DEF QuietCounts

LEMMA StillCounts ==
    ASSUME UNCHANGED attempts
    PROVE  Faded /\ GoneStay
  BY SameAttempts DEF GoneStay

LEMMA LapseCounts == ASSUME LoginsInv, LoginsInv', CountsInv, Lapse PROVE CountsInv'
<1>1. UNCHANGED <<attempts, task, issuer>>
  BY DEF Lapse, provider
<1> QED BY <1>1, StillCounts, FadedKeepsCounts DEF QuietCounts, LoginsInv

LEMMA ExpireCounts ==
    ASSUME LoginsInv, LoginsInv', CountsInv, NEW a \in DOMAIN attempts, Expire(a) PROVE CountsInv'
<1>1. /\ UNCHANGED <<task, issuer>> /\ Mark(a, "expired")
      /\ attempts[a].status \in {"waiting", "called", "refused"}
  BY DEF Expire, provider
<1>2. Faded /\ GoneStay
  <2>1. Faded
    BY <1>1, MarkFacts DEF LoginsInv, Over
  <2>2. \A b \in DOMAIN attempts : b # a => attempts'[b] = attempts[b]
    BY <1>1 DEF Mark
  <2> QED BY <1>1, <2>1, <2>2 DEF GoneStay
<1> QED BY <1>1, <1>2, FadedKeepsCounts DEF QuietCounts, LoginsInv

LEMMA MarkedGone ==
    ASSUME Shapes, NEW a \in DOMAIN attempts, Mark(a, "gone")
    PROVE  /\ Faded /\ GoneStay /\ attempts'[a].status = "gone"
           /\ \A b \in DOMAIN attempts : b # a => attempts'[b] = attempts[b]
<1>1. Faded /\ attempts'[a].status = "gone"
  BY MarkFacts DEF Over
<1>2. \A b \in DOMAIN attempts : b # a => attempts'[b] = attempts[b]
  BY DEF Mark
<1> QED BY <1>1, <1>2 DEF GoneStay

LEMMA DropCounts ==
    ASSUME LoginsInv, LoginsInv', CountsInv, NEW p \in Processes, NEW a \in DOMAIN attempts, Drop(p, a)
    PROVE  CountsInv'
<1>1. UNCHANGED <<task, issuer>> /\ Mark(a, "gone")
  BY DEF Drop, provider
<1> QED BY <1>1, MarkedGone, FadedKeepsCounts DEF QuietCounts, LoginsInv

LEMMA PollCounts ==
    ASSUME LoginsInv, LoginsInv', CountsInv, NEW p \in Processes, NEW a \in DOMAIN attempts, Poll(p, a)
    PROVE  CountsInv'
<1>1. Shapes /\ Shapes' /\ Len(issuer') = Len(issuer) /\ Mark(a, "gone") /\ attempts[a].status = "called"
  BY DEF LoginsInv, Poll, provider
<1>2. /\ Faded /\ GoneStay /\ attempts'[a].status = "gone"
      /\ Called' \subseteq Called /\ Answered' = Answered /\ \A q : Open(q)' \subseteq Open(q)
  BY <1>1, MarkedGone, FadedCounts
<1>3. task'[p].op = "login" /\ \A q \in Processes : q # p => task'[q] = task[q]
  BY <1>1 DEF Poll, Go, Shapes
<1>4. Called' \subseteq Called \ {a} /\ a \in Called
  BY <1>1, <1>2 DEF Called
<1>5. Exchanging' \subseteq Exchanging \cup {p}
  BY <1>3 DEF Exchanging
<1>6. Cardinality(Called') \in Nat /\ Cardinality(Called) \in Nat /\ Cardinality(Called') + 1 <= Cardinality(Called)
  BY <1>1, <1>4, Finite, CardLess
<1>7. /\ Cardinality(Exchanging') \in Nat /\ Cardinality(Exchanging) \in Nat
      /\ Cardinality(Exchanging') <= Cardinality(Exchanging) + 1
  BY <1>1, <1>5, Finite, CardAdd
<1>8. Cardinality(Answered) \in Nat /\ Len(issuer) \in Nat
  BY <1>1, Finite, FS_CardinalityType
<1>9. SumOK'
  BY <1>1, <1>2, <1>6, <1>7, <1>8 DEF SumOK, CountsInv
<1>10. RoomOK'
  BY <1>1, <1>2, <1>3, RoomStays DEF CountsInv
<1> QED BY <1>9, <1>10 DEF CountsInv

LEMMA DieCounts ==
    ASSUME LoginsInv, LoginsInv', CountsInv, NEW p \in Processes, Die(p) PROVE CountsInv'
<1>1. Shapes /\ Shapes' /\ UNCHANGED issuer /\ Go(p, Idle)
  BY DEF LoginsInv, Die, provider
<1>2. Faded /\ \A a \in DOMAIN attempts :
                  attempts'[a].status = IF a \in Open(p) THEN "gone" ELSE attempts[a].status
  BY <1>1, GoneFacts DEF Die, Faded
<1>3. GoneStay
  BY <1>2 DEF GoneStay
<1>4. QuietCounts
  BY <1>1, IdleFacts, GoCounts
<1> QED BY <1>1, <1>2, <1>3, <1>4, FadedKeepsCounts

LEMMA StepCounts ==
    ASSUME LoginsInv, LoginsInv', CountsInv, NEW p \in Processes,
           \/ Register(p) \/ Complete(p) \/ Use(p) \/ Renew(p) \/ Rotated(p) \/ Verify(p)
           \/ SignOut(p) \/ Clear(p) \/ Revoke(p)
    PROVE  CountsInv'
<1>1. Shapes /\ Shapes' /\ task[p] \in Tasks /\ TaskOK(task[p])
  BY DEF LoginsInv, Shapes, TasksOK
<1>2. UNCHANGED attempts
  BY Zenon DEF Register, Complete, Use, Renew, Rotated, Verify, SignOut, Clear, Revoke
<1>3. Len(issuer') = Len(issuer)
  <2>1. CASE Renew(p)
    <3>1. task[p].record.account.session \in DOMAIN issuer
      <4>1. task[p].op = "use" /\ task[p].record \in Records
        BY <1>1, <2>1, TaskFacts, Zenon DEF Renew, At
      <4> QED BY <1>1, <4>1, RecordFacts, GoodFacts DEF TaskOK, UseOK, WasStored, GoodRecord, LoginsInv
    <3> QED BY <1>1, <2>1, <3>1, TurnFacts, Zenon DEF Renew, Turn
  <2>2. CASE Revoke(p)
    <3>1. task[p].record.account.session \in DOMAIN issuer
      BY <1>1, <2>2, Zenon DEF TaskOK, SignOutOK, Revoke, At, Shapes
    <3> QED BY <1>1, <2>2, <3>1, EndFacts, Zenon DEF Revoke, End
  <2>3. CASE ~Renew(p) /\ ~Revoke(p)
    BY <2>3 DEF Register, Complete, Use, Rotated, Verify, SignOut, Clear, provider
  <2> QED BY <2>1, <2>2, <2>3
<1>4. /\ task'[p].op # "begin" /\ (MayExchange(task'[p]) => MayExchange(task[p]))
      /\ \A q \in Processes : q # p => task'[q] = task[q]
  <2>1. \A t : Go(p, t) => task'[p] = t /\ \A q \in Processes : q # p => task'[q] = task[q]
    BY <1>1 DEF Go, Shapes
  <2>2. CASE Register(p)
    <3>1. MayExchange(task[p]) /\ task[p].op = "login"
      BY <2>2 DEF Register, At, MayExchange
    <3>2. \A r : [task[p] EXCEPT !.step = "exchange", !.prior = r].op = task[p].op
      BY <1>1, <3>1, TaskKinds DEF Logins
    <3> DEFINE given == [task[p].prior EXCEPT !.client = attempts[task[p].attempt].client, !.account = NoAccount]
               kept  == [task[p] EXCEPT !.step = "exchange", !.prior = given]
    <3>3. kept.op = "login"
      BY ONLY <3>1, <3>2
    <3>4. PICK result : Go(p, IF result = "stored" THEN kept ELSE Idle)
      BY <2>2 DEF Register
    <3> HIDE DEF kept
    <3>5. PICK t : Go(p, t) /\ t \in {kept, Idle}
      BY ONLY <3>4
    <3>6. t.op # "begin"
      BY ONLY <3>3, <3>5, IdleFacts
    <3>7. task'[p] = t /\ \A q \in Processes : q # p => task'[q] = task[q]
      BY ONLY <2>1, <3>5
    <3> QED BY ONLY <3>1, <3>6, <3>7
  <2>3. CASE ~Register(p)
    <3>1. PICK t : Go(p, t) /\ t.op \notin {"begin", "login"}
      <4>1. CASE Complete(p) \/ Verify(p) \/ Revoke(p)
        BY <4>1, IdleFacts, Zenon DEF Complete, Verify, Revoke
      <4>2. CASE Use(p) \/ SignOut(p)
        BY <4>2 DEF Use, SignOut
      <4>3. CASE Renew(p) \/ Rotated(p)
        <5>1. task[p].op = "use" /\ task[p] \in Uses
          BY <1>1, <4>3, TaskKinds, Zenon DEF Renew, Rotated, At
        <5>2. /\ \A r : [task[p] EXCEPT !.step = "rotate", !.next = r].op = "use"
              /\ \A r : [task[p] EXCEPT !.step = "verify", !.record = r].op = "use"
          BY ONLY <5>1 DEF Uses
        <5> QED BY <4>3, <5>2, IdleFacts, Zenon DEF Renew, Rotated
      <4>4. CASE Clear(p)
        <5>1. task[p].op = "sign-out" /\ task[p] \in SignOuts
          BY <1>1, <4>4, TaskKinds DEF Clear, At
        <5>2. [task[p] EXCEPT !.step = "revoke"].op = "sign-out"
          BY ONLY <5>1 DEF SignOuts
        <5> QED BY <4>4, <5>2, IdleFacts DEF Clear
      <4> QED BY <2>3, <4>1, <4>2, <4>3, <4>4
    <3> QED BY <2>1, <3>1 DEF MayExchange
  <2> QED BY <2>2, <2>3
<1>5. QuietCounts
  BY <1>3, <1>4 DEF QuietCounts
<1> QED BY <1>1, <1>2, <1>5, StillCounts, FadedKeepsCounts

LEMMA CallBackCounts ==
    ASSUME LoginsInv, LoginsInv', CountsInv, NEW a \in DOMAIN attempts, CallBack(a) PROVE CountsInv'
<1>1. Shapes /\ Shapes' /\ UNCHANGED <<issuer, task>> /\ attempts[a].status = "waiting"
  BY Zenon DEF LoginsInv, CallBack
<1>2. CASE Mark(a, "refused")
  <2>1. Faded /\ \A b \in DOMAIN attempts : b # a => attempts'[b] = attempts[b]
    BY <1>1, <1>2, MarkFacts DEF Over, Mark
  <2>2. GoneStay
    BY <1>1, <2>1 DEF GoneStay
  <2> QED BY <1>1, <2>1, <2>2, FadedKeepsCounts DEF QuietCounts
<1>3. ASSUME NEW s \in Subjects, NEW c,
             attempts' = [attempts EXCEPT ![a].status = "called", ![a].subject = s, ![a].client = c]
      PROVE  CountsInv'
  <2>1. PICK x \in Attempts : x = attempts[a]
    BY <1>1, AttemptFacts
  <2>2. PICK y : y = [x EXCEPT !.status = "called", !.subject = s, !.client = c]
    OBVIOUS
  <2>3. y.status = "called" /\ y.subject = s /\ y.owner = x.owner
    BY ONLY x \in Attempts, <2>2 DEF Attempts
  <2>4. /\ DOMAIN attempts' = DOMAIN attempts /\ attempts'[a] = y
        /\ \A b \in DOMAIN attempts : b # a => attempts'[b] = attempts[b]
    BY <1>3, <2>1, <2>2
  <2>5. attempts[a].subject = NoSubject /\ s # NoSubject
    BY <1>1, SignInAssumption DEF LoginsInv, AttemptsOK, AttemptOK
  <2>6. Called' \subseteq Called \cup {a} /\ Answered \subseteq Answered' \ {a} /\ a \in Answered'
    BY <2>3, <2>4, <2>5 DEF Called, Answered
  <2>7. \A q \in Processes : Open(q)' \subseteq Open(q)
    BY <1>1, <2>1, <2>3, <2>4 DEF Open
  <2>8. /\ Cardinality(Called') \in Nat /\ Cardinality(Called) \in Nat
        /\ Cardinality(Called') <= Cardinality(Called) + 1
    BY <1>1, <2>6, Finite, CardAdd
  <2>9. /\ Cardinality(Answered') \in Nat /\ Cardinality(Answered) \in Nat
        /\ Cardinality(Answered) + 1 <= Cardinality(Answered')
    <3>1. Len(attempts') \in Nat /\ DOMAIN attempts' = 1 .. Len(attempts')
      BY <1>1 DEF Shapes
    <3>2. IsFiniteSet(DOMAIN attempts')
      BY <3>1, FS_Interval
    <3>3. Answered' \subseteq DOMAIN attempts'
      BY DEF Answered
    <3>4. IsFiniteSet(Answered')
      BY <3>2, <3>3, CardSub
    <3> QED BY <2>6, <3>4, CardLess
  <2>10. Exchanging' = Exchanging
    BY <1>1 DEF Exchanging
  <2>11. SumOK'
    <3>1. Len(issuer) \in Nat /\ Cardinality(Exchanging) \in Nat
      BY <1>1, Finite, FS_CardinalityType
    <3> QED BY <1>1, <2>8, <2>9, <2>10, <3>1 DEF SumOK, CountsInv
  <2>12. RoomOK'
    BY <1>1, <2>7, RoomStays DEF CountsInv
  <2> QED BY <2>11, <2>12 DEF CountsInv
<1> QED BY <1>2, <1>3, Zenon DEF CallBack

\* A new attempt, which nobody answered yet, and which its process has room for.
LEMMA BegunCounts ==
    ASSUME Shapes, Shapes', CountsInv, UNCHANGED issuer, NEW p \in Processes,
           NEW w \in Seq(Attempts), FadedTo(w),
           \A a \in DOMAIN attempts : attempts[a].status = "gone" => w[a].status = "gone",
           NEW r, attempts' = Append(w, Attempt(p, r)), Attempt(p, r) \in Attempts,
           NEW W, W \subseteq Open(p), Cardinality(W) < MaxAttempts,
           \A a \in Open(p) : a \in W \/ w[a].status = "gone",
           task'[p] = Idle, \A q \in Processes : task'[q] = task[q] \/ task'[q] = Idle
    PROVE  CountsInv'
<1> DEFINE x == Attempt(p, r)
<1> DEFINE n == Len(w) + 1
<1>1. x \in Attempts /\ x.owner = p /\ x.status = "waiting" /\ x.subject = NoSubject
  BY DEF Attempt
<1> HIDE DEF x
<1>2. /\ DOMAIN attempts' = DOMAIN attempts \cup {n} /\ n \notin DOMAIN attempts
      /\ attempts'[n] = x /\ \A k \in DOMAIN attempts : attempts'[k] = w[k]
  BY <1>1, AppendFacts DEF x, FadedTo
<1> HIDE DEF n
<1>3. \A k \in DOMAIN attempts :
         /\ w[k].owner = attempts[k].owner /\ w[k].subject = attempts[k].subject
         /\ w[k].status = attempts[k].status \/ w[k].status \in Over
  BY DEF FadedTo
<1>4. Called' \subseteq Called /\ Answered \subseteq Answered'
  BY <1>1, <1>2, <1>3 DEF Called, Answered, Over
<1>5. \A q \in Processes : q # p => Open(q)' \subseteq Open(q)
  BY <1>1, <1>2, <1>3 DEF Open
<1>6. Open(p)' \subseteq W \cup {n}
  BY <1>1, <1>2, <1>3 DEF Open
<1>7. Exchanging' \subseteq Exchanging
  BY IdleFacts DEF Exchanging
<1>8. SumOK'
  BY <1>4, <1>7, SumStays DEF CountsInv
<1>9. ASSUME NEW q \in Processes
      PROVE  /\ Cardinality(Open(q)') <= MaxAttempts
             /\ task'[q].op = "begin" => Cardinality(Open(q)') < MaxAttempts
  <2>1. CASE q = p
    <3>1. IsFiniteSet(W)
      BY Finite, CardSub
    <3>2. /\ Cardinality(Open(p)') \in Nat /\ Cardinality(W) \in Nat
          /\ Cardinality(Open(p)') <= Cardinality(W) + 1
      BY <1>6, <3>1, CardAdd
    <3> QED BY <2>1, <3>2, IdleFacts, SignInAssumption
  <2>2. CASE q # p
    <3>1. Open(q)' \subseteq Open(q)
      BY <1>5, <2>2
    <3>2. /\ Cardinality(Open(q)') \in Nat /\ Cardinality(Open(q)) \in Nat
          /\ Cardinality(Open(q)') <= Cardinality(Open(q))
      BY <3>1, Finite, CardSub
    <3>3. task'[q].op = "begin" => task[q].op = "begin"
      BY IdleFacts
    <3> QED BY <3>2, <3>3, SignInAssumption DEF CountsInv, RoomOK
  <2> QED BY <2>1, <2>2
<1> QED BY <1>8, <1>9 DEF CountsInv, RoomOK

LEMMA BeginCounts ==
    ASSUME LoginsInv, LoginsInv', CountsInv, NEW p \in Processes, Begin(p) PROVE CountsInv'
<1>1. Shapes /\ Shapes' /\ UNCHANGED issuer /\ task[p] = Idle
  BY DEF LoginsInv, Begin, provider
<1>2. PICK w : w = Reaped(p)
  OBVIOUS
<1>3. /\ w \in Seq(Attempts) /\ FadedTo(w)
      /\ \A a \in DOMAIN attempts :
            w[a].status = IF a \in Open(p) /\ attempts[a].status = "expired"
                          THEN "gone" ELSE attempts[a].status
  BY <1>1, <1>2, ReapedFacts
<1>4. \A a \in DOMAIN attempts : attempts[a].status = "gone" => w[a].status = "gone"
  BY <1>3
<1>5. PICK W : W = {a \in Open(p) : attempts[a].status # "expired"}
  OBVIOUS
<1>6. W \subseteq Open(p) /\ \A a \in Open(p) : a \in W \/ w[a].status = "gone"
  BY <1>3, <1>5 DEF Open
<1>7. CASE attempts' = w /\ UNCHANGED task
  <2>1. Faded /\ GoneStay
    BY <1>3, <1>4, <1>7 DEF Faded, GoneStay
  <2> QED BY <1>1, <1>7, <2>1, FadedKeepsCounts DEF QuietCounts
<1>8. CASE Free(p) /\ attempts' = Append(w, Attempt(p, vault)) /\ UNCHANGED task
  <2>1. PICK r : r = vault
    OBVIOUS
  <2>2. Attempt(p, r) \in Attempts
    BY <1>1, <2>1 DEF Attempt, Attempts, Shapes
  <2>3. Cardinality(W) < MaxAttempts
    BY <1>5, <1>8 DEF Free
  <2> QED BY <1>1, <1>3, <1>4, <1>6, <1>8, <2>1, <2>2, <2>3, BegunCounts
<1>9. CASE /\ Free(p) /\ attempts' = w
           /\ Go(p, [op |-> "begin", record |-> [NoRecord EXCEPT !.host = hosts + 1]])
  <2>1. Faded /\ GoneStay
    BY <1>3, <1>4, <1>9 DEF Faded, GoneStay
  <2>2. /\ task'[p].op = "begin" /\ ~MayExchange(task'[p])
        /\ \A q \in Processes : q # p => task'[q] = task[q]
    BY <1>1, <1>9 DEF Go, Shapes, MayExchange
  <2>3. SumOK'
    <3>1. Exchanging' \subseteq Exchanging
      BY <2>2 DEF Exchanging
    <3> QED BY <1>1, <2>1, <3>1, FadedCounts, SumStays DEF CountsInv
  <2>4. ASSUME NEW q \in Processes
        PROVE  /\ Cardinality(Open(q)') <= MaxAttempts
               /\ task'[q].op = "begin" => Cardinality(Open(q)') < MaxAttempts
    <3>1. CASE q = p
      <4>1. Open(p)' \subseteq W
        BY <1>3, <1>6, <1>9 DEF Open, FadedTo
      <4>2. IsFiniteSet(W)
        BY <1>1, <1>6, Finite, CardSub
      <4>3. /\ Cardinality(Open(p)') \in Nat /\ Cardinality(W) \in Nat
            /\ Cardinality(Open(p)') <= Cardinality(W)
        BY <4>1, <4>2, CardSub
      <4>4. Cardinality(W) < MaxAttempts
        BY <1>5, <1>9 DEF Free
      <4> QED BY <3>1, <4>3, <4>4, SignInAssumption
    <3>2. CASE q # p
      <4>1. Open(q)' \subseteq Open(q)
        BY <2>1, FadedCounts
      <4>2. /\ Cardinality(Open(q)') \in Nat /\ Cardinality(Open(q)) \in Nat
            /\ Cardinality(Open(q)') <= Cardinality(Open(q))
        BY <1>1, <4>1, Finite, CardSub
      <4> QED BY <2>2, <3>2, <4>2, SignInAssumption DEF CountsInv, RoomOK
    <3> QED BY <3>1, <3>2
  <2> QED BY <2>3, <2>4 DEF CountsInv, RoomOK
<1> QED BY <1>2, <1>7, <1>8, <1>9 DEF Begin

LEMMA DrawCounts ==
    ASSUME LoginsInv, LoginsInv', CountsInv, NEW p \in Processes, Draw(p) PROVE CountsInv'
<1>1. /\ Shapes /\ Shapes' /\ UNCHANGED issuer /\ task[p].op = "begin" /\ task[p] \in Tasks
      /\ Go(p, Idle)
  BY DEF LoginsInv, Shapes, Draw, provider
<1>2. task'[p] = Idle /\ \A q \in Processes : q # p => task'[q] = task[q]
  BY <1>1, IdleFacts, GoFacts
<1>3. PICK r \in Records : r = task[p].record
  BY <1>1, TaskFacts
<1>4. attempts' = attempts \/ attempts' = Append(attempts, Attempt(p, r))
  BY <1>3 DEF Draw
<1>5. CASE attempts' = attempts
  <2>1. QuietCounts
    BY <1>1, IdleFacts, GoCounts
  <2> QED BY <1>1, <1>5, <2>1, StillCounts, FadedKeepsCounts
<1>6. CASE attempts' = Append(attempts, Attempt(p, r))
  <2>1. PICK w \in Seq(Attempts) : w = attempts
    BY <1>1 DEF Shapes
  <2>2. FadedTo(w)
    BY <2>1 DEF FadedTo
  <2>3. PICK W : W = Open(p)
    OBVIOUS
  <2>4. Cardinality(W) < MaxAttempts
    BY <1>1, <2>3 DEF CountsInv, RoomOK
  <2>5. Attempt(p, r) \in Attempts
    BY DEF Attempt, Attempts
  <2>6. \A a \in Open(p) : a \in W \/ w[a].status = "gone"
    BY <2>3
  <2> QED BY <1>1, <1>2, <1>6, <2>1, <2>2, <2>3, <2>4, <2>5, <2>6, BegunCounts
<1> QED BY <1>4, <1>5, <1>6

LEMMA ExchangeCounts ==
    ASSUME LoginsInv, LoginsInv', CountsInv, NEW p \in Processes, Exchange(p) PROVE CountsInv'
<1>1. /\ Shapes /\ Shapes' /\ UNCHANGED attempts /\ task[p] \in Tasks
      /\ task[p].op = "login" /\ task[p].step = "exchange"
  BY DEF LoginsInv, Shapes, Exchange, At
<1>2. /\ task'[p].op # "begin" /\ ~MayExchange(task'[p])
      /\ \A q \in Processes : q # p => task'[q] = task[q]
  <2>1. \A t : Go(p, t) => task'[p] = t /\ \A q \in Processes : q # p => task'[q] = task[q]
    BY <1>1 DEF Go, Shapes
  <2>2. task[p] \in Logins
    BY <1>1, TaskKinds
  <2>3. \A a : /\ [task[p] EXCEPT !.step = "commit", !.account = a].op = "login"
               /\ [task[p] EXCEPT !.step = "commit", !.account = a].step = "commit"
    BY ONLY <2>2 DEF Logins
  <2>4. PICK a : Go(p, [task[p] EXCEPT !.step = "commit", !.account = a]) \/ Go(p, Idle)
    BY DEF Exchange
  <2> QED BY <2>1, <2>3, <2>4, IdleFacts DEF MayExchange
<1>3. Len(issuer') \in Nat /\ Len(issuer') <= Len(issuer) + 1 /\ Len(issuer) \in Nat
  <2>1. \A x : Len(Append(issuer, x)) = Len(issuer) + 1
    BY <1>1 DEF Shapes
  <2>2. Len(issuer) \in Nat
    BY <1>1, Finite
  <2> QED BY <2>1, <2>2 DEF Exchange
<1>4. Faded /\ GoneStay /\ Called' \subseteq Called /\ Answered' = Answered
  BY <1>1, StillCounts, FadedCounts
<1>5. /\ Cardinality(Called') \in Nat /\ Cardinality(Called) \in Nat
      /\ Cardinality(Called') <= Cardinality(Called) /\ Cardinality(Answered) \in Nat
  BY <1>1, <1>4, Finite, CardSub, FS_CardinalityType
<1>6. /\ Cardinality(Exchanging') \in Nat /\ Cardinality(Exchanging) \in Nat
      /\ Cardinality(Exchanging') + 1 <= Cardinality(Exchanging)
  <2>1. p \in Exchanging /\ Exchanging' \subseteq Exchanging \ {p}
    BY <1>1, <1>2 DEF Exchanging, MayExchange
  <2> QED BY <1>1, <2>1, Finite, CardLess
<1>7. SumOK'
  BY <1>3, <1>4, <1>5, <1>6 DEF SumOK, CountsInv
<1>8. RoomOK'
  BY <1>1, <1>2, <1>4, FadedCounts, RoomStays DEF CountsInv
<1> QED BY <1>7, <1>8 DEF CountsInv

-----------------------------------------------------------------------------
LEMMA InitHolds == ASSUME Init PROVE IInv
<1>1. /\ vault = NoRecord /\ hosts = 0 /\ clients = 0 /\ issuer = << >> /\ attempts = << >>
      /\ task = [p \in Processes |-> Idle] /\ lapsed = {} /\ known = {} /\ past = {} /\ ended = {}
      /\ answer.ended = {} /\ signOuts = 0 /\ faults = 0
  BY DEF Init
<1>2. Shapes
  BY <1>1, NobodyFacts, IdleFacts, SignInAssumption DEF Shapes
<1>3. /\ DOMAIN issuer = {} /\ DOMAIN attempts = {} /\ Len(issuer) = 0
      /\ \A p \in Processes : task[p] = Idle
  BY <1>1
<1>4. IsFiniteSet({}) /\ Cardinality({}) = 0
  BY FS_EmptySet
<1>5. SessionsOK /\ StoreOK /\ LapsedOK /\ AttemptsOK /\ NoTokenAfterSignOut /\ StoredLoginsRenew
  <2>1. GoodRecord(vault)
    BY <1>1, NobodyFacts DEF GoodRecord, GoodAccount
  <2>2. StoreOK
    BY <1>1, <2>1 DEF StoreOK
  <2>3. LapsedOK
    BY <1>1, <1>3, <1>4, SignInAssumption DEF LapsedOK
  <2>4. StoredLoginsRenew
    BY <1>1, NobodyFacts DEF StoredLoginsRenew
  <2> QED BY <1>1, <1>3, <2>2, <2>3, <2>4 DEF SessionsOK, AttemptsOK, NoTokenAfterSignOut
<1>6. TasksOK /\ CommitsAreDistinct
  BY <1>3, IdleFacts DEF TasksOK, CommitsAreDistinct
<1>7. Called = {} /\ Answered = {} /\ Exchanging = {} /\ \A p : Open(p) = {}
  BY <1>3, IdleFacts DEF Called, Answered, Exchanging, Open
<1>8. CountsInv
  <2>1. SumOK
    BY <1>3, <1>4, <1>7 DEF SumOK
  <2>2. RoomOK
    <3>1. ASSUME NEW p \in Processes PROVE Cardinality(Open(p)) = 0 /\ task[p].op # "begin"
      BY <1>3, <1>4, <1>7, IdleFacts
    <3> QED BY <3>1, SignInAssumption DEF RoomOK
  <2> QED BY <2>1, <2>2 DEF CountsInv
<1> QED BY <1>2, <1>5, <1>6, <1>8 DEF IInv, LoginsInv

LEMMA StutterKeeps == ASSUME IInv, UNCHANGED vars PROVE IInv'
<1>1. /\ UNCHANGED <<vault, hosts, issuer, clients, attempts, task, lapsed, answer, known, past, ended>>
      /\ UNCHANGED <<signOuts, faults>>
  BY DEF vars, provider, history
<1>2. LoginsInv'
  BY <1>1, SameAttempts, SameTasks, SameAnswer, QuietStep DEF IInv, LoginsInv, Shapes
<1>3. CountsInv'
  BY <1>1, <1>2, StillCounts, FadedKeepsCounts DEF IInv, LoginsInv, QuietCounts
<1> QED BY <1>2, <1>3 DEF IInv

LEMMA NextKeeps == ASSUME IInv, Next PROVE IInv'
<1>1. LoginsInv /\ CountsInv
  BY DEF IInv
<1>2. CASE Lapse
  BY <1>1, <1>2, LapseKeeps, LapseCounts DEF IInv
<1>3. ASSUME NEW a \in DOMAIN attempts, CallBack(a) \/ Expire(a) PROVE IInv'
  BY <1>1, <1>3, CallBackKeeps, CallBackCounts, ExpireKeeps, ExpireCounts DEF IInv
<1>4. ASSUME NEW p \in Processes, NEW a \in DOMAIN attempts, Poll(p, a) \/ Drop(p, a) PROVE IInv'
  BY <1>1, <1>4, PollKeeps, PollCounts, DropKeeps, DropCounts DEF IInv
<1>5. ASSUME NEW p \in Processes, Begin(p) \/ Draw(p) \/ Exchange(p) \/ Die(p) PROVE IInv'
  BY <1>1, <1>5, BeginKeeps, BeginCounts, DrawKeeps, DrawCounts, ExchangeKeeps, ExchangeCounts,
     DieKeeps, DieCounts DEF IInv
<1>6. ASSUME NEW p \in Processes,
             \/ Register(p) \/ Complete(p) \/ Use(p) \/ Renew(p) \/ Rotated(p) \/ Verify(p)
             \/ SignOut(p) \/ Clear(p) \/ Revoke(p)
      PROVE  IInv'
  <2>1. LoginsInv'
    BY <1>1, <1>6, RegisterKeeps, CompleteKeeps, UseKeeps, RenewKeeps, RotatedKeeps, VerifyKeeps,
       SignOutKeeps, ClearKeeps, RevokeKeeps
  <2> QED BY <1>1, <1>6, <2>1, StepCounts DEF IInv
<1> QED BY <1>2, <1>3, <1>4, <1>5, <1>6 DEF Next

\* A session has no more refresh tokens than there were lapses.
LEMMA RefreshesAreFew ==
    ASSUME Shapes, SessionsOK, LapsedOK, NEW s \in DOMAIN issuer
    PROVE  issuer[s].refresh \in 1 .. MaxLapses + 1
<1>1. issuer[s].refresh \in Nat /\ issuer[s].refresh >= 1
  BY SessionFacts DEF Shapes, SessionsOK
<1>2. PICK f : f = [a \in lapsed |-> a.refresh]
  OBVIOUS
<1>3. PICK R : R = {f[a] : a \in lapsed}
  OBVIOUS
<1>4. IsFiniteSet(R) /\ Cardinality(R) <= Cardinality(lapsed) /\ Cardinality(lapsed) <= MaxLapses
  <2>1. f \in Surjection(lapsed, R)
    BY <1>2, <1>3 DEF Surjection
  <2> QED BY <2>1, FS_Surjection DEF LapsedOK
<1>5. 1 .. issuer[s].refresh - 1 \subseteq R
  BY <1>2, <1>3 DEF LapsedOK
<1>6. Cardinality(1 .. issuer[s].refresh - 1) = issuer[s].refresh - 1
  BY <1>1, FS_Interval
<1>7. /\ Cardinality(1 .. issuer[s].refresh - 1) <= Cardinality(R)
      /\ Cardinality(R) \in Nat /\ Cardinality(lapsed) \in Nat
  BY <1>4, <1>5, CardSub, FS_CardinalityType DEF LapsedOK
<1> QED BY <1>1, <1>4, <1>6, <1>7, SignInAssumption

LEMMA TypeFollows == ASSUME IInv PROVE TypeOK
<1>1. Shapes /\ SessionsOK /\ StoreOK /\ LapsedOK /\ AttemptsOK /\ TasksOK /\ CountsInv
  BY DEF IInv, LoginsInv
<1>2. issuer \in Seq([client : 1 .. clients, refresh : 1 .. MaxLapses + 1, revoked : BOOLEAN])
  <2>1. ASSUME NEW s \in DOMAIN issuer
        PROVE  issuer[s] \in [client : 1 .. clients, refresh : 1 .. MaxLapses + 1, revoked : BOOLEAN]
    <3>1. issuer[s] \in Sessions
      BY <1>1, SessionFacts DEF Shapes
    <3>2. issuer[s].client \in 1 .. clients /\ issuer[s].refresh \in 1 .. MaxLapses + 1
      BY <1>1, RefreshesAreFew DEF SessionsOK, Shapes
    <3> QED BY <3>1, <3>2 DEF Sessions
  <2>2. PICK S : S = [client : 1 .. clients, refresh : 1 .. MaxLapses + 1, revoked : BOOLEAN]
    OBVIOUS
  <2>3. /\ DOMAIN issuer = 1 .. Len(issuer) /\ Len(issuer) \in Nat
        /\ issuer = [s \in DOMAIN issuer |-> issuer[s]] /\ \A s \in DOMAIN issuer : issuer[s] \in S
    BY <1>1, <2>1, <2>2 DEF Shapes
  <2>4. issuer \in [1 .. Len(issuer) -> S]
    BY ONLY <2>3
  <2>5. issuer \in Seq(S)
    BY ONLY <2>3, <2>4
  <2> QED BY ONLY <2>2, <2>5
<1>3. ASSUME NEW a \in Accounts, GoodAccount(a) PROVE a \in Account
  <2>1. CASE a = NoAccount
    BY <1>1, <2>1, SignInAssumption DEF NoAccount, Account, Shapes
  <2>2. CASE a # NoAccount
    <3>1. /\ a.session \in DOMAIN issuer /\ a.subject \in Subjects /\ a.client \in known
          /\ a.refresh \in Nat /\ a.refresh <= issuer[a.session].refresh
      BY <1>1, <1>3, <2>2, GoodFacts
    <3>2. issuer[a.session].refresh \in 1 .. MaxLapses + 1
      BY <1>1, <3>1, RefreshesAreFew
    <3>3. a.session \in 0 .. Len(issuer)
      BY <1>1, <3>1, SessionFacts, Finite DEF Shapes
    <3>4. a.refresh \in 0 .. MaxLapses + 1
      BY <3>1, <3>2, SignInAssumption
    <3>5. a.client \in 0 .. clients
      <4>1. known \subseteq 1 .. clients /\ clients \in Nat
        BY <1>1 DEF Shapes
      <4>2. a.client \in 1 .. clients
        BY ONLY <3>1, <4>1
      <4> QED BY ONLY <4>1, <4>2
    <3> QED BY <3>1, <3>3, <3>4, <3>5 DEF Account, Accounts
  <2> QED BY <2>1, <2>2
<1>4. ASSUME NEW r \in Records, GoodRecord(r) PROVE r \in Record
  <2>1. r.account \in Account
    BY <1>3, <1>4, RecordFacts DEF GoodRecord
  <2>2. r.host \in 0 .. hosts /\ r.client \in 0 .. clients
    BY <1>1, <1>4, RecordFacts DEF GoodRecord, Shapes
  <2> QED BY <2>1, <2>2 DEF Record, Records
<1>5. vault \in Record
  BY <1>1, <1>4 DEF Shapes, StoreOK
<1>6. ASSUME NEW a \in DOMAIN attempts
      PROVE  /\ attempts[a].prior \in Record
             /\ attempts[a].status \in {"waiting", "called", "refused", "expired", "gone"}
  BY <1>1, <1>4, AttemptFacts DEF AttemptsOK, AttemptOK
<1>7. ASSUME NEW p \in Processes PROVE task[p].op \in {"idle", "begin", "login", "use", "sign-out"}
  BY <1>1, TaskFacts DEF Shapes
<1>8. past \subseteq Account /\ lapsed \subseteq Account
  BY <1>1, <1>3 DEF StoreOK, LapsedOK, Shapes
<1> QED BY <1>1, <1>2, <1>5, <1>6, <1>7, <1>8 DEF TypeOK, Shapes, CountsInv, RoomOK

LEMMA InvariantImplies ==
    ASSUME IInv
    PROVE  /\ TypeOK /\ ClientsAreStoredFirst /\ ReplacedAccountsStayGone
           /\ NoTokenAfterSignOut /\ StoredLoginsRenew /\ OneSessionForEachAttempt
<1>1. Shapes /\ SessionsOK /\ StoreOK /\ CountsInv /\ NoTokenAfterSignOut /\ StoredLoginsRenew
  BY DEF IInv, LoginsInv
<1>2. ClientsAreStoredFirst
  BY <1>1 DEF ClientsAreStoredFirst, SessionsOK
<1>3. ReplacedAccountsStayGone
  <2>1. vault.account.refresh \in Nat
    BY <1>1, RecordFacts, AccountFacts DEF Shapes
  <2> QED BY <1>1, <2>1 DEF ReplacedAccountsStayGone, StoreOK
<1>4. OneSessionForEachAttempt
  <2> DEFINE E == {p \in Processes : At(p, "login", "exchange")}
  <2>1. E \subseteq Exchanging
    BY DEF At, Exchanging, MayExchange
  <2>2. Answered = {a \in DOMAIN attempts : attempts[a].subject # NoSubject}
    BY DEF Answered
  <2> HIDE DEF E
  <2>3. /\ Cardinality(E) \in Nat /\ Cardinality(Exchanging) \in Nat
        /\ Cardinality(E) <= Cardinality(Exchanging)
    BY <1>1, <2>1, Finite, CardSub
  <2>4. Cardinality(Called) \in Nat /\ Cardinality(Answered) \in Nat /\ Len(issuer) \in Nat
    BY <1>1, Finite, FS_CardinalityType
  <2>5. Len(issuer) + Cardinality(E) <= Cardinality(Answered)
    BY <1>1, <2>3, <2>4 DEF CountsInv, SumOK
  <2> QED BY <2>2, <2>5 DEF OneSessionForEachAttempt, E
<1> QED BY <1>1, <1>2, <1>3, <1>4, TypeFollows

LEMMA PersonStays == ASSUME IInv, [Next]_vars PROVE [OnePersonAtATime]_vars
<1> SUFFICES ASSUME vault'.account # NoAccount, vault.account # NoAccount, vault' # vault
             PROVE  vault'.account.subject = vault.account.subject
  BY DEF OnePersonAtATime, vars
<1>1. Shapes
  BY DEF IInv, LoginsInv
<1>2. PICK p \in Processes : Draw(p) \/ Register(p) \/ Complete(p) \/ Rotated(p) \/ Clear(p)
  BY Zenon DEF Next, Lapse, CallBack, Expire, Begin, Poll, Drop, Exchange, Use, Renew, Verify, SignOut,
         Revoke, Die, vars
<1>3. PICK t \in Tasks : t = task[p] /\ TaskOK(t)
  BY DEF IInv, LoginsInv, Shapes, TasksOK
<1>4. \A r : Save(r, "stored") \/ Save(r, "failed") => vault' = r
  BY DEF Save, Keep, Write
<1>5. \A e, r : \A result \in {"stored", "superseded", "failed"} :
         Rotate(e, r, result) => vault = e /\ vault' = r
  BY DEF Rotate, Keep, Write
<1>6. CASE Draw(p)
  BY <1>3, <1>4, <1>6 DEF Draw, TaskOK, BeginOK
<1>7. CASE Register(p)
  <2>1. t.op = "login" /\ t \in Logins
    BY <1>3, <1>7, TaskKinds DEF Register, At
  <2>2. vault' = [t.prior EXCEPT !.client = attempts[t.attempt].client, !.account = NoAccount]
    BY <1>3, <1>5, <1>7 DEF Register
  <2>3. vault'.account = NoAccount
    BY ONLY <2>1, <2>2 DEF Logins, Records
  <2> QED BY <2>3
<1>8. CASE Complete(p)
  <2>1. t.op = "login" /\ t.step = "commit"
    BY <1>3, <1>8 DEF Complete, At
  <2>2. vault = t.prior /\ vault'.account = t.account
    BY <1>3, <1>5, <1>8 DEF Complete
  <2> QED BY <1>3, <2>1, <2>2 DEF TaskOK, LoginOK, SameSubject
<1>9. CASE Rotated(p)
  <2>1. t.op = "use" /\ t.step = "rotate" /\ t \in Uses
    BY <1>3, <1>9, TaskKinds DEF Rotated, At
  <2>2. vault = t.record /\ vault' = [t.record EXCEPT !.account = t.next]
    BY <1>3, <1>5, <1>9 DEF Rotated
  <2>3. vault'.account = t.next
    BY ONLY <2>1, <2>2 DEF Uses, Records
  <2>4. t.next = Renewed(t.record.account) /\ t.record.account \in Accounts
    BY <1>3, <2>1, TaskFacts, RecordFacts DEF TaskOK, UseOK
  <2> QED BY <2>2, <2>3, <2>4, RenewedFacts
<1>10. CASE Clear(p)
  <2>1. t.op = "sign-out" /\ t \in SignOuts
    BY <1>3, <1>10, TaskKinds DEF Clear, At
  <2>2. vault' = SignedOut(t.record)
    BY <1>3, <1>5, <1>10 DEF Clear
  <2>3. vault'.account = NoAccount
    BY ONLY <2>1, <2>2 DEF SignOuts, Records, SignedOut
  <2> QED BY <2>3
<1> QED BY <1>2, <1>6, <1>7, <1>8, <1>9, <1>10

(* Signing in is sound for any number of processes, attempts, lapses,      *)
(* sign-outs and faults: each attempt opens one session at most, what a    *)
(* login, a refresh or a sign-out replaced in the store never comes back,  *)
(* and the account that is left there is one the issuer still renews.      *)
THEOREM SignInsAlwaysSound == Spec => SignInsAreSound
<1>1. Init => IInv
  BY InitHolds
<1>2. IInv /\ [Next]_vars => IInv'
  BY NextKeeps, StutterKeeps
<1>3. IInv => /\ TypeOK /\ ClientsAreStoredFirst /\ ReplacedAccountsStayGone
              /\ NoTokenAfterSignOut /\ StoredLoginsRenew /\ OneSessionForEachAttempt
  BY InvariantImplies
<1>4. IInv /\ [Next]_vars => [OnePersonAtATime]_vars
  BY PersonStays
<1> QED BY <1>1, <1>2, <1>3, <1>4, PTL DEF Spec, SignInsAreSound
============================================================================
