------------------------------ MODULE ChatGptSignIn ------------------------------
(***************************************************************************)
(* Signing in with ChatGPT, as the processes that hold the provider plugin *)
(* do it for one named account (phenix-plugin-provider-chatgpt).           *)
(*                                                                         *)
(* The account's protected record lives in the credential store; its host  *)
(* identity, issued client and tokens are replaced as a whole: by import   *)
(* when there is no record yet, by compare-exchange afterwards.  A browser  *)
(* attempt keeps the record it began from, a refresh and a sign-out the    *)
(* record they read.  Between two calls of one handler another process may *)
(* do anything.  The issuer gives a client to a first registration, a      *)
(* session to a code, and a new refresh token for each one it takes back.  *)
(*                                                                         *)
(* Out of the model: calls for another account, which the owner check      *)
(* refuses, and the checks of a URL or of a signature, whose failure is a  *)
(* fault of the exchange.                                                  *)
(***************************************************************************)
EXTENDS Naturals, Sequences, FiniteSets

CONSTANTS Processes, Subjects, MaxAttempts, MaxBegins, MaxLapses, MaxSignOuts, MaxFaults

NoSubject == "nobody"

ASSUME SignInAssumption ==
    /\ IsFiniteSet(Processes) /\ NoSubject \notin Subjects
    /\ MaxAttempts \in Nat /\ MaxLapses \in Nat /\ MaxSignOuts \in Nat /\ MaxFaults \in Nat

NoAccount == [session |-> 0, refresh |-> 0, subject |-> NoSubject, client |-> 0]
NoRecord  == [host |-> 0, client |-> 0, account |-> NoAccount]
Idle      == [op |-> "idle"]

VARIABLES
    vault,     \* the account's record in the credential store
    hosts,     \* how many host identities were drawn
    clients,   \* how many clients the issuer gave out
    issuer,    \* its sessions: their client, current refresh token, and whether revoked
    attempts,  \* the browser attempts, in the order they began
    task,      \* what each process is in the middle of
    lapsed,    \* the accounts whose access token is near its expiry
    answer,    \* the last answer that carried a token
    known,     \* history: the clients that were ever in the store
    past,      \* history: the accounts that were in the store and no longer are
    ended,     \* history: the sessions whose sign-out was stored
    signOuts, faults

provider == <<issuer, clients>>
history  == <<known, past, ended>>
vars     == <<vault, hosts, provider, attempts, task, lapsed, answer, history, signOuts, faults>>

Returning(record) == IF record.account # NoAccount THEN record.account.client ELSE record.client

Init ==
    /\ vault = NoRecord
    /\ hosts = 0 /\ clients = 0 /\ issuer = << >>
    /\ attempts = << >>
    /\ task = [p \in Processes |-> Idle]
    /\ lapsed = {}
    /\ answer = [account |-> NoAccount, ended |-> {}]
    /\ known = {} /\ past = {} /\ ended = {}
    /\ signOuts = 0 /\ faults = 0

-----------------------------------------------------------------------------
(***************************************************************************)
(* The credential store, one call at a time.                                *)
(***************************************************************************)
Go(p, next) == task' = [task EXCEPT ![p] = next]

Write(record) ==
    /\ vault' = record
    /\ known' = known \cup ({Returning(record)} \ {0})
    /\ past'  = past \cup ({vault.account} \ {record.account, NoAccount})

Keep == UNCHANGED <<vault, known, past>>

Fault == faults < MaxFaults /\ faults' = faults + 1

(* save: the record is imported over whatever is there. *)
Save(record, result) ==
    \/ result = "stored" /\ Write(record) /\ UNCHANGED faults
    \/ result = "failed" /\ Fault /\ (Keep \/ Write(record))

(* rotate: the record is replaced if it is, byte for byte, the expected one. *)
Rotate(expected, record, result) ==
    \/ result = "stored" /\ vault = expected /\ Write(record) /\ UNCHANGED faults
    \/ result = "superseded" /\ vault # expected /\ Keep /\ UNCHANGED faults
    \/ result = "failed" /\ Fault /\ (Keep \/ (vault = expected /\ Write(record)))

-----------------------------------------------------------------------------
(***************************************************************************)
(* Browser attempts.                                                        *)
(***************************************************************************)
Open(p) == {a \in DOMAIN attempts : attempts[a].owner = p /\ attempts[a].status # "gone"}

(* The attempts whose time has passed are dropped before the others are    *)
(* counted.                                                                *)
Reaped(p) ==
    [a \in DOMAIN attempts |->
        IF a \in Open(p) /\ attempts[a].status = "expired"
        THEN [attempts[a] EXCEPT !.status = "gone"] ELSE attempts[a]]

Attempt(p, record) ==
    [owner |-> p, prior |-> record, status |-> "waiting", client |-> 0, subject |-> NoSubject]

Free(p) == Cardinality({a \in Open(p) : attempts[a].status # "expired"}) < MaxAttempts

(* begin: the stored record is the attempt's, or a new one is drawn.       *)
Begin(p) ==
    /\ task[p] = Idle /\ Len(attempts) < MaxBegins
    /\ IF ~Free(p)
       THEN attempts' = Reaped(p) /\ UNCHANGED <<hosts, task>>
       ELSE IF vault # NoRecord
       THEN attempts' = Append(Reaped(p), Attempt(p, vault)) /\ UNCHANGED <<hosts, task>>
       ELSE /\ attempts' = Reaped(p)
            /\ hosts' = hosts + 1
            /\ Go(p, [op |-> "begin", record |-> [NoRecord EXCEPT !.host = hosts + 1]])
    /\ UNCHANGED <<vault, provider, lapsed, answer, history, signOuts, faults>>

(* ... which is stored before there is a challenge.                        *)
Draw(p) ==
    /\ task[p].op = "begin" /\ Len(attempts) < MaxBegins
    /\ \E result \in {"stored", "failed"} :
          /\ Save(task[p].record, result)
          /\ attempts' = IF result = "stored"
                         THEN Append(attempts, Attempt(p, task[p].record)) ELSE attempts
    /\ Go(p, Idle)
    /\ UNCHANGED <<hosts, provider, lapsed, answer, ended, signOuts>>

Mark(a, status) == attempts' = [attempts EXCEPT ![a].status = status]

(* The browser comes back: with a code, for the client the URL named or a  *)
(* new one, or with something the callback's parser refuses.               *)
CallBack(a) ==
    /\ attempts[a].status = "waiting"
    /\ \/ /\ Mark(a, "refused") /\ UNCHANGED clients
       \/ \E s \in Subjects :
             LET c == Returning(attempts[a].prior)
             IN /\ clients' = IF c = 0 THEN clients + 1 ELSE clients
                /\ attempts' = [attempts EXCEPT ![a].status = "called", ![a].subject = s,
                                                ![a].client = IF c = 0 THEN clients + 1 ELSE c]
    /\ UNCHANGED <<vault, hosts, issuer, task, lapsed, answer, history, signOuts, faults>>

Expire(a) ==
    /\ attempts[a].status \in {"waiting", "called", "refused"}
    /\ Mark(a, "expired")
    /\ UNCHANGED <<vault, hosts, provider, task, lapsed, answer, history, signOuts, faults>>

(* cancel, and poll of an attempt that is over or whose callback is bad.   *)
Drop(p, a) ==
    /\ task[p] = Idle /\ a \in Open(p)
    /\ Mark(a, "gone")
    /\ UNCHANGED <<vault, hosts, provider, task, lapsed, answer, history, signOuts, faults>>

(* poll: the attempt leaves the map with its callback. *)
Poll(p, a) ==
    /\ task[p] = Idle /\ a \in Open(p) /\ attempts[a].status = "called"
    /\ Mark(a, "gone")
    /\ Go(p, [op |-> "login", attempt |-> a, prior |-> attempts[a].prior, account |-> NoAccount,
              step |-> IF Returning(attempts[a].prior) = 0 THEN "register" ELSE "exchange"])
    /\ UNCHANGED <<vault, hosts, provider, lapsed, answer, history, signOuts, faults>>

At(p, op, step) == task[p].op = op /\ task[p].step = step

(* Fault: a new client is not stored before its code is exchanged. *)
RegisterLater(p) ==
    /\ At(p, "login", "register")
    /\ Go(p, [task[p] EXCEPT !.step = "exchange"])
    /\ UNCHANGED <<vault, hosts, provider, attempts, lapsed, answer, history, signOuts, faults>>

(* A client the issuer has just given is stored, without tokens.           *)
Register(p) ==
    /\ At(p, "login", "register")
    /\ LET registered == [task[p].prior EXCEPT !.client = attempts[task[p].attempt].client,
                                               !.account = NoAccount]
       IN \E result \in {"stored", "superseded", "failed"} :
             /\ Rotate(task[p].prior, registered, result)
             /\ Go(p, IF result = "stored"
                      THEN [task[p] EXCEPT !.step = "exchange", !.prior = registered] ELSE Idle)
    /\ UNCHANGED <<hosts, provider, attempts, lapsed, answer, ended, signOuts>>

SameSubject(prior, subject) == prior.account # NoAccount => subject = prior.account.subject

(* The code is exchanged and the identity verified: either may fail, and   *)
(* the issuer's session exists once the code reached it.                   *)
Exchange(p) ==
    /\ At(p, "login", "exchange")
    /\ LET a    == attempts[task[p].attempt]
           next == [session |-> Len(issuer) + 1, refresh |-> 1, subject |-> a.subject, client |-> a.client]
           opened == issuer' = Append(issuer, [client |-> a.client, refresh |-> 1, revoked |-> FALSE])
       IN \/ /\ opened /\ SameSubject(task[p].prior, a.subject)
             /\ Go(p, [task[p] EXCEPT !.step = "commit", !.account = next])
             /\ UNCHANGED faults
          \/ /\ opened /\ ~SameSubject(task[p].prior, a.subject) /\ Go(p, Idle) /\ UNCHANGED faults
          \/ Fault /\ Go(p, Idle) /\ (opened \/ UNCHANGED issuer)
    /\ UNCHANGED <<vault, hosts, clients, attempts, lapsed, answer, history, signOuts>>

(* The account is stored over the record the attempt began from.           *)
Complete(p) ==
    /\ At(p, "login", "commit")
    /\ LET record == [host |-> task[p].prior.host, client |-> task[p].account.client,
                      account |-> task[p].account]
       IN \E result \in {"stored", "superseded", "failed"} : Rotate(task[p].prior, record, result)
    /\ Go(p, Idle)
    /\ UNCHANGED <<hosts, provider, attempts, lapsed, answer, ended, signOuts>>

-----------------------------------------------------------------------------
(***************************************************************************)
(* The use of the account: by the catalogue, the status and the bearer.    *)
(***************************************************************************)
Lapse ==
    /\ vault.account \notin lapsed \cup {NoAccount} /\ Cardinality(lapsed) < MaxLapses
    /\ lapsed' = lapsed \cup {vault.account}
    /\ UNCHANGED <<vault, hosts, provider, attempts, task, answer, history, signOuts, faults>>

(* authorized_account reads the record. *)
Use(p) ==
    /\ task[p] = Idle /\ vault.account # NoAccount
    /\ Go(p, [op |-> "use", record |-> vault, next |-> NoAccount, ended |-> ended,
              step |-> IF vault.account \in lapsed THEN "renew" ELSE "verify"])
    /\ UNCHANGED <<vault, hosts, provider, attempts, lapsed, answer, history, signOuts, faults>>

Renewed(account) == [account EXCEPT !.refresh = @ + 1]

(* Its refresh token is exchanged, if it is still the session's. *)
Renew(p) ==
    /\ At(p, "use", "renew")
    /\ LET old   == task[p].record.account
           taken == ~issuer[old.session].revoked /\ issuer[old.session].refresh = old.refresh
           turn  == issuer' = [issuer EXCEPT ![old.session].refresh = @ + 1]
       IN \/ /\ taken /\ turn /\ UNCHANGED faults
             /\ Go(p, [task[p] EXCEPT !.step = "rotate", !.next = Renewed(old)])
          \/ ~taken /\ Go(p, Idle) /\ UNCHANGED <<issuer, faults>>
          \/ taken /\ Fault /\ Go(p, Idle) /\ (turn \/ UNCHANGED issuer)
    /\ UNCHANGED <<vault, hosts, clients, attempts, lapsed, answer, history, signOuts>>

(* ... and the record replaced, if nothing replaced it meanwhile. *)
Rotated(p) ==
    /\ At(p, "use", "rotate")
    /\ LET record == [task[p].record EXCEPT !.account = task[p].next]
       IN \E result \in {"stored", "superseded", "failed"} :
             /\ Rotate(task[p].record, record, result)
             /\ Go(p, IF result = "stored"
                      THEN [task[p] EXCEPT !.step = "verify", !.record = record] ELSE Idle)
    /\ UNCHANGED <<hosts, provider, attempts, lapsed, answer, ended, signOuts>>

(* The stored identity is verified once more, and its token handed out. *)
Verify(p) ==
    /\ At(p, "use", "verify")
    /\ Go(p, Idle)
    /\ answer' = [account |-> task[p].record.account, ended |-> task[p].ended]
    /\ UNCHANGED <<vault, hosts, provider, attempts, lapsed, history, signOuts, faults>>

-----------------------------------------------------------------------------
(***************************************************************************)
(* revoke: the tokens are cleared locally first, then the session ended.   *)
(***************************************************************************)
SignOut(p) ==
    /\ task[p] = Idle /\ signOuts < MaxSignOuts /\ vault.account # NoAccount
    /\ signOuts' = signOuts + 1
    /\ Go(p, [op |-> "sign-out", step |-> "clear", record |-> vault])
    /\ UNCHANGED <<vault, hosts, provider, attempts, lapsed, answer, history, faults>>

SignedOut(record) == [record EXCEPT !.client = Returning(record), !.account = NoAccount]

Clear(p) ==
    /\ At(p, "sign-out", "clear")
    /\ \E result \in {"stored", "superseded", "failed"} :
          /\ Rotate(task[p].record, SignedOut(task[p].record), result)
          /\ Go(p, IF result = "stored" THEN [task[p] EXCEPT !.step = "revoke"] ELSE Idle)
          /\ ended' = IF result = "stored" THEN ended \cup {task[p].record.account.session} ELSE ended
    /\ UNCHANGED <<hosts, provider, attempts, lapsed, answer, signOuts>>

(* A request that fails leaves the removal unconfirmed. *)
Revoke(p) ==
    /\ At(p, "sign-out", "revoke")
    /\ LET old == task[p].record.account
           end == issuer' = IF issuer[old.session].refresh = old.refresh
                            THEN [issuer EXCEPT ![old.session].revoked = TRUE] ELSE issuer
       IN (end /\ UNCHANGED faults) \/ (Fault /\ (end \/ UNCHANGED issuer))
    /\ Go(p, Idle)
    /\ UNCHANGED <<vault, hosts, clients, attempts, lapsed, answer, history, signOuts>>

(* A process dies, with its attempts and what it was doing. *)
Die(p) ==
    /\ Fault
    /\ task[p] # Idle \/ Open(p) # {}
    /\ Go(p, Idle)
    /\ attempts' = [a \in DOMAIN attempts |->
                       IF a \in Open(p) THEN [attempts[a] EXCEPT !.status = "gone"] ELSE attempts[a]]
    /\ UNCHANGED <<vault, hosts, provider, lapsed, answer, history, signOuts>>

Next ==
    \/ Lapse
    \/ \E a \in DOMAIN attempts : CallBack(a) \/ Expire(a)
    \/ \E p \in Processes :
          \/ Begin(p) \/ Draw(p)
          \/ \E a \in DOMAIN attempts : Poll(p, a) \/ Drop(p, a)
          \/ Register(p) \/ Exchange(p) \/ Complete(p)
          \/ Use(p) \/ Renew(p) \/ Rotated(p) \/ Verify(p)
          \/ SignOut(p) \/ Clear(p) \/ Revoke(p)
          \/ Die(p)

Spec == Init /\ [][Next]_vars
-----------------------------------------------------------------------------
Account == [session : 0 .. Len(issuer), refresh : 0 .. MaxLapses + 1,
            subject : Subjects \cup {NoSubject}, client : 0 .. clients]
Record  == [host : 0 .. hosts, client : 0 .. clients, account : Account]

(* The vault holds one whole record, and an account in it or in an attempt *)
(* is one the issuer opened for an issued client (StoredOAuth); a process  *)
(* keeps no more attempts than its map may hold.                           *)
TypeOK ==
    /\ vault \in Record
    /\ issuer \in Seq([client : 1 .. clients, refresh : 1 .. MaxLapses + 1, revoked : BOOLEAN])
    /\ \A a \in DOMAIN attempts :
          /\ attempts[a].prior \in Record
          /\ attempts[a].status \in {"waiting", "called", "refused", "expired", "gone"}
    /\ \A p \in Processes : Cardinality(Open(p)) <= MaxAttempts
    /\ \A p \in Processes : task[p].op \in {"idle", "begin", "login", "use", "sign-out"}
    /\ known \subseteq 1 .. clients /\ past \subseteq Account /\ lapsed \subseteq Account
    /\ ended \subseteq DOMAIN issuer /\ faults \in 0 .. MaxFaults /\ signOuts \in 0 .. MaxSignOuts

(* A client the issuer gave out is in the store before a code is exchanged *)
(* for it, so that a process which dies in the exchange, or whose exchange *)
(* fails, left it where the next attempt finds it.                         *)
ClientsAreStoredFirst == \A s \in DOMAIN issuer : issuer[s].client \in known

(* A login, a refresh or a sign-out that replaced an account is final: no  *)
(* slower process brings the replaced tokens back, nor those of a session  *)
(* whose sign-out was stored.                                              *)
ReplacedAccountsStayGone ==
    vault.account \notin past /\ vault.account.session \notin ended

(* A call that began after a sign-out was stored hands out no token of the *)
(* session it ended.                                                       *)
NoTokenAfterSignOut == answer.account.session \notin answer.ended

(* One stored account gives way to another only for the same person: a     *)
(* different one has to sign out first.                                    *)
OnePersonAtATime ==
    vault.account # NoAccount /\ vault'.account # NoAccount
        => vault'.account.subject = vault.account.subject

(* Unless something failed, the refresh token in the store is the one the  *)
(* issuer takes next, or the process that spent it still holds its         *)
(* successor and will store it: two processes that refresh at once do not  *)
(* lock the user out.                                                      *)
StoredLoginsRenew ==
    faults = 0 /\ vault.account # NoAccount =>
        LET s == issuer[vault.account.session]
        IN /\ ~s.revoked
           /\ \/ s.refresh = vault.account.refresh
              \/ \E p \in Processes :
                    /\ At(p, "use", "rotate") /\ task[p].record = vault
                    /\ task[p].next.refresh = s.refresh

(* A browser attempt is answered once: its code opens one session at most, *)
(* however often it is polled.                                             *)
OneSessionForEachAttempt ==
    Len(issuer) + Cardinality({p \in Processes : At(p, "login", "exchange")})
        <= Cardinality({a \in DOMAIN attempts : attempts[a].subject # NoSubject})

(* All of it, in every state and in every step.                            *)
SignInsAreSound ==
    /\ [](/\ TypeOK /\ ClientsAreStoredFirst /\ ReplacedAccountsStayGone
          /\ NoTokenAfterSignOut /\ StoredLoginsRenew /\ OneSessionForEachAttempt)
    /\ [][OnePersonAtATime]_vars
=============================================================================
