------------------------------- MODULE ModelChoice -------------------------------
(***************************************************************************)
(* The model of a session: a choice from the menu becomes a durable record   *)
(* with its routing witness, and each prompt installs it anew from current   *)
(* provider evidence.  Several hosts may hold the session open; providers,   *)
(* accounts and catalogues change under them.  Source: phenix-basic-runtime  *)
(* acp_sdk.rs, model_selection_state.rs and acp_provider_management.rs;      *)
(* phenix-provider-contracts selection.rs; phenix-plugin-model-http lib.rs.  *)
(*                                                                         *)
(* One session, one connection with one account.  A registration, a method  *)
(* or a catalogue that was replaced does not come back.                     *)
(***************************************************************************)
EXTENDS Naturals, FiniteSets

CONSTANTS Hosts, Models,
          MaxChoices, MaxPrompts, MaxCalls, MaxChanges, MaxFaults, MaxRestarts \* bounds

ChoiceAssumption ==
    /\ Hosts # {} /\ Models # {}
    /\ {MaxChoices, MaxPrompts, MaxCalls, MaxChanges, MaxFaults, MaxRestarts} \subseteq Nat

VARIABLES
    world,    \* the provider: registration, account (odd: not usable), catalogue
    row,      \* the record of the selected model
    witness,  \* the revision of the routing witness, 0 without
    seen,     \* hosts whose selected_http_seen has the session
    config,   \* ModelConfiguration of each host's HTTP model plugin
    pc, then, \* the request of a host, and what its evidence is for
    job,      \* the request: a choice, or a prompt
    old,      \* the record as the request read it
    ev,       \* the evidence read so far
    first,    \* the binding before the secret was resolved
    secret,   \* the account the secret was resolved for
    used,     \* how the last model call of the request went
    calls,
    start,    \* history: the world and the record when the request began
    admitted, \* history: has a switch that was admitted come to be stored, or not?
    told,     \* history: the answer to the last request of a host
    choices, prompts, faults, restarts

stored == <<row, witness>>
locals == <<pc, then, job, old, ev, first, secret, calls>>
history == <<start, admitted, told>>
bounds == <<choices, prompts, faults, restarts>>
vars == <<world, stored, seen, config, locals, used, history, bounds>>

NoSelection == [model |-> "none", catalog |-> 0]
NoRow == [sel |-> NoSelection, rev |-> 0]
NoEvidence == [reg |-> 0, account |-> 0]
NoBinding == [sel |-> NoSelection, reg |-> 0, account |-> 0]
Preset == [mode |-> "preset", held |-> {}]
NotUsed == [how |-> "none", with |-> {}]

Init ==
    /\ world \in [reg : {1}, account : {0, 1}, catalog : {1}, offers : {Models}]
    /\ row = NoRow /\ witness = 0 /\ seen = {}
    /\ config = [h \in Hosts |-> Preset]
    /\ pc = [h \in Hosts |-> "idle"] /\ then = [h \in Hosts |-> "none"]
    /\ job = [h \in Hosts |-> [kind |-> "none", sel |-> NoSelection, rev |-> 0]]
    /\ old = [h \in Hosts |-> NoRow] /\ ev = [h \in Hosts |-> NoEvidence]
    /\ first = [h \in Hosts |-> NoBinding] /\ secret = [h \in Hosts |-> 0]
    /\ calls = [h \in Hosts |-> 0]
    /\ used = [h \in Hosts |-> NotUsed]
    /\ start = [h \in Hosts |-> [world |-> world, row |-> NoRow, admitted |-> FALSE]]
    /\ admitted = FALSE /\ told = [h \in Hosts |-> "none"]
    /\ choices = 0 /\ prompts = 0 /\ faults = 0 /\ restarts = 0

-------------------------------------------------------------------------------
(* The provider and the operator *)

Change ==
    /\ world.reg + world.account + world.catalog < MaxChanges + 2
    /\ \/ world' = [world EXCEPT !.reg = @ + 1]
       \/ \E n \in {1, 2} : world' = [world EXCEPT !.account = @ + n] \* revoked, replaced
       \/ \E offers \in SUBSET Models :
             world' = [world EXCEPT !.catalog = @ + 1, !.offers = offers]
    /\ UNCHANGED <<stored, seen, config, locals, used, history, bounds>>

Usable(account) == account % 2 = 0

-------------------------------------------------------------------------------
(* Requests *)

Go(h, at) == pc' = [pc EXCEPT ![h] = at]

(* The answer clears what the request was working with. *)
Answer(h, a) ==
    /\ pc' = [pc EXCEPT ![h] = "idle"] /\ then' = [then EXCEPT ![h] = "none"]
    /\ told' = [told EXCEPT ![h] = a]
    /\ old' = [old EXCEPT ![h] = NoRow] /\ ev' = [ev EXCEPT ![h] = NoEvidence]
    /\ first' = [first EXCEPT ![h] = NoBinding] /\ secret' = [secret EXCEPT ![h] = 0]
    /\ calls' = [calls EXCEPT ![h] = 0]
    /\ UNCHANGED job

Begin(h, request) ==
    /\ pc[h] = "idle"
    /\ job' = [job EXCEPT ![h] = request]
    /\ start' = [start EXCEPT ![h] = [world |-> world, row |-> row, admitted |-> admitted]]
    /\ used' = [used EXCEPT ![h] = NotUsed]
    /\ told' = [told EXCEPT ![h] = "none"]
    /\ Go(h, "row")
    /\ UNCHANGED <<world, stored, seen, config, then, old, ev, first, secret, calls, admitted,
                   faults, restarts>>

(* The client picks an entry of a menu it was shown: the preset, or a model *)
(* with the catalogue and the record it was offered under.                  *)
Choose(h) ==
    /\ choices < MaxChoices /\ choices' = choices + 1
    /\ \E sel \in {NoSelection} \cup [model : Models, catalog : 1..world.catalog], rev \in 0..row.rev :
          /\ sel = NoSelection => rev = 0
          /\ Begin(h, [kind |-> "choose", sel |-> sel, rev |-> rev])
    /\ UNCHANGED prompts

Prompt(h) ==
    /\ prompts < MaxPrompts /\ prompts' = prompts + 1
    /\ Begin(h, [kind |-> "prompt", sel |-> NoSelection, rev |-> 0])
    /\ UNCHANGED choices

Stays == UNCHANGED <<world, job, start, bounds>>

ReadRow(h) ==
    /\ pc[h] \in {"row", "confirm_row"}
    /\ old' = [old EXCEPT ![h] = row]
    /\ Go(h, IF pc[h] = "row" THEN "witness" ELSE "confirm")
    /\ Stays /\ UNCHANGED <<stored, seen, config, then, ev, first, secret, calls, used, admitted, told>>

(* checked_routing_state: both records, of one revision, or neither.        *)
Routed(h) == old[h].rev = witness

Collect(h, purpose) ==
    /\ Go(h, "describe")
    /\ then' = [then EXCEPT ![h] = purpose]
    /\ ev' = [ev EXCEPT ![h] = NoEvidence]

(* native_model_option_id binds an entry to the session's record. *)
SameEntry(h, rev) == job[h].sel = old[h].sel /\ job[h].rev = rev

(* is_previous_native_selection: the entry that the record was made from. *)
Repeats(h) == old[h].rev > 0 /\ SameEntry(h, old[h].rev - 1)

(* set_config_option, with the record in hand. *)
Consider(h) ==
    /\ pc[h] = "witness" /\ job[h].kind = "choose"
    /\ \/ /\ ~ Routed(h) \/ (old[h].rev = 0 /\ h \in seen)
          /\ Answer(h, "error")
       \/ /\ Routed(h) /\ (old[h].rev = 0 => h \notin seen)
          /\ \/ /\ SameEntry(h, old[h].rev) \/ Repeats(h)
                /\ \E a \in {"current", "error"} : Answer(h, a)
             \/ /\ ~ SameEntry(h, old[h].rev) /\ ~ Repeats(h)
                /\ Collect(h, "offers")
                /\ UNCHANGED <<old, first, secret, calls, told>>
    /\ Stays /\ UNCHANGED <<stored, seen, config, used, admitted>>

(* Fault: the host does not remember that it saw a selected model. *)
RoutesUnremembered(h) == TRUE

Routes(h) == h \notin seen

(* prompt: a session without a record keeps the preset, unless this host    *)
(* has seen it with one.                                                    *)
Route(h) ==
    /\ pc[h] = "witness" /\ job[h].kind = "prompt"
    /\ \/ /\ ~ Routed(h) \/ (old[h].rev = 0 /\ ~ Routes(h))
          /\ Answer(h, "error")
          /\ UNCHANGED seen
       \/ /\ Routed(h) /\ old[h].rev = 0 /\ Routes(h)
          /\ Go(h, "call")
          /\ UNCHANGED <<then, old, ev, first, secret, calls, told, seen>>
       \/ /\ Routed(h) /\ old[h].rev > 0
          /\ seen' = seen \cup {h}
          /\ Collect(h, "first")
          /\ UNCHANGED <<old, first, secret, calls, told>>
    /\ Stays /\ UNCHANGED <<stored, config, used, admitted>>

-------------------------------------------------------------------------------
(* current_http_binding: the provider, its account and its catalogue are    *)
(* read one after the other                                                 *)

Desired(h) == IF then[h] \in {"offers", "check"} \/ pc[h] = "transact" THEN job[h].sel ELSE old[h].sel

Describe(h) ==
    /\ pc[h] = "describe"
    /\ \/ /\ ev' = [ev EXCEPT ![h].reg = world.reg]
          /\ Go(h, "status")
          /\ UNCHANGED <<then, old, first, secret, calls, told>>
       \/ Answer(h, "error") \* the registration changed, or the provider failed
    /\ Stays /\ UNCHANGED <<stored, seen, config, used, admitted>>

Status(h) ==
    /\ pc[h] = "status"
    /\ \/ /\ ev' = [ev EXCEPT ![h].account = world.account]
          /\ Go(h, "models")
          /\ UNCHANGED <<then, old, first, secret, calls, told>>
       \/ Answer(h, "error")
    /\ Stays /\ UNCHANGED <<stored, seen, config, used, admitted>>

Offered(sel) == sel.model \in world.offers /\ sel.catalog = world.catalog

(* validate_model_selection and bind_http_model *)
Valid(h) == Usable(ev[h].account) /\ Offered(Desired(h))

Binding(h) == [sel |-> Desired(h), reg |-> ev[h].reg, account |-> ev[h].account]

(* stale_native_model_choice *)
Stale(h) == job[h].rev < old[h].rev /\ job[h].sel # NoSelection

(* Only an entry of the menu as it is now may be chosen. *)
IsOffered(h) == Valid(h) /\ job[h].rev = old[h].rev

(* Refuse changed registration or revocation while resolving the secret. *)
Unchanged(h) == Binding(h) = first[h]

Install(h) ==
    config' = [config EXCEPT ![h] = [mode |-> "selected",
                                     held |-> {[binding |-> Binding(h), secret |-> secret[h]]}]]

Evidence(h) ==
    /\ pc[h] = "models"
    /\ \/ /\ then[h] = "offers" /\ ~ IsOffered(h)
          /\ Answer(h, IF Stale(h) THEN "conflict" ELSE "error")
          /\ UNCHANGED <<config, seen>>
       \/ /\ then[h] = "offers" /\ IsOffered(h)
          /\ Collect(h, "check")
          /\ UNCHANGED <<config, seen, old, first, secret, calls, told>>
       \/ /\ then[h] # "offers" /\ ~ Valid(h)
          /\ Answer(h, "error")
          /\ UNCHANGED <<config, seen>>
       \/ /\ then[h] = "check" /\ Valid(h)
          /\ seen' = seen \cup {h}
          /\ Go(h, "cas")
          /\ UNCHANGED <<config, then, old, ev, first, secret, calls, told>>
       \/ /\ then[h] = "first" /\ Valid(h)
          /\ first' = [first EXCEPT ![h] = Binding(h)]
          /\ Go(h, "resolve")
          /\ UNCHANGED <<config, seen, then, old, ev, secret, calls, told>>
       \/ /\ then[h] = "second" /\ Valid(h) /\ ~ Unchanged(h)
          /\ Answer(h, "error")
          /\ UNCHANGED <<config, seen>>
       \/ /\ then[h] = "second" /\ Valid(h) /\ Unchanged(h)
          /\ Install(h)
          /\ \/ job[h].kind = "choose" /\ \E a \in {"chosen", "error"} : Answer(h, a)
             \/ \* the frontend's decoding, the lock or the owner marker fails
                job[h].kind = "prompt" /\ Answer(h, "error")
             \/ /\ job[h].kind = "prompt" /\ Go(h, "call")
                /\ UNCHANGED <<then, old, ev, first, secret, calls, told>>
          /\ UNCHANGED seen
    /\ Stays /\ UNCHANGED <<stored, used, admitted>>

(* The credential resolver admits the account, or denies it. *)
Resolve(h) ==
    /\ pc[h] = "resolve"
    /\ \/ /\ secret' = [secret EXCEPT ![h] = world.account]
          /\ then' = [then EXCEPT ![h] = "second"]
          /\ Go(h, "describe")
          /\ UNCHANGED <<old, ev, first, calls, told>>
       \/ Answer(h, "error")
    /\ Stays /\ UNCHANGED <<stored, seen, config, used, admitted>>

-------------------------------------------------------------------------------
(* compare_and_swap, which reads the witness anew and writes both records   *)

Cas(h) ==
    /\ pc[h] = "cas"
    /\ \/ /\ witness = old[h].rev
          /\ Go(h, "transact")
          /\ UNCHANGED <<then, old, ev, first, secret, calls, told>>
       \/ /\ witness # old[h].rev
          /\ Answer(h, "error")
    /\ Stays /\ UNCHANGED <<stored, seen, config, used, admitted>>

Commit(h) == row' = [sel |-> job[h].sel, rev |-> old[h].rev + 1]

Witnessed(h) == Commit(h) /\ witness' = witness + 1

(* A storage that fails may have committed. *)
Transact(h) ==
    /\ pc[h] = "transact"
    /\ \/ /\ row.rev = old[h].rev /\ witness = old[h].rev
          /\ Witnessed(h)
          /\ \/ /\ Go(h, "confirm_row")
                /\ UNCHANGED <<faults, then, old, ev, first, secret, calls, told>>
             \/ /\ faults < MaxFaults /\ faults' = faults + 1
                /\ Answer(h, "error")
       \/ /\ row.rev # old[h].rev \/ witness # old[h].rev
          /\ Answer(h, "error")
          /\ UNCHANGED <<stored, faults>>
       \/ /\ faults < MaxFaults /\ faults' = faults + 1
          /\ Answer(h, "error")
          /\ UNCHANGED stored
    /\ admitted' = TRUE
    /\ UNCHANGED <<world, job, start, seen, config, used, choices, prompts, restarts>>

Confirm(h) ==
    /\ pc[h] = "confirm"
    /\ \/ /\ ~ Routed(h) \/ old[h].sel # job[h].sel
          /\ Answer(h, "error")
       \/ /\ Routed(h) /\ old[h].sel = job[h].sel
          /\ Collect(h, "first")
          /\ UNCHANGED <<old, first, secret, calls, told>>
    /\ Stays /\ UNCHANGED <<stored, seen, config, used, admitted>>

-------------------------------------------------------------------------------
(* The graph of a prompt *)

(* take_for_turn: a configuration is consumed by its first call. *)
Taken(c) == [c EXCEPT !.held = {}]

Call(h) ==
    /\ pc[h] = "call" /\ calls[h] < MaxCalls
    /\ calls' = [calls EXCEPT ![h] = @ + 1]
    /\ used' = [used EXCEPT ![h] =
                   [how |-> IF config[h].mode = "preset" THEN "preset"
                            ELSE IF config[h].held = {} THEN "refused" ELSE "selected",
                    with |-> config[h].held]]
    /\ config' = [config EXCEPT ![h] = Taken(@)]
    /\ Go(h, "reply")
    /\ Stays /\ UNCHANGED <<stored, seen, then, old, ev, first, secret, admitted, told>>

(* The model answers or asks for tools, after which it is called again. *)
Reply(h) ==
    /\ pc[h] = "reply"
    /\ \/ Answer(h, IF used[h].how = "refused" THEN "error" ELSE "end_turn")
       \/ /\ used[h].how # "refused" /\ calls[h] < MaxCalls
          /\ Go(h, "call")
          /\ UNCHANGED <<then, old, ev, first, secret, calls, told>>
    /\ Stays /\ UNCHANGED <<stored, seen, config, used, admitted>>

-------------------------------------------------------------------------------
(* session/load gives the session a new kernel and thus a new plugin. *)
Load(h) ==
    /\ pc[h] = "idle" /\ restarts < MaxRestarts /\ restarts' = restarts + 1
    /\ config' = [config EXCEPT ![h] = Preset]
    /\ used' = [used EXCEPT ![h] = NotUsed]
    /\ UNCHANGED <<world, stored, seen, locals, history, choices, prompts, faults>>

(* A host dies, and another is started. *)
Restart(h) ==
    /\ restarts < MaxRestarts /\ restarts' = restarts + 1
    /\ seen' = seen \ {h}
    /\ config' = [config EXCEPT ![h] = Preset]
    /\ used' = [used EXCEPT ![h] = NotUsed]
    /\ Answer(h, "none")
    /\ UNCHANGED <<world, stored, start, admitted, choices, prompts, faults>>

Work(h) ==
    \/ ReadRow(h) \/ Consider(h) \/ Route(h) \/ Describe(h) \/ Status(h) \/ Evidence(h) \/ Resolve(h)
    \/ Cas(h) \/ Transact(h) \/ Confirm(h) \/ Call(h) \/ Reply(h)

Next == Change \/ \E h \in Hosts : Choose(h) \/ Prompt(h) \/ Work(h) \/ Load(h) \/ Restart(h)

Spec == Init /\ [][Next]_vars

-------------------------------------------------------------------------------
Selections == [model : Models \cup {"none"}, catalog : Nat]

TypeOK ==
    /\ row.sel \in Selections /\ witness \in Nat
    /\ \A h \in Hosts :
        /\ config[h].mode \in {"preset", "selected"} /\ Cardinality(config[h].held) <= 1
        /\ config[h].mode = "preset" => config[h].held = {}
        /\ pc[h] \in {"idle", "row", "witness", "describe", "status", "models", "resolve", "cas",
                      "transact", "confirm_row", "confirm", "call", "reply"}
        /\ then[h] \in {"none", "offers", "check", "first", "second"}
        /\ told[h] \in {"none", "current", "chosen", "conflict", "error", "end_turn"}

(* A record of a selected model has its witness, of the same revision, at   *)
(* every moment: "incomplete changes roll back together".                   *)
RowsAgree == row.rev = witness

(* "A once-selected native transport cannot silently return to legacy        *)
(* preset routing": a prompt that began after a choice was recorded, or on a *)
(* host that admitted one, never calls the preset model.                    *)
NoSilentFallback ==
    \A h \in Hosts : used[h].how = "preset" => start[h].row = NoRow /\ h \notin seen

(* A call that goes out is for the model on record when its prompt read it, *)
(* and for a provider, an account and a catalogue current since the prompt   *)
(* began: "deny before HTTP on stale model or revoked credential".          *)
CallsHaveCurrentEvidence ==
    \A h \in Hosts : \A c \in used[h].with :
        /\ Usable(c.binding.account)
        /\ c.binding.account >= start[h].world.account
        /\ c.binding.reg >= start[h].world.reg
        /\ c.binding.sel.catalog >= start[h].world.catalog
        /\ pc[h] = "reply" => c.binding.sel = old[h].sel

(* A secret is installed with the account it was resolved for, whatever the *)
(* provider changed in the meantime.                                        *)
SecretsMatchTheirAccount ==
    \A h \in Hosts : \A c \in config[h].held : c.secret = c.binding.account

(* A choice replaces the record it was offered under, or none: of two       *)
(* clients with the same menu one is told of the conflict.                  *)
NoBlindOverwrite ==
    row' # row => \E h \in Hosts : /\ pc[h] = "transact" /\ job[h].rev = row.rev
                                   /\ row' = [sel |-> job[h].sel, rev |-> row.rev + 1]

=================================================================================
