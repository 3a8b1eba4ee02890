------------------------------- MODULE ModelAdmission -------------------------------
(***************************************************************************)
(* The advanced model adapter: it stands between the agent of a session    *)
(* and the selected model, weighs each request with the model's own token  *)
(* meter, and shows the model a compacted history when the whole one grows *)
(* too large.  Which of its imports are bound is up to the product.        *)
(* Sources: phenix-plugin-advanced-model-adapter, with the decisions of    *)
(* phenix-p2-compaction-replay (automatic.rs, budget.rs, transaction.rs,   *)
(* admission.rs), phenix-advanced-contracts (model_tokens.rs) and          *)
(* phenix-plugin-advanced-summarizer.                                      *)
(*                                                                         *)
(* One action is one import.  A request is the first turn it shows: the    *)
(* source shows all of them, a compacted one what follows the summary, and *)
(* its tokens are the weights of what it shows.  The rebuilding of         *)
(* requests is the subject of CompactedHistory, the store's steps that of  *)
(* CheckpointStore.                                                        *)
(***************************************************************************)
EXTENDS Integers, Sequences, SequencesExt, FiniteSets, Functions

CONSTANTS Weights,    \* the tokens a prompt and its answer may take
          Windows,    \* Windows[n]: the context window of configuration n
          Reserve,    \* the tokens reserved for the model's reply
          MaxTurns,   \* bound on the turns of the session
          MaxTools,   \* bound on the tool exchanges of a run
          MaxChanges  \* bound on what others do: checkpoints, configurations

AdmissionAssumption ==
    /\ Weights \subseteq Nat \ {0} /\ Windows \in Seq(Nat) /\ Windows # <<>>
    /\ Reserve \in Nat \ {0} /\ MaxTurns \in Nat /\ MaxTools \in Nat /\ MaxChanges \in Nat

VARIABLES slots,    \* the optional imports that are bound
          turns,    \* the weights of the turns that have ended
          current,  \* the weight of the running turn, 0 when there is none
          tools,    \* tool exchanges of the running turn
          line,     \* the checkpoints of the session
          intact,   \* is the journal what it was?
          failed,   \* does the journal record a failed run?
          config,   \* the configuration of the selected model
          changes,  \* changes by others so far
          call,     \* the call of the running turn's model, or none
          ended     \* how the call ended, if the last step ended it

session == <<slots, turns, current, tools, intact, failed>>
others == <<line, config, changes>>
vars == <<session, others, call, ended>>

Slots == {"Meter", "Checkpoints", "Transcript", "Summarizer"}
None == [step |-> "none"]
Source == 1

-------------------------------------------------------------------------------
(* Weighing *)

(* The tokens of the request that shows the turns from first on. *)
Tokens(first) ==
    FoldFunctionOnSet(+, current, turns, {t \in DOMAIN turns : t >= first})
        + (IF first = Source THEN 0 ELSE 1)

Measurement(first) == [tokens |-> Tokens(first), config |-> config, window |-> Windows[config]]

(* validate_model_token_measurement *)
Fits(m) == m.tokens + Reserve <= m.window

(* checkpoint_pressure, with the high-water mark at 80 percent.  When the  *)
(* reserve alone takes the window there is no pressure but a problem.      *)
Pressure(m) ==
    CASE ~ Fits(m) /\ Reserve >= m.window -> "problem"
      [] ~ Fits(m) /\ Reserve < m.window -> "over"
      [] Fits(m) /\ (m.tokens + Reserve) * 100 >= m.window * 80 -> "threshold"
      [] Fits(m) /\ (m.tokens + Reserve) * 100 < m.window * 80 -> "headroom"

-------------------------------------------------------------------------------
(* Where a call goes next, and how it ends *)

Go(step) == /\ call' = [call EXCEPT !.step = step]
            /\ ended' = {}
            /\ UNCHANGED session

(* The request is ready for its last check. *)
Ready(first) == /\ call' = [call EXCEPT !.step = "ready", !.request = first]
                /\ ended' = {}
                /\ UNCHANGED session

End(outcome, why) == /\ call' = None
                     /\ ended' = {[outcome |-> outcome, why |-> why, call |-> call]}

(* The agent ends the run of a refused call: the journal records it, and   *)
(* the turn stays in the history without an answer.                        *)
Refuse(why) == /\ End("refused", why)
               /\ turns' = Append(turns, current) /\ current' = 0 /\ tools' = 0
               /\ failed' = TRUE
               /\ UNCHANGED <<slots, intact>>

-------------------------------------------------------------------------------
Init == /\ slots \in SUBSET Slots
        /\ turns = <<>> /\ current = 0 /\ tools = 0
        /\ line = <<>> /\ intact = TRUE /\ failed = FALSE
        /\ config = 1 /\ changes = 0
        /\ call = None /\ ended = {}

(* prepare: the agent accepts a prompt. *)
Prompt == /\ current = 0 /\ Len(turns) < MaxTurns
          /\ current' \in Weights
          /\ ended' = {}
          /\ UNCHANGED <<slots, turns, tools, intact, failed, others, call>>

(* begin and the head of prepare_request: what is bound must go together. *)
Begin == /\ call = None /\ current # 0
         /\ call' = [step |-> IF "Checkpoints" \notin slots
                              THEN IF "Summarizer" \in slots THEN "misbound" ELSE "ready"
                              ELSE IF {"Meter", "Transcript"} \subseteq slots THEN "latest" ELSE "misbound",
                     request |-> Source, checkpoint |-> {}, measured |-> {}, copy |-> TRUE,
                     wrote |-> FALSE, known |-> intact]
         /\ ended' = {}
         /\ UNCHANGED <<session, others>>

Misbound == /\ call.step = "misbound"
            /\ Refuse("misbound")
            /\ UNCHANGED others

(* CompactionStore::latest: a lost source disables every checkpoint. *)
Latest == /\ call.step = "latest"
          /\ \/ /\ line = <<>>
                /\ Go("source")
             \/ /\ line # <<>> /\ intact
                /\ call' = [call EXCEPT !.step = "tail", !.checkpoint = {Last(line)}]
                /\ ended' = {}
                /\ UNCHANGED session
             \/ /\ line # <<>> /\ ~ intact
                /\ Refuse("source")
          /\ UNCHANGED others

(* The journal is read and the request rebuilt with the checkpoint. *)
ReadTail ==
    /\ call.step = "tail"
    /\ IF ~ intact \/ failed THEN Refuse("history")
       ELSE \E cp \in call.checkpoint :
               IF "Summarizer" \in slots
               THEN /\ call' = [call EXCEPT !.step = "weigh", !.request = cp.split + 1]
                    /\ ended' = {}
                    /\ UNCHANGED session
               ELSE Ready(cp.split + 1)
    /\ UNCHANGED others

Weigh == /\ call.step = "weigh"
         /\ LET pressure == Pressure(Measurement(call.request)) IN
              \/ pressure = "problem" /\ Refuse("window")
              \/ pressure = "headroom" /\ Ready(call.request)
              \/ pressure \in {"threshold", "over"} /\ Go("source")
         /\ UNCHANGED others

(* prepare_automatic_checkpoint: the whole history is weighed. *)
WeighSource ==
    /\ call.step = "source"
    /\ LET m == Measurement(Source) IN
         \/ /\ "Summarizer" \notin slots \/ Pressure(m) = "headroom"
            /\ Ready(Source)
         \/ /\ "Summarizer" \in slots /\ Pressure(m) = "problem"
            /\ Refuse("window")
         \/ /\ "Summarizer" \in slots /\ Pressure(m) \in {"threshold", "over"}
            /\ call' = [call EXCEPT !.step = "journal", !.measured = {m}]
            /\ ended' = {}
            /\ UNCHANGED session
    /\ UNCHANGED others

(* The source is read; what is read must be in sequence. *)
ReadJournal ==
    /\ call.step = "journal"
    /\ \/ /\ call' = [call EXCEPT !.step = "summary", !.copy = intact]
          /\ ended' = {}
          /\ UNCHANGED session
       \/ ~ intact /\ Refuse("journal")
    /\ UNCHANGED others

(* The summarizer of the repository refuses a source it cannot plan for,   *)
(* and a request that continues after tool calls.                          *)
Summarize ==
    /\ call.step = "summary"
    /\ \/ Go("plan")
       \/ Refuse("summary")
    /\ UNCHANGED others

(* plan_verified_checkpoint: all but the last completed turn go. *)
(* The source ends with this call's ModelStarted, so that a candidate is   *)
(* never there already; others put theirs at MaxTools + 1.                 *)
Candidate == [upto |-> Len(turns), split |-> Len(turns) - 1, at |-> tools]

IsEligible == Len(turns) > 1

(* finish_automatic_checkpoint up to the decision of automatic_checkpoint: *)
(* the adapter refuses when there is nothing to compact.                   *)
Plan == /\ call.step = "plan"
        /\ IF ~ call.copy \/ failed THEN Refuse("plan")
           ELSE IF ~ IsEligible THEN Refuse("nothing to compact")
           ELSE Go("publish")
        /\ UNCHANGED others

(* publish_verified_checkpoint: the newest checkpoint must be the one the  *)
(* plan was made on.                                                         *)
Newest == IF line = <<>> THEN {} ELSE {Last(line)}

Publish ==
    /\ call.step = "publish"
    /\ \/ /\ intact /\ Newest = call.checkpoint
          /\ line' = Append(line, Candidate)
          /\ call' = [call EXCEPT !.step = "readback", !.wrote = TRUE]
          /\ ended' = {}
          /\ UNCHANGED session
       \/ /\ ~ intact \/ Newest # call.checkpoint
          /\ Refuse("head")
          /\ UNCHANGED line
    /\ UNCHANGED <<config, changes>>

ReadBack ==
    /\ call.step = "readback"
    /\ \/ /\ intact /\ Newest = {Candidate}
          /\ call' = [call EXCEPT !.step = "remeasure", !.request = Candidate.split + 1]
          /\ ended' = {}
          /\ UNCHANGED session
       \/ /\ ~ intact \/ Newest # {Candidate}
          /\ Refuse("readback")
    /\ UNCHANGED others

(* validate_compacted_meter_transition *)
Transition(first) ==
    /\ \A m \in call.measured : m.config = config
    /\ Fits(Measurement(first))

Remeasure ==
    /\ call.step = "remeasure"
    /\ IF Transition(call.request) THEN Ready(call.request) ELSE Refuse("remeasure")
    /\ UNCHANGED others

-------------------------------------------------------------------------------
(* The last check, and the model *)

(* What was weighed for the last check stays with the call. *)
Submit == /\ call' = [call EXCEPT !.step = "upstream",
                                   !.measured = @ \cup {Measurement(call.request)}]
          /\ ended' = {}
          /\ UNCHANGED session

(* Fault: a request that is the source is not weighed again. *)
PreflightCompactedOnly ==
    /\ call.step = "ready"
    /\ IF "Meter" \notin slots \/ call.request = Source THEN Submit
       ELSE /\ call' = [call EXCEPT !.step = "compared", !.measured = {Measurement(Source)}]
            /\ ended' = {}
            /\ UNCHANGED session
    /\ UNCHANGED others

(* preflight_meter, and the first half of preflight_compacted. *)
Preflight ==
    /\ call.step = "ready"
    /\ \/ "Meter" \notin slots /\ Submit
       \/ /\ "Meter" \in slots /\ call.request = Source
          /\ IF Fits(Measurement(Source)) THEN Submit ELSE Refuse("over the window")
       \/ /\ "Meter" \in slots /\ call.request # Source
          /\ IF Pressure(Measurement(Source)) = "problem" THEN Refuse("window")
             ELSE /\ call' = [call EXCEPT !.step = "compared", !.measured = {Measurement(Source)}]
                  /\ ended' = {}
                  /\ UNCHANGED session
    /\ UNCHANGED others

Compare == /\ call.step = "compared"
           /\ IF Transition(call.request) THEN Submit ELSE Refuse("remeasure")
           /\ UNCHANGED others

(* The model answers in words: the turn is complete. *)
Answered == /\ call.step = "upstream"
            /\ End("answered", "")
            /\ turns' = Append(turns, current) /\ current' = 0 /\ tools' = 0
            /\ UNCHANGED <<slots, intact, failed, others>>

(* The model calls tools, whose results make the turn heavier. *)
CallsTools == /\ call.step = "upstream" /\ tools < MaxTools
              /\ IF "Transcript" \in slots THEN Go("receipt") /\ UNCHANGED others
                 ELSE /\ End("tools", "unrecorded")
                      /\ current' = current + 1 /\ tools' = tools + 1
                      /\ UNCHANGED <<slots, turns, intact, failed, others>>

(* finish_with_receipt: the reply is journaled before it is given. *)
Receipt == /\ call.step = "receipt"
           /\ End("tools", "recorded")
           /\ current' = current + 1 /\ tools' = tools + 1
           /\ UNCHANGED <<slots, turns, intact, failed, others>>

(* An import fails or its answer is lost, or the call is cancelled. *)
Fails == /\ call # None
         /\ Refuse("failure")
         /\ UNCHANGED others

-------------------------------------------------------------------------------
(* Others *)

Lose == /\ intact /\ turns # <<>>
        /\ intact' = FALSE
        /\ ended' = {}
        /\ UNCHANGED <<slots, turns, current, tools, failed, others, call>>

Reconfigure == /\ changes < MaxChanges
               /\ config' \in DOMAIN Windows \ {config}
               /\ changes' = changes + 1
               /\ ended' = {}
               /\ UNCHANGED <<session, line, call>>

(* Another publisher puts a checkpoint of the session as it is. *)
PublishElsewhere == /\ changes < MaxChanges /\ intact /\ ~ failed
                    /\ \E split \in 1..Len(turns) - 1 :
                          line' = Append(line, [upto |-> Len(turns), split |-> split, at |-> MaxTools + 1])
                    /\ changes' = changes + 1
                    /\ ended' = {}
                    /\ UNCHANGED <<session, config, call>>

Adapter == \/ Misbound \/ Latest \/ ReadTail \/ Weigh \/ WeighSource \/ ReadJournal \/ Summarize
           \/ Plan \/ Publish \/ ReadBack \/ Remeasure \/ Preflight \/ Compare \/ Receipt

Next == \/ Prompt \/ Begin \/ Adapter \/ Answered \/ CallsTools \/ Fails
        \/ Lose \/ Reconfigure \/ PublishElsewhere

Spec == Init /\ [][Next]_vars

-------------------------------------------------------------------------------
Measurements == [tokens : Nat, config : DOMAIN Windows, window : Nat]

TypeOK ==
    /\ slots \subseteq Slots /\ turns \in Seq(Nat \ {0}) /\ current \in Nat
    /\ tools \in 0..MaxTools /\ intact \in BOOLEAN /\ failed \in BOOLEAN
    /\ config \in DOMAIN Windows
    /\ \A i \in DOMAIN line : line[i].split \in 1..line[i].upto - 1 /\ line[i].upto <= Len(turns)
    /\ call # None => /\ current # 0
                      /\ call.request \in 1..Len(turns) + 1
                      /\ call.measured \subseteq Measurements

IsUpstream == call.step = "upstream"

(* A metered model is only given requests that it measured itself, as they *)
(* are, and that leave room for its reply ("the original can be over       *)
(* budget only while proposing compaction; a derived over-budget request   *)
(* never reaches the Model").                                              *)
OnlyFittingRequests ==
    IsUpstream /\ "Meter" \in slots =>
        \E m \in call.measured : m.tokens = Tokens(call.request) /\ Fits(m)

(* What a request leaves out is what a stored checkpoint summarizes; the   *)
(* journal was what it is said to be when the call began, no run of the    *)
(* session has failed, and a completed turn was retained.                  *)
ElisionsAreGrounded ==
    IsUpstream /\ call.request # Source =>
        /\ call.known /\ ~ failed
        /\ \E i \in DOMAIN line : /\ line[i].split = call.request - 1
                                 /\ line[i].split < line[i].upto

(* A compacted request replaces a source that was weighed by the same      *)
(* configuration of the model.                                             *)
ReplacementsAreWeighedAlike ==
    IsUpstream /\ call.request # Source =>
        /\ \E m \in call.measured : m.tokens = Tokens(Source)
        /\ \A m, n \in call.measured : m.config = n.config

(* The adapter writes a checkpoint only for a source that was measured at  *)
(* the high-water mark, and one at most in a call.                         *)
WritesArePressed ==
    line' # line /\ changes' = changes =>
        /\ ~ call.wrote
        /\ \A m \in call.measured : Pressure(m) \in {"threshold", "over"}

===============================================================================
