------------------------------- MODULE MCModels -------------------------------
(****************************************************************************)
(* How models are chosen, asked and answered, and what is exchanged with    *)
(* them: the selected model of each host, admission to its context window,  *)
(* the requests and streams of three protocols, the sign-in of an account,  *)
(* the compaction of a history, and the documents of the contract. A        *)
(* behaviour is of one component (part); the variables of the others hold   *)
(* Unused, and ChatGptSignIn, which this module extends, rests.             *)
(****************************************************************************)
EXTENDS ChatGptSignIn, Integers, TLC

CONSTANTS Parts,   \* the components a behaviour may be of
          Unused,  \* what the variables of the others hold
          desk, laptop,    \* hosts, or processes
          gpt, ann, bob,   \* a model, persons
          textA, textB, idA, idB, toolA, toolB, callA, callB, noCall

VARIABLE part  \* the component this behaviour is of

NoLimit == -1  \* a limit that was not set

VARIABLES world, row, witness, seen, config, pc, then, job, old, ev, first,
          secret, used, asked, before, admitted, told, choices, prompts,
          mishaps, restarts
VARIABLES slots, turns, current, tools, line, intact, failed, window, changes,
          call, outcome
VARIABLES spoken, caller, server, system, protocol, status, text, toolCalls,
          usage, spent, stopped, done, bytes, begun, reason, items, reply,
          shown, opened
VARIABLES events, messages, todo, published, forged
VARIABLES doc, wire, whole, read

------------------------------------------------------------------------------
(* Two hosts of one session; one choice is made, and one prompt.            *)
Choosing == INSTANCE ModelChoice WITH
    Hosts <- {desk, laptop}, Models <- {gpt}, MaxChoices <- 1,
    MaxPrompts <- 1, MaxCalls <- 2, MaxChanges <- 2, MaxFaults <- 1,
    MaxRestarts <- 1, calls <- asked, start <- before, faults <- mishaps

ASSUME Choosing!ChoiceAssumption

(* The same two hosts when both choose.                                     *)
Rivals == INSTANCE ModelChoice WITH
    Hosts <- {desk, laptop}, Models <- {gpt}, MaxChoices <- 2,
    MaxPrompts <- 0, MaxCalls <- 0, MaxChanges <- 1, MaxFaults <- 1,
    MaxRestarts <- 0, calls <- asked, start <- before, faults <- mishaps

ASSUME Rivals!ChoiceAssumption

choicesVars == <<world, row, witness, seen, config, pc, then, job, old, ev,
                 first, secret, used, asked, before, admitted, told, choices,
                 prompts, mishaps, restarts>>

NoChoosing ==
    /\ world = Unused /\ row = Unused /\ witness = Unused
    /\ seen = Unused /\ config = Unused /\ pc = Unused
    /\ then = Unused /\ job = Unused /\ old = Unused /\ ev = Unused
    /\ first = Unused /\ secret = Unused /\ used = Unused
    /\ asked = Unused /\ before = Unused /\ admitted = Unused
    /\ told = Unused /\ choices = Unused /\ prompts = Unused
    /\ mishaps = Unused /\ restarts = Unused

(* Light and heavy turns in three windows, one of which fits nothing.       *)
Admission == INSTANCE ModelAdmission WITH
    Weights <- {1, 3}, Windows <- <<9, 6, 2>>, Reserve <- 2, MaxTurns <- 3,
    MaxTools <- 1, MaxChanges <- 2, config <- window, ended <- outcome

ASSUME Admission!AdmissionAssumption

admissionVars == <<slots, turns, current, tools, line, intact, failed, window,
                   changes, call, outcome>>

NoAdmission ==
    /\ slots = Unused /\ turns = Unused /\ current = Unused
    /\ tools = Unused /\ line = Unused /\ intact = Unused
    /\ failed = Unused /\ window = Unused /\ changes = Unused
    /\ call = Unused /\ outcome = Unused

(* What a chat frame carries of a call: its id and name, or a piece of its  *)
(* arguments; or any of the three, with or without the others, between      *)
(* those of a call whose name and arguments come together.                  *)
Orderly ==
    [index : {0, 1}, id : {<<idA>>, <<idB>>}, tool : {<<toolA>>, <<toolB>>}, arguments : {<< >>}]
    \cup [index : {0, 1}, id : {<< >>}, tool : {<< >>}, arguments : {<<"open">>, <<"close">>}]

Mixed ==
    [index : {0}, id : {<< >>, <<idA>>, <<idB>>}, tool : {<< >>, <<toolA>>},
     arguments : {<< >>, <<"whole">>}]
    \cup [index : {1}, id : {<<idA>>, <<idB>>}, tool : {<< >>}, arguments : {<< >>}]
    \cup [index : {1}, id : {<< >>}, tool : {<<toolA>>}, arguments : {<<"whole">>}]

(* Three protocols, two texts and two calls, one of them of a tool that was *)
(* not offered, with arguments in two pieces: one whole call, and texts.    *)
Replies == INSTANCE ModelProtocols WITH
    Prompts <- {textA}, Systems <- {FALSE}, Calls <- {}, MaxHistory <- 1,
    CallerLimits <- {NoLimit}, ProviderLimits <- {1},
    Protocols <- {"chat", "responses", "anthropic"},
    Texts <- {textA, textB}, Ids <- {idA, idB}, Tools <- {toolA, toolB},
    Selected <- {toolA}, Envelope <- <<"open", "close">>,
    CallDeltas <- Orderly, Costs <- {1}, MaxIndex <- 2, MaxBytes <- 6, history <- spoken,
    calls <- toolCalls, finish <- stopped, provider <- server

(* Two whole calls, woven, in any pieces.                                   *)
Callings == INSTANCE ModelProtocols WITH
    Prompts <- {textA}, Systems <- {FALSE}, Calls <- {}, MaxHistory <- 1,
    CallerLimits <- {NoLimit}, ProviderLimits <- {1},
    Protocols <- {"chat", "responses", "anthropic"},
    Texts <- {}, Ids <- {idA, idB}, Tools <- {toolA},
    Selected <- {toolA}, Envelope <- <<"whole">>, CallDeltas <- Mixed,
    Costs <- {1}, MaxIndex <- 2, MaxBytes <- 7, history <- spoken,
    calls <- toolCalls, finish <- stopped, provider <- server

(* All limits around what a reply may cost, set or not, in each protocol.   *)
Limits == INSTANCE ModelProtocols WITH
    Prompts <- {textA}, Systems <- {FALSE}, Calls <- {}, MaxHistory <- 1,
    CallerLimits <- {NoLimit, 0, 1, 2}, ProviderLimits <- {NoLimit, 0, 1, 2},
    Protocols <- {"chat", "responses", "anthropic"},
    Texts <- {}, Ids <- {}, Tools <- {},
    Selected <- {}, Envelope <- <<"whole">>, CallDeltas <- {},
    Costs <- 0 .. 3, MaxIndex <- 1, MaxBytes <- 2, history <- spoken,
    calls <- toolCalls, finish <- stopped, provider <- server

(* All histories of up to four messages.                                    *)
Bodies == INSTANCE ModelProtocols WITH
    Prompts <- {textA}, Systems <- BOOLEAN, Calls <- {callA, callB},
    MaxHistory <- 4, CallerLimits <- {NoLimit}, ProviderLimits <- {NoLimit},
    Protocols <- {"chat"}, Texts <- {}, Ids <- {}, Tools <- {},
    Selected <- {}, Envelope <- << >>, CallDeltas <- {}, Costs <- {},
    MaxIndex <- 0, MaxBytes <- 0, history <- spoken,
    calls <- toolCalls, finish <- stopped, provider <- server

Talks == {"replies", "callings", "limits", "bodies"}

repliesVars == <<spoken, caller, server, system, protocol, status, text,
                 toolCalls, usage, spent, stopped, done, bytes, begun, reason,
                 items, reply, shown, opened>>

NoReplies ==
    /\ spoken = Unused /\ caller = Unused /\ server = Unused
    /\ system = Unused /\ protocol = Unused /\ status = Unused
    /\ text = Unused /\ toolCalls = Unused /\ usage = Unused /\ spent = Unused
    /\ stopped = Unused /\ done = Unused /\ bytes = Unused
    /\ begun = Unused /\ reason = Unused /\ items = Unused
    /\ reply = Unused /\ shown = Unused /\ opened = Unused

(* Three runs with up to two tool calls each.                               *)
Compaction == INSTANCE CompactedHistory WITH
    NoCall <- noCall, Calls <- {callA, callB},
    Offers <- {<<callA>>, <<callA, callB>>}, MaxEvents <- 10, MaxRuns <- 3,
    Budget <- 10, journal <- events, history <- messages

ASSUME Compaction!OffersAssumption

ASSUME Compaction!CompactionAssumption

compactionVars == <<events, messages, todo, published, forged>>

NoCompaction ==
    /\ events = Unused /\ messages = Unused /\ todo = Unused
    /\ published = Unused /\ forged = Unused

(* The constructors of documents. *)
Make == INSTANCE WireDocuments WITH
    MaxBytes <- 283, MaxDepth <- 4, MaxCount <- 3, MaxSchemaBytes <- 80,
    MaxDamaged <- 7, Documents <- {}, Fragments <- {}

(* Small families of documents around each limit: values, typed values with *)
(* every schema of two levels, schemas, constant schemas and requests.      *)
Leaf(t, data) == Make!Val(t, data, <<>>, <<>>)
Leaves == {Make!Null, Leaf("true", <<>>), Leaf("i64", <<0>>), Leaf("u64", <<7>>), Make!Text(<<>>), Make!Text(<<1>>),
           Leaf("bytes", <<255>>), Leaf("ref", <<1>>)}
Keys == {<<1>>, <<1, 1>>, <<2>>}
Lists(S) == {Make!ListOf(<<>>)} \cup {Make!ListOf(<<a>>) : a \in S} \cup {Make!ListOf(<<a, b>>) : a, b \in S}
Maps(S) == {Make!MapOf(<<>>, <<>>)} \cup {Make!MapOf(<<k>>, <<a>>) : k \in Keys, a \in S}
           \cup {Make!MapOf(<<p[1], p[2]>>, <<a, b>>) : p \in {q \in Keys \X Keys : Make!Less(q[1], q[2])}, a, b \in S}
Few == {Make!Null, Make!Text(<<1>>), Leaf("u64", <<7>>)}
Level == {Leaf("ref", <<1>>)} \cup Leaves \cup Lists(Few) \cup Maps(Few)
RECURSIVE Nested(_)
Nested(n) == IF n = 0 THEN Make!Null ELSE Make!ListOf(<<Nested(n - 1)>>)
Values == Level \cup Lists({Make!ListOf(<<Make!Null>>), Make!MapOf(<<<<1>>>>, <<Make!Null>>), Make!Text(<<1>>)})
          \cup {Nested(n) : n \in 2 .. 5} \cup {Make!ListOf(<<Make!Null, Make!Null, Make!Null>>), Make!ListOf(<<Leaf("ref", <<1>>), Leaf("ref", <<2>>)>>)}

Simple(kind) == Make!Schema(kind, <<>>, <<>>)
ScalarSchemas == {Simple("Bool"), Simple("String"), [Simple("Ref") EXCEPT !.id = 1]}
RefIds == {[Simple("Ref") EXCEPT !.id = n] : n \in {1, 2}}
NameLists == {<<>>, <<<<1>>>>, <<<<1>>, <<2>>>>, <<<<2>>, <<1, 1>>>>, <<<<1>>, <<1, 1>>>>, <<<<32>>>>, <<<<>>>>}
Above(S) ==
    {Make!Schema(k, <<>>, <<s>>) : k \in {"List", "Option"}, s \in S}
    \cup {Make!Schema("Variants", names, <<>>) : names \in NameLists}
    \cup UNION {{Make!Schema(k, names, inner) : inner \in [DOMAIN names -> IF k = "Tagged" THEN S \cup {Make!Unit} ELSE S]}
                  : k \in {"Struct", "Tagged"}, names \in NameLists}
One == ScalarSchemas \cup Above(ScalarSchemas)
Wrapped(S) == {Make!Schema(k, <<>>, <<s>>) : k \in {"List", "Option"}, s \in S}
              \cup {Make!Schema(k, <<<<1>>>>, <<s>>) : k \in {"Struct", "Tagged"}, s \in S}
Small == {Simple("Bool"), Make!Schema("Tagged", <<<<1>>>>, <<Make!Unit>>)}
Towers == Wrapped(Small) \cup Wrapped(Wrapped(Small)) \cup Wrapped(Wrapped(Wrapped({Simple("Bool")})))
          \cup {Make!Schema("List", <<>>, <<s>>) : s \in Wrapped(Wrapped(Wrapped({Simple("Bool")})))}
Typed == {s \in Towers : s.kind # "Tagged"}
Schemas == One \cup RefIds \cup Towers
OwnedSchemas == {s \in Schemas : s = Make!Owned(s)}

Depths == {Make!Null, Leaf("true", <<>>), Make!Text(<<1>>)}
Boxed(S) == {Make!ListOf(<<a>>) : a \in S} \cup {Make!MapOf(<<<<1>>>>, <<a>>) : a \in S}
Forms == Depths \cup Boxed(Depths) \cup Boxed(Boxed({Make!Null, Leaf("true", <<>>)}))
          \cup Boxed(Boxed(Boxed({Leaf("true", <<>>)}))) \cup {Nested(n) : n \in 1 .. 6}

Edits == {Make!Edit(l, 0, v) : l \in {1, 2}, v \in {Make!Null, Nested(1), Nested(3)}}
Requests == {Make!Request(1, n, 0, <<Make!Edit(0, 0, v)>>) : n \in {<<1>>, <<>>, <<32>>}, v \in {Make!Null, Nested(2), Nested(3)}}
            \cup {Make!Request(op, <<>>, n, <<>>) : op \in {2, 4}, n \in {1, 2}}
            \cup {Make!Request(op, <<>>, n, <<>>) : op \in {5, 6}, n \in {0, 1}}
            \cup {Make!Request(3, <<>>, 0, <<e>>) : e \in Edits}
            \cup {Make!Request(7, <<>>, 0, es) : es \in {<<>>} \cup {<<e>> : e \in Edits} \cup {<<e, f>> : e, f \in Edits}}

(* Values (with their prefix) and schemas of exactly MaxBytes, and of one   *)
(* byte more: LimitsAreMet says that the documents lie on both sides.       *)
Long(n, letter) == [i \in 1 .. n |-> letter]
Full(n) == Make!ListOf(<<Leaf("ref", <<1>>), Leaf("ref", <<2>>),
                         Make!ListOf(<<Leaf("digest", <<1>>), Make!Text(Long(n, 1))>>)>>)
Refs == Make!Schema("List", <<>>, <<[Simple("Ref") EXCEPT !.id = 1]>>)
Wide(n) == Make!Schema("Struct", <<Long(26, 1), Long(26, 2), Long(n, 3)>>, <<Refs, Refs, Refs>>)

ASSUME LimitsAreMet ==
    /\ Make!Fine(Make!Encode(Full(1))) /\ ~Make!Fine(Make!Encode(Full(2)))
    /\ Make!Fine(Make!EncodeSchema(Wide(26))) /\ ~Make!Fine(Make!EncodeSchema(Wide(27)))

Doc(kind, schema, content) == [kind |-> kind, schema |-> schema, content |-> content]
AllDocuments ==
    {Doc("value", Make!Unit, v) : v \in Values \cup {Full(1), Full(2)}}
    \cup {Doc("typed", s, v) : s \in Typed, v \in Forms}
    \cup {Doc("schema", Make!Unit, s) : s \in OwnedSchemas \cup {Wide(26), Wide(27)}}
    \cup {Doc("static", Make!Unit, s) : s \in Schemas}
    \cup {Doc("request", Make!Unit, r) : r \in Requests}

OtherFragments == {<<"n", 0>>, <<"n", 1>>, <<"n", 2>>, <<"c", 1>>, <<"c", 255>>, <<"list", 0>>, <<"map", 0>>, <<"null", 0>>,
           <<"string", 0>>, <<"bytes", 0>>, <<"?", 0>>, <<"word", 0>>, <<"location", 0>>, <<"c", 106>>, <<"c", 107>>, <<"c", 110>>}

Wire == INSTANCE WireDocuments WITH
    MaxBytes <- 283, MaxDepth <- 4, MaxCount <- 3, MaxSchemaBytes <- 80,
    MaxDamaged <- 7, Documents <- AllDocuments, Fragments <- OtherFragments

documentsVars == <<doc, wire, whole, read>>

NoDocument == doc = Unused /\ wire = Unused /\ whole = Unused /\ read = Unused

------------------------------------------------------------------------------
(* A behaviour is of one part. The parts share no variable, so running them *)
(* side by side would add interleavings that no property tells apart.       *)
MCInit ==
    /\ part \in Parts
    /\ IF part = "choices" THEN Choosing!Init ELSE IF part = "rivals" THEN Rivals!Init ELSE NoChoosing
    /\ IF part = "admission" THEN Admission!Init ELSE NoAdmission
    /\ CASE part \in Talks \ {"bodies"} -> Replies!Init [] part = "bodies" -> Bodies!Init
         [] OTHER -> NoReplies
    /\ Init
    /\ IF part = "compaction" THEN Compaction!Init ELSE NoCompaction
    /\ IF part = "documents" THEN Wire!Init ELSE NoDocument

ChoosingStep ==
    /\ part = "choices" /\ Choosing!Next
    /\ UNCHANGED <<part, admissionVars, repliesVars, vars,
                   compactionVars, documentsVars>>

RivalsStep ==
    /\ part = "rivals" /\ Rivals!Next
    /\ UNCHANGED <<part, admissionVars, repliesVars, vars,
                   compactionVars, documentsVars>>

AdmissionStep ==
    /\ part = "admission" /\ Admission!Next
    /\ UNCHANGED <<part, choicesVars, repliesVars, vars,
                   compactionVars, documentsVars>>

TalkStep ==
    /\ \/ part = "replies" /\ Replies!Next
       \/ part = "callings" /\ Callings!Next
       \/ part = "limits" /\ Limits!Next
       \/ part = "bodies" /\ Bodies!Next
    /\ UNCHANGED <<part, choicesVars, admissionVars, vars,
                   compactionVars, documentsVars>>

SignInsStep ==
    /\ part = "signins" /\ Next
    /\ UNCHANGED <<part, choicesVars, admissionVars, repliesVars,
                   compactionVars, documentsVars>>

CompactionStep ==
    /\ part = "compaction" /\ Compaction!Next
    /\ UNCHANGED <<part, choicesVars, admissionVars, repliesVars, vars,
                   documentsVars>>

DocumentStep ==
    /\ part = "documents" /\ Wire!Next
    /\ UNCHANGED <<part, choicesVars, admissionVars, repliesVars, vars, compactionVars>>

MCNext ==
    \/ ChoosingStep \/ RivalsStep \/ AdmissionStep \/ TalkStep
    \/ SignInsStep \/ CompactionStep \/ DocumentStep

allVars == <<part, choicesVars, admissionVars, repliesVars, vars,
             compactionVars, documentsVars>>

MCSpec == MCInit /\ [][MCNext]_allVars

Interchangeable == Permutations({desk, laptop}) \cup Permutations({ann, bob})
                   \cup Permutations({textA, textB}) \cup Permutations({idA, idB})
                   \cup Permutations({callA, callB})

------------------------------------------------------------------------------
(* The selected model and the witness of its routing move together and are  *)
(* never overwritten unseen; a request is never served by another model     *)
(* than the session chose, every call has the evidence of the account and   *)
(* registration that are current, and a secret is only used for the account *)
(* it was resolved for.                                                     *)
ChoicesAreHonoured ==
    /\ [](part = "choices" =>
             /\ Choosing!TypeOK
             /\ Choosing!RowsAgree
             /\ Choosing!NoSilentFallback
             /\ Choosing!CallsHaveCurrentEvidence
             /\ Choosing!SecretsMatchTheirAccount)
    /\ [][part = "choices" =>
             /\ Choosing!NoBlindOverwrite]_allVars
    /\ [](part = "rivals" =>
             /\ Rivals!TypeOK
             /\ Rivals!RowsAgree)
    /\ [][part = "rivals" =>
             /\ Rivals!NoBlindOverwrite]_allVars

(* A request goes to the model only if it was weighed for the window and    *)
(* the checkpoint in use; what is left out is covered by a checkpoint whose *)
(* events are intact, a replacement is weighed like what it replaces, and a *)
(* checkpoint is published only under pressure.                             *)
RequestsFitTheirWindow ==
    /\ [](part = "admission" =>
             /\ Admission!TypeOK
             /\ Admission!OnlyFittingRequests
             /\ Admission!ElisionsAreGrounded
             /\ Admission!ReplacementsAreWeighedAlike)
    /\ [][part = "admission" =>
             /\ Admission!WritesArePressed]_allVars

(* A reply is what was shown, with its calls in order, finished and within  *)
(* the bound, and no prefix of a stream is one; a caller's limit is asked   *)
(* for and held to; only whole conversations are sent, and the three        *)
(* protocols tell the same of them.                                         *)
ProtocolsTellTheSame ==
    /\ [](part = "replies" =>
             /\ Replies!TypeOK
             /\ Replies!ShownIsTheReply
             /\ Replies!CallsKeepTheirOrder
             /\ Replies!RepliesAreFinished
             /\ Replies!RepliesFitTheBound)
    /\ [][part = "replies" =>
             /\ Replies!NoPrefixIsAReply]_allVars
    /\ [](part = "callings" =>
             /\ Callings!TypeOK
             /\ Callings!CallsKeepTheirOrder
             /\ Callings!RepliesAreFinished)
    /\ [](part = "limits" =>
             /\ Limits!TypeOK
             /\ Limits!CallersLimitHolds)
    /\ [](part = "bodies" =>
             /\ Bodies!TypeOK
             /\ Bodies!OnlyWholeConversations
             /\ Bodies!BodiesTellTheSame
             /\ Bodies!ResultsShareTheirTurn)

(* A division of the history never splits a turn, elides only what the      *)
(* journal bears out, proposes nothing that loses an open call or the last  *)
(* turn, proposes something whenever it can, and the next checkpoint        *)
(* carries over what the last one covered.                                  *)
CompactionKeepsTheTruth ==
    /\ part = "compaction" =>
          /\ Compaction!TypeOK
          /\ Compaction!TurnsAreNeverSplit
          /\ Compaction!OnlyTheTruthIsElided
          /\ Compaction!ProposalsAreSafe
          /\ Compaction!ProposalsAreMade
          /\ Compaction!CheckpointsCarryOver

(* Whatever one side encodes the other decodes as the same, every stream    *)
(* that decodes is the only encoding of what was read, accepted values can  *)
(* be encoded, and constant schemas have the bytes of owned ones.           *)
DocumentsAgree ==
    part = "documents" =>
        /\ Wire!TypeOK
        /\ Wire!RoundTrips
        /\ Wire!OneEncoding
        /\ Wire!AcceptedValuesFitDepth
        /\ Wire!StaticMatchesOwned
==============================================================================
