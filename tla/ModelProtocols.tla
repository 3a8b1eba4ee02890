----------------------------- MODULE ModelProtocols ------------------------------
(***************************************************************************)
(* A conversation with a model in one of three protocols: the checks of    *)
(* the history that is sent, its three encodings, what the event stream of *)
(* the model may say, and the reply that is made of it                     *)
(* (phenix-provider-protocols: request, stream and its two sub-modules).   *)
(*                                                                         *)
(* A history grows message by message, by a caller who may get it wrong,   *)
(* until it is sent, in a protocol and with the limits of the caller and   *)
(* of the provider.  Then one transfer is open: its frames arrive in order *)
(* and each is checked against what came before; the first one that does   *)
(* not fit fails the transfer for good.  The text of a frame is shown at   *)
(* once, the reply is made when the transfer has ended.                    *)
(*                                                                         *)
(* In a request a text is a model value or empty, and a tool's outcome its *)
(* kind; schemas are left out.  In a stream a text, an id, a name and the  *)
(* pieces of a call's arguments are short sequences, so that their length  *)
(* counts; arguments are the JSON of one envelope when they are Envelope.  *)
(* Framing, UTF-8, the shape of the JSON, and ids of messages and items    *)
(* that repeat or do not match are a frame that is refused.                *)
(***************************************************************************)
EXTENDS Integers, Sequences, FiniteSets, SequencesExt, FiniteSetsExt

CONSTANTS
    Prompts, Systems, Calls,      \* texts, whether there is a system text, ids of calls
    MaxHistory,                   \* bound of a request
    CallerLimits, ProviderLimits, \* limits.model_tokens, provider_max_tokens
    Protocols,    \* of "chat", "responses", "anthropic"
    Texts, Ids,
    Tools,        \* the names a model may say
    Selected,     \* those of the request's tools
    Envelope,     \* the pieces of a call's arguments, in their order
    CallDeltas,   \* what a frame of chat completions may carry of a call
    Costs,        \* the output tokens a model may report
    MaxIndex,     \* indexes are below MAX_COUNT
    MaxBytes      \* MAX_BYTES, the bound of a reply

Empty   == ""
NoMessage == [role |-> "none", text |-> Empty, calls |-> << >>, call |-> Empty, failed |-> FALSE]

Messages ==
    {[NoMessage EXCEPT !.role = "user", !.text = t] : t \in Prompts}
    \cup {[NoMessage EXCEPT !.role = "assistant", !.text = t, !.calls = cs] :
             t \in Prompts \cup {Empty}, cs \in SeqOf(Calls, 2)}
    \cup {[NoMessage EXCEPT !.role = "tool", !.call = c, !.failed = b] : c \in Calls, b \in BOOLEAN}

Pieces   == ToSet(Envelope)
NoLimit  == -1  \* a limit that was not set
NoUsage  == -1
NoReply  == [text |-> << >>, calls |-> << >>, usage |-> NoUsage, made |-> FALSE]
NoCall   == [id |-> << >>, tool |-> << >>, arguments |-> << >>]
Indexes  == 0 .. MaxIndex - 1

VARIABLES
    history, caller, provider, system, \* the request
    protocol,
    status,    \* idle, open, failed, or replied
    text,      \* the text so far
    calls,     \* the tool calls by their index
    usage,     \* the output tokens, once they are known
    spent,     \* what the model last said of them (message_delta's output_tokens)
    finish,    \* why the model stopped, in the words of the chat protocol
    done,      \* the terminal frame was seen
    bytes,     \* what the reply takes so far
    begun,     \* message_start, or response.created
    reason,    \* message_delta's stop reason
    items,     \* the content blocks, or output items, by their index
    reply,
    shown,     \* history: the text that was shown
    opened     \* history: the ids, or pieces of them, that calls were given, as they came

requestVars == <<history, caller, provider, system>>
streamVars == <<protocol, status, text, calls, usage, spent, finish, done, bytes, begun, reason,
                items, reply, shown, opened>>
vars == <<requestVars, streamVars>>

Init ==
    /\ history = << >> /\ system \in Systems
    /\ caller = NoLimit /\ provider = NoLimit
    /\ protocol = "none"
    /\ status = "idle" /\ text = << >> /\ calls = << >> /\ usage = NoUsage /\ spent = NoUsage
    /\ finish = "none" /\ done = FALSE /\ bytes = 0
    /\ begun = FALSE /\ reason = "none" /\ items = << >>
    /\ reply = NoReply /\ shown = << >> /\ opened = << >>

-----------------------------------------------------------------------------
(***************************************************************************)
(* prepare reads the history once, with the calls that have no result yet. *)
(***************************************************************************)
Unread == [ok |-> TRUE, pending |-> {}, user |-> FALSE]

Read(s, m) ==
    CASE m.role = "user" -> [s EXCEPT !.ok = s.ok /\ s.pending = {}, !.user = TRUE]
      [] m.role = "assistant" ->
            [s EXCEPT !.ok = s.ok /\ s.pending = {} /\ IsInjective(m.calls), !.pending = ToSet(m.calls)]
      [] m.role = "tool" -> [s EXCEPT !.ok = s.ok /\ m.call \in s.pending, !.pending = @ \ {m.call}]

Prepared(h) == FoldLeft(Read, Unread, h)

Accepted(h) == Prepared(h).ok /\ Prepared(h).user /\ Prepared(h).pending = {}

Grow(m) ==
    /\ status = "idle" /\ Len(history) < MaxHistory /\ Prepared(history).ok
    /\ history' = Append(history, m)
    /\ UNCHANGED <<caller, provider, system>> /\ UNCHANGED streamVars

(* The lower of the limits that are set. *)
LowerLimit(limits) ==
    LET set == limits \ {NoLimit} IN IF set = {} THEN NoLimit ELSE Min(set)

(* encode_protocol_with_max_tokens: a request is sent when its history is  *)
(* accepted, no limit is 0, and, in the protocol that must carry one,      *)
(* there is a limit.  (A body above MAX_BYTES is not sent either.)         *)
Send(p, limit, maximum) ==
    /\ status = "idle" /\ Accepted(history)
    /\ maximum # 0 /\ limit # 0
    /\ p = "anthropic" => LowerLimit({limit, maximum}) # NoLimit
    /\ status' = "open" /\ protocol' = p /\ caller' = limit /\ provider' = maximum
    /\ UNCHANGED <<history, system, text, calls, usage, spent, finish, done, bytes, begun, reason,
                   items, reply, shown, opened>>

-----------------------------------------------------------------------------
(***************************************************************************)
(* The bodies: a sequence of turns, each with the blocks it carries.       *)
(***************************************************************************)
Said(t)      == [type |-> "text", text |-> t, call |-> Empty, failed |-> FALSE]
CallOf(c)    == [type |-> "call", text |-> Empty, call |-> c, failed |-> FALSE]
Resulted(m)  == [type |-> "result", text |-> Empty, call |-> m.call, failed |-> m.failed]
Turn(role, blocks) == [role |-> role, blocks |-> blocks]
Developer    == IF system THEN <<Turn("developer", << >>)>> ELSE << >>
CallBlocks(m) == [n \in DOMAIN m.calls |-> CallOf(m.calls[n])]

ChatBody(h) ==
    Developer \o
    [n \in DOMAIN h |->
        CASE h[n].role = "user"      -> Turn("user", <<Said(h[n].text)>>)
          [] h[n].role = "assistant" -> Turn("assistant", <<Said(h[n].text)>> \o CallBlocks(h[n]))
          [] h[n].role = "tool"      -> Turn("tool", <<Resulted(h[n])>>)]

ResponsesItems(m) ==
    CASE m.role = "user"      -> <<Turn("user", <<Said(m.text)>>)>>
      [] m.role = "assistant" -> <<Turn("assistant", <<Said(m.text)>>)>>
                                 \o [n \in DOMAIN m.calls |-> Turn("call", <<CallOf(m.calls[n])>>)]
      [] m.role = "tool"      -> <<Turn("result", <<Resulted(m)>>)>>

ResponsesBody(h) == Developer \o FoldLeft(LAMBDA body, m : body \o ResponsesItems(m), << >>, h)

SharesTurn(body) ==
    /\ body # << >> /\ Last(body).role = "user"
    /\ \A n \in DOMAIN Last(body).blocks : Last(body).blocks[n].type = "result"

AnthropicContent(m) == (IF m.text = Empty THEN << >> ELSE <<Said(m.text)>>) \o CallBlocks(m)

AnthropicTurn(body, m) ==
    CASE m.role = "user"      -> Append(body, Turn("user", <<Said(m.text)>>))
      [] m.role = "assistant" -> Append(body, Turn("assistant", AnthropicContent(m)))
      [] m.role = "tool"      ->
            IF SharesTurn(body)
            THEN [body EXCEPT ![Len(body)].blocks = Append(@, Resulted(m))]
            ELSE Append(body, Turn("user", <<Resulted(m)>>))

AnthropicBody(h) == FoldLeft(AnthropicTurn, << >>, h)

(* The tokens the body of a request asks for: only anthropic_body is given *)
(* the lower limit, the other two take the caller's, whatever the          *)
(* provider's maximum is.                                                  *)
Tokens(p) == IF p = "anthropic" THEN LowerLimit({caller, provider}) ELSE caller

-----------------------------------------------------------------------------
Put(f, i, v) == [j \in DOMAIN f \cup {i} |-> IF j = i THEN v ELSE f[j]]

(* A frame is taken while the transfer is open and its terminal frame has  *)
(* not come; one that does not fit fails it, and the stream is dropped.    *)
Fails ==
    /\ status' = "failed"
    /\ text' = << >> /\ calls' = << >> /\ usage' = NoUsage /\ spent' = NoUsage
    /\ finish' = "none" /\ done' = FALSE /\ bytes' = 0
    /\ begun' = FALSE /\ reason' = "none" /\ items' = << >> /\ opened' = << >>
    /\ UNCHANGED <<protocol, reply, shown>>

Taken(p, fits) == protocol = p /\ status = "open" /\ ~done /\ fits

Account(length) == bytes + length <= MaxBytes /\ bytes' = bytes + length

Refused == \* a frame that is malformed, reports an error, or comes after the end
    /\ status = "open"
    /\ Fails

-----------------------------------------------------------------------------
(***************************************************************************)
(* Chat completions: a frame has text, calls, a reason to stop, the usage, *)
(* or several of them.  A call is given its id, its name and its arguments *)
(* in any pieces, and what comes at one index is joined.                   *)
(***************************************************************************)
Join(all, c) ==
    LET old == IF c.index \in DOMAIN all THEN all[c.index] ELSE NoCall
    IN Put(all, c.index, [id |-> old.id \o c.id, tool |-> old.tool \o c.tool,
                          arguments |-> old.arguments \o c.arguments])

Length(cs) == FoldLeft(LAMBDA n, c : n + Len(c.id) + Len(c.tool) + Len(c.arguments), 0, cs)

IdPieces(cs) ==
    LET named == SelectSeq(cs, LAMBDA c : c.id # << >>)
    IN [n \in DOMAIN named |-> [at |-> named[n].index, id |-> named[n].id]]

Chunk(t, cs, why, cost, choices) ==
    /\ Taken("chat", cost = NoUsage \/ usage = NoUsage)
    /\ IF cost = NoUsage THEN UNCHANGED <<usage, spent>> ELSE usage' = cost /\ spent' = cost
    /\ \/ /\ choices = 0 /\ usage' # NoUsage /\ finish # "none"
          /\ UNCHANGED <<text, shown, calls, opened, bytes, finish>>
       \/ /\ choices = 1 /\ finish = "none" /\ why \in {"none", "stop", "tool_calls"}
          /\ finish' = why
          /\ Account(Len(t) + Length(cs))
          /\ text' = text \o t /\ shown' = shown \o t
          /\ calls' = FoldLeft(Join, calls, cs)
          /\ opened' = opened \o IdPieces(cs)
    /\ UNCHANGED <<protocol, status, done, begun, reason, items, reply>>

DoneMarker ==
    /\ Taken("chat", TRUE)
    /\ done' = TRUE
    /\ UNCHANGED <<protocol, status, text, calls, usage, spent, finish, bytes, begun, reason, items,
                   reply, shown, opened>>

(* A frame with several calls is as several frames with one each.          *)
Chat ==
    \/ DoneMarker
    \/ \E cost \in Costs \cup {NoUsage} :
          \/ \E t \in SeqOf(Texts, 1), cs \in SeqOf(CallDeltas, 1), why \in {"none", "stop", "tool_calls"} :
                Chunk(t, cs, why, cost, 1)
          \/ Chunk(<< >>, << >>, "none", cost, 0)

-----------------------------------------------------------------------------
(***************************************************************************)
(* Anthropic messages: blocks are started, extended and stopped by index,  *)
(* in any interleaving; the message says why it stopped, then stops.       *)
(***************************************************************************)
Block(kind, id, tool, order) ==
    [kind |-> kind, id |-> id, tool |-> tool, order |-> order, body |-> << >>,
     closed |-> FALSE, ended |-> FALSE, part |-> "none"]

Open(i) == i \in DOMAIN items /\ ~items[i].closed

MessageStart ==
    /\ Taken("anthropic", ~begun)
    /\ Account(1)
    /\ usage' = 0 /\ begun' = TRUE
    /\ UNCHANGED <<protocol, status, text, calls, spent, finish, done, reason, items, reply, shown, opened>>

Order == Cardinality({i \in DOMAIN items : items[i].kind = "tool"})

BlockStart(i, kind, id, tool) ==
    /\ Taken("anthropic", begun /\ i < MaxIndex /\ i \notin DOMAIN items)
    /\ IF kind = "text"
       THEN items' = Put(items, i, Block("text", << >>, << >>, 0)) /\ UNCHANGED <<bytes, opened>>
       ELSE /\ items' = Put(items, i, Block("tool", <<id>>, <<tool>>, Order))
            /\ Account(2)
            /\ opened' = Append(opened, [at |-> i, id |-> <<id>>])
    /\ UNCHANGED <<protocol, status, text, calls, usage, spent, finish, done, begun, reason, reply, shown>>

BlockDelta(i, kind, piece) ==
    /\ Taken("anthropic", begun /\ Open(i) /\ items[i].kind = kind)
    /\ Account(1)
    /\ IF kind = "text"
       THEN text' = Append(text, piece) /\ shown' = Append(shown, piece) /\ UNCHANGED items
       ELSE items' = [items EXCEPT ![i].body = Append(@, piece)] /\ UNCHANGED <<text, shown>>
    /\ UNCHANGED <<protocol, status, calls, usage, spent, finish, done, begun, reason, reply, opened>>

BlockStop(i) ==
    /\ Taken("anthropic", begun /\ Open(i))
    /\ items' = [items EXCEPT ![i].closed = TRUE]
    /\ IF items[i].kind = "text" THEN UNCHANGED calls
       ELSE /\ items[i].body = Envelope
            /\ calls' = Put(calls, items[i].order,
                            [id |-> items[i].id, tool |-> items[i].tool, arguments |-> items[i].body])
    /\ UNCHANGED <<protocol, status, text, usage, spent, finish, done, bytes, begun, reason, reply, shown,
                   opened>>

MessageDelta(why, cost) ==
    /\ Taken("anthropic", begun /\ reason = "none")
    /\ reason' = why /\ spent' = cost
    /\ UNCHANGED <<protocol, status, text, calls, usage, finish, done, bytes, begun, items,
                   reply, shown, opened>>

AllClosed == \A i \in DOMAIN items : items[i].closed

MessageStop ==
    /\ Taken("anthropic", begun /\ AllClosed /\ reason \in {"end_turn", "tool_use"})
    /\ finish' = IF reason = "tool_use" THEN "tool_calls" ELSE "stop"
    /\ usage' = spent /\ done' = TRUE
    /\ UNCHANGED <<protocol, status, text, calls, spent, bytes, begun, reason, items, reply, shown, opened>>

Anthropic ==
    \/ MessageStart \/ MessageStop
    \/ \E why \in {"end_turn", "tool_use", "max_tokens"}, cost \in Costs : MessageDelta(why, cost)
    \/ \E i \in Indexes :
          \/ BlockStart(i, "text", "none", "none")
          \/ \E id \in Ids, tool \in Tools : BlockStart(i, "tool", id, tool)
          \/ \E x \in Texts : BlockDelta(i, "text", x)
          \/ \E piece \in Pieces : BlockDelta(i, "tool", piece)
          \/ BlockStop(i)

-----------------------------------------------------------------------------
(***************************************************************************)
(* Responses: items are added in order; what was streamed is repeated when *)
(* a text, a part, an item and the response are done, and must agree.      *)
(***************************************************************************)
Created ==
    /\ Taken("responses", ~begun)
    /\ Account(1)
    /\ begun' = TRUE
    /\ UNCHANGED <<protocol, status, text, calls, usage, spent, finish, done, reason, items, reply, shown, opened>>

Added(i, kind, id, tool) ==
    /\ Taken("responses", begun /\ i = Cardinality(DOMAIN items) /\ i < MaxIndex)
    /\ Account(IF kind = "text" THEN 1 ELSE 2)
    /\ IF kind = "text"
       THEN items' = Put(items, i, Block("text", << >>, << >>, 0)) /\ UNCHANGED opened
       ELSE /\ items' = Put(items, i, Block("tool", <<id>>, <<tool>>, 0))
            /\ opened' = Append(opened, [at |-> i, id |-> <<id>>])
    /\ UNCHANGED <<protocol, status, text, calls, usage, spent, finish, done, begun, reason, reply, shown>>

(* One more event of an open item.                                         *)
Step(i, kind, item) ==
    /\ Taken("responses", begun /\ Open(i) /\ items[i].kind = kind)
    /\ items' = [items EXCEPT ![i] = item]
    /\ UNCHANGED <<protocol, status, calls, usage, spent, finish, done, begun, reason, reply, opened>>

PartAdded(i) ==
    /\ Open(i) /\ items[i].part = "none"
    /\ Step(i, "text", [items[i] EXCEPT !.part = "added"])
    /\ UNCHANGED <<text, shown, bytes>>

(* Fault: the text that is done is appended to what was streamed of it. *)
TextDoneAgain(i, agrees) ==
    /\ Open(i) /\ items[i].part # "none" /\ ~items[i].ended /\ agrees
    /\ Step(i, "text", [items[i] EXCEPT !.ended = TRUE])
    /\ text' = text \o items[i].body
    /\ UNCHANGED <<shown, bytes>>

TextDone(i, agrees) ==
    /\ Open(i) /\ items[i].part # "none" /\ ~items[i].ended /\ agrees
    /\ Step(i, "text", [items[i] EXCEPT !.ended = TRUE])
    /\ UNCHANGED <<text, shown, bytes>>

TextDelta(i, x) ==
    /\ Open(i) /\ items[i].part # "none" /\ ~items[i].ended
    /\ Account(1)
    /\ Step(i, "text", [items[i] EXCEPT !.body = Append(@, x)])
    /\ text' = Append(text, x) /\ shown' = Append(shown, x)

PartDone(i, agrees) ==
    /\ Open(i) /\ items[i].ended /\ items[i].part = "added" /\ agrees
    /\ Step(i, "text", [items[i] EXCEPT !.part = "done"])
    /\ UNCHANGED <<text, shown, bytes>>

ArgumentsDelta(i, piece) ==
    /\ Open(i) /\ ~items[i].ended
    /\ Account(1)
    /\ Step(i, "tool", [items[i] EXCEPT !.body = Append(@, piece)])
    /\ UNCHANGED <<text, shown>>

ArgumentsDone(i, agrees) ==
    /\ Open(i) /\ ~items[i].ended /\ agrees
    /\ Step(i, "tool", [items[i] EXCEPT !.ended = TRUE])
    /\ UNCHANGED <<text, shown, bytes>>

ItemDone(i, agrees) ==
    /\ Open(i) /\ agrees /\ items[i].ended
    /\ items[i].kind = "text" => items[i].part = "done"
    /\ Step(i, items[i].kind, [items[i] EXCEPT !.closed = TRUE])
    /\ UNCHANGED <<text, shown, bytes>>

(* The calls are those of the items, in their order.                       *)
Called ==
    LET tools == {i \in DOMAIN items : items[i].kind = "tool"}
        At(n) == CHOOSE i \in tools : Cardinality({j \in tools : j < i}) = n
    IN [n \in 0 .. Cardinality(tools) - 1 |->
           [id |-> items[At(n)].id, tool |-> items[At(n)].tool, arguments |-> items[At(n)].body]]

Completed(agrees, cost) ==
    /\ Taken("responses", begun /\ agrees /\ DOMAIN items # {} /\ AllClosed)
    /\ usage' = cost /\ spent' = cost /\ done' = TRUE
    /\ calls' = Called
    /\ finish' = IF \E i \in DOMAIN items : items[i].kind = "tool" THEN "tool_calls" ELSE "stop"
    /\ UNCHANGED <<protocol, status, text, bytes, begun, reason, items, reply, shown, opened>>

Responses ==
    \/ Created \/ \E cost \in Costs : Completed(TRUE, cost)
    \/ \E i \in Indexes :
          \/ Added(i, "text", "none", "none")
          \/ \E id \in Ids, tool \in Tools : Added(i, "tool", id, tool)
          \/ PartAdded(i) \/ TextDone(i, TRUE) \/ PartDone(i, TRUE)
          \/ ArgumentsDone(i, TRUE) \/ ItemDone(i, TRUE)
          \/ \E x \in Texts : TextDelta(i, x)
          \/ \E piece \in Pieces : ArgumentsDelta(i, piece)

-----------------------------------------------------------------------------
(* finish: the stream came to its end, it cost no more than the caller     *)
(* allows, and every call is whole, selected, and distinct.                *)
Accepts ==
    /\ done /\ finish # "none" /\ usage # NoUsage
    /\ caller = NoLimit \/ usage <= caller
    /\ DOMAIN calls = 0 .. Cardinality(DOMAIN calls) - 1
    /\ \A i \in DOMAIN calls :
          /\ calls[i].id # << >> /\ calls[i].arguments = Envelope
          /\ \E tool \in Selected : calls[i].tool = <<tool>>
          /\ \A j \in DOMAIN calls : calls[i].id = calls[j].id => i = j
    /\ (finish = "tool_calls") = (DOMAIN calls # {})

Finish ==
    /\ status = "open"
    /\ IF Accepts
       THEN /\ status' = "replied"
            /\ reply' = [text |-> text, usage |-> usage, made |-> TRUE,
                         calls |-> [n \in 1 .. Cardinality(DOMAIN calls) |-> calls[n - 1]]]
            /\ UNCHANGED <<protocol, text, calls, usage, spent, finish, done, bytes, begun, reason,
                           items, shown, opened>>
       ELSE Fails

Stream == Chat \/ Anthropic \/ Responses \/ Refused \/ Finish

Next ==
    \/ \E m \in Messages : Grow(m)
    \/ \E p \in Protocols, limit \in CallerLimits, maximum \in ProviderLimits : Send(p, limit, maximum)
    \/ Stream /\ UNCHANGED requestVars

Spec == Init /\ [][Next]_vars

-----------------------------------------------------------------------------
TypeOK ==
    /\ history \in Seq(Messages) /\ Len(history) <= MaxHistory
    /\ caller \in CallerLimits \cup {NoLimit} /\ provider \in ProviderLimits \cup {NoLimit} /\ system \in BOOLEAN
    /\ Prepared(history).pending \subseteq Calls
    /\ protocol \in Protocols \cup {"none"} /\ status \in {"idle", "open", "failed", "replied"}
    /\ text \in Seq(Texts) /\ shown \in Seq(Texts)
    /\ DOMAIN calls \subseteq Indexes /\ DOMAIN items \subseteq Indexes
    /\ \A i \in DOMAIN calls : calls[i].id \in Seq(Ids) /\ calls[i].arguments \in Seq(Pieces)
    /\ opened \in Seq([at : Indexes, id : Seq(Ids)])
    /\ finish \in {"none", "stop", "tool_calls"} /\ done \in BOOLEAN
    /\ reason \in {"none", "end_turn", "tool_use", "max_tokens"} /\ bytes \in 0 .. MaxBytes
    /\ usage \in Costs \cup {0, NoUsage} /\ spent \in Costs \cup {NoUsage}

(* A history is accepted exactly if a user spoke in it, no batch of calls  *)
(* repeats one, and each call has one result, before anyone else speaks.   *)
(* (The reference looks at the history as a whole.)                        *)
Results(h, a) ==
    {n \in DOMAIN h : n > a /\ \A k \in a + 1 .. n : h[k].role = "tool"}

WholeConversation(h) ==
    /\ \E n \in DOMAIN h : h[n].role = "user"
    /\ \A a \in DOMAIN h : h[a].role = "assistant" =>
          /\ Cardinality(ToSet(h[a].calls)) = Len(h[a].calls)
          /\ Cardinality(Results(h, a)) = Len(h[a].calls)
          /\ {h[n].call : n \in Results(h, a)} = ToSet(h[a].calls)
    /\ \A n \in DOMAIN h : h[n].role = "tool" =>
          \E a \in DOMAIN h : h[a].role = "assistant" /\ n \in Results(h, a)

OnlyWholeConversations == Accepted(history) <=> WholeConversation(history)

(* The three bodies tell one conversation: what was said, called and       *)
(* returned is the same in each, in the same order, and nothing is lost.   *)
Told(body) == FoldLeft(LAMBDA all, t : all \o t.blocks, << >>, body)
Heard(h)   == FoldLeft(LAMBDA all, m :
                          all \o (IF m.role = "tool" THEN <<Resulted(m)>>
                                  ELSE <<Said(m.text)>> \o CallBlocks(m)), << >>, h)
SaidSomething(block) == block # Said(Empty)

BodiesTellTheSame ==
    Accepted(history) =>
        /\ Told(ChatBody(history)) = Heard(history)
        /\ Told(ResponsesBody(history)) = Heard(history)
        /\ Told(AnthropicBody(history)) = SelectSeq(Heard(history), SaidSomething)

(* anthropic_body: all results of a batch share the user turn that follows *)
(* it, and no turn is put between.                                         *)
ResultsShareTheirTurn ==
    Accepted(history) =>
        LET body  == AnthropicBody(history)
            In(n, type) == {body[n].blocks[k].call : k \in {j \in DOMAIN body[n].blocks :
                                                            body[n].blocks[j].type = type}}
        IN \A n \in DOMAIN body :
              In(n, "call") # {} => n < Len(body) /\ In(n + 1, "result") = In(n, "call")

(* A caller's limit is asked of the model in each protocol, and the reply  *)
(* reports what the model said last and no more than that limit, in        *)
(* whichever frames the costs came; where a body must carry a limit, it    *)
(* does.  (Nothing of the kind holds of the provider's maximum, which only *)
(* the bodies of one protocol carry and no reply is held to.)              *)
CallersLimitHolds ==
    /\ status # "idle" /\ caller # NoLimit => Tokens(protocol) \in 1 .. caller
    /\ status # "idle" /\ protocol = "anthropic" => Tokens(protocol) # NoLimit
    /\ reply.made => /\ reply.usage = spent
                     /\ caller # NoLimit => spent <= caller

(* The text a reply carries is the text that was shown while it streamed,  *)
(* in each protocol, although two of them repeat it when a part is done.   *)
ShownIsTheReply == reply.made => reply.text = shown

(* A reply has the calls the stream opened, each once: blocks that overlap *)
(* do not change places, and where a call's id came in pieces, it is the   *)
(* pieces heard at its index, in the order in which they came, however the *)
(* other calls were woven between them.                                    *)
IdHeardAt(i) == FoldLeft(LAMBDA id, o : IF o.at = i THEN id \o o.id ELSE id, << >>, opened)

CallsKeepTheirOrder ==
    reply.made =>
        LET ids == [n \in DOMAIN reply.calls |-> reply.calls[n].id]
        IN /\ IsInjective(ids)
           /\ IF protocol = "chat"
              THEN /\ \A n \in DOMAIN ids : ids[n] = IdHeardAt(n - 1)
                   /\ \A n \in DOMAIN opened : opened[n].at + 1 \in DOMAIN ids
              ELSE ids = [n \in DOMAIN opened |-> opened[n].id]

(* No reply is made of a message with a block or an item that was never    *)
(* finished.                                                               *)
RepliesAreFinished == reply.made => \A i \in DOMAIN items : items[i].closed

(* A reply is within the bound of what may cross a plugin boundary.        *)
RepliesFitTheBound ==
    reply.made =>
        Len(reply.text) + FoldSet(LAMBDA n, sum : sum + Len(reply.calls[n].arguments),
                                  0, DOMAIN reply.calls) <= MaxBytes

(* A stream that was cut short is not taken for a shorter reply: what      *)
(* would be accepted as it stands cannot be extended to something that is. *)
NoPrefixIsAReply == Accepts /\ status = "open" /\ status' = "open" => UNCHANGED vars
=================================================================================
