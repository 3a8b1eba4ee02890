----------------------------- MODULE StdinLines -----------------------------
(***************************************************************************)
(* Reading lines of bounded length from chunks of any size                 *)
(* (bounded_input_line of main.rs).                                        *)
(***************************************************************************)
EXTENDS Naturals, Sequences, SequencesExt, FiniteSets

CONSTANTS Limit,  \* the 1 MiB of a line, its end included
          Inputs, \* what the client writes
          CR, LF, Broken \* bytes: the line end, and one that is no UTF-8

VARIABLES
    input,  \* what is not consumed yet
    whole,  \* history: what the client wrote
    line,   \* the bytes of the line so far
    long,   \* it was too long
    out     \* what the reader was given: lines, then "end" or an error

vars == <<input, whole, line, long, out>>

Init ==
    /\ input \in Inputs /\ whole = input
    /\ line = <<>> /\ long = FALSE /\ out = <<>>

Given(kind, b) == [kind |-> kind, text |-> b]

Over == out # <<>> /\ Last(out).kind # "line"

Stripped(b) ==
    IF b = <<>> \/ Last(b) # LF THEN b
    ELSE IF Len(b) > 1 /\ b[Len(b) - 1] = CR THEN Front(Front(b)) ELSE Front(b)

(* What is made of the collected bytes. *)
Framed(b, tooLong) ==
    IF tooLong THEN Given("too long", <<>>)
    ELSE IF Broken \in Range(Stripped(b)) THEN Given("invalid", <<>>)
    ELSE Given("line", Stripped(b))

Emit(b, tooLong) == out' = Append(out, Framed(b, tooLong)) /\ line' = <<>> /\ long' = FALSE

Consumed(chunk) ==
    IF LF \in Range(chunk)
    THEN SubSeq(chunk, 1, CHOOSE k \in DOMAIN chunk :
                            chunk[k] = LF /\ \A j \in 1 .. k - 1 : chunk[j] # LF)
    ELSE chunk

Overflows(bytes) == Len(line) + Len(bytes) > Limit

(* One turn of the loop: fill_buf returns any part of what is there. *)
Chunk ==
    /\ ~Over /\ input # <<>>
    /\ \E n \in 1 .. Len(input) :
        LET bytes == Consumed(SubSeq(input, 1, n))
            tooLong == long \/ Overflows(bytes)
            longer == IF tooLong THEN line ELSE line \o bytes
        IN  /\ input' = SubSeq(input, Len(bytes) + 1, Len(input))
            /\ IF Last(bytes) = LF THEN Emit(longer, tooLong)
               ELSE line' = longer /\ long' = tooLong /\ UNCHANGED out
    /\ UNCHANGED whole

EndOfFile ==
    /\ ~Over /\ input = <<>>
    /\ IF line = <<>> /\ ~long
       THEN out' = Append(out, Given("end", <<>>)) /\ UNCHANGED <<line, long>>
       ELSE Emit(line, long)
    /\ UNCHANGED <<input, whole>>

Next == Chunk \/ EndOfFile

Spec == Init /\ [][Next]_vars

-----------------------------------------------------------------------------

(* The memory of a line is bounded. *)
TypeOK ==
    /\ Len(line) <= Limit /\ Len(input) <= Len(whole)
    /\ \A k \in DOMAIN out : out[k].kind \in {"line", "end", "too long", "invalid"}

(* The lines of a text, whatever the chunks it came in. *)
LineEnds == {k \in DOMAIN whole : whole[k] = LF} \cup {0, Len(whole)}

Bounds == [k \in 1 .. Cardinality(LineEnds) |->
              CHOOSE x \in LineEnds : Cardinality({y \in LineEnds : y < x}) = k - 1]

Expected ==
    LET Raw(k) == SubSeq(whole, Bounds[k] + 1, Bounds[k + 1])
        Text(b) == IF Len(b) > 1 /\ SubSeq(b, Len(b) - 1, Len(b)) = <<CR, LF>>
                   THEN SubSeq(b, 1, Len(b) - 2)
                   ELSE SelectSeq(b, LAMBDA x : x # LF)
        Result(b) == CASE Len(b) > Limit -> [kind |-> "too long", text |-> <<>>]
                       [] Len(b) <= Limit /\ Broken \in Range(b) ->
                            [kind |-> "invalid", text |-> <<>>]
                       [] OTHER -> [kind |-> "line", text |-> Text(b)]
        all == [k \in 1 .. Len(Bounds) - 1 |-> Result(Raw(k))]
                  \o <<[kind |-> "end", text |-> <<>>]>>
        bad == {k \in DOMAIN all : all[k].kind # "line"}
    IN  SubSeq(all, 1, CHOOSE k \in bad : \A j \in bad : k <= j)

(* A client gets its lines, byte for byte and each at most as long as the   *)
(* limit, however the system cuts its writes into chunks.                   *)
LinesIgnoreChunks == Over => out = Expected
=============================================================================
