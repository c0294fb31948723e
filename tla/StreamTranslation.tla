-------------------------- MODULE StreamTranslation --------------------------
(***************************************************************************)
(* One streaming request as its caller sees it: the chunks of the upstream *)
(* (chat completions, server-sent events) are checked                      *)
(* (gateway/stream.go), translated for callers of the responses and the    *)
(* messages API (gateway/protocol_stream.go) and written at once.          *)
(*                                                                         *)
(* The encoder is made once per request and outlives an attempt; what the  *)
(* attempt has checked (streamState) and what it holds back (pending) do   *)
(* not.  The rows that the attempts leave are those of module Gateway.     *)
(*                                                                         *)
(* A part of an answer is the text or a tool call, by the upstream's       *)
(* index.  The arguments of a call are a sequence of pieces, ids and names *)
(* are numbers, 0 the empty one.                                           *)
(***************************************************************************)
EXTENDS Integers, Sequences, FiniteSets

CONSTANTS
    Protocols,    \* of "chat", "responses", "anthropic"
    Tools,        \* the upstream's indices of tool calls
    Chunks,       \* the chunks the upstream may send: see Chunk
    MaxAttempts,  \* max_attempts of the target
    MaxFrames,    \* bound: frames of a request
    None

Reasons == {"stop", "length", "tool_calls"}
Pieces  == {"{", "}", "{}"}
Text    == -1   \* the part that is no tool call
\* The words of an event: a piece of arguments or of text, or how the answer ended.
Words   == Pieces \cup {"t"}
           \cup {"completed", "incomplete", "end_turn", "max_tokens", "tool_use"}

Parts   == {Text} \cup Tools

Call == [index : Tools, id : Nat, name : Nat, args : Pieces \cup {None}]

\* `choices` counts the choices; text, calls and finish are those of the first, and
\* `ends` is whether any of them has a finish reason.
Chunk(c) ==
    /\ c.choices \in 0 .. 2 /\ c.usage \in BOOLEAN /\ c.text \in BOOLEAN
    /\ c.calls \in Seq(Call)
    /\ c.finish \in Reasons \cup {None} /\ c.ends \in BOOLEAN
    /\ c.choices = 0 => ~c.text /\ c.calls = <<>> /\ c.finish = None
    /\ c.finish # None => c.ends
    /\ c.choices < 2 => (c.ends <=> c.finish # None)

ASSUME StreamAssumption ==
    /\ Protocols \subseteq {"chat", "responses", "anthropic"}
    /\ Tools \subseteq Nat
    /\ \A c \in Chunks : Chunk(c)
    /\ MaxAttempts \in Nat \ {0} /\ MaxFrames \in Nat
    /\ None \notin Nat \cup Words \cup Reasons

VARIABLES
    protocol,  \* the API the caller speaks
    attempt,   \* the number of the attempt
    saw,       \* streamState: a choice, a finish reason
    pending,   \* frames without data that are held back (chat only)
    enc,       \* the encoder
    out,       \* what was written to the caller
    phase,     \* "streaming", "succeeded", "failed", "cancelled"
    frames,    \* frames so far
    said       \* history: what the upstream mentioned, in its order

vars == <<protocol, attempt, saw, pending, enc, out, phase, frames, said>>

Tool    == [at : Nat \cup {None}, id : Nat, name : Nat, args : Seq(Pieces)]
Encoder == [started : BOOLEAN, text : Nat \cup {None}, tools : [Tools -> Tool],
            next : Nat, open : Nat \cup {None}, finish : Reasons \cup {None}]

\* An event names a place in the answer; a start also the part, a delta the piece,
\* the end of an answer its status and (responses) the items.
Event   == [type : {"created", "in_progress", "message_start", "start", "delta", "stop",
                    "message_delta", "end", "comment", "raw"},
            at : Nat \cup {None}, part : Parts \cup {None}, what : Words \cup {None},
            items : Seq(Parts)]
Mention == [type : {"named", "delta"}, part : Parts, what : Words \cup {None}]

NoTool  == [at |-> None, id |-> 0, name |-> 0, args |-> <<>>]
Unused  == [started |-> FALSE, text |-> None, tools |-> [t \in Tools |-> NoTool],
            next |-> 0, open |-> None, finish |-> None]
NothingSeen == [choice |-> FALSE, finish |-> FALSE]

PlaceOf(e, part) == IF part = Text THEN e.text ELSE e.tools[part].at
PartsOf(e) == {p \in Parts : PlaceOf(e, p) # None}

\* Every part has a place of its own, the places are those handed out, and the
\* last one is open where there are blocks.
Placed(pr, e) ==
    /\ \A p \in PartsOf(e) : PlaceOf(e, p) \in 0 .. e.next - 1
    /\ \A p, q \in PartsOf(e) : PlaceOf(e, p) = PlaceOf(e, q) => p = q
    /\ \A n \in 0 .. e.next - 1 : \E p \in PartsOf(e) : PlaceOf(e, p) = n
    /\ e.open = IF pr = "anthropic" /\ e.next > 0 THEN e.next - 1 ELSE None

TypeOK ==
    /\ protocol \in Protocols /\ attempt \in 1 .. MaxAttempts
    /\ saw \in [choice : BOOLEAN, finish : BOOLEAN]
    /\ frames \in 0 .. MaxFrames /\ pending \in 0 .. frames
    /\ enc \in Encoder /\ Placed(protocol, enc)
    /\ out \in Seq(Event) /\ said \in Seq(Mention)
    /\ phase \in {"streaming", "succeeded", "failed", "cancelled"}

Init ==
    /\ protocol \in Protocols
    /\ attempt = 1 /\ frames = 0 /\ pending = 0
    /\ saw = NothingSeen
    /\ enc = Unused
    /\ out = <<>> /\ said = <<>>
    /\ phase = "streaming"

Committed == out # <<>>

----------------------------------------------------------------------------
(* What the gateway accepts of a chunk, whatever the protocol.             *)

consumeOk(c) == (c.usage => saw.choice) /\ (c.choices = 0 => c.usage)

consume(c) == [choice |-> saw.choice \/ c.choices > 0,
               finish |-> saw.finish \/ c.ends]

----------------------------------------------------------------------------
(* The encoders, as functions of <<encoder, output>>.                      *)

Ev(type, at, part, what) ==
    [type |-> type, at |-> at, part |-> part, what |-> what, items |-> <<>>]

\* Mutant: the first frames are kept until there is something to say.
startQuiet(s) == <<[s[1] EXCEPT !.started = TRUE], s[2]>>

start(s) ==
    IF s[1].started THEN s
    ELSE <<[s[1] EXCEPT !.started = TRUE],
           s[2] \o (IF protocol = "responses"
                    THEN <<Ev("created", None, None, None), Ev("in_progress", None, None, None)>>
                    ELSE <<Ev("message_start", None, None, None)>>)>>

\* Mutant: an open block is forgotten.
closeOpenForgotten(s) == <<[s[1] EXCEPT !.open = None], s[2]>>

\* The messages API has one open block at a time.
closeOpen(s) ==
    IF protocol # "anthropic" \/ s[1].open = None THEN s
    ELSE <<[s[1] EXCEPT !.open = None], Append(s[2], Ev("stop", s[1].open, None, None))>>

PlaceFor(e, part) == e.next

\* A part begins: it gets its place in the answer.
Began(s, part, tool) ==
    LET e == closeOpen(s)[1]
        n == PlaceFor(e, part)
        f == IF part = Text THEN [e EXCEPT !.text = n]
             ELSE [e EXCEPT !.tools[part] = [tool EXCEPT !.at = n]]
    IN  <<[f EXCEPT !.next = @ + 1, !.open = IF protocol = "anthropic" THEN n ELSE None],
          Append(closeOpen(s)[2], Ev("start", n, part, None))>>

\* Mutant: the piece that begins the text is lost.
textDeltaLate(s, c) ==
    IF ~c.text THEN s
    ELSE IF s[1].text = None THEN Began(s, Text, NoTool)
    ELSE <<s[1], Append(s[2], Ev("delta", s[1].text, None, "t"))>>

textDelta(s, c) ==
    IF ~c.text THEN s
    ELSE LET b == IF s[1].text = None THEN Began(s, Text, NoTool) ELSE s
         IN  <<b[1], Append(b[2], Ev("delta", b[1].text, None, "t"))>>

\* A tool call must begin with an id and a name; only the responses API insists
\* that they stay.
callOk(e, call) ==
    LET tool == e.tools[call.index] IN
    IF tool.at = None THEN call.id # 0 /\ call.name # 0
    ELSE protocol = "responses" => call.id \in {0, tool.id} /\ call.name \in {0, tool.name}

callDelta(s, call) ==
    LET t == call.index
        b == IF s[1].tools[t].at = None
             THEN Began(s, t, [NoTool EXCEPT !.id = call.id, !.name = call.name]) ELSE s
    IN  IF call.args = None THEN b
        ELSE <<[b[1] EXCEPT !.tools[t].args = Append(@, call.args)],
               Append(b[2], Ev("delta", b[1].tools[t].at, None, call.args))>>

\* The states after the text and after each of the calls.
Steps(c) ==
    LET first == LET s == start(<<enc, out>>)
                 IN  textDelta(<<[s[1] EXCEPT !.finish = IF c.finish = None THEN @ ELSE c.finish],
                                 s[2]>>, c)
        after[i \in 0 .. Len(c.calls)] ==
            IF i = 0 THEN first ELSE callDelta(after[i - 1], c.calls[i])
    IN  after

EncodeOk(c) ==
    /\ c.choices <= 1
    /\ \A i \in DOMAIN c.calls : callOk(Steps(c)[i - 1][1], c.calls[i])

Encode(c) == Steps(c)[Len(c.calls)]

----------------------------------------------------------------------------
(* The end of an answer.                                                   *)

validJSONObjectString(args) == args \in {<<"{", "}">>, <<"{}">>}

\* A set of numbers in ascending order.
Ascending(f) == \A i, j \in DOMAIN f : i < j => f[i] < f[j]
Sorted(S) == CHOOSE f \in [1 .. Cardinality(S) -> S] :
                 Ascending(f) /\ \A x \in S : \E i \in DOMAIN f : f[i] = x

\* The calls in the order of the upstream's index.
ToolOrder(e) == Sorted(PartsOf(e) \ {Text})
PartAt(e, n) == CHOOSE p \in PartsOf(e) : PlaceOf(e, p) = n

FinishOk ==
    /\ enc.started
    /\ \A t \in Tools : enc.tools[t].at # None => validJSONObjectString(enc.tools[t].args)
    /\ enc.finish \in Reasons
    /\ protocol = "responses" => PartsOf(enc) # {}

\* Mutant: an answer that was cut off is called complete.
statusAlways(reason) == IF protocol = "responses" THEN "completed" ELSE "end_turn"

status(reason) ==
    IF protocol = "responses" THEN (IF reason = "length" THEN "incomplete" ELSE "completed")
    ELSE CASE reason = "stop" -> "end_turn" [] reason = "length" -> "max_tokens"
           [] reason = "tool_calls" -> "tool_use"

\* The done events of each item, then the response with its items in order.
responsesFinish ==
    LET order  == (IF enc.text # None THEN <<Text>> ELSE <<>>) \o ToolOrder(enc)
        places == Sorted({PlaceOf(enc, p) : p \in PartsOf(enc)})
        items  == [i \in DOMAIN places |-> PartAt(enc, places[i])]
    IN  [i \in DOMAIN order |-> Ev("stop", PlaceOf(enc, order[i]), None, None)]
        \o <<[Ev("end", None, None, status(enc.finish)) EXCEPT !.items = items]>>

anthropicFinish ==
    closeOpen(<<enc, <<>>>>)[2]
    \o <<Ev("message_delta", None, None, status(enc.finish)),
         Ev("end", None, None, status(enc.finish))>>

----------------------------------------------------------------------------
(* The loop over the frames of an attempt.                                 *)

Held == [i \in 1 .. pending |-> Ev("comment", None, None, None)]
Raw == Held \o <<Ev("raw", None, None, None)>>

Translated(c) == IF protocol = "chat" THEN out \o Raw ELSE Encode(c)[2]
Accepted(c)   == consumeOk(c) /\ (protocol # "chat" => EncodeOk(c))

\* What a chunk mentions, in the order in which it is translated.
Says(part, what) == [type |-> IF what = None THEN "named" ELSE "delta",
                     part |-> part, what |-> what]
PiecesOf(c) == (IF c.text THEN <<Says(Text, "t")>> ELSE <<>>)
               \o [i \in DOMAIN c.calls |-> Says(c.calls[i].index, c.calls[i].args)]

More == phase = "streaming" /\ frames < MaxFrames /\ frames' = frames + 1

\* A frame without data: a caller that is not translated for gets it later.
Comment ==
    /\ More
    /\ pending' = IF protocol = "chat" THEN pending + 1 ELSE pending
    /\ UNCHANGED <<protocol, attempt, saw, enc, out, phase, said>>

\* A chunk is checked, translated and written.
Frame(c) ==
    /\ More /\ Accepted(c)
    /\ saw' = consume(c)
    /\ enc' = IF protocol = "chat" THEN enc ELSE Encode(c)[1]
    /\ out' = Translated(c)
    /\ said' = said \o PiecesOf(c)
    /\ pending' = 0
    /\ UNCHANGED <<protocol, attempt, phase>>

\* A chunk that cannot be used ends the request.
FrameRefused(c) ==
    /\ More /\ ~Accepted(c)
    /\ phase' = "failed"
    /\ UNCHANGED <<protocol, attempt, saw, pending, enc, out, said>>

\* So does a frame that is too long, no event, no chunk, or an error.
BadFrame ==
    /\ More
    /\ phase' = "failed"
    /\ UNCHANGED <<protocol, attempt, saw, pending, enc, out, said>>

\* The upstream breaks off, or is too slow: another attempt if nothing was written.
ReadFails ==
    /\ phase = "streaming"
    /\ IF ~Committed /\ attempt < MaxAttempts
       THEN attempt' = attempt + 1 /\ saw' = NothingSeen /\ pending' = 0 /\ phase' = phase
       ELSE phase' = "failed" /\ UNCHANGED <<attempt, saw, pending>>
    /\ UNCHANGED <<protocol, enc, out, frames, said>>

\* [DONE].
Done ==
    /\ phase = "streaming"
    /\ IF saw.choice /\ saw.finish /\ (protocol # "chat" => FinishOk)
       THEN /\ out' = out \o CASE protocol = "chat" -> Raw
                                [] protocol = "responses" -> responsesFinish
                                [] protocol = "anthropic" -> anthropicFinish
            /\ phase' = "succeeded"
       ELSE phase' = "failed" /\ out' = out
    /\ UNCHANGED <<protocol, attempt, saw, pending, enc, frames, said>>

\* The caller goes away: a read or a write fails with his context, or the wait for
\* the next attempt ends.
ClientGone ==
    /\ phase = "streaming" /\ phase' = "cancelled"
    /\ UNCHANGED <<protocol, attempt, saw, pending, enc, out, frames, said>>

Ended == phase # "streaming" /\ UNCHANGED vars

Next ==
    \/ Comment \/ BadFrame \/ ReadFails \/ Done \/ ClientGone \/ Ended
    \/ \E c \in Chunks : Frame(c) \/ FrameRefused(c)

Spec == Init /\ [][Next]_vars
=============================================================================
