--------------------------- MODULE StreamProperties ---------------------------
(***************************************************************************)
(* What a caller of the gateway's streaming APIs may rely on.  The parts   *)
(* are operators of an encoder e, an output o and what was said q, so that *)
(* they apply as well between two calls of one chunk.                      *)
(***************************************************************************)
EXTENDS StreamTranslation

Translating == protocol # "chat"

\* The elements of s, events or mentions, that are of one of the types.
OfType(s, types) ==
    LET kept[i \in 0 .. Len(s)] ==
            IF i = 0 THEN <<>>
            ELSE IF s[i].type \in types THEN Append(kept[i - 1], s[i]) ELSE kept[i - 1]
    IN  kept[Len(s)]

At(o, i, type, n) == o[i].type = type /\ o[i].at = n

SameDeltas(e, o, q) ==
    LET deltas == OfType(o, {"delta"})
        pieces == OfType(q, {"delta"})
    IN  /\ Len(deltas) = Len(pieces)
        /\ \A i \in DOMAIN deltas :
              /\ pieces[i].part \in PartsOf(e) /\ deltas[i].at = PlaceOf(e, pieces[i].part)
              /\ deltas[i].what = pieces[i].what

\* The caller receives every piece of text and arguments once, in the upstream's
\* order and under the place of its own part, whether or not the request ends well
\* (Encode of both encoders).
DeltasAsReceived == Translating => SameDeltas(enc, out, said)

\* A part starts once, at its place, and a delta follows the start of its part.
StartsOnce(e, o) ==
    /\ \A n \in 0 .. e.next - 1 : \E i \in DOMAIN o :
          At(o, i, "start", n) /\ \A k \in DOMAIN o : At(o, k, "start", n) => k = i
    /\ \A i \in DOMAIN o : o[i].type = "start" =>
          o[i].part \in PartsOf(e) /\ PlaceOf(e, o[i].part) = o[i].at
    /\ \A i \in DOMAIN o : o[i].type = "delta" =>
          \E j \in 1 .. i - 1 : At(o, j, "start", o[i].at)

\* Starts and stops alternate, in the order of the places; `stopped` says whether the
\* last one is stopped.
Alternate(e, o, stopped) ==
    LET marks == OfType(o, {"start", "stop"})
    IN  /\ Len(marks) = 2 * e.next - (IF stopped \/ e.next = 0 THEN 0 ELSE 1)
        /\ \A n \in 0 .. e.next - 1 :
              /\ At(marks, 2 * n + 1, "start", n)
              /\ 2 * n + 2 \in DOMAIN marks => At(marks, 2 * n + 2, "stop", n)

\* The messages API's blocks: a block starts when the one before it was
\* stopped, in the order of their indices, a delta names a block that was started, and at the
\* end every block is stopped exactly once (closeOpen, Encode and Finish of
\* anthropicStreamEncoder).
BlocksAlternate ==
    protocol = "anthropic" => StartsOnce(enc, out) /\ Alternate(enc, out, phase = "succeeded")

\* The responses API's items: at the end every item that was added is done, once and after
\* its last delta, and the response lists the items by their output index
\* (Encode and Finish of responsesStreamEncoder).
Completed(e, o) ==
    LET items == o[Len(o)].items
    IN  /\ \A n \in 0 .. e.next - 1 : \E i, j \in DOMAIN o :
              /\ At(o, i, "start", n) /\ At(o, j, "stop", n)
              /\ \A k \in DOMAIN o : o[k].at = n =>
                    /\ o[k].type = "delta" => i < k /\ k < j
                    /\ o[k].type \in {"start", "stop"} => k \in {i, j}
              /\ i < j /\ items[n + 1] = o[i].part
        /\ Len(items) = e.next
ItemsCompleted == protocol = "responses" /\ phase = "succeeded" => Completed(enc, out)

\* An answer ends once, as its last event, and only for a request that counts
\* as a success; an answer that the upstream cut off is never shown as complete, nor
\* a complete one as cut off (Finish of both encoders; [DONE] in
\* performStreamingAttempt).
EndTellsTheTruth ==
    /\ \A i \in DOMAIN out : out[i].type = "end" => i = Len(out) /\ phase = "succeeded"
    /\ phase = "succeeded" /\ Translating =>
          /\ out # <<>> /\ out[Len(out)].type = "end"
          /\ out[Len(out)].what \in {"incomplete", "max_tokens"} <=> enc.finish = "length"

\* A delta is sent for a block that is not open only when the upstream itself went back to
\* a part after it had begun another one (closeOpen of anthropicStreamEncoder).
Returns(q) == \E i, j, k \in DOMAIN q :
                 i < j /\ j < k /\ q[i].part = q[k].part /\ q[j].part # q[i].part
OpenUnlessReturns(o, q) ==
    \A i \in DOMAIN o : o[i].type = "delta" =>
        Returns(q) \/ \A j \in 1 .. i - 1 : ~ At(o, j, "stop", o[i].at)
OpenUnlessUpstreamReturns == protocol = "anthropic" => OpenUnlessReturns(out, said)

----------------------------------------------------------------------------
(* Until the answer is finished more is true of it.                        *)

\* Whatever has a place was mentioned.
Mentioned(e, q) == \A p \in PartsOf(e) : \E i \in DOMAIN q : q[i].part = p

\* A block is stopped because the upstream mentioned another part; an item is not done.
StopsExplained(pr, e, o, q) ==
    \A j \in DOMAIN o : o[j].type = "stop" =>
        /\ pr = "anthropic" /\ o[j].at \in 0 .. e.next - 1
        /\ \E a, b \in DOMAIN q : /\ a < b /\ q[a].part # q[b].part
                                  /\ q[a].part \in PartsOf(e) /\ PlaceOf(e, q[a].part) = o[j].at

\* The first frame starts the answer and changes the encoder for the first time.
FirstFrame(e, o, q) ==
    /\ e.started <=> o # <<>>
    /\ ~ e.started => e = Unused /\ q = <<>>

Answering(pr, e, o, q) ==
    /\ StartsOnce(e, o)
    /\ pr = "anthropic" => Alternate(e, o, FALSE) /\ OpenUnlessReturns(o, q)
    /\ Mentioned(e, q)
    /\ StopsExplained(pr, e, o, q)
    /\ \A i \in DOMAIN o : o[i].type # "end"

Unfinished ==
    /\ Translating /\ phase # "succeeded" =>
          Answering(protocol, enc, out, said) /\ FirstFrame(enc, out, said)
    /\ ~ Translating => /\ enc = Unused
                        /\ out = <<>> => said = <<>>
                        /\ \A i \in DOMAIN out : out[i].type \in {"comment", "raw"}

\* The events of an answer are those of the caller's API, well formed and in its
\* order, at every moment of the stream (Encode and Finish of both encoders).
StreamInv ==
    TypeOK /\ BlocksAlternate /\ OpenUnlessUpstreamReturns /\ ItemsCompleted /\ Unfinished

\* Another attempt begins with a caller who has received nothing and an encoder
\* that has not been used, although the encoder is shared by the attempts
\* (serveStreaming).
RetryIsFresh == [][attempt' # attempt => out = <<>> /\ enc = Unused /\ said = <<>>]_vars
=============================================================================
