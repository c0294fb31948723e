------------------------------- MODULE MCStream -------------------------------
(* Chunks that begin, continue and mix the text and two tool calls.          *)
EXTENDS StreamProperties

Chunked(text, calls, finish) ==
    [choices |-> 1, usage |-> FALSE, text |-> text, calls |-> calls, finish |-> finish,
     ends |-> finish # None]
Call0(id, name, args) == [index |-> 0, id |-> id, name |-> name, args |-> args]
Call1(id, name, args) == [index |-> 1, id |-> id, name |-> name, args |-> args]

MCChunks ==
    {Chunked(FALSE, <<>>, None),                                     \* a role
     Chunked(TRUE, <<>>, None),
     Chunked(FALSE, <<Call0(1, 1, "{")>>, None),
     Chunked(FALSE, <<Call0(0, 0, "}")>>, None),
     Chunked(FALSE, <<Call1(2, 2, None)>>, None),
     Chunked(FALSE, <<Call1(3, 2, "{}")>>, None),
     Chunked(TRUE, <<Call1(2, 2, "{}"), Call0(0, 0, "}")>>, "tool_calls"),
     Chunked(FALSE, <<>>, "stop"),
     Chunked(FALSE, <<>>, "length"),
     [Chunked(FALSE, <<>>, None) EXCEPT !.choices = 0, !.usage = TRUE],
     [Chunked(TRUE, <<>>, None) EXCEPT !.choices = 2, !.ends = TRUE]}
=============================================================================
