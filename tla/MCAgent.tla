------------------------------ MODULE MCAgent ------------------------------
(* Small instances of an agent session for TLC. *)
EXTENDS AgentProperties, TLC

CONSTANTS boss, emp, g1, a1, a2, p1, p2

\* Each way of losing access, and the ways back in.
AgentPlans == {<<"person", "provision">>, <<"member", "provision">>, <<"user">>, <<"identity">>,
               <<"groups">>, <<"target">>}

\* The two requests to the proxy differ in nothing but their names.
Interchangeable == Permutations(Requests)
============================================================================
