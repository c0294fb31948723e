------------------------------ MODULE MCUsage ------------------------------
(* A small instance of the worker and the reports for TLC. *)
EXTENDS UsageProperties

CONSTANTS r1, r2, r3, app, job, gpt, llama

MCActorOf  == [r \in Requests |-> CASE r = r1 -> app [] r = r2 -> job [] r = r3 -> Person]
MCModelOf  == [r \in Requests |-> IF r = r1 THEN gpt ELSE llama]
MCAmountOf == [r \in Requests |-> IF r = r1 THEN 1 ELSE 2]

MCEndings  == {<<"succeeded", "partial">>, <<"succeeded", "final">>, <<"cancelled", "unknown">>}

\* Two processes that probe; two that fail or die under a single request; one
\* whose lookback an hour leaves; one under two applications; one under an
\* application and a person.
MCDeployments ==
    {[workers |-> {1, 2}, probing |-> TRUE,  traffic |-> {},       faults |-> 0, until |-> 3],
     [workers |-> {1, 2}, probing |-> FALSE, traffic |-> {r1},     faults |-> 1, until |-> 3],
     [workers |-> {1},    probing |-> FALSE, traffic |-> {r1},     faults |-> 1, until |-> 5],
     [workers |-> {1},    probing |-> FALSE, traffic |-> {r1, r2}, faults |-> 0, until |-> 3],
     [workers |-> {1},    probing |-> FALSE, traffic |-> {r1, r3}, faults |-> 0, until |-> 2]}
=============================================================================
