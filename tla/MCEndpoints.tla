---------------------------- MODULE MCEndpoints ----------------------------
(***************************************************************************)
(* A dedicated endpoint that competes with shared ones for the route of    *)
(* their model.                                                            *)
(***************************************************************************)
EXTENDS EndpointProperties, TLC

CONSTANTS e1, e2, e3, r1, r2, r3, q1, q2, q3

Competing  == e1 :> "dedicated_quote" @@ e2 :> "shared_evaluation"
              @@ e3 :> "shared_subscription"

\* Requests and quotes differ in nothing but their names.
Interchangeable == Permutations(Requests) \cup Permutations(Quotes)
============================================================================
