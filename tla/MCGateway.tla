----------------------------- MODULE MCGateway -----------------------------
(* Small instances of the gateway for TLC. *)
EXTENDS GatewayProperties, TLC

CONSTANTS b1, b2, s1, rtA, rtB, tShared, tOwnA, acme, bolt

\* b1 and s1 are requests of tenant acme, b2 is one of tenant bolt.
MCRouteOf     == [r \in Requests |-> IF r = b2 THEN rtB ELSE rtA]
MCRouteOrg    == [rt \in Routes |-> IF rt = rtA THEN acme ELSE bolt]
\* One shared target, and one dedicated to acme.
MCTargetOwner == [t \in Targets |-> IF t = tOwnA THEN acme ELSE NoOwner]
MCMaxAttempts == [t \in Targets |-> IF t = tShared THEN 3 ELSE 2]
MCTwoAttempts == [t \in Targets |-> 2]
MCInitial     == [rt \in Routes |-> tShared]
============================================================================
