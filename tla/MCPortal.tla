------------------------------ MODULE MCPortal ------------------------------
(* Two organisations with an owner each, for TLC. *)
EXTENDS PortalProperties, TLC

CONSTANTS ann, bob, cat, o1, o2, r1, r2, acc1, acc2

\* ann owns o1 and is a viewer in o2, which bob owns; cat is a viewer in o1.
UserOfMember == <<ann, ann, cat>>
OrgOfMember  == <<o1, o2, o1>>
OwnersAre    == (o1 :> ann) @@ (o2 :> bob)
OrgsOfAccount == (acc1 :> o1) @@ (acc2 :> o2)

\* The requests differ in nothing but their names.
Interchangeable == Permutations(Requests)
============================================================================
