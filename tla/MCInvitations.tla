--------------------------- MODULE MCInvitations ---------------------------
(* A small company for TLC. *)
EXTENDS InvitationProperties, TLC

CONSTANTS boss, n1, n2, g1, g2, a1, e1, e2, s1, s2

\* Each way of being put out, and the way back in.
InvitePlans == {<<"person", "provision">>, <<"member", "provision">>, <<"user">>, <<"identity">>,
                <<"group">>, <<"people">>}

\* Addresses, accounts and groups differ in nothing but their names.
Interchangeable ==
    Permutations(Users) \cup Permutations(Subjects) \cup Permutations(Emails)
        \cup Permutations(Groups)
============================================================================
