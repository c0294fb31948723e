------------------------ MODULE InvitationProperties ------------------------
(***************************************************************************)
(* What invitations promise the owner and the invited person.              *)
(***************************************************************************)
EXTENDS Invitations

\* An invitation lets one setup session in, once, however many browsers opened its
\* links and however many callbacks were under way; then none of its sessions is
\* left open (AcceptInvitation rechecks both rows under lock).
AcceptedOnce ==
    \A i \in Invs :
        LET Of(state) == {s \in Setups : setup[s].inv = i /\ setup[s].state = state} IN
        /\ Cardinality(Of("consumed")) = IF inv[i].status = "accepted" THEN 1 ELSE 0
        /\ inv[i].status = "accepted" => Of("open") = {}

\* An account that has an address got it from an accepted invitation to exactly
\* that address, no two accounts share one, and the user an invitation was accepted
\* by has the invited address, whatever identity signed in and whatever it was linked
\* to before (the comparisons of AcceptInvitation).
JoinedByInvitation ==
    /\ \A i \in Invs : inv[i].status = "accepted" => mail[inv[i].user] = inv[i].email
    /\ \A u \in Users : mail[u] # None =>
           /\ \E i \in Invs : inv[i].status = "accepted" /\ inv[i].user = u
           /\ \A v \in Users \ {u} : mail[v] # mail[u]

\* An address never has two invitations to choose from, though expired ones are
\* only written off when the next is made (CreateInvitation).
OnePendingPerEmail ==
    \A i, j \in Invs :
        inv[i].status = "pending" /\ inv[j].status = "pending" /\ inv[i].email = inv[j].email
            => i = j

\* The portal session that an acceptance opened does not outlive the user or the
\* membership it was opened for, nor does it come back when the membership does
\* (the revocation triggers of migration 0005).
SessionsEndWithStanding ==
    \A s \in Setups : session[s] = "live" =>
        /\ user[inv[setup[s].inv].user] = "enabled"
        /\ member[inv[setup[s].inv].user] = "enabled"

\* A company that has an owner has one who can act: the account and the person stay
\* enabled (DisableHuman against AssignInitialOwner, and the trigger of migration 0012).
OwnerCanAct ==
    owner # None => user[owner] = "enabled" /\ person[owner] = "enabled"

\* Who gets into a group in a step, and through which invitation.
JoinedAsInvited ==
    \A g \in Groups : \A u \in people'[g] \ people[g] :
        /\ group[g] = "enabled"
        /\ \/ history' # history
           \/ \E i \in Invs : /\ inv[i].status = "pending" /\ inv'[i].status = "accepted"
                              /\ g \in inv[i].groups /\ inv'[i].user = u

\* Nobody gets into a group except by the owner's hand or through an invitation
\* that named the group, and not through a group disabled since
\* (AcceptInvitation joins the groups again).
GroupsAsInvited == [][JoinedAsInvited]_vars

\* What lets a disabled person in again in a step.
OverlapLetsIn ==
    \A i \in Invs :
        /\ inv[i].status = "pending" /\ inv'[i].status = "accepted"
        /\ person[inv'[i].user] = "disabled"
        => inv[i].overlap

\* A person the company disabled is not let in again by an acceptance, although it
\* enables the rows it finds: such a person cannot be invited anew.  The exception
\* is an invitation whose making overlapped the acceptance that brought the person
\* in (the check for an existing person comes before the locks).
RejoinOnlyByOverlap == [][OverlapLetsIn]_vars

\* An address that somebody has is one of a person of the company, and an
\* invitation to it, made or in the making, overlapped the acceptance that gave it
\* (the check of CreateInvitation).
AddressesKnown ==
    /\ \A u \in Users :
           /\ user[u] = "absent" => person[u] = "absent" /\ mail[u] = None
           /\ mail[u] # None => person[u] # "absent"
    /\ creating # Idle => creating.email \in Emails
    /\ \A u \in Users : mail[u] # None =>
           /\ mail[u] = creating.email => creating.overlap
           /\ \A i \in Invs : inv[i].status = "pending" /\ inv[i].email = mail[u]
                                   => inv[i].overlap

\* Rows name rows that exist, and a portal session comes from an accepted setup.
RowsSound ==
    /\ \A i \in Invs : /\ inv[i].status # "none" => inv[i].email \in Emails
                       /\ inv[i].status = "accepted" => inv[i].user \in Users
    /\ \A s \in Setups : /\ setup[s].state # "none" => setup[s].inv \in Invs
                         /\ session[s] # "none" => setup[s].state = "consumed"
    /\ \A t \in Txns : txn[t].state # "none" => txn[t].setup \in Setups

\* Invitations, accounts and sessions agree: one open invitation per address, one
\* use of each, by an account that has its address, and no session of somebody
\* who was disabled (CreateInvitation, AcceptInvitation, migration 0005).
InvitationInv ==
    /\ TypeOK /\ RowsSound /\ OnePendingPerEmail /\ AcceptedOnce /\ JoinedByInvitation
    /\ AddressesKnown /\ SessionsEndWithStanding
============================================================================
