---------------------------- MODULE Invitations ----------------------------
(***************************************************************************)
(* How somebody joins a company: the owner invites an email address to     *)
(* groups, the link opens a setup session, the browser signs in at the     *)
(* identity provider, and the callback accepts the invitation, while links *)
(* are sent again, withdrawn and expire and the operator disables people.  *)
(*                                                                         *)
(* The owner's operations exclude each other: they lock the owner's person *)
(* row.  CreateInvitation looks for a person with the address before it    *)
(* reads the clock and locks anything else, and an acceptance can commit   *)
(* in between, so it takes two steps.  AcceptInvitation locks the setup    *)
(* session, the invitation, the identity and the user; the groups it reads *)
(* without a lock, and a group that is disabled meanwhile gives the same   *)
(* rows as one that is disabled right after.                               *)
(*                                                                         *)
(* A setup session belongs to one browser; the state cookie of that        *)
(* browser names its last OIDC transaction.  The 15 minutes of the one and *)
(* the 10 of the other only take steps away, and no step of a browser is   *)
(* owed: one that has expired is one that nobody uses any more.            *)
(***************************************************************************)
EXTENDS Directory, Sequences

CONSTANTS
    Emails,
    Subjects,    \* accounts at the identity provider
    MaxInvs,     \* bound on invitations
    MaxSetups,   \* bound on setup sessions
    MaxTxns,     \* bound on OIDC transactions
    MaxSends,    \* bound on the links of an invitation
    Plans        \* bound on policy changes: the histories that may happen, and their prefixes

\* The policy changes there are.
Ops == {"user", "person", "member", "identity", "group", "people", "provision"}

ASSUME InvitationsAssumption ==
    /\ {MaxInvs, MaxSetups, MaxTxns, MaxSends} \subseteq Nat \ {0}
    /\ Plans \subseteq Seq(Ops)
    /\ None \notin Emails

Invs   == 1 .. MaxInvs
Setups == 1 .. MaxSetups
Txns   == 1 .. MaxTxns

VARIABLES
    inv,       \* [Invs -> Invitation]: human_invitations and their groups
    setup,     \* [Setups -> Setup]: human_action_sessions
    txn,       \* [Txns -> Txn]: oidc_login_transactions and their callbacks
    cookie,    \* [Setups -> Txns or 0]: the state cookie of the setup's browser
    creating,  \* the CreateInvitation under way
    mail,      \* [Users -> Emails or None]: email_normalized
    link,      \* [Subjects -> [state, user]]: human_federated_identities
    session,   \* [Setups -> SessionStates]: the portal session an acceptance opened
    history    \* the policy changes so far

inviteVars == <<inv, setup, txn, cookie, creating>>
identVars  == <<mail, link, session>>
vars == <<dirVars, inviteVars, identVars, history>>

Idle == [email |-> None, groups |-> {}, overlap |-> FALSE]

Invitation == [status : {"none", "pending", "accepted", "revoked", "expired"},
               email : Emails \cup {None}, groups : SUBSET Groups, gen : 0 .. MaxSends,
               old : BOOLEAN, user : Users \cup {None}, overlap : BOOLEAN]
Setup == [state : {"none", "open", "consumed", "revoked"}, inv : 0 .. MaxInvs]
Txn   == [state : {"none", "open", "consumed", "over"}, setup : 0 .. MaxSetups]
SessionStates == {"none", "live", "revoked"}

TypeOK ==
    /\ DirectoryTypeOK
    /\ inv \in [Invs -> Invitation]
    /\ setup \in [Setups -> Setup]
    /\ txn \in [Txns -> Txn]
    /\ cookie \in [Setups -> 0 .. MaxTxns]
    /\ creating \in [email : Emails \cup {None}, groups : SUBSET Groups, overlap : BOOLEAN]
    /\ mail \in [Users -> Emails \cup {None}]
    /\ link \in [Subjects -> [state : Standing, user : Users \cup {None}]]
    /\ session \in [Setups -> SessionStates]
    /\ history \in Seq(Ops)

\* A company whose first user was provisioned: no owner and no groups yet.
Init ==
    /\ \E own \in Users : DirectoryInit(None, {}, {own}, {})
    /\ inv = [i \in Invs |-> [status |-> "none", email |-> None, groups |-> {}, gen |-> 0,
                              old |-> FALSE, user |-> None, overlap |-> FALSE]]
    /\ setup = [s \in Setups |-> [state |-> "none", inv |-> 0]]
    /\ txn = [t \in Txns |-> [state |-> "none", setup |-> 0]]
    /\ cookie = [s \in Setups |-> 0]
    /\ creating = Idle
    /\ mail = [u \in Users |-> None]
    /\ link = [x \in Subjects |-> [state |-> "absent", user |-> None]]
    /\ session = [s \in Setups |-> "none"]
    /\ history = <<>>

\* A new row gets an identifier that no row has.
Unused(f, field) == {n \in DOMAIN f : f[n][field] = "none"}
NextId(f, field) == CHOOSE n \in Unused(f, field) : TRUE

----------------------------------------------------------------------------
(* The owner.                                                              *)

OwnerActs == requireCompanyOwner /\ creating = Idle

\* Mutant: only an enabled person stands in the way.
KnownPersonEnabled(e) == \E u \in Users : mail[u] = e /\ person[u] = "enabled"

\* Somebody with this address is, or was, a person of the company.
KnownPerson(e) == \E u \in Users : mail[u] = e /\ person[u] # "absent"

validateInvitationGroups(gs) == gs # {} /\ \A g \in gs : group[g] = "enabled"

CreateInvitation(e, gs) ==
    /\ OwnerActs
    /\ validateInvitationGroups(gs) /\ ~KnownPerson(e)
    /\ creating' = [email |-> e, groups |-> gs, overlap |-> FALSE]
    /\ UNCHANGED <<dirVars, inv, setup, txn, cookie, identVars, history>>

PendingFor(e, f) == \E i \in Invs : f[i].status = "pending" /\ f[i].email = e

\* Pending invitations that have expired are written off; the new one is refused,
\* and that rolled back, if the address still has one.
InsertInvitation ==
    LET swept == [i \in Invs |-> IF inv[i].status = "pending" /\ inv[i].old
                                 THEN [inv[i] EXCEPT !.status = "expired"] ELSE inv[i]]
        fresh == [status |-> "pending", email |-> creating.email, groups |-> creating.groups,
                  gen |-> 1, old |-> FALSE, user |-> None, overlap |-> creating.overlap] IN
    /\ creating # Idle
    /\ \/ /\ PendingFor(creating.email, swept)
          /\ inv' = inv
       \/ /\ ~PendingFor(creating.email, swept)
          /\ Unused(inv, "status") # {}
          /\ inv' = [swept EXCEPT ![NextId(inv, "status")] = fresh]
    /\ creating' = Idle
    /\ UNCHANGED <<dirVars, setup, txn, cookie, identVars, history>>

\* The connection breaks and the transaction is rolled back.
CreateFails ==
    /\ creating # Idle
    /\ creating' = Idle
    /\ UNCHANGED <<dirVars, inv, setup, txn, cookie, identVars, history>>

\* Pending and not expired; the status that a late call writes is rolled back.
lockInvitation(i) == inv[i].status = "pending" /\ ~inv[i].old

\* A new link; the earlier link opens nothing any more.
ResendInvitation(i) ==
    /\ OwnerActs /\ lockInvitation(i)
    /\ inv[i].gen < MaxSends
    /\ inv' = [inv EXCEPT ![i].gen = @ + 1, ![i].old = FALSE]
    /\ UNCHANGED <<dirVars, setup, txn, cookie, creating, identVars, history>>

RevokeInvitation(i) ==
    /\ OwnerActs /\ lockInvitation(i)
    /\ inv' = [inv EXCEPT ![i].status = "revoked"]
    /\ UNCHANGED <<dirVars, setup, txn, cookie, creating, identVars, history>>

----------------------------------------------------------------------------
(* The invited person's browser.                                           *)

Usable(i) == inv[i].status = "pending" /\ ~inv[i].old

\* Somebody, or something, opens the link of this generation.
BeginInvitationSetup(i, g) ==
    /\ Usable(i) /\ inv[i].gen = g
    /\ Unused(setup, "state") # {}
    /\ setup' = [setup EXCEPT ![NextId(setup, "state")] =
                    [state |-> "open", inv |-> i]]
    /\ UNCHANGED <<dirVars, inv, txn, cookie, creating, identVars, history>>

SetupUsable(s) == setup[s].state = "open" /\ Usable(setup[s].inv)

\* The form is posted: the browser goes to the identity provider.
CreateOIDCTransaction(s) ==
    /\ SetupUsable(s)
    /\ Unused(txn, "state") # {}
    /\ LET t == NextId(txn, "state") IN
       /\ txn' = [txn EXCEPT ![t] = [state |-> "open", setup |-> s]]
       /\ cookie' = [cookie EXCEPT ![s] = t]
    /\ UNCHANGED <<dirVars, inv, setup, creating, identVars, history>>

\* The callback begins: the clock is read, and the state is spent.
ConsumeOIDCTransaction(t) ==
    /\ txn[t].state = "open"
    /\ cookie[txn[t].setup] = t
    /\ SetupUsable(txn[t].setup)
    /\ txn' = [txn EXCEPT ![t].state = "consumed"]
    /\ UNCHANGED <<dirVars, inv, setup, cookie, creating, identVars, history>>

\* Mutant: the answer of the first callback is enough.
StillOpenUnchecked(s) == setup[s].state # "none"

\* Expiry is judged by the clock the callback read when it began.
StillOpen(s) == setup[s].state = "open" /\ inv[setup[s].inv].status = "pending"

\* The account an identity with this address signs in to: the one it is linked
\* to, if its address is the same; else the enabled one with the address; else a
\* new one.  An address is unique, and so is the subject of a link.
Accounts(x, e) ==
    IF link[x].state = "enabled"
    THEN {u \in Users : u = link[x].user /\ user[u] = "enabled" /\ mail[u] = e}
    ELSE IF link[x].state = "disabled" THEN {}
    ELSE {u \in Users : mail[u] = e /\ user[u] = "enabled"} \cup
         {u \in Users : user[u] = "absent" /\ \A y \in Users : mail[y] # e}

\* Mutant: the groups are those of the day of the invitation.
JoinedSnapshot(i) == inv[i].groups

Joined(i) == {g \in inv[i].groups : group[g] = "enabled"}

AcceptInvitation(t, x, e) ==
    LET s == txn[t].setup
        i == setup[s].inv IN
    /\ txn[t].state = "consumed" /\ StillOpen(s)
    /\ e = inv[i].email
    /\ Joined(i) # {}
    /\ \E u \in Accounts(x, e) :
           /\ user' = [user EXCEPT ![u] = "enabled"]
           /\ mail' = [mail EXCEPT ![u] = IF user[u] = "absent" THEN e ELSE @]
           /\ link' = [link EXCEPT ![x] = [state |-> "enabled", user |-> u]]
           /\ member' = [member EXCEPT ![u] = "enabled"]
           /\ person' = [person EXCEPT ![u] = "enabled"]
           /\ people' = [g \in Groups |-> people[g] \cup (IF g \in Joined(i) THEN {u} ELSE {})]
           /\ inv' = [inv EXCEPT ![i].status = "accepted", ![i].user = u]
    /\ setup' = [y \in Setups |->
                    IF y = s THEN [setup[y] EXCEPT !.state = "consumed"]
                    ELSE IF setup[y].state = "open" /\ setup[y].inv = i
                    THEN [setup[y] EXCEPT !.state = "revoked"] ELSE setup[y]]
    /\ txn' = [txn EXCEPT ![t].state = "over"]
    /\ session' = [session EXCEPT ![s] = "live"]
    /\ creating' = IF creating.email = e THEN [creating EXCEPT !.overlap = TRUE] ELSE creating
    /\ UNCHANGED <<owner, group, models, targets, cookie, history>>

\* The exchange fails, the identity is another or its address is not verified, or
\* the invitation cannot be accepted any more.
CallbackFails(t) ==
    /\ txn[t].state = "consumed"
    /\ txn' = [txn EXCEPT ![t].state = "over"]
    /\ UNCHANGED <<dirVars, inv, setup, cookie, creating, identVars, history>>

----------------------------------------------------------------------------
(* Time and policy.                                                        *)

\* The 72 hours of a link are over.
Expires(i) ==
    /\ inv[i].status = "pending" /\ ~inv[i].old
    /\ inv' = [inv EXCEPT ![i].old = TRUE]
    /\ UNCHANGED <<dirVars, setup, txn, cookie, creating, identVars, history>>

SessionsOf(u) == {s \in Setups : session[s] = "live" /\ inv[setup[s].inv].user = u}

\* The triggers on users and memberships.
revoke_human_sessions(u) ==
    [s \in Setups |-> IF s \in SessionsOf(u) THEN "revoked" ELSE session[s]]

Change(op) ==
    /\ \E p \in Plans : Len(history) < Len(p) /\ SubSeq(p, 1, Len(history) + 1) = Append(history, op)
    /\ history' = Append(history, op)

UserDisabled(u) ==
    /\ Change("user") /\ user[u] = "enabled"
    /\ DisableHuman(u)
    /\ session' = revoke_human_sessions(u)
    /\ UNCHANGED <<inviteVars, mail, link>>

MembershipDisabled(u) ==
    /\ Change("member") /\ DisableMembership(u)
    /\ session' = revoke_human_sessions(u)
    /\ UNCHANGED <<inviteVars, mail, link>>

PersonDisabled(u) ==
    /\ Change("person") /\ DisablePerson(u)
    /\ UNCHANGED <<inviteVars, identVars>>

IdentityDisabled(x) ==
    /\ Change("identity") /\ link[x].state = "enabled"
    /\ link' = [link EXCEPT ![x].state = "disabled"]
    /\ UNCHANGED <<dirVars, inviteVars, mail, session>>

Reprovisioned(u) ==
    /\ Change("provision") /\ user[u] = "enabled" /\ ~InStanding(u)
    /\ ProvisionHuman(u)
    /\ UNCHANGED <<inviteVars, identVars>>

GroupCreated(g) ==
    /\ creating = Idle /\ \E as \in SUBSET Aliases : CreateGroup(g, as)
    /\ UNCHANGED <<inviteVars, identVars, history>>

GroupDisabled(g) ==
    /\ Change("group") /\ creating = Idle /\ DisableGroup(g)
    /\ UNCHANGED <<inviteVars, identVars>>

PeopleReplaced(g, us) ==
    /\ Change("people") /\ creating = Idle
    /\ ReplaceGroupPeople(g, us) /\ us # people[g]
    /\ UNCHANGED <<inviteVars, identVars>>

OwnerAssigned(u) ==
    /\ creating = Idle /\ AssignInitialOwner(u)
    /\ UNCHANGED <<inviteVars, identVars, history>>

----------------------------------------------------------------------------
Owner ==
    \/ \E e \in Emails : \E gs \in SUBSET Groups : CreateInvitation(e, gs)
    \/ InsertInvitation \/ CreateFails
    \/ \E i \in Invs : ResendInvitation(i) \/ RevokeInvitation(i)
    \/ \E g \in Groups : \/ GroupCreated(g) \/ GroupDisabled(g)
                         \/ \E us \in SUBSET Users : PeopleReplaced(g, us)

Browser ==
    \/ \E i \in Invs : \E g \in 1 .. MaxSends : BeginInvitationSetup(i, g)
    \/ \E s \in Setups : CreateOIDCTransaction(s)
    \/ \E t \in Txns : \/ ConsumeOIDCTransaction(t) \/ CallbackFails(t)
                       \/ \E x \in Subjects : \E e \in Emails : AcceptInvitation(t, x, e)

Operator ==
    \/ \E u \in Users : \/ OwnerAssigned(u) \/ UserDisabled(u) \/ MembershipDisabled(u)
                        \/ PersonDisabled(u) \/ Reprovisioned(u)
    \/ \E x \in Subjects : IdentityDisabled(x)

Next == Owner \/ Browser \/ Operator \/ \E i \in Invs : Expires(i)

Spec == Init /\ [][Next]_vars

============================================================================
