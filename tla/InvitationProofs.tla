-------------------------- MODULE InvitationProofs --------------------------
(***************************************************************************)
(* Machine-checked proofs about invitations, for any number of people,     *)
(* addresses, identities, groups, links and browsers.                      *)
(***************************************************************************)
EXTENDS InvitationProperties, TLAPS, FiniteSetTheorems

----------------------------------------------------------------------------
(* What a step does to the rows of the invitations.                        *)

\* No invitation, setup session or address changes.  Accounts come and go, and a
\* session stays live only where user and membership stay enabled.
Elsewhere ==
    /\ UNCHANGED <<inv, setup, creating, mail>>
    /\ \A u \in Users : /\ user'[u] = "absent" => user[u] = "absent" /\ person'[u] = person[u]
                        /\ person'[u] = "absent" => person[u] = "absent"
    /\ \A s \in Setups :
           /\ session'[s] # "none" => session[s] # "none"
           /\ session'[s] = "live" =>
                  /\ session[s] = "live"
                  /\ \A u \in Users : /\ u = inv[setup[s].inv].user
                                      /\ user[u] = "enabled" /\ member[u] = "enabled"
                                      => user'[u] = "enabled" /\ member'[u] = "enabled"

\* Only invitations change: nobody's standing, no setup session, no portal session.
Written == UNCHANGED <<user, person, member, setup, mail, session>>

\* A pending invitation is sent again, withdrawn or gets old.
Edited(i) ==
    /\ Written /\ creating' = creating
    /\ inv[i].status = "pending"
    /\ \E r \in Invitation :
           /\ inv' = [inv EXCEPT ![i] = r]
           /\ r.status \in {"pending", "revoked"} /\ r.email = inv[i].email
           /\ r.overlap = inv[i].overlap

\* The making of an invitation begins, and ends without one or with one.
Asked(e) ==
    /\ Written /\ inv' = inv
    /\ ~KnownPerson(e)
    /\ creating'.email = e
Dropped == Written /\ inv' = inv /\ creating' = Idle
Made(n) ==
    /\ Written /\ creating # Idle /\ creating' = Idle
    /\ inv[n].status = "none"
    /\ \A i \in Invs : i # n =>
           inv'[i] \in {inv[i], [inv[i] EXCEPT !.status = "expired"]}
    /\ \A i \in Invs : i # n /\ inv'[i] # inv[i] => inv[i].status = "pending"
    /\ inv'[n].status = "pending" /\ inv'[n].email = creating.email
    /\ inv'[n].overlap = creating.overlap
    /\ \A i \in Invs : i # n /\ inv'[i].status = "pending" => inv[i].email # creating.email

\* A link is opened.
Opened(n, i) ==
    /\ UNCHANGED <<user, person, member, inv, creating, mail, session>>
    /\ setup[n].state = "none" /\ inv[i].status = "pending"
    /\ setup' = [setup EXCEPT ![n] = [state |-> "open", inv |-> i]]

\* The setup session s accepts the invitation i for the account u.
Accepted(s, i, x, u) ==
    /\ i = setup[s].inv
    /\ setup[s].state = "open" /\ inv[i].status = "pending"
    /\ u \in Accounts(x, inv[i].email)
    /\ user' = [user EXCEPT ![u] = "enabled"]
    /\ mail' = [mail EXCEPT ![u] = IF user[u] = "absent" THEN inv[i].email ELSE @]
    /\ member' = [member EXCEPT ![u] = "enabled"]
    /\ person' = [person EXCEPT ![u] = "enabled"]
    /\ people' = [g \in Groups |-> people[g] \cup (IF g \in Joined(i) THEN {u} ELSE {})]
    /\ inv' = [inv EXCEPT ![i].status = "accepted", ![i].user = u]
    /\ setup' = [y \in Setups |->
                    IF y = s THEN [setup[y] EXCEPT !.state = "consumed"]
                    ELSE IF setup[y].state = "open" /\ setup[y].inv = i
                    THEN [setup[y] EXCEPT !.state = "revoked"] ELSE setup[y]]
    /\ session' = [session EXCEPT ![s] = "live"]
    /\ creating' = IF creating.email = inv[i].email
                   THEN [creating EXCEPT !.overlap = TRUE] ELSE creating
    /\ UNCHANGED <<owner, group>>

Step ==
    \/ Elsewhere \/ Dropped
    \/ \E i \in Invs : Edited(i) \/ Made(i)
    \/ \E e \in Emails : Asked(e)
    \/ \E n \in Setups : \E i \in Invs : Opened(n, i)
    \/ \E s \in Setups : \E i \in Invs : \E x \in Subjects : \E u \in Users : Accepted(s, i, x, u)

\* A new row has an identifier of its table that no row has.
LEMMA NextIdUnused ==
    ASSUME NEW f, NEW field, Unused(f, field) # {}
    PROVE  NextId(f, field) \in DOMAIN f /\ f[NextId(f, field)][field] = "none"
  BY DEF NextId, Unused

\* An acceptance is one of a setup session and an account that exist.
LEMMA AcceptanceSteps ==
    ASSUME TypeOK, RowsSound,
           NEW t \in Txns, NEW x \in Subjects, NEW e \in Emails, AcceptInvitation(t, x, e)
    PROVE  \E s \in Setups : \E i \in Invs : \E u \in Users : Accepted(s, i, x, u)
  <1> DEFINE s == txn[t].setup
             i == setup[s].inv
  <1>1. s \in Setups /\ txn[t].state = "consumed"
    BY DEF AcceptInvitation, RowsSound
  <1>2. setup[s].state = "open" /\ inv[i].status = "pending" /\ i \in Invs
    BY <1>1 DEF AcceptInvitation, StillOpen, RowsSound
  <1>3. e = inv[i].email
    BY DEF AcceptInvitation
  <1>4. PICK u \in Accounts(x, e) :
           /\ user' = [user EXCEPT ![u] = "enabled"]
           /\ mail' = [mail EXCEPT ![u] = IF user[u] = "absent" THEN e ELSE @]
           /\ link' = [link EXCEPT ![x] = [state |-> "enabled", user |-> u]]
           /\ member' = [member EXCEPT ![u] = "enabled"]
           /\ person' = [person EXCEPT ![u] = "enabled"]
           /\ people' = [g \in Groups |-> people[g] \cup (IF g \in Joined(i) THEN {u} ELSE {})]
           /\ inv' = [inv EXCEPT ![i].status = "accepted", ![i].user = u]
    BY DEF AcceptInvitation
  <1>5. u \in Users
    BY DEF Accounts
  <1>6. Accepted(s, i, x, u)
    BY <1>1, <1>2, <1>3, <1>4 DEF AcceptInvitation, Accepted
  <1> HIDE DEF s, i
  <1> QED BY <1>1, <1>2, <1>5, <1>6

\* The making of an invitation ends with one or without one.
LEMMA InsertSteps ==
    ASSUME TypeOK, InsertInvitation
    PROVE  Dropped \/ \E i \in Invs : Made(i)
  <1> DEFINE swept == [i \in Invs |-> IF inv[i].status = "pending" /\ inv[i].old
                                      THEN [inv[i] EXCEPT !.status = "expired"] ELSE inv[i]]
             n == NextId(inv, "status")
             fresh == [status |-> "pending", email |-> creating.email,
                       groups |-> creating.groups, gen |-> 1, old |-> FALSE,
                       user |-> None, overlap |-> creating.overlap]
  <1>0. inv \in [Invs -> Invitation]
    BY DEF TypeOK
  <1>1. Written /\ creating # Idle /\ creating' = Idle
    BY DEF InsertInvitation, Written, dirVars, identVars
  <1>2. CASE inv' = inv
    BY <1>1, <1>2 DEF Dropped
  <1>3. CASE /\ ~PendingFor(creating.email, swept)
             /\ Unused(inv, "status") # {}
             /\ inv' = [swept EXCEPT ![n] = fresh]
    <2>1. n \in Invs /\ inv[n].status = "none"
      BY <1>0, <1>3, NextIdUnused
    <2>2. inv'[n] = fresh /\ \A i \in Invs : i # n => inv'[i] = swept[i]
      BY <1>3, <2>1
    <2>3. \A i \in Invs : swept[i] \in {inv[i], [inv[i] EXCEPT !.status = "expired"]}
      OBVIOUS
    <2>4. \A i \in Invs : swept[i] # inv[i] => inv[i].status = "pending"
      OBVIOUS
    <2>5. \A i \in Invs : swept[i].status = "pending" => inv[i].email # creating.email
      <3>1. SUFFICES ASSUME NEW i \in Invs, swept[i].status = "pending"
                     PROVE  inv[i].email # creating.email
        OBVIOUS
      <3>2. swept[i].email # creating.email
        BY <1>3, <3>1 DEF PendingFor
      <3>3. inv[i] \in Invitation
        BY <1>0
      <3>4. [inv[i] EXCEPT !.status = "expired"].email = inv[i].email
        BY <3>3 DEF Invitation
      <3> QED BY <3>2, <3>4
    <2>6. fresh.status = "pending" /\ fresh.email = creating.email
          /\ fresh.overlap = creating.overlap
      OBVIOUS
    <2> HIDE DEF swept, fresh, n
    <2>7. Made(n)
      BY <1>1, <2>1, <2>2, <2>3, <2>4, <2>5, <2>6 DEF Made
    <2> QED BY <2>1, <2>7
  <1> QED BY <1>2, <1>3 DEF InsertInvitation

\* Every step is one of these.
LEMMA InvitationSteps ==
    ASSUME TypeOK, RowsSound, AddressesKnown, [Next]_vars
    PROVE  Step
  <1>0. /\ inv \in [Invs -> Invitation] /\ setup \in [Setups -> Setup]
        /\ user \in [Users -> Standing] /\ person \in [Users -> Standing]
        /\ member \in [Users -> Standing] /\ session \in [Setups -> SessionStates]
    BY DEF TypeOK, DirectoryTypeOK
  <1>1. UNCHANGED <<user, person, member, inv, setup, creating, mail, session>> => Elsewhere
    BY DEF Elsewhere
  <1>2. ASSUME Owner
        PROVE  Step
    <2>1. ASSUME NEW e \in Emails, NEW gs \in SUBSET Groups, CreateInvitation(e, gs)
          PROVE  Asked(e)
      BY <2>1 DEF CreateInvitation, Asked, Written, dirVars, identVars
    <2>2. CreateFails => Dropped
      BY DEF CreateFails, Dropped, Written, dirVars, identVars
    <2>3. ASSUME NEW i \in Invs, ResendInvitation(i)
          PROVE  Edited(i)
      <3> DEFINE r == [inv[i] EXCEPT !.gen = @ + 1, !.old = FALSE]
      <3>1. inv[i] \in Invitation
        BY <1>0
      <3>2. inv[i].gen + 1 \in 0 .. MaxSends
        BY <2>3, <3>1, InvitationsAssumption DEF ResendInvitation, Invitation
      <3>3. r \in Invitation /\ r.status = inv[i].status /\ r.email = inv[i].email
            /\ r.overlap = inv[i].overlap
        BY <3>1, <3>2 DEF Invitation
      <3>4. inv' = [inv EXCEPT ![i] = r]
        BY <1>0, <2>3 DEF ResendInvitation
      <3>5. inv[i].status = "pending" /\ Written /\ creating' = creating
        BY <2>3 DEF ResendInvitation, lockInvitation, Written, dirVars, identVars
      <3> HIDE DEF r
      <3> QED BY <3>3, <3>4, <3>5 DEF Edited
    <2>4. ASSUME NEW i \in Invs, RevokeInvitation(i)
          PROVE  Edited(i)
      <3> DEFINE r == [inv[i] EXCEPT !.status = "revoked"]
      <3>1. inv[i] \in Invitation
        BY <1>0
      <3>3. r \in Invitation /\ r.status = "revoked" /\ r.email = inv[i].email
            /\ r.overlap = inv[i].overlap
        BY <3>1 DEF Invitation
      <3>4. inv' = [inv EXCEPT ![i] = r]
        BY <1>0, <2>4 DEF RevokeInvitation
      <3>5. inv[i].status = "pending" /\ Written /\ creating' = creating
        BY <2>4 DEF RevokeInvitation, lockInvitation, Written, dirVars, identVars
      <3> HIDE DEF r
      <3> QED BY <3>3, <3>4, <3>5 DEF Edited
    <2>5. ASSUME NEW g \in Groups,
                 \/ GroupCreated(g) \/ GroupDisabled(g)
                 \/ \E us \in SUBSET Users : PeopleReplaced(g, us)
          PROVE  Elsewhere
      BY <1>1, <2>5 DEF GroupCreated, GroupDisabled, PeopleReplaced, CreateGroup, DisableGroup,
             ReplaceGroupPeople, inviteVars, identVars
    <2> QED BY <1>2, <2>1, <2>2, <2>3, <2>4, <2>5, InsertSteps DEF Owner, Step
  <1>3. ASSUME Browser
        PROVE  Step
    <2>1. ASSUME NEW i \in Invs, NEW g, BeginInvitationSetup(i, g)
          PROVE  \E n \in Setups : Opened(n, i)
      <3>1. NextId(setup, "state") \in Setups /\ setup[NextId(setup, "state")].state = "none"
        BY <1>0, <2>1, NextIdUnused DEF BeginInvitationSetup
      <3>2. Opened(NextId(setup, "state"), i)
        BY <2>1, <3>1 DEF BeginInvitationSetup, Opened, Usable, dirVars, identVars
      <3> QED BY <3>1, <3>2
    <2>2. ASSUME NEW s \in Setups, CreateOIDCTransaction(s)
          PROVE  Elsewhere
      BY <1>1, <2>2 DEF CreateOIDCTransaction, dirVars, identVars
    <2>3. ASSUME NEW t \in Txns, ConsumeOIDCTransaction(t) \/ CallbackFails(t)
          PROVE  Elsewhere
      BY <1>1, <2>3 DEF ConsumeOIDCTransaction, CallbackFails, dirVars, identVars
    <2> QED BY <1>3, <2>1, <2>2, <2>3, AcceptanceSteps DEF Browser, Step
  <1>4. ASSUME Operator
        PROVE  Elsewhere
    <2>1. ASSUME NEW u \in Users, OwnerAssigned(u)
          PROVE  Elsewhere
      BY <1>0, <2>1 DEF OwnerAssigned, AssignInitialOwner, inviteVars, identVars, Elsewhere
    <2>2. ASSUME NEW u \in Users, UserDisabled(u)
          PROVE  Elsewhere
      BY <1>0, <2>2 DEF UserDisabled, DisableHuman, MayDisable, revoke_human_sessions, SessionsOf,
             inviteVars, Elsewhere
    <2>3. ASSUME NEW u \in Users, MembershipDisabled(u)
          PROVE  Elsewhere
      BY <1>0, <2>3 DEF MembershipDisabled, DisableMembership, revoke_human_sessions, SessionsOf,
             inviteVars, Elsewhere
    <2>4. ASSUME NEW u \in Users, PersonDisabled(u)
          PROVE  Elsewhere
      <3>1. user' = user /\ person' = [person EXCEPT ![u] = "disabled"] /\ member' = member
            /\ UNCHANGED <<inv, setup, creating, mail, session>> /\ person[u] = "enabled"
        BY <2>4 DEF PersonDisabled, DisablePerson, inviteVars, identVars
      <3>2. user[u] # "absent"
        BY <3>1 DEF AddressesKnown
      <3> QED BY <1>0, <3>1, <3>2 DEF Elsewhere
    <2>5. ASSUME NEW u \in Users, Reprovisioned(u)
          PROVE  Elsewhere
      BY <1>0, <2>5 DEF Reprovisioned, ProvisionHuman, inviteVars, identVars, Elsewhere
    <2>6. ASSUME NEW x \in Subjects, IdentityDisabled(x)
          PROVE  Elsewhere
      BY <1>1, <2>6 DEF IdentityDisabled, dirVars, inviteVars
    <2> QED BY <1>4, <2>1, <2>2, <2>3, <2>4, <2>5, <2>6 DEF Operator
  <1>5. ASSUME NEW i \in Invs, Expires(i)
        PROVE  Edited(i)
    <2> DEFINE r == [inv[i] EXCEPT !.old = TRUE]
    <2>1. inv[i] \in Invitation
      BY <1>0
    <2>3. r \in Invitation /\ r.status = inv[i].status /\ r.email = inv[i].email
          /\ r.overlap = inv[i].overlap
      BY <2>1 DEF Invitation
    <2>4. inv' = [inv EXCEPT ![i] = r]
      BY <1>0, <1>5 DEF Expires
    <2>5. inv[i].status = "pending" /\ Written /\ creating' = creating
      BY <1>5 DEF Expires, Written, dirVars, identVars
    <2> HIDE DEF r
    <2> QED BY <2>3, <2>4, <2>5 DEF Edited
  <1>6. UNCHANGED vars => Elsewhere
    BY <1>1 DEF vars, dirVars, inviteVars, identVars
  <1> QED BY <1>2, <1>3, <1>4, <1>5, <1>6 DEF Next, Step

----------------------------------------------------------------------------
(* Types.                                                                  *)

LEMMA TypeStep ==
    ASSUME TypeOK, RowsSound, [Next]_vars
    PROVE  TypeOK'
  <1>0. /\ inv \in [Invs -> Invitation] /\ setup \in [Setups -> Setup] /\ txn \in [Txns -> Txn]
        /\ user \in [Users -> Standing] /\ person \in [Users -> Standing]
        /\ member \in [Users -> Standing] /\ session \in [Setups -> SessionStates]
        /\ cookie \in [Setups -> 0 .. MaxTxns]
        /\ creating \in [email : Emails \cup {None}, groups : SUBSET Groups, overlap : BOOLEAN]
        /\ mail \in [Users -> Emails \cup {None}]
        /\ link \in [Subjects -> [state : Standing, user : Users \cup {None}]]
        /\ group \in [Groups -> Standing] /\ people \in [Groups -> SUBSET Users]
        /\ models \in [Groups -> SUBSET Aliases] /\ owner \in Users \cup {None}
        /\ history \in Seq(Ops)
    BY DEF TypeOK, DirectoryTypeOK
  <1>1. Idle \in [email : Emails \cup {None}, groups : SUBSET Groups, overlap : BOOLEAN]
    BY DEF Idle
  <1>2. {1, MaxSends} \subseteq 0 .. MaxSends
    BY InvitationsAssumption
  <1>3. ASSUME Owner
        PROVE  TypeOK'
    <2>1. ASSUME NEW e \in Emails, NEW gs \in SUBSET Groups, CreateInvitation(e, gs)
          PROVE  TypeOK'
      <3>1. creating' \in [email : Emails \cup {None}, groups : SUBSET Groups, overlap : BOOLEAN]
        BY <2>1 DEF CreateInvitation
      <3> QED BY <2>1, <3>1 DEF CreateInvitation, dirVars, identVars, TypeOK, DirectoryTypeOK
    <2>2. CASE InsertInvitation
      <3>1. inv' \in [Invs -> Invitation]
        <4> DEFINE swept == [i \in Invs |-> IF inv[i].status = "pending" /\ inv[i].old
                                            THEN [inv[i] EXCEPT !.status = "expired"] ELSE inv[i]]
                   fresh == [status |-> "pending", email |-> creating.email,
                             groups |-> creating.groups, gen |-> 1, old |-> FALSE,
                             user |-> None, overlap |-> creating.overlap]
        <4>1. ASSUME NEW i \in Invs
              PROVE  [inv[i] EXCEPT !.status = "expired"] \in Invitation
          <5>1. inv[i] \in Invitation
            BY <1>0
          <5> QED BY <5>1 DEF Invitation
        <4>2. swept \in [Invs -> Invitation]
          BY <1>0, <4>1
        <4>3. fresh \in Invitation
          BY <1>0, <1>2 DEF Invitation
        <4>4. inv' = inv \/ inv' = [swept EXCEPT ![NextId(inv, "status")] = fresh]
          BY <2>2 DEF InsertInvitation
        <4> HIDE DEF swept, fresh
        <4> QED BY <1>0, <4>2, <4>3, <4>4
      <3> QED BY <1>1, <2>2, <3>1
            DEF InsertInvitation, dirVars, identVars, TypeOK, DirectoryTypeOK
    <2>3. CASE CreateFails
      BY <1>1, <2>3 DEF CreateFails, dirVars, identVars, TypeOK, DirectoryTypeOK
    <2>4. ASSUME NEW i \in Invs, ResendInvitation(i)
          PROVE  TypeOK'
      <3>1. inv[i].gen + 1 \in 0 .. MaxSends
        BY <1>0, <2>4, InvitationsAssumption DEF ResendInvitation, Invitation
      <3>2. inv' \in [Invs -> Invitation]
        <4>1. inv[i] \in Invitation
          BY <1>0
        <4>2. [inv[i] EXCEPT !.gen = @ + 1, !.old = FALSE] \in Invitation
          BY <3>1, <4>1 DEF Invitation
        <4>3. inv' = [inv EXCEPT ![i] = [inv[i] EXCEPT !.gen = @ + 1, !.old = FALSE]]
          BY <1>0, <2>4 DEF ResendInvitation
        <4> QED BY <1>0, <4>2, <4>3
      <3> QED BY <2>4, <3>2 DEF ResendInvitation, dirVars, identVars, TypeOK, DirectoryTypeOK
    <2>5. ASSUME NEW i \in Invs, RevokeInvitation(i)
          PROVE  TypeOK'
      <3>2. inv' \in [Invs -> Invitation]
        <4>1. inv[i] \in Invitation
          BY <1>0
        <4>2. [inv[i] EXCEPT !.status = "revoked"] \in Invitation
          BY <4>1 DEF Invitation
        <4>3. inv' = [inv EXCEPT ![i] = [inv[i] EXCEPT !.status = "revoked"]]
          BY <1>0, <2>5 DEF RevokeInvitation
        <4> QED BY <1>0, <4>2, <4>3
      <3> QED BY <2>5, <3>2 DEF RevokeInvitation, dirVars, identVars, TypeOK, DirectoryTypeOK
    <2>6. ASSUME NEW g \in Groups, GroupCreated(g)
          PROVE  TypeOK'
      <3>0. PICK as \in SUBSET Aliases : CreateGroup(g, as)
        BY <2>6 DEF GroupCreated
      <3>1. group' \in [Groups -> Standing] /\ models' \in [Groups -> SUBSET Aliases]
        BY <1>0, <3>0 DEF CreateGroup, Standing
      <3> QED BY <2>6, <3>0, <3>1 DEF GroupCreated, CreateGroup, inviteVars, identVars, TypeOK,
                 DirectoryTypeOK
    <2>7. ASSUME NEW g \in Groups, GroupDisabled(g)
          PROVE  TypeOK'
      <3>1. group' \in [Groups -> Standing]
        BY <1>0, <2>7 DEF GroupDisabled, DisableGroup, Standing
      <3>2. history' \in Seq(Ops)
        BY <1>0, <2>7 DEF GroupDisabled, Change, Ops
      <3> QED BY <2>7, <3>1, <3>2 DEF GroupDisabled, DisableGroup, inviteVars, identVars, TypeOK,
                 DirectoryTypeOK
    <2>8. ASSUME NEW g \in Groups, NEW us \in SUBSET Users, PeopleReplaced(g, us)
          PROVE  TypeOK'
      <3>1. people' \in [Groups -> SUBSET Users]
        BY <1>0, <2>8 DEF PeopleReplaced, ReplaceGroupPeople
      <3>2. history' \in Seq(Ops)
        BY <1>0, <2>8 DEF PeopleReplaced, Change, Ops
      <3> QED BY <2>8, <3>1, <3>2 DEF PeopleReplaced, ReplaceGroupPeople, inviteVars, identVars,
                 TypeOK, DirectoryTypeOK
    <2> QED BY <1>3, <2>1, <2>2, <2>3, <2>4, <2>5, <2>6, <2>7, <2>8 DEF Owner
  <1>4. ASSUME Browser
        PROVE  TypeOK'
    <2>1. ASSUME NEW i \in Invs, NEW g, BeginInvitationSetup(i, g)
          PROVE  TypeOK'
      <3>1. [state |-> "open", inv |-> i] \in Setup
        BY InvitationsAssumption DEF Setup, Invs
      <3>2. setup' \in [Setups -> Setup]
        BY <1>0, <2>1, <3>1 DEF BeginInvitationSetup
      <3> QED BY <2>1, <3>2 DEF BeginInvitationSetup, dirVars, identVars, TypeOK, DirectoryTypeOK
    <2>2. ASSUME NEW s \in Setups, CreateOIDCTransaction(s)
          PROVE  TypeOK'
      <3>1. NextId(txn, "state") \in Txns
        BY <1>0, <2>2, NextIdUnused DEF CreateOIDCTransaction
      <3>2. NextId(txn, "state") \in 0 .. MaxTxns /\ s \in 0 .. MaxSetups
        BY <3>1, InvitationsAssumption DEF Txns, Setups
      <3>3. [state |-> "open", setup |-> s] \in Txn
        BY <3>2 DEF Txn
      <3>4. txn' \in [Txns -> Txn] /\ cookie' \in [Setups -> 0 .. MaxTxns]
        BY <1>0, <2>2, <3>2, <3>3 DEF CreateOIDCTransaction
      <3> QED BY <2>2, <3>4 DEF CreateOIDCTransaction, dirVars, identVars, TypeOK, DirectoryTypeOK
    <2>3. ASSUME NEW t \in Txns, ConsumeOIDCTransaction(t) \/ CallbackFails(t)
          PROVE  TypeOK'
      <3>1. txn' \in [Txns -> Txn]
        <4>1. txn[t] \in Txn
          BY <1>0
        <4>2. /\ [txn[t] EXCEPT !.state = "consumed"] \in Txn
              /\ [txn[t] EXCEPT !.state = "over"] \in Txn
          BY <4>1 DEF Txn
        <4>3. \/ txn' = [txn EXCEPT ![t] = [txn[t] EXCEPT !.state = "consumed"]]
              \/ txn' = [txn EXCEPT ![t] = [txn[t] EXCEPT !.state = "over"]]
          BY <1>0, <2>3 DEF ConsumeOIDCTransaction, CallbackFails
        <4> QED BY <1>0, <4>2, <4>3
      <3> QED BY <2>3, <3>1 DEF ConsumeOIDCTransaction, CallbackFails, dirVars, identVars, TypeOK,
                 DirectoryTypeOK
    <2>4. ASSUME NEW t \in Txns, NEW x \in Subjects, NEW e \in Emails, AcceptInvitation(t, x, e)
          PROVE  TypeOK'
      <3>1. PICK s \in Setups, i \in Invs, u \in Users : Accepted(s, i, x, u)
        BY <2>4, AcceptanceSteps
      <3>2. inv[i].email \in Emails
        BY <3>1 DEF Accepted, RowsSound
      <3>3. /\ user' \in [Users -> Standing] /\ person' \in [Users -> Standing]
            /\ member' \in [Users -> Standing]
        BY <1>0, <3>1 DEF Accepted, Standing
      <3>4. mail' \in [Users -> Emails \cup {None}]
        BY <1>0, <3>1, <3>2 DEF Accepted
      <3>5. people' \in [Groups -> SUBSET Users]
        BY <1>0, <3>1 DEF Accepted
      <3>6. inv' \in [Invs -> Invitation]
        <4>1. inv[i] \in Invitation
          BY <1>0
        <4>2. [inv[i] EXCEPT !.status = "accepted", !.user = u] \in Invitation
          BY <4>1 DEF Invitation
        <4>3. inv' = [inv EXCEPT ![i] = [inv[i] EXCEPT !.status = "accepted", !.user = u]]
          BY <1>0, <3>1 DEF Accepted
        <4> QED BY <1>0, <4>2, <4>3
      <3>7. setup' \in [Setups -> Setup]
        BY <1>0, <3>1 DEF Accepted, Setup
      <3>8. session' \in [Setups -> SessionStates]
        BY <1>0, <3>1 DEF Accepted, SessionStates
      <3>9. creating' \in [email : Emails \cup {None}, groups : SUBSET Groups, overlap : BOOLEAN]
        BY <1>0, <3>1 DEF Accepted
      <3>10. txn' \in [Txns -> Txn]
        <4>1. txn[t] \in Txn
          BY <1>0
        <4>2. [txn[t] EXCEPT !.state = "over"] \in Txn
          BY <4>1 DEF Txn
        <4>3. txn' = [txn EXCEPT ![t] = [txn[t] EXCEPT !.state = "over"]]
          BY <1>0, <2>4 DEF AcceptInvitation
        <4> QED BY <1>0, <4>2, <4>3
      <3>11. link' \in [Subjects -> [state : Standing, user : Users \cup {None}]]
        <4>1. PICK y \in Users : link' = [link EXCEPT ![x] = [state |-> "enabled", user |-> y]]
          BY <2>4 DEF AcceptInvitation, Accounts
        <4>2. [state |-> "enabled", user |-> y] \in [state : Standing, user : Users \cup {None}]
          BY DEF Standing
        <4> QED BY <1>0, <4>1, <4>2
      <3> QED BY <2>4, <3>3, <3>4, <3>5, <3>6, <3>7, <3>8, <3>9, <3>10, <3>11, ZenonT(40)
            DEF AcceptInvitation, TypeOK, DirectoryTypeOK
    <2> QED BY <1>4, <2>1, <2>2, <2>3, <2>4 DEF Browser
  <1>5. ASSUME Operator
        PROVE  TypeOK'
    <2>1. ASSUME NEW u \in Users, OwnerAssigned(u)
          PROVE  TypeOK'
      <3>1. person' \in [Users -> Standing]
        BY <1>0, <2>1 DEF OwnerAssigned, AssignInitialOwner, Standing
      <3> QED BY <2>1, <3>1 DEF OwnerAssigned, AssignInitialOwner, inviteVars, identVars, TypeOK,
                 DirectoryTypeOK
    <2>2. ASSUME NEW u \in Users, UserDisabled(u)
          PROVE  TypeOK'
      <3>1. user' \in [Users -> Standing] /\ session' \in [Setups -> SessionStates]
        BY <1>0, <2>2 DEF UserDisabled, DisableHuman, Standing, revoke_human_sessions, SessionStates
      <3>2. history' \in Seq(Ops)
        BY <1>0, <2>2 DEF UserDisabled, Change, Ops
      <3> QED BY <2>2, <3>1, <3>2 DEF UserDisabled, DisableHuman, inviteVars, TypeOK,
                 DirectoryTypeOK
    <2>3. ASSUME NEW u \in Users, MembershipDisabled(u)
          PROVE  TypeOK'
      <3>1. member' \in [Users -> Standing] /\ session' \in [Setups -> SessionStates]
        BY <1>0, <2>3 DEF MembershipDisabled, DisableMembership, Standing, revoke_human_sessions,
           SessionStates
      <3>2. history' \in Seq(Ops)
        BY <1>0, <2>3 DEF MembershipDisabled, Change, Ops
      <3> QED BY <2>3, <3>1, <3>2 DEF MembershipDisabled, DisableMembership, inviteVars, TypeOK,
                 DirectoryTypeOK
    <2>4. ASSUME NEW u \in Users, PersonDisabled(u)
          PROVE  TypeOK'
      <3>1. person' \in [Users -> Standing]
        BY <1>0, <2>4 DEF PersonDisabled, DisablePerson, Standing
      <3>2. history' \in Seq(Ops)
        BY <1>0, <2>4 DEF PersonDisabled, Change, Ops
      <3> QED BY <2>4, <3>1, <3>2 DEF PersonDisabled, DisablePerson, inviteVars, identVars, TypeOK,
                 DirectoryTypeOK
    <2>5. ASSUME NEW u \in Users, Reprovisioned(u)
          PROVE  TypeOK'
      <3>1. /\ user' \in [Users -> Standing] /\ person' \in [Users -> Standing]
            /\ member' \in [Users -> Standing]
        BY <1>0, <2>5 DEF Reprovisioned, ProvisionHuman, Standing
      <3>2. history' \in Seq(Ops)
        BY <1>0, <2>5 DEF Reprovisioned, Change, Ops
      <3> QED BY <2>5, <3>1, <3>2 DEF Reprovisioned, ProvisionHuman, inviteVars, identVars, TypeOK,
                 DirectoryTypeOK
    <2>6. ASSUME NEW x \in Subjects, IdentityDisabled(x)
          PROVE  TypeOK'
      <3>1. link' \in [Subjects -> [state : Standing, user : Users \cup {None}]]
        <4>1. link[x] \in [state : Standing, user : Users \cup {None}]
          BY <1>0
        <4>2. [link[x] EXCEPT !.state = "disabled"] \in [state : Standing, user : Users \cup {None}]
          BY <4>1 DEF Standing
        <4>3. link' = [link EXCEPT ![x] = [link[x] EXCEPT !.state = "disabled"]]
          BY <1>0, <2>6 DEF IdentityDisabled
        <4> QED BY <1>0, <4>2, <4>3
      <3>2. history' \in Seq(Ops)
        BY <1>0, <2>6 DEF IdentityDisabled, Change, Ops
      <3> QED BY <2>6, <3>1, <3>2 DEF IdentityDisabled, dirVars, inviteVars, TypeOK,
                 DirectoryTypeOK
    <2> QED BY <1>5, <2>1, <2>2, <2>3, <2>4, <2>5, <2>6 DEF Operator
  <1>6. ASSUME NEW i \in Invs, Expires(i)
        PROVE  TypeOK'
    <2>1. inv' \in [Invs -> Invitation]
      <3>1. inv[i] \in Invitation
        BY <1>0
      <3>2. [inv[i] EXCEPT !.old = TRUE] \in Invitation
        BY <3>1 DEF Invitation
      <3>3. inv' = [inv EXCEPT ![i] = [inv[i] EXCEPT !.old = TRUE]]
        BY <1>0, <1>6 DEF Expires
      <3> QED BY <1>0, <3>2, <3>3
    <2> QED BY <1>6, <2>1 DEF Expires, dirVars, identVars, TypeOK, DirectoryTypeOK
  <1>7. CASE UNCHANGED vars
    BY <1>7 DEF vars, dirVars, inviteVars, identVars, TypeOK, DirectoryTypeOK
  <1> QED BY <1>3, <1>4, <1>5, <1>6, <1>7 DEF Next

----------------------------------------------------------------------------
(* Invitations and setup sessions.                                         *)

\* AcceptedOnce without counting: consumed sessions are those of accepted
\* invitations, one each, and no accepted invitation has an open one.
UsedOnce ==
    /\ \A s \in Setups : setup[s].state = "consumed" => inv[setup[s].inv].status = "accepted"
    /\ \A s, y \in Setups :
           /\ setup[s].state = "consumed" /\ setup[y].state = "consumed"
           /\ setup[s].inv = setup[y].inv
           => s = y
    /\ \A i \in Invs : inv[i].status = "accepted" =>
           /\ \E s \in Setups : setup[s].inv = i /\ setup[s].state = "consumed"
           /\ \A s \in Setups : setup[s].inv = i => setup[s].state # "open"

LEMMA CountingUses ==
    ASSUME RowsSound
    PROVE  AcceptedOnce <=> UsedOnce
  <1> DEFINE Of(i, state) == {s \in Setups : setup[s].inv = i /\ setup[s].state = state}
  <1>0. \A s \in Setups : setup[s].state = "consumed" => setup[s].inv \in Invs
    BY DEF RowsSound
  <1>1. \A i \in Invs : IsFiniteSet(Of(i, "consumed"))
    <2>1. IsFiniteSet(Setups)
      BY InvitationsAssumption, FS_Interval DEF Setups
    <2> QED BY <2>1, FS_Subset
  <1>2. ASSUME NEW i \in Invs
        PROVE  /\ Cardinality(Of(i, "consumed")) = 0 <=> Of(i, "consumed") = {}
               /\ Cardinality(Of(i, "consumed")) = 1 <=>
                      \E s : Of(i, "consumed") = {s}
    <2>1. IsFiniteSet(Of(i, "consumed"))
      BY <1>1
    <2>2. Cardinality(Of(i, "consumed")) = 0 <=> Of(i, "consumed") = {}
      BY <2>1, FS_EmptySet
    <2> HIDE DEF Of
    <2>3. Cardinality(Of(i, "consumed")) = 1 <=> \E s : Of(i, "consumed") = {s}
      BY <2>1, FS_Singleton, Zenon
    <2> QED BY <2>2, <2>3
  <1>3. ASSUME AcceptedOnce
        PROVE  UsedOnce
    <2>1. \A i \in Invs : inv[i].status # "accepted" => Of(i, "consumed") = {}
      BY <1>2, <1>3 DEF AcceptedOnce
    <2>2. \A i \in Invs : inv[i].status = "accepted" => \E s : Of(i, "consumed") = {s}
      BY <1>2, <1>3 DEF AcceptedOnce
    <2>3. \A i \in Invs : inv[i].status = "accepted" => Of(i, "open") = {}
      BY <1>3 DEF AcceptedOnce
    <2>4. \A s \in Setups : setup[s].state = "consumed" => inv[setup[s].inv].status = "accepted"
      BY <1>0, <2>1
    <2>5. ASSUME NEW s \in Setups, NEW y \in Setups,
                 setup[s].state = "consumed", setup[y].state = "consumed",
                 setup[s].inv = setup[y].inv
          PROVE  s = y
      <3>1. s \in Of(setup[s].inv, "consumed") /\ y \in Of(setup[s].inv, "consumed")
        BY <2>5
      <3>2. \E z : Of(setup[s].inv, "consumed") = {z}
        BY <1>0, <2>2, <2>4, <2>5
      <3> HIDE DEF Of
      <3> QED BY <3>1, <3>2
    <2>6. ASSUME NEW i \in Invs, inv[i].status = "accepted"
          PROVE  /\ \E s \in Setups : setup[s].inv = i /\ setup[s].state = "consumed"
                 /\ \A s \in Setups : setup[s].inv = i => setup[s].state # "open"
      <3>1. Of(i, "consumed") # {} /\ Of(i, "open") = {}
        BY <2>2, <2>3, <2>6
      <3> QED BY <3>1
    <2> QED BY <2>4, <2>5, <2>6 DEF UsedOnce
  <1>4. ASSUME UsedOnce
        PROVE  AcceptedOnce
    <2>1. ASSUME NEW i \in Invs
          PROVE  /\ Cardinality(Of(i, "consumed")) = IF inv[i].status = "accepted" THEN 1 ELSE 0
                 /\ inv[i].status = "accepted" => Of(i, "open") = {}
      <3>1. CASE inv[i].status = "accepted"
        <4>1. PICK s \in Setups : setup[s].inv = i /\ setup[s].state = "consumed"
          BY <1>4, <3>1 DEF UsedOnce
        <4>2. Of(i, "consumed") = {s}
          BY <1>4, <4>1 DEF UsedOnce
        <4>3. Of(i, "open") = {}
          BY <1>4, <3>1 DEF UsedOnce
        <4> HIDE DEF Of
        <4> QED BY <1>2, <3>1, <4>2, <4>3
      <3>2. CASE inv[i].status # "accepted"
        <4>1. Of(i, "consumed") = {}
          BY <1>4, <3>2 DEF UsedOnce
        <4> HIDE DEF Of
        <4> QED BY <1>2, <3>2, <4>1
      <3> QED BY <3>1, <3>2
    <2> QED BY <2>1 DEF AcceptedOnce
  <1> QED BY <1>3, <1>4

\* What the kinds of step do to the invitations: the ones they do not make, accept
\* or write off stay as they are.
LEMMA InvitationsKept ==
    ASSUME TypeOK, NEW i \in Invs
    PROVE  /\ (Edited(i) \/ Made(i)) => \A j \in Invs \ {i} :
                  /\ inv'[j].email = inv[j].email /\ inv'[j].overlap = inv[j].overlap
                  /\ inv'[j].user = inv[j].user
                  /\ \/ inv'[j].status = inv[j].status
                     \/ inv[j].status = "pending" /\ inv'[j].status = "expired"
           /\ Edited(i) => /\ inv[i].status = "pending"
                           /\ inv'[i].status \in {"pending", "revoked"}
                           /\ inv'[i].email = inv[i].email /\ inv'[i].overlap = inv[i].overlap
           /\ \A s \in Setups : \A x \in Subjects : \A u \in Users : Accepted(s, i, x, u) =>
                  /\ \A j \in Invs \ {i} : inv'[j] = inv[j]
                  /\ inv'[i].status = "accepted" /\ inv'[i].user = u
                  /\ inv'[i].email = inv[i].email
  <1>0. inv \in [Invs -> Invitation] /\ inv[i] \in Invitation
    BY DEF TypeOK
  <1>1. Edited(i) => /\ \A j \in Invs \ {i} : inv'[j] = inv[j]
                     /\ inv[i].status = "pending"
                     /\ inv'[i].status \in {"pending", "revoked"}
                     /\ inv'[i].email = inv[i].email /\ inv'[i].overlap = inv[i].overlap
    BY <1>0 DEF Edited
  <1>2. ASSUME NEW j \in Invs
        PROVE  LET r == [inv[j] EXCEPT !.status = "expired"] IN
               r.email = inv[j].email /\ r.overlap = inv[j].overlap /\ r.user = inv[j].user
               /\ r.status = "expired"
    <2>1. inv[j] \in Invitation
      BY <1>0
    <2> QED BY <2>1 DEF Invitation
  <1>3. ASSUME Made(i), NEW j \in Invs \ {i}
        PROVE  /\ inv'[j].email = inv[j].email /\ inv'[j].overlap = inv[j].overlap
               /\ inv'[j].user = inv[j].user
               /\ \/ inv'[j].status = inv[j].status
                  \/ inv[j].status = "pending" /\ inv'[j].status = "expired"
    <2>1. CASE inv'[j] = inv[j]
      BY <2>1
    <2>2. CASE inv'[j] = [inv[j] EXCEPT !.status = "expired"] /\ inv'[j] # inv[j]
      <3>1. inv[j].status = "pending"
        BY <1>3, <2>2 DEF Made
      <3> QED BY <1>2, <2>2, <3>1
    <2> QED BY <1>3, <2>1, <2>2 DEF Made
  <1>4. ASSUME NEW s \in Setups, NEW x \in Subjects, NEW u \in Users, Accepted(s, i, x, u)
        PROVE  /\ \A j \in Invs \ {i} : inv'[j] = inv[j]
               /\ inv'[i].status = "accepted" /\ inv'[i].user = u
               /\ inv'[i].email = inv[i].email
    <2>1. inv' = [inv EXCEPT ![i] = [inv[i] EXCEPT !.status = "accepted", !.user = u]]
      BY <1>0, <1>4 DEF Accepted
    <2>2. inv'[i] = [inv[i] EXCEPT !.status = "accepted", !.user = u]
      BY <1>0, <2>1
    <2>3. \A j \in Invs \ {i} : inv'[j] = inv[j]
      BY <1>0, <2>1
    <2> QED BY <1>0, <2>2, <2>3 DEF Invitation
  <1> QED BY <1>1, <1>3, <1>4

\* An acceptance consumes its setup session and closes the others of its invitation.
LEMMA SetupsKept ==
    ASSUME TypeOK, NEW s \in Setups, NEW i \in Invs, NEW x \in Subjects, NEW u \in Users,
           Accepted(s, i, x, u)
    PROVE  /\ setup'[s].state = "consumed" /\ setup'[s].inv = i
           /\ \A y \in Setups : setup'[y].inv = setup[y].inv
           /\ \A y \in Setups \ {s} :
                  \/ /\ setup'[y].state = setup[y].state
                     /\ ~(setup[y].state = "open" /\ setup[y].inv = i)
                  \/ setup[y].state = "open" /\ setup[y].inv = i /\ setup'[y].state = "revoked"
  <1>0. \A y \in Setups : setup[y] \in Setup
    BY DEF TypeOK
  <1>1. ASSUME NEW y \in Setups
        PROVE  LET c == [setup[y] EXCEPT !.state = "consumed"]
                   r == [setup[y] EXCEPT !.state = "revoked"] IN
               c.state = "consumed" /\ c.inv = setup[y].inv
               /\ r.state = "revoked" /\ r.inv = setup[y].inv
    BY <1>0 DEF Setup
  <1>2. /\ i = setup[s].inv
        /\ setup'[s] = [setup[s] EXCEPT !.state = "consumed"]
        /\ \A y \in Setups \ {s} :
               setup'[y] = IF setup[y].state = "open" /\ setup[y].inv = i
                           THEN [setup[y] EXCEPT !.state = "revoked"] ELSE setup[y]
    BY DEF Accepted
  <1>3. ASSUME NEW y \in Setups \ {s}
        PROVE  /\ setup'[y].inv = setup[y].inv
               /\ \/ /\ setup'[y].state = setup[y].state
                     /\ ~(setup[y].state = "open" /\ setup[y].inv = i)
                  \/ setup[y].state = "open" /\ setup[y].inv = i /\ setup'[y].state = "revoked"
    BY <1>1, <1>2, ZenonT(40)
  <1>4. setup'[s].state = "consumed" /\ setup'[s].inv = i
    BY <1>1, <1>2
  <1> QED BY <1>2, <1>3, <1>4

LEMMA OnePendingStep ==
    ASSUME TypeOK, OnePendingPerEmail, Step
    PROVE  OnePendingPerEmail'
  <1>1. inv' = inv => OnePendingPerEmail'
    BY DEF OnePendingPerEmail
  <1>2. ASSUME NEW i \in Invs, Edited(i)
        PROVE  OnePendingPerEmail'
    BY <1>2, InvitationsKept DEF OnePendingPerEmail
  <1>3. ASSUME NEW n \in Invs, Made(n)
        PROVE  OnePendingPerEmail'
    <2>1. /\ inv'[n].email = creating.email
          /\ \A j \in Invs \ {n} : inv'[j].status = "pending" =>
                 inv[j].email # creating.email
      BY <1>3 DEF Made
    <2>2. \A j \in Invs \ {n} : inv'[j].email = inv[j].email
              /\ (inv'[j].status = "pending" => inv[j].status = "pending")
      BY <1>3, InvitationsKept
    <2> QED BY <2>1, <2>2 DEF OnePendingPerEmail
  <1>4. ASSUME NEW s \in Setups, NEW i \in Invs, NEW x \in Subjects, NEW u \in Users,
               Accepted(s, i, x, u)
        PROVE  OnePendingPerEmail'
    <2>1. inv'[i].status = "accepted" /\ \A j \in Invs \ {i} : inv'[j] = inv[j]
      BY <1>4, InvitationsKept
    <2> QED BY <2>1 DEF OnePendingPerEmail
  <1> QED BY <1>1, <1>2, <1>3, <1>4 DEF Step, Elsewhere, Dropped, Asked, Opened

LEMMA UsedOnceStep ==
    ASSUME TypeOK, RowsSound, UsedOnce, Step
    PROVE  UsedOnce'
  <1>0. \A s \in Setups : setup[s].state # "none" => setup[s].inv \in Invs
    BY DEF RowsSound
  <1>1. inv' = inv /\ setup' = setup => UsedOnce'
    BY DEF UsedOnce
  <1>2. ASSUME NEW n \in Invs, Edited(n) \/ Made(n)
        PROVE  UsedOnce'
    <2>1. setup' = setup
      BY <1>2 DEF Edited, Made, Written
    <2>2. \A i \in Invs : inv'[i].status = "accepted" <=> inv[i].status = "accepted"
      BY <1>2, InvitationsKept DEF Made
    <2> QED BY <1>0, <2>1, <2>2 DEF UsedOnce
  <1>3. ASSUME NEW n \in Setups, NEW i \in Invs, Opened(n, i)
        PROVE  UsedOnce'
    <2>1. /\ inv' = inv /\ inv[i].status = "pending" /\ setup[n].state = "none"
          /\ setup'[n].state = "open" /\ setup'[n].inv = i
          /\ \A s \in Setups \ {n} : setup'[s] = setup[s]
      BY <1>3 DEF Opened, TypeOK
    <2> QED BY <2>1 DEF UsedOnce
  <1>4. ASSUME NEW s \in Setups, NEW i \in Invs, NEW x \in Subjects, NEW u \in Users,
               Accepted(s, i, x, u)
        PROVE  UsedOnce'
    <2>1. inv'[i].status = "accepted" /\ \A j \in Invs \ {i} : inv'[j] = inv[j]
      BY <1>4, InvitationsKept
    <2>2. inv[i].status = "pending"
      BY <1>4 DEF Accepted
    <2>3. /\ setup'[s].state = "consumed" /\ setup'[s].inv = i
          /\ \A y \in Setups : setup'[y].inv = setup[y].inv
          /\ \A y \in Setups \ {s} :
                 \/ /\ setup'[y].state = setup[y].state
                    /\ ~(setup[y].state = "open" /\ setup[y].inv = i)
                 \/ setup[y].state = "open" /\ setup[y].inv = i /\ setup'[y].state = "revoked"
      BY <1>4, SetupsKept
    <2>4. \A y \in Setups \ {s} : setup'[y].state = "consumed" =>
              setup[y].state = "consumed" /\ setup[y].inv # i
      BY <2>2, <2>3 DEF UsedOnce
    <2>5. setup[s].state = "open"
      BY <1>4 DEF Accepted
    <2>6. ASSUME NEW y \in Setups, setup'[y].state = "consumed"
          PROVE  inv'[setup'[y].inv].status = "accepted"
      BY <1>0, <2>1, <2>3, <2>4, <2>6 DEF UsedOnce
    <2>7. ASSUME NEW y \in Setups, NEW z \in Setups, setup'[y].state = "consumed",
                 setup'[z].state = "consumed", setup'[y].inv = setup'[z].inv
          PROVE  y = z
      BY <2>3, <2>4, <2>7 DEF UsedOnce
    <2>8. ASSUME NEW j \in Invs, inv'[j].status = "accepted"
          PROVE  /\ \E y \in Setups : setup'[y].inv = j /\ setup'[y].state = "consumed"
                 /\ \A y \in Setups : setup'[y].inv = j => setup'[y].state # "open"
      <3>1. CASE j = i
        BY <2>3, <3>1
      <3>2. CASE j # i
        <4>1. inv[j].status = "accepted"
          BY <2>1, <2>8, <3>2
        <4>2. PICK y \in Setups : setup[y].inv = j /\ setup[y].state = "consumed"
          BY <4>1 DEF UsedOnce
        <4>3. setup'[y].inv = j /\ setup'[y].state = "consumed"
          BY <2>3, <2>5, <4>2
        <4>4. \A z \in Setups : setup'[z].inv = j => setup'[z].state # "open"
          BY <2>3, <4>1 DEF UsedOnce
        <4> QED BY <4>3, <4>4
      <3> QED BY <3>1, <3>2
    <2> QED BY <2>6, <2>7, <2>8 DEF UsedOnce
  <1> QED BY <1>1, <1>2, <1>3, <1>4 DEF Step, Elsewhere, Dropped, Asked, Written

\* What an acceptance does to addresses: an account that had none may get the one
\* of the invitation, which nobody else has.
LEMMA AddressGiven ==
    ASSUME TypeOK, RowsSound, AddressesKnown,
           NEW s \in Setups, NEW i \in Invs, NEW x \in Subjects, NEW u \in Users,
           Accepted(s, i, x, u)
    PROVE  /\ mail'[u] = inv[i].email /\ inv[i].email \in Emails
           /\ \A v \in Users \ {u} : mail'[v] = mail[v]
           /\ \/ mail' = mail /\ user[u] = "enabled"
              \/ /\ user[u] = "absent" /\ mail[u] = None /\ person[u] = "absent"
                 /\ \A v \in Users : mail[v] # inv[i].email
  <1>0. mail \in [Users -> Emails \cup {None}]
    BY DEF TypeOK
  <1>1. inv[i].email \in Emails
    BY DEF Accepted, RowsSound
  <1>2. mail' = [mail EXCEPT ![u] = IF user[u] = "absent" THEN inv[i].email ELSE mail[u]]
    BY DEF Accepted
  <1>3. \/ mail[u] = inv[i].email /\ user[u] = "enabled"
        \/ user[u] = "absent" /\ \A v \in Users : mail[v] # inv[i].email
    BY DEF Accepted, Accounts
  <1>4. user[u] = "absent" => mail[u] = None /\ person[u] = "absent"
    BY DEF AddressesKnown
  <1> QED BY <1>0, <1>1, <1>2, <1>3, <1>4

LEMMA JoinedStep ==
    ASSUME TypeOK, RowsSound, AddressesKnown, JoinedByInvitation, Step
    PROVE  JoinedByInvitation'
  <1>0. None \notin Emails
    BY InvitationsAssumption
  <1>1. inv' = inv /\ mail' = mail => JoinedByInvitation'
    BY DEF JoinedByInvitation
  <1>2. ASSUME NEW n \in Invs, Edited(n) \/ Made(n)
        PROVE  JoinedByInvitation'
    <2>1. mail' = mail
      BY <1>2 DEF Edited, Made, Written
    <2>2. \A i \in Invs : inv'[i].status = "accepted" => inv[i].status = "accepted" /\ i # n
      BY <1>2, InvitationsKept DEF Made
    <2>3. \A i \in Invs : inv[i].status = "accepted" => inv'[i].status = "accepted" /\ i # n
      BY <1>2, InvitationsKept DEF Made
    <2>4. \A i \in Invs \ {n} : inv'[i].email = inv[i].email /\ inv'[i].user = inv[i].user
      BY <1>2, InvitationsKept
    <2> QED BY <2>1, <2>2, <2>3, <2>4 DEF JoinedByInvitation
  <1>3. ASSUME NEW s \in Setups, NEW i \in Invs, NEW x \in Subjects, NEW u \in Users,
               Accepted(s, i, x, u)
        PROVE  JoinedByInvitation'
    <2>1. /\ \A j \in Invs \ {i} : inv'[j] = inv[j]
          /\ inv'[i].status = "accepted" /\ inv'[i].user = u /\ inv'[i].email = inv[i].email
      BY <1>3, InvitationsKept
    <2>2. /\ mail'[u] = inv[i].email /\ inv[i].email \in Emails
          /\ \A v \in Users \ {u} : mail'[v] = mail[v]
          /\ \/ mail' = mail /\ user[u] = "enabled"
             \/ /\ user[u] = "absent" /\ mail[u] = None /\ person[u] = "absent"
                /\ \A v \in Users : mail[v] # inv[i].email
      BY <1>3, AddressGiven
    <2>3. inv[i].status = "pending"
      BY <1>3 DEF Accepted
    <2>4. ASSUME NEW j \in Invs, inv'[j].status = "accepted"
          PROVE  mail'[inv'[j].user] = inv'[j].email
      <3>1. CASE j = i
        BY <2>1, <2>2, <3>1
      <3>2. CASE j # i
        <4>1. inv[j].status = "accepted" /\ inv[j].user \in Users /\ inv[j].email \in Emails
          BY <2>1, <2>4, <3>2 DEF RowsSound
        <4>2. mail[inv[j].user] = inv[j].email
          BY <4>1 DEF JoinedByInvitation
        <4>3. mail'[inv[j].user] = mail[inv[j].user]
          BY <1>0, <2>2, <4>1, <4>2
        <4> QED BY <2>1, <3>2, <4>2, <4>3
      <3> QED BY <3>1, <3>2
    <2>5. ASSUME NEW v \in Users, mail'[v] # None
          PROVE  /\ \E j \in Invs : inv'[j].status = "accepted" /\ inv'[j].user = v
                 /\ \A w \in Users \ {v} : mail'[w] # mail'[v]
      <3>1. \E j \in Invs : inv'[j].status = "accepted" /\ inv'[j].user = v
        <4>1. CASE v = u
          BY <2>1, <4>1
        <4>2. CASE v # u
          <5>1. PICK j \in Invs : inv[j].status = "accepted" /\ inv[j].user = v
            BY <2>2, <2>5, <4>2 DEF JoinedByInvitation
          <5> QED BY <2>1, <2>3, <5>1
        <4> QED BY <4>1, <4>2
      <3>2. ASSUME NEW w \in Users \ {v}
            PROVE  mail'[w] # mail'[v]
        <4>1. CASE mail' = mail
          BY <2>5, <4>1 DEF JoinedByInvitation
        <4>2. CASE \A y \in Users : mail[y] # inv[i].email
          <5>1. CASE u \notin {v, w}
            BY <2>2, <2>5, <5>1 DEF JoinedByInvitation
          <5>2. CASE u = v
            BY <2>2, <4>2, <5>2
          <5>3. CASE u = w
            BY <2>2, <4>2, <5>3
          <5> QED BY <5>1, <5>2, <5>3
        <4> QED BY <2>2, <4>1, <4>2
      <3> QED BY <3>1, <3>2
    <2> QED BY <2>4, <2>5 DEF JoinedByInvitation
  <1> QED BY <1>1, <1>2, <1>3 DEF Step, Elsewhere, Dropped, Asked, Opened, Written

LEMMA AddressesStep ==
    ASSUME TypeOK, RowsSound, OnePendingPerEmail, AddressesKnown, Step
    PROVE  AddressesKnown'
  <1>0. /\ None \notin Emails /\ mail \in [Users -> Emails \cup {None}]
        /\ user \in [Users -> Standing] /\ person \in [Users -> Standing]
        /\ creating \in [email : Emails \cup {None}, groups : SUBSET Groups, overlap : BOOLEAN]
    BY InvitationsAssumption DEF TypeOK, DirectoryTypeOK
  <1>1. ASSUME Elsewhere
        PROVE  AddressesKnown'
    BY <1>1 DEF Elsewhere, AddressesKnown
  <1>2. ASSUME Dropped
        PROVE  AddressesKnown'
    BY <1>0, <1>2 DEF Dropped, Written, AddressesKnown, Idle
  <1>3. ASSUME NEW i \in Invs, Edited(i)
        PROVE  AddressesKnown'
    <2>1. \A j \in Invs : inv'[j].status = "pending" =>
              /\ inv[j].status = "pending" /\ inv'[j].email = inv[j].email
              /\ inv'[j].overlap = inv[j].overlap
      BY <1>3, InvitationsKept
    <2>2. UNCHANGED <<user, person, mail, creating>>
      BY <1>3 DEF Edited, Written
    <2> QED BY <2>1, <2>2 DEF AddressesKnown
  <1>4. ASSUME NEW n \in Invs, Made(n)
        PROVE  AddressesKnown'
    <2>1. \A j \in Invs \ {n} : inv'[j].status = "pending" =>
              /\ inv[j].status = "pending" /\ inv'[j].email = inv[j].email
              /\ inv'[j].overlap = inv[j].overlap
      BY <1>4, InvitationsKept
    <2>2. UNCHANGED <<user, person, mail>> /\ creating' = Idle
          /\ inv'[n].email = creating.email /\ inv'[n].overlap = creating.overlap
      BY <1>4 DEF Made, Written
    <2>3. \A u \in Users : mail[u] # None => mail'[u] # creating'.email
      BY <2>2 DEF Idle
    <2> QED BY <2>1, <2>2, <2>3 DEF AddressesKnown
  <1>5. ASSUME NEW e \in Emails, Asked(e)
        PROVE  AddressesKnown'
    <2>1. UNCHANGED <<user, person, mail, inv>> /\ creating'.email = e
      BY <1>5 DEF Asked, Written
    <2>2. \A u \in Users : mail[u] # e
      BY <1>0, <1>5 DEF Asked, KnownPerson, AddressesKnown
    <2> QED BY <2>1, <2>2 DEF AddressesKnown
  <1>6. ASSUME NEW n \in Setups, NEW i \in Invs, Opened(n, i)
        PROVE  AddressesKnown'
    BY <1>6 DEF Opened, AddressesKnown
  <1>7. ASSUME NEW s \in Setups, NEW i \in Invs, NEW x \in Subjects, NEW u \in Users,
               Accepted(s, i, x, u)
        PROVE  AddressesKnown'
    <2>1. /\ \A j \in Invs \ {i} : inv'[j] = inv[j]
          /\ inv'[i].status = "accepted"
      BY <1>7, InvitationsKept
    <2>2. /\ mail'[u] = inv[i].email /\ inv[i].email \in Emails
          /\ \A v \in Users \ {u} : mail'[v] = mail[v]
      BY <1>7, AddressGiven
    <2>3. /\ inv[i].status = "pending"
          /\ user'[u] = "enabled" /\ person'[u] = "enabled"
          /\ \A v \in Users \ {u} : user'[v] = user[v] /\ person'[v] = person[v]
      BY <1>0, <1>7 DEF Accepted
    <2>4. /\ creating'.email = creating.email
          /\ creating.overlap => creating'.overlap
          /\ creating.email = inv[i].email => creating'.overlap
      BY <1>0, <1>7 DEF Accepted
    <2>5. creating' # Idle => creating.email \in Emails
      <3>1. creating' = creating \/ creating.email = inv[i].email
        BY <1>7 DEF Accepted
      <3> QED BY <2>2, <3>1 DEF AddressesKnown
    <2>6. \A v \in Users : /\ user'[v] = "absent" => person'[v] = "absent" /\ mail'[v] = None
                           /\ mail'[v] # None => person'[v] # "absent"
      BY <2>2, <2>3 DEF AddressesKnown
    <2>7. ASSUME NEW v \in Users, mail'[v] # None, mail'[v] = creating'.email
          PROVE  creating'.overlap
      BY <2>2, <2>4, <2>7 DEF AddressesKnown
    <2>8. ASSUME NEW v \in Users, NEW j \in Invs, mail'[v] # None, inv'[j].status = "pending",
                 inv'[j].email = mail'[v]
          PROVE  inv'[j].overlap
      <3>1. j # i /\ inv'[j] = inv[j]
        BY <2>1, <2>8
      <3>2. inv[j].email # inv[i].email
        BY <2>3, <2>8, <3>1 DEF OnePendingPerEmail
      <3>3. v # u
        BY <2>2, <2>8, <3>1, <3>2
      <3> QED BY <2>2, <2>8, <3>1, <3>3 DEF AddressesKnown
    <2> QED BY <2>4, <2>5, <2>6, <2>7, <2>8 DEF AddressesKnown
  <1> QED BY <1>1, <1>2, <1>3, <1>4, <1>5, <1>6, <1>7 DEF Step

LEMMA SessionsStep ==
    ASSUME TypeOK, RowsSound, UsedOnce, SessionsEndWithStanding, Step
    PROVE  SessionsEndWithStanding'
  <1>0. \A s \in Setups : session[s] = "live" =>
            /\ setup[s].state = "consumed" /\ setup[s].inv \in Invs
            /\ inv[setup[s].inv].status = "accepted" /\ inv[setup[s].inv].user \in Users
    BY DEF RowsSound, UsedOnce
  <1>1. ASSUME Elsewhere
        PROVE  SessionsEndWithStanding'
    <2>1. SUFFICES ASSUME NEW s \in Setups, session'[s] = "live"
                   PROVE  /\ user'[inv'[setup'[s].inv].user] = "enabled"
                          /\ member'[inv'[setup'[s].inv].user] = "enabled"
      BY DEF SessionsEndWithStanding
    <2>2. session[s] = "live" /\ inv' = inv /\ setup' = setup
      BY <1>1, <2>1 DEF Elsewhere
    <2>3. /\ user[inv[setup[s].inv].user] = "enabled" /\ member[inv[setup[s].inv].user] = "enabled"
          /\ inv[setup[s].inv].user \in Users
      BY <1>0, <2>2 DEF SessionsEndWithStanding
    <2> QED BY <1>1, <2>1, <2>2, <2>3 DEF Elsewhere
  <1>2. UNCHANGED <<user, member, inv, setup, session>> => SessionsEndWithStanding'
    BY DEF SessionsEndWithStanding
  <1>3. ASSUME NEW n \in Invs, Edited(n) \/ Made(n)
        PROVE  SessionsEndWithStanding'
    <2>1. UNCHANGED <<user, member, setup, session>>
      BY <1>3 DEF Edited, Made, Written
    <2>2. \A i \in Invs : inv[i].status = "accepted" => inv'[i].user = inv[i].user
      BY <1>3, InvitationsKept DEF Made
    <2> QED BY <1>0, <2>1, <2>2 DEF SessionsEndWithStanding
  <1>4. ASSUME NEW n \in Setups, NEW i \in Invs, Opened(n, i)
        PROVE  SessionsEndWithStanding'
    <2>1. /\ UNCHANGED <<user, member, inv, session>> /\ setup[n].state = "none"
          /\ \A s \in Setups \ {n} : setup'[s] = setup[s]
      BY <1>4 DEF Opened, TypeOK
    <2> QED BY <1>0, <2>1 DEF SessionsEndWithStanding
  <1>5. ASSUME NEW s \in Setups, NEW i \in Invs, NEW x \in Subjects, NEW u \in Users,
               Accepted(s, i, x, u)
        PROVE  SessionsEndWithStanding'
    <2>0. inv[i].status = "pending"
      BY <1>5 DEF Accepted
    <2>1. (\A j \in Invs \ {i} : inv'[j] = inv[j]) /\ inv'[i].user = u
      BY <1>5, InvitationsKept
    <2>2. \A v \in Users : /\ user[v] = "enabled" \/ v = u => user'[v] = "enabled"
                           /\ member[v] = "enabled" \/ v = u => member'[v] = "enabled"
      BY <1>5 DEF Accepted, TypeOK, DirectoryTypeOK
    <2>3. setup'[s].inv = i /\ \A y \in Setups : setup'[y].inv = setup[y].inv
      BY <1>5, SetupsKept
    <2>6. \A y \in Setups \ {s} : session'[y] = session[y]
      BY <1>5 DEF Accepted, TypeOK
    <2>4. ASSUME NEW y \in Setups \ {s}, session'[y] = "live"
          PROVE  /\ user'[inv'[setup'[y].inv].user] = "enabled"
                 /\ member'[inv'[setup'[y].inv].user] = "enabled"
      <3>1. session[y] = "live"
        BY <2>4, <2>6
      <3>2. /\ setup[y].inv \in Invs /\ inv[setup[y].inv].status = "accepted"
            /\ inv[setup[y].inv].user \in Users
        BY <1>0, <3>1
      <3>3. setup'[y].inv = setup[y].inv /\ inv'[setup[y].inv] = inv[setup[y].inv]
        BY <2>0, <2>1, <2>3, <3>2
      <3> QED BY <2>2, <3>1, <3>2, <3>3 DEF SessionsEndWithStanding
    <2>5. /\ user'[inv'[setup'[s].inv].user] = "enabled"
          /\ member'[inv'[setup'[s].inv].user] = "enabled"
      BY <2>1, <2>2, <2>3
    <2> QED BY <2>4, <2>5 DEF SessionsEndWithStanding
  <1> QED BY <1>1, <1>2, <1>3, <1>4, <1>5 DEF Step, Dropped, Asked, Written

LEMMA RowsStep ==
    ASSUME TypeOK, RowsSound, AddressesKnown, Step, [Next]_vars
    PROVE  RowsSound'
  <1> DEFINE Named(i) == /\ inv'[i].status # "none" => inv'[i].email \in Emails
                         /\ inv'[i].status = "accepted" => inv'[i].user \in Users
             Sound(s) == /\ setup'[s].state # "none" => setup'[s].inv \in Invs
                         /\ session'[s] # "none" => setup'[s].state = "consumed"
             Owned(t) == txn'[t].state # "none" => txn'[t].setup \in Setups
  <1>1. \A i \in Invs : Named(i)
    <2>1. inv' = inv => \A i \in Invs : Named(i)
      BY DEF RowsSound
    <2>2. ASSUME NEW n \in Invs, Edited(n)
          PROVE  \A i \in Invs : Named(i)
      BY <2>2, InvitationsKept DEF RowsSound
    <2>3. ASSUME NEW n \in Invs, Made(n)
          PROVE  \A i \in Invs : Named(i)
      <3>1. Named(n)
        BY <2>3 DEF Made, AddressesKnown
      <3>2. \A i \in Invs \ {n} : Named(i)
        BY <2>3, InvitationsKept DEF RowsSound
      <3> QED BY <3>1, <3>2
    <2>4. ASSUME NEW s \in Setups, NEW i \in Invs, NEW x \in Subjects, NEW u \in Users,
                 Accepted(s, i, x, u)
          PROVE  \A j \in Invs : Named(j)
      <3>1. /\ \A j \in Invs \ {i} : inv'[j] = inv[j]
            /\ inv'[i].user = u /\ inv'[i].email = inv[i].email
        BY <2>4, InvitationsKept
      <3>2. inv[i].email \in Emails
        BY <2>4, AddressGiven
      <3> QED BY <3>1, <3>2 DEF RowsSound
    <2> HIDE DEF Named
    <2> QED BY <2>1, <2>2, <2>3, <2>4 DEF Step, Elsewhere, Dropped, Asked, Opened
  <1>2. \A s \in Setups : Sound(s)
    <2>1. ASSUME Elsewhere
          PROVE  \A s \in Setups : Sound(s)
      BY <2>1 DEF RowsSound, Elsewhere
    <2>2. ASSUME Written
          PROVE  \A s \in Setups : Sound(s)
      BY <2>2 DEF RowsSound, Written
    <2>3. ASSUME NEW n \in Setups, NEW i \in Invs, Opened(n, i)
          PROVE  \A s \in Setups : Sound(s)
      <3>1. /\ session' = session /\ setup[n].state = "none"
            /\ setup'[n].inv = i
            /\ \A s \in Setups \ {n} : setup'[s] = setup[s]
        BY <2>3 DEF Opened, TypeOK
      <3> QED BY <3>1 DEF RowsSound
    <2>4. ASSUME NEW s \in Setups, NEW i \in Invs, NEW x \in Subjects, NEW u \in Users,
                 Accepted(s, i, x, u)
          PROVE  \A y \in Setups : Sound(y)
      <3>1. /\ setup'[s].state = "consumed" /\ setup'[s].inv = i
            /\ \A y \in Setups : setup'[y].inv = setup[y].inv
            /\ \A y \in Setups \ {s} :
                   \/ /\ setup'[y].state = setup[y].state
                      /\ ~(setup[y].state = "open" /\ setup[y].inv = i)
                   \/ setup[y].state = "open" /\ setup[y].inv = i /\ setup'[y].state = "revoked"
        BY <2>4, SetupsKept
      <3>2. \A y \in Setups \ {s} : session'[y] = session[y]
        BY <2>4 DEF Accepted, TypeOK
      <3>3. \A y \in Setups \ {s} : setup[y].state = "consumed" => setup'[y].state = "consumed"
        BY <3>1
      <3>4. \A y \in Setups \ {s} : setup'[y].state # "none" => setup[y].state # "none"
        BY <3>1
      <3>5. Sound(s)
        BY <3>1
      <3>6. \A y \in Setups \ {s} : Sound(y)
        BY <3>1, <3>2, <3>3, <3>4 DEF RowsSound
      <3> QED BY <3>5, <3>6
    <2> HIDE DEF Sound
    <2> QED BY <2>1, <2>2, <2>3, <2>4 DEF Step, Dropped, Edited, Made, Asked
  <1>3. \A t \in Txns : Owned(t)
    <2>1. txn \in [Txns -> Txn]
      BY DEF TypeOK
    <2>2. txn' = txn => \A t \in Txns : Owned(t)
      BY DEF RowsSound
    <2>3. ASSUME NEW s \in Setups, CreateOIDCTransaction(s)
          PROVE  \A z \in Txns : Owned(z)
      <3>1. txn' = [txn EXCEPT ![NextId(txn, "state")] = [state |-> "open", setup |-> s]]
        BY <2>3 DEF CreateOIDCTransaction
      <3> QED BY <2>1, <3>1 DEF RowsSound
    <2>4. ASSUME NEW t \in Txns, NEW to, txn' = [txn EXCEPT ![t].state = to],
                 txn[t].state # "none"
          PROVE  \A z \in Txns : Owned(z)
      <3>1. txn'[t].setup = txn[t].setup /\ \A z \in Txns \ {t} : txn'[z] = txn[z]
        BY <2>1, <2>4 DEF Txn
      <3> QED BY <2>4, <3>1 DEF RowsSound
    <2>5. ASSUME NEW t \in Txns,
                 \/ ConsumeOIDCTransaction(t) \/ CallbackFails(t)
                 \/ \E x \in Subjects : \E e \in Emails : AcceptInvitation(t, x, e)
          PROVE  \A z \in Txns : Owned(z)
      <3>1. \/ txn' = [txn EXCEPT ![t].state = "consumed"]
            \/ txn' = [txn EXCEPT ![t].state = "over"]
        BY <2>5 DEF ConsumeOIDCTransaction, CallbackFails, AcceptInvitation
      <3>2. txn[t].state # "none"
        BY <2>5 DEF ConsumeOIDCTransaction, CallbackFails, AcceptInvitation
      <3> QED BY <2>4, <3>1, <3>2
    <2>6. Owner \/ Operator \/ (\E i \in Invs : Expires(i)) \/ UNCHANGED vars => txn' = txn
      BY DEF Owner, Operator, CreateInvitation, InsertInvitation, CreateFails, ResendInvitation,
             RevokeInvitation, GroupCreated, GroupDisabled, PeopleReplaced, OwnerAssigned,
             UserDisabled, MembershipDisabled, PersonDisabled, Reprovisioned, IdentityDisabled,
             inviteVars, Expires, vars
    <2>7. ASSUME NEW i \in Invs, NEW g, BeginInvitationSetup(i, g)
          PROVE  txn' = txn
      BY <2>7 DEF BeginInvitationSetup
    <2> QED BY <2>2, <2>3, <2>5, <2>6, <2>7 DEF Next, Browser
  <1> QED BY <1>1, <1>2, <1>3 DEF RowsSound

----------------------------------------------------------------------------
(* The theorems.                                                           *)

\* A company starts without invitations, addresses and portal sessions.
LEMMA InvitationInit ==
    ASSUME Init
    PROVE  InvitationInv /\ OwnerCanAct
  <1>1. PICK own \in Users : DirectoryInit(None, {}, {own}, {})
    BY DEF Init
  <1>2. DirectoryTypeOK
    BY <1>1 DEF DirectoryInit, DirectoryTypeOK, Standing
  <1>3. TypeOK
    <2>1. {0, MaxSends} \subseteq 0 .. MaxSends /\ 0 \in 0 .. MaxInvs /\ 0 \in 0 .. MaxSetups
          /\ 0 \in 0 .. MaxTxns
      BY InvitationsAssumption
    <2>2. inv \in [Invs -> Invitation]
      BY <2>1 DEF Init, Invitation
    <2>3. setup \in [Setups -> Setup] /\ txn \in [Txns -> Txn] /\ cookie \in [Setups -> 0 .. MaxTxns]
      BY <2>1 DEF Init, Setup, Txn
    <2>4. creating \in [email : Emails \cup {None}, groups : SUBSET Groups, overlap : BOOLEAN]
      BY DEF Init, Idle
    <2>5. /\ mail \in [Users -> Emails \cup {None}]
          /\ link \in [Subjects -> [state : Standing, user : Users \cup {None}]]
          /\ session \in [Setups -> SessionStates]
          /\ history \in Seq(Ops)
      BY DEF Init, Standing, SessionStates
    <2> QED BY <1>2, <2>2, <2>3, <2>4, <2>5 DEF TypeOK
  <1>4. /\ \A i \in Invs : inv[i].status = "none"
        /\ \A s \in Setups : setup[s].state = "none" /\ session[s] = "none"
        /\ \A t \in Txns : txn[t].state = "none"
        /\ \A u \in Users : mail[u] = None
        /\ creating = Idle
    BY DEF Init
  <1>5. \A u \in Users : user[u] = "absent" => person[u] = "absent"
    BY <1>1 DEF DirectoryInit
  <1>6. RowsSound /\ UsedOnce
    BY <1>4 DEF RowsSound, UsedOnce
  <1>7. AcceptedOnce
    BY <1>6, CountingUses
  <1>8. OnePendingPerEmail /\ JoinedByInvitation /\ AddressesKnown /\ SessionsEndWithStanding
    BY <1>4, <1>5 DEF OnePendingPerEmail, JoinedByInvitation, AddressesKnown,
       SessionsEndWithStanding
  <1>9. OwnerCanAct
    BY <1>1 DEF DirectoryInit, OwnerCanAct
  <1> QED BY <1>3, <1>6, <1>7, <1>8, <1>9 DEF InvitationInv

LEMMA InvitationStep ==
    ASSUME InvitationInv, [Next]_vars
    PROVE  InvitationInv'
  <1>1. TypeOK /\ RowsSound /\ OnePendingPerEmail /\ AcceptedOnce /\ JoinedByInvitation
        /\ AddressesKnown /\ SessionsEndWithStanding
    BY DEF InvitationInv
  <1>2. Step
    BY <1>1, InvitationSteps
  <1>3. UsedOnce
    BY <1>1, CountingUses
  <1>4. TypeOK' /\ RowsSound' /\ UsedOnce'
    BY <1>1, <1>2, <1>3, TypeStep, RowsStep, UsedOnceStep
  <1>5. AcceptedOnce'
    <2>1. RowsSound' => (AcceptedOnce' <=> UsedOnce')
      BY CountingUses, PTL
    <2> QED BY <1>4, <2>1
  <1>6. OnePendingPerEmail' /\ JoinedByInvitation' /\ AddressesKnown' /\ SessionsEndWithStanding'
    BY <1>1, <1>2, <1>3, OnePendingStep, JoinedStep, AddressesStep, SessionsStep
  <1> QED BY <1>4, <1>5, <1>6 DEF InvitationInv

\* One open invitation per address, one use of each, by an account that has its
\* address, and no session of somebody who was disabled: in every reachable state,
\* however many links, browsers and callbacks there are (CreateInvitation,
\* AcceptInvitation, migration 0005).
THEOREM Joining == Spec => []InvitationInv
  <1>1. Init => InvitationInv
    BY InvitationInit
  <1>2. InvitationInv /\ [Next]_vars => InvitationInv'
    BY InvitationStep
  <1> QED BY <1>1, <1>2, PTL DEF Spec

\* The owner stays able to act (DisableHuman, AssignInitialOwner and the trigger on
\* the owner's person row).
THEOREM OwnerStands == Spec => []OwnerCanAct
  <1>1. Init => OwnerCanAct
    BY InvitationInit
  <1>2. InvitationInv /\ OwnerCanAct /\ [Next]_vars => OwnerCanAct'
    <2> SUFFICES ASSUME InvitationInv, OwnerCanAct, [Next]_vars
                 PROVE  OwnerCanAct'
      OBVIOUS
    <2>0. /\ owner \in Users \cup {None} /\ user \in [Users -> Standing]
          /\ person \in [Users -> Standing]
      BY DEF InvitationInv, TypeOK, DirectoryTypeOK
    <2>1. UNCHANGED <<owner, user, person>> => OwnerCanAct'
      BY DEF OwnerCanAct
    <2>2. ASSUME Owner
          PROVE  UNCHANGED <<owner, user, person>>
      BY <2>2 DEF Owner, CreateInvitation, InsertInvitation, CreateFails, ResendInvitation,
         RevokeInvitation, GroupCreated, GroupDisabled, PeopleReplaced, CreateGroup, DisableGroup,
         ReplaceGroupPeople, dirVars
    <2>3. ASSUME Browser
          PROVE  OwnerCanAct'
      <3>1. ASSUME NEW i \in Invs, NEW g, BeginInvitationSetup(i, g)
            PROVE  UNCHANGED <<owner, user, person>>
        BY <3>1 DEF BeginInvitationSetup, dirVars
      <3>2. ASSUME NEW s \in Setups, CreateOIDCTransaction(s)
            PROVE  UNCHANGED <<owner, user, person>>
        BY <3>2 DEF CreateOIDCTransaction, dirVars
      <3>3. ASSUME NEW t \in Txns, ConsumeOIDCTransaction(t) \/ CallbackFails(t)
            PROVE  UNCHANGED <<owner, user, person>>
        BY <3>3 DEF ConsumeOIDCTransaction, CallbackFails, dirVars
      <3>4. ASSUME NEW t \in Txns, NEW x \in Subjects, NEW e \in Emails, AcceptInvitation(t, x, e)
            PROVE  OwnerCanAct'
        <4>1. PICK s \in Setups, i \in Invs, u \in Users : Accepted(s, i, x, u)
          BY <3>4, AcceptanceSteps DEF InvitationInv
        <4>2. /\ owner' = owner /\ user' = [user EXCEPT ![u] = "enabled"]
              /\ person' = [person EXCEPT ![u] = "enabled"]
          BY <4>1 DEF Accepted
        <4> QED BY <2>0, <4>2 DEF OwnerCanAct
      <3> QED BY <2>1, <2>3, <3>1, <3>2, <3>3, <3>4 DEF Browser
    <2>4. ASSUME Operator
          PROVE  OwnerCanAct'
      <3>1. ASSUME NEW u \in Users, OwnerAssigned(u)
            PROVE  OwnerCanAct'
        BY <2>0, <3>1 DEF OwnerAssigned, AssignInitialOwner, OwnerCanAct
      <3>2. ASSUME NEW u \in Users, UserDisabled(u)
            PROVE  OwnerCanAct'
        BY <2>0, <3>2 DEF UserDisabled, DisableHuman, MayDisable, OwnerCanAct
      <3>3. ASSUME NEW u \in Users, MembershipDisabled(u)
            PROVE  OwnerCanAct'
        BY <2>1, <3>3 DEF MembershipDisabled, DisableMembership
      <3>4. ASSUME NEW u \in Users, PersonDisabled(u)
            PROVE  OwnerCanAct'
        BY <2>0, <3>4 DEF PersonDisabled, DisablePerson, OwnerCanAct
      <3>5. ASSUME NEW u \in Users, Reprovisioned(u)
            PROVE  OwnerCanAct'
        BY <2>0, <3>5 DEF Reprovisioned, ProvisionHuman, OwnerCanAct
      <3>6. ASSUME NEW x \in Subjects, IdentityDisabled(x)
            PROVE  OwnerCanAct'
        BY <2>1, <3>6 DEF IdentityDisabled, dirVars
      <3> QED BY <2>4, <3>1, <3>2, <3>3, <3>4, <3>5, <3>6 DEF Operator
    <2>5. (\E i \in Invs : Expires(i)) \/ UNCHANGED vars => UNCHANGED <<owner, user, person>>
      BY DEF Expires, vars, dirVars
    <2> QED BY <2>1, <2>2, <2>3, <2>4, <2>5 DEF Next
  <1> QED BY <1>1, <1>2, Joining, PTL DEF Spec

\* Nobody gets into a group except by the owner's hand or through an invitation that
\* named it, and never into a disabled group (AcceptInvitation, ReplaceGroupPeople).
THEOREM GroupEntry == Spec => GroupsAsInvited
  <1>1. InvitationInv /\ [Next]_vars => [JoinedAsInvited]_vars
    <2> SUFFICES ASSUME InvitationInv, [Next]_vars
                 PROVE  JoinedAsInvited
      OBVIOUS
    <2>0. people \in [Groups -> SUBSET Users] /\ history \in Seq(Ops)
      BY DEF InvitationInv, TypeOK, DirectoryTypeOK
    <2>1. people' = people => JoinedAsInvited
      BY DEF JoinedAsInvited
    <2>2. ASSUME NEW g \in Groups, NEW us \in SUBSET Users, PeopleReplaced(g, us)
          PROVE  JoinedAsInvited
      <3>1. people' = [people EXCEPT ![g] = us] /\ group[g] = "enabled"
        BY <2>2 DEF PeopleReplaced, ReplaceGroupPeople
      <3>2. history' = Append(history, "people") /\ "people" \in Ops
        BY <2>2 DEF PeopleReplaced, Change, Ops
      <3>3. history' # history
        <4>1. Len(history') = Len(history) + 1 /\ Len(history) \in Nat
          BY <2>0, <3>2
        <4> QED BY <4>1
      <3> QED BY <2>0, <3>1, <3>3 DEF JoinedAsInvited
    <2>3. ASSUME NEW t \in Txns, NEW x \in Subjects, NEW e \in Emails, AcceptInvitation(t, x, e)
          PROVE  JoinedAsInvited
      <3>1. PICK s \in Setups, i \in Invs, u \in Users : Accepted(s, i, x, u)
        BY <2>3, AcceptanceSteps DEF InvitationInv
      <3>2. /\ inv[i].status = "pending"
            /\ people' = [g \in Groups |-> people[g] \cup (IF g \in Joined(i) THEN {u} ELSE {})]
        BY <3>1 DEF Accepted
      <3>3. inv'[i].status = "accepted" /\ inv'[i].user = u
        BY <3>1, InvitationsKept DEF InvitationInv
      <3>4. \A g \in Groups : \A v \in people'[g] \ people[g] : v = u /\ g \in Joined(i)
        BY <3>2
      <3> QED BY <3>2, <3>3, <3>4 DEF JoinedAsInvited, Joined
    <2>4. ASSUME Owner
          PROVE  JoinedAsInvited
      <3>1. ASSUME NEW g \in Groups, GroupCreated(g) \/ GroupDisabled(g)
            PROVE  people' = people
        BY <3>1 DEF GroupCreated, GroupDisabled, CreateGroup, DisableGroup
      <3>2. \/ \E e \in Emails : \E gs \in SUBSET Groups : CreateInvitation(e, gs)
            \/ InsertInvitation \/ CreateFails
            \/ \E i \in Invs : ResendInvitation(i) \/ RevokeInvitation(i)
            => people' = people
        BY DEF CreateInvitation, InsertInvitation, CreateFails, ResendInvitation,
           RevokeInvitation, dirVars
      <3> QED BY <2>1, <2>2, <2>4, <3>1, <3>2 DEF Owner
    <2>5. ASSUME Browser
          PROVE  JoinedAsInvited
      <3>1. ASSUME NEW i \in Invs, NEW g, BeginInvitationSetup(i, g)
            PROVE  people' = people
        BY <3>1 DEF BeginInvitationSetup, dirVars
      <3>2. ASSUME NEW s \in Setups, CreateOIDCTransaction(s)
            PROVE  people' = people
        BY <3>2 DEF CreateOIDCTransaction, dirVars
      <3>3. ASSUME NEW t \in Txns, ConsumeOIDCTransaction(t) \/ CallbackFails(t)
            PROVE  people' = people
        BY <3>3 DEF ConsumeOIDCTransaction, CallbackFails, dirVars
      <3> QED BY <2>1, <2>3, <2>5, <3>1, <3>2, <3>3 DEF Browser
    <2>6. Operator \/ (\E i \in Invs : Expires(i)) \/ UNCHANGED vars => people' = people
      BY DEF Operator, OwnerAssigned, UserDisabled, MembershipDisabled, PersonDisabled,
         Reprovisioned, IdentityDisabled, AssignInitialOwner, DisableHuman, DisableMembership,
         DisablePerson, ProvisionHuman, Expires, vars, dirVars
    <2> QED BY <2>1, <2>4, <2>5, <2>6 DEF Next
  <1> QED BY <1>1, Joining, PTL DEF Spec, GroupsAsInvited

\* A disabled person comes back through an acceptance only when the invitation was
\* in the making while the person joined (CreateInvitation's check before its locks).
THEOREM Rejoining == Spec => RejoinOnlyByOverlap
  <1>1. InvitationInv /\ [Next]_vars => [OverlapLetsIn]_vars
    <2> SUFFICES ASSUME InvitationInv, [Next]_vars,
                        NEW i \in Invs, inv[i].status = "pending", inv'[i].status = "accepted",
                        person[inv'[i].user] = "disabled"
                 PROVE  inv[i].overlap
      BY DEF OverlapLetsIn
    <2>1. TypeOK /\ RowsSound /\ AddressesKnown
      BY DEF InvitationInv
    <2>2. PICK s \in Setups, x \in Subjects, u \in Users : Accepted(s, i, x, u)
      <3>1. Step
        BY <2>1, InvitationSteps
      <3>2. inv' # inv
        OBVIOUS
      <3>3. ~ \E n \in Invs : Edited(n) \/ Made(n)
        BY <2>1, InvitationsKept DEF Made
      <3>4. PICK s \in Setups, j \in Invs, x \in Subjects, u \in Users : Accepted(s, j, x, u)
        BY <3>1, <3>2, <3>3 DEF Step, Elsewhere, Dropped, Asked, Opened
      <3>5. i = j
        BY <2>1, <3>4, InvitationsKept
      <3> QED BY <3>4, <3>5
    <2>3. inv'[i].user = u
      BY <2>1, <2>2, InvitationsKept
    <2>4. /\ mail'[u] = inv[i].email /\ inv[i].email \in Emails
          /\ mail' = mail \/ person[u] = "absent"
      BY <2>1, <2>2, AddressGiven
    <2>5. mail[u] = inv[i].email /\ mail[u] # None
      BY <2>3, <2>4, InvitationsAssumption
    <2> QED BY <2>1, <2>5 DEF AddressesKnown
  <1> QED BY <1>1, Joining, PTL DEF Spec, RejoinOnlyByOverlap

============================================================================
