---------------------------- MODULE PortalProofs ----------------------------
(***************************************************************************)
(* Machine-checked proofs about portal sessions and API keys, for any      *)
(* number of users, memberships, requests, sessions, keys and commands.    *)
(***************************************************************************)
EXTENDS PortalProperties, TLAPS, WellFoundedInduction

\* FirstOf finds an element of every set of numbers that is not empty.
LEMMA FirstOfIn ==
    ASSUME NEW S, S \subseteq Nat, S # {}
    PROVE  FirstOf(S) \in S
  <1> DEFINE Less == {p \in Nat \X Nat : p[1] < p[2]}
  <1>1. IsWellFoundedOn(Less, Nat)
    BY NatLessThanWellFounded DEF OpToRel
  <1>2. PICK n \in S : \A m \in S : <<m, n>> \notin Less
    BY <1>1, WFMin
  <1>3. ASSUME NEW m \in S PROVE n <= m
    <2>1. <<m, n>> \in Nat \X Nat /\ <<m, n>>[1] = m /\ <<m, n>>[2] = n
      OBVIOUS
    <2>2. ~(m < n)
      BY <1>2, <2>1
    <2> QED BY <2>2
  <1> QED BY <1>3 DEF FirstOf

\* The parts of the invariant that mention tenants follow from the others.
LEMMA BoundaryFollows ==
    /\ TypeOK /\ SessionsInv /\ KeysInv => TenantBoundary
    /\ TypeOK' /\ SessionsInv' /\ KeysInv' => TenantBoundary'
  BY DEF TypeOK, SessionsInv, KeysInv, TenantBoundary, Opened, Authenticate

\* Before any request, session or key the invariant holds.
LEMMA InitInv == Init => PortalInv
  <1> SUFFICES ASSUME Init PROVE PortalInv
    OBVIOUS
  <1> USE PortalAssumption
  <1>1. TypeOK
    BY DEF Init, TypeOK, Session, NoSession, Key, NoReq, Stages, Passwords, Keys, Sessions
  <1>2. SessionsInv /\ RequestsInv /\ KeysInv
    BY DEF Init, SessionsInv, RequestsInv, KeysInv, NoSession
  <1> QED BY <1>1, <1>2, BoundaryFollows DEF PortalInv

----------------------------------------------------------------------------
(* What the assignments of the steps keep typed.                           *)

\* A session whose state, membership or password is replaced is still a session.
LEMMA SessionTypes ==
    ASSUME TypeOK, NEW s \in Sessions
    PROVE  /\ [session EXCEPT ![s].state = "revoked"] \in [Sessions -> Session]
           /\ \A m \in Memberships : [session EXCEPT ![s].current = m] \in [Sessions -> Session]
           /\ \A p \in Passwords : [session EXCEPT ![s].password = p] \in [Sessions -> Session]
  <1>1. session[s] \in Session /\ session \in [Sessions -> Session]
    BY DEF TypeOK
  <1>2. /\ [session[s] EXCEPT !.state = "revoked"] \in Session
        /\ \A m \in Memberships : [session[s] EXCEPT !.current = m] \in Session
        /\ \A p \in Passwords : [session[s] EXCEPT !.password = p] \in Session
    BY <1>1 DEF Session
  <1> QED BY <1>1, <1>2

\* Answering a request leaves requests and their stages typed.
LEMMA ReplyTypes ==
    ASSUME TypeOK, NEW b \in Requests, Replied(b)
    PROVE  /\ pc' \in [Requests -> Stages]
           /\ req' \in [Requests -> [session : Sessions \cup {0}, user : Users \cup {None},
                                     current : Memberships \cup {0}]]
  BY DEF TypeOK, Replied, NoReq, Stages

----------------------------------------------------------------------------
(* One lemma per group of steps.                                           *)

\* The two transactions of a sign-in (CreatePortalSession).
LEMMA SignInStep ==
    ASSUME PortalInv, NEW b \in Requests, signIn(b)
    PROVE  PortalInv'
  <1> USE PortalAssumption DEF PortalInv, TypeOK, Session, NoSession, Stages
  <1>1. ASSUME NEW u \in Users, NEW p \in Passwords, CreatePortalSession(b, u, p)
        PROVE  PortalInv'
    <2>1. FirstOf(listMemberships(u)) \in listMemberships(u)
      BY <1>1, FirstOfIn DEF CreatePortalSession, listMemberships
    <2>2. TypeOK'
      BY <1>1, <2>1 DEF CreatePortalSession, listMemberships, opVars, keyVars, Passwords
    <2>3. SessionsInv'
      BY <1>1 DEF CreatePortalSession, SessionsInv, Opened, opVars
    <2>4. RequestsInv'
      BY <1>1, <2>1 DEF CreatePortalSession, listMemberships, RequestsInv, Opened, opVars
    <2>5. KeysInv'
      BY <1>1 DEF CreatePortalSession, KeysInv, keyVars
    <2> QED BY <2>2, <2>3, <2>4, <2>5, BoundaryFollows
  <1>2. CASE InsertSession(b)
    <2> DEFINE free == {s \in Sessions : session[s].state = "none"}
    <2>0. free \subseteq Sessions /\ free \subseteq Nat /\ free # {}
      BY <1>2 DEF InsertSession, Sessions
    <2>1. FirstOf(free) \in free
      BY <2>0, FirstOfIn
    <2>2. session' = [session EXCEPT ![FirstOf(free)] = login[b]] /\ login[b].state = "live"
          /\ Opened(login[b])
      BY <1>2 DEF InsertSession, RequestsInv
    <2> HIDE DEF free
    <2>3. TypeOK'
      <3>1. session' \in [Sessions -> Session] /\ login' \in [Requests -> Session]
        <4> HIDE DEF Session
        <4>1. NoSession \in Session
          BY DEF Session
        <4> QED BY <1>2, <2>0, <2>1, <2>2, <4>1 DEF InsertSession
      <3> QED BY <1>2, <3>1 DEF InsertSession, opVars, keyVars
    <2>4. SessionsInv'
      BY <1>2, <2>1, <2>2, SMTT(40) DEF InsertSession, SessionsInv, Opened, opVars, free
    <2>5. RequestsInv'
      BY <1>2, <2>1, <2>2 DEF InsertSession, RequestsInv, Opened, opVars, free
    <2>6. KeysInv'
      BY <1>2 DEF InsertSession, KeysInv, keyVars
    <2> QED BY <2>3, <2>4, <2>5, <2>6, BoundaryFollows
  <1> QED BY <1>1, <1>2 DEF signIn

\* The steps that change only how far a request is, and a session or none.
LEMMA SessionStep ==
    ASSUME PortalInv, NEW b \in Requests,
           \/ \E s \in Sessions : AuthenticatePortalSession(b, s)
           \/ signOut(b) \/ Answered(b) \/ SwitchWritten(b)
           \/ \E p \in Passwords : ReauthenticatePortalSession(b, p)
           \/ \E m \in Memberships : SwitchPortalContext(b, m)
    PROVE  PortalInv'
  <1> USE PortalAssumption DEF PortalInv, TypeOK, Stages
  <1>0. KeysInv'
    BY DEF AuthenticatePortalSession, signOut, RevokePortalSession, Answered, SwitchWritten,
           ReauthenticatePortalSession, SwitchPortalContext, KeysInv, keyVars
  <1>1. ASSUME NEW s \in Sessions, AuthenticatePortalSession(b, s) PROVE PortalInv'
    <2>1. TypeOK'
      BY <1>1 DEF AuthenticatePortalSession, loadSession, opVars, keyVars, Session
    <2>2. SessionsInv'
      BY <1>1 DEF AuthenticatePortalSession, SessionsInv, Opened, opVars
    <2>3. RequestsInv'
      BY <1>1 DEF AuthenticatePortalSession, loadSession, SessionsInv, RequestsInv, Opened, opVars
    <2> QED BY <1>0, <2>1, <2>2, <2>3, BoundaryFollows
  <1>2. CASE signOut(b)
    <2>1. TypeOK'
      <3>1. req[b].session \in Sessions
        BY <1>2 DEF signOut, RevokePortalSession, RequestsInv
      <3>2. session' \in [Sessions -> Session] /\ ended' \subseteq Sessions
        BY <1>2, <3>1, SessionTypes DEF signOut, RevokePortalSession
      <3> QED BY <1>2, <3>2, ReplyTypes DEF signOut, RevokePortalSession, opVars, keyVars
    <2>2. SessionsInv'
      BY <1>2 DEF signOut, RevokePortalSession, SessionsInv, RequestsInv, Opened, opVars, Session
    <2>3. RequestsInv'
      BY <1>2 DEF signOut, RevokePortalSession, Replied, RequestsInv, Opened, opVars, Session
    <2> QED BY <1>0, <2>1, <2>2, <2>3, BoundaryFollows
  <1>3. CASE Answered(b)
    <2>1. TypeOK'
      BY <1>3 DEF Answered, Replied, NoReq, opVars, keyVars
    <2>2. SessionsInv'
      BY <1>3 DEF Answered, SessionsInv, Opened, opVars
    <2>3. RequestsInv'
      BY <1>3 DEF Answered, Replied, RequestsInv, Opened, opVars
    <2> QED BY <1>0, <2>1, <2>2, <2>3, BoundaryFollows
  <1>4. CASE SwitchWritten(b)
    <2>1. TypeOK'
      <3>1. session' \in [Sessions -> Session]
        BY <1>4, SessionTypes DEF SwitchWritten, RequestsInv
      <3> QED BY <1>4, <3>1, ReplyTypes DEF SwitchWritten, opVars, keyVars
    <2>2. SessionsInv'
      BY <1>4 DEF SwitchWritten, SessionsInv, RequestsInv, Opened, opVars, Session
    <2>3. RequestsInv'
      BY <1>4 DEF SwitchWritten, Replied, RequestsInv, Opened, opVars, Session
    <2> QED BY <1>0, <2>1, <2>2, <2>3, BoundaryFollows
  <1>5. ASSUME NEW p \in Passwords, ReauthenticatePortalSession(b, p) PROVE PortalInv'
    <2>1. TypeOK'
      <3>1. session' \in [Sessions -> Session]
        BY <1>5, SessionTypes DEF ReauthenticatePortalSession, RequestsInv
      <3> QED BY <1>5, <3>1, ReplyTypes DEF ReauthenticatePortalSession, opVars, keyVars
    <2>2. SessionsInv'
      <3>1. PICK s \in Sessions :
                 s = req[b].session /\ session[s] \in Session /\ session[s].state # "none"
        BY <1>5 DEF ReauthenticatePortalSession, RequestsInv
      <3>2. session' = [session EXCEPT ![s] = [session[s] EXCEPT !.password = p]]
        BY <1>5, <3>1 DEF ReauthenticatePortalSession
      <3>3. p = password[session[s].user] /\ ended' = ended /\ password' = password
        BY <1>5, <3>1 DEF ReauthenticatePortalSession, opVars
      <3>4. session'[s] = [session[s] EXCEPT !.password = p]
        BY <3>1, <3>2
      <3>5. /\ session'[s].state = session[s].state /\ session'[s].user = session[s].user
            /\ session'[s].current = session[s].current /\ session'[s].password = p
        BY <3>1, <3>4 DEF Session
      <3>6. \A x \in Sessions \ {s} : session'[x] = session[x]
        BY <3>2
      <3>7. Opened(session[s])'
        BY <3>1, <3>3, <3>5 DEF SessionsInv, Opened
      <3>8. ASSUME NEW x \in Sessions \ {s}, session'[x].state # "none"
            PROVE  Opened(session[x])'
        BY <3>3, <3>6, <3>8 DEF SessionsInv, Opened
      <3>9. ASSUME NEW x \in ended
            PROVE  session'[x].state = "revoked"
        <4>1. x \in Sessions /\ session[x].state = "revoked"
          BY <3>9 DEF SessionsInv
        <4> QED BY <4>1, <3>5, <3>6
      <3> QED BY <3>3, <3>7, <3>8, <3>9 DEF SessionsInv
    <2>3. RequestsInv'
      BY <1>5, SMTT(40)
      DEF ReauthenticatePortalSession, Replied, RequestsInv, Opened, opVars, Session
    <2> QED BY <1>0, <2>1, <2>2, <2>3, BoundaryFollows
  <1>6. ASSUME NEW m \in Memberships, SwitchPortalContext(b, m) PROVE PortalInv'
    <2>1. TypeOK'
      <3>1. [req[b] EXCEPT !.current = m] \in
                [session : Sessions \cup {0}, user : Users \cup {None}, current : Memberships \cup {0}]
        OBVIOUS
      <3> QED BY <1>6, <3>1 DEF SwitchPortalContext, opVars, keyVars
    <2>2. SessionsInv'
      BY <1>6 DEF SwitchPortalContext, SessionsInv, Opened, opVars
    <2>3. RequestsInv'
      BY <1>6 DEF SwitchPortalContext, Selectable, listMemberships, RequestsInv, Opened, opVars
    <2> QED BY <1>0, <2>1, <2>2, <2>3, BoundaryFollows
  <1> QED BY <1>1, <1>2, <1>3, <1>4, <1>5, <1>6

\* A key is made in a free slot.
LEMMA NewKeySlot ==
    ASSUME PortalInv, NEW f, NEW a, NEW by, NEW from, NewKey(f, a, by, from)
    PROVE  \E k \in Keys : /\ key[k].state = "none"
                           /\ key' = [f EXCEPT ![k] = [state |-> "active", account |-> a,
                                                       by |-> by, from |-> from]]
  <1> DEFINE free == {k \in Keys : key[k].state = "none"}
  <1>1. free \subseteq Nat /\ free # {}
    BY PortalAssumption DEF NewKey, Keys
  <1>2. FirstOf(free) \in free
    BY <1>1, FirstOfIn
  <1> QED BY <1>2 DEF NewKey

\* The owner's steps on service accounts and keys.
LEMMA AccessStep ==
    ASSUME PortalInv, NEW b \in Requests, applicationAccess(b)
    PROVE  PortalInv'
  <1> USE PortalAssumption DEF PortalInv, TypeOK, Stages
  <1>0. UNCHANGED <<opVars, session, login, ended>> /\ pc[b] = "served" /\ Replied(b)
    BY DEF applicationAccess, CreatePortalServiceAccount, IssuePortalKey, RevokePortalKey
  <1>1. SessionsInv' /\ RequestsInv'
    BY <1>0 DEF SessionsInv, RequestsInv, Opened, Replied, opVars
  <1>2. key' \in [Keys -> Key] /\ account' \subseteq Accounts => TypeOK'
    BY <1>0 DEF Replied, NoReq, opVars
  <1>3. ASSUME NEW a \in Accounts, CreatePortalServiceAccount(b, a) PROVE PortalInv'
    <2>1. KeysInv' /\ TypeOK'
      BY <1>2, <1>3 DEF CreatePortalServiceAccount, KeysInv
    <2> QED BY <1>1, <2>1, BoundaryFollows
  <1>4. ASSUME NEW a \in Accounts, NEW from \in Keys \cup {0}, IssuePortalKey(b, a, from)
        PROVE PortalInv'
    <2>1. PICK k \in Keys : /\ key[k].state = "none"
                            /\ key' = [key EXCEPT ![k] = [state |-> "active", account |-> a,
                                                          by |-> req[b].user, from |-> from]]
      BY <1>4, NewKeySlot DEF IssuePortalKey
    <2>2. a \in account /\ req[b].user = OwnerOf[AccountOrg[a]]
      BY <1>4 DEF IssuePortalKey, AccountInContext, requireCompanyOwner
    <2>3. TypeOK'
      <3>1. [state |-> "active", account |-> a, by |-> req[b].user, from |-> from] \in Key
        BY DEF Key, Keys
      <3> QED BY <1>2, <1>4, <2>1, <3>1 DEF IssuePortalKey
    <2>4. KeysInv'
      BY <1>4, <2>1, <2>2 DEF IssuePortalKey, KeysInv
    <2> QED BY <1>1, <2>3, <2>4, BoundaryFollows
  <1>5. ASSUME NEW k \in Keys, RevokePortalKey(b, k) PROVE PortalInv'
    <2>1. TypeOK'
      <3>1. [key[k] EXCEPT !.state = "revoked"] \in Key
        BY ZenonT(40) DEF Key
      <3> QED BY <1>2, <1>5, <3>1 DEF RevokePortalKey
    <2>2. KeysInv'
      BY <1>5 DEF RevokePortalKey, KeysInv, Key
    <2> QED BY <1>1, <2>1, <2>2, BoundaryFollows
  <1> QED BY <1>3, <1>4, <1>5 DEF applicationAccess

\* Ending live sessions leaves the others and what they say of users alone.
LEMMA EndTypes ==
    ASSUME TypeOK, NEW S \in SUBSET Sessions, EndSessions(S)
    PROVE  session' \in [Sessions -> Session] /\ ended' \subseteq Sessions
  <1>1. \A s \in Sessions : session[s] \in Session /\ [session[s] EXCEPT !.state = "revoked"] \in Session
    <2> SUFFICES ASSUME NEW s \in Sessions
                 PROVE  session[s] \in Session /\ [session[s] EXCEPT !.state = "revoked"] \in Session
      OBVIOUS
    <2>1. session[s] \in Session
      BY DEF TypeOK
    <2> QED BY <2>1 DEF Session
  <1> QED BY <1>1 DEF EndSessions, TypeOK

\* The operator's steps on users and memberships.
LEMMA OperatorSessionStep ==
    ASSUME PortalInv, changes < MaxChanges, changes' = changes + 1,
           \/ \E u \in Users : RotateHumanPassword(u) \/ DisableHuman(u)
           \/ \E m \in Memberships : DisableMembership(m) \/ ProvisionHuman(m)
    PROVE  PortalInv'
  <1> USE PortalAssumption DEF PortalInv, TypeOK
  <1>0. UNCHANGED <<keyVars, pc, req>> /\ changes' \in 0 .. MaxChanges
    BY DEF RotateHumanPassword, DisableHuman, DisableMembership, ProvisionHuman, sessVars
  <1>1. KeysInv'
    BY <1>0 DEF KeysInv, keyVars
  <1>2. ASSUME NEW u \in Users, RotateHumanPassword(u) PROVE PortalInv'
    <2>1. LiveOf(u) \in SUBSET Sessions
      BY DEF LiveOf
    <2>2. EndSessions(LiveOf(u))
      BY <1>2 DEF RotateHumanPassword, EndedByPassword
    <2>3. /\ \A s \in Sessions :
                /\ session'[s].user = session[s].user /\ session'[s].current = session[s].current
                /\ session'[s].password = session[s].password
                /\ session'[s].overlap = session[s].overlap
                /\ session'[s].state = IF s \in LiveOf(u) THEN "revoked" ELSE session[s].state
          /\ ended' = ended \cup LiveOf(u)
      BY <2>1, <2>2 DEF EndSessions, Session
    <2>4. ASSUME NEW b \in Requests
          PROVE  /\ login'[b].user = login[b].user /\ login'[b].current = login[b].current
                 /\ login'[b].password = login[b].password /\ login'[b].state = login[b].state
                 /\ login[b].overlap \/ login[b].user = u => login'[b].overlap
                 /\ login'[b] \in Session
      <3>1. login[b] \in Session
        OBVIOUS
      <3>2. login'[b] = IF login[b].user = u THEN [login[b] EXCEPT !.overlap = TRUE] ELSE login[b]
        BY <1>2 DEF RotateHumanPassword
      <3>3. CASE login[b].user = u
        BY <3>1, <3>2, <3>3, ZenonT(40) DEF Session
      <3>4. CASE login[b].user # u
        BY <3>1, <3>2, <3>4
      <3> QED BY <3>3, <3>4
    <2>5. \A v \in Users : v # u => password'[v] = password[v]
      BY <1>2 DEF RotateHumanPassword
    <2>6. TypeOK'
      <3>1. login' \in [Requests -> Session]
        BY <1>2, <2>4 DEF RotateHumanPassword
      <3>2. password' \in [Users -> Passwords]
        BY <1>2 DEF RotateHumanPassword, Passwords
      <3> QED BY <1>0, <1>2, <2>1, <2>2, <3>1, <3>2, EndTypes DEF RotateHumanPassword, keyVars
    <2>7. SessionsInv'
      BY <2>3, <2>5 DEF SessionsInv, Opened, LiveOf
    <2>8. RequestsInv'
      <3>1. ASSUME NEW b \in Requests, pc[b] = "login"
            PROVE  login'[b].state = "live" /\ Opened(login[b])'
        <4>1. login[b].state = "live" /\ Opened(login[b])
          BY <3>1 DEF RequestsInv
        <4>2. CASE login[b].user = u
          BY <2>4, <4>1, <4>2 DEF Opened
        <4>3. CASE login[b].user # u
          BY <2>4, <2>5, <4>1, <4>3 DEF Opened
        <4> QED BY <4>2, <4>3
      <3>2. ASSUME NEW b \in Requests, pc[b] \in {"served", "switch"}
            PROVE  session'[req[b].session].state # "none"
                   /\ session'[req[b].session].user = req[b].user
        BY <2>3, <3>2 DEF RequestsInv
      <3> QED BY <1>0, <3>1, <3>2 DEF RequestsInv
    <2> QED BY <1>1, <2>6, <2>7, <2>8, BoundaryFollows
  <1>3. ASSUME NEW S \in SUBSET {s \in Sessions : session[s].state = "live"}, EndSessions(S),
               UNCHANGED <<password, login>>,
               enabled' \subseteq Users, member' \subseteq Memberships
        PROVE PortalInv'
    <2>1. /\ \A s \in Sessions :
                /\ session'[s].user = session[s].user /\ session'[s].current = session[s].current
                /\ session'[s].password = session[s].password
                /\ session'[s].overlap = session[s].overlap
                /\ session'[s].state = IF s \in S THEN "revoked" ELSE session[s].state
          /\ ended' = ended \cup S
      BY <1>3 DEF EndSessions, Session
    <2>2. TypeOK'
      BY <1>0, <1>3, EndTypes DEF keyVars
    <2>3. SessionsInv'
      BY <1>3, <2>1 DEF SessionsInv, Opened
    <2>4. RequestsInv'
      BY <1>0, <1>3, <2>1 DEF RequestsInv, Opened
    <2> QED BY <1>1, <2>2, <2>3, <2>4, BoundaryFollows
  <1>4. ASSUME NEW u \in Users, DisableHuman(u) PROVE PortalInv'
    BY <1>3, <1>4 DEF DisableHuman, LiveOf
  <1>5. ASSUME NEW m \in Memberships, DisableMembership(m) PROVE PortalInv'
    BY <1>3, <1>5 DEF DisableMembership, LiveAt
  <1>6. ASSUME NEW m \in Memberships, ProvisionHuman(m) PROVE PortalInv'
    <2>1. TypeOK'
      BY <1>0, <1>6 DEF ProvisionHuman, sessVars, keyVars
    <2>2. SessionsInv' /\ RequestsInv'
      BY <1>6 DEF ProvisionHuman, sessVars, SessionsInv, RequestsInv, Opened
    <2> QED BY <1>1, <2>1, <2>2, BoundaryFollows
  <1> QED BY <1>2, <1>4, <1>5, <1>6

\* The operator's steps on keys, and their expiry.
LEMMA OperatorKeyStep ==
    ASSUME PortalInv, UNCHANGED <<enabled, password, member, sessVars, account, ended>>,
           changes' \in 0 .. MaxChanges,
           \/ \E a \in Accounts : RotateKey(a)
           \/ \E k \in Keys : RevokeKey(k) \/ KeyExpires(k)
    PROVE  PortalInv'
  <1> USE PortalAssumption DEF PortalInv, TypeOK
  <1>0. SessionsInv' /\ RequestsInv'
    BY DEF sessVars, SessionsInv, RequestsInv, Opened
  <1>1. key' \in [Keys -> Key] => TypeOK'
    BY DEF sessVars
  <1>2. ASSUME NEW a \in Accounts, RotateKey(a) PROVE PortalInv'
    <2> DEFINE f == [k \in Keys |-> IF key[k].account = a THEN [key[k] EXCEPT !.state = "revoked"]
                                    ELSE key[k]]
    <2>1. PICK k \in Keys : key' = [f EXCEPT ![k] = [state |-> "active", account |-> a,
                                                     by |-> None, from |-> 0]]
      <3>1. NewKey(f, a, None, 0)
        BY <1>2 DEF RotateKey
      <3> HIDE DEF f
      <3> QED BY <3>1, NewKeySlot
    <2>2. \A j \in Keys : f[j] \in Key /\ f[j].account = key[j].account /\ f[j].by = key[j].by
                          /\ f[j].state \in {key[j].state, "revoked"}
      BY ZenonT(40) DEF Key
    <2>3. [state |-> "active", account |-> a, by |-> None, from |-> 0] \in Key
      BY DEF Key
    <2>4. a \in account
      BY <1>2 DEF RotateKey
    <2>5. f \in [Keys -> Key]
      BY <2>2
    <2> HIDE DEF f
    <2>6. TypeOK'
      BY <1>1, <2>1, <2>3, <2>5
    <2>7. KeysInv'
      BY <2>1, <2>2, <2>4, <2>5 DEF KeysInv
    <2> QED BY <1>0, <2>6, <2>7, BoundaryFollows
  <1>3. ASSUME NEW k \in Keys, RevokeKey(k) \/ KeyExpires(k) PROVE PortalInv'
    <2>1. PICK x \in {"revoked", "expired"} :
             key' = [key EXCEPT ![k].state = x] /\ key[k].state \in {"active", "expired"}
      BY <1>3 DEF RevokeKey, KeyExpires
    <2>2. [key[k] EXCEPT !.state = x] \in Key
      BY ZenonT(40) DEF Key
    <2>3. TypeOK'
      BY <1>1, <2>1, <2>2
    <2>4. KeysInv'
      BY <2>1 DEF KeysInv, Key
    <2> QED BY <1>0, <2>3, <2>4, BoundaryFollows
  <1> QED BY <1>2, <1>3

\* Every step preserves the invariant.
LEMMA InvStep == PortalInv /\ [Next]_vars => PortalInv'
  <1> SUFFICES ASSUME PortalInv, [Next]_vars PROVE PortalInv'
    OBVIOUS
  <1>1. ASSUME NEW b \in Requests,
               \/ \E s \in Sessions : AuthenticatePortalSession(b, s)
               \/ signIn(b) \/ signOut(b) \/ serveAPI(b)
        PROVE  PortalInv'
    BY <1>1, SignInStep, SessionStep, AccessStep DEF serveAPI
  <1>2. CASE Operator
    <2>1. changes' \in 0 .. MaxChanges
      BY <1>2, PortalAssumption DEF Operator, PortalInv, TypeOK
    <2>2. CASE \/ \E u \in Users : RotateHumanPassword(u) \/ DisableHuman(u)
               \/ \E m \in Memberships : DisableMembership(m) \/ ProvisionHuman(m)
      BY <1>2, <2>2, OperatorSessionStep DEF Operator
    <2>3. CASE /\ \/ \E a \in Accounts : RotateKey(a)
                  \/ \E k \in Keys : RevokeKey(k)
               /\ UNCHANGED <<enabled, password, member>>
      BY <2>1, <2>3, OperatorKeyStep DEF RotateKey, RevokeKey
    <2> QED BY <1>2, <2>2, <2>3 DEF Operator
  <1>3. ASSUME NEW k \in Keys, KeyExpires(k) PROVE PortalInv'
    <2>1. changes' \in 0 .. MaxChanges
      BY <1>3 DEF KeyExpires, opVars, PortalInv, TypeOK
    <2> QED BY <1>3, <2>1, OperatorKeyStep DEF KeyExpires, opVars
  <1>4. CASE UNCHANGED vars
    <2>1. TypeOK'
      BY <1>4 DEF PortalInv, TypeOK, vars, opVars, sessVars, keyVars
    <2>2. SessionsInv' /\ RequestsInv' /\ KeysInv'
      BY <1>4 DEF PortalInv, SessionsInv, RequestsInv, KeysInv, Opened, vars, opVars, sessVars,
                  keyVars
    <2> QED BY <2>1, <2>2, BoundaryFollows DEF PortalInv
  <1> QED BY <1>1, <1>2, <1>3, <1>4 DEF Next

----------------------------------------------------------------------------
(* The theorems.                                                           *)

\* Sessions and keys are well formed and stay inside their organisation, whatever
\* tabs, operators and rotations do at the same time
\* (SwitchPortalContext, IssuePortalKey, RotateKey).
THEOREM PortalInvariance == Spec => []PortalInv
  BY InitInv, InvStep, PTL DEF Spec

\* A live session has its user's present password, unless its sign-in overlapped
\* the rotation (CreatePortalSession against RotateHumanPassword).
THEOREM OldPasswords == Spec => []OldPasswordOnlyByOverlap
  <1>1. PortalInv => OldPasswordOnlyByOverlap
    BY DEF PortalInv, SessionsInv, Opened, OldPasswordOnlyByOverlap
  <1> QED BY <1>1, PortalInvariance, PTL

\* A request is let in only for an enabled user in a membership he still has, and
\* never with a session that was signed out or revoked
\* (loadSession, the triggers of migration 0005).
THEOREM Standing == Spec => ServedInStanding
  <1>1. PortalInv /\ [Next]_vars => [AllLetIn]_vars
    <2> SUFFICES ASSUME PortalInv, Next, NEW b \in Requests, pc[b] = "idle", pc'[b] = "served"
                 PROVE  /\ req'[b].user \in enabled
                        /\ req'[b].current \in listMemberships(req'[b].user)
                        /\ req'[b].session \notin ended
      BY DEF AllLetIn, LetIn
    <2>1. PICK s \in Sessions : AuthenticatePortalSession(b, s)
      <3>1. pc \in [Requests -> Stages]
        BY DEF PortalInv, TypeOK
      <3> QED
        BY <3>1, ZenonT(40)
        DEF Next, signIn, signOut, serveAPI, applicationAccess, Operator,
            AuthenticatePortalSession, CreatePortalSession, InsertSession, RevokePortalSession,
            Answered, SwitchWritten, ReauthenticatePortalSession, SwitchPortalContext,
            CreatePortalServiceAccount, IssuePortalKey, RevokePortalKey, Replied,
            RotateHumanPassword, DisableHuman, DisableMembership, ProvisionHuman,
            RotateKey, RevokeKey, KeyExpires, sessVars
    <2>2. /\ req'[b] = [session |-> s, user |-> session[s].user, current |-> session[s].current]
          /\ session[s].state = "live" /\ session[s].user \in enabled /\ session[s].current \in member
      BY <2>1 DEF AuthenticatePortalSession, loadSession, PortalInv, TypeOK
    <2>3. MemberUser[session[s].current] = session[s].user /\ s \notin ended
      BY <2>2 DEF PortalInv, SessionsInv, Opened
    <2> QED BY <2>2, <2>3 DEF listMemberships
  <1> QED BY <1>1, PortalInvariance, PTL DEF Spec, ServedInStanding
=============================================================================
