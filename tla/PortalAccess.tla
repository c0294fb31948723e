---------------------------- MODULE PortalAccess ----------------------------
(***************************************************************************)
(* The portal's sessions and the keys made through them: sign-in with a    *)
(* password, concurrent requests, the choice of a context, password        *)
(* confirmation and sign-out, service accounts and API keys, against an    *)
(* operator who rotates passwords and keys and disables users and          *)
(* memberships.                                                            *)
(*                                                                         *)
(* Transactions run at the database's default, read committed.             *)
(* CreatePortalSession reads the password hash and the memberships without *)
(* a lock and inserts the session after the hash was verified, so it takes *)
(* two steps.  The other session operations lock the session row, for      *)
(* which the revocation triggers wait; but SwitchPortalContext reads the   *)
(* membership it goes to without a lock, and that membership's trigger     *)
(* does not look at a session that is still elsewhere, so it takes two     *)
(* steps as well.  A request is authenticated in one transaction and       *)
(* served in another, with the session as it was read.                     *)
(*                                                                         *)
(* Passwords are numbered: the hash of a user matches his newest.  The     *)
(* owner of an organisation is never replaced and stays an enabled person  *)
(* of it (see Directory).                                                  *)
(***************************************************************************)
EXTENDS Integers, FiniteSets

CONSTANTS
    Users,
    Organisations,
    OwnerOf,       \* [Organisations -> Users]: the current ownerships
    Memberships,   \* 1 .. n, in the order of listMemberships
    MemberUser,    \* [Memberships -> Users]
    MemberOrg,     \* [Memberships -> Organisations]
    Requests,      \* HTTP requests under way at a time
    Accounts,      \* service accounts, named before they are made
    AccountOrg,    \* [Accounts -> Organisations]
    Provisioned,   \* the accounts an operator has provisioned
    MaxSessions, MaxKeys, MaxPasswords, MaxChanges,  \* bounds
    None

ASSUME PortalAssumption ==
    /\ OwnerOf \in [Organisations -> Users] /\ Memberships \subseteq Nat \ {0}
    /\ MemberUser \in [Memberships -> Users] /\ MemberOrg \in [Memberships -> Organisations]
    /\ AccountOrg \in [Accounts -> Organisations]
    /\ Provisioned \subseteq Accounts
    /\ {MaxSessions, MaxKeys, MaxChanges} \subseteq Nat /\ MaxPasswords \in Nat \ {0}

Sessions  == 1 .. MaxSessions
Keys      == 1 .. MaxKeys
Passwords == 1 .. MaxPasswords

VARIABLES
    enabled,   \* the enabled users
    password,  \* [Users -> Passwords]: the one the hash matches
    member,    \* the enabled memberships
    session,   \* [Sessions -> Session]: portal_sessions
    pc,        \* [Requests -> Stages]
    login,     \* [Requests -> Session]: what a sign-in is going to insert
    req,       \* [Requests -> the session as the request's first transaction read it]
    account,   \* the service accounts there are
    key,       \* [Keys -> Key]: api_keys
    changes,   \* operator commands so far
    ended      \* history: the sessions that a command or a sign-out ended

sessVars == <<session, pc, login, req>>
keyVars  == <<account, key>>
opVars   == <<enabled, password, member, changes>>
vars     == <<opVars, sessVars, keyVars, ended>>

Session == [state : {"none", "live", "revoked"}, user : Users \cup {None},
            current : Memberships \cup {0}, password : Passwords \cup {0}, overlap : BOOLEAN]
NoSession == [state |-> "none", user |-> None, current |-> 0, password |-> 0,
              overlap |-> FALSE]
Key == [state : {"none", "active", "expired", "revoked"}, account : Accounts \cup {None},
        by : Users \cup {None}, from : 0 .. MaxKeys]
Stages == {"idle", "login", "served", "switch"}

TypeOK ==
    /\ enabled \subseteq Users /\ member \subseteq Memberships
    /\ password \in [Users -> Passwords]
    /\ session \in [Sessions -> Session]
    /\ pc \in [Requests -> Stages]
    /\ login \in [Requests -> Session]
    /\ req \in [Requests -> [session : Sessions \cup {0}, user : Users \cup {None},
                            current : Memberships \cup {0}]]
    /\ account \subseteq Accounts
    /\ key \in [Keys -> Key]
    /\ changes \in 0 .. MaxChanges
    /\ ended \subseteq Sessions

NoReq == [session |-> 0, user |-> None, current |-> 0]

Init ==
    /\ enabled = Users /\ member = Memberships
    /\ password = [u \in Users |-> 1]
    /\ session = [s \in Sessions |-> NoSession]
    /\ pc = [b \in Requests |-> "idle"]
    /\ login = [b \in Requests |-> NoSession]
    /\ req = [b \in Requests |-> NoReq]
    /\ account = Provisioned
    /\ changes = 0 /\ ended = {}
    /\ key = [k \in Keys |-> [state |-> "none", account |-> None, by |-> None, from |-> 0]]

----------------------------------------------------------------------------
(* Signing in.                                                             *)

listMemberships(u) == {m \in member : MemberUser[m] = u}

FirstOf(S) == CHOOSE n \in S : \A m \in S : n <= m

\* The hash and the memberships are read and the password is verified.
CreatePortalSession(b, u, p) ==
    /\ pc[b] = "idle"
    /\ u \in enabled /\ p = password[u] /\ listMemberships(u) # {}
    /\ pc' = [pc EXCEPT ![b] = "login"]
    /\ login' = [login EXCEPT ![b] =
                    [NoSession EXCEPT !.state = "live", !.user = u, !.password = p,
                                      !.current = FirstOf(listMemberships(u))]]
    /\ UNCHANGED <<opVars, session, req, keyVars, ended>>

\* The session is inserted and its token goes out as a cookie; an earlier session of
\* the same browser is left to itself.
InsertSession(b) ==
    LET free == {s \in Sessions : session[s].state = "none"} IN
    /\ pc[b] = "login" /\ free # {}
    /\ session' = [session EXCEPT ![FirstOf(free)] = login[b]]
    /\ pc' = [pc EXCEPT ![b] = "idle"]
    /\ login' = [login EXCEPT ![b] = NoSession]
    /\ UNCHANGED <<opVars, req, keyVars, ended>>

----------------------------------------------------------------------------
(* Requests.                                                               *)

\* Mutant: the current membership is taken as it is.
loadSessionUserOnly(s) ==
    session[s].state = "live" /\ session[s].user \in enabled

loadSession(s) ==
    /\ session[s].state = "live"
    /\ session[s].user \in enabled /\ session[s].current \in member

\* A request that carries the cookie passes the session check; what it read is what
\* its handler works with.
AuthenticatePortalSession(b, s) ==
    /\ pc[b] = "idle" /\ loadSession(s)
    /\ pc' = [pc EXCEPT ![b] = "served"]
    /\ req' = [req EXCEPT ![b] = [session |-> s, user |-> session[s].user,
                                  current |-> session[s].current]]
    /\ UNCHANGED <<opVars, session, login, keyVars, ended>>

\* The request is over.
Replied(b) ==
    /\ pc' = [pc EXCEPT ![b] = "idle"]
    /\ req' = [req EXCEPT ![b] = NoReq]

\* The rows that another transaction waits for are locked by a switch under way.
Free(S) == \A b \in Requests : pc[b] = "switch" => req[b].session \notin S

\* Sign-out: the session is revoked if it is still good.
RevokePortalSession(b) ==
    LET s == req[b].session IN
    /\ pc[b] = "served" /\ Free({s})
    /\ session' = IF loadSession(s) THEN [session EXCEPT ![s].state = "revoked"] ELSE session
    /\ ended' = IF loadSession(s) THEN ended \cup {s} ELSE ended
    /\ Replied(b)
    /\ UNCHANGED <<opVars, login, keyVars>>

\* The password is confirmed: the session counts as authenticated now, with it.
ReauthenticatePortalSession(b, p) ==
    LET s == req[b].session IN
    /\ pc[b] = "served" /\ Free({s})
    /\ loadSession(s) /\ p = password[session[s].user]
    /\ session' = [session EXCEPT ![s].password = p]
    /\ Replied(b)
    /\ UNCHANGED <<opVars, login, keyVars, ended>>

Selectable(s) == listMemberships(session[s].user)

\* The context is switched: the session is locked and the choice looked up, ...
SwitchPortalContext(b, m) ==
    /\ pc[b] = "served"
    /\ loadSession(req[b].session) /\ m \in Selectable(req[b].session)
    /\ Free({req[b].session})
    /\ pc' = [pc EXCEPT ![b] = "switch"]
    /\ req' = [req EXCEPT ![b].current = m]
    /\ UNCHANGED <<opVars, session, login, keyVars, ended>>

\* ... and then written.
SwitchWritten(b) ==
    /\ pc[b] = "switch"
    /\ session' = [session EXCEPT ![req[b].session].current = req[b].current]
    /\ Replied(b)
    /\ UNCHANGED <<opVars, login, keyVars, ended>>

\* A page or a listing is answered, or the request is refused.
Answered(b) ==
    /\ pc[b] = "served"
    /\ Replied(b)
    /\ UNCHANGED <<opVars, session, login, keyVars, ended>>

----------------------------------------------------------------------------
(* Service accounts and keys.                                              *)

\* The organisation of the request's context, if the user owns it.
requireCompanyOwner(b, o) == o = MemberOrg[req[b].current] /\ OwnerOf[o] = req[b].user

CreatePortalServiceAccount(b, a) ==
    /\ pc[b] = "served" /\ requireCompanyOwner(b, AccountOrg[a])
    /\ a \notin account
    /\ account' = account \cup {a}
    /\ Replied(b)
    /\ UNCHANGED <<opVars, session, login, key, ended>>

\* Mutant: the account is found by its id alone.
AccountInContextAny(b, a) ==
    a \in account /\ OwnerOf[MemberOrg[req[b].current]] = req[b].user

AccountInContext(b, a) == a \in account /\ requireCompanyOwner(b, AccountOrg[a])

NewKey(f, a, by, from) ==
    LET free == {k \in Keys : key[k].state = "none"} IN
    /\ free # {}
    /\ key' = [f EXCEPT ![FirstOf(free)] =
                  [state |-> "active", account |-> a, by |-> by, from |-> from]]

\* Issue (from nothing) and rotation with overlap (from an active key of the
\* account, which stays).
IssuePortalKey(b, a, from) ==
    /\ pc[b] = "served" /\ AccountInContext(b, a)
    /\ from \in {0} \cup {k \in Keys : key[k].account = a /\ key[k].state = "active"}
    /\ NewKey(key, a, req[b].user, from)
    /\ Replied(b)
    /\ UNCHANGED <<opVars, session, login, account, ended>>

RevokePortalKey(b, k) ==
    /\ pc[b] = "served"
    /\ key[k].state \in {"active", "expired"} /\ AccountInContext(b, key[k].account)
    /\ key' = [key EXCEPT ![k].state = "revoked"]
    /\ Replied(b)
    /\ UNCHANGED <<opVars, session, login, account, ended>>

\* The operator's rotation ends every key of the account.
RotateKey(a) ==
    /\ a \in account
    /\ NewKey([k \in Keys |-> IF key[k].account = a THEN [key[k] EXCEPT !.state = "revoked"]
                              ELSE key[k]], a, None, 0)
    /\ UNCHANGED <<sessVars, account, ended>>

RevokeKey(k) ==
    /\ key[k].state \in {"active", "expired"}
    /\ key' = [key EXCEPT ![k].state = "revoked"]
    /\ UNCHANGED <<sessVars, account, ended>>

\* What the gateway lets a key do: act for its account's organisation.
Authenticate(k) == IF key[k].state = "active" THEN {AccountOrg[key[k].account]} ELSE {}

KeyExpires(k) ==
    /\ key[k].state = "active" /\ key[k].by # None
    /\ key' = [key EXCEPT ![k].state = "expired"]
    /\ UNCHANGED <<opVars, sessVars, account, ended>>

----------------------------------------------------------------------------
(* The operator.                                                           *)

EndSessions(S) ==
    /\ session' = [s \in Sessions |-> IF s \in S THEN [session[s] EXCEPT !.state = "revoked"]
                                      ELSE session[s]]
    /\ ended' = ended \cup S

LiveOf(u) == {s \in Sessions : session[s].state = "live" /\ session[s].user = u}
LiveAt(m) == {s \in Sessions : session[s].state = "live" /\ session[s].current = m}

\* Mutant: a new password ends no session.
EndedByPasswordNone(u) == {}

EndedByPassword(u) == LiveOf(u)

\* A sign-in under way goes on with what it read.
RotateHumanPassword(u) ==
    /\ password[u] < MaxPasswords /\ Free(EndedByPassword(u))
    /\ password' = [password EXCEPT ![u] = @ + 1]
    /\ EndSessions(EndedByPassword(u))
    /\ login' = [b \in Requests |-> IF login[b].user = u THEN [login[b] EXCEPT !.overlap = TRUE]
                                    ELSE login[b]]
    /\ UNCHANGED <<enabled, member, pc, req, keyVars>>

\* An owner cannot be disabled.
DisableHuman(u) ==
    /\ u \in enabled /\ (\A o \in Organisations : OwnerOf[o] # u) /\ Free(LiveOf(u))
    /\ enabled' = enabled \ {u}
    /\ EndSessions(LiveOf(u))
    /\ UNCHANGED <<password, member, pc, login, req, keyVars>>

DisableMembership(m) ==
    /\ m \in member /\ Free(LiveAt(m))
    /\ member' = member \ {m}
    /\ EndSessions(LiveAt(m))
    /\ UNCHANGED <<enabled, password, pc, login, req, keyVars>>

ProvisionHuman(m) ==
    /\ m \notin member /\ MemberUser[m] \in enabled
    /\ member' = member \cup {m}
    /\ UNCHANGED <<enabled, password, sessVars, keyVars, ended>>

Operator ==
    /\ changes < MaxChanges
    /\ changes' = changes + 1
    /\ \/ \E u \in Users : RotateHumanPassword(u) \/ DisableHuman(u)
       \/ \E m \in Memberships : DisableMembership(m) \/ ProvisionHuman(m)
       \/ /\ \/ \E a \in Accounts : RotateKey(a)
             \/ \E k \in Keys : RevokeKey(k)
          /\ UNCHANGED <<enabled, password, member>>

----------------------------------------------------------------------------
\* The sign-in form; a wrong password or a user without a context changes nothing.
signIn(b) ==
    \/ \E u \in Users : \E p \in Passwords : CreatePortalSession(b, u, p)
    \/ InsertSession(b)

signOut(b) == RevokePortalSession(b)

\* createServiceAccount, issueKey (rotation names the key it replaces) and revokeKey.
applicationAccess(b) ==
    \/ \E a \in Accounts : \/ CreatePortalServiceAccount(b, a)
                           \/ \E from \in Keys \cup {0} : IssuePortalKey(b, a, from)
    \/ \E k \in Keys : RevokePortalKey(b, k)

\* The routes of the portal's API.
serveAPI(b) ==
    \/ Answered(b) \/ SwitchWritten(b)
    \/ \E p \in Passwords : ReauthenticatePortalSession(b, p)
    \/ \E m \in Memberships : SwitchPortalContext(b, m)
    \/ applicationAccess(b)

Next ==
    \/ \E b \in Requests : \/ \E s \in Sessions : AuthenticatePortalSession(b, s)
                           \/ signIn(b) \/ signOut(b) \/ serveAPI(b)
    \/ Operator
    \/ \E k \in Keys : KeyExpires(k)

Spec == Init /\ [][Next]_vars

============================================================================
