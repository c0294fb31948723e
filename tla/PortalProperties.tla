-------------------------- MODULE PortalProperties --------------------------
(***************************************************************************)
(* What the portal's sessions and keys promise.                            *)
(***************************************************************************)
EXTENDS PortalAccess

\* A session that is still alive was opened with the user's present password, except
\* one whose sign-in was under way while the password was rotated: it had verified
\* the old one and was inserted after the trigger had looked (CreatePortalSession
\* reads the hash without a lock).
OldPasswordOnlyByOverlap ==
    \A s \in Sessions : session[s].state = "live" /\ session[s].user \in enabled =>
        session[s].password = password[session[s].user] \/ session[s].overlap

\* A session is always in a membership of its own user, and a key that the gateway
\* accepts acts for an organisation whose owner issued it, although a request works
\* with the context it read and the session may have been switched, by another
\* browser tab, before the key is made (SwitchPortalContext, IssuePortalKey).
TenantBoundary ==
    /\ \A s \in Sessions : session[s].state # "none" =>
           MemberUser[session[s].current] = session[s].user
    /\ \A k \in Keys : \A o \in Authenticate(k) : key[k].by \in {None, OwnerOf[o]}

\* What it takes to pass the session check.
LetIn(b) ==
    pc[b] = "idle" /\ pc'[b] = "served" =>
        /\ req'[b].user \in enabled /\ req'[b].current \in listMemberships(req'[b].user)
        /\ req'[b].session \notin ended
AllLetIn == \A b \in Requests : LetIn(b)

\* A request is let in only in a context its user still has, whatever was disabled
\* while the session was being opened or switched (loadSession joins the rows anew);
\* and a session that was signed out, or whose user, password or current membership
\* was taken away, serves no further request, also after the membership was
\* provisioned again (the triggers of migration 0005).
ServedInStanding == [][AllLetIn]_vars

----------------------------------------------------------------------------
(* The inductive invariant, one part per relation.                         *)

\* The facts of a session, whether it is about to be inserted or is there: it is in
\* a membership of its user, and has the present password unless it overlapped a
\* rotation.
Opened(x) ==
    /\ x.user \in Users /\ x.current \in Memberships /\ MemberUser[x.current] = x.user
    /\ x.state = "live" => x.password = password[x.user] \/ x.overlap

\* What has ended stays so: the slot of a new session was never used.
SessionsInv ==
    /\ \A s \in Sessions : session[s].state # "none" => Opened(session[s])
    /\ \A s \in ended : session[s].state = "revoked"

\* A request works for the user of the session it read, in a membership of his.
RequestsInv ==
    \A b \in Requests :
        /\ pc[b] = "login" => login[b].state = "live" /\ Opened(login[b])
        /\ pc[b] \in {"served", "switch"} =>
               /\ req[b].session \in Sessions /\ req[b].current \in Memberships
               /\ session[req[b].session].state # "none"
               /\ session[req[b].session].user = req[b].user
               /\ MemberUser[req[b].current] = req[b].user

\* A key in use was made by the operator or by the owner of its organisation.
KeysInv ==
    \A k \in Keys : key[k].state \in {"active", "expired"} =>
        key[k].account \in account /\ key[k].by \in {None, OwnerOf[AccountOrg[key[k].account]]}

\* Sessions and keys are well formed and stay inside their organisation, whatever
\* tabs, operators and rotations do at the same time
\* (SwitchPortalContext, IssuePortalKey, RotateKey).
PortalInv == TypeOK /\ TenantBoundary /\ SessionsInv /\ RequestsInv /\ KeysInv
============================================================================
