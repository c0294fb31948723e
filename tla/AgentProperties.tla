-------------------------- MODULE AgentProperties --------------------------
(***************************************************************************)
(* What an agent session promises the company and the employee.            *)
(***************************************************************************)
EXTENDS AgentAccess

\* A token that the tables call live is the newest of its grant, the grant is live,
\* and its user, person and identity are enabled, whatever mints, repeated mints,
\* logouts and offboardings happened in between (MintAgentCredential,
\* RevokeAgentGrant and the triggers of migration 0014).
LiveTokenAuthority ==
    \A n \in Gens : token[n] = "live" =>
        /\ n = Newest /\ grant.status = "live"
        /\ identity = "enabled" /\ user[Employee] = "enabled" /\ person[Employee] = "enabled"

\* A mint that arrived twice leaves no usable token behind, also when the caller
\* had read the first answer and the repetition came late
\* (MintAgentCredential, response_unrecoverable).
ReplayLeavesNoToken ==
    \A k \in Keys : mint[k].state = "response_unrecoverable" =>
        token[mint[k].gen] = "revoked"

\* The session holds the newest of the tokens its requests were given: two requests
\* that renew the credential do not leave the session with the one the other
\* mint revoked (the mutex of EnsureHumanCredential, held across the mint).
HeldIsLatest ==
    \A c \in Callers : gen[c] <= held

\* The step admits request c for a model he is shown, with a token he was left.
ShownTo(c) ==
    pc[c] = "send" /\ pc'[c] = "stream" =>
        /\ InStanding(Employee)
        /\ alias'[c] \in LoadAccess(Employee).shown[Employee] \cap frozen
        /\ gen[c] \notin offboarded

AllShown == \A c \in Requests : ShownTo(c)

\* A request is admitted only while the employee is in good standing, for a model
\* of the context chosen at login that the access page shows him at that moment:
\* the token alone never suffices after a membership, a group, its people or its
\* models changed, and a token issued before an offboarding is not accepted again
\* even after the person was provisioned anew (AuthenticateHuman joins the policy
\* on every call; the triggers of migration 0014).
AdmittedIsShown == [][AllShown]_vars

StaysOffboarded == grant.status = "identity_or_person_disabled" => grant' = grant

\* A grant that offboarding revoked stays revoked; only a client's own logout can
\* be undone by a later mint (MintAgentCredential's check of revocation_reason).
OffboardingIsTerminal ==
    [][StaysOffboarded]_vars

\* The session's mutex is held by a caller whose HTTP call is under way, and by no
\* other: every way out of EnsureHumanCredential gives it back, so a request that
\* waits for it, and the revocation on exit, wait no longer than that call.
MutexHeldByCall ==
    \A c \in Callers : lock = c <=> pc[c] = "wait"

\* Generations are issued one after the other.
IssuedInOrder == \E n \in 0 .. MaxMints : Issued = 1 .. n

UsedKeys == {k \in Keys : mint[k].state # "none"}

\* Every key was used for one generation and made by the process; an offboarded
\* generation is revoked, and a live grant has the aliases frozen at login.
GrantSound ==
    /\ Newest = Cardinality(UsedKeys)
    /\ \A k \in Keys :
          /\ mint[k].state # "none" => mint[k].gen \in Issued
          /\ wire[k] # {} \/ mint[k].state # "none" => k <= keys
          /\ answer[k] = "created" => mint[k].state # "none"
    /\ \A n \in offboarded : token[n] = "revoked"
    /\ phase = "login" => /\ grant.status = "none" /\ keys = 0
                          /\ \A c \in Callers : pc[c] # "queued"
    /\ grant.status = "live" => grant.aliases = frozen
    /\ owner # None

\* What the session holds was issued, and the mint it waits for is newer.
SessionSound ==
    /\ held \in Issued \cup {0}
    /\ \A c \in Callers :
          /\ pc[c] = "send" => gen[c] # 0
          /\ pc[c] = "wait" =>
                /\ key[c] \in 1 .. keys
                /\ mint[key[c]].state # "none" => held < mint[key[c]].gen

\* Grants and tokens are in order at every moment: the one live token of a grant
\* has authority behind it, a mint that arrived twice has left none, and nobody
\* keeps the session's mutex (MintAgentCredential, EnsureHumanCredential).
CredentialInv ==
    /\ TypeOK
    /\ IssuedInOrder
    /\ GrantSound
    /\ LiveTokenAuthority
    /\ ReplayLeavesNoToken
    /\ MutexHeldByCall
    /\ SessionSound
============================================================================
