---------------------------- MODULE AgentAccess ----------------------------
(***************************************************************************)
(* An employee's agent session: one alzette-agent process with its         *)
(* loopback proxy, the control service that mints its inference            *)
(* credentials, and the gateway that checks them, while the owner and the  *)
(* operator change what the employee may do.                               *)
(*                                                                         *)
(* The process has a client instance id of its own, so it has one grant;   *)
(* tokens of the grant are numbered by generation.  A mint is one          *)
(* serializable transaction; a policy change that would slip between its   *)
(* checks and its commit conflicts with it on the grant row or on the      *)
(* user row its foreign key locks, and one of the two fails.  A grant      *)
(* lives for an hour from its last mint and a token for ten minutes, so    *)
(* the grant never expires first.                                          *)
(*                                                                         *)
(* The mint carries an Idempotency-Key header, for which Go's HTTP         *)
(* transport repeats the POST by itself when a connection breaks: the copy *)
(* it gave up on is a stray, which the service may still execute.          *)
(***************************************************************************)
EXTENDS Directory, Sequences

CONSTANTS
    Employee,   \* the user who runs the process
    Requests,   \* requests of the desktop application to the proxy
    Main,       \* the goroutine of runAgent
    MaxMints,   \* bound on mint requests: one per idempotency key
    Plans       \* bound on policy changes: the histories that may happen, and their prefixes

\* The policy changes there are.
Ops == {"user", "person", "member", "identity", "groups", "target", "provision"}

ASSUME AgentAssumption ==
    /\ Employee \in Users
    /\ Main \notin Requests /\ None \notin Requests \cup {Main}
    /\ MaxMints \in Nat \ {0}
    /\ Plans \subseteq Seq(Ops)

Keys == 1 .. MaxMints
Gens == 1 .. MaxMints
Callers == Requests \cup {Main}

VARIABLES
    identity,   \* [subject's link to the employee]: "enabled" or "disabled"
    grant,      \* [status, aliases]: the row of human_agent_grants
    token,      \* [Gens -> TokenStates]: human_agent_access_tokens
    age,        \* [Gens -> Ages]: how much of its ten minutes a token has used
    mint,       \* [Keys -> [state, gen]]: human_agent_credential_mints
    wire,       \* [Keys -> SUBSET {"direct", "stray"}]: copies on their way
    answer,     \* [Keys -> Answers]: the answer on its way to the caller
    keys,       \* mint requests made so far
    phase,      \* where runAgent is
    frozen,     \* the aliases of the context selected at login
    held,       \* the generation the session holds, 0 for none
    lock,       \* who holds the session's mutex
    pc,         \* [Callers -> Stages]
    key,        \* [Callers -> Keys or 0]: the mint a caller waits for
    gen,        \* [Callers -> Gens or 0]: the token a caller was given
    alias,      \* [Callers -> Aliases or None]: the model an admitted request uses
    history,    \* the policy changes so far
    offboarded  \* history: the generations issued before an offboarding

svcVars  == <<identity, grant, token, mint>>
netVars  == <<wire, answer>>
procVars == <<phase, frozen, held, lock, pc, key, gen, alias, keys>>
polVars  == <<history, offboarded>>
vars     == <<dirVars, svcVars, age, netVars, procVars, polVars>>

GrantStates == {"none", "live", "client_logout", "identity_or_person_disabled"}
TokenStates == {"none", "live", "revoked"}
Ages        == {"fresh", "ending", "expired"}  \* "ending": 45 seconds or less are left
MintStates  == {"none", "completed", "response_unrecoverable"}
Answers     == {"none", "created", "refused"}
Phases      == {"login", "selected", "running", "closing", "revoking", "late", "exited",
                "killed"}
Stages      == {"idle", "queued", "wait", "send", "stream", "over"}

TypeOK ==
    /\ DirectoryTypeOK
    /\ identity \in {"enabled", "disabled"}
    /\ grant \in [status : GrantStates, aliases : SUBSET Aliases]
    /\ token \in [Gens -> TokenStates]
    /\ age \in [Gens -> Ages]
    /\ mint \in [Keys -> [state : MintStates, gen : Gens \cup {0}]]
    /\ wire \in [Keys -> SUBSET {"direct", "stray"}]
    /\ answer \in [Keys -> Answers]
    /\ keys \in 0 .. MaxMints
    /\ phase \in Phases
    /\ frozen \subseteq Aliases
    /\ held \in Gens \cup {0}
    /\ lock \in Callers \cup {None}
    /\ pc \in [Callers -> Stages]
    /\ {key, gen} \subseteq [Callers -> 0 .. MaxMints]
    /\ alias \in [Callers -> Aliases \cup {None}]
    /\ history \in Seq(Ops)
    /\ offboarded \subseteq Gens

Init ==
    /\ \E own \in Users \ {Employee} : DirectoryInit(own, Users \ {own}, {own}, Groups)
    /\ identity = "enabled"
    /\ grant = [status |-> "none", aliases |-> {}]
    /\ token = [n \in Gens |-> "none"]
    /\ age = [n \in Gens |-> "fresh"]
    /\ mint = [k \in Keys |-> [state |-> "none", gen |-> 0]]
    /\ wire = [k \in Keys |-> {}]
    /\ answer = [k \in Keys |-> "none"]
    /\ keys = 0
    /\ phase = "login" /\ frozen = {} /\ held = 0 /\ lock = None
    /\ pc = [c \in Callers |-> "idle"]
    /\ key = [c \in Callers |-> 0]
    /\ gen = [c \in Callers |-> 0]
    /\ alias = [c \in Callers |-> None]
    /\ history = <<>> /\ offboarded = {}

Issued == {n \in Gens : token[n] # "none"}
Newest == Cardinality(Issued)

----------------------------------------------------------------------------
(* The control service.                                                    *)

\* Authority as every context read and mint resolves it.
Entitled == identity = "enabled" /\ InStanding(Employee)

\* The contexts of the employee: one, if he may use any model in it.
ListAgentContexts == IF Entitled THEN loadEffectiveModels(Employee) ELSE {}

aliasSubset(wanted) == wanted # {} /\ wanted \subseteq loadEffectiveModels(Employee)

\* Mutant: a grant that offboarding revoked is renewed as well.
RenewableAny == TRUE

\* A grant may be made or renewed unless policy revoked it.
Renewable == grant.status \in {"none", "live", "client_logout"}

\* Mutant: the repeated mint is refused and its token left alone.
ReplayedQuietly(k) ==
    [token |-> token,
     mint |-> [mint EXCEPT ![k].state = "response_unrecoverable"],
     grant |-> grant, answer |-> "refused"]

\* A key that was used: its token is revoked, its answer is lost for good.
Replayed(k) ==
    [token |-> [token EXCEPT ![mint[k].gen] = "revoked"],
     mint |-> [mint EXCEPT ![k].state = "response_unrecoverable"],
     grant |-> grant, answer |-> "refused"]

\* A new key: the grant is made or renewed with the aliases asked for, every
\* older token is revoked and the next generation issued.
Minted(k) ==
    [token |-> [n \in Gens |-> IF n = Newest + 1 THEN "live"
                               ELSE IF token[n] = "live" THEN "revoked" ELSE token[n]],
     mint |-> [mint EXCEPT ![k] = [state |-> "completed", gen |-> Newest + 1]],
     grant |-> [status |-> "live", aliases |-> frozen], answer |-> "created"]

\* A refusal: context_unavailable, or the store's failure.
Refused == [token |-> token, mint |-> mint, grant |-> grant, answer |-> "refused"]

\* Every mint of the process asks for the aliases frozen at login, so a key is
\* never used for two different requests.
MintAgentCredential(k) ==
    IF ~Entitled THEN Refused
    ELSE IF mint[k].state # "none" THEN Replayed(k)
    ELSE IF ~aliasSubset(frozen) \/ ~Renewable THEN Refused
    ELSE Minted(k)

Apply(o) ==
    /\ token' = o.token /\ mint' = o.mint /\ grant' = o.grant

\* The service executes a copy of a mint.  The answer to a stray has no reader, and a
\* stray that is lost, or whose handler is cancelled before its commit, never arrives.
MintArrives(k, copy) ==
    /\ copy \in wire[k]
    /\ wire' = [wire EXCEPT ![k] = @ \ {copy}]
    /\ \E o \in {MintAgentCredential(k), Refused} :
           /\ Apply(o)
           /\ answer' = IF copy = "direct" THEN [answer EXCEPT ![k] = o.answer] ELSE answer
    /\ UNCHANGED <<dirVars, identity, age, procVars, polVars>>

\* What RevokeAgentGrant leaves: only a live grant of an enabled identity is found.
RevokeAgentGrant ==
    IF identity = "enabled" /\ grant.status = "live"
    THEN /\ grant' = [grant EXCEPT !.status = "client_logout"]
         /\ token' = [n \in Gens |-> IF token[n] = "live" THEN "revoked" ELSE token[n]]
    ELSE UNCHANGED <<grant, token>>

----------------------------------------------------------------------------
(* The gateway.                                                            *)

TokenUsable(n) == token[n] = "live" /\ age[n] # "expired" /\ grant.status = "live"

\* Mutant: the aliases of the grant are enough.
AllowedModelAliasesGranted == grant.aliases

AllowedModelAliases == grant.aliases \cap loadEffectiveModels(Employee)

\* The request is admitted for the model it names, or answered with an error.  One
\* transaction, whose first statement locks the token and the grant and whose
\* second reads the policy: what commits between them counts as before both.
AuthenticateHuman(n, a) ==
    TokenUsable(n) /\ Entitled /\ a \in AllowedModelAliases

----------------------------------------------------------------------------
(* The process.                                                            *)

\* A call is over; what it knew goes with it.
Ends(c) ==
    /\ pc' = [pc EXCEPT ![c] = "over"]
    /\ key' = [key EXCEPT ![c] = 0]
    /\ gen' = [gen EXCEPT ![c] = 0]
    /\ alias' = [alias EXCEPT ![c] = None]

\* Login, the choice of a context and SelectContext: the aliases of the context
\* are read once and kept.
Login ==
    /\ phase = "login"
    /\ frozen' = ListAgentContexts
    /\ phase' = IF ListAgentContexts = {} THEN "exited" ELSE "selected"
    /\ UNCHANGED <<dirVars, svcVars, age, netVars, held, lock, pc, key, gen, alias, keys,
                   polVars>>

LoginFails ==
    /\ phase = "login"
    /\ phase' = "exited"
    /\ UNCHANGED <<dirVars, svcVars, age, netVars, frozen, held, lock, pc, key, gen, alias,
                   keys, polVars>>

\* The proxy accepts a request, whose handler asks for the session's mutex.
Accepted(c) ==
    /\ phase = "running" /\ c # Main /\ pc[c] = "idle"
    /\ pc' = [pc EXCEPT ![c] = "queued"]
    /\ UNCHANGED <<dirVars, svcVars, age, netVars, phase, frozen, held, lock, key, gen, alias,
                   keys, polVars>>

\* Mutant: the mutex is not taken.
EntersFreely(c) ==
    IF c = Main THEN phase = "selected" /\ pc[c] = "idle" ELSE pc[c] = "queued"

\* A caller of EnsureHumanCredential finds the mutex free: runAgent once, and the
\* proxy for every request it accepted, also while it shuts down.
Enters(c) ==
    /\ lock = None
    /\ IF c = Main THEN phase = "selected" /\ pc[c] = "idle" ELSE pc[c] = "queued"

Cached == held # 0 /\ age[held] = "fresh"

EnsureCached(c) ==
    /\ Enters(c) /\ Cached
    /\ pc' = [pc EXCEPT ![c] = "send"]
    /\ gen' = [gen EXCEPT ![c] = held]
    /\ UNCHANGED <<dirVars, svcVars, age, netVars, phase, frozen, held, lock, key, alias,
                   keys, polVars>>

\* A new key, and the mutex is kept until the answer is there.
EnsureMint(c) ==
    /\ Enters(c) /\ ~Cached
    /\ keys < MaxMints
    /\ keys' = keys + 1
    /\ key' = [key EXCEPT ![c] = keys + 1]
    /\ wire' = [wire EXCEPT ![keys + 1] = {"direct"}]
    /\ lock' = c
    /\ pc' = [pc EXCEPT ![c] = "wait"]
    /\ UNCHANGED <<dirVars, svcVars, age, answer, phase, frozen, held, gen, alias, polVars>>

\* What becomes of runAgent when its first credential is there, or is not.
MainPhase(c, ok) ==
    phase' = IF c # Main THEN phase ELSE IF ok THEN "running" ELSE "exited"

\* The OAuth login is over and refreshOAuth fails.
EnsureRefused(c) ==
    /\ Enters(c) /\ ~Cached
    /\ Ends(c)
    /\ MainPhase(c, FALSE)
    /\ UNCHANGED <<dirVars, svcVars, age, netVars, frozen, held, lock, keys, polVars>>

Release(c, ok) == lock' = None

\* The answer is read: a token that has not expired is kept and used.
EnsureAnswered(c) ==
    LET k == key[c]
        n == mint[k].gen
        ok == answer[k] = "created" /\ age[n] # "expired" IN
    /\ pc[c] = "wait" /\ answer[k] # "none"
    /\ answer' = [answer EXCEPT ![k] = "none"]
    /\ held' = IF ok THEN n ELSE held
    /\ IF ok /\ c # Main
       THEN /\ pc' = [pc EXCEPT ![c] = "send"]
            /\ gen' = [gen EXCEPT ![c] = n]
            /\ UNCHANGED <<key, alias>>
       ELSE Ends(c)
    /\ Release(c, ok)
    /\ MainPhase(c, ok)
    /\ UNCHANGED <<dirVars, svcVars, age, wire, frozen, keys, polVars>>

\* The connection breaks before the answer is read and the transport sends the
\* request again with the same key, once.
TransportReplay(c) ==
    LET k == key[c] IN
    /\ pc[c] = "wait"
    /\ "direct" \in wire[k] \/ answer[k] # "none"
    /\ "stray" \notin wire[k]
    /\ wire' = [wire EXCEPT ![k] = {"direct"} \cup (IF "direct" \in @ THEN {"stray"} ELSE {})]
    /\ answer' = [answer EXCEPT ![k] = "none"]
    /\ UNCHANGED <<dirVars, svcVars, age, procVars, polVars>>

\* The HTTP timeout, or the caller's own context, ends the wait.
EnsureTimesOut(c) ==
    LET k == key[c] IN
    /\ pc[c] = "wait"
    /\ wire' = [wire EXCEPT ![k] = IF "direct" \in @ THEN {"stray"} ELSE @]
    /\ answer' = [answer EXCEPT ![k] = "none"]
    /\ Ends(c)
    /\ Release(c, FALSE)
    /\ MainPhase(c, FALSE)
    /\ UNCHANGED <<dirVars, svcVars, age, frozen, held, keys, polVars>>

\* The proxied request reaches the gateway with the token it was given, or fails
\* on the way.  A rejection goes back to the application and the session keeps
\* its token.
RoundTrip(c) ==
    /\ pc[c] = "send"
    /\ \E a \in Aliases :
           /\ AuthenticateHuman(gen[c], a)
           /\ pc' = [pc EXCEPT ![c] = "stream"]
           /\ alias' = [alias EXCEPT ![c] = a]
    /\ UNCHANGED <<dirVars, svcVars, age, netVars, phase, frozen, held, lock, key, gen, keys,
                   polVars>>

RoundTripRejected(c) ==
    /\ pc[c] = "send"
    /\ Ends(c)
    /\ UNCHANGED <<dirVars, svcVars, age, netVars, phase, frozen, held, lock, keys, polVars>>

ResponseEnds(c) ==
    /\ pc[c] = "stream"
    /\ Ends(c)
    /\ UNCHANGED <<dirVars, svcVars, age, netVars, phase, frozen, held, lock, keys, polVars>>

\* StartProxy or the preparation of the child fails (the first before the
\* revocation is deferred), or the child ends or a signal arrives.
StartProxyFails ==
    /\ phase = "running" /\ \A c \in Requests : pc[c] = "idle"
    /\ phase' = "exited"
    /\ UNCHANGED <<dirVars, svcVars, age, netVars, frozen, held, lock, pc, key, gen, alias,
                   keys, polVars>>

ChildEnds ==
    /\ phase = "running"
    /\ phase' = "closing"
    /\ UNCHANGED <<dirVars, svcVars, age, netVars, frozen, held, lock, pc, key, gen, alias,
                   keys, polVars>>

Busy(c) == pc[c] \in {"queued", "wait", "send", "stream"}

ProxyDrained == \A c \in Requests : ~Busy(c)

\* proxy.Close returns when the requests are over, or after the three seconds
\* it shares with the revocation.
ProxyClose ==
    /\ phase = "closing"
    /\ phase' \in IF ProxyDrained THEN {"revoking"} ELSE {"late"}
    /\ UNCHANGED <<dirVars, svcVars, age, netVars, frozen, held, lock, pc, key, gen, alias,
                   keys, polVars>>

\* The process ends: whoever is waiting is gone and their mint is a stray.
Gone(ph) ==
    /\ phase' = ph
    /\ lock' = None
    /\ wire' = [k \in Keys |-> IF "direct" \in wire[k] THEN {"stray"} ELSE wire[k]]
    /\ answer' = [k \in Keys |-> "none"]
    /\ pc' = [c \in Callers |-> "over"]
    /\ key' = [c \in Callers |-> 0]
    /\ gen' = [c \in Callers |-> 0]
    /\ alias' = [c \in Callers |-> None]
    /\ UNCHANGED <<frozen, keys>>

\* Session.Revoke with time left: the service revokes, or cannot be reached.  With
\* the deadline over, nothing is sent.
Revoke ==
    /\ phase = "revoking" /\ lock = None
    /\ Gone("exited")
    /\ \/ RevokeAgentGrant /\ held' = 0
       \/ UNCHANGED <<grant, token, held>>
    /\ UNCHANGED <<dirVars, identity, mint, age, polVars>>

RevokeTooLate ==
    /\ phase = "late" /\ lock = None
    /\ Gone("exited")
    /\ UNCHANGED <<dirVars, svcVars, age, held, polVars>>

Killed ==
    /\ phase \notin {"exited", "killed"}
    /\ Gone("killed")
    /\ held' = 0
    /\ UNCHANGED <<dirVars, svcVars, age, polVars>>

----------------------------------------------------------------------------
(* Time and policy.                                                        *)

Older(a) == IF a = "fresh" THEN "ending" ELSE "expired"

\* The token that is in use, or that the session holds, grows older, never faster
\* than one issued before it.
Ageing(n) ==
    /\ token[n] # "none" /\ age[n] # "expired"
    /\ n \in {Newest, held}
    /\ held # 0 /\ held < n => age[held] \in {Older(age[n]), "expired"}
    /\ age' = [age EXCEPT ![n] = Older(@)]
    /\ UNCHANGED <<dirVars, svcVars, netVars, procVars, polVars>>

\* The triggers on users, people and identities; a grant that is revoked keeps its
\* reason.
revoke_human_agent_authority ==
    /\ grant' = IF grant.status = "live"
                THEN [grant EXCEPT !.status = "identity_or_person_disabled"] ELSE grant
    /\ token' = [n \in Gens |-> IF token[n] = "live" THEN "revoked" ELSE token[n]]

Change(op) ==
    /\ \E p \in Plans : Len(history) < Len(p) /\ SubSeq(p, 1, Len(history) + 1) = Append(history, op)
    /\ history' = Append(history, op)

Offboarding ==
    /\ revoke_human_agent_authority
    /\ offboarded' = offboarded \cup Issued
    /\ UNCHANGED <<mint, age, netVars, procVars>>

UserDisabled ==
    /\ Change("user") /\ user[Employee] = "enabled"
    /\ DisableHuman(Employee) /\ Offboarding /\ UNCHANGED identity

PersonDisabled ==
    /\ Change("person") /\ DisablePerson(Employee) /\ Offboarding /\ UNCHANGED identity

IdentityDisabled ==
    /\ Change("identity") /\ identity = "enabled"
    /\ identity' = "disabled" /\ Offboarding /\ UNCHANGED dirVars

Elsewhere == UNCHANGED <<svcVars, age, netVars, procVars, offboarded>>

MembershipDisabled == Change("member") /\ DisableMembership(Employee) /\ Elsewhere

Reprovisioned ==
    /\ Change("provision") /\ ~InStanding(Employee)
    /\ ProvisionHuman(Employee) /\ Elsewhere

GroupsChanged ==
    /\ Change("groups")
    /\ \E g \in Groups :
           \/ \E as \in SUBSET Aliases : ReplaceGroupModels(g, as)
           \/ \E us \in SUBSET Users : ReplaceGroupPeople(g, us)
           \/ DisableGroup(g)
    /\ groupVars' # groupVars
    /\ Elsewhere

TargetToggled ==
    /\ Change("target") /\ \E a \in Aliases : ToggleTarget(a) /\ Elsewhere

----------------------------------------------------------------------------
Client(c) ==
    \/ Accepted(c)
    \/ EnsureCached(c) \/ EnsureMint(c) \/ EnsureRefused(c) \/ EnsureAnswered(c)
    \/ EnsureTimesOut(c) \/ RoundTrip(c) \/ RoundTripRejected(c) \/ ResponseEnds(c)

Process ==
    \/ Login \/ LoginFails \/ StartProxyFails \/ ChildEnds \/ ProxyClose
    \/ Revoke \/ RevokeTooLate

Network ==
    \/ \E k \in Keys : \E copy \in wire[k] : MintArrives(k, copy)
    \/ \E c \in Callers : TransportReplay(c)

Policy ==
    \/ UserDisabled \/ PersonDisabled \/ IdentityDisabled \/ MembershipDisabled
    \/ Reprovisioned \/ GroupsChanged \/ TargetToggled

Over ==
    /\ phase \in {"exited", "killed"}
    /\ UNCHANGED vars

Next ==
    \/ \E c \in Callers : Client(c)
    \/ Process \/ Killed \/ Network \/ Policy
    \/ \E n \in Gens : Ageing(n)
    \/ Over

Spec == Init /\ [][Next]_vars

============================================================================
