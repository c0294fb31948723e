---------------------------- MODULE AgentProofs ----------------------------
(***************************************************************************)
(* Machine-checked proofs about agent sessions, for any number of users,   *)
(* groups, models, proxied requests and mints.                             *)
(***************************************************************************)
EXTENDS AgentProperties, TLAPS, FiniteSetTheorems

----------------------------------------------------------------------------
(* What a step does to the service's tables.                               *)

\* No credential is touched, and the employee loses no standing.
Untouched ==
    /\ UNCHANGED <<identity, grant, token, mint, offboarded>>
    /\ user'[Employee] \in {user[Employee], "enabled"}
    /\ person'[Employee] \in {person[Employee], "enabled"}

\* Every live token is revoked, and the grant with it.
AllRevoked ==
    /\ token' = [n \in Gens |-> IF token[n] = "live" THEN "revoked" ELSE token[n]]
    /\ mint' = mint
    /\ grant'.status # "live" /\ grant' \in [status : GrantStates, aliases : SUBSET Aliases]
    /\ grant.status # "live" => grant' = grant
    /\ offboarded' \in {offboarded, offboarded \cup Issued}

\* A key is used: for a new generation, or once more.
Fresh(k) ==
    /\ wire[k] # {} /\ mint[k].state = "none" /\ Entitled /\ Renewable
    /\ Apply(Minted(k))
    /\ UNCHANGED <<identity, user, person, offboarded, phase, frozen, procVars>>
Again(k) ==
    /\ mint[k].state # "none"
    /\ Apply(Replayed(k))
    /\ UNCHANGED <<identity, user, person, offboarded, phase, frozen, procVars>>

\* Every step is one of these.
LEMMA ServiceSteps ==
    ASSUME TypeOK, [Next]_vars
    PROVE  \/ Untouched \/ AllRevoked
           \/ \E k \in Keys : Fresh(k) \/ Again(k)
  <1> DEFINE Goal == Untouched \/ AllRevoked \/ \E k \in Keys : Fresh(k) \/ Again(k)
  <1>0. /\ grant \in [status : GrantStates, aliases : SUBSET Aliases]
        /\ user \in [Users -> Standing] /\ person \in [Users -> Standing]
        /\ Employee \in Users
    BY AgentAssumption DEF TypeOK, DirectoryTypeOK
  <1>1. UNCHANGED <<dirVars, svcVars, polVars>> => Goal
    BY DEF Untouched, dirVars, svcVars, polVars
  <1>2. ASSUME NEW k \in Keys, NEW copy, MintArrives(k, copy)
        PROVE  Goal
    <2>1. UNCHANGED <<identity, user, person, offboarded, phase, frozen, procVars>>
      BY <1>2 DEF MintArrives, dirVars, polVars, procVars
    <2>2. copy \in wire[k] /\ (Apply(MintAgentCredential(k)) \/ Apply(Refused))
      BY <1>2 DEF MintArrives
    <2>3. CASE Apply(Refused)
      BY <2>1, <2>3 DEF Untouched, Apply, Refused
    <2>4. CASE Apply(Replayed(k)) /\ mint[k].state # "none"
      BY <2>1, <2>4 DEF Again
    <2>5. CASE Apply(Minted(k)) /\ Entitled /\ mint[k].state = "none" /\ Renewable
      BY <2>1, <2>2, <2>5 DEF Fresh
    <2> HIDE DEF Goal
    <2>6. \/ MintAgentCredential(k) = Refused
          \/ MintAgentCredential(k) = Replayed(k) /\ mint[k].state # "none"
          \/ /\ MintAgentCredential(k) = Minted(k)
             /\ Entitled /\ mint[k].state = "none" /\ Renewable
      BY DEF MintAgentCredential
    <2> QED BY <2>2, <2>3, <2>4, <2>5, <2>6 DEF Goal
  <1>3. Revoke => Goal
    <2> SUFFICES ASSUME Revoke
                 PROVE  Goal
      OBVIOUS
    <2>1. CASE UNCHANGED <<grant, token>>
      BY <2>1 DEF Revoke, Untouched, dirVars, polVars
    <2>2. CASE RevokeAgentGrant /\ grant.status = "live" /\ identity = "enabled"
      <3>1. grant' = [grant EXCEPT !.status = "client_logout"]
        BY <2>2 DEF RevokeAgentGrant
      <3>2. grant'.status # "live" /\ grant' \in [status : GrantStates, aliases : SUBSET Aliases]
        BY <1>0, <3>1 DEF GrantStates
      <3>3. mint' = mint /\ offboarded' = offboarded
        BY DEF Revoke, polVars
      <3> QED BY <2>2, <3>2, <3>3 DEF AllRevoked, RevokeAgentGrant
    <2> HIDE DEF Goal
    <2> QED BY <2>1, <2>2 DEF Revoke, RevokeAgentGrant
  <1>4. ASSUME Offboarding
        PROVE  Goal
    <2>1. grant'.status # "live" /\ grant' \in [status : GrantStates, aliases : SUBSET Aliases]
      BY <1>0, <1>4 DEF Offboarding, revoke_human_agent_authority, GrantStates
    <2>2. grant.status # "live" => grant' = grant
      BY <1>4 DEF Offboarding, revoke_human_agent_authority
    <2> QED BY <1>4, <2>1, <2>2 DEF Offboarding, revoke_human_agent_authority, AllRevoked
  <1>5. MembershipDisabled \/ GroupsChanged \/ TargetToggled => Goal
    BY DEF MembershipDisabled, GroupsChanged, TargetToggled, Elsewhere, svcVars, Untouched,
           DisableMembership, ReplaceGroupModels, ReplaceGroupPeople, DisableGroup, ToggleTarget
  <1>6. Reprovisioned => Goal
    BY <1>0 DEF Reprovisioned, ProvisionHuman, Elsewhere, svcVars, Untouched
  <1> HIDE DEF Goal
  <1>7. ASSUME NEW c \in Callers, Client(c)
        PROVE  Goal
    BY <1>1, <1>7 DEF Client, Accepted, EnsureCached, EnsureMint, EnsureRefused, EnsureAnswered,
           EnsureTimesOut, RoundTrip, RoundTripRejected, ResponseEnds
  <1>8. Process => Goal
    BY <1>1, <1>3 DEF Process, Login, LoginFails, StartProxyFails, ChildEnds, ProxyClose,
           RevokeTooLate
  <1>9. Network => Goal
    <2>1. ASSUME NEW c \in Callers, TransportReplay(c)
          PROVE  Goal
      BY <1>1, <2>1 DEF TransportReplay
    <2> QED BY <1>2, <2>1 DEF Network
  <1>10. Policy => Goal
    BY <1>4, <1>5, <1>6 DEF Policy, UserDisabled, PersonDisabled, IdentityDisabled
  <1>11. Killed \/ Over \/ UNCHANGED vars \/ (\E n \in Gens : Ageing(n)) => Goal
    BY <1>1 DEF Killed, Over, vars, Ageing
  <1>12. Goal
    BY <1>7, <1>8, <1>9, <1>10, <1>11 DEF Next
  <1> QED BY <1>12 DEF Goal

----------------------------------------------------------------------------
(* Generations.                                                            *)

\* The generations issued are those up to the newest.
LEMMA IssuedUpTo ==
    ASSUME IssuedInOrder
    PROVE  Newest \in 0 .. MaxMints /\ Issued = 1 .. Newest
  <1>1. PICK n \in 0 .. MaxMints : Issued = 1 .. n
    BY DEF IssuedInOrder
  <1>2. n \in Nat
    BY AgentAssumption
  <1>3. Cardinality(1 .. n) = n
    BY <1>2, FS_Interval
  <1> QED BY <1>1, <1>3 DEF Newest

\* A key that is unused leaves a generation for it.
LEMMA RoomForKey ==
    ASSUME TypeOK, IssuedInOrder, GrantSound, NEW k \in Keys, mint[k].state = "none"
    PROVE  Newest + 1 \in Gens
  <1>1. IsFiniteSet(Keys) /\ Cardinality(Keys) = MaxMints
    <2>1. MaxMints \in Nat /\ MaxMints # 0
      BY AgentAssumption
    <2>2. IsFiniteSet(1 .. MaxMints) /\ Cardinality(1 .. MaxMints) = MaxMints
      BY <2>1, FS_Interval
    <2> QED BY <2>2 DEF Keys
  <1>2. IsFiniteSet(Keys \ {k}) /\ Cardinality(Keys \ {k}) = MaxMints - 1
    BY <1>1, FS_RemoveElement
  <1>3. UsedKeys \subseteq Keys \ {k}
    BY DEF UsedKeys
  <1>4. Cardinality(UsedKeys) <= MaxMints - 1
    BY <1>2, <1>3, FS_Subset
  <1>5. Newest <= MaxMints - 1
    BY <1>4 DEF GrantSound
  <1> QED BY <1>5, IssuedUpTo, AgentAssumption DEF Gens

\* Which generations a step issues.
LEMMA IssuedAfter ==
    ASSUME CredentialInv
    PROVE  /\ Untouched \/ AllRevoked \/ (\E k \in Keys : Again(k)) =>
                 Issued' = Issued /\ Newest' = Newest
           /\ (\E k \in Keys : Fresh(k)) =>
                 /\ Newest + 1 \in Gens /\ Newest' = Newest + 1 /\ Issued' = 1 .. Newest + 1
                 /\ Newest + 1 \notin Issued
  <1> USE DEF CredentialInv
  <1>0. token \in [Gens -> TokenStates] /\ mint \in [Keys -> [state : MintStates, gen : Gens \cup {0}]]
    BY DEF TypeOK
  <1>1. Issued' = Issued => Newest' = Newest
    BY DEF Newest
  <1>2. Untouched => Issued' = Issued
    BY DEF Untouched, Issued
  <1>3. AllRevoked => Issued' = Issued
    BY <1>0 DEF AllRevoked, Issued
  <1>4. ASSUME NEW k \in Keys, Again(k)
        PROVE  Issued' = Issued
    <2>1. mint[k].gen \in Issued
      BY <1>4 DEF Again, GrantSound
    <2>2. token' = [token EXCEPT ![mint[k].gen] = "revoked"]
      BY <1>4 DEF Again, Apply, Replayed
    <2>3. mint[k].gen \in Gens /\ token[mint[k].gen] # "none"
      BY <2>1 DEF Issued
    <2> QED BY <1>0, <2>2, <2>3 DEF Issued
  <1>5. ASSUME NEW k \in Keys, Fresh(k)
        PROVE  /\ Newest + 1 \in Gens /\ Newest' = Newest + 1 /\ Issued' = 1 .. Newest + 1
               /\ Newest + 1 \notin Issued
    <2>0. Newest \in Nat /\ Issued = 1 .. Newest
      BY IssuedUpTo, AgentAssumption
    <2>1. Newest + 1 \in Gens
      BY <1>5, RoomForKey DEF Fresh
    <2>2. token' = [n \in Gens |-> IF n = Newest + 1 THEN "live"
                                   ELSE IF token[n] = "live" THEN "revoked" ELSE token[n]]
      BY <1>5 DEF Fresh, Apply, Minted
    <2>3. \A n \in Gens : token'[n] # "none" <=> n = Newest + 1 \/ token[n] # "none"
      BY <2>2
    <2>4. Issued' = Issued \cup {Newest + 1}
      BY <2>1, <2>3 DEF Issued
    <2>5. Issued' = 1 .. Newest + 1
      BY <2>0, <2>4
    <2>6. Cardinality(1 .. Newest + 1) = Newest + 1
      BY <2>0, FS_Interval
    <2>7. Newest' = Newest + 1
      BY <2>5, <2>6 DEF Newest
    <2> QED BY <2>0, <2>1, <2>5, <2>7
  <1> QED BY <1>1, <1>2, <1>3, <1>4, <1>5

\* What a step does to a token and to a mint.
LEMMA TokensAfter ==
    ASSUME CredentialInv, [Next]_vars
    PROVE  /\ \A n \in Gens : /\ token[n] = "revoked" => token'[n] = "revoked"
                              /\ n \in Issued => n \in Issued'
           /\ \A k \in Keys :
                 /\ mint[k].state # "none" => mint'[k].state # "none" /\ mint'[k].gen = mint[k].gen
                 /\ mint[k].state = "none" /\ mint'[k].state # "none" =>
                       Fresh(k) /\ mint'[k].gen = Newest + 1
           /\ mint' \in [Keys -> [state : MintStates, gen : Gens \cup {0}]]
           /\ token' \in [Gens -> TokenStates]
           /\ grant' \in [status : GrantStates, aliases : SUBSET Aliases]
  <1> USE DEF CredentialInv
  <1>0. /\ token \in [Gens -> TokenStates]
        /\ mint \in [Keys -> [state : MintStates, gen : Gens \cup {0}]]
        /\ grant \in [status : GrantStates, aliases : SUBSET Aliases]
        /\ frozen \subseteq Aliases
    BY DEF TypeOK
  <1> DEFINE Goal ==
           /\ \A n \in Gens : /\ token[n] = "revoked" => token'[n] = "revoked"
                              /\ n \in Issued => n \in Issued'
           /\ \A k \in Keys :
                 /\ mint[k].state # "none" => mint'[k].state # "none" /\ mint'[k].gen = mint[k].gen
                 /\ mint[k].state = "none" /\ mint'[k].state # "none" =>
                       Fresh(k) /\ mint'[k].gen = Newest + 1
           /\ mint' \in [Keys -> [state : MintStates, gen : Gens \cup {0}]]
           /\ token' \in [Gens -> TokenStates]
           /\ grant' \in [status : GrantStates, aliases : SUBSET Aliases]
  <1>1. Untouched => Goal
    BY <1>0, IssuedAfter DEF Untouched
  <1>2. AllRevoked => Goal
    BY <1>0, IssuedAfter DEF AllRevoked, TokenStates
  <1>3. ASSUME NEW k \in Keys, Again(k)
        PROVE  Goal
    <2>1. /\ token' = [token EXCEPT ![mint[k].gen] = "revoked"] /\ grant' = grant
          /\ mint' = [mint EXCEPT ![k].state = "response_unrecoverable"]
          /\ mint[k].state # "none" /\ Issued' = Issued
      BY <1>3, IssuedAfter DEF Again, Apply, Replayed
    <2>2. /\ mint' \in [Keys -> [state : MintStates, gen : Gens \cup {0}]]
          /\ token' \in [Gens -> TokenStates]
      BY <1>0, <2>1 DEF MintStates, TokenStates
    <2>3. \A j \in Keys : /\ mint'[j].gen = mint[j].gen
                          /\ mint'[j].state # "none" <=> mint[j].state # "none"
      BY <1>0, <2>1
    <2> QED BY <1>0, <2>1, <2>2, <2>3
  <1>4. ASSUME NEW k \in Keys, Fresh(k)
        PROVE  Goal
    <2>1. /\ token' = [n \in Gens |-> IF n = Newest + 1 THEN "live"
                                      ELSE IF token[n] = "live" THEN "revoked" ELSE token[n]]
          /\ mint' = [mint EXCEPT ![k] = [state |-> "completed", gen |-> Newest + 1]]
          /\ grant' = [status |-> "live", aliases |-> frozen]
          /\ mint[k].state = "none"
      BY <1>4 DEF Fresh, Apply, Minted
    <2>2. Newest \in Nat /\ Issued = 1 .. Newest
      BY IssuedUpTo, AgentAssumption
    <2>3. Newest + 1 \in Gens /\ Issued' = 1 .. Newest + 1 /\ Newest + 1 \notin Issued
      BY <1>4, IssuedAfter
    <2>4. \A n \in Gens : /\ token[n] = "revoked" => token'[n] = "revoked"
                          /\ n \in Issued => n \in Issued'
      BY <2>1, <2>2, <2>3 DEF Issued
    <2>5. /\ mint' \in [Keys -> [state : MintStates, gen : Gens \cup {0}]]
          /\ token' \in [Gens -> TokenStates]
          /\ grant' \in [status : GrantStates, aliases : SUBSET Aliases]
      BY <1>0, <2>1, <2>3 DEF MintStates, TokenStates, GrantStates
    <2>6. /\ \A j \in Keys \ {k} : mint'[j] = mint[j]
          /\ mint'[k].state # "none" /\ mint'[k].gen = Newest + 1
      BY <1>0, <2>1
    <2> QED BY <1>4, <2>1, <2>4, <2>5, <2>6
  <1> HIDE DEF Goal
  <1>5. Goal
    BY <1>1, <1>2, <1>3, <1>4, ServiceSteps
  <1> QED BY <1>5 DEF Goal

\* Generations stay in order.
LEMMA OrderStays ==
    ASSUME CredentialInv, [Next]_vars
    PROVE  IssuedInOrder'
  <1> USE DEF CredentialInv
  <1>1. CASE Issued' = Issued
    BY <1>1 DEF IssuedInOrder
  <1>2. CASE Newest + 1 \in Gens /\ Issued' = 1 .. Newest + 1
    BY <1>2, AgentAssumption DEF IssuedInOrder, Gens
  <1> QED BY <1>1, <1>2, ServiceSteps, IssuedAfter

\* A live token keeps its authority.
LEMMA AuthorityStays ==
    ASSUME CredentialInv, [Next]_vars
    PROVE  LiveTokenAuthority'
  <1> USE DEF CredentialInv
  <1> SUFFICES ASSUME NEW n \in Gens, token'[n] = "live"
               PROVE  /\ n = Newest' /\ grant'.status = "live"
                      /\ identity' = "enabled" /\ user'[Employee] = "enabled"
                      /\ person'[Employee] = "enabled"
    BY DEF LiveTokenAuthority
  <1>0. token \in [Gens -> TokenStates]
    BY DEF TypeOK
  <1>1. CASE Untouched
    BY <1>1, IssuedAfter DEF Untouched, LiveTokenAuthority
  <1>2. CASE AllRevoked
    BY <1>0, <1>2 DEF AllRevoked
  <1>3. ASSUME NEW k \in Keys, Again(k)
        PROVE  /\ n = Newest' /\ grant'.status = "live"
               /\ identity' = "enabled" /\ user'[Employee] = "enabled"
               /\ person'[Employee] = "enabled"
    <2>1. token[n] = "live"
      BY <1>0, <1>3 DEF Again, Apply, Replayed
    <2> QED BY <1>3, <2>1, IssuedAfter DEF Again, Apply, Replayed, LiveTokenAuthority
  <1>4. ASSUME NEW k \in Keys, Fresh(k)
        PROVE  /\ n = Newest' /\ grant'.status = "live"
               /\ identity' = "enabled" /\ user'[Employee] = "enabled"
               /\ person'[Employee] = "enabled"
    <2>1. n = Newest + 1
      BY <1>0, <1>4 DEF Fresh, Apply, Minted
    <2>2. Newest' = Newest + 1
      BY <1>4, IssuedAfter
    <2> QED BY <1>4, <2>1, <2>2 DEF Fresh, Apply, Minted, Entitled, InStanding
  <1> QED BY <1>1, <1>2, <1>3, <1>4, ServiceSteps

\* A mint that arrived twice leaves no token.
LEMMA ReplayStays ==
    ASSUME CredentialInv, [Next]_vars
    PROVE  ReplayLeavesNoToken'
  <1> USE DEF CredentialInv
  <1> SUFFICES ASSUME NEW j \in Keys, mint'[j].state = "response_unrecoverable"
               PROVE  token'[mint'[j].gen] = "revoked"
    BY DEF ReplayLeavesNoToken
  <1>0. token \in [Gens -> TokenStates] /\ mint \in [Keys -> [state : MintStates, gen : Gens \cup {0}]]
    BY DEF TypeOK
  <1>1. CASE mint[j].state = "response_unrecoverable"
    <2>1. mint[j].gen \in Issued /\ token[mint[j].gen] = "revoked"
      BY <1>1 DEF GrantSound, ReplayLeavesNoToken
    <2>2. mint[j].gen \in Gens
      BY <2>1 DEF Issued
    <2>3. mint'[j].gen = mint[j].gen
      BY <1>1, TokensAfter
    <2> QED BY <2>1, <2>2, <2>3, TokensAfter
  <1>2. CASE mint[j].state # "response_unrecoverable"
    <2>1. ASSUME NEW k \in Keys, Again(k)
          PROVE  token'[mint'[j].gen] = "revoked"
      <3>1. /\ token' = [token EXCEPT ![mint[k].gen] = "revoked"]
            /\ mint' = [mint EXCEPT ![k].state = "response_unrecoverable"]
            /\ mint[k].state # "none"
        BY <2>1 DEF Again, Apply, Replayed
      <3>2. j = k /\ mint'[j].gen = mint[k].gen
        BY <1>0, <1>2, <3>1
      <3>3. mint[k].gen \in Gens
        BY <3>1 DEF GrantSound, Issued
      <3> QED BY <1>0, <3>1, <3>2, <3>3
    <2>2. ASSUME NEW k \in Keys, Fresh(k)
          PROVE  FALSE
      <3>1. mint' = [mint EXCEPT ![k] = [state |-> "completed", gen |-> Newest + 1]]
        BY <2>2 DEF Fresh, Apply, Minted
      <3> QED BY <1>0, <1>2, <3>1
    <2> QED BY <1>2, <2>1, <2>2, ServiceSteps DEF Untouched, AllRevoked
  <1> QED BY <1>1, <1>2

----------------------------------------------------------------------------
(* Types.                                                                  *)

\* The types of what the process keeps, and of its mints on the way.
ProcTypeOK ==
    /\ wire \in [Keys -> SUBSET {"direct", "stray"}]
    /\ answer \in [Keys -> Answers]
    /\ keys \in 0 .. MaxMints
    /\ phase \in Phases
    /\ frozen \subseteq Aliases
    /\ held \in Gens \cup {0}
    /\ lock \in Callers \cup {None}
    /\ pc \in [Callers -> Stages]
    /\ {key, gen} \subseteq [Callers -> 0 .. MaxMints]
    /\ alias \in [Callers -> Aliases \cup {None}]

\* A call that is over is typed.
LEMMA EndsTyped ==
    ASSUME ProcTypeOK, NEW c \in Callers, Ends(c)
    PROVE  /\ pc' \in [Callers -> Stages] /\ {key', gen'} \subseteq [Callers -> 0 .. MaxMints]
           /\ alias' \in [Callers -> Aliases \cup {None}]
  <1>0. 0 \in 0 .. MaxMints
    BY AgentAssumption
  <1> QED BY <1>0 DEF Ends, ProcTypeOK, Stages

\* The callers' steps keep the types.
LEMMA ClientTyped ==
    ASSUME ProcTypeOK, CredentialInv, NEW c \in Callers, Client(c)
    PROVE  ProcTypeOK'
  <1> USE DEF CredentialInv
  <1>0. MaxMints \in Nat /\ Keys = 1 .. MaxMints /\ Gens = 1 .. MaxMints
    BY AgentAssumption DEF Keys, Gens
  <1>p. \A ok : MainPhase(c, ok) => phase' \in Phases
    BY DEF MainPhase, ProcTypeOK, Phases
  <1>1. CASE EnsureCached(c)
    <2>1. pc' \in [Callers -> Stages] /\ gen' \in [Callers -> 0 .. MaxMints]
      BY <1>0, <1>1 DEF EnsureCached, Cached, ProcTypeOK, Stages
    <2> QED BY <1>1, <2>1 DEF EnsureCached, ProcTypeOK, netVars
  <1>2. CASE EnsureMint(c)
    <2>1. keys' \in 0 .. MaxMints /\ keys + 1 \in Keys /\ keys + 1 \in 0 .. MaxMints
      BY <1>0, <1>2 DEF EnsureMint, ProcTypeOK
    <2>2. /\ wire' \in [Keys -> SUBSET {"direct", "stray"}]
          /\ key' \in [Callers -> 0 .. MaxMints] /\ pc' \in [Callers -> Stages]
      BY <1>2, <2>1 DEF EnsureMint, ProcTypeOK, Stages
    <2> QED BY <1>2, <2>1, <2>2 DEF EnsureMint, ProcTypeOK
  <1>3. CASE EnsureRefused(c)
    BY <1>3, <1>p, EndsTyped DEF EnsureRefused, ProcTypeOK, netVars
  <1>4. CASE EnsureAnswered(c)
    <2> DEFINE k == key[c]
               n == mint[k].gen
               ok == answer[k] = "created" /\ age[n] # "expired"
    <2>1. k \in Keys
      BY <1>0, <1>4 DEF EnsureAnswered, SessionSound, TypeOK
    <2>2. n \in Gens \cup {0} /\ n \in 0 .. MaxMints
      BY <1>0, <2>1 DEF TypeOK
    <2>3. answer' \in [Keys -> Answers]
      BY <1>4 DEF EnsureAnswered, ProcTypeOK, Answers
    <2>4. held' \in Gens \cup {0} /\ lock' \in Callers \cup {None} /\ phase' \in Phases
      BY <1>4, <1>p, <2>2 DEF EnsureAnswered, ProcTypeOK, Release
    <2>5. CASE ok /\ c # Main
      <3>1. /\ pc' = [pc EXCEPT ![c] = "send"] /\ gen' = [gen EXCEPT ![c] = n]
            /\ UNCHANGED <<key, alias>>
        BY <1>4, <2>5 DEF EnsureAnswered
      <3>2. pc' \in [Callers -> Stages] /\ gen' \in [Callers -> 0 .. MaxMints]
        BY <2>2, <3>1 DEF ProcTypeOK, Stages
      <3> QED BY <1>4, <2>3, <2>4, <3>1, <3>2 DEF EnsureAnswered, ProcTypeOK
    <2>6. CASE ~(ok /\ c # Main)
      <3>1. Ends(c)
        BY <1>4, <2>6 DEF EnsureAnswered
      <3> QED BY <1>4, <2>3, <2>4, <3>1, EndsTyped DEF EnsureAnswered, ProcTypeOK
    <2> QED BY <2>5, <2>6
  <1>5. CASE EnsureTimesOut(c)
    <2>1. wire' \in [Keys -> SUBSET {"direct", "stray"}] /\ answer' \in [Keys -> Answers]
      BY <1>5 DEF EnsureTimesOut, ProcTypeOK, Answers
    <2> QED BY <1>5, <1>p, <2>1, EndsTyped DEF EnsureTimesOut, ProcTypeOK, Release
  <1>6. CASE RoundTrip(c)
    BY <1>6 DEF RoundTrip, ProcTypeOK, Stages, netVars
  <1>7. CASE RoundTripRejected(c) \/ ResponseEnds(c)
    BY <1>7, EndsTyped DEF RoundTripRejected, ResponseEnds, ProcTypeOK, netVars
  <1>8. CASE Accepted(c)
    BY <1>8 DEF Accepted, ProcTypeOK, Stages, netVars
  <1> QED BY <1>1, <1>2, <1>3, <1>4, <1>5, <1>6, <1>7, <1>8 DEF Client

\* The end of the process keeps the types.
LEMMA GoneTyped ==
    ASSUME ProcTypeOK, NEW ph \in Phases, Gone(ph), held' \in {held, 0}
    PROVE  ProcTypeOK'
  <1>0. 0 \in 0 .. MaxMints
    BY AgentAssumption
  <1> QED BY <1>0 DEF Gone, ProcTypeOK, Stages, Answers

\* Types are preserved.
LEMMA AgentTyped ==
    ASSUME CredentialInv, [Next]_vars
    PROVE  TypeOK'
  <1> USE DEF CredentialInv
  <1>0. ProcTypeOK
    BY DEF TypeOK, ProcTypeOK
  <1>1. ProcTypeOK'
    <2>1. UNCHANGED <<netVars, procVars>> => ProcTypeOK'
      BY <1>0 DEF netVars, procVars, ProcTypeOK
    <2>2. ASSUME NEW k \in Keys, NEW copy, MintArrives(k, copy)
          PROVE  ProcTypeOK'
      <3>1. wire' \in [Keys -> SUBSET {"direct", "stray"}]
        BY <1>0, <2>2 DEF MintArrives, ProcTypeOK
      <3>2. MintAgentCredential(k).answer \in Answers /\ Refused.answer \in Answers
        BY DEF MintAgentCredential, Refused, Replayed, Minted, Answers
      <3>3. answer' \in [Keys -> Answers]
        BY <1>0, <2>2, <3>2 DEF MintArrives, ProcTypeOK
      <3> QED BY <1>0, <2>2, <3>1, <3>3 DEF MintArrives, procVars, ProcTypeOK
    <2>3. ASSUME NEW c \in Callers, TransportReplay(c)
          PROVE  ProcTypeOK'
      <3>1. wire' \in [Keys -> SUBSET {"direct", "stray"}] /\ answer' \in [Keys -> Answers]
        BY <1>0, <2>3 DEF TransportReplay, ProcTypeOK, Answers
      <3> QED BY <1>0, <2>3, <3>1 DEF TransportReplay, procVars, ProcTypeOK
    <2>4. Login \/ LoginFails \/ StartProxyFails \/ ChildEnds \/ ProxyClose => ProcTypeOK'
      BY <1>0 DEF Login, LoginFails, StartProxyFails, ChildEnds, ProxyClose, ProcTypeOK, Phases,
             netVars, ListAgentContexts, loadEffectiveModels, TypeOK, DirectoryTypeOK
    <2>5. Revoke \/ RevokeTooLate \/ Killed => ProcTypeOK'
      BY <1>0, GoneTyped DEF Revoke, RevokeTooLate, Killed, Phases
    <2>6. Policy \/ Over \/ UNCHANGED vars \/ (\E n \in Gens : Ageing(n)) =>
              UNCHANGED <<netVars, procVars>>
      BY DEF Policy, Over, vars, Ageing, UserDisabled, PersonDisabled, IdentityDisabled, Offboarding,
             MembershipDisabled, Reprovisioned, GroupsChanged, TargetToggled, Elsewhere
    <2> QED BY <1>0, <2>1, <2>2, <2>3, <2>4, <2>5, <2>6, ClientTyped DEF Next, Process, Network
  <1>2. DirectoryTypeOK'
    <2>1. UNCHANGED dirVars => DirectoryTypeOK'
      BY DEF dirVars, TypeOK, DirectoryTypeOK
    <2>2. Employee \in Users /\ DirectoryTypeOK
      BY AgentAssumption DEF TypeOK
    <2>3. DisableHuman(Employee) \/ DisablePerson(Employee) \/ DisableMembership(Employee)
          \/ ProvisionHuman(Employee) => DirectoryTypeOK'
      BY <2>2 DEF DisableHuman, DisablePerson, DisableMembership, ProvisionHuman,
             DirectoryTypeOK, Standing
    <2>4. ASSUME NEW g \in Groups
          PROVE  (\E as \in SUBSET Aliases : ReplaceGroupModels(g, as))
                 \/ (\E us \in SUBSET Users : ReplaceGroupPeople(g, us))
                 \/ DisableGroup(g) => DirectoryTypeOK'
      BY <2>2 DEF ReplaceGroupModels, ReplaceGroupPeople, DisableGroup, DirectoryTypeOK, Standing
    <2>5. ASSUME NEW a \in Aliases, ToggleTarget(a)
          PROVE  DirectoryTypeOK'
      BY <2>2, <2>5 DEF ToggleTarget, DirectoryTypeOK
    <2>6. Policy => DirectoryTypeOK'
      BY <2>1, <2>3, <2>4, <2>5 DEF Policy, UserDisabled, PersonDisabled, IdentityDisabled,
             MembershipDisabled, Reprovisioned, GroupsChanged, TargetToggled
    <2>7. ~Policy => UNCHANGED dirVars
      BY DEF Next, Process, Network, Client, Accepted, EnsureCached, EnsureMint, EnsureRefused,
             EnsureAnswered, EnsureTimesOut, RoundTrip, RoundTripRejected, ResponseEnds, Login,
             LoginFails, StartProxyFails, ChildEnds, ProxyClose, Revoke, RevokeTooLate, Killed,
             MintArrives, TransportReplay, Ageing, Over, vars
    <2> QED BY <2>1, <2>6, <2>7
  <1>3. identity' \in {"enabled", "disabled"}
    <2>1. identity' = identity \/ identity' = "disabled"
      BY DEF Next, Process, Network, Policy, Client, Accepted, EnsureCached, EnsureMint, EnsureRefused,
             EnsureAnswered, EnsureTimesOut, RoundTrip, RoundTripRejected, ResponseEnds, Login,
             LoginFails, StartProxyFails, ChildEnds, ProxyClose, Revoke, RevokeTooLate, Killed,
             MintArrives, TransportReplay, Ageing, Over, vars, svcVars, UserDisabled, PersonDisabled,
             IdentityDisabled, MembershipDisabled, Reprovisioned, GroupsChanged, TargetToggled,
             Elsewhere
    <2> QED BY <2>1 DEF TypeOK
  <1>4. age' \in [Gens -> Ages]
    <2>1. ASSUME NEW n \in Gens, Ageing(n)
          PROVE  age' \in [Gens -> Ages]
      BY <2>1 DEF Ageing, Older, TypeOK, Ages
    <2>2. age' = age \/ \E n \in Gens : Ageing(n)
      BY DEF Next, Process, Network, Policy, Client, Accepted, EnsureCached, EnsureMint, EnsureRefused,
             EnsureAnswered, EnsureTimesOut, RoundTrip, RoundTripRejected, ResponseEnds, Login,
             LoginFails, StartProxyFails, ChildEnds, ProxyClose, Revoke, RevokeTooLate, Killed,
             MintArrives, TransportReplay, Over, vars, UserDisabled, PersonDisabled,
             IdentityDisabled, MembershipDisabled, Reprovisioned, GroupsChanged, TargetToggled,
             Elsewhere, Offboarding
    <2> QED BY <2>1, <2>2 DEF TypeOK
  <1>5. history' \in Seq(Ops)
    <2>1. history' = history \/ \E op \in Ops : history' = Append(history, op)
      BY DEF Next, Process, Network, Policy, Client, Accepted, EnsureCached, EnsureMint, EnsureRefused,
             EnsureAnswered, EnsureTimesOut, RoundTrip, RoundTripRejected, ResponseEnds, Login,
             LoginFails, StartProxyFails, ChildEnds, ProxyClose, Revoke, RevokeTooLate, Killed,
             MintArrives, TransportReplay, Ageing, Over, vars, polVars, UserDisabled, PersonDisabled,
             IdentityDisabled, MembershipDisabled, Reprovisioned, GroupsChanged, TargetToggled,
             Change, Ops
    <2>2. history \in Seq(Ops)
      BY DEF TypeOK
    <2>3. ASSUME NEW op \in Ops, history' = Append(history, op)
          PROVE  history' \in Seq(Ops)
      BY <2>2, <2>3
    <2> QED BY <2>1, <2>2, <2>3
  <1>6. offboarded' \subseteq Gens
    <2>1. offboarded' \in {offboarded, offboarded \cup Issued}
      BY ServiceSteps DEF Untouched, AllRevoked, Fresh, Again
    <2> QED BY <2>1 DEF TypeOK, Issued
  <1> QED BY <1>1, <1>2, <1>3, <1>4, <1>5, <1>6, TokensAfter DEF TypeOK, ProcTypeOK

----------------------------------------------------------------------------
(* What a step does to the process and to its mints on the way.            *)

\* The session and its callers stay as they are.
Still == UNCHANGED <<pc, key, gen, held, lock, keys>>

\* The steps that leave the session and its callers alone.
LEMMA StillSteps ==
    ASSUME [Next]_vars
    PROVE  \/ Still
           \/ \E c \in Callers : Client(c)
           \/ Revoke \/ RevokeTooLate \/ Killed
  BY DEF Still, Next, Process, Network, Policy, Login, LoginFails, StartProxyFails, ChildEnds,
         ProxyClose, MintArrives, TransportReplay, Ageing, Over, vars, procVars, UserDisabled,
         PersonDisabled, IdentityDisabled, MembershipDisabled, Reprovisioned, GroupsChanged,
         TargetToggled, Elsewhere, Offboarding

\* A caller's step leaves the service's tables alone.
LEMMA ClientLeavesTables ==
    ASSUME NEW c \in Callers, Client(c)
    PROVE  UNCHANGED <<token, mint, grant, owner, frozen, offboarded, Issued, Newest, UsedKeys>>
  <1>1. UNCHANGED <<token, mint, grant, owner, frozen, offboarded>>
    BY DEF Client, Accepted, EnsureCached, EnsureMint, EnsureRefused, EnsureAnswered, EnsureTimesOut,
           RoundTrip, RoundTripRejected, ResponseEnds, svcVars, dirVars, polVars
  <1>2. UNCHANGED <<Issued, UsedKeys>>
    BY <1>1 DEF Issued, UsedKeys
  <1> QED BY <1>1, <1>2 DEF Newest

\* The process ends for all of its callers.
LEMMA GoneForAll ==
    ASSUME Revoke \/ RevokeTooLate \/ Killed
    PROVE  /\ \A c \in Callers : pc'[c] = "over" /\ gen'[c] = 0
           /\ lock' = None /\ held' \in {held, 0} /\ UNCHANGED <<keys, frozen, owner>>
           /\ phase' # "login"
           /\ \A k \in Keys : wire'[k] # {} => wire[k] # {}
           /\ \A k \in Keys : answer'[k] = "none"
  BY DEF Revoke, RevokeTooLate, Killed, Gone, dirVars

\* The step of a caller, seen by the others and by itself.
LEMMA ClientSteps ==
    ASSUME CredentialInv, NEW c \in Callers, Client(c)
    PROVE  /\ \A d \in Callers \ {c} : pc'[d] = pc[d] /\ key'[d] = key[d] /\ gen'[d] = gen[d]
           /\ \/ /\ pc[c] # "wait" /\ pc'[c] = "over" /\ gen'[c] = 0
                 /\ UNCHANGED <<held, lock, keys>>
              \/ /\ pc[c] = "idle" /\ pc'[c] = "queued" /\ gen'[c] = gen[c]
                 /\ phase = "running" /\ UNCHANGED <<held, lock, keys>>
              \/ /\ pc[c] \in {"idle", "queued"} /\ lock = None /\ pc'[c] = "send"
                 /\ held # 0 /\ gen'[c] = held
                 /\ UNCHANGED <<held, lock, keys>>
              \/ /\ pc[c] \in {"idle", "queued"} /\ lock = None /\ pc'[c] = "wait" /\ lock' = c
                 /\ key'[c] = keys + 1 /\ keys' = keys + 1 /\ keys + 1 \in Keys
                 /\ gen'[c] = gen[c] /\ UNCHANGED held
              \/ /\ pc[c] = "wait" /\ pc'[c] = "over" /\ lock' = None /\ gen'[c] = 0
                 /\ UNCHANGED <<held, keys>>
              \/ /\ pc[c] = "wait" /\ answer[key[c]] = "created" /\ lock' = None
                 /\ held' = mint[key[c]].gen /\ keys' = keys
                 /\ \/ pc'[c] = "over" /\ gen'[c] = 0
                    \/ pc'[c] = "send" /\ gen'[c] = held'
              \/ /\ pc[c] = "send" /\ pc'[c] = "stream" /\ gen'[c] = gen[c]
                 /\ UNCHANGED <<held, lock, keys>>
  <1>0. /\ pc \in [Callers -> Stages] /\ key \in [Callers -> 0 .. MaxMints]
        /\ gen \in [Callers -> 0 .. MaxMints] /\ keys \in 0 .. MaxMints /\ MaxMints \in Nat
    BY AgentAssumption DEF CredentialInv, TypeOK
  <1>e. Ends(c) => /\ pc'[c] = "over" /\ gen'[c] = 0
                   /\ \A d \in Callers \ {c} : pc'[d] = pc[d] /\ key'[d] = key[d] /\ gen'[d] = gen[d]
    BY <1>0 DEF Ends
  <1>8. CASE Accepted(c)
    BY <1>0, <1>8 DEF Accepted
  <1>1. CASE EnsureCached(c)
    BY <1>0, <1>1 DEF EnsureCached, Enters, Cached
  <1>2. CASE EnsureMint(c)
    BY <1>0, <1>2 DEF EnsureMint, Enters, Keys
  <1>3. CASE EnsureRefused(c)
    BY <1>e, <1>3 DEF EnsureRefused, Enters
  <1>4. CASE EnsureAnswered(c)
    <2> DEFINE n == mint[key[c]].gen
               ok == answer[key[c]] = "created" /\ age[n] # "expired"
    <2>0. pc[c] = "wait" /\ lock' = None /\ keys' = keys
      BY <1>4 DEF EnsureAnswered, Release
    <2>1. CASE ok /\ c # Main
      BY <1>0, <1>4, <2>0, <2>1 DEF EnsureAnswered
    <2>2. CASE ok /\ c = Main
      BY <1>e, <1>4, <2>0, <2>2 DEF EnsureAnswered
    <2>3. CASE ~ok
      BY <1>e, <1>4, <2>0, <2>3 DEF EnsureAnswered
    <2> QED BY <2>1, <2>2, <2>3
  <1>5. CASE EnsureTimesOut(c)
    BY <1>e, <1>5 DEF EnsureTimesOut, Release
  <1>6. CASE RoundTrip(c)
    BY <1>0, <1>6 DEF RoundTrip
  <1>7. CASE RoundTripRejected(c) \/ ResponseEnds(c)
    BY <1>e, <1>7 DEF RoundTripRejected, ResponseEnds
  <1> QED BY <1>1, <1>2, <1>3, <1>4, <1>5, <1>6, <1>7, <1>8 DEF Client

\* The mutex stays with the call.
LEMMA MutexStays ==
    ASSUME CredentialInv, [Next]_vars
    PROVE  MutexHeldByCall'
  <1>0. MutexHeldByCall /\ None \notin Callers /\ lock \in Callers \cup {None}
    BY AgentAssumption DEF CredentialInv, TypeOK, Callers
  <1>1. CASE Still
    BY <1>0, <1>1 DEF Still, MutexHeldByCall
  <1>2. CASE Revoke \/ RevokeTooLate \/ Killed
    BY <1>0, <1>2, GoneForAll DEF MutexHeldByCall
  <1>3. ASSUME NEW c \in Callers, Client(c)
        PROVE  MutexHeldByCall'
    <2>1. \A d \in Callers : (lock = d) <=> (pc[d] = "wait")
      BY <1>0 DEF MutexHeldByCall
    <2>2. \A d \in Callers : (lock' = d) <=> (pc'[d] = "wait")
      BY <1>0, <1>3, <2>1, ClientSteps
    <2> QED BY <2>2 DEF MutexHeldByCall
  <1> QED BY <1>1, <1>2, <1>3, StillSteps

\* The session's own bookkeeping, and that it holds the newest token.
LEMMA SessionStays ==
    ASSUME CredentialInv, HeldIsLatest, [Next]_vars
    PROVE  SessionSound' /\ HeldIsLatest'
  <1> USE DEF CredentialInv
  <1>0. /\ gen \in [Callers -> 0 .. MaxMints] /\ keys \in 0 .. MaxMints /\ MaxMints \in Nat
        /\ held \in Issued \cup {0} /\ Newest \in Nat /\ Issued = 1 .. Newest
        /\ Keys = 1 .. MaxMints
    BY AgentAssumption, IssuedUpTo DEF TypeOK, SessionSound, Keys
  <1>a. \A c \in Callers :
            /\ gen[c] <= held
            /\ pc[c] = "send" => gen[c] # 0
            /\ pc[c] = "wait" => /\ key[c] \in 1 .. keys
                                 /\ mint[key[c]].state # "none" => held < mint[key[c]].gen
    BY DEF SessionSound, HeldIsLatest
  <1>b. held \in Issued' \cup {0}
    <2>1. \A n \in Gens : n \in Issued => n \in Issued'
      BY TokensAfter
    <2> QED BY <1>0, <2>1 DEF Issued
  <1>c. \A k \in Keys : mint'[k].state # "none" =>
            \/ mint[k].state # "none" /\ mint'[k].gen = mint[k].gen
            \/ mint'[k].gen = Newest + 1
    BY TokensAfter
  <1>1. CASE Still
    <2>1. ASSUME NEW c \in Callers, pc[c] = "wait", mint'[key[c]].state # "none"
          PROVE  held < mint'[key[c]].gen
      <3>1. key[c] \in Keys
        BY <1>0, <1>a, <2>1
      <3>2. CASE mint[key[c]].state # "none" /\ mint'[key[c]].gen = mint[key[c]].gen
        BY <1>a, <2>1, <3>2
      <3>3. CASE mint'[key[c]].gen = Newest + 1
        BY <1>0, <3>3
      <3> QED BY <1>c, <2>1, <3>1, <3>2, <3>3
    <2>2. /\ held' = held /\ keys' = keys /\ pc' = pc /\ key' = key /\ gen' = gen
      BY <1>1 DEF Still
    <2>3. SessionSound'
      BY <1>a, <1>b, <2>1, <2>2 DEF SessionSound
    <2>4. HeldIsLatest'
      BY <1>a, <2>2 DEF HeldIsLatest
    <2> QED BY <2>3, <2>4
  <1>2. CASE Revoke \/ RevokeTooLate \/ Killed
    <2>1. (\A c \in Callers : pc'[c] = "over" /\ gen'[c] = 0) /\ held' \in {held, 0}
      BY <1>2, GoneForAll
    <2>2. SessionSound'
      BY <1>b, <2>1 DEF SessionSound
    <2>3. HeldIsLatest'
      BY <1>0, <2>1 DEF HeldIsLatest
    <2> QED BY <2>2, <2>3
  <1>3. ASSUME NEW c \in Callers, Client(c)
        PROVE  SessionSound' /\ HeldIsLatest'
    <2>0. UNCHANGED <<mint, Issued>>
      BY <1>3, ClientLeavesTables
    <2>m. \A d \in Callers : pc[d] = "wait" /\ d # c => lock # c /\ lock # None /\ pc[c] # "wait"
      BY AgentAssumption DEF MutexHeldByCall, TypeOK, Callers
    <2>o. \A d \in Callers \ {c} : pc'[d] = pc[d] /\ key'[d] = key[d] /\ gen'[d] = gen[d]
      BY <1>3, ClientSteps
    <2> DEFINE Good(d) == /\ gen'[d] <= held'
                          /\ pc'[d] = "send" => gen'[d] # 0
                          /\ pc'[d] = "wait" =>
                                /\ key'[d] \in 1 .. keys'
                                /\ mint'[key'[d]].state # "none" => held' < mint'[key'[d]].gen
    <2>q. held' \in Issued' \cup {0} /\ (\A d \in Callers : Good(d)) =>
              SessionSound' /\ HeldIsLatest'
      BY DEF SessionSound, HeldIsLatest
    <2>s. ASSUME UNCHANGED <<held, keys>>, Good(c)
          PROVE  SessionSound' /\ HeldIsLatest'
      <3>1. \A d \in Callers \ {c} : Good(d)
        BY <1>a, <2>0, <2>o, <2>s
      <3>2. \A d \in Callers : Good(d)
        BY <2>s, <3>1
      <3> HIDE DEF Good
      <3> QED BY <1>b, <2>q, <2>s, <3>2
    <2>1. CASE pc'[c] = "over" /\ gen'[c] = 0 /\ UNCHANGED <<held, keys>>
      <3>1. Good(c)
        BY <1>0, <2>1
      <3> QED BY <2>1, <2>s, <3>1
    <2>2. CASE pc'[c] = "send" /\ held # 0 /\ gen'[c] = held /\ UNCHANGED <<held, keys>>
      <3>1. Good(c)
        BY <1>0, <2>2
      <3> QED BY <2>2, <2>s, <3>1
    <2>3. CASE /\ pc[c] \in {"idle", "queued"} /\ lock = None /\ pc'[c] = "wait" /\ lock' = c
               /\ key'[c] = keys + 1 /\ keys' = keys + 1 /\ keys + 1 \in Keys
               /\ gen'[c] = gen[c] /\ UNCHANGED held
      <3>1. mint[keys + 1].state = "none"
        BY <1>0, <2>3 DEF GrantSound
      <3>2. Good(c)
        BY <1>0, <1>a, <2>0, <2>3, <3>1
      <3>3. \A d \in Callers \ {c} : Good(d)
        BY <1>0, <1>a, <2>0, <2>m, <2>o, <2>3
      <3>4. \A d \in Callers : Good(d)
        BY <3>2, <3>3
      <3> HIDE DEF Good
      <3> QED BY <1>b, <2>3, <2>q, <3>4
    <2>4. CASE /\ pc[c] = "wait" /\ answer[key[c]] = "created" /\ lock' = None
               /\ held' = mint[key[c]].gen /\ keys' = keys
               /\ \/ pc'[c] = "over" /\ gen'[c] = 0
                  \/ pc'[c] = "send" /\ gen'[c] = held'
      <3>1. key[c] \in Keys
        BY <1>0, <1>a, <2>4
      <3>2. mint[key[c]].state # "none" /\ mint[key[c]].gen \in Issued
        BY <2>4, <3>1 DEF GrantSound
      <3>3. held < held' /\ held' \in Issued' /\ held' \in Nat /\ held \in Nat
        BY <1>0, <1>a, <2>0, <2>4, <3>2
      <3>4. Good(c)
        BY <1>0, <2>4, <3>3
      <3>5. \A d \in Callers \ {c} : Good(d)
        <4>1. \A d \in Callers \ {c} : pc'[d] # "wait"
          BY <2>m, <2>o, <2>4
        <4>2. \A d \in Callers \ {c} : gen'[d] <= held'
          BY <1>0, <1>a, <2>o, <3>3
        <4> QED BY <1>a, <2>o, <4>1, <4>2
      <3>6. \A d \in Callers : Good(d)
        BY <3>4, <3>5
      <3> HIDE DEF Good
      <3> QED BY <2>q, <3>3, <3>6
    <2>5. CASE pc[c] = "send" /\ pc'[c] = "stream" /\ gen'[c] = gen[c] /\ UNCHANGED <<held, keys>>
      <3>1. Good(c)
        BY <1>a, <2>5
      <3> QED BY <2>5, <2>s, <3>1
    <2>6. CASE pc[c] = "idle" /\ pc'[c] = "queued" /\ gen'[c] = gen[c] /\ UNCHANGED <<held, keys>>
      <3>1. Good(c)
        BY <1>a, <2>6
      <3> QED BY <2>6, <2>s, <3>1
    <2> HIDE DEF Good
    <2> QED BY <1>3, <2>1, <2>2, <2>3, <2>4, <2>5, <2>6, ClientSteps
  <1> QED BY <1>1, <1>2, <1>3, StillSteps

\* Where mints are on their way, and what the process never does again.
LEMMA WireSteps ==
    ASSUME CredentialInv, [Next]_vars
    PROVE  /\ keys <= keys'
           /\ \A k \in Keys : wire'[k] # {} => k <= keys'
           /\ \A k \in Keys : answer'[k] = "created" =>
                  answer[k] = "created" \/ mint'[k].state # "none"
           /\ phase' = "login" => phase = "login" /\ keys' = keys
           /\ frozen' = frozen \/ phase = "login"
           /\ owner' = owner
  <1> USE DEF CredentialInv
  <1> DEFINE Goal ==
           /\ keys <= keys'
           /\ \A k \in Keys : wire'[k] # {} => k <= keys'
           /\ \A k \in Keys : answer'[k] = "created" =>
                  answer[k] = "created" \/ mint'[k].state # "none"
           /\ phase' = "login" => phase = "login" /\ keys' = keys
           /\ frozen' = frozen \/ phase = "login"
           /\ owner' = owner
  <1>0. /\ keys \in 0 .. MaxMints /\ MaxMints \in Nat /\ Keys = 1 .. MaxMints
        /\ wire \in [Keys -> SUBSET {"direct", "stray"}] /\ answer \in [Keys -> Answers]
        /\ mint \in [Keys -> [state : MintStates, gen : Gens \cup {0}]]
    BY AgentAssumption DEF TypeOK, Keys
  <1>a. \A k \in Keys : wire[k] # {} => k <= keys
    BY DEF GrantSound
  <1>b. \A c \in Callers : pc[c] = "wait" => key[c] \in Keys /\ key[c] <= keys
    BY <1>0 DEF SessionSound
  <1>1. UNCHANGED <<wire, answer, keys, phase, frozen, owner>> => Goal
    BY <1>0, <1>a
  <1>2. ASSUME NEW k \in Keys, NEW copy, MintArrives(k, copy)
        PROVE  Goal
    <2>1. UNCHANGED <<keys, phase, frozen, owner>>
      BY <1>2 DEF MintArrives, procVars, dirVars
    <2>2. \A j \in Keys : wire'[j] \subseteq wire[j]
      BY <1>0, <1>2 DEF MintArrives
    <2>3. PICK o \in {MintAgentCredential(k), Refused} :
               /\ Apply(o)
               /\ answer' = IF copy = "direct" THEN [answer EXCEPT ![k] = o.answer] ELSE answer
      BY <1>2 DEF MintArrives
    <2>4. o = Refused \/ o = Replayed(k) \/ o = Minted(k)
      BY <2>3 DEF MintAgentCredential
    <2>5. o.answer = "created" => mint'[k].state # "none"
      <3>1. CASE o = Refused \/ o = Replayed(k)
        BY <3>1 DEF Refused, Replayed
      <3>2. CASE o = Minted(k)
        <4>1. mint' = [mint EXCEPT ![k] = [state |-> "completed", gen |-> Newest + 1]]
          BY <2>3, <3>2 DEF Apply, Minted
        <4> QED BY <1>0, <4>1
      <3> QED BY <2>4, <3>1, <3>2
    <2>6. \A j \in Keys : answer'[j] = "created" =>
              answer[j] = "created" \/ mint'[j].state # "none"
      BY <1>0, <2>3, <2>5
    <2> QED BY <1>0, <1>a, <2>1, <2>2, <2>6
  <1>3. ASSUME NEW c \in Callers, TransportReplay(c)
        PROVE  Goal
    <2>1. UNCHANGED <<keys, phase, frozen, owner>> /\ pc[c] = "wait"
      BY <1>3 DEF TransportReplay, procVars, dirVars
    <2>2. \A j \in Keys \ {key[c]} : wire'[j] = wire[j]
      BY <1>0, <1>3 DEF TransportReplay
    <2>3. \A j \in Keys : answer'[j] = answer[j] \/ answer'[j] = "none"
      BY <1>0, <1>3 DEF TransportReplay
    <2>4. \A j \in Keys : wire'[j] # {} => j <= keys'
      BY <1>a, <1>b, <2>1, <2>2
    <2>5. keys <= keys'
      BY <1>0, <2>1
    <2>6. \A k \in Keys : answer'[k] = "created" =>
              answer[k] = "created" \/ mint'[k].state # "none"
      BY <2>3
    <2> QED BY <2>1, <2>4, <2>5, <2>6
  <1>4. Login \/ LoginFails \/ StartProxyFails \/ ChildEnds \/ ProxyClose => Goal
    <2>1. Login \/ LoginFails \/ StartProxyFails \/ ChildEnds \/ ProxyClose =>
              /\ UNCHANGED <<wire, answer, keys, owner>> /\ phase' # "login"
              /\ frozen' = frozen \/ phase = "login"
      BY DEF Login, LoginFails, StartProxyFails, ChildEnds, ProxyClose, netVars, dirVars
    <2> QED BY <1>0, <1>a, <2>1
  <1>5. Revoke \/ RevokeTooLate \/ Killed => Goal
    BY <1>0, <1>a, GoneForAll
  <1>6. ASSUME NEW c \in Callers, Client(c)
        PROVE  Goal
    <2>0. frozen' = frozen /\ owner' = owner
      BY <1>6, ClientLeavesTables
    <2>p. \A ok : MainPhase(c, ok) => phase' = phase \/ phase' # "login"
      BY DEF MainPhase
    <2>1. CASE EnsureMint(c)
      <3>1. /\ keys' = keys + 1 /\ UNCHANGED <<answer, phase>> /\ phase # "login"
            /\ wire' = [wire EXCEPT ![keys + 1] = {"direct"}]
        BY <1>6, <2>1 DEF EnsureMint, Enters, GrantSound
      <3>2. \A j \in Keys \ {keys + 1} : wire'[j] = wire[j]
        BY <1>0, <3>1
      <3>3. \A j \in Keys : wire'[j] # {} => j <= keys'
        BY <1>0, <1>a, <3>1, <3>2
      <3>4. keys <= keys'
        BY <1>0, <3>1
      <3>5. answer' = answer /\ phase' # "login"
        BY <3>1
      <3> QED BY <2>0, <3>3, <3>4, <3>5
    <2>2. CASE EnsureTimesOut(c)
      <3>1. keys' = keys /\ (phase' = phase \/ phase' # "login")
        BY <2>2, <2>p DEF EnsureTimesOut
      <3>2. /\ \A j \in Keys : wire[j] = {} => wire'[j] = {}
            /\ \A j \in Keys : answer'[j] = answer[j] \/ answer'[j] = "none"
        BY <1>0, <2>2 DEF EnsureTimesOut
      <3>3. \A j \in Keys : wire'[j] # {} => j <= keys'
        BY <1>a, <3>1, <3>2
      <3>4. keys <= keys'
        BY <1>0, <3>1
      <3>5. \A j \in Keys : answer'[j] = "created" =>
                answer[j] = "created" \/ mint'[j].state # "none"
        BY <3>2
      <3> QED BY <2>0, <3>1, <3>3, <3>4, <3>5
    <2>3. CASE EnsureAnswered(c)
      <3>1. keys' = keys /\ wire' = wire /\ (phase' = phase \/ phase' # "login")
        BY <2>3, <2>p DEF EnsureAnswered
      <3>2. \A j \in Keys : answer'[j] = answer[j] \/ answer'[j] = "none"
        BY <1>0, <2>3 DEF EnsureAnswered
      <3>3. keys <= keys'
        BY <1>0, <3>1
      <3>4. \A j \in Keys : answer'[j] = "created" =>
                answer[j] = "created" \/ mint'[j].state # "none"
        BY <3>2
      <3> QED BY <1>a, <2>0, <3>1, <3>3, <3>4
    <2>4. CASE EnsureRefused(c)
      <3>1. UNCHANGED <<keys, wire, answer>> /\ (phase' = phase \/ phase' # "login")
        BY <2>4, <2>p DEF EnsureRefused, netVars
      <3> QED BY <1>0, <1>a, <2>0, <3>1
    <2>5. CASE Accepted(c) \/ EnsureCached(c) \/ RoundTrip(c) \/ RoundTripRejected(c) \/ ResponseEnds(c)
      <3>1. UNCHANGED <<keys, wire, answer, phase>>
        BY <2>5 DEF Accepted, EnsureCached, RoundTrip, RoundTripRejected, ResponseEnds, netVars
      <3> QED BY <1>1, <2>0, <3>1
    <2> HIDE DEF Goal
    <2> QED BY <1>6, <2>1, <2>2, <2>3, <2>4, <2>5 DEF Client, Goal
  <1>7. Policy \/ Over \/ UNCHANGED vars \/ (\E n \in Gens : Ageing(n)) => Goal
    <2>1. Policy \/ Over \/ UNCHANGED vars \/ (\E n \in Gens : Ageing(n)) =>
              UNCHANGED <<wire, answer, keys, phase, frozen, owner>>
      BY DEF Policy, Over, vars, Ageing, netVars, procVars, dirVars, UserDisabled, PersonDisabled,
             IdentityDisabled, Offboarding, MembershipDisabled, Reprovisioned, GroupsChanged,
             TargetToggled, Elsewhere, DisableHuman, DisablePerson, DisableMembership,
             ProvisionHuman, ReplaceGroupModels, ReplaceGroupPeople, DisableGroup, ToggleTarget
    <2> QED BY <1>1, <2>1
  <1> HIDE DEF Goal
  <1>8. Goal
    BY <1>2, <1>3, <1>4, <1>5, <1>6, <1>7 DEF Next, Process, Network
  <1> QED BY <1>8 DEF Goal

\* Grants, mints and offboardings keep their bookkeeping.
LEMMA GrantStays ==
    ASSUME CredentialInv, [Next]_vars
    PROVE  GrantSound'
  <1> USE DEF CredentialInv
  <1>0. /\ token \in [Gens -> TokenStates] /\ offboarded \subseteq Gens
        /\ mint \in [Keys -> [state : MintStates, gen : Gens \cup {0}]]
        /\ keys \in 0 .. MaxMints /\ MaxMints \in Nat /\ Keys = 1 .. MaxMints
        /\ keys' \in 0 .. MaxMints
    BY AgentTyped, AgentAssumption DEF TypeOK, Keys
  <1>1. Newest' = Cardinality(UsedKeys)'
    <2>0. Newest = Cardinality(UsedKeys)
      BY DEF GrantSound
    <2>1. ASSUME NEW k \in Keys, Fresh(k)
          PROVE  Newest' = Cardinality(UsedKeys)'
      <3>1. /\ mint' = [mint EXCEPT ![k] = [state |-> "completed", gen |-> Newest + 1]]
            /\ mint[k].state = "none"
        BY <2>1 DEF Fresh, Apply, Minted
      <3>2. UsedKeys' = UsedKeys \cup {k} /\ k \notin UsedKeys
        BY <1>0, <3>1 DEF UsedKeys
      <3>3. IsFiniteSet(UsedKeys)
        <4>1. IsFiniteSet(1 .. MaxMints)
          BY <1>0, FS_Interval
        <4> QED BY <1>0, <4>1, FS_Subset DEF UsedKeys
      <3>4. Cardinality(UsedKeys \cup {k}) = Cardinality(UsedKeys) + 1
        BY <3>2, <3>3, FS_AddElement
      <3>5. Newest' = Newest + 1
        BY <2>1, IssuedAfter
      <3> QED BY <2>0, <3>2, <3>4, <3>5
    <2>2. CASE ~\E k \in Keys : Fresh(k)
      <3>1. Newest' = Newest
        BY <2>2, IssuedAfter, ServiceSteps
      <3>2. UsedKeys' = UsedKeys
        BY <2>2, TokensAfter DEF UsedKeys
      <3> QED BY <2>0, <3>1, <3>2
    <2> QED BY <2>1, <2>2
  <1>2. ASSUME NEW k \in Keys
        PROVE  /\ mint'[k].state # "none" => mint'[k].gen \in Issued'
               /\ wire'[k] # {} \/ mint'[k].state # "none" => k <= keys'
               /\ answer'[k] = "created" => mint'[k].state # "none"
    <2>0. /\ mint[k].state # "none" => mint[k].gen \in Issued
          /\ wire[k] # {} \/ mint[k].state # "none" => k <= keys
          /\ answer[k] = "created" => mint[k].state # "none"
      BY DEF GrantSound
    <2>1. CASE mint[k].state # "none"
      <3>1. mint[k].gen \in Gens
        BY <2>0, <2>1 DEF Issued
      <3> QED BY <1>0, <2>0, <2>1, <3>1, TokensAfter, WireSteps
    <2>2. CASE mint[k].state = "none" /\ mint'[k].state # "none"
      <3>1. Fresh(k) /\ mint'[k].gen = Newest + 1
        BY <2>2, TokensAfter
      <3>2. Issued' = 1 .. Newest + 1 /\ Newest \in Nat
        BY <3>1, IssuedAfter, IssuedUpTo, <1>0
      <3>3. wire[k] # {}
        BY <3>1 DEF Fresh
      <3> QED BY <1>0, <2>0, <2>2, <3>1, <3>2, <3>3, WireSteps
    <2>3. CASE mint[k].state = "none" /\ mint'[k].state = "none"
      BY <2>0, <2>3, WireSteps
    <2> QED BY <2>1, <2>2, <2>3
  <1>3. ASSUME NEW n \in offboarded'
        PROVE  token'[n] = "revoked"
    <2>1. CASE n \in offboarded
      BY <1>0, <2>1, TokensAfter DEF GrantSound
    <2>2. CASE n \notin offboarded
      <3>1. AllRevoked /\ n \in Issued
        BY <2>2, ServiceSteps DEF Untouched, Fresh, Again, AllRevoked
      <3> QED BY <1>0, <3>1 DEF AllRevoked, Issued, TokenStates
    <2> QED BY <2>1, <2>2
  <1>4. phase' = "login" => /\ grant'.status = "none" /\ keys' = 0
                            /\ \A c \in Callers : pc'[c] # "queued"
    <2> SUFFICES ASSUME phase' = "login"
                 PROVE  /\ grant'.status = "none" /\ keys' = 0
                        /\ \A c \in Callers : pc'[c] # "queued"
      OBVIOUS
    <2>1. phase = "login" /\ keys' = keys
      BY WireSteps
    <2>2. grant.status = "none" /\ keys = 0
      BY <2>1 DEF GrantSound
    <2>3. \A k \in Keys : ~Fresh(k)
      BY <1>0, <2>2 DEF Fresh, GrantSound
    <2>4. grant' = grant
      BY <2>2, <2>3, ServiceSteps DEF Untouched, AllRevoked, Again, Apply, Replayed
    <2>5. \A c \in Callers : pc[c] # "queued"
      BY <2>1 DEF GrantSound
    <2>6. \A c \in Callers : pc'[c] # "queued"
      <3>1. ASSUME NEW d \in Callers, Client(d)
            PROVE  \A c \in Callers : pc'[c] # "queued"
        <4>1. \A c \in Callers \ {d} : pc'[c] = pc[c]
          BY <1>0, <3>1, ClientSteps
        <4>2. pc'[d] # "queued"
          BY <1>0, <2>1, <3>1, ClientSteps, <2>5
        <4> QED BY <2>5, <4>1, <4>2
      <3>2. CASE Still
        BY <2>5, <3>2 DEF Still
      <3>3. ~(Revoke \/ RevokeTooLate \/ Killed)
        BY GoneForAll
      <3> QED BY <3>1, <3>2, <3>3, StillSteps
    <2> QED BY <2>1, <2>2, <2>4, <2>6
  <1>5. grant'.status = "live" => grant'.aliases = frozen'
    <2> SUFFICES ASSUME grant'.status = "live"
                 PROVE  grant'.aliases = frozen'
      OBVIOUS
    <2>1. ASSUME NEW k \in Keys, Fresh(k)
          PROVE  grant'.aliases = frozen'
      BY <2>1 DEF Fresh, Apply, Minted
    <2>2. CASE grant' = grant
      BY <2>2, WireSteps DEF GrantSound
    <2> QED BY <2>1, <2>2, ServiceSteps DEF Untouched, AllRevoked, Again, Apply, Replayed
  <1>6. owner' # None
    BY WireSteps DEF GrantSound
  <1> QED BY <1>1, <1>2, <1>3, <1>4, <1>5, <1>6 DEF GrantSound

----------------------------------------------------------------------------
(* The theorems.                                                           *)

\* The initial state satisfies the invariant.
LEMMA InitCredentials == Init => CredentialInv /\ HeldIsLatest
  <1> SUFFICES ASSUME Init
               PROVE  CredentialInv /\ HeldIsLatest
    OBVIOUS
  <1> USE DEF Init
  <1>0. MaxMints \in Nat /\ 0 \in 0 .. MaxMints
    BY AgentAssumption
  <1>1. DirectoryTypeOK /\ owner # None
    BY DirectoryAssumption DEF DirectoryInit, DirectoryTypeOK, Standing
  <1>2. TypeOK
    BY <1>0, <1>1 DEF TypeOK, GrantStates, TokenStates, Ages, MintStates, Answers, Phases, Stages
  <1>3. Issued = {} /\ UsedKeys = {}
    BY DEF Issued, UsedKeys
  <1>4. Newest = 0 /\ Cardinality(UsedKeys) = 0
    BY <1>3, FS_EmptySet DEF Newest
  <1>5. IssuedInOrder
    <2>1. Issued = 1 .. 0
      BY <1>3
    <2> QED BY <1>0, <2>1 DEF IssuedInOrder
  <1>6. GrantSound
    BY <1>1, <1>4 DEF GrantSound
  <1>7. LiveTokenAuthority /\ ReplayLeavesNoToken
    BY DEF LiveTokenAuthority, ReplayLeavesNoToken
  <1>8. MutexHeldByCall
    BY AgentAssumption DEF MutexHeldByCall, Callers
  <1>9. SessionSound /\ HeldIsLatest
    BY DEF SessionSound, HeldIsLatest
  <1> QED BY <1>2, <1>5, <1>6, <1>7, <1>8, <1>9 DEF CredentialInv

\* A step preserves the invariant.
LEMMA StepCredentials ==
    CredentialInv /\ HeldIsLatest /\ [Next]_vars => CredentialInv' /\ HeldIsLatest'
  <1> SUFFICES ASSUME CredentialInv, HeldIsLatest, [Next]_vars
               PROVE  CredentialInv' /\ HeldIsLatest'
    OBVIOUS
  <1> QED BY AgentTyped, OrderStays, GrantStays, AuthorityStays, ReplayStays, MutexStays,
             SessionStays DEF CredentialInv

\* Grants, tokens and the session's mutex are in order in every reachable
\* state: the one live token is the newest and has authority behind it, and a
\* mint that arrived twice has left none (MintAgentCredential,
\* RevokeAgentGrant, EnsureHumanCredential, migration 0014).
THEOREM Credentials == Spec => []CredentialInv
  BY InitCredentials, StepCredentials, PTL DEF Spec

\* The session holds the newest of the tokens its requests were given (the
\* mutex of EnsureHumanCredential, held across the mint).
THEOREM Latest == Spec => []HeldIsLatest
  BY InitCredentials, StepCredentials, PTL DEF Spec

\* A request is admitted only while the employee is in good standing, for a
\* model the access page shows him, with a token no offboarding has reached
\* (AuthenticateHuman).
THEOREM Admission == Spec => AdmittedIsShown
  <1>1. CredentialInv /\ [Next]_vars => [AllShown]_vars
    <2> SUFFICES ASSUME CredentialInv, [Next]_vars, NEW c \in Requests,
                        pc[c] = "send", pc'[c] = "stream"
                 PROVE  /\ InStanding(Employee)
                        /\ alias'[c] \in LoadAccess(Employee).shown[Employee] \cap frozen
                        /\ gen[c] \notin offboarded
      BY DEF AllShown, ShownTo
    <2> USE DEF CredentialInv
    <2>0. /\ c \in Callers /\ pc \in [Callers -> Stages] /\ alias \in [Callers -> Aliases \cup {None}]
          /\ Employee \in Users
      BY AgentAssumption DEF TypeOK, Callers
    <2>1. RoundTrip(c)
      <3>1. ~Still /\ ~(Revoke \/ RevokeTooLate \/ Killed)
        BY <2>0, GoneForAll DEF Still
      <3>2. PICK d \in Callers : Client(d)
        BY <3>1, StillSteps
      <3>3. d = c
        BY <2>0, <3>2, ClientSteps
      <3> QED BY <2>0, <3>2, <3>3 DEF Client, Accepted, EnsureCached, Enters, EnsureMint, EnsureRefused,
                 EnsureAnswered, EnsureTimesOut, RoundTripRejected, ResponseEnds, Ends
    <2>2. PICK a \in Aliases : AuthenticateHuman(gen[c], a) /\ alias'[c] = a
      BY <2>0, <2>1 DEF RoundTrip
    <2>3. /\ InStanding(Employee) /\ token[gen[c]] = "live" /\ grant.status = "live"
          /\ a \in grant.aliases /\ a \in loadEffectiveModels(Employee)
      BY <2>2 DEF AuthenticateHuman, TokenUsable, Entitled, AllowedModelAliases
    <2>4. a \in frozen /\ gen[c] \notin offboarded
      BY <2>3 DEF GrantSound
    <2>5. a \in LoadAccess(Employee).shown[Employee]
      <3>1. owner # None /\ person[Employee] = "enabled"
        BY <2>3 DEF GrantSound, InStanding
      <3>2. LoadAccess(Employee).shown = loadPeople(Employee)
        BY <3>1 DEF LoadAccess
      <3>3. CASE Employee = owner
        <4>1. loadPeople(Employee)[Employee] = Aliases
          BY <2>0, <3>1, <3>3 DEF loadPeople, loadCompanyModels
        <4> QED BY <3>2, <4>1
      <3>4. CASE Employee # owner
        <4>1. loadPeople(Employee)[Employee] = loadPersonModels(Employee)
          BY <3>4 DEF loadPeople
        <4>2. a \in loadPersonModels(Employee)
          BY <2>3, <3>4 DEF loadPersonModels, loadEffectiveModels, Through
        <4> QED BY <3>2, <4>1, <4>2
      <3> QED BY <3>3, <3>4
    <2> QED BY <2>2, <2>3, <2>4, <2>5
  <1> QED BY <1>1, Credentials, PTL DEF Spec, AdmittedIsShown

\* A grant that offboarding revoked stays revoked (MintAgentCredential's check
\* of revocation_reason).
THEOREM Offboarded == Spec => OffboardingIsTerminal
  <1>1. CredentialInv /\ [Next]_vars => [StaysOffboarded]_vars
    <2> SUFFICES ASSUME CredentialInv, [Next]_vars,
                        grant.status = "identity_or_person_disabled"
                 PROVE  grant' = grant
      BY DEF StaysOffboarded
    <2>1. \A k \in Keys : ~Fresh(k)
      BY DEF Fresh, Renewable
    <2> QED BY <2>1, ServiceSteps DEF CredentialInv, Untouched, AllRevoked, Again, Apply, Replayed
  <1> QED BY <1>1, Credentials, PTL DEF Spec, OffboardingIsTerminal
============================================================================
