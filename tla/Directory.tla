----------------------------- MODULE Directory -----------------------------
(***************************************************************************)
(* Who works for an organisation and which models they may use: users,     *)
(* their membership of the organisation's one environment, their person    *)
(* record, the current owner, the access groups and the routes.  The       *)
(* modules that use the directory extend this one.                         *)
(*                                                                         *)
(* Every operation is one transaction.  Those of the owner lock the        *)
(* owner's person row (requireCompanyOwner), so they exclude each other.   *)
(* A model alias stands for the route of that model; routes and models are *)
(* enabled, and what an operator switches is the target.  Names and audit  *)
(* rows are left out, and so is authorisation_generation, which is         *)
(* advanced and never read.                                                *)
(***************************************************************************)
EXTENDS Integers, FiniteSets

CONSTANTS
    Users,
    Groups,
    Aliases,
    Toggled,  \* the aliases whose target an operator may switch off and on
    None

ASSUME DirectoryAssumption == None \notin Users /\ Toggled \subseteq Aliases

VARIABLES
    user,     \* [Users -> Standing]: human_users
    person,   \* [Users -> Standing]: organisation_people
    member,   \* [Users -> Standing]: human_memberships
    owner,    \* the user with the current ownership, or None
    group,    \* [Groups -> Standing]: access_groups
    people,   \* [Groups -> SUBSET Users]: access_group_people
    models,   \* [Groups -> SUBSET Aliases]: access_group_models
    targets   \* the aliases whose target is enabled

dirVars == <<user, person, member, owner, group, people, models, targets>>
peopleVars == <<user, person, member, owner>>
groupVars  == <<group, people, models>>

Standing == {"absent", "enabled", "disabled"}

DirectoryTypeOK ==
    /\ {user, person, member} \subseteq [Users -> Standing]
    /\ owner \in Users \cup {None}
    /\ group \in [Groups -> Standing]
    /\ people \in [Groups -> SUBSET Users]
    /\ models \in [Groups -> SUBSET Aliases]
    /\ targets \subseteq Aliases

\* A company with its first people and groups: the staff is in every group and
\* every group has every model.
DirectoryInit(own, staff, provisioned, gs) ==
    LET Present(S) == [x \in Users |-> IF x \in S THEN "enabled" ELSE "absent"] IN
    /\ user = Present(staff \cup provisioned)
    /\ person = Present(staff \cup provisioned)
    /\ member = Present(staff \cup provisioned)
    /\ owner = own
    /\ group = [g \in Groups |-> IF g \in gs THEN "enabled" ELSE "absent"]
    /\ people = [g \in Groups |-> IF g \in gs THEN staff ELSE {}]
    /\ models = [g \in Groups |-> IF g \in gs THEN Aliases ELSE {}]
    /\ targets = Aliases

----------------------------------------------------------------------------
(* The access policy.                                                      *)

Through(u) == {g \in Groups : group[g] = "enabled" /\ u \in people[g]}

\* The models a person may use now: the owner all of them, an employee those of
\* the enabled groups he is in; only with an enabled target.
loadEffectiveModels(u) ==
    targets \cap (IF u = owner THEN Aliases ELSE UNION {models[g] : g \in Through(u)})

\* The models the access page says a person has.
loadPersonModels(u) == UNION {models[g] : g \in {h \in Groups :
                                  group[h] = "enabled" /\ u \in people[h]}}

\* The models of the company: the routes and models are all enabled.
loadCompanyModels == Aliases

\* The people the access page shows with their models: the owner sees everybody,
\* an employee himself.
loadPeople(u) ==
    [x \in IF u = owner THEN {y \in Users : person[y] # "absent"} ELSE {u} |->
        IF x = owner THEN loadCompanyModels ELSE loadPersonModels(x)]

\* The groups it shows: the owner sees every group, an employee those he is in.
loadGroups(u) ==
    IF u = owner THEN {g \in Groups : group[g] # "absent"} ELSE {g \in Groups : u \in people[g]}

\* The access page of a user: nothing before the organisation has an owner, and
\* nothing for somebody who is not an enabled person of it.
LoadAccess(u) ==
    IF owner = None \/ person[u] # "enabled"
    THEN [relationship |-> "none", shown |-> [x \in {} |-> {}], groups |-> {}]
    ELSE [relationship |-> IF u = owner THEN "owner" ELSE "employee",
          shown |-> loadPeople(u), groups |-> loadGroups(u)]

\* What any signed-in use of the organisation needs.
InStanding(u) == user[u] = "enabled" /\ person[u] = "enabled" /\ member[u] = "enabled"

----------------------------------------------------------------------------
(* The operator's commands.                                                *)

ProvisionHuman(u) ==
    /\ user[u] # "disabled"
    /\ user' = [user EXCEPT ![u] = "enabled"]
    /\ member' = [member EXCEPT ![u] = "enabled"]
    /\ person' = [person EXCEPT ![u] = "enabled"]
    /\ UNCHANGED <<owner, group, people, models, targets>>

\* Mutant: the ownership is not looked at.
MayDisableAny(u) == user[u] # "absent"

MayDisable(u) == user[u] # "absent" /\ owner # u

DisableHuman(u) ==
    /\ MayDisable(u)
    /\ user' = [user EXCEPT ![u] = "disabled"]
    /\ UNCHANGED <<person, member, owner, group, people, models, targets>>

AssignInitialOwner(u) ==
    /\ user[u] = "enabled" /\ member[u] = "enabled"
    /\ owner \in {None, u}
    /\ owner' = u
    /\ person' = [person EXCEPT ![u] = "enabled"]
    /\ UNCHANGED <<user, member, group, people, models, targets>>

\* SQL of an operator: the columns exist and the code reads them, and no command
\* writes them.  The current owner's person row is protected by a trigger.
DisablePerson(u) ==
    /\ person[u] = "enabled" /\ owner # u
    /\ person' = [person EXCEPT ![u] = "disabled"]
    /\ UNCHANGED <<user, member, owner, group, people, models, targets>>

DisableMembership(u) ==
    /\ member[u] = "enabled"
    /\ member' = [member EXCEPT ![u] = "disabled"]
    /\ UNCHANGED <<user, person, owner, group, people, models, targets>>

ToggleTarget(a) ==
    /\ a \in Toggled
    /\ targets' = (targets \ {a}) \cup ({a} \ targets)
    /\ UNCHANGED <<user, person, member, owner, group, people, models>>

----------------------------------------------------------------------------
(* The owner's pages.                                                      *)

requireCompanyOwner == owner # None /\ person[owner] = "enabled"

CreateGroup(g, as) ==
    /\ requireCompanyOwner
    /\ group[g] = "absent"
    /\ group' = [group EXCEPT ![g] = "enabled"]
    /\ models' = [models EXCEPT ![g] = as]
    /\ UNCHANGED <<user, person, member, owner, people, targets>>

\* The people of a group are enabled and not the owner.
validateEmployeePeople == {u \in Users : person[u] = "enabled" /\ u # owner}

ReplaceGroupPeople(g, us) ==
    /\ requireCompanyOwner
    /\ group[g] = "enabled"
    /\ us \subseteq validateEmployeePeople
    /\ people' = [people EXCEPT ![g] = us]
    /\ UNCHANGED <<user, person, member, owner, group, models, targets>>

ReplaceGroupModels(g, as) ==
    /\ requireCompanyOwner
    /\ group[g] = "enabled"
    /\ models' = [models EXCEPT ![g] = as]
    /\ UNCHANGED <<user, person, member, owner, group, people, targets>>

DisableGroup(g) ==
    /\ requireCompanyOwner
    /\ group[g] = "enabled"
    /\ group' = [group EXCEPT ![g] = "disabled"]
    /\ UNCHANGED <<user, person, member, owner, people, models, targets>>

============================================================================
