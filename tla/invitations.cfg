SPECIFICATION Spec
CONSTANTS
    boss = boss  n1 = n1  n2 = n2  g1 = g1  g2 = g2  a1 = a1  e1 = e1  e2 = e2  s1 = s1  s2 = s2
    None = None
    Users = {boss, n1, n2}
    Groups = {g1}
    Aliases = {}
    Toggled = {}
    Emails = {e1, e2}
    Subjects = {s1, s2}
    MaxInvs = 2
    MaxSetups = 2
    MaxTxns = 2
    MaxSends = 2
    Plans <- InvitePlans
INVARIANTS InvitationInv OwnerCanAct
PROPERTIES GroupsAsInvited RejoinOnlyByOverlap
SYMMETRY Interchangeable
CHECK_DEADLOCK FALSE
