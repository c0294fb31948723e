SPECIFICATION Spec
CONSTANTS
    ann = ann  bob = bob  cat = cat  o1 = o1  o2 = o2  r1 = r1  r2 = r2  acc1 = acc1  acc2 = acc2
    None = None
    Users = {ann, bob, cat}
    Organisations = {o1, o2}
    OwnerOf <- OwnersAre
    Memberships = {1, 2, 3}
    MemberUser <- UserOfMember
    MemberOrg <- OrgOfMember
    Requests = {r1, r2}
    Accounts = {acc1, acc2}
    AccountOrg <- OrgsOfAccount
    Provisioned = {acc2}
    MaxSessions = 2
    MaxKeys = 2
    MaxPasswords = 2
    MaxChanges = 2
INVARIANTS PortalInv OldPasswordOnlyByOverlap
PROPERTY ServedInStanding
CHECK_DEADLOCK FALSE
SYMMETRY Interchangeable
