SPECIFICATION Spec
CONSTANTS
    boss = boss  emp = emp  g1 = g1  a1 = a1  a2 = a2  p1 = p1  p2 = p2
    None = None
    Main = Main
    Users = {boss, emp}
    Groups = {g1}
    Aliases = {a1, a2}
    Toggled = {a1}
    Employee = emp
    Requests = {p1, p2}
    MaxMints = 3
    Plans <- AgentPlans
INVARIANTS CredentialInv HeldIsLatest
PROPERTIES AdmittedIsShown OffboardingIsTerminal

SYMMETRY Interchangeable
