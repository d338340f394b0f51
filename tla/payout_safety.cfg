CONSTANTS
    p1 = p1
    p2 = p2
    Payouts = {p1, p2}
    Owners = {owner}
    Admins = {admin}
    Members = {member}
    Workers = {w1, w2}
    NoUser = NoUser
    NoPayout = NoPayout
    Amount <- MCAmount
    Sessions = {s1}
    Faults = TRUE
SPECIFICATION Spec
SYMMETRY Symmetry
INVARIANTS TypeOK ExecutesOnce DualControl OverdraftBounded
PROPERTY ContractHolds
CHECK_DEADLOCK FALSE
