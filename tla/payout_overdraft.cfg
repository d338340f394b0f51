CONSTANTS
    p1 = p1
    p2 = p2
    Payouts = {p1, p2}
    Owners = {owner}
    Admins = {admin}
    Members = {member}
    Workers = {w1, w2}
    NoUser = NoUser
    NoPayout = NoPayout
    Amount <- MCAmount
    Sessions = {s1}
    Faults = FALSE
SPECIFICATION Spec
INVARIANT NeverOverdrawn
CHECK_DEADLOCK FALSE
