CONSTANTS
    Keys = {k1, k2}
    Bodies = {b1, b2}
    Workers = {w1, w2, w3}
    NoKey = NoKey
    NoBody = NoBody
SPECIFICATION Spec
INVARIANTS TypeOK AnswersAgree
PROPERTIES ContractHolds KeyReleased
CHECK_DEADLOCK FALSE
