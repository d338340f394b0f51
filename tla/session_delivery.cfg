CONSTANTS
    Sessions = {s1}
    Workers = {w1, w2}
    Clients = {c1}
    StrayOrders = {s1}
    NoSession = NoSession
    Faults = FALSE
SPECIFICATION StreamSpec
PROPERTIES BooksFollow VerdictReachesSession StreamKeepsUp
