CONSTANTS
    Clients = {c1, c2, c3}
    Backlog = 1
    NoReply = NoReply
SPECIFICATION Spec
INVARIANTS TypeOK
PROPERTIES ClientsTerminate
CHECK_DEADLOCK FALSE
