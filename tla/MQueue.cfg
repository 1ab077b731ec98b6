CONSTANTS
    Thread = {t1, t2, t3}
    Message = {x, y}
    Empty = Empty
    Capacity = 2

SPECIFICATION LiveSpec

INVARIANTS
    TokensMatchMessages

PROPERTIES
    ImplementsChannel
    MessageReachesReceiver

CHECK_DEADLOCK FALSE
