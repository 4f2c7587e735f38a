SPECIFICATION TimerSpec
CONSTANTS
    A = A
    B = B
    a1 = a1
    a2 = a2
    b1 = b1
    None = None
    Clients = {A, B}
    Requests = {a1, a2, b1}
    Conns = {c1, c2}
    Oneways = {a2}
    IdleTimeout = TRUE
    ClientOf <- MCClientOf
    IdOf <- MCIdOf
PROPERTY EveryRequestEnds
CHECK_DEADLOCK FALSE
