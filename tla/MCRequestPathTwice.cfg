SPECIFICATION Spec
CONSTANTS
    A = A
    B = B
    a1 = a1
    a2 = a2
    b1 = b1
    None = None
    Clients = {A, B}
    Requests = {a1, a2, b1}
    Conns = {c1, c2}
    Oneways = {}
    IdleTimeout = TRUE
    ClientOf <- MCClientOf
    IdOf <- MCIdOf
INVARIANT SingleReply
CHECK_DEADLOCK FALSE
