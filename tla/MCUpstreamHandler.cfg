CONSTANTS
    None = None
    Requests = {1, 2, 3}
    Conns = {h1, h2}
    IdOf <- MCIdOf
SPECIFICATION FairSpec
CHECK_DEADLOCK FALSE
INVARIANT TypeOK
 
INVARIANT SingleOutcome
 
