CONSTANTS
    None = None
    Requests = {m1, m2}
    Conns = {c1, c2}
    Ids = {s1, s2}
    Down = Down
    MaxFrames = 3
SPECIFICATION Spec
CHECK_DEADLOCK FALSE
INVARIANT DecodesWholeMessages
