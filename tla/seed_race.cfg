CONSTANTS
    Starters = {p1, p2}
    Seeds = {s1, s2}
    NoFile = nofile
    Empty = empty
SPECIFICATION Spec
INVARIANT StartsSucceed
