CONSTANTS
    Starters = {p1, p2, p3}
    Seeds = {s1, s2, s3}
    NoFile = nofile
    Empty = empty
SPECIFICATION Spec
INVARIANT TypeOK
INVARIANT KeyIsStable
INVARIANT ServedKeyIsStored
PROPERTY SettlesOneKey
