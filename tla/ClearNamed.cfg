CONSTANTS
    AppIds = {1, 2}
    HeadlessApps = {1}
    Pids = {p1, p2}
    Objects = {o1, o2}
    Windows = {w1, w2, w3}
    Null = Null
    Dangling = Dangling
SPECIFICATION Spec
SYMMETRY Symmetry
PROPERTY
    ClearsOnlyNamed
