\* One headless application and those that follow it under its id, three windows.
CONSTANTS
    AppIds = {1}
    HeadlessApps = {1}
    Pids = {p1}
    Objects = {o1, o2}
    Windows = {w1, w2, w3}
    Null = Null
    Dangling = Dangling
SPECIFICATION Spec
SYMMETRY Symmetry
INVARIANTS
    WindowsOwned
    PointersSound
    MainHearsRelaunch
    ReachedHaveMainWindow
PROPERTIES
    HeadlessNotLeftAlone
    KeptAliveUntilKilled
