\* A headless and an ordinary application, two process ids, two windows.
CONSTANTS
    AppIds = {1, 2}
    HeadlessApps = {1}
    Pids = {p1, p2}
    Objects = {o1, o2}
    Windows = {w1, w2}
    Null = Null
    Dangling = Dangling
SPECIFICATION Spec
SYMMETRY Symmetry
INVARIANTS
    TypeOK
    RegistryExact
    ListenerSound
    LaunchReplyTruthful
PROPERTIES
    ImplementsRunningApps
