SPECIFICATION Spec
CONSTANTS
    Processes = {p1, p2}
    Ids = {a, b, c}
    Servers = {h1, h2}
    Inodes = {i1, i2, i3}
    NoInode = NoInode
    MaxAccounts = 3
    Plans = {o1}
    StartVersions = {0, 1, 3}
    IndexVersions = {0, 2}
SYMMETRY Symmetry
CONSTRAINT Bound
INVARIANTS
    TypeOK
    AcknowledgedStay
    SecretReachesItsServer
    MigratedOnce
