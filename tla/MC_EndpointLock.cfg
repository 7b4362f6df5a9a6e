SPECIFICATION FairSpec
CONSTANTS
    Procs = {p1, p2, p3}
    Clients = {c1, c2}
    Inodes = {i1, i2}
    Platforms = {"unix", "windows"}
    None = None
INVARIANTS
    SocketIsTheOwners
PROPERTIES
    ImplementsEndpoint
    SpawnedIsServed
