CONSTANTS
    Node <- MCNode
    Root = "r"
    Kind <- MCKind
    Entries <- MCEntries
    MountedOn <- MCMountedOn
    MountpointOf <- MCMountpointOf
    Targets <- MCTargets
    Paths <- MCPaths
    SYMLINK_MAX_DEPTH = 4
    PATH_LEN = 6
SPECIFICATION Spec
INVARIANTS AgreesWithWalk
PROPERTIES Terminates
CHECK_DEADLOCK FALSE
