CONSTANTS
    MAX_MOUNTS = 4
    Label <- MCLabel
    Slashed <- MCSlashed
    Inode = {1, 2}
SPECIFICATION Spec
INVARIANTS CrossingInverts InUseIsDirty
PROPERTIES HaltCleansAll
