CONSTANTS
    root = root
    i1 = i1
    i2 = i2
    i3 = i3
    i4 = i4
    s1 = s1
    s2 = s2
    s3 = s3
    Inode <- MCInode
    CallInodes <- MCCallInodes
    Trees <- MCTrees
    ROOT_INODE_N = root
    Name = {"a", "b"}
    MAX_DIR_DEPTH = 3
    MaxLinks = 4
    Empty = Empty
    Partial = Partial
    Anything = Anything
SPECIFICATION CommandsSpec
SYMMETRY Symmetry
INVARIANTS InUseIsNamed LinksExact TreeRooted CopiesExactly RemovesExactly
PROPERTIES MountpointsPinned
