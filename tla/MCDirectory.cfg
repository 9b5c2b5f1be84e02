CONSTANTS
    Name <- MCName
    Width <- MCWidth
    Header = 2
    BLOCK_SIZE = 10
    MaxBlocks = 3
    Inode = {1, 2}
SPECIFICATION Spec
INVARIANTS WellFormed ReusesRoom
PROPERTIES ActsAsMap
