SPECIFICATION Spec
CONSTANTS
    M = 128
    max_vector = 63
    alloc_alignment = 4
    arena_size = 16
    page_align = 8
    page_size = 2
    Layouts <- MCLayouts
    Sizes = {0, 3, 6, 100, 126}
    Counts = {2, 43}
    MaxBlocks = 4
    MaxStrays = 1
INVARIANTS TypeOK ArenaConflictFree BlocksDisjoint CleanAboveCursor NoThrow
PROPERTIES ReallocKeepsContents
CHECK_DEADLOCK FALSE
