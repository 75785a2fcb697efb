SPECIFICATION Spec
CONSTANTS
    max_buffer = 12
    page_size = 8
    register_scan_size = 8
    max_scan = 12
    max_region_scan = 16
    stack_begin = 24
    stack_base = 40
    Image <- MCImage
    StoreMenu <- MCStoreMenu
    RspMenu <- MCRspMenu
    CallMenu <- MCCallMenu
    JumpMenu <- MCJumpMenu
    Settings <- MCSettings
    MaxSteps = 3
INVARIANT TypeOK
PROPERTY ListedStringsExist TrackedStringsListed StackStringsListed CLibraryFollowed StubWritesBounded
\* The model stops after MaxSteps instructions.
CHECK_DEADLOCK FALSE
