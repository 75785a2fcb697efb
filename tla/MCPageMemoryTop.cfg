SPECIFICATION FairSpec
CONSTANTS
    M = 32
    page_size = 4
    CorePages = {4, 8, 20}
    max_transient_regions = 3
    max_region_scan = 8
    Accesses <- MCAccesses
PROPERTY HookReturns
