SPECIFICATION FairSpec
CONSTANTS
    image_min = 1
    image_max = 31
    raw <- MCRaw
    decodes <- MCDecodes
    pointer <- MCPointer
    func_starts <- MCFuncStarts
    imports <- MCImports
    stub_page <- MCStubPage
    StackPage = 20
    NoPage = NoPage
    dirty_allowance = 3
    MaxU64 = 5
    Configs <- MCConfigs
    MaxForeign = 2
INVARIANT BudgetIsPerFunction
