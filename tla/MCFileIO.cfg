SPECIFICATION Spec
CONSTANTS
    N = 4
    Window = 5
    CacheSize = 4
    Granule = 2
    MaxName = 1
    NameLen = 1
    MaxSize = 12
    WriteSizes = {1, 3, 5}
    ReadSizes = {1, 3, 7}
    RootWindows <- MCRootWindows
INVARIANTS TypeOK CacheAgrees
PROPERTIES ImplementsStream CallReturns
