SPECIFICATION Spec
CONSTANTS
    FdUsers = {a, b, c}
    HookedUsers = {a, b}
    MaxFd = 3
    FirstSize = 2
    MaxFdOps = 4
    Creators = {k1, k2}
    Setters = {s1, s2}
    Listeners = {n}
    Contents = {u, v}
    MaxSets = 3
    MaxMtime = 2
    LoggerNames = {"root", "http"}
    LogDefines <- MCLogDefines
    NoDefine = NoDefine
    LogThreads = {w}
    LogSetters = {g, h}
    MaxLogOps = 3
    BaseSize = 3
    Byte = {0, 1}
    MaxLen = 4
    MaxByteOps = 3
    WordBits = 8
    GroupBits = 3
    ByteBits = 4
    AddressBytes = 2
SYMMETRY Symmetry
CHECK_DEADLOCK FALSE
INVARIANTS
    FdTablesConsistent
    ThreadsConsistent
    ConfigConsistent
    BytesConsistent
    
    ParsersConform
PROPERTIES
    LogConsistent
    ImplementsString
