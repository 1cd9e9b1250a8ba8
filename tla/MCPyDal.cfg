SPECIFICATION Spec
CONSTANTS
    o1 = o1
    o2 = o2
    o3 = o3
    Base = Base
    Sub = Sub
    None = None
    Ids = {o1, o2, o3}
    Classes = {Base, Sub}
    ClassOf <- MCClassOf
    OksTypes <- MCOksTypes
    RelType = Sub
    ReadOnly = {o1}
    Stored <- MCStored
    Dals = {1, 2, 3}
    Values = {0, 1}
    Assigned = {1}
    Default = 0
    MaxOperations = 5
INVARIANTS
    TypeOK
    CallStores
    NothingElseTouched
    CachedUnderAllTypes
    CacheReflects
    GetFindsAll
CHECK_DEADLOCK FALSE
