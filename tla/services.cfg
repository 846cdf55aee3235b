SPECIFICATION ServicesSpec
CONSTANTS
    a = a
    b = b
    c = c
    Instances = {root, a, b, c}
    Root = root
    Helpers <- Kinds
    Kind <- OneOfEach
    Period <- Periods
    MaxTime = 6
    MaxCalls = 3
    Sinks = {"all", "warnings"}
    Interest <- Interests
    Levels = {1, 2}
    Notice = 2
    BufferSize = 2
    MaxRecords = 4
    MaxNesting = 2
    Items = {"a", "a2", "b"}
    Key <- Keys
    Listeners = {"l1", "l2"}
    Vacant = "vacant"
    Scopes = {"s1", "s2", "s3"}
    Things = {"e"}
    Base = "root"
    NoScope = "nobody"
SYMMETRY Interchangeable
CHECK_DEADLOCK FALSE
INVARIANTS
    
    StopMeansStopped
    OnSchedule
    
    Followed
    ScopesHold
