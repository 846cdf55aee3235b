SPECIFICATION DeploymentSpec
CONSTANTS
    None = None
    top = top    sub = sub    iso = iso
    outer = outer    inner = inner    apart = apart
    sql = sql
    now = now    gated = gated    opened = opened
    reader = reader    aside = aside
    Providers = {now, gated, opened}
    Consumers = {reader, aside}
    Names = {sql}
    Realms = {outer, inner, apart}
    Contexts = {top, sub, iso}
    Outer <- MCOuter
    DefaultRealm = outer
    Above <- MCAbove
    Isolates <- MCIsolates
    Enters <- MCEnters
    NameOf <- MCNameOf
    From <- MCFrom
    Gate <- MCGate
    Needs <- MCNeeds
    At <- MCAt
    Faulty = {aside}
    Insiders = {}
    Keys = {sql}
    Metas <- MCMetas
    Entries <- MCEntries
    Labels = {"t"}
    Default <- MCDefault
    Values = {"p"}
    MaxContexts = 4
    MaxBindings = 2
    Modules = {"a", "b", "c"}
    Rank <- MCRank
    Changes = {"x", "y"}
    Askers = {"a1", "a2", "w"}
    Watchers = {"w"}
    Watched <- MCWatched
    MaxVersion <- MCMaxVersion
    RunsRaise = TRUE
    Nobody = None
    Mounted <- MCMounted
    Tokens <- MCTokens
    Isolatable = {"x"}
    Ids = {"a", "b", "c", "g", "h"}
    Base <- MCBase
    Patches <- MCPatches
    Sources <- MCSources
    MaxPatches = 3
    AnyName = "any"
CHECK_DEADLOCK FALSE
INVARIANTS
    OneClaim
    NeverHalfBuilt
    Withdrawn
    Informed
    BoundWhereResolved
    
    ReloadComplete
    Diagnosed
    Layered
    WalksAreCopies
    
