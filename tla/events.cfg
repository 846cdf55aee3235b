SPECIFICATION Spec
CONSTANTS
    None = None
    f1 = f1
    f2 = f2
    inner = inner
    MaxEntries = 2
    Contexts = {inner}
    Lineage <- MCLineage
    OwnFilter <- MCOwnFilter
    Filters = {f1, f2}
    d1 = d1
    d2 = d2
    h1 = h1
    h2 = h2
    Dispatches = {d1, d2}
    Handlers = {h1, h2}
    Modes = {"emit", "parallel", "serial", "waterfall"}
    Paired = {"waterfall"}
    MaxNext = 2
CONSTRAINT QuietPairs
SYMMETRY Sym
CHECK_DEADLOCK FALSE
INVARIANTS
    
    NextOnce
