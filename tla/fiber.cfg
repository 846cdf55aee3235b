CONSTANTS
  None = None
  db = db  web = web  job = job  tool = tool
  sql = sql
  v1 = v1  v2 = v2
  o1 = o1  o2 = o2
  Plugins = {db, web, job, tool}
  Names = {sql}
  MaxFibers = 5
  Ops = {o1, o2}
  TopLevel = {db, web}
  LateMounts <- MCLateMounts
  Requires <- MCRequires
  Body <- MCBody
  MayFail = {tool, job}
  Kinds = {"await", "restart", "dispose", "update"}
  Configs = {v1, v2}
  Invalid = {v2}
  FirstConfig = v1
  MayRaise = TRUE
  MayCancel = TRUE
  Bootstrap = TRUE
SPECIFICATION ScenariosSpec
INVARIANTS
    OneAtATime
    ActiveIffBound
    DisposedWithDescendants
    BindingsHaveOwners
PROPERTIES
    ImplementsLifecycle
    NothingSurvives
CHECK_DEADLOCK FALSE
