CONSTANTS
  None = None
  db = db  web = web  job = job  tool = tool
  sql = sql
  Plugins = {db, web, job, tool}
  Names = {sql}
  MaxFibers = 4
  Ops = {o1}
  TopLevel = {db, web}
  LateMounts <- MCLateMounts
  Requires <- MCRequires
  Body <- MCFailingBody
  MayFail = {web}
  Kinds = {"dispose"}
  Configs = {v1}
  Invalid = {}
  FirstConfig = v1
  MayRaise = FALSE
  MayCancel = FALSE
  Bootstrap = FALSE
SPECIFICATION Spec
INVARIANTS DisposedWithDescendants
CHECK_DEADLOCK FALSE
