CONSTANTS
  None = None
  db = db  web = web  job = job  tool = tool
  sql = sql
  o1 = o1  o2 = o2
  Plugins = {db, web, job, tool}
  Names = {sql}
  MaxFibers = 3
  Ops = {o1, o2}
  TopLevel = {db, web}
  LateMounts = {}
  Requires <- MCRequires
  Body <- MCFailingBody
  MayFail = {web}
  Kinds = {"await", "restart", "dispose"}
  Configs = {v1}
  Invalid = {}
  FirstConfig = v1
  MayRaise = FALSE
  MayCancel = FALSE
  Bootstrap = FALSE
SPECIFICATION LiveSpec
PROPERTIES Answered NeverSits
CHECK_DEADLOCK FALSE
