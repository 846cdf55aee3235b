CONSTANTS
  None = None
  db = db  web = web  job = job  tool = tool
  sql = sql
  Plugins = {db, web, job, tool}
  Names = {sql}
  MaxFibers = 2
  Ops = {o1, o2}
  TopLevel = {db, web}
  LateMounts = {}
  Requires <- MCRequires
  Body <- MCLeafBody
  MayFail = {}
  Kinds = {"await", "dispose"}
  Configs = {v1}
  Invalid = {}
  FirstConfig = v1
  MayRaise = TRUE
  MayCancel = FALSE
  Bootstrap = FALSE
SPECIFICATION FairSpec
PROPERTIES AwaitAnswered
CHECK_DEADLOCK FALSE
