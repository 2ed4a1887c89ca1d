SPECIFICATION FairSpec
CONSTANTS
  None = None
  Platform = "macos"
  Tasks = {t1, t2}
  Pids = {p1}
  MaxOps = 2
  MaxGen = 5
  Ops = {"restart", "stop", "proxy on", "config"}
  Decisions = {"Service", "Sidecar", "Wait"}
  Observers = {"monitor"}
PROPERTIES
  CrashIsNoticed
  OperationEnds
CHECK_DEADLOCK FALSE
