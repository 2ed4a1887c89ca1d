SPECIFICATION Spec
CONSTANTS
  None = None
  Platform = "linux"
  Tasks = {t1, t2}
  Pids = {p1}
  MaxOps = 3
  MaxGen = 4
  Ops = {"start", "stop", "config", "proxy on", "proxy off"}
  Decisions = {"Service", "Sidecar", "Wait"}
  Observers = {"monitor", "reader"}
SYMMETRY ActorSymmetry
INVARIANTS
  GuardHasCore
  ServiceIsWatched
PROPERTIES
  StopsAfterClear
  NewerSessionSurvives
CHECK_DEADLOCK FALSE
