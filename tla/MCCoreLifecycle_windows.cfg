SPECIFICATION Spec
CONSTANTS
  None = None
  Platform = "windows"
  Tasks = {t1, t2}
  Pids = {p1, p2, p3}
  MaxOps = 3
  MaxGen = 2
  Ops = {"start", "stop", "restart", "sidecar", "handoff", "uninstall"}
  Decisions = {"Service", "Sidecar", "Wait"}
  Observers = {"monitor"}
SYMMETRY ActorSymmetry
INVARIANTS
  OneSidecar
PROPERTIES
  LiveSidecarKept
CHECK_DEADLOCK FALSE
