SPECIFICATION UpdatesSpec
CONSTANTS
  Updaters = {u1, u2}
  Readers = {r1, r2}
  MaxEpoch = 6
  None = None
  Ports = {p1, p2, p3}
  NoCore = NoCore
  Platforms = {"windows", "linux", "macos"}
  Wants = {"off", "global", "pac"}
  Nobody = Nobody
  Groups = {"regular", "media"}
  Primary = "regular"
  MaxCalls = 3
  MaxGen = 2
INVARIANTS
  StableMeansUnchanged
  OpenWhenServing
  Settled
  NoStrayHelper
  GuardEnforcesConfirmed
  DisabledStaysOff
CHECK_DEADLOCK FALSE
