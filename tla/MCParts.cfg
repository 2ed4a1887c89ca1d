SPECIFICATION PartsSpec
CONSTANTS
  ProviderCount = 3
  Urls = {u1, u2}
  V4Hosts = {"192.168.0.2"}
  V6Hosts = {"fe80::1"}
  LinkLocal = {"fe80::1"}
  ListenPorts = {1, 2}
  Worlds <- SomeWorlds
  Networks <- SomeNetworks
  Candidates <- SomeCandidates
  Currents <- SomeCurrents
  PortNumbers = {1, 2, 3, 4}
  ReservedPorts = {2}
  MAX_PORT_FALLBACK_RETRIES = 3
  MaxSaves = 1
  MaxTaken = 2
  MaxCrashes = 1
  MaxGuardGeneration = 8
  MaxServiceSessions = 2
  GUARD_FAILURES_BEFORE_STOPPING = 3
  SUSTAINED_SAMPLES = 3
  MaxSamples = 6
  Configs = {1, 2, 3}
  Cores = {"a", "b"}
  MaxBuilds = 1
  MaxVersion = 3
  MaxRenameFaults = 4
  MaxUpgradeCrashes = 1
  MaxUpgrades = 2
  Quits = {"signal", "loop", "tray"}
  Starters = {"restart", "start"}
  MaxQuits = 2
  MaxStarts = 1
  Launches = {1, 2, 3}
  EmbeddedPorts = {11, 12}
  MaxLooks = 2
  Clicks = {"c1", "c2"}
  IdleTimers = {"k1", "k2"}
  MaxClicks = 3
  MaxDeaths = 1
  Savers = {"merge", "script"}
  MIN_BACKUP_INTERVAL_SECS = 2
  AUTO_BACKUP_KEEP = 1
  MaxTime = 3
  MaxSettings = 1
  MaxBackups = 3
  Patchers = {"user"}
  Reconcilers = {"r1", "r2"}
  Patches <- SomePatches
  RunStates <- SomeRunStates
INVARIANTS
  BundleUnambiguous
  ProbeSound
  DesiredIsServed
  ClearedThroughService
  RecoveryJustified
  AppliedIsRun
  CoreIsKept
  ApprovedIsReported
  ExitLeavesNoCore
  TunIsReconciled
  NoDeadPage
  BackupsSpaced
  EffectsFollowSettings
PROPERTIES
  LeftToPrimary
CHECK_DEADLOCK FALSE
