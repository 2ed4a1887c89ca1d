SPECIFICATION ProfilesPartSpec
CONSTANTS
  Uids = {u1, u2}
  Jobs = {j1, j2}
  NoOne = NoOne
  MaxCommands = 3
  SelProfiles = {a, b}
  SelGroups = {g1}
  Nodes = {n1, n2}
  NoNode = NoNode
  MaxActivations = 2
  MaxSelections = 1
  MaxOverrides = 2
  Sources = {s1, s2}
  NoSource = NoSource
  MaxReplaced = 2
  MaxRestarts = 1
  SyncTasks = {t1}
  MaxRequests = 1
  RUNTIME_PROVIDER_SYNC_ATTEMPTS = 2
  MaxWrites = 2
  MaxSessions = 2
SYMMETRY Symmetry
INVARIANTS
  ProfilesAgree
  CommandsGoOn
  GeneratedRight
  UnconfirmedNeverInEffect
  TornOnlyUnseen
PROPERTIES
  RepairIsJustified
CHECK_DEADLOCK FALSE
