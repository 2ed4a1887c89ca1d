SPECIFICATION ProfilesPartSpec
CONSTANTS
  Uids = {u1}
  Jobs = {j1}
  NoOne = NoOne
  MaxCommands = 0
  SelProfiles = {a}
  SelGroups = {g1}
  Nodes = {n1, n2}
  NoNode = NoNode
  MaxActivations = 1
  MaxSelections = 1
  MaxOverrides = 2
  Sources = {s1, s2}
  NoSource = NoSource
  MaxReplaced = 2
  MaxRestarts = 1
  SyncTasks = {t1}
  MaxRequests = 0
  RUNTIME_PROVIDER_SYNC_ATTEMPTS = 1
  MaxWrites = 0
  MaxSessions = 0
PROPERTY
  NewerSelectionStays
CHECK_DEADLOCK FALSE
