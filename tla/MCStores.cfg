SPECIFICATION StoresSpec
CONSTANTS
  NoOperation = NoOperation
  clash = clash
  verge = verge
  runtime = runtime
  profiles = profiles
  patch = patch
  ports = ports
  update = update
  fallback = fallback
  persist = persist
  change = change
  first = first
  second = second
  Layers = {clash, verge, runtime, profiles}
  Writers = {patch, ports, update, fallback, persist, first, second}
  Locking = {patch, ports, fallback, persist}
  Updating = {ports, update}
  Claiming = {patch, ports, update, fallback, first, second}
  Fallible = {patch, ports, update, fallback, first, second}
  Uses <- Stages
  Modifiers = {add, edit, switch}
  Switches = {switch}
  Profiles = profiles
  Requests = {{patch, ports, update, fallback, persist}, {first, second}, {add, edit, switch}, {}}
  Uids = {"a", "b"}
  Intervals = {1}
  MaxEdits = 2
  SyncTasks = {t1, t2}
  MaxRequests = 3
  RUNTIME_PROVIDER_SYNC_ATTEMPTS = 2
  MaxWrites = 1
  MaxSessions = 1
  op1 = op1
  op2 = op2
  startup = startup
  r1 = r1
  r2 = r2
  Ops <- OpTasks
  Probers <- StartupTask
  Readers <- OneReader
  Action <- Actions
  MaxObs = 4
INVARIANTS
  RequestRetired
  NoLostWakeup
PROPERTIES
  StaleReadingNeverWins
  ImplementsRegister
  KeepsUpdating
  RequestsServed
CHECK_DEADLOCK FALSE
