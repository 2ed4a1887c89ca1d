SPECIFICATION DraftSpec
CONSTANTS
  NoOperation = NoOperation
  clash = clash
  verge = verge
  runtime = runtime
  profiles = profiles
  patch = patch
  ports = ports
  update = update
  fallback = fallback
  persist = persist
  change = change
  first = first
  second = second
  Layers = {clash, verge, runtime, profiles}
  Writers = {patch, change}
  Locking = {patch}
  Updating = {}
  Claiming = {patch}
  Fallible = {patch}
  Uses <- Stages
  Modifiers = {}
  Switches = {}
  Profiles = profiles
  Requests = {{patch, change}}
INVARIANT
  FailedLeavesNothing
CHECK_DEADLOCK FALSE
