SPECIFICATION SysProxySpec
CONSTANTS
  Nobody = Nobody
  Platforms = {"windows"}
  Wants = {"off", "global", "pac"}
INVARIANTS
  ClearedMeansOff
