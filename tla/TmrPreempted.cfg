SPECIFICATION Spec
CONSTANTS
  Calls = {"InitHw", "Start", "Stop", "Reset", "SetOptions", "SelfTest", "SetHandler", "PwmConfigure", "PwmEnable", "PwmDisable"}
  OptionSets = {{"INT_MODE"}, {}}
  CallbackOps = {"Reset"}
  Masked = FALSE
  StatsModulus = 1
INVARIANTS TypeOK LoadReleased EnabledIsStarted
PROPERTIES HandlerKeepsModes
