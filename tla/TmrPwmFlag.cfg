SPECIFICATION LoadsSpec
CONSTANTS
  Calls = {"Reinitialize", "InitHw", "Start", "Stop", "Reset", "SetOptions", "SelfTest", "PwmConfigure", "PwmEnable", "PwmDisable"}
  OptionSets = {{"AUTO_RELOAD"}}
  CallbackOps = {}
  Masked = FALSE
  StatsModulus = 1
  Word = 32
  Clock = 4
  Requests <- SomeRequests
INVARIANT RunningIfFlagged
