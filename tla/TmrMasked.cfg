SPECIFICATION FairSpec
CONSTANTS
  Calls = {"Reinitialize", "InitHw", "Start", "Stop", "Reset", "SetOptions", "SelfTest", "SetHandler", "ClearStats"}
  OptionSets = {{"INT_MODE"}, {"INT_MODE", "AUTO_RELOAD"}}
  CallbackOps = {"Start", "Stop"}
  Masked = TRUE
  StatsModulus = 2
INVARIANTS EnabledIsStarted
PROPERTIES OnlyStartEnables InterruptServed
