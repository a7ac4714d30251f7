SPECIFICATION Spec
CONSTANTS
  MaxCalls = 2
  ThresholdsUsed = {0, 3, 19, 27}
INVARIANTS
  TypeOK
  ConversionStarts
  AdcReleased
  SequencerAtRest
PROPERTY
  KeepsTheOthers
CHECK_DEADLOCK FALSE
