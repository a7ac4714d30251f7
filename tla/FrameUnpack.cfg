SPECIFICATION Spec
CONSTANTS
  Widths = {1, 2, 3, 8, 9}
  Heights = {1, 2}
  Inputs <- OneMarked
  Old = 7
INVARIANTS TypeOK InBounds FrameCorrect
CHECK_DEADLOCK FALSE
