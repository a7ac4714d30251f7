SPECIFICATION Spec
INVARIANT MotionEnabled
