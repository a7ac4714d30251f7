SPECIFICATION Spec
CONSTANT NumSources = 2
INVARIANTS
  TypeOK
  PendingExact
  NoEventLost
PROPERTY
  EventsServed
