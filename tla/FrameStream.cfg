SPECIFICATION FairSpec
CONSTANTS
  Height = 2
  CounterModulus = 3
  MaxFrames = 4
INVARIANTS TypeOK ReleasesExactly
PROPERTIES FeedRefined KeyEnds
