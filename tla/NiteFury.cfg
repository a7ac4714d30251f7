SPECIFICATION FairSpec
INVARIANTS TypeOK ExpiriesCounted LedsTogether StreamsConfigured StoppedOnSuccess
PROPERTIES TimersRefined PollingEnds
