CONSTANTS
  Sessions = {1, 2}
  Scenarios <- Small
  MaxQueued = 1
  MaxCards = 2
SPECIFICATION FairSpec
INVARIANTS
    CardsHold
    TranscriptHolds
PROPERTIES
    AbandonedSettles
CHECK_DEADLOCK FALSE
