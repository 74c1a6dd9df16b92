SPECIFICATION FairSpec
CONSTANTS
  Sizes <- TwoSizes
  MaxId = 2
  MaxRequests = 3
INVARIANTS
  OneUploadPerConsent
  UploadLeavesNothing
  InstalledRestarts
  PendingIsShown
PROPERTIES
  ScreenMovesForward
  InstallingEnds
