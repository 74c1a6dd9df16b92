SPECIFICATION FairSpec
CONSTANTS
  Sizes <- OneSize
  MaxId = 1
  MaxRequests = 2
PROPERTY ConfirmationCloses
