SPECIFICATION FairSpec
CONSTANTS
  http = http
  other = other
  Clients = {http, other}
  NumChannels = 2
  IdSpace = 2
  MaxTickets = 3
INVARIANTS
  ReplyIsOwn
  TimeoutIsCancellation
  NoMismatch
  OneOwner
PROPERTIES
  ImplementsRequestReply
  EveryCallReturns
