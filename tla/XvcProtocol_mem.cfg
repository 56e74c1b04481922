CONSTANTS
  BufMax = 24
  MaxConns = 2
  MaxVerbs = 3
  Handlers <- MemHandlers
  Requests <- MemRequests
  PeerResets = FALSE
SPECIFICATION Spec
INVARIANT TypeOK
PROPERTY Refines RepliesSent
