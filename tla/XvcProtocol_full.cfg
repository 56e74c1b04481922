CONSTANTS
  BufMax = 24
  MaxConns = 1
  MaxVerbs = 3
  Handlers <- FullHandlers
  Requests <- FullRequests
  PeerResets = TRUE
SPECIFICATION Spec
PROPERTY Refines RepliesSent 
