CONSTANTS
  BufMax = 24
  MaxConns = 1
  MaxVerbs = 3
  Handlers <- MemHandlers
  Requests <- GetinfoRequests
  PeerResets = FALSE
SPECIFICATION Spec
INVARIANT ReplyFitsBuffer
