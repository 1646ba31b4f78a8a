SPECIFICATION Spec
CONSTANTS
  c1 = c1
  c2 = c2
  c3 = c3
  c4 = c4
  NULL = NULL
  Ctx <- Ctxs2
  Fd <- OnePair
  SndCap = 1
  MaxConn = 1
  MaxSend = 2
  Senders <- ClientOnly
  Faults <- NoFaults
  Mode = "forward"
  MaxEvent = 5
  BufferSize = 3
  HookDrops = FALSE
  Rewrites <- NoRewrites
  DirtyFlag <- Zeroed
INVARIANT NoNullDeref
CHECK_DEADLOCK FALSE
