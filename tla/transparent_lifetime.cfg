SPECIFICATION Spec
CONSTANTS
  c1 = c1
  c2 = c2
  c3 = c3
  c4 = c4
  NULL = NULL
  Ctx <- Ctxs4
  Fd <- ThreeFds
  SndCap = 1
  MaxConn = 3
  MaxSend = 1
  Senders <- ClientOnly
  Faults <- StrayFaults
  Mode = "transparent"
  MaxEvent = 2
  BufferSize = 2
  HookDrops = FALSE
  Rewrites <- NoRewrites
  DirtyFlag <- Zeroed
SYMMETRY Sym4
INVARIANTS LifetimeInv
CHECK_DEADLOCK FALSE
