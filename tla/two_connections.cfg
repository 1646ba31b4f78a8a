SPECIFICATION Spec
CONSTANTS
  c1 = c1
  c2 = c2
  c3 = c3
  c4 = c4
  NULL = NULL
  Ctx <- Ctxs4
  Fd <- TwoPairs
  SndCap = 1
  MaxConn = 2
  MaxSend = 1
  Senders <- ClientOnly
  Faults <- Resets
  Mode = "forward"
  MaxEvent = 3
  BufferSize = 2
  HookDrops = TRUE
  Rewrites <- NoRewrites
  DirtyFlag <- Zeroed
SYMMETRY Sym4
INVARIANTS NoDanglingContext PeersMutual FdOwnership NoneForgotten
PROPERTIES Relays DrainedBeforeClose
CHECK_DEADLOCK FALSE
