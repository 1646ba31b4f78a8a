SPECIFICATION ReadingSpec
CONSTANTS
  c1 = c1
  c2 = c2
  c3 = c3
  c4 = c4
  NULL = NULL
  Ctx <- Ctxs2
  Fd <- OnePair
  SndCap = 2
  MaxConn = 1
  MaxSend = 3
  Senders <- ClientOnly
  Faults <- Resets
  Mode = "forward"
  MaxEvent = 5
  BufferSize = 3
  HookDrops = TRUE
  Rewrites <- FullBuffer3
  DirtyFlag <- Zeroed
INVARIANTS StreamIntegrity PausedIffQueued
PROPERTIES Relays OrphanReaped QueueDrains DataRelayed
CHECK_DEADLOCK FALSE
