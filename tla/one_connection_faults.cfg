SPECIFICATION Spec
CONSTANTS
  c1 = c1
  c2 = c2
  c3 = c3
  c4 = c4
  NULL = NULL
  Ctx <- Ctxs2
  Fd <- OnePair
  SndCap = 1
  MaxConn = 2
  MaxSend = 1
  Senders <- Both
  Faults <- AllFaults
  Mode = "forward"
  MaxEvent = 2
  BufferSize = 2
  HookDrops = TRUE
  Rewrites <- FullBuffer2
  DirtyFlag <- Dirty
SYMMETRY Sym2
INVARIANTS TypeOK QueueInBuffer NoSendAfterShutdown PipeOnlyByReset OutOnlyQueued
PROPERTIES SpoiledOnlyByOwnRead
CHECK_DEADLOCK FALSE
