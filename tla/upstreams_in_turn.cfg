\* Up to QUEUE_MAX upstreams and more: the ring grows, or the process ends for
\* want of memory, and then nothing happens any more.
SPECIFICATION Spec
CONSTANTS
  u1 = u1
  u2 = u2
  u3 = u3
  Item <- Upstreams
  None = None
  Junk = Junk
  QueueMax = 3
  MaxItems = 5
INVARIANT TypeOK
PROPERTY InTurn
CHECK_DEADLOCK FALSE
