CONSTANTS
  Task = {t1, t2}
  Call = {q1, q2}
  MaxLocal = 0
  ChannelCapacity = 1
SPECIFICATION Spec
INVARIANT LoopsNotBlocked
