CONSTANTS
  Task = {t1, t2}
  Call = {q1, q2}
  MaxLocal = 1
  ChannelCapacity = 2
SPECIFICATION Spec
INVARIANTS TypeOK OneReplyEach LoopsNotBlocked
PROPERTIES EverythingAnswered
