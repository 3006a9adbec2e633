CONSTANTS
  Peer = {1, 2, 3}
  MaxEdits = 4
  Timestamp = {1, 2}
SPECIFICATION Spec
INVARIANTS TypeOK ClockIsHistory BothEndsAgree
CHECK_DEADLOCK FALSE
