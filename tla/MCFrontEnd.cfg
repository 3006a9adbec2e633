CONSTANTS
  p1 = p1
  p2 = p2
  f1 = f1
  Peer = {p1, p2}
  File = {f1}
  Excluded = {}
  NamedFailed = {}
  ChannelCapacity = 1
  MaxTasks = 2
  Notifiable <- OneOfEach
  Command = {"fetch", "share"}
  Target = p1
  MaxLogLines = 0
SPECIFICATION Spec
INVARIANTS TypeOK ReportsFollowIndex SuccessIsWhole ErrorHasCause RowsAreFetches PanelIsNear
PROPERTIES TasksEnd FetchEnds
