SPECIFICATION Spec
CONSTANTS
  Slots <- MCUsers
  Pid <- MCPidIsSlot
  TaskCaps <- MCTaskCaps
  LowCaps <- MCLow
  CAP_SYSTEM <- MCSystem
  MAX_PORTS = 3
  PORT_RESERVED_START = 1
  PORT_RESERVED_END = 1
  PORT_DYNAMIC_START = 2
  MAX_MSG_QUEUE = 1
  TASK_ID_KERNEL = 0
  MsgIds = {1}
  SenderPorts = {2}
  ReplyPorts = {2}
  LimitValues = {2}
  CapValues <- MCNothing
  DomainValues <- MCNothing
  Senders <- MCAnyone
  Receivers <- MCAnyone
  MaxMem = 3
  NoTask = NoTask
  NoMsg = NoMsg
  cap_system = cap_system
  cap_low = cap_low
INVARIANTS TypeOK LiveQueues WaitersHaveCause SendOrderKept OneReplyPerRequest
PROPERTY ImplementsMailbox
CHECK_DEADLOCK FALSE
