SPECIFICATION Spec
CONSTANTS
  Slots <- MCThreeUsers
  Pid <- MCPidIsSlot
  TaskCaps <- MCTaskCaps
  LowCaps <- MCLow
  CAP_SYSTEM <- MCSystem
  MAX_PORTS = 3
  PORT_RESERVED_START = 1
  PORT_RESERVED_END = 1
  PORT_DYNAMIC_START = 2
  MAX_MSG_QUEUE = 1
  TASK_ID_KERNEL = 0
  MsgIds = {1}
  SenderPorts = {2}
  ReplyPorts = {2}
  LimitValues = {}
  CapValues <- MCNothing
  DomainValues = {}
  Senders <- MCAnyone
  Receivers <- MCAnyone
  MaxMem = 3
  NoTask = NoTask
  NoMsg = NoMsg
  cap_system = cap_system
  cap_low = cap_low
INVARIANTS NoMissedReceiver
CHECK_DEADLOCK FALSE
