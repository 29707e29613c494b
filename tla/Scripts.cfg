CONSTANTS
  None = None
  MAX_NAME_LEN = 63
  MB = 8192
  chan_size = 4096
  LINUX_BASE_ADDR = 50331648
  Inputs <- Solo5Inputs
SPECIFICATION ScriptsSpec
INVARIANTS
  BinaryDescribed ChannelsConnected LinuxRegions SmpPolicyValid NamesRight SchemaExtended
PROPERTY ScriptsFinish
CHECK_DEADLOCK FALSE
