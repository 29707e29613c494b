CONSTANTS
  Universe <- MCUniverse
  PJ <- MCPJ
  PB <- MCPB
  Refs <- MCRefs
SPECIFICATION DocSpec
INVARIANTS Result UsersRight DocsPlaced
PROPERTY Written
CHECK_DEADLOCK FALSE
