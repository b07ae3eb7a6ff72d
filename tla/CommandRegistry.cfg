SPECIFICATION Spec
CONSTANTS
  SlashNames <- MCSlashNames
  OldNames <- MCOldNames
INVARIANTS
  CommandsSettle
CHECK_DEADLOCK FALSE
