SPECIFICATION PendingSpec
CONSTANTS
  Clients = {"FUNDING"}
  Tabs = {t1}
  MaxCommands = 2
PROPERTIES
  UncertainOutcomesKept
CHECK_DEADLOCK FALSE
