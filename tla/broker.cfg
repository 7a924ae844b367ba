SPECIFICATION Spec
CONSTANTS
  Handlers = {h1, h2}
  MaxCommands = 3
  MaxDialogs = 1
CHECK_DEADLOCK FALSE
INVARIANTS
  ExchangeIsSound
  StoppedIsStopped
PROPERTIES
  ActionEnds
