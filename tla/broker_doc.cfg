SPECIFICATION Spec
CONSTANTS
  Handlers = {h1, h2}
  MaxCommands = 5
  MaxDialogs = 1
CHECK_DEADLOCK FALSE
INVARIANTS
  SettledIsShown
