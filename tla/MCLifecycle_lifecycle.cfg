\* Every configuration; all servers with one call and one connection.
SPECIFICATION Spec
CONSTANTS
  Commands <- AllCommands
  MaxOpen = 1
INVARIANTS ExitIsTruthful
PROPERTIES StartsAsChosen AllStop StopCompletes
CHECK_DEADLOCK FALSE
