\* Every statement of four symbols, with every comment of two pairs.
SPECIFICATION CommentSpec
CONSTANTS
  MaxStatement = 4
  MaxPairs = 2
INVARIANTS CommentIsRead StatementIsShown
CHECK_DEADLOCK FALSE
