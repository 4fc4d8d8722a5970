SPECIFICATION ConsoleSpec
CONSTANTS
  Keys <- Keyboard
  MaxRows = 1
  MaxTyped = 5
  MaxPosted = 3
  MaxFetched = 2
CHECK_DEADLOCK FALSE
INVARIANTS SplitIsSound PageIsHonest PoolIsClean
