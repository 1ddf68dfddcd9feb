SPECIFICATION DatabaseFairSpec
CONSTANTS
  Null = Null
  Sizes = {0, 1, 2}
  NewSizes = {1}
  MaxEvents = 3
 
PROPERTIES ChildrenKept 
CHECK_DEADLOCK FALSE
