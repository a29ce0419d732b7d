\* A merge to main between the guard and the push: the recipe tags anyway.
SPECIFICATION Spec
CONSTANTS
  Dev = {dana}
  MaxCommit = 3
  MaxTag = 3
  MaxNumber = 2
INVARIANT TagsOnMain
CHECK_DEADLOCK FALSE
