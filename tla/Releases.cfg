\* Two developers on three commits and two tags; one alone on four and three:
\* overlapping recipes, refused commits, failed pushes, merges.
SPECIFICATION Spec
CONSTANTS
  Dev = {dana, eli}
  MaxCommit = 4
  MaxTag = 3
  MaxNumber = 2
SYMMETRY Symmetry
CONSTRAINT Scope
INVARIANTS TypeOK ChangesListed
PROPERTIES StableReleaseHasEntry NewVersionSortsLast
CHECK_DEADLOCK FALSE
