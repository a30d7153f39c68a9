\* Three runs, failing or stopped anywhere, two topics, rows of others.
SPECIFICATION Spec
CONSTANTS
  Messages <- TwoTopics
  MaxRuns  = 3
INVARIANT LeavesAsFound
CHECK_DEADLOCK FALSE
