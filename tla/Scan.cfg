CONSTANTS
  Story = {a, b}
  Chapter = {1}
  Version = {v, w}
  FirstTime = 10
  Gaps = {1, 5}
  LastTime = 16
  MaxCommits = 4
  MaxPush = 2
  Slack = 2
  BatchSize = 2
SPECIFICATION Spec
SYMMETRY Symmetry
INVARIANTS TypeOK SmallCommitRecorded RowsNotAhead
PROPERTIES AfterMonotone ImplementsStoryDb
CHECK_DEADLOCK FALSE
