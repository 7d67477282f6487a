CONSTANTS
  Story = {a, b}
  Chapter = {1}
  Version = {1, 2}
  FirstTime = 10
  Gaps = {1, 5}
  LastTime = 20
  MaxCommits = 3
  MaxPush = 2
  Slack = 2
  BatchSize = 10
SPECIFICATION Spec
INVARIANT EveryCommitRecorded
CHECK_DEADLOCK FALSE
