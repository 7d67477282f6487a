CONSTANTS
  Story = {s}
  TheStory = s
  Chapter = {1, 2}
  Hook = {p, q}
  Times <- MCTimes
  Slack = 4
  BatchSize = 2
  MaxRuns = 3
  MaxKills = 1
SPECIFICATION Spec
SYMMETRY HookSymmetry
INVARIANTS TypeOK OneCommittingRow
PROPERTIES AfterMonotone NotedStays 
CHECK_DEADLOCK FALSE
