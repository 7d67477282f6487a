CONSTANTS
  Story = {a, b}
  Chapter = {1, 2}
  Stamp = {4, 5, 6}
  Count = {0, 2}
  Programs = {"generate", "ready", "make-log"}
  MaxCalls = 8
SPECIFICATION MCSpec
SYMMETRY StorySymmetry
INVARIANTS TypeOK StampsDistinct UpdatedCovered
PROPERTIES ActualMonotone ReadyNeverLost
CHECK_DEADLOCK FALSE
