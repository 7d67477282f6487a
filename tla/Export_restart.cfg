CONSTANTS
  Story = {a}
  ThisStory = a
  Chapter = {1, 2, 3}
  Category = {"html"}
  Served = {"html"}
  Gaps = {1, 3}
  Slack = 2
  Imported = {2}
  Marks = {1, 2, 3}
  MaxPushes = 2
  MaxModified = 2
  MaxCrashes = 0
SPECIFICATION Spec
INVARIANT DueExported
CHECK_DEADLOCK FALSE
