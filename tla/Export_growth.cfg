CONSTANTS
  Story = {a}
  ThisStory = a
  Chapter = {1, 2, 3}
  Category = {"html"}
  Served = {"html"}
  Gaps = {3}
  Slack = 2
  Imported = {2}
  Marks = {}
  MaxPushes = 2
  MaxModified = 0
  MaxCrashes = 0
SPECIFICATION Spec
PROPERTY GrowthIsPublished
CHECK_DEADLOCK FALSE
