CONSTANTS
  Story = {a}
  ThisStory = a
  Chapter = {1, 2, 3}
  Category = {"html", "sneakpeek", "ready"}
  Served = {"html", "sneakpeek"}
  Gaps = {2}
  Slack = 2
  Imported = {0, 2}
  Marks = {2}
  MaxPushes = 2
  MaxModified = 1
  MaxCrashes = 1
SPECIFICATION Spec
INVARIANTS TypeOK StoryStays CursorComplete
PROPERTIES ReadyRespected PagesSettle
CHECK_DEADLOCK FALSE
