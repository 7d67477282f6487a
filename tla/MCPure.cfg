CONSTANTS
  Story = {s}
  Chapter = {1, 2}
  Half = 4
  LinearBelow = 10
  TimeLists <- MCTimeLists
  TodoLists <- MCTodoLists
  Wanted = {1, 2, 3}
  BaseTrees <- MCBaseTrees
  ParentTrees <- MCParentTrees
  MaxNumber = 210
  SqlTexts <- MCSqlTexts
  MaxChapters = 5
  Text = {"old", "new"}
  MaxDescribed = 2
  MaxStories = 6
  Limits = {3, 4, 5, 6, 7}
SPECIFICATION Spec
INVARIANTS OrderSound SearchComplete DiffReplays NumbersPrinted SqlSurvives
INVARIANTS LinksResolve InfoKept OutOfDescriptors
CHECK_DEADLOCK FALSE
