CONSTANTS
  Story = {s}
  TheStory = s
  Chapter = {1, 2}
  Stamp = {1, 2, 3}
  PageTime = {2}
  Option = {{}, {"fix_srctimes"}, {"adjust_times"}, {"fix_srctimes", "fix_titles"}}
  Mark = {0, 2}
  MaxOpen = 3
SPECIFICATION Spec
INVARIANTS TypeOK DiesOfMissing TimesAgree LinkFollows
PROPERTIES StoryStays Ends
CHECK_DEADLOCK FALSE
