SPECIFICATION Spec
CONSTANTS
  LINE_MAX = 4
  Visible <- Keys
  Digits <- Values
  INT_RANGE = 8
  Commands <- Words
  NUM_PROCESSES = 2
  SHELL_PID = 1
  OTHER_PID = 0
INVARIANTS
  LineFits
  MessagesWhole
  ScreenShowsLine
PROPERTIES
  ImplementsLineEditor
  DeathsAreOrdered
  PromptReturns
