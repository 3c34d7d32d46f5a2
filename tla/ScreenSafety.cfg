CONSTANTS
  Terms = {"t0", "t1", "t2"}
  FirstTerm = "t0"
  NUM_ROWS = 2
  NUM_COLS = 2
  BYTE = 2
  Writing = {"t0", "t1"}
  Drawing = {"t0"}
  Watched = {"t1"}
  KeyPoints = {"idle", "reset"}
  BootSwitch = FALSE
SPECIFICATION Spec
INVARIANTS TypeOK TextStaysHome PageFollowsScreen CursorOnScreen CursorIsShown
PROPERTIES SwitchKeepsScreens
