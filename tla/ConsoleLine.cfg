CONSTANTS
  Letters = {"CHAR_L"}
  Symbols = {"ONE"}
  Chords = {{}, {"CAPS_LOCK"}, {"CTRL"}, {"ALT"}, {"SHIFT_L"}, {"SHIFT_R"}, {"SHIFT_L", "SHIFT_R"}}
  Typematic = {"SHIFT_L"}
  Terms = {"F1", "F2"}
  NUM_ROWS = 3
  NUM_COLS = 2
  KB_BUF_SIZE = 3
  TAB_STOP = 2
  Programs = {"F1"}
  Keys <- MCKeys
  Written <- MCWritten
  KeyPoints = {"busy", "wait", "woken"}
  BackgroundShow = FALSE
SPECIFICATION Spec
INVARIANTS TypeOK LineIsShown
PROPERTIES TypedAsMeant
