CONSTANTS
  PROCESS_NUM = 3
  MAX_NUM_FD = 4
  FILENAME_CHAR_LIMIT = 2
  BLOCK_SIZE = 2
  MAX_ARGS = 6
  ELF_HEADER <- MCHeader
  Images <- MCImages
  Names <- MCNames
  Counts = {0, 3, 4}
  Commands <- MCCommands
SPECIFICATION Spec
INVARIANTS TypeOK ReadsInOrder ReadsAreFull ImageWhole ArgumentIsOwn
PROPERTIES FreshTable LauncherUndisturbed
