CONSTANTS
  PROCESS_NUM = 5
  TERM_MAX = 2
  Names = {"shell", "cat"}
  Programs = {"shell", "cat"}
  Shell = "shell"
  TickPoints = {"based", "picked"}
  ShellFaults = TRUE

SPECIFICATION Spec

INVARIANTS
  TypeOK
  RunsInOwnContext
  OneForegroundPerTerminal
  PidsAreUnique
  LoadedHasLiveChild
  ImageIntact
  SavedContextIsOwn

PROPERTIES
  SwitchesToScheduled
  HaltReturnsToLauncher
  ImplementsJobs
