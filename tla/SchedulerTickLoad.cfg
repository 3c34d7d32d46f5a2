CONSTANTS
  PROCESS_NUM = 4
  TERM_MAX = 2
  Names = {"shell", "cat", "frame0"}
  Programs = {"shell", "cat"}
  Shell = "shell"
  TickPoints = {"map", "load"}
  ShellFaults = FALSE

SPECIFICATION Spec

INVARIANTS
  ImageIntact
