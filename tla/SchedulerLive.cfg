CONSTANTS
  PROCESS_NUM = 5
  TERM_MAX = 2
  Names = {"shell", "frame0"}
  Programs = {"shell"}
  Shell = "shell"
  TickPoints = {"based", "picked"}
  ShellFaults = FALSE

SPECIFICATION FairSpec

PROPERTIES
  RoundRobin
