CONSTANTS
  PROCESS_NUM = 4
  TERM_MAX = 2
  Names = {"shell"}
  Programs = {"shell"}
  Shell = "shell"
  TickPoints = {"based", "picked"}
  ShellFaults = TRUE

SPECIFICATION FairSpec

PROPERTIES
  RoundRobin
