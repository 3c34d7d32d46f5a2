------------------------------- MODULE MCConsole -------------------------------
EXTENDS Console

\* A program reads on the first terminal; the second one is typed on only, so
\* that its buffer may hold something while the first one reads.
MCKeys ==
  [t \in Terms |-> IF t \in Programs
                  THEN Terms \cup {CHAR_L, "TAB", "ENTER", "BACK_SPACE"}
                  ELSE Terms \cup Symbols]
MCWritten == {NEWLINE, <<CHAR_L, FALSE>>}
=============================================================================
