---------------------------------- MODULE Jobs ----------------------------------
(***************************************************************************)
(* What execute and halt promise a user: every terminal carries a stack of *)
(* programs with its shell at the bottom.  Launching a program puts it on  *)
(* top of the one that launched it; when the top program ends, the program *)
(* beneath it is in front again.  Scheduler.tla implements this.           *)
(***************************************************************************)
CONSTANTS
  Terms,  \* the terminals; each is also the slot of its shell
  Slots,  \* the process slots
  Nobody  \* beneath a shell there is nobody

VARIABLES
  front,  \* the program in front in each terminal
  live,   \* the slots in use
  under   \* the program beneath each one in use

Init ==
  /\ front = [t \in Terms |-> t]
  /\ live = Terms
  /\ under = [p \in Slots |-> Nobody]

\* The front program of t launches one in a free slot.
Launch(t) ==
  \E c \in Slots \ live :
    /\ live' = live \cup {c}
    /\ under' = [under EXCEPT ![c] = front[t]]
    /\ front' = [front EXCEPT ![t] = c]

\* The front program of t ends; a shell never does.
End(t) ==
  /\ under[front[t]] # Nobody
  /\ live' = live \ {front[t]}
  /\ under' = [under EXCEPT ![front[t]] = Nobody]
  /\ front' = [front EXCEPT ![t] = under[front[t]]]

Next == \E t \in Terms : Launch(t) \/ End(t)

Spec == Init /\ [][Next]_<<front, live, under>>

=============================================================================
