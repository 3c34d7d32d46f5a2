---------------------------------- MODULE Rtc ----------------------------------
(***************************************************************************)
(* The real-time clock shared by all programs (drivers/rtc.c): one         *)
(* hardware rate, one interrupt flag, and a rate in every PCB that sched   *)
(* restores when it switches (schedule.c:89-90).                           *)
(*                                                                         *)
(* Every terminal runs a stack of programs, <<t, 0>> being its base shell, *)
(* which never opens the clock.  System calls run with interrupts enabled  *)
(* and are cut where another process can get in between.  Calls that are   *)
(* rejected (a closed descriptor, a rate that is no power of two) change   *)
(* nothing and are stuttering steps.  Which scheduled process sched picks  *)
(* is the subject of Scheduler; here it is any other one.                  *)
(***************************************************************************)
EXTENDS Integers

CONSTANTS
  Terms,       \* the terminals
  MaxDepth,    \* per terminal: how many programs may be launched on one another
  Rates,       \* rates that programs ask for, among those the hardware has
  MaxRtcFds,   \* descriptors a program may have open on the clock
  TickPoints   \* points of the calls where this instance lets the timer in

NONE == -1
OpenRate == 2

\* "program": current_rtc_freq is written and the hardware is not, "store": the
\* hardware is and the PCB is not, "mark": the PCB is and open has not marked the
\* descriptor, "forget": close has unmarked it and the PCB still has the rate,
\* "spin" and "clear": the loop of rtc_read and the statement after it.
Points == {"user", "program", "store", "mark", "forget", "spin", "clear"}

Reading == {"spin", "clear"}

ASSUME RtcAssumption ==
  /\ \E s, t \in Terms : s # t
  /\ MaxDepth \in [Terms -> Nat]
  /\ OpenRate \in Rates
  /\ Rates \subseteq {2, 4, 8, 16, 32, 64, 128, 256, 512, 1024}
  /\ MaxRtcFds \in Nat
  /\ TickPoints \subseteq Points

Pids == UNION {{t} \X (0..MaxDepth[t]) : t \in Terms}

\* The processes that are not base shells.
Programs == {p \in Pids : p[2] > 0}

VARIABLES
  hardware,          \* rate programmed into the chip
  current_rtc_freq,  \* the driver's record of that rate
  rtc_int_flag,      \* set by the interrupt, cleared by the readers
  rtc_freq,          \* per process: the rate in its PCB, or NONE
  rtc_fds,           \* per process: number of its descriptors open on the clock
  top,               \* per terminal: depth of the program in the foreground
  current_pid,       \* the process that has the processor
  pc,                \* per process: point of the call it is in
  newRate,           \* per process: argument of that call, or NONE
  opening,           \* per process: that call is rtc_open
  heard              \* history: processes with an interrupt since their read began

clock == <<hardware, current_rtc_freq>>
call == <<pc, newRate, opening>>
vars == <<clock, rtc_int_flag, rtc_freq, rtc_fds, top, current_pid, call, heard>>

\* rtc_init has set the opening rate.
Init ==
  /\ hardware = OpenRate
  /\ current_rtc_freq = OpenRate
  /\ rtc_int_flag = 0
  /\ rtc_freq = [p \in Pids |-> NONE]
  /\ rtc_fds = [p \in Pids |-> 0]
  /\ top = [t \in Terms |-> 0]
  /\ current_pid \in {<<t, 0>> : t \in Terms}
  /\ pc = [p \in Pids |-> "user"]
  /\ newRate = [p \in Pids |-> NONE]
  /\ opening = [p \in Pids |-> FALSE]
  /\ heard = {}

At(p, x) == current_pid = p /\ pc[p] = x

Goto(p, x) == pc' = [pc EXCEPT ![p] = x]

\* A program, as opposed to a base shell, between two calls.
Program(p) == At(p, "user") /\ p \in Programs

-----------------------------------------------------------------------------
(* Setting a rate: rtc_open and rtc_write. *)

\* Variant: the driver's record of the rate is not written.
rtc_set_freq_no_record(p, f) ==
  \/ /\ f = current_rtc_freq
     /\ Goto(p, "store")
     /\ UNCHANGED current_rtc_freq
  \/ /\ f # current_rtc_freq
     /\ UNCHANGED current_rtc_freq
     /\ Goto(p, "program")

\* rtc_set_freq skips the hardware when its record says the rate is set.
rtc_set_freq(p, f) ==
  \/ /\ f = current_rtc_freq
     /\ Goto(p, "store")
     /\ UNCHANGED current_rtc_freq
  \/ /\ f # current_rtc_freq
     /\ current_rtc_freq' = f
     /\ Goto(p, "program")

rtc_open(p) ==
  /\ Program(p)
  /\ rtc_fds[p] < MaxRtcFds
  /\ rtc_set_freq(p, OpenRate)
  /\ newRate' = [newRate EXCEPT ![p] = OpenRate]
  /\ opening' = [opening EXCEPT ![p] = TRUE]
  /\ UNCHANGED <<hardware, rtc_int_flag, rtc_freq, rtc_fds, top, current_pid, heard>>

rtc_write(p, f) ==
  /\ Program(p)
  /\ rtc_fds[p] > 0
  /\ rtc_set_freq(p, f)
  /\ newRate' = [newRate EXCEPT ![p] = f]
  /\ UNCHANGED <<hardware, rtc_int_flag, rtc_freq, rtc_fds, top, current_pid, opening, heard>>

\* The end of rtc_set_freq, between cli and sti.
set_rate(p) ==
  /\ At(p, "program")
  /\ hardware' = newRate[p]
  /\ Goto(p, "store")
  /\ UNCHANGED <<current_rtc_freq, rtc_int_flag, rtc_freq, rtc_fds, top, current_pid, newRate, opening, heard>>

\* The PCB gets the rate; rtc_open and rtc_write end here.
store_rate(p) ==
  /\ At(p, "store")
  /\ rtc_freq' = [rtc_freq EXCEPT ![p] = newRate[p]]
  /\ newRate' = [newRate EXCEPT ![p] = NONE]
  /\ opening' = [opening EXCEPT ![p] = FALSE]
  /\ Goto(p, IF opening[p] THEN "mark" ELSE "user")
  /\ UNCHANGED <<clock, rtc_int_flag, rtc_fds, top, current_pid, heard>>

\* open marks the descriptor once rtc_open is done.
set_fd_open(p) ==
  /\ At(p, "mark")
  /\ rtc_fds' = [rtc_fds EXCEPT ![p] = @ + 1]
  /\ Goto(p, "user")
  /\ UNCHANGED <<clock, rtc_int_flag, rtc_freq, top, current_pid, newRate, opening, heard>>

\* close unmarks the descriptor before it calls rtc_close.
set_fd_close(p) ==
  /\ Program(p)
  /\ rtc_fds[p] > 0
  /\ rtc_fds' = [rtc_fds EXCEPT ![p] = @ - 1]
  /\ Goto(p, "forget")
  /\ UNCHANGED <<clock, rtc_int_flag, rtc_freq, top, current_pid, newRate, opening, heard>>

\* The rate is forgotten, also when another descriptor stays open.
rtc_close(p) ==
  /\ At(p, "forget")
  /\ rtc_freq' = [rtc_freq EXCEPT ![p] = NONE]
  /\ Goto(p, "user")
  /\ UNCHANGED <<clock, rtc_int_flag, rtc_fds, top, current_pid, newRate, opening, heard>>

-----------------------------------------------------------------------------
(* Waiting for an interrupt: rtc_read and rtc_int. *)

\* Variant: the flag is not cleared first.
rtc_read_no_clear(p) ==
  /\ Program(p)
  /\ rtc_fds[p] > 0
  /\ heard' = heard \ {p}
  /\ Goto(p, "spin")
  /\ UNCHANGED <<clock, rtc_int_flag, rtc_freq, rtc_fds, top, current_pid, newRate, opening>>

rtc_read(p) ==
  /\ Program(p)
  /\ rtc_fds[p] > 0
  /\ rtc_int_flag' = 0
  /\ heard' = heard \ {p}
  /\ Goto(p, "spin")
  /\ UNCHANGED <<clock, rtc_freq, rtc_fds, top, current_pid, newRate, opening>>

\* The loop ends when it sees the flag; until then it changes nothing.
rtc_spin(p) ==
  /\ At(p, "spin")
  /\ rtc_int_flag = 1
  /\ Goto(p, "clear")
  /\ UNCHANGED <<clock, rtc_int_flag, rtc_freq, rtc_fds, top, current_pid, newRate, opening, heard>>

rtc_clear(p) ==
  /\ At(p, "clear")
  /\ rtc_int_flag' = 0
  /\ heard' = heard \ {p}
  /\ Goto(p, "user")
  /\ UNCHANGED <<clock, rtc_freq, rtc_fds, top, current_pid, newRate, opening>>

\* Variant: the interrupt toggles the flag.
rtc_int_toggle ==
  /\ rtc_int_flag' = 1 - rtc_int_flag
  /\ heard' = heard \cup {p \in Pids : pc[p] \in Reading}
  /\ UNCHANGED <<clock, rtc_freq, rtc_fds, top, current_pid, call>>

\* The interrupt handler: nobody is told apart, there is one flag.
rtc_int ==
  /\ rtc_int_flag' = 1
  /\ heard' = heard \cup {p \in Pids : pc[p] \in Reading}
  /\ UNCHANGED <<clock, rtc_freq, rtc_fds, top, current_pid, call>>

-----------------------------------------------------------------------------
(* Switching, launching and ending programs. *)

\* Variant: sched leaves the clock as it is.
Resume_no_restore(q, rate) ==
  /\ current_pid' = q
  /\ UNCHANGED clock

\* The end of sched: q becomes current and its rate, if it has one, is set.
Resume(q, rate) ==
  /\ current_pid' = q
  /\ \/ /\ rate \notin {NONE, current_rtc_freq}
        /\ current_rtc_freq' = rate
        /\ hardware' = rate
     \/ /\ rate \in {NONE, current_rtc_freq}
        /\ UNCHANGED clock

\* The timer gives the processor to the foreground process of another terminal.
pit_int(t) ==
  /\ pc[current_pid] \in TickPoints \cup {"user"}
  /\ current_pid # <<t, top[t]>>
  /\ Resume(<<t, top[t]>>, rtc_freq[<<t, top[t]>>])
  /\ UNCHANGED <<rtc_int_flag, rtc_freq, rtc_fds, top, call, heard>>

\* execute stops the launcher, queues the child without a rate, and calls sched.
execute(t) ==
  LET parent == <<t, top[t]>>
      child == <<t, top[t] + 1>>
  IN  /\ At(parent, "user")
      /\ top[t] < MaxDepth[t]
      /\ top' = [top EXCEPT ![t] = @ + 1]
      /\ rtc_freq' = [rtc_freq EXCEPT ![child] = NONE]
      /\ \E s \in Terms : LET q == <<s, top'[s]>> IN Resume(q, rtc_freq'[q])
      /\ UNCHANGED <<rtc_int_flag, rtc_fds, call, heard>>

\* Variant: the descriptors are marked closed without calling close.
halt32_no_close(t) ==
  LET child == <<t, top[t]>>
  IN  /\ At(child, "user")
      /\ top[t] > 0
      /\ rtc_fds' = [rtc_fds EXCEPT ![child] = 0]
      /\ top' = [top EXCEPT ![t] = @ - 1]
      /\ current_pid' = <<t, top[t] - 1>>
      /\ UNCHANGED <<clock, rtc_int_flag, rtc_freq, call, heard>>

\* Variant: the child stays the current process.
halt32_stays(t) ==
  LET child == <<t, top[t]>>
  IN  /\ At(child, "user")
      /\ top[t] > 0
      /\ rtc_fds' = [rtc_fds EXCEPT ![child] = 0]
      /\ top' = [top EXCEPT ![t] = @ - 1]
      /\ rtc_freq' = [rtc_freq EXCEPT ![child] = NONE]
      /\ UNCHANGED <<clock, rtc_int_flag, current_pid, call, heard>>

\* halt32 closes the descriptors and goes on with the parent, without sched and
\* so without restoring the parent's rate.
halt32(t) ==
  LET child == <<t, top[t]>>
  IN  /\ At(child, "user")
      /\ top[t] > 0
      /\ rtc_fds' = [rtc_fds EXCEPT ![child] = 0]
      /\ rtc_freq' = [rtc_freq EXCEPT ![child] = IF rtc_fds[child] > 0 THEN NONE ELSE @]
      /\ top' = [top EXCEPT ![t] = @ - 1]
      /\ current_pid' = <<t, top[t] - 1>>
      /\ UNCHANGED <<clock, rtc_int_flag, call, heard>>

-----------------------------------------------------------------------------

\* What the kernel does next in a call of p that has begun.
CallStep(p) ==
  \/ set_rate(p)
  \/ store_rate(p)
  \/ set_fd_open(p)
  \/ rtc_close(p)
  \/ rtc_spin(p)
  \/ rtc_clear(p)

Next ==
  \/ rtc_int
  \/ \E p \in Pids :
       \/ rtc_open(p)
       \/ \E f \in Rates : rtc_write(p, f)
       \/ set_fd_close(p)
       \/ rtc_read(p)
       \/ CallStep(p)
  \/ \E t \in Terms : pit_int(t) \/ execute(t) \/ halt32(t)

Spec == Init /\ [][Next]_vars

(* The timer keeps ticking and gives every terminal its turn (Scheduler,      *)
(* RoundRobin); the clock keeps interrupting; a call goes on while its process *)
(* has the processor.  Programs may do what they like.                         *)
FairSpec ==
  /\ Spec
  /\ WF_vars(rtc_int)
  /\ \A t \in Terms : SF_vars(pit_int(t))
  /\ \A p \in Programs : SF_vars(CallStep(p))

-----------------------------------------------------------------------------
(* Properties *)

\* Every variable keeps its type.
TypeOK ==
  /\ hardware \in Rates
  /\ current_rtc_freq \in Rates
  /\ rtc_int_flag \in {0, 1}
  /\ rtc_freq \in [Pids -> Rates \cup {NONE}]
  /\ rtc_fds \in [Pids -> 0..MaxRtcFds]
  /\ top \in [Terms -> Nat]
  /\ \A t \in Terms : top[t] <= MaxDepth[t]
  /\ current_pid \in {<<t, top[t]>> : t \in Terms}
  /\ pc \in [Pids -> Points]
  /\ newRate \in [Pids -> Rates \cup {NONE}]
  /\ opening \in [Pids -> BOOLEAN]
  /\ heard \subseteq Pids

\* "Don't do anything if rtc frequency already matches argument" (rtc.c:52): the
\* driver's record, which decides, agrees with the chip whenever no call is
\* between the two assignments.
RecordIsHardware ==
  (\A p \in Pids : pc[p] # "program") => hardware = current_rtc_freq

\* A PCB holds a rate only while the process has the clock open, or is inside the
\* call of open or close that changes both (rtc.c:109-123, syscall.c:274-302): no
\* rate is left by a program that has closed the clock or has ended, however its
\* calls were cut by ticks (syscall.c:37-46).
RateOnlyWhileOpen ==
  \A p \in Pids : rtc_freq[p] # NONE => rtc_fds[p] > 0 \/ pc[p] \in {"mark", "forget"}

\* A context switch leaves the chip at the rate of the process it resumes
\* (schedule.c:89-90, process.h:81), whatever the others did to the clock.
SwitchRestoresRate ==
  [][\A t \in Terms : pit_int(t) => rtc_freq[<<t, top[t]>>] \in {NONE, hardware'}]_vars

\* A process that keeps its rate gets the processor at that rate again and
\* again: no program slows another one down for good (buglog.txt:171-175).
RateIsRestored ==
  \A p \in Programs : \A f \in Rates :
    <>[](rtc_freq[p] = f /\ pc[p] \in {"user"} \cup Reading /\ p[2] = top[p[1]])
      => []<>(current_pid = p /\ hardware = f)

\* rtc_read returns only after an interrupt that came since it was called
\* (rtc.c:131-138), though its flag is shared with every other reader.
ReadWaitsForInterrupt ==
  \A p \in Pids : pc[p] = "clear" => p \in heard

\* "Blocks until next interrupt" (rtc.c:126): a read that no other read
\* disturbs comes to an end.
LoneReadReturns ==
  \A p \in Programs :
    <>[](\A q \in Programs \ {p} : pc[q] \notin Reading) => []<>(pc[p] \notin Reading)
=============================================================================
