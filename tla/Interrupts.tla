------------------------------- MODULE Interrupts -------------------------------
(***************************************************************************)
(* The interrupt controllers (i8259.c), the gates of the IDT (idt.c), the  *)
(* three device handlers (interrupt_linkage.S, pit.c, keyboard.c, rtc.c)   *)
(* and what the context switch does to a handler that has not finished.    *)
(*                                                                         *)
(* A process has one kernel stack.  Handlers that interrupt it, or that    *)
(* interrupt each other, leave frames there; sched leaves the frames of    *)
(* the process it switches away from behind, and halt32 throws away the    *)
(* frames above the execute call it returns to.  Device interrupts enter   *)
(* through interrupt gates, with the interrupt flag cleared, and system    *)
(* calls through a trap gate, with the flag left alone.  Boot runs on a    *)
(* stack of its own, that of NONE, which the first sched leaves for good;  *)
(* interrupts are on for part of it.  Exceptions enter through interrupt   *)
(* gates too: the code that goes on from there has the flag cleared.  What *)
(* the handlers do to buffers and screens belongs to Terminal, Screen and  *)
(* Rtc, and the bookkeeping of execute and halt to Scheduler.              *)
(***************************************************************************)
EXTENDS Integers, Sequences, FiniteSets

CONSTANTS
  PROCESS_NUM,  \* number of process slots
  TERM_MAX,     \* number of terminals: slots 0..TERM_MAX-1 hold the root shells
  MaxNested,    \* bound: handlers of one device on one stack
  KeyInLaunch   \* whether a key may arrive in the part of execute after
                \* sched_queue_process, and in the part of entry after its sti

Pids == 0..(PROCESS_NUM - 1)
NONE == -1   \* no process: the stack of entry
Stacks == Pids \cup {NONE}

PIT_IRQ == 0
KB_IRQ == 1
SLAVE_IRQ == 2
RTC_IRQ == 8
MIDDLE == 8

Irqs == {PIT_IRQ, KB_IRQ, RTC_IRQ}
Lines == 0..(MIDDLE - 1)

ASSUME InterruptsAssumption ==
  /\ PROCESS_NUM \in Nat /\ TERM_MAX \in Nat
  /\ 2 <= TERM_MAX /\ TERM_MAX <= PROCESS_NUM
  /\ MaxNested \in Nat \ {0}
  /\ KeyInLaunch \in BOOLEAN

VARIABLES
  irr,         \* interrupts a device has raised and no handler has taken
  master_isr, slave_isr,  \* lines of each controller in service
  mask,        \* lines of each controller that are masked
  enabled,     \* the interrupt flag of the processor
  running,     \* stack on which the processor runs
  scheduled,   \* slots that sched may pick
  launcher,    \* per slot: the process that launched it, or NONE
  masked,      \* processes whose user code has the interrupt flag clear
  ctx,         \* per stack: what lies under the handler frames
  frames       \* per stack: the handlers on it, innermost last

pic == <<irr, master_isr, slave_isr, mask>>
procs == <<scheduled, launcher, ctx>>
vars == <<pic, enabled, running, procs, masked, frames>>

-----------------------------------------------------------------------------
(* The controllers *)

enable_irq(irq) ==
  mask' = IF irq >= MIDDLE
          THEN [mask EXCEPT !.slave = @ \ {irq - MIDDLE}]
          ELSE [mask EXCEPT !.master = @ \ {irq}]

\* The master's line of an interrupt.
Line(i) == IF i >= MIDDLE THEN SLAVE_IRQ ELSE i

\* A controller passes a line on that is not masked while no line of the same
\* or a higher priority is in service.
Passes(l, off, isr) == l \notin off /\ \A k \in isr : k > l

Requested(i) ==
  /\ i \in irr
  /\ Passes(Line(i), mask.master, master_isr)
  /\ i >= MIDDLE => Passes(i - MIDDLE, mask.slave, slave_isr)

\* The end of interrupt names its line; that of the second controller goes to both.
send_eoi(i) ==
  /\ IF i >= MIDDLE
     THEN /\ slave_isr' = slave_isr \ {i - MIDDLE}
          /\ master_isr' = master_isr \ {SLAVE_IRQ}
     ELSE master_isr' = master_isr \ {i} /\ UNCHANGED slave_isr
  /\ UNCHANGED <<irr, mask>>

-----------------------------------------------------------------------------
(* The stack of the running process *)

Stack == frames[running]
Top == Stack[Len(Stack)]

\* The innermost frame is one of interrupt i that has reached point x.
At(i, x) == Stack # <<>> /\ Top = [irq |-> i, at |-> x]

\* No handler runs: the processor is in user code or in a system call.
Base(x) == Stack = <<>> /\ ctx[running] = x

Goto(x) == frames' = [frames EXCEPT ![running][Len(Stack)].at = x]

\* iret: interrupts are only taken with the flag set, so it is set again.
iret ==
  /\ frames' = [frames EXCEPT ![running] = SubSeq(@, 1, Len(@) - 1)]
  /\ enabled' = TRUE

Init ==
  /\ irr = {} /\ master_isr = {} /\ slave_isr = {}
  /\ mask = [master |-> {}, slave |-> {}]
  /\ enabled = FALSE
  /\ running = NONE
  /\ scheduled = {}
  /\ launcher = [p \in Pids |-> NONE]
  /\ masked = {}
  /\ ctx = [p \in Stacks |-> IF p = NONE THEN "i8259_init" ELSE "free"]
  /\ frames = [p \in Stacks |-> <<>>]

\* A device raises its line.
Raise(i) ==
  /\ i \notin irr
  /\ irr' = irr \cup {i}
  /\ UNCHANGED <<master_isr, slave_isr, mask, enabled, running, procs, masked, frames>>

\* Where an interrupt may be taken: interrupts of one device are further apart
\* than the few instructions its handler executes after the end of interrupt.
Timely(i) ==
  /\ Cardinality({k \in DOMAIN Stack : Stack[k].irq = i}) < MaxNested
  /\ i = KB_IRQ => KeyInLaunch \/ ctx[running] \notin {"exec", "sched"}

\* The processor takes a request and enters its handler through an interrupt
\* gate.  Of two requests any may come first: the other one was a moment later.
Deliver(i) ==
  /\ enabled
  /\ Requested(i)
  /\ Timely(i)
  /\ irr' = irr \ {i}
  /\ master_isr' = master_isr \cup {Line(i)}
  /\ slave_isr' = IF i >= MIDDLE THEN slave_isr \cup {i - MIDDLE} ELSE slave_isr
  /\ enabled' = FALSE
  /\ frames' = [frames EXCEPT ![running] = Append(@, [irq |-> i, at |-> "entry"])]
  /\ UNCHANGED <<mask, running, procs, masked>>

Slot(i) == (running + i) % PROCESS_NUM

\* sched picks the next scheduled slot.
Picks(p) ==
  \E i \in 1..(PROCESS_NUM - 1) :
    /\ Slot(i) \in scheduled
    /\ \A j \in 1..(i - 1) : Slot(j) \notin scheduled
    /\ p = Slot(i)

\* sched goes on with p.  ret_to_user gives a process that runs for the first time
\* the flags of this moment; to set the rate of another one, rtc_set_freq may end
\* in its sti().
sched(p) ==
  /\ Picks(p)
  /\ running' = p
  /\ \/ /\ frames[p] = <<>>
        /\ masked' = IF enabled THEN masked \ {p} ELSE masked \cup {p}
        /\ UNCHANGED enabled
     \/ /\ frames[p] # <<>>
        /\ enabled' \in {enabled, TRUE}
        /\ UNCHANGED masked

-----------------------------------------------------------------------------
(* Boot: entry, from the controllers on *)

\* entry goes on from x to y; handlers that interrupt it have to end first.
BootStep(x, y) ==
  /\ Base(x)
  /\ ctx' = [ctx EXCEPT ![NONE] = y]
  /\ UNCHANGED <<irr, master_isr, slave_isr, running, launcher, masked, frames>>

i8259_init ==
  /\ BootStep("i8259_init", "keyboard_init")
  /\ mask' = [master |-> Lines, slave |-> Lines]
  /\ UNCHANGED <<enabled, scheduled>>

keyboard_init ==
  /\ BootStep("keyboard_init", "rtc_set_freq")
  /\ enable_irq(KB_IRQ)
  /\ UNCHANGED <<enabled, scheduled>>

\* rtc_init sets the first rate; rtc_set_freq ends in a sti() of its own, so that
\* interrupts are on from here, long before entry means to enable them.
rtc_set_freq ==
  /\ BootStep("rtc_set_freq", "rtc_enable")
  /\ enabled' = TRUE
  /\ UNCHANGED <<mask, scheduled>>

rtc_enable ==
  /\ BootStep("rtc_enable", "slave_enable")
  /\ enable_irq(RTC_IRQ)
  /\ UNCHANGED <<enabled, scheduled>>

\* Variant: the line of the second controller stays masked.
slave_enable_forgotten ==
  /\ BootStep("slave_enable", "cli")
  /\ UNCHANGED <<mask, enabled, scheduled>>

slave_enable ==
  /\ BootStep("slave_enable", "cli")
  /\ enable_irq(SLAVE_IRQ)
  /\ UNCHANGED <<enabled, scheduled>>

entry_cli ==
  /\ BootStep("cli", "init_shells")
  /\ enabled' = FALSE
  /\ UNCHANGED <<mask, scheduled>>

\* One shell for every terminal, ready to be picked.
init_shells ==
  /\ Base("init_shells")
  /\ ctx' = [p \in Stacks |-> IF p = NONE THEN "pit_init" ELSE
                              IF p < TERM_MAX THEN "user" ELSE "free"]
  /\ scheduled' = 0..(TERM_MAX - 1)
  /\ UNCHANGED <<pic, enabled, running, launcher, masked, frames>>

pit_init ==
  /\ BootStep("pit_init", "sti")
  /\ enable_irq(PIT_IRQ)
  /\ UNCHANGED <<enabled, scheduled>>

entry_sti ==
  /\ BootStep("sti", "sched")
  /\ enabled' = TRUE
  /\ UNCHANGED <<mask, scheduled>>

\* The first shell is forced to run, unless a tick has already done so.
entry_sched ==
  /\ Base("sched")
  /\ \E p \in Pids : sched(p)
  /\ UNCHANGED <<pic, procs, frames>>

Boot ==
  \/ i8259_init \/ keyboard_init
  \/ rtc_set_freq \/ rtc_enable \/ slave_enable
  \/ entry_cli \/ init_shells \/ pit_init \/ entry_sti \/ entry_sched

-----------------------------------------------------------------------------
(* The handlers *)

\* pit_interrupt_assembly sets the flag again before anything else.
pit_sti ==
  /\ At(PIT_IRQ, "entry")
  /\ enabled' = TRUE
  /\ Goto("eoi")
  /\ UNCHANGED <<pic, running, procs, masked>>

pit_eoi ==
  /\ At(PIT_IRQ, "eoi")
  /\ send_eoi(PIT_IRQ)
  /\ Goto("sched")
  /\ UNCHANGED <<enabled, running, procs, masked>>

\* The rest of the handler runs when sched comes back to this process; nothing
\* comes back to the stack of boot.
pit_sched ==
  /\ At(PIT_IRQ, "sched")
  /\ \E p \in Pids : sched(p)
  /\ IF running = NONE THEN frames' = [frames EXCEPT ![NONE] = <<>>] ELSE Goto("iret")
  /\ UNCHANGED <<pic, procs>>

pit_iret == At(PIT_IRQ, "iret") /\ iret /\ UNCHANGED <<pic, running, procs, masked>>

\* Variant: some keys return early and forget the end of interrupt.
keyboard_int_early_return ==
  /\ At(KB_IRQ, "entry")
  /\ \/ enabled' \in BOOLEAN /\ Goto("eoi")
     \/ iret
  /\ UNCHANGED <<pic, running, procs, masked>>

\* Enter and the terminal switches end in a sti() of their own
\* (term_keyboardEnter, show_terminal); no other key does.
keyboard_int ==
  /\ At(KB_IRQ, "entry")
  /\ enabled' \in BOOLEAN
  /\ Goto("eoi")
  /\ UNCHANGED <<pic, running, procs, masked>>

keyboard_eoi ==
  /\ At(KB_IRQ, "eoi")
  /\ send_eoi(KB_IRQ)
  /\ enabled' = TRUE
  /\ Goto("iret")
  /\ UNCHANGED <<running, procs, masked>>

keyboard_iret == At(KB_IRQ, "iret") /\ iret /\ UNCHANGED <<pic, running, procs, masked>>

\* The RTC handler never sets the flag: it is one step.
rtc_int ==
  /\ At(RTC_IRQ, "entry")
  /\ send_eoi(RTC_IRQ)
  /\ iret
  /\ UNCHANGED <<running, procs, masked>>

Handler ==
  \/ pit_sti \/ pit_eoi \/ pit_sched \/ pit_iret
  \/ keyboard_int \/ keyboard_eoi \/ keyboard_iret
  \/ rtc_int

-----------------------------------------------------------------------------
(* execute and halt32, as far as they change whose frames are resumed *)

\* sched_queue_process: from here on sched does not come back to the launcher.
execute ==
  /\ Base("user")
  /\ \E c \in Pids :
       /\ ctx[c] = "free"
       /\ \A d \in Pids : ctx[d] = "free" => c <= d
       /\ scheduled' = (scheduled \ {running}) \cup {c}
       /\ launcher' = [launcher EXCEPT ![c] = running]
       /\ ctx' = [ctx EXCEPT ![c] = "user", ![running] = "exec"]
       /\ frames' = [frames EXCEPT ![c] = <<>>]
  /\ UNCHANGED <<pic, enabled, running, masked>>

execute_sched ==
  /\ Base("exec")
  /\ \E p \in Pids : sched(p)
  /\ ctx' = [ctx EXCEPT ![running] = "wait"]
  /\ UNCHANGED <<pic, scheduled, launcher, frames>>

\* Variant: a root shell is not restarted but ended like any other program.
halt32_root ==
  LET p == launcher[running]
  IN  /\ Base("user")
      /\ scheduled' = (scheduled \ {running}) \cup {p}
      /\ ctx' = [ctx EXCEPT ![running] = "free", ![p] = IF p \in masked THEN "call" ELSE "user"]
      /\ launcher' = [launcher EXCEPT ![running] = NONE]
      /\ frames' = [frames EXCEPT ![p] = <<>>]
      /\ running' = p
      /\ enabled' = TRUE
      /\ UNCHANGED <<pic, masked>>

\* A launched program ends, by the system call or by an exception.  halt_ret loads
\* the stack pointer of the launcher's execute frame and sets the flag: every
\* handler frame above is gone.  The flag stays set until the launcher's own
\* system call returns.
halt32 ==
  LET p == launcher[running]
  IN  /\ Base("user")
      /\ p # NONE
      /\ scheduled' = (scheduled \ {running}) \cup {p}
      /\ ctx' = [ctx EXCEPT ![running] = "free", ![p] = IF p \in masked THEN "call" ELSE "user"]
      /\ launcher' = [launcher EXCEPT ![running] = NONE]
      /\ frames' = [frames EXCEPT ![p] = <<>>]
      /\ running' = p
      /\ enabled' = TRUE
      /\ UNCHANGED <<pic, masked>>

\* A root shell starts again on its own stack.  After its halt call, which came
\* through the trap gate, ret_to_user gives it the flag it had, and nothing
\* changes.  After an exception it gets the cleared flag of the interrupt gate.
exception ==
  /\ Base("user")
  /\ launcher[running] = NONE
  /\ enabled' = FALSE
  /\ masked' = masked \cup {running}
  /\ UNCHANGED <<pic, running, procs, frames>>

\* Inside a system call of a program whose flag is clear rtc_set_freq sets it; the
\* iret at the end of the call clears it again.
call_sti ==
  /\ Base("user")
  /\ running \in masked
  /\ enabled' = TRUE
  /\ ctx' = [ctx EXCEPT ![running] = "call"]
  /\ UNCHANGED <<pic, running, scheduled, launcher, masked, frames>>

call_iret ==
  /\ Base("call")
  /\ enabled' = FALSE
  /\ ctx' = [ctx EXCEPT ![running] = "user"]
  /\ UNCHANGED <<pic, running, scheduled, launcher, masked, frames>>

Next ==
  \/ \E i \in Irqs : Raise(i) \/ Deliver(i)
  \/ Boot \/ Handler
  \/ execute \/ execute_sched \/ halt32
  \/ exception \/ call_sti \/ call_iret

Spec == Init /\ [][Next]_vars

(* The timer keeps ticking.  The processor keeps executing kernel code, and  *)
(* devices leave it time for that: boot, a handler, or the sched call of     *)
(* execute, that is interrupted or resumed again and again gets on.  It takes an      *)
(* interrupt that the controllers request again and again.  No key has to be *)
(* pressed, and no program has to launch or end another.                     *)
FairSpec ==
  /\ Spec
  /\ SF_vars(Raise(PIT_IRQ))
  /\ \A i \in Irqs : SF_vars(Deliver(i))
  /\ WF_vars(Handler)
  /\ SF_vars(pit_sched) /\ SF_vars(pit_iret)
  /\ SF_vars(keyboard_eoi) /\ SF_vars(keyboard_iret)
  /\ SF_vars(Boot \/ execute_sched)

-----------------------------------------------------------------------------
(* Properties *)

Frames == [irq : Irqs, at : {"entry", "eoi", "sched", "iret"}]

BootPoints == {"i8259_init", "keyboard_init", "rtc_set_freq", "rtc_enable", "slave_enable",
               "cli", "init_shells", "pit_init", "sti", "sched"}

\* Every variable has its type; sched always finds a slot.
TypeOK ==
  /\ irr \subseteq Irqs
  /\ master_isr \subseteq Lines /\ slave_isr \subseteq Lines
  /\ enabled \in BOOLEAN
  /\ mask \in [master : SUBSET Lines, slave : SUBSET Lines]
  /\ running \in Stacks
  /\ scheduled \subseteq Pids
  /\ launcher \in [Pids -> Pids \cup {NONE}]
  /\ DOMAIN ctx = Stacks /\ ctx[NONE] \in BootPoints
  /\ \A p \in Pids : ctx[p] \in {"free", "user", "call", "exec", "wait"}
  /\ masked \subseteq Pids
  /\ frames \in [Stacks -> Seq(Frames)]

\* The k-th frame on the stack of p still has to send the end of interrupt i.
Owes(p, k, i) == frames[p][k].irq = i /\ frames[p][k].at \in {"entry", "eoi"}

\* The processor will come back to the frames of p.
Resumable(p) == p = running \/ p \in scheduled

\* A line in service belongs to exactly one unfinished handler, and that handler
\* gets the processor again: each send_eoi ends what its own handler began
\* ("send EOI signal when done handling", keyboard.c:188), even if the timer
\* switched to another process before the handler had sent it.
ServiceHasOwner ==
  /\ \A i \in Irqs :
       Line(i) \in master_isr <=>
         \E p \in Stacks : Resumable(p) /\ \E k \in DOMAIN frames[p] : Owes(p, k, i)
  /\ \A p, q \in Stacks : \A k \in DOMAIN frames[p], l \in DOMAIN frames[q] :
       \A i \in Irqs : Owes(p, k, i) /\ Owes(q, l, i) => p = q /\ k = l
  /\ slave_isr # {} <=> SLAVE_IRQ \in master_isr

\* Once programs stop launching and ending each other, every interrupt that a
\* device raises is handled: no controller is left waiting for an end of
\* interrupt that never comes.  Only as long as no root shell runs into an
\* exception: one that is restarted from there keeps the flag clear (idt.c,
\* syscall.c:26-33, interrupt_linkage.S:122) and may let nothing in any more.
EveryInterruptIsServed ==
  [](masked = {}) /\ <>[][scheduled' = scheduled]_vars
    => \A i \in Irqs : (i \in irr) ~> (i \notin irr)
=============================================================================
