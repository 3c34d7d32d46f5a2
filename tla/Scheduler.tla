------------------------------- MODULE Scheduler -------------------------------
(***************************************************************************)
(* The process table and the context switch of the kernel: execute and     *)
(* halt (syscall.c), sched, its queue and the boot shells (schedule.c),    *)
(* the timer interrupt that preempts them (pit.c, interrupt_linkage.S) and *)
(* the user page they switch (page.c).                                     *)
(*                                                                         *)
(* System calls enter through a trap gate, so the timer may interrupt      *)
(* execute between any two instructions.  execute is cut at the points     *)
(* where a timer tick makes a difference; pc[p] is the point reached by    *)
(* the code running on process p's kernel stack.  halt disables interrupts *)
(* before its first write that matters, and the timer handler finishes     *)
(* well within its 20 ms period, so each of those is one step.             *)
(***************************************************************************)
EXTENDS Integers

CONSTANTS
  PROCESS_NUM,  \* number of process slots
  TERM_MAX,     \* number of terminals, each with a root shell
  Names,        \* first words of the commands handed to execute
  Programs,     \* the names that are executables of the file system
  Shell,        \* the shell, one of Programs
  TickPoints,   \* points of execute where this instance lets the timer in
  ShellFaults   \* whether a root shell may raise a processor exception

\* "no process", and the -1 of the code; also sched_bp = 0, base_ptr unset.
NONE == -1

Pids == 0..(PROCESS_NUM - 1)
Roots == 0..(TERM_MAX - 1)

NOT_LOADED == "NOT_LOADED"
LOADED == "LOADED"
SCHEDULED == "SCHEDULED"

NoImage == "no image"

\* Where execute may be interrupted, in the order it passes them.
ExecPoints == {"alloc", "map", "load", "loaded", "q1", "q2", "based", "picked", "switched"}

\* "user": the program itself, or a system call without effect on this state.
\* "wait": inside the sched() call of execute, switched away from.
Points == ExecPoints \cup {"user", "wait"}

ASSUME ConstantsAssumption ==
  /\ PROCESS_NUM \in Nat /\ TERM_MAX \in Nat
  /\ 2 <= TERM_MAX /\ TERM_MAX <= PROCESS_NUM
  /\ Programs \subseteq Names /\ Shell \in Programs
  /\ NoImage \notin Names
  /\ TickPoints \subseteq ExecPoints
  /\ ShellFaults \in BOOLEAN

VARIABLES
  process_queue,  \* state of every slot
  parent_id, term_num,  \* fields of the PCBs
  sched_bp,       \* PCB: kernel stack that holds the frame saved by sched, or NONE
  base_ptr,       \* PCB: kernel stack of the execute frame to return to, or NONE
  image_lo, image_hi,   \* the two parts of the program image in a slot's memory
  current_pid,    \* the global of that name
  user_page,      \* slot whose memory the user page maps
  esp0,           \* slot whose kernel stack tss.esp0 points at
  stack,          \* kernel stack the processor runs on (NONE: the boot stack)
  pc,             \* point reached by the code on each kernel stack
  child, prog, target,  \* locals of execute and sched on each kernel stack
  masked          \* processes whose user code runs with interrupts disabled

pcbs == <<parent_id, term_num, sched_bp, base_ptr>>
images == <<image_lo, image_hi>>
cpu == <<current_pid, user_page, esp0, stack, masked>>
locals == <<child, prog, target>>
vars == <<process_queue, pcbs, images, cpu, pc, locals>>

\* The processor runs code that has reached point x.
At(x) == stack \in Pids /\ pc[stack] = x

Goto(x) == pc' = [pc EXCEPT ![stack] = x]

-----------------------------------------------------------------------------
(* Boot: init_shells has queued and loaded one shell per terminal.          *)

Init ==
  /\ process_queue = [p \in Pids |-> IF p \in Roots THEN SCHEDULED ELSE NOT_LOADED]
  /\ parent_id = [p \in Pids |-> NONE]
  /\ term_num = [p \in Pids |-> IF p \in Roots THEN p ELSE NONE]
  /\ sched_bp = [p \in Pids |-> NONE]
  /\ base_ptr = [p \in Pids |-> NONE]
  /\ image_lo = [p \in Pids |-> IF p \in Roots THEN Shell ELSE NoImage]
  /\ image_hi = image_lo
  /\ current_pid = NONE
  /\ user_page = TERM_MAX - 1
  /\ esp0 = 0
  /\ stack = NONE
  /\ pc = [p \in Pids |-> "user"]
  /\ child = [p \in Pids |-> NONE]
  /\ prog = [p \in Pids |-> NoImage]
  /\ target = [p \in Pids |-> NONE]
  /\ masked = {}

-----------------------------------------------------------------------------
(* The context switch.                                                      *)

\* Variant: the search always starts at the first slot.
Slot_from_first(i) == i - 1

\* The slot i places after the current one.
Slot(i) == (current_pid + i) % PROCESS_NUM

\* Variant: loaded processes are picked as well.
Picks_loaded(p) ==
  LET found == {i \in 1..(PROCESS_NUM - 1) : process_queue[Slot(i)] # NOT_LOADED}
  IN  IF found = {}
      THEN p = Slot(PROCESS_NUM - 1)
      ELSE \E i \in found : (\A j \in found : i <= j) /\ p = Slot(i)

\* The search loop of sched: the first scheduled slot after the current one,
\* and the last slot looked at when no other slot is scheduled.
Picks(p) ==
  LET found == {i \in 1..(PROCESS_NUM - 1) : process_queue[Slot(i)] = SCHEDULED}
  IN  IF found = {}
      THEN p = Slot(PROCESS_NUM - 1)
      ELSE \E i \in found : (\A j \in found : i <= j) /\ p = Slot(i)

\* Variant: the PCB to save in is found from tss.esp0.
Saved_by_esp0 == IF current_pid = NONE
                 THEN sched_bp
                 ELSE [sched_bp EXCEPT ![esp0] = stack]

\* sched saves the running frame in the PCB of the current process.
Saved == IF current_pid = NONE
         THEN sched_bp
         ELSE [sched_bp EXCEPT ![current_pid] = stack]

\* Variants: tss.esp0 is left alone, or computed like the address of the PCB.
MapsTo_no_esp0(p) == user_page' = p /\ UNCHANGED esp0
MapsTo_pcb(p) == user_page' = p /\ esp0' = p + 1

MapsTo(p) == user_page' = p /\ esp0' = p

\* The last part of sched: a process without a saved frame starts its program
\* with the interrupt flag of the switching code; any other returns from the
\* frame saved in its PCB.  A launcher resumed this way returns from execute.
Resume(p, bp, pcs, enabled) ==
  IF bp[p] = NONE
  THEN /\ stack' = p
       /\ pc' = [pcs EXCEPT ![p] = "user"]
       /\ masked' = IF enabled THEN masked \ {p} ELSE masked \cup {p}
  ELSE /\ stack' = bp[p]
       /\ pc' = IF pcs[bp[p]] = "wait" THEN [pcs EXCEPT ![bp[p]] = "user"] ELSE pcs
       /\ masked' = masked

\* A whole run of sched, called with interrupts enabled.
sched ==
  /\ \E p \in Pids :
       /\ Picks(p)
       /\ sched_bp' = Saved
       /\ MapsTo(p)
       /\ current_pid' = p
       /\ Resume(p, Saved, pc, TRUE)
  /\ UNCHANGED <<process_queue, parent_id, term_num, base_ptr, images, locals>>

\* entry() starts the first shell.
entry == stack = NONE /\ current_pid = NONE /\ sched

\* The timer interrupt, in user code or at one of the points of execute.
pit_int ==
  /\ \E x \in TickPoints \cup {"user"} : At(x)
  /\ stack \notin masked
  /\ sched

-----------------------------------------------------------------------------
(* execute                                                                  *)

\* Variant: a slot that is merely not scheduled counts as free.
FirstFree_not_scheduled(c) ==
  /\ process_queue[c] # SCHEDULED
  /\ \A p \in Pids : process_queue[p] # SCHEDULED => c <= p

\* get_available_pid finds slot c.
FirstFree(c) ==
  /\ process_queue[c] = NOT_LOADED
  /\ \A p \in Pids : process_queue[p] = NOT_LOADED => c <= p

\* Variant: the child gets the terminal of its own number.
execute_own_terminal ==
  /\ At("user")
  /\ \E c \in Pids, name \in Names :
       /\ FirstFree(c)
       /\ term_num' = [term_num EXCEPT ![c] = c]
       /\ child' = [child EXCEPT ![stack] = c]
       /\ prog' = [prog EXCEPT ![stack] = name]
  /\ Goto("alloc")
  /\ UNCHANGED <<process_queue, parent_id, sched_bp, base_ptr, images, cpu, target>>

\* A slot is chosen and the child is put in its parent's terminal.  (With no
\* free slot execute returns -1 and changes nothing.)  The local parent_pid is
\* the owner of the stack in use: RunsInOwnContext holds at the call.
execute ==
  /\ At("user")
  /\ \E c \in Pids, name \in Names :
       /\ FirstFree(c)
       /\ term_num' = [term_num EXCEPT ![c] = term_num[current_pid]]
       /\ child' = [child EXCEPT ![stack] = c]
       /\ prog' = [prog EXCEPT ![stack] = name]
  /\ Goto("alloc")
  /\ UNCHANGED <<process_queue, parent_id, sched_bp, base_ptr, images, cpu, target>>

\* program_valid fails: execute returns -1.
execute_invalid ==
  /\ At("alloc")
  /\ prog[stack] \notin Programs
  /\ Goto("user")
  /\ child' = [child EXCEPT ![stack] = NONE]
  /\ prog' = [prog EXCEPT ![stack] = NoImage]
  /\ UNCHANGED <<process_queue, pcbs, images, cpu, target>>

\* Variant: page_map_user is not called before the load.
execute_no_map ==
  /\ At("alloc")
  /\ prog[stack] \in Programs
  /\ Goto("map")
  /\ UNCHANGED <<process_queue, pcbs, images, cpu, locals>>

execute_map ==
  /\ At("alloc")
  /\ prog[stack] \in Programs
  /\ user_page' = child[stack]
  /\ Goto("map")
  /\ UNCHANGED <<process_queue, pcbs, images, current_pid, esp0, stack, masked, locals>>

\* program_load copies the file block by block to the fixed user address, that
\* is, into the slot the user page maps at that moment.
program_load_first ==
  /\ At("map")
  /\ image_lo' = [image_lo EXCEPT ![user_page] = prog[stack]]
  /\ Goto("load")
  /\ UNCHANGED <<process_queue, pcbs, image_hi, cpu, locals>>

program_load_rest ==
  /\ At("load")
  /\ image_hi' = [image_hi EXCEPT ![user_page] = prog[stack]]
  /\ Goto("loaded")
  /\ UNCHANGED <<process_queue, pcbs, image_lo, cpu, locals>>

\* The child's PCB is filled in and sched_queue_process takes the parent out.
execute_dequeue_parent ==
  /\ At("loaded")
  /\ parent_id' = [parent_id EXCEPT ![child[stack]] = stack]
  /\ sched_bp' = [sched_bp EXCEPT ![child[stack]] = NONE]
  /\ process_queue' = [process_queue EXCEPT ![stack] = LOADED]
  /\ Goto("q1")
  /\ UNCHANGED <<term_num, base_ptr, images, cpu, locals>>

execute_enqueue_child ==
  /\ At("q1")
  /\ process_queue' = [process_queue EXCEPT ![child[stack]] = SCHEDULED]
  /\ Goto("q2")
  /\ UNCHANGED <<pcbs, images, cpu, locals>>

\* Variant: the frame is recorded in the parent's own PCB.
execute_save_base_own ==
  /\ At("q2")
  /\ base_ptr' = [base_ptr EXCEPT ![stack] = stack]
  /\ esp0' = current_pid
  /\ Goto("based")
  /\ UNCHANGED <<process_queue, parent_id, term_num, sched_bp, images,
                 current_pid, user_page, stack, masked, locals>>

\* The frame halt will return to is recorded in the child.
execute_save_base ==
  /\ At("q2")
  /\ base_ptr' = [base_ptr EXCEPT ![child[stack]] = stack]
  /\ esp0' = current_pid
  /\ Goto("based")
  /\ UNCHANGED <<process_queue, parent_id, term_num, sched_bp, images,
                 current_pid, user_page, stack, masked, locals>>

\* The sched() call at the end of execute, up to the write of current_pid.
execute_sched ==
  /\ At("based")
  /\ \E p \in Pids :
       /\ Picks(p)
       /\ target' = [target EXCEPT ![stack] = p]
       /\ MapsTo(p)
  /\ sched_bp' = Saved
  /\ Goto("picked")
  /\ UNCHANGED <<process_queue, parent_id, term_num, base_ptr, images,
                 current_pid, stack, masked, child, prog>>

execute_set_current ==
  /\ At("picked")
  /\ current_pid' = target[stack]
  /\ Goto("switched")
  /\ UNCHANGED <<process_queue, pcbs, images, user_page, esp0, stack, masked, locals>>

execute_switch ==
  /\ At("switched")
  /\ target' = [target EXCEPT ![stack] = NONE]
  /\ Resume(target[stack], sched_bp, [pc EXCEPT ![stack] = "wait"], stack \notin masked)
  /\ UNCHANGED <<process_queue, pcbs, images, current_pid, user_page, esp0, child, prog>>

-----------------------------------------------------------------------------
(* halt32                                                                   *)

\* Variant: control goes back to the shell of the terminal.
halt32_to_shell ==
  /\ At("user")
  /\ parent_id[current_pid] # NONE
  /\ LET p == current_pid
         shell == term_num[current_pid]
     IN  /\ process_queue' = [process_queue EXCEPT ![p] = NOT_LOADED, ![shell] = SCHEDULED]
         /\ current_pid' = shell
         /\ MapsTo(shell)
         /\ stack' = shell
         /\ pc' = [pc EXCEPT ![shell] = "user"]
  /\ UNCHANGED <<pcbs, images, locals, masked>>

\* Variant: the parent is not queued again.
halt32_no_requeue ==
  /\ At("user")
  /\ parent_id[current_pid] # NONE
  /\ LET p == current_pid
         frame == base_ptr[current_pid]
     IN  /\ process_queue' = [process_queue EXCEPT ![p] = NOT_LOADED]
         /\ current_pid' = parent_id[current_pid]
         /\ MapsTo(parent_id[current_pid])
         /\ stack' = frame
         /\ pc' = [q \in Pids |-> IF q = frame THEN "user" ELSE pc[q]]
  /\ UNCHANGED <<pcbs, images, locals, masked>>

\* halt_ret drops whatever the kernel stack of the launcher holds above the frame
\* of its execute and returns from that call.
halt_ret(frame) ==
  /\ stack' = frame
  /\ pc' = [q \in Pids |-> IF q = frame THEN "user" ELSE pc[q]]
  /\ child' = [q \in Pids |-> IF q = frame THEN NONE ELSE child[q]]
  /\ prog' = [q \in Pids |-> IF q = frame THEN NoImage ELSE prog[q]]
  /\ target' = [q \in Pids |-> IF q = frame THEN NONE ELSE target[q]]

\* A child ends, by the system call or by an exception: its parent is queued
\* again and control returns from the execute call that launched the child.
halt32 ==
  /\ At("user")
  /\ parent_id[current_pid] # NONE
  /\ LET p == current_pid
         parent == parent_id[current_pid]
     IN  /\ process_queue' = [process_queue EXCEPT ![p] = NOT_LOADED, ![parent] = SCHEDULED]
         /\ current_pid' = parent
         /\ MapsTo(parent)
         /\ halt_ret(base_ptr[current_pid])
  /\ masked' = masked \ {current_pid}
  /\ UNCHANGED <<pcbs, images>>

\* A root shell that ends is loaded again and restarted on the same stack.
RestartShell ==
  /\ At("user")
  /\ parent_id[current_pid] = NONE
  /\ current_pid' = term_num[current_pid]
  /\ image_lo' = [image_lo EXCEPT ![user_page] = Shell]
  /\ image_hi' = [image_hi EXCEPT ![user_page] = Shell]
  /\ UNCHANGED <<process_queue, pcbs, user_page, esp0, stack, pc, locals>>

halt32_shell == RestartShell /\ UNCHANGED masked

\* Only the system call has a trap gate: what enters through any other gate runs
\* with interrupts disabled.
int_gate == masked' = masked \cup {stack}

\* The same after a processor exception: ret_to_user pushes the flags that its
\* gate left.
exception_shell == ShellFaults /\ RestartShell /\ int_gate

-----------------------------------------------------------------------------
\* Steps of execute once it has been called.
ExecuteStep ==
  \/ execute_invalid \/ execute_map
  \/ program_load_first \/ program_load_rest
  \/ execute_dequeue_parent \/ execute_enqueue_child
  \/ execute_save_base
  \/ execute_sched \/ execute_set_current \/ execute_switch

Next ==
  \/ entry \/ pit_int
  \/ execute \/ ExecuteStep
  \/ halt32 \/ halt32_shell \/ exception_shell

Spec == Init /\ [][Next]_vars

\* The timer keeps ticking, and the interrupt controller holds a tick until it
\* can be delivered; the processor keeps executing kernel code; what programs
\* do is up to them.
FairSpec == Spec /\ WF_vars(entry) /\ SF_vars(pit_int) /\ WF_vars(ExecuteStep)

-----------------------------------------------------------------------------
(* Properties.                                                              *)

PidOrNone == Pids \cup {NONE}

\* Every variable has its type.
TypeOK ==
  /\ process_queue \in [Pids -> {NOT_LOADED, LOADED, SCHEDULED}]
  /\ parent_id \in [Pids -> PidOrNone]
  /\ term_num \in [Pids -> PidOrNone]
  /\ sched_bp \in [Pids -> PidOrNone]
  /\ base_ptr \in [Pids -> PidOrNone]
  /\ image_lo \in [Pids -> Names \cup {NoImage}]
  /\ image_hi \in [Pids -> Names \cup {NoImage}]
  /\ current_pid \in PidOrNone
  /\ user_page \in Pids
  /\ esp0 \in Pids
  /\ stack \in PidOrNone
  /\ pc \in [Pids -> Points]
  /\ child \in [Pids -> PidOrNone]
  /\ prog \in [Pids -> Names \cup {NoImage}]
  /\ target \in [Pids -> PidOrNone]
  /\ masked \subseteq Pids

\* Program code runs in its own context: the kernel's idea of the current
\* process, the mapped user page, the stack of the next interrupt and the
\* stack in use all belong to one process (sched and halt32 set them one by one).
RunsInOwnContext ==
  At("user") => stack = current_pid /\ user_page = current_pid /\ esp0 = current_pid

\* Outside the window of sched_queue_process exactly one process of each
\* terminal can be scheduled: its foreground program.
OneForegroundPerTerminal ==
  ~At("q1") =>
    \A t \in Roots : \E p \in Pids : \A q \in Pids :
      (process_queue[q] = SCHEDULED /\ term_num[q] = t) <=> q = p

\* No two pending calls of execute were given the same slot by
\* get_available_pid: the pid is the "unique identifier of process" (process.h).
PidsAreUnique ==
  \A v, w \in Pids :
    /\ child[v] # NONE /\ child[v] = child[w] => v = w
    /\ pc[v] \in {"alloc", "map", "load", "loaded", "q1"}
         => process_queue[child[v]] = NOT_LOADED

\* A process that is loaded but not scheduled has a live child to wake it up.
LoadedHasLiveChild ==
  \A p \in Pids :
    process_queue[p] = LOADED =>
      \/ p = stack /\ pc[p] = "q1"
      \/ \E c \in Pids : parent_id[c] = p /\ process_queue[c] # NOT_LOADED

\* Every root shell and every launched child has the whole image of the program
\* it was started with: program_load wrote "into the correct location" and no
\* load destroyed another process.
ImageIntact ==
  /\ \A p \in Roots : image_lo[p] = Shell /\ image_hi[p] = Shell
  /\ \A p \in Pids :
       pc[p] \in {"loaded", "q1", "q2", "based", "picked", "switched", "wait"}
         => image_lo[child[p]] = prog[p] /\ image_hi[child[p]] = prog[p]

\* The frame sched would return to for a scheduled process is on that process's
\* own kernel stack, and that stack's code can be resumed: it is user code.
SavedContextIsOwn ==
  \A p \in Pids :
    process_queue[p] = SCHEDULED /\ p # stack
      => sched_bp[p] \in {NONE, p} /\ pc[p] = "user"

\* sched and halt32 hand the processor only to a scheduled process, although
\* the search loop of sched falls through with an arbitrary slot.
SwitchesToScheduled ==
  [][current_pid' # current_pid => process_queue'[current_pid'] = SCHEDULED]_vars

\* When a process ends, control returns to the execute call that launched it.
HaltReturnsToLauncher ==
  [][\A p \in Pids :
       process_queue[p] = SCHEDULED /\ process_queue'[p] = NOT_LOADED
         => /\ stack' = parent_id[p]
            /\ child[parent_id[p]] = p
            /\ pc[parent_id[p]] \in {"based", "picked", "wait"}
            /\ pc'[parent_id[p]] = "user"]_vars

\* Once programs stop launching and ending each other, round robin gives every
\* scheduled process the processor again and again.
RoundRobin ==
  <>[][process_queue' = process_queue]_vars
    => \A p \in Pids : []<>(process_queue[p] = SCHEDULED => current_pid = p)

\* The foreground of its terminal: scheduled, or about to hand over to its child.
Front(p) == process_queue[p] = SCHEDULED \/ (p = stack /\ pc[p] = "q1")

LivePids == {p \in Pids : process_queue[p] # NOT_LOADED}

J == INSTANCE Jobs WITH
       Terms <- Roots, Slots <- Pids, Nobody <- NONE,
       front <- [t \in Roots |-> CHOOSE p \in Pids : Front(p) /\ term_num[p] = t],
       live <- LivePids,
       under <- [p \in Pids |-> IF p \in LivePids THEN parent_id[p] ELSE NONE]

\* Through slots, queues, saved frames and preemption, execute and halt behave
\* as a stack of programs per terminal.
ImplementsJobs == J!Spec

=============================================================================
