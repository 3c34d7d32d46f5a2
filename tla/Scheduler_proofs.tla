---------------------------- MODULE Scheduler_proofs ----------------------------
(***************************************************************************)
(* Machine-checked proofs about Scheduler, for any number of slots,        *)
(* terminals and programs.  Safe instances are those that let the timer    *)
(* into execute only once the child's base pointer is recorded and before  *)
(* sched writes current_pid.                                               *)
(***************************************************************************)
EXTENDS Scheduler, TLAPS

SafePoints == {"based", "picked"}

-----------------------------------------------------------------------------
(* The inductive invariant, in named parts.                                 *)

Live(p) == process_queue[p] # NOT_LOADED

Early == {"alloc", "map", "load", "loaded"}
Late == {"q2", "based", "picked", "switched", "wait"}

\* Root shells are alive, parentless and own the terminal of their number.
RootsInv ==
  \A r \in Roots : Live(r) /\ parent_id[r] = NONE /\ term_num[r] = r

\* A live child is the child its parent's pending execute call launched.
ChildInv ==
  \A c \in Pids \ Roots :
    Live(c) =>
      /\ parent_id[c] \in Pids
      /\ child[parent_id[c]] = c
      /\ pc[parent_id[c]] \in Late
      /\ term_num[c] \in Roots
      /\ term_num[c] = term_num[parent_id[c]]
      /\ pc[parent_id[c]] # "q2" => base_ptr[c] = parent_id[c]

\* What a kernel stack inside execute knows about its child.
LauncherInv ==
  \A p \in Pids :
    /\ pc[p] = "user" => child[p] = NONE /\ process_queue[p] # LOADED
    /\ pc[p] # "user" => child[p] \in Pids \ Roots /\ Live(p)
    /\ pc[p] \in Early =>
         /\ process_queue[p] = SCHEDULED
         /\ ~Live(child[p])
         /\ term_num[child[p]] = term_num[p]
    /\ pc[p] = "q1" =>
         /\ process_queue[p] = LOADED
         /\ ~Live(child[p])
         /\ term_num[child[p]] = term_num[p]
         /\ parent_id[child[p]] = p
         /\ sched_bp[child[p]] = NONE
    /\ pc[p] \in Late =>
         /\ process_queue[p] = LOADED
         /\ Live(child[p])
         /\ parent_id[child[p]] = p

\* Saved frames are on the stack of the process they belong to, and only at
\* the safe points is a stack inside execute preempted.
ContextInv ==
  \A p \in Pids :
    /\ Live(p) => sched_bp[p] \in {NONE, p}
    /\ p # stack => pc[p] \in SafePoints \cup {"user", "wait"}

\* The registers of the processor at each point.
CpuInv ==
  /\ stack = NONE <=> current_pid = NONE
  /\ stack = NONE => \A p \in Pids : pc[p] = "user"
  /\ stack \in Pids =>
       /\ pc[stack] # "wait"
       /\ Live(stack)
       /\ pc[stack] # "switched" => current_pid = stack
       /\ pc[stack] \in {"user", "alloc"} => user_page = stack /\ esp0 = stack
       /\ pc[stack] \in {"map", "load"} => user_page = child[stack]
       /\ pc[stack] \in {"picked", "switched"} =>
            /\ target[stack] \in Pids
            /\ process_queue[target[stack]] = SCHEDULED
            /\ user_page = target[stack]
            /\ esp0 = target[stack]
       /\ pc[stack] = "switched" => current_pid = target[stack]

\* Every terminal has exactly one foreground process.
FrontInv ==
  \A t \in Roots : \E p \in Pids : \A q \in Pids :
    (Front(q) /\ term_num[q] = t) <=> q = p

\* The images, including those of a load in progress.
ImageInv ==
  /\ \A r \in Roots : image_lo[r] = Shell /\ image_hi[r] = Shell
  /\ \A p \in Pids :
       /\ pc[p] \in {"map", "load"} => prog[p] \in Programs
       /\ pc[p] = "load" => image_lo[child[p]] = prog[p]
       /\ pc[p] \in Late \cup {"loaded", "q1"} =>
            image_lo[child[p]] = prog[p] /\ image_hi[child[p]] = prog[p]

IInv ==
  /\ TypeOK /\ RootsInv /\ ChildInv /\ LauncherInv
  /\ ContextInv /\ CpuInv /\ FrontInv /\ ImageInv

-----------------------------------------------------------------------------
(* Lemmas.                                                                  *)

\* The slot arithmetic of sched stays within the table.
LEMMA SlotInPids ==
  ASSUME current_pid \in PidOrNone, NEW i \in 1..(PROCESS_NUM - 1)
  PROVE  Slot(i) \in Pids
<1>1. current_pid + i \in Int /\ PROCESS_NUM \in Nat \ {0}
  BY ConstantsAssumption DEF PidOrNone, Pids, NONE
<1> QED
  BY <1>1 DEF Slot, Pids

\* Every other slot is reached by the search loop.
LEMMA SlotReached ==
  ASSUME current_pid \in Pids, NEW q \in Pids, q # current_pid
  PROVE  \E i \in 1..(PROCESS_NUM - 1) : Slot(i) = q
<1>1. PROCESS_NUM \in Nat /\ PROCESS_NUM >= 2
  BY ConstantsAssumption
<1>2. q % PROCESS_NUM = q /\ (q + PROCESS_NUM) % PROCESS_NUM = q
  BY <1>1 DEF Pids
<1>3. CASE q > current_pid
  <2>1. q - current_pid \in 1..(PROCESS_NUM - 1) /\ current_pid + (q - current_pid) = q
    BY <1>1, <1>3 DEF Pids
  <2> QED
    BY <1>2, <2>1 DEF Slot
<1>4. CASE q < current_pid
  <2> DEFINE i == q - current_pid + PROCESS_NUM
  <2>1. i \in 1..(PROCESS_NUM - 1) /\ current_pid + i = q + PROCESS_NUM
    BY <1>1, <1>4 DEF Pids
  <2> QED
    BY <1>2, <2>1 DEF Slot
<1> QED
  BY <1>3, <1>4 DEF Pids

\* When some other process is scheduled, the search of sched ends at a
\* scheduled process.
LEMMA PicksScheduled ==
  ASSUME current_pid \in Pids,
         NEW q \in Pids, q # current_pid, process_queue[q] = SCHEDULED,
         NEW p, Picks(p)
  PROVE  p \in Pids /\ process_queue[p] = SCHEDULED
<1> DEFINE found == {i \in 1..(PROCESS_NUM - 1) : process_queue[Slot(i)] = SCHEDULED}
<1>1. found # {}
  BY SlotReached
<1>2. PICK i \in found : p = Slot(i)
  BY <1>1 DEF Picks
<1> QED
  BY <1>2, SlotInPids DEF PidOrNone

\* Each terminal has a foreground process, and there are two terminals: unless
\* it is in the middle of handing over, a process is never alone.
LEMMA AnotherIsScheduled ==
  ASSUME IInv, stack \in Pids, pc[stack] # "q1"
  PROVE  \E q \in Pids : q # stack /\ process_queue[q] = SCHEDULED
<1>1. 0 \in Roots /\ 1 \in Roots
  BY ConstantsAssumption DEF Roots
<1>2. PICK p \in Pids : Front(p) /\ term_num[p] = 0
  BY <1>1 DEF IInv, FrontInv
<1>3. PICK q \in Pids : Front(q) /\ term_num[q] = 1
  BY <1>1 DEF IInv, FrontInv
<1> QED
  BY <1>2, <1>3 DEF Front

\* The foreground is unchanged.
LEMMA FrontKept ==
  ASSUME FrontInv,
         \A q \in Pids : /\ Front(q)' <=> Front(q)
                         /\ Front(q) => term_num'[q] = term_num[q]
  PROVE  FrontInv'
<1> SUFFICES ASSUME NEW t \in Roots
             PROVE  \E p \in Pids : \A q \in Pids :
                      (Front(q)' /\ term_num'[q] = t) <=> q = p
  BY DEF FrontInv
<1>1. PICK p \in Pids : \A q \in Pids : (Front(q) /\ term_num[q] = t) <=> q = p
  BY DEF FrontInv
<1> QED
  BY <1>1

\* The foreground of one terminal moves from a to b.
LEMMA FrontMoved ==
  ASSUME FrontInv,
         NEW a \in Pids, NEW b \in Pids, a # b,
         Front(a), ~Front(b),
         term_num'[b] = term_num[a],
         \A q \in Pids : Front(q)' <=> (q = b \/ (q # a /\ Front(q))),
         \A q \in Pids : q # b => term_num'[q] = term_num[q]
  PROVE  FrontInv'
<1> SUFFICES ASSUME NEW t \in Roots
             PROVE  \E p \in Pids : \A q \in Pids :
                      (Front(q)' /\ term_num'[q] = t) <=> q = p
  BY DEF FrontInv
<1>1. PICK p \in Pids : \A q \in Pids : (Front(q) /\ term_num[q] = t) <=> q = p
  BY DEF FrontInv
<1>2. CASE p = a
  <2>1. \A q \in Pids : (Front(q)' /\ term_num'[q] = t) <=> q = b
    BY <1>1, <1>2
  <2> QED
    BY <2>1
<1>3. CASE p # a
  <2>1. \A q \in Pids : (Front(q)' /\ term_num'[q] = t) <=> q = p
    BY <1>1, <1>3
  <2> QED
    BY <2>1
<1> QED
  BY <1>2, <1>3

-----------------------------------------------------------------------------
(* Steps.                                                                   *)

\* A step execute keeps the invariant.
LEMMA Step_execute ==
  ASSUME IInv, execute
  PROVE  IInv'
<1> USE ConstantsAssumption DEF IInv, At, Goto, Live, Early, Late, SafePoints,
      pcbs, images, cpu, locals, NONE, Pids, Roots, PidOrNone, Points, ExecPoints, NOT_LOADED, LOADED, SCHEDULED
<1>1. TypeOK'
  BY DEF TypeOK, RootsInv, ChildInv, LauncherInv, ContextInv, CpuInv, execute, FirstFree
<1>2. RootsInv'
  BY DEF TypeOK, RootsInv, ChildInv, LauncherInv, ContextInv, CpuInv, execute, FirstFree
<1>3. ChildInv'
  BY DEF TypeOK, RootsInv, ChildInv, LauncherInv, ContextInv, CpuInv, execute, FirstFree
<1>4. LauncherInv'
  BY DEF TypeOK, RootsInv, ChildInv, LauncherInv, ContextInv, CpuInv, execute, FirstFree
<1>5. ContextInv'
  BY DEF TypeOK, RootsInv, ChildInv, LauncherInv, ContextInv, CpuInv, execute, FirstFree
<1>6. CpuInv'
  BY DEF TypeOK, RootsInv, ChildInv, LauncherInv, ContextInv, CpuInv, execute, FirstFree
<1>7. FrontInv'
  BY FrontKept DEF TypeOK, RootsInv, ChildInv, LauncherInv, ContextInv, CpuInv, Front, execute, FirstFree
<1>8. ImageInv'
  BY DEF TypeOK, RootsInv, ChildInv, LauncherInv, ContextInv, CpuInv, ImageInv, execute, FirstFree
<1> QED
  BY <1>1, <1>2, <1>3, <1>4, <1>5, <1>6, <1>7, <1>8

\* A step execute_invalid keeps the invariant.
LEMMA Step_execute_invalid ==
  ASSUME IInv, execute_invalid
  PROVE  IInv'
<1> USE ConstantsAssumption DEF IInv, At, Goto, Live, Early, Late, SafePoints,
      pcbs, images, cpu, locals, NONE, Pids, Roots, PidOrNone, Points, ExecPoints, NOT_LOADED, LOADED, SCHEDULED
<1>1. TypeOK'
  BY DEF TypeOK, RootsInv, ChildInv, LauncherInv, ContextInv, CpuInv, execute_invalid
<1>2. RootsInv'
  BY DEF TypeOK, RootsInv, ChildInv, LauncherInv, ContextInv, CpuInv, execute_invalid
<1>3. ChildInv'
  BY DEF TypeOK, RootsInv, ChildInv, LauncherInv, ContextInv, CpuInv, execute_invalid
<1>4. LauncherInv'
  BY DEF TypeOK, RootsInv, ChildInv, LauncherInv, ContextInv, CpuInv, execute_invalid
<1>5. ContextInv'
  BY DEF TypeOK, RootsInv, ChildInv, LauncherInv, ContextInv, CpuInv, execute_invalid
<1>6. CpuInv'
  BY DEF TypeOK, RootsInv, ChildInv, LauncherInv, ContextInv, CpuInv, execute_invalid
<1>7. FrontInv'
  BY FrontKept DEF TypeOK, RootsInv, ChildInv, LauncherInv, ContextInv, CpuInv, Front, execute_invalid
<1>8. ImageInv'
  BY DEF TypeOK, RootsInv, ChildInv, LauncherInv, ContextInv, CpuInv, ImageInv, execute_invalid
<1> QED
  BY <1>1, <1>2, <1>3, <1>4, <1>5, <1>6, <1>7, <1>8

\* A step execute_map keeps the invariant.
LEMMA Step_execute_map ==
  ASSUME IInv, execute_map
  PROVE  IInv'
<1> USE ConstantsAssumption DEF IInv, At, Goto, Live, Early, Late, SafePoints,
      pcbs, images, cpu, locals, NONE, Pids, Roots, PidOrNone, Points, ExecPoints, NOT_LOADED, LOADED, SCHEDULED
<1>1. TypeOK'
  BY DEF TypeOK, RootsInv, ChildInv, LauncherInv, ContextInv, CpuInv, execute_map
<1>2. RootsInv'
  BY DEF TypeOK, RootsInv, ChildInv, LauncherInv, ContextInv, CpuInv, execute_map
<1>3. ChildInv'
  BY DEF TypeOK, RootsInv, ChildInv, LauncherInv, ContextInv, CpuInv, execute_map
<1>4. LauncherInv'
  BY DEF TypeOK, RootsInv, ChildInv, LauncherInv, ContextInv, CpuInv, execute_map
<1>5. ContextInv'
  BY DEF TypeOK, RootsInv, ChildInv, LauncherInv, ContextInv, CpuInv, execute_map
<1>6. CpuInv'
  BY DEF TypeOK, RootsInv, ChildInv, LauncherInv, ContextInv, CpuInv, execute_map
<1>7. FrontInv'
  BY FrontKept DEF TypeOK, RootsInv, ChildInv, LauncherInv, ContextInv, CpuInv, Front, execute_map
<1>8. ImageInv'
  BY DEF TypeOK, RootsInv, ChildInv, LauncherInv, ContextInv, CpuInv, ImageInv, execute_map
<1> QED
  BY <1>1, <1>2, <1>3, <1>4, <1>5, <1>6, <1>7, <1>8

\* A step program_load_first keeps the invariant.
LEMMA Step_program_load_first ==
  ASSUME IInv, program_load_first
  PROVE  IInv'
<1> USE ConstantsAssumption DEF IInv, At, Goto, Live, Early, Late, SafePoints,
      pcbs, images, cpu, locals, NONE, Pids, Roots, PidOrNone, Points, ExecPoints, NOT_LOADED, LOADED, SCHEDULED
<1>1. TypeOK'
  BY DEF TypeOK, RootsInv, ChildInv, LauncherInv, ContextInv, CpuInv, program_load_first
<1>2. RootsInv'
  BY DEF TypeOK, RootsInv, ChildInv, LauncherInv, ContextInv, CpuInv, program_load_first
<1>3. ChildInv'
  BY DEF TypeOK, RootsInv, ChildInv, LauncherInv, ContextInv, CpuInv, program_load_first
<1>4. LauncherInv'
  BY DEF TypeOK, RootsInv, ChildInv, LauncherInv, ContextInv, CpuInv, program_load_first
<1>5. ContextInv'
  BY DEF TypeOK, RootsInv, ChildInv, LauncherInv, ContextInv, CpuInv, program_load_first
<1>6. CpuInv'
  BY DEF TypeOK, RootsInv, ChildInv, LauncherInv, ContextInv, CpuInv, program_load_first
<1>7. FrontInv'
  BY FrontKept DEF TypeOK, RootsInv, ChildInv, LauncherInv, ContextInv, CpuInv, Front, program_load_first
<1>8. ImageInv'
  BY DEF TypeOK, RootsInv, ChildInv, LauncherInv, ContextInv, CpuInv, ImageInv, program_load_first
<1> QED
  BY <1>1, <1>2, <1>3, <1>4, <1>5, <1>6, <1>7, <1>8

\* A step program_load_rest keeps the invariant.
LEMMA Step_program_load_rest ==
  ASSUME IInv, program_load_rest
  PROVE  IInv'
<1> USE ConstantsAssumption DEF IInv, At, Goto, Live, Early, Late, SafePoints,
      pcbs, images, cpu, locals, NONE, Pids, Roots, PidOrNone, Points, ExecPoints, NOT_LOADED, LOADED, SCHEDULED
<1>1. TypeOK'
  BY DEF TypeOK, RootsInv, ChildInv, LauncherInv, ContextInv, CpuInv, program_load_rest
<1>2. RootsInv'
  BY DEF TypeOK, RootsInv, ChildInv, LauncherInv, ContextInv, CpuInv, program_load_rest
<1>3. ChildInv'
  BY DEF TypeOK, RootsInv, ChildInv, LauncherInv, ContextInv, CpuInv, program_load_rest
<1>4. LauncherInv'
  BY DEF TypeOK, RootsInv, ChildInv, LauncherInv, ContextInv, CpuInv, program_load_rest
<1>5. ContextInv'
  BY DEF TypeOK, RootsInv, ChildInv, LauncherInv, ContextInv, CpuInv, program_load_rest
<1>6. CpuInv'
  BY DEF TypeOK, RootsInv, ChildInv, LauncherInv, ContextInv, CpuInv, program_load_rest
<1>7. FrontInv'
  BY FrontKept DEF TypeOK, RootsInv, ChildInv, LauncherInv, ContextInv, CpuInv, Front, program_load_rest
<1>8. ImageInv'
  BY DEF TypeOK, RootsInv, ChildInv, LauncherInv, ContextInv, CpuInv, ImageInv, program_load_rest
<1> QED
  BY <1>1, <1>2, <1>3, <1>4, <1>5, <1>6, <1>7, <1>8

\* A step execute_dequeue_parent keeps the invariant.
LEMMA Step_execute_dequeue_parent ==
  ASSUME IInv, execute_dequeue_parent
  PROVE  IInv'
<1> USE ConstantsAssumption DEF IInv, At, Goto, Live, Early, Late, SafePoints,
      pcbs, images, cpu, locals, NONE, Pids, Roots, PidOrNone, Points, ExecPoints, NOT_LOADED, LOADED, SCHEDULED
<1>1. TypeOK'
  BY DEF TypeOK, RootsInv, ChildInv, LauncherInv, ContextInv, CpuInv, execute_dequeue_parent
<1>2. RootsInv'
  BY DEF TypeOK, RootsInv, ChildInv, LauncherInv, ContextInv, CpuInv, execute_dequeue_parent
<1>3. ChildInv'
  BY DEF TypeOK, RootsInv, ChildInv, LauncherInv, ContextInv, CpuInv, execute_dequeue_parent
<1>4. LauncherInv'
  BY DEF TypeOK, RootsInv, ChildInv, LauncherInv, ContextInv, CpuInv, execute_dequeue_parent
<1>5. ContextInv'
  BY DEF TypeOK, RootsInv, ChildInv, LauncherInv, ContextInv, CpuInv, execute_dequeue_parent
<1>6. CpuInv'
  BY DEF TypeOK, RootsInv, ChildInv, LauncherInv, ContextInv, CpuInv, execute_dequeue_parent
<1>7. FrontInv'
  BY FrontKept DEF TypeOK, RootsInv, ChildInv, LauncherInv, ContextInv, CpuInv, Front, execute_dequeue_parent
<1>8. ImageInv'
  BY DEF TypeOK, RootsInv, ChildInv, LauncherInv, ContextInv, CpuInv, ImageInv, execute_dequeue_parent
<1> QED
  BY <1>1, <1>2, <1>3, <1>4, <1>5, <1>6, <1>7, <1>8

\* A step execute_enqueue_child keeps the invariant.
LEMMA Step_execute_enqueue_child ==
  ASSUME IInv, execute_enqueue_child
  PROVE  IInv'
<1> USE ConstantsAssumption DEF IInv, At, Goto, Live, Early, Late, SafePoints,
      pcbs, images, cpu, locals, NONE, Pids, Roots, PidOrNone, Points, ExecPoints, NOT_LOADED, LOADED, SCHEDULED
<1>1. TypeOK'
  BY DEF TypeOK, RootsInv, ChildInv, LauncherInv, ContextInv, CpuInv, execute_enqueue_child
<1>2. RootsInv'
  BY DEF TypeOK, RootsInv, ChildInv, LauncherInv, ContextInv, CpuInv, execute_enqueue_child
<1>3. ChildInv'
  BY DEF TypeOK, RootsInv, ChildInv, LauncherInv, ContextInv, CpuInv, execute_enqueue_child
<1>4. LauncherInv'
  BY DEF TypeOK, RootsInv, ChildInv, LauncherInv, ContextInv, CpuInv, execute_enqueue_child
<1>5. ContextInv'
  BY DEF TypeOK, RootsInv, ChildInv, LauncherInv, ContextInv, CpuInv, execute_enqueue_child
<1>6. CpuInv'
  BY DEF TypeOK, RootsInv, ChildInv, LauncherInv, ContextInv, CpuInv, execute_enqueue_child
<1>7. FrontInv'
  <2>1. PICK a \in Pids, b \in Pids :
          /\ a = stack /\ b = child[stack] /\ a # b
          /\ Front(a) /\ ~Front(b) /\ term_num'[b] = term_num[a]
    BY DEF LauncherInv, CpuInv, Front, execute_enqueue_child
  <2>2. \A q \in Pids : Front(q)' <=> (q = b \/ (q # a /\ Front(q)))
    BY <2>1 DEF TypeOK, LauncherInv, CpuInv, Front, execute_enqueue_child
  <2>3. \A q \in Pids : q # b => term_num'[q] = term_num[q]
    BY DEF execute_enqueue_child
  <2> QED
    BY <2>1, <2>2, <2>3, FrontMoved
<1>8. ImageInv'
  BY DEF TypeOK, RootsInv, ChildInv, LauncherInv, ContextInv, CpuInv, ImageInv, execute_enqueue_child
<1> QED
  BY <1>1, <1>2, <1>3, <1>4, <1>5, <1>6, <1>7, <1>8

\* A step execute_save_base keeps the invariant.
LEMMA Step_execute_save_base ==
  ASSUME IInv, execute_save_base
  PROVE  IInv'
<1> USE ConstantsAssumption DEF IInv, At, Goto, Live, Early, Late, SafePoints,
      pcbs, images, cpu, locals, NONE, Pids, Roots, PidOrNone, Points, ExecPoints, NOT_LOADED, LOADED, SCHEDULED
<1>1. TypeOK'
  BY DEF TypeOK, RootsInv, ChildInv, LauncherInv, ContextInv, CpuInv, execute_save_base
<1>2. RootsInv'
  BY DEF TypeOK, RootsInv, ChildInv, LauncherInv, ContextInv, CpuInv, execute_save_base
<1>3. ChildInv'
  BY DEF TypeOK, RootsInv, ChildInv, LauncherInv, ContextInv, CpuInv, execute_save_base
<1>4. LauncherInv'
  BY DEF TypeOK, RootsInv, ChildInv, LauncherInv, ContextInv, CpuInv, execute_save_base
<1>5. ContextInv'
  BY DEF TypeOK, RootsInv, ChildInv, LauncherInv, ContextInv, CpuInv, execute_save_base
<1>6. CpuInv'
  BY DEF TypeOK, RootsInv, ChildInv, LauncherInv, ContextInv, CpuInv, execute_save_base
<1>7. FrontInv'
  BY FrontKept DEF TypeOK, RootsInv, ChildInv, LauncherInv, ContextInv, CpuInv, Front, execute_save_base
<1>8. ImageInv'
  BY DEF TypeOK, RootsInv, ChildInv, LauncherInv, ContextInv, CpuInv, ImageInv, execute_save_base
<1> QED
  BY <1>1, <1>2, <1>3, <1>4, <1>5, <1>6, <1>7, <1>8

\* A step execute_set_current keeps the invariant.
LEMMA Step_execute_set_current ==
  ASSUME IInv, execute_set_current
  PROVE  IInv'
<1> USE ConstantsAssumption DEF IInv, At, Goto, Live, Early, Late, SafePoints,
      pcbs, images, cpu, locals, NONE, Pids, Roots, PidOrNone, Points, ExecPoints, NOT_LOADED, LOADED, SCHEDULED
<1>1. TypeOK'
  BY DEF TypeOK, RootsInv, ChildInv, LauncherInv, ContextInv, CpuInv, execute_set_current
<1>2. RootsInv'
  BY DEF TypeOK, RootsInv, ChildInv, LauncherInv, ContextInv, CpuInv, execute_set_current
<1>3. ChildInv'
  BY SMTT(30) DEF TypeOK, RootsInv, ChildInv, LauncherInv, ContextInv, CpuInv, execute_set_current
<1>4. LauncherInv'
  BY DEF TypeOK, RootsInv, ChildInv, LauncherInv, ContextInv, CpuInv, execute_set_current
<1>5. ContextInv'
  BY DEF TypeOK, RootsInv, ChildInv, LauncherInv, ContextInv, CpuInv, execute_set_current
<1>6. CpuInv'
  BY DEF TypeOK, RootsInv, ChildInv, LauncherInv, ContextInv, CpuInv, execute_set_current
<1>7. FrontInv'
  BY FrontKept DEF TypeOK, RootsInv, ChildInv, LauncherInv, ContextInv, CpuInv, Front, execute_set_current
<1>8. ImageInv'
  BY DEF TypeOK, RootsInv, ChildInv, LauncherInv, ContextInv, CpuInv, ImageInv, execute_set_current
<1> QED
  BY <1>1, <1>2, <1>3, <1>4, <1>5, <1>6, <1>7, <1>8

\* A step execute_sched keeps the invariant.
LEMMA Step_execute_sched ==
  ASSUME IInv, execute_sched
  PROVE  IInv'
<1> USE ConstantsAssumption DEF IInv, At, Goto, Live, Early, Late, SafePoints,
      pcbs, images, cpu, locals, NONE, Pids, Roots, PidOrNone, Points, ExecPoints, NOT_LOADED, LOADED, SCHEDULED
<1>0. \A p \in Pids : Picks(p) => process_queue[p] = SCHEDULED
  <2>1. current_pid = stack /\ stack \in Pids /\ pc[stack] # "q1"
    BY DEF TypeOK, RootsInv, ChildInv, LauncherInv, ContextInv, CpuInv, execute_sched
  <2> QED
    BY <2>1, AnotherIsScheduled, PicksScheduled
<1>1. TypeOK'
  BY <1>0, SMTT(30) DEF TypeOK, RootsInv, ChildInv, LauncherInv, ContextInv, CpuInv, execute_sched, MapsTo, Saved
<1>2. RootsInv'
  BY <1>0 DEF TypeOK, RootsInv, ChildInv, LauncherInv, ContextInv, CpuInv, execute_sched, MapsTo, Saved
<1>3. ChildInv'
  BY <1>0 DEF TypeOK, RootsInv, ChildInv, LauncherInv, ContextInv, CpuInv, execute_sched, MapsTo, Saved
<1>4. LauncherInv'
  BY <1>0 DEF TypeOK, RootsInv, ChildInv, LauncherInv, ContextInv, CpuInv, execute_sched, MapsTo, Saved
<1>5. ContextInv'
  BY <1>0 DEF TypeOK, RootsInv, ChildInv, LauncherInv, ContextInv, CpuInv, execute_sched, MapsTo, Saved
<1>6. CpuInv'
  BY <1>0 DEF TypeOK, RootsInv, ChildInv, LauncherInv, ContextInv, CpuInv, execute_sched, MapsTo, Saved
<1>7. FrontInv'
  BY FrontKept DEF TypeOK, RootsInv, ChildInv, LauncherInv, ContextInv, CpuInv, Front, execute_sched, MapsTo, Saved
<1>8. ImageInv'
  BY <1>0 DEF TypeOK, RootsInv, ChildInv, LauncherInv, ContextInv, CpuInv, ImageInv, execute_sched, MapsTo, Saved
<1> QED
  BY <1>1, <1>2, <1>3, <1>4, <1>5, <1>6, <1>7, <1>8

\* A step execute_switch keeps the invariant.
LEMMA Step_execute_switch ==
  ASSUME IInv, execute_switch
  PROVE  IInv'
<1> USE ConstantsAssumption DEF IInv, At, Goto, Live, Early, Late, SafePoints,
      pcbs, images, cpu, locals, NONE, Pids, Roots, PidOrNone, Points, ExecPoints, NOT_LOADED, LOADED, SCHEDULED
<1> DEFINE t == target[stack]
<1>0. /\ stack \in Pids /\ pc[stack] = "switched"
      /\ t \in Pids /\ t # stack /\ process_queue[t] = SCHEDULED /\ pc[t] = "user"
      /\ stack' = t
      /\ pc' = [pc EXCEPT ![stack] = "wait"]
      /\ masked' \subseteq Pids
      /\ target' = [target EXCEPT ![stack] = NONE]
      /\ user_page = t /\ esp0 = t /\ current_pid = t
      /\ UNCHANGED <<process_queue, pcbs, images, current_pid, user_page, esp0, child, prog>>
  <2>1. /\ stack \in Pids /\ pc[stack] = "switched" /\ process_queue[stack] = LOADED
        /\ t \in Pids /\ process_queue[t] = SCHEDULED
        /\ user_page = t /\ esp0 = t /\ current_pid = t
    BY DEF LauncherInv, CpuInv, execute_switch
  <2>2. pc[t] = "user" /\ sched_bp[t] \in {NONE, t}
    BY <2>1 DEF LauncherInv, ContextInv
  <2> DEFINE pcs == [pc EXCEPT ![stack] = "wait"]
  <2>3. t # stack /\ pcs[t] = "user" /\ pcs = [pcs EXCEPT ![t] = "user"]
    BY <2>1, <2>2, ZenonT(30) DEF TypeOK
  <2>4. Resume(t, sched_bp, pcs, stack \notin masked)
    BY DEF execute_switch
  <2> HIDE DEF pcs, t
  <2>5. pc' = pcs /\ stack' = t /\ masked' \subseteq Pids
    <3>1. CASE sched_bp[t] = NONE
      <4>1. stack' = t
        BY <2>4, <3>1 DEF Resume
      <4>2. pc' = [pcs EXCEPT ![t] = "user"]
        BY <2>4, <3>1 DEF Resume
      <4>3. masked' = IF stack \notin masked THEN masked \ {t} ELSE masked \cup {t}
        BY <2>4, <3>1 DEF Resume
      <4> QED
        BY <2>1, <2>3, <4>1, <4>2, <4>3 DEF TypeOK
    <3>2. CASE sched_bp[t] = t
      <4>1. sched_bp[t] # NONE
        BY <2>1, <3>2
      <4>2. stack' = sched_bp[t] /\ masked' = masked
        BY <2>4, <4>1 DEF Resume
      <4>3. pc' = IF pcs[sched_bp[t]] = "wait"
                  THEN [pcs EXCEPT ![sched_bp[t]] = "user"] ELSE pcs
        BY <2>4, <4>1 DEF Resume
      <4> QED
        BY <2>1, <2>3, <3>2, <4>2, <4>3 DEF TypeOK
    <3> QED
      BY <2>2, <3>1, <3>2
  <2> USE DEF pcs, t
  <2> QED
    BY <2>1, <2>2, <2>3, <2>5 DEF execute_switch
<1>1. TypeOK'
  BY <1>0 DEF TypeOK, RootsInv, ChildInv, LauncherInv, ContextInv, CpuInv, execute_switch, Resume
<1>2. RootsInv'
  BY <1>0 DEF TypeOK, RootsInv, ChildInv, LauncherInv, ContextInv, CpuInv, execute_switch, Resume
<1>3. ChildInv'
  BY <1>0 DEF TypeOK, RootsInv, ChildInv, LauncherInv, ContextInv, CpuInv, execute_switch, Resume
<1>4. LauncherInv'
  BY <1>0 DEF TypeOK, RootsInv, ChildInv, LauncherInv, ContextInv, CpuInv, execute_switch, Resume
<1>5. ContextInv'
  BY <1>0 DEF TypeOK, RootsInv, ChildInv, LauncherInv, ContextInv, CpuInv, execute_switch, Resume
<1>6. CpuInv'
  BY <1>0 DEF TypeOK, RootsInv, ChildInv, LauncherInv, ContextInv, CpuInv, execute_switch, Resume
<1>7. FrontInv'
  BY FrontKept DEF TypeOK, RootsInv, ChildInv, LauncherInv, ContextInv, CpuInv, Front, execute_switch, Resume
<1>8. ImageInv'
  BY <1>0 DEF TypeOK, RootsInv, ChildInv, LauncherInv, ContextInv, CpuInv, ImageInv, execute_switch, Resume
<1> QED
  BY <1>1, <1>2, <1>3, <1>4, <1>5, <1>6, <1>7, <1>8

\* The process that halts and the parent that launched it.
LEMMA HaltFacts ==
  ASSUME IInv, halt32
  PROVE  LET p == current_pid
             parent == parent_id[current_pid]
         IN  /\ p \in Pids \ Roots /\ p = stack
             /\ pc[p] = "user" /\ process_queue[p] = SCHEDULED
             /\ parent \in Pids /\ parent # p /\ child[parent] = p
             /\ pc[parent] \in {"based", "picked", "wait"} /\ process_queue[parent] = LOADED
             /\ term_num[p] = term_num[parent]
             /\ base_ptr[p] = parent
<1> USE ConstantsAssumption DEF IInv, At, Goto, Live, Early, Late, SafePoints,
      pcbs, images, cpu, locals, NONE, Pids, Roots, PidOrNone, Points, ExecPoints, NOT_LOADED, LOADED, SCHEDULED
<1> DEFINE p == current_pid
           parent == parent_id[current_pid]
<1>1. p = stack /\ p \in Pids \ Roots /\ pc[p] = "user" /\ process_queue[p] = SCHEDULED
  BY DEF TypeOK, RootsInv, LauncherInv, CpuInv, halt32, halt_ret
<1>2. parent \in Pids /\ child[parent] = p /\ pc[parent] \in Late
  BY <1>1 DEF ChildInv
<1> QED
  BY <1>1, <1>2 DEF ChildInv, LauncherInv, ContextInv

\* A step halt32 keeps the invariant.
LEMMA Step_halt32 ==
  ASSUME IInv, halt32
  PROVE  IInv'
<1> USE ConstantsAssumption DEF IInv, At, Goto, Live, Early, Late, SafePoints,
      pcbs, images, cpu, locals, NONE, Pids, Roots, PidOrNone, Points, ExecPoints, NOT_LOADED, LOADED, SCHEDULED
<1> DEFINE p == current_pid
           parent == parent_id[current_pid]
<1>0. /\ p \in Pids \ Roots /\ p = stack /\ pc[p] = "user" /\ process_queue[p] = SCHEDULED
      /\ parent \in Pids /\ parent # p /\ child[parent] = p
      /\ pc[parent] \in {"based", "picked", "wait"} /\ process_queue[parent] = LOADED
      /\ term_num[p] = term_num[parent]
      /\ base_ptr[p] = parent
  BY HaltFacts
<1>1. TypeOK'
  BY <1>0 DEF TypeOK, RootsInv, ChildInv, LauncherInv, ContextInv, CpuInv, halt32, halt_ret, MapsTo
<1>2. RootsInv'
  BY <1>0 DEF TypeOK, RootsInv, ChildInv, LauncherInv, ContextInv, CpuInv, halt32, halt_ret, MapsTo
<1>3. ChildInv'
  BY <1>0 DEF TypeOK, RootsInv, ChildInv, LauncherInv, ContextInv, CpuInv, halt32, halt_ret, MapsTo
<1>4. LauncherInv'
  BY <1>0 DEF TypeOK, RootsInv, ChildInv, LauncherInv, ContextInv, CpuInv, halt32, halt_ret, MapsTo
<1>5. ContextInv'
  BY <1>0 DEF TypeOK, RootsInv, ChildInv, LauncherInv, ContextInv, CpuInv, halt32, halt_ret, MapsTo
<1>6. CpuInv'
  BY <1>0 DEF TypeOK, RootsInv, ChildInv, LauncherInv, ContextInv, CpuInv, halt32, halt_ret, MapsTo
<1>7. FrontInv'
  <2>1. PICK a \in Pids, b \in Pids :
          /\ a = p /\ b = parent /\ a # b
          /\ Front(a) /\ ~Front(b) /\ term_num'[b] = term_num[a]
    BY <1>0 DEF Front, halt32, halt_ret
  <2>2. \A q \in Pids : Front(q)' <=> (q = b \/ (q # a /\ Front(q)))
    BY <1>0, <2>1 DEF TypeOK, Front, halt32, halt_ret
  <2>3. \A q \in Pids : q # b => term_num'[q] = term_num[q]
    BY DEF halt32, halt_ret
  <2> QED
    BY <2>1, <2>2, <2>3, FrontMoved
<1>8. ImageInv'
  BY <1>0 DEF TypeOK, RootsInv, ChildInv, LauncherInv, ContextInv, CpuInv, ImageInv, halt32, halt_ret, MapsTo
<1> QED
  BY <1>1, <1>2, <1>3, <1>4, <1>5, <1>6, <1>7, <1>8

\* A step halt32_shell keeps the invariant.
LEMMA Step_halt32_shell ==
  ASSUME IInv, halt32_shell
  PROVE  IInv'
<1> USE ConstantsAssumption DEF IInv, At, Goto, Live, Early, Late, SafePoints,
      pcbs, images, cpu, locals, NONE, Pids, Roots, PidOrNone, Points, ExecPoints, NOT_LOADED, LOADED, SCHEDULED
<1>1. TypeOK'
  BY DEF TypeOK, RootsInv, ChildInv, LauncherInv, ContextInv, CpuInv, halt32_shell, RestartShell
<1>2. RootsInv'
  BY DEF TypeOK, RootsInv, ChildInv, LauncherInv, ContextInv, CpuInv, halt32_shell, RestartShell
<1>3. ChildInv'
  BY DEF TypeOK, RootsInv, ChildInv, LauncherInv, ContextInv, CpuInv, halt32_shell, RestartShell
<1>4. LauncherInv'
  BY DEF TypeOK, RootsInv, ChildInv, LauncherInv, ContextInv, CpuInv, halt32_shell, RestartShell
<1>5. ContextInv'
  BY DEF TypeOK, RootsInv, ChildInv, LauncherInv, ContextInv, CpuInv, halt32_shell, RestartShell
<1>6. CpuInv'
  BY DEF TypeOK, RootsInv, ChildInv, LauncherInv, ContextInv, CpuInv, halt32_shell, RestartShell
<1>7. FrontInv'
  BY FrontKept DEF TypeOK, RootsInv, ChildInv, LauncherInv, ContextInv, CpuInv, Front, halt32_shell, RestartShell
<1>8. ImageInv'
  BY DEF TypeOK, RootsInv, ChildInv, LauncherInv, ContextInv, CpuInv, ImageInv, halt32_shell, RestartShell
<1> QED
  BY <1>1, <1>2, <1>3, <1>4, <1>5, <1>6, <1>7, <1>8

\* A step exception_shell keeps the invariant.
LEMMA Step_exception_shell ==
  ASSUME IInv, exception_shell
  PROVE  IInv'
<1> USE ConstantsAssumption DEF IInv, At, Goto, Live, Early, Late, SafePoints,
      pcbs, images, cpu, locals, NONE, Pids, Roots, PidOrNone, Points, ExecPoints, NOT_LOADED, LOADED, SCHEDULED
<1>1. TypeOK'
  BY DEF TypeOK, RootsInv, ChildInv, LauncherInv, ContextInv, CpuInv, exception_shell, int_gate, RestartShell
<1>2. RootsInv'
  BY DEF TypeOK, RootsInv, ChildInv, LauncherInv, ContextInv, CpuInv, exception_shell, RestartShell
<1>3. ChildInv'
  BY DEF TypeOK, RootsInv, ChildInv, LauncherInv, ContextInv, CpuInv, exception_shell, RestartShell
<1>4. LauncherInv'
  BY DEF TypeOK, RootsInv, ChildInv, LauncherInv, ContextInv, CpuInv, exception_shell, RestartShell
<1>5. ContextInv'
  BY DEF TypeOK, RootsInv, ChildInv, LauncherInv, ContextInv, CpuInv, exception_shell, RestartShell
<1>6. CpuInv'
  BY DEF TypeOK, RootsInv, ChildInv, LauncherInv, ContextInv, CpuInv, exception_shell, RestartShell
<1>7. FrontInv'
  BY FrontKept DEF TypeOK, RootsInv, ChildInv, LauncherInv, ContextInv, CpuInv, Front, exception_shell, RestartShell
<1>8. ImageInv'
  BY DEF TypeOK, RootsInv, ChildInv, LauncherInv, ContextInv, CpuInv, ImageInv, exception_shell, RestartShell
<1> QED
  BY <1>1, <1>2, <1>3, <1>4, <1>5, <1>6, <1>7, <1>8

\* A timer tick hands over to a scheduled process.
LEMMA TickPicks ==
  ASSUME TickPoints \subseteq SafePoints, IInv, pit_int, NEW p \in Pids, Picks(p)
  PROVE  process_queue[p] = SCHEDULED
<1>1. current_pid = stack /\ stack \in Pids /\ pc[stack] # "q1"
  BY DEF IInv, CpuInv, SafePoints, At, pit_int
<1> QED
  BY <1>1, AnotherIsScheduled, PicksScheduled

\* A step pit_int keeps the invariant.
LEMMA Step_pit_int ==
  ASSUME TickPoints \subseteq SafePoints, IInv, pit_int
  PROVE  IInv'
<1> USE ConstantsAssumption DEF IInv, At, Goto, Live, Early, Late, SafePoints,
      pcbs, images, cpu, locals, NONE, Pids, Roots, PidOrNone, Points, ExecPoints, NOT_LOADED, LOADED, SCHEDULED
<1>0. \A p \in Pids : Picks(p) => process_queue[p] = SCHEDULED
  BY TickPicks
<1>a. masked' \subseteq Pids
  BY DEF TypeOK, pit_int, sched, Resume
<1>1. TypeOK'
  BY <1>0, <1>a, SMTT(30) DEF TypeOK, RootsInv, ChildInv, LauncherInv, ContextInv, CpuInv, pit_int, sched, Resume, Saved, MapsTo
<1>2. RootsInv'
  BY <1>0 DEF TypeOK, RootsInv, ChildInv, LauncherInv, ContextInv, CpuInv, pit_int, sched, Resume, Saved, MapsTo
<1>3. ChildInv'
  BY <1>0, SMTT(30) DEF TypeOK, RootsInv, ChildInv, LauncherInv, ContextInv, CpuInv, pit_int, sched, Resume, Saved, MapsTo
<1>4. LauncherInv'
  BY <1>0, SMTT(30) DEF TypeOK, RootsInv, ChildInv, LauncherInv, ContextInv, CpuInv, pit_int, sched, Resume, Saved, MapsTo
<1>5. ContextInv'
  BY <1>0, SMTT(30) DEF TypeOK, RootsInv, ChildInv, LauncherInv, ContextInv, CpuInv, pit_int, sched, Resume, Saved, MapsTo
<1>6. CpuInv'
  BY <1>0 DEF TypeOK, RootsInv, ChildInv, LauncherInv, ContextInv, CpuInv, pit_int, sched, Resume, Saved, MapsTo
<1>7. FrontInv'
  BY FrontKept DEF TypeOK, RootsInv, ChildInv, LauncherInv, ContextInv, CpuInv, Front, pit_int, sched, Resume, Saved, MapsTo
<1>8. ImageInv'
  BY <1>0 DEF TypeOK, RootsInv, ChildInv, LauncherInv, ContextInv, CpuInv, ImageInv, pit_int, sched, Resume, Saved, MapsTo
<1> QED
  BY <1>1, <1>2, <1>3, <1>4, <1>5, <1>6, <1>7, <1>8

\* The first context switch hands over to a shell.
LEMMA EntryPicks ==
  ASSUME IInv, entry, NEW p \in Pids, Picks(p)
  PROVE  process_queue[p] = SCHEDULED
<1> USE ConstantsAssumption DEF NONE, Pids, Roots
<1>1. current_pid = -1 /\ 1 \in 1..(PROCESS_NUM - 1)
  BY DEF entry
<1>2. 0 % PROCESS_NUM = 0 /\ current_pid + 1 = 0
  BY <1>1
<1>3. Slot(1) = 0
  BY <1>2 DEF Slot
<1>4. process_queue[0] = SCHEDULED
  BY DEF IInv, TypeOK, RootsInv, LauncherInv, CpuInv, Live, entry
<1> QED
  BY <1>1, <1>3, <1>4 DEF Picks

\* The first context switch, from the boot stack to the first shell.
LEMMA Step_entry ==
  ASSUME IInv, entry
  PROVE  IInv'
<1> USE ConstantsAssumption DEF IInv, At, Goto, Live, Early, Late, SafePoints,
      pcbs, images, cpu, locals, NONE, Pids, Roots, PidOrNone, Points, ExecPoints, NOT_LOADED, LOADED, SCHEDULED
<1>0. \A p \in Pids : Picks(p) => process_queue[p] = SCHEDULED
  BY EntryPicks
<1>a. masked' \subseteq Pids
  BY ZenonT(30) DEF TypeOK, entry, sched, Resume
<1>1. TypeOK'
  BY <1>0, <1>a DEF TypeOK, RootsInv, ChildInv, LauncherInv, ContextInv, CpuInv, entry, sched, Resume, Saved, MapsTo
<1>2. RootsInv'
  BY <1>0 DEF TypeOK, RootsInv, ChildInv, LauncherInv, ContextInv, CpuInv, entry, sched, Resume, Saved, MapsTo
<1>3. ChildInv'
  BY <1>0 DEF TypeOK, RootsInv, ChildInv, LauncherInv, ContextInv, CpuInv, entry, sched, Resume, Saved, MapsTo
<1>4. LauncherInv'
  BY <1>0 DEF TypeOK, RootsInv, ChildInv, LauncherInv, ContextInv, CpuInv, entry, sched, Resume, Saved, MapsTo
<1>5. ContextInv'
  BY <1>0 DEF TypeOK, RootsInv, ChildInv, LauncherInv, ContextInv, CpuInv, entry, sched, Resume, Saved, MapsTo
<1>6. CpuInv'
  BY <1>0 DEF TypeOK, RootsInv, ChildInv, LauncherInv, ContextInv, CpuInv, entry, sched, Resume, Saved, MapsTo
<1>7. FrontInv'
  BY FrontKept DEF TypeOK, RootsInv, ChildInv, LauncherInv, ContextInv, CpuInv, Front, entry, sched, Resume, Saved, MapsTo
<1>8. ImageInv'
  BY <1>0 DEF TypeOK, RootsInv, ChildInv, LauncherInv, ContextInv, CpuInv, ImageInv, entry, sched, Resume, Saved, MapsTo
<1> QED
  BY <1>1, <1>2, <1>3, <1>4, <1>5, <1>6, <1>7, <1>8

\* Boot establishes the invariant.
LEMMA InitIInv ==
  ASSUME Init
  PROVE  IInv
<1> USE ConstantsAssumption DEF Init, Live, Early, Late, SafePoints, NONE, Pids, Roots,
      PidOrNone, Points, ExecPoints, NOT_LOADED, LOADED, SCHEDULED
<1>0. /\ \A r \in Roots : r \in Pids /\ process_queue[r] = SCHEDULED /\ image_lo[r] = Shell
      /\ \A p \in Pids : pc[p] = "user" /\ (p \notin Roots => process_queue[p] = NOT_LOADED)
  <2>1. \A r \in Roots : r \in Pids
    OBVIOUS
  <2>2. \A r \in Roots : process_queue[r] = SCHEDULED /\ image_lo[r] = Shell
    BY <2>1
  <2>3. \A p \in Pids : pc[p] = "user" /\ (p \notin Roots => process_queue[p] = NOT_LOADED)
    OBVIOUS
  <2> QED
    BY <2>1, <2>2, <2>3
<1>1. TypeOK
  BY DEF TypeOK
<1>2. RootsInv
  BY <1>0 DEF RootsInv
<1>3. ChildInv
  BY <1>0 DEF ChildInv
<1>4. LauncherInv
  BY <1>0 DEF LauncherInv
<1>5. ContextInv /\ CpuInv
  BY DEF ContextInv, CpuInv
<1>6. FrontInv
  <2>1. \A q \in Pids, t \in Roots : (Front(q) /\ term_num[q] = t) <=> q = t
    BY <1>0 DEF Front
  <2>2. SUFFICES ASSUME NEW t \in Roots
                 PROVE  \E p \in Pids : \A q \in Pids :
                          (Front(q) /\ term_num[q] = t) <=> q = p
    BY DEF FrontInv
  <2>3. t \in Pids /\ \A q \in Pids : (Front(q) /\ term_num[q] = t) <=> q = t
    BY <1>0, <2>1
  <2> HIDE DEF Pids
  <2> QED
    BY <2>3
<1>7. ImageInv
  BY <1>0 DEF ImageInv
<1> QED
  BY <1>1, <1>2, <1>3, <1>4, <1>5, <1>6, <1>7 DEF IInv

\* Every step, stuttering included, keeps the invariant.
LEMMA NextIInv ==
  ASSUME TickPoints \subseteq SafePoints, IInv, [Next]_vars
  PROVE  IInv'
<1>1. CASE entry
  BY <1>1, Step_entry
<1>2. CASE pit_int
  BY <1>2, Step_pit_int
<1>3. CASE execute
  BY <1>3, Step_execute
<1>4. CASE ExecuteStep
  BY <1>4, Step_execute_invalid, Step_execute_map, Step_program_load_first,
     Step_program_load_rest, Step_execute_dequeue_parent, Step_execute_enqueue_child,
     Step_execute_save_base, Step_execute_sched, Step_execute_set_current,
     Step_execute_switch DEF ExecuteStep
<1>5. CASE halt32
  BY <1>5, Step_halt32
<1>6. CASE halt32_shell
  BY <1>6, Step_halt32_shell
<1>7. CASE exception_shell
  BY <1>7, Step_exception_shell
<1>8. CASE UNCHANGED vars
  BY <1>8 DEF IInv, TypeOK, RootsInv, ChildInv, LauncherInv, ContextInv, CpuInv,
     FrontInv, Front, ImageInv, Live, vars, pcbs, images, cpu, locals
<1> QED
  BY <1>1, <1>2, <1>3, <1>4, <1>5, <1>6, <1>7, <1>8 DEF Next

-----------------------------------------------------------------------------
(* Theorems.                                                                *)

\* The inductive invariant holds throughout every safe instance.
THEOREM Invariance ==
  ASSUME TickPoints \subseteq SafePoints
  PROVE  Spec => []IInv
<1>1. Init => IInv
  BY InitIInv
<1>2. IInv /\ [Next]_vars => IInv'
  BY NextIInv
<1> QED
  BY <1>1, <1>2, PTL DEF Spec

\* Type correctness.
THEOREM TypeCorrect ==
  ASSUME TickPoints \subseteq SafePoints
  PROVE  Spec => []TypeOK
<1>1. IInv => TypeOK
  BY DEF IInv
<1> QED
  BY <1>1, Invariance, PTL

\* Program code runs on its own stack, page and PCB (set_tss, page_map and the
\* cur_pid that sched, execute and halt32 leave behind).
THEOREM OwnContext ==
  ASSUME TickPoints \subseteq SafePoints
  PROVE  Spec => []RunsInOwnContext
<1>1. IInv => RunsInOwnContext
  BY DEF IInv, CpuInv, RunsInOwnContext, At
<1> QED
  BY <1>1, Invariance, PTL

\* What sched_bp holds of a process that sched may pick is the process's own
\* frame: the switch back to it resumes nobody else's call.
THEOREM SavedContext ==
  ASSUME TickPoints \subseteq SafePoints
  PROVE  Spec => []SavedContextIsOwn
<1>1. IInv => SavedContextIsOwn
  <2> SUFFICES ASSUME IInv, NEW p \in Pids, process_queue[p] = SCHEDULED, p # stack
               PROVE  sched_bp[p] \in {NONE, p} /\ pc[p] = "user"
    BY DEF SavedContextIsOwn
  <2> QED
    BY DEF IInv, ContextInv, LauncherInv, Live, Late, SafePoints, NOT_LOADED, LOADED, SCHEDULED
<1> QED
  BY <1>1, Invariance, PTL

\* Each terminal has exactly one foreground process.
THEOREM UniqueForeground ==
  ASSUME TickPoints \subseteq SafePoints
  PROVE  Spec => []OneForegroundPerTerminal
<1>1. IInv => OneForegroundPerTerminal
  <2> SUFFICES ASSUME IInv, ~At("q1")
               PROVE  \A t \in Roots : \E p \in Pids : \A q \in Pids :
                        (process_queue[q] = SCHEDULED /\ term_num[q] = t) <=> q = p
    BY DEF OneForegroundPerTerminal
  <2>1. \A q \in Pids : Front(q) <=> process_queue[q] = SCHEDULED
    BY DEF Front, At
  <2> QED
    BY <2>1 DEF IInv, FrontInv
<1> QED
  BY <1>1, Invariance, PTL

\* get_available_pid never gives one slot to two calls of execute.
THEOREM UniquePids ==
  ASSUME TickPoints \subseteq SafePoints
  PROVE  Spec => []PidsAreUnique
<1>1. IInv => PidsAreUnique
  <2> SUFFICES ASSUME IInv, NEW v \in Pids, NEW w \in Pids
               PROVE  /\ child[v] # NONE /\ child[v] = child[w] => v = w
                      /\ pc[v] \in Early \cup {"q1"} => process_queue[child[v]] = NOT_LOADED
    BY DEF PidsAreUnique, Early
  <2>1. pc[v] \in Points /\ pc[w] \in Points
    BY DEF IInv, TypeOK
  <2> QED
    BY <2>1 DEF IInv, LauncherInv, ContextInv, Early, Late, Live, SafePoints, Points, ExecPoints
<1> QED
  BY <1>1, Invariance, PTL

\* A process waiting for its child has one.
THEOREM ChildIsAlive ==
  ASSUME TickPoints \subseteq SafePoints
  PROVE  Spec => []LoadedHasLiveChild
<1>1. IInv => LoadedHasLiveChild
  <2> SUFFICES ASSUME IInv, NEW p \in Pids, process_queue[p] = LOADED
               PROVE  \/ p = stack /\ pc[p] = "q1"
                      \/ \E c \in Pids : parent_id[c] = p /\ process_queue[c] # NOT_LOADED
    BY DEF LoadedHasLiveChild
  <2>1. pc[p] \in Late \/ (p = stack /\ pc[p] = "q1")
    BY DEF IInv, TypeOK, LauncherInv, ContextInv, Early, Late, SafePoints, Points, ExecPoints,
       LOADED, SCHEDULED
  <2>2. pc[p] \in Late => child[p] \in Pids /\ parent_id[child[p]] = p /\ Live(child[p])
    BY DEF IInv, LauncherInv, Late
  <2> QED
    BY <2>1, <2>2 DEF Live
<1> QED
  BY <1>1, Invariance, PTL

\* Loading a program damages no other, and every process has its whole image.
THEOREM ImagesIntact ==
  ASSUME TickPoints \subseteq SafePoints
  PROVE  Spec => []ImageIntact
<1>1. IInv => ImageIntact
  BY DEF IInv, ImageInv, ImageIntact, Late
<1> QED
  BY <1>1, Invariance, PTL

\* Only a scheduled process is given the processor.
THEOREM SwitchIsSafe ==
  ASSUME TickPoints \subseteq SafePoints
  PROVE  Spec => SwitchesToScheduled
<1>1. IInv /\ [Next]_vars
        => [current_pid' # current_pid => process_queue'[current_pid'] = SCHEDULED]_vars
  <2> SUFFICES ASSUME IInv, Next, current_pid' # current_pid
               PROVE  process_queue'[current_pid'] = SCHEDULED
    BY DEF vars
  <2>1. CASE entry
    BY <2>1, EntryPicks DEF entry, sched
  <2>2. CASE pit_int
    BY <2>2, TickPicks DEF pit_int, sched
  <2>3. CASE execute_set_current
    BY <2>3 DEF IInv, CpuInv, At, execute_set_current
  <2>4. CASE halt32
    <3>1. current_pid' \in Pids /\ process_queue' \in [Pids -> {NOT_LOADED, LOADED, SCHEDULED}]
      BY <2>4, HaltFacts DEF halt32, halt_ret, IInv, TypeOK, NOT_LOADED, LOADED, SCHEDULED
    <3> QED
      BY <2>4, <3>1, HaltFacts DEF halt32, halt_ret, IInv, TypeOK
  <2>5. CASE halt32_shell \/ exception_shell
    <3>1. current_pid = stack /\ stack \in Pids /\ pc[stack] = "user"
      BY <2>5 DEF IInv, CpuInv, At, halt32_shell, exception_shell, RestartShell
    <3>2. stack \in Roots
      BY <2>5, <3>1 DEF IInv, CpuInv, ChildInv, Pids, NONE,
         halt32_shell, exception_shell, RestartShell
    <3> QED
      BY <2>5, <3>1, <3>2 DEF IInv, RootsInv, halt32_shell, exception_shell, RestartShell
  <2>6. CASE execute \/ (ExecuteStep /\ ~execute_set_current)
    BY <2>6 DEF execute, ExecuteStep, execute_invalid, execute_map, program_load_first,
       program_load_rest, execute_dequeue_parent, execute_enqueue_child, execute_save_base,
       execute_sched, execute_switch, cpu
  <2> QED
    BY <2>1, <2>2, <2>3, <2>4, <2>5, <2>6 DEF Next
<1> QED
  BY <1>1, Invariance, PTL DEF Spec, SwitchesToScheduled

\* A process that ends returns control to the call of execute that launched it.
THEOREM HaltReturns ==
  ASSUME TickPoints \subseteq SafePoints
  PROVE  Spec => HaltReturnsToLauncher
<1> DEFINE Returns(p) ==
             process_queue[p] = SCHEDULED /\ process_queue'[p] = NOT_LOADED
               => /\ stack' = parent_id[p]
                  /\ child[parent_id[p]] = p
                  /\ pc[parent_id[p]] \in {"based", "picked", "wait"}
                  /\ pc'[parent_id[p]] = "user"
<1>1. IInv /\ [Next]_vars => [\A p \in Pids : Returns(p)]_vars
  <2> SUFFICES ASSUME IInv, Next, NEW p \in Pids,
                      process_queue[p] = SCHEDULED, process_queue'[p] = NOT_LOADED
               PROVE  Returns(p)
    BY DEF vars
  <2>1. process_queue \in [Pids -> {NOT_LOADED, LOADED, SCHEDULED}]
    BY DEF IInv, TypeOK
  <2>2. CASE halt32
    <3>1. p = current_pid
      BY <2>1, <2>2, HaltFacts DEF halt32, halt_ret, NOT_LOADED, SCHEDULED
    <3> QED
      BY <2>2, <3>1, HaltFacts DEF halt32, halt_ret
  <2>3. CASE ~halt32
    BY <2>1, <2>3 DEF Next, entry, pit_int, sched, execute, ExecuteStep, execute_invalid,
       execute_map, program_load_first, program_load_rest, execute_dequeue_parent,
       execute_enqueue_child, execute_save_base, execute_sched, execute_set_current,
       execute_switch, halt32_shell, exception_shell, RestartShell,
       NOT_LOADED, LOADED, SCHEDULED
  <2> QED
    BY <2>2, <2>3
<1> QED
  BY <1>1, Invariance, PTL DEF Spec, HaltReturnsToLauncher

-----------------------------------------------------------------------------
(* Scheduler implements Jobs.                                               *)

\* The state of Jobs that a state of the scheduler stands for.
FrontOf(t) == CHOOSE p \in Pids : Front(p) /\ term_num[p] = t
Fronts == [t \in Roots |-> FrontOf(t)]
Under == [p \in Pids |-> IF p \in LivePids THEN parent_id[p] ELSE NONE]

\* The front of a terminal is the one process that satisfies its definition.
LEMMA FrontIs ==
  ASSUME FrontInv, NEW t \in Roots, NEW p \in Pids, Front(p), term_num[p] = t
  PROVE  FrontOf(t) = p
<1>1. PICK f \in Pids : \A q \in Pids : (Front(q) /\ term_num[q] = t) <=> q = f
  BY DEF FrontInv
<1> QED
  BY <1>1 DEF FrontOf

\* Every terminal has a front.
LEMMA FrontExists ==
  ASSUME FrontInv, NEW t \in Roots
  PROVE  FrontOf(t) \in Pids /\ Front(FrontOf(t)) /\ term_num[FrontOf(t)] = t
<1>1. PICK f \in Pids : Front(f) /\ term_num[f] = t
  BY DEF FrontInv
<1> QED
  BY <1>1 DEF FrontOf

\* Steps that change no foreground leave the map of fronts alone.
LEMMA FrontsKept ==
  ASSUME FrontInv, FrontInv',
         \A q \in Pids : Front(q) => Front(q)' /\ term_num'[q] = term_num[q]
  PROVE  Fronts' = Fronts
<1> SUFFICES ASSUME NEW t \in Roots
             PROVE  FrontOf(t)' = FrontOf(t)
  BY DEF Fronts
<1>1. PICK p \in Pids : p = FrontOf(t) /\ Front(p) /\ term_num[p] = t
  BY FrontExists
<1>2. Front(p)' /\ term_num'[p] = t
  BY <1>1
<1>3. PICK f \in Pids : \A q \in Pids : (Front(q)' /\ term_num'[q] = t) <=> q = f
  BY DEF FrontInv
<1>4. FrontOf(t)' = p
  BY <1>2, <1>3 DEF FrontOf
<1> QED
  BY <1>1, <1>4

\* A handover in one terminal changes the map of fronts there and nowhere else.
LEMMA FrontsMoved ==
  ASSUME FrontInv, FrontInv',
         NEW a \in Pids, NEW b \in Pids, NEW u \in Roots,
         Front(a), term_num[a] = u, Front(b)', term_num'[b] = u,
         \A q \in Pids : q # a /\ Front(q) => Front(q)' /\ term_num'[q] = term_num[q]
  PROVE  /\ Fronts[u] = a
         /\ Fronts' = [Fronts EXCEPT ![u] = b]
<1>1. FrontOf(u) = a
  BY FrontIs
<1>2. FrontOf(u)' = b
  <2>1. PICK f \in Pids : \A q \in Pids : (Front(q)' /\ term_num'[q] = u) <=> q = f
    BY DEF FrontInv
  <2> QED
    BY <2>1 DEF FrontOf
<1>3. ASSUME NEW t \in Roots, t # u
      PROVE  FrontOf(t)' = FrontOf(t)
  <2>1. PICK p \in Pids : p = FrontOf(t) /\ Front(p) /\ term_num[p] = t
    BY FrontExists
  <2>2. Front(p)' /\ term_num'[p] = t
    BY <1>3, <2>1
  <2>3. PICK f \in Pids : \A q \in Pids : (Front(q)' /\ term_num'[q] = t) <=> q = f
    BY DEF FrontInv
  <2>4. FrontOf(t)' = p
    BY <2>2, <2>3 DEF FrontOf
  <2> QED
    BY <2>1, <2>4
<1>4. \A t \in Roots : Fronts[t] = FrontOf(t) /\ Fronts'[t] = FrontOf(t)'
  BY DEF Fronts
<1> QED
  BY <1>1, <1>2, <1>3, <1>4 DEF Fronts

\* Launching: the step that queues the child.
LEMMA LaunchStep ==
  ASSUME IInv, IInv', execute_enqueue_child
  PROVE  \E u \in Roots : \E c \in Pids \ LivePids :
           /\ LivePids' = LivePids \cup {c}
           /\ Under' = [Under EXCEPT ![c] = Fronts[u]]
           /\ Fronts' = [Fronts EXCEPT ![u] = c]
<1> USE DEF IInv, At, Live, Late, NOT_LOADED, LOADED, SCHEDULED
<1>1. PICK a \in Pids, b \in Pids, u \in Roots :
        /\ a = stack /\ b = child[stack] /\ a # b /\ pc[a] = "q1" /\ term_num[a] = u
        /\ process_queue[b] = NOT_LOADED /\ parent_id[b] = a /\ term_num[b] = u
        /\ process_queue[a] = LOADED
  BY DEF TypeOK, RootsInv, ChildInv, LauncherInv, CpuInv, execute_enqueue_child
<1>2. /\ process_queue' = [process_queue EXCEPT ![b] = SCHEDULED]
      /\ UNCHANGED <<parent_id, term_num, stack>>
  BY <1>1 DEF execute_enqueue_child, pcbs, cpu
<1>3. Front(a) /\ Front(b)' /\ term_num'[b] = u
  BY <1>1, <1>2 DEF TypeOK, Front
<1>4. \A q \in Pids : q # a /\ Front(q) => Front(q)' /\ term_num'[q] = term_num[q]
  BY <1>1, <1>2 DEF TypeOK, Front
<1>5. Fronts[u] = a /\ Fronts' = [Fronts EXCEPT ![u] = b]
  BY <1>1, <1>3, <1>4, FrontsMoved
<1>6. b \in Pids \ LivePids /\ LivePids' = LivePids \cup {b}
  BY <1>1, <1>2 DEF TypeOK, LivePids
<1>7. Under' = [Under EXCEPT ![b] = a]
  BY <1>1, <1>2, <1>6 DEF Under
<1> QED
  BY <1>5, <1>6, <1>7

\* Ending: halt32.
LEMMA EndStep ==
  ASSUME IInv, IInv', halt32
  PROVE  \E u \in Roots :
           /\ Under[Fronts[u]] # NONE
           /\ LivePids' = LivePids \ {Fronts[u]}
           /\ Under' = [Under EXCEPT ![Fronts[u]] = NONE]
           /\ Fronts' = [Fronts EXCEPT ![u] = Under[Fronts[u]]]
<1> USE DEF IInv, Live, Late, NOT_LOADED, LOADED, SCHEDULED
<1>1. PICK a \in Pids, b \in Pids, u \in Roots :
        /\ a = current_pid /\ b = parent_id[a] /\ a # b /\ a \notin Roots
        /\ term_num[a] = u /\ term_num[b] = u /\ b # NONE
        /\ process_queue[a] = SCHEDULED /\ process_queue[b] = LOADED
        /\ a = stack /\ pc[a] = "user" /\ pc[b] # "q1"
  BY HaltFacts DEF ChildInv, Pids, NONE
<1>2. /\ process_queue' = [process_queue EXCEPT ![a] = NOT_LOADED, ![b] = SCHEDULED]
      /\ UNCHANGED <<parent_id, term_num>>
      /\ stack' = b
      /\ pc' = [q \in Pids |-> IF q = b THEN "user" ELSE pc[q]]
  BY <1>1, HaltFacts DEF halt32, halt_ret, pcbs
<1>3. Front(a) /\ Front(b)' /\ term_num'[b] = u
  BY <1>1, <1>2 DEF TypeOK, Front
<1>4. \A q \in Pids : q # a /\ Front(q) => Front(q)' /\ term_num'[q] = term_num[q]
  BY <1>1, <1>2 DEF TypeOK, Front
<1>5. Fronts[u] = a /\ Fronts' = [Fronts EXCEPT ![u] = b]
  BY <1>1, <1>3, <1>4, FrontsMoved
<1>6. a \in LivePids /\ LivePids' = LivePids \ {a}
  BY <1>1, <1>2 DEF TypeOK, LivePids
<1>7. Under[a] = b /\ Under' = [Under EXCEPT ![a] = NONE]
  BY <1>1, <1>2, <1>6 DEF Under
<1> QED
  BY <1>1, <1>5, <1>6, <1>7

\* Every other step is invisible to Jobs.
LEMMA SilentStep ==
  ASSUME TickPoints \subseteq SafePoints, IInv, IInv',
         [Next]_vars, ~execute_enqueue_child, ~halt32
  PROVE  UNCHANGED <<Fronts, LivePids, Under>>
<1> USE DEF IInv, At, Goto, Live, Early, Late, NOT_LOADED, LOADED, SCHEDULED,
      pcbs, images, cpu, locals
<1>1. /\ \A q \in Pids : (process_queue'[q] = NOT_LOADED) <=> (process_queue[q] = NOT_LOADED)
      /\ \A q \in LivePids : parent_id'[q] = parent_id[q]
      /\ \A q \in Pids : Front(q) => Front(q)' /\ term_num'[q] = term_num[q]
  <2>1. CASE execute
    BY <2>1 DEF execute, FirstFree, TypeOK, LivePids, Front
  <2>2. CASE execute_dequeue_parent
    BY <2>2 DEF execute_dequeue_parent, TypeOK, LauncherInv, LivePids, Front
  <2>3. CASE \/ entry \/ pit_int \/ halt32_shell \/ exception_shell
             \/ execute_invalid \/ execute_map \/ program_load_first \/ program_load_rest
             \/ execute_save_base \/ execute_sched \/ execute_set_current \/ execute_switch
    <3>1. UNCHANGED <<process_queue, parent_id, term_num>>
      BY <2>3 DEF entry, pit_int, sched, halt32_shell, exception_shell, RestartShell,
         execute_invalid, execute_map, program_load_first, program_load_rest,
         execute_save_base, execute_sched, execute_set_current, execute_switch
    <3>2. ~(stack \in Pids /\ pc[stack] = "q1")
      BY <2>3 DEF entry, pit_int, halt32_shell, exception_shell, RestartShell,
         execute_invalid, execute_map, program_load_first, program_load_rest,
         execute_save_base, execute_sched, execute_set_current, execute_switch,
         SafePoints, NONE, Pids
    <3> QED
      BY <3>1, <3>2 DEF Front
  <2>4. CASE UNCHANGED vars
    BY <2>4 DEF vars, Front
  <2> QED
    BY <2>1, <2>2, <2>3, <2>4 DEF Next, ExecuteStep
<1>2. LivePids' = LivePids
  BY <1>1 DEF LivePids
<1>3. Fronts' = Fronts
  BY <1>1, FrontsKept
<1>4. Under' = Under
  BY <1>1, <1>2 DEF Under
<1> QED
  BY <1>2, <1>3, <1>4

\* Scheduler implements Jobs: each terminal is a stack of programs.
THEOREM Refinement ==
  ASSUME TickPoints \subseteq SafePoints
  PROVE  Spec => ImplementsJobs
<1>1. Init => J!Init
  <2> SUFFICES ASSUME Init
               PROVE  Fronts = [t \in Roots |-> t] /\ LivePids = Roots
                      /\ Under = [p \in Pids |-> NONE]
    BY DEF J!Init, Fronts, FrontOf, Under
  <2>1. IInv
    BY InitIInv
  <2>2. \A r \in Roots : r \in Pids
    BY ConstantsAssumption DEF Roots, Pids
  <2>3. \A t \in Roots : FrontOf(t) = t
    <3>1. \A t \in Roots : Front(t) /\ term_num[t] = t
      BY <2>2 DEF Init, Front
    <3> QED
      BY <2>1, <2>2, <3>1, FrontIs DEF IInv
  <2>4. LivePids = Roots
    BY <2>2 DEF Init, LivePids, NOT_LOADED, SCHEDULED
  <2>5. Under = [p \in Pids |-> NONE]
    BY DEF Init, Under
  <2> QED
    BY <2>3, <2>4, <2>5 DEF Fronts
<1>2. IInv /\ IInv' /\ [Next]_vars => [J!Next]_<<Fronts, LivePids, Under>>
  <2> SUFFICES ASSUME IInv, IInv', [Next]_vars
               PROVE  [J!Next]_<<Fronts, LivePids, Under>>
    OBVIOUS
  <2>1. CASE execute_enqueue_child
    BY <2>1, LaunchStep DEF J!Next, J!Launch, Fronts, FrontOf, Under
  <2>2. CASE halt32
    BY <2>2, EndStep DEF J!Next, J!End, Fronts, FrontOf, Under
  <2>3. CASE ~execute_enqueue_child /\ ~halt32
    BY <2>3, SilentStep
  <2> QED
    BY <2>1, <2>2, <2>3
<1>3. [J!Next]_<<Fronts, LivePids, Under>> =>
        [J!Next]_<<[t \in Roots |-> CHOOSE p \in Pids : Front(p) /\ term_num[p] = t],
                   LivePids,
                   [p \in Pids |-> IF p \in LivePids THEN parent_id[p] ELSE NONE]>>
  BY DEF Fronts, FrontOf, Under
<1> QED
  BY <1>1, <1>2, <1>3, Invariance, PTL DEF Spec, ImplementsJobs, J!Spec

=============================================================================
