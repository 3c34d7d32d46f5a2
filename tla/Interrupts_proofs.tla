---------------------------- MODULE Interrupts_proofs ----------------------------
(***************************************************************************)
(* Every line in service belongs to one handler that will run again, for   *)
(* any number of slots and terminals and any depth of nesting, when no key *)
(* arrives in the last part of execute and of entry (KeyInLaunch).         *)
(*                                                                         *)
(* Which handler may lie under another decides it.  A handler that has not *)
(* set the interrupt flag is the innermost one, and so is a timer handler  *)
(* that owes its end of interrupt, as line 0 keeps every other line out.   *)
(* A stack that loses its frames, or that sched leaves for good, therefore *)
(* owes at most what its innermost handler owes, except for keyboard       *)
(* handlers, and those are not on such a stack.                            *)
(***************************************************************************)
EXTENDS Interrupts, TLAPS

\* entry until the first sched: when the flag is off, when the timer is masked,
\* when there are processes; nothing is left of its stack afterwards.
BootInv ==
  /\ running # NONE => ctx[NONE] = "sched" /\ frames[NONE] = <<>>
  /\ ctx[NONE] \in {"i8259_init", "keyboard_init", "rtc_set_freq", "init_shells", "pit_init", "sti"}
       => ~enabled /\ frames[NONE] = <<>>
  /\ ctx[NONE] \notin {"i8259_init", "sti", "sched"} => PIT_IRQ \in mask.master
  /\ ctx[NONE] \notin {"pit_init", "sti", "sched"} => \A p \in Pids : ctx[p] = "free" /\ launcher[p] = NONE
  /\ ctx[NONE] # "sched" => \A k \in 1..Len(frames[NONE]) : frames[NONE][k].irq # PIT_IRQ

\* The slots: who is scheduled, who runs, who waits for whom.
ProcInv ==
  /\ \A p \in Pids : p \in scheduled <=> ctx[p] \in {"user", "call"}
  /\ running # NONE => ctx[running] \in {"user", "call", "exec"}
  /\ \A p \in Pids : ctx[p] \in {"free", "wait"} => frames[p] = <<>>
  /\ \A p \in Pids : ctx[p] = "free" => launcher[p] = NONE
  /\ \A p \in Pids : launcher[p] # NONE => ctx[launcher[p]] \in {"exec", "wait"}
  /\ \A p, q \in Pids : launcher[p] # NONE /\ launcher[p] = launcher[q] => p = q

\* No key is handled in the last part of execute and of entry.
LaunchInv ==
  \A p \in Stacks : ctx[p] \in {"exec", "sched"} =>
    \A k \in 1..Len(frames[p]) : frames[p][k].irq # KB_IRQ

\* A handler that another one may have interrupted, or that sched may have left.
Interruptible(f) ==
  \/ f.irq = PIT_IRQ /\ f.at \in {"sched", "iret"}
  \/ f.irq = KB_IRQ /\ f.at \in {"eoi", "iret"}

\* The innermost frame of the running stack.
Innermost(p, k) == p = running /\ k = Len(frames[p])

FrameInv ==
  \A p \in Stacks : \A k \in 1..Len(frames[p]) :
    IF Innermost(p, k)
    THEN /\ frames[p][k].at = "entry" => ~enabled
         /\ frames[p][k].irq = RTC_IRQ => frames[p][k].at = "entry"
         /\ frames[p][k].irq = KB_IRQ => frames[p][k].at # "sched"
    ELSE Interruptible(frames[p][k])

\* Some handler of interrupt i has not sent its end.
Owed(i) == \E p \in Stacks : Resumable(p) /\ \E k \in 1..Len(frames[p]) : Owes(p, k, i)

\* The lines in service and the handlers that owe their end.
ServiceInv ==
  /\ master_isr \subseteq {PIT_IRQ, KB_IRQ, SLAVE_IRQ}
  /\ slave_isr = IF SLAVE_IRQ \in master_isr THEN {RTC_IRQ - MIDDLE} ELSE {}
  /\ \A i \in Irqs : Line(i) \in master_isr <=> Owed(i)
  /\ \A p, q \in Stacks : \A k \in 1..Len(frames[p]), l \in 1..Len(frames[q]) :
       \A i \in Irqs : Owes(p, k, i) /\ Owes(q, l, i) => p = q /\ k = l

IInv == TypeOK /\ BootInv /\ ProcInv /\ LaunchInv /\ FrameInv /\ ServiceInv
USE DEF NONE, PIT_IRQ, KB_IRQ, SLAVE_IRQ, RTC_IRQ, MIDDLE

-----------------------------------------------------------------------------
(* The stack of the running process *)

\* Stacks are sequences of frames.
LEMMA FramesTyped ==
  ASSUME TypeOK
  PROVE  /\ \A p \in Stacks : frames[p] \in Seq(Frames) /\ Len(frames[p]) \in Nat
         /\ \A p \in Stacks : \A k \in 1..Len(frames[p]) : frames[p][k] \in Frames
<1>1. \A p \in Stacks : frames[p] \in Seq(Frames)
  BY DEF TypeOK
<1>2. \A s \in Seq(Frames) : Len(s) \in Nat /\ \A k \in 1..Len(s) : s[k] \in Frames
  OBVIOUS
<1> QED
  BY <1>1, <1>2

\* A handler that moves on changes the innermost frame alone.
LEMMA GotoFacts ==
  ASSUME TypeOK, NEW i \in Irqs, NEW x, NEW y \in {"entry", "eoi", "sched", "iret"},
         At(i, x), Goto(y)
  PROVE  /\ frames' \in [Stacks -> Seq(Frames)]
         /\ Len(frames[running]) \in Nat \ {0}
         /\ frames[running][Len(frames[running])].irq = i
         /\ frames[running][Len(frames[running])].at = x
         /\ frames'[running][Len(frames[running])].irq = i
         /\ frames'[running][Len(frames[running])].at = y
         /\ \A p \in Stacks : Len(frames'[p]) = Len(frames[p])
         /\ \A p \in Stacks : p # running => frames'[p] = frames[p]
         /\ \A k \in 1..Len(frames[running]) :
              k # Len(frames[running]) => frames'[running][k] = frames[running][k]
<1> DEFINE s == frames[running]
           n == Len(s)
           f == [s[n] EXCEPT !.at = y]
           t == [s EXCEPT ![n] = f]
<1>1. s \in Seq(Frames) /\ n \in Nat /\ s # <<>> /\ running \in Stacks
  BY DEF TypeOK, At, Stack
<1>2. n \in 1..n
  BY <1>1
<1>3. s[n] \in Frames /\ s[n] = [irq |-> i, at |-> x]
  BY <1>1, <1>2 DEF At, Stack, Top
<1>4. f \in Frames /\ f.irq = i /\ f.at = y
  BY <1>3 DEF Frames
<1>5. t \in Seq(Frames) /\ Len(t) = n /\ t[n] = f /\ \A k \in 1..n : k # n => t[k] = s[k]
  BY <1>1, <1>2, <1>4
<1>6. frames' = [frames EXCEPT ![running] = t]
  BY DEF Goto, Stack
<1>7. frames'[running] = t /\ \A p \in Stacks : p # running => frames'[p] = frames[p]
  BY <1>1, <1>6 DEF TypeOK
<1>8. frames' \in [Stacks -> Seq(Frames)]
  BY <1>1, <1>5, <1>6 DEF TypeOK
<1> HIDE DEF t, f
<1>9. \A p \in Stacks : Len(frames'[p]) = Len(frames[p])
  BY <1>5, <1>7
<1>10. n \in Nat \ {0}
  BY <1>1, <1>2
<1> QED
  BY <1>3, <1>4, <1>5, <1>7, <1>8, <1>9, <1>10

\* iret removes the innermost frame.
LEMMA iretFacts ==
  ASSUME TypeOK, NEW i \in Irqs, NEW x, At(i, x), iret
  PROVE  /\ frames' \in [Stacks -> Seq(Frames)]
         /\ Len(frames[running]) \in Nat \ {0}
         /\ frames[running][Len(frames[running])].irq = i
         /\ frames[running][Len(frames[running])].at = x
         /\ Len(frames'[running]) = Len(frames[running]) - 1
         /\ \A p \in Stacks : p # running => frames'[p] = frames[p]
         /\ \A k \in 1..Len(frames'[running]) : frames'[running][k] = frames[running][k]
<1> DEFINE s == frames[running]
           n == Len(s)
           t == SubSeq(s, 1, n - 1)
<1>1. s \in Seq(Frames) /\ n \in Nat /\ s # <<>> /\ running \in Stacks
  BY DEF TypeOK, At, Stack
<1>2. n \in 1..n
  BY <1>1
<1>3. s[n] = [irq |-> i, at |-> x]
  BY <1>1, <1>2 DEF At, Stack, Top
<1>4. t \in Seq(Frames) /\ Len(t) = n - 1 /\ \A k \in 1..(n - 1) : t[k] = s[k]
  BY <1>1, <1>2
<1>5. frames' = [frames EXCEPT ![running] = t]
  BY <1>1 DEF iret, TypeOK
<1>6. frames'[running] = t /\ \A p \in Stacks : p # running => frames'[p] = frames[p]
  BY <1>1, <1>5 DEF TypeOK
<1>7. frames' \in [Stacks -> Seq(Frames)]
  BY <1>1, <1>4, <1>5 DEF TypeOK
<1> HIDE DEF t
<1> QED
  BY <1>1, <1>2, <1>3, <1>4, <1>6, <1>7, SMTT(30)

\* An interrupt adds a frame.
LEMMA DeliverFacts ==
  ASSUME TypeOK, NEW i \in Irqs, Deliver(i)
  PROVE  /\ frames' \in [Stacks -> Seq(Frames)]
         /\ Len(frames'[running]) = Len(frames[running]) + 1
         /\ frames'[running][Len(frames[running]) + 1].irq = i
         /\ frames'[running][Len(frames[running]) + 1].at = "entry"
         /\ \A p \in Stacks : p # running => frames'[p] = frames[p]
         /\ \A k \in 1..Len(frames[running]) : frames'[running][k] = frames[running][k]
<1> DEFINE s == frames[running]
           n == Len(s)
           f == [irq |-> i, at |-> "entry"]
           t == Append(s, f)
<1>1. s \in Seq(Frames) /\ n \in Nat /\ running \in Stacks /\ f \in Frames
  BY DEF TypeOK, Frames, Irqs
<1>2. t \in Seq(Frames) /\ Len(t) = n + 1 /\ t[n + 1] = f /\ \A k \in 1..n : t[k] = s[k]
  BY <1>1
<1>3. frames' = [frames EXCEPT ![running] = t]
  BY <1>1 DEF Deliver, TypeOK
<1>4. frames'[running] = t /\ \A p \in Stacks : p # running => frames'[p] = frames[p]
  BY <1>1, <1>3 DEF TypeOK
<1>5. frames' \in [Stacks -> Seq(Frames)]
  BY <1>1, <1>2, <1>3 DEF TypeOK
<1> HIDE DEF t
<1> QED
  BY <1>1, <1>2, <1>4, <1>5

\* sched resumes a scheduled slot.
LEMMA SchedFacts ==
  ASSUME TypeOK, \E p \in Pids : sched(p)
  PROVE  running' \in scheduled /\ enabled' \in BOOLEAN /\ masked' \subseteq Pids
<1>1. PICK p \in Pids : sched(p)
  OBVIOUS
<1>2. running' = p /\ p \in scheduled
  BY <1>1 DEF sched, Picks
<1>3. enabled' \in BOOLEAN
  BY <1>1, Zenon DEF sched, TypeOK
<1>4. masked' \subseteq Pids
  BY <1>1 DEF sched, TypeOK
<1> QED
  BY <1>2, <1>3, <1>4

-----------------------------------------------------------------------------
(* Lines in service *)

\* The k-th frame of p is there and owes the end of interrupt i.
Pending(p, k, i) == k \in 1..Len(frames[p]) /\ Owes(p, k, i)

\* Who owes, in terms of Pending.
LEMMA OwedForm ==
  ASSUME NEW i
  PROVE  /\ Owed(i) <=> \E p \in Stacks : \E k : Resumable(p) /\ Pending(p, k, i)
         /\ Owed(i)' <=> \E p \in Stacks : \E k : Resumable(p)' /\ Pending(p, k, i)'
BY Zenon DEF Owed, Pending

\* A step that leaves the controllers alone and every pending frame where it is
\* must not lose a stack that owes.
LEMMA ServiceKept ==
  ASSUME ServiceInv, UNCHANGED <<master_isr, slave_isr>>,
         \A p \in Stacks, i \in Irqs : \A k : Pending(p, k, i)' <=> Pending(p, k, i),
         \A p \in Stacks, i \in Irqs : \A k :
           Pending(p, k, i) => (Resumable(p)' <=> Resumable(p))
  PROVE  ServiceInv'
<1>1. \A i \in Irqs : Owed(i)' <=> Owed(i)
  BY OwedForm, Zenon
<1>2. \A p, q \in Stacks, i \in Irqs : \A k, l : Pending(p, k, i) /\ Pending(q, l, i) => p = q /\ k = l
  BY Zenon DEF Pending, ServiceInv
<1>3. \A p, q \in Stacks, i \in Irqs : \A k, l :
        Pending(p, k, i)' /\ Pending(q, l, i)' => p = q /\ k = l
  BY <1>2
<1>4. \A i \in Irqs : (Line(i) \in master_isr)' <=> Owed(i)'
  BY <1>1 DEF ServiceInv, Line
<1>5. \A p, q \in Stacks : \A k \in 1..Len(frames'[p]), l \in 1..Len(frames'[q]) :
        \A i \in Irqs : Owes(p, k, i)' /\ Owes(q, l, i)' => p = q /\ k = l
  BY <1>3, Zenon DEF Pending
<1> QED
  BY <1>4, <1>5 DEF ServiceInv

\* The end of interrupt i, sent by the one handler that owes it.
LEMMA ServiceEnds ==
  ASSUME TypeOK, ServiceInv, NEW i \in Irqs, NEW n, Pending(running, n, i), send_eoi(i),
         UNCHANGED <<running, scheduled>>,
         \A p \in Stacks, j \in Irqs : \A k :
           Pending(p, k, j)' <=> Pending(p, k, j) /\ ~(p = running /\ k = n)
  PROVE  ServiceInv'
<1>1. running \in Stacks
  BY DEF TypeOK
<1>2. \A p, q \in Stacks, j \in Irqs : \A k, l : Pending(p, k, j) /\ Pending(q, l, j) => p = q /\ k = l
  BY Zenon DEF Pending, ServiceInv
<1>3. \A p, q \in Stacks, j \in Irqs : \A k, l :
        Pending(p, k, j)' /\ Pending(q, l, j)' => p = q /\ k = l
  BY <1>2
<1>4. ~Owed(i)'
  BY <1>1, <1>2, OwedForm
<1>5. \A j \in Irqs : j # i => ~Pending(running, n, j)
  BY DEF Pending, Owes
<1>6. \A p \in Stacks : Resumable(p)' <=> Resumable(p)
  BY DEF Resumable
<1>7. \A j \in Irqs : j # i => (Owed(j)' <=> Owed(j))
  BY <1>5, <1>6, OwedForm
<1>8. \A j \in Irqs : Line(j) \in master_isr' <=> Line(j) \in master_isr /\ j # i
  BY DEF send_eoi, Line, Irqs
<1>9. \A j \in Irqs : (Line(j) \in master_isr)' <=> Owed(j)'
  BY <1>4, <1>7, <1>8 DEF ServiceInv, Line
<1>10. \A p, q \in Stacks : \A k \in 1..Len(frames'[p]), l \in 1..Len(frames'[q]) :
         \A j \in Irqs : Owes(p, k, j)' /\ Owes(q, l, j)' => p = q /\ k = l
  BY <1>3, Zenon DEF Pending
<1>11. /\ master_isr' \subseteq {PIT_IRQ, KB_IRQ, SLAVE_IRQ}
       /\ slave_isr' = IF SLAVE_IRQ \in master_isr' THEN {RTC_IRQ - MIDDLE} ELSE {}
  <2>1. master_isr \subseteq {0, 1, 2} /\ slave_isr = IF 2 \in master_isr THEN {0} ELSE {}
    BY DEF ServiceInv
  <2>2. CASE i = RTC_IRQ
    <3>1. slave_isr' = slave_isr \ {0} /\ master_isr' = master_isr \ {2}
      BY <2>2 DEF send_eoi
    <3>2. slave_isr' = {}
      BY <2>1, <3>1
    <3> QED
      BY <2>1, <3>1, <3>2
  <2>3. CASE i \in {PIT_IRQ, KB_IRQ}
    <3>1. slave_isr' = slave_isr /\ master_isr' = master_isr \ {i} /\ i # 2
      BY <2>3 DEF send_eoi
    <3>2. 2 \in master_isr' <=> 2 \in master_isr
      BY <3>1
    <3>3. slave_isr' = IF 2 \in master_isr' THEN {0} ELSE {}
      BY <2>1, <3>1, <3>2
    <3>4. master_isr' \subseteq {0, 1, 2}
      BY <2>1, <3>1
    <3> QED
      BY <3>3, <3>4
  <2> QED
    BY <2>2, <2>3 DEF Irqs
<1> QED
  BY <1>9, <1>10, <1>11 DEF ServiceInv

\* Nothing is owed on a stack to which the processor does not come back.
LEMMA OwersRun ==
  ASSUME IInv, NEW p \in Stacks, NEW k, NEW i \in Irqs, Pending(p, k, i)
  PROVE  Resumable(p)
<1> SUFFICES ASSUME p # running, p \notin scheduled
             PROVE  FALSE
  BY DEF Resumable
<1>1. Interruptible(frames[p][k])
  BY DEF IInv, FrameInv, Innermost, Pending
<1>2. frames[p][k].irq = KB_IRQ
  BY <1>1 DEF Interruptible, Pending, Owes
<1>3. frames[p] # <<>>
  BY DEF Pending
<1>4. CASE p = NONE
  BY <1>3, <1>4 DEF IInv, BootInv
<1>5. CASE p \in Pids
  <2>1. ctx[p] = "exec"
    BY <1>3, <1>5 DEF IInv, ProcInv, TypeOK
  <2> QED
    BY <1>2, <2>1 DEF IInv, LaunchInv, Pending
<1> QED
  BY <1>4, <1>5 DEF Stacks

\* A request that the processor takes: its line was not in service.
LEMMA ServiceBegins ==
  ASSUME IInv, NEW i \in Irqs, NEW n \in Nat, Deliver(i),
         \A p \in Stacks, j \in Irqs : \A k :
           Pending(p, k, j)' <=> Pending(p, k, j) \/ (p = running /\ k = n /\ j = i)
  PROVE  ServiceInv'
<1>1. running \in Stacks
  BY DEF IInv, TypeOK
<1>2. \A p, q \in Stacks, j \in Irqs : \A k, l : Pending(p, k, j) /\ Pending(q, l, j) => p = q /\ k = l
  BY Zenon DEF Pending, ServiceInv, IInv
<1>3. Line(i) \notin master_isr
  BY DEF Deliver, Requested, Passes, Line, Irqs, IInv, ServiceInv
<1>4. ~Owed(i)
  BY <1>3 DEF IInv, ServiceInv
<1>5. \A p \in Stacks : \A k : ~Pending(p, k, i)
  BY <1>4, OwersRun, OwedForm
<1>6. \A p, q \in Stacks, j \in Irqs : \A k, l :
        Pending(p, k, j)' /\ Pending(q, l, j)' => p = q /\ k = l
  BY <1>2, <1>5
<1>7. \A p \in Stacks : Resumable(p)' <=> Resumable(p)
  BY DEF Resumable, Deliver, procs
<1>8. Owed(i)'
  BY <1>1, <1>7, OwedForm DEF Resumable
<1>9. \A j \in Irqs : j # i => (Owed(j)' <=> Owed(j))
  BY <1>7, OwedForm
<1>10. \A j \in Irqs : Line(j) \in master_isr' <=> Line(j) \in master_isr \/ j = i
  BY DEF Deliver, Line, Irqs
<1>11. \A j \in Irqs : (Line(j) \in master_isr)' <=> Owed(j)'
  BY <1>8, <1>9, <1>10 DEF IInv, ServiceInv, Line
<1>12. \A p, q \in Stacks : \A k \in 1..Len(frames'[p]), l \in 1..Len(frames'[q]) :
         \A j \in Irqs : Owes(p, k, j)' /\ Owes(q, l, j)' => p = q /\ k = l
  BY <1>6 DEF Pending
<1>13. /\ master_isr' \subseteq {PIT_IRQ, KB_IRQ, SLAVE_IRQ}
       /\ slave_isr' = IF SLAVE_IRQ \in master_isr' THEN {RTC_IRQ - MIDDLE} ELSE {}
  <2>1. CASE i = RTC_IRQ
    BY <1>3, <2>1 DEF Deliver, IInv, ServiceInv, Line
  <2>2. CASE i \in {PIT_IRQ, KB_IRQ}
    BY <2>2 DEF Deliver, IInv, ServiceInv, Line
  <2> QED
    BY <2>1, <2>2 DEF Irqs
<1> QED
  BY <1>11, <1>12, <1>13 DEF ServiceInv

-----------------------------------------------------------------------------
(* The handlers *)

\* What a step of a handler on the running stack leaves alone.
LEMMA GotoKeeps ==
  ASSUME IInv, NEW i \in {PIT_IRQ, KB_IRQ}, NEW x, NEW y \in {"eoi", "sched", "iret"},
         NEW n, n = Len(frames[running]),
         At(i, x), Goto(y), i = KB_IRQ => y # "sched",
         irr' = irr, master_isr' \subseteq Lines, slave_isr' \subseteq Lines,
         enabled' \in BOOLEAN, UNCHANGED <<mask, running, procs, masked>>
  PROVE  /\ TypeOK' /\ BootInv' /\ ProcInv' /\ LaunchInv' /\ FrameInv'
         /\ \A p \in Stacks, j \in Irqs : \A k :
              ~(p = running /\ k = n) => (Pending(p, k, j)' <=> Pending(p, k, j))
         /\ \A j \in Irqs : Pending(running, n, j) <=> j = i /\ x \in {"entry", "eoi"}
         /\ \A p \in Stacks, j \in Irqs :
              p = running => (Pending(p, n, j)' <=> j = i /\ y = "eoi")
<1>0. i \in Irqs /\ running \in Stacks
  BY DEF Irqs, IInv, TypeOK
<1>1. /\ frames' \in [Stacks -> Seq(Frames)]
      /\ n \in Nat \ {0}
      /\ frames[running][n].irq = i /\ frames[running][n].at = x
      /\ frames'[running][n].irq = i /\ frames'[running][n].at = y
      /\ \A p \in Stacks : Len(frames'[p]) = Len(frames[p])
      /\ \A p \in Stacks : p # running => frames'[p] = frames[p]
      /\ \A k \in 1..n : k # n => frames'[running][k] = frames[running][k]
  BY <1>0, GotoFacts DEF IInv
<1>2. UNCHANGED <<running, ctx, scheduled, launcher, mask, masked>>
  BY DEF procs
<1>3. \A p \in Stacks : frames[p] = <<>> => frames'[p] = <<>>
  BY <1>0, <1>1
<1>4. \A p \in Stacks : \A k \in 1..Len(frames'[p]) :
        /\ k \in 1..Len(frames[p])
        /\ frames'[p][k].irq = frames[p][k].irq
        /\ ~(p = running /\ k = n) => frames'[p][k] = frames[p][k]
  BY <1>0, <1>1
<1>5. frames[running] # <<>>
  BY <1>1
<1>6. TypeOK'
  BY <1>1, <1>2 DEF IInv, TypeOK
<1>7. BootInv'
  BY <1>0, <1>2, <1>3, <1>4, <1>5 DEF IInv, BootInv, Stacks
<1>8. ProcInv'
  BY <1>2, <1>3 DEF IInv, ProcInv, Stacks
<1>9. LaunchInv'
  BY <1>2, <1>4 DEF IInv, LaunchInv
<1>10. FrameInv'
  <2> SUFFICES ASSUME NEW p \in Stacks, NEW k \in 1..Len(frames'[p])
               PROVE  IF p = running /\ k = Len(frames'[p])
                      THEN /\ frames'[p][k].at = "entry" => ~enabled'
                           /\ frames'[p][k].irq = RTC_IRQ => frames'[p][k].at = "entry"
                           /\ frames'[p][k].irq = KB_IRQ => frames'[p][k].at # "sched"
                      ELSE Interruptible(frames'[p][k])
    BY <1>2 DEF FrameInv, Innermost, Interruptible
  <2>1. CASE p = running /\ k = n
    BY <1>0, <1>1, <2>1
  <2>2. CASE ~(p = running /\ k = n)
    <3>1. frames'[p][k] = frames[p][k] /\ k \in 1..Len(frames[p])
      BY <1>4, <2>2
    <3>2. Interruptible(frames[p][k])
      BY <3>1, <2>2 DEF IInv, FrameInv, Innermost
    <3> QED
      BY <1>1, <3>1, <3>2, <2>2
  <2> QED
    BY <2>1, <2>2
<1>11. \A p \in Stacks, j \in Irqs : \A k :
         ~(p = running /\ k = n) => (Pending(p, k, j)' <=> Pending(p, k, j))
  BY <1>1, <1>4 DEF Pending, Owes
<1>12. \A j \in Irqs : Pending(running, n, j) <=> j = i /\ x \in {"entry", "eoi"}
  BY <1>0, <1>1 DEF Pending, Owes
<1>13. \A p \in Stacks, j \in Irqs :
         p = running => (Pending(p, n, j)' <=> j = i /\ y = "eoi")
  BY <1>0, <1>1 DEF Pending, Owes
<1> QED
  BY <1>6, <1>7, <1>8, <1>9, <1>10, <1>11, <1>12, <1>13

\* A handler that only moves on owes what it owed.
LEMMA MoveStep ==
  ASSUME IInv, NEW i \in {PIT_IRQ, KB_IRQ}, At(i, "entry"), Goto("eoi"),
         enabled' \in BOOLEAN, UNCHANGED <<pic, running, procs, masked>>
  PROVE  IInv'
<1> DEFINE n == Len(frames[running])
<1>0. /\ UNCHANGED <<irr, master_isr, slave_isr, mask, running, scheduled, masked>>
      /\ master_isr' \subseteq Lines /\ slave_isr' \subseteq Lines
  BY DEF pic, procs, IInv, TypeOK
<1>1. PICK m : m = n
  OBVIOUS
<1>2. /\ TypeOK' /\ BootInv' /\ ProcInv' /\ LaunchInv' /\ FrameInv'
      /\ \A p \in Stacks, j \in Irqs : \A k :
           ~(p = running /\ k = m) => (Pending(p, k, j)' <=> Pending(p, k, j))
      /\ \A j \in Irqs : Pending(running, m, j) <=> j = i
      /\ \A p \in Stacks, j \in Irqs : p = running => (Pending(p, m, j)' <=> j = i)
  BY <1>0, <1>1, GotoKeeps
<1>3. \A p \in Stacks, j \in Irqs : \A k : Pending(p, k, j)' <=> Pending(p, k, j)
  BY <1>2
<1>4. \A p \in Stacks : Resumable(p)' <=> Resumable(p)
  BY <1>0 DEF Resumable
<1>5. ServiceInv'
  BY <1>0, <1>3, <1>4, ServiceKept DEF IInv
<1> QED
  BY <1>2, <1>5 DEF IInv

\* A handler that sends its end of interrupt.
LEMMA EoiStep ==
  ASSUME IInv, NEW i \in {PIT_IRQ, KB_IRQ}, At(i, "eoi"), NEW y \in {"sched", "iret"},
         Goto(y), i = KB_IRQ => y # "sched", send_eoi(i),
         enabled' \in BOOLEAN, UNCHANGED <<running, procs, masked>>
  PROVE  IInv'
<1> DEFINE n == Len(frames[running])
<1>0. /\ UNCHANGED <<irr, mask, running, scheduled, masked>> /\ i \in Irqs /\ running \in Stacks
      /\ master_isr' \subseteq Lines /\ slave_isr' \subseteq Lines
  BY DEF send_eoi, procs, Irqs, IInv, TypeOK
<1>1. PICK m : m = n
  OBVIOUS
<1>2. /\ TypeOK' /\ BootInv' /\ ProcInv' /\ LaunchInv' /\ FrameInv'
      /\ \A p \in Stacks, j \in Irqs : \A k :
           ~(p = running /\ k = m) => (Pending(p, k, j)' <=> Pending(p, k, j))
      /\ \A j \in Irqs : Pending(running, m, j) <=> j = i
      /\ \A p \in Stacks, j \in Irqs : p = running => ~Pending(p, m, j)'
  BY <1>0, <1>1, GotoKeeps
<1>3. \A p \in Stacks, j \in Irqs : \A k :
        Pending(p, k, j)' <=> Pending(p, k, j) /\ ~(p = running /\ k = m)
  BY <1>0, <1>2
<1>4. Pending(running, m, i)
  BY <1>0, <1>2
<1>5. ServiceInv'
  BY <1>0, <1>3, <1>4, ServiceEnds DEF IInv
<1> QED
  BY <1>2, <1>5 DEF IInv

\* What the end of a handler leaves alone.
LEMMA iretKeeps ==
  ASSUME IInv, NEW i \in Irqs, NEW x, NEW n, n = Len(frames[running]),
         At(i, x), iret,
         irr' = irr, master_isr' \subseteq Lines, slave_isr' \subseteq Lines,
         UNCHANGED <<mask, running, procs, masked>>
  PROVE  /\ TypeOK' /\ BootInv' /\ ProcInv' /\ LaunchInv' /\ FrameInv'
         /\ \A p \in Stacks, j \in Irqs : \A k :
              Pending(p, k, j)' <=> Pending(p, k, j) /\ ~(p = running /\ k = n)
         /\ \A j \in Irqs : Pending(running, n, j) <=> j = i /\ x \in {"entry", "eoi"}
<1>0. running \in Stacks /\ enabled' = TRUE
  BY DEF IInv, TypeOK, iret
<1>1. /\ frames' \in [Stacks -> Seq(Frames)]
      /\ n \in Nat \ {0}
      /\ frames[running][n].irq = i /\ frames[running][n].at = x
      /\ Len(frames'[running]) = n - 1
      /\ \A p \in Stacks : p # running => frames'[p] = frames[p]
      /\ \A k \in 1..Len(frames'[running]) : frames'[running][k] = frames[running][k]
  BY <1>0, iretFacts DEF IInv
<1>2. UNCHANGED <<running, ctx, scheduled, launcher, mask, masked>>
  BY DEF procs
<1>3. frames[running] # <<>>
  BY <1>1
<1>4. \A p \in Stacks : frames[p] = <<>> => frames'[p] = <<>>
  BY <1>1, <1>3
<1>5. \A p \in Stacks : \A k :
        /\ k \in 1..Len(frames'[p]) <=> k \in 1..Len(frames[p]) /\ ~(p = running /\ k = n)
        /\ k \in 1..Len(frames'[p]) => frames'[p][k] = frames[p][k]
  <2> TAKE p \in Stacks
  <2> TAKE k
  <2>1. CASE p = running
    BY <1>1, <2>1
  <2>2. CASE p # running
    BY <1>1, <2>2
  <2> QED
    BY <2>1, <2>2
<1>6. TypeOK'
  BY <1>0, <1>1, <1>2 DEF IInv, TypeOK
<1>7. BootInv'
  BY <1>0, <1>2, <1>3, <1>4, <1>5 DEF IInv, BootInv, Stacks
<1>8. ProcInv'
  BY <1>2, <1>4 DEF IInv, ProcInv, Stacks
<1>9. LaunchInv'
  BY <1>2, <1>5 DEF IInv, LaunchInv
<1>10. FrameInv'
  <2> SUFFICES ASSUME NEW p \in Stacks, NEW k \in 1..Len(frames'[p])
               PROVE  /\ Interruptible(frames'[p][k])
                      /\ frames'[p][k].at # "entry" /\ frames'[p][k].irq # RTC_IRQ
                      /\ frames'[p][k].irq = KB_IRQ => frames'[p][k].at # "sched"
    BY <1>2 DEF FrameInv, Innermost, Interruptible
  <2>1. frames'[p][k] = frames[p][k] /\ k \in 1..Len(frames[p]) /\ ~(p = running /\ k = n)
    BY <1>5
  <2>2. Interruptible(frames[p][k])
    BY <2>1 DEF IInv, FrameInv, Innermost
  <2> QED
    BY <2>1, <2>2 DEF Interruptible
<1>11. \A p \in Stacks, j \in Irqs : \A k :
         Pending(p, k, j)' <=> Pending(p, k, j) /\ ~(p = running /\ k = n)
  BY <1>5 DEF Pending, Owes
<1>12. \A j \in Irqs : Pending(running, n, j) <=> j = i /\ x \in {"entry", "eoi"}
  BY <1>1 DEF Pending, Owes
<1> QED
  BY <1>6, <1>7, <1>8, <1>9, <1>10, <1>11, <1>12

\* A handler that has sent its end of interrupt returns.
LEMMA ReturnStep ==
  ASSUME IInv, NEW i \in {PIT_IRQ, KB_IRQ}, At(i, "iret"), iret, UNCHANGED <<pic, running, procs, masked>>
  PROVE  IInv'
<1>0. /\ UNCHANGED <<irr, master_isr, slave_isr, mask, running, scheduled, masked>> /\ i \in Irqs
      /\ master_isr' \subseteq Lines /\ slave_isr' \subseteq Lines
  BY DEF pic, procs, Irqs, IInv, TypeOK
<1>1. PICK m : m = Len(frames[running])
  OBVIOUS
<1>2. /\ TypeOK' /\ BootInv' /\ ProcInv' /\ LaunchInv' /\ FrameInv'
      /\ \A p \in Stacks, j \in Irqs : \A k :
           Pending(p, k, j)' <=> Pending(p, k, j) /\ ~(p = running /\ k = m)
      /\ \A j \in Irqs : ~Pending(running, m, j)
  BY <1>0, <1>1, iretKeeps
<1>3. \A p \in Stacks, j \in Irqs : \A k : Pending(p, k, j)' <=> Pending(p, k, j)
  BY <1>2
<1>4. \A p \in Stacks : Resumable(p)' <=> Resumable(p)
  BY <1>0 DEF Resumable
<1>5. ServiceInv'
  BY <1>0, <1>3, <1>4, ServiceKept DEF IInv
<1> QED
  BY <1>2, <1>5 DEF IInv

\* rtc_int sends the end of interrupt and returns.
LEMMA RtcStep ==
  ASSUME IInv, rtc_int
  PROVE  IInv'
<1>0. /\ UNCHANGED <<irr, mask, running, scheduled, masked>> /\ RTC_IRQ \in Irqs /\ running \in Stacks
      /\ master_isr' \subseteq Lines /\ slave_isr' \subseteq Lines
  BY DEF rtc_int, send_eoi, procs, Irqs, IInv, TypeOK
<1>1. PICK m : m = Len(frames[running])
  OBVIOUS
<1>2. /\ TypeOK' /\ BootInv' /\ ProcInv' /\ LaunchInv' /\ FrameInv'
      /\ \A p \in Stacks, j \in Irqs : \A k :
           Pending(p, k, j)' <=> Pending(p, k, j) /\ ~(p = running /\ k = m)
      /\ \A j \in Irqs : Pending(running, m, j) <=> j = RTC_IRQ
  BY <1>0, <1>1, iretKeeps DEF rtc_int
<1>3. Pending(running, m, RTC_IRQ)
  BY <1>0, <1>2
<1>4. ServiceInv'
  BY <1>0, <1>2, <1>3, ServiceEnds DEF IInv, rtc_int
<1> QED
  BY <1>2, <1>4 DEF IInv

\* An interrupt is taken: what it interrupts had set the flag, and no timer
\* handler that owes its end is interrupted.
LEMMA DeliverStep ==
  ASSUME IInv, KeyInLaunch = FALSE, NEW i \in Irqs, Deliver(i)
  PROVE  IInv'
<1>0. PICK n : n = Len(frames[running]) + 1
  OBVIOUS
<1>1. /\ running \in Stacks /\ enabled /\ enabled' = FALSE
      /\ UNCHANGED <<mask, running, scheduled, launcher, ctx, masked>>
      /\ n - 1 = Len(frames[running]) /\ n - 1 \in Nat
  BY <1>0, FramesTyped DEF Deliver, IInv, TypeOK, procs
<1>2. /\ frames' \in [Stacks -> Seq(Frames)]
      /\ Len(frames'[running]) = n
      /\ frames'[running][n].irq = i /\ frames'[running][n].at = "entry"
      /\ \A p \in Stacks : p # running => frames'[p] = frames[p]
      /\ \A k \in 1..(n - 1) : frames'[running][k] = frames[running][k]
  BY <1>0, <1>1, DeliverFacts DEF IInv
<1>3. \A p \in Stacks : \A k :
        /\ k \in 1..Len(frames'[p]) <=> k \in 1..Len(frames[p]) \/ (p = running /\ k = n)
        /\ k \in 1..Len(frames[p]) => frames'[p][k] = frames[p][k] /\ ~(p = running /\ k = n)
  <2> TAKE p \in Stacks
  <2> TAKE k
  <2>1. CASE p = running
    BY <1>1, <1>2, <2>1
  <2>2. CASE p # running
    BY <1>1, <1>2, <2>2
  <2> QED
    BY <2>1, <2>2
<1>4. TypeOK'
  <2>1. irr' \subseteq Irqs /\ master_isr' \subseteq Lines /\ slave_isr' \subseteq Lines
    BY DEF IInv, TypeOK, Deliver, Line, Irqs, Lines
  <2> QED
    BY <1>1, <1>2, <2>1 DEF IInv, TypeOK
<1>5. /\ ctx[NONE] \notin {"i8259_init", "keyboard_init", "rtc_set_freq", "init_shells", "pit_init", "sti"}
      /\ ctx[NONE] # "sched" => i # PIT_IRQ
  BY <1>1 DEF IInv, BootInv, Deliver, Requested, Passes, Line
<1>6. BootInv'
  BY <1>1, <1>2, <1>3, <1>5 DEF IInv, BootInv, Stacks
<1>7. ctx[running] \notin {"free", "wait"}
  BY <1>1 DEF IInv, ProcInv, TypeOK, BootPoints, Stacks
<1>8. ProcInv'
  BY <1>1, <1>2, <1>7 DEF IInv, ProcInv, Stacks
<1>9. i = KB_IRQ => ctx[running] \notin {"exec", "sched"}
  BY DEF Deliver, Timely
<1>10. LaunchInv'
  <2> SUFFICES ASSUME NEW p \in Stacks, ctx[p] \in {"exec", "sched"}, NEW k \in 1..Len(frames'[p])
               PROVE  frames'[p][k].irq # KB_IRQ
    BY <1>1 DEF LaunchInv
  <2>1. CASE p = running /\ k = n
    BY <1>2, <1>9, <2>1
  <2>2. CASE ~(p = running /\ k = n)
    BY <1>3, <2>2 DEF IInv, LaunchInv
  <2> QED
    BY <2>1, <2>2
<1>11. \A k \in 1..(n - 1) : ~(frames[running][k].irq = PIT_IRQ /\ frames[running][k].at = "eoi")
  <2>1. PIT_IRQ \notin master_isr
    BY DEF Deliver, Requested, Passes, Line, Irqs
  <2>2. ~Owed(PIT_IRQ)
    BY <2>1 DEF IInv, ServiceInv, Line, Irqs
  <2> QED
    BY <1>1, <2>2 DEF Owed, Owes, Resumable
<1>12. FrameInv'
  <2> SUFFICES ASSUME NEW p \in Stacks, NEW k \in 1..Len(frames'[p])
               PROVE  IF p = running /\ k = n
                      THEN frames'[p][k].at = "entry" /\ ~enabled'
                      ELSE Interruptible(frames'[p][k])
    BY <1>1, <1>2 DEF FrameInv, Innermost, Interruptible
  <2>1. CASE p = running /\ k = n
    BY <1>1, <1>2, <2>1
  <2>2. CASE ~(p = running /\ k = n)
    <3>1. frames'[p][k] = frames[p][k] /\ k \in 1..Len(frames[p])
      BY <1>3, <2>2
    <3>2. CASE Innermost(p, k)
      <4>1. frames[p][k] \in Frames /\ p = running /\ k \in 1..(n - 1)
        BY <1>1, <3>1, <3>2, FramesTyped DEF IInv, Innermost
      <4> QED
        BY <1>1, <1>11, <3>1, <3>2, <4>1, <2>2 DEF IInv, FrameInv, Interruptible, Frames, Irqs
    <3>3. CASE ~Innermost(p, k)
      BY <3>1, <3>3, <2>2 DEF IInv, FrameInv
    <3> QED
      BY <3>2, <3>3
  <2> QED
    BY <2>1, <2>2
<1>13. \A p \in Stacks, j \in Irqs : \A k :
         Pending(p, k, j)' <=> Pending(p, k, j) \/ (p = running /\ k = n /\ j = i)
  <2> SUFFICES ASSUME NEW p \in Stacks, NEW j \in Irqs, NEW k
               PROVE  k \in 1..Len(frames'[p]) /\ frames'[p][k].irq = j /\ frames'[p][k].at \in {"entry", "eoi"}
                      <=> \/ k \in 1..Len(frames[p]) /\ frames[p][k].irq = j /\ frames[p][k].at \in {"entry", "eoi"}
                          \/ p = running /\ k = n /\ j = i
    BY DEF Pending, Owes
  <2> QED
    BY <1>2, <1>3
<1>14. ServiceInv'
  <2>1. n \in Nat
    BY <1>0, <1>1
  <2> QED
    BY <1>13, <2>1, ServiceBegins
<1> QED
  BY <1>4, <1>6, <1>8, <1>10, <1>12, <1>14 DEF IInv

-----------------------------------------------------------------------------
(* Context switches *)

\* A timer handler about to switch away for good leaves nothing owed behind.
LEMMA NothingLeft ==
  ASSUME IInv, At(PIT_IRQ, "sched"), ctx[running] \in {"exec", "sched"},
         NEW k, NEW i \in Irqs
  PROVE  ~Pending(running, k, i)
<1> SUFFICES ASSUME Pending(running, k, i)
             PROVE  FALSE
  OBVIOUS
<1>1. running \in Stacks /\ k \in 1..Len(frames[running])
  BY DEF IInv, TypeOK, Pending
<1>2. k # Len(frames[running])
  BY DEF At, Top, Stack, Pending, Owes
<1>3. Interruptible(frames[running][k])
  BY <1>1, <1>2 DEF IInv, FrameInv, Innermost
<1>4. frames[running][k].irq # KB_IRQ
  BY <1>1 DEF IInv, LaunchInv
<1> QED
  BY <1>3, <1>4 DEF Interruptible, Pending, Owes

\* sched changes the stack; every frame left behind or returned to is one that
\* may be interrupted, and a stack that owes stays one that sched picks.
LEMMA SwitchStep ==
  ASSUME IInv, running' \in scheduled, UNCHANGED <<pic, scheduled, launcher>>,
         TypeOK', BootInv', ProcInv', LaunchInv',
         \A p \in Stacks, j \in Irqs : \A k : Pending(p, k, j)' <=> Pending(p, k, j),
         \A j \in Irqs : \A k : Pending(running, k, j) => running \in scheduled,
         \A p \in Stacks : \A k \in 1..Len(frames'[p]) : Interruptible(frames'[p][k])
  PROVE  IInv'
<1>1. UNCHANGED <<irr, master_isr, slave_isr>>
  BY DEF pic
<1>2. \A p \in Stacks, i \in Irqs : \A k : Pending(p, k, i) => (Resumable(p)' <=> Resumable(p))
  BY OwersRun DEF Resumable
<1>3. ServiceInv'
  BY <1>1, <1>2, ServiceKept DEF IInv
<1>4. FrameInv'
  BY DEF FrameInv, Interruptible
<1> QED
  BY <1>3, <1>4 DEF IInv

\* Frames of stacks other than the running one may be interrupted.
LEMMA OthersInterruptible ==
  ASSUME IInv, NEW p \in Stacks, p # running, NEW k \in 1..Len(frames[p])
  PROVE  Interruptible(frames[p][k])
BY DEF IInv, FrameInv, Innermost

LEMMA EntrySchedStep ==
  ASSUME IInv, entry_sched
  PROVE  IInv'
<1>1. running = NONE /\ frames[NONE] = <<>> /\ ctx[NONE] = "sched"
  BY DEF entry_sched, Base, Stack, IInv, TypeOK, Stacks
<1>2. /\ running' \in scheduled /\ enabled' \in BOOLEAN /\ masked' \subseteq Pids
      /\ UNCHANGED <<pic, scheduled, launcher, ctx, frames>>
  BY SchedFacts DEF entry_sched, procs, IInv
<1>3. running' \in Pids /\ running' # NONE
  BY <1>2 DEF IInv, TypeOK, Pids
<1>4. TypeOK'
  BY <1>2, <1>3 DEF IInv, TypeOK, pic, Stacks
<1>5. BootInv'
  BY <1>1, <1>2 DEF IInv, BootInv, pic
<1>6. ProcInv'
  BY <1>2, <1>3 DEF IInv, ProcInv
<1>7. LaunchInv'
  BY <1>2 DEF IInv, LaunchInv
<1>8. \A p \in Stacks, j \in Irqs : \A k : Pending(p, k, j)' <=> Pending(p, k, j)
  BY <1>2 DEF Pending, Owes
<1>9. \A j : \A k : ~Pending(running, k, j)
  BY <1>1 DEF Pending
<1>10. \A p \in Stacks : \A k \in 1..Len(frames'[p]) : Interruptible(frames'[p][k])
  BY <1>1, <1>2, OthersInterruptible
<1> QED
  BY <1>2, <1>4, <1>5, <1>6, <1>7, <1>8, <1>9, <1>10, SwitchStep

LEMMA ExecuteSchedStep ==
  ASSUME IInv, execute_sched
  PROVE  IInv'
<1>1. running \in Pids /\ running # NONE /\ frames[running] = <<>> /\ ctx[running] = "exec"
  BY DEF execute_sched, Base, Stack, IInv, TypeOK, Stacks, BootPoints, Pids
<1>2. /\ running' \in scheduled /\ enabled' \in BOOLEAN /\ masked' \subseteq Pids
      /\ UNCHANGED <<pic, scheduled, launcher, frames>>
      /\ ctx' = [ctx EXCEPT ![running] = "wait"]
  BY SchedFacts DEF execute_sched, IInv
<1>3. running' \in Pids /\ running' # NONE /\ running' # running
  BY <1>1, <1>2 DEF IInv, TypeOK, Pids, ProcInv
<1>4. ctx'[running] = "wait" /\ \A p \in Stacks : p # running => ctx'[p] = ctx[p]
  BY <1>1, <1>2 DEF IInv, TypeOK, Stacks
<1>5. TypeOK'
  BY <1>1, <1>2, <1>3, <1>4 DEF IInv, TypeOK, pic, Stacks
<1>6. ctx'[NONE] = ctx[NONE]
  BY <1>1, <1>4 DEF Stacks
<1>7. BootInv'
  BY <1>1, <1>2, <1>6 DEF IInv, BootInv, pic
<1>8. ProcInv'
  BY <1>1, <1>2, <1>3, <1>4 DEF IInv, ProcInv, Stacks, TypeOK
<1>9. LaunchInv'
  BY <1>2, <1>4 DEF IInv, LaunchInv
<1>10. \A p \in Stacks, j \in Irqs : \A k : Pending(p, k, j)' <=> Pending(p, k, j)
  BY <1>2 DEF Pending, Owes
<1>11. \A j : \A k : ~Pending(running, k, j)
  BY <1>1 DEF Pending
<1>12. \A p \in Stacks : \A k \in 1..Len(frames'[p]) : Interruptible(frames'[p][k])
  BY <1>1, <1>2, OthersInterruptible
<1> QED
  BY <1>2, <1>5, <1>7, <1>8, <1>9, <1>10, <1>11, <1>12, SwitchStep

LEMMA PitSchedStep ==
  ASSUME IInv, pit_sched
  PROVE  IInv'
<1>1. /\ At(PIT_IRQ, "sched") /\ running \in Stacks /\ PIT_IRQ \in Irqs
      /\ running' \in scheduled /\ enabled' \in BOOLEAN /\ masked' \subseteq Pids
      /\ UNCHANGED <<pic, scheduled, launcher, ctx>>
  <2>1. running' \in scheduled /\ enabled' \in BOOLEAN /\ masked' \subseteq Pids
    BY SchedFacts DEF pit_sched, IInv
  <2> QED
    BY <2>1 DEF pit_sched, procs, IInv, TypeOK, Irqs
<1>2. running' \in Pids /\ running' # NONE
  BY <1>1 DEF IInv, TypeOK, Pids
<1>3. CASE running = NONE
  <2>1. /\ frames' \in [Stacks -> Seq(Frames)] /\ frames'[NONE] = <<>>
        /\ \A p \in Stacks : p # NONE => frames'[p] = frames[p]
    <3>1. frames' = [frames EXCEPT ![NONE] = <<>>] /\ NONE \in Stacks /\ <<>> \in Seq(Frames)
      BY <1>3 DEF pit_sched, Stacks
    <3> QED
      BY <3>1 DEF IInv, TypeOK
  <2>2. ctx[NONE] = "sched"
    <3>1. Len(frames[NONE]) \in 1..Len(frames[NONE]) /\ frames[NONE][Len(frames[NONE])].irq = PIT_IRQ
      BY <1>1, <1>3, FramesTyped DEF At, Top, Stack, IInv
    <3> QED
      BY <3>1 DEF IInv, BootInv
  <2>3. \A j \in Irqs : \A k : ~Pending(NONE, k, j)
    BY <1>1, <1>3, <2>2, NothingLeft
  <2>4. TypeOK'
    BY <1>1, <1>2, <2>1 DEF IInv, TypeOK, pic, Stacks
  <2>5. BootInv'
    BY <1>1, <2>1, <2>2 DEF IInv, BootInv, pic
  <2>6. \A p \in Pids : p \in Stacks /\ p # NONE
    BY DEF Pids, Stacks
  <2>7. ProcInv'
    BY <1>1, <1>2, <2>1, <2>6 DEF IInv, ProcInv
  <2>8. \A p \in Stacks : frames'[p] = frames[p] \/ frames'[p] = <<>>
    BY <2>1
  <2>9. LaunchInv'
    BY <1>1, <2>8 DEF IInv, LaunchInv
  <2>10. \A p \in Stacks, j \in Irqs : \A k : Pending(p, k, j)' <=> Pending(p, k, j)
    <3> TAKE p \in Stacks, j \in Irqs
    <3> TAKE k
    <3>1. CASE p = NONE
      BY <2>1, <2>3, <3>1 DEF Pending
    <3>2. CASE p # NONE
      BY <2>1, <3>2 DEF Pending, Owes
    <3> QED
      BY <3>1, <3>2
  <2>11. \A p \in Stacks : \A k \in 1..Len(frames'[p]) : Interruptible(frames'[p][k])
    <3> SUFFICES ASSUME NEW p \in Stacks, NEW k \in 1..Len(frames'[p])
                 PROVE  Interruptible(frames'[p][k])
      OBVIOUS
    <3>1. p # NONE /\ frames'[p] = frames[p]
      BY <2>1
    <3> QED
      BY <1>3, <3>1, OthersInterruptible
  <2> QED
    BY <1>1, <1>3, <2>3, <2>4, <2>5, <2>7, <2>9, <2>10, <2>11, SwitchStep
<1>4. CASE running # NONE
  <2>0. PICK n : n = Len(frames[running])
    OBVIOUS
  <2>1. /\ frames' \in [Stacks -> Seq(Frames)]
        /\ n \in Nat \ {0}
        /\ frames[running][n].irq = PIT_IRQ /\ frames[running][n].at = "sched"
        /\ frames'[running][n].irq = PIT_IRQ /\ frames'[running][n].at = "iret"
        /\ \A p \in Stacks : Len(frames'[p]) = Len(frames[p])
        /\ \A p \in Stacks : p # running => frames'[p] = frames[p]
        /\ \A k \in 1..n : k # n => frames'[running][k] = frames[running][k]
    BY <1>1, <1>4, <2>0, GotoFacts DEF IInv, pit_sched
  <2>2. \A p \in Stacks : \A k \in 1..Len(frames'[p]) :
          /\ k \in 1..Len(frames[p])
          /\ frames'[p][k].irq = frames[p][k].irq
          /\ ~(p = running /\ k = n) => frames'[p][k] = frames[p][k]
    BY <1>1, <2>0, <2>1
  <2>3. \A p \in Stacks : frames[p] = <<>> => frames'[p] = <<>>
    BY <2>1
  <2>4. TypeOK'
    BY <1>1, <1>2, <2>1 DEF IInv, TypeOK, pic, Stacks
  <2>5. BootInv'
    BY <1>1, <1>4, <2>1, <2>3 DEF IInv, BootInv, pic, Stacks
  <2>6. ProcInv'
    BY <1>1, <1>2, <2>3 DEF IInv, ProcInv, Stacks
  <2>7. LaunchInv'
    BY <1>1, <2>2 DEF IInv, LaunchInv
  <2>8. \A p \in Stacks, j \in Irqs : \A k : Pending(p, k, j)' <=> Pending(p, k, j)
    <3> TAKE p \in Stacks, j \in Irqs
    <3> TAKE k
    <3>1. CASE p = running /\ k = n
      BY <2>1, <3>1 DEF Pending, Owes
    <3>2. CASE ~(p = running /\ k = n)
      BY <2>1, <2>2, <3>2 DEF Pending, Owes
    <3> QED
      BY <3>1, <3>2
  <2>9. ASSUME NEW j \in Irqs, NEW k, Pending(running, k, j)
        PROVE  running \in scheduled
    <3>1. ctx[running] \notin {"exec", "sched"}
      BY <1>1, <2>9, NothingLeft
    <3> QED
      BY <1>1, <1>4, <3>1 DEF IInv, ProcInv, Stacks
  <2>10. \A p \in Stacks : \A k \in 1..Len(frames'[p]) : Interruptible(frames'[p][k])
    <3> SUFFICES ASSUME NEW p \in Stacks, NEW k \in 1..Len(frames'[p])
                 PROVE  Interruptible(frames'[p][k])
      OBVIOUS
    <3>1. CASE p = running /\ k = n
      BY <2>1, <3>1 DEF Interruptible
    <3>2. CASE ~(p = running /\ k = n)
      BY <2>0, <2>2, <3>2 DEF IInv, FrameInv, Innermost
    <3> QED
      BY <3>1, <3>2
  <2> QED
    BY <1>1, <2>4, <2>5, <2>6, <2>7, <2>8, <2>9, <2>10, SwitchStep
<1> QED
  BY <1>3, <1>4

-----------------------------------------------------------------------------
(* Boot *)

\* What a step of entry leaves alone.
LEMMA BootStepFacts ==
  ASSUME IInv, NEW x \in BootPoints, NEW y \in BootPoints, BootStep(x, y),
         scheduled' = scheduled, enabled' \in BOOLEAN,
         mask' \in [master : SUBSET Lines, slave : SUBSET Lines]
  PROVE  /\ running = NONE /\ frames[NONE] = <<>> /\ ctx[NONE] = x
         /\ ctx'[NONE] = y /\ \A p \in Pids : ctx'[p] = ctx[p]
         /\ UNCHANGED <<irr, master_isr, slave_isr, running, launcher, masked, frames>>
         /\ BootInv' => IInv'
<1>1. /\ UNCHANGED <<irr, master_isr, slave_isr, running, launcher, masked, frames>>
      /\ frames[running] = <<>> /\ ctx[running] = x /\ ctx' = [ctx EXCEPT ![NONE] = y]
  BY DEF BootStep, Base, Stack
<1>2. running = NONE
  BY <1>1 DEF IInv, TypeOK, BootPoints, ProcInv
<1>3. /\ NONE \in Stacks /\ DOMAIN ctx = Stacks
      /\ \A p \in Pids : p \in Stacks /\ p # NONE
  BY DEF Stacks, Pids, IInv, TypeOK
<1>4. ctx'[NONE] = y /\ DOMAIN ctx' = Stacks /\ \A p \in Pids : ctx'[p] = ctx[p]
  BY <1>1, <1>3
<1>5. TypeOK'
  BY <1>1, <1>4 DEF IInv, TypeOK
<1>6. ProcInv'
  BY <1>1, <1>2, <1>4 DEF IInv, ProcInv, TypeOK
<1>7. LaunchInv'
  <2> SUFFICES ASSUME NEW p \in Stacks, ctx'[p] \in {"exec", "sched"}, NEW k \in 1..Len(frames[p])
               PROVE  frames[p][k].irq # KB_IRQ
    BY <1>1 DEF LaunchInv
  <2>1. p # NONE
    BY <1>1, <1>2
  <2>2. ctx'[p] = ctx[p]
    BY <1>4, <2>1 DEF Stacks
  <2> QED
    BY <2>2 DEF IInv, LaunchInv
<1>8. FrameInv'
  <2>1. \A p \in Stacks : \A k \in 1..Len(frames[p]) : Interruptible(frames[p][k])
    <3> SUFFICES ASSUME NEW p \in Stacks, NEW k \in 1..Len(frames[p])
                 PROVE  Interruptible(frames[p][k])
      OBVIOUS
    <3>1. p # running
      BY <1>1
    <3> QED
      BY <3>1, OthersInterruptible
  <2> QED
    BY <1>1, <2>1 DEF FrameInv, Interruptible
<1>9. \A p \in Stacks, j \in Irqs : \A k : Pending(p, k, j)' <=> Pending(p, k, j)
  BY <1>1 DEF Pending, Owes
<1>10. \A p \in Stacks : Resumable(p)' <=> Resumable(p)
  BY <1>1 DEF Resumable
<1>11. ServiceInv'
  BY <1>1, <1>9, <1>10, ServiceKept DEF IInv
<1> QED
  BY <1>1, <1>2, <1>4, <1>5, <1>6, <1>7, <1>8, <1>11 DEF IInv

\* enable_irq unmasks one line.
LEMMA Unmasks ==
  ASSUME TypeOK, NEW i \in {PIT_IRQ, KB_IRQ, SLAVE_IRQ, RTC_IRQ}, enable_irq(i)
  PROVE  /\ mask' \in [master : SUBSET Lines, slave : SUBSET Lines]
         /\ i # PIT_IRQ /\ PIT_IRQ \in mask.master => PIT_IRQ \in mask'.master
BY DEF TypeOK, enable_irq

LEMMA BootSteps ==
  ASSUME IInv,
         \/ i8259_init \/ keyboard_init \/ rtc_set_freq \/ rtc_enable \/ slave_enable
         \/ entry_cli \/ pit_init \/ entry_sti
  PROVE  IInv'
<1>0. TypeOK /\ BootInv
  BY DEF IInv
<1>1. CASE i8259_init
  <2>1. /\ "i8259_init" \in BootPoints /\ "keyboard_init" \in BootPoints
        /\ BootStep("i8259_init", "keyboard_init") /\ scheduled' = scheduled /\ enabled' = enabled
        /\ mask' = [master |-> Lines, slave |-> Lines]
    BY <1>1 DEF i8259_init, BootPoints
  <2>2. /\ PIT_IRQ \in mask'.master
        /\ mask' \in [master : SUBSET Lines, slave : SUBSET Lines] /\ enabled' \in BOOLEAN
    BY <1>0, <2>1 DEF TypeOK, Lines
  <2> QED
    BY <1>0, <2>1, <2>2, BootStepFacts DEF BootInv
<1>2. CASE keyboard_init
  <2>1. /\ "keyboard_init" \in BootPoints /\ "rtc_set_freq" \in BootPoints
        /\ BootStep("keyboard_init", "rtc_set_freq") /\ scheduled' = scheduled /\ enabled' = enabled
        /\ enable_irq(KB_IRQ)
    BY <1>2 DEF keyboard_init, BootPoints
  <2>2. /\ PIT_IRQ \in mask.master => PIT_IRQ \in mask'.master
        /\ mask' \in [master : SUBSET Lines, slave : SUBSET Lines] /\ enabled' \in BOOLEAN
    BY <1>0, <2>1, Unmasks DEF TypeOK
  <2> QED
    BY <1>0, <2>1, <2>2, BootStepFacts DEF BootInv
<1>3. CASE rtc_set_freq
  <2>1. /\ "rtc_set_freq" \in BootPoints /\ "rtc_enable" \in BootPoints
        /\ BootStep("rtc_set_freq", "rtc_enable") /\ scheduled' = scheduled /\ enabled' = TRUE
        /\ mask' = mask
    BY <1>3 DEF rtc_set_freq, BootPoints
  <2>2. mask' \in [master : SUBSET Lines, slave : SUBSET Lines] /\ enabled' \in BOOLEAN
    BY <1>0, <2>1 DEF TypeOK
  <2> QED
    BY <1>0, <2>1, <2>2, BootStepFacts DEF BootInv
<1>4. CASE rtc_enable
  <2>1. /\ "rtc_enable" \in BootPoints /\ "slave_enable" \in BootPoints
        /\ BootStep("rtc_enable", "slave_enable") /\ scheduled' = scheduled /\ enabled' = enabled
        /\ enable_irq(RTC_IRQ)
    BY <1>4 DEF rtc_enable, BootPoints
  <2>2. /\ PIT_IRQ \in mask.master => PIT_IRQ \in mask'.master
        /\ mask' \in [master : SUBSET Lines, slave : SUBSET Lines] /\ enabled' \in BOOLEAN
    BY <1>0, <2>1, Unmasks DEF TypeOK
  <2> QED
    BY <1>0, <2>1, <2>2, BootStepFacts DEF BootInv
<1>5. CASE slave_enable
  <2>1. /\ "slave_enable" \in BootPoints /\ "cli" \in BootPoints
        /\ BootStep("slave_enable", "cli") /\ scheduled' = scheduled /\ enabled' = enabled
        /\ enable_irq(SLAVE_IRQ)
    BY <1>5 DEF slave_enable, BootPoints
  <2>2. /\ PIT_IRQ \in mask.master => PIT_IRQ \in mask'.master
        /\ mask' \in [master : SUBSET Lines, slave : SUBSET Lines] /\ enabled' \in BOOLEAN
    BY <1>0, <2>1, Unmasks DEF TypeOK
  <2> QED
    BY <1>0, <2>1, <2>2, BootStepFacts DEF BootInv
<1>6. CASE entry_cli
  <2>1. /\ "cli" \in BootPoints /\ "init_shells" \in BootPoints
        /\ BootStep("cli", "init_shells") /\ scheduled' = scheduled /\ enabled' = FALSE
        /\ mask' = mask
    BY <1>6 DEF entry_cli, BootPoints
  <2>2. mask' \in [master : SUBSET Lines, slave : SUBSET Lines] /\ enabled' \in BOOLEAN
    BY <1>0, <2>1 DEF TypeOK
  <2> QED
    BY <1>0, <2>1, <2>2, BootStepFacts DEF BootInv
<1>7. CASE pit_init
  <2>1. /\ "pit_init" \in BootPoints /\ "sti" \in BootPoints
        /\ BootStep("pit_init", "sti") /\ scheduled' = scheduled /\ enabled' = enabled
        /\ enable_irq(PIT_IRQ)
    BY <1>7 DEF pit_init, BootPoints
  <2>2. mask' \in [master : SUBSET Lines, slave : SUBSET Lines] /\ enabled' \in BOOLEAN
    BY <1>0, <2>1, Unmasks DEF TypeOK
  <2> QED
    BY <1>0, <2>1, <2>2, BootStepFacts DEF BootInv
<1>8. CASE entry_sti
  <2>1. /\ "sti" \in BootPoints /\ "sched" \in BootPoints
        /\ BootStep("sti", "sched") /\ scheduled' = scheduled /\ enabled' = TRUE
        /\ mask' = mask
    BY <1>8 DEF entry_sti, BootPoints
  <2>2. mask' \in [master : SUBSET Lines, slave : SUBSET Lines] /\ enabled' \in BOOLEAN
    BY <1>0, <2>1 DEF TypeOK
  <2> QED
    BY <1>0, <2>1, <2>2, BootStepFacts DEF BootInv
<1> QED
  BY <1>1, <1>2, <1>3, <1>4, <1>5, <1>6, <1>7, <1>8

\* The shells appear at once, each on an empty stack.
LEMMA InitShellsStep ==
  ASSUME IInv, init_shells
  PROVE  IInv'
<1>0. \A p \in Pids : p \in Stacks /\ p # NONE
  BY DEF Stacks, Pids
<1>1. /\ frames[running] = <<>> /\ ctx[running] = "init_shells"
      /\ UNCHANGED <<irr, master_isr, slave_isr, mask, enabled, running, launcher, masked, frames>>
      /\ scheduled' = 0..(TERM_MAX - 1)
  BY DEF init_shells, Base, Stack, pic
<1>2. running = NONE
  BY <1>1 DEF IInv, TypeOK, ProcInv
<1>3. /\ ~enabled /\ PIT_IRQ \in mask.master
      /\ \A p \in Pids : ctx[p] = "free" /\ launcher[p] = NONE
  BY <1>1, <1>2 DEF IInv, BootInv
<1>4. \A p \in Pids : frames[p] = <<>>
  BY <1>3 DEF IInv, ProcInv
<1>5. \A p \in Stacks : frames[p] = <<>>
  BY <1>1, <1>2, <1>4 DEF Stacks
<1>6. /\ ctx'[NONE] = "pit_init" /\ DOMAIN ctx' = Stacks
      /\ \A p \in Pids : ctx'[p] = IF p < TERM_MAX THEN "user" ELSE "free"
  BY <1>0 DEF init_shells, Stacks
<1>7. \A p \in Pids : p \in scheduled' <=> p < TERM_MAX
  BY <1>1, InterruptsAssumption DEF Pids
<1>8. scheduled' \subseteq Pids
  BY <1>1, InterruptsAssumption DEF Pids
<1>9. TypeOK'
  BY <1>1, <1>6, <1>8 DEF IInv, TypeOK, BootPoints
<1>10. BootInv'
  BY <1>1, <1>2, <1>3, <1>6 DEF BootInv
<1>11. ProcInv'
  BY <1>1, <1>2, <1>3, <1>4, <1>6, <1>7 DEF ProcInv
<1>12. LaunchInv' /\ FrameInv'
  BY <1>1, <1>5 DEF LaunchInv, FrameInv
<1>13. \A p \in Stacks, j \in Irqs : \A k : ~Pending(p, k, j) /\ ~Pending(p, k, j)'
  BY <1>1, <1>5 DEF Pending
<1>14. ServiceInv'
  BY <1>1, <1>13, ServiceKept DEF IInv
<1> QED
  BY <1>9, <1>10, <1>11, <1>12, <1>14 DEF IInv

-----------------------------------------------------------------------------
(* execute and halt32 *)

\* The child takes a free slot, on whose stack nothing is owed.
LEMMA ExecuteStep ==
  ASSUME IInv, execute
  PROVE  IInv'
<1>0. \A p \in Pids : p \in Stacks /\ p # NONE
  BY DEF Stacks, Pids
<1>1. PICK c \in Pids :
        /\ ctx[c] = "free"
        /\ scheduled' = (scheduled \ {running}) \cup {c}
        /\ launcher' = [launcher EXCEPT ![c] = running]
        /\ ctx' = [ctx EXCEPT ![c] = "user", ![running] = "exec"]
        /\ frames' = [frames EXCEPT ![c] = <<>>]
  BY DEF execute
<1>2. /\ frames[running] = <<>> /\ ctx[running] = "user"
      /\ UNCHANGED <<irr, master_isr, slave_isr, mask, enabled, running, masked>>
  BY DEF execute, Base, Stack, pic
<1>3. running \in Pids /\ running # c
  BY <1>1, <1>2 DEF IInv, TypeOK, BootPoints, Stacks
<1>4. frames[c] = <<>> /\ launcher[c] = NONE
  BY <1>1 DEF IInv, ProcInv
<1>5. frames' = frames
  BY <1>1, <1>4 DEF IInv, TypeOK
<1>6. /\ DOMAIN ctx' = Stacks /\ ctx'[c] = "user" /\ ctx'[running] = "exec"
      /\ \A p \in Stacks : p # c /\ p # running => ctx'[p] = ctx[p]
  BY <1>0, <1>1, <1>3 DEF IInv, TypeOK
<1>7. ctx'[NONE] = ctx[NONE]
  BY <1>0, <1>3, <1>6 DEF Stacks
<1>8. /\ launcher' \in [Pids -> Pids \cup {NONE}]
      /\ launcher'[c] = running /\ \A p \in Pids : p # c => launcher'[p] = launcher[p]
  BY <1>1, <1>3 DEF IInv, TypeOK
<1>9. \A p \in Pids : ctx'[p] = IF p = c THEN "user" ELSE IF p = running THEN "exec" ELSE ctx[p]
  BY <1>0, <1>3, <1>6
<1>10. TypeOK'
  <2>1. scheduled' \subseteq Pids
    BY <1>1 DEF IInv, TypeOK
  <2>2. \A p \in Pids : ctx'[p] \in {"free", "user", "call", "exec", "wait"}
    BY <1>9 DEF IInv, TypeOK
  <2> QED
    BY <1>2, <1>5, <1>6, <1>7, <1>8, <2>1, <2>2 DEF IInv, TypeOK
<1>11. BootInv'
  BY <1>0, <1>2, <1>3, <1>5, <1>7 DEF IInv, BootInv
<1>12. ProcInv'
  <2>1. \A p \in Pids : p \in scheduled' <=> ctx'[p] \in {"user", "call"}
    <3>1. \A p \in Pids : p \in scheduled <=> ctx[p] \in {"user", "call"}
      BY DEF IInv, ProcInv
    <3>2. scheduled' = (scheduled \ {running}) \cup {c}
      BY <1>1
    <3> QED
      BY <1>3, <1>9, <3>1, <3>2
  <2>2. \A p \in Pids : /\ ctx'[p] \in {"free", "wait"} => frames'[p] = <<>>
                        /\ ctx'[p] = "free" => launcher'[p] = NONE
    BY <1>5, <1>8, <1>9 DEF IInv, ProcInv
  <2>3. \A p \in Pids : launcher[p] # NONE => launcher[p] \in Pids /\ launcher[p] # c /\ launcher[p] # running
    BY <1>1, <1>2 DEF IInv, ProcInv, TypeOK
  <2>4. \A p \in Pids : launcher'[p] # NONE => ctx'[launcher'[p]] \in {"exec", "wait"}
    BY <1>3, <1>8, <1>9, <2>3 DEF IInv, ProcInv
  <2>5. \A p, q \in Pids : launcher'[p] # NONE /\ launcher'[p] = launcher'[q] => p = q
    BY <1>3, <1>8, <2>3 DEF IInv, ProcInv
  <2>6. running' # NONE => ctx'[running'] \in {"user", "call", "exec"}
    BY <1>2, <1>6
  <2> QED
    BY <2>1, <2>2, <2>4, <2>5, <2>6 DEF ProcInv
<1>13. LaunchInv'
  <2> SUFFICES ASSUME NEW p \in Stacks, ctx'[p] \in {"exec", "sched"}, NEW k \in 1..Len(frames[p])
               PROVE  frames[p][k].irq # KB_IRQ
    BY <1>5 DEF LaunchInv
  <2>1. p # c /\ p # running
    BY <1>2, <1>4
  <2> QED
    BY <1>6, <2>1 DEF IInv, LaunchInv
<1>14. FrameInv'
  BY <1>2, <1>5 DEF IInv, FrameInv, Innermost
<1>15. \A p \in Stacks, j \in Irqs : \A k : Pending(p, k, j)' <=> Pending(p, k, j)
  BY <1>5 DEF Pending, Owes
<1>16. \A p \in Stacks, j \in Irqs : \A k : Pending(p, k, j) => p # c /\ p # running
  BY <1>2, <1>4 DEF Pending
<1>17. \A p \in Stacks, j \in Irqs : \A k : Pending(p, k, j) => (Resumable(p)' <=> Resumable(p))
  BY <1>1, <1>2, <1>16 DEF Resumable
<1>18. ServiceInv'
  BY <1>2, <1>15, <1>17, ServiceKept DEF IInv
<1> QED
  BY <1>10, <1>11, <1>12, <1>13, <1>14, <1>18 DEF IInv

\* The frames that halt_ret throws away owe nothing: their stack was left for
\* good in execute.
LEMMA HaltStep ==
  ASSUME IInv, halt32
  PROVE  IInv'
<1>0. \A p \in Pids : p \in Stacks /\ p # NONE
  BY DEF Stacks, Pids
<1>1. PICK q : q = launcher[running]
  OBVIOUS
<1>a. PICK x \in {"user", "call"} : x = IF q \in masked THEN "call" ELSE "user"
  OBVIOUS
<1>2. /\ frames[running] = <<>> /\ ctx[running] = "user" /\ q # NONE
      /\ scheduled' = (scheduled \ {running}) \cup {q}
      /\ ctx' = [ctx EXCEPT ![running] = "free", ![q] = x]
      /\ launcher' = [launcher EXCEPT ![running] = NONE]
      /\ frames' = [frames EXCEPT ![q] = <<>>]
      /\ running' = q /\ enabled' = TRUE
      /\ UNCHANGED <<irr, master_isr, slave_isr, mask, masked>>
  BY <1>1, <1>a DEF halt32, Base, Stack, pic
<1>3. running \in Pids
  BY <1>2 DEF IInv, TypeOK, BootPoints, Stacks
<1>4. q \in Pids /\ ctx[q] \in {"exec", "wait"} /\ q # running
  BY <1>1, <1>2, <1>3 DEF IInv, TypeOK, ProcInv
<1>5. q \notin scheduled
  BY <1>4 DEF IInv, ProcInv
<1>6. \A j \in Irqs : \A k : ~Pending(q, k, j) /\ ~Pending(running, k, j)
  BY <1>0, <1>2, <1>4, <1>5, OwersRun DEF Resumable, Pending
<1>7. /\ frames' \in [Stacks -> Seq(Frames)] /\ frames'[q] = <<>>
      /\ \A p \in Stacks : p # q => frames'[p] = frames[p]
  <2>1. <<>> \in Seq(Frames) /\ q \in Stacks
    BY <1>0, <1>4
  <2> QED
    BY <1>2, <2>1 DEF IInv, TypeOK
<1>8. /\ DOMAIN ctx' = Stacks /\ ctx'[q] = x /\ ctx'[running] = "free"
      /\ \A p \in Stacks : p # q /\ p # running => ctx'[p] = ctx[p]
  BY <1>0, <1>2, <1>3, <1>4 DEF IInv, TypeOK
<1>9. ctx'[NONE] = ctx[NONE] /\ frames'[NONE] = frames[NONE]
  BY <1>0, <1>3, <1>4, <1>7, <1>8 DEF Stacks
<1>10. /\ launcher' \in [Pids -> Pids \cup {NONE}]
       /\ launcher'[running] = NONE /\ \A p \in Pids : p # running => launcher'[p] = launcher[p]
  BY <1>2, <1>3 DEF IInv, TypeOK
<1>11. \A p \in Pids : ctx'[p] = IF p = q THEN x ELSE IF p = running THEN "free" ELSE ctx[p]
  BY <1>0, <1>4, <1>8
<1>12. TypeOK'
  BY <1>0, <1>2, <1>4, <1>7, <1>8, <1>9, <1>10, <1>11 DEF IInv, TypeOK
<1>13. BootInv'
  <2>1. ctx[NONE] = "sched" /\ frames[NONE] = <<>>
    BY <1>0, <1>3 DEF IInv, BootInv
  <2> QED
    BY <1>9, <2>1 DEF BootInv
<1>14. ProcInv'
  <2>1. \A p \in Pids : p \in scheduled' <=> ctx'[p] \in {"user", "call"}
    <3>1. \A p \in Pids : p \in scheduled <=> ctx[p] \in {"user", "call"}
      BY DEF IInv, ProcInv
    <3>2. scheduled' = (scheduled \ {running}) \cup {q}
      BY <1>2
    <3> QED
      BY <1>11, <3>1, <3>2
  <2>2. \A p \in Pids : /\ ctx'[p] \in {"free", "wait"} => frames'[p] = <<>>
                        /\ ctx'[p] = "free" => launcher'[p] = NONE
    <3>1. \A p \in Pids : /\ ctx[p] \in {"free", "wait"} => frames[p] = <<>>
                          /\ ctx[p] = "free" => launcher[p] = NONE
      BY DEF IInv, ProcInv
    <3>2. frames[running] = <<>> /\ \A p \in Pids : frames'[p] = IF p = q THEN <<>> ELSE frames[p]
      BY <1>0, <1>2, <1>7
    <3> QED
      BY <1>10, <1>11, <3>1, <3>2
  <2>3. \A p \in Pids : launcher[p] # NONE /\ p # running =>
          launcher[p] \in Pids /\ launcher[p] # q /\ launcher[p] # running
    BY <1>1, <1>2, <1>3 DEF IInv, ProcInv, TypeOK
  <2>4. \A p \in Pids : launcher'[p] # NONE => ctx'[launcher'[p]] \in {"exec", "wait"}
    BY <1>10, <1>11, <2>3 DEF IInv, ProcInv
  <2>5. \A p, r \in Pids : launcher'[p] # NONE /\ launcher'[p] = launcher'[r] => p = r
    BY <1>10 DEF IInv, ProcInv
  <2>6. running' # NONE => ctx'[running'] \in {"user", "call", "exec"}
    BY <1>2, <1>8
  <2> QED
    BY <2>1, <2>2, <2>4, <2>5, <2>6 DEF ProcInv
<1>15. LaunchInv'
  <2> SUFFICES ASSUME NEW p \in Stacks, ctx'[p] \in {"exec", "sched"}, NEW k \in 1..Len(frames'[p])
               PROVE  frames'[p][k].irq # KB_IRQ
    BY DEF LaunchInv
  <2>1. p # q /\ p # running
    BY <1>8
  <2> QED
    BY <1>7, <1>8, <2>1 DEF IInv, LaunchInv
<1>16. FrameInv'
  <2>1. \A p \in Stacks : \A k \in 1..Len(frames'[p]) : Interruptible(frames'[p][k])
    <3> SUFFICES ASSUME NEW p \in Stacks, NEW k \in 1..Len(frames'[p])
                 PROVE  Interruptible(frames'[p][k])
      OBVIOUS
    <3>1. p # q
      BY <1>7
    <3>2. p # running
      BY <1>2, <1>7, <3>1
    <3> QED
      BY <1>7, <3>1, <3>2, OthersInterruptible
  <2> QED
    BY <2>1 DEF FrameInv, Interruptible
<1>17. \A p \in Stacks, j \in Irqs : \A k : Pending(p, k, j)' <=> Pending(p, k, j)
  <2> TAKE p \in Stacks, j \in Irqs
  <2> TAKE k
  <2>1. CASE p = q
    BY <1>6, <1>7, <2>1 DEF Pending
  <2>2. CASE p # q
    BY <1>7, <2>2 DEF Pending, Owes
  <2> QED
    BY <2>1, <2>2
<1>18. \A p \in Stacks, j \in Irqs : \A k : Pending(p, k, j) => (Resumable(p)' <=> Resumable(p))
  BY <1>2, <1>6 DEF Resumable
<1>19. ServiceInv'
  BY <1>2, <1>17, <1>18, ServiceKept DEF IInv
<1> QED
  BY <1>12, <1>13, <1>14, <1>15, <1>16, <1>19 DEF IInv

\* The flag of a process changes while no handler is on its stack.
LEMMA FlagStep ==
  ASSUME IInv, exception \/ call_sti \/ call_iret
  PROVE  IInv'
<1>0. \A p \in Pids : p \in Stacks /\ p # NONE
  BY DEF Stacks, Pids
<1>1. PICK x \in {"user", "call"} :
        /\ frames[running] = <<>> /\ ctx[running] \in {"user", "call"}
        /\ ctx' = ctx \/ ctx' = [ctx EXCEPT ![running] = x]
  BY DEF exception, call_sti, call_iret, Base, Stack, procs
<1>2. running \in Pids
  BY <1>1 DEF IInv, TypeOK, BootPoints, Stacks
<1>3. /\ UNCHANGED <<irr, master_isr, slave_isr, mask, running, scheduled, launcher, frames>>
      /\ enabled' \in BOOLEAN /\ masked' \subseteq Pids
  BY <1>2 DEF exception, call_sti, call_iret, procs, pic, IInv, TypeOK
<1>4. /\ DOMAIN ctx' = Stacks /\ ctx'[running] \in {"user", "call"}
      /\ \A p \in Stacks : p # running => ctx'[p] = ctx[p]
  BY <1>0, <1>1, <1>2 DEF IInv, TypeOK
<1>5. ctx'[NONE] = ctx[NONE]
  BY <1>0, <1>2, <1>4 DEF Stacks
<1>6. \A p \in Pids : ctx'[p] = ctx[p] \/ {ctx'[p], ctx[p]} \subseteq {"user", "call"}
  BY <1>0, <1>1, <1>4
<1>7. TypeOK'
  BY <1>3, <1>4, <1>5, <1>6 DEF IInv, TypeOK
<1>8. BootInv'
  <2>1. ctx[NONE] = "sched" /\ frames[NONE] = <<>>
    BY <1>0, <1>2 DEF IInv, BootInv
  <2> QED
    BY <1>3, <1>5, <2>1 DEF BootInv
<1>9. ProcInv'
  <2>1. \A p \in Pids : p \in scheduled' <=> ctx'[p] \in {"user", "call"}
    BY <1>3, <1>6 DEF IInv, ProcInv
  <2>2. \A p \in Pids : /\ ctx'[p] \in {"free", "wait"} => frames'[p] = <<>>
                        /\ ctx'[p] = "free" => launcher'[p] = NONE
    BY <1>3, <1>6 DEF IInv, ProcInv
  <2>3. \A p \in Pids : launcher'[p] # NONE => ctx'[launcher'[p]] \in {"exec", "wait"}
    <3> SUFFICES ASSUME NEW p \in Pids, launcher[p] # NONE
                 PROVE  ctx'[launcher[p]] \in {"exec", "wait"}
      BY <1>3
    <3>1. launcher[p] \in Pids /\ ctx[launcher[p]] \in {"exec", "wait"}
      BY DEF IInv, ProcInv, TypeOK
    <3> QED
      BY <1>6, <3>1
  <2>4. \A p, q \in Pids : launcher'[p] # NONE /\ launcher'[p] = launcher'[q] => p = q
    BY <1>3 DEF IInv, ProcInv
  <2>5. ctx'[running'] \in {"user", "call", "exec"}
    BY <1>3, <1>4
  <2> QED
    BY <2>1, <2>2, <2>3, <2>4, <2>5 DEF ProcInv
<1>10. LaunchInv'
  <2> SUFFICES ASSUME NEW p \in Stacks, ctx'[p] \in {"exec", "sched"}, NEW k \in 1..Len(frames[p])
               PROVE  frames[p][k].irq # KB_IRQ
    BY <1>3 DEF LaunchInv
  <2>1. ctx'[p] = ctx[p]
    BY <1>4
  <2> QED
    BY <2>1 DEF IInv, LaunchInv
<1>11. FrameInv'
  <2>1. \A p \in Stacks : \A k \in 1..Len(frames'[p]) : Interruptible(frames'[p][k])
    BY <1>1, <1>3, OthersInterruptible
  <2> QED
    BY <2>1 DEF FrameInv, Interruptible
<1>12. \A p \in Stacks, j \in Irqs : \A k : Pending(p, k, j)' <=> Pending(p, k, j)
  BY <1>3 DEF Pending, Owes
<1>13. \A p \in Stacks : Resumable(p)' <=> Resumable(p)
  BY <1>3 DEF Resumable
<1>14. ServiceInv'
  BY <1>3, <1>12, <1>13, ServiceKept DEF IInv
<1> QED
  BY <1>7, <1>8, <1>9, <1>10, <1>11, <1>14 DEF IInv

-----------------------------------------------------------------------------
(* The invariant *)

LEMMA InitIInv ==
  ASSUME Init
  PROVE  IInv
<1>0. /\ NONE \in Stacks /\ \A p \in Pids : p \in Stacks /\ p # NONE
      /\ <<>> \in Seq(Frames)
  BY DEF Stacks, Pids
<1>1. /\ \A p \in Pids : ctx[p] = "free" /\ launcher[p] = NONE
      /\ ctx[NONE] = "i8259_init" /\ DOMAIN ctx = Stacks
      /\ \A p \in Stacks : frames[p] = <<>>
  BY <1>0 DEF Init
<1>2. frames \in [Stacks -> Seq(Frames)] /\ launcher \in [Pids -> Pids \cup {NONE}]
  BY <1>0 DEF Init
<1>3. mask \in [master : SUBSET Lines, slave : SUBSET Lines]
  BY DEF Init
<1>4. TypeOK
  BY <1>0, <1>1, <1>2, <1>3 DEF Init, TypeOK, BootPoints
<1>5. BootInv
  BY <1>0, <1>1 DEF Init, BootInv
<1>6. ProcInv /\ LaunchInv /\ FrameInv
  BY <1>0, <1>1 DEF Init, ProcInv, LaunchInv, FrameInv
<1>7. \A i : ~Owed(i)
  BY <1>1 DEF Owed
<1>8. ServiceInv
  BY <1>1, <1>7 DEF Init, ServiceInv
<1> QED
  BY <1>4, <1>5, <1>6, <1>8 DEF IInv

\* Steps that change nothing but what the devices have raised.
LEMMA QuietStep ==
  ASSUME IInv, irr' \subseteq Irqs,
         UNCHANGED <<master_isr, slave_isr, mask, enabled, running, procs, masked, frames>>
  PROVE  IInv'
<1>1. UNCHANGED <<scheduled, launcher, ctx>>
  BY DEF procs
<1>2. \A p \in Stacks, j \in Irqs : \A k : Pending(p, k, j)' <=> Pending(p, k, j)
  BY DEF Pending, Owes
<1>3. \A p \in Stacks : Resumable(p)' <=> Resumable(p)
  BY <1>1 DEF Resumable
<1>4. ServiceInv'
  BY <1>2, <1>3, ServiceKept DEF IInv
<1>5. TypeOK'
  BY <1>1 DEF IInv, TypeOK
<1>6. BootInv' /\ ProcInv' /\ LaunchInv'
  BY <1>1 DEF IInv, BootInv, ProcInv, LaunchInv
<1>7. FrameInv'
  BY DEF IInv, FrameInv, Innermost
<1> QED
  BY <1>4, <1>5, <1>6, <1>7 DEF IInv

LEMMA NextIInv ==
  ASSUME IInv, KeyInLaunch = FALSE, [Next]_vars
  PROVE  IInv'
<1>0. TypeOK
  BY DEF IInv
<1>1. ASSUME NEW i \in Irqs, Raise(i)
      PROVE  IInv'
  BY <1>0, <1>1, QuietStep DEF Raise, TypeOK
<1>2. ASSUME NEW i \in Irqs, Deliver(i)
      PROVE  IInv'
  BY <1>2, DeliverStep
<1>3. CASE Boot
  BY <1>3, BootSteps, InitShellsStep, EntrySchedStep DEF Boot
<1>4. CASE Handler
  <2>1. CASE pit_sti
    <3>1. enabled' \in BOOLEAN
      BY <2>1 DEF pit_sti
    <3> QED
      BY <2>1, <3>1, MoveStep DEF pit_sti
  <2>2. CASE pit_eoi
    BY <1>0, <2>2, EoiStep DEF pit_eoi, TypeOK
  <2>3. CASE pit_sched
    BY <2>3, PitSchedStep
  <2>4. CASE pit_iret \/ keyboard_iret
    BY <2>4, ReturnStep DEF pit_iret, keyboard_iret
  <2>5. CASE keyboard_int
    BY <2>5, MoveStep DEF keyboard_int
  <2>6. CASE keyboard_eoi
    BY <2>6, EoiStep DEF keyboard_eoi
  <2>7. CASE rtc_int
    BY <2>7, RtcStep
  <2> QED
    BY <1>4, <2>1, <2>2, <2>3, <2>4, <2>5, <2>6, <2>7 DEF Handler
<1>5. CASE execute
  BY <1>5, ExecuteStep
<1>6. CASE execute_sched
  BY <1>6, ExecuteSchedStep
<1>7. CASE halt32
  BY <1>7, HaltStep
<1>8. CASE UNCHANGED vars
  BY <1>0, <1>8, QuietStep DEF vars, pic, TypeOK
<1>9. CASE exception \/ call_sti \/ call_iret
  BY <1>9, FlagStep
<1> QED
  BY <1>1, <1>2, <1>3, <1>4, <1>5, <1>6, <1>7, <1>8, <1>9 DEF Next

\* The invariant holds for any number of slots and terminals and any nesting.
THEOREM Invariance ==
  ASSUME KeyInLaunch = FALSE
  PROVE  Spec => []IInv
<1>1. Init => IInv
  BY InitIInv
<1>2. IInv /\ [Next]_vars => IInv'
  BY NextIInv
<1> QED
  BY <1>1, <1>2, PTL DEF Spec

\* Type correctness: every variable keeps its type, and sched and halt32 only ever
\* hand the processor to a process slot.
THEOREM TypeCorrect ==
  ASSUME KeyInLaunch = FALSE
  PROVE  Spec => []TypeOK
<1>1. IInv => TypeOK
  BY DEF IInv
<1> QED
  BY <1>1, Invariance, PTL

\* Every line in service belongs to exactly one handler that owes its end of
\* interrupt and whose stack gets the processor again, although sched leaves
\* handlers behind and halt32 throws frames away.
THEOREM ServiceOwned ==
  ASSUME KeyInLaunch = FALSE
  PROVE  Spec => []ServiceHasOwner
<1>1. IInv => ServiceHasOwner
  <2> SUFFICES ASSUME IInv
               PROVE  ServiceHasOwner
    OBVIOUS
  <2>1. \A p \in Stacks : DOMAIN frames[p] = 1..Len(frames[p])
    BY FramesTyped DEF IInv
  <2>2. \A i \in Irqs : Line(i) \in master_isr <=>
          \E p \in Stacks : Resumable(p) /\ \E k \in DOMAIN frames[p] : Owes(p, k, i)
    BY <2>1 DEF IInv, ServiceInv, Owed
  <2>3. \A p, q \in Stacks : \A k \in DOMAIN frames[p], l \in DOMAIN frames[q] :
          \A i \in Irqs : Owes(p, k, i) /\ Owes(q, l, i) => p = q /\ k = l
    BY <2>1 DEF IInv, ServiceInv
  <2>4. slave_isr # {} <=> SLAVE_IRQ \in master_isr
    BY DEF IInv, ServiceInv
  <2> QED
    BY <2>2, <2>3, <2>4 DEF ServiceHasOwner
<1> QED
  BY <1>1, Invariance, PTL

=============================================================================
