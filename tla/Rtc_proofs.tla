------------------------------- MODULE Rtc_proofs -------------------------------
(***************************************************************************)
(* Proofs about Rtc, for any set of terminals, depths, rates and number of *)
(* descriptors, when no tick comes between the record of the rate and the  *)
(* chip.                                                                   *)
(***************************************************************************)
EXTENDS Rtc, TLAPS

-----------------------------------------------------------------------------
(* The inductive invariant *)

\* A call that is about to program the chip is the current one, and the record
\* already holds its rate.
RecordInv ==
  /\ \A p \in Pids : pc[p] = "program" => current_pid = p /\ newRate[p] = current_rtc_freq
  /\ RecordIsHardware

\* The points of a call that sets a rate.
Setting == {"program", "store"}

\* Such a call has a rate, and a descriptor that is open or a place for the one
\* it opens.
CallInv ==
  \A p \in Pids :
    /\ pc[p] \in Setting => newRate[p] \in Rates
    /\ pc[p] \in Setting /\ opening[p] => rtc_fds[p] < MaxRtcFds
    /\ pc[p] \in Setting /\ ~opening[p] => rtc_fds[p] > 0
    /\ opening[p] => pc[p] \in Setting
    /\ pc[p] = "mark" => rtc_fds[p] < MaxRtcFds

\* A reader that can see the flag has had an interrupt.
HeardInv ==
  /\ ReadWaitsForInterrupt
  /\ \A p \in Pids : pc[p] = "spin" /\ rtc_int_flag = 1 => p \in heard

IInv ==
  /\ TypeOK
  /\ RecordInv
  /\ CallInv
  /\ RateOnlyWhileOpen
  /\ HeardInv

-----------------------------------------------------------------------------
(* Constants *)

LEMMA PidsMember ==
  ASSUME NEW t \in Terms, NEW d \in Nat, d <= MaxDepth[t]
  PROVE  <<t, d>> \in Pids
  BY RtcAssumption DEF Pids

LEMMA ForegroundIsPid ==
  ASSUME TypeOK, NEW t \in Terms
  PROVE  <<t, top[t]>> \in Pids
  BY PidsMember DEF TypeOK


-----------------------------------------------------------------------------
(* Every part of the invariant is preserved by every action *)

\* The types, with CallInv for the number of open descriptors.
LEMMA TypeStep ==
  ASSUME TypeOK, CallInv, [Next]_vars
  PROVE  TypeOK'
  <1>. USE DEF TypeOK, Points, Reading
  <1>1. ASSUME rtc_int
        PROVE  TypeOK'
    BY <1>1 DEF rtc_int, clock, call
  <1>2. ASSUME NEW p \in Pids, rtc_open(p)
        PROVE  TypeOK'
    BY <1>2, RtcAssumption DEF rtc_open, rtc_set_freq, Program, At, Goto
  <1>3. ASSUME NEW p \in Pids, NEW f \in Rates, rtc_write(p, f)
        PROVE  TypeOK'
    BY <1>3 DEF rtc_write, rtc_set_freq, Program, At, Goto
  <1>4. ASSUME NEW p \in Pids, rtc_close(p)
        PROVE  TypeOK'
    BY <1>4 DEF rtc_close, At, Goto, clock
  <1>5. ASSUME NEW p \in Pids, rtc_read(p)
        PROVE  TypeOK'
    BY <1>5 DEF rtc_read, Program, At, Goto, clock, call
  <1>6. ASSUME NEW p \in Pids, set_rate(p)
        PROVE  TypeOK'
    <2>1. newRate[p] \in Rates
      BY <1>6 DEF set_rate, At, CallInv, Setting
    <2>. QED
      BY <1>6, <2>1 DEF set_rate, At, Goto, clock
  <1>7. ASSUME NEW p \in Pids, store_rate(p)
        PROVE  TypeOK'
    <2>1. newRate[p] \in Rates
      BY <1>7 DEF store_rate, At, CallInv, Setting
    <2>. QED
      BY <1>7, <2>1 DEF store_rate, At, Goto, clock
  <1>8. ASSUME NEW p \in Pids, rtc_spin(p)
        PROVE  TypeOK'
    BY <1>8 DEF rtc_spin, At, Goto, clock
  <1>9. ASSUME NEW p \in Pids, rtc_clear(p)
        PROVE  TypeOK'
    BY <1>9 DEF rtc_clear, At, Goto, clock
  <1>10. ASSUME NEW t \in Terms, pit_int(t)
        PROVE  TypeOK'
    <2>1. <<t, top[t]>> \in Pids
      BY ForegroundIsPid
    <2>2. hardware' \in Rates /\ current_rtc_freq' \in Rates
      BY <1>10, <2>1 DEF pit_int, Resume, clock
    <2>3. current_pid' \in {<<s, top'[s]>> : s \in Terms}
      BY <1>10 DEF pit_int, Resume
    <2>. QED
      BY <1>10, <2>2, <2>3 DEF pit_int, call
  <1>11. ASSUME NEW t \in Terms, execute(t)
        PROVE  TypeOK'
    <2>1. top' \in [Terms -> Nat] /\ (\A s \in Terms : top'[s] <= MaxDepth[s])
      <3>1. top' = [top EXCEPT ![t] = top[t] + 1] /\ top[t] < MaxDepth[t]
        BY <1>11 DEF execute
      <3>2. MaxDepth \in [Terms -> Nat] /\ top \in [Terms -> Nat] /\ (\A s \in Terms : top[s] <= MaxDepth[s])
        BY RtcAssumption
      <3>3. top[t] + 1 \in Nat /\ top[t] + 1 <= MaxDepth[t]
        BY <3>1, <3>2
      <3>4. top' \in [Terms -> Nat]
        BY <3>1, <3>2, <3>3
      <3>5. \A s \in Terms : top'[s] <= MaxDepth[s]
        BY <3>1, <3>2, <3>3
      <3>. QED
        BY <3>4, <3>5
    <2>2. rtc_freq' \in [Pids -> Rates \cup {NONE}]
      BY <1>11 DEF execute
    <2>3. PICK s \in Terms : Resume(<<s, top'[s]>>, rtc_freq'[<<s, top'[s]>>])
      BY <1>11 DEF execute
    <2>4. <<s, top'[s]>> \in Pids
      BY <2>1, PidsMember
    <2>5. hardware' \in Rates /\ current_rtc_freq' \in Rates
      BY <2>2, <2>3, <2>4 DEF Resume, clock
    <2>6. current_pid' \in {<<u, top'[u]>> : u \in Terms}
      BY <2>3 DEF Resume
    <2>. QED
      BY <1>11, <2>1, <2>2, <2>5, <2>6 DEF execute, call
  <1>12. ASSUME NEW t \in Terms, halt32(t)
        PROVE  TypeOK'
    <2>1. top' \in [Terms -> Nat] /\ (\A s \in Terms : top'[s] <= MaxDepth[s])
      <3>1. top' = [top EXCEPT ![t] = top[t] - 1] /\ top[t] > 0
        BY <1>12 DEF halt32
      <3>2. MaxDepth \in [Terms -> Nat] /\ top \in [Terms -> Nat] /\ (\A s \in Terms : top[s] <= MaxDepth[s])
        BY RtcAssumption
      <3>3. top[t] - 1 \in Nat /\ top[t] - 1 <= MaxDepth[t]
        BY <3>1, <3>2
      <3>4. top' \in [Terms -> Nat]
        BY <3>1, <3>2, <3>3
      <3>5. \A s \in Terms : top'[s] <= MaxDepth[s]
        BY <3>1, <3>2, <3>3
      <3>. QED
        BY <3>4, <3>5
    <2>2. current_pid' = <<t, top'[t]>>
      BY <1>12 DEF halt32
    <2>3. current_pid' \in {<<s, top'[s]>> : s \in Terms}
      BY <2>2
    <2>4. rtc_fds' \in [Pids -> 0..MaxRtcFds]
      <3>1. 0 \in 0..MaxRtcFds
        BY RtcAssumption
      <3>. QED
        BY <1>12, <3>1 DEF halt32
    <2>5. rtc_freq' \in [Pids -> Rates \cup {NONE}]
      BY <1>12 DEF halt32
    <2>. QED
      BY <1>12, <2>1, <2>3, <2>4, <2>5 DEF halt32, clock, call
  <1>13. ASSUME UNCHANGED vars
        PROVE  TypeOK'
    BY <1>13 DEF vars, clock, call
  <1>14. ASSUME NEW p \in Pids, set_fd_open(p)
        PROVE  TypeOK'
    <2>1. rtc_fds[p] < MaxRtcFds
      BY <1>14 DEF set_fd_open, At, CallInv
    <2>2. rtc_fds[p] + 1 \in 0..MaxRtcFds
      BY <2>1, RtcAssumption
    <2>3. rtc_fds' \in [Pids -> 0..MaxRtcFds]
      BY <1>14, <2>2 DEF set_fd_open
    <2>. QED
      BY <1>14, <2>3 DEF set_fd_open, At, Goto, clock
  <1>15. ASSUME NEW p \in Pids, set_fd_close(p)
        PROVE  TypeOK'
    <2>1. rtc_fds[p] - 1 \in 0..MaxRtcFds
      BY <1>15, RtcAssumption DEF set_fd_close
    <2>2. rtc_fds' \in [Pids -> 0..MaxRtcFds]
      BY <1>15, <2>1 DEF set_fd_close
    <2>. QED
      BY <1>15, <2>2 DEF set_fd_close, Program, At, Goto, clock
  <1>. QED
    BY <1>1, <1>2, <1>3, <1>4, <1>5, <1>6, <1>7, <1>8, <1>9, <1>10, <1>11, <1>12, <1>13, <1>14, <1>15
    DEF Next, CallStep

\* The record and the chip: only the current call can be between the two.
LEMMA RecordStep ==
  ASSUME TypeOK, RecordInv, "program" \notin TickPoints, [Next]_vars
  PROVE  RecordInv'
  <1>. USE DEF TypeOK, RecordInv, RecordIsHardware, Points
  <1>1. ASSUME rtc_int
        PROVE  RecordInv'
    BY <1>1 DEF rtc_int, clock, call
  <1>2. ASSUME NEW p \in Pids, rtc_open(p)
        PROVE  RecordInv'
    BY <1>2 DEF rtc_open, rtc_set_freq, Program, At, Goto
  <1>3. ASSUME NEW p \in Pids, NEW f \in Rates, rtc_write(p, f)
        PROVE  RecordInv'
    BY <1>3 DEF rtc_write, rtc_set_freq, Program, At, Goto
  <1>4. ASSUME NEW p \in Pids, rtc_close(p)
        PROVE  RecordInv'
    BY <1>4 DEF rtc_close, At, Goto, clock
  <1>5. ASSUME NEW p \in Pids, rtc_read(p)
        PROVE  RecordInv'
    BY <1>5 DEF rtc_read, Program, At, Goto, clock, call
  <1>6. ASSUME NEW p \in Pids, set_rate(p)
        PROVE  RecordInv'
    BY <1>6 DEF set_rate, At, Goto, clock
  <1>7. ASSUME NEW p \in Pids, store_rate(p)
        PROVE  RecordInv'
    BY <1>7 DEF store_rate, At, Goto, clock
  <1>8. ASSUME NEW p \in Pids, rtc_spin(p)
        PROVE  RecordInv'
    BY <1>8 DEF rtc_spin, At, Goto, clock
  <1>9. ASSUME NEW p \in Pids, rtc_clear(p)
        PROVE  RecordInv'
    BY <1>9 DEF rtc_clear, At, Goto, clock
  <1>10. ASSUME NEW t \in Terms, pit_int(t)
        PROVE  RecordInv'
    BY <1>10 DEF pit_int, Resume, clock, call
  <1>11. ASSUME NEW t \in Terms, execute(t)
        PROVE  RecordInv'
    BY <1>11 DEF execute, Resume, At, clock, call
  <1>12. ASSUME NEW t \in Terms, halt32(t)
        PROVE  RecordInv'
    BY <1>12 DEF halt32, At, clock, call
  <1>13. ASSUME UNCHANGED vars
        PROVE  RecordInv'
    BY <1>13 DEF vars, clock, call
  <1>14. ASSUME NEW p \in Pids, set_fd_open(p)
        PROVE  RecordInv'
    BY <1>14 DEF set_fd_open, At, Goto, clock
  <1>15. ASSUME NEW p \in Pids, set_fd_close(p)
        PROVE  RecordInv'
    BY <1>15 DEF set_fd_close, Program, At, Goto, clock
  <1>. QED
    BY <1>1, <1>2, <1>3, <1>4, <1>5, <1>6, <1>7, <1>8, <1>9, <1>10, <1>11, <1>12, <1>13, <1>14, <1>15
    DEF Next, CallStep

\* The call in progress.
LEMMA CallStepInv ==
  ASSUME TypeOK, CallInv, [Next]_vars
  PROVE  CallInv'
  <1>. USE DEF TypeOK, CallInv, Setting
  <1>1. ASSUME rtc_int
        PROVE  CallInv'
    BY <1>1 DEF rtc_int, clock, call
  <1>2. ASSUME NEW p \in Pids, rtc_open(p)
        PROVE  CallInv'
    BY <1>2, RtcAssumption DEF rtc_open, rtc_set_freq, Program, At, Goto
  <1>3. ASSUME NEW p \in Pids, NEW f \in Rates, rtc_write(p, f)
        PROVE  CallInv'
    BY <1>3 DEF rtc_write, rtc_set_freq, Program, At, Goto
  <1>4. ASSUME NEW p \in Pids, rtc_close(p)
        PROVE  CallInv'
    BY <1>4 DEF rtc_close, At, Goto, clock
  <1>5. ASSUME NEW p \in Pids, rtc_read(p)
        PROVE  CallInv'
    BY <1>5 DEF rtc_read, Program, At, Goto, clock, call
  <1>6. ASSUME NEW p \in Pids, set_rate(p)
        PROVE  CallInv'
    BY <1>6 DEF set_rate, At, Goto, clock
  <1>7. ASSUME NEW p \in Pids, store_rate(p)
        PROVE  CallInv'
    BY <1>7 DEF store_rate, At, Goto, clock
  <1>8. ASSUME NEW p \in Pids, rtc_spin(p)
        PROVE  CallInv'
    BY <1>8 DEF rtc_spin, At, Goto, clock
  <1>9. ASSUME NEW p \in Pids, rtc_clear(p)
        PROVE  CallInv'
    BY <1>9 DEF rtc_clear, At, Goto, clock
  <1>10. ASSUME NEW t \in Terms, pit_int(t)
        PROVE  CallInv'
    BY <1>10 DEF pit_int, Resume, clock, call
  <1>11. ASSUME NEW t \in Terms, execute(t)
        PROVE  CallInv'
    BY <1>11 DEF execute, Resume, At, clock, call
  <1>12. ASSUME NEW t \in Terms, halt32(t)
        PROVE  CallInv'
    BY <1>12 DEF halt32, At, clock, call
  <1>13. ASSUME UNCHANGED vars
        PROVE  CallInv'
    BY <1>13 DEF vars, clock, call
  <1>14. ASSUME NEW p \in Pids, set_fd_open(p)
        PROVE  CallInv'
    BY <1>14 DEF set_fd_open, At, Goto, clock
  <1>15. ASSUME NEW p \in Pids, set_fd_close(p)
        PROVE  CallInv'
    BY <1>15 DEF set_fd_close, Program, At, Goto, clock
  <1>. QED
    BY <1>1, <1>2, <1>3, <1>4, <1>5, <1>6, <1>7, <1>8, <1>9, <1>10, <1>11, <1>12, <1>13, <1>14, <1>15
    DEF Next, CallStep

\* The rate in the PCB and the descriptors.
LEMMA RateStep ==
  ASSUME TypeOK, CallInv, RateOnlyWhileOpen, [Next]_vars
  PROVE  RateOnlyWhileOpen'
  <1>. USE DEF TypeOK, CallInv, Setting, RateOnlyWhileOpen
  <1>1. ASSUME rtc_int
        PROVE  RateOnlyWhileOpen'
    BY <1>1 DEF rtc_int, clock, call
  <1>2. ASSUME NEW p \in Pids, rtc_open(p)
        PROVE  RateOnlyWhileOpen'
    BY <1>2 DEF rtc_open, rtc_set_freq, Program, At, Goto
  <1>3. ASSUME NEW p \in Pids, NEW f \in Rates, rtc_write(p, f)
        PROVE  RateOnlyWhileOpen'
    BY <1>3 DEF rtc_write, rtc_set_freq, Program, At, Goto
  <1>4. ASSUME NEW p \in Pids, rtc_close(p)
        PROVE  RateOnlyWhileOpen'
    BY <1>4 DEF rtc_close, At, Goto, clock
  <1>5. ASSUME NEW p \in Pids, rtc_read(p)
        PROVE  RateOnlyWhileOpen'
    BY <1>5 DEF rtc_read, Program, At, Goto, clock, call
  <1>6. ASSUME NEW p \in Pids, set_rate(p)
        PROVE  RateOnlyWhileOpen'
    BY <1>6 DEF set_rate, At, Goto, clock
  <1>7. ASSUME NEW p \in Pids, store_rate(p)
        PROVE  RateOnlyWhileOpen'
    BY <1>7 DEF store_rate, At, Goto, clock
  <1>8. ASSUME NEW p \in Pids, rtc_spin(p)
        PROVE  RateOnlyWhileOpen'
    BY <1>8 DEF rtc_spin, At, Goto, clock
  <1>9. ASSUME NEW p \in Pids, rtc_clear(p)
        PROVE  RateOnlyWhileOpen'
    BY <1>9 DEF rtc_clear, At, Goto, clock
  <1>10. ASSUME NEW t \in Terms, pit_int(t)
        PROVE  RateOnlyWhileOpen'
    BY <1>10 DEF pit_int, Resume, clock, call
  <1>11. ASSUME NEW t \in Terms, execute(t)
        PROVE  RateOnlyWhileOpen'
    BY <1>11 DEF execute, Resume, At, clock, call
  <1>12. ASSUME NEW t \in Terms, halt32(t)
        PROVE  RateOnlyWhileOpen'
    BY <1>12 DEF halt32, At, clock, call
  <1>13. ASSUME UNCHANGED vars
        PROVE  RateOnlyWhileOpen'
    BY <1>13 DEF vars, clock, call
  <1>14. ASSUME NEW p \in Pids, set_fd_open(p)
        PROVE  RateOnlyWhileOpen'
    BY <1>14 DEF set_fd_open, At, Goto, clock
  <1>15. ASSUME NEW p \in Pids, set_fd_close(p)
        PROVE  RateOnlyWhileOpen'
    BY <1>15 DEF set_fd_close, Program, At, Goto, clock
  <1>. QED
    BY <1>1, <1>2, <1>3, <1>4, <1>5, <1>6, <1>7, <1>8, <1>9, <1>10, <1>11, <1>12, <1>13, <1>14, <1>15
    DEF Next, CallStep

\* The readers.
LEMMA HeardStep ==
  ASSUME TypeOK, HeardInv, [Next]_vars
  PROVE  HeardInv'
  <1>. USE DEF TypeOK, HeardInv, ReadWaitsForInterrupt, Reading
  <1>1. ASSUME rtc_int
        PROVE  HeardInv'
    BY <1>1 DEF rtc_int, clock, call
  <1>2. ASSUME NEW p \in Pids, rtc_open(p)
        PROVE  HeardInv'
    BY <1>2 DEF rtc_open, rtc_set_freq, Program, At, Goto
  <1>3. ASSUME NEW p \in Pids, NEW f \in Rates, rtc_write(p, f)
        PROVE  HeardInv'
    BY <1>3 DEF rtc_write, rtc_set_freq, Program, At, Goto
  <1>4. ASSUME NEW p \in Pids, rtc_close(p)
        PROVE  HeardInv'
    BY <1>4 DEF rtc_close, At, Goto, clock
  <1>5. ASSUME NEW p \in Pids, rtc_read(p)
        PROVE  HeardInv'
    BY <1>5 DEF rtc_read, Program, At, Goto, clock, call
  <1>6. ASSUME NEW p \in Pids, set_rate(p)
        PROVE  HeardInv'
    BY <1>6 DEF set_rate, At, Goto, clock
  <1>7. ASSUME NEW p \in Pids, store_rate(p)
        PROVE  HeardInv'
    BY <1>7 DEF store_rate, At, Goto, clock
  <1>8. ASSUME NEW p \in Pids, rtc_spin(p)
        PROVE  HeardInv'
    BY <1>8 DEF rtc_spin, At, Goto, clock
  <1>9. ASSUME NEW p \in Pids, rtc_clear(p)
        PROVE  HeardInv'
    BY <1>9 DEF rtc_clear, At, Goto, clock
  <1>10. ASSUME NEW t \in Terms, pit_int(t)
        PROVE  HeardInv'
    BY <1>10 DEF pit_int, Resume, clock, call
  <1>11. ASSUME NEW t \in Terms, execute(t)
        PROVE  HeardInv'
    BY <1>11 DEF execute, Resume, At, clock, call
  <1>12. ASSUME NEW t \in Terms, halt32(t)
        PROVE  HeardInv'
    BY <1>12 DEF halt32, At, clock, call
  <1>13. ASSUME UNCHANGED vars
        PROVE  HeardInv'
    BY <1>13 DEF vars, clock, call
  <1>14. ASSUME NEW p \in Pids, set_fd_open(p)
        PROVE  HeardInv'
    BY <1>14 DEF set_fd_open, At, Goto, clock
  <1>15. ASSUME NEW p \in Pids, set_fd_close(p)
        PROVE  HeardInv'
    BY <1>15 DEF set_fd_close, Program, At, Goto, clock
  <1>. QED
    BY <1>1, <1>2, <1>3, <1>4, <1>5, <1>6, <1>7, <1>8, <1>9, <1>10, <1>11, <1>12, <1>13, <1>14, <1>15
    DEF Next, CallStep

LEMMA InitIInv == Init => IInv
  <1>. SUFFICES ASSUME Init
                PROVE  IInv
    OBVIOUS
  <1>. USE DEF Init
  <1>1. TypeOK
    BY RtcAssumption DEF TypeOK, Points
  <1>2. RecordInv
    BY DEF RecordInv, RecordIsHardware
  <1>3. CallInv
    BY DEF CallInv, Setting
  <1>4. RateOnlyWhileOpen
    BY DEF RateOnlyWhileOpen
  <1>5. HeardInv
    BY DEF HeardInv, ReadWaitsForInterrupt
  <1>. QED
    BY <1>1, <1>2, <1>3, <1>4, <1>5 DEF IInv

-----------------------------------------------------------------------------
(* Theorems *)

\* The inductive invariant holds in every reachable state.
THEOREM Invariance ==
  ASSUME "program" \notin TickPoints
  PROVE  Spec => []IInv
  <1>1. Init => IInv
    BY InitIInv
  <1>2. IInv /\ [Next]_vars => IInv'
    BY TypeStep, RecordStep, CallStepInv, RateStep, HeardStep DEF IInv
  <1>. QED
    BY <1>1, <1>2, PTL DEF Spec

\* Every variable keeps its type.
THEOREM TypeCorrect ==
  ASSUME "program" \notin TickPoints
  PROVE  Spec => []TypeOK
  <1>1. IInv => TypeOK
    BY DEF IInv
  <1>. QED
    BY <1>1, Invariance, PTL

\* The driver's record of the rate agrees with the chip (rtc.c:52-54, 91-97).
THEOREM RecordCorrect ==
  ASSUME "program" \notin TickPoints
  PROVE  Spec => []RecordIsHardware
  <1>1. IInv => RecordIsHardware
    BY DEF IInv, RecordInv
  <1>. QED
    BY <1>1, Invariance, PTL

\* Only processes with the clock open, or in the call that opens or closes it,
\* have a rate (rtc.c:109-123, syscall.c:274-302), also when ticks cut those calls.
THEOREM RateImpliesOpen ==
  ASSUME "program" \notin TickPoints
  PROVE  Spec => []RateOnlyWhileOpen
  <1>1. IInv => RateOnlyWhileOpen
    BY DEF IInv
  <1>. QED
    BY <1>1, Invariance, PTL

\* A read returns only after an interrupt of its own (rtc.c:131-138).
THEOREM ReadWaits ==
  ASSUME "program" \notin TickPoints
  PROVE  Spec => []ReadWaitsForInterrupt
  <1>1. IInv => ReadWaitsForInterrupt
    BY DEF IInv, HeardInv
  <1>. QED
    BY <1>1, Invariance, PTL

\* A tick leaves the chip at the rate of the process it resumes (schedule.c:89-90).
THEOREM SwitchRestores ==
  ASSUME "program" \notin TickPoints
  PROVE  Spec => SwitchRestoresRate
  <1>1. ASSUME IInv, NEW t \in Terms, pit_int(t)
        PROVE  rtc_freq[<<t, top[t]>>] \in {NONE, hardware'}
    <2>1. pc[current_pid] # "program"
      BY <1>1 DEF pit_int
    <2>2. hardware = current_rtc_freq
      BY <1>1, <2>1 DEF IInv, RecordInv, RecordIsHardware
    <2>. QED
      BY <1>1, <2>2 DEF pit_int, Resume, clock
  <1>2. IInv /\ [Next]_vars =>
          [\A t \in Terms : pit_int(t) => rtc_freq[<<t, top[t]>>] \in {NONE, hardware'}]_vars
    BY <1>1
  <1>. QED
    BY <1>2, Invariance, PTL DEF Spec, SwitchRestoresRate
=============================================================================
