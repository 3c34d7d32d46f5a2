----------------------------- MODULE Terminal_proofs -----------------------------
(***************************************************************************)
(* Proofs about Terminal, for any set of terminals, buffer size, read      *)
(* sizes and characters, when no key arrives between the Enter that ends   *)
(* a read and the end of that read.                                        *)
(***************************************************************************)
EXTENDS Terminal, SequenceTheorems, TLAPS

\* The points where a key cannot change a line that is being delivered.
EditPoints == Waiting \cup {"user"}

-----------------------------------------------------------------------------
(* The inductive invariant *)

\* The buffer of t holds the line that was entered, if its newline was stored in the
\* buffer; it is not longer in any case.
LineOf(t) ==
  /\ Len(kb_buf[t]) <= Len(entered[t])
  /\ Len(entered[t]) <= KB_BUF_SIZE =>
       /\ entered[t] = kb_buf[t]
       /\ Len(kb_buf[t]) > 0
       /\ kb_buf[t][Len(kb_buf[t])] = NEWLINE

\* It does so from the Enter on until the read is over.
LineInv ==
  \A t \in Terms : pc[t] \in Reading /\ ~readWaiting[t] => LineOf(t)

\* The loop has copied the first idx bytes of the buffer.
CopyOf(t) ==
  /\ pc[t] \in EditPoints => result[t] = <<>>
  /\ pc[t] \in {"copy", "check", "reset"} =>
       /\ idx[t] <= count[t]
       /\ idx[t] <= Len(kb_buf[t])
       /\ result[t] = SubSeq(kb_buf[t], 1, idx[t])
  /\ pc[t] = "check" => idx[t] = count[t] \/ idx[t] = Len(kb_buf[t])
  /\ pc[t] = "reset" => idx[t] = Len(kb_buf[t])

CopyInv == \A t \in Terms : CopyOf(t)

IInv ==
  /\ TypeOK
  /\ FlagHasReader
  /\ LineInv
  /\ CopyInv

\* Outside a delivery there is room for a newline; needs reads of whole lines.
RoomOf(t) ==
  /\ Len(kb_buf[t]) <= KB_BUF_SIZE
  /\ pc[t] = "user" \/ readWaiting[t] => Len(kb_buf[t]) < KB_BUF_SIZE
  /\ pc[t] \in Reading => count[t] >= KB_BUF_SIZE

RoomInv == \A t \in Terms : RoomOf(t)

WholeReads == \A n \in ReadCounts : n >= KB_BUF_SIZE

-----------------------------------------------------------------------------
(* Facts about sequences *)

\* One more byte of the buffer extends the copied prefix by that byte.
LEMMA PrefixGrows ==
  ASSUME NEW S, NEW s \in Seq(S), NEW i \in Nat, i < Len(s)
  PROVE  Append(SubSeq(s, 1, i), s[i + 1]) = SubSeq(s, 1, i + 1)
  OBVIOUS

\* The prefix of full length is the sequence, the empty prefix is empty.
LEMMA WholePrefix ==
  ASSUME NEW S, NEW s \in Seq(S)
  PROVE  /\ SubSeq(s, 1, Len(s)) = s
         /\ SubSeq(s, 1, 0) = <<>>
  OBVIOUS

\* A prefix is a sequence of its own length.
LEMMA PrefixOf ==
  ASSUME NEW S, NEW s \in Seq(S), NEW n \in Nat, n <= Len(s)
  PROVE  SubSeq(s, 1, n) \in Seq(S) /\ Len(SubSeq(s, 1, n)) = n
  <1>1. Len(s) \in Nat /\ \A i \in 1..n : s[i] \in S
    BY LenProperties, ElementOfSeq
  <1>. QED
    BY <1>1, SubSeqProperties

\* Removing the last byte leaves a sequence one shorter.
LEMMA FrontShorter ==
  ASSUME NEW S, NEW s \in Seq(S), s # <<>>
  PROVE  Front(s) \in Seq(S) /\ Len(Front(s)) = Len(s) - 1
  <1>1. Len(s) \in Nat /\ Len(s) # 0
    BY EmptySeq
  <1>2. \A i \in 1..(Len(s) - 1) : s[i] \in S
    BY <1>1, ElementOfSeq
  <1>3. PICK n \in Int : n = Len(s) - 1
    BY <1>1
  <1>4. /\ SubSeq(s, 1, n) \in Seq(S)
        /\ Len(SubSeq(s, 1, n)) = IF 1 <= n THEN n - 1 + 1 ELSE 0
    BY <1>2, <1>3, SubSeqProperties
  <1>. QED
    BY <1>1, <1>3, <1>4 DEF Front

\* The spaces of a Tab are a sequence.
LEMMA BlanksAreBytes ==
  ASSUME NEW n \in Nat
  PROVE  [i \in 1..n |-> Blank] \in Seq(Bytes) /\ Len([i \in 1..n |-> Blank]) = n
  BY DEF Bytes

-----------------------------------------------------------------------------
(* Initial states *)

LEMMA InitIInv ==
  ASSUME Init
  PROVE  IInv
  <1>1. TypeOK
    BY DEF Init, TypeOK
  <1>2. FlagHasReader /\ LineInv
    BY DEF Init, FlagHasReader, LineInv, LineOf, Reading, Waiting
  <1>3. CopyInv
    BY DEF Init, CopyInv, CopyOf, EditPoints, Reading, Waiting
  <1>. QED
    BY <1>1, <1>2, <1>3 DEF IInv

-----------------------------------------------------------------------------
(* Keys *)

\* A key for the displayed terminal finds it outside a delivery, and moves no
\* process except out of hlt.
LEMMA KeyFacts ==
  ASSUME IInv, keyboard_int, KeyPoints \subseteq EditPoints
  PROVE  /\ pc[display_term] \in EditPoints
         /\ pc[display_term] = "user" \/ readWaiting[display_term]
         /\ pc' \in [Terms -> Reading \cup {"user"}]
         /\ \A t \in Terms : pc'[t] = pc[t] \/ (pc[t] = "halted" /\ pc'[t] = "test")
  <1>1. Phase(display_term) \in EditPoints
    BY DEF keyboard_int
  <1>2. /\ pc[display_term] \in EditPoints
        /\ pc[display_term] = "user" \/ readWaiting[display_term]
    BY <1>1 DEF Phase, EditPoints, Waiting, IInv, TypeOK
  <1>3. /\ pc' \in [Terms -> Reading \cup {"user"}]
        /\ \A t \in Terms : pc'[t] = pc[t] \/ (pc[t] = "halted" /\ pc'[t] = "test")
    BY DEF keyboard_int, WakeRunning, IInv, TypeOK, Reading, Waiting
  <1>. QED
    BY <1>2, <1>3

\* A key that changes only the displayed terminal's buffer keeps the invariant.
LEMMA EditKeeps ==
  ASSUME IInv, keyboard_int, KeyPoints \subseteq EditPoints,
         kb_buf' \in [Terms -> Seq(Bytes)],
         \A t \in Terms : t # display_term => kb_buf'[t] = kb_buf[t],
         UNCHANGED <<display_term, readWaiting, entered>>
  PROVE  IInv'
  <1>. USE KeyFacts
  <1>1. TypeOK'
    BY DEF keyboard_int, IInv, TypeOK
  <1>2. FlagHasReader'
    BY DEF keyboard_int, IInv, FlagHasReader, Waiting
  <1>3. LineInv'
    <2>. SUFFICES ASSUME NEW t \in Terms, pc'[t] \in Reading, ~readWaiting'[t]
                  PROVE  LineOf(t)'
      BY DEF LineInv
    <2>1. pc[t] \in Reading /\ t # display_term
      BY DEF Reading, Waiting
    <2>. QED
      BY <2>1 DEF IInv, LineInv, LineOf
  <1>4. CopyInv'
    <2>. SUFFICES ASSUME NEW t \in Terms
                  PROVE  CopyOf(t)'
      BY DEF CopyInv
    <2>1. CASE t = display_term
      BY <2>1 DEF IInv, CopyInv, CopyOf, EditPoints, Waiting, keyboard_int
    <2>2. CASE t # display_term
      BY <2>2 DEF IInv, CopyInv, CopyOf, EditPoints, Waiting, keyboard_int
    <2>. QED
      BY <2>1, <2>2
  <1>. QED
    BY <1>1, <1>2, <1>3, <1>4 DEF IInv

LEMMA CharKeeps ==
  ASSUME IInv, term_keyboardChar, KeyPoints \subseteq EditPoints
  PROVE  IInv'
  <1>1. PICK c \in Chars : Type(display_term, <<c>>)
    BY DEF term_keyboardChar
  <1>2. <<c>> \in Seq(Bytes)
    BY DEF Bytes
  <1>3. kb_buf[display_term] \o <<c>> \in Seq(Bytes)
    BY <1>2, ConcatProperties DEF IInv, TypeOK
  <1>4. /\ kb_buf' \in [Terms -> Seq(Bytes)]
        /\ \A t \in Terms : t # display_term => kb_buf'[t] = kb_buf[t]
    BY <1>1, <1>3 DEF Type, IInv, TypeOK
  <1>. QED
    BY <1>4, EditKeeps DEF term_keyboardChar

LEMMA TabKeeps ==
  ASSUME IInv, term_keyboardTab, KeyPoints \subseteq EditPoints
  PROVE  IInv'
  <1>1. PICK n \in 1..TAB_STOP : Type(display_term, [i \in 1..n |-> Blank])
    BY DEF term_keyboardTab
  <1>2. PICK s \in Seq(Bytes) : s = [i \in 1..n |-> Blank]
    <2>1. n \in Nat
      BY TerminalAssumption
    <2>. QED
      BY <2>1, BlanksAreBytes
  <1>3. kb_buf[display_term] \o s \in Seq(Bytes)
    BY ConcatProperties DEF IInv, TypeOK
  <1>4. /\ kb_buf' \in [Terms -> Seq(Bytes)]
        /\ \A t \in Terms : t # display_term => kb_buf'[t] = kb_buf[t]
    BY <1>1, <1>2, <1>3 DEF Type, IInv, TypeOK
  <1>. QED
    BY <1>4, EditKeeps DEF term_keyboardTab

LEMMA BackspaceKeeps ==
  ASSUME IInv, term_keyboardBackspace, KeyPoints \subseteq EditPoints
  PROVE  IInv'
  <1>. DEFINE t == display_term
  <1>1. t \in Terms /\ kb_buf[t] \in Seq(Bytes)
    BY DEF IInv, TypeOK
  <1>2. Front(kb_buf[t]) \in Seq(Bytes)
    BY <1>1, FrontShorter DEF term_keyboardBackspace
  <1>3. kb_buf' \in [Terms -> Seq(Bytes)] /\ \A u \in Terms : u # t => kb_buf'[u] = kb_buf[u]
    BY <1>2 DEF term_keyboardBackspace, IInv, TypeOK
  <1>. QED
    BY <1>3, EditKeeps DEF term_keyboardBackspace

LEMMA ClearKeeps ==
  ASSUME IInv, clear_screen, KeyPoints \subseteq EditPoints
  PROVE  IInv'
  <1>1. kb_buf' \in [Terms -> Seq(Bytes)]
    BY DEF clear_screen, IInv, TypeOK
  <1>. QED
    BY <1>1, EditKeeps DEF clear_screen

LEMMA EnterKeeps ==
  ASSUME IInv, term_keyboardEnter, KeyPoints \subseteq EditPoints
  PROVE  IInv'
  <1>. DEFINE t == display_term
              line == Append(kb_buf[t], NEWLINE)
  <1>. USE KeyFacts
  <1>0. keyboard_int
    BY DEF term_keyboardEnter
  <1>1. t \in Terms /\ kb_buf[t] \in Seq(Bytes)
    BY DEF IInv, TypeOK
  <1>. DEFINE Line(b) == /\ Len(b) <= Len(line)
                         /\ Len(line) <= KB_BUF_SIZE =>
                              line = b /\ Len(b) > 0 /\ b[Len(b)] = NEWLINE
  <1>2. PICK b \in Stored(kb_buf[t]) :
          kb_buf' = [kb_buf EXCEPT ![t] = IF readWaiting[t] THEN b ELSE <<>>]
    BY DEF term_keyboardEnter
  <1>3. line \in Seq(Bytes) /\ b \in Seq(Bytes) /\ Line(b)
    <2>1. {NEWLINE, POS} \subseteq Bytes
      BY DEF Bytes
    <2>2. PICK s \in Seq(Bytes) : s = kb_buf[t]
      BY <1>1
    <2>3. ASSUME NEW c \in {NEWLINE, POS}
          PROVE  /\ Append(s, c) \in Seq(Bytes)
                 /\ Len(Append(s, c)) = Len(s) + 1
                 /\ Append(s, c)[Len(s) + 1] = c
      BY <2>1, AppendProperties
    <2>4. Len(s) \in Nat /\ Len(s) <= KB_BUF_SIZE /\ KB_BUF_SIZE \in Nat /\ LF \in Nat /\ LF < KB_BUF_SIZE
      BY <1>0, <2>2, LenProperties, TerminalAssumption DEF keyboard_int
    <2>5. CASE Len(s) < KB_BUF_SIZE
      <3>1. b = line
        BY <1>2, <2>2, <2>5 DEF Stored
      <3>. QED
        BY <2>2, <2>3, <2>4, <3>1
    <2>6. CASE ~(Len(s) < KB_BUF_SIZE)
      <3>1. b = SubSeq(s, 1, LF) \/ b = Append(s, POS)
        BY <1>2, <2>2, <2>6 DEF Stored
      <3>2. SubSeq(s, 1, LF) \in Seq(Bytes) /\ Len(SubSeq(s, 1, LF)) = LF
        BY <2>4, <2>6, PrefixOf
      <3>3. Len(line) = Len(s) + 1 /\ line \in Seq(Bytes)
        BY <2>2, <2>3
      <3>4. b \in Seq(Bytes) /\ Len(b) <= Len(s) + 1
        <4>1. CASE b = SubSeq(s, 1, LF)
          BY <2>4, <2>6, <3>2, <4>1
        <4>2. CASE b = Append(s, POS)
          <5>1. b \in Seq(Bytes) /\ Len(b) = Len(s) + 1
            BY <2>3, <4>2, Zenon
          <5>. QED
            BY <2>4, <5>1
        <4>. QED
          BY <3>1, <4>1, <4>2
      <3>. QED
        BY <2>4, <2>6, <3>3, <3>4
    <2>. QED
      BY <2>5, <2>6
  <1>4. TypeOK'
    <2>1. kb_buf' \in [Terms -> Seq(Bytes)] /\ entered' \in [Terms -> Seq(Bytes)]
      BY <1>2, <1>3, EmptySeq DEF term_keyboardEnter, IInv, TypeOK
    <2>. QED
      BY <1>0, <2>1 DEF term_keyboardEnter, keyboard_int, IInv, TypeOK
  <1>5. FlagHasReader'
    BY <1>0 DEF term_keyboardEnter, IInv, TypeOK, FlagHasReader, Waiting
  <1>6. LineInv'
    <2>. SUFFICES ASSUME NEW u \in Terms, pc'[u] \in Reading, ~readWaiting'[u]
                  PROVE  LineOf(u)'
      BY DEF LineInv
    <2>1. pc[u] \in Reading
      BY <1>0 DEF Reading, Waiting
    <2>2. CASE u = t
      <3>1. readWaiting[t]
        BY <1>0, <2>1, <2>2 DEF Reading, Waiting
      <3>2. kb_buf'[u] = b /\ entered'[u] = line
        BY <1>1, <1>2, <2>2, <3>1 DEF term_keyboardEnter, IInv, TypeOK
      <3>. QED
        BY <3>2, <1>3 DEF LineOf
    <2>3. CASE u # t
      BY <2>1, <2>3 DEF term_keyboardEnter, IInv, TypeOK, LineInv, LineOf
    <2>. QED
      BY <2>2, <2>3
  <1>7. CopyInv'
    <2>1. \A u \in Terms : pc[u] \in {"copy", "check", "reset"} \/ pc'[u] \in {"copy", "check", "reset"}
                            => u # t /\ pc'[u] = pc[u]
      BY <1>0 DEF EditPoints, Waiting
    <2>2. \A u \in Terms : u # t => kb_buf'[u] = kb_buf[u]
      BY DEF term_keyboardEnter, IInv, TypeOK
    <2>3. UNCHANGED <<idx, count, result>>
      BY <1>0 DEF keyboard_int
    <2>4. \A u \in Terms : pc'[u] \in EditPoints => pc[u] \in EditPoints
      BY <1>0 DEF EditPoints, Waiting
    <2>. QED
      BY <2>1, <2>2, <2>3, <2>4 DEF CopyInv, CopyOf, IInv
  <1>. QED
    BY <1>4, <1>5, <1>6, <1>7 DEF IInv

\* A timer tick and a terminal switch leave every buffer and every read alone.
LEMMA SwitchKeeps ==
  ASSUME IInv, WakeRunning, display_term' \in Terms, running' \in Terms,
         UNCHANGED <<kb_buf, readWaiting, reader>>
  PROVE  IInv'
  <1>1. /\ pc' \in [Terms -> Reading \cup {"user"}]
        /\ \A t \in Terms : pc'[t] = pc[t] \/ (pc[t] = "halted" /\ pc'[t] = "test")
    BY DEF WakeRunning, IInv, TypeOK, Reading, Waiting
  <1>2. TypeOK'
    BY <1>1 DEF IInv, TypeOK, reader
  <1>3. FlagHasReader' /\ LineInv'
    BY <1>1 DEF IInv, FlagHasReader, LineInv, LineOf, Reading, Waiting, reader
  <1>4. CopyInv'
    BY <1>1 DEF IInv, CopyInv, CopyOf, EditPoints, Waiting, reader
  <1>. QED
    BY <1>2, <1>3, <1>4 DEF IInv

-----------------------------------------------------------------------------
(* The steps of a read *)

\* A step of t's process that only moves it within the wait, or starts one.
LEMMA WaitStepKeeps ==
  ASSUME IInv, NEW t \in Terms, NEW p \in Waiting,
         pc[t] \in EditPoints, Goto(t, p),
         pc[t] = "user" => readWaiting'[t],
         readWaiting' = readWaiting \/ readWaiting' = [readWaiting EXCEPT ![t] = TRUE],
         count' \in [Terms -> Nat], idx' \in [Terms -> Nat],
         source' \in [Terms -> Terms],
         \A u \in Terms : u # t => count'[u] = count[u] /\ idx'[u] = idx[u],
         UNCHANGED <<display_term, kb_buf, running, result, entered>>
  PROVE  IInv'
  <1>1. /\ pc' \in [Terms -> Reading \cup {"user"}]
        /\ pc'[t] = p
        /\ \A u \in Terms : u # t => pc'[u] = pc[u] /\ readWaiting'[u] = readWaiting[u]
    BY DEF Goto, IInv, TypeOK, Reading
  <1>2. TypeOK'
    BY <1>1 DEF IInv, TypeOK
  <1>3. FlagHasReader'
    BY <1>1 DEF IInv, FlagHasReader
  <1>4. LineInv'
    BY <1>1, ZenonT(30) DEF IInv, TypeOK, LineInv, LineOf, EditPoints, Reading
  <1>5. CopyInv'
    <2>1. CopyOf(t)'
      BY <1>1 DEF IInv, CopyInv, CopyOf, EditPoints, Waiting
    <2>2. \A u \in Terms : u # t => CopyOf(u)'
      BY <1>1, ZenonT(30) DEF IInv, CopyInv, CopyOf
    <2>. QED
      BY <2>1, <2>2 DEF CopyInv
  <1>. QED
    BY <1>2, <1>3, <1>4, <1>5 DEF IInv

LEMMA StartKeeps ==
  ASSUME IInv, NEW t \in Terms, terminal_read(t)
  PROVE  IInv'
  <1>1. count' \in [Terms -> Nat] /\ \A u \in Terms : u # t => count'[u] = count[u]
    BY TerminalAssumption DEF terminal_read, IInv, TypeOK
  <1>2. readWaiting'[t] /\ pc[t] \in EditPoints /\ "peek" \in Waiting
    BY DEF terminal_read, At, IInv, TypeOK, EditPoints, Waiting
  <1>. QED
    BY <1>1, <1>2, WaitStepKeeps DEF terminal_read, IInv, TypeOK

LEMMA PeekKeeps ==
  ASSUME IInv, NEW t \in Terms, read_peek(t)
  PROVE  IInv'
  <1>1. /\ source' \in [Terms -> Terms] /\ idx' \in [Terms -> Nat]
        /\ \A u \in Terms : u # t => idx'[u] = idx[u]
    BY DEF read_peek, IInv, TypeOK
  <1>2. pc[t] \in EditPoints /\ pc[t] # "user" /\ {"show", "test"} \subseteq Waiting
    BY DEF read_peek, At, EditPoints, Waiting
  <1>3. Goto(t, "show") \/ Goto(t, "test")
    BY DEF read_peek
  <1>4. CASE Goto(t, "show")
    BY <1>1, <1>2, <1>4, WaitStepKeeps DEF read_peek, IInv, TypeOK
  <1>5. CASE Goto(t, "test")
    BY <1>1, <1>2, <1>5, WaitStepKeeps DEF read_peek, IInv, TypeOK
  <1>. QED
    BY <1>3, <1>4, <1>5

LEMMA ShowKeeps ==
  ASSUME IInv, NEW t \in Terms, term_showbuf(t)
  PROVE  IInv'
  <1>1. pc[t] \in EditPoints /\ pc[t] # "user" /\ {"show", "test"} \subseteq Waiting
    BY DEF term_showbuf, At, EditPoints, Waiting
  <1>2. Goto(t, "show") \/ Goto(t, "test")
    BY DEF term_showbuf, Goto, At, IInv, TypeOK
  <1>3. /\ idx' \in [Terms -> Nat] /\ source' \in [Terms -> Terms]
        /\ \A u \in Terms : u # t => idx'[u] = idx[u]
    <2>1. idx' = [idx EXCEPT ![t] = 0] \/ idx' = [idx EXCEPT ![t] = @ + 1]
      BY DEF term_showbuf
    <2>2. idx \in [Terms -> Nat]
      BY DEF IInv, TypeOK
    <2>3. source' \in [Terms -> Terms]
      <3>1. source' = source \/ source' = [source EXCEPT ![t] = t]
        BY DEF term_showbuf
      <3>2. source \in [Terms -> Terms]
        BY DEF IInv, TypeOK
      <3>. QED
        BY <3>1, <3>2
    <2>4. CASE idx' = [idx EXCEPT ![t] = 0]
      BY <2>2, <2>3, <2>4
    <2>5. CASE idx' = [idx EXCEPT ![t] = @ + 1]
      <3>1. idx[t] + 1 \in Nat
        BY <2>2
      <3>. QED
        BY <2>2, <2>3, <2>5, <3>1
    <2>. QED
      BY <2>1, <2>4, <2>5
  <1>5. CASE Goto(t, "show")
    BY <1>1, <1>3, <1>5, WaitStepKeeps DEF term_showbuf, IInv, TypeOK
  <1>6. CASE Goto(t, "test")
    BY <1>1, <1>3, <1>6, WaitStepKeeps DEF term_showbuf, IInv, TypeOK
  <1>. QED
    BY <1>2, <1>5, <1>6

LEMMA TestKeeps ==
  ASSUME IInv, NEW t \in Terms, read_test(t)
  PROVE  IInv'
  <1>1. CASE readWaiting[t]
    <2>1. pc[t] \in EditPoints /\ pc[t] # "user" /\ "hlt" \in Waiting
      BY DEF read_test, At, EditPoints, Waiting
    <2>. QED
      BY <1>1, <2>1, WaitStepKeeps DEF read_test, IInv, TypeOK
  <1>2. CASE ~readWaiting[t]
    <2>1. /\ pc' \in [Terms -> Reading \cup {"user"}] /\ idx' \in [Terms -> Nat]
          /\ pc[t] = "test" /\ pc'[t] = "copy" /\ idx'[t] = 0
          /\ \A u \in Terms : u # t => pc'[u] = pc[u] /\ idx'[u] = idx[u]
      <3>1. pc' = [pc EXCEPT ![t] = "copy"] /\ idx' = [idx EXCEPT ![t] = 0]
        BY <1>2 DEF read_test, Goto
      <3>. QED
        BY <3>1 DEF read_test, At, IInv, TypeOK, Reading
    <2>2. TypeOK'
      BY <2>1 DEF read_test, IInv, TypeOK
    <2>3. FlagHasReader' /\ LineInv'
      BY <1>2, <2>1 DEF read_test, IInv, FlagHasReader, LineInv, LineOf, Reading, Waiting
    <2>4. SubSeq(kb_buf[t], 1, 0) = <<>> /\ 0 <= count[t] /\ 0 <= Len(kb_buf[t])
      BY WholePrefix, LenProperties DEF IInv, TypeOK
    <2>5. CopyInv'
      BY <2>1, <2>4 DEF read_test, IInv, CopyInv, CopyOf, EditPoints, Waiting
    <2>. QED
      BY <2>2, <2>3, <2>5 DEF IInv
  <1>. QED
    BY <1>1, <1>2

LEMMA HltKeeps ==
  ASSUME IInv, NEW t \in Terms, read_hlt(t)
  PROVE  IInv'
  <1>1. pc[t] \in EditPoints /\ pc[t] # "user" /\ "halted" \in Waiting
    BY DEF read_hlt, At, EditPoints, Waiting
  <1>. QED
    BY <1>1, WaitStepKeeps DEF read_hlt, reader, IInv, TypeOK

LEMMA CopyKeeps ==
  ASSUME IInv, NEW t \in Terms, read_copy(t)
  PROVE  IInv'
  <1>0. PICK s \in Seq(Bytes), i \in Nat, n \in Nat :
          s = kb_buf[t] /\ i = idx[t] /\ n = count[t]
    BY DEF IInv, TypeOK
  <1>1. /\ pc[t] = "copy" /\ Len(s) \in Nat
        /\ i <= n /\ i <= Len(s) /\ result[t] = SubSeq(s, 1, i)
    BY <1>0, LenProperties DEF read_copy, At, IInv, CopyInv, CopyOf
  <1>2. CASE i < n /\ i < Len(s)
    <2>1. /\ s[i + 1] \in Bytes
          /\ Append(SubSeq(s, 1, i), s[i + 1]) = SubSeq(s, 1, i + 1)
      BY <1>1, <1>2, ElementOfSeq, PrefixGrows
    <2>2. Append(result[t], s[i + 1]) \in Seq(Bytes)
      BY <2>1, AppendProperties DEF IInv, TypeOK
    <2>3. /\ result' \in [Terms -> Seq(Bytes)] /\ idx' \in [Terms -> Nat]
          /\ idx'[t] = i + 1 /\ result'[t] = SubSeq(s, 1, i + 1) /\ pc' = pc
          /\ \A u \in Terms : u # t => result'[u] = result[u] /\ idx'[u] = idx[u]
      <3>1. /\ result' = [result EXCEPT ![t] = Append(@, s[i + 1])]
            /\ idx' = [idx EXCEPT ![t] = @ + 1]
            /\ pc' = pc
        BY <1>0, <1>2 DEF read_copy
      <3>2. idx' \in [Terms -> Nat] /\ idx'[t] = i + 1
        <4>1. idx \in [Terms -> Nat]
          BY DEF IInv, TypeOK
        <4>. QED
          BY <1>0, <3>1, <4>1
      <3>3. result' \in [Terms -> Seq(Bytes)] /\ result'[t] = SubSeq(s, 1, i + 1)
        BY <1>1, <2>1, <2>2, <3>1 DEF IInv, TypeOK
      <3>. QED
        BY <3>1, <3>2, <3>3 DEF IInv, TypeOK
    <2>4. TypeOK'
      BY <2>3 DEF read_copy, IInv, TypeOK
    <2>5. FlagHasReader' /\ LineInv'
      BY <2>3 DEF read_copy, IInv, FlagHasReader, LineInv, LineOf
    <2>6. CopyInv'
      <3>1. CopyOf(t)'
        BY <1>0, <1>1, <1>2, <2>3 DEF read_copy, CopyOf, EditPoints, Waiting
      <3>2. \A u \in Terms : u # t => CopyOf(u)'
        BY <2>3 DEF read_copy, IInv, CopyInv, CopyOf
      <3>. QED
        BY <3>1, <3>2 DEF CopyInv
    <2>. QED
      BY <2>4, <2>5, <2>6 DEF IInv
  <1>3. CASE ~(i < n /\ i < Len(s))
    <2>1. /\ pc' \in [Terms -> Reading \cup {"user"}] /\ pc'[t] = "check"
          /\ \A u \in Terms : u # t => pc'[u] = pc[u]
          /\ UNCHANGED <<idx, result, count, kb_buf>>
      BY <1>0, <1>3 DEF read_copy, Goto, IInv, TypeOK, Reading
    <2>2. TypeOK'
      BY <2>1 DEF read_copy, IInv, TypeOK
    <2>3. FlagHasReader' /\ LineInv'
      BY <1>1, <2>1 DEF read_copy, IInv, FlagHasReader, LineInv, LineOf, Reading, Waiting
    <2>4. CopyInv'
      <3>1. CopyOf(t)'
        BY <1>0, <1>1, <1>3, <2>1 DEF CopyOf, EditPoints, Waiting
      <3>2. \A u \in Terms : u # t => CopyOf(u)'
        BY <2>1 DEF IInv, CopyInv, CopyOf
      <3>. QED
        BY <3>1, <3>2 DEF CopyInv
    <2>. QED
      BY <2>2, <2>3, <2>4 DEF IInv
  <1>. QED
    BY <1>2, <1>3

\* What a return does, whatever becomes of the buffer.
LEMMA ReturnKeeps ==
  ASSUME IInv, NEW t \in Terms, Return(t), pc[t] \in {"check", "reset"},
         kb_buf' = kb_buf \/ kb_buf' = [kb_buf EXCEPT ![t] = <<>>]
  PROVE  IInv'
  <1>1. /\ pc' \in [Terms -> Reading \cup {"user"}] /\ kb_buf' \in [Terms -> Seq(Bytes)]
        /\ pc'[t] = "user" /\ result'[t] = <<>>
        /\ \A u \in Terms : u # t =>
             /\ pc'[u] = pc[u] /\ idx'[u] = idx[u] /\ count'[u] = count[u]
             /\ result'[u] = result[u] /\ entered'[u] = entered[u] /\ kb_buf'[u] = kb_buf[u]
    <2>1. <<>> \in Seq(Bytes)
      BY EmptySeq
    <2>2. kb_buf' \in [Terms -> Seq(Bytes)] /\ \A u \in Terms : u # t => kb_buf'[u] = kb_buf[u]
      <3>1. kb_buf \in [Terms -> Seq(Bytes)]
        BY DEF IInv, TypeOK
      <3>2. CASE kb_buf' = kb_buf
        BY <3>1, <3>2
      <3>3. CASE kb_buf' = [kb_buf EXCEPT ![t] = <<>>]
        BY <2>1, <3>1, <3>3
      <3>. QED
        BY <3>2, <3>3
    <2>3. pc' \in [Terms -> Reading \cup {"user"}] /\ pc'[t] = "user"
      BY DEF Return, Goto, IInv, TypeOK
    <2>4. result'[t] = <<>>
      BY DEF Return, IInv, TypeOK
    <2>5. ASSUME NEW u \in Terms, u # t
          PROVE  /\ pc'[u] = pc[u] /\ idx'[u] = idx[u] /\ count'[u] = count[u]
                 /\ result'[u] = result[u] /\ entered'[u] = entered[u]
      BY <2>5 DEF Return, Goto, IInv, TypeOK
    <2>. QED
      BY <2>2, <2>3, <2>4, <2>5
  <1>2. TypeOK'
    BY <1>1, EmptySeq DEF Return, IInv, TypeOK
  <1>3. FlagHasReader'
    BY <1>1 DEF Return, IInv, FlagHasReader, Waiting
  <1>4. LineInv'
    <2>1. pc'[t] \notin Reading
      BY <1>1 DEF Reading, Waiting
    <2>2. ASSUME NEW u \in Terms, u # t, pc'[u] \in Reading, ~readWaiting'[u]
          PROVE  LineOf(u)'
      <3>1. /\ kb_buf'[u] = kb_buf[u] /\ entered'[u] = entered[u]
            /\ pc[u] \in Reading /\ ~readWaiting[u]
        BY <1>1, <2>2 DEF Return
      <3>2. LineOf(u)
        BY <3>1 DEF IInv, LineInv
      <3>. QED
        BY <3>1, <3>2 DEF LineOf
    <2>. QED
      BY <2>1, <2>2 DEF LineInv
  <1>5. CopyInv'
    <2>1. CopyOf(t)'
      BY <1>1 DEF Return, IInv, TypeOK, CopyOf
    <2>2. \A u \in Terms : u # t => CopyOf(u)'
      BY <1>1, ZenonT(30) DEF IInv, CopyInv, CopyOf
    <2>. QED
      BY <2>1, <2>2 DEF CopyInv
  <1>. QED
    BY <1>2, <1>3, <1>4, <1>5 DEF IInv

LEMMA CheckKeeps ==
  ASSUME IInv, NEW t \in Terms, read_check(t)
  PROVE  IInv'
  <1>0. pc[t] = "check"
    BY DEF read_check, At
  <1>1. CASE idx[t] < Len(kb_buf[t])
    <2>1. Return(t) /\ kb_buf' = kb_buf
      BY <1>1, LenProperties DEF read_check, IInv, TypeOK
    <2>. QED
      BY <1>0, <2>1, ReturnKeeps
  <1>2. CASE ~(idx[t] < Len(kb_buf[t]))
    <2>1. /\ pc' \in [Terms -> Reading \cup {"user"}] /\ pc'[t] = "reset"
          /\ \A u \in Terms : u # t => pc'[u] = pc[u]
          /\ UNCHANGED <<display_term, kb_buf, readWaiting, running, reader>>
      BY <1>2 DEF read_check, Goto, IInv, TypeOK, Reading
    <2>2. TypeOK'
      BY <2>1 DEF reader, IInv, TypeOK
    <2>3. FlagHasReader' /\ LineInv'
      BY <1>0, <2>1 DEF reader, IInv, FlagHasReader, LineInv, LineOf, Reading, Waiting
    <2>4. idx[t] = Len(kb_buf[t])
      BY <1>0, <1>2, LenProperties DEF IInv, TypeOK, CopyInv, CopyOf
    <2>5. CopyInv'
      BY <1>0, <2>1, <2>4 DEF reader, IInv, CopyInv, CopyOf, EditPoints, Waiting
    <2>. QED
      BY <2>2, <2>3, <2>5 DEF IInv
  <1>. QED
    BY <1>1, <1>2

LEMMA ResetKeeps ==
  ASSUME IInv, NEW t \in Terms, read_reset(t)
  PROVE  IInv'
  BY ReturnKeeps DEF read_reset, At

-----------------------------------------------------------------------------
(* The invariant holds *)

LEMMA NextIInv ==
  ASSUME IInv, [Next]_vars, KeyPoints \subseteq EditPoints
  PROVE  IInv'
  <1>1. CASE term_keyboardChar
    BY <1>1, CharKeeps
  <1>2. CASE term_keyboardTab
    BY <1>2, TabKeeps
  <1>3. CASE term_keyboardBackspace
    BY <1>3, BackspaceKeeps
  <1>4. CASE term_keyboardEnter
    BY <1>4, EnterKeeps
  <1>5. CASE show_terminal
    BY <1>5, SwitchKeeps DEF show_terminal, IInv, TypeOK
  <1>6. CASE clear_screen
    BY <1>6, ClearKeeps
  <1>7. ASSUME NEW t \in Terms, pit_int(t)
        PROVE  IInv'
    BY <1>7, SwitchKeeps DEF pit_int, IInv, TypeOK
  <1>8. ASSUME NEW t \in Terms, terminal_read(t)
        PROVE  IInv'
    BY <1>8, StartKeeps
  <1>9. ASSUME NEW t \in Terms, ReadStep(t)
        PROVE  IInv'
    BY <1>9, PeekKeeps, ShowKeeps, TestKeeps, HltKeeps, CopyKeeps, CheckKeeps, ResetKeeps DEF ReadStep
  <1>10. CASE UNCHANGED vars
    BY <1>10 DEF vars, IInv, TypeOK, FlagHasReader, LineInv, LineOf, CopyInv, CopyOf
  <1>. QED
    BY <1>1, <1>2, <1>3, <1>4, <1>5, <1>6, <1>7, <1>8, <1>9, <1>10 DEF Next, Key

\* The inductive invariant holds in every reachable state of terminal.c's line
\* discipline, as long as keys arrive outside deliveries.
THEOREM Invariance ==
  ASSUME KeyPoints \subseteq EditPoints
  PROVE  Spec => []IInv
  <1>1. Init => IInv
    BY InitIInv
  <1>2. IInv /\ [Next]_vars => IInv'
    BY NextIInv
  <1>. QED
    BY <1>1, <1>2, PTL DEF Spec

\* Every variable keeps its type (terminal.h, struct terminal).
THEOREM TypeCorrect ==
  ASSUME KeyPoints \subseteq EditPoints
  PROVE  Spec => []TypeOK
  <1>1. IInv => TypeOK
    BY DEF IInv
  <1>. QED
    BY <1>1, Invariance, PTL

\* readWaiting is up only while a read waits (terminal.c:268-274).
THEOREM FlagTheorem ==
  ASSUME KeyPoints \subseteq EditPoints
  PROVE  Spec => []FlagHasReader
  <1>1. IInv => FlagHasReader
    BY DEF IInv
  <1>. QED
    BY <1>1, Invariance, PTL

-----------------------------------------------------------------------------
(* What a read returns *)

\* A read ends in one of two ways: part of the line copied, or all of it.
LEMMA ReadEnds ==
  ASSUME IInv, Next, NEW t \in Terms, pc[t] \in Reading, pc'[t] = "user"
  PROVE  \/ read_check(t) /\ pc[t] = "check" /\ idx[t] < Len(kb_buf[t])
         \/ read_reset(t) /\ pc[t] = "reset"
  <1>0. pc \in [Terms -> Reading \cup {"user"}] /\ "user" \notin Reading
    BY DEF IInv, TypeOK, Reading, Waiting
  <1>1. ~WakeRunning
    BY <1>0 DEF WakeRunning, IInv, TypeOK
  <1>2. \A u \in Terms : ~pit_int(u) /\ ~Key
    BY <1>1 DEF pit_int, Key, term_keyboardChar, term_keyboardTab, term_keyboardBackspace,
               term_keyboardEnter, show_terminal, clear_screen, keyboard_int
  <1>3. \A u \in Terms : terminal_read(u) => FALSE
    BY <1>0 DEF terminal_read, Goto
  <1>4. PICK u \in Terms : ReadStep(u)
    BY <1>2, <1>3 DEF Next
  <1>5. read_check(u) \/ read_reset(u)
    <2>1. ~read_peek(u)
      BY <1>0 DEF read_peek, Goto
    <2>2. ~term_showbuf(u)
      BY <1>0 DEF term_showbuf, Goto
    <2>3. ~read_test(u)
      BY <1>0 DEF read_test, Goto
    <2>4. ~read_copy(u)
      BY <1>0 DEF read_copy, Goto
    <2>5. ~read_hlt(u)
      BY <1>0 DEF read_hlt, Goto
    <2>. QED
      BY <1>4, <2>1, <2>2, <2>3, <2>4, <2>5 DEF ReadStep
  <1>6. u = t
    BY <1>0, <1>5 DEF read_check, read_reset, Return, Goto
  <1>. QED
    BY <1>0, <1>5, <1>6 DEF read_check, read_reset, At, Goto

\* Every read returns the line of its own terminal as it was entered, cut to the
\* size asked for (terminal.c:378-390), unless its newline went into kb_pos.
THEOREM Delivery ==
  ASSUME KeyPoints \subseteq EditPoints
  PROVE  Spec => ReadDeliversLine
  <1>1. ASSUME IInv, [Next]_vars, NEW t \in Terms, pc[t] \in Reading, pc'[t] = "user",
               Len(entered[t]) <= KB_BUF_SIZE
        PROVE  result[t] = SubSeq(entered[t], 1,
                   IF count[t] < Len(entered[t]) THEN count[t] ELSE Len(entered[t]))
    <2>1. Next
      BY <1>1 DEF vars, Reading, Waiting
    <2>2. /\ pc[t] \in {"check", "reset"}
          /\ pc[t] = "check" => idx[t] < Len(kb_buf[t])
      BY <1>1, <2>1, ReadEnds
    <2>3. ~readWaiting[t] /\ entered[t] = kb_buf[t]
      BY <1>1, <2>2 DEF IInv, FlagHasReader, LineInv, LineOf, Waiting
    <2>4. Len(kb_buf[t]) \in Nat /\ count[t] \in Nat /\ idx[t] \in Nat
      BY LenProperties, <1>1 DEF IInv, TypeOK
    <2>5. /\ result[t] = SubSeq(kb_buf[t], 1, idx[t])
          /\ idx[t] <= count[t]
          /\ pc[t] = "check" => idx[t] = count[t] \/ idx[t] = Len(kb_buf[t])
          /\ pc[t] = "reset" => idx[t] = Len(kb_buf[t])
      BY <1>1, <2>2 DEF IInv, CopyInv, CopyOf
    <2>. QED
      BY <2>2, <2>3, <2>4, <2>5
  <1>2. IInv /\ [Next]_vars =>
          [\A t \in Terms :
             pc[t] \in Reading /\ pc'[t] = "user" /\ Len(entered[t]) <= KB_BUF_SIZE =>
               result[t] = SubSeq(entered[t], 1,
                   IF count[t] < Len(entered[t]) THEN count[t] ELSE Len(entered[t]))]_vars
    BY <1>1
  <1>. QED
    BY <1>2, Invariance, PTL DEF Spec, ReadDeliversLine

\* A read large enough for the line leaves nothing behind (terminal.c:384-388).
THEOREM Consumption ==
  ASSUME KeyPoints \subseteq EditPoints
  PROVE  Spec => ReadTakesLine
  <1>1. ASSUME IInv, [Next]_vars, NEW t \in Terms, pc[t] \in Reading, pc'[t] = "user",
               count[t] >= Len(entered[t])
        PROVE  kb_buf'[t] = <<>>
    <2>1. Next
      BY <1>1 DEF vars, Reading, Waiting
    <2>2. CASE read_reset(t)
      BY <1>1, <2>2 DEF read_reset, IInv, TypeOK
    <2>3. CASE pc[t] = "check" /\ idx[t] < Len(kb_buf[t])
      <3>1. Len(kb_buf[t]) <= Len(entered[t])
        BY <1>1, <2>3 DEF IInv, FlagHasReader, LineInv, LineOf, Waiting
      <3>2. idx[t] = count[t] \/ idx[t] = Len(kb_buf[t])
        BY <1>1, <2>3 DEF IInv, CopyInv, CopyOf
      <3>3. /\ Len(kb_buf[t]) \in Nat /\ Len(entered[t]) \in Nat
            /\ count[t] \in Nat /\ idx[t] \in Nat
        BY LenProperties, <1>1 DEF IInv, TypeOK
      <3>. QED
        BY <1>1, <2>3, <3>1, <3>2, <3>3
    <2>. QED
      BY <1>1, <2>1, <2>2, <2>3, ReadEnds
  <1>2. IInv /\ [Next]_vars =>
          [\A t \in Terms : pc[t] \in Reading /\ pc'[t] = "user" /\ count[t] >= Len(entered[t]) =>
             kb_buf'[t] = <<>>]_vars
    BY <1>1
  <1>. QED
    BY <1>2, Invariance, PTL DEF Spec, ReadTakesLine

\* "the read includes the final newline" (terminal.c:385), unless that newline went
\* into kb_pos.
THEOREM NewlineDelivered ==
  ASSUME KeyPoints \subseteq EditPoints
  PROVE  Spec => ReadEndsInNewline
  <1>1. ASSUME IInv, NEW t \in Terms, read_reset(t), Len(entered[t]) <= KB_BUF_SIZE
        PROVE  result[t] # <<>> /\ result[t][Len(result[t])] = NEWLINE
    <2>1. PICK s \in Seq(Bytes) : s = kb_buf[t]
      BY <1>1 DEF IInv, TypeOK
    <2>2. pc[t] = "reset" /\ idx[t] = Len(s) /\ result[t] = SubSeq(s, 1, Len(s))
      BY <1>1, <2>1 DEF read_reset, At, IInv, CopyInv, CopyOf
    <2>3. Len(s) > 0 /\ s[Len(s)] = NEWLINE
      BY <1>1, <2>1, <2>2 DEF IInv, FlagHasReader, LineInv, LineOf, Reading, Waiting
    <2>4. result[t] = s
      BY <2>2, WholePrefix
    <2>. QED
      BY <2>3, <2>4, EmptySeq
  <1>2. IInv /\ [Next]_vars =>
          [\A t \in Terms : read_reset(t) /\ Len(entered[t]) <= KB_BUF_SIZE =>
             result[t] # <<>> /\ result[t][Len(result[t])] = NEWLINE]_vars
    BY <1>1
  <1>. QED
    BY <1>2, Invariance, PTL DEF Spec, ReadEndsInNewline

-----------------------------------------------------------------------------
(* Room for the newline, when programs read whole lines *)

\* A key leaves the other terminals alone; its own has room after it.
LEMMA KeyKeepsRoom ==
  ASSUME IInv, RoomInv, keyboard_int, KeyPoints \subseteq EditPoints,
         \A t \in Terms : t # display_term => kb_buf'[t] = kb_buf[t],
         \A t \in Terms : t # display_term => readWaiting'[t] = readWaiting[t],
         Len(kb_buf'[display_term]) <= KB_BUF_SIZE,
         pc[display_term] = "user" \/ readWaiting'[display_term] =>
           Len(kb_buf'[display_term]) < KB_BUF_SIZE
  PROVE  RoomInv'
  <1>. USE KeyFacts
  <1>1. count' = count
    BY DEF keyboard_int
  <1>2. ASSUME NEW t \in Terms
        PROVE  RoomOf(t)'
    BY <1>1, <1>2 DEF RoomInv, RoomOf, Reading, Waiting
  <1>. QED
    BY <1>2 DEF RoomInv

LEMMA EditKeepsRoom ==
  ASSUME IInv, RoomInv, KeyPoints \subseteq EditPoints,
         \/ term_keyboardChar \/ term_keyboardTab
         \/ term_keyboardBackspace \/ clear_screen
  PROVE  RoomInv'
  <1>. DEFINE t == display_term
  <1>0. keyboard_int /\ readWaiting' = readWaiting
    BY DEF term_keyboardChar, term_keyboardTab, term_keyboardBackspace, clear_screen
  <1>1. /\ t \in Terms /\ kb_buf \in [Terms -> Seq(Bytes)] /\ kb_buf[t] \in Seq(Bytes)
        /\ Len(kb_buf[t]) \in Nat /\ KB_BUF_SIZE \in Nat
    BY LenProperties, TerminalAssumption DEF IInv, TypeOK
  <1>2. Len(kb_buf[t]) < KB_BUF_SIZE
    BY <1>0, <1>1, KeyFacts DEF RoomInv, RoomOf
  <1>3. /\ \A u \in Terms : u # t => kb_buf'[u] = kb_buf[u]
        /\ Len(kb_buf'[t]) \in Nat /\ Len(kb_buf'[t]) < KB_BUF_SIZE
    <2>1. CASE term_keyboardChar
      <3>1. PICK c \in Chars : kb_buf' = [kb_buf EXCEPT ![t] = @ \o <<c>>]
        BY <2>1 DEF term_keyboardChar, Type
      <3>2. <<c>> \in Seq(Bytes) /\ Len(<<c>>) = 1
        BY DEF Bytes
      <3>3. Len(kb_buf[t] \o <<c>>) = Len(kb_buf[t]) + 1
        BY <1>1, <3>2, ConcatProperties
      <3>4. kb_buf'[t] = kb_buf[t] \o <<c>> /\ \A u \in Terms : u # t => kb_buf'[u] = kb_buf[u]
        BY <1>1, <3>1
      <3>. QED
        BY <1>1, <2>1, <3>3, <3>4 DEF term_keyboardChar, Room
    <2>2. CASE term_keyboardTab
      <3>1. PICK n \in 1..TAB_STOP :
              /\ n <= KB_BUF_SIZE - 1 - Len(kb_buf[t])
              /\ Type(t, [i \in 1..n |-> Blank])
        BY <2>2 DEF term_keyboardTab
      <3>2. n \in Nat
        BY TerminalAssumption
      <3>3. PICK s \in Seq(Bytes) : s = [i \in 1..n |-> Blank] /\ Len(s) = n
        BY <3>2, BlanksAreBytes
      <3>4. Len(kb_buf[t] \o s) = Len(kb_buf[t]) + n
        BY <1>1, <3>3, ConcatProperties
      <3>5. kb_buf'[t] = kb_buf[t] \o s /\ \A u \in Terms : u # t => kb_buf'[u] = kb_buf[u]
        BY <1>1, <3>1, <3>3 DEF Type
      <3>. QED
        BY <1>1, <3>1, <3>2, <3>4, <3>5
    <2>3. CASE term_keyboardBackspace
      <3>1. Len(Front(kb_buf[t])) = Len(kb_buf[t]) - 1 /\ Len(kb_buf[t]) # 0
        BY <1>1, <2>3, FrontShorter, EmptySeq DEF term_keyboardBackspace
      <3>2. kb_buf'[t] = Front(kb_buf[t]) /\ \A u \in Terms : u # t => kb_buf'[u] = kb_buf[u]
        BY <1>1, <2>3 DEF term_keyboardBackspace
      <3>. QED
        BY <1>1, <1>2, <3>1, <3>2
    <2>4. CASE clear_screen
      BY <1>1, <1>2, <2>4 DEF clear_screen
    <2>. QED
      BY <2>1, <2>2, <2>3, <2>4
  <1>. QED
    BY <1>0, <1>1, <1>3, KeyKeepsRoom

LEMMA EnterKeepsRoom ==
  ASSUME IInv, RoomInv, KeyPoints \subseteq EditPoints, term_keyboardEnter
  PROVE  /\ Len(kb_buf[display_term]) < KB_BUF_SIZE
         /\ RoomInv'
  <1>. DEFINE t == display_term
  <1>0. keyboard_int
    BY DEF term_keyboardEnter
  <1>1. /\ t \in Terms /\ kb_buf \in [Terms -> Seq(Bytes)] /\ kb_buf[t] \in Seq(Bytes)
        /\ Len(kb_buf[t]) \in Nat /\ KB_BUF_SIZE \in Nat /\ KB_BUF_SIZE >= 2
    BY LenProperties, TerminalAssumption DEF IInv, TypeOK
  <1>2. Len(kb_buf[t]) < KB_BUF_SIZE
    BY <1>0, <1>1, KeyFacts DEF RoomInv, RoomOf
  <1>3. readWaiting[t] => pc[t] # "user"
    BY <1>1 DEF IInv, FlagHasReader, Waiting
  <1>4. Len(Append(kb_buf[t], NEWLINE)) = Len(kb_buf[t]) + 1
    BY <1>1, AppendProperties DEF Bytes
  <1>5. /\ \A u \in Terms : u # t => kb_buf'[u] = kb_buf[u] /\ readWaiting'[u] = readWaiting[u]
        /\ ~readWaiting'[t]
        /\ kb_buf'[t] = IF readWaiting[t] THEN Append(kb_buf[t], NEWLINE) ELSE <<>>
    BY <1>1, <1>2 DEF term_keyboardEnter, Stored, IInv, TypeOK
  <1>6. Len(kb_buf'[t]) <= KB_BUF_SIZE /\ (pc[t] = "user" => Len(kb_buf'[t]) < KB_BUF_SIZE)
    <2>1. CASE readWaiting[t]
      BY <1>1, <1>2, <1>3, <1>4, <1>5, <2>1
    <2>2. CASE ~readWaiting[t]
      <3>1. kb_buf'[t] = <<>> /\ Len(<<>>) = 0
        BY <1>5, <2>2, EmptySeq
      <3>. QED
        BY <1>1, <3>1
    <2>. QED
      BY <2>1, <2>2
  <1>. QED
    BY <1>0, <1>2, <1>5, <1>6, KeyKeepsRoom

LEMMA NextRoom ==
  ASSUME IInv, RoomInv, [Next]_vars, KeyPoints \subseteq EditPoints, WholeReads
  PROVE  RoomInv'
  <1>1. CASE term_keyboardChar \/ term_keyboardTab \/ term_keyboardBackspace \/ clear_screen
    BY <1>1, EditKeepsRoom
  <1>2. CASE term_keyboardEnter
    BY <1>2, EnterKeepsRoom
  <1>3. ASSUME WakeRunning, UNCHANGED <<kb_buf, readWaiting, count>>
        PROVE  RoomInv'
    <2>1. \A t \in Terms : pc'[t] = pc[t] \/ (pc[t] = "halted" /\ pc'[t] = "test")
      BY <1>3 DEF WakeRunning, IInv, TypeOK
    <2>. QED
      BY <1>3, <2>1 DEF RoomInv, RoomOf, Reading, Waiting
  <1>4. ASSUME NEW t \in Terms, terminal_read(t)
        PROVE  RoomInv'
    <2>1. /\ pc[t] = "user" /\ pc'[t] = "peek" /\ count'[t] >= KB_BUF_SIZE
          /\ \A u \in Terms : u # t => /\ pc'[u] = pc[u] /\ count'[u] = count[u]
                                        /\ readWaiting'[u] = readWaiting[u]
          /\ kb_buf' = kb_buf
      BY <1>4 DEF terminal_read, At, Goto, IInv, TypeOK, WholeReads
    <2>. QED
      BY <2>1 DEF RoomInv, RoomOf
  <1>5. ASSUME NEW t \in Terms, NEW p \in Reading, pc[t] \in Reading, Goto(t, p),
               UNCHANGED <<kb_buf, readWaiting, count>>
        PROVE  RoomInv'
    <2>1. pc'[t] = p /\ p # "user" /\ \A u \in Terms : u # t => pc'[u] = pc[u]
      BY <1>5 DEF Goto, IInv, TypeOK, Reading, Waiting
    <2>. QED
      BY <1>5, <2>1 DEF RoomInv, RoomOf
  <1>6. ASSUME NEW t \in Terms, read_peek(t) \/ term_showbuf(t) \/ read_test(t) \/ read_hlt(t) \/ read_copy(t)
        PROVE  RoomInv'
    <2>1. /\ pc[t] \in Reading
          /\ \E p \in Reading : Goto(t, p)
          /\ UNCHANGED <<kb_buf, readWaiting, count>>
      <3>1. CASE read_peek(t)
        BY <3>1 DEF read_peek, At, Reading, Waiting
      <3>2. CASE term_showbuf(t)
        BY <3>2 DEF term_showbuf, At, Reading, Waiting, Goto, IInv, TypeOK
      <3>3. CASE read_test(t)
        BY <3>3 DEF read_test, At, Reading, Waiting
      <3>4. CASE read_copy(t)
        BY <3>4 DEF read_copy, At, Reading, Waiting, Goto, IInv, TypeOK
      <3>5. CASE read_hlt(t)
        BY <3>5 DEF read_hlt, reader, At, Reading, Waiting
      <3>. QED
        BY <1>6, <3>1, <3>2, <3>3, <3>4, <3>5
    <2>. QED
      BY <1>6, <1>5, <2>1
  <1>7. ASSUME NEW t \in Terms, read_check(t)
        PROVE  RoomInv'
    <2>1. pc[t] = "check" /\ ~(idx[t] < Len(kb_buf[t]))
      <3>1. pc[t] = "check"
        BY <1>7 DEF read_check, At
      <3>2. /\ idx[t] = count[t] \/ idx[t] = Len(kb_buf[t])
            /\ count[t] >= KB_BUF_SIZE /\ Len(kb_buf[t]) <= KB_BUF_SIZE
        BY <1>7, <3>1 DEF IInv, CopyInv, CopyOf, RoomInv, RoomOf, Reading
      <3>3. Len(kb_buf[t]) \in Nat /\ count[t] \in Nat /\ idx[t] \in Nat /\ KB_BUF_SIZE \in Nat
        BY <1>7, LenProperties, TerminalAssumption DEF IInv, TypeOK
      <3>. QED
        BY <3>1, <3>2, <3>3
    <2>2. Goto(t, "reset") /\ UNCHANGED <<kb_buf, readWaiting, count>>
      BY <1>7, <2>1 DEF read_check, reader
    <2>. QED
      BY <1>5, <1>7, <2>1, <2>2 DEF Reading
  <1>8. ASSUME NEW t \in Terms, read_reset(t)
        PROVE  RoomInv'
    <2>1. /\ pc'[t] = "user" /\ kb_buf'[t] = <<>>
          /\ \A u \in Terms : u # t => pc'[u] = pc[u] /\ count'[u] = count[u] /\ kb_buf'[u] = kb_buf[u]
          /\ readWaiting' = readWaiting
      BY <1>8 DEF read_reset, Return, Goto, IInv, TypeOK
    <2>2. Len(<<>>) = 0 /\ KB_BUF_SIZE \in Nat /\ KB_BUF_SIZE >= 2
      BY EmptySeq, TerminalAssumption
    <2>. QED
      BY <2>1, <2>2 DEF RoomInv, RoomOf, Reading, Waiting
  <1>9. CASE UNCHANGED vars
    BY <1>9 DEF vars, RoomInv, RoomOf
  <1>10. CASE Key
    BY <1>1, <1>2, <1>3, <1>10 DEF Key, show_terminal, reader
  <1>11. ASSUME NEW t \in Terms, pit_int(t)
         PROVE  RoomInv'
    BY <1>3, <1>11 DEF pit_int, reader
  <1>. QED
    BY <1>4, <1>6, <1>7, <1>8, <1>9, <1>10, <1>11 DEF Next, ReadStep

\* Enter never stores its newline past the end of the buffer, if every read asks
\* for at least KB_BUF_SIZE bytes (terminal.c:199, 265).
THEOREM RoomForNewline ==
  ASSUME KeyPoints \subseteq EditPoints, WholeReads
  PROVE  Spec => NewlineFits
  <1>1. Init => RoomInv
    <2>1. Len(<<>>) = 0
      BY EmptySeq
    <2>2. KB_BUF_SIZE \in Nat /\ KB_BUF_SIZE >= 2
      BY TerminalAssumption
    <2>3. ASSUME Init, NEW t \in Terms
          PROVE  RoomOf(t)
      <3>1. Len(kb_buf[t]) = 0 /\ pc[t] = "user"
        BY <2>1, <2>3 DEF Init
      <3>. QED
        BY <2>2, <3>1 DEF RoomOf, Reading, Waiting
    <2>. QED
      BY <2>3 DEF RoomInv
  <1>2. IInv /\ RoomInv /\ [Next]_vars => RoomInv'
    BY NextRoom
  <1>3. IInv /\ RoomInv /\ [Next]_vars =>
          [term_keyboardEnter => Len(kb_buf[display_term]) < KB_BUF_SIZE]_vars
    BY EnterKeepsRoom
  <1>. QED
    BY <1>1, <1>2, <1>3, Invariance, PTL DEF Spec, NewlineFits
=============================================================================
