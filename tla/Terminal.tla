-------------------------------- MODULE Terminal --------------------------------
(***************************************************************************)
(* The line discipline of the terminals (drivers/terminal.c) between the   *)
(* keyboard interrupt (drivers/keyboard.c) and the programs that read.     *)
(*                                                                         *)
(* Every terminal has one foreground process.  terminal_read runs in that  *)
(* process with interrupts enabled: it is cut wherever the keyboard or the *)
(* timer can change what it does next.  keyboard_int disables interrupts   *)
(* before it touches a buffer, so a key is one step.  Reads of a null      *)
(* buffer return -1 and change nothing; they are stuttering steps here.    *)
(* What the screen shows belongs to Screen, the input line on it to        *)
(* Console.                                                                *)
(***************************************************************************)
EXTENDS Integers, Sequences

CONSTANTS
  Terms,        \* the terminals
  Chars,        \* printable characters
  Blank,        \* the space that Tab inserts
  KB_BUF_SIZE,  \* size of a keyboard buffer
  LF,           \* the code of the newline as a number
  TAB_STOP,     \* at most this many spaces for one Tab
  ReadCounts,   \* sizes of the buffers that programs read into
  KeyPoints     \* points of terminal_read where this instance lets the keyboard in

NEWLINE == "newline"
POS == "kb_pos"   \* the lowest byte of kb_pos, which lies behind the buffer

Bytes == Chars \cup {Blank, NEWLINE, POS}

\* The points of terminal_read; "user" is everything else a program does.  At "hlt"
\* the instruction is the next one, at "halted" it has stopped the processor.
Waiting == {"peek", "show", "test", "hlt", "halted"}
Reading == Waiting \cup {"copy", "check", "reset"}

\* "woken" stands for the points of Waiting once Enter has ended the wait.
Phases == Reading \cup {"user", "woken"}

ASSUME TerminalAssumption ==
  /\ Terms # {}
  /\ KB_BUF_SIZE \in Nat /\ KB_BUF_SIZE >= 2
  /\ LF \in Nat /\ LF < KB_BUF_SIZE
  /\ TAB_STOP \in Nat /\ TAB_STOP >= 1
  /\ ReadCounts \subseteq Nat
  /\ NEWLINE \notin Chars /\ Blank # NEWLINE
  /\ KeyPoints \subseteq Phases

VARIABLES
  display_term,  \* the terminal on the screen, the one that gets the keys
  kb_buf,        \* per terminal: the first kb_pos bytes of its buffer
  readWaiting,   \* per terminal: a read waits for Enter
  running,       \* terminal whose process has the processor
  pc,            \* per terminal: point its process has reached
  count,         \* per terminal: size asked for by the read
  source,        \* per terminal: whose buffer term_showbuf prints
  idx,           \* per terminal: index of the loop it is in
  result,        \* per terminal: bytes stored in the reader's buffer
  entered        \* history: the line that Enter ended the wait with

vars == <<display_term, kb_buf, readWaiting, running, pc, count, source, idx,
          result, entered>>

reader == <<count, source, idx, result, entered>>

Init ==
  /\ display_term \in Terms
  /\ running \in Terms
  /\ kb_buf = [t \in Terms |-> <<>>]
  /\ readWaiting = [t \in Terms |-> FALSE]
  /\ pc = [t \in Terms |-> "user"]
  /\ count = [t \in Terms |-> 0]
  /\ source = [t \in Terms |-> t]
  /\ idx = [t \in Terms |-> 0]
  /\ result = [t \in Terms |-> <<>>]
  /\ entered = [t \in Terms |-> <<>>]

Phase(t) == IF pc[t] \in Waiting /\ ~readWaiting[t] THEN "woken" ELSE pc[t]

-----------------------------------------------------------------------------
(* Interrupts *)

\* An interrupt ends the hlt that has stopped the processor; the process then tests
\* again.  One that comes before the instruction returns to it.
WakeRunning == pc' = [pc EXCEPT ![running] = IF @ = "halted" THEN "test" ELSE @]

\* The timer hands the processor to the foreground process of another terminal.
pit_int(t) ==
  /\ t # running
  /\ running' = t
  /\ WakeRunning
  /\ UNCHANGED <<display_term, kb_buf, readWaiting, reader>>

\* A key arrives: it is for the displayed terminal, whoever runs.  Bound: no key
\* finds kb_pos past the end of the buffer (see Stored).
keyboard_int ==
  /\ Phase(display_term) \in KeyPoints
  /\ Len(kb_buf[display_term]) <= KB_BUF_SIZE
  /\ WakeRunning
  /\ UNCHANGED <<running, count, source, idx, result>>

\* The last place is kept for a newline.
Room(t) == Len(kb_buf[t]) < KB_BUF_SIZE - 1

\* term_keyboardChar: the character is stored and echoed if there is room.
Type(t, s) == kb_buf' = [kb_buf EXCEPT ![t] = @ \o s]

term_keyboardChar ==
  /\ keyboard_int
  /\ Room(display_term)
  /\ \E c \in Chars : Type(display_term, <<c>>)
  /\ UNCHANGED <<display_term, readWaiting, entered>>

\* As many spaces as the tab stop is away, each subject to the same bound.  The
\* column is not modelled: the distance is any number up to TAB_STOP.
term_keyboardTab ==
  /\ keyboard_int
  /\ Room(display_term)
  /\ \E n \in 1..TAB_STOP :
       /\ n <= KB_BUF_SIZE - 1 - Len(kb_buf[display_term])
       /\ Type(display_term, [i \in 1..n |-> Blank])
  /\ UNCHANGED <<display_term, readWaiting, entered>>

Front(s) == SubSeq(s, 1, Len(s) - 1)

\* Ignored when the buffer is empty or the cursor is at the origin (a stutter).
term_keyboardBackspace ==
  /\ keyboard_int
  /\ kb_buf[display_term] # <<>>
  /\ kb_buf' = [kb_buf EXCEPT ![display_term] = Front(@)]
  /\ UNCHANGED <<display_term, readWaiting, entered>>

\* What a buffer may be after kb_buf[kb_pos++] = '\n'.  With kb_pos at KB_BUF_SIZE
\* the newline is stored into kb_pos: kb_pos is the code of the newline if the
\* compiler increments it before the store, and one past the end otherwise.
Stored(b) ==
  IF Len(b) < KB_BUF_SIZE
  THEN {Append(b, NEWLINE)}
  ELSE {SubSeq(b, 1, LF), Append(b, POS)}

\* Enter ends a wait of the displayed terminal, or throws the line away.
term_keyboardEnter ==
  LET t == display_term
      line == Append(kb_buf[t], NEWLINE)
  IN  /\ keyboard_int
      /\ \E b \in Stored(kb_buf[t]) :
           kb_buf' = [kb_buf EXCEPT ![t] = IF readWaiting[t] THEN b ELSE <<>>]
      /\ readWaiting' = [readWaiting EXCEPT ![t] = FALSE]
      /\ entered' = [entered EXCEPT ![t] = IF readWaiting[t] THEN line ELSE @]
      /\ UNCHANGED display_term

\* Variant: the terminal number is not checked.
show_terminal_unchecked ==
  /\ WakeRunning
  /\ \E t \in Terms \cup {"F4"} : display_term' = t
  /\ UNCHANGED <<kb_buf, readWaiting, running, reader>>

\* Alt-F1..F3.
show_terminal ==
  /\ WakeRunning
  /\ \E t \in Terms : display_term' = t
  /\ UNCHANGED <<kb_buf, readWaiting, running, reader>>

\* Ctrl-L clears the displayed screen and prints the buffer again.
clear_screen ==
  /\ keyboard_int
  /\ UNCHANGED <<display_term, kb_buf, readWaiting, entered>>

Key ==
  \/ term_keyboardChar
  \/ term_keyboardTab
  \/ term_keyboardBackspace
  \/ term_keyboardEnter
  \/ show_terminal
  \/ clear_screen

-----------------------------------------------------------------------------
(* terminal_read, in the foreground process of terminal t *)

Goto(t, p) == pc' = [pc EXCEPT ![t] = p]

\* A process takes a step only while it has the processor.
At(t, p) == running = t /\ pc[t] = p

\* The flag is raised first; a key may follow at once.
terminal_read(t) ==
  /\ At(t, "user")
  /\ \E n \in ReadCounts : count' = [count EXCEPT ![t] = n]
  /\ readWaiting' = [readWaiting EXCEPT ![t] = TRUE]
  /\ Goto(t, "peek")
  /\ UNCHANGED <<display_term, kb_buf, running, source, idx, result, entered>>

\* Variant: the flag is raised here, after keys could arrive.
read_peek_raises_flag(t) ==
  /\ At(t, "peek")
  /\ readWaiting' = [readWaiting EXCEPT ![t] = TRUE]
  /\ idx' = [idx EXCEPT ![t] = 0]
  /\ Goto(t, "show")
  /\ UNCHANGED <<display_term, kb_buf, running, count, source, result, entered>>

\* What was typed before the read is to be printed; term_showbuf takes the
\* buffer of the displayed terminal.
read_peek(t) ==
  /\ At(t, "peek")
  /\ IF kb_buf[t] # <<>>
     THEN source' = [source EXCEPT ![t] = display_term] /\ Goto(t, "show")
     ELSE UNCHANGED source /\ Goto(t, "test")
  /\ idx' = [idx EXCEPT ![t] = 0]
  /\ UNCHANGED <<display_term, kb_buf, readWaiting, running, count, result, entered>>

\* One character, or the end of the loop and of its locals.
term_showbuf(t) ==
  /\ At(t, "show")
  /\ IF idx[t] < Len(kb_buf[source[t]])
     THEN idx' = [idx EXCEPT ![t] = @ + 1] /\ UNCHANGED <<source, pc>>
     ELSE /\ idx' = [idx EXCEPT ![t] = 0]
          /\ source' = [source EXCEPT ![t] = t]
          /\ Goto(t, "test")
  /\ UNCHANGED <<display_term, kb_buf, readWaiting, running, count, result, entered>>

\* The loop condition, tested before every hlt.
read_test(t) ==
  /\ At(t, "test")
  /\ IF readWaiting[t]
     THEN Goto(t, "hlt") /\ UNCHANGED idx
     ELSE Goto(t, "copy") /\ idx' = [idx EXCEPT ![t] = 0]
  /\ UNCHANGED <<display_term, kb_buf, readWaiting, running, count, source, result, entered>>

\* The processor stops, whatever has become of the flag since the test.
read_hlt(t) ==
  /\ At(t, "hlt")
  /\ Goto(t, "halted")
  /\ UNCHANGED <<display_term, kb_buf, readWaiting, running, reader>>

\* Variant: the bytes come from the displayed terminal.
read_copy_displayed(t) ==
  LET b == kb_buf[display_term]
  IN  /\ At(t, "copy")
      /\ IF idx[t] < count[t] /\ idx[t] < Len(b)
         THEN /\ result' = [result EXCEPT ![t] = Append(@, b[idx[t] + 1])]
              /\ idx' = [idx EXCEPT ![t] = @ + 1]
              /\ UNCHANGED pc
         ELSE Goto(t, "check") /\ UNCHANGED <<result, idx>>
      /\ UNCHANGED <<display_term, kb_buf, readWaiting, running, count, source, entered>>

\* One turn of the copy loop, whose condition looks at the buffer every time.
read_copy(t) ==
  /\ At(t, "copy")
  /\ IF idx[t] < count[t] /\ idx[t] < Len(kb_buf[t])
     THEN /\ result' = [result EXCEPT ![t] = Append(@, kb_buf[t][idx[t] + 1])]
          /\ idx' = [idx EXCEPT ![t] = @ + 1]
          /\ UNCHANGED pc
     ELSE Goto(t, "check") /\ UNCHANGED <<result, idx>>
  /\ UNCHANGED <<display_term, kb_buf, readWaiting, running, count, source, entered>>

\* The locals of a read, and its history, end with it.
Return(t) ==
  /\ Goto(t, "user")
  /\ count' = [count EXCEPT ![t] = 0]
  /\ source' = [source EXCEPT ![t] = t]
  /\ idx' = [idx EXCEPT ![t] = 0]
  /\ result' = [result EXCEPT ![t] = <<>>]
  /\ entered' = [entered EXCEPT ![t] = <<>>]
  /\ UNCHANGED <<display_term, readWaiting, running>>

\* Variant: the buffer counts as read only past its end.
read_check_strict(t) ==
  /\ At(t, "check")
  /\ \/ /\ idx[t] > Len(kb_buf[t])
        /\ Goto(t, "reset")
        /\ UNCHANGED <<display_term, readWaiting, running, reader>>
     \/ /\ idx[t] <= Len(kb_buf[t])
        /\ Return(t)
  /\ UNCHANGED kb_buf

\* A read that did not copy everything leaves the buffer as it is.
read_check(t) ==
  /\ At(t, "check")
  /\ \/ /\ idx[t] >= Len(kb_buf[t])
        /\ Goto(t, "reset")
        /\ UNCHANGED <<display_term, readWaiting, running, reader>>
     \/ /\ idx[t] < Len(kb_buf[t])
        /\ Return(t)
  /\ UNCHANGED kb_buf

read_reset(t) ==
  /\ At(t, "reset")
  /\ kb_buf' = [kb_buf EXCEPT ![t] = <<>>]
  /\ Return(t)

\* What a read that has started does next.
ReadStep(t) ==
  \/ read_peek(t)
  \/ term_showbuf(t)
  \/ read_test(t)
  \/ read_hlt(t)
  \/ read_copy(t)
  \/ read_check(t)
  \/ read_reset(t)

Next ==
  \/ Key
  \/ \E t \in Terms : pit_int(t) \/ terminal_read(t) \/ ReadStep(t)

Spec == Init /\ [][Next]_vars

(* The timer keeps ticking and sched gives every terminal its turn (Scheduler, *)
(* RoundRobin); the kernel code of a read goes on while it has the processor.  *)
(* Nobody has to press a key and no program has to read.                       *)
FairSpec ==
  /\ Spec
  /\ \A t \in Terms : SF_vars(pit_int(t)) /\ SF_vars(ReadStep(t))

-----------------------------------------------------------------------------
(* Properties *)

\* Every variable keeps its type; display_term is always a terminal, since
\* show_terminal rejects any other number (terminal.c:88).
TypeOK ==
  /\ display_term \in Terms
  /\ running \in Terms
  /\ kb_buf \in [Terms -> Seq(Bytes)]
  /\ readWaiting \in [Terms -> BOOLEAN]
  /\ pc \in [Terms -> Reading \cup {"user"}]
  /\ count \in [Terms -> Nat]
  /\ source \in [Terms -> Terms]
  /\ idx \in [Terms -> Nat]
  /\ result \in [Terms -> Seq(Bytes)]
  /\ entered \in [Terms -> Seq(Bytes)]

\* The newline of Enter always fits: term_keyboardChar "leave[s] space for a
\* newline" (terminal.c:199), which Enter stores without a check of its own.
NewlineFits ==
  [][term_keyboardEnter => Len(kb_buf[display_term]) < KB_BUF_SIZE]_vars

\* The flag is up only while a read of that terminal waits, so that Enter never
\* keeps a line that nobody is going to fetch (terminal.c:268-274).
FlagHasReader ==
  \A t \in Terms : readWaiting[t] => pc[t] \in Waiting

\* A read that returns delivers the line as it was when Enter ended the wait,
\* from its own terminal, cut to the size asked for (terminal.c:361-390).  It does
\* not when the newline has gone into kb_pos (NewlineFits).
ReadDeliversLine ==
  [][\A t \in Terms :
       pc[t] \in Reading /\ pc'[t] = "user" /\ Len(entered[t]) <= KB_BUF_SIZE =>
         result[t] = SubSeq(entered[t], 1,
                            IF count[t] < Len(entered[t]) THEN count[t] ELSE Len(entered[t]))]_vars

\* A read large enough for the line takes it out of the buffer: no byte is left
\* over to be delivered again (terminal.c:384-388), wherever the newline went.
ReadTakesLine ==
  [][\A t \in Terms : pc[t] \in Reading /\ pc'[t] = "user" /\ count[t] >= Len(entered[t]) =>
       kb_buf'[t] = <<>>]_vars

\* "the read includes the final newline" (terminal.c:385): a read that empties
\* the buffer ends in a newline, if the newline was stored in the buffer.
ReadEndsInNewline ==
  [][\A t \in Terms : read_reset(t) /\ Len(entered[t]) <= KB_BUF_SIZE =>
       result[t] # <<>> /\ result[t][Len(result[t])] = NEWLINE]_vars

\* Enter ends the wait for good: the read returns, even when the key comes between
\* the test of the flag and hlt, so that the processor stops with the flag already
\* down and only the next tick wakes it (terminal.c:373-376).
EnterEndsRead ==
  \A t \in Terms : (pc[t] \in Reading /\ ~readWaiting[t]) ~> (pc[t] = "user")
=============================================================================
