--------------------------------- MODULE Console ---------------------------------
(***************************************************************************)
(* A terminal as its user meets it: keyboard decoding (Keyboard), the line *)
(* buffer and the characters on the screen, together.                      *)
(*                                                                         *)
(* On every terminal a program writes, prints a prompt, reads a line and   *)
(* goes on.  Keys are for the displayed terminal whoever runs; programs of *)
(* all terminals take their steps in any order, as the timer has it.       *)
(* A key is one step, since keyboard_int disables interrupts; so is a call *)
(* of term_putc, whose inside is in Screen, and the return of a read, whose*)
(* inside is in Terminal.  Reads are as large as the buffer.               *)
(***************************************************************************)
EXTENDS Keyboard, Sequences, SequencesExt

CONSTANTS
  Terms,           \* the terminals, each named by its function key
  NUM_ROWS, NUM_COLS,
  KB_BUF_SIZE, TAB_STOP,
  Keys,            \* per terminal: the keys, other than modifiers, that this
                   \* instance presses while it is displayed
  Programs,        \* terminals with a program that this instance runs
  Written,         \* characters that programs write besides their prompt
  KeyPoints,       \* points of a program where this instance lets keys in
  BackgroundShow   \* whether a read may find a line typed before its terminal was
                   \* taken off the screen

NEWLINE == <<"newline">>
PROMPT == <<"prompt">>
Blank == <<SPACE, FALSE>>

Cells == 0..(NUM_ROWS * NUM_COLS - 1)
Chars == Printable \cup {PROMPT}

Points == {"busy", "prompted", "show", "wait"}

ASSUME ConsoleAssumption ==
  /\ "F1" \in Terms
  /\ NUM_ROWS \in Nat /\ NUM_ROWS >= 2 /\ NUM_COLS \in Nat \ {0}
  /\ KB_BUF_SIZE \in Nat /\ KB_BUF_SIZE >= 2
  /\ TAB_STOP \in Nat \ {0}
  /\ KB_BUF_SIZE <= (NUM_ROWS - 1) * NUM_COLS  \* a prompt and a full line fit
  /\ \A t \in Terms : Keys[t] \subseteq
       Printing \cup {"TAB", "ENTER", "BACK_SPACE"} \cup Terms
  /\ Printing \cap ({"TAB", "ENTER", "BACK_SPACE"} \cup Terms) = {}
  /\ Terms \cap {"TAB", "ENTER", "BACK_SPACE"} = {}
  /\ Programs \subseteq Terms
  /\ Written \subseteq Printable \cup {NEWLINE}
  /\ KeyPoints \subseteq Points \cup {"woken"}
  /\ BackgroundShow \in BOOLEAN

VARIABLES
  display_term,  \* the displayed terminal
  kb_buf,        \* per terminal: the first kb_pos bytes of its buffer
  readWaiting,   \* per terminal: a read waits for Enter
  screen,        \* per terminal: the cells, and the cursor as the index of a cell
  pc,            \* per terminal: point its program has reached
  source, idx,   \* per terminal: the buffer that term_showbuf prints, and how far
  prompt         \* history: the prompt of this read has not been cleared away

terminal == <<kb_buf, readWaiting, screen>>
program == <<pc, source, idx>>
vars == <<keyboard, display_term, terminal, program, prompt>>

\* A blank screen with the cursor in its corner (term_clear).
Cleared == [cell |-> [k \in Cells |-> Blank], cur |-> 0]

\* term_init.  What the screens hold before is taken as blank.
Init ==
  /\ KeyboardInit
  /\ display_term = "F1"
  /\ kb_buf = [t \in Terms |-> <<>>]
  /\ readWaiting = [t \in Terms |-> FALSE]
  /\ screen = [t \in Terms |-> Cleared]
  /\ pc = [t \in Terms |-> "busy"]
  /\ source = [t \in Terms |-> t]
  /\ idx = [t \in Terms |-> 0]
  /\ prompt = [t \in Terms |-> FALSE]

-----------------------------------------------------------------------------
(* The screen *)

\* term_scroll: everything moves up one row, the cursor to the last one.
Scrolled(s) ==
  [cell |-> [k \in Cells |-> IF k + NUM_COLS \in Cells THEN s.cell[k + NUM_COLS] ELSE Blank],
   cur |-> (NUM_ROWS - 1) * NUM_COLS]

Settled(s) == IF s.cur \in Cells THEN s ELSE Scrolled(s)

\* term_putc: the next row is reached by a newline or by the end of this one.
Put(s, c) ==
  IF c = NEWLINE
  THEN Settled([s EXCEPT !.cur = (@ \div NUM_COLS + 1) * NUM_COLS])
  ELSE Settled([cell |-> [s.cell EXCEPT ![s.cur] = c], cur |-> s.cur + 1])

\* term_putc on each character of b.
PutAll(s, b) ==
  LET put[n \in 0..Len(b)] == IF n = 0 THEN s ELSE Put(put[n - 1], b[n])
  IN  put[Len(b)]

-----------------------------------------------------------------------------
(* Keys, for the displayed terminal *)

Line == kb_buf[display_term]

\* Variant: no place is kept for a newline.
Room_to_the_end == KB_BUF_SIZE - Len(Line)

\* The last place of the buffer is kept for a newline.
Room == KB_BUF_SIZE - 1 - Len(Line)

\* The line and the screen of the displayed terminal.
Shows(line, scr) ==
  /\ kb_buf' = [kb_buf EXCEPT ![display_term] = line]
  /\ screen' = [screen EXCEPT ![display_term] = scr]

\* term_keyboardChar on each character of b: stored and echoed while there is room.
term_keyboardChar(b) ==
  LET typed == SubSeq(b, 1, IF Len(b) < Room THEN Len(b) ELSE Room)
  IN  /\ Shows(Line \o typed, PutAll(screen[display_term], typed))
      /\ UNCHANGED <<display_term, readWaiting, prompt>>

\* Spaces up to the next tab stop.
term_keyboardTab ==
  LET x == screen[display_term].cur % NUM_COLS
  IN  term_keyboardChar([i \in 1..(TAB_STOP - (x % TAB_STOP)) |-> Blank])

\* The last character leaves the buffer, and the cell before the cursor is blanked.
term_keyboardBackspace ==
  LET s == screen[display_term]
  IN  /\ Line # <<>> /\ s.cur # 0
      /\ Shows(Front(Line), [cell |-> [s.cell EXCEPT ![s.cur - 1] = Blank], cur |-> s.cur - 1])
      /\ UNCHANGED <<display_term, readWaiting, prompt>>

\* Enter ends the wait of a read, or throws the line away.  A newline that finds
\* the buffer full, as that of a second Enter may, is stored into kb_pos, which is
\* then set to 0: only a line thrown away can be full here.
term_keyboardEnter ==
  /\ Shows(IF readWaiting[display_term] THEN Append(Line, NEWLINE) ELSE <<>>,
           Put(screen[display_term], NEWLINE))
  /\ readWaiting' = [readWaiting EXCEPT ![display_term] = FALSE]
  /\ UNCHANGED <<display_term, prompt>>

show_terminal(t) == display_term' = t /\ UNCHANGED <<terminal, prompt>>

\* Ctrl-L: term_clear, then term_showbuf of the same terminal.
clear_screen ==
  /\ Shows(Line, PutAll(Cleared, Line))
  /\ prompt' = [prompt EXCEPT ![display_term] = FALSE]
  /\ UNCHANGED <<display_term, readWaiting>>

\* keyboard_int on the make code of a key that is not a modifier.
keyboard_int(k) ==
  \/ k = "TAB" /\ term_keyboardTab
  \/ k = "ENTER" /\ term_keyboardEnter
  \/ k = "BACK_SPACE" /\ term_keyboardBackspace
  \/ k \in Terms /\ alt /\ show_terminal(k)
  \/ k = CHAR_L /\ ctrl /\ clear_screen
  \/ k \in Printing /\ ~(k = CHAR_L /\ ctrl) /\ term_keyboardChar(<<get_char_map(k)>>)

Phase(t) == IF pc[t] = "wait" /\ ~readWaiting[t] THEN "woken" ELSE pc[t]

\* Break codes, and function keys without Alt, have no meaning: nothing changes.
Press(k) ==
  /\ k \in Terms \/ Phase(display_term) \in KeyPoints
  /\ keyboard_int(k)
  /\ UNCHANGED <<keyboard, program>>

-----------------------------------------------------------------------------
(* The program of terminal t *)

Goto(t, p) == pc' = [pc EXCEPT ![t] = p]

\* One character of terminal_write.
terminal_write(t) ==
  /\ pc[t] = "busy"
  /\ \E c \in Written : screen' = [screen EXCEPT ![t] = Put(@, c)]
  /\ UNCHANGED <<keyboard, display_term, kb_buf, readWaiting, program, prompt>>

write_prompt(t) ==
  /\ pc[t] = "busy"
  /\ screen' = [screen EXCEPT ![t] = Put(@, PROMPT)]
  /\ prompt' = [prompt EXCEPT ![t] = TRUE]
  /\ Goto(t, "prompted")
  /\ UNCHANGED <<keyboard, display_term, kb_buf, readWaiting, source, idx>>

\* Variant: what was typed early is not printed again.
terminal_read_silent(t) ==
  /\ pc[t] = "prompted"
  /\ readWaiting' = [readWaiting EXCEPT ![t] = TRUE]
  /\ Goto(t, "wait")
  /\ UNCHANGED <<keyboard, display_term, kb_buf, screen, source, idx, prompt>>

\* The flag is raised; a line that was typed early is to be printed, from the
\* buffer of the displayed terminal.
terminal_read(t) ==
  /\ pc[t] = "prompted"
  /\ BackgroundShow \/ t = display_term \/ kb_buf[t] = <<>>
  /\ readWaiting' = [readWaiting EXCEPT ![t] = TRUE]
  /\ IF kb_buf[t] # <<>>
     THEN source' = [source EXCEPT ![t] = display_term] /\ Goto(t, "show")
     ELSE UNCHANGED source /\ Goto(t, "wait")
  /\ UNCHANGED <<keyboard, display_term, kb_buf, screen, idx, prompt>>

term_showbuf(t) ==
  /\ pc[t] = "show"
  /\ IF idx[t] < Len(kb_buf[source[t]])
     THEN /\ screen' = [screen EXCEPT ![t] = Put(@, kb_buf[source[t]][idx[t] + 1])]
          /\ idx' = [idx EXCEPT ![t] = @ + 1]
          /\ UNCHANGED <<pc, source>>
     ELSE /\ Goto(t, "wait")
          /\ idx' = [idx EXCEPT ![t] = 0]
          /\ source' = [source EXCEPT ![t] = t]
          /\ UNCHANGED screen
  /\ UNCHANGED <<keyboard, display_term, kb_buf, readWaiting, prompt>>

\* The wait is over: the line goes to the program and the buffer is empty again.
read_return(t) ==
  /\ Phase(t) = "woken"
  /\ kb_buf' = [kb_buf EXCEPT ![t] = <<>>]
  /\ prompt' = [prompt EXCEPT ![t] = FALSE]
  /\ Goto(t, "busy")
  /\ UNCHANGED <<keyboard, display_term, readWaiting, screen, source, idx>>

Program(t) ==
  terminal_write(t) \/ write_prompt(t) \/ terminal_read(t) \/ term_showbuf(t) \/ read_return(t)

Next ==
  \/ ModifierKey /\ UNCHANGED <<display_term, terminal, program, prompt>>
  \/ \E k \in Keys[display_term] : Press(k)
  \/ \E t \in Programs : Program(t)

Spec == Init /\ [][Next]_vars

-----------------------------------------------------------------------------
(* Properties *)

\* Every variable keeps its type; in particular the cursor stays on the screen
\* and the buffer within its size.
TypeOK ==
  /\ {caps, ctrl, alt, shiftL, shiftR, locked} \subseteq BOOLEAN
  /\ key_stat \in 0..3
  /\ held \in Chords
  /\ display_term \in Terms
  /\ \A t \in Terms : /\ kb_buf[t] \in Seq(Printable \cup {NEWLINE})
                      /\ Len(kb_buf[t]) <= KB_BUF_SIZE
  /\ screen \in [Terms -> [cell : [Cells -> Chars], cur : Cells]]
  /\ {readWaiting, prompt} \subseteq [Terms -> BOOLEAN]
  /\ pc \in [Terms -> Points]
  /\ source \in [Terms -> Terms]
  /\ idx \in [Terms -> Nat]

\* The text s stands right before the cursor of scr.
EndsIn(scr, s) ==
  /\ Len(s) <= scr.cur
  /\ \A i \in DOMAIN s : scr.cell[scr.cur - Len(s) + i - 1] = s[i]

\* While a read waits, the line in its buffer stands right after the prompt and
\* before the cursor, whenever it was typed: Backspace takes back what was typed
\* and nothing else.  A line typed early "would otherwise not show up after 391OS>
\* prompt, meaning it could get deleted with backspace" (terminal.c:367-369), and
\* buglog.txt reports "Able to delete the 391OS> prompt after fish".
LineIsShown ==
  \A t \in Terms : Phase(t) = "wait" =>
    EndsIn(screen[t], (IF prompt[t] THEN <<PROMPT>> ELSE <<>>) \o kb_buf[t])

\* A key puts the character into the buffer that the user means by it, with the
\* Shift keys that are really down, in whatever order they went down and came up
\* (keyboard.c:104-126).
TypedAsMeant ==
  [][\A k \in Keys[display_term] \cap Printing : Press(k) /\ kb_buf' # kb_buf =>
       Last(kb_buf'[display_term]) = Meant(k)]_vars
=============================================================================
