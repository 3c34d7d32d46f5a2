--------------------------------- MODULE Screen ---------------------------------
(***************************************************************************)
(* What the terminals show: the frames of video memory, the cursors, the   *)
(* switch between terminals and the page a program may draw on             *)
(* (drivers/terminal.c, page.c, vidmap in syscall.c).                      *)
(*                                                                         *)
(* The screen of terminal t is the frame terminals[t].video_mem points to: *)
(* VIDEO, which the monitor shows, while t is displayed, t's backup frame  *)
(* otherwise.  A cell holds a blank or a mark that tells which watched     *)
(* terminal put it there, and whether as text through term_putc or by      *)
(* drawing on its mapped page.  term_putc runs with interrupts enabled     *)
(* when a program writes, and is cut where a key can disturb it; a key is  *)
(* one step, since keyboard_int disables interrupts.  The several          *)
(* characters of a Tab, and of the line printed again after Ctrl-L, are    *)
(* several echo steps: more interleavings than the code has.  The keyboard *)
(* buffer is in Terminal; here a Backspace may come whatever it holds.     *)
(***************************************************************************)
EXTENDS Integers

CONSTANTS
  Terms,       \* the terminals
  FirstTerm,   \* the one displayed after boot
  NUM_ROWS, NUM_COLS,  \* size of a screen
  BYTE,        \* number of values of a byte
  Writing,     \* terminals whose program writes text
  Drawing,     \* terminals whose program draws on the page given by vidmap
  Watched,     \* terminals whose output this instance tells from blanks
  KeyPoints,   \* points of term_putc where this instance lets the keyboard in
  BootSwitch   \* whether terminals are switched before boot has set the pages up

VIDEO == "VIDEO"
Frames == Terms \cup {VIDEO}

Cells == 0..(NUM_ROWS * NUM_COLS - 1)

Blank == <<"blank">>
Text(t) == IF t \in Watched THEN <<t, "text">> ELSE Blank
Drawn(t) == IF t \in Watched THEN <<t, "drawn">> ELSE Blank
Marks == {Blank} \cup {Text(t) : t \in Terms} \cup {Drawn(t) : t \in Terms}

\* The points of term_putc up to its call of reset_cursor, and those of
\* reset_cursor: "row" and "test" follow the stores of cur_x and of cur_y, and the
\* others precede the four outb.
Outb == {"index_low", "low", "index_high", "high"}
Points == {"idle", "store", "wrap", "reset", "row", "test"} \cup Outb

\* The cursor registers of the display: 0x0F and 0x0E.
Registers == {"low", "high"}

NotCached == "not cached"
NotMapped == "not mapped"

ASSUME ScreenAssumption ==
  /\ FirstTerm \in Terms
  /\ VIDEO \notin Terms /\ {NotCached, NotMapped} \cap Frames = {}
  /\ NUM_ROWS \in Nat \ {0} /\ NUM_COLS \in Nat \ {0} /\ BYTE \in Nat \ {0}
  /\ Writing \subseteq Terms /\ Drawing \subseteq Terms /\ Watched \subseteq Terms
  /\ KeyPoints \subseteq Points
  /\ BootSwitch \in BOOLEAN

VARIABLES
  frame,         \* contents of the frames
  video_mem,     \* per terminal: the frame its output goes to
  cur_x, cur_y,  \* per terminal: where the next character goes
  display_term,  \* the displayed terminal
  hw_cursor,     \* the two cursor registers of the display, a byte each
  crtc_index,    \* the one that port 0x3D4 has selected
  page,          \* per terminal: frame in the page table entry of its drawing page
  paging,        \* boot has set the pages up; programs run only then
  tlb,           \* per terminal: the same entry as cached by the processor
  running,       \* terminal whose process has the processor
  pc,            \* per terminal: point its process has reached in term_putc
  addr,          \* per terminal: frame and cell computed for the store
  arg            \* per terminal: arguments of the pending reset_cursor

monitor == <<hw_cursor, crtc_index>>

vars == <<frame, video_mem, cur_x, cur_y, display_term, monitor, page, paging, tlb,
          running, pc, addr, arg>>

mapping == <<video_mem, display_term, page>>

CellAt(x, y) == NUM_COLS * y + x

\* The bytes of a position.
LowByte(k) == k % BYTE
HighByte(k) == (k \div BYTE) % BYTE

\* The registers when they show the cursor at (x, y).
Shown(x, y) ==
  [r \in Registers |-> IF r = "low" THEN LowByte(CellAt(x, y)) ELSE HighByte(CellAt(x, y))]

\* page_map_4kb: the page table with one entry written.
page_map_4kb(table, t, f) == [table EXCEPT ![t] = f]

flush_tlb == tlb' = [t \in Terms |-> NotCached]

\* term_init: nothing is mapped yet.  What memory holds before is no terminal's text.
Init ==
  /\ page = [t \in Terms |-> NotMapped]
  /\ tlb = [t \in Terms |-> NotCached]
  /\ paging = FALSE
  /\ frame = [f \in Frames |-> [k \in Cells |-> Blank]]
  /\ video_mem = [t \in Terms |-> IF t = FirstTerm THEN VIDEO ELSE t]
  /\ cur_x = [t \in Terms |-> 0]
  /\ cur_y = [t \in Terms |-> 0]
  /\ display_term = FirstTerm
  /\ hw_cursor = Shown(0, 0)
  /\ crtc_index = "high"
  /\ running = FirstTerm
  /\ pc = [t \in Terms |-> "idle"]
  /\ addr = [t \in Terms |-> <<VIDEO, 0>>]
  /\ arg = [t \in Terms |-> <<0, 0>>]

\* The entries for vidmap, with the first terminal taken for the displayed one;
\* load_page leaves no cached entry.  Keys have been coming in since rtc_init.
init_pages ==
  /\ ~paging
  /\ paging' = TRUE
  /\ page' = [t \in Terms |-> IF t = FirstTerm THEN VIDEO ELSE t]
  /\ flush_tlb
  /\ UNCHANGED <<frame, video_mem, cur_x, cur_y, display_term, monitor, running, pc, addr, arg>>

Screen(t) == frame[video_mem[t]]

-----------------------------------------------------------------------------
(* Pieces of term_putc *)

\* A cell below the last row lies in the unused end of the frame.
Stored(s, k, m) == IF k \in Cells THEN [s EXCEPT ![k] = m] ELSE s

Scrolled(s) ==
  [k \in Cells |-> IF k + NUM_COLS \in Cells THEN s[k + NUM_COLS] ELSE Blank]

\* The cursor after the right edge moves to the next row.
WrapX(x) == IF x >= NUM_COLS THEN 0 ELSE x
WrapY(x, y) == IF x >= NUM_COLS THEN y + 1 ELSE y

\* Variant: the screen is never scrolled.
Settle_no_scroll(s, x, y) == [screen |-> s, x |-> WrapX(x), y |-> WrapY(x, y)]

\* Wrap, and scroll when the cursor has left the last row.
Settle(s, x, y) ==
  IF WrapY(x, y) >= NUM_ROWS
  THEN [screen |-> Scrolled(s), x |-> 0, y |-> NUM_ROWS - 1]
  ELSE [screen |-> s, x |-> WrapX(x), y |-> WrapY(x, y)]

\* reset_cursor called by a key, which nothing interrupts: the position is stored,
\* and the display follows if t is displayed.
reset_cursor(t, x, y) ==
  /\ cur_x' = [cur_x EXCEPT ![t] = x]
  /\ cur_y' = [cur_y EXCEPT ![t] = y]
  /\ hw_cursor' = IF t = display_term THEN Shown(x, y) ELSE hw_cursor
  /\ crtc_index' = IF t = display_term THEN "high" ELSE crtc_index

\* Screen and cursor of t become r at once.
Becomes(t, r) ==
  /\ frame' = [frame EXCEPT ![video_mem[t]] = r.screen]
  /\ reset_cursor(t, r.x, r.y)

-----------------------------------------------------------------------------
(* A program writes (terminal_write), in the process of terminal t *)

At(t, p) == running = t /\ pc[t] = p
Goto(t, p) == pc' = [pc EXCEPT ![t] = p]

\* Variant: output goes to the displayed frame.
term_putc_video(t) ==
  /\ At(t, "idle") /\ t \in Writing
  /\ addr' = [addr EXCEPT ![t] = <<VIDEO, CellAt(cur_x[t], cur_y[t])>>]
  /\ Goto(t, "store")
  /\ UNCHANGED <<frame, mapping, cur_x, cur_y, monitor, tlb, running, arg>>

\* A printable character: the address of its cell is computed...
term_putc(t) ==
  /\ At(t, "idle") /\ t \in Writing
  /\ addr' = [addr EXCEPT ![t] = <<video_mem[t], CellAt(cur_x[t], cur_y[t])>>]
  /\ Goto(t, "store")
  /\ UNCHANGED <<frame, mapping, cur_x, cur_y, monitor, tlb, running, arg>>

\* ... and the character stored; the address is not used again.
putc_store(t) ==
  /\ At(t, "store")
  /\ frame' = [frame EXCEPT ![addr[t][1]] = Stored(@, addr[t][2], Text(t))]
  /\ cur_x' = [cur_x EXCEPT ![t] = @ + 1]
  /\ addr' = [addr EXCEPT ![t] = <<VIDEO, 0>>]
  /\ Goto(t, "wrap")
  /\ UNCHANGED <<mapping, cur_y, monitor, tlb, running, arg>>

putc_newline(t) ==
  /\ At(t, "idle") /\ t \in Writing
  /\ cur_y' = [cur_y EXCEPT ![t] = @ + 1]
  /\ cur_x' = [cur_x EXCEPT ![t] = 0]
  /\ Goto(t, "wrap")
  /\ UNCHANGED <<frame, mapping, monitor, tlb, running, addr, arg>>

putc_wrap(t) ==
  LET r == Settle(Screen(t), cur_x[t], cur_y[t])
  IN  /\ At(t, "wrap")
      /\ frame' = [frame EXCEPT ![video_mem[t]] = r.screen]
      /\ cur_x' = [cur_x EXCEPT ![t] = r.x]
      /\ cur_y' = [cur_y EXCEPT ![t] = r.y]
      /\ arg' = [arg EXCEPT ![t] = <<r.x, r.y>>]
      /\ Goto(t, "reset")
      /\ UNCHANGED <<mapping, monitor, tlb, running, addr>>

\* reset_cursor called by term_putc: its statements one by one.
putc_reset(t) ==
  /\ At(t, "reset")
  /\ cur_x' = [cur_x EXCEPT ![t] = arg[t][1]]
  /\ Goto(t, "row")
  /\ UNCHANGED <<frame, mapping, cur_y, monitor, tlb, running, addr, arg>>

putc_row(t) ==
  /\ At(t, "row")
  /\ cur_y' = [cur_y EXCEPT ![t] = arg[t][2]]
  /\ Goto(t, "test")
  /\ UNCHANGED <<frame, mapping, cur_x, monitor, tlb, running, addr, arg>>

\* Variant: the display follows every terminal.
putc_hidden_follows(t) ==
  /\ At(t, "test")
  /\ t # display_term
  /\ Goto(t, "index_low")
  /\ UNCHANGED <<frame, mapping, cur_x, cur_y, monitor, tlb, running, addr, arg>>

\* Nothing more to do for a terminal that is not displayed.
putc_hidden(t) ==
  /\ At(t, "test")
  /\ t # display_term
  /\ arg' = [arg EXCEPT ![t] = <<0, 0>>]
  /\ Goto(t, "idle")
  /\ UNCHANGED <<frame, mapping, cur_x, cur_y, monitor, tlb, running, addr>>

putc_displayed(t) ==
  /\ At(t, "test")
  /\ t = display_term
  /\ Goto(t, "index_low")
  /\ UNCHANGED <<frame, mapping, cur_x, cur_y, monitor, tlb, running, addr, arg>>

\* outb to port 0x3D4 selects a register...
outb_index(t, p, r) ==
  /\ At(t, p)
  /\ crtc_index' = r
  /\ Goto(t, r)
  /\ UNCHANGED <<frame, mapping, cur_x, cur_y, hw_cursor, tlb, running, addr, arg>>

\* ... and outb to port 0x3D5 writes the one that is selected by then.
outb_low(t) ==
  /\ At(t, "low")
  /\ hw_cursor' = [hw_cursor EXCEPT ![crtc_index] = LowByte(CellAt(arg[t][1], arg[t][2]))]
  /\ Goto(t, "index_high")
  /\ UNCHANGED <<frame, mapping, cur_x, cur_y, crtc_index, tlb, running, addr, arg>>

outb_high(t) ==
  /\ At(t, "high")
  /\ hw_cursor' = [hw_cursor EXCEPT ![crtc_index] = HighByte(CellAt(arg[t][1], arg[t][2]))]
  /\ arg' = [arg EXCEPT ![t] = <<0, 0>>]
  /\ Goto(t, "idle")
  /\ UNCHANGED <<frame, mapping, cur_x, cur_y, crtc_index, tlb, running, addr>>

\* A program stores directly into the page that vidmap gave it.  The processor
\* uses the cached entry if it has one, and may have dropped it.
draw(t) ==
  /\ At(t, "idle") /\ t \in Drawing
  /\ \E k \in Cells, f \in {page[t], tlb[t]} \ {NotCached} :
       /\ frame' = [frame EXCEPT ![f] = Stored(@, k, Drawn(t))]
       /\ tlb' = [tlb EXCEPT ![t] = f]
  /\ UNCHANGED <<mapping, cur_x, cur_y, monitor, running, pc, addr, arg>>

-----------------------------------------------------------------------------
(* Interrupts *)

\* The timer hands the processor on; page_map_user reloads cr3, which empties the TLB.
pit_int(t) ==
  /\ t # running
  /\ running' = t
  /\ flush_tlb
  /\ UNCHANGED <<frame, mapping, cur_x, cur_y, monitor, pc, addr, arg>>

keyboard_int ==
  /\ \A t \in Terms : pc[t] \in KeyPoints
  /\ UNCHANGED <<tlb, running, pc, addr, arg>>

\* A typed character is echoed on the displayed terminal.
term_keyboardChar ==
  LET t == display_term
      k == CellAt(cur_x[t], cur_y[t])
  IN  /\ keyboard_int
      /\ Becomes(t, Settle(Stored(Screen(t), k, Text(t)), cur_x[t] + 1, cur_y[t]))
      /\ UNCHANGED mapping

term_keyboardEnter ==
  LET t == display_term
  IN  /\ keyboard_int
      /\ Becomes(t, Settle(Screen(t), 0, cur_y[t] + 1))
      /\ UNCHANGED mapping

\* Variant: the top left corner is not checked.
term_keyboardBackspace_unchecked ==
  LET t == display_term
      x == IF cur_x[t] >= 1 THEN cur_x[t] - 1 ELSE NUM_COLS - 1
      y == IF cur_x[t] >= 1 THEN cur_y[t] ELSE cur_y[t] - 1
  IN  /\ keyboard_int
      /\ frame' = [frame EXCEPT ![VIDEO] = Stored(@, CellAt(x, y), Blank)]
      /\ reset_cursor(t, x, y)
      /\ UNCHANGED mapping

\* Backspace steps back, over the left edge too, and blanks the cell it reaches.
\* term_setChar always writes to VIDEO: the terminal is the displayed one.
term_keyboardBackspace ==
  LET t == display_term
      x == IF cur_x[t] >= 1 THEN cur_x[t] - 1 ELSE NUM_COLS - 1
      y == IF cur_x[t] >= 1 THEN cur_y[t] ELSE cur_y[t] - 1
  IN  /\ keyboard_int
      /\ ~(cur_x[t] = 0 /\ cur_y[t] = 0)
      /\ frame' = [frame EXCEPT ![VIDEO] = Stored(@, CellAt(x, y), Blank)]
      /\ reset_cursor(t, x, y)
      /\ UNCHANGED mapping

\* Ctrl-L; the line in the buffer is echoed again afterwards.
term_clear ==
  /\ keyboard_int
  /\ Becomes(display_term, [screen |-> [k \in Cells |-> Blank], x |-> 0, y |-> 0])
  /\ UNCHANGED mapping

\* Variant: the page of the terminal that goes is left on VIDEO.
show_terminal_page_left(t) ==
  LET old == display_term
  IN  /\ keyboard_int
      /\ t # old
      /\ page' = page_map_4kb(page, t, VIDEO)
      /\ frame' = [frame EXCEPT ![old] = frame[VIDEO], ![VIDEO] = Screen(t)]
      /\ video_mem' = [video_mem EXCEPT ![old] = old, ![t] = VIDEO]
      /\ display_term' = t
      /\ hw_cursor' = Shown(cur_x[t], cur_y[t])
      /\ crtc_index' = "high"
      /\ UNCHANGED <<cur_x, cur_y>>

\* Variant: VIDEO is loaded before it is saved.
show_terminal_load_first(t) ==
  LET old == display_term
  IN  /\ keyboard_int
      /\ t # old
      /\ page' = page_map_4kb(page_map_4kb(page, t, VIDEO), old, old)
      /\ frame' = [frame EXCEPT ![old] = Screen(t), ![VIDEO] = Screen(t)]
      /\ video_mem' = [video_mem EXCEPT ![old] = old, ![t] = VIDEO]
      /\ display_term' = t
      /\ hw_cursor' = Shown(cur_x[t], cur_y[t])
      /\ crtc_index' = "high"
      /\ UNCHANGED <<cur_x, cur_y>>

\* Alt-F1..F3: VIDEO is saved in the backup of the terminal that goes and loaded
\* from the backup of the one that comes.
show_terminal(t) ==
  LET old == display_term
  IN  /\ keyboard_int
      /\ t # old
      /\ page' = page_map_4kb(page_map_4kb(page, t, VIDEO), old, old)
      /\ frame' = [frame EXCEPT ![old] = frame[VIDEO], ![VIDEO] = Screen(t)]
      /\ video_mem' = [video_mem EXCEPT ![old] = old, ![t] = VIDEO]
      /\ display_term' = t
      /\ hw_cursor' = Shown(cur_x[t], cur_y[t])
      /\ crtc_index' = "high"
      /\ UNCHANGED <<cur_x, cur_y>>

Key ==
  \/ term_keyboardChar
  \/ term_keyboardEnter
  \/ term_keyboardBackspace
  \/ term_clear
  \/ (paging \/ BootSwitch) /\ \E t \in Terms : show_terminal(t)

Output(t) ==
  \/ term_putc(t)
  \/ putc_store(t)
  \/ putc_newline(t)
  \/ putc_wrap(t)
  \/ putc_reset(t)
  \/ putc_row(t)
  \/ putc_hidden(t)
  \/ putc_displayed(t)
  \/ outb_index(t, "index_low", "low")
  \/ outb_low(t)
  \/ outb_index(t, "index_high", "high")
  \/ outb_high(t)
  \/ draw(t)

Next ==
  \/ init_pages
  \/ Key /\ UNCHANGED paging
  \/ paging /\ UNCHANGED paging /\ \E t \in Terms : Output(t) \/ pit_int(t)

Spec == Init /\ [][Next]_vars

-----------------------------------------------------------------------------
(* Properties *)

\* Every variable keeps its type; a cursor is at most one step past an edge, even
\* inside term_putc (terminal.h, struct terminal; terminal.c:306-329).
TypeOK ==
  /\ frame \in [Frames -> [Cells -> Marks]]
  /\ video_mem \in [Terms -> Frames]
  /\ cur_x \in [Terms -> 0..NUM_COLS] /\ cur_y \in [Terms -> 0..NUM_ROWS]
  /\ display_term \in Terms /\ running \in Terms
  /\ hw_cursor \in [Registers -> 0..(BYTE - 1)] /\ crtc_index \in Registers
  /\ page \in [Terms -> Frames \cup {NotMapped}] /\ paging \in BOOLEAN
  /\ tlb \in [Terms -> Frames \cup {NotCached}]
  /\ pc \in [Terms -> Points]
  /\ addr \in [Terms -> Frames \X Int]
  /\ arg \in [Terms -> Int \X Int]

\* Text written to a terminal never appears on another one, whatever is switched
\* and written in between (terminal.c:103-110, 317).
TextStaysHome ==
  \A t \in Terms : \A k \in Cells : \A u \in Watched \ {t} : Screen(t)[k] # Text(u)

\* What a program draws on its page never appears on another terminal:
\* buglog.txt:101 reports "Fish displaying in all 3 terminals" and answers it by
\* swapping the mapping in show_terminal (terminal.c:98-99).
DrawingStaysHome ==
  \A t \in Terms : \A k \in Cells : \A u \in Watched \ {t} : Screen(t)[k] # Drawn(u)

\* The page table and the kernel's own pointers agree on every terminal's frame,
\* and VIDEO is the frame of the displayed terminal alone (terminal.c:98-110,
\* page.c:68-70).
PageFollowsScreen ==
  \A t \in Terms :
    /\ paging => page[t] = video_mem[t]
    /\ video_mem[t] = IF t = display_term THEN VIDEO ELSE t

\* The next character of every terminal goes to a cell of its screen
\* (terminal.c:315-329).
CursorOnScreen ==
  \A t \in Terms : pc[t] \in KeyPoints =>
    cur_x[t] \in 0..(NUM_COLS - 1) /\ cur_y[t] \in 0..(NUM_ROWS - 1)

\* "puts the cursor in location of next character to print" (terminal.c:332):
\* when no output call is at work on it, the cursor on the monitor is the displayed terminal's
\* (terminal.c:34-41, 114).  Only where no key comes inside reset_cursor, between
\* its stores and its last outb: there the other reset_cursor has gone in between.
CursorIsShown ==
  pc[display_term] = "idle" /\ (\A t \in Terms : pc[t] \notin Outb) =>
    hw_cursor = Shown(cur_x[display_term], cur_y[display_term])

\* Switching terminals changes what no terminal shows: the two copies of the loop
\* save and load without loss (terminal.c:103-108).
SwitchKeepsScreens ==
  [][display_term' # display_term => \A t \in Terms : Screen(t)' = Screen(t)]_vars
=============================================================================
