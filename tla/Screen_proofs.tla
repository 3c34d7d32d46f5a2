----------------------------- MODULE Screen_proofs -----------------------------
(***************************************************************************)
(* Proofs about Screen, for any set of terminals, size of the screen and   *)
(* choice of the programs that write and draw, when keys come outside      *)
(* term_putc or in its reset_cursor (for the cursor on the monitor: not    *)
(* inside that either), and terminals are switched only after boot has set *)
(* the pages up.                                                           *)
(***************************************************************************)
EXTENDS Screen, TLAPS

\* The condition on the instance: see KeyPoints and BootSwitch.
KeysOutsidePutc == KeyPoints \cap {"store", "wrap"} = {} /\ BootSwitch = FALSE

\* The same for the cursor registers, which the statements of reset_cursor write
\* one after the other.
KeysOutsideReset == KeyPoints \subseteq {"idle", "reset"} /\ BootSwitch = FALSE

-----------------------------------------------------------------------------
(* The inductive invariant *)

OnScreen(x, y) == x \in 0..(NUM_COLS - 1) /\ y \in 0..(NUM_ROWS - 1)

\* The cursor leaves the screen only between the store and the wrap, by one step,
\* and never over both edges at once; reset_cursor is given a cell of the screen.
CursorInv ==
  \A t \in Terms :
    /\ pc[t] # "wrap" => OnScreen(cur_x[t], cur_y[t])
    /\ pc[t] = "wrap" /\ cur_y[t] = NUM_ROWS => cur_x[t] = 0
    /\ pc[t] \in {"reset", "row", "test"} \cup Outb => OnScreen(arg[t][1], arg[t][2])

\* The address computed for a store is still on the writer's own frame.
AddrInv == \A t \in Terms : pc[t] = "store" => addr[t][1] = video_mem[t]

\* No terminal is switched before the pages are set up.
BootInv == ~paging => display_term = FirstTerm

IInv ==
  /\ TypeOK
  /\ PageFollowsScreen
  /\ BootInv
  /\ CursorInv
  /\ AddrInv
  /\ TextStaysHome

-----------------------------------------------------------------------------
(* Marks and the operations on a screen *)

\* A mark that is not u's text.
LEMMA MarksDiffer ==
  ASSUME NEW t \in Terms, NEW u \in Watched, t # u
  PROVE  Text(t) # Text(u) /\ Blank # Text(u) /\ Drawn(t) # Text(u)
  BY DEF Text, Drawn, Blank

LEMMA DrawnIsNoText ==
  ASSUME NEW t \in Terms, NEW u \in Watched
  PROVE  Drawn(t) # Text(u) /\ Blank # Text(u)
  BY DEF Text, Drawn, Blank

LEMMA MarksTyped ==
  ASSUME NEW t \in Terms
  PROVE  Blank \in Marks /\ Text(t) \in Marks /\ Drawn(t) \in Marks
  BY DEF Marks

\* No cell of the screen s holds text of u.
FreeOf(s, u) == \A k \in Cells : s[k] # Text(u)

LEMMA StoredFacts ==
  ASSUME NEW s \in [Cells -> Marks], NEW k \in Int, NEW m \in Marks
  PROVE  /\ Stored(s, k, m) \in [Cells -> Marks]
         /\ \A u \in Watched : FreeOf(s, u) /\ m # Text(u) => FreeOf(Stored(s, k, m), u)
  BY DEF Stored, FreeOf

LEMMA ScrolledFacts ==
  ASSUME NEW s \in [Cells -> Marks]
  PROVE  /\ Scrolled(s) \in [Cells -> Marks]
         /\ \A u \in Watched : FreeOf(s, u) => FreeOf(Scrolled(s), u)
  <1>1. Blank \in Marks
    BY DEF Marks
  <1>2. \A u \in Watched : Blank # Text(u)
    BY ScreenAssumption, DrawnIsNoText
  <1>. QED
    BY <1>1, <1>2 DEF Scrolled, FreeOf

\* Settle brings a cursor that is one step past one edge back on the screen.
LEMMA SettleFacts ==
  ASSUME NEW s \in [Cells -> Marks], NEW x \in 0..NUM_COLS, NEW y \in 0..NUM_ROWS,
         y = NUM_ROWS => x = 0
  PROVE  /\ Settle(s, x, y).screen \in [Cells -> Marks]
         /\ OnScreen(Settle(s, x, y).x, Settle(s, x, y).y)
         /\ \A u \in Watched : FreeOf(s, u) => FreeOf(Settle(s, x, y).screen, u)
  <1>1. CASE WrapY(x, y) >= NUM_ROWS
    <2>1. Settle(s, x, y) = [screen |-> Scrolled(s), x |-> 0, y |-> NUM_ROWS - 1]
      BY <1>1 DEF Settle
    <2>2. OnScreen(0, NUM_ROWS - 1)
      BY ScreenAssumption DEF OnScreen
    <2>. QED
      BY <2>1, <2>2, ScrolledFacts
  <1>2. CASE ~(WrapY(x, y) >= NUM_ROWS)
    <2>1. Settle(s, x, y) = [screen |-> s, x |-> WrapX(x), y |-> WrapY(x, y)]
      BY <1>2 DEF Settle
    <2>2. OnScreen(WrapX(x), WrapY(x, y))
      BY <1>2, ScreenAssumption DEF OnScreen, WrapX, WrapY
    <2>. QED
      BY <2>1, <2>2
  <1>. QED
    BY <1>1, <1>2

LEMMA CellAtTyped ==
  ASSUME NEW x \in Int, NEW y \in Int
  PROVE  CellAt(x, y) \in Int
  BY ScreenAssumption DEF CellAt

LEMMA BytesTyped ==
  ASSUME NEW k \in Int
  PROVE  LowByte(k) \in 0..(BYTE - 1) /\ HighByte(k) \in 0..(BYTE - 1)
  <1>1. LowByte(k) \in 0..(BYTE - 1)
    BY ScreenAssumption DEF LowByte
  <1>2. k \div BYTE \in Int
    BY ScreenAssumption
  <1>3. \A n \in Int : n % BYTE \in 0..(BYTE - 1)
    BY ScreenAssumption
  <1>4. HighByte(k) \in 0..(BYTE - 1)
    BY <1>2, <1>3 DEF HighByte
  <1>. QED
    BY <1>1, <1>4

LEMMA ShownTyped ==
  ASSUME NEW x \in Int, NEW y \in Int
  PROVE  Shown(x, y) \in [Registers -> 0..(BYTE - 1)]
  BY CellAtTyped, BytesTyped DEF Shown

-----------------------------------------------------------------------------
(* Frames *)

\* Two terminals never share a frame.
LEMMA FramesApart ==
  ASSUME TypeOK, PageFollowsScreen, NEW t \in Terms, NEW v \in Terms, t # v
  PROVE  video_mem[t] # video_mem[v]
  BY ScreenAssumption DEF PageFollowsScreen, VIDEO

\* Writing a screen s to the frame of t, without text of another terminal that
\* was not there before, keeps text at home.
LEMMA OwnFrame ==
  ASSUME TypeOK, PageFollowsScreen, TextStaysHome,
         NEW t \in Terms, NEW s \in [Cells -> Marks],
         \A u \in Watched \ {t} : FreeOf(Screen(t), u) => FreeOf(s, u),
         frame' = [frame EXCEPT ![video_mem[t]] = s],
         video_mem' = video_mem
  PROVE  TextStaysHome' /\ frame' \in [Frames -> [Cells -> Marks]]
  <1>1. frame' \in [Frames -> [Cells -> Marks]]
    BY DEF TypeOK
  <1>2. ASSUME NEW v \in Terms, NEW u \in Watched \ {v}
        PROVE  FreeOf(frame'[video_mem'[v]], u)
    <2>1. FreeOf(Screen(v), u)
      BY <1>2 DEF TextStaysHome, FreeOf
    <2>2. CASE v = t
      BY <2>1, <2>2 DEF TypeOK
    <2>3. CASE v # t
      <3>1. frame'[video_mem'[v]] = Screen(v)
        BY <2>3, FramesApart DEF TypeOK, Screen
      <3>. QED
        BY <2>1, <3>1
    <2>. QED
      BY <2>2, <2>3
  <1>. QED
    BY <1>1, <1>2 DEF TextStaysHome, FreeOf, Screen

\* The screen of t is a screen.
LEMMA ScreenTyped ==
  ASSUME TypeOK, NEW t \in Terms
  PROVE  Screen(t) \in [Cells -> Marks]
  BY DEF TypeOK, Screen

\* A step that leaves the frames alone keeps text at home.
LEMMA SameFrames ==
  ASSUME TextStaysHome, UNCHANGED <<frame, video_mem>>
  PROVE  TextStaysHome'
  BY DEF TextStaysHome, Screen

\* A step that leaves the mappings alone keeps them.
LEMMA SameMapping ==
  ASSUME PageFollowsScreen, UNCHANGED <<mapping, paging>>
  PROVE  PageFollowsScreen'
  BY DEF PageFollowsScreen, mapping

-----------------------------------------------------------------------------
(* Every action preserves the invariant *)

LEMMA InitIInv ==
  ASSUME Init
  PROVE  IInv
  <1>. USE DEF Init
  <1>1. TypeOK
    <2>1. frame \in [Frames -> [Cells -> Marks]]
      BY DEF Marks
    <2>2. video_mem \in [Terms -> Frames]
      BY DEF Frames
    <2>3. VIDEO \in Frames
      BY DEF Frames
    <2>4. cur_x \in [Terms -> 0..NUM_COLS] /\ cur_y \in [Terms -> 0..NUM_ROWS]
      BY ScreenAssumption
    <2>5. page \in [Terms -> Frames \cup {NotMapped}] /\ tlb \in [Terms -> Frames \cup {NotCached}]
      OBVIOUS
    <2>6. pc \in [Terms -> Points]
      BY DEF Points
    <2>7. addr \in [Terms -> Frames \X Int] /\ arg \in [Terms -> Int \X Int]
      BY <2>3
    <2>8. hw_cursor \in [Registers -> 0..(BYTE - 1)] /\ crtc_index \in Registers
      BY ShownTyped DEF Registers
    <2>9. display_term \in Terms /\ running \in Terms /\ paging \in BOOLEAN
      BY ScreenAssumption
    <2>. QED
      BY <2>1, <2>2, <2>4, <2>5, <2>6, <2>7, <2>8, <2>9 DEF TypeOK
  <1>2. PageFollowsScreen /\ BootInv
    BY ScreenAssumption DEF PageFollowsScreen, BootInv
  <1>3. CursorInv
    <2>1. OnScreen(0, 0)
      BY ScreenAssumption DEF OnScreen
    <2>2. \A t \in Terms : pc[t] = "idle" /\ cur_x[t] = 0 /\ cur_y[t] = 0
      OBVIOUS
    <2>. QED
      BY <2>1, <2>2 DEF CursorInv
  <1>4. AddrInv
    BY DEF AddrInv
  <1>6. TextStaysHome
    <2>1. \A u \in Watched : Blank # Text(u)
      BY ScreenAssumption, DrawnIsNoText
    <2>2. \A t \in Terms : video_mem[t] \in Frames
      BY DEF Frames
    <2>. QED
      BY <2>1, <2>2 DEF TextStaysHome, Screen
  <1>. QED
    BY <1>1, <1>2, <1>3, <1>4, <1>6 DEF IInv

\* Boot maps the pages as the terminals are: none has been switched yet.
LEMMA InitPagesStep ==
  ASSUME IInv, init_pages
  PROVE  IInv'
  <1>. USE DEF IInv, init_pages
  <1>1. TypeOK'
    BY DEF TypeOK, flush_tlb, Frames, monitor
  <1>2. PageFollowsScreen' /\ BootInv'
    BY DEF PageFollowsScreen, BootInv
  <1>3. CursorInv' /\ AddrInv'
    BY DEF CursorInv, AddrInv
  <1>. QED
    BY <1>1, <1>2, <1>3, SameFrames

LEMMA PutcStep ==
  ASSUME IInv, NEW t \in Terms, term_putc(t), UNCHANGED paging
  PROVE  IInv'
  <1>. USE DEF IInv, term_putc, At, Goto
  <1>1. TypeOK'
    <2>1. CellAt(cur_x[t], cur_y[t]) \in Int
      BY CellAtTyped DEF TypeOK
    <2>2. addr' \in [Terms -> Frames \X Int]
      BY <2>1 DEF TypeOK
    <2>. QED
      BY <2>2 DEF TypeOK, Points, mapping, monitor
  <1>2. PageFollowsScreen' /\ BootInv'
    BY SameMapping DEF BootInv, mapping
  <1>3. CursorInv'
    BY DEF CursorInv, TypeOK, Outb
  <1>4. AddrInv'
    BY DEF AddrInv, TypeOK, mapping
  <1>6. TextStaysHome'
    BY SameFrames DEF mapping
  <1>. QED
    BY <1>1, <1>2, <1>3, <1>4, <1>6

\* The store hits the writer's own frame, wherever that is by now.
LEMMA StoreStep ==
  ASSUME IInv, NEW t \in Terms, putc_store(t), UNCHANGED paging
  PROVE  IInv'
  <1>. USE DEF IInv, putc_store, At, Goto
  <1>. DEFINE s == Stored(Screen(t), addr[t][2], Text(t))
  <1>1. s \in [Cells -> Marks] /\ \A u \in Watched \ {t} : FreeOf(Screen(t), u) => FreeOf(s, u)
    <2>1. Screen(t) \in [Cells -> Marks] /\ addr[t][2] \in Int /\ Text(t) \in Marks
      BY ScreenTyped, MarksTyped DEF TypeOK
    <2>2. \A u \in Watched \ {t} : Text(t) # Text(u)
      BY MarksDiffer
    <2>. QED
      BY <2>1, <2>2, StoredFacts
  <1>2. frame' = [frame EXCEPT ![video_mem[t]] = s] /\ video_mem' = video_mem
    BY DEF AddrInv, Screen, mapping
  <1>3. TextStaysHome' /\ frame' \in [Frames -> [Cells -> Marks]]
    BY <1>1, <1>2, OwnFrame
  <1>4. cur_x[t] \in 0..(NUM_COLS - 1) /\ cur_y[t] \in 0..(NUM_ROWS - 1)
    BY DEF CursorInv, OnScreen
  <1>5. TypeOK'
    <2>1. cur_x' \in [Terms -> 0..NUM_COLS]
      BY <1>4, ScreenAssumption DEF TypeOK
    <2>2. addr' \in [Terms -> Frames \X Int]
      BY DEF TypeOK, Frames
    <2>. QED
      BY <1>3, <2>1, <2>2 DEF TypeOK, Points, mapping, monitor
  <1>6. PageFollowsScreen' /\ BootInv'
    BY SameMapping DEF BootInv, mapping
  <1>7. CursorInv'
    <2>1. cur_y'[t] # NUM_ROWS
      BY <1>4, ScreenAssumption
    <2>. QED
      BY <2>1 DEF CursorInv, TypeOK, Outb
  <1>8. AddrInv'
    BY DEF AddrInv, TypeOK, mapping
  <1>. QED
    BY <1>3, <1>5, <1>6, <1>7, <1>8

LEMMA NewlineStep ==
  ASSUME IInv, NEW t \in Terms, putc_newline(t), UNCHANGED paging
  PROVE  IInv'
  <1>. USE DEF IInv, putc_newline, At, Goto
  <1>1. cur_x[t] \in 0..(NUM_COLS - 1) /\ cur_y[t] \in 0..(NUM_ROWS - 1)
    BY DEF CursorInv, OnScreen
  <1>2. TypeOK'
    <2>1. cur_x' \in [Terms -> 0..NUM_COLS] /\ cur_y' \in [Terms -> 0..NUM_ROWS]
      BY <1>1, ScreenAssumption DEF TypeOK
    <2>. QED
      BY <2>1 DEF TypeOK, Points, mapping, monitor
  <1>3. PageFollowsScreen' /\ BootInv'
    BY SameMapping DEF BootInv, mapping
  <1>4. CursorInv'
    BY DEF CursorInv, TypeOK, Outb
  <1>5. AddrInv'
    BY DEF AddrInv, TypeOK, mapping
  <1>7. TextStaysHome'
    BY SameFrames DEF mapping
  <1>. QED
    BY <1>2, <1>3, <1>4, <1>5, <1>7

LEMMA WrapStep ==
  ASSUME IInv, NEW t \in Terms, putc_wrap(t), UNCHANGED paging
  PROVE  IInv'
  <1>. USE DEF IInv, At, Goto
  <1>. DEFINE r == Settle(Screen(t), cur_x[t], cur_y[t])
  <1>0. /\ At(t, "wrap")
        /\ frame' = [frame EXCEPT ![video_mem[t]] = r.screen]
        /\ cur_x' = [cur_x EXCEPT ![t] = r.x]
        /\ cur_y' = [cur_y EXCEPT ![t] = r.y]
        /\ arg' = [arg EXCEPT ![t] = <<r.x, r.y>>]
        /\ Goto(t, "reset")
        /\ UNCHANGED <<mapping, monitor, tlb, running, addr>>
    BY DEF putc_wrap
  <1>1. /\ r.screen \in [Cells -> Marks]
        /\ OnScreen(r.x, r.y)
        /\ \A u \in Watched : FreeOf(Screen(t), u) => FreeOf(r.screen, u)
    <2>1. cur_x[t] \in 0..NUM_COLS /\ cur_y[t] \in 0..NUM_ROWS /\ (cur_y[t] = NUM_ROWS => cur_x[t] = 0)
      BY <1>0 DEF TypeOK, CursorInv
    <2>. QED
      BY <2>1, ScreenTyped, SettleFacts
  <1>. HIDE DEF r
  <1>2. TextStaysHome' /\ frame' \in [Frames -> [Cells -> Marks]]
    BY <1>0, <1>1, OwnFrame DEF mapping
  <1>3. TypeOK'
    <2>1. r.x \in 0..NUM_COLS /\ r.y \in 0..NUM_ROWS
      BY <1>1, ScreenAssumption DEF OnScreen
    <2>2. cur_x' \in [Terms -> 0..NUM_COLS] /\ cur_y' \in [Terms -> 0..NUM_ROWS]
      BY <1>0, <2>1 DEF TypeOK
    <2>3. arg' \in [Terms -> Int \X Int]
      BY <1>0, <2>1, ScreenAssumption DEF TypeOK
    <2>. QED
      BY <1>0, <1>2, <2>2, <2>3 DEF TypeOK, Points, mapping, monitor
  <1>4. PageFollowsScreen' /\ BootInv'
    BY <1>0, SameMapping DEF BootInv, mapping
  <1>5. CursorInv'
    BY <1>0, <1>1 DEF CursorInv, TypeOK
  <1>6. AddrInv'
    BY <1>0 DEF AddrInv, TypeOK, mapping
  <1>. QED
    BY <1>2, <1>3, <1>4, <1>5, <1>6

\* A step of reset_cursor: cursors that stay on the screen, and registers.
LEMMA ResetFrame ==
  ASSUME IInv, NEW t \in Terms, NEW p \in {"row", "test", "idle"} \cup Outb,
         pc[t] \in {"reset", "row", "test"} \cup Outb,
         pc' = [pc EXCEPT ![t] = p],
         cur_x' \in {cur_x, [cur_x EXCEPT ![t] = arg[t][1]]},
         cur_y' \in {cur_y, [cur_y EXCEPT ![t] = arg[t][2]]},
         arg' \in {arg, [arg EXCEPT ![t] = <<0, 0>>]},
         p # "idle" => arg' = arg,
         hw_cursor' \in [Registers -> 0..(BYTE - 1)], crtc_index' \in Registers,
         UNCHANGED <<frame, mapping, tlb, running, addr, paging>>
  PROVE  IInv'
  <1>. USE DEF IInv
  <1>1. OnScreen(arg[t][1], arg[t][2]) /\ OnScreen(cur_x[t], cur_y[t])
    BY DEF CursorInv, Outb
  <1>2. cur_x' \in [Terms -> 0..NUM_COLS] /\ cur_y' \in [Terms -> 0..NUM_ROWS]
    <2>1. arg[t][1] \in 0..NUM_COLS /\ arg[t][2] \in 0..NUM_ROWS
      BY <1>1, ScreenAssumption DEF OnScreen
    <2>. QED
      BY <2>1 DEF TypeOK
  <1>3. TypeOK'
    <2>1. arg' \in [Terms -> Int \X Int]
      <3>1. <<0, 0>> \in Int \X Int /\ arg \in [Terms -> Int \X Int]
        BY DEF TypeOK
      <3>2. [arg EXCEPT ![t] = <<0, 0>>] \in [Terms -> Int \X Int]
        BY <3>1
      <3>. QED
        BY <3>1, <3>2
    <2>2. pc' \in [Terms -> Points]
      BY DEF TypeOK, Points
    <2>. QED
      BY <1>2, <2>1, <2>2 DEF TypeOK, mapping
  <1>4. PageFollowsScreen' /\ BootInv'
    BY SameMapping DEF BootInv, mapping
  <1>5. CursorInv'
    <2>1. ASSUME NEW u \in Terms, u # t
          PROVE  /\ pc'[u] = pc[u] /\ cur_x'[u] = cur_x[u] /\ cur_y'[u] = cur_y[u]
                 /\ arg'[u] = arg[u]
      BY <2>1 DEF TypeOK
    <2>2. OnScreen(cur_x'[t], cur_y'[t])
      BY <1>1 DEF OnScreen, TypeOK
    <2>3. pc'[t] = p
      BY DEF TypeOK
    <2>4. p # "wrap"
      BY DEF Outb
    <2>5. p \in {"reset", "row", "test"} \cup Outb => OnScreen(arg'[t][1], arg'[t][2])
      BY <1>1 DEF Outb
    <2>. QED
      BY <2>1, <2>2, <2>3, <2>4, <2>5 DEF CursorInv
  <1>6. AddrInv'
    BY DEF AddrInv, TypeOK, mapping, Outb
  <1>7. TextStaysHome'
    BY SameFrames DEF mapping
  <1>. QED
    BY <1>3, <1>4, <1>5, <1>6, <1>7

\* What reset_cursor writes to a register is a byte.
LEMMA OutbTyped ==
  ASSUME TypeOK, NEW t \in Terms
  PROVE  /\ LowByte(CellAt(arg[t][1], arg[t][2])) \in 0..(BYTE - 1)
         /\ HighByte(CellAt(arg[t][1], arg[t][2])) \in 0..(BYTE - 1)
  BY CellAtTyped, BytesTyped DEF TypeOK

LEMMA ResetStep ==
  ASSUME IInv, NEW t \in Terms, UNCHANGED paging,
         \/ putc_reset(t) \/ putc_row(t) \/ putc_hidden(t) \/ putc_displayed(t)
         \/ outb_index(t, "index_low", "low") \/ outb_low(t)
         \/ outb_index(t, "index_high", "high") \/ outb_high(t)
  PROVE  IInv'
  <1>. USE DEF At, Goto
  <1>0. TypeOK
    BY DEF IInv
  <1>1. CASE putc_reset(t)
    BY <1>0, <1>1, ResetFrame DEF putc_reset, TypeOK, monitor
  <1>2. CASE putc_row(t)
    BY <1>0, <1>2, ResetFrame DEF putc_row, TypeOK, monitor
  <1>3. CASE putc_hidden(t)
    BY <1>0, <1>3, ResetFrame DEF putc_hidden, TypeOK, monitor
  <1>4. CASE putc_displayed(t)
    BY <1>0, <1>4, ResetFrame DEF putc_displayed, TypeOK, monitor, Outb
  <1>5. CASE outb_index(t, "index_low", "low")
    BY <1>0, <1>5, ResetFrame DEF outb_index, TypeOK, Outb, Registers
  <1>6. CASE outb_low(t)
    <2>1. hw_cursor' \in [Registers -> 0..(BYTE - 1)] /\ crtc_index' \in Registers
      BY <1>0, <1>6, OutbTyped DEF outb_low, TypeOK
    <2>. QED
      BY <1>6, <2>1, ResetFrame DEF outb_low, Outb
  <1>7. CASE outb_index(t, "index_high", "high")
    BY <1>0, <1>7, ResetFrame DEF outb_index, TypeOK, Outb, Registers
  <1>8. CASE outb_high(t)
    <2>1. hw_cursor' \in [Registers -> 0..(BYTE - 1)] /\ crtc_index' \in Registers
      BY <1>0, <1>8, OutbTyped DEF outb_high, TypeOK
    <2>. QED
      BY <1>8, <2>1, ResetFrame DEF outb_high, Outb
  <1>. QED
    BY <1>1, <1>2, <1>3, <1>4, <1>5, <1>6, <1>7, <1>8

\* A drawing program may hit another terminal's frame, but never leaves text there.
LEMMA DrawStep ==
  ASSUME IInv, paging, NEW t \in Terms, draw(t), UNCHANGED paging
  PROVE  IInv'
  <1>. USE DEF IInv
  <1>1. PICK k \in Cells, f \in {page[t], tlb[t]} \ {NotCached} :
          /\ frame' = [frame EXCEPT ![f] = Stored(@, k, Drawn(t))]
          /\ tlb' = [tlb EXCEPT ![t] = f]
    BY DEF draw
  <1>2. UNCHANGED <<mapping, cur_x, cur_y, monitor, running, pc, addr, arg>>
    BY DEF draw
  <1>3. f \in Frames
    BY DEF TypeOK, PageFollowsScreen
  <1>4. Stored(frame[f], k, Drawn(t)) \in [Cells -> Marks]
        /\ \A u \in Watched : FreeOf(frame[f], u) => FreeOf(Stored(frame[f], k, Drawn(t)), u)
    <2>1. frame[f] \in [Cells -> Marks] /\ k \in Int /\ Drawn(t) \in Marks
      BY <1>3, MarksTyped, ScreenAssumption DEF TypeOK, Cells
    <2>. QED
      BY <2>1, StoredFacts, DrawnIsNoText
  <1>5. TypeOK'
    <2>1. frame' \in [Frames -> [Cells -> Marks]]
      BY <1>1, <1>3, <1>4 DEF TypeOK
    <2>2. tlb' \in [Terms -> Frames \cup {NotCached}]
      BY <1>1, <1>3 DEF TypeOK
    <2>. QED
      BY <1>2, <2>1, <2>2 DEF TypeOK, mapping, monitor
  <1>6. PageFollowsScreen' /\ BootInv'
    BY <1>2, SameMapping DEF BootInv, mapping
  <1>7. CursorInv' /\ AddrInv'
    BY <1>2 DEF CursorInv, AddrInv, mapping
  <1>8. TextStaysHome'
    <2>1. ASSUME NEW v \in Terms, NEW u \in Watched \ {v}
          PROVE  FreeOf(frame'[video_mem'[v]], u)
      <3>1. FreeOf(frame[video_mem[v]], u)
        BY <2>1 DEF TextStaysHome, FreeOf, Screen
      <3>2. video_mem'[v] = video_mem[v] /\ video_mem[v] \in Frames
        BY <1>2 DEF mapping, TypeOK
      <3>3. frame'[video_mem[v]] = IF video_mem[v] = f THEN Stored(frame[f], k, Drawn(t))
                                                      ELSE frame[video_mem[v]]
        BY <1>1, <3>2 DEF TypeOK
      <3>. QED
        BY <1>4, <3>1, <3>2, <3>3
    <2>. QED
      BY <2>1 DEF TextStaysHome, FreeOf, Screen
  <1>. QED
    BY <1>5, <1>6, <1>7, <1>8

LEMMA TickStep ==
  ASSUME IInv, NEW t \in Terms, pit_int(t), UNCHANGED paging
  PROVE  IInv'
  <1>. USE DEF IInv, pit_int
  <1>1. TypeOK'
    BY DEF TypeOK, flush_tlb, mapping, monitor
  <1>2. PageFollowsScreen' /\ BootInv'
    BY SameMapping DEF BootInv, mapping
  <1>3. CursorInv' /\ AddrInv'
    BY DEF CursorInv, AddrInv, mapping
  <1>4. TextStaysHome'
    BY SameFrames DEF mapping
  <1>. QED
    BY <1>1, <1>2, <1>3, <1>4

\* At a key no output is between its address and its wrap.
LEMMA KeyPoint ==
  ASSUME KeysOutsidePutc, keyboard_int, IInv, NEW t \in Terms
  PROVE  pc[t] \notin {"store", "wrap"} /\ OnScreen(cur_x[t], cur_y[t])
  <1>1. pc[t] \notin {"store", "wrap"}
    BY DEF KeysOutsidePutc, keyboard_int
  <1>. QED
    BY <1>1 DEF IInv, CursorInv

\* A key that gives the displayed terminal a new screen and cursor.
LEMMA BecomesStep ==
  ASSUME KeysOutsidePutc, IInv, keyboard_int, UNCHANGED <<mapping, paging>>,
         NEW s \in [Cells -> Marks], NEW x, NEW y, OnScreen(x, y),
         \A u \in Watched \ {display_term} : FreeOf(Screen(display_term), u) => FreeOf(s, u),
         frame' = [frame EXCEPT ![video_mem[display_term]] = s],
         reset_cursor(display_term, x, y)
  PROVE  IInv'
  <1>. USE DEF IInv, keyboard_int, reset_cursor
  <1>1. TextStaysHome' /\ frame' \in [Frames -> [Cells -> Marks]]
    BY OwnFrame DEF TypeOK, mapping
  <1>2. TypeOK'
    <2>1. x \in 0..NUM_COLS /\ y \in 0..NUM_ROWS
      BY ScreenAssumption DEF OnScreen
    <2>2. cur_x' \in [Terms -> 0..NUM_COLS] /\ cur_y' \in [Terms -> 0..NUM_ROWS]
      BY <2>1 DEF TypeOK
    <2>3. hw_cursor' \in [Registers -> 0..(BYTE - 1)] /\ crtc_index' \in Registers
      BY <2>1, ShownTyped, ScreenAssumption DEF TypeOK, Registers
    <2>. QED
      BY <1>1, <2>2, <2>3 DEF TypeOK, mapping
  <1>3. PageFollowsScreen' /\ BootInv'
    BY SameMapping DEF BootInv, mapping
  <1>4. CursorInv'
    BY KeyPoint DEF CursorInv, TypeOK
  <1>5. AddrInv'
    BY DEF AddrInv, mapping
  <1>. QED
    BY <1>1, <1>2, <1>3, <1>4, <1>5

LEMMA CharStep ==
  ASSUME KeysOutsidePutc, IInv, term_keyboardChar, UNCHANGED paging
  PROVE  IInv'
  <1>. DEFINE t == display_term
  <1>. DEFINE k == CellAt(cur_x[t], cur_y[t])
  <1>. DEFINE s == Stored(Screen(t), k, Text(t))
  <1>. DEFINE r == Settle(s, cur_x[t] + 1, cur_y[t])
  <1>1. keyboard_int /\ Becomes(t, r) /\ UNCHANGED mapping
    BY DEF term_keyboardChar
  <1>2. t \in Terms
    BY DEF IInv, TypeOK
  <1>3. OnScreen(cur_x[t], cur_y[t])
    BY <1>1, <1>2, KeyPoint
  <1>4. s \in [Cells -> Marks] /\ \A u \in Watched \ {t} : FreeOf(Screen(t), u) => FreeOf(s, u)
    <2>1. Screen(t) \in [Cells -> Marks] /\ k \in Int /\ Text(t) \in Marks
      <3>1. Screen(t) \in [Cells -> Marks]
        BY <1>2, ScreenTyped DEF IInv
      <3>2. k \in Int
        <4>1. cur_x[t] \in Int /\ cur_y[t] \in Int
          BY <1>3 DEF OnScreen
        <4>. QED
          BY <4>1, CellAtTyped
      <3>. QED
        BY <1>2, <3>1, <3>2, MarksTyped
    <2>2. \A u \in Watched \ {t} : Text(t) # Text(u)
      BY <1>2, MarksDiffer
    <2>. QED
      BY <2>1, <2>2, StoredFacts
  <1>. HIDE DEF s
  <1>5. cur_x[t] + 1 \in 0..NUM_COLS /\ cur_y[t] \in 0..NUM_ROWS /\ cur_y[t] # NUM_ROWS
    BY <1>3, ScreenAssumption DEF OnScreen
  <1>6. /\ r.screen \in [Cells -> Marks]
        /\ OnScreen(r.x, r.y)
        /\ \A u \in Watched : FreeOf(s, u) => FreeOf(r.screen, u)
    BY <1>4, <1>5, SettleFacts
  <1>. HIDE DEF r
  <1>7. frame' = [frame EXCEPT ![video_mem[t]] = r.screen] /\ reset_cursor(t, r.x, r.y)
    BY <1>1 DEF Becomes
  <1>. QED
    BY <1>1, <1>4, <1>6, <1>7, BecomesStep

LEMMA EnterStep ==
  ASSUME KeysOutsidePutc, IInv, term_keyboardEnter, UNCHANGED paging
  PROVE  IInv'
  <1>. DEFINE t == display_term
  <1>. DEFINE r == Settle(Screen(t), 0, cur_y[t] + 1)
  <1>1. keyboard_int /\ Becomes(t, r) /\ UNCHANGED mapping
    BY DEF term_keyboardEnter
  <1>2. t \in Terms
    BY DEF IInv, TypeOK
  <1>3. Screen(t) \in [Cells -> Marks]
    BY <1>2, ScreenTyped DEF IInv
  <1>4. 0 \in 0..NUM_COLS /\ cur_y[t] + 1 \in 0..NUM_ROWS
    BY <1>1, <1>2, KeyPoint, ScreenAssumption DEF OnScreen
  <1>5. /\ r.screen \in [Cells -> Marks]
        /\ OnScreen(r.x, r.y)
        /\ \A u \in Watched : FreeOf(Screen(t), u) => FreeOf(r.screen, u)
    BY <1>3, <1>4, SettleFacts
  <1>. HIDE DEF r
  <1>6. frame' = [frame EXCEPT ![video_mem[t]] = r.screen] /\ reset_cursor(t, r.x, r.y)
    BY <1>1 DEF Becomes
  <1>. QED
    BY <1>1, <1>5, <1>6, BecomesStep

\* Backspace writes to VIDEO, which is the displayed terminal's frame.
LEMMA BackspaceStep ==
  ASSUME KeysOutsidePutc, IInv, term_keyboardBackspace, UNCHANGED paging
  PROVE  IInv'
  <1>. DEFINE t == display_term
  <1>. DEFINE x == IF cur_x[t] >= 1 THEN cur_x[t] - 1 ELSE NUM_COLS - 1
  <1>. DEFINE y == IF cur_x[t] >= 1 THEN cur_y[t] ELSE cur_y[t] - 1
  <1>. DEFINE s == Stored(Screen(t), CellAt(x, y), Blank)
  <1>1. /\ keyboard_int
        /\ ~(cur_x[t] = 0 /\ cur_y[t] = 0)
        /\ frame' = [frame EXCEPT ![VIDEO] = Stored(@, CellAt(x, y), Blank)]
        /\ reset_cursor(t, x, y)
        /\ UNCHANGED mapping
    BY DEF term_keyboardBackspace
  <1>2. t \in Terms /\ video_mem[t] = VIDEO
    BY DEF IInv, TypeOK, PageFollowsScreen
  <1>3. OnScreen(cur_x[t], cur_y[t])
    BY <1>1, <1>2, KeyPoint
  <1>4. OnScreen(x, y)
    BY <1>1, <1>3, ScreenAssumption DEF OnScreen
  <1>5. s \in [Cells -> Marks] /\ \A u \in Watched \ {t} : FreeOf(Screen(t), u) => FreeOf(s, u)
    <2>1. Screen(t) \in [Cells -> Marks] /\ Blank \in Marks
      BY <1>2, ScreenTyped, MarksTyped DEF IInv
    <2>2. CellAt(x, y) \in Int
      <3>1. x \in Int /\ y \in Int
        BY <1>4, ScreenAssumption DEF OnScreen
      <3>. HIDE DEF x, y
      <3>. QED
        BY <3>1, CellAtTyped
    <2>3. \A u \in Watched \ {t} : Blank # Text(u)
      BY <1>2, MarksDiffer
    <2>. QED
      BY <2>1, <2>2, <2>3, StoredFacts
  <1>6. frame' = [frame EXCEPT ![video_mem[t]] = s]
    BY <1>1, <1>2 DEF Screen
  <1>. HIDE DEF s, x, y
  <1>. QED
    BY <1>1, <1>4, <1>5, <1>6, BecomesStep

LEMMA ClearStep ==
  ASSUME KeysOutsidePutc, IInv, term_clear, UNCHANGED paging
  PROVE  IInv'
  <1>. DEFINE s == [k \in Cells |-> Blank]
  <1>1. keyboard_int /\ UNCHANGED mapping
    BY DEF term_clear
  <1>2. frame' = [frame EXCEPT ![video_mem[display_term]] = s] /\ reset_cursor(display_term, 0, 0)
    BY DEF term_clear, Becomes
  <1>3. s \in [Cells -> Marks]
    BY DEF Marks
  <1>4. \A u \in Watched : FreeOf(s, u)
    BY ScreenAssumption, DrawnIsNoText DEF FreeOf
  <1>5. OnScreen(0, 0)
    BY ScreenAssumption DEF OnScreen
  <1>. HIDE DEF s
  <1>. QED
    BY <1>1, <1>2, <1>3, <1>4, <1>5, BecomesStep

\* The switch saves VIDEO in the frame of the terminal that goes and loads it from
\* the frame of the one that comes.
LEMMA SwitchFacts ==
  ASSUME TypeOK, PageFollowsScreen, NEW t \in Terms, show_terminal(t)
  PROVE  /\ display_term' = t
         /\ video_mem' = [v \in Terms |-> IF v = t THEN VIDEO ELSE v]
         /\ paging => page' = video_mem'
         /\ frame' \in [Frames -> [Cells -> Marks]]
         /\ \A v \in Terms : frame'[video_mem'[v]] = frame[video_mem[v]]
  <1>. DEFINE old == display_term
  <1>1. /\ t # old /\ display_term' = t
        /\ page' = page_map_4kb(page_map_4kb(page, t, VIDEO), old, old)
        /\ frame' = [frame EXCEPT ![old] = frame[VIDEO], ![VIDEO] = frame[video_mem[t]]]
        /\ video_mem' = [video_mem EXCEPT ![old] = old, ![t] = VIDEO]
    BY DEF show_terminal, Screen
  <1>2. old \in Terms /\ old # VIDEO /\ t # VIDEO /\ old \in Frames /\ t \in Frames /\ VIDEO \in Frames
    BY ScreenAssumption DEF TypeOK, Frames
  <1>3. \A v \in Terms : video_mem[v] = IF v = old THEN VIDEO ELSE v
    BY DEF PageFollowsScreen
  <1>4. video_mem' = [v \in Terms |-> IF v = t THEN VIDEO ELSE v]
    BY <1>1, <1>2, <1>3 DEF TypeOK
  <1>5. paging => page' = video_mem'
    <2>1. ASSUME paging
          PROVE  page' = [v \in Terms |-> IF v = t THEN VIDEO ELSE v]
      <3>1. \A v \in Terms : page[v] = IF v = old THEN VIDEO ELSE v
        BY <2>1, <1>3 DEF PageFollowsScreen
      <3>. QED
        BY <1>1, <1>2, <3>1 DEF TypeOK, page_map_4kb
    <2>. QED
      BY <2>1, <1>4
  <1>6. frame[VIDEO] \in [Cells -> Marks] /\ frame[video_mem[t]] \in [Cells -> Marks]
    BY <1>2 DEF TypeOK
  <1>7. frame' \in [Frames -> [Cells -> Marks]]
    BY <1>1, <1>2, <1>6 DEF TypeOK
  <1>8. \A v \in Terms : frame'[video_mem'[v]] = frame[video_mem[v]]
    <2>1. frame'[VIDEO] = frame[video_mem[t]]
      BY <1>1, <1>2 DEF TypeOK
    <2>2. frame'[old] = frame[VIDEO]
      BY <1>1, <1>2 DEF TypeOK
    <2>3. \A v \in Terms \ {old, VIDEO} : frame'[v] = frame[v]
      BY <1>1, <1>2 DEF TypeOK, Frames
    <2>4. ASSUME NEW v \in Terms
          PROVE  frame'[video_mem'[v]] = frame[video_mem[v]]
      <3>1. CASE v = t
        BY <3>1, <2>1, <1>4
      <3>2. CASE v = old
        BY <3>2, <2>2, <1>1, <1>3, <1>4
      <3>3. CASE v # t /\ v # old
        <4>1. v # VIDEO /\ video_mem'[v] = v /\ video_mem[v] = v
          BY <3>3, <1>3, <1>4, ScreenAssumption
        <4>. QED
          BY <3>3, <4>1, <2>3
      <3>. QED
        BY <3>1, <3>2, <3>3
    <2>. QED
      BY <2>4
  <1>. QED
    BY <1>1, <1>4, <1>5, <1>7, <1>8

LEMMA SwitchStep ==
  ASSUME KeysOutsidePutc, IInv, paging, NEW t \in Terms, show_terminal(t), UNCHANGED paging
  PROVE  IInv'
  <1>. USE DEF IInv
  <1>1. /\ keyboard_int
        /\ hw_cursor' = Shown(cur_x[t], cur_y[t]) /\ crtc_index' = "high"
        /\ UNCHANGED <<cur_x, cur_y>>
    BY DEF show_terminal
  <1>2. UNCHANGED <<tlb, running, pc, addr, arg>>
    BY <1>1 DEF keyboard_int
  <1>3. /\ display_term' = t
        /\ video_mem' = [v \in Terms |-> IF v = t THEN VIDEO ELSE v]
        /\ page' = video_mem'
        /\ frame' \in [Frames -> [Cells -> Marks]]
        /\ \A v \in Terms : frame'[video_mem'[v]] = frame[video_mem[v]]
    BY SwitchFacts
  <1>4. TypeOK'
    <2>1. video_mem' \in [Terms -> Frames]
      BY <1>3 DEF Frames
    <2>2. hw_cursor' \in [Registers -> 0..(BYTE - 1)] /\ crtc_index' \in Registers
      <3>1. cur_x[t] \in Int /\ cur_y[t] \in Int
        BY ScreenAssumption DEF TypeOK
      <3>. QED
        BY <1>1, <3>1, ShownTyped DEF Registers
    <2>. QED
      BY <1>1, <1>2, <1>3, <2>1, <2>2 DEF TypeOK
  <1>5. PageFollowsScreen' /\ BootInv'
    BY <1>3 DEF PageFollowsScreen, BootInv
  <1>6. CursorInv'
    BY <1>1, <1>2 DEF CursorInv
  <1>7. AddrInv'
    BY <1>1, <1>2, KeyPoint DEF AddrInv
  <1>9. TextStaysHome'
    BY <1>3 DEF TextStaysHome, Screen
  <1>. QED
    BY <1>4, <1>5, <1>6, <1>7, <1>9

LEMMA NextStep ==
  ASSUME KeysOutsidePutc, IInv, [Next]_vars
  PROVE  IInv'
  <1>1. CASE init_pages
    BY <1>1, InitPagesStep
  <1>2. CASE Key /\ UNCHANGED paging
    <2>1. ASSUME paging \/ BootSwitch, NEW t \in Terms, show_terminal(t)
          PROVE  IInv'
      BY <1>2, <2>1, SwitchStep DEF KeysOutsidePutc
    <2>. QED
      BY <1>2, <2>1, CharStep, EnterStep, BackspaceStep, ClearStep DEF Key
  <1>3. CASE paging /\ UNCHANGED paging /\ \E t \in Terms : Output(t) \/ pit_int(t)
    <2>1. PICK t \in Terms : Output(t) \/ pit_int(t)
      BY <1>3
    <2>. QED
      BY <1>3, <2>1, PutcStep, StoreStep, NewlineStep, WrapStep, ResetStep, DrawStep, TickStep DEF Output
  <1>4. CASE UNCHANGED vars
    <2>1. TypeOK' /\ BootInv'
      BY <1>4 DEF IInv, TypeOK, BootInv, vars, monitor
    <2>2. PageFollowsScreen' /\ TextStaysHome'
      BY <1>4 DEF IInv, PageFollowsScreen, TextStaysHome, Screen, vars
    <2>3. CursorInv' /\ AddrInv'
      BY <1>4 DEF IInv, CursorInv, AddrInv, vars
    <2>. QED
      BY <2>1, <2>2, <2>3 DEF IInv
  <1>. QED
    BY <1>1, <1>2, <1>3, <1>4 DEF Next

-----------------------------------------------------------------------------
(* Theorems *)

\* Everything the properties below rest on holds in every reachable state.
THEOREM Invariance ==
  ASSUME KeysOutsidePutc
  PROVE  Spec => []IInv
  <1>1. Init => IInv
    BY InitIInv
  <1>2. IInv /\ [Next]_vars => IInv'
    BY NextStep
  <1>. QED
    BY <1>1, <1>2, PTL DEF Spec

\* Every variable keeps its type; a cursor is at most one step past an edge.
THEOREM TypeCorrect ==
  ASSUME KeysOutsidePutc
  PROVE  Spec => []TypeOK
  <1>1. IInv => TypeOK
    BY DEF IInv
  <1>. QED
    BY <1>1, Invariance, PTL

\* No terminal shows text of another one (terminal.c:103-110, 317).
THEOREM TextAtHome ==
  ASSUME KeysOutsidePutc
  PROVE  Spec => []TextStaysHome
  <1>1. IInv => TextStaysHome
    BY DEF IInv
  <1>. QED
    BY <1>1, Invariance, PTL

\* Page table and kernel agree on every terminal's frame (terminal.c:98-110).
THEOREM PagesFollow ==
  ASSUME KeysOutsidePutc
  PROVE  Spec => []PageFollowsScreen
  <1>1. IInv => PageFollowsScreen
    BY DEF IInv
  <1>. QED
    BY <1>1, Invariance, PTL

\* The next character goes to a cell of the screen (terminal.c:315-329).
THEOREM CursorsOnScreen ==
  ASSUME KeysOutsidePutc
  PROVE  Spec => []CursorOnScreen
  <1>1. IInv => CursorOnScreen
    BY DEF IInv, CursorInv, OnScreen, CursorOnScreen, KeysOutsidePutc
  <1>. QED
    BY <1>1, Invariance, PTL

\* Switching terminals changes what no terminal shows (terminal.c:103-108).
THEOREM SwitchKeeps ==
  ASSUME KeysOutsidePutc
  PROVE  Spec => SwitchKeepsScreens
  <1>1. ASSUME IInv, [Next]_vars, display_term' # display_term
        PROVE  \A t \in Terms : Screen(t)' = Screen(t)
    <2>1. PICK t \in Terms : show_terminal(t)
      <3>1. ~init_pages
        BY <1>1 DEF init_pages
      <3>2. ASSUME NEW t \in Terms, Output(t) \/ pit_int(t)
            PROVE  FALSE
        BY <1>1, <3>2 DEF Output, term_putc, putc_store, putc_newline, putc_wrap, putc_reset, draw,
                          putc_row, putc_hidden, putc_displayed, outb_index, outb_low, outb_high,
                          pit_int, mapping
      <3>3. ~(term_keyboardChar \/ term_keyboardEnter \/ term_keyboardBackspace \/ term_clear)
        BY <1>1 DEF term_keyboardChar, term_keyboardEnter, term_keyboardBackspace, term_clear, mapping
      <3>. QED
        BY <1>1, <3>1, <3>2, <3>3 DEF Next, Key, vars
    <2>. QED
      BY <1>1, <2>1, SwitchFacts DEF IInv, Screen
  <1>2. IInv /\ [Next]_vars =>
          [display_term' # display_term => \A t \in Terms : Screen(t)' = Screen(t)]_vars
    BY <1>1
  <1>. QED
    BY <1>2, Invariance, PTL DEF Spec, SwitchKeepsScreens

-----------------------------------------------------------------------------
(* The cursor registers *)

\* Only the displayed terminal's process is at the outb, with the position that
\* its cursor has; the register it is about to write is the selected one, and the
\* low byte is in place when the high one is written.
ShownInv ==
  /\ \A t \in Terms :
       /\ pc[t] \in Outb => t = display_term
       /\ pc[t] \in {"row", "test"} \cup Outb => cur_x[t] = arg[t][1]
       /\ pc[t] \in {"test"} \cup Outb => cur_y[t] = arg[t][2]
       /\ pc[t] = "low" => crtc_index = "low"
       /\ pc[t] = "high" => crtc_index = "high"
       /\ pc[t] \in {"index_high", "high"} => hw_cursor["low"] = LowByte(CellAt(cur_x[t], cur_y[t]))
  /\ pc[display_term] = "idle" => hw_cursor = Shown(cur_x[display_term], cur_y[display_term])

\* The two bytes are the whole position.
LEMMA ShownBytes ==
  ASSUME NEW x, NEW y, NEW h \in [Registers -> 0..(BYTE - 1)],
         h["low"] = LowByte(CellAt(x, y)), h["high"] = HighByte(CellAt(x, y))
  PROVE  h = Shown(x, y)
  BY DEF Shown, Registers

\* A statement of term_putc before its reset_cursor.
LEMMA PutcKeepsShown ==
  ASSUME TypeOK, ShownInv, NEW t \in Terms,
         term_putc(t) \/ putc_store(t) \/ putc_newline(t) \/ putc_wrap(t)
  PROVE  ShownInv'
  <1>1. PICK p \in {"store", "wrap", "reset"} : pc' = [pc EXCEPT ![t] = p]
    BY DEF term_putc, putc_store, putc_newline, putc_wrap, Goto
  <1>2. UNCHANGED <<display_term, hw_cursor, crtc_index>>
    BY DEF term_putc, putc_store, putc_newline, putc_wrap, monitor, mapping
  <1>3. \A u \in Terms \ {t} : cur_x'[u] = cur_x[u] /\ cur_y'[u] = cur_y[u] /\ arg'[u] = arg[u]
    BY DEF term_putc, putc_store, putc_newline, putc_wrap, TypeOK
  <1>4. pc'[t] = p /\ \A u \in Terms \ {t} : pc'[u] = pc[u]
    BY <1>1 DEF TypeOK
  <1>5. pc'[t] \notin {"idle", "row", "test"} \cup Outb
    BY <1>4 DEF Outb
  <1>. QED
    BY <1>2, <1>3, <1>4, <1>5 DEF ShownInv, TypeOK, Outb

\* The statements of reset_cursor.
LEMMA ResetKeepsShown ==
  ASSUME TypeOK, ShownInv, NEW t \in Terms,
         \/ putc_reset(t) \/ putc_row(t) \/ putc_hidden(t) \/ putc_displayed(t)
         \/ outb_index(t, "index_low", "low") \/ outb_low(t)
         \/ outb_index(t, "index_high", "high") \/ outb_high(t)
  PROVE  ShownInv'
  <1>. USE DEF TypeOK, ShownInv, At, Goto, Outb, mapping, monitor
  <1>1. CASE putc_reset(t)
    BY <1>1 DEF putc_reset
  <1>2. CASE putc_row(t)
    BY <1>2 DEF putc_row
  <1>3. CASE putc_hidden(t)
    BY <1>3 DEF putc_hidden
  <1>4. CASE putc_displayed(t)
    BY <1>4 DEF putc_displayed
  <1>5. CASE outb_index(t, "index_low", "low")
    BY <1>5 DEF outb_index
  <1>6. CASE outb_low(t)
    <2>1. crtc_index = "low" /\ t = display_term /\ cur_x[t] = arg[t][1] /\ cur_y[t] = arg[t][2]
      BY <1>6 DEF outb_low
    <2>2. hw_cursor'["low"] = LowByte(CellAt(cur_x[t], cur_y[t]))
      BY <1>6, <2>1 DEF outb_low, Registers
    <2>. QED
      BY <1>6, <2>1, <2>2 DEF outb_low
  <1>7. CASE outb_index(t, "index_high", "high")
    BY <1>7 DEF outb_index
  <1>8. CASE outb_high(t)
    <2>1. /\ crtc_index = "high" /\ t = display_term
          /\ cur_x[t] = arg[t][1] /\ cur_y[t] = arg[t][2]
          /\ hw_cursor["low"] = LowByte(CellAt(cur_x[t], cur_y[t]))
      BY <1>8 DEF outb_high
    <2>2. hw_cursor' \in [Registers -> 0..(BYTE - 1)]
      BY <1>8, OutbTyped DEF outb_high
    <2>3. /\ hw_cursor'["low"] = LowByte(CellAt(cur_x[t], cur_y[t]))
          /\ hw_cursor'["high"] = HighByte(CellAt(cur_x[t], cur_y[t]))
      BY <1>8, <2>1 DEF outb_high, Registers
    <2>4. hw_cursor' = Shown(cur_x[t], cur_y[t])
      BY <2>2, <2>3, ShownBytes
    <2>. QED
      BY <1>8, <2>1, <2>4 DEF outb_high
  <1>. QED
    BY <1>1, <1>2, <1>3, <1>4, <1>5, <1>6, <1>7, <1>8

\* A key finds nobody inside reset_cursor.
LEMMA KeyKeepsShown ==
  ASSUME TypeOK, KeysOutsideReset, ShownInv, keyboard_int,
         \/ /\ \E x, y : reset_cursor(display_term, x, y)
            /\ display_term' = display_term
         \/ \E t \in Terms : show_terminal(t)
  PROVE  ShownInv'
  <1>. USE DEF TypeOK, ShownInv, Outb
  <1>1. UNCHANGED <<pc, arg>> /\ \A t \in Terms : pc'[t] \in {"idle", "reset"}
    BY DEF keyboard_int, KeysOutsideReset
  <1>2. hw_cursor' = Shown(cur_x'[display_term'], cur_y'[display_term'])
    <2>1. ASSUME NEW x, NEW y, reset_cursor(display_term, x, y), display_term' = display_term
          PROVE  hw_cursor' = Shown(cur_x'[display_term'], cur_y'[display_term'])
      BY <2>1 DEF reset_cursor
    <2>2. ASSUME NEW t \in Terms, show_terminal(t)
          PROVE  hw_cursor' = Shown(cur_x'[display_term'], cur_y'[display_term'])
      BY <2>2 DEF show_terminal
    <2>. QED
      BY <2>1, <2>2
  <1>. QED
    BY <1>1, <1>2

LEMMA ShownStep ==
  ASSUME KeysOutsideReset, TypeOK, ShownInv, [Next]_vars
  PROVE  ShownInv'
  <1>1. CASE init_pages
    BY <1>1 DEF init_pages, ShownInv, monitor
  <1>2. CASE Key
    <2>1. CASE term_keyboardChar
      BY <2>1, KeyKeepsShown DEF term_keyboardChar, Becomes, mapping
    <2>2. CASE term_keyboardEnter
      BY <2>2, KeyKeepsShown DEF term_keyboardEnter, Becomes, mapping
    <2>3. CASE term_keyboardBackspace
      BY <2>3, KeyKeepsShown DEF term_keyboardBackspace, mapping
    <2>4. CASE term_clear
      BY <2>4, KeyKeepsShown DEF term_clear, Becomes, mapping
    <2>5. ASSUME NEW t \in Terms, show_terminal(t)
          PROVE  ShownInv'
      <3>1. keyboard_int
        BY <2>5 DEF show_terminal
      <3>. QED
        BY <2>5, <3>1, KeyKeepsShown
    <2>. QED
      BY <1>2, <2>1, <2>2, <2>3, <2>4, <2>5 DEF Key
  <1>3. ASSUME NEW t \in Terms, Output(t)
        PROVE  ShownInv'
    <2>1. CASE draw(t)
      BY <2>1 DEF draw, ShownInv, mapping, monitor
    <2>. QED
      BY <1>3, <2>1, PutcKeepsShown, ResetKeepsShown DEF Output
  <1>4. ASSUME NEW t \in Terms, pit_int(t)
        PROVE  ShownInv'
    BY <1>4 DEF pit_int, ShownInv, mapping, monitor
  <1>5. CASE UNCHANGED vars
    BY <1>5 DEF vars, ShownInv, monitor
  <1>. QED
    BY <1>1, <1>2, <1>3, <1>4, <1>5 DEF Next

\* The cursor on the monitor is the displayed terminal's, if no key comes between
\* the stores of reset_cursor and its last outb (terminal.c:31-40, 114, 332).
THEOREM CursorShown ==
  ASSUME KeysOutsideReset
  PROVE  Spec => []CursorIsShown
  <1>1. KeysOutsidePutc
    BY DEF KeysOutsideReset, KeysOutsidePutc
  <1>2. Init => ShownInv
    <2>. SUFFICES ASSUME Init
                  PROVE  ShownInv
      OBVIOUS
    <2>. QED
      BY ScreenAssumption DEF Init, ShownInv, Outb
  <1>3. TypeOK /\ ShownInv /\ [Next]_vars => ShownInv'
    BY ShownStep
  <1>4. ShownInv => CursorIsShown
    BY DEF ShownInv, CursorIsShown
  <1>5. Spec => []TypeOK
    BY <1>1, TypeCorrect
  <1>. QED
    BY <1>2, <1>3, <1>4, <1>5, PTL DEF Spec
=============================================================================
