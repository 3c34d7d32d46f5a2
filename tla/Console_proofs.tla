----------------------------- MODULE Console_proofs -----------------------------
(***************************************************************************)
(* A terminal serves its user as Console says for every size of the screen *)
(* on which a prompt and a full line fit, any terminals, keys, programs    *)
(* and tab stops.                                                          *)
(*                                                                         *)
(* The types hold without a condition.  That the line is shown holds where *)
(* no key comes in between a prompt and the end of term_showbuf (Orderly), *)
(* and that keys have their meaning for a Caps Lock key that does not      *)
(* repeat and for keys other than backslash (PlainKeys).  TLC refutes the  *)
(* properties without these conditions.                                    *)
(***************************************************************************)
EXTENDS Console, Recursion_proofs, TLAPS

\* No key comes in between a prompt and the end of term_showbuf, and a read that
\* finds a line is that of the displayed terminal.
Orderly == KeyPoints \subseteq {"busy", "wait", "woken"} /\ BackgroundShow = FALSE

\* Caps Lock sends one make code, and the key whose last row differs is not used.
PlainKeys ==
  /\ "CAPS_LOCK" \notin Typematic
  /\ \A t \in Terms : BACKSLASH \notin Keys[t]

-----------------------------------------------------------------------------
(* The inductive invariants *)

Buffered == Printable \cup {NEWLINE}

\* A screen with its cursor on it.
Screens == [cell : [Cells -> Chars], cur : Cells]

KeyTypes ==
  /\ caps \in BOOLEAN /\ ctrl \in BOOLEAN /\ alt \in BOOLEAN
  /\ shiftL \in BOOLEAN /\ shiftR \in BOOLEAN /\ locked \in BOOLEAN
  /\ key_stat \in 0..3
  /\ held \in Chords

Types ==
  /\ KeyTypes
  /\ display_term \in Terms
  /\ kb_buf \in [Terms -> Seq(Buffered)]
  /\ screen \in [Terms -> Screens]
  /\ readWaiting \in [Terms -> BOOLEAN]
  /\ prompt \in [Terms -> BOOLEAN]
  /\ pc \in [Terms -> Points]
  /\ source \in [Terms -> Terms]
  /\ idx \in [Terms -> Nat]

\* The flag of a read is up in the read only, and the place for the newline is free
\* until Enter has been pressed for it.
BoundInv ==
  \A t \in Terms :
    /\ pc[t] \in {"busy", "prompted"} => ~readWaiting[t]
    /\ Len(kb_buf[t]) <= KB_BUF_SIZE
    /\ readWaiting[t] \/ pc[t] \in {"busy", "prompted"} => Len(kb_buf[t]) < KB_BUF_SIZE

\* What the driver believes of the Shift keys and of the row of kb_map.
ShiftInv ==
  /\ shiftL <=> "SHIFT_L" \in held
  /\ shiftR <=> "SHIFT_R" \in held
  /\ key_stat = (IF shiftR \/ shiftL THEN STATUS_SHIFT ELSE 0) + (IF caps THEN STATUS_CAPSLOCK ELSE 0)

IInv == Types /\ BoundInv /\ ShiftInv

CapsInv == caps <=> locked

\* The line of terminal t, which is at point p, as far as it must be on the screen.
Due(p, buf, i) ==
  CASE p = "prompted" -> <<>>
    [] p = "show" -> SubSeq(buf, 1, i)
    [] OTHER -> buf

\* The prompt that stands before the line.
Pre(prm) == IF prm THEN <<PROMPT>> ELSE <<>>

Fine(t, p, waiting, buf, scr, prm, src, i) ==
  /\ src = t
  /\ p = "show" => waiting /\ i <= Len(buf)
  /\ p # "show" => i = 0
  /\ p \in {"prompted", "show"} => prm
  /\ p # "wait" \/ waiting => buf \in Seq(Printable)
  /\ p \in {"prompted", "show"} \/ (p = "wait" /\ waiting) =>
       EndsIn(scr, Pre(prm) \o Due(p, buf, i))

ShownInv ==
  \A t \in Terms :
    Fine(t, pc[t], readWaiting[t], kb_buf[t], screen[t], prompt[t], source[t], idx[t])

-----------------------------------------------------------------------------
(* The screen *)

\* The number of cells, the first one of the last row, and the end of a row.
LEMMA Geometry ==
  /\ NUM_COLS \in Nat \ {0}
  /\ (NUM_ROWS - 1) * NUM_COLS \in Nat
  /\ NUM_ROWS * NUM_COLS = (NUM_ROWS - 1) * NUM_COLS + NUM_COLS
  /\ \A k \in Nat : (k \div NUM_COLS + 1) * NUM_COLS \in Nat
<1>1. PICK r \in Nat, c \in Nat \ {0} : r = NUM_ROWS - 1 /\ c = NUM_COLS /\ NUM_ROWS = r + 1
  BY ConsoleAssumption
<1>2. r * c \in Nat /\ (r + 1) * c = r * c + c
  BY <1>1
<1>3. ASSUME NEW k \in Nat
      PROVE  (k \div c + 1) * c \in Nat
  <2>1. PICK q \in Nat : q = k \div c
    BY DivFacts
  <2>2. (q + 1) * c \in Nat
    OBVIOUS
  <2> QED
    BY <2>1, <2>2
<1> QED
  BY <1>1, <1>2, <1>3

\* What every cell may hold.
Contents == [Cells -> Chars]

LEMMA BlankIsChar == Blank \in Printable /\ Blank \in Chars
BY DEF Blank, Printable, Printing, Chars

\* A screen whose cursor has left it is scrolled.
LEMMA SettledScreen ==
  ASSUME NEW s, NEW cell \in Contents, NEW cur \in Nat, s = [cell |-> cell, cur |-> cur]
  PROVE  Settled(s) \in Screens
<1>1. CASE cur \in Cells
  BY <1>1 DEF Settled, Screens, Contents
<1>2. CASE cur \notin Cells
  <2>1. (NUM_ROWS - 1) * NUM_COLS \in Cells
    <3>1. PICK l \in Nat, c \in Nat \ {0} : l = (NUM_ROWS - 1) * NUM_COLS /\ NUM_ROWS * NUM_COLS = l + c
      BY Geometry
    <3> QED
      BY <3>1 DEF Cells
  <2>2. [k \in Cells |-> IF k + NUM_COLS \in Cells THEN cell[k + NUM_COLS] ELSE Blank] \in Contents
    BY BlankIsChar DEF Contents
  <2>3. Settled(s) = [cell |-> [k \in Cells |-> IF k + NUM_COLS \in Cells THEN cell[k + NUM_COLS] ELSE Blank],
                      cur |-> (NUM_ROWS - 1) * NUM_COLS]
    BY <1>2 DEF Settled, Scrolled
  <2> QED
    BY <2>1, <2>2, <2>3 DEF Screens, Contents
<1> QED
  BY <1>1, <1>2

\* What may be printed.
Output == Buffered \cup {PROMPT}

\* term_putc leaves the cursor on the screen.
LEMMA PutScreen ==
  ASSUME NEW s \in Screens, NEW c \in Output
  PROVE  Put(s, c) \in Screens
<1>1. s = [cell |-> s.cell, cur |-> s.cur] /\ s.cell \in Contents /\ s.cur \in Cells /\ s.cur \in Nat
  BY DEF Screens, Contents, Cells
<1>2. CASE c = NEWLINE
  <2>1. PICK e \in Nat : e = (s.cur \div NUM_COLS + 1) * NUM_COLS
    BY <1>1, Geometry
  <2>2. [s EXCEPT !.cur = (@ \div NUM_COLS + 1) * NUM_COLS] = [cell |-> s.cell, cur |-> e]
    BY <2>1 DEF Screens
  <2>3. Settled([cell |-> s.cell, cur |-> e]) \in Screens
    BY <1>1, SettledScreen
  <2> QED
    BY <1>2, <2>2, <2>3 DEF Put
<1>3. CASE c # NEWLINE
  <2>1. c \in Chars
    BY <1>3 DEF Output, Buffered, Chars
  <2>2. [s.cell EXCEPT ![s.cur] = c] \in Contents /\ s.cur + 1 \in Nat
    BY <1>1, <2>1 DEF Contents
  <2>3. Settled([cell |-> [s.cell EXCEPT ![s.cur] = c], cur |-> s.cur + 1]) \in Screens
    BY <2>2, SettledScreen
  <2> QED
    BY <1>3, <2>3 DEF Put
<1> QED
  BY <1>2, <1>3

\* g[n] is what s becomes when the first n characters of b are printed.
Puts(g, s, b) ==
  /\ g[0] = s /\ \A n \in 1..Len(b) : g[n] = Put(g[n - 1], b[n])
  /\ PutAll(s, b) = g[Len(b)]

\* PutAll prints one character after the other.
LEMMA PutAllSteps ==
  ASSUME NEW s \in Screens, NEW b \in Seq(Output)
  PROVE  \E g \in [0..Len(b) -> Screens] : Puts(g, s, b)
<1>0. PICK N \in Nat : N = Len(b)
  OBVIOUS
<1> DEFINE G(f, n) == IF n = 0 THEN s ELSE Put(f[n - 1], b[n])
           put == CHOOSE f : f = [n \in 0..N |-> G(f, n)]
           step == [x \in Nat \X Screens |-> IF x[1] + 1 \in 1..N THEN Put(x[2], b[x[1] + 1]) ELSE x[2]]
<1>1. PutAll(s, b) = put[N]
  BY <1>0 DEF PutAll
<1>2. IsStep(step, Screens)
  <2>1. ASSUME NEW x \in Nat \X Screens, x[1] + 1 \in 1..N
        PROVE  Put(x[2], b[x[1] + 1]) \in Screens
    <3>1. x[2] \in Screens /\ b[x[1] + 1] \in Output
      BY <1>0, <2>1
    <3> QED
      BY <3>1, PutScreen
  <2> QED
    BY <2>1 DEF IsStep
<1>3. \A m \in Nat, t \in Screens : m + 1 \in 1..N => step[<<m, t>>] = Put(t, b[m + 1])
  OBVIOUS
<1> HIDE DEF step
<1>4. PICK h \in [Nat -> Screens] : Repeats(h, s, step)
  BY <1>2, Recursion
<1>5. h[0] = s /\ \A n \in 1..N : h[n] = Put(h[n - 1], b[n])
  <2>1. ASSUME NEW n \in 1..N
        PROVE  h[n] = Put(h[n - 1], b[n])
    <3>1. n - 1 \in Nat /\ (n - 1) + 1 = n
      OBVIOUS
    <3>2. h[(n - 1) + 1] = step[<<n - 1, h[n - 1]>>] /\ h[n - 1] \in Screens
      BY <1>4, <3>1 DEF Repeats
    <3> QED
      BY <1>3, <3>1, <3>2
  <2> QED
    BY <1>4, <2>1 DEF Repeats
<1> DEFINE g == [n \in 0..N |-> h[n]]
<1>6. g \in [0..N -> Screens] /\ g = [n \in 0..N |-> g[n]]
  BY <1>4
<1>7. g[0] = s /\ \A n \in 1..N : g[n] = Put(g[n - 1], b[n])
  <2>1. \A n \in 1..N : n \in 0..N /\ n - 1 \in 0..N
    OBVIOUS
  <2> QED
    BY <1>5, <2>1
<1> HIDE DEF g
<1>8. g = [n \in 0..N |-> G(g, n)]
  <2>1. \A n \in 0..N : n = 0 \/ (n \in 1..N /\ n # 0)
    OBVIOUS
  <2>2. \A n \in 0..N : g[n] = G(g, n)
    BY <1>7, <2>1
  <2> QED
    BY <1>6, <2>2
<1>9. put = [n \in 0..N |-> G(put, n)]
  <2> DEFINE P(f) == f = [n \in 0..N |-> G(f, n)]
  <2>1. P(g)
    BY <1>8
  <2>2. put = CHOOSE f : P(f)
    OBVIOUS
  <2> HIDE DEF P
  <2>3. P(put)
    BY <2>1, <2>2, Zenon
  <2> HIDE DEF put
  <2> QED
    BY <2>3 DEF P
<1> HIDE DEF put
<1>10. put[0] = s /\ \A n \in 1..N : put[n] = Put(put[n - 1], b[n])
  <2>1. \A n \in 0..N : put[n] = G(put, n)
    BY <1>9, Zenon
  <2>2. 0 \in 0..N /\ \A n \in 1..N : n \in 0..N /\ n # 0
    OBVIOUS
  <2> QED
    BY <2>1, <2>2
<1> DEFINE T == {n \in Nat : n <= N => put[n] = g[n]}
<1>11. \A n \in Nat : n \in T
  <2>1. 0 \in T
    BY <1>7, <1>10
  <2>2. ASSUME NEW n \in Nat, n \in T
        PROVE  n + 1 \in T
    <3> SUFFICES ASSUME n + 1 <= N
                 PROVE  put[n + 1] = g[n + 1]
      OBVIOUS
    <3>1. n + 1 \in 1..N /\ (n + 1) - 1 = n /\ put[n] = g[n]
      BY <2>2
    <3> QED
      BY <1>7, <1>10, <3>1
  <2> HIDE DEF T
  <2> QED
    BY <2>1, <2>2, NatInduct
<1>12. PutAll(s, b) = g[N]
  BY <1>1, <1>11
<1> QED
  BY <1>0, <1>6, <1>7, <1>12 DEF Puts

LEMMA PutAllScreen ==
  ASSUME NEW s \in Screens, NEW b \in Seq(Output)
  PROVE  PutAll(s, b) \in Screens
<1>1. PICK g \in [0..Len(b) -> Screens] : Puts(g, s, b)
  BY PutAllSteps
<1>2. Len(b) \in 0..Len(b)
  OBVIOUS
<1> QED
  BY <1>1, <1>2 DEF Puts
-----------------------------------------------------------------------------
(* What stands before the cursor *)

\* The prompt and the characters of keys are no newlines.
LEMMA NoNewline == \A c \in Chars : c # NEWLINE
<1>1. ASSUME NEW c \in Printable
      PROVE  c # NEWLINE
  <2>1. Len(c) = 2 /\ Len(NEWLINE) = 1
    BY DEF Printable, NEWLINE
  <2> QED
    BY <2>1
<1>2. PROMPT # NEWLINE
  <2>1. PROMPT[1] = "prompt" /\ NEWLINE[1] = "newline" /\ "prompt" # "newline"
    BY DEF PROMPT, NEWLINE
  <2> QED
    BY <2>1
<1> QED
  BY <1>1, <1>2 DEF Chars

\* The first cell of the last row.
LastRow == (NUM_ROWS - 1) * NUM_COLS

\* A character extends the text before the cursor, on a screen that is scrolled too.
LEMMA PutEnds ==
  ASSUME NEW scr \in Screens, NEW str \in Seq(Chars), EndsIn(scr, str),
         NEW c \in Chars, Len(str) < LastRow
  PROVE  EndsIn(Put(scr, c), Append(str, c))
<1>1. PICK l \in Nat, m \in Nat \ {0}, n \in Nat :
        l = LastRow /\ m = NUM_COLS /\ n = Len(str) /\ Cells = 0..(l + m - 1)
  <2>1. PICK l \in Nat, m \in Nat \ {0} : l = LastRow /\ m = NUM_COLS /\ NUM_ROWS * NUM_COLS = l + m
    BY Geometry DEF LastRow
  <2>2. Cells = 0..(l + m - 1) /\ Len(str) \in Nat
    BY <2>1 DEF Cells
  <2> QED
    BY <2>1, <2>2
<1>2. PICK cell \in [0..(l + m - 1) -> Chars], cur \in 0..(l + m - 1) :
        cell = scr.cell /\ cur = scr.cur
  BY <1>1 DEF Screens
<1>3. n <= cur /\ n < l /\ \A i \in 1..n : cell[cur - n + i - 1] = str[i]
  BY <1>1, <1>2 DEF EndsIn
<1> DEFINE app == Append(str, c)
           new == [cell EXCEPT ![cur] = c]
<1>4. Len(app) = n + 1 /\ DOMAIN app = 1..(n + 1) /\ app[n + 1] = c /\ \A i \in 1..n : app[i] = str[i]
  BY <1>1
<1>5. new[cur] = c /\ \A k \in 0..(l + m - 1) : k # cur => new[k] = cell[k]
  OBVIOUS
<1>6. Put(scr, c) = Settled([cell |-> new, cur |-> cur + 1])
  BY <1>2, NoNewline DEF Put
<1> HIDE DEF app, new
<1>7. \A i \in 1..(n + 1) : new[cur - n + i - 1] = app[i]
  <2> TAKE i \in 1..(n + 1)
  <2>1. CASE i = n + 1
    <3>1. cur - n + i - 1 = cur
      BY <2>1
    <3> QED
      BY <1>4, <1>5, <2>1, <3>1
  <2>2. CASE i \in 1..n
    <3>1. PICK k \in 0..(l + m - 1) : k = cur - n + i - 1 /\ k # cur
      BY <1>3, <2>2
    <3> QED
      BY <1>3, <1>4, <1>5, <2>2, <3>1
  <2> QED
    BY <2>1, <2>2
<1>8. CASE cur + 1 \in 0..(l + m - 1)
  <2>1. Put(scr, c) = [cell |-> new, cur |-> cur + 1]
    BY <1>1, <1>6, <1>8 DEF Settled
  <2>2. \A i \in 1..(n + 1) : (cur + 1) - (n + 1) + i - 1 = cur - n + i - 1
    OBVIOUS
  <2> QED
    BY <1>3, <1>4, <1>7, <2>1, <2>2 DEF EndsIn, app
<1>9. CASE cur + 1 \notin 0..(l + m - 1)
  <2>1. cur = l + m - 1
    BY <1>9
  <2> DEFINE up == [k \in 0..(l + m - 1) |-> IF k + m \in 0..(l + m - 1) THEN new[k + m] ELSE Blank]
  <2>2. Put(scr, c) = [cell |-> up, cur |-> l]
    BY <1>1, <1>6, <1>9 DEF Settled, Scrolled, LastRow
  <2>3. \A k \in 0..(l - 1) : up[k] = new[k + m]
    OBVIOUS
  <2> HIDE DEF up
  <2>4. ASSUME NEW i \in 1..(n + 1)
        PROVE  up[l - (n + 1) + i - 1] = app[i]
    <3>1. PICK k \in 0..(l - 1) : k = l - (n + 1) + i - 1 /\ k + m = cur - n + i - 1
      BY <1>3, <2>1
    <3> QED
      BY <1>7, <2>3, <3>1
  <2> QED
    BY <1>3, <1>4, <2>2, <2>4, SMTT(30) DEF EndsIn, app
<1> QED
  BY <1>8, <1>9

\* A character of b is appended to the text before it.
LEMMA NextOf ==
  ASSUME NEW S, NEW str \in Seq(S), NEW b \in Seq(S), NEW n \in Nat, n < Len(b)
  PROVE  str \o SubSeq(b, 1, n + 1) = Append(str \o SubSeq(b, 1, n), b[n + 1])
<1> DEFINE p == SubSeq(b, 1, n)
           q == <<b[n + 1]>>
<1>1. n + 1 \in 1..Len(b) /\ (n + 1) - 1 = n /\ 1 \in 1..Len(b) /\ n + 1 \in 1..Len(b) /\ b[n + 1] \in S
  OBVIOUS
<1>2. SubSeq(b, 1, n + 1) = p \o q
  <2>1. n + 1 \in 1..Len(b) => SubSeq(b, 1, n + 1) = SubSeq(b, 1, (n + 1) - 1) \o <<b[n + 1]>>
    BY <1>1, SubSeqRecursiveSecond
  <2> QED
    BY <1>1, <2>1
<1>3. p \in Seq(S) /\ q \in Seq(S)
  BY <1>1
<1>4. Append(str \o p, b[n + 1]) = (str \o p) \o q
  <2>1. str \o p \in Seq(S)
    BY <1>3
  <2> HIDE DEF p
  <2> QED
    BY <1>1, <2>1, AppendIsConcat
<1> HIDE DEF p, q
<1>5. (str \o p) \o q = str \o (p \o q)
  BY <1>3, ConcatAssociative, SMTT(30)
<1> QED
  BY <1>2, <1>4, <1>5 DEF p

\* Printing b extends the text before the cursor by b.
LEMMA PutAllEnds ==
  ASSUME NEW scr \in Screens, NEW str \in Seq(Chars), EndsIn(scr, str),
         NEW b \in Seq(Printable), Len(str) + Len(b) <= LastRow
  PROVE  EndsIn(PutAll(scr, b), str \o b)
<1>1. b \in Seq(Output) /\ b \in Seq(Chars)
  BY SeqMonotonic DEF Output, Buffered, Chars
<1>2. PICK g \in [0..Len(b) -> Screens] : Puts(g, scr, b)
  BY <1>1, PutAllSteps
<1>3. PICK N \in Nat, l \in Nat, m \in Nat :
        N = Len(b) /\ l = LastRow /\ m = Len(str) /\ m + N <= l
  BY Geometry, SMTT(30) DEF LastRow
<1> DEFINE part(n) == str \o SubSeq(b, 1, n)
           T == {n \in Nat : n <= N => EndsIn(g[n], part(n))}
<1>4. 0 \in T
  <2>1. SubSeq(b, 1, 0) = <<>> /\ str \o <<>> = str
    BY SubSeqEmpty, ConcatEmptySeq
  <2> QED
    BY <1>2, <2>1 DEF Puts
<1>5. ASSUME NEW n \in Nat, n \in T
      PROVE  n + 1 \in T
  <2> SUFFICES ASSUME n + 1 <= N
               PROVE  EndsIn(g[n + 1], part(n + 1))
    OBVIOUS
  <2>1. n + 1 \in 1..Len(b) /\ (n + 1) - 1 = n /\ n <= N /\ n < Len(b) /\ n \in 0..Len(b)
    BY <1>3
  <2>2. EndsIn(g[n], part(n)) /\ g[n] \in Screens
    BY <1>5, <2>1
  <2>3. g[n + 1] = Put(g[n], b[n + 1]) /\ b[n + 1] \in Chars
    BY <1>1, <1>2, <2>1 DEF Puts
  <2>4. part(n) \in Seq(Chars) /\ Len(part(n)) = m + n
    <3>1. SubSeq(b, 1, n) \in Seq(Chars) /\ Len(SubSeq(b, 1, n)) = n
      BY <1>1, <2>1, Prefix
    <3>2. PICK p \in Seq(Chars) : p = SubSeq(b, 1, n)
      BY <3>1
    <3>3. str \o p \in Seq(Chars) /\ Len(str \o p) = Len(str) + Len(p)
      BY CatFacts
    <3> QED
      BY <1>3, <3>1, <3>2, <3>3
  <2>5. part(n + 1) = Append(part(n), b[n + 1])
    BY <1>1, <2>1, NextOf
  <2> HIDE DEF part
  <2>6. Len(part(n)) < LastRow
    BY <1>3, <2>1, <2>4
  <2> QED
    BY <2>2, <2>3, <2>4, <2>5, <2>6, PutEnds
<1>6. \A n \in Nat : n \in T
  <2> HIDE DEF T
  <2> QED
    BY <1>4, <1>5, NatInduct
<1>7. EndsIn(g[N], part(N))
  BY <1>3, <1>6
<1>8. SubSeq(b, 1, Len(b)) = b
  BY SubSeqFull
<1> QED
  BY <1>2, <1>3, <1>7, <1>8 DEF Puts

\* The cell before the cursor is blanked and the cursor moves there.
TakenBack(s) == [cell |-> [s.cell EXCEPT ![s.cur - 1] = Blank], cur |-> s.cur - 1]

\* Backspace takes the last character of the text before the cursor back.
LEMMA BackEnds ==
  ASSUME NEW scr \in Screens, NEW str \in Seq(Chars), NEW c \in Chars, EndsIn(scr, Append(str, c))
  PROVE  EndsIn(TakenBack(scr), str)
<1>1. PICK n \in Nat, cur \in Nat, cell \in Contents : n = Len(str) /\ cell = scr.cell /\ cur = scr.cur
  BY DEF Screens, Contents, Cells
<1>2. PICK C : C = Cells /\ cell \in [C -> Chars] /\ C \subseteq Int
  <2>1. NUM_ROWS * NUM_COLS \in Int
    BY Geometry
  <2> QED
    BY <1>1, <2>1 DEF Contents, Cells
<1> DEFINE app == Append(str, c)
           new == [cell EXCEPT ![cur - 1] = Blank]
<1>3. /\ Len(app) = n + 1 /\ DOMAIN app = 1..(n + 1) /\ \A i \in 1..n : app[i] = str[i]
      /\ DOMAIN str = 1..n
  BY <1>1
<1>4. n + 1 <= cur /\ \A i \in 1..(n + 1) : cell[cur - (n + 1) + i - 1] = app[i]
  BY <1>1, <1>3 DEF EndsIn
<1>5. \A k \in C : k # cur - 1 => new[k] = cell[k]
  BY <1>2
<1>6. \A k \in 0..cur : k \in C
  <2>1. PICK N \in Int : N = NUM_ROWS * NUM_COLS
    BY Geometry
  <2>2. cur \in C /\ C = 0..(N - 1)
    BY <1>1, <1>2, <2>1 DEF Screens, Cells
  <2> QED
    BY <2>2
<1> HIDE DEF app, new
<1>7. ASSUME NEW i \in 1..n
      PROVE  new[(cur - 1) - n + i - 1] = str[i]
  <2>1. PICK k \in 0..cur : k = (cur - 1) - n + i - 1 /\ k = cur - (n + 1) + i - 1 /\ k # cur - 1
    BY <1>4
  <2>2. new[k] = cell[k] /\ cell[k] = app[i] /\ app[i] = str[i]
    <3>1. i \in 1..(n + 1)
      OBVIOUS
    <3> QED
      BY <1>3, <1>4, <1>5, <1>6, <2>1, <3>1
  <2> QED
    BY <2>1, <2>2
<1>8. TakenBack(scr) = [cell |-> new, cur |-> cur - 1]
  BY <1>1 DEF TakenBack, new
<1> QED
  BY <1>1, <1>3, <1>4, <1>7, <1>8 DEF EndsIn
-----------------------------------------------------------------------------
(* The keyboard *)

\* The code of a modifier key sets its flag and the row of kb_map that follows.
LEMMA CodeTypes ==
  ASSUME KeyTypes, NEW k \in Modifiers, NEW made \in BOOLEAN, modifier_code(k, made)
  PROVE  /\ caps' \in BOOLEAN /\ ctrl' \in BOOLEAN /\ alt' \in BOOLEAN
         /\ shiftL' \in BOOLEAN /\ shiftR' \in BOOLEAN
         /\ key_stat' \in 0..3
<1>1. /\ caps' \in BOOLEAN /\ ctrl' \in BOOLEAN /\ alt' \in BOOLEAN
      /\ shiftL' \in BOOLEAN /\ shiftR' \in BOOLEAN
  <2>1. caps' \in BOOLEAN
    BY Zenon DEF KeyTypes, modifier_code
  <2>2. ctrl' \in BOOLEAN
    BY Zenon DEF KeyTypes, modifier_code
  <2>3. alt' \in BOOLEAN
    BY Zenon DEF KeyTypes, modifier_code
  <2>4. shiftL' \in BOOLEAN
    BY Zenon DEF KeyTypes, modifier_code
  <2>5. shiftR' \in BOOLEAN
    BY Zenon DEF KeyTypes, modifier_code
  <2> QED
    BY <2>1, <2>2, <2>3, <2>4, <2>5
<1>2. key_stat' = (IF shiftR' \/ shiftL' THEN 2 ELSE 0) + (IF caps' THEN 1 ELSE 0)
  BY DEF modifier_code, update_key_stat, STATUS_SHIFT, STATUS_CAPSLOCK
<1> QED
  BY <1>1, <1>2

LEMMA ModifierTypes ==
  ASSUME KeyTypes, ModifierKey
  PROVE  KeyTypes'
<1>1. PICK k \in Modifiers : KeyDown(k) \/ KeyRepeat(k) \/ KeyUp(k)
  BY DEF ModifierKey
<1>2. CASE KeyDown(k)
  <2>1. modifier_code(k, TRUE)
    BY <1>2 DEF KeyDown
  <2>2. held' \in Chords /\ locked' \in BOOLEAN
    BY <1>2, Zenon DEF KeyDown
  <2> QED
    BY <2>1, <2>2, CodeTypes, Zenon DEF KeyTypes
<1>3. CASE KeyRepeat(k)
  <2>1. modifier_code(k, TRUE)
    BY <1>3 DEF KeyRepeat
  <2>2. held' \in Chords /\ locked' \in BOOLEAN
    BY <1>3, Zenon DEF KeyRepeat, KeyTypes
  <2> QED
    BY <2>1, <2>2, CodeTypes, Zenon DEF KeyTypes
<1>4. CASE KeyUp(k)
  <2>1. modifier_code(k, FALSE)
    BY <1>4 DEF KeyUp
  <2>2. held' \in Chords /\ locked' \in BOOLEAN
    BY <1>4, KeyboardAssumption, Zenon DEF KeyUp, KeyTypes
  <2> QED
    BY <2>1, <2>2, CodeTypes, Zenon DEF KeyTypes
<1> QED
  BY <1>1, <1>2, <1>3, <1>4

\* The driver follows the Shift keys, whichever goes down, repeats or comes up.
LEMMA ModifierShift ==
  ASSUME KeyTypes, ShiftInv, ModifierKey
  PROVE  ShiftInv'
<1>1. PICK k \in Modifiers : KeyDown(k) \/ KeyRepeat(k) \/ KeyUp(k)
  BY DEF ModifierKey
<1>2. key_stat' = (IF shiftR' \/ shiftL' THEN STATUS_SHIFT ELSE 0) + (IF caps' THEN STATUS_CAPSLOCK ELSE 0)
  BY <1>1, Zenon DEF KeyDown, KeyRepeat, KeyUp, modifier_code, update_key_stat
<1>3. (shiftL' <=> "SHIFT_L" \in held') /\ (shiftR' <=> "SHIFT_R" \in held')
  <2>1. CASE KeyDown(k)
    BY <2>1, Zenon DEF KeyDown, modifier_code, ShiftInv
  <2>2. CASE KeyRepeat(k)
    BY <2>2, Zenon DEF KeyRepeat, modifier_code, ShiftInv
  <2>3. CASE KeyUp(k)
    BY <2>3, Zenon DEF KeyUp, modifier_code, ShiftInv
  <2> QED
    BY <1>1, <2>1, <2>2, <2>3
<1> QED
  BY <1>2, <1>3, Zenon DEF ShiftInv

\* A Caps Lock key that does not repeat toggles the driver and the lock alike.
LEMMA ModifierCaps ==
  ASSUME KeyTypes, CapsInv, "CAPS_LOCK" \notin Typematic, ModifierKey
  PROVE  CapsInv'
<1>1. PICK k \in Modifiers : KeyDown(k) \/ KeyRepeat(k) \/ KeyUp(k)
  BY DEF ModifierKey
<1>2. caps \in BOOLEAN /\ locked \in BOOLEAN
  BY DEF KeyTypes
<1>3. CASE KeyDown(k)
  BY <1>2, <1>3 DEF KeyDown, modifier_code, CapsInv
<1>4. CASE KeyRepeat(k)
  BY <1>2, <1>4 DEF KeyRepeat, modifier_code, CapsInv
<1>5. CASE KeyUp(k)
  BY <1>2, <1>5 DEF KeyUp, modifier_code, CapsInv
<1> QED
  BY <1>1, <1>3, <1>4, <1>5
-----------------------------------------------------------------------------
(* Keys *)

\* What a key that types b adds to the line.
Typed(b) == SubSeq(b, 1, IF Len(b) < Room THEN Len(b) ELSE Room)

LEMMA TypedFacts ==
  ASSUME Types, BoundInv, NEW b \in Seq(Printable)
  PROVE  /\ Line \in Seq(Buffered) /\ Len(Line) \in Nat
         /\ Typed(b) \in Seq(Printable) /\ Len(Typed(b)) \in Nat
         /\ Typed(b) = <<>> \/ Len(Line) + Len(Typed(b)) < KB_BUF_SIZE
<1>1. Line \in Seq(Buffered) /\ Len(Line) \in Nat
  BY DEF Types, Line
<1>2. PICK n \in Int, K \in Nat : n = (IF Len(b) < Room THEN Len(b) ELSE Room) /\ K = KB_BUF_SIZE
  BY <1>1, ConsoleAssumption DEF Room
<1>3. n <= Len(b) /\ Len(Line) + n < K
  BY <1>1, <1>2 DEF Room
<1>4. CASE n < 1
  <2>1. Typed(b) = <<>>
    BY <1>2, <1>4, SubSeqEmpty DEF Typed
  <2> QED
    BY <1>1, <2>1, EmptySeq
<1>5. CASE n >= 1
  <2>1. SubSeq(b, 1, n) \in Seq(Printable) /\ Len(SubSeq(b, 1, n)) = n
    BY <1>3, <1>5, Prefix
  <2> QED
    BY <1>1, <1>2, <1>3, <2>1 DEF Typed
<1> QED
  BY <1>4, <1>5

\* The line with the characters added.
LEMMA LongerLine ==
  ASSUME Types, BoundInv, NEW b \in Seq(Printable)
  PROVE  /\ Line \o Typed(b) \in Seq(Buffered)
         /\ Len(Line \o Typed(b)) \in Nat
         /\ Len(Line \o Typed(b)) = Len(Line) + Len(Typed(b))
         /\ Len(Line \o Typed(b)) <= KB_BUF_SIZE
         /\ Len(Line) < KB_BUF_SIZE => Len(Line \o Typed(b)) < KB_BUF_SIZE
         /\ Typed(b) \in Seq(Output)
<1>1. PICK l \in Seq(Buffered), d \in Seq(Buffered) : l = Line /\ d = Typed(b)
  BY TypedFacts, SeqMonotonic DEF Buffered
<1>2. l \o d \in Seq(Buffered) /\ Len(l \o d) = Len(l) + Len(d) /\ Len(l) \in Nat /\ Len(d) \in Nat
  BY CatFacts
<1>3. Len(l) <= KB_BUF_SIZE
  BY <1>1 DEF BoundInv, Types, Line
<1>4. d = <<>> \/ Len(l) + Len(d) < KB_BUF_SIZE
  BY <1>1, TypedFacts
<1>5. d = <<>> => Len(d) = 0
  OBVIOUS
<1>6. KB_BUF_SIZE \in Nat
  BY ConsoleAssumption
<1>7. d \in Seq(Output)
  BY SeqMonotonic DEF Output
<1>8. /\ Len(l \o d) \in Nat
      /\ Len(l \o d) <= KB_BUF_SIZE
      /\ Len(l) < KB_BUF_SIZE => Len(l \o d) < KB_BUF_SIZE
  <2>1. PICK x \in Nat, y \in Nat, z \in Nat : x = Len(l) /\ y = Len(d) /\ z = Len(l \o d)
    BY <1>2
  <2> QED
    BY <1>2, <1>3, <1>4, <1>5, <1>6, <2>1
<1> QED
  BY <1>1, <1>2, <1>7, <1>8

\* A key that leaves a fitting line and a screen on the displayed terminal.
LEMMA ShowsInv ==
  ASSUME Types, BoundInv, NEW line \in Seq(Buffered), NEW scr \in Screens, Shows(line, scr),
         Len(line) <= KB_BUF_SIZE,
         NEW w \in BOOLEAN, w => readWaiting[display_term],
         readWaiting' = [readWaiting EXCEPT ![display_term] = w],
         w \/ pc[display_term] \in {"busy", "prompted"} => Len(line) < KB_BUF_SIZE,
         NEW p \in BOOLEAN,
         prompt' = [prompt EXCEPT ![display_term] = p],
         display_term' = display_term, UNCHANGED <<keyboard, program>>
  PROVE  Types' /\ BoundInv'
<1>0. PICK B : B = Seq(Buffered) /\ line \in B
  OBVIOUS
<1>1. KeyTypes'
  BY DEF Types, KeyTypes, keyboard, driver
<1>2. PICK d \in Terms : d = display_term
  BY DEF Types
<1>3. kb_buf' \in [Terms -> B] /\ kb_buf' = [kb_buf EXCEPT ![d] = line]
  BY <1>0, <1>2 DEF Types, Shows
<1>4. screen' \in [Terms -> Screens]
  BY DEF Types, Shows
<1>5. readWaiting' \in [Terms -> BOOLEAN] /\ prompt' \in [Terms -> BOOLEAN]
  BY DEF Types
<1>6. Types'
  BY <1>0, <1>1, <1>2, <1>3, <1>4, <1>5 DEF Types, program
<1>7. ASSUME NEW t \in Terms
      PROVE  /\ pc'[t] \in {"busy", "prompted"} => ~readWaiting'[t]
             /\ Len(kb_buf'[t]) <= KB_BUF_SIZE
             /\ readWaiting'[t] \/ pc'[t] \in {"busy", "prompted"} => Len(kb_buf'[t]) < KB_BUF_SIZE
  <2>1. pc'[t] = pc[t]
    BY DEF program
  <2>2. CASE t = d
    <3>1. kb_buf'[t] = line /\ readWaiting'[t] = w
      BY <1>2, <1>3, <2>2 DEF Types
    <3> QED
      BY <1>2, <2>1, <2>2, <3>1 DEF BoundInv
  <2>3. CASE t # d
    <3>1. kb_buf'[t] = kb_buf[t] /\ readWaiting'[t] = readWaiting[t]
      BY <1>2, <1>3, <2>3 DEF Types
    <3> QED
      BY <2>1, <3>1 DEF BoundInv
  <2> QED
    BY <2>2, <2>3
<1>8. BoundInv'
  BY <1>7 DEF BoundInv
<1> QED
  BY <1>6, <1>8

\* A flag that a key leaves alone.
LEMMA SameFlags ==
  ASSUME Types, UNCHANGED <<readWaiting, prompt>>
  PROVE  /\ readWaiting' = [readWaiting EXCEPT ![display_term] = readWaiting[display_term]]
         /\ prompt' = [prompt EXCEPT ![display_term] = prompt[display_term]]
         /\ readWaiting[display_term] \in BOOLEAN /\ prompt[display_term] \in BOOLEAN
BY DEF Types

LEMMA CharInv ==
  ASSUME Types, BoundInv, NEW b \in Seq(Printable), term_keyboardChar(b), UNCHANGED <<keyboard, program>>
  PROVE  Types' /\ BoundInv'
<1>1. PICK line \in Seq(Buffered), scr \in Screens :
        line = Line \o Typed(b) /\ scr = PutAll(screen[display_term], Typed(b))
  <2>1. screen[display_term] \in Screens
    BY DEF Types
  <2>2. PutAll(screen[display_term], Typed(b)) \in Screens
    BY <2>1, LongerLine, PutAllScreen
  <2> QED
    BY <2>2, LongerLine
<1>2. Shows(line, scr) /\ UNCHANGED <<display_term, readWaiting, prompt>>
  BY <1>1 DEF term_keyboardChar, Typed
<1>3. PICK w \in BOOLEAN, p \in BOOLEAN :
        /\ w = readWaiting[display_term] /\ readWaiting' = [readWaiting EXCEPT ![display_term] = w]
        /\ prompt' = [prompt EXCEPT ![display_term] = p]
  BY <1>2, SameFlags
<1>4. display_term \in Terms /\ Len(line) <= KB_BUF_SIZE
  BY <1>1, LongerLine DEF Types
<1>5. w \/ pc[display_term] \in {"busy", "prompted"} => Len(line) < KB_BUF_SIZE
  <2>1. w \/ pc[display_term] \in {"busy", "prompted"} => Len(Line) < KB_BUF_SIZE
    BY <1>3, <1>4 DEF BoundInv, Line
  <2> QED
    BY <1>1, <2>1, LongerLine
<1> QED
  BY <1>2, <1>3, <1>4, <1>5, ShowsInv

\* The spaces of the tab key.
LEMMA TabSpaces ==
  ASSUME Types
  PROVE  [i \in 1..(TAB_STOP - ((screen[display_term].cur % NUM_COLS) % TAB_STOP)) |-> Blank] \in Seq(Printable)
<1>1. PICK T \in Nat \ {0}, x \in Nat : T = TAB_STOP /\ x = screen[display_term].cur % NUM_COLS
  <2>1. screen[display_term].cur \in Nat
    BY DEF Types, Screens, Cells
  <2>2. PICK m \in Nat \ {0}, c \in Nat : m = NUM_COLS /\ c = screen[display_term].cur
    BY <2>1, Geometry
  <2>3. c % m \in Nat
    BY DivFacts
  <2> QED
    BY <2>2, <2>3, ConsoleAssumption
<1>2. PICK n \in Nat : n = T - (x % T)
  BY <1>1, DivFacts
<1>3. [i \in 1..n |-> Blank] \in [1..n -> Printable]
  BY BlankIsChar
<1>4. [i \in 1..n |-> Blank] \in Seq(Printable)
  BY <1>3, SeqDef
<1> QED
  BY <1>1, <1>2, <1>4

\* A line without its last character.
LEMMA FrontFacts ==
  ASSUME NEW S, NEW s \in Seq(S), s # <<>>
  PROVE  /\ Front(s) \in Seq(S) /\ Len(Front(s)) = Len(s) - 1
         /\ s[Len(s)] \in S /\ s = Append(Front(s), s[Len(s)])
<1>1. PICK n \in Nat : n + 1 = Len(s) /\ n = Len(s) - 1 /\ n <= Len(s)
  BY SMTT(30)
<1>2. Front(s) = SubSeq(s, 1, n)
  BY <1>1 DEF Front
<1>3. SubSeq(s, 1, n) \in Seq(S) /\ Len(SubSeq(s, 1, n)) = n /\ \A k \in 1..n : SubSeq(s, 1, n)[k] = s[k]
  BY <1>1, Prefix
<1> QED
  BY <1>1, <1>2, <1>3

LEMMA BackScreen ==
  ASSUME NEW s \in Screens, s.cur # 0
  PROVE  TakenBack(s) \in Screens
<1>1. PICK N \in Int : N = NUM_ROWS * NUM_COLS
  BY Geometry
<1>2. Cells = 0..(N - 1) /\ s.cur \in Cells
  BY <1>1 DEF Cells, Screens
<1>3. s.cur - 1 \in Cells
  BY <1>2
<1> QED
  BY <1>3, BlankIsChar DEF Screens, TakenBack

LEMMA BackInv ==
  ASSUME Types, BoundInv, term_keyboardBackspace, UNCHANGED <<keyboard, program>>
  PROVE  Types' /\ BoundInv'
<1>1. PICK line \in Seq(Buffered), scr \in Screens :
        line = Front(Line) /\ scr = TakenBack(screen[display_term])
  <2>1. Line \in Seq(Buffered) /\ Line # <<>> /\ screen[display_term] \in Screens /\ screen[display_term].cur # 0
    BY DEF Types, term_keyboardBackspace, Line
  <2> QED
    BY <2>1, FrontFacts, BackScreen
<1>2. Shows(line, scr) /\ UNCHANGED <<display_term, readWaiting, prompt>>
  BY <1>1 DEF term_keyboardBackspace, TakenBack
<1>3. PICK w \in BOOLEAN, p \in BOOLEAN :
        /\ w = readWaiting[display_term] /\ readWaiting' = [readWaiting EXCEPT ![display_term] = w]
        /\ prompt' = [prompt EXCEPT ![display_term] = p]
  BY <1>2, SameFlags
<1>4. display_term \in Terms /\ Len(line) < Len(Line) /\ Len(Line) \in Nat /\ Len(line) \in Nat
  <2>1. Line \in Seq(Buffered) /\ Line # <<>>
    BY DEF Types, term_keyboardBackspace, Line
  <2>2. Len(Front(Line)) = Len(Line) - 1
    BY <2>1, FrontFacts
  <2> QED
    BY <1>1, <2>1, <2>2 DEF Types
<1>5. Len(Line) <= KB_BUF_SIZE
  BY <1>4 DEF BoundInv, Line
<1>6. Len(line) < KB_BUF_SIZE /\ Len(line) <= KB_BUF_SIZE
  BY <1>4, <1>5, ConsoleAssumption
<1> QED
  BY <1>2, <1>3, <1>4, <1>6, ShowsInv

LEMMA EnterInv ==
  ASSUME Types, BoundInv, term_keyboardEnter, UNCHANGED <<keyboard, program>>
  PROVE  Types' /\ BoundInv'
<1>1. Line \in Seq(Buffered) /\ NEWLINE \in Buffered /\ Put(screen[display_term], NEWLINE) \in Screens
  <2>1. screen[display_term] \in Screens /\ NEWLINE \in Output
    BY DEF Types, Output, Buffered
  <2> QED
    BY <2>1, PutScreen DEF Types, Line, Buffered
<1>2. PICK line \in Seq(Buffered), scr \in Screens :
        /\ line = (IF readWaiting[display_term] THEN Append(Line, NEWLINE) ELSE <<>>)
        /\ scr = Put(screen[display_term], NEWLINE)
  <2>1. Append(Line, NEWLINE) \in Seq(Buffered) /\ <<>> \in Seq(Buffered)
    BY <1>1
  <2> QED
    BY <1>1, <2>1
<1>3. /\ Shows(line, scr) /\ UNCHANGED <<display_term, prompt>>
      /\ readWaiting' = [readWaiting EXCEPT ![display_term] = FALSE]
  BY <1>2 DEF term_keyboardEnter
<1>4. PICK p \in BOOLEAN : prompt' = [prompt EXCEPT ![display_term] = p]
  BY <1>3 DEF Types
<1>5. display_term \in Terms /\ KB_BUF_SIZE \in Nat /\ KB_BUF_SIZE >= 2
  BY ConsoleAssumption DEF Types
<1>6. CASE readWaiting[display_term]
  <2>1. Len(Line) < KB_BUF_SIZE /\ pc[display_term] \notin {"busy", "prompted"}
    BY <1>5, <1>6 DEF BoundInv, Line
  <2>2. Len(line) = Len(Line) + 1 /\ Len(Line) \in Nat
    BY <1>1, <1>2, <1>6
  <2>3. Len(line) <= KB_BUF_SIZE
    BY <1>5, <2>1, <2>2
  <2> QED
    BY <1>3, <1>4, <2>1, <2>3, ShowsInv
<1>7. CASE ~readWaiting[display_term]
  <2>1. Len(line) = 0
    BY <1>2, <1>7
  <2>2. Len(line) < KB_BUF_SIZE /\ Len(line) <= KB_BUF_SIZE
    BY <1>5, <2>1
  <2> QED
    BY <1>3, <1>4, <2>2, ShowsInv
<1> QED
  BY <1>6, <1>7

LEMMA ClearedScreen == Cleared \in Screens
<1>1. PICK l \in Nat, m \in Nat \ {0} : NUM_ROWS * NUM_COLS = l + m
  BY Geometry
<1>2. 0 \in Cells
  BY <1>1 DEF Cells
<1> QED
  BY <1>2, BlankIsChar DEF Cleared, Screens

LEMMA ClearInv ==
  ASSUME Types, BoundInv, clear_screen, UNCHANGED <<keyboard, program>>
  PROVE  Types' /\ BoundInv'
<1>1. PICK line \in Seq(Buffered), scr \in Screens : line = Line /\ scr = PutAll(Cleared, Line)
  <2>1. Line \in Seq(Buffered) /\ Line \in Seq(Output)
    BY SeqMonotonic DEF Types, Line, Output
  <2> QED
    BY <2>1, ClearedScreen, PutAllScreen
<1>2. /\ Shows(line, scr) /\ UNCHANGED <<display_term, readWaiting>>
      /\ prompt' = [prompt EXCEPT ![display_term] = FALSE]
  BY <1>1 DEF clear_screen
<1>3. PICK w \in BOOLEAN : w = readWaiting[display_term] /\ readWaiting' = [readWaiting EXCEPT ![display_term] = w]
  BY <1>2 DEF Types
<1>4. display_term \in Terms
  BY DEF Types
<1>5. /\ Len(line) <= KB_BUF_SIZE
      /\ w \/ pc[display_term] \in {"busy", "prompted"} => Len(line) < KB_BUF_SIZE
  BY <1>1, <1>3, <1>4 DEF BoundInv, Line
<1> QED
  BY <1>2, <1>3, <1>5, ShowsInv

\* The character of a key.
LEMMA KeyChar ==
  ASSUME NEW k \in Printing
  PROVE  get_char_map(k) \in Printable /\ <<get_char_map(k)>> \in Seq(Printable)
<1>1. PICK u \in BOOLEAN : get_char_map(k) = <<k, u>>
  BY DEF get_char_map, kb_map
<1>2. <<k, u>> \in Printable
  BY DEF Printable
<1> QED
  BY <1>1, <1>2

LEMMA KeyInv ==
  ASSUME Types, BoundInv, NEW k, keyboard_int(k), UNCHANGED <<keyboard, program>>
  PROVE  Types' /\ BoundInv'
<1>1. CASE term_keyboardTab
  <2>1. PICK b \in Seq(Printable) : term_keyboardChar(b)
    BY <1>1, TabSpaces DEF term_keyboardTab
  <2> QED
    BY <2>1, CharInv
<1>2. CASE k \in Terms /\ show_terminal(k)
  BY <1>2 DEF show_terminal, Types, BoundInv, KeyTypes, terminal, keyboard, driver, program
<1>3. CASE k \in Printing /\ term_keyboardChar(<<get_char_map(k)>>)
  BY <1>3, KeyChar, CharInv
<1> QED
  BY <1>1, <1>2, <1>3, EnterInv, BackInv, ClearInv DEF keyboard_int
-----------------------------------------------------------------------------
(* Programs, and the types *)

\* A step that prints on terminal t, or none, and moves its program to the point p.
LEMMA OutputTypes ==
  ASSUME Types, NEW t \in Terms, NEW p \in Points, Goto(t, p) \/ UNCHANGED pc,
         \/ UNCHANGED screen
         \/ \E c \in Output : screen' = [screen EXCEPT ![t] = Put(@, c)]
  PROVE  pc' \in [Terms -> Points] /\ screen' \in [Terms -> Screens]
<1>1. pc' \in [Terms -> Points]
  BY DEF Types, Goto
<1>2. CASE UNCHANGED screen
  BY <1>1, <1>2 DEF Types
<1>3. CASE \E c \in Output : screen' = [screen EXCEPT ![t] = Put(@, c)]
  <2>1. PICK c \in Output : screen' = [screen EXCEPT ![t] = Put(screen[t], c)]
    BY <1>3, Zenon
  <2>2. Put(screen[t], c) \in Screens
    BY PutScreen DEF Types
  <2> QED
    BY <1>1, <2>1, <2>2 DEF Types
<1> QED
  BY <1>2, <1>3

\* What term_showbuf prints is a character of a buffer.
LEMMA ShownChar ==
  ASSUME Types, NEW t \in Terms, idx[t] < Len(kb_buf[source[t]])
  PROVE  kb_buf[source[t]][idx[t] + 1] \in Output
<1>1. PICK b \in Seq(Buffered), n \in Nat : b = kb_buf[source[t]] /\ n = idx[t]
  BY DEF Types
<1>2. b[n + 1] \in Buffered
  BY <1>1
<1> QED
  BY <1>1, <1>2 DEF Output

LEMMA ProgramTypes ==
  ASSUME Types, NEW t \in Terms, Program(t)
  PROVE  Types'
<1>1. KeyTypes' /\ display_term' \in Terms
  BY DEF Types, KeyTypes, keyboard, driver, program, Program, terminal_write, write_prompt, terminal_read,
         term_showbuf, read_return
<1>2. CASE terminal_write(t)
  <2>1. \E c \in Output : screen' = [screen EXCEPT ![t] = Put(@, c)]
    BY <1>2, ConsoleAssumption DEF terminal_write, Output, Buffered
  <2>2. UNCHANGED <<kb_buf, readWaiting, pc, source, idx, prompt>>
    BY <1>2 DEF terminal_write, program
  <2>3. screen' \in [Terms -> Screens]
    <3>1. "busy" \in Points
      BY DEF Points
    <3> QED
      BY <2>1, <2>2, <3>1, OutputTypes
  <2> QED
    BY <1>1, <2>2, <2>3 DEF Types
<1>3. CASE write_prompt(t)
  <2>1. \E c \in Output : screen' = [screen EXCEPT ![t] = Put(@, c)]
    BY <1>3 DEF write_prompt, Output
  <2>2. Goto(t, "prompted") /\ UNCHANGED <<kb_buf, readWaiting, source, idx>>
    BY <1>3 DEF write_prompt
  <2>3. pc' \in [Terms -> Points] /\ screen' \in [Terms -> Screens]
    <3>1. "prompted" \in Points
      BY DEF Points
    <3> QED
      BY <2>1, <2>2, <3>1, OutputTypes
  <2>4. prompt' \in [Terms -> BOOLEAN]
    BY <1>3 DEF write_prompt, Types
  <2> QED
    BY <1>1, <2>2, <2>3, <2>4 DEF Types
<1>4. CASE terminal_read(t)
  <2>1. /\ UNCHANGED <<kb_buf, screen, idx, prompt>>
        /\ Goto(t, "show") \/ Goto(t, "wait")
    BY <1>4 DEF terminal_read
  <2>2. pc' \in [Terms -> Points]
    BY <2>1 DEF Goto, Types, Points
  <2>3. readWaiting' \in [Terms -> BOOLEAN]
    BY <1>4 DEF terminal_read, Types
  <2>4. source' \in [Terms -> Terms]
    <3>1. CASE kb_buf[t] # <<>>
      BY <1>4, <3>1 DEF terminal_read, Types
    <3>2. CASE kb_buf[t] = <<>>
      BY <1>4, <3>2 DEF terminal_read, Types
    <3> QED
      BY <3>1, <3>2
  <2> QED
    BY <1>1, <2>1, <2>2, <2>3, <2>4 DEF Types
<1>5. CASE term_showbuf(t)
  <2>1. UNCHANGED <<kb_buf, readWaiting, prompt>>
    BY <1>5 DEF term_showbuf
  <2>2. CASE idx[t] < Len(kb_buf[source[t]])
    <3>1. PICK c \in Output : screen' = [screen EXCEPT ![t] = Put(@, c)]
      <4>1. screen' = [screen EXCEPT ![t] = Put(@, kb_buf[source[t]][idx[t] + 1])]
        BY <1>5, <2>2 DEF term_showbuf
      <4> QED
        BY <2>2, <4>1, ShownChar
    <3>2. UNCHANGED <<pc, source>> /\ idx' = [idx EXCEPT ![t] = idx[t] + 1]
      BY <1>5, <2>2 DEF term_showbuf
    <3>3. screen' \in [Terms -> Screens]
      <4>1. "busy" \in Points
        BY DEF Points
      <4> QED
        BY <3>1, <3>2, <4>1, OutputTypes
    <3>4. idx' \in [Terms -> Nat]
      BY <3>2 DEF Types
    <3> QED
      BY <1>1, <2>1, <3>2, <3>3, <3>4 DEF Types
  <2>3. CASE ~(idx[t] < Len(kb_buf[source[t]]))
    <3>1. /\ UNCHANGED screen /\ idx' = [idx EXCEPT ![t] = 0] /\ source' = [source EXCEPT ![t] = t]
          /\ Goto(t, "wait")
      BY <1>5, <2>3 DEF term_showbuf
    <3> QED
      BY <1>1, <2>1, <3>1 DEF Types, Goto, Points
  <2> QED
    BY <2>2, <2>3
<1>6. CASE read_return(t)
  <2>1. /\ UNCHANGED <<readWaiting, screen, source, idx>>
        /\ kb_buf' = [kb_buf EXCEPT ![t] = <<>>] /\ prompt' = [prompt EXCEPT ![t] = FALSE]
        /\ Goto(t, "busy")
    BY <1>6 DEF read_return
  <2>2. PICK B : B = Seq(Buffered) /\ <<>> \in B
    BY EmptySeq
  <2>3. kb_buf' \in [Terms -> B] /\ pc' \in [Terms -> Points]
    BY <2>1, <2>2 DEF Types, Goto, Points
  <2> QED
    BY <1>1, <2>1, <2>2, <2>3 DEF Types
<1> QED
  BY <1>2, <1>3, <1>4, <1>5, <1>6 DEF Program

\* A program puts nothing into a buffer, and empties it when it goes on.
LEMMA ProgramBound ==
  ASSUME Types, BoundInv, NEW t \in Terms, Program(t)
  PROVE  BoundInv'
<1>0. KB_BUF_SIZE \in Nat /\ 0 < KB_BUF_SIZE /\ Len(<<>>) = 0
  BY ConsoleAssumption
<1>1. CASE terminal_write(t)
  BY <1>1 DEF terminal_write, BoundInv, program
<1>2. CASE write_prompt(t)
  BY <1>2 DEF write_prompt, BoundInv, Goto, Types
<1>3. CASE terminal_read(t)
  BY <1>3 DEF terminal_read, BoundInv, Goto, Types
<1>4. CASE term_showbuf(t)
  BY <1>4 DEF term_showbuf, BoundInv, Goto, Types
<1>5. CASE read_return(t)
  <2>1. /\ ~readWaiting[t] /\ UNCHANGED readWaiting
        /\ kb_buf' = [kb_buf EXCEPT ![t] = <<>>] /\ pc' = [pc EXCEPT ![t] = "busy"]
    BY <1>5 DEF read_return, Phase, Goto, Types, Points
  <2>2. ASSUME NEW u \in Terms
        PROVE  /\ pc'[u] \in {"busy", "prompted"} => ~readWaiting'[u]
               /\ Len(kb_buf'[u]) <= KB_BUF_SIZE
               /\ readWaiting'[u] \/ pc'[u] \in {"busy", "prompted"} => Len(kb_buf'[u]) < KB_BUF_SIZE
    <3>1. CASE u = t
      <4>1. kb_buf'[u] = <<>>
        BY <2>1, <3>1 DEF Types
      <4> QED
        BY <1>0, <2>1, <3>1, <4>1
    <3>2. CASE u # t
      <4>1. kb_buf'[u] = kb_buf[u] /\ pc'[u] = pc[u]
        BY <2>1, <3>2 DEF Types
      <4> QED
        BY <2>1, <4>1 DEF BoundInv
    <3> QED
      BY <3>1, <3>2
  <2> QED
    BY <2>2 DEF BoundInv
<1> QED
  BY <1>1, <1>2, <1>3, <1>4, <1>5 DEF Program

\* What a step does to the parts of the state.
LEMMA Steps ==
  ASSUME [Next]_vars
  PROVE  \/ ModifierKey /\ UNCHANGED <<display_term, terminal, program, prompt>>
         \/ \E k \in Keys[display_term] : Press(k)
         \/ \E t \in Terms : Program(t) /\ UNCHANGED keyboard
         \/ UNCHANGED vars
<1>1. Programs \subseteq Terms
  BY ConsoleAssumption
<1>2. \A t \in Terms : Program(t) => UNCHANGED keyboard
  BY DEF Program, terminal_write, write_prompt, terminal_read, term_showbuf, read_return
<1> QED
  BY <1>1, <1>2 DEF Next

\* The types are established and preserved, without a condition.
LEMMA InitInv == Init => IInv
<1> SUFFICES ASSUME Init
             PROVE  IInv
  OBVIOUS
<1> USE DEF Init, KeyboardInit
<1>1. KeyTypes
  <2>1. held \in Chords /\ key_stat \in 0..3
    BY KeyboardAssumption
  <2> QED
    BY <2>1, Zenon DEF KeyTypes
<1>2. kb_buf \in [Terms -> Seq(Buffered)] /\ \A t \in Terms : Len(kb_buf[t]) = 0
  <2>1. PICK B : B = Seq(Buffered) /\ <<>> \in B
    BY EmptySeq
  <2>2. kb_buf \in [Terms -> B]
    BY <2>1
  <2>3. \A t \in Terms : kb_buf[t] = <<>>
    OBVIOUS
  <2> QED
    BY <2>1, <2>2, <2>3
<1>3. screen \in [Terms -> Screens]
  BY ClearedScreen
<1>4. Types
  BY <1>1, <1>2, <1>3, ConsoleAssumption DEF Types, Points
<1>5. BoundInv
  BY <1>2, ConsoleAssumption DEF BoundInv
<1>6. ShiftInv
  BY DEF ShiftInv
<1> QED
  BY <1>4, <1>5, <1>6 DEF IInv

LEMMA NextInv == IInv /\ [Next]_vars => IInv'
<1> SUFFICES ASSUME IInv, [Next]_vars
             PROVE  IInv'
  OBVIOUS
<1>0. Types /\ KeyTypes /\ BoundInv /\ ShiftInv
  BY DEF IInv, Types
<1>1. CASE ModifierKey /\ UNCHANGED <<display_term, terminal, program, prompt>>
  <2>1. KeyTypes' /\ ShiftInv'
    BY <1>0, <1>1, ModifierTypes, ModifierShift
  <2>2. Types' /\ BoundInv'
    BY <1>0, <1>1, <2>1 DEF Types, BoundInv, terminal, program
  <2> QED
    BY <2>1, <2>2 DEF IInv
<1>2. ASSUME NEW k \in Keys[display_term], Press(k)
      PROVE  IInv'
  <2>1. keyboard_int(k) /\ UNCHANGED <<keyboard, program>>
    BY <1>2 DEF Press
  <2>2. ShiftInv'
    BY <1>0, <2>1 DEF ShiftInv, keyboard, driver
  <2> QED
    BY <1>0, <2>1, <2>2, KeyInv DEF IInv
<1>3. ASSUME NEW t \in Terms, Program(t), UNCHANGED keyboard
      PROVE  IInv'
  <2>1. ShiftInv'
    BY <1>0, <1>3 DEF ShiftInv, keyboard, driver
  <2> QED
    BY <1>0, <1>3, <2>1, ProgramTypes, ProgramBound DEF IInv
<1>4. CASE UNCHANGED vars
  BY <1>0, <1>4 DEF IInv, Types, KeyTypes, BoundInv, ShiftInv, vars, keyboard, driver, terminal, program
<1> QED
  BY <1>1, <1>2, <1>3, <1>4, Steps

THEOREM Invariance == Spec => []IInv
BY InitInv, NextInv, PTL DEF Spec

\* The buffers hold what fits, the cursors stay on the screens and every variable
\* keeps its type, whenever keys come in.
THEOREM TypeCorrect == Spec => []TypeOK
<1>1. IInv => TypeOK
  <2> SUFFICES ASSUME IInv
               PROVE  TypeOK
    OBVIOUS
  <2>1. \A t \in Terms : kb_buf[t] \in Seq(Printable \cup {NEWLINE}) /\ Len(kb_buf[t]) <= KB_BUF_SIZE
    BY DEF IInv, Types, BoundInv, Buffered
  <2> QED
    BY <2>1 DEF IInv, Types, KeyTypes, TypeOK, Screens
<1> QED
  BY <1>1, Invariance, PTL
-----------------------------------------------------------------------------
(* Keys have their meaning *)

\* The row of kb_map that the driver has chosen holds what the user means.
LEMMA MapIsMeant ==
  ASSUME KeyTypes, ShiftInv, CapsInv, NEW k \in Printing, k # BACKSLASH
  PROVE  get_char_map(k) = Meant(k)
<1> DEFINE shift == held \cap {"SHIFT_L", "SHIFT_R"} # {}
           upper == \/ k \in Letters /\ key_stat \in {1, 2}
                    \/ k \in Symbols /\ key_stat \in {2, 2 + 1}
                    \/ k = BACKSLASH /\ key_stat = 2
           meant == k # SPACE /\ IF k \in Letters THEN shift # locked ELSE shift
<1>1. shift <=> (shiftR \/ shiftL)
  <2>1. shift <=> ("SHIFT_R" \in held \/ "SHIFT_L" \in held)
    OBVIOUS
  <2> QED
    BY <2>1, Zenon DEF ShiftInv
<1>2. key_stat = (IF shift THEN 2 ELSE 0) + (IF locked THEN 1 ELSE 0)
  <2>1. key_stat = (IF shiftR \/ shiftL THEN 2 ELSE 0) + (IF caps THEN 1 ELSE 0)
    BY DEF ShiftInv, STATUS_SHIFT, STATUS_CAPSLOCK
  <2> HIDE DEF shift
  <2> QED
    BY <1>1, <2>1, Zenon DEF CapsInv
<1>3. /\ key_stat \in {1, 2} <=> ~(shift <=> locked)
      /\ key_stat \in {2, 2 + 1} <=> shift
  <2> HIDE DEF shift
  <2>1. CASE shift /\ locked
    <3>1. key_stat = 3
      BY <1>2, <2>1
    <3> QED
      BY <2>1, <3>1
  <2>2. CASE shift /\ ~locked
    <3>1. key_stat = 2
      BY <1>2, <2>2
    <3> QED
      BY <2>2, <3>1
  <2>3. CASE ~shift /\ locked
    <3>1. key_stat = 1
      BY <1>2, <2>3
    <3> QED
      BY <2>3, <3>1
  <2>4. CASE ~shift /\ ~locked
    <3>1. key_stat = 0
      BY <1>2, <2>4
    <3> QED
      BY <2>4, <3>1
  <2> QED
    BY <2>1, <2>2, <2>3, <2>4
<1>4. shift \in BOOLEAN /\ locked \in BOOLEAN
  BY Zenon DEF KeyTypes
<1>5. (shift # locked) <=> ~(shift <=> locked)
  <2> HIDE DEF shift
  <2> QED
    BY <1>4
<1>6. /\ k \in Letters => k \notin Symbols /\ k # SPACE
      /\ k \in Symbols => k # SPACE
      /\ k \in Letters \/ k \in Symbols \/ k = SPACE
      /\ SPACE \notin Letters /\ SPACE \notin Symbols
  BY KeyboardAssumption DEF Printing
<1>7. upper <=> meant
  <2> HIDE DEF shift
  <2>1. CASE k \in Letters
    BY <1>3, <1>5, <1>6, <2>1, Zenon
  <2>2. CASE k \in Symbols
    BY <1>3, <1>6, <2>2, Zenon
  <2>3. CASE k = SPACE
    BY <1>6, <2>3, Zenon
  <2> QED
    BY <1>6, <2>1, <2>2, <2>3
<1>8. upper \in BOOLEAN /\ meant \in BOOLEAN
  BY Zenon
<1>9. upper = meant
  <2> HIDE DEF upper, meant
  <2> QED
    BY <1>7, <1>8
<1>10. get_char_map(k) = <<k, upper>>
  BY Zenon DEF get_char_map, kb_map, STATUS_SHIFT, STATUS_CAPSLOCK
<1>11. Meant(k) = <<k, meant>>
  BY Zenon DEF Meant
<1> HIDE DEF upper, meant
<1> QED
  BY <1>9, <1>10, <1>11

\* The character of a key is the last one of the line, when it changes the line.
LEMMA CharIsLast ==
  ASSUME Types, BoundInv, NEW b \in Seq(Printable), Len(b) = 1, term_keyboardChar(b), kb_buf' # kb_buf
  PROVE  Last(kb_buf'[display_term]) = b[1]
<1>1. PICK l \in Seq(Buffered), d \in Terms : l = Line /\ d = display_term /\ l = kb_buf[d]
  BY DEF Types, Line
<1>2. kb_buf' = [kb_buf EXCEPT ![d] = l \o Typed(b)]
  BY <1>1 DEF term_keyboardChar, Shows, Typed
<1>3. PICK r \in Int : r = Room
  BY <1>1, ConsoleAssumption DEF Room
<1>4. CASE r < 1
  <2>1. Typed(b) = <<>>
    BY <1>3, <1>4, SubSeqEmpty DEF Typed
  <2>2. l \o <<>> = l
    BY ConcatEmptySeq
  <2>3. kb_buf' = kb_buf
    BY <1>1, <1>2, <2>1, <2>2 DEF Types
  <2> QED
    BY <2>3
<1>5. CASE ~(r < 1)
  <2>1. Typed(b) = b
    <3>1. (IF Len(b) < Room THEN Len(b) ELSE Room) = Len(b)
      BY <1>3, <1>5
    <3>2. SubSeq(b, 1, Len(b)) = b
      BY SubSeqFull
    <3> QED
      BY <3>1, <3>2, Zenon DEF Typed
  <2>2. kb_buf'[d] = l \o b
    BY <1>1, <1>2, <2>1 DEF Types
  <2>3. Len(l \o b) = Len(l) + 1 /\ (l \o b)[Len(l) + 1] = b[1]
    <3>1. b \in Seq(Buffered)
      BY SeqMonotonic DEF Buffered
    <3>2. /\ Len(l \o b) = Len(l) + Len(b)
          /\ \A k \in 1..Len(b) : (l \o b)[Len(l) + k] = b[k]
      <4>1. \A x \in Seq(Buffered), y \in Seq(Buffered) :
              /\ Len(x \o y) = Len(x) + Len(y)
              /\ \A k \in 1..Len(y) : (x \o y)[Len(x) + k] = y[k]
        BY CatFacts
      <4> QED
        BY <3>1, <4>1, Zenon
    <3>3. 1 \in 1..Len(b)
      OBVIOUS
    <3> QED
      BY <3>2, <3>3, Zenon
  <2>4. Last(l \o b) = b[1]
    BY <2>3, Zenon DEF Last
  <2> QED
    BY <1>1, <2>2, <2>4
<1> QED
  BY <1>4, <1>5

\* Under a Caps Lock key that does not repeat, a key other than backslash puts the
\* character into the buffer that the user means by it, in whatever order the Shift
\* keys went down and came up.
THEOREM KeysTyped == PlainKeys => (Spec => TypedAsMeant)
<1> SUFFICES ASSUME PlainKeys
             PROVE  Spec => TypedAsMeant
  OBVIOUS
<1>1. Init => CapsInv
  BY DEF Init, KeyboardInit, CapsInv
<1>2. IInv /\ CapsInv /\ [Next]_vars => CapsInv'
  <2> SUFFICES ASSUME IInv, CapsInv, [Next]_vars
               PROVE  CapsInv'
    OBVIOUS
  <2>1. KeyTypes /\ "CAPS_LOCK" \notin Typematic
    BY DEF IInv, Types, PlainKeys
  <2>2. CASE ModifierKey
    BY <2>1, <2>2, ModifierCaps
  <2>3. CASE UNCHANGED keyboard
    BY <2>3 DEF CapsInv, keyboard, driver
  <2> QED
    BY <2>2, <2>3, Steps DEF Press, vars
<1>3. IInv /\ CapsInv =>
        [\A k \in Keys[display_term] \cap Printing : Press(k) /\ kb_buf' # kb_buf =>
           Last(kb_buf'[display_term]) = Meant(k)]_vars
  <2> SUFFICES ASSUME IInv, CapsInv, NEW k \in Keys[display_term] \cap Printing, Press(k), kb_buf' # kb_buf
               PROVE  Last(kb_buf'[display_term]) = Meant(k)
    OBVIOUS
  <2>1. Types /\ KeyTypes /\ BoundInv /\ ShiftInv /\ display_term \in Terms
    BY DEF IInv, Types
  <2>2. k # "TAB" /\ k # "ENTER" /\ k # "BACK_SPACE" /\ k \notin Terms /\ k # BACKSLASH
    BY <2>1, ConsoleAssumption DEF PlainKeys
  <2>3. ~clear_screen
    BY <2>1 DEF clear_screen, Shows, Line, Types
  <2>4. term_keyboardChar(<<get_char_map(k)>>)
    BY <2>2, <2>3 DEF Press, keyboard_int
  <2>5. Last(kb_buf'[display_term]) = get_char_map(k)
    <3>1. PICK b \in Seq(Printable) : b = <<get_char_map(k)>>
      BY KeyChar
    <3>2. Len(b) = 1 /\ b[1] = get_char_map(k)
      BY <3>1
    <3> QED
      BY <2>1, <2>4, <3>1, <3>2, CharIsLast
  <2> QED
    BY <2>1, <2>2, <2>5, MapIsMeant
<1> QED
  BY <1>1, <1>2, <1>3, Invariance, PTL DEF Spec, TypedAsMeant
-----------------------------------------------------------------------------
(* The line on the screen: what each step does to one terminal *)

LEMMA PreFacts ==
  ASSUME NEW prm \in BOOLEAN
  PROVE  Pre(prm) \in Seq(Chars) /\ Len(Pre(prm)) \in 0..1
<1>1. PROMPT \in Chars
  BY DEF Chars
<1>2. CASE prm = TRUE
  <2>1. Pre(prm) = <<PROMPT>>
    BY <1>2 DEF Pre
  <2> QED
    BY <1>1, <2>1
<1>3. CASE prm = FALSE
  <2>1. Pre(prm) = <<>>
    BY <1>3 DEF Pre
  <2> QED
    BY <2>1, EmptySeq
<1> QED
  BY <1>2, <1>3

LEMMA SmallSum ==
  ASSUME NEW m \in 0..1, NEW n \in Nat
  PROVE  m + n \in Nat /\ m + n <= 1 + n
OBVIOUS

\* The prompt and a line.
LEMMA PreLine ==
  ASSUME NEW prm \in BOOLEAN, NEW s \in Seq(Printable)
  PROVE  /\ s \in Seq(Chars) /\ Pre(prm) \o s \in Seq(Chars)
         /\ Len(Pre(prm) \o s) \in Nat /\ Len(Pre(prm) \o s) <= 1 + Len(s)
<1>1. PICK a \in Seq(Chars), b \in Seq(Chars) : a = Pre(prm) /\ b = s /\ Len(a) \in 0..1
  BY PreFacts, SeqMonotonic DEF Chars
<1>2. a \o b \in Seq(Chars) /\ Len(a \o b) = Len(a) + Len(b) /\ Len(b) \in Nat
  BY CatFacts
<1>3. Len(a \o b) \in Nat /\ Len(a \o b) <= 1 + Len(b)
  <2>1. PICK l : l = Len(a \o b)
    OBVIOUS
  <2>2. PICK m \in 0..1, n \in Nat : m = Len(a) /\ n = Len(b) /\ l = m + n
    BY <1>1, <1>2, <2>1
  <2>3. m + n \in Nat /\ m + n <= 1 + n
    BY SmallSum
  <2> QED
    BY <2>1, <2>2, <2>3, Zenon
<1> QED
  BY <1>1, <1>2, <1>3

\* A prompt and a line that leaves the place for the newline fit above the last row.
LEMMA Fits ==
  /\ LastRow \in Nat /\ KB_BUF_SIZE \in Nat /\ KB_BUF_SIZE >= 2 /\ KB_BUF_SIZE <= LastRow
BY Geometry, ConsoleAssumption DEF LastRow

LEMMA SumFits ==
  ASSUME NEW l \in Nat, NEW K \in Nat, K <= l, NEW e \in 0..1, NEW m \in Nat, NEW n \in Nat, m + n < K
  PROVE  (e + m) + n <= l
OBVIOUS

\* Nothing stands before every cursor.
LEMMA NothingEnds ==
  ASSUME NEW scr \in Screens
  PROVE  EndsIn(scr, <<>>)
<1>1. PICK e \in Seq(Chars) : e = <<>> /\ Len(e) = 0
  BY EmptySeq
<1>2. DOMAIN e = 1..0
  BY <1>1, LenProperties
<1>3. scr.cur \in Nat
  BY DEF Screens, Cells
<1> QED
  BY <1>1, <1>2, <1>3 DEF EndsIn

\* Characters typed while the program runs or waits.
LEMMA FineChar ==
  ASSUME NEW t, NEW p, NEW w, NEW buf \in Seq(Buffered), NEW scr \in Screens, NEW prm \in BOOLEAN, NEW src, NEW i,
         Fine(t, p, w, buf, scr, prm, src, i), p = "busy" \/ (p = "wait" /\ w),
         NEW b \in Seq(Printable), Len(buf \o b) < KB_BUF_SIZE
  PROVE  Fine(t, p, w, buf \o b, PutAll(scr, b), prm, src, i)
<1>1. buf \in Seq(Printable) /\ src = t /\ i = 0
  BY DEF Fine
<1>2. buf \o b \in Seq(Printable)
  BY <1>1
<1>3. CASE p = "wait" /\ w
  <2>1. EndsIn(scr, Pre(prm) \o buf)
    BY <1>3 DEF Fine, Due
  <2>2. PICK str \in Seq(Chars) : str = Pre(prm) \o buf
    BY <1>1, PreLine
  <2>3. PICK x \in Seq(Chars), y \in Seq(Chars), z \in Seq(Chars) : x = Pre(prm) /\ y = buf /\ z = b
    BY <1>1, PreFacts, PreLine
  <2>4. (x \o y) \o z = x \o (y \o z)
    <3>1. PICK S : x \in Seq(S) /\ y \in Seq(S) /\ z \in Seq(S)
      OBVIOUS
    <3> QED
      BY <3>1, ConcatAssociative, SMTT(30)
  <2>5. Len(str) + Len(b) <= LastRow
    <3>1. Len(str) = Len(x) + Len(y) /\ Len(y \o z) = Len(y) + Len(z)
      BY <2>2, <2>3, CatFacts
    <3>2. Len(x) \in 0..1 /\ Len(y) \in Nat /\ Len(z) \in Nat
      BY <2>3, PreFacts
    <3>3. PICK l \in Nat, K \in Nat, m \in Nat, n \in Nat, e \in 0..1 :
            l = LastRow /\ K = KB_BUF_SIZE /\ K <= l /\ m = Len(y) /\ n = Len(z) /\ e = Len(x)
      BY <3>2, Fits
    <3>4. m + n < K
      BY <2>3, <3>1, <3>3
    <3>5. (e + m) + n <= l
      BY <3>3, <3>4, SumFits
    <3> QED
      BY <2>3, <3>1, <3>3, <3>5
  <2>6. EndsIn(PutAll(scr, b), str \o b)
    BY <2>1, <2>2, <2>5, PutAllEnds
  <2>7. EndsIn(PutAll(scr, b), Pre(prm) \o (buf \o b))
    BY <2>2, <2>3, <2>4, <2>6
  <2> QED
    BY <1>1, <1>2, <1>3, <2>7 DEF Fine, Due
<1>4. CASE p = "busy"
  BY <1>1, <1>2, <1>4 DEF Fine
<1> QED
  BY <1>3, <1>4

\* A character taken back.
LEMMA FineBack ==
  ASSUME NEW t, NEW p, NEW w, NEW buf \in Seq(Buffered), NEW scr \in Screens, NEW prm \in BOOLEAN, NEW src, NEW i,
         Fine(t, p, w, buf, scr, prm, src, i), p = "busy" \/ (p = "wait" /\ w), buf # <<>>
  PROVE  Fine(t, p, w, Front(buf), TakenBack(scr), prm, src, i)
<1>1. buf \in Seq(Printable) /\ src = t /\ i = 0
  BY DEF Fine
<1>2. PICK f \in Seq(Printable), c \in Printable : f = Front(buf) /\ buf = Append(f, c)
  BY <1>1, FrontFacts
<1>3. CASE p = "wait" /\ w
  <2>1. EndsIn(scr, Pre(prm) \o buf)
    BY <1>3 DEF Fine, Due
  <2>2. PICK x \in Seq(Chars), y \in Seq(Chars), d \in Chars : x = Pre(prm) /\ y = f /\ d = c
    BY PreFacts, PreLine DEF Chars
  <2>3. x \o Append(y, d) = Append(x \o y, d) /\ x \o y \in Seq(Chars)
    OBVIOUS
  <2>4. EndsIn(TakenBack(scr), x \o y)
    BY <1>2, <2>1, <2>2, <2>3, BackEnds
  <2>5. EndsIn(TakenBack(scr), Pre(prm) \o f)
    BY <2>2, <2>4
  <2> QED
    BY <1>1, <1>2, <1>3, <2>5 DEF Fine, Due
<1>4. CASE p = "busy"
  BY <1>1, <1>2, <1>4 DEF Fine
<1> QED
  BY <1>3, <1>4

\* Enter while the read waits, and while the program runs.
LEMMA FineEnter ==
  ASSUME NEW t, NEW p, NEW w, NEW buf, NEW scr, NEW prm, NEW src, NEW i,
         Fine(t, p, w, buf, scr, prm, src, i), (p = "busy" /\ ~w) \/ (p = "wait" /\ w), NEW new
  PROVE  Fine(t, p, FALSE, IF w THEN Append(buf, NEWLINE) ELSE <<>>, new, prm, src, i)
<1>1. <<>> \in Seq(Printable)
  BY EmptySeq
<1>2. src = t /\ i = 0
  BY DEF Fine
<1>3. CASE p = "wait" /\ w
  BY <1>2, <1>3 DEF Fine
<1>4. CASE p = "busy" /\ ~w
  BY <1>1, <1>2, <1>4 DEF Fine
<1> QED
  BY <1>3, <1>4

\* The screen is cleared, the prompt with it, and the line printed again.
LEMMA FineClear ==
  ASSUME NEW t, NEW p, NEW w, NEW buf \in Seq(Buffered), NEW scr, NEW prm, NEW src, NEW i,
         Fine(t, p, w, buf, scr, prm, src, i), p = "busy" \/ (p = "wait" /\ w), Len(buf) < KB_BUF_SIZE
  PROVE  Fine(t, p, w, buf, PutAll(Cleared, buf), FALSE, src, i)
<1>1. buf \in Seq(Printable) /\ src = t /\ i = 0
  BY DEF Fine
<1>2. CASE p = "wait" /\ w
  <2>1. PICK e \in Seq(Chars) : e = <<>> /\ Len(e) = 0
    BY EmptySeq
  <2>2. EndsIn(Cleared, e)
    BY <2>1, ClearedScreen, NothingEnds
  <2>3. Len(e) + Len(buf) <= LastRow
    BY <2>1, Fits
  <2>4. EndsIn(PutAll(Cleared, buf), e \o buf)
    BY <1>1, <2>2, <2>3, ClearedScreen, PutAllEnds
  <2>5. Pre(FALSE) = e
    BY <2>1 DEF Pre
  <2> QED
    BY <1>1, <1>2, <2>4, <2>5 DEF Fine, Due
<1>3. CASE p = "busy"
  BY <1>1, <1>3 DEF Fine
<1> QED
  BY <1>2, <1>3

LEMMA FinePrompt ==
  ASSUME NEW t, NEW w, NEW buf, NEW scr \in Screens, NEW prm, NEW src, NEW i,
         Fine(t, "busy", w, buf, scr, prm, src, i)
  PROVE  Fine(t, "prompted", w, buf, Put(scr, PROMPT), TRUE, src, i)
<1>1. PICK e \in Seq(Chars) : e = <<>> /\ Len(e) = 0
  BY EmptySeq
<1>2. EndsIn(scr, e)
  BY <1>1, NothingEnds
<1>3. Len(e) < LastRow /\ PROMPT \in Chars
  BY <1>1, Fits DEF Chars
<1>4. EndsIn(Put(scr, PROMPT), Append(e, PROMPT))
  BY <1>2, <1>3, PutEnds
<1>5. Append(e, PROMPT) = Pre(TRUE) \o e
  BY <1>1 DEF Pre
<1>6. EndsIn(Put(scr, PROMPT), Pre(TRUE) \o <<>>)
  BY <1>1, <1>4, <1>5
<1> QED
  BY <1>6 DEF Fine, Due

\* A read that finds an empty buffer, and one that finds a line.
LEMMA FineRead ==
  ASSUME NEW t, NEW w, NEW buf \in Seq(Buffered), NEW scr, NEW prm, NEW src, NEW i,
         Fine(t, "prompted", w, buf, scr, prm, src, i)
  PROVE  /\ buf = <<>> => Fine(t, "wait", TRUE, buf, scr, prm, src, i)
         /\ Fine(t, "show", TRUE, buf, scr, prm, t, i)
<1>1. i = 0 /\ src = t /\ prm /\ buf \in Seq(Printable) /\ EndsIn(scr, Pre(prm) \o <<>>)
  BY DEF Fine, Due
<1>2. SubSeq(buf, 1, 0) = <<>> /\ 0 <= Len(buf)
  BY SubSeqEmpty
<1>3. Fine(t, "show", TRUE, buf, scr, prm, t, i)
  BY <1>1, <1>2 DEF Fine, Due
<1>4. buf = <<>> => Fine(t, "wait", TRUE, buf, scr, prm, src, i)
  BY <1>1 DEF Fine, Due
<1> QED
  BY <1>3, <1>4

\* term_showbuf prints the next character, and ends with the whole line.
LEMMA FineShow ==
  ASSUME NEW t, NEW w, NEW buf \in Seq(Buffered), NEW scr \in Screens, NEW prm \in BOOLEAN, NEW src, NEW i \in Nat,
         Fine(t, "show", w, buf, scr, prm, src, i), Len(buf) < KB_BUF_SIZE
  PROVE  /\ i < Len(buf) => Fine(t, "show", w, buf, Put(scr, buf[i + 1]), prm, src, i + 1)
         /\ ~(i < Len(buf)) => Fine(t, "wait", w, buf, scr, prm, t, 0)
<1>1. src = t /\ w /\ i <= Len(buf) /\ prm /\ buf \in Seq(Printable) /\ EndsIn(scr, Pre(prm) \o SubSeq(buf, 1, i))
  BY DEF Fine, Due
<1>2. CASE i < Len(buf)
  <2>1. PICK x \in Seq(Chars), y \in Seq(Chars) : x = Pre(prm) /\ y = buf
    BY <1>1, PreFacts, PreLine
  <2>2. x \o SubSeq(y, 1, i + 1) = Append(x \o SubSeq(y, 1, i), y[i + 1])
    BY <1>2, <2>1, NextOf
  <2>3. PICK s \in Seq(Printable) : s = SubSeq(buf, 1, i) /\ Len(s) = i
    BY <1>1, Prefix
  <2>4. PICK str \in Seq(Chars) : str = Pre(prm) \o s /\ Len(str) \in Nat /\ Len(str) <= 1 + i
    BY <2>3, PreLine
  <2>5. Len(str) < LastRow /\ i + 1 <= Len(buf)
    BY <1>2, <2>4, Fits
  <2>6. y[i + 1] \in Chars
    BY <1>2, <2>1
  <2>7. EndsIn(Put(scr, y[i + 1]), Append(str, y[i + 1]))
    BY <1>1, <2>3, <2>4, <2>5, <2>6, PutEnds
  <2>8. EndsIn(Put(scr, buf[i + 1]), Pre(prm) \o SubSeq(buf, 1, i + 1))
    BY <2>1, <2>2, <2>3, <2>4, <2>7
  <2> QED
    BY <1>1, <1>2, <2>5, <2>8 DEF Fine, Due
<1>3. CASE ~(i < Len(buf))
  <2>1. i = Len(buf)
    BY <1>1, <1>3
  <2>2. SubSeq(buf, 1, i) = buf
    BY <2>1, SubSeqFull
  <2> QED
    BY <1>1, <1>3, <2>2 DEF Fine, Due
<1> QED
  BY <1>2, <1>3
-----------------------------------------------------------------------------
(* The line on the screen: the steps *)

\* Nothing of terminal u changes.
Same(u) ==
  /\ pc'[u] = pc[u] /\ readWaiting'[u] = readWaiting[u] /\ kb_buf'[u] = kb_buf[u]
  /\ screen'[u] = screen[u] /\ prompt'[u] = prompt[u] /\ source'[u] = source[u] /\ idx'[u] = idx[u]

\* A step concerns one terminal.
LEMMA OnlyAt ==
  ASSUME ShownInv, NEW t \in Terms, \A u \in Terms : u # t => Same(u),
         Fine(t, pc'[t], readWaiting'[t], kb_buf'[t], screen'[t], prompt'[t], source'[t], idx'[t])
  PROVE  ShownInv'
<1>1. ASSUME NEW u \in Terms, u # t
      PROVE  Fine(u, pc'[u], readWaiting'[u], kb_buf'[u], screen'[u], prompt'[u], source'[u], idx'[u])
  BY <1>1 DEF Same, ShownInv
<1> QED
  BY <1>1 DEF ShownInv

\* What a key leaves on the displayed terminal.
LEMMA ShowsAt ==
  ASSUME Types, ShownInv, NEW line, NEW scr, Shows(line, scr), NEW w, NEW p,
         readWaiting' = [readWaiting EXCEPT ![display_term] = w],
         prompt' = [prompt EXCEPT ![display_term] = p], UNCHANGED program,
         Fine(display_term, pc[display_term], w, line, scr, p, source[display_term], idx[display_term])
  PROVE  ShownInv'
<1>1. PICK d \in Terms : d = display_term
  BY DEF Types
<1>2. /\ kb_buf' = [kb_buf EXCEPT ![d] = line] /\ screen' = [screen EXCEPT ![d] = scr]
      /\ pc' = pc /\ source' = source /\ idx' = idx
  BY <1>1 DEF Shows, program
<1>3. \A u \in Terms : u # d => Same(u)
  BY <1>1, <1>2 DEF Same, Types
<1>4. /\ kb_buf'[d] = line /\ screen'[d] = scr /\ readWaiting'[d] = w /\ prompt'[d] = p
      /\ pc'[d] = pc[d] /\ source'[d] = source[d] /\ idx'[d] = idx[d]
  BY <1>1, <1>2 DEF Types
<1>5. Fine(d, pc'[d], readWaiting'[d], kb_buf'[d], screen'[d], prompt'[d], source'[d], idx'[d])
  BY <1>1, <1>4
<1> QED
  BY <1>3, <1>5, OnlyAt

\* The displayed terminal takes keys.
Listening == pc[display_term] = "busy" \/ (pc[display_term] = "wait" /\ readWaiting[display_term])

\* The line has been ended, and its read is about to return.
Woken == pc[display_term] = "wait" /\ ~readWaiting[display_term]

\* What is known of a displayed terminal that takes keys.
LEMMA ListeningFacts ==
  ASSUME Types, BoundInv, ShownInv, Listening
  PROVE  /\ Line = kb_buf[display_term] /\ Line \in Seq(Buffered) /\ Len(Line) < KB_BUF_SIZE
         /\ screen[display_term] \in Screens
         /\ readWaiting[display_term] \in BOOLEAN /\ prompt[display_term] \in BOOLEAN
         /\ pc[display_term] = "busy" => ~readWaiting[display_term]
         /\ Fine(display_term, pc[display_term], readWaiting[display_term], Line, screen[display_term],
                 prompt[display_term], source[display_term], idx[display_term])
<1>1. display_term \in Terms /\ Line = kb_buf[display_term]
  BY DEF Types, Line
<1>2. Len(Line) < KB_BUF_SIZE
  BY <1>1 DEF BoundInv, Listening
<1>3. /\ Line \in Seq(Buffered) /\ screen[display_term] \in Screens
      /\ readWaiting[display_term] \in BOOLEAN /\ prompt[display_term] \in BOOLEAN
  BY <1>1 DEF Types
<1>4. Fine(display_term, pc[display_term], readWaiting[display_term], Line, screen[display_term],
           prompt[display_term], source[display_term], idx[display_term])
  BY <1>1 DEF ShownInv
<1>5. pc[display_term] = "busy" => ~readWaiting[display_term]
  BY <1>1 DEF BoundInv
<1> QED
  BY <1>1, <1>2, <1>3, <1>4, <1>5

LEMMA CharShown ==
  ASSUME Types, BoundInv, ShownInv, Listening, NEW b \in Seq(Printable), term_keyboardChar(b), UNCHANGED program
  PROVE  ShownInv'
<1>1. PICK d \in Seq(Printable) : d = Typed(b) /\ Len(Line \o d) < KB_BUF_SIZE
  BY TypedFacts, LongerLine, ListeningFacts
<1>2. /\ Shows(Line \o d, PutAll(screen[display_term], d))
      /\ UNCHANGED <<display_term, readWaiting, prompt>>
  BY <1>1 DEF term_keyboardChar, Typed
<1>3. Fine(display_term, pc[display_term], readWaiting[display_term], Line \o d,
           PutAll(screen[display_term], d), prompt[display_term], source[display_term], idx[display_term])
  <2>1. /\ Line \in Seq(Buffered) /\ screen[display_term] \in Screens /\ prompt[display_term] \in BOOLEAN
        /\ Fine(display_term, pc[display_term], readWaiting[display_term], Line, screen[display_term],
                prompt[display_term], source[display_term], idx[display_term])
    BY ListeningFacts, Zenon
  <2>2. pc[display_term] = "busy" \/ (pc[display_term] = "wait" /\ readWaiting[display_term])
    BY DEF Listening
  <2> QED
    BY <1>1, <2>1, <2>2, FineChar, Zenon
<1>4. /\ readWaiting' = [readWaiting EXCEPT ![display_term] = readWaiting[display_term]]
      /\ prompt' = [prompt EXCEPT ![display_term] = prompt[display_term]]
  BY <1>2, SameFlags
<1> QED
  BY <1>2, <1>3, <1>4, ShowsAt

LEMMA BackShown ==
  ASSUME Types, BoundInv, ShownInv, Listening, term_keyboardBackspace, UNCHANGED program
  PROVE  ShownInv'
<1>1. /\ Shows(Front(Line), TakenBack(screen[display_term])) /\ Line # <<>>
      /\ UNCHANGED <<display_term, readWaiting, prompt>>
  BY DEF term_keyboardBackspace, TakenBack
<1>2. Fine(display_term, pc[display_term], readWaiting[display_term], Front(Line),
           TakenBack(screen[display_term]), prompt[display_term], source[display_term], idx[display_term])
  BY <1>1, ListeningFacts, FineBack DEF Listening
<1>3. /\ readWaiting' = [readWaiting EXCEPT ![display_term] = readWaiting[display_term]]
      /\ prompt' = [prompt EXCEPT ![display_term] = prompt[display_term]]
  BY <1>1, SameFlags
<1> QED
  BY <1>1, <1>2, <1>3, ShowsAt

LEMMA EnterShown ==
  ASSUME Types, BoundInv, ShownInv, Listening, term_keyboardEnter, UNCHANGED program
  PROVE  ShownInv'
<1>1. /\ Shows(IF readWaiting[display_term] THEN Append(Line, NEWLINE) ELSE <<>>,
               Put(screen[display_term], NEWLINE))
      /\ readWaiting' = [readWaiting EXCEPT ![display_term] = FALSE]
      /\ UNCHANGED prompt
  BY DEF term_keyboardEnter
<1>2. prompt' = [prompt EXCEPT ![display_term] = prompt[display_term]]
  BY <1>1 DEF Types
<1>3. Fine(display_term, pc[display_term], FALSE,
           IF readWaiting[display_term] THEN Append(Line, NEWLINE) ELSE <<>>,
           Put(screen[display_term], NEWLINE), prompt[display_term], source[display_term], idx[display_term])
  BY ListeningFacts, FineEnter DEF Listening
<1> QED
  BY <1>1, <1>2, <1>3, ShowsAt

LEMMA ClearShown ==
  ASSUME Types, BoundInv, ShownInv, Listening, clear_screen, UNCHANGED program
  PROVE  ShownInv'
<1>1. /\ Shows(Line, PutAll(Cleared, Line)) /\ UNCHANGED readWaiting
      /\ prompt' = [prompt EXCEPT ![display_term] = FALSE]
  BY DEF clear_screen
<1>2. readWaiting' = [readWaiting EXCEPT ![display_term] = readWaiting[display_term]]
  BY <1>1 DEF Types
<1>3. Fine(display_term, pc[display_term], readWaiting[display_term], Line,
           PutAll(Cleared, Line), FALSE, source[display_term], idx[display_term])
  <2>1. /\ Line \in Seq(Buffered) /\ Len(Line) < KB_BUF_SIZE
        /\ Fine(display_term, pc[display_term], readWaiting[display_term], Line, screen[display_term],
                prompt[display_term], source[display_term], idx[display_term])
    BY ListeningFacts, Zenon
  <2>2. pc[display_term] = "busy" \/ (pc[display_term] = "wait" /\ readWaiting[display_term])
    BY DEF Listening
  <2> QED
    BY <2>1, <2>2, FineClear, Zenon
<1> QED
  BY <1>1, <1>2, <1>3, ShowsAt

\* Keys that come in before the read returns change what will be thrown away.
LEMMA WokenShown ==
  ASSUME Types, ShownInv, Woken, NEW line, NEW scr, Shows(line, scr), NEW p,
         prompt' = [prompt EXCEPT ![display_term] = p],
         \/ readWaiting' = readWaiting
         \/ readWaiting' = [readWaiting EXCEPT ![display_term] = FALSE],
         UNCHANGED program
  PROVE  ShownInv'
<1>1. source[display_term] = display_term /\ idx[display_term] = 0
  <2>1. Fine(display_term, pc[display_term], readWaiting[display_term], kb_buf[display_term],
             screen[display_term], prompt[display_term], source[display_term], idx[display_term])
    BY DEF ShownInv, Types
  <2> QED
    BY <2>1 DEF Fine, Woken
<1>2. Fine(display_term, pc[display_term], FALSE, line, scr, p, source[display_term], idx[display_term])
  BY <1>1 DEF Fine, Woken
<1>3. readWaiting' = [readWaiting EXCEPT ![display_term] = FALSE]
  <2>1. CASE readWaiting' = readWaiting
    <3>1. readWaiting[display_term] = FALSE
      BY DEF Woken, Types
    <3> QED
      BY <2>1, <3>1 DEF Types
  <2> QED
    BY <2>1
<1> QED
  BY <1>2, <1>3, ShowsAt

\* Every key but a function key leaves a line and a screen.
LEMMA KeyWoken ==
  ASSUME Types, ShownInv, Woken, NEW k, k \notin Terms, keyboard_int(k), UNCHANGED program
  PROVE  ShownInv'
<1>0. prompt' = prompt => prompt' = [prompt EXCEPT ![display_term] = prompt[display_term]]
  BY DEF Types
<1>1. ASSUME NEW b, term_keyboardChar(b)
      PROVE  ShownInv'
  <2>1. /\ Shows(Line \o Typed(b), PutAll(screen[display_term], Typed(b)))
        /\ UNCHANGED <<readWaiting, prompt>>
    BY <1>1 DEF term_keyboardChar, Typed
  <2> QED
    BY <1>0, <2>1, WokenShown
<1>2. CASE term_keyboardEnter
  BY <1>0, <1>2, WokenShown DEF term_keyboardEnter
<1>3. CASE term_keyboardBackspace
  <2>1. /\ Shows(Front(Line), TakenBack(screen[display_term]))
        /\ UNCHANGED <<readWaiting, prompt>>
    BY <1>3 DEF term_keyboardBackspace, TakenBack
  <2> QED
    BY <1>0, <2>1, WokenShown
<1>4. CASE clear_screen
  BY <1>4, WokenShown DEF clear_screen
<1> QED
  BY <1>1, <1>2, <1>3, <1>4 DEF keyboard_int, term_keyboardTab

LEMMA KeyShown ==
  ASSUME Types, BoundInv, ShownInv, Orderly, NEW k, Press(k)
  PROVE  ShownInv'
<1>1. keyboard_int(k) /\ UNCHANGED program
  BY DEF Press
<1>2. CASE k \in Terms
  <2>1. show_terminal(k)
    BY <1>1, <1>2, KeyboardAssumption, ConsoleAssumption DEF keyboard_int, Printing
  <2> QED
    BY <1>1, <2>1 DEF show_terminal, terminal, program, ShownInv
<1>3. CASE k \notin Terms /\ Woken
  BY <1>1, <1>3, KeyWoken
<1>4. CASE k \notin Terms /\ ~Woken
  <2>1. Listening
    <3>1. pc[display_term] \in Points
      BY DEF Types
    <3> QED
      BY <1>4, <3>1 DEF Points, Press, Orderly, Phase, Listening, Woken
  <2>2. CASE term_keyboardTab
    <3>1. PICK b \in Seq(Printable) : term_keyboardChar(b)
      BY <2>2, TabSpaces DEF term_keyboardTab
    <3> QED
      BY <1>1, <2>1, <3>1, CharShown
  <2>3. CASE k \in Printing /\ term_keyboardChar(<<get_char_map(k)>>)
    BY <1>1, <2>1, <2>3, KeyChar, CharShown
  <2> QED
    BY <1>1, <1>4, <2>1, <2>2, <2>3, EnterShown, BackShown, ClearShown DEF keyboard_int
<1> QED
  BY <1>2, <1>3, <1>4

LEMMA ProgramShown ==
  ASSUME Types, BoundInv, ShownInv, Orderly, NEW t \in Terms, Program(t)
  PROVE  ShownInv'
<1>1. \A u \in Terms : u # t => Same(u)
  <2>1. CASE terminal_write(t)
    BY <2>1 DEF terminal_write, program, Same, Types
  <2>2. CASE write_prompt(t)
    BY <2>2 DEF write_prompt, Goto, Same, Types
  <2>3. CASE terminal_read(t)
    BY <2>3 DEF terminal_read, Goto, Same, Types
  <2>4. CASE term_showbuf(t)
    BY <2>4 DEF term_showbuf, Goto, Same, Types
  <2>5. CASE read_return(t)
    BY <2>5 DEF read_return, Goto, Same, Types
  <2> QED
    BY <2>1, <2>2, <2>3, <2>4, <2>5 DEF Program
<1>2. Fine(t, pc[t], readWaiting[t], kb_buf[t], screen[t], prompt[t], source[t], idx[t])
  BY DEF ShownInv
<1>3. /\ kb_buf[t] \in Seq(Buffered) /\ screen[t] \in Screens /\ prompt[t] \in BOOLEAN
      /\ idx[t] \in Nat
  BY DEF Types
<1> SUFFICES Fine(t, pc'[t], readWaiting'[t], kb_buf'[t], screen'[t], prompt'[t], source'[t], idx'[t])
  BY <1>1, OnlyAt
<1>4. CASE terminal_write(t)
  <2>1. /\ pc[t] = "busy" /\ pc'[t] = pc[t] /\ readWaiting'[t] = readWaiting[t] /\ kb_buf'[t] = kb_buf[t]
        /\ prompt'[t] = prompt[t] /\ source'[t] = source[t] /\ idx'[t] = idx[t]
    BY <1>4 DEF terminal_write, program
  <2> QED
    BY <1>2, <2>1 DEF Fine
<1>5. CASE write_prompt(t)
  <2>1. /\ pc[t] = "busy" /\ pc'[t] = "prompted" /\ readWaiting'[t] = readWaiting[t] /\ kb_buf'[t] = kb_buf[t]
        /\ prompt'[t] = TRUE /\ source'[t] = source[t] /\ idx'[t] = idx[t]
    BY <1>5 DEF write_prompt, Goto, Types
  <2>2. screen'[t] = Put(screen[t], PROMPT)
    BY <1>5 DEF write_prompt, Types
  <2>3. Fine(t, "prompted", readWaiting[t], kb_buf[t], Put(screen[t], PROMPT), TRUE, source[t], idx[t])
    <3>1. Fine(t, "busy", readWaiting[t], kb_buf[t], screen[t], prompt[t], source[t], idx[t])
      BY <1>2, <2>1
    <3> QED
      BY <1>3, <3>1, FinePrompt
  <2> QED
    BY <2>1, <2>2, <2>3, Zenon
<1>6. CASE terminal_read(t)
  <2>1. /\ pc[t] = "prompted" /\ readWaiting'[t] = TRUE /\ kb_buf'[t] = kb_buf[t] /\ screen'[t] = screen[t]
        /\ prompt'[t] = prompt[t] /\ idx'[t] = idx[t]
    BY <1>6 DEF terminal_read, Types
  <2>2. CASE kb_buf[t] = <<>>
    <3>1. pc'[t] = "wait" /\ source'[t] = source[t]
      BY <1>6, <2>2 DEF terminal_read, Goto, Types
    <3>2. Fine(t, "wait", TRUE, kb_buf[t], screen[t], prompt[t], source[t], idx[t])
      <4>1. Fine(t, "prompted", readWaiting[t], kb_buf[t], screen[t], prompt[t], source[t], idx[t])
        BY <1>2, <2>1
      <4> QED
        BY <1>3, <2>2, <4>1, FineRead
    <3> QED
      BY <2>1, <3>1, <3>2, Zenon
  <2>3. CASE kb_buf[t] # <<>>
    <3>1. display_term = t
      BY <1>6, <2>3 DEF terminal_read, Orderly
    <3>2. pc'[t] = "show" /\ source'[t] = t
      BY <1>6, <2>3, <3>1 DEF terminal_read, Goto, Types
    <3>3. Fine(t, "show", TRUE, kb_buf[t], screen[t], prompt[t], t, idx[t])
      <4>1. Fine(t, "prompted", readWaiting[t], kb_buf[t], screen[t], prompt[t], source[t], idx[t])
        BY <1>2, <2>1
      <4> QED
        BY <1>3, <4>1, FineRead
    <3> QED
      BY <2>1, <3>2, <3>3, Zenon
  <2> QED
    BY <2>2, <2>3
<1>7. CASE term_showbuf(t)
  <2>1. /\ pc[t] = "show" /\ readWaiting'[t] = readWaiting[t] /\ kb_buf'[t] = kb_buf[t] /\ prompt'[t] = prompt[t]
    BY <1>7 DEF term_showbuf
  <2>2. source[t] = t /\ readWaiting[t]
    BY <1>2, <2>1 DEF Fine
  <2>3. Len(kb_buf[t]) < KB_BUF_SIZE
    BY <2>2 DEF BoundInv
  <2>4. CASE idx[t] < Len(kb_buf[t])
    <3>1. /\ screen' = [screen EXCEPT ![t] = Put(screen[t], kb_buf[t][idx[t] + 1])]
          /\ idx' = [idx EXCEPT ![t] = idx[t] + 1]
          /\ UNCHANGED <<pc, source>>
      BY <1>7, <2>2, <2>4 DEF term_showbuf
    <3>2. /\ screen'[t] = Put(screen[t], kb_buf[t][idx[t] + 1]) /\ idx'[t] = idx[t] + 1
          /\ pc'[t] = "show" /\ source'[t] = source[t]
      BY <2>1, <3>1 DEF Types
    <3> QED
      BY <1>2, <1>3, <2>1, <2>3, <2>4, <3>2, FineShow
  <2>5. CASE ~(idx[t] < Len(kb_buf[t]))
    <3>1. screen'[t] = screen[t] /\ idx'[t] = 0 /\ pc'[t] = "wait" /\ source'[t] = t
      BY <1>7, <2>2, <2>5 DEF term_showbuf, Goto, Types
    <3> QED
      BY <1>2, <1>3, <2>1, <2>3, <2>5, <3>1, FineShow
  <2> QED
    BY <2>4, <2>5
<1>8. CASE read_return(t)
  <2>1. /\ pc[t] = "wait" /\ pc'[t] = "busy" /\ kb_buf'[t] = <<>> /\ source'[t] = source[t] /\ idx'[t] = idx[t]
    BY <1>8 DEF read_return, Phase, Goto, Types, Points
  <2>2. <<>> \in Seq(Printable) /\ source[t] = t /\ idx[t] = 0
    BY <1>2, <2>1, EmptySeq DEF Fine
  <2> QED
    BY <2>1, <2>2 DEF Fine
<1> QED
  BY <1>4, <1>5, <1>6, <1>7, <1>8 DEF Program

\* Where no key comes in between a prompt and the end of term_showbuf, and a read
\* finds no line on a terminal that is off the screen, the line of a read that waits
\* stands after its prompt and before the cursor, so that Backspace takes back what
\* was typed and nothing else.
THEOREM LineShown == Orderly => (Spec => []LineIsShown)
<1> SUFFICES ASSUME Orderly
             PROVE  Spec => []LineIsShown
  OBVIOUS
<1>1. Init => ShownInv
  <2>1. <<>> \in Seq(Printable)
    BY EmptySeq
  <2> QED
    BY <2>1 DEF Init, ShownInv, Fine
<1>2. IInv /\ ShownInv /\ [Next]_vars => ShownInv'
  <2> SUFFICES ASSUME IInv, ShownInv, [Next]_vars
               PROVE  ShownInv'
    OBVIOUS
  <2>1. Types /\ BoundInv
    BY DEF IInv
  <2>2. CASE UNCHANGED <<display_term, terminal, program, prompt>>
    BY <2>2 DEF ShownInv, terminal, program
  <2>3. ASSUME NEW k \in Keys[display_term], Press(k)
        PROVE  ShownInv'
    BY <2>1, <2>3, KeyShown
  <2>4. ASSUME NEW t \in Terms, Program(t)
        PROVE  ShownInv'
    BY <2>1, <2>4, ProgramShown
  <2> QED
    BY <2>2, <2>3, <2>4, Steps DEF vars
<1>3. ShownInv => LineIsShown
  <2> SUFFICES ASSUME ShownInv, NEW t \in Terms, Phase(t) = "wait"
               PROVE  EndsIn(screen[t], (IF prompt[t] THEN <<PROMPT>> ELSE <<>>) \o kb_buf[t])
    BY DEF LineIsShown
  <2>1. pc[t] = "wait" /\ readWaiting[t]
    BY DEF Phase
  <2>2. Fine(t, pc[t], readWaiting[t], kb_buf[t], screen[t], prompt[t], source[t], idx[t])
    BY DEF ShownInv
  <2>3. EndsIn(screen[t], Pre(prompt[t]) \o kb_buf[t])
    BY <2>1, <2>2 DEF Fine, Due
  <2> QED
    BY <2>3, Zenon DEF Pre
<1> QED
  BY <1>1, <1>2, <1>3, Invariance, PTL DEF Spec
=============================================================================
