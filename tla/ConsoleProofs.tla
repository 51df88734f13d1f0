--------------------------- MODULE ConsoleProofs ---------------------------
(***************************************************************************)
(* Proofs about the terminal and the keyboard's modifiers, for a screen of *)
(* any size, any keys and any output.                                      *)
(***************************************************************************)
EXTENDS Console, NumberLemmas, SequenceTheorems, TLAPS

Columns == 0 .. VGA_WIDTH - 1
Rows == 0 .. VGA_HEIGHT - 1
Buffers == [Cell -> Char \cup {Blank}]
Text == Seq(Seq(Char))

Last(ls) == ls[Len(ls)]

\* The line of the text that row y of the screen shows, the cursor being in row r.
RowText(ls, r, y) == ls[Len(ls) - r + y]

\* The buffer shows the end of the text.
Cells(b, r, ls) ==
    \A x \in Columns, y \in Rows :
        b[Index(x, y)] = IF y <= r /\ x < Len(RowText(ls, r, y))
                         THEN RowText(ls, r, y)[x + 1] ELSE Blank

\* The cursor between characters: on the screen, or at the start of the row below it.
OnScreen(t) ==
    /\ t \in [terminal_row : 0 .. VGA_HEIGHT, terminal_column : Columns, terminal_buffer : Buffers]
    /\ t.terminal_row = VGA_HEIGHT => t.terminal_column = 0

Shows(t, ls) ==
    /\ ls \in Text /\ Len(ls) \in 1 .. VGA_HEIGHT + 1
    /\ t.terminal_row < Len(ls)
    /\ t.terminal_column = Len(Last(ls))
    /\ Cells(t.terminal_buffer, t.terminal_row, ls)

\* The task's three steps: between put and wrap the text is ahead of the terminal.
ScreenInv ==
    ~crossed =>
        /\ ~stray
        /\ pc \in {"idle", "scroll"} => OnScreen(tty) /\ Shows(tty, lines)
        /\ pc = "put" => OnScreen(tty) /\ Shows(tty, lines) /\ tty.terminal_row < VGA_HEIGHT
        /\ pc = "wrap" =>
            /\ OnScreen(putchar_wrap(tty, ch)) /\ Shows(putchar_wrap(tty, ch), lines)
            /\ tty.terminal_row <= VGA_HEIGHT /\ tty.terminal_column <= VGA_WIDTH
            /\ tty.terminal_row = VGA_HEIGHT => tty.terminal_column = 0

\* Is the flag on once the bytes q are handled?  The last byte that names one of
\* the codes decides.
EndsOn(q, codes, flag) ==
    \/ flag /\ \A i \in 1 .. Len(q) : q[i].scancode \notin codes
    \/ \E i \in 1 .. Len(q) :
        /\ q[i].scancode \in codes /\ ~q[i].up
        /\ \A j \in i + 1 .. Len(q) : q[j].scancode \notin codes

Pressed == [CTRL |-> CTRL_pressed, SHIFT |-> SHIFT_pressed, ALT |-> ALT_pressed]
KeysOf == [CTRL |-> {"SC_LCTRL", "RCTRL"}, ALT |-> {"SC_LALT", "RALT"},
           SHIFT |-> {"SC_LSHIFT", "SC_RSHIFT", "FAKE_SHIFT"}]

\* A flag that will be on has a key that is down.
Held(f, flag) == EndsOn(queue, Codes[f], flag) => KeysOf[f] \cap down # {}

\* The keyboard: the bytes on their way turn on no flag whose keys are up, and turn
\* off every flag whose keys are up, unless it is in doubt; a byte that will be read
\* again is the last one sent.
KeyInv ==
    /\ queue \in Seq(Byte) /\ stale \in Byte \cup {NONE}
    /\ \A f \in Flag :
        /\ Pressed[f] \in BOOLEAN
        /\ Held(f, FALSE)
        /\ f \notin doubt => Held(f, Pressed[f])
        /\ stale # NONE /\ stale.scancode \in Codes[f] /\ ~stale.up => KeysOf[f] \cap down # {}

PlaceInv ==
    /\ pc \in {"idle", "scroll", "put", "wrap"}
    /\ pc # "idle" => ch \in Char

IInv == PlaceInv /\ KeyInv /\ (MaskedOutput => ScreenInv)

(***************************************************************************)
(* The cells of the screen                                                 *)
(***************************************************************************)
\* The sizes of the screen, and that the rows with one more are counted without overflow.
LEMMA Sizes ==
  /\ VGA_WIDTH \in Nat \ {0} /\ VGA_HEIGHT \in Nat \ {0} /\ Width \in Nat \ {0}
  /\ VGA_WIDTH * VGA_HEIGHT \in Nat
  /\ VGA_WIDTH * VGA_HEIGHT + VGA_WIDTH < Width
  /\ VGA_HEIGHT < Width /\ VGA_WIDTH < Width
<1>1. /\ VGA_WIDTH \in Nat \ {0} /\ VGA_HEIGHT \in Nat \ {0} /\ Width \in Nat
      /\ VGA_WIDTH * (VGA_HEIGHT + 1) < Width
  BY ScreenAssumption
<1>2. VGA_WIDTH * (VGA_HEIGHT + 1) = VGA_WIDTH * VGA_HEIGHT + VGA_WIDTH
  BY <1>1
<1>3. VGA_WIDTH * VGA_HEIGHT \in Nat /\ VGA_HEIGHT <= VGA_WIDTH * VGA_HEIGHT
  BY <1>1
<1> QED
  BY <1>1, <1>2, <1>3

\* terminal_putentryat's index of a place on the screen does not wrap.
LEMMA IndexOf ==
  ASSUME NEW x \in Columns, NEW y \in Rows
  PROVE  Index(x, y) = VGA_WIDTH * y + x /\ Index(x, y) \in Cell
<1>1. VGA_WIDTH * y \in Nat /\ VGA_WIDTH * y + VGA_WIDTH <= VGA_WIDTH * VGA_HEIGHT
  <2>1. y \in Int /\ VGA_HEIGHT \in Int /\ y < VGA_HEIGHT /\ VGA_WIDTH \in Nat \ {0} /\ y \in Nat
    BY Sizes DEF Rows
  <2>2. VGA_WIDTH * y + VGA_WIDTH <= VGA_WIDTH * VGA_HEIGHT
    BY <2>1, MulStep
  <2> QED
    BY <2>1, <2>2
<1> DEFINE a == VGA_WIDTH * y + x
<1>2. a \in 0 .. VGA_WIDTH * VGA_HEIGHT - 1 /\ a \in 0 .. Width - 1 /\ y * VGA_WIDTH + x = a
  BY <1>1, Sizes DEF Columns, Rows
<1> HIDE DEF a
<1>3. a = Width * 0 + a /\ a \in Int /\ Width \in Nat \ {0}
  BY <1>2, Sizes
<1>4. a % Width = a
  BY <1>2, <1>3, DivUnique
<1> QED
  BY <1>2, <1>4 DEF Index, Cell, a

\* Two places on the screen have two cells.
LEMMA IndexOne ==
  ASSUME NEW x \in Columns, NEW y \in Rows, NEW x1 \in Columns, NEW y1 \in Rows,
         Index(x, y) = Index(x1, y1)
  PROVE  x = x1 /\ y = y1
<1>1. VGA_WIDTH * y + x = VGA_WIDTH * y1 + x1
  BY IndexOf
<1>2. /\ y \in Int /\ y1 \in Int /\ x \in 0 .. VGA_WIDTH - 1 /\ x1 \in 0 .. VGA_WIDTH - 1
      /\ VGA_WIDTH \in Nat \ {0} /\ VGA_WIDTH * y \in Int
  BY Sizes DEF Columns, Rows
<1> DEFINE a == VGA_WIDTH * y + x
<1>3. a \in Int /\ a = VGA_WIDTH * y + x /\ a = VGA_WIDTH * y1 + x1
  BY <1>1, <1>2
<1> HIDE DEF a
<1>4. a \div VGA_WIDTH = y /\ a % VGA_WIDTH = x
  BY <1>2, <1>3, DivUnique
<1>5. a \div VGA_WIDTH = y1 /\ a % VGA_WIDTH = x1
  BY <1>2, <1>3, DivUnique
<1> QED
  BY <1>4, <1>5

\* A character put on the screen changes its own cell.
LEMMA PutCell ==
  ASSUME NEW b \in Buffers, NEW c \in Char \cup {Blank}, NEW x \in Columns, NEW y \in Rows
  PROVE  /\ terminal_putentryat(b, c, x, y) \in Buffers
         /\ \A x1 \in Columns, y1 \in Rows :
                terminal_putentryat(b, c, x, y)[Index(x1, y1)] =
                    IF x1 = x /\ y1 = y THEN c ELSE b[Index(x1, y1)]
<1>1. terminal_putentryat(b, c, x, y) \in Buffers
  BY DEF terminal_putentryat, Buffers
<1>2. ASSUME NEW x1 \in Columns, NEW y1 \in Rows
      PROVE  terminal_putentryat(b, c, x, y)[Index(x1, y1)] =
                 IF x1 = x /\ y1 = y THEN c ELSE b[Index(x1, y1)]
  <2>1. Index(x1, y1) \in Cell
    BY IndexOf
  <2>2. Index(x1, y1) = Index(x, y) <=> x1 = x /\ y1 = y
    BY IndexOne
  <2> QED
    BY <2>1, <2>2 DEF terminal_putentryat
<1> QED
  BY <1>1, <1>2

\* Scrolling moves every row up and leaves the last one blank.
LEMMA ScrollCell ==
  ASSUME NEW b \in Buffers
  PROVE  /\ terminal_delete_last_line(terminal_scroll(b)) \in Buffers
         /\ \A x \in Columns, y \in Rows :
                terminal_delete_last_line(terminal_scroll(b))[Index(x, y)] =
                    IF y + 1 \in Rows THEN b[Index(x, y + 1)] ELSE Blank
<1>1. terminal_delete_last_line(terminal_scroll(b)) \in Buffers
  BY DEF terminal_delete_last_line, terminal_scroll, Buffers
<1>2. ASSUME NEW x \in Columns, NEW y \in Rows
      PROVE  terminal_delete_last_line(terminal_scroll(b))[Index(x, y)] =
                 IF y + 1 \in Rows THEN b[Index(x, y + 1)] ELSE Blank
  <2>1. Index(x, y) \in Cell /\ Index(x, y) = VGA_WIDTH * y + x
    BY IndexOf
  <2>2. VGA_WIDTH * (y + 1) = VGA_WIDTH * y + VGA_WIDTH /\ VGA_WIDTH * y \in Nat
    BY Sizes DEF Rows
  <2>3. CASE y + 1 \in Rows
    <3>1. Index(x, y + 1) \in Cell /\ Index(x, y + 1) = VGA_WIDTH * (y + 1) + x
      BY <2>3, IndexOf
    <3>2. Index(x, y) + VGA_WIDTH = Index(x, y + 1)
      BY <2>1, <2>2, <3>1, Sizes DEF Columns
    <3> QED
      BY <2>1, <2>3, <3>1, <3>2 DEF terminal_delete_last_line, terminal_scroll
  <2>4. CASE y + 1 \notin Rows
    <3>1. y + 1 = VGA_HEIGHT
      BY <2>4, Sizes DEF Rows
    <3>2. Index(x, y) + VGA_WIDTH \notin Cell
      BY <2>1, <2>2, <3>1, Sizes DEF Columns, Cell
    <3> QED
      BY <2>1, <2>4, <3>2 DEF terminal_delete_last_line
  <2> QED
    BY <2>3, <2>4
<1> QED
  BY <1>1, <1>2

(***************************************************************************)
(* The text                                                                *)
(***************************************************************************)
\* A new line is the last; the others keep their distance from the end.
LEMMA KeepNew ==
  ASSUME NEW ls \in Text, Len(ls) \in 1 .. VGA_HEIGHT + 1
  PROVE  LET k == Keep(Append(ls, << >>))
         IN  /\ k \in Text /\ Len(k) \in 1 .. VGA_HEIGHT + 1
             /\ \/ Len(k) = Len(ls) + 1
                \/ Len(k) = VGA_HEIGHT + 1 /\ Len(ls) = VGA_HEIGHT + 1
             /\ k[Len(k)] = << >>
             /\ \A j \in 0 .. Len(k) - 2 : k[Len(k) - 1 - j] = ls[Len(ls) - j]
<1> DEFINE a == Append(ls, << >>)
           k == Keep(a)
<1>1. VGA_HEIGHT \in Nat \ {0}
  BY Sizes
<1>2. a \in Text /\ Len(a) = Len(ls) + 1 /\ a[Len(a)] = << >> /\ Len(ls) \in Nat
  BY DEF Text
<1>3. \A i \in 1 .. Len(ls) : a[i] = ls[i]
  BY DEF Text
<1> HIDE DEF a
<1>4. CASE Len(a) > VGA_HEIGHT + 1
  <2>1. k = Tail(a)
    BY <1>4 DEF Keep
  <2>2. k \in Text /\ Len(k) = Len(a) - 1 /\ \A i \in 1 .. Len(k) : k[i] = a[i + 1]
    BY <1>1, <1>2, <2>1 DEF Text
  <2> HIDE DEF k
  <2>3. Len(k) = VGA_HEIGHT + 1 /\ Len(ls) = VGA_HEIGHT + 1
    BY <1>1, <1>2, <1>4, <2>2
  <2>4. k[Len(k)] = << >>
    BY <1>1, <1>2, <2>2, <2>3
  <2>5. \A j \in 0 .. Len(k) - 2 : k[Len(k) - 1 - j] = ls[Len(ls) - j]
    <3> SUFFICES ASSUME NEW j \in 0 .. Len(k) - 2
                 PROVE  k[Len(k) - 1 - j] = ls[Len(ls) - j]
      OBVIOUS
    <3>1. Len(k) - 1 - j \in 1 .. Len(k) /\ Len(k) - 1 - j + 1 = Len(ls) - j
      BY <1>1, <2>3
    <3>2. Len(ls) - j \in 1 .. Len(ls)
      BY <1>1, <2>3
    <3> QED
      BY <1>3, <2>2, <3>1, <3>2
  <2>6. k \in Text /\ Len(k) \in 1 .. VGA_HEIGHT + 1
    BY <1>1, <2>2, <2>3
  <2> QED
    BY <2>3, <2>4, <2>5, <2>6 DEF k, a
<1>5. CASE ~(Len(a) > VGA_HEIGHT + 1)
  <2>1. k = a
    BY <1>5 DEF Keep
  <2>2. Len(k) = Len(ls) + 1 /\ k \in Text /\ k[Len(k)] = << >> /\ Len(k) \in 1 .. VGA_HEIGHT + 1
    BY <1>1, <1>2, <1>5, <2>1
  <2>3. \A j \in 0 .. Len(k) - 2 : k[Len(k) - 1 - j] = ls[Len(ls) - j]
    BY <1>2, <1>3, <2>1
  <2> QED
    BY <2>2, <2>3 DEF k, a
<1> QED
  BY <1>4, <1>5

\* The last line replaced: the others stay.
LEMMA EditLast ==
  ASSUME NEW ls \in Text, Len(ls) \in 1 .. VGA_HEIGHT + 1, NEW s \in Seq(Char)
  PROVE  LET m == [ls EXCEPT ![Len(ls)] = s]
         IN  /\ m \in Text /\ Len(m) = Len(ls) /\ Last(m) = s
             /\ \A i \in 1 .. Len(ls) : i # Len(ls) => m[i] = ls[i]
<1>1. Len(ls) \in Nat /\ Len(ls) \in 1 .. Len(ls)
  BY Sizes DEF Text
<1> QED
  BY <1>1 DEF Text, Last

\* A new line begins: the cursor goes to the row below, the buffer is as it was.
LEMMA NewLineCells ==
  ASSUME NEW b, NEW r \in Rows, NEW ls \in Text, Len(ls) \in 1 .. VGA_HEIGHT + 1,
         r < Len(ls), Cells(b, r, ls)
  PROVE  r + 1 < Len(Keep(Append(ls, << >>))) /\ Cells(b, r + 1, Keep(Append(ls, << >>)))
<1> DEFINE k == Keep(Append(ls, << >>))
<1>1. /\ k \in Text /\ Len(k) \in 1 .. VGA_HEIGHT + 1
      /\ \/ Len(k) = Len(ls) + 1
         \/ Len(k) = VGA_HEIGHT + 1 /\ Len(ls) = VGA_HEIGHT + 1
      /\ k[Len(k)] = << >>
      /\ \A j \in 0 .. Len(k) - 2 : k[Len(k) - 1 - j] = ls[Len(ls) - j]
  BY KeepNew, Zenon
<1> HIDE DEF k
<1>2. VGA_HEIGHT \in Nat \ {0} /\ r \in Nat /\ r < VGA_HEIGHT /\ Len(ls) \in Nat /\ Len(k) \in Nat
  <2>1. VGA_HEIGHT \in Nat \ {0}
    BY Sizes
  <2>2. Len(k) \in Nat
    BY <1>1, <2>1
  <2> QED
    BY <2>1, <2>2 DEF Rows
<1>3. r + 1 < Len(k)
  BY <1>1, <1>2
<1>4. ASSUME NEW x \in Columns, NEW y \in Rows
      PROVE  b[Index(x, y)] = IF y <= r + 1 /\ x < Len(RowText(k, r + 1, y))
                              THEN RowText(k, r + 1, y)[x + 1] ELSE Blank
  <2>1. b[Index(x, y)] = IF y <= r /\ x < Len(RowText(ls, r, y))
                         THEN RowText(ls, r, y)[x + 1] ELSE Blank
    BY DEF Cells
  <2>2. y \in Nat /\ x \in Nat
    BY DEF Rows, Columns
  <2>3. CASE y <= r
    <3>1. r - y \in 0 .. Len(k) - 2
      BY <1>2, <1>3, <2>2, <2>3
    <3>2. Len(k) - 1 - (r - y) = Len(k) - (r + 1) + y /\ Len(ls) - (r - y) = Len(ls) - r + y
      BY <1>2, <2>2
    <3>3. RowText(k, r + 1, y) = RowText(ls, r, y)
      BY <1>1, <3>1, <3>2 DEF RowText
    <3> QED
      BY <1>2, <2>1, <2>2, <2>3, <3>3
  <2>4. CASE y = r + 1
    <3>1. RowText(k, r + 1, y) = << >>
      BY <1>1, <1>2, <2>4 DEF RowText
    <3>2. ~(x < Len(RowText(k, r + 1, y))) /\ ~(y <= r)
      BY <1>2, <2>2, <2>4, <3>1
    <3> QED
      BY <2>1, <3>2
  <2>5. CASE y > r + 1
    BY <1>2, <2>1, <2>2, <2>5
  <2> QED
    BY <1>2, <2>2, <2>3, <2>4, <2>5
<1> QED
  BY <1>3, <1>4 DEF Cells, k

\* A character put in the cursor's row: the buffer shows the line with that character.
LEMMA EditCells ==
  ASSUME NEW b \in Buffers, NEW r \in Rows, NEW ls \in Text, Len(ls) \in 1 .. VGA_HEIGHT + 1,
         r < Len(ls), Cells(b, r, ls), NEW x0 \in Columns, NEW c \in Char \cup {Blank},
         NEW s \in Seq(Char),
         \A x \in Columns : (IF x < Len(s) THEN s[x + 1] ELSE Blank) =
             IF x = x0 THEN c ELSE IF x < Len(Last(ls)) THEN Last(ls)[x + 1] ELSE Blank
  PROVE  Cells(terminal_putentryat(b, c, x0, r), r, [ls EXCEPT ![Len(ls)] = s])
<1> DEFINE m == [ls EXCEPT ![Len(ls)] = s]
           p == terminal_putentryat(b, c, x0, r)
<1>1. /\ m \in Text /\ Len(m) = Len(ls) /\ Last(m) = s
      /\ \A i \in 1 .. Len(ls) : i # Len(ls) => m[i] = ls[i]
  BY EditLast, Zenon
<1>2. \A x1 \in Columns, y1 \in Rows :
          p[Index(x1, y1)] = IF x1 = x0 /\ y1 = r THEN c ELSE b[Index(x1, y1)]
  BY PutCell
<1> HIDE DEF m, p
<1>3. VGA_HEIGHT \in Nat \ {0} /\ r \in Nat /\ r < VGA_HEIGHT /\ Len(ls) \in Nat
  BY Sizes DEF Rows, Text
<1>4. ASSUME NEW x \in Columns, NEW y \in Rows
      PROVE  p[Index(x, y)] = IF y <= r /\ x < Len(RowText(m, r, y))
                              THEN RowText(m, r, y)[x + 1] ELSE Blank
  <2>1. b[Index(x, y)] = IF y <= r /\ x < Len(RowText(ls, r, y))
                         THEN RowText(ls, r, y)[x + 1] ELSE Blank
    BY DEF Cells
  <2>2. y \in Nat
    BY DEF Rows
  <2>3. p[Index(x, y)] = IF x = x0 /\ y = r THEN c ELSE b[Index(x, y)]
    BY <1>2
  <2>4. CASE y = r
    <3>1. RowText(m, r, y) = s /\ RowText(ls, r, y) = Last(ls)
      BY <1>1, <1>3, <2>4 DEF RowText, Last
    <3>2. y <= r
      BY <1>3, <2>4
    <3>3. p[Index(x, y)] = IF x < Len(s) THEN s[x + 1] ELSE Blank
      BY <2>1, <2>3, <2>4, <3>1, <3>2
    <3> QED
      BY <3>1, <3>2, <3>3
  <2>5. CASE y # r /\ y <= r
    <3>1. Len(ls) - r + y \in 1 .. Len(ls) /\ Len(ls) - r + y # Len(ls)
      BY <1>3, <2>2, <2>5
    <3>2. RowText(m, r, y) = RowText(ls, r, y)
      BY <1>1, <3>1 DEF RowText
    <3> QED
      BY <2>1, <2>3, <2>5, <3>2
  <2>6. CASE y # r /\ ~(y <= r)
    BY <2>1, <2>3, <2>6
  <2> QED
    BY <2>4, <2>5, <2>6
<1> QED
  BY <1>4 DEF Cells, m, p

(***************************************************************************)
(* The parts of terminal_putchar                                           *)
(***************************************************************************)
\* Making room: the cursor is on the screen and the text is shown as before.
LEMMA ScrollShows ==
  ASSUME NEW t, NEW ls, OnScreen(t), Shows(t, ls)
  PROVE  /\ OnScreen(putchar_scroll(t)) /\ Shows(putchar_scroll(t), ls)
         /\ putchar_scroll(t).terminal_row < VGA_HEIGHT
<1> DEFINE b == t.terminal_buffer
           s == terminal_delete_last_line(terminal_scroll(b))
           u == [t EXCEPT !.terminal_buffer = s, !.terminal_row = VGA_HEIGHT - 1]
<1>1. /\ t \in [terminal_row : 0 .. VGA_HEIGHT, terminal_column : Columns, terminal_buffer : Buffers]
      /\ t.terminal_row = VGA_HEIGHT => t.terminal_column = 0
  BY DEF OnScreen
<1>2. VGA_HEIGHT \in Nat \ {0}
  BY Sizes
<1>3. CASE t.terminal_row = VGA_HEIGHT
  <2>1. putchar_scroll(t) = u
    BY <1>3 DEF putchar_scroll
  <2>2. /\ s \in Buffers
        /\ \A x \in Columns, y \in Rows :
               s[Index(x, y)] = IF y + 1 \in Rows THEN b[Index(x, y + 1)] ELSE Blank
    BY <1>1, ScrollCell
  <2> HIDE DEF s
  <2>3. u.terminal_row = VGA_HEIGHT - 1 /\ u.terminal_column = 0 /\ u.terminal_buffer = s
    BY <1>1, <1>3
  <2>4. u \in [terminal_row : 0 .. VGA_HEIGHT, terminal_column : Columns, terminal_buffer : Buffers]
    <3>1. VGA_HEIGHT - 1 \in 0 .. VGA_HEIGHT /\ s \in Buffers
      BY <1>2, <2>2
    <3> QED
      BY <1>1, <3>1
  <2> HIDE DEF u, b
  <2>5. /\ ls \in Text /\ Len(ls) \in 1 .. VGA_HEIGHT + 1 /\ VGA_HEIGHT < Len(ls)
        /\ Len(Last(ls)) = 0 /\ Cells(b, VGA_HEIGHT, ls)
    BY <1>1, <1>3 DEF Shows, b
  <2>6. Cells(s, VGA_HEIGHT - 1, ls)
    <3> SUFFICES ASSUME NEW x \in Columns, NEW y \in Rows
                 PROVE  s[Index(x, y)] =
                            IF y <= VGA_HEIGHT - 1 /\ x < Len(RowText(ls, VGA_HEIGHT - 1, y))
                            THEN RowText(ls, VGA_HEIGHT - 1, y)[x + 1] ELSE Blank
      BY DEF Cells
    <3>1. x \in Nat /\ y \in Nat /\ y <= VGA_HEIGHT - 1 /\ Len(ls) \in Nat
      BY <1>2, <2>5 DEF Columns, Rows
    <3>2. CASE y + 1 \in Rows
      <4>1. Len(ls) - VGA_HEIGHT + (y + 1) = Len(ls) - (VGA_HEIGHT - 1) + y
        BY <1>2, <3>1
      <4>2. RowText(ls, VGA_HEIGHT, y + 1) = RowText(ls, VGA_HEIGHT - 1, y)
        BY <4>1 DEF RowText
      <4>3. y + 1 <= VGA_HEIGHT
        BY <1>2, <3>1
      <4> QED
        BY <2>2, <2>5, <3>1, <3>2, <4>2, <4>3 DEF Cells
    <3>3. CASE y + 1 \notin Rows
      <4>1. y = VGA_HEIGHT - 1
        BY <1>2, <3>1, <3>3 DEF Rows
      <4>2. RowText(ls, VGA_HEIGHT - 1, y) = Last(ls)
        <5>1. Len(ls) - (VGA_HEIGHT - 1) + y = Len(ls)
          BY <1>2, <3>1, <4>1
        <5> QED
          BY <5>1 DEF RowText, Last
      <4> QED
        BY <2>2, <2>5, <3>1, <3>3, <4>2
    <3> QED
      BY <3>2, <3>3
  <2>7. VGA_HEIGHT - 1 < Len(ls) /\ VGA_HEIGHT - 1 # VGA_HEIGHT /\ VGA_HEIGHT - 1 < VGA_HEIGHT
    BY <1>2, <2>5
  <2> QED
    BY <2>1, <2>3, <2>4, <2>5, <2>6, <2>7 DEF OnScreen, Shows
<1>4. CASE t.terminal_row # VGA_HEIGHT
  <2>1. putchar_scroll(t) = t
    BY <1>4 DEF putchar_scroll
  <2>2. t.terminal_row < VGA_HEIGHT
    BY <1>1, <1>2, <1>4
  <2> QED
    BY <2>1, <2>2
<1> QED
  BY <1>3, <1>4

\* The cursor can be moved one on without overflow.
LEMMA StepOn ==
  ASSUME NEW n \in 0 .. Width - 2
  PROVE  (n + 1) % Width = n + 1
<1>1. n + 1 = Width * 0 + (n + 1) /\ n + 1 \in Int /\ n + 1 \in 0 .. Width - 1 /\ Width \in Nat \ {0}
  BY Sizes
<1> QED
  BY <1>1, DivUnique

\* The terminal after making room and before a character.
Ready(t, ls) == OnScreen(t) /\ Shows(t, ls) /\ t.terminal_row < VGA_HEIGHT

\* What Ready says of the parts of the terminal.
LEMMA ReadyParts ==
  ASSUME NEW t, NEW ls, Ready(t, ls)
  PROVE  /\ t \in [terminal_row : 0 .. VGA_HEIGHT, terminal_column : Columns, terminal_buffer : Buffers]
         /\ t.terminal_row \in Rows /\ t.terminal_column \in Columns /\ t.terminal_buffer \in Buffers
         /\ ls \in Text /\ Len(ls) \in 1 .. VGA_HEIGHT + 1 /\ t.terminal_row < Len(ls)
         /\ Last(ls) \in Seq(Char) /\ t.terminal_column = Len(Last(ls))
         /\ Cells(t.terminal_buffer, t.terminal_row, ls)
         /\ (t.terminal_row + 1) % Width = t.terminal_row + 1
         /\ (t.terminal_column + 1) % Width = t.terminal_column + 1
<1>1. /\ t \in [terminal_row : 0 .. VGA_HEIGHT, terminal_column : Columns, terminal_buffer : Buffers]
      /\ t.terminal_row < VGA_HEIGHT
  BY DEF Ready, OnScreen
<1>2. /\ ls \in Text /\ Len(ls) \in 1 .. VGA_HEIGHT + 1 /\ t.terminal_row < Len(ls)
      /\ t.terminal_column = Len(Last(ls))
      /\ Cells(t.terminal_buffer, t.terminal_row, ls)
  BY DEF Ready, Shows
<1>3. t.terminal_row \in Rows /\ t.terminal_column \in Columns /\ t.terminal_buffer \in Buffers
  BY <1>1, Sizes DEF Rows
<1>4. Last(ls) \in Seq(Char)
  <2>1. Len(ls) \in 1 .. Len(ls)
    BY <1>2, Sizes DEF Text
  <2> QED
    BY <1>2, <2>1 DEF Text, Last
<1>5. t.terminal_row \in 0 .. Width - 2 /\ t.terminal_column \in 0 .. Width - 2
  BY <1>3, Sizes DEF Rows, Columns
<1> QED
  BY <1>1, <1>2, <1>3, <1>4, <1>5, StepOn

\* Putting c goes well: on the screen, and the text with c is shown once wrapped.
GoesWell(t, ls, c) ==
    /\ OnScreen(putchar_wrap(putchar_put(t, c), c))
    /\ Shows(putchar_wrap(putchar_put(t, c), c), Write(ls, c))
    /\ putchar_put(t, c).terminal_row <= VGA_HEIGHT
    /\ putchar_put(t, c).terminal_column <= VGA_WIDTH
    /\ putchar_put(t, c).terminal_row = VGA_HEIGHT => putchar_put(t, c).terminal_column = 0
    /\ c = "newline" \/ PutAt(t, c) \in Cell

\* A newline only moves the cursor.
LEMMA PutNewline ==
  ASSUME NEW t, NEW ls, Ready(t, ls)
  PROVE  GoesWell(t, ls, "newline")
<1> DEFINE r == t.terminal_row
           k == Keep(Append(ls, << >>))
           u == [t EXCEPT !.terminal_column = 0, !.terminal_row = (@ + 1) % Width]
<1>1. putchar_put(t, "newline") = u /\ putchar_wrap(u, "newline") = u /\ Write(ls, "newline") = k
  BY DEF putchar_put, putchar_wrap, Write
<1>2. /\ t \in [terminal_row : 0 .. VGA_HEIGHT, terminal_column : Columns, terminal_buffer : Buffers]
      /\ r \in Rows /\ r < Len(ls) /\ (r + 1) % Width = r + 1
      /\ ls \in Text /\ Len(ls) \in 1 .. VGA_HEIGHT + 1
      /\ Cells(t.terminal_buffer, r, ls)
  BY ReadyParts
<1>3. /\ k \in Text /\ Len(k) \in 1 .. VGA_HEIGHT + 1 /\ k[Len(k)] = << >>
  BY <1>2, KeepNew
<1>4. r + 1 < Len(k) /\ Cells(t.terminal_buffer, r + 1, k)
  BY <1>2, NewLineCells
<1>5. r + 1 \in 0 .. VGA_HEIGHT /\ 0 \in Columns /\ 0 <= VGA_WIDTH
  BY <1>2, Sizes DEF Rows, Columns
<1> HIDE DEF k
<1>6. /\ u \in [terminal_row : 0 .. VGA_HEIGHT, terminal_column : Columns, terminal_buffer : Buffers]
      /\ u.terminal_row = r + 1 /\ u.terminal_column = 0 /\ u.terminal_buffer = t.terminal_buffer
  BY <1>2, <1>5
<1> HIDE DEF u, r
<1>7. OnScreen(u)
  BY <1>6 DEF OnScreen
<1>8. Shows(u, k)
  <2>1. Len(Last(k)) = 0
    BY <1>3 DEF Last
  <2> QED
    BY <1>3, <1>4, <1>6, <2>1 DEF Shows
<1>9. u.terminal_row <= VGA_HEIGHT /\ u.terminal_column <= VGA_WIDTH
  BY <1>5, <1>6, Sizes
<1> QED
  BY <1>1, <1>6, <1>7, <1>8, <1>9 DEF GoesWell

\* A backspace takes the last character of the line from the text and the screen.
LEMMA PutBackspace ==
  ASSUME NEW t, NEW ls, Ready(t, ls), t.terminal_column # 0
  PROVE  GoesWell(t, ls, "backspace")
<1> DEFINE r == t.terminal_row
           x0 == t.terminal_column - 1
           b == terminal_putentryat(t.terminal_buffer, Blank, x0, r)
           u == [t EXCEPT !.terminal_column = x0, !.terminal_buffer = b]
           s == SubSeq(Last(ls), 1, Len(Last(ls)) - 1)
           m == [ls EXCEPT ![Len(ls)] = s]
<1>2. /\ t \in [terminal_row : 0 .. VGA_HEIGHT, terminal_column : Columns, terminal_buffer : Buffers]
      /\ r \in Rows /\ r < Len(ls) /\ t.terminal_buffer \in Buffers /\ t.terminal_column \in Columns
      /\ ls \in Text /\ Len(ls) \in 1 .. VGA_HEIGHT + 1
      /\ Last(ls) \in Seq(Char) /\ t.terminal_column = Len(Last(ls))
      /\ Cells(t.terminal_buffer, r, ls)
  BY ReadyParts
<1>3. x0 \in Columns /\ x0 \in Nat /\ Len(Last(ls)) = x0 + 1
  BY <1>2, Sizes DEF Columns
<1>4. Write(ls, "backspace") = m
  <2>1. Last(ls) # << >>
    BY <1>2
  <2> QED
    BY <2>1 DEF Write, Last
<1>5. s \in Seq(Char) /\ Len(s) = x0 /\ \A i \in 1 .. x0 : s[i] = Last(ls)[i]
  BY <1>2, <1>3
<1>6. putchar_backspace(t) = u
  BY <1>2 DEF putchar_backspace
<1>7. putchar_put(t, "backspace") = u /\ putchar_wrap(u, "backspace") = u
  BY <1>6 DEF putchar_put, putchar_wrap
<1>8. b \in Buffers
  BY <1>2, <1>3, PutCell
<1> HIDE DEF x0, b, s
<1>9. /\ u \in [terminal_row : 0 .. VGA_HEIGHT, terminal_column : Columns, terminal_buffer : Buffers]
      /\ u.terminal_row = r /\ u.terminal_column = x0 /\ u.terminal_buffer = b
  BY <1>2, <1>3, <1>8
<1> HIDE DEF u, r
<1>10. m \in Text /\ Len(m) = Len(ls) /\ Last(m) = s
  BY <1>2, <1>5, EditLast
<1>11. Cells(b, r, m)
  <2>1. ASSUME NEW x \in Columns
        PROVE  (IF x < Len(s) THEN s[x + 1] ELSE Blank) =
                   IF x = x0 THEN Blank ELSE IF x < Len(Last(ls)) THEN Last(ls)[x + 1] ELSE Blank
    <3>1. x \in Nat
      BY DEF Columns
    <3>2. CASE x < x0
      <4>1. x + 1 \in 1 .. x0 /\ x # x0 /\ x < Len(Last(ls))
        BY <1>3, <3>1, <3>2
      <4> QED
        BY <1>5, <3>2, <4>1
    <3>3. CASE ~(x < x0)
      BY <1>3, <1>5, <3>1, <3>3
    <3> QED
      BY <3>2, <3>3
  <2>2. Blank \in Char \cup {Blank}
    OBVIOUS
  <2> QED
    BY <1>2, <1>3, <1>5, <2>1, <2>2, EditCells DEF b, r
<1> HIDE DEF m
<1>12. r # VGA_HEIGHT /\ r <= VGA_HEIGHT /\ x0 <= VGA_WIDTH
  BY <1>2, <1>3, Sizes DEF Rows, Columns
<1>13. OnScreen(u)
  BY <1>9, <1>12 DEF OnScreen
<1>14. Shows(u, m)
  BY <1>2, <1>5, <1>9, <1>10, <1>11 DEF Shows
<1>15. PutAt(t, "backspace") \in Cell
  BY <1>2, <1>3, <1>6, <1>9, IndexOf DEF PutAt
<1> QED
  BY <1>4, <1>7, <1>9, <1>12, <1>13, <1>14, <1>15 DEF GoesWell

\* Any other character is put at the cursor; at the end of the row a new line begins.
LEMMA PutGlyph ==
  ASSUME NEW t, NEW ls, NEW c \in Char, Ready(t, ls), c # "newline", c # "backspace"
  PROVE  GoesWell(t, ls, c)
<1> DEFINE r == t.terminal_row
           x0 == t.terminal_column
           b == terminal_putentryat(t.terminal_buffer, c, x0, r)
           u == [t EXCEPT !.terminal_buffer = b, !.terminal_column = (@ + 1) % Width]
           s == Append(Last(ls), c)
           m == [ls EXCEPT ![Len(ls)] = s]
           k == Keep(Append(m, << >>))
<1>2. /\ t \in [terminal_row : 0 .. VGA_HEIGHT, terminal_column : Columns, terminal_buffer : Buffers]
      /\ r \in Rows /\ r < Len(ls) /\ t.terminal_buffer \in Buffers /\ x0 \in Columns
      /\ ls \in Text /\ Len(ls) \in 1 .. VGA_HEIGHT + 1
      /\ Last(ls) \in Seq(Char) /\ x0 = Len(Last(ls))
      /\ Cells(t.terminal_buffer, r, ls)
      /\ (r + 1) % Width = r + 1 /\ (x0 + 1) % Width = x0 + 1
  BY ReadyParts
<1>3. x0 \in Nat /\ x0 < VGA_WIDTH /\ VGA_WIDTH \in Nat \ {0}
  BY <1>2, Sizes DEF Columns
<1>4. Write(ls, c) = IF Len(s) = VGA_WIDTH THEN k ELSE m
  BY DEF Write, Last
<1>5. s \in Seq(Char) /\ Len(s) = x0 + 1 /\ s[x0 + 1] = c /\ \A i \in 1 .. x0 : s[i] = Last(ls)[i]
  BY <1>2
<1>6. putchar_put(t, c) = u
  BY DEF putchar_put
<1>7. b \in Buffers /\ c \in Char \cup {Blank}
  BY <1>2, PutCell
<1>8. PutAt(t, c) \in Cell
  BY <1>2, IndexOf DEF PutAt
<1>9. Cells(b, r, m)
  <2>1. ASSUME NEW x \in Columns
        PROVE  (IF x < Len(s) THEN s[x + 1] ELSE Blank) =
                   IF x = x0 THEN c ELSE IF x < Len(Last(ls)) THEN Last(ls)[x + 1] ELSE Blank
    <3> HIDE DEF s
    <3>1. x \in Nat
      BY DEF Columns
    <3>2. CASE x < x0
      <4>1. x + 1 \in 1 .. x0 /\ x # x0 /\ x < Len(Last(ls)) /\ x < Len(s)
        BY <1>2, <1>3, <1>5, <3>1, <3>2
      <4> QED
        BY <1>5, <4>1
    <3>3. CASE x = x0
      BY <1>3, <1>5, <3>3
    <3>4. CASE x > x0
      BY <1>2, <1>3, <1>5, <3>1, <3>4
    <3> QED
      BY <1>3, <3>1, <3>2, <3>3, <3>4
  <2> HIDE DEF s
  <2> QED
    BY <1>2, <1>5, <1>7, <2>1, EditCells
<1> HIDE DEF s
<1>10. m \in Text /\ Len(m) = Len(ls) /\ Last(m) = s
  BY <1>2, <1>5, EditLast
<1> HIDE DEF b, m
<1>11. /\ u.terminal_row = r /\ u.terminal_column = x0 + 1 /\ u.terminal_buffer = b
       /\ r <= VGA_HEIGHT /\ r # VGA_HEIGHT /\ x0 + 1 <= VGA_WIDTH
       /\ VGA_WIDTH \in Nat /\ VGA_HEIGHT \in Nat
  <2>1. u.terminal_row = r /\ u.terminal_column = x0 + 1 /\ u.terminal_buffer = b
    BY <1>2
  <2> HIDE DEF u, r, x0
  <2>2. VGA_WIDTH \in Nat /\ VGA_HEIGHT \in Nat
    BY Sizes
  <2>3. r <= VGA_HEIGHT /\ r # VGA_HEIGHT /\ x0 + 1 <= VGA_WIDTH
    BY <1>2, <1>3, <2>2 DEF Rows
  <2> QED
    BY <2>1, <2>2, <2>3
<1>12. CASE x0 + 1 = VGA_WIDTH
  <2> DEFINE w == [u EXCEPT !.terminal_column = 0, !.terminal_row = (@ + 1) % Width]
  <2>1. putchar_wrap(u, c) = w
    BY <1>11, <1>12 DEF putchar_wrap
  <2>2. Write(ls, c) = k
    BY <1>4, <1>5, <1>12
  <2>3. k \in Text /\ Len(k) \in 1 .. VGA_HEIGHT + 1 /\ k[Len(k)] = << >>
    BY <1>2, <1>10, KeepNew
  <2>4. r + 1 < Len(k) /\ Cells(b, r + 1, k)
    BY <1>2, <1>9, <1>10, NewLineCells
  <2> HIDE DEF k
  <2>5. r + 1 \in 0 .. VGA_HEIGHT /\ 0 \in Columns
    <3>1. r \in Rows
      BY <1>2
    <3> HIDE DEF r
    <3> QED
      BY <3>1, Sizes DEF Rows, Columns
  <2>6. /\ w \in [terminal_row : 0 .. VGA_HEIGHT, terminal_column : Columns, terminal_buffer : Buffers]
        /\ w.terminal_row = r + 1 /\ w.terminal_column = 0 /\ w.terminal_buffer = b
    <3>1. u \in [terminal_row : 0 .. VGA_HEIGHT, terminal_column : Nat, terminal_buffer : Buffers]
      <4>1. (t.terminal_column + 1) % Width \in Nat
        BY <1>2, <1>3
      <4> QED
        BY <1>2, <1>7, <4>1
    <3> HIDE DEF u, r, x0
    <3>2. (u.terminal_row + 1) % Width = r + 1
      BY <1>2, <1>11
    <3> QED
      BY <1>11, <2>5, <3>1, <3>2
  <2> HIDE DEF w, u, r, x0
  <2>7. OnScreen(w)
    BY <2>6 DEF OnScreen
  <2>8. Shows(w, k)
    <3>1. Len(Last(k)) = 0
      BY <2>3 DEF Last
    <3> QED
      BY <2>3, <2>4, <2>6, <3>1 DEF Shows
  <2> QED
    BY <1>6, <1>8, <1>11, <2>1, <2>2, <2>7, <2>8 DEF GoesWell
<1>13. CASE x0 + 1 # VGA_WIDTH
  <2>1. putchar_wrap(u, c) = u
    BY <1>11, <1>13 DEF putchar_wrap
  <2>2. Write(ls, c) = m
    BY <1>4, <1>5, <1>13
  <2>3. x0 + 1 \in Columns /\ r \in 0 .. VGA_HEIGHT
    BY <1>2, <1>3, <1>11, <1>13 DEF Columns
  <2>4. u \in [terminal_row : 0 .. VGA_HEIGHT, terminal_column : Columns, terminal_buffer : Buffers]
    BY <1>2, <1>7, <2>3
  <2> HIDE DEF u, r, x0
  <2>5. OnScreen(u)
    BY <1>11, <2>4 DEF OnScreen
  <2>6. Shows(u, m)
    BY <1>2, <1>5, <1>9, <1>10, <1>11 DEF Shows
  <2> QED
    BY <1>6, <1>8, <1>11, <2>1, <2>2, <2>5, <2>6 DEF GoesWell
<1> QED
  BY <1>12, <1>13

\* Any character, but for a backspace at the start of a line.
LEMMA PutShows ==
  ASSUME NEW t, NEW ls, NEW c \in Char, Ready(t, ls), ~(c = "backspace" /\ t.terminal_column = 0)
  PROVE  GoesWell(t, ls, c)
BY PutNewline, PutBackspace, PutGlyph

(***************************************************************************)
(* The invariant                                                           *)
(***************************************************************************)
LEMMA InitHolds == Init => IInv
<1> SUFFICES ASSUME Init PROVE IInv
  OBVIOUS
<1> USE DEF Init, tty_init, keyboard_init
<1>1. PlaceInv
  BY DEF PlaceInv
<1>2. KeyInv
  <2>1. \A codes : ~EndsOn(queue, codes, FALSE)
    BY DEF EndsOn
  <2>2. queue \in Seq(Byte)
    OBVIOUS
  <2> QED
    <3>1. \A f \in Flag : Pressed[f] = FALSE
      BY DEF Pressed, Flag
    <3>2. \A f \in Flag : Held(f, FALSE)
      BY <2>1 DEF Held
    <3> QED
      BY <2>2, <3>1, <3>2 DEF KeyInv
<1>3. ScreenInv
  <2>1. VGA_WIDTH \in Nat \ {0} /\ VGA_HEIGHT \in Nat \ {0}
    BY Sizes
  <2>2. 0 \in 0 .. VGA_HEIGHT /\ 0 \in Columns /\ 0 # VGA_HEIGHT
    BY <2>1 DEF Columns
  <2>3. tty.terminal_buffer \in Buffers /\ tty.terminal_row = 0 /\ tty.terminal_column = 0
    BY DEF Buffers
  <2>4. OnScreen(tty)
    BY <2>2, <2>3 DEF OnScreen, Buffers
  <2>5. lines \in Text /\ Len(lines) = 1 /\ Last(lines) = << >>
    BY DEF Text, Last
  <2>6. Cells(tty.terminal_buffer, 0, lines)
    <3> SUFFICES ASSUME NEW x \in Columns, NEW y \in Rows
                 PROVE  tty.terminal_buffer[Index(x, y)] =
                            IF y <= 0 /\ x < Len(RowText(lines, 0, y))
                            THEN RowText(lines, 0, y)[x + 1] ELSE Blank
      BY DEF Cells
    <3>1. tty.terminal_buffer[Index(x, y)] = Blank
      BY IndexOf
    <3>2. x \in Nat /\ y \in Nat
      BY DEF Columns, Rows
    <3>3. y <= 0 => RowText(lines, 0, y) = << >>
      BY <2>5, <3>2 DEF RowText
    <3> QED
      BY <3>1, <3>2, <3>3
  <2>7. Shows(tty, lines)
    <3>1. 1 \in 1 .. VGA_HEIGHT + 1 /\ 0 < Len(lines) /\ Len(Last(lines)) = 0
      BY <2>1, <2>5
    <3> QED
      BY <2>3, <2>5, <2>6, <3>1 DEF Shows
  <2> QED
    BY <2>4, <2>7 DEF ScreenInv
<1> QED
  BY <1>1, <1>2, <1>3 DEF IInv

\* A key's character.
LEMMA KeyChar ==
  ASSUME NEW k \in Scancode, k \notin Modifier
  PROVE  lowercase[k] \in Char /\ uppercase[k] \in Char
<1>1. k \in {"SC_A", "SC_F1", "SC_E0", "SC_ENTER", "SC_BACKSPACE"}
  BY DEF Scancode, Modifier
<1> QED
  BY <1>1 DEF lowercase, uppercase, Char

\* No step leaves the task without a place and, while it prints, a character.
LEMMA PlaceStep == PlaceInv /\ [Next]_vars => PlaceInv'
<1> SUFFICES ASSUME PlaceInv, [Next]_vars PROVE PlaceInv'
  OBVIOUS
<1>1. CASE User
  BY <1>1 DEF User, Press, Release, Send, PlaceInv
<1>2. CASE irq_1_handler
  BY <1>2 DEF irq_1_handler, PlaceInv
<1>3. ASSUME NEW c \in Prints, terminal_write(c) PROVE PlaceInv'
  BY <1>3, KeyAssumption DEF terminal_write, PlaceInv
<1>4. CASE write_scroll
  BY <1>4 DEF write_scroll, PlaceInv
<1>5. CASE write_put
  BY <1>5 DEF write_put, PlaceInv
<1>6. CASE write_wrap
  BY <1>6 DEF write_wrap, PlaceInv
<1>7. CASE UNCHANGED vars
  BY <1>7 DEF vars, PlaceInv
<1> QED
  BY <1>1, <1>2, <1>3, <1>4, <1>5, <1>6, <1>7 DEF Next, Task

\* The code of a key, after its prefix if it has one.
CodeOf(key) == IF key \in DOMAIN Extended THEN Extended[key] ELSE key

\* What a key sends are bytes; the last one has its code, and a prefix is no modifier.
LEMMA BytesOf ==
  ASSUME NEW key \in Keys, NEW up \in BOOLEAN
  PROVE  LET s == Bytes(key, up) IN
         /\ s \in Seq(Byte) /\ Len(s) \in {1, 2}
         /\ s[Len(s)].scancode = CodeOf(key) /\ s[Len(s)].up = up
         /\ Len(s) = 2 => s[1].scancode = "SC_E0"
<1>1. CASE key \in DOMAIN Extended
  <2> DEFINE x == [scancode |-> "SC_E0", up |-> TRUE]
             y == [scancode |-> Extended[key], up |-> up]
  <2>1. Extended[key] \in Scancode
    BY <1>1 DEF Extended, Scancode
  <2>2. x \in Byte /\ y \in Byte /\ x.scancode = "SC_E0" /\ y.scancode = Extended[key] /\ y.up = up
    BY <2>1 DEF Byte, Scancode
  <2>3. Bytes(key, up) = <<x, y>> /\ CodeOf(key) = Extended[key]
    BY <1>1 DEF Bytes, CodeOf
  <2> HIDE DEF x, y
  <2> QED
    BY <2>2, <2>3
<1>2. CASE key \notin DOMAIN Extended
  <2> DEFINE y == [scancode |-> key, up |-> up]
  <2>1. y \in Byte /\ y.scancode = key /\ y.up = up
    BY <1>2, KeyAssumption DEF Byte
  <2>2. Bytes(key, up) = <<y>> /\ CodeOf(key) = key
    BY <1>2 DEF Bytes, CodeOf
  <2> HIDE DEF y
  <2> QED
    BY <2>1, <2>2
<1> QED
  BY <1>1, <1>2

\* A key decides the flag of its code and leaves the others to the bytes before.
LEMMA SendEnds ==
  ASSUME NEW q \in Seq(Byte), NEW key \in Keys, NEW up \in BOOLEAN,
         NEW codes, "SC_E0" \notin codes, NEW flag \in BOOLEAN,
         EndsOn(q \o Bytes(key, up), codes, flag)
  PROVE  IF CodeOf(key) \in codes THEN ~up ELSE EndsOn(q, codes, flag)
<1> DEFINE s == Bytes(key, up)
           t == q \o s
           n == Len(q)
           m == Len(s)
<1>1. /\ s \in Seq(Byte) /\ m \in {1, 2}
      /\ s[m].scancode = CodeOf(key) /\ s[m].up = up
      /\ m = 2 => s[1].scancode = "SC_E0"
  BY BytesOf
<1> HIDE DEF s
<1>2. /\ n \in Nat /\ Len(t) = n + m
      /\ \A i \in 1 .. n : t[i] = q[i]
      /\ \A i \in 1 .. m : t[n + i] = s[i]
  BY <1>1
<1>3. EndsOn(t, codes, flag)
  BY DEF s
<1> HIDE DEF t, n, m
<1>4. n + m \in 1 .. n + m /\ t[n + m] = s[m] /\ n + m \in Nat
  BY <1>1, <1>2
<1>5. \A i \in 1 .. n + m : i > n /\ i < n + m => t[i].scancode \notin codes
  <2> SUFFICES ASSUME NEW i \in 1 .. n + m, i > n, i < n + m PROVE t[i].scancode \notin codes
    OBVIOUS
  <2>1. m = 2 /\ i = n + 1 /\ 1 \in 1 .. m
    BY <1>1, <1>2
  <2> QED
    BY <2>1, <1>1, <1>2
<1>6. CASE CodeOf(key) \in codes
  <2>1. PICK i \in 1 .. n + m : /\ t[i].scancode \in codes /\ ~t[i].up
                               /\ \A j \in i + 1 .. n + m : t[j].scancode \notin codes
    BY <1>1, <1>2, <1>3, <1>4, <1>6 DEF EndsOn
  <2>2. ~(i < n + m)
    BY <2>1, <1>1, <1>4, <1>6
  <2>3. i = n + m
    BY <2>2, <1>4
  <2> QED
    BY <2>1, <2>3, <1>1, <1>4, <1>6
<1>7. CASE CodeOf(key) \notin codes
  <2>1. \A i \in 1 .. n + m : i > n => t[i].scancode \notin codes
    BY <1>1, <1>4, <1>5, <1>7
  <2>2. CASE flag /\ \A i \in 1 .. n + m : t[i].scancode \notin codes
    <3>1. \A i \in 1 .. n : i \in 1 .. n + m /\ t[i] = q[i]
      BY <1>1, <1>2
    <3> QED
      BY <3>1, <2>2, <1>7 DEF EndsOn, n
  <2>3. CASE \E i \in 1 .. n + m : /\ t[i].scancode \in codes /\ ~t[i].up
                                   /\ \A j \in i + 1 .. n + m : t[j].scancode \notin codes
    <3>1. PICK i \in 1 .. n + m : /\ t[i].scancode \in codes /\ ~t[i].up
                                 /\ \A j \in i + 1 .. n + m : t[j].scancode \notin codes
      BY <2>3
    <3>2. i \in 1 .. n /\ t[i] = q[i]
      BY <3>1, <2>1, <1>1, <1>2
    <3>3. \A j \in i + 1 .. n : j \in i + 1 .. n + m /\ t[j] = q[j]
      BY <3>2, <1>1, <1>2
    <3> QED
      BY <3>1, <3>2, <3>3, <1>7 DEF EndsOn, n
  <2> QED
    BY <2>2, <2>3, <1>2, <1>3 DEF EndsOn
<1> QED
  BY <1>6, <1>7

\* Taking the first k bytes leaves what the flag will be in the end, if it is now what
\* the last of them says, or none of them was about it.
LEMMA TakeEnds ==
  ASSUME NEW q \in Seq(Byte), NEW k \in 1 .. Len(q), NEW codes, NEW flag, NEW on \in BOOLEAN,
         EndsOn(SubSeq(q, k + 1, Len(q)), codes, on),
         on => \/ q[k].scancode \in codes /\ ~q[k].up
               \/ flag /\ \A i \in 1 .. k : q[i].scancode \notin codes
  PROVE  EndsOn(q, codes, flag)
<1> DEFINE n == Len(q)
           t == SubSeq(q, k + 1, n)
<1>1. n \in Nat /\ k \in 1 .. n /\ Len(t) = n - k /\ \A i \in 1 .. n - k : t[i] = q[i + k]
  <2>1. n \in Nat /\ k \in 1 .. n
    OBVIOUS
  <2>2. k + 1 \in Int /\ n \in Int /\ \A i \in k + 1 .. n : q[i] \in Byte
    BY <2>1
  <2> HIDE DEF n
  <2>3. /\ Len(t) = IF k + 1 <= n THEN n - (k + 1) + 1 ELSE 0
        /\ \A i \in 1 .. n - (k + 1) + 1 : t[i] = q[k + 1 + i - 1]
    BY <2>2, SubSeqProperties
  <2>4. /\ n - (k + 1) + 1 = n - k /\ (~(k + 1 <= n) => n - k = 0)
        /\ \A i \in 1 .. n - k : k + 1 + i - 1 = i + k
    BY <2>1
  <2> QED
    BY <2>1, <2>3, <2>4
<1>2. EndsOn(t, codes, on)
  OBVIOUS
<1> HIDE DEF t
<1>3. CASE on /\ \A i \in 1 .. n - k : t[i].scancode \notin codes
  <2>1. \A j \in k + 1 .. n : q[j].scancode \notin codes
    <3> SUFFICES ASSUME NEW j \in k + 1 .. n PROVE q[j].scancode \notin codes
      OBVIOUS
    <3>1. j - k \in 1 .. n - k /\ (j - k) + k = j
      BY <1>1
    <3> QED
      BY <3>1, <1>1, <1>3
  <2>2. \A j \in 1 .. n : j \in 1 .. k \/ j \in k + 1 .. n
    BY <1>1
  <2>3. CASE q[k].scancode \in codes /\ ~q[k].up
    BY <2>1, <2>3, <1>1 DEF EndsOn
  <2>4. CASE flag /\ \A i \in 1 .. k : q[i].scancode \notin codes
    BY <2>1, <2>2, <2>4 DEF EndsOn
  <2> QED
    BY <1>3, <2>3, <2>4
<1>4. CASE \E i \in 1 .. n - k : /\ t[i].scancode \in codes /\ ~t[i].up
                                 /\ \A j \in i + 1 .. n - k : t[j].scancode \notin codes
  <2>1. PICK i \in 1 .. n - k : /\ t[i].scancode \in codes /\ ~t[i].up
                               /\ \A j \in i + 1 .. n - k : t[j].scancode \notin codes
    BY <1>4
  <2>2. i + k \in 1 .. n /\ t[i] = q[i + k]
    BY <2>1, <1>1
  <2>3. \A j \in (i + k) + 1 .. n : q[j].scancode \notin codes
    <3> SUFFICES ASSUME NEW j \in (i + k) + 1 .. n PROVE q[j].scancode \notin codes
      OBVIOUS
    <3>1. j - k \in i + 1 .. n - k /\ j - k \in 1 .. n - k /\ (j - k) + k = j
      BY <1>1
    <3> QED
      BY <3>1, <2>1, <1>1
  <2> QED
    BY <2>1, <2>2, <2>3 DEF EndsOn
<1> QED
  BY <1>1, <1>2, <1>3, <1>4 DEF EndsOn

\* The keys of a flag are those with one of its codes.
LEMMA FlagKeys ==
  ASSUME NEW f \in Flag
  PROVE  /\ "SC_E0" \notin Codes[f]
         /\ \A key \in Keys : key \in KeysOf[f] <=> CodeOf(key) \in Codes[f]
  BY KeyAssumption DEF CodeOf, Extended, Scancode, Codes, KeysOf, Flag

\* Every step leaves a flag that will be on with a key that is down.
LEMMA KeyStep == KeyInv /\ [Next]_vars => KeyInv'
<1> SUFFICES ASSUME KeyInv, [Next]_vars PROVE KeyInv'
  OBVIOUS
<1>1. queue \in Seq(Byte) /\ stale \in Byte \cup {NONE}
  BY DEF KeyInv
<1>2. ASSUME NEW key \in Keys, NEW up \in BOOLEAN, Send(Bytes(key, up)),
             down' = IF up THEN down \ {key} ELSE down \cup {key}
      PROVE  KeyInv'
  <2>1. /\ queue' = queue \o Bytes(key, up) /\ stale' = NONE /\ doubt' = doubt
        /\ Pressed' = Pressed
    BY <1>2 DEF Send, modifiers, Pressed
  <2>2. queue' \in Seq(Byte)
    <3>1. Bytes(key, up) \in Seq(Byte)
      BY BytesOf
    <3> QED
      BY <1>1, <2>1, <3>1
  <2>3. ASSUME NEW f \in Flag, NEW flag \in BOOLEAN, Held(f, flag), EndsOn(queue', Codes[f], flag)
        PROVE  KeysOf[f] \cap down' # {}
    <3>1. IF CodeOf(key) \in Codes[f] THEN ~up ELSE EndsOn(queue, Codes[f], flag)
      BY <1>1, <2>1, <2>3, FlagKeys, SendEnds
    <3>2. CASE key \in KeysOf[f]
      BY <1>2, <3>1, <3>2, FlagKeys
    <3>3. CASE key \notin KeysOf[f]
      BY <1>2, <2>3, <3>1, <3>3, FlagKeys DEF Held
    <3> QED
      BY <3>2, <3>3
  <2>4. ASSUME NEW f \in Flag
        PROVE  /\ Pressed'[f] \in BOOLEAN
               /\ Held(f, FALSE)'
               /\ f \notin doubt' => Held(f, Pressed[f])'
    <3>1. Pressed'[f] \in BOOLEAN
      BY <2>1 DEF KeyInv
    <3>2. Held(f, FALSE)'
      BY <2>3 DEF KeyInv, Held
    <3>3. f \notin doubt' => Held(f, Pressed[f])'
      BY <2>1, <2>3 DEF KeyInv, Held
    <3> QED
      BY <3>1, <3>2, <3>3
  <2> QED
    BY <2>1, <2>2, <2>4 DEF KeyInv
<1>3. CASE User
  BY <1>2, <1>3 DEF User, Press, Release
<1>4. CASE irq_1_handler
  <2> DEFINE first == IF queue = << >> THEN stale ELSE queue[1]
  <2>1. PICK prompt \in {FALSE, Len(queue) > 1} :
          LET second == IF prompt THEN queue[2] ELSE first
          IN  /\ first # NONE
              /\ update_modifier_keys_state(first.scancode, second.up)
              /\ queue' = SubSeq(queue, IF prompt THEN 3 ELSE 2, Len(queue))
              /\ stale' = IF prompt /\ Len(queue) = 2 THEN second ELSE NONE
              /\ doubt' = {f \in Flag : Doubtful(f, first.scancode, second.scancode)}
              /\ down' = down
    BY <1>4 DEF irq_1_handler
  <2> DEFINE second == IF prompt THEN queue[2] ELSE first
  <2>2. /\ first \in Byte /\ second \in Byte /\ queue' \in Seq(Byte)
        /\ prompt => Len(queue) > 1
    <3>1. /\ Len(queue) \in Nat /\ (queue # << >> => queue[1] \in Byte)
          /\ Len(queue) > 1 => queue[2] \in Byte
      BY <1>1
    <3>2. /\ SubSeq(queue, 2, Len(queue)) \in Seq(Byte)
          /\ SubSeq(queue, 3, Len(queue)) \in Seq(Byte)
      BY <1>1
    <3> QED
      BY <1>1, <2>1, <3>1, <3>2
  <2>3. stale' \in Byte \cup {NONE} /\ first.up \in BOOLEAN /\ second.up \in BOOLEAN
    BY <2>1, <2>2 DEF Byte
  <2>4. ASSUME NEW f \in Flag
        PROVE  /\ Pressed'[f] = IF first.scancode \in Codes[f] THEN ~second.up ELSE Pressed[f]
               /\ f \in doubt' <=> Doubtful(f, first.scancode, second.scancode)
    BY <2>1 DEF update_modifier_keys_state, Pressed, Codes, Flag
  <2>5. ASSUME queue = << >>, NEW f \in Flag
        PROVE  /\ Held(f, FALSE)'
               /\ f \notin doubt' => Held(f, Pressed[f])'
               /\ stale' = NONE
    <3>1. /\ ~prompt /\ second = first /\ stale' = NONE /\ first = stale /\ stale # NONE
          /\ queue' = queue /\ down' = down
      BY <2>1, <2>2, <2>5
    <3>2. Held(f, FALSE)'
      BY <3>1 DEF KeyInv, Held
    <3>3. CASE stale.scancode \in Codes[f]
      <4>1. Pressed'[f] => KeysOf[f] \cap down' # {}
        BY <2>4, <3>1, <3>3 DEF KeyInv
      <4>2. EndsOn(queue', Codes[f], Pressed'[f]) => Pressed'[f]
        BY <2>5, <3>1 DEF EndsOn
      <4> QED
        BY <3>1, <3>2, <4>1, <4>2 DEF Held
    <3>4. CASE stale.scancode \notin Codes[f]
      <4>1. Pressed'[f] = Pressed[f] /\ (f \in doubt' <=> f \in doubt)
        BY <2>4, <3>1, <3>4 DEF Doubtful
      <4> QED
        BY <3>1, <3>2, <4>1 DEF KeyInv, Held
    <3> QED
      BY <3>3, <3>4
  <2>6. ASSUME queue # << >>, NEW f \in Flag
        PROVE  /\ Held(f, FALSE)'
               /\ f \notin doubt' => Held(f, Pressed[f])'
               /\ (stale # NONE /\ stale.scancode \in Codes[f] /\ ~stale.up
                    => KeysOf[f] \cap down # {})'
    <3> DEFINE k == IF prompt THEN 2 ELSE 1
    <3>1. /\ k \in 1 .. Len(queue) /\ first = queue[1] /\ second = queue[k]
          /\ queue' = SubSeq(queue, k + 1, Len(queue))
      <4>1. Len(queue) \in Nat /\ Len(queue) >= 1
        BY <1>1, <2>6
      <4> QED
        BY <2>1, <2>2, <2>6, <4>1
    <3>2. \A i \in 1 .. k : i = 1 \/ i = k
      OBVIOUS
    <3>3. stale' = NONE \/ (stale' = queue[k] /\ k = Len(queue))
      BY <2>1, <3>1
    <3> HIDE DEF k, first, second
    <3>4. ASSUME NEW flag \in BOOLEAN, NEW on \in BOOLEAN, Held(f, flag),
                 EndsOn(queue', Codes[f], on),
                 on => \/ queue[k].scancode \in Codes[f] /\ ~queue[k].up
                       \/ flag /\ \A i \in 1 .. k : queue[i].scancode \notin Codes[f]
          PROVE  KeysOf[f] \cap down' # {}
      <4>1. EndsOn(queue, Codes[f], flag)
        BY <1>1, <3>1, <3>4, TakeEnds
      <4> QED
        BY <2>1, <3>4, <4>1 DEF Held
    <3>5. Held(f, FALSE)'
      BY <3>4 DEF KeyInv, Held
    <3>6. f \notin doubt' => Held(f, Pressed[f])'
      <4> SUFFICES ASSUME f \notin doubt', EndsOn(queue', Codes[f], Pressed'[f])
                   PROVE  KeysOf[f] \cap down' # {}
        BY DEF Held
      <4>1. CASE first.scancode \in Codes[f]
        <5>1. queue[k].scancode \in Codes[f] /\ Pressed'[f] = ~queue[k].up
          BY <2>4, <3>1, <4>1 DEF Doubtful
        <5>2. Held(f, FALSE) /\ Pressed'[f] \in BOOLEAN
          BY <5>1 DEF KeyInv
        <5> QED
          BY <3>4, <5>1, <5>2
      <4>2. CASE first.scancode \notin Codes[f]
        <5>1. /\ queue[k].scancode \notin Codes[f] /\ f \notin doubt
              /\ Pressed'[f] = Pressed[f]
          BY <2>4, <3>1, <4>2 DEF Doubtful
        <5>2. \A i \in 1 .. k : queue[i].scancode \notin Codes[f]
          BY <3>1, <3>2, <4>2, <5>1
        <5>3. Held(f, Pressed[f]) /\ Pressed[f] \in BOOLEAN
          BY <5>1 DEF KeyInv
        <5> QED
          BY <3>4, <5>1, <5>2, <5>3
      <4> QED
        BY <4>1, <4>2
    <3>7. ASSUME stale' # NONE, stale'.scancode \in Codes[f], ~stale'.up
          PROVE  KeysOf[f] \cap down' # {}
      <4>1. /\ Len(queue) \in 1 .. Len(queue) /\ queue[Len(queue)].scancode \in Codes[f]
            /\ ~queue[Len(queue)].up /\ Len(queue) \in Nat
        BY <1>1, <3>1, <3>3, <3>7
      <4>2. EndsOn(queue, Codes[f], FALSE)
        BY <4>1 DEF EndsOn
      <4> QED
        BY <2>1, <4>2 DEF KeyInv, Held
    <3> QED
      BY <3>5, <3>6, <3>7
  <2>7. ASSUME NEW f \in Flag PROVE Pressed'[f] \in BOOLEAN
    BY <2>3, <2>4 DEF KeyInv
  <2> QED
    BY <2>2, <2>3, <2>5, <2>6, <2>7 DEF KeyInv
<1>5. ASSUME UNCHANGED <<modifiers, down, keyboard>> PROVE KeyInv'
  BY <1>5 DEF KeyInv, Held, EndsOn, modifiers, keyboard, Pressed
<1>6. CASE Task \/ UNCHANGED vars
  BY <1>5, <1>6 DEF Task, terminal_write, write_scroll, write_put, write_wrap, vars
<1> QED
  BY <1>3, <1>4, <1>6 DEF Next

\* With output masked no key is echoed between two parts of a task's character, and
\* every part leaves the screen as ScreenInv says.
LEMMA ScreenStep ==
  ASSUME MaskedOutput
  PROVE  PlaceInv /\ KeyInv /\ ScreenInv /\ [Next]_vars => ScreenInv'
<1> SUFFICES ASSUME PlaceInv, KeyInv, ScreenInv, [Next]_vars PROVE ScreenInv'
  OBVIOUS
<1>1. ASSUME UNCHANGED <<tty, pc, ch, history>> PROVE ScreenInv'
  BY <1>1 DEF ScreenInv, OnScreen, Shows, history, Last, Cells, RowText, Columns, Rows, Buffers,
              Index, Cell, Text, putchar_wrap
<1>2. CASE User \/ UNCHANGED vars
  BY <1>1, <1>2 DEF User, Press, Release, Send, vars
<1>3. CASE irq_1_handler
  <2> DEFINE first == IF queue = << >> THEN stale ELSE queue[1]
  <2>1. /\ first # NONE /\ pc = "idle" /\ UNCHANGED <<pc, ch>>
        /\ IF first.scancode \in Modifier
           THEN UNCHANGED <<tty, history>>
           ELSE log_key_press(first.scancode)
    BY <1>3 DEF irq_1_handler
  <2>2. CASE first.scancode \in Modifier
    BY <1>1, <2>1, <2>2
  <2>3. CASE first.scancode \notin Modifier
    <3> DEFINE c == IF SHIFT_pressed THEN uppercase[first.scancode] ELSE lowercase[first.scancode]
               u == putchar_scroll(tty)
    <3>1. c \in Char
      <4>1. queue # << >> => queue[1] \in Byte
        BY DEF KeyInv
      <4>2. first \in Byte
        BY <2>1, <4>1 DEF KeyInv
      <4>3. first.scancode \in Scancode
        BY <4>2 DEF Byte
      <4> QED
        BY <2>3, <4>3, KeyChar
    <3>2. tty' = putchar_wrap(putchar_put(u, c), c) /\ Record(u, c)
      BY <2>1, <2>3 DEF log_key_press, terminal_putchar
    <3> HIDE DEF c, u
    <3> SUFFICES ASSUME ~crossed' PROVE ScreenInv'
      BY DEF ScreenInv
    <3>3. ~crossed /\ ~(c = "backspace" /\ u.terminal_column = 0)
      BY <3>2 DEF Record
    <3>4. Ready(u, lines)
      BY <2>1, <3>3, ScrollShows DEF ScreenInv, Ready, u
    <3>5. GoesWell(u, lines, c)
      BY <3>1, <3>3, <3>4, PutShows
    <3>6. OnScreen(tty') /\ Shows(tty', lines') /\ ~stray'
      BY <3>2, <3>3, <3>5 DEF GoesWell, Record, ScreenInv
    <3>7. pc' = "idle"
      BY <2>1
    <3> QED
      BY <3>6, <3>7 DEF ScreenInv
  <2> QED
    BY <2>2, <2>3
<1>4. ASSUME NEW c \in Prints, terminal_write(c) PROVE ScreenInv'
  <2>1. pc = "idle" /\ pc' = "scroll" /\ tty' = tty /\ lines' = lines /\ stray' = stray
        /\ crossed' = crossed
    BY <1>4 DEF terminal_write, history
  <2>2. ~crossed => ~stray /\ OnScreen(tty') /\ Shows(tty', lines')
    BY <2>1 DEF ScreenInv
  <2> QED
    BY <2>1, <2>2 DEF ScreenInv
<1>5. CASE write_scroll
  <2>1. /\ pc = "scroll" /\ pc' = "put" /\ tty' = putchar_scroll(tty)
        /\ lines' = lines /\ stray' = stray /\ crossed' = crossed
    BY <1>5 DEF write_scroll, history
  <2>2. ~crossed => /\ ~stray /\ OnScreen(tty') /\ Shows(tty', lines')
                    /\ tty'.terminal_row < VGA_HEIGHT
    BY <2>1, ScrollShows DEF ScreenInv
  <2> QED
    BY <2>1, <2>2 DEF ScreenInv
<1>6. CASE write_put
  <2>1. pc = "put" /\ pc' = "wrap" /\ tty' = putchar_put(tty, ch) /\ Record(tty, ch) /\ ch' = ch
    BY <1>6 DEF write_put
  <2> SUFFICES ASSUME ~crossed' PROVE ScreenInv'
    BY DEF ScreenInv
  <2>2. ~crossed /\ ~(ch = "backspace" /\ tty.terminal_column = 0)
    BY <2>1 DEF Record
  <2>3. Ready(tty, lines) /\ ch \in Char
    BY <2>1, <2>2 DEF ScreenInv, Ready, PlaceInv
  <2>4. GoesWell(tty, lines, ch)
    BY <2>2, <2>3, PutShows
  <2>5. /\ OnScreen(putchar_wrap(tty', ch')) /\ Shows(putchar_wrap(tty', ch'), lines')
        /\ tty'.terminal_row <= VGA_HEIGHT /\ tty'.terminal_column <= VGA_WIDTH
        /\ tty'.terminal_row = VGA_HEIGHT => tty'.terminal_column = 0
        /\ ~stray'
    BY <2>1, <2>2, <2>4 DEF GoesWell, Record, ScreenInv
  <2> QED
    BY <2>1, <2>5 DEF ScreenInv
<1>7. CASE write_wrap
  <2>1. /\ pc = "wrap" /\ pc' = "idle" /\ tty' = putchar_wrap(tty, ch)
        /\ lines' = lines /\ stray' = stray /\ crossed' = crossed
    BY <1>7 DEF write_wrap, history
  <2>2. ~crossed => ~stray /\ OnScreen(tty') /\ Shows(tty', lines')
    BY <2>1 DEF ScreenInv
  <2> QED
    BY <2>1, <2>2 DEF ScreenInv
<1> QED
  BY <1>2, <1>3, <1>4, <1>5, <1>6, <1>7 DEF Next, Task

\* The invariant holds in every reachable state.
LEMMA Invariance == Spec => []IInv
<1>1. IInv /\ [Next]_vars => IInv'
  <2> SUFFICES ASSUME IInv, [Next]_vars PROVE IInv'
    OBVIOUS
  <2>1. PlaceInv' /\ KeyInv'
    BY PlaceStep, KeyStep DEF IInv
  <2>2. MaskedOutput => ScreenInv'
    BY ScreenStep DEF IInv
  <2> QED
    BY <2>1, <2>2 DEF IInv
<1> QED
  BY InitHolds, <1>1, PTL DEF Spec

(***************************************************************************)
(* The theorems                                                            *)
(***************************************************************************)
\* CursorOnScreen: terminal_putchar tests for the end of a row and of the screen by
\* equality; the cursor never passes either unseen and no character is put off screen,
\* as long as no key is echoed between the parts of a task's character.
THEOREM CursorStays ==
  ASSUME MaskedOutput
  PROVE  Spec => []CursorOnScreen
<1>1. IInv => CursorOnScreen
  <2> SUFFICES ASSUME IInv, ~crossed
               PROVE  /\ ~stray
                      /\ tty.terminal_row <= VGA_HEIGHT
                      /\ tty.terminal_column <= VGA_WIDTH
                      /\ pc = "idle" => tty.terminal_column < VGA_WIDTH
                      /\ tty.terminal_row = VGA_HEIGHT => tty.terminal_column = 0
    BY DEF CursorOnScreen
  <2>1. ~stray /\ ScreenInv
    BY DEF IInv, ScreenInv
  <2>2. CASE pc = "wrap"
    BY <2>1, <2>2 DEF ScreenInv
  <2>3. CASE pc # "wrap"
    <3>1. OnScreen(tty)
      BY <2>1, <2>3 DEF ScreenInv, IInv, PlaceInv
    <3>2. /\ tty.terminal_row \in 0 .. VGA_HEIGHT /\ tty.terminal_column \in Columns
          /\ tty.terminal_row = VGA_HEIGHT => tty.terminal_column = 0
      BY <3>1 DEF OnScreen
    <3> QED
      BY <2>1, <3>2, Sizes DEF Columns
  <2> QED
    BY <2>2, <2>3
<1> QED
  BY <1>1, Invariance, PTL

\* ScreenIsTail: between characters the VGA buffer shows the last lines of the text
\* printed by the keyboard handler and the tasks, and blanks elsewhere.
THEOREM ScreenShowsTail ==
  ASSUME MaskedOutput
  PROVE  Spec => []ScreenIsTail
<1>1. IInv => ScreenIsTail
  <2> SUFFICES ASSUME IInv, pc = "idle", ~crossed PROVE ScreenIsTail
    BY DEF ScreenIsTail
  <2>1. Shows(tty, lines)
    BY DEF IInv, ScreenInv
  <2> QED
    BY <2>1 DEF ScreenIsTail, Shows, Cells, RowText, Last, Columns, Rows
<1> QED
  BY <1>1, Invariance, PTL

\* ModifiersTrack: once every byte is handled, no flag of keyboard.c is on when all keys
\* with its code are up, but one in doubt: irq_1_handler's two reads of the port took one
\* byte about it and one that is not, and none since.
THEOREM ModifiersAgree == Spec => []ModifiersTrack
<1>1. IInv => ModifiersTrack
  <2> SUFFICES ASSUME IInv, queue = << >> PROVE ModifiersTrack
    BY DEF ModifiersTrack
  <2>1. ASSUME NEW f \in Flag, Pressed[f], f \notin doubt PROVE KeysOf[f] \cap down # {}
    <3>1. Held(f, Pressed[f])
      BY <2>1 DEF IInv, KeyInv
    <3> QED
      BY <2>1, <3>1 DEF Held, EndsOn
  <2> QED
    BY <2>1 DEF ModifiersTrack, Pressed, KeysOf, Flag
<1> QED
  BY <1>1, Invariance, PTL
=============================================================================
