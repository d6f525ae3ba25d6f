----------------------------- MODULE VgaProofs ------------------------------
(***************************************************************************)
(* Vga implements Terminal, for a screen of every size, every set of areas *)
(* and calls with any arguments.                                           *)
(***************************************************************************)
EXTENDS Vga, TLAPS

-----------------------------------------------------------------------------
(* Rows and columns of a linear place.                                     *)

LEMMA Sizes ==
    /\ Width \in Nat \ {0} /\ Height \in Nat \ {0} /\ TabStop \in Nat \ {0}
    /\ Width % TabStop = 0 /\ Size \in Nat \ {0} /\ Size = Height * Width
    /\ Short \in Nat /\ Size + TabStop <= Short
  BY VgaAssumption, SMTT(30) DEF Size

LEMMA DivMod ==
    ASSUME NEW a \in Nat, NEW b \in Nat \ {0}
    PROVE  /\ a \div b \in Nat /\ a % b \in 0..b - 1
           /\ a = (a \div b) * b + (a % b)
  OBVIOUS

LEMMA Larger ==
    ASSUME NEW a \in Int, NEW b \in Int, NEW w \in Nat, a <= b
    PROVE  a * w <= b * w
<1>1. (b - a) * w >= 0 /\ (b - a) * w = b * w - a * w
  BY SMTT(30)
<1> QED
  BY <1>1

(* A number has one quotient and one remainder.                            *)
LEMMA OnlyOne ==
    ASSUME NEW b \in Nat \ {0}, NEW q \in Nat, NEW r \in 0..b - 1
    PROVE  (q * b + r) \div b = q /\ (q * b + r) % b = r
<1> DEFINE x == q * b + r
<1>1. q * b \in Nat /\ x \in Nat
  BY SMTT(30)
<1>2. PICK d \in Nat, m \in 0..b - 1 : d = x \div b /\ m = x % b /\ x = d * b + m
  BY <1>1, DivMod
<1>3. d = q
  <2>1. CASE d < q
    <3>1. (d + 1) * b <= q * b /\ (d + 1) * b = d * b + b
      BY <2>1, Larger, SMTT(30)
    <3> QED
      BY <1>1, <1>2, <3>1
  <2>2. CASE q < d
    <3>1. (q + 1) * b <= d * b /\ (q + 1) * b = q * b + b
      BY <2>2, Larger, SMTT(30)
    <3>2. d * b \in Nat
      BY SMTT(30)
    <3> QED
      BY <1>1, <1>2, <3>1, <3>2
  <2> QED
    BY <2>1, <2>2
<1> QED
  BY <1>1, <1>2, <1>3

LEMMA PlaceOf ==
    ASSUME NEW r \in 0..Height - 1, NEW c \in 0..Width - 1
    PROVE  /\ r * Width + c \in 0..Size - 1 /\ r * Width + c \in Places
           /\ (r * Width + c) \div Width = r /\ (r * Width + c) % Width = c
<1>1. r * Width >= 0 /\ r * Width \in Int
  BY Sizes, SMTT(30)
<1>2. (r + 1) * Width <= Height * Width /\ (r + 1) * Width = r * Width + Width
  BY Sizes, Larger, SMTT(30)
<1>3. r * Width + c \in 0..Size - 1
  BY <1>1, <1>2, Sizes
<1>4. (r * Width + c) \div Width = r /\ (r * Width + c) % Width = c
  BY Sizes, OnlyOne
<1> QED
  BY <1>3, <1>4, Sizes DEF Places

LEMMA PartsOf ==
    ASSUME NEW i \in 0..Size - 1
    PROVE  /\ i \div Width \in 0..Height - 1 /\ i % Width \in 0..Width - 1
           /\ i = (i \div Width) * Width + (i % Width)
<1>1. PICK d \in Nat, m \in 0..Width - 1 :
        d = i \div Width /\ m = i % Width /\ i = d * Width + m
  <2>1. /\ i \div Width \in Nat /\ i % Width \in 0..Width - 1
        /\ i = (i \div Width) * Width + (i % Width)
    <3>1. i \in Nat
      BY Sizes
    <3> QED
      BY <3>1, Sizes, DivMod
  <2> QED
    BY <2>1
<1>2. d < Height
  <2>1. SUFFICES ASSUME d >= Height PROVE FALSE
    BY <1>1, Sizes
  <2>2. Height * Width <= d * Width
    BY <2>1, Sizes, Larger
  <2> QED
    BY <1>1, <2>2, Sizes
<1> QED
  BY <1>1, <1>2, Sizes

(* A place below the screen is in no row of it.                            *)
LEMMA Below ==
    ASSUME NEW i \in Places, i >= Size
    PROVE  i \div Width \in Nat /\ i \div Width >= Height
<1>1. i \in Nat
  BY Sizes DEF Places
<1>2. PICK d \in Nat, m \in 0..Width - 1 :
        d = i \div Width /\ m = i % Width /\ i = d * Width + m
  <2>1. /\ i \div Width \in Nat /\ i % Width \in 0..Width - 1
        /\ i = (i \div Width) * Width + (i % Width)
    BY <1>1, Sizes, DivMod
  <2> QED
    BY <2>1
<1>3. d >= Height
  <2>1. SUFFICES ASSUME d + 1 <= Height PROVE FALSE
    BY Sizes
  <2>2. (d + 1) * Width <= Height * Width /\ (d + 1) * Width = d * Width + Width
    BY <2>1, Sizes, Larger, SMTT(30)
  <2>3. d * Width \in Int
    BY Sizes
  <2> QED
    BY <1>2, <2>2, <2>3, Sizes
<1> QED
  BY <1>2, <1>3

-----------------------------------------------------------------------------
(* The array as a screen, and what its changes are there.                  *)

Rows == 0..Height - 1
Cols == 0..Width - 1
Shown(p) == [r \in Rows |-> [c \in Cols |-> p[r * Width + c]]]
Behind(p) == [i \in Size..Short |-> p[i]]
Array == [Places -> Cell]
Blank == [ch |-> NoChar, attr |-> Grey]

OnScreen(area) ==
    /\ area.top \in Rows /\ area.bottom \in Rows /\ area.top <= area.bottom
    /\ area.left \in Cols /\ area.right \in Cols /\ area.left <= area.right
Fits(n, area) == n \in 0..area.bottom - area.top + 1

Scrolls(p, q, n, attr, area) ==
    q = ScrollArea(p, n, attr, area.top, area.bottom, area.left, area.right)

(* vga_scroll_area's loops, cell by cell: outside the area a cell stays,   *)
(* inside it takes the one n rows on, or none.                             *)
Moves(p, q, n, attr, area) ==
    \A i \in Places :
        LET r == i \div Width
            in(y) == y \in area.top..area.bottom /\ i % Width \in area.left..area.right
        IN  q[i] = IF ~in(r) THEN p[i]
                   ELSE IF n # 0 /\ in(r + n) THEN p[i + n * Width]
                   ELSE [ch |-> NoChar, attr |-> IF attr = NoAttr THEN p[i].attr ELSE attr]

LEMMA ScrollMoves ==
    ASSUME NEW p, NEW q, NEW n, NEW attr, NEW area,
           OnScreen(area), Fits(n, area), Scrolls(p, q, n, attr, area)
    PROVE  /\ q = [i \in Places |-> q[i]]
           /\ Moves(p, q, n, attr, area)
<1> DEFINE t == area.top
           b == area.bottom
           from == IF n > 0 THEN t + n ELSE t
           to == IF n < 0 THEN b + n ELSE b
           clear == IF n > 0 THEN b - n + 1..b ELSE IF n < 0 THEN t..t - n - 1 ELSE t..b
           across(i) == i % Width \in area.left..area.right
           bare(i) == [ch |-> NoChar, attr |-> IF attr = NoAttr THEN p[i].attr ELSE attr]
           cell(i) == CASE across(i) /\ i \div Width \in clear -> bare(i)
                        [] across(i) /\ n # 0 /\ (i \div Width) + n \in from..to
                             /\ i \div Width \notin clear -> p[i + n * Width]
                        [] OTHER -> p[i]
<1>1. q = [i \in Places |-> cell(i)]
  BY Zenon DEF Scrolls, ScrollArea
<1>2. q = [i \in Places |-> q[i]] /\ \A i \in Places : q[i] = cell(i)
  BY <1>1
<1>3. t \in Int /\ b \in Int /\ t <= b /\ n \in 0..b - t + 1
  BY Sizes DEF OnScreen, Rows, Fits
<1>4. ASSUME NEW i \in Places
      PROVE  q[i] = IF ~(i \div Width \in t..b /\ across(i)) THEN p[i]
                    ELSE IF n # 0 /\ (i \div Width) + n \in t..b /\ across(i)
                    THEN p[i + n * Width] ELSE bare(i)
  <2>1. i \in Nat
    BY Sizes DEF Places
  <2>2. PICK r \in Nat : r = i \div Width
    <3>1. i \div Width \in Nat
      BY <2>1, Sizes, DivMod
    <3> QED
      BY <3>1
  <2>3. CASE across(i) /\ r \in t..b /\ n # 0 /\ r + n \in t..b
    <3>1. r \notin clear /\ r + n \in from..to
      BY <1>3, <2>3
    <3> HIDE DEF from, to, clear, bare, across
    <3> QED
      BY <1>2, <2>2, <2>3, <3>1
  <2>4. CASE across(i) /\ r \in t..b /\ ~(n # 0 /\ r + n \in t..b)
    <3>1. r \in clear
      BY <1>3, <2>4
    <3> HIDE DEF from, to, clear, bare, across
    <3> QED
      BY <1>2, <2>2, <2>4, <3>1
  <2>5. CASE ~(across(i) /\ r \in t..b)
    <3>1. across(i) => r \notin clear /\ ~(n # 0 /\ r + n \in from..to)
      BY <1>3, <2>5
    <3> HIDE DEF from, to, clear, bare, across
    <3> QED
      BY <1>2, <2>2, <2>5, <3>1
  <2> QED
    BY <2>2, <2>3, <2>4, <2>5
<1>5. Moves(p, q, n, attr, area)
  BY <1>4, Zenon DEF Moves
<1> QED
  BY <1>2, <1>5

LEMMA ScrollShown ==
    ASSUME NEW p, NEW q, NEW attr, NEW area, OnScreen(area), NEW n \in Int,
           Moves(p, q, n, attr, area)
    PROVE  Shown(q) = Term!Scrolled(Shown(p), n, attr, area)
<1>1. ASSUME NEW r \in Rows, NEW c \in Cols
      PROVE  q[r * Width + c] =
               IF ~Term!Inside(area, r, c) THEN Shown(p)[r][c]
               ELSE IF n # 0 /\ Term!Inside(area, r + n, c) THEN Shown(p)[r + n][c]
               ELSE [ch |-> NoChar, attr |-> Term!Recolor(Shown(p)[r][c], attr)]
  <2>1. PICK i \in Places : i = r * Width + c /\ i \div Width = r /\ i % Width = c
    BY PlaceOf DEF Rows, Cols
  <2>2. Shown(p)[r][c] = p[i]
    BY <2>1 DEF Shown
  <2>3. Term!Inside(area, r + n, c) => Shown(p)[r + n][c] = p[i + n * Width]
    <3>1. Term!Inside(area, r + n, c) => r + n \in Rows
      BY Sizes DEF Term!Inside, OnScreen, Rows
    <3>2. (r + n) * Width + c = i + n * Width
      BY <2>1, Sizes, SMTT(30) DEF Rows, Cols
    <3> QED
      BY <3>1, <3>2 DEF Shown
  <2>4. q[i] = IF ~(r \in area.top..area.bottom /\ c \in area.left..area.right) THEN p[i]
               ELSE IF n # 0 /\ r + n \in area.top..area.bottom /\ c \in area.left..area.right
               THEN p[i + n * Width]
               ELSE [ch |-> NoChar, attr |-> IF attr = NoAttr THEN p[i].attr ELSE attr]
    BY <2>1, Zenon DEF Moves
  <2> QED
    BY <2>1, <2>2, <2>3, <2>4
       DEF Term!Inside, Term!Recolor, NoAttr, Term!NoAttr, NoChar, Term!NoChar
<1> QED
  BY <1>1, Zenon DEF Shown, Term!Scrolled, Rows, Cols, Term!Rows, Term!Cols, Term!NoChar, NoChar

LEMMA ScrollKeeps ==
    ASSUME NEW p, NEW attr, NEW area, OnScreen(area), NEW q, NEW n \in Int,
           Moves(p, q, n, attr, area)
    PROVE  Behind(q) = Behind(p)
<1>1. ASSUME NEW i \in Size..Short PROVE q[i] = p[i]
  <2>1. i \in Places /\ i >= Size
    BY Sizes DEF Places
  <2>2. PICK r \in Nat : r = i \div Width /\ r >= Height
    BY <2>1, Below
  <2>3. ~(r \in area.top..area.bottom)
    BY <2>2, Sizes DEF OnScreen, Rows
  <2> QED
    BY <2>1, <2>2, <2>3, Zenon DEF Moves
<1> QED
  BY <1>1 DEF Behind

(* Whatever the amount, cells become cells.                                *)
LEMMA ScrollTyped ==
    ASSUME NEW p \in Array, NEW attr \in Attrs \union {NoAttr}, NEW area, OnScreen(area), NEW q,
           NEW n \in Nat, Scrolls(p, q, n, attr, area)
    PROVE  q \in Array
<1> DEFINE t == area.top
           b == area.bottom
           from == IF n > 0 THEN t + n ELSE t
           to == IF n < 0 THEN b + n ELSE b
           clear == IF n > 0 THEN b - n + 1..b ELSE IF n < 0 THEN t..t - n - 1 ELSE t..b
           across(i) == i % Width \in area.left..area.right
           bare(i) == [ch |-> NoChar, attr |-> IF attr = NoAttr THEN p[i].attr ELSE attr]
           cell(i) == CASE across(i) /\ i \div Width \in clear -> bare(i)
                        [] across(i) /\ n # 0 /\ (i \div Width) + n \in from..to
                             /\ i \div Width \notin clear -> p[i + n * Width]
                        [] OTHER -> p[i]
<1>1. q = [i \in Places |-> cell(i)]
  BY Zenon DEF Scrolls, ScrollArea
<1>2. ASSUME NEW i \in Places PROVE cell(i) \in Cell
  <2>1. p[i] \in Cell /\ i \in Nat
    BY Sizes DEF Array, Places
  <2>2. bare(i) \in Cell
    BY <2>1 DEF Cell
  <2>3. (i \div Width) + n \in from..to => p[i + n * Width] \in Cell
    <3>1. SUFFICES ASSUME (i \div Width) + n \in from..to PROVE i + n * Width \in Places
      BY DEF Array
    <3>2. PICK r \in Nat, c \in Cols : r = i \div Width /\ c = i % Width /\ i = r * Width + c
      <4>1. /\ i \div Width \in Nat /\ i % Width \in 0..Width - 1
            /\ i = (i \div Width) * Width + (i % Width)
        BY <2>1, Sizes, DivMod
      <4> QED
        BY <4>1 DEF Cols
    <3>3. r + n \in Rows
      BY <3>1, <3>2, Sizes DEF OnScreen, Rows
    <3>4. (r + n) * Width + c \in Places
      BY <3>3, PlaceOf DEF Rows, Cols
    <3>5. (r + n) * Width + c = i + n * Width
      BY <3>2, Sizes, SMTT(30) DEF Cols
    <3> QED
      BY <3>4, <3>5
  <2> HIDE DEF from, to, clear, bare, across
  <2> QED
    BY <2>1, <2>2, <2>3
<1> HIDE DEF cell
<1> QED
  BY <1>1, <1>2 DEF Array

LEMMA AllOnScreen ==
    OnScreen(Term!Everything) /\ Fits(1, Term!Everything)
  BY Sizes DEF OnScreen, Fits, Rows, Cols, Term!Everything

LEMMA ScrollUpShown ==
    ASSUME NEW p \in Array
    PROVE  /\ ScrollUp(p) \in Array
           /\ Behind(ScrollUp(p)) = Behind(p)
           /\ Shown(ScrollUp(p)) = Term!Scrolled(Shown(p), 1, NoAttr, Term!Everything)
<1>1. PICK q, n, attr, area :
        q = ScrollUp(p) /\ n = 1 /\ attr = NoAttr /\ area = Term!Everything
  OBVIOUS
<1>2. Scrolls(p, q, n, attr, area)
  <2>1. area.top = 0 /\ area.bottom = Height - 1 /\ area.left = 0 /\ area.right = Width - 1
    BY <1>1 DEF Term!Everything
  <2> QED
    BY <1>1, <2>1 DEF ScrollUp, Scrolls
<1>3. OnScreen(area) /\ Fits(n, area)
  BY <1>1, AllOnScreen
<1>4. Moves(p, q, n, attr, area)
  BY <1>2, <1>3, ScrollMoves
<1>5. q \in Array
  BY <1>1, <1>2, <1>3, ScrollTyped
<1>6. Behind(q) = Behind(p) /\ Shown(q) = Term!Scrolled(Shown(p), n, attr, area)
  BY <1>1, <1>3, <1>4, ScrollKeeps, ScrollShown
<1> QED
  BY <1>1, <1>5, <1>6

-----------------------------------------------------------------------------
(* The types, and the cursor on the screen as row and column.              *)

OnIt == TypeOK /\ cursor < Size

Row == cursor \div Width
Col == cursor % Width

LEMMA Fields ==
    ASSUME TypeOK
    PROVE  ptr \in Array /\ cursor \in 0..Short - 1 /\ cursor \in Places
  BY Sizes DEF TypeOK, Array, Places

(* Whether Terminal sees the cursor.                                       *)
LEMMA Sees == TypeOK /\ Term!Visible => OnIt
<1> SUFFICES ASSUME TypeOK, cursor \div Width < Height PROVE cursor < Size
  BY Zenon DEF OnIt, Term!Visible
<1>1. cursor \in Places /\ cursor \in Int
  BY Fields
<1>2. cursor >= Size => cursor \div Width \in Nat /\ cursor \div Width >= Height
  BY <1>1, Below
<1> QED
  BY <1>1, <1>2, Sizes

LEMMA CursorParts ==
    ASSUME OnIt
    PROVE  Row \in Rows /\ Col \in Cols /\ cursor = Row * Width + Col /\ cursor \in 0..Size - 1
<1>1. cursor \in 0..Size - 1
  BY Sizes DEF OnIt, TypeOK
<1>2. /\ cursor \div Width \in 0..Height - 1 /\ cursor % Width \in 0..Width - 1
      /\ cursor = (cursor \div Width) * Width + (cursor % Width)
  BY <1>1, PartsOf
<1> QED
  BY <1>1, <1>2, Zenon DEF Row, Col, Rows, Cols

LEMMA Starts == Init => TypeOK /\ Term!Init
<1> SUFFICES ASSUME Init PROVE TypeOK /\ Term!Init
  OBVIOUS
<1>1. Blank \in Cell
  BY VgaAssumption DEF Blank, Cell
<1>2. TypeOK
  <2>1. 0 \in 0..Short - 1
    BY Sizes
  <2> QED
    BY <1>1, <2>1 DEF Init, TypeOK, Blank
<1>3. Row = 0 /\ Col = 0
  <2>1. 0 \in 0..Height - 1 /\ 0 \in 0..Width - 1 /\ 0 * Width + 0 = 0
    BY Sizes
  <2> QED
    BY <2>1, PlaceOf DEF Init, Row, Col
<1>4. Shown(ptr) \in [Rows -> [Cols -> Cell]]
  <2>1. \A r \in Rows, c \in Cols : ptr[r * Width + c] \in Cell
    BY <1>2, PlaceOf DEF TypeOK, Rows, Cols
  <2> QED
    BY <2>1 DEF Shown
<1>5. nOps = 0 /\ asked = [op |-> "set mode"]
  BY DEF Init
<1> QED
  BY <1>2, <1>3, <1>4, <1>5, Zenon
     DEF Term!Init, Row, Col, Shown, Rows, Cols, Term!Rows, Term!Cols,
         Cell, Term!Cell, NoChar, Term!NoChar

LEMMA LineStarts ==
    ASSUME OnIt
    PROVE  /\ LineStart = Row * Width + 0 /\ LineStart \div Width = Row
           /\ LineStart \in 0..Size - 1 /\ 0 \in Cols
<1>1. PICK r \in Rows, c \in Cols : r = Row /\ c = Col /\ cursor = r * Width + c
  BY CursorParts
<1>2. 0 \in Cols
  BY Sizes DEF Cols
<1>3. r * Width \in Int
  BY Sizes DEF Rows
<1>4. LineStart = r * Width + 0
  BY <1>1, <1>3, Sizes DEF LineStart, Col, Cols
<1>5. (r * Width + 0) \div Width = r /\ r * Width + 0 \in 0..Size - 1
  BY <1>2, PlaceOf DEF Rows, Cols
<1> QED
  BY <1>1, <1>2, <1>4, <1>5

(* What the move of the cursor to row r and column c is for Terminal.      *)
LEMMA Moved ==
    ASSUME NEW r \in Rows, NEW c \in Cols, cursor' = r * Width + c
    PROVE  Term!Moved(r, c)
<1>1. (cursor \div Width)' = r /\ (cursor % Width)' = c
  BY PlaceOf DEF Rows, Cols
<1> QED
  BY <1>1, Zenon DEF Term!Moved

(* A call is the one asked for.                                            *)
LEMMA Same == ASSUME NEW call, Call(call) PROVE Term!Asked(call)
  BY Zenon DEF Call, Term!Asked

(* Nothing has changed but the cursor.                                     *)
LEMMA Untouched ==
    ASSUME NEW p, ptr' = p
    PROVE  Shown(ptr)' = Shown(p) /\ Behind(ptr)' = Behind(p)
  BY DEF Shown, Behind

LEMMA CarriageReturnStep == ASSUME TypeOK, CarriageReturn PROVE Term!CarriageReturn
<1>1. Term!Asked([op |-> "carriage return"])
  BY Same, Zenon DEF CarriageReturn
<1>2. ASSUME Term!Visible PROVE Term!Moved(Row, 0)
  <2>1. OnIt
    BY <1>2, Sees
  <2>2. cursor' = Row * Width + 0 /\ Row \in Rows /\ 0 \in Cols
    BY <2>1, LineStarts, CursorParts DEF CarriageReturn
  <2> QED
    BY <2>2, Moved
<1>3. ptr' = ptr
  BY DEF CarriageReturn
<1> QED
  BY <1>1, <1>2, <1>3, Untouched, Zenon DEF Term!CarriageReturn, Row, Shown, Behind, Rows, Cols

(* Going on in the next row, with array p on the screen by then.           *)
LEMMA NextRowStep ==
    ASSUME OnIt, NEW p \in Array, Behind(p) = Behind(ptr),
           IF Row < Height - 1 THEN cursor' = (Row + 1) * Width + 0 /\ ptr' = p
           ELSE cursor' = Row * Width + 0 /\ ptr' = ScrollUp(p)
    PROVE  Term!NextRow(Shown(p))
<1>1. Row \in Rows /\ 0 \in Cols
  BY CursorParts, LineStarts
<1>2. CASE Row < Height - 1
  <2>1. Row + 1 \in Rows
    BY <1>1, <1>2, Sizes DEF Rows
  <2>2. Term!Moved(Row + 1, 0)
    BY <1>1, <1>2, <2>1, Moved
  <2>3. Shown(ptr)' = Shown(p) /\ Behind(ptr)' = Behind(ptr)
    BY <1>2, Untouched
  <2> QED
    BY <1>2, <2>2, <2>3, Zenon DEF Term!NextRow, Row, Shown, Behind, Rows, Cols
<1>3. CASE ~(Row < Height - 1)
  <2>1. Term!Moved(Row, 0)
    BY <1>1, <1>3, Moved
  <2>2. PICK q : q = ScrollUp(p)
    OBVIOUS
  <2>3. /\ Behind(q) = Behind(p)
        /\ Shown(q) = Term!Scrolled(Shown(p), 1, NoAttr, Term!Everything)
    BY <2>2, ScrollUpShown
  <2>4. ptr' = q
    BY <1>3, <2>2
  <2>5. Shown(ptr)' = Shown(q) /\ Behind(ptr)' = Behind(q)
    BY <2>4, Untouched
  <2>6. Shown(ptr)' = Term!Scrolled(Shown(p), 1, Term!NoAttr, Term!Everything)
    BY <2>3, <2>5 DEF NoAttr, Term!NoAttr
  <2>7. Behind(ptr)' = Behind(ptr)
    BY <2>3, <2>5
  <2> QED
    BY <1>3, <2>1, <2>6, <2>7, Zenon DEF Term!NextRow, Row, Shown, Behind, Rows, Cols
<1> QED
  BY <1>2, <1>3

LEMMA LineFeedStep == ASSUME TypeOK, LineFeed PROVE Term!LineFeed
<1>1. Term!Asked([op |-> "line feed"])
  BY Same, Zenon DEF LineFeed
<1>2. ASSUME Term!Visible PROVE Term!NextRow(Shown(ptr))
  <2>1. OnIt
    BY <1>2, Sees
  <2>2. PICK r \in Rows, start \in Int : r = Row /\ start = LineStart /\ start = r * Width + 0
    BY <2>1, LineStarts, CursorParts, Sizes
  <2>3. start + Width = (r + 1) * Width + 0
    BY <2>2, Sizes, SMTT(30) DEF Rows
  <2>4. IF Row < Height - 1 THEN cursor' = (Row + 1) * Width + 0 /\ ptr' = ptr
        ELSE cursor' = Row * Width + 0 /\ ptr' = ScrollUp(ptr)
    BY <2>1, <2>2, <2>3, LineStarts DEF LineFeed
  <2>5. PICK p \in Array : p = ptr
    BY Fields
  <2>6. Term!NextRow(Shown(p))
    <3>1. IF Row < Height - 1 THEN cursor' = (Row + 1) * Width + 0 /\ ptr' = p
          ELSE cursor' = Row * Width + 0 /\ ptr' = ScrollUp(p)
      BY <2>4, <2>5
    <3> QED
      BY <2>1, <2>5, <3>1, NextRowStep
  <2>7. Shown(p) = Shown(ptr)
    BY <2>5
  <2> QED
    BY <2>6, <2>7, Zenon DEF Term!NextRow
<1> QED
  BY <1>1, <1>2, Zenon DEF Term!LineFeed, Shown, Rows, Cols

LEMMA BackSpaceStep == ASSUME TypeOK, BackSpace PROVE Term!BackSpace
<1>1. Term!Asked([op |-> "back space"])
  BY Same, Zenon DEF BackSpace
<1>2. ASSUME Term!Visible PROVE Term!Moved(Row, IF Col = 0 THEN 0 ELSE Col - 1)
  <2>1. PICK r \in Rows, c \in Cols : r = Row /\ c = Col /\ cursor = r * Width + c
    BY <1>2, Sees, CursorParts
  <2>2. cursor' = IF c # 0 THEN cursor - 1 ELSE cursor
    BY <2>1 DEF BackSpace, Col
  <2>3. PICK d \in Cols : d = IF c = 0 THEN 0 ELSE c - 1
    BY Sizes DEF Cols
  <2>4. r * Width \in Int
    BY Sizes DEF Rows
  <2>5. cursor' = r * Width + d
    BY <2>1, <2>2, <2>3, <2>4 DEF Cols
  <2> QED
    BY <2>1, <2>3, <2>5, Moved
<1>3. ptr' = ptr
  BY DEF BackSpace
<1> QED
  BY <1>1, <1>2, <1>3, Untouched, Zenon DEF Term!BackSpace, Row, Col, Shown, Behind, Rows, Cols

LEMMA TabStops ==
    ASSUME OnIt
    PROVE  /\ cursor % TabStop = Col % TabStop /\ Col % TabStop \in 0..TabStop - 1
           /\ Col - (Col % TabStop) + TabStop \in 1..Width
<1>1. PICK t \in Nat \ {0}, w \in Nat, q \in Nat :
        t = TabStop /\ w = Width /\ w = q * t
  <2>1. /\ Width \div TabStop \in Nat
        /\ Width = (Width \div TabStop) * TabStop + (Width % TabStop)
    BY Sizes, DivMod
  <2>2. (Width \div TabStop) * TabStop \in Int
    BY <2>1, Sizes, SMTT(30)
  <2> QED
    BY <2>1, <2>2, Sizes
<1>2. PICK r \in Rows, c \in Cols : r = Row /\ c = Col /\ cursor = r * w + c
  BY <1>1, CursorParts
<1>3. PICK k \in Nat, m \in 0..t - 1 : k = c \div t /\ m = c % t /\ c = k * t + m
  <2>1. c \in Nat
    BY Sizes DEF Cols
  <2>2. c \div t \in Nat /\ c % t \in 0..t - 1 /\ c = (c \div t) * t + (c % t)
    BY <2>1, DivMod
  <2> QED
    BY <2>2
<1>4. cursor = (r * q + k) * t + m /\ r * q + k \in Nat
  <2>1. r \in Nat
    BY Sizes DEF Rows
  <2>2. r * (q * t) = (r * q) * t /\ r * q \in Nat
    BY <2>1, SMTT(30)
  <2>3. (r * q + k) * t = (r * q) * t + k * t
    BY <2>2, SMTT(30)
  <2>4. (r * q) * t \in Nat /\ k * t \in Nat
    BY <2>2, SMTT(30)
  <2> QED
    BY <1>1, <1>2, <1>3, <2>2, <2>3, <2>4
<1>5. cursor % t = m
  BY <1>4, OnlyOne
<1>6. (k + 1) * t <= q * t
  <2>1. k + 1 <= q
    <3>1. SUFFICES ASSUME q <= k PROVE FALSE
      OBVIOUS
    <3>2. q * t <= k * t
      BY <3>1, Larger
    <3>3. k * t \in Nat
      BY SMTT(30)
    <3> QED
      BY <1>1, <1>2, <1>3, <3>2, <3>3 DEF Cols
  <2> QED
    BY <2>1, Larger
<1>7. (k + 1) * t = k * t + t /\ k * t \in Nat
  BY SMTT(30)
<1>8. c - m + t \in 1..w
  BY <1>1, <1>3, <1>6, <1>7
<1> QED
  BY <1>1, <1>2, <1>3, <1>5, <1>8

LEMMA TabStep == ASSUME TypeOK, Tab PROVE Term!Tab
<1> DEFINE stop == Col - (Col % TabStop) + TabStop
<1>1. Term!Asked([op |-> "tab"]) /\ ptr' = ptr
  BY Same, Zenon DEF Tab
<1>2. ASSUME OnIt
      PROVE  /\ stop < Width => Term!Moved(Row, stop)
             /\ stop >= Width /\ Row < Height - 1 => Term!NextRow(Shown(ptr))
  <2>1. PICK r \in Rows, c \in Cols, d \in 1..Width :
          r = Row /\ c = Col /\ cursor = r * Width + c /\ d = c - (c % TabStop) + TabStop
    BY <1>2, CursorParts, TabStops
  <2>2. r * Width \in Int /\ c % TabStop \in 0..TabStop - 1 /\ c \in Int /\ cursor \in 0..Size - 1
    BY <1>2, <2>1, TabStops, CursorParts, Sizes DEF Rows, Cols
  <2>3. NextStop = r * Width + d /\ NextStop \in 0..Short
    <3>1. NextStop = r * Width + d
      BY <1>2, <2>1, <2>2, TabStops, Sizes DEF NextStop
    <3>2. r * Width + d = cursor - (c % TabStop) + TabStop /\ r * Width >= 0
      BY <2>1, <2>2, Sizes, SMTT(30) DEF Rows
    <3> QED
      BY <2>2, <3>1, <3>2, Sizes
  <2>4. NextStop < Short => cursor' = r * Width + d
    BY <2>3, Sizes DEF Tab
  <2>5. ASSUME stop < Width PROVE Term!Moved(Row, stop)
    <3>1. d \in Cols /\ stop = d
      BY <2>1, <2>5, Sizes DEF Cols
    <3>2. r * Width + d \in 0..Size - 1
      BY <3>1, PlaceOf DEF Rows, Cols
    <3>3. cursor' = r * Width + d
      BY <2>3, <2>4, <3>2, Sizes
    <3> QED
      BY <2>1, <3>1, <3>3, Moved
  <2>6. ASSUME stop >= Width, Row < Height - 1 PROVE Term!NextRow(Shown(ptr))
    <3>1. d = Width /\ r * Width + Width = (r + 1) * Width + 0
      BY <2>1, <2>6, Sizes, SMTT(30) DEF Rows
    <3>2. r + 1 \in Rows /\ 0 \in Cols
      BY <2>1, <2>6, Sizes DEF Rows, Cols
    <3>3. (r + 1) * Width + 0 \in 0..Size - 1
      BY <3>2, PlaceOf DEF Rows, Cols
    <3>4. cursor' = (r + 1) * Width + 0
      BY <2>3, <2>4, <3>1, <3>3, Sizes
    <3>5. PICK p \in Array : p = ptr
      BY Fields
    <3>6. IF Row < Height - 1 THEN cursor' = (Row + 1) * Width + 0 /\ ptr' = p
          ELSE cursor' = Row * Width + 0 /\ ptr' = ScrollUp(p)
      BY <1>1, <2>1, <2>6, <3>4, <3>5
    <3>7. Term!NextRow(Shown(p)) /\ Shown(p) = Shown(ptr)
      BY <1>2, <3>5, <3>6, NextRowStep
    <3> QED
      BY <3>7, Zenon DEF Term!NextRow
  <2> QED
    BY <2>5, <2>6
<1>3. Row < Height - 1 => Term!Visible
  <2>1. cursor \div Width \in Int
    BY Fields, Sizes
  <2>2. cursor \div Width < Height - 1 => cursor \div Width < Height
    BY <2>1, Sizes
  <2> QED
    BY <2>2, Zenon DEF Row, Term!Visible
<1> HIDE DEF stop
<1>4. stop < Width /\ Term!Visible => Term!Moved(Row, stop)
  BY <1>2, Sees
<1>5. stop >= Width /\ Row < Height - 1 => Term!NextRow(Shown(ptr))
  BY <1>2, <1>3, Sees
<1> QED
  BY <1>1, <1>4, <1>5, Untouched, Zenon
     DEF Term!Tab, Row, Col, stop, Shown, Behind, Rows, Cols

Written(p, q, i, cell) == q = [p EXCEPT ![i] = cell]

LEMMA PutShown ==
    ASSUME NEW p \in Array, NEW r \in Rows, NEW c \in Cols, NEW cell, NEW q, NEW i,
           i = r * Width + c, Written(p, q, i, cell)
    PROVE  Shown(q) = [Shown(p) EXCEPT ![r] = [@ EXCEPT ![c] = cell]]
<1>1. ASSUME NEW y \in Rows, NEW x \in Cols
      PROVE  q[y * Width + x] = IF y = r /\ x = c THEN cell ELSE p[y * Width + x]
  <2>1. PICK k \in Places : k = y * Width + x /\ k \div Width = y /\ k % Width = x
    BY PlaceOf DEF Rows, Cols
  <2>2. i \in Places /\ i \div Width = r /\ i % Width = c
    BY PlaceOf DEF Rows, Cols
  <2>3. k = i <=> y = r /\ x = c
    BY <2>1, <2>2
  <2> QED
    BY <2>1, <2>2, <2>3 DEF Array, Written
<1>2. PICK line : line = [Shown(p)[r] EXCEPT ![c] = cell]
  OBVIOUS
<1>3. line = [x \in Cols |-> q[r * Width + x]]
  BY <1>1, <1>2 DEF Shown
<1>4. \A y \in Rows : [x \in Cols |-> q[y * Width + x]] = IF y = r THEN line ELSE Shown(p)[y]
  BY <1>1, <1>3 DEF Shown
<1>5. Shown(q) = [Shown(p) EXCEPT ![r] = line]
  BY <1>4 DEF Shown
<1> QED
  BY <1>2, <1>5

(* The cell under the cursor.                                              *)
LEMMA CellSet ==
    ASSUME TypeOK, NEW cell \in Cell, NEW q, q = [ptr EXCEPT ![cursor] = cell]
    PROVE  /\ q \in Array
           /\ OnIt => /\ Behind(q) = Behind(ptr)
                      /\ Shown(q) = [Shown(ptr) EXCEPT ![Row][Col] = cell]
<1>1. PICK p \in Array : p = ptr
  BY Fields
<1>2. PICK i \in Places : i = cursor
  BY Fields
<1>3. q = [p EXCEPT ![i] = cell]
  BY <1>1, <1>2
<1>4. q \in Array
  BY <1>3 DEF Array
<1>5. ASSUME OnIt
      PROVE  /\ Behind(q) = Behind(p)
             /\ Shown(q) = [Shown(p) EXCEPT ![Row][Col] = cell]
  <2>1. PICK r \in Rows, c \in Cols : r = Row /\ c = Col /\ i = r * Width + c /\ i < Size
    BY <1>2, <1>5, CursorParts, Sizes
  <2>2. Behind(q) = Behind(p)
    <3>1. \A k \in Size..Short : k \in Places /\ k # i
      BY <2>1, Sizes DEF Places
    <3> QED
      BY <1>3, <3>1 DEF Behind, Array
  <2>3. Shown(q) = [Shown(p) EXCEPT ![r] = [@ EXCEPT ![c] = cell]]
    <3>1. Written(p, q, i, cell)
      BY <1>3 DEF Written
    <3> QED
      BY <2>1, <3>1, PutShown
  <2> QED
    BY <2>1, <2>2, <2>3
<1> QED
  BY <1>1, <1>4, <1>5

LEMMA WriteCharAttrStep ==
    ASSUME TypeOK, NEW ch \in Chars, NEW a \in Attrs, WriteCharAttr(ch, a)
    PROVE  Term!SetCell(ch, a)
<1>1. PICK cell \in Cell : cell = [ch |-> ch, attr |-> a]
  BY DEF Cell
<1>2. PICK q : q = [ptr EXCEPT ![cursor] = cell]
  OBVIOUS
<1>3. ptr' = q /\ cursor' = cursor
  BY <1>1, <1>2 DEF WriteCharAttr
<1>4. ASSUME Term!Visible
      PROVE  /\ Shown(ptr)' = [Shown(ptr) EXCEPT ![Row][Col] = [ch |-> ch, attr |-> a]]
             /\ Behind(ptr)' = Behind(ptr)
  <2>1. OnIt
    BY <1>4, Sees
  <2>2. Behind(q) = Behind(ptr) /\ Shown(q) = [Shown(ptr) EXCEPT ![Row][Col] = cell]
    BY <1>2, <2>1, CellSet
  <2>3. Shown(ptr)' = Shown(q) /\ Behind(ptr)' = Behind(q)
    BY <1>3, Untouched
  <2> QED
    BY <1>1, <2>2, <2>3
<1>5. Term!Asked([op |-> "set cell", ch |-> ch, attr |-> a])
  BY Same, Zenon DEF WriteCharAttr
<1> QED
  BY <1>3, <1>4, <1>5, Zenon DEF Term!SetCell, Shown, Behind, Rows, Cols, Row, Col

LEMMA PutStep == ASSUME TypeOK, NEW ch \in Chars, Put(ch) PROVE Term!Put(ch)
<1> DEFINE s == [Shown(ptr) EXCEPT ![Row][Col].ch = ch]
<1>1. Term!Asked([op |-> "put", ch |-> ch])
  BY Same, Zenon DEF Put
<1>2. ASSUME OnIt
      PROVE  IF Col < Width - 1
             THEN Shown(ptr)' = s /\ Term!Moved(Row, Col + 1) /\ Behind(ptr)' = Behind(ptr)
             ELSE Term!NextRow(s)
  <2>1. PICK r \in Rows, c \in Cols : r = Row /\ c = Col /\ cursor = r * Width + c
    BY <1>2, CursorParts
  <2>2. ptr[cursor] \in Cell /\ Shown(ptr)[Row][Col] = ptr[cursor]
    BY <2>1, Fields DEF Array, Shown
  <2>3. PICK cell \in Cell : cell = [ptr[cursor] EXCEPT !.ch = ch]
    BY <2>2 DEF Cell
  <2>4. PICK p : p = [ptr EXCEPT ![cursor] = cell]
    OBVIOUS
  <2>5. p \in Array /\ Behind(p) = Behind(ptr) /\ Shown(p) = [Shown(ptr) EXCEPT ![Row][Col] = cell]
    BY <1>2, <2>4, CellSet
  <2>6. Shown(p) = s
    BY <2>2, <2>3, <2>5
  <2>7. cursor + 1 \in 0..Short - 1 /\ (cursor + 1) % Short = cursor + 1
    BY <1>2, CursorParts, Sizes
  <2>8. IF cursor + 1 >= Size
        THEN ptr' = ScrollUp(p) /\ cursor' = cursor + 1 - Width
        ELSE ptr' = p /\ cursor' = cursor + 1
    <3>1. p = [ptr EXCEPT ![cursor].ch = ch]
      BY <2>3, <2>4
    <3>2. PICK next : next = (cursor + 1) % Short
      OBVIOUS
    <3>3. IF next >= Size THEN ptr' = ScrollUp(p) /\ cursor' = next - Width
          ELSE ptr' = p /\ cursor' = next
      BY <3>1, <3>2, Zenon DEF Put
    <3>4. next = cursor + 1 /\ cursor \in Int
      BY <2>7, <3>2, Fields, Sizes
    <3> QED
      BY <3>3, <3>4, Sizes
  <2>9. r * Width \in Int /\ r \in 0..Height - 1 /\ c \in 0..Width - 1
    BY Sizes DEF Rows, Cols
  <2> HIDE DEF s
  <2>10. CASE c < Width - 1
    <3>1. c + 1 \in Cols /\ cursor + 1 = r * Width + (c + 1)
      BY <2>1, <2>9, <2>10, Sizes DEF Cols
    <3>2. cursor + 1 < Size
      BY <3>1, PlaceOf, Sizes DEF Rows, Cols
    <3>3. ptr' = p /\ cursor' = r * Width + (c + 1)
      BY <2>8, <3>1, <3>2, <2>7, Sizes
    <3>4. Term!Moved(r, c + 1)
      BY <3>1, <3>3, Moved
    <3>5. Shown(ptr)' = Shown(p) /\ Behind(ptr)' = Behind(p)
      BY <3>3, Untouched
    <3> QED
      BY <2>1, <2>5, <2>6, <2>10, <3>4, <3>5
  <2>11. CASE ~(c < Width - 1)
    <3>1. c = Width - 1 /\ cursor + 1 = (r + 1) * Width + 0
      <4>1. c = Width - 1 /\ cursor + 1 = r * Width + Width
        BY <2>1, <2>9, <2>11, Sizes
      <4>2. (r + 1) * Width + 0 = r * Width + Width
        BY <2>9, Sizes, SMTT(30)
      <4> QED
        BY <4>1, <4>2
    <3>2. cursor + 1 >= Size <=> r = Height - 1
      <4>1. r < Height - 1 => (r + 2) * Width <= Height * Width
        BY <2>9, Sizes, Larger
      <4>2. (r + 2) * Width = cursor + 1 + Width
        BY <2>9, <3>1, Sizes, SMTT(30)
      <4>3. r = Height - 1 => cursor + 1 = Height * Width
        BY <2>9, <3>1, Sizes
      <4> QED
        BY <2>7, <2>9, <4>1, <4>2, <4>3, Sizes
    <3>3. cursor + 1 - Width = r * Width + 0
      BY <2>1, <2>9, <3>1, Sizes
    <3>4. IF Row < Height - 1 THEN cursor' = (Row + 1) * Width + 0 /\ ptr' = p
          ELSE cursor' = Row * Width + 0 /\ ptr' = ScrollUp(p)
      <4>1. CASE r = Height - 1
        <5>1. ptr' = ScrollUp(p) /\ cursor' = r * Width + 0
          BY <2>8, <3>2, <3>3, <4>1
        <5> QED
          BY <2>1, <2>9, <4>1, <5>1, Sizes
      <4>2. CASE r < Height - 1
        <5>1. ptr' = p /\ cursor' = (r + 1) * Width + 0
          BY <2>8, <3>1, <3>2, <4>2, Sizes
        <5> QED
          BY <2>1, <4>2, <5>1
      <4> QED
        BY <2>9, <4>1, <4>2, Sizes
    <3>5. Term!NextRow(Shown(p))
      BY <1>2, <2>5, <3>4, NextRowStep
    <3>6. Term!NextRow(s)
      BY <2>6, <3>5, Zenon DEF Term!NextRow
    <3> QED
      BY <2>1, <2>11, <3>6
  <2> QED
    BY <2>10, <2>11
<1>3. Term!Visible =>
        IF Col < Width - 1
        THEN Shown(ptr)' = s /\ Term!Moved(Row, Col + 1) /\ Behind(ptr)' = Behind(ptr)
        ELSE Term!NextRow(s)
  <2> HIDE DEF s
  <2> QED
    BY <1>2, Sees
<1> QED
  BY <1>1, <1>3, Zenon DEF Term!Put, Shown, Behind, Rows, Cols, Row, Col

-----------------------------------------------------------------------------
(* The other calls.                                                        *)

LEMMA SetCursorPosStep ==
    ASSUME TypeOK, NEW pos \in 0..Short - 1, SetCursorPos(pos) PROVE Term!MoveTo(pos)
<1>1. cursor' = pos /\ ptr' = ptr
  BY DEF SetCursorPos
<1>2. Term!Moved(pos \div Width, pos % Width)
  BY <1>1, Zenon DEF Term!Moved
<1>3. Term!Asked([op |-> "move", place |-> pos])
  BY Same, Zenon DEF SetCursorPos
<1> QED
  BY <1>1, <1>2, <1>3, Untouched, Zenon DEF Term!MoveTo, Shown, Behind, Rows, Cols

LEMMA SetModeStep == ASSUME TypeOK, SetMode PROVE Term!Clear(Grey)
<1>1. PICK p \in Array : p = ptr
  BY Fields
<1>2. PICK q : q = [i \in Places |-> IF i < Size THEN Blank ELSE p[i]]
  OBVIOUS
<1>3. ptr' = q /\ cursor' = 0
  BY <1>1, <1>2 DEF SetMode, Blank
<1>4. Behind(q) = Behind(p)
  <2>1. \A i \in Size..Short : i \in Places /\ ~(i < Size)
    BY Sizes DEF Places
  <2> QED
    BY <1>2, <2>1 DEF Behind
<1>5. Term!Moved(0, 0)
  <2>1. 0 \in Rows /\ 0 \in Cols /\ 0 = 0 * Width + 0
    BY Sizes DEF Rows, Cols
  <2> QED
    BY <1>3, <2>1, Moved
<1>6. Shown(q) = [r \in Rows |-> [c \in Cols |-> Blank]]
  <2>1. ASSUME NEW r \in Rows, NEW c \in Cols PROVE q[r * Width + c] = Blank
    <3>1. PICK i \in Places : i = r * Width + c /\ i < Size
      <4>1. r * Width + c \in Places /\ r * Width + c \in 0..Size - 1
        BY PlaceOf DEF Rows, Cols
      <4> QED
        BY <4>1, Sizes
    <3> QED
      BY <1>2, <3>1
  <2> QED
    BY <2>1, Zenon DEF Shown
<1>7. Shown(ptr)' = [r \in Rows |-> [c \in Cols |-> Blank]] /\ Behind(ptr)' = Behind(ptr)
  BY <1>1, <1>3, <1>4, <1>6, Untouched
<1>8. Term!Asked([op |-> "set mode"])
  BY Same, Zenon DEF SetMode
<1> QED
  BY <1>5, <1>7, <1>8, Zenon
     DEF Term!Clear, Shown, Behind, Rows, Cols, Term!Rows, Term!Cols, Blank, NoChar, Term!NoChar

(* The areas of the calls, and the amount that reaches the driver.         *)
LEMMA Amounts ==
    ASSUME NEW area \in Areas, NEW n \in -Height..Height
    PROVE  /\ OnScreen(area) /\ n % Short \in Nat
           /\ n \in 0..area.bottom - area.top + 1 => n % Short = n /\ Fits(n, area)
<1>1. OnScreen(area)
  BY VgaAssumption DEF OnScreen, Rows, Cols
<1>2. Short \in Nat \ {0}
  BY VgaAssumption
<1>3. n \in Int /\ Height <= Size
  <2>1. Height * 1 <= Height * Width
    <3>1. 1 * Height <= Width * Height
      BY Sizes, Larger
    <3> QED
      BY <3>1, Sizes, SMTT(30)
  <2> QED
    BY <2>1, Sizes
<1>4. n >= 0 => n < Short
  BY <1>3, Sizes
<1>5. n % Short \in Nat
  BY <1>2, <1>3
<1>6. n >= 0 => n % Short = n
  BY <1>2, <1>3, <1>4
<1> QED
  BY <1>1, <1>5, <1>6 DEF Fits

LEMMA ScrollStep ==
    ASSUME TypeOK, NEW area \in Areas, NEW n \in -Height..Height, NEW a \in Attrs \union {NoAttr},
           Scroll(area, n, a)
    PROVE  Term!Scroll(area, n, a)
<1>1. ASSUME n \in 0..area.bottom - area.top + 1
      PROVE  Shown(ptr)' = Term!Scrolled(Shown(ptr), n, a, area) /\ Behind(ptr)' = Behind(ptr)
  <2>1. OnScreen(area) /\ n % Short = n /\ Fits(n, area) /\ n \in Int
    BY <1>1, Amounts
  <2>2. PICK p, q : p = ptr /\ q = ptr'
    OBVIOUS
  <2>3. Scrolls(p, q, n, a, area)
    BY <2>1, <2>2 DEF Scroll, Scrolls
  <2>4. Moves(p, q, n, a, area)
    BY <2>1, <2>3, ScrollMoves
  <2>5. Behind(q) = Behind(p) /\ Shown(q) = Term!Scrolled(Shown(p), n, a, area)
    BY <2>1, <2>4, ScrollKeeps, ScrollShown
  <2> QED
    BY <2>2, <2>5, Untouched
<1>2. cursor' = cursor
  BY DEF Scroll
<1>3. Term!Asked([op |-> "scroll", area |-> area, n |-> n, attr |-> a])
  BY Same, Zenon DEF Scroll
<1> QED
  BY <1>1, <1>2, <1>3, Zenon DEF Term!Scroll, Shown, Behind, Rows, Cols

LEMMA WriteStringStep ==
    ASSUME TypeOK, NEW ch1 \in Chars, NEW ch2 \in Chars, NEW a \in Attrs \union {NoAttr},
           WriteString(<<ch1, ch2>>, a)
    PROVE  Term!Write(<<ch1, ch2>>, a)
<1>1. PICK p \in Array : p = ptr
  BY Fields
<1>2. PICK first \in 0..Short - 1 :
        first = cursor /\ first = (cursor \div Width) * Width + (cursor % Width)
  <2>1. cursor \in Nat /\ cursor \in 0..Short - 1
    BY Fields, Sizes
  <2> QED
    BY <2>1, Sizes, DivMod
<1>3. PICK text : text = <<ch1, ch2>>
  OBVIOUS
<1>4. Len(text) = 2
  BY <1>3
<1>5. PICK end \in Int : end = first + Len(text) /\ end = first + 2
  <2>1. first \in Int /\ first + 2 \in Int
    BY Sizes
  <2> QED
    BY <1>4, <2>1
<1> DEFINE Now(i, cell) ==
             IF i \in first..end - 1
               THEN [ch |-> text[i - first + 1], attr |-> IF a = NoAttr THEN cell.attr ELSE a]
               ELSE cell
<1>6. PICK q : q = [i \in Places |-> Now(i, p[i])]
  OBVIOUS
<1>7. ptr' = q /\ cursor' = end % Short
  BY <1>1, <1>2, <1>3, <1>5, <1>6 DEF WriteString
<1>8. Shown(ptr)' = [r \in Rows |-> [c \in Cols |-> Now(r * Width + c, Shown(ptr)[r][c])]]
  <2> HIDE DEF Now
  <2>1. ASSUME NEW r \in Rows, NEW c \in Cols
        PROVE  q[r * Width + c] = Now(r * Width + c, Shown(p)[r][c])
    <3>1. r * Width + c \in Places
      BY PlaceOf DEF Rows, Cols
    <3>2. Shown(p)[r][c] = p[r * Width + c]
      BY DEF Shown
    <3> QED
      BY <1>6, <3>1, <3>2
  <2>2. Shown(q) = [r \in Rows |-> [c \in Cols |-> Now(r * Width + c, Shown(p)[r][c])]]
    BY <2>1, Zenon DEF Shown
  <2> QED
    BY <1>1, <1>7, <2>2, Untouched
<1>9. ASSUME end <= Height * Width
      PROVE  Term!Moved(end \div Width, end % Width) /\ Behind(ptr)' = Behind(ptr)
  <2>1. end \in Nat /\ end < Short /\ end <= Size
    BY <1>2, <1>5, <1>9, Sizes
  <2>2. cursor' = end
    BY <1>7, <2>1, Sizes
  <2>3. Term!Moved(end \div Width, end % Width)
    BY <2>2, Zenon DEF Term!Moved
  <2>4. ASSUME NEW i \in Size..Short PROVE q[i] = p[i]
    <3>1. i \in Places /\ ~(i \in first..end - 1)
      BY <1>2, <2>1, Sizes DEF Places
    <3> QED
      BY <1>6, <3>1
  <2>5. Behind(q) = Behind(p)
    BY <2>4 DEF Behind
  <2> QED
    BY <1>1, <1>7, <2>3, <2>5, Untouched
<1>10. Term!Place(cursor \div Width, cursor % Width) = first
  BY <1>2, Zenon DEF Term!Place
<1>11. Term!Asked([op |-> "write", text |-> text, attr |-> a])
  BY <1>3, Same, Zenon DEF WriteString
<1>12. Term!Write(text, a)
  BY <1>5, <1>8, <1>9, <1>10, <1>11, Zenon
     DEF Term!Write, Term!Place, Term!Recolor, Term!NoAttr, NoAttr, Shown, Behind, Rows, Cols,
         Term!Rows, Term!Cols
<1> QED
  BY <1>3, <1>12

-----------------------------------------------------------------------------
(* Every call leaves cells and a cursor of 16 bits.                        *)

LEMMA WordKept ==
    ASSUME NEW n \in Int PROVE n % Short \in 0..Short - 1
  BY VgaAssumption

LEMMA CursorMovesTyped ==
    ASSUME TypeOK, CarriageReturn \/ LineFeed \/ BackSpace \/ Tab
    PROVE  TypeOK'
<1>1. cursor \in 0..Short - 1 /\ cursor \in Nat /\ ptr \in Array
  BY Fields, Sizes
<1>2. cursor \div Width \in Nat /\ cursor % Width \in 0..Width - 1
      /\ cursor = (cursor \div Width) * Width + (cursor % Width)
  BY <1>1, Sizes, DivMod
<1>3. PICK q \in Nat, c \in 0..Width - 1 :
        q = cursor \div Width /\ c = cursor % Width /\ cursor = q * Width + c
  BY <1>2
<1>4. q * Width \in Nat /\ LineStart = q * Width + 0 /\ LineStart \in 0..Short - 1
  <2>1. q * Width \in Nat
    BY Sizes, SMTT(30)
  <2> QED
    BY <1>1, <1>3, <2>1, Sizes DEF LineStart
<1>5. CASE CarriageReturn
  BY <1>1, <1>4, <1>5 DEF CarriageReturn, TypeOK, Array
<1>6. CASE LineFeed
  <2>1. LineStart \div Width = q
    <3>1. 0 \in 0..Width - 1
      BY Sizes
    <3> QED
      BY <1>4, <3>1, Sizes, OnlyOne
  <2>2. CASE q < Height - 1
    <3>1. (q + 2) * Width <= Height * Width /\ (q + 2) * Width = q * Width + Width + Width
      BY <2>2, Sizes, Larger, SMTT(30)
    <3>2. LineStart + Width \in 0..Short - 1
      BY <1>4, <3>1, Sizes
    <3> QED
      BY <1>1, <1>6, <2>1, <2>2, <3>2 DEF LineFeed, TypeOK, Array
  <2>3. CASE ~(q < Height - 1)
    <3>1. ScrollUp(ptr) \in Array
      BY <1>1, ScrollUpShown
    <3> QED
      BY <1>4, <1>6, <2>1, <2>3, <3>1 DEF LineFeed, TypeOK, Array
  <2> QED
    BY <2>2, <2>3
<1>7. CASE BackSpace
  <2>1. cursor' \in 0..Short - 1
    <3>1. c # 0 => cursor - 1 \in 0..Short - 1
      BY <1>1, <1>3, <1>4, Sizes
    <3> QED
      BY <1>1, <1>3, <1>7, <3>1 DEF BackSpace
  <2> QED
    BY <1>1, <1>7, <2>1 DEF BackSpace, TypeOK, Array
<1>8. CASE Tab
  <2>1. NextStop \in Int
    BY <1>1, Sizes DEF NextStop
  <2> QED
    BY <1>1, <1>8, <2>1, WordKept DEF Tab, TypeOK, Array
<1> QED
  BY <1>5, <1>6, <1>7, <1>8

LEMMA PutTyped == ASSUME TypeOK, NEW ch \in Chars, Put(ch) PROVE TypeOK'
<1>1. ptr[cursor] \in Cell /\ cursor \in Int
  BY Fields, Sizes DEF Array
<1>2. PICK cell \in Cell : cell = [ptr[cursor] EXCEPT !.ch = ch]
  BY <1>1 DEF Cell
<1>3. PICK p : p = [ptr EXCEPT ![cursor] = cell]
  OBVIOUS
<1>4. p \in Array /\ p = [ptr EXCEPT ![cursor].ch = ch]
  BY <1>2, <1>3, CellSet
<1>5. PICK next \in 0..Short - 1 : next = (cursor + 1) % Short
  BY <1>1, WordKept
<1>6. IF next >= Size THEN ptr' = ScrollUp(p) /\ cursor' = next - Width
      ELSE ptr' = p /\ cursor' = next
  BY <1>4, <1>5 DEF Put
<1>7. next >= Size => next - Width \in 0..Short - 1
  <2>1. 1 * Width <= Height * Width
    BY Sizes, Larger
  <2> QED
    BY <2>1, Sizes
<1>8. ScrollUp(p) \in Array
  BY <1>4, ScrollUpShown
<1> QED
  BY <1>4, <1>6, <1>7, <1>8 DEF TypeOK, Array

LEMMA WriteStringTyped ==
    ASSUME TypeOK, NEW ch1 \in Chars, NEW ch2 \in Chars, NEW a \in Attrs \union {NoAttr},
           WriteString(<<ch1, ch2>>, a)
    PROVE  TypeOK'
<1>1. cursor \in Int /\ ptr \in Array
  BY Fields, Sizes
<1>2. PICK text : text = <<ch1, ch2>>
  OBVIOUS
<1>3. Len(text) = 2 /\ text[1] \in Chars /\ text[2] \in Chars
  BY <1>2
<1>4. cursor' \in 0..Short - 1
  BY <1>1, <1>2, <1>3, WordKept DEF WriteString
<1> DEFINE now(i) == IF i \in cursor..cursor + Len(text) - 1
                       THEN [ch |-> text[i - cursor + 1],
                             attr |-> IF a = NoAttr THEN ptr[i].attr ELSE a]
                       ELSE ptr[i]
<1>5. ptr' = [i \in Places |-> now(i)]
  BY <1>2, Zenon DEF WriteString
<1>6. ASSUME NEW i \in Places PROVE now(i) \in Cell
  <2>1. i \in Int /\ ptr[i] \in Cell
    BY <1>1, Sizes DEF Places, Array
  <2>2. CASE i \in cursor..cursor + Len(text) - 1
    <3>1. i - cursor + 1 \in {1, 2}
      BY <1>1, <1>3, <2>1, <2>2
    <3>2. text[i - cursor + 1] \in Chars
      BY <1>3, <3>1
    <3>3. (IF a = NoAttr THEN ptr[i].attr ELSE a) \in Attrs
      BY <2>1 DEF Cell
    <3> QED
      BY <2>2, <3>2, <3>3 DEF Cell
  <2> QED
    BY <2>1, <2>2
<1> HIDE DEF now
<1> QED
  BY <1>4, <1>5, <1>6 DEF TypeOK

LEMMA OthersTyped ==
    ASSUME TypeOK,
           \/ SetMode
           \/ \E pos \in 0..Short - 1 : SetCursorPos(pos)
           \/ \E ch \in Chars, a \in Attrs : WriteCharAttr(ch, a)
           \/ \E area \in Areas, n \in -Height..Height, a \in Attrs \union {NoAttr} :
                Scroll(area, n, a)
    PROVE  TypeOK'
<1>1. CASE SetMode
  <2>1. Blank \in Cell /\ 0 \in 0..Short - 1
    BY VgaAssumption DEF Blank, Cell
  <2>2. ptr' \in Array /\ cursor' = 0
    BY <1>1, <2>1, Fields DEF SetMode, Blank, Array
  <2> QED
    BY <2>1, <2>2 DEF TypeOK, Array
<1>2. ASSUME NEW pos \in 0..Short - 1, SetCursorPos(pos) PROVE TypeOK'
  BY <1>2 DEF SetCursorPos, TypeOK
<1>3. ASSUME NEW ch \in Chars, NEW a \in Attrs, WriteCharAttr(ch, a) PROVE TypeOK'
  <2>1. PICK cell \in Cell : cell = [ch |-> ch, attr |-> a]
    BY DEF Cell
  <2>2. ptr' = [ptr EXCEPT ![cursor] = cell] /\ cursor' = cursor
    BY <1>3, <2>1 DEF WriteCharAttr
  <2> QED
    BY <2>2 DEF TypeOK
<1>4. ASSUME NEW area \in Areas, NEW n \in -Height..Height, NEW a \in Attrs \union {NoAttr},
             Scroll(area, n, a)
      PROVE  TypeOK'
  <2>1. PICK m \in Nat : m = n % Short /\ OnScreen(area)
    BY Amounts
  <2>2. PICK p \in Array : p = ptr
    BY Fields
  <2>5. PICK q : q = ptr'
    OBVIOUS
  <2>3. Scrolls(p, q, m, a, area) /\ cursor' = cursor
    BY <1>4, <2>1, <2>2, <2>5 DEF Scroll, Scrolls
  <2>4. q \in Array
    BY <2>1, <2>3, ScrollTyped
  <2> QED
    BY <2>3, <2>4, <2>5 DEF TypeOK, Array
<1> QED
  BY <1>1, <1>2, <1>3, <1>4

-----------------------------------------------------------------------------
(* The theorems.                                                           *)

LEMMA Steps == ASSUME TypeOK, Next PROVE TypeOK' /\ Term!Next
<1>1. CASE CarriageReturn \/ LineFeed \/ BackSpace \/ Tab
  <2>1. Term!CarriageReturn \/ Term!LineFeed \/ Term!BackSpace \/ Term!Tab
    BY <1>1, CarriageReturnStep, LineFeedStep, BackSpaceStep, TabStep
  <2> QED
    BY <1>1, <2>1, CursorMovesTyped, Zenon DEF Term!Next
<1>2. CASE SetMode
  <2>1. Grey \in Attrs
    BY VgaAssumption
  <2> QED
    BY <1>2, <2>1, SetModeStep, OthersTyped, Zenon DEF Term!Next
<1>3. ASSUME NEW pos \in 0..Short - 1, SetCursorPos(pos) PROVE TypeOK' /\ Term!Next
  BY <1>3, SetCursorPosStep, OthersTyped, Zenon DEF Term!Next
<1>4. ASSUME NEW ch \in Chars, Put(ch) PROVE TypeOK' /\ Term!Next
  BY <1>4, PutStep, PutTyped, Zenon DEF Term!Next
<1>5. ASSUME NEW ch \in Chars, NEW a \in Attrs, WriteCharAttr(ch, a) PROVE TypeOK' /\ Term!Next
  BY <1>5, WriteCharAttrStep, OthersTyped, Zenon DEF Term!Next
<1>6. ASSUME NEW ch1 \in Chars, NEW ch2 \in Chars, NEW a \in Attrs \union {NoAttr},
             WriteString(<<ch1, ch2>>, a)
      PROVE  TypeOK' /\ Term!Next
  BY <1>6, WriteStringStep, WriteStringTyped, Zenon DEF Term!Next, NoAttr, Term!NoAttr
<1>7. ASSUME NEW area \in Areas, NEW n \in -Height..Height, NEW a \in Attrs \union {NoAttr},
             Scroll(area, n, a)
      PROVE  TypeOK' /\ Term!Next
  BY <1>7, ScrollStep, OthersTyped, Zenon DEF Term!Next, NoAttr, Term!NoAttr
<1> QED
  BY <1>1, <1>2, <1>3, <1>4, <1>5, <1>6, <1>7, Zenon DEF Next

(* No call, whatever its arguments, leaves anything but cells and a cursor *)
(* of 16 bits.                                                             *)
THEOREM TypeCorrect == Spec => []TypeOK
<1>1. Init => TypeOK
  BY Starts
<1>2. TypeOK /\ [Next]_vars => TypeOK'
  <2> SUFFICES ASSUME TypeOK, [Next]_vars PROVE TypeOK'
    OBVIOUS
  <2>1. CASE Next
    BY <2>1, Steps
  <2>2. CASE UNCHANGED vars
    BY <2>2 DEF vars, TypeOK
  <2> QED
    BY <2>1, <2>2
<1> QED
  BY <1>1, <1>2, PTL DEF Spec

(* vga.c's one array and linear cursor are a terminal: every call is the   *)
(* step of the screen of rows and columns that the call's name says, with  *)
(* its arguments, for a screen of every size, every area on it and calls   *)
(* in any order; Terminal names the arguments for which it says nothing.   *)
THEOREM VgaIsTerminal == Spec => IsTerminal
<1>1. Init => Term!Init
  BY Starts
<1>2. TypeOK /\ [Next]_vars =>
        [Term!Next]_<<[r \in 0..Height - 1 |-> [c \in 0..Width - 1 |-> ptr[r * Width + c]]],
                      cursor \div Width, cursor % Width,
                      [i \in Size..Short |-> ptr[i]], asked, nOps>>
  <2> SUFFICES ASSUME TypeOK, [Next]_vars
               PROVE  \/ Term!Next
                      \/ /\ Shown(ptr)' = Shown(ptr)
                         /\ (cursor \div Width)' = cursor \div Width
                         /\ (cursor % Width)' = cursor % Width
                         /\ Behind(ptr)' = Behind(ptr)
                         /\ asked' = asked /\ nOps' = nOps
    BY Zenon DEF Shown, Behind, Rows, Cols
  <2>1. CASE Next
    BY <2>1, Steps
  <2>2. CASE UNCHANGED vars
    BY <2>2 DEF vars, Shown, Behind, Rows, Cols
  <2> QED
    BY <2>1, <2>2
<1> QED
  BY <1>1, <1>2, TypeCorrect, PTL DEF Spec, IsTerminal, Term!Spec
=============================================================================
