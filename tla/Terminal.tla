------------------------------ MODULE Terminal ------------------------------
(***************************************************************************)
(* What the text console promises: a screen of rows and columns with a     *)
(* cursor.  Each call has its own effect: text goes on in the next row at  *)
(* the end of one, and the screen moves up when it goes on below the last. *)
(* The calls that write at the cursor promise nothing if it is not on the  *)
(* screen, nor does a text that does not fit on it, a tab that has no stop *)
(* left, or a scroll by less than nothing or more than the area has.  All  *)
(* others leave alone what lies behind the screen.                         *)
(***************************************************************************)
EXTENDS Integers, Sequences

CONSTANTS Width, Height, TabStop, Chars, Attrs,
          Areas,     (* the areas that are scrolled, [top, bottom, left, right] *)
          Positions  (* the places the cursor can be moved to              *)

VARIABLES screen,    (* the cells: a character and an attribute            *)
          row, col,  (* the cursor                                         *)
          behind,    (* what lies behind the screen                        *)
          asked,     (* the last call, with its arguments                  *)
          nOps       (* the calls so far                                   *)

Rows == 0..Height - 1
Cols == 0..Width - 1
NoChar == "none"     (* character 0 *)
NoAttr == "keep"     (* the attribute is left as it is *)
Cell == [ch : Chars \union {NoChar}, attr : Attrs]

Recolor(cell, a) == IF a = NoAttr THEN cell.attr ELSE a

(* The area moves up by n; the rows that come free, all of them if n = 0,  *)
(* are emptied.                                                            *)
Inside(area, r, c) == r \in area.top..area.bottom /\ c \in area.left..area.right
Scrolled(s, n, a, area) ==
    [r \in Rows |-> [c \in Cols |->
        IF ~ Inside(area, r, c) THEN s[r][c]
        ELSE IF n # 0 /\ Inside(area, r + n, c) THEN s[r + n][c]
        ELSE [ch |-> NoChar, attr |-> Recolor(s[r][c], a)]]]

Everything == [top |-> 0, bottom |-> Height - 1, left |-> 0, right |-> Width - 1]

Init ==
    /\ screen \in [Rows -> [Cols -> Cell]] /\ row = 0 /\ col = 0
    /\ nOps = 0 /\ asked = [op |-> "set mode"]

Asked(call) == asked' = call /\ nOps' = nOps + 1

Visible == row < Height
Moved(r, c) == row' = r /\ col' = c

(* On to the next row; s is what is on the screen by then.                 *)
NextRow(s) ==
    /\ IF row < Height - 1
         THEN screen' = s /\ Moved(row + 1, 0)
         ELSE /\ screen' = Scrolled(s, 1, NoAttr, Everything)
              /\ Moved(row, 0)
    /\ UNCHANGED behind

Put(ch) ==
    LET s == [screen EXCEPT ![row][col].ch = ch] IN
    /\ Asked([op |-> "put", ch |-> ch])
    /\ Visible => IF col < Width - 1
                    THEN screen' = s /\ Moved(row, col + 1) /\ UNCHANGED behind
                    ELSE NextRow(s)

CarriageReturn ==
    /\ Asked([op |-> "carriage return"])
    /\ Visible => Moved(row, 0) /\ UNCHANGED <<screen, behind>>

LineFeed ==
    /\ Asked([op |-> "line feed"])
    /\ Visible => NextRow(screen)

BackSpace ==
    /\ Asked([op |-> "back space"])
    /\ Visible => Moved(row, IF col = 0 THEN 0 ELSE col - 1) /\ UNCHANGED <<screen, behind>>

Tab ==
    LET c == col - (col % TabStop) + TabStop IN
    /\ Asked([op |-> "tab"])
    /\ c < Width /\ Visible => Moved(row, c) /\ UNCHANGED <<screen, behind>>
    /\ c >= Width /\ row < Height - 1 => NextRow(screen)

SetCell(ch, a) ==
    /\ Asked([op |-> "set cell", ch |-> ch, attr |-> a])
    /\ Visible => /\ screen' = [screen EXCEPT ![row][col] = [ch |-> ch, attr |-> a]]
                  /\ UNCHANGED <<row, col, behind>>

(* A string, the cursor behind it.  One that ends with the screen takes    *)
(* the cursor off it.                                                      *)
Place(r, c) == r * Width + c
Write(text, a) ==
    LET first == Place(row, col)
        end == first + Len(text)
        New(p, cell) == IF p \in first..end - 1
                          THEN [ch |-> text[p - first + 1], attr |-> Recolor(cell, a)] ELSE cell
    IN /\ Asked([op |-> "write", text |-> text, attr |-> a])
       /\ end <= Height * Width =>
            /\ screen' = [r \in Rows |-> [c \in Cols |-> New(Place(r, c), screen[r][c])]]
            /\ Moved(end \div Width, end % Width)
            /\ UNCHANGED behind

MoveTo(place) ==
    /\ Asked([op |-> "move", place |-> place])
    /\ Moved(place \div Width, place % Width)
    /\ UNCHANGED <<screen, behind>>

Scroll(area, n, a) ==
    /\ Asked([op |-> "scroll", area |-> area, n |-> n, attr |-> a])
    /\ UNCHANGED <<row, col>>
    /\ n \in 0..area.bottom - area.top + 1 =>
         screen' = Scrolled(screen, n, a, area) /\ UNCHANGED behind

Clear(a) ==
    /\ Asked([op |-> "set mode"])
    /\ screen' = [r \in Rows |-> [c \in Cols |-> [ch |-> NoChar, attr |-> a]]]
    /\ Moved(0, 0)
    /\ UNCHANGED behind

Next ==
    \/ CarriageReturn \/ LineFeed \/ BackSpace \/ Tab
    \/ \E place \in Positions : MoveTo(place)
    \/ \E ch \in Chars : Put(ch)
    \/ \E ch \in Chars, a \in Attrs : SetCell(ch, a)
    \/ \E ch1, ch2 \in Chars, a \in Attrs \union {NoAttr} : Write(<<ch1, ch2>>, a)
    \/ \E area \in Areas, n \in -Height..Height, a \in Attrs \union {NoAttr} : Scroll(area, n, a)
    \/ \E a \in Attrs : Clear(a)

Spec == Init /\ [][Next]_<<screen, row, col, behind, asked, nOps>>
=============================================================================
