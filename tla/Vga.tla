-------------------------------- MODULE Vga ---------------------------------
(***************************************************************************)
(* The text console of the VGA driver (src/hw/vga.c): one array of cells   *)
(* in video memory and a linear cursor in two registers of the controller. *)
(* The calls run one at a time, whatever their arguments.  A text is       *)
(* written character by character, each from the cursor register to the    *)
(* cursor register.  Characters and attributes are the two bytes of a      *)
(* cell.  The cells go on behind the screen as far as a cursor of 16 bits  *)
(* reaches; those in front of it are left out.                             *)
(***************************************************************************)
EXTENDS Integers, Sequences

CONSTANTS Width, Height,  (* of mode 3: 80 and 25                          *)
          TabStop,        (* 8                                             *)
          Chars, Attrs,
          Grey,           (* attribute 7                                   *)
          Short,          (* 2^16, the numbers of 16 bits                  *)
          Areas,          (* bound: the areas that are scrolled            *)
          MaxOps          (* bound: calls                                  *)

ASSUME VgaAssumption ==
    /\ {Width, Height, TabStop, Short} \subseteq Nat \ {0} /\ Width % TabStop = 0
    /\ Width * Height + TabStop <= Short
    /\ Areas \subseteq [top : 0..Height - 1, bottom : 0..Height - 1,
                       left : 0..Width - 1, right : 0..Width - 1]
    /\ \A area \in Areas : area.top <= area.bottom /\ area.left <= area.right
    /\ Grey \in Attrs /\ MaxOps \in Nat

VARIABLES ptr,      (* buf_base[], the screen and the memory behind it     *)
          cursor,   (* CRTC registers 0Eh and 0Fh                          *)
          asked,    (* the last call, with its arguments                   *)
          nOps
vars == <<ptr, cursor, asked, nOps>>

NoChar == "none"
NoAttr == "keep"
Cell == [ch : Chars \union {NoChar}, attr : Attrs]
Size == Width * Height
Places == 0..Short      (* two characters written at the last place end there *)

(* vga_scroll_area, on the array p.                                        *)
ScrollArea(p, amount, attr, top, bottom, left, right) ==
    LET row(i) == i \div Width
        inside(i) == i % Width \in left..right
        from == IF amount > 0 THEN top + amount ELSE top
        to   == IF amount < 0 THEN bottom + amount ELSE bottom
        clear == IF amount > 0 THEN bottom - amount + 1..bottom
                 ELSE IF amount < 0 THEN top..top - amount - 1
                 ELSE top..bottom
        empty(i) == [ch |-> NoChar, attr |-> IF attr = NoAttr THEN p[i].attr ELSE attr]
    IN [i \in Places |->
          CASE inside(i) /\ row(i) \in clear -> empty(i)
            [] inside(i) /\ amount # 0 /\ row(i) + amount \in from..to /\ row(i) \notin clear
                 -> p[i + amount * Width]
            [] OTHER -> p[i]]

ScrollUp(p) == ScrollArea(p, 1, NoAttr, 0, Height - 1, 0, Width - 1)

(* main's first call, set_mode, has cleared the screen.                    *)
Init ==
    /\ ptr = [i \in Places |-> [ch |-> NoChar, attr |-> Grey]]
    /\ cursor = 0
    /\ asked = [op |-> "set mode"]
    /\ nOps = 0

(* Cells are cells, and the cursor a number of 16 bits (vga.c:221-230).    *)
TypeOK ==
    /\ ptr \in [Places -> Cell]
    /\ cursor \in 0..Short - 1

Call(call) == nOps < MaxOps /\ nOps' = nOps + 1 /\ asked' = call

-----------------------------------------------------------------------------
(* vga_write_ansi_tty, one character.  It knows no escape sequences.       *)

LineStart == cursor - (cursor % Width)

CarriageReturn ==
    /\ Call([op |-> "carriage return"])
    /\ cursor' = LineStart
    /\ UNCHANGED ptr

(* A faulty variant: the last row is taken for one with another below it.  *)
LineFeedPastEnd ==
    /\ Call([op |-> "line feed"])
    /\ IF LineStart \div Width < Height
         THEN cursor' = LineStart + Width /\ UNCHANGED ptr
         ELSE cursor' = LineStart /\ ptr' = ScrollUp(ptr)

LineFeed ==
    /\ Call([op |-> "line feed"])
    /\ IF LineStart \div Width < Height - 1
         THEN cursor' = LineStart + Width /\ UNCHANGED ptr
         ELSE cursor' = LineStart /\ ptr' = ScrollUp(ptr)

BackSpace ==
    /\ Call([op |-> "back space"])
    /\ cursor' = IF cursor % Width # 0 THEN cursor - 1 ELSE cursor
    /\ UNCHANGED ptr

NextStop == cursor - (cursor % TabStop) + TabStop

(* In the last columns of the last row the next stop is behind the screen. *)
Tab ==
    /\ Call([op |-> "tab"])
    /\ cursor' = NextStop % Short
    /\ UNCHANGED ptr

Put(ch) ==
    LET written == [ptr EXCEPT ![cursor].ch = ch]
        next == (cursor + 1) % Short
    IN /\ Call([op |-> "put", ch |-> ch])
       /\ IF next >= Size
            THEN ptr' = ScrollUp(written) /\ cursor' = next - Width
            ELSE ptr' = written /\ cursor' = next

-----------------------------------------------------------------------------
(* The other calls.                                                        *)

SetCursorPos(pos) ==
    /\ Call([op |-> "move", place |-> pos])
    /\ cursor' = pos
    /\ UNCHANGED ptr

(* Neither wraps nor scrolls: what does not fit is written behind the      *)
(* screen.                                                                 *)
WriteString(str, attribute) ==
    /\ Call([op |-> "write", text |-> str, attr |-> attribute])
    /\ ptr' = [i \in Places |->
                 IF i \in cursor..cursor + Len(str) - 1
                   THEN [ch |-> str[i - cursor + 1],
                         attr |-> IF attribute = NoAttr THEN ptr[i].attr ELSE attribute]
                   ELSE ptr[i]]
    /\ cursor' = (cursor + Len(str)) % Short

WriteCharAttr(ch, attr) ==
    /\ Call([op |-> "set cell", ch |-> ch, attr |-> attr])
    /\ ptr' = [ptr EXCEPT ![cursor] = [ch |-> ch, attr |-> attr]]
    /\ UNCHANGED cursor

(* The system call passes on 16 bits of the amount without their sign.     *)
Scroll(area, amount, attr) ==
    /\ Call([op |-> "scroll", area |-> area, n |-> amount, attr |-> attr])
    /\ ptr' = ScrollArea(ptr, amount % Short, attr, area.top, area.bottom, area.left, area.right)
    /\ UNCHANGED cursor

SetMode ==
    /\ Call([op |-> "set mode"])
    /\ ptr' = [i \in Places |-> IF i < Size THEN [ch |-> NoChar, attr |-> Grey] ELSE ptr[i]]
    /\ cursor' = 0

(* Scrolls are asked for by up to the screen's height in either direction. *)
Next ==
    \/ CarriageReturn \/ LineFeed \/ BackSpace \/ Tab \/ SetMode
    \/ \E pos \in 0..Short - 1 : SetCursorPos(pos)
    \/ \E ch \in Chars : Put(ch)
    \/ \E ch \in Chars, a \in Attrs : WriteCharAttr(ch, a)
    \/ \E ch1, ch2 \in Chars, a \in Attrs \union {NoAttr} : WriteString(<<ch1, ch2>>, a)
    \/ \E area \in Areas, n \in -Height..Height, a \in Attrs \union {NoAttr} : Scroll(area, n, a)

Spec == Init /\ [][Next]_vars

-----------------------------------------------------------------------------
(* The array and the linear cursor are a screen of rows and columns: every *)
(* call does there what it is called for, and nothing else.  Text goes on  *)
(* in the next row at a row's end and after a line feed, the screen moves  *)
(* up below its last row, nothing is written beside the screen, and no     *)
(* character is lost, from any cursor on the screen and after any          *)
(* scrolling (vga.c:257-391).  What Terminal promises nothing about may    *)
(* take the cursor off the screen.                                         *)
Term == INSTANCE Terminal WITH
            screen <- [r \in 0..Height - 1 |-> [c \in 0..Width - 1 |-> ptr[r * Width + c]]],
            row <- cursor \div Width, col <- cursor % Width,
            behind <- [i \in Size..Short |-> ptr[i]],
            Positions <- 0..Short - 1
IsTerminal == Term!Spec
=============================================================================
