-------------------------------- MODULE MCVga -------------------------------
(***************************************************************************)
(* A screen of three rows and four columns, of which the whole, the middle *)
(* of the last two rows and one row are scrolled.                          *)
(***************************************************************************)
EXTENDS Vga

MCAreas ==
    {[top |-> 0, bottom |-> 2, left |-> 0, right |-> 3],
     [top |-> 1, bottom |-> 2, left |-> 1, right |-> 2],
     [top |-> 0, bottom |-> 0, left |-> 2, right |-> 3]}
=============================================================================
