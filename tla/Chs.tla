-------------------------------- MODULE Chs ---------------------------------
(***************************************************************************)
(* Sector addresses (libehbcfw/src/disk.c) and their use by the floppy     *)
(* driver.  A linear address counts all cylinders of the first head before *)
(* those of the second, whereas a diskette is written cylinder by          *)
(* cylinder: floppy_read's "chs hack" turns the one into the other.        *)
(***************************************************************************)
EXTENDS Integers

(* A geometry, and an address within it; sectors count from 1.             *)
IsGeometry(g) == /\ g.cylinder \in Nat \ {0}
                 /\ g.head \in Nat \ {0}
                 /\ g.sector \in Nat \ {0}
Capacity(g) == g.head * g.cylinder * g.sector

NoChs == [cylinder |-> -1, head |-> -1, sector |-> -1]

LbaToChs(lba, g) ==
    LET track == lba \div g.sector
    IN IF track \div g.cylinder >= g.head THEN NoChs
       ELSE [cylinder |-> track % g.cylinder, head |-> track \div g.cylinder,
             sector |-> (lba % g.sector) + 1]

ChsToLba(chs, g) ==
    IF \/ chs.sector < 1 \/ chs.sector >= g.sector
       \/ chs.cylinder >= g.cylinder
       \/ chs.head >= g.head
      THEN -1
      ELSE (chs.head * g.cylinder + chs.cylinder) * g.sector + chs.sector - 1

(* A faulty variant of what follows: addresses as they are.                *)
HackNothing(chs, g) == chs

(* floppy_read: odd cylinders go to the second side, and the second half   *)
(* of the tracks to the inner cylinders.                                   *)
Hack(chs, g) ==
    [cylinder |-> chs.cylinder \div 2 + (IF chs.head # 0 THEN g.cylinder \div 2 ELSE 0),
     head |-> chs.cylinder % 2,
     sector |-> chs.sector]

(* Where a diskette has a sector: both sides of a cylinder come first.     *)
OnMedium(c, h, s, g) == (c * 2 + h) * g.sector + s - 1
=============================================================================
