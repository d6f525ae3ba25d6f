------------------------------ MODULE MCFloppy ------------------------------
(***************************************************************************)
(* A medium of two cylinders with two sectors on each side; reads of every *)
(* address, one to three sectors long.                                     *)
(***************************************************************************)
EXTENDS Floppy

=============================================================================
