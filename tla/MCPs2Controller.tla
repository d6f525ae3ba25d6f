-------------------------- MODULE MCPs2Controller ---------------------------
(***************************************************************************)
(* Both ports, every combination of devices present.                       *)
(***************************************************************************)
EXTENDS Ps2Controller
=============================================================================
