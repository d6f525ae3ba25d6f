----------------------------- MODULE MCKeyboard -----------------------------
(***************************************************************************)
(* Every kind of key but the right control and alt, whose releases the     *)
(* driver does not see: it leaves their modifiers set.                     *)
(***************************************************************************)
EXTENDS Keyboard

LeftHand == {"lshift", "rshift", "lctrl", "lalt", "caps", "insert", "pause", "a", "one", "slash"}
=============================================================================
