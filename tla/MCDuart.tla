------------------------------ MODULE MCDuart -------------------------------
(***************************************************************************)
(* One channel, as main.c uses the DUART, and both of them.                *)
(***************************************************************************)
EXTENDS Duart

OneChannel == <<"a">>
BothChannels == <<"a", "b">>
NoErrors == {FALSE}
=============================================================================
