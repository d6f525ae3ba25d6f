----------------------------- MODULE MCRingBuf ------------------------------
(***************************************************************************)
(* RingBuf on a ring of three slots, shared by the foreground and the      *)
(* handler of level 2, as each ring of the DUART is (and kbbuf, with level *)
(* 3).  The foreground pushes, pops and flushes; the handler pushes and    *)
(* pops.                                                                   *)
(***************************************************************************)
EXTENDS RingBuf

MCOps == [c \in Ctx |-> IF c = 0 THEN {"push", "pop", "flush"} ELSE {"push", "pop"}]
=============================================================================
