------------------------------ MODULE RingBuf -------------------------------
(***************************************************************************)
(* ringbuf8 and the interrupt spin lock that guards it (src/ringbuf.c,     *)
(* src/spinlock.c, arch/m68k/irq.S), at the grain at which an interrupt    *)
(* can come between two accesses.                                          *)
(*                                                                         *)
(* There is one CPU.  Context 0 is the foreground; context l \in IrqLevels *)
(* is the handler of interrupt level l.  An interrupt is taken when its    *)
(* level is above the mask in SR; the handler then runs, nested on what it *)
(* interrupted, until its rte restores the interrupted mask.  The SCU      *)
(* holds a level back until its handler has acknowledged it, so a handler  *)
(* never interrupts itself; the acknowledgement is the last thing a        *)
(* handler does and is one step with its rte here.                         *)
(***************************************************************************)
EXTENDS Integers, Sequences

CONSTANTS Size,            (* ringbuf8.size                                *)
          Data,            (* bytes pushed                                 *)
          NoData,          (* an uninitialised byte                        *)
          IrqLevels,       (* levels whose handlers use this ring          *)
          Ops,             (* Ops[c]: the calls context c makes            *)
          StaleLevels      (* what the top byte of d0 may hold, see Unmask *)

Ctx == {0} \union IrqLevels

ASSUME SizeAssumption == Size \in Nat /\ Size >= 2
ASSUME LevelsAssumption == IrqLevels \subseteq 1..6 /\ StaleLevels \subseteq 0..7
ASSUME OpsAssumption == Ops \in [Ctx -> SUBSET {"push", "pop", "flush"}]
ASSUME NoDataAssumption == NoData \notin Data

VARIABLES mask,       (* interrupt mask level of SR                        *)
          cur,        (* the context the CPU is executing                  *)
          below,      (* below[l]: the context handler l interrupted       *)
          savedMask,  (* savedMask[l]: the mask in handler l's stack frame *)
          flag,       (* spinlock_irq.flag                                 *)
          irqLevel,   (* spinlock_irq.irq_level, as unlock will apply it   *)
          rptr, wptr, buf,
          pc,         (* pc[c]: where context c stands in its call         *)
          op,         (* op[c]: the call it is in                           *)
          reg,        (* reg[c]: the byte being pushed, or *data of a pop  *)
          ret,        (* ret[c]: what c's call is about to return, 0 or 1  *)
          got         (* got[c]: the byte a pop is about to return to c    *)

lockVars == <<mask, flag, irqLevel>>
cpuVars  == <<cur, below, savedMask>>
ringVars == <<rptr, wptr, buf>>
callVars == <<pc, op, reg, ret, got>>
vars == <<lockVars, cpuVars, ringVars, callVars>>

Slot == 0..(Size - 1)

(***************************************************************************)
(* The conditions of ringbuf8_pop and ringbuf8_push, and the pointer step  *)
(* they share.  Pointers are unsigned, so rptr - 1 matches no wptr when    *)
(* rptr is 0; the code's second disjunct covers that case.                 *)
(***************************************************************************)
Empty == rptr = wptr
(* A faulty variant: without the wrapped case of the full test.            *)
FullNoWrap == wptr = rptr - 1
Full  == wptr = rptr - 1 \/ (wptr = Size - 1 /\ rptr = 0)
(* A faulty variant: the pointer wraps one slot too late.                  *)
NextSlotLate(p) == IF p < Size THEN p + 1 ELSE 0
NextSlot(p) == IF p < Size - 1 THEN p + 1 ELSE 0

Init ==
    /\ mask = 0 /\ cur = 0
    /\ below = [l \in IrqLevels |-> 0]
    /\ savedMask = [l \in IrqLevels |-> 0]
    /\ flag = FALSE /\ irqLevel = 0
    /\ rptr = 0 /\ wptr = 0 /\ buf = [i \in Slot |-> NoData]
    /\ pc = [c \in Ctx |-> IF c = 0 THEN "run" ELSE "off"]
    /\ op = [c \in Ctx |-> "none"]
    /\ reg = [c \in Ctx |-> NoData]
    /\ ret = [c \in Ctx |-> 0]
    /\ got = [c \in Ctx |-> NoData]

Goto(c, from, to) ==
    /\ cur = c
    /\ pc[c] = from
    /\ pc' = [pc EXCEPT ![c] = to]

-----------------------------------------------------------------------------
(* Interrupts.                                                             *)

Interrupt(l) ==
    /\ pc[l] = "off"
    /\ l > mask
    /\ pc' = [pc EXCEPT ![l] = "run"]
    /\ below' = [below EXCEPT ![l] = cur]
    /\ savedMask' = [savedMask EXCEPT ![l] = mask]
    /\ cur' = l
    /\ mask' = l
    /\ UNCHANGED <<flag, irqLevel, ringVars, op, reg, ret, got>>

Return(l) ==
    /\ Goto(l, "run", "off")
    /\ cur' = below[l]
    /\ mask' = savedMask[l]
    /\ below' = [below EXCEPT ![l] = 0]
    /\ savedMask' = [savedMask EXCEPT ![l] = 0]
    /\ UNCHANGED <<flag, irqLevel, ringVars, op, reg, ret, got>>

-----------------------------------------------------------------------------
(* spinlock_irq_lock: remember the mask, mask everything, take the flag.   *)

Call(c, o, d) ==
    /\ o \in Ops[c]
    /\ Goto(c, "run", "save")
    /\ op' = [op EXCEPT ![c] = o]
    /\ reg' = [reg EXCEPT ![c] = IF o = "push" THEN d ELSE NoData]
    /\ UNCHANGED <<lockVars, cpuVars, ringVars, ret, got>>

(***************************************************************************)
(* get_irqmask_level leaves the level in the low word of d0 and whatever   *)
(* d0 held in the high word; the lock stores the long.  set_irqmask_level  *)
(* later reads its argument with move.b %sp@(4), the long's FIRST byte on  *)
(* this big-endian CPU, and keeps three bits of it.  So what unlock        *)
(* applies is a piece of a stale register: any member of StaleLevels.      *)
(***************************************************************************)
SaveLevel(c) ==
    /\ Goto(c, "save", "mask")
    /\ irqLevel' \in StaleLevels
    /\ UNCHANGED <<mask, flag, cpuVars, ringVars, op, reg, ret, got>>

(* A faulty variant: the flag is taken with interrupts still enabled.      *)
MaskNothing(c) ==
    /\ Goto(c, "mask", "take")
    /\ UNCHANGED <<lockVars, cpuVars, ringVars, op, reg, ret, got>>

(* set_irqmask_level(-1): the first byte of -1 gives level 7.              *)
MaskAll(c) ==
    /\ Goto(c, "mask", "take")
    /\ mask' = 7
    /\ UNCHANGED <<flag, irqLevel, cpuVars, ringVars, op, reg, ret, got>>

(* The test-and-set loop; a held flag keeps the context in the loop.       *)
TakeFlag(c) ==
    /\ ~flag
    /\ Goto(c, "take", "test")
    /\ flag' = TRUE
    /\ UNCHANGED <<mask, irqLevel, cpuVars, ringVars, op, reg, ret, got>>

-----------------------------------------------------------------------------
(* The bodies, between lock and unlock.                                    *)

(* A faulty variant: the early return forgets to unlock.                   *)
RefuseLocked(c) ==
    /\ \/ op[c] = "pop" /\ Empty
       \/ op[c] = "push" /\ Full
    /\ Goto(c, "test", "unmask")
    /\ ret' = [ret EXCEPT ![c] = 1]
    /\ UNCHANGED <<lockVars, cpuVars, ringVars, op, reg, got>>

Refuse(c) ==
    /\ \/ op[c] = "pop" /\ Empty
       \/ op[c] = "push" /\ Full
    /\ Goto(c, "test", "clear")
    /\ ret' = [ret EXCEPT ![c] = 1]
    /\ UNCHANGED <<lockVars, cpuVars, ringVars, op, reg, got>>

PushStore(c) ==
    /\ op[c] = "push" /\ ~Full
    /\ Goto(c, "test", "step")
    /\ buf' = [buf EXCEPT ![wptr] = reg[c]]
    /\ UNCHANGED <<lockVars, cpuVars, rptr, wptr, op, reg, ret, got>>

PushStep(c) ==
    /\ op[c] = "push"
    /\ Goto(c, "step", "clear")
    /\ wptr' = NextSlot(wptr)
    /\ ret' = [ret EXCEPT ![c] = 0]
    /\ UNCHANGED <<lockVars, cpuVars, rptr, buf, op, reg, got>>

PopLoad(c) ==
    /\ op[c] = "pop" /\ ~Empty
    /\ Goto(c, "test", "step")
    /\ reg' = [reg EXCEPT ![c] = buf[rptr]]
    /\ UNCHANGED <<lockVars, cpuVars, ringVars, op, ret, got>>

PopStep(c) ==
    /\ op[c] = "pop"
    /\ Goto(c, "step", "clear")
    /\ rptr' = NextSlot(rptr)
    /\ got' = [got EXCEPT ![c] = reg[c]]
    /\ ret' = [ret EXCEPT ![c] = 0]
    /\ UNCHANGED <<lockVars, cpuVars, wptr, buf, op, reg>>

FlushStep(c) ==
    /\ op[c] = "flush"
    /\ Goto(c, "test", "clear")
    /\ rptr' = wptr
    /\ ret' = [ret EXCEPT ![c] = 0]
    /\ UNCHANGED <<lockVars, cpuVars, wptr, buf, op, reg, got>>

-----------------------------------------------------------------------------
(* spinlock_irq_unlock: drop the flag, then put a mask back.               *)

DropFlag(c) ==
    /\ Goto(c, "clear", "unmask")
    /\ flag' = FALSE
    /\ UNCHANGED <<mask, irqLevel, cpuVars, ringVars, op, reg, ret, got>>

Unmask(c) ==
    /\ Goto(c, "unmask", "run")
    /\ mask' = irqLevel
    /\ op' = [op EXCEPT ![c] = "none"]
    /\ reg' = [reg EXCEPT ![c] = NoData]
    /\ ret' = [ret EXCEPT ![c] = 0]
    /\ got' = [got EXCEPT ![c] = NoData]
    /\ UNCHANGED <<flag, irqLevel, cpuVars, ringVars>>

Step(c) ==
    \/ SaveLevel(c) \/ MaskAll(c) \/ TakeFlag(c)
    \/ Refuse(c) \/ PushStore(c) \/ PushStep(c)
    \/ PopLoad(c) \/ PopStep(c) \/ FlushStep(c)
    \/ DropFlag(c) \/ Unmask(c)

Next ==
    \/ \E l \in IrqLevels : Interrupt(l) \/ Return(l)
    \/ \E c \in Ctx, o \in {"push", "pop", "flush"}, d \in Data : Call(c, o, d)
    \/ \E c \in Ctx : Step(c)

Spec == Init /\ [][Next]_vars

(***************************************************************************)
(* The CPU does not stop inside a call, a handler makes finitely many      *)
(* calls and returns, and interrupts come at a finite rate: a context that *)
(* is interrupted again and again still executes its own instructions      *)
(* between the interrupts.  All three are strong fairness.                 *)
(***************************************************************************)
Fairness ==
    /\ \A c \in Ctx : SF_vars(Step(c))
    /\ \A l \in IrqLevels : SF_vars(Return(l))

FairSpec == Spec /\ Fairness

-----------------------------------------------------------------------------
(* Properties.                                                             *)

InCall(c)    == pc[c] \notin {"off", "run"}
InSection(c) == pc[c] \in {"test", "step", "clear"}

(* Every variable stays in its range; in particular the pointers stay      *)
(* inside the buffer, whatever calls and interrupts come.                  *)
TypeOK ==
    /\ mask \in 0..7 /\ cur \in Ctx
    /\ below \in [IrqLevels -> Ctx] /\ savedMask \in [IrqLevels -> 0..7]
    /\ flag \in BOOLEAN /\ irqLevel \in 0..7
    /\ rptr \in Slot /\ wptr \in Slot
    /\ buf \in [Slot -> Data \union {NoData}]
    /\ pc \in [Ctx -> {"off", "run", "save", "mask", "take", "test", "step",
                       "clear", "unmask"}]
    /\ op \in [Ctx -> {"none", "push", "pop", "flush"}]
    /\ reg \in [Ctx -> Data \union {NoData}]
    /\ ret \in [Ctx -> {0, 1}]
    /\ got \in [Ctx -> Data \union {NoData}]

(* Between taking and dropping the flag a context runs with everything     *)
(* masked, so no handler is ever inside the same ring at the same time:    *)
(* the pointer updates of ringbuf8_push and ringbuf8_pop never interleave. *)
MutualExclusion ==
    /\ \A c \in Ctx : InSection(c) => cur = c /\ mask = 7
    /\ flag <=> \E c \in Ctx : InSection(c)

(* Nobody ever waits in the test-and-set loop of spinlock_irq_lock.  On    *)
(* one CPU with everything masked, waiting there would be for ever.        *)
NeverSpins == pc[cur] = "take" => ~flag

(***************************************************************************)
(* The bytes in the ring, oldest first.  Used is what ringbuf8_getfree     *)
(* computes.                                                               *)
(***************************************************************************)
Used == IF rptr <= wptr THEN wptr - rptr ELSE Size - rptr + wptr
SlotAt(k) == IF rptr + k < Size THEN rptr + k ELSE rptr + k - Size
Contents == [i \in 1..Used |-> buf[SlotAt(i - 1)]]

(* Where a call stands, and the byte a pending push carries.               *)
Phase(label) ==
    IF label \in {"off", "run"} THEN "idle"
    ELSE IF label \in {"clear", "unmask"} THEN "done" ELSE "called"
Phases == [c \in Ctx |-> Phase(pc[c])]
Args == [c \in Ctx |-> IF op[c] = "push" THEN reg[c] ELSE NoData]

Q == INSTANCE BoundedQueue
        WITH Client <- Ctx, Capacity <- Size - 1,
             queue <- Contents, phase <- Phases, arg <- Args

(* push, pop and flush, cut up by interrupts as they are, behave like the  *)
(* atomic operations of a FIFO queue of Size - 1 bytes: a byte appears at  *)
(* the wptr step, leaves at the rptr step, and *data is the oldest byte.   *)
RingIsQueue == Q!Spec

(* Every call of pop, push or flush returns, interrupts notwithstanding.   *)
CallsReturn == \A c \in Ctx : InCall(c) ~> ~InCall(c)
=============================================================================
