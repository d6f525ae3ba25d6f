--------------------------- MODULE RingBufProofs ----------------------------
(***************************************************************************)
(* Proofs about RingBuf, for every ring size, every set of interrupt       *)
(* levels sharing the ring, every assignment of operations to contexts and *)
(* every content of the stale register byte.                               *)
(***************************************************************************)
EXTENDS RingBuf, SequenceTheorems, TLAPS

USE DEF Ctx, Slot, InSection

(* A context that has masked interrupts in spinlock_irq_lock runs with     *)
(* mask 7 until the last step of spinlock_irq_unlock.                      *)
Masked(c) == pc[c] \in {"take", "test", "step", "clear", "unmask"}

MaskHeld == \A c \in Ctx : Masked(c) => cur = c /\ mask = 7

(* Inside the section a context still sees what it tested.                 *)
SectionView ==
    \A c \in Ctx : pc[c] = "step" =>
        \/ op[c] = "push" /\ ~Full /\ buf[wptr] = reg[c]
        \/ op[c] = "pop" /\ ~Empty /\ reg[c] = buf[rptr]

(* The inductive invariant: the typed state, the lock discipline, and the  *)
(* facts the two halves of a push or a pop rest on.                        *)
IInv == TypeOK /\ MaskHeld /\ MutualExclusion /\ SectionView

-----------------------------------------------------------------------------
(* Type correctness.                                                       *)

LEMMA NextSlotType == ASSUME NEW p \in Slot PROVE NextSlot(p) \in Slot
  BY SizeAssumption DEF NextSlot

LEMMA InitTypeOK == Init => TypeOK
  <1> SUFFICES ASSUME Init PROVE TypeOK
    OBVIOUS
  <1>1. rptr \in Slot /\ wptr \in Slot /\ buf \in [Slot -> Data \union {NoData}]
    BY SizeAssumption DEF Init
  <1>2. pc \in [Ctx -> {"off", "run"}]
    BY DEF Init
  <1>3. /\ op \in [Ctx -> {"none", "push", "pop", "flush"}]
        /\ reg \in [Ctx -> Data \union {NoData}]
        /\ ret \in [Ctx -> {0, 1}]
        /\ got \in [Ctx -> Data \union {NoData}]
    BY DEF Init
  <1>4. below \in [IrqLevels -> Ctx] /\ savedMask \in [IrqLevels -> 0..7]
    BY DEF Init
  <1>5. mask \in 0..7 /\ cur \in Ctx /\ irqLevel \in 0..7
    BY DEF Init
  <1>6. flag \in BOOLEAN
    BY Zenon DEF Init
  <1> QED BY <1>1, <1>2, <1>3, <1>4, <1>5, <1>6 DEF TypeOK

LEMMA StepTypeOK == TypeOK /\ [Next]_vars => TypeOK'
  <1> SUFFICES ASSUME TypeOK, [Next]_vars PROVE TypeOK'
    OBVIOUS
  <1> USE DEF TypeOK
  <1>1. ASSUME NEW l \in IrqLevels, Interrupt(l) PROVE TypeOK'
    BY <1>1, LevelsAssumption DEF Interrupt, ringVars
  <1>2. ASSUME NEW l \in IrqLevels, Return(l) PROVE TypeOK'
    BY <1>2 DEF Return, Goto, ringVars
  <1>3. ASSUME NEW c \in Ctx, NEW o \in {"push", "pop", "flush"}, NEW d \in Data, Call(c, o, d)
        PROVE TypeOK'
    BY <1>3 DEF Call, Goto, lockVars, cpuVars, ringVars
  <1>4. ASSUME NEW c \in Ctx, Step(c) PROVE TypeOK'
    <2> USE DEF Goto, lockVars, cpuVars, ringVars
    <2>1. CASE SaveLevel(c)  BY <2>1, LevelsAssumption DEF SaveLevel
    <2>2. CASE MaskAll(c)    BY <2>2 DEF MaskAll
    <2>3. CASE TakeFlag(c)   BY <2>3 DEF TakeFlag
    <2>4. CASE Refuse(c)     BY <2>4 DEF Refuse
    <2>5. CASE PushStore(c)  BY <2>5 DEF PushStore
    <2>6. CASE PushStep(c)   BY <2>6, NextSlotType DEF PushStep
    <2>7. CASE PopLoad(c)    BY <2>7 DEF PopLoad
    <2>8. CASE PopStep(c)    BY <2>8, NextSlotType DEF PopStep
    <2>9. CASE FlushStep(c)  BY <2>9 DEF FlushStep
    <2>10. CASE DropFlag(c)  BY <2>10 DEF DropFlag
    <2>11. CASE Unmask(c)    BY <2>11 DEF Unmask
    <2> QED BY <1>4, <2>1, <2>2, <2>3, <2>4, <2>5, <2>6, <2>7, <2>8, <2>9, <2>10, <2>11 DEF Step
  <1>5. CASE UNCHANGED vars
    BY <1>5 DEF vars, lockVars, cpuVars, ringVars, callVars
  <1> QED BY <1>1, <1>2, <1>3, <1>4, <1>5 DEF Next

(* The pointers of the ring and every other variable stay in range.        *)
THEOREM TypeCorrect == Spec => []TypeOK
  BY InitTypeOK, StepTypeOK, PTL DEF Spec

-----------------------------------------------------------------------------
(* The lock discipline.                                                    *)

LEMMA InitLock == Init => MaskHeld /\ MutualExclusion /\ SectionView
  <1> SUFFICES ASSUME Init PROVE MaskHeld /\ MutualExclusion /\ SectionView
    OBVIOUS
  <1>1. \A c \in Ctx : pc[c] \in {"off", "run"}
    BY DEF Init
  <1>2. flag = FALSE
    BY DEF Init
  <1> QED BY <1>1, <1>2 DEF MaskHeld, Masked, MutualExclusion, SectionView

(* Interrupts are taken only while nobody holds a mask of 7, a handler     *)
(* returns only outside its calls, and only the running context moves.     *)
LEMMA StepMaskHeld == IInv /\ [Next]_vars => MaskHeld'
  <1> SUFFICES ASSUME IInv, [Next]_vars PROVE MaskHeld'
    OBVIOUS
  <1> USE DEF IInv, MaskHeld, Masked, TypeOK
  <1>1. ASSUME NEW l \in IrqLevels, Interrupt(l) PROVE MaskHeld'
    BY <1>1, LevelsAssumption DEF Interrupt
  <1>2. ASSUME NEW l \in IrqLevels, Return(l) PROVE MaskHeld'
    BY <1>2 DEF Return, Goto
  <1>3. ASSUME NEW c \in Ctx, NEW o \in {"push", "pop", "flush"}, NEW d \in Data, Call(c, o, d)
        PROVE MaskHeld'
    BY <1>3 DEF Call, Goto, lockVars, cpuVars
  <1>4. ASSUME NEW c \in Ctx, Step(c) PROVE MaskHeld'
    BY <1>4 DEF Step, SaveLevel, MaskAll, TakeFlag, Refuse, PushStore, PushStep, PopLoad,
                PopStep, FlushStep, DropFlag, Unmask, Goto, lockVars, cpuVars
  <1>5. CASE UNCHANGED vars
    BY <1>5 DEF vars, lockVars, cpuVars, callVars
  <1> QED BY <1>1, <1>2, <1>3, <1>4, <1>5 DEF Next

(* At most one context is in its section: two would both be running.       *)
LEMMA OneInSection ==
  ASSUME MaskHeld, NEW c \in Ctx, NEW e \in Ctx, InSection(c), InSection(e)
  PROVE  c = e
  BY DEF MaskHeld, Masked

LEMMA StepMutualExclusion == IInv /\ [Next]_vars => MutualExclusion'
  <1> SUFFICES ASSUME IInv, [Next]_vars PROVE MutualExclusion'
    OBVIOUS
  <1>1. \A c \in Ctx : InSection(c)' => (cur = c /\ mask = 7)'
    BY StepMaskHeld DEF MaskHeld, Masked
  <1>2. (flag <=> \E c \in Ctx : InSection(c))'
    <2> USE DEF IInv, MutualExclusion, TypeOK
    <2>1. ASSUME NEW l \in IrqLevels, Interrupt(l) PROVE (flag <=> \E c \in Ctx : InSection(c))'
      BY <2>1 DEF Interrupt
    <2>2. ASSUME NEW l \in IrqLevels, Return(l) PROVE (flag <=> \E c \in Ctx : InSection(c))'
      BY <2>2 DEF Return, Goto
    <2>3. ASSUME NEW c \in Ctx, NEW o \in {"push", "pop", "flush"}, NEW d \in Data, Call(c, o, d)
          PROVE (flag <=> \E e \in Ctx : InSection(e))'
      BY <2>3 DEF Call, Goto, lockVars
    <2>4. ASSUME NEW c \in Ctx, Step(c) PROVE (flag <=> \E e \in Ctx : InSection(e))'
      <3> USE DEF Goto, lockVars
      <3>1. CASE SaveLevel(c) \/ MaskAll(c) \/ Unmask(c)
        BY <3>1 DEF SaveLevel, MaskAll, Unmask
      <3>2. CASE TakeFlag(c)
        BY <3>2 DEF TakeFlag
      <3>3. CASE Refuse(c) \/ PushStore(c) \/ PushStep(c) \/ PopLoad(c) \/ PopStep(c) \/ FlushStep(c)
        BY <3>3 DEF Refuse, PushStore, PushStep, PopLoad, PopStep, FlushStep
      <3>4. CASE DropFlag(c)
        <4>1. \A e \in Ctx : e # c => ~InSection(e)
          BY <3>4, OneInSection DEF DropFlag
        <4> QED BY <3>4, <4>1 DEF DropFlag
      <3> QED BY <2>4, <3>1, <3>2, <3>3, <3>4 DEF Step
    <2>5. CASE UNCHANGED vars
      BY <2>5 DEF vars, lockVars, callVars
    <2> QED BY <2>1, <2>2, <2>3, <2>4, <2>5 DEF Next
  <1> QED BY <1>1, <1>2 DEF MutualExclusion

LEMMA StepSectionView == IInv /\ [Next]_vars => SectionView'
  <1> SUFFICES ASSUME IInv, [Next]_vars PROVE SectionView'
    OBVIOUS
  <1> USE DEF IInv, SectionView, TypeOK, Full, Empty
  <1>1. ASSUME NEW l \in IrqLevels, Interrupt(l) PROVE SectionView'
    BY <1>1 DEF Interrupt, ringVars
  <1>2. ASSUME NEW l \in IrqLevels, Return(l) PROVE SectionView'
    BY <1>2 DEF Return, Goto, ringVars
  <1>3. ASSUME NEW c \in Ctx, NEW o \in {"push", "pop", "flush"}, NEW d \in Data, Call(c, o, d)
        PROVE SectionView'
    BY <1>3 DEF Call, Goto, ringVars
  <1>4. ASSUME NEW c \in Ctx, Step(c) PROVE SectionView'
    <2> USE DEF Goto, ringVars
    <2>1. CASE SaveLevel(c) \/ MaskAll(c) \/ TakeFlag(c) \/ DropFlag(c) \/ Unmask(c)
      <3>1. UNCHANGED <<rptr, wptr, buf>>
        BY <2>1 DEF SaveLevel, MaskAll, TakeFlag, DropFlag, Unmask
      <3>2. \A e \in Ctx : pc'[e] = "step" => pc[e] = "step" /\ e # c
        BY <2>1 DEF SaveLevel, MaskAll, TakeFlag, DropFlag, Unmask
      <3>3. \A e \in Ctx : e # c => op'[e] = op[e] /\ reg'[e] = reg[e]
        BY <2>1 DEF SaveLevel, MaskAll, TakeFlag, DropFlag, Unmask
      <3> QED BY <3>1, <3>2, <3>3
    <2>2. CASE Refuse(c)
      BY <2>2 DEF Refuse
    <2>3. CASE InSection(c) /\ ~Refuse(c)
      <3>1. \A e \in Ctx : e # c => ~InSection(e)
        BY <2>3, OneInSection
      <3>2. CASE PushStore(c)
        BY <3>1, <3>2 DEF PushStore
      <3>3. CASE PopLoad(c)
        BY <3>1, <3>3 DEF PopLoad
      <3>4. CASE PushStep(c) \/ PopStep(c) \/ FlushStep(c)
        BY <3>1, <3>4 DEF PushStep, PopStep, FlushStep
      <3>5. CASE DropFlag(c)
        BY <3>5, <2>1
      <3> QED BY <1>4, <2>3, <3>2, <3>3, <3>4, <3>5
              DEF Step, SaveLevel, MaskAll, TakeFlag, Unmask
    <2> QED BY <1>4, <2>1, <2>2, <2>3
            DEF Step, PushStore, PushStep, PopLoad, PopStep, FlushStep
  <1>5. CASE UNCHANGED vars
    BY <1>5 DEF vars, ringVars, callVars
  <1> QED BY <1>1, <1>2, <1>3, <1>4, <1>5 DEF Next

(* The strengthened invariant is inductive.                                *)
THEOREM Invariance == Spec => []IInv
  <1>1. Init => IInv
    BY InitTypeOK, InitLock DEF IInv
  <1>2. IInv /\ [Next]_vars => IInv'
    BY StepTypeOK, StepMaskHeld, StepMutualExclusion, StepSectionView DEF IInv
  <1> QED BY <1>1, <1>2, PTL DEF Spec

(* No two contexts are ever in the ring at once, and the flag says so.     *)
THEOREM Exclusion == Spec => []MutualExclusion
  BY Invariance, PTL DEF IInv

(* The test-and-set loop of spinlock_irq_lock never waits.                 *)
THEOREM LockNeverWaits == Spec => []NeverSpins
  <1>1. IInv => NeverSpins
    <2> SUFFICES ASSUME IInv, pc[cur] = "take", flag PROVE FALSE
      BY DEF NeverSpins
    <2>1. \E c \in Ctx : InSection(c)
      BY Zenon DEF IInv, MutualExclusion
    <2>2. PICK c \in Ctx : InSection(c)
      BY <2>1
    <2>3. cur = c
      BY <2>2 DEF IInv, MutualExclusion
    <2> QED BY <2>2, <2>3
  <1> QED BY <1>1, Invariance, PTL

-----------------------------------------------------------------------------
(* The ring as a sequence.                                                 *)

LEMMA UsedBounds ==
  ASSUME TypeOK
  PROVE  /\ Used \in 0..(Size - 1)
         /\ Used = 0 <=> Empty
         /\ Used = Size - 1 <=> Full
  BY SizeAssumption DEF TypeOK, Used, Empty, Full

LEMMA SlotAtType ==
  ASSUME TypeOK, NEW k \in 0..(Size - 1)
  PROVE  SlotAt(k) \in Slot
  BY SizeAssumption DEF TypeOK, SlotAt

(* wptr is the first slot behind the used ones, and is not one of them.    *)
LEMMA SlotBehind ==
  ASSUME TypeOK
  PROVE  /\ SlotAt(Used) = wptr
         /\ \A k \in 0..(Used - 1) : SlotAt(k) # wptr
  BY SizeAssumption DEF TypeOK, SlotAt, Used

LEMMA ContentsSeq ==
  ASSUME TypeOK
  PROVE  /\ Contents \in Seq(Data \union {NoData})
         /\ Len(Contents) = Used
         /\ \A i \in 1..Used : Contents[i] = buf[SlotAt(i - 1)]
  <1>1. Used \in Nat
    BY UsedBounds, SizeAssumption
  <1>2. ASSUME NEW i \in 1..Used PROVE buf[SlotAt(i - 1)] \in Data \union {NoData}
    <2>1. i - 1 \in 0..(Size - 1)
      BY UsedBounds, SizeAssumption
    <2>2. SlotAt(i - 1) \in Slot
      BY <2>1, SlotAtType
    <2> QED BY <2>2 DEF TypeOK
  <1> QED BY <1>1, <1>2 DEF Contents

LEMMA ContentsKept ==
  ASSUME UNCHANGED ringVars
  PROVE  Contents' = Contents
  BY DEF ringVars, Contents, Used, SlotAt

(* Storing into the slot at wptr is not visible yet.                       *)
LEMMA StoreInvisible ==
  ASSUME TypeOK, NEW v, UNCHANGED <<rptr, wptr>>, buf' = [buf EXCEPT ![wptr] = v]
  PROVE  Contents' = Contents
  <1>1. Used' = Used /\ \A k \in 0..(Used - 1) : SlotAt(k)' = SlotAt(k)
    BY DEF Used, SlotAt
  <1>2. ASSUME NEW i \in 1..Used PROVE (buf[SlotAt(i - 1)])' = buf[SlotAt(i - 1)]
    <2>1. i - 1 \in 0..(Used - 1) /\ i - 1 \in 0..(Size - 1)
      BY UsedBounds, SizeAssumption
    <2>2. SlotAt(i - 1) # wptr /\ SlotAt(i - 1) \in Slot
      BY <2>1, SlotBehind, SlotAtType
    <2> QED BY <1>1, <2>1, <2>2 DEF TypeOK
  <1> QED BY <1>1, <1>2 DEF Contents

(* Advancing wptr appends the byte stored there.                           *)
LEMMA StepAppends ==
  ASSUME TypeOK, ~Full, UNCHANGED <<rptr, buf>>, wptr' = NextSlot(wptr)
  PROVE  Contents' = Append(Contents, buf[wptr])
  <1>1. Used' = Used + 1 /\ Used \in Nat
    BY SizeAssumption DEF TypeOK, Used, Full, NextSlot
  <1>2. \A k \in 0..Used : SlotAt(k)' = SlotAt(k)
    BY DEF SlotAt
  <1>3. Contents' = [i \in 1..(Used + 1) |-> buf[SlotAt(i - 1)]]
    BY <1>1, <1>2 DEF Contents
  <1>4. buf[SlotAt((Used + 1) - 1)] = buf[wptr]
    BY <1>1, SlotBehind
  <1>5. Append(Contents, buf[wptr]) =
          [i \in 1..(Used + 1) |-> IF i = Used + 1 THEN buf[wptr] ELSE buf[SlotAt(i - 1)]]
    <2>1. \A i \in 1..(Used + 1) : i # Used + 1 => i \in 1..Used
      BY <1>1
    <2> QED BY <1>1, <2>1, ContentsSeq
  <1> QED BY <1>1, <1>3, <1>4, <1>5

(* Advancing rptr removes the oldest byte.                                 *)
LEMMA StepRemoves ==
  ASSUME TypeOK, ~Empty, UNCHANGED <<wptr, buf>>, rptr' = NextSlot(rptr)
  PROVE  /\ Contents # <<>>
         /\ Head(Contents) = buf[rptr]
         /\ Contents' = Tail(Contents)
  <1>1. Used \in Nat /\ Used >= 1 /\ Used' = Used - 1
    BY SizeAssumption DEF TypeOK, Used, Empty, NextSlot
  <1>2. \A k \in 0..(Used - 2) : SlotAt(k)' = SlotAt(k + 1)
    <2>1. Used <= Size - 1
      BY UsedBounds, SizeAssumption
    <2> QED BY <1>1, <2>1, SizeAssumption DEF TypeOK, SlotAt, NextSlot
  <1>3. Contents # <<>> /\ Head(Contents) = buf[rptr]
    <2>1. SlotAt(0) = rptr
      BY SizeAssumption DEF TypeOK, SlotAt
    <2> QED BY <1>1, <2>1, ContentsSeq
  <1>4. Tail(Contents) = [i \in 1..(Used - 1) |-> buf[SlotAt(i)]]
    <2> DEFINE T == Tail(Contents)
    <2>1. /\ T \in Seq(Data \union {NoData}) /\ Len(T) = Used - 1
          /\ \A i \in 1..(Used - 1) : T[i] = Contents[i + 1]
      BY <1>3, ContentsSeq, HeadTailProperties
    <2>2. T \in [1..(Used - 1) -> Data \union {NoData}]
      BY <2>1, LenProperties
    <2> HIDE DEF T
    <2>3. ASSUME NEW i \in 1..(Used - 1) PROVE Contents[i + 1] = buf[SlotAt(i)]
      <3>1. i + 1 \in 1..Used /\ (i + 1) - 1 = i
        BY <1>1
      <3>2. Contents[i + 1] = buf[SlotAt((i + 1) - 1)]
        BY <3>1, ContentsSeq
      <3> QED BY <3>1, <3>2
    <2>4. T = [i \in 1..(Used - 1) |-> buf[SlotAt(i)]]
      BY <2>1, <2>2, <2>3
    <2> QED BY <2>4 DEF T
  <1>5. Contents' = [i \in 1..(Used - 1) |-> buf[SlotAt(i)]]
    <2>1. \A i \in 1..(Used - 1) : SlotAt(i - 1)' = SlotAt(i)
      BY <1>1, <1>2
    <2> QED BY <1>1, <2>1 DEF Contents
  <1> QED BY <1>3, <1>4, <1>5

-----------------------------------------------------------------------------
(* The ring implements the queue.                                          *)

LEMMA PhasesStep ==
  ASSUME TypeOK, NEW c \in Ctx, NEW to, pc' = [pc EXCEPT ![c] = to]
  PROVE  Phases' = [Phases EXCEPT ![c] = Phase(to)]
  BY DEF TypeOK, Phases

LEMMA PhasesKept ==
  ASSUME TypeOK, NEW c \in Ctx, NEW to, pc' = [pc EXCEPT ![c] = to], Phase(to) = Phase(pc[c])
  PROVE  Phases' = Phases
  BY DEF TypeOK, Phases

LEMMA ArgsKept ==
  ASSUME UNCHANGED <<op, reg>>
  PROVE  Args' = Args
  BY DEF Args

(* Steps the queue does not see.                                           *)
LEMMA Invisible ==
  ASSUME TypeOK, NEW c \in Ctx,
         \/ SaveLevel(c) \/ MaskAll(c) \/ TakeFlag(c) \/ PushStore(c) \/ PopLoad(c) \/ DropFlag(c)
  PROVE  UNCHANGED Q!bqVars
  <1> USE DEF Goto, Q!bqVars
  <1>1. CASE SaveLevel(c) \/ MaskAll(c) \/ TakeFlag(c) \/ DropFlag(c)
    <2>1. UNCHANGED <<ringVars, op, reg, ret, got>>
      BY <1>1 DEF SaveLevel, MaskAll, TakeFlag, DropFlag
    <2>2. Phases' = Phases
      BY <1>1, PhasesKept DEF SaveLevel, MaskAll, TakeFlag, DropFlag, Phase
    <2> QED BY <2>1, <2>2, ContentsKept, ArgsKept
  <1>2. CASE PushStore(c)
    <2>1. Contents' = Contents
      BY <1>2, StoreInvisible DEF PushStore
    <2>2. Phases' = Phases
      BY <1>2, PhasesKept DEF PushStore, Phase
    <2> QED BY <1>2, <2>1, <2>2, ArgsKept DEF PushStore
  <1>3. CASE PopLoad(c)
    <2>1. Contents' = Contents
      BY <1>3, ContentsKept DEF PopLoad
    <2>2. Phases' = Phases
      BY <1>3, PhasesKept DEF PopLoad, Phase
    <2>3. Args' = Args
      BY <1>3 DEF PopLoad, Args, TypeOK
    <2> QED BY <1>3, <2>1, <2>2, <2>3 DEF PopLoad
  <1> QED BY <1>1, <1>2, <1>3

(* A context's call and return are the client's.                           *)
LEMMA CallInvokes ==
  ASSUME TypeOK, NEW c \in Ctx, NEW o \in {"push", "pop", "flush"}, NEW d \in Data, Call(c, o, d)
  PROVE  Q!Invoke(c, o, d)
  <1> USE DEF Goto
  <1>1. Phases[c] = "idle" /\ Phases' = [Phases EXCEPT ![c] = "called"]
    BY PhasesStep DEF Call, Phase, Phases
  <1>2. Args' = [Args EXCEPT ![c] = IF o = "push" THEN d ELSE NoData]
    BY DEF Call, Args, TypeOK
  <1>3. Contents' = Contents
    BY ContentsKept DEF Call
  <1> QED BY <1>1, <1>2, <1>3 DEF Call, Q!Invoke

LEMMA UnmaskResponds ==
  ASSUME TypeOK, NEW c \in Ctx, Unmask(c)
  PROVE  Q!Respond(c)
  <1> USE DEF Goto
  <1>1. Phases[c] = "done" /\ Phases' = [Phases EXCEPT ![c] = "idle"]
    BY PhasesStep DEF Unmask, Phase, Phases
  <1>2. Args' = [Args EXCEPT ![c] = NoData]
    BY DEF Unmask, Args, TypeOK
  <1>3. Contents' = Contents
    BY ContentsKept DEF Unmask, ringVars, cpuVars
  <1> QED BY <1>1, <1>2, <1>3 DEF Unmask, Q!Respond

(* Where a call takes effect.                                              *)
LEMMA EffectPhase ==
  ASSUME TypeOK, NEW c \in Ctx, pc[c] \in {"test", "step"}, pc' = [pc EXCEPT ![c] = "clear"]
  PROVE  Phases[c] = "called" /\ Phases' = [Phases EXCEPT ![c] = "done"]
  BY PhasesStep DEF Phase, Phases

LEMMA RefuseRefuses ==
  ASSUME TypeOK, NEW c \in Ctx, Refuse(c)
  PROVE  Q!Refuse(c)
  <1>1. Phases[c] = "called" /\ Phases' = [Phases EXCEPT ![c] = "done"]
    BY EffectPhase DEF Refuse, Goto
  <1>2. Contents' = Contents /\ Args' = Args
    BY ContentsKept, ArgsKept DEF Refuse
  <1>3. \/ op[c] = "push" /\ Len(Contents) = Size - 1
        \/ op[c] = "pop" /\ Contents = <<>>
    <2>1. CASE op[c] = "push" /\ Full
      BY <2>1, UsedBounds, ContentsSeq
    <2>2. CASE op[c] = "pop" /\ Empty
      BY <2>2, UsedBounds, ContentsSeq
    <2> QED BY <2>1, <2>2 DEF Refuse
  <1> QED BY <1>1, <1>2, <1>3 DEF Refuse, Q!Refuse, Q!Effect

LEMMA PushStepPushes ==
  ASSUME IInv, NEW c \in Ctx, PushStep(c)
  PROVE  Q!Push(c)
  <1> USE DEF IInv
  <1>1. Phases[c] = "called" /\ Phases' = [Phases EXCEPT ![c] = "done"]
    BY EffectPhase DEF PushStep, Goto
  <1>2. ~Full /\ buf[wptr] = reg[c] /\ Args[c] = reg[c]
    BY DEF PushStep, Goto, SectionView, Args
  <1>3. Contents' = Append(Contents, Args[c])
    BY <1>2, StepAppends DEF PushStep
  <1>4. Len(Contents) < Size - 1
    BY <1>2, UsedBounds, ContentsSeq, SizeAssumption
  <1>5. Args' = Args
    BY ArgsKept DEF PushStep
  <1> QED BY <1>1, <1>3, <1>4, <1>5 DEF PushStep, Q!Push, Q!Effect

LEMMA PopStepPops ==
  ASSUME IInv, NEW c \in Ctx, PopStep(c)
  PROVE  Q!Pop(c)
  <1> USE DEF IInv
  <1>1. Phases[c] = "called" /\ Phases' = [Phases EXCEPT ![c] = "done"]
    BY EffectPhase DEF PopStep, Goto
  <1>2. ~Empty /\ reg[c] = buf[rptr]
    BY DEF PopStep, Goto, SectionView
  <1>3. Contents # <<>> /\ Head(Contents) = reg[c] /\ Contents' = Tail(Contents)
    BY <1>2, StepRemoves DEF PopStep
  <1>4. Args' = Args
    BY ArgsKept DEF PopStep
  <1> QED BY <1>1, <1>3, <1>4 DEF PopStep, Q!Pop, Q!Effect

LEMMA FlushStepFlushes ==
  ASSUME IInv, NEW c \in Ctx, FlushStep(c)
  PROVE  Q!Flush(c)
  <1> USE DEF IInv
  <1>1. Phases[c] = "called" /\ Phases' = [Phases EXCEPT ![c] = "done"]
    BY EffectPhase DEF FlushStep, Goto
  <1>2. Contents' = <<>>
    <2>1. Used' = 0
      BY SizeAssumption DEF FlushStep, Used, TypeOK
    <2> QED BY <2>1 DEF Contents
  <1>3. Args' = Args
    BY ArgsKept DEF FlushStep
  <1> QED BY <1>1, <1>2, <1>3 DEF FlushStep, Q!Flush, Q!Effect

LEMMA InitQueue == Init => Q!Init
  <1> SUFFICES ASSUME Init PROVE Q!Init
    OBVIOUS
  <1>1. Contents = <<>>
    BY DEF Init, Contents, Used
  <1>2. Phases = [c \in Ctx |-> "idle"] /\ Args = [c \in Ctx |-> NoData]
    BY DEF Init, Phases, Phase, Args
  <1> QED BY <1>1, <1>2 DEF Init, Q!Init

LEMMA StepQueue == IInv /\ [Next]_vars => [Q!Next]_(Q!bqVars)
  <1> SUFFICES ASSUME IInv, [Next]_vars PROVE [Q!Next]_(Q!bqVars)
    OBVIOUS
  <1> USE DEF IInv
  <1>1. ASSUME NEW l \in IrqLevels, Interrupt(l) \/ Return(l) PROVE UNCHANGED Q!bqVars
    <2>1. UNCHANGED <<ringVars, op, reg, ret, got>>
      BY <1>1 DEF Interrupt, Return
    <2>2. Phases' = Phases
      BY <1>1, PhasesKept DEF Interrupt, Return, Goto, Phase
    <2> QED BY <2>1, <2>2, ContentsKept, ArgsKept DEF Q!bqVars
  <1>2. ASSUME NEW c \in Ctx, NEW o \in {"push", "pop", "flush"}, NEW d \in Data, Call(c, o, d)
        PROVE Q!Next
    BY <1>2, CallInvokes DEF Q!Next, Call
  <1>3. ASSUME NEW c \in Ctx, Step(c) PROVE Q!Next \/ UNCHANGED Q!bqVars
    <2>1. CASE Refuse(c)     BY <2>1, RefuseRefuses DEF Q!Next
    <2>2. CASE PushStep(c)   BY <2>2, PushStepPushes DEF Q!Next
    <2>3. CASE PopStep(c)    BY <2>3, PopStepPops DEF Q!Next
    <2>4. CASE FlushStep(c)  BY <2>4, FlushStepFlushes DEF Q!Next
    <2>5. CASE Unmask(c)     BY <2>5, UnmaskResponds DEF Q!Next
    <2> QED BY <1>3, <2>1, <2>2, <2>3, <2>4, <2>5, Invisible DEF Step
  <1>4. CASE UNCHANGED vars
    <2>1. UNCHANGED <<ringVars, op, reg, ret, got>> /\ Phases' = Phases
      BY <1>4 DEF vars, callVars, Phases
    <2> QED BY <2>1, ContentsKept, ArgsKept DEF Q!bqVars
  <1> QED BY <1>1, <1>2, <1>3, <1>4 DEF Next

(* Pushes, pops and flushes of the foreground and of nested handlers are   *)
(* linearizable: the ring implements the FIFO queue of Size - 1 bytes.     *)
THEOREM Refinement == Spec => RingIsQueue
  BY InitQueue, StepQueue, Invariance, PTL DEF Spec, RingIsQueue, Q!Spec
=============================================================================
