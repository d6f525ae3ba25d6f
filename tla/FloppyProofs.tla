---------------------------- MODULE FloppyProofs ----------------------------
(***************************************************************************)
(* What the conversions of Chs compute, for every geometry; and proofs     *)
(* about Floppy, for every size of the medium, every length of a read and  *)
(* any number of reads, refused bytes and bad sectors.                     *)
(***************************************************************************)
EXTENDS Floppy, SequenceTheorems, TLAPS

(* Division by a positive number, as the provers need it.                  *)
LEMMA DivMod ==
    ASSUME NEW a \in Nat, NEW b \in Nat \ {0}
    PROVE  /\ a \div b \in Nat /\ a % b \in 0..b - 1
           /\ a = b * (a \div b) + (a % b)
  OBVIOUS

LEMMA Halves ==
    ASSUME NEW n \in Nat
    PROVE  /\ n = 2 * (n \div 2) + (n % 2)
           /\ n % 2 \in 0..1 /\ n \div 2 \in Nat
  OBVIOUS

LEMMA DivBound ==
    ASSUME NEW a \in Nat, NEW b \in Nat \ {0}, NEW q \in Nat, a < q * b
    PROVE  a \div b < q
  BY DivMod

LEMMA DivNext ==
    ASSUME NEW a \in Nat, NEW b \in Nat \ {0}
    PROVE  a < (a \div b + 1) * b
<1>1. /\ a \div b \in Nat /\ a % b \in 0..b - 1
      /\ a = b * (a \div b) + (a % b)
  BY DivMod
<1>2. (a \div b + 1) * b = b * (a \div b) + b
  BY <1>1
<1> QED
  BY <1>1, <1>2

-----------------------------------------------------------------------------
(* lba_to_chs splits an address on the medium into a track and a sector of *)
(* it, and the track into a head and a cylinder; beyond the medium it      *)
(* answers its error value.                                                *)
LEMMA LbaToChsParts ==
    ASSUME NEW g, IsGeometry(g), NEW lba \in 0..Capacity(g) - 1
    PROVE  LET a == LbaToChs(lba, g)
           IN /\ a.cylinder \in 0..g.cylinder - 1
              /\ a.head \in 0..g.head - 1
              /\ a.sector \in 1..g.sector
              /\ lba = (a.head * g.cylinder + a.cylinder) * g.sector + a.sector - 1
<1> DEFINE whole == lba \div g.sector
<1>1. /\ g.cylinder \in Nat \ {0} /\ g.head \in Nat \ {0} /\ g.sector \in Nat \ {0}
  BY DEF IsGeometry
<1>2. /\ lba \in Nat /\ lba < (g.head * g.cylinder) * g.sector
  BY <1>1 DEF Capacity
<1>3. /\ whole \in Nat /\ lba % g.sector \in 0..g.sector - 1
      /\ lba = g.sector * whole + (lba % g.sector)
  BY <1>1, <1>2, DivMod
<1>4. g.head * g.cylinder \in Nat
  BY <1>1
<1>5. whole < g.head * g.cylinder
  BY <1>1, <1>2, <1>4, DivBound
<1>6. /\ whole \div g.cylinder \in Nat /\ whole % g.cylinder \in 0..g.cylinder - 1
      /\ whole = g.cylinder * (whole \div g.cylinder) + (whole % g.cylinder)
  BY <1>1, <1>3, DivMod
<1>7. whole \div g.cylinder < g.head
  BY <1>1, <1>3, <1>5, DivBound
<1>8. LbaToChs(lba, g) = [cylinder |-> whole % g.cylinder, head |-> whole \div g.cylinder,
                          sector |-> (lba % g.sector) + 1]
  BY <1>1, <1>6, <1>7 DEF LbaToChs
<1>9. lba = ((whole \div g.cylinder) * g.cylinder + (whole % g.cylinder)) * g.sector
            + (lba % g.sector)
  BY <1>1, <1>3, <1>6, SMTT(30)
<1>10. /\ LbaToChs(lba, g).cylinder = whole % g.cylinder
       /\ LbaToChs(lba, g).head = whole \div g.cylinder
       /\ LbaToChs(lba, g).sector = (lba % g.sector) + 1
  BY <1>8
<1> HIDE DEF whole
<1>11. /\ whole \div g.cylinder \in 0..g.head - 1
       /\ (lba % g.sector) + 1 \in 1..g.sector
  <2>1. whole \div g.cylinder \in 0..g.head - 1
    BY <1>1, <1>6, <1>7
  <2>2. (lba % g.sector) + 1 \in 1..g.sector
    BY <1>1, <1>3
  <2> QED
    BY <2>1, <2>2
<1>12. lba = ((whole \div g.cylinder) * g.cylinder + (whole % g.cylinder)) * g.sector
             + ((lba % g.sector) + 1) - 1
  BY <1>1, <1>3, <1>6, <1>9
<1> QED
  BY <1>6, <1>10, <1>11, <1>12

(* An address beyond the medium is answered with the error value.          *)
THEOREM LbaBeyond ==
    ASSUME NEW g, IsGeometry(g), NEW lba \in Nat, lba >= Capacity(g)
    PROVE  LbaToChs(lba, g) = NoChs
<1> DEFINE whole == lba \div g.sector
<1>1. /\ g.cylinder \in Nat \ {0} /\ g.head \in Nat \ {0} /\ g.sector \in Nat \ {0}
  BY DEF IsGeometry
<1>2. /\ whole \in Nat /\ lba < (whole + 1) * g.sector
  BY <1>1, DivMod, DivNext
<1> HIDE DEF whole
<1>3. /\ whole \div g.cylinder \in Nat /\ whole < ((whole \div g.cylinder) + 1) * g.cylinder
  BY <1>1, <1>2, DivMod, DivNext
<1>4. CASE whole \div g.cylinder >= g.head
  BY <1>4 DEF LbaToChs, whole
<1>5. CASE whole \div g.cylinder + 1 <= g.head
  <2>1. whole + 1 <= g.head * g.cylinder
    BY <1>1, <1>2, <1>3, <1>5
  <2>2. (whole + 1) * g.sector <= (g.head * g.cylinder) * g.sector
    BY <1>1, <1>2, <2>1
  <2> QED
    BY <1>1, <1>2, <2>2 DEF Capacity
<1> QED
  BY <1>1, <1>3, <1>4, <1>5

(* The two conversions are inverse, except that chs_to_lba refuses the     *)
(* last sector of every track (its test has >= where sectors count from 1).*)
THEOREM ChsRoundTrip ==
    ASSUME NEW g, IsGeometry(g), NEW lba \in 0..Capacity(g) - 1
    PROVE  ChsToLba(LbaToChs(lba, g), g) =
             IF LbaToChs(lba, g).sector = g.sector THEN -1 ELSE lba
<1> DEFINE a == LbaToChs(lba, g)
<1>1. /\ a.cylinder \in 0..g.cylinder - 1
      /\ a.head \in 0..g.head - 1
      /\ a.sector \in 1..g.sector
      /\ lba = (a.head * g.cylinder + a.cylinder) * g.sector + a.sector - 1
  BY LbaToChsParts
<1>2. /\ g.cylinder \in Nat \ {0} /\ g.head \in Nat \ {0} /\ g.sector \in Nat \ {0}
  BY DEF IsGeometry
<1> HIDE DEF a
<1>3. ChsToLba(a, g) = IF a.sector = g.sector THEN -1 ELSE lba
  BY <1>1, <1>2 DEF ChsToLba
<1> QED
  BY <1>3 DEF a

-----------------------------------------------------------------------------
(* The chs hack of floppy_read: on a medium of two sides and an even       *)
(* number of cylinders every linear address is asked for where the         *)
(* diskette has that very sector, and within its geometry.                 *)
THEOREM HackIsMedium ==
    ASSUME NEW g, IsGeometry(g), g.head = 2, g.cylinder % 2 = 0,
           NEW lba \in 0..Capacity(g) - 1
    PROVE  LET a == Hack(LbaToChs(lba, g), g)
           IN /\ a.cylinder \in 0..g.cylinder - 1
              /\ a.head \in 0..1
              /\ a.sector \in 1..g.sector
              /\ OnMedium(a.cylinder, a.head, a.sector, g) = lba
<1> DEFINE b == LbaToChs(lba, g)
           a == Hack(b, g)
<1>1. /\ b.cylinder \in 0..g.cylinder - 1
      /\ b.head \in 0..1
      /\ b.sector \in 1..g.sector
      /\ lba = (b.head * g.cylinder + b.cylinder) * g.sector + b.sector - 1
  BY LbaToChsParts
<1>2. /\ g.cylinder \in Nat \ {0} /\ g.sector \in Nat \ {0}
  BY DEF IsGeometry
<1> HIDE DEF b
<1>3. /\ a.cylinder = b.cylinder \div 2 + (IF b.head # 0 THEN g.cylinder \div 2 ELSE 0)
      /\ a.head = b.cylinder % 2
      /\ a.sector = b.sector
  BY DEF Hack
<1> HIDE DEF a
<1>4. /\ b.cylinder = 2 * (b.cylinder \div 2) + (b.cylinder % 2)
      /\ b.cylinder % 2 \in 0..1 /\ b.cylinder \div 2 \in Nat
  <2>1. b.cylinder \in Nat
    BY <1>1, <1>2
  <2> QED
    BY <2>1, Halves
<1>8. /\ g.cylinder = 2 * (g.cylinder \div 2) /\ g.cylinder \div 2 \in Nat
  <2>1. g.cylinder \in Nat
    BY <1>2
  <2>2. /\ g.cylinder \div 2 \in Nat
        /\ g.cylinder = 2 * (g.cylinder \div 2) + (g.cylinder % 2)
    BY <2>1, Halves
  <2> QED
    BY <2>2, g.cylinder % 2 = 0
<1>5. a.cylinder * 2 + a.head = b.head * g.cylinder + b.cylinder
  <2>1. CASE b.head = 0
    BY <1>1, <1>2, <1>3, <1>4, <1>8, <2>1
  <2>2. CASE b.head = 1
    BY <1>1, <1>2, <1>3, <1>4, <1>8, <2>2
  <2> QED
    BY <1>1, <2>1, <2>2
<1>6. /\ a.cylinder \in 0..g.cylinder - 1
      /\ a.head \in 0..1 /\ a.sector \in 1..g.sector
  <2>1. a.cylinder \in Nat /\ a.head \in 0..1
    BY <1>1, <1>3, <1>4, <1>8
  <2>2. b.head * g.cylinder + b.cylinder < 2 * g.cylinder
    <3>1. CASE b.head = 0
      BY <1>1, <1>2, <3>1
    <3>2. CASE b.head = 1
      BY <1>1, <1>2, <3>2
    <3> QED
      BY <1>1, <3>1, <3>2
  <2>3. a.cylinder < g.cylinder
    BY <1>2, <1>5, <2>1, <2>2
  <2> QED
    BY <1>1, <1>2, <1>3, <2>1, <2>3
<1>7. OnMedium(a.cylinder, a.head, a.sector, g) = lba
  BY <1>1, <1>3, <1>5 DEF OnMedium
<1> QED
  BY <1>6, <1>7 DEF a, b

-----------------------------------------------------------------------------
(* The inductive invariant.                                                *)

PCs      == {"idle", "prepare", "arm", "begin", "enable", "send", "wait", "respond", "dmaWait"}
DriveOps == {"recalibrate", "readId", "specify", "seek", "read"}
Ops      == DriveOps \union {"none", "reset"}
Cmds     == DriveOps \union {"none", "configure", "senseIrq"}
Phases   == {"reset", "ready", "exec", "result"}
Address  == [cylinder : Int, head : Int, sector : Int]
Answer   == [lba : Nat, n : Nat, ret : Int]

FdcState == [phase : Phases, cmd : Cmds, sense : 0..4, pcn : 0..Cylinders - 1,
             left : Nat, next : Int]
DmaState == [run : BOOLEAN, buf : Nat, left : Nat]
FgState  == [pc : PCs, op : Ops, cmd : Cmds, senses : 0..4, boots : 0..2,
             lba : Int, n : Nat, chs : Address, count : 0..MaxCount]

Types ==
    /\ irq \in BOOLEAN /\ irqDone \in BOOLEAN
    /\ fdc \in FdcState
    /\ heads \in 0..Cylinders - 1 /\ track \in 0..Cylinders - 1
    /\ dma \in DmaState /\ dma.buf <= nReads
    /\ dma.left <= Sectors
    /\ fg \in FgState
    /\ nReads \in Nat
    /\ mem \in Seq(Seq(Int)) /\ Len(mem) = nReads
    /\ returned \in Seq(Answer)
    /\ flawed \subseteq 1..nReads

(* Which command belongs to which operation, at each point of a call.      *)
Control ==
    /\ fg.pc = "idle" => fg.op = "none"
    /\ fg.op = "reset" => /\ nReads = 0
                          /\ fg.pc \in {"send", "respond", "enable", "wait"}
                          /\ fg.cmd \in {"configure", "senseIrq", "none"}
    /\ fg.op = "none" => fg.pc \in {"idle", "prepare"}
    /\ fg.pc = "prepare" => fg.op = "none"
    /\ fg.pc \in {"arm", "begin"} => fg.op \in DriveOps /\ fg.cmd = fg.op
    /\ fg.pc = "arm" => fg.op = "read"
    /\ fg.pc = "wait" => /\ fg.cmd \in {"none", "recalibrate", "readId", "seek", "read"}
                         /\ fg.cmd = "none" => fg.senses = 4
    /\ fg.pc \in {"send", "respond"} => fg.cmd # "none"
    /\ fg.cmd \in DriveOps => fg.op = fg.cmd
    /\ fg.cmd = "configure" => fg.op = "reset"
    /\ fg.cmd = "senseIrq" /\ fg.senses = 0 => fg.op \in {"recalibrate", "seek"}
    /\ fg.pc = "dmaWait" => fg.cmd = "read"

(* A read is being carried out, with the address the call was given.       *)
Reading == fg.pc # "idle" /\ fg.op # "reset"

Room(chs) == Sectors - chs.sector + 1

CallAsAsked ==
    /\ Reading =>
         /\ nReads >= 1
         /\ fg.lba \in 0..MaxLba /\ fg.n \in 1..MaxCount
         /\ fg.chs = Hack(LbaToChs(fg.lba, Geom), Geom)
         /\ fg.count = IF fg.op = "read" THEN Smaller(fg.n, Room(fg.chs)) ELSE fg.n
    /\ Reading => Len(returned) = nReads - 1
    /\ ~Reading => Len(returned) = nReads

(* Who may be waiting for whom on the controller's interrupt.              *)
Bus ==
    /\ ~(irq /\ irqDone)
    /\ OwnInterrupt
    /\ fdc.phase = "exec" => fg.pc = "wait" /\ fdc.cmd = fg.cmd
    /\ fdc.phase = "reset" /\ on => fg.pc = "wait"

(* What the current read's buffer has, before and after its command went   *)
(* to the controller.                                                      *)
Armed == fg.op = "read" /\ fg.pc # "arm"
Sent  == Armed /\ fg.cmd = "read" /\ fg.pc \in {"wait", "respond", "dmaWait"}
Progress == fg.count - dma.left

Transfer ==
    Reading =>
        /\ Armed => dma.run /\ dma.buf = nReads
        /\ ~Sent => mem[nReads] = <<>>
        /\ Armed /\ ~Sent => dma.left = fg.count
        /\ Sent /\ nReads \notin flawed =>
             /\ dma.left <= fg.count
             /\ mem[nReads] = [k \in 1..Progress |-> fg.lba + k - 1]
             /\ fdc.phase = "exec" => fdc.next = fg.chs.sector + Progress

(* The reads asked for are on the medium: what becomes of others is what   *)
(* RangeChecked is about.                                                  *)
OnDisk == MaxLba < Capacity(Geom)

IInv == OnDisk /\ Types /\ Control /\ CallAsAsked /\ Bus /\ Transfer /\ ReadsRight

USE DEF Answer

-----------------------------------------------------------------------------
(* Facts about the data.                                                   *)

LEMMA GeomFacts ==
    /\ Sectors \in Nat \ {0} /\ Cylinders \in Nat \ {0} /\ Cylinders % 2 = 0
    /\ MaxLba \in Nat /\ MaxCount \in Nat
    /\ IsGeometry(Geom) /\ Geom.head = 2
    /\ Geom.cylinder = Cylinders /\ Geom.sector = Sectors
    /\ Capacity(Geom) \in Nat
  BY FloppyAssumption DEF Geom, IsGeometry, Capacity

LEMMA SizeFacts ==
    Sectors \in Nat \ {0} /\ Cylinders \in Nat \ {0} /\ MaxCount \in Nat /\ 0 \in 0..Cylinders - 1
  BY GeomFacts

(* Where a read goes: to the sector asked for.                             *)
LEMMA Place ==
    ASSUME OnDisk, NEW lba \in 0..MaxLba, NEW a, a = Hack(LbaToChs(lba, Geom), Geom)
    PROVE  /\ a \in Address
           /\ a.cylinder \in 0..Cylinders - 1 /\ a.sector \in 1..Sectors
           /\ a.sector = (lba % Sectors) + 1
           /\ OnMedium(a.cylinder, a.head, a.sector, Geom) = lba
<1>1. lba \in 0..Capacity(Geom) - 1
  BY GeomFacts DEF OnDisk
<1>2. /\ a.cylinder \in 0..Cylinders - 1
      /\ a.head \in 0..1
      /\ a.sector \in 1..Sectors
      /\ OnMedium(a.cylinder, a.head, a.sector, Geom) = lba
  BY <1>1, GeomFacts, HackIsMedium
<1>3. a.sector = (lba % Sectors) + 1
  <2>1. a.sector = LbaToChs(lba, Geom).sector
    BY DEF Hack
  <2>2. LbaToChs(lba, Geom).sector \in 1..Sectors
    BY <1>1, GeomFacts, LbaToChsParts
  <2>3. LbaToChs(lba, Geom) # NoChs
    BY <2>2, GeomFacts DEF NoChs
  <2> QED
    BY <2>1, <2>3, GeomFacts DEF LbaToChs
<1>4. a = [cylinder |-> a.cylinder, head |-> a.head, sector |-> a.sector]
  BY DEF Hack
<1>5. a \in Address
  BY <1>2, <1>4, GeomFacts DEF Address
<1> QED
  BY <1>2, <1>3, <1>5

LEMMA SmallerType ==
    ASSUME NEW a \in Int, NEW b \in Int
    PROVE  Smaller(a, b) \in {a, b} /\ Smaller(a, b) <= a /\ Smaller(a, b) <= b
  BY DEF Smaller

(* What is known of the call that is being carried out.                    *)
LEMMA CallFacts ==
    ASSUME OnDisk, Types, CallAsAsked, Reading
    PROVE  /\ fg.lba \in Nat /\ fg.n \in 1..MaxCount
           /\ nReads \in 1..Len(mem)
           /\ fg.chs \in Address
           /\ fg.chs.cylinder \in 0..Cylinders - 1 /\ fg.chs.sector \in 1..Sectors
           /\ fg.chs.sector = (fg.lba % Sectors) + 1
           /\ OnMedium(fg.chs.cylinder, fg.chs.head, fg.chs.sector, Geom) = fg.lba
           /\ Room(fg.chs) \in 1..Sectors
  <1>1. /\ fg.lba \in 0..MaxLba /\ fg.n \in 1..MaxCount /\ nReads >= 1
        /\ fg.chs = Hack(LbaToChs(fg.lba, Geom), Geom)
    BY DEF CallAsAsked
  <1>2. /\ fg.chs \in Address
        /\ fg.chs.cylinder \in 0..Cylinders - 1 /\ fg.chs.sector \in 1..Sectors
        /\ fg.chs.sector = (fg.lba % Sectors) + 1
        /\ OnMedium(fg.chs.cylinder, fg.chs.head, fg.chs.sector, Geom) = fg.lba
    BY <1>1, Place
  <1>3. Room(fg.chs) \in 1..Sectors
    BY <1>2, GeomFacts DEF Room
  <1> QED
    BY <1>1, <1>2, <1>3, GeomFacts DEF Types

LEMMA Kept ==
    ASSUME ReadsRight, UNCHANGED <<returned, mem, flawed>>
    PROVE  ReadsRight'
  BY DEF ReadsRight

-----------------------------------------------------------------------------

(* The records are updated field by field: what such an update has in each *)
(* field, and that it is again a state of the controller or of a call.     *)
LEMMA Names ==
    /\ {"reset", "ready", "exec", "result"} \subseteq Phases
    /\ {"idle", "prepare", "arm", "begin", "enable", "send", "wait", "respond", "dmaWait"}
         \subseteq PCs
    /\ {"none", "configure", "senseIrq", "recalibrate", "readId", "specify", "seek", "read"}
         \subseteq Cmds
    /\ {"none", "reset", "recalibrate", "readId", "specify", "seek", "read"} \subseteq Ops
    /\ DriveOps \subseteq Ops /\ DriveOps \subseteq Cmds
  BY DEF Phases, PCs, Cmds, Ops, DriveOps

LEMMA FdcSense ==
    ASSUME NEW f \in FdcState, NEW h \in Phases, NEW s \in 0..4
    PROVE  [f EXCEPT !.phase = h, !.sense = s] \in FdcState
  BY DEF FdcState

LEMMA FdcPcn ==
    ASSUME NEW f \in FdcState, NEW h \in Phases, NEW s \in 0..4, NEW p \in 0..Cylinders - 1
    PROVE  [f EXCEPT !.phase = h, !.sense = s, !.pcn = p] \in FdcState
  BY DEF FdcState

LEMMA FdcLeft ==
    ASSUME NEW f \in FdcState, NEW h \in Phases, NEW l \in Nat
    PROVE  [f EXCEPT !.phase = h, !.left = l] \in FdcState
  BY DEF FdcState

LEMMA FdcLeftSense ==
    ASSUME NEW f \in FdcState, NEW h \in Phases, NEW l \in Nat, NEW s \in 0..4
    PROVE  [f EXCEPT !.phase = h, !.left = l, !.sense = s] \in FdcState
  BY DEF FdcState

LEMMA FdcExec ==
    ASSUME NEW f \in FdcState, NEW h \in Phases, NEW c \in Cmds, NEW x \in Int
    PROVE  [f EXCEPT !.phase = h, !.cmd = c, !.next = x] \in FdcState
  BY DEF FdcState

LEMMA FdcNext ==
    ASSUME NEW f \in FdcState, NEW x \in Int
    PROVE  [f EXCEPT !.next = x] \in FdcState
  BY DEF FdcState

LEMMA DmaLeft ==
    ASSUME NEW d \in DmaState, NEW l \in Nat
    PROVE  LET e == [d EXCEPT !.left = l]
           IN e \in DmaState /\ e.run = d.run /\ e.buf = d.buf /\ e.left = l
  BY DEF DmaState

(* g is the call f but for where it stands: at h, in operation o, with     *)
(* command c, and so on; its arguments are f's.                            *)
Like(g, f, h, o, c, s, b, m) ==
    /\ g \in FgState
    /\ g.pc = h /\ g.op = o /\ g.cmd = c /\ g.senses = s /\ g.boots = b /\ g.count = m
    /\ g.lba = f.lba /\ g.n = f.n /\ g.chs = f.chs

LEMMA FgPc ==
    ASSUME NEW f \in FgState, NEW h \in PCs
    PROVE  Like([f EXCEPT !.pc = h], f, h, f.op, f.cmd, f.senses, f.boots, f.count)
  BY DEF FgState, Like

LEMMA FgCmd ==
    ASSUME NEW f \in FgState, NEW h \in PCs, NEW c \in Cmds
    PROVE  Like([f EXCEPT !.pc = h, !.cmd = c], f, h, f.op, c, f.senses, f.boots, f.count)
  BY DEF FgState, Like

LEMMA FgSenses ==
    ASSUME NEW f \in FgState, NEW h \in PCs, NEW s \in 0..4
    PROVE  Like([f EXCEPT !.pc = h, !.senses = s], f, h, f.op, f.cmd, s, f.boots, f.count)
  BY DEF FgState, Like

LEMMA FgCmdSenses ==
    ASSUME NEW f \in FgState, NEW h \in PCs, NEW c \in Cmds, NEW s \in 0..4
    PROVE  Like([f EXCEPT !.pc = h, !.cmd = c, !.senses = s], f, h, f.op, c, s, f.boots, f.count)
  BY DEF FgState, Like

LEMMA FgOp ==
    ASSUME NEW f \in FgState, NEW h \in PCs, NEW o \in Ops, NEW c \in Cmds
    PROVE  Like([f EXCEPT !.pc = h, !.op = o, !.cmd = c], f, h, o, c, f.senses, f.boots, f.count)
  BY DEF FgState, Like

LEMMA FgCount ==
    ASSUME NEW f \in FgState, NEW h \in PCs, NEW m \in 0..MaxCount
    PROVE  Like([f EXCEPT !.pc = h, !.count = m], f, h, f.op, f.cmd, f.senses, f.boots, m)
  BY DEF FgState, Like

LEMMA FgReset ==
    ASSUME NEW f \in FgState, NEW h \in PCs, NEW o \in Ops, NEW c \in Cmds, NEW b \in 0..2
    PROVE  Like([f EXCEPT !.pc = h, !.op = o, !.cmd = c, !.boots = b],
                f, h, o, c, f.senses, b, f.count)
  BY DEF FgState, Like

LEMMA NoCallFacts ==
    /\ NoCall \in FgState
    /\ NoCall.pc = "idle" /\ NoCall.op = "none" /\ NoCall.cmd = "none"
<1>1. NoChs \in Address
  BY DEF NoChs, Address
<1>2. 0 \in 0..MaxCount
  BY SizeFacts
<1> QED
  BY <1>1, <1>2, Names DEF NoCall, FgState

LEMMA OpBegins ==
    ASSUME fg \in FgState, NEW o \in DriveOps
    PROVE  Like(Op(o), fg, "begin", o, o, fg.senses, fg.boots, fg.count)
  BY Names, FgOp DEF Op

LEMMA OpArms ==
    ASSUME fg \in FgState, NEW o \in DriveOps, NEW m \in 0..MaxCount
    PROVE  Like([Op(o) EXCEPT !.pc = "arm", !.count = m],
                fg, "arm", o, o, fg.senses, fg.boots, m)
<1> DEFINE g == Op(o)
<1>1. Like(g, fg, "begin", o, o, fg.senses, fg.boots, fg.count)
  BY OpBegins
<1> HIDE DEF g
<1>2. Like([g EXCEPT !.pc = "arm", !.count = m], g, "arm", g.op, g.cmd, g.senses, g.boots, m)
  <2>1. g \in FgState /\ "arm" \in PCs
    BY <1>1, Names DEF Like
  <2> QED
    BY <2>1, FgCount
<1>3. Like([g EXCEPT !.pc = "arm", !.count = m], fg, "arm", o, o, fg.senses, fg.boots, m)
  BY <1>1, <1>2 DEF Like
<1> QED
  BY <1>3 DEF g

LEMMA CommandFacts ==
    ASSUME NEW c \in Cmds \ {"none"}
    PROVE  Commands[c].wait <=> c \in {"recalibrate", "readId", "seek", "read"}
<1>1. /\ Commands["configure"].wait = FALSE /\ Commands["senseIrq"].wait = FALSE
      /\ Commands["specify"].wait = FALSE
  BY DEF Commands
<1>2. /\ Commands["recalibrate"].wait = TRUE /\ Commands["readId"].wait = TRUE
      /\ Commands["seek"].wait = TRUE /\ Commands["read"].wait = TRUE
  BY DEF Commands
<1>3. c \in {"configure", "senseIrq", "recalibrate", "readId", "specify", "seek", "read"}
  BY DEF Cmds, DriveOps
<1> QED
  BY <1>1, <1>2, <1>3

-----------------------------------------------------------------------------
(* The invariant holds at first, and every step keeps it.                  *)

LEMMA InitIInv == OnDisk /\ Init => IInv
<1> SUFFICES ASSUME OnDisk, Init PROVE IInv
  OBVIOUS
<1>1. Like(fg, NoCall, "send", "reset", "configure", NoCall.senses, 1, NoCall.count)
  <2>1. /\ NoCall \in FgState /\ 1 \in 0..2
        /\ "send" \in PCs /\ "reset" \in Ops /\ "configure" \in Cmds
    BY NoCallFacts, Names
  <2> QED
    BY <2>1, FgReset, Zenon DEF Init
<1>2. Types
  <2>1. 0 \in 0..Cylinders - 1 /\ heads \in 0..Cylinders - 1
    BY SizeFacts DEF Init
  <2>2. fdc \in FdcState
    BY <2>1, Names DEF Init, FdcState
  <2>3. dma \in DmaState /\ dma.buf <= nReads /\ dma.left <= Sectors /\ nReads \in Nat
    BY SizeFacts DEF Init, DmaState
  <2>4. mem \in Seq(Seq(Int)) /\ Len(mem) = nReads /\ returned \in Seq(Answer)
    BY DEF Init
  <2> QED
    BY <1>1, <2>1, <2>2, <2>3, <2>4 DEF Init, Types, Like
<1>3. Control /\ ~Reading
  BY <1>1 DEF Init, Like, Control, Reading, DriveOps
<1>4. CallAsAsked
  <2>1. Len(returned) = 0 /\ nReads = 0
    BY DEF Init
  <2> QED
    BY <1>3, <2>1 DEF CallAsAsked
<1>5. Transfer
  BY <1>3 DEF Transfer
<1>6. ReadsRight
  BY DEF Init, ReadsRight
<1>7. Bus
  BY DEF Init, Bus, OwnInterrupt
<1> QED
  BY <1>2, <1>3, <1>4, <1>5, <1>6, <1>7 DEF IInv

(* What a step of the controller leaves as it is, when it stores nothing.  *)
Aside == UNCHANGED <<on, irqDone, track, dma, mem, fg, returned, nReads, flawed>>

(* The controller ends what it was doing, and latches its interrupt.       *)
LEMMA Ends ==
    ASSUME IInv, Aside, irq' = TRUE, fdc' \in FdcState, heads' \in 0..Cylinders - 1,
           fdc'.phase \in {"ready", "result"}, fg.pc = "wait", ~irqDone
    PROVE  IInv'
<1> USE DEF IInv, Aside
<1>1. Types'
  BY DEF Types
<1>2. Control' /\ CallAsAsked' /\ OnDisk'
  BY DEF Control, CallAsAsked, Reading, OnDisk
<1>3. Bus'
  BY DEF Bus, OwnInterrupt
<1>4. Transfer'
  BY DEF Transfer, Reading, Armed, Sent, Progress
<1> QED
  BY <1>1, <1>2, <1>3, <1>4, Kept

(* While a command is carried out, or the controller comes out of reset,   *)
(* the foreground waits.                                                   *)
LEMMA Waits ==
    ASSUME IInv, fdc.phase = "exec" \/ (fdc.phase = "reset" /\ on)
    PROVE  fg.pc = "wait" /\ ~irqDone /\ ~irq /\ (fdc.phase = "exec" => fdc.cmd = fg.cmd)
  BY DEF IInv, Bus, OwnInterrupt

LEMMA StepFdcUp == IInv /\ FdcUp => IInv'
<1> SUFFICES ASSUME IInv, FdcUp PROVE IInv'
  OBVIOUS
<1>1. Aside /\ irq' = TRUE /\ heads' = heads
  BY DEF Aside, FdcUp, driver, call, faults
<1>2. fdc' \in FdcState /\ fdc'.phase = "ready"
  <2>1. fdc \in FdcState /\ 0 \in 0..Cylinders - 1 /\ 4 \in 0..4 /\ "ready" \in Phases
    BY SizeFacts, Names DEF IInv, Types
  <2>2. fdc' = [fdc EXCEPT !.phase = "ready", !.sense = 4, !.pcn = 0]
    BY DEF FdcUp
  <2>3. [fdc EXCEPT !.phase = "ready", !.sense = 4, !.pcn = 0] \in FdcState
    BY <2>1, FdcPcn, Zenon
  <2> QED
    BY <2>1, <2>2, <2>3 DEF FdcState
<1> QED
  BY <1>1, <1>2, Waits, Ends DEF FdcUp, IInv, Types

LEMMA StepFdcMoves == IInv /\ FdcMoves => IInv'
<1> SUFFICES ASSUME IInv, FdcMoves PROVE IInv'
  OBVIOUS
<1>1. Aside /\ irq' = TRUE /\ fdc.phase = "exec"
  BY DEF Aside, FdcMoves, driver, call, faults, Executing
<1>2. fg.pc = "wait" /\ ~irqDone
  BY <1>1, Waits
<1>3. PICK c \in 0..Cylinders - 1 :
        fdc' = [fdc EXCEPT !.phase = "ready", !.sense = 1, !.pcn = c] /\ heads' \in 0..Cylinders - 1
  <2>1. CASE Executing("recalibrate")
    BY <2>1, SizeFacts DEF FdcMoves, Executing
  <2>2. CASE Executing("seek")
    <3>1. fg.cmd = "seek"
      BY <1>1, <2>2, Waits DEF Executing
    <3>2. Reading
      BY <1>2, <3>1 DEF IInv, Control, Reading, DriveOps
    <3>3. fg.chs.cylinder \in 0..Cylinders - 1
      BY <3>2, CallFacts DEF IInv
    <3>4. heads' = Reachable(heads + Steps) /\ heads + Steps \in Int
      BY <2>2, <3>3 DEF FdcMoves, Executing, Steps, IInv, Types, FdcState
    <3>5. heads' \in 0..Cylinders - 1
      BY <3>4, SizeFacts DEF Reachable, Smaller
    <3>6. fdc' = [fdc EXCEPT !.phase = "ready", !.sense = 1, !.pcn = fg.chs.cylinder]
      BY <2>2 DEF FdcMoves, Executing
    <3> QED
      BY <3>3, <3>5, <3>6
  <2> QED
    BY <2>1, <2>2 DEF FdcMoves
<1>4. fdc' \in FdcState /\ fdc'.phase = "ready"
  <2>1. fdc \in FdcState /\ 1 \in 0..4 /\ "ready" \in Phases
    BY Names DEF IInv, Types
  <2>2. [fdc EXCEPT !.phase = "ready", !.sense = 1, !.pcn = c] \in FdcState
    BY <2>1, FdcPcn, Zenon
  <2> QED
    BY <1>3, <2>1, <2>2 DEF FdcState
<1> QED
  BY <1>1, <1>2, <1>3, <1>4, Ends

(* The result that a command has when it ends.                             *)
LEMMA ResultFacts ==
    ASSUME IInv PROVE Result \in FdcState /\ Result.phase = "result"
<1>1. fdc \in FdcState /\ "result" \in Phases
  BY Names DEF IInv, Types
<1>2. Result \in FdcState
  BY <1>1, FdcLeft DEF Result
<1> QED
  BY <1>1, <1>2 DEF Result, FdcState

LEMMA StepFdcIdRead == IInv /\ FdcIdRead => IInv'
<1> SUFFICES ASSUME IInv, FdcIdRead PROVE IInv'
  OBVIOUS
<1>1. Aside /\ irq' = TRUE /\ fdc' = Result /\ heads' = heads /\ fdc.phase = "exec"
  BY DEF Aside, FdcIdRead, driver, call, faults, Executing
<1> QED
  BY <1>1, ResultFacts, Waits, Ends DEF IInv, Types

LEMMA StepFdcReadEnds == IInv /\ FdcReadEnds => IInv'
<1> SUFFICES ASSUME IInv, FdcReadEnds PROVE IInv'
  OBVIOUS
<1>1. Aside /\ irq' = TRUE /\ fdc' = Result /\ heads' = heads /\ fdc.phase = "exec"
  BY DEF Aside, FdcReadEnds, driver, call, faults, Executing
<1> QED
  BY <1>1, ResultFacts, Waits, Ends DEF IInv, Types

LEMMA StepInterrupt == IInv /\ Interrupt => IInv'
<1> SUFFICES ASSUME IInv, Interrupt PROVE IInv'
  OBVIOUS
<1> USE DEF IInv
<1>1. /\ irq /\ irq' = FALSE /\ irqDone' = TRUE
      /\ UNCHANGED <<on, track, fdc, heads, dma, mem, fg, returned, nReads, flawed>>
  BY DEF Interrupt, call, faults
<1>2. Types'
  BY <1>1 DEF Types
<1>3. Control' /\ CallAsAsked' /\ OnDisk'
  BY <1>1 DEF Control, CallAsAsked, Reading, OnDisk
<1>4. Bus'
  BY <1>1 DEF Bus, OwnInterrupt
<1>5. Transfer'
  BY <1>1 DEF Transfer, Reading, Armed, Sent, Progress
<1> QED
  BY <1>1, <1>2, <1>3, <1>4, <1>5, Kept

(* A read command that is carried out is the current read's.               *)
LEMMA ReadFacts ==
    ASSUME IInv, Executing("read")
    PROVE  /\ fg.pc = "wait" /\ fg.cmd = "read" /\ fg.op = "read"
           /\ ~irq /\ ~irqDone
           /\ Reading /\ Armed /\ Sent
           /\ dma.run /\ dma.buf = nReads
           /\ nReads \in 1..Len(mem)
           /\ Len(returned) = nReads - 1
<1>1. fg.pc = "wait" /\ fg.cmd = "read" /\ ~irq /\ ~irqDone
  BY Waits DEF Executing
<1>2. fg.op = "read"
  BY <1>1 DEF IInv, Control, DriveOps
<1>3. Reading /\ Armed /\ Sent
  BY <1>1, <1>2 DEF Reading, Armed, Sent
<1> QED
  BY <1>1, <1>2, <1>3, CallFacts DEF IInv, Transfer, CallAsAsked

(* What the channel stores goes to the current read's buffer.              *)
LEMMA Stores ==
    ASSUME IInv, Executing("read"), Store
    PROVE  /\ mem' \in Seq(Seq(Int)) /\ Len(mem') = Len(mem)
           /\ \A i \in 1..Len(returned) : mem'[i] = mem[i]
           /\ dma' \in DmaState /\ dma'.run = dma.run /\ dma'.buf = dma.buf
           /\ dma'.left <= dma.left
           /\ dma.left > 0 => /\ dma'.left = dma.left - 1
                              /\ mem'[nReads] = Append(mem[nReads], Stored)
<1> USE DEF IInv
<1>1. /\ mem \in Seq(Seq(Int)) /\ dma \in DmaState /\ returned \in Seq(Answer)
      /\ dma.run /\ dma.buf = nReads
      /\ nReads \in 1..Len(mem) /\ Len(returned) = nReads - 1
  BY ReadFacts DEF Types
<1>2. CASE dma.left > 0
  <2>1. /\ mem' = [mem EXCEPT ![nReads] = Append(@, Stored)]
        /\ dma' = [dma EXCEPT !.left = @ - 1]
    BY <1>1, <1>2 DEF Store
  <2>2. dma' \in DmaState /\ dma'.run = dma.run /\ dma'.buf = dma.buf /\ dma'.left = dma.left - 1
    <3>1. dma.left - 1 \in Nat
      BY <1>1, <1>2 DEF DmaState
    <3> QED
      BY <1>1, <2>1, <3>1, DmaLeft, Zenon
  <2>3. Stored \in Int
    <3>1. fg.chs \in Address /\ fdc \in FdcState /\ heads \in Int /\ Sectors \in Nat
      BY ReadFacts, CallFacts, SizeFacts DEF Types
    <3> QED
      BY <3>1, GeomFacts DEF Stored, OnMedium, Address, FdcState
  <2>4. mem[nReads] \in Seq(Int)
    BY <1>1
  <2>5. Append(mem[nReads], Stored) \in Seq(Int)
    BY <2>3, <2>4
  <2>6. mem' \in Seq(Seq(Int)) /\ Len(mem') = Len(mem)
    BY <1>1, <2>1, <2>5
  <2>7. \A i \in 1..Len(returned) : mem'[i] = mem[i]
    BY <1>1, <2>1
  <2>8. mem'[nReads] = Append(mem[nReads], Stored)
    BY <1>1, <2>1
  <2>9. dma'.left <= dma.left
    BY <1>1, <2>2 DEF DmaState
  <2> QED
    BY <2>2, <2>6, <2>7, <2>8, <2>9
<1>3. CASE ~(dma.left > 0)
  <2>1. mem' = mem /\ dma' = dma
    BY <1>3 DEF Store
  <2>2. dma.left <= dma.left
    BY <1>1 DEF DmaState
  <2> QED
    BY <1>1, <1>3, <2>1, <2>2, Zenon
<1> QED
  BY <1>2, <1>3

(* What a read has returned stays right if its buffer stays as it is.      *)
LEMMA KeptThere ==
    ASSUME ReadsRight, UNCHANGED returned, flawed \subseteq flawed',
           \A i \in 1..Len(returned) : mem'[i] = mem[i]
    PROVE  ReadsRight'
  BY DEF ReadsRight

LEMMA SectorsInOrder ==
    ASSUME NEW a \in Address, NEW p \in Int
    PROVE  OnMedium(a.cylinder, a.head, a.sector + p, Geom)
             = OnMedium(a.cylinder, a.head, a.sector, Geom) + p
<1>1. a.cylinder \in Int /\ a.head \in Int /\ a.sector \in Int
  BY DEF Address
<1>2. (a.cylinder * 2 + a.head) * Geom.sector \in Int
  BY <1>1, SizeFacts, GeomFacts
<1> QED
  BY <1>1, <1>2 DEF OnMedium

(* The k-th sector of a transfer is the k-th after the address asked for.  *)
LEMMA NextSector ==
    ASSUME NEW s \in Seq(Int), NEW a \in Int, NEW p \in Nat,
           s = [k \in 1..p |-> a + k - 1]
    PROVE  Append(s, a + p) = [k \in 1..p + 1 |-> a + k - 1]
<1>1. Len(s) = p
  OBVIOUS
<1>2. Append(s, a + p) \in Seq(Int) /\ Len(Append(s, a + p)) = p + 1
  BY <1>1
<1>3. \A k \in 1..p + 1 : Append(s, a + p)[k] = a + k - 1
  BY <1>1
<1> QED
  BY <1>2, <1>3

LEMMA NothingYet == \A a : <<>> = [k \in 1..0 |-> a + k - 1]
  OBVIOUS

LEMMA StepFdcReadsSector == IInv /\ FdcReadsSector => IInv'
<1> SUFFICES ASSUME IInv, FdcReadsSector PROVE IInv'
  OBVIOUS
<1> USE DEF IInv
<1>1. /\ Executing("read") /\ Found /\ Store
      /\ fdc' = [fdc EXCEPT !.next = @ + 1]
      /\ UNCHANGED <<on, irq, irqDone, track, heads, fg, returned, nReads, flawed>>
  BY DEF FdcReadsSector, driver, call, faults
<1>2. /\ fdc \in FdcState /\ fdc.next \in Int
      /\ fdc' \in FdcState /\ fdc'.phase = fdc.phase /\ fdc'.cmd = fdc.cmd
      /\ fdc'.next = fdc.next + 1
  <2>1. fdc \in FdcState /\ fdc.next \in Int /\ fdc.next + 1 \in Int
    BY DEF Types, FdcState
  <2>2. [fdc EXCEPT !.next = fdc.next + 1] \in FdcState
    BY <2>1, FdcNext, Zenon
  <2> QED
    BY <1>1, <2>1, <2>2 DEF FdcState
<1>3. Types'
  <2>1. /\ dma' \in DmaState /\ dma'.buf <= nReads /\ dma'.left <= Sectors
        /\ mem' \in Seq(Seq(Int)) /\ Len(mem') = nReads
    BY <1>1, SizeFacts, Stores DEF Types, DmaState
  <2> QED
    BY <1>1, <1>2, <2>1 DEF Types
<1>4. Control' /\ CallAsAsked' /\ OnDisk'
  BY <1>1 DEF Control, CallAsAsked, Reading, OnDisk
<1>5. Bus'
  BY <1>1, <1>2 DEF Bus, OwnInterrupt
<1>6. Transfer'
  <2>1. Reading' = Reading /\ Armed' = Armed /\ Sent' = Sent
    BY <1>1 DEF Reading, Armed, Sent
  <2>2. dma'.run /\ dma'.buf = nReads' /\ Armed' /\ Sent'
    BY <1>1, <2>1, ReadFacts, Stores
  <2>3. ASSUME nReads \notin flawed
        PROVE  /\ dma'.left <= fg.count
               /\ mem'[nReads] = [k \in 1..Progress' |-> fg.lba + k - 1]
               /\ fdc'.next = fg.chs.sector + Progress'
    <3>1. /\ dma.left <= fg.count
          /\ mem[nReads] = [k \in 1..Progress |-> fg.lba + k - 1]
          /\ fdc.next = fg.chs.sector + Progress
      BY <1>1, <2>3, ReadFacts DEF Transfer, Executing
    <3>2. /\ fg.lba \in Nat /\ fg.count \in Nat /\ dma.left \in Nat /\ fg.chs \in Address
          /\ fg.chs.sector \in Int /\ fg.chs.cylinder \in Int /\ fg.chs.head \in Int
          /\ OnMedium(fg.chs.cylinder, fg.chs.head, fg.chs.sector, Geom) = fg.lba
      <4>1. Reading
        BY <1>1, ReadFacts
      <4>2. fg.count \in Nat /\ dma.left \in Nat
        BY SizeFacts DEF Types, FgState, DmaState
      <4>3. fg.chs \in Address /\ fg.lba \in Nat
        BY <4>1, CallFacts
      <4>4. OnMedium(fg.chs.cylinder, fg.chs.head, fg.chs.sector, Geom) = fg.lba
        BY <4>1, CallFacts
      <4> QED
        BY <4>2, <4>3, <4>4 DEF Address
    <3> HIDE DEF IInv
    <3>3. dma.left > 0
      BY <1>1, <3>1, <3>2 DEF Found, Last, Progress
    <3>4. Stored = fg.lba + Progress
      <4>1. heads = fg.chs.cylinder
        BY <1>1 DEF Found
      <4>2. Progress \in Int
        BY <3>2 DEF Progress
      <4>3. Stored = OnMedium(fg.chs.cylinder, fg.chs.head, fg.chs.sector + Progress, Geom)
        BY <3>1, <4>1 DEF Stored
      <4>4. OnMedium(fg.chs.cylinder, fg.chs.head, fg.chs.sector + Progress, Geom)
              = OnMedium(fg.chs.cylinder, fg.chs.head, fg.chs.sector, Geom) + Progress
        <5>1. fg.chs \in Address
          BY <3>2
        <5> QED
          BY <4>2, <5>1, SectorsInOrder, Zenon
      <4> QED
        BY <3>2, <4>3, <4>4
    <3>5. dma'.left = dma.left - 1 /\ mem'[nReads] = Append(mem[nReads], Stored)
      BY <1>1, <3>3, Stores
    <3>6. Progress \in Nat /\ Progress' = Progress + 1
      <4>1. fg'.count = fg.count
        BY <1>1
      <4>2. Progress' = fg.count - (dma.left - 1) /\ Progress = fg.count - dma.left
        BY <3>5, <4>1 DEF Progress
      <4>3. dma.left <= fg.count
        BY <3>1
      <4>4. fg.count \in Nat /\ dma.left \in Nat
        BY <3>2
      <4> QED
        BY <4>2, <4>3, <4>4
    <3>7. mem[nReads] \in Seq(Int)
      BY <1>1, ReadFacts DEF IInv, Types
    <3>8. Append(mem[nReads], fg.lba + Progress) = [k \in 1..Progress + 1 |-> fg.lba + k - 1]
      BY <3>1, <3>2, <3>6, <3>7, NextSector
    <3>9. dma'.left <= fg.count
      BY <3>1, <3>2, <3>5
    <3>10. fdc'.next = fg.chs.sector + Progress'
      <4>1. (fg.chs.sector + Progress) + 1 = fg.chs.sector + (Progress + 1)
        BY <3>2, <3>6
      <4> QED
        BY <1>2, <3>1, <3>6, <4>1, Zenon
    <3> QED
      BY <3>4, <3>5, <3>6, <3>8, <3>9, <3>10
  <2> QED
    BY <1>1, <2>2, <2>3 DEF Transfer
<1>7. ReadsRight'
  BY <1>1, Stores, KeptThere
<1> QED
  BY <1>3, <1>4, <1>5, <1>6, <1>7

LEMMA StepFdcFails == IInv /\ FdcFails => IInv'
<1> SUFFICES ASSUME IInv, FdcFails PROVE IInv'
  OBVIOUS
<1> USE DEF IInv
<1>1. /\ Executing("read") /\ (Store \/ UNCHANGED <<mem, dma>>)
      /\ fdc' = Result /\ irq' = TRUE /\ flawed' = flawed \union {nReads}
      /\ UNCHANGED <<on, irqDone, track, heads, fg, returned, nReads>>
  BY DEF FdcFails, driver, call
<1>2. /\ mem' \in Seq(Seq(Int)) /\ Len(mem') = Len(mem)
      /\ \A i \in 1..Len(returned) : mem'[i] = mem[i]
      /\ dma' \in DmaState /\ dma'.run = dma.run /\ dma'.buf = dma.buf /\ dma'.left <= dma.left
  <2>1. CASE Store
    BY <1>1, <2>1, Stores
  <2>2. CASE UNCHANGED <<mem, dma>>
    BY <2>2 DEF Types, DmaState
  <2> QED
    BY <1>1, <2>1, <2>2
<1>3. fdc' \in FdcState /\ fdc'.phase = "result"
  BY <1>1, ResultFacts
<1>4. Types'
  <2>1. /\ dma' \in DmaState /\ dma'.buf <= nReads /\ dma'.left <= Sectors
        /\ mem' \in Seq(Seq(Int)) /\ Len(mem') = nReads
    BY <1>1, <1>2, SizeFacts DEF Types, DmaState
  <2>2. flawed' \subseteq 1..nReads
    BY <1>1, ReadFacts DEF Types
  <2> QED
    BY <1>1, <1>3, <2>1, <2>2 DEF Types
<1>5. Control' /\ CallAsAsked' /\ OnDisk'
  BY <1>1 DEF Control, CallAsAsked, Reading, OnDisk
<1>6. Bus'
  BY <1>1, <1>3, ReadFacts DEF Bus, OwnInterrupt
<1>7. Transfer'
  BY <1>1, <1>2, ReadFacts DEF Transfer, Reading, Armed, Sent
<1>8. ReadsRight'
  BY <1>1, <1>2, KeptThere
<1> QED
  BY <1>4, <1>5, <1>6, <1>7, <1>8

(* The steps of the foreground that leave memory and what was returned.    *)
Within == UNCHANGED <<heads, mem, returned, nReads, flawed>>

LEMMA StepWaitIrq == IInv /\ WaitIrq => IInv'
<1> SUFFICES ASSUME IInv, WaitIrq PROVE IInv'
  OBVIOUS
<1> USE DEF IInv
<1>1. /\ fg.pc = "wait" /\ irqDone /\ irqDone' = FALSE
      /\ fg' = IF fg.cmd = "none" THEN [fg EXCEPT !.pc = "send", !.cmd = "senseIrq"]
                                  ELSE [fg EXCEPT !.pc = "respond"]
      /\ UNCHANGED <<track, on, irq, fdc, dma>> /\ Within
  BY DEF WaitIrq, chips, call, faults, Within
<1>2. irq = FALSE /\ fdc.phase \in {"ready", "result"}
  BY <1>1 DEF Bus, OwnInterrupt, Types
<1>3. fg \in FgState /\ {"send", "respond"} \subseteq PCs /\ "senseIrq" \in Cmds
  BY Names DEF Types
<1>4. \/ fg.cmd = "none" /\ Like(fg', fg, "send", fg.op, "senseIrq", fg.senses, fg.boots, fg.count)
      \/ fg.cmd # "none" /\ Like(fg', fg, "respond", fg.op, fg.cmd, fg.senses, fg.boots, fg.count)
  BY <1>1, <1>3, FgPc, FgCmd
<1>5. Types'
  BY <1>1, <1>4 DEF Types, Within, Like
<1>6. Control'
  BY <1>1, <1>4 DEF Control, Within, Like, DriveOps
<1>7. CallAsAsked' /\ OnDisk'
  BY <1>1, <1>4 DEF CallAsAsked, Reading, OnDisk, Within, Like
<1>8. Bus'
  BY <1>1, <1>2 DEF Bus, OwnInterrupt
<1>9. Transfer'
  BY <1>1, <1>2, <1>4 DEF Transfer, Reading, Armed, Sent, Progress, Within, Like
<1> QED
  BY <1>1, <1>5, <1>6, <1>7, <1>8, <1>9, Kept DEF Within

(* Outside its waits the foreground has the bus to itself.                 *)
LEMMA Quiet ==
    ASSUME IInv, fg.pc # "wait"
    PROVE  irq = FALSE /\ irqDone = FALSE /\ fdc.phase # "exec" /\ ~(fdc.phase = "reset" /\ on)
  BY DEF IInv, Types, Bus, OwnInterrupt

LEMMA StepBegin == IInv /\ Begin => IInv'
<1> SUFFICES ASSUME IInv, Begin PROVE IInv'
  OBVIOUS
<1> USE DEF IInv
<1>1. /\ fg.pc = "begin"
      /\ fg' = [fg EXCEPT !.pc = IF on \/ fg.op = "specify" THEN "send" ELSE "enable"]
      /\ UNCHANGED <<track, on, irq, irqDone, fdc, dma>> /\ Within
  BY DEF Begin, driver, chips, call, faults, Within
<1>2. PICK h \in {"send", "enable"} :
        Like(fg', fg, h, fg.op, fg.cmd, fg.senses, fg.boots, fg.count)
  BY <1>1, Names, FgPc DEF Types
<1>3. Types'
  BY <1>1, <1>2 DEF Types, Within, Like
<1>4. Control'
  BY <1>1, <1>2 DEF Control, Within, Like, DriveOps
<1>5. CallAsAsked' /\ OnDisk'
  BY <1>1, <1>2 DEF CallAsAsked, Reading, OnDisk, Within, Like
<1>6. Bus'
  BY <1>1, Quiet DEF Bus, OwnInterrupt
<1>7. Transfer'
  BY <1>1, <1>2 DEF Transfer, Reading, Armed, Sent, Within, Like
<1> QED
  BY <1>1, <1>3, <1>4, <1>5, <1>6, <1>7, Kept DEF Within

(* The controller is reset.                                                *)
LEMMA ResetFacts ==
    ASSUME IInv PROVE Reset \in FdcState /\ Reset.phase = "reset"
<1>1. fdc \in FdcState /\ "reset" \in Phases /\ 0 \in 0..4
  BY Names DEF IInv, Types
<1>2. Reset \in FdcState
  BY <1>1, FdcSense, Zenon DEF Reset
<1> QED
  BY <1>1, <1>2 DEF Reset, FdcState

LEMMA StepEnable == IInv /\ Enable => IInv'
<1> SUFFICES ASSUME IInv, Enable PROVE IInv'
  OBVIOUS
<1> USE DEF IInv
<1>1. /\ fg.pc = "enable"
      /\ fg' = [fg EXCEPT !.pc = "wait", !.cmd = "none", !.senses = 4]
      /\ fdc' = Reset
      /\ UNCHANGED <<track, irq, irqDone, dma>> /\ Within
  BY DEF Enable, driver, call, faults, Within
<1>2. fg \in FgState /\ "wait" \in PCs /\ "none" \in Cmds /\ 4 \in 0..4
  BY Names DEF Types
<1>3. Like(fg', fg, "wait", fg.op, "none", 4, fg.boots, fg.count)
  BY <1>1, <1>2, FgCmdSenses, Zenon
<1>4. fdc' \in FdcState /\ fdc'.phase = "reset"
  BY <1>1, ResetFacts
<1>5. Types'
  BY <1>1, <1>3, <1>4 DEF Types, Within, Like
<1>6. Control'
  BY <1>1, <1>3 DEF Control, Within, Like, DriveOps
<1>7. CallAsAsked' /\ OnDisk'
  BY <1>1, <1>3 DEF CallAsAsked, Reading, OnDisk, Within, Like
<1>8. Bus'
  BY <1>1, <1>3, <1>4, Quiet DEF Bus, OwnInterrupt, Like
<1>9. Transfer'
  BY <1>1, <1>3 DEF Transfer, Reading, Armed, Sent, Within, Like
<1> QED
  BY <1>1, <1>5, <1>6, <1>7, <1>8, <1>9, Kept DEF Within

LEMMA StepSend == IInv /\ Send => IInv'
<1> SUFFICES ASSUME IInv, Send PROVE IInv'
  OBVIOUS
<1> USE DEF IInv
<1>1. /\ fg.pc = "send" /\ fdc.phase = "ready" /\ fdc' = Accept(fg.cmd)
      /\ fg' = [fg EXCEPT !.pc = IF Commands[fg.cmd].wait THEN "wait" ELSE "respond"]
      /\ UNCHANGED <<track, on, irq, irqDone, dma>> /\ Within
  BY DEF Send, driver, call, faults, Within
<1>2. fg \in FgState /\ fg.cmd \in Cmds \ {"none"}
  BY <1>1 DEF Types, FgState, Control
<1>3. PICK h \in {"wait", "respond"} :
        /\ Like(fg', fg, h, fg.op, fg.cmd, fg.senses, fg.boots, fg.count)
        /\ h = "wait" <=> fg.cmd \in {"recalibrate", "readId", "seek", "read"}
  <2>1. CASE Commands[fg.cmd].wait
    BY <1>1, <1>2, <2>1, CommandFacts, Names, FgPc
  <2>2. CASE ~Commands[fg.cmd].wait
    BY <1>1, <1>2, <2>2, CommandFacts, Names, FgPc
  <2> QED
    BY <2>1, <2>2
<1>4. /\ fdc' \in FdcState
      /\ fdc'.phase \in {"ready", "result", "exec"}
      /\ fdc'.phase = "exec" => /\ h = "wait" /\ fdc'.cmd = fg.cmd
                                /\ fdc'.next = fg.chs.sector
  <2>1. fdc \in FdcState /\ fdc.sense \in 0..4 /\ fg.chs.sector \in Int /\ fg.cmd \in Cmds
    BY <1>2 DEF Types, FdcState, FgState, Address
  <2>2. {"result", "exec"} \subseteq Phases /\ 1 \in Nat /\ 2 \in Nat
    BY Names
  <2>3. CASE fg.cmd \in {"configure", "specify"}
    BY <1>1, <2>1, <2>3 DEF Accept
  <2>4. CASE fg.cmd = "senseIrq" /\ fdc.sense > 0
    <3>1. fdc' = [fdc EXCEPT !.phase = "result", !.left = 2, !.sense = fdc.sense - 1]
      BY <1>1, <2>4 DEF Accept
    <3>2. fdc.sense - 1 \in 0..4
      BY <2>1, <2>4
    <3>3. fdc' \in FdcState
      BY <2>1, <2>2, <3>1, <3>2, FdcLeftSense, Zenon
    <3> QED
      BY <2>1, <3>1, <3>3 DEF FdcState
  <2>5. CASE fg.cmd = "senseIrq" /\ ~(fdc.sense > 0)
    <3>1. fdc' = [fdc EXCEPT !.phase = "result", !.left = 1]
      BY <1>1, <2>1, <2>5 DEF Accept
    <3>2. fdc' \in FdcState
      BY <2>1, <2>2, <3>1, FdcLeft, Zenon
    <3> QED
      BY <2>1, <3>1, <3>2 DEF FdcState
  <2>6. CASE fg.cmd \in {"recalibrate", "readId", "seek", "read"}
    <3>1. fdc' = [fdc EXCEPT !.phase = "exec", !.cmd = fg.cmd, !.next = fg.chs.sector]
      BY <1>1, <2>6 DEF Accept
    <3>2. fdc' \in FdcState
      BY <2>1, <2>2, <3>1, FdcExec, Zenon
    <3> QED
      BY <1>3, <2>1, <2>6, <3>1, <3>2 DEF FdcState
  <2> QED
    BY <1>2, <2>3, <2>4, <2>5, <2>6 DEF Cmds, DriveOps
<1>5. Types'
  BY <1>1, <1>3, <1>4 DEF Types, Within, Like
<1>6. Control'
  BY <1>1, <1>3 DEF Control, Within, Like, DriveOps
<1>7. CallAsAsked' /\ OnDisk'
  BY <1>1, <1>3 DEF CallAsAsked, Reading, OnDisk, Within, Like
<1>8. Bus'
  BY <1>1, <1>3, <1>4, Quiet DEF Bus, OwnInterrupt, Like
<1>9. Transfer'
  <2>1. Reading' = Reading /\ Armed' = Armed /\ ~Sent
    BY <1>1, <1>3 DEF Reading, Armed, Sent, Like
  <2>2. CASE ~Sent'
    BY <1>1, <1>3, <2>1, <2>2 DEF Transfer, Within, Like
  <2>3. CASE Sent' /\ Reading
    <3>1. Armed /\ dma.left = fg.count /\ mem[nReads] = <<>> /\ fg.count \in Nat
      BY <2>1, <2>3, <1>2, SizeFacts DEF Transfer, Sent, FgState
    <3>2. Progress' = 0
      BY <1>1, <1>3, <3>1 DEF Progress, Like
    <3>3. dma.left <= fg.count
      BY <3>1
    <3>4. mem[nReads] = [k \in 1..Progress' |-> fg.lba + k - 1]
      BY <3>1, <3>2, NothingYet
    <3>5. fdc'.phase = "exec" => fdc'.next = fg.chs.sector + Progress'
      <4>1. fg.chs.sector \in Int
        BY <1>2 DEF FgState, Address
      <4> QED
        BY <1>4, <3>2, <4>1
    <3> QED
      BY <1>1, <1>3, <2>1, <2>3, <3>1, <3>3, <3>4, <3>5 DEF Transfer, Within, Like
  <2> QED
    BY <2>1, <2>2, <2>3 DEF Transfer
<1> QED
  BY <1>1, <1>5, <1>6, <1>7, <1>8, <1>9, Kept DEF Within

LEMMA StepArmDma == IInv /\ ArmDma => IInv'
<1> SUFFICES ASSUME IInv, ArmDma PROVE IInv'
  OBVIOUS
<1> USE DEF IInv
<1>1. /\ fg.pc = "arm" /\ fg' = [fg EXCEPT !.pc = "begin"]
      /\ dma' = [run |-> TRUE, buf |-> nReads, left |-> fg.count]
      /\ UNCHANGED <<track, on, irq, irqDone, fdc>> /\ Within
  BY DEF ArmDma, driver, call, faults, Within
<1>2. Like(fg', fg, "begin", fg.op, fg.cmd, fg.senses, fg.boots, fg.count)
  BY <1>1, Names, FgPc DEF Types
<1>3. Reading /\ fg.op = "read"
  BY <1>1 DEF Control, Reading
<1>4. fg.count \in Nat /\ fg.count <= Sectors
  <2>1. fg.n \in Nat /\ Room(fg.chs) \in Int /\ Room(fg.chs) <= Sectors
    BY <1>3, CallFacts, SizeFacts
  <2>2. fg.count = Smaller(fg.n, Room(fg.chs)) /\ fg.count \in 0..MaxCount
    BY <1>3 DEF CallAsAsked, Types, FgState
  <2> QED
    BY <2>1, <2>2, SmallerType, SizeFacts
<1>5. Types'
  BY <1>1, <1>2, <1>4 DEF Types, Within, Like, DmaState
<1>6. Control'
  BY <1>1, <1>2 DEF Control, Within, Like, DriveOps
<1>7. CallAsAsked' /\ OnDisk'
  BY <1>1, <1>2 DEF CallAsAsked, Reading, OnDisk, Within, Like
<1>8. Bus'
  BY <1>1, Quiet DEF Bus, OwnInterrupt
<1>9. Transfer'
  BY <1>1, <1>2, <1>3 DEF Transfer, Reading, Armed, Sent, Within, Like
<1> QED
  BY <1>1, <1>5, <1>6, <1>7, <1>8, <1>9, Kept DEF Within

(* The way into the next operation of a read: nothing has been stored yet, *)
(* and its length is cut only when the read command is next.               *)
Towards(o, h, m) ==
    /\ Like(fg', fg, h, o, o, fg'.senses, fg.boots, m)
    /\ o \in DriveOps
    /\ \/ o # "read" /\ h \in {"send", "begin"} /\ m = fg.count
       \/ o = "read" /\ h = "arm" /\ m = Clipped

LEMMA ClippedFacts ==
    ASSUME IInv, Reading, fg.op # "read"
    PROVE  Clipped \in 0..MaxCount /\ Clipped = Smaller(fg.n, Room(fg.chs))
<1>1. Clipped = Smaller(fg.n, Room(fg.chs))
  BY DEF Clipped, Room, IInv, CallAsAsked
<1>2. fg.n \in 1..MaxCount /\ Room(fg.chs) \in 1..Sectors
  BY CallFacts DEF IInv
<1> QED
  BY <1>1, <1>2, SizeFacts DEF Smaller

LEMMA SeekOrReadFacts ==
    ASSUME IInv, Reading, fg.op # "read", fg' = SeekOrRead
    PROVE  Towards("seek", "begin", fg.count) \/ Towards("read", "arm", Clipped)
<1>1. fg \in FgState /\ {"seek", "read"} \subseteq DriveOps /\ Clipped \in 0..MaxCount
  BY ClippedFacts DEF IInv, Types, DriveOps
<1>2. CASE fg.chs.cylinder # track
  <2>1. fg' = Op("seek")
    BY <1>2 DEF SeekOrRead
  <2>2. Towards("seek", "begin", fg.count)
    BY <1>1, <2>1, OpBegins DEF Towards, Like
  <2> QED
    BY <2>2
<1>3. CASE fg.chs.cylinder = track
  <2>1. fg' = [Op("read") EXCEPT !.pc = "arm", !.count = Clipped]
    BY <1>3 DEF SeekOrRead
  <2>2. Like(fg', fg, "arm", "read", "read", fg.senses, fg.boots, Clipped)
    BY <1>1, <2>1, OpArms, Zenon
  <2>3. Towards("read", "arm", Clipped)
    BY <1>1, <2>2 DEF Towards, Like
  <2> QED
    BY <2>3
<1> QED
  BY <1>2, <1>3

(* The controller rests, and no interrupt is on its way.                   *)
Settled ==
    /\ fdc' \in FdcState /\ fdc'.phase # "exec" /\ (fdc'.phase # "reset" \/ ~on')
    /\ irq' = FALSE /\ irqDone' = FALSE /\ track' \in 0..Cylinders - 1
    /\ UNCHANGED dma

LEMMA StepTowards ==
    ASSUME IInv, Reading, fg.op # "read", fg.pc # "wait",
           NEW o, NEW h, NEW m, Towards(o, h, m),
           Settled, Within
    PROVE  IInv'
<1> USE DEF IInv, Towards, Within, Settled
<1>1. Types'
  BY DEF Types, Like
<1>2. Control'
  BY DEF Control, Like, DriveOps
<1>3. CallAsAsked' /\ OnDisk'
  BY ClippedFacts DEF CallAsAsked, Reading, OnDisk, Like, DriveOps
<1>4. Bus'
  BY DEF Bus, OwnInterrupt
<1>5. Transfer'
  BY DEF Transfer, Reading, Armed, Sent, Like, DriveOps
<1> QED
  BY <1>1, <1>2, <1>3, <1>4, <1>5, Kept

LEMMA StepPrepare == IInv /\ Prepare => IInv'
<1> SUFFICES ASSUME IInv, Prepare PROVE IInv'
  OBVIOUS
<1>1. /\ fg.pc = "prepare"
      /\ fg' = IF calibrated THEN SeekOrRead ELSE Op("recalibrate")
      /\ UNCHANGED <<track, on, irq, irqDone, fdc, dma>> /\ Within
  BY DEF Prepare, driver, chips, call, faults, Within
<1>2. Reading /\ fg.op = "none"
  BY <1>1 DEF IInv, Control, Reading
<1>3. PICK o, h, m : Towards(o, h, m)
  <2>1. CASE ~calibrated
    <3>1. fg \in FgState /\ "recalibrate" \in DriveOps /\ 0 \in 0..MaxCount
      BY SizeFacts DEF IInv, Types, DriveOps
    <3>2. Towards("recalibrate", "begin", fg.count)
      BY <1>1, <2>1, <3>1, OpBegins DEF Towards, Like
    <3> QED
      BY <3>2
  <2> QED
    BY <1>1, <1>2, <2>1, SeekOrReadFacts
<1>4. Settled
  BY <1>1, Quiet DEF Settled, IInv, Types
<1> QED
  BY <1>1, <1>2, <1>3, <1>4, StepTowards

(* The next command of the same operation, short of a read's data.         *)
LEMMA StepOn ==
    ASSUME IInv, fg.pc \notin {"idle", "wait", "arm"}, NEW h, NEW c, NEW s, NEW b,
           Like(fg', fg, h, fg.op, c, s, b, fg.count),
           h \in {"send", "enable"}, ~Sent, Control', Settled, Within
    PROVE  IInv'
<1> USE DEF IInv, Within, Settled
<1>1. Types'
  BY DEF Types, Like
<1>2. CallAsAsked' /\ OnDisk'
  BY DEF CallAsAsked, Reading, OnDisk, Like
<1>3. Bus'
  BY DEF Bus, OwnInterrupt
<1>4. Transfer'
  BY DEF Transfer, Reading, Armed, Sent, Like
<1> QED
  BY <1>1, <1>2, <1>3, <1>4, Kept

(* The end of the resets.                                                  *)
LEMMA StepBooted ==
    ASSUME IInv, fg.op = "reset", fg' = NoCall, Settled, Within
    PROVE  IInv'
<1> USE DEF IInv, Within, Settled
<1>1. Types'
  BY NoCallFacts DEF Types
<1>2. Control'
  BY NoCallFacts DEF Control, DriveOps
<1>3. ~Reading /\ ~Reading'
  BY NoCallFacts DEF Reading
<1>4. CallAsAsked' /\ OnDisk'
  BY <1>3 DEF CallAsAsked, OnDisk
<1>5. Bus'
  BY DEF Bus, OwnInterrupt
<1>6. Transfer'
  BY <1>3 DEF Transfer
<1> QED
  BY <1>1, <1>2, <1>4, <1>5, <1>6, Kept

LEMMA StepNextBoot ==
    ASSUME IInv, fg.op = "reset", fg.pc \notin {"idle", "wait", "arm"}, fg' = NextBoot,
           Settled, Within
    PROVE  IInv'
<1>1. CASE fg.boots = 1
  <2>0. PICK b \in 0..2, s \in 0..4 : b = 2 /\ s = 0
    OBVIOUS
  <2>1. /\ fg \in FgState /\ "send" \in PCs /\ "configure" \in Cmds
        /\ fg' = [fg EXCEPT !.pc = "send", !.cmd = "configure", !.boots = b, !.senses = s]
    BY <1>1, <2>0, Names DEF IInv, Types, NextBoot
  <2>2. Like(fg', fg, "send", fg.op, "configure", s, b, fg.count)
    BY <2>1 DEF FgState, Like
  <2>3. ~Sent
    BY DEF Sent, Armed
  <2>4. Control'
    BY <2>2 DEF IInv, Control, Like, DriveOps, Within
  <2> QED
    BY <2>2, <2>3, <2>4, StepOn
<1>2. CASE fg.boots # 1
  <2>1. fg' = NoCall
    BY <1>2 DEF NextBoot
  <2> QED
    BY <2>1, StepBooted
<1> QED
  BY <1>1, <1>2

(* A read returns r.                                                       *)
LEMMA StepReturn ==
    ASSUME IInv, Reading, fg.pc # "wait", NEW r \in Int,
           fg' = NoCall, returned' = Append(returned, [lba |-> fg.lba, n |-> fg.n, ret |-> r]),
           UNCHANGED <<heads, mem, nReads, flawed>>,
           fdc' \in FdcState, fdc'.phase # "exec", fdc'.phase # "reset" \/ ~on',
           irq' = FALSE, irqDone' = FALSE, track' \in 0..Cylinders - 1,
           dma' \in DmaState, dma'.buf = dma.buf, dma'.left = dma.left,
           r >= 0 /\ nReads \notin flawed =>
              /\ r = Smaller(fg.n, Sectors - (fg.lba % Sectors))
              /\ mem[nReads] = [k \in 1..r |-> fg.lba + k - 1]
    PROVE  IInv'
<1> USE DEF IInv
<1>1. /\ returned \in Seq(Answer) /\ Len(returned) = nReads - 1 /\ nReads \in 1..Len(mem)
      /\ [lba |-> fg.lba, n |-> fg.n, ret |-> r] \in Answer
  BY CallFacts DEF Types, CallAsAsked, Answer
<1>2. /\ returned' \in Seq(Answer) /\ Len(returned') = nReads
      /\ returned'[nReads] = [lba |-> fg.lba, n |-> fg.n, ret |-> r]
      /\ \A i \in 1..Len(returned) : returned'[i] = returned[i]
  BY <1>1
<1>3. Types'
  BY <1>2, NoCallFacts DEF Types
<1>4. Control'
  BY NoCallFacts DEF Control, DriveOps
<1>5. ~Reading'
  BY NoCallFacts DEF Reading
<1>6. CallAsAsked' /\ OnDisk'
  BY <1>2, <1>5 DEF CallAsAsked, OnDisk
<1>7. Bus'
  BY DEF Bus, OwnInterrupt
<1>8. Transfer'
  BY <1>5 DEF Transfer
<1>9. ReadsRight'
  <2> SUFFICES ASSUME NEW i \in 1..Len(returned'), returned'[i].ret >= 0, i \notin flawed
               PROVE  /\ returned'[i].ret = Smaller(returned'[i].n,
                                                    Sectors - (returned'[i].lba % Sectors))
                      /\ mem[i] = [k \in 1..returned'[i].ret |-> returned'[i].lba + k - 1]
    BY DEF ReadsRight
  <2>1. CASE i = nReads
    <3>1. returned'[i].ret = r /\ returned'[i].n = fg.n /\ returned'[i].lba = fg.lba
      BY <1>2, <2>1
    <3> QED
      BY <2>1, <3>1, Zenon
  <2>2. CASE i # nReads
    <3>1. i \in 1..Len(returned) /\ returned'[i] = returned[i]
      BY <1>1, <1>2, <2>2
    <3> QED
      BY <3>1 DEF ReadsRight
  <2> QED
    BY <2>1, <2>2
<1> QED
  BY <1>3, <1>4, <1>6, <1>7, <1>8, <1>9

LEMMA StepFail ==
    ASSUME IInv, Fail, fg.pc \in {"send", "respond"},
           UNCHANGED <<irq, irqDone, track, dma, heads, mem, nReads, flawed>>
    PROVE  IInv'
<1>1. /\ fdc' \in FdcState /\ fdc'.phase = "reset" /\ on' = FALSE
      /\ irq' = FALSE /\ irqDone' = FALSE /\ track' \in 0..Cylinders - 1
  BY ResetFacts, Quiet DEF Fail, IInv, Types
<1>2. Settled
  BY <1>1 DEF Settled
<1>3. CASE fg.op = "reset"
  <2>1. Within /\ ~Sent
    BY <1>3 DEF Fail, Within, Sent, Armed
  <2>2. CASE fg.cmd = "configure"
    <3>1. fg' = [fg EXCEPT !.pc = "enable"]
      BY <1>3, <2>2 DEF Fail
    <3>2. Like(fg', fg, "enable", fg.op, fg.cmd, fg.senses, fg.boots, fg.count)
      BY <3>1, Names, FgPc DEF IInv, Types
    <3>3. Control'
      BY <1>3, <2>1, <2>2, <3>2 DEF IInv, Control, Like, DriveOps, Within
    <3> QED
      BY <1>2, <2>1, <3>2, <3>3, StepOn
  <2>3. CASE fg.cmd # "configure"
    <3>1. fg' = NextBoot
      BY <1>3, <2>3 DEF Fail
    <3> QED
      BY <1>2, <1>3, <2>1, <3>1, StepNextBoot
  <2> QED
    BY <2>2, <2>3
<1>4. CASE fg.op # "reset"
  <2>1. /\ fg' = NoCall
        /\ returned' = Append(returned, [lba |-> fg.lba, n |-> fg.n, ret |-> -1])
    BY <1>4 DEF Fail, Return
  <2>2. Reading /\ -1 \in Int /\ ~(-1 >= 0)
    BY <1>4 DEF Reading
  <2>3. dma \in DmaState
    BY DEF IInv, Types
  <2> QED
    BY <1>1, <2>1, <2>2, <2>3, StepReturn
<1> QED
  BY <1>3, <1>4

LEMMA StepRefuse == IInv /\ Refuse => IInv'
  BY StepFail DEF Refuse, driver

LEMMA StepDmaWait == IInv /\ DmaWait => IInv'
<1> SUFFICES ASSUME IInv, DmaWait PROVE IInv'
  OBVIOUS
<1> USE DEF IInv
<1>1. /\ fg.pc = "dmaWait" /\ dma.left = 0 /\ dma' = [dma EXCEPT !.run = FALSE]
      /\ fg' = NoCall
      /\ returned' = Append(returned, [lba |-> fg.lba, n |-> fg.n, ret |-> fg.count])
      /\ UNCHANGED <<irqDone, track, on, irq, fdc, heads, mem, nReads, flawed>>
  BY DEF DmaWait, Return, driver, faults
<1>2. fg.cmd = "read" /\ fg.op = "read" /\ Reading /\ Sent
  BY <1>1 DEF Control, DriveOps, Reading, Sent, Armed
<1>3. /\ fdc' \in FdcState /\ fdc'.phase # "exec" /\ (fdc'.phase # "reset" \/ ~on')
      /\ irq' = FALSE /\ irqDone' = FALSE /\ track' \in 0..Cylinders - 1
  BY <1>1, Quiet DEF Types
<1>4. dma' \in DmaState /\ dma'.buf = dma.buf /\ dma'.left = dma.left
  BY <1>1 DEF Types, DmaState
<1>5. /\ fg.count \in Int /\ fg.lba \in Nat /\ fg.n \in Nat
      /\ fg.chs.sector = (fg.lba % Sectors) + 1 /\ fg.lba % Sectors \in Int /\ Sectors \in Int
  BY <1>2, CallFacts, SizeFacts DEF Types, FgState
<1>6. fg.count = Smaller(fg.n, Sectors - (fg.lba % Sectors))
  <2>1. Room(fg.chs) = Sectors - (fg.lba % Sectors)
    BY <1>5 DEF Room
  <2> QED
    BY <1>2, <2>1 DEF CallAsAsked
<1>7. nReads \notin flawed => mem[nReads] = [k \in 1..fg.count |-> fg.lba + k - 1]
  <2>1. Progress = fg.count
    BY <1>1, <1>5 DEF Progress
  <2> QED
    BY <1>2, <2>1 DEF Transfer
<1> QED
  BY <1>1, <1>2, <1>3, <1>4, <1>5, <1>6, <1>7, StepReturn

LEMMA StepReadSectors == IInv /\ ReadSectors => IInv'
<1> SUFFICES ASSUME IInv, ReadSectors PROVE IInv'
  OBVIOUS
<1> USE DEF IInv
<1>1. /\ fg.pc = "idle" /\ nReads' = nReads + 1 /\ mem' = Append(mem, <<>>)
      /\ UNCHANGED <<irqDone, track, on, irq, fdc, heads, dma, flawed>>
  BY DEF ReadSectors, driver, faults
<1>2. PICK lba \in 0..MaxLba, n \in 1..MaxCount :
        LET chs == Hack(LbaToChs(lba, Geom), Geom)
        IN IF chs.cylinder > Cylinders - 1 \/ chs.sector > Sectors
             THEN Return(lba, n, -1)
             ELSE /\ fg' = [NoCall EXCEPT !.pc = "prepare", !.lba = lba, !.n = n,
                                          !.chs = chs, !.count = n]
                  /\ UNCHANGED returned
  BY DEF ReadSectors
<1> DEFINE chs == Hack(LbaToChs(lba, Geom), Geom)
<1>3. chs \in Address /\ chs.cylinder \in 0..Cylinders - 1 /\ chs.sector \in 1..Sectors
  BY Place
<1>4. /\ fg' = [NoCall EXCEPT !.pc = "prepare", !.lba = lba, !.n = n, !.chs = chs, !.count = n]
      /\ returned' = returned
  <2>1. ~(chs.cylinder > Cylinders - 1 \/ chs.sector > Sectors)
    BY <1>3, SizeFacts
  <2> QED
    BY <1>2, <2>1
<1>5. /\ fg' \in FgState /\ fg'.pc = "prepare" /\ fg'.op = "none" /\ fg'.cmd = "none"
      /\ fg'.lba = lba /\ fg'.n = n /\ fg'.chs = chs /\ fg'.count = n
  <2>1. lba \in Int /\ n \in Nat /\ n \in 0..MaxCount /\ "prepare" \in PCs
    BY SizeFacts, GeomFacts, Names
  <2> HIDE DEF chs
  <2> QED
    BY <1>3, <1>4, <2>1, NoCallFacts DEF FgState
<1> HIDE DEF chs
<1>6. mem \in Seq(Seq(Int)) /\ Len(mem) = nReads /\ nReads \in Nat /\ Len(returned) = nReads
      /\ fg.op = "none"
  BY <1>1 DEF Types, CallAsAsked, Reading, Control
<1>7. /\ mem' \in Seq(Seq(Int)) /\ Len(mem') = nReads + 1 /\ mem'[nReads + 1] = <<>>
      /\ \A i \in 1..Len(returned) : mem'[i] = mem[i]
  BY <1>1, <1>6
<1>8. Types'
  <2>1. dma.buf <= nReads + 1 /\ flawed \subseteq 1..nReads + 1
    BY <1>6 DEF Types, DmaState
  <2> QED
    BY <1>1, <1>4, <1>5, <1>6, <1>7, <2>1 DEF Types
<1>9. Control'
  BY <1>5 DEF Control, DriveOps
<1>10. CallAsAsked' /\ OnDisk'
  BY <1>1, <1>4, <1>5, <1>6 DEF CallAsAsked, Reading, OnDisk, chs
<1>11. Bus'
  BY <1>1, Quiet DEF Bus, OwnInterrupt
<1>12. Transfer'
  BY <1>1, <1>5, <1>7 DEF Transfer, Armed, Sent
<1>13. ReadsRight'
  BY <1>1, <1>4, <1>7, KeptThere
<1> QED
  BY <1>8, <1>9, <1>10, <1>11, <1>12, <1>13

LEMMA StepRespond == IInv /\ Respond => IInv'
<1> SUFFICES ASSUME IInv, Respond PROVE IInv'
  OBVIOUS
<1>1. /\ fg.pc = "respond" /\ fg' = Done
      /\ fdc' = [fdc EXCEPT !.phase = "ready", !.left = 0]
      /\ track' = CASE Sensed("recalibrate") -> 0
                    [] Sensed("seek") -> fg.chs.cylinder
                    [] OTHER -> track
      /\ UNCHANGED <<irqDone, on, irq, dma>> /\ Within
  BY DEF Respond, call, faults, Within
<1>2. fg \in FgState /\ fg.cmd \in Cmds \ {"none"} /\ fg.senses \in 0..4
      /\ (fg.op = "reset" \/ fg.op \in DriveOps)
  BY <1>1 DEF IInv, Types, FgState, Control, Ops
<1>3. fg.op # "reset" => Reading
  BY <1>1 DEF Reading
<1>4. Settled
  <2>1. fdc' \in FdcState /\ fdc'.phase = "ready"
    <3>1. fdc \in FdcState /\ "ready" \in Phases /\ 0 \in Nat
      BY Names DEF IInv, Types
    <3>2. fdc' \in FdcState
      BY <1>1, <3>1, FdcLeft, Zenon
    <3> QED
      BY <1>1, <3>1, <3>2 DEF FdcState
  <2>2. track' \in 0..Cylinders - 1
    <3>1. CASE Sensed("recalibrate")
      BY <1>1, <3>1, SizeFacts DEF Sensed
    <3>2. CASE Sensed("seek")
      <4>1. fg.chs.cylinder \in 0..Cylinders - 1
        BY <1>3, <3>2, CallFacts DEF IInv, Sensed
      <4> QED
        BY <1>1, <3>2, <4>1 DEF Sensed
    <3>3. CASE ~Sensed("recalibrate") /\ ~Sensed("seek")
      BY <1>1, <3>3 DEF IInv, Types
    <3> QED
      BY <3>1, <3>2, <3>3
  <2> QED
    BY <1>1, <2>1, <2>2, Quiet DEF Settled
<1>5. CASE fg.cmd = "configure"
  <2>1. fg' = [fg EXCEPT !.pc = "enable"]
    BY <1>1, <1>5 DEF Done
  <2>2. Like(fg', fg, "enable", fg.op, fg.cmd, fg.senses, fg.boots, fg.count)
    BY <1>2, <2>1, Names, FgPc
  <2>3. Control' /\ ~Sent
    BY <1>1, <1>5, <2>2 DEF IInv, Control, Like, DriveOps, Within, Sent
  <2> QED
    BY <1>1, <1>4, <2>2, <2>3, StepOn
<1>6. CASE fg.cmd = "senseIrq" /\ fg.senses > 1
  <2>1. fg' = [fg EXCEPT !.pc = "send", !.senses = fg.senses - 1]
    BY <1>1, <1>6 DEF Done
  <2>2. fg.senses - 1 \in 0..4 /\ fg.senses - 1 # 0
    BY <1>2, <1>6
  <2>3. Like(fg', fg, "send", fg.op, fg.cmd, fg.senses - 1, fg.boots, fg.count)
    BY <1>2, <2>1, <2>2, Names, FgSenses
  <2>4. Control' /\ ~Sent
    BY <1>1, <1>6, <2>2, <2>3 DEF IInv, Control, Like, DriveOps, Within, Sent
  <2> QED
    BY <1>1, <1>4, <2>3, <2>4, StepOn
<1>7. CASE fg.cmd = "senseIrq" /\ fg.senses = 1 /\ fg.op = "reset"
  <2>1. fg' = NextBoot
    BY <1>1, <1>2, <1>7 DEF Done
  <2> QED
    BY <1>1, <1>4, <1>7, <2>1, StepNextBoot
<1>8. CASE fg.cmd = "senseIrq" /\ fg.senses = 1 /\ fg.op \in DriveOps
  <2>1. fg' = [fg EXCEPT !.pc = "send", !.cmd = fg.op, !.senses = 0]
    BY <1>1, <1>2, <1>8 DEF Done, DriveOps
  <2>2. fg.op \in Cmds /\ 0 \in 0..4 /\ "send" \in PCs
    BY <1>8, Names
  <2>3. Like(fg', fg, "send", fg.op, fg.op, 0, fg.boots, fg.count)
    BY <1>2, <2>1, <2>2, FgCmdSenses, Zenon
  <2>4. Control' /\ ~Sent
    BY <1>1, <1>8, <2>3 DEF IInv, Control, Like, DriveOps, Within, Sent
  <2> QED
    BY <1>1, <1>4, <2>3, <2>4, StepOn
<1>9. CASE fg.cmd \in {"recalibrate", "seek"}
  <2>1. fg' = [fg EXCEPT !.pc = "send", !.cmd = "senseIrq"]
    BY <1>1, <1>9 DEF Done
  <2>2. Like(fg', fg, "send", fg.op, "senseIrq", fg.senses, fg.boots, fg.count)
    BY <1>2, <2>1, Names, FgCmd
  <2>3. Control' /\ ~Sent
    BY <1>1, <1>9, <2>2 DEF IInv, Control, Like, DriveOps, Within, Sent
  <2> QED
    BY <1>1, <1>4, <2>2, <2>3, StepOn
<1>10. CASE \/ fg.cmd = "senseIrq" /\ fg.senses = 0
            \/ fg.cmd \in {"readId", "specify"}
  <2>1. Reading /\ fg.op # "read" /\ fg.pc # "wait"
    BY <1>1, <1>3, <1>10 DEF IInv, Control, DriveOps
  <2>2. /\ 0 \in 0..MaxCount /\ Clipped \in 0..MaxCount
        /\ {"readId", "specify", "read"} \subseteq DriveOps
    BY <2>1, SizeFacts, ClippedFacts DEF DriveOps
  <2>3. PICK o, h, m : Towards(o, h, m)
    <3>1. CASE fg.cmd = "senseIrq" /\ fg.senses = 0 /\ fg.op = "recalibrate"
      <4>1. fg' = Op("readId")
        BY <1>1, <3>1 DEF Done
      <4>2. Towards("readId", "begin", fg.count)
        BY <1>2, <2>2, <4>1, OpBegins DEF Towards, Like
      <4> QED
        BY <4>2
    <3>2. CASE fg.cmd = "senseIrq" /\ fg.senses = 0 /\ fg.op = "seek"
      <4>1. fg' = [Op("read") EXCEPT !.pc = "arm", !.count = Clipped]
        BY <1>1, <3>2 DEF Done
      <4>2. Like(fg', fg, "arm", "read", "read", fg.senses, fg.boots, Clipped)
        BY <1>2, <2>2, <4>1, OpArms, Zenon
      <4>3. Towards("read", "arm", Clipped)
        BY <2>2, <4>2 DEF Towards, Like
      <4> QED
        BY <4>3
    <3>3. CASE fg.cmd = "readId"
      <4>1. fg' = Op("specify")
        BY <1>1, <3>3 DEF Done
      <4>2. Towards("specify", "begin", fg.count)
        BY <1>2, <2>2, <4>1, OpBegins DEF Towards, Like
      <4> QED
        BY <4>2
    <3>4. CASE fg.cmd = "specify"
      <4>1. fg' = SeekOrRead
        BY <1>1, <3>4 DEF Done
      <4> QED
        BY <2>1, <4>1, SeekOrReadFacts
    <3> QED
      BY <1>10, <3>1, <3>2, <3>3, <3>4 DEF IInv, Control
  <2> QED
    BY <1>1, <1>4, <2>1, <2>3, StepTowards
<1>11. CASE fg.cmd = "read"
  <2>1. fg' = [fg EXCEPT !.pc = "dmaWait"]
    BY <1>1, <1>11 DEF Done
  <2>2. Like(fg', fg, "dmaWait", fg.op, fg.cmd, fg.senses, fg.boots, fg.count)
    BY <1>2, <2>1, Names, FgPc
  <2> USE DEF IInv, Settled, Within
  <2>3. Types'
    BY <1>1, <1>4, <2>2 DEF Types, Like
  <2>4. Control'
    BY <1>1, <1>11, <2>2 DEF Control, Like, DriveOps
  <2>5. CallAsAsked' /\ OnDisk'
    BY <1>1, <2>2 DEF CallAsAsked, Reading, OnDisk, Like
  <2>6. Bus'
    BY <1>4 DEF Bus, OwnInterrupt
  <2>7. Transfer'
    BY <1>1, <1>4, <1>11, <2>2 DEF Transfer, Reading, Armed, Sent, Progress, Like
  <2> QED
    BY <1>1, <2>3, <2>4, <2>5, <2>6, <2>7, Kept
<1> QED
  BY <1>2, <1>5, <1>6, <1>7, <1>8, <1>9, <1>10, <1>11 DEF Cmds, DriveOps

LEMMA Stutter == IInv /\ UNCHANGED vars => IInv'
<1> SUFFICES ASSUME IInv, UNCHANGED vars PROVE IInv'
  OBVIOUS
<1> USE DEF IInv, vars, driver, chips, call, faults
<1>1. Types' /\ Control' /\ CallAsAsked' /\ OnDisk'
  BY DEF Types, Control, CallAsAsked, Reading, OnDisk
<1>2. Bus' /\ ReadsRight'
  BY Kept DEF Bus, OwnInterrupt
<1>3. Transfer'
  BY DEF Transfer, Reading, Armed, Sent, Progress
<1> QED
  BY <1>1, <1>2, <1>3

LEMMA NextIInv == IInv /\ [Next]_vars => IInv'
  BY StepFdcUp, StepFdcMoves, StepFdcIdRead, StepFdcReadsSector, StepFdcReadEnds, StepFdcFails,
     StepInterrupt, StepReadSectors, StepPrepare, StepArmDma, StepBegin, StepEnable, StepSend,
     StepRefuse, StepWaitIrq, StepRespond, StepDmaWait, Stutter
     DEF Next, Foreground, Controller

-----------------------------------------------------------------------------
(* The theorems.                                                           *)

LEMMA Inductive == ASSUME OnDisk PROVE Spec => []IInv
  BY InitIInv, NextIInv, PTL DEF Spec

(* The shape of the state: the channel never has more to store than a      *)
(* track, and no call returns without having been made.                    *)
THEOREM TypesHold == ASSUME OnDisk PROVE Spec => []TypeOK
<1>1. IInv => TypeOK
  BY SizeFacts DEF IInv, TypeOK, Types, CallAsAsked, FdcState, DmaState, FgState, Phases
<1> QED
  BY <1>1, Inductive, PTL

(* No interrupt that one command causes can end another command's wait,    *)
(* although fdc_wait_irq's flag is set for ever and never cleared before a *)
(* command.                                                                *)
THEOREM InterruptsAreOwn == ASSUME OnDisk PROVE Spec => []OwnInterrupt
<1>1. IInv => OwnInterrupt
  BY DEF IInv, Bus
<1> QED
  BY <1>1, Inductive, PTL

(* What floppy_drive0_read_sectors_lba says it has read is what was asked  *)
(* for, whatever the diskette's size, the addresses on it, the lengths,    *)
(* the calls before and the commands that failed among them.               *)
THEOREM ReadsAreRight == ASSUME OnDisk PROVE Spec => []ReadsRight
<1>1. IInv => ReadsRight
  BY DEF IInv
<1> QED
  BY <1>1, Inductive, PTL

(* A step stores nothing in a buffer whose call has returned.              *)
LEMMA StoresInCurrent ==
    IInv /\ [Next]_vars => \A i \in 1..Len(returned) : mem'[i] = mem[i]
<1> SUFFICES ASSUME IInv, [Next]_vars PROVE \A i \in 1..Len(returned) : mem'[i] = mem[i]
  OBVIOUS
<1>1. CASE FdcReadsSector
  BY <1>1, Stores DEF FdcReadsSector
<1>2. CASE FdcFails
  BY <1>2, Stores DEF FdcFails
<1>3. CASE ReadSectors
  <2>1. mem' = Append(mem, <<>>) /\ Len(returned) <= Len(mem) /\ mem \in Seq(Seq(Int))
    BY <1>3 DEF ReadSectors, IInv, Types, CallAsAsked, Reading
  <2>2. Len(returned) \in Nat
    BY DEF IInv, Types
  <2> QED
    BY <2>1, <2>2
<1>4. CASE mem' = mem
  BY <1>4
<1> QED
  BY <1>1, <1>2, <1>3, <1>4
     DEF Next, Foreground, Controller, vars, driver, chips, FdcUp, FdcMoves, FdcIdRead,
         FdcReadEnds, Interrupt, Prepare, ArmDma, Begin, Enable, Send, Refuse, WaitIrq,
         Respond, DmaWait

(* The channel that a failed read leaves running never stores into that    *)
(* read's buffer: the driver gives it the next read's buffer before it     *)
(* asks the controller for data again.                                     *)
THEOREM StaysAway == ASSUME OnDisk PROVE Spec => NoStrayDma
<1>1. IInv /\ [Next]_vars => [\A i \in 1..Len(returned) : mem'[i] = mem[i]]_vars
  BY StoresInCurrent
<1> QED
  BY <1>1, Inductive, PTL DEF Spec, NoStrayDma

-----------------------------------------------------------------------------
(* What the driver's notes of the drive are worth: a second invariant,     *)
(* beside IInv.                                                            *)

(* The heads have moved for the operation, and the driver has yet to note  *)
(* it.                                                                     *)
Moved ==
    \/ fg.cmd = fg.op /\ (fg.pc = "respond" \/ (fg.pc = "wait" /\ fdc.phase # "exec"))
    \/ fg.cmd = "senseIrq" /\ fg.senses = 0

Stages ==
    /\ calibrated \in BOOLEAN /\ shaken \in BOOLEAN
    /\ fg.cmd \in DriveOps \/ fg.pc = "prepare" => fg.senses = 0
    /\ fg.op \in {"reset", "recalibrate"} => ~calibrated
    /\ fg.op \in {"readId", "specify", "seek", "read"} => calibrated
    /\ fg.op = "recalibrate" /\ fg.pc \in {"send", "wait", "respond"} => on
    /\ fg.op = "recalibrate" /\ Moved => heads = 0 /\ fdc.pcn = 0

(* No command has failed since the drive was calibrated.                   *)
Noted ==
    calibrated /\ ~shaken =>
        /\ on /\ fdc.phase # "reset" /\ fg.pc # "enable"
        /\ fdc.pcn = heads
        /\ \/ specified \/ fg.op = "readId"
           \/ fg.op = "specify" /\ fg.cmd = "specify" /\ fg.pc \in {"begin", "send"}
        /\ fg.op = "seek" /\ Moved => heads = fg.chs.cylinder
        /\ ~(fg.op = "seek" /\ Moved) => heads = track
        /\ fg.op = "read" => heads = fg.chs.cylinder

Drive == Stages /\ Noted

LEMMA DriveInit == Init => Drive
<1> SUFFICES ASSUME Init PROVE Drive
  OBVIOUS
<1>1. /\ fg.op = "reset" /\ fg.pc = "send" /\ fg.cmd = "configure" /\ fg.senses = 0
      /\ calibrated = FALSE /\ shaken = FALSE
  BY DEF Init, NoCall
<1> QED
  BY <1>1 DEF Drive, Stages, Noted, DriveOps

(* The controller alone moves the heads.                                   *)
LEMMA DriveChips == ASSUME IInv, Drive, Controller \/ Interrupt PROVE Drive'
<1>1. UNCHANGED <<fg, on, calibrated, track, shaken, specified>>
  BY DEF Controller, Interrupt, FdcUp, FdcMoves, FdcIdRead, FdcReadsSector, FdcReadEnds, FdcFails,
         driver, faults
<1>2. fdc \in FdcState /\ fg \in FgState /\ heads \in 0..Cylinders - 1
  BY DEF IInv, Types
<1>3. CASE FdcUp
  <2>1. fdc.phase = "reset" /\ fdc'.phase = "ready" /\ fdc'.pcn = 0 /\ heads' = heads
    BY <1>2, <1>3 DEF FdcUp, FdcState
  <2>2. Moved' <=> Moved
    BY <1>1, <2>1 DEF Moved
  <2> QED
    BY <1>1, <2>1, <2>2 DEF Drive, Stages, Noted
<1>4. CASE FdcMoves /\ Executing("recalibrate")
  <2>1. fg.op = "recalibrate"
    BY <1>4, Waits DEF Executing, IInv, Control, DriveOps
  <2>2. heads' = 0 /\ fdc'.pcn = 0
    BY <1>2, <1>4 DEF FdcMoves, Executing, FdcState
  <2> QED
    BY <1>1, <2>1, <2>2 DEF Drive, Stages, Noted
<1>5. CASE FdcMoves /\ Executing("seek")
  <2>1. fg.op = "seek" /\ fg.cmd = "seek" /\ fg.pc = "wait" /\ fdc.phase = "exec"
    BY <1>5, Waits DEF Executing, IInv, Control, DriveOps
  <2>2. /\ heads' = Reachable(heads + Steps) /\ fdc'.pcn = fg.chs.cylinder /\ fdc'.phase = "ready"
    BY <1>2, <1>5 DEF FdcMoves, Executing, FdcState
  <2>3. fg.chs.cylinder \in 0..Cylinders - 1
    BY <2>1, CallFacts DEF IInv, Reading
  <2>4. fdc.pcn = heads => heads' = fg.chs.cylinder
    BY <1>2, <2>2, <2>3, SizeFacts DEF Steps, Reachable, Smaller
  <2>5. Moved'
    BY <1>1, <2>1, <2>2 DEF Moved
  <2> QED
    BY <1>1, <2>1, <2>2, <2>4, <2>5 DEF Drive, Stages, Noted
<1>6. CASE FdcIdRead \/ FdcReadsSector \/ FdcReadEnds \/ FdcFails \/ Interrupt
  <2>1. heads' = heads /\ fdc'.pcn = fdc.pcn
        /\ (fdc'.phase = fdc.phase \/ (fdc.phase = "exec" /\ fdc'.phase = "result"
                                       /\ fdc.cmd \in {"readId", "read"}))
    BY <1>2, <1>6
    DEF FdcIdRead, FdcReadsSector, FdcReadEnds, FdcFails, Interrupt, Executing, Result,
        FdcState
  <2>2. CASE fdc'.phase = fdc.phase
    <3>1. Moved' <=> Moved
      BY <1>1, <2>2 DEF Moved
    <3> QED
      BY <1>1, <2>1, <2>2, <3>1 DEF Drive, Stages, Noted
  <2>3. CASE fdc.phase = "exec" /\ fdc'.phase = "result" /\ fdc.cmd \in {"readId", "read"}
    <3>1. fg.op \in {"readId", "read"}
      BY <2>3, Waits DEF IInv, Control, DriveOps
    <3> QED
      BY <1>1, <2>1, <2>3, <3>1 DEF Drive, Stages, Noted
  <2> QED
    BY <2>1, <2>2, <2>3
<1> QED
  BY <1>3, <1>4, <1>5, <1>6 DEF Controller, FdcMoves

(* A command that fails leaves the notes worthless, once there are any.    *)
LEMMA DriveRefuse == ASSUME IInv, Drive, Refuse PROVE Drive'
<1>1. /\ UNCHANGED <<calibrated, track, heads>> /\ shaken' = (shaken \/ calibrated)
      /\ fg.pc \in {"send", "respond"}
  BY DEF Refuse, Fail, driver
<1>2. Noted'
  BY <1>1 DEF Drive, Stages, Noted
<1>3. CASE fg.op = "reset"
  <2>1. PICK h \in PCs, c \in Cmds : /\ fg'.op \in {"reset", "none"} /\ fg'.pc = h /\ h # "prepare"
                                     /\ fg'.cmd = c /\ (c \in DriveOps => fg'.senses = 0)
    <3>1. CASE fg' = [fg EXCEPT !.pc = "enable"]
      <4>1. Like(fg', fg, "enable", fg.op, fg.cmd, fg.senses, fg.boots, fg.count)
        BY <3>1, Names, FgPc DEF IInv, Types
      <4> QED
        BY <1>3, <4>1, Names DEF Like, IInv, Types, FgState, Drive, Stages
    <3>2. CASE fg' = NoCall
      BY <3>2, Names DEF NoCall
    <3>3. CASE fg' = [fg EXCEPT !.pc = "send", !.cmd = "configure", !.boots = 2, !.senses = 0]
      <4>1. fg'.op = fg.op /\ fg'.pc = "send" /\ fg'.cmd = "configure" /\ fg'.senses = 0
        BY <3>3 DEF IInv, Types, FgState
      <4> QED
        BY <1>3, <4>1, Names
    <3> QED
      BY <1>3, <3>1, <3>2, <3>3 DEF Refuse, Fail, NextBoot
  <2>2. ~calibrated
    BY <1>3 DEF Drive, Stages
  <2> QED
    BY <1>1, <1>2, <2>1, <2>2 DEF Drive, Stages
<1>4. CASE fg.op # "reset"
  <2>1. fg'.op = "none" /\ fg'.pc = "idle" /\ fg'.cmd = "none" /\ fg'.senses = 0
    BY <1>4 DEF Refuse, Fail, Return, NoCall
  <2> QED
    BY <1>1, <1>2, <2>1 DEF Drive, Stages, DriveOps
<1> QED
  BY <1>3, <1>4

(* The driver's steps, seen from the drive.                                *)
Unmoved == UNCHANGED <<heads, shaken>> /\ fdc'.pcn = fdc.pcn

(* A read begins or ends.                                                  *)
LEMMA DriveCall == ASSUME IInv, Drive, ReadSectors \/ DmaWait PROVE Drive'
<1>1. /\ UNCHANGED <<on, fdc, specified, calibrated, track>> /\ Unmoved
      /\ fg.pc \in {"idle", "dmaWait"}
  BY DEF ReadSectors, DmaWait, driver, faults, Unmoved
<1>2. fg.op \in {"none", "read"}
  BY <1>1 DEF IInv, Control, DriveOps
<1>3. fg'.op = "none" /\ fg'.cmd = "none" /\ fg'.senses = 0 /\ fg'.pc \in {"idle", "prepare"}
  <2>1. fg' = NoCall \/ \E lba, n, chs :
          fg' = [NoCall EXCEPT !.pc = "prepare", !.lba = lba, !.n = n, !.chs = chs, !.count = n]
    BY Zenon DEF ReadSectors, DmaWait, Return
  <2>2. CASE fg' = NoCall
    BY <2>2 DEF NoCall
  <2>3. CASE fg' # NoCall
    <3>1. PICK lba, n, chs :
            fg' = [NoCall EXCEPT !.pc = "prepare", !.lba = lba, !.n = n, !.chs = chs, !.count = n]
      BY <2>1, <2>3
    <3> QED
      BY <3>1 DEF NoCall
  <2> QED
    BY <2>2, <2>3
<1> QED
  BY <1>1, <1>2, <1>3 DEF Unmoved, Drive, Stages, Noted, DriveOps

(* The next operation of a read.                                           *)
LEMMA DriveSeekOrRead ==
    ASSUME IInv, Reading, fg.op # "read", fg' = SeekOrRead, fg.senses = 0
    PROVE  /\ fg'.senses = 0 /\ fg'.chs = fg.chs /\ fg'.pc \in {"begin", "arm"}
           /\ \/ fg'.op = "seek" /\ fg'.cmd = "seek"
              \/ fg'.op = "read" /\ fg'.cmd = "read" /\ fg.chs.cylinder = track
<1>1. fg \in FgState /\ {"seek", "read"} \subseteq DriveOps /\ Clipped \in 0..MaxCount
  BY ClippedFacts DEF IInv, Types, DriveOps
<1>2. CASE fg.chs.cylinder # track
  BY <1>1, <1>2, OpBegins DEF SeekOrRead, Like
<1>3. CASE fg.chs.cylinder = track
  <2>1. Like(fg', fg, "arm", "read", "read", fg.senses, fg.boots, Clipped)
    BY <1>1, <1>3, OpArms DEF SeekOrRead
  <2> QED
    BY <1>3, <2>1 DEF Like
<1> QED
  BY <1>2, <1>3

LEMMA DrivePrepare == ASSUME IInv, Drive, Prepare PROVE Drive'
<1>1. /\ UNCHANGED <<on, fdc, specified, calibrated, track>> /\ Unmoved /\ fg.pc = "prepare"
      /\ fg' = IF calibrated THEN SeekOrRead ELSE Op("recalibrate")
  BY DEF Prepare, driver, chips, faults, Unmoved
<1>2. fg.op = "none" /\ Reading /\ fg.senses = 0 /\ fg \in FgState
  BY <1>1 DEF IInv, Control, Reading, Drive, Stages, Types
<1>3. CASE calibrated
  <2>1. /\ fg'.senses = 0 /\ fg'.chs = fg.chs /\ fg'.pc \in {"begin", "arm"}
        /\ \/ fg'.op = "seek" /\ fg'.cmd = "seek"
           \/ fg'.op = "read" /\ fg'.cmd = "read" /\ fg.chs.cylinder = track
    BY <1>1, <1>2, <1>3, DriveSeekOrRead
  <2>2. ~Moved'
    BY <2>1 DEF Moved
  <2> QED
    BY <1>1, <1>2, <1>3, <2>1, <2>2 DEF Unmoved, Drive, Stages, Noted
<1>4. CASE ~calibrated
  <2>1. Like(fg', fg, "begin", "recalibrate", "recalibrate", fg.senses, fg.boots, fg.count)
    BY <1>1, <1>2, <1>4, OpBegins DEF DriveOps
  <2>2. ~Moved'
    BY <2>1 DEF Moved, Like
  <2> QED
    BY <1>1, <1>2, <1>4, <2>1, <2>2 DEF Like, Unmoved, Drive, Stages, Noted
<1> QED
  BY <1>3, <1>4

LEMMA DriveBegin == ASSUME IInv, Drive, ArmDma \/ Begin \/ Enable PROVE Drive'
<1>1. fg \in FgState /\ fdc \in FdcState
  BY DEF IInv, Types
<1>2. CASE ArmDma \/ Begin
  <2>1. /\ UNCHANGED <<on, fdc, specified, calibrated, track>> /\ Unmoved
        /\ fg.pc \in {"arm", "begin"}
    BY <1>2 DEF ArmDma, Begin, driver, chips, faults, Unmoved
  <2>2. PICK h \in {"begin", "send", "enable"} :
           /\ fg' = [fg EXCEPT !.pc = h]
           /\ h = "begin" => fg.op = "read"
           /\ h = "send" => on \/ fg.op = "specify"
           /\ h = "enable" => ~on
    BY <1>2 DEF ArmDma, Begin, IInv, Control
  <2>3. Like(fg', fg, h, fg.op, fg.cmd, fg.senses, fg.boots, fg.count)
    BY <1>1, <2>2, Names, FgPc
  <2>4. fg.cmd = fg.op /\ fg.op \in DriveOps
    BY <2>1 DEF IInv, Control
  <2>5. ~Moved /\ ~Moved'
    BY <2>1, <2>2, <2>3, <2>4 DEF Moved, Like, DriveOps
  <2> QED
    BY <2>1, <2>2, <2>3, <2>4, <2>5 DEF Like, Unmoved, Drive, Stages, Noted
<1>3. CASE Enable
  <2>1. /\ UNCHANGED <<specified, calibrated, track>> /\ Unmoved
        /\ fg.pc = "enable" /\ on' = TRUE
        /\ fg' = [fg EXCEPT !.pc = "wait", !.cmd = "none", !.senses = 4]
    BY <1>1, <1>3 DEF Enable, driver, faults, Unmoved, Reset, FdcState
  <2>2. Like(fg', fg, "wait", fg.op, "none", 4, fg.boots, fg.count)
    <3>1. "wait" \in PCs /\ "none" \in Cmds /\ 4 \in 0..4
      BY Names
    <3> QED
      BY <1>1, <2>1, <3>1, FgCmdSenses
  <2>3. fg.op # "none"
    BY <2>1 DEF IInv, Control
  <2>4. ~Moved'
    BY <2>2, <2>3 DEF Moved, Like
  <2> QED
    BY <2>1, <2>2, <2>3, <2>4 DEF Like, Unmoved, Drive, Stages, Noted, DriveOps
<1> QED
  BY <1>2, <1>3

LEMMA DriveSend == ASSUME IInv, Drive, Send PROVE Drive'
<1>1. fg \in FgState /\ fdc \in FdcState /\ fg.cmd \in Cmds \ {"none"}
  BY DEF Send, IInv, Types, Control, FgState
<1>2. /\ UNCHANGED <<on, heads, calibrated, track, shaken>>
      /\ fg.pc = "send" /\ fdc' = Accept(fg.cmd) /\ fdc.phase = "ready"
      /\ specified' = (specified \/ fg.cmd = "specify")
      /\ fg' = [fg EXCEPT !.pc = IF Commands[fg.cmd].wait THEN "wait" ELSE "respond"]
  BY DEF Send, driver, faults
<1>3. PICK h \in {"wait", "respond"} :
        /\ Like(fg', fg, h, fg.op, fg.cmd, fg.senses, fg.boots, fg.count)
        /\ h = "wait" <=> fg.cmd \in {"recalibrate", "readId", "seek", "read"}
  <2>1. CASE Commands[fg.cmd].wait
    BY <1>1, <1>2, <2>1, CommandFacts, Names, FgPc
  <2>2. CASE ~Commands[fg.cmd].wait
    BY <1>1, <1>2, <2>2, CommandFacts, Names, FgPc
  <2> QED
    BY <2>1, <2>2
<1>4. /\ fdc'.pcn = fdc.pcn /\ fdc'.phase # "reset"
      /\ fg.cmd \in {"recalibrate", "seek"} => fdc'.phase = "exec"
  <2>1. fg.cmd \in {"configure", "senseIrq", "recalibrate", "readId", "specify", "seek", "read"}
    BY <1>1 DEF Cmds, DriveOps
  <2>2. CASE fg.cmd \in {"configure", "specify"}
    BY <1>2, <2>2 DEF Accept
  <2>3. CASE fg.cmd = "senseIrq"
    <3>1. \/ fdc' = [fdc EXCEPT !.phase = "result", !.left = 2, !.sense = @ - 1]
          \/ fdc' = [fdc EXCEPT !.phase = "result", !.left = 1]
      BY <1>1, <1>2, <2>3 DEF Accept, FdcState
    <3> QED
      BY <1>1, <2>3, <3>1 DEF FdcState
  <2>4. CASE fg.cmd \in {"recalibrate", "readId", "seek", "read"}
    <3>1. fdc' = [fdc EXCEPT !.phase = "exec", !.cmd = fg.cmd, !.next = fg.chs.sector]
      BY <1>2, <2>4 DEF Accept
    <3> QED
      BY <1>1, <3>1 DEF FdcState
  <2> QED
    BY <2>1, <2>2, <2>3, <2>4
<1>5. fg.op \in {"seek", "recalibrate"} => (Moved' <=> Moved)
  BY <1>1, <1>2, <1>3, <1>4 DEF Moved, Like
<1> QED
  BY <1>1, <1>2, <1>3, <1>4, <1>5 DEF Like, Drive, Stages, Noted

LEMMA DriveWaitIrq == ASSUME IInv, Drive, WaitIrq PROVE Drive'
<1>1. fg \in FgState /\ {"send", "respond"} \subseteq PCs /\ "senseIrq" \in Cmds
  BY Names DEF IInv, Types
<1>2. /\ UNCHANGED <<on, fdc, heads, calibrated, track, shaken, specified>>
      /\ fg.pc = "wait" /\ fdc.phase # "exec"
  BY DEF WaitIrq, chips, faults, IInv, Bus, OwnInterrupt
<1>3. CASE fg.cmd = "none"
  <2>1. Like(fg', fg, "send", fg.op, "senseIrq", fg.senses, fg.boots, fg.count)
    BY <1>1, <1>3, FgCmd DEF WaitIrq
  <2>2. fg.senses = 4 /\ fg.op # "none"
    BY <1>2, <1>3 DEF IInv, Control
  <2>3. ~Moved' /\ ~Moved
    BY <1>3, <2>1, <2>2 DEF Moved, Like
  <2> QED
    BY <1>2, <2>1, <2>2, <2>3 DEF Like, Drive, Stages, Noted, DriveOps
<1>4. CASE fg.cmd # "none"
  <2>1. Like(fg', fg, "respond", fg.op, fg.cmd, fg.senses, fg.boots, fg.count)
    BY <1>1, <1>4, FgPc DEF WaitIrq
  <2>2. Moved' <=> Moved
    BY <1>2, <2>1 DEF Moved, Like
  <2> QED
    BY <1>2, <2>1, <2>2 DEF Like, Drive, Stages, Noted, DriveOps
<1> QED
  BY <1>3, <1>4

LEMMA DriveRespond == ASSUME IInv, Drive, Respond PROVE Drive'
<1>1. fg \in FgState /\ fdc \in FdcState /\ fg.cmd \in Cmds \ {"none"} /\ fg.senses \in 0..4
      /\ (fg.op = "reset" \/ fg.op \in DriveOps)
  BY DEF Respond, IInv, Types, Control, FgState, Ops
<1>2. /\ UNCHANGED <<on, specified>> /\ Unmoved /\ fdc'.phase = "ready"
      /\ fg.pc = "respond" /\ fg' = Done
      /\ calibrated' = (calibrated \/ Sensed("recalibrate"))
      /\ track' = CASE Sensed("recalibrate") -> 0
                    [] Sensed("seek") -> fg.chs.cylinder
                    [] OTHER -> track
  BY <1>1 DEF Respond, faults, Unmoved, FdcState
<1>3. CASE ~(fg.cmd = "senseIrq" /\ fg.senses = 0) /\ fg.cmd \notin {"readId", "specify"}
  <2>1. calibrated' = calibrated /\ track' = track
    BY <1>2, <1>3 DEF Sensed, Drive, Stages
  <2>2. CASE fg.cmd = "configure"
    <3>1. Like(fg', fg, "enable", fg.op, fg.cmd, fg.senses, fg.boots, fg.count)
      BY <1>1, <1>2, <2>2, Names, FgPc DEF Done
    <3>2. fg.op = "reset"
      BY <2>2 DEF IInv, Control
    <3> QED
      BY <1>2, <2>1, <2>2, <3>1, <3>2 DEF Like, Unmoved, Drive, Stages, Noted, DriveOps
  <2>3. CASE fg.cmd = "senseIrq" /\ fg.senses > 1
    <3>1. fg.senses - 1 \in 0..4 /\ fg.senses - 1 # 0
      BY <1>1, <2>3
    <3>2. Like(fg', fg, "send", fg.op, fg.cmd, fg.senses - 1, fg.boots, fg.count)
      <4>1. fg' = [fg EXCEPT !.pc = "send", !.senses = fg.senses - 1]
        BY <1>2, <2>3 DEF Done
      <4> QED
        BY <1>1, <3>1, <4>1, Names, FgSenses
    <3>3. ~Moved /\ ~Moved'
      BY <1>1, <2>3, <3>1, <3>2 DEF Moved, Like, DriveOps
    <3> QED
      BY <1>2, <2>1, <2>3, <3>2, <3>3 DEF Like, Unmoved, Drive, Stages, Noted, DriveOps
  <2>4. CASE fg.cmd = "senseIrq" /\ fg.senses = 1 /\ fg.op = "reset"
    <3>1. /\ fg'.op \in {"reset", "none"} /\ fg'.pc # "prepare"
          /\ fg'.cmd \in {"configure", "none"} /\ fg'.senses = 0
      <4>1. fg' = NextBoot
        BY <1>1, <1>2, <2>4 DEF Done
      <4>2. CASE fg.boots = 1
        BY <1>1, <2>4, <4>1, <4>2 DEF NextBoot, FgState
      <4>3. CASE fg.boots # 1
        BY <4>1, <4>3 DEF NextBoot, NoCall
      <4> QED
        BY <4>2, <4>3
    <3>2. ~calibrated
      BY <2>4 DEF Drive, Stages
    <3> QED
      BY <1>2, <2>1, <3>1, <3>2 DEF Unmoved, Drive, Stages, Noted
  <2>5. CASE fg.cmd = "senseIrq" /\ fg.senses = 1 /\ fg.op \in DriveOps
    <3>1. fg.op \in Cmds /\ 0 \in 0..4 /\ "send" \in PCs /\ fg.op # "reset"
      BY <2>5, Names DEF DriveOps
    <3>2. fg' = [fg EXCEPT !.pc = "send", !.cmd = fg.op, !.senses = 0]
      BY <1>1, <1>2, <2>5, <3>1 DEF Done
    <3>3. Like(fg', fg, "send", fg.op, fg.op, 0, fg.boots, fg.count)
      BY <1>1, <3>1, <3>2, FgCmdSenses, Zenon
    <3>4. ~Moved /\ ~Moved'
      BY <2>5, <3>3 DEF Moved, Like, DriveOps
    <3> QED
      BY <1>2, <2>1, <2>5, <3>3, <3>4 DEF Like, Unmoved, Drive, Stages, Noted, DriveOps
  <2>6. CASE fg.cmd \in {"recalibrate", "seek"}
    <3>1. Like(fg', fg, "send", fg.op, "senseIrq", fg.senses, fg.boots, fg.count)
      BY <1>1, <1>2, <2>6, Names, FgCmd DEF Done
    <3>2. fg.op = fg.cmd /\ fg.senses = 0
      BY <2>6 DEF IInv, Control, Drive, Stages, DriveOps
    <3>3. Moved /\ Moved'
      BY <1>2, <2>6, <3>1, <3>2 DEF Moved, Like
    <3> QED
      BY <1>2, <2>1, <2>6, <3>1, <3>2, <3>3 DEF Like, Unmoved, Drive, Stages, Noted, DriveOps
  <2>7. CASE fg.cmd = "read"
    <3>1. Like(fg', fg, "dmaWait", fg.op, fg.cmd, fg.senses, fg.boots, fg.count)
      BY <1>1, <1>2, <2>7, Names, FgPc DEF Done
    <3>2. fg.op = "read"
      BY <2>7 DEF IInv, Control, DriveOps
    <3> QED
      BY <1>2, <2>1, <2>7, <3>1, <3>2 DEF Like, Unmoved, Drive, Stages, Noted, DriveOps
  <2>8. fg.senses = 0 \/ fg.senses = 1 \/ fg.senses > 1
    BY <1>1
  <2> QED
    BY <1>1, <1>3, <2>2, <2>3, <2>4, <2>5, <2>6, <2>7, <2>8 DEF Cmds, DriveOps
<1>4. CASE fg.cmd = "senseIrq" /\ fg.senses = 0 /\ fg.op = "recalibrate"
  <2>1. Like(fg', fg, "begin", "readId", "readId", fg.senses, fg.boots, fg.count)
    BY <1>1, <1>2, <1>4, OpBegins DEF Done, DriveOps
  <2>2. calibrated' = TRUE /\ track' = 0 /\ heads = 0 /\ fdc.pcn = 0 /\ on
    BY <1>2, <1>4 DEF Sensed, Drive, Stages, Moved
  <2> QED
    BY <1>2, <1>4, <2>1, <2>2 DEF Like, Unmoved, Drive, Stages, Noted
<1>5. CASE fg.cmd = "senseIrq" /\ fg.senses = 0 /\ fg.op = "seek"
  <2>1. Clipped \in 0..MaxCount /\ "read" \in DriveOps
    BY <1>2, <1>5, ClippedFacts DEF Reading, DriveOps
  <2>2. fg' = [Op("read") EXCEPT !.pc = "arm", !.count = Clipped]
    BY <1>2, <1>5 DEF Done
  <2>3. Like(fg', fg, "arm", "read", "read", fg.senses, fg.boots, Clipped)
    BY <1>1, <2>1, <2>2, OpArms, Zenon
  <2>4. calibrated' = calibrated /\ track' = fg.chs.cylinder /\ calibrated /\ Moved
    BY <1>2, <1>5 DEF Sensed, Drive, Stages, Moved
  <2> QED
    BY <1>2, <1>5, <2>3, <2>4 DEF Like, Unmoved, Drive, Stages, Noted
<1>6. CASE fg.cmd = "readId"
  <2>1. Like(fg', fg, "begin", "specify", "specify", fg.senses, fg.boots, fg.count)
    BY <1>1, <1>2, <1>6, OpBegins DEF Done, DriveOps
  <2>2. fg.op = "readId" /\ calibrated' = calibrated /\ track' = track /\ fg.senses = 0
    BY <1>2, <1>6 DEF Sensed, IInv, Control, DriveOps, Drive, Stages
  <2> QED
    BY <1>2, <2>1, <2>2 DEF Like, Unmoved, Drive, Stages, Noted
<1>7. CASE fg.cmd = "specify"
  <2>1. fg.op = "specify" /\ calibrated' = calibrated /\ track' = track /\ fg.senses = 0 /\ Reading
    BY <1>2, <1>7 DEF Sensed, IInv, Control, DriveOps, Drive, Stages, Reading
  <2>2. fg' = SeekOrRead
    BY <1>2, <1>7 DEF Done
  <2>3. /\ fg'.senses = 0 /\ fg'.chs = fg.chs /\ fg'.pc \in {"begin", "arm"}
        /\ \/ fg'.op = "seek" /\ fg'.cmd = "seek"
           \/ fg'.op = "read" /\ fg'.cmd = "read" /\ fg.chs.cylinder = track
    BY <2>1, <2>2, DriveSeekOrRead
  <2>4. ~Moved'
    BY <2>3 DEF Moved
  <2> QED
    BY <1>2, <2>1, <2>3, <2>4 DEF Unmoved, Drive, Stages, Noted
<1> QED
  BY <1>3, <1>4, <1>5, <1>6, <1>7 DEF IInv, Control

LEMMA DriveNext == IInv /\ Drive /\ [Next]_vars => Drive'
<1> SUFFICES ASSUME IInv, Drive, [Next]_vars PROVE Drive'
  OBVIOUS
<1>1. CASE UNCHANGED vars
  BY <1>1 DEF vars, driver, chips, faults, Drive, Stages, Noted, Moved
<1> QED
  BY <1>1, DriveChips, DriveRefuse, DriveCall, DrivePrepare, DriveBegin, DriveSend, DriveWaitIrq,
     DriveRespond DEF Next, Foreground

(* A read command is never given to a controller that was not told the     *)
(* drive's timing, nor with the heads on another cylinder than the         *)
(* command's, unless a command failed after the drive was calibrated: the  *)
(* driver's recalib_status and track[] are then out of date.               *)
THEOREM ReadsArePrepared == ASSUME OnDisk PROVE Spec => []Prepared
<1>1. IInv /\ Drive => Prepared
  <2> SUFFICES ASSUME IInv, Drive, Executing("read"), ~shaken
               PROVE  specified /\ heads = fg.chs.cylinder
    BY DEF Prepared
  <2>1. fg.op = "read"
    BY ReadFacts
  <2> QED
    BY <2>1 DEF Drive, Stages, Noted
<1>2. Init => Drive
  BY DriveInit
<1>3. IInv /\ Drive /\ [Next]_vars => Drive'
  BY DriveNext
<1> QED
  BY <1>1, <1>2, <1>3, Inductive, PTL DEF Spec
=============================================================================
