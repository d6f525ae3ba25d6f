------------------------------- MODULE Floppy -------------------------------
(***************************************************************************)
(* The floppy driver (src/hw/floppy.c) with its interrupt handler, the     *)
(* 82077 disk controller and the channel of the MC68440 that stores what   *)
(* the controller reads.  The calls run one at a time in the foreground:   *)
(* the resets of both drives at start-up, then reads of drive 0.           *)
(*                                                                         *)
(* A command goes to the controller byte by byte, but nothing but the      *)
(* controller's own answer can happen in between, so a command is sent, or *)
(* refused, in one step.  The controller and the channel are modelled by   *)
(* what the driver relies on: they are not in the repository.              *)
(***************************************************************************)
EXTENDS Chs, Sequences

CONSTANTS Cylinders, Sectors,   (* finfo_table[4].chs: 80 and 18           *)
          MaxLba,               (* bound: addresses asked for              *)
          MaxCount,             (* bound: sectors asked for in one read    *)
          MaxReads,             (* bound: reads                            *)
          MaxRefusals,          (* bound: bytes that go the wrong way      *)
          MaxFlaws              (* bound: sectors that cannot be read      *)

ASSUME FloppyAssumption ==
    /\ {Cylinders, Sectors} \subseteq Nat \ {0} /\ Cylinders % 2 = 0
    /\ {MaxLba, MaxCount, MaxReads, MaxRefusals, MaxFlaws} \subseteq Nat

VARIABLES on,            (* FDC_DOR_RESET and FDC_DOR_IRQ are set          *)
          irq, irqDone,  (* IRQ 6 latched; param->irq_done                 *)
          fdc,           (* the controller: phase, command, interrupts to  *)
                         (* be sensed, cylinder it believes in, sector     *)
          heads,         (* the cylinder drive 0's heads are on            *)
          specified,     (* SPECIFY got through since start-up             *)
          calibrated, track, (* recalib_status and track[], drive 0        *)
          dma,           (* the channel: running, its buffer, what is left *)
          mem,           (* the sectors stored in each read's buffer       *)
          fg,            (* the foreground: where it stands, the operation *)
                         (* and its stage, the call and its arguments      *)
          returned,      (* each read's arguments and what it returned     *)
          nReads, nRefusals, nFlaws,
          flawed, shaken (* reads that met a sector that cannot be read; a *)
                         (* command failed on a calibrated drive           *)

driver == <<irqDone, calibrated, track>>
chips  == <<on, irq, fdc, heads, specified, dma, mem>>
call   == <<returned, nReads>>
faults == <<nRefusals, nFlaws, flawed, shaken>>
vars   == <<driver, chips, fg, call, faults>>

Geom == [cylinder |-> Cylinders, head |-> 2, sector |-> Sectors]
Smaller(a, b) == IF a < b THEN a ELSE b

(* The commands: whether an interrupt is awaited, and how many bytes the   *)
(* controller answers (CMD_ table).                                        *)
Commands == [configure   |-> [wait |-> FALSE, response |-> 0],
             senseIrq    |-> [wait |-> FALSE, response |-> 2],
             recalibrate |-> [wait |-> TRUE,  response |-> 0],
             readId      |-> [wait |-> TRUE,  response |-> 7],
             specify     |-> [wait |-> FALSE, response |-> 0],
             seek        |-> [wait |-> TRUE,  response |-> 0],
             read        |-> [wait |-> TRUE,  response |-> 7]]

NoCall == [pc |-> "idle", op |-> "none", cmd |-> "none", senses |-> 0, boots |-> 0,
           lba |-> -1, n |-> 0, chs |-> NoChs, count |-> 0]

Init ==
    /\ on = TRUE /\ irq = FALSE /\ irqDone = FALSE
    /\ fdc = [phase |-> "ready", cmd |-> "none", sense |-> 0, pcn |-> 0, left |-> 0, next |-> 0]
    /\ heads \in 0..Cylinders - 1
    /\ specified = FALSE
    /\ calibrated = FALSE /\ track = 0
    /\ dma = [run |-> FALSE, buf |-> 0, left |-> 0]
    /\ mem = <<>> /\ returned = <<>>
    /\ fg = [NoCall EXCEPT !.pc = "send", !.op = "reset", !.cmd = "configure", !.boots = 1]
    /\ nReads = 0 /\ nRefusals = 0 /\ nFlaws = 0
    /\ flawed = {} /\ shaken = FALSE

-----------------------------------------------------------------------------
(* The controller and the channel.                                         *)

Reset == [fdc EXCEPT !.phase = "reset", !.sense = 0]
Accept(c) ==
    CASE c \in {"configure", "specify"} -> fdc
      [] c = "senseIrq" /\ fdc.sense > 0 ->
           [fdc EXCEPT !.phase = "result", !.left = 2, !.sense = @ - 1]
      [] c = "senseIrq" /\ fdc.sense = 0 -> [fdc EXCEPT !.phase = "result", !.left = 1]
      [] OTHER -> [fdc EXCEPT !.phase = "exec", !.cmd = c, !.next = fg.chs.sector]

(* Out of reset, the controller asks to be sensed once for each drive.     *)
FdcUp ==
    /\ on /\ fdc.phase = "reset"
    /\ fdc' = [fdc EXCEPT !.phase = "ready", !.sense = 4, !.pcn = 0]
    /\ irq' = TRUE
    /\ UNCHANGED <<driver, on, heads, specified, dma, mem, fg, call, faults>>

Executing(c) == fdc.phase = "exec" /\ fdc.cmd = c
Steps == fg.chs.cylinder - fdc.pcn
Reachable(c) == IF c < 0 THEN 0 ELSE Smaller(c, Cylinders - 1)

FdcMoves ==
    /\ \/ /\ Executing("recalibrate")
          /\ heads' = 0
          /\ fdc' = [fdc EXCEPT !.phase = "ready", !.sense = 1, !.pcn = 0]
       \/ /\ Executing("seek")
          /\ heads' = Reachable(heads + Steps)
          /\ fdc' = [fdc EXCEPT !.phase = "ready", !.sense = 1, !.pcn = fg.chs.cylinder]
    /\ irq' = TRUE
    /\ UNCHANGED <<driver, on, specified, dma, mem, fg, call, faults>>

Result == [fdc EXCEPT !.phase = "result", !.left = 7]
FdcIdRead ==
    /\ Executing("readId")
    /\ fdc' = Result
    /\ irq' = TRUE
    /\ UNCHANGED <<driver, on, heads, specified, dma, mem, fg, call, faults>>

(* A sector is found if the heads are on the cylinder the command names.   *)
Last == fg.chs.sector + fg.count - 1
Found == /\ fdc.next \in 1..Sectors /\ fdc.next <= Last
         /\ heads = fg.chs.cylinder /\ specified
Stored == OnMedium(heads, fg.chs.head, fdc.next, Geom)
Store == IF dma.run /\ dma.left > 0
           THEN /\ mem' = [mem EXCEPT ![dma.buf] = Append(@, Stored)]
                /\ dma' = [dma EXCEPT !.left = @ - 1]
           ELSE UNCHANGED <<mem, dma>>

FdcReadsSector ==
    /\ Executing("read")
    /\ Found
    /\ Store
    /\ fdc' = [fdc EXCEPT !.next = @ + 1]
    /\ UNCHANGED <<driver, on, irq, heads, specified, fg, call, faults>>

FdcReadEnds ==
    /\ Executing("read")
    /\ ~Found
    /\ fdc' = Result /\ irq' = TRUE
    /\ UNCHANGED <<driver, on, heads, specified, dma, mem, fg, call, faults>>

(* The controller gives up at a bad sector, before or after storing it.    *)
FdcFails ==
    /\ Executing("read")
    /\ Found /\ nFlaws < MaxFlaws
    /\ nFlaws' = nFlaws + 1 /\ flawed' = flawed \union {nReads}
    /\ Store \/ UNCHANGED <<mem, dma>>
    /\ fdc' = Result /\ irq' = TRUE
    /\ UNCHANGED <<driver, on, heads, specified, fg, call, nRefusals, shaken>>

(* floppy_irq_handler, from irq6_handler.                                  *)
Interrupt ==
    /\ irq
    /\ irq' = FALSE
    /\ irqDone' = TRUE
    /\ UNCHANGED <<calibrated, track, on, fdc, heads, specified, dma, mem, fg, call, faults>>

-----------------------------------------------------------------------------
(* The calls.                                                              *)

Return(lba, n, r) ==
    /\ fg' = NoCall
    /\ returned' = Append(returned, [lba |-> lba, n |-> n, ret |-> r])

(* floppy_drive0_read_sectors_lba: the chs hack and the checks.            *)
ReadSectors ==
    /\ fg.pc = "idle" /\ nReads < MaxReads
    /\ nReads' = nReads + 1
    /\ mem' = Append(mem, <<>>)
    /\ \E lba \in 0..MaxLba, n \in 1..MaxCount :
         LET chs == Hack(LbaToChs(lba, Geom), Geom)
         IN IF chs.cylinder > Cylinders - 1 \/ chs.sector > Sectors
              THEN Return(lba, n, -1)
              ELSE /\ fg' = [NoCall EXCEPT !.pc = "prepare", !.lba = lba, !.n = n,
                                           !.chs = chs, !.count = n]
                   /\ UNCHANGED returned
    /\ UNCHANGED <<driver, on, irq, fdc, heads, specified, dma, faults>>

(* floppy_prepare, and the clipping at the track's end that follows it.    *)
Op(o) == [fg EXCEPT !.pc = "begin", !.op = o, !.cmd = o]
(* A faulty variant: the end of the track is forgotten.                    *)
ClippedNot == fg.count
Clipped == Smaller(fg.count, Sectors - fg.chs.sector + 1)
(* A faulty variant: the cylinder is not looked at.                        *)
ReadAnywhere == [Op("read") EXCEPT !.pc = "arm", !.count = Clipped]
SeekOrRead == IF fg.chs.cylinder # track THEN Op("seek")
                                         ELSE [Op("read") EXCEPT !.pc = "arm", !.count = Clipped]
Prepare ==
    /\ fg.pc = "prepare"
    /\ fg' = IF calibrated THEN SeekOrRead ELSE Op("recalibrate")
    /\ UNCHANGED <<driver, chips, call, faults>>

(* A faulty variant: a channel that runs is left alone.                    *)
ArmDmaIfIdle ==
    /\ fg.pc = "arm"
    /\ fg' = [fg EXCEPT !.pc = "begin"]
    /\ dma' = IF dma.run THEN dma ELSE [run |-> TRUE, buf |-> nReads, left |-> fg.count]
    /\ UNCHANGED <<driver, on, irq, fdc, heads, specified, mem, call, faults>>

(* dmac_setup_floppy_read, whatever the channel was doing.                 *)
ArmDma ==
    /\ fg.pc = "arm"
    /\ fg' = [fg EXCEPT !.pc = "begin"]
    /\ dma' = [run |-> TRUE, buf |-> nReads, left |-> fg.count]
    /\ UNCHANGED <<driver, on, irq, fdc, heads, specified, mem, call, faults>>

(* A faulty variant: it is taken for enabled.                              *)
BeginBlind ==
    /\ fg.pc = "begin"
    /\ fg' = [fg EXCEPT !.pc = "send"]
    /\ UNCHANGED <<driver, chips, call, faults>>

(* floppy_drive_pio_command looks whether the controller is enabled; the   *)
(* other users of fdc_pio_command do not.                                  *)
Begin ==
    /\ fg.pc = "begin"
    /\ fg' = [fg EXCEPT !.pc = IF on \/ fg.op = "specify" THEN "send" ELSE "enable"]
    /\ UNCHANGED <<driver, chips, call, faults>>

(* fdc_enable: through the reset, then the interrupt, then four SENSE_IRQ. *)
Enable ==
    /\ fg.pc = "enable"
    /\ fg' = [fg EXCEPT !.pc = "wait", !.cmd = "none", !.senses = 4]
    /\ on' = TRUE /\ fdc' = Reset
    /\ UNCHANGED <<driver, irq, heads, specified, dma, mem, call, faults>>

(* The boot resets drive 0, then drive 1.                                  *)
NextBoot == IF fg.boots = 1 THEN [fg EXCEPT !.pc = "send", !.cmd = "configure", !.boots = 2,
                                            !.senses = 0]
                            ELSE NoCall

(* fdc_disable, after a byte that goes the wrong way.  floppy_reset_common *)
(* ignores what became of CONFIGURE and disables the controller anyway;    *)
(* any other call returns.                                                 *)
Fail ==
    /\ on' = FALSE /\ fdc' = Reset
    /\ shaken' = (shaken \/ calibrated)
    /\ IF fg.op = "reset"
         THEN /\ fg' = IF fg.cmd = "configure" THEN [fg EXCEPT !.pc = "enable"] ELSE NextBoot
              /\ UNCHANGED returned
         ELSE Return(fg.lba, fg.n, -1)

Send ==
    /\ fg.pc = "send"
    /\ fdc.phase = "ready"
    /\ fdc' = Accept(fg.cmd)
    /\ specified' = (specified \/ fg.cmd = "specify")
    /\ fg' = [fg EXCEPT !.pc = IF Commands[fg.cmd].wait THEN "wait" ELSE "respond"]
    /\ UNCHANGED <<driver, on, irq, heads, dma, mem, call, faults>>

(* The result: the controller has it, has less than that, or more.         *)
Wanted == Commands[fg.cmd].response
Given == IF fdc.phase = "result" THEN fdc.left ELSE 0

Mismatch == fg.pc = "respond" /\ Given # Wanted

(* The status register says the wrong direction for a byte: the controller *)
(* refuses one while the command is sent, in its result or at the end, or  *)
(* its result is longer or shorter than the driver expects.                *)
Refuse ==
    /\ fg.pc \in {"send", "respond"} /\ fdc.phase \in {"ready", "result"}
    /\ Mismatch \/ nRefusals < MaxRefusals
    /\ nRefusals' = IF Mismatch THEN nRefusals ELSE nRefusals + 1
    /\ Fail
    /\ UNCHANGED <<driver, irq, heads, specified, dma, mem, nReads, nFlaws, flawed>>

(* A faulty variant: the flag is not taken back.                           *)
WaitIrqOnly ==
    /\ fg.pc = "wait"
    /\ irqDone
    /\ fg' = IF fg.cmd = "none" THEN [fg EXCEPT !.pc = "send", !.cmd = "senseIrq"]
                                ELSE [fg EXCEPT !.pc = "respond"]
    /\ UNCHANGED <<driver, chips, call, faults>>

(* fdc_wait_irq.                                                           *)
WaitIrq ==
    /\ fg.pc = "wait"
    /\ irqDone
    /\ irqDone' = FALSE
    /\ fg' = IF fg.cmd = "none" THEN [fg EXCEPT !.pc = "send", !.cmd = "senseIrq"]
                                ELSE [fg EXCEPT !.pc = "respond"]
    /\ UNCHANGED <<calibrated, track, chips, call, faults>>

(* What a command that succeeded is followed by: the next SENSE_IRQ of     *)
(* fdc_enable, the command it was for, the SENSE_IRQ that a command        *)
(* without a result is given, or the next step of the call.                *)
Done ==
    CASE fg.cmd = "configure" -> [fg EXCEPT !.pc = "enable"]
      [] fg.cmd = "senseIrq" /\ fg.senses > 1 -> [fg EXCEPT !.pc = "send", !.senses = @ - 1]
      [] fg.cmd = "senseIrq" /\ fg.senses = 1 ->
           IF fg.op = "reset" THEN NextBoot
                              ELSE [fg EXCEPT !.pc = "send", !.cmd = fg.op, !.senses = 0]
      [] fg.cmd \in {"recalibrate", "seek"} -> [fg EXCEPT !.pc = "send", !.cmd = "senseIrq"]
      [] fg.cmd = "senseIrq" /\ fg.senses = 0 /\ fg.op = "recalibrate" -> Op("readId")
      [] fg.cmd = "senseIrq" /\ fg.senses = 0 /\ fg.op = "seek" ->
           [Op("read") EXCEPT !.pc = "arm", !.count = Clipped]
      [] fg.cmd = "readId" -> Op("specify")
      [] fg.cmd = "specify" -> SeekOrRead
      [] fg.cmd = "read" -> [fg EXCEPT !.pc = "dmaWait"]
Sensed(o) == fg.cmd = "senseIrq" /\ fg.senses = 0 /\ fg.op = o

Respond ==
    /\ fg.pc = "respond"
    /\ fdc.phase \in {"ready", "result"} /\ Given = Wanted
    /\ fdc' = [fdc EXCEPT !.phase = "ready", !.left = 0]
    /\ fg' = Done
    /\ calibrated' = (calibrated \/ Sensed("recalibrate"))
    /\ track' = CASE Sensed("recalibrate") -> 0
                  [] Sensed("seek") -> fg.chs.cylinder
                  [] OTHER -> track
    /\ UNCHANGED <<irqDone, on, irq, heads, specified, dma, mem, call, faults>>

(* dmac_wait_floppy_transfer; the status of the read is looked at, and     *)
(* ignored.                                                                *)
DmaWait ==
    /\ fg.pc = "dmaWait"
    /\ dma.left = 0
    /\ dma' = [dma EXCEPT !.run = FALSE]
    /\ Return(fg.lba, fg.n, fg.count)
    /\ UNCHANGED <<driver, on, irq, fdc, heads, specified, mem, nReads, faults>>

Foreground ==
    \/ Prepare \/ ArmDma \/ Begin \/ Enable \/ Send \/ Refuse \/ WaitIrq
    \/ Respond \/ DmaWait

Controller ==
    \/ FdcUp \/ FdcMoves \/ FdcIdRead \/ FdcReadsSector \/ FdcReadEnds \/ FdcFails

Next == ReadSectors \/ Foreground \/ Controller \/ Interrupt

Spec == Init /\ [][Next]_vars

(* The foreground polls, the controller works, and its interrupt is taken. *)
Fairness == WF_vars(Foreground) /\ WF_vars(Controller) /\ WF_vars(Interrupt)

FairSpec == Spec /\ Fairness

-----------------------------------------------------------------------------
(* Shape of the state.                                                     *)
TypeOK ==
    /\ heads \in 0..Cylinders - 1 /\ track \in 0..Cylinders - 1
    /\ fdc.phase \in {"reset", "ready", "exec", "result"}
    /\ fdc.sense \in 0..4 /\ fdc.pcn \in 0..Cylinders - 1
    /\ dma.left \in 0..Sectors /\ dma.buf <= nReads
    /\ fg.count \in 0..MaxCount /\ fg.senses \in 0..4
    /\ Len(mem) = nReads /\ Len(returned) <= nReads

(* An interrupt is latched, or noted in irq_done, only while the           *)
(* foreground waits for that very one: irq_done is a flag, set for ever    *)
(* and not cleared before a command, so one left over would end the next   *)
(* command's wait at once.                                                 *)
OwnInterrupt ==
    irq \/ irqDone => fg.pc = "wait" /\ fdc.phase \in {"ready", "result"}

(* A read command goes to a controller that has been told the drive's      *)
(* timing, with the heads on the command's cylinder, whatever commands     *)
(* failed before; except that a failure after the drive was calibrated     *)
(* resets the controller, which the driver's notes on the drive survive.   *)
Prepared == Executing("read") /\ ~shaken => specified /\ heads = fg.chs.cylinder

(* A read that returns a number has stored that many sectors from the      *)
(* address asked for, in order, and reads on to the end of the track; the  *)
(* hack puts linear addresses where a diskette has them.  The status is    *)
(* ignored ("// return 1"), so a bad sector that was stored all the same   *)
(* counts as read: such reads are excused.                                 *)
ReadsRight ==
    \A i \in 1..Len(returned) :
        LET read == returned[i] IN
        read.ret >= 0 /\ i \notin flawed =>
            /\ read.ret = Smaller(read.n, Sectors - (read.lba % Sectors))
            /\ mem[i] = [k \in 1..read.ret |-> read.lba + k - 1]

(* Once a read has returned nothing is stored in its buffer, although a    *)
(* command that fails leaves the channel running on it.                    *)
NoStrayDma == [][\A i \in 1..Len(returned) : mem'[i] = mem[i]]_vars

(* Every reset and every read returns, though none of the waits has an     *)
(* end, unless a sector cannot be read, a command fails on a calibrated    *)
(* drive, or drive 0's reset fails and leaves the controller disabled for  *)
(* the CONFIGURE of drive 1's.                                             *)
ConfiguresNobody == fg.cmd = "configure" /\ ~on
CallsReturn == fg.pc # "idle" ~> \/ fg.pc = "idle"
                                 \/ shaken \/ nReads \in flawed \/ ConfiguresNobody

(* A read beyond the medium is refused before a command is sent ("check    *)
(* geometry", floppy_read; "error, head index exceeds its limit",          *)
(* lba_to_chs).                                                            *)
RangeChecked == fg.pc # "idle" => fg.lba < Capacity(Geom)
=============================================================================
