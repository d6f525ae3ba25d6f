------------------------------- MODULE Duart --------------------------------
(***************************************************************************)
(* The MC68681 serial driver (src/hw/mc68681.c): the foreground entry      *)
(* points, the interrupt handler, and the handler called once more from    *)
(* the foreground by write_byte.                                           *)
(*                                                                         *)
(* The ring buffers are atomic FIFO queues here, which RingBuf proves them *)
(* to be.  Every access to a device register and every load or store of    *)
(* param->imr is a step of its own, and the interrupt may come between any *)
(* two of them: how long the DUART's request takes through the SCU is not  *)
(* known.  The SCU holds level 2 back until irq16_handler acknowledges it, *)
(* so the handler does not interrupt itself.  A ring call that leaves the  *)
(* mask up (Unmask in RingBuf) only delays the interrupt further, which    *)
(* that freedom covers; the fairness of Interrupt assumes that it does not *)
(* stay up for ever.                                                       *)
(***************************************************************************)
EXTENDS Integers, Sequences, SequencesExt

CONSTANTS Chans,        (* the channels, in the order the handler serves   *)
          Cap,          (* bytes a ring holds                              *)
          MaxTx, MaxRx, (* bound: bytes written and bytes received         *)
          MaxConfig,    (* bound: calls of set_param                       *)
          FifoSize,     (* depth of the DUART's receive FIFO               *)
          LineErrors    (* {FALSE}, or BOOLEAN if characters may have      *)
                        (* errors                                          *)

Ch == Range(Chans)
ASSUME ChansAssumption == Chans \in Seq({"a", "b"}) /\ Len(Chans) \in 1..2
ASSUME BoundsAssumption ==
    /\ Cap \in Nat \ {0} /\ FifoSize \in Nat \ {0}
    /\ {MaxTx, MaxRx, MaxConfig} \subseteq Nat
    /\ LineErrors \subseteq BOOLEAN /\ LineErrors # {}

VARIABLES txbuf, rxbuf,  (* the rings of each channel                      *)
          imr,           (* param->imr, as the set of its bits             *)
          hwImr,         (* the DUART's mask register                      *)
          on,            (* channels whose transmitter and receiver run    *)
          busy,          (* busy[ch]: the transmit holding register is full*)
          fifo,          (* fifo[ch]: received characters                  *)
          pc, at, data,  (* pc[x]: where context x stands, at[x]: the      *)
          reg,           (* channel index it is serving, data[x], reg[x]:  *)
                         (* a byte and an imr value in its registers       *)
          line,          (* line[ch]: the bytes sent so far                *)
          read,          (* read[ch]: the received bytes read_byte returned*)
          nTx, nRx, nCfg (* bytes written, received; calls of set_param    *)

queues == <<txbuf, rxbuf>>
hw     == <<on, busy, fifo>>
cpu    == <<pc, at, data, reg>>
log    == <<line, read, nTx, nRx, nCfg>>
vars   == <<queues, imr, hwImr, hw, cpu, log>>

Context == {"fg", "irq"}
Bits == {"tx", "rx"} \X Ch
BitsOf(ch) == {"tx", "rx"} \X {ch}

(* Bytes written and characters received are numbered from 1.  rx_polled   *)
(* answers -1 for a character with an error, and 0xFF is pushed for it; a  *)
(* register read from an empty FIFO gives the previous character again.    *)
ErrorByte == MaxRx + 1
StaleByte == 0
Char == [id : 1..MaxRx, err : BOOLEAN]

(* The bits the DUART shows in isr, masked or not.                         *)
TxReady(ch) == ch \in on /\ ~busy[ch]
Isr == {b \in Bits : \/ b[1] = "tx" /\ TxReady(b[2])
                     \/ b[1] = "rx" /\ fifo[b[2]] # <<>>}

Init ==
    /\ txbuf = [ch \in Ch |-> <<>>] /\ rxbuf = [ch \in Ch |-> <<>>]
    /\ imr = {} /\ hwImr = {}
    /\ on = {} /\ busy = [ch \in Ch |-> FALSE] /\ fifo = [ch \in Ch |-> <<>>]
    /\ pc = [x \in Context |-> IF x = "fg" THEN "idle" ELSE "off"]
    /\ at = [x \in Context |-> 1]
    /\ data = [x \in Context |-> 0]
    /\ reg = [x \in Context |-> {}]
    /\ line = [ch \in Ch |-> <<>>] /\ read = [ch \in Ch |-> <<>>]
    /\ nTx = 0 /\ nRx = 0 /\ nCfg = 0

(* The foreground runs only when the handler does not.                     *)
Running(x) == x = "irq" \/ pc["irq"] = "off"
Goto(x, from, to) ==
    /\ pc[x] = from
    /\ Running(x)
    /\ pc' = [pc EXCEPT ![x] = to]
Chan(x) == Chans[at[x]]

-----------------------------------------------------------------------------
(* mc68681_irq_handler, run by either context, one channel after another.  *)

TxTest(x) ==
    /\ Goto(x, "txTest", IF TxReady(Chan(x)) THEN "txPop" ELSE "rxTest")
    /\ UNCHANGED <<queues, imr, hwImr, hw, at, data, reg, log>>

(* A faulty variant: the byte stays in the ring.                           *)
TxPeek(x) ==
    /\ Goto(x, "txPop", IF txbuf[Chan(x)] = <<>> THEN "clearLoad" ELSE "txStatus")
    /\ data' = [data EXCEPT ![x] = IF txbuf[Chan(x)] = <<>> THEN @ ELSE Head(txbuf[Chan(x)])]
    /\ UNCHANGED <<queues, imr, hwImr, hw, at, reg, log>>

TxPop(x) ==
    LET ch == Chan(x) IN
    \/ /\ txbuf[ch] = <<>>
       /\ Goto(x, "txPop", "clearLoad")
       /\ UNCHANGED <<queues, imr, hwImr, hw, at, data, reg, log>>
    \/ /\ txbuf[ch] # <<>>
       /\ Goto(x, "txPop", "txStatus")
       /\ data' = [data EXCEPT ![x] = Head(txbuf[ch])]
       /\ txbuf' = [txbuf EXCEPT ![ch] = Tail(@)]
       /\ UNCHANGED <<rxbuf, imr, hwImr, hw, at, reg, log>>

(* param->imr &= ~bit; regs->imr = param->imr: load, store, register.      *)
ClearLoad(x) ==
    /\ Goto(x, "clearLoad", "clearStore")
    /\ reg' = [reg EXCEPT ![x] = imr \ {<<"tx", Chan(x)>>}]
    /\ UNCHANGED <<queues, imr, hwImr, hw, at, data, log>>

StoreImr(x, from, to) ==
    /\ Goto(x, from, to)
    /\ imr' = reg[x]
    /\ UNCHANGED <<queues, hwImr, hw, at, data, reg, log>>

WriteHwImr(x, from, to) ==
    /\ Goto(x, from, to)
    /\ hwImr' = reg[x]
    /\ reg' = [reg EXCEPT ![x] = {}]
    /\ UNCHANGED <<queues, imr, hw, at, data, log>>

Clear(x) ==
    \/ ClearLoad(x)
    \/ StoreImr(x, "clearStore", "clearHw")
    \/ WriteHwImr(x, "clearHw", "rxTest")

(* tx_polled: wait for the status bit, then load the holding register; a   *)
(* byte loaded while the register is full is lost.                         *)
TxStatus(x) ==
    /\ TxReady(Chan(x))
    /\ Goto(x, "txStatus", "txWrite")
    /\ UNCHANGED <<queues, imr, hwImr, hw, at, data, reg, log>>

TxWrite(x) ==
    LET ch == Chan(x) IN
    /\ Goto(x, "txWrite", "rxTest")
    /\ busy' = [busy EXCEPT ![ch] = ch \in on]
    /\ line' = IF TxReady(ch) THEN [line EXCEPT ![ch] = Append(@, data[x])] ELSE line
    /\ data' = [data EXCEPT ![x] = 0]
    /\ UNCHANGED <<queues, imr, hwImr, on, fifo, at, reg, read, nTx, nRx, nCfg>>

Finished(x) == IF x = "fg" THEN "idle" ELSE "off"
AfterChannel(x) == IF at[x] < Len(Chans) THEN "txTest" ELSE Finished(x)
NextChannel(x) == at' = [at EXCEPT ![x] = IF @ < Len(Chans) THEN @ + 1 ELSE 1]

RxTest(x) ==
    LET there == fifo[Chan(x)] # <<>> IN
    /\ Goto(x, "rxTest", IF there THEN "rxStatus" ELSE AfterChannel(x))
    /\ IF there THEN UNCHANGED at ELSE NextChannel(x)
    /\ UNCHANGED <<queues, imr, hwImr, hw, data, reg, log>>

(* rx_polled: wait for the status bit, give up on an error without reading *)
(* the character, else read it.                                            *)
RxStatus(x) ==
    LET f == fifo[Chan(x)] IN
    /\ f # <<>>
    /\ Goto(x, "rxStatus", IF Head(f).err THEN "rxPush" ELSE "rxRead")
    /\ data' = [data EXCEPT ![x] = IF Head(f).err THEN ErrorByte ELSE 0]
    /\ UNCHANGED <<queues, imr, hwImr, hw, at, reg, log>>

(* A faulty variant: the character is looked at but stays in the FIFO.     *)
RxPeek(x) ==
    LET f == fifo[Chan(x)] IN
    /\ Goto(x, "rxRead", "rxPush")
    /\ data' = [data EXCEPT ![x] = IF f = <<>> THEN StaleByte ELSE Head(f).id]
    /\ UNCHANGED <<queues, imr, hwImr, hw, at, reg, log>>

RxRead(x) ==
    LET f == fifo[Chan(x)] IN
    /\ Goto(x, "rxRead", "rxPush")
    /\ data' = [data EXCEPT ![x] = IF f = <<>> THEN StaleByte ELSE Head(f).id]
    /\ fifo' = [fifo EXCEPT ![Chan(x)] = IF f = <<>> THEN f ELSE Tail(f)]
    /\ UNCHANGED <<queues, imr, hwImr, on, busy, at, reg, log>>

(* A faulty variant: the byte is stored without a test for a full ring.    *)
RxPushUnchecked(x) ==
    /\ Goto(x, "rxPush", AfterChannel(x))
    /\ NextChannel(x)
    /\ rxbuf' = [rxbuf EXCEPT ![Chan(x)] = Append(@, data[x])]
    /\ data' = [data EXCEPT ![x] = 0]
    /\ UNCHANGED <<txbuf, imr, hwImr, hw, reg, log>>

(* ringbuf8_push's result is ignored: a full ring drops the byte.          *)
RxPush(x) ==
    LET ch == Chan(x) IN
    /\ Goto(x, "rxPush", AfterChannel(x))
    /\ NextChannel(x)
    /\ rxbuf' = IF Len(rxbuf[ch]) < Cap THEN [rxbuf EXCEPT ![ch] = Append(@, data[x])] ELSE rxbuf
    /\ data' = [data EXCEPT ![x] = 0]
    /\ UNCHANGED <<txbuf, imr, hwImr, hw, reg, log>>

Handler(x) ==
    \/ TxTest(x) \/ TxPop(x) \/ Clear(x) \/ TxStatus(x) \/ TxWrite(x)
    \/ RxTest(x) \/ RxStatus(x) \/ RxRead(x) \/ RxPush(x)

(* The CPU takes the interrupt; the handler's last step above stands for   *)
(* the acknowledgement and the rte of irq16_handler too.                   *)
Interrupt ==
    /\ pc["irq"] = "off"
    /\ Isr \intersect hwImr # {}
    /\ pc' = [pc EXCEPT !["irq"] = "txTest"]
    /\ UNCHANGED <<queues, imr, hwImr, hw, at, data, reg, log>>

-----------------------------------------------------------------------------
(* write_byte: unmask txrdy, push until it fits, run the handler.          *)

Write(i) ==
    /\ nTx < MaxTx
    /\ Goto("fg", "idle", "setLoad")
    /\ at' = [at EXCEPT !["fg"] = i]
    /\ nTx' = nTx + 1
    /\ UNCHANGED <<queues, imr, hwImr, hw, data, reg, line, read, nRx, nCfg>>

(* A faulty variant: txrdy is not unmasked.                                *)
SetNothing ==
    /\ Goto("fg", "setLoad", "setStore")
    /\ reg' = [reg EXCEPT !["fg"] = imr]
    /\ UNCHANGED <<queues, imr, hwImr, hw, at, data, log>>

SetLoad ==
    /\ Goto("fg", "setLoad", "setStore")
    /\ reg' = [reg EXCEPT !["fg"] = imr \union {<<"tx", Chan("fg")>>}]
    /\ UNCHANGED <<queues, imr, hwImr, hw, at, data, log>>

(* A faulty variant: write_byte leaves the transmission to the interrupt.  *)
WritePushOnly ==
    /\ Len(txbuf[Chan("fg")]) < Cap
    /\ Goto("fg", "push", "idle")
    /\ txbuf' = [txbuf EXCEPT ![Chan("fg")] = Append(@, nTx)]
    /\ at' = [at EXCEPT !["fg"] = 1]
    /\ UNCHANGED <<rxbuf, imr, hwImr, hw, data, reg, log>>

WritePush ==
    /\ Len(txbuf[Chan("fg")]) < Cap
    /\ Goto("fg", "push", "txTest")
    /\ txbuf' = [txbuf EXCEPT ![Chan("fg")] = Append(@, nTx)]
    /\ at' = [at EXCEPT !["fg"] = 1]
    /\ UNCHANGED <<rxbuf, imr, hwImr, hw, data, reg, log>>

SetTx ==
    \/ SetLoad
    \/ StoreImr("fg", "setStore", "setHw")
    \/ WriteHwImr("fg", "setHw", "push")

(* read_byte: pop until there is something.                                *)
Read(i) ==
    /\ Goto("fg", "idle", "pop")
    /\ at' = [at EXCEPT !["fg"] = i]
    /\ UNCHANGED <<queues, imr, hwImr, hw, data, reg, log>>

ReadPop ==
    LET ch == Chan("fg") IN
    /\ rxbuf[ch] # <<>>
    /\ Goto("fg", "pop", "idle")
    /\ read' = IF Head(rxbuf[ch]) \in 1..MaxRx
                THEN [read EXCEPT ![ch] = Append(@, Head(rxbuf[ch]))] ELSE read
    /\ rxbuf' = [rxbuf EXCEPT ![ch] = Tail(@)]
    /\ at' = [at EXCEPT !["fg"] = 1]
    /\ UNCHANGED <<txbuf, imr, hwImr, hw, data, reg, line, nTx, nRx, nCfg>>

FlushTx(ch) ==
    /\ pc["fg"] = "idle" /\ Running("fg")
    /\ txbuf' = [txbuf EXCEPT ![ch] = <<>>]
    /\ UNCHANGED <<rxbuf, imr, hwImr, hw, cpu, log>>

FlushRx(ch) ==
    /\ pc["fg"] = "idle" /\ Running("fg")
    /\ rxbuf' = [rxbuf EXCEPT ![ch] = <<>>]
    /\ UNCHANGED <<txbuf, imr, hwImr, hw, cpu, log>>

-----------------------------------------------------------------------------
(* set_param: reset the channel, then unmask rxrdy and enable it.  The     *)
(* check of bpc comes before everything and changes nothing.               *)

SetParam(i) ==
    /\ nCfg < MaxConfig
    /\ Goto("fg", "idle", "flushTx")
    /\ at' = [at EXCEPT !["fg"] = i]
    /\ nCfg' = nCfg + 1
    /\ UNCHANGED <<queues, imr, hwImr, hw, data, reg, line, read, nTx, nRx>>

ResetFlush ==
    LET ch == Chan("fg") IN
    /\ \/ /\ Goto("fg", "flushTx", "flushRx")
          /\ txbuf' = [txbuf EXCEPT ![ch] = <<>>] /\ UNCHANGED rxbuf
       \/ /\ Goto("fg", "flushRx", "disable")
          /\ rxbuf' = [rxbuf EXCEPT ![ch] = <<>>] /\ UNCHANGED txbuf
    /\ UNCHANGED <<imr, hwImr, hw, at, data, reg, log>>

(* The command register: disable both, reset rx, reset tx; the commands    *)
(* after these three leave nothing of this model changed.                  *)
ResetDevice ==
    LET ch == Chan("fg") IN
    /\ \/ /\ Goto("fg", "disable", "resetRx")
          /\ on' = on \ {ch} /\ UNCHANGED <<fifo, busy>>
       \/ /\ Goto("fg", "resetRx", "resetTx")
          /\ fifo' = [fifo EXCEPT ![ch] = <<>>] /\ UNCHANGED <<on, busy>>
       \/ /\ Goto("fg", "resetTx", "maskLoad")
          /\ busy' = [busy EXCEPT ![ch] = FALSE] /\ UNCHANGED <<on, fifo>>
    /\ UNCHANGED <<queues, imr, hwImr, at, data, reg, log>>

(* cha_reset's imr &= 0xF, chb_reset's imr &= 0xF0: each keeps the bits of *)
(* its own channel.                                                        *)
ResetMask ==
    \/ /\ Goto("fg", "maskLoad", "maskStore")
       /\ reg' = [reg EXCEPT !["fg"] = imr \intersect BitsOf(Chan("fg"))]
       /\ UNCHANGED <<queues, imr, hwImr, hw, at, data, log>>
    \/ StoreImr("fg", "maskStore", "check")

(* parity_mode and stop_bits are looked at only now; a bad one returns 1.  *)
BadParam ==
    /\ Goto("fg", "check", "idle")
    /\ at' = [at EXCEPT !["fg"] = 1]
    /\ reg' = [reg EXCEPT !["fg"] = {}]
    /\ UNCHANGED <<queues, imr, hwImr, hw, data, log>>

(* A faulty variant: rxrdy is not unmasked.                                *)
ListenToNothing ==
    /\ Goto("fg", "check", "listenStore")
    /\ reg' = [reg EXCEPT !["fg"] = imr \ BitsOf(Chan("fg"))]
    /\ UNCHANGED <<queues, imr, hwImr, hw, at, data, log>>

(* imr &= the other channel's bits; imr |= this channel's rxrdy.           *)
ListenLoad ==
    /\ Goto("fg", "check", "listenStore")
    /\ reg' = [reg EXCEPT !["fg"] = (imr \ BitsOf(Chan("fg"))) \union {<<"rx", Chan("fg")>>}]
    /\ UNCHANGED <<queues, imr, hwImr, hw, at, data, log>>

Listen ==
    \/ ListenLoad
    \/ StoreImr("fg", "listenStore", "listenHw")
    \/ WriteHwImr("fg", "listenHw", "enable")

Enable ==
    /\ Goto("fg", "enable", "idle")
    /\ on' = on \union {Chan("fg")}
    /\ at' = [at EXCEPT !["fg"] = 1]
    /\ UNCHANGED <<queues, imr, hwImr, busy, fifo, data, reg, log>>

-----------------------------------------------------------------------------
(* The device and the line.                                                *)

(* The holding register moves on to the shift register, as soon as the     *)
(* peer's CTS lets it.                                                     *)
TxDone(ch) ==
    /\ ch \in on /\ busy[ch]
    /\ busy' = [busy EXCEPT ![ch] = FALSE]
    /\ UNCHANGED <<queues, imr, hwImr, on, fifo, cpu, log>>

(* A character arrives; with the FIFO full it is lost (an overrun).        *)
Receive(ch, err) ==
    /\ ch \in on /\ nRx < MaxRx
    /\ nRx' = nRx + 1
    /\ fifo' = IF Len(fifo[ch]) < FifoSize
                THEN [fifo EXCEPT ![ch] = Append(@, [id |-> nRx + 1, err |-> err])]
                ELSE fifo
    /\ UNCHANGED <<queues, imr, hwImr, on, busy, cpu, line, read, nTx, nCfg>>

-----------------------------------------------------------------------------
Call == \/ \E i \in 1..Len(Chans) : Write(i) \/ Read(i) \/ SetParam(i)
        \/ \E ch \in Ch : FlushTx(ch) \/ FlushRx(ch)

(* What the foreground does once it is inside a call.                      *)
Foreground ==
    \/ SetTx \/ WritePush \/ Handler("fg")
    \/ ReadPop
    \/ ResetFlush \/ ResetDevice \/ ResetMask \/ BadParam \/ Listen \/ Enable

Next ==
    \/ Call \/ Foreground
    \/ Interrupt \/ Handler("irq")
    \/ \E ch \in Ch : TxDone(ch) \/ \E err \in LineErrors : Receive(ch, err)

Spec == Init /\ [][Next]_vars

(* The CPU executes on, and the device raises its request as long as it    *)
(* has a reason.  No caller has to do anything, nor has the peer, who by   *)
(* CTS (set_param_common enables it) decides when the transmitter sends.   *)
Fairness == WF_vars(Foreground) /\ WF_vars(Interrupt) /\ WF_vars(Handler("irq"))

FairSpec == Spec /\ Fairness

-----------------------------------------------------------------------------
BufferedTx(ch) == Range(txbuf[ch])
InOrder(s) ==
    \A i, j \in 1..Len(s) : i < j /\ ErrorByte \notin {s[i], s[j]} => s[i] < s[j]

(* Shape of the state: the two rings of device_mc68681, the imr copies and *)
(* the FIFO never hold more than they can.                                 *)
TypeOK ==
    /\ \A ch \in Ch : /\ Len(txbuf[ch]) <= Cap /\ BufferedTx(ch) \subseteq 1..MaxTx
                      /\ Len(rxbuf[ch]) <= Cap /\ Range(rxbuf[ch]) \subseteq 0..ErrorByte
                      /\ Len(fifo[ch]) <= FifoSize /\ Range(fifo[ch]) \subseteq Char
                      /\ Range(line[ch]) \subseteq 1..MaxTx
                      /\ Range(read[ch]) \subseteq 1..MaxRx
    /\ {imr, hwImr} \union Range(reg) \subseteq SUBSET Bits
    /\ on \subseteq Ch /\ busy \in [Ch -> BOOLEAN]
    /\ at \in [Context -> 1..Len(Chans)]
    /\ data \in [Context -> 0..ErrorByte \union 1..MaxTx]
    /\ nTx \in 0..MaxTx /\ nRx \in 0..MaxRx /\ nCfg \in 0..MaxConfig

(* When write_byte has returned and no handler runs, a byte left in the    *)
(* transmit ring has a transmitter interrupt coming for it: the unmasking, *)
(* the push, the handler's masking of an empty ring and the handler run in *)
(* the foreground never combine into a byte nobody will fetch.             *)
TxWakeup ==
    \A ch \in Ch : pc["fg"] = "idle" /\ pc["irq"] = "off" /\ txbuf[ch] # <<>>
                     => <<"tx", ch>> \in hwImr \intersect imr

(* No byte is put on the line twice, and none that is still queued or in a *)
(* handler's hands is on the line already, though two contexts run the     *)
(* handler's pop-then-transmit at once.                                    *)
TxOnce ==
    \A ch \in Ch :
        LET held == {data[x] : x \in {y \in Context : /\ pc[y] \in {"txStatus", "txWrite"}
                                                      /\ Chan(y) = ch}}
        IN /\ IsInjective(line[ch])
           /\ (BufferedTx(ch) \union held) \intersect Range(line[ch]) = {}

(* Until the first write_byte the handler runs in one context only, and    *)
(* then what read_byte returns, followed by what is still in the ring and  *)
(* in the FIFO, is in the order of arrival with nothing twice, whatever    *)
(* was lost to a full ring, an overrun, a flush or a reset.                *)
RxInOrder ==
    nTx = 0 =>
        \A ch \in Ch :
            LET held == IF pc["irq"] = "rxPush" /\ Chan("irq") = ch THEN <<data["irq"]>> ELSE <<>>
                waiting == [i \in 1..Len(fifo[ch]) |-> fifo[ch][i].id]
            IN InOrder((read[ch] \o rxbuf[ch]) \o (held \o waiting))

(* An enabled channel has its receiver interrupt unmasked (the comment     *)
(* "irq when rxrdy" in set_param_common).                                  *)
RxListens == \A ch \in on : <<"rx", ch>> \in hwImr

(* A byte queued on an enabled channel leaves the queue, or the channel is *)
(* reset: no schedule of the foreground and the interrupt leaves the       *)
(* transmitter idle with work to do, provided that the peer's CTS does not *)
(* hold the transmitter back for ever.                                     *)
TxDrains ==
    \A ch \in Ch : WF_vars(TxDone(ch)) =>
        \A b \in 1..MaxTx :
            b \in BufferedTx(ch) /\ ch \in on ~> b \notin BufferedTx(ch) \/ ch \notin on
=============================================================================
