--------------------------- MODULE Ps2Controller ----------------------------
(***************************************************************************)
(* The i8042 keyboard and mouse controller (src/hw/ps2kbms.c): the         *)
(* start-up of both ports as add_device runs it, with the CPU's interrupts *)
(* on, the handler behind IRQ 1 and IRQ 12, and the two calls that take    *)
(* what the handler stored.  What is done with the key codes afterwards is *)
(* in Keyboard, the ring in RingBuf.                                       *)
(*                                                                         *)
(* A read of the data register, a command of the controller and a byte for *)
(* a device are single steps, and the interrupt comes between any two of   *)
(* them.  The controller asks for it as long as its output buffer holds a  *)
(* byte of a port whose interrupt is on.  A wait that polls either finds   *)
(* what it waits for or times out, whenever the buffer is empty.  The      *)
(* devices and the controller are modelled by what the driver relies on.   *)
(***************************************************************************)
EXTENDS Integers, Sequences, SequencesExt

CONSTANTS Retries,   (* attempts to reset a device: 100 in the code        *)
          BufSize,   (* I8042_BUFSIZE: bytes i8042_flush takes away        *)
          KbCap,     (* key codes kbbuf holds                              *)
          MaxKeys,   (* bound: keys typed                                  *)
          MaxMoves,  (* bound: movements of the mouse                      *)
          MaxFaults  (* bound: bytes the controller does not take, or a    *)
                     (* device answers with NAK                            *)

ASSUME Ps2Assumption ==
    /\ {Retries, BufSize, KbCap} \subseteq Nat \ {0}
    /\ {MaxKeys, MaxMoves, MaxFaults} \subseteq Nat

VARIABLES ctr, hw,      (* dparam->i8042_ctr and the control byte in force *)
          obf,          (* the output buffer: <<source, byte>> or Empty    *)
          dev,          (* what each device does and has yet to send       *)
          answers,      (* answers the controller has yet to give          *)
          fg,           (* the foreground: where it stands, the port it    *)
                        (* serves, the command of the port's reset it is   *)
                        (* in, tries made, bytes counted, param[0], ret    *)
          avail, res,   (* DF_AVAILABLE; what each reset returned          *)
          handler,      (* TRUE while ps2kbms_irq_handler runs             *)
          kbbuf,        (* the key codes stored                            *)
          temp, pkt,    (* ms_pkt_temp[0 .. ms_pkt_idx - 1], and ms_pkt    *)
          reported,     (* the packets get_status gave its callers         *)
          nKeys, nMoves, nFaults,
          misled        (* ports whose reset goes on though its last       *)
                        (* attempt failed, param[0] being that of an       *)
                        (* earlier one or uninitialised                    *)

devices == <<dev, answers>>
store   == <<kbbuf, temp, pkt, reported>>
bounds  == <<nKeys, nMoves, nFaults, misled>>
vars    == <<ctr, hw, obf, devices, fg, avail, res, handler, store, bounds>>

Ports == {"kbd", "aux"}
Other(p) == IF p = "kbd" THEN "aux" ELSE "kbd"
INT(p) == <<"int", p>>
DIS(p) == <<"dis", p>>
Bits == {"int", "dis"} \X Ports

Empty == <<>>
(* I8042_STR_AUXDATA tells the mouse's bytes from all others.              *)
PortOf(b) == IF b[1] = "aux" THEN "aux" ELSE "kbd"

(* Bytes: answers of a device and of the controller, codes of keys, and    *)
(* <<"move", number, part, bit 3>>, a movement's three bytes.              *)
Answers == {"ack", "nak", "bat", "id", "good", "bad", "tested"}
Motion == {"move"} \X (1..MaxMoves) \X (1..3) \X BOOLEAN
Byte == {<<a>> : a \in Answers} \union ({"key"} \X (1..MaxKeys)) \union Motion
Bit3(b) == IF b[1] = "move" THEN b[4] ELSE b[1] \in {"ack", "nak", "bat"}
Is(b, kind) == b # Empty /\ b[2][1] = kind

(* The commands of ps2kb_reset and ps2ms_reset, in order, and how many     *)
(* bytes of answer follow the acknowledgement.                             *)
Script == [kbd |-> <<"reset", "disable", "scanset", "enable">>,
           aux |-> <<"reset", "disable", "setscale", "enable">>]
Command == Script[fg.port][fg.step]
Recv == IF Command # "reset" THEN 0 ELSE IF fg.port = "kbd" THEN 1 ELSE 2

Serving(p, l) == [pc |-> l, port |-> p, step |-> 1, tries |-> 0, n |-> 0,
                  param |-> "unset", ret |-> "ok"]

Init ==
    /\ ctr = {} /\ hw = {}
    /\ obf = Empty /\ answers = <<>>
    /\ \E here \in SUBSET Ports :
         dev = [p \in Ports |-> [here |-> p \in here, on |-> p = "kbd", set |-> FALSE,
                                arg |-> FALSE, out |-> <<>>]]
    /\ fg = Serving("kbd", "disKbd")
    /\ avail = {} /\ res = [p \in Ports |-> "none"]
    /\ handler = FALSE
    /\ kbbuf = <<>> /\ temp = <<>> /\ pkt = <<>> /\ reported = <<>>
    /\ nKeys = 0 /\ nMoves = 0 /\ nFaults = 0 /\ misled = {}

-----------------------------------------------------------------------------
(* The controller and the devices.                                         *)

(* A byte enters the output buffer when it is free and its port is open.   *)
Deliver(p) ==
    /\ obf = Empty
    /\ DIS(p) \notin hw
    /\ dev[p].out # <<>>
    /\ obf' = <<p, Head(dev[p].out)>>
    /\ dev' = [dev EXCEPT ![p].out = Tail(@)]
    /\ UNCHANGED <<ctr, hw, answers, fg, avail, res, handler, store, bounds>>

DeliverAnswer ==
    /\ obf = Empty
    /\ answers # <<>>
    /\ obf' = <<"ctl", Head(answers)>>
    /\ answers' = Tail(answers)
    /\ UNCHANGED <<ctr, hw, dev, fg, avail, res, handler, store, bounds>>

Type ==
    /\ nKeys < MaxKeys
    /\ dev["kbd"].here /\ dev["kbd"].on
    /\ nKeys' = nKeys + 1
    /\ dev' = [dev EXCEPT !["kbd"].out = Append(@, <<"key", nKeys + 1>>)]
    /\ UNCHANGED <<ctr, hw, obf, answers, fg, avail, res, handler, store,
                   nMoves, nFaults, misled>>

Move ==
    /\ nMoves < MaxMoves
    /\ dev["aux"].here /\ dev["aux"].on
    /\ nMoves' = nMoves + 1
    /\ \E b \in BOOLEAN :
         dev' = [dev EXCEPT !["aux"].out = @ \o
                  [i \in 1..3 |-> <<"move", nMoves + 1, i, i = 1 \/ b>>]]
    /\ UNCHANGED <<ctr, hw, obf, answers, fg, avail, res, handler, store,
                   nKeys, nFaults, misled>>

(* A device that gets a byte drops what it had to say; it acknowledges the *)
(* byte and does what it asks, or refuses it.                              *)
Acked(d, more) == [d EXCEPT !.arg = FALSE, !.out = <<<<"ack">>>> \o more]
Refused(d) == [d EXCEPT !.arg = FALSE, !.out = <<<<"nak">>>>]
Reaction(d, p, byte) ==
    CASE byte = "reset"    -> [Acked(d, IF p = "kbd" THEN <<<<"bat">>>> ELSE <<<<"bat">>, <<"id">>>>)
                                  EXCEPT !.on = (p = "kbd"), !.set = FALSE]
      [] byte = "disable"  -> [Acked(d, <<>>) EXCEPT !.on = FALSE]
      [] byte = "enable"   -> [Acked(d, <<>>) EXCEPT !.on = TRUE]
      [] byte = "setscale" -> [Acked(d, <<>>) EXCEPT !.set = TRUE]
      [] byte = "scanset"  -> [Acked(d, <<>>) EXCEPT !.arg = TRUE]
      [] byte = "one"      -> IF d.arg THEN [Acked(d, <<>>) EXCEPT !.set = TRUE] ELSE Refused(d)

SendTo(p, byte) ==
    \/ /\ dev' = [dev EXCEPT ![p] = IF @.here THEN Reaction(@, p, byte) ELSE @]
       /\ UNCHANGED nFaults
    \/ /\ dev[p].here /\ nFaults < MaxFaults
       /\ dev' = [dev EXCEPT ![p] = Refused(@)]
       /\ nFaults' = nFaults + 1

-----------------------------------------------------------------------------
(* The foreground.  It runs only when the handler does not.                *)

At(l) == ~handler /\ fg.pc = l
Goto(l) == fg' = [fg EXCEPT !.pc = l]

(* What add_device does when probe or reset returns: the next device, or   *)
(* the end of the start-up.                                                *)
NextDevice == fg' = IF fg.port = "kbd" THEN Serving("aux", "test") ELSE Serving("aux", "idle")
ProbeFails == NextDevice /\ UNCHANGED <<avail, res>>
ResetReturns(r) ==
    /\ NextDevice
    /\ res' = [res EXCEPT ![fg.port] = r]
    /\ UNCHANGED avail

(* i8042_wait_write: the controller takes a byte once it has given its     *)
(* answer to the one before, and does not say that it is busy.  The wait   *)
(* may time out while it still has to answer, or the controller hangs.     *)
Ready(l) == At(l) /\ answers = <<>>
Write(l) == Ready(l) /\ UNCHANGED nFaults
Stuck(l) ==
    /\ At(l)
    /\ IF answers = <<>> THEN nFaults < MaxFaults /\ nFaults' = nFaults + 1
                         ELSE UNCHANGED nFaults

(* i8042_reset; ps2kb_probe ignores its result.                            *)
DisableKbd ==
    /\ ctr' = {DIS("kbd"), DIS("aux")}
    /\ \/ /\ Write("disKbd") /\ Goto("disAux")
          /\ hw' = hw \union {DIS("kbd")}
       \/ Stuck("disKbd") /\ Goto("test") /\ UNCHANGED hw
    /\ UNCHANGED <<obf, devices, avail, res, handler, store, nKeys, nMoves, misled>>

DisableAux ==
    /\ \/ /\ Write("disAux") /\ Goto("flush0")
          /\ hw' = hw \union {DIS("aux")}
       \/ Stuck("disAux") /\ Goto("test") /\ UNCHANGED hw
    /\ UNCHANGED <<ctr, obf, devices, avail, res, handler, store, nKeys, nMoves, misled>>

SelfTest ==
    /\ \/ /\ Write("selfTest") /\ Goto("selfAnswer")
          /\ answers' = Append(answers, <<"tested">>)
       \/ Stuck("selfTest") /\ Goto("test") /\ UNCHANGED answers
    /\ UNCHANGED <<ctr, hw, obf, dev, avail, res, handler, store, nKeys, nMoves, misled>>

SelfAnswer ==
    /\ At("selfAnswer") /\ Goto("test")
    /\ obf' = Empty
    /\ UNCHANGED <<ctr, hw, devices, avail, res, handler, store, bounds>>

(* i8042_flush: the status register, then the data register; the interrupt *)
(* handler may take the byte in between.                                   *)
FlushStatus ==
    /\ \/ At("flush0") /\ obf # Empty /\ Goto("flushRead0")
       \/ At("flush0") /\ obf = Empty /\ fg' = [fg EXCEPT !.pc = "selfTest", !.n = 0]
       \/ At("flush") /\ Goto(IF obf = Empty THEN "mask" ELSE "flushRead")
    /\ UNCHANGED <<ctr, hw, obf, devices, avail, res, handler, store, bounds>>

FlushRead ==
    LET last == fg.n + 1 = BufSize
        next(l) == fg' = [fg EXCEPT !.pc = l, !.n = IF l = "test" THEN 0 ELSE @ + 1]
    IN /\ \/ At("flushRead0") /\ next(IF last THEN "test" ELSE "flush0") /\ UNCHANGED <<avail, res>>
          \/ At("flushRead") /\ ~last /\ next("flush") /\ UNCHANGED <<avail, res>>
          \/ At("flushRead") /\ last /\ ResetReturns("failed")
       /\ obf' = Empty
       /\ UNCHANGED <<ctr, hw, devices, handler, store, bounds>>

(* ps2kb_probe: the port's self-test, whose answer may be any byte that    *)
(* turns up first, then the first enabling of the port.                    *)
TestKbd ==
    /\ fg.port = "kbd"
    /\ \/ /\ Write("test") /\ Goto("answer")
          /\ \E a \in {"good", "bad"} : answers' = Append(answers, <<a>>)
          /\ UNCHANGED <<avail, res>>
       \/ Stuck("test") /\ ProbeFails /\ UNCHANGED answers
    /\ UNCHANGED <<ctr, hw, obf, dev, handler, store, nKeys, nMoves, misled>>

KbdAnswer ==
    /\ At("answer")
    /\ IF Is(obf, "good") THEN Goto("enable") /\ UNCHANGED <<avail, res>>
                                          ELSE ProbeFails
    /\ obf' = Empty
    /\ UNCHANGED <<ctr, hw, devices, handler, store, bounds>>

(* I8042_CMD_KBD_ENABLE at the end of the probe, which makes the device    *)
(* available, and once more at the beginning of the reset.                 *)
EnableKbd ==
    /\ \/ /\ Write("enable") /\ Goto("enable2")
          /\ hw' = hw \ {DIS("kbd")} /\ avail' = avail \union {"kbd"}
          /\ UNCHANGED res
       \/ Stuck("enable") /\ ProbeFails /\ UNCHANGED hw
       \/ /\ Write("enable2") /\ Goto("flush")
          /\ hw' = hw \ {DIS("kbd")} /\ UNCHANGED <<avail, res>>
       \/ Stuck("enable2") /\ ResetReturns("failed") /\ UNCHANGED hw
    /\ UNCHANGED <<ctr, obf, devices, handler, store, nKeys, nMoves, misled>>

(* ps2ms_probe: I8042_CMD_AUX_TEST is declared without an answer, so the   *)
(* answer stays in the controller and param[0], which decides, is          *)
(* uninitialised.  A successful probe leads to the reset, which clears     *)
(* ms_pkt_idx.                                                             *)
TestAux ==
    /\ fg.port = "aux"
    /\ \/ /\ Write("test")
          /\ answers' = Append(answers, <<"tested">>)
          /\ \/ ProbeFails /\ UNCHANGED temp
             \/ /\ Goto("flush") /\ avail' = avail \union {"aux"} /\ UNCHANGED res
                /\ temp' = <<>>
       \/ Stuck("test") /\ ProbeFails /\ UNCHANGED <<answers, temp>>
    /\ UNCHANGED <<ctr, hw, obf, dev, handler, kbbuf, pkt, reported, nKeys, nMoves, misled>>

-----------------------------------------------------------------------------
(* ps2_command, from the first write of the control byte to the last.      *)

(* A faulty variant: the mask of both interrupts.                          *)
UnmaskBoth ==
    /\ At("mask") /\ Goto("open")
    /\ ctr' = IF Command = "enable"
                THEN (ctr \union {INT(p) : p \in Ports}) \ {DIS(fg.port)} ELSE ctr
    /\ UNCHANGED <<hw, obf, devices, avail, res, handler, store, bounds>>

(* Before the last command the reset enters the port into i8042_ctr.       *)
Unmask ==
    /\ At("mask") /\ Goto("open")
    /\ ctr' = IF Command = "enable"
                THEN (ctr \union {INT(fg.port)}) \ {DIS(fg.port)} ELSE ctr
    /\ UNCHANGED <<hw, obf, devices, avail, res, handler, store, bounds>>

Closed(r) == fg' = [fg EXCEPT !.pc = "close", !.ret = r]

(* A faulty variant: the interrupts stay on.                               *)
QuietLoud(c, p) == (c \union {DIS(Other(p))}) \ {DIS(p)}

(* Interrupts off, the other port closed, this one open.                   *)
Quiet(c, p) == ((c \ {INT(q) : q \in Ports}) \union {DIS(Other(p))}) \ {DIS(p)}

Open ==
    /\ \/ /\ Write("open")
          /\ fg' = [fg EXCEPT !.pc = "send", !.n = 0]
          /\ hw' = Quiet(ctr, fg.port)
       \/ Stuck("open") /\ Closed("failed") /\ UNCHANGED hw
    /\ UNCHANGED <<ctr, obf, devices, avail, res, handler, store, nKeys, nMoves, misled>>

Send ==
    /\ \/ Ready("send") /\ Goto("ack") /\ SendTo(fg.port, Command)
       \/ Ready("arg") /\ Goto("argAck") /\ SendTo(fg.port, "one")
       \/ (Stuck("send") \/ Stuck("arg")) /\ Closed("failed") /\ UNCHANGED dev
    /\ UNCHANGED <<ctr, hw, obf, answers, avail, res, handler, store, nKeys, nMoves, misled>>

(* ps2_recvbyte: a byte of the other port is taken and forgotten.          *)
Waiting == {"ack", "argAck", "recv"}
Mine == obf # Empty /\ PortOf(obf) = fg.port

Discard ==
    /\ \E l \in Waiting : At(l)
    /\ obf # Empty /\ ~Mine
    /\ obf' = Empty
    /\ UNCHANGED <<ctr, hw, devices, fg, avail, res, handler, store, bounds>>

(* A faulty variant: polling without a count.                              *)
TimeOutNever == FALSE

TimeOut ==
    /\ \E l \in Waiting : At(l)
    /\ obf = Empty
    /\ Closed("failed")
    /\ UNCHANGED <<ctr, hw, obf, devices, avail, res, handler, store, bounds>>

(* A faulty variant: any byte is an acknowledgement.                       *)
AcknowledgedByAny ==
    /\ \E l \in {"ack", "argAck"} : At(l)
    /\ Mine
    /\ CASE Command = "scanset" /\ fg.pc = "ack" -> Goto("arg")
         [] Command = "reset" -> Goto("recv")
         [] OTHER -> Closed("ok")
    /\ obf' = Empty
    /\ UNCHANGED <<ctr, hw, devices, avail, res, handler, store, bounds>>

(* What follows an acknowledgement: the parameter, the answer or the end.  *)
Acknowledged ==
    /\ \E l \in {"ack", "argAck"} : At(l)
    /\ Mine
    /\ CASE ~Is(obf, "ack") -> Closed("failed")
         [] Is(obf, "ack") /\ Command = "scanset" /\ fg.pc = "ack" -> Goto("arg")
         [] Is(obf, "ack") /\ Command = "reset" -> Goto("recv")
         [] OTHER -> Closed("ok")
    /\ obf' = Empty
    /\ UNCHANGED <<ctr, hw, devices, avail, res, handler, store, bounds>>

Received ==
    /\ At("recv")
    /\ Mine
    /\ fg' = [fg EXCEPT !.n = @ + 1,
                        !.param = IF fg.n = 0 THEN obf[2][1] ELSE @,
                        !.pc = IF fg.n + 1 = Recv THEN "close" ELSE "recv",
                        !.ret = IF fg.n + 1 = Recv THEN "ok" ELSE @]
    /\ obf' = Empty
    /\ UNCHANGED <<ctr, hw, devices, avail, res, handler, store, bounds>>

(* fail: the control byte in i8042_ctr is restored, whatever happened; the *)
(* command has failed too if that cannot be done.                          *)
Restore ==
    /\ \/ Write("close") /\ Goto("judge") /\ hw' = ctr
       \/ /\ Stuck("close")
          /\ fg' = [fg EXCEPT !.pc = "judge", !.ret = "failed"]
          /\ UNCHANGED hw
    /\ UNCHANGED <<ctr, obf, devices, avail, res, handler, store, nKeys, nMoves, misled>>

(* What the reset does with the result: the first command is tried again,  *)
(* and when it is given up param[0] decides, uninitialised if no attempt   *)
(* got as far as storing it.                                               *)
Judge ==
    LET next == fg' = [Serving(fg.port, "mask") EXCEPT !.step = fg.step + 1] IN
    /\ At("judge")
    /\ \/ /\ fg.step = 1 /\ fg.ret # "ok" /\ fg.tries + 1 < Retries
          /\ fg' = [fg EXCEPT !.pc = "open", !.ret = "ok", !.tries = @ + 1]
          /\ UNCHANGED <<avail, res, misled>>
       \/ /\ fg.step = 1 /\ (fg.ret = "ok" \/ fg.tries + 1 = Retries)
          /\ \/ /\ fg.param \in {"bat", "unset"} /\ next
                /\ misled' = IF fg.ret = "ok" THEN misled ELSE misled \union {fg.port}
                /\ UNCHANGED <<avail, res>>
             \/ fg.param # "bat" /\ ResetReturns("failed") /\ UNCHANGED misled
       \/ /\ fg.step \in {2, 3} /\ fg.ret = "ok"
          /\ next /\ UNCHANGED <<avail, res, misled>>
       \/ /\ fg.step > 1 /\ (fg.step = 4 \/ fg.ret # "ok")
          /\ ResetReturns(fg.ret) /\ UNCHANGED misled
    /\ UNCHANGED <<ctr, hw, obf, devices, handler, store, nKeys, nMoves, nFaults>>

-----------------------------------------------------------------------------
(* The interrupt handler.  With both ports shut in i8042_ctr it returns at *)
(* once, which changes nothing and is left out.                            *)

(* A faulty variant: the two bits tested with & and not compared.          *)
InterruptBothOpen ==
    /\ ~handler
    /\ obf # Empty /\ INT(PortOf(obf)) \in hw
    /\ DIS("kbd") \notin ctr /\ DIS("aux") \notin ctr
    /\ handler' = TRUE
    /\ UNCHANGED <<ctr, hw, obf, devices, fg, avail, res, store, bounds>>

Interrupt ==
    /\ ~handler
    /\ obf # Empty /\ INT(PortOf(obf)) \in hw
    /\ ~({DIS("kbd"), DIS("aux")} \subseteq ctr)
    /\ handler' = TRUE
    /\ UNCHANGED <<ctr, hw, obf, devices, fg, avail, res, store, bounds>>

HandlerEnds ==
    /\ handler /\ obf = Empty
    /\ handler' = FALSE
    /\ UNCHANGED <<ctr, hw, obf, devices, fg, avail, res, store, bounds>>

(* One turn of the loop.  A byte of a port that is shut is not read, and   *)
(* the loop goes round with nothing changed.                               *)
HandlerTakes(p) ==
    /\ handler
    /\ obf # Empty /\ PortOf(obf) = p
    /\ DIS(p) \notin ctr
    /\ obf' = Empty
    /\ UNCHANGED <<ctr, hw, devices, fg, avail, res, handler, reported, bounds>>

(* ringbuf8_push's result is ignored: a full ring drops the code.          *)
HandlerKey ==
    /\ HandlerTakes("kbd")
    /\ kbbuf' = IF Len(kbbuf) < KbCap THEN Append(kbbuf, obf[2]) ELSE kbbuf
    /\ UNCHANGED <<temp, pkt>>

(* A faulty variant: the fourth byte ends the packet.                      *)
HandlerMouseLate ==
    LET packet == IF temp # <<>> \/ Bit3(obf[2]) THEN Append(temp, obf[2]) ELSE temp IN
    /\ HandlerTakes("aux")
    /\ temp' = IF Len(packet) = 4 THEN <<>> ELSE packet
    /\ pkt' = IF Len(packet) = 4 THEN SubSeq(packet, 2, 4) ELSE pkt
    /\ UNCHANGED kbbuf

(* A packet begins at a byte with bit 3 and ends two bytes later; then it  *)
(* is copied under ms_pkt_lock.                                            *)
HandlerMouse ==
    LET packet == IF temp # <<>> \/ Bit3(obf[2]) THEN Append(temp, obf[2]) ELSE temp IN
    /\ HandlerTakes("aux")
    /\ temp' = IF Len(packet) = 3 THEN <<>> ELSE packet
    /\ pkt' = IF Len(packet) = 3 THEN packet ELSE pkt
    /\ UNCHANGED kbbuf

-----------------------------------------------------------------------------
(* ps2ms_get_status, under the lock: a packet is handed out once.          *)
GetStatus ==
    /\ At("idle")
    /\ pkt # <<>> /\ Bit3(pkt[1])
    /\ reported' = Append(reported, pkt)
    /\ pkt' = <<>>
    /\ UNCHANGED <<ctr, hw, obf, devices, fg, avail, res, handler, kbbuf, temp, bounds>>

StartUp ==
    \/ DisableKbd \/ DisableAux \/ SelfTest \/ SelfAnswer \/ FlushStatus \/ FlushRead
    \/ TestKbd \/ KbdAnswer \/ EnableKbd \/ TestAux
    \/ Unmask \/ Open \/ Send \/ Discard \/ TimeOut \/ Acknowledged \/ Received
    \/ Restore \/ Judge

Handler == HandlerEnds \/ HandlerKey \/ HandlerMouse

Hardware == DeliverAnswer \/ \E p \in Ports : Deliver(p)

Next == StartUp \/ Interrupt \/ Handler \/ GetStatus \/ Hardware \/ Type \/ Move

Spec == Init /\ [][Next]_vars

(* The CPU goes on, takes the interrupts that are asked for, and the       *)
(* controller passes on what the ports send when it can.  A time-out needs *)
(* no fairness of its own: the polling loops are counted.                  *)
Fairness == WF_vars(StartUp) /\ WF_vars(Interrupt) /\ WF_vars(Handler) /\ WF_vars(Hardware)

FairSpec == Spec /\ Fairness

-----------------------------------------------------------------------------
(* Shape of the state.                                                     *)
TypeOK ==
    /\ ctr \subseteq Bits /\ hw \subseteq Bits
    /\ obf = Empty \/ obf \in (Ports \union {"ctl"}) \X Byte
    /\ fg.step \in 1..4 /\ fg.tries \in 0..Retries - 1 /\ fg.n \in 0..BufSize + 2
    /\ Len(temp) <= 2 /\ Len(pkt) \in {0, 3}
    /\ res \in [Ports -> {"none", "ok", "failed"}] /\ avail \subseteq Ports
    /\ \A p \in Ports : res[p] # "none" => p \in avail

(* While a command talks to a device the handler does not run, so it never *)
(* takes an answer away from the foreground ("disable interrupt while      *)
(* sending command", ps2_command), though the CPU's interrupts are on.     *)
CommandsUndisturbed ==
    fg.pc \in {"send", "arg"} \union Waiting => ~handler

(* A reset that returned 0 left the device enabled and, for the keyboard,  *)
(* in scan set 1, with the port open and its interrupt on in i8042_ctr:    *)
(* no late answer to an attempt that timed out, byte of the other port,    *)
(* refusal or key pressed during the start-up is taken for the             *)
(* acknowledgement of a command the device never carried out.  Excepted is *)
(* a reset that went on though its attempts had failed, because of what    *)
(* param[0] held of an earlier one or by chance (misled): nothing is       *)
(* promised of it.                                                         *)
SuccessMeansReady ==
    \A p \in Ports :
        res[p] = "ok" /\ p \notin misled
            => /\ dev[p].here /\ dev[p].on /\ dev[p].set
               /\ INT(p) \in ctr /\ DIS(p) \notin ctr

(* If the mouse's reset succeeded, a packet get_status reports is one      *)
(* movement of the mouse, whole and in order, and later than those before: *)
(* the handler's packets never start in the middle of one.                 *)
IsMovement(s) == Len(s) = 3 /\ \A i \in 1..3 : s[i] \in Motion /\ s[i][3] = i /\ s[i][2] = s[1][2]
PacketsWhole ==
    res["aux"] = "ok" /\ "aux" \notin misled =>
        \A i \in 1..Len(reported) :
            /\ IsMovement(reported[i])
            /\ \A j \in 1..i - 1 : reported[j][1][2] < reported[i][1][2]

(* ps2kbms_irq_handler returns: its loop leaves a byte of a shut port      *)
(* where it is and goes round again, for ever, with the CPU's interrupts   *)
(* of that level off, so it must never meet one, whichever port failed to  *)
(* start and whatever the controller still had to answer then.             *)
HandlerReturns == handler /\ obf # Empty => DIS(PortOf(obf)) \notin ctr

(* The start-up ends, whatever the devices and the controller do not       *)
(* answer: every wait in it is counted.                                    *)
StartUpEnds == <>(fg.pc = "idle")

(* With the start-up over and the keyboard's reset successful, a key that  *)
(* is pressed gets into kbbuf, if there is room.  Two things only can      *)
(* prevent it, both left behind by the mouse's reset: a control byte that  *)
(* was not restored, and a byte the mouse sent just as the reset gave it   *)
(* up, which nobody reads.                                                 *)
Deaf == hw # ctr \/ (obf # Empty /\ PortOf(obf) = "aux" /\ DIS("aux") \in ctr)
KeysArrive ==
    \A k \in 1..MaxKeys :
        fg.pc = "idle" /\ res["kbd"] = "ok" /\ <<"key", k>> \in Range(dev["kbd"].out)
            ~> Deaf \/ Len(kbbuf) = KbCap \/ <<"key", k>> \in Range(kbbuf)
=============================================================================
