------------------------ MODULE Ps2ControllerProofs -------------------------
(***************************************************************************)
(* Proofs about Ps2Controller, for any number of retries, any size of the  *)
(* buffer and any number of keys, movements and faults.                    *)
(***************************************************************************)
EXTENDS Ps2Controller, SequenceTheorems, TLAPS

-----------------------------------------------------------------------------
(* The inductive invariant.                                                *)

ResetAt == {"disKbd", "disAux", "flush0", "flushRead0", "selfTest", "selfAnswer"}
ProbeAt == ResetAt \union {"test", "answer", "enable", "enable2", "flush", "flushRead"}
CommandAt == {"send", "arg", "ack", "argAck", "recv"}
Place == ProbeAt \union CommandAt \union {"mask", "open", "close", "judge", "idle"}
Result == {"ok", "failed"}

(* What the controller says, and what a device says.                       *)
CtlByte == {<<"good">>, <<"bad">>, <<"tested">>}
Kind == {"ack", "nak", "bat", "id", "good", "bad", "tested", "key", "move"}
Device == [here : BOOLEAN, on : BOOLEAN, set : BOOLEAN, arg : BOOLEAN, out : Seq(Byte)]

TypesBus ==
    /\ ctr \in SUBSET Bits /\ hw \in SUBSET Bits
    /\ obf = Empty \/ obf \in (Ports \union {"ctl"}) \X Byte
    /\ obf # Empty /\ obf[1] = "ctl" => obf[2] \in CtlByte
    /\ dev \in [Ports -> Device] /\ answers \in Seq(CtlByte)
    /\ nKeys \in 0..MaxKeys /\ nMoves \in 0..MaxMoves /\ nFaults \in 0..MaxFaults
Foreground == [pc : Place, port : Ports, step : 1..4, tries : 0..Retries - 1,
               n : 0..BufSize + 2, param : {"unset"} \union Kind, ret : Result]
TypesFg ==
    /\ fg \in Foreground
    /\ res \in [Ports -> {"none"} \union Result] /\ avail \in SUBSET Ports
    /\ misled \in SUBSET Ports
TypesStore ==
    /\ handler \in BOOLEAN
    /\ temp \in Seq(Byte) /\ Len(temp) <= 2
    /\ pkt \in Seq(Byte) /\ Len(pkt) \in {0, 3}
    /\ reported \in Seq(Seq(Byte))
Types == TypesBus /\ TypesFg /\ TypesStore

(* Where each port's start-up stands.                                      *)
Past(p) == fg.port = "aux" /\ (p = "kbd" \/ fg.pc = "idle")
Opened(p) == Past(p) \/ (fg.port = p /\ fg.step = 4 /\ fg.pc # "mask")
Started(p) == Past(p) \/ (fg.port = p /\ fg.step = 4 /\ fg.pc = "judge")

Control ==
    /\ fg.pc \in ResetAt \union {"answer", "enable", "enable2"} => fg.port = "kbd"
    /\ fg.pc \in ProbeAt => fg.step = 1
    /\ fg.pc = "idle" => fg.port = "aux"
    /\ fg.pc \in {"arg", "argAck"} => fg.port = "kbd" /\ fg.step = 3
    /\ fg.pc = "recv" => fg.step = 1 /\ fg.n < Recv
    /\ fg.pc \in ProbeAt \ {"flush0", "flushRead0", "flush", "flushRead"} => fg.n = 0
    /\ fg.pc \in {"send", "arg", "ack", "argAck"} => fg.n = 0
    /\ fg.pc \in {"flush0", "flushRead0", "flush", "flushRead"} => fg.n < BufSize
    /\ fg.pc \notin (ProbeAt \ {"enable2", "flush", "flushRead"}) \union {"idle"} => fg.port \in avail
    /\ \A p \in Ports : res[p] # "none" => p \in avail /\ Past(p)

(* The control byte in i8042_ctr, and the one in force.                    *)
Loud == \E q \in Ports : INT(q) \in hw
Masks ==
    /\ fg.pc = "disKbd" => hw = {}
    /\ fg.pc # "disKbd" => \A p \in Ports : INT(p) \in ctr <=> DIS(p) \notin ctr
    /\ \A p \in Ports : INT(p) \in ctr => Opened(p)
    /\ \A p \in Ports : fg.port = p /\ fg.step = 4 /\ fg.pc # "mask" => INT(p) \in ctr
    /\ \A p \in Ports : INT(p) \in hw => INT(p) \in ctr /\ Started(p)
    /\ Loud => /\ \A p \in Ports : DIS(p) \in ctr \/ ~Started(p) => DIS(p) \in hw
               /\ DIS("kbd") \in ctr => answers = <<>>
    /\ fg.pc \in CommandAt => ~Loud
    /\ handler => Loud
    /\ handler /\ obf # Empty => INT(PortOf(obf)) \in ctr /\ Started(PortOf(obf))

(* What port p has yet to say: the byte in the buffer, then the device's.  *)
Said(p) == IF obf # Empty /\ obf[1] = p THEN <<obf[2]>> ELSE <<>>
Stream(p) == Said(p) \o dev[p].out
Begins(f, kind) == f # <<>> /\ f[1][1] = kind
AckFree(f) == \A i \in 1..Len(f) : f[i][1] # "ack"

(* Whole movements of the mouse, one after the other.                      *)
Whole(u) ==
    /\ \A i \in 1..Len(u) : u[i] \in Motion /\ u[i][2] <= nMoves /\ (u[i][3] = 1 => u[i][4])
    /\ u # <<>> => u[1][3] = 1 /\ u[Len(u)][3] = 3
    /\ \A i \in 1..Len(u) : i < Len(u) =>
         IF u[i][3] < 3 THEN u[i + 1][2] = u[i][2] /\ u[i + 1][3] = u[i][3] + 1
                        ELSE u[i + 1][2] > u[i][2] /\ u[i + 1][3] = 1

(* Nothing is left of the answers, or only what the device says unasked.   *)
Over(p, f) == IF p = "kbd" THEN AckFree(f)
              ELSE IF fg.step = 4 /\ fg.pc \notin {"mask", "open", "send"} THEN Whole(f) ELSE f = <<>>
Answered(p, f) == IF p = "kbd" THEN AckFree(f) ELSE f = <<<<"bat">>, <<"id">>>>
Obeyed(p) ==
    /\ dev[p].here
    /\ fg.step = 4 => dev[p].set /\ dev[p].on
    /\ fg.step = 3 /\ (fg.pc # "ack" \/ p = "aux") => dev[p].set

SyncAck(p, f) ==
    fg.pc \in {"ack", "argAck"} /\ Begins(f, "ack") =>
        IF fg.step = 1 THEN Begins(Tail(f), "bat") => Answered(p, Tail(f))
                       ELSE Obeyed(p) /\ Over(p, Tail(f))
SyncFirst(p, f) ==
    /\ fg.pc = "recv" /\ fg.n = 0 /\ Begins(f, "bat") => Answered(p, f)
    /\ fg.pc = "recv" /\ fg.n = 1 /\ fg.param = "bat" => f = <<<<"id">>>>
    /\ fg.pc = "recv" /\ fg.n = 1 => fg.param # "unset"
    /\ fg.pc \in {"close", "judge"} /\ fg.step = 1 /\ fg.ret = "ok"
         => fg.param # "unset" /\ (fg.param = "bat" => Over(p, f))
SyncLater(p, f) ==
    /\ fg.step > 1 /\ fg.pc \in {"mask", "open", "send", "arg"} => Over(p, f)
    /\ fg.step = 4 => dev[p].set
    /\ fg.step > 1 /\ fg.pc \in {"close", "judge"} /\ fg.ret = "ok" =>
         Obeyed(p) /\ (Over(p, f) \/ (p = "aux" /\ Started(p)))
    /\ p = "aux" /\ fg.step = 4 /\ fg.pc = "ack" /\ dev[p].on => Begins(f, "ack")

(* A device that is not there says nothing, and the mouse moves only when  *)
(* the last command of its reset has told it to.                           *)
Silent == \A p \in Ports : ~dev[p].here => Stream(p) = <<>>
MouseOff ==
    dev["aux"].on => Past("aux") \/ (/\ fg.port = "aux" /\ fg.step = 4
                                     /\ fg.pc \in {"ack", "close", "judge"})
InStep(p) ==
    p = fg.port /\ p \notin misled =>
        /\ SyncAck(p, Stream(p)) /\ SyncFirst(p, Stream(p))
        /\ fg.pc # "idle" => SyncLater(p, Stream(p))
Successful ==
    \A p \in Ports : res[p] = "ok" /\ p \notin misled =>
        dev[p].here /\ dev[p].on /\ dev[p].set /\ INT(p) \in ctr

Sync == Silent /\ MouseOff /\ (\A p \in Ports : InStep(p)) /\ Successful

(* The packets of a mouse whose reset succeeded, or is about to.           *)
Tracked ==
    /\ fg.port = "aux" /\ "aux" \notin misled
    /\ \/ res["aux"] = "ok"
       \/ fg.step = 4 /\ fg.pc \in {"close", "judge"} /\ fg.ret = "ok"
Coming == temp \o Stream("aux")
Packets ==
    /\ ~Started("aux") => temp = <<>> /\ pkt = <<>>
    /\ fg.pc # "idle" => reported = <<>>
    /\ Tracked =>
         /\ Whole(Coming)
         /\ pkt # <<>> => /\ IsMovement(pkt) /\ pkt[1][2] <= nMoves
                          /\ Coming # <<>> => pkt[1][2] < Coming[1][2]
         /\ \A i \in 1..Len(reported) :
              /\ IsMovement(reported[i]) /\ reported[i][1][2] <= nMoves
              /\ pkt # <<>> => reported[i][1][2] < pkt[1][2]
              /\ Coming # <<>> => reported[i][1][2] < Coming[1][2]
              /\ \A j \in 1..i - 1 : reported[j][1][2] < reported[i][1][2]

IInv == Types /\ Control /\ Masks /\ Sync /\ Packets

-----------------------------------------------------------------------------
(* Types.                                                                  *)

LEMMA Sizes ==
    /\ Retries \in Nat /\ Retries > 0 /\ BufSize \in Nat /\ BufSize > 0
    /\ MaxKeys \in Nat /\ MaxMoves \in Nat /\ MaxFaults \in Nat
  BY Ps2Assumption

LEMMA PortNames == /\ "kbd" \in Ports /\ "aux" \in Ports /\ "kbd" # "aux"
                   /\ \A p \in Ports : p \in {"kbd", "aux"} /\ p # "ctl"
  BY DEF Ports

LEMMA Kinds ==
    /\ \A b \in Byte : b[1] \in Kind
    /\ \A a \in Answers : <<a>> \in Byte
    /\ CtlByte \subseteq Byte
    /\ \A b \in CtlByte : b[1] \in {"good", "bad", "tested"}
  BY DEF Byte, Kind, Answers, Motion, CtlByte

LEMMA Replies ==
    ASSUME NEW s \in Seq(CtlByte), NEW a \in {"good", "bad", "tested"}
    PROVE  Append(s, <<a>>) \in Seq(CtlByte)
<1>1. <<a>> \in CtlByte
  BY DEF CtlByte
<1> QED
  BY <1>1

LEMMA ServingType ==
    ASSUME NEW p \in Ports, NEW l \in Place
    PROVE  /\ Serving(p, l) \in Foreground
           /\ Serving(p, l).pc = l /\ Serving(p, l).port = p /\ Serving(p, l).step = 1
           /\ Serving(p, l).n = 0 /\ Serving(p, l).param = "unset" /\ Serving(p, l).ret = "ok"
  BY Sizes DEF Serving, Foreground, Result

LEMMA GoesTo ==
    ASSUME NEW l \in Place, TypesFg, Goto(l)
    PROVE  /\ fg' \in Foreground /\ fg'.pc = l
           /\ fg'.port = fg.port /\ fg'.step = fg.step /\ fg'.tries = fg.tries
           /\ fg'.n = fg.n /\ fg'.param = fg.param /\ fg'.ret = fg.ret
  BY DEF TypesFg, Goto, Foreground

LEMMA Closes ==
    ASSUME NEW r \in Result, TypesFg, Closed(r)
    PROVE  /\ fg' \in Foreground /\ fg'.pc = "close" /\ fg'.ret = r
           /\ fg'.port = fg.port /\ fg'.step = fg.step /\ fg'.tries = fg.tries
           /\ fg'.n = fg.n /\ fg'.param = fg.param
  BY DEF TypesFg, Closed, Foreground, Place

(* The next device, or the end of the start-up.                            *)
LEMMA Next2 ==
    ASSUME TypesFg, NextDevice
    PROVE  /\ fg' \in Foreground /\ fg'.port = "aux" /\ fg'.step = 1 /\ fg'.n = 0
           /\ fg'.param = "unset" /\ fg'.ret = "ok"
           /\ fg.port = "kbd" => fg'.pc = "test"
           /\ fg.port = "aux" => fg'.pc = "idle"
<1>1. "test" \in Place /\ "idle" \in Place
  BY DEF Place, ProbeAt
<1>2. fg' = IF fg.port = "kbd" THEN Serving("aux", "test") ELSE Serving("aux", "idle")
  BY DEF NextDevice
<1> QED
  BY <1>1, <1>2, PortNames, ServingType DEF TypesFg, Foreground

LEMMA PlaceNames ==
    /\ ProbeAt \subseteq Place /\ CommandAt \subseteq Place
    /\ {"mask", "open", "close", "judge", "idle"} \subseteq Place
  BY DEF Place

(* Steps that leave everything but fg, ctr and hw as it was.               *)
LEMMA TypesStart ==
    ASSUME Types, DisableKbd \/ DisableAux \/ SelfTest \/ SelfAnswer
    PROVE  Types'
<1> USE DEF Write, Ready, Stuck, At
<1>1. PICK l \in ResetAt \union {"test"} : Goto(l)
  BY DEF DisableKbd, DisableAux, SelfTest, SelfAnswer, ResetAt
<1>2. l \in Place
  BY <1>1 DEF Place, ProbeAt
<1>3. UNCHANGED <<avail, res, handler, store, dev, nKeys, nMoves, misled>>
  BY DEF DisableKbd, DisableAux, SelfTest, SelfAnswer, devices, bounds
<1>4. nFaults' \in 0..MaxFaults
  BY Sizes DEF DisableKbd, DisableAux, SelfTest, SelfAnswer, bounds, Types, TypesBus
<1>5. TypesFg' /\ TypesStore'
  BY <1>2, <1>1, <1>3, GoesTo DEF Types, TypesFg, TypesStore, store
<1>6. ctr' \in SUBSET Bits /\ hw' \in SUBSET Bits /\ (obf' = obf \/ obf' = Empty)
  BY PortNames DEF DisableKbd, DisableAux, SelfTest, SelfAnswer, Types, TypesBus, DIS, Bits
<1>7. answers' \in Seq(CtlByte)
  <2>1. answers' = answers \/ answers' = Append(answers, <<"tested">>)
    BY DEF DisableKbd, DisableAux, SelfTest, SelfAnswer, devices
  <2> QED
    BY <2>1, Replies DEF Types, TypesBus
<1>8. TypesBus'
  BY <1>3, <1>4, <1>6, <1>7 DEF Types, TypesBus
<1> QED
  BY <1>5, <1>8 DEF Types

LEMMA TypesFlush == ASSUME Types, Control, FlushStatus \/ FlushRead PROVE Types'
<1> USE DEF At
<1>1. /\ UNCHANGED <<ctr, hw, devices, handler, store, bounds>>
      /\ obf' = obf \/ obf' = Empty
  BY DEF FlushStatus, FlushRead
<1>2. TypesBus' /\ TypesStore'
  BY <1>1 DEF Types, TypesBus, TypesStore, devices, store, bounds
<1>3. fg' \in Foreground
  <2>1. ASSUME NEW l \in Place, NEW k \in 0..BufSize + 2, fg' = [fg EXCEPT !.pc = l, !.n = k]
        PROVE  fg' \in Foreground
    BY <2>1 DEF Types, TypesFg, Foreground
  <2>2. \A l \in Place : Goto(l) => fg' \in Foreground
    BY GoesTo DEF Types
  <2>3. {"selfTest", "flushRead0", "mask", "flushRead", "test", "flush0", "flush"} \subseteq Place
    BY DEF Place, ProbeAt, ResetAt
  <2>4. CASE FlushStatus
    <3>1. 0 \in 0..BufSize + 2
      BY Sizes
    <3> QED
      BY <2>4, <2>1, <2>2, <2>3, <3>1 DEF FlushStatus
  <2>5. CASE FlushRead
    <3>1. fg.n + 1 \in 0..BufSize + 2 /\ 0 \in 0..BufSize + 2
      BY <2>5, Sizes DEF FlushRead, Control, Types, TypesFg, Foreground
    <3>2. ResetReturns("failed") => fg' \in Foreground
      BY Next2 DEF ResetReturns, Types
    <3> QED
      BY <2>5, <2>1, <2>3, <3>1, <3>2 DEF FlushRead
  <2> QED
    BY <2>4, <2>5
<1>4. /\ res' \in [Ports -> {"none"} \union Result] /\ avail' = avail /\ misled' = misled
  BY <1>1 DEF FlushStatus, FlushRead, ResetReturns, Types, TypesFg, Foreground, Result, bounds
<1> QED
  BY <1>2, <1>3, <1>4 DEF Types, TypesFg

LEMMA TypesProbe ==
    ASSUME Types, TestKbd \/ KbdAnswer \/ EnableKbd \/ TestAux
    PROVE  Types'
<1> USE DEF At, Write, Ready, Stuck
<1>1. /\ UNCHANGED <<ctr, dev, handler, pkt, reported, nKeys, nMoves, misled>>
      /\ obf' = obf \/ obf' = Empty
      /\ hw' = hw \/ hw' = hw \ {DIS("kbd")}
      /\ temp' = temp \/ temp' = <<>>
      /\ nFaults' = nFaults \/ (nFaults < MaxFaults /\ nFaults' = nFaults + 1)
  BY DEF TestKbd, KbdAnswer, EnableKbd, TestAux, devices, store, bounds
<1>2. answers' \in Seq(CtlByte)
  <2>1. answers' = answers \/ \E a \in {"good", "bad", "tested"} : answers' = Append(answers, <<a>>)
    BY DEF TestKbd, KbdAnswer, EnableKbd, TestAux, devices
  <2> QED
    BY <2>1, Replies DEF Types, TypesBus
<1>3. TypesBus'
  <2>1. nFaults' \in 0..MaxFaults
    BY <1>1, Sizes DEF Types, TypesBus
  <2>2. hw' \in SUBSET Bits
    BY <1>1 DEF Types, TypesBus
  <2> QED
    BY <1>1, <1>2, <2>1, <2>2 DEF Types, TypesBus
<1>6. TypesStore'
  <2>1. temp' \in Seq(Byte) /\ Len(temp') <= 2
    <3>1. CASE temp' = <<>>
      BY <3>1
    <3> QED
      BY <1>1, <3>1 DEF Types, TypesStore
  <2> QED
    BY <1>1, <2>1 DEF Types, TypesStore
<1>4. fg' \in Foreground
  <2>1. {"answer", "enable", "enable2", "flush"} \subseteq Place
    BY DEF Place, ProbeAt
  <2>2. \/ \E l \in {"answer", "enable", "enable2", "flush"} : Goto(l)
        \/ NextDevice
    BY DEF TestKbd, KbdAnswer, EnableKbd, TestAux, ProbeFails, ResetReturns
  <2> QED
    BY <2>1, <2>2, GoesTo, Next2 DEF Types
<1>5. res' \in [Ports -> {"none"} \union Result] /\ avail' \in SUBSET Ports
  BY PortNames DEF TestKbd, KbdAnswer, EnableKbd, TestAux, ProbeFails, ResetReturns, Types, TypesFg,
     Result
<1> QED
  BY <1>1, <1>3, <1>4, <1>5, <1>6 DEF Types, TypesFg

LEMMA Joined ==
    ASSUME NEW S, NEW a \in S, NEW b \in S, NEW c \in S
    PROVE  <<a>> \o <<b>> = <<a, b>> /\ <<a>> \o <<b, c>> = <<a, b, c>>
<1>1. /\ <<a>> \in Seq(S) /\ <<b>> \in Seq(S) /\ <<a, b>> \in Seq(S)
      /\ <<b, c>> \in Seq(S) /\ <<a, b, c>> \in Seq(S)
  OBVIOUS
<1>2. <<a>> \o <<b>> = <<a, b>>
  <2>1. /\ Len(<<a>> \o <<b>>) = 2 /\ (<<a>> \o <<b>>)[1] = a /\ (<<a>> \o <<b>>)[2] = b
        /\ <<a>> \o <<b>> \in Seq(S)
    BY <1>1, ConcatProperties
  <2>2. \A i \in 1..2 : (<<a>> \o <<b>>)[i] = <<a, b>>[i]
    BY <2>1
  <2> QED
    BY <1>1, <2>1, <2>2, SeqEqual
<1>3. <<a>> \o <<b, c>> = <<a, b, c>>
  <2>1. /\ Len(<<a>> \o <<b, c>>) = 3 /\ (<<a>> \o <<b, c>>)[1] = a /\ (<<a>> \o <<b, c>>)[2] = b
        /\ (<<a>> \o <<b, c>>)[3] = c /\ <<a>> \o <<b, c>> \in Seq(S)
    BY <1>1, ConcatProperties
  <2>2. \A i \in 1..3 : (<<a>> \o <<b, c>>)[i] = <<a, b, c>>[i]
    BY <2>1
  <2> QED
    BY <1>1, <2>1, <2>2, SeqEqual
<1> QED
  BY <1>2, <1>3

(* What a device does with a byte.                                         *)
LEMMA Refusal ==
    ASSUME NEW d \in Device
    PROVE  /\ Refused(d) \in Device /\ Refused(d).here = d.here /\ Refused(d).out = <<<<"nak">>>>
           /\ Refused(d).on = d.on /\ Refused(d).set = d.set
<1>1. <<"nak">> \in Byte
  BY Kinds DEF Answers
<1>2. <<<<"nak">>>> \in Seq(Byte)
  BY <1>1
<1> QED
  BY <1>2 DEF Refused, Device

LEMMA Acknowledges ==
    ASSUME NEW d \in Device
    PROVE  /\ Acked(d, <<>>) \in Device /\ Acked(d, <<>>).out = <<<<"ack">>>>
           /\ Acked(d, <<>>).on = d.on /\ Acked(d, <<>>).set = d.set /\ Acked(d, <<>>).here = d.here
<1>1. <<"ack">> \in Byte
  BY Kinds DEF Answers
<1>2. <<<<"ack">>>> \in Seq(Byte) /\ <<<<"ack">>>> \o <<>> = <<<<"ack">>>>
  BY <1>1, ConcatEmptySeq
<1> QED
  BY <1>2 DEF Acked, Device

LEMMA Resets ==
    ASSUME NEW p \in Ports, NEW d \in Device
    PROVE  /\ Reaction(d, p, "reset") \in Device /\ Reaction(d, p, "reset").here = d.here
           /\ Reaction(d, p, "reset").on = (p = "kbd")
           /\ Reaction(d, p, "reset").out = IF p = "kbd" THEN <<<<"ack">>, <<"bat">>>>
                                                         ELSE <<<<"ack">>, <<"bat">>, <<"id">>>>
<1>1. <<"ack">> \in Byte /\ <<"bat">> \in Byte /\ <<"id">> \in Byte
  BY Kinds DEF Answers
<1> DEFINE o == IF p = "kbd" THEN <<<<"ack">>, <<"bat">>>> ELSE <<<<"ack">>, <<"bat">>, <<"id">>>>
<1>2. <<<<"ack">>>> \o (IF p = "kbd" THEN <<<<"bat">>>> ELSE <<<<"bat">>, <<"id">>>>) = o
  BY <1>1, Joined
<1>3. o \in Seq(Byte)
  BY <1>1
<1>4. Reaction(d, p, "reset") = [[d EXCEPT !.arg = FALSE, !.out = o] EXCEPT !.on = (p = "kbd"), !.set = FALSE]
  BY <1>2 DEF Reaction, Acked
<1> HIDE DEF o
<1>5. /\ Reaction(d, p, "reset") \in Device /\ Reaction(d, p, "reset").here = d.here
      /\ Reaction(d, p, "reset").on = (p = "kbd") /\ Reaction(d, p, "reset").out = o
  BY <1>3, <1>4 DEF Device
<1> QED
  BY <1>5 DEF o

LEMMA Sets ==
    ASSUME NEW d \in Device, NEW b \in BOOLEAN, NEW e,
           e \in {[d EXCEPT !.on = b], [d EXCEPT !.set = b], [d EXCEPT !.arg = b]}
    PROVE  /\ e \in Device /\ e.here = d.here /\ e.out = d.out
           /\ e = [d EXCEPT !.on = b] => e.on = b /\ e.set = d.set
           /\ e = [d EXCEPT !.set = b] => e.on = d.on /\ e.set = b
           /\ e = [d EXCEPT !.arg = b] => e.on = d.on /\ e.set = d.set
<1>1. CASE e = [d EXCEPT !.on = b]
  BY <1>1 DEF Device
<1>2. CASE e = [d EXCEPT !.set = b]
  BY <1>2 DEF Device
<1>3. CASE e = [d EXCEPT !.arg = b]
  BY <1>3 DEF Device
<1>4. /\ e = [d EXCEPT !.on = b] => e.on = b /\ e.set = d.set
      /\ e = [d EXCEPT !.set = b] => e.on = d.on /\ e.set = b
      /\ e = [d EXCEPT !.arg = b] => e.on = d.on /\ e.set = d.set
  BY DEF Device
<1>5. e \in Device /\ e.here = d.here /\ e.out = d.out
  BY <1>1, <1>2, <1>3
<1> QED
  BY <1>4, <1>5

LEMMA Obeys ==
    ASSUME NEW p \in Ports, NEW d \in Device, NEW byte,
           byte \in {"disable", "scanset", "setscale", "enable", "one"}
    PROVE  /\ Reaction(d, p, byte) \in Device /\ Reaction(d, p, byte).here = d.here
           /\ Reaction(d, p, byte).on = IF byte \in {"disable", "enable"} THEN byte = "enable" ELSE d.on
           /\ \/ /\ Reaction(d, p, byte).out = <<<<"ack">>>>
                 /\ byte \in {"setscale", "one"} => Reaction(d, p, byte).set
                 /\ byte \in {"disable", "enable"} => Reaction(d, p, byte).set = d.set
              \/ byte = "one" /\ Reaction(d, p, byte).out = <<<<"nak">>>>
<1>1. PICK a \in Device : a = Acked(d, <<>>)
  BY Acknowledges
<1>2. a.out = <<<<"ack">>>> /\ a.on = d.on /\ a.set = d.set /\ a.here = d.here
  BY <1>1, Acknowledges
<1>3. PICK r : r = Reaction(d, p, byte)
  OBVIOUS
<1>4. CASE byte \in {"disable", "enable"}
  <2>1. r = [a EXCEPT !.on = (byte = "enable")]
    BY <1>1, <1>3, <1>4 DEF Reaction
  <2>2. PICK b \in BOOLEAN : b = (byte = "enable")
    OBVIOUS
  <2>3. r = [a EXCEPT !.on = b]
    BY <2>1, <2>2, Zenon
  <2>4. r \in Device /\ r.here = a.here /\ r.out = a.out /\ r.on = b /\ r.set = a.set
    BY <2>3, Sets
  <2> QED
    BY <1>2, <1>3, <1>4, <2>2, <2>4
<1>5. CASE byte = "scanset"
  <2>1. r = [a EXCEPT !.arg = TRUE]
    BY <1>1, <1>3, <1>5 DEF Reaction
  <2>2. r \in Device /\ r.here = a.here /\ r.out = a.out /\ r.on = a.on
    BY <2>1, Sets
  <2> QED
    BY <1>2, <1>3, <1>5, <2>2
<1>6. CASE byte = "setscale" \/ (byte = "one" /\ d.arg)
  <2>1. r = [a EXCEPT !.set = TRUE]
    BY <1>1, <1>3, <1>6 DEF Reaction
  <2>2. r \in Device /\ r.here = a.here /\ r.out = a.out /\ r.on = a.on /\ r.set
    BY <2>1, Sets
  <2> QED
    BY <1>2, <1>3, <1>6, <2>2
<1>7. CASE byte = "one" /\ ~d.arg
  <2>1. r = Refused(d)
    BY <1>3, <1>7 DEF Reaction
  <2> QED
    BY <1>3, <1>7, <2>1, Refusal
<1> QED
  BY <1>4, <1>5, <1>6, <1>7

LEMMA Commands ==
    ASSUME TypesFg
    PROVE  /\ Command \in {"reset", "disable", "scanset", "setscale", "enable"}
           /\ Command = "reset" <=> fg.step = 1
           /\ Command = "disable" <=> fg.step = 2
           /\ Command \in {"scanset", "setscale"} <=> fg.step = 3
           /\ Command = "enable" <=> fg.step = 4
           /\ Command = "scanset" <=> fg.step = 3 /\ fg.port = "kbd"
           /\ fg.step = 1 => Recv = IF fg.port = "kbd" THEN 1 ELSE 2
           /\ fg.step > 1 => Recv = 0
<1>1. fg.step = 1 \/ fg.step = 2 \/ fg.step = 3 \/ fg.step = 4
  BY DEF TypesFg, Foreground
<1>2. fg.port = "kbd" \/ fg.port = "aux"
  BY PortNames DEF TypesFg, Foreground
<1> QED
  BY <1>1, <1>2 DEF Command, Script, Recv

LEMMA Sends ==
    ASSUME Types, NEW p \in Ports,
           NEW byte \in {"reset", "disable", "scanset", "setscale", "enable", "one"}, SendTo(p, byte)
    PROVE  /\ dev' \in [Ports -> Device] /\ nFaults' \in 0..MaxFaults
           /\ \A q \in Ports \ {p} : dev'[q] = dev[q]
           /\ dev'[p] \in IF dev[p].here THEN {Reaction(dev[p], p, byte), Refused(dev[p])} ELSE {dev[p]}
<1>1. dev[p] \in Device /\ dev \in [Ports -> Device]
  BY DEF Types, TypesBus
<1>2. Reaction(dev[p], p, byte) \in Device /\ Refused(dev[p]) \in Device
  <2>1. Refused(dev[p]) \in Device
    BY <1>1, Refusal
  <2>2. CASE byte = "reset"
    BY <1>1, <2>1, <2>2, Resets
  <2>3. CASE byte # "reset"
    BY <1>1, <2>1, <2>3, Obeys
  <2> QED
    BY <2>2, <2>3
<1>3. dev' = [dev EXCEPT ![p] = IF dev[p].here THEN Reaction(dev[p], p, byte) ELSE dev[p]]
        \/ (dev[p].here /\ dev' = [dev EXCEPT ![p] = Refused(dev[p])])
  BY DEF SendTo
<1>4. nFaults' \in 0..MaxFaults
  BY Sizes DEF SendTo, Types, TypesBus
<1> HIDE DEF Reaction, Refused
<1> QED
  BY <1>1, <1>2, <1>3, <1>4

LEMMA TypesSend == ASSUME Types, Send PROVE Types'
<1>1. /\ UNCHANGED <<ctr, hw, obf, answers, avail, res, handler, store, nKeys, nMoves, misled>>
  BY DEF Send
<1>2. "ack" \in Place /\ "argAck" \in Place
  BY DEF Place, CommandAt
<1>3. Goto("ack") \/ Goto("argAck") \/ Closed("failed")
  BY DEF Send
<1>4. fg' \in Foreground
  BY <1>2, <1>3, GoesTo, Closes DEF Types, Result
<1>5. /\ dev' \in [Ports -> Device] /\ nFaults' \in 0..MaxFaults
  <2>1. CASE UNCHANGED dev /\ (Stuck("send") \/ Stuck("arg"))
    BY <2>1, Sizes DEF Stuck, Types, TypesBus
  <2>2. CASE SendTo(fg.port, Command) \/ SendTo(fg.port, "one")
    <3>1. fg.port \in Ports
      BY DEF Types, TypesFg, Foreground
    <3> QED
      BY <2>2, <3>1, Sends, Commands DEF Types
  <2> QED
    BY <2>1, <2>2 DEF Send
<1> QED
  BY <1>1, <1>4, <1>5 DEF Types, TypesBus, TypesFg, TypesStore, store

LEMMA TypesOpen == ASSUME Types, Unmask \/ Open \/ Restore PROVE Types'
<1> USE DEF At, Write, Ready, Stuck
<1>1. /\ UNCHANGED <<obf, devices, avail, res, handler, store, nKeys, nMoves, misled>>
      /\ nFaults' = nFaults \/ (nFaults < MaxFaults /\ nFaults' = nFaults + 1)
  BY DEF Unmask, Open, Restore, bounds
<1>2. nFaults' \in 0..MaxFaults
  BY <1>1, Sizes DEF Types, TypesBus
<1>3. fg.port \in Ports /\ INT(fg.port) \in Bits /\ \A p \in Ports : DIS(p) \in Bits
  BY DEF Types, TypesFg, Foreground, INT, DIS, Bits
<1>4. ctr' \in SUBSET Bits
  BY <1>3 DEF Unmask, Open, Restore, Types, TypesBus
<1>5. hw' \in SUBSET Bits
  <2>1. Other(fg.port) \in Ports
    BY <1>3, PortNames DEF Other
  <2>2. Quiet(ctr, fg.port) \in SUBSET Bits
    BY <1>3, <2>1 DEF Quiet, Types, TypesBus
  <2> QED
    BY <2>2 DEF Unmask, Open, Restore, Types, TypesBus
<1>6. fg' \in Foreground
  <2>1. {"open", "judge", "send", "close"} \subseteq Place
    BY DEF Place, CommandAt
  <2>2. \/ Goto("open") \/ Goto("judge") \/ Closed("failed")
        \/ fg' = [fg EXCEPT !.pc = "send", !.n = 0]
        \/ fg' = [fg EXCEPT !.pc = "judge", !.ret = "failed"]
    BY DEF Unmask, Open, Restore
  <2>3. 0 \in 0..BufSize + 2
    BY Sizes
  <2>4. fg' = [fg EXCEPT !.pc = "send", !.n = 0] => fg' \in Foreground
    BY <2>1, <2>3 DEF Types, TypesFg, Foreground
  <2>5. fg' = [fg EXCEPT !.pc = "judge", !.ret = "failed"] => fg' \in Foreground
    <3>1. fg \in Foreground /\ "judge" \in Place /\ "failed" \in Result
      BY <2>1 DEF Types, TypesFg, Result
    <3> QED
      BY <3>1 DEF Foreground
  <2>6. Goto("open") \/ Goto("judge") => fg' \in Foreground
    BY <2>1, GoesTo DEF Types
  <2>7. Closed("failed") => fg' \in Foreground
    BY Closes DEF Types, Result
  <2> QED
    BY <2>2, <2>4, <2>5, <2>6, <2>7
<1> QED
  BY <1>1, <1>2, <1>4, <1>5, <1>6 DEF Types, TypesBus, TypesFg, TypesStore, devices, store

LEMMA TypesTalk ==
    ASSUME Types, Control, Discard \/ TimeOut \/ Acknowledged \/ Received
    PROVE  Types'
<1> USE DEF At
<1>1. /\ UNCHANGED <<ctr, hw, devices, avail, res, handler, store, bounds>>
      /\ obf' = obf \/ obf' = Empty
  BY DEF Discard, TimeOut, Acknowledged, Received
<1>2. TypesBus' /\ TypesStore'
  BY <1>1 DEF Types, TypesBus, TypesStore, devices, store, bounds
<1>3. CASE Discard \/ TimeOut \/ Acknowledged
  <2>1. {"arg", "recv"} \subseteq Place
    BY DEF Place, CommandAt
  <2>2. fg' = fg \/ Goto("arg") \/ Goto("recv") \/ Closed("ok") \/ Closed("failed")
    BY <1>3 DEF Discard, TimeOut, Acknowledged
  <2>3. fg' \in Foreground
    BY <2>1, <2>2, GoesTo, Closes DEF Types, TypesFg, Result
  <2> QED
    BY <1>1, <1>2, <2>3 DEF Types, TypesFg, bounds
<1>4. CASE Received
  <2>1. fg.pc = "recv" /\ fg.n + 1 \in 0..BufSize + 2
    BY <1>4, Sizes, Commands DEF Received, Control, Types, TypesFg, Foreground
  <2>2. obf[2][1] \in Kind
    BY <1>4, Kinds DEF Received, Mine, Types, TypesBus
  <2>3. {"close", "recv"} \subseteq Place
    BY DEF Place, CommandAt
  <2>4. fg' = [fg EXCEPT !.n = fg.n + 1, !.param = IF fg.n = 0 THEN obf[2][1] ELSE fg.param,
                         !.pc = IF fg.n + 1 = Recv THEN "close" ELSE "recv",
                         !.ret = IF fg.n + 1 = Recv THEN "ok" ELSE fg.ret]
    BY <1>4 DEF Received
  <2>5. fg' \in Foreground
    BY <2>1, <2>2, <2>3, <2>4 DEF Types, TypesFg, Foreground, Result
  <2> QED
    BY <1>1, <1>2, <2>5 DEF Types, TypesFg, bounds
<1> QED
  BY <1>3, <1>4

LEMMA TypesJudge == ASSUME Types, Judge PROVE Types'
<1>1. UNCHANGED <<ctr, hw, obf, devices, handler, store, nKeys, nMoves, nFaults, avail>>
  BY DEF Judge, ResetReturns
<1>2. /\ misled' = misled \/ misled' = misled \union {fg.port}
      /\ res' = res \/ \E r \in Result : res' = [res EXCEPT ![fg.port] = r]
  BY DEF Judge, ResetReturns, Result, Types, TypesFg, Foreground
<1>3. fg.port \in Ports /\ fg.step \in 1..4
  BY DEF Types, TypesFg, Foreground
<1>4. fg' \in Foreground
  <2>1. {"open", "mask"} \subseteq Place
    BY DEF Place
  <2>2. CASE NextDevice
    BY <2>2, Next2 DEF Types
  <2>3. CASE fg' = [fg EXCEPT !.pc = "open", !.ret = "ok", !.tries = @ + 1] /\ fg.tries + 1 < Retries
    <3>1. fg.tries + 1 \in 0..Retries - 1
      BY <2>3, Sizes DEF Types, TypesFg, Foreground
    <3>2. fg' = [fg EXCEPT !.pc = "open", !.ret = "ok", !.tries = fg.tries + 1]
      BY <2>3
    <3> QED
      BY <2>1, <3>1, <3>2 DEF Types, TypesFg, Foreground, Result
  <2>4. CASE fg' = [Serving(fg.port, "mask") EXCEPT !.step = fg.step + 1] /\ fg.step \in {1, 2, 3}
    <3>1. Serving(fg.port, "mask") \in Foreground /\ fg.step + 1 \in 1..4
      BY <1>3, <2>1, <2>4, ServingType
    <3> HIDE DEF Serving
    <3> QED
      BY <2>4, <3>1 DEF Foreground
  <2> QED
    BY <2>2, <2>3, <2>4 DEF Judge, ResetReturns
<1> QED
  BY <1>1, <1>2, <1>3, <1>4 DEF Types, TypesBus, TypesFg, TypesStore, devices, store

LEMMA TypesHandler ==
    ASSUME Types, Interrupt \/ HandlerEnds \/ HandlerKey \/ GetStatus
    PROVE  Types'
<1>1. /\ UNCHANGED <<ctr, hw, devices, fg, avail, res, temp, bounds>> /\ (obf' = obf \/ obf' = Empty)
      /\ handler' \in BOOLEAN
  BY DEF Interrupt, HandlerEnds, HandlerKey, HandlerTakes, GetStatus, store, Types, TypesStore
<1>2. \/ pkt' = pkt /\ reported' = reported
      \/ pkt' = <<>> /\ reported' = Append(reported, pkt)
  BY DEF Interrupt, HandlerEnds, HandlerKey, HandlerTakes, GetStatus, store
<1>3. TypesBus' /\ TypesFg'
  BY <1>1 DEF Types, TypesBus, TypesFg, devices, bounds
<1>4. TypesStore'
  <2>1. <<>> \in Seq(Byte) /\ Len(<<>>) = 0 /\ Append(reported, pkt) \in Seq(Seq(Byte))
    BY DEF Types, TypesStore
  <2> QED
    BY <1>1, <1>2, <2>1 DEF Types, TypesStore
<1> QED
  BY <1>3, <1>4 DEF Types

LEMMA TypesMouse == ASSUME Types, HandlerMouse PROVE Types'
<1> DEFINE packet == IF temp # <<>> \/ Bit3(obf[2]) THEN Append(temp, obf[2]) ELSE temp
<1>1. /\ UNCHANGED <<ctr, hw, devices, fg, avail, res, handler, reported, bounds>> /\ obf' = Empty
      /\ temp' = (IF Len(packet) = 3 THEN <<>> ELSE packet)
      /\ pkt' = (IF Len(packet) = 3 THEN packet ELSE pkt)
  BY DEF HandlerMouse, HandlerTakes
<1>2. obf[2] \in Byte
  BY DEF HandlerMouse, HandlerTakes, Types, TypesBus
<1>3. packet \in Seq(Byte) /\ Len(packet) \in Nat /\ Len(packet) <= 3
  BY <1>2 DEF Types, TypesStore
<1>4. TypesBus' /\ TypesFg'
  BY <1>1 DEF Types, TypesBus, TypesFg, devices, bounds
<1> HIDE DEF packet
<1>6. TypesStore'
  <2>1. CASE Len(packet) = 3
    <3>1. temp' = <<>> /\ pkt' = packet
      BY <1>1, <2>1
    <3>2. temp' \in Seq(Byte) /\ Len(temp') = 0
      BY <3>1
    <3> QED
      BY <1>1, <1>3, <2>1, <3>1, <3>2 DEF Types, TypesStore
  <2>2. CASE Len(packet) # 3
    <3>1. Len(packet) <= 2
      <4>1. \A k \in Nat : k <= 3 /\ k # 3 => k <= 2
        OBVIOUS
      <4> QED
        BY <1>3, <2>2, <4>1
    <3> QED
      BY <1>1, <1>3, <2>2, <3>1 DEF Types, TypesStore
  <2> QED
    BY <2>1, <2>2
<1> QED
  BY <1>4, <1>6 DEF Types

LEMMA TypesBusStep ==
    ASSUME Types, DeliverAnswer \/ Type \/ Move \/ \E p \in Ports : Deliver(p)
    PROVE  Types'
<1>1. UNCHANGED <<ctr, hw, fg, avail, res, handler, store, misled, nFaults>>
  BY DEF DeliverAnswer, Type, Move, Deliver, bounds
<1>0. TypesBus
  BY DEF Types
<1>2. TypesFg' /\ TypesStore'
  BY <1>1 DEF Types, TypesFg, TypesStore, store
<1>3. ASSUME NEW p \in Ports, Deliver(p) PROVE TypesBus'
  <2>1. dev[p] \in Device /\ Head(dev[p].out) \in Byte /\ Tail(dev[p].out) \in Seq(Byte)
    BY <1>3 DEF Deliver, Types, TypesBus, Device
  <2>2. obf' = <<p, Head(dev[p].out)>> /\ obf'[1] = p /\ obf' # Empty /\ p # "ctl"
    BY <1>3, PortNames DEF Deliver, Empty
  <2>3. dev' = [dev EXCEPT ![p].out = Tail(dev[p].out)] /\ UNCHANGED <<answers, nKeys, nMoves>>
    BY <1>3 DEF Deliver, bounds
  <2>4. dev' \in [Ports -> Device]
    BY <2>1, <2>3 DEF Types, TypesBus, Device
  <2>5. obf' \in (Ports \union {"ctl"}) \X Byte
    BY <2>1, <2>2
  <2> QED
    BY <1>1, <2>2, <2>3, <2>4, <2>5 DEF Types, TypesBus
<1>4. CASE DeliverAnswer
  <2>1. Head(answers) \in CtlByte /\ Head(answers) \in Byte /\ Tail(answers) \in Seq(CtlByte)
    BY <1>4, Kinds DEF DeliverAnswer, Types, TypesBus
  <2>2. obf' = <<"ctl", Head(answers)>> /\ obf' \in (Ports \union {"ctl"}) \X Byte
    BY <1>4, <2>1 DEF DeliverAnswer
  <2> QED
    <3>1. UNCHANGED <<ctr, hw, dev, nKeys, nMoves, nFaults>> /\ answers' = Tail(answers)
      BY <1>4 DEF DeliverAnswer, bounds
    <3>2. obf'[1] = "ctl" /\ obf'[2] \in CtlByte
      BY <2>1, <2>2
    <3>3. nKeys' \in 0..MaxKeys /\ nMoves' \in 0..MaxMoves /\ nFaults' \in 0..MaxFaults
      BY <1>0, <3>1 DEF TypesBus
    <3>4. ctr' \in SUBSET Bits /\ hw' \in SUBSET Bits
      BY <1>0, <3>1 DEF TypesBus
    <3>5. dev' \in [Ports -> Device] /\ answers' \in Seq(CtlByte)
      BY <1>0, <2>1, <3>1 DEF TypesBus
    <3> QED
      BY <1>2, <2>2, <3>2, <3>3, <3>4, <3>5 DEF Types, TypesBus
<1>5. CASE Type
  <2>1. <<"key", nKeys + 1>> \in Byte /\ nKeys' \in 0..MaxKeys
    BY <1>5, Sizes DEF Type, Byte, Types, TypesBus
  <2>2. dev' = [dev EXCEPT !["kbd"].out = Append(dev["kbd"].out, <<"key", nKeys + 1>>)]
        /\ UNCHANGED <<obf, answers, nMoves>>
    BY <1>5 DEF Type
  <2>3. dev["kbd"] \in Device /\ dev \in [Ports -> Device]
    BY PortNames DEF Types, TypesBus
  <2>4. dev' \in [Ports -> Device]
    <3>1. Append(dev["kbd"].out, <<"key", nKeys + 1>>) \in Seq(Byte)
      BY <2>1, <2>3 DEF Device
    <3>2. [dev["kbd"] EXCEPT !.out = Append(dev["kbd"].out, <<"key", nKeys + 1>>)] \in Device
      BY <2>3, <3>1 DEF Device
    <3>3. dev' = [dev EXCEPT !["kbd"] =
                    [dev["kbd"] EXCEPT !.out = Append(dev["kbd"].out, <<"key", nKeys + 1>>)]]
      BY <2>2
    <3> QED
      BY <2>3, <3>2, <3>3
  <2> QED
    BY <1>0, <1>1, <1>2, <2>1, <2>2, <2>4 DEF Types, TypesBus
<1>6. CASE Move
  <2>1. PICK b \in BOOLEAN : dev' = [dev EXCEPT !["aux"].out = dev["aux"].out \o
                                       [i \in 1..3 |-> <<"move", nMoves + 1, i, i = 1 \/ b>>]]
    BY <1>6 DEF Move
  <2>2. nMoves + 1 \in 1..MaxMoves /\ nMoves' = nMoves + 1 /\ UNCHANGED <<obf, answers, nKeys>>
    BY <1>6, Sizes DEF Move, Types, TypesBus
  <2>3. \A i \in 1..3 : <<"move", nMoves + 1, i, i = 1 \/ b>> \in Byte
    BY <2>2 DEF Byte, Motion
  <2>4. [i \in 1..3 |-> <<"move", nMoves + 1, i, i = 1 \/ b>>] \in Seq(Byte)
    BY <2>3
  <2>5. dev["aux"].out \o [i \in 1..3 |-> <<"move", nMoves + 1, i, i = 1 \/ b>>] \in Seq(Byte)
    BY <2>4, PortNames DEF Types, TypesBus, Device
  <2>6. dev' \in [Ports -> Device]
    BY <2>1, <2>5, PortNames DEF Types, TypesBus, Device
  <2> QED
    <3>1. nMoves' \in 0..MaxMoves
      BY <2>2, Sizes
    <3> QED
      BY <1>0, <1>1, <1>2, <2>2, <2>6, <3>1 DEF Types, TypesBus
<1> QED
  BY <1>2, <1>3, <1>4, <1>5, <1>6 DEF Types

-----------------------------------------------------------------------------
(* Where the start-up stands.                                              *)

LEMMA Fields ==
    ASSUME TypesFg
    PROVE  /\ fg.pc \in Place /\ fg.port \in {"kbd", "aux"} /\ fg.port \in Ports
           /\ fg.step \in {1, 2, 3, 4} /\ fg.n \in Int /\ fg.ret \in {"ok", "failed"}
           /\ fg.tries \in 0..Retries - 1
  BY PortNames, Sizes DEF TypesFg, Foreground, Result

LEMMA RecvSame ==
    ASSUME fg'.step = fg.step, fg'.port = fg.port
    PROVE  Recv' = Recv /\ Command' = Command
  BY DEF Recv, Command

LEMMA ControlStill ==
    ASSUME Control, UNCHANGED <<fg, res, avail>>
    PROVE  Control'
  BY DEF Control, Past, Recv, Command

(* Probe or reset returns.                                                 *)
LEMMA ControlFails == ASSUME Types, Control, fg.pc # "idle", ProbeFails PROVE Control'
<1>1. NextDevice /\ UNCHANGED <<avail, res>>
  BY DEF ProbeFails
<1>2. /\ fg'.port = "aux" /\ fg'.step = 1 /\ fg'.n = 0
      /\ fg'.pc \in {"test", "idle"}
      /\ fg'.pc = "idle" <=> fg.port = "aux"
  BY <1>1, Next2, Fields DEF Types
<1> QED
  BY <1>1, <1>2, Fields, PortNames DEF Control, Past, ResetAt, ProbeAt, Types

LEMMA ControlReturns ==
    ASSUME Types, Control, NEW r, ResetReturns(r), fg.pc # "idle", fg.port \in avail
    PROVE  Control'
<1>1. NextDevice /\ res' = [res EXCEPT ![fg.port] = r] /\ UNCHANGED avail
  BY DEF ResetReturns
<1>2. /\ fg'.port = "aux" /\ fg'.step = 1 /\ fg'.n = 0
      /\ fg'.pc \in {"test", "idle"}
      /\ fg'.pc = "idle" <=> fg.port = "aux"
  BY <1>1, Next2, Fields DEF Types
<1>3. \A p \in Ports : res'[p] # "none" => p \in avail' /\ Past(p)'
  <2>1. \A p \in Ports : res'[p] = res[p] \/ p = fg.port
    BY <1>1 DEF Types, TypesFg
  <2> QED
    BY <1>1, <1>2, <2>1, Fields, PortNames DEF Control, Past, Types
<1> QED
  BY <1>1, <1>2, <1>3, Fields, PortNames DEF Control, ResetAt, ProbeAt, Types

LEMMA ControlReset ==
    ASSUME Types, Control, DisableKbd \/ DisableAux \/ SelfTest \/ SelfAnswer
    PROVE  Control'
<1> USE DEF At, Write, Ready, Stuck
<1>1. PICK l \in {"disAux", "flush0", "selfAnswer", "test"} : Goto(l)
  BY DEF DisableKbd, DisableAux, SelfTest, SelfAnswer
<1>2. /\ UNCHANGED <<res, avail>>
      /\ fg.pc \in ResetAt /\ fg.pc \in ProbeAt \ {"flush0", "flushRead0", "flush", "flushRead"}
  BY DEF DisableKbd, DisableAux, SelfTest, SelfAnswer, ResetAt, ProbeAt
<1>3. l \in Place
  BY DEF Place, ProbeAt, ResetAt
<1>4. /\ fg'.pc = l /\ fg'.port = fg.port /\ fg'.step = fg.step /\ fg'.n = fg.n
  BY <1>1, <1>3, GoesTo DEF Types
<1> QED
  BY <1>2, <1>4, Fields, PortNames, Sizes
     DEF Control, Past, ResetAt, ProbeAt, Types

LEMMA ControlFlush == ASSUME Types, Control, FlushStatus \/ FlushRead PROVE Control'
<1> USE DEF At
<1>1. CASE FlushStatus
  <2>1. /\ UNCHANGED <<res, avail>>
        /\ \/ /\ fg.pc = "flush0" /\ fg'.pc \in {"flushRead0", "selfTest"}
              /\ fg'.n = IF fg'.pc = "selfTest" THEN 0 ELSE fg.n
           \/ fg.pc = "flush" /\ fg'.pc \in {"mask", "flushRead"} /\ fg'.n = fg.n
        /\ fg'.port = fg.port /\ fg'.step = fg.step
    BY <1>1 DEF FlushStatus, Goto, Types, TypesFg, Foreground
  <2> QED
    BY <2>1, Fields, PortNames DEF Control, Past, ResetAt, ProbeAt, Types
<1>2. CASE FlushRead /\ fg.n + 1 # BufSize
  <2>1. /\ UNCHANGED <<res, avail>> /\ fg'.n = fg.n + 1
        /\ fg'.port = fg.port /\ fg'.step = fg.step
        /\ \/ fg.pc = "flushRead0" /\ fg'.pc = "flush0"
           \/ fg.pc = "flushRead" /\ fg'.pc = "flush"
    BY <1>2 DEF FlushRead, Types, TypesFg, Foreground
  <2>2. fg.n < BufSize => fg.n + 1 < BufSize
    BY <1>2, Fields, Sizes DEF Types
  <2> QED
    BY <2>1, <2>2, Fields, PortNames DEF Control, Past, ResetAt, ProbeAt, Types
<1>3. CASE FlushRead /\ fg.pc = "flushRead0" /\ fg.n + 1 = BufSize
  <2>1. /\ UNCHANGED <<res, avail>> /\ fg'.n = 0 /\ fg'.pc = "test"
        /\ fg'.port = fg.port /\ fg'.step = fg.step
    BY <1>3 DEF FlushRead, Types, TypesFg, Foreground
  <2> QED
    BY <1>3, <2>1, Fields, PortNames DEF Control, Past, ResetAt, ProbeAt, Types
<1>4. CASE FlushRead /\ fg.pc = "flushRead" /\ fg.n + 1 = BufSize
  <2>1. ResetReturns("failed")
    BY <1>4 DEF FlushRead
  <2> QED
    <3>1. fg.pc # "idle" /\ fg.port \in avail
      BY <1>4, Fields DEF Control, ProbeAt, ResetAt, Types
    <3> QED
      BY <2>1, <3>1, ControlReturns
<1> QED
  BY <1>1, <1>2, <1>3, <1>4 DEF FlushRead

LEMMA ControlProbe ==
    ASSUME Types, Control, TestKbd \/ KbdAnswer \/ EnableKbd \/ TestAux
    PROVE  Control'
<1> USE DEF At, Write, Ready, Stuck
<1>1. CASE ProbeFails
  <2>1. fg.pc # "idle"
    BY DEF TestKbd, KbdAnswer, EnableKbd, TestAux
  <2> QED
    BY <1>1, <2>1, ControlFails
<1>2. CASE ResetReturns("failed") /\ fg.pc = "enable2"
  <2>1. fg.pc # "idle" /\ fg.port \in avail
    BY <1>2, Fields DEF Control, ProbeAt, ResetAt, Types
  <2> QED
    BY <1>2, <2>1, ControlReturns
<1>3. CASE \/ fg.pc = "test" /\ fg.port = "kbd" /\ Goto("answer") /\ UNCHANGED <<avail, res>>
           \/ fg.pc = "answer" /\ Goto("enable") /\ UNCHANGED <<avail, res>>
           \/ /\ fg.pc = "enable" /\ Goto("enable2") /\ UNCHANGED res
              /\ avail' = avail \union {"kbd"}
           \/ fg.pc = "enable2" /\ Goto("flush") /\ UNCHANGED <<avail, res>>
           \/ /\ fg.pc = "test" /\ fg.port = "aux" /\ Goto("flush") /\ UNCHANGED res
              /\ avail' = avail \union {"aux"}
  <2>1. {"answer", "enable", "enable2", "flush"} \subseteq Place
    BY DEF Place, ProbeAt
  <2>2. /\ fg'.port = fg.port /\ fg'.step = fg.step /\ fg'.n = fg.n /\ res' = res
        /\ avail \subseteq avail'
        /\ \/ fg.pc = "test" /\ fg.port = "kbd" /\ fg'.pc = "answer"
           \/ fg.pc = "answer" /\ fg'.pc = "enable"
           \/ fg.pc = "enable" /\ fg'.pc = "enable2" /\ "kbd" \in avail'
           \/ fg.pc = "enable2" /\ fg'.pc = "flush"
           \/ fg.pc = "test" /\ fg.port = "aux" /\ fg'.pc = "flush" /\ "aux" \in avail'
    BY <1>3, <2>1, GoesTo DEF Types
  <2> QED
    BY <2>2, Fields, PortNames, Sizes DEF Control, Past, ResetAt, ProbeAt, Types
<1> QED
  BY <1>1, <1>2, <1>3 DEF TestKbd, KbdAnswer, EnableKbd, TestAux

LEMMA ControlCommand ==
    ASSUME Types, Control, Unmask \/ Open \/ Send \/ Restore
    PROVE  Control'
<1> USE DEF At, Write, Ready, Stuck
<1>1. {"ack", "argAck", "open", "send", "close", "judge"} \subseteq Place
  BY DEF Place, CommandAt
<1>2. CASE Open /\ fg' = [fg EXCEPT !.pc = "send", !.n = 0]
  <2>1. /\ fg.pc = "open" /\ fg'.pc = "send" /\ fg'.n = 0 /\ UNCHANGED <<avail, res>>
        /\ fg'.port = fg.port /\ fg'.step = fg.step
    BY <1>2 DEF Open, Types, TypesFg, Foreground
  <2> QED
    BY <2>1, Fields, PortNames DEF Control, Past, ResetAt, ProbeAt, Types
<1>3. CASE fg.pc \in {"mask", "open", "send", "arg", "close"} /\ UNCHANGED <<avail, res>>
           /\ \/ Goto("ack") /\ fg.pc = "send"
              \/ Goto("argAck") /\ fg.pc = "arg"
              \/ Goto("open") \/ Goto("judge") \/ Closed("failed")
              \/ fg' = [fg EXCEPT !.pc = "judge", !.ret = "failed"]
  <2>1. /\ fg'.port = fg.port /\ fg'.step = fg.step /\ fg'.n = fg.n
        /\ \/ fg.pc = "send" /\ fg'.pc = "ack"
           \/ fg.pc = "arg" /\ fg'.pc = "argAck"
           \/ fg'.pc \in {"open", "judge", "close"}
    BY <1>1, <1>3, GoesTo, Closes DEF Types, Result, TypesFg, Foreground
  <2> QED
    BY <1>3, <2>1, Fields, PortNames DEF Control, Past, ResetAt, ProbeAt, Types
<1> QED
  BY <1>2, <1>3 DEF Unmask, Open, Send, Restore

LEMMA ControlTalk ==
    ASSUME Types, Control, TimeOut \/ Acknowledged \/ Received
    PROVE  Control'
<1> USE DEF At
<1>1. UNCHANGED <<avail, res>>
  BY DEF TimeOut, Acknowledged, Received
<1>2. CASE TimeOut \/ Acknowledged
  <2>1. {"arg", "recv"} \subseteq Place
    BY DEF Place, CommandAt
  <2>2. /\ fg.pc \in {"ack", "argAck", "recv"}
        /\ \/ Closed("ok") \/ Closed("failed")
           \/ Goto("arg") /\ Command = "scanset" /\ fg.pc = "ack"
           \/ Goto("recv") /\ Command = "reset" /\ fg.pc \in {"ack", "argAck"}
    BY <1>2 DEF TimeOut, Acknowledged, Waiting
  <2>3. /\ fg'.port = fg.port /\ fg'.step = fg.step /\ fg'.n = fg.n
        /\ \/ fg'.pc = "close"
           \/ fg'.pc = "arg" /\ fg.step = 3 /\ fg.port = "kbd" /\ fg.pc = "ack"
           \/ fg'.pc = "recv" /\ fg.step = 1 /\ fg.pc \in {"ack", "argAck"}
    BY <2>1, <2>2, GoesTo, Closes, Commands DEF Types, Result
  <2>4. fg.step = 1 => Recv' > 0
    BY <2>3, RecvSame, Commands DEF Types
  <2> QED
    BY <1>1, <2>2, <2>3, <2>4, Fields, PortNames DEF Control, Past, ResetAt, ProbeAt, Types
<1>3. CASE Received
  <2>1. /\ fg.pc = "recv" /\ fg'.port = fg.port /\ fg'.step = fg.step /\ fg'.n = fg.n + 1
        /\ fg'.pc = IF fg.n + 1 = Recv THEN "close" ELSE "recv"
    BY <1>3 DEF Received, Types, TypesFg, Foreground
  <2>2. fg.n + 1 # Recv => fg.n + 1 < Recv'
    BY <2>1, RecvSame, Commands, Fields DEF Control, Types
  <2> QED
    BY <1>1, <2>1, <2>2, Fields, PortNames DEF Control, Past, ResetAt, ProbeAt, Types
<1> QED
  BY <1>2, <1>3

LEMMA ControlJudge == ASSUME Types, Control, Judge PROVE Control'
<1> USE DEF At
<1>1. fg.pc = "judge" /\ fg.port \in avail
  BY Fields DEF Judge, Control, ResetAt, ProbeAt, Types
<1>2. CASE \E r : ResetReturns(r)
  BY <1>1, <1>2, ControlReturns
<1>3. CASE fg' = [fg EXCEPT !.pc = "open", !.ret = "ok", !.tries = @ + 1] /\ UNCHANGED <<avail, res>>
  <2>1. fg'.pc = "open" /\ fg'.port = fg.port /\ fg'.step = fg.step /\ fg'.n = fg.n
    BY <1>3 DEF Types, TypesFg, Foreground
  <2> QED
    BY <1>1, <1>3, <2>1, Fields, PortNames DEF Control, Past, ResetAt, ProbeAt, Types
<1>4. CASE fg' = [Serving(fg.port, "mask") EXCEPT !.step = fg.step + 1] /\ UNCHANGED <<avail, res>>
  <2>1. fg'.pc = "mask" /\ fg'.port = fg.port /\ fg'.step = fg.step + 1 /\ fg'.n = 0
    BY <1>4 DEF Serving
  <2> QED
    BY <1>1, <1>4, <2>1, Fields, PortNames DEF Control, Past, ResetAt, ProbeAt, Types
<1> QED
  BY <1>2, <1>3, <1>4 DEF Judge

-----------------------------------------------------------------------------
(* The control byte.                                                       *)

LEMMA BitNames ==
    /\ \A p, q \in Ports : INT(p) # DIS(q) /\ (INT(p) = INT(q) <=> p = q) /\ (DIS(p) = DIS(q) <=> p = q)
    /\ Other("kbd") = "aux" /\ Other("aux") = "kbd"
  BY PortNames DEF INT, DIS, Other

(* How far a port has come does not go back.                               *)
LEMMA Further ==
    ASSUME Types, Control, fg.pc # "idle", fg'.port \in Ports,
           \/ fg'.port = fg.port /\ (fg.step = 4 /\ fg.pc # "mask" =>
                                       fg'.step = 4 /\ fg'.pc # "mask" /\ (fg.pc = "judge" => fg'.pc = "judge"))
           \/ fg'.port = "aux" /\ (fg.port = "aux" => fg'.pc = "idle")
    PROVE  \A p \in Ports : (Opened(p) => Opened(p)') /\ (Started(p) => Started(p)')
  BY Fields, PortNames DEF Past, Opened, Started, Types

(* A step of the foreground that leaves both control bytes alone.          *)
LEMMA MasksForeground ==
    ASSUME Types, Control, Masks, UNCHANGED <<ctr, hw>>, ~handler', fg.pc # "disKbd",
           fg.pc # "idle", fg'.port \in Ports, fg'.pc # "disKbd",
           \/ fg'.port = fg.port /\ (fg.step = 4 /\ fg.pc # "mask" =>
                                       fg'.step = 4 /\ fg'.pc # "mask" /\ (fg.pc = "judge" => fg'.pc = "judge"))
           \/ fg'.port = "aux" /\ (fg.port = "aux" => fg'.pc = "idle"),
           fg'.step = 4 /\ fg'.pc # "mask" => fg.step = 4 /\ fg.pc # "mask" /\ fg'.port = fg.port,
           fg'.pc \in CommandAt => fg.pc \in CommandAt,
           answers' = answers \/ ~Loud \/ DIS("kbd") \notin ctr
    PROVE  Masks'
<1>1. \A p \in Ports : (Opened(p) => Opened(p)') /\ (Started(p) => Started(p)')
  BY Further
<1>2. Loud' <=> Loud
  BY DEF Loud
<1> QED
  BY <1>1, <1>2 DEF Masks

LEMMA NotLoud ==
    ASSUME Types, Control, Masks, fg.port = "kbd", fg.step # 4
    PROVE  ~Loud
  BY Fields, PortNames DEF Masks, Loud, Started, Past, Types

LEMMA MasksReset ==
    ASSUME Types, Control, Masks, DisableKbd \/ DisableAux \/ SelfTest \/ SelfAnswer
    PROVE  Masks'
<1> USE DEF At, Write, Ready, Stuck
<1>1. PICK l \in {"disAux", "flush0", "selfAnswer", "test"} : Goto(l)
  BY DEF DisableKbd, DisableAux, SelfTest, SelfAnswer
<1>2. /\ ~handler /\ ~handler'
      /\ fg.pc \in {"disKbd", "disAux", "selfTest", "selfAnswer"}
  BY DEF DisableKbd, DisableAux, SelfTest, SelfAnswer
<1>3. l \in Place
  BY DEF Place, ProbeAt, ResetAt
<1>4. /\ fg'.pc = l /\ fg'.port = fg.port /\ fg'.step = fg.step
  BY <1>1, <1>3, GoesTo DEF Types
<1>5. fg.port = "kbd" /\ fg.step = 1
  BY <1>2 DEF Control, ResetAt, ProbeAt
<1>6. ~Loud
  BY <1>5, NotLoud
<1>7. CASE DisableKbd
  <2>1. ctr' = {DIS("kbd"), DIS("aux")} /\ (hw' = hw \/ hw' = hw \union {DIS("kbd")})
    BY <1>7 DEF DisableKbd
  <2>2. ~Loud'
    BY <1>6, <2>1, PortNames, BitNames DEF Loud
  <2>3. \A p \in Ports : INT(p) \notin ctr' /\ DIS(p) \in ctr'
    BY <2>1, PortNames, BitNames
  <2> QED
    BY <1>2, <1>4, <1>5, <2>2, <2>3 DEF Masks, Loud
<1>8. CASE ~DisableKbd
  <2>1. ctr' = ctr /\ (hw' = hw \/ hw' = hw \union {DIS("aux")}) /\ fg.pc # "disKbd"
    BY <1>8 DEF DisableAux, SelfTest, SelfAnswer
  <2>2. ~Loud'
    BY <1>6, <2>1, PortNames, BitNames DEF Loud
  <2>3. \A p \in Ports : INT(p) \notin ctr
    BY <1>2, <1>5, Fields, PortNames DEF Masks, Opened, Past
  <2> QED
    BY <1>2, <1>4, <1>5, <2>1, <2>2, <2>3 DEF Masks, Loud
<1> QED
  BY <1>7, <1>8

LEMMA MasksFlush == ASSUME Types, Control, Masks, FlushStatus \/ FlushRead PROVE Masks'
<1> USE DEF At
<1>1. /\ UNCHANGED <<ctr, hw, answers>> /\ ~handler'
      /\ fg.pc \in {"flush0", "flushRead0", "flush", "flushRead"}
  BY DEF FlushStatus, FlushRead, devices
<1>2. fg.step = 1
  BY <1>1 DEF Control, ProbeAt, ResetAt
<1>3. \/ /\ fg'.port = fg.port /\ fg'.step = fg.step
         /\ fg'.pc \in {"flushRead0", "selfTest", "mask", "flushRead", "flush0", "flush", "test"}
      \/ ResetReturns("failed")
  <2>1. CASE FlushStatus
    BY <2>1 DEF FlushStatus, Goto, Types, TypesFg, Foreground
  <2>2. CASE FlushRead
    BY <2>2 DEF FlushRead, Types, TypesFg, Foreground
  <2> QED
    BY <2>1, <2>2
<1>4. CASE ResetReturns("failed")
  BY <1>1, <1>2, <1>4, Next2, Fields, PortNames, MasksForeground DEF ResetReturns, Types, CommandAt
<1>5. CASE /\ fg'.port = fg.port /\ fg'.step = fg.step
           /\ fg'.pc \in {"flushRead0", "selfTest", "mask", "flushRead", "flush0", "flush", "test"}
  BY <1>1, <1>2, <1>5, Fields, MasksForeground DEF CommandAt, Types
<1> QED
  BY <1>3, <1>4, <1>5

LEMMA MasksProbe ==
    ASSUME Types, Control, Masks, TestKbd \/ KbdAnswer \/ EnableKbd \/ TestAux
    PROVE  Masks'
<1> USE DEF At, Write, Ready, Stuck
<1>1. /\ ctr' = ctr /\ ~handler'
      /\ fg.pc \in {"test", "answer", "enable", "enable2"}
      /\ answers' = answers \/ fg.pc = "test"
      /\ hw' = hw \/ (hw' = hw \ {DIS("kbd")} /\ fg.pc # "test")
  BY DEF TestKbd, KbdAnswer, EnableKbd, TestAux, devices
<1>2. fg.step = 1 /\ (fg.pc # "test" => fg.port = "kbd")
  BY <1>1 DEF Control, ProbeAt, ResetAt
<1>3. \/ fg'.port = fg.port /\ fg'.step = 1 /\ fg'.pc \in {"answer", "enable", "enable2", "flush"}
      \/ /\ fg'.port = "aux" /\ fg'.step = 1 /\ fg'.pc \in {"test", "idle"}
         /\ fg.port = "aux" => fg'.pc = "idle"
  <2>1. {"answer", "enable", "enable2", "flush"} \subseteq Place
    BY DEF Place, ProbeAt
  <2>2. \/ \E l \in {"answer", "enable", "enable2", "flush"} : Goto(l)
        \/ NextDevice
    BY DEF TestKbd, KbdAnswer, EnableKbd, TestAux, ProbeFails, ResetReturns
  <2> QED
    BY <1>2, <2>1, <2>2, GoesTo, Next2, Fields DEF Types
<1>4. fg.port = "aux" \/ ~Loud
  BY <1>2, NotLoud, Fields DEF Types
<1>5. CASE hw' = hw
  <2>1. ~Loud \/ answers' = answers \/ DIS("kbd") \notin ctr
    <3>1. CASE fg.port = "aux" /\ Loud
      <4>1. INT("aux") \notin ctr
        BY <1>1, <1>2, <3>1, PortNames DEF Masks, Opened, Past
      <4>2. INT("kbd") \in ctr
        BY <3>1, <4>1, PortNames DEF Masks, Loud
      <4> QED
        BY <1>1, <4>2, PortNames DEF Masks
    <3> QED
      BY <1>4, <3>1
  <2> QED
    BY <1>1, <1>2, <1>3, <1>5, <2>1, Fields, PortNames, MasksForeground DEF CommandAt, Types
<1>6. CASE hw' = hw \ {DIS("kbd")} /\ fg.pc # "test"
  <2>1. ~Loud /\ ~Loud'
    BY <1>2, <1>4, <1>6, PortNames, BitNames DEF Loud
  <2>2. \A p \in Ports : INT(p) \notin ctr
    BY <1>1, <1>2, <1>6, PortNames DEF Masks, Opened, Past
  <2> QED
    BY <1>1, <1>2, <1>3, <2>1, <2>2 DEF Masks, Loud
<1> QED
  BY <1>1, <1>5, <1>6

LEMMA MasksUnmask == ASSUME Types, Control, Masks, Unmask PROVE Masks'
<1> USE DEF At
<1>1. /\ UNCHANGED <<hw, answers>> /\ ~handler' /\ fg.pc = "mask"
      /\ fg'.port = fg.port /\ fg'.step = fg.step /\ fg'.pc = "open"
  BY PlaceNames, GoesTo DEF Unmask, devices, Types
<1>2. CASE fg.step # 4
  <2>1. ctr' = ctr
    BY <1>2, Commands DEF Unmask, Types
  <2> QED
    BY <1>1, <1>2, <2>1, Fields, MasksForeground DEF CommandAt, Types
<1>3. CASE fg.step = 4
  <2>1. ctr' = (ctr \union {INT(fg.port)}) \ {DIS(fg.port)}
    BY <1>3, Commands DEF Unmask, Types
  <2>2. \A p \in Ports : /\ INT(p) \in ctr' <=> INT(p) \in ctr \/ p = fg.port
                         /\ DIS(p) \in ctr' <=> DIS(p) \in ctr /\ p # fg.port
    BY <2>1, Fields, BitNames DEF Types
  <2>3. \A p \in Ports : (Opened(p) => Opened(p)') /\ (Started(p) => Started(p)')
    BY <1>1, <1>3, Fields, Further DEF Types
  <2>4. Opened(fg.port)'
    BY <1>1, <1>3 DEF Opened
  <2>5. Loud' <=> Loud
    BY <1>1 DEF Loud
  <2> QED
    BY <1>1, <1>3, <2>2, <2>3, <2>4, <2>5, PortNames, Fields DEF Masks, CommandAt, Types
<1> QED
  BY <1>2, <1>3

LEMMA MasksOpen == ASSUME Types, Control, Masks, Open PROVE Masks'
<1> USE DEF At, Write, Ready, Stuck
<1>1. /\ UNCHANGED <<ctr, answers>> /\ ~handler' /\ fg.pc = "open"
      /\ fg'.port = fg.port /\ fg'.step = fg.step /\ fg'.pc \in {"send", "close"}
      /\ hw' = Quiet(ctr, fg.port) \/ (hw' = hw /\ fg'.pc = "close")
  BY Closes DEF Open, devices, Types, TypesFg, Foreground, Result
<1>2. \A p \in Ports : (Opened(p) => Opened(p)') /\ (Started(p) => Started(p)')
  BY <1>1, Fields, Further DEF Types
<1>3. CASE hw' = Quiet(ctr, fg.port)
  <2>1. ~Loud'
    BY <1>3, BitNames, Fields, PortNames DEF Loud, Quiet, Types
  <2> QED
    BY <1>1, <1>2, <2>1 DEF Masks, Loud
<1>4. CASE hw' = hw /\ fg'.pc = "close"
  BY <1>1, <1>4, Fields, MasksForeground DEF CommandAt, Types
<1> QED
  BY <1>1, <1>3, <1>4

LEMMA MasksTalk ==
    ASSUME Types, Control, Masks, Send \/ TimeOut \/ Acknowledged \/ Received
    PROVE  Masks'
<1> USE DEF At, Ready, Stuck
<1>1. /\ UNCHANGED <<ctr, hw, answers>> /\ ~handler' /\ fg.pc \in CommandAt
  BY DEF Send, TimeOut, Acknowledged, Received, devices, Waiting, CommandAt
<1>2. fg'.port = fg.port /\ fg'.step = fg.step /\ fg'.pc \in CommandAt \union {"close"}
  <2>1. {"ack", "argAck", "arg", "recv"} \subseteq Place
    BY DEF Place, CommandAt
  <2>2. \/ \E l \in {"ack", "argAck", "arg", "recv"} : Goto(l)
        \/ Closed("ok") \/ Closed("failed")
        \/ Received
    BY DEF Send, TimeOut, Acknowledged
  <2>3. CASE Received
    BY <2>3 DEF Received, CommandAt, Types, TypesFg, Foreground
  <2> QED
    BY <2>1, <2>2, <2>3, GoesTo, Closes DEF Types, CommandAt, Result
<1> QED
  BY <1>1, <1>2, Fields, MasksForeground DEF CommandAt, Types

LEMMA MasksRestore == ASSUME Types, Control, Masks, Restore PROVE Masks'
<1> USE DEF At, Write, Ready, Stuck
<1>1. /\ UNCHANGED <<ctr, answers>> /\ ~handler' /\ fg.pc = "close"
      /\ fg'.port = fg.port /\ fg'.step = fg.step /\ fg'.pc = "judge"
      /\ hw' = hw \/ (hw' = ctr /\ answers = <<>>)
  BY PlaceNames, GoesTo DEF Restore, devices, Types, TypesFg, Foreground, Result
<1>2. \A p \in Ports : (Opened(p) => Opened(p)') /\ (Started(p) => Started(p)')
  BY <1>1, Fields, Further DEF Types
<1>3. CASE hw' = ctr /\ answers = <<>>
  <2>1. \A p \in Ports : Started(p)' <=> Opened(p)
    BY <1>1 DEF Opened, Started, Past
  <2>2. \A p \in Ports : (INT(p) \in ctr <=> DIS(p) \notin ctr) /\ (INT(p) \in ctr => Opened(p))
    BY <1>1 DEF Masks
  <2> QED
    BY <1>1, <1>2, <1>3, <2>1, <2>2 DEF Masks, CommandAt, Loud
<1>4. CASE hw' = hw
  BY <1>1, <1>4, Fields, MasksForeground DEF CommandAt, Types
<1> QED
  BY <1>1, <1>3, <1>4

LEMMA MasksJudge == ASSUME Types, Control, Masks, Judge PROVE Masks'
<1> USE DEF At
<1>1. UNCHANGED <<ctr, hw, answers>> /\ ~handler' /\ fg.pc = "judge"
  BY DEF Judge, devices
<1>2. \/ fg'.port = fg.port /\ fg'.step = fg.step /\ fg.step = 1 /\ fg'.pc = "open"
      \/ fg'.port = fg.port /\ fg.step # 4 /\ fg'.pc = "mask"
      \/ fg'.port = "aux" /\ fg'.step = 1 /\ fg'.pc = IF fg.port = "aux" THEN "idle" ELSE "test"
  <2>1. CASE NextDevice
    BY <2>1, Next2, Fields DEF Types
  <2>2. CASE fg.step # 4 /\ fg' = [Serving(fg.port, "mask") EXCEPT !.step = fg.step + 1]
    BY <2>2 DEF Serving
  <2>3. CASE fg.step = 1 /\ fg' = [fg EXCEPT !.pc = "open", !.ret = "ok", !.tries = @ + 1]
    BY <2>3 DEF Types, TypesFg, Foreground
  <2> QED
    BY <2>1, <2>2, <2>3, Fields DEF Judge, ResetReturns, Types
<1> QED
  BY <1>1, <1>2, Fields, MasksForeground, PortNames DEF CommandAt, Types

LEMMA LoudKeyboard == ASSUME Types, Control, Masks, Loud PROVE Started("kbd") /\ fg.pc # "disKbd"
  BY Fields, PortNames DEF Masks, Loud, Started, Past, Types

LEMMA MasksBus ==
    ASSUME Types, Control, Masks, DeliverAnswer \/ \E p \in Ports : Deliver(p)
    PROVE  Masks'
<1>1. /\ UNCHANGED <<ctr, hw, fg, handler>>
      /\ answers' = answers \/ (DeliverAnswer /\ answers # <<>> /\ answers' = Tail(answers))
  BY DEF DeliverAnswer, Deliver
<1>2. \A p \in Ports : (Opened(p) <=> Opened(p)') /\ (Started(p) <=> Started(p)')
  BY <1>1 DEF Opened, Started, Past
<1>3. Loud' <=> Loud
  BY <1>1 DEF Loud
<1>4. Loud /\ DIS("kbd") \in ctr => answers' = <<>>
  BY <1>1 DEF Masks
<1>5. handler => INT(PortOf(obf')) \in ctr /\ Started(PortOf(obf'))
  <2> SUFFICES ASSUME handler PROVE INT(PortOf(obf')) \in ctr /\ Started(PortOf(obf'))
    OBVIOUS
  <2>1. Loud /\ fg.pc # "disKbd"
    BY LoudKeyboard DEF Masks
  <2>2. CASE DeliverAnswer
    <3>1. PortOf(obf') = "kbd"
      BY <2>2 DEF DeliverAnswer, PortOf
    <3>2. DIS("kbd") \notin ctr
      BY <2>1, <2>2 DEF Masks, DeliverAnswer
    <3> QED
      BY <2>1, <3>1, <3>2, LoudKeyboard, PortNames DEF Masks
  <2>3. ASSUME NEW p \in Ports, Deliver(p) PROVE INT(PortOf(obf')) \in ctr /\ Started(PortOf(obf'))
    <3>1. PortOf(obf') = p
      BY <2>3, PortNames DEF Deliver, PortOf
    <3>2. DIS(p) \notin ctr /\ Started(p)
      BY <2>1, <2>3 DEF Masks, Deliver
    <3> QED
      BY <2>1, <3>1, <3>2 DEF Masks
  <2> QED
    BY <2>2, <2>3
<1>6. handler => INT(PortOf(obf)') \in ctr /\ Started(PortOf(obf))'
  <2>1. PortOf(obf') \in Ports
    BY PortNames DEF PortOf
  <2> QED
    BY <1>1, <1>5, <2>1 DEF Started, Past, PortOf
<1> QED
  BY <1>1, <1>2, <1>3, <1>4, <1>5, <1>6 DEF Masks

LEMMA MasksHandler ==
    ASSUME Types, Control, Masks,
           Discard \/ Interrupt \/ HandlerEnds \/ HandlerKey \/ HandlerMouse \/ GetStatus \/ Type \/ Move
    PROVE  Masks'
<1>1. /\ UNCHANGED <<ctr, hw, fg, answers>>
      /\ \/ handler' = FALSE \/ (handler' = handler /\ (obf' = obf \/ obf' = Empty))
         \/ handler' = TRUE /\ obf # Empty /\ obf' = obf /\ INT(PortOf(obf)) \in hw
  BY DEF Discard, Interrupt, HandlerEnds, HandlerKey, HandlerMouse, HandlerTakes, GetStatus, Type, Move,
         devices
<1>2. \A p \in Ports : (Opened(p) <=> Opened(p)') /\ (Started(p) <=> Started(p)')
  BY <1>1 DEF Opened, Started, Past
<1>3. Loud' <=> Loud
  BY <1>1 DEF Loud
<1>4. PortOf(obf) \in Ports
  BY PortNames DEF PortOf
<1>5. INT(PortOf(obf)) \in hw => Loud /\ INT(PortOf(obf)) \in ctr /\ Started(PortOf(obf))
  BY <1>4 DEF Masks, Loud
<1>6. handler' => Loud
  BY <1>1, <1>5 DEF Masks
<1>7. handler' /\ obf' # Empty => obf' = obf /\ INT(PortOf(obf)) \in ctr /\ Started(PortOf(obf))
  BY <1>1, <1>5 DEF Masks
<1>8. handler' /\ obf' # Empty => INT(PortOf(obf)') \in ctr' /\ Started(PortOf(obf))'
  BY <1>1, <1>2, <1>4, <1>7 DEF Started, Past
<1> QED
  BY <1>1, <1>2, <1>3, <1>6, <1>8 DEF Masks

-----------------------------------------------------------------------------
(* What the ports have yet to say.                                         *)

LEMMA Devices ==
    ASSUME Types, NEW p \in Ports
    PROVE  /\ dev[p] \in Device /\ dev[p].out \in Seq(Byte)
           /\ obf # Empty => obf[2] \in Byte
           /\ Said(p) \in Seq(Byte) /\ Stream(p) \in Seq(Byte)
<1>1. dev[p] \in Device /\ dev[p].out \in Seq(Byte)
  BY DEF Types, TypesBus, Device
<1>2. obf # Empty => obf[2] \in Byte
  BY DEF Types, TypesBus
<1>3. Said(p) \in Seq(Byte)
  BY <1>2 DEF Said
<1>4. Stream(p) \in Seq(Byte)
  BY <1>1, <1>3, ConcatProperties DEF Stream
<1> QED
  BY <1>1, <1>2, <1>3, <1>4

LEMMA HeadFirst ==
    ASSUME NEW S, NEW a \in S, NEW s \in Seq(S)
    PROVE  /\ <<a>> \o s \in Seq(S) /\ <<a>> \o s # <<>>
           /\ (<<a>> \o s)[1] = a /\ Tail(<<a>> \o s) = s
           /\ Len(<<a>> \o s) = Len(s) + 1
<1>1. <<a>> \in Seq(S) /\ Len(<<a>>) = 1 /\ <<a>>[1] = a /\ Len(s) \in Nat
  OBVIOUS
<1>2. <<a>> \o s \in Seq(S) /\ Len(<<a>> \o s) = 1 + Len(s)
  BY <1>1, ConcatProperties
<1>3. \A i \in 1..1 + Len(s) : (<<a>> \o s)[i] = IF i <= 1 THEN <<a>>[i] ELSE s[i - 1]
  BY <1>1, ConcatProperties
<1>4. <<a>> \o s # <<>> /\ (<<a>> \o s)[1] = a
  BY <1>1, <1>2, <1>3
<1>5. /\ Tail(<<a>> \o s) \in Seq(S) /\ Len(Tail(<<a>> \o s)) = Len(s)
      /\ \A i \in 1..Len(s) : Tail(<<a>> \o s)[i] = (<<a>> \o s)[i + 1]
  BY <1>1, <1>2, <1>4, HeadTailProperties
<1>6. \A i \in 1..Len(s) : Tail(<<a>> \o s)[i] = s[i]
  <2> TAKE i \in 1..Len(s)
  <2>1. i \in Int /\ i >= 1 /\ i <= Len(s) /\ i + 1 \in 1..1 + Len(s) /\ ~(i + 1 <= 1) /\ i + 1 - 1 = i
    BY <1>1
  <2>2. (<<a>> \o s)[i + 1] = s[i + 1 - 1]
    BY <1>3, <2>1
  <2> QED
    BY <1>5, <2>1, <2>2
<1>7. Tail(<<a>> \o s) = s
  BY <1>5, <1>6, SeqEqual
<1> QED
  BY <1>1, <1>2, <1>4, <1>7

LEMMA HeadAndTail ==
    ASSUME NEW S, NEW s \in Seq(S), s # <<>>
    PROVE  <<Head(s)>> \o Tail(s) = s
<1>1. /\ Head(s) \in S /\ Tail(s) \in Seq(S) /\ Len(Tail(s)) = Len(s) - 1 /\ Len(s) \in Nat
      /\ Head(s) = s[1]
      /\ \A i \in 1..Len(Tail(s)) : Tail(s)[i] = s[i + 1]
  BY HeadTailProperties
<1> DEFINE t == <<Head(s)>> \o Tail(s)
<1>2. /\ t \in Seq(S) /\ Len(t) = Len(s) /\ t # <<>> /\ t[1] = s[1] /\ Tail(t) = Tail(s)
  BY <1>1, HeadFirst
<1>3. \A i \in 1..Len(s) : t[i] = s[i]
  <2> TAKE i \in 1..Len(s)
  <2>1. CASE i = 1
    BY <1>2, <2>1
  <2>2. CASE i # 1
    <3>1. i - 1 \in 1..Len(Tail(s)) /\ i - 1 + 1 = i
      BY <1>1, <2>2
    <3>2. \A j \in 1..Len(Tail(t)) : Tail(t)[j] = t[j + 1]
      BY <1>2, HeadTailProperties
    <3> HIDE DEF t
    <3> QED
      BY <1>1, <1>2, <3>1, <3>2
  <2> QED
    BY <2>1, <2>2
<1> HIDE DEF t
<1>4. t = s
  BY <1>2, <1>3, SeqEqual
<1> QED
  BY <1>4 DEF t

(* A byte that enters the buffer leaves every stream as it is.             *)
LEMMA StreamKept ==
    ASSUME Types, NEW p \in Ports, DeliverAnswer \/ \E q \in Ports : Deliver(q)
    PROVE  Stream(p)' = Stream(p)
<1>1. Said(p) = <<>> /\ Stream(p) = dev[p].out
  <2>1. Said(p) = <<>>
    BY DEF Said, DeliverAnswer, Deliver
  <2> QED
    BY <2>1, Devices DEF Stream
<1>2. CASE DeliverAnswer
  <2>1. Said(p)' = <<>> /\ dev' = dev
    BY <1>2, PortNames DEF DeliverAnswer, Said
  <2> QED
    BY <1>1, <2>1 DEF Stream, Said
<1>3. ASSUME NEW q \in Ports, Deliver(q) PROVE Stream(p)' = Stream(p)
  <2>1. /\ obf' = <<q, Head(dev[q].out)>> /\ dev[q].out # <<>>
        /\ dev' = [dev EXCEPT ![q].out = Tail(dev[q].out)]
    BY <1>3 DEF Deliver
  <2>2. dev[q] \in Device /\ dev \in [Ports -> Device]
    BY Devices DEF Types, TypesBus
  <2>3. CASE p = q
    <3>1. dev'[p].out = Tail(dev[p].out)
      BY <2>1, <2>2, <2>3 DEF Device
    <3>2. Said(p)' = <<Head(dev[p].out)>>
      BY <2>1, <2>3 DEF Said, Empty
    <3>3. <<Head(dev[p].out)>> \o Tail(dev[p].out) = dev[p].out
      BY <2>1, <2>3, Devices, HeadAndTail
    <3> QED
      BY <1>1, <3>1, <3>2, <3>3 DEF Stream
  <2>4. CASE p # q
    <3>1. dev'[p] = dev[p]
      BY <2>1, <2>2, <2>4
    <3>2. Said(p)' = <<>>
      BY <2>1, <2>4 DEF Said
    <3> QED
      BY <1>1, <3>1, <3>2 DEF Stream, Said
  <2> QED
    BY <2>3, <2>4
<1> QED
  BY <1>2, <1>3

(* A byte that leaves the buffer was the first of its port's stream.       *)
LEMMA StreamTaken ==
    ASSUME Types, NEW p \in Ports, obf' = Empty, dev'[p].out = dev[p].out
    PROVE  /\ obf # Empty /\ obf[1] = p =>
                /\ Stream(p) # <<>> /\ Stream(p)[1] = obf[2] /\ Stream(p)' = Tail(Stream(p))
           /\ ~(obf # Empty /\ obf[1] = p) => Stream(p)' = Stream(p)
<1>1. Said(p)' = <<>>
  BY DEF Said
<1>2. Stream(p)' = dev[p].out
  BY <1>1, Devices DEF Stream
<1>3. CASE obf # Empty /\ obf[1] = p
  <2>1. Stream(p) = <<obf[2]>> \o dev[p].out
    BY <1>3 DEF Stream, Said
  <2>2. obf[2] \in Byte /\ dev[p].out \in Seq(Byte)
    BY <1>3, Devices
  <2> QED
    BY <1>2, <1>3, <2>1, <2>2, HeadFirst
<1>4. CASE ~(obf # Empty /\ obf[1] = p)
  <2>1. Said(p) = <<>>
    BY <1>4 DEF Said
  <2> QED
    BY <1>2, <1>4, <2>1, Devices DEF Stream
<1> QED
  BY <1>3, <1>4

LEMMA StreamSame ==
    ASSUME NEW p \in Ports, obf' = obf, dev'[p].out = dev[p].out
    PROVE  Stream(p)' = Stream(p)
  BY DEF Stream, Said

(* Fewer bytes, or one more that is no acknowledgement.                    *)
LEMMA AckFreeTail ==
    ASSUME NEW f \in Seq(Byte), f # <<>>, AckFree(f)
    PROVE  AckFree(Tail(f)) /\ ~Begins(f, "ack")
<1>1. /\ Tail(f) \in Seq(Byte) /\ Len(Tail(f)) = Len(f) - 1 /\ Len(f) \in Nat /\ Len(f) > 0
      /\ \A i \in 1..Len(Tail(f)) : Tail(f)[i] = f[i + 1]
  BY HeadTailProperties, EmptySeq
<1>2. \A i \in 1..Len(Tail(f)) : i + 1 \in 1..Len(f)
  BY <1>1
<1>3. 1 \in 1..Len(f)
  BY <1>1
<1> QED
  BY <1>1, <1>2, <1>3 DEF AckFree, Begins

LEMMA AckFreeMore ==
    ASSUME NEW f \in Seq(Byte), NEW b \in Byte, b[1] # "ack", AckFree(f)
    PROVE  AckFree(Append(f, b))
<1>1. /\ Len(Append(f, b)) = Len(f) + 1 /\ Len(f) \in Nat
      /\ \A i \in 1..Len(f) : Append(f, b)[i] = f[i]
      /\ Append(f, b)[Len(f) + 1] = b
  BY AppendProperties
<1>2. \A i \in 1..Len(f) + 1 : i \in 1..Len(f) \/ i = Len(f) + 1
  BY <1>1
<1> QED
  BY <1>1, <1>2 DEF AckFree

-----------------------------------------------------------------------------
(* The foreground and the devices keep in step.                            *)

(* Bytes come and go, and no device is told anything.                      *)
LEMMA SilentStays ==
    ASSUME Types, Silent, dev' = dev, obf' = obf \/ obf' = Empty
    PROVE  Silent'
<1> SUFFICES ASSUME NEW p \in Ports, ~dev[p].here PROVE Stream(p)' = <<>>
  BY DEF Silent
<1>1. Stream(p) = <<>>
  BY DEF Silent
<1> QED
  BY <1>1, StreamTaken, StreamSame

(* A step of the foreground that is not about an answer.                   *)
LEMMA SyncProbe ==
    ASSUME Types, Control, Sync, dev' = dev, obf' = obf \/ obf' = Empty, misled' = misled,
           fg.pc # "idle", fg.step = 1, fg'.step = 1,
           fg'.pc \notin {"ack", "argAck", "recv", "close", "judge"},
           res' = res \/ (fg.port \in Ports /\ res' = [res EXCEPT ![fg.port] = "failed"]),
           \A p \in Ports : INT(p) \in ctr /\ Past(p) => INT(p) \in ctr'
    PROVE  Sync'
<1>1. Silent'
  BY SilentStays DEF Sync
<1>2. MouseOff'
  BY DEF Sync, MouseOff, Past
<1>3. \A p \in Ports : InStep(p)'
  BY DEF InStep, SyncAck, SyncFirst, SyncLater
<1>4. Successful'
  BY DEF Sync, Successful, Control, Types, TypesFg
<1> QED
  BY <1>1, <1>2, <1>3, <1>4 DEF Sync

LEMMA SyncReset ==
    ASSUME Types, Control, Sync, DisableKbd \/ DisableAux \/ SelfTest \/ SelfAnswer
    PROVE  Sync'
<1> USE DEF At, Write, Ready, Stuck
<1>1. PICK l \in {"disAux", "flush0", "selfAnswer", "test"} : Goto(l)
  BY DEF DisableKbd, DisableAux, SelfTest, SelfAnswer
<1>2. /\ dev' = dev /\ (obf' = obf \/ obf' = Empty) /\ UNCHANGED <<misled, res>>
      /\ fg.pc \in {"disKbd", "disAux", "selfTest", "selfAnswer"}
      /\ ctr' = ctr \/ fg.pc = "disKbd"
  BY DEF DisableKbd, DisableAux, SelfTest, SelfAnswer, devices, bounds
<1>3. l \in Place
  BY DEF Place, ProbeAt, ResetAt
<1>4. /\ fg'.pc = l /\ fg'.step = fg.step
  BY <1>1, <1>3, GoesTo DEF Types
<1>5. fg.port = "kbd" /\ fg.step = 1
  BY <1>2 DEF Control, ResetAt, ProbeAt
<1>6. \A p \in Ports : INT(p) \in ctr /\ Past(p) => INT(p) \in ctr'
  BY <1>2, <1>5 DEF Past
<1> QED
  BY <1>2, <1>4, <1>5, <1>6, SyncProbe

LEMMA SyncFlush == ASSUME Types, Control, Sync, FlushStatus \/ FlushRead PROVE Sync'
<1> USE DEF At
<1>1. /\ UNCHANGED <<ctr, dev, misled>>
      /\ obf' = obf \/ obf' = Empty
      /\ fg.pc \in {"flush0", "flushRead0", "flush", "flushRead"}
  BY DEF FlushStatus, FlushRead, devices, bounds
<1>2. fg.step = 1 /\ fg.port \in Ports
  BY <1>1, Fields DEF Control, ProbeAt, ResetAt, Types
<1>3. \/ /\ fg'.port = fg.port /\ fg'.step = fg.step /\ res' = res
         /\ fg'.pc \in {"flushRead0", "selfTest", "mask", "flushRead", "flush0", "flush", "test"}
      \/ ResetReturns("failed")
  <2>1. CASE FlushStatus
    BY <2>1 DEF FlushStatus, Goto, Types, TypesFg, Foreground
  <2>2. CASE FlushRead
    BY <2>2 DEF FlushRead, Types, TypesFg, Foreground
  <2> QED
    BY <2>1, <2>2
<1>4. CASE ResetReturns("failed")
  <2>1. fg'.step = 1 /\ fg'.pc \in {"test", "idle"} /\ res' = [res EXCEPT ![fg.port] = "failed"]
    BY <1>4, Next2, Fields DEF ResetReturns, Types
  <2> QED
    BY <1>1, <1>2, <2>1, SyncProbe
<1>5. CASE /\ fg'.port = fg.port /\ fg'.step = fg.step /\ res' = res
           /\ fg'.pc \in {"flushRead0", "selfTest", "mask", "flushRead", "flush0", "flush", "test"}
  BY <1>1, <1>2, <1>5, SyncProbe
<1> QED
  BY <1>3, <1>4, <1>5

LEMMA SyncTest ==
    ASSUME Types, Control, Sync, TestKbd \/ KbdAnswer \/ EnableKbd \/ TestAux
    PROVE  Sync'
<1> USE DEF At, Write, Ready, Stuck
<1>1. /\ UNCHANGED <<ctr, dev, misled>>
      /\ obf' = obf \/ obf' = Empty
      /\ fg.pc \in {"test", "answer", "enable", "enable2"}
      /\ res' = res \/ res' = [res EXCEPT ![fg.port] = "failed"]
  BY DEF TestKbd, KbdAnswer, EnableKbd, TestAux, ProbeFails, ResetReturns, devices, bounds
<1>2. fg.step = 1 /\ fg.port \in Ports
  BY <1>1, Fields DEF Control, ProbeAt, ResetAt, Types
<1>3. fg'.step = 1 /\ fg'.pc \in {"answer", "enable", "enable2", "flush", "test", "idle"}
  <2>1. {"answer", "enable", "enable2", "flush"} \subseteq Place
    BY DEF Place, ProbeAt
  <2>2. \/ \E l \in {"answer", "enable", "enable2", "flush"} : Goto(l)
        \/ NextDevice
    BY DEF TestKbd, KbdAnswer, EnableKbd, TestAux, ProbeFails, ResetReturns
  <2> QED
    BY <1>2, <2>1, <2>2, GoesTo, Next2, Fields DEF Types
<1> QED
  BY <1>1, <1>2, <1>3, SyncProbe

LEMMA SyncMasks == ASSUME Types, Control, Sync, Unmask \/ Open PROVE Sync'
<1> USE DEF At, Write, Ready, Stuck
<1>1. /\ UNCHANGED <<dev, obf, misled, res>> /\ fg'.port = fg.port /\ fg'.step = fg.step
      /\ \/ fg.pc = "mask" /\ fg'.pc = "open"
         \/ fg.pc = "open" /\ fg'.pc = "send"
         \/ fg.pc = "open" /\ fg'.pc = "close" /\ fg'.ret = "failed"
  <2>1. CASE Unmask
    BY <2>1, PlaceNames, GoesTo DEF Unmask, devices, bounds, Types
  <2>2. CASE Open
    BY <2>2, Closes DEF Open, devices, Types, TypesFg, Foreground, Result
  <2> QED
    BY <2>1, <2>2
<1>2. \A p \in Ports : INT(p) \in ctr => INT(p) \in ctr'
  BY Fields, BitNames DEF Unmask, Open, Types
<1>3. \A p \in Ports : Stream(p)' = Stream(p)
  BY <1>1, StreamSame
<1>4. Silent'
  BY <1>1, <1>3 DEF Sync, Silent
<1>5. MouseOff'
  BY <1>1 DEF Sync, MouseOff, Past
<1>6. ASSUME NEW p \in Ports PROVE InStep(p)'
  <2>1. fg'.pc # "close" => \A f : Over(p, f) => Over(p, f)'
    BY <1>1 DEF Over
  <2>2. Stream(p)' = Stream(p)
    BY <1>3
  <2> QED
    BY <1>1, <2>1, <2>2 DEF Sync, InStep, SyncAck, SyncFirst, SyncLater, Over
<1>7. Successful'
  BY <1>1, <1>2 DEF Sync, Successful
<1> QED
  BY <1>4, <1>5, <1>6, <1>7 DEF Sync

LEMMA SyncRestore == ASSUME Types, Control, Sync, Restore \/ TimeOut PROVE Sync'
<1> USE DEF At, Write, Ready, Stuck
<1>1. /\ UNCHANGED <<ctr, dev, obf, misled, res>> /\ fg'.port = fg.port /\ fg'.step = fg.step
      /\ fg'.param = fg.param
      /\ \/ fg.pc = "close" /\ fg'.pc = "judge" /\ (fg'.ret = "failed" \/ fg'.ret = fg.ret)
         \/ fg.pc \in {"ack", "argAck", "recv"} /\ fg'.pc = "close" /\ fg'.ret = "failed"
  <2>1. CASE Restore
    BY <2>1, PlaceNames, GoesTo DEF Restore, devices, bounds, Types, TypesFg, Foreground, Result
  <2>2. CASE TimeOut
    BY <2>2, Closes DEF TimeOut, Waiting, devices, bounds, Types, Result
  <2> QED
    BY <2>1, <2>2
<1>3. \A p \in Ports : Stream(p)' = Stream(p)
  BY <1>1, StreamSame
<1>4. Silent'
  BY <1>1, <1>3 DEF Sync, Silent
<1>5. MouseOff'
  BY <1>1 DEF Sync, MouseOff, Past
<1>6. ASSUME NEW p \in Ports PROVE InStep(p)'
  <2>2. Stream(p)' = Stream(p)
    BY <1>3
  <2>3. Started(p) => Started(p)'
    BY <1>1 DEF Started, Past
  <2>4. \A f : fg.pc = "close" => (Over(p, f) => Over(p, f)')
    <3> SUFFICES ASSUME NEW f, fg.pc = "close", Over(p, f) PROVE Over(p, f)'
      OBVIOUS
    <3>1. Whole(f)' <=> Whole(f)
      BY DEF Whole, Restore, TimeOut, bounds
    <3> QED
      BY <1>1, <3>1 DEF Over
  <2>5. CASE fg'.ret = "failed"
    BY <1>1, <2>2, <2>5 DEF Sync, InStep, SyncAck, SyncFirst, SyncLater
  <2>6. CASE fg.pc = "close" /\ fg'.ret = fg.ret
    BY <1>1, <2>2, <2>3, <2>4, <2>6 DEF Sync, InStep, SyncAck, SyncFirst, SyncLater, Obeyed
  <2> QED
    BY <1>1, <2>5, <2>6
<1>7. Successful'
  BY <1>1 DEF Sync, Successful
<1> QED
  BY <1>4, <1>5, <1>6, <1>7 DEF Sync

(* What a device is like after it got a byte.                              *)
LEMMA Told ==
    ASSUME Types, NEW p \in Ports,
           NEW byte \in {"reset", "disable", "scanset", "setscale", "enable", "one"}, SendTo(p, byte)
    PROVE  /\ \A q \in Ports \ {p} : dev'[q] = dev[q]
           /\ dev'[p].here = dev[p].here
           /\ \/ ~dev[p].here /\ dev'[p] = dev[p]
              \/ /\ dev[p].here /\ dev'[p].out = <<<<"nak">>>>
                 /\ dev'[p].on = dev[p].on /\ (byte # "one" => dev'[p].set = dev[p].set)
              \/ /\ dev[p].here /\ byte = "reset" /\ dev'[p].on = (p = "kbd")
                 /\ dev'[p].out = IF p = "kbd" THEN <<<<"ack">>, <<"bat">>>>
                                               ELSE <<<<"ack">>, <<"bat">>, <<"id">>>>
              \/ /\ dev[p].here /\ byte # "reset" /\ dev'[p].out = <<<<"ack">>>>
                 /\ dev'[p].on = IF byte \in {"disable", "enable"} THEN byte = "enable" ELSE dev[p].on
                 /\ byte \in {"setscale", "one"} => dev'[p].set
                 /\ byte \in {"disable", "enable"} => dev'[p].set = dev[p].set
<1>1. PICK d \in Device : d = dev[p]
  BY Devices
<1>2. /\ \A q \in Ports \ {p} : dev'[q] = dev[q]
      /\ dev'[p] \in IF d.here THEN {Reaction(d, p, byte), Refused(d)} ELSE {d}
  BY <1>1, Sends
<1>3. CASE ~d.here
  BY <1>1, <1>2, <1>3
<1>4. CASE d.here /\ dev'[p] = Refused(d)
  BY <1>1, <1>2, <1>4, Refusal
<1>5. CASE d.here /\ dev'[p] = Reaction(d, p, byte) /\ byte = "reset"
  <2>1. dev'[p] = Reaction(d, p, "reset")
    BY <1>5
  <2>2. dev'[p].on = (p = "kbd") /\ dev'[p].here = d.here
    BY <2>1, Resets
  <2>3. dev'[p].out = IF p = "kbd" THEN <<<<"ack">>, <<"bat">>>>
                                   ELSE <<<<"ack">>, <<"bat">>, <<"id">>>>
    BY <2>1, Resets
  <2> QED
    BY <1>1, <1>2, <1>5, <2>2, <2>3
<1>6. CASE d.here /\ dev'[p] = Reaction(d, p, byte) /\ byte # "reset"
  <2>1. byte \in {"disable", "scanset", "setscale", "enable", "one"} /\ dev'[p] = Reaction(d, p, byte)
    BY <1>6
  <2>2. /\ dev'[p].here = d.here
        /\ dev'[p].on = IF byte \in {"disable", "enable"} THEN byte = "enable" ELSE d.on
        /\ \/ /\ dev'[p].out = <<<<"ack">>>>
              /\ byte \in {"setscale", "one"} => dev'[p].set
              /\ byte \in {"disable", "enable"} => dev'[p].set = d.set
           \/ byte = "one" /\ dev'[p].out = <<<<"nak">>>>
    BY <2>1, Obeys
  <2> QED
    BY <1>1, <1>2, <1>6, <2>2
<1> QED
  BY <1>2, <1>3, <1>4, <1>5, <1>6

LEMMA Tails ==
    ASSUME NEW S, NEW a \in S, NEW b \in S, NEW c \in S
    PROVE  Tail(<<a>>) = <<>> /\ Tail(<<a, b>>) = <<b>> /\ Tail(<<a, b, c>>) = <<b, c>>
<1>1. <<b>> \in Seq(S) /\ <<b, c>> \in Seq(S) /\ <<>> \in Seq(S)
  OBVIOUS
<1>2. <<a>> \o <<>> = <<a>> /\ <<a>> \o <<b>> = <<a, b>> /\ <<a>> \o <<b, c>> = <<a, b, c>>
  BY Joined, ConcatEmptySeq
<1> QED
  BY <1>1, <1>2, HeadFirst

LEMMA Literals ==
    /\ Tail(<<<<"ack">>>>) = <<>> /\ Tail(<<<<"bat">>>>) = <<>> /\ Tail(<<<<"id">>>>) = <<>>
    /\ Tail(<<<<"ack">>, <<"bat">>>>) = <<<<"bat">>>>
    /\ Tail(<<<<"ack">>, <<"bat">>, <<"id">>>>) = <<<<"bat">>, <<"id">>>>
    /\ Tail(<<<<"bat">>, <<"id">>>>) = <<<<"id">>>>
    /\ AckFree(<<>>) /\ AckFree(<<<<"bat">>>>) /\ Whole(<<>>)
<1>1. <<"ack">> \in Byte /\ <<"bat">> \in Byte /\ <<"id">> \in Byte
  BY Kinds DEF Answers
<1>2. AckFree(<<>>) /\ Whole(<<>>)
  BY DEF AckFree, Whole
<1>3. AckFree(<<<<"bat">>>>)
  BY DEF AckFree
<1> QED
  BY <1>1, <1>2, <1>3, Tails

(* What a port says after its device has dropped what it had to say.       *)
LEMMA StreamReplaced ==
    ASSUME Types, NEW p \in Ports, obf' = obf, dev'[p].out \in Seq(Byte)
    PROVE  \/ Stream(p)' = dev'[p].out
           \/ /\ Stream(p) # <<>> /\ Stream(p)' # <<>> /\ Stream(p)'[1] = Stream(p)[1]
              /\ Tail(Stream(p)') = dev'[p].out
<1>1. Said(p)' = Said(p)
  BY DEF Said
<1>2. CASE obf # Empty /\ obf[1] = p
  <2>1. Stream(p) = <<obf[2]>> \o dev[p].out /\ Stream(p)' = <<obf[2]>> \o dev'[p].out
    BY <1>1, <1>2 DEF Stream, Said
  <2>2. obf[2] \in Byte /\ dev[p].out \in Seq(Byte)
    BY <1>2, Devices
  <2> QED
    BY <2>1, <2>2, HeadFirst
<1>3. CASE ~(obf # Empty /\ obf[1] = p)
  <2>1. Said(p) = <<>>
    BY <1>3 DEF Said
  <2> QED
    BY <1>1, <2>1, ConcatEmptySeq DEF Stream
<1> QED
  BY <1>2, <1>3

(* A command goes out: what its port says next is the answer, or what was  *)
(* in the buffer before.                                                   *)
LEMMA SyncSend == ASSUME Types, Control, Sync, Send PROVE Sync'
<1> USE DEF At, Ready, Stuck
<1>1. /\ UNCHANGED <<ctr, obf, res, misled>> /\ fg.pc \in {"send", "arg"}
      /\ fg'.port = fg.port /\ fg'.step = fg.step
      /\ fg.pc = "arg" => fg.port = "kbd" /\ fg.step = 3
      /\ \/ dev' = dev /\ fg'.pc = "close" /\ fg'.ret = "failed"
         \/ fg.pc = "send" /\ fg'.pc = "ack" /\ SendTo(fg.port, Command)
         \/ fg.pc = "arg" /\ fg'.pc = "argAck" /\ SendTo(fg.port, "one")
  BY PlaceNames, GoesTo, Closes DEF Send, Types, Result, CommandAt, Control
<1>2. CASE dev' = dev /\ fg'.pc = "close" /\ fg'.ret = "failed"
  <2>1. \A q \in Ports : Stream(q)' = Stream(q)
    BY <1>1, <1>2, StreamSame
  <2>2. Silent'
    BY <1>2, <2>1 DEF Sync, Silent
  <2>3. MouseOff'
    BY <1>1, <1>2 DEF Sync, MouseOff, Past
  <2>4. \A q \in Ports : InStep(q)'
    BY <1>1, <1>2, <2>1 DEF Sync, InStep, SyncAck, SyncFirst, SyncLater
  <2>5. Successful'
    BY <1>1, <1>2 DEF Sync, Successful
  <2> QED
    BY <2>2, <2>3, <2>4, <2>5 DEF Sync
<1>3. ASSUME NEW p \in Ports, p = fg.port,
             NEW byte \in {"reset", "disable", "scanset", "setscale", "enable", "one"}, SendTo(p, byte),
             \/ fg.pc = "send" /\ fg'.pc = "ack" /\ byte = Command
             \/ fg.pc = "arg" /\ fg'.pc = "argAck" /\ byte = "one"
      PROVE  Sync'
  <2>1. /\ byte = "reset" <=> fg.step = 1
        /\ byte = "disable" <=> fg.step = 2
        /\ byte = "setscale" <=> fg.step = 3 /\ p = "aux"
        /\ byte \in {"scanset", "one"} <=> fg.step = 3 /\ p = "kbd"
        /\ byte = "one" <=> fg.pc = "arg"
        /\ byte = "enable" <=> fg.step = 4
    BY <1>1, <1>3, Commands, Fields DEF Types
  <2>2. (p = "kbd" \/ p = "aux") /\ fg.step \in {1, 2, 3, 4}
    BY <1>3, Fields DEF Types
  <2>3. \A q \in Ports \ {p} : dev'[q] = dev[q] /\ Stream(q)' = Stream(q)
    BY <1>1, <1>3, Told, StreamSame
  <2>4. ~dev["aux"].on \/ p = "kbd"
    BY <1>1, <1>3, <2>2 DEF Sync, MouseOff, Past
  <2>5. Successful'
    <3>1. \A q \in Ports : res[q] # "none" => q # p
      BY <1>1, <1>3, PortNames DEF Control, Past
    <3> QED
      BY <1>1, <2>3, <3>1 DEF Sync, Successful
  <2>6. dev'[p].here = dev[p].here /\ (~dev[p].here => dev'[p] = dev[p])
    BY <1>3, Told
  <2>7. Silent'
    <3>1. ~dev[p].here => Stream(p)' = Stream(p)
      BY <1>1, <2>6, StreamSame
    <3> QED
      BY <2>3, <2>6, <3>1 DEF Sync, Silent
  <2>8. MouseOff'
    <3>1. CASE p = "kbd"
      BY <1>1, <1>3, <2>3, <3>1, PortNames DEF Sync, MouseOff, Past
    <3>2. CASE p = "aux"
      <4>1. ~dev["aux"].on
        BY <2>4, <3>2, PortNames
      <4>2. dev'["aux"].on => byte = "enable"
        BY <1>3, <3>2, <4>1, Told, PortNames
      <4> QED
        BY <1>1, <1>3, <2>1, <3>2, <4>2 DEF MouseOff
    <3> QED
      BY <2>2, <3>1, <3>2
  <2>9. InStep(p)'
    <3> SUFFICES ASSUME p \notin misled
                 PROVE  /\ SyncAck(p, Stream(p))' /\ SyncFirst(p, Stream(p))' /\ SyncLater(p, Stream(p))'
      BY <1>1 DEF InStep
    <3>1. /\ fg.step > 1 => Over(p, Stream(p))
          /\ fg.step = 4 => dev[p].set
      BY <1>1, <1>3 DEF Sync, InStep, SyncLater
    <3>2. fg.step > 1 => ~Begins(Stream(p), "ack") /\ (p = "aux" => Stream(p) = <<>>)
      <4>1. CASE p = "kbd"
        BY <3>1, <4>1, AckFreeTail, Devices, PortNames DEF Over, Begins
      <4>2. CASE p = "aux"
        BY <1>1, <3>1, <4>2, PortNames DEF Over, Begins
      <4> QED
        BY <2>2, <4>1, <4>2
    <3>3. dev'[p].out \in Seq(Byte)
      BY <1>3, Sends DEF Device
    <3> DEFINE o == dev'[p].out
    <3>4. \/ Stream(p)' = o
          \/ /\ Stream(p) # <<>> /\ Stream(p)' # <<>> /\ Stream(p)'[1] = Stream(p)[1]
             /\ Tail(Stream(p)') = o
      BY <1>1, <3>3, StreamReplaced
    <3>5. CASE ~dev[p].here
      <4>1. dev'[p] = dev[p] /\ Stream(p)' = <<>>
        BY <1>1, <2>6, <3>5, StreamSame DEF Sync, Silent
      <4> QED
        BY <1>1, <1>3, <2>2, <2>4, <3>1, <4>1 DEF SyncAck, SyncFirst, SyncLater, Begins
    <3>6. CASE dev[p].here /\ o = <<<<"nak">>>> /\ dev'[p].on = dev[p].on /\ (byte # "one" => dev'[p].set = dev[p].set)
      <4>1. ~Begins(o, "ack") /\ ~Begins(o, "bat")
        BY <3>6 DEF Begins
      <4>2. SyncAck(p, Stream(p))'
        <5>1. ~(Begins(Stream(p)', "ack") /\ (fg.step > 1 \/ Begins(Tail(Stream(p)'), "bat")))
          BY <3>2, <3>4, <4>1 DEF Begins
        <5> QED
          BY <1>1, <2>2, <5>1 DEF SyncAck, Begins
      <4> QED
        BY <1>1, <1>3, <2>1, <2>2, <2>4, <3>1, <3>6, <4>2 DEF SyncFirst, SyncLater
    <3>7. CASE /\ dev[p].here /\ byte = "reset"
               /\ o = IF p = "kbd" THEN <<<<"ack">>, <<"bat">>>> ELSE <<<<"ack">>, <<"bat">>, <<"id">>>>
      <4>1. /\ Begins(o, "ack") /\ ~Begins(o, "bat") /\ o # <<>>
            /\ Tail(o) = IF p = "kbd" THEN <<<<"bat">>>> ELSE <<<<"bat">>, <<"id">>>>
        BY <2>2, <3>7, Literals, PortNames DEF Begins
      <4>2. Answered(p, Tail(o))
        BY <2>2, <4>1, Literals, PortNames DEF Answered
      <4>3. Begins(Stream(p)', "ack") /\ Begins(Tail(Stream(p)'), "bat") => Answered(p, Tail(Stream(p)'))
        <5> HIDE DEF o
        <5> QED
          BY <3>4, <4>1, <4>2
      <4>4. SyncAck(p, Stream(p))'
        BY <1>1, <2>1, <3>7, <4>3 DEF SyncAck, Begins, Answered
      <4> QED
        BY <1>1, <1>3, <2>1, <3>7, <4>4 DEF SyncFirst, SyncLater
    <3>8. CASE /\ dev[p].here /\ byte # "reset" /\ o = <<<<"ack">>>>
               /\ dev'[p].on = IF byte \in {"disable", "enable"} THEN byte = "enable" ELSE dev[p].on
               /\ byte \in {"setscale", "one"} => dev'[p].set
               /\ byte \in {"disable", "enable"} => dev'[p].set = dev[p].set
      <4>1. fg.step > 1
        BY <2>1, <2>2, <3>8
      <4>2. Tail(o) = <<>> /\ Begins(o, "ack")
        BY <3>8, Literals DEF Begins
      <4>3. Begins(Stream(p)', "ack") => Stream(p)' = o
        BY <3>2, <3>4, <4>1 DEF Begins
      <4>4. Obeyed(p)'
        BY <1>1, <1>3, <2>1, <2>2, <2>6, <3>1, <3>8 DEF Obeyed
      <4>5. Over(p, <<>>)'
        <5>1. Whole(<<>>)'
          BY DEF Whole
        <5> QED
          BY <5>1, Literals DEF Over
      <4>6. SyncAck(p, Stream(p))'
        BY <1>1, <4>1, <4>2, <4>3, <4>4, <4>5 DEF SyncAck, Begins, Over
      <4>7. p = "aux" => Begins(Stream(p)', "ack")
        BY <3>2, <3>4, <4>1, <4>2
      <4> QED
        BY <1>1, <1>3, <2>1, <2>2, <3>1, <3>8, <4>6, <4>7 DEF SyncFirst, SyncLater, Begins
    <3> HIDE DEF o
    <3>9. \/ ~dev[p].here
          \/ dev[p].here /\ o = <<<<"nak">>>> /\ dev'[p].on = dev[p].on /\ (byte # "one" => dev'[p].set = dev[p].set)
          \/ /\ dev[p].here /\ byte = "reset"
             /\ o = IF p = "kbd" THEN <<<<"ack">>, <<"bat">>>> ELSE <<<<"ack">>, <<"bat">>, <<"id">>>>
          \/ /\ dev[p].here /\ byte # "reset" /\ o = <<<<"ack">>>>
             /\ dev'[p].on = IF byte \in {"disable", "enable"} THEN byte = "enable" ELSE dev[p].on
             /\ byte \in {"setscale", "one"} => dev'[p].set
             /\ byte \in {"disable", "enable"} => dev'[p].set = dev[p].set
      BY <1>3, Told DEF o
    <3> QED
      BY <3>5, <3>6, <3>7, <3>8, <3>9
  <2>10. \A q \in Ports : InStep(q)'
    BY <1>1, <1>3, <2>9 DEF InStep
  <2> QED
    BY <2>5, <2>7, <2>8, <2>10 DEF Sync
<1> QED
  BY <1>1, <1>2, <1>3, Commands, Fields DEF Types

(* The byte the foreground waits for: it is the first of its port's        *)
(* stream, or the controller's, which no device could have sent.           *)
LEMMA MineIsFirst ==
    ASSUME Types, Mine, NEW p \in Ports, p = fg.port, obf' = Empty, dev'[p].out = dev[p].out
    PROVE  \/ /\ Stream(p) # <<>> /\ Stream(p)[1] = obf[2] /\ Stream(p)' = Tail(Stream(p))
              /\ Stream(p) \in Seq(Byte)
           \/ p = "kbd" /\ obf[2][1] \in {"good", "bad", "tested"} /\ Stream(p)' = Stream(p)
<1>1. obf # Empty /\ obf[1] \in {"kbd", "aux", "ctl"} /\ PortOf(obf) = p
  BY PortNames DEF Mine, Types, TypesBus
<1>2. obf[1] = p \/ (obf[1] = "ctl" /\ p = "kbd")
  BY <1>1 DEF PortOf
<1>3. CASE obf[1] = p
  BY <1>1, <1>3, StreamTaken, Devices
<1>4. CASE obf[1] = "ctl" /\ p = "kbd"
  <2>1. obf[2] \in CtlByte
    BY <1>1, <1>4 DEF Types, TypesBus
  <2> QED
    BY <1>1, <1>4, <2>1, StreamTaken, Kinds, PortNames
<1> QED
  BY <1>2, <1>3, <1>4

LEMMA SyncAcknowledged == ASSUME Types, Control, Sync, Acknowledged PROVE Sync'
<1> USE DEF At
<1>1. /\ UNCHANGED <<ctr, dev, res, misled, nMoves>> /\ obf' = Empty /\ Mine
      /\ fg.pc \in {"ack", "argAck"} /\ fg.n = 0
      /\ fg'.port = fg.port /\ fg'.step = fg.step /\ fg'.n = fg.n
      /\ \/ fg'.pc = "close" /\ fg'.ret = "failed"
         \/ fg'.pc = "arg" /\ obf[2][1] = "ack" /\ fg.pc = "ack" /\ fg.step = 3 /\ fg.port = "kbd"
         \/ fg'.pc = "recv" /\ obf[2][1] = "ack" /\ fg.step = 1
         \/ /\ fg'.pc = "close" /\ fg'.ret = "ok" /\ obf[2][1] = "ack" /\ fg.step > 1
            /\ fg.step = 3 => fg.pc = "argAck" \/ fg.port = "aux"
  <2>1. {"arg", "recv"} \subseteq Place
    BY DEF Place, CommandAt
  <2>2. /\ fg.pc \in {"ack", "argAck"}
        /\ \/ Closed("failed")
           \/ Is(obf, "ack") /\ Goto("arg") /\ Command = "scanset" /\ fg.pc = "ack"
           \/ Is(obf, "ack") /\ Goto("recv") /\ Command = "reset"
           \/ /\ Is(obf, "ack") /\ Closed("ok") /\ Command # "reset"
              /\ ~(Command = "scanset" /\ fg.pc = "ack")
    BY DEF Acknowledged
  <2>3. /\ UNCHANGED <<ctr, dev, res, misled, nMoves>> /\ obf' = Empty /\ Mine
    BY DEF Acknowledged, devices, bounds
  <2>4. fg.n = 0
    BY <2>2 DEF Control
  <2> QED
    BY <2>1, <2>2, <2>3, <2>4, GoesTo, Closes, Commands, Fields DEF Types, Result, Is
<1>2. Silent'
  BY <1>1, SilentStays DEF Sync
<1>3. MouseOff'
  BY <1>1 DEF Sync, MouseOff, Past
<1>4. Successful'
  BY <1>1 DEF Sync, Successful
<1>5. ASSUME NEW p \in Ports, p = fg.port, p \notin misled
      PROVE  SyncAck(p, Stream(p))' /\ SyncFirst(p, Stream(p))' /\ SyncLater(p, Stream(p))'
  <2>1. SyncAck(p, Stream(p)) /\ SyncFirst(p, Stream(p)) /\ SyncLater(p, Stream(p))
    BY <1>1, <1>5 DEF Sync, InStep
  <2>2. SyncAck(p, Stream(p))'
    BY <1>1 DEF SyncAck
  <2>3. CASE fg'.pc = "close" /\ fg'.ret = "failed"
    BY <1>1, <2>1, <2>2, <2>3 DEF SyncFirst, SyncLater
  <2>4. CASE ~(fg'.pc = "close" /\ fg'.ret = "failed")
    <3>1. obf[2][1] = "ack"
      BY <1>1, <2>4
    <3>2. /\ Begins(Stream(p), "ack") /\ Stream(p)' = Tail(Stream(p))
      BY <1>1, <1>5, <3>1, MineIsFirst DEF Begins
    <3>3. IF fg.step = 1 THEN Begins(Tail(Stream(p)), "bat") => Answered(p, Tail(Stream(p)))
                         ELSE Obeyed(p) /\ Over(p, Tail(Stream(p)))
      BY <1>1, <2>1, <3>2 DEF SyncAck
    <3>4. CASE fg.step = 1
      BY <1>1, <1>5, <2>2, <2>4, <3>2, <3>3, <3>4 DEF SyncFirst, SyncLater, Begins, Answered
    <3>5. CASE fg.step # 1
      <4>1. Over(p, Stream(p))'
        <5>1. Whole(Tail(Stream(p)))' = Whole(Tail(Stream(p))')
          BY <1>1 DEF Whole
        <5> QED
          BY <1>1, <1>5, <3>2, <3>3, <3>5, <5>1 DEF Over, Whole
      <4>2. Obeyed(p)' \/ fg'.pc = "arg"
        BY <1>1, <1>5, <2>4, <3>3, <3>5 DEF Obeyed
      <4>3. fg.step = 4 => dev'[p].set
        BY <1>1, <2>1 DEF SyncLater
      <4> QED
        BY <1>1, <1>5, <2>2, <2>4, <3>5, <4>1, <4>2, <4>3 DEF SyncFirst, SyncLater
    <3> QED
      BY <3>4, <3>5
  <2> QED
    BY <2>3, <2>4
<1> QED
  BY <1>1, <1>2, <1>3, <1>4, <1>5 DEF Sync, InStep

LEMMA SyncReceived == ASSUME Types, Control, Sync, Received PROVE Sync'
<1> USE DEF At
<1>1. /\ UNCHANGED <<ctr, dev, res, misled, nMoves>> /\ obf' = Empty /\ Mine
      /\ fg.pc = "recv" /\ fg.step = 1 /\ fg.n < Recv /\ fg.n >= 0
      /\ fg'.port = fg.port /\ fg'.step = fg.step /\ fg'.n = fg.n + 1
      /\ fg'.param = IF fg.n = 0 THEN obf[2][1] ELSE fg.param
      /\ fg'.pc = IF fg.n + 1 = Recv THEN "close" ELSE "recv"
  BY DEF Received, Control, Types, TypesFg, Foreground, devices, bounds
<1>2. Silent'
  BY <1>1, SilentStays DEF Sync
<1>3. MouseOff'
  BY <1>1 DEF Sync, MouseOff, Past
<1>4. Successful'
  BY <1>1 DEF Sync, Successful
<1>5. ASSUME NEW p \in Ports, p = fg.port, p \notin misled
      PROVE  SyncAck(p, Stream(p))' /\ SyncFirst(p, Stream(p))' /\ SyncLater(p, Stream(p))'
  <2>1. SyncFirst(p, Stream(p))
    BY <1>1, <1>5 DEF Sync, InStep
  <2>2. obf[2][1] # "unset" /\ Recv = IF p = "kbd" THEN 1 ELSE 2
    <3>1. obf[2] \in Byte
      BY <1>1 DEF Types, TypesBus, Mine
    <3> QED
      BY <1>1, <1>5, <3>1, Kinds, Commands DEF Kind, Types
  <2>3. CASE p = "kbd"
    <3>1. fg.n = 0 /\ fg'.pc = "close" /\ fg'.param = obf[2][1]
      BY <1>1, <2>2, <2>3, Fields DEF Types
    <3>2. obf[2][1] = "bat" => AckFree(Stream(p)')
      <4> SUFFICES ASSUME obf[2][1] = "bat" PROVE AckFree(Stream(p)')
        OBVIOUS
      <4>1. /\ Stream(p) # <<>> /\ Stream(p)[1][1] = "bat" /\ Stream(p)' = Tail(Stream(p))
            /\ Stream(p) \in Seq(Byte)
        BY <1>1, <1>5, MineIsFirst
      <4>2. AckFree(Stream(p))
        BY <1>1, <2>1, <2>3, <3>1, <4>1 DEF SyncFirst, Begins, Answered
      <4> QED
        BY <4>1, <4>2, AckFreeTail
    <3> QED
      BY <1>1, <2>2, <2>3, <3>1, <3>2 DEF SyncAck, SyncFirst, SyncLater, Over, AckFree
  <2>4. CASE p = "aux"
    <3>1. Stream(p) # <<>> /\ Stream(p)[1] = obf[2] /\ Stream(p)' = Tail(Stream(p))
      BY <1>1, <1>5, <2>4, MineIsFirst
    <3>2. CASE fg.n = 0
      <4>1. fg'.pc = "recv" /\ fg'.n = 1 /\ fg'.param = obf[2][1]
        BY <1>1, <2>2, <2>4, <3>2
      <4>2. fg'.param = "bat" => Stream(p)' = <<<<"id">>>>
        <5> SUFFICES ASSUME obf[2][1] = "bat" PROVE Stream(p)' = <<<<"id">>>>
          BY <4>1
        <5>1. Stream(p) = <<<<"bat">>, <<"id">>>>
          BY <1>1, <2>1, <2>4, <3>1, <3>2 DEF SyncFirst, Begins, Answered
        <5> QED
          BY <3>1, <5>1, Literals
      <4> QED
        BY <1>1, <2>2, <4>1, <4>2 DEF SyncAck, SyncFirst, SyncLater
    <3>3. CASE fg.n # 0
      <4>1. fg.n = 1 /\ fg'.pc = "close" /\ fg'.param = fg.param
        BY <1>1, <2>2, <2>4, <3>3, Fields DEF Types
      <4>2. fg.param # "unset" /\ (fg.param = "bat" => Stream(p)' = <<>>)
        BY <1>1, <2>1, <3>1, <4>1, Literals DEF SyncFirst
      <4> QED
        BY <1>1, <2>4, <4>1, <4>2 DEF SyncAck, SyncFirst, SyncLater, Over
    <3> QED
      BY <3>2, <3>3
  <2> QED
    BY <1>5, <2>3, <2>4, PortNames
<1> QED
  BY <1>1, <1>2, <1>3, <1>4, <1>5 DEF Sync, InStep

LEMMA SyncJudge == ASSUME Types, Control, Masks, Sync, Judge PROVE Sync'
<1> USE DEF At
<1>1. /\ UNCHANGED <<ctr, dev, obf, nMoves>> /\ fg.pc = "judge"
      /\ fg.port \in Ports /\ fg.step \in {1, 2, 3, 4} /\ res \in [Ports -> {"none"} \union Result]
  BY Fields DEF Judge, devices, Types, TypesFg
<1>2. \A p \in Ports : Stream(p)' = Stream(p)
  BY <1>1, StreamSame
<1>3. Silent'
  BY <1>1, <1>2 DEF Sync, Silent
<1>4. CASE \E r \in Result : ResetReturns(r) /\ (r = "ok" => fg.step = 4 /\ fg.ret = "ok") /\ misled' = misled
  <2>1. PICK r \in Result : ResetReturns(r) /\ (r = "ok" => fg.step = 4 /\ fg.ret = "ok")
    BY <1>4
  <2>2. /\ fg'.port = "aux" /\ fg'.step = 1 /\ fg'.pc \in {"test", "idle"}
        /\ fg.port = "aux" => fg'.pc = "idle"
        /\ res' = [res EXCEPT ![fg.port] = r] /\ misled' = misled
    BY <1>4, <2>1, Next2, Fields DEF ResetReturns, Types
  <2>3. MouseOff'
    BY <1>1, <2>2 DEF Sync, MouseOff, Past
  <2>4. \A p \in Ports : InStep(p)'
    BY <2>2 DEF InStep, SyncAck, SyncFirst, SyncLater
  <2>5. Successful'
    <3> SUFFICES ASSUME NEW p \in Ports, res'[p] = "ok", p \notin misled
                 PROVE  dev[p].here /\ dev[p].on /\ dev[p].set /\ INT(p) \in ctr
      BY <1>1, <2>2 DEF Successful
    <3>1. CASE p = fg.port
      <4>1. fg.step = 4 /\ fg.ret = "ok"
        BY <1>1, <2>1, <2>2, <3>1
      <4>2. Obeyed(p)
        BY <1>1, <3>1, <4>1 DEF Sync, InStep, SyncLater
      <4> QED
        BY <1>1, <3>1, <4>1, <4>2 DEF Obeyed, Masks
    <3>2. CASE p # fg.port
      BY <1>1, <2>2, <3>2 DEF Sync, Successful
    <3> QED
      BY <3>1, <3>2
  <2> QED
    BY <1>3, <2>3, <2>4, <2>5 DEF Sync
<1>5. CASE /\ fg.step = 1 /\ fg'.pc = "open" /\ fg'.step = 1 /\ fg'.port = fg.port
           /\ UNCHANGED <<res, misled>>
  <2>1. MouseOff'
    BY <1>1, <1>5 DEF Sync, MouseOff, Past
  <2>2. \A p \in Ports : InStep(p)'
    BY <1>5 DEF InStep, SyncAck, SyncFirst, SyncLater
  <2>3. Successful'
    BY <1>1, <1>5 DEF Sync, Successful
  <2> QED
    BY <1>3, <2>1, <2>2, <2>3 DEF Sync
<1>6. CASE /\ fg.step # 4 /\ fg'.pc = "mask" /\ fg'.step = fg.step + 1 /\ fg'.port = fg.port
           /\ res' = res
           /\ \/ fg.ret = "ok" /\ misled' = misled /\ (fg.step = 1 => fg.param \in {"bat", "unset"})
              \/ misled' = misled \union {fg.port}
  <2>1. MouseOff'
    BY <1>1, <1>6 DEF Sync, MouseOff, Past
  <2>2. Successful'
    BY <1>1, <1>6 DEF Sync, Successful
  <2>3. ASSUME NEW p \in Ports, p = fg.port, p \notin misled'
        PROVE  SyncAck(p, Stream(p))' /\ SyncFirst(p, Stream(p))' /\ SyncLater(p, Stream(p))'
    <3>1. fg.ret = "ok" /\ p \notin misled /\ (fg.step = 1 => fg.param \in {"bat", "unset"})
      BY <1>6, <2>3
    <3>2. SyncFirst(p, Stream(p)) /\ SyncLater(p, Stream(p))
      BY <1>1, <2>3, <3>1 DEF Sync, InStep
    <3>3. Over(p, Stream(p))
      BY <1>1, <1>6, <2>3, <3>1, <3>2, PortNames DEF SyncFirst, SyncLater, Started, Past
    <3>4. Over(p, Stream(p))'
      BY <1>1, <1>2, <1>6, <3>3 DEF Over
    <3>5. fg'.step = 4 => dev[p].set
      BY <1>1, <1>6, <3>1, <3>2 DEF SyncLater, Obeyed
    <3> QED
      BY <1>1, <1>6, <3>4, <3>5 DEF SyncAck, SyncFirst, SyncLater
  <2> QED
    BY <1>3, <1>6, <2>1, <2>2, <2>3 DEF Sync, InStep
<1>7. ASSUME fg' = [Serving(fg.port, "mask") EXCEPT !.step = fg.step + 1]
      PROVE  fg'.pc = "mask" /\ fg'.step = fg.step + 1 /\ fg'.port = fg.port
  BY <1>7 DEF Serving
<1>8. ASSUME fg' = [fg EXCEPT !.pc = "open", !.ret = "ok", !.tries = @ + 1]
      PROVE  fg'.pc = "open" /\ fg'.step = fg.step /\ fg'.port = fg.port
  BY <1>8 DEF Types, TypesFg, Foreground
<1>9. fg.ret \in Result /\ "failed" \in Result
  BY Fields DEF Types, Result
<1> QED
  BY <1>1, <1>4, <1>5, <1>6, <1>7, <1>8, <1>9 DEF Judge

(* Nothing changes that the foreground and its device know of.             *)
LEMMA InStepSame ==
    ASSUME NEW p \in Ports, InStep(p), UNCHANGED <<fg, misled, nMoves>>, Stream(p)' = Stream(p),
           dev'[p].here = dev[p].here, dev'[p].on = dev[p].on, dev'[p].set = dev[p].set
    PROVE  InStep(p)'
<1>1. ASSUME p = fg.port, p \notin misled
      PROVE  /\ SyncAck(p, Stream(p))' /\ SyncFirst(p, Stream(p))'
             /\ fg.pc # "idle" => SyncLater(p, Stream(p))'
  <2>1. /\ SyncAck(p, Stream(p)) /\ SyncFirst(p, Stream(p))
        /\ fg.pc # "idle" => SyncLater(p, Stream(p))
    BY <1>1 DEF InStep
  <2>2. Over(p, Stream(p)) <=> Over(p, Stream(p))'
    <3>1. Whole(Stream(p)) <=> Whole(Stream(p))'
      BY DEF Whole
    <3> QED
      BY <3>1 DEF Over
  <2>3. Over(p, Tail(Stream(p))) <=> Over(p, Tail(Stream(p)))'
    <3>1. Whole(Tail(Stream(p))) <=> Whole(Tail(Stream(p)))'
      BY DEF Whole
    <3> QED
      BY <3>1 DEF Over
  <2>4. (Obeyed(p) <=> Obeyed(p)') /\ (Started(p) <=> Started(p)')
    BY DEF Obeyed, Started, Past
  <2> QED
    BY <2>1, <2>2, <2>3, <2>4 DEF SyncAck, SyncFirst, SyncLater, Begins, Answered
<1> QED
  BY <1>1 DEF InStep

LEMMA SyncSame ==
    ASSUME Types, Sync, UNCHANGED <<ctr, fg, res, misled, nMoves>>,
           \A p \in Ports : /\ Stream(p)' = Stream(p) /\ dev'[p].here = dev[p].here
                            /\ dev'[p].on = dev[p].on /\ dev'[p].set = dev[p].set
    PROVE  Sync'
<1>1. Silent' /\ Successful'
  BY DEF Sync, Silent, Successful
<1>2. MouseOff'
  BY PortNames DEF Sync, MouseOff, Past
<1>3. \A p \in Ports : InStep(p)'
  BY InStepSame DEF Sync
<1> QED
  BY <1>1, <1>2, <1>3 DEF Sync

(* The interrupt handler takes nothing the foreground waits for, and so    *)
(* does a byte of the other port that is forgotten.                        *)
LEMMA SyncTaken ==
    ASSUME Types, Control, Masks, Sync, Discard \/ HandlerKey \/ HandlerMouse
    PROVE  Sync'
<1> USE DEF At
<1>1. /\ UNCHANGED <<ctr, dev, fg, res, misled, nMoves>> /\ obf' = Empty /\ obf # Empty
      /\ \/ PortOf(obf) # fg.port
         \/ handler /\ obf' = Empty
  BY DEF Discard, HandlerKey, HandlerMouse, HandlerTakes, Mine, devices, bounds
<1>2. Silent'
  BY <1>1, SilentStays DEF Sync
<1>3. MouseOff'
  BY <1>1 DEF Sync, MouseOff, Past
<1>4. Successful'
  BY <1>1 DEF Sync, Successful
<1>5. ASSUME NEW p \in Ports, p = fg.port, p \notin misled
      PROVE  /\ SyncAck(p, Stream(p))' /\ SyncFirst(p, Stream(p))'
             /\ fg.pc # "idle" => SyncLater(p, Stream(p))'
  <2>1. /\ SyncAck(p, Stream(p)) /\ SyncFirst(p, Stream(p))
        /\ fg.pc # "idle" => SyncLater(p, Stream(p))
    BY <1>5 DEF Sync, InStep
  <2>2. CASE obf[1] # p
    <3>1. Stream(p)' = Stream(p)
      BY <1>1, <2>2, StreamTaken
    <3>2. InStep(p)'
      BY <1>1, <3>1, InStepSame DEF Sync
    <3> QED
      BY <1>1, <1>5, <3>2 DEF InStep
  <2>3. CASE obf[1] = p
    <3>1. PortOf(obf) = p
      BY <2>3, PortNames DEF PortOf
    <3>2. Started(p)
      BY <1>1, <1>5, <3>1 DEF Masks
    <3>3. fg.pc = "idle" \/ (fg.pc = "judge" /\ fg.step = 4)
      BY <1>5, <3>2, PortNames DEF Started, Past
    <3>4. CASE fg.pc = "idle"
      BY <1>1, <3>4 DEF SyncAck, SyncFirst
    <3>5. CASE fg.pc = "judge" /\ fg.step = 4
      <4>1. /\ Stream(p) # <<>> /\ Stream(p)' = Tail(Stream(p)) /\ Stream(p) \in Seq(Byte)
        BY <1>1, <2>3, StreamTaken, Devices
      <4>2. p = "kbd" /\ fg.ret = "ok" => Over(p, Stream(p))'
        <5> SUFFICES ASSUME p = "kbd", fg.ret = "ok" PROVE Over(p, Stream(p))'
          OBVIOUS
        <5>1. AckFree(Stream(p))
          BY <2>1, <3>5, PortNames DEF SyncLater, Over
        <5> QED
          BY <4>1, <5>1, AckFreeTail DEF Over
      <4>3. Started(p)'
        BY <1>1, <3>2 DEF Started, Past
      <4>4. fg.ret = "ok" => Obeyed(p)'
        BY <1>1, <2>1, <3>5 DEF SyncLater, Obeyed
      <4>5. dev[p].set
        BY <2>1, <3>5 DEF SyncLater
      <4> QED
        BY <1>1, <3>5, <4>2, <4>3, <4>4, <4>5, PortNames DEF SyncAck, SyncFirst, SyncLater
    <3> QED
      BY <3>3, <3>4, <3>5
  <2> QED
    BY <2>2, <2>3
<1> QED
  BY <1>1, <1>2, <1>3, <1>4, <1>5 DEF Sync, InStep

LEMMA SyncHandler ==
    ASSUME Types, Sync,
           Interrupt \/ HandlerEnds \/ GetStatus \/ DeliverAnswer \/ \E p \in Ports : Deliver(p)
    PROVE  Sync'
<1>1. CASE Interrupt \/ HandlerEnds \/ GetStatus
  <2>1. UNCHANGED <<ctr, dev, obf, fg, res, misled, nMoves>>
    BY <1>1 DEF Interrupt, HandlerEnds, GetStatus, devices, bounds
  <2> QED
    BY <2>1, SyncSame, StreamSame
<1>2. CASE DeliverAnswer
  <2>1. UNCHANGED <<ctr, dev, fg, res, misled, nMoves>>
    BY <1>2 DEF DeliverAnswer, bounds
  <2> QED
    BY <1>2, <2>1, SyncSame, StreamKept
<1>3. CASE \E p \in Ports : Deliver(p)
  <2>1. PICK p \in Ports : Deliver(p)
    BY <1>3
  <2>2. UNCHANGED <<ctr, fg, res, misled, nMoves>> /\ dev' = [dev EXCEPT ![p].out = Tail(dev[p].out)]
    BY <2>1 DEF Deliver, bounds
  <2>3. \A q \in Ports : dev'[q].here = dev[q].here /\ dev'[q].on = dev[q].on /\ dev'[q].set = dev[q].set
    BY <2>2 DEF Types, TypesBus, Device
  <2> QED
    BY <1>3, <2>2, <2>3, SyncSame, StreamKept
<1> QED
  BY <1>1, <1>2, <1>3

-----------------------------------------------------------------------------
(* Movements of the mouse.                                                 *)

(* The bytes of the movement number k.                                     *)
Moved(m, k) ==
    /\ m \in Seq(Byte) /\ Len(m) = 3
    /\ \A i \in 1..3 : m[i] \in Motion /\ m[i][2] = k /\ m[i][3] = i /\ (i = 1 => m[i][4])

LEMMA Associative == \A s, t, v \in Seq(Byte) : (s \o t) \o v = s \o (t \o v)
  BY ConcatAssociative

LEMMA Longer ==
    ASSUME NEW u \in Seq(Byte), NEW m \in Seq(Byte), u # <<>>
    PROVE  u \o m \in Seq(Byte) /\ u \o m # <<>> /\ (u \o m)[1] = u[1] /\ Tail(u \o m) = Tail(u) \o m
<1>1. /\ Head(u) \in Byte /\ Tail(u) \in Seq(Byte) /\ Head(u) = u[1]
  BY HeadTailProperties
<1>2. <<Head(u)>> \in Seq(Byte) /\ u = <<Head(u)>> \o Tail(u)
  BY <1>1, HeadAndTail
<1>3. u \o m = <<Head(u)>> \o (Tail(u) \o m)
  <2>1. (<<Head(u)>> \o Tail(u)) \o m = <<Head(u)>> \o (Tail(u) \o m)
    BY <1>1, <1>2, Associative
  <2> QED
    BY <1>2, <2>1
<1>4. Tail(u) \o m \in Seq(Byte)
  BY <1>1, ConcatProperties
<1>5. /\ <<Head(u)>> \o (Tail(u) \o m) \in Seq(Byte) /\ <<Head(u)>> \o (Tail(u) \o m) # <<>>
      /\ (<<Head(u)>> \o (Tail(u) \o m))[1] = Head(u)
      /\ Tail(<<Head(u)>> \o (Tail(u) \o m)) = Tail(u) \o m
  BY <1>1, <1>4, HeadFirst
<1> QED
  BY <1>1, <1>3, <1>5

LEMMA Motions ==
    \A b \in Motion : b \in Byte /\ b[1] = "move" /\ b[2] \in 1..MaxMoves /\ b[3] \in 1..3 /\ b[4] \in BOOLEAN
  BY DEF Motion, Byte

LEMMA Moves ==
    ASSUME Types, Move
    PROVE  /\ nMoves' = nMoves + 1 /\ nMoves + 1 \in 1..MaxMoves
           /\ \E m : Moved(m, nMoves + 1) /\ Stream("aux")' = Stream("aux") \o m
           /\ Stream("kbd")' = Stream("kbd")
           /\ \A p \in Ports : dev'[p].here = dev[p].here /\ dev'[p].on = dev[p].on /\ dev'[p].set = dev[p].set
<1>1. PICK b \in BOOLEAN : dev' = [dev EXCEPT !["aux"].out = dev["aux"].out \o
                                     [i \in 1..3 |-> <<"move", nMoves + 1, i, i = 1 \/ b>>]]
  BY DEF Move
<1>2. nMoves + 1 \in 1..MaxMoves /\ nMoves' = nMoves + 1 /\ obf' = obf
  BY Sizes DEF Move, Types, TypesBus
<1> DEFINE m == [i \in 1..3 |-> <<"move", nMoves + 1, i, i = 1 \/ b>>]
<1>3. \A i \in 1..3 : <<"move", nMoves + 1, i, i = 1 \/ b>> \in Motion
  BY <1>2 DEF Motion
<1>4. m \in Seq(Byte) /\ Len(m) = 3
  BY <1>3, Motions
<1>5. \A i \in 1..3 : m[i] \in Motion /\ m[i][2] = nMoves + 1 /\ m[i][3] = i /\ (i = 1 => m[i][4])
  BY <1>3
<1> HIDE DEF m
<1>6. /\ dev'["aux"].out = dev["aux"].out \o m /\ dev'["kbd"] = dev["kbd"]
      /\ \A p \in Ports : dev'[p].here = dev[p].here /\ dev'[p].on = dev[p].on /\ dev'[p].set = dev[p].set
  BY <1>1, PortNames DEF m, Types, TypesBus, Device
<1>7. Said("aux")' = Said("aux")
  BY <1>2 DEF Said
<1>8. Stream("aux")' = Stream("aux") \o m
  <2>1. Stream("aux")' = Said("aux") \o (dev["aux"].out \o m)
    BY <1>6, <1>7 DEF Stream
  <2>2. Said("aux") \in Seq(Byte) /\ dev["aux"].out \in Seq(Byte)
    BY Devices, PortNames
  <2>5. m \in Seq(Byte)
    BY <1>4
  <2>3. Said("aux") \o (dev["aux"].out \o m) = (Said("aux") \o dev["aux"].out) \o m
    BY <2>2, <2>5, Associative
  <2>4. Stream("aux") = Said("aux") \o dev["aux"].out
    BY DEF Stream
  <2> QED
    BY <2>1, <2>3, <2>4
<1>9. Stream("kbd")' = Stream("kbd")
  BY <1>2, <1>6, StreamSame, PortNames
<1> QED
  BY <1>2, <1>4, <1>5, <1>6, <1>8, <1>9 DEF Moved

(* One movement more.                                                      *)
LEMMA WholeMore ==
    ASSUME NEW u \in Seq(Byte), NEW m, Whole(u), Moved(m, nMoves + 1), nMoves \in Nat, nMoves' = nMoves + 1
    PROVE  Whole(u \o m)'
<1>1. /\ m \in Seq(Byte) /\ Len(m) = 3 /\ Len(u) \in Nat
      /\ \A i \in 1..3 : m[i] \in Motion /\ m[i][2] = nMoves + 1 /\ m[i][3] = i /\ (i = 1 => m[i][4])
  BY DEF Moved
<1> DEFINE w == u \o m
<1>2. /\ w \in Seq(Byte) /\ Len(w) = Len(u) + 3 /\ w # <<>>
      /\ \A i \in 1..Len(u) + 3 : w[i] = IF i <= Len(u) THEN u[i] ELSE m[i - Len(u)]
  <2>0. m \in Seq(Byte)
    BY <1>1
  <2>1. w \in Seq(Byte) /\ Len(w) = Len(u) + Len(m)
    BY <2>0, ConcatProperties
  <2>3. \A i \in 1..Len(u) + Len(m) : w[i] = IF i <= Len(u) THEN u[i] ELSE m[i - Len(u)]
    BY <2>0, ConcatProperties
  <2> HIDE DEF w
  <2>2. Len(w) # 0
    BY <1>1, <2>1
  <2> QED
    BY <1>1, <2>1, <2>2, <2>3, EmptySeq
<1> HIDE DEF w
<1>3. \A i \in 1..Len(u) : w[i] = u[i] /\ u[i] \in Motion /\ u[i][2] <= nMoves /\ (u[i][3] = 1 => u[i][4])
  BY <1>1, <1>2 DEF Whole
<1>4. /\ w[Len(u) + 1] = m[1] /\ w[Len(u) + 2] = m[2] /\ w[Len(u) + 3] = m[3]
      /\ \A i \in 1..Len(u) + 3 : i \in 1..Len(u) \/ i = Len(u) + 1 \/ i = Len(u) + 2 \/ i = Len(u) + 3
  <2>1. \A k \in {1, 2, 3} : /\ Len(u) + k \in 1..Len(u) + 3 /\ ~(Len(u) + k <= Len(u))
                            /\ Len(u) + k - Len(u) = k
    BY <1>1
  <2>2. \A k \in {1, 2, 3} : w[Len(u) + k] = m[k]
    BY <1>2, <2>1
  <2> QED
    BY <1>1, <2>2
<1>5. \A i \in 1..Len(w) : w[i] \in Motion /\ w[i][2] <= nMoves' /\ (w[i][3] = 1 => w[i][4])
  <2>1. \A i \in 1..Len(u) : u[i][2] <= nMoves + 1
    BY <1>3, Motions
  <2>2. \A i \in 1..Len(u) : w[i] \in Motion /\ w[i][2] <= nMoves' /\ (w[i][3] = 1 => w[i][4])
    BY <1>3, <2>1
  <2>3. \A k \in 1..3 : m[k] \in Motion /\ m[k][2] <= nMoves' /\ (m[k][3] = 1 => m[k][4])
    BY <1>1
  <2>4. SUFFICES ASSUME NEW i \in 1..Len(u) + 3
                 PROVE  w[i] \in Motion /\ w[i][2] <= nMoves' /\ (w[i][3] = 1 => w[i][4])
    BY <1>2
  <2> QED
    BY <1>4, <2>2, <2>3
<1>6. w[1] = IF u = <<>> THEN m[1] ELSE u[1]
  BY <1>1, <1>2, <1>3, <1>4, EmptySeq
<1>7. w[1][3] = 1 /\ w[Len(w)][3] = 3
  BY <1>1, <1>2, <1>4, <1>6 DEF Whole
<1>8. ASSUME NEW i \in 1..Len(w), i < Len(w)
      PROVE  IF w[i][3] < 3 THEN w[i + 1][2] = w[i][2] /\ w[i + 1][3] = w[i][3] + 1
                            ELSE w[i + 1][2] > w[i][2] /\ w[i + 1][3] = 1
  <2>1. CASE i < Len(u)
    <3>1. i \in 1..Len(u) /\ i + 1 \in 1..Len(u)
      BY <1>1, <1>2, <1>8, <2>1
    <3> QED
      BY <1>3, <2>1, <3>1 DEF Whole
  <2>2. CASE i = Len(u)
    <3>1. u # <<>> /\ i \in 1..Len(u)
      BY <1>1, <1>8, <2>2
    <3>2. u[i][3] = 3 /\ u[i][2] <= nMoves /\ u[i][2] \in Int
      BY <1>3, <2>2, <3>1, Motions DEF Whole
    <3>3. nMoves + 1 > u[i][2]
      BY <3>2
    <3> QED
      BY <1>1, <1>3, <1>4, <2>2, <3>1, <3>2, <3>3
  <2>3. CASE i = Len(u) + 1
    BY <1>1, <1>4, <2>3
  <2>4. CASE i = Len(u) + 2
    BY <1>1, <1>4, <2>4
  <2> QED
    BY <1>1, <1>2, <1>4, <1>8, <2>1, <2>2, <2>3, <2>4
<1>9. Whole(w)'
  <2>1. (\A i \in 1..Len(w) : w[i] \in Motion /\ w[i][2] <= nMoves' /\ (w[i][3] = 1 => w[i][4]))
    BY <1>5
  <2> QED
    BY <1>5, <1>7, <1>8 DEF Whole
<1> QED
  BY <1>9 DEF w

(* Three bytes less: the first movement of several.                        *)
LEMMA WholeLess ==
    ASSUME NEW u \in Seq(Byte), NEW v \in Seq(Byte), Whole(u \o v), Len(u) = 3
    PROVE  /\ IsMovement(u) /\ u[1][2] <= nMoves /\ u[1] = (u \o v)[1]
           /\ Whole(v) /\ (v # <<>> => u[1][2] < v[1][2])
<1> DEFINE w == u \o v
<1>1. /\ w \in Seq(Byte) /\ Len(w) = Len(v) + 3 /\ Len(v) \in Nat
      /\ \A i \in 1..Len(v) + 3 : w[i] = IF i <= 3 THEN u[i] ELSE v[i - 3]
  <2>1. w \in Seq(Byte) /\ Len(w) = Len(u) + Len(v)
    BY ConcatProperties
  <2>2. \A i \in 1..Len(u) + Len(v) : w[i] = IF i <= Len(u) THEN u[i] ELSE v[i - Len(u)]
    BY ConcatProperties
  <2>3. Len(v) \in Nat
    OBVIOUS
  <2> HIDE DEF w
  <2> QED
    BY <2>1, <2>2, <2>3
<1> HIDE DEF w
<1>2. Whole(w)
  BY DEF w
<1>3. w # <<>> /\ w[1] = u[1] /\ w[2] = u[2] /\ w[3] = u[3]
  <2>1. Len(w) # 0 /\ 1 \in 1..Len(v) + 3 /\ 2 \in 1..Len(v) + 3 /\ 3 \in 1..Len(v) + 3
    BY <1>1
  <2> QED
    BY <1>1, <2>1, EmptySeq
<1>4. \A i \in 1..Len(v) : w[i + 3] = v[i]
  <2> TAKE i \in 1..Len(v)
  <2>1. i + 3 \in 1..Len(v) + 3 /\ ~(i + 3 <= 3) /\ i + 3 - 3 = i
    BY <1>1
  <2> QED
    BY <1>1, <2>1
<1>5. \A i \in 1..Len(w) : w[i] \in Motion /\ w[i][2] <= nMoves /\ (w[i][3] = 1 => w[i][4])
  BY <1>2 DEF Whole
<1>6. w[1][3] = 1 /\ w[Len(w)][3] = 3
  BY <1>2, <1>3 DEF Whole
<1>7. \A i \in 1..Len(w) : i < Len(w) =>
        IF w[i][3] < 3 THEN w[i + 1][2] = w[i][2] /\ w[i + 1][3] = w[i][3] + 1
                       ELSE w[i + 1][2] > w[i][2] /\ w[i + 1][3] = 1
  BY <1>2 DEF Whole
<1>8. /\ 1 \in 1..Len(w) /\ 1 < Len(w) /\ 1 + 1 = 2
      /\ 2 \in 1..Len(w) /\ 2 < Len(w) /\ 2 + 1 = 3 /\ 3 \in 1..Len(w) /\ 3 + 1 = 4
  BY <1>1
<1>9. w[2][2] = w[1][2] /\ w[2][3] = 2
  BY <1>6, <1>7, <1>8
<1>10. w[3][2] = w[1][2] /\ w[3][3] = 3
  BY <1>7, <1>8, <1>9
<1>11. IsMovement(u) /\ u[1][2] <= nMoves
  <2>1. \A i \in 1..3 : i = 1 \/ i = 2 \/ i = 3
    OBVIOUS
  <2> QED
    BY <1>3, <1>5, <1>6, <1>8, <1>9, <1>10, <2>1 DEF IsMovement
<1>12. v # <<>> => v[1][3] = 1 /\ v[Len(v)][3] = 3 /\ u[1][2] < v[1][2]
  <2> SUFFICES ASSUME v # <<>> PROVE v[1][3] = 1 /\ v[Len(v)][3] = 3 /\ u[1][2] < v[1][2]
    OBVIOUS
  <2>1. Len(v) >= 1
    BY <1>1, EmptySeq
  <2>2. 3 < Len(w) /\ 1 \in 1..Len(v) /\ Len(v) \in 1..Len(v) /\ Len(v) + 3 = Len(w) /\ 1 + 3 = 4
        /\ 4 \in 1..Len(w)
    BY <1>1, <2>1
  <2>3. w[4] = v[1] /\ w[Len(w)] = v[Len(v)]
    BY <1>4, <2>2
  <2>4. w[4][2] > w[3][2] /\ w[4][3] = 1
    BY <1>7, <1>8, <1>10, <2>2
  <2>5. w[1][2] \in Int /\ w[4][2] \in Int
    BY <1>5, <1>8, <2>2, Motions
  <2> QED
    BY <1>3, <1>6, <1>10, <2>3, <2>4, <2>5
<1>13. \A i \in 1..Len(v) : v[i] \in Motion /\ v[i][2] <= nMoves /\ (v[i][3] = 1 => v[i][4])
  <2>1. \A i \in 1..Len(v) : i + 3 \in 1..Len(w)
    BY <1>1
  <2> QED
    BY <1>4, <1>5, <2>1
<1>14. ASSUME NEW i \in 1..Len(v), i < Len(v)
       PROVE  IF v[i][3] < 3 THEN v[i + 1][2] = v[i][2] /\ v[i + 1][3] = v[i][3] + 1
                             ELSE v[i + 1][2] > v[i][2] /\ v[i + 1][3] = 1
  <2>1. i + 1 \in 1..Len(v) /\ i + 3 \in 1..Len(w) /\ i + 3 < Len(w) /\ i + 3 + 1 = i + 1 + 3
    BY <1>1, <1>14
  <2>2. w[i + 3] = v[i] /\ w[i + 1 + 3] = v[i + 1]
    BY <1>4, <2>1
  <2> QED
    BY <1>7, <2>1, <2>2
<1>15. Whole(v)
  BY <1>12, <1>13, <1>14 DEF Whole
<1> QED
  BY <1>3, <1>11, <1>12, <1>15 DEF w

LEMMA SyncType == ASSUME Types, Control, Sync, Type PROVE Sync'
<1>1. /\ UNCHANGED <<ctr, fg, res, misled, nMoves>> /\ obf' = obf /\ dev["kbd"].here
      /\ dev' = [dev EXCEPT !["kbd"].out = Append(dev["kbd"].out, <<"key", nKeys + 1>>)]
  BY DEF Type
<1>2. <<"key", nKeys + 1>> \in Byte /\ dev["kbd"] \in Device
  <2>1. nKeys + 1 \in 1..MaxKeys
    BY Sizes DEF Type, Types, TypesBus
  <2> QED
    BY <2>1, Devices, PortNames DEF Byte
<1>3. /\ dev'["kbd"].out = Append(dev["kbd"].out, <<"key", nKeys + 1>>) /\ dev'["aux"] = dev["aux"]
      /\ \A p \in Ports : dev'[p].here = dev[p].here /\ dev'[p].on = dev[p].on /\ dev'[p].set = dev[p].set
  BY <1>1, PortNames DEF Types, TypesBus, Device
<1>4. Stream("aux")' = Stream("aux")
  BY <1>1, <1>3, PortNames, StreamSame
<1>5. PICK b \in Byte : b = <<"key", nKeys + 1>> /\ b[1] = "key"
  BY <1>2
<1>6. Stream("kbd")' = Append(Stream("kbd"), b)
  <2>1. Stream("kbd")' = Said("kbd") \o Append(dev["kbd"].out, b)
    BY <1>1, <1>3, <1>5 DEF Stream, Said
  <2>2. Said("kbd") \in Seq(Byte) /\ dev["kbd"].out \in Seq(Byte)
    BY Devices, PortNames
  <2>3. \A s, t \in Seq(Byte) : s \o Append(t, b) = Append(s \o t, b)
    <3> TAKE s \in Seq(Byte), t \in Seq(Byte)
    <3>1. <<b>> \in Seq(Byte) /\ s \o t \in Seq(Byte)
      BY ConcatProperties
    <3>2. Append(t, b) = t \o <<b>> /\ Append(s \o t, b) = (s \o t) \o <<b>>
      BY <3>1, AppendIsConcat
    <3> QED
      BY <3>1, <3>2, ConcatAssociative
  <2>4. Stream("kbd") = Said("kbd") \o dev["kbd"].out
    BY DEF Stream
  <2> QED
    BY <2>1, <2>2, <2>3, <2>4
<1>7. Silent' /\ Successful'
  BY <1>1, <1>3, <1>4, PortNames DEF Sync, Silent, Successful
<1>8. MouseOff'
  BY <1>1, <1>3 DEF Sync, MouseOff, Past
<1>9. InStep("aux")'
  BY <1>1, <1>3, <1>4, InStepSame, PortNames DEF Sync
<1>10. InStep("kbd")'
  <2> DEFINE f == Stream("kbd")
             g == Append(f, b)
  <2> SUFFICES ASSUME fg.port = "kbd", "kbd" \notin misled
               PROVE  /\ SyncAck("kbd", Stream("kbd"))' /\ SyncFirst("kbd", Stream("kbd"))'
                      /\ fg.pc # "idle" => SyncLater("kbd", Stream("kbd"))'
    BY <1>1 DEF InStep
  <2>1. /\ SyncAck("kbd", f) /\ SyncFirst("kbd", f) /\ (fg.pc # "idle" => SyncLater("kbd", f))
    BY PortNames DEF Sync, InStep
  <2>2. f \in Seq(Byte) /\ Stream("kbd")' = g
    BY <1>6, Devices, PortNames
  <2>3. fg.pc = "recv" => fg.step = 1 /\ fg.n # 1
    BY Commands, Fields DEF Control, Types
  <2>4. AckFree(f) => AckFree(g)
    BY <1>5, <2>2, AckFreeMore
  <2> HIDE DEF f
  <2>5. /\ Begins(g, "bat") => Begins(f, "bat")
        /\ Begins(g, "ack") => Begins(f, "ack")
    <3>1. CASE f = <<>>
      <4>1. g[1] = b
        BY <3>1
      <4> QED
        BY <1>5, <4>1 DEF Begins
    <3>2. CASE f # <<>>
      <4>1. 1 \in 1..Len(f)
        BY <2>2, <3>2, EmptySeq
      <4>2. g[1] = f[1]
        BY <2>2, <4>1, AppendProperties
      <4> QED
        BY <3>2, <4>2 DEF Begins
    <3> QED
      BY <3>1, <3>2
  <2>6. Begins(f, "ack") => Tail(g) = Append(Tail(f), b) /\ Tail(f) \in Seq(Byte)
    <3> SUFFICES ASSUME f # <<>> PROVE Tail(g) = Append(Tail(f), b) /\ Tail(f) \in Seq(Byte)
      BY DEF Begins
    <3>1. <<b>> \in Seq(Byte) /\ Tail(f) \in Seq(Byte)
      BY <2>2, HeadTailProperties
    <3>2. g = f \o <<b>> /\ Append(Tail(f), b) = Tail(f) \o <<b>>
      BY <2>2, <3>1, AppendIsConcat
    <3> QED
      BY <2>2, <3>1, <3>2, Longer
  <2>7. Begins(f, "ack") => (AckFree(Tail(f)) => AckFree(Tail(g)))
                            /\ (Begins(Tail(g), "bat") => Begins(Tail(f), "bat"))
    <3> SUFFICES ASSUME Begins(f, "ack")
                 PROVE  /\ AckFree(Tail(f)) => AckFree(Tail(g))
                        /\ Begins(Tail(g), "bat") => Begins(Tail(f), "bat")
      OBVIOUS
    <3>1. AckFree(Tail(f)) => AckFree(Tail(g))
      BY <1>5, <2>6, AckFreeMore
    <3>2. Begins(Tail(g), "bat") => Begins(Tail(f), "bat")
      <4>1. CASE Tail(f) = <<>>
        <5>1. Tail(g) = Append(<<>>, b)
          BY <2>6, <4>1
        <5>2. Append(<<>>, b)[1] = b
          OBVIOUS
        <5> QED
          BY <1>5, <5>1, <5>2 DEF Begins
      <4>2. CASE Tail(f) # <<>>
        <5>1. 1 \in 1..Len(Tail(f))
          BY <2>6, <4>2, EmptySeq
        <5>2. Tail(g)[1] = Tail(f)[1]
          BY <2>6, <5>1, AppendProperties
        <5> QED
          BY <4>2, <5>2 DEF Begins
      <4> QED
        BY <4>1, <4>2
    <3> QED
      BY <3>1, <3>2
  <2> HIDE DEF g
  <2>8. Obeyed("kbd") => Obeyed("kbd")'
    BY <1>1, <1>3, PortNames DEF Obeyed
  <2>9. SyncAck("kbd", Stream("kbd"))'
    BY <1>1, <2>1, <2>2, <2>5, <2>7, <2>8, PortNames DEF SyncAck, Begins, Over, Answered
  <2>10. SyncFirst("kbd", Stream("kbd"))'
    BY <1>1, <2>1, <2>2, <2>3, <2>4, <2>5, PortNames DEF SyncFirst, Begins, Over, Answered
  <2>11. fg.pc # "idle" => SyncLater("kbd", Stream("kbd"))'
    BY <1>1, <1>3, <2>1, <2>2, <2>4, <2>8, PortNames DEF SyncLater, Over
  <2> QED
    BY <2>9, <2>10, <2>11
<1> QED
  BY <1>7, <1>8, <1>9, <1>10, PortNames DEF Sync

LEMMA SyncMove == ASSUME Types, Control, Sync, Move PROVE Sync'
<1>1. /\ UNCHANGED <<ctr, fg, res, misled>> /\ dev["aux"].here /\ dev["aux"].on
  BY DEF Move
<1>2. /\ nMoves' = nMoves + 1 /\ nMoves \in Nat /\ Stream("kbd")' = Stream("kbd")
      /\ \A p \in Ports : dev'[p].here = dev[p].here /\ dev'[p].on = dev[p].on /\ dev'[p].set = dev[p].set
  BY Moves DEF Types, TypesBus
<1>3. PICK m : Moved(m, nMoves + 1) /\ Stream("aux")' = Stream("aux") \o m
  BY Moves
<1>4. fg.port = "aux" /\ (fg.pc = "idle" \/ (fg.step = 4 /\ fg.pc \in {"ack", "close", "judge"}))
  BY <1>1, PortNames DEF Sync, MouseOff, Past
<1>5. Silent' /\ Successful'
  BY <1>1, <1>2, PortNames DEF Sync, Silent, Successful
<1>6. MouseOff'
  BY <1>1, <1>2, <1>4 DEF MouseOff, Past
<1>7. ASSUME "aux" \notin misled
      PROVE  /\ SyncAck("aux", Stream("aux"))' /\ SyncFirst("aux", Stream("aux"))'
             /\ fg.pc # "idle" => SyncLater("aux", Stream("aux"))'
  <2>1. PICK u \in Seq(Byte) : u = Stream("aux")
    BY Devices, PortNames
  <2>2. SyncAck("aux", u) /\ SyncFirst("aux", u) /\ (fg.pc # "idle" => SyncLater("aux", u))
    BY <1>4, <1>7, <2>1, PortNames DEF Sync, InStep
  <2>3. Stream("aux")' = u \o m
    BY <1>3, <2>1
  <2>4. Obeyed("aux") => Obeyed("aux")'
    BY <1>1, <1>2, PortNames DEF Obeyed
  <2>5. CASE fg.pc = "idle"
    BY <1>1, <2>5 DEF SyncAck, SyncFirst
  <2>6. CASE fg.step = 4 /\ fg.pc \in {"close", "judge"}
    <3>1. Whole(u) => Whole(u \o m)'
      BY <1>2, <1>3, WholeMore
    <3>2. Over("aux", u) => Over("aux", u \o m)'
      BY <1>1, <2>6, <3>1, PortNames DEF Over
    <3>3. Started("aux") => Started("aux")'
      BY <1>1 DEF Started, Past
    <3> QED
      BY <1>1, <1>2, <2>2, <2>3, <2>4, <2>6, <3>2, <3>3, PortNames DEF SyncAck, SyncFirst, SyncLater
  <2>7. CASE fg.step = 4 /\ fg.pc = "ack"
    <3>1. Begins(u, "ack")
      BY <1>1, <2>2, <2>7 DEF SyncLater
    <3>2. PICK v \in Seq(Byte) : v = Tail(u)
      BY <3>1, HeadTailProperties DEF Begins
    <3>3. Obeyed("aux") /\ Whole(v)
      BY <2>2, <2>7, <3>1, <3>2, PortNames DEF SyncAck, Over
    <3>4. Whole(v \o m)'
      BY <1>2, <1>3, <3>3, WholeMore
    <3>5. Over("aux", v \o m)'
      BY <1>1, <2>7, <3>4, PortNames DEF Over
    <3>6. Tail(u \o m) = v \o m /\ (u \o m)[1] = u[1] /\ u \o m # <<>>
      <4>1. m \in Seq(Byte) /\ u # <<>>
        BY <1>3, <3>1 DEF Moved, Begins
      <4> QED
        BY <3>2, <4>1, Longer
    <3>7. Begins(u \o m, "ack")
      BY <3>1, <3>6 DEF Begins
    <3>8. Tail(Stream("aux")') = v \o m
      <4>1. Tail(u \o m) = v \o m
        BY <3>6
      <4> QED
        BY <2>3, <4>1, Zenon
    <3>11. Over("aux", Tail(Stream("aux")))'
      <4>1. PICK t : t = v \o m
        OBVIOUS
      <4>2. Whole(t)'
        BY <3>4, <4>1 DEF Whole
      <4>3. t = Tail(Stream("aux")')
        BY <3>8, <4>1
      <4>4. Whole(Tail(Stream("aux")))'
        BY <4>2, <4>3 DEF Whole
      <4> QED
        BY <1>1, <2>7, <4>4, PortNames DEF Over
    <3>9. SyncAck("aux", Stream("aux"))'
      BY <1>1, <2>4, <2>7, <3>3, <3>11 DEF SyncAck
    <3>10. SyncLater("aux", Stream("aux"))'
      BY <1>1, <1>2, <2>2, <2>3, <2>7, <3>7, PortNames DEF SyncLater
    <3> QED
      BY <1>1, <2>7, <3>9, <3>10 DEF SyncFirst
  <2> QED
    BY <1>4, <2>5, <2>6, <2>7
<1> QED
  BY <1>1, <1>4, <1>5, <1>6, <1>7, PortNames DEF Sync, InStep

-----------------------------------------------------------------------------
(* The packets.                                                            *)

LEMMA ComingType == ASSUME Types PROVE Coming \in Seq(Byte) /\ temp \in Seq(Byte) /\ Stream("aux") \in Seq(Byte)
<1>1. temp \in Seq(Byte) /\ Stream("aux") \in Seq(Byte)
  BY Devices, PortNames DEF Types, TypesStore
<1> QED
  BY <1>1, ConcatProperties DEF Coming

(* Before the mouse's last command has been judged there are no packets.   *)
LEMMA PacketsNone ==
    ASSUME Types, Control, Packets, fg.pc # "idle", fg'.port \in Ports,
           \/ fg'.port = fg.port /\ (fg.step = 4 /\ fg.pc # "mask" =>
                                       fg'.step = 4 /\ fg'.pc # "mask" /\ (fg.pc = "judge" => fg'.pc = "judge"))
           \/ fg'.port = "aux" /\ (fg.port = "aux" => fg'.pc = "idle"),
           UNCHANGED <<pkt, reported>>, temp' = temp \/ temp' = <<>>, ~Tracked'
    PROVE  Packets'
<1>1. Started("aux") => Started("aux")'
  BY Further, PortNames
<1>2. ~Started("aux")' => temp' = <<>> /\ pkt' = <<>>
  BY <1>1 DEF Packets
<1>3. reported' = <<>>
  BY DEF Packets
<1> QED
  BY <1>2, <1>3 DEF Packets

(* Nothing that was tracked has changed.                                   *)
LEMMA PacketsSame ==
    ASSUME Packets, UNCHANGED <<temp, pkt, reported, nMoves>>, Stream("aux")' = Stream("aux"),
           Started("aux") => Started("aux")', fg'.pc # "idle" => fg.pc # "idle", Tracked' => Tracked
    PROVE  Packets'
<1>1. Coming' = Coming
  BY DEF Coming
<1>2. (~Started("aux")' => temp' = <<>> /\ pkt' = <<>>) /\ (fg'.pc # "idle" => reported' = <<>>)
  BY DEF Packets
<1>3. ASSUME Tracked'
      PROVE /\ Whole(Coming)'
            /\ pkt # <<>> => /\ IsMovement(pkt) /\ pkt[1][2] <= nMoves
                             /\ Coming # <<>> => pkt[1][2] < Coming[1][2]
            /\ \A i \in 1..Len(reported) :
                 /\ IsMovement(reported[i]) /\ reported[i][1][2] <= nMoves
                 /\ pkt # <<>> => reported[i][1][2] < pkt[1][2]
                 /\ Coming # <<>> => reported[i][1][2] < Coming[1][2]
                 /\ \A j \in 1..i - 1 : reported[j][1][2] < reported[i][1][2]
  <2>1. Tracked
    BY <1>3
  <2>2. Whole(Coming)'
    BY <1>1, <2>1 DEF Packets, Whole
  <2> QED
    BY <2>1, <2>2 DEF Packets
<1>4. \A s : IsMovement(s)' <=> IsMovement(s)
  BY DEF IsMovement
<1> QED
  BY <1>1, <1>2, <1>3, <1>4 DEF Packets, IsMovement

(* A start-up that is not over has no result.                              *)
LEMMA NoResult ==
    ASSUME Control, fg.pc # "idle"
    PROVE  res["aux"] = "none"
  BY PortNames DEF Control, Past

LEMMA PacketsReset ==
    ASSUME Types, Control, Packets, DisableKbd \/ DisableAux \/ SelfTest \/ SelfAnswer
    PROVE  Packets'
<1> USE DEF At, Write, Ready, Stuck
<1>1. PICK l \in {"disAux", "flush0", "selfAnswer", "test"} : Goto(l)
  BY DEF DisableKbd, DisableAux, SelfTest, SelfAnswer
<1>2. /\ fg.pc \in {"disKbd", "disAux", "selfTest", "selfAnswer"} /\ UNCHANGED <<pkt, reported, temp>>
  BY DEF DisableKbd, DisableAux, SelfTest, SelfAnswer, store
<1>3. l \in Place
  BY DEF Place, ProbeAt, ResetAt
<1>4. fg'.port = fg.port /\ fg.port = "kbd" /\ fg.step = 1
  BY <1>1, <1>2, <1>3, GoesTo DEF Types, Control, ResetAt, ProbeAt
<1>5. ~Tracked'
  BY <1>4 DEF Tracked
<1> QED
  BY <1>2, <1>4, <1>5, PacketsNone, PortNames

LEMMA PacketsProbe ==
    ASSUME Types, Control, Packets,
           FlushStatus \/ FlushRead \/ TestKbd \/ KbdAnswer \/ EnableKbd \/ TestAux
    PROVE  Packets'
<1> USE DEF At, Write, Ready, Stuck
<1>1. /\ fg.pc \in ProbeAt /\ UNCHANGED <<pkt, reported>> /\ (temp' = temp \/ temp' = <<>>)
      /\ res' = res \/ ResetReturns("failed")
  BY DEF FlushStatus, FlushRead, TestKbd, KbdAnswer, EnableKbd, TestAux, store, ProbeFails, ProbeAt,
         ResetAt
<1>2. fg.step = 1 /\ fg.pc # "idle"
  BY <1>1 DEF Control, ProbeAt, ResetAt
<1>3. \/ fg'.port = fg.port /\ fg'.step = 1 /\ fg'.pc \in Place \ {"idle"}
      \/ /\ fg'.port = "aux" /\ fg'.step = 1 /\ fg.port = "kbd"
      \/ fg'.port = "aux" /\ fg'.step = 1 /\ fg.port = "aux" /\ fg'.pc = "idle"
  <2>1. {"answer", "enable", "enable2", "flush", "flushRead0", "flushRead", "mask"} \subseteq Place \ {"idle"}
    BY DEF Place, ProbeAt, ResetAt
  <2>2. CASE NextDevice
    BY <2>2, Next2, Fields DEF Types
  <2>3. CASE FlushStatus
    BY <1>2, <2>3 DEF FlushStatus, Goto, Types, TypesFg, Foreground, Place, ProbeAt, ResetAt
  <2>4. CASE FlushRead /\ ~NextDevice
    BY <1>2, <2>4 DEF FlushRead, ResetReturns, Types, TypesFg, Foreground, Place, ProbeAt, ResetAt
  <2>5. CASE \E l \in {"answer", "enable", "enable2", "flush"} : Goto(l)
    BY <1>2, <2>1, <2>5, GoesTo DEF Types
  <2> QED
    BY <2>2, <2>3, <2>4, <2>5 DEF TestKbd, KbdAnswer, EnableKbd, TestAux, ProbeFails, ResetReturns
<1>4. res["aux"] # "ok" /\ res'["aux"] # "ok"
  <2>1. res["aux"] # "ok"
    BY <1>2, PortNames DEF Control, Past
  <2> QED
    BY <1>1, <2>1, PortNames, Fields DEF ResetReturns, Types, TypesFg
<1>5. ~Tracked'
  BY <1>3, <1>4 DEF Tracked
<1> QED
  BY <1>1, <1>2, <1>3, <1>5, PacketsNone, PortNames, Fields DEF Types

LEMMA PacketsCommand ==
    ASSUME Types, Control, Packets, Unmask \/ Open \/ Send \/ TimeOut \/ Received
    PROVE  Packets'
<1> USE DEF At, Write, Ready, Stuck
<1>1. /\ fg.pc \in {"mask", "open", "send", "arg", "ack", "argAck", "recv"}
      /\ UNCHANGED <<pkt, reported, temp, res>>
  BY DEF Unmask, Open, Send, TimeOut, Received, Waiting, store
<1>2. /\ fg'.port = fg.port /\ fg'.step = fg.step
      /\ \/ fg'.pc \in {"open", "send", "ack", "argAck"}
         \/ fg'.pc = "close" /\ fg'.ret = "failed"
         \/ fg.step = 1 /\ fg'.pc \in {"close", "recv"}
  <2>1. {"open", "ack", "argAck"} \subseteq Place
    BY DEF Place, CommandAt
  <2>2. CASE Received
    BY <2>2 DEF Received, Control, Types, TypesFg, Foreground
  <2>3. CASE fg' = [fg EXCEPT !.pc = "send", !.n = 0]
    BY <2>3 DEF Types, TypesFg, Foreground
  <2>4. CASE Closed("failed") \/ \E l \in {"open", "ack", "argAck"} : Goto(l)
    BY <2>1, <2>4, GoesTo, Closes DEF Types, Result
  <2> QED
    BY <2>2, <2>3, <2>4 DEF Unmask, Open, Send, TimeOut
<1>3. ~Tracked'
  <2>1. res["aux"] = "none"
    BY <1>1, NoResult
  <2> QED
    BY <1>1, <1>2, <2>1 DEF Tracked
<1> QED
  BY <1>1, <1>2, <1>3, PacketsNone, Fields DEF Types

LEMMA PacketsRestore == ASSUME Types, Control, Packets, Restore PROVE Packets'
<1> USE DEF At, Write, Ready, Stuck
<1>1. /\ fg.pc = "close" /\ UNCHANGED <<pkt, reported, temp, res, obf, dev, misled, nMoves>>
      /\ fg'.port = fg.port /\ fg'.step = fg.step
      /\ fg'.pc = "judge" /\ (fg'.ret = "failed" \/ fg'.ret = fg.ret)
  BY PlaceNames, GoesTo DEF Restore, store, devices, Types, TypesFg, Foreground, Result
<1>2. Stream("aux")' = Stream("aux")
  BY <1>1, StreamSame, PortNames
<1>3. Started("aux") => Started("aux")'
  BY <1>1 DEF Started, Past
<1>4. Tracked' => Tracked
  BY <1>1 DEF Tracked
<1> QED
  BY <1>1, <1>2, <1>3, <1>4, PacketsSame

LEMMA PacketsJudge == ASSUME Types, Control, Packets, Judge PROVE Packets'
<1> USE DEF At
<1>1. fg.pc = "judge" /\ UNCHANGED <<pkt, reported, temp, obf, dev, nMoves>>
      /\ fg.port \in Ports /\ fg.step \in {1, 2, 3, 4} /\ res \in [Ports -> {"none"} \union Result]
  BY Fields DEF Judge, store, devices, Types, TypesFg
<1>2. \/ fg'.port = fg.port /\ fg.step # 4 /\ fg'.pc \in {"open", "mask"} /\ res' = res
      \/ /\ fg'.port = "aux" /\ fg'.step = 1 /\ (fg.port = "aux" => fg'.pc = "idle") /\ misled' = misled
         /\ \E r \in Result : /\ res' = [res EXCEPT ![fg.port] = r]
                              /\ r = "ok" => fg.step = 4 /\ fg.ret = "ok"
  <2>1. CASE \E r \in Result : ResetReturns(r) /\ (r = "ok" => fg.step = 4 /\ fg.ret = "ok") /\ misled' = misled
    BY <2>1, Next2, Fields DEF Types, ResetReturns
  <2>2. CASE fg.step # 4 /\ fg' = [Serving(fg.port, "mask") EXCEPT !.step = fg.step + 1] /\ res' = res
    BY <2>2 DEF Serving
  <2>3. CASE fg.step = 1 /\ fg' = [fg EXCEPT !.pc = "open", !.ret = "ok", !.tries = @ + 1] /\ res' = res
    BY <2>3 DEF Types, TypesFg, Foreground
  <2>4. fg.ret \in Result /\ "failed" \in Result
    BY Fields DEF Types, Result
  <2> QED
    BY <1>1, <2>1, <2>2, <2>3, <2>4 DEF Judge
<1>3. Stream("aux")' = Stream("aux")
  BY <1>1, StreamSame, PortNames
<1>4. Started("aux") => Started("aux")'
  BY <1>1, <1>2, PortNames DEF Started, Past
<1>5. Tracked' => Tracked
  <2>1. res["aux"] = "none"
    BY <1>1, NoResult
  <2> QED
    BY <1>1, <1>2, <2>1, PortNames DEF Tracked
<1> QED
  BY <1>1, <1>3, <1>4, <1>5, PacketsSame

(* The last command of the mouse's reset is acknowledged: what the mouse   *)
(* says next are whole movements.                                          *)
LEMMA PacketsAcknowledged ==
    ASSUME Types, Control, Sync, Packets, Sync', Acknowledged
    PROVE  Packets'
<1> USE DEF At
<1>1. /\ fg.pc \in {"ack", "argAck"} /\ UNCHANGED <<pkt, reported, temp, res, misled>>
  BY DEF Acknowledged, store, bounds
<1>2. fg'.port = fg.port /\ fg'.step = fg.step /\ fg'.pc \in {"arg", "recv", "close"}
  <2>1. {"arg", "recv"} \subseteq Place
    BY DEF Place, CommandAt
  <2>2. Goto("arg") \/ Goto("recv") \/ Closed("ok") \/ Closed("failed")
    BY DEF Acknowledged
  <2> QED
    BY <2>1, <2>2, GoesTo, Closes DEF Types, Result
<1>3. CASE ~Tracked'
  BY <1>1, <1>2, <1>3, PacketsNone, Fields DEF Types
<1>4. CASE Tracked'
  <2>1. res["aux"] = "none"
    BY <1>1, NoResult
  <2>2. /\ fg.port = "aux" /\ fg'.port = "aux" /\ fg'.step = 4 /\ fg'.pc = "close" /\ fg'.ret = "ok"
        /\ "aux" \notin misled'
    BY <1>1, <1>2, <1>4, <2>1 DEF Tracked
  <2>3. temp = <<>> /\ pkt = <<>> /\ reported = <<>>
    BY <1>1, <2>2, PortNames DEF Packets, Started, Past
  <2>4. SyncLater("aux", Stream("aux"))'
    BY <2>2, PortNames DEF Sync, InStep
  <2>5. Whole(Stream("aux"))'
    BY <2>2, <2>4, PortNames DEF SyncLater, Over, Started, Past
  <2>6. Coming' = Stream("aux")'
    <3>1. /\ obf' = Empty /\ dev'["aux"].out = dev["aux"].out /\ Stream("aux") \in Seq(Byte)
      BY ComingType DEF Acknowledged, devices
    <3>2. \/ Stream("aux")' = Stream("aux")
          \/ Stream("aux") # <<>> /\ Stream("aux")' = Tail(Stream("aux"))
      <4>1. "aux" \in Ports
        BY PortNames
      <4> QED
        BY <3>1, <4>1, StreamTaken
    <3>3. Stream("aux")' \in Seq(Byte)
      BY <3>1, <3>2, HeadTailProperties
    <3> QED
      BY <1>1, <2>3, <3>3, ConcatEmptySeq DEF Coming
  <2>7. Whole(Coming)'
    BY <2>5, <2>6 DEF Whole
  <2> QED
    BY <1>1, <2>2, <2>3, <2>7 DEF Packets
<1> QED
  BY <1>3, <1>4

LEMMA PacketsBus ==
    ASSUME Types, Control, Packets,
           \/ Discard \/ Interrupt \/ HandlerEnds \/ HandlerKey \/ Type
           \/ DeliverAnswer \/ \E p \in Ports : Deliver(p)
    PROVE  Packets'
<1> USE DEF At
<1>1. UNCHANGED <<fg, res, misled, temp, pkt, reported, nMoves>>
  BY DEF Discard, Interrupt, HandlerEnds, HandlerKey, HandlerTakes, Type, DeliverAnswer, Deliver, store,
         bounds
<1>2. (Tracked' <=> Tracked) /\ (Started("aux")' <=> Started("aux"))
  BY <1>1 DEF Tracked, Started, Past
<1>3. CASE Stream("aux")' = Stream("aux")
  BY <1>1, <1>2, <1>3, PacketsSame
<1>4. CASE Discard
  <2>1. fg.pc \in {"ack", "argAck", "recv"}
    BY <1>4 DEF Discard, Waiting
  <2>2. ~Tracked'
    <3>1. res["aux"] = "none"
      BY <2>1, NoResult
    <3> QED
      BY <1>2, <2>1, <3>1 DEF Tracked
  <2> QED
    BY <1>1, <2>1, <2>2, PacketsNone, Fields DEF Types
<1>5. CASE HandlerKey
  <2>1. obf # Empty /\ PortOf(obf) = "kbd" /\ obf' = Empty /\ dev' = dev
    BY <1>5 DEF HandlerKey, HandlerTakes, devices
  <2>2. obf[1] # "aux"
    BY <2>1 DEF PortOf
  <2> QED
    BY <1>3, <2>1, <2>2, StreamTaken, PortNames
<1>6. CASE Interrupt \/ HandlerEnds \/ Type
  <2>1. obf' = obf /\ dev'["aux"].out = dev["aux"].out
    BY <1>6, PortNames DEF Interrupt, HandlerEnds, Type, devices, Types, TypesBus
  <2> QED
    BY <1>3, <2>1, StreamSame, PortNames
<1>7. CASE DeliverAnswer \/ \E p \in Ports : Deliver(p)
  BY <1>3, <1>7, StreamKept, PortNames
<1> QED
  BY <1>4, <1>5, <1>6, <1>7

LEMMA PacketsMove == ASSUME Types, Control, Sync, Packets, Move PROVE Packets'
<1>1. UNCHANGED <<fg, res, misled, temp, pkt, reported>>
  BY DEF Move, store
<1>2. nMoves' = nMoves + 1 /\ nMoves \in Nat
  BY Moves DEF Types, TypesBus
<1>3. PICK m : Moved(m, nMoves + 1) /\ Stream("aux")' = Stream("aux") \o m
  BY Moves
<1>4. (Tracked' <=> Tracked) /\ (Started("aux")' <=> Started("aux"))
  BY <1>1 DEF Tracked, Started, Past
<1>5. PICK u \in Seq(Byte) : u = Coming
  BY ComingType
<1>6. m \in Seq(Byte) /\ m # <<>> /\ m[1][2] = nMoves + 1
  <2>1. m \in Seq(Byte) /\ Len(m) = 3 /\ m[1][2] = nMoves + 1
    BY <1>3 DEF Moved
  <2>2. m = <<>> => Len(m) = 0
    OBVIOUS
  <2> QED
    BY <2>1, <2>2
<1>7. Coming' = u \o m
  <2>1. Coming' = temp \o (Stream("aux") \o m)
    BY <1>1, <1>3 DEF Coming
  <2>2. u = temp \o Stream("aux")
    BY <1>5 DEF Coming
  <2>3. temp \in Seq(Byte) /\ Stream("aux") \in Seq(Byte)
    BY ComingType
  <2>4. (temp \o Stream("aux")) \o m = temp \o (Stream("aux") \o m)
    BY <1>6, <2>3, Associative, Zenon
  <2> QED
    BY <2>1, <2>2, <2>4, Zenon
<1>8. CASE ~Tracked
  BY <1>1, <1>4, <1>8 DEF Packets
<1>9. CASE Tracked
  <2>1. Whole(u)
    BY <1>5, <1>9 DEF Packets
  <2>2. Whole(u \o m)'
    BY <1>2, <1>3, <2>1, WholeMore
  <2>3. Whole(Coming)'
    BY <1>7, <2>2 DEF Whole
  <2>4. (u \o m)[1] = IF u = <<>> THEN m[1] ELSE u[1]
    BY <1>6, Longer, ConcatEmptySeq
  <2>5. ASSUME NEW s, IsMovement(s), s[1][2] <= nMoves, u # <<>> => s[1][2] < u[1][2]
        PROVE  s[1][2] <= nMoves' /\ s[1][2] < Coming'[1][2]
    <3>1. s[1][2] \in Int
      BY <2>5, Motions DEF IsMovement
    <3>2. s[1][2] < nMoves + 1 /\ s[1][2] <= nMoves + 1
      BY <1>2, <2>5, <3>1
    <3> QED
      BY <1>2, <1>6, <1>7, <2>4, <2>5, <3>2
  <2>6. pkt # <<>> => /\ IsMovement(pkt) /\ pkt[1][2] <= nMoves' /\ pkt[1][2] < Coming'[1][2]
    BY <1>5, <1>9, <2>5 DEF Packets
  <2>7. \A i \in 1..Len(reported) :
              /\ IsMovement(reported[i]) /\ reported[i][1][2] <= nMoves'
              /\ pkt # <<>> => reported[i][1][2] < pkt[1][2]
              /\ reported[i][1][2] < Coming'[1][2]
              /\ \A j \in 1..i - 1 : reported[j][1][2] < reported[i][1][2]
    <3> TAKE i \in 1..Len(reported)
    <3>1. /\ IsMovement(reported[i]) /\ reported[i][1][2] <= nMoves
          /\ pkt # <<>> => reported[i][1][2] < pkt[1][2]
          /\ u # <<>> => reported[i][1][2] < u[1][2]
          /\ \A j \in 1..i - 1 : reported[j][1][2] < reported[i][1][2]
      BY <1>5, <1>9 DEF Packets
    <3> QED
      BY <2>5, <3>1
  <2>8. \A s : IsMovement(s)' <=> IsMovement(s)
    BY DEF IsMovement
  <2> QED
    BY <1>1, <1>4, <1>9, <2>3, <2>6, <2>7, <2>8 DEF Packets, IsMovement
<1> QED
  BY <1>8, <1>9

LEMMA PacketsStatus == ASSUME Types, Control, Packets, GetStatus PROVE Packets'
<1> USE DEF At
<1>1. /\ UNCHANGED <<fg, res, misled, temp, obf, dev, nMoves>> /\ fg.pc = "idle"
      /\ pkt # <<>> /\ pkt' = <<>> /\ reported' = Append(reported, pkt)
  BY DEF GetStatus, devices, bounds
<1>2. Started("aux")' /\ (Tracked' <=> Tracked) /\ Coming' = Coming
  <2>1. Stream("aux")' = Stream("aux")
    BY <1>1, StreamSame, PortNames
  <2>2. fg.port = "aux"
    BY <1>1 DEF Control
  <2> QED
    BY <1>1, <2>1, <2>2 DEF Started, Past, Tracked, Coming
<1>3. CASE ~Tracked
  BY <1>1, <1>2, <1>3 DEF Packets
<1>4. CASE Tracked
  <2>1. Whole(Coming)'
    BY <1>1, <1>2, <1>4 DEF Packets, Whole
  <2>2. /\ Len(reported) \in Nat /\ Len(reported') = Len(reported) + 1
        /\ \A i \in 1..Len(reported) : reported'[i] = reported[i]
        /\ reported'[Len(reported) + 1] = pkt
    BY <1>1 DEF Types, TypesStore
  <2>3. \A i \in 1..Len(reported) :
              /\ IsMovement(reported[i]) /\ reported[i][1][2] <= nMoves
              /\ reported[i][1][2] < pkt[1][2]
              /\ Coming # <<>> => reported[i][1][2] < Coming[1][2]
              /\ \A j \in 1..i - 1 : reported[j][1][2] < reported[i][1][2]
    BY <1>1, <1>4 DEF Packets
  <2>4. /\ IsMovement(pkt) /\ pkt[1][2] <= nMoves
        /\ Coming # <<>> => pkt[1][2] < Coming[1][2]
    BY <1>1, <1>4 DEF Packets
  <2>5. ASSUME NEW i \in 1..Len(reported')
        PROVE  /\ IsMovement(reported'[i]) /\ reported'[i][1][2] <= nMoves
               /\ Coming # <<>> => reported'[i][1][2] < Coming[1][2]
               /\ \A j \in 1..i - 1 : reported'[j][1][2] < reported'[i][1][2]
    <3>1. CASE i \in 1..Len(reported)
      <4>1. \A j \in 1..i - 1 : j \in 1..Len(reported)
        BY <2>2, <3>1
      <4> QED
        BY <2>2, <2>3, <3>1, <4>1
    <3>2. CASE i = Len(reported) + 1
      <4>1. \A j \in 1..i - 1 : j \in 1..Len(reported)
        BY <2>2, <3>2
      <4> QED
        BY <2>2, <2>3, <2>4, <3>2, <4>1
    <3> QED
      BY <2>2, <3>1, <3>2
  <2>6. \A s : IsMovement(s)' <=> IsMovement(s)
    BY DEF IsMovement
  <2> QED
    BY <1>1, <1>2, <2>1, <2>5, <2>6 DEF Packets, IsMovement
<1> QED
  BY <1>3, <1>4

(* The handler adds a byte to the packet it collects, and copies the       *)
(* packet when it is whole.                                                *)
LEMMA PacketsMouse == ASSUME Types, Control, Masks, Packets, HandlerMouse PROVE Packets'
<1> DEFINE packet == IF temp # <<>> \/ Bit3(obf[2]) THEN Append(temp, obf[2]) ELSE temp
<1>1. /\ UNCHANGED <<fg, res, misled, reported, nMoves>> /\ obf' = Empty /\ dev' = dev
      /\ handler /\ obf # Empty /\ PortOf(obf) = "aux"
      /\ temp' = (IF Len(packet) = 3 THEN <<>> ELSE packet)
      /\ pkt' = (IF Len(packet) = 3 THEN packet ELSE pkt)
  BY DEF HandlerMouse, HandlerTakes, devices, bounds
<1>2. obf[1] = "aux"
  BY <1>1 DEF PortOf
<1>3. Started("aux")'
  BY <1>1 DEF Masks, Started, Past
<1>4. (Tracked' <=> Tracked) /\ (fg'.pc # "idle" => reported' = <<>>)
  BY <1>1 DEF Tracked, Packets
<1>5. CASE ~Tracked
  BY <1>3, <1>4, <1>5 DEF Packets
<1>6. CASE Tracked
  <2>1. PICK b \in Byte, rest \in Seq(Byte), t \in Seq(Byte) :
           b = obf[2] /\ rest = Stream("aux")' /\ t = temp /\ Stream("aux") = <<b>> \o rest
    <3>1. obf[2] \in Byte /\ Stream("aux") \in Seq(Byte) /\ temp \in Seq(Byte)
      BY <1>1, ComingType, Devices, PortNames
    <3>2. /\ Stream("aux") # <<>> /\ Stream("aux")[1] = obf[2] /\ Stream("aux")' = Tail(Stream("aux"))
      BY <1>1, <1>2, StreamTaken, PortNames
    <3>3. /\ Tail(Stream("aux")) \in Seq(Byte)
          /\ Stream("aux") = <<obf[2]>> \o Tail(Stream("aux"))
      BY <3>1, <3>2, HeadAndTail, HeadTailProperties
    <3> QED
      BY <3>1, <3>2, <3>3
  <2>2. PICK u \in Seq(Byte) : u = Append(t, b)
    BY AppendProperties
  <2>3. Coming = u \o rest /\ u # <<>>
    <3>1. <<b>> \in Seq(Byte) /\ u = t \o <<b>> /\ u # <<>>
      BY <2>2, AppendIsConcat, AppendProperties
    <3>2. Coming = t \o (<<b>> \o rest)
      BY <2>1 DEF Coming
    <3> QED
      BY <3>1, <3>2, Associative
  <2>4. Whole(u \o rest) /\ u \o rest # <<>>
    <3>1. Whole(u \o rest)
      BY <1>6, <2>3 DEF Packets
    <3> QED
      BY <2>3, <3>1, Longer
  <2>5. packet = u
    <3>1. CASE t # <<>>
      BY <2>1, <2>2, <3>1
    <3>2. CASE t = <<>>
      <4>1. u[1] = b /\ (u \o rest)[1] = b
        <5>1. u[1] = b
          BY <2>2, <3>2
        <5> QED
          BY <2>3, <5>1, Longer
      <4>2. (u \o rest)[1] \in Motion /\ (u \o rest)[1][3] = 1 /\ (u \o rest)[1][4]
        <5>1. u \o rest \in Seq(Byte) /\ u \o rest # <<>>
          BY <2>3, Longer
        <5>2. 1 \in 1..Len(u \o rest)
          BY <5>1, EmptySeq
        <5> QED
          BY <2>4, <5>2 DEF Whole
      <4>3. Bit3(b)
        BY <4>1, <4>2, Motions DEF Bit3
      <4> QED
        BY <2>1, <2>2, <4>3
    <3> QED
      BY <3>1, <3>2
  <2> HIDE DEF packet
  <2>6. /\ pkt # <<>> => /\ IsMovement(pkt) /\ pkt[1][2] <= nMoves
                         /\ pkt[1][2] < (u \o rest)[1][2]
        /\ \A i \in 1..Len(reported) :
             /\ IsMovement(reported[i]) /\ reported[i][1][2] <= nMoves
             /\ pkt # <<>> => reported[i][1][2] < pkt[1][2]
             /\ reported[i][1][2] < (u \o rest)[1][2]
             /\ \A j \in 1..i - 1 : reported[j][1][2] < reported[i][1][2]
    BY <1>6, <2>3, <2>4 DEF Packets
  <2>7. \A s : IsMovement(s)' <=> IsMovement(s)
    BY DEF IsMovement
  <2>8. CASE Len(u) = 3
    <3>1. /\ temp' = <<>> /\ pkt' = u /\ Coming' = rest
      <4>1. temp' = <<>> /\ pkt' = u
        BY <1>1, <2>5, <2>8
      <4> QED
        BY <2>1, <4>1, ConcatEmptySeq DEF Coming
    <3>2. /\ IsMovement(u) /\ u[1][2] <= nMoves /\ u[1] = (u \o rest)[1]
          /\ Whole(rest) /\ (rest # <<>> => u[1][2] < rest[1][2])
      BY <2>4, <2>8, WholeLess
    <3>3. Whole(Coming)'
      BY <1>1, <3>1, <3>2 DEF Whole
    <3>4. ASSUME NEW i \in 1..Len(reported), rest # <<>>
          PROVE  reported[i][1][2] < rest[1][2]
      <4>1. reported[i][1][2] \in Int /\ u[1][2] \in Int
        BY <2>6, <3>2, Motions DEF IsMovement
      <4>2. rest[1][2] \in Int
        <5>1. 1 \in 1..Len(rest)
          BY <3>4, EmptySeq
        <5> QED
          BY <3>2, <5>1, Motions DEF Whole
      <4>3. reported[i][1][2] < u[1][2] /\ u[1][2] < rest[1][2]
        BY <2>6, <3>2, <3>4
      <4> QED
        BY <4>1, <4>2, <4>3
    <3>5. \A i \in 1..Len(reported) : reported[i][1][2] < u[1][2]
      BY <2>6, <3>2
    <3> QED
      BY <1>1, <1>3, <1>4, <2>6, <2>7, <3>1, <3>2, <3>3, <3>4, <3>5 DEF Packets
  <2>9. CASE Len(u) # 3
    <3>1. /\ temp' = u /\ pkt' = pkt /\ Coming' = u \o rest
      <4>1. temp' = u /\ pkt' = pkt
        BY <1>1, <2>5, <2>9
      <4> QED
        BY <2>1, <4>1 DEF Coming
    <3>2. Whole(Coming)'
      BY <1>1, <2>4, <3>1 DEF Whole
    <3> QED
      BY <1>1, <1>3, <1>4, <2>6, <2>7, <3>1, <3>2 DEF Packets
  <2> QED
    BY <2>8, <2>9
<1> QED
  BY <1>5, <1>6

-----------------------------------------------------------------------------
(* The invariant holds.                                                    *)

LEMMA Initially == Init => IInv
<1> SUFFICES ASSUME Init PROVE IInv
  OBVIOUS
<1> USE DEF Init
<1>1. /\ fg.pc = "disKbd" /\ fg.port = "kbd" /\ fg.step = 1 /\ fg.tries = 0 /\ fg.n = 0
      /\ fg.param = "unset" /\ fg.ret = "ok" /\ fg \in Foreground
  <2>1. "disKbd" \in Place
    BY DEF Place, ProbeAt, ResetAt
  <2> QED
    BY <2>1, ServingType, PortNames DEF Serving
<1>2. \A p \in Ports : /\ dev[p] \in Device /\ dev[p].out = <<>> /\ ~dev[p].set
                       /\ dev[p].on <=> p = "kbd"
  <2>1. PICK here \in SUBSET Ports :
           dev = [p \in Ports |-> [here |-> p \in here, on |-> p = "kbd", set |-> FALSE,
                                  arg |-> FALSE, out |-> <<>>]]
    OBVIOUS
  <2>2. <<>> \in Seq(Byte)
    OBVIOUS
  <2> DEFINE d(p) == [here |-> p \in here, on |-> p = "kbd", set |-> FALSE, arg |-> FALSE, out |-> <<>>]
  <2>3. ASSUME NEW p \in Ports
        PROVE  d(p) \in Device /\ d(p).out = <<>> /\ ~d(p).set /\ (d(p).on <=> p = "kbd")
    <3>1. (p \in here) \in BOOLEAN /\ (p = "kbd") \in BOOLEAN
      OBVIOUS
    <3>2. d(p) \in Device
      BY <2>2, <3>1 DEF Device
    <3> QED
      BY <3>2
  <2>4. \A p \in Ports : dev[p] = d(p)
    BY <2>1
  <2> HIDE DEF d
  <2> QED
    BY <2>3, <2>4
<1>3. dev \in [Ports -> Device]
  BY <1>2 DEF Init
<1>4. Types
  <2>1. TypesBus
    BY <1>3, Sizes DEF TypesBus, Empty
  <2>2. TypesFg
    BY <1>1 DEF TypesFg, Result
  <2>3. TypesStore
    <3>1. <<>> \in Seq(Byte) /\ Len(<<>>) = 0 /\ <<>> \in Seq(Seq(Byte))
      OBVIOUS
    <3>2. handler \in BOOLEAN /\ temp = <<>> /\ pkt = <<>> /\ reported = <<>>
      OBVIOUS
    <3>3. 0 <= 2 /\ 0 \in {0, 3}
      OBVIOUS
    <3> HIDE DEF Init
    <3> QED
      BY <3>1, <3>2, <3>3 DEF TypesStore
  <2> QED
    BY <2>1, <2>2, <2>3 DEF Types
<1>5. Control
  BY <1>1, Sizes DEF Control, ResetAt, ProbeAt, Past
<1>6. Masks
  BY <1>1 DEF Masks, Loud, CommandAt
<1>7. \A p \in Ports : Stream(p) = <<>>
  BY <1>2, ConcatEmptySeq DEF Stream, Said
<1>8. Sync
  <2>1. ASSUME NEW p \in Ports PROVE InStep(p)
    BY <1>1 DEF InStep, SyncAck, SyncFirst, SyncLater
  <2>2. MouseOff /\ Silent /\ Successful
    BY <1>2, <1>7, PortNames DEF MouseOff, Silent, Successful
  <2> QED
    BY <2>1, <2>2 DEF Sync
<1>9. Packets
  BY <1>1 DEF Packets, Tracked
<1> QED
  BY <1>4, <1>5, <1>6, <1>8, <1>9 DEF IInv

LEMMA StartUpStep == IInv /\ StartUp => IInv'
<1> SUFFICES ASSUME IInv, StartUp PROVE IInv'
  OBVIOUS
<1> USE DEF IInv
<1>1. CASE DisableKbd \/ DisableAux \/ SelfTest \/ SelfAnswer
  BY <1>1, TypesStart, ControlReset, MasksReset, SyncReset, PacketsReset
<1>2. CASE FlushStatus \/ FlushRead
  BY <1>2, TypesFlush, ControlFlush, MasksFlush, SyncFlush, PacketsProbe
<1>3. CASE TestKbd \/ KbdAnswer \/ EnableKbd \/ TestAux
  BY <1>3, TypesProbe, ControlProbe, MasksProbe, SyncTest, PacketsProbe
<1>4. CASE Unmask
  BY <1>4, TypesOpen, ControlCommand, MasksUnmask, SyncMasks, PacketsCommand
<1>5. CASE Open
  BY <1>5, TypesOpen, ControlCommand, MasksOpen, SyncMasks, PacketsCommand
<1>6. CASE Send
  BY <1>6, TypesSend, ControlCommand, MasksTalk, SyncSend, PacketsCommand
<1>7. CASE Discard
  <2>1. UNCHANGED <<fg, res, avail>>
    BY <1>7 DEF Discard
  <2> QED
    BY <1>7, <2>1, TypesTalk, ControlStill, MasksHandler, SyncTaken, PacketsBus
<1>8. CASE TimeOut
  BY <1>8, TypesTalk, ControlTalk, MasksTalk, SyncRestore, PacketsCommand
<1>9. CASE Acknowledged
  BY <1>9, TypesTalk, ControlTalk, MasksTalk, SyncAcknowledged, PacketsAcknowledged
<1>10. CASE Received
  BY <1>10, TypesTalk, ControlTalk, MasksTalk, SyncReceived, PacketsCommand
<1>11. CASE Restore
  BY <1>11, TypesOpen, ControlCommand, MasksRestore, SyncRestore, PacketsRestore
<1>12. CASE Judge
  BY <1>12, TypesJudge, ControlJudge, MasksJudge, SyncJudge, PacketsJudge
<1> QED
  BY <1>1, <1>2, <1>3, <1>4, <1>5, <1>6, <1>7, <1>8, <1>9, <1>10, <1>11, <1>12 DEF StartUp

LEMMA OtherStep ==
    ASSUME IInv, Interrupt \/ Handler \/ GetStatus \/ Hardware \/ Type \/ Move
    PROVE  IInv'
<1> USE DEF IInv
<1>1. UNCHANGED <<fg, res, avail>>
  BY DEF Interrupt, Handler, HandlerEnds, HandlerKey, HandlerMouse, HandlerTakes, GetStatus, Hardware,
         DeliverAnswer, Deliver, Type, Move
<1>2. Control'
  BY <1>1, ControlStill
<1>3. CASE Interrupt \/ HandlerEnds
  BY <1>2, <1>3, TypesHandler, MasksHandler, SyncHandler, PacketsBus
<1>4. CASE HandlerKey
  BY <1>2, <1>4, TypesHandler, MasksHandler, SyncTaken, PacketsBus
<1>5. CASE HandlerMouse
  BY <1>2, <1>5, TypesMouse, MasksHandler, SyncTaken, PacketsMouse
<1>6. CASE GetStatus
  BY <1>2, <1>6, TypesHandler, MasksHandler, SyncHandler, PacketsStatus
<1>7. CASE DeliverAnswer \/ \E p \in Ports : Deliver(p)
  BY <1>2, <1>7, TypesBusStep, MasksBus, SyncHandler, PacketsBus
<1>8. CASE Type
  BY <1>2, <1>8, TypesBusStep, MasksHandler, SyncType, PacketsBus
<1>9. CASE Move
  BY <1>2, <1>9, TypesBusStep, MasksHandler, SyncMove, PacketsMove
<1> QED
  BY <1>3, <1>4, <1>5, <1>6, <1>7, <1>8, <1>9 DEF Handler, Hardware

LEMMA Stuttering == IInv /\ UNCHANGED vars => IInv'
<1> SUFFICES ASSUME IInv, UNCHANGED vars PROVE IInv'
  OBVIOUS
<1> USE DEF vars, devices, store, bounds
<1>1. Types'
  BY DEF IInv, Types, TypesBus, TypesFg, TypesStore
<1>2. Control' /\ Masks'
  <2>1. Control'
    BY ControlStill DEF IInv
  <2> QED
    BY <2>1 DEF IInv, Masks, Loud, Opened, Started, Past
<1>3. \A p \in Ports : Stream(p)' = Stream(p)
  BY StreamSame
<1>4. Sync'
  BY <1>3, SyncSame DEF IInv
<1>5. Packets'
  BY <1>3, PacketsSame, PortNames DEF IInv, Started, Past, Tracked
<1> QED
  BY <1>1, <1>2, <1>4, <1>5 DEF IInv

(* The inductive invariant holds in every reachable state.                 *)
THEOREM Invariance == Spec => []IInv
<1>1. Init => IInv
  BY Initially
<1>2. IInv /\ [Next]_vars => IInv'
  BY StartUpStep, OtherStep, Stuttering DEF Next
<1> QED
  BY <1>1, <1>2, PTL DEF Spec

(* Every variable has its type: the counts of i8042_flush, of the retries  *)
(* and of the answer stay in range, ms_pkt_temp never holds a whole        *)
(* packet, and only a device that was probed has a result.                 *)
THEOREM TypeCorrect == Spec => []TypeOK
<1>1. IInv => TypeOK
  <2> SUFFICES ASSUME IInv PROVE TypeOK
    OBVIOUS
  <2>1. Types /\ Control
    BY DEF IInv
  <2>2. /\ fg.step \in 1..4 /\ fg.tries \in 0..Retries - 1 /\ fg.n \in 0..BufSize + 2
        /\ res \in [Ports -> {"none", "ok", "failed"}] /\ avail \subseteq Ports
    BY <2>1 DEF Types, TypesFg, Foreground, Result
  <2>3. \A p \in Ports : res[p] # "none" => p \in avail
    BY <2>1 DEF Control
  <2> QED
    BY <2>1, <2>2, <2>3 DEF TypeOK, Types, TypesBus, TypesStore
<1> QED
  BY <1>1, Invariance, PTL

(* While a command talks to a device, from the first byte sent to the last *)
(* byte received, the handler does not run.                                *)
THEOREM Undisturbed == Spec => []CommandsUndisturbed
<1>1. IInv => CommandsUndisturbed
  BY DEF IInv, Masks, CommandsUndisturbed, CommandAt, Waiting
<1> QED
  BY <1>1, Invariance, PTL

(* A reset that returned 0 left the device there, enabled and configured,  *)
(* with its port open and its interrupt on in i8042_ctr, whatever was      *)
(* lost, refused, typed or moved in the meantime.                          *)
THEOREM ResetsAreHonest == Spec => []SuccessMeansReady
<1>1. IInv => SuccessMeansReady
  <2> SUFFICES ASSUME IInv, NEW p \in Ports, res[p] = "ok", p \notin misled
               PROVE  /\ dev[p].here /\ dev[p].on /\ dev[p].set
                      /\ INT(p) \in ctr /\ DIS(p) \notin ctr
    BY DEF SuccessMeansReady
  <2>1. dev[p].here /\ dev[p].on /\ dev[p].set /\ INT(p) \in ctr
    BY DEF IInv, Sync, Successful
  <2>2. fg.pc # "disKbd"
    BY PortNames DEF IInv, Control, Past, ResetAt
  <2> QED
    BY <2>1, <2>2 DEF IInv, Masks
<1> QED
  BY <1>1, Invariance, PTL

(* If the mouse's reset succeeded, each packet ps2ms_get_status hands out  *)
(* is one movement of the mouse, whole, and later than those before it.    *)
THEOREM PacketsAreMovements == Spec => []PacketsWhole
<1>1. IInv => PacketsWhole
  <2> SUFFICES ASSUME IInv, res["aux"] = "ok", "aux" \notin misled, NEW i \in 1..Len(reported)
               PROVE  /\ IsMovement(reported[i])
                      /\ \A j \in 1..i - 1 : reported[j][1][2] < reported[i][1][2]
    BY DEF PacketsWhole
  <2>1. fg.port = "aux"
    BY PortNames DEF IInv, Control, Past
  <2>2. Tracked
    BY <2>1 DEF Tracked
  <2> QED
    BY <2>2 DEF IInv, Packets
<1> QED
  BY <1>1, Invariance, PTL

(* The handler's loop never meets a byte of a port that is shut in         *)
(* i8042_ctr, which it would leave where it is and go round for ever.      *)
THEOREM NoByteIsStuck == Spec => []HandlerReturns
<1>1. IInv => HandlerReturns
  <2> SUFFICES ASSUME IInv, handler, obf # Empty PROVE DIS(PortOf(obf)) \notin ctr
    BY DEF HandlerReturns
  <2>1. PortOf(obf) \in Ports /\ INT(PortOf(obf)) \in ctr
    BY PortNames DEF IInv, Masks, PortOf
  <2>2. fg.pc # "disKbd"
    BY DEF IInv, Masks, Loud
  <2> QED
    BY <2>1, <2>2 DEF IInv, Masks
<1> QED
  BY <1>1, Invariance, PTL

=============================================================================
