---------------------------- MODULE DuartProofs -----------------------------
(***************************************************************************)
(* Proofs about Duart, for rings and FIFOs of every size and any number of *)
(* bytes, characters and calls.  TypeOK, TxOnce and RxInOrder hold of one  *)
(* channel and of two; TxWakeup and RxListens hold of one, which is how    *)
(* main.c uses the DUART, and fail of two (run duart_both).                *)
(***************************************************************************)
EXTENDS Duart, SequenceTheorems, TLAPS

-----------------------------------------------------------------------------
(* The inductive invariant.                                                *)

HandlerAt == {"txTest", "txPop", "clearLoad", "clearStore", "clearHw", "txStatus",
              "txWrite", "rxTest", "rxStatus", "rxRead", "rxPush"}
WriteAt == {"setLoad", "setStore", "setHw", "push"}
ResetAt == {"flushTx", "flushRx", "disable", "resetRx", "resetTx", "maskLoad",
            "maskStore", "check", "listenStore", "listenHw", "enable"}
Place == HandlerAt \union WriteAt \union ResetAt \union {"idle", "pop", "off"}

TypesPlace ==
    /\ pc \in [Context -> Place] /\ at \in [Context -> 1..Len(Chans)]
    /\ pc["fg"] \in HandlerAt \union WriteAt \union ResetAt \union {"idle", "pop"}
    /\ pc["irq"] \in HandlerAt \union {"off"}
TypesQueue ==
    /\ txbuf \in [Ch -> Seq(1..MaxTx)] /\ rxbuf \in [Ch -> Seq(0..ErrorByte)]
    /\ fifo \in [Ch -> Seq(Char)]
    /\ \A ch \in Ch : Len(txbuf[ch]) <= Cap /\ Len(rxbuf[ch]) <= Cap /\ Len(fifo[ch]) <= FifoSize
TypesReg ==
    /\ imr \in SUBSET Bits /\ hwImr \in SUBSET Bits /\ reg \in [Context -> SUBSET Bits]
    /\ on \in SUBSET Ch /\ busy \in [Ch -> BOOLEAN]
    /\ data \in [Context -> 0..ErrorByte \union 1..MaxTx]
    /\ \A x \in Context : pc[x] = "rxPush" => data[x] \in 0..ErrorByte
TypesLog ==
    /\ line \in [Ch -> Seq(1..MaxTx)] /\ read \in [Ch -> Seq(1..MaxRx)]
    /\ nTx \in 0..MaxTx /\ nRx \in 0..MaxRx /\ nCfg \in 0..MaxConfig

Types == TypesPlace /\ TypesQueue /\ TypesReg /\ TypesLog

(* What has been pushed so far: write_byte has yet to push its byte when   *)
(* it is unmasking txrdy.  Every byte is in at most one place.             *)
Written == IF pc["fg"] \in WriteAt THEN nTx - 1 ELSE nTx
Holds(x, ch) == pc[x] \in {"txStatus", "txWrite"} /\ Chan(x) = ch

Bytes ==
    /\ Written >= 0
    /\ \A ch \in Ch :
         /\ IsInjective(txbuf[ch]) /\ IsInjective(line[ch])
         /\ Range(txbuf[ch]) \subseteq 1..Written /\ Range(line[ch]) \subseteq 1..Written
         /\ Range(txbuf[ch]) \intersect Range(line[ch]) = {}
         /\ \A x \in Context : Holds(x, ch) =>
              /\ data[x] \in 1..Written
              /\ data[x] \notin Range(txbuf[ch]) /\ data[x] \notin Range(line[ch])
         /\ Holds("fg", ch) /\ Holds("irq", ch) => data["fg"] # data["irq"]

(* Before the first write_byte the handler runs from the interrupt alone,  *)
(* so the character it found is still there when it reads it.  Each of the *)
(* places a character passes through is in order, and below those behind.  *)
Ids(f) == [i \in 1..Len(f) |-> f[i].id]
Waiting(ch) == Ids(fifo[ch])
Held(ch) == IF pc["irq"] = "rxPush" /\ Chan("irq") = ch THEN <<data["irq"]>> ELSE <<>>

Ok(n, s) == InOrder(s) /\ \A i \in 1..Len(s) : s[i] \in 1..n \union {ErrorByte}
Below(s, t) == \A i \in 1..Len(s), j \in 1..Len(t) :
                 ErrorByte \notin {s[i], t[j]} => s[i] < t[j]
Row(n, r, b, h, w) ==
    /\ Ok(n, r) /\ Ok(n, b) /\ Ok(n, h) /\ Ok(n, w)
    /\ Below(r, b) /\ Below(r, h) /\ Below(r, w) /\ Below(b, h) /\ Below(b, w) /\ Below(h, w)
RowOf(ch) == Row(nRx, read[ch], rxbuf[ch], Held(ch), Waiting(ch))

Chars ==
    nTx = 0 =>
        /\ pc["fg"] \notin HandlerAt \union WriteAt
        /\ pc["irq"] = "rxRead" => fifo[Chan("irq")] # <<>>
        /\ \A ch \in Ch : RowOf(ch)

(* One channel: where the foreground stands decides what may be missing.   *)
TxBit(ch) == <<"tx", ch>>
Covered(ch) == TxBit(ch) \in imr \intersect hwImr
Drained(ch) == txbuf[ch] = <<>> /\ TxReady(ch)

Wakes(ch) ==
    /\ pc["irq"] = "txPop" => TxReady(ch)
    /\ pc["irq"] \in {"clearLoad", "clearStore", "clearHw"} => Drained(ch)
    /\ pc["fg"] \in {"setStore", "setHw"} => TxBit(ch) \in reg["fg"]
    /\ pc["fg"] = "setHw" =>
         TxBit(ch) \in imr \/ (Drained(ch) /\ pc["irq"] \notin {"txStatus", "txWrite"})
    /\ pc["fg"] = "push" =>
         Covered(ch) \/ (Drained(ch) /\ pc["irq"] \notin {"txStatus", "txWrite"})
    /\ pc["fg"] = "txTest" /\ txbuf[ch] # <<>> =>
         \/ Covered(ch)
         \/ Len(txbuf[ch]) = 1 /\ TxReady(ch) /\ pc["irq"] \notin {"txStatus", "txWrite"}
    /\ pc["fg"] = "txPop" /\ txbuf[ch] # <<>> => Covered(ch) \/ Len(txbuf[ch]) = 1
    /\ pc["fg"] \in {"clearLoad", "clearStore", "clearHw"} \union (ResetAt \ {"flushTx"}) =>
         txbuf[ch] = <<>>
    /\ pc["fg"] \notin {"txTest", "txPop"} /\ txbuf[ch] # <<>> => Covered(ch)

RxBit(ch) == <<"rx", ch>>
Listens(ch) ==
    /\ pc["fg"] \in ResetAt \ {"flushTx", "flushRx", "disable"} => ch \notin on
    /\ ch \in on \/ pc["fg"] \in {"listenHw", "enable"} => RxBit(ch) \in imr
    /\ ch \in on \/ pc["fg"] = "enable" => RxBit(ch) \in hwImr
    /\ pc["irq"] \in {"clearStore", "clearHw"} /\ RxBit(ch) \in imr => RxBit(ch) \in reg["irq"]
    /\ ch \in on /\ pc["fg"] \in {"setStore", "setHw", "clearStore", "clearHw"}
         => RxBit(ch) \in reg["fg"]
    /\ pc["fg"] \in {"listenStore", "listenHw"} => RxBit(ch) \in reg["fg"]

IInv == Types /\ Bytes /\ Chars
One(ch) == Types /\ Wakes(ch) /\ Listens(ch)

-----------------------------------------------------------------------------
(* Types.                                                                  *)

LEMMA ChanType == TypesPlace => \A x \in Context : Chan(x) \in Ch /\ at[x] \in 1..Len(Chans)
  BY ChansAssumption DEF TypesPlace, Ch, Range, Chan

LEMMA Counts ==
    /\ MaxTx \in Nat /\ MaxRx \in Nat /\ MaxConfig \in Nat /\ ErrorByte \in Nat
    /\ Cap \in Nat /\ Cap > 0 /\ FifoSize \in Nat /\ FifoSize > 0
    /\ ErrorByte = MaxRx + 1
  BY BoundsAssumption DEF ErrorByte

LEMMA FirstChannel == 1 \in 1..Len(Chans) /\ Len(Chans) \in Nat
  BY ChansAssumption

(* Sequences.                                                              *)
LEMMA Tails ==
    ASSUME NEW S, NEW s \in Seq(S), s # <<>>
    PROVE  /\ Head(s) \in S /\ Tail(s) \in Seq(S)
           /\ Len(s) \in Nat /\ Len(s) > 0 /\ Len(Tail(s)) = Len(s) - 1
           /\ \A i \in 1..Len(Tail(s)) : Tail(s)[i] = s[i + 1]
           /\ Head(s) = s[1]
  OBVIOUS

LEMMA Empties == \A S : <<>> \in Seq(S) /\ Len(<<>>) = 0
  OBVIOUS

LEMMA Appends ==
    ASSUME NEW S, NEW s \in Seq(S), NEW e \in S
    PROVE  /\ Append(s, e) \in Seq(S) /\ Len(Append(s, e)) = Len(s) + 1
           /\ \A i \in 1..Len(s) : Append(s, e)[i] = s[i]
           /\ Append(s, e)[Len(s) + 1] = e
  OBVIOUS

LEMMA Places ==
    /\ HandlerAt \intersect WriteAt = {} /\ HandlerAt \intersect ResetAt = {}
    /\ WriteAt \intersect ResetAt = {}
    /\ HandlerAt \subseteq Place /\ WriteAt \subseteq Place /\ ResetAt \subseteq Place
    /\ \A x \in Context : Finished(x) \in Place
  BY DEF HandlerAt, WriteAt, ResetAt, Context, Finished, Place

(* A step of one context goes where that context may stand.                *)
LEMMA GoesTo ==
    ASSUME NEW x \in Context, NEW from, NEW to \in Place, TypesPlace, Goto(x, from, to)
    PROVE  /\ pc' \in [Context -> Place]
           /\ pc[x] = from /\ pc'[x] = to
           /\ \A y \in Context \ {x} : pc'[y] = pc[y]
           /\ x = "fg" => pc["irq"] = "off" /\ pc'["irq"] = "off"
  BY DEF TypesPlace, Goto, Running, Context

LEMMA InHandler ==
    ASSUME NEW x \in Context, NEW from, NEW to \in HandlerAt \union {Finished(x)}, TypesPlace,
           Goto(x, from, to), at' \in [Context -> 1..Len(Chans)]
    PROVE  TypesPlace'
<1>1. to \in Place
  BY Places
<1>2. CASE x = "fg"
  BY <1>1, <1>2, GoesTo DEF TypesPlace, Finished, Context
<1>3. CASE x = "irq"
  BY <1>1, <1>3, GoesTo DEF TypesPlace, Finished, Context
<1> QED
  BY <1>2, <1>3 DEF Context

LEMMA AfterChannelType ==
    ASSUME NEW x \in Context
    PROVE  AfterChannel(x) \in HandlerAt \union {Finished(x)} /\ AfterChannel(x) \in Place
  BY Places DEF AfterChannel, HandlerAt

LEMMA NextChannelType ==
    ASSUME NEW x \in Context, TypesPlace, NextChannel(x)
    PROVE  at' \in [Context -> 1..Len(Chans)]
  BY ChansAssumption DEF NextChannel, TypesPlace

LEMMA TypesTxTest == ASSUME NEW x \in Context, Types, TxTest(x) PROVE Types'
<1>1. TypesPlace'
  BY InHandler DEF Types, TxTest, TypesPlace, HandlerAt
<1>2. TypesQueue' /\ TypesLog'
  BY DEF Types, TxTest, TypesQueue, TypesLog, queues, hw, log
<1>3. TypesReg'
  BY DEF Types, TxTest, TypesReg, TypesPlace, Goto, hw, Context
<1> QED
  BY <1>1, <1>2, <1>3 DEF Types

LEMMA TypesTxPop == ASSUME NEW x \in Context, Types, TxPop(x) PROVE Types'
<1>1. TypesPlace'
  BY InHandler DEF Types, TxPop, TypesPlace, HandlerAt
<1>2. TypesQueue'
  <2>1. CASE txbuf[Chan(x)] = <<>>
    BY <2>1 DEF Types, TxPop, TypesQueue, queues, hw
  <2>2. CASE txbuf[Chan(x)] # <<>>
    <3>1. Chan(x) \in Ch
      BY ChanType DEF Types
    <3>2. /\ Tail(txbuf[Chan(x)]) \in Seq(1..MaxTx)
          /\ Len(Tail(txbuf[Chan(x)])) = Len(txbuf[Chan(x)]) - 1
          /\ Len(txbuf[Chan(x)]) \in Nat
      BY <3>1, <2>2, Tails DEF Types, TypesQueue
    <3>3. txbuf' = [txbuf EXCEPT ![Chan(x)] = Tail(txbuf[Chan(x)])] /\ UNCHANGED <<rxbuf, fifo>>
      BY <2>2 DEF TxPop, hw
    <3> QED
      BY <3>1, <3>2, <3>3, Counts DEF Types, TypesQueue
  <2> QED
    BY <2>1, <2>2
<1>3. TypesReg'
  <2>1. Chan(x) \in Ch
    BY ChanType DEF Types
  <2>2. txbuf[Chan(x)] # <<>> => Head(txbuf[Chan(x)]) \in 1..MaxTx
    BY <2>1, Tails DEF Types, TypesQueue
  <2> QED
    BY <2>2 DEF Types, TxPop, TypesReg, TypesPlace, Goto, hw, Context
<1>4. TypesLog'
  BY DEF Types, TxPop, TypesLog, log
<1> QED
  BY <1>1, <1>2, <1>3, <1>4 DEF Types

LEMMA TypesClear == ASSUME NEW x \in Context, Types, Clear(x) PROVE Types'
<1> USE DEF Clear, ClearLoad, StoreImr, WriteHwImr
<1>1. TypesPlace'
  BY InHandler DEF Types, TypesPlace, HandlerAt
<1>2. TypesQueue' /\ TypesLog'
  BY DEF Types, TypesQueue, TypesLog, queues, hw, log
<1>3. TypesReg'
  BY DEF Types, TypesReg, TypesPlace, Goto, hw, Context
<1> QED
  BY <1>1, <1>2, <1>3 DEF Types

LEMMA TypesTxStatus == ASSUME NEW x \in Context, Types, TxStatus(x) PROVE Types'
<1>1. TypesPlace'
  BY InHandler DEF Types, TxStatus, TypesPlace, HandlerAt
<1>2. TypesQueue' /\ TypesLog'
  BY DEF Types, TxStatus, TypesQueue, TypesLog, queues, hw, log
<1>3. TypesReg'
  BY DEF Types, TxStatus, TypesReg, TypesPlace, Goto, hw, Context
<1> QED
  BY <1>1, <1>2, <1>3 DEF Types

LEMMA TypesTxWrite == ASSUME NEW x \in Context, Types, Bytes, TxWrite(x) PROVE Types'
<1>1. TypesPlace'
  BY InHandler DEF Types, TxWrite, TypesPlace, HandlerAt
<1>2. TypesQueue'
  BY DEF Types, TxWrite, TypesQueue, queues
<1>3. TypesReg'
  BY Counts, ChanType DEF Types, TxWrite, TypesReg, TypesPlace, Goto, Context
<1>4. data[x] \in 1..MaxTx
  BY ChanType, Counts DEF Types, TypesLog, TxWrite, Goto, Bytes, Holds, Written
<1>5. TypesLog'
  BY <1>4, ChanType DEF Types, TxWrite, TypesLog
<1> QED
  BY <1>1, <1>2, <1>3, <1>5 DEF Types

LEMMA TypesRxTest == ASSUME NEW x \in Context, Types, RxTest(x) PROVE Types'
<1>1. TypesPlace'
  BY InHandler, AfterChannelType, NextChannelType DEF Types, RxTest, TypesPlace, HandlerAt
<1>2. TypesQueue' /\ TypesLog'
  BY DEF Types, RxTest, TypesQueue, TypesLog, queues, hw, log
<1>3. TypesReg'
  BY DEF Types, RxTest, TypesReg, TypesPlace, Goto, hw, Context, AfterChannel, Finished
<1> QED
  BY <1>1, <1>2, <1>3 DEF Types

LEMMA TypesRxStatus == ASSUME NEW x \in Context, Types, RxStatus(x) PROVE Types'
<1>1. TypesPlace'
  BY InHandler DEF Types, RxStatus, TypesPlace, HandlerAt
<1>2. TypesQueue' /\ TypesLog'
  BY DEF Types, RxStatus, TypesQueue, TypesLog, queues, hw, log
<1>3. TypesReg'
  BY Counts DEF Types, RxStatus, TypesReg, TypesPlace, Goto, hw, Context
<1> QED
  BY <1>1, <1>2, <1>3 DEF Types

LEMMA TypesRxRead == ASSUME NEW x \in Context, Types, RxRead(x) PROVE Types'
<1>1. TypesPlace'
  BY InHandler DEF Types, RxRead, TypesPlace, HandlerAt
<1>2. TypesLog'
  BY DEF Types, RxRead, TypesLog, log
<1>4. TypesQueue'
  <2>1. Chan(x) \in Ch
    BY ChanType DEF Types
  <2> DEFINE f == fifo[Chan(x)]
             g == IF f = <<>> THEN f ELSE Tail(f)
  <2>2. g \in Seq(Char) /\ Len(g) <= FifoSize
    BY <2>1, Counts, Tails DEF Types, TypesQueue
  <2>3. fifo' = [fifo EXCEPT ![Chan(x)] = g] /\ UNCHANGED <<txbuf, rxbuf>>
    BY DEF RxRead, queues
  <2> HIDE DEF g
  <2> QED
    BY <2>1, <2>2, <2>3 DEF Types, TypesQueue
<1>3. TypesReg'
  <2>1. Chan(x) \in Ch
    BY ChanType DEF Types
  <2>2. fifo[Chan(x)] # <<>> => Head(fifo[Chan(x)]).id \in 0..ErrorByte
    <3> SUFFICES ASSUME fifo[Chan(x)] # <<>> PROVE Head(fifo[Chan(x)]).id \in 0..ErrorByte
      OBVIOUS
    <3>1. Head(fifo[Chan(x)]) \in Char
      BY <2>1, Tails DEF Types, TypesQueue
    <3> QED
      BY <3>1, Counts DEF Char
  <2> QED
    BY <2>2, Counts DEF Types, RxRead, TypesReg, TypesPlace, Goto, Context, StaleByte
<1> QED
  BY <1>1, <1>2, <1>3, <1>4 DEF Types

LEMMA TypesRxPush == ASSUME NEW x \in Context, Types, RxPush(x) PROVE Types'
<1>1. TypesPlace'
  BY InHandler, AfterChannelType, NextChannelType DEF Types, RxPush, TypesPlace
<1>2. TypesQueue'
  BY ChanType, Counts DEF Types, RxPush, TypesQueue, TypesReg, Goto, hw
<1>3. TypesReg'
  BY Counts DEF Types, RxPush, TypesReg, TypesPlace, Goto, hw, Context, AfterChannel, Finished
<1>4. TypesLog'
  BY DEF Types, RxPush, TypesLog, log
<1> QED
  BY <1>1, <1>2, <1>3, <1>4 DEF Types

LEMMA TypesHandler == ASSUME NEW x \in Context, Types, Bytes, Handler(x) PROVE Types'
  BY TypesTxTest, TypesTxPop, TypesClear, TypesTxStatus, TypesTxWrite, TypesRxTest,
     TypesRxStatus, TypesRxRead, TypesRxPush DEF Handler

(* The steps of the calls.                                                 *)
LEMMA InCall ==
    ASSUME NEW from,
           NEW to \in HandlerAt \union WriteAt \union ResetAt \union {"idle", "pop"}, TypesPlace,
           Goto("fg", from, to), at' \in [Context -> 1..Len(Chans)]
    PROVE  TypesPlace'
  BY GoesTo DEF TypesPlace, Context, Place

LEMMA Fg == "fg" \in Context /\ "irq" \in Context /\ "fg" # "irq"
  BY DEF Context

LEMMA TypesBegin ==
    ASSUME NEW i \in 1..Len(Chans), Types, Write(i) \/ Read(i) \/ SetParam(i)
    PROVE  Types'
<1> USE DEF Write, Read, SetParam
<1>1. TypesPlace'
  BY InCall DEF Types, TypesPlace, WriteAt, ResetAt
<1>2. TypesQueue'
  BY DEF Types, TypesQueue, queues, hw
<1>3. TypesReg'
  BY DEF Types, TypesReg, TypesPlace, Goto, hw, Context
<1>4. TypesLog'
  BY Counts DEF Types, TypesLog, log
<1> QED
  BY <1>1, <1>2, <1>3, <1>4 DEF Types

LEMMA EmptyQueue ==
    ASSUME NEW ch \in Ch, TypesQueue,
           txbuf' = txbuf \/ txbuf' = [txbuf EXCEPT ![ch] = <<>>],
           rxbuf' = rxbuf \/ rxbuf' = [rxbuf EXCEPT ![ch] = <<>>],
           fifo' = fifo \/ fifo' = [fifo EXCEPT ![ch] = <<>>]
    PROVE  TypesQueue'
<1>0. ASSUME NEW S, NEW f \in [Ch -> Seq(S)], NEW g, NEW n \in Nat,
             g = f \/ g = [f EXCEPT ![ch] = <<>>], \A c \in Ch : Len(f[c]) <= n
      PROVE  g \in [Ch -> Seq(S)] /\ \A c \in Ch : Len(g[c]) <= n
  <2>1. CASE g = f
    BY <1>0, <2>1
  <2>2. CASE g = [f EXCEPT ![ch] = <<>>]
    BY <1>0, <2>2, Empties
  <2> QED
    BY <1>0, <2>1, <2>2
<1>1. txbuf' \in [Ch -> Seq(1..MaxTx)] /\ \A c \in Ch : Len(txbuf'[c]) <= Cap
  <2>1. /\ txbuf \in [Ch -> Seq(1..MaxTx)] /\ Cap \in Nat
        /\ \A c \in Ch : Len(txbuf[c]) <= Cap
    BY Counts DEF TypesQueue
  <2> QED
    BY <1>0, <2>1
<1>2. rxbuf' \in [Ch -> Seq(0..ErrorByte)] /\ \A c \in Ch : Len(rxbuf'[c]) <= Cap
  <2>1. /\ rxbuf \in [Ch -> Seq(0..ErrorByte)] /\ Cap \in Nat
        /\ \A c \in Ch : Len(rxbuf[c]) <= Cap
    BY Counts DEF TypesQueue
  <2> QED
    BY <1>0, <2>1
<1>3. fifo' \in [Ch -> Seq(Char)] /\ \A c \in Ch : Len(fifo'[c]) <= FifoSize
  <2>1. /\ fifo \in [Ch -> Seq(Char)] /\ FifoSize \in Nat
        /\ \A c \in Ch : Len(fifo[c]) <= FifoSize
    BY Counts DEF TypesQueue
  <2> QED
    BY <1>0, <2>1
<1> QED
  BY <1>1, <1>2, <1>3 DEF TypesQueue

LEMMA TypesFlush ==
    ASSUME NEW ch \in Ch, Types, FlushTx(ch) \/ FlushRx(ch)
    PROVE  Types'
<1>1. TypesPlace' /\ TypesReg' /\ TypesLog'
  BY DEF FlushTx, FlushRx, Types, TypesPlace, TypesReg, TypesLog, hw, cpu, log
<1>2. TypesQueue'
  BY EmptyQueue DEF FlushTx, FlushRx, Types, hw
<1> QED
  BY <1>1, <1>2 DEF Types

LEMMA TypesSetTx == ASSUME Types, SetTx PROVE Types'
<1> USE DEF SetTx, SetLoad, StoreImr, WriteHwImr
<1>1. TypesPlace'
  BY InCall DEF Types, TypesPlace, WriteAt
<1>2. TypesQueue' /\ TypesLog'
  BY DEF Types, TypesQueue, TypesLog, queues, hw, log
<1>3. TypesReg'
  BY ChanType DEF Types, TypesReg, TypesPlace, Goto, hw, Context, Bits
<1> QED
  BY <1>1, <1>2, <1>3 DEF Types

LEMMA TypesWritePush == ASSUME Types, Bytes, WritePush PROVE Types'
<1>1. TypesPlace'
  BY InCall, FirstChannel DEF Types, WritePush, TypesPlace, HandlerAt
<1>2. nTx \in 1..MaxTx
  BY Counts DEF Types, TypesLog, WritePush, Goto, Bytes, Written, WriteAt
<1>3. TypesQueue'
  BY <1>2, ChanType, Counts, Fg DEF Types, WritePush, TypesQueue, hw
<1>4. TypesReg'
  BY DEF Types, WritePush, TypesReg, TypesPlace, Goto, hw, Context
<1>5. TypesLog'
  BY DEF Types, WritePush, TypesLog, log
<1> QED
  BY <1>1, <1>3, <1>4, <1>5 DEF Types

LEMMA TypesReadPop == ASSUME Types, ReadPop PROVE Types'
<1>1. TypesPlace'
  BY InCall, FirstChannel DEF Types, ReadPop, TypesPlace
<1> DEFINE ch == Chan("fg")
<1>0. /\ ch \in Ch /\ Head(rxbuf[ch]) \in 0..ErrorByte /\ Tail(rxbuf[ch]) \in Seq(0..ErrorByte)
      /\ Len(Tail(rxbuf[ch])) = Len(rxbuf[ch]) - 1 /\ Len(rxbuf[ch]) \in Nat
  BY ChanType, Fg, Tails DEF Types, ReadPop, TypesQueue
<1>2. TypesQueue'
  BY <1>0, Counts DEF Types, ReadPop, TypesQueue, hw
<1>3. TypesReg'
  BY DEF Types, ReadPop, TypesReg, TypesPlace, Goto, hw, Context
<1>4. TypesLog'
  BY <1>0, Appends DEF Types, ReadPop, TypesLog
<1> QED
  BY <1>1, <1>2, <1>3, <1>4 DEF Types

LEMMA TypesReset == ASSUME Types, ResetFlush \/ ResetDevice \/ ResetMask PROVE Types'
<1> USE DEF ResetFlush, ResetDevice, ResetMask, StoreImr
<1>1. TypesPlace'
  BY InCall DEF Types, TypesPlace, ResetAt
<1>2. TypesQueue'
  <2>1. Chan("fg") \in Ch
    BY ChanType, Fg DEF Types
  <2> QED
    BY <2>1, EmptyQueue DEF Types, queues, hw
<1>3. TypesReg'
  BY ChanType DEF Types, TypesReg, TypesPlace, Goto, hw, Context
<1>4. TypesLog'
  BY DEF Types, TypesLog, log
<1> QED
  BY <1>1, <1>2, <1>3, <1>4 DEF Types

LEMMA TypesListen == ASSUME Types, BadParam \/ Listen \/ Enable PROVE Types'
<1> USE DEF BadParam, Listen, Enable, ListenLoad, StoreImr, WriteHwImr
<1>1. TypesPlace'
  BY InCall, FirstChannel DEF Types, TypesPlace, ResetAt
<1>2. TypesQueue' /\ TypesLog'
  BY DEF Types, TypesQueue, TypesLog, queues, hw, log
<1>3. TypesReg'
  BY ChanType DEF Types, TypesReg, TypesPlace, Goto, hw, Context, Bits
<1> QED
  BY <1>1, <1>2, <1>3 DEF Types

LEMMA TypesInterrupt == ASSUME Types, Interrupt PROVE Types'
<1>1. TypesPlace' /\ TypesReg'
  BY DEF Interrupt, Types, TypesPlace, TypesReg, hw, Context, HandlerAt, Place
<1>2. TypesQueue' /\ TypesLog'
  BY DEF Interrupt, Types, TypesQueue, TypesLog, queues, hw, log
<1> QED
  BY <1>1, <1>2 DEF Types

LEMMA TypesTxDone == ASSUME NEW ch \in Ch, Types, TxDone(ch) PROVE Types'
  BY DEF TxDone, Types, TypesPlace, TypesReg, TypesQueue, TypesLog, queues, cpu, log

LEMMA TypesReceive ==
    ASSUME NEW ch \in Ch, NEW err \in LineErrors, Types, Receive(ch, err)
    PROVE  Types'
<1>1. [id |-> nRx + 1, err |-> err] \in Char /\ nRx' \in 0..MaxRx
  BY Counts, BoundsAssumption DEF Receive, Char, Types, TypesLog
<1>2. TypesPlace' /\ TypesReg' /\ TypesLog'
  BY <1>1 DEF Receive, Types, TypesPlace, TypesReg, TypesLog, cpu
<1>3. TypesQueue'
  BY <1>1, Counts DEF Receive, Types, TypesQueue, queues
<1> QED
  BY <1>2, <1>3 DEF Types

LEMMA TypesNext == ASSUME Types, Bytes, [Next]_vars PROVE Types'
<1>1. CASE UNCHANGED vars
  BY <1>1 DEF vars, queues, hw, cpu, log, Types, TypesPlace, TypesQueue, TypesReg, TypesLog
<1>2. CASE Call
  BY <1>2, TypesBegin, TypesFlush DEF Call
<1>3. CASE Foreground
  BY <1>3, TypesHandler, Fg, TypesSetTx, TypesWritePush, TypesReadPop, TypesReset, TypesListen
     DEF Foreground
<1> QED
  BY <1>1, <1>2, <1>3, TypesHandler, Fg, TypesInterrupt, TypesTxDone, TypesReceive DEF Next

LEMMA TypesInit == Init => Types
<1> SUFFICES ASSUME Init PROVE Types
  OBVIOUS
<1>1. TypesPlace
  BY FirstChannel DEF Init, TypesPlace, Context, Place
<1>2. TypesQueue
  BY Counts DEF Init, TypesQueue
<1>3. TypesReg
  BY Counts DEF Init, TypesReg, Context
<1>4. TypesLog
  BY Counts DEF Init, TypesLog
<1> QED
  BY <1>1, <1>2, <1>3, <1>4 DEF Types

-----------------------------------------------------------------------------
(* Every byte is in at most one place.                                     *)

LEMMA BytesInit == Init => Bytes
  BY DEF Init, Bytes, IsInjective, Range, Written, WriteAt, Holds, Context

LEMMA BytesKept ==
    ASSUME Types, Bytes, line' = line, Written' = Written,
           \A ch \in Ch : txbuf'[ch] = txbuf[ch] \/ txbuf'[ch] = <<>>,
           \A x \in Context, ch \in Ch : Holds(x, ch)' => Holds(x, ch) /\ data'[x] = data[x]
    PROVE  Bytes'
<1>1. \A ch \in Ch : /\ IsInjective(txbuf'[ch])
                     /\ Range(txbuf'[ch]) \subseteq Range(txbuf[ch])
  BY DEF Bytes, IsInjective, Range
<1> QED
  BY <1>1, Fg DEF Bytes

LEMMA WrittenKept ==
    ASSUME nTx' = nTx, pc["fg"] \in WriteAt <=> pc'["fg"] \in WriteAt
    PROVE  Written' = Written
  BY DEF Written

(* A step of one context that does not take it to the transmission.        *)
LEMMA HoldsLess ==
    ASSUME Types, NEW x \in Context, NEW from, NEW to \in Place, Goto(x, from, to),
           to \notin {"txStatus", "txWrite"},
           \A y \in Context \ {x} : at'[y] = at[y] /\ data'[y] = data[y]
    PROVE  \A y \in Context, ch \in Ch : Holds(y, ch)' => Holds(y, ch) /\ data'[y] = data[y]
  BY GoesTo DEF Holds, Chan, Types

LEMMA HandlerWritten ==
    ASSUME Types, NEW x \in Context, NEW from \in HandlerAt,
           NEW to \in HandlerAt \union {"idle", "off"},
           Goto(x, from, to), nTx' = nTx
    PROVE  Written' = Written
<1>1. to \in Place /\ to \notin WriteAt /\ from \notin WriteAt
  BY DEF Place, HandlerAt, WriteAt
<1> QED
  BY <1>1, GoesTo, WrittenKept, Fg DEF Types, Context

LEMMA BytesHandler ==
    ASSUME NEW x \in Context, NEW from \in HandlerAt,
           NEW to \in (HandlerAt \union {"idle", "off"}) \ {"txStatus", "txWrite"},
           Types, Bytes, Goto(x, from, to), UNCHANGED <<txbuf, line, nTx>>,
           \A y \in Context \ {x} : at'[y] = at[y] /\ data'[y] = data[y]
    PROVE  Bytes'
<1>1. to \in Place
  BY DEF Place
<1>2. \A y \in Context, ch \in Ch : Holds(y, ch)' => Holds(y, ch) /\ data'[y] = data[y]
  BY <1>1, HoldsLess
<1>3. Written' = Written
  BY HandlerWritten
<1> QED
  BY <1>2, <1>3, BytesKept

LEMMA AfterPlace ==
    \A x \in Context :
        AfterChannel(x) \in (HandlerAt \union {"idle", "off"}) \ {"txStatus", "txWrite"}
  BY DEF AfterChannel, Finished, HandlerAt

LEMMA BytesHandlerKept ==
    ASSUME NEW x \in Context, Types, Bytes,
           TxTest(x) \/ (TxPop(x) /\ txbuf[Chan(x)] = <<>>) \/ Clear(x) \/ RxTest(x)
             \/ RxStatus(x) \/ RxRead(x) \/ RxPush(x)
    PROVE  Bytes'
<1> USE DEF HandlerAt, queues, log, Types, TypesPlace, TypesReg
<1>1. CASE TxTest(x)
  BY <1>1, BytesHandler DEF TxTest
<1>2. CASE TxPop(x) /\ txbuf[Chan(x)] = <<>>
  BY <1>2, BytesHandler DEF TxPop
<1>3. CASE Clear(x)
  BY <1>3, BytesHandler DEF Clear, ClearLoad, StoreImr, WriteHwImr
<1>4. CASE RxTest(x)
  BY <1>4, BytesHandler, AfterPlace DEF RxTest, NextChannel
<1>5. CASE RxStatus(x)
  BY <1>5, BytesHandler DEF RxStatus
<1>6. CASE RxRead(x)
  BY <1>6, BytesHandler DEF RxRead
<1>7. CASE RxPush(x)
  BY <1>7, BytesHandler, AfterPlace DEF RxPush, NextChannel
<1> QED
  BY <1>1, <1>2, <1>3, <1>4, <1>5, <1>6, <1>7

LEMMA BytesTxStatus == ASSUME NEW x \in Context, Types, Bytes, TxStatus(x) PROVE Bytes'
<1>1. Goto(x, "txStatus", "txWrite") /\ UNCHANGED <<queues, at, data, log>>
  BY DEF TxStatus
<1>2. "txWrite" \in Place /\ "txWrite" \in HandlerAt /\ "txStatus" \in HandlerAt
  BY DEF Place, HandlerAt
<1>3. \A y \in Context, ch \in Ch : Holds(y, ch)' => Holds(y, ch) /\ data'[y] = data[y]
  BY <1>1, <1>2, GoesTo DEF Holds, Chan, Types
<1>4. Written' = Written
  BY <1>1, <1>2, HandlerWritten DEF log
<1> QED
  BY <1>1, <1>3, <1>4, BytesKept DEF queues, log

(* The head of the ring passes into the handler's hands.                   *)
LEMMA InjectiveTail ==
    ASSUME NEW S, NEW s \in Seq(S), s # <<>>, IsInjective(s)
    PROVE  /\ IsInjective(Tail(s)) /\ Range(Tail(s)) \subseteq Range(s)
           /\ Head(s) \in Range(s) /\ Head(s) \notin Range(Tail(s))
  BY Tails DEF IsInjective, Range

LEMMA BytesTxPop ==
    ASSUME NEW x \in Context, Types, Bytes, TxPop(x), txbuf[Chan(x)] # <<>>
    PROVE  Bytes'
<1> DEFINE c == Chan(x)
           b == Head(txbuf[c])
<1>1. /\ Goto(x, "txPop", "txStatus") /\ data' = [data EXCEPT ![x] = b]
      /\ txbuf' = [txbuf EXCEPT ![c] = Tail(@)] /\ UNCHANGED <<rxbuf, at, log>>
  BY DEF TxPop
<1>2. /\ c \in Ch /\ txbuf \in [Ch -> Seq(1..MaxTx)]
      /\ data \in [Context -> 0..ErrorByte \union 1..MaxTx]
  BY ChanType DEF Types, TypesQueue, TypesReg
<1>3. /\ IsInjective(Tail(txbuf[c])) /\ Range(Tail(txbuf[c])) \subseteq Range(txbuf[c])
      /\ b \in Range(txbuf[c]) /\ b \notin Range(Tail(txbuf[c]))
  BY <1>2, InjectiveTail DEF Bytes
<1>4. "txStatus" \in Place /\ "txStatus" \in HandlerAt /\ "txPop" \in HandlerAt
  BY DEF Place, HandlerAt
<1>5. Written' = Written
  BY <1>1, <1>4, HandlerWritten DEF log
<1>6. \A y \in Context, ch \in Ch :
        Holds(y, ch)' => \/ Holds(y, ch) /\ data'[y] = data[y] /\ y # x
                         \/ y = x /\ ch = c /\ data'[y] = b
  BY <1>1, <1>2, <1>4, GoesTo DEF Holds, Chan, Types
<1>7. \A ch \in Ch : /\ IsInjective(txbuf'[ch]) /\ Range(txbuf'[ch]) \subseteq Range(txbuf[ch])
                     /\ ch = c => b \in Range(txbuf[ch]) /\ b \notin Range(txbuf'[ch])
  BY <1>1, <1>2, <1>3 DEF Bytes
<1>8. line' = line
  BY <1>1 DEF log
<1> HIDE DEF c, b
<1> QED
  BY <1>5, <1>6, <1>7, <1>8, Fg DEF Bytes, Context

(* And from there onto the line.                                           *)
LEMMA InjectiveAppend ==
    ASSUME NEW S, NEW s \in Seq(S), NEW e \in S, e \notin Range(s), IsInjective(s)
    PROVE  IsInjective(Append(s, e)) /\ Range(Append(s, e)) = Range(s) \union {e}
  BY Appends DEF IsInjective, Range

LEMMA BytesTxWrite == ASSUME NEW x \in Context, Types, Bytes, TxWrite(x) PROVE Bytes'
<1> DEFINE c == Chan(x)
           b == data[x]
<1>1. /\ Goto(x, "txWrite", "rxTest") /\ data' = [data EXCEPT ![x] = 0]
      /\ line' = line \/ line' = [line EXCEPT ![c] = Append(@, b)]
      /\ UNCHANGED <<txbuf, at, nTx>>
  BY DEF TxWrite, queues
<1>2. /\ c \in Ch /\ line \in [Ch -> Seq(1..MaxTx)]
      /\ data \in [Context -> 0..ErrorByte \union 1..MaxTx]
  BY ChanType DEF Types, TypesLog, TypesReg
<1>3. Holds(x, c)
  BY <1>1 DEF Holds, Goto
<1>4. b \in 1..Written /\ b \notin Range(txbuf[c]) /\ b \notin Range(line[c])
  BY <1>2, <1>3 DEF Bytes
<1>5. b \in 1..MaxTx
  BY <1>4, Counts DEF Types, TypesLog, Written
<1>6. "rxTest" \in Place /\ "rxTest" \in HandlerAt /\ "txWrite" \in HandlerAt
  BY DEF Place, HandlerAt
<1>7. Written' = Written
  BY <1>1, <1>6, HandlerWritten
<1>8. \A y \in Context, ch \in Ch :
        Holds(y, ch)' => /\ Holds(y, ch) /\ data'[y] = data[y] /\ y # x
                         /\ ch = c => data[y] # b
  BY <1>1, <1>2, <1>3, <1>6, GoesTo DEF Holds, Chan, Types, Bytes, Context
<1>9. \A ch \in Ch : /\ IsInjective(line'[ch])
                     /\ \/ Range(line'[ch]) = Range(line[ch])
                        \/ ch = c /\ Range(line'[ch]) = Range(line[ch]) \union {b}
  <2>1. /\ IsInjective(Append(line[c], b))
        /\ Range(Append(line[c], b)) = Range(line[c]) \union {b}
    <3>1. line[c] \in Seq(1..MaxTx) /\ IsInjective(line[c])
      BY <1>2 DEF Bytes
    <3> DEFINE S == 1..MaxTx
    <3>2. line[c] \in Seq(S) /\ b \in S
      BY <3>1, <1>5
    <3> HIDE DEF S
    <3> QED
      BY <3>1, <3>2, <1>4, InjectiveAppend
  <2> HIDE DEF c, b
  <2> QED
    BY <1>1, <1>2, <2>1 DEF Bytes
<1> HIDE DEF c, b
<1>10. \A ch \in Ch :
         /\ IsInjective(txbuf'[ch]) /\ IsInjective(line'[ch])
         /\ Range(txbuf'[ch]) \subseteq 1..Written' /\ Range(line'[ch]) \subseteq 1..Written'
         /\ Range(txbuf'[ch]) \intersect Range(line'[ch]) = {}
  BY <1>1, <1>4, <1>7, <1>9 DEF Bytes
<1>11. \A ch \in Ch : \A y \in Context : Holds(y, ch)' =>
         /\ data'[y] \in 1..Written'
         /\ data'[y] \notin Range(txbuf'[ch]) /\ data'[y] \notin Range(line'[ch])
  BY <1>1, <1>7, <1>8, <1>9 DEF Bytes
<1>12. \A ch \in Ch : ~(Holds("fg", ch)' /\ Holds("irq", ch)')
  BY <1>8, Fg DEF Context
<1> QED
  BY <1>7, <1>10, <1>11, <1>12 DEF Bytes

LEMMA BytesHandlerNext == ASSUME NEW x \in Context, Types, Bytes, Handler(x) PROVE Bytes'
  BY BytesHandlerKept, BytesTxStatus, BytesTxPop, BytesTxWrite DEF Handler

-----------------------------------------------------------------------------
(* The calls: a new byte has a number no byte had before.                  *)

LEMMA BytesWritePush == ASSUME Types, Bytes, WritePush PROVE Bytes'
<1> DEFINE c == Chan("fg")
<1>1. /\ Goto("fg", "push", "txTest") /\ txbuf' = [txbuf EXCEPT ![c] = Append(@, nTx)]
      /\ at' = [at EXCEPT !["fg"] = 1] /\ UNCHANGED <<data, line, nTx>>
  BY DEF WritePush, log
<1>2. /\ c \in Ch /\ txbuf \in [Ch -> Seq(1..MaxTx)] /\ nTx \in 1..MaxTx
      /\ Written = nTx - 1
  BY <1>1, Counts, ChanType, Fg DEF Types, TypesQueue, TypesLog, Bytes, Written, Goto, WriteAt
<1>3. "txTest" \in Place /\ "txTest" \notin WriteAt
  BY DEF Place, HandlerAt, WriteAt
<1>4. Written' = nTx
  BY <1>1, <1>3, GoesTo, Fg DEF Types, Written
<1>5. \A y \in Context, ch \in Ch : Holds(y, ch)' => Holds(y, ch) /\ data'[y] = data[y]
  BY <1>1, <1>3, Fg, HoldsLess DEF Types, TypesPlace
<1>6. \A ch \in Ch : /\ nTx \notin Range(txbuf[ch]) /\ nTx \notin Range(line[ch])
                     /\ \A y \in Context : Holds(y, ch) => data[y] # nTx
  BY <1>2 DEF Bytes
<1>7. \A ch \in Ch : /\ IsInjective(txbuf'[ch])
                     /\ \/ Range(txbuf'[ch]) = Range(txbuf[ch])
                        \/ ch = c /\ Range(txbuf'[ch]) = Range(txbuf[ch]) \union {nTx}
  <2>1. /\ IsInjective(Append(txbuf[c], nTx))
        /\ Range(Append(txbuf[c], nTx)) = Range(txbuf[c]) \union {nTx}
    <3>1. txbuf[c] \in Seq(1..MaxTx) /\ IsInjective(txbuf[c]) /\ nTx \notin Range(txbuf[c])
      BY <1>2, <1>6 DEF Bytes
    <3> DEFINE S == 1..MaxTx
    <3>2. txbuf[c] \in Seq(S) /\ nTx \in S
      BY <1>2, <3>1
    <3> HIDE DEF S
    <3> QED
      BY <3>1, <3>2, InjectiveAppend
  <2> HIDE DEF c
  <2> QED
    BY <1>1, <1>2, <2>1 DEF Bytes
<1> HIDE DEF c
<1>8. 1..Written \subseteq 1..Written' /\ nTx \in 1..Written' /\ Written' >= 0
  BY <1>2, <1>4
<1>9. \A ch \in Ch :
        /\ IsInjective(txbuf'[ch]) /\ IsInjective(line'[ch])
        /\ Range(txbuf'[ch]) \subseteq 1..Written' /\ Range(line'[ch]) \subseteq 1..Written'
        /\ Range(txbuf'[ch]) \intersect Range(line'[ch]) = {}
  BY <1>1, <1>6, <1>7, <1>8 DEF Bytes
<1>10. \A ch \in Ch : \A x \in Context : Holds(x, ch)' =>
         /\ data'[x] \in 1..Written'
         /\ data'[x] \notin Range(txbuf'[ch]) /\ data'[x] \notin Range(line'[ch])
  BY <1>1, <1>5, <1>6, <1>7, <1>8 DEF Bytes
<1>11. \A ch \in Ch : Holds("fg", ch)' /\ Holds("irq", ch)' => data'["fg"] # data'["irq"]
  BY <1>5, Fg DEF Bytes
<1> QED
  BY <1>8, <1>9, <1>10, <1>11 DEF Bytes

LEMMA BytesCall ==
    ASSUME Types, Bytes, NEW from, NEW to \in Place \ HandlerAt, Goto("fg", from, to),
           line' = line, UNCHANGED data, Written' = Written,
           \A ch \in Ch : txbuf'[ch] = txbuf[ch] \/ txbuf'[ch] = <<>>,
           \A y \in Context \ {"fg"} : at'[y] = at[y]
    PROVE  Bytes'
<1>1. to \notin {"txStatus", "txWrite"}
  BY DEF HandlerAt
<1> QED
  BY <1>1, Fg, HoldsLess, BytesKept

LEMMA BytesBegin ==
    ASSUME NEW i \in 1..Len(Chans), Types, Bytes, Write(i) \/ Read(i) \/ SetParam(i)
    PROVE  Bytes'
<1> USE Counts DEF Types, TypesPlace, TypesLog, queues, log
<1>1. CASE Write(i)
  <2>1. "setLoad" \in Place \ HandlerAt /\ "setLoad" \in WriteAt /\ "idle" \notin WriteAt
    BY DEF Place, HandlerAt, WriteAt
  <2>2. Written' = Written
    BY <1>1, <2>1, GoesTo, Fg DEF Write, Goto, Written
  <2> QED
    BY <1>1, <2>1, <2>2, BytesCall DEF Write
<1>2. CASE Read(i)
  <2>1. "pop" \in Place \ HandlerAt /\ "pop" \notin WriteAt /\ "idle" \notin WriteAt
    BY DEF Place, HandlerAt, WriteAt
  <2>2. Written' = Written
    BY <1>2, <2>1, GoesTo, Fg, WrittenKept DEF Read, Goto
  <2> QED
    BY <1>2, <2>1, <2>2, BytesCall DEF Read
<1>3. CASE SetParam(i)
  <2>1. "flushTx" \in Place \ HandlerAt /\ "flushTx" \notin WriteAt /\ "idle" \notin WriteAt
    BY DEF Place, HandlerAt, WriteAt, ResetAt
  <2>2. Written' = Written
    BY <1>3, <2>1, GoesTo, Fg, WrittenKept DEF SetParam, Goto
  <2> QED
    BY <1>3, <2>1, <2>2, BytesCall DEF SetParam
<1> QED
  BY <1>1, <1>2, <1>3

LEMMA BytesFlush == ASSUME NEW ch \in Ch, Types, Bytes, FlushTx(ch) \/ FlushRx(ch) PROVE Bytes'
  BY BytesKept, WrittenKept
     DEF FlushTx, FlushRx, Types, TypesQueue, cpu, log, Holds, Chan

LEMMA BytesSetTx == ASSUME Types, Bytes, SetTx PROVE Bytes'
<1>1. PICK from \in WriteAt, to \in WriteAt : Goto("fg", from, to)
  BY DEF SetTx, SetLoad, StoreImr, WriteHwImr, WriteAt
<1>2. UNCHANGED <<queues, at, data, log>>
  BY DEF SetTx, SetLoad, StoreImr, WriteHwImr
<1>3. to \in Place \ HandlerAt
  BY Places DEF WriteAt, Place, HandlerAt
<1>4. Written' = Written
  BY <1>1, <1>2, <1>3, GoesTo, Fg, WrittenKept DEF Types, log
<1> QED
  BY <1>1, <1>2, <1>3, <1>4, BytesCall DEF queues, log

(* The steps that have nothing to do with the bytes.                       *)
LEMMA BytesRest ==
    ASSUME Types, Bytes,
           ReadPop \/ ResetFlush \/ ResetDevice \/ ResetMask \/ BadParam \/ Listen \/ Enable
    PROVE  Bytes'
<1> USE DEF ReadPop, ResetFlush, ResetDevice, ResetMask, BadParam, Listen, ListenLoad, Enable,
            StoreImr, WriteHwImr, queues, log
<1>1. PICK from \in ResetAt \union {"pop"}, to \in ResetAt \union {"idle"} : Goto("fg", from, to)
  BY DEF ResetAt
<1>2. /\ line' = line /\ data' = data /\ nTx' = nTx
      /\ \A y \in Context \ {"fg"} : at'[y] = at[y]
  BY DEF Types, TypesPlace
<1>3. \A ch \in Ch : txbuf'[ch] = txbuf[ch] \/ txbuf'[ch] = <<>>
  BY DEF Types, TypesQueue
<1>4. to \in Place \ HandlerAt /\ to \notin WriteAt /\ from \notin WriteAt
  BY Places DEF Place, WriteAt, HandlerAt, ResetAt
<1>5. Written' = Written
  BY <1>1, <1>2, <1>4, GoesTo, Fg, WrittenKept DEF Types
<1> QED
  BY <1>1, <1>2, <1>3, <1>4, <1>5, BytesCall

LEMMA BytesDevice ==
    ASSUME Types, Bytes,
           Interrupt \/ \E ch \in Ch : TxDone(ch) \/ \E err \in LineErrors : Receive(ch, err)
    PROVE  Bytes'
<1>1. /\ UNCHANGED <<txbuf, line, nTx, at, data>>
      /\ pc' = pc \/ pc' = [pc EXCEPT !["irq"] = "txTest"]
  BY DEF Interrupt, TxDone, Receive, queues, cpu, log
<1>2. Written' = Written
  BY <1>1, Fg, WrittenKept DEF Types, TypesPlace
<1>3. \A y \in Context, ch \in Ch : Holds(y, ch)' => Holds(y, ch) /\ data'[y] = data[y]
  BY <1>1 DEF Holds, Chan, Types, TypesPlace
<1> QED
  BY <1>1, <1>2, <1>3, BytesKept

LEMMA BytesNext == ASSUME Types, Bytes, [Next]_vars PROVE Bytes'
<1>1. CASE UNCHANGED vars
  BY <1>1 DEF vars, queues, cpu, log, Bytes, Holds, Chan, Written
<1>2. CASE Call
  BY <1>2, BytesBegin, BytesFlush DEF Call
<1>3. CASE Foreground
  BY <1>3, BytesHandlerNext, Fg, BytesSetTx, BytesWritePush, BytesRest DEF Foreground
<1> QED
  BY <1>1, <1>2, <1>3, BytesHandlerNext, Fg, BytesDevice DEF Next

-----------------------------------------------------------------------------
(* Characters in order.                                                    *)

LEMMA Concats ==
    ASSUME NEW s \in Seq(Nat), NEW t \in Seq(Nat)
    PROVE  /\ s \o t \in Seq(Nat) /\ Len(s \o t) = Len(s) + Len(t)
           /\ \A i \in 1..Len(s) : (s \o t)[i] = s[i]
           /\ \A i \in 1..Len(t) : (s \o t)[Len(s) + i] = t[i]
           /\ \A i \in 1..Len(s \o t) : i \in 1..Len(s) \/ i - Len(s) \in 1..Len(t)
  OBVIOUS

(* Two sequences one after the other are in order if each of them is and   *)
(* the first is below the second.                                          *)
LEMMA OkConcat ==
    ASSUME NEW s \in Seq(Nat), NEW t \in Seq(Nat), NEW n
    PROVE  Ok(n, s \o t) <=> Ok(n, s) /\ Ok(n, t) /\ Below(s, t)
<1>1. Ok(n, s \o t) => Ok(n, s) /\ Ok(n, t) /\ Below(s, t)
  <2> SUFFICES ASSUME Ok(n, s \o t) PROVE Ok(n, s) /\ Ok(n, t) /\ Below(s, t)
    OBVIOUS
  <2> DEFINE u == s \o t
  <2>0. /\ \A i, j \in 1..Len(u) : i < j /\ u[i] # ErrorByte /\ u[j] # ErrorByte => u[i] < u[j]
        /\ \A i \in 1..Len(u) : u[i] \in 1..n \union {ErrorByte}
    BY DEF Ok, InOrder
  <2>4. /\ Len(u) = Len(s) + Len(t)
        /\ \A i \in 1..Len(s) : i \in 1..Len(u) /\ u[i] = s[i]
        /\ \A i \in 1..Len(t) : Len(s) + i \in 1..Len(u) /\ u[Len(s) + i] = t[i]
    BY Concats
  <2> HIDE DEF u
  <2>1. Ok(n, s)
    BY <2>0, <2>4 DEF Ok, InOrder
  <2>2. Ok(n, t)
    <3>1. ASSUME NEW i \in 1..Len(t), NEW j \in 1..Len(t), i < j, t[i] # ErrorByte, t[j] # ErrorByte
          PROVE  t[i] < t[j]
      <4>1. Len(s) + i < Len(s) + j
        BY <3>1
      <4> QED
        BY <2>0, <2>4, <3>1, <4>1
    <3> QED
      BY <2>0, <2>4, <3>1 DEF Ok, InOrder
  <2>3. Below(s, t)
    <3>1. ASSUME NEW i \in 1..Len(s), NEW j \in 1..Len(t), s[i] # ErrorByte, t[j] # ErrorByte
          PROVE  s[i] < t[j]
      <4>1. i < Len(s) + j
        BY <3>1
      <4> QED
        BY <2>0, <2>4, <3>1, <4>1
    <3> QED
      BY <3>1 DEF Below
  <2> QED
    BY <2>1, <2>2, <2>3
<1>2. ASSUME Ok(n, s), Ok(n, t), Below(s, t) PROVE Ok(n, s \o t)
  <2>1. ASSUME NEW i \in 1..Len(s \o t), NEW j \in 1..Len(s \o t), i < j,
               ErrorByte \notin {(s \o t)[i], (s \o t)[j]}
        PROVE  (s \o t)[i] < (s \o t)[j]
    <3>1. CASE j \in 1..Len(s)
      BY <1>2, <2>1, <3>1, Concats DEF Ok, InOrder
    <3>2. CASE i \in 1..Len(s) /\ j - Len(s) \in 1..Len(t)
      BY <1>2, <2>1, <3>2, Concats DEF Below
    <3>3. CASE i - Len(s) \in 1..Len(t) /\ j - Len(s) \in 1..Len(t)
      <4>1. /\ (s \o t)[i] = t[i - Len(s)] /\ (s \o t)[j] = t[j - Len(s)]
            /\ i - Len(s) < j - Len(s)
        BY <3>3, <2>1, Concats
      <4> QED
        BY <1>2, <2>1, <3>3, <4>1 DEF Ok, InOrder
    <3> QED
      BY <2>1, <3>1, <3>2, <3>3, Concats
  <2>2. \A i \in 1..Len(s \o t) : (s \o t)[i] \in 1..n \union {ErrorByte}
    BY <1>2, Concats DEF Ok
  <2> QED
    BY <2>1, <2>2 DEF Ok, InOrder
<1> QED
  BY <1>1, <1>2

LEMMA BelowConcat ==
    ASSUME NEW s \in Seq(Nat), NEW t \in Seq(Nat), NEW u \in Seq(Nat)
    PROVE  /\ Below(s \o t, u) <=> Below(s, u) /\ Below(t, u)
           /\ Below(u, s \o t) <=> Below(u, s) /\ Below(u, t)
<1> DEFINE v == s \o t
<1>0. /\ \A i \in 1..Len(s) : i \in 1..Len(v) /\ v[i] = s[i]
      /\ \A i \in 1..Len(t) : Len(s) + i \in 1..Len(v) /\ v[Len(s) + i] = t[i]
      /\ \A i \in 1..Len(v) : \/ i \in 1..Len(s) /\ v[i] = s[i]
                              \/ i - Len(s) \in 1..Len(t) /\ v[i] = t[i - Len(s)]
  BY Concats
<1> HIDE DEF v
<1>1. Below(v, u) => Below(s, u) /\ Below(t, u)
  BY <1>0 DEF Below
<1>2. Below(s, u) /\ Below(t, u) => Below(v, u)
  BY <1>0 DEF Below
<1>3. Below(u, v) => Below(u, s) /\ Below(u, t)
  BY <1>0 DEF Below
<1>4. Below(u, s) /\ Below(u, t) => Below(u, v)
  BY <1>0 DEF Below
<1> QED
  BY <1>1, <1>2, <1>3, <1>4 DEF v

(* So four of them in a row.                                               *)
LEMMA OkRow ==
    ASSUME NEW r \in Seq(Nat), NEW b \in Seq(Nat), NEW h \in Seq(Nat), NEW w \in Seq(Nat), NEW n
    PROVE  Ok(n, (r \o b) \o (h \o w)) <=> Row(n, r, b, h, w)
<1>1. r \o b \in Seq(Nat) /\ h \o w \in Seq(Nat)
  BY Concats
<1>2. Ok(n, (r \o b) \o (h \o w)) <=> Ok(n, r \o b) /\ Ok(n, h \o w) /\ Below(r \o b, h \o w)
  BY <1>1, OkConcat
<1>3. Ok(n, r \o b) <=> Ok(n, r) /\ Ok(n, b) /\ Below(r, b)
  BY OkConcat
<1>4. Ok(n, h \o w) <=> Ok(n, h) /\ Ok(n, w) /\ Below(h, w)
  BY OkConcat
<1>5. Below(r \o b, h \o w) <=> Below(r, h) /\ Below(r, w) /\ Below(b, h) /\ Below(b, w)
  BY <1>1, BelowConcat
<1> QED
  BY <1>2, <1>3, <1>4, <1>5 DEF Row

LEMMA OkEmpty ==
    ASSUME NEW s, NEW n
    PROVE  Ok(n, <<>>) /\ Below(<<>>, s) /\ Below(s, <<>>)
  BY DEF Ok, InOrder, Below

LEMMA OkOne ==
    ASSUME NEW n \in Nat, NEW s \in Seq(Nat)
    PROVE  Ok(n, <<ErrorByte>>) /\ Below(<<ErrorByte>>, s) /\ Below(s, <<ErrorByte>>)
  BY DEF Ok, InOrder, Below

LEMMA OkTail ==
    ASSUME NEW s \in Seq(Nat), s # <<>>, NEW t \in Seq(Nat), NEW n, Ok(n, s)
    PROVE  /\ Ok(n, Tail(s)) /\ Ok(n, <<Head(s)>>) /\ Below(<<Head(s)>>, Tail(s))
           /\ Below(s, t) => Below(Tail(s), t) /\ Below(<<Head(s)>>, t)
           /\ Below(t, s) => Below(t, Tail(s)) /\ Below(t, <<Head(s)>>)
<1> DEFINE u == Tail(s)
           h == Head(s)
<1>1. /\ u \in Seq(Nat) /\ Len(u) = Len(s) - 1 /\ Len(s) \in Nat /\ Len(s) > 0
      /\ \A i \in 1..Len(u) : u[i] = s[i + 1] /\ i + 1 \in 1..Len(s)
      /\ h = s[1] /\ h \in Nat /\ 1 \in 1..Len(s) /\ Len(t) \in Nat
  BY Tails
<1> HIDE DEF u, h
<1>2. Ok(n, u)
  <2>1. \A i, j \in 1..Len(s) : i < j /\ s[i] # ErrorByte /\ s[j] # ErrorByte => s[i] < s[j]
    BY DEF Ok, InOrder
  <2>2. ASSUME NEW i \in 1..Len(u), NEW j \in 1..Len(u), i < j, ErrorByte \notin {u[i], u[j]}
        PROVE  u[i] < u[j]
    <3>1. i + 1 < j + 1 /\ i + 1 \in 1..Len(s) /\ j + 1 \in 1..Len(s)
      BY <1>1, <2>2
    <3> QED
      BY <1>1, <2>1, <2>2, <3>1
  <2>3. \A i \in 1..Len(u) : u[i] \in 1..n \union {ErrorByte}
    BY <1>1 DEF Ok
  <2> QED
    BY <2>2, <2>3 DEF Ok, InOrder
<1>9. s[1] \in 1..n \union {ErrorByte}
  BY <1>1 DEF Ok
<1>3. Ok(n, <<h>>)
  BY <1>9, <1>1 DEF Ok, InOrder
<1>4. Below(<<h>>, u)
  <2>1. \A i, j \in 1..Len(s) : i < j /\ s[i] # ErrorByte /\ s[j] # ErrorByte => s[i] < s[j]
    BY DEF Ok, InOrder
  <2>2. ASSUME NEW j \in 1..Len(u), h # ErrorByte, u[j] # ErrorByte PROVE h < u[j]
    <3>1. 1 < j + 1 /\ j + 1 \in 1..Len(s)
      BY <1>1
    <3> QED
      BY <1>1, <2>1, <2>2, <3>1
  <2>3. Len(<<h>>) = 1 /\ <<h>>[1] = h
    OBVIOUS
  <2> QED
    BY <2>2, <2>3 DEF Below
<1>5. Below(s, t) => Below(u, t)
  BY <1>1 DEF Below
<1>6. Below(s, t) => Below(<<h>>, t)
  BY <1>1 DEF Below
<1>7. Below(t, s) => Below(t, u)
  BY <1>1 DEF Below
<1>8. Below(t, s) => Below(t, <<h>>)
  BY <1>1 DEF Below
<1> QED
  BY <1>2, <1>3, <1>4, <1>5, <1>6, <1>7, <1>8 DEF u, h

LEMMA OkAppend ==
    ASSUME NEW s \in Seq(Nat), NEW e \in Nat, NEW t \in Seq(Nat), NEW n,
           Ok(n, s), Ok(n, <<e>>), Below(s, <<e>>)
    PROVE  /\ Ok(n, Append(s, e))
           /\ Below(s, t) /\ Below(<<e>>, t) => Below(Append(s, e), t)
           /\ Below(t, s) /\ Below(t, <<e>>) => Below(t, Append(s, e))
<1>1. Append(s, e) = s \o <<e>> /\ <<e>> \in Seq(Nat)
  OBVIOUS
<1>2. Ok(n, s \o <<e>>)
  BY <1>1, OkConcat
<1>3. /\ Below(s \o <<e>>, t) <=> Below(s, t) /\ Below(<<e>>, t)
      /\ Below(t, s \o <<e>>) <=> Below(t, s) /\ Below(t, <<e>>)
  BY <1>1, BelowConcat
<1> QED
  BY <1>1, <1>2, <1>3

(* A character that arrives is above all before it.                        *)
LEMMA OkNext ==
    ASSUME NEW n \in Nat, n < MaxRx, NEW s \in Seq(Nat), Ok(n, s)
    PROVE  Ok(n + 1, s) /\ Ok(n + 1, <<n + 1>>) /\ Below(s, <<n + 1>>)
  BY Counts DEF Ok, InOrder, Below

LEMMA Idents ==
    ASSUME NEW f \in Seq(Char)
    PROVE  /\ Ids(f) \in Seq(Nat) /\ Len(Ids(f)) = Len(f)
           /\ \A c \in Char : Ids(Append(f, c)) = Append(Ids(f), c.id)
           /\ f # <<>> => Ids(f) # <<>> /\ Ids(Tail(f)) = Tail(Ids(f)) /\ Head(Ids(f)) = Head(f).id
<1>0. \A c \in Char : c.id \in Nat
  BY Counts DEF Char
<1>1. \A i \in 1..Len(f) : f[i].id \in Nat
  BY <1>0
<1>2. Ids(f) \in Seq(Nat) /\ Len(Ids(f)) = Len(f)
  BY <1>1 DEF Ids
<1>3. ASSUME NEW c \in Char PROVE Ids(Append(f, c)) = Append(Ids(f), c.id)
  <2>1. c.id \in Nat
    BY Counts DEF Char
  <2> QED
    BY <1>2, <2>1, Appends DEF Ids
<1>4. ASSUME f # <<>>
      PROVE  Ids(f) # <<>> /\ Ids(Tail(f)) = Tail(Ids(f)) /\ Head(Ids(f)) = Head(f).id
  BY <1>2, <1>4, Tails DEF Ids
<1> QED
  BY <1>2, <1>3, <1>4

LEMMA HeldWaiting ==
    ASSUME Types, NEW ch \in Ch
    PROVE  /\ read[ch] \in Seq(Nat) /\ rxbuf[ch] \in Seq(Nat)
           /\ Held(ch) \in Seq(Nat) /\ Waiting(ch) \in Seq(Nat)
<1>1. read[ch] \in Seq(Nat) /\ rxbuf[ch] \in Seq(Nat)
  BY Counts DEF Types, TypesQueue, TypesLog
<1>2. Held(ch) \in Seq(Nat)
  BY Counts, Fg DEF Types, TypesReg, Held
<1>3. Waiting(ch) \in Seq(Nat)
  BY Idents DEF Types, TypesQueue, Waiting
<1> QED
  BY <1>1, <1>2, <1>3

LEMMA CharsInit == Init => Chars
<1> SUFFICES ASSUME Init PROVE Chars
  OBVIOUS
<1>1. \A ch \in Ch : Held(ch) = <<>> /\ Waiting(ch) = <<>> /\ read[ch] = <<>> /\ rxbuf[ch] = <<>>
  BY DEF Init, Held, Waiting, Ids, Context
<1>2. \A ch \in Ch : RowOf(ch)
  BY <1>1, OkEmpty DEF RowOf, Row
<1>3. pc["fg"] \notin HandlerAt \union WriteAt /\ pc["irq"] # "rxRead"
  BY DEF Init, HandlerAt, WriteAt, Context
<1> QED
  BY <1>2, <1>3 DEF Chars

(* A step after which each part of a row is what it was, or empty.         *)
LEMMA RowShrinks ==
    ASSUME NEW n, NEW r, NEW b, NEW h, NEW w, Row(n, r, b, h, w),
           NEW c \in {b, <<>>}, NEW v \in {w, <<>>}
    PROVE  Row(n, r, c, h, v)
  BY OkEmpty DEF Row

(* The steps of the foreground in the calls that do not write: the handler *)
(* is not running.                                                         *)
LEMMA CharsCall ==
    ASSUME Types, Types', Chars, NEW from, NEW to \in Place \ (HandlerAt \union WriteAt),
           Goto("fg", from, to), UNCHANGED <<nTx, nRx>>,
           \A ch \in Ch : Row(nRx, read[ch], rxbuf[ch], <<>>, Waiting(ch))
                            => Row(nRx, read'[ch], rxbuf'[ch], <<>>, Waiting(ch)')
    PROVE  Chars'
<1>1. pc["irq"] = "off" /\ pc'["irq"] = "off" /\ pc'["fg"] = to
  BY GoesTo, Fg DEF Types
<1>2. \A ch \in Ch : Held(ch) = <<>> /\ Held(ch)' = <<>>
  BY <1>1 DEF Held
<1>3. nTx = 0 => \A ch \in Ch : RowOf(ch)'
  BY <1>2 DEF RowOf, Chars
<1> QED
  BY <1>1, <1>3 DEF Chars

LEMMA CharsCallKept ==
    ASSUME Types, Types', Chars, NEW from, NEW to \in Place \ (HandlerAt \union WriteAt),
           Goto("fg", from, to), UNCHANGED <<nTx, nRx, read>>,
           \A ch \in Ch : /\ rxbuf'[ch] = rxbuf[ch] \/ rxbuf'[ch] = <<>>
                          /\ fifo'[ch] = fifo[ch] \/ fifo'[ch] = <<>>
    PROVE  Chars'
<1>1. \A ch \in Ch : /\ rxbuf'[ch] \in {rxbuf[ch], <<>>}
                     /\ Waiting(ch)' \in {Waiting(ch), <<>>}
  BY DEF Waiting, Ids
<1>2. \A ch \in Ch : Row(nRx, read[ch], rxbuf[ch], <<>>, Waiting(ch))
                       => Row(nRx, read'[ch], rxbuf'[ch], <<>>, Waiting(ch)')
  BY <1>1, RowShrinks
<1> QED
  BY <1>2, CharsCall

LEMMA CharsReadPop == ASSUME Types, Types', Chars, ReadPop PROVE Chars'
<1> DEFINE c == Chan("fg")
           b == rxbuf[c]
<1>1. /\ Goto("fg", "pop", "idle") /\ UNCHANGED <<nTx, nRx, fifo>>
      /\ rxbuf' = [rxbuf EXCEPT ![c] = Tail(b)] /\ b # <<>>
      /\ read' = IF Head(b) \in 1..MaxRx THEN [read EXCEPT ![c] = Append(@, Head(b))] ELSE read
  BY DEF ReadPop, hw
<1>2. /\ c \in Ch /\ rxbuf \in [Ch -> Seq(0..ErrorByte)] /\ read \in [Ch -> Seq(1..MaxRx)]
      /\ read[c] \in Seq(Nat) /\ b \in Seq(Nat) /\ Waiting(c) \in Seq(Nat)
  BY ChanType, Fg, HeldWaiting DEF Types, TypesQueue, TypesLog
<1>3. \A ch \in Ch : Waiting(ch)' = Waiting(ch)
  BY <1>1 DEF Waiting
<1>4. ASSUME Row(nRx, read[c], b, <<>>, Waiting(c))
      PROVE  Row(nRx, read'[c], rxbuf'[c], <<>>, Waiting(c))
  <2>1. /\ Ok(nRx, Tail(b)) /\ Ok(nRx, <<Head(b)>>) /\ Below(<<Head(b)>>, Tail(b))
        /\ Below(Tail(b), Waiting(c)) /\ Below(<<Head(b)>>, Waiting(c))
        /\ Below(read[c], Tail(b)) /\ Below(read[c], <<Head(b)>>)
    BY <1>1, <1>2, <1>4, OkTail DEF Row
  <2>2. CASE Head(b) \in 1..MaxRx
    <3>1. read'[c] = Append(read[c], Head(b)) /\ rxbuf'[c] = Tail(b) /\ Head(b) \in Nat
          /\ Tail(b) \in Seq(Nat)
      BY <1>1, <1>2, <2>2, Tails
    <3>2. /\ Ok(nRx, read'[c]) /\ Below(read'[c], Tail(b)) /\ Below(read'[c], Waiting(c))
      BY <1>2, <1>4, <2>1, <3>1, OkAppend DEF Row
    <3> QED
      BY <1>4, <2>1, <3>1, <3>2, OkEmpty DEF Row
  <2>3. CASE Head(b) \notin 1..MaxRx
    BY <1>1, <1>2, <1>4, <2>1, <2>3, OkEmpty DEF Row
  <2> QED
    BY <2>2, <2>3
<1>5. \A ch \in Ch : Row(nRx, read[ch], rxbuf[ch], <<>>, Waiting(ch))
                       => Row(nRx, read'[ch], rxbuf'[ch], <<>>, Waiting(ch)')
  BY <1>1, <1>2, <1>3, <1>4
<1>6. "idle" \in Place \ (HandlerAt \union WriteAt)
  BY DEF Place, HandlerAt, WriteAt
<1> QED
  BY <1>1, <1>5, <1>6, CharsCall

LEMMA CharsForeground == ASSUME Types, Types', Chars, Foreground PROVE Chars'
<1> USE DEF TypesQueue, Types
<1>1. CASE SetTx \/ WritePush \/ Handler("fg")
  <2>1. pc["fg"] \in HandlerAt \union WriteAt /\ nTx' = nTx
    BY <1>1 DEF SetTx, SetLoad, StoreImr, WriteHwImr, WritePush, Handler, TxTest, TxPop, Clear,
                ClearLoad, TxStatus, TxWrite, RxTest, RxStatus, RxRead, RxPush, Goto, HandlerAt,
                WriteAt, log
  <2> QED
    BY <2>1 DEF Chars
<1>2. CASE ReadPop
  BY <1>2, CharsReadPop
<1>3. CASE ResetFlush \/ ResetDevice \/ ResetMask \/ BadParam \/ Listen \/ Enable
  <2> USE DEF ResetFlush, ResetDevice, ResetMask, BadParam, Listen, ListenLoad, Enable,
              StoreImr, WriteHwImr, queues, hw, log
  <2>1. PICK from, to \in ResetAt \union {"idle"} : Goto("fg", from, to)
    BY <1>3 DEF ResetAt
  <2>2. to \in Place \ (HandlerAt \union WriteAt)
    BY Places DEF Place, HandlerAt, WriteAt, ResetAt
  <2>3. UNCHANGED <<nTx, nRx, read>>
    BY <1>3
  <2>4. \A ch \in Ch : /\ rxbuf'[ch] = rxbuf[ch] \/ rxbuf'[ch] = <<>>
                       /\ fifo'[ch] = fifo[ch] \/ fifo'[ch] = <<>>
    BY <1>3
  <2> QED
    BY <2>1, <2>2, <2>3, <2>4, CharsCallKept
<1> QED
  BY <1>1, <1>2, <1>3 DEF Foreground

LEMMA CharsBegin == ASSUME Types, Types', Chars, Call PROVE Chars'
<1>1. ASSUME NEW i \in 1..Len(Chans), Write(i) PROVE Chars'
  BY <1>1, Counts DEF Write, Chars, Types, TypesLog
<1>2. ASSUME NEW i \in 1..Len(Chans), Read(i) \/ SetParam(i) PROVE Chars'
  <2>1. PICK to \in {"pop", "flushTx"} : Goto("fg", "idle", to)
    BY <1>2 DEF Read, SetParam
  <2>2. to \in Place \ (HandlerAt \union WriteAt)
    BY DEF Place, HandlerAt, WriteAt, ResetAt
  <2> QED
    BY <1>2, <2>1, <2>2, CharsCallKept DEF Read, SetParam, queues, hw, log
<1>3. ASSUME NEW ch \in Ch, FlushTx(ch) \/ FlushRx(ch) PROVE Chars'
  <2>1. UNCHANGED <<fifo, pc, at, data, nTx, nRx, read>>
    BY <1>3 DEF FlushTx, FlushRx, hw, cpu, log
  <2>2. \A c \in Ch : rxbuf'[c] \in {rxbuf[c], <<>>}
    BY <1>3 DEF FlushTx, FlushRx, Types, TypesQueue
  <2>3. \A c \in Ch : Waiting(c)' = Waiting(c) /\ Held(c)' = Held(c)
    BY <2>1 DEF Waiting, Held, Chan
  <2>4. \A c \in Ch : RowOf(c) => RowOf(c)'
    BY <2>1, <2>2, <2>3, RowShrinks DEF RowOf
  <2> QED
    BY <2>1, <2>4 DEF Chars, Chan
<1> QED
  BY <1>1, <1>2, <1>3 DEF Call

(* The handler run from the interrupt.  Most of its steps move no          *)
(* character.                                                              *)
LEMMA CharsIrqKept ==
    ASSUME Types, Types', Chars, NEW from \in HandlerAt \ {"rxPush"},
           NEW to \in Place \ {"rxRead", "rxPush"},
           Goto("irq", from, to), UNCHANGED <<fifo, rxbuf, read, nTx, nRx>>
    PROVE  Chars'
<1>1. pc["irq"] = from /\ pc'["irq"] = to /\ pc'["fg"] = pc["fg"]
  BY GoesTo, Fg DEF Types
<1>2. \A ch \in Ch : Held(ch) = <<>> /\ Held(ch)' = <<>> /\ Waiting(ch)' = Waiting(ch)
  BY <1>1 DEF Held, Waiting
<1>3. \A ch \in Ch : RowOf(ch) => RowOf(ch)'
  BY <1>2 DEF RowOf
<1> QED
  BY <1>1, <1>3 DEF Chars

LEMMA CharsIrqTest ==
    ASSUME Types, Types', Chars,
           TxTest("irq") \/ TxPop("irq") \/ Clear("irq") \/ TxStatus("irq") \/ TxWrite("irq")
             \/ RxTest("irq")
    PROVE  Chars'
<1> USE DEF TxTest, TxPop, Clear, ClearLoad, StoreImr, WriteHwImr, TxStatus, TxWrite, RxTest
<1>0. AfterChannel("irq") \in {"txTest", "off"}
  BY DEF AfterChannel, Finished
<1>1. PICK from \in HandlerAt \ {"rxPush"}, to \in Place \ {"rxRead", "rxPush"} :
        Goto("irq", from, to)
  <2> DEFINE There == {"txPop", "rxTest", "clearLoad", "txStatus", "clearStore", "clearHw",
                       "txWrite", "rxStatus", "txTest", "off"}
  <2>1. There \subseteq Place \ {"rxRead", "rxPush"}
    BY DEF Place, HandlerAt
  <2>2. \E from \in HandlerAt \ {"rxPush"}, to \in There : Goto("irq", from, to)
    BY <1>0 DEF HandlerAt
  <2> QED
    BY <2>1, <2>2
<1>2. UNCHANGED <<fifo, rxbuf, read, nTx, nRx>>
  BY DEF queues, hw, log
<1> QED
  BY <1>1, <1>2, CharsIrqKept

LEMMA CharsRxStatus == ASSUME Types, Types', Chars, RxStatus("irq") PROVE Chars'
<1> DEFINE c == Chan("irq")
           to == IF Head(fifo[c]).err THEN "rxPush" ELSE "rxRead"
<1>1. /\ fifo[c] # <<>> /\ Goto("irq", "rxStatus", to)
      /\ data' = [data EXCEPT !["irq"] = IF Head(fifo[c]).err THEN ErrorByte ELSE 0]
      /\ UNCHANGED <<fifo, rxbuf, read, nTx, nRx, at>>
  BY DEF RxStatus, queues, hw, log
<1>2. pc["irq"] = "rxStatus" /\ pc'["irq"] = to /\ pc'["fg"] = pc["fg"]
  BY <1>1, GoesTo, Fg DEF Types, Place, HandlerAt
<1>3. data'["irq"] = IF Head(fifo[c]).err THEN ErrorByte ELSE 0
  BY <1>1, Fg DEF Types, TypesReg
<1>4. ASSUME NEW ch \in Ch, RowOf(ch) PROVE RowOf(ch)'
  <2>1. Held(ch) = <<>> /\ (Held(ch)' = <<>> \/ Held(ch)' = <<ErrorByte>>)
    BY <1>1, <1>2, <1>3 DEF Held
  <2>2. Waiting(ch)' = Waiting(ch) /\ nRx \in Nat
    BY <1>1, Counts DEF Waiting, Types, TypesLog
  <2> QED
    BY <1>1, <1>4, <2>1, <2>2, OkEmpty, OkOne, HeldWaiting DEF RowOf, Row
<1>5. Chan("irq")' = c
  BY <1>1 DEF Chan
<1> QED
  BY <1>1, <1>2, <1>4, <1>5 DEF Chars

LEMMA CharsRxRead == ASSUME Types, Types', Chars, RxRead("irq") PROVE Chars'
<1> DEFINE c == Chan("irq")
           f == fifo[c]
<1>1. /\ Goto("irq", "rxRead", "rxPush")
      /\ data' = [data EXCEPT !["irq"] = IF f = <<>> THEN StaleByte ELSE Head(f).id]
      /\ fifo' = [fifo EXCEPT ![c] = IF f = <<>> THEN f ELSE Tail(f)]
      /\ UNCHANGED <<rxbuf, read, nTx, nRx, at>>
  BY DEF RxRead, queues, log
<1>2. pc["irq"] = "rxRead" /\ pc'["irq"] = "rxPush" /\ pc'["fg"] = pc["fg"]
  BY <1>1, GoesTo, Fg DEF Types, Place, HandlerAt
<1>3. c \in Ch /\ fifo \in [Ch -> Seq(Char)] /\ f \in Seq(Char)
  BY ChanType, Fg DEF Types, TypesQueue
<1>4. ASSUME nTx = 0, NEW ch \in Ch, RowOf(ch) PROVE RowOf(ch)'
  <2>1. f # <<>>
    BY <1>2, <1>4 DEF Chars
  <2>2. CASE ch = c
    <3>1. Held(ch) = <<>> /\ Held(ch)' = <<Head(Waiting(ch))>>
      BY <1>1, <1>2, <1>3, <2>1, <2>2, Fg, Idents DEF Held, Chan, Types, TypesReg, Waiting
    <3>2. Waiting(ch)' = Tail(Waiting(ch)) /\ Waiting(ch) # <<>>
      <4>1. fifo'[c] = Tail(f)
        BY <1>1, <1>3, <2>1
      <4>2. Ids(f) # <<>> /\ Ids(Tail(f)) = Tail(Ids(f))
        BY <1>3, <2>1, Idents
      <4>3. Waiting(ch)' = Ids(fifo'[c])
        BY <2>2 DEF Waiting
      <4> QED
        BY <2>2, <4>1, <4>2, <4>3 DEF Waiting
    <3>3. /\ read[ch] \in Seq(Nat) /\ rxbuf[ch] \in Seq(Nat) /\ Waiting(ch) \in Seq(Nat)
      BY HeldWaiting
    <3>4. /\ Ok(nRx, Waiting(ch)) /\ Below(read[ch], Waiting(ch)) /\ Below(rxbuf[ch], Waiting(ch))
          /\ Ok(nRx, read[ch]) /\ Ok(nRx, rxbuf[ch]) /\ Below(read[ch], rxbuf[ch])
      BY <1>4, <2>2 DEF RowOf, Row
    <3> DEFINE h == <<Head(Waiting(ch))>>
               w == Tail(Waiting(ch))
    <3>5. /\ Ok(nRx, h) /\ Ok(nRx, w) /\ Below(h, w) /\ Below(read[ch], h) /\ Below(read[ch], w)
          /\ Below(rxbuf[ch], h) /\ Below(rxbuf[ch], w)
      BY <3>2, <3>3, <3>4, OkTail
    <3>6. Held(ch)' = h /\ Waiting(ch)' = w
      BY <3>1, <3>2
    <3>7. read'[ch] = read[ch] /\ rxbuf'[ch] = rxbuf[ch] /\ nRx' = nRx
      BY <1>1, <2>2
    <3> HIDE DEF h, w
    <3> QED
      BY <3>4, <3>5, <3>6, <3>7 DEF RowOf, Row
  <2>3. CASE ch # c
    <3>1. Held(ch) = <<>> /\ Held(ch)' = <<>>
      BY <1>1, <1>2, <2>3 DEF Held, Chan
    <3>2. Waiting(ch)' = Waiting(ch)
      BY <1>1, <1>3, <2>3 DEF Waiting
    <3> QED
      BY <1>1, <1>4, <3>1, <3>2 DEF RowOf
  <2> QED
    BY <2>2, <2>3
<1> QED
  BY <1>1, <1>2, <1>4 DEF Chars

LEMMA CharsRxPush == ASSUME Types, Types', Chars, RxPush("irq") PROVE Chars'
<1> DEFINE c == Chan("irq")
           b == data["irq"]
<1>1. /\ Goto("irq", "rxPush", AfterChannel("irq"))
      /\ rxbuf' = IF Len(rxbuf[c]) < Cap THEN [rxbuf EXCEPT ![c] = Append(@, b)] ELSE rxbuf
      /\ UNCHANGED <<fifo, read, nTx, nRx>>
  BY DEF RxPush, hw, log
<1>2. AfterChannel("irq") \in Place \ {"rxRead", "rxPush"}
  BY AfterPlace, Fg DEF AfterChannel, Finished, Place, HandlerAt
<1>3. pc["irq"] = "rxPush" /\ pc'["irq"] \notin {"rxRead", "rxPush"} /\ pc'["fg"] = pc["fg"]
  BY <1>1, <1>2, GoesTo, Fg DEF Types
<1>4. c \in Ch /\ rxbuf \in [Ch -> Seq(0..ErrorByte)] /\ b \in 0..ErrorByte /\ b \in Nat
  <2>1. c \in Ch /\ rxbuf \in [Ch -> Seq(0..ErrorByte)]
    BY ChanType, Fg DEF Types, TypesQueue
  <2>2. b \in 0..ErrorByte
    BY <1>3, Fg DEF Types, TypesReg
  <2> QED
    BY <2>1, <2>2, Counts
<1>5. ASSUME NEW ch \in Ch, RowOf(ch) PROVE RowOf(ch)'
  <2>1. Held(ch)' = <<>> /\ Waiting(ch)' = Waiting(ch) /\ read'[ch] = read[ch] /\ nRx' = nRx
    BY <1>1, <1>3 DEF Held, Waiting
  <2>2. CASE ch = c /\ Len(rxbuf[c]) < Cap
    <3>1. Held(ch) = <<b>> /\ rxbuf'[ch] = Append(rxbuf[ch], b)
      BY <1>1, <1>3, <1>4, <2>2 DEF Held
    <3>2. read[ch] \in Seq(Nat) /\ rxbuf[ch] \in Seq(Nat) /\ Waiting(ch) \in Seq(Nat)
      BY HeldWaiting
    <3>3. Row(nRx, read[ch], rxbuf[ch], <<b>>, Waiting(ch))
      BY <1>5, <3>1 DEF RowOf
    <3>4. /\ Ok(nRx, rxbuf'[ch]) /\ Below(rxbuf'[ch], Waiting(ch)) /\ Below(read[ch], rxbuf'[ch])
      BY <1>4, <3>1, <3>2, <3>3, OkAppend DEF Row
    <3> QED
      BY <2>1, <3>3, <3>4, OkEmpty DEF RowOf, Row
  <2>3. CASE ~(ch = c /\ Len(rxbuf[c]) < Cap)
    <3>1. rxbuf'[ch] = rxbuf[ch]
      BY <1>1, <1>4, <2>3
    <3> QED
      BY <1>5, <2>1, <3>1, OkEmpty DEF RowOf, Row
  <2> QED
    BY <2>2, <2>3
<1> QED
  BY <1>1, <1>3, <1>5 DEF Chars

LEMMA CharsInterrupt == ASSUME Types, Types', Chars, Interrupt PROVE Chars'
<1>1. pc' = [pc EXCEPT !["irq"] = "txTest"] /\ pc["irq"] = "off" /\ UNCHANGED <<queues, fifo, log>>
  BY DEF Interrupt, hw
<1>2. pc'["irq"] = "txTest" /\ pc'["fg"] = pc["fg"]
  BY <1>1, Fg DEF Types, TypesPlace
<1>3. \A ch \in Ch : Held(ch) = <<>> /\ Held(ch)' = <<>> /\ Waiting(ch)' = Waiting(ch)
  BY <1>1, <1>2 DEF Held, Waiting
<1>4. \A ch \in Ch : RowOf(ch) => RowOf(ch)'
  BY <1>1, <1>3 DEF RowOf, queues, log
<1> QED
  BY <1>1, <1>2, <1>4 DEF Chars, log

LEMMA CharsTxDone == ASSUME NEW c \in Ch, Types, Chars, TxDone(c) PROVE Chars'
<1>1. UNCHANGED <<queues, fifo, cpu, log>>
  BY DEF TxDone
<1>2. \A ch \in Ch : Held(ch)' = Held(ch) /\ Waiting(ch)' = Waiting(ch)
  BY <1>1 DEF Held, Waiting, cpu, Chan
<1>3. \A ch \in Ch : RowOf(ch) => RowOf(ch)'
  BY <1>1, <1>2 DEF RowOf, queues, log
<1> QED
  BY <1>1, <1>3 DEF Chars, log, cpu, Chan

LEMMA CharsReceive ==
    ASSUME NEW c \in Ch, NEW err \in LineErrors, Types, Chars, Receive(c, err)
    PROVE  Chars'
<1> DEFINE new == [id |-> nRx + 1, err |-> err]
<1>1. /\ nRx < MaxRx /\ nRx' = nRx + 1 /\ nRx \in Nat
      /\ fifo' = IF Len(fifo[c]) < FifoSize THEN [fifo EXCEPT ![c] = Append(@, new)] ELSE fifo
      /\ UNCHANGED <<queues, cpu, read, nTx>>
  BY Counts DEF Receive, Types, TypesLog
<1>2. new \in Char /\ fifo \in [Ch -> Seq(Char)]
  <2>1. nRx + 1 \in 1..MaxRx /\ err \in BOOLEAN
    BY <1>1, Counts, BoundsAssumption
  <2> QED
    BY <2>1 DEF Char, Types, TypesQueue
<1>3. ASSUME NEW ch \in Ch, RowOf(ch) PROVE RowOf(ch)'
  <2>1. Held(ch)' = Held(ch) /\ read'[ch] = read[ch] /\ rxbuf'[ch] = rxbuf[ch]
    BY <1>1 DEF Held, Chan, cpu, queues
  <2>2. /\ read[ch] \in Seq(Nat) /\ rxbuf[ch] \in Seq(Nat) /\ Held(ch) \in Seq(Nat)
        /\ Waiting(ch) \in Seq(Nat)
    BY HeldWaiting
  <2>3. Row(nRx, read[ch], rxbuf[ch], Held(ch), Waiting(ch))
    BY <1>3 DEF RowOf
  <2>4. Row(nRx + 1, read[ch], rxbuf[ch], Held(ch), Waiting(ch))
    BY <1>1, <2>2, <2>3, OkNext DEF Row
  <2>5. /\ Below(read[ch], <<nRx + 1>>) /\ Below(rxbuf[ch], <<nRx + 1>>)
        /\ Below(Held(ch), <<nRx + 1>>) /\ Below(Waiting(ch), <<nRx + 1>>)
        /\ Ok(nRx + 1, <<nRx + 1>>)
    BY <1>1, <2>2, <2>3, OkNext DEF Row
  <2>6. CASE ch = c /\ Len(fifo[c]) < FifoSize
    <3>1. fifo'[ch] = Append(fifo[ch], new) /\ fifo[ch] \in Seq(Char)
      BY <1>1, <1>2, <2>6
    <3>2. Waiting(ch)' = Append(Waiting(ch), nRx + 1)
      BY <1>2, <3>1, Idents DEF Waiting
    <3>3. /\ Ok(nRx + 1, Waiting(ch)') /\ Below(read[ch], Waiting(ch)')
          /\ Below(rxbuf[ch], Waiting(ch)') /\ Below(Held(ch), Waiting(ch)')
      BY <1>1, <2>2, <2>4, <2>5, <3>2, OkAppend DEF Row
    <3> QED
      BY <1>1, <2>1, <2>4, <3>3 DEF RowOf, Row
  <2>7. CASE ~(ch = c /\ Len(fifo[c]) < FifoSize)
    <3>1. fifo'[ch] = fifo[ch]
      BY <1>1, <1>2, <2>7
    <3>2. Waiting(ch)' = Waiting(ch)
      BY <3>1 DEF Waiting
    <3> QED
      BY <1>1, <2>1, <2>4, <3>2 DEF RowOf
  <2> QED
    BY <2>6, <2>7
<1>4. pc' = pc /\ at' = at
  BY <1>1 DEF cpu
<1>5. ASSUME nTx = 0, pc["irq"] = "rxRead" PROVE fifo'[Chan("irq")] # <<>>
  <2>1. fifo[Chan("irq")] # <<>> /\ Chan("irq") \in Ch
    BY <1>5, ChanType, Fg DEF Chars, Types
  <2> QED
    BY <1>1, <1>2, <2>1
<1> QED
  BY <1>1, <1>3, <1>4, <1>5 DEF Chars, Chan

LEMMA CharsNext == ASSUME Types, Types', Chars, [Next]_vars PROVE Chars'
<1>1. CASE UNCHANGED vars
  <2>1. UNCHANGED <<queues, fifo, cpu, log>>
    BY <1>1 DEF vars, hw
  <2>2. \A ch \in Ch : Held(ch)' = Held(ch) /\ Waiting(ch)' = Waiting(ch)
    BY <2>1 DEF Held, Waiting, cpu, Chan
  <2>3. \A ch \in Ch : RowOf(ch) => RowOf(ch)'
    BY <2>1, <2>2 DEF RowOf, queues, log
  <2> QED
    BY <2>1, <2>3 DEF Chars, log, cpu, Chan
<1>2. CASE Call \/ Foreground
  BY <1>2, CharsBegin, CharsForeground
<1>3. CASE Interrupt \/ Handler("irq")
  BY <1>3, CharsInterrupt, CharsIrqTest, CharsRxStatus, CharsRxRead, CharsRxPush DEF Handler
<1>4. CASE \E ch \in Ch : TxDone(ch) \/ \E err \in LineErrors : Receive(ch, err)
  BY <1>4, CharsTxDone, CharsReceive
<1> QED
  BY <1>1, <1>2, <1>3, <1>4 DEF Next

-----------------------------------------------------------------------------
(* The three invariants together.                                          *)
LEMMA Inductive == Spec => []IInv
<1>1. Init => IInv
  BY TypesInit, BytesInit, CharsInit DEF IInv
<1>2. IInv /\ [Next]_vars => IInv'
  BY TypesNext, BytesNext, CharsNext DEF IInv
<1> QED
  BY <1>1, <1>2, PTL DEF Spec

(* The rings of device_mc68681, the FIFO, the masks and the registers of   *)
(* both contexts never hold anything but what they can hold.               *)
THEOREM TypeCorrect == Spec => []TypeOK
<1>1. IInv => TypeOK
  <2> SUFFICES ASSUME IInv PROVE TypeOK
    OBVIOUS
  <2>1. TypesPlace /\ TypesQueue /\ TypesReg /\ TypesLog
    BY DEF IInv, Types
  <2>2. \A S : \A s \in Seq(S) : Range(s) \subseteq S
    BY DEF Range
  <2>3. \A ch \in Ch : /\ BufferedTx(ch) \subseteq 1..MaxTx
                       /\ Range(rxbuf[ch]) \subseteq 0..ErrorByte
                       /\ Range(fifo[ch]) \subseteq Char /\ Range(line[ch]) \subseteq 1..MaxTx
                       /\ Range(read[ch]) \subseteq 1..MaxRx
    BY <2>1, <2>2 DEF BufferedTx, TypesQueue, TypesLog
  <2>4. {imr, hwImr} \union Range(reg) \subseteq SUBSET Bits
    BY <2>1 DEF TypesReg, Range
  <2> QED
    BY <2>1, <2>3, <2>4 DEF TypeOK, TypesPlace, TypesQueue, TypesReg, TypesLog
<1> QED
  BY <1>1, Inductive, PTL

(* No byte is put on the line twice, though mc68681_irq_handler runs from  *)
(* the interrupt and from write_byte at once: for one channel or two,      *)
(* rings of every size and any number of bytes and calls.                  *)
THEOREM SentOnce == Spec => []TxOnce
<1>1. IInv => TxOnce
  BY DEF IInv, Bytes, TxOnce, Holds, BufferedTx, Chan
<1> QED
  BY <1>1, Inductive, PTL

(* Until the first write_byte, the characters read_byte has returned and   *)
(* those still in the ring, in the handler's hands and in the FIFO are in  *)
(* the order of arrival, nothing twice, for rings and FIFOs of every size. *)
THEOREM ReceivedInOrder == Spec => []RxInOrder
<1>1. IInv => RxInOrder
  <2> SUFFICES ASSUME IInv, nTx = 0, NEW ch \in Ch
               PROVE  InOrder((read[ch] \o rxbuf[ch]) \o (Held(ch) \o Waiting(ch)))
    BY DEF RxInOrder, Held, Waiting, Ids
  <2>1. /\ read[ch] \in Seq(Nat) /\ rxbuf[ch] \in Seq(Nat)
        /\ Held(ch) \in Seq(Nat) /\ Waiting(ch) \in Seq(Nat)
    BY HeldWaiting DEF IInv
  <2>2. Row(nRx, read[ch], rxbuf[ch], Held(ch), Waiting(ch))
    BY DEF IInv, Chars, RowOf
  <2> QED
    BY <2>1, <2>2, OkRow DEF Ok
<1> QED
  BY <1>1, Inductive, PTL

-----------------------------------------------------------------------------
(* One channel: both contexts serve it.                                    *)
LEMMA Only ==
    ASSUME Len(Chans) = 1, TypesPlace, NEW ch \in Ch
    PROVE  \A x \in Context : Chan(x) = ch /\ AfterChannel(x) = Finished(x)
<1>1. Ch = {Chans[1]}
  BY ChansAssumption DEF Ch, Range
<1> QED
  BY <1>1, ChanType DEF Chan, AfterChannel, TypesPlace

LEMMA LastOne == ASSUME NEW S, NEW s \in Seq(S), Len(s) = 1 PROVE Tail(s) = <<>>
<1>1. Tail(s) \in Seq(S) /\ Len(Tail(s)) = 0
  OBVIOUS
<1> QED
  BY <1>1, EmptySeq

LEMMA Apart == \A ch : /\ TxBit(ch) # RxBit(ch) /\ BitsOf(ch) = {TxBit(ch), RxBit(ch)}
  BY DEF TxBit, RxBit, BitsOf

LEMMA OneInit == Init => \A ch \in Ch : Wakes(ch) /\ Listens(ch)
  BY DEF Init, Wakes, Listens, Context, ResetAt, Drained, Covered

(* Steps of the handler, in either context.                                *)

LEMMA OneTxTest ==
    ASSUME NEW x \in Context, NEW ch \in Ch, Chan(x) = ch, One(ch), TxTest(x)
    PROVE  Wakes(ch)' /\ Listens(ch)'
<1> USE Fg DEF One, Wakes, Listens, Covered, Drained, TxReady, ResetAt
<1>1. /\ Goto(x, "txTest", IF TxReady(ch) THEN "txPop" ELSE "rxTest")
      /\ UNCHANGED <<txbuf, imr, hwImr, on, busy, reg>>
  BY DEF TxTest, queues, hw
<1>2. /\ pc[x] = "txTest" /\ pc'[x] = IF TxReady(ch) THEN "txPop" ELSE "rxTest"
      /\ \A y \in Context \ {x} : pc'[y] = pc[y]
      /\ x = "fg" => pc["irq"] = "off" /\ pc'["irq"] = "off"
  BY <1>1, GoesTo DEF Types, Place, HandlerAt
<1>3. CASE x = "fg"
  BY <1>1, <1>2, <1>3
<1>4. CASE x = "irq"
  BY <1>1, <1>2, <1>4
<1> QED
  BY <1>3, <1>4 DEF Context

LEMMA OneTxPop ==
    ASSUME NEW x \in Context, NEW ch \in Ch, Chan(x) = ch, One(ch), TxPop(x)
    PROVE  Wakes(ch)' /\ Listens(ch)'
<1> USE Fg DEF One, Wakes, Listens, Covered, Drained, TxReady, ResetAt
<1> DEFINE s == txbuf[ch]
           to == IF s = <<>> THEN "clearLoad" ELSE "txStatus"
<1>1. /\ Goto(x, "txPop", to) /\ UNCHANGED <<imr, hwImr, on, busy, reg>>
      /\ txbuf' = IF s = <<>> THEN txbuf ELSE [txbuf EXCEPT ![ch] = Tail(s)]
  BY DEF TxPop, queues, hw
<1>2. /\ pc[x] = "txPop" /\ pc'[x] = to
      /\ \A y \in Context \ {x} : pc'[y] = pc[y]
      /\ x = "fg" => pc["irq"] = "off" /\ pc'["irq"] = "off"
  BY <1>1, GoesTo DEF Types, Place, HandlerAt
<1>3. txbuf'[ch] = IF s = <<>> THEN <<>> ELSE Tail(s)
  BY <1>1 DEF Types, TypesQueue
<1>4. Len(s) = 1 => Tail(s) = <<>>
  <2>1. s \in Seq(1..MaxTx)
    BY DEF Types, TypesQueue
  <2> QED
    BY <2>1, LastOne
<1> HIDE DEF s
<1>5. CASE x = "fg"
  BY <1>1, <1>2, <1>3, <1>4, <1>5 DEF s
<1>6. CASE x = "irq"
  BY <1>1, <1>2, <1>3, <1>4, <1>6 DEF s
<1> QED
  BY <1>5, <1>6 DEF Context

LEMMA OneClear ==
    ASSUME NEW x \in Context, NEW ch \in Ch, Chan(x) = ch, One(ch), Clear(x)
    PROVE  Wakes(ch)' /\ Listens(ch)'
<1> USE Fg, Apart DEF One, Wakes, Listens, Covered, Drained, TxReady, ResetAt
<1>1. CASE ClearLoad(x)
  <2>1. /\ Goto(x, "clearLoad", "clearStore") /\ reg'[x] = imr \ {TxBit(ch)}
        /\ \A y \in Context \ {x} : reg'[y] = reg[y]
        /\ UNCHANGED <<txbuf, imr, hwImr, on, busy>>
    BY <1>1 DEF ClearLoad, queues, hw, Types, TypesReg, TxBit
  <2>2. /\ pc[x] = "clearLoad" /\ pc'[x] = "clearStore"
        /\ \A y \in Context \ {x} : pc'[y] = pc[y]
        /\ x = "fg" => pc["irq"] = "off" /\ pc'["irq"] = "off"
    BY <2>1, GoesTo DEF Types, Place, HandlerAt
  <2>3. CASE x = "fg"
    BY <2>1, <2>2, <2>3
  <2>4. CASE x = "irq"
    BY <2>1, <2>2, <2>4
  <2> QED
    BY <2>3, <2>4 DEF Context
<1>2. CASE StoreImr(x, "clearStore", "clearHw")
  <2>1. /\ Goto(x, "clearStore", "clearHw") /\ imr' = reg[x]
        /\ UNCHANGED <<txbuf, hwImr, on, busy, reg>>
    BY <1>2 DEF StoreImr, queues, hw
  <2>2. /\ pc[x] = "clearStore" /\ pc'[x] = "clearHw"
        /\ \A y \in Context \ {x} : pc'[y] = pc[y]
        /\ x = "fg" => pc["irq"] = "off" /\ pc'["irq"] = "off"
    BY <2>1, GoesTo DEF Types, Place, HandlerAt
  <2>3. CASE x = "fg"
    BY <2>1, <2>2, <2>3
  <2>4. CASE x = "irq"
    BY <2>1, <2>2, <2>4
  <2> QED
    BY <2>3, <2>4 DEF Context
<1>3. CASE WriteHwImr(x, "clearHw", "rxTest")
  <2>1. /\ Goto(x, "clearHw", "rxTest") /\ hwImr' = reg[x]
        /\ \A y \in Context \ {x} : reg'[y] = reg[y]
        /\ UNCHANGED <<txbuf, imr, on, busy>>
    BY <1>3 DEF WriteHwImr, queues, hw, Types, TypesReg
  <2>2. /\ pc[x] = "clearHw" /\ pc'[x] = "rxTest"
        /\ \A y \in Context \ {x} : pc'[y] = pc[y]
        /\ x = "fg" => pc["irq"] = "off" /\ pc'["irq"] = "off"
    BY <2>1, GoesTo DEF Types, Place, HandlerAt
  <2>3. CASE x = "fg"
    BY <2>1, <2>2, <2>3
  <2>4. CASE x = "irq"
    BY <2>1, <2>2, <2>4
  <2> QED
    BY <2>3, <2>4 DEF Context
<1> QED
  BY <1>1, <1>2, <1>3 DEF Clear

LEMMA OneTxStatus ==
    ASSUME NEW x \in Context, NEW ch \in Ch, Chan(x) = ch, One(ch), TxStatus(x)
    PROVE  Wakes(ch)' /\ Listens(ch)'
<1> USE Fg DEF One, Wakes, Listens, Covered, Drained, TxReady, ResetAt
<1>1. /\ Goto(x, "txStatus", "txWrite") /\ UNCHANGED <<txbuf, imr, hwImr, on, busy, reg>>
  BY DEF TxStatus, queues, hw
<1>2. /\ pc[x] = "txStatus" /\ pc'[x] = "txWrite"
      /\ \A y \in Context \ {x} : pc'[y] = pc[y]
      /\ x = "fg" => pc["irq"] = "off" /\ pc'["irq"] = "off"
  BY <1>1, GoesTo DEF Types, Place, HandlerAt
<1>3. CASE x = "fg"
  BY <1>1, <1>2, <1>3
<1>4. CASE x = "irq"
  BY <1>1, <1>2, <1>4
<1> QED
  BY <1>3, <1>4 DEF Context

LEMMA OneTxWrite ==
    ASSUME NEW x \in Context, NEW ch \in Ch, Chan(x) = ch, One(ch), TxWrite(x)
    PROVE  Wakes(ch)' /\ Listens(ch)'
<1> USE Fg DEF One, Wakes, Listens, Covered, Drained, TxReady, ResetAt
<1>1. /\ Goto(x, "txWrite", "rxTest") /\ UNCHANGED <<txbuf, imr, hwImr, on, reg>>
  BY DEF TxWrite, queues
<1>2. /\ pc[x] = "txWrite" /\ pc'[x] = "rxTest"
      /\ \A y \in Context \ {x} : pc'[y] = pc[y]
      /\ x = "fg" => pc["irq"] = "off" /\ pc'["irq"] = "off"
  BY <1>1, GoesTo DEF Types, Place, HandlerAt
<1>3. CASE x = "fg"
  BY <1>1, <1>2, <1>3
<1>4. CASE x = "irq"
  BY <1>1, <1>2, <1>4
<1> QED
  BY <1>3, <1>4 DEF Context

LEMMA OneRx ==
    ASSUME NEW x \in Context, NEW ch \in Ch, Chan(x) = ch, AfterChannel(x) = Finished(x), One(ch),
           RxTest(x) \/ RxStatus(x) \/ RxRead(x) \/ RxPush(x)
    PROVE  Wakes(ch)' /\ Listens(ch)'
<1> USE Fg DEF One, Wakes, Listens, Covered, Drained, TxReady, ResetAt
<1>1. PICK from \in {"rxTest", "rxStatus", "rxRead", "rxPush"},
           to \in {"rxStatus", "rxRead", "rxPush", Finished(x)} :
        Goto(x, from, to) /\ UNCHANGED <<txbuf, imr, hwImr, on, busy, reg>>
  BY DEF RxTest, RxStatus, RxRead, RxPush, queues, hw
<1>2. to \in Place
  BY <1>1, Places DEF Place, HandlerAt
<1>3. /\ pc[x] = from /\ pc'[x] = to
      /\ \A y \in Context \ {x} : pc'[y] = pc[y]
      /\ x = "fg" => pc["irq"] = "off" /\ pc'["irq"] = "off"
  BY <1>1, <1>2, GoesTo DEF Types
<1>4. CASE x = "fg"
  <2>1. to \in {"rxStatus", "rxRead", "rxPush", "idle"}
    BY <1>1, <1>4 DEF Finished
  <2> QED
    BY <1>1, <1>3, <1>4, <2>1
<1>5. CASE x = "irq"
  <2>1. to \in {"rxStatus", "rxRead", "rxPush", "off"}
    BY <1>1, <1>5, Fg DEF Finished
  <2> QED
    BY <1>1, <1>3, <1>5, <2>1
<1> QED
  BY <1>4, <1>5 DEF Context

-----------------------------------------------------------------------------
(* The foreground outside the handler, which is not running then.          *)
LEMMA OneSetTx ==
    ASSUME NEW ch \in Ch, Chan("fg") = ch, One(ch), SetTx
    PROVE  Wakes(ch)' /\ Listens(ch)'
<1> USE Fg, Apart DEF One, Wakes, Listens, Covered, Drained, TxReady, ResetAt
<1>1. CASE SetLoad
  <2>1. /\ Goto("fg", "setLoad", "setStore") /\ reg'["fg"] = imr \union {TxBit(ch)}
        /\ UNCHANGED <<txbuf, imr, hwImr, on, busy>>
    BY <1>1 DEF SetLoad, queues, hw, Types, TypesReg, TxBit
  <2>2. pc["fg"] = "setLoad" /\ pc'["fg"] = "setStore" /\ pc["irq"] = "off" /\ pc'["irq"] = "off"
    BY <2>1, GoesTo DEF Types, Place, WriteAt
  <2> QED
    BY <2>1, <2>2
<1>2. CASE StoreImr("fg", "setStore", "setHw")
  <2>1. /\ Goto("fg", "setStore", "setHw") /\ imr' = reg["fg"]
        /\ UNCHANGED <<txbuf, hwImr, on, busy, reg>>
    BY <1>2 DEF StoreImr, queues, hw
  <2>2. pc["fg"] = "setStore" /\ pc'["fg"] = "setHw" /\ pc["irq"] = "off" /\ pc'["irq"] = "off"
    BY <2>1, GoesTo DEF Types, Place, WriteAt
  <2> QED
    BY <2>1, <2>2
<1>3. CASE WriteHwImr("fg", "setHw", "push")
  <2>1. /\ Goto("fg", "setHw", "push") /\ hwImr' = reg["fg"]
        /\ UNCHANGED <<txbuf, imr, on, busy>>
    BY <1>3 DEF WriteHwImr, queues, hw
  <2>2. pc["fg"] = "setHw" /\ pc'["fg"] = "push" /\ pc["irq"] = "off" /\ pc'["irq"] = "off"
    BY <2>1, GoesTo DEF Types, Place, WriteAt
  <2> QED
    BY <2>1, <2>2
<1> QED
  BY <1>1, <1>2, <1>3 DEF SetTx

LEMMA OneWritePush ==
    ASSUME NEW ch \in Ch, Chan("fg") = ch, One(ch), WritePush
    PROVE  Wakes(ch)' /\ Listens(ch)'
<1> USE Fg DEF One, Wakes, Listens, Covered, Drained, TxReady, ResetAt
<1>1. /\ Goto("fg", "push", "txTest") /\ UNCHANGED <<imr, hwImr, on, busy, reg>>
      /\ txbuf' = [txbuf EXCEPT ![ch] = Append(@, nTx)]
  BY DEF WritePush, hw
<1>2. pc["fg"] = "push" /\ pc'["fg"] = "txTest" /\ pc["irq"] = "off" /\ pc'["irq"] = "off"
  BY <1>1, GoesTo DEF Types, Place, HandlerAt
<1>3. txbuf'[ch] = Append(txbuf[ch], nTx) /\ (txbuf[ch] = <<>> => Len(txbuf'[ch]) = 1)
  BY <1>1 DEF Types, TypesQueue
<1> QED
  BY <1>1, <1>2, <1>3

LEMMA OneReset ==
    ASSUME NEW ch \in Ch, Chan("fg") = ch, One(ch), ResetFlush \/ ResetDevice
    PROVE  Wakes(ch)' /\ Listens(ch)'
<1> USE Fg DEF One, Wakes, Listens, Covered, Drained, TxReady, ResetAt
<1>1. /\ UNCHANGED <<imr, hwImr, reg>>
      /\ \/ /\ Goto("fg", "flushTx", "flushRx") /\ txbuf' = [txbuf EXCEPT ![ch] = <<>>]
            /\ on' = on
         \/ /\ Goto("fg", "flushRx", "disable") /\ txbuf' = txbuf /\ on' = on
         \/ /\ Goto("fg", "disable", "resetRx") /\ txbuf' = txbuf /\ on' = on \ {ch}
         \/ /\ Goto("fg", "resetRx", "resetTx") /\ txbuf' = txbuf /\ on' = on
         \/ /\ Goto("fg", "resetTx", "maskLoad") /\ txbuf' = txbuf /\ on' = on
  BY DEF ResetFlush, ResetDevice, queues, hw
<1>2. PICK from \in ResetAt, to \in ResetAt : Goto("fg", from, to)
  BY <1>1
<1>3. pc["fg"] = from /\ pc'["fg"] = to /\ pc["irq"] = "off" /\ pc'["irq"] = "off"
  BY <1>2, Places, GoesTo DEF Types
<1>4. \/ pc["fg"] = "flushTx" /\ pc'["fg"] = "flushRx" /\ on' = on /\ txbuf'[ch] = <<>>
      \/ /\ txbuf'[ch] = txbuf[ch]
         /\ \/ pc["fg"] = "flushRx" /\ pc'["fg"] = "disable" /\ on' = on
            \/ pc["fg"] = "disable" /\ pc'["fg"] = "resetRx" /\ ch \notin on'
            \/ pc["fg"] = "resetRx" /\ pc'["fg"] = "resetTx" /\ on' = on
            \/ pc["fg"] = "resetTx" /\ pc'["fg"] = "maskLoad" /\ on' = on
  BY <1>1 DEF Goto, Types, TypesQueue, TypesPlace
<1> QED
  BY <1>1, <1>3, <1>4

LEMMA OneMask ==
    ASSUME NEW ch \in Ch, Chan("fg") = ch, One(ch), ResetMask \/ BadParam
    PROVE  Wakes(ch)' /\ Listens(ch)'
<1> USE Fg DEF One, Wakes, Listens, Covered, Drained, TxReady, ResetAt
<1>1. PICK from \in ResetAt, to \in ResetAt \union {"idle"} : Goto("fg", from, to)
  BY DEF ResetMask, StoreImr, BadParam
<1>2. pc["fg"] = from /\ pc'["fg"] = to /\ pc["irq"] = "off" /\ pc'["irq"] = "off"
  BY <1>1, Places, GoesTo DEF Types, Place
<1>3. /\ UNCHANGED <<txbuf, on, hwImr>>
      /\ \/ pc["fg"] = "maskLoad" /\ pc'["fg"] = "maskStore" /\ imr' = imr
         \/ pc["fg"] = "maskStore" /\ pc'["fg"] = "check"
         \/ pc["fg"] = "check" /\ pc'["fg"] = "idle" /\ imr' = imr
  BY DEF ResetMask, StoreImr, BadParam, Goto, Types, TypesPlace, queues, hw
<1> QED
  BY <1>2, <1>3

LEMMA OneListen ==
    ASSUME NEW ch \in Ch, Chan("fg") = ch, One(ch), Listen \/ Enable
    PROVE  Wakes(ch)' /\ Listens(ch)'
<1> USE Fg DEF One, Wakes, Listens, Covered, Drained, TxReady, ResetAt
<1>1. PICK from \in ResetAt, to \in ResetAt \union {"idle"} : Goto("fg", from, to)
  BY DEF Listen, ListenLoad, StoreImr, WriteHwImr, Enable
<1>2. pc["fg"] = from /\ pc'["fg"] = to /\ pc["irq"] = "off" /\ pc'["irq"] = "off"
  BY <1>1, Places, GoesTo DEF Types, Place
<1>3. /\ UNCHANGED txbuf
      /\ \/ /\ pc["fg"] = "check" /\ pc'["fg"] = "listenStore" /\ UNCHANGED <<imr, hwImr, on>>
            /\ RxBit(ch) \in reg'["fg"]
         \/ /\ pc["fg"] = "listenStore" /\ pc'["fg"] = "listenHw"
            /\ imr' = reg["fg"] /\ UNCHANGED <<reg, hwImr, on>>
         \/ /\ pc["fg"] = "listenHw" /\ pc'["fg"] = "enable"
            /\ hwImr' = reg["fg"] /\ UNCHANGED <<imr, on>>
         \/ pc["fg"] = "enable" /\ pc'["fg"] = "idle" /\ UNCHANGED <<imr, hwImr>>
  BY DEF Listen, ListenLoad, StoreImr, WriteHwImr, Enable, Goto, Types, TypesPlace, TypesReg,
         queues, hw, RxBit
<1> QED
  BY <1>2, <1>3

LEMMA OneReadPop == ASSUME NEW ch \in Ch, One(ch), ReadPop PROVE Wakes(ch)' /\ Listens(ch)'
<1>1. Goto("fg", "pop", "idle") /\ UNCHANGED <<txbuf, imr, hwImr, on, busy, reg>>
  BY DEF ReadPop, hw
<1>2. pc["fg"] = "pop" /\ pc'["fg"] = "idle" /\ pc["irq"] = "off" /\ pc'["irq"] = "off"
  BY <1>1, Fg, GoesTo DEF One, Types, Place
<1> QED
  BY <1>1, <1>2, Fg DEF One, Wakes, Listens, Covered, Drained, TxReady, ResetAt

LEMMA OneCall == ASSUME NEW ch \in Ch, One(ch), Call PROVE Wakes(ch)' /\ Listens(ch)'
<1> USE Fg DEF One, Wakes, Listens, Covered, Drained, TxReady, ResetAt
<1>1. ASSUME NEW i \in 1..Len(Chans), Write(i) \/ Read(i) \/ SetParam(i)
      PROVE  Wakes(ch)' /\ Listens(ch)'
  <2>1. UNCHANGED <<txbuf, imr, hwImr, on, busy, reg>>
    BY <1>1 DEF Write, Read, SetParam, queues, hw
  <2>2. PICK to \in {"setLoad", "pop", "flushTx"} : Goto("fg", "idle", to)
    BY <1>1 DEF Write, Read, SetParam
  <2>3. pc["fg"] = "idle" /\ pc'["fg"] = to /\ pc["irq"] = "off" /\ pc'["irq"] = "off"
    BY <2>2, GoesTo DEF Types, Place, WriteAt
  <2> QED
    BY <2>1, <2>2, <2>3
<1>2. ASSUME NEW c \in Ch, FlushTx(c) \/ FlushRx(c) PROVE Wakes(ch)' /\ Listens(ch)'
  <2>1. UNCHANGED <<imr, hwImr, on, busy, pc, reg>> /\ pc["fg"] = "idle" /\ pc["irq"] = "off"
    BY <1>2 DEF FlushTx, FlushRx, hw, cpu, Running
  <2>2. txbuf'[ch] = txbuf[ch] \/ txbuf'[ch] = <<>>
    BY <1>2 DEF FlushTx, FlushRx, Types, TypesQueue
  <2> QED
    BY <2>1, <2>2
<1> QED
  BY <1>1, <1>2 DEF Call

LEMMA OneDevice ==
    ASSUME NEW ch \in Ch, One(ch),
           Interrupt \/ \E c \in Ch : TxDone(c) \/ \E err \in LineErrors : Receive(c, err)
    PROVE  Wakes(ch)' /\ Listens(ch)'
<1> USE Fg DEF One, Wakes, Listens, Covered, Drained, TxReady, ResetAt
<1>1. CASE Interrupt
  <2>1. /\ pc["irq"] = "off" /\ pc'["irq"] = "txTest" /\ pc'["fg"] = pc["fg"]
        /\ UNCHANGED <<txbuf, imr, hwImr, on, busy, reg>>
    BY <1>1 DEF Interrupt, queues, hw, Types, TypesPlace
  <2> QED
    BY <2>1
<1>2. ASSUME NEW c \in Ch, TxDone(c) PROVE Wakes(ch)' /\ Listens(ch)'
  <2>1. UNCHANGED <<txbuf, imr, hwImr, on, pc, reg>> /\ (busy'[ch] = busy[ch] \/ busy'[ch] = FALSE)
    BY <1>2 DEF TxDone, queues, cpu, Types, TypesReg
  <2> QED
    BY <2>1
<1>3. ASSUME NEW c \in Ch, NEW err \in LineErrors, Receive(c, err) PROVE Wakes(ch)' /\ Listens(ch)'
  BY <1>3 DEF Receive, queues, cpu
<1> QED
  BY <1>1, <1>2, <1>3

LEMMA OneNext ==
    ASSUME Len(Chans) = 1, NEW ch \in Ch, One(ch), [Next]_vars
    PROVE  Wakes(ch)' /\ Listens(ch)'
<1>1. \A x \in Context : Chan(x) = ch /\ AfterChannel(x) = Finished(x)
  BY Only DEF One, Types
<1>2. CASE UNCHANGED vars
  BY <1>2 DEF vars, queues, hw, cpu, One, Wakes, Listens, Covered, Drained, TxReady
<1>3. CASE Handler("fg") \/ Handler("irq")
  BY <1>1, <1>3, Fg, OneTxTest, OneTxPop, OneClear, OneTxStatus, OneTxWrite, OneRx DEF Handler
<1>4. CASE Call \/ Foreground \/ Interrupt
             \/ \E c \in Ch : TxDone(c) \/ \E err \in LineErrors : Receive(c, err)
  BY <1>1, <1>3, <1>4, Fg, OneCall, OneDevice, OneSetTx, OneWritePush, OneReadPop, OneReset,
     OneMask, OneListen DEF Foreground
<1> QED
  BY <1>2, <1>3, <1>4 DEF Next

LEMMA OneInductive ==
    ASSUME Len(Chans) = 1
    PROVE  Spec => [](\A ch \in Ch : One(ch))
<1>1. Init => \A ch \in Ch : One(ch)
  BY TypesInit, OneInit DEF One
<1>2. IInv /\ (\A ch \in Ch : One(ch)) /\ [Next]_vars => (\A ch \in Ch : One(ch))'
  BY OneNext, TypesNext DEF One, IInv
<1> QED
  BY <1>1, <1>2, Inductive, PTL DEF Spec

(* With one channel, as main.c sets it up, a byte write_byte has left in   *)
(* the transmit ring has its interrupt unmasked in the device and in       *)
(* param->imr: no order of write_byte, the handler it calls and the        *)
(* interrupt masks it for good.                                            *)
THEOREM ByteIsFetched == ASSUME Len(Chans) = 1 PROVE Spec => []TxWakeup
<1>1. (\A ch \in Ch : One(ch)) => TxWakeup
  BY DEF One, Wakes, Covered, TxBit, TxWakeup
<1> QED
  BY <1>1, OneInductive, PTL

(* With one channel, an enabled receiver has its interrupt unmasked in the *)
(* device, whatever the handler and write_byte store to the mask.          *)
THEOREM ReceiverUnmasked == ASSUME Len(Chans) = 1 PROVE Spec => []RxListens
<1>1. IInv /\ (\A ch \in Ch : One(ch)) => RxListens
  BY DEF One, Listens, RxBit, RxListens, IInv, Types, TypesReg
<1> QED
  BY <1>1, Inductive, OneInductive, PTL
=============================================================================
