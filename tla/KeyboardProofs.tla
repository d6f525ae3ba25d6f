--------------------------- MODULE KeyboardProofs ---------------------------
(***************************************************************************)
(* Proofs about Keyboard, for a ring of every size, any keys, any number   *)
(* of them held together and any number of calls.  ModifiersAgree holds    *)
(* of keyboards without a right control and a right alt key, whose         *)
(* releases the driver does not see.                                       *)
(***************************************************************************)
EXTENDS Keyboard, SequenceTheorems, TLAPS

-----------------------------------------------------------------------------
(* What process_keystroke makes of the codes it has yet to see: a run of   *)
(* it over codes p, without the calls, from its state a (the sequence it   *)
(* has, kbd_state, and the characters that are still to be typed in) to b. *)

Bits == {"SHIFT", "LSHIFT", "RSHIFT", "CTRL", "LCTRL", "RCTRL", "ALT", "LALT", "RALT",
         "CAPSLOCK", "NUMLOCK", "SCROLLLOCK", "INSERT"}
Machine == [seq : Seq(Code), bits : SUBSET Bits, out : Seq(Character)]

ShiftedIn(bits) == ~("CAPSLOCK" \in bits <=> "SHIFT" \in bits)
CharIn(s, bits) ==
    IF s = MakeCode["a"] THEN Table["a"][IF ShiftedIn(bits) THEN 2 ELSE 1]
    ELSE IF s = MakeCode["one"] THEN Table["one"][IF ShiftedIn(bits) THEN 2 ELSE 1]
    ELSE IF s = MakeCode["slash"] THEN "/" ELSE NoChar

(* One code more, as in NextCode; a character must be the next one typed.  *)
Turn(a, c, b) ==
    LET s == Append(a.seq, c) IN
    \/ /\ More(s)
       /\ b.seq = s /\ b.bits = a.bits /\ b.out = a.out
    \/ /\ ~More(s) /\ CharIn(s, a.bits) = NoChar
       /\ b.seq = <<>> /\ b.bits = Keystroke(s, a.bits) /\ b.out = a.out
    \/ /\ ~More(s) /\ CharIn(s, a.bits) # NoChar
       /\ a.out # <<>> /\ Head(a.out) = CharIn(s, a.bits)
       /\ b.seq = <<>> /\ b.bits = a.bits /\ b.out = Tail(a.out)

Runs(f, p) ==
    /\ f \in [0..Len(p) -> Machine]
    /\ \A i \in 1..Len(p) : Turn(f[i - 1], p[i], f[i])
Goes(p, a, b) == \E f : Runs(f, p) /\ f[0] = a /\ f[Len(p)] = b

-----------------------------------------------------------------------------
(* The inductive invariant.                                                *)

Types ==
    /\ held \subseteq Keys /\ locks \subseteq DOMAIN LockBit
    /\ typed \in Seq(Character)
    /\ wire \in Seq(Code) /\ kbbuf \in Seq(Code) /\ seq \in Seq(Code)
    /\ Len(kbbuf) <= Cap /\ (seq = <<>> \/ More(seq))
    /\ kbdState \subseteq Bits
    /\ got \in Character \union {NoChar} /\ want \in Character \union {NoChar}
    /\ reading \in BOOLEAN /\ lost \in BOOLEAN

LeftOnly == Keys \intersect {"rctrl", "ralt"} = {}

(* kbd_state says of each key what the typist says of it.                  *)
Agree(bits) ==
    /\ "LSHIFT" \in bits <=> "lshift" \in held
    /\ "RSHIFT" \in bits <=> "rshift" \in held
    /\ "SHIFT" \in bits <=> "lshift" \in held \/ "rshift" \in held
    /\ LeftOnly => /\ "CTRL" \in bits <=> "lctrl" \in held
                   /\ "ALT" \in bits <=> "lalt" \in held
    /\ "CAPSLOCK" \in bits <=> "caps" \in locks
    /\ "NUMLOCK" \in bits <=> "num" \in locks
    /\ "SCROLLLOCK" \in bits <=> "scroll" \in locks
    /\ "INSERT" \in bits <=> "insert" \in locks

(* Once the codes on their way have been processed, nothing is left of     *)
(* them and of what was typed, and kbd_state agrees with the typist.       *)
Pending == kbbuf \o wire
Now == [seq |-> seq, bits |-> kbdState, out |-> typed]
Rest(m) == m.seq = <<>> /\ m.out = <<>> /\ Agree(m.bits)
Arrives == \E m \in Machine : Goes(Pending, Now, m) /\ Rest(m)

Inv ==
    /\ Types
    /\ ~reading => seq = <<>>
    /\ ~lost => got = want /\ Arrives

-----------------------------------------------------------------------------
(* Runs: none, of one and two codes, one after another, and their first    *)
(* turn.                                                                   *)

LEMMA GoesNowhere == ASSUME NEW a \in Machine PROVE Goes(<<>>, a, a)
<1> DEFINE f == [i \in {0} |-> a]
<1>1. Len(<<>>) = 0
  OBVIOUS
<1>2. 0..Len(<<>>) = {0}
  BY <1>1
<1>3. Runs(f, <<>>) /\ f[0] = a
  BY <1>1, <1>2 DEF Runs
<1> QED
  BY <1>1, <1>3 DEF Goes

LEMMA GoesNone == ASSUME NEW a, NEW b, Goes(<<>>, a, b) PROVE a = b
<1>1. Len(<<>>) = 0
  OBVIOUS
<1> QED
  BY <1>1 DEF Goes

LEMMA GoesOne ==
    ASSUME NEW a \in Machine, NEW b \in Machine, NEW c \in Code, Turn(a, c, b)
    PROVE  Goes(<<c>>, a, b)
<1> DEFINE f == [i \in 0..1 |-> IF i = 0 THEN a ELSE b]
<1>1. Len(<<c>>) = 1 /\ <<c>>[1] = c
  OBVIOUS
<1>2. f \in [0..1 -> Machine] /\ f[0] = a /\ f[1] = b
  OBVIOUS
<1> HIDE DEF f
<1>3. \A i \in 1..1 : i = 1
  OBVIOUS
<1>4. Runs(f, <<c>>)
  BY <1>1, <1>2, <1>3 DEF Runs
<1> QED
  BY <1>1, <1>2, <1>4 DEF Goes

LEMMA GoesThrough ==
    ASSUME NEW p \in Seq(Code), NEW q \in Seq(Code), NEW a, NEW b, NEW d,
           Goes(p, a, b), Goes(q, b, d)
    PROVE  Goes(p \o q, a, d)
<1>1. PICK f : Runs(f, p) /\ f[0] = a /\ f[Len(p)] = b
  BY DEF Goes
<1>2. PICK g : Runs(g, q) /\ g[0] = b /\ g[Len(q)] = d
  BY DEF Goes
<1> DEFINE n == Len(p)
           h == [i \in 0..n + Len(q) |-> IF i <= n THEN f[i] ELSE g[i - n]]
<1>3. n \in Nat /\ Len(q) \in Nat /\ Len(p \o q) = n + Len(q)
      /\ \A i \in 1..n + Len(q) : (p \o q)[i] = IF i <= n THEN p[i] ELSE q[i - n]
  BY ConcatProperties, LenProperties
<1>4. h \in [0..n + Len(q) -> Machine]
  <2>1. ASSUME NEW i \in 0..n + Len(q) PROVE (IF i <= n THEN f[i] ELSE g[i - n]) \in Machine
    <3>1. CASE i <= n
      <4>1. i \in 0..Len(p)
        BY <1>3, <3>1
      <4> QED
        BY <1>1, <3>1, <4>1 DEF Runs
    <3>2. CASE i > n
      <4>1. i - n \in 0..Len(q) /\ ~(i <= n)
        BY <1>3, <3>2
      <4> QED
        BY <1>2, <4>1 DEF Runs
    <3> QED
      BY <1>3, <3>1, <3>2
  <2> QED
    BY <2>1
<1>5. \A i \in 0..n + Len(q) : h[i] = IF i <= n THEN f[i] ELSE g[i - n]
  OBVIOUS
<1> HIDE DEF h
<1>6. ASSUME NEW i \in 1..n + Len(q) PROVE Turn(h[i - 1], (p \o q)[i], h[i])
  <2>1. CASE i <= n
    <3>1. h[i - 1] = f[i - 1] /\ h[i] = f[i] /\ (p \o q)[i] = p[i] /\ i \in 1..n
      BY <1>3, <1>5, <2>1
    <3> QED
      BY <1>1, <3>1 DEF Runs
  <2>2. CASE i > n
    <3>1. h[i - 1] = g[(i - n) - 1]
      BY <1>1, <1>2, <1>3, <1>5, <2>2
    <3>2. h[i] = g[i - n] /\ (p \o q)[i] = q[i - n] /\ i - n \in 1..Len(q)
      BY <1>3, <1>5, <2>2
    <3> QED
      BY <1>2, <3>1, <3>2 DEF Runs
  <2> QED
    BY <1>3, <2>1, <2>2
<1>7. h[0] = a
  BY <1>1, <1>3, <1>5
<1>8. h[n + Len(q)] = d
  BY <1>1, <1>2, <1>3, <1>5
<1>9. Runs(h, p \o q)
  BY <1>3, <1>4, <1>6 DEF Runs
<1> QED
  BY <1>3, <1>7, <1>8, <1>9 DEF Goes

LEMMA GoesFirst ==
    ASSUME NEW p \in Seq(Code), p # <<>>, NEW a, NEW b, Goes(p, a, b)
    PROVE  \E m \in Machine : Turn(a, Head(p), m) /\ Goes(Tail(p), m, b)
<1>1. PICK f : Runs(f, p) /\ f[0] = a /\ f[Len(p)] = b
  BY DEF Goes
<1>2. /\ Len(p) \in Nat \ {0} /\ Head(p) = p[1] /\ Tail(p) \in Seq(Code)
      /\ Len(Tail(p)) = Len(p) - 1
      /\ \A i \in 1..Len(p) - 1 : Tail(p)[i] = p[i + 1]
  <2>1. Len(p) \in Nat \ {0}
    BY EmptySeq
  <2>2. /\ Tail(p) \in Seq(Code) /\ Len(Tail(p)) = Len(p) - 1
        /\ \A i \in 1..Len(Tail(p)) : Tail(p)[i] = p[i + 1]
    BY HeadTailProperties
  <2>3. Head(p) = p[1]
    OBVIOUS
  <2> QED
    BY <2>1, <2>2, <2>3
<1> DEFINE g == [i \in 0..Len(p) - 1 |-> f[i + 1]]
<1>3. g \in [0..Len(p) - 1 -> Machine]
  BY <1>1, <1>2 DEF Runs
<1>4. \A i \in 0..Len(p) - 1 : g[i] = f[i + 1]
  OBVIOUS
<1> HIDE DEF g
<1>5. ASSUME NEW i \in 1..Len(p) - 1 PROVE Turn(g[i - 1], Tail(p)[i], g[i])
  <2>1. /\ i - 1 \in 0..Len(p) - 1 /\ i \in 0..Len(p) - 1 /\ (i - 1) + 1 = i
        /\ i + 1 \in 1..Len(p) /\ (i + 1) - 1 = i
    BY <1>2
  <2>2. g[i - 1] = f[i] /\ g[i] = f[i + 1] /\ Tail(p)[i] = p[i + 1]
    BY <1>2, <1>4, <2>1
  <2>3. Turn(f[(i + 1) - 1], p[i + 1], f[i + 1])
    BY <1>1, <2>1 DEF Runs
  <2> QED
    BY <2>1, <2>2, <2>3
<1>6. Runs(g, Tail(p))
  BY <1>2, <1>3, <1>5 DEF Runs
<1>7. g[0] = f[1] /\ g[Len(p) - 1] = b /\ f[1] \in Machine
  BY <1>1, <1>2, <1>4 DEF Runs
<1>8. Turn(a, Head(p), f[1])
  <2>1. 1 \in 1..Len(p) /\ 1 - 1 = 0
    BY <1>2
  <2>2. Turn(f[1 - 1], p[1], f[1])
    BY <1>1, <2>1 DEF Runs
  <2> QED
    BY <1>1, <1>2, <2>1, <2>2
<1> QED
  BY <1>2, <1>6, <1>7, <1>8 DEF Goes

(* With one character more to come, a run is the same, and leaves it.      *)
Owing(m, ch) == [seq |-> m.seq, bits |-> m.bits, out |-> Append(m.out, ch)]

LEMMA Owed ==
    ASSUME NEW m \in Machine, NEW ch \in Character
    PROVE  /\ Owing(m, ch) \in Machine /\ Owing(m, ch).seq = m.seq
           /\ Owing(m, ch).bits = m.bits /\ Owing(m, ch).out = Append(m.out, ch)
  BY DEF Owing, Machine

LEMMA TurnOwing ==
    ASSUME NEW a \in Machine, NEW b \in Machine, NEW c, NEW ch \in Character, Turn(a, c, b)
    PROVE  Turn(Owing(a, ch), c, Owing(b, ch))
<1>1. a.out \in Seq(Character) /\ b.out \in Seq(Character)
  BY DEF Machine
<1>2. PICK x, y : x = Owing(a, ch) /\ y = Owing(b, ch)
  OBVIOUS
<1>3. /\ x.seq = a.seq /\ x.bits = a.bits /\ x.out = Append(a.out, ch)
      /\ y.seq = b.seq /\ y.bits = b.bits /\ y.out = Append(b.out, ch)
  BY <1>2, Owed
<1>4. a.out # <<>> => /\ x.out # <<>> /\ Head(x.out) = Head(a.out)
                      /\ Tail(x.out) = Append(Tail(a.out), ch)
  BY <1>1, <1>3, HeadTailAppend, AppendProperties
<1>5. Turn(x, c, y)
  <2>1. PICK s : s = Append(a.seq, c)
    OBVIOUS
  <2>2. \/ More(s) /\ b.seq = s /\ b.bits = a.bits /\ b.out = a.out
        \/ /\ ~More(s) /\ CharIn(s, a.bits) = NoChar
           /\ b.seq = <<>> /\ b.bits = Keystroke(s, a.bits) /\ b.out = a.out
        \/ /\ ~More(s) /\ CharIn(s, a.bits) # NoChar
           /\ a.out # <<>> /\ Head(a.out) = CharIn(s, a.bits)
           /\ b.seq = <<>> /\ b.bits = a.bits /\ b.out = Tail(a.out)
    BY <2>1, Zenon DEF Turn
  <2>3. \/ More(s) /\ y.seq = s /\ y.bits = x.bits /\ y.out = x.out
        \/ /\ ~More(s) /\ CharIn(s, x.bits) = NoChar
           /\ y.seq = <<>> /\ y.bits = Keystroke(s, x.bits) /\ y.out = x.out
        \/ /\ ~More(s) /\ CharIn(s, x.bits) # NoChar
           /\ x.out # <<>> /\ Head(x.out) = CharIn(s, x.bits)
           /\ y.seq = <<>> /\ y.bits = x.bits /\ y.out = Tail(x.out)
    BY <1>3, <1>4, <2>2
  <2> QED
    BY <1>3, <2>1, <2>3, Zenon DEF Turn
<1> QED
  BY <1>2, <1>5

LEMMA GoesOwing ==
    ASSUME NEW p \in Seq(Code), NEW a, NEW b, NEW ch \in Character, Goes(p, a, b)
    PROVE  Goes(p, Owing(a, ch), Owing(b, ch))
<1>1. PICK f : Runs(f, p) /\ f[0] = a /\ f[Len(p)] = b
  BY DEF Goes
<1>2. Len(p) \in Nat
  BY LenProperties
<1> DEFINE g == [i \in 0..Len(p) |-> Owing(f[i], ch)]
<1>3. g \in [0..Len(p) -> Machine]
  BY <1>1, Owed DEF Runs
<1>4. \A i \in 0..Len(p) : g[i] = Owing(f[i], ch)
  OBVIOUS
<1> HIDE DEF g
<1>5. ASSUME NEW i \in 1..Len(p) PROVE Turn(g[i - 1], p[i], g[i])
  <2>1. i - 1 \in 0..Len(p) /\ i \in 0..Len(p)
    BY <1>2
  <2>2. f[i - 1] \in Machine /\ f[i] \in Machine /\ Turn(f[i - 1], p[i], f[i])
    BY <1>1, <2>1 DEF Runs
  <2>3. Turn(Owing(f[i - 1], ch), p[i], Owing(f[i], ch))
    BY <2>2, TurnOwing
  <2> QED
    BY <1>4, <2>1, <2>3
<1>6. Runs(g, p)
  BY <1>3, <1>5 DEF Runs
<1>7. g[0] = Owing(a, ch) /\ g[Len(p)] = Owing(b, ch)
  BY <1>1, <1>2, <1>4
<1> QED
  BY <1>6, <1>7 DEF Goes

-----------------------------------------------------------------------------
(* Codes: which sequences are whole, and what they do to kbd_state.        *)

KeyNames == {"lshift", "rshift", "lctrl", "rctrl", "lalt", "ralt", "caps", "num", "scroll",
             "insert", "pause", "one", "a", "slash", "up"}

LEMMA Named == Keys \subseteq KeyNames /\ DOMAIN LockBit = {"caps", "num", "scroll", "insert"}
  BY KeysAssumption DEF MakeCode, KeyNames, LockBit

LEMMA Makes ==
    /\ MakeCode["lshift"] = <<42>> /\ MakeCode["rshift"] = <<54>>
    /\ MakeCode["lctrl"] = <<29>> /\ MakeCode["rctrl"] = <<224, 29>>
    /\ MakeCode["lalt"] = <<56>> /\ MakeCode["ralt"] = <<224, 56>>
    /\ MakeCode["caps"] = <<58>> /\ MakeCode["num"] = <<69>> /\ MakeCode["scroll"] = <<70>>
    /\ MakeCode["insert"] = <<224, 82>> /\ MakeCode["pause"] = Pause
    /\ MakeCode["one"] = <<2>> /\ MakeCode["a"] = <<30>> /\ MakeCode["slash"] = <<224, 53>> /\ MakeCode["up"] = <<224, 72>>
  BY DEF MakeCode

LEMMA Breaks ==
    /\ BreakCode("lshift") = <<170>> /\ BreakCode("rshift") = <<182>>
    /\ BreakCode("lctrl") = <<157>> /\ BreakCode("rctrl") = <<224, 157>>
    /\ BreakCode("lalt") = <<184>> /\ BreakCode("ralt") = <<224, 184>>
    /\ BreakCode("caps") = <<186>>
    /\ BreakCode("num") = <<197>>
    /\ BreakCode("scroll") = <<198>>
    /\ BreakCode("insert") = <<224, 210>> /\ BreakCode("pause") = <<>>
    /\ BreakCode("one") = <<130>>
    /\ BreakCode("a") = <<158>>
    /\ BreakCode("slash") = <<224, 181>>
    /\ BreakCode("up") = <<224, 200>>
  BY Makes DEF BreakCode

LEMMA WholeOne == ASSUME NEW c \in Code \ {224, 225} PROVE ~More(<<c>>)
  BY DEF More, IsStrictPrefix, IsPrefix, Pause

LEMMA WholeTwo == ASSUME NEW c \in Code PROVE ~More(<<224, c>>) /\ More(<<224>>)
  BY DEF More, IsStrictPrefix, IsPrefix, Pause

LEMMA WholePause ==
    /\ More(<<225>>) /\ More(<<225, 29>>) /\ More(<<225, 29, 69>>) /\ More(<<225, 29, 69, 225>>)
    /\ More(<<225, 29, 69, 225, 157>>) /\ ~More(Pause)
  BY DEF More, IsStrictPrefix, IsPrefix, Pause

LEMMA Shorter == ASSUME NEW s \in Seq(Code), More(s) PROVE Len(s) < Len(Pause)
<1>1. CASE s = <<224>>
  BY <1>1 DEF Pause
<1>2. CASE IsStrictPrefix(s, Pause)
  <2>1. Pause \in Seq(Code) /\ Len(Pause) = 6 /\ Len(s) \in Nat
    BY DEF Pause, Code
  <2>2. Len(s) <= 6 /\ s # Pause /\ SubSeq(s, 1, Len(s)) = SubSeq(Pause, 1, Len(s))
    BY <1>2, <2>1 DEF IsStrictPrefix, IsPrefix
  <2>3. Len(s) = 6 => s = Pause
    BY <2>1, <2>2, SubSeqFull
  <2> QED
    BY <2>1, <2>2, <2>3
<1> QED
  BY <1>1, <1>2 DEF More

LEMMA Strokes ==
    ASSUME NEW bits
    PROVE  /\ Keystroke(<<42>>, bits) = bits \union {"SHIFT", "LSHIFT"}
           /\ Keystroke(<<54>>, bits) = bits \union {"SHIFT", "RSHIFT"}
           /\ Keystroke(<<29>>, bits) = bits \union {"CTRL", "LCTRL"}
           /\ Keystroke(<<56>>, bits) = bits \union {"ALT", "LALT"}
           /\ Keystroke(<<58>>, bits) = SymDiff(bits, {"CAPSLOCK"})
           /\ Keystroke(<<69>>, bits) = SymDiff(bits, {"NUMLOCK"})
           /\ Keystroke(<<70>>, bits) = SymDiff(bits, {"SCROLLLOCK"})
           /\ Keystroke(<<224, 82>>, bits) = SymDiff(bits, {"INSERT"})
           /\ Keystroke(<<224, 56>>, bits) = bits \union {"ALT", "RALT"}
           /\ Keystroke(<<224, 29>>, bits) = bits \union {"CTRL", "RCTRL"}
           /\ Keystroke(<<170>>, bits) = SideUp(bits, "LSHIFT")
           /\ Keystroke(<<182>>, bits) = SideUp(bits, "RSHIFT")
           /\ Keystroke(<<157>>, bits) = bits \ {"CTRL", "LCTRL", "RCTRL"}
           /\ Keystroke(<<184>>, bits) = bits \ {"ALT", "LALT", "RALT"}
           /\ \A s \in {Pause, <<2>>, <<130>>, <<30>>, <<224, 53>>, <<224, 72>>, <<224, 157>>, <<224, 184>>,
                        <<186>>, <<197>>, <<198>>, <<224, 210>>, <<158>>,
                        <<224, 181>>, <<224, 200>>} :
                Keystroke(s, bits) = bits
  BY DEF Keystroke, Pause

LEMMA StrokeType ==
    ASSUME NEW s, NEW bits \in SUBSET Bits
    PROVE  Keystroke(s, bits) \in SUBSET Bits
  BY DEF Keystroke, SideUp, SymDiff, Bits

-----------------------------------------------------------------------------
(* The runs over the codes of one key.                                     *)

Done(b, s) == [seq |-> <<>>, bits |-> Keystroke(s, b.bits), out |-> b.out]
Given(b) == [seq |-> <<>>, bits |-> b.bits, out |-> Tail(b.out)]

LEMMA After ==
    ASSUME NEW b \in Machine, NEW s
    PROVE  /\ b.bits \in SUBSET Bits /\ b.out \in Seq(Character)
           /\ Done(b, s) \in Machine /\ Done(b, s).seq = <<>>
           /\ Done(b, s).bits = Keystroke(s, b.bits) /\ Done(b, s).out = b.out
           /\ b.out # <<>> => /\ Given(b) \in Machine /\ Given(b).seq = <<>>
                              /\ Given(b).bits = b.bits /\ Given(b).out = Tail(b.out)
<1>1. b.bits \in SUBSET Bits /\ b.out \in Seq(Character) /\ <<>> \in Seq(Code)
  BY DEF Machine
<1>2. Keystroke(s, b.bits) \in SUBSET Bits
  BY <1>1, StrokeType
<1>3. Done(b, s) \in Machine
  BY <1>1, <1>2 DEF Done, Machine
<1>4. b.out # <<>> => Given(b) \in Machine
  <2>1. b.out # <<>> => Tail(b.out) \in Seq(Character)
    BY <1>1, HeadTailProperties
  <2> QED
    BY <1>1, <2>1 DEF Given, Machine
<1> QED
  BY <1>1, <1>3, <1>4 DEF Done, Given

LEMMA Empties ==
    ASSUME NEW c \in Code
    PROVE  Append(<<>>, c) = <<c>> /\ Append(<<224>>, c) = <<224, c>>
<1>1. /\ <<>> \in Seq(Code)
      /\ <<224>> \in Seq(Code)
      /\ <<c>> \in Seq(Code)
      /\ <<224, c>> \in Seq(Code)
      /\ Len(<<>>) = 0 /\ Len(<<224>>) = 1 /\ Len(<<c>>) = 1 /\ Len(<<224, c>>) = 2
  BY DEF Code
<1>2. Append(<<>>, c) = <<c>>
  OBVIOUS
<1>3. Append(<<224>>, c) = <<224, c>>
  <2>1. /\ Append(<<224>>, c) \in Seq(Code) /\ Len(Append(<<224>>, c)) = 2
        /\ Append(<<224>>, c)[1] = 224 /\ Append(<<224>>, c)[2] = c
    BY <1>1, AppendProperties
  <2>2. PICK s : s = Append(<<224>>, c)
    OBVIOUS
  <2>3. s \in Seq(Code) /\ Len(s) = Len(<<224, c>>) /\ \A i \in 1..Len(s) : s[i] = <<224, c>>[i]
    BY <2>1, <2>2
  <2>4. s = <<224, c>>
    BY <1>1, <2>3, SeqEqual
  <2> QED
    BY <2>2, <2>4
<1> QED
  BY <1>2, <1>3

(* A turn that completes a sequence, without and with a character.         *)
LEMMA Completes ==
    ASSUME NEW b \in Machine, NEW c, NEW s, s = Append(b.seq, c), ~More(s),
           CharIn(s, b.bits) = NoChar
    PROVE  Turn(b, c, Done(b, s))
<1>1. Done(b, s).seq = <<>> /\ Done(b, s).bits = Keystroke(s, b.bits) /\ Done(b, s).out = b.out
  BY After
<1> QED
  BY <1>1, Zenon DEF Turn

LEMMA Characters ==
    ASSUME NEW b \in Machine, NEW c, NEW s, s = Append(b.seq, c), ~More(s),
           CharIn(s, b.bits) # NoChar,
           b.out # <<>>, Head(b.out) = CharIn(s, b.bits)
    PROVE  Turn(b, c, Given(b))
<1>1. Given(b).seq = <<>> /\ Given(b).bits = b.bits /\ Given(b).out = Tail(b.out)
  BY After
<1> QED
  BY <1>1, Zenon DEF Turn

LEMMA RunOne ==
    ASSUME NEW b \in Machine, b.seq = <<>>, NEW c \in Code \ {224, 225}
    PROVE  /\ c \notin {2, 30} => Goes(<<c>>, b, Done(b, <<c>>))
           /\ c \in {2, 30} /\ b.out # <<>> /\ Head(b.out) = CharIn(<<c>>, b.bits)
                => Goes(<<c>>, b, Given(b))
<1>1. Append(b.seq, c) = <<c>> /\ ~More(<<c>>)
  BY Empties, WholeOne
<1>2. ASSUME c \notin {2, 30} PROVE Turn(b, c, Done(b, <<c>>))
  <2>1. CharIn(<<c>>, b.bits) = NoChar
    BY <1>2, Makes DEF CharIn
  <2> QED
    BY <1>1, <2>1, Completes
<1>3. ASSUME c \in {2, 30}, b.out # <<>>, Head(b.out) = CharIn(<<c>>, b.bits)
      PROVE  Turn(b, c, Given(b))
  <2>1. CharIn(<<c>>, b.bits) # NoChar
    BY <1>3, Makes DEF CharIn, NoChar, Table
  <2>2. /\ <<c>> = Append(b.seq, c) /\ ~More(<<c>>)
        /\ b.out # <<>> /\ Head(b.out) = CharIn(<<c>>, b.bits)
    BY <1>1, <1>3
  <2> QED
    BY <2>1, <2>2, Characters
<1> QED
  BY <1>2, <1>3, After, GoesOne

LEMMA RunTwo ==
    ASSUME NEW b \in Machine, b.seq = <<>>, NEW c \in Code
    PROVE  /\ c # 53 => Goes(<<224, c>>, b, Done(b, <<224, c>>))
           /\ c = 53 /\ b.out # <<>> /\ Head(b.out) = "/" => Goes(<<224, c>>, b, Given(b))
<1> DEFINE p == [seq |-> <<224>>, bits |-> b.bits, out |-> b.out]
<1>1. p \in Machine /\ p.seq = <<224>> /\ p.bits = b.bits /\ p.out = b.out
  BY After DEF Machine, Code
<1> HIDE DEF p
<1>2. 224 \in Code /\ Append(b.seq, 224) = <<224>> /\ Append(<<224>>, c) = <<224, c>>
      /\ More(<<224>>) /\ ~More(<<224, c>>)
  <2>1. 224 \in Code
    BY DEF Code
  <2> QED
    BY <2>1, Empties, WholeTwo
<1>3. Turn(b, 224, p)
  BY <1>1, <1>2 DEF Turn
<1>4. Goes(<<224>>, b, p)
  BY <1>1, <1>2, <1>3, GoesOne
<1>5. ASSUME c # 53 PROVE Turn(p, c, Done(b, <<224, c>>))
  <2>1. CharIn(<<224, c>>, p.bits) = NoChar
    BY <1>5, Makes DEF CharIn
  <2>2. Turn(p, c, Done(p, <<224, c>>))
    BY <1>1, <1>2, <2>1, Completes
  <2>3. Done(p, <<224, c>>) = Done(b, <<224, c>>)
    BY <1>1 DEF Done
  <2> QED
    BY <2>2, <2>3
<1>6. ASSUME c = 53, b.out # <<>>, Head(b.out) = "/" PROVE Turn(p, c, Given(b))
  <2>1. CharIn(<<224, c>>, p.bits) = "/" /\ "/" # NoChar
    BY <1>6, Makes DEF CharIn, NoChar
  <2>2. Turn(p, c, Given(p))
    <3>1. p.out # <<>> /\ Head(p.out) = CharIn(<<224, c>>, p.bits)
      BY <1>1, <1>6, <2>1
    <3>2. p \in Machine /\ <<224, c>> = Append(p.seq, c) /\ ~More(<<224, c>>)
      BY <1>1, <1>2
    <3> QED
      BY <2>1, <3>1, <3>2, Characters
  <2>3. Given(p) = Given(b)
    BY <1>1 DEF Given
  <2> QED
    BY <2>2, <2>3
<1>7. \A m \in Machine : Turn(p, c, m) => Goes(<<224, c>>, b, m)
  <2>1. SUFFICES ASSUME NEW m \in Machine, Turn(p, c, m) PROVE Goes(<<224, c>>, b, m)
    OBVIOUS
  <2>2. Goes(<<c>>, p, m)
    BY <1>1, <2>1, GoesOne
  <2>3. <<224>> \in Seq(Code) /\ <<c>> \in Seq(Code) /\ <<224>> \o <<c>> = <<224, c>>
    <3>1. <<224>> \in Seq(Code) /\ <<c>> \in Seq(Code)
      BY <1>2
    <3>2. Append(<<224>>, c) = <<224>> \o <<c>>
      BY <3>1, AppendIsConcat
    <3>3. Append(<<224>>, c) = <<224, c>>
      BY Empties
    <3> QED
      BY <3>1, <3>2, <3>3
  <2>4. Goes(<<224>> \o <<c>>, b, m)
    BY <1>4, <2>2, <2>3, GoesThrough
  <2> QED
    BY <2>3, <2>4
<1> QED
  BY <1>5, <1>6, <1>7, After

(* The pause key sends six codes at once.                                  *)
LEMMA PauseStarts ==
    /\ Pause \in Seq(Code) /\ Len(Pause) = 6
    /\ SubSeq(Pause, 1, 0) = <<>> /\ SubSeq(Pause, 1, 6) = Pause
    /\ \A i \in 0..5 : /\ SubSeq(Pause, 1, i) \in Seq(Code)
                       /\ Append(SubSeq(Pause, 1, i), Pause[i + 1]) = SubSeq(Pause, 1, i + 1)
    /\ \A i \in 1..5 : More(SubSeq(Pause, 1, i))
<1>1. Pause \in Seq(Code) /\ Len(Pause) = 6
  BY DEF Pause, Code
<1>0. \A j \in 1..6 : Pause[j] \in Code
  BY <1>1, ElementOfSeq
<1>2. SubSeq(Pause, 1, 0) = <<>> /\ SubSeq(Pause, 1, 6) = Pause
  BY <1>1, SubSeqEmpty, SubSeqFull
<1>3. ASSUME NEW i \in 0..6
      PROVE  SubSeq(Pause, 1, i) \in Seq(Code) /\ Len(SubSeq(Pause, 1, i)) = i
  <2>1. \A j \in 1..i : Pause[j] \in Code
    BY <1>0
  <2>2. /\ SubSeq(Pause, 1, i) \in Seq(Code)
        /\ Len(SubSeq(Pause, 1, i)) = IF 1 <= i THEN i - 1 + 1 ELSE 0
    BY <2>1, SubSeqProperties
  <2> QED
    BY <2>2
<1>4. ASSUME NEW i \in 0..5
      PROVE  Append(SubSeq(Pause, 1, i), Pause[i + 1]) = SubSeq(Pause, 1, i + 1)
  <2>1. i + 1 \in 1..6 /\ (i + 1) - 1 = i /\ Pause[i + 1] \in Code
    BY <1>0
  <2>2. SubSeq(Pause, 1, i + 1) = SubSeq(Pause, 1, i) \o <<Pause[i + 1]>>
    BY <1>1, <2>1, SubSeqRecursiveSecond
  <2>3. Append(SubSeq(Pause, 1, i), Pause[i + 1]) = SubSeq(Pause, 1, i) \o <<Pause[i + 1]>>
    BY <1>3, <2>1, AppendIsConcat
  <2> QED
    BY <2>2, <2>3
<1>5. ASSUME NEW i \in 1..5 PROVE More(SubSeq(Pause, 1, i))
  <2>1. PICK s : s = SubSeq(Pause, 1, i) /\ s \in Seq(Code) /\ Len(s) = i
    <3>1. i \in 0..6
      OBVIOUS
    <3> QED
      BY <1>3, <3>1
  <2>2. SubSeq(s, 1, Len(s)) = s
    BY <2>1, SubSeqFull, Zenon
  <2>3. IsStrictPrefix(s, Pause)
    BY <1>1, <2>1, <2>2 DEF IsStrictPrefix, IsPrefix
  <2> QED
    BY <2>1, <2>3 DEF More
<1> QED
  BY <1>1, <1>2, <1>3, <1>4, <1>5

LEMMA RunPause ==
    ASSUME NEW b \in Machine, b.seq = <<>>
    PROVE  Goes(Pause, b, Done(b, Pause))
<1> DEFINE At(i) == [seq |-> SubSeq(Pause, 1, i), bits |-> b.bits, out |-> b.out]
           f == [i \in 0..6 |-> IF i = 6 THEN Done(b, Pause) ELSE At(i)]
<1>1. \A i \in 0..5 : /\ At(i) \in Machine /\ At(i).seq = SubSeq(Pause, 1, i)
                      /\ At(i).bits = b.bits /\ At(i).out = b.out
  BY PauseStarts, After DEF Machine
<1>2. \A i \in 0..5 : f[i] = At(i)
  OBVIOUS
<1>3. f[6] = Done(b, Pause)
  OBVIOUS
<1>4. f \in [0..6 -> Machine]
  BY <1>1, After
<1> HIDE DEF f, At
<1>5. ASSUME NEW i \in 1..5 PROVE Turn(f[i - 1], Pause[i], f[i])
  <2>1. i - 1 \in 0..5 /\ i \in 0..5 /\ (i - 1) + 1 = i
    OBVIOUS
  <2>2. Append(At(i - 1).seq, Pause[i]) = At(i).seq /\ More(At(i).seq)
    BY <1>1, <2>1, PauseStarts
  <2>3. At(i).bits = At(i - 1).bits /\ At(i).out = At(i - 1).out
    BY <1>1, <2>1
  <2>4. Turn(At(i - 1), Pause[i], At(i))
    BY <2>2, <2>3, Zenon DEF Turn
  <2> QED
    BY <1>2, <2>1, <2>4
<1>6. Turn(f[5], Pause[6], f[6])
  <2>1. Append(At(5).seq, Pause[6]) = Pause /\ ~More(Pause)
    <3>1. 5 \in 0..5 /\ 5 + 1 = 6
      OBVIOUS
    <3> QED
      BY <1>1, <3>1, PauseStarts, WholePause
  <2>2. CharIn(Pause, At(5).bits) = NoChar
    BY Makes DEF CharIn, Pause
  <2>3. At(5) \in Machine /\ At(5).bits = b.bits /\ At(5).out = b.out
    BY <1>1
  <2>4. Turn(At(5), Pause[6], Done(At(5), Pause))
    BY <2>1, <2>2, <2>3, Completes
  <2>5. Done(At(5), Pause) = Done(b, Pause)
    BY <2>3 DEF Done
  <2> QED
    BY <1>2, <1>3, <2>4, <2>5
<1>7. \A i \in 1..6 : Turn(f[i - 1], Pause[i], f[i])
  <2>1. \A i \in 1..6 : i \in 1..5 \/ (i = 6 /\ i - 1 = 5)
    OBVIOUS
  <2> QED
    BY <1>5, <1>6, <2>1
<1>8. f[0] = b
  <2>1. f[0] = [seq |-> <<>>, bits |-> b.bits, out |-> b.out]
    BY <1>2, PauseStarts DEF At
  <2> QED
    BY <2>1 DEF Machine
<1> QED
  BY <1>3, <1>4, <1>7, <1>8, PauseStarts DEF Runs, Goes

-----------------------------------------------------------------------------
(* A key goes down, and up: kbd_state follows.                             *)

LEMMA AgreeDown ==
    ASSUME Types, NEW k \in Keys, Press(k), NEW bits, Agree(bits)
    PROVE  Agree(Keystroke(MakeCode[k], bits))'
<1>1. /\ held' = (IF k = "pause" THEN held ELSE held \union {k})
      /\ locks' = IF k \in DOMAIN LockBit THEN SymDiff(locks, {k}) ELSE locks
      /\ k \in KeyNames /\ k \notin held
  BY Named DEF Press
<1>2. PICK c : c = Keystroke(MakeCode[k], bits)
  OBVIOUS
<1>3. Agree(c)'
  <2>1. CASE k \in {"lshift", "rshift"}
    <3>1. locks' = locks
      BY <1>1, <2>1, Named
    <3>2. CASE k = "lshift"
      <4>1. c = bits \union {"SHIFT", "LSHIFT"}
        BY <1>2, <3>2, Makes, Strokes
      <4> QED
        BY <1>1, <3>1, <3>2, <4>1 DEF Agree, LeftOnly
    <3>3. CASE k = "rshift"
      <4>1. c = bits \union {"SHIFT", "RSHIFT"}
        BY <1>2, <3>3, Makes, Strokes
      <4> QED
        BY <1>1, <3>1, <3>3, <4>1 DEF Agree, LeftOnly
    <3> QED
      BY <2>1, <3>2, <3>3
  <2>2. CASE k \in {"lctrl", "rctrl"}
    <3>1. locks' = locks
      BY <1>1, <2>2, Named
    <3>2. CASE k = "lctrl"
      <4>1. c = bits \union {"CTRL", "LCTRL"}
        BY <1>2, <3>2, Makes, Strokes
      <4> QED
        BY <1>1, <3>1, <3>2, <4>1 DEF Agree, LeftOnly
    <3>3. CASE k = "rctrl"
      <4>1. c = bits \union {"CTRL", "RCTRL"}
        BY <1>2, <3>3, Makes, Strokes
      <4> QED
        BY <1>1, <3>1, <3>3, <4>1 DEF Agree, LeftOnly
    <3> QED
      BY <2>2, <3>2, <3>3
  <2>3. CASE k \in {"lalt", "ralt"}
    <3>1. locks' = locks
      BY <1>1, <2>3, Named
    <3>2. CASE k = "lalt"
      <4>1. c = bits \union {"ALT", "LALT"}
        BY <1>2, <3>2, Makes, Strokes
      <4> QED
        BY <1>1, <3>1, <3>2, <4>1 DEF Agree, LeftOnly
    <3>3. CASE k = "ralt"
      <4>1. c = bits \union {"ALT", "RALT"}
        BY <1>2, <3>3, Makes, Strokes
      <4> QED
        BY <1>1, <3>1, <3>3, <4>1 DEF Agree, LeftOnly
    <3> QED
      BY <2>3, <3>2, <3>3
  <2>4. CASE k \in {"caps", "num", "scroll", "insert"}
    <3>1. c = SymDiff(bits, {LockBit[k]}) /\ locks' = SymDiff(locks, {k})
      <4>1. locks' = SymDiff(locks, {k})
        BY <1>1, <2>4, Named
      <4>2. CASE k = "caps"
        BY <1>2, <4>1, <4>2, Makes, Strokes DEF LockBit
      <4>3. CASE k = "num"
        BY <1>2, <4>1, <4>3, Makes, Strokes DEF LockBit
      <4>4. CASE k = "scroll"
        BY <1>2, <4>1, <4>4, Makes, Strokes DEF LockBit
      <4>5. CASE k = "insert"
        BY <1>2, <4>1, <4>5, Makes, Strokes DEF LockBit
      <4> QED
        BY <2>4, <4>2, <4>3, <4>4, <4>5
    <3>2. /\ "LSHIFT" \in c <=> "LSHIFT" \in bits
          /\ "RSHIFT" \in c <=> "RSHIFT" \in bits
          /\ "SHIFT" \in c <=> "SHIFT" \in bits
          /\ "CTRL" \in c <=> "CTRL" \in bits
          /\ "ALT" \in c <=> "ALT" \in bits
      BY <2>4, <3>1 DEF SymDiff, LockBit
    <3>3. /\ "CAPSLOCK" \in c <=> "caps" \in locks'
          /\ "NUMLOCK" \in c <=> "num" \in locks'
          /\ "SCROLLLOCK" \in c <=> "scroll" \in locks'
          /\ "INSERT" \in c <=> "insert" \in locks'
      BY <2>4, <3>1 DEF SymDiff, LockBit, Agree
    <3> QED
      BY <1>1, <2>4, <3>2, <3>3 DEF Agree, LeftOnly
  <2>5. CASE k \in {"pause", "one", "a", "slash", "up"}
    <3>1. c = bits /\ locks' = locks
      <4>1. locks' = locks
        BY <1>1, <2>5, Named
      <4>2. MakeCode[k] \in {Pause, <<2>>, <<30>>, <<224, 53>>, <<224, 72>>}
        <5>1. /\ MakeCode["pause"] = Pause
              /\ MakeCode["one"] = <<2>> /\ MakeCode["a"] = <<30>>
              /\ MakeCode["slash"] = <<224, 53>> /\ MakeCode["up"] = <<224, 72>>
          BY Makes, Zenon
        <5> QED
          BY <2>5, <5>1, Zenon
      <4>3. c = bits
        BY <1>2, <4>2, Strokes
      <4> QED
        BY <4>1, <4>3
    <3> QED
      BY <1>1, <2>5, <3>1 DEF Agree, LeftOnly
  <2> QED
    BY <1>1, <2>1, <2>2, <2>3, <2>4, <2>5 DEF KeyNames
<1> QED
  BY <1>2, <1>3 DEF Agree

LEMMA AgreeUp ==
    ASSUME Types, NEW k \in Keys, Release(k), NEW bits, Agree(bits), k # "pause"
    PROVE  Agree(Keystroke(BreakCode(k), bits))'
<1>1. held' = held \ {k} /\ locks' = locks /\ k \in KeyNames /\ k \in held
  BY Named DEF Release
<1>2. PICK c : c = Keystroke(BreakCode(k), bits)
  OBVIOUS
<1>3. Agree(c)'
  <2>1. CASE k \in {"lshift", "rshift"}
    <3>1. CASE k = "lshift"
      <4>1. BreakCode(k) = <<170>>
        BY <3>1, Breaks, Zenon
      <4>2. c = SideUp(bits, "LSHIFT")
        BY <1>2, <4>1, Strokes
      <4> QED
        BY <1>1, <3>1, <4>2 DEF Agree, LeftOnly, SideUp
    <3>2. CASE k = "rshift"
      <4>1. BreakCode(k) = <<182>>
        BY <3>2, Breaks, Zenon
      <4>2. c = SideUp(bits, "RSHIFT")
        BY <1>2, <4>1, Strokes
      <4> QED
        BY <1>1, <3>2, <4>2 DEF Agree, LeftOnly, SideUp
    <3> QED
      BY <2>1, <3>1, <3>2
  <2>2. CASE k = "lctrl"
    <3>1. c = bits \ {"CTRL", "LCTRL", "RCTRL"}
      <4>1. BreakCode(k) = <<157>>
        BY <2>2, Breaks, Zenon
      <4> QED
        BY <1>2, <4>1, Strokes
    <3> QED
      BY <1>1, <2>2, <3>1 DEF Agree, LeftOnly
  <2>3. CASE k = "lalt"
    <3>1. c = bits \ {"ALT", "LALT", "RALT"}
      <4>1. BreakCode(k) = <<184>>
        BY <2>3, Breaks, Zenon
      <4> QED
        BY <1>2, <4>1, Strokes
    <3> QED
      BY <1>1, <2>3, <3>1 DEF Agree, LeftOnly
  <2>4. CASE k \in KeyNames \ {"lshift", "rshift", "lctrl", "lalt", "pause"}
    <3>1. c = bits
      <4>1. BreakCode(k) \in {<<224, 157>>, <<224, 184>>, <<186>>, <<197>>, <<198>>, <<224, 210>>,
                              <<130>>, <<158>>, <<224, 181>>, <<224, 200>>}
        BY <2>4, Breaks DEF KeyNames
      <4> QED
        BY <1>2, <4>1, Strokes
    <3> QED
      BY <1>1, <2>4, <3>1 DEF Agree, LeftOnly
  <2> QED
    BY <1>1, <2>1, <2>2, <2>3, <2>4
<1> QED
  BY <1>2, <1>3 DEF Agree

LEMMA CodeTypes ==
    \A k \in KeyNames : MakeCode[k] \in Seq(Code) /\ BreakCode(k) \in Seq(Code)
<1>1. MakeCode["lshift"] \in Seq(Code) /\ BreakCode("lshift") \in Seq(Code)
  <2>1. <<42>> \in Seq(Code) /\ <<170>> \in Seq(Code)
    BY DEF Code
  <2> QED
    BY <2>1, Makes, Breaks
<1>2. MakeCode["rshift"] \in Seq(Code) /\ BreakCode("rshift") \in Seq(Code)
  <2>1. <<54>> \in Seq(Code) /\ <<182>> \in Seq(Code)
    BY DEF Code
  <2> QED
    BY <2>1, Makes, Breaks
<1>3. MakeCode["lctrl"] \in Seq(Code) /\ BreakCode("lctrl") \in Seq(Code)
  <2>1. <<29>> \in Seq(Code) /\ <<157>> \in Seq(Code)
    BY DEF Code
  <2> QED
    BY <2>1, Makes, Breaks
<1>4. MakeCode["rctrl"] \in Seq(Code) /\ BreakCode("rctrl") \in Seq(Code)
  <2>1. <<224, 29>> \in Seq(Code) /\ <<224, 157>> \in Seq(Code)
    BY DEF Code
  <2> QED
    BY <2>1, Makes, Breaks
<1>5. MakeCode["lalt"] \in Seq(Code) /\ BreakCode("lalt") \in Seq(Code)
  <2>1. <<56>> \in Seq(Code) /\ <<184>> \in Seq(Code)
    BY DEF Code
  <2> QED
    BY <2>1, Makes, Breaks
<1>6. MakeCode["ralt"] \in Seq(Code) /\ BreakCode("ralt") \in Seq(Code)
  <2>1. <<224, 56>> \in Seq(Code) /\ <<224, 184>> \in Seq(Code)
    BY DEF Code
  <2> QED
    BY <2>1, Makes, Breaks
<1>7. MakeCode["caps"] \in Seq(Code) /\ BreakCode("caps") \in Seq(Code)
  <2>1. <<58>> \in Seq(Code) /\ <<186>> \in Seq(Code)
    BY DEF Code
  <2> QED
    BY <2>1, Makes, Breaks
<1>8. MakeCode["num"] \in Seq(Code) /\ BreakCode("num") \in Seq(Code)
  <2>1. <<69>> \in Seq(Code) /\ <<197>> \in Seq(Code)
    BY DEF Code
  <2> QED
    BY <2>1, Makes, Breaks
<1>9. MakeCode["scroll"] \in Seq(Code) /\ BreakCode("scroll") \in Seq(Code)
  <2>1. <<70>> \in Seq(Code) /\ <<198>> \in Seq(Code)
    BY DEF Code
  <2> QED
    BY <2>1, Makes, Breaks
<1>10. MakeCode["insert"] \in Seq(Code) /\ BreakCode("insert") \in Seq(Code)
  <2>1. <<224, 82>> \in Seq(Code) /\ <<224, 210>> \in Seq(Code)
    BY DEF Code
  <2> QED
    BY <2>1, Makes, Breaks
<1>11. MakeCode["pause"] \in Seq(Code) /\ BreakCode("pause") \in Seq(Code)
  <2>1. Pause \in Seq(Code) /\ <<>> \in Seq(Code)
    BY PauseStarts DEF Code
  <2> QED
    BY <2>1, Makes, Breaks
<1>12. MakeCode["a"] \in Seq(Code) /\ BreakCode("a") \in Seq(Code)
  <2>1. <<30>> \in Seq(Code) /\ <<158>> \in Seq(Code)
    BY DEF Code
  <2> QED
    BY <2>1, Makes, Breaks
<1>13. MakeCode["slash"] \in Seq(Code) /\ BreakCode("slash") \in Seq(Code)
  <2>1. <<224, 53>> \in Seq(Code) /\ <<224, 181>> \in Seq(Code)
    BY DEF Code
  <2> QED
    BY <2>1, Makes, Breaks
<1>14. MakeCode["up"] \in Seq(Code) /\ BreakCode("up") \in Seq(Code)
  <2>1. <<224, 72>> \in Seq(Code) /\ <<224, 200>> \in Seq(Code)
    BY DEF Code
  <2> QED
    BY <2>1, Makes, Breaks
<1>15. MakeCode["one"] \in Seq(Code) /\ BreakCode("one") \in Seq(Code)
  <2>1. <<2>> \in Seq(Code) /\ <<130>> \in Seq(Code)
    BY DEF Code
  <2> QED
    BY <2>1, Makes, Breaks
<1> QED
  BY <1>1, <1>2, <1>3, <1>4, <1>5, <1>6, <1>7,
     <1>8, <1>9, <1>10, <1>11, <1>12, <1>13, <1>14, <1>15 DEF KeyNames

(* The codes of a key that goes down are read as that key, and give the    *)
(* character that was meant.                                               *)
LEMMA ReadsDown ==
    ASSUME Types, NEW k \in Keys, Press(k), NEW b \in Machine, b.seq = <<>>, Agree(b.bits),
           b.out = IF k \in Writing THEN <<Meant(k)>> ELSE <<>>
    PROVE  \E m \in Machine : Goes(MakeCode[k], b, m) /\ Rest(m)'
<1>1. k \in KeyNames
  BY Named
<1>2. CASE k \notin Writing
  <2>1. Goes(MakeCode[k], b, Done(b, MakeCode[k]))
    <3>1. \A c \in Code \ {2, 30, 224, 225} : Goes(<<c>>, b, Done(b, <<c>>))
      BY RunOne
    <3>2. \A c \in Code \ {53} : Goes(<<224, c>>, b, Done(b, <<224, c>>))
      BY RunTwo
    <3>3. /\ {42, 54, 29, 56, 58, 69, 70} \subseteq Code \ {2, 30, 224, 225}
          /\ {29, 56, 82, 72} \subseteq Code \ {53}
      BY DEF Code
    <3>4. CASE k \in {"lshift", "rshift", "lctrl", "lalt"}
      BY <3>1, <3>3, <3>4, Makes
    <3>5. CASE k \in {"caps", "num", "scroll"}
      BY <3>1, <3>3, <3>5, Makes
    <3>6. CASE k \in {"rctrl", "ralt", "insert", "up"}
      <4>1. CASE k \in {"rctrl", "ralt"}
        <5>1. CASE k = "rctrl"
          <6>1. MakeCode[k] = <<224, 29>>
            BY <5>1, Makes, Zenon
          <6>2. Goes(<<224, 29>>, b, Done(b, <<224, 29>>))
            BY <3>2, <3>3
          <6> QED
            BY <6>1, <6>2, Zenon
        <5>2. CASE k = "ralt"
          <6>1. MakeCode[k] = <<224, 56>>
            BY <5>2, Makes, Zenon
          <6>2. Goes(<<224, 56>>, b, Done(b, <<224, 56>>))
            BY <3>2, <3>3
          <6> QED
            BY <6>1, <6>2, Zenon
        <5> QED
          BY <4>1, <5>1, <5>2
      <4>2. CASE k = "insert"
        BY <3>2, <3>3, <4>2, Makes
      <4>3. CASE k = "up"
        BY <3>2, <3>3, <4>3, Makes
      <4> QED
        BY <3>6, <4>1, <4>2, <4>3
    <3>7. CASE k = "pause"
      BY <3>7, RunPause, Makes
    <3> QED
      BY <1>1, <1>2, <3>4, <3>5, <3>6, <3>7 DEF KeyNames, Writing
  <2>2. PICK m : m = Done(b, MakeCode[k])
    OBVIOUS
  <2>3. m \in Machine /\ m.seq = <<>> /\ m.bits = Keystroke(MakeCode[k], b.bits) /\ m.out = <<>>
    BY <1>2, <2>2, After
  <2>4. Agree(Keystroke(MakeCode[k], b.bits))'
    BY AgreeDown
  <2>5. Rest(m)'
    BY <2>3, <2>4 DEF Rest
  <2> QED
    BY <2>1, <2>2, <2>3, <2>5
<1>3. CASE k \in Writing
  <2>1. b.out # <<>> /\ Head(b.out) = Meant(k) /\ Tail(b.out) = <<>>
    BY <1>3
  <2>2. Goes(MakeCode[k], b, Given(b))
    <3>1. CASE k = "a"
      <4>1. Meant(k) = CharIn(<<30>>, b.bits)
        BY <3>1, Makes DEF Meant, CharIn, ShiftedIn, Agree, Table
      <4>2. 30 \in Code \ {224, 225}
        BY DEF Code
      <4> QED
        BY <2>1, <3>1, <4>1, <4>2, RunOne, Makes
    <3>3. CASE k = "one"
      <4>1. Meant(k) = CharIn(<<2>>, b.bits)
        BY <3>3, Makes DEF Meant, CharIn, ShiftedIn, Agree, Table
      <4>2. 2 \in Code \ {224, 225}
        BY DEF Code
      <4> QED
        BY <2>1, <3>3, <4>1, <4>2, RunOne, Makes
    <3>2. CASE k = "slash"
      <4>1. Meant(k) = "/"
        BY <3>2 DEF Meant, Table
      <4>2. 53 \in Code
        BY DEF Code
      <4> QED
        BY <2>1, <3>2, <4>1, <4>2, RunTwo, Makes
    <3> QED
      BY <1>3, <3>1, <3>2, <3>3 DEF Writing
  <2>3. PICK m : m = Given(b)
    OBVIOUS
  <2>4. m \in Machine /\ m.seq = <<>> /\ m.bits = b.bits /\ m.out = <<>>
    BY <2>1, <2>3, After
  <2>5. Agree(Keystroke(MakeCode[k], b.bits))'
    BY AgreeDown
  <2>6. Keystroke(MakeCode[k], b.bits) = b.bits
    <3>1. MakeCode["one"] = <<2>> /\ MakeCode["a"] = <<30>> /\ MakeCode["slash"] = <<224, 53>>
      BY Makes
    <3>2. MakeCode[k] \in {<<2>>, <<30>>, <<224, 53>>}
      BY <1>3, <3>1 DEF Writing
    <3>3. /\ Keystroke(<<2>>, b.bits) = b.bits /\ Keystroke(<<30>>, b.bits) = b.bits
          /\ Keystroke(<<224, 53>>, b.bits) = b.bits
      BY Strokes
    <3> QED
      BY <3>2, <3>3, Zenon
  <2>7. Rest(m)'
    BY <2>4, <2>5, <2>6 DEF Rest, Agree
  <2> QED
    BY <2>2, <2>3, <2>4, <2>7
<1> QED
  BY <1>2, <1>3

LEMMA ReadsUp ==
    ASSUME Types, NEW k \in Keys, Release(k), NEW b \in Machine, b.seq = <<>>,
           Agree(b.bits), b.out = <<>>
    PROVE  \E m \in Machine : Goes(BreakCode(k), b, m) /\ Rest(m)'
<1>1. k \in KeyNames
  BY Named
<1>2. CASE k = "pause"
  <2>1. Goes(BreakCode(k), b, b)
    BY <1>2, Breaks, GoesNowhere
  <2>2. Agree(b.bits)'
    BY <1>2 DEF Agree, LeftOnly, Release
  <2>3. Rest(b)'
    BY <2>2 DEF Rest
  <2> QED
    BY <2>1, <2>3
<1>3. CASE k # "pause"
  <2>1. Goes(BreakCode(k), b, Done(b, BreakCode(k)))
    <3>1. \A c \in Code \ {2, 30, 224, 225} : Goes(<<c>>, b, Done(b, <<c>>))
      BY RunOne
    <3>2. \A c \in Code \ {53} : Goes(<<224, c>>, b, Done(b, <<224, c>>))
      BY RunTwo
    <3>3. /\ {170, 182, 157, 184, 186, 197, 198, 130, 158} \subseteq Code \ {2, 30, 224, 225}
          /\ {157, 184, 210, 181, 200} \subseteq Code \ {53}
      BY DEF Code
    <3>4. CASE k \in {"lshift", "rshift", "lctrl", "lalt"}
      BY <3>1, <3>3, <3>4, Breaks
    <3>5. CASE k \in {"caps", "num", "scroll", "one", "a"}
      BY <3>1, <3>3, <3>5, Breaks
    <3>6. CASE k \in {"rctrl", "ralt", "insert", "up", "slash"}
      BY <3>2, <3>3, <3>6, Breaks
    <3> QED
      BY <1>1, <1>3, <3>4, <3>5, <3>6 DEF KeyNames
  <2>2. PICK m : m = Done(b, BreakCode(k))
    OBVIOUS
  <2>3. /\ m \in Machine
        /\ m.seq = <<>>
        /\ m.bits = Keystroke(BreakCode(k), b.bits)
        /\ m.out = <<>>
    BY <2>2, After
  <2>4. Agree(Keystroke(BreakCode(k), b.bits))'
    BY <1>3, AgreeUp
  <2>5. Rest(m)'
    BY <2>3, <2>4 DEF Rest
  <2> QED
    BY <2>1, <2>2, <2>3, <2>5
<1> QED
  BY <1>2, <1>3

-----------------------------------------------------------------------------
(* The steps.                                                              *)

LEMMA NowType ==
    ASSUME Types
    PROVE  /\ Now \in Machine /\ Now.seq = seq /\ Now.bits = kbdState /\ Now.out = typed
           /\ Pending \in Seq(Code)
<1>1. Pending \in Seq(Code)
  BY ConcatProperties DEF Types, Pending
<1> QED
  BY <1>1 DEF Types, Now, Machine

LEMMA CharNow == \A s : CharOf(s) = CharIn(s, kbdState)
  BY DEF CharOf, CharIn, Typed, Shifted, ShiftedIn

LEMMA CharType ==
    \A s, bits : CharIn(s, bits) \in Character \union {NoChar} /\ NoChar \notin Character
  BY DEF CharIn, Character, NoChar, Table

LEMMA MeantType == \A k : Meant(k) \in Character
  BY DEF Meant, Character, Table

LEMMA InvInit == Init => Inv
<1> SUFFICES ASSUME Init PROVE Inv
  OBVIOUS
<1>1. Types
  <2>1. Cap \in Nat /\ Len(<<>>) = 0 /\ <<>> \in Seq(Character) /\ <<>> \in Seq(Code)
    BY CallsAssumption
  <2> QED
    <3>1. held \subseteq Keys /\ locks \subseteq DOMAIN LockBit /\ kbdState \subseteq Bits
      BY DEF Init
    <3>2. /\ typed \in Seq(Character)
          /\ wire \in Seq(Code)
          /\ kbbuf \in Seq(Code)
          /\ seq \in Seq(Code)
      BY <2>1 DEF Init
    <3>3. Len(kbbuf) <= Cap /\ seq = <<>>
      BY <2>1 DEF Init
    <3>4. got = NoChar /\ want = NoChar /\ reading = FALSE /\ lost = FALSE
      BY DEF Init
    <3> QED
      BY <3>1, <3>2, <3>3, <3>4 DEF Types
<1>2. Pending = <<>>
  BY ConcatEmptySeq DEF Init, Pending
<1>3. Goes(Pending, Now, Now)
  BY <1>1, <1>2, NowType, GoesNowhere
<1>4. Rest(Now)
  BY <1>1, NowType DEF Init, Rest, Agree
<1> QED
  BY <1>1, <1>3, <1>4, NowType DEF Inv, Arrives, Init

LEMMA PressStep == ASSUME Inv, NEW k \in Keys, Press(k) PROVE Inv'
<1>1. /\ wire = <<>> /\ ~lost /\ wire' = MakeCode[k]
      /\ typed' = (IF k \in Writing THEN Append(typed, Meant(k)) ELSE typed)
      /\ UNCHANGED <<kbbuf, kbdState, reading, seq, got, want, lost>>
  BY DEF Press
<1>2. Types /\ Types'
  <2>1. Types /\ k \in KeyNames /\ MakeCode[k] \in Seq(Code)
    BY Named, CodeTypes DEF Inv
  <2>2. held' \subseteq Keys
    BY <2>1 DEF Press, Types
  <2>3. locks' \subseteq DOMAIN LockBit
    BY <2>1 DEF Press, Types, SymDiff
  <2>4. typed' \in Seq(Character)
    BY <1>1, <2>1, MeantType, AppendProperties DEF Types
  <2> QED
    BY <1>1, <2>1, <2>2, <2>3, <2>4 DEF Types
<1>3. PICK m \in Machine : Goes(kbbuf, Now, m) /\ Rest(m)
  <2>1. Pending = kbbuf
    BY <1>1, <1>2, ConcatEmptySeq DEF Pending, Types
  <2> QED
    BY <1>1, <2>1 DEF Inv, Arrives
<1>4. \E b \in Machine : /\ Goes(kbbuf, Now', b) /\ b.seq = <<>> /\ Agree(b.bits)
                         /\ b.out = IF k \in Writing THEN <<Meant(k)>> ELSE <<>>
  <2>1. CASE k \in Writing
    <3>1. Now' = Owing(Now, Meant(k))
      BY <1>1, <2>1 DEF Now, Owing
    <3>2. Goes(kbbuf, Now', Owing(m, Meant(k)))
      BY <1>2, <1>3, <3>1, MeantType, GoesOwing DEF Types
    <3>3. m.out = <<>> /\ Append(<<>>, Meant(k)) = <<Meant(k)>>
      BY <1>3 DEF Rest
    <3> QED
      BY <1>3, <2>1, <3>2, <3>3, MeantType, Owed DEF Rest
  <2>2. CASE k \notin Writing
    <3>1. Now' = Now
      BY <1>1, <2>2 DEF Now
    <3> QED
      BY <1>3, <2>2, <3>1 DEF Rest
  <2> QED
    BY <2>1, <2>2
<1>5. PICK b \in Machine : /\ Goes(kbbuf, Now', b) /\ b.seq = <<>> /\ Agree(b.bits)
                           /\ b.out = IF k \in Writing THEN <<Meant(k)>> ELSE <<>>
  BY <1>4
<1>6. PICK d \in Machine : Goes(MakeCode[k], b, d) /\ Rest(d)'
  BY <1>2, <1>5, ReadsDown
<1>7. Goes(Pending', Now', d)
  <2>1. Pending' = kbbuf \o MakeCode[k] /\ kbbuf \in Seq(Code) /\ MakeCode[k] \in Seq(Code)
    BY <1>1, <1>2 DEF Pending, Types
  <2>2. Goes(kbbuf \o MakeCode[k], Now', d)
    BY <1>5, <1>6, <2>1, GoesThrough
  <2> QED
    BY <2>1, <2>2
<1>8. Arrives'
  BY <1>6, <1>7 DEF Arrives, Goes
<1> QED
  BY <1>1, <1>2, <1>8 DEF Inv

(* A sequence is its first element and the others.                         *)
LEMMA Parts ==
    ASSUME NEW u \in Seq(Code), u # <<>>
    PROVE  u = <<Head(u)>> \o Tail(u) /\ Head(u) \in Code /\ Tail(u) \in Seq(Code)
<1>1. 1 \in 1..Len(u) /\ Len(u) \in 1..Len(u) /\ Head(u) = u[1]
  BY EmptySeq
<1>2. SubSeq(u, 1, Len(u)) = <<u[1]>> \o SubSeq(u, 1 + 1, Len(u))
  BY <1>1, SubSeqRecursiveFirst
<1>3. SubSeq(u, 1, Len(u)) = u /\ Tail(u) = SubSeq(u, 2, Len(u))
  BY SubSeqFull, TailIsSubSeq
<1>4. Head(u) \in Code /\ Tail(u) \in Seq(Code)
  BY HeadTailProperties
<1> QED
  BY <1>1, <1>2, <1>3, <1>4

LEMMA HeadTailConcat ==
    ASSUME NEW u \in Seq(Code), NEW v \in Seq(Code), u # <<>>
    PROVE  u \o v # <<>> /\ Head(u \o v) = Head(u) /\ Tail(u \o v) = Tail(u) \o v
<1>1. PICK c \in Code, t \in Seq(Code) : c = Head(u) /\ t = Tail(u) /\ u = <<c>> \o t
  BY Parts
<1>2. <<c>> \in Seq(Code) /\ t \o v \in Seq(Code)
  BY <1>1, ConcatProperties
<1>3. u \o v = <<c>> \o (t \o v)
  BY <1>1, <1>2, ConcatAssociative
<1>4. PICK w \in Seq(Code) : w = t \o v
  BY <1>2
<1>5. <<c>> \o w # <<>> /\ Head(<<c>> \o w) = c /\ Tail(<<c>> \o w) = w
  BY <1>2
<1> QED
  BY <1>1, <1>3, <1>4, <1>5

LEMMA ReleaseStep == ASSUME Inv, NEW k \in Keys, Release(k) PROVE Inv'
<1>1. /\ wire = <<>> /\ ~lost /\ wire' = BreakCode(k) /\ held' = held \ {k}
      /\ UNCHANGED <<locks, typed, kbbuf, kbdState, reading, seq, got, want, lost>>
  BY DEF Release
<1>2. Types /\ Types'
  <2>1. Types /\ BreakCode(k) \in Seq(Code)
    BY Named, CodeTypes DEF Inv
  <2>2. held' \subseteq Keys
    BY <1>1, <2>1 DEF Types
  <2> QED
    BY <1>1, <2>1, <2>2 DEF Types
<1>3. PICK b \in Machine : Goes(kbbuf, Now, b) /\ Rest(b)
  <2>1. Pending = kbbuf
    BY <1>1, <1>2, ConcatEmptySeq DEF Pending, Types
  <2> QED
    BY <1>1, <2>1 DEF Inv, Arrives
<1>4. PICK d \in Machine : Goes(BreakCode(k), b, d) /\ Rest(d)'
  BY <1>2, <1>3, ReadsUp DEF Rest
<1>5. Goes(Pending', Now', d)
  <2>1. Pending' = kbbuf \o BreakCode(k) /\ kbbuf \in Seq(Code) /\ BreakCode(k) \in Seq(Code)
    BY <1>1, <1>2 DEF Pending, Types
  <2>2. Now' = Now
    BY <1>1 DEF Now
  <2>3. Goes(kbbuf \o BreakCode(k), Now, d)
    BY <1>3, <1>4, <2>1, GoesThrough
  <2> QED
    BY <2>1, <2>2, <2>3
<1>6. Arrives'
  BY <1>4, <1>5 DEF Arrives, Goes
<1> QED
  BY <1>1, <1>2, <1>6 DEF Inv

(* Nothing happens to what the codes on their way will come to.            *)
LEMMA ArrivesStill ==
    ASSUME Arrives, Pending' = Pending, UNCHANGED <<seq, kbdState, typed, held, locks>>
    PROVE  Arrives'
<1>1. PICK m \in Machine : Goes(Pending, Now, m) /\ Rest(m)
  BY DEF Arrives
<1>2. Goes(Pending', Now', m) /\ Rest(m)'
  BY <1>1 DEF Now, Rest, Agree
<1> QED
  BY <1>2 DEF Arrives, Goes

LEMMA LoseTypes ==
    ASSUME Types, NEW yes \in BOOLEAN, Lose(yes)
    PROVE  /\ lost' \in BOOLEAN /\ typed' \in Seq(Character)
           /\ yes => lost'
           /\ ~yes => lost' = lost /\ typed' = typed
<1>1. <<>> \in Seq(Character)
  OBVIOUS
<1> QED
  BY <1>1 DEF Lose, Types

LEMMA KbdIrqStep == ASSUME Inv, KbdIrq PROVE Inv'
<1> DEFINE full == Len(kbbuf) = Cap
<1>1. /\ wire # <<>> /\ wire' = Tail(wire) /\ Lose(full)
      /\ kbbuf' = (IF full THEN kbbuf ELSE Append(kbbuf, Head(wire)))
      /\ UNCHANGED <<typist, kbdState, reading, seq, got, want>>
  BY DEF KbdIrq
<1>2. Types
  BY DEF Inv
<1>3. /\ Head(wire) \in Code
      /\ Tail(wire) \in Seq(Code)
      /\ wire \in Seq(Code)
      /\ kbbuf \in Seq(Code)
      /\ wire = <<Head(wire)>> \o Tail(wire)
  <2>1. wire \in Seq(Code) /\ kbbuf \in Seq(Code)
    BY <1>2 DEF Types
  <2>2. Head(wire) \in Code /\ Tail(wire) \in Seq(Code)
    BY <1>1, <2>1, HeadTailProperties
  <2>3. wire = <<Head(wire)>> \o Tail(wire)
    BY <1>1, <2>1, Parts
  <2> QED
    BY <2>1, <2>2, <2>3
<1>4. /\ lost' \in BOOLEAN /\ typed' \in Seq(Character)
      /\ full => lost'
      /\ ~full => lost' = lost /\ typed' = typed
  BY <1>1, <1>2, LoseTypes
<1>5. kbbuf' \in Seq(Code) /\ Len(kbbuf') <= Cap
  <2>1. CASE full
    BY <1>1, <1>2, <2>1 DEF Types
  <2>2. CASE ~full
    <3>1. kbbuf' \in Seq(Code) /\ Len(kbbuf') = Len(kbbuf) + 1
      BY <1>1, <1>3, <2>2, AppendProperties
    <3> QED
      BY <1>2, <2>2, <3>1, CallsAssumption DEF Types
  <2> QED
    BY <2>1, <2>2
<1>6. Types'
  BY <1>1, <1>2, <1>3, <1>4, <1>5 DEF Types, typist
<1>7. ASSUME ~full PROVE Pending' = Pending
  <2>1. Pending' = (kbbuf \o <<Head(wire)>>) \o Tail(wire)
    BY <1>1, <1>3, <1>7, AppendIsConcat DEF Pending
  <2>2. <<Head(wire)>> \in Seq(Code)
    BY <1>3
  <2>3. (kbbuf \o <<Head(wire)>>) \o Tail(wire) = kbbuf \o (<<Head(wire)>> \o Tail(wire))
    BY <1>3, <2>2, ConcatAssociative
  <2> QED
    BY <1>3, <2>1, <2>3 DEF Pending
<1>8. ~lost' => Arrives'
  BY <1>1, <1>4, <1>7, ArrivesStill DEF Inv, typist
<1>9. (~reading' => seq' = <<>>) /\ (~lost' => got' = want')
  <2>1. ~lost' => ~lost
    BY <1>4
  <2> QED
    BY <1>1, <2>1 DEF Inv
<1> QED
  BY <1>6, <1>8, <1>9 DEF Inv

LEMMA GetCharStep == ASSUME Inv, GetChar PROVE Inv'
<1>1. /\ ~reading /\ reading' = TRUE /\ got' = NoChar /\ want' = NoChar
      /\ UNCHANGED <<typist, typed, wire, kbbuf, kbdState, seq, lost>>
  BY DEF GetChar
<1>2. Types'
  BY <1>1 DEF Inv, Types, typist
<1>3. Pending' = Pending
  BY <1>1 DEF Pending
<1>4. ~lost' => Arrives'
  BY <1>1, <1>3, ArrivesStill DEF Inv, typist
<1> QED
  BY <1>1, <1>2, <1>4 DEF Inv

LEMMA NextCodeStep == ASSUME Inv, NextCode PROVE Inv'
<1> DEFINE c == Head(kbbuf)
<1>1. PICK s : s = Append(seq, c)
  OBVIOUS
<1>2. /\ reading /\ kbbuf # <<>> /\ kbbuf' = Tail(kbbuf) /\ UNCHANGED <<typist, wire, lost>>
      /\ \/ /\ More(s) /\ seq' = s
            /\ UNCHANGED <<typed, kbdState, reading, got, want>>
         \/ /\ ~More(s) /\ CharIn(s, kbdState) = NoChar
            /\ seq' = <<>> /\ kbdState' = Keystroke(s, kbdState)
            /\ UNCHANGED <<typed, reading, got, want>>
         \/ /\ ~More(s) /\ CharIn(s, kbdState) # NoChar
            /\ seq' = <<>> /\ reading' = FALSE
            /\ got' = CharIn(s, kbdState)
            /\ want' = IF typed = <<>> THEN NoChar ELSE Head(typed)
            /\ typed' = IF typed = <<>> THEN <<>> ELSE Tail(typed)
            /\ UNCHANGED kbdState
  BY <1>1, CharNow DEF NextCode
<1>3. /\ Types
      /\ kbbuf \in Seq(Code)
      /\ wire \in Seq(Code)
      /\ seq \in Seq(Code)
      /\ typed \in Seq(Character)
      /\ c \in Code /\ Tail(kbbuf) \in Seq(Code) /\ Len(Tail(kbbuf)) = Len(kbbuf) - 1
  <2>1. /\ Types /\ kbbuf \in Seq(Code) /\ wire \in Seq(Code) /\ seq \in Seq(Code)
        /\ typed \in Seq(Character)
    BY DEF Inv, Types
  <2> QED
    BY <1>2, <2>1, HeadTailProperties
<1>4. s \in Seq(Code) /\ <<>> \in Seq(Code)
  BY <1>1, <1>3, AppendProperties
<1>5. Types'
  <2>1. Len(kbbuf') <= Cap /\ kbbuf' \in Seq(Code)
    BY <1>2, <1>3, CallsAssumption DEF Types
  <2>2. seq' \in Seq(Code) /\ (seq' = <<>> \/ More(seq'))
    BY <1>2, <1>4
  <2>3. typed' \in Seq(Character) /\ want' \in Character \union {NoChar}
    <3>1. typed # <<>> => Head(typed) \in Character /\ Tail(typed) \in Seq(Character)
      BY <1>3, HeadTailProperties
    <3> QED
      BY <1>2, <1>3, <3>1 DEF Types
  <2>4. kbdState' \subseteq Bits
    BY <1>2, <1>3, StrokeType DEF Types
  <2>5. got' \in Character \union {NoChar} /\ reading' \in BOOLEAN
    BY <1>2, <1>3, CharType DEF Types
  <2> QED
    BY <1>2, <1>3, <2>1, <2>2, <2>3, <2>4, <2>5 DEF Types, typist
<1>6. ASSUME ~lost PROVE Arrives' /\ got' = want'
  <2>1. PICK m \in Machine : Goes(Pending, Now, m) /\ Rest(m)
    BY <1>6 DEF Inv, Arrives
  <2>2. /\ Pending \in Seq(Code) /\ Pending # <<>> /\ Head(Pending) = c
        /\ Tail(Pending) = Pending'
    <3>1. Pending # <<>> /\ Head(Pending) = Head(kbbuf) /\ Tail(Pending) = Tail(kbbuf) \o wire
      BY <1>2, <1>3, HeadTailConcat DEF Pending
    <3> QED
      BY <1>2, <1>3, <3>1, NowType DEF Pending
  <2>3. PICK d \in Machine : Turn(Now, c, d) /\ Goes(Pending', d, m)
    BY <2>1, <2>2, GoesFirst
  <2>4. /\ Now.seq = seq /\ Now.bits = kbdState /\ Now.out = typed
    BY <1>3, NowType
  <2>5. \/ /\ More(s)
           /\ d.seq = s /\ d.bits = kbdState /\ d.out = typed
        \/ /\ ~More(s) /\ CharIn(s, kbdState) = NoChar
           /\ d.seq = <<>> /\ d.bits = Keystroke(s, kbdState) /\ d.out = typed
        \/ /\ ~More(s) /\ CharIn(s, kbdState) # NoChar
           /\ typed # <<>> /\ Head(typed) = CharIn(s, kbdState)
           /\ d.seq = <<>> /\ d.bits = kbdState /\ d.out = Tail(typed)
    BY <1>1, <2>3, <2>4 DEF Turn
  <2>6. d.seq = seq' /\ d.bits = kbdState' /\ d.out = typed' /\ got' = want'
    BY <1>2, <1>6, <2>5 DEF Inv
  <2>7. Now' = d
    BY <2>6 DEF Now, Machine
  <2>8. Goes(Pending', Now', m)
    BY <2>3, <2>7
  <2>9. Rest(m)'
    BY <1>2, <2>1 DEF Rest, Agree, typist
  <2>10. Arrives'
    BY <2>8, <2>9 DEF Arrives, Goes
  <2> QED
    BY <2>6, <2>10
<1>7. ~reading' => seq' = <<>>
  BY <1>2
<1> QED
  BY <1>2, <1>5, <1>6, <1>7 DEF Inv

LEMMA GetKeystrokeStep == ASSUME Inv, GetKeystroke PROVE Inv'
<1>1. /\ kbbuf # <<>> /\ kbbuf' = Tail(kbbuf) /\ Lose(TRUE)
      /\ UNCHANGED <<typist, wire, kbdState, reading, seq, got, want>>
  BY DEF GetKeystroke
<1>2. Types /\ (~reading => seq = <<>>)
  BY DEF Inv
<1>3. lost' = TRUE /\ typed' \in Seq(Character)
  BY <1>2, <1>1, LoseTypes
<1>4. kbbuf' \in Seq(Code) /\ Len(kbbuf') <= Cap
  <2>1. kbbuf \in Seq(Code) /\ Len(kbbuf) <= Cap /\ Len(kbbuf) \in Nat
    BY <1>2, LenProperties DEF Types
  <2>2. kbbuf' \in Seq(Code) /\ Len(kbbuf') = Len(kbbuf) - 1
    BY <1>1, <2>1, HeadTailProperties
  <2> QED
    BY <2>1, <2>2, CallsAssumption
<1>5. Types'
  BY <1>1, <1>2, <1>3, <1>4 DEF Types, typist
<1> QED
  BY <1>1, <1>2, <1>3, <1>5 DEF Inv

LEMMA FlushBufferStep == ASSUME Inv, FlushBuffer PROVE Inv'
<1>1. /\ kbbuf' = <<>> /\ Lose(kbbuf # <<>>)
      /\ UNCHANGED <<typist, wire, kbdState, reading, seq, got, want>>
  BY DEF FlushBuffer
<1>2. Types /\ (~reading => seq = <<>>)
  BY DEF Inv
<1>3. /\ lost' \in BOOLEAN /\ typed' \in Seq(Character) /\ (kbbuf # <<>> => lost')
      /\ (kbbuf = <<>> => lost' = lost /\ typed' = typed)
  BY <1>1, <1>2, LoseTypes
<1>4. kbbuf' \in Seq(Code) /\ Len(kbbuf') <= Cap
  <2>1. <<>> \in Seq(Code) /\ Len(<<>>) = 0 /\ Cap \in Nat
    BY CallsAssumption
  <2> QED
    BY <1>1, <2>1
<1>5. Types'
  BY <1>1, <1>2, <1>3, <1>4 DEF Types, typist
<1>6. ASSUME ~lost' PROVE Arrives' /\ got' = want'
  <2>1. kbbuf = <<>> /\ ~lost /\ typed' = typed
    BY <1>3, <1>6
  <2>2. Pending' = Pending
    BY <1>1, <2>1 DEF Pending
  <2> QED
    BY <1>1, <2>1, <2>2, ArrivesStill DEF Inv, typist
<1> QED
  BY <1>1, <1>2, <1>5, <1>6 DEF Inv

LEMMA InvNext == Inv /\ [Next]_vars => Inv'
<1> SUFFICES ASSUME Inv, [Next]_vars PROVE Inv'
  OBVIOUS
<1>1. CASE \E k \in Keys : Press(k) \/ Release(k)
  BY <1>1, PressStep, ReleaseStep
<1>2. CASE UNCHANGED vars
  <2>1. Pending' = Pending
    BY <1>2 DEF vars, Pending
  <2>2. Types'
    BY <1>2 DEF vars, typist, Inv, Types
  <2>3. ~lost' => Arrives'
    BY <1>2, <2>1, ArrivesStill DEF vars, typist, Inv
  <2> QED
    BY <1>2, <2>2, <2>3 DEF vars, Inv
<1> QED
  BY <1>1, <1>2, KbdIrqStep, GetCharStep, NextCodeStep, GetKeystrokeStep, FlushBufferStep
     DEF Next

(* The inductive invariant holds in every state: the shape of the state,   *)
(* the last character returned was the one meant, and process_keystroke    *)
(* over the codes in kbbuf and on the wire ends with all typed characters  *)
(* returned and kbd_state agreeing with the keys that are down.            *)
THEOREM Invariance == Spec => []Inv
  BY InvInit, InvNext, PTL DEF Spec

-----------------------------------------------------------------------------
(* The theorems.                                                           *)

(* Shape of the state: no ring is ever overfull, and process_keystroke     *)
(* never has more codes of a sequence than the longest has.                *)
THEOREM TypeCorrect == Spec => []TypeOK
<1>1. Inv => TypeOK
  <2> SUFFICES ASSUME Inv PROVE TypeOK
    OBVIOUS
  <2>1. Types
    BY DEF Inv
  <2>2. Range(typed) \subseteq Character
    BY <2>1 DEF Types, Range
  <2>3. Range(wire) \union Range(kbbuf) \union Range(seq) \subseteq Code
    BY <2>1 DEF Types, Range
  <2>4. Len(seq) < Len(Pause)
    <3>1. CASE seq = <<>>
      BY <3>1, PauseStarts
    <3>2. CASE More(seq)
      BY <2>1, <3>2, Shorter DEF Types
    <3> QED
      BY <2>1, <3>1, <3>2 DEF Types
  <2> QED
    BY <2>1, <2>2, <2>3, <2>4 DEF TypeOK, Types
<1> QED
  BY <1>1, Invariance, PTL

(* get_key_char returns what was typed, however long the codes lay in the  *)
(* ring and whatever keys are held, as long as no code was lost; under     *)
(* caps lock the shifted character of every key with two, digits and       *)
(* punctuation like letters (ps2kbms.c:553-561).                           *)
THEOREM CharactersAsTyped == Spec => []KeysAsTyped
<1>1. Inv => KeysAsTyped
  BY DEF Inv, KeysAsTyped
<1> QED
  BY <1>1, Invariance, PTL

LEMMA SettledAgrees == ASSUME Inv, Settled PROVE Agree(kbdState) /\ Types
<1>1. Types /\ Pending = <<>>
  BY ConcatEmptySeq DEF Inv, Types, Pending, Settled
<1>2. PICK m \in Machine : Goes(Pending, Now, m) /\ Rest(m)
  BY DEF Inv, Arrives, Settled
<1>3. m = Now /\ m.bits = kbdState
  BY <1>1, <1>2, GoesNone, NowType
<1> QED
  BY <1>1, <1>2, <1>3 DEF Rest

(* Once everything has been read, kbd_state's modifiers are the keys held  *)
(* down, on a keyboard without a right control and a right alt key.        *)
THEOREM ModifiersFollow ==
    ASSUME Keys \intersect {"rctrl", "ralt"} = {}
    PROVE  Spec => []ModifiersAgree
<1>1. Inv => ModifiersAgree
  <2> SUFFICES ASSUME Inv, Settled
               PROVE  /\ ("SHIFT" \in kbdState) = (held \intersect {"lshift", "rshift"} # {})
                      /\ ("CTRL" \in kbdState) = (held \intersect {"lctrl", "rctrl"} # {})
                      /\ ("ALT" \in kbdState) = (held \intersect {"lalt", "ralt"} # {})
    BY DEF ModifiersAgree
  <2>1. Agree(kbdState) /\ held \subseteq Keys
    BY SettledAgrees DEF Types
  <2> QED
    BY <2>1 DEF Agree, LeftOnly
<1> QED
  BY <1>1, Invariance, PTL

(* And its lock bits the parity of the presses, on every keyboard.         *)
THEOREM LocksFollow == Spec => []LocksAgree
<1>1. Inv => LocksAgree
  <2> SUFFICES ASSUME Inv, Settled, NEW k \in DOMAIN LockBit
               PROVE  (LockBit[k] \in kbdState) = (k \in locks)
    BY DEF LocksAgree
  <2>1. Agree(kbdState)
    BY SettledAgrees
  <2>2. k \in {"caps", "num", "scroll", "insert"}
    BY Named
  <2> QED
    BY <2>1, <2>2 DEF Agree, LockBit
<1> QED
  BY <1>1, Invariance, PTL
=============================================================================
