------------------------------ MODULE Keyboard ------------------------------
(***************************************************************************)
(* The keyboard half of src/hw/ps2kbms.c: scan codes come in through the   *)
(* interrupt handler and kbbuf, and process_keystroke turns them into      *)
(* characters and modifier flags, for a typist who presses and releases    *)
(* keys at any time.                                                       *)
(*                                                                         *)
(* kbbuf is an atomic FIFO queue (RingBuf), the i8042 is set up and passes *)
(* one code at a time to the handler.  The typist is slower than the wire: *)
(* the codes of one key event have gone out before the next event.  A key  *)
(* held down does not repeat its code.                                     *)
(***************************************************************************)
EXTENDS Integers, Sequences, SequencesExt

CONSTANTS Keys,   (* the keys the typist uses, among DOMAIN MakeCode       *)
          Calls,  (* the calls made: "char", "stroke", "flush"             *)
          Cap,    (* codes kbbuf holds                                     *)
          MaxHeld (* bound: keys held down together                        *)

VARIABLES held,         (* keys the typist holds down                      *)
          locks,        (* lock keys in their on state, as the typist      *)
                        (* counts them                                     *)
          typed,        (* characters typed and not yet returned           *)
          wire, kbbuf,  (* codes on their way, and in the ring             *)
          kbdState,     (* kbd_state, as the set of its KS_ bits           *)
          reading,      (* the foreground is in get_key_char               *)
          seq,          (* what process_keystroke has of the next sequence *)
          got, want,    (* the last character returned, and the one the    *)
                        (* typist meant                                    *)
          lost          (* some code did not reach process_keystroke       *)

typist == <<held, locks>>
vars == <<typist, typed, wire, kbbuf, kbdState, reading, seq, got, want, lost>>

(* Scan code set 1.  The pause key sends all its codes when it is pressed. *)
Pause == <<\hE1, \h1D, \h45, \hE1, \h9D, \hC5>>
MakeCode ==
    [lshift |-> <<\h2A>>, rshift |-> <<\h36>>,
     lctrl |-> <<\h1D>>, rctrl |-> <<\hE0, \h1D>>,
     lalt |-> <<\h38>>, ralt |-> <<\hE0, \h38>>,
     caps |-> <<\h3A>>, num |-> <<\h45>>, scroll |-> <<\h46>>,
     insert |-> <<\hE0, \h52>>, pause |-> Pause,
     one |-> <<\h02>>, a |-> <<\h1E>>, slash |-> <<\hE0, \h35>>, up |-> <<\hE0, \h48>>]
BreakCode(k) ==
    IF k = "pause" THEN <<>>
    ELSE [i \in 1..Len(MakeCode[k]) |->
            IF i = Len(MakeCode[k]) THEN MakeCode[k][i] + 128 ELSE MakeCode[k][i]]

ASSUME KeysAssumption == Keys \subseteq DOMAIN MakeCode
ASSUME CallsAssumption == Calls \subseteq {"char", "stroke", "flush"} /\ {Cap, MaxHeld} \subseteq Nat \ {0}

LockBit == [caps |-> "CAPSLOCK", num |-> "NUMLOCK", scroll |-> "SCROLLLOCK",
            insert |-> "INSERT"]
Code == 0..255

(* scancode_table, of a key with two characters each row; the slash key of *)
(* the number pad has one.                                                 *)
Table == [a |-> <<"a", "A">>, one |-> <<"1", "!">>]
Writing == {"a", "one", "slash"}
Character == {"a", "A", "1", "!", "/"}
NoChar == "none"

Init ==
    /\ held = {} /\ locks = {} /\ typed = <<>>
    /\ wire = <<>> /\ kbbuf = <<>> /\ kbdState = {}
    /\ reading = FALSE /\ seq = <<>>
    /\ got = NoChar /\ want = NoChar /\ lost = FALSE

-----------------------------------------------------------------------------
(* The typist, who stops when a code is lost: nothing is promised then.    *)

(* He knows that caps lock is a shift lock here: it turns round every key  *)
(* with two characters, digits and punctuation as well as letters.         *)
Meant(k) ==
    LET shifted == ("caps" \in locks) # (held \intersect {"lshift", "rshift"} # {})
    IN IF k \in DOMAIN Table THEN Table[k][IF shifted THEN 2 ELSE 1] ELSE "/"

Press(k) ==
    /\ wire = <<>> /\ ~lost /\ k \notin held /\ Cardinality(held) < MaxHeld
    /\ wire' = MakeCode[k]
    /\ held' = IF k = "pause" THEN held ELSE held \union {k}
    /\ locks' = IF k \in DOMAIN LockBit THEN SymDiff(locks, {k}) ELSE locks
    /\ typed' = IF k \in Writing THEN Append(typed, Meant(k)) ELSE typed
    /\ UNCHANGED <<kbbuf, kbdState, reading, seq, got, want, lost>>

Release(k) ==
    /\ wire = <<>> /\ ~lost /\ k \in held
    /\ wire' = BreakCode(k)
    /\ held' = held \ {k}
    /\ UNCHANGED <<locks, typed, kbbuf, kbdState, reading, seq, got, want, lost>>

Lose(yes) ==
    /\ lost' = (lost \/ yes)
    /\ typed' = IF yes THEN <<>> ELSE typed

-----------------------------------------------------------------------------
(* A faulty variant: the code is stored without a test for a full ring.    *)
KbdIrqUnchecked ==
    /\ wire # <<>>
    /\ wire' = Tail(wire)
    /\ kbbuf' = Append(kbbuf, Head(wire))
    /\ UNCHANGED <<typist, typed, kbdState, reading, seq, got, want, lost>>

(* ps2kbms_irq_handler for a keyboard byte; a full ring drops it.          *)
KbdIrq ==
    LET full == Len(kbbuf) = Cap IN
    /\ wire # <<>>
    /\ wire' = Tail(wire)
    /\ kbbuf' = IF full THEN kbbuf ELSE Append(kbbuf, Head(wire))
    /\ Lose(full)
    /\ UNCHANGED <<typist, kbdState, reading, seq, got, want>>

-----------------------------------------------------------------------------
(* process_keystroke, once the sequence s is complete.                     *)

(* A faulty variant: 0xE1 is taken for a prefix of one more code.          *)
MoreAfterPrefix(s) == s = <<\hE0>> \/ s = <<\hE1>>
(* Whether another code is popped after s.                                 *)
More(s) == s = <<\hE0>> \/ IsStrictPrefix(s, Pause)

(* A faulty variant: caps lock overrides shift.                            *)
ShiftedOr == "CAPSLOCK" \in kbdState \/ "SHIFT" \in kbdState
Shifted == ("CAPSLOCK" \in kbdState) # ("SHIFT" \in kbdState)

Typed(k) == Table[k][IF Shifted THEN 2 ELSE 1]

(* A faulty variant: codes after 0xE0 never give a character.              *)
CharOfPlain(s) ==
    IF s = MakeCode["a"] THEN Typed("a") ELSE IF s = MakeCode["one"] THEN Typed("one") ELSE NoChar
CharOf(s) ==
    IF s = MakeCode["a"] THEN Typed("a")
    ELSE IF s = MakeCode["one"] THEN Typed("one")
    ELSE IF s = MakeCode["slash"] THEN "/" ELSE NoChar

(* A faulty variant: releasing one shift key releases both.                *)
SideUpBoth(bits, side) == bits \ {"SHIFT", "LSHIFT", "RSHIFT"}
SideUp(bits, side) ==
    LET rest == bits \ {side} IN
    IF rest \intersect {"LSHIFT", "RSHIFT"} = {} THEN rest \ {"SHIFT"} ELSE rest

Keystroke(s, bits) ==
    CASE s = <<\h1D>> -> bits \union {"CTRL", "LCTRL"}
      [] s = <<\h9D>> -> bits \ {"CTRL", "LCTRL", "RCTRL"}
      [] s = <<\h2A>> -> bits \union {"SHIFT", "LSHIFT"}
      [] s = <<\hAA>> -> SideUp(bits, "LSHIFT")
      [] s = <<\h36>> -> bits \union {"SHIFT", "RSHIFT"}
      [] s = <<\hB6>> -> SideUp(bits, "RSHIFT")
      [] s = <<\h38>> -> bits \union {"ALT", "LALT"}
      [] s = <<\hB8>> -> bits \ {"ALT", "LALT", "RALT"}
      [] s = <<\h3A>> -> SymDiff(bits, {"CAPSLOCK"})
      [] s = <<\h45>> -> SymDiff(bits, {"NUMLOCK"})
      [] s = <<\h46>> -> SymDiff(bits, {"SCROLLLOCK"})
      [] s = <<\hE0, \h52>> -> SymDiff(bits, {"INSERT"})
      [] s = <<\hE0, \h38>> -> bits \union {"ALT", "RALT"}
      [] s = <<\hE0, \h1D>> -> bits \union {"CTRL", "RCTRL"}
      [] OTHER -> bits

GetChar ==
    /\ "char" \in Calls /\ ~reading
    /\ reading' = TRUE
    /\ got' = NoChar /\ want' = NoChar
    /\ UNCHANGED <<typist, typed, wire, kbbuf, kbdState, seq, lost>>

(* One pop of process_keystroke: more codes are needed, or the sequence    *)
(* changes kbd_state and get_key_char goes on, or it gives a character.    *)
NextCode ==
    LET s == Append(seq, Head(kbbuf)) IN
    /\ reading /\ kbbuf # <<>>
    /\ kbbuf' = Tail(kbbuf)
    /\ \/ /\ More(s)
          /\ seq' = s
          /\ UNCHANGED <<typed, kbdState, reading, got, want>>
       \/ /\ ~More(s) /\ CharOf(s) = NoChar
          /\ seq' = <<>>
          /\ kbdState' = Keystroke(s, kbdState)
          /\ UNCHANGED <<typed, reading, got, want>>
       \/ /\ ~More(s) /\ CharOf(s) # NoChar
          /\ seq' = <<>> /\ reading' = FALSE
          /\ got' = CharOf(s)
          /\ want' = IF typed = <<>> THEN NoChar ELSE Head(typed)
          /\ typed' = IF typed = <<>> THEN <<>> ELSE Tail(typed)
          /\ UNCHANGED kbdState
    /\ UNCHANGED <<typist, wire, lost>>

(* ps2kb_get_keystroke takes one raw code past process_keystroke.          *)
GetKeystroke ==
    /\ "stroke" \in Calls /\ ~reading /\ kbbuf # <<>>
    /\ kbbuf' = Tail(kbbuf)
    /\ Lose(TRUE)
    /\ UNCHANGED <<typist, wire, kbdState, reading, seq, got, want>>

FlushBuffer ==
    /\ "flush" \in Calls /\ ~reading
    /\ kbbuf' = <<>>
    /\ Lose(kbbuf # <<>>)
    /\ UNCHANGED <<typist, wire, kbdState, reading, seq, got, want>>

Next ==
    \/ \E k \in Keys : Press(k) \/ Release(k)
    \/ KbdIrq
    \/ GetChar \/ NextCode \/ GetKeystroke \/ FlushBuffer

Spec == Init /\ [][Next]_vars

(* The interrupt is served and the foreground executes on; nobody has to   *)
(* press a key or to call.                                                 *)
FairSpec == Spec /\ WF_vars(KbdIrq) /\ WF_vars(NextCode)

-----------------------------------------------------------------------------
(* Shape of the state; kbbuf never holds more than it can.                 *)
TypeOK ==
    /\ held \subseteq Keys /\ locks \subseteq DOMAIN LockBit
    /\ Range(typed) \subseteq Character
    /\ Range(wire) \union Range(kbbuf) \union Range(seq) \subseteq Code
    /\ Len(kbbuf) <= Cap /\ Len(seq) < Len(Pause)
    /\ {got, want} \subseteq Character \union {NoChar}
    /\ {reading, lost} \subseteq BOOLEAN

(* Every character get_key_char returns is the one that was typed, as      *)
(* shift and caps lock were when the key went down, however late the codes *)
(* are read and whatever was pressed since: as long as no code was lost.   *)
(* What caps lock does is the driver's own choice (ps2kbms.c:553-561): it  *)
(* turns round digits and punctuation as well, which no other text of the  *)
(* repository asks for or rules out.                                       *)
KeysAsTyped == ~lost => got = want

Settled == ~lost /\ wire = <<>> /\ kbbuf = <<>> /\ seq = <<>>

(* Once every code has been processed, the modifier bits of kbd_state are  *)
(* those of the keys held down: a press and a release on either side, in   *)
(* any order, leave no modifier stuck and none forgotten.                  *)
ModifiersAgree ==
    Settled =>
        /\ ("SHIFT" \in kbdState) = (held \intersect {"lshift", "rshift"} # {})
        /\ ("CTRL" \in kbdState) = (held \intersect {"lctrl", "rctrl"} # {})
        /\ ("ALT" \in kbdState) = (held \intersect {"lalt", "ralt"} # {})

(* And each lock bit is on exactly after an odd number of presses.         *)
LocksAgree ==
    Settled => \A k \in DOMAIN LockBit : (LockBit[k] \in kbdState) = (k \in locks)

(* get_key_char returns once a character has been typed, whatever other    *)
(* codes come before and after it.                                         *)
CharDelivered == reading /\ typed # <<>> ~> ~reading \/ lost
=============================================================================
