---------------------------- MODULE BoundedQueue ----------------------------
(***************************************************************************)
(* What a ringbuf8 promises its callers: a first-in first-out queue of at  *)
(* most Capacity bytes.  A call is invoked, takes effect in one step, and  *)
(* responds; ret is 0 when it did its work and 1 when it could not (pop of *)
(* an empty queue, push to a full one), in which case it changed nothing.  *)
(* RingBuf is shown to implement this module.                              *)
(***************************************************************************)
EXTENDS Integers, Sequences

CONSTANTS Client,     (* who calls: the foreground and interrupt handlers  *)
          Ops,        (* Ops[c]: the calls client c makes                  *)
          Data,       (* the bytes that are stored                         *)
          NoData,     (* no byte                                           *)
          Capacity    (* how many bytes fit                                *)

VARIABLES queue,
          phase,      (* phase[c]: "idle", "called" or "done"              *)
          op, arg,    (* the call of c, and the byte it pushes             *)
          ret, got    (* the result of the call, and the byte it popped    *)

bqVars == <<queue, phase, op, arg, ret, got>>

Init ==
    /\ queue = <<>>
    /\ phase = [c \in Client |-> "idle"]
    /\ op = [c \in Client |-> "none"]
    /\ arg = [c \in Client |-> NoData]
    /\ ret = [c \in Client |-> 0]
    /\ got = [c \in Client |-> NoData]

Invoke(c, o, d) ==
    /\ o \in Ops[c]
    /\ phase[c] = "idle"
    /\ phase' = [phase EXCEPT ![c] = "called"]
    /\ op' = [op EXCEPT ![c] = o]
    /\ arg' = [arg EXCEPT ![c] = IF o = "push" THEN d ELSE NoData]
    /\ UNCHANGED <<queue, ret, got>>

Effect(c, r) ==
    /\ phase[c] = "called"
    /\ phase' = [phase EXCEPT ![c] = "done"]
    /\ ret' = [ret EXCEPT ![c] = r]
    /\ UNCHANGED <<op, arg>>

Push(c) ==
    /\ op[c] = "push" /\ Len(queue) < Capacity
    /\ queue' = Append(queue, arg[c])
    /\ Effect(c, 0)
    /\ UNCHANGED got

Pop(c) ==
    /\ op[c] = "pop" /\ queue # <<>>
    /\ got' = [got EXCEPT ![c] = Head(queue)]
    /\ queue' = Tail(queue)
    /\ Effect(c, 0)

Flush(c) ==
    /\ op[c] = "flush"
    /\ queue' = <<>>
    /\ Effect(c, 0)
    /\ UNCHANGED got

Refuse(c) ==
    /\ \/ op[c] = "push" /\ Len(queue) = Capacity
       \/ op[c] = "pop" /\ queue = <<>>
    /\ Effect(c, 1)
    /\ UNCHANGED <<queue, got>>

Respond(c) ==
    /\ phase[c] = "done"
    /\ phase' = [phase EXCEPT ![c] = "idle"]
    /\ op' = [op EXCEPT ![c] = "none"]
    /\ arg' = [arg EXCEPT ![c] = NoData]
    /\ ret' = [ret EXCEPT ![c] = 0]
    /\ got' = [got EXCEPT ![c] = NoData]
    /\ UNCHANGED queue

Next ==
    \E c \in Client :
        \/ \E o \in Ops[c], d \in Data : Invoke(c, o, d)
        \/ Push(c) \/ Pop(c) \/ Flush(c) \/ Refuse(c)
        \/ Respond(c)

Spec == Init /\ [][Next]_bqVars
=============================================================================
