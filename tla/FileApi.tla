------------------------------ MODULE FileApi ------------------------------
(***************************************************************************)
(* What a program is promised of its open files (src/fs/fat.h): a file is  *)
(* its bytes and a position.  A read hands over whole blocks, as many as   *)
(* fit, and moves the position past them.  A disk that fails can spoil the *)
(* bytes of a read, never their number nor the position.                   *)
(***************************************************************************)
EXTENDS Integers, Sequences, FiniteSetsExt

CONSTANTS Handles,
          ReadArgs,   (* pairs of a block size and a number of blocks       *)
          SeekArgs    (* pairs of an origin and an offset                   *)

VARIABLES file,   (* each handle's bytes and position                       *)
          got     (* what the last call returned, if it was about a file    *)

Nothing == [ret |-> -2, data |-> <<>>, clean |-> TRUE]

Init == got = Nothing /\ \A h \in Handles : file[h] = [bytes |-> <<>>, pos |-> 0]

(* Whatever file it is, it is at its start.                                *)
Open(h) ==
    /\ file' = [file EXCEPT ![h] = [bytes |-> file'[h].bytes, pos |-> 0]]
    /\ UNCHANGED got

AtEnd(f) == f.pos \notin 0..(Len(f.bytes) - 1)

(* The file has no byte at its position: -1.                               *)
ReadNothing(h) ==
    /\ AtEnd(file[h])
    /\ got'.ret = -1 /\ got'.data = <<>>
    /\ UNCHANGED file

Read(h, size, count) ==
    LET f == file[h]
        n == Min({count, (Len(f.bytes) - f.pos) \div size})
    IN  /\ ~AtEnd(f)
        /\ got'.ret = n /\ Len(got'.data) = n * size
        /\ got'.clean => got'.data = SubSeq(f.bytes, f.pos + 1, f.pos + n * size)
        /\ file' = [file EXCEPT ![h].pos = @ + n * size]

(* Calls that are not about a file.                                        *)
Other == got' = Nothing /\ UNCHANGED file

(* A position within the file is taken.  From the end, one before its      *)
(* start is taken too: there is nothing to read there.                     *)
Seek(h, origin, offset) ==
    LET f == file[h]
        to == offset + [set |-> 0, cur |-> f.pos, end |-> Len(f.bytes)][origin]
        taken == to <= Len(f.bytes) /\ (origin # "end" => to >= 0)
    IN  /\ got'.ret = IF taken THEN 0 ELSE 1
        /\ file' = IF taken THEN [file EXCEPT ![h].pos = to] ELSE file

Tell(h) ==
    /\ got'.ret = IF file[h].pos >= 0 THEN file[h].pos ELSE -1
    /\ UNCHANGED file

Next ==
    \/ Other
    \/ \E h \in Handles :
        \/ Open(h) \/ ReadNothing(h) \/ Tell(h)
        \/ \E a \in ReadArgs : Read(h, a[1], a[2])
        \/ \E a \in SeekArgs : Seek(h, a[1], a[2])

Spec == Init /\ [][Next]_<<file, got>>
=============================================================================
