------------------------------- MODULE MCFat --------------------------------
(***************************************************************************)
(* Volumes of each FAT type: a root directory with a label, a long name, a *)
(* deleted entry, a file A of three clusters out of order, an empty file B *)
(* and a directory D with a file C.  On the FAT12 the entry of cluster 5   *)
(* lies across two sectors of the FAT.  The bytes of A's first cluster,    *)
(* and of some boot sectors, have no end mark among them.                  *)
(***************************************************************************)
EXTENDS Fat

Entry(name, attr, head, size) == [name |-> name, attr |-> attr, head |-> head, size |-> size]

Root(a, d) ==
    <<Entry("label", {"volume"}, 0, 0),
      Entry("long", LfnEntry, 0, 0), Entry("A", {}, a, 18),
      Entry(Deleted, {}, a, 18),
      Entry("D", {"directory"}, d, 0), Entry("B", {}, 0, 0)>>
Sub(c) == <<Entry("C", {}, c, 5)>>
Junk == <<Entry("junk", {}, 0, 0)>>
Noise == [i \in 1..8 |-> IF i = 1 THEN Junk[1] ELSE Entry(Deleted, {}, 0, 0)]

Small ==
    [reserved |-> 1, fat_count |-> 2, fat_size |-> 2, root_entry_count |-> 8,
     sectors_per_cluster |-> 1, root_cluster |-> 0, total |-> 11,
     root_head |-> 0, root_sector |-> 5, first_data |-> 6,
     chains |-> (2 :> <<2, 5, 3>> @@ 4 :> <<4>> @@ 6 :> <<6>>),
     rows |-> (0 :> Junk @@ 5 :> Root(2, 4) @@ 6 :> Noise @@ 8 :> Sub(6))]

Middle ==
    [Small EXCEPT !.total = 12,
                  !.chains = 2 :> <<2, 6, 4>> @@ 3 :> <<3>> @@ 5 :> <<5>>,
                  !.rows = 0 :> Noise @@ 5 :> Root(2, 3) @@ 6 :> Noise @@ 7 :> Sub(5)]

Large ==
    [Small EXCEPT !.reserved = 2, !.fat_count = 1, !.fat_size = 5, !.root_entry_count = 0,
                  !.root_cluster = 2, !.total = 15,
                  !.root_head = 2, !.root_sector = 7, !.first_data = 7,
                  !.chains = 2 :> <<2>> @@ 3 :> <<3, 6, 4>> @@ 5 :> <<5>> @@ 7 :> <<7>>,
                  !.rows = 0 :> Noise @@ 1 :> Junk @@ 7 :> Root(3, 5) @@ 8 :> Noise @@ 10 :> Sub(7)]

AllTypes == {Small, Middle, Large}
ASSUME \A v \in AllTypes : NoHidden(v)

(* A root directory of two sectors, the first of them full.                *)
LongRoot ==
    {[Small EXCEPT !.root_entry_count = 16, !.total = 12, !.first_data = 7,
                   !.rows = 5 :> [i \in 1..8 |-> Entry("B", {}, 0, 0)] @@ 6 :> Root(2, 4)]}

(* Blocks of 4 end where a cluster ends, blocks of 6 lie across two.       *)
Reads == {<<4, 3>>, <<6, 3>>}
Seeks == {<<"set", 6>>, <<"set", -1>>, <<"cur", 6>>, <<"end", -6>>, <<"end", 1>>}
=============================================================================
