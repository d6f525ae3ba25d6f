-------------------------------- MODULE Fat --------------------------------
(***************************************************************************)
(* src/fs/fat.c: one volume mounted, read through two one-sector caches,   *)
(* databuf and fatbuf, which every open file and directory shares.  Calls  *)
(* come one after the other.  A transfer may fail before it moves anything *)
(* (the driver's error returns), and fat.c looks at no result.             *)
(*                                                                         *)
(* A cache is the sector it claims (lba) and the one whose bytes are in it *)
(* (holds).  A byte is named by its sector and its offset there.  A volume *)
(* is what mkfs made: the fields of its boot sector, the cluster chain of  *)
(* each file and directory by first cluster, and for each sector the row   *)
(* of entries that a scan for entries finds in it up to a zero first byte, *)
(* the end mark.  A sector of a directory has the directory's; but a scan  *)
(* may meet the bytes of any other sector, when a read failed.             *)
(***************************************************************************)
EXTENDS Integers, Sequences, SequencesExt, FiniteSetsExt

CONSTANTS Handles,
          Names, DirNames,          (* opened as a file, as a directory      *)
          Volumes,
          SectorSize, EntrySize,    (* 512 and 32 bytes in the code          *)
          Fat12Below, Fat16Below,   (* 4085 and 65525 clusters in the code   *)
          Word,                     (* 2^32 in the code                      *)
          ReadArgs,                 (* pairs of a block size and a number    *)
          SeekArgs,                 (* pairs of an origin and an offset      *)
          MaxFaults                 (* bound: calls with a failing sector    *)

VARIABLES vol,                (* the disk in the drive                      *)
          fs,                 (* geometry, from fat_mount                   *)
          databuf, fatbuf,    (* the caches                                 *)
          files,              (* struct fat_file of each handle             *)
          cwd,                (* head cluster of the struct fat_dir in use  *)
          iter,               (* the program's own directory iteration      *)
          call,               (* the call that walks a directory, if any    *)
          got,                (* what the last file call returned           *)
          faults              (* calls a sector failed in                   *)

vars == <<vol, fs, databuf, fatbuf, files, cwd, iter, call, got, faults>>

ASSUME SizesAssumption ==
    /\ {SectorSize, EntrySize, Fat12Below, Fat16Below, Word} \subseteq Nat \ {0}
    /\ SectorSize >= 4 /\ Word >= 4 /\ SectorSize \div EntrySize \in 1..255
    /\ MaxFaults \in Nat

None == -1
MaxCluster(t) == CASE t = 12 -> \hFF4 [] t = 16 -> \hFFF4 [] t = 32 -> \hFFFFFF6
EndCluster(t) == CASE t = 12 -> \hFFF [] t = 16 -> \hFFFF [] t = 32 -> \hFFFFFFF

-----------------------------------------------------------------------------
(* The volumes: as mkfs makes them, with one sector in a cluster, because  *)
(* read_cluster reads no other.                                            *)

GeometryOf(v) ==
    LET root == (v.root_entry_count * EntrySize + SectorSize - 1) \div SectorSize
        begin == v.reserved + v.fat_count * v.fat_size
        clusters == (v.total - (begin + root)) \div v.sectors_per_cluster
    IN  [type |-> CASE clusters < Fat12Below -> 12
                    [] clusters \in Fat12Below..(Fat16Below - 1) -> 16
                    [] OTHER -> 32,
         reserved |-> v.reserved, fat_size |-> v.fat_size,
         sectors_per_cluster |-> v.sectors_per_cluster,
         cluster_size |-> SectorSize * v.sectors_per_cluster,
         data_area_begin |-> begin, root_sector_count |-> root,
         root_cluster |-> v.root_cluster]

SectorAt(v, cluster) == v.first_data + (cluster - 2) * v.sectors_per_cluster

Numbers(v) ==
    /\ v.sectors_per_cluster = 1
    /\ {v.reserved, v.fat_count, v.fat_size} \subseteq Nat \ {0}
    /\ v.root_entry_count \in Nat /\ v.total \in 1..Word
    /\ v.first_data = GeometryOf(v).data_area_begin + GeometryOf(v).root_sector_count
    /\ v.first_data < v.total

RootAt(v) ==
    IF GeometryOf(v).type = 32
    THEN /\ v.root_head = v.root_cluster /\ v.root_head \in DOMAIN v.chains
         /\ v.root_sector = SectorAt(v, v.root_head) /\ v.root_entry_count = 0
    ELSE /\ v.root_head = 0 /\ v.root_sector = GeometryOf(v).data_area_begin
         /\ v.first_data > v.root_sector

(* Where the entry of a cluster ends lies within the FAT.                  *)
HasEntry(v, t, k) ==
    IF t = 12 THEN k + k \div 2 + 1 < v.fat_size * SectorSize
    ELSE k \div (SectorSize \div (t \div 8)) < v.fat_size

(* No cluster is in two places.  Those the code takes for marks are free:  *)
(* without this a full FAT12 or FAT16 could use the first of them.         *)
Chained(v) ==
    /\ \A c \in DOMAIN v.chains : v.chains[c] \in Seq(Nat) /\ Len(v.chains[c]) > 0 /\ v.chains[c][1] = c
    /\ \A c, d \in DOMAIN v.chains : \A i \in DOMAIN v.chains[c], j \in DOMAIN v.chains[d] :
          v.chains[c][i] = v.chains[d][j] => c = d /\ i = j
    /\ \A c \in DOMAIN v.chains : \A k \in ToSet(v.chains[c]) :
          /\ k \in 2..MaxCluster(GeometryOf(v).type) /\ SectorAt(v, k) < v.total
          /\ HasEntry(v, GeometryOf(v).type, k)

(* A quarter of the numbers of a word: 1 GB in the code.                   *)
Quarter == Word \div 4

Entered(v, e) ==
    /\ e.name # "end" /\ e.size \in 0..Quarter
    /\ e.size > 0 => e.head \in DOMAIN v.chains /\ e.size <= Len(v.chains[e.head]) * SectorSize
    /\ e.name \in DirNames => e.head \in DOMAIN v.chains \union {v.root_head}

Listed(v) ==
    \A lba \in DOMAIN v.rows :
        /\ v.rows[lba] \in Seq(ToSet(v.rows[lba])) /\ Len(v.rows[lba]) <= SectorSize \div EntrySize
        /\ \A e \in ToSet(v.rows[lba]) : Entered(v, e)

LfnEntry == {"readonly", "hidden", "system", "volume"}

(* The scan of a directory passes over all that has an attribute of a long *)
(* name.  Here no file is read-only, hidden or a system file.              *)
NoHidden(v) ==
    \A lba \in DOMAIN v.rows : \A e \in ToSet(v.rows[lba]) :
        e.attr \intersect LfnEntry # {} => "volume" \in e.attr

ASSUME VolumesAssumption ==
    \A v \in Volumes : Numbers(v) /\ RootAt(v) /\ Chained(v) /\ Listed(v)

(* A block fits into the memory that is left.                              *)
ASSUME CallsAssumption ==
    /\ \A a \in ReadArgs : a[1] \in 1..Quarter /\ a[2] \in Nat
    /\ \A a \in SeekArgs : a[1] \in {"set", "cur", "end"} /\ a[2] \in -Quarter..Quarter

-----------------------------------------------------------------------------
(* The volume in the drive, as the sectors of its FAT have it.             *)

Geometry == GeometryOf(vol)

FatEntry(k) ==
    LET of == {c \in DOMAIN vol.chains : k \in ToSet(vol.chains[c])}
    IN  IF of = {} THEN 0
        ELSE LET chain == vol.chains[CHOOSE c \in of : TRUE]
                 i == CHOOSE j \in DOMAIN chain : chain[j] = k
             IN  IF i = Len(chain) THEN EndCluster(fs.type) ELSE chain[i + 1]

(* Byte i of a FAT12: two entries of twelve bits in three bytes.           *)
Fat12Byte(i) ==
    LET lo == FatEntry(2 * (i \div 3))
        hi == FatEntry(2 * (i \div 3) + 1)
    IN  CASE i % 3 = 0 -> lo % 256
          [] i % 3 = 1 -> lo \div 256 + 16 * (hi % 16)
          [] i % 3 = 2 -> hi \div 16

InFat(lba) == lba \in fs.reserved..(fs.data_area_begin - 1)

(* Item i of the items a FAT sector has per of.                            *)
FatItem(lba, per, i) == ((lba - fs.reserved) % fs.fat_size) * per + i
ByteAt(lba, i) == IF InFat(lba) THEN Fat12Byte(FatItem(lba, SectorSize, i)) ELSE 0
WordAt(lba, per, i) == IF InFat(lba) THEN FatEntry(FatItem(lba, per, i)) ELSE 0

EndMark == [name |-> "end", attr |-> {}, head |-> 0, size |-> 0]
EntryAt(lba, i) ==
    IF lba \in DOMAIN vol.rows /\ i < Len(vol.rows[lba]) THEN vol.rows[lba][i + 1]
    ELSE EndMark

-----------------------------------------------------------------------------
(* Transfers and clusters.                                                 *)

(* The sectors that fail during a call.  Each action takes only failures   *)
(* that show: of a sector it transfers, and not read right after all.      *)
Bad == {{}} \union IF faults = MaxFaults THEN {} ELSE {{s} : s \in 0..(vol.total - 1)}
Count(bad) == faults' = faults + Cardinality(bad)

(* read_sector, read_cluster and read_fat: claim the sector, then read it. *)
Fill(buf, lba, bad) ==
    IF buf.lba = lba THEN buf
    ELSE [lba |-> lba,
          holds |-> IF lba \in bad \/ lba >= vol.total THEN buf.holds ELSE lba]

(* A faulty variant: the root directory of FAT12 and FAT16 is forgotten.   *)
ClusterToSectorRootless(cluster) == (cluster - 2) * fs.sectors_per_cluster + fs.data_area_begin

ClusterToSector(cluster) ==
    LET root == IF fs.type = 32 THEN 0 ELSE fs.root_sector_count
    IN  ((cluster - 2) * fs.sectors_per_cluster + fs.data_area_begin + root) % Word

ReadFat(fb, sector_idx, bad) == Fill(fb, fs.reserved + sector_idx, bad)
ReadCluster(db, cluster, bad) == Fill(db, ClusterToSector(cluster), bad)

Hop12(fb, c, bad) ==
    LET byte_idx == c + c \div 2
        sector_idx == byte_idx \div SectorSize
        offs == byte_idx % SectorSize
        first == ReadFat(fb, sector_idx, bad)
        second == IF offs = SectorSize - 1 THEN ReadFat(first, sector_idx + 1, bad) ELSE first
        b0 == ByteAt(first.holds, offs)
        b1 == ByteAt(second.holds, (offs + 1) % SectorSize)
    IN  [fb |-> second,
         cluster |-> IF c % 2 = 1 THEN b0 \div 16 + 16 * b1 ELSE b0 + 256 * (b1 % 16)]

HopWide(fb, c, bad) ==
    LET per == SectorSize \div (fs.type \div 8)
        b == ReadFat(fb, c \div per, bad)
    IN  [fb |-> b, cluster |-> WordAt(b.holds, per, c % per)]

(* One turn of get_next_cluster's loop.  It stops after the last cluster;  *)
(* with FAT12, whose values are below the limit tested, a turn later.      *)
Hop(s, bad) ==
    IF s.end \/ s.cluster > MaxCluster(fs.type) THEN [s EXCEPT !.end = TRUE]
    ELSE LET n == IF fs.type = 12 THEN Hop12(s.fb, s.cluster, bad)
                  ELSE HopWide(s.fb, s.cluster, bad)
             limit == MaxCluster(IF fs.type = 12 THEN 16 ELSE fs.type)
         IN  [fb |-> n.fb, cluster |-> n.cluster, end |-> n.cluster > limit]

Iterate(F(_), start, num) ==
    LET f[i \in 0..num] == IF i = 0 THEN start ELSE F(f[i - 1]) IN f[num]

GetNextCluster(fb, cluster, num, bad) ==
    Iterate(LAMBDA s : Hop(s, bad), [fb |-> fb, cluster |-> cluster, end |-> FALSE], num)

-----------------------------------------------------------------------------
(* Mounting.                                                               *)

NotMounted == [type |-> 0]
(* The CPU trapped in fat_mount, and system_dump does not return.          *)
Trapped == [type |-> None]
Mounted == fs \notin {NotMounted, Trapped}
RootHead == IF fs.type = 32 THEN fs.root_cluster ELSE 0

Empty == [lba |-> None, holds |-> None]
Closed == [open |-> FALSE, head |-> 0, size |-> 0, cursor |-> 0]
Start(head) == [head |-> head, block |-> 0, entry |-> 0]
NoIter == [it |-> Start(0), seen |-> <<>>, state |-> "none", clean |-> TRUE]
Idle == [op |-> "none"]
Nothing == [ret |-> -2, data |-> <<>>, clean |-> TRUE]
Result(n) == [Nothing EXCEPT !.ret = n]
Walking == call.op # "none"

Init ==
    /\ vol \in Volumes /\ fs = NotMounted
    /\ databuf = Empty /\ fatbuf = Empty
    /\ files = [h \in Handles |-> Closed]
    /\ cwd = 0
    /\ iter = NoIter
    /\ call = Idle
    /\ got = Nothing
    /\ faults = 0

(* The signature is looked for in whatever the cache holds after reading   *)
(* sector 0.  The FSINFO sector of a FAT32, which takes the cache next,    *)
(* ends in it too: mounted again without sector 0, it gives a sector size  *)
(* of 0 to divide by.  No other sector that is no boot sector ends so.     *)
Mount ==
    /\ ~Walking /\ fs # Trapped
    /\ \E bad \in Bad :
        LET boot == Fill([databuf EXCEPT !.lba = None], 0, bad)
            signed == boot.holds = 0
            fsinfo == boot.holds = 1 /\ Geometry.type = 32
        IN  /\ fs' = IF signed THEN Geometry ELSE IF fsinfo THEN Trapped ELSE fs
            /\ databuf' = IF signed /\ Geometry.type = 32 THEN Fill(boot, 1, bad) ELSE boot
            /\ bad = {} \/ databuf'.holds # databuf'.lba
            /\ Count(bad)
    /\ fatbuf' = [fatbuf EXCEPT !.lba = None] /\ got' = Nothing
    /\ UNCHANGED <<vol, files, cwd, iter, call>>

-----------------------------------------------------------------------------
(* Walking a directory.                                                    *)

Deleted == "deleted"

(* A faulty variant: entries of long names are returned too.               *)
StopsAnyAttr(e) == e.name # Deleted
(* The scan of a block stops here: its end, or an entry to return.         *)
Stops(e) == e.name # Deleted /\ e.attr \intersect LfnEntry = {}

IsRootSector(head) == fs.type # 32 /\ head = 0
EntriesPerBlock(head) ==
    (IF IsRootSector(head) THEN SectorSize ELSE fs.cluster_size) \div EntrySize

(* The next block is for when the block index reaches the number of        *)
(* entries in a block.                                                     *)
Advance(it) ==
    IF it.block >= EntriesPerBlock(it.head)
    THEN [it EXCEPT !.block = @ + 1, !.entry = 0] ELSE it

(* The caches with the iterator's block in them, unless there is none.     *)
Fetch(it, bad) ==
    IF IsRootSector(it.head)
    THEN LET none == it.block >= fs.root_sector_count
         IN  [none |-> none, fb |-> fatbuf,
              db |-> IF none THEN databuf ELSE Fill(databuf, fs.data_area_begin + it.block, bad)]
    ELSE LET c == GetNextCluster(fatbuf, it.head, it.block, bad)
         IN  [none |-> c.end, fb |-> c.fb,
              db |-> IF c.end THEN databuf ELSE ReadCluster(databuf, c.cluster, bad)]

(* A faulty variant: the iterator stays at the entry it returned.          *)
PastStaying(idx) == idx
(* The iterator's entry after the one returned.                            *)
Past(idx) == idx + 1

(* One turn of fat_dir_iter_next's outer loop on the block fetched: the    *)
(* entry it returns, or the end mark, or more turns to take; and the       *)
(* iterator after it.                                                      *)
Look(it, f) ==
    LET last == EntriesPerBlock(it.head)
        stops == {i \in it.entry..(last - 1) : Stops(EntryAt(f.db.holds, i))}
        stop == IF stops = {} THEN last ELSE Min(stops)
        entry == IF stop = last THEN EndMark ELSE EntryAt(f.db.holds, stop)
    IN  IF f.none THEN [entry |-> EndMark, more |-> FALSE, it |-> it]
        ELSE [entry |-> entry, more |-> stop = last,
              it |-> [it EXCEPT !.entry = IF entry = EndMark THEN stop ELSE Past(stop)]]

(* Each cache holds the sector it claims, or claims none.                  *)
Honest == \A b \in {databuf, fatbuf} : b.lba \in {None, b.holds}

OpenedFile(e) == [open |-> TRUE, head |-> e.head, size |-> e.size, cursor |-> 0]

(* fat_dir_iter_next, or match_name's loop around it: on to another entry  *)
(* unless this one ends the call.                                          *)
Walk ==
    /\ Walking
    /\ \E bad \in Bad : Count(bad) /\ \E f \in {Fetch(Advance(call.it), bad)} :
       \E l \in {Look(Advance(call.it), f)} :
        /\ bad = {} \/ f # Fetch(Advance(call.it), {})
        /\ LET clean == call.clean /\ Honest /\ bad = {}
               on == l.more \/ (call.op # "next" /\ l.entry.name \notin {call.name, EndMark.name})
               found == ~on /\ l.entry # EndMark
           IN  /\ databuf' = f.db /\ fatbuf' = f.fb
               /\ call' = IF on THEN [call EXCEPT !.it = l.it, !.clean = clean] ELSE Idle
               /\ files' = IF found /\ call.op = "file"
                           THEN [files EXCEPT ![call.handle] = OpenedFile(l.entry)] ELSE files
               /\ cwd' = IF found /\ call.op = "dir" THEN l.entry.head ELSE cwd
               /\ iter' = IF on \/ call.op # "next" THEN iter
                          ELSE [it |-> l.it, clean |-> iter.clean /\ clean,
                                seen |-> IF found THEN Append(iter.seen, l.entry.name) ELSE iter.seen,
                                state |-> IF found THEN "open" ELSE "ended"]
    /\ UNCHANGED <<vol, fs, got>>

Ready == Mounted /\ ~Walking
(* A call of another kind: the program has used what it got from a file.   *)
Calls(record) == Ready /\ call' = record /\ got' = Nothing
AtCaller == <<vol, fs, databuf, fatbuf, files, faults>>

(* The struct fat_dir that an iterator points to stays while it is in use. *)
RootDirOpen ==
    /\ iter.state # "open"
    /\ Calls(call) /\ cwd' = RootHead /\ iter' = NoIter
    /\ UNCHANGED AtCaller

FileOpen ==
    /\ \E h \in Handles, n \in Names :
        Calls([op |-> "file", handle |-> h, name |-> n, it |-> Start(cwd), clean |-> TRUE])
    /\ UNCHANGED <<AtCaller, cwd, iter>>

DirOpen ==
    /\ iter.state # "open" /\ iter' = NoIter
    /\ \E n \in DirNames :
        Calls([op |-> "dir", name |-> n, it |-> Start(cwd), clean |-> TRUE])
    /\ UNCHANGED <<AtCaller, cwd>>

DirIterStart ==
    /\ Calls(call)
    /\ iter' = [it |-> Start(cwd), seen |-> <<>>, state |-> "open", clean |-> TRUE]
    /\ UNCHANGED <<AtCaller, cwd>>

DirIterNext ==
    /\ iter.state = "open"
    /\ Calls([op |-> "next", it |-> iter.it, clean |-> TRUE])
    /\ UNCHANGED <<AtCaller, cwd, iter>>

-----------------------------------------------------------------------------
(* Files.                                                                  *)

Copied(db, offs, n) == [i \in 1..n |-> <<db.holds, offs + i - 1>>]

(* A faulty variant: a block that ends with its cluster does not move on.  *)
StaysNotMoving(room, left) == room >= left
(* The block ends before the cluster does.                                 *)
Stays(room, left) == room > left

(* The part in one cluster of what a block still needs (left).             *)
Chunk(s, bad) ==
    LET room == fs.cluster_size - s.offs
        n == Min({room, s.left})
        db == ReadCluster(s.db, s.at.cluster, bad)
        copied == [s EXCEPT !.db = db, !.data = @ \o Copied(db, s.offs, n),
                            !.cursor = @ + n, !.left = @ - n]
    IN  IF s.left = 0 THEN s
        ELSE IF Stays(room, s.left) THEN copied
        ELSE [copied EXCEPT !.offs = 0, !.at = GetNextCluster(@.fb, @.cluster, 1, bad)]

(* A block, unless the file ends before it does.                           *)
Block(s, f, size, bad) ==
    IF s.short \/ (s.cursor + size) % Word > f.size THEN [s EXCEPT !.short = TRUE]
    ELSE Iterate(LAMBDA t : Chunk(t, bad),
                 [s EXCEPT !.left = size, !.offs = s.cursor % fs.cluster_size, !.blocks = @ + 1],
                 size \div fs.cluster_size + 2)

Read(f, size, count, bad) ==
    Iterate(LAMBDA s : Block(s, f, size, bad),
            [at |-> GetNextCluster(fatbuf, f.head, f.cursor \div fs.cluster_size, bad),
             db |-> databuf, cursor |-> f.cursor,
             data |-> <<>>, blocks |-> 0, left |-> 0, offs |-> 0, short |-> FALSE],
            count)

IsEof(f) == f.cursor >= f.size

FileRead(h) ==
    /\ Ready /\ files[h].open
    /\ \/ /\ IsEof(files[h])
          /\ got' = Result(-1)
          /\ UNCHANGED <<databuf, fatbuf, files, faults>>
       \/ /\ ~IsEof(files[h])
          /\ \E a \in ReadArgs, bad \in Bad : Count(bad) /\ \E r \in {Read(files[h], a[1], a[2], bad)} :
                /\ bad = {} \/ r # Read(files[h], a[1], a[2], {})
                /\ databuf' = r.db /\ fatbuf' = r.at.fb
                /\ files' = [files EXCEPT ![h].cursor = r.cursor]
                /\ got' = [ret |-> r.blocks, data |-> r.data, clean |-> Honest /\ bad = {}]
    /\ UNCHANGED <<vol, fs, cwd, iter, call>>

(* A faulty variant: signed arithmetic.                                    *)
UnsignedNot(n) == n
Unsigned(n) == n % Word
SeekCursor(f, origin, offset) ==
    Unsigned(offset + [set |-> 0, cur |-> f.cursor, end |-> f.size][origin])

(* The tests for a position below 0 compare unsigned values: it is too     *)
(* large for the first two, and passes the third.                          *)
SeekRefused(f, origin, offset) ==
    IF origin = "end" THEN offset > 0 ELSE SeekCursor(f, origin, offset) > f.size

FileSeek(h) ==
    /\ Ready /\ files[h].open
    /\ \E a \in SeekArgs :
        LET refused == SeekRefused(files[h], a[1], a[2])
        IN  /\ files' = IF refused THEN files
                        ELSE [files EXCEPT ![h].cursor = SeekCursor(files[h], a[1], a[2])]
            /\ got' = Result(IF refused THEN 1 ELSE 0)
    /\ UNCHANGED <<vol, fs, databuf, fatbuf, cwd, iter, call, faults>>

FileTell(h) ==
    /\ Ready /\ files[h].open
    /\ LET f == files[h] IN got' = Result(IF f.cursor > f.size THEN -1 ELSE f.cursor)
    /\ UNCHANGED <<vol, fs, databuf, fatbuf, files, cwd, iter, call, faults>>

Next ==
    \/ Mount \/ RootDirOpen \/ FileOpen \/ DirOpen \/ DirIterStart \/ DirIterNext \/ Walk
    \/ \E h \in Handles : FileRead(h) \/ FileSeek(h) \/ FileTell(h)

(* The program runs on through the call it is in.                          *)
Spec == Init /\ [][Next]_vars /\ WF_vars(Walk)

-----------------------------------------------------------------------------
(* Properties.                                                             *)

Buffer == [lba : Int, holds : None..(vol.total - 1)]

(* Every variable in its range: a cursor is a word, a cache holds a sector *)
(* of the disk, and no iterator is past its block.                         *)
TypeOK ==
    /\ vol \in Volumes /\ fs \in {NotMounted, Trapped, Geometry}
    /\ databuf \in Buffer /\ fatbuf \in Buffer
    /\ \A h \in Handles : files[h].cursor \in 0..(Word - 1) /\ files[h].size < Word
    /\ Mounted => iter.it.entry \in 0..EntriesPerBlock(iter.it.head)
    /\ got.ret \in -2..(Word - 1) /\ faults \in 0..MaxFaults

(* The files as mkfs put them: sector and offset of every byte.            *)
BytesOf(f) ==
    LET size == SectorSize * vol.sectors_per_cluster
    IN  [i \in 1..f.size |->
            LET cluster == vol.chains[f.head][(i - 1) \div size + 1]
                offs == (i - 1) % size
            IN  <<SectorAt(vol, cluster) + offs \div SectorSize, offs % SectorSize>>]

(* A position that is no cursor of the file is a little below its start.   *)
Position(f) == IF f.cursor <= f.size THEN f.cursor ELSE f.cursor - Word

FileOf(f) == [bytes |-> BytesOf(f), pos |-> Position(f)]
AllFiles == [h \in Handles |-> FileOf(files[h])]

Api == INSTANCE FileApi WITH file <- AllFiles

(* Files that share two one-sector caches behave as files: read, seek and  *)
(* tell return what FileApi promises, and a read's bytes are the file's    *)
(* unless a sector failed in it or a cache claims what it does not hold.   *)
FilesKeepPromise == Api!Spec

(* The entries of a directory, and those of them a program should see.     *)
DirSector(head) == IF head = vol.root_head THEN vol.root_sector ELSE SectorAt(vol, head)
Entries(head) == IF DirSector(head) \in DOMAIN vol.rows THEN vol.rows[DirSector(head)] ELSE <<>>
Visible(e) == e.name # Deleted /\ "volume" \notin e.attr

(* The names to be seen among the first n entries, in order.               *)
Shown(head, n) ==
    LET names[i \in 0..n] ==
          IF i = 0 THEN <<>>
          ELSE IF Visible(Entries(head)[i]) THEN Append(names[i - 1], Entries(head)[i].name)
          ELSE names[i - 1]
    IN  names[n]

(* An iteration that met no fault returns each file of its directory once  *)
(* and in order, whatever was read and opened between its calls.           *)
ListsDirectory ==
    iter.state = "ended" /\ iter.clean =>
        iter.seen = Shown(iter.it.head, Len(Entries(iter.it.head)))

(* What an open does that met no fault.                                    *)
Finds ==
    LET named == {e \in ToSet(Entries(call.it.head)) : Visible(e) /\ e.name = call.name}
    IN  CASE call.op = "file" ->
                files' \in IF named = {} THEN {files}
                           ELSE {[files EXCEPT ![call.handle] = OpenedFile(e)] : e \in named}
          [] call.op = "dir" ->
                cwd' \in IF named = {} THEN {cwd} ELSE {e.head : e \in named}
Returns == Walking /\ ~Walking' /\ call.op # "next" /\ call.clean /\ Honest /\ faults' = faults

(* An open that met no fault finds the entry of that name if there is one, *)
(* and changes nothing otherwise.                                          *)
OpensByName == [][Returns => Finds]_vars

(* A call that walks a directory returns, unless the data cache claims a   *)
(* sector it does not hold: the bytes of another one, left there by a read *)
(* that failed, may have no end mark and no entry to return.               *)
WalkEnds == Walking ~> ~Walking \/ databuf.holds # databuf.lba
=============================================================================
