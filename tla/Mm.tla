--------------------------------- MODULE Mm ---------------------------------
(***************************************************************************)
(* malloc's heap, libehbcfw/src/mm.c: a table of block descriptors, each   *)
(* of them a block's place in a run of blocks, or the flags of a buddy     *)
(* tree of four levels inside the block.  Addresses are offsets from       *)
(* alloc_start, sizes are bytes.  Callers free what they were given, once. *)
(*                                                                         *)
(* A chunk flag is a pair of what (DIV or FULL) and which half (0 is the   *)
(* left one); flags[l][i] holds those of entry i of chunk_flags_l<l>.      *)
(***************************************************************************)
EXTENDS Integers, Bags, FiniteSetsExt

CONSTANTS Blocks,   (* pdt_count                                           *)
          Sizes,    (* sizes asked for                                     *)
          MaxLive   (* bound: allocations alive together                   *)

BlockSize == 4096
Level == 1..4
Entries == <<1, 2, 4, 8>>   (* of chunk_flags_l<l>, two chunks each        *)
Index(l) == 0..(Entries[l] - 1)
ChunkSize(l) == BlockSize \div (2 * Entries[l])
Null == -1

ASSUME BlocksAssumption == Blocks \in Nat \ {0} /\ MaxLive \in Nat \ {0}
ASSUME SizesAssumption == Sizes \subseteq Nat

VARIABLES pdt,    (* the block descriptors                                 *)
          live,   (* the allocations in use, a bag of addresses and sizes  *)
          ret     (* what the last mm_free returned                        *)

vars == <<pdt, live, ret>>

Div(s) == <<"div", s>>
Full(s) == <<"full", s>>
Half(s) == {Div(s), Full(s)}
BothFull == {Full(0), Full(1)}
Clear == [l \in Level |-> [i \in Index(l) |-> {}]]
Zero == [bf |-> {}, flags |-> Clear]

Init == pdt = [b \in 0..(Blocks - 1) |-> Zero] /\ live = EmptyBag /\ ret = 0

-----------------------------------------------------------------------------
(* do_mm_alloc_chunk: NoChunk, or an offset and the flags after it.        *)

NoChunk == [offs |-> Null, flags |-> Clear]
Found(r) == r.offs # Null

(* A faulty variant: the flag is not stored.                               *)
TakeUnmarked(flags, l, i) ==
    IF flags[l][i] \intersect Half(0) = {} THEN [offs |-> 0, flags |-> flags]
    ELSE IF flags[l][i \div 2] \intersect Half(1) = {}
    THEN [offs |-> ChunkSize(l), flags |-> flags]
    ELSE NoChunk

(* At the wanted level.  The right half goes by the flags of entry i \div  *)
(* 2, and those flags are then stored in entry i.                          *)
Take(flags, l, i) ==
    LET other == flags[l][i \div 2] IN
    IF flags[l][i] \intersect Half(0) = {}
    THEN [offs |-> 0, flags |-> [flags EXCEPT ![l][i] = @ \union {Full(0)}]]
    ELSE IF other \intersect Half(1) = {}
    THEN [offs |-> ChunkSize(l), flags |-> [flags EXCEPT ![l][i] = other \union {Full(1)}]]
    ELSE NoChunk

(* A faulty variant: a half with something in it counts as full.           *)
MarkFull(flags, l, i, s) == [flags EXCEPT ![l][i] = @ \union {Full(s)}]
(* Mark half s of entry i divided, and full when its child is.             *)
MarkParent(flags, l, i, s) ==
    LET full == IF BothFull \subseteq flags[l + 1][2 * i + s] THEN {Full(s)} ELSE {}
    IN [flags EXCEPT ![l][i] = @ \union {Div(s)} \union full]

(* Above it: the left half, then the right one, unless it is full; below   *)
(* is the search in each entry one level down.                             *)
InHalves(flags, l, i, below) ==
    LET In(s) == IF Full(s) \in flags[l][i] THEN NoChunk ELSE below[2 * i + s]
        Up(s) == [offs |-> In(s).offs + s * ChunkSize(l),
                  flags |-> MarkParent(In(s).flags, l, i, s)]
    IN IF Found(In(0)) THEN Up(0) ELSE IF Found(In(1)) THEN Up(1) ELSE NoChunk

Search(flags, level, l, below) ==
    [i \in Index(l) |-> IF l = level THEN Take(flags, l, i) ELSE InHalves(flags, l, i, below)]

AllocChunk(flags, level) ==
    LET l4 == [i \in Index(4) |-> Take(flags, 4, i)]
        l3 == Search(flags, level, 3, l4)
        l2 == Search(flags, level, 2, l3)
    IN Search(flags, level, 1, l2)[0]

LevelFor(size) ==
    IF size > BlockSize \div 4 THEN 1 ELSE IF size > BlockSize \div 8 THEN 2
    ELSE IF size > BlockSize \div 16 THEN 3 ELSE 4

BlocksFor(size) == (size + BlockSize - 1) \div BlockSize

(* A faulty variant: a divided block counts as free.                       *)
FreeUnlessFull(d) == d.flags[1][0] \intersect BothFull = {}
Free(d) == d.flags[1][0] \intersect BothFull = {} /\ "DIV" \notin d.bf

(* mm_alloc: the address, or Null, and the descriptors after it.           *)
AllocBlocks(table, n) ==
    LET starts == {b \in DOMAIN table : /\ b + n <= Blocks
                                       /\ \A k \in b..(b + n - 1) : Free(table[k])}
        start == Min(starts)
    IN IF starts = {} THEN [ptr |-> Null, pdt |-> table]
       ELSE [ptr |-> start * BlockSize,
             pdt |-> [b \in DOMAIN table |->
                        IF b \notin start..(start + n - 1) THEN table[b]
                        ELSE [bf |-> IF b < start + n - 1 THEN {"CONT"} ELSE {},
                              flags |-> [table[b].flags EXCEPT ![1][0] = BothFull]]]]

(* A faulty variant: the block number is not scaled.                       *)
AddressUnscaled(b, offs) == b + offs
Address(b, offs) == b * BlockSize + offs

AllocFromBlock(table, size) ==
    LET try == [b \in DOMAIN table |->
                  IF BothFull \subseteq table[b].flags[1][0] THEN NoChunk
                  ELSE AllocChunk(table[b].flags, LevelFor(size))]
        usable == {b \in DOMAIN table : Found(try[b])}
        b == Min(usable)
    IN IF usable = {} THEN [ptr |-> Null, pdt |-> table]
       ELSE [ptr |-> Address(b, try[b].offs),
             pdt |-> [table EXCEPT ![b] = [bf |-> @.bf \union {"DIV"}, flags |-> try[b].flags]]]

Alloc(table, size) ==
    IF size > BlockSize * Blocks THEN [ptr |-> Null, pdt |-> table]
    ELSE IF size > BlockSize \div 2 THEN AllocBlocks(table, BlocksFor(size))
    ELSE AllocFromBlock(table, size)

-----------------------------------------------------------------------------
(* The flags of half s that go when its chunk, or something in it, is      *)
(* freed; child is what is left of it one level down.                      *)
(* A faulty variant: the half stays divided when its child is empty.       *)
GoneFullOnly(l, s, child) == {Full(s)}
Gone(l, s, child) == IF l < 4 /\ child = {} THEN Half(s) ELSE {Full(s)}

(* do_mm_free_chunk: the level of the chunk freed and the flags after it,  *)
(* at level l; deeper is the same one level down.                          *)
FreeIn(flags, offs, l, deeper) ==
    LET chunk == offs \div ChunkSize(l)
        i == chunk \div 2
        s == chunk % 2
        below == IF Div(s) \in flags[l][i] THEN deeper ELSE [level |-> l, flags |-> flags]
        child == IF l < 4 THEN below.flags[l + 1][chunk] ELSE {}
    IN [level |-> below.level,
        flags |-> [below.flags EXCEPT ![l][i] = flags[l][i] \ Gone(l, s, child)]]

FreeChunk(flags, offs) ==
    LET l4 == FreeIn(flags, offs, 4, [level |-> -1, flags |-> flags])
        l3 == FreeIn(flags, offs, 3, l4)
        l2 == FreeIn(flags, offs, 2, l3)
    IN FreeIn(flags, offs, 1, l2)

(* mm_free: what it returns, and the descriptors after it.                 *)
Freed(table, ptr) ==
    LET first == ptr \div BlockSize
        last == Min({b \in first..(Blocks - 1) : "CONT" \notin table[b].bf})
        r == FreeChunk(table[last].flags, ptr % BlockSize)
        idle == r.flags[1][0] = {}
    IN [size |-> (last - first) * BlockSize
                 + IF "DIV" \in table[last].bf THEN ChunkSize(r.level) ELSE BlockSize,
        pdt |-> [b \in DOMAIN table |->
                   IF b \notin first..last THEN table[b]
                   ELSE IF b = last /\ "DIV" \in table[b].bf
                   THEN [bf |-> IF idle THEN table[b].bf \ {"DIV"} ELSE table[b].bf,
                         flags |-> r.flags]
                   ELSE Zero]]

-----------------------------------------------------------------------------
Use(r, size) == IF r.ptr = Null THEN EmptyBag ELSE SetToBag({[ptr |-> r.ptr, size |-> size]})

MmAlloc(size) ==
    LET r == Alloc(pdt, size) IN
    /\ BagCardinality(live) < MaxLive
    /\ pdt' = r.pdt
    /\ live' = live (+) Use(r, size)
    /\ UNCHANGED ret

MmFree(a) ==
    LET f == Freed(pdt, a.ptr) IN
    /\ pdt' = f.pdt
    /\ ret' = f.size
    /\ live' = live (-) SetToBag({a})

(* A pointer outside the table is refused.                                 *)
MmFreeForeign ==
    /\ ret' = 0
    /\ UNCHANGED <<pdt, live>>

(* mm_realloc frees first; when the new size cannot be had, the old memory *)
(* is gone.  (The copy that follows is not modelled.)                      *)
MmRealloc(a, size) ==
    LET f == Freed(pdt, a.ptr)
        r == Alloc(f.pdt, size)
    IN /\ pdt' = r.pdt
       /\ ret' = f.size
       /\ live' = (live (-) SetToBag({a})) (+) Use(r, size)

Next ==
    \/ \E size \in Sizes : MmAlloc(size)
    \/ \E a \in BagToSet(live) : MmFree(a) \/ \E size \in Sizes : MmRealloc(a, size)
    \/ MmFreeForeign

Spec == Init /\ [][Next]_vars

-----------------------------------------------------------------------------
Room(size) == IF size > BlockSize \div 2 THEN BlocksFor(size) * BlockSize
              ELSE ChunkSize(LevelFor(size))
Apart(a, b) == a.ptr + Room(a.size) <= b.ptr \/ b.ptr + Room(b.size) <= a.ptr

(* Shape of the state: descriptors of the right form and allocations       *)
(* inside the blocks, aligned to their size.                               *)
TypeOK ==
    /\ \A b \in 0..(Blocks - 1) :
          /\ pdt[b].bf \subseteq {"CONT", "DIV"}
          /\ \A l \in Level : pdt[b].flags[l] \in
                [Index(l) -> SUBSET (Half(0) \union Half(1))]
    /\ \A a \in BagToSet(live) : /\ a.size \in Sizes /\ a.ptr \in 0..(Blocks * BlockSize - Room(a.size))
                                  /\ a.ptr % (IF a.size > BlockSize \div 2 THEN BlockSize ELSE Room(a.size)) = 0

(* No two allocations in use share a byte, whatever was allocated, freed   *)
(* and reallocated before.                                                 *)
NoOverlap ==
    \A a, b \in BagToSet(live) : IF a = b THEN live[a] = 1 ELSE Apart(a, b)

(* When everything has been freed the table is as mm_init left it: no flag *)
(* of a tree survives the chunks it stood for, so no memory is lost.       *)
NothingLeaks == live = EmptyBag => \A b \in DOMAIN pdt : pdt[b] = Zero

(* mm_free returns the size of the allocation it was given (mm.h says so), *)
(* which mm_realloc then copies.                                           *)
FreeTellsSize ==
    [][\A a \in BagToSet(live) :
         live' = live (-) SetToBag({a}) => ret' = Room(a.size)]_vars

(* The truth table of mm.h: the half an allocated chunk occupies is Full,  *)
(* neither Free nor Partial, in the descriptor of its level.               *)
ChunkIsFull ==
    \A a \in BagToSet(live) : a.size <= BlockSize \div 2 =>
        LET l == LevelFor(a.size)
            chunk == (a.ptr % BlockSize) \div ChunkSize(l)
        IN pdt[a.ptr \div BlockSize].flags[l][chunk \div 2] \intersect Half(chunk % 2)
             = {Full(chunk % 2)}
=============================================================================
