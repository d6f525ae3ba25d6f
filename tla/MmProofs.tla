------------------------------ MODULE MmProofs ------------------------------
(***************************************************************************)
(* The heap as long as all chunks asked for are of one level of the tree;  *)
(* runs of whole blocks of any length come and go between them.  heap_mixed *)
(* shows that nothing of this is left when two levels are mixed.           *)
(***************************************************************************)
EXTENDS Mm, FiniteSetTheorems, TLAPS

(* All sizes that are given a chunk are given one of the same level.       *)
OneLevel ==
    \A s, t \in Sizes :
        s <= BlockSize \div 2 /\ t <= BlockSize \div 2 => LevelFor(s) = LevelFor(t)

(* That level.                                                             *)
L == LevelFor(CHOOSE s \in Sizes : s <= BlockSize \div 2)

Sides == {0, 1}

-----------------------------------------------------------------------------
(* The tree of flags.                                                      *)

LEMMA LevelType == L \in 1..4
  BY DEF L, LevelFor

LEMMA FlagsDiffer ==
    /\ Full(0) # Full(1) /\ Div(0) # Div(1)
    /\ \A s, t \in Sides : Full(s) # Div(t)
  BY DEF Full, Div, Sides

LEMMA Halves ==
    ASSUME NEW n \in Nat
    PROVE  n \div 2 \in Nat /\ n % 2 \in 0..1 /\ n = 2 * (n \div 2) + (n % 2)
  OBVIOUS

LEMMA Dimensions ==
    /\ Index(1) = 0..0 /\ Index(2) = 0..1 /\ Index(3) = 0..3 /\ Index(4) = 0..7
    /\ ChunkSize(1) = 2048 /\ ChunkSize(2) = 1024 /\ ChunkSize(3) = 512 /\ ChunkSize(4) = 256
<1>1. Entries[1] = 1 /\ Entries[2] = 2 /\ Entries[3] = 4 /\ Entries[4] = 8
  BY DEF Entries
<1> QED
  BY <1>1 DEF Index, ChunkSize, BlockSize

LEMMA Children ==
    ASSUME NEW k \in Level, k < 4, NEW x \in Index(k), NEW s \in Sides
    PROVE  /\ k + 1 \in Level /\ 2 * x + s \in Index(k + 1) /\ 2 * x + s \in Nat
           /\ ChunkSize(k) = 2 * ChunkSize(k + 1) /\ ChunkSize(k + 1) \in Nat
           /\ ChunkSize(k) \in Nat /\ x \in Nat
<1>1. CASE k = 1
  BY <1>1, Dimensions DEF Level, Sides
<1>2. CASE k = 2
  BY <1>2, Dimensions DEF Level, Sides
<1>3. CASE k = 3
  BY <1>3, Dimensions DEF Level, Sides
<1> QED
  BY <1>1, <1>2, <1>3 DEF Level

IsFlags(f) == f = [l \in Level |-> [i \in Index(l) |-> f[l][i]]]

(* g is f but for entry i of level l.                                      *)
Replaced(f, l, i, e, g) == g = [f EXCEPT ![l][i] = e]

LEMMA SetFlags ==
    ASSUME NEW f, IsFlags(f), NEW l \in Level, NEW i \in Index(l), NEW e, NEW g,
           Replaced(f, l, i, e, g)
    PROVE  /\ IsFlags(g)
           /\ \A k \in Level : k # l => g[k] = f[k]
           /\ g[l][i] = e
           /\ \A x \in Index(l) : x # i => g[l][x] = f[l][x]
<1>1. DOMAIN f = Level /\ DOMAIN f[l] = Index(l)
  BY DEF IsFlags
<1>2. \A k \in Level : k # l => g[k] = f[k]
  BY <1>1 DEF Replaced
<1>3. g[l] = [f[l] EXCEPT ![i] = e]
  BY <1>1 DEF Replaced
<1>4. /\ g[l][i] = e
      /\ \A x \in Index(l) : x # i => g[l][x] = f[l][x]
  BY <1>1, <1>3
<1>5. DOMAIN g = Level /\ g = [k \in Level |-> g[k]]
  BY <1>1 DEF Replaced
<1>6. \A k \in Level : g[k] = [x \in Index(k) |-> g[k][x]]
  <2> SUFFICES ASSUME NEW k \in Level
               PROVE  g[k] = [x \in Index(k) |-> g[k][x]]
    OBVIOUS
  <2>1. f[k] = [x \in Index(k) |-> f[k][x]]
    BY DEF IsFlags
  <2>2. CASE k # l
    BY <2>1, <2>2, <1>2
  <2>3. CASE k = l
    BY <2>1, <2>3, <1>3
  <2> QED
    BY <2>2, <2>3
<1> QED
  BY <1>2, <1>4, <1>5, <1>6 DEF IsFlags

(* Entries at level L whose right half is never given out, because Take    *)
(* looks at entry i \div 2, which is full by then.                         *)
Lame == {1} \union 4..7

(* What entry x of level k says: the chunks at level L, and above it what  *)
(* there is one level down.                                                *)
Node(f, k, x) ==
    /\ k > L => f[k][x] = {}
    /\ k = L => f[k][x] \subseteq BothFull /\ (x \in Lame => Full(1) \notin f[k][x])
    /\ k < L => /\ f[k][x] \subseteq Half(0) \union Half(1)
                /\ \A s \in Sides :
                     /\ Div(s) \in f[k][x] <=> f[k + 1][2 * x + s] # {}
                     /\ Full(s) \in f[k][x] <=> BothFull \subseteq f[k + 1][2 * x + s]

Tree(f) == IsFlags(f) /\ \A k \in Level : \A x \in Index(k) : Node(f, k, x)

(* The entry of level l that has entry j of level L in it.                 *)
Under(l, j) == j \div (Entries[L] \div Entries[l])

LEMMA UnderBelow ==
    ASSUME NEW j \in Index(L), NEW l \in 1..L
    PROVE  /\ Under(l, j) \in Index(l) /\ Under(l, j) \in Nat
           /\ l < L => Under(l, j) = Under(l + 1, j) \div 2
           /\ l = L => Under(l, j) = j
           /\ l = 1 => Under(l, j) = 0
<1>1. Entries[1] = 1 /\ Entries[2] = 2 /\ Entries[3] = 4 /\ Entries[4] = 8
  BY DEF Entries
<1>2. CASE L = 1
  BY <1>1, <1>2, Dimensions DEF Under
<1>3. CASE L = 2
  <2>1. CASE l = 1
    BY <1>1, <1>3, <2>1, Dimensions DEF Under
  <2>2. CASE l = 2
    BY <1>1, <1>3, <2>2, Dimensions DEF Under
  <2> QED
    BY <1>3, <2>1, <2>2
<1>4. CASE L = 3
  <2>1. CASE l = 1
    BY <1>1, <1>4, <2>1, Dimensions DEF Under
  <2>2. CASE l = 2
    BY <1>1, <1>4, <2>2, Dimensions DEF Under
  <2>3. CASE l = 3
    BY <1>1, <1>4, <2>3, Dimensions DEF Under
  <2> QED
    BY <1>4, <2>1, <2>2, <2>3
<1>5. CASE L = 4
  <2>1. CASE l = 1
    BY <1>1, <1>5, <2>1, Dimensions DEF Under
  <2>2. CASE l = 2
    BY <1>1, <1>5, <2>2, Dimensions DEF Under
  <2>3. CASE l = 3
    BY <1>1, <1>5, <2>3, Dimensions DEF Under
  <2>4. CASE l = 4
    BY <1>1, <1>5, <2>4, Dimensions DEF Under
  <2> QED
    BY <1>5, <2>1, <2>2, <2>3, <2>4
<1> QED
  BY <1>2, <1>3, <1>4, <1>5, LevelType

(* A full entry has nothing free under it, and one with something under it *)
(* is not empty.                                                           *)
LEMMA OneDown ==
    ASSUME NEW f, Tree(f), NEW j \in Index(L), NEW l \in 1..L, l < L
    PROVE  /\ BothFull \subseteq f[l][Under(l, j)] => BothFull \subseteq f[l + 1][Under(l + 1, j)]
           /\ f[l + 1][Under(l + 1, j)] # {} => f[l][Under(l, j)] # {}
<1> DEFINE x == Under(l, j)
           u == Under(l + 1, j)
           s == u % 2
<1>1. /\ l \in Level /\ l < 4 /\ l + 1 \in 1..L /\ L \in 1..4
  BY LevelType DEF Level
<1>2. x \in Index(l) /\ x \in Nat /\ u \in Nat /\ x = u \div 2
  BY <1>1, UnderBelow
<1>3. s \in Sides /\ u = 2 * x + s
  BY <1>2 DEF Sides
<1>4. Node(f, l, x)
  BY <1>1, <1>2 DEF Tree
<1>5. /\ Div(s) \in f[l][x] <=> f[l + 1][u] # {}
      /\ Full(s) \in f[l][x] <=> BothFull \subseteq f[l + 1][u]
  BY <1>3, <1>4 DEF Node
<1> QED
  BY <1>3, <1>5 DEF BothFull, Sides

LEMMA AllDown ==
    ASSUME NEW f, Tree(f), NEW j \in Index(L), NEW l \in 1..L
    PROVE  /\ BothFull \subseteq f[l][Under(l, j)] => BothFull \subseteq f[L][j]
           /\ f[L][j] # {} => f[l][Under(l, j)] # {}
<1> DEFINE P(k) == /\ BothFull \subseteq f[k][Under(k, j)] => BothFull \subseteq f[L][j]
                   /\ f[L][j] # {} => f[k][Under(k, j)] # {}
<1>1. L \in 1..4
  BY LevelType
<1>2. P(L)
  BY <1>1, UnderBelow
<1>3. \A k \in 1..3 : k < L /\ P(k + 1) => P(k)
  BY <1>1, OneDown
<1> HIDE DEF P
<1>4. L >= 4 => P(4)
  BY <1>1, <1>2
<1>5. L >= 3 => P(3)
  BY <1>1, <1>2, <1>3, <1>4
<1>6. L >= 2 => P(2)
  BY <1>1, <1>2, <1>3, <1>5
<1>7. L >= 1 => P(1)
  BY <1>1, <1>2, <1>3, <1>6
<1>8. P(l)
  BY <1>1, <1>4, <1>5, <1>6, <1>7
<1> QED
  BY <1>8 DEF P

-----------------------------------------------------------------------------
(* Looking for a chunk.                                                    *)

(* Take finds nothing in entry j.                                          *)
Stuck(f, j) == Full(0) \in f[L][j] /\ (Full(1) \in f[L][j] \/ j \in Lame)

Place(j, s) == (2 * j + s) * ChunkSize(L)

LEMMA PlaceType ==
    ASSUME NEW j \in Index(L), NEW s \in Sides
    PROVE  /\ j \in 0..7 /\ ChunkSize(L) \in Nat /\ s \in 0..1
           /\ Place(j, s) \in 0..(BlockSize - ChunkSize(L)) /\ ChunkSize(L) \in 1..BlockSize \div 2
<1>1. CASE L = 1
  BY <1>1, Dimensions DEF Sides, Place, BlockSize
<1>2. CASE L = 2
  BY <1>2, Dimensions DEF Sides, Place, BlockSize
<1>3. CASE L = 3
  BY <1>3, Dimensions DEF Sides, Place, BlockSize
<1>4. CASE L = 4
  BY <1>4, Dimensions DEF Sides, Place, BlockSize
<1> QED
  BY <1>1, <1>2, <1>3, <1>4, LevelType

(* g is f with half s of entry j given out, as far as the levels from l    *)
(* on are concerned, which are as they should be.                          *)
Marked(f, l, i, j, s, g) ==
    /\ IsFlags(g)
    /\ g[L][j] = f[L][j] \union {Full(s)}
    /\ \A x \in Index(L) : x # j => g[L][x] = f[L][x]
    /\ \A k \in Level : k < l => g[k] = f[k]
    /\ \A x \in Index(l) : x # i => g[l][x] = f[l][x]
    /\ g[l][i] # {}
    /\ \A k \in Level : k >= l => \A x \in Index(k) : Node(g, k, x)

Nowhere(f, l, i, r) ==
    r.offs = Null /\ \A j \in Index(L) : Under(l, j) = i => Stuck(f, j)

Somewhere(f, l, i, r) ==
    \E j \in Index(L), s \in Sides :
        /\ Under(l, j) = i /\ Full(s) \notin f[L][j]
        /\ r.offs = Place(j, s) - 2 * i * ChunkSize(l) /\ r.offs \in Nat
        /\ Marked(f, l, i, j, s, r.flags)

(* The search in entry i of level l is one that finds what there is, if it *)
(* is made after all entries before have been tried.                       *)
Tried(f, l, i) == \A j \in Index(L) : Under(l, j) < i => Stuck(f, j)
Sound(f, l, i, r) ==
    Tried(f, l, i) /\ ~(BothFull \subseteq f[l][i]) => Nowhere(f, l, i, r) \/ Somewhere(f, l, i, r)

LEMMA TakeSound ==
    ASSUME NEW f, Tree(f), NEW i \in Index(L)
    PROVE  Sound(f, L, i, Take(f, L, i))
<1> DEFINE h == i \div 2
           r == Take(f, L, i)
<1> SUFFICES ASSUME Tried(f, L, i), ~(BothFull \subseteq f[L][i])
             PROVE  Nowhere(f, L, i, r) \/ Somewhere(f, L, i, r)
  BY DEF Sound
<1>0. r = Take(f, L, i)
  OBVIOUS
<1> HIDE DEF r
<1>1. /\ L \in 1..4 /\ L \in Level /\ L \in 1..L /\ IsFlags(f)
      /\ \A j \in Index(L) : Under(L, j) = j
  BY LevelType, UnderBelow DEF Level, Tree
<1>2. \A j \in Index(L) : j < i => Stuck(f, j)
  BY <1>1 DEF Tried
<1>3. /\ Index(L) \subseteq 0..7 /\ \A j \in 0..7 : j < i => j \in Index(L)
      /\ ChunkSize(L) \in Nat
  BY <1>1, Dimensions
<1>4. h \in Index(L) /\ (i # 0 => h < i)
  BY <1>3
<1>5. \A x \in Index(L) : f[L][x] \subseteq BothFull /\ (x \in Lame => Full(1) \notin f[L][x])
  BY <1>1 DEF Tree, Node
<1>6. \A x \in Index(L) : f[L][x] \intersect Half(0) = {} <=> Full(0) \notin f[L][x]
  BY <1>5, FlagsDiffer DEF Half, BothFull, Sides
<1>7. \A x \in Index(L) : f[L][x] \intersect Half(1) = {} <=> Full(1) \notin f[L][x]
  BY <1>5, FlagsDiffer DEF Half, BothFull, Sides
<1>8. ASSUME NEW s \in Sides, Full(s) \notin f[L][i], s = 1 => i \notin Lame,
             r.offs = s * ChunkSize(L),
             r.flags = [f EXCEPT ![L][i] = f[L][i] \union {Full(s)}]
      PROVE  Somewhere(f, L, i, r)
  <2> DEFINE g == [f EXCEPT ![L][i] = f[L][i] \union {Full(s)}]
  <2>1. /\ IsFlags(g)
        /\ \A k \in Level : k # L => g[k] = f[k]
        /\ g[L][i] = f[L][i] \union {Full(s)}
        /\ \A x \in Index(L) : x # i => g[L][x] = f[L][x]
    <3>1. PICK e : e = f[L][i] \union {Full(s)}
      OBVIOUS
    <3>2. Replaced(f, L, i, e, g)
      BY <3>1 DEF Replaced
    <3> HIDE DEF g
    <3> QED
      BY <1>1, <3>1, <3>2, SetFlags
  <2> HIDE DEF g
  <2>2. \A x \in Index(L) : Node(g, L, x)
    <3> SUFFICES ASSUME NEW x \in Index(L)
                 PROVE  Node(g, L, x)
      OBVIOUS
    <3>1. g[L][x] \subseteq BothFull /\ (x \in Lame => Full(1) \notin g[L][x])
      BY <1>5, <1>8, <2>1, FlagsDiffer DEF BothFull, Sides
    <3> QED
      BY <1>1, <3>1 DEF Node
  <2>3. \A k \in Level : k > L => \A x \in Index(k) : Node(g, k, x)
    BY <1>1, <2>1 DEF Tree, Node, Level
  <2>4. \A k \in Level : k >= L => \A x \in Index(k) : Node(g, k, x)
    BY <1>1, <2>2, <2>3 DEF Level
  <2>5. Marked(f, L, i, i, s, g)
    BY <1>1, <2>1, <2>4 DEF Marked, Level
  <2>6. r.offs = Place(i, s) - 2 * i * ChunkSize(L) /\ r.offs \in Nat
    <3>1. i \in Nat /\ s \in Nat
      BY <1>3 DEF Sides
    <3>2. (2 * i + s) * ChunkSize(L) = 2 * i * ChunkSize(L) + s * ChunkSize(L)
      BY <1>3, <3>1
    <3> QED
      BY <1>3, <1>8, <3>1, <3>2 DEF Place, Sides
  <2>7. r.flags = g
    BY <1>8 DEF g
  <2> QED
    BY <1>1, <1>8, <2>5, <2>6, <2>7 DEF Somewhere
<1>9. CASE Full(0) \notin f[L][i]
  <2>1. r = [offs |-> 0, flags |-> [f EXCEPT ![L][i] = @ \union {Full(0)}]]
    BY <1>0, <1>6, <1>9 DEF Take
  <2>2. 0 * ChunkSize(L) = 0
    BY <1>3
  <2> QED
    BY <1>8, <1>9, <2>1, <2>2 DEF Sides
<1>10. CASE Full(0) \in f[L][i] /\ Full(1) \in f[L][h]
  <2>1. r = NoChunk
    BY <1>0, <1>4, <1>6, <1>7, <1>10 DEF Take
  <2>2. i # 0
    BY <1>10 DEF BothFull
  <2>3. Stuck(f, h)
    BY <1>2, <1>4, <2>2
  <2>4. h \notin Lame
    BY <1>4, <1>5, <1>10
  <2>5. i \in Lame
    BY <1>3, <1>4, <2>2, <2>4, <1>10, <1>2, <1>5 DEF Lame, Stuck, BothFull
  <2> QED
    BY <1>1, <1>10, <2>1, <2>5 DEF Nowhere, Stuck, NoChunk
<1>11. CASE Full(0) \in f[L][i] /\ Full(1) \notin f[L][h]
  <2>1. r = [offs |-> ChunkSize(L), flags |-> [f EXCEPT ![L][i] = f[L][h] \union {Full(1)}]]
    BY <1>0, <1>4, <1>6, <1>7, <1>11 DEF Take
  <2>2. Full(0) \in f[L][h]
    BY <1>2, <1>4, <1>11 DEF Stuck
  <2>3. Full(1) \notin f[L][i]
    BY <1>11 DEF BothFull
  <2>4. f[L][h] = {Full(0)} /\ f[L][i] = {Full(0)}
    BY <1>4, <1>5, <1>11, <2>2, <2>3 DEF BothFull
  <2>5. h \in Lame \/ h = 0
    <3>1. CASE i = 0
      BY <3>1
    <3>2. CASE i # 0
      BY <1>2, <1>4, <1>11, <3>2 DEF Stuck
    <3> QED
      BY <3>1, <3>2
  <2>6. i \notin Lame
    <3>1. i # 1
      <4>1. SUFFICES ASSUME i = 1
                     PROVE  FALSE
        OBVIOUS
      <4>2. h = 0 /\ Stuck(f, 0)
        BY <1>2, <1>3, <1>4, <4>1
      <4> QED
        BY <1>11, <4>2 DEF Stuck, Lame
    <3>2. i \notin 4..7
      BY <1>3, <2>5 DEF Lame
    <3> QED
      BY <3>1, <3>2 DEF Lame
  <2>7. 1 * ChunkSize(L) = ChunkSize(L)
    BY <1>3
  <2>8. r.flags = [f EXCEPT ![L][i] = f[L][i] \union {Full(1)}] /\ r.offs = 1 * ChunkSize(L)
    BY <2>1, <2>4, <2>7
  <2>9. 1 \in Sides
    BY DEF Sides
  <2> QED
    BY <1>8, <2>3, <2>6, <2>8, <2>9
<1> QED
  BY <1>9, <1>10, <1>11

(* What is found under half s of entry i is found in entry i.              *)
LEMMA UpSound ==
    ASSUME NEW f, Tree(f), NEW l \in 1..3, l < L, NEW i \in Index(l), NEW s \in Sides,
           NEW r, Somewhere(f, l + 1, 2 * i + s, r), Full(s) \notin f[l][i], NEW u,
           u.offs = r.offs + s * ChunkSize(l), u.flags = MarkParent(r.flags, l, i, s)
    PROVE  Somewhere(f, l, i, u)
<1> DEFINE c == 2 * i + s
<1>1. /\ L \in 1..4 /\ L \in Level /\ l \in Level /\ l + 1 \in Level /\ l \in 1..L /\ l + 1 \in 1..L
      /\ l < 4 /\ IsFlags(f) /\ s \in {0, 1}
  BY LevelType DEF Level, Tree, Sides
<1>2. /\ c \in Index(l + 1) /\ c \in Nat /\ i \in Nat
      /\ ChunkSize(l) = 2 * ChunkSize(l + 1) /\ ChunkSize(l + 1) \in Nat
  BY <1>1, Children
<1>3. PICK j \in Index(L), t \in Sides :
        /\ Under(l + 1, j) = c /\ Full(t) \notin f[L][j]
        /\ r.offs = Place(j, t) - 2 * c * ChunkSize(l + 1) /\ r.offs \in Nat
        /\ Marked(f, l + 1, c, j, t, r.flags)
  BY DEF Somewhere
<1>4. PICK g : g = r.flags
  OBVIOUS
<1>5. PICK h : h = u.flags
  OBVIOUS
<1>6. /\ IsFlags(g)
      /\ g[L][j] = f[L][j] \union {Full(t)}
      /\ \A x \in Index(L) : x # j => g[L][x] = f[L][x]
      /\ \A k \in Level : k < l + 1 => g[k] = f[k]
      /\ \A x \in Index(l + 1) : x # c => g[l + 1][x] = f[l + 1][x]
      /\ g[l + 1][c] # {}
      /\ \A k \in Level : k >= l + 1 => \A x \in Index(k) : Node(g, k, x)
  BY <1>3, <1>4 DEF Marked
<1>7. PICK e : e = g[l][i] \union {Div(s)}
                   \union (IF BothFull \subseteq g[l + 1][c] THEN {Full(s)} ELSE {})
  OBVIOUS
<1>8. Replaced(g, l, i, e, h)
  BY <1>4, <1>5, <1>7 DEF Replaced, MarkParent
<1>9. /\ IsFlags(h)
      /\ \A k \in Level : k # l => h[k] = g[k]
      /\ h[l][i] = e
      /\ \A x \in Index(l) : x # i => h[l][x] = g[l][x]
  BY <1>1, <1>6, <1>8, SetFlags
<1>10. /\ g[l] = f[l] /\ h[l + 1] = g[l + 1]
       /\ \A k \in Level : k < l => h[k] = f[k]
  BY <1>1, <1>6, <1>9 DEF Level
<1>11. \A x \in Index(l) : Node(f, l, x)
  BY <1>1 DEF Tree
<1>12. \A x \in Index(l) : Node(h, l, x)
  <2> SUFFICES ASSUME NEW x \in Index(l)
               PROVE  Node(h, l, x)
    OBVIOUS
  <2>0. x \in Nat /\ \A a \in Sides : 2 * x + a \in Index(l + 1) /\ 2 * x + a \in Nat
    BY <1>1, Children
  <2>1. /\ f[l][x] \subseteq Half(0) \union Half(1)
        /\ \A a \in Sides :
             /\ Div(a) \in f[l][x] <=> f[l + 1][2 * x + a] # {}
             /\ Full(a) \in f[l][x] <=> BothFull \subseteq f[l + 1][2 * x + a]
    BY <1>1, <1>11 DEF Node
  <2>2. CASE x # i
    <3>1. h[l][x] = f[l][x]
      BY <1>9, <1>10, <2>2
    <3>2. \A a \in Sides : h[l + 1][2 * x + a] = f[l + 1][2 * x + a]
      <4> SUFFICES ASSUME NEW a \in Sides
                   PROVE  h[l + 1][2 * x + a] = f[l + 1][2 * x + a]
        OBVIOUS
      <4>1. 2 * x + a # c
        BY <1>1, <1>2, <2>0, <2>2 DEF Sides
      <4> QED
        BY <1>6, <1>10, <2>0, <4>1
    <3> QED
      BY <1>1, <2>1, <3>1, <3>2 DEF Node, Level
  <2>3. CASE x = i
    <3>1. h[l][x] = e /\ e = f[l][x] \union {Div(s)}
                   \union (IF BothFull \subseteq h[l + 1][c] THEN {Full(s)} ELSE {})
      BY <1>7, <1>9, <1>10, <2>3
    <3>2. e \subseteq Half(0) \union Half(1)
      BY <1>1, <2>1, <3>1 DEF Half
    <3>3. ASSUME NEW a \in Sides
          PROVE  /\ Div(a) \in e <=> h[l + 1][2 * x + a] # {}
                 /\ Full(a) \in e <=> BothFull \subseteq h[l + 1][2 * x + a]
      <4>1. CASE a = s
        <5>1. 2 * x + a = c
          BY <2>3, <4>1
        <5>2. h[l + 1][c] # {} /\ Div(s) \in e
          BY <1>6, <1>10, <3>1
        <5>3. Full(s) \in e <=> BothFull \subseteq h[l + 1][c]
          BY <2>3, <3>1, FlagsDiffer
        <5> QED
          BY <4>1, <5>1, <5>2, <5>3
      <4>2. CASE a # s
        <5>1. h[l + 1][2 * x + a] = f[l + 1][2 * x + a]
          <6>1. 2 * x + a # c
            BY <1>1, <1>2, <2>0, <2>3, <4>2 DEF Sides
          <6> QED
            BY <1>6, <1>10, <2>0, <6>1
        <5>2. Full(a) # Full(s) /\ Div(a) # Div(s) /\ Full(a) # Div(s) /\ Div(a) # Full(s)
          BY <1>1, <4>2, FlagsDiffer DEF Sides
        <5>3. (Div(a) \in e <=> Div(a) \in f[l][x]) /\ (Full(a) \in e <=> Full(a) \in f[l][x])
          BY <3>1, <5>2
        <5> QED
          BY <2>1, <5>1, <5>3
      <4> QED
        BY <4>1, <4>2
    <3>4. h[l][x] = e /\ l < L /\ l # L /\ ~(l > L)
      BY <1>1, <3>1
    <3> QED
      BY <3>2, <3>3, <3>4 DEF Node
  <2> QED
    BY <2>2, <2>3
<1>13. \A k \in Level : k >= l + 1 => \A x \in Index(k) : Node(h, k, x)
  <2> SUFFICES ASSUME NEW k \in Level, k >= l + 1, NEW x \in Index(k)
               PROVE  Node(h, k, x)
    OBVIOUS
  <2>1. Node(g, k, x) /\ h[k] = g[k] /\ (k < L => h[k + 1] = g[k + 1])
    BY <1>1, <1>6, <1>9 DEF Level
  <2> QED
    BY <2>1 DEF Node
<1>14. \A k \in Level : k >= l => \A x \in Index(k) : Node(h, k, x)
  BY <1>1, <1>12, <1>13 DEF Level
<1>15. h[l][i] # {} /\ h[L] = g[L]
  BY <1>1, <1>7, <1>9
<1>16. Marked(f, l, i, j, t, h)
  BY <1>6, <1>9, <1>10, <1>14, <1>15 DEF Marked
<1>17. u.offs = Place(j, t) - 2 * i * ChunkSize(l) /\ u.offs \in Nat
  <2>1. PICK z \in Nat : z = ChunkSize(l + 1) /\ ChunkSize(l) = 2 * z
    BY <1>2
  <2>2. /\ 2 * (2 * i + s) * z = 4 * (i * z) + 2 * (s * z)
        /\ 2 * i * (2 * z) = 4 * (i * z) /\ s * (2 * z) = 2 * (s * z)
    <3>1. i \in Int /\ s \in Int /\ z \in Int
      BY <1>1, <1>2, <2>1
    <3> QED
      BY <3>1
  <2>3. i * z \in Nat /\ s * z \in Nat
    BY <1>1, <1>2, <2>1
  <2>4. r.offs + 2 * c * z = Place(j, t) /\ Place(j, t) \in Int
    <3>1. j \in Nat /\ t \in Nat /\ ChunkSize(L) \in Nat
      BY PlaceType DEF Sides
    <3>2. Place(j, t) \in Int
      BY <3>1 DEF Place
    <3> QED
      BY <1>2, <1>3, <2>1, <2>2, <2>3, <3>2
  <2> QED
    BY <1>3, <2>1, <2>2, <2>3, <2>4
<1>18. Under(l, j) = i
  BY <1>1, <1>2, <1>3, UnderBelow
<1> QED
  BY <1>3, <1>5, <1>16, <1>17, <1>18 DEF Somewhere

LEMMA HalvesSound ==
    ASSUME NEW f, Tree(f), NEW l \in 1..3, l < L, NEW below,
           \A x \in Index(l + 1) : Sound(f, l + 1, x, below[x]), NEW i \in Index(l)
    PROVE  Sound(f, l, i, InHalves(f, l, i, below))
<1> DEFINE In(s) == IF Full(s) \in f[l][i] THEN NoChunk ELSE below[2 * i + s]
           Up(s) == [offs |-> In(s).offs + s * ChunkSize(l),
                     flags |-> MarkParent(In(s).flags, l, i, s)]
           r == InHalves(f, l, i, below)
<1> SUFFICES ASSUME Tried(f, l, i), ~(BothFull \subseteq f[l][i])
             PROVE  Nowhere(f, l, i, r) \/ Somewhere(f, l, i, r)
  BY DEF Sound
<1>0. r = IF Found(In(0)) THEN Up(0) ELSE IF Found(In(1)) THEN Up(1) ELSE NoChunk
  BY DEF InHalves
<1>1. /\ L \in 1..4 /\ l \in Level /\ l + 1 \in Level /\ l \in 1..L /\ l + 1 \in 1..L
      /\ l < 4 /\ IsFlags(f) /\ Sides = {0, 1}
  BY LevelType DEF Level, Tree, Sides
<1>2. i \in Nat /\ \A s \in Sides : 2 * i + s \in Index(l + 1) /\ 2 * i + s \in Nat
  BY <1>1, Children
<1>3. \A j \in Index(L) : /\ Under(l, j) \in Nat /\ Under(l + 1, j) \in Nat
                          /\ Under(l, j) = Under(l + 1, j) \div 2
  BY <1>1, UnderBelow
<1>4. ASSUME NEW s \in Sides, Tried(f, l + 1, 2 * i + s)
      PROVE  \/ /\ ~Found(In(s))
                /\ \A j \in Index(L) : Under(l + 1, j) = 2 * i + s => Stuck(f, j)
             \/ Found(In(s)) /\ Somewhere(f, l, i, Up(s))
  <2>1. Full(s) \in f[l][i] <=> BothFull \subseteq f[l + 1][2 * i + s]
    BY <1>1 DEF Tree, Node
  <2>2. CASE Full(s) \in f[l][i]
    <3>1. ASSUME NEW j \in Index(L), Under(l + 1, j) = 2 * i + s
          PROVE  Stuck(f, j)
      BY <1>1, <2>1, <2>2, <3>1, AllDown DEF Stuck, BothFull
    <3>2. ~Found(In(s))
      BY <2>2 DEF Found, NoChunk
    <3> QED
      BY <3>1, <3>2
  <2>3. CASE Full(s) \notin f[l][i]
    <3>1. In(s) = below[2 * i + s]
      BY <2>3
    <3>2. PICK q : q = below[2 * i + s]
      OBVIOUS
    <3>3. PICK u : u = Up(s)
      OBVIOUS
    <3>4. u.offs = q.offs + s * ChunkSize(l) /\ u.flags = MarkParent(q.flags, l, i, s)
      BY <3>1, <3>2, <3>3
    <3>5. In(s) = q
      BY <3>1, <3>2
    <3> HIDE DEF Up, In
    <3>6. Nowhere(f, l + 1, 2 * i + s, q) \/ Somewhere(f, l + 1, 2 * i + s, q)
      BY <1>2, <1>4, <2>1, <2>3, <3>2 DEF Sound
    <3>7. CASE Nowhere(f, l + 1, 2 * i + s, q)
      BY <3>5, <3>7 DEF Nowhere, Found
    <3>8. CASE Somewhere(f, l + 1, 2 * i + s, q)
      <4>1. Somewhere(f, l, i, u)
        BY <1>1, <2>3, <3>4, <3>8, UpSound
      <4>2. q.offs # Null
        BY <3>8 DEF Somewhere, Null
      <4> QED
        BY <3>3, <3>5, <4>1, <4>2 DEF Found
    <3> QED
      BY <3>6, <3>7, <3>8
  <2> QED
    BY <2>2, <2>3
<1> HIDE DEF In, Up, r
<1>5. Tried(f, l + 1, 2 * i + 0)
  BY <1>2, <1>3 DEF Tried
<1>6. CASE Found(In(0))
  BY <1>0, <1>1, <1>4, <1>5, <1>6
<1>7. CASE ~Found(In(0))
  <2>1. \A j \in Index(L) : Under(l + 1, j) = 2 * i + 0 => Stuck(f, j)
    BY <1>1, <1>4, <1>5, <1>7
  <2>2. Tried(f, l + 1, 2 * i + 1)
    BY <1>2, <1>3, <2>1 DEF Tried
  <2>3. CASE Found(In(1))
    BY <1>0, <1>1, <1>4, <1>7, <2>2, <2>3
  <2>4. CASE ~Found(In(1))
    <3>1. \A j \in Index(L) : Under(l + 1, j) = 2 * i + 1 => Stuck(f, j)
      BY <1>1, <1>4, <2>2, <2>4
    <3>2. \A j \in Index(L) : Under(l, j) = i => Stuck(f, j)
      BY <1>2, <1>3, <2>1, <3>1
    <3>3. r.offs = Null
      BY <1>0, <1>7, <2>4 DEF NoChunk
    <3> QED
      BY <3>2, <3>3 DEF Nowhere
  <2> QED
    BY <2>3, <2>4
<1> QED
  BY <1>6, <1>7

(* do_mm_alloc_chunk, from the root.                                       *)
LEMMA AllocSound ==
    ASSUME NEW f, Tree(f), ~(BothFull \subseteq f[1][0])
    PROVE  LET r == AllocChunk(f, L) IN Nowhere(f, 1, 0, r) \/ Somewhere(f, 1, 0, r)
<1> DEFINE l4 == [i \in Index(4) |-> Take(f, 4, i)]
           l3 == Search(f, L, 3, l4)
           l2 == Search(f, L, 2, l3)
           l1 == Search(f, L, 1, l2)
<1>1. L \in 1..4
  BY LevelType
<1>2. L = 4 => \A i \in Index(4) : Sound(f, 4, i, l4[i])
  BY TakeSound
<1>3. ASSUME NEW l \in 1..3, NEW below,
             l < L => \A x \in Index(l + 1) : Sound(f, l + 1, x, below[x])
      PROVE  l <= L => \A i \in Index(l) : Sound(f, l, i, Search(f, L, l, below)[i])
  <2> SUFFICES ASSUME l <= L, NEW i \in Index(l)
               PROVE  Sound(f, l, i, Search(f, L, l, below)[i])
    OBVIOUS
  <2>1. CASE l = L
    <3>1. Search(f, L, l, below)[i] = Take(f, L, i)
      BY <2>1 DEF Search
    <3> QED
      BY <2>1, <3>1, TakeSound
  <2>2. CASE l # L
    <3>1. Search(f, L, l, below)[i] = InHalves(f, l, i, below)
      BY <2>2 DEF Search
    <3>2. l < L
      BY <1>1, <2>2
    <3> QED
      BY <1>3, <3>1, <3>2, HalvesSound
  <2> QED
    BY <2>1, <2>2
<1> HIDE DEF l4
<1>4. L >= 3 => \A i \in Index(3) : Sound(f, 3, i, l3[i])
  BY <1>1, <1>2, <1>3
<1> HIDE DEF l3
<1>5. L >= 2 => \A i \in Index(2) : Sound(f, 2, i, l2[i])
  BY <1>1, <1>3, <1>4
<1> HIDE DEF l2
<1>6. \A i \in Index(1) : Sound(f, 1, i, l1[i])
  BY <1>1, <1>3, <1>5
<1>7. Sound(f, 1, 0, l1[0])
  BY <1>6, Dimensions
<1>8. Tried(f, 1, 0)
  BY <1>1, UnderBelow DEF Tried
<1>9. AllocChunk(f, L) = l1[0]
  BY DEF AllocChunk, l2, l3, l4
<1> QED
  BY <1>7, <1>8, <1>9 DEF Sound

-----------------------------------------------------------------------------
(* Giving a chunk back.                                                    *)

LEMMA ChunkOf ==
    ASSUME NEW j \in Index(L), NEW s \in Sides, NEW l \in 1..L
    PROVE  /\ l < L => Place(j, s) \div ChunkSize(l) = Under(l + 1, j)
           /\ l = L => Place(j, s) \div ChunkSize(l) = 2 * j + s
<1>1. Entries[1] = 1 /\ Entries[2] = 2 /\ Entries[3] = 4 /\ Entries[4] = 8
  BY DEF Entries
<1>2. CASE L = 1
  BY <1>1, <1>2, Dimensions DEF Under, Place, Sides
<1>3. CASE L = 2
  <2>1. CASE l = 1
    BY <1>1, <1>3, <2>1, Dimensions DEF Under, Place, Sides
  <2>2. CASE l = 2
    BY <1>1, <1>3, <2>2, Dimensions DEF Under, Place, Sides
  <2> QED
    BY <1>3, <2>1, <2>2
<1>4. CASE L = 3
  <2>1. CASE l = 1
    BY <1>1, <1>4, <2>1, Dimensions DEF Under, Place, Sides
  <2>2. CASE l = 2
    BY <1>1, <1>4, <2>2, Dimensions DEF Under, Place, Sides
  <2>3. CASE l = 3
    BY <1>1, <1>4, <2>3, Dimensions DEF Under, Place, Sides
  <2> QED
    BY <1>4, <2>1, <2>2, <2>3
<1>5. CASE L = 4
  <2>1. CASE l = 1
    BY <1>1, <1>5, <2>1, Dimensions DEF Under, Place, Sides
  <2>2. CASE l = 2
    BY <1>1, <1>5, <2>2, Dimensions DEF Under, Place, Sides
  <2>3. CASE l = 3
    BY <1>1, <1>5, <2>3, Dimensions DEF Under, Place, Sides
  <2>4. CASE l = 4
    BY <1>1, <1>5, <2>4, Dimensions DEF Under, Place, Sides
  <2> QED
    BY <1>5, <2>1, <2>2, <2>3, <2>4
<1> QED
  BY <1>2, <1>3, <1>4, <1>5, LevelType

(* g is f with half s of entry j given back, as far as the levels from l   *)
(* on are concerned, which are as they should be.                          *)
Cleared(f, l, j, s, g) ==
    /\ IsFlags(g)
    /\ g[L][j] = f[L][j] \ {Full(s)}
    /\ \A x \in Index(L) : x # j => g[L][x] = f[L][x]
    /\ \A k \in Level : k < l => g[k] = f[k]
    /\ \A x \in Index(l) : x # Under(l, j) => g[l][x] = f[l][x]
    /\ ~(BothFull \subseteq g[l][Under(l, j)])
    /\ \A k \in Level : k >= l => \A x \in Index(k) : Node(g, k, x)

FreedIn(f, l, j, s, r) == r.level = L /\ Cleared(f, l, j, s, r.flags)

LEMMA FreeHere ==
    ASSUME NEW f, Tree(f), NEW j \in Index(L), NEW s \in Sides, NEW d
    PROVE  FreedIn(f, L, j, s, FreeIn(f, Place(j, s), L, d))
<1> DEFINE r == FreeIn(f, Place(j, s), L, d)
           c == 2 * j + s
           child == IF L < 4 THEN f[L + 1][c] ELSE {}
<1>1. /\ L \in 1..4 /\ L \in Level /\ L \in 1..L /\ IsFlags(f) /\ Under(L, j) = j
      /\ s \in {0, 1} /\ j \in Nat
  BY LevelType, UnderBelow, PlaceType DEF Level, Tree, Sides
<1>2. Place(j, s) \div ChunkSize(L) = c /\ c \div 2 = j /\ c % 2 = s
  BY <1>1, ChunkOf
<1>3. \A x \in Index(L) : f[L][x] \subseteq BothFull /\ (x \in Lame => Full(1) \notin f[L][x])
  BY <1>1 DEF Tree, Node
<1>4. Div(s) \notin f[L][j]
  BY <1>1, <1>3, FlagsDiffer DEF BothFull, Sides
<1>5. child = {}
  BY <1>1, Children DEF Tree, Node
<1>6. /\ r.level = L
      /\ r.flags = [f EXCEPT ![L][j] = f[L][j] \ Gone(L, s, child)]
  BY <1>2, <1>4 DEF FreeIn
<1>7. f[L][j] \ Gone(L, s, child) = f[L][j] \ {Full(s)}
  BY <1>4 DEF Gone, Half
<1> HIDE DEF r, child
<1>8. PICK e : e = f[L][j] \ {Full(s)}
  OBVIOUS
<1>9. PICK g : g = r.flags
  OBVIOUS
<1>10. Replaced(f, L, j, e, g)
  BY <1>6, <1>7, <1>8, <1>9 DEF Replaced
<1>11. /\ IsFlags(g)
       /\ \A k \in Level : k # L => g[k] = f[k]
       /\ g[L][j] = e
       /\ \A x \in Index(L) : x # j => g[L][x] = f[L][x]
  BY <1>1, <1>10, SetFlags
<1>12. \A x \in Index(L) : Node(g, L, x)
  <2> SUFFICES ASSUME NEW x \in Index(L)
               PROVE  Node(g, L, x)
    OBVIOUS
  <2>1. g[L][x] \subseteq BothFull /\ (x \in Lame => Full(1) \notin g[L][x])
    BY <1>3, <1>8, <1>11
  <2> QED
    BY <1>1, <2>1 DEF Node
<1>13. \A k \in Level : k > L => \A x \in Index(k) : Node(g, k, x)
  BY <1>1, <1>11 DEF Tree, Node, Level
<1>14. \A k \in Level : k >= L => \A x \in Index(k) : Node(g, k, x)
  BY <1>1, <1>12, <1>13 DEF Level
<1>15. ~(BothFull \subseteq g[L][j])
  BY <1>1, <1>8, <1>11 DEF BothFull
<1>16. Cleared(f, L, j, s, g)
  BY <1>1, <1>8, <1>11, <1>14, <1>15 DEF Cleared, Level
<1> QED
  BY <1>6, <1>9, <1>16 DEF FreedIn, r

LEMMA FreeUp ==
    ASSUME NEW f, Tree(f), NEW j \in Index(L), NEW s \in Sides, Full(s) \in f[L][j],
           NEW l \in 1..3, l < L, NEW d, FreedIn(f, l + 1, j, s, d)
    PROVE  FreedIn(f, l, j, s, FreeIn(f, Place(j, s), l, d))
<1> DEFINE r == FreeIn(f, Place(j, s), l, d)
           c == Under(l + 1, j)
           i == Under(l, j)
           t == c % 2
           child == d.flags[l + 1][c]
<1>1. /\ L \in 1..4 /\ L \in Level /\ l \in Level /\ l + 1 \in Level /\ l \in 1..L /\ l + 1 \in 1..L
      /\ l < 4 /\ IsFlags(f)
  BY LevelType DEF Level, Tree
<1>2. /\ c \in Index(l + 1) /\ c \in Nat /\ i \in Index(l) /\ i \in Nat /\ i = c \div 2
  BY <1>1, UnderBelow
<1>3. t \in Sides /\ c = 2 * i + t /\ t \in {0, 1}
  BY <1>2 DEF Sides
<1>4. Place(j, s) \div ChunkSize(l) = c
  BY <1>1, ChunkOf
<1>5. f[l + 1][c] # {}
  BY <1>1, AllDown
<1>6. /\ f[l][i] \subseteq Half(0) \union Half(1)
      /\ \A a \in Sides :
           /\ Div(a) \in f[l][i] <=> f[l + 1][2 * i + a] # {}
           /\ Full(a) \in f[l][i] <=> BothFull \subseteq f[l + 1][2 * i + a]
  BY <1>1, <1>2 DEF Tree, Node
<1>7. Div(t) \in f[l][i]
  BY <1>3, <1>5, <1>6
<1>8. /\ r.level = d.level
      /\ r.flags = [d.flags EXCEPT ![l][i] = f[l][i] \ Gone(l, t, child)]
  BY <1>1, <1>2, <1>4, <1>7 DEF FreeIn
<1>9. PICK e : e = f[l][i] \ (IF child = {} THEN {Full(t), Div(t)} ELSE {Full(t)})
  OBVIOUS
<1>10. e = f[l][i] \ Gone(l, t, child)
  BY <1>1, <1>9 DEF Gone, Half
<1>11. PICK g : g = d.flags
  OBVIOUS
<1>12. PICK h : h = r.flags
  OBVIOUS
<1>13. Replaced(g, l, i, e, h)
  BY <1>8, <1>10, <1>11, <1>12 DEF Replaced
<1>14. child = g[l + 1][c]
  BY <1>11
<1> HIDE DEF r, child, t, i, c
<1>15. /\ IsFlags(g)
       /\ g[L][j] = f[L][j] \ {Full(s)}
       /\ \A x \in Index(L) : x # j => g[L][x] = f[L][x]
       /\ \A k \in Level : k < l + 1 => g[k] = f[k]
       /\ \A x \in Index(l + 1) : x # c => g[l + 1][x] = f[l + 1][x]
       /\ ~(BothFull \subseteq g[l + 1][c])
       /\ \A k \in Level : k >= l + 1 => \A x \in Index(k) : Node(g, k, x)
  BY <1>11 DEF FreedIn, Cleared, c
<1>16. /\ IsFlags(h)
       /\ \A k \in Level : k # l => h[k] = g[k]
       /\ h[l][i] = e
       /\ \A x \in Index(l) : x # i => h[l][x] = g[l][x]
  BY <1>1, <1>2, <1>13, <1>15, SetFlags
<1>17. /\ g[l] = f[l] /\ h[l + 1] = g[l + 1]
       /\ \A k \in Level : k < l => h[k] = f[k]
  BY <1>1, <1>15, <1>16 DEF Level
<1>18. \A x \in Index(l) : Node(h, l, x)
  <2> SUFFICES ASSUME NEW x \in Index(l)
               PROVE  Node(h, l, x)
    OBVIOUS
  <2>0. x \in Nat /\ \A a \in Sides : 2 * x + a \in Index(l + 1) /\ 2 * x + a \in Nat
    BY <1>1, Children
  <2>1. /\ f[l][x] \subseteq Half(0) \union Half(1)
        /\ \A a \in Sides :
             /\ Div(a) \in f[l][x] <=> f[l + 1][2 * x + a] # {}
             /\ Full(a) \in f[l][x] <=> BothFull \subseteq f[l + 1][2 * x + a]
    BY <1>1 DEF Tree, Node
  <2>2. CASE x # i
    <3>1. h[l][x] = f[l][x] /\ l < L /\ l # L /\ ~(l > L)
      BY <1>1, <1>16, <1>17, <2>2
    <3>2. \A a \in Sides : h[l + 1][2 * x + a] = f[l + 1][2 * x + a]
      <4> SUFFICES ASSUME NEW a \in Sides
                   PROVE  h[l + 1][2 * x + a] = f[l + 1][2 * x + a]
        OBVIOUS
      <4>1. 2 * x + a # c
        BY <1>2, <1>3, <2>0, <2>2 DEF Sides
      <4> QED
        BY <1>15, <1>17, <2>0, <4>1
    <3> QED
      BY <2>1, <3>1, <3>2 DEF Node
  <2>3. CASE x = i
    <3>1. h[l][x] = e /\ l < L /\ l # L /\ ~(l > L)
      BY <1>1, <1>16, <2>3
    <3>2. e \subseteq Half(0) \union Half(1)
      BY <1>6, <1>9
    <3>3. ASSUME NEW a \in Sides
          PROVE  /\ Div(a) \in e <=> h[l + 1][2 * x + a] # {}
                 /\ Full(a) \in e <=> BothFull \subseteq h[l + 1][2 * x + a]
      <4>1. CASE a = t
        <5>1. 2 * x + a = c
          BY <1>3, <2>3, <4>1
        <5>2. Full(t) \notin e /\ ~(BothFull \subseteq h[l + 1][c])
          BY <1>9, <1>15, <1>17
        <5>3. Div(t) \in e <=> h[l + 1][c] # {}
          BY <1>3, <1>7, <1>9, <1>14, <1>17, FlagsDiffer
        <5> QED
          BY <4>1, <5>1, <5>2, <5>3
      <4>2. CASE a # t
        <5>1. h[l + 1][2 * x + a] = f[l + 1][2 * x + a]
          <6>1. 2 * x + a # c
            BY <1>2, <1>3, <2>0, <2>3, <4>2 DEF Sides
          <6> QED
            BY <1>15, <1>17, <2>0, <6>1
        <5>2. Full(a) # Full(t) /\ Div(a) # Div(t) /\ Full(a) # Div(t) /\ Div(a) # Full(t)
          BY <1>3, <4>2, FlagsDiffer DEF Sides
        <5>3. (Div(a) \in e <=> Div(a) \in f[l][x]) /\ (Full(a) \in e <=> Full(a) \in f[l][x])
          BY <1>9, <2>3, <5>2
        <5> QED
          BY <2>1, <5>1, <5>3
      <4> QED
        BY <4>1, <4>2
    <3> QED
      BY <3>1, <3>2, <3>3 DEF Node
  <2> QED
    BY <2>2, <2>3
<1>19. \A k \in Level : k >= l + 1 => \A x \in Index(k) : Node(h, k, x)
  <2> SUFFICES ASSUME NEW k \in Level, k >= l + 1, NEW x \in Index(k)
               PROVE  Node(h, k, x)
    OBVIOUS
  <2>1. Node(g, k, x) /\ h[k] = g[k] /\ (k < L => h[k + 1] = g[k + 1])
    BY <1>1, <1>15, <1>16 DEF Level
  <2> QED
    BY <2>1 DEF Node
<1>20. \A k \in Level : k >= l => \A x \in Index(k) : Node(h, k, x)
  BY <1>1, <1>18, <1>19 DEF Level
<1>21. ~(BothFull \subseteq h[l][i]) /\ h[L] = g[L]
  BY <1>1, <1>3, <1>9, <1>16 DEF BothFull
<1>22. Cleared(f, l, j, s, h)
  BY <1>15, <1>16, <1>17, <1>20, <1>21 DEF Cleared, i
<1>23. r.level = L
  BY <1>8 DEF FreedIn
<1> QED
  BY <1>12, <1>22, <1>23 DEF FreedIn, r

(* do_mm_free_chunk, from the root.                                        *)
LEMMA FreeSound ==
    ASSUME NEW f, Tree(f), NEW j \in Index(L), NEW s \in Sides, Full(s) \in f[L][j]
    PROVE  FreedIn(f, 1, j, s, FreeChunk(f, Place(j, s)))
<1> DEFINE p == Place(j, s)
           l4 == FreeIn(f, p, 4, [level |-> -1, flags |-> f])
           l3 == FreeIn(f, p, 3, l4)
           l2 == FreeIn(f, p, 2, l3)
           l1 == FreeIn(f, p, 1, l2)
<1>1. L \in 1..4
  BY LevelType
<1>2. L = 4 => FreedIn(f, 4, j, s, l4)
  BY FreeHere
<1>3. ASSUME NEW l \in 1..3, NEW d, l < L => FreedIn(f, l + 1, j, s, d)
      PROVE  l <= L => FreedIn(f, l, j, s, FreeIn(f, p, l, d))
  <2>1. CASE l = L
    BY <2>1, FreeHere
  <2>2. CASE l < L
    BY <1>3, <2>2, FreeUp
  <2> QED
    BY <1>1, <2>1, <2>2
<1> HIDE DEF l4
<1>4. L >= 3 => FreedIn(f, 3, j, s, l3)
  BY <1>1, <1>2, <1>3
<1> HIDE DEF l3
<1>5. L >= 2 => FreedIn(f, 2, j, s, l2)
  BY <1>1, <1>3, <1>4
<1> HIDE DEF l2
<1>6. FreedIn(f, 1, j, s, l1)
  BY <1>1, <1>3, <1>5
<1> QED
  BY <1>6 DEF FreeChunk, l2, l3, l4

-----------------------------------------------------------------------------
(* The heap: a table of descriptors t and the set U of allocations in use. *)

Blk == 0..(Blocks - 1)
WholeFlags == [Clear EXCEPT ![1][0] = BothFull]

(* A block is free, part of a run, or divided into chunks.                 *)
Whole(d) == d.flags = WholeFlags /\ d.bf \subseteq {"CONT"}
Divided(d) == d.bf = {"DIV"} /\ Tree(d.flags) /\ d.flags[1][0] # {}
Known(d) == d = Zero \/ Whole(d) \/ Divided(d)

Large(a) == a.size > BlockSize \div 2
First(a) == a.ptr \div BlockSize
Last(a) == IF Large(a) THEN First(a) + BlocksFor(a.size) - 1 ELSE First(a)

(* The flags say what a is: a run of blocks, or a chunk of one.            *)
OwnsRun(t, a) ==
    \A b \in First(a)..Last(a) : Whole(t[b]) /\ ("CONT" \in t[b].bf <=> b < Last(a))
InBlock(a, b, j, s) == ~Large(a) /\ a.ptr = b * BlockSize + Place(j, s)
OwnsChunk(t, a) ==
    \E b \in Blk, j \in Index(L), s \in Sides :
        InBlock(a, b, j, s) /\ Divided(t[b]) /\ Full(s) \in t[b].flags[L][j]
Owned(t, a) ==
    /\ a.size \in Sizes /\ a.ptr \in Nat /\ Last(a) < Blocks
    /\ Large(a) => a.ptr = First(a) * BlockSize /\ OwnsRun(t, a)
    /\ ~Large(a) => OwnsChunk(t, a)

(* And they say nothing else.                                              *)
Accounted(t, U, b) ==
    /\ Whole(t[b]) => \E a \in U : Large(a) /\ b \in First(a)..Last(a)
    /\ Divided(t[b]) => \A j \in Index(L), s \in Sides :
            Full(s) \in t[b].flags[L][j] => \E a \in U : InBlock(a, b, j, s)

Heap(t, U) ==
    /\ DOMAIN t = Blk
    /\ \A b \in Blk : Known(t[b])
    /\ \A a \in U : Owned(t, a)
    /\ \A b \in Blk : Accounted(t, U, b)
    /\ \A a, c \in U : a # c => Apart(a, c)

LEMMA ClearFlags ==
    /\ IsFlags(Clear) /\ \A k \in Level : \A x \in Index(k) : Clear[k][x] = {}
    /\ Tree(Clear) /\ Clear[1][0] = {}
<1>1. \A k \in Level : Clear[k] = [x \in Index(k) |-> {}]
  BY DEF Clear
<1>2. IsFlags(Clear) /\ \A k \in Level : \A x \in Index(k) : Clear[k][x] = {}
  BY <1>1 DEF IsFlags, Clear
<1>3. ASSUME NEW k \in Level, NEW x \in Index(k)
      PROVE  Node(Clear, k, x)
  <2>1. Clear[k][x] = {}
    BY <1>2
  <2>2. k < L => \A s \in Sides : Clear[k + 1][2 * x + s] = {}
    <3>1. k < L => k < 4
      BY LevelType DEF Level
    <3> QED
      BY <1>2, <3>1, Children
  <2> QED
    BY <2>1, <2>2 DEF Node, BothFull
<1>4. 1 \in Level /\ 0 \in Index(1)
  BY Dimensions DEF Level
<1> QED
  BY <1>2, <1>3, <1>4 DEF Tree

LEMMA WholeShape ==
    /\ IsFlags(WholeFlags) /\ WholeFlags[1][0] = BothFull
    /\ \A k \in Level : \A x \in Index(k) : WholeFlags[k][x] \in {{}, BothFull}
<1>1. 1 \in Level /\ 0 \in Index(1)
  BY Dimensions DEF Level
<1>2. PICK e : e = BothFull
  OBVIOUS
<1>3. Replaced(Clear, 1, 0, e, WholeFlags)
  BY <1>2 DEF Replaced, WholeFlags
<1>4. /\ IsFlags(WholeFlags)
      /\ \A k \in Level : k # 1 => WholeFlags[k] = Clear[k]
      /\ WholeFlags[1][0] = e
      /\ \A x \in Index(1) : x # 0 => WholeFlags[1][x] = Clear[1][x]
  BY <1>1, <1>3, ClearFlags, SetFlags
<1> QED
  BY <1>2, <1>4, ClearFlags

(* A tree with an empty root is empty.                                     *)
LEMMA EmptyTree ==
    ASSUME NEW f, Tree(f), f[1][0] = {}
    PROVE  f = Clear
<1> DEFINE P(k) == \A x \in Index(k) : f[k][x] = {}
<1>1. L \in 1..4 /\ IsFlags(f)
  BY LevelType DEF Tree
<1>2. P(1)
  BY Dimensions
<1>3. ASSUME NEW k \in 1..3, P(k)
      PROVE  P(k + 1)
  <2> SUFFICES ASSUME NEW x \in Index(k + 1)
               PROVE  f[k + 1][x] = {}
    OBVIOUS
  <2>1. k \in Level /\ k + 1 \in Level
    BY DEF Level
  <2>2. CASE k < L
    <3>1. x \in Nat /\ x \div 2 \in Index(k) /\ x % 2 \in Sides /\ x = 2 * (x \div 2) + (x % 2)
      <4>1. \/ Index(k) = 0..0 /\ Index(k + 1) = 0..1
            \/ Index(k) = 0..1 /\ Index(k + 1) = 0..3
            \/ Index(k) = 0..3 /\ Index(k + 1) = 0..7
        BY Dimensions
      <4>2. x \in Nat
        BY <4>1
      <4>3. PICK y, z : y = x \div 2 /\ z = x % 2
        OBVIOUS
      <4>4. y \in Nat /\ z \in 0..1 /\ x = 2 * y + z
        BY <4>2, <4>3, Halves
      <4> QED
        BY <4>1, <4>3, <4>4 DEF Sides
    <3>2. PICK y \in Index(k) : y = x \div 2
      BY <3>1
    <3>3. PICK s \in Sides : s = x % 2
      BY <3>1
    <3>4. x = 2 * y + s
      BY <3>1, <3>2, <3>3
    <3>5. Node(f, k, y) /\ f[k][y] = {}
      BY <1>3, <2>1 DEF Tree
    <3> QED
      BY <2>2, <3>4, <3>5 DEF Node
  <2>3. CASE k >= L
    BY <1>1, <2>1, <2>3 DEF Tree, Node
  <2> QED
    BY <1>1, <2>2, <2>3
<1> HIDE DEF P
<1>4. P(2)
  BY <1>2, <1>3
<1>5. P(3)
  BY <1>3, <1>4
<1>6. P(4)
  BY <1>3, <1>5
<1>7. \A k \in Level : P(k)
  BY <1>2, <1>4, <1>5, <1>6 DEF Level
<1>8. \A k \in Level : \A x \in Index(k) : f[k][x] = Clear[k][x]
  BY <1>7, ClearFlags DEF P
<1>9. f = [k \in Level |-> [x \in Index(k) |-> f[k][x]]]
  BY <1>1 DEF IsFlags
<1>10. Clear = [k \in Level |-> [x \in Index(k) |-> Clear[k][x]]]
  BY ClearFlags DEF IsFlags
<1>11. \A k \in Level : [x \in Index(k) |-> f[k][x]] = [x \in Index(k) |-> Clear[k][x]]
  BY <1>8
<1> QED
  BY <1>9, <1>10, <1>11

(* The three kinds of block exclude one another.                           *)
LEMMA Kinds ==
    ASSUME NEW d
    PROVE  /\ d = Zero => ~Whole(d) /\ ~Divided(d) /\ d.flags = Clear /\ d.bf = {}
           /\ Whole(d) => ~Divided(d) /\ d.flags[1][0] = BothFull
           /\ Known(d) => (Free(d) <=> d = Zero)
           /\ Known(d) => ("DIV" \in d.bf <=> Divided(d))
<1>1. BothFull # {}
  BY DEF BothFull
<1>2. d = Zero => d.flags = Clear /\ d.bf = {}
  BY DEF Zero
<1>3. Whole(d) => d.flags[1][0] = BothFull /\ "DIV" \notin d.bf
  BY WholeShape DEF Whole
<1>4. d = Zero => ~Whole(d) /\ ~Divided(d)
  BY <1>1, <1>2, <1>3, ClearFlags DEF Divided
<1>5. Whole(d) => ~Divided(d)
  BY <1>3 DEF Divided
<1>6. Divided(d) => ~Free(d)
  BY DEF Divided, Free
<1>7. Whole(d) => ~Free(d)
  BY <1>1, <1>3 DEF Free
<1>8. d = Zero => Free(d)
  BY <1>2, ClearFlags DEF Free
<1> QED
  BY <1>2, <1>3, <1>4, <1>5, <1>6, <1>7, <1>8 DEF Known, Divided

LEMMA MinIs ==
    ASSUME NEW S, S \subseteq Nat, NEW m \in S, \A x \in S : m <= x
    PROVE  Min(S) = m
<1>1. Min(S) \in S /\ \A x \in S : Min(S) <= x
  BY DEF Min
<1>2. Min(S) <= m /\ m <= Min(S) /\ Min(S) \in Nat /\ m \in Nat
  BY <1>1
<1> QED
  BY <1>2

(* A set of numbers has a smallest: of the intervals that end in it, one   *)
(* has no other inside.                                                    *)
LEMMA MinIn ==
    ASSUME NEW S, S \subseteq Nat, S # {}
    PROVE  Min(S) \in S /\ \A x \in S : Min(S) <= x
<1> DEFINE T == {0..m : m \in S}
<1>1. T \subseteq FiniteSubsetsOf(Nat)
  <2> SUFFICES ASSUME NEW m \in S
               PROVE  0..m \in FiniteSubsetsOf(Nat)
    OBVIOUS
  <2>1. m \in Nat
    OBVIOUS
  <2>2. IsFiniteSet(0..m)
    BY <2>1, FS_Interval
  <2>3. 0..m \subseteq Nat
    BY <2>1
  <2> QED
    BY <2>2, <2>3 DEF FiniteSubsetsOf
<1>2. T # {}
  OBVIOUS
<1> HIDE DEF T
<1>3. PICK I \in T : \A J \in T : ~(<<J, I>> \in StrictSubsetOrdering(Nat))
  BY <1>1, <1>2, FS_StrictSubsetOrderingWellFounded, WFMin
<1>4. PICK m \in S : I = 0..m
  BY DEF T
<1>5. m \in Nat
  OBVIOUS
<1>6. ASSUME NEW x \in S, x < m
      PROVE  FALSE
  <2>1. x \in Nat /\ 0..x \in T
    BY DEF T
  <2>2. 0..x \subseteq 0..m /\ m \in 0..m /\ m \notin 0..x /\ 0..x \subseteq Nat /\ 0..m \subseteq Nat
    BY <1>5, <1>6, <2>1
  <2>3. <<0..x, 0..m>> \in StrictSubsetOrdering(Nat)
    BY <2>2 DEF StrictSubsetOrdering
  <2> QED
    BY <1>3, <1>4, <2>1, <2>3
<1>7. \A x \in S : m <= x
  BY <1>5, <1>6
<1> QED
  BY <1>7, MinIs

-----------------------------------------------------------------------------
(* Where an allocation is.                                                 *)

LEMMA SizesOf ==
    ASSUME NEW n \in Nat
    PROVE  /\ n > BlockSize \div 2 => BlocksFor(n) \in Nat \ {0}
           /\ LevelFor(n) \in 1..4
           /\ OneLevel /\ n \in Sizes /\ ~(n > BlockSize \div 2) => LevelFor(n) = L
<1>1. LevelFor(n) \in 1..4
  BY DEF LevelFor
<1>2. n > BlockSize \div 2 => BlocksFor(n) \in Nat \ {0}
  <2>1. n > 2048 => (n + 4095) \div 4096 \in Nat \ {0}
    OBVIOUS
  <2> QED
    BY <2>1 DEF BlocksFor, BlockSize
<1>3. ASSUME OneLevel, n \in Sizes, ~(n > BlockSize \div 2)
      PROVE  LevelFor(n) = L
  <2>1. n <= BlockSize \div 2
    BY <1>3 DEF BlockSize
  <2>2. PICK m : m = CHOOSE s \in Sizes : s <= BlockSize \div 2
    OBVIOUS
  <2>3. m \in Sizes /\ m <= BlockSize \div 2
    BY <1>3, <2>1, <2>2
  <2>4. LevelFor(n) = LevelFor(m)
    BY <1>3, <2>1, <2>3 DEF OneLevel
  <2> QED
    BY <2>2, <2>4 DEF L
<1> QED
  BY <1>1, <1>2, <1>3

LEMMA InBlockIs ==
    ASSUME NEW a, NEW b \in Blk, NEW j \in Index(L), NEW s \in Sides, InBlock(a, b, j, s)
    PROVE  /\ First(a) = b /\ Last(a) = b /\ ~Large(a) /\ a.ptr \in Nat
           /\ a.ptr % BlockSize = Place(j, s)
<1>1. b \in Nat
  BY BlocksAssumption DEF Blk
<1>2. PICK p : p = Place(j, s)
  OBVIOUS
<1>3. p \in 0..4095 /\ a.ptr = b * 4096 + p
  <2>1. p \in 0..(4096 - ChunkSize(L)) /\ ChunkSize(L) \in 1..2048
    BY <1>2, PlaceType DEF BlockSize
  <2>2. p \in 0..4095
    BY <2>1
  <2> QED
    BY <1>2, <2>2 DEF InBlock, BlockSize
<1>4. a.ptr \div 4096 = b /\ a.ptr % 4096 = p /\ a.ptr \in Nat
  BY <1>1, <1>3
<1> QED
  BY <1>2, <1>4 DEF InBlock, First, Last, BlockSize

(* It fills no block but those from its first to its last.                 *)
LEMMA Extent ==
    ASSUME OneLevel, NEW t, NEW a, Owned(t, a)
    PROVE  /\ First(a) \in Blk /\ Last(a) \in Blk /\ First(a) <= Last(a)
           /\ First(a) \in Nat /\ Last(a) \in Nat
           /\ First(a) * BlockSize <= a.ptr
           /\ a.ptr + Room(a.size) <= (Last(a) + 1) * BlockSize
           /\ a.ptr \in Nat /\ Room(a.size) \in Nat \ {0} /\ a.size \in Nat
           /\ Large(a) => /\ a.ptr = First(a) * BlockSize
                          /\ a.ptr + Room(a.size) = (Last(a) + 1) * BlockSize
<1>1. a.size \in Nat /\ a.size \in Sizes /\ a.ptr \in Nat /\ Last(a) < Blocks /\ Blocks \in Nat
  BY SizesAssumption, BlocksAssumption DEF Owned
<1>2. CASE Large(a)
  <2>1. PICK n \in Nat \ {0} : n = BlocksFor(a.size)
    BY <1>1, <1>2, SizesOf DEF Large
  <2>2. PICK p : p = First(a)
    OBVIOUS
  <2>3. p \in Nat
    BY <1>1, <2>2 DEF First, BlockSize
  <2>4. Last(a) = p + n - 1
    BY <1>2, <2>1, <2>2 DEF Last
  <2>5. a.ptr = p * 4096 /\ Room(a.size) = n * 4096
    BY <1>2, <2>1, <2>2 DEF Owned, Room, Large, BlockSize
  <2> QED
    BY <1>1, <1>2, <2>1, <2>2, <2>3, <2>4, <2>5 DEF Blk, BlockSize
<1>3. CASE ~Large(a)
  <2>1. PICK b \in Blk, j \in Index(L), s \in Sides : InBlock(a, b, j, s)
    BY <1>3 DEF Owned, OwnsChunk
  <2>2. First(a) = b /\ Last(a) = b
    BY <2>1, InBlockIs
  <2>3. Room(a.size) = ChunkSize(L)
    BY <1>1, <1>3, SizesOf DEF Room, Large
  <2>4. PICK p, z : p = Place(j, s) /\ z = ChunkSize(L)
    OBVIOUS
  <2>5. p \in 0..(4096 - z) /\ z \in 1..2048
    BY <2>4, PlaceType DEF BlockSize
  <2>6. a.ptr = b * 4096 + p /\ b \in Nat
    BY <1>1, <2>1, <2>4 DEF InBlock, BlockSize, Blk
  <2>7. b * 4096 <= a.ptr /\ a.ptr + z <= (b + 1) * 4096
    BY <2>5, <2>6
  <2>8. Room(a.size) = z /\ z \in Nat \ {0}
    BY <2>3, <2>4, <2>5
  <2>9. First(a) * BlockSize <= a.ptr /\ a.ptr + Room(a.size) <= (Last(a) + 1) * BlockSize
    BY <2>2, <2>7, <2>8 DEF BlockSize
  <2>10. First(a) \in Blk /\ Last(a) \in Blk /\ First(a) <= Last(a)
         /\ First(a) \in Nat /\ Last(a) \in Nat
    BY <2>2, <2>6
  <2> QED
    BY <1>1, <1>3, <2>8, <2>9, <2>10
<1> QED
  BY <1>2, <1>3

(* What it owns it owns after a change elsewhere.                          *)
LEMMA StaysOwned ==
    ASSUME OneLevel, NEW t, NEW v, NEW a, Owned(t, a),
           \A b \in First(a)..Last(a) : v[b] = t[b]
    PROVE  Owned(v, a)
<1>1. CASE Large(a)
  BY <1>1 DEF Owned, OwnsRun
<1>2. CASE ~Large(a)
  <2>1. PICK b \in Blk, j \in Index(L), s \in Sides :
          InBlock(a, b, j, s) /\ Divided(t[b]) /\ Full(s) \in t[b].flags[L][j]
    BY <1>2 DEF Owned, OwnsChunk
  <2>2. First(a) = b /\ Last(a) = b /\ b \in Int
    <3>1. b \in Int
      BY BlocksAssumption DEF Blk
    <3>2. First(a) = b /\ Last(a) = b
      BY <2>1, InBlockIs
    <3> QED
      BY <3>1, <3>2
  <2>3. v[b] = t[b]
    <3>1. b \in b..b
      BY <2>2
    <3> QED
      BY <2>2, <3>1
  <2> QED
    BY <1>2, <2>1, <2>3 DEF Owned, OwnsChunk
<1> QED
  BY <1>1, <1>2

(* Its blocks are not free; those of a run are whole.                      *)
LEMMA InUse ==
    ASSUME OneLevel, NEW t, NEW a, Owned(t, a), NEW b \in First(a)..Last(a)
    PROVE  /\ t[b] # Zero
           /\ Large(a) => Whole(t[b])
           /\ ~Large(a) => /\ Divided(t[b])
                           /\ \E j \in Index(L), s \in Sides :
                                InBlock(a, b, j, s) /\ Full(s) \in t[b].flags[L][j]
<1>1. CASE Large(a)
  BY <1>1, Kinds DEF Owned, OwnsRun
<1>2. CASE ~Large(a)
  <2>1. PICK c \in Blk, j \in Index(L), s \in Sides :
          InBlock(a, c, j, s) /\ Divided(t[c]) /\ Full(s) \in t[c].flags[L][j]
    BY <1>2 DEF Owned, OwnsChunk
  <2>2. First(a) = c /\ Last(a) = c
    BY <2>1, InBlockIs
  <2>3. c = b
    BY <2>2, BlocksAssumption DEF Blk
  <2> QED
    BY <1>2, <2>1, <2>3, Kinds
<1> QED
  BY <1>1, <1>2

(* Allocations in different blocks are apart, runs only in different ones. *)
LEMMA BlocksApart ==
    ASSUME OneLevel, NEW t, NEW a, NEW v, NEW c, Owned(t, a), Owned(v, c),
           Last(a) < First(c) \/ Last(c) < First(a)
    PROVE  Apart(a, c)
<1>1. PICK p, q, x, y : p = First(a) /\ q = Last(a) /\ x = First(c) /\ y = Last(c)
  OBVIOUS
<1>2. /\ p \in Nat /\ q \in Nat /\ x \in Nat /\ y \in Nat /\ a.ptr \in Nat /\ c.ptr \in Nat
      /\ Room(a.size) \in Nat /\ Room(c.size) \in Nat
      /\ p * 4096 <= a.ptr /\ a.ptr + Room(a.size) <= (q + 1) * 4096
      /\ x * 4096 <= c.ptr /\ c.ptr + Room(c.size) <= (y + 1) * 4096
      /\ q < x \/ y < p
  BY <1>1, Extent DEF BlockSize
<1> QED
  BY <1>2 DEF Apart

LEMMA RunsApart ==
    ASSUME OneLevel, NEW t, NEW a, NEW c, Owned(t, a), Owned(t, c), Large(a), Apart(a, c)
    PROVE  Last(a) < First(c) \/ Last(c) < First(a)
<1>1. SUFFICES ASSUME ~(Last(a) < First(c) \/ Last(c) < First(a))
               PROVE  FALSE
  OBVIOUS
<1>2. PICK p, q, x, y : p = First(a) /\ q = Last(a) /\ x = First(c) /\ y = Last(c)
  OBVIOUS
<1>3. /\ p \in Nat /\ q \in Nat /\ x \in Nat /\ y \in Nat /\ a.ptr \in Nat /\ c.ptr \in Nat
      /\ Room(a.size) \in Nat /\ Room(c.size) \in Nat /\ p <= q /\ x <= y
      /\ p * 4096 = a.ptr /\ a.ptr + Room(a.size) = (q + 1) * 4096
      /\ x * 4096 <= c.ptr /\ c.ptr + Room(c.size) <= (y + 1) * 4096
      /\ Room(c.size) # 0 /\ Room(a.size) # 0
  BY <1>2, Extent DEF BlockSize
<1>4. q >= x /\ y >= p
  BY <1>1, <1>2, <1>3
<1>5. CASE Large(c)
  <2>1. x * 4096 = c.ptr /\ c.ptr + Room(c.size) = (y + 1) * 4096
    BY <1>2, <1>5, Extent DEF BlockSize
  <2> QED
    BY <1>3, <1>4, <2>1 DEF Apart
<1>6. CASE ~Large(c)
  <2>1. x = y
    BY <1>2, <1>6 DEF Last
  <2> QED
    BY <1>3, <1>4, <2>1 DEF Apart
<1> QED
  BY <1>5, <1>6

(* Two chunks of a block are apart, unless they are the same.              *)
LEMMA ChunksApart ==
    ASSUME OneLevel, NEW a, NEW c, NEW b \in Blk, NEW j \in Index(L), NEW s \in Sides,
           NEW k \in Index(L), NEW r \in Sides, InBlock(a, b, j, s), InBlock(c, b, k, r),
           a.size \in Sizes, c.size \in Sizes
    PROVE  Apart(a, c) <=> ~(j = k /\ s = r)
<1>1. Room(a.size) = ChunkSize(L) /\ Room(c.size) = ChunkSize(L)
  BY SizesAssumption, SizesOf DEF Room, InBlock, Large
<1>2. PICK m \in 0..15, n \in 0..15 : m = 2 * j + s /\ n = 2 * k + r
  BY PlaceType
<1>3. (m = n) <=> (j = k /\ s = r)
  BY <1>2, PlaceType
<1>4. b \in Nat
  BY BlocksAssumption DEF Blk
<1>5. a.ptr = b * 4096 + m * ChunkSize(L) /\ c.ptr = b * 4096 + n * ChunkSize(L)
  BY <1>2 DEF InBlock, Place, BlockSize
<1>6. Apart(a, c) <=> m # n
  <2>1. PICK z : z = ChunkSize(L)
    OBVIOUS
  <2>2. z \in {256, 512, 1024, 2048}
    BY <2>1, LevelType, Dimensions
  <2>3. Apart(a, c) <=> (a.ptr + z <= c.ptr \/ c.ptr + z <= a.ptr)
    BY <1>1, <2>1 DEF Apart
  <2>4. a.ptr = b * 4096 + m * z /\ c.ptr = b * 4096 + n * z
    BY <1>5, <2>1
  <2> HIDE <2>1
  <2>5. CASE z = 256
    BY <1>4, <2>3, <2>4, <2>5
  <2>6. CASE z = 512
    BY <1>4, <2>3, <2>4, <2>6
  <2>7. CASE z = 1024
    BY <1>4, <2>3, <2>4, <2>7
  <2>8. CASE z = 2048
    BY <1>4, <2>3, <2>4, <2>8
  <2> QED
    BY <2>2, <2>5, <2>6, <2>7, <2>8
<1> QED
  BY <1>3, <1>6

-----------------------------------------------------------------------------
(* Allocating.                                                             *)

(* What mm_alloc promises: nothing has changed, or there is one allocation *)
(* more.                                                                   *)
Gives(t, U, size, r) ==
    \/ r.ptr = Null /\ r.pdt = t
    \/ /\ r.ptr # Null
       /\ [ptr |-> r.ptr, size |-> size] \notin U
       /\ Heap(r.pdt, U \union {[ptr |-> r.ptr, size |-> size]})

LEMMA AllocBlocksGives ==
    ASSUME OneLevel, NEW t, NEW U, Heap(t, U), NEW size \in Sizes, size > BlockSize \div 2
    PROVE  Gives(t, U, size, AllocBlocks(t, BlocksFor(size)))
<1>0. PICK n \in Nat \ {0} : n = BlocksFor(size)
  BY SizesAssumption, SizesOf
<1> DEFINE starts == {b \in DOMAIN t : b + n <= Blocks /\ \A k \in b..(b + n - 1) : Free(t[k])}
           start == Min(starts)
           v == [b \in DOMAIN t |->
                   IF b \notin start..(start + n - 1) THEN t[b]
                   ELSE [bf |-> IF b < start + n - 1 THEN {"CONT"} ELSE {},
                         flags |-> [t[b].flags EXCEPT ![1][0] = BothFull]]]
           r == AllocBlocks(t, n)
<1>1. r = IF starts = {} THEN [ptr |-> Null, pdt |-> t] ELSE [ptr |-> start * BlockSize, pdt |-> v]
  BY DEF AllocBlocks
<1>2. DOMAIN t = Blk /\ \A b \in Blk : b \in Nat
  BY BlocksAssumption DEF Heap, Blk
<1>3. CASE starts = {}
  BY <1>0, <1>1, <1>3 DEF Gives
<1>4. CASE starts # {}
  <2>1. start \in starts
    BY <1>2, <1>4, MinIn
  <2>2. PICK p : p = start
    OBVIOUS
  <2>3. /\ p \in Nat /\ p + n <= Blocks /\ \A k \in p..(p + n - 1) : k \in Blk /\ t[k] = Zero
        /\ Blocks \in Nat
    <3>1. p \in Blk /\ p + n <= Blocks /\ \A k \in p..(p + n - 1) : Free(t[k])
      BY <1>2, <2>1, <2>2
    <3>2. p \in Nat /\ Blocks \in Nat
      BY <1>2, <3>1, BlocksAssumption
    <3>3. \A k \in p..(p + n - 1) : k \in Blk
      BY <3>1, <3>2 DEF Blk
    <3> QED
      BY <3>1, <3>2, <3>3, Kinds DEF Heap
  <2>4. PICK w : w = v
    OBVIOUS
  <2>5. /\ DOMAIN w = Blk
        /\ \A b \in Blk : b \notin p..(p + n - 1) => w[b] = t[b]
        /\ \A b \in p..(p + n - 1) : w[b] = [bf |-> IF b < p + n - 1 THEN {"CONT"} ELSE {},
                                             flags |-> WholeFlags]
    <3>1. \A b \in p..(p + n - 1) : t[b].flags = Clear
      BY <2>3, Kinds
    <3> QED
      BY <1>2, <2>2, <2>3, <2>4, <3>1 DEF WholeFlags
  <2>6. r.ptr = p * BlockSize /\ r.pdt = w
    BY <1>1, <1>4, <2>2, <2>4
  <2> HIDE DEF starts, start, v, r
  <2>7. \A b \in p..(p + n - 1) : Whole(w[b]) /\ ("CONT" \in w[b].bf <=> b < p + n - 1)
    <3> SUFFICES ASSUME NEW b \in p..(p + n - 1)
                 PROVE  Whole(w[b]) /\ ("CONT" \in w[b].bf <=> b < p + n - 1)
      OBVIOUS
    <3>1. w[b] = [bf |-> IF b < p + n - 1 THEN {"CONT"} ELSE {}, flags |-> WholeFlags]
      BY <2>5
    <3>2. PICK e : e = IF b < p + n - 1 THEN {"CONT"} ELSE {}
      OBVIOUS
    <3>3. w[b] = [bf |-> e, flags |-> WholeFlags]
      BY <3>1, <3>2
    <3>4. w[b].flags = WholeFlags /\ w[b].bf = e
      BY <3>3
    <3> QED
      BY <3>2, <3>4 DEF Whole
  <2>8. PICK a : a = [ptr |-> p * BlockSize, size |-> size]
    OBVIOUS
  <2>9. First(a) = p /\ Last(a) = p + n - 1 /\ Large(a) /\ a.ptr = p * BlockSize /\ a.size = size
    <3>1. (p * 4096) \div 4096 = p
      BY <2>3
    <3> QED
      BY <1>0, <2>8, <3>1 DEF First, Last, Large, BlockSize
  <2>10. Owned(w, a)
    <3>1. a.ptr \in Nat /\ Last(a) < Blocks
      BY <2>3, <2>9 DEF BlockSize
    <3> QED
      BY <2>7, <2>9, <3>1 DEF Owned, OwnsRun
  <2>11. ASSUME NEW c \in U
         PROVE  /\ Last(c) < p \/ p + n - 1 < First(c)
                /\ Owned(w, c)
    <3>1. Owned(t, c)
      BY DEF Heap
    <3>2. First(c) \in Nat /\ Last(c) \in Nat /\ First(c) <= Last(c) /\ Last(c) \in Blk
      BY <3>1, Extent
    <3>3. \A b \in First(c)..Last(c) : t[b] # Zero
      BY <3>1, InUse
    <3>4. \A b \in First(c)..Last(c) : b \notin p..(p + n - 1)
      BY <2>3, <3>3
    <3>5. Last(c) < p \/ p + n - 1 < First(c)
      <4>1. SUFFICES ASSUME Last(c) >= p, p + n - 1 >= First(c)
                     PROVE  FALSE
        BY <2>3, <3>2
      <4>2. CASE First(c) >= p
        <5>1. First(c) \in First(c)..Last(c) /\ First(c) \in p..(p + n - 1)
          BY <2>3, <3>2, <4>1, <4>2
        <5> QED
          BY <3>4, <5>1
      <4>3. CASE First(c) < p
        <5>1. p \in First(c)..Last(c) /\ p \in p..(p + n - 1)
          BY <2>3, <3>2, <4>1, <4>3
        <5> QED
          BY <3>4, <5>1
      <4> QED
        BY <2>3, <3>2, <4>2, <4>3
    <3>6. \A b \in First(c)..Last(c) : b \in Blk
      BY <3>2, BlocksAssumption DEF Blk
    <3>7. \A b \in First(c)..Last(c) : w[b] = t[b]
      BY <2>5, <3>4, <3>6
    <3> QED
      BY <3>1, <3>5, <3>7, StaysOwned
  <2>12. ASSUME NEW c \in U
         PROVE  Apart(a, c) /\ Apart(c, a) /\ a # c
    <3>1. Owned(w, c) /\ (Last(c) < p \/ p + n - 1 < First(c))
      BY <2>11
    <3>2. Apart(a, c) /\ Apart(c, a)
      BY <2>9, <2>10, <3>1, BlocksApart
    <3>3. a # c
      <4>1. First(a) \in Nat /\ Last(a) \in Nat /\ First(a) <= Last(a)
        BY <2>10, Extent
      <4> QED
        BY <2>9, <3>1, <4>1
    <3> QED
      BY <3>2, <3>3
  <2>13. ASSUME NEW b \in Blk
         PROVE  Known(w[b]) /\ Accounted(w, U \union {a}, b)
    <3>1. CASE b \in p..(p + n - 1)
      <4>1. Whole(w[b]) /\ ~Divided(w[b])
        BY <2>7, <3>1, Kinds
      <4> QED
        BY <2>9, <3>1, <4>1 DEF Known, Accounted
    <3>2. CASE b \notin p..(p + n - 1)
      <4>1. w[b] = t[b] /\ Known(t[b]) /\ Accounted(t, U, b)
        BY <2>5, <3>2 DEF Heap
      <4> QED
        BY <4>1 DEF Accounted
    <3> QED
      BY <3>1, <3>2
  <2>14. Heap(w, U \union {a})
    <3>1. \A c \in U \union {a} : Owned(w, c)
      BY <2>10, <2>11
    <3>2. \A c, d \in U \union {a} : c # d => Apart(c, d)
      BY <2>12 DEF Heap
    <3> QED
      BY <2>5, <2>13, <3>1, <3>2 DEF Heap
  <2>15. r.ptr # Null
    BY <2>3, <2>6 DEF Null, BlockSize
  <2> QED
    BY <1>0, <2>6, <2>8, <2>12, <2>14, <2>15 DEF Gives, r
<1> QED
  BY <1>3, <1>4

LEMMA AllocFromBlockGives ==
    ASSUME OneLevel, NEW t, NEW U, Heap(t, U), NEW size \in Sizes, ~(size > BlockSize \div 2)
    PROVE  Gives(t, U, size, AllocFromBlock(t, size))
<1> DEFINE try == [b \in DOMAIN t |->
                     IF BothFull \subseteq t[b].flags[1][0] THEN NoChunk
                     ELSE AllocChunk(t[b].flags, LevelFor(size))]
           usable == {b \in DOMAIN t : Found(try[b])}
           m == Min(usable)
           r == AllocFromBlock(t, size)
           v == [t EXCEPT ![m] = [bf |-> @.bf \union {"DIV"}, flags |-> try[m].flags]]
<1>1. r = IF usable = {} THEN [ptr |-> Null, pdt |-> t]
          ELSE [ptr |-> Address(m, try[m].offs), pdt |-> v]
  BY DEF AllocFromBlock
<1>2. DOMAIN t = Blk /\ \A b \in Blk : b \in Nat
  BY BlocksAssumption DEF Heap, Blk
<1>3. LevelFor(size) = L /\ size \in Nat
  BY SizesAssumption, SizesOf
<1>4. CASE usable = {}
  <2>1. r = [ptr |-> Null, pdt |-> t]
    BY <1>1, <1>4
  <2> HIDE DEF r, usable
  <2>2. Gives(t, U, size, r)
    BY <2>1 DEF Gives
  <2> QED
    BY <2>2 DEF r
<1>5. CASE usable # {}
  <2>1. m \in usable
    BY <1>2, <1>5, MinIn
  <2>2. PICK b, q, w : b = m /\ q = try[m] /\ w = v
    OBVIOUS
  <2>3. b \in Blk /\ q.offs # Null
    BY <1>2, <2>1, <2>2 DEF Found
  <2>4. q = IF BothFull \subseteq t[b].flags[1][0] THEN NoChunk ELSE AllocChunk(t[b].flags, L)
    BY <1>2, <1>3, <2>2, <2>3
  <2>5. ~(BothFull \subseteq t[b].flags[1][0]) /\ q = AllocChunk(t[b].flags, L)
    BY <2>3, <2>4 DEF NoChunk
  <2>6. r.ptr = Address(b, q.offs) /\ r.pdt = w
    <3>1. r = [ptr |-> Address(m, try[m].offs), pdt |-> v]
      BY <1>1, <1>5
    <3>2. Address(m, try[m].offs) = Address(b, q.offs) /\ v = w
      BY <2>2
    <3> HIDE DEF r, v, try, m
    <3> QED
      BY <3>1, <3>2
  <2>7. w = [t EXCEPT ![b] = [bf |-> t[b].bf \union {"DIV"}, flags |-> q.flags]]
    BY <1>2, <2>2, <2>3
  <2> HIDE DEF try, usable, m, r, v
  <2>8. /\ DOMAIN w = Blk /\ \A x \in Blk : x # b => w[x] = t[x]
        /\ w[b].bf = t[b].bf \union {"DIV"} /\ w[b].flags = q.flags
    BY <1>2, <2>3, <2>7
  <2>9. PICK f : f = t[b].flags
    OBVIOUS
  <2>10. Known(t[b]) /\ ~Whole(t[b])
    BY <2>3, <2>5, Kinds DEF Heap
  <2>11. Tree(f) /\ t[b].bf \union {"DIV"} = {"DIV"}
    BY <2>9, <2>10, ClearFlags, Kinds DEF Known, Divided
  <2>12. Somewhere(f, 1, 0, q)
    BY <2>3, <2>5, <2>9, <2>11, AllocSound DEF Nowhere
  <2>13. PICK j \in Index(L), s \in Sides :
           /\ Full(s) \notin f[L][j] /\ q.offs = Place(j, s) - 2 * 0 * ChunkSize(1)
           /\ Marked(f, 1, 0, j, s, q.flags)
    BY <2>12 DEF Somewhere
  <2>14. q.offs = Place(j, s) /\ Place(j, s) \in Nat
    BY <2>13, PlaceType, Dimensions DEF BlockSize
  <2>15. PICK g : g = q.flags
    OBVIOUS
  <2>16. /\ Tree(g) /\ g[1][0] # {}
         /\ g[L][j] = f[L][j] \union {Full(s)}
         /\ \A x \in Index(L) : x # j => g[L][x] = f[L][x]
    BY <2>13, <2>15 DEF Marked, Tree, Level
  <2>17. Divided(w[b])
    BY <2>8, <2>11, <2>15, <2>16 DEF Divided
  <2>18. PICK a : a = [ptr |-> r.ptr, size |-> size]
    OBVIOUS
  <2>19. InBlock(a, b, j, s) /\ a.size = size /\ a.ptr = r.ptr
    BY <2>6, <2>14, <2>18 DEF InBlock, Large, Address
  <2>20. First(a) = b /\ Last(a) = b /\ ~Large(a) /\ a.ptr \in Nat
    BY <2>3, <2>19, InBlockIs
  <2>21. Owned(w, a)
    <3>1. Full(s) \in w[b].flags[L][j]
      BY <2>8, <2>15, <2>16
    <3>2. Last(a) < Blocks
      BY <2>3, <2>20, BlocksAssumption DEF Blk
    <3> QED
      BY <2>3, <2>17, <2>19, <2>20, <3>1, <3>2 DEF Owned, OwnsChunk
  <2>22. ASSUME NEW c \in U
         PROVE  Owned(w, c) /\ Apart(a, c) /\ Apart(c, a) /\ a # c
    <3>1. Owned(t, c)
      BY DEF Heap
    <3>2. First(c) \in Nat /\ Last(c) \in Nat /\ First(c) <= Last(c) /\ Last(c) \in Blk
      BY <3>1, Extent
    <3>3. CASE b \in First(c)..Last(c)
      <4>1. ~Large(c)
        BY <2>10, <3>1, <3>3, InUse
      <4>2. PICK k \in Index(L), z \in Sides : InBlock(c, b, k, z) /\ Full(z) \in t[b].flags[L][k]
        BY <3>1, <3>3, <4>1, InUse
      <4>3. Full(z) \in g[L][k] /\ ~(j = k /\ s = z)
        BY <2>9, <2>13, <2>16, <4>2
      <4>4. c.size \in Sizes /\ a.size \in Sizes
        BY <2>19, <3>1 DEF Owned
      <4>5. Apart(a, c) /\ Apart(c, a)
        BY <2>3, <2>19, <4>2, <4>3, <4>4, ChunksApart
      <4>6. a # c
        <5>1. Room(c.size) \in Nat \ {0} /\ c.ptr \in Nat
          BY <3>1, Extent
        <5> QED
          BY <4>5, <5>1 DEF Apart
      <4>7. Owned(w, c)
        <5>1. Full(z) \in w[b].flags[L][k]
          BY <2>8, <2>15, <4>3
        <5>2. OwnsChunk(w, c)
          BY <2>3, <2>17, <4>2, <5>1 DEF OwnsChunk
        <5> QED
          BY <3>1, <4>1, <5>2 DEF Owned
      <4> QED
        BY <4>5, <4>6, <4>7
    <3>4. CASE b \notin First(c)..Last(c)
      <4>1. \A x \in First(c)..Last(c) : x \in Blk /\ w[x] = t[x]
        <5>1. \A x \in First(c)..Last(c) : x \in Blk
          BY <3>2, BlocksAssumption DEF Blk
        <5> QED
          BY <2>8, <3>4, <5>1
      <4>2. Owned(w, c)
        BY <3>1, <4>1, StaysOwned
      <4>3. Last(c) < b \/ b < First(c)
        BY <1>2, <2>3, <3>2, <3>4
      <4>4. Apart(a, c) /\ Apart(c, a)
        BY <2>20, <2>21, <4>2, <4>3, BlocksApart
      <4>5. a # c
        BY <1>2, <2>3, <2>20, <3>2, <4>3
      <4> QED
        BY <4>2, <4>4, <4>5
    <3> QED
      BY <3>3, <3>4
  <2>23. ASSUME NEW x \in Blk
         PROVE  Known(w[x]) /\ Accounted(w, U \union {a}, x)
    <3>1. Accounted(t, U, x) /\ Known(t[x])
      BY DEF Heap
    <3>2. CASE x # b
      BY <2>8, <3>1, <3>2 DEF Accounted
    <3>3. CASE x = b
      <4>1. ~Whole(w[b]) /\ Known(w[b])
        BY <2>17, Kinds DEF Known
      <4>2. ASSUME NEW k \in Index(L), NEW z \in Sides, Full(z) \in w[b].flags[L][k]
            PROVE  \E c \in U \union {a} : InBlock(c, b, k, z)
        <5>1. CASE k = j /\ z = s
          BY <2>19, <5>1
        <5>2. CASE ~(k = j /\ z = s)
          <6>1. Full(z) \in f[L][k]
            <7>1. z # s => Full(z) # Full(s)
              BY FlagsDiffer DEF Sides
            <7> QED
              BY <2>8, <2>15, <2>16, <4>2, <5>2, <7>1
          <6>2. Divided(t[b])
            <7>1. t[b] # Zero
              <8>1. L \in Level
                BY LevelType DEF Level
              <8> QED
                BY <2>9, <6>1, <8>1, ClearFlags, Kinds
            <7> QED
              BY <2>10, <7>1 DEF Known
          <6> QED
            BY <2>9, <3>1, <3>3, <6>1, <6>2 DEF Accounted
        <5> QED
          BY <5>1, <5>2
      <4> QED
        BY <3>3, <4>1, <4>2 DEF Accounted
    <3> QED
      BY <3>2, <3>3
  <2>24. Heap(w, U \union {a})
    <3>1. \A c \in U \union {a} : Owned(w, c)
      BY <2>21, <2>22
    <3>2. \A c, d \in U \union {a} : c # d => Apart(c, d)
      BY <2>22 DEF Heap
    <3> QED
      BY <2>8, <2>23, <3>1, <3>2 DEF Heap
  <2>25. r.ptr # Null
    BY <2>19, <2>20 DEF Null
  <2> QED
    BY <2>6, <2>18, <2>22, <2>24, <2>25 DEF Gives, r
<1> QED
  BY <1>4, <1>5

LEMMA AllocGives ==
    ASSUME OneLevel, NEW t, NEW U, Heap(t, U), NEW size \in Sizes
    PROVE  Gives(t, U, size, Alloc(t, size))
<1>1. CASE size > BlockSize * Blocks
  BY <1>1 DEF Alloc, Gives
<1>2. CASE ~(size > BlockSize * Blocks) /\ size > BlockSize \div 2
  <2>1. Alloc(t, size) = AllocBlocks(t, BlocksFor(size))
    BY <1>2 DEF Alloc
  <2> QED
    BY <1>2, <2>1, AllocBlocksGives
<1>3. CASE ~(size > BlockSize * Blocks) /\ ~(size > BlockSize \div 2)
  <2>1. Alloc(t, size) = AllocFromBlock(t, size)
    BY <1>3 DEF Alloc
  <2> QED
    BY <1>3, <2>1, AllocFromBlockGives
<1> QED
  BY <1>1, <1>2, <1>3

-----------------------------------------------------------------------------
(* Freeing.                                                                *)

(* What mm_free promises of an allocation in use.                          *)
Takes(t, U, a, f) == f.size = Room(a.size) /\ Heap(f.pdt, U \ {a})

(* The end of the run, which mm_free looks for.                            *)
LEMMA LastFound ==
    ASSUME OneLevel, NEW t, NEW a, Owned(t, a)
    PROVE  Min({b \in First(a)..(Blocks - 1) : "CONT" \notin t[b].bf}) = Last(a)
<1> DEFINE S == {b \in First(a)..(Blocks - 1) : "CONT" \notin t[b].bf}
<1>1. /\ First(a) \in Nat /\ Last(a) \in Nat /\ First(a) <= Last(a) /\ Last(a) < Blocks
      /\ Blocks \in Nat /\ First(a) \in Blk
  BY Extent, BlocksAssumption DEF Owned
<1>2. Last(a) \in S /\ \A b \in S : Last(a) <= b
  <2>1. CASE Large(a)
    <3>1. \A b \in First(a)..Last(a) : "CONT" \in t[b].bf <=> b < Last(a)
      BY <2>1 DEF Owned, OwnsRun
    <3> QED
      BY <1>1, <3>1
  <2>2. CASE ~Large(a)
    <3>1. Divided(t[First(a)]) /\ Last(a) = First(a)
      <4>1. First(a) \in First(a)..Last(a)
        BY <1>1
      <4> QED
        BY <2>2, <4>1, InUse DEF Last
    <3>2. "CONT" \notin t[Last(a)].bf
      BY <3>1 DEF Divided
    <3> QED
      BY <1>1, <3>1, <3>2
  <2> QED
    BY <2>1, <2>2
<1>3. S \subseteq Nat
  BY <1>1
<1> HIDE DEF S
<1>4. Min(S) = Last(a)
  BY <1>2, <1>3, MinIs
<1> QED
  BY <1>4 DEF S

LEMMA FreeRunTakes ==
    ASSUME OneLevel, NEW t, NEW U, Heap(t, U), NEW a \in U, Large(a)
    PROVE  Takes(t, U, a, Freed(t, a.ptr))
<1> DEFINE f == Freed(t, a.ptr)
<1>1. Owned(t, a) /\ DOMAIN t = Blk
  BY DEF Heap
<1>2. PICK p, q : p = First(a) /\ q = Last(a)
  OBVIOUS
<1>3. p \in Nat /\ q \in Blk /\ q \in Nat /\ p <= q /\ p = a.ptr \div BlockSize
  BY <1>1, <1>2, Extent DEF First
<1>4. Min({b \in p..(Blocks - 1) : "CONT" \notin t[b].bf}) = q
  BY <1>1, <1>2, LastFound
<1>5. "DIV" \notin t[q].bf
  <2>1. q \in First(a)..Last(a)
    BY <1>2, <1>3
  <2>2. Whole(t[q])
    BY <1>1, <2>1, InUse
  <2> QED
    BY <2>2 DEF Whole
<1>6. /\ f.size = (q - p) * BlockSize + BlockSize
      /\ f.pdt = [b \in Blk |-> IF b \in p..q THEN Zero ELSE t[b]]
  BY <1>1, <1>3, <1>4, <1>5 DEF Freed
<1>7. PICK v : v = f.pdt
  OBVIOUS
<1>8. /\ DOMAIN v = Blk
      /\ \A b \in Blk : b \in p..q => v[b] = Zero
      /\ \A b \in Blk : b \notin p..q => v[b] = t[b]
  BY <1>6, <1>7
<1>9. f.size = Room(a.size)
  <2>1. a.ptr = p * 4096 /\ a.ptr + Room(a.size) = (q + 1) * 4096 /\ Room(a.size) \in Nat
    BY <1>1, <1>2, Extent DEF BlockSize
  <2>2. (q - p) * 4096 + 4096 = (q + 1) * 4096 - p * 4096
    BY <1>3
  <2> QED
    BY <1>3, <1>6, <2>1, <2>2 DEF BlockSize
<1> HIDE DEF f
<1>10. ASSUME NEW c \in U \ {a}
       PROVE  Owned(v, c) /\ \A b \in First(c)..Last(c) : b \in Blk /\ b \notin p..q
  <2>1. Owned(t, c) /\ Apart(a, c)
    BY DEF Heap
  <2>2. q < First(c) \/ Last(c) < p
    BY <1>1, <1>2, <2>1, RunsApart
  <2>3. First(c) \in Blk /\ Last(c) \in Blk /\ First(c) \in Nat /\ Last(c) \in Nat
    BY <2>1, Extent
  <2>4. \A b \in First(c)..Last(c) : b \in Blk /\ b \notin p..q
    <3>1. PICK x, y : x = First(c) /\ y = Last(c)
      OBVIOUS
    <3>2. x \in Nat /\ y \in Nat /\ y <= Blocks - 1 /\ Blocks \in Nat /\ (q < x \/ y < p)
      BY <2>2, <2>3, <3>1, BlocksAssumption DEF Blk
    <3>3. \A b \in x..y : b \in 0..(Blocks - 1) /\ b \notin p..q
      BY <1>3, <3>2
    <3> QED
      BY <3>1, <3>3 DEF Blk
  <2>5. \A b \in First(c)..Last(c) : v[b] = t[b]
    BY <1>8, <2>4
  <2> QED
    BY <2>1, <2>4, <2>5, StaysOwned
<1>11. ASSUME NEW b \in Blk
       PROVE  Known(v[b]) /\ Accounted(v, U \ {a}, b)
  <2>1. CASE b \in p..q
    BY <1>8, <2>1, Kinds DEF Known, Accounted
  <2>2. CASE b \notin p..q
    <3>1. v[b] = t[b] /\ Known(t[b]) /\ Accounted(t, U, b)
      BY <1>8, <2>2 DEF Heap
    <3>2. Whole(t[b]) => \E c \in U \ {a} : Large(c) /\ b \in First(c)..Last(c)
      BY <1>2, <2>2, <3>1 DEF Accounted
    <3>3. Divided(t[b]) => \A j \in Index(L), s \in Sides :
            Full(s) \in t[b].flags[L][j] => \E c \in U \ {a} : InBlock(c, b, j, s)
      BY <3>1 DEF Accounted, InBlock
    <3> QED
      BY <3>1, <3>2, <3>3 DEF Accounted
  <2> QED
    BY <2>1, <2>2
<1>12. Heap(v, U \ {a})
  <2>1. \A c, d \in U \ {a} : c # d => Apart(c, d)
    BY DEF Heap
  <2> QED
    BY <1>8, <1>10, <1>11, <2>1 DEF Heap
<1> QED
  BY <1>7, <1>9, <1>12 DEF Takes, f

LEMMA FreeChunkTakes ==
    ASSUME OneLevel, NEW t, NEW U, Heap(t, U), NEW a \in U, ~Large(a)
    PROVE  Takes(t, U, a, Freed(t, a.ptr))
<1> DEFINE f == Freed(t, a.ptr)
<1>1. Owned(t, a) /\ DOMAIN t = Blk /\ a.size \in Sizes
  BY DEF Heap, Owned
<1>2. PICK b \in Blk, j \in Index(L), s \in Sides :
        InBlock(a, b, j, s) /\ Divided(t[b]) /\ Full(s) \in t[b].flags[L][j]
  BY <1>1 DEF Owned, OwnsChunk
<1>3. /\ First(a) = b /\ Last(a) = b /\ b = a.ptr \div BlockSize /\ b \in Nat
      /\ a.ptr % BlockSize = Place(j, s)
  BY <1>2, InBlockIs, BlocksAssumption DEF First, Blk
<1>4. Min({x \in b..(Blocks - 1) : "CONT" \notin t[x].bf}) = b
  BY <1>1, <1>3, LastFound
<1>5. PICK e : e = t[b].flags
  OBVIOUS
<1>6. PICK r : r = FreeChunk(e, Place(j, s))
  OBVIOUS
<1>7. PICK g : g = r.flags
  OBVIOUS
<1>8. Tree(e) /\ t[b].bf = {"DIV"} /\ "DIV" \in t[b].bf
  BY <1>2, <1>5 DEF Divided
<1>9. /\ f.size = (b - b) * BlockSize + ChunkSize(r.level)
      /\ f.pdt = [x \in Blk |-> IF x \notin b..b THEN t[x]
                                ELSE IF x = b /\ "DIV" \in t[x].bf
                                THEN [bf |-> IF g[1][0] = {} THEN t[x].bf \ {"DIV"} ELSE t[x].bf,
                                      flags |-> g]
                                ELSE Zero]
  BY <1>1, <1>3, <1>4, <1>5, <1>6, <1>7, <1>8 DEF Freed
<1>10. PICK v : v = f.pdt
  OBVIOUS
<1>11. /\ DOMAIN v = Blk
       /\ \A x \in Blk : x # b => v[x] = t[x]
       /\ v[b] = [bf |-> IF g[1][0] = {} THEN {} ELSE {"DIV"}, flags |-> g]
  <2>1. \A x \in Blk : x \in b..b <=> x = b
    BY <1>3, BlocksAssumption DEF Blk
  <2>2. {"DIV"} \ {"DIV"} = {}
    OBVIOUS
  <2> QED
    BY <1>8, <1>9, <1>10, <2>1, <2>2
<1>12. r.level = L /\ Cleared(e, 1, j, s, g)
  BY <1>2, <1>5, <1>6, <1>7, <1>8, FreeSound DEF FreedIn
<1>13. f.size = Room(a.size)
  <2>1. Room(a.size) = ChunkSize(L)
    BY <1>1, SizesAssumption, SizesOf DEF Room, Large
  <2>2. ChunkSize(L) \in Nat
    BY <1>2, PlaceType
  <2> QED
    BY <1>3, <1>9, <1>12, <2>1, <2>2 DEF BlockSize
<1> HIDE DEF f
<1>14. /\ Tree(g) /\ g[L][j] = e[L][j] \ {Full(s)}
       /\ \A x \in Index(L) : x # j => g[L][x] = e[L][x]
  BY <1>12 DEF Cleared, Tree, Level
<1>15. /\ v[b].flags = g /\ Known(v[b]) /\ ~Whole(v[b])
       /\ Divided(v[b]) <=> g[1][0] # {}
  <2>1. CASE g[1][0] = {}
    <3>1. g = Clear
      BY <1>14, <2>1, EmptyTree
    <3>2. v[b] = Zero
      BY <1>11, <2>1, <3>1 DEF Zero
    <3> QED
      BY <2>1, <3>1, <3>2, Kinds DEF Known
  <2>2. CASE g[1][0] # {}
    <3>1. v[b] = [bf |-> {"DIV"}, flags |-> g]
      BY <1>11, <2>2
    <3>2. v[b].bf = {"DIV"} /\ v[b].flags = g
      BY <3>1
    <3>3. Divided(v[b])
      BY <1>14, <2>2, <3>2 DEF Divided
    <3> QED
      BY <2>2, <3>2, <3>3, Kinds DEF Known
  <2> QED
    BY <2>1, <2>2
<1>16. \A k \in Index(L), z \in Sides :
         Full(z) \in g[L][k] <=> Full(z) \in e[L][k] /\ ~(j = k /\ s = z)
  <2>1. \A z \in Sides : z # s => Full(z) # Full(s)
    BY FlagsDiffer DEF Sides
  <2> QED
    BY <1>14, <2>1
<1>17. ASSUME NEW k \in Index(L), NEW z \in Sides, Full(z) \in g[L][k]
       PROVE  g[1][0] # {}
  <2>1. L \in Level
    BY LevelType DEF Level
  <2> QED
    BY <1>14, <1>17, <2>1, EmptyTree, ClearFlags
<1>18. ASSUME NEW c \in U \ {a}
       PROVE  Owned(v, c)
  <2>1. Owned(t, c) /\ Apart(a, c) /\ c.size \in Sizes
    BY DEF Heap, Owned
  <2>2. CASE b \in First(c)..Last(c)
    <3>1. ~Large(c)
      BY <1>2, <2>1, <2>2, InUse, Kinds
    <3>2. PICK k \in Index(L), z \in Sides : InBlock(c, b, k, z) /\ Full(z) \in t[b].flags[L][k]
      BY <2>1, <2>2, <3>1, InUse
    <3>3. ~(j = k /\ s = z)
      BY <1>1, <1>2, <2>1, <3>2, ChunksApart
    <3>4. Full(z) \in g[L][k]
      BY <1>5, <1>16, <3>2, <3>3
    <3>5. Divided(v[b]) /\ Full(z) \in v[b].flags[L][k]
      BY <1>15, <1>17, <3>4
    <3>6. OwnsChunk(v, c)
      BY <3>2, <3>5 DEF OwnsChunk
    <3> QED
      BY <2>1, <3>1, <3>6 DEF Owned
  <2>3. CASE b \notin First(c)..Last(c)
    <3>1. First(c) \in Nat /\ Last(c) \in Blk
      BY <2>1, Extent
    <3>2. \A x \in First(c)..Last(c) : x \in Blk
      BY <3>1, BlocksAssumption DEF Blk
    <3>3. \A x \in First(c)..Last(c) : v[x] = t[x]
      BY <1>11, <2>3, <3>2
    <3> QED
      BY <2>1, <3>3, StaysOwned
  <2> QED
    BY <2>2, <2>3
<1>19. ASSUME NEW x \in Blk
       PROVE  Known(v[x]) /\ Accounted(v, U \ {a}, x)
  <2>1. Accounted(t, U, x) /\ Known(t[x])
    BY DEF Heap
  <2>2. CASE x # b
    <3>1. v[x] = t[x]
      BY <1>11, <2>2
    <3>2. Whole(t[x]) => \E c \in U \ {a} : Large(c) /\ x \in First(c)..Last(c)
      BY <2>1 DEF Accounted
    <3>3. \A k \in Index(L), z \in Sides : ~InBlock(a, x, k, z)
      BY <1>3, <2>2, InBlockIs
    <3>4. Divided(t[x]) => \A k \in Index(L), z \in Sides :
            Full(z) \in t[x].flags[L][k] => \E c \in U \ {a} : InBlock(c, x, k, z)
      BY <2>1, <3>3 DEF Accounted
    <3> QED
      BY <2>1, <3>1, <3>2, <3>4 DEF Accounted
  <2>3. CASE x = b
    <3>1. ASSUME NEW k \in Index(L), NEW z \in Sides, Full(z) \in g[L][k]
          PROVE  \E c \in U \ {a} : InBlock(c, b, k, z)
      <4>1. Full(z) \in e[L][k] /\ ~(j = k /\ s = z)
        BY <1>16, <3>1
      <4>2. PICK c \in U : InBlock(c, b, k, z)
        BY <1>2, <1>5, <2>1, <2>3, <4>1 DEF Accounted
      <4>3. c.size \in Sizes
        BY DEF Heap, Owned
      <4>4. Apart(a, c)
        BY <1>1, <1>2, <4>1, <4>2, <4>3, ChunksApart
      <4>5. a.ptr \in Nat /\ Room(a.size) \in Nat \ {0}
        BY <1>1, Extent
      <4>6. ~Apart(a, a)
        BY <4>5 DEF Apart
      <4> QED
        BY <4>2, <4>4, <4>6
    <3> QED
      BY <1>15, <2>3, <3>1 DEF Accounted
  <2> QED
    BY <2>1, <2>2, <2>3, <1>11, <1>15
<1>20. Heap(v, U \ {a})
  <2>1. \A c, d \in U \ {a} : c # d => Apart(c, d)
    BY DEF Heap
  <2> QED
    BY <1>11, <1>18, <1>19, <2>1 DEF Heap
<1> QED
  BY <1>10, <1>13, <1>20 DEF Takes, f

LEMMA FreeTakes ==
    ASSUME OneLevel, NEW t, NEW U, Heap(t, U), NEW a \in U
    PROVE  Takes(t, U, a, Freed(t, a.ptr))
  BY FreeRunTakes, FreeChunkTakes

-----------------------------------------------------------------------------
(* The bag of allocations: none is in it twice.                            *)

LEMMA BagOfSet ==
    ASSUME NEW U
    PROVE  /\ BagToSet(SetToBag(U)) = U
           /\ \A x \in U : SetToBag(U)[x] = 1
  BY DEF BagToSet, SetToBag

LEMMA AddNone ==
    ASSUME NEW U
    PROVE  SetToBag(U) (+) EmptyBag = SetToBag(U)
<1>1. /\ DOMAIN SetToBag(U) = U /\ DOMAIN EmptyBag = {}
      /\ \A x \in U : SetToBag(U)[x] = 1
  BY DEF SetToBag, EmptyBag
<1>2. SetToBag(U) (+) EmptyBag = [e \in U |-> 1]
  BY <1>1 DEF (+)
<1> QED
  BY <1>2 DEF SetToBag

LEMMA AddOne ==
    ASSUME NEW U, NEW x, x \notin U
    PROVE  SetToBag(U) (+) SetToBag({x}) = SetToBag(U \union {x})
<1>1. /\ DOMAIN SetToBag(U) = U /\ DOMAIN SetToBag({x}) = {x}
      /\ \A e \in U : SetToBag(U)[e] = 1
      /\ SetToBag({x})[x] = 1
  BY DEF SetToBag
<1>2. SetToBag(U) (+) SetToBag({x}) = [e \in U \union {x} |-> 1]
  BY <1>1 DEF (+)
<1> QED
  BY <1>2 DEF SetToBag

LEMMA TakeOne ==
    ASSUME NEW U, NEW x \in U
    PROVE  SetToBag(U) (-) SetToBag({x}) = SetToBag(U \ {x})
<1> DEFINE B == [e \in U |-> IF e \in {x} THEN SetToBag(U)[e] - SetToBag({x})[e]
                             ELSE SetToBag(U)[e]]
<1>1. /\ DOMAIN SetToBag(U) = U /\ DOMAIN SetToBag({x}) = {x}
      /\ \A e \in U : SetToBag(U)[e] = 1
      /\ SetToBag({x})[x] = 1
  BY DEF SetToBag
<1>2. SetToBag(U) (-) SetToBag({x}) = [e \in {d \in U : B[d] > 0} |-> B[e]]
  BY <1>1 DEF (-)
<1>3. B[x] = 0 /\ \A e \in U : e # x => B[e] = 1
  BY <1>1
<1> HIDE DEF B
<1>4. {d \in U : B[d] > 0} = U \ {x}
  BY <1>3
<1>5. [e \in {d \in U : B[d] > 0} |-> B[e]] = [e \in U \ {x} |-> 1]
  BY <1>3, <1>4
<1> QED
  BY <1>2, <1>5 DEF SetToBag

Holds(t, B) == Heap(t, BagToSet(B)) /\ B = SetToBag(BagToSet(B))

LEMMA AllocKeeps ==
    ASSUME OneLevel, NEW t, NEW B, Holds(t, B), NEW size \in Sizes, NEW r, r = Alloc(t, size)
    PROVE  /\ Holds(r.pdt, B (+) Use(r, size))
           /\ BagToSet(B) \subseteq BagToSet(B (+) Use(r, size))
<1>1. PICK U : U = BagToSet(B)
  OBVIOUS
<1>2. Heap(t, U) /\ B = SetToBag(U)
  BY <1>1 DEF Holds
<1>3. Gives(t, U, size, r)
  BY <1>2, AllocGives
<1>4. CASE r.ptr = Null
  <2>1. r.pdt = t /\ B (+) Use(r, size) = B
    BY <1>2, <1>3, <1>4, AddNone DEF Use, Gives
  <2> QED
    BY <2>1
<1>5. CASE r.ptr # Null
  <2>1. PICK x : x = [ptr |-> r.ptr, size |-> size]
    OBVIOUS
  <2>2. x \notin U /\ Heap(r.pdt, U \union {x})
    BY <1>3, <1>5, <2>1 DEF Gives
  <2>3. B (+) Use(r, size) = SetToBag(U \union {x})
    BY <1>2, <1>5, <2>1, <2>2, AddOne DEF Use
  <2> QED
    BY <1>1, <2>2, <2>3, BagOfSet DEF Holds
<1> QED
  BY <1>4, <1>5

LEMMA FreeKeeps ==
    ASSUME OneLevel, NEW t, NEW B, Holds(t, B), NEW a \in BagToSet(B), NEW f, f = Freed(t, a.ptr)
    PROVE  /\ f.size = Room(a.size)
           /\ Holds(f.pdt, B (-) SetToBag({a}))
           /\ BagToSet(B (-) SetToBag({a})) = BagToSet(B) \ {a}
<1>1. PICK U : U = BagToSet(B)
  OBVIOUS
<1>2. Heap(t, U) /\ B = SetToBag(U) /\ a \in U
  BY <1>1 DEF Holds
<1>3. f.size = Room(a.size) /\ Heap(f.pdt, U \ {a})
  BY <1>2, FreeTakes DEF Takes
<1>4. B (-) SetToBag({a}) = SetToBag(U \ {a})
  BY <1>2, TakeOne
<1> QED
  BY <1>1, <1>3, <1>4, BagOfSet DEF Holds

-----------------------------------------------------------------------------
(* The invariant: the flags tell the allocations in use, and no others.    *)

Inv == Holds(pdt, live)

LEMMA InitHolds == Init => Inv
<1> SUFFICES ASSUME Init
             PROVE  Inv
  OBVIOUS
<1>1. live = SetToBag({}) /\ BagToSet(live) = {}
  BY DEF Init, EmptyBag, BagToSet, SetToBag
<1>2. DOMAIN pdt = Blk /\ \A b \in Blk : pdt[b] = Zero
  BY DEF Init, Blk
<1>3. \A b \in Blk : Known(pdt[b]) /\ Accounted(pdt, {}, b)
  BY <1>2, Kinds DEF Known, Accounted
<1>4. Heap(pdt, {})
  BY <1>2, <1>3 DEF Heap
<1> QED
  BY <1>1, <1>4 DEF Inv, Holds

LEMMA StepHolds ==
    ASSUME OneLevel
    PROVE  Inv /\ [Next]_vars => Inv'
<1> SUFFICES ASSUME Inv, [Next]_vars
             PROVE  Inv'
  OBVIOUS
<1>1. ASSUME NEW size \in Sizes, MmAlloc(size)
      PROVE  Inv'
  BY <1>1, AllocKeeps DEF MmAlloc, Inv
<1>2. ASSUME NEW a \in BagToSet(live), MmFree(a)
      PROVE  Inv'
  BY <1>2, FreeKeeps DEF MmFree, Inv
<1>3. ASSUME NEW a \in BagToSet(live), NEW size \in Sizes, MmRealloc(a, size)
      PROVE  Inv'
  <2>1. PICK f : f = Freed(pdt, a.ptr)
    OBVIOUS
  <2>2. PICK r : r = Alloc(f.pdt, size)
    OBVIOUS
  <2>3. Holds(f.pdt, live (-) SetToBag({a}))
    BY <2>1, FreeKeeps DEF Inv
  <2>4. pdt' = r.pdt /\ live' = (live (-) SetToBag({a})) (+) Use(r, size)
    BY <1>3, <2>1, <2>2 DEF MmRealloc
  <2> QED
    BY <2>2, <2>3, <2>4, AllocKeeps DEF Inv
<1>4. CASE MmFreeForeign
  BY <1>4 DEF MmFreeForeign, Inv
<1>5. CASE UNCHANGED vars
  BY <1>5 DEF vars, Inv
<1> QED
  BY <1>1, <1>2, <1>3, <1>4, <1>5 DEF Next

(* Whatever is allocated, freed and reallocated, the flags of the blocks   *)
(* stand for the allocations in use.                                       *)
THEOREM Invariance ==
    ASSUME OneLevel
    PROVE  Spec => []Inv
<1>1. Inv /\ [Next]_vars => Inv'
  BY StepHolds
<1> QED
  BY <1>1, InitHolds, PTL DEF Spec

-----------------------------------------------------------------------------
(* What the runs check.                                                    *)

LEMMA FlagsTyped ==
    ASSUME NEW d, Known(d)
    PROVE  /\ d.bf \subseteq {"CONT", "DIV"}
           /\ IsFlags(d.flags)
           /\ \A l \in Level : \A i \in Index(l) : d.flags[l][i] \subseteq Half(0) \union Half(1)
<1>0. BothFull \subseteq Half(0) \union Half(1)
  BY DEF BothFull, Half
<1>1. CASE d = Zero
  BY <1>1, Kinds, ClearFlags
<1>2. CASE Whole(d)
  BY <1>0, <1>2, WholeShape DEF Whole
<1>3. CASE Divided(d)
  <2>1. Tree(d.flags) /\ d.bf = {"DIV"}
    BY <1>3 DEF Divided
  <2>2. ASSUME NEW l \in Level, NEW i \in Index(l)
        PROVE  d.flags[l][i] \subseteq Half(0) \union Half(1)
    <3>1. Node(d.flags, l, i)
      BY <2>1 DEF Tree
    <3>2. l > L \/ l = L \/ l < L
      BY LevelType DEF Level
    <3> QED
      BY <1>0, <3>1, <3>2 DEF Node
  <2> QED
    BY <2>1, <2>2 DEF Tree
<1> QED
  BY <1>1, <1>2, <1>3 DEF Known

LEMMA Aligned ==
    ASSUME OneLevel, NEW t, NEW a, Owned(t, a)
    PROVE  /\ a.size \in Sizes
           /\ a.ptr \in 0..(Blocks * BlockSize - Room(a.size))
           /\ a.ptr % (IF a.size > BlockSize \div 2 THEN BlockSize ELSE Room(a.size)) = 0
<1>1. PICK p, q, room : p = First(a) /\ q = Last(a) /\ room = Room(a.size)
  OBVIOUS
<1>2. /\ p \in Nat /\ q \in Nat /\ a.ptr \in Nat /\ room \in Nat /\ q < Blocks /\ Blocks \in Nat
      /\ a.ptr + room <= (q + 1) * 4096 /\ a.size \in Sizes /\ a.size \in Nat
  BY <1>1, Extent, BlocksAssumption DEF Owned, BlockSize
<1>3. a.ptr \in 0..(Blocks * 4096 - room)
  BY <1>2
<1>4. CASE Large(a)
  <2>1. a.ptr = p * 4096
    BY <1>1, <1>4, Extent DEF BlockSize
  <2>2. (p * 4096) % 4096 = 0
    BY <1>2
  <2> QED
    BY <1>1, <1>2, <1>3, <1>4, <2>1, <2>2 DEF BlockSize, Large
<1>5. CASE ~Large(a)
  <2>1. PICK b \in Blk, j \in Index(L), s \in Sides : InBlock(a, b, j, s)
    BY <1>5 DEF Owned, OwnsChunk
  <2>2. room = ChunkSize(L)
    BY <1>1, <1>2, <1>5, SizesOf DEF Room, Large
  <2>3. PICK m \in Nat : m = 2 * j + s
    BY PlaceType
  <2>4. a.ptr = b * 4096 + m * room /\ b \in Nat
    BY <2>1, <2>2, <2>3, BlocksAssumption DEF InBlock, Place, BlockSize, Blk
  <2>5. room \in {256, 512, 1024, 2048}
    BY <2>2, LevelType, Dimensions
  <2>6. a.ptr % room = 0
    BY <2>3, <2>4, <2>5
  <2> QED
    BY <1>1, <1>2, <1>3, <1>5, <2>6 DEF BlockSize, Large
<1> QED
  BY <1>4, <1>5

(* A tree in which no chunk is taken is empty.                             *)
LEMMA NothingTaken ==
    ASSUME NEW f, Tree(f), \A j \in Index(L), s \in Sides : Full(s) \notin f[L][j]
    PROVE  f[1][0] = {}
<1> DEFINE P(k) == \A x \in Index(k) : f[k][x] = {}
<1>1. L \in 1..4 /\ L \in Level
  BY LevelType DEF Level
<1>2. P(L)
  <2> SUFFICES ASSUME NEW x \in Index(L)
               PROVE  f[L][x] = {}
    OBVIOUS
  <2>1. f[L][x] \subseteq BothFull /\ Full(0) \notin f[L][x] /\ Full(1) \notin f[L][x]
    BY <1>1 DEF Tree, Node, Sides
  <2> QED
    BY <2>1 DEF BothFull
<1>3. ASSUME NEW k \in 1..3, k < L, P(k + 1)
      PROVE  P(k)
  <2> SUFFICES ASSUME NEW x \in Index(k)
               PROVE  f[k][x] = {}
    OBVIOUS
  <2>1. k \in Level /\ k < 4
    BY DEF Level
  <2>2. Node(f, k, x) /\ \A s \in Sides : f[k + 1][2 * x + s] = {}
    BY <1>3, <2>1, Children DEF Tree
  <2>3. f[k][x] \subseteq Half(0) \union Half(1)
        /\ \A s \in Sides : Div(s) \notin f[k][x] /\ Full(s) \notin f[k][x]
    BY <1>3, <2>2 DEF Node, BothFull
  <2> QED
    BY <2>3 DEF Half, Sides
<1> HIDE DEF P
<1>4. L >= 4 => P(4)
  BY <1>1, <1>2
<1>5. L >= 3 => P(3)
  BY <1>1, <1>2, <1>3, <1>4
<1>6. L >= 2 => P(2)
  BY <1>1, <1>2, <1>3, <1>5
<1>7. P(1)
  BY <1>1, <1>2, <1>3, <1>6
<1> QED
  BY <1>7, Dimensions DEF P

LEMMA InvTyped == OneLevel /\ Inv => TypeOK
<1> SUFFICES ASSUME OneLevel, Inv
             PROVE  TypeOK
  OBVIOUS
<1>1. Heap(pdt, BagToSet(live))
  BY DEF Inv, Holds
<1>2. ASSUME NEW b \in 0..(Blocks - 1)
      PROVE  /\ pdt[b].bf \subseteq {"CONT", "DIV"}
             /\ \A l \in Level : pdt[b].flags[l] \in
                   [Index(l) -> SUBSET (Half(0) \union Half(1))]
  <2>1. PICK d : d = pdt[b]
    OBVIOUS
  <2>2. Known(d)
    BY <1>1, <2>1 DEF Heap, Blk
  <2>3. /\ d.bf \subseteq {"CONT", "DIV"}
        /\ IsFlags(d.flags)
        /\ \A l \in Level : \A i \in Index(l) : d.flags[l][i] \subseteq Half(0) \union Half(1)
    BY <2>2, FlagsTyped
  <2>4. ASSUME NEW l \in Level
        PROVE  d.flags[l] \in [Index(l) -> SUBSET (Half(0) \union Half(1))]
    <3>1. PICK g : g = d.flags
      OBVIOUS
    <3>2. g = [k \in Level |-> [i \in Index(k) |-> g[k][i]]]
      BY <2>3, <3>1 DEF IsFlags
    <3>3. g[l] = [i \in Index(l) |-> g[l][i]]
      BY <3>2
    <3> QED
      BY <2>3, <3>1, <3>3
  <2> QED
    BY <2>1, <2>3, <2>4
<1>3. \A a \in BagToSet(live) : Owned(pdt, a)
  BY <1>1 DEF Heap
<1> QED
  BY <1>2, <1>3, Aligned DEF TypeOK

(* Descriptors have their form and allocations lie inside the blocks,      *)
(* aligned to what they were rounded to.                                   *)
THEOREM TypeCorrect ==
    ASSUME OneLevel
    PROVE  Spec => []TypeOK
<1>1. Inv => TypeOK
  BY InvTyped
<1> QED
  BY <1>1, Invariance, PTL

LEMMA InvApart == Inv => NoOverlap
  BY BagOfSet DEF Inv, Holds, Heap, NoOverlap

(* No two allocations in use share a byte.                                 *)
THEOREM NothingOverlaps ==
    ASSUME OneLevel
    PROVE  Spec => []NoOverlap
  BY InvApart, Invariance, PTL

LEMMA InvLeaksNothing == Inv => NothingLeaks
<1> SUFFICES ASSUME Inv, live = EmptyBag, NEW b \in DOMAIN pdt
             PROVE  pdt[b] = Zero
  BY DEF NothingLeaks
<1>1. BagToSet(live) = {}
  BY DEF EmptyBag, BagToSet, SetToBag
<1>2. Heap(pdt, {})
  BY <1>1 DEF Inv, Holds
<1>3. b \in Blk /\ Known(pdt[b]) /\ Accounted(pdt, {}, b)
  BY <1>2 DEF Heap
<1>4. ~Whole(pdt[b])
  BY <1>3 DEF Accounted
<1>5. ~Divided(pdt[b])
  <2>1. SUFFICES ASSUME Divided(pdt[b])
                 PROVE  FALSE
    OBVIOUS
  <2>2. \A j \in Index(L), s \in Sides : Full(s) \notin pdt[b].flags[L][j]
    BY <1>3, <2>1 DEF Accounted
  <2> QED
    BY <2>1, <2>2, NothingTaken DEF Divided
<1> QED
  BY <1>3, <1>4, <1>5 DEF Known

(* When everything has been freed, all of the heap is free.                *)
THEOREM NothingIsLost ==
    ASSUME OneLevel
    PROVE  Spec => []NothingLeaks
  BY InvLeaksNothing, Invariance, PTL

LEMMA InvChunks == OneLevel /\ Inv => ChunkIsFull
<1> SUFFICES ASSUME OneLevel, Inv, NEW a \in BagToSet(live), a.size <= BlockSize \div 2
             PROVE  LET l == LevelFor(a.size)
                        chunk == (a.ptr % BlockSize) \div ChunkSize(l)
                    IN pdt[a.ptr \div BlockSize].flags[l][chunk \div 2] \intersect Half(chunk % 2)
                         = {Full(chunk % 2)}
  BY DEF ChunkIsFull
<1>1. Owned(pdt, a) /\ a.size \in Sizes /\ a.size \in Nat
  BY SizesAssumption DEF Inv, Holds, Heap, Owned
<1>2. ~Large(a) /\ ~(a.size > BlockSize \div 2)
  BY <1>1 DEF Large, BlockSize
<1>3. LevelFor(a.size) = L /\ L \in Level /\ L \in 1..L
  BY <1>1, <1>2, SizesOf, LevelType DEF Level
<1>4. PICK b \in Blk, j \in Index(L), s \in Sides :
        InBlock(a, b, j, s) /\ Divided(pdt[b]) /\ Full(s) \in pdt[b].flags[L][j]
  BY <1>1, <1>2 DEF Owned, OwnsChunk
<1>5. a.ptr \div BlockSize = b /\ a.ptr % BlockSize = Place(j, s)
  BY <1>4, InBlockIs DEF First
<1>6. Place(j, s) \div ChunkSize(L) = 2 * j + s
  BY <1>3, ChunkOf
<1>7. (2 * j + s) \div 2 = j /\ (2 * j + s) % 2 = s
  BY PlaceType
<1>8. pdt[b].flags[L][j] \subseteq BothFull
  BY <1>3, <1>4 DEF Divided, Tree, Node
<1>9. pdt[b].flags[L][j] \intersect Half(s) = {Full(s)}
  BY <1>4, <1>8, FlagsDiffer DEF Half, BothFull, Sides
<1> QED
  BY <1>3, <1>5, <1>6, <1>7, <1>9

(* The chunk an allocation has is marked full at its level.                *)
THEOREM ChunksAreFull ==
    ASSUME OneLevel
    PROVE  Spec => []ChunkIsFull
<1>1. Inv => ChunkIsFull
  BY InvChunks
<1> QED
  BY <1>1, Invariance, PTL

LEMMA FreeTells ==
    ASSUME OneLevel, Inv, [Next]_vars, NEW a \in BagToSet(live),
           live' = live (-) SetToBag({a})
    PROVE  ret' = Room(a.size)
<1>0. BagToSet(live') = BagToSet(live) \ {a}
  BY FreeKeeps DEF Inv
<1>1. ASSUME NEW size \in Sizes, MmAlloc(size)
      PROVE  FALSE
  <2>1. BagToSet(live) \subseteq BagToSet(live')
    BY <1>1, AllocKeeps DEF MmAlloc, Inv
  <2> QED
    BY <1>0, <2>1
<1>2. ASSUME NEW c \in BagToSet(live), MmFree(c)
      PROVE  ret' = Room(a.size)
  <2>1. ret' = Room(c.size) /\ BagToSet(live') = BagToSet(live) \ {c}
    BY <1>2, FreeKeeps DEF MmFree, Inv
  <2>2. a = c
    BY <1>0, <2>1
  <2> QED
    BY <2>1, <2>2
<1>3. ASSUME NEW c \in BagToSet(live), NEW size \in Sizes, MmRealloc(c, size)
      PROVE  ret' = Room(a.size)
  <2>1. PICK f : f = Freed(pdt, c.ptr)
    OBVIOUS
  <2>2. PICK r : r = Alloc(f.pdt, size)
    OBVIOUS
  <2>3. /\ f.size = Room(c.size)
        /\ Holds(f.pdt, live (-) SetToBag({c}))
        /\ BagToSet(live (-) SetToBag({c})) = BagToSet(live) \ {c}
    BY <2>1, FreeKeeps DEF Inv
  <2>4. ret' = f.size /\ live' = (live (-) SetToBag({c})) (+) Use(r, size)
    BY <1>3, <2>1, <2>2 DEF MmRealloc
  <2>5. BagToSet(live) \ {c} \subseteq BagToSet(live')
    BY <2>2, <2>3, <2>4, AllocKeeps
  <2>6. a = c
    BY <1>0, <2>5
  <2> QED
    BY <2>3, <2>4, <2>6
<1>4. CASE MmFreeForeign \/ UNCHANGED vars
  BY <1>0, <1>4 DEF MmFreeForeign, vars
<1> QED
  BY <1>1, <1>2, <1>3, <1>4 DEF Next

(* What mm_free returns is what the allocation it was given can hold.      *)
THEOREM FreeIsHonest ==
    ASSUME OneLevel
    PROVE  Spec => FreeTellsSize
<1>1. Inv /\ [Next]_vars =>
        [\A a \in BagToSet(live) :
           live' = live (-) SetToBag({a}) => ret' = Room(a.size)]_vars
  BY FreeTells
<1> QED
  BY <1>1, Invariance, PTL DEF Spec, FreeTellsSize
=============================================================================
