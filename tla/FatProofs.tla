----------------------------- MODULE FatProofs -----------------------------
(***************************************************************************)
(* The FAT file system, for all volumes that mkfs makes and all requests.  *)
(***************************************************************************)
EXTENDS Fat, FiniteSetTheorems, TLAPS

-----------------------------------------------------------------------------
(* Numbers: a set has a smallest, what holds of 0 and goes on to the next  *)
(* holds of all, and a recursion has a function that satisfies it.         *)

LEMMA MinIn ==
    ASSUME NEW S, S \subseteq Nat, S # {}
    PROVE  Min(S) \in S /\ \A x \in S : Min(S) <= x
<1> DEFINE T == {0..m : m \in S}
<1>1. T \subseteq FiniteSubsetsOf(Nat)
  <2> SUFFICES ASSUME NEW m \in S
               PROVE  0..m \in FiniteSubsetsOf(Nat)
    OBVIOUS
  <2>1. m \in Nat
    OBVIOUS
  <2>2. IsFiniteSet(0..m)
    BY <2>1, FS_Interval
  <2>3. 0..m \subseteq Nat
    BY <2>1
  <2> QED
    BY <2>2, <2>3 DEF FiniteSubsetsOf
<1>2. T # {}
  OBVIOUS
<1> HIDE DEF T
<1>3. PICK I \in T : \A J \in T : ~(<<J, I>> \in StrictSubsetOrdering(Nat))
  BY <1>1, <1>2, FS_StrictSubsetOrderingWellFounded, WFMin
<1>4. PICK m \in S : I = 0..m
  BY DEF T
<1>5. m \in Nat
  OBVIOUS
<1>6. ASSUME NEW x \in S, x < m
      PROVE  FALSE
  <2>1. x \in Nat /\ 0..x \in T
    BY DEF T
  <2>2. 0..x \subseteq 0..m /\ m \in 0..m /\ m \notin 0..x /\ 0..x \subseteq Nat /\ 0..m \subseteq Nat
    BY <1>5, <1>6, <2>1
  <2>3. <<0..x, 0..m>> \in StrictSubsetOrdering(Nat)
    BY <2>2 DEF StrictSubsetOrdering
  <2> QED
    BY <1>3, <1>4, <2>1, <2>3
<1>7. \A x \in S : m <= x
  BY <1>5, <1>6
<1>8. Min(S) \in S /\ \A x \in S : Min(S) <= x
  BY <1>7 DEF Min
<1> QED
  BY <1>8

LEMMA Induct ==
    ASSUME NEW P, 0 \in P, \A i \in Nat : i \in P => i + 1 \in P
    PROVE  Nat \subseteq P
<1> DEFINE S == Nat \ P
<1>1. SUFFICES ASSUME S # {}
               PROVE  FALSE
  OBVIOUS
<1>2. PICK m : m = Min(S)
  OBVIOUS
<1>3. m \in S /\ \A x \in S : m <= x
  BY <1>1, <1>2, MinIn
<1>4. m \in Nat /\ m # 0 /\ m - 1 \in Nat /\ m - 1 \notin S
  BY <1>3
<1>5. m - 1 \in P /\ (m - 1) + 1 = m
  BY <1>4
<1> QED
  BY <1>3, <1>4, <1>5

IsRow(F, S, base, step) ==
    F \in [Nat -> S] /\ F[0] = base /\ \A i \in Nat : F[i + 1] = step[i][F[i]]

LEMMA Recursion ==
    ASSUME NEW S, NEW base \in S, NEW step \in [Nat -> [S -> S]]
    PROVE  \E F : IsRow(F, S, base, step)
<1> DEFINE Upto(n, f) == /\ f \in [0..n -> S] /\ f[0] = base
                         /\ \A i \in 0..(n - 1) : f[i + 1] = step[i][f[i]]
           P == {n \in Nat : \E f : Upto(n, f)}
<1>1. 0 \in P
  <2>1. Upto(0, [i \in 0..0 |-> base])
    OBVIOUS
  <2> QED
    BY <2>1
<1>2. ASSUME NEW n \in Nat, n \in P
      PROVE  n + 1 \in P
  <2>1. PICK f : Upto(n, f)
    BY <1>2
  <2>2. PICK e \in S : e = step[n][f[n]]
    BY <2>1
  <2>3. PICK g : g = [i \in 0..(n + 1) |-> IF i = n + 1 THEN e ELSE f[i]]
    OBVIOUS
  <2>4. g \in [0..(n + 1) -> S] /\ g[n + 1] = e /\ \A i \in 0..n : g[i] = f[i]
    BY <2>1, <2>3
  <2>5. g[0] = base
    BY <2>1, <2>4
  <2>6. \A i \in 0..n : g[i + 1] = step[i][g[i]]
    <3> SUFFICES ASSUME NEW i \in 0..n
                 PROVE  g[i + 1] = step[i][g[i]]
      OBVIOUS
    <3>1. CASE i = n
      BY <2>2, <2>4, <3>1
    <3>2. CASE i < n
      <4>1. i \in 0..(n - 1) /\ i + 1 \in 0..n
        BY <3>2
      <4> QED
        BY <2>1, <2>4, <4>1
    <3> QED
      BY <3>1, <3>2
  <2>7. Upto(n + 1, g)
    BY <2>4, <2>5, <2>6
  <2> QED
    BY <2>7
<1> HIDE DEF P
<1>3. Nat \subseteq P
  BY <1>1, <1>2, Induct
<1>4. PICK h : h = [n \in Nat |-> CHOOSE f : Upto(n, f)]
  OBVIOUS
<1>5. \A n \in Nat : Upto(n, h[n])
  <2> SUFFICES ASSUME NEW n \in Nat
               PROVE  Upto(n, h[n])
    OBVIOUS
  <2>1. \E f : Upto(n, f)
    BY <1>3 DEF P
  <2>2. h[n] = CHOOSE f : Upto(n, f)
    BY <1>4
  <2> QED
    BY <2>1, <2>2
<1>6. ASSUME NEW n \in Nat
      PROVE  \A i \in 0..n : h[n + 1][i] = h[n][i]
  <2> DEFINE Q == {i \in Nat : i \in 0..n => h[n + 1][i] = h[n][i]}
  <2>1. Upto(n, h[n]) /\ Upto(n + 1, h[n + 1])
    BY <1>5
  <2>2. 0 \in Q
    BY <2>1
  <2>3. ASSUME NEW i \in Nat, i \in Q
        PROVE  i + 1 \in Q
    <3>1. SUFFICES ASSUME i + 1 \in 0..n
                   PROVE  h[n + 1][i + 1] = h[n][i + 1]
      OBVIOUS
    <3>2. i \in 0..n /\ i \in 0..(n - 1)
      BY <3>1
    <3>3. h[n + 1][i] = h[n][i]
      BY <2>3, <3>2
    <3>4. h[n][i + 1] = step[i][h[n][i]]
      BY <2>1, <3>2
    <3>5. h[n + 1][i + 1] = step[i][h[n + 1][i]]
      BY <2>1, <3>2
    <3> QED
      BY <3>3, <3>4, <3>5
  <2> HIDE DEF Q
  <2>4. Nat \subseteq Q
    BY <2>2, <2>3, Induct
  <2> QED
    BY <2>4 DEF Q
<1>7. PICK F : F = [n \in Nat |-> h[n][n]]
  OBVIOUS
<1>8. F \in [Nat -> S] /\ F[0] = base
  BY <1>5, <1>7
<1>9. ASSUME NEW i \in Nat
      PROVE  F[i + 1] = step[i][F[i]]
  <2>1. h[i + 1][i + 1] = step[i][h[i + 1][i]]
    BY <1>5
  <2>2. h[i + 1][i] = h[i][i]
    BY <1>6
  <2> QED
    BY <1>7, <2>1, <2>2
<1>10. IsRow(F, S, base, step)
  BY <1>8, <1>9 DEF IsRow
<1> QED
  BY <1>10

(* Two functions that go on in the same way are the same.                  *)
LEMMA SameSteps ==
    ASSUME NEW n \in Nat, NEW f, NEW g, f[0] = g[0],
           \A i \in 0..(n - 1) : f[i] = g[i] => f[i + 1] = g[i + 1]
    PROVE  \A i \in 0..n : f[i] = g[i]
<1> DEFINE P == {i \in Nat : i \in 0..n => f[i] = g[i]}
<1>1. 0 \in P
  OBVIOUS
<1>2. ASSUME NEW i \in Nat, i \in P
      PROVE  i + 1 \in P
  BY <1>2
<1> HIDE DEF P
<1>3. Nat \subseteq P
  BY <1>1, <1>2, Induct
<1> QED
  BY <1>3 DEF P

(* A step that stays in S, taken again and again: the rows of Iterate.     *)
IsOrbit(f, S, base, step, n) ==
    f \in [0..n -> S] /\ f = [i \in 0..n |-> IF i = 0 THEN base ELSE step[f[i - 1]]]

LEMMA Iterates ==
    ASSUME NEW S, NEW base \in S, NEW step \in [S -> S], NEW n \in Nat
    PROVE  \E f : IsOrbit(f, S, base, step, n)
<1> DEFINE steps == [i \in Nat |-> step]
<1>1. steps \in [Nat -> [S -> S]] /\ \A i \in Nat : steps[i] = step
  OBVIOUS
<1> HIDE DEF steps
<1>2. \E F : IsRow(F, S, base, steps)
  BY <1>1, Recursion
<1>3. PICK F : IsRow(F, S, base, steps)
  BY <1>2
<1>4. F \in [Nat -> S] /\ F[0] = base /\ \A i \in Nat : F[i + 1] = step[F[i]]
  BY <1>1, <1>3 DEF IsRow
<1>5. PICK f : f = [i \in 0..n |-> F[i]]
  OBVIOUS
<1>6. f \in [0..n -> S]
  BY <1>4, <1>5
<1>7. ASSUME NEW i \in 0..n
      PROVE  f[i] = IF i = 0 THEN base ELSE step[f[i - 1]]
  <2>1. CASE i = 0
    BY <1>4, <1>5, <2>1
  <2>2. CASE i # 0
    <3>1. i - 1 \in Nat /\ i - 1 \in 0..n /\ (i - 1) + 1 = i
      BY <2>2
    <3>2. F[i] = step[F[i - 1]]
      BY <1>4, <3>1
    <3> QED
      BY <1>5, <2>2, <3>1, <3>2
  <2> QED
    BY <2>1, <2>2
<1>8. IsOrbit(f, S, base, step, n)
  BY <1>5, <1>6, <1>7 DEF IsOrbit
<1> QED
  BY <1>8

-----------------------------------------------------------------------------
(* The volume in the drive.                                                *)

Per == SectorSize \div EntrySize
Sectors == 0..(vol.total - 1)

LEMMA Sizes ==
    /\ SectorSize \in Nat /\ SectorSize >= 4 /\ EntrySize \in Nat \ {0} /\ Per \in 1..255
    /\ Word \in Nat \ {0} /\ Word >= 4 /\ Fat12Below \in Nat \ {0} /\ Fat16Below \in Nat \ {0}
    /\ MaxFaults \in Nat
BY SizesAssumption DEF Per

LEMMA Product ==
    ASSUME NEW a \in Nat \ {0}, NEW b \in Nat \ {0}
    PROVE  a * b \in Nat /\ a * b >= 1
<1>1. a * b \in Nat
  OBVIOUS
<1>2. a * b # 0
  OBVIOUS
<1> QED
  BY <1>1, <1>2

(* The numbers of a geometry, in the form the proofs use them.             *)
LEMMA Numbered ==
    ASSUME NEW v \in Volumes, NEW g, g = GeometryOf(v)
    PROVE  /\ g.type \in {12, 16, 32} /\ g.sectors_per_cluster = 1 /\ g.cluster_size = SectorSize
           /\ g.reserved = v.reserved /\ g.reserved \in Nat /\ g.reserved >= 1
           /\ g.fat_size = v.fat_size /\ g.fat_size \in Nat /\ g.fat_size >= 1
           /\ g.data_area_begin = v.reserved + v.fat_count * v.fat_size
           /\ g.data_area_begin \in Nat /\ g.data_area_begin >= 2
           /\ g.root_sector_count \in Nat /\ g.root_cluster = v.root_cluster
           /\ v.first_data = g.data_area_begin + g.root_sector_count
           /\ v.first_data \in Nat /\ v.total \in Nat /\ v.first_data < v.total /\ v.total <= Word
           /\ v.sectors_per_cluster = 1
           /\ v.root_entry_count = 0 => g.root_sector_count = 0
           /\ g \notin {NotMounted, Trapped}
<1>1. Numbers(v)
  BY VolumesAssumption
<1>2. PICK root : root = (v.root_entry_count * EntrySize + SectorSize - 1) \div SectorSize
  OBVIOUS
<1>3. v.root_entry_count * EntrySize \in Nat /\ (v.root_entry_count = 0 => v.root_entry_count * EntrySize = 0)
  BY <1>1, Sizes DEF Numbers
<1>4. root \in Nat /\ (v.root_entry_count = 0 => root = 0)
  <2>1. PICK n \in Nat : n = v.root_entry_count * EntrySize
    BY <1>3
  <2>2. root = (n + SectorSize - 1) \div SectorSize
    BY <1>2, <2>1
  <2>3. root \in Nat
    BY <2>1, <2>2, Sizes
  <2>4. ASSUME n = 0
        PROVE  root = 0
    BY <2>2, <2>4, Sizes
  <2> QED
    BY <1>3, <2>1, <2>3, <2>4
<1>5. PICK begin : begin = v.reserved + v.fat_count * v.fat_size
  OBVIOUS
<1>6. begin \in Nat /\ begin >= 2 /\ v.reserved \in Nat /\ v.reserved >= 1
  <2>1. v.reserved \in Nat \ {0} /\ v.fat_count \in Nat \ {0} /\ v.fat_size \in Nat \ {0}
    BY <1>1 DEF Numbers
  <2>2. v.fat_count * v.fat_size \in Nat /\ v.fat_count * v.fat_size >= 1
    BY <2>1, Product
  <2>3. PICK p : p = v.fat_count * v.fat_size
    OBVIOUS
  <2>4. begin = v.reserved + p /\ p \in Nat /\ p >= 1
    BY <1>5, <2>2, <2>3
  <2> QED
    BY <2>1, <2>4
<1>7. PICK clusters : clusters = (v.total - (begin + root)) \div v.sectors_per_cluster
  OBVIOUS
<1>8. g = [type |-> CASE clusters < Fat12Below -> 12
                      [] clusters \in Fat12Below..(Fat16Below - 1) -> 16
                      [] OTHER -> 32,
           reserved |-> v.reserved, fat_size |-> v.fat_size,
           sectors_per_cluster |-> v.sectors_per_cluster,
           cluster_size |-> SectorSize * v.sectors_per_cluster,
           data_area_begin |-> begin, root_sector_count |-> root,
           root_cluster |-> v.root_cluster]
  BY <1>2, <1>5, <1>7 DEF GeometryOf
<1>9. g.type = CASE clusters < Fat12Below -> 12
                 [] clusters \in Fat12Below..(Fat16Below - 1) -> 16
                 [] OTHER -> 32
  BY <1>8
<1>10. g.type \in {12, 16, 32}
  BY <1>9
<1>11. /\ g.reserved = v.reserved /\ g.fat_size = v.fat_size
       /\ g.sectors_per_cluster = v.sectors_per_cluster /\ g.cluster_size = SectorSize * v.sectors_per_cluster
       /\ g.data_area_begin = begin /\ g.root_sector_count = root /\ g.root_cluster = v.root_cluster
  BY <1>8
<1>12. v.sectors_per_cluster = 1 /\ v.fat_size \in Nat /\ v.fat_size >= 1 /\ v.total \in 1..Word
       /\ v.first_data = g.data_area_begin + g.root_sector_count /\ v.first_data < v.total
  BY <1>1 DEF Numbers
<1>13. g.cluster_size = SectorSize
  BY <1>11, <1>12, Sizes
<1>14. g \notin {NotMounted, Trapped}
  <2>1. NotMounted.type = 0 /\ Trapped.type = None /\ None = -1
    BY DEF NotMounted, Trapped, None
  <2> QED
    BY <1>10, <2>1
<1>15. /\ g.type \in {12, 16, 32} /\ g.sectors_per_cluster = 1 /\ g.cluster_size = SectorSize
       /\ g.reserved = v.reserved /\ g.reserved \in Nat /\ g.reserved >= 1
       /\ g.fat_size = v.fat_size /\ g.fat_size \in Nat /\ g.fat_size >= 1
       /\ g.data_area_begin = v.reserved + v.fat_count * v.fat_size
       /\ g.data_area_begin \in Nat /\ g.data_area_begin >= 2
  BY <1>5, <1>6, <1>10, <1>11, <1>12, <1>13
<1>16. /\ g.root_sector_count \in Nat /\ g.root_cluster = v.root_cluster
       /\ v.first_data = g.data_area_begin + g.root_sector_count
       /\ v.first_data \in Nat /\ v.total \in Nat /\ v.first_data < v.total /\ v.total <= Word
       /\ v.root_entry_count = 0 => g.root_sector_count = 0
  BY <1>4, <1>6, <1>11, <1>12, Sizes
<1> QED
  BY <1>12, <1>14, <1>15, <1>16

(* What fat_mount computed, while a volume is mounted.                     *)
InDrive == vol \in Volumes /\ fs = Geometry

LEMMA Driven ==
    ASSUME InDrive
    PROVE  /\ fs.type \in {12, 16, 32} /\ fs.sectors_per_cluster = 1 /\ fs.cluster_size = SectorSize
           /\ fs.reserved \in Nat /\ fs.reserved >= 1 /\ fs.fat_size \in Nat /\ fs.fat_size >= 1
           /\ fs.data_area_begin \in Nat /\ fs.data_area_begin >= 2
           /\ fs.root_sector_count \in Nat /\ fs.root_cluster = vol.root_cluster
           /\ vol.first_data = fs.data_area_begin + fs.root_sector_count
           /\ vol.first_data \in Nat /\ vol.total \in Nat /\ vol.first_data < vol.total /\ vol.total <= Word
           /\ vol.sectors_per_cluster = 1
           /\ vol.root_entry_count = 0 => fs.root_sector_count = 0
<1>1. vol \in Volumes /\ fs = GeometryOf(vol)
  BY DEF InDrive, Geometry
<1> QED
  BY ONLY <1>1, Numbered

LEMMA Chains ==
    ASSUME vol \in Volumes, NEW c \in DOMAIN vol.chains
    PROVE  /\ vol.chains[c] \in Seq(Nat) /\ Len(vol.chains[c]) > 0 /\ vol.chains[c][1] = c
           /\ DOMAIN vol.chains[c] = 1..Len(vol.chains[c])
           /\ \A i \in 1..Len(vol.chains[c]) :
                 /\ vol.chains[c][i] \in 2..MaxCluster(Geometry.type)
                 /\ SectorAt(vol, vol.chains[c][i]) < vol.total
                 /\ HasEntry(vol, Geometry.type, vol.chains[c][i])
<1>1. Chained(vol)
  BY VolumesAssumption
<1>2. vol.chains[c] \in Seq(Nat) /\ Len(vol.chains[c]) > 0 /\ vol.chains[c][1] = c
  BY <1>1 DEF Chained
<1>3. DOMAIN vol.chains[c] = 1..Len(vol.chains[c])
  BY <1>2
<1>4. ASSUME NEW i \in 1..Len(vol.chains[c])
      PROVE  vol.chains[c][i] \in ToSet(vol.chains[c])
  BY <1>3 DEF ToSet
<1> QED
  BY <1>1, <1>2, <1>3, <1>4 DEF Chained, Geometry

Places == DOMAIN vol.chains \union {vol.root_head, 0}

LEMMA Limits ==
    ASSUME NEW t \in {12, 16, 32}
    PROVE  /\ MaxCluster(t) \in Nat /\ EndCluster(t) \in Nat
           /\ t = 12 => MaxCluster(t) = 4084 /\ EndCluster(t) = 4095
           /\ t = 16 => MaxCluster(t) = 65524 /\ EndCluster(t) = 65535
           /\ t = 32 => MaxCluster(t) = 268435446 /\ EndCluster(t) = 268435455
BY DEF MaxCluster, EndCluster

(* The directories begin where DirSector has it.                           *)
LEMMA Located ==
    ASSUME InDrive, NEW head \in Places
    PROVE  /\ head \in Nat /\ DirSector(head) \in Sectors
           /\ IsRootSector(head) => fs.data_area_begin = DirSector(head) /\ fs.root_sector_count > 0
           /\ ~IsRootSector(head) => ClusterToSector(head) = DirSector(head)
<1>1. vol \in Volumes /\ fs = Geometry /\ fs = GeometryOf(vol)
  BY DEF InDrive, Geometry
<1>2. RootAt(vol)
  BY <1>1, VolumesAssumption
<1>3. ASSUME NEW c \in DOMAIN vol.chains
      PROVE  /\ c \in Nat /\ c >= 2 /\ SectorAt(vol, c) < vol.total
             /\ SectorAt(vol, c) = vol.first_data + (c - 2)
  <2>1. vol.chains[c][1] = c /\ 1 \in 1..Len(vol.chains[c])
    BY <1>1, Chains
  <2>2. c \in 2..MaxCluster(Geometry.type) /\ SectorAt(vol, c) < vol.total
    BY <1>1, <2>1, Chains
  <2>3. c \in Nat /\ c >= 2
    BY <1>1, <2>2, Driven, Limits
  <2> QED
    BY <2>2, <2>3, Driven DEF SectorAt
<1>4. SectorAt(vol, 0) = vol.first_data - 2
  BY Driven DEF SectorAt
<1>5. CASE fs.type = 32
  <2>1. /\ vol.root_head \in DOMAIN vol.chains /\ vol.root_sector = SectorAt(vol, vol.root_head)
        /\ vol.root_entry_count = 0
    BY <1>1, <1>2, <1>5 DEF RootAt
  <2>2. fs.root_sector_count = 0 /\ fs.data_area_begin = vol.first_data
    BY <2>1, Driven
  <2>3. ~IsRootSector(head)
    BY <1>5 DEF IsRootSector
  <2>4. head \in Nat /\ DirSector(head) = vol.first_data + (head - 2)
        /\ DirSector(head) \in 0..(vol.total - 1)
    <3>1. CASE head \in DOMAIN vol.chains
      <4>1. DirSector(head) = SectorAt(vol, head)
        BY <2>1 DEF DirSector
      <4>2. head \in Nat /\ head >= 2 /\ SectorAt(vol, head) < vol.total
            /\ SectorAt(vol, head) = vol.first_data + (head - 2)
        BY <1>3, <3>1
      <4> QED
        BY <4>1, <4>2, Driven
    <3>2. CASE head = 0
      <4>1. vol.root_head # 0
        BY <1>3, <2>1
      <4> QED
        BY <1>4, <3>2, <4>1, Driven DEF DirSector
    <3> QED
      BY <2>1, <3>1, <3>2 DEF Places
  <2>5. ClusterToSector(head) = ((head - 2) * 1 + fs.data_area_begin + 0) % Word
    BY <1>5, Driven DEF ClusterToSector
  <2>6. ClusterToSector(head) = vol.first_data + (head - 2)
    <3>1. (head - 2) * 1 + fs.data_area_begin + 0 = vol.first_data + (head - 2)
      BY <2>2, <2>4, Driven
    <3>2. vol.first_data + (head - 2) \in 0..(Word - 1)
      BY <2>4, Driven, Sizes
    <3> QED
      BY <2>5, <3>1, <3>2, Sizes
  <2> QED
    BY <2>3, <2>4, <2>6 DEF Sectors
<1>6. CASE fs.type # 32
  <2>1. vol.root_head = 0 /\ vol.root_sector = fs.data_area_begin /\ vol.first_data > vol.root_sector
    BY <1>1, <1>2, <1>6 DEF RootAt
  <2>2. CASE head = 0
    <3>1. IsRootSector(head)
      BY <1>6, <2>2 DEF IsRootSector
    <3>2. DirSector(head) = fs.data_area_begin
      BY <2>1, <2>2 DEF DirSector
    <3> QED
      BY <2>1, <2>2, <3>1, <3>2, Driven DEF Sectors
  <2>3. CASE head # 0
    <3>1. ~IsRootSector(head) /\ head \in DOMAIN vol.chains
      BY <2>1, <2>3 DEF IsRootSector, Places
    <3>2. DirSector(head) = SectorAt(vol, head)
      BY <2>1, <2>3 DEF DirSector
    <3>3. head \in Nat /\ head >= 2 /\ SectorAt(vol, head) < vol.total
          /\ SectorAt(vol, head) = vol.first_data + (head - 2)
      BY <1>3, <3>1
    <3>4. ClusterToSector(head) = ((head - 2) * 1 + fs.data_area_begin + fs.root_sector_count) % Word
      BY <1>6, Driven DEF ClusterToSector
    <3>5. (head - 2) * 1 + fs.data_area_begin + fs.root_sector_count = SectorAt(vol, head)
      BY <3>3, Driven
    <3>6. SectorAt(vol, head) \in 0..(vol.total - 1) /\ SectorAt(vol, head) \in 0..(Word - 1)
      BY <3>3, Driven, Sizes
    <3>7. ClusterToSector(head) = SectorAt(vol, head)
      BY <3>4, <3>5, <3>6, Sizes
    <3> QED
      BY <3>1, <3>2, <3>3, <3>6, <3>7 DEF Sectors
  <2> QED
    BY <2>2, <2>3
<1> QED
  BY <1>5, <1>6

-----------------------------------------------------------------------------
(* The caches and the cluster chains, in their ranges.                     *)

LEMMA Filled ==
    ASSUME vol.total \in Nat, NEW buf \in Buffer, NEW lba \in Nat, NEW bad
    PROVE  Fill(buf, lba, bad) \in Buffer /\ Fill(buf, lba, bad).lba = lba
BY DEF Fill, Buffer, None

LEMMA EntryIsNumber ==
    ASSUME InDrive, NEW k
    PROVE  FatEntry(k) \in Nat
<1> DEFINE of == {c \in DOMAIN vol.chains : k \in ToSet(vol.chains[c])}
<1>1. CASE of = {}
  BY <1>1 DEF FatEntry
<1>2. CASE of # {}
  <2> DEFINE c == CHOOSE d \in of : TRUE
             chain == vol.chains[c]
             i == CHOOSE j \in DOMAIN chain : chain[j] = k
  <2>7. FatEntry(k) = IF i = Len(chain) THEN EndCluster(fs.type) ELSE chain[i + 1]
    BY <1>2 DEF FatEntry
  <2>2. c \in of
    BY <1>2
  <2> HIDE DEF c
  <2>4. chain \in Seq(Nat) /\ DOMAIN chain = 1..Len(chain)
    BY <2>2, Chains DEF InDrive
  <2>5. k \in ToSet(chain)
    BY <2>2
  <2> HIDE DEF chain
  <2>6. i \in DOMAIN chain
    BY <2>5 DEF ToSet
  <2>8. EndCluster(fs.type) \in Nat
    BY Driven, Limits
  <2> QED
    BY <2>4, <2>6, <2>7, <2>8
<1> QED
  BY <1>1, <1>2

LEMMA BytesAreNumbers ==
    ASSUME InDrive, NEW lba \in Int, NEW i \in Nat
    PROVE  ByteAt(lba, i) \in Nat
<1>1. CASE ~InFat(lba)
  BY <1>1 DEF ByteAt
<1>2. CASE InFat(lba)
  <2>1. PICK n : n = FatItem(lba, SectorSize, i)
    OBVIOUS
  <2>2. n \in Nat
    <3>1. PICK r : r = (lba - fs.reserved) % fs.fat_size
      OBVIOUS
    <3>2. r \in Nat
      BY <3>1, Driven
    <3>3. n = r * SectorSize + i
      BY <2>1, <3>1 DEF FatItem
    <3>4. r * SectorSize \in Nat
      BY <3>2, Sizes
    <3> QED
      BY <3>3, <3>4
  <2>3. PICK lo \in Nat : lo = FatEntry(2 * (n \div 3))
    BY EntryIsNumber
  <2>4. PICK hi \in Nat : hi = FatEntry(2 * (n \div 3) + 1)
    BY EntryIsNumber
  <2>5. ByteAt(lba, i) = CASE n % 3 = 0 -> lo % 256
                           [] n % 3 = 1 -> lo \div 256 + 16 * (hi % 16)
                           [] n % 3 = 2 -> hi \div 16
    BY <1>2, <2>1, <2>3, <2>4 DEF ByteAt, Fat12Byte
  <2>6. n % 3 \in 0..2
    BY <2>2
  <2>7. lo % 256 \in Nat /\ lo \div 256 + 16 * (hi % 16) \in Nat /\ hi \div 16 \in Nat
    OBVIOUS
  <2> QED
    BY <2>5, <2>6, <2>7
<1> QED
  BY <1>1, <1>2

LEMMA WordsAreNumbers ==
    ASSUME InDrive, NEW lba, NEW per, NEW i
    PROVE  WordAt(lba, per, i) \in Nat
BY EntryIsNumber DEF WordAt

(* What get_next_cluster's loop goes on with.                              *)
Ways == [fb : Buffer, cluster : Nat, end : BOOLEAN]

LEMMA HopsInRange ==
    ASSUME InDrive, NEW s \in Ways, NEW bad
    PROVE  Hop(s, bad) \in Ways
<1> USE DEF Ways
<1>1. CASE s.end \/ s.cluster > MaxCluster(fs.type)
  BY <1>1 DEF Hop
<1>2. CASE ~(s.end \/ s.cluster > MaxCluster(fs.type))
  <2> DEFINE n == IF fs.type = 12 THEN Hop12(s.fb, s.cluster, bad) ELSE HopWide(s.fb, s.cluster, bad)
             limit == MaxCluster(IF fs.type = 12 THEN 16 ELSE fs.type)
  <2>1. n.fb \in Buffer /\ n.cluster \in Nat
    <3>1. CASE fs.type = 12
      <4> DEFINE c == s.cluster
                 byte_idx == c + c \div 2
                 sector_idx == byte_idx \div SectorSize
                 offs == byte_idx % SectorSize
                 first == ReadFat(s.fb, sector_idx, bad)
                 second == IF offs = SectorSize - 1 THEN ReadFat(first, sector_idx + 1, bad) ELSE first
                 b0 == ByteAt(first.holds, offs)
                 b1 == ByteAt(second.holds, (offs + 1) % SectorSize)
      <4>1. c \in Nat /\ byte_idx \in Nat
        OBVIOUS
      <4> HIDE DEF byte_idx
      <4>2. sector_idx \in Nat /\ offs \in Nat /\ (offs + 1) % SectorSize \in Nat
        BY <4>1, Sizes
      <4> HIDE DEF sector_idx, offs
      <4>3. fs.reserved + sector_idx \in Nat /\ fs.reserved + (sector_idx + 1) \in Nat
        BY <4>2, Driven
      <4>4. first \in Buffer
        BY <4>3, Filled, Driven DEF ReadFat
      <4> HIDE DEF first
      <4>5. second \in Buffer
        BY <4>3, <4>4, Filled, Driven DEF ReadFat
      <4> HIDE DEF second
      <4>6. first.holds \in Int /\ second.holds \in Int
        BY <4>4, <4>5, Driven DEF Buffer, None
      <4>7. b0 \in Nat /\ b1 \in Nat
        BY <4>2, <4>6, BytesAreNumbers
      <4> HIDE DEF b0, b1
      <4>8. n = [fb |-> second, cluster |-> IF c % 2 = 1 THEN b0 \div 16 + 16 * b1 ELSE b0 + 256 * (b1 % 16)]
        BY <3>1 DEF Hop12, byte_idx, sector_idx, offs, first, second, b0, b1
      <4>9. b0 \div 16 + 16 * b1 \in Nat /\ b0 + 256 * (b1 % 16) \in Nat
        BY <4>7
      <4> HIDE DEF n
      <4> QED
        BY <4>5, <4>8, <4>9
    <3>2. CASE fs.type # 12
      <4> DEFINE per == SectorSize \div (fs.type \div 8)
                 b == ReadFat(s.fb, s.cluster \div per, bad)
      <4>1. per \in Nat \ {0}
        <5>1. CASE fs.type = 16
          BY <5>1, Sizes
        <5>2. CASE fs.type = 32
          BY <5>2, Sizes
        <5> QED
          BY <3>2, <5>1, <5>2, Driven
      <4> HIDE DEF per
      <4>2. s.cluster \div per \in Nat
        BY <4>1
      <4>3. b \in Buffer
        BY <4>2, Filled, Driven DEF ReadFat
      <4>4. WordAt(b.holds, per, s.cluster % per) \in Nat
        BY WordsAreNumbers
      <4>5. n = [fb |-> b, cluster |-> WordAt(b.holds, per, s.cluster % per)]
        BY <3>2 DEF HopWide, per
      <4> QED
        BY <4>3, <4>4, <4>5
    <3> QED
      BY <3>1, <3>2
  <2> HIDE DEF n, limit
  <2>2. Hop(s, bad) = [fb |-> n.fb, cluster |-> n.cluster, end |-> n.cluster > limit]
    BY <1>2 DEF Hop, n, limit
  <2> QED
    BY <2>1, <2>2
<1> QED
  BY <1>1, <1>2

(* The rows of the loop.                                                   *)
IsWay(f, fb, cluster, num, bad) ==
    /\ f \in [0..num -> Ways]
    /\ f[0] = [fb |-> fb, cluster |-> cluster, end |-> FALSE]
    /\ \A i \in 0..(num - 1) : f[i + 1] = Hop(f[i], bad)
    /\ GetNextCluster(fb, cluster, num, bad) = f[num]

LEMMA ChainFollowed ==
    ASSUME InDrive, NEW fb \in Buffer, NEW cluster \in Nat, NEW num \in Nat, NEW bad
    PROVE  \E f : IsWay(f, fb, cluster, num, bad)
<1> DEFINE start == [fb |-> fb, cluster |-> cluster, end |-> FALSE]
           step == [s \in Ways |-> Hop(s, bad)]
           Row(f) == f = [i \in 0..num |-> IF i = 0 THEN start ELSE Hop(f[i - 1], bad)]
<1>1. start \in Ways
  BY DEF Ways
<1>2. step \in [Ways -> Ways]
  BY HopsInRange
<1>3. \A s \in Ways : step[s] = Hop(s, bad)
  OBVIOUS
<1> HIDE DEF start, step
<1>15. PICK g : IsOrbit(g, Ways, start, step, num)
  BY <1>1, <1>2, Iterates
<1>4. g \in [0..num -> Ways] /\ g = [i \in 0..num |-> IF i = 0 THEN start ELSE step[g[i - 1]]]
  BY <1>15 DEF IsOrbit
<1>5. ASSUME NEW i \in 0..num, i # 0
      PROVE  step[g[i - 1]] = Hop(g[i - 1], bad)
  <2>1. i - 1 \in 0..num
    BY <1>5
  <2>2. g[i - 1] \in Ways
    BY <1>4, <2>1
  <2> QED
    BY <1>3, <2>2
<1>6. Row(g)
  BY <1>4, <1>5
<1>7. PICK f : f = CHOOSE h : Row(h)
  OBVIOUS
<1>8. Row(f)
  BY <1>6, <1>7
<1>9. GetNextCluster(fb, cluster, num, bad) = f[num]
  BY <1>7 DEF GetNextCluster, Iterate, start
<1>10. f[0] = start /\ g[0] = start
  BY <1>6, <1>8
<1>11. \A i \in 0..(num - 1) : f[i + 1] = Hop(f[i], bad) /\ g[i + 1] = Hop(g[i], bad)
  BY <1>6, <1>8
<1>12. \A i \in 0..num : f[i] = g[i]
  <2>1. f[0] = g[0] /\ \A i \in 0..(num - 1) : f[i] = g[i] => f[i + 1] = g[i + 1]
    BY <1>10, <1>11
  <2> QED
    BY <2>1, SameSteps
<1>13. f \in [0..num -> Ways]
  BY <1>4, <1>8, <1>12
<1>14. IsWay(f, fb, cluster, num, bad)
  BY <1>9, <1>10, <1>11, <1>13 DEF start, IsWay
<1> QED
  BY <1>14

LEMMA NextInRange ==
    ASSUME InDrive, NEW fb \in Buffer, NEW cluster \in Nat, NEW num \in Nat, NEW bad
    PROVE  /\ GetNextCluster(fb, cluster, num, bad) \in Ways
           /\ num = 0 => GetNextCluster(fb, cluster, num, bad) = [fb |-> fb, cluster |-> cluster, end |-> FALSE]
<1>1. PICK f : IsWay(f, fb, cluster, num, bad)
  BY ChainFollowed
<1>2. num \in 0..num
  OBVIOUS
<1> QED
  BY <1>1, <1>2 DEF IsWay

-----------------------------------------------------------------------------
(* The entries of a directory.                                             *)

SectorEntries(lba) == IF lba \in DOMAIN vol.rows THEN vol.rows[lba] ELSE <<>>

LEMMA Entering ==
    ASSUME vol \in Volumes, NEW lba
    PROVE  /\ Len(SectorEntries(lba)) \in 0..Per
           /\ \A i \in 1..Len(SectorEntries(lba)) :
                 Entered(vol, SectorEntries(lba)[i]) /\ SectorEntries(lba)[i] \in ToSet(SectorEntries(lba))
           /\ ToSet(SectorEntries(lba)) = {SectorEntries(lba)[i] : i \in 1..Len(SectorEntries(lba))}
           /\ \A i \in Nat : EntryAt(lba, i) = IF i < Len(SectorEntries(lba)) THEN SectorEntries(lba)[i + 1] ELSE EndMark
<1>1. CASE lba \in DOMAIN vol.rows
  <2>1. PICK s : s = vol.rows[lba]
    OBVIOUS
  <2>2. SectorEntries(lba) = s
    BY <1>1, <2>1 DEF SectorEntries
  <2>3. s \in Seq(ToSet(s)) /\ Len(s) <= Per /\ \A e \in ToSet(s) : Entered(vol, e)
    BY <1>1, <2>1, VolumesAssumption DEF Listed, Per
  <2>4. DOMAIN s = 1..Len(s) /\ Len(s) \in Nat
    BY <2>3
  <2>5. ToSet(s) = {s[i] : i \in 1..Len(s)}
    BY <2>4 DEF ToSet
  <2>6. \A i \in 1..Len(s) : Entered(vol, s[i]) /\ s[i] \in ToSet(s)
    BY <2>3, <2>5
  <2>7. \A i \in Nat : EntryAt(lba, i) = IF i < Len(s) THEN s[i + 1] ELSE EndMark
    BY <1>1, <2>1 DEF EntryAt
  <2>8. Len(s) \in 0..Per
    BY <2>3, <2>4, Sizes
  <2> QED
    BY <2>2, <2>5, <2>6, <2>7, <2>8
<1>2. CASE lba \notin DOMAIN vol.rows
  <2>1. PICK s : s = <<>>
    OBVIOUS
  <2>2. SectorEntries(lba) = s /\ Len(s) = 0 /\ DOMAIN s = {} /\ 1..Len(s) = {}
    BY <1>2, <2>1 DEF SectorEntries
  <2>3. ToSet(s) = {s[i] : i \in 1..Len(s)}
    BY <2>2 DEF ToSet
  <2>4. \A i \in Nat : EntryAt(lba, i) = EndMark
    BY <1>2 DEF EntryAt
  <2> QED
    BY <2>2, <2>3, <2>4, Sizes
<1> QED
  BY <1>1, <1>2

LEMMA EntriesOf ==
    ASSUME NEW head
    PROVE  Entries(head) = SectorEntries(DirSector(head))
BY DEF Entries, SectorEntries

(* Where an iterator may be: the step to a further block is never taken.   *)
Its == [head : Places, block : {0}, entry : 0..Per]

LEMMA NoAdvance ==
    ASSUME InDrive, NEW it \in Its
    PROVE  Advance(it) = it /\ EntriesPerBlock(it.head) = Per
<1>1. EntriesPerBlock(it.head) = Per
  BY Driven DEF EntriesPerBlock, Per
<1>2. it.block = 0
  BY DEF Its
<1>3. ~(it.block >= EntriesPerBlock(it.head))
  BY <1>1, <1>2, Sizes
<1> QED
  BY <1>1, <1>3 DEF Advance

(* The block that a turn looks at is the directory's, if all goes well.    *)
LEMMA Fetched ==
    ASSUME InDrive, NEW it \in Its, databuf \in Buffer, fatbuf \in Buffer, NEW bad, NEW f, f = Fetch(it, bad)
    PROVE  /\ f.none = FALSE /\ f.db \in Buffer /\ f.fb \in Buffer
           /\ Honest /\ bad = {} => f.db.holds = DirSector(it.head)
<1>1. it.head \in Places /\ it.block = 0
  BY DEF Its
<1>2. PICK lba : lba = DirSector(it.head)
  OBVIOUS
<1>3. lba \in Nat /\ lba < vol.total /\ it.head \in Nat /\ vol.total \in Nat
  BY <1>1, <1>2, Located, Driven DEF Sectors
<1>4. f.none = FALSE /\ f.fb \in Buffer /\ f.db = Fill(databuf, lba, bad)
  <2>1. CASE IsRootSector(it.head)
    <3>1. fs.data_area_begin = lba /\ fs.root_sector_count > 0 /\ fs.data_area_begin + it.block = lba
      BY <1>1, <1>2, <1>3, <2>1, Located
    <3>2. ~(it.block >= fs.root_sector_count)
      BY <1>1, <3>1, Driven
    <3>3. (it.block >= fs.root_sector_count) = FALSE
      BY <3>2
    <3>4. f = [none |-> FALSE, fb |-> fatbuf, db |-> Fill(databuf, fs.data_area_begin + it.block, bad)]
      BY <2>1, <3>2, <3>3 DEF Fetch
    <3> QED
      BY <3>1, <3>4
  <2>2. CASE ~IsRootSector(it.head)
    <3>1. ClusterToSector(it.head) = lba
      BY <1>1, <1>2, <2>2, Located
    <3>2. GetNextCluster(fatbuf, it.head, it.block, bad) = [fb |-> fatbuf, cluster |-> it.head, end |-> FALSE]
      <4>1. it.block \in Nat /\ it.block = 0 /\ it.head \in Nat
        BY <1>1, <1>3
      <4> QED
        BY <4>1, NextInRange
    <3>3. PICK c : c = GetNextCluster(fatbuf, it.head, it.block, bad)
      OBVIOUS
    <3>4. f = [none |-> c.end, fb |-> c.fb, db |-> IF c.end THEN databuf ELSE ReadCluster(databuf, c.cluster, bad)]
      BY <2>2, <3>3 DEF Fetch
    <3>5. c.end = FALSE /\ c.fb = fatbuf /\ c.cluster = it.head
      BY <3>2, <3>3
    <3> QED
      BY <3>1, <3>4, <3>5 DEF ReadCluster
  <2> QED
    BY <2>1, <2>2
<1>5. f.db \in Buffer
  BY <1>3, <1>4, Filled
<1>6. ASSUME Honest, bad = {}
      PROVE  f.db.holds = lba
  <2>1. databuf.lba \in {None, databuf.holds}
    BY <1>6 DEF Honest
  <2>2. lba # None
    BY <1>3 DEF None
  <2> QED
    BY <1>3, <1>4, <1>6, <2>1, <2>2 DEF Fill
<1> QED
  BY <1>2, <1>4, <1>5, <1>6

(* Where the scan of the block ends.                                       *)
Found(it, holds, l, stop) ==
    /\ stop \in it.entry..Per
    /\ \A i \in it.entry..(stop - 1) : ~Stops(EntryAt(holds, i))
    /\ stop = Per => l.more /\ l.entry = EndMark /\ l.it = [it EXCEPT !.entry = Per]
    /\ stop < Per => /\ ~l.more /\ l.entry = EntryAt(holds, stop) /\ Stops(l.entry)
                     /\ l.it = [it EXCEPT !.entry = IF l.entry = EndMark THEN stop ELSE stop + 1]

LEMMA Looked ==
    ASSUME InDrive, NEW it \in Its, NEW f, f.none = FALSE, NEW l, l = Look(it, f)
    PROVE  \E stop : Found(it, f.db.holds, l, stop)
<1> DEFINE holds == f.db.holds
<1>1. PICK stops : stops = {i \in it.entry..(Per - 1) : Stops(EntryAt(holds, i))}
  OBVIOUS
<1>2. PICK stop : stop = IF stops = {} THEN Per ELSE Min(stops)
  OBVIOUS
<1>3. it.entry \in Nat /\ it.entry <= Per /\ Per \in Nat
  BY Sizes DEF Its
<1>4. /\ stop \in it.entry..Per /\ (stop < Per => stop \in stops)
      /\ \A i \in it.entry..(stop - 1) : i \notin stops
  <2>1. CASE stops = {}
    BY <1>2, <1>3, <2>1
  <2>2. CASE stops # {}
    <3>1. stops \subseteq Nat
      BY <1>1, <1>3
    <3>2. stop \in stops /\ \A x \in stops : stop <= x
      BY <1>2, <2>2, <3>1, MinIn
    <3> QED
      BY <1>1, <1>3, <3>2
  <2> QED
    BY <2>1, <2>2
<1>5. PICK entry : entry = IF stop = Per THEN EndMark ELSE EntryAt(holds, stop)
  OBVIOUS
<1>6. l = [entry |-> entry, more |-> stop = Per,
           it |-> [it EXCEPT !.entry = IF entry = EndMark THEN stop ELSE Past(stop)]]
  <2>1. EntriesPerBlock(it.head) = Per
    BY NoAdvance
  <2> QED
    BY <1>1, <1>2, <1>5, <2>1 DEF Look
<1>7. l.entry = entry /\ l.more = (stop = Per)
      /\ l.it = [it EXCEPT !.entry = IF entry = EndMark THEN stop ELSE stop + 1]
  BY <1>6 DEF Past
<1>8. \A i \in it.entry..(stop - 1) : ~Stops(EntryAt(holds, i))
  BY <1>1, <1>3, <1>4
<1>9. ASSUME stop = Per
      PROVE  l.more /\ l.entry = EndMark /\ l.it = [it EXCEPT !.entry = Per]
  BY <1>5, <1>7, <1>9
<1>10. ASSUME stop < Per
       PROVE  /\ ~l.more /\ l.entry = EntryAt(holds, stop) /\ Stops(l.entry)
              /\ l.it = [it EXCEPT !.entry = IF l.entry = EndMark THEN stop ELSE stop + 1]
  BY <1>1, <1>3, <1>4, <1>5, <1>7, <1>10
<1>11. Found(it, holds, l, stop)
  BY <1>4, <1>8, <1>9, <1>10 DEF Found
<1> QED
  BY <1>11

(* The names shown, one entry after the other.                             *)
LEMMA ShownFrom ==
    ASSUME NEW head, NEW n \in Nat
    PROVE  /\ Shown(head, 0) = <<>>
           /\ Shown(head, n + 1) = IF Visible(Entries(head)[n + 1])
                                   THEN Append(Shown(head, n), Entries(head)[n + 1].name)
                                   ELSE Shown(head, n)
<1> DEFINE X == {Entries(head)[i].name : i \in Nat}
           step == [i \in Nat |-> [s \in Seq(X) |->
                      IF Visible(Entries(head)[i + 1]) THEN Append(s, Entries(head)[i + 1].name) ELSE s]]
           Row(m, f) == f = [i \in 0..m |->
                               IF i = 0 THEN <<>>
                               ELSE IF Visible(Entries(head)[i]) THEN Append(f[i - 1], Entries(head)[i].name)
                               ELSE f[i - 1]]
<1>1. \A i \in Nat : Entries(head)[i + 1].name \in X
  OBVIOUS
<1> HIDE DEF X
<1>2. step \in [Nat -> [Seq(X) -> Seq(X)]]
  BY <1>1
<1>3. \A i \in Nat, s \in Seq(X) :
         step[i][s] = IF Visible(Entries(head)[i + 1]) THEN Append(s, Entries(head)[i + 1].name) ELSE s
  OBVIOUS
<1>4. <<>> \in Seq(X)
  OBVIOUS
<1> HIDE DEF step
<1>5. PICK F : IsRow(F, Seq(X), <<>>, step)
  BY <1>2, <1>4, Recursion
<1>6. F \in [Nat -> Seq(X)] /\ F[0] = <<>>
  BY <1>5 DEF IsRow
<1>7. ASSUME NEW i \in Nat
      PROVE  F[i + 1] = IF Visible(Entries(head)[i + 1]) THEN Append(F[i], Entries(head)[i + 1].name) ELSE F[i]
  BY <1>3, <1>5, <1>6 DEF IsRow
<1>8. ASSUME NEW m \in Nat
      PROVE  Shown(head, m) = F[m]
  <2>1. PICK g : g = [i \in 0..m |-> F[i]]
    OBVIOUS
  <2>2. Row(m, g)
    <3>1. ASSUME NEW i \in 0..m
          PROVE  F[i] = IF i = 0 THEN <<>>
                        ELSE IF Visible(Entries(head)[i]) THEN Append(g[i - 1], Entries(head)[i].name)
                        ELSE g[i - 1]
      <4>1. CASE i = 0
        BY <1>6, <4>1
      <4>2. CASE i # 0
        <5>1. i - 1 \in Nat /\ i - 1 \in 0..m /\ (i - 1) + 1 = i
          BY <4>2
        <5>2. F[i] = IF Visible(Entries(head)[i]) THEN Append(F[i - 1], Entries(head)[i].name) ELSE F[i - 1]
          BY <1>7, <5>1
        <5>3. g[i - 1] = F[i - 1]
          BY <2>1, <5>1
        <5> QED
          BY <4>2, <5>2, <5>3
      <4> QED
        BY <4>1, <4>2
    <3> QED
      BY <2>1, <3>1
  <2>3. PICK f : f = CHOOSE h : Row(m, h)
    OBVIOUS
  <2>4. Row(m, f)
    BY <2>2, <2>3
  <2>5. Shown(head, m) = f[m]
    BY <2>3 DEF Shown
  <2>6. f[0] = g[0] /\ \A i \in 0..(m - 1) : f[i] = g[i] => f[i + 1] = g[i + 1]
    <3>1. f[0] = <<>> /\ g[0] = <<>>
      BY <2>2, <2>4
    <3>2. ASSUME NEW i \in 0..(m - 1), f[i] = g[i]
          PROVE  f[i + 1] = g[i + 1]
      <4>1. i + 1 \in 0..m /\ i + 1 # 0 /\ (i + 1) - 1 = i
        OBVIOUS
      <4>2. f[i + 1] = IF Visible(Entries(head)[i + 1]) THEN Append(f[i], Entries(head)[i + 1].name) ELSE f[i]
        BY <2>4, <4>1
      <4>3. g[i + 1] = IF Visible(Entries(head)[i + 1]) THEN Append(g[i], Entries(head)[i + 1].name) ELSE g[i]
        BY <2>2, <4>1
      <4> QED
        BY <3>2, <4>2, <4>3
    <3> QED
      BY <3>1, <3>2
  <2>7. \A i \in 0..m : f[i] = g[i]
    BY ONLY <2>6, m \in Nat, SameSteps
  <2> QED
    BY <2>1, <2>5, <2>7
<1>9. Shown(head, 0) = F[0] /\ Shown(head, n) = F[n] /\ Shown(head, n + 1) = F[n + 1]
  BY <1>8
<1> QED
  BY <1>6, <1>7, <1>9

-----------------------------------------------------------------------------
(* The chain of a file, as the FAT has it.                                 *)

LEMMA DivMod ==
    ASSUME NEW a \in Nat, NEW b \in Nat \ {0}
    PROVE  a \div b \in Nat /\ a % b \in 0..(b - 1) /\ a = (a \div b) * b + (a % b)
<1>1. a \div b \in Nat /\ a % b \in 0..(b - 1) /\ a = b * (a \div b) + (a % b)
  OBVIOUS
<1>2. PICK q \in Nat : q = a \div b
  BY <1>1
<1>3. PICK r \in 0..(b - 1) : r = a % b
  BY <1>1
<1>4. b * q = q * b
  OBVIOUS
<1>5. a = b * q + r
  BY <1>1, <1>2, <1>3
<1>6. a = q * b + r
  BY <1>4, <1>5
<1>7. a = (a \div b) * b + (a % b)
  BY <1>2, <1>3, <1>6, Zenon
<1> QED
  BY <1>1, <1>7, Zenon

LEMMA Split ==
    ASSUME NEW b \in Nat \ {0}, NEW q \in Nat, NEW r \in 0..(b - 1)
    PROVE  (q * b + r) \div b = q /\ (q * b + r) % b = r
<1>1. PICK a : a = q * b + r
  OBVIOUS
<1>2. a \in Nat
  BY <1>1
<1>3. a \div b \in Nat /\ a % b \in 0..(b - 1) /\ a = (a \div b) * b + (a % b)
  BY <1>2, DivMod
<1>4. PICK d \in Nat, m \in 0..(b - 1) : d = a \div b /\ m = a % b
  BY <1>3
<1>5. d * b + m = q * b + r
  BY <1>1, <1>3, <1>4
<1>6. d = q
  <2>1. CASE d < q
    <3>1. (d + 1) * b <= q * b /\ (d + 1) * b = d * b + b
      BY <2>1
    <3> QED
      BY <1>5, <3>1
  <2>2. CASE d > q
    <3>1. (q + 1) * b <= d * b /\ (q + 1) * b = q * b + b
      BY <2>2
    <3> QED
      BY <1>5, <3>1
  <2> QED
    BY <2>1, <2>2
<1>7. m = r
  BY <1>5, <1>6
<1> QED
  BY <1>1, <1>4, <1>6, <1>7

Held(b) == b.lba \in {None, b.holds}

LEMMA FilledRight ==
    ASSUME vol.total \in Nat, NEW buf, Held(buf), NEW lba \in Sectors, NEW bad, bad = {}
    PROVE  Held(Fill(buf, lba, bad)) /\ Fill(buf, lba, bad).holds = lba
<1>1. lba # None /\ ~(lba >= vol.total)
  BY DEF Sectors, None
<1> QED
  BY <1>1 DEF Held, Fill

LEMMA ClusterLocated ==
    ASSUME InDrive, NEW k \in Nat, k >= 2, SectorAt(vol, k) < vol.total
    PROVE  ClusterToSector(k) = SectorAt(vol, k) /\ SectorAt(vol, k) \in Sectors
<1>1. SectorAt(vol, k) = vol.first_data + (k - 2)
  BY Driven DEF SectorAt
<1>2. RootAt(vol) /\ fs = GeometryOf(vol)
  BY VolumesAssumption DEF InDrive, Geometry
<1>3. PICK root : root = IF fs.type = 32 THEN 0 ELSE fs.root_sector_count
  OBVIOUS
<1>4. root = fs.root_sector_count
  BY <1>2, <1>3, Driven DEF RootAt
<1>5. ClusterToSector(k) = ((k - 2) * 1 + fs.data_area_begin + root) % Word
  BY <1>3, Driven DEF ClusterToSector
<1>6. (k - 2) * 1 + fs.data_area_begin + root = SectorAt(vol, k)
  BY <1>1, <1>4, Driven
<1>7. SectorAt(vol, k) \in 0..(vol.total - 1) /\ SectorAt(vol, k) \in 0..(Word - 1)
  BY <1>1, Driven, Sizes
<1> QED
  BY <1>5, <1>6, <1>7, Sizes DEF Sectors

(* No other chain has the cluster: its entry is the next one.              *)
LEMMA EntryFollows ==
    ASSUME InDrive, NEW c \in DOMAIN vol.chains, NEW i \in 1..Len(vol.chains[c])
    PROVE  FatEntry(vol.chains[c][i]) =
              IF i = Len(vol.chains[c]) THEN EndCluster(fs.type) ELSE vol.chains[c][i + 1]
<1> DEFINE k == vol.chains[c][i]
           of == {d \in DOMAIN vol.chains : k \in ToSet(vol.chains[d])}
           one == CHOOSE d \in of : TRUE
           chain == vol.chains[one]
           at == CHOOSE j \in DOMAIN chain : chain[j] = k
<1>1. Chained(vol)
  BY VolumesAssumption DEF InDrive
<1>2. i \in DOMAIN vol.chains[c]
  BY Chains DEF InDrive
<1>3. c \in of
  BY <1>2 DEF ToSet
<1>4. one \in of
  BY <1>3
<1>5. FatEntry(k) = IF at = Len(chain) THEN EndCluster(fs.type) ELSE chain[at + 1]
  BY <1>3 DEF FatEntry
<1> HIDE DEF one
<1>6. PICK j \in DOMAIN chain : chain[j] = k
  BY <1>4 DEF ToSet
<1>7. one = c
  BY <1>1, <1>2, <1>4, <1>6 DEF Chained
<1>8. at \in DOMAIN chain /\ chain[at] = k
  BY <1>6
<1>9. at = i
  BY <1>1, <1>2, <1>4, <1>7, <1>8 DEF Chained
<1> QED
  BY <1>5, <1>7, <1>9

LEMMA EntryBelow ==
    ASSUME InDrive, fs.type = 12, NEW k
    PROVE  FatEntry(k) \in 0..4095
<1> DEFINE of == {d \in DOMAIN vol.chains : k \in ToSet(vol.chains[d])}
<1>1. CASE of = {}
  BY <1>1 DEF FatEntry
<1>2. CASE of # {}
  <2>1. PICK c : c \in DOMAIN vol.chains /\ k \in ToSet(vol.chains[c])
    BY <1>2
  <2> HIDE DEF of
  <2>2. PICK i : i \in 1..Len(vol.chains[c]) /\ k = vol.chains[c][i]
    BY <2>1, Chains DEF ToSet, InDrive
  <2>10. PICK last : last = Len(vol.chains[c])
    OBVIOUS
  <2>3. PICK n : n = vol.chains[c][i + 1]
    OBVIOUS
  <2>6. FatEntry(k) = IF i = last THEN EndCluster(12) ELSE n
    BY <2>1, <2>2, <2>3, <2>10, EntryFollows
  <2>4. EndCluster(12) = 4095 /\ MaxCluster(12) = 4084
    BY Limits
  <2>5. ASSUME i # last
        PROVE  n \in 2..4084
    <3>1. vol.chains[c] \in Seq(Nat) /\ Geometry = fs
      BY <2>1, Chains DEF InDrive
    <3>2. i + 1 \in 1..Len(vol.chains[c])
      BY <2>2, <2>5, <2>10, <3>1
    <3>3. n \in 2..MaxCluster(12)
      BY <2>1, <2>3, <3>1, <3>2, Chains DEF InDrive
    <3> QED
      BY <2>4, <3>3
  <2>7. PICK m : m = FatEntry(k)
    OBVIOUS
  <2>8. CASE i = last
    <3>1. m = 4095
      BY <2>4, <2>6, <2>7, <2>8
    <3> QED
      BY <2>7, <3>1
  <2>9. CASE i # last
    <3>1. m = n /\ n \in 2..4084
      BY <2>5, <2>6, <2>7, <2>9
    <3>2. m \in 0..4095
      BY <3>1
    <3> QED
      BY <2>7, <3>2
  <2> QED
    BY <2>8, <2>9
<1> QED
  BY <1>1, <1>2

(* The sectors of the first FAT, and the items in them.                    *)
LEMMA FatSector ==
    ASSUME InDrive, NEW x \in Nat, x < fs.fat_size, NEW lba, lba = fs.reserved + x
    PROVE  /\ lba \in Sectors /\ lba \in Nat /\ InFat(lba)
           /\ \A per, i : FatItem(lba, per, i) = x * per + i
<1>1. vol \in Volumes /\ fs = GeometryOf(vol) /\ Numbers(vol)
  BY VolumesAssumption DEF InDrive, Geometry
<1>2. vol.fat_count \in Nat /\ vol.fat_count >= 1 /\ fs.fat_size = vol.fat_size
      /\ fs.data_area_begin = fs.reserved + vol.fat_count * vol.fat_size
  BY <1>1, Numbered DEF Numbers
<1>3. PICK n \in Nat, k \in Nat : n = vol.fat_count /\ k = fs.fat_size
  BY <1>2, Driven
<1>4. n * k >= k
  <2>1. (n - 1) * k \in Nat /\ n * k = (n - 1) * k + k
    BY <1>2, <1>3
  <2> QED
    BY <2>1
<1>5. PICK all \in Nat : all = n * k
  OBVIOUS
<1>6. fs.data_area_begin = fs.reserved + all /\ all >= fs.fat_size
  BY <1>2, <1>3, <1>4, <1>5
<1>7. lba \in fs.reserved..(fs.data_area_begin - 1) /\ lba \in Sectors
  BY <1>6, Driven DEF Sectors
<1>8. (lba - fs.reserved) % fs.fat_size = x
  <2>1. lba - fs.reserved = x
    BY Driven
  <2> QED
    BY <2>1, Driven
<1> QED
  BY <1>7, <1>8 DEF InFat, FatItem, Sectors

(* A FAT12 entry, put together from its two bytes.                         *)
LEMMA Bytes12 ==
    ASSUME InDrive, fs.type = 12, NEW c \in Nat, NEW n, n = c + c \div 2
    PROVE  /\ c % 2 = 1 => Fat12Byte(n) \div 16 + 16 * Fat12Byte(n + 1) = FatEntry(c)
           /\ c % 2 # 1 => Fat12Byte(n) + 256 * (Fat12Byte(n + 1) % 16) = FatEntry(c)
<1>1. PICK m \in Nat : m = c \div 2
  OBVIOUS
<1>2. PICK lo \in 0..4095 : lo = FatEntry(2 * m)
  BY EntryBelow
<1>3. PICK hi \in 0..4095 : hi = FatEntry(2 * m + 1)
  BY EntryBelow
<1>4. CASE c % 2 = 1
  <2>1. c = 2 * m + 1 /\ n = 3 * m + 1
    BY <1>1, <1>4
  <2>2. n \div 3 = m /\ n % 3 = 1 /\ (n + 1) \div 3 = m /\ (n + 1) % 3 = 2
    BY <2>1
  <2>3. Fat12Byte(n) = lo \div 256 + 16 * (hi % 16)
    BY <1>2, <1>3, <2>2 DEF Fat12Byte
  <2>4. Fat12Byte(n + 1) = hi \div 16
    BY <1>2, <1>3, <2>2 DEF Fat12Byte
  <2>5. (lo \div 256 + 16 * (hi % 16)) \div 16 + 16 * (hi \div 16) = hi
    OBVIOUS
  <2> QED
    BY <1>3, <1>4, <2>1, <2>3, <2>4, <2>5
<1>5. CASE c % 2 # 1
  <2>1. c = 2 * m /\ n = 3 * m
    BY <1>1, <1>5
  <2>2. n \div 3 = m /\ n % 3 = 0 /\ (n + 1) \div 3 = m /\ (n + 1) % 3 = 1
    BY <2>1
  <2>3. Fat12Byte(n) = lo % 256
    BY <1>2, <1>3, <2>2 DEF Fat12Byte
  <2>4. Fat12Byte(n + 1) = lo \div 256 + 16 * (hi % 16)
    BY <1>2, <1>3, <2>2 DEF Fat12Byte
  <2>5. (lo % 256) + 256 * ((lo \div 256 + 16 * (hi % 16)) % 16) = lo
    <3>1. lo \div 256 \in 0..15 /\ lo % 256 \in 0..255 /\ lo = 256 * (lo \div 256) + (lo % 256)
      BY ONLY lo \in 0..4095
    <3>2. PICK a, b : a = lo \div 256 /\ b = lo % 256
      OBVIOUS
    <3>3. a \in 0..15 /\ lo = 256 * a + b
      BY ONLY <3>1, <3>2
    <3>4. PICK x \in 0..15 : x = hi % 16
      BY ONLY hi \in 0..4095
    <3>5. (a + 16 * x) % 16 = a
      BY ONLY <3>3, x \in 0..15
    <3>6. b + 256 * a = lo
      BY ONLY <3>1, <3>2, <3>3
    <3>7. PICK y : y = (lo \div 256 + 16 * (hi % 16)) % 16
      OBVIOUS
    <3>8. y = a
      BY ONLY <3>2, <3>4, <3>5, <3>7
    <3> QED
      BY ONLY <3>2, <3>6, <3>7, <3>8
  <2> QED
    BY <1>2, <1>5, <2>1, <2>3, <2>4, <2>5
<1> QED
  BY <1>4, <1>5

LEMMA Below ==
    ASSUME NEW a \in Nat, NEW k \in Nat, NEW b \in Nat \ {0}, a * b < k * b
    PROVE  a < k
<1>1. SUFFICES ASSUME a >= k
               PROVE  FALSE
  OBVIOUS
<1>2. PICK d \in Nat : a = k + d
  <2>1. a - k \in Nat /\ a = k + (a - k)
    BY <1>1
  <2> QED
    BY <2>1
<1>3. a * b = k * b + d * b /\ d * b \in Nat /\ k * b \in Nat
  BY <1>2
<1> QED
  BY <1>3

(* A hop reads the FAT right, if its cache is.                             *)
LEMMA HopReads12 ==
    ASSUME InDrive, fs.type = 12, NEW fb \in Buffer, Held(fb), NEW bad, bad = {},
           NEW c \in Nat, HasEntry(vol, 12, c)
    PROVE  Held(Hop12(fb, c, bad).fb) /\ Hop12(fb, c, bad).cluster = FatEntry(c)
<1> DEFINE byte_idx == c + c \div 2
           sector_idx == byte_idx \div SectorSize
           offs == byte_idx % SectorSize
           first == ReadFat(fb, sector_idx, bad)
           second == IF offs = SectorSize - 1 THEN ReadFat(first, sector_idx + 1, bad) ELSE first
           b0 == ByteAt(first.holds, offs)
           b1 == ByteAt(second.holds, (offs + 1) % SectorSize)
<1>1. Hop12(fb, c, bad) = [fb |-> second, cluster |-> IF c % 2 = 1 THEN b0 \div 16 + 16 * b1 ELSE b0 + 256 * (b1 % 16)]
  BY DEF Hop12
<1>2. PICK k \in Nat : k = fs.fat_size /\ k = vol.fat_size
  BY Driven, Numbered DEF InDrive, Geometry
<1>3. byte_idx \in Nat /\ byte_idx + 1 < k * SectorSize
  BY <1>2 DEF HasEntry
<1>4. PICK n : n = byte_idx
  OBVIOUS
<1> HIDE DEF byte_idx
<1>5. /\ sector_idx \in Nat /\ offs \in 0..(SectorSize - 1)
      /\ n = sector_idx * SectorSize + offs
  <2>1. /\ byte_idx \div SectorSize \in Nat /\ byte_idx % SectorSize \in 0..(SectorSize - 1)
        /\ byte_idx = (byte_idx \div SectorSize) * SectorSize + (byte_idx % SectorSize)
    <3>1. byte_idx \in Nat /\ SectorSize \in Nat \ {0}
      BY <1>3, Sizes
    <3> QED
      BY ONLY <3>1, DivMod, Zenon
  <2> QED
    BY <1>4, <2>1, Zenon
<1> HIDE DEF sector_idx, offs
<1>6. PICK p \in Nat : p = sector_idx * SectorSize
  BY <1>5, Sizes
<1>7. PICK z \in Nat : z = k * SectorSize
  BY Sizes
<1>8. n = p + offs /\ n + 1 < z
  BY <1>3, <1>4, <1>5, <1>6, <1>7
<1>9. sector_idx < fs.fat_size
  <2>1. p < z
    BY <1>5, <1>8, Sizes
  <2>2. sector_idx * SectorSize < k * SectorSize
    BY <1>6, <1>7, <2>1
  <2> QED
    BY <1>2, <1>5, <2>2, Below, Sizes
<1>10. Held(first) /\ first.holds = fs.reserved + sector_idx /\ first \in Buffer
  <2>1. fs.reserved + sector_idx \in Sectors /\ fs.reserved + sector_idx \in Nat
    BY <1>5, <1>9, FatSector
  <2> QED
    BY <2>1, FilledRight, Filled, Driven DEF ReadFat
<1>11. b0 = Fat12Byte(n)
  <2>1. /\ InFat(fs.reserved + sector_idx)
        /\ FatItem(fs.reserved + sector_idx, SectorSize, offs) = sector_idx * SectorSize + offs
    BY <1>5, <1>9, FatSector
  <2> QED
    BY <1>5, <1>10, <2>1 DEF ByteAt
<1> HIDE DEF first
<1>12. Held(second) /\ b1 = Fat12Byte(n + 1)
  <2>1. CASE offs = SectorSize - 1
    <3>1. (sector_idx + 1) * SectorSize = p + SectorSize /\ n + 1 = p + SectorSize
      BY <1>5, <1>6, <1>8, <2>1, Sizes
    <3>2. (sector_idx + 1) * SectorSize < k * SectorSize
      BY <1>7, <1>8, <3>1
    <3>3. sector_idx + 1 \in Nat /\ sector_idx + 1 < fs.fat_size
      BY <1>2, <1>5, <3>2, Below, Sizes
    <3>4. PICK lba : lba = fs.reserved + (sector_idx + 1)
      OBVIOUS
    <3>5. lba \in Sectors /\ InFat(lba) /\ FatItem(lba, SectorSize, 0) = (sector_idx + 1) * SectorSize + 0
      BY <3>3, <3>4, FatSector
    <3>6. second = Fill(first, lba, bad)
      BY <2>1, <3>4 DEF ReadFat
    <3>7. Held(second) /\ second.holds = lba
      BY <1>10, <3>5, <3>6, FilledRight, Driven
    <3>8. (offs + 1) % SectorSize = 0
      BY <2>1, Sizes
    <3>9. FatItem(lba, SectorSize, 0) = n + 1
      <4>1. PICK w \in Nat : w = (sector_idx + 1) * SectorSize
        BY <3>3, Sizes
      <4>2. w = n + 1 /\ FatItem(lba, SectorSize, 0) = w + 0
        BY <3>1, <3>5, <4>1
      <4> QED
        BY <4>1, <4>2
    <3> HIDE DEF second
    <3> QED
      BY <3>5, <3>7, <3>8, <3>9 DEF ByteAt
  <2>2. CASE offs # SectorSize - 1
    <3>1. second = first
      BY <2>2
    <3>2. (offs + 1) % SectorSize = offs + 1
      BY <1>5, <2>2, Sizes
    <3>3. /\ InFat(fs.reserved + sector_idx)
          /\ FatItem(fs.reserved + sector_idx, SectorSize, offs + 1) = sector_idx * SectorSize + (offs + 1)
      BY <1>5, <1>9, FatSector
    <3>4. sector_idx * SectorSize + (offs + 1) = n + 1
      BY <1>5, <1>6, <1>8
    <3> HIDE DEF second
    <3> QED
      BY <1>10, <3>1, <3>2, <3>3, <3>4 DEF ByteAt
  <2> QED
    BY <2>1, <2>2
<1> HIDE DEF second, b0, b1
<1>13. n = c + c \div 2
  BY <1>4 DEF byte_idx
<1>14. (IF c % 2 = 1 THEN b0 \div 16 + 16 * b1 ELSE b0 + 256 * (b1 % 16)) = FatEntry(c)
  BY <1>11, <1>12, <1>13, Bytes12
<1> QED
  BY <1>1, <1>12, <1>14

LEMMA HopReadsWide ==
    ASSUME InDrive, fs.type # 12, NEW fb \in Buffer, Held(fb), NEW bad, bad = {},
           NEW c \in Nat, HasEntry(vol, fs.type, c)
    PROVE  Held(HopWide(fb, c, bad).fb) /\ HopWide(fb, c, bad).cluster = FatEntry(c)
<1> DEFINE per == SectorSize \div (fs.type \div 8)
           b == ReadFat(fb, c \div per, bad)
<1>1. HopWide(fb, c, bad) = [fb |-> b, cluster |-> WordAt(b.holds, per, c % per)]
  BY DEF HopWide
<1>2. per \in Nat \ {0}
  <2>1. CASE fs.type = 16
    BY <2>1, Sizes
  <2>2. CASE fs.type = 32
    BY <2>2, Sizes
  <2> QED
    BY <2>1, <2>2, Driven
<1>3. c \div per < fs.fat_size
  BY Driven, Numbered DEF HasEntry, InDrive, Geometry
<1> HIDE DEF per
<1>4. c \div per \in Nat /\ c = (c \div per) * per + (c % per)
  BY <1>2, DivMod
<1>5. PICK x \in Nat : x = c \div per
  BY <1>4
<1>6. PICK lba : lba = fs.reserved + x
  OBVIOUS
<1>7. lba \in Sectors /\ InFat(lba) /\ FatItem(lba, per, c % per) = x * per + (c % per)
  BY <1>3, <1>5, <1>6, FatSector
<1>8. b = Fill(fb, lba, bad)
  BY <1>5, <1>6 DEF ReadFat
<1>9. Held(b) /\ b.holds = lba
  BY <1>7, <1>8, FilledRight, Driven
<1> HIDE DEF b
<1>10. FatItem(lba, per, c % per) = c
  BY <1>4, <1>5, <1>7, Zenon
<1>11. WordAt(b.holds, per, c % per) = FatEntry(c)
  BY <1>7, <1>9, <1>10 DEF WordAt
<1> QED
  BY <1>1, <1>9, <1>11

LEMMA HopRight ==
    ASSUME InDrive, NEW c \in DOMAIN vol.chains, NEW i \in 1..Len(vol.chains[c]),
           NEW s \in Ways, Held(s.fb), s.cluster = vol.chains[c][i], s.end = FALSE, NEW bad, bad = {}
    PROVE  /\ Held(Hop(s, bad).fb)
           /\ i < Len(vol.chains[c]) => Hop(s, bad).cluster = vol.chains[c][i + 1] /\ Hop(s, bad).end = FALSE
<1> DEFINE chain == vol.chains[c]
           n == IF fs.type = 12 THEN Hop12(s.fb, s.cluster, bad) ELSE HopWide(s.fb, s.cluster, bad)
           limit == MaxCluster(IF fs.type = 12 THEN 16 ELSE fs.type)
<1>1. chain \in Seq(Nat) /\ fs = Geometry
  BY Chains DEF InDrive
<1>2. s.cluster \in 2..MaxCluster(fs.type) /\ HasEntry(vol, fs.type, s.cluster)
  BY <1>1, Chains DEF InDrive
<1>3. s.cluster \in Nat /\ ~(s.cluster > MaxCluster(fs.type)) /\ s.fb \in Buffer
  <2>1. PICK m \in Nat : m = MaxCluster(fs.type)
    <3>1. fs.type \in {12, 16, 32}
      BY Driven
    <3> QED
      BY ONLY <3>1, Limits
  <2>2. PICK k \in Nat : k = s.cluster
    BY DEF Ways
  <2>3. k \in 2..m
    BY <1>2, <2>1, <2>2
  <2> QED
    BY <2>1, <2>2, <2>3 DEF Ways
<1>4. Held(n.fb) /\ n.cluster = FatEntry(s.cluster)
  <2>1. CASE fs.type = 12
    BY <1>2, <1>3, <2>1, HopReads12
  <2>2. CASE fs.type # 12
    BY <1>2, <1>3, <2>2, HopReadsWide
  <2> QED
    BY <2>1, <2>2
<1> HIDE DEF n
<1>5. Hop(s, bad) = [fb |-> n.fb, cluster |-> n.cluster, end |-> n.cluster > limit]
  BY <1>3 DEF Hop, n
<1>6. ASSUME i < Len(chain)
      PROVE  n.cluster = chain[i + 1] /\ (n.cluster > limit) = FALSE
  <2>1. FatEntry(s.cluster) = chain[i + 1]
    <3>1. i # Len(chain)
      BY <1>1, <1>6
    <3> QED
      BY <3>1, EntryFollows
  <2>2. i + 1 \in 1..Len(chain)
    BY <1>1, <1>6
  <2>3. PICK k : k = chain[i + 1]
    OBVIOUS
  <2>4. k \in 2..MaxCluster(fs.type)
    BY <1>1, <2>2, <2>3, Chains DEF InDrive
  <2>5. MaxCluster(fs.type) \in Nat /\ limit \in Nat /\ MaxCluster(fs.type) <= limit
    <3>1. fs.type \in {12, 16, 32}
      BY Driven
    <3>2. CASE fs.type = 12
      BY <3>2, Limits
    <3>3. CASE fs.type # 12
      BY <3>1, <3>3, Limits
    <3> QED
      BY <3>2, <3>3
  <2> HIDE DEF limit
  <2>6. k \in Nat /\ ~(k > limit)
    BY <2>4, <2>5
  <2> QED
    BY <1>4, <2>1, <2>3, <2>6
<1>7. Hop(s, bad).fb = n.fb
  BY <1>5
<1>8. ASSUME i < Len(chain)
      PROVE  Hop(s, bad).cluster = chain[i + 1] /\ Hop(s, bad).end = FALSE
  <2>1. Hop(s, bad) = [fb |-> n.fb, cluster |-> chain[i + 1], end |-> FALSE]
    BY <1>5, <1>6, <1>8
  <2> QED
    BY <2>1
<1> QED
  BY <1>4, <1>7, <1>8

LEMMA Followed ==
    ASSUME InDrive, NEW c \in DOMAIN vol.chains, NEW num \in Nat, num < Len(vol.chains[c]),
           NEW fb \in Buffer, Held(fb), NEW bad, bad = {}
    PROVE  LET r == GetNextCluster(fb, c, num, bad)
           IN  Held(r.fb) /\ r.cluster = vol.chains[c][num + 1] /\ r.end = FALSE
<1> DEFINE chain == vol.chains[c]
<1>1. chain \in Seq(Nat) /\ chain[1] = c /\ 1 \in 1..Len(chain) /\ c \in Nat
  BY Chains DEF InDrive
<1>7. PICK f : IsWay(f, fb, c, num, bad)
  BY <1>1, ChainFollowed
<1>2. /\ f \in [0..num -> Ways]
      /\ f[0] = [fb |-> fb, cluster |-> c, end |-> FALSE]
      /\ \A i \in 0..(num - 1) : f[i + 1] = Hop(f[i], bad)
      /\ GetNextCluster(fb, c, num, bad) = f[num]
  BY <1>7 DEF IsWay
<1> DEFINE P == {i \in Nat : i \in 0..num => Held(f[i].fb) /\ f[i].cluster = chain[i + 1] /\ f[i].end = FALSE}
<1>3. 0 \in P
  BY <1>1, <1>2
<1>4. ASSUME NEW i \in Nat, i \in P
      PROVE  i + 1 \in P
  <2> DEFINE Q == Held(f[i + 1].fb) /\ f[i + 1].cluster = chain[(i + 1) + 1] /\ f[i + 1].end = FALSE
  <2>0. i + 1 \in Nat
    OBVIOUS
  <2>1. SUFFICES ASSUME i + 1 \in 0..num
                 PROVE  Q
    BY <2>0, Zenon
  <2>2. i \in 0..num /\ i \in 0..(num - 1) /\ i + 1 \in 1..Len(chain) /\ i + 1 < Len(chain)
    BY <1>1, <2>1
  <2>3. PICK s \in Ways : s = f[i]
    BY <1>2, <2>2
  <2>4. Held(s.fb) /\ s.cluster = chain[i + 1] /\ s.end = FALSE
    BY <1>4, <2>2, <2>3
  <2>5. Held(Hop(s, bad).fb) /\ Hop(s, bad).cluster = chain[(i + 1) + 1] /\ Hop(s, bad).end = FALSE
    BY <2>2, <2>4, HopRight
  <2>6. f[i + 1] = Hop(s, bad)
    BY <1>2, <2>2, <2>3
  <2> QED
    BY <2>5, <2>6
<1> HIDE DEF P
<1>5. Nat \subseteq P
  BY <1>3, <1>4, Induct
<1>6. num \in P /\ num \in 0..num
  BY <1>5
<1> QED
  BY <1>2, <1>6 DEF P

LEMMA OneFurther ==
    ASSUME InDrive, NEW c \in DOMAIN vol.chains, NEW i \in 1..Len(vol.chains[c]),
           NEW fb \in Buffer, Held(fb), NEW bad, bad = {}
    PROVE  LET r == GetNextCluster(fb, vol.chains[c][i], 1, bad)
           IN  /\ Held(r.fb)
               /\ i < Len(vol.chains[c]) => r.cluster = vol.chains[c][i + 1] /\ r.end = FALSE
<1> DEFINE k == vol.chains[c][i]
<1>1. k \in Nat
  BY Chains DEF InDrive
<1> HIDE DEF k
<1>7. PICK f : IsWay(f, fb, k, 1, bad)
  BY <1>1, ChainFollowed
<1>2. f[0] \in Ways /\ f[0] = [fb |-> fb, cluster |-> k, end |-> FALSE]
      /\ f[0 + 1] = Hop(f[0], bad) /\ GetNextCluster(fb, k, 1, bad) = f[1]
  <2>1. 0 \in 0..1 /\ 0 \in 0..(1 - 1)
    OBVIOUS
  <2> QED
    BY <1>7, <2>1 DEF IsWay
<1>3. PICK s \in Ways : s = f[0]
  BY <1>2
<1>4. Held(s.fb) /\ s.cluster = vol.chains[c][i] /\ s.end = FALSE
  BY <1>2, <1>3 DEF k
<1>5. f[1] = Hop(s, bad)
  BY <1>2, <1>3
<1>6. /\ Held(Hop(s, bad).fb)
      /\ i < Len(vol.chains[c]) => Hop(s, bad).cluster = vol.chains[c][i + 1] /\ Hop(s, bad).end = FALSE
  BY <1>4, HopRight
<1> QED
  BY <1>2, <1>5, <1>6 DEF k

-----------------------------------------------------------------------------
(* One part of a block.                                                    *)

Parts == [at : Ways, db : Buffer, cursor : Nat, data : Seq(Int \X Int), blocks : Nat,
          left : Nat, offs : Nat, short : BOOLEAN]

LEMMA Copies ==
    ASSUME NEW db, db.holds \in Int, NEW offs \in Nat, NEW n \in Nat
    PROVE  Copied(db, offs, n) \in Seq(Int \X Int) /\ Len(Copied(db, offs, n)) = n
           /\ \A j \in 1..n : Copied(db, offs, n)[j] = <<db.holds, offs + j - 1>>
<1>1. Copied(db, offs, n) = [i \in 1..n |-> <<db.holds, offs + i - 1>>]
  BY DEF Copied
<1>2. \A i \in 1..n : <<db.holds, offs + i - 1>> \in Int \X Int
  OBVIOUS
<1> QED
  BY <1>1, <1>2

LEMMA Joined ==
    ASSUME NEW S, NEW s \in Seq(S), NEW t \in Seq(S)
    PROVE  /\ s \o t \in Seq(S) /\ Len(s \o t) = Len(s) + Len(t)
           /\ \A j \in 1..Len(s) : (s \o t)[j] = s[j]
           /\ \A j \in (Len(s) + 1)..(Len(s) + Len(t)) : (s \o t)[j] = t[j - Len(s)]
OBVIOUS

MinOf(a, b, n) == n \in {a, b} /\ n <= a /\ n <= b

LEMMA MinTwo ==
    ASSUME NEW a \in Nat, NEW b \in Nat
    PROVE  MinOf(a, b, Min({a, b})) /\ Min({a, b}) \in Nat
<1>1. PICK S : S = {a, b}
  OBVIOUS
<1>2. S \subseteq Nat /\ S # {}
  BY <1>1
<1>3. Min(S) \in S /\ \A x \in S : Min(S) <= x
  BY <1>2, MinIn
<1> QED
  BY <1>1, <1>3 DEF MinOf

LEMMA SectorIsNumber ==
    ASSUME InDrive, NEW cluster \in Nat
    PROVE  ClusterToSector(cluster) \in Nat
<1>1. PICK root \in Nat : root = IF fs.type = 32 THEN 0 ELSE fs.root_sector_count
  BY Driven
<1>2. ClusterToSector(cluster) = ((cluster - 2) * 1 + fs.data_area_begin + root) % Word
  BY <1>1, Driven DEF ClusterToSector
<1>3. (cluster - 2) * 1 + fs.data_area_begin + root \in Int
  BY Driven
<1>4. PICK n \in Int : n = (cluster - 2) * 1 + fs.data_area_begin + root
  BY <1>3
<1>5. n % Word \in Nat
  BY Sizes
<1> QED
  BY <1>2, <1>4, <1>5

(* What one turn of fat_file_read's inner loop does: n bytes copied.       *)
ChunkIs(s, r, n, bad) ==
    /\ n \in 1..s.left /\ n <= SectorSize - s.offs
    /\ r.db = ReadCluster(s.db, s.at.cluster, bad)
    /\ r.data = s.data \o Copied(r.db, s.offs, n)
    /\ r.cursor = s.cursor + n /\ r.left = s.left - n /\ r.blocks = s.blocks /\ r.short = s.short
    /\ s.offs + n < SectorSize => r.left = 0 /\ r.at = s.at
    /\ s.offs + n = SectorSize => r.offs = 0 /\ r.at = GetNextCluster(s.at.fb, s.at.cluster, 1, bad)

LEMMA ChunkTaken ==
    ASSUME InDrive, NEW s \in Parts, s.left > 0, s.offs < SectorSize, NEW bad, NEW r, r = Chunk(s, bad)
    PROVE  r \in Parts /\ \E n : ChunkIs(s, r, n, bad)
<1>1. PICK room \in Nat : room = SectorSize - s.offs /\ room > 0
  BY Sizes DEF Parts
<1>2. PICK left \in Nat : left = s.left /\ left > 0
  BY DEF Parts
<1>3. PICK n \in Nat : n = Min({room, left}) /\ MinOf(room, left, n)
  BY MinTwo
<1>4. n \in 1..left /\ n <= room /\ (n = room \/ n = left)
  BY <1>1, <1>2, <1>3 DEF MinOf
<1>5. PICK db : db = ReadCluster(s.db, s.at.cluster, bad)
  OBVIOUS
<1>6. db \in Buffer /\ db.holds \in Int
  <2>1. s.at.cluster \in Nat /\ s.db \in Buffer
    BY DEF Parts, Ways
  <2>2. ClusterToSector(s.at.cluster) \in Nat
    BY <2>1, SectorIsNumber
  <2>3. db \in Buffer
    BY <1>5, <2>1, <2>2, Filled, Driven DEF ReadCluster
  <2> QED
    BY <2>3, Driven DEF Buffer, None
<1>7. PICK data : data = s.data \o Copied(db, s.offs, n)
  OBVIOUS
<1>8. data \in Seq(Int \X Int)
  <2>1. s.offs \in Nat /\ s.data \in Seq(Int \X Int)
    BY DEF Parts
  <2>2. Copied(db, s.offs, n) \in Seq(Int \X Int)
    BY <1>6, <2>1, Copies
  <2> QED
    BY <1>7, <2>1, <2>2, Joined
<1>9. PICK next : next = GetNextCluster(s.at.fb, s.at.cluster, 1, bad)
  OBVIOUS
<1>10. next \in Ways
  BY <1>9, NextInRange DEF Parts, Ways
<1>11. PICK copied : copied = [s EXCEPT !.db = db, !.data = data, !.cursor = s.cursor + n, !.left = left - n]
  OBVIOUS
<1>12. r = IF room > left THEN copied ELSE [copied EXCEPT !.offs = 0, !.at = next]
  <2>1. fs.cluster_size - s.offs = room
    BY <1>1, Driven
  <2>2. s.left # 0 /\ s.left = left
    BY <1>2
  <2>3. copied.at = s.at
    BY <1>11 DEF Parts
  <2>4. Chunk(s, bad) =
           IF Stays(room, left)
           THEN [s EXCEPT !.db = ReadCluster(s.db, s.at.cluster, bad),
                          !.data = s.data \o Copied(ReadCluster(s.db, s.at.cluster, bad), s.offs, Min({room, left})),
                          !.cursor = s.cursor + Min({room, left}), !.left = left - Min({room, left})]
           ELSE [[s EXCEPT !.db = ReadCluster(s.db, s.at.cluster, bad),
                           !.data = s.data \o Copied(ReadCluster(s.db, s.at.cluster, bad), s.offs, Min({room, left})),
                           !.cursor = s.cursor + Min({room, left}), !.left = left - Min({room, left})]
                 EXCEPT !.offs = 0, !.at = GetNextCluster(@.fb, @.cluster, 1, bad)]
    BY <2>1, <2>2 DEF Chunk
  <2>5. Chunk(s, bad) = IF Stays(room, left) THEN copied
                        ELSE [copied EXCEPT !.offs = 0, !.at = GetNextCluster(@.fb, @.cluster, 1, bad)]
    BY <1>3, <1>5, <1>7, <1>11, <2>4
  <2> QED
    BY <1>9, <2>3, <2>5 DEF Stays
<1>13. left - n \in Nat /\ s.cursor \in Nat /\ s.cursor + n \in Nat
  BY <1>4 DEF Parts
<1>14. /\ copied \in Parts
       /\ copied.db = db /\ copied.data = data /\ copied.cursor = s.cursor + n /\ copied.left = left - n
       /\ copied.blocks = s.blocks /\ copied.short = s.short /\ copied.at = s.at
  BY <1>6, <1>8, <1>11, <1>13 DEF Parts
<1>15. CASE room > left
  <2>1. r = copied
    BY <1>12, <1>15
  <2>2. s.offs + n < SectorSize /\ left - n = 0
    BY <1>1, <1>2, <1>4, <1>15, Sizes DEF Parts
  <2>3. ~(s.offs + n = SectorSize)
    <3>1. s.offs + n \in Nat
      BY DEF Parts
    <3> QED
      BY <2>2, <3>1, Sizes
  <2>4. ChunkIs(s, r, n, bad)
    BY <1>1, <1>2, <1>4, <1>5, <1>7, <1>14, <2>1, <2>2, <2>3 DEF ChunkIs
  <2> QED
    BY <1>14, <2>1, <2>4
<1>16. CASE ~(room > left)
  <2>1. r = [copied EXCEPT !.offs = 0, !.at = next]
    BY <1>12, <1>16
  <2>2. /\ r \in Parts /\ r.offs = 0 /\ r.at = next
        /\ r.db = db /\ r.data = data /\ r.cursor = s.cursor + n /\ r.left = left - n
        /\ r.blocks = s.blocks /\ r.short = s.short
    <3>1. r \in Parts
      <4>1. copied = [at |-> s.at, db |-> db, cursor |-> s.cursor + n, data |-> data, blocks |-> s.blocks,
                      left |-> left - n, offs |-> s.offs, short |-> s.short]
        BY <1>11 DEF Parts
      <4>2. r = [at |-> next, db |-> db, cursor |-> s.cursor + n, data |-> data, blocks |-> s.blocks,
                 left |-> left - n, offs |-> 0, short |-> s.short]
        BY <2>1, <4>1
      <4>3. s.blocks \in Nat /\ s.short \in BOOLEAN
        BY DEF Parts
      <4> QED
        BY <1>6, <1>8, <1>10, <1>13, <4>2, <4>3 DEF Parts
    <3>2. /\ r.db = copied.db /\ r.data = copied.data /\ r.cursor = copied.cursor
          /\ r.left = copied.left /\ r.blocks = copied.blocks /\ r.short = copied.short
      BY <1>14, <2>1 DEF Parts
    <3>3. r.offs = 0 /\ r.at = next
      BY <1>14, <2>1 DEF Parts
    <3> QED
      BY <1>14, <3>1, <3>2, <3>3
  <2>3. s.offs + n = SectorSize
    BY <1>1, <1>2, <1>4, <1>16, Sizes DEF Parts
  <2>4. ~(s.offs + n < SectorSize)
    BY <2>3, Sizes
  <2>5. ChunkIs(s, r, n, bad)
    BY <1>1, <1>2, <1>4, <1>5, <1>7, <1>9, <2>2, <2>3, <2>4 DEF ChunkIs
  <2> QED
    BY <2>2, <2>5
<1> QED
  BY <1>15, <1>16

-----------------------------------------------------------------------------
(* A read at position p of file f, under way.  Its bytes are right if it   *)
(* is clean: no sector fails, and the caches hold what they claim.         *)

Readable(f) ==
    f.size \in Nat /\ f.head \in DOMAIN vol.chains /\ f.size <= Len(vol.chains[f.head]) * SectorSize

AtRight(f, s) ==
    s.cursor < Len(vol.chains[f.head]) * SectorSize =>
        s.at.cluster = vol.chains[f.head][s.cursor \div SectorSize + 1] /\ s.at.end = FALSE

DataRight(f, p, s) == \A j \in 1..Len(s.data) : s.data[j] = BytesOf(f)[p + j]

Right(f, p, s) == Held(s.db) /\ Held(s.at.fb) /\ AtRight(f, s) /\ DataRight(f, p, s)

Reads(f, p, clean) ==
    {s \in Parts : /\ p <= s.cursor /\ s.cursor + s.left <= f.size /\ Len(s.data) = s.cursor - p
                   /\ s.left > 0 => s.offs = s.cursor % SectorSize
                   /\ clean => Right(f, p, s)}

LEMMA ByteIs ==
    ASSUME InDrive, NEW f, Readable(f), NEW q \in Nat, NEW r \in Nat, r < SectorSize,
           NEW k \in 1..f.size, k - 1 = q * SectorSize + r
    PROVE  /\ q + 1 \in 1..Len(vol.chains[f.head])
           /\ BytesOf(f)[k] = <<SectorAt(vol, vol.chains[f.head][q + 1]), r>>
<1> DEFINE chain == vol.chains[f.head]
<1>1. chain \in Seq(Nat) /\ f.size \in Nat /\ f.size <= Len(chain) * SectorSize
  BY Chains DEF Readable, InDrive
<1>2. PICK len \in Nat : len = Len(chain)
  BY <1>1
<1>3. q < len
  <2>1. PICK a \in Nat, z \in Nat : a = q * SectorSize /\ z = len * SectorSize
    BY Sizes
  <2>2. k - 1 = a + r /\ f.size <= z
    BY <1>1, <1>2, <2>1
  <2>3. a < z
    BY <1>1, <2>2
  <2>4. q * SectorSize < len * SectorSize
    BY <2>1, <2>3
  <2> QED
    BY <2>4, Below, Sizes
<1>4. q + 1 \in 1..Len(chain)
  BY <1>2, <1>3
<1>5. (k - 1) \div SectorSize = q /\ (k - 1) % SectorSize = r
  <2>1. r \in 0..(SectorSize - 1) /\ SectorSize \in Nat \ {0}
    BY Sizes
  <2>2. (q * SectorSize + r) \div SectorSize = q /\ (q * SectorSize + r) % SectorSize = r
    BY ONLY <2>1, q \in Nat, Split
  <2> QED
    BY <2>2, Zenon
<1>6. SectorSize * vol.sectors_per_cluster = SectorSize
  BY Driven, Sizes
<1>7. BytesOf(f) = [i \in 1..f.size |->
                      <<SectorAt(vol, chain[(i - 1) \div SectorSize + 1]) + ((i - 1) % SectorSize) \div SectorSize,
                        ((i - 1) % SectorSize) % SectorSize>>]
  BY <1>6 DEF BytesOf
<1>8. BytesOf(f)[k] = <<SectorAt(vol, chain[q + 1]) + r \div SectorSize, r % SectorSize>>
  BY <1>5, <1>7
<1>9. r \div SectorSize = 0 /\ r % SectorSize = r
  BY Sizes
<1>10. SectorAt(vol, chain[q + 1]) + 0 = SectorAt(vol, chain[q + 1])
  <2>1. PICK c \in Nat : c = chain[q + 1]
    BY <1>1, <1>4
  <2>2. SectorAt(vol, c) = vol.first_data + (c - 2) * 1
    BY Driven DEF SectorAt
  <2>3. SectorAt(vol, c) \in Int
    BY <2>2, Driven
  <2> QED
    BY <2>1, <2>3
<1>11. BytesOf(f)[k] = <<SectorAt(vol, chain[q + 1]), r>>
  BY <1>8, <1>9, <1>10, Zenon
<1> QED
  BY <1>4, <1>11

(* The turn keeps what is read right.                                      *)
LEMMA ChunkRight ==
    ASSUME InDrive, NEW f, Readable(f), NEW p \in Nat, NEW bad, bad = {},
           NEW s \in Reads(f, p, TRUE), s.left > 0, s.offs < SectorSize,
           NEW r \in Parts, NEW n, ChunkIs(s, r, n, bad)
    PROVE  Right(f, p, r)
<1> DEFINE chain == vol.chains[f.head]
<1>1. /\ s \in Parts /\ p <= s.cursor /\ s.cursor + s.left <= f.size /\ Len(s.data) = s.cursor - p
      /\ s.offs = s.cursor % SectorSize /\ Right(f, p, s)
  BY DEF Reads
<1>2. PICK c \in Nat, o \in Nat, left \in Nat : c = s.cursor /\ o = s.offs /\ left = s.left
  BY <1>1 DEF Parts
<1>3. SectorSize \in Nat \ {0}
  BY Sizes
<1>20. PICK len \in Nat : len = Len(chain)
  BY Chains DEF Readable, InDrive
<1>4. PICK q \in Nat : q = c \div SectorSize
  BY <1>2, <1>3, DivMod
<1>5. c = q * SectorSize + o
  <2>1. c = (c \div SectorSize) * SectorSize + (c % SectorSize)
    BY <1>2, <1>3, DivMod
  <2> QED
    BY <1>1, <1>2, <1>4, <2>1, Zenon
<1>6. /\ n \in 1..left /\ n <= SectorSize - o /\ c + left <= f.size
      /\ n \in Nat /\ f.size \in Nat
  BY <1>1, <1>2 DEF ChunkIs, Readable
<1>7. PICK a \in Nat : a = q * SectorSize
  BY <1>3
<1>8. c = a + o
  BY <1>5, <1>7
<1>9. q + 1 \in 1..len
  <2>1. c + 1 \in 1..f.size /\ (c + 1) - 1 = q * SectorSize + o /\ o < SectorSize
    BY <1>2, <1>5, <1>6
  <2> QED
    BY <1>2, <1>20, <2>1, ByteIs
<1>10. s.cursor < len * SectorSize
  <2>1. PICK z \in Nat : z = len * SectorSize
    BY <1>3
  <2>2. f.size <= z
    BY <1>20, <2>1 DEF Readable
  <2>3. c < z
    BY <1>6, <2>2
  <2> QED
    BY <1>2, <2>1, <2>3
<1>11. s.at.cluster = chain[q + 1] /\ s.at.end = FALSE
  BY <1>1, <1>2, <1>4, <1>10, <1>20 DEF Right, AtRight
<1>12. PICK k \in Nat : k = chain[q + 1] /\ k >= 2 /\ SectorAt(vol, k) < vol.total
  <2>1. chain[q + 1] \in 2..MaxCluster(Geometry.type) /\ SectorAt(vol, chain[q + 1]) < vol.total
    BY <1>9, <1>20, Chains DEF Readable, InDrive
  <2>2. MaxCluster(Geometry.type) \in Nat
    BY Driven, Limits DEF InDrive
  <2> QED
    BY <2>1, <2>2
<1>13. ClusterToSector(k) = SectorAt(vol, k) /\ SectorAt(vol, k) \in Sectors
  BY <1>12, ClusterLocated
<1>14. r.db = Fill(s.db, SectorAt(vol, k), bad)
  BY <1>11, <1>12, <1>13 DEF ChunkIs, ReadCluster
<1>15. Held(r.db) /\ r.db.holds = SectorAt(vol, k)
  BY <1>1, <1>13, <1>14, FilledRight, Driven DEF Right
<1>16. DataRight(f, p, r)
  <2>1. PICK db : db = r.db
    OBVIOUS
  <2>2. db.holds = SectorAt(vol, k) /\ db.holds \in Int
    <3>1. r.db \in Buffer
      BY DEF Parts
    <3> QED
      BY <1>15, <2>1, <3>1, Driven DEF Buffer, None
  <2>3. PICK t : t = Copied(db, o, n)
    OBVIOUS
  <2>4. t \in Seq(Int \X Int) /\ Len(t) = n /\ \A i \in 1..n : t[i] = <<db.holds, o + i - 1>>
    <3>1. db.holds \in Int /\ n \in Nat /\ o \in Nat
      BY <1>6, <2>2
    <3>2. /\ Copied(db, o, n) \in Seq(Int \X Int) /\ Len(Copied(db, o, n)) = n
          /\ \A i \in 1..n : Copied(db, o, n)[i] = <<db.holds, o + i - 1>>
      BY ONLY <3>1, Copies, Zenon
    <3> QED
      BY <2>2, <2>3, <3>2, Zenon
  <2>5. s.data \in Seq(Int \X Int) /\ Len(s.data) = c - p
    BY <1>1, <1>2 DEF Parts
  <2>6. PICK m \in Nat : m = Len(s.data) /\ c = p + m
    BY <1>1, <1>2, <2>5
  <2>7. PICK d : d = s.data
    OBVIOUS
  <2>8. r.data = d \o t
    BY <1>2, <2>1, <2>3, <2>7 DEF ChunkIs
  <2>9. /\ Len(d \o t) = m + n /\ \A j \in 1..m : (d \o t)[j] = d[j]
        /\ \A j \in (m + 1)..(m + n) : (d \o t)[j] = t[j - m]
    <3>1. d \in Seq(Int \X Int) /\ t \in Seq(Int \X Int) /\ Len(d) = m /\ Len(t) = n
      BY <2>4, <2>5, <2>6, <2>7
    <3>2. /\ Len(d \o t) = Len(d) + Len(t) /\ \A j \in 1..Len(d) : (d \o t)[j] = d[j]
          /\ \A j \in (Len(d) + 1)..(Len(d) + Len(t)) : (d \o t)[j] = t[j - Len(d)]
      BY <3>1, Joined
    <3> QED
      BY <3>1, <3>2, Zenon
  <2>10. ASSUME NEW j \in 1..(m + n)
         PROVE  (d \o t)[j] = BytesOf(f)[p + j]
    <3>1. CASE j <= m
      <4>1. j \in 1..m
        BY <3>1
      <4>2. d[j] = BytesOf(f)[p + j]
        BY <1>1, <2>6, <2>7, <4>1 DEF Right, DataRight
      <4> QED
        BY <2>9, <4>1, <4>2
    <3>2. CASE j > m
      <4>1. PICK i \in 1..n : i = j - m
        BY <1>6, <3>2
      <4>2. p + j = c + i /\ j \in (m + 1)..(m + n)
        <5>1. j \in Nat /\ j = m + i /\ c = p + m
          BY <2>6, <4>1
        <5> QED
          BY <3>2, <5>1
      <4>3. t[i] = <<SectorAt(vol, k), o + i - 1>>
        BY <2>2, <2>4
      <4>4. /\ o + i - 1 \in Nat /\ o + i - 1 < SectorSize /\ c + i \in 1..f.size
            /\ (c + i) - 1 = a + (o + i - 1)
        BY <1>3, <1>6, <1>8
      <4>5. (c + i) - 1 = q * SectorSize + (o + i - 1)
        BY <1>7, <4>4
      <4>6. BytesOf(f)[c + i] = <<SectorAt(vol, chain[q + 1]), o + i - 1>>
        BY <4>4, <4>5, ByteIs
      <4>7. (d \o t)[j] = t[i]
        BY <2>9, <4>1, <4>2
      <4> QED
        BY <1>12, <4>2, <4>3, <4>6, <4>7
    <3>3. j <= m \/ j > m
      BY <1>6
    <3> QED
      BY <3>1, <3>2, <3>3
  <2> QED
    BY <2>8, <2>9, <2>10 DEF DataRight
<1>17. r.cursor = c + n
  BY <1>2 DEF ChunkIs
<1>18. s.at.fb \in Buffer /\ Held(s.at.fb)
  BY <1>1 DEF Parts, Ways, Right
<1>19. Held(r.at.fb) /\ AtRight(f, r)
  <2>1. CASE o + n < SectorSize
    <3>1. r.at = s.at
      BY <1>2, <2>1 DEF ChunkIs
    <3>2. r.cursor = q * SectorSize + (o + n) /\ o + n \in 0..(SectorSize - 1)
      <4>1. r.cursor = a + (o + n)
        BY <1>6, <1>8, <1>17
      <4> QED
        BY <1>3, <1>6, <1>7, <2>1, <4>1
    <3>3. r.cursor \div SectorSize = q
      <4>1. (q * SectorSize + (o + n)) \div SectorSize = q
        BY ONLY <1>3, <3>2, q \in Nat, Split
      <4> QED
        BY <3>2, <4>1, Zenon
    <3> QED
      BY <1>11, <1>18, <3>1, <3>3 DEF AtRight
  <2>2. CASE o + n = SectorSize
    <3>1. r.at = GetNextCluster(s.at.fb, chain[q + 1], 1, bad)
      BY <1>2, <1>11, <2>2 DEF ChunkIs
    <3>2. /\ Held(r.at.fb)
          /\ q + 1 < len => r.at.cluster = chain[(q + 1) + 1] /\ r.at.end = FALSE
      <4>1. PICK i : i = q + 1
        OBVIOUS
      <4>2. i \in 1..Len(vol.chains[f.head]) /\ f.head \in DOMAIN vol.chains
        BY <1>9, <1>20, <4>1 DEF Readable
      <4>3. r.at = GetNextCluster(s.at.fb, vol.chains[f.head][i], 1, bad)
        BY <3>1, <4>1
      <4>4. /\ Held(r.at.fb)
            /\ i < Len(vol.chains[f.head]) => r.at.cluster = vol.chains[f.head][i + 1] /\ r.at.end = FALSE
        <5>1. PICK fb \in Buffer, c1 \in DOMAIN vol.chains : fb = s.at.fb /\ c1 = f.head
          BY <1>18, <4>2
        <5>2. c1 \in DOMAIN vol.chains /\ i \in 1..Len(vol.chains[c1]) /\ Held(fb)
          BY <1>18, <4>2, <5>1
        <5>3. /\ Held(GetNextCluster(fb, vol.chains[c1][i], 1, bad).fb)
              /\ i < Len(vol.chains[c1]) =>
                    /\ GetNextCluster(fb, vol.chains[c1][i], 1, bad).cluster = vol.chains[c1][i + 1]
                    /\ GetNextCluster(fb, vol.chains[c1][i], 1, bad).end = FALSE
          BY <5>2, OneFurther
        <5> QED
          BY <4>3, <5>1, <5>3
      <4> QED
        BY <1>20, <4>1, <4>4
    <3>3. r.cursor = (q + 1) * SectorSize + 0
      <4>1. (q + 1) * SectorSize = a + SectorSize
        BY <1>3, <1>7
      <4> QED
        <5>1. PICK z \in Nat : z = (q + 1) * SectorSize
          BY <1>3
        <5>2. r.cursor = z
          BY <1>3, <1>6, <1>8, <1>17, <2>2, <4>1, <5>1
        <5> QED
          BY <5>1, <5>2
    <3>4. r.cursor \div SectorSize = q + 1
      <4>1. q + 1 \in Nat /\ 0 \in 0..(SectorSize - 1)
        BY <1>3
      <4>2. ((q + 1) * SectorSize + 0) \div SectorSize = q + 1
        BY ONLY <1>3, <4>1, Split
      <4> QED
        BY <3>3, <4>2, Zenon
    <3>5. ASSUME r.cursor < len * SectorSize
          PROVE  q + 1 < len
      <4>1. (q + 1) * SectorSize < len * SectorSize
        <5>1. PICK z \in Nat : z = (q + 1) * SectorSize
          BY <1>3
        <5>2. r.cursor = z
          BY <3>3, <5>1
        <5> QED
          BY <3>5, <5>1, <5>2
      <4>2. q + 1 \in Nat
        OBVIOUS
      <4> QED
        BY ONLY <1>3, <4>1, <4>2, len \in Nat, Below
    <3> QED
      BY <1>20, <3>2, <3>4, <3>5 DEF AtRight
  <2>3. o + n < SectorSize \/ o + n = SectorSize
    BY <1>3, <1>6
  <2> QED
    BY <2>1, <2>2, <2>3
<1> QED
  BY <1>15, <1>16, <1>19 DEF Right

(* And keeps count.                                                        *)
LEMMA ChunkKeeps ==
    ASSUME InDrive, NEW f, Readable(f), NEW p \in Nat, NEW clean \in BOOLEAN, NEW bad, clean => bad = {},
           NEW s \in Reads(f, p, clean), NEW r, r = Chunk(s, bad)
    PROVE  /\ r \in Reads(f, p, clean)
           /\ r.cursor + r.left = s.cursor + s.left /\ r.blocks = s.blocks /\ r.short = s.short
           /\ s.left = 0 => r = s
           /\ s.left > 0 => /\ r.left < s.left
                            /\ r.left > 0 => r.offs = 0 /\ (s.offs = 0 => r.left = s.left - SectorSize)
<1>1. /\ s \in Parts /\ p <= s.cursor /\ s.cursor + s.left <= f.size /\ Len(s.data) = s.cursor - p
      /\ s.left > 0 => s.offs = s.cursor % SectorSize
      /\ clean => Right(f, p, s)
  BY DEF Reads
<1>2. s.cursor \in Nat /\ s.left \in Nat /\ s.offs \in Nat /\ s.data \in Seq(Int \X Int)
  BY <1>1 DEF Parts
<1>3. CASE s.left = 0
  <2>1. r = s
    BY <1>3 DEF Chunk
  <2> QED
    BY <1>2, <1>3, <2>1
<1>4. CASE s.left # 0
  <2>1. s.left > 0
    BY <1>2, <1>4
  <2>2. SectorSize \in Nat \ {0} /\ s.offs = s.cursor % SectorSize
    BY <1>1, <2>1, Sizes
  <2>3. PICK c \in Nat, q \in Nat, o \in 0..(SectorSize - 1), left \in Nat :
           c = s.cursor /\ q = c \div SectorSize /\ o = s.offs /\ left = s.left
    <3>1. s.cursor \div SectorSize \in Nat /\ s.cursor % SectorSize \in 0..(SectorSize - 1)
      BY <1>2, <2>2, DivMod
    <3> QED
      BY <1>2, <2>2, <3>1
  <2>4. c = q * SectorSize + o
    <3>1. c = (c \div SectorSize) * SectorSize + (c % SectorSize)
      BY <2>2, DivMod
    <3> QED
      BY <2>2, <2>3, <3>1, Zenon
  <2>5. s.offs < SectorSize
    BY <2>2, <2>3
  <2>6. r \in Parts /\ \E n : ChunkIs(s, r, n, bad)
    BY <1>1, <2>1, <2>5, ChunkTaken
  <2>7. PICK n : ChunkIs(s, r, n, bad)
    BY <2>6
  <2>8. /\ n \in 1..left /\ n <= SectorSize - o /\ n \in Nat
        /\ r.cursor = c + n /\ r.left = left - n /\ r.blocks = s.blocks /\ r.short = s.short
        /\ o + n < SectorSize => r.left = 0
        /\ o + n = SectorSize => r.offs = 0
    BY <2>3, <2>7 DEF ChunkIs
  <2>9. o + n < SectorSize \/ o + n = SectorSize
    BY <2>2, <2>8
  <2>10. r.cursor + r.left = c + left /\ p <= r.cursor /\ r.left < left
    <3>1. p <= c /\ n \in Nat /\ n >= 1 /\ n <= left
      BY <1>1, <2>3, <2>8
    <3>2. p <= c + n /\ (c + n) + (left - n) = c + left /\ left - n < left
      BY <3>1
    <3> QED
      BY <2>8, <3>2
  <2>11. r.cursor + r.left <= f.size
    BY <1>1, <2>3, <2>10
  <2>12. Len(r.data) = r.cursor - p
    <3>1. PICK t : t = Copied(r.db, o, n)
      OBVIOUS
    <3>2. r.db.holds \in Int
      BY <2>6, Driven DEF Parts, Buffer, None
    <3>3. t \in Seq(Int \X Int) /\ Len(t) = n
      <4>1. n \in Nat /\ o \in Nat
        BY <2>2, <2>8
      <4> QED
        BY <3>1, <3>2, <4>1, Copies
    <3>4. r.data = s.data \o t
      BY <2>3, <2>7, <3>1 DEF ChunkIs
    <3>5. Len(r.data) = Len(s.data) + Len(t)
      BY <1>2, <3>3, <3>4, Joined
    <3> QED
      BY <1>1, <2>3, <2>8, <3>3, <3>5
  <2>13. ASSUME r.left > 0
         PROVE  r.offs = 0 /\ o + n = SectorSize /\ r.offs = r.cursor % SectorSize
    <3>1. o + n = SectorSize
      BY <2>8, <2>9, <2>13
    <3>2. r.cursor = (q + 1) * SectorSize + 0
      <4>1. PICK a \in Nat, z \in Nat : a = q * SectorSize /\ z = (q + 1) * SectorSize
        BY <2>2
      <4>2. z = a + SectorSize
        BY <2>2, <4>1
      <4>3. c = a + o
        BY <2>4, <4>1
      <4>4. r.cursor = z
        BY <2>2, <2>8, <3>1, <4>2, <4>3
      <4> QED
        BY <4>1, <4>4
    <3>3. r.cursor % SectorSize = 0
      <4>1. q + 1 \in Nat /\ 0 \in 0..(SectorSize - 1)
        BY <2>2
      <4>2. ((q + 1) * SectorSize + 0) % SectorSize = 0
        BY ONLY <2>2, <4>1, Split
      <4> QED
        BY <3>2, <4>2, Zenon
    <3> QED
      BY <2>8, <3>1, <3>3
  <2>14. ASSUME clean
         PROVE  Right(f, p, r)
    <3>1. clean = TRUE /\ bad = {} /\ s \in Reads(f, p, TRUE)
      BY <2>14
    <3> QED
      BY <2>1, <2>5, <2>6, <2>7, <3>1, ChunkRight
  <2>15. r \in Reads(f, p, clean)
    BY <2>6, <2>10, <2>11, <2>12, <2>13, <2>14 DEF Reads
  <2>16. ASSUME r.left > 0, s.offs = 0
         PROVE  r.left = s.left - SectorSize
    BY <2>2, <2>3, <2>8, <2>13, <2>16
  <2> QED
    BY <1>4, <2>3, <2>8, <2>10, <2>13, <2>15, <2>16
<1> QED
  BY <1>3, <1>4

(* The rows of the inner loop.                                             *)
IsBlock(g, s, num, bad) ==
    /\ g[0] = s
    /\ \A i \in 0..(num - 1) : g[i + 1] = Chunk(g[i], bad)
    /\ Iterate(LAMBDA t : Chunk(t, bad), s, num) = g[num]

LEMMA BlockFollowed ==
    ASSUME InDrive, NEW f, Readable(f), NEW p \in Nat, NEW clean \in BOOLEAN, NEW bad, clean => bad = {},
           NEW start \in Reads(f, p, clean), NEW num \in Nat
    PROVE  \E g \in [0..num -> Reads(f, p, clean)] : IsBlock(g, start, num, bad)
<1> DEFINE S == Reads(f, p, clean)
           step == [s \in S |-> Chunk(s, bad)]
           Row(g) == g = [i \in 0..num |-> IF i = 0 THEN start ELSE Chunk(g[i - 1], bad)]
<1>1. \A s \in S : Chunk(s, bad) \in S
  BY ChunkKeeps
<1> HIDE DEF S
<1>2. step \in [S -> S]
  BY <1>1
<1>3. \A s \in S : step[s] = Chunk(s, bad)
  OBVIOUS
<1>4. start \in S
  BY DEF S
<1> HIDE DEF step
<1>16. PICK g : IsOrbit(g, S, start, step, num)
  BY <1>2, <1>4, Iterates
<1>5. g \in [0..num -> S] /\ g = [i \in 0..num |-> IF i = 0 THEN start ELSE step[g[i - 1]]]
  BY <1>16 DEF IsOrbit
<1>6. ASSUME NEW i \in 0..num, i # 0
      PROVE  step[g[i - 1]] = Chunk(g[i - 1], bad)
  <2>1. i - 1 \in 0..num
    BY <1>6
  <2>2. g[i - 1] \in S
    BY <1>5, <2>1
  <2> QED
    BY <1>3, <2>2
<1>7. Row(g)
  BY <1>5, <1>6
<1>8. PICK h : h = CHOOSE k : Row(k)
  OBVIOUS
<1>9. Row(h)
  BY <1>7, <1>8
<1>10. Iterate(LAMBDA t : Chunk(t, bad), start, num) = h[num]
  BY <1>8 DEF Iterate
<1>11. h[0] = start /\ g[0] = start
  BY <1>7, <1>9
<1>12. \A i \in 0..(num - 1) : h[i + 1] = Chunk(h[i], bad) /\ g[i + 1] = Chunk(g[i], bad)
  BY <1>7, <1>9
<1>13. \A i \in 0..num : h[i] = g[i]
  <2>1. h[0] = g[0] /\ \A i \in 0..(num - 1) : h[i] = g[i] => h[i + 1] = g[i + 1]
    BY <1>11, <1>12
  <2> QED
    BY <2>1, SameSteps
<1>14. num \in 0..num
  OBVIOUS
<1>15. IsBlock(g, start, num, bad)
  BY <1>10, <1>11, <1>12, <1>13, <1>14 DEF IsBlock
<1> QED
  BY <1>5, <1>15 DEF S

(* A whole block, or the end of the file: the loop's turns are enough.     *)
BlockIs(f, s, r, size) ==
    IF s.short \/ s.cursor + size > f.size
    THEN r.short = TRUE /\ r.cursor = s.cursor /\ r.blocks = s.blocks
    ELSE r.short = FALSE /\ r.cursor = s.cursor + size /\ r.blocks = s.blocks + 1

LEMMA BlockKeeps ==
    ASSUME InDrive, NEW f, Readable(f), NEW p \in Nat, NEW clean \in BOOLEAN, NEW bad, clean => bad = {},
           NEW size \in Nat \ {0}, NEW s \in Reads(f, p, clean), s.left = 0, s.cursor + size < Word,
           NEW r, r = Block(s, f, size, bad)
    PROVE  r \in Reads(f, p, clean) /\ r.left = 0 /\ BlockIs(f, s, r, size)
<1>1. /\ s \in Parts /\ p <= s.cursor /\ s.cursor + s.left <= f.size /\ Len(s.data) = s.cursor - p
      /\ clean => Right(f, p, s)
  BY DEF Reads
<1>2. PICK c \in Nat : c = s.cursor
  BY <1>1 DEF Parts
<1>3. (c + size) % Word = c + size
  BY <1>2, Sizes
<1>4. CASE s.short \/ s.cursor + size > f.size
  <2>1. r = [s EXCEPT !.short = TRUE]
    BY <1>2, <1>3, <1>4 DEF Block
  <2>2. /\ r \in Parts /\ r.cursor = s.cursor /\ r.left = s.left /\ r.data = s.data /\ r.blocks = s.blocks
        /\ r.short = TRUE /\ r.db = s.db /\ r.at = s.at
    BY <1>1, <2>1 DEF Parts
  <2>3. clean => Right(f, p, r)
    BY <1>1, <2>2 DEF Right, AtRight, DataRight
  <2>4. r \in Reads(f, p, clean)
    BY <1>1, <2>2, <2>3 DEF Reads
  <2> QED
    BY <1>1, <1>4, <2>2, <2>4 DEF BlockIs
<1>5. CASE ~(s.short \/ s.cursor + size > f.size)
  <2>1. s.short = FALSE
    BY <1>1, <1>5 DEF Parts
  <2>2. PICK num \in Nat : num = size \div SectorSize + 2
    BY Sizes
  <2>3. PICK start : start = [s EXCEPT !.left = size, !.offs = c % SectorSize, !.blocks = s.blocks + 1]
    OBVIOUS
  <2>4. r = Iterate(LAMBDA t : Chunk(t, bad), start, num)
    <3>1. r = Iterate(LAMBDA t : Chunk(t, bad),
                      [s EXCEPT !.left = size, !.offs = s.cursor % fs.cluster_size, !.blocks = @ + 1],
                      size \div fs.cluster_size + 2)
      BY <1>2, <1>3, <1>5 DEF Block
    <3> QED
      BY <1>2, <2>2, <2>3, <3>1, Driven
  <2>5. /\ start \in Parts /\ start.cursor = c /\ start.left = size /\ start.data = s.data
        /\ start.blocks = s.blocks + 1 /\ start.short = FALSE /\ start.db = s.db /\ start.at = s.at
        /\ start.offs = c % SectorSize
    <3>1. c % SectorSize \in Nat
      BY Sizes
    <3>2. start = [at |-> s.at, db |-> s.db, cursor |-> s.cursor, data |-> s.data, blocks |-> s.blocks + 1,
                   left |-> size, offs |-> c % SectorSize, short |-> s.short]
      BY <1>1, <2>3 DEF Parts
    <3>3. /\ s.at \in Ways /\ s.db \in Buffer /\ s.cursor \in Nat /\ s.data \in Seq(Int \X Int)
          /\ s.blocks + 1 \in Nat /\ s.short \in BOOLEAN
      BY <1>1 DEF Parts
    <3>4. start \in Parts
      BY <3>1, <3>2, <3>3 DEF Parts
    <3> QED
      BY <1>2, <2>1, <3>2, <3>4
  <2>6. clean => Right(f, p, start)
    BY <1>1, <1>2, <2>5 DEF Right, AtRight, DataRight
  <2>7. start \in Reads(f, p, clean)
    <3>1. start.cursor + start.left <= f.size
      BY <1>2, <1>5, <2>5 DEF Readable
    <3> QED
      BY <1>1, <1>2, <2>5, <2>6, <3>1 DEF Reads
  <2>8. PICK g \in [0..num -> Reads(f, p, clean)] : IsBlock(g, start, num, bad)
    BY <2>7, BlockFollowed
  <2>9. g[0] = start /\ r = g[num] /\ \A i \in 0..(num - 1) : g[i + 1] = Chunk(g[i], bad)
    BY <2>4, <2>8 DEF IsBlock
  <2> DEFINE Far(i) == i >= 1 => \/ g[i].left = 0
                                 \/ g[i].offs = 0 /\ size - g[i].left > (i - 1) * SectorSize
             Going(i) == /\ g[i].cursor + g[i].left = c + size /\ g[i].blocks = s.blocks + 1
                         /\ g[i].short = FALSE /\ (i = 0 => g[i].left = size) /\ Far(i)
             P == {i \in Nat : i \in 0..num => Going(i)}
  <2>10. 0 \in P
    BY <2>5, <2>9
  <2>11. ASSUME NEW i \in Nat, i \in P
         PROVE  i + 1 \in P
    <3>1. ASSUME i + 1 \in 0..num
          PROVE  Going(i + 1)
      <4>1. i \in 0..num /\ i \in 0..(num - 1)
        BY <3>1
      <4>2. PICK t \in Reads(f, p, clean) : t = g[i]
        BY <2>8, <4>1
      <4>3. /\ t.cursor + t.left = c + size /\ t.blocks = s.blocks + 1 /\ t.short = FALSE
            /\ i = 0 => t.left = size
            /\ i >= 1 => t.left = 0 \/ (t.offs = 0 /\ size - t.left > (i - 1) * SectorSize)
        <5>1. Going(i)
          BY <2>11, <4>1
        <5> QED
          BY <4>2, <5>1
      <4>4. PICK u : u = g[i + 1]
        OBVIOUS
      <4>5. u = Chunk(t, bad)
        BY <2>9, <4>1, <4>2, <4>4
      <4>6. /\ u \in Reads(f, p, clean)
            /\ u.cursor + u.left = t.cursor + t.left /\ u.blocks = t.blocks /\ u.short = t.short
            /\ t.left = 0 => u = t
            /\ t.left > 0 => /\ u.left < t.left
                             /\ u.left > 0 => u.offs = 0 /\ (t.offs = 0 => u.left = t.left - SectorSize)
        BY <4>5, ChunkKeeps
      <4>7. t.left \in Nat /\ u.left \in Nat
        BY <4>6 DEF Reads, Parts
      <4>8. u.left = 0 \/ (u.offs = 0 /\ size - u.left > ((i + 1) - 1) * SectorSize)
        <5>1. CASE u.left = 0
          BY <5>1
        <5>2. CASE u.left # 0
          <6>1. t.left > 0 /\ u.left < t.left /\ u.offs = 0 /\ (t.offs = 0 => u.left = t.left - SectorSize)
            BY <4>6, <4>7, <5>2
          <6>2. CASE i = 0
            <7>1. size - u.left > 0 /\ ((i + 1) - 1) * SectorSize = 0
              BY <4>3, <4>7, <6>1, <6>2, Sizes
            <7> QED
              BY <6>1, <7>1
          <6>3. CASE i # 0
            <7>1. t.offs = 0 /\ size - t.left > (i - 1) * SectorSize /\ u.left = t.left - SectorSize
              BY <4>3, <6>1, <6>3
            <7>2. PICK d \in Nat : d = (i - 1) * SectorSize
              BY <6>3, Sizes
            <7>3. ((i + 1) - 1) * SectorSize = d + SectorSize
              BY <6>3, <7>2, Sizes
            <7>4. size - u.left > d + SectorSize
              BY <4>7, <7>1, <7>2, Sizes
            <7> QED
              BY <6>1, <7>3, <7>4
          <6> QED
            BY <6>2, <6>3
        <5> QED
          BY <5>1, <5>2
      <4>9. u.cursor + u.left = c + size /\ u.blocks = s.blocks + 1 /\ u.short = FALSE
        BY <4>3, <4>6
      <4> QED
        BY <4>4, <4>8, <4>9
    <3> HIDE DEF Going
    <3> QED
      BY <3>1
  <2> HIDE DEF P
  <2>12. Nat \subseteq P
    BY <2>10, <2>11, Induct
  <2>13. Going(num) /\ num >= 1
    BY <2>2, <2>12, Sizes DEF P
  <2>14. r \in Reads(f, p, clean)
    BY <2>8, <2>9
  <2>15. r.left \in Nat /\ r.cursor \in Nat
    BY <2>14 DEF Reads, Parts
  <2>16. r.left = 0
    <3>1. SUFFICES ASSUME r.left # 0
                   PROVE  FALSE
      OBVIOUS
    <3>2. size - r.left > (num - 1) * SectorSize
      BY <2>9, <2>13, <3>1
    <3>3. PICK q \in Nat : q = size \div SectorSize
      BY Sizes
    <3>4. num - 1 = q + 1
      BY <2>2, <3>3
    <3>5. PICK a \in Nat, z \in Nat : a = q * SectorSize /\ z = (q + 1) * SectorSize
      BY Sizes
    <3>6. z = a + SectorSize
      BY <3>5, Sizes
    <3>7. size < z
      <4>1. SectorSize \in Nat \ {0} /\ size \in Nat
        BY Sizes
      <4>2. size = (size \div SectorSize) * SectorSize + (size % SectorSize)
            /\ size % SectorSize \in 0..(SectorSize - 1)
        BY ONLY <4>1, DivMod
      <4>3. PICK m \in 0..(SectorSize - 1) : m = size % SectorSize
        BY <4>2
      <4>4. size = a + m
        BY <3>3, <3>5, <4>2, <4>3, Zenon
      <4> QED
        BY <3>6, <4>1, <4>4
    <3>8. size - r.left > z
      BY <3>2, <3>4, <3>5
    <3> QED
      BY <2>15, <3>7, <3>8
  <2>17. r.cursor = c + size /\ r.blocks = s.blocks + 1 /\ r.short = FALSE
    BY <2>9, <2>13, <2>15, <2>16
  <2> QED
    BY <1>2, <1>5, <2>14, <2>16, <2>17 DEF BlockIs
<1> QED
  BY <1>4, <1>5

-----------------------------------------------------------------------------
(* A read: blocks until the file ends, or as many as were asked for.       *)

Blocks(f, p, size, clean) ==
    {s \in Reads(f, p, clean) : /\ s.left = 0 /\ s.cursor = p + s.blocks * size
                                /\ s.short => s.cursor + size > f.size}

LEMMA BlocksGoOn ==
    ASSUME InDrive, NEW f, Readable(f), f.size <= Quarter, NEW p \in Nat,
           NEW clean \in BOOLEAN, NEW bad, clean => bad = {},
           NEW size \in 1..Quarter, NEW s \in Blocks(f, p, size, clean), NEW r, r = Block(s, f, size, bad)
    PROVE  /\ r \in Blocks(f, p, size, clean)
           /\ s.short => r.short /\ r.blocks = s.blocks
           /\ ~s.short => IF r.short THEN r.blocks = s.blocks ELSE r.blocks = s.blocks + 1
<1>1. /\ s \in Reads(f, p, clean) /\ s.left = 0 /\ s.cursor = p + s.blocks * size
      /\ s.short => s.cursor + size > f.size
  BY DEF Blocks
<1>2. PICK c \in Nat, n \in Nat : c = s.cursor /\ n = s.blocks
  BY <1>1 DEF Reads, Parts
<1>3. Quarter \in Nat /\ 4 * Quarter <= Word /\ size \in Nat \ {0}
  BY Sizes DEF Quarter
<1>4. c <= f.size /\ f.size \in Nat
  BY <1>1, <1>2 DEF Reads, Parts, Readable
<1>5. s.cursor + size < Word
  BY <1>2, <1>3, <1>4, Sizes
<1>6. r \in Reads(f, p, clean) /\ r.left = 0 /\ BlockIs(f, s, r, size)
  BY <1>1, <1>3, <1>5, BlockKeeps
<1>7. CASE s.short \/ s.cursor + size > f.size
  <2>1. r.short = TRUE /\ r.cursor = s.cursor /\ r.blocks = s.blocks
    BY <1>6, <1>7 DEF BlockIs
  <2>2. r.cursor = p + r.blocks * size /\ r.cursor + size > f.size
    BY <1>1, <1>7, <2>1
  <2> QED
    BY <1>6, <2>1, <2>2 DEF Blocks
<1>8. CASE ~(s.short \/ s.cursor + size > f.size)
  <2>1. r.short = FALSE /\ r.cursor = c + size /\ r.blocks = n + 1
    BY <1>2, <1>6, <1>8 DEF BlockIs
  <2>2. r.cursor = p + r.blocks * size
    <3>1. PICK z \in Nat : z = n * size
      BY <1>3
    <3>2. (n + 1) * size = z + size
      BY <1>3, <3>1
    <3>3. c = p + z
      BY <1>1, <1>2, <3>1
    <3> QED
      BY <1>3, <2>1, <3>2, <3>3
  <2> QED
    BY <1>2, <1>6, <1>8, <2>1, <2>2 DEF Blocks
<1> QED
  BY <1>7, <1>8

IsRead(g, s, f, size, num, bad) ==
    /\ g[0] = s
    /\ \A i \in 0..(num - 1) : g[i + 1] = Block(g[i], f, size, bad)
    /\ Iterate(LAMBDA t : Block(t, f, size, bad), s, num) = g[num]

LEMMA ReadFollowed ==
    ASSUME InDrive, NEW f, Readable(f), f.size <= Quarter, NEW p \in Nat,
           NEW clean \in BOOLEAN, NEW bad, clean => bad = {},
           NEW size \in 1..Quarter, NEW start \in Blocks(f, p, size, clean), NEW num \in Nat
    PROVE  \E g \in [0..num -> Blocks(f, p, size, clean)] : IsRead(g, start, f, size, num, bad)
<1> DEFINE S == Blocks(f, p, size, clean)
           step == [s \in S |-> Block(s, f, size, bad)]
           Row(g) == g = [i \in 0..num |-> IF i = 0 THEN start ELSE Block(g[i - 1], f, size, bad)]
<1>1. \A s \in S : Block(s, f, size, bad) \in S
  BY BlocksGoOn
<1> HIDE DEF S
<1>2. step \in [S -> S]
  BY <1>1
<1>3. \A s \in S : step[s] = Block(s, f, size, bad)
  OBVIOUS
<1>4. start \in S
  BY DEF S
<1> HIDE DEF step
<1>16. PICK g : IsOrbit(g, S, start, step, num)
  BY <1>2, <1>4, Iterates
<1>5. g \in [0..num -> S] /\ g = [i \in 0..num |-> IF i = 0 THEN start ELSE step[g[i - 1]]]
  BY <1>16 DEF IsOrbit
<1>6. ASSUME NEW i \in 0..num, i # 0
      PROVE  step[g[i - 1]] = Block(g[i - 1], f, size, bad)
  <2>1. i - 1 \in 0..num
    BY <1>6
  <2>2. g[i - 1] \in S
    BY <1>5, <2>1
  <2> QED
    BY <1>3, <2>2
<1>7. Row(g)
  BY <1>5, <1>6
<1>8. PICK h : h = CHOOSE k : Row(k)
  OBVIOUS
<1>9. Row(h)
  BY <1>7, <1>8
<1>10. Iterate(LAMBDA t : Block(t, f, size, bad), start, num) = h[num]
  BY <1>8 DEF Iterate
<1>11. h[0] = start /\ g[0] = start
  BY <1>7, <1>9
<1>12. \A i \in 0..(num - 1) : h[i + 1] = Block(h[i], f, size, bad) /\ g[i + 1] = Block(g[i], f, size, bad)
  BY <1>7, <1>9
<1>13. \A i \in 0..num : h[i] = g[i]
  <2>1. h[0] = g[0] /\ \A i \in 0..(num - 1) : h[i] = g[i] => h[i + 1] = g[i + 1]
    BY <1>11, <1>12
  <2> QED
    BY <2>1, SameSteps
<1>14. num \in 0..num
  OBVIOUS
<1>15. IsRead(g, start, f, size, num, bad)
  BY <1>10, <1>11, <1>12, <1>13, <1>14 DEF IsRead
<1> QED
  BY <1>5, <1>15 DEF S

(* The cluster of the position, and nothing read yet.                      *)
LEMMA ReadStarts ==
    ASSUME InDrive, databuf \in Buffer, fatbuf \in Buffer,
           NEW f, Readable(f), f.cursor \in Nat, f.cursor < f.size,
           NEW clean \in BOOLEAN, NEW bad, clean => bad = {} /\ Honest, NEW size \in 1..Quarter,
           NEW s, s = [at |-> GetNextCluster(fatbuf, f.head, f.cursor \div fs.cluster_size, bad),
                       db |-> databuf, cursor |-> f.cursor,
                       data |-> <<>>, blocks |-> 0, left |-> 0, offs |-> 0, short |-> FALSE]
    PROVE  s \in Blocks(f, f.cursor, size, clean) /\ s.blocks = 0 /\ s.short = FALSE
<1> DEFINE chain == vol.chains[f.head]
<1>1. PICK p \in Nat, q \in Nat : p = f.cursor /\ q = p \div SectorSize
  BY Sizes
<1>2. f.head \in DOMAIN vol.chains /\ f.head \in Nat
  <2>1. f.head \in DOMAIN vol.chains
    BY DEF Readable
  <2>2. f.head \in Places
    BY <2>1 DEF Places
  <2> QED
    BY <2>1, <2>2, Located
<1>3. PICK at : at = GetNextCluster(fatbuf, f.head, q, bad)
  OBVIOUS
<1>4. at \in Ways
  BY <1>2, <1>3, NextInRange
<1>5. s = [at |-> at, db |-> databuf, cursor |-> p,
           data |-> <<>>, blocks |-> 0, left |-> 0, offs |-> 0, short |-> FALSE]
  BY <1>1, <1>3, Driven
<1>6. s \in Parts
  <2>1. <<>> \in Seq(Int \X Int) /\ databuf \in Buffer
    OBVIOUS
  <2> HIDE DEF Ways
  <2> QED
    BY <1>4, <1>5, <2>1 DEF Parts
<1>7. q < Len(chain)
  <2>1. PICK len \in Nat : len = Len(chain)
    BY <1>2, Chains DEF InDrive
  <2>2. SectorSize \in Nat \ {0}
    BY Sizes
  <2>3. PICK m \in 0..(SectorSize - 1) : m = p % SectorSize
    BY <2>2, DivMod
  <2>4. p = q * SectorSize + m
    <3>1. p = (p \div SectorSize) * SectorSize + (p % SectorSize)
      BY <2>2, DivMod
    <3> QED
      BY <1>1, <2>3, <3>1, Zenon
  <2>5. PICK a \in Nat, z \in Nat : a = q * SectorSize /\ z = len * SectorSize
    BY <2>2
  <2>6. f.size \in Nat /\ f.size <= z /\ p < f.size
    BY <1>1, <2>1, <2>5 DEF Readable
  <2>7. a < z
    BY <2>2, <2>4, <2>5, <2>6
  <2>8. q * SectorSize < len * SectorSize
    BY <2>5, <2>7
  <2>9. q < len
    BY ONLY <2>2, <2>8, q \in Nat, len \in Nat, Below
  <2> QED
    BY <2>1, <2>9
<1>8. ASSUME clean
      PROVE  Right(f, p, s)
  <2>1. bad = {} /\ Held(databuf) /\ Held(fatbuf)
    BY <1>8 DEF Honest, Held
  <2>2. Held(at.fb) /\ at.cluster = chain[q + 1] /\ at.end = FALSE
    <3>1. f.head \in DOMAIN vol.chains /\ q \in Nat /\ q < Len(vol.chains[f.head])
      BY <1>2, <1>7
    <3> QED
      BY ONLY InDrive, fatbuf \in Buffer, <1>3, <2>1, <3>1, Followed
  <2>3. s.at = at /\ s.db = databuf /\ s.cursor = p /\ s.data = <<>>
    BY <1>5
  <2>4. AtRight(f, s)
    BY <1>1, <2>2, <2>3 DEF AtRight
  <2>5. DataRight(f, p, s)
    BY <2>3 DEF DataRight
  <2> QED
    BY <2>1, <2>2, <2>3, <2>4, <2>5 DEF Right
<1>9. s.cursor = p /\ s.left = 0 /\ s.data = <<>> /\ s.blocks = 0 /\ s.short = FALSE
  BY <1>5
<1>10. s \in Reads(f, p, clean)
  <2>1. Len(s.data) = s.cursor - p /\ s.cursor + s.left <= f.size /\ p <= s.cursor
    BY <1>1, <1>9 DEF Readable
  <2>2. ~(s.left > 0)
    BY <1>9
  <2> QED
    BY <1>6, <1>8, <2>1, <2>2 DEF Reads
<1>11. s.cursor = p + s.blocks * size
  BY <1>9, Sizes DEF Quarter
<1> QED
  BY <1>1, <1>9, <1>10, <1>11 DEF Blocks

(* What a read returns.                                                    *)
ReadIs(f, size, count, clean, r) ==
    /\ r.db \in Buffer /\ r.at.fb \in Buffer
    /\ r.blocks \in Nat /\ r.blocks <= count
    /\ r.cursor \in Nat /\ r.cursor <= f.size /\ r.cursor = f.cursor + r.blocks * size
    /\ r.data \in Seq(Int \X Int) /\ Len(r.data) = r.cursor - f.cursor
    /\ r.blocks = count \/ r.cursor + size > f.size
    /\ clean => DataRight(f, f.cursor, r)

LEMMA ReadDone ==
    ASSUME InDrive, databuf \in Buffer, fatbuf \in Buffer,
           NEW f, Readable(f), f.size <= Quarter, f.cursor \in Nat, f.cursor < f.size,
           NEW clean \in BOOLEAN, NEW bad, clean => bad = {} /\ Honest,
           NEW size \in 1..Quarter, NEW count \in Nat, NEW r, r = Read(f, size, count, bad)
    PROVE  ReadIs(f, size, count, clean, r)
<1> DEFINE p == f.cursor
<1>1. PICK start : start = [at |-> GetNextCluster(fatbuf, f.head, f.cursor \div fs.cluster_size, bad),
                            db |-> databuf, cursor |-> f.cursor,
                            data |-> <<>>, blocks |-> 0, left |-> 0, offs |-> 0, short |-> FALSE]
  OBVIOUS
<1>2. start \in Blocks(f, p, size, clean) /\ start.blocks = 0 /\ start.short = FALSE
  BY <1>1, ReadStarts
<1>3. r = Iterate(LAMBDA s : Block(s, f, size, bad), start, count)
  BY <1>1 DEF Read
<1>4. PICK g \in [0..count -> Blocks(f, p, size, clean)] : IsRead(g, start, f, size, count, bad)
  BY <1>2, ReadFollowed
<1>5. g[0] = start /\ r = g[count] /\ \A i \in 0..(count - 1) : g[i + 1] = Block(g[i], f, size, bad)
  BY <1>3, <1>4 DEF IsRead
<1> DEFINE Going(i) == IF g[i].short THEN g[i].blocks <= i ELSE g[i].blocks = i
           P == {i \in Nat : i \in 0..count => Going(i)}
<1>6. 0 \in P
  BY <1>2, <1>5
<1>7. ASSUME NEW i \in Nat, i \in P
      PROVE  i + 1 \in P
  <2>1. ASSUME i + 1 \in 0..count
        PROVE  Going(i + 1)
    <3>1. i \in 0..count /\ i \in 0..(count - 1)
      BY <2>1
    <3>2. PICK s \in Blocks(f, p, size, clean) : s = g[i]
      BY <1>4, <3>1
    <3>3. Going(i)
      BY <1>7, <3>1
    <3>4. PICK u : u = g[i + 1]
      OBVIOUS
    <3>5. u = Block(s, f, size, bad)
      BY <1>5, <3>1, <3>2, <3>4
    <3>6. /\ s.short => u.short /\ u.blocks = s.blocks
          /\ ~s.short => IF u.short THEN u.blocks = s.blocks ELSE u.blocks = s.blocks + 1
      BY <3>5, BlocksGoOn
    <3>7. s.blocks \in Nat
      BY DEF Blocks, Reads, Parts
    <3> QED
      BY <3>2, <3>3, <3>4, <3>6, <3>7
  <2> HIDE DEF Going
  <2> QED
    BY <2>1
<1> HIDE DEF P
<1>8. Nat \subseteq P
  BY <1>6, <1>7, Induct
<1>9. count \in 0..count /\ Going(count)
  BY <1>8 DEF P
<1>10. r \in Blocks(f, p, size, clean)
  BY <1>4, <1>5, <1>9
<1>11. /\ r \in Parts /\ r.cursor + r.left <= f.size /\ Len(r.data) = r.cursor - p /\ r.left = 0
       /\ r.cursor = p + r.blocks * size
       /\ clean => Right(f, p, r)
       /\ r.short => r.cursor + size > f.size
  BY <1>10 DEF Blocks, Reads
<1>12. r.blocks \in Nat /\ r.cursor \in Nat /\ r.data \in Seq(Int \X Int) /\ r.db \in Buffer /\ r.at.fb \in Buffer
  BY <1>11 DEF Parts, Ways
<1>13. r.blocks <= count /\ (r.blocks = count \/ r.cursor + size > f.size)
  BY <1>5, <1>9, <1>11, <1>12
<1>14. r.cursor <= f.size
  BY <1>11, <1>12
<1> QED
  BY <1>11, <1>12, <1>13, <1>14 DEF ReadIs, Right

-----------------------------------------------------------------------------
(* Everything in its range.  A position that is not in the file is a       *)
(* little below 0, as a word.                                              *)

IsFile(f) ==
    /\ f = [open |-> f.open, head |-> f.head, size |-> f.size, cursor |-> f.cursor]
    /\ f.size \in 0..Quarter /\ f.cursor \in 0..(Word - 1)
    /\ f.cursor <= f.size \/ f.cursor >= Word - Quarter
    /\ f.size > 0 => Readable(f)

FileCalls == [op : {"file"}, handle : Handles, name : Names, it : Its, clean : BOOLEAN]
DirCalls == [op : {"dir"}, name : DirNames, it : Its, clean : BOOLEAN]
NextCalls == [op : {"next"}, it : Its, clean : BOOLEAN]

Types ==
    /\ vol \in Volumes /\ fs \in {NotMounted, Trapped, Geometry}
    /\ databuf \in Buffer /\ fatbuf \in Buffer
    /\ files = [h \in Handles |-> files[h]] /\ \A h \in Handles : IsFile(files[h])
    /\ cwd \in Places
    /\ iter.it \in Its /\ (iter.state = "open" => fs # NotMounted)
    /\ call \in {Idle} \union FileCalls \union DirCalls \union NextCalls
    /\ Walking => Mounted
    /\ call \in NextCalls => iter.state = "open" /\ call.it.head = iter.it.head
    /\ got.ret \in -2..(Word - 1) /\ faults \in 0..MaxFaults

LEMMA Idles == Idle.op = "none" /\ (call = Idle => ~Walking)
BY DEF Idle, Walking

LEMMA Quarters == Quarter \in Nat /\ 4 * Quarter <= Word /\ Word \in Nat /\ Word >= 1
BY Sizes DEF Quarter

LEMMA Mounts ==
    ASSUME Types, Mounted
    PROVE  InDrive
BY DEF Types, Mounted, InDrive

LEMMA StartAt ==
    ASSUME Types, NEW head \in Places
    PROVE  Start(head) \in Its
BY Sizes DEF Start, Its

LEMMA RootIsPlace ==
    ASSUME InDrive
    PROVE  RootHead \in Places
<1>1. RootAt(vol) /\ fs = GeometryOf(vol)
  BY VolumesAssumption DEF InDrive, Geometry
<1> QED
  BY <1>1, Driven DEF RootHead, RootAt, Places

(* What the walk does to the rest, after a look.                           *)
On(l) == l.more \/ (call.op # "next" /\ l.entry.name \notin {call.name, EndMark.name})
Hit(l) == ~On(l) /\ l.entry # EndMark
Clean(bad) == call.clean /\ Honest /\ bad = {}

WalkIs(f, l, bad) ==
    /\ databuf' = f.db /\ fatbuf' = f.fb
    /\ call' = IF On(l) THEN [call EXCEPT !.it = l.it, !.clean = Clean(bad)] ELSE Idle
    /\ files' = IF Hit(l) /\ call.op = "file"
                THEN [files EXCEPT ![call.handle] = OpenedFile(l.entry)] ELSE files
    /\ cwd' = IF Hit(l) /\ call.op = "dir" THEN l.entry.head ELSE cwd
    /\ iter' = IF On(l) \/ call.op # "next" THEN iter
               ELSE [it |-> l.it, clean |-> iter.clean /\ Clean(bad),
                     seen |-> IF Hit(l) THEN Append(iter.seen, l.entry.name) ELSE iter.seen,
                     state |-> IF Hit(l) THEN "open" ELSE "ended"]

TurnIs(f, l, stop, bad) ==
    /\ bad \in Bad /\ Count(bad)
    /\ Found(call.it, f.db.holds, l, stop)
    /\ Honest /\ bad = {} => f.db.holds = DirSector(call.it.head)
    /\ f.db \in Buffer /\ f.fb \in Buffer
    /\ l.it \in Its /\ l.it.head = call.it.head
    /\ l.entry # EndMark => Entered(vol, l.entry)
    /\ WalkIs(f, l, bad)

LEMMA CallAt ==
    ASSUME Types, Walking
    PROVE  InDrive /\ call.it \in Its /\ call \in FileCalls \union DirCalls \union NextCalls
           /\ call.clean \in BOOLEAN
<1>1. call # Idle
  BY Idles
<1>2. call \in FileCalls \union DirCalls \union NextCalls
  BY <1>1 DEF Types
<1>3. InDrive
  BY Mounts DEF Types
<1> QED
  BY <1>2, <1>3 DEF FileCalls, DirCalls, NextCalls

LEMMA WalkTurns ==
    ASSUME Types, Walk
    PROVE  \E f, l, stop, bad : TurnIs(f, l, stop, bad)
<1>1. Walking /\ InDrive /\ call.it \in Its
  BY CallAt DEF Walk
<1>2. Advance(call.it) = call.it
  BY <1>1, NoAdvance
<1> DEFINE Turn(f, l, bad) ==
             LET clean == call.clean /\ Honest /\ bad = {}
                 on == l.more \/ (call.op # "next" /\ l.entry.name \notin {call.name, EndMark.name})
                 found == ~on /\ l.entry # EndMark
             IN  /\ databuf' = f.db /\ fatbuf' = f.fb
                 /\ call' = IF on THEN [call EXCEPT !.it = l.it, !.clean = clean] ELSE Idle
                 /\ files' = IF found /\ call.op = "file"
                             THEN [files EXCEPT ![call.handle] = OpenedFile(l.entry)] ELSE files
                 /\ cwd' = IF found /\ call.op = "dir" THEN l.entry.head ELSE cwd
                 /\ iter' = IF on \/ call.op # "next" THEN iter
                            ELSE [it |-> l.it, clean |-> iter.clean /\ clean,
                                  seen |-> IF found THEN Append(iter.seen, l.entry.name) ELSE iter.seen,
                                  state |-> IF found THEN "open" ELSE "ended"]
<1>3. PICK bad \in Bad : Count(bad) /\ \E f \in {Fetch(Advance(call.it), bad)} :
                             \E l \in {Look(Advance(call.it), f)} : Turn(f, l, bad)
  <2>1. \E bad \in Bad : Count(bad) /\ \E f \in {Fetch(Advance(call.it), bad)} :
           \E l \in {Look(Advance(call.it), f)} :
              (bad = {} \/ f # Fetch(Advance(call.it), {})) /\ Turn(f, l, bad)
    BY Zenon DEF Walk
  <2> QED
    BY <2>1, Zenon
<1>4. PICK f, l : f = Fetch(call.it, bad) /\ l = Look(call.it, f) /\ WalkIs(f, l, bad)
  <2>1. PICK f, l : f = Fetch(Advance(call.it), bad) /\ l = Look(Advance(call.it), f) /\ Turn(f, l, bad)
    BY <1>3, Zenon
  <2>2. WalkIs(f, l, bad)
    BY <2>1, Zenon DEF WalkIs, On, Hit, Clean
  <2> QED
    BY <1>2, <2>1, <2>2, Zenon
<1> HIDE DEF Turn
<1>5. /\ f.none = FALSE /\ f.db \in Buffer /\ f.fb \in Buffer
      /\ Honest /\ bad = {} => f.db.holds = DirSector(call.it.head)
  BY <1>1, <1>4, Fetched DEF Types
<1>6. PICK stop : Found(call.it, f.db.holds, l, stop)
  BY <1>1, <1>4, <1>5, Looked
<1>7. call.it.entry \in 0..Per
  BY <1>1 DEF Its
<1>8. stop \in Nat /\ stop <= Per
  BY <1>6, <1>7, Sizes DEF Found
<1>9. CASE stop = Per
  <2>1. l.entry = EndMark /\ l.it = [call.it EXCEPT !.entry = Per]
    BY <1>6, <1>9 DEF Found
  <2>2. l.it \in Its /\ l.it.head = call.it.head
    BY <1>1, <2>1, Sizes DEF Its
  <2> QED
    BY <1>3, <1>4, <1>5, <1>6, <2>1, <2>2 DEF TurnIs
<1>10. CASE stop < Per
  <2>1. /\ l.entry = EntryAt(f.db.holds, stop)
        /\ l.it = [call.it EXCEPT !.entry = IF l.entry = EndMark THEN stop ELSE stop + 1]
    BY <1>6, <1>10 DEF Found
  <2>2. PICK n : n = IF l.entry = EndMark THEN stop ELSE stop + 1
    OBVIOUS
  <2>3. n \in 0..Per
    BY <1>8, <1>10, <2>2, Sizes
  <2>4. l.it = [call.it EXCEPT !.entry = n]
    BY <2>1, <2>2
  <2>5. l.it \in Its /\ l.it.head = call.it.head
    BY <1>1, <2>3, <2>4 DEF Its
  <2>6. ASSUME l.entry # EndMark
        PROVE  Entered(vol, l.entry)
    <3>1. PICK entries : entries = SectorEntries(f.db.holds)
      OBVIOUS
    <3>2. vol \in Volumes
      BY DEF Types
    <3>3. l.entry = IF stop < Len(entries) THEN entries[stop + 1] ELSE EndMark
      BY <1>8, <2>1, <3>1, <3>2, Entering
    <3>4. stop < Len(entries) /\ l.entry = entries[stop + 1]
      BY <2>6, <3>3
    <3>5. stop + 1 \in 1..Len(entries)
      <4>1. Len(entries) \in 0..Per
        BY <3>1, <3>2, Entering
      <4> QED
        BY <1>8, <3>4, <4>1, Sizes
    <3> QED
      BY <3>1, <3>2, <3>4, <3>5, Entering
  <2> QED
    BY <1>3, <1>4, <1>5, <1>6, <2>5, <2>6 DEF TurnIs
<1> QED
  BY <1>8, <1>9, <1>10, Sizes

LEMMA ClosedIsFile == IsFile(Closed)
BY Quarters, Sizes DEF IsFile, Closed

LEMMA OpenedIsFile ==
    ASSUME NEW e, Entered(vol, e)
    PROVE  IsFile(OpenedFile(e))
<1> DEFINE f == OpenedFile(e)
<1>1. f.size = e.size /\ f.head = e.head /\ f.cursor = 0 /\ f.open = TRUE
      /\ f = [open |-> f.open, head |-> f.head, size |-> f.size, cursor |-> f.cursor]
  BY DEF OpenedFile
<1>2. e.size \in 0..Quarter /\ (e.size > 0 => e.head \in DOMAIN vol.chains /\ e.size <= Len(vol.chains[e.head]) * SectorSize)
  BY DEF Entered
<1> QED
  BY <1>1, <1>2, Quarters, Sizes DEF IsFile, Readable

(* Where a file is moved to.                                               *)
LEMMA MovedIsFile ==
    ASSUME NEW f, IsFile(f), NEW n \in 0..(Word - 1), n <= f.size \/ n >= Word - Quarter
    PROVE  IsFile([f EXCEPT !.cursor = n])
<1> DEFINE g == [f EXCEPT !.cursor = n]
<1>1. g = [open |-> f.open, head |-> f.head, size |-> f.size, cursor |-> n]
  BY DEF IsFile
<1>2. g.size = f.size /\ g.head = f.head /\ g.cursor = n /\ g.open = f.open
  BY <1>1
<1> HIDE DEF g
<1> QED
  BY <1>1, <1>2 DEF IsFile, Readable

(* A word around zero, and the position it stands for.                     *)
LEMMA Wraps ==
    ASSUME NEW x \in Int, x >= -2 * Quarter, x < Word
    PROVE  /\ Unsigned(x) \in 0..(Word - 1)
           /\ x >= 0 => Unsigned(x) = x
           /\ x < 0 => Unsigned(x) = x + Word
<1>1. Unsigned(x) = x % Word
  BY DEF Unsigned
<1>2. CASE x >= 0
  BY <1>1, <1>2, Quarters
<1>3. CASE x < 0
  <2>1. x + Word \in 0..(Word - 1)
    BY <1>3, Quarters
  <2>2. x % Word = x + Word
    BY <1>3, <2>1, Quarters
  <2> QED
    BY <1>1, <1>3, <2>1, <2>2
<1> QED
  BY <1>2, <1>3

(* What a seek computes, by its origin, from the position it moves from    *)
(* (below 0 if the cursor is not in the file).                             *)
Target(f, origin, offset) ==
    offset + [set |-> 0, cur |-> Position(f), end |-> f.size][origin]

LEMMA PosIs ==
    ASSUME NEW f, IsFile(f)
    PROVE  Position(f) \in Int /\ Position(f) >= -Quarter /\ Position(f) <= f.size
           /\ (Position(f) >= 0 <=> f.cursor <= f.size)
           /\ f.size \in Nat /\ f.size <= Quarter /\ f.cursor \in Nat
BY Quarters DEF Position, IsFile

LEMMA Seeks ==
    ASSUME NEW f, IsFile(f), NEW origin \in {"set", "cur", "end"}, NEW offset \in -Quarter..Quarter,
           NEW to, to = Target(f, origin, offset)
    PROVE  /\ to \in Int /\ to >= -2 * Quarter
           /\ SeekCursor(f, origin, offset) = Unsigned(to)
           /\ ~SeekRefused(f, origin, offset) <=> to <= f.size /\ (origin # "end" => to >= 0)
<1>1. f.size \in 0..Quarter /\ f.cursor \in 0..(Word - 1) /\ (f.cursor <= f.size \/ f.cursor >= Word - Quarter)
  BY DEF IsFile
<1>2. Position(f) \in Int /\ Position(f) >= -Quarter /\ Position(f) <= f.size
  BY PosIs
<1>3. Quarter \in Nat /\ 4 * Quarter <= Word /\ Word \in Nat /\ Word >= 1
  BY Quarters
<1>4. CASE origin = "set"
  <2>1. to = offset /\ SeekCursor(f, origin, offset) = Unsigned(to)
    BY <1>4 DEF Target, SeekCursor
  <2>2. to \in Int /\ to >= -2 * Quarter /\ to < Word
    BY <1>3, <2>1
  <2>3. SeekRefused(f, origin, offset) <=> Unsigned(to) > f.size
    BY <1>4, <2>1 DEF SeekRefused
  <2>4. Unsigned(to) \in 0..(Word - 1) /\ (to >= 0 => Unsigned(to) = to) /\ (to < 0 => Unsigned(to) = to + Word)
    BY <2>2, Wraps
  <2>5. to >= -Quarter
    BY <1>3, <2>1
  <2>6. Unsigned(to) > f.size <=> to < 0 \/ to > f.size
    BY <1>1, <1>3, <2>2, <2>4, <2>5
  <2> QED
    BY <1>1, <1>4, <2>1, <2>2, <2>3, <2>6
<1>5. CASE origin = "end"
  <2>1. to = offset + f.size /\ SeekCursor(f, origin, offset) = Unsigned(to)
    BY <1>5 DEF Target, SeekCursor
  <2>2. SeekRefused(f, origin, offset) <=> offset > 0
    BY <1>5 DEF SeekRefused
  <2> QED
    BY <1>1, <1>3, <1>5, <2>1, <2>2
<1>6. CASE origin = "cur"
  <2>1. to = offset + Position(f) /\ SeekCursor(f, origin, offset) = Unsigned(offset + f.cursor)
    BY <1>6 DEF Target, SeekCursor
  <2>2. to \in Int /\ to >= -2 * Quarter /\ to < Word /\ to <= 2 * Quarter
    BY <1>1, <1>2, <1>3, <2>1
  <2>3. Unsigned(offset + f.cursor) = Unsigned(to)
    <3>1. CASE f.cursor <= f.size
      BY <2>1, <3>1 DEF Position
    <3>2. CASE ~(f.cursor <= f.size)
      <4>1. to = (offset + f.cursor) - Word
        BY <1>1, <1>3, <2>1, <3>2 DEF Position
      <4>2. PICK y \in Int : y = offset + f.cursor
        BY <1>1, <1>3
      <4>3. to = y - Word
        BY <4>1, <4>2
      <4>4. CASE to >= 0
        <5>1. y = to + Word /\ to \in 0..(Word - 1)
          BY <1>3, <2>2, <4>3, <4>4
        <5>2. y % Word = to /\ to % Word = to
          BY <1>3, <5>1
        <5> QED
          BY <4>2, <5>2 DEF Unsigned
      <4>5. CASE to < 0
        <5>1. y \in 0..(Word - 1)
          BY <1>3, <2>2, <4>3, <4>5
        <5>2. y % Word = y
          BY <1>3, <5>1
        <5>3. Unsigned(to) = y
          BY <1>3, <2>2, <4>3, <4>5, Wraps
        <5> QED
          BY <4>2, <5>2, <5>3 DEF Unsigned
      <4> QED
        BY <2>2, <4>4, <4>5
    <3> QED
      BY <3>1, <3>2
  <2>4. Unsigned(to) \in 0..(Word - 1) /\ (to >= 0 => Unsigned(to) = to) /\ (to < 0 => Unsigned(to) = to + Word)
    BY <2>2, Wraps
  <2>5. SeekRefused(f, origin, offset) <=> Unsigned(to) > f.size
    BY <1>6, <2>1, <2>3 DEF SeekRefused, SeekCursor
  <2>6. Unsigned(to) > f.size <=> to < 0 \/ to > f.size
    BY <1>1, <1>3, <2>2, <2>4
  <2> QED
    BY <1>1, <1>6, <2>1, <2>2, <2>3, <2>5, <2>6
<1> QED
  BY <1>4, <1>5, <1>6

(* Where an accepted seek goes.                                            *)
LEMMA SeekLands ==
    ASSUME NEW f, IsFile(f), NEW a \in SeekArgs, ~SeekRefused(f, a[1], a[2]),
           NEW n, n = SeekCursor(f, a[1], a[2])
    PROVE  n \in 0..(Word - 1) /\ (n <= f.size \/ n >= Word - Quarter)
<1>1. a[1] \in {"set", "cur", "end"} /\ a[2] \in -Quarter..Quarter
  BY CallsAssumption
<1>2. PICK to : to = Target(f, a[1], a[2])
  OBVIOUS
<1>3. to \in Int /\ to >= -2 * Quarter /\ to <= f.size /\ (a[1] # "end" => to >= 0) /\ n = Unsigned(to)
  BY <1>1, <1>2, Seeks
<1>4. f.size \in 0..Quarter
  BY DEF IsFile
<1>5. n \in 0..(Word - 1) /\ (to >= 0 => n = to) /\ (to < 0 => n = to + Word)
  BY <1>3, <1>4, Quarters, Wraps
<1>6. to >= -Quarter
  <2>1. CASE a[1] = "end"
    BY <1>1, <1>2, <1>4, <2>1, Quarters DEF Target
  <2> QED
    BY <1>3, <2>1, Quarters
<1> QED
  BY <1>3, <1>4, <1>5, <1>6, Quarters

LEMMA Counted ==
    ASSUME Types, NEW bad \in Bad, Count(bad)
    PROVE  faults' \in 0..MaxFaults /\ (faults' = faults <=> bad = {})
<1>1. faults \in 0..MaxFaults /\ MaxFaults \in Nat /\ faults' = faults + Cardinality(bad)
  BY Sizes DEF Types, Count
<1>2. CASE bad = {}
  BY <1>1, <1>2, FS_EmptySet
<1>3. CASE bad # {}
  <2>1. faults # MaxFaults /\ bad \in {{s} : s \in 0..(vol.total - 1)}
    BY <1>3 DEF Bad
  <2>2. Cardinality(bad) = 1
    BY <2>1, FS_Singleton
  <2> QED
    BY <1>1, <1>3, <2>1, <2>2
<1> QED
  BY <1>2, <1>3

(* What is left to show of a step, in the volume that stays.               *)
LEMMA TypesKept ==
    ASSUME vol' = vol, vol \in Volumes, fs' \in {NotMounted, Trapped, Geometry},
           databuf' \in Buffer, fatbuf' \in Buffer,
           files' = [h \in Handles |-> files'[h]], \A h \in Handles : IsFile(files'[h]),
           cwd' \in Places, iter'.it \in Its, iter'.state = "open" => fs' # NotMounted,
           call' \in {Idle} \union FileCalls \union DirCalls \union NextCalls,
           call'.op # "none" => fs' \notin {NotMounted, Trapped},
           call' \in NextCalls => iter'.state = "open" /\ call'.it.head = iter'.it.head,
           got'.ret \in -2..(Word - 1), faults' \in 0..MaxFaults
    PROVE  Types'
<1>1. Buffer' = Buffer /\ Places' = Places /\ Its' = Its /\ Geometry' = Geometry
  BY DEF Buffer, Places, Its, Geometry
<1>2. FileCalls' = FileCalls /\ DirCalls' = DirCalls /\ NextCalls' = NextCalls
  BY <1>1 DEF FileCalls, DirCalls, NextCalls
<1>3. \A h \in Handles : IsFile(files[h])'
  BY DEF IsFile, Readable
<1>4. (vol \in Volumes /\ fs \in {NotMounted, Trapped, Geometry} /\ databuf \in Buffer /\ fatbuf \in Buffer)'
  BY <1>1
<1>5. (cwd \in Places /\ iter.it \in Its /\ (iter.state = "open" => fs # NotMounted))'
  BY <1>1 DEF Mounted
<1>6. (call \in {Idle} \union FileCalls \union DirCalls \union NextCalls)'
  BY <1>2
<1>7. (Walking => Mounted)'
  BY DEF Walking, Mounted
<1>8. (call \in NextCalls => iter.state = "open" /\ call.it.head = iter.it.head)'
  BY <1>2
<1> QED
  BY <1>3, <1>4, <1>5, <1>6, <1>7, <1>8 DEF Types

LEMMA FilesKept ==
    ASSUME Types, UNCHANGED <<vol, files>>
    PROVE  files' = [h \in Handles |-> files'[h]] /\ \A h \in Handles : IsFile(files'[h])
BY DEF Types

LEMMA OneFileKept ==
    ASSUME Types, UNCHANGED vol, NEW h \in Handles, NEW f, IsFile(f), files' = [files EXCEPT ![h] = f]
    PROVE  files' = [k \in Handles |-> files'[k]] /\ \A k \in Handles : IsFile(files'[k])
<1>1. files = [k \in Handles |-> files[k]] /\ \A k \in Handles : IsFile(files[k])
  BY DEF Types
<1>2. files' = [k \in Handles |-> IF k = h THEN f ELSE files[k]]
  BY <1>1
<1> QED
  BY <1>1, <1>2

LEMMA TypesInit == Init => Types
<1> SUFFICES ASSUME Init
             PROVE  Types
  OBVIOUS
<1>1. vol \in Volumes /\ fs = NotMounted /\ faults = 0 /\ cwd = 0 /\ got.ret = -2
  BY DEF Init, Nothing
<1>2. vol.total \in Nat /\ vol.total >= 1
  BY <1>1, VolumesAssumption DEF Numbers
<1>3. Empty \in Buffer
  BY <1>2 DEF Empty, Buffer, None
<1>4. databuf \in Buffer /\ fatbuf \in Buffer
  BY <1>3 DEF Init
<1>5. 0 \in Places
  BY DEF Places
<1>6. Start(0) \in Its
  BY <1>5, Sizes DEF Start, Its
<1>7. iter.it \in Its /\ iter.state = "none"
  BY <1>6 DEF Init, NoIter
<1>8. call = Idle /\ ~Walking
  BY Idles DEF Init
<1>9. files = [h \in Handles |-> files[h]] /\ \A h \in Handles : IsFile(files[h])
  <2>1. files = [h \in Handles |-> Closed]
    BY DEF Init
  <2> QED
    BY <2>1, ClosedIsFile
<1>10. call \notin NextCalls
  BY <1>8 DEF Idle, NextCalls
<1> QED
  BY <1>1, <1>4, <1>5, <1>7, <1>8, <1>9, <1>10, Sizes DEF Types

LEMMA TypesMount ==
    ASSUME Types, Mount
    PROVE  Types'
<1>1. UNCHANGED <<vol, files, cwd, iter, call>> /\ got' = Nothing /\ fatbuf' = [fatbuf EXCEPT !.lba = None] /\ ~Walking
  BY DEF Mount
<1>2. PICK bad \in Bad : LET boot == Fill([databuf EXCEPT !.lba = None], 0, bad)
                             signed == boot.holds = 0
                             fsinfo == boot.holds = 1 /\ Geometry.type = 32
                         IN  /\ fs' = IF signed THEN Geometry ELSE IF fsinfo THEN Trapped ELSE fs
                             /\ databuf' = IF signed /\ Geometry.type = 32 THEN Fill(boot, 1, bad) ELSE boot
                             /\ Count(bad)
  BY DEF Mount
<1>3. PICK boot : boot = Fill([databuf EXCEPT !.lba = None], 0, bad)
  OBVIOUS
<1>4. /\ fs' = IF boot.holds = 0 THEN Geometry
                ELSE IF boot.holds = 1 /\ Geometry.type = 32 THEN Trapped ELSE fs
      /\ databuf' = IF boot.holds = 0 /\ Geometry.type = 32 THEN Fill(boot, 1, bad) ELSE boot
  BY <1>2, <1>3
<1>5. vol.total \in Nat /\ databuf \in Buffer /\ fatbuf \in Buffer
  BY VolumesAssumption DEF Types, Numbers
<1>6. [databuf EXCEPT !.lba = None] \in Buffer /\ [fatbuf EXCEPT !.lba = None] \in Buffer
  BY <1>5 DEF Buffer, None
<1>7. boot \in Buffer
  BY <1>3, <1>5, <1>6, Filled
<1>8. Fill(boot, 1, bad) \in Buffer
  BY <1>5, <1>7, Filled
<1>9. databuf' \in Buffer /\ fatbuf' \in Buffer
  BY <1>1, <1>4, <1>6, <1>7, <1>8
<1>10. Geometry # NotMounted /\ Trapped # NotMounted
  <2>1. vol \in Volumes
    BY DEF Types
  <2>2. Geometry # NotMounted
    BY <2>1, Numbered DEF Geometry
  <2>3. NotMounted.type = 0 /\ Trapped.type = None /\ None = -1
    BY DEF NotMounted, Trapped, None
  <2>4. Trapped # NotMounted
    BY <2>3
  <2> QED
    BY <2>2, <2>4
<1>11. fs' \in {NotMounted, Trapped, Geometry} /\ (fs # NotMounted => fs' # NotMounted)
  BY <1>4, <1>10 DEF Types
<1>12. faults' \in 0..MaxFaults
  BY <1>2, Counted
<1>13. files' = [h \in Handles |-> files'[h]] /\ \A h \in Handles : IsFile(files'[h])
  BY <1>1, FilesKept
<1>14. got'.ret \in -2..(Word - 1)
  BY <1>1, Sizes DEF Nothing
<1>15. iter'.state = "open" => fs' # NotMounted
  BY <1>1, <1>11 DEF Types, Mounted
<1>16. call'.op = "none"
  BY <1>1 DEF Walking
<1>17. /\ cwd' \in Places /\ iter'.it \in Its
       /\ call' \in {Idle} \union FileCalls \union DirCalls \union NextCalls
       /\ call' \in NextCalls => iter'.state = "open" /\ call'.it.head = iter'.it.head
  BY <1>1 DEF Types
<1>18. vol' = vol /\ vol \in Volumes
  BY <1>1 DEF Types
<1> QED
  BY <1>9, <1>11, <1>12, <1>13, <1>14, <1>15, <1>16, <1>17, <1>18, TypesKept

LEMMA AtCallerTypes ==
    ASSUME Types, UNCHANGED AtCaller, got' = Nothing, Mounted,
           cwd' \in Places, iter'.it \in Its,
           call' \in {Idle} \union FileCalls \union DirCalls \union NextCalls,
           call' \in NextCalls => iter'.state = "open" /\ call'.it.head = iter'.it.head
    PROVE  Types'
<1>1. UNCHANGED <<vol, fs, databuf, fatbuf, files, faults>>
  BY DEF AtCaller
<1>2. files' = [h \in Handles |-> files'[h]] /\ \A h \in Handles : IsFile(files'[h])
  BY <1>1, FilesKept
<1>3. got'.ret \in -2..(Word - 1)
  BY Sizes DEF Nothing
<1>4. fs' \in {NotMounted, Trapped, Geometry} /\ fs' \notin {NotMounted, Trapped} /\ databuf' \in Buffer /\ fatbuf' \in Buffer
      /\ faults' \in 0..MaxFaults /\ vol \in Volumes /\ vol' = vol
  BY <1>1 DEF Types, Mounted
<1> QED
  BY <1>2, <1>3, <1>4, TypesKept

LEMMA Calling ==
    ASSUME Types, NEW record, Calls(record)
    PROVE  Mounted /\ InDrive /\ ~Walking /\ call' = record /\ got' = Nothing
BY Mounts DEF Calls, Ready

LEMMA CallIsIdle ==
    ASSUME Types, ~Walking
    PROVE  call = Idle
<1>1. call.op = "none"
  BY DEF Walking
<1>2. call \notin FileCalls /\ call \notin DirCalls /\ call \notin NextCalls
  BY <1>1 DEF FileCalls, DirCalls, NextCalls
<1> QED
  BY <1>2 DEF Types

LEMMA IdleIsNoNext == Idle \notin NextCalls
BY DEF Idle, NextCalls

LEMMA TypesRootDirOpen ==
    ASSUME Types, RootDirOpen
    PROVE  Types'
<1>1. Calls(call) /\ cwd' = RootHead /\ iter' = NoIter /\ UNCHANGED AtCaller
  BY DEF RootDirOpen
<1>2. Mounted /\ InDrive /\ ~Walking /\ call' = call /\ got' = Nothing
  BY <1>1, Calling
<1>3. call = Idle
  BY <1>2, CallIsIdle
<1>4. cwd' \in Places
  BY <1>1, <1>2, RootIsPlace
<1>5. 0 \in Places
  BY DEF Places
<1>6. iter'.it \in Its
  BY <1>1, <1>5, StartAt DEF NoIter
<1> QED
  BY <1>1, <1>2, <1>3, <1>4, <1>6, IdleIsNoNext, AtCallerTypes

LEMMA TypesFileOpen ==
    ASSUME Types, FileOpen
    PROVE  Types'
<1>1. PICK h \in Handles, n \in Names :
          Calls([op |-> "file", handle |-> h, name |-> n, it |-> Start(cwd), clean |-> TRUE])
  BY DEF FileOpen
<1>2. UNCHANGED <<AtCaller, cwd, iter>>
  BY DEF FileOpen
<1>3. Mounted /\ got' = Nothing
      /\ call' = [op |-> "file", handle |-> h, name |-> n, it |-> Start(cwd), clean |-> TRUE]
  BY <1>1, Calling
<1>4. cwd \in Places /\ iter.it \in Its
  BY DEF Types
<1>5. Start(cwd) \in Its
  BY <1>4, StartAt
<1>6. call' \in FileCalls /\ call' \notin NextCalls
  BY <1>3, <1>5 DEF FileCalls, NextCalls
<1> QED
  BY <1>2, <1>3, <1>4, <1>6, AtCallerTypes

LEMMA TypesDirOpen ==
    ASSUME Types, DirOpen
    PROVE  Types'
<1>1. PICK n \in DirNames : Calls([op |-> "dir", name |-> n, it |-> Start(cwd), clean |-> TRUE])
  BY DEF DirOpen
<1>2. UNCHANGED <<AtCaller, cwd>> /\ iter' = NoIter
  BY DEF DirOpen
<1>3. Mounted /\ got' = Nothing /\ call' = [op |-> "dir", name |-> n, it |-> Start(cwd), clean |-> TRUE]
  BY <1>1, Calling
<1>4. cwd \in Places /\ 0 \in Places
  BY DEF Types, Places
<1>5. Start(cwd) \in Its /\ Start(0) \in Its
  BY <1>4, StartAt
<1>6. call' \in DirCalls /\ call' \notin NextCalls
  BY <1>3, <1>5 DEF DirCalls, NextCalls
<1>7. iter'.it \in Its
  BY <1>2, <1>5 DEF NoIter
<1> QED
  BY <1>2, <1>3, <1>4, <1>6, <1>7, AtCallerTypes

LEMMA TypesDirIterStart ==
    ASSUME Types, DirIterStart
    PROVE  Types'
<1>1. Calls(call) /\ UNCHANGED <<AtCaller, cwd>>
      /\ iter' = [it |-> Start(cwd), seen |-> <<>>, state |-> "open", clean |-> TRUE]
  BY DEF DirIterStart
<1>2. Mounted /\ ~Walking /\ call' = call /\ got' = Nothing
  BY <1>1, Calling
<1>3. call = Idle
  BY <1>2, CallIsIdle
<1>4. cwd \in Places
  BY DEF Types
<1>5. iter'.it \in Its
  BY <1>1, <1>4, StartAt
<1> QED
  BY <1>1, <1>2, <1>3, <1>4, <1>5, IdleIsNoNext, AtCallerTypes

LEMMA TypesDirIterNext ==
    ASSUME Types, DirIterNext
    PROVE  Types'
<1>1. Calls([op |-> "next", it |-> iter.it, clean |-> TRUE]) /\ UNCHANGED <<AtCaller, cwd, iter>>
      /\ iter.state = "open"
  BY DEF DirIterNext
<1>2. Mounted /\ got' = Nothing /\ call' = [op |-> "next", it |-> iter.it, clean |-> TRUE]
  BY <1>1, Calling
<1>3. cwd \in Places /\ iter.it \in Its
  BY DEF Types
<1>4. call' \in NextCalls
  BY <1>2, <1>3 DEF NextCalls
<1>5. call'.it.head = iter'.it.head /\ iter'.state = "open"
  BY <1>1, <1>2
<1> QED
  BY <1>1, <1>2, <1>3, <1>4, <1>5, AtCallerTypes

LEMMA CleanIsBoolean ==
    ASSUME Types, Walking, NEW bad
    PROVE  Clean(bad) \in BOOLEAN
BY CallAt DEF Clean

(* The call goes on with another iterator.                                 *)
LEMMA CallGoesOn ==
    ASSUME Types, Walking, NEW it \in Its, it.head = call.it.head, NEW clean \in BOOLEAN,
           NEW c, c = [call EXCEPT !.it = it, !.clean = clean]
    PROVE  /\ c \in FileCalls \union DirCalls \union NextCalls /\ c.op = call.op
           /\ c.it = it
           /\ c.op # "next" => c.name = call.name
           /\ c \in NextCalls => call \in NextCalls /\ c.it.head = call.it.head
<1>1. call \in FileCalls \union DirCalls \union NextCalls
  BY CallAt
<1>2. CASE call \in FileCalls
  <2>1. c = [op |-> call.op, handle |-> call.handle, name |-> call.name, it |-> it, clean |-> clean]
    BY <1>2 DEF FileCalls
  <2> QED
    BY <1>2, <2>1 DEF FileCalls, NextCalls
<1>3. CASE call \in DirCalls
  <2>1. c = [op |-> call.op, name |-> call.name, it |-> it, clean |-> clean]
    BY <1>3 DEF DirCalls
  <2> QED
    BY <1>3, <2>1 DEF DirCalls, NextCalls
<1>4. CASE call \in NextCalls
  <2>1. c = [op |-> call.op, it |-> it, clean |-> clean]
    BY <1>4 DEF NextCalls
  <2> QED
    BY <1>4, <2>1 DEF NextCalls
<1> QED
  BY <1>1, <1>2, <1>3, <1>4

LEMMA CallClean ==
    ASSUME Types, Walking, NEW it, NEW x, NEW c, c = [call EXCEPT !.it = it, !.clean = x]
    PROVE  c.clean = x
<1>1. call \in FileCalls \union DirCalls \union NextCalls
  BY CallAt
<1>2. "clean" \in DOMAIN call
  BY <1>1 DEF FileCalls, DirCalls, NextCalls
<1> QED
  BY <1>2

LEMMA CallStays ==
    ASSUME Types, Walking, NEW it \in Its, it.head = call.it.head, NEW bad,
           call' = [call EXCEPT !.it = it, !.clean = Clean(bad)]
    PROVE  /\ call' \in FileCalls \union DirCalls \union NextCalls /\ call'.op = call.op
           /\ call'.it = it /\ call'.clean = Clean(bad)
           /\ call.op # "next" => call'.name = call.name
           /\ call' \in NextCalls => call \in NextCalls /\ call'.it.head = call.it.head
<1>1. PICK clean : clean = Clean(bad)
  OBVIOUS
<1>2. clean \in BOOLEAN
  BY <1>1, CleanIsBoolean
<1>3. PICK c : c = call'
  OBVIOUS
<1>4. c = [call EXCEPT !.it = it, !.clean = clean]
  BY <1>1, <1>3, Zenon
<1>5. c.clean = Clean(bad)
  <2>1. c.clean = clean
    BY <1>4, CallClean, Zenon
  <2> QED
    BY <1>1, <2>1, Zenon
<1>6. /\ c \in FileCalls \union DirCalls \union NextCalls /\ c.op = call.op /\ c.it = it
      /\ c.op # "next" => c.name = call.name
      /\ c \in NextCalls => call \in NextCalls /\ c.it.head = call.it.head
  BY <1>2, <1>4, CallGoesOn, Zenon
<1> QED
  BY <1>3, <1>5, <1>6, Zenon

LEMMA CallKinds ==
    ASSUME Types, Walking
    PROVE  /\ call.op = "file" => call \in FileCalls /\ call.handle \in Handles
           /\ call.op = "dir" => call \in DirCalls /\ call.name \in DirNames
           /\ call.op = "next" <=> call \in NextCalls
           /\ call.op \in {"file", "dir", "next"}
BY CallAt DEF FileCalls, DirCalls, NextCalls

LEMMA TypesWalk ==
    ASSUME Types, Walk
    PROVE  Types'
<1>1. Walking /\ UNCHANGED <<vol, fs, got>>
  BY DEF Walk
<1>2. PICK f, l, stop, bad : TurnIs(f, l, stop, bad)
  BY WalkTurns
<1>3. /\ bad \in Bad /\ Count(bad) /\ f.db \in Buffer /\ f.fb \in Buffer
      /\ l.it \in Its /\ l.it.head = call.it.head
      /\ l.entry # EndMark => Entered(vol, l.entry)
  BY <1>2 DEF TurnIs
<1>4. WalkIs(f, l, bad)
  BY <1>2 DEF TurnIs
<1>5. faults' \in 0..MaxFaults
  BY <1>3, Counted
<1>6. files' = [h \in Handles |-> files'[h]] /\ \A h \in Handles : IsFile(files'[h])
  <2>1. CASE Hit(l) /\ call.op = "file"
    <3>1. files' = [files EXCEPT ![call.handle] = OpenedFile(l.entry)]
      BY <1>4, <2>1 DEF WalkIs
    <3>2. IsFile(OpenedFile(l.entry))
      BY <1>3, <2>1, OpenedIsFile DEF Hit
    <3>3. call.handle \in Handles
      BY <1>1, <2>1, CallKinds
    <3> QED
      BY <1>1, <3>1, <3>2, <3>3, OneFileKept
  <2>2. CASE ~(Hit(l) /\ call.op = "file")
    <3>1. files' = files
      BY <1>4, <2>2 DEF WalkIs
    <3> QED
      BY <1>1, <3>1, FilesKept
  <2> QED
    BY <2>1, <2>2
<1>7. cwd' \in Places
  <2>1. CASE Hit(l) /\ call.op = "dir"
    <3>1. cwd' = l.entry.head
      BY <1>4, <2>1 DEF WalkIs
    <3>2. Entered(vol, l.entry) /\ l.entry.name \in {call.name, EndMark.name}
      BY <1>3, <2>1 DEF Hit, On
    <3>3. l.entry.name \in DirNames
      BY <1>1, <2>1, <3>2, CallKinds DEF Entered, EndMark
    <3> QED
      BY <3>1, <3>2, <3>3 DEF Entered, Places
  <2>2. CASE ~(Hit(l) /\ call.op = "dir")
    BY <1>4, <2>2 DEF WalkIs, Types
  <2> QED
    BY <2>1, <2>2
<1>8. CASE On(l)
  <2>1. call' = [call EXCEPT !.it = l.it, !.clean = Clean(bad)] /\ iter' = iter
    BY <1>4, <1>8 DEF WalkIs
  <2>2. /\ call' \in FileCalls \union DirCalls \union NextCalls
        /\ call' \in NextCalls => call \in NextCalls /\ call'.it.head = call.it.head
    BY <1>1, <1>3, <2>1, CallStays
  <2>3. Mounted
    BY <1>1 DEF Types
  <2>4. call' \in NextCalls => iter'.state = "open" /\ call'.it.head = iter'.it.head
    BY <2>1, <2>2 DEF Types
  <2>5. iter'.it \in Its /\ fs' \notin {NotMounted, Trapped} /\ fs' \in {NotMounted, Trapped, Geometry} /\ vol' = vol /\ vol \in Volumes
        /\ got'.ret \in -2..(Word - 1)
    BY <1>1, <2>1, <2>3 DEF Types, Mounted
  <2>6. databuf' \in Buffer /\ fatbuf' \in Buffer
    BY <1>3, <1>4 DEF WalkIs
  <2> QED
    BY <1>5, <1>6, <1>7, <2>2, <2>4, <2>5, <2>6, TypesKept
<1>9. CASE ~On(l)
  <2>1. call' = Idle
    BY <1>4, <1>9 DEF WalkIs
  <2>2. Mounted
    BY <1>1 DEF Types
  <2>3. iter'.it \in Its
    <3>1. CASE call.op = "next"
      <4>1. iter'.it = l.it
        BY <1>4, <1>9, <3>1 DEF WalkIs
      <4> QED
        BY <1>3, <4>1
    <3>2. CASE call.op # "next"
      BY <1>4, <3>2 DEF WalkIs, Types
    <3> QED
      BY <3>1, <3>2
  <2>4. fs' \notin {NotMounted, Trapped} /\ fs' \in {NotMounted, Trapped, Geometry} /\ vol' = vol /\ vol \in Volumes
        /\ got'.ret \in -2..(Word - 1)
    BY <1>1, <2>2 DEF Types, Mounted
  <2>5. databuf' \in Buffer /\ fatbuf' \in Buffer
    BY <1>3, <1>4 DEF WalkIs
  <2>6. call' \notin NextCalls
    BY <2>1, IdleIsNoNext
  <2> QED
    BY <1>5, <1>6, <1>7, <2>1, <2>3, <2>4, <2>5, <2>6, TypesKept
<1> QED
  BY <1>8, <1>9

LEMMA Multiple ==
    ASSUME NEW b \in Nat, NEW s \in Nat \ {0}
    PROVE  b * s \in Nat /\ b <= b * s
<1>1. PICK t \in Nat : s = t + 1
  <2>1. s - 1 \in Nat /\ s = (s - 1) + 1
    OBVIOUS
  <2> QED
    BY <2>1
<1>2. b * t \in Nat /\ b * s = b * t + b
  BY <1>1
<1> QED
  BY <1>2

(* A read of a file that has something left.                               *)
LEMMA Reading ==
    ASSUME Types, NEW h \in Handles, FileRead(h), ~IsEof(files[h])
    PROVE  \E r, a, bad :
              /\ a \in ReadArgs /\ bad \in Bad /\ Count(bad)
              /\ r = Read(files[h], a[1], a[2], bad)
              /\ databuf' = r.db /\ fatbuf' = r.at.fb
              /\ files' = [files EXCEPT ![h].cursor = r.cursor]
              /\ got' = [ret |-> r.blocks, data |-> r.data, clean |-> Honest /\ bad = {}]
BY DEF FileRead

LEMMA ReadIsReady ==
    ASSUME Types, NEW h \in Handles, ~IsEof(files[h]), Mounted, NEW a \in ReadArgs, NEW bad,
           NEW r, r = Read(files[h], a[1], a[2], bad)
    PROVE  /\ ReadIs(files[h], a[1], a[2], Honest /\ bad = {}, r)
           /\ a[1] \in 1..Quarter /\ a[2] \in Nat
           /\ Readable(files[h]) /\ files[h].size <= Quarter /\ files[h].cursor \in Nat
           /\ files[h].cursor < files[h].size
<1>1. IsFile(files[h]) /\ InDrive /\ databuf \in Buffer /\ fatbuf \in Buffer
  BY Mounts DEF Types
<1>2. files[h].size \in Nat /\ files[h].size <= Quarter /\ files[h].cursor \in Nat
  BY <1>1, PosIs
<1>3. files[h].cursor < files[h].size
  BY <1>2 DEF IsEof
<1>4. Readable(files[h])
  BY <1>1, <1>2, <1>3 DEF IsFile
<1>5. a[1] \in 1..Quarter /\ a[2] \in Nat
  BY CallsAssumption
<1>6. PICK clean \in BOOLEAN : clean = (Honest /\ bad = {})
  OBVIOUS
<1>7. clean => bad = {} /\ Honest
  BY <1>6
<1>8. ReadIs(files[h], a[1], a[2], clean, r)
  BY <1>1, <1>2, <1>3, <1>4, <1>5, <1>7, ReadDone
<1> QED
  BY <1>2, <1>3, <1>4, <1>5, <1>6, <1>8

LEMMA TypesFileRead ==
    ASSUME Types, NEW h \in Handles, FileRead(h)
    PROVE  Types'
<1>1. UNCHANGED <<vol, fs, cwd, iter, call>> /\ Mounted /\ ~Walking
  BY DEF FileRead, Ready
<1>2. /\ vol' = vol /\ vol \in Volumes /\ fs' \in {NotMounted, Trapped, Geometry} /\ fs' \notin {NotMounted, Trapped}
      /\ cwd' \in Places /\ iter'.it \in Its /\ call' = Idle /\ call' \notin NextCalls
  BY <1>1, CallIsIdle, IdleIsNoNext DEF Types, Mounted
<1>3. CASE IsEof(files[h])
  <2>1. got' = Result(-1) /\ UNCHANGED <<databuf, fatbuf, files, faults>>
    BY <1>3 DEF FileRead
  <2>2. got'.ret \in -2..(Word - 1)
    BY <2>1, Sizes DEF Result, Nothing
  <2>3. files' = [k \in Handles |-> files'[k]] /\ \A k \in Handles : IsFile(files'[k])
    BY <1>2, <2>1, FilesKept
  <2>4. databuf' \in Buffer /\ fatbuf' \in Buffer /\ faults' \in 0..MaxFaults
    BY <2>1 DEF Types
  <2> QED
    BY <1>2, <2>2, <2>3, <2>4, TypesKept
<1>4. CASE ~IsEof(files[h])
  <2>1. PICK r, a, bad :
              /\ a \in ReadArgs /\ bad \in Bad /\ Count(bad)
              /\ r = Read(files[h], a[1], a[2], bad)
              /\ databuf' = r.db /\ fatbuf' = r.at.fb
              /\ files' = [files EXCEPT ![h].cursor = r.cursor]
              /\ got' = [ret |-> r.blocks, data |-> r.data, clean |-> Honest /\ bad = {}]
    BY <1>4, Reading
  <2>2. /\ ReadIs(files[h], a[1], a[2], Honest /\ bad = {}, r)
        /\ a[1] \in 1..Quarter /\ files[h].size <= Quarter /\ files[h].cursor \in Nat
        /\ files[h].size \in Nat
    BY <1>1, <1>4, <2>1, ReadIsReady DEF Readable
  <2>3. r.db \in Buffer /\ r.at.fb \in Buffer /\ r.blocks \in Nat
        /\ r.cursor \in Nat /\ r.cursor <= files[h].size /\ r.cursor = files[h].cursor + r.blocks * a[1]
    BY <2>2 DEF ReadIs
  <2>4. PICK b \in Nat, s \in Nat \ {0} : b = r.blocks /\ s = a[1]
    BY <2>2, <2>3, Quarters
  <2>5. b * s \in Nat /\ b <= b * s
    BY Multiple
  <2>6. r.blocks \in -2..(Word - 1)
    BY <2>2, <2>3, <2>4, <2>5, Quarters
  <2>7. got'.ret \in -2..(Word - 1)
    BY <2>1, <2>6
  <2>8. IsFile(files[h]) /\ files = [k \in Handles |-> files[k]]
    BY DEF Types
  <2>9. r.cursor \in 0..(Word - 1)
    BY <2>2, <2>3, Quarters
  <2>10. IsFile([files[h] EXCEPT !.cursor = r.cursor])
    BY <2>3, <2>8, <2>9, MovedIsFile
  <2>11. files' = [files EXCEPT ![h] = [files[h] EXCEPT !.cursor = r.cursor]]
    BY <2>1, <2>8
  <2>12. files' = [k \in Handles |-> files'[k]] /\ \A k \in Handles : IsFile(files'[k])
    BY <1>2, <2>10, <2>11, OneFileKept
  <2>13. faults' \in 0..MaxFaults
    BY <2>1, Counted
  <2> QED
    BY <1>2, <2>1, <2>3, <2>7, <2>12, <2>13, TypesKept
<1> QED
  BY <1>3, <1>4

LEMMA TypesFileSeek ==
    ASSUME Types, NEW h \in Handles, FileSeek(h)
    PROVE  Types'
<1>1. UNCHANGED <<vol, fs, databuf, fatbuf, cwd, iter, call, faults>> /\ Mounted /\ ~Walking
  BY DEF FileSeek, Ready
<1>2. /\ vol' = vol /\ vol \in Volumes /\ fs' \in {NotMounted, Trapped, Geometry} /\ fs' \notin {NotMounted, Trapped}
      /\ cwd' \in Places /\ iter'.it \in Its /\ call' = Idle /\ call' \notin NextCalls
      /\ databuf' \in Buffer /\ fatbuf' \in Buffer /\ faults' \in 0..MaxFaults
  BY <1>1, CallIsIdle, IdleIsNoNext DEF Types, Mounted
<1>3. PICK a \in SeekArgs :
          LET refused == SeekRefused(files[h], a[1], a[2])
          IN  /\ files' = IF refused THEN files
                          ELSE [files EXCEPT ![h].cursor = SeekCursor(files[h], a[1], a[2])]
              /\ got' = Result(IF refused THEN 1 ELSE 0)
  BY DEF FileSeek
<1>4. got'.ret \in -2..(Word - 1)
  <2>1. got'.ret \in {0, 1}
    BY <1>3 DEF Result, Nothing
  <2> QED
    BY <2>1, Sizes
<1>5. IsFile(files[h]) /\ files = [k \in Handles |-> files[k]]
  BY DEF Types
<1>6. files' = [k \in Handles |-> files'[k]] /\ \A k \in Handles : IsFile(files'[k])
  <2>1. CASE SeekRefused(files[h], a[1], a[2])
    <3>1. files' = files
      BY <1>3, <2>1
    <3> QED
      BY <1>2, <3>1, FilesKept
  <2>2. CASE ~SeekRefused(files[h], a[1], a[2])
    <3>1. PICK n : n = SeekCursor(files[h], a[1], a[2])
      OBVIOUS
    <3>2. n \in 0..(Word - 1) /\ (n <= files[h].size \/ n >= Word - Quarter)
      BY <1>5, <2>2, <3>1, SeekLands
    <3>3. IsFile([files[h] EXCEPT !.cursor = n])
      BY <1>5, <3>2, MovedIsFile
    <3>4. files' = [files EXCEPT ![h] = [files[h] EXCEPT !.cursor = n]]
      BY <1>3, <1>5, <2>2, <3>1
    <3> QED
      BY <1>2, <3>3, <3>4, OneFileKept
  <2> QED
    BY <2>1, <2>2
<1> QED
  BY <1>2, <1>4, <1>6, TypesKept

LEMMA TypesFileTell ==
    ASSUME Types, NEW h \in Handles, FileTell(h)
    PROVE  Types'
<1>1. UNCHANGED <<vol, fs, databuf, fatbuf, files, cwd, iter, call, faults>> /\ Mounted /\ ~Walking
      /\ got' = Result(IF files[h].cursor > files[h].size THEN -1 ELSE files[h].cursor)
  BY DEF FileTell, Ready
<1>2. /\ vol' = vol /\ vol \in Volumes /\ fs' \in {NotMounted, Trapped, Geometry} /\ fs' \notin {NotMounted, Trapped}
      /\ cwd' \in Places /\ iter'.it \in Its /\ call' = Idle /\ call' \notin NextCalls
      /\ databuf' \in Buffer /\ fatbuf' \in Buffer /\ faults' \in 0..MaxFaults
  BY <1>1, CallIsIdle, IdleIsNoNext DEF Types, Mounted
<1>3. files[h].cursor \in 0..(Word - 1)
  BY DEF Types, IsFile
<1>4. got'.ret \in -2..(Word - 1)
  BY <1>1, <1>3, Sizes DEF Result, Nothing
<1>5. files' = [k \in Handles |-> files'[k]] /\ \A k \in Handles : IsFile(files'[k])
  BY <1>1, FilesKept
<1> QED
  BY <1>2, <1>4, <1>5, TypesKept

LEMMA TypesStep ==
    ASSUME Types, [Next]_vars
    PROVE  Types'
<1>1. CASE Mount
  BY <1>1, TypesMount
<1>2. CASE RootDirOpen
  BY <1>2, TypesRootDirOpen
<1>3. CASE FileOpen
  BY <1>3, TypesFileOpen
<1>4. CASE DirOpen
  BY <1>4, TypesDirOpen
<1>5. CASE DirIterStart
  BY <1>5, TypesDirIterStart
<1>6. CASE DirIterNext
  BY <1>6, TypesDirIterNext
<1>7. CASE Walk
  BY <1>7, TypesWalk
<1>8. ASSUME NEW h \in Handles, FileRead(h)
      PROVE  Types'
  BY <1>8, TypesFileRead
<1>9. ASSUME NEW h \in Handles, FileSeek(h)
      PROVE  Types'
  BY <1>9, TypesFileSeek
<1>10. ASSUME NEW h \in Handles, FileTell(h)
       PROVE  Types'
  BY <1>10, TypesFileTell
<1>11. CASE UNCHANGED vars
  <2>1. UNCHANGED <<vol, fs, databuf, fatbuf, files, cwd, iter, call, got, faults>>
    BY <1>11 DEF vars
  <2>2. files' = [k \in Handles |-> files'[k]] /\ \A k \in Handles : IsFile(files'[k])
    BY <2>1, FilesKept
  <2>3. /\ vol' = vol /\ vol \in Volumes /\ fs' \in {NotMounted, Trapped, Geometry}
        /\ databuf' \in Buffer /\ fatbuf' \in Buffer /\ cwd' \in Places /\ iter'.it \in Its
        /\ iter'.state = "open" => fs' # NotMounted
        /\ call' \in {Idle} \union FileCalls \union DirCalls \union NextCalls
        /\ call'.op # "none" => fs' \notin {NotMounted, Trapped}
        /\ call' \in NextCalls => iter'.state = "open" /\ call'.it.head = iter'.it.head
        /\ got'.ret \in -2..(Word - 1) /\ faults' \in 0..MaxFaults
    BY <2>1 DEF Types, Mounted, Walking
  <2> QED
    BY <2>2, <2>3, TypesKept
<1> QED
  BY <1>1, <1>2, <1>3, <1>4, <1>5, <1>6, <1>7, <1>8, <1>9, <1>10, <1>11 DEF Next

LEMMA TypesAlways == Spec => []Types
<1>1. Init => Types
  BY TypesInit
<1>2. Types /\ [Next]_vars => Types'
  BY TypesStep
<1> QED
  BY <1>1, <1>2, PTL DEF Spec

(* The type invariant of the FAT file system: a cursor is a word, a cache  *)
(* holds a sector of the disk, and no iterator is past its block           *)
(* (fat_dir_iter_next never asks for a second block).                      *)
THEOREM TypeCorrect == Spec => []TypeOK
<1>1. Types => TypeOK
  <2> SUFFICES ASSUME Types
               PROVE  TypeOK
    OBVIOUS
  <2>1. ASSUME NEW h \in Handles
        PROVE  files[h].cursor \in 0..(Word - 1) /\ files[h].size < Word
    <3>1. files[h].size \in 0..Quarter /\ files[h].cursor \in 0..(Word - 1)
      BY DEF Types, IsFile
    <3> QED
      BY <3>1, Quarters
  <2>2. ASSUME Mounted
        PROVE  iter.it.entry \in 0..EntriesPerBlock(iter.it.head)
    <3>1. iter.it \in Its /\ InDrive
      BY <2>2, Mounts DEF Types
    <3>2. EntriesPerBlock(iter.it.head) = Per
      BY <3>1, NoAdvance
    <3> QED
      BY <3>1, <3>2 DEF Its
  <2> QED
    BY <2>1, <2>2 DEF Types, TypeOK
<1> QED
  BY <1>1, TypesAlways, PTL

-----------------------------------------------------------------------------
(* The files as FileApi has them.                                          *)

LEMMA Fits ==
    ASSUME NEW b \in Nat, NEW count \in Nat, NEW s \in Nat \ {0}, NEW rest \in Nat,
           b <= count, b * s <= rest, b = count \/ b * s + s > rest
    PROVE  b = Min({count, rest \div s})
<1>1. PICK d \in Nat, m \in 0..(s - 1) : d = rest \div s /\ m = rest % s
  BY DivMod
<1>2. rest = d * s + m
  BY <1>1, DivMod
<1>3. (d + 1) * s = d * s + s /\ (b + 1) * s = b * s + s /\ d * s \in Nat /\ b * s \in Nat
  OBVIOUS
<1>4. b < d + 1
  <2>1. b * s < (d + 1) * s
    BY <1>2, <1>3
  <2>2. d + 1 \in Nat
    OBVIOUS
  <2> QED
    BY ONLY <2>1, <2>2, b \in Nat, s \in Nat \ {0}, Below
<1>5. ASSUME b # count
      PROVE  d < b + 1
  <2>1. d * s < (b + 1) * s
    BY <1>2, <1>3, <1>5
  <2>2. b + 1 \in Nat
    OBVIOUS
  <2> QED
    BY ONLY <2>1, <2>2, d \in Nat, s \in Nat \ {0}, Below
<1>6. PICK n : n = Min({count, d})
  OBVIOUS
<1>7. n \in {count, d} /\ n <= count /\ n <= d
  BY <1>6, MinTwo DEF MinOf
<1>8. b = n
  BY <1>4, <1>5, <1>7
<1> QED
  BY <1>1, <1>6, <1>8

LEMMA BytesAre ==
    ASSUME NEW f, f.size \in Nat
    PROVE  /\ Len(BytesOf(f)) = f.size
           /\ BytesOf(f) \in Seq({BytesOf(f)[i] : i \in 1..f.size})
<1>1. PICK b : b = BytesOf(f)
  OBVIOUS
<1>2. DOMAIN b = 1..f.size /\ b = [i \in 1..f.size |-> b[i]]
  BY <1>1 DEF BytesOf
<1>3. b \in Seq({b[i] : i \in 1..f.size}) /\ Len(b) = f.size
  BY <1>2
<1> QED
  BY <1>1, <1>3

LEMMA PartOf ==
    ASSUME NEW S, NEW T, NEW s \in Seq(S), NEW data \in Seq(T), NEW p \in Nat, NEW m \in Nat,
           p + m <= Len(s), Len(data) = m, \A j \in 1..m : data[j] = s[p + j]
    PROVE  data = SubSeq(s, p + 1, p + m)
<1>1. PICK t : t = SubSeq(s, p + 1, p + m)
  OBVIOUS
<1>2. Len(t) = m /\ t \in Seq(S) /\ \A j \in 1..m : t[j] = s[p + j]
  BY <1>1
<1>3. data = [j \in 1..m |-> data[j]] /\ t = [j \in 1..m |-> t[j]]
  BY <1>2
<1>4. data = t
  BY <1>2, <1>3
<1> QED
  BY <1>1, <1>4

(* What a step does to the files, in the volume that stays.                *)
LEMMA AllFilesNext ==
    ASSUME vol' = vol
    PROVE  AllFiles' = [h \in Handles |-> FileOf(files'[h])]
BY DEF AllFiles, FileOf, BytesOf, SectorAt, Position

LEMMA AllFilesKept ==
    ASSUME UNCHANGED <<vol, files>>
    PROVE  AllFiles' = AllFiles
BY AllFilesNext DEF AllFiles

LEMMA OneFileNext ==
    ASSUME Types, UNCHANGED vol, NEW h \in Handles, NEW f, files' = [files EXCEPT ![h] = f]
    PROVE  AllFiles' = [AllFiles EXCEPT ![h] = FileOf(f)]
<1>1. files = [k \in Handles |-> files[k]]
  BY DEF Types
<1>2. files' = [k \in Handles |-> IF k = h THEN f ELSE files[k]]
  BY <1>1
<1>3. AllFiles' = [k \in Handles |-> FileOf(files'[k])]
  BY AllFilesNext
<1>4. AllFiles = [k \in Handles |-> FileOf(files[k])]
  BY DEF AllFiles
<1>5. AllFiles' = [k \in Handles |-> IF k = h THEN FileOf(f) ELSE FileOf(files[k])]
  BY <1>2, <1>3
<1> QED
  BY <1>4, <1>5

(* A file that moves keeps its bytes.                                      *)
LEMMA FileMoves ==
    ASSUME NEW f, IsFile(f), NEW n, NEW pos, pos = IF n <= f.size THEN n ELSE n - Word
    PROVE  FileOf([f EXCEPT !.cursor = n]) = [FileOf(f) EXCEPT !.pos = pos]
<1>1. PICK g : g = [f EXCEPT !.cursor = n]
  OBVIOUS
<1>2. g.size = f.size /\ g.head = f.head /\ g.cursor = n
  BY <1>1 DEF IsFile
<1>3. BytesOf(g) = BytesOf(f)
  BY <1>2 DEF BytesOf
<1>4. Position(g) = pos
  BY <1>2 DEF Position
<1>5. FileOf(g) = [bytes |-> BytesOf(f), pos |-> pos]
  BY <1>3, <1>4 DEF FileOf
<1>6. FileOf(f) = [bytes |-> BytesOf(f), pos |-> Position(f)]
  BY DEF FileOf
<1> QED
  BY <1>1, <1>5, <1>6

LEMMA FileAt ==
    ASSUME Types, NEW h \in Handles
    PROVE  /\ AllFiles[h] = FileOf(files[h]) /\ IsFile(files[h])
           /\ AllFiles[h].bytes = BytesOf(files[h]) /\ AllFiles[h].pos = Position(files[h])
           /\ Len(AllFiles[h].bytes) = files[h].size /\ files[h].size \in Nat
<1>1. AllFiles[h] = FileOf(files[h])
  BY DEF AllFiles
<1>2. IsFile(files[h])
  BY DEF Types
<1>3. files[h].size \in Nat
  BY <1>2, PosIs
<1>4. Len(BytesOf(files[h])) = files[h].size
  BY <1>3, BytesAre
<1> QED
  BY <1>1, <1>2, <1>3, <1>4 DEF FileOf

LEMMA ApiInit ==
    ASSUME Init
    PROVE  Api!Init
<1>1. got = Nothing /\ files = [h \in Handles |-> Closed]
  BY DEF Init
<1>2. Closed.size = 0 /\ Closed.cursor = 0
  BY DEF Closed
<1>3. BytesOf(Closed) = <<>>
  <2>1. PICK b : b = BytesOf(Closed)
    OBVIOUS
  <2>2. DOMAIN b = 1..0 /\ b = [i \in 1..0 |-> b[i]]
    BY <1>2, <2>1 DEF BytesOf
  <2>3. b = <<>>
    BY <2>2
  <2> QED
    BY <2>1, <2>3
<1>4. FileOf(Closed) = [bytes |-> <<>>, pos |-> 0]
  BY <1>2, <1>3 DEF FileOf, Position
<1>5. \A h \in Handles : AllFiles[h] = [bytes |-> <<>>, pos |-> 0]
  BY <1>1, <1>4 DEF AllFiles
<1> QED
  BY <1>1, <1>5 DEF Api!Init, Nothing, Api!Nothing

(* Calls that are about no file, and turns of a walk that opens none.      *)
LEMMA OtherStep ==
    ASSUME UNCHANGED <<vol, files>>, got' = Nothing
    PROVE  Api!Next
<1>1. AllFiles' = AllFiles
  BY AllFilesKept
<1>2. Api!Other
  BY <1>1 DEF Api!Other, Nothing, Api!Nothing
<1> QED
  BY <1>2 DEF Api!Next

LEMMA WalkKeepsPromise ==
    ASSUME Types, Walk
    PROVE  Api!Next \/ UNCHANGED <<AllFiles, got>>
<1>1. Walking /\ UNCHANGED <<vol, got>>
  BY DEF Walk
<1>2. PICK f, l, stop, bad : TurnIs(f, l, stop, bad)
  BY WalkTurns
<1>3. WalkIs(f, l, bad) /\ (l.entry # EndMark => Entered(vol, l.entry))
  BY <1>2 DEF TurnIs
<1>4. CASE Hit(l) /\ call.op = "file"
  <2>1. PICK h \in Handles : h = call.handle
    BY <1>1, <1>4, CallKinds
  <2>2. PICK f1 : f1 = OpenedFile(l.entry)
    OBVIOUS
  <2>3. files' = [files EXCEPT ![h] = f1]
    BY <1>3, <1>4, <2>1, <2>2 DEF WalkIs
  <2>4. AllFiles' = [AllFiles EXCEPT ![h] = FileOf(f1)]
    BY <1>1, <2>3, OneFileNext
  <2>5. IsFile(f1)
    BY <1>3, <1>4, <2>2, OpenedIsFile DEF Hit
  <2>6. f1.cursor = 0 /\ f1.size \in Nat
    BY <2>2, <2>5, PosIs DEF OpenedFile
  <2>7. FileOf(f1) = [bytes |-> BytesOf(f1), pos |-> 0]
    BY <2>6 DEF FileOf, Position
  <2>8. AllFiles'[h] = FileOf(f1)
    BY <2>4 DEF AllFiles
  <2>9. AllFiles' = [AllFiles EXCEPT ![h] = [bytes |-> AllFiles'[h].bytes, pos |-> 0]]
    <3>1. AllFiles'[h].bytes = BytesOf(f1)
      BY <2>7, <2>8
    <3> QED
      BY <2>4, <2>7, <3>1, Zenon
  <2>10. Api!Open(h)
    BY <1>1, <2>9 DEF Api!Open
  <2> QED
    BY <2>10 DEF Api!Next
<1>5. CASE ~(Hit(l) /\ call.op = "file")
  <2>1. files' = files
    BY <1>3, <1>5 DEF WalkIs
  <2> QED
    BY <1>1, <2>1, AllFilesKept
<1> QED
  BY <1>4, <1>5

LEMMA ReadKeepsPromise ==
    ASSUME Types, NEW h \in Handles, FileRead(h)
    PROVE  Api!Next
<1>1. UNCHANGED vol /\ Mounted
  BY DEF FileRead, Ready
<1>2. PICK fl : fl = AllFiles[h]
  OBVIOUS
<1>3. /\ IsFile(files[h]) /\ fl.bytes = BytesOf(files[h]) /\ fl.pos = Position(files[h])
      /\ Len(fl.bytes) = files[h].size /\ files[h].size \in Nat /\ fl = FileOf(files[h])
  BY <1>2, FileAt
<1>4. /\ Position(files[h]) \in Int /\ files[h].cursor \in Nat
      /\ Position(files[h]) >= 0 <=> files[h].cursor <= files[h].size
  BY <1>3, PosIs
<1>5. CASE IsEof(files[h])
  <2>1. got' = Result(-1) /\ UNCHANGED files
    BY <1>5 DEF FileRead
  <2>2. got'.ret = -1 /\ got'.data = <<>>
    BY <2>1 DEF Result, Nothing
  <2>3. AllFiles' = AllFiles
    BY <1>1, <2>1, AllFilesKept
  <2>4. fl.pos \notin 0..(Len(fl.bytes) - 1)
    BY <1>3, <1>4, <1>5 DEF IsEof, Position
  <2>5. Api!AtEnd(AllFiles[h])
    BY <1>2, <2>4 DEF Api!AtEnd
  <2>6. Api!ReadNothing(h)
    BY <2>2, <2>3, <2>5 DEF Api!ReadNothing
  <2> QED
    BY <2>6 DEF Api!Next
<1>6. CASE ~IsEof(files[h])
  <2>1. PICK r, a, bad :
              /\ a \in ReadArgs /\ bad \in Bad /\ Count(bad)
              /\ r = Read(files[h], a[1], a[2], bad)
              /\ databuf' = r.db /\ fatbuf' = r.at.fb
              /\ files' = [files EXCEPT ![h].cursor = r.cursor]
              /\ got' = [ret |-> r.blocks, data |-> r.data, clean |-> Honest /\ bad = {}]
    BY <1>6, Reading
  <2>2. PICK clean \in BOOLEAN : clean = (Honest /\ bad = {})
    OBVIOUS
  <2>3. PICK f : f = files[h]
    OBVIOUS
  <2>4. /\ ReadIs(f, a[1], a[2], clean, r) /\ a[1] \in 1..Quarter /\ a[2] \in Nat
        /\ f.cursor \in Nat /\ f.cursor < f.size /\ f.size \in Nat
    BY <1>1, <1>3, <1>6, <2>1, <2>2, <2>3, ReadIsReady
  <2>5. PICK p \in Nat, len \in Nat, s \in Nat \ {0}, count \in Nat, b \in Nat :
             p = f.cursor /\ len = f.size /\ s = a[1] /\ count = a[2] /\ b = r.blocks
    <3>1. a[1] \in Nat \ {0}
      BY <2>4, Quarters
    <3>2. r.blocks \in Nat
      BY <2>4 DEF ReadIs
    <3>3. f.cursor \in Nat /\ f.size \in Nat /\ a[2] \in Nat
      BY <2>4
    <3> QED
      BY ONLY <3>1, <3>2, <3>3
  <2>6. /\ b <= count /\ r.cursor \in Nat /\ r.cursor <= len /\ r.cursor = p + b * s
        /\ r.data \in Seq(Int \X Int) /\ Len(r.data) = r.cursor - p
        /\ b = count \/ r.cursor + s > len
        /\ clean => DataRight(f, p, r)
    BY <2>4, <2>5 DEF ReadIs
  <2>7. PICK m \in Nat : m = b * s
    OBVIOUS
  <2>8. p + m <= len /\ Len(r.data) = m /\ p < len /\ len - p \in Nat
        /\ b * s <= len - p /\ (b = count \/ b * s + s > len - p)
    <3>1. PICK k \in Nat : k = r.cursor
      BY <2>6
    <3>2. k = p + m /\ k <= len /\ p < len
      BY <2>4, <2>5, <2>6, <2>7, <3>1
    <3>3. b = count \/ k + s > len
      BY <2>6, <3>1
    <3>4. Len(r.data) = k - p
      BY <2>6, <3>1
    <3>5. Len(r.data) = m
      BY <3>2, <3>4
    <3> QED
      BY <2>7, <3>2, <3>3, <3>5
  <2>9. b = Min({count, (len - p) \div s})
    <3>1. PICK rest \in Nat : rest = len - p
      BY <2>8
    <3>2. b <= count /\ b * s <= rest /\ (b = count \/ b * s + s > rest)
      BY <2>6, <2>8, <3>1
    <3>3. b = Min({count, rest \div s})
      BY ONLY <3>2, b \in Nat, count \in Nat, s \in Nat \ {0}, rest \in Nat, Fits
    <3> QED
      BY <3>1, <3>3, Zenon
  <2>10. fl.pos = p /\ Len(fl.bytes) = len /\ fl.bytes = BytesOf(f)
    BY <1>3, <2>3, <2>4, <2>5 DEF Position
  <2>11. ~Api!AtEnd(AllFiles[h])
    BY <1>2, <2>8, <2>10 DEF Api!AtEnd
  <2>12. b = Api!Min({a[2], (Len(AllFiles[h].bytes) - AllFiles[h].pos) \div a[1]})
    BY <1>2, <2>5, <2>9, <2>10 DEF Min, Api!Min
  <2>13. got'.ret = b /\ got'.data = r.data /\ got'.clean = clean
    BY <2>1, <2>2, <2>5
  <2>14. ASSUME clean
         PROVE  r.data = SubSeq(fl.bytes, p + 1, p + m)
    <3>1. fl.bytes \in Seq({BytesOf(f)[i] : i \in 1..f.size}) /\ Len(fl.bytes) = len
      BY <2>4, <2>10, BytesAre
    <3>2. \A j \in 1..m : r.data[j] = fl.bytes[p + j]
      BY <2>6, <2>8, <2>10, <2>14 DEF DataRight
    <3> QED
      BY <2>6, <2>8, <3>1, <3>2, PartOf
  <2>15. AllFiles' = [AllFiles EXCEPT ![h].pos = @ + b * s]
    <3>1. files' = [files EXCEPT ![h] = [f EXCEPT !.cursor = r.cursor]]
      BY <2>1, <2>3 DEF Types
    <3>2. AllFiles' = [AllFiles EXCEPT ![h] = FileOf([f EXCEPT !.cursor = r.cursor])]
      BY <1>1, <3>1, OneFileNext
    <3>3. p + m = IF r.cursor <= f.size THEN r.cursor ELSE r.cursor - Word
      BY <2>5, <2>6, <2>7
    <3>4. FileOf([f EXCEPT !.cursor = r.cursor]) = [FileOf(f) EXCEPT !.pos = p + m]
      BY <1>3, <2>3, <3>3, FileMoves
    <3>5. FileOf(f) = AllFiles[h]
      BY <1>2, <1>3, <2>3
    <3>6. AllFiles' = [AllFiles EXCEPT ![h] = [AllFiles[h] EXCEPT !.pos = p + m]]
      BY <3>2, <3>4, <3>5
    <3>7. AllFiles[h].pos = p
      BY <1>2, <2>10
    <3> QED
      BY <2>7, <3>6, <3>7
  <2>16. Api!Read(h, a[1], a[2])
    <3>1. PICK n : n = Api!Min({a[2], (Len(AllFiles[h].bytes) - AllFiles[h].pos) \div a[1]})
      OBVIOUS
    <3>2. n = b
      BY <2>12, <3>1
    <3>3. /\ ~Api!AtEnd(AllFiles[h])
          /\ got'.ret = n /\ Len(got'.data) = n * a[1]
          /\ got'.clean => got'.data = SubSeq(AllFiles[h].bytes, AllFiles[h].pos + 1, AllFiles[h].pos + n * a[1])
          /\ AllFiles' = [AllFiles EXCEPT ![h].pos = @ + n * a[1]]
      BY <1>2, <2>5, <2>7, <2>8, <2>10, <2>11, <2>13, <2>14, <2>15, <3>2
    <3> QED
      BY <3>1, <3>3 DEF Api!Read
  <2> QED
    BY <2>1, <2>16 DEF Api!Next
<1> QED
  BY <1>5, <1>6

LEMMA SeekKeepsPromise ==
    ASSUME Types, NEW h \in Handles, FileSeek(h)
    PROVE  Api!Next
<1>1. UNCHANGED vol
  BY DEF FileSeek
<1>2. PICK a \in SeekArgs :
          LET refused == SeekRefused(files[h], a[1], a[2])
          IN  /\ files' = IF refused THEN files
                          ELSE [files EXCEPT ![h].cursor = SeekCursor(files[h], a[1], a[2])]
              /\ got' = Result(IF refused THEN 1 ELSE 0)
  BY DEF FileSeek
<1>3. PICK f : f = files[h]
  OBVIOUS
<1>4. /\ IsFile(f) /\ AllFiles[h].bytes = BytesOf(f) /\ AllFiles[h].pos = Position(f)
      /\ Len(AllFiles[h].bytes) = f.size /\ f.size \in Nat /\ AllFiles[h] = FileOf(f)
  BY <1>3, FileAt
<1>5. a[1] \in {"set", "cur", "end"} /\ a[2] \in -Quarter..Quarter
  BY CallsAssumption
<1>6. PICK to : to = Target(f, a[1], a[2])
  OBVIOUS
<1>7. /\ to \in Int /\ to >= -2 * Quarter
      /\ SeekCursor(f, a[1], a[2]) = Unsigned(to)
      /\ ~SeekRefused(f, a[1], a[2]) <=> to <= f.size /\ (a[1] # "end" => to >= 0)
  BY <1>4, <1>5, <1>6, Seeks
<1>8. to = a[2] + [set |-> 0, cur |-> AllFiles[h].pos, end |-> Len(AllFiles[h].bytes)][a[1]]
  BY <1>4, <1>6 DEF Target
<1>9. PICK taken \in BOOLEAN : taken = (to <= Len(AllFiles[h].bytes) /\ (a[1] # "end" => to >= 0))
  OBVIOUS
<1>10. taken <=> ~SeekRefused(f, a[1], a[2])
  BY <1>4, <1>7, <1>9
<1>11. got'.ret = IF taken THEN 0 ELSE 1
  BY <1>2, <1>3, <1>10 DEF Result, Nothing
<1>12. AllFiles' = IF taken THEN [AllFiles EXCEPT ![h].pos = to] ELSE AllFiles
  <2>1. CASE ~taken
    <3>1. files' = files
      BY <1>2, <1>3, <1>10, <2>1
    <3> QED
      BY <1>1, <2>1, <3>1, AllFilesKept
  <2>2. CASE taken
    <3>1. PICK n : n = SeekCursor(f, a[1], a[2])
      OBVIOUS
    <3>2. files' = [files EXCEPT ![h] = [f EXCEPT !.cursor = n]]
      BY <1>2, <1>3, <1>10, <2>2, <3>1 DEF Types
    <3>3. AllFiles' = [AllFiles EXCEPT ![h] = FileOf([f EXCEPT !.cursor = n])]
      BY <1>1, <3>2, OneFileNext
    <3>4. to = IF n <= f.size THEN n ELSE n - Word
      <4>1. f.size \in 0..Quarter /\ f.size <= Quarter
        BY <1>4 DEF IsFile
      <4>2. to <= f.size /\ to < Word
        BY <1>4, <1>7, <1>10, <2>2, <4>1, Quarters
      <4>3. to >= 0 => n = to
        BY <1>7, <3>1, <4>2, Wraps
      <4>4. to < 0 => n = to + Word
        BY <1>7, <3>1, <4>2, Wraps
      <4> QED
        BY <1>4, <1>7, <4>1, <4>2, <4>3, <4>4, Quarters
    <3>5. FileOf([f EXCEPT !.cursor = n]) = [FileOf(f) EXCEPT !.pos = to]
      BY <1>4, <3>4, FileMoves
    <3> QED
      BY <1>4, <2>2, <3>3, <3>5
  <2> QED
    BY <2>1, <2>2
<1>13. Api!Seek(h, a[1], a[2])
  BY <1>8, <1>9, <1>11, <1>12 DEF Api!Seek
<1> QED
  BY <1>13 DEF Api!Next

LEMMA TellKeepsPromise ==
    ASSUME Types, NEW h \in Handles, FileTell(h)
    PROVE  Api!Next
<1>1. UNCHANGED <<vol, files>> /\ got' = Result(IF files[h].cursor > files[h].size THEN -1 ELSE files[h].cursor)
  BY DEF FileTell
<1>2. IsFile(files[h]) /\ AllFiles[h].pos = Position(files[h])
  BY FileAt
<1>3. /\ Position(files[h]) \in Int /\ files[h].cursor \in Nat /\ files[h].size \in Nat
      /\ Position(files[h]) >= 0 <=> files[h].cursor <= files[h].size
  BY <1>2, PosIs
<1>4. got'.ret = IF AllFiles[h].pos >= 0 THEN AllFiles[h].pos ELSE -1
  BY <1>1, <1>2, <1>3 DEF Result, Nothing, Position
<1>5. AllFiles' = AllFiles
  BY <1>1, AllFilesKept
<1>6. Api!Tell(h)
  BY <1>4, <1>5 DEF Api!Tell
<1> QED
  BY <1>6 DEF Api!Next

LEMMA KeepsPromise ==
    ASSUME Types, [Next]_vars
    PROVE  [Api!Next]_<<AllFiles, got>>
<1>1. ASSUME Mount \/ RootDirOpen \/ FileOpen \/ DirOpen \/ DirIterStart \/ DirIterNext
      PROVE  Api!Next
  <2>1. UNCHANGED <<vol, files>> /\ got' = Nothing
    BY <1>1 DEF Mount, RootDirOpen, FileOpen, DirOpen, DirIterStart, DirIterNext, Calls, AtCaller
  <2> QED
    BY <2>1, OtherStep
<1>2. CASE Walk
  BY <1>2, WalkKeepsPromise
<1>3. ASSUME NEW h \in Handles, FileRead(h)
      PROVE  Api!Next
  BY <1>3, ReadKeepsPromise
<1>4. ASSUME NEW h \in Handles, FileSeek(h)
      PROVE  Api!Next
  BY <1>4, SeekKeepsPromise
<1>5. ASSUME NEW h \in Handles, FileTell(h)
      PROVE  Api!Next
  BY <1>5, TellKeepsPromise
<1>6. CASE UNCHANGED vars
  BY <1>6, AllFilesKept DEF vars
<1> QED
  BY <1>1, <1>2, <1>3, <1>4, <1>5, <1>6 DEF Next

(* fat.c keeps what its header promises of files, whatever the volume, the *)
(* other files and directories in use and the sectors that fail: a read    *)
(* hands over the file's own bytes in whole blocks, a seek goes where it   *)
(* is told, and no other call moves a file.                                *)
THEOREM KeepsFilePromise == Spec => FilesKeepPromise
<1>1. Init => Api!Init
  BY ApiInit
<1>2. Types /\ [Next]_vars => [Api!Next]_<<AllFiles, got>>
  BY KeepsPromise
<1> QED
  BY <1>1, <1>2, TypesAlways, PTL DEF Spec, FilesKeepPromise, Api!Spec

-----------------------------------------------------------------------------
(* What a turn finds, if nothing fails and no file is hidden from it.      *)

Scanned(l, stop) ==
    LET e == Entries(call.it.head)
        from == call.it.entry
    IN  /\ stop \in from..Per /\ Len(e) \in 0..Per /\ from \in Nat
        /\ \A i \in from..(stop - 1) : i < Len(e) => ~Visible(e[i + 1])
        /\ from <= Len(e) => stop <= Len(e)
        /\ stop = Per => l.more /\ l.entry = EndMark /\ l.it.entry = Per
        /\ stop < Per => ~l.more
        /\ stop < Per /\ stop < Len(e) =>
              /\ l.entry = e[stop + 1] /\ l.entry # EndMark /\ Visible(l.entry)
              /\ l.entry \in ToSet(e) /\ l.it.entry = stop + 1
        /\ stop < Per /\ stop >= Len(e) => l.entry = EndMark /\ l.it.entry = stop

LEMMA ScansRight ==
    ASSUME Types, Walking, NEW f, NEW l, NEW stop, NEW bad, TurnIs(f, l, stop, bad), Honest, bad = {},
           NoHidden(vol)
    PROVE  Scanned(l, stop)
<1>1. call.it \in Its /\ vol \in Volumes
  BY CallAt DEF Types
<1>2. PICK holds : holds = DirSector(call.it.head)
  OBVIOUS
<1>3. Found(call.it, holds, l, stop)
  BY <1>2 DEF TurnIs
<1>4. PICK e : e = Entries(call.it.head)
  OBVIOUS
<1>5. e = SectorEntries(holds)
  BY <1>2, <1>4, EntriesOf
<1>6. /\ Len(e) \in 0..Per /\ ToSet(e) = {e[i] : i \in 1..Len(e)}
      /\ \A i \in 1..Len(e) : Entered(vol, e[i]) /\ e[i] \in ToSet(e)
      /\ \A i \in Nat : EntryAt(holds, i) = IF i < Len(e) THEN e[i + 1] ELSE EndMark
  BY <1>1, <1>5, Entering
<1>7. PICK from \in Nat : from = call.it.entry
  BY <1>1 DEF Its
<1>8. from <= Per /\ Per \in Nat /\ Len(e) \in Nat /\ Len(e) <= Per /\ stop \in from..Per /\ stop \in Nat
  <2>1. Per \in Nat /\ Len(e) \in Nat /\ Len(e) <= Per
    <3>1. Len(e) \in 0..Per
      BY <1>6, Zenon
    <3>2. Per \in 1..255
      BY Sizes
    <3> QED
      BY ONLY <3>1, <3>2
  <2>2. stop \in from..Per
    BY <1>3, <1>7 DEF Found
  <2>3. from \in 0..Per
    BY <1>1, <1>7 DEF Its
  <2> QED
    BY <2>1, <2>2, <2>3
<1>9. \A i \in from..(stop - 1) : ~Stops(EntryAt(holds, i))
  BY <1>3, <1>7 DEF Found
<1>10. Stops(EndMark) /\ EndMark.name = "end"
  BY DEF Stops, EndMark, Deleted
<1>11. ASSUME NEW x \in ToSet(e), Visible(x)
       PROVE  Stops(x)
  <2>1. e = vol.rows[holds] /\ holds \in DOMAIN vol.rows
    <3>1. CASE holds \in DOMAIN vol.rows
      BY <1>5, <3>1 DEF SectorEntries
    <3>2. CASE holds \notin DOMAIN vol.rows
      <4>1. Len(e) = 0
        BY <1>5, <3>2 DEF SectorEntries
      <4>2. 1..Len(e) = {}
        BY <4>1
      <4> QED
        BY <1>6, <1>11, <4>2
    <3> QED
      BY <3>1, <3>2
  <2>2. x.attr \intersect LfnEntry # {} => "volume" \in x.attr
    BY <1>11, <2>1 DEF NoHidden
  <2> QED
    BY <1>11, <2>2 DEF Visible, Stops
<1>12. ASSUME NEW i \in from..(stop - 1), i < Len(e)
       PROVE  ~Visible(e[i + 1])
  <2>1. i \in Nat /\ i + 1 \in 1..Len(e)
    BY <1>7, <1>8, <1>12
  <2>2. EntryAt(holds, i) = e[i + 1] /\ e[i + 1] \in ToSet(e)
    BY <1>6, <1>12, <2>1
  <2> QED
    BY <1>9, <1>11, <2>2
<1>13. ASSUME from <= Len(e), stop > Len(e)
       PROVE  FALSE
  <2>1. Len(e) \in from..(stop - 1)
    BY <1>7, <1>8, <1>13
  <2>2. EntryAt(holds, Len(e)) = EndMark
    BY <1>6, <1>8
  <2> QED
    BY <1>9, <1>10, <2>1, <2>2
<1>14. ASSUME stop = Per
       PROVE  l.more /\ l.entry = EndMark /\ l.it.entry = Per
  <2>1. l.more /\ l.entry = EndMark /\ l.it = [call.it EXCEPT !.entry = Per]
    BY <1>3, <1>14 DEF Found
  <2> QED
    BY <1>1, <2>1 DEF Its
<1>15. ASSUME stop < Per
       PROVE  /\ ~l.more /\ l.entry = EntryAt(holds, stop) /\ Stops(l.entry)
              /\ l.it.entry = IF l.entry = EndMark THEN stop ELSE stop + 1
  <2>1. /\ ~l.more /\ l.entry = EntryAt(holds, stop) /\ Stops(l.entry)
        /\ l.it = [call.it EXCEPT !.entry = IF l.entry = EndMark THEN stop ELSE stop + 1]
    BY <1>3, <1>15 DEF Found
  <2> QED
    BY <1>1, <2>1 DEF Its
<1>16. ASSUME stop < Per, stop < Len(e)
       PROVE  /\ l.entry = e[stop + 1] /\ l.entry # EndMark /\ Visible(l.entry)
              /\ l.entry \in ToSet(e) /\ l.it.entry = stop + 1
  <2>1. stop + 1 \in 1..Len(e)
    BY <1>8, <1>16
  <2>2. l.entry = e[stop + 1] /\ Stops(l.entry)
    BY <1>6, <1>8, <1>15, <1>16
  <2>3. Entered(vol, l.entry) /\ l.entry \in ToSet(e)
    BY <1>6, <2>1, <2>2
  <2>4. l.entry # EndMark
    BY <1>10, <2>3 DEF Entered
  <2>5. Visible(l.entry)
    BY <2>2 DEF Stops, Visible, LfnEntry
  <2> QED
    BY <1>15, <1>16, <2>2, <2>3, <2>4, <2>5
<1>17. ASSUME stop < Per, stop >= Len(e)
       PROVE  l.entry = EndMark /\ l.it.entry = stop
  <2>1. ~(stop < Len(e))
    BY <1>8, <1>17
  <2>2. l.entry = EndMark
    BY <1>6, <1>8, <1>15, <1>17, <2>1
  <2> QED
    BY <1>15, <1>17, <2>2
<1>18. from <= Len(e) => stop <= Len(e)
  BY <1>8, <1>13
<1> QED
  BY <1>4, <1>6, <1>7, <1>8, <1>12, <1>14, <1>15, <1>16, <1>17, <1>18 DEF Scanned

NothingHidden == \A v \in Volumes : NoHidden(v)

(* Nothing before the search's iterator has the name it looks for.         *)
Unmatched(e, n, name) == \A i \in Nat : i < n /\ i < Len(e) => ~(Visible(e[i + 1]) /\ e[i + 1].name = name)

Searching ==
    call \in FileCalls \union DirCalls /\ call.clean =>
        Unmatched(Entries(call.it.head), call.it.entry, call.name)

LEMMA SearchKept ==
    ASSUME Searching, UNCHANGED <<vol, call>>
    PROVE  Searching'
<1>1. FileCalls' = FileCalls /\ DirCalls' = DirCalls
  BY DEF FileCalls, DirCalls, Its, Places
<1>2. Entries(call.it.head)' = Entries(call.it.head)
  BY DEF Entries, DirSector, SectorAt
<1> QED
  BY <1>1, <1>2 DEF Searching, Unmatched

LEMMA SearchStarts ==
    ASSUME call'.it.entry = 0
    PROVE  Searching'
<1>1. Unmatched(Entries(call.it.head), call.it.entry, call.name)'
  BY DEF Unmatched
<1> QED
  BY <1>1 DEF Searching

LEMMA NoSearch ==
    ASSUME call'.op \notin {"file", "dir"}
    PROVE  Searching'
BY DEF Searching, FileCalls, DirCalls

LEMMA SearchGoesOn ==
    ASSUME Types, Searching, NothingHidden, Walk
    PROVE  Searching'
<1>1. Walking /\ UNCHANGED vol /\ vol \in Volumes /\ NoHidden(vol)
  BY DEF Walk, Types, NothingHidden
<1>2. PICK f, l, stop, bad : TurnIs(f, l, stop, bad)
  BY WalkTurns
<1>3. WalkIs(f, l, bad) /\ l.it \in Its /\ l.it.head = call.it.head
  BY <1>2 DEF TurnIs
<1>4. CASE ~On(l)
  <2>1. call'.op = "none"
    BY <1>3, <1>4, Idles DEF WalkIs
  <2> QED
    BY <2>1, NoSearch
<1>5. CASE On(l) /\ call.op = "next"
  <2>1. call' = [call EXCEPT !.it = l.it, !.clean = Clean(bad)]
    BY <1>3, <1>5 DEF WalkIs
  <2>2. call'.op = call.op
    BY <1>1, <1>3, <2>1, CallStays
  <2> QED
    BY <1>5, <2>2, NoSearch
<1>6. CASE On(l) /\ call.op # "next"
  <2>1. call' = [call EXCEPT !.it = l.it, !.clean = Clean(bad)]
    BY <1>3, <1>6 DEF WalkIs
  <2>2. call'.it = l.it /\ call'.clean = Clean(bad) /\ call'.name = call.name
    BY <1>1, <1>3, <1>6, <2>1, CallStays
  <2>3. PICK e : e = Entries(call.it.head)
    OBVIOUS
  <2>4. Entries(call.it.head)' = e
    BY <1>1, <1>3, <2>2, <2>3 DEF Entries, DirSector, SectorAt
  <2>5. SUFFICES ASSUME Clean(bad)
                 PROVE  Unmatched(e, l.it.entry, call.name)
    <3>1. Unmatched(e, l.it.entry, call.name) => Unmatched(Entries(call.it.head), call.it.entry, call.name)'
      <4>1. PICK g, n, m : g = Entries(call.it.head)' /\ n = call'.it.entry /\ m = call'.name
        OBVIOUS
      <4>2. g = e /\ n = l.it.entry /\ m = call.name
        BY <2>2, <2>4, <4>1
      <4>3. Unmatched(g, n, m) => Unmatched(Entries(call.it.head), call.it.entry, call.name)'
        BY <4>1 DEF Unmatched
      <4> QED
        BY <4>2, <4>3
    <3> QED
      BY <2>2, <3>1 DEF Searching
  <2>6. call.clean /\ Honest /\ bad = {}
    BY <2>5 DEF Clean
  <2>7. call \in FileCalls \union DirCalls
    BY <1>1, <1>6, CallAt, CallKinds
  <2>8. Unmatched(e, call.it.entry, call.name)
    BY <2>3, <2>6, <2>7 DEF Searching
  <2>9. Scanned(l, stop)
    BY <1>1, <1>2, <2>6, ScansRight
  <2>10. PICK from \in Nat : from = call.it.entry
    BY <2>9 DEF Scanned
  <2>11. /\ stop \in from..Per /\ Len(e) \in 0..Per /\ stop \in Nat /\ Len(e) \in Nat
         /\ \A i \in from..(stop - 1) : i < Len(e) => ~Visible(e[i + 1])
         /\ stop = Per => l.more /\ l.entry = EndMark /\ l.it.entry = Per
         /\ stop < Per => ~l.more
         /\ stop < Per /\ stop < Len(e) => l.it.entry = stop + 1 /\ l.entry = e[stop + 1]
         /\ stop < Per /\ stop >= Len(e) => l.entry = EndMark /\ l.it.entry = stop
    BY <2>3, <2>9, <2>10, Sizes DEF Scanned
  <2>12. ASSUME NEW i \in Nat, i < stop, i < Len(e)
         PROVE  ~(Visible(e[i + 1]) /\ e[i + 1].name = call.name)
    <3>1. CASE i < from
      BY <2>8, <2>10, <2>12, <3>1 DEF Unmatched
    <3>2. CASE i >= from
      <4>1. i \in from..(stop - 1)
        BY <2>10, <2>11, <2>12, <3>2
      <4> QED
        BY <2>11, <2>12, <4>1
    <3> QED
      BY <2>10, <3>1, <3>2
  <2>13. CASE stop = Per
    BY <2>11, <2>12, <2>13 DEF Unmatched
  <2>14. CASE stop < Per
    <3>1. l.entry.name \notin {call.name, EndMark.name}
      BY <1>6, <2>11, <2>14 DEF On
    <3>2. stop < Len(e)
      BY <2>11, <2>14, <3>1
    <3>3. l.it.entry = stop + 1 /\ e[stop + 1].name # call.name
      BY <2>11, <2>14, <3>1, <3>2
    <3>4. ASSUME NEW i \in Nat, i < stop + 1, i < Len(e)
          PROVE  ~(Visible(e[i + 1]) /\ e[i + 1].name = call.name)
      <4>1. CASE i = stop
        BY <3>3, <4>1
      <4>2. CASE i < stop
        BY <2>12, <3>4, <4>2
      <4> QED
        BY <2>11, <3>4, <4>1, <4>2
    <3> QED
      BY <3>3, <3>4 DEF Unmatched
  <2> QED
    BY <2>11, <2>13, <2>14, Sizes
<1> QED
  BY <1>4, <1>5, <1>6

LEMMA SearchingStep ==
    ASSUME Types, Searching, NothingHidden, [Next]_vars
    PROVE  Searching'
<1>1. CASE FileOpen
  BY <1>1, SearchStarts DEF FileOpen, Calls, Start
<1>2. CASE DirOpen
  BY <1>2, SearchStarts DEF DirOpen, Calls, Start
<1>3. CASE DirIterNext
  <2>1. call'.op = "next"
    BY <1>3 DEF DirIterNext, Calls
  <2> QED
    BY <2>1, NoSearch
<1>4. CASE Walk
  BY <1>4, SearchGoesOn
<1>5. ASSUME Mount \/ RootDirOpen \/ DirIterStart \/ UNCHANGED vars
      PROVE  Searching'
  <2>1. UNCHANGED <<vol, call>>
    BY <1>5 DEF Mount, RootDirOpen, DirIterStart, Calls, AtCaller, vars
  <2> QED
    BY <2>1, SearchKept
<1>6. ASSUME NEW h \in Handles, FileRead(h) \/ FileSeek(h) \/ FileTell(h)
      PROVE  Searching'
  <2>1. UNCHANGED <<vol, call>>
    BY <1>6 DEF FileRead, FileSeek, FileTell
  <2> QED
    BY <2>1, SearchKept
<1> QED
  BY <1>1, <1>2, <1>3, <1>4, <1>5, <1>6 DEF Next

LEMMA SearchingInit == Init => Searching
<1> SUFFICES ASSUME Init
             PROVE  Searching
  OBVIOUS
<1>1. call.op = "none"
  BY Idles DEF Init
<1> QED
  BY <1>1 DEF Searching, FileCalls, DirCalls

(* A call that returns, on a disk that did not fail in it.                 *)
LEMMA OpenReturns ==
    ASSUME Types, Searching, NothingHidden, Walk, Returns
    PROVE  Finds
<1> USE DEF Returns
<1>1. Walking /\ UNCHANGED vol /\ vol \in Volumes /\ NoHidden(vol)
  BY DEF Walk, Types, NothingHidden
<1>2. PICK f, l, stop, bad : TurnIs(f, l, stop, bad)
  BY WalkTurns
<1>3. WalkIs(f, l, bad) /\ l.it \in Its /\ l.it.head = call.it.head /\ bad \in Bad /\ Count(bad)
  BY <1>2 DEF TurnIs
<1>4. bad = {}
  BY <1>3, Counted
<1>5. ~On(l)
  <2>1. ASSUME On(l)
        PROVE  FALSE
    <3>1. call' = [call EXCEPT !.it = l.it, !.clean = Clean(bad)]
      BY <1>3, <2>1 DEF WalkIs
    <3>2. call'.op = call.op
      BY <1>1, <1>3, <3>1, CallStays
    <3> QED
      BY <1>1, <3>2 DEF Walking
  <2> QED
    BY <2>1
<1>6. PICK e : e = Entries(call.it.head)
  OBVIOUS
<1>7. PICK named : named = {x \in ToSet(e) : Visible(x) /\ x.name = call.name}
  OBVIOUS
<1>8. call \in FileCalls \union DirCalls /\ call.op \in {"file", "dir"}
  BY <1>1, CallAt, CallKinds
<1>9. Unmatched(e, call.it.entry, call.name)
  BY <1>6, <1>8 DEF Searching
<1>10. Scanned(l, stop)
  BY <1>1, <1>2, <1>4, ScansRight
<1>11. PICK from \in Nat : from = call.it.entry
  BY <1>10 DEF Scanned
<1>12. /\ stop \in from..Per /\ Len(e) \in 0..Per /\ stop \in Nat /\ Len(e) \in Nat /\ Per \in Nat
       /\ \A i \in from..(stop - 1) : i < Len(e) => ~Visible(e[i + 1])
       /\ stop = Per => l.more
       /\ stop < Per /\ stop < Len(e) =>
             l.entry # EndMark /\ Visible(l.entry) /\ l.entry \in ToSet(e) /\ l.entry = e[stop + 1]
       /\ stop < Per /\ stop >= Len(e) => l.entry = EndMark
  BY <1>6, <1>10, <1>11, Sizes DEF Scanned
<1>13. ~l.more /\ l.entry.name \in {call.name, EndMark.name} /\ stop < Per
  BY <1>5, <1>8, <1>12 DEF On
<1>14. vol \in Volumes /\ e = SectorEntries(DirSector(call.it.head))
  BY <1>1, <1>6, EntriesOf
<1>15. /\ ToSet(e) = {e[i] : i \in 1..Len(e)}
       /\ \A i \in 1..Len(e) : Entered(vol, e[i])
  BY <1>14, Entering
<1>16. CASE stop < Len(e)
  <2>1. stop + 1 \in 1..Len(e)
    BY <1>12, <1>16
  <2>2. l.entry.name # EndMark.name
    BY <1>12, <1>13, <1>15, <1>16, <2>1 DEF Entered, EndMark
  <2>3. l.entry \in named /\ Hit(l)
    BY <1>5, <1>7, <1>12, <1>13, <1>16, <2>2 DEF Hit
  <2>4. call.op = "file" => files' = [files EXCEPT ![call.handle] = OpenedFile(l.entry)]
    BY <1>3, <2>3 DEF WalkIs
  <2>5. call.op = "dir" => cwd' = l.entry.head
    BY <1>3, <2>3 DEF WalkIs
  <2>6. named # {}
    BY <2>3
  <2> QED
    BY <1>6, <1>7, <1>8, <2>3, <2>4, <2>5, <2>6 DEF Finds
<1>17. CASE stop >= Len(e)
  <2>1. l.entry = EndMark /\ ~Hit(l)
    BY <1>12, <1>13, <1>17 DEF Hit
  <2>2. files' = files /\ cwd' = cwd
    BY <1>3, <2>1 DEF WalkIs
  <2>3. ASSUME NEW x \in named
        PROVE  FALSE
    <3>1. PICK k \in 1..Len(e) : x = e[k]
      BY <1>7, <1>15
    <3>2. PICK i \in Nat : k = i + 1
      <4>1. k - 1 \in Nat /\ k = (k - 1) + 1
        BY <1>12
      <4> QED
        BY <4>1
    <3>3. i < Len(e)
      BY <1>12, <3>1, <3>2
    <3>4. Visible(e[i + 1]) /\ e[i + 1].name = call.name
      BY <1>7, <3>1, <3>2
    <3>5. CASE i < from
      BY <1>9, <1>11, <3>3, <3>4, <3>5 DEF Unmatched
    <3>6. CASE i >= from
      <4>1. i \in from..(stop - 1)
        BY <1>12, <1>17, <3>3, <3>6
      <4> QED
        BY <1>12, <3>3, <3>4, <4>1
    <3> QED
      BY <3>5, <3>6
  <2>4. named = {}
    BY <2>3
  <2> QED
    BY <1>6, <1>7, <1>8, <2>2, <2>4 DEF Finds
<1>18. stop < Len(e) \/ stop >= Len(e)
  BY <1>12
<1> QED
  BY <1>16, <1>17, <1>18

LEMMA OpensStep ==
    ASSUME Types, Searching, NothingHidden, [Next]_vars
    PROVE  [Returns => Finds]_vars
<1>1. CASE Walk
  BY <1>1, OpenReturns
<1>2. ASSUME Mount \/ RootDirOpen \/ FileOpen \/ DirOpen \/ DirIterStart \/ DirIterNext
      PROVE  ~Walking
  BY <1>2 DEF Mount, RootDirOpen, FileOpen, DirOpen, DirIterStart, DirIterNext, Calls, Ready
<1>3. ASSUME NEW h \in Handles, FileRead(h) \/ FileSeek(h) \/ FileTell(h)
      PROVE  ~Walking
  BY <1>3 DEF FileRead, FileSeek, FileTell, Ready
<1>4. Walk \/ ~Walking \/ UNCHANGED vars
  BY <1>2, <1>3 DEF Next
<1> QED
  BY <1>1, <1>4 DEF Returns

(* fat_file_open and fat_dir_open, on any volume without hidden files:     *)
(* a call in which no sector failed finds the entry of that name if the    *)
(* directory has one, and changes no file and no directory otherwise.      *)
THEOREM FindsByName ==
    ASSUME NothingHidden
    PROVE  Spec => OpensByName
<1>1. Init => Searching
  BY SearchingInit
<1>2. Types /\ Searching /\ [Next]_vars => Searching'
  BY SearchingStep
<1>3. Types /\ Searching /\ [Next]_vars => [Returns => Finds]_vars
  BY OpensStep
<1> QED
  BY <1>1, <1>2, <1>3, TypesAlways, PTL DEF Spec, OpensByName

-----------------------------------------------------------------------------
(* What an iteration has seen.                                             *)

LEMMA ShownSkip ==
    ASSUME NEW head, NEW a \in Nat, NEW b \in Nat, a <= b,
           \A i \in a..(b - 1) : ~Visible(Entries(head)[i + 1])
    PROVE  Shown(head, b) = Shown(head, a)
<1> DEFINE P == {d \in Nat : a + d <= b => Shown(head, a + d) = Shown(head, a)}
<1>1. 0 \in P
  <2>1. a + 0 = a
    OBVIOUS
  <2>2. Shown(head, a + 0) = Shown(head, a)
    BY <2>1, Zenon
  <2> QED
    BY <2>2
<1>2. ASSUME NEW d \in Nat, d \in P
      PROVE  d + 1 \in P
  <2>1. ASSUME a + (d + 1) <= b
        PROVE  Shown(head, a + (d + 1)) = Shown(head, a)
    <3>1. PICK n \in Nat : n = a + d
      OBVIOUS
    <3>2. a + d <= b /\ n \in a..(b - 1) /\ a + (d + 1) = n + 1
      BY <2>1, <3>1
    <3>3. Shown(head, n) = Shown(head, a)
      BY <1>2, <3>1, <3>2
    <3>4. ~Visible(Entries(head)[n + 1])
      BY <3>2
    <3>5. Shown(head, n + 1) = Shown(head, n)
      BY <3>4, ShownFrom
    <3> QED
      BY <3>2, <3>3, <3>5
  <2> QED
    BY <2>1
<1> HIDE DEF P
<1>3. Nat \subseteq P
  BY <1>1, <1>2, Induct
<1>4. PICK d \in Nat : b = a + d
  <2>1. b - a \in Nat /\ b = a + (b - a)
    OBVIOUS
  <2> QED
    BY <2>1
<1>5. d \in P
  BY <1>3
<1> QED
  BY <1>4, <1>5 DEF P

Seen(names, it) == it.entry <= Len(Entries(it.head)) /\ names = Shown(it.head, it.entry)

Listing ==
    /\ iter.state = "open" /\ iter.clean => Seen(iter.seen, iter.it)
    /\ call.op = "next" /\ call.clean /\ iter.clean => Seen(iter.seen, call.it)
    /\ ListsDirectory

LEMMA SeenNext ==
    ASSUME UNCHANGED vol
    PROVE  /\ Seen(iter'.seen, iter'.it) => Seen(iter.seen, iter.it)'
           /\ Seen(iter'.seen, call'.it) => Seen(iter.seen, call.it)'
           /\ Len(Entries(iter.it.head))' = Len(Entries(iter'.it.head))
           /\ Shown(iter.it.head, Len(Entries(iter.it.head)))' = Shown(iter'.it.head, Len(Entries(iter'.it.head)))
<1>1. PICK s, i, c : s = iter'.seen /\ i = iter'.it /\ c = call'.it
  OBVIOUS
<1>2. Entries(iter.it.head)' = Entries(i.head) /\ Entries(call.it.head)' = Entries(c.head)
  BY <1>1 DEF Entries, DirSector, SectorAt
<1>3. /\ Shown(iter.it.head, iter.it.entry)' = Shown(i.head, i.entry)
      /\ Shown(call.it.head, call.it.entry)' = Shown(c.head, c.entry)
  BY <1>1 DEF Shown, Entries, DirSector, SectorAt
<1>4. Shown(iter.it.head, Len(Entries(iter.it.head)))' = Shown(i.head, Len(Entries(i.head)))
  BY <1>1 DEF Shown, Entries, DirSector, SectorAt
<1>5. Seen(s, i) => Seen(iter.seen, iter.it)'
  BY <1>1, <1>2, <1>3 DEF Seen
<1>6. Seen(s, c) => Seen(iter.seen, call.it)'
  BY <1>1, <1>2, <1>3 DEF Seen
<1> QED
  BY <1>1, <1>2, <1>4, <1>5, <1>6

(* What is left to show of a step, in the volume that stays.               *)
LEMMA ListingNext ==
    ASSUME UNCHANGED vol,
           iter'.state = "open" /\ iter'.clean => Seen(iter'.seen, iter'.it),
           call'.op = "next" /\ call'.clean /\ iter'.clean => Seen(iter'.seen, call'.it),
           iter'.state = "ended" /\ iter'.clean =>
               iter'.seen = Shown(iter'.it.head, Len(Entries(iter'.it.head)))
    PROVE  Listing'
<1>1. (iter.state = "open" /\ iter.clean => Seen(iter.seen, iter.it))'
  BY SeenNext
<1>2. (call.op = "next" /\ call.clean /\ iter.clean => Seen(iter.seen, call.it))'
  BY SeenNext
<1>3. ListsDirectory'
  BY SeenNext DEF ListsDirectory
<1> QED
  BY <1>1, <1>2, <1>3 DEF Listing

LEMMA ListKept ==
    ASSUME Listing, UNCHANGED <<vol, iter>>, call' = call \/ call'.op # "next"
    PROVE  Listing'
<1>1. iter'.state = "open" /\ iter'.clean => Seen(iter'.seen, iter'.it)
  BY DEF Listing
<1>2. call'.op = "next" /\ call'.clean /\ iter'.clean => Seen(iter'.seen, call'.it)
  BY DEF Listing
<1>3. iter'.state = "ended" /\ iter'.clean =>
          iter'.seen = Shown(iter'.it.head, Len(Entries(iter'.it.head)))
  BY DEF Listing, ListsDirectory
<1> QED
  BY <1>1, <1>2, <1>3, ListingNext

LEMMA NoList ==
    ASSUME UNCHANGED vol, iter'.state = "none", call'.op # "next"
    PROVE  Listing'
BY ListingNext

LEMMA ListInit == Init => Listing
<1> SUFFICES ASSUME Init
             PROVE  Listing
  OBVIOUS
<1>1. iter.state = "none" /\ call.op # "next"
  BY Idles DEF Init, NoIter
<1> QED
  BY <1>1 DEF Listing, ListsDirectory

LEMMA ListStarts ==
    ASSUME Types, DirIterStart
    PROVE  Listing'
<1>1. ~Walking /\ call' = call /\ iter' = [it |-> Start(cwd), seen |-> <<>>, state |-> "open", clean |-> TRUE]
  BY DEF DirIterStart, Calls, Ready
<1>2. call'.op # "next" /\ iter'.state = "open" /\ iter'.it.entry = 0 /\ iter'.seen = <<>>
  BY <1>1 DEF Walking, Start
<1>3. vol' = vol /\ vol \in Volumes
  BY DEF DirIterStart, AtCaller, Types
<1>4. PICK head : head = iter'.it.head
  OBVIOUS
<1>5. Len(Entries(head)) \in 0..Per
  BY <1>3, EntriesOf, Entering
<1>6. 0 <= Len(Entries(head)) /\ Shown(head, 0) = <<>>
  BY <1>5, ShownFrom, Sizes
<1>7. Seen(iter'.seen, iter'.it)
  BY <1>2, <1>4, <1>6 DEF Seen
<1> QED
  BY <1>2, <1>3, <1>7, ListingNext

LEMMA ListNext ==
    ASSUME Types, Listing, DirIterNext
    PROVE  Listing'
<1>1. iter.state = "open" /\ call' = [op |-> "next", it |-> iter.it, clean |-> TRUE] /\ UNCHANGED <<vol, iter>>
  BY DEF DirIterNext, Calls, AtCaller
<1>2. call'.it = iter.it
  BY <1>1
<1>3. iter'.clean => Seen(iter'.seen, iter'.it) /\ Seen(iter'.seen, call'.it)
  BY <1>1, <1>2 DEF Listing
<1>4. iter'.state = "open"
  BY <1>1
<1> QED
  BY <1>1, <1>3, <1>4, ListingNext


LEMMA ListWalk ==
    ASSUME Types, Listing, NothingHidden, Walk
    PROVE  Listing'
<1>1. Walking /\ UNCHANGED vol /\ vol \in Volumes /\ NoHidden(vol)
  BY DEF Walk, Types, NothingHidden
<1>2. PICK f, l, stop, bad : TurnIs(f, l, stop, bad)
  BY WalkTurns
<1>3. WalkIs(f, l, bad) /\ l.it \in Its /\ l.it.head = call.it.head
  BY <1>2 DEF TurnIs
<1>4. CASE call.op # "next"
  <2>1. iter' = iter
    BY <1>3, <1>4 DEF WalkIs
  <2>2. call'.op # "next"
    <3>1. CASE On(l)
      <4>1. call' = [call EXCEPT !.it = l.it, !.clean = Clean(bad)]
        BY <1>3, <3>1 DEF WalkIs
      <4>2. call'.op = call.op
        BY <1>1, <1>3, <4>1, CallStays
      <4> QED
        BY <1>4, <4>2
    <3>2. CASE ~On(l)
      BY <1>3, <3>2, Idles DEF WalkIs
    <3> QED
      BY <3>1, <3>2
  <2> QED
    BY <1>1, <2>1, <2>2, ListKept
<1>5. CASE call.op = "next"
  <2>1. PICK e, head : head = call.it.head /\ e = Entries(head)
    OBVIOUS
  <2>2. ASSUME Clean(bad), iter.clean
        PROVE  /\ l.more => Seen(iter.seen, l.it)
               /\ ~l.more /\ l.entry # EndMark => Seen(Append(iter.seen, l.entry.name), l.it)
               /\ ~l.more /\ l.entry = EndMark => iter.seen = Shown(head, Len(e))
    <3>1. call.clean /\ Honest /\ bad = {}
      BY <2>2 DEF Clean
    <3>2. Scanned(l, stop)
      BY <1>1, <1>2, <3>1, ScansRight
    <3>3. PICK from \in Nat : from = call.it.entry
      BY <3>2 DEF Scanned
    <3>4. from <= Len(e) /\ iter.seen = Shown(head, from)
      BY <1>5, <2>1, <2>2, <3>1, <3>3 DEF Listing, Seen
    <3>5. /\ stop \in from..Per /\ Len(e) \in 0..Per /\ stop \in Nat /\ Len(e) \in Nat /\ Per \in Nat
          /\ stop <= Len(e) /\ from <= stop
          /\ \A i \in from..(stop - 1) : i < Len(e) => ~Visible(e[i + 1])
      BY <2>1, <3>2, <3>3, <3>4, Sizes DEF Scanned
    <3>6. /\ stop = Per => l.more /\ l.it.entry = Per
          /\ stop < Per => ~l.more
          /\ stop < Per /\ stop < Len(e) =>
                l.entry = e[stop + 1] /\ l.entry # EndMark /\ Visible(l.entry) /\ l.it.entry = stop + 1
          /\ stop < Per /\ stop >= Len(e) => l.entry = EndMark
      BY <2>1, <3>2 DEF Scanned
    <3>7. \A i \in from..(stop - 1) : ~Visible(e[i + 1])
      <4>1. \A i \in from..(stop - 1) : i < Len(e)
        BY <3>5
      <4> QED
        BY <3>5, <4>1
    <3>8. Shown(head, stop) = Shown(head, from)
      BY <2>1, <3>5, <3>7, ShownSkip
    <3>9. iter.seen = Shown(head, stop)
      BY <3>4, <3>8
    <3>10. CASE stop = Per
      <4>1. l.more /\ l.it.entry = Per /\ l.it.head = head /\ stop <= Len(e)
        BY <1>3, <2>1, <3>5, <3>6, <3>10
      <4>2. Seen(iter.seen, l.it)
        BY <2>1, <3>9, <3>10, <4>1 DEF Seen
      <4> QED
        BY <4>1, <4>2
    <3>11. CASE stop < Per /\ stop < Len(e)
      <4>1. ~l.more /\ l.entry # EndMark /\ l.entry = e[stop + 1] /\ Visible(e[stop + 1]) /\ l.it.entry = stop + 1
        BY <3>6, <3>11
      <4>2. Shown(head, stop + 1) = Append(Shown(head, stop), l.entry.name)
        BY <2>1, <3>5, <4>1, ShownFrom
      <4>3. stop + 1 <= Len(e)
        BY <3>5, <3>11
      <4>4. Seen(Append(iter.seen, l.entry.name), l.it)
        BY <1>3, <2>1, <3>9, <4>1, <4>2, <4>3 DEF Seen
      <4> QED
        BY <4>1, <4>4
    <3>12. CASE stop < Per /\ stop >= Len(e)
      <4>1. l.entry = EndMark /\ ~l.more /\ stop = Len(e)
        BY <3>5, <3>6, <3>12
      <4> QED
        BY <3>9, <4>1
    <3>13. stop = Per \/ (stop < Per /\ stop < Len(e)) \/ (stop < Per /\ stop >= Len(e))
      BY <3>5
    <3> QED
      BY <3>10, <3>11, <3>12, <3>13
  <2>3. On(l) <=> l.more
    BY <1>5 DEF On
  <2>4. CASE l.more
    <3>1. call' = [call EXCEPT !.it = l.it, !.clean = Clean(bad)] /\ iter' = iter
      BY <1>3, <2>3, <2>4 DEF WalkIs
    <3>2. call'.it = l.it /\ call'.clean = Clean(bad)
      BY <1>1, <1>3, <3>1, CallStays
    <3>3. iter.state = "open"
      BY <1>1, <1>5, CallKinds DEF Types
    <3>4. iter'.clean => Seen(iter'.seen, iter'.it)
      BY <3>1, <3>3 DEF Listing
    <3>5. call'.clean /\ iter'.clean => Seen(iter'.seen, call'.it)
      BY <2>2, <2>4, <3>1, <3>2
    <3> QED
      BY <1>1, <3>1, <3>3, <3>4, <3>5, ListingNext
  <2>5. CASE ~l.more /\ l.entry # EndMark
    <3>1. Hit(l) /\ ~On(l)
      BY <2>3, <2>5 DEF Hit
    <3>2. /\ call' = Idle
          /\ iter' = [it |-> l.it, clean |-> iter.clean /\ Clean(bad),
                      seen |-> Append(iter.seen, l.entry.name), state |-> "open"]
      BY <1>3, <1>5, <3>1 DEF WalkIs
    <3>3. iter'.clean => iter.clean /\ Clean(bad)
      BY <3>2
    <3>4. iter'.it = l.it /\ iter'.seen = Append(iter.seen, l.entry.name) /\ iter'.state = "open"
      BY <3>2
    <3>5. iter'.clean => Seen(iter'.seen, iter'.it)
      BY <2>2, <2>5, <3>3, <3>4
    <3>6. call'.op # "next"
      BY <3>2, Idles
    <3> QED
      BY <1>1, <3>4, <3>5, <3>6, ListingNext
  <2>6. CASE ~l.more /\ l.entry = EndMark
    <3>1. ~Hit(l) /\ ~On(l)
      BY <2>3, <2>6 DEF Hit
    <3>2. /\ call' = Idle
          /\ iter' = [it |-> l.it, clean |-> iter.clean /\ Clean(bad), seen |-> iter.seen, state |-> "ended"]
      BY <1>3, <1>5, <3>1 DEF WalkIs
    <3>3. iter'.clean => iter.clean /\ Clean(bad)
      BY <3>2
    <3>4. iter'.it = l.it /\ iter'.seen = iter.seen /\ iter'.state = "ended"
      BY <3>2
    <3>5. iter'.it.head = head
      BY <1>3, <2>1, <3>4
    <3>6. iter'.clean => iter'.seen = Shown(iter'.it.head, Len(Entries(iter'.it.head)))
      BY <2>1, <2>2, <2>6, <3>3, <3>4, <3>5
    <3>7. call'.op # "next"
      BY <3>2, Idles
    <3> QED
      BY <1>1, <3>4, <3>6, <3>7, ListingNext
  <2> QED
    BY <2>4, <2>5, <2>6
<1> QED
  BY <1>4, <1>5

LEMMA ListingStep ==
    ASSUME Types, Listing, NothingHidden, [Next]_vars
    PROVE  Listing'
<1>1. CASE Mount
  BY <1>1, ListKept DEF Mount
<1>2. CASE RootDirOpen
  <2>1. UNCHANGED vol /\ iter' = NoIter /\ call' = call /\ ~Walking
    BY <1>2 DEF RootDirOpen, Calls, Ready, AtCaller
  <2>2. iter'.state = "none" /\ call'.op # "next"
    BY <2>1 DEF NoIter, Walking
  <2> QED
    BY <2>1, <2>2, NoList
<1>3. CASE FileOpen
  <2>1. UNCHANGED <<vol, iter>> /\ call'.op # "next"
    BY <1>3 DEF FileOpen, Calls, AtCaller
  <2> QED
    BY <2>1, ListKept
<1>4. CASE DirOpen
  <2>1. UNCHANGED vol /\ iter'.state = "none" /\ call'.op # "next"
    BY <1>4 DEF DirOpen, Calls, AtCaller, NoIter
  <2> QED
    BY <2>1, NoList
<1>5. CASE DirIterStart
  BY <1>5, ListStarts
<1>6. CASE DirIterNext
  BY <1>6, ListNext
<1>7. CASE Walk
  BY <1>7, ListWalk
<1>8. ASSUME NEW h \in Handles, FileRead(h) \/ FileSeek(h) \/ FileTell(h)
      PROVE  Listing'
  <2>1. UNCHANGED <<vol, iter, call>>
    BY <1>8 DEF FileRead, FileSeek, FileTell
  <2> QED
    BY <2>1, ListKept
<1>9. CASE UNCHANGED vars
  BY <1>9, ListKept DEF vars
<1> QED
  BY <1>1, <1>2, <1>3, <1>4, <1>5, <1>6, <1>7, <1>8, <1>9 DEF Next

(* fat_dir_iter_next, on any volume without hidden files: an iteration in  *)
(* which no sector failed returns every file of its directory once and in  *)
(* order, whatever files were opened, read and moved between its calls.    *)
THEOREM ListsEveryFile ==
    ASSUME NothingHidden
    PROVE  Spec => []ListsDirectory
<1>1. Init => Listing
  BY ListInit
<1>2. Types /\ Listing /\ [Next]_vars => Listing'
  BY ListingStep
<1>3. Listing => ListsDirectory
  BY DEF Listing
<1> QED
  BY <1>1, <1>2, <1>3, TypesAlways, PTL DEF Spec
=============================================================================
