-------------------------- MODULE WorldCacheProofs --------------------------
(***************************************************************************)
(* Theorems about WorldCache: what the files of the world cache hold,      *)
(* however many computes write them at once and wherever they die, and     *)
(* that the renderer shows what the gate has accepted.                     *)
(***************************************************************************)
EXTENDS WorldCache, FiniteSetTheorems, WellFoundedInduction, TLAPS

(***************************************************************************)
(* Numbers and orders.                                                     *)
(***************************************************************************)
LEMMA LeastNumber ==
    ASSUME NEW S \in SUBSET Nat, S # {}
    PROVE  \E n \in S : \A m \in S : n <= m
    <1>1. PICK n \in S : \A m \in S : ~(<<m, n>> \in OpToRel(<, Nat))
      <2> HIDE DEF OpToRel
      <2> QED  BY NatLessThanWellFounded, WFMin
    <1>2. \A m \in S : ~(m < n)
          BY <1>1 DEF OpToRel
    <1>3. QED  BY <1>2

\* The walls of a set that come before a wall.
Below(S, w) == { v \in S : v < w }

LEMMA BelowFinite ==
    ASSUME NEW S \in SUBSET Nat, IsFiniteSet(S), NEW w
    PROVE  IsFiniteSet(Below(S, w)) /\ Cardinality(Below(S, w)) \in Nat
    BY FS_Subset, FS_CardinalityType DEF Below

\* Every place in the path order of a set has its wall.
LEMMA EveryPlace ==
    ASSUME NEW S \in SUBSET Nat, IsFiniteSet(S), NEW k \in 0 .. Cardinality(S) - 1
    PROVE  \E w \in S : Cardinality(Below(S, w)) = k
    <1> DEFINE Free == { n \in 0 .. Cardinality(S) - 1 : \A w \in S : Cardinality(Below(S, w)) # n }
    <1>1. Cardinality(S) \in Nat
          BY FS_CardinalityType
    <1>2. SUFFICES ASSUME Free # {} PROVE FALSE
          OBVIOUS
    <1>3. PICK n \in Free : \A m \in Free : n <= m
      <2>1. Free \in SUBSET Nat
            BY <1>1
      <2>2. QED  BY <1>2, <2>1, LeastNumber
    <1>4. n \in Nat /\ n < Cardinality(S) /\ \A w \in S : Cardinality(Below(S, w)) # n
          BY <1>1, <1>3
    <1>5. CASE n = 0
      <2>1. S # {}
            BY <1>4, <1>5, FS_EmptySet
      <2>2. PICK w \in S : \A v \in S : w <= v
            BY <2>1, LeastNumber
      <2>3. Below(S, w) = {}
        <3>1. \A v \in S : v \in Nat /\ w \in Nat
              OBVIOUS
        <3>2. \A v \in S : ~(v < w)
              BY <2>2, <3>1
        <3>3. QED  BY <3>2 DEF Below
      <2>4. QED  BY <1>4, <1>5, <2>3, FS_EmptySet
    <1>6. CASE n > 0
      <2>1. PICK w \in S : Cardinality(Below(S, w)) = n - 1
        <3>1. n - 1 \in 0 .. Cardinality(S) - 1 /\ n - 1 \notin Free
              BY <1>1, <1>3, <1>4, <1>6
        <3>2. QED  BY <3>1
      <2> DEFINE B == Below(S, w) \cup {w}
                 U == S \ B
      <2>2. IsFiniteSet(B) /\ Cardinality(B) = n
        <3>1. w \notin Below(S, w)
              BY DEF Below
        <3>2. QED  BY <1>4, <2>1, <3>1, BelowFinite, FS_AddElement
      <2>3. U # {}
        <3>1. B \in SUBSET S
              BY DEF Below
        <3>2. B # S
              BY <1>4, <2>2
        <3>3. QED  BY <3>1, <3>2
      <2>4. PICK u \in U : \A v \in U : u <= v
        <3>1. U \in SUBSET Nat
              OBVIOUS
        <3>2. QED  BY <2>3, <3>1, LeastNumber
      <2>5. Below(S, u) = B
        <3>1. u \in Nat /\ w \in Nat /\ u \in S /\ w < u
              BY <2>4 DEF Below
        <3>2. \A v \in S : v < u => v \in B
              BY <2>4
        <3>3. \A v \in B : v \in S /\ v < u
              BY <3>1 DEF Below
        <3>4. QED  BY <3>2, <3>3 DEF Below
      <2>6. QED  BY <1>4, <2>2, <2>4, <2>5
    <1>7. QED  BY <1>4, <1>5, <1>6

LEMMA NumberOfWalls ==
    /\ Cardinality(Walls) \in Nat /\ Walls \subseteq Nat
    /\ \A S \in SUBSET Walls : IsFiniteSet(S) /\ Cardinality(S) \in Counts
    <1>1. Cardinality(Walls) \in Nat
          BY WorldCacheAssumption, FS_CardinalityType
    <1>2. Walls \subseteq Nat
          BY <1>1, WorldCacheAssumption
    <1>3. ASSUME NEW S \in SUBSET Walls PROVE IsFiniteSet(S) /\ Cardinality(S) \in Counts
          BY <1>1, WorldCacheAssumption, FS_Subset, FS_CardinalityType DEF Counts
    <1>4. QED  BY <1>1, <1>2, <1>3

LEMMA PathOrderOK ==
    ASSUME NEW S \in SUBSET Walls
    PROVE  PathOrder[S] \in [1 .. Cardinality(S) -> S]
    <1>1. ASSUME NEW i \in 1 .. Cardinality(S)
          PROVE  (CHOOSE w \in S : Cardinality({ v \in S : v < w }) = i - 1) \in S
      <2>1. Cardinality(S) \in Nat /\ S \in SUBSET Nat /\ IsFiniteSet(S)
            BY NumberOfWalls DEF Counts
      <2>2. i - 1 \in 0 .. Cardinality(S) - 1
            BY <2>1
      <2>3. \E w \in S : Cardinality(Below(S, w)) = i - 1
            BY <2>1, <2>2, EveryPlace
      <2>4. QED  BY <2>3 DEF Below
    <1>2. QED  BY <1>1 DEF PathOrder

LEMMA PathOrders ==
    ASSUME NEW lib \in Libraries
    PROVE  \E n \in Counts : lib \in [1 .. n -> Walls] /\ Len(lib) = n /\ DOMAIN lib = 1 .. n
    <1>1. PICK S \in SUBSET Walls : lib = PathOrder[S]
          BY DEF Libraries
    <1>2. lib \in [1 .. Cardinality(S) -> Walls] /\ Cardinality(S) \in Counts
          BY <1>1, PathOrderOK, NumberOfWalls
    <1>3. Cardinality(S) \in Nat
          BY <1>2, NumberOfWalls DEF Counts
    <1>4. QED  BY <1>2, <1>3

LEMMA EmptyPathOrder == <<>> \in Libraries
    <1>1. {} \in SUBSET Walls /\ Cardinality({}) = 0
          BY FS_EmptySet
    <1>2. PathOrder[{}] \in [1 .. 0 -> {}]
          BY <1>1, PathOrderOK
    <1>3. PathOrder[{}] = <<>>
          BY <1>2
    <1>4. QED  BY <1>1, <1>3 DEF Libraries

LEMMA LibraryOK ==
    /\ Library \in Libraries
    /\ \A i \in DOMAIN Library : Library[i] \in Present
    <1>1. Present \in SUBSET Walls
          BY DEF Present
    <1>2. QED  BY <1>1, PathOrderOK DEF Library, Libraries

\* The sizes of libraries and of the lists made from them.
LEMMA ListLength ==
    ASSUME NEW list \in Lists
    PROVE  \E n \in Counts : list \in [1 .. n -> Entries] /\ Len(list) = n /\ DOMAIN list = 1 .. n
    <1>1. PICK n \in Counts : list \in [1 .. n -> Entries]
          BY DEF Lists
    <1>2. n \in Nat
          BY NumberOfWalls DEF Counts
    <1>3. QED  BY <1>1, <1>2

LEMMA CellKeysOK ==
    ASSUME files \in [Walls -> Nat], NEW lib \in Libraries
    PROVE  /\ CellKeys(lib) \in Lists /\ Len(CellKeys(lib)) = Len(lib)
           /\ DOMAIN CellKeys(lib) = DOMAIN lib
           /\ \A i \in DOMAIN lib : CellKeys(lib)[i] = <<lib[i], files[lib[i]]>>
    <1>1. PICK n \in Counts : lib \in [1 .. n -> Walls] /\ Len(lib) = n /\ DOMAIN lib = 1 .. n
          BY PathOrders
    <1>2. CellKeys(lib) \in [1 .. n -> Entries]
          BY <1>1 DEF CellKeys, Entries
    <1>3. CellKeys(lib) \in Lists
          BY <1>2 DEF Lists
    <1>4. n \in Nat
          BY NumberOfWalls DEF Counts
    <1>5. Len(CellKeys(lib)) = n
          BY <1>2, <1>4
    <1>6. QED  BY <1>1, <1>3, <1>5 DEF CellKeys

LEMMA EmptyList == <<>> \in Lists /\ Len(<<>>) = 0
    <1>1. <<>> \in [1 .. 0 -> Entries]
          OBVIOUS
    <1>2. 0 \in Counts
          BY NumberOfWalls DEF Counts
    <1>3. QED  BY <1>1, <1>2 DEF Lists

LEMMA IndexOK ==
    ASSUME NEW lib \in Libraries, NEW w, InLibrary(lib, w)
    PROVE  IndexOf(lib, w) \in Indices
    <1>1. PICK n \in Counts : DOMAIN lib = 1 .. n
          BY PathOrders
    <1>2. (CHOOSE i \in DOMAIN lib : lib[i] = w) \in 1 .. n
          BY <1>1 DEF InLibrary
    <1>3. QED  BY <1>2, NumberOfWalls DEF IndexOf, Indices, Counts

(***************************************************************************)
(* The keys of the tiles.                                                  *)
(***************************************************************************)
TileKeys == [lod : Nat, row : Nat, column : Nat]

LEMMA AllKeysOK == AllKeys \subseteq TileKeys
    <1>1. ASSUME NEW n \in Counts PROVE Keys[n] \subseteq TileKeys
      <2>1. ASSUME NEW columns, NEW rows, NEW key \in PyramidKeys(columns, rows) PROVE key \in TileKeys
        <3>1. PICK lod \in Lods(columns, rows) :
                key \in [lod : {lod}, row : 0 .. TileRows(rows, lod) - 1,
                         column : 0 .. TileColumns(columns, lod) - 1]
              BY <2>1 DEF PyramidKeys
        <3>2. lod \in 0 .. columns + rows
              BY DEF Lods
        <3>3. lod \in Nat
              BY <3>2
        <3>4. QED  BY <3>1, <3>3 DEF TileKeys
      <2>2. Keys[n] = PyramidKeys(Grid[n].columns, Grid[n].rows)
            BY DEF Keys
      <2>3. QED  BY <2>1, <2>2
    <1>2. QED  BY <1>1 DEF AllKeys

LEMMA KeysOfCount ==
    ASSUME NEW n \in Counts
    PROVE  Keys[n] \subseteq AllKeys
    BY DEF AllKeys

LEMMA LevelsOK == \A n \in Counts : Levels[n] \subseteq Nat
    <1>1. ASSUME NEW n \in Counts, NEW lod \in Levels[n] PROVE lod \in Nat
      <2>1. lod \in 0 .. Grid[n].columns + Grid[n].rows
            BY <1>1 DEF Levels, Lods
      <2>2. QED  BY <2>1
    <1>2. QED  BY <1>1

\* There is always a next tile.
LEMMA FirstTile ==
    ASSUME NEW tiles \in SUBSET AllKeys, tiles # {}
    PROVE  First(tiles) \in tiles
    <1>1. tiles \in SUBSET TileKeys
          BY AllKeysOK
    <1>2. PICK lod \in { t.lod : t \in tiles } : \A l \in { t.lod : t \in tiles } : lod <= l
      <2>1. { t.lod : t \in tiles } \in SUBSET Nat
            BY <1>1 DEF TileKeys
      <2>2. { t.lod : t \in tiles } # {}
            OBVIOUS
      <2>3. QED  BY <2>1, <2>2, LeastNumber
    <1> DEFINE Level == { t \in tiles : t.lod = lod }
    <1>3. PICK row \in { t.row : t \in Level } : \A r \in { t.row : t \in Level } : row <= r
      <2>1. { t.row : t \in Level } \in SUBSET Nat
            BY <1>1 DEF TileKeys
      <2>2. { t.row : t \in Level } # {}
            BY <1>2
      <2>3. QED  BY <2>1, <2>2, LeastNumber
    <1> DEFINE Line == { t \in Level : t.row = row }
    <1>4. PICK column \in { t.column : t \in Line } : \A c \in { t.column : t \in Line } : column <= c
      <2>1. { t.column : t \in Line } \in SUBSET Nat
            BY <1>1 DEF TileKeys
      <2>2. { t.column : t \in Line } # {}
            BY <1>3
      <2>3. QED  BY <2>1, <2>2, LeastNumber
    <1>5. PICK t \in Line : t.column = column
          BY <1>4
    <1>6. t \in tiles /\ t.lod = lod /\ t.row = row /\ t.column = column
          BY <1>5
    <1>7. ASSUME NEW u \in tiles \ {t} PROVE Before(t, u)
      <2>1. /\ t.lod \in Nat /\ t.row \in Nat /\ t.column \in Nat
            /\ u.lod \in Nat /\ u.row \in Nat /\ u.column \in Nat
            BY <1>1, <1>6 DEF TileKeys
      <2>2. t.lod <= u.lod
            BY <1>2, <1>6
      <2>3. u.lod = lod => t.row <= u.row
            BY <1>3, <1>6
      <2>4. u.lod = lod /\ u.row = row => t.column <= u.column
            BY <1>4, <1>6
      <2>5. ~(u.lod = t.lod /\ u.row = t.row /\ u.column = t.column)
            BY <1>1, <1>6 DEF TileKeys
      <2>6. QED  BY <1>6, <2>1, <2>2, <2>3, <2>4, <2>5 DEF Before
    <1>8. QED  BY <1>6, <1>7 DEF First

LEMMA SelectedTilesOK ==
    ASSUME NEW job, job.grid \in Libraries
    PROVE  SelectedTiles(job) \subseteq AllKeys
    <1>1. Len(job.grid) \in Counts
          BY PathOrders
    <1>2. Keys[Len(job.grid)] \subseteq AllKeys
          BY <1>1, KeysOfCount
    <1>3. QED  BY <1>2 DEF SelectedTiles, Truncated

LEMMA SelectedCellsOK ==
    ASSUME NEW job, job.cells \in Lists, job.opts \in OptionType, NEW tiles
    PROVE  /\ SelectedCells(job, tiles) \subseteq Indices
           /\ \A i \in SelectedCells(job, tiles) : i + 1 \in DOMAIN job.cells
    <1>1. PICK n \in Counts : Len(job.cells) = n /\ DOMAIN job.cells = 1 .. n
          BY ListLength
    <1>2. n \in Nat /\ n <= Cardinality(Walls) /\ Cardinality(Walls) \in Nat
          BY NumberOfWalls DEF Counts
    <1>3. ASSUME NEW i \in SelectedCells(job, tiles) PROVE i \in 0 .. n - 1
      <2>1. CASE i \in 0 .. n - 1
            BY <2>1
      <2>2. CASE i \in 0 .. Smaller(job.opts.limit, n) - 1
        <3>1. job.opts.limit \in Nat
              BY DEF OptionType
        <3>2. QED  BY <1>2, <2>2, <3>1 DEF Smaller
      <2>3. CASE \E key : i \in SpanIndices(Grid[Len(job.status)].columns, n,
                      TileSpan(Grid[Len(job.grid)].columns, Grid[Len(job.grid)].rows, key))
            BY <2>3 DEF SpanIndices
      <2>4. QED  BY <1>1, <1>3, <2>1, <2>2, <2>3 DEF SelectedCells
    <1>4. QED  BY <1>1, <1>2, <1>3 DEF Indices

(***************************************************************************)
(* The files.  A file that someone writes holds something, and one thing   *)
(* only.                                                                   *)
(***************************************************************************)
EntryType(n) == [file : FileType(n), tmp : FileType(n)]
FileOK(f) == (f.open # {} => f.holds # {}) /\ \A a, b \in f.holds : a = b
DiskOK ==
    /\ DOMAIN disk \subseteq Names
    /\ \A n \in DOMAIN disk : disk[n] \in EntryType(n)
    /\ \A n : FileOK(At(n).file) /\ FileOK(At(n).tmp)

Pictures2 == [shows : UNION { [places -> Entries \cup {Hole}] : places \in Shapes }, raced : BOOLEAN]
LEMMA NamesOK ==
    /\ Manifest \in Names /\ Contents(Manifest) = Libraries
    /\ \A lib \in Libraries : Snapshot(lib) \in Names /\ Contents(Snapshot(lib)) = {lib}
    /\ \A e \in Entries : Cell(e) \in Names /\ Contents(Cell(e)) = Entries
    /\ \A lib \in Libraries : \A keys \in Lists : \A key \in AllKeys :
         LET name == Tile(lib, keys, key)
         IN /\ name \in TileNames /\ name \in Names /\ name.kind = "tile"
            /\ Contents(name) = Pictures2
    <1>1. Manifest \in Names /\ Contents(Manifest) = Libraries
          BY DEF Names, Manifest, Contents
    <1>2. ASSUME NEW lib \in Libraries PROVE Snapshot(lib) \in Names /\ Contents(Snapshot(lib)) = {lib}
      <2>1. Snapshot(lib).kind = "snapshot" /\ Snapshot(lib).lib = lib
            BY DEF Snapshot
      <2>2. QED  BY <2>1 DEF Names, Contents
    <1>3. ASSUME NEW e \in Entries PROVE Cell(e) \in Names /\ Contents(Cell(e)) = Entries
      <2>1. Cell(e).kind = "cell"
            BY DEF Cell
      <2>2. QED  BY <2>1 DEF Names, Contents
    <1>4. ASSUME NEW lib \in Libraries, NEW keys \in Lists, NEW key \in AllKeys
          PROVE  LET name == Tile(lib, keys, key)
                 IN /\ name \in TileNames /\ name \in Names /\ name.kind = "tile"
                    /\ Contents(name) = Pictures2
      <2>1. Tile(lib, keys, key).kind = "tile"
            BY DEF Tile
      <2>2. Tile(lib, keys, key) \in TileNames
            BY DEF TileNames
      <2>3. QED  BY <2>1, <2>2 DEF Names, Contents, Pictures2
    <1>5. QED  BY <1>1, <1>2, <1>3, <1>4

LEMMA EveryEntry ==
    ASSUME DiskOK, NEW n
    PROVE  /\ At(n) \in EntryType(n)
           /\ FileOK(At(n).file) /\ FileOK(At(n).tmp)
           /\ n \notin Names => At(n) = Absent
    BY DEF DiskOK, At, Absent, NoFile, EntryType, FileType

LEMMA PutOK ==
    ASSUME DiskOK, NEW name \in Names, NEW e \in EntryType(name), FileOK(e.file), FileOK(e.tmp),
           disk' = Put(name, e)
    PROVE  /\ DiskOK'
           /\ \A n : At(n)' = IF n = name THEN e ELSE At(n)
    <1>1. DOMAIN disk' = DOMAIN disk \cup {name}
          BY DEF Put
    <1>2. \A n : At(n)' = IF n = name THEN e ELSE At(n)
          BY DEF Put, At
    <1>3. ASSUME NEW n \in DOMAIN disk' PROVE disk'[n] \in EntryType(n)
      <2>1. CASE n = name
            BY <2>1 DEF Put
      <2>2. CASE n # name
            BY <1>1, <1>3, <2>2 DEF Put, DiskOK
      <2>3. QED  BY <2>1, <2>2
    <1>4. ASSUME NEW n PROVE FileOK(At(n)'.file) /\ FileOK(At(n)'.tmp)
      <2>1. CASE n = name
            BY <1>2, <2>1
      <2>2. CASE n # name
            BY <1>2, <2>2, EveryEntry
      <2>3. QED  BY <2>1, <2>2
    <1>5. DOMAIN disk' \subseteq Names
          BY <1>1 DEF DiskOK
    <1>6. QED  BY <1>2, <1>3, <1>4, <1>5 DEF DiskOK, EntryType, FileType, FileOK

\* What the three steps that touch a file do to it, and to no other.
Written(j, name, c) ==
    [file |-> At(name).file, tmp |-> [holds |-> {c}, open |-> At(name).tmp.open \cup {j}]]
Renamed(j, name) ==
    [file |-> Closed(IF CanInstall(name) THEN At(name).tmp ELSE At(name).file, j), tmp |-> NoFile]
Left(j, n, torn) == [file |-> Abandoned(At(n).file, j, torn), tmp |-> Abandoned(At(n).tmp, j, torn)]

LEMMA CreatedAt ==
    ASSUME DiskOK, NEW j \in Jobs, NEW name \in Names, NEW content \in Contents(name),
           disk' \in Created(j, name, content)
    PROVE  DiskOK' /\ \E c \in Outcomes(At(name).tmp, content) :
             \A n : At(n)' = IF n = name THEN Written(j, name, c) ELSE At(n)
    <1>1. /\ At(name) \in EntryType(name)
          /\ FileOK(At(name).file)
          BY EveryEntry
    <1>2. PICK c \in Outcomes(At(name).tmp, content) :
            disk' = Put(name, [At(name) EXCEPT !.tmp = [holds |-> {c}, open |-> @.open \cup {j}]])
          BY DEF Created
    <1>3. [At(name) EXCEPT !.tmp = [holds |-> {c}, open |-> @.open \cup {j}]] = Written(j, name, c)
          BY <1>1 DEF EntryType, FileType, Written
    <1>4. c \in Contents(name) \cup {Torn}
          BY <1>1, <1>2 DEF Outcomes, EntryType, FileType
    <1>5. Written(j, name, c) \in EntryType(name)
          BY <1>1, <1>4 DEF EntryType, FileType, Written
    <1>6. FileOK(Written(j, name, c).file) /\ FileOK(Written(j, name, c).tmp)
          BY <1>1 DEF Written, FileOK
    <1>7. QED  BY <1>2, <1>3, <1>5, <1>6, PutOK

LEMMA InstalledAt ==
    ASSUME DiskOK, NEW j \in Jobs, NEW name \in Names, disk' = Installed(j, name)
    PROVE  DiskOK' /\ \A n : At(n)' = IF n = name THEN Renamed(j, name) ELSE At(n)
    <1>1. /\ At(name) \in EntryType(name)
          /\ FileOK(At(name).file) /\ FileOK(At(name).tmp)
          BY EveryEntry
    <1>2. Renamed(j, name) \in EntryType(name)
          BY <1>1 DEF EntryType, FileType, Renamed, Closed, NoFile
    <1>3. FileOK(Renamed(j, name).file) /\ FileOK(Renamed(j, name).tmp)
          BY <1>1 DEF EntryType, FileType, Renamed, Closed, NoFile, FileOK
    <1>4. disk' = Put(name, Renamed(j, name))
          BY DEF Installed, Renamed
    <1>5. QED  BY <1>2, <1>3, <1>4, PutOK

Dies(j, torn) ==
    disk' = [n \in DOMAIN disk |-> [file |-> Abandoned(disk[n].file, j, torn),
                                    tmp  |-> Abandoned(disk[n].tmp, j, torn)]]
LEMMA CrashedAt ==
    ASSUME DiskOK, NEW j \in Jobs, NEW torn \in BOOLEAN, Dies(j, torn)
    PROVE  DiskOK' /\ \A n : At(n)' = Left(j, n, torn)
    <1>1. \A n : At(n)' = Left(j, n, torn)
          BY DEF At, Abandoned, Absent, NoFile, Left, Dies
    <1>2. ASSUME NEW n PROVE Left(j, n, torn) \in EntryType(n)
          BY EveryEntry DEF EntryType, FileType, Left, Abandoned
    <1>3. ASSUME NEW n PROVE FileOK(Left(j, n, torn).file) /\ FileOK(Left(j, n, torn).tmp)
      <2>1. /\ At(n) \in EntryType(n)
            /\ FileOK(At(n).file) /\ FileOK(At(n).tmp)
            BY EveryEntry
      <2>2. QED  BY <2>1 DEF EntryType, FileType, FileOK, Left, Abandoned
    <1>4. DOMAIN disk' = DOMAIN disk /\ \A n \in DOMAIN disk : disk'[n] = At(n)'
          BY DEF Dies, At
    <1>5. QED  BY <1>1, <1>2, <1>3, <1>4 DEF DiskOK, EntryType, FileType, FileOK

(***************************************************************************)
(* The computes, and everything else.  The cells still to do are cells of  *)
(* the selection.                                                          *)
(***************************************************************************)
TodoOK(job) ==
    job.pc \in {"generate", "install"} => \A i \in job.cellsTodo : i + 1 \in DOMAIN job.cells
JobsOK == jobs \in [Jobs -> JobType] /\ \A j \in Jobs : TodoOK(jobs[j])
WarmOK ==
    DOMAIN warm \subseteq OptionType /\ \A o \in DOMAIN warm : warm[o] \in 0 .. DedupeTtl
RestOK ==
    /\ files \in [Walls -> Nat]
    /\ mem \in Libraries /\ at \in [Outputs -> Walls]
    /\ req \in RequestType
    /\ WarmOK
    /\ changes \in Nat /\ crashes \in Nat /\ computes \in Nat
    /\ warmed \subseteq Walls \X Walls /\ disturbed \in BOOLEAN
Shape == RestOK /\ DiskOK /\ JobsOK

LEMMA ShapeIsTyped == Shape => TypeOK
    BY DEF Shape, RestOK, WarmOK, DiskOK, JobsOK, TypeOK, EntryType

\* A step of one compute that sets it to job.
Sets(j, job) ==
    /\ jobs'[j] = job
    /\ \A i \in Jobs \ {j} : jobs'[i] = jobs[i]
LEMMA SetJobOK ==
    ASSUME JobsOK, NEW j \in Jobs, NEW job \in JobType, TodoOK(job), SetJob(j, job)
    PROVE  JobsOK' /\ Sets(j, job)
    <1>1. jobs' \in [Jobs -> JobType] /\ Sets(j, job)
          BY DEF JobsOK, SetJob, Sets
    <1>2. ASSUME NEW i \in Jobs PROVE TodoOK(jobs[i])'
      <2>1. CASE i = j
            BY <1>1, <2>1 DEF Sets, TodoOK
      <2>2. CASE i # j
            BY <1>1, <2>2 DEF Sets, TodoOK, JobsOK
      <2>3. QED  BY <2>1, <2>2
    <1>3. QED  BY <1>1, <1>2 DEF JobsOK

LEMMA AllScopeOK == AllScope \in OptionType
    BY DEF AllScope, OptionType

LEMMA IdleOK ==
    /\ Idle \in JobType /\ TodoOK(Idle) /\ Idle.pc = "idle"
    /\ Idle.cells = <<>> /\ Idle.keys = <<>>
    BY AllScopeOK, EmptyPathOrder, EmptyList, NamesOK DEF Idle, JobType, TodoOK

LEMMA StartedOK ==
    ASSUME NEW opts \in OptionType
    PROVE  /\ Started(opts) \in JobType /\ TodoOK(Started(opts))
           /\ Started(opts).pc = "index" /\ Started(opts).cells = <<>> /\ Started(opts).keys = <<>>
    <1>1. Idle \in JobType
          BY IdleOK
    <1>2. Started(opts) \in JobType /\ Started(opts).pc = "index"
          BY <1>1 DEF Started, JobType
    <1>3. Started(opts).cells = Idle.cells /\ Started(opts).keys = Idle.keys
          BY <1>1 DEF Started, JobType
    <1>4. QED  BY <1>2, <1>3, IdleOK DEF TodoOK

\* The steps of a compute leave the rest alone.
LEMMA NoChangeOK ==
    ASSUME RestOK, NoChange, warmed' \subseteq Walls \X Walls, disturbed' \in BOOLEAN
    PROVE  RestOK'
    BY DEF RestOK, WarmOK, NoChange, env

Wrote(j, name, content) ==
    \E c \in Outcomes(At(name).tmp, content) :
      \A n : At(n)' = IF n = name THEN Written(j, name, c) ELSE At(n)
Moved(j, name) == \A n : At(n)' = IF n = name THEN Renamed(j, name) ELSE At(n)

LEMMA CreateSnapshotDoes ==
    ASSUME Shape, NEW j \in Jobs, CreateSnapshot(j)
    PROVE  /\ Shape' /\ Wrote(j, Snapshot(Library), Library)
           /\ Sets(j, [jobs[j] EXCEPT !.pc = "snapshot", !.lib = Library])
    <1>1. Library \in Libraries /\ Snapshot(Library) \in Names /\ Library \in Contents(Snapshot(Library))
          BY LibraryOK, NamesOK
    <1>2. DiskOK' /\ Wrote(j, Snapshot(Library), Library)
          BY <1>1, CreatedAt DEF CreateSnapshot, Shape, Wrote
    <1> DEFINE job == [jobs[j] EXCEPT !.pc = "snapshot", !.lib = Library]
    <1>3. job \in JobType /\ TodoOK(job)
          BY <1>1, ZenonT(60) DEF Shape, JobsOK, JobType, TodoOK
    <1>4. JobsOK' /\ Sets(j, job)
          BY <1>3, SetJobOK DEF CreateSnapshot, Shape
    <1>5. RestOK'
          BY NoChangeOK DEF CreateSnapshot, Shape, RestOK
    <1>6. QED  BY <1>2, <1>4, <1>5 DEF Shape

LEMMA InstallSnapshotDoes ==
    ASSUME Shape, NEW j \in Jobs, InstallSnapshot(j)
    PROVE  /\ Shape' /\ Moved(j, Snapshot(jobs[j].lib))
           /\ IF CanInstall(Snapshot(jobs[j].lib)) THEN Sets(j, [jobs[j] EXCEPT !.pc = "manifest"])
              ELSE Sets(j, Idle)
    <1> DEFINE job == [jobs[j] EXCEPT !.pc = "manifest"]
    <1>1. job \in JobType /\ TodoOK(job)
          BY ZenonT(60) DEF Shape, JobsOK, JobType, TodoOK
    <1>2. Snapshot(jobs[j].lib) \in Names
          BY NamesOK DEF Shape, JobsOK, JobType
    <1>3. DiskOK' /\ Moved(j, Snapshot(jobs[j].lib))
          BY <1>2, InstalledAt DEF InstallSnapshot, Shape, Moved
    <1>4. JobsOK' /\ IF CanInstall(Snapshot(jobs[j].lib)) THEN Sets(j, job) ELSE Sets(j, Idle)
          BY <1>1, IdleOK, SetJobOK DEF InstallSnapshot, Abort, Shape
    <1>5. NoChange /\ warmed' = warmed /\ disturbed' \in BOOLEAN
          BY DEF InstallSnapshot, Accepted
    <1>6. RestOK'
          BY <1>5, NoChangeOK DEF Shape, RestOK
    <1>7. QED  BY <1>3, <1>4, <1>6 DEF Shape

LEMMA CreateManifestDoes ==
    ASSUME Shape, NEW j \in Jobs, CreateManifest(j)
    PROVE  /\ Shape' /\ Wrote(j, Manifest, jobs[j].lib)
           /\ Sets(j, [jobs[j] EXCEPT !.pc = "manifest tmp"])
    <1> DEFINE job == [jobs[j] EXCEPT !.pc = "manifest tmp"]
    <1>1. job \in JobType /\ TodoOK(job) /\ jobs[j].lib \in Libraries
          BY DEF Shape, JobsOK, JobType, TodoOK
    <1>2. DiskOK' /\ Wrote(j, Manifest, jobs[j].lib)
          BY <1>1, CreatedAt, NamesOK DEF CreateManifest, Shape, Wrote
    <1>3. JobsOK' /\ Sets(j, job)
          BY <1>1, SetJobOK DEF CreateManifest, Shape
    <1>4. RestOK'
          BY NoChangeOK DEF CreateManifest, Shape, RestOK
    <1>5. QED  BY <1>2, <1>3, <1>4 DEF Shape

LEMMA InstallManifestDoes ==
    ASSUME Shape, NEW j \in Jobs, InstallManifest(j)
    PROVE  /\ Shape' /\ Moved(j, Manifest)
           /\ IF CanInstall(Manifest) THEN Sets(j, [jobs[j] EXCEPT !.pc = "status", !.lib = <<>>])
              ELSE Sets(j, Idle)
    <1> DEFINE job == [jobs[j] EXCEPT !.pc = "status", !.lib = <<>>]
    <1>1. job \in JobType /\ TodoOK(job)
          BY EmptyPathOrder DEF Shape, JobsOK, JobType, TodoOK
    <1>2. DiskOK' /\ Moved(j, Manifest)
          BY InstalledAt, NamesOK DEF InstallManifest, Shape, Moved
    <1>3. JobsOK' /\ IF CanInstall(Manifest) THEN Sets(j, job) ELSE Sets(j, Idle)
          BY <1>1, IdleOK, SetJobOK DEF InstallManifest, Abort, Shape
    <1>4. NoChange /\ warmed' = warmed /\ disturbed' \in BOOLEAN
      <2>1. NoChange /\ warmed' = warmed /\ disturbed' = Accepted
            BY Zenon DEF InstallManifest
      <2>2. Accepted \in BOOLEAN
            BY DEF Accepted
      <2>3. QED  BY <2>1, <2>2
    <1>5. RestOK'
          BY <1>4, NoChangeOK DEF Shape, RestOK
    <1>6. QED  BY <1>2, <1>3, <1>5 DEF Shape

\* The steps that leave the files alone: scans, what exists already, the end.
ScanDoes(j, job) == Shape' /\ disk' = disk /\ Sets(j, job)

LEMMA SetsShape ==
    ASSUME Shape, NEW j \in Jobs, NEW job \in JobType, TodoOK(job), SetJob(j, job), disk' = disk,
           NoChange, warmed' \subseteq Walls \X Walls, disturbed' \in BOOLEAN
    PROVE  ScanDoes(j, job)
    <1>1. JobsOK' /\ Sets(j, job)
          BY SetJobOK DEF Shape
    <1>2. DiskOK'
          BY DEF Shape, DiskOK, At, IsFile
    <1>3. RestOK'
          BY NoChangeOK DEF Shape
    <1>4. QED  BY <1>1, <1>2, <1>3 DEF Shape, ScanDoes

LEMMA ScanStatusDoes ==
    ASSUME Shape, NEW j \in Jobs, ScanStatus(j)
    PROVE  ScanDoes(j, [jobs[j] EXCEPT !.pc = "cells", !.status = Library])
    <1> DEFINE job == [jobs[j] EXCEPT !.pc = "cells", !.status = Library]
    <1>1. job \in JobType /\ TodoOK(job)
          BY LibraryOK DEF Shape, JobsOK, JobType, TodoOK
    <1>2. /\ SetJob(j, job) /\ disk' = disk /\ NoChange
          /\ warmed' \subseteq Walls \X Walls /\ disturbed' \in BOOLEAN
          BY DEF ScanStatus, Shape, RestOK
    <1> HIDE DEF job
    <1>3. ScanDoes(j, job)
          BY <1>1, <1>2, SetsShape
    <1>4. QED  BY <1>3 DEF job

LEMMA ScanCellsDoes ==
    ASSUME Shape, NEW j \in Jobs, ScanCells(j)
    PROVE  ScanDoes(j, [jobs[j] EXCEPT !.pc = "grid", !.cells = CellKeys(Library)])
    <1> DEFINE job == [jobs[j] EXCEPT !.pc = "grid", !.cells = CellKeys(Library)]
    <1>1. CellKeys(Library) \in Lists
          BY LibraryOK, CellKeysOK DEF Shape, RestOK
    <1>2. job \in JobType /\ TodoOK(job)
          BY <1>1 DEF Shape, JobsOK, JobType, TodoOK
    <1>3. /\ SetJob(j, job) /\ disk' = disk /\ NoChange
          /\ warmed' \subseteq Walls \X Walls /\ disturbed' \in BOOLEAN
          BY DEF ScanCells, Shape, RestOK
    <1> HIDE DEF job
    <1>4. ScanDoes(j, job)
          BY <1>2, <1>3, SetsShape
    <1>5. QED  BY <1>4 DEF job

LEMMA ScanGridDoes ==
    ASSUME Shape, NEW j \in Jobs, ScanGrid(j)
    PROVE  ScanDoes(j, [jobs[j] EXCEPT !.pc = "keys", !.grid = Library])
    <1> DEFINE job == [jobs[j] EXCEPT !.pc = "keys", !.grid = Library]
    <1>1. job \in JobType /\ TodoOK(job)
          BY LibraryOK DEF Shape, JobsOK, JobType, TodoOK
    <1>2. /\ SetJob(j, job) /\ disk' = disk /\ NoChange
          /\ warmed' \subseteq Walls \X Walls /\ disturbed' \in BOOLEAN
          BY DEF ScanGrid, Shape, RestOK
    <1> HIDE DEF job
    <1>3. ScanDoes(j, job)
          BY <1>1, <1>2, SetsShape
    <1>4. QED  BY <1>3 DEF job

WithKeys(job) == [job EXCEPT !.keys = CellKeys(Library)]
Chosen(job) ==
    LET with == WithKeys(job)  tiles == SelectedTiles(with)
    IN [with EXCEPT !.pc = "generate", !.tilesTodo = tiles, !.cellsTodo = SelectedCells(with, tiles),
                    !.raced = ~Consistent(with)]
LEMMA ScanKeysDoes ==
    ASSUME Shape, NEW j \in Jobs, ScanKeys(j)
    PROVE  ScanDoes(j, Chosen(jobs[j])) \/ ScanDoes(j, Idle)
    <1> DEFINE with == WithKeys(jobs[j])
               tiles == SelectedTiles(with)
    <1>1. with \in JobType
      <2>1. CellKeys(Library) \in Lists
            BY LibraryOK, CellKeysOK DEF Shape, RestOK
      <2>2. QED  BY <2>1 DEF Shape, JobsOK, JobType, WithKeys
    <1>2. tiles \in SUBSET AllKeys
          BY <1>1, SelectedTilesOK DEF JobType
    <1>3. /\ SelectedCells(with, tiles) \in SUBSET Indices
          /\ \A i \in SelectedCells(with, tiles) : i + 1 \in DOMAIN with.cells
          BY <1>1, SelectedCellsOK DEF JobType
    <1>4. Chosen(jobs[j]) \in JobType /\ TodoOK(Chosen(jobs[j]))
      <2> HIDE DEF with, tiles
      <2> DEFINE r == ~Consistent(with)
      <2>1. r \in BOOLEAN
            OBVIOUS
      <2> HIDE DEF r
      <2> DEFINE new == [with EXCEPT !.pc = "generate", !.tilesTodo = tiles,
                                     !.cellsTodo = SelectedCells(with, tiles), !.raced = r]
      <2>2. new \in JobType /\ TodoOK(new)
            BY <1>1, <1>2, <1>3, <2>1 DEF JobType, TodoOK
      <2>3. new = Chosen(jobs[j])
            BY DEF new, r, with, tiles, Chosen
      <2>4. QED  BY <2>2, <2>3
    <1>5. /\ SetJob(j, Chosen(jobs[j])) \/ SetJob(j, Idle)
          /\ disk' = disk /\ NoChange
          /\ warmed' \subseteq Walls \X Walls /\ disturbed' \in BOOLEAN
          BY DEF ScanKeys, Shape, RestOK, Abort, Chosen, WithKeys
    <1>6. CASE SetJob(j, Chosen(jobs[j]))
          BY <1>4, <1>5, <1>6, SetsShape
    <1>7. CASE SetJob(j, Idle)
          BY <1>5, <1>7, IdleOK, SetsShape
    <1>8. QED  BY <1>5, <1>6, <1>7

LEMMA FinishDoes ==
    ASSUME Shape, NEW j \in Jobs, Finish(j)
    PROVE  ScanDoes(j, Idle)
    <1>1. jobs[j].opts.routes \subseteq Walls \X Walls
          BY DEF Shape, JobsOK, JobType, OptionType
    <1>2. SetJob(j, Idle) /\ disk' = disk /\ NoChange
          BY DEF Finish, Abort
    <1>3. warmed' \subseteq Walls \X Walls /\ disturbed' \in BOOLEAN
          BY <1>1 DEF Finish, Shape, RestOK
    <1>4. QED  BY <1>2, <1>3, IdleOK, SetsShape

\* The next cell is one of the selection.
LEMMA NextCellOK ==
    ASSUME NEW job \in JobType, TodoOK(job), job.pc = "generate", job.cellsTodo # {}
    PROVE  /\ LeastCell(job) + 1 \in DOMAIN job.cells
           /\ NextCell(job) \in Entries
    <1>1. job.cellsTodo \in SUBSET Nat
      <2>1. job.cellsTodo \subseteq Indices
            BY DEF JobType
      <2>2. QED  BY <2>1, NumberOfWalls DEF Indices
    <1>2. LeastCell(job) \in job.cellsTodo
          BY <1>1, LeastNumber DEF LeastCell
    <1>3. LeastCell(job) + 1 \in DOMAIN job.cells
          BY <1>2 DEF TodoOK
    <1>4. \A i \in DOMAIN job.cells : job.cells[i] \in Entries
          BY ListLength DEF JobType
    <1>5. QED  BY <1>3, <1>4 DEF NextCell

LEMMA FromSourceOK ==
    ASSUME files \in [Walls -> Nat], NEW w \in Walls, FromSource(w) # Hole
    PROVE  FromSource(w) = <<w, files[w]>> /\ FromSource(w) \in Entries /\ files[w] # 0
    BY DEF FromSource, Entries

CellSkipped(job) == [WithoutCell(job) EXCEPT !.failed = @ \/ ~IsFile(Cell(NextCell(job)))]
CellDrawn(job) == [WithoutCell(job) EXCEPT !.pc = "install", !.writing = Cell(NextCell(job))]
LEMMA GenerateCellDoes ==
    ASSUME Shape, NEW j \in Jobs, GenerateCell(j)
    PROVE  LET job == jobs[j]  key == NextCell(jobs[j])
           IN /\ job.pc = "generate"
              /\ LeastCell(job) + 1 \in DOMAIN job.cells
              /\ \/ ScanDoes(j, CellSkipped(job))
                 \/ /\ FromSource(key[1]) # Hole
                    /\ Shape' /\ Wrote(j, Cell(key), FromSource(key[1])) /\ Sets(j, CellDrawn(job))
    <1> DEFINE job == jobs[j]
               key == NextCell(jobs[j])
    <1>1. job \in JobType /\ TodoOK(job) /\ job.pc = "generate" /\ job.cellsTodo # {}
          BY DEF GenerateCell, Shape, JobsOK
    <1>2. LeastCell(job) + 1 \in DOMAIN job.cells /\ key \in Entries
          BY <1>1, NextCellOK
    <1>3. Cell(key) \in Names /\ Contents(Cell(key)) = Entries
          BY <1>2, NamesOK
    <1>4. /\ CellSkipped(job) \in JobType /\ TodoOK(CellSkipped(job))
          /\ CellDrawn(job) \in JobType /\ TodoOK(CellDrawn(job))
      <2> HIDE DEF job, key
      <2> DEFINE without == [job EXCEPT !.cellsTodo = @ \ {LeastCell(job)}]
      <2>1. without \in JobType /\ TodoOK(without) /\ without.pc = "generate"
            BY <1>1 DEF JobType, TodoOK
      <2>2. without = WithoutCell(job)
            BY DEF WithoutCell
      <2> HIDE DEF without
      <2> DEFINE f == without.failed \/ ~IsFile(Cell(NextCell(job)))
      <2>3. f \in BOOLEAN
            OBVIOUS
      <2> HIDE DEF f
      <2>4. [without EXCEPT !.failed = f] \in JobType /\ TodoOK([without EXCEPT !.failed = f])
            BY <2>1, <2>3 DEF JobType, TodoOK
      <2>5. CellSkipped(job) = [without EXCEPT !.failed = f]
            BY <2>2 DEF CellSkipped, f
      <2>6. Cell(NextCell(job)) \in Names
            BY <1>3 DEF key, job
      <2>7. CellDrawn(job) \in JobType /\ TodoOK(CellDrawn(job))
        <3> DEFINE drawn == [without EXCEPT !.pc = "install", !.writing = Cell(NextCell(job))]
        <3>1. drawn \in JobType /\ TodoOK(drawn)
              BY <2>1, <2>6 DEF JobType, TodoOK
        <3>2. QED  BY <2>2, <3>1 DEF CellDrawn
      <2>8. QED  BY <2>4, <2>5, <2>7
    <1>5. NoChange /\ warmed' \subseteq Walls \X Walls /\ disturbed' \in BOOLEAN
          BY DEF GenerateCell, Shape, RestOK
    <1>6. CASE IsFile(Cell(key)) \/ FromSource(key[1]) = Hole
      <2>1. SetJob(j, CellSkipped(job)) /\ disk' = disk
            BY <1>6 DEF GenerateCell, CellSkipped
      <2>2. QED  BY <1>2, <1>1, <1>4, <1>5, <2>1, SetsShape
    <1>7. CASE ~(IsFile(Cell(key)) \/ FromSource(key[1]) = Hole)
      <2>1. disk' \in Created(j, Cell(key), FromSource(key[1])) /\ SetJob(j, CellDrawn(job))
            BY <1>7 DEF GenerateCell, CellDrawn
      <2>2. FromSource(key[1]) \in Contents(Cell(key)) /\ FromSource(key[1]) # Hole
        <3>1. key[1] \in Walls
              BY <1>2 DEF Entries
        <3>2. FromSource(key[1]) # Hole
              BY <1>7
        <3>3. QED  BY <1>3, <3>1, <3>2, FromSourceOK DEF Shape, RestOK
      <2>3. DiskOK' /\ Wrote(j, Cell(key), FromSource(key[1]))
            BY <1>3, <2>1, <2>2, CreatedAt DEF Shape, Wrote
      <2>4. JobsOK' /\ Sets(j, CellDrawn(job))
            BY <1>4, <2>1, SetJobOK DEF Shape
      <2>5. RestOK'
            BY <1>5, NoChangeOK DEF Shape
      <2>6. QED  BY <1>1, <1>2, <2>2, <2>3, <2>4, <2>5 DEF Shape
    <1>8. QED  BY <1>6, <1>7

\* The pictures of a tile: every place shows a thumbnail of the cell there.
CellAt(job, p) == job.cells[p[1] * Grid[Len(job.status)].columns + p[2] + 1]
Ground(job, key) == Places[Len(job.cells)][Len(job.grid)][Len(job.status)][key]

LEMMA PlacesOK ==
    ASSUME NEW n \in Counts, NEW g \in Counts, NEW h \in Counts, NEW key \in AllKeys
    PROVE  /\ Places[n][g][h][key] \in Shapes
           /\ \A p \in Places[n][g][h][key] : p[1] * Grid[h].columns + p[2] \in 0 .. n - 1
    BY DEF Places, Shapes

LEMMA DrawnCellsOK ==
    ASSUME NEW job \in JobType, NEW key \in AllKeys
    PROVE  /\ Ground(job, key) \in Shapes
           /\ DOMAIN DrawnCells(job, key) = Ground(job, key)
           /\ \A p \in Ground(job, key) :
                /\ p[1] * Grid[Len(job.status)].columns + p[2] + 1 \in DOMAIN job.cells
                /\ DrawnCells(job, key)[p] = CellAt(job, p)
                /\ DrawnCells(job, key)[p] \in Entries
    <1>1. PICK n \in Counts : job.cells \in [1 .. n -> Entries] /\ Len(job.cells) = n
                                /\ DOMAIN job.cells = 1 .. n
          BY ListLength DEF JobType
    <1>2. Len(job.grid) \in Counts /\ Len(job.status) \in Counts
          BY PathOrders DEF JobType
    <1>3. Ground(job, key) \in Shapes
          BY <1>1, <1>2, PlacesOK DEF Ground
    <1>4. ASSUME NEW p \in Ground(job, key)
          PROVE  p[1] * Grid[Len(job.status)].columns + p[2] + 1 \in 1 .. n
      <2>1. p[1] * Grid[Len(job.status)].columns + p[2] \in 0 .. n - 1
            BY <1>1, <1>2, PlacesOK DEF Ground
      <2>2. n \in Nat
            BY NumberOfWalls DEF Counts
      <2> DEFINE i == p[1] * Grid[Len(job.status)].columns + p[2]
      <2> HIDE DEF i
      <2>3. i \in 0 .. n - 1
            BY <2>1 DEF i
      <2>4. i + 1 \in 1 .. n
            BY <2>2, <2>3
      <2>5. QED  BY <2>4 DEF i
    <1>5. /\ DOMAIN DrawnCells(job, key) = Ground(job, key)
          /\ \A p \in Ground(job, key) : DrawnCells(job, key)[p] = CellAt(job, p)
          BY Zenon DEF DrawnCells, Ground, CellAt
    <1>6. ASSUME NEW p \in Ground(job, key) PROVE CellAt(job, p) \in Entries
          BY <1>1, <1>4 DEF CellAt
    <1>7. QED  BY <1>1, <1>3, <1>4, <1>5, <1>6

LEMMA ThumbnailsOK ==
    ASSUME Shape, NEW e \in Entries
    PROVE  Thumbnails(e) \subseteq Entries \cup {Hole}
    <1>1. CASE IsFile(Cell(e))
      <2>1. At(Cell(e)).file.holds \subseteq Entries \cup {Torn}
        <3>1. At(Cell(e)) \in EntryType(Cell(e)) /\ Contents(Cell(e)) = Entries
              BY EveryEntry, NamesOK DEF Shape
        <3>2. QED  BY <3>1 DEF EntryType, FileType
      <2>2. Reads(Cell(e)) \subseteq Entries \cup {Torn}
            BY <2>1 DEF Reads
      <2>3. QED  BY <1>1, <2>2 DEF Thumbnails
    <1>2. CASE ~IsFile(Cell(e))
      <2>1. e[1] \in Walls
            BY DEF Entries
      <2>2. QED  BY <1>2, <2>1, FromSourceOK DEF Thumbnails, Shape, RestOK
    <1>3. QED  BY <1>1, <1>2

Picture(job, shows) == [shows |-> shows, raced |-> job.raced]
LEMMA PicturesOK ==
    ASSUME Shape, NEW job \in JobType, NEW key \in AllKeys, NEW shows \in Pictures(job, key)
    PROVE  /\ Picture(job, shows) \in Pictures2
           /\ DOMAIN shows = Ground(job, key)
           /\ \A p \in Ground(job, key) : shows[p] \in Thumbnails(CellAt(job, p))
    <1>1. /\ DOMAIN shows = Ground(job, key)
          /\ shows = [p \in DOMAIN shows |-> shows[p]]
          /\ \A p \in Ground(job, key) : shows[p] \in Thumbnails(CellAt(job, p))
          BY DrawnCellsOK DEF Pictures
    <1>2. \A p \in Ground(job, key) : shows[p] \in Entries \cup {Hole}
          BY <1>1, DrawnCellsOK, ThumbnailsOK
    <1>3. shows \in [Ground(job, key) -> Entries \cup {Hole}]
          BY <1>1, <1>2
    <1>4. Ground(job, key) \in Shapes
          BY DrawnCellsOK
    <1>5. job.raced \in BOOLEAN
          BY DEF JobType
    <1>6. QED  BY <1>1, <1>3, <1>4, <1>5 DEF Picture, Pictures2

TileSkipped(job) == [job EXCEPT !.tilesTodo = @ \ {First(job.tilesTodo)}]
NextTile(job) == TileName(job, First(job.tilesTodo))
LEMMA GenerateTileDoes ==
    ASSUME Shape, NEW j \in Jobs, GenerateTile(j)
    PROVE  LET job == jobs[j]  tile == NextTile(job)
           IN /\ job.pc = "generate" /\ First(job.tilesTodo) \in AllKeys
              /\ \/ ScanDoes(j, TileSkipped(job))
                 \/ \E shows \in Pictures(job, First(job.tilesTodo)) : \E f \in BOOLEAN :
                      /\ Shape' /\ Wrote(j, tile, Picture(job, shows))
                      /\ Sets(j, [TileSkipped(job) EXCEPT !.pc = "install", !.writing = tile, !.failed = f])
    <1> DEFINE job == jobs[j]
               key == First(jobs[j].tilesTodo)
               tile == NextTile(jobs[j])
    <1>1. job \in JobType /\ TodoOK(job) /\ job.pc = "generate" /\ job.cellsTodo = {} /\ job.tilesTodo # {}
          BY DEF GenerateTile, Shape, JobsOK
    <1>2. key \in AllKeys
          BY <1>1, FirstTile DEF JobType
    <1>3. tile \in Names /\ Contents(tile) = Pictures2
      <2>1. job.grid \in Libraries /\ job.keys \in Lists
            BY <1>1 DEF JobType
      <2>2. tile = Tile(job.grid, job.keys, key)
            BY DEF NextTile, TileName
      <2>3. Tile(job.grid, job.keys, key) \in Names /\ Contents(Tile(job.grid, job.keys, key)) = Pictures2
        <3> HIDE DEF job, key, tile
        <3>1. QED  BY <1>2, <2>1, NamesOK
      <2>4. QED  BY <2>2, <2>3
    <1>4. TileSkipped(job) \in JobType /\ TodoOK(TileSkipped(job)) /\ TileSkipped(job).cellsTodo = {}
          BY <1>1 DEF TileSkipped, JobType, TodoOK
    <1>5. NoChange /\ warmed' \subseteq Walls \X Walls /\ disturbed' \in BOOLEAN
          BY DEF GenerateTile, Shape, RestOK
    <1>6. CASE IsFile(tile)
      <2>1. SetJob(j, TileSkipped(job)) /\ disk' = disk
            BY <1>6 DEF GenerateTile, TileSkipped, NextTile
      <2>2. QED  BY <1>1, <1>2, <1>4, <1>5, <2>1, SetsShape
    <1>7. CASE ~IsFile(tile)
      <2>1. PICK shows \in Pictures(job, key) :
              /\ disk' \in Created(j, tile, Picture(job, shows))
              /\ SetJob(j, [TileSkipped(job) EXCEPT !.pc = "install", !.writing = tile,
                              !.failed = @ \/ \E p \in DOMAIN shows : shows[p] = Hole])
            BY <1>7 DEF GenerateTile, TileSkipped, NextTile, Picture
      <2> DEFINE f == TileSkipped(job).failed \/ \E p \in DOMAIN shows : shows[p] = Hole
                 new == [TileSkipped(job) EXCEPT !.pc = "install", !.writing = tile, !.failed = f]
      <2>2. Picture(job, shows) \in Contents(tile)
            BY <1>1, <1>2, <1>3, PicturesOK
      <2>3. DiskOK' /\ Wrote(j, tile, Picture(job, shows))
            BY <1>3, <2>1, <2>2, CreatedAt DEF Shape, Wrote
      <2>4. f \in BOOLEAN
            OBVIOUS
      <2>5. new \in JobType /\ TodoOK(new)
        <3> HIDE DEF f, tile, job
        <3>1. QED  BY <1>3, <1>4, <2>4 DEF JobType, TodoOK
      <2>6. SetJob(j, new)
            BY <2>1
      <2> HIDE DEF new
      <2>7. JobsOK' /\ Sets(j, new)
            BY <2>5, <2>6, SetJobOK DEF Shape
      <2>8. RestOK'
            BY <1>5, NoChangeOK DEF Shape
      <2>9. Shape' /\ Sets(j, [TileSkipped(job) EXCEPT !.pc = "install", !.writing = tile, !.failed = f])
            BY <2>3, <2>7, <2>8 DEF Shape, new
      <2> HIDE DEF f
      <2>10. QED  BY <1>1, <1>2, <2>1, <2>3, <2>4, <2>9
    <1>8. QED  BY <1>6, <1>7

LEMMA InstallDoes ==
    ASSUME Shape, NEW j \in Jobs, Install(j)
    PROVE  /\ Shape' /\ Moved(j, jobs[j].writing) /\ jobs[j].pc = "install"
           /\ \E f \in BOOLEAN :
                Sets(j, [jobs[j] EXCEPT !.pc = "generate", !.writing = Manifest, !.failed = f])
    <1> DEFINE f == jobs[j].failed \/ ~CanInstall(jobs[j].writing)
               job == [jobs[j] EXCEPT !.pc = "generate", !.writing = Manifest, !.failed = f]
    <1>1. jobs[j] \in JobType /\ TodoOK(jobs[j]) /\ jobs[j].pc = "install" /\ jobs[j].writing \in Names
          BY DEF Install, Shape, JobsOK, JobType
    <1>2. f \in BOOLEAN
          OBVIOUS
    <1>3. job \in JobType /\ TodoOK(job)
      <2> HIDE DEF f
      <2>1. QED  BY <1>1, <1>2, NamesOK DEF JobType, TodoOK
    <1>4. SetJob(j, job)
          BY DEF Install
    <1>5. DiskOK' /\ Moved(j, jobs[j].writing)
          BY <1>1, InstalledAt DEF Install, Shape, Moved
    <1> HIDE DEF job
    <1>6. JobsOK' /\ Sets(j, job)
          BY <1>3, <1>4, SetJobOK DEF Shape
    <1>7. RestOK'
          BY NoChangeOK DEF Install, Shape, RestOK
    <1> HIDE DEF f
    <1>8. QED  BY <1>1, <1>2, <1>5, <1>6, <1>7 DEF Shape, job

LEMMA JobCrashDoes ==
    ASSUME Shape, NEW j \in Jobs, JobCrash(j)
    PROVE  /\ Shape' /\ Sets(j, Idle) /\ crashes' = crashes + 1
           /\ \E torn \in BOOLEAN : \A n : At(n)' = Left(j, n, torn)
    <1>1. PICK torn \in BOOLEAN : Dies(j, torn)
          BY DEF JobCrash, Dies
    <1>2. DiskOK' /\ \A n : At(n)' = Left(j, n, torn)
          BY <1>1, CrashedAt DEF Shape
    <1>3. JobsOK' /\ Sets(j, Idle)
          BY IdleOK, SetJobOK DEF JobCrash, Abort, Shape
    <1>4. RestOK'
          BY DEF JobCrash, Shape, RestOK, WarmOK
    <1>5. crashes' = crashes + 1
          BY DEF JobCrash
    <1>6. QED  BY <1>2, <1>3, <1>4, <1>5 DEF Shape

(***************************************************************************)
(* The supervisor, the library and the user.                               *)
(***************************************************************************)
\* Some compute may have been started.
MayStart ==
    \A j \in Jobs :
      jobs'[j] = jobs[j] \/ \E opts \in OptionType : jobs'[j] = Started(opts)

LEMMA StartsOne ==
    ASSUME JobsOK, NEW opts \in OptionType, NEW j \in Jobs, SetJob(j, Started(opts))
    PROVE  JobsOK' /\ MayStart
    <1>1. JobsOK' /\ Sets(j, Started(opts))
          BY StartedOK, SetJobOK
    <1>2. QED  BY <1>1 DEF Sets, MayStart

LEMMA StartsNone ==
    ASSUME JobsOK, jobs' = jobs
    PROVE  JobsOK' /\ MayStart
    BY DEF JobsOK, MayStart, TodoOK

LEMMA NotedOK ==
    ASSUME WarmOK, NEW opts \in OptionType, warm' = Noted(opts) \/ warm' = Remembered
    PROVE  WarmOK'
    <1>1. DedupeTtl \in Nat
          BY WorldCacheAssumption
    <1>2. /\ DOMAIN Remembered \subseteq DOMAIN warm
          /\ \A o \in DOMAIN Remembered : Remembered[o] = warm[o]
          BY DEF Remembered
    <1>3. CASE warm' = Remembered
          BY <1>2, <1>3 DEF WarmOK
    <1>4. CASE warm' = Noted(opts)
      <2>1. /\ DOMAIN warm' = DOMAIN Remembered \cup {opts}
            /\ \A o \in DOMAIN warm' : warm'[o] = IF o = opts THEN 0 ELSE Remembered[o]
            BY <1>4 DEF Noted
      <2>2. QED  BY <1>1, <1>2, <2>1 DEF WarmOK
    <1>5. QED  BY <1>3, <1>4

LEMMA ScheduleDoes ==
    ASSUME JobsOK, WarmOK, NEW opts \in OptionType, Schedule(opts)
    PROVE  JobsOK' /\ MayStart /\ WarmOK'
    <1>1. WarmOK'
          BY NotedOK DEF Schedule
    <1>2. CASE UNCHANGED jobs
          BY <1>1, <1>2, StartsNone
    <1>3. CASE \E j \in Jobs : SetJob(j, Started(opts))
          BY <1>1, <1>3, StartsOne
    <1>4. QED  BY <1>2, <1>3 DEF Schedule

LEMMA DiskKept ==
    ASSUME DiskOK, disk' = disk
    PROVE  DiskOK' /\ \A n : At(n)' = At(n)
    BY DEF DiskOK, At

LEMMA UserComputeDoes ==
    ASSUME Shape, NEW j \in Jobs, UserCompute(j)
    PROVE  Shape' /\ disk' = disk /\ MayStart
    <1>1. PICK opts \in UserOptions : SetJob(j, Started(opts))
          BY DEF UserCompute
    <1>2. opts \in OptionType
          BY WorldCacheAssumption
    <1>3. JobsOK' /\ MayStart
          BY <1>1, <1>2, StartsOne DEF Shape
    <1>4. RestOK' /\ disk' = disk
          BY DEF UserCompute, Shape, RestOK, WarmOK
    <1>5. QED  BY <1>3, <1>4, DiskKept DEF Shape

\* The parts of a request.
LEMMA RequestParts ==
    ASSUME req \in RequestType
    PROVE  /\ req.entries \in Selections /\ DOMAIN req.entries \subseteq Outputs
           /\ \A o \in DOMAIN req.entries : req.entries[o] \in Walls
           /\ req.action \in {"next", "set", "quarantine"}
           /\ req.pc \in {"idle", "gate", "move", "plan", "render"}
           /\ req.removed \in Entries \cup {<<>>}
    <1>1. req.entries \in Selections
          BY DEF RequestType
    <1>2. PICK names \in SUBSET Outputs : req.entries \in [names -> Walls]
          BY <1>1 DEF Selections
    <1>3. QED  BY <1>1, <1>2 DEF RequestType

LEMMA NoRequestOK == NoRequest \in RequestType
    <1>1. <<>> \in Selections
      <2>1. <<>> \in [{} -> Walls] /\ {} \in SUBSET Outputs
            OBVIOUS
      <2>2. QED  BY <2>1 DEF Selections
    <1>2. QED  BY <1>1, EmptyPathOrder DEF NoRequest, RequestType, Hard

LEMMA ReachedOK ==
    ASSUME req \in RequestType, at \in [Outputs -> Walls]
    PROVE  Reached(req.entries) \in [Outputs -> Walls]
    BY RequestParts DEF Reached

LEMMA ForgetsOK ==
    ASSUME mem \in Libraries, NEW walls, Forgets(walls)
    PROVE  mem' \in Libraries
    <1>1. { mem[i] : i \in DOMAIN mem } \ walls \in SUBSET Walls
      <2>1. PICK n \in Counts : mem \in [1 .. n -> Walls] /\ DOMAIN mem = 1 .. n
            BY PathOrders
      <2>2. QED  BY <2>1
    <1>2. QED  BY <1>1 DEF Forgets, Libraries

\* The plan of a request is made of levels and cells of its library.
LEMMA DaemonLodOK ==
    ASSUME NEW n \in Counts, NEW s \in Indices, NEW t \in Indices, DaemonLod[n][s][t] # NoLod
    PROVE  DaemonLod[n][s][t] \in Levels[n] /\ FitsBudget(Grid[n], s, t, DaemonLod[n][s][t])
    <1>1. DaemonLod[n][s][t] = RouteLod(Grid[n], s, t, Levels[n])
          BY DEF DaemonLod
    <1>2. \E lod \in Levels[n] : FitsBudget(Grid[n], s, t, lod)
          BY <1>1 DEF RouteLod
    <1> DEFINE Fit == { lod \in Levels[n] : FitsBudget(Grid[n], s, t, lod) }
    <1>3. Fit \in SUBSET Nat /\ Fit # {}
          BY <1>2, LevelsOK
    <1>4. PICK lod \in Fit : \A l \in Fit : lod <= l
          BY <1>3, LeastNumber
    <1>5. \A l \in Levels[n] : l < lod => ~FitsBudget(Grid[n], s, t, l)
      <2>1. ASSUME NEW l \in Levels[n], l < lod, FitsBudget(Grid[n], s, t, l) PROVE FALSE
        <3>1. l \in Fit /\ lod <= l
              BY <1>4, <2>1
        <3>2. l \in Nat /\ lod \in Nat
              BY <1>3, <3>1
        <3>3. QED  BY <2>1, <3>1, <3>2
      <2>2. QED  BY <2>1
    <1> DEFINE best == CHOOSE k \in Levels[n] : /\ FitsBudget(Grid[n], s, t, k)
                         /\ \A l \in Levels[n] : l < k => ~FitsBudget(Grid[n], s, t, l)
    <1>6. best \in Levels[n] /\ FitsBudget(Grid[n], s, t, best)
          BY <1>4, <1>5
    <1>7. RouteLod(Grid[n], s, t, Levels[n]) = best
          BY <1>2 DEF RouteLod
    <1>8. QED  BY <1>1, <1>6, <1>7

SnapshotType == [kind : {"hard", "fallback", "use"}, lib : Libraries]
LEMMA AnswersOK ==
    /\ Hard \in SnapshotType /\ Refuse \in SnapshotType
    /\ Hard.kind = "hard" /\ Refuse.kind = "fallback"
    /\ \A lib \in Libraries : Use(lib) \in SnapshotType /\ Use(lib).kind = "use" /\ Use(lib).lib = lib
    BY EmptyPathOrder DEF SnapshotType, Hard, Refuse, Use

LEMMA ManifestReads ==
    ASSUME DiskOK, NEW c \in Reads(Manifest), c # Torn
    PROVE  c \in Libraries /\ c \in At(Manifest).file.holds
    <1>1. At(Manifest) \in EntryType(Manifest) /\ Contents(Manifest) = Libraries
          BY EveryEntry, NamesOK
    <1>2. QED  BY <1>1 DEF Reads, EntryType, FileType

LEMMA CacheSnapshotsOK ==
    ASSUME DiskOK, NEW s \in CacheSnapshots
    PROVE  /\ s \in SnapshotType
           /\ s.kind = "use" =>
                /\ s = Use(s.lib)
                /\ s.lib \in At(Manifest).file.holds
                /\ \/ s.lib = Library /\ mem = Library
                   \/ s.lib # Library /\ s.lib \in Reads(Snapshot(s.lib))
    <1>1. CASE ~IsFile(Manifest)
          BY <1>1, AnswersOK DEF CacheSnapshots
    <1>2. CASE IsFile(Manifest)
      <2>1. PICK c \in Reads(Manifest) :
              s \in IF c = Torn THEN {Hard, Refuse}
                    ELSE IF c = Library THEN { IF mem = Library THEN Use(Library) ELSE Refuse }
                    ELSE IndexedSnapshot(c)
            BY <1>2 DEF CacheSnapshots
      <2>2. CASE c = Torn
            BY <2>1, <2>2, AnswersOK
      <2>3. CASE c # Torn /\ c = Library
            BY <2>1, <2>3, AnswersOK, ManifestReads
      <2>4. CASE c # Torn /\ c # Library
        <3>1. s \in IndexedSnapshot(c)
              BY <2>1, <2>4
        <3>2. c \in Libraries /\ c \in At(Manifest).file.holds
              BY <2>4, ManifestReads
        <3>3. CASE ~IsFile(Snapshot(c))
              BY <3>1, <3>3, AnswersOK DEF IndexedSnapshot
        <3>4. CASE IsFile(Snapshot(c))
          <4>1. PICK d \in Reads(Snapshot(c)) : s = IF d = c THEN Use(c) ELSE Hard
                BY <3>1, <3>4 DEF IndexedSnapshot
          <4>2. QED  BY <2>4, <3>2, <4>1, AnswersOK
        <3>5. QED  BY <3>3, <3>4
      <2>5. QED  BY <2>2, <2>3, <2>4
    <1>3. QED  BY <1>1, <1>2

PlanType == [kind : {"plan"}, lib : Libraries,
             routes : UNION { [names -> RouteType] : names \in SUBSET Outputs }]
\* When a plan is made at all.
Plannable(lib, entries) ==
    /\ \A i \in DOMAIN lib : lib[i] \in Present
    /\ \A o \in DOMAIN entries : InLibrary(lib, at[o]) /\ InLibrary(lib, entries[o])
    /\ \A o \in DOMAIN entries : Route(lib, o, entries[o]).lod # NoLod
PlanFor(lib, entries) ==
    [kind |-> "plan", lib |-> lib, routes |-> [o \in DOMAIN entries |-> Route(lib, o, entries[o])]]

LEMMA RouteOK ==
    ASSUME NEW lib \in Libraries, NEW o, NEW w, InLibrary(lib, at[o]), InLibrary(lib, w),
           Route(lib, o, w).lod # NoLod
    PROVE  /\ Route(lib, o, w) \in RouteType
           /\ FitsBudget(Grid[Len(lib)], Route(lib, o, w).from, Route(lib, o, w).to, Route(lib, o, w).lod)
    <1> DEFINE s == IndexOf(lib, at[o])
               t == IndexOf(lib, w)
               n == Len(lib)
    <1>1. s \in Indices /\ t \in Indices /\ n \in Counts
          BY IndexOK, PathOrders
    <1>2. Route(lib, o, w) = [from |-> s, to |-> t, lod |-> DaemonLod[n][s][t]]
          BY DEF Route
    <1> HIDE DEF s, t, n
    <1>3. DaemonLod[n][s][t] # NoLod
          BY <1>2
    <1>4. DaemonLod[n][s][t] \in Levels[n] /\ FitsBudget(Grid[n], s, t, DaemonLod[n][s][t])
          BY <1>1, <1>3, DaemonLodOK
    <1>5. QED  BY <1>1, <1>2, <1>4 DEF RouteType, n

LEMMA RoutePlanIs ==
    ASSUME NEW s \in SnapshotType, NEW entries
    PROVE  LET plan == RoutePlan(s, entries)
           IN /\ s.kind = "use" /\ Plannable(s.lib, entries) => plan = PlanFor(s.lib, entries)
              /\ plan.kind = "plan" => s.kind = "use" /\ Plannable(s.lib, entries)
    <1> DEFINE routes == [o \in DOMAIN entries |-> Route(s.lib, o, entries[o])]
    <1>1. /\ s.kind # "use" => RoutePlan(s, entries) = s
          /\ s.kind = "use" =>
               RoutePlan(s, entries) =
                 IF \E i \in DOMAIN s.lib : s.lib[i] \notin Present THEN Hard
                 ELSE IF \E o \in DOMAIN entries : ~InLibrary(s.lib, at[o]) \/ ~InLibrary(s.lib, entries[o])
                      THEN Refuse
                 ELSE IF \E o \in DOMAIN entries : routes[o].lod = NoLod THEN Refuse
                 ELSE PlanFor(s.lib, entries)
          BY DEF RoutePlan, PlanFor
    <1>2. \A o \in DOMAIN entries : routes[o] = Route(s.lib, o, entries[o])
          OBVIOUS
    <1>3. s.kind # "plan"
          BY DEF SnapshotType
    <1> HIDE DEF routes
    <1>4. QED  BY <1>1, <1>2, <1>3, AnswersOK DEF Plannable

LEMMA PlanForOK ==
    ASSUME NEW lib \in Libraries, NEW entries \in Selections, Plannable(lib, entries)
    PROVE  PlanFor(lib, entries) \in PlanType
    <1>1. PICK names \in SUBSET Outputs : entries \in [names -> Walls]
          BY DEF Selections
    <1>2. \A o \in DOMAIN entries : Route(lib, o, entries[o]) \in RouteType
          BY RouteOK DEF Plannable
    <1>3. [o \in DOMAIN entries |-> Route(lib, o, entries[o])] \in [names -> RouteType]
          BY <1>1, <1>2
    <1>4. QED  BY <1>3 DEF PlanFor, PlanType

LEMMA AtPcOK ==
    ASSUME req \in RequestType, NEW pc \in {"idle", "gate", "move", "plan", "render"}
    PROVE  [req EXCEPT !.pc = pc] \in RequestType
    BY DEF RequestType

LEMMA RolledBackOK ==
    ASSUME RestOK
    PROVE  RolledBackFiles \in [Walls -> Nat]
    <1>1. CASE req.removed = <<>>
          BY <1>1 DEF RolledBackFiles, RestOK
    <1>2. CASE req.removed # <<>>
      <2>1. req.removed \in Entries
            BY <1>2, RequestParts DEF RestOK
      <2>2. req.removed[1] \in Walls /\ req.removed[2] \in Nat
            BY <2>1 DEF Entries
      <2>3. QED  BY <1>2, <2>2 DEF RolledBackFiles, RestOK
    <1>3. QED  BY <1>1, <1>2

LEMMA AnsweredWithoutOK ==
    ASSUME RestOK, AnsweredWithout
    PROVE  /\ files' \in [Walls -> Nat] /\ mem' \in Libraries /\ at' \in [Outputs -> Walls]
           /\ req' \in RequestType /\ disturbed' \in BOOLEAN /\ warmed' \subseteq Walls \X Walls
    <1>1. req' \in RequestType /\ disturbed' \in BOOLEAN
          BY NoRequestOK DEF AnsweredWithout, Answered
    <1>2. CASE Fallback
      <2>1. at' \in [Outputs -> Walls]
            BY <1>2, ReachedOK DEF AnsweredWithout, RestOK
      <2>2. WithoutWalls(Quarantined) /\ warmed' \subseteq Walls \X Walls
            BY <1>2 DEF AnsweredWithout, RestOK
      <2>3. mem' \in Libraries
            BY <2>2, ForgetsOK DEF WithoutWalls, RestOK
      <2>4. files' \in [Walls -> Nat]
            BY <2>2 DEF WithoutWalls, RestOK
      <2>5. QED  BY <1>1, <2>1, <2>2, <2>3, <2>4
    <1>3. CASE ~Fallback
          BY <1>1, <1>3 DEF AnsweredWithout, RestOK
    <1>4. QED  BY <1>2, <1>3

RoutesAsked == { <<at[o], req.entries[o]>> : o \in DOMAIN req.entries }
LEMMA WarmsRoutes ==
    ASSUME RestOK
    PROVE  RouteScope(RoutesAsked) \in OptionType
    <1>1. RoutesAsked \in SUBSET (Walls \X Walls)
          BY RequestParts DEF RoutesAsked, RestOK
    <1>2. QED  BY <1>1, AllScopeOK DEF RouteScope, OptionType

LEMMA WarmsNear ==
    ASSUME RestOK, NEW near \in Near
    PROVE  NearScope({ at[o] : o \in DOMAIN req.entries }
                       \cup { req.entries[o] : o \in DOMAIN req.entries } \cup near) \in OptionType
    <1> DEFINE centers == { at[o] : o \in DOMAIN req.entries }
                            \cup { req.entries[o] : o \in DOMAIN req.entries } \cup near
    <1>1. { at[o] : o \in DOMAIN req.entries } \cup { req.entries[o] : o \in DOMAIN req.entries }
            \subseteq Walls
          BY RequestParts DEF RestOK
    <1>2. near \subseteq Walls
      <2>1. PICK n \in Counts : mem \in [1 .. n -> Walls] /\ DOMAIN mem = 1 .. n
            BY PathOrders DEF RestOK
      <2>2. QED  BY <2>1 DEF Near
    <1>3. centers \in SUBSET Walls
          BY <1>1, <1>2
    <1> HIDE DEF centers
    <1>4. NearScope(centers) \in OptionType
          BY <1>3, AllScopeOK, WorldCacheAssumption DEF NearScope, OptionType
    <1>5. QED  BY <1>4 DEF centers

\* A step that leaves the files of the cache alone.
Spares == Shape' /\ disk' = disk /\ MayStart
LEMMA SparesJobs ==
    ASSUME Shape, RestOK', UNCHANGED <<disk, jobs>>
    PROVE  Spares
    BY DiskKept, StartsNone DEF Shape, Spares

LEMMA GateSpares ==
    ASSUME Shape, Request \/ GateAccepts \/ GateRefuses \/ GateWarms \/ GateFallsBack
    PROVE  Spares
    <1>1. CASE Request
      <2>1. PICK action \in Actions, names \in SUBSET Outputs \ {{}} :
              \E entries \in [names -> Targets \cap Present] :
                req' = [NoRequest EXCEPT !.pc = "gate", !.action = action, !.entries = entries]
            BY <1>1 DEF Request
      <2>2. PICK entries \in [names -> Targets \cap Present] :
              req' = [NoRequest EXCEPT !.pc = "gate", !.action = action, !.entries = entries]
            BY <2>1
      <2>3. entries \in Selections
        <3>1. entries \in [names -> Walls] /\ names \in SUBSET Outputs
              BY WorldCacheAssumption
        <3>2. QED  BY <3>1 DEF Selections
      <2>4. action \in {"next", "set", "quarantine"}
            BY WorldCacheAssumption
      <2>5. req' \in RequestType
            BY <2>2, <2>3, <2>4, NoRequestOK DEF RequestType
      <2>6. RestOK' /\ UNCHANGED <<disk, jobs>>
            BY <1>1, <2>5 DEF Request, Shape, RestOK, WarmOK, env
      <2>7. QED  BY <2>6, SparesJobs
    <1>2. CASE GateAccepts
      <2>1. PICK pc \in {"move", "plan"} : req' = [req EXCEPT !.pc = pc]
            BY <1>2 DEF GateAccepts
      <2>2. req' \in RequestType
            BY <2>1, AtPcOK DEF Shape, RestOK
      <2>3. RestOK' /\ UNCHANGED <<disk, jobs>>
            BY <1>2, <2>2 DEF GateAccepts, Shape, RestOK, WarmOK, env
      <2>4. QED  BY <2>3, SparesJobs
    <1>3. CASE GateRefuses
      <2>1. RestOK' /\ UNCHANGED <<disk, jobs>>
            BY <1>3, NoRequestOK DEF GateRefuses, Answered, Shape, RestOK, WarmOK, env
      <2>2. QED  BY <2>1, SparesJobs
    <1>4. CASE GateFallsBack
      <2>1. AnsweredWithout /\ UNCHANGED <<disk, jobs, warm, env>>
            BY <1>4 DEF GateFallsBack
      <2>2. RestOK' /\ UNCHANGED <<disk, jobs>>
            BY <2>1, AnsweredWithoutOK DEF Shape, RestOK, WarmOK, env
      <2>3. QED  BY <2>2, SparesJobs
    <1>5. CASE GateWarms
      <2>1. PICK plan \in RoutePlans(req.entries) :
              IF AutoWarmup(MissingTiles(plan)) THEN Schedule(RouteScope(RoutesAsked))
              ELSE UNCHANGED <<warm, jobs>>
            BY <1>5 DEF GateWarms, RoutesAsked
      <2>2. AnsweredWithout /\ UNCHANGED <<disk, env>>
            BY <1>5 DEF GateWarms
      <2>3. JobsOK' /\ MayStart /\ WarmOK'
        <3>1. CASE AutoWarmup(MissingTiles(plan))
              BY <2>1, <3>1, WarmsRoutes, ScheduleDoes DEF Shape, RestOK
        <3>2. CASE ~AutoWarmup(MissingTiles(plan))
              BY <2>1, <3>2, StartsNone DEF Shape, RestOK, WarmOK
        <3>3. QED  BY <3>1, <3>2
      <2>4. RestOK'
            BY <2>2, <2>3, AnsweredWithoutOK DEF Shape, RestOK, env
      <2>5. QED  BY <2>2, <2>3, <2>4, DiskKept DEF Shape, Spares
    <1>6. QED  BY <1>1, <1>2, <1>3, <1>4, <1>5

LEMMA RendererSpares ==
    ASSUME Shape, MoveQuarantine \/ PlanAgain \/ Render \/ RenderRefused
    PROVE  Spares
    <1>1. CASE MoveQuarantine
      <2>1. PICK w \in Quarantined :
              /\ files' = [files EXCEPT ![w] = 0]
              /\ req' = [req EXCEPT !.pc = "plan", !.removed = <<w, files[w]>>]
            BY <1>1 DEF MoveQuarantine
      <2>2. w \in Walls
            BY RequestParts DEF Quarantined, Shape, RestOK
      <2>3. <<w, files[w]>> \in Entries
            BY <2>2 DEF Shape, RestOK, Entries
      <2>4. req' \in RequestType
            BY <2>1, <2>3 DEF Shape, RestOK, RequestType
      <2>5. RestOK' /\ UNCHANGED <<disk, jobs>>
            BY <1>1, <2>1, <2>2, <2>4 DEF MoveQuarantine, Shape, RestOK, WarmOK, env
      <2>6. QED  BY <2>5, SparesJobs
    <1>2. CASE PlanAgain
      <2>1. PICK plan \in RoutePlans(req.entries) :
              IF plan.kind = "plan"
              THEN req' = [req EXCEPT !.pc = "render", !.plan = plan] /\ UNCHANGED <<files, warmed, disturbed>>
              ELSE Answered /\ RolledBack
            BY <1>2 DEF PlanAgain
      <2>2. /\ req' \in RequestType /\ files' \in [Walls -> Nat] /\ disturbed' \in BOOLEAN
            /\ warmed' \subseteq Walls \X Walls
        <3>1. CASE plan.kind = "plan"
          <4>1. PICK s \in CacheSnapshots : plan = RoutePlan(s, req.entries)
                BY DEF RoutePlans
          <4>2. s \in SnapshotType
                BY CacheSnapshotsOK DEF Shape
          <4>3. s.kind = "use" /\ Plannable(s.lib, req.entries) /\ plan = PlanFor(s.lib, req.entries)
                BY <3>1, <4>1, <4>2, RoutePlanIs
          <4>4. plan \in PlanType
            <5>1. s.lib \in Libraries /\ req.entries \in Selections
                  BY <4>2, RequestParts DEF SnapshotType, Shape, RestOK
            <5>2. QED  BY <4>3, <5>1, PlanForOK
          <4>5. [req EXCEPT !.pc = "render", !.plan = plan] \in RequestType
                BY <4>4 DEF Shape, RestOK, RequestType, PlanType
          <4>6. QED  BY <2>1, <3>1, <4>5 DEF Shape, RestOK
        <3>2. CASE plan.kind # "plan"
              BY <2>1, <3>2, NoRequestOK, RolledBackOK DEF Answered, RolledBack, Shape, RestOK
        <3>3. QED  BY <3>1, <3>2
      <2>3. RestOK' /\ UNCHANGED <<disk, jobs>>
            BY <1>2, <2>2 DEF PlanAgain, Shape, RestOK, WarmOK, env
      <2>4. QED  BY <2>3, SparesJobs
    <1>3. CASE Render
      <2>1. PICK near \in Near :
              Schedule(NearScope({ at[o] : o \in DOMAIN req.entries }
                                   \cup { req.entries[o] : o \in DOMAIN req.entries } \cup near))
            BY <1>3 DEF Render
      <2>2. JobsOK' /\ MayStart /\ WarmOK'
            BY <2>1, WarmsNear, ScheduleDoes DEF Shape, RestOK
      <2>3. /\ req' = NoRequest /\ disturbed' = FALSE /\ at' = Reached(req.entries)
            /\ UNCHANGED <<files, disk, env, warmed>>
            BY <1>3 DEF Render, Answered
      <2>4. mem' \in Libraries
            BY <1>3, ForgetsOK DEF Render, Shape, RestOK
      <2>5. RestOK'
            BY <2>2, <2>3, <2>4, NoRequestOK, ReachedOK DEF Shape, RestOK, env
      <2>6. QED  BY <2>2, <2>3, <2>5, DiskKept DEF Shape, Spares
    <1>4. CASE RenderRefused
      <2>1. RestOK' /\ UNCHANGED <<disk, jobs>>
            BY <1>4, NoRequestOK, RolledBackOK DEF RenderRefused, RolledBack, Answered, Shape, RestOK, WarmOK, env
      <2>2. QED  BY <2>1, SparesJobs
    <1>5. QED  BY <1>1, <1>2, <1>3, <1>4

LEMMA EnvironmentSpares ==
    ASSUME Shape,
           TimePasses \/ FileAdded \/ FileRemoved \/ FileRewritten \/ Rescan \/ UNCHANGED vars
    PROVE  Spares
    <1>1. CASE TimePasses \/ UNCHANGED vars
      <2>1. WarmOK'
        <3>1. DedupeTtl \in Nat
              BY WorldCacheAssumption
        <3>2. CASE TimePasses
              BY <3>1, <3>2 DEF TimePasses, Smaller, WarmOK, Shape, RestOK
        <3>3. CASE UNCHANGED vars
              BY <3>3 DEF vars, WarmOK, Shape, RestOK
        <3>4. QED  BY <1>1, <3>2, <3>3
      <2>2. RestOK' /\ UNCHANGED <<disk, jobs>>
            BY <1>1, <2>1 DEF TimePasses, vars, env, Shape, RestOK
      <2>3. QED  BY <2>2, SparesJobs
    <1>2. CASE FileAdded \/ FileRemoved \/ FileRewritten
      <2>1. PICK w \in Walls, v \in Nat : Changed(w, v)
        <3>1. changes \in Nat /\ files \in [Walls -> Nat] /\ Present \subseteq Walls
              BY DEF Shape, RestOK, Present
        <3>2. CASE FileAdded
              BY <3>1, <3>2 DEF FileAdded
        <3>3. CASE FileRemoved
              BY <3>1, <3>3 DEF FileRemoved
        <3>4. CASE FileRewritten
              BY <3>1, <3>4 DEF FileRewritten
        <3>5. QED  BY <1>2, <3>2, <3>3, <3>4
      <2>2. RestOK' /\ UNCHANGED <<disk, jobs>>
            BY <2>1 DEF Changed, Shape, RestOK, WarmOK, Accepted
      <2>3. QED  BY <2>2, SparesJobs
    <1>3. CASE Rescan
      <2>1. RestOK' /\ UNCHANGED <<disk, jobs>>
            BY <1>3, LibraryOK DEF Rescan, Shape, RestOK, WarmOK, env
      <2>2. QED  BY <2>1, SparesJobs
    <1>4. QED  BY <1>1, <1>2, <1>3

(***************************************************************************)
(* The steps together: type correctness.                                   *)
(***************************************************************************)
LEMMA InitShape == Init => Shape
    <1> SUFFICES ASSUME Init PROVE Shape
        OBVIOUS
    <1>1. files \in [Walls -> Nat] /\ Present \subseteq Walls
          BY DEF Init, Present
    <1>2. RestOK
      <2>1. WarmOK
        <3>1. DOMAIN warm = {}
              BY <1>1 DEF Init
        <3>2. QED  BY <3>1 DEF WarmOK
      <2>2. QED  BY <1>1, <2>1, LibraryOK, NoRequestOK DEF Init, RestOK
    <1>3. JobsOK
          BY IdleOK DEF Init, JobsOK
    <1>4. DiskOK
      <2>1. PICK indexed \in BOOLEAN :
              disk = [n \in IF indexed THEN {Manifest, Snapshot(Library)} ELSE {} |-> Whole(Library)]
            BY DEF Init
      <2>2. \A n : At(n) = Whole(Library) \/ At(n) = Absent
            BY <2>1 DEF At
      <2>3. DOMAIN disk \subseteq {Manifest, Snapshot(Library)} /\ \A n \in DOMAIN disk : disk[n] = Whole(Library)
            BY <2>1
      <2>4. Library \in Contents(Manifest) /\ Library \in Contents(Snapshot(Library))
            /\ Manifest \in Names /\ Snapshot(Library) \in Names
            BY LibraryOK, NamesOK
      <2>5. Whole(Library) \in EntryType(Manifest) /\ Whole(Library) \in EntryType(Snapshot(Library))
            BY <2>4 DEF Whole, NoFile, EntryType, FileType
      <2>6. \A n : FileOK(At(n).file) /\ FileOK(At(n).tmp)
            BY <2>2 DEF Whole, Absent, NoFile, FileOK
      <2>7. QED  BY <2>3, <2>4, <2>5, <2>6 DEF DiskOK
    <1>5. QED  BY <1>2, <1>3, <1>4 DEF Shape

\* All that happens beside the steps of the computes.
Beside ==
    \/ Request \/ Supervise \/ TimePasses \/ FileAdded \/ FileRemoved \/ FileRewritten \/ Rescan
    \/ UNCHANGED vars
    \/ \E j \in Jobs : UserCompute(j)

LEMMA BesideSpares ==
    ASSUME Shape, Beside
    PROVE  Spares
    <1>1. CASE \E j \in Jobs : UserCompute(j)
          BY <1>1, UserComputeDoes DEF Spares
    <1>2. CASE Request \/ GateAccepts \/ GateRefuses \/ GateWarms \/ GateFallsBack
          BY <1>2, GateSpares
    <1>3. CASE MoveQuarantine \/ PlanAgain \/ Render \/ RenderRefused
          BY <1>3, RendererSpares
    <1>4. CASE TimePasses \/ FileAdded \/ FileRemoved \/ FileRewritten \/ Rescan \/ UNCHANGED vars
          BY <1>4, EnvironmentSpares
    <1>5. QED  BY <1>1, <1>2, <1>3, <1>4 DEF Beside, Supervise

LEMMA Steps ==
    ASSUME [Next]_vars
    PROVE  Beside \/ \E j \in Jobs : JobCrash(j) \/ JobStep(j)
    BY DEF Next, Beside

LEMMA ShapeStep ==
    ASSUME Shape, [Next]_vars
    PROVE  Shape'
    <1>1. CASE Beside
          BY <1>1, BesideSpares DEF Spares
    <1>2. ASSUME NEW j \in Jobs, JobCrash(j) PROVE Shape'
          BY <1>2, JobCrashDoes
    <1>3. ASSUME NEW j \in Jobs, JobStep(j) PROVE Shape'
      <2>1. CASE CreateSnapshot(j) \/ InstallSnapshot(j) \/ CreateManifest(j) \/ InstallManifest(j)
            BY <2>1, CreateSnapshotDoes, InstallSnapshotDoes, CreateManifestDoes, InstallManifestDoes
      <2>2. CASE ScanStatus(j) \/ ScanCells(j) \/ ScanGrid(j) \/ ScanKeys(j) \/ Finish(j)
            BY <2>2, ScanStatusDoes, ScanCellsDoes, ScanGridDoes, ScanKeysDoes, FinishDoes DEF ScanDoes
      <2>3. CASE GenerateCell(j)
            BY <2>3, GenerateCellDoes DEF ScanDoes
      <2>4. CASE GenerateTile(j)
            BY <2>4, GenerateTileDoes DEF ScanDoes
      <2>5. CASE Install(j)
            BY <2>5, InstallDoes
      <2>6. QED  BY <1>3, <2>1, <2>2, <2>3, <2>4, <2>5 DEF JobStep
    <1>4. QED  BY <1>1, <1>2, <1>3, Steps

\* The values of every variable, in every reachable state: what a half-written
\* file, a list made from another scan or a plan for a library that is gone may
\* hold.
THEOREM TypeCorrect == Spec => []TypeOK
    <1>1. Init => Shape
          BY InitShape
    <1>2. Shape /\ [Next]_vars => Shape'
          BY ShapeStep
    <1>3. Shape => TypeOK
          BY ShapeIsTyped
    <1>4. QED  BY <1>1, <1>2, <1>3, PTL DEF Spec

(***************************************************************************)
(* The index.  A snapshot is in place before a manifest names it, a file   *)
(* that is there stays there, and only an install of cells and tiles is    *)
(* left to the end.                                                        *)
(***************************************************************************)
LEMMA Kinds ==
    /\ Manifest.kind = "manifest"
    /\ \A lib : Snapshot(lib).kind = "snapshot" /\ Snapshot(lib).lib = lib
    /\ \A e : Cell(e).kind = "cell" /\ Cell(e).key = e
    /\ \A job, key : TileName(job, key).kind = "tile"
    BY DEF Manifest, Snapshot, Cell, TileName, Tile

Leads(lib) == lib = Torn \/ IsFile(Snapshot(lib))
Indexed ==
    /\ \A lib \in At(Manifest).file.holds \cup At(Manifest).tmp.holds : Leads(lib)
    /\ \A j \in Jobs : jobs[j].pc \in {"manifest", "manifest tmp"} => Leads(jobs[j].lib)
    /\ \A j \in Jobs : jobs[j].pc = "install" => jobs[j].writing.kind \in {"cell", "tile"}

\* Computes that do not die, or run alone, tear no snapshot.
Alone  == Cardinality(Jobs) = 1
Gentle == crashes = 0 \/ Alone
Unfinished(lib) ==
    \/ At(Snapshot(lib)).tmp.open # {}
    \/ \E j \in Jobs : jobs[j].pc = "snapshot" /\ jobs[j].lib = lib
Clean ==
    /\ Alone => \A n : At(n).file.open = {}
    /\ Gentle =>
         \A lib \in Libraries :
           /\ Torn \notin At(Snapshot(lib)).file.holds
           /\ Unfinished(lib) => Torn \notin At(Snapshot(lib)).tmp.holds

LEMMA OnlyJob ==
    ASSUME Alone, NEW j \in Jobs
    PROVE  Jobs = {j}
    BY FS_Singleton, WorldCacheAssumption DEF Alone

LEMMA LibraryNotTorn == Torn \notin Libraries
    <1>1. \A lib \in Libraries : lib \in Seq(Walls)
      <2>1. ASSUME NEW lib \in Libraries PROVE lib \in Seq(Walls)
        <3>1. PICK n \in Counts : lib \in [1 .. n -> Walls]
              BY PathOrders
        <3>2. n \in Nat
              BY NumberOfWalls DEF Counts
        <3>3. QED  BY <3>1, <3>2
      <2>2. QED  BY <2>1
    <1>2. QED  BY <1>1, WorldCacheAssumption

\* Files are written aside, moved into place and torn, never taken away.
LEMMA WroteKeeps ==
    ASSUME NEW j, NEW name, NEW content, Wrote(j, name, content)
    PROVE  /\ \A n : At(n)'.file = At(n).file
           /\ \A n : n # name => At(n)' = At(n)
           /\ \E c \in Outcomes(At(name).tmp, content) :
                At(name)'.tmp = [holds |-> {c}, open |-> At(name).tmp.open \cup {j}]
    <1>1. PICK c \in Outcomes(At(name).tmp, content) :
            \A n : At(n)' = IF n = name THEN Written(j, name, c) ELSE At(n)
          BY DEF Wrote
    <1>2. /\ Written(j, name, c).file = At(name).file
          /\ Written(j, name, c).tmp = [holds |-> {c}, open |-> At(name).tmp.open \cup {j}]
          BY DEF Written
    <1>3. QED  BY <1>1, <1>2

LEMMA MovedKeeps ==
    ASSUME DiskOK, NEW j, NEW name, Moved(j, name)
    PROVE  /\ \A n : n # name => At(n)' = At(n)
           /\ At(name)'.tmp.holds = {} /\ At(name)'.tmp.open = {}
           /\ At(name)'.file.holds = IF CanInstall(name) THEN At(name).tmp.holds ELSE At(name).file.holds
           /\ At(name)'.file.open =
                (IF CanInstall(name) THEN At(name).tmp.open ELSE At(name).file.open) \ {j}
    <1>1. At(name) \in EntryType(name)
          BY EveryEntry
    <1>2. QED  BY <1>1 DEF Moved, Renamed, Closed, NoFile, EntryType, FileType

LEMMA LeftKeeps ==
    ASSUME DiskOK, NEW j, NEW n, NEW torn \in BOOLEAN, At(n)' = Left(j, n, torn)
    PROVE  /\ At(n)'.file.open = At(n).file.open \ {j} /\ At(n)'.tmp.open = At(n).tmp.open \ {j}
           /\ \/ At(n)'.file.holds = At(n).file.holds
              \/ j \in At(n).file.open /\ At(n)'.file.holds = {Torn}
           /\ \/ At(n)'.tmp.holds = At(n).tmp.holds
              \/ j \in At(n).tmp.open /\ At(n)'.tmp.holds = {Torn}
    <1>1. At(n) \in EntryType(n)
          BY EveryEntry
    <1>2. QED  BY <1>1 DEF Left, Abandoned, EntryType, FileType

LEMMA WroteStays ==
    ASSUME NEW j, NEW name, NEW content, Wrote(j, name, content)
    PROVE  \A n : IsFile(n) => IsFile(n)'
    BY WroteKeeps DEF IsFile

LEMMA MovedStays ==
    ASSUME DiskOK, NEW j, NEW name, Moved(j, name)
    PROVE  \A n : IsFile(n) => IsFile(n)'
    <1>1. ASSUME NEW n, IsFile(n) PROVE IsFile(n)'
      <2>1. CASE n = name
            BY <1>1, <2>1, MovedKeeps DEF IsFile, CanInstall
      <2>2. CASE n # name
            BY <1>1, <2>2, MovedKeeps DEF IsFile
      <2>3. QED  BY <2>1, <2>2
    <1>2. QED  BY <1>1

LEMMA LeftStays ==
    ASSUME DiskOK, NEW j, NEW torn \in BOOLEAN, \A n : At(n)' = Left(j, n, torn)
    PROVE  \A n : IsFile(n) => IsFile(n)'
    BY LeftKeeps DEF IsFile

\* What a scan or a step beside the computes leaves of the index.
LEMMA SameDiskIndexed ==
    ASSUME Indexed, disk' = disk,
           \A j \in Jobs : \/ jobs'[j].pc \notin {"manifest", "manifest tmp", "install"}
                           \/ /\ jobs'[j].pc = jobs[j].pc /\ jobs'[j].lib = jobs[j].lib
                              /\ jobs'[j].writing = jobs[j].writing
    PROVE  Indexed'
    BY DEF Indexed, Leads, IsFile, At

LEMMA SameDiskClean ==
    ASSUME Clean, disk' = disk, crashes' = crashes,
           \A j \in Jobs : \/ jobs'[j].pc # "snapshot"
                           \/ jobs'[j].pc = jobs[j].pc /\ jobs'[j].lib = jobs[j].lib
    PROVE  Clean'
    <1>1. \A n : At(n)' = At(n)
          BY DEF At
    <1>2. \A lib : Unfinished(lib)' => Unfinished(lib)
          BY <1>1 DEF Unfinished
    <1>3. Gentle' = Gentle /\ Alone' = Alone
          BY DEF Gentle, Alone
    <1>4. QED  BY <1>1, <1>2, <1>3 DEF Clean

LEMMA CreateSnapshotIndexed ==
    ASSUME Shape, Indexed, Clean, NEW j \in Jobs, CreateSnapshot(j)
    PROVE  Indexed' /\ Clean'
    <1>0. PICK scan : scan = Library
          OBVIOUS
    <1> DEFINE name == Snapshot(scan)
               new  == [jobs[j] EXCEPT !.pc = "snapshot", !.lib = scan]
    <1>1. Wrote(j, name, scan) /\ Sets(j, new)
          BY <1>0, CreateSnapshotDoes
    <1>2. new.pc = "snapshot" /\ new.lib = scan /\ crashes' = crashes
          BY DEF Shape, JobsOK, JobType, CreateSnapshot, NoChange, env
    <1>3. /\ \A n : At(n)'.file = At(n).file
          /\ \A n : n # name => At(n)' = At(n)
          BY <1>1, WroteKeeps
    <1>4. PICK c \in Outcomes(At(name).tmp, scan) :
            At(name)'.tmp = [holds |-> {c}, open |-> At(name).tmp.open \cup {j}]
          BY <1>1, WroteKeeps
    <1>5. scan \in Libraries /\ scan # Torn
          BY <1>0, LibraryOK, LibraryNotTorn
    <1> HIDE DEF new
    <1>6. Indexed'
      <2>1. At(Manifest)' = At(Manifest)
            BY <1>3, Kinds
      <2>2. \A lib : Leads(lib) => Leads(lib)'
            BY <1>1, WroteStays DEF Leads
      <2>3. \A i \in Jobs : jobs'[i] = jobs[i] \/ jobs'[i].pc = "snapshot"
            BY <1>1, <1>2 DEF Sets
      <2>4. QED  BY <2>1, <2>2, <2>3 DEF Indexed
    <1>7. ASSUME Gentle PROVE c # Torn
      <2>1. CASE At(name).tmp.open = {}
            BY <1>4, <1>5, <2>1 DEF Outcomes
      <2>2. CASE At(name).tmp.open # {}
        <3>1. Torn \notin At(name).tmp.holds
              BY <1>5, <1>7, <2>2 DEF Clean, Unfinished
        <3>2. /\ At(name).tmp.holds \subseteq {scan, Torn}
              /\ At(name).tmp.holds # {}
          <4>1. At(name) \in EntryType(name) /\ FileOK(At(name).tmp) /\ Contents(name) = {scan}
                BY <1>5, EveryEntry, NamesOK DEF Shape
          <4>2. QED  BY <2>2, <4>1 DEF EntryType, FileType, FileOK
        <3>3. At(name).tmp.holds = {scan}
              BY <3>1, <3>2
        <3>4. QED  BY <1>4, <1>5, <3>3 DEF Outcomes
      <2>3. QED  BY <2>1, <2>2
    <1>8. Clean'
      <2>1. Gentle' = Gentle /\ Alone' = Alone
            BY <1>2 DEF Gentle, Alone
      <2>2. ASSUME NEW lib \in Libraries, Gentle
            PROVE  /\ Torn \notin At(Snapshot(lib))'.file.holds
                   /\ Unfinished(lib)' => Torn \notin At(Snapshot(lib))'.tmp.holds
        <3>1. Torn \notin At(Snapshot(lib))'.file.holds
              BY <1>3, <2>2 DEF Clean
        <3>2. CASE lib = scan
              BY <1>4, <1>7, <2>2, <3>1, <3>2
        <3>3. CASE lib # scan
          <4>1. At(Snapshot(lib))' = At(Snapshot(lib))
                BY <1>3, <3>3, Kinds
          <4>2. Unfinished(lib)' => Unfinished(lib)
                BY <1>1, <1>2, <3>3, <4>1 DEF Unfinished, Sets
          <4>3. QED  BY <2>2, <4>1, <4>2 DEF Clean
        <3>4. QED  BY <3>2, <3>3
      <2>3. QED  BY <1>3, <2>1, <2>2 DEF Clean
    <1>9. QED  BY <1>6, <1>8

LEMMA InstallSnapshotIndexed ==
    ASSUME Shape, Indexed, Clean, NEW j \in Jobs, InstallSnapshot(j)
    PROVE  Indexed' /\ Clean'
    <1>0. PICK old : old = jobs[j].lib
          OBVIOUS
    <1> DEFINE name == Snapshot(old)
               new  == [jobs[j] EXCEPT !.pc = "manifest"]
    <1>1. Moved(j, name) /\ IF CanInstall(name) THEN Sets(j, new) ELSE Sets(j, Idle)
          BY <1>0, InstallSnapshotDoes
    <1>2. /\ new.pc = "manifest" /\ new.lib = old /\ crashes' = crashes
          /\ old \in Libraries /\ jobs[j].pc = "snapshot"
          BY <1>0 DEF Shape, JobsOK, JobType, InstallSnapshot, NoChange, env
    <1>3. /\ \A n : n # name => At(n)' = At(n)
          /\ At(name)'.tmp.holds = {} /\ At(name)'.tmp.open = {}
          /\ At(name)'.file.holds = IF CanInstall(name) THEN At(name).tmp.holds ELSE At(name).file.holds
          /\ At(name)'.file.open =
                (IF CanInstall(name) THEN At(name).tmp.open ELSE At(name).file.open) \ {j}
          BY <1>1, MovedKeeps DEF Shape
    <1> HIDE DEF new
    <1>4. Indexed'
      <2>1. At(Manifest)' = At(Manifest)
            BY <1>3, Kinds
      <2>2. \A lib : Leads(lib) => Leads(lib)'
            BY <1>1, MovedStays DEF Leads, Shape
      <2>3. CanInstall(name) => Leads(old)'
            BY <1>3 DEF Leads, IsFile, CanInstall
      <2>4. \A i \in Jobs : \/ jobs'[i] = jobs[i] \/ jobs'[i].pc = "idle"
                            \/ CanInstall(name) /\ jobs'[i].pc = "manifest" /\ jobs'[i].lib = old
            BY <1>1, <1>2, IdleOK DEF Sets
      <2>5. QED  BY <2>1, <2>2, <2>3, <2>4 DEF Indexed
    <1>5. Clean'
      <2>1. Gentle' = Gentle /\ Alone' = Alone
            BY <1>2 DEF Gentle, Alone
      <2>2. ASSUME NEW lib \in Libraries, Gentle
            PROVE  /\ Torn \notin At(Snapshot(lib))'.file.holds
                   /\ Unfinished(lib)' => Torn \notin At(Snapshot(lib))'.tmp.holds
        <3>1. CASE lib = old
          <4>1. Unfinished(old)
                BY <1>0, <1>2 DEF Unfinished
          <4>2. Torn \notin At(name).tmp.holds /\ Torn \notin At(name).file.holds
                BY <1>2, <2>2, <4>1 DEF Clean
          <4>3. QED  BY <1>3, <3>1, <4>2
        <3>2. CASE lib # old
          <4>1. At(Snapshot(lib))' = At(Snapshot(lib))
                BY <1>3, <3>2, Kinds
          <4>2. \A i \in Jobs : jobs'[i].pc = "snapshot" => jobs'[i] = jobs[i]
                BY <1>1, <1>2, IdleOK DEF Sets
          <4>3. Unfinished(lib)' => Unfinished(lib)
                BY <4>1, <4>2 DEF Unfinished
          <4>4. QED  BY <2>2, <4>1, <4>3 DEF Clean
        <3>3. QED  BY <3>1, <3>2
      <2>3. ASSUME Alone, NEW n PROVE At(n)'.file.open = {}
        <3>1. CASE n = name
          <4>1. At(name) \in EntryType(name)
                BY EveryEntry DEF Shape
          <4>2. At(name).tmp.open \subseteq {j} /\ At(name).file.open \subseteq {j}
                BY <2>3, <4>1, OnlyJob DEF EntryType, FileType
          <4>3. QED  BY <1>3, <3>1, <4>2
        <3>2. CASE n # name
              BY <1>3, <2>3, <3>2 DEF Clean
        <3>3. QED  BY <3>1, <3>2
      <2>4. QED  BY <2>1, <2>2, <2>3 DEF Clean
    <1>6. QED  BY <1>4, <1>5

LEMMA CreateManifestIndexed ==
    ASSUME Shape, Indexed, Clean, NEW j \in Jobs, CreateManifest(j)
    PROVE  Indexed' /\ Clean'
    <1>0. PICK lib : lib = jobs[j].lib
          OBVIOUS
    <1> DEFINE new == [jobs[j] EXCEPT !.pc = "manifest tmp"]
    <1>1. Wrote(j, Manifest, lib) /\ Sets(j, new)
          BY <1>0, CreateManifestDoes
    <1>2. new.pc = "manifest tmp" /\ new.lib = lib /\ crashes' = crashes /\ jobs[j].pc = "manifest"
          BY <1>0 DEF Shape, JobsOK, JobType, CreateManifest, NoChange, env
    <1>3. /\ \A n : At(n)'.file = At(n).file
          /\ \A n : n # Manifest => At(n)' = At(n)
          BY <1>1, WroteKeeps
    <1>4. PICK c \in Outcomes(At(Manifest).tmp, lib) :
            At(Manifest)'.tmp = [holds |-> {c}, open |-> At(Manifest).tmp.open \cup {j}]
          BY <1>1, WroteKeeps
    <1>5. Leads(lib)
          BY <1>0, <1>2 DEF Indexed
    <1> HIDE DEF new
    <1>6. Indexed'
      <2>1. \A l : Leads(l) => Leads(l)'
            BY <1>1, WroteStays DEF Leads
      <2>2. c \in {lib, Torn} \cup At(Manifest).tmp.holds
            BY <1>4 DEF Outcomes
      <2>3. \A l \in At(Manifest)'.file.holds \cup At(Manifest)'.tmp.holds : Leads(l)
        <3>1. At(Manifest)'.file.holds = At(Manifest).file.holds /\ At(Manifest)'.tmp.holds = {c}
              BY <1>3, <1>4
        <3>2. Leads(c)
          <4>1. Leads(Torn)
                BY DEF Leads
          <4>2. QED  BY <1>5, <2>2, <4>1 DEF Indexed
        <3>3. QED  BY <3>1, <3>2 DEF Indexed
      <2>4. \A i \in Jobs : jobs'[i] = jobs[i] \/ (jobs'[i].pc = "manifest tmp" /\ jobs'[i].lib = lib)
            BY <1>1, <1>2 DEF Sets
      <2>5. QED  BY <1>5, <2>1, <2>3, <2>4 DEF Indexed
    <1>7. Clean'
      <2>1. \A l : At(Snapshot(l))' = At(Snapshot(l))
            BY <1>3, Kinds
      <2>2. \A i \in Jobs : jobs'[i].pc = "snapshot" => jobs'[i] = jobs[i]
            BY <1>1, <1>2 DEF Sets
      <2>3. \A l : Unfinished(l)' => Unfinished(l)
            BY <2>1, <2>2 DEF Unfinished
      <2>4. Gentle' = Gentle /\ Alone' = Alone
            BY <1>2 DEF Gentle, Alone
      <2>5. QED  BY <1>3, <2>1, <2>3, <2>4 DEF Clean
    <1>8. QED  BY <1>6, <1>7

LEMMA InstallManifestIndexed ==
    ASSUME Shape, Indexed, Clean, NEW j \in Jobs, InstallManifest(j)
    PROVE  Indexed' /\ Clean'
    <1> DEFINE new == [jobs[j] EXCEPT !.pc = "status", !.lib = <<>>]
    <1>1. Moved(j, Manifest) /\ IF CanInstall(Manifest) THEN Sets(j, new) ELSE Sets(j, Idle)
          BY InstallManifestDoes
    <1>2. new.pc = "status" /\ crashes' = crashes
          BY DEF Shape, JobsOK, JobType, InstallManifest, NoChange, env
    <1> HIDE DEF new
    <1>3. Sets(j, new) \/ Sets(j, Idle)
          BY <1>1
    <1>4. \A i \in Jobs : jobs'[i] = jobs[i] \/ jobs'[i].pc \in {"idle", "status"}
          BY <1>2, <1>3, IdleOK DEF Sets
    <1>5. /\ \A n : n # Manifest => At(n)' = At(n)
          /\ At(Manifest)'.tmp.holds = {}
          /\ At(Manifest)'.file.holds =
               IF CanInstall(Manifest) THEN At(Manifest).tmp.holds ELSE At(Manifest).file.holds
          /\ At(Manifest)'.file.open =
               (IF CanInstall(Manifest) THEN At(Manifest).tmp.open ELSE At(Manifest).file.open) \ {j}
          BY <1>1, MovedKeeps DEF Shape
    <1>6. Indexed'
      <2>1. \A lib : Leads(lib) => Leads(lib)'
            BY <1>1, MovedStays DEF Leads, Shape
      <2>2. \A lib \in At(Manifest)'.file.holds \cup At(Manifest)'.tmp.holds : Leads(lib)
            BY <1>5 DEF Indexed
      <2>3. QED  BY <1>4, <2>1, <2>2 DEF Indexed
    <1>7. Clean'
      <2>1. \A lib : At(Snapshot(lib))' = At(Snapshot(lib))
            BY <1>5, Kinds
      <2>2. \A i \in Jobs : jobs'[i].pc = "snapshot" => jobs'[i] = jobs[i]
            BY <1>4
      <2>3. \A lib : Unfinished(lib)' => Unfinished(lib)
            BY <2>1, <2>2 DEF Unfinished
      <2>4. Gentle' = Gentle /\ Alone' = Alone
            BY <1>2 DEF Gentle, Alone
      <2>5. ASSUME Alone, NEW n PROVE At(n)'.file.open = {}
        <3>1. CASE n = Manifest
          <4>1. At(Manifest) \in EntryType(Manifest)
                BY EveryEntry DEF Shape
          <4>2. At(Manifest).tmp.open \subseteq {j} /\ At(Manifest).file.open \subseteq {j}
                BY <2>5, <4>1, OnlyJob DEF EntryType, FileType
          <4>3. QED  BY <1>5, <3>1, <4>2
        <3>2. CASE n # Manifest
              BY <1>5, <2>5, <3>2 DEF Clean
        <3>3. QED  BY <3>1, <3>2
      <2>6. QED  BY <2>1, <2>3, <2>4, <2>5 DEF Clean
    <1>8. QED  BY <1>6, <1>7

\* Cells and tiles have nothing to do with the index.
Outside(name) == name.kind \in {"cell", "tile"}

LEMMA OutsideIndexed ==
    ASSUME Shape, Indexed, Clean, NEW j \in Jobs, NEW name, Outside(name), crashes' = crashes,
           \A n : n # name => At(n)' = At(n),
           Alone => At(name)'.file.open = {},
           \A i \in Jobs : \/ jobs'[i] = jobs[i]
                           \/ jobs'[i].pc = "generate"
                           \/ jobs'[i].pc = "install" /\ jobs'[i].writing = name
    PROVE  Indexed' /\ Clean'
    <1>1. \A lib : At(Snapshot(lib))' = At(Snapshot(lib))
          BY Kinds DEF Outside
    <1>2. At(Manifest)' = At(Manifest)
          BY Kinds DEF Outside
    <1>3. \A lib : Leads(lib)' = Leads(lib)
          BY <1>1 DEF Leads, IsFile
    <1>4. Indexed'
          BY <1>2, <1>3 DEF Indexed, Outside
    <1>5. \A lib : Unfinished(lib)' => Unfinished(lib)
          BY <1>1 DEF Unfinished
    <1>6. Gentle' = Gentle /\ Alone' = Alone
          BY DEF Gentle, Alone
    <1>7. ASSUME Alone, NEW n PROVE At(n)'.file.open = {}
          BY <1>7 DEF Clean
    <1>8. QED  BY <1>1, <1>4, <1>5, <1>6, <1>7 DEF Clean

LEMMA GenerateCellIndexed ==
    ASSUME Shape, Indexed, Clean, NEW j \in Jobs, GenerateCell(j)
    PROVE  Indexed' /\ Clean'
    <1> DEFINE job == jobs[j]
    <1>0. PICK key, content : key = NextCell(job) /\ content = FromSource(key[1])
          OBVIOUS
    <1>1. job \in JobType /\ job.pc = "generate" /\ crashes' = crashes
          BY DEF Shape, JobsOK, GenerateCell, NoChange, env
    <1>2. /\ CellSkipped(job).pc = "generate"
          /\ CellDrawn(job).pc = "install" /\ CellDrawn(job).writing = Cell(key)
          BY <1>0, <1>1 DEF CellSkipped, CellDrawn, WithoutCell, JobType
    <1>3. CASE ScanDoes(j, CellSkipped(job))
      <2>1. \A i \in Jobs : jobs'[i] = jobs[i] \/ jobs'[i].pc = "generate"
            BY <1>2, <1>3 DEF ScanDoes, Sets
      <2>2. QED  BY <1>1, <1>3, <2>1, SameDiskIndexed, SameDiskClean DEF ScanDoes
    <1>4. CASE Wrote(j, Cell(key), content) /\ Sets(j, CellDrawn(job))
      <2>1. /\ \A n : At(n)'.file = At(n).file
            /\ \A n : n # Cell(key) => At(n)' = At(n)
            BY <1>4, WroteKeeps
      <2>2. \A i \in Jobs : jobs'[i] = jobs[i] \/ (jobs'[i].pc = "install" /\ jobs'[i].writing = Cell(key))
            BY <1>2, <1>4 DEF Sets
      <2>3. Outside(Cell(key))
            BY Kinds DEF Outside
      <2>4. Alone => At(Cell(key))'.file.open = {}
            BY <2>1 DEF Clean
      <2>5. QED  BY <1>1, <2>1, <2>2, <2>3, <2>4, OutsideIndexed
    <1>5. QED  BY <1>0, <1>3, <1>4, GenerateCellDoes

LEMMA GenerateTileIndexed ==
    ASSUME Shape, Indexed, Clean, NEW j \in Jobs, GenerateTile(j)
    PROVE  Indexed' /\ Clean'
    <1> DEFINE job == jobs[j]
    <1>0. PICK tile : tile = NextTile(job)
          OBVIOUS
    <1>1. job \in JobType /\ job.pc = "generate" /\ crashes' = crashes
          BY DEF Shape, JobsOK, GenerateTile, NoChange, env
    <1>2. TileSkipped(job) \in JobType /\ TileSkipped(job).pc = "generate"
          BY <1>1 DEF TileSkipped, JobType
    <1>3. CASE ScanDoes(j, TileSkipped(job))
      <2>1. \A i \in Jobs : jobs'[i] = jobs[i] \/ jobs'[i].pc = "generate"
            BY <1>2, <1>3 DEF ScanDoes, Sets
      <2>2. QED  BY <1>1, <1>3, <2>1, SameDiskIndexed, SameDiskClean DEF ScanDoes
    <1>4. ASSUME NEW content, NEW f, Wrote(j, tile, content),
                 Sets(j, [TileSkipped(job) EXCEPT !.pc = "install", !.writing = tile, !.failed = f])
          PROVE  Indexed' /\ Clean'
      <2> DEFINE new == [TileSkipped(job) EXCEPT !.pc = "install", !.writing = tile, !.failed = f]
      <2>1. /\ \A n : At(n)'.file = At(n).file
            /\ \A n : n # tile => At(n)' = At(n)
            BY <1>4, WroteKeeps
      <2>2. new.pc = "install" /\ new.writing = tile
            BY <1>2 DEF JobType
      <2>3. \A i \in Jobs : jobs'[i] = jobs[i] \/ (jobs'[i].pc = "install" /\ jobs'[i].writing = tile)
        <3> HIDE DEF new
        <3>1. Sets(j, new)
              BY <1>4 DEF new
        <3>2. QED  BY <2>2, <3>1 DEF Sets
      <2>4. Outside(tile)
            BY <1>0, Kinds DEF Outside, NextTile
      <2>5. Alone => At(tile)'.file.open = {}
            BY <2>1 DEF Clean
      <2>6. QED  BY <1>1, <2>1, <2>3, <2>4, <2>5, OutsideIndexed
    <1>5. QED  BY <1>0, <1>3, <1>4, GenerateTileDoes

LEMMA InstallIndexed ==
    ASSUME Shape, Indexed, Clean, NEW j \in Jobs, Install(j)
    PROVE  Indexed' /\ Clean'
    <1>0. PICK name : name = jobs[j].writing
          OBVIOUS
    <1>1. /\ Moved(j, name) /\ jobs[j].pc = "install" /\ crashes' = crashes
          /\ jobs[j] \in JobType
          BY <1>0, InstallDoes DEF Install, NoChange, env, Shape, JobsOK
    <1>2. PICK f : Sets(j, [jobs[j] EXCEPT !.pc = "generate", !.writing = Manifest, !.failed = f])
          BY InstallDoes
    <1>3. \A i \in Jobs : jobs'[i] = jobs[i] \/ jobs'[i].pc = "generate"
      <2> DEFINE new == [jobs[j] EXCEPT !.pc = "generate", !.writing = Manifest, !.failed = f]
      <2>1. new.pc = "generate"
            BY <1>1 DEF JobType
      <2> HIDE DEF new
      <2>2. Sets(j, new)
            BY <1>2 DEF new
      <2>3. QED  BY <2>1, <2>2 DEF Sets
    <1>4. Outside(name)
          BY <1>0, <1>1 DEF Indexed, Outside
    <1>5. /\ \A n : n # name => At(n)' = At(n)
          /\ At(name)'.file.open =
               (IF CanInstall(name) THEN At(name).tmp.open ELSE At(name).file.open) \ {j}
          BY <1>1, MovedKeeps DEF Shape
    <1>6. Alone => At(name)'.file.open = {}
      <2>1. At(name) \in EntryType(name)
            BY EveryEntry DEF Shape
      <2>2. Alone => At(name).tmp.open \subseteq {j} /\ At(name).file.open \subseteq {j}
            BY <2>1, OnlyJob DEF EntryType, FileType
      <2>3. QED  BY <1>5, <2>2
    <1>7. QED  BY <1>1, <1>3, <1>4, <1>5, <1>6, OutsideIndexed

\* Scans and the end of a compute.
LEMMA ScansIndexed ==
    ASSUME Shape, Indexed, Clean, NEW j \in Jobs,
           ScanStatus(j) \/ ScanCells(j) \/ ScanGrid(j) \/ ScanKeys(j) \/ Finish(j)
    PROVE  Indexed' /\ Clean'
    <1>1. jobs[j] \in JobType /\ crashes' = crashes
          BY DEF Shape, JobsOK, ScanStatus, ScanCells, ScanGrid, ScanKeys, Finish, NoChange, env
    <1>2. SUFFICES ASSUME NEW job, ScanDoes(j, job), job.pc \in {"idle", "cells", "grid", "keys", "generate"}
                   PROVE  Indexed' /\ Clean'
      <2>1. CASE ScanStatus(j)
        <3>1. [jobs[j] EXCEPT !.pc = "cells", !.status = Library].pc = "cells"
              BY <1>1 DEF JobType
        <3>2. QED  BY <1>2, <2>1, <3>1, ScanStatusDoes
      <2>2. CASE ScanCells(j)
        <3>1. [jobs[j] EXCEPT !.pc = "grid", !.cells = CellKeys(Library)].pc = "grid"
              BY <1>1 DEF JobType
        <3>2. QED  BY <1>2, <2>2, <3>1, ScanCellsDoes
      <2>3. CASE ScanGrid(j)
        <3>1. [jobs[j] EXCEPT !.pc = "keys", !.grid = Library].pc = "keys"
              BY <1>1 DEF JobType
        <3>2. QED  BY <1>2, <2>3, <3>1, ScanGridDoes
      <2>4. CASE ScanKeys(j)
        <3>1. Chosen(jobs[j]).pc = "generate"
              BY <1>1 DEF Chosen, WithKeys, JobType
        <3>2. QED  BY <1>2, <2>4, <3>1, ScanKeysDoes, IdleOK
      <2>5. CASE Finish(j)
            BY <1>2, <2>5, FinishDoes, IdleOK
      <2>6. QED  BY <2>1, <2>2, <2>3, <2>4, <2>5
    <1>3. disk' = disk /\ \A i \in Jobs : jobs'[i] = jobs[i] \/ jobs'[i].pc = job.pc
          BY <1>2 DEF ScanDoes, Sets
    <1>4. Indexed'
          BY <1>2, <1>3, SameDiskIndexed
    <1>5. Clean'
          BY <1>1, <1>2, <1>3, SameDiskClean
    <1>6. QED  BY <1>4, <1>5

LEMMA JobCrashIndexed ==
    ASSUME Shape, Indexed, Clean, NEW j \in Jobs, JobCrash(j)
    PROVE  Indexed' /\ Clean'
    <1>1. PICK torn \in BOOLEAN : \A n : At(n)' = Left(j, n, torn)
          BY JobCrashDoes
    <1>2. Sets(j, Idle) /\ crashes' = crashes + 1 /\ crashes \in Nat /\ DiskOK
          BY JobCrashDoes DEF Shape, RestOK
    <1>3. \A i \in Jobs : jobs'[i] = jobs[i] \/ jobs'[i].pc = "idle"
          BY <1>2, IdleOK DEF Sets
    <1>4. Indexed'
      <2>1. \A lib : Leads(lib) => Leads(lib)'
            BY <1>1, <1>2, LeftStays DEF Leads
      <2>2. /\ At(Manifest)'.file.holds \subseteq At(Manifest).file.holds \cup {Torn}
            /\ At(Manifest)'.tmp.holds \subseteq At(Manifest).tmp.holds \cup {Torn}
            BY <1>1, <1>2, LeftKeeps
      <2>3. Leads(Torn)
            BY DEF Leads
      <2>4. \A lib \in At(Manifest)'.file.holds \cup At(Manifest)'.tmp.holds : Leads(lib)'
        <3>1. ASSUME NEW lib \in At(Manifest)'.file.holds \cup At(Manifest)'.tmp.holds PROVE Leads(lib)
              BY <2>2, <2>3 DEF Indexed
        <3>2. QED  BY <2>1, <3>1
      <2>5. QED  BY <1>3, <2>1, <2>4 DEF Indexed
    <1>5. Clean'
      <2>1. Alone' = Alone /\ (Gentle' => Alone)
            BY <1>2 DEF Gentle, Alone
      <2>2. ASSUME Alone, NEW n PROVE At(n)'.file.open = {}
        <3>1. At(n).file.open = {}
              BY <2>2 DEF Clean
        <3>2. QED  BY <1>1, <1>2, <3>1, LeftKeeps
      <2>3. ASSUME Alone, NEW lib \in Libraries
            PROVE  /\ Torn \notin At(Snapshot(lib))'.file.holds
                   /\ Unfinished(lib)' => Torn \notin At(Snapshot(lib))'.tmp.holds
        <3>1. Jobs = {j}
              BY <2>3, OnlyJob
        <3>2. ~Unfinished(lib)'
          <4>1. At(Snapshot(lib)).tmp.open \subseteq {j}
            <5>1. At(Snapshot(lib)) \in EntryType(Snapshot(lib))
                  BY <1>2, EveryEntry
            <5>2. QED  BY <3>1, <5>1 DEF EntryType, FileType
          <4>2. At(Snapshot(lib))'.tmp.open = {}
                BY <1>1, <1>2, <4>1, LeftKeeps
          <4>3. jobs'[j].pc = "idle"
                BY <1>2, IdleOK DEF Sets
          <4>4. QED  BY <3>1, <4>2, <4>3 DEF Unfinished
        <3>3. Torn \notin At(Snapshot(lib))'.file.holds
          <4>1. At(Snapshot(lib)).file.open = {} /\ Torn \notin At(Snapshot(lib)).file.holds
                BY <2>3 DEF Clean, Gentle
          <4>2. QED  BY <1>1, <1>2, <4>1, LeftKeeps
        <3>4. QED  BY <3>2, <3>3
      <2>4. QED  BY <2>1, <2>2, <2>3 DEF Clean
    <1>6. QED  BY <1>4, <1>5

LEMMA BesideIndexed ==
    ASSUME Shape, Indexed, Clean, Beside
    PROVE  Indexed' /\ Clean'
    <1>1. disk' = disk /\ MayStart
          BY BesideSpares DEF Spares
    <1>2. \A j \in Jobs : jobs'[j] = jobs[j] \/ jobs'[j].pc = "index"
          BY <1>1, StartedOK DEF MayStart
    <1>3. crashes' = crashes
          BY DEF Beside, Request, Supervise, GateAccepts, GateRefuses, GateWarms, GateFallsBack,
                 MoveQuarantine, PlanAgain, Render, RenderRefused, TimePasses, FileAdded, FileRemoved,
                 FileRewritten, Changed, Rescan, UserCompute, vars, env
    <1>4. Indexed'
          BY <1>1, <1>2, SameDiskIndexed
    <1>5. Clean'
          BY <1>1, <1>2, <1>3, SameDiskClean
    <1>6. QED  BY <1>4, <1>5

LEMMA InitIndexed ==
    ASSUME Init
    PROVE  Indexed /\ Clean
    <1>1. PICK indexed \in BOOLEAN :
            disk = [n \in IF indexed THEN {Manifest, Snapshot(Library)} ELSE {} |-> Whole(Library)]
          BY DEF Init
    <1>2. \A n : At(n) = Whole(Library) \/ At(n) = Absent
          BY <1>1 DEF At
    <1>3. IF indexed THEN At(Manifest) = Whole(Library) /\ At(Snapshot(Library)) = Whole(Library)
          ELSE At(Manifest) = Absent
          BY <1>1 DEF At
    <1>4. \A n : /\ At(n).file.open = {} /\ At(n).tmp.open = {} /\ At(n).tmp.holds = {}
                 /\ At(n).file.holds \subseteq {Library}
          BY <1>2 DEF Whole, Absent, NoFile
    <1>5. \A j \in Jobs : jobs[j].pc = "idle"
          BY IdleOK DEF Init
    <1>6. At(Manifest).file.holds # {} => IsFile(Snapshot(Library))
          BY <1>3 DEF IsFile, Whole, Absent, NoFile
    <1>7. Indexed
          BY <1>4, <1>5, <1>6 DEF Indexed, Leads
    <1>8. Clean
          BY <1>4, LibraryOK, LibraryNotTorn DEF Clean
    <1>9. QED  BY <1>7, <1>8

LEMMA IndexedStep ==
    ASSUME Shape, Indexed, Clean, [Next]_vars
    PROVE  Indexed' /\ Clean'
    <1>1. CASE Beside
          BY <1>1, BesideIndexed
    <1>2. ASSUME NEW j \in Jobs, JobCrash(j) PROVE Indexed' /\ Clean'
          BY <1>2, JobCrashIndexed
    <1>3. ASSUME NEW j \in Jobs, JobStep(j) PROVE Indexed' /\ Clean'
          BY <1>3, CreateSnapshotIndexed, InstallSnapshotIndexed, CreateManifestIndexed,
             InstallManifestIndexed, ScansIndexed, GenerateCellIndexed, GenerateTileIndexed,
             InstallIndexed DEF JobStep
    <1>4. QED  BY <1>1, <1>2, <1>3, Steps

\* A manifest leads to a snapshot, wherever computes die, and the snapshot is
\* whole unless another compute of the same library died while writing it.
THEOREM IndexIsKept == Spec => []ManifestHasSnapshot
    <1>1. Init => Shape /\ Indexed /\ Clean
          BY InitShape, InitIndexed
    <1>2. Shape /\ Indexed /\ Clean /\ [Next]_vars => (Shape /\ Indexed /\ Clean)'
          BY ShapeStep, IndexedStep
    <1>3. Shape /\ Indexed /\ Clean => ManifestHasSnapshot
      <2>1. SUFFICES ASSUME Shape, Indexed, Clean, NEW lib \in At(Manifest).file.holds \ {Torn}
                     PROVE  /\ IsFile(Snapshot(lib))
                            /\ crashes = 0 \/ Cardinality(Jobs) = 1
                                 => At(Snapshot(lib)).file.holds = {lib}
            BY DEF ManifestHasSnapshot
      <2>2. IsFile(Snapshot(lib))
            BY <2>1 DEF Indexed, Leads
      <2>3. lib \in Libraries
        <3>1. At(Manifest) \in EntryType(Manifest) /\ Contents(Manifest) = Libraries
              BY <2>1, EveryEntry, NamesOK DEF Shape
        <3>2. QED  BY <2>1, <3>1 DEF EntryType, FileType
      <2>4. At(Snapshot(lib)).file.holds \subseteq {lib, Torn}
        <3>1. At(Snapshot(lib)) \in EntryType(Snapshot(lib)) /\ Contents(Snapshot(lib)) = {lib}
              BY <2>1, <2>3, EveryEntry, NamesOK DEF Shape
        <3>2. QED  BY <3>1 DEF EntryType, FileType
      <2>5. crashes = 0 \/ Cardinality(Jobs) = 1 => Torn \notin At(Snapshot(lib)).file.holds
            BY <2>1, <2>3 DEF Clean, Gentle, Alone
      <2>6. QED  BY <2>2, <2>4, <2>5 DEF IsFile
    <1>4. QED  BY <1>1, <1>2, <1>3, PTL DEF Spec

(***************************************************************************)
(* The versions of the walls.  A wall that a compute has seen is never     *)
(* older again: it is gone, or kept aside by a quarantine, or as new.      *)
(***************************************************************************)
Latest(w) == IF req.removed # <<>> /\ req.removed[1] = w THEN req.removed[2] ELSE files[w]
Seen(e)   == e[2] <= changes + 1 /\ (Latest(e[1]) = 0 \/ e[2] <= Latest(e[1]))
Versions ==
    /\ \A w \in Walls : files[w] <= changes + 1
    /\ req.removed # <<>> =>
         /\ req.removed[1] \in Quarantined /\ files[req.removed[1]] = 0
         /\ req.removed[2] <= changes + 1

\* What a step that does not belong to a compute does to the walls.
Ages ==
    /\ changes <= changes'
    /\ \A w \in Walls : \/ Latest(w)' = 0
                        \/ Latest(w) # 0 /\ Latest(w) <= Latest(w)'
                        \/ changes + 1 <= Latest(w)'

LEMMA LatestOK ==
    ASSUME RestOK, NEW w \in Walls
    PROVE  Latest(w) \in Nat /\ files[w] \in Nat /\ changes \in Nat
    <1>1. req.removed # <<>> => req.removed[2] \in Nat
          BY RequestParts DEF RestOK, Entries
    <1>2. QED  BY <1>1 DEF Latest, RestOK

LEMMA PresentIsLatest ==
    ASSUME Versions, NEW w, files[w] # 0
    PROVE  Latest(w) = files[w]
    BY DEF Versions, Latest

LEMMA StaysSeen ==
    ASSUME RestOK, RestOK', Ages, NEW e \in Entries, Seen(e)
    PROVE  Seen(e)'
    <1>1. e[1] \in Walls /\ e[2] \in Nat
          BY DEF Entries
    <1>2. /\ Latest(e[1]) \in Nat /\ changes \in Nat
          /\ Latest(e[1])' \in Nat /\ changes' \in Nat
      <2>1. Latest(e[1]) \in Nat /\ changes \in Nat /\ changes' \in Nat
            BY <1>1, LatestOK DEF RestOK
      <2>2. req'.removed \in Entries \cup {<<>>} /\ files' \in [Walls -> Nat]
            BY DEF RestOK, RequestType
      <2>3. Latest(e[1])' \in Nat
            BY <1>1, <2>2 DEF Latest, Entries
      <2>4. QED  BY <2>1, <2>3
    <1>3. e[2] <= changes + 1 /\ (Latest(e[1]) = 0 \/ e[2] <= Latest(e[1]))
          BY DEF Seen
    <1>4. changes <= changes' /\ \/ Latest(e[1])' = 0
                                 \/ Latest(e[1]) # 0 /\ Latest(e[1]) <= Latest(e[1])'
                                 \/ changes + 1 <= Latest(e[1])'
          BY <1>1 DEF Ages
    <1>5. e[2] <= changes' + 1 /\ (Latest(e[1])' = 0 \/ e[2] <= Latest(e[1])')
          BY <1>1, <1>2, <1>3, <1>4
    <1>6. QED  BY <1>5 DEF Seen

\* An answer forgets the wall that was kept aside; a refusal brings it back.
LEMMA AnsweredAges ==
    ASSUME RestOK, RestOK', Versions, req' = NoRequest, changes' = changes,
           \A w \in Walls : \/ files'[w] = files[w] \/ files'[w] = 0
                            \/ files'[w] = Latest(w)
    PROVE  Ages /\ Versions'
    <1>1. req'.removed = <<>>
          BY DEF NoRequest
    <1>2. \A w \in Walls : Latest(w)' = files'[w]
          BY <1>1 DEF Latest
    <1>3. \A w \in Walls : files[w] = 0 \/ files[w] = Latest(w)
          BY PresentIsLatest
    <1>4. \A w \in Walls : Latest(w) <= changes + 1
          BY DEF Versions, Latest
    <1>5. changes \in Nat /\ \A w \in Walls : Latest(w) \in Nat /\ files[w] \in Nat
          BY LatestOK DEF RestOK
    <1>6. \A w \in Walls : Latest(w)' = 0 \/ Latest(w)' = Latest(w)
          BY <1>2, <1>3
    <1>7. Ages
          BY <1>5, <1>6 DEF Ages
    <1>8. Versions'
          BY <1>1, <1>2, <1>4, <1>5, <1>6 DEF Versions
    <1>9. QED  BY <1>7, <1>8

LEMMA RolledBackLatest ==
    ASSUME RestOK, NEW w \in Walls
    PROVE  RolledBackFiles[w] = Latest(w)
    <1>1. CASE req.removed = <<>>
          BY <1>1 DEF RolledBackFiles, Latest
    <1>2. CASE req.removed # <<>>
          BY <1>2 DEF RolledBackFiles, Latest, RestOK
    <1>3. QED  BY <1>1, <1>2

\* The gate and the renderer.
LEMMA KeptAges ==
    ASSUME RestOK, Versions, files' = files, changes' = changes,
           req'.removed = req.removed,
           req.removed # <<>> => req'.action = req.action /\ req'.entries = req.entries /\ at' = at
    PROVE  Ages /\ Versions'
    <1>1. \A w \in Walls : Latest(w)' = Latest(w)
          BY DEF Latest
    <1>2. changes \in Nat /\ \A w \in Walls : Latest(w) \in Nat
          BY LatestOK DEF RestOK
    <1>3. req.removed # <<>> => Quarantined' = Quarantined
          BY DEF Quarantined
    <1>4. QED  BY <1>1, <1>2, <1>3 DEF Ages, Versions

LEMMA MoveAges ==
    ASSUME RestOK, RestOK', Versions, MoveQuarantine
    PROVE  Ages /\ Versions'
    <1>1. PICK w \in Quarantined :
            /\ files' = [files EXCEPT ![w] = 0]
            /\ req' = [req EXCEPT !.pc = "plan", !.removed = <<w, files[w]>>]
          BY DEF MoveQuarantine
    <1>2. w \in Walls /\ files[w] \in Nat /\ changes \in Nat
          BY RequestParts DEF Quarantined, RestOK
    <1>3. /\ req'.removed = <<w, files[w]>> /\ req'.removed # <<>>
          /\ req'.removed[1] = w /\ req'.removed[2] = files[w]
          /\ req'.action = req.action /\ req'.entries = req.entries
          BY <1>1, <1>2 DEF RestOK, RequestType
    <1>4. /\ files'[w] = 0 /\ \A v \in Walls : v # w => files'[v] = files[v]
          /\ changes' = changes /\ at' = at
          BY <1>1, <1>2 DEF MoveQuarantine, RestOK, env
    <1>5. Quarantined' = Quarantined
          BY <1>3, <1>4 DEF Quarantined
    <1>6. \A v \in Walls : Latest(v)' = files[v]
          BY <1>3, <1>4 DEF Latest
    <1>7. \A v \in Walls : files[v] = 0 \/ Latest(v) = files[v]
          BY PresentIsLatest
    <1>8. \A v \in Walls : Latest(v) \in Nat /\ files[v] \in Nat /\ files'[v] \in Nat
          BY LatestOK DEF RestOK
    <1>9. Ages
          BY <1>2, <1>4, <1>6, <1>7, <1>8 DEF Ages
    <1>10. Versions'
      <2>1. \A v \in Walls : files[v] <= changes + 1
            BY DEF Versions
      <2>2. \A v \in Walls : files'[v] <= changes' + 1
            BY <1>2, <1>4, <1>8, <2>1
      <2>3. QED  BY <1>1, <1>2, <1>3, <1>4, <1>5, <2>1, <2>2 DEF Versions
    <1>11. QED  BY <1>9, <1>10

LEMMA ChangedAges ==
    ASSUME RestOK, RestOK', Versions, FileAdded \/ FileRemoved \/ FileRewritten
    PROVE  Ages /\ Versions'
    <1>1. PICK w \in Walls, v \in Nat :
            /\ Changed(w, v)
            /\ \/ v = changes + 2 /\ w \notin Quarantined /\ files[w] = 0
               \/ v = 0
               \/ v = files[w] + 1 /\ files[w] # 0
      <2>1. changes \in Nat /\ files \in [Walls -> Nat] /\ Present \subseteq Walls
            BY DEF RestOK, Present
      <2>2. \A u \in Walls : u \in Present => files[u] # 0
            BY <2>1 DEF Present
      <2>3. \A u \in Walls : u \notin Present => files[u] = 0
            BY <2>1 DEF Present
      <2>4. CASE FileAdded
        <3>1. PICK u \in Walls \ (Present \cup Quarantined) : Changed(u, changes + 2)
              BY <2>4 DEF FileAdded
        <3>2. changes + 2 \in Nat
              BY <2>1
        <3>3. QED  BY <2>3, <3>1, <3>2
      <2>5. CASE FileRemoved
        <3>1. PICK u \in Present : Changed(u, 0)
              BY <2>5 DEF FileRemoved
        <3>2. QED  BY <2>1, <3>1
      <2>6. CASE FileRewritten
        <3>1. PICK u \in Present : Changed(u, files[u] + 1)
              BY <2>6 DEF FileRewritten
        <3>2. files[u] + 1 \in Nat
              BY <2>1, <3>1
        <3>3. QED  BY <2>1, <2>2, <3>1, <3>2
      <2>7. QED  BY <2>4, <2>5, <2>6
    <1>2. /\ files'[w] = v /\ \A u \in Walls : u # w => files'[u] = files[u]
          /\ changes' = changes + 1 /\ changes \in Nat /\ req' = req /\ at' = at
          BY <1>1 DEF Changed, RestOK
    <1>3. Quarantined' = Quarantined
          BY <1>2 DEF Quarantined
    <1>4. req.removed # <<>> => req.removed[1] # w \/ v = 0
          BY <1>1 DEF Versions
    <1>5. \A u \in Walls : Latest(u)' = IF u = w /\ Latest(w)' = files'[w] THEN v ELSE Latest(u)
          BY <1>2 DEF Latest
    <1>6. \A u \in Walls : Latest(u) \in Nat /\ files[u] \in Nat
          BY LatestOK
    <1>7. v # 0 /\ files[w] # 0 => Latest(w) = files[w]
          BY PresentIsLatest
    <1>8. Ages
          BY <1>1, <1>2, <1>5, <1>6, <1>7 DEF Ages
    <1>9. Versions'
      <2>1. v <= changes' + 1
            BY <1>1, <1>2, <1>6 DEF Versions
      <2>2. \A u \in Walls : files'[u] <= changes' + 1
            BY <1>2, <1>6, <2>1 DEF Versions
      <2>3. req.removed # <<>> => files'[req.removed[1]] = 0 /\ req.removed[2] <= changes' + 1
        <3>1. SUFFICES ASSUME req.removed # <<>>
                       PROVE  files'[req.removed[1]] = 0 /\ req.removed[2] <= changes' + 1
              OBVIOUS
        <3>2. req.removed[1] \in Walls /\ req.removed[2] \in Nat
              BY <3>1, RequestParts DEF RestOK, Entries
        <3>3. QED  BY <1>2, <1>4, <3>1, <3>2 DEF Versions
      <2>4. QED  BY <1>2, <1>3, <2>2, <2>3 DEF Versions
    <1>10. QED  BY <1>8, <1>9

LEMMA BesideAges ==
    ASSUME Shape, Versions, Beside
    PROVE  Ages /\ Versions'
    <1>1. RestOK /\ RestOK'
          BY BesideSpares DEF Spares, Shape
    <1>2. CASE GateRefuses \/ GateWarms \/ GateFallsBack
      <2>1. req' = NoRequest /\ changes' = changes
            BY <1>2 DEF GateRefuses, GateWarms, GateFallsBack, AnsweredWithout, Answered, env
      <2>2. \A w \in Walls : files'[w] = files[w] \/ files'[w] = 0
            BY <1>2 DEF GateRefuses, GateWarms, GateFallsBack, AnsweredWithout, WithoutWalls
      <2>3. QED  BY <1>1, <2>1, <2>2, AnsweredAges
    <1>3. CASE RenderRefused \/ Render \/ (PlanAgain /\ Answered)
      <2>1. req' = NoRequest /\ changes' = changes
            BY <1>3 DEF RenderRefused, Render, PlanAgain, Answered, env
      <2>2. files' = files \/ files' = RolledBackFiles
            BY <1>3 DEF RenderRefused, RolledBack, Render, PlanAgain
      <2>3. QED  BY <1>1, <2>1, <2>2, AnsweredAges, RolledBackLatest
    <1>4. CASE PlanAgain /\ ~Answered
      <2>1. PICK plan : req' = [req EXCEPT !.pc = "render", !.plan = plan] /\ files' = files
            BY <1>4 DEF PlanAgain
      <2>2. req'.removed = req.removed /\ req'.action = req.action /\ req'.entries = req.entries
            BY <1>1, <2>1 DEF RestOK, RequestType
      <2>3. changes' = changes /\ at' = at
            BY <1>4 DEF PlanAgain, env
      <2>4. QED  BY <1>1, <2>1, <2>2, <2>3, KeptAges
    <1>5. CASE GateAccepts
      <2>1. PICK pc : req' = [req EXCEPT !.pc = pc]
            BY <1>5 DEF GateAccepts
      <2>2. req'.removed = req.removed /\ req'.action = req.action /\ req'.entries = req.entries
            BY <1>1, <2>1 DEF RestOK, RequestType
      <2>3. changes' = changes /\ at' = at /\ files' = files
            BY <1>5 DEF GateAccepts, env
      <2>4. QED  BY <1>1, <2>2, <2>3, KeptAges
    <1>6. CASE Request
      <2>1. req'.removed = <<>> /\ changes' = changes /\ files' = files
            BY <1>6 DEF Request, NoRequest, env
      <2>2. \A w \in Walls : Latest(w)' = files[w]
            BY <2>1 DEF Latest
      <2>3. \A w \in Walls : files[w] = 0 \/ Latest(w) = files[w]
            BY PresentIsLatest
      <2>4. changes \in Nat /\ \A w \in Walls : Latest(w) \in Nat /\ files[w] \in Nat
            BY <1>1, LatestOK DEF RestOK
      <2>5. QED  BY <2>1, <2>2, <2>3, <2>4 DEF Ages, Versions
    <1>7. CASE MoveQuarantine
          BY <1>1, <1>7, MoveAges
    <1>8. CASE FileAdded \/ FileRemoved \/ FileRewritten
          BY <1>1, <1>8, ChangedAges
    <1>9. CASE TimePasses \/ Rescan \/ UNCHANGED vars \/ \E j \in Jobs : UserCompute(j)
      <2>1. UNCHANGED <<files, changes, req, at>>
            BY <1>9 DEF TimePasses, Rescan, vars, env, UserCompute
      <2>2. QED  BY <1>1, <2>1, KeptAges
    <1>10. QED  BY <1>2, <1>3, <1>4, <1>5, <1>6, <1>7, <1>8, <1>9 DEF Beside, Supervise

(***************************************************************************)
(* The lists of a compute: what they saw, and when two scans agree.        *)
(***************************************************************************)
JobSeen(job) ==
    /\ \A i \in DOMAIN job.cells : Seen(job.cells[i])
    /\ \A i \in DOMAIN job.keys : Seen(job.keys[i])
JobAgrees(job) ==
    job.pc \in {"generate", "install"} /\ ~job.raced =>
      job.cells = job.keys /\ job.status = job.grid
Past == Versions /\ \A j \in Jobs : JobSeen(jobs[j]) /\ JobAgrees(jobs[j])

LEMMA SeesLibrary ==
    ASSUME RestOK, Versions, NEW i \in DOMAIN CellKeys(Library)
    PROVE  Seen(CellKeys(Library)[i])
    <1>1. Library[i] \in Present /\ CellKeys(Library)[i] = <<Library[i], files[Library[i]]>>
          BY LibraryOK, CellKeysOK DEF RestOK
    <1>2. Library[i] \in Walls /\ files[Library[i]] # 0 /\ files[Library[i]] \in Nat
          BY <1>1 DEF Present, RestOK
    <1>3. Latest(Library[i]) = files[Library[i]]
          BY <1>2, PresentIsLatest
    <1>4. files[Library[i]] <= changes + 1
          BY <1>2 DEF Versions
    <1>5. QED  BY <1>1, <1>2, <1>3, <1>4 DEF Seen

\* A step of a compute leaves the walls alone.
LEMMA JobPast ==
    ASSUME Past, UNCHANGED <<files, req, at, changes>>, NEW j \in Jobs, NEW job, Sets(j, job),
           JobSeen(job), JobAgrees(job)
    PROVE  Past'
    <1>1. \A e : Seen(e)' = Seen(e)
          BY DEF Seen, Latest
    <1>2. Versions'
          BY DEF Past, Versions, Quarantined
    <1>3. \A i \in Jobs : jobs'[i] = jobs[i] \/ jobs'[i] = job
          BY DEF Sets
    <1>4. QED  BY <1>1, <1>2, <1>3 DEF Past, JobSeen, JobAgrees

\* It takes over the lists as they are, or ends.
Continues(job, new) ==
    /\ new.cells = job.cells /\ new.keys = job.keys
    /\ \/ new.pc \notin {"generate", "install"}
       \/ /\ job.pc \in {"generate", "install"}
          /\ new.status = job.status /\ new.grid = job.grid /\ new.raced = job.raced
LEMMA ContinuesPast ==
    ASSUME Past, UNCHANGED <<files, req, at, changes>>, NEW j \in Jobs, NEW new, Sets(j, new),
           Continues(jobs[j], new) \/ new = Idle
    PROVE  Past'
    <1>1. JobSeen(jobs[j]) /\ JobAgrees(jobs[j])
          BY DEF Past
    <1>2. JobSeen(Idle) /\ JobAgrees(Idle)
      <2>1. DOMAIN Idle.cells = {} /\ DOMAIN Idle.keys = {}
            BY IdleOK
      <2>2. QED  BY <2>1, IdleOK DEF JobSeen, JobAgrees
    <1>3. JobSeen(new) /\ JobAgrees(new)
          BY <1>1, <1>2 DEF JobSeen, JobAgrees, Continues
    <1>4. QED  BY <1>3, JobPast

LEMMA IndexPast ==
    ASSUME Shape, Past, NEW j \in Jobs,
           CreateSnapshot(j) \/ InstallSnapshot(j) \/ CreateManifest(j) \/ InstallManifest(j)
    PROVE  Past'
    <1>1. jobs[j] \in JobType
          BY DEF Shape, JobsOK
    <1>2. UNCHANGED <<files, req, at, changes>>
          BY DEF CreateSnapshot, InstallSnapshot, CreateManifest, InstallManifest, NoChange, env
    <1>3. CASE CreateSnapshot(j)
      <2>1. PICK scan : Sets(j, [jobs[j] EXCEPT !.pc = "snapshot", !.lib = scan])
            BY <1>3, CreateSnapshotDoes
      <2>2. Continues(jobs[j], [jobs[j] EXCEPT !.pc = "snapshot", !.lib = scan])
            BY <1>1 DEF Continues, JobType
      <2>3. QED  BY <1>2, <2>1, <2>2, ContinuesPast
    <1>4. CASE InstallSnapshot(j)
      <2>1. Sets(j, [jobs[j] EXCEPT !.pc = "manifest"]) \/ Sets(j, Idle)
            BY <1>4, InstallSnapshotDoes
      <2>2. Continues(jobs[j], [jobs[j] EXCEPT !.pc = "manifest"])
            BY <1>1 DEF Continues, JobType
      <2>3. QED  BY <1>2, <2>1, <2>2, ContinuesPast
    <1>5. CASE CreateManifest(j)
      <2>1. Sets(j, [jobs[j] EXCEPT !.pc = "manifest tmp"])
            BY <1>5, CreateManifestDoes
      <2>2. Continues(jobs[j], [jobs[j] EXCEPT !.pc = "manifest tmp"])
            BY <1>1 DEF Continues, JobType
      <2>3. QED  BY <1>2, <2>1, <2>2, ContinuesPast
    <1>6. CASE InstallManifest(j)
      <2>1. Sets(j, [jobs[j] EXCEPT !.pc = "status", !.lib = <<>>]) \/ Sets(j, Idle)
            BY <1>6, InstallManifestDoes
      <2>2. Continues(jobs[j], [jobs[j] EXCEPT !.pc = "status", !.lib = <<>>])
            BY <1>1 DEF Continues, JobType
      <2>3. QED  BY <1>2, <2>1, <2>2, ContinuesPast
    <1>7. QED  BY <1>3, <1>4, <1>5, <1>6

LEMMA ScansPast ==
    ASSUME Shape, Past, NEW j \in Jobs, ScanStatus(j) \/ ScanCells(j) \/ ScanGrid(j) \/ Finish(j)
    PROVE  Past'
    <1>1. jobs[j] \in JobType
          BY DEF Shape, JobsOK
    <1>2. UNCHANGED <<files, req, at, changes>>
          BY DEF ScanStatus, ScanCells, ScanGrid, Finish, NoChange, env
    <1>3. CASE ScanStatus(j)
      <2>1. PICK scan : Sets(j, [jobs[j] EXCEPT !.pc = "cells", !.status = scan])
            BY <1>3, ScanStatusDoes DEF ScanDoes
      <2>2. Continues(jobs[j], [jobs[j] EXCEPT !.pc = "cells", !.status = scan])
            BY <1>1 DEF Continues, JobType
      <2>3. QED  BY <1>2, <2>1, <2>2, ContinuesPast
    <1>4. CASE ScanCells(j)
      <2>1. PICK scan : scan = CellKeys(Library)
            OBVIOUS
      <2> DEFINE new == [jobs[j] EXCEPT !.pc = "grid", !.cells = scan]
      <2>2. Sets(j, new)
            BY <1>4, <2>1, ScanCellsDoes DEF ScanDoes
      <2>3. new.pc = "grid" /\ new.cells = scan /\ new.keys = jobs[j].keys
            BY <1>1 DEF JobType
      <2>4. JobSeen(new)
            BY <2>1, <2>3, SeesLibrary DEF JobSeen, Past, Shape
      <2>5. JobAgrees(new)
            BY <2>3 DEF JobAgrees
      <2> HIDE DEF new
      <2>6. QED  BY <1>2, <2>2, <2>4, <2>5, JobPast
    <1>5. CASE ScanGrid(j)
      <2>1. PICK scan : Sets(j, [jobs[j] EXCEPT !.pc = "keys", !.grid = scan])
            BY <1>5, ScanGridDoes DEF ScanDoes
      <2>2. Continues(jobs[j], [jobs[j] EXCEPT !.pc = "keys", !.grid = scan])
            BY <1>1 DEF Continues, JobType
      <2>3. QED  BY <1>2, <2>1, <2>2, ContinuesPast
    <1>6. CASE Finish(j)
          BY <1>2, <1>6, FinishDoes, ContinuesPast DEF ScanDoes
    <1>7. QED  BY <1>3, <1>4, <1>5, <1>6

LEMMA ScanKeysPast ==
    ASSUME Shape, Past, NEW j \in Jobs, ScanKeys(j)
    PROVE  Past'
    <1>1. UNCHANGED <<files, req, at, changes>>
          BY DEF ScanKeys, NoChange, env
    <1>2. CASE Sets(j, Idle)
          BY <1>1, <1>2, ContinuesPast
    <1>3. CASE Sets(j, Chosen(jobs[j]))
      <2> DEFINE old  == jobs[j]
                 with == WithKeys(jobs[j])
                 new  == Chosen(jobs[j])
      <2>1. old \in JobType
            BY DEF Shape, JobsOK
      <2>2. /\ with.cells = old.cells /\ with.keys = CellKeys(Library)
            /\ with.status = old.status /\ with.grid = old.grid
            BY <2>1 DEF WithKeys, JobType
      <2>3. /\ new.cells = with.cells /\ new.keys = with.keys
            /\ new.status = with.status /\ new.grid = with.grid
            /\ new.raced = ~Consistent(with)
            BY <2>1 DEF Chosen, WithKeys, JobType
      <2>4. JobAgrees(new)
            BY <2>2, <2>3 DEF JobAgrees, Consistent
      <2>5. JobSeen(new)
            BY <2>2, <2>3, SeesLibrary DEF JobSeen, Past, Shape
      <2>6. QED  BY <1>1, <1>3, <2>4, <2>5, JobPast
    <1>4. QED  BY <1>2, <1>3, ScanKeysDoes DEF ScanDoes

LEMMA DrawsPast ==
    ASSUME Shape, Past, NEW j \in Jobs, GenerateCell(j) \/ GenerateTile(j) \/ Install(j)
    PROVE  Past'
    <1> DEFINE job == jobs[j]
    <1>1. job \in JobType
          BY DEF Shape, JobsOK
    <1>2. UNCHANGED <<files, req, at, changes>>
          BY DEF GenerateCell, GenerateTile, Install, NoChange, env
    <1>3. CASE GenerateCell(j)
      <2>1. job.pc = "generate"
            BY <1>3 DEF GenerateCell
      <2>2. Continues(job, CellSkipped(job)) /\ Continues(job, CellDrawn(job))
            BY <1>1, <2>1 DEF Continues, CellSkipped, CellDrawn, WithoutCell, JobType
      <2>3. Sets(j, CellSkipped(job)) \/ Sets(j, CellDrawn(job))
            BY <1>3, GenerateCellDoes DEF ScanDoes
      <2>4. QED  BY <1>2, <2>2, <2>3, ContinuesPast
    <1>4. CASE GenerateTile(j)
      <2>1. job.pc = "generate"
            BY <1>4 DEF GenerateTile
      <2>2. Continues(job, TileSkipped(job))
            BY <1>1, <2>1 DEF Continues, TileSkipped, JobType
      <2>3. CASE Sets(j, TileSkipped(job))
            BY <1>2, <2>2, <2>3, ContinuesPast
      <2>4. ASSUME NEW tile, NEW f,
                   Sets(j, [TileSkipped(job) EXCEPT !.pc = "install", !.writing = tile, !.failed = f])
            PROVE  Past'
        <3> DEFINE new == [TileSkipped(job) EXCEPT !.pc = "install", !.writing = tile, !.failed = f]
        <3>1. TileSkipped(job) \in JobType
              BY <1>1 DEF TileSkipped, JobType
        <3>2. Continues(TileSkipped(job), new)
              BY <2>1, <3>1, <1>1 DEF Continues, TileSkipped, JobType
        <3>3. Continues(job, new)
              BY <2>1, <2>2, <3>2 DEF Continues
        <3> HIDE DEF new
        <3>4. Sets(j, new)
              BY <2>4 DEF new
        <3>5. QED  BY <1>2, <3>3, <3>4, ContinuesPast
      <2>5. QED  BY <1>4, <2>3, <2>4, GenerateTileDoes DEF ScanDoes
    <1>5. CASE Install(j)
      <2>1. PICK f \in BOOLEAN : Sets(j, [job EXCEPT !.pc = "generate", !.writing = Manifest, !.failed = f])
            BY <1>5, InstallDoes
      <2>2. job.pc = "install"
            BY <1>5 DEF Install
      <2> DEFINE new == [job EXCEPT !.pc = "generate", !.writing = Manifest, !.failed = f]
      <2>3. Continues(job, new)
            BY <1>1, <2>2 DEF Continues, JobType
      <2> HIDE DEF new
      <2>4. Sets(j, new)
            BY <2>1 DEF new
      <2>5. QED  BY <1>2, <2>3, <2>4, ContinuesPast
    <1>6. QED  BY <1>3, <1>4, <1>5

LEMMA BesidePast ==
    ASSUME Shape, Past, Beside
    PROVE  Past'
    <1>1. Ages /\ Versions' /\ MayStart /\ RestOK /\ RestOK' /\ JobsOK
          BY BesideAges, BesideSpares DEF Past, Spares, Shape
    <1>2. ASSUME NEW j \in Jobs PROVE JobSeen(jobs[j])' /\ JobAgrees(jobs[j])'
      <2>1. CASE jobs'[j] = jobs[j]
        <3>1. jobs[j].cells \in Lists /\ jobs[j].keys \in Lists
              BY <1>1 DEF JobsOK, JobType
        <3>2. /\ \A i \in DOMAIN jobs[j].cells : jobs[j].cells[i] \in Entries
              /\ \A i \in DOMAIN jobs[j].keys : jobs[j].keys[i] \in Entries
              BY <3>1, ListLength
        <3>3. /\ \A i \in DOMAIN jobs[j].cells : Seen(jobs[j].cells[i])'
              /\ \A i \in DOMAIN jobs[j].keys : Seen(jobs[j].keys[i])'
              BY <1>1, <2>1, <3>2, StaysSeen DEF Past, JobSeen
        <3>4. QED  BY <2>1, <3>3 DEF JobSeen, JobAgrees, Past
      <2>2. CASE \E opts \in OptionType : jobs'[j] = Started(opts)
        <3>1. DOMAIN jobs'[j].cells = {} /\ DOMAIN jobs'[j].keys = {} /\ jobs'[j].pc = "index"
              BY <2>2, StartedOK
        <3>2. QED  BY <3>1 DEF JobSeen, JobAgrees
      <2>3. QED  BY <1>1, <2>1, <2>2 DEF MayStart
    <1>3. QED  BY <1>1, <1>2 DEF Past

LEMMA CrashPast ==
    ASSUME Shape, Past, NEW j \in Jobs, JobCrash(j)
    PROVE  Past'
    <1>1. UNCHANGED <<files, req, at, changes>>
          BY DEF JobCrash
    <1>2. Sets(j, Idle)
          BY JobCrashDoes
    <1>3. QED  BY <1>1, <1>2, ContinuesPast

LEMMA PastStep ==
    ASSUME Shape, Past, [Next]_vars
    PROVE  Past'
    <1>1. CASE Beside
          BY <1>1, BesidePast
    <1>2. ASSUME NEW j \in Jobs, JobCrash(j) PROVE Past'
          BY <1>2, CrashPast
    <1>3. ASSUME NEW j \in Jobs, JobStep(j) PROVE Past'
          BY <1>3, IndexPast, ScansPast, ScanKeysPast, DrawsPast DEF JobStep
    <1>4. QED  BY <1>1, <1>2, <1>3, Steps

LEMMA InitPast ==
    ASSUME Init
    PROVE  Past
    <1>1. Versions
      <2>1. files \in [Walls -> 0 .. 1] /\ changes = 0 /\ req.removed = <<>>
            BY DEF Init, NoRequest
      <2>2. QED  BY <2>1 DEF Versions
    <1>2. \A j \in Jobs : jobs[j] = Idle
          BY DEF Init
    <1>3. \A j \in Jobs : DOMAIN jobs[j].cells = {} /\ DOMAIN jobs[j].keys = {} /\ jobs[j].pc = "idle"
          BY <1>2, IdleOK
    <1>4. QED  BY <1>1, <1>3 DEF Past, JobSeen, JobAgrees

(***************************************************************************)
(* The pictures.  What a cell or a tile holds, or is about to hold, shows  *)
(* what its name says.                                                     *)
(***************************************************************************)
ShowsEntry(e, c) == c[1] = e[1] /\ e[2] <= c[2]
ShowsCovered(n, c) ==
    \A p \in DOMAIN c.shows :
      \/ c.shows[p] = Hole
      \/ p \in DOMAIN n.covers /\ ShowsEntry(n.covers[p], c.shows[p])
Fits(n, c) ==
    \/ c = Torn
    \/ /\ n.kind = "cell" => ShowsEntry(n.key, c)
       /\ n.kind = "tile" => c.raced \/ ShowsCovered(n, c)
Pictured == \A n : \A c \in At(n).file.holds \cup At(n).tmp.holds : Fits(n, c)

LEMMA WrotePictured ==
    ASSUME Pictured, NEW j, NEW name, NEW content, Wrote(j, name, content), Fits(name, content)
    PROVE  Pictured'
    <1>1. /\ \A n : At(n)'.file = At(n).file
          /\ \A n : n # name => At(n)' = At(n)
          BY WroteKeeps
    <1>2. PICK c \in Outcomes(At(name).tmp, content) :
            At(name)'.tmp = [holds |-> {c}, open |-> At(name).tmp.open \cup {j}]
          BY WroteKeeps
    <1>3. Fits(name, c)
      <2>1. c \in {content, Torn} \cup At(name).tmp.holds
            BY <1>2 DEF Outcomes
      <2>2. Fits(name, Torn)
            BY DEF Fits
      <2>3. QED  BY <2>1, <2>2 DEF Pictured
    <1>4. QED  BY <1>1, <1>2, <1>3 DEF Pictured

\* No other step puts anything new into a file.
LEMMA KeptPictured ==
    ASSUME Pictured,
           \A n : At(n)'.file.holds \cup At(n)'.tmp.holds
                    \subseteq At(n).file.holds \cup At(n).tmp.holds \cup {Torn}
    PROVE  Pictured'
    <1>1. \A n : Fits(n, Torn)
          BY DEF Fits
    <1>2. ASSUME NEW n, NEW c \in At(n)'.file.holds \cup At(n)'.tmp.holds PROVE Fits(n, c)
          BY <1>1, <1>2 DEF Pictured
    <1>3. QED  BY <1>2 DEF Pictured

LEMMA SameDiskPictured ==
    ASSUME Pictured, disk' = disk
    PROVE  Pictured'
    BY DEF Pictured, At

LEMMA MovedPictured ==
    ASSUME DiskOK, Pictured, NEW j, NEW name, Moved(j, name)
    PROVE  Pictured'
    <1>1. ASSUME NEW n
          PROVE  At(n)'.file.holds \cup At(n)'.tmp.holds \subseteq At(n).file.holds \cup At(n).tmp.holds
      <2>1. CASE n = name
            BY <2>1, MovedKeeps
      <2>2. CASE n # name
            BY <2>2, MovedKeeps
      <2>3. QED  BY <2>1, <2>2
    <1>2. QED  BY <1>1, KeptPictured

\* Drawing a wall from its source shows it as new as it was ever seen.
LEMMA SourceFits ==
    ASSUME RestOK, Versions, NEW e \in Entries, Seen(e), FromSource(e[1]) # Hole
    PROVE  ShowsEntry(e, FromSource(e[1]))
    <1>1. e[1] \in Walls /\ e[2] \in Nat
          BY DEF Entries
    <1>2. FromSource(e[1]) = <<e[1], files[e[1]]>> /\ files[e[1]] # 0
          BY <1>1, FromSourceOK DEF RestOK
    <1>3. Latest(e[1]) = files[e[1]]
          BY <1>2, PresentIsLatest
    <1>4. e[2] <= files[e[1]]
          BY <1>2, <1>3 DEF Seen
    <1>5. QED  BY <1>2, <1>4 DEF ShowsEntry

LEMMA ThumbnailFits ==
    ASSUME Shape, Versions, Pictured, NEW e \in Entries, Seen(e), NEW c \in Thumbnails(e), c # Hole
    PROVE  ShowsEntry(e, c)
    <1>1. CASE IsFile(Cell(e))
      <2>1. PICK d \in Reads(Cell(e)) : c = IF d = Torn THEN Hole ELSE d
            BY <1>1 DEF Thumbnails
      <2>2. d # Torn /\ c = d /\ d \in At(Cell(e)).file.holds
            BY <2>1 DEF Reads
      <2>3. Fits(Cell(e), d)
            BY <2>2 DEF Pictured
      <2>4. QED  BY <2>2, <2>3, Kinds DEF Fits
    <1>2. CASE ~IsFile(Cell(e))
          BY <1>2, SourceFits DEF Thumbnails, Shape
    <1>3. QED  BY <1>1, <1>2

LEMMA GenerateCellPictured ==
    ASSUME Shape, Past, Pictured, NEW j \in Jobs, GenerateCell(j)
    PROVE  Pictured'
    <1>0. PICK key, content : key = NextCell(jobs[j]) /\ content = FromSource(key[1])
          OBVIOUS
    <1>1. CASE disk' = disk
          BY <1>1, SameDiskPictured
    <1>2. CASE Wrote(j, Cell(key), content) /\ content # Hole
      <2>1. /\ jobs[j] \in JobType /\ LeastCell(jobs[j]) + 1 \in DOMAIN jobs[j].cells
            /\ key = jobs[j].cells[LeastCell(jobs[j]) + 1]
            BY <1>0, GenerateCellDoes DEF NextCell, Shape, JobsOK
      <2>2. key \in Entries
        <3>1. jobs[j].cells \in Lists
              BY <2>1 DEF JobType
        <3>2. QED  BY <2>1, <3>1, ListLength
      <2>3. Seen(key)
            BY <2>1 DEF Past, JobSeen
      <2>4. ShowsEntry(key, content)
            BY <1>0, <1>2, <2>2, <2>3, SourceFits DEF Shape, Past
      <2>5. Fits(Cell(key), content)
            BY <2>4, Kinds DEF Fits
      <2>6. QED  BY <1>2, <2>5, WrotePictured
    <1>3. QED  BY <1>0, <1>1, <1>2, GenerateCellDoes DEF ScanDoes

\* The tile of a compute whose scans agree covers the cells it is drawn from.
LEMMA CoversCells ==
    ASSUME NEW job \in JobType, NEW key \in AllKeys, job.cells = job.keys, job.status = job.grid
    PROVE  /\ DOMAIN TileName(job, key).covers = Ground(job, key)
           /\ \A p \in Ground(job, key) : TileName(job, key).covers[p] = CellAt(job, p)
    <1>1. TileName(job, key).covers =
            [p \in Places[Len(job.keys)][Len(job.grid)][Len(job.grid)][key] |->
               job.keys[p[1] * Grid[Len(job.grid)].columns + p[2] + 1]]
          BY DEF TileName, Tile
    <1>2. Places[Len(job.keys)][Len(job.grid)][Len(job.grid)][key] = Ground(job, key)
          BY DEF Ground
    <1>3. \A p : CellAt(job, p) = job.keys[p[1] * Grid[Len(job.grid)].columns + p[2] + 1]
          BY DEF CellAt
    <1>4. QED  BY <1>1, <1>2, <1>3, Zenon

LEMMA GenerateTilePictured ==
    ASSUME Shape, Past, Pictured, NEW j \in Jobs, GenerateTile(j)
    PROVE  Pictured'
    <1>0. PICK job, key, tile : job = jobs[j] /\ key = First(job.tilesTodo) /\ tile = TileName(job, key)
          OBVIOUS
    <1>1. job \in JobType /\ key \in AllKeys /\ job.pc = "generate" /\ NextTile(job) = tile
          BY <1>0, GenerateTileDoes DEF Shape, JobsOK, NextTile
    <1>2. CASE disk' = disk
          BY <1>2, SameDiskPictured
    <1>3. ASSUME NEW shows \in Pictures(job, key), Wrote(j, tile, Picture(job, shows))
          PROVE  Pictured'
      <2> DEFINE c == Picture(job, shows)
      <2>1. /\ c.shows = shows /\ c.raced = job.raced
            /\ DOMAIN shows = Ground(job, key)
            /\ \A p \in Ground(job, key) : shows[p] \in Thumbnails(CellAt(job, p))
            BY <1>1, PicturesOK DEF Picture
      <2>2. ASSUME ~job.raced PROVE ShowsCovered(tile, c)
        <3>1. job.cells = job.keys /\ job.status = job.grid
              BY <1>0, <1>1, <2>2 DEF Past, JobAgrees
        <3>2. /\ DOMAIN tile.covers = Ground(job, key)
              /\ \A p \in Ground(job, key) : tile.covers[p] = CellAt(job, p)
              BY <1>0, <1>1, <3>1, CoversCells
        <3>3. ASSUME NEW p \in Ground(job, key), shows[p] # Hole
              PROVE  ShowsEntry(CellAt(job, p), shows[p])
          <4>1. CellAt(job, p) \in Entries
                BY <1>1, <3>3, DrawnCellsOK
          <4>2. Seen(CellAt(job, p))
            <5>1. p[1] * Grid[Len(job.status)].columns + p[2] + 1 \in DOMAIN job.cells
                  BY <1>1, <3>3, DrawnCellsOK
            <5>2. QED  BY <1>0, <5>1 DEF Past, JobSeen, CellAt
          <4>3. QED  BY <2>1, <3>3, <4>1, <4>2, ThumbnailFits DEF Past
        <3> HIDE DEF c
        <3>4. QED  BY <2>1, <3>2, <3>3 DEF ShowsCovered
      <2>3. c.raced \in BOOLEAN
            BY <1>1, <2>1 DEF JobType
      <2> HIDE DEF c
      <2>4. c.raced \/ ShowsCovered(tile, c)
            BY <2>1, <2>2, <2>3
      <2>5. tile.kind = "tile"
            BY <1>0, Kinds
      <2>6. Fits(tile, c)
            BY <2>4, <2>5 DEF Fits
      <2>7. Wrote(j, tile, c)
            BY <1>3 DEF c
      <2>8. QED  BY <2>6, <2>7, WrotePictured
    <1>4. QED  BY <1>0, <1>1, <1>2, <1>3, GenerateTileDoes DEF ScanDoes

LEMMA IndexPictured ==
    ASSUME Shape, Pictured, NEW j \in Jobs,
           CreateSnapshot(j) \/ InstallSnapshot(j) \/ CreateManifest(j) \/ InstallManifest(j)
    PROVE  Pictured'
    <1>1. CASE CreateSnapshot(j)
      <2>1. PICK scan : Wrote(j, Snapshot(scan), scan)
            BY <1>1, CreateSnapshotDoes
      <2>2. Fits(Snapshot(scan), scan)
            BY Kinds DEF Fits
      <2>3. QED  BY <2>1, <2>2, WrotePictured
    <1>2. CASE CreateManifest(j)
      <2>1. PICK lib : Wrote(j, Manifest, lib)
            BY <1>2, CreateManifestDoes
      <2>2. Fits(Manifest, lib)
            BY Kinds DEF Fits
      <2>3. QED  BY <2>1, <2>2, WrotePictured
    <1>3. CASE InstallSnapshot(j) \/ InstallManifest(j)
          BY <1>3, InstallSnapshotDoes, InstallManifestDoes, MovedPictured DEF Shape
    <1>4. QED  BY <1>1, <1>2, <1>3

LEMMA PicturedStep ==
    ASSUME Shape, Past, Pictured, [Next]_vars
    PROVE  Pictured'
    <1>1. CASE Beside
          BY <1>1, BesideSpares, SameDiskPictured DEF Spares
    <1>2. ASSUME NEW j \in Jobs, JobCrash(j) PROVE Pictured'
      <2>1. PICK torn \in BOOLEAN : \A n : At(n)' = Left(j, n, torn)
            BY <1>2, JobCrashDoes
      <2>2. \A n : At(n)'.file.holds \cup At(n)'.tmp.holds
                     \subseteq At(n).file.holds \cup At(n).tmp.holds \cup {Torn}
        <3>1. ASSUME NEW n
              PROVE  At(n)'.file.holds \cup At(n)'.tmp.holds
                       \subseteq At(n).file.holds \cup At(n).tmp.holds \cup {Torn}
              BY <2>1, LeftKeeps DEF Shape
        <3>2. QED  BY <3>1
      <2>3. QED  BY <2>2, KeptPictured
    <1>3. ASSUME NEW j \in Jobs, JobStep(j) PROVE Pictured'
      <2>1. CASE ScanStatus(j) \/ ScanCells(j) \/ ScanGrid(j) \/ ScanKeys(j) \/ Finish(j)
            BY <2>1, SameDiskPictured DEF ScanStatus, ScanCells, ScanGrid, ScanKeys, Finish
      <2>2. CASE Install(j)
            BY <2>2, InstallDoes, MovedPictured DEF Shape
      <2>3. QED  BY <1>3, <2>1, <2>2, IndexPictured, GenerateCellPictured, GenerateTilePictured DEF JobStep
    <1>4. QED  BY <1>1, <1>2, <1>3, Steps

LEMMA InitPictured ==
    ASSUME Init
    PROVE  Pictured
    <1>1. PICK indexed \in BOOLEAN :
            disk = [n \in IF indexed THEN {Manifest, Snapshot(Library)} ELSE {} |-> Whole(Library)]
          BY DEF Init
    <1>2. \A n : At(n) = Absent \/ n = Manifest \/ n = Snapshot(Library)
          BY <1>1 DEF At
    <1>3. \A n : At(n) = Absent \/ n.kind \in {"manifest", "snapshot"}
          BY <1>2, Kinds
    <1>4. QED  BY <1>3 DEF Pictured, Fits, Absent, NoFile

\* Whatever computes run, die and write to the same files while the library
\* changes, a tile shows the walls its name says, in their places and at least
\* as new, unless the scans of the compute that drew it did not agree.
THEOREM TilesAreTrue == Spec => []TilesShowTheirWalls
    <1>1. Init => Shape /\ Past /\ Pictured
          BY InitShape, InitPast, InitPictured
    <1>2. Shape /\ Past /\ Pictured /\ [Next]_vars => (Shape /\ Past /\ Pictured)'
          BY ShapeStep, PastStep, PicturedStep
    <1>3. Pictured => TilesShowTheirWalls
      <2>1. SUFFICES ASSUME Pictured, NEW n \in DOMAIN disk, n.kind = "tile",
                            NEW c \in disk[n].file.holds \ {Torn}
                     PROVE  c.raced \/ ShowsCovered(n, c)
            BY DEF TilesShowTheirWalls, ShowsCovered, ShowsEntry
      <2>2. Fits(n, c)
            BY <2>1 DEF Pictured, At
      <2>3. QED  BY <2>1, <2>2 DEF Fits
    <1>4. QED  BY <1>1, <1>2, <1>3, PTL DEF Spec

(***************************************************************************)
(* The tiles of a route: how many an accepted request can have.            *)
(***************************************************************************)
\* The cells of a level, from below: the lists of the first levels exist, and
\* agree with one another.
CellsUpTo(n, g) ==
    /\ g \in [0 .. n -> Nat] /\ g[0] = TileCells
    /\ \A i \in 1 .. n : g[i] = Branching * g[i - 1]

LEMMA LevelCells ==
    /\ LodCells \in [Nat -> Nat]
    /\ LodCells[0] = TileCells
    /\ \A lod \in Nat \ {0} : LodCells[lod] = Branching * LodCells[lod - 1]
    <1>1. TileCells \in Nat /\ Branching \in Nat
          BY WorldGridAssumption
    <1>2. \A n \in Nat : \E g : CellsUpTo(n, g)
      <2> DEFINE Lacking == { n \in Nat : ~\E g : CellsUpTo(n, g) }
      <2>1. SUFFICES ASSUME Lacking # {} PROVE FALSE
            OBVIOUS
      <2>2. PICK n \in Lacking : \A m \in Lacking : n <= m
            BY <2>1, LeastNumber
      <2>3. n # 0
        <3>1. CellsUpTo(0, [i \in 0 .. 0 |-> TileCells])
              BY <1>1 DEF CellsUpTo
        <3>2. QED  BY <2>2, <3>1
      <2>4. n \in Nat /\ n - 1 \in Nat /\ n - 1 \notin Lacking
            BY <2>2, <2>3
      <2>5. PICK g : CellsUpTo(n - 1, g)
            BY <2>4
      <2> DEFINE h == [i \in 0 .. n |-> IF i = n THEN Branching * g[n - 1] ELSE g[i]]
      <2>6. g \in [0 .. n - 1 -> Nat] /\ g[n - 1] \in Nat
            BY <2>4, <2>5 DEF CellsUpTo
      <2>7. Branching * g[n - 1] \in Nat
            BY <1>1, <2>6
      <2>8. h \in [0 .. n -> Nat]
            BY <2>4, <2>6, <2>7
      <2>9. h[0] = TileCells
            BY <2>3, <2>4, <2>5 DEF CellsUpTo
      <2>10. ASSUME NEW i \in 1 .. n PROVE h[i] = Branching * h[i - 1]
        <3>1. CASE i = n
          <4>1. h[i] = Branching * g[n - 1] /\ h[i - 1] = g[n - 1]
                BY <2>3, <2>4, <3>1
          <4>2. QED  BY <4>1
        <3>2. CASE i # n
          <4>1. i \in 1 .. n - 1 /\ i - 1 \in 0 .. n /\ i - 1 # n
                BY <2>4, <3>2
          <4>2. h[i] = g[i] /\ h[i - 1] = g[i - 1]
                BY <3>2, <4>1
          <4>3. g[i] = Branching * g[i - 1]
                BY <2>5, <4>1 DEF CellsUpTo
          <4>4. QED  BY <4>2, <4>3
        <3>3. QED  BY <3>1, <3>2
      <2> HIDE DEF h
      <2>11. CellsUpTo(n, h)
            BY <2>8, <2>9, <2>10 DEF CellsUpTo
      <2>12. QED  BY <2>2, <2>11
    <1>3. ASSUME NEW m \in Nat, NEW n \in Nat, NEW g, NEW h, CellsUpTo(m, g), CellsUpTo(n, h)
          PROVE  \A i \in (0 .. m) \cap (0 .. n) : g[i] = h[i]
      <2> DEFINE Differ == { i \in (0 .. m) \cap (0 .. n) : g[i] # h[i] }
      <2>1. SUFFICES ASSUME Differ # {} PROVE FALSE
            OBVIOUS
      <2>2. PICK i \in Differ : \A k \in Differ : i <= k
        <3>1. Differ \in SUBSET Nat
              OBVIOUS
        <3>2. QED  BY <2>1, <3>1, LeastNumber
      <2>3. i \in Nat /\ i <= m /\ i <= n /\ g[i] # h[i]
            BY <2>2
      <2>4. i # 0
            BY <1>3, <2>3 DEF CellsUpTo
      <2>5. i - 1 \in 0 .. m /\ i - 1 \in 0 .. n /\ i \in 1 .. m /\ i \in 1 .. n
            BY <2>3, <2>4
      <2>6. i - 1 \notin Differ
            BY <2>2, <2>3
      <2>7. g[i - 1] = h[i - 1]
            BY <2>5, <2>6
      <2>8. g[i] = Branching * g[i - 1] /\ h[i] = Branching * h[i - 1]
            BY <1>3, <2>5 DEF CellsUpTo
      <2>9. QED  BY <2>3, <2>7, <2>8
    <1> DEFINE list(n) == CHOOSE g : CellsUpTo(n, g)
               all == [n \in Nat |-> list(n)[n]]
    <1>4. \A n \in Nat : CellsUpTo(n, list(n))
          BY <1>2
    <1> HIDE DEF list
    <1>5. all \in [Nat -> Nat] /\ all[0] = TileCells
          BY <1>4 DEF CellsUpTo
    <1>6. ASSUME NEW n \in Nat \ {0} PROVE all[n] = Branching * all[n - 1]
      <2>1. n - 1 \in Nat /\ n \in 1 .. n /\ n - 1 \in 0 .. n /\ n - 1 \in 0 .. n - 1
            OBVIOUS
      <2>2. list(n)[n] = Branching * list(n)[n - 1]
            BY <1>4, <2>1 DEF CellsUpTo
      <2>3. list(n)[n - 1] = list(n - 1)[n - 1]
            BY <1>3, <1>4, <2>1
      <2>4. QED  BY <2>1, <2>2, <2>3
    <1>7. all = [n \in Nat |-> IF n = 0 THEN TileCells ELSE Branching * all[n - 1]]
      <2>1. \A n \in Nat : all[n] = IF n = 0 THEN TileCells ELSE Branching * all[n - 1]
            BY <1>5, <1>6
      <2> HIDE DEF all
      <2>2. all = [n \in Nat |-> all[n]]
            BY <1>5
      <2>3. QED  BY <2>1, <2>2
    <1> HIDE DEF all
    <1>8. LodCells = [n \in Nat |-> IF n = 0 THEN TileCells ELSE Branching * LodCells[n - 1]]
          BY <1>7 DEF LodCells
    <1> DEFINE Wrong == { n \in Nat : LodCells[n] # all[n] }
    <1>9. Wrong = {}
      <2>1. SUFFICES ASSUME Wrong # {} PROVE FALSE
            OBVIOUS
      <2>2. PICK n \in Wrong : \A m \in Wrong : n <= m
            BY <2>1, LeastNumber
      <2>3. LodCells[n] = IF n = 0 THEN TileCells ELSE Branching * LodCells[n - 1]
            BY <1>8, <2>2
      <2>4. n # 0
            BY <1>5, <2>2, <2>3
      <2>5. n - 1 \in Nat /\ n - 1 \notin Wrong
            BY <2>2, <2>4
      <2>6. QED  BY <1>6, <2>2, <2>3, <2>4, <2>5
    <1>10. LodCells = all
      <2>1. \A n \in Nat : LodCells[n] = all[n]
            BY <1>9
      <2>2. LodCells = [n \in Nat |-> LodCells[n]]
            BY <1>8
      <2>3. all = [n \in Nat |-> all[n]]
            BY <1>5
      <2>4. QED  BY <2>1, <2>2, <2>3
    <1>11. QED  BY <1>5, <1>6, <1>10

LEMMA GridOK ==
    ASSUME NEW n \in Counts
    PROVE  Grid[n].columns \in Nat \ {0} /\ Grid[n].rows \in Nat
    <1>1. n \in Nat
          BY NumberOfWalls DEF Counts
    <1>2. AutoColumns(n) \in Nat
      <2> DEFINE Wide == { c \in 1 .. n + 1 : c * c >= n }
      <2>1. n + 1 \in Wide
        <3>1. (n + 1) * (n + 1) >= n
              BY <1>1
        <3>2. QED  BY <1>1, <3>1
      <2>2. PICK c \in Wide : \A d \in Wide : c <= d
        <3>1. Wide \in SUBSET Nat /\ Wide # {}
              BY <2>1
        <3>2. QED  BY <3>1, LeastNumber
      <2>3. ASSUME NEW d \in 1 .. c - 1 PROVE d * d < n
        <3>1. d \in 1 .. n + 1 /\ d \notin Wide /\ d \in Nat
              BY <1>1, <2>2, <2>3
        <3>2. d * d \in Nat
              BY <3>1
        <3>3. QED  BY <1>1, <3>1, <3>2
      <2>4. \E e \in 1 .. n + 1 : e * e >= n /\ \A d \in 1 .. e - 1 : d * d < n
            BY <2>2, <2>3
      <2>5. AutoColumns(n) \in 1 .. n + 1
            BY <2>4 DEF AutoColumns
      <2>6. QED  BY <2>5
    <1>3. AtLeastOne(AutoColumns(n)) \in Nat \ {0}
          BY <1>2 DEF AtLeastOne
    <1>4. DivCeil(n, AtLeastOne(AutoColumns(n))) \in Nat
      <2>1. PICK c \in Nat \ {0} : c = AtLeastOne(AutoColumns(n))
            BY <1>3
      <2>2. n + c - 1 \in Nat
            BY <1>1
      <2>3. (n + c - 1) \div c \in Nat
            BY <2>2
      <2>4. QED  BY <2>1, <2>3 DEF DivCeil
    <1>5. Grid[n] = [count |-> n, columns |-> AtLeastOne(AutoColumns(n)),
                     rows |-> DivCeil(n, AtLeastOne(AutoColumns(n)))]
          BY DEF Grid, Layout
    <1>6. QED  BY <1>3, <1>4, <1>5

\* A route covers a finite block of tiles.
LEMMA BlockFinite ==
    ASSUME NEW a \in Int, NEW b \in Int, NEW c \in Int, NEW d \in Int
    PROVE  IsFiniteSet([row : a .. b, column : c .. d])
    <1> DEFINE Block == [row : a .. b, column : c .. d]
               Pairs == (a .. b) \X (c .. d)
               pair == [t \in Block |-> <<t.row, t.column>>]
    <1>1. IsFiniteSet(Pairs)
          BY FS_Interval, FS_Product
    <1>2. pair \in [Block -> Pairs]
          OBVIOUS
    <1>3. \A t, u \in Block : pair[t] = pair[u] => t = u
          OBVIOUS
    <1>4. pair \in Injection(Block, Pairs)
          BY <1>2, <1>3 DEF Injection, IsInjective
    <1>5. QED  BY <1>1, <1>4, FS_Injection

LEMMA RouteTilesFinite ==
    ASSUME NEW n \in Counts, NEW s \in Indices, NEW t \in Indices, NEW cells \in Nat
    PROVE  IsFiniteSet(RouteTiles(Grid[n], s, t, cells))
    <1> DEFINE range == RouteRange(Grid[n], s, t)
    <1>1. s \in Nat /\ t \in Nat /\ n \in Nat
          BY NumberOfWalls DEF Indices, Counts
    <1>2. PICK columns \in Nat \ {0}, rows \in Nat : columns = Grid[n].columns /\ rows = Grid[n].rows
          BY GridOK
    <1>3. /\ Column(Grid[n], s) \in Int /\ Column(Grid[n], t) \in Int
          /\ Row(Grid[n], s) \in Int /\ Row(Grid[n], t) \in Int
      <2>1. s % columns \in Int /\ t % columns \in Int /\ s \div columns \in Int /\ t \div columns \in Int
            BY <1>1
      <2>2. QED  BY <1>2, <2>1 DEF Column, Row
    <1>4. \A x, y \in Int : Smaller(x, y) \in Int /\ Larger(x, y) \in Int
          BY DEF Smaller, Larger
    <1>5. \A x \in Int : ClampTo(x, columns) \in Int /\ ClampTo(x, rows) \in Int
          BY <1>4 DEF ClampTo
    <1>6. /\ range.c0 \in Int /\ range.c1 \in Int /\ range.r0 \in Int /\ range.r1 \in Int
      <2> DEFINE x0 == Smaller(Column(Grid[n], s), Column(Grid[n], t))
                 x1 == Larger(Column(Grid[n], s), Column(Grid[n], t)) + 1
                 y0 == Smaller(Row(Grid[n], s), Row(Grid[n], t))
                 y1 == Larger(Row(Grid[n], s), Row(Grid[n], t)) + 1
      <2>1. x0 \in Int /\ x1 \in Int /\ y0 \in Int /\ y1 \in Int
        <3>1. \A x, y \in Int : Smaller(x, y) \in Int /\ Larger(x, y) + 1 \in Int
              BY <1>4
        <3>2. QED  BY <1>3, <3>1
      <2>2. range = VisibleRange(Grid[n], x0, x1, y0, y1, 1)
            BY DEF RouteRange
      <2> HIDE DEF x0, x1, y0, y1, range
      <2>3. CASE Grid[n].count = 0
            BY <2>2, <2>3 DEF VisibleRange, EmptyRange
      <2>4. CASE Grid[n].count # 0
        <3>1. range = [c0 |-> ClampTo(x0 - 1, columns), c1 |-> ClampTo(x1 + 1, columns),
                       r0 |-> ClampTo(y0 - 1, rows),    r1 |-> ClampTo(y1 + 1, rows)]
              BY <1>2, <2>2, <2>4 DEF VisibleRange
        <3>2. x0 - 1 \in Int /\ x1 + 1 \in Int /\ y0 - 1 \in Int /\ y1 + 1 \in Int
              BY <2>1
        <3>3. QED  BY <1>5, <3>1, <3>2
      <2>5. QED  BY <2>3, <2>4
    <1>7. PICK edge \in Nat \ {0} : edge = AtLeastOne(cells)
          BY DEF AtLeastOne
    <1> HIDE DEF range
    <1>8. IsFiniteSet(TilesForRange(range, cells))
      <2>1. CASE range.c0 >= range.c1 \/ range.r0 >= range.r1
            BY <2>1, FS_EmptySet DEF TilesForRange
      <2>2. CASE ~(range.c0 >= range.c1 \/ range.r0 >= range.r1)
        <3>1. TilesForRange(range, cells) =
                [row : range.r0 \div edge .. DivCeil(range.r1, edge) - 1,
                 column : range.c0 \div edge .. DivCeil(range.c1, edge) - 1]
              BY <1>7, <2>2 DEF TilesForRange
        <3>2. range.r0 \div edge \in Int /\ range.c0 \div edge \in Int
              BY <1>6, <1>7
        <3>3. \A x \in Int : (x + edge - 1) \div edge \in Int
              BY <1>7
        <3>4. DivCeil(range.r1, edge) - 1 \in Int /\ DivCeil(range.c1, edge) - 1 \in Int
              BY <1>6, <3>3 DEF DivCeil
        <3>5. PICK a, b, c, d \in Int :
                /\ a = range.r0 \div edge /\ b = DivCeil(range.r1, edge) - 1
                /\ c = range.c0 \div edge /\ d = DivCeil(range.c1, edge) - 1
              BY <3>2, <3>4
        <3>6. TilesForRange(range, cells) = [row : a .. b, column : c .. d]
              BY <3>1, <3>5
        <3>7. QED  BY <3>6, BlockFinite
      <2>3. QED  BY <2>1, <2>2
    <1>9. QED  BY <1>8, FS_EmptySet DEF RouteTiles, range

\* The tiles of one route of a plan, as the renderer counts them.
LEMMA TilesOfRoute ==
    ASSUME NEW lib \in Libraries, NEW entries, Plannable(lib, entries), NEW o \in DOMAIN entries
    PROVE  LET tiles == TilesOf(PlanFor(lib, entries), o)
           IN IsFiniteSet(tiles) /\ Cardinality(tiles) \in 1 .. MaxRouteTiles
    <1> DEFINE route == Route(lib, o, entries[o])
               n == Len(lib)
               level == LodCells[route.lod]
               block == RouteTiles(Grid[n], route.from, route.to, level)
               tile == [b \in block |-> Tile(lib, CellKeys(lib),
                                             [lod |-> route.lod, row |-> b.row, column |-> b.column])]
               tiles == TilesOf(PlanFor(lib, entries), o)
    <1>1. n \in Counts
          BY PathOrders
    <1>2. /\ route \in RouteType
          /\ FitsBudget(Grid[n], route.from, route.to, route.lod)
          /\ route.lod # NoLod
          BY RouteOK DEF Plannable
    <1>3. route.from \in Indices /\ route.to \in Indices /\ route.lod \in Nat
          BY <1>2, LevelsOK DEF RouteType
    <1>4. level \in Nat
          BY <1>3, LevelCells
    <1>5. IsFiniteSet(block) /\ Cardinality(block) \in 1 .. MaxRouteTiles
          BY <1>1, <1>2, <1>3, <1>4, RouteTilesFinite DEF FitsBudget
    <1>6. DaemonKeys[n][route.from][route.to] = KeysAt(route.lod, block)
      <2>1. route.lod = DaemonLod[n][route.from][route.to]
            BY DEF Route
      <2>2. DaemonKeys[n][route.from][route.to] =
              RouteKeys(Grid[n], route.from, route.to, DaemonLod[n][route.from][route.to])
            BY <1>1, <1>2, <1>3, <2>1 DEF DaemonKeys
      <2>3. QED  BY <2>1, <2>2 DEF RouteKeys
    <1>7. tiles = { Tile(lib, CellKeys(lib), key) : key \in KeysAt(route.lod, block) }
      <2>1. PlanFor(lib, entries).lib = lib /\ PlanFor(lib, entries).routes[o] = route
            BY DEF PlanFor
      <2> HIDE DEF route, n, block
      <2>2. tiles = { Tile(lib, CellKeys(lib), key) : key \in DaemonKeys[Len(lib)][route.from][route.to] }
            BY <2>1 DEF TilesOf
      <2>3. QED  BY <1>6, <2>2 DEF n
    <1> HIDE DEF block, route, n, tiles
    <1>8. tile \in Surjection(block, tiles)
      <2>1. \A b \in block : tile[b] \in tiles
            BY <1>7 DEF KeysAt
      <2>2. \A t \in tiles : \E b \in block : tile[b] = t
            BY <1>7 DEF KeysAt
      <2> HIDE DEF tile
      <2>3. tile \in [block -> tiles]
        <3>1. tile = [b \in block |-> tile[b]]
              BY DEF tile
        <3>2. QED  BY <2>1, <3>1
      <2>4. QED  BY <2>2, <2>3 DEF Surjection
    <1>9. IsFiniteSet(tiles) /\ Cardinality(tiles) <= Cardinality(block)
          BY <1>5, <1>8, FS_Surjection
    <1>10. tiles # {}
      <2>1. MaxRouteTiles \in Nat /\ Cardinality(block) # 0
            BY <1>5, WorldGridAssumption
      <2>2. block # {}
            BY <2>1, FS_EmptySet
      <2>3. QED  BY <1>8, <2>2 DEF Surjection
    <1>11. Cardinality(tiles) \in Nat /\ Cardinality(tiles) # 0
          BY <1>9, <1>10, FS_CardinalityType, FS_EmptySet
    <1>12. QED  BY <1>5, <1>9, <1>11, WorldGridAssumption DEF tiles

\* The tiles of all outputs together, when every output has its share.
LEMMA SharesFit ==
    ASSUME NEW names \in SUBSET Outputs, NEW T,
           \A o \in names : IsFiniteSet(T[o]) /\ Cardinality(T[o]) \in 1 .. MaxRouteTiles
    PROVE  /\ IsFiniteSet(UNION { {o} \X T[o] : o \in names })
           /\ Cardinality(UNION { {o} \X T[o] : o \in names }) <= Cardinality(Outputs) * MaxRouteTiles
    <1> DEFINE all == UNION { {o} \X T[o] : o \in names }
               slots == Outputs \X (1 .. MaxRouteTiles)
               number(o) == CHOOSE f : f \in Injection(T[o], 1 .. MaxRouteTiles)
               slot == [p \in all |-> <<p[1], number(p[1])[p[2]]>>]
    <1>1. MaxRouteTiles \in Nat
          BY WorldGridAssumption
    <1>2. IsFiniteSet(slots) /\ Cardinality(slots) = Cardinality(Outputs) * MaxRouteTiles
      <2>1. IsFiniteSet(1 .. MaxRouteTiles) /\ Cardinality(1 .. MaxRouteTiles) = MaxRouteTiles
            BY <1>1, FS_Interval
      <2>2. QED  BY <2>1, FS_Product, WorldCacheAssumption
    <1>3. ASSUME NEW o \in names PROVE number(o) \in Injection(T[o], 1 .. MaxRouteTiles)
      <2>1. PICK m \in 1 .. MaxRouteTiles : m = Cardinality(T[o]) /\ IsFiniteSet(T[o])
            OBVIOUS
      <2>2. PICK f \in Bijection(T[o], 1 .. m) : TRUE
        <3>1. m \in Nat /\ IsFiniteSet(1 .. m) /\ Cardinality(1 .. m) = m
              BY <1>1, <2>1, FS_Interval
        <3>2. ExistsBijection(T[o], 1 .. m)
              BY <2>1, <3>1, FS_SameCardinalityBij
        <3>3. QED  BY <3>2 DEF ExistsBijection
      <2>3. f \in Injection(T[o], 1 .. MaxRouteTiles)
        <3>1. f \in [T[o] -> 1 .. m] /\ \A x, y \in T[o] : f[x] = f[y] => x = y
              BY <2>2 DEF Bijection, Injection, IsInjective
        <3>2. 1 .. m \subseteq 1 .. MaxRouteTiles
              BY <1>1, <2>1
        <3>3. f \in [T[o] -> 1 .. MaxRouteTiles]
              BY <3>1, <3>2
        <3>4. QED  BY <3>1, <3>3 DEF Injection, IsInjective
      <2>4. QED  BY <2>3
    <1> HIDE DEF number
    <1>4. \A p \in all : p = <<p[1], p[2]>> /\ p[1] \in names /\ p[2] \in T[p[1]]
          OBVIOUS
    <1>5. slot \in Injection(all, slots)
      <2>1. ASSUME NEW p \in all PROVE slot[p] = <<p[1], number(p[1])[p[2]]>> /\ slot[p] \in slots
        <3>1. number(p[1])[p[2]] \in 1 .. MaxRouteTiles
              BY <1>3, <1>4 DEF Injection, IsInjective
        <3>2. QED  BY <1>4, <3>1
      <2>2. ASSUME NEW p \in all, NEW q \in all, slot[p] = slot[q] PROVE p = q
        <3>1. p[1] = q[1] /\ number(p[1])[p[2]] = number(p[1])[q[2]]
              BY <2>1, <2>2
        <3>2. p[2] = q[2]
              BY <1>3, <1>4, <3>1 DEF Injection, IsInjective
        <3>3. QED  BY <1>4, <3>1, <3>2
      <2>3. slot \in [all -> slots]
            BY <2>1
      <2>4. QED  BY <2>2, <2>3 DEF Injection, IsInjective
    <1> HIDE DEF slot, slots
    <1>6. IsFiniteSet(all) /\ Cardinality(all) <= Cardinality(slots)
          BY <1>2, <1>5, FS_Injection
    <1>7. QED  BY <1>2, <1>6

(***************************************************************************)
(* From the gate to the renderer.  What the gate accepted can be planned   *)
(* and shown until the answer, unless something changes under it.          *)
(***************************************************************************)
IndexFile(n) == n = Manifest \/ \E lib \in Libraries : n = Snapshot(lib)
\* The supervisor finds this library in the index.
OnIndex(lib) ==
    /\ lib \in Libraries /\ lib \in At(Manifest).file.holds
    /\ IF lib = Library THEN mem = Library ELSE lib \in At(Snapshot(lib)).file.holds
Blurred == disturbed \/ \E n : IndexFile(n) /\ Torn \in At(n).file.holds
Showable(lib) ==
    /\ OnIndex(lib) /\ Plannable(lib, req.entries)
    /\ MissingTiles(PlanFor(lib, req.entries)) = {}
    /\ req.pc = "render" => req.plan = PlanFor(lib, req.entries)
Held ==
    req.pc \in {"plan", "render"} /\ req.action # "quarantine" =>
      Blurred \/ \E lib : Showable(lib)

LEMMA BlurredHolds ==
    ASSUME req' = req, Accepted => Blurred'
    PROVE  Held'
    BY DEF Held, Accepted

LEMMA AnsweredHolds ==
    ASSUME req'.pc \notin {"plan", "render"} \/ req'.action = "quarantine"
    PROVE  Held'
    BY DEF Held

LEMMA SameHolds ==
    ASSUME Held, UNCHANGED <<files, mem, at, req, disturbed>>, \A n : IsFile(n) => IsFile(n)',
           \A n : IndexFile(n) => At(n)'.file.holds = At(n).file.holds
    PROVE  Held'
    <1>1. Blurred => Blurred'
          BY DEF Blurred
    <1>2. ASSUME NEW lib, Showable(lib) PROVE Showable(lib)'
      <2>0. PICK plan : plan = PlanFor(lib, req.entries)
            OBVIOUS
      <2>1. Library' = Library
            BY DEF Library, Present
      <2>2. OnIndex(lib)'
        <3>1. OnIndex(lib)
              BY <1>2 DEF Showable
        <3>2. At(Manifest)'.file.holds = At(Manifest).file.holds
              BY DEF IndexFile
        <3>3. At(Snapshot(lib))'.file.holds = At(Snapshot(lib)).file.holds
              BY <3>1 DEF IndexFile, OnIndex
        <3>4. QED  BY <2>1, <3>1, <3>2, <3>3 DEF OnIndex
      <2>3. \A o, w : Route(lib, o, w)' = Route(lib, o, w)
            BY DEF Route
      <2>4. Plannable(lib, req.entries)'
            BY <1>2, <2>3 DEF Showable, Plannable, Present
      <2>5. PlanFor(lib, req.entries)' = plan
            BY <2>0, <2>3 DEF PlanFor
      <2>6. \A o : TilesOf(plan, o)' = TilesOf(plan, o)
            BY DEF TilesOf, CellKeys
      <2>7. MissingTiles(plan)' = {}
        <3>1. MissingTiles(plan) = {}
              BY <1>2, <2>0 DEF Showable
        <3>2. QED  BY <2>6, <3>1 DEF MissingTiles
      <2>8. req'.pc = "render" => req'.plan = plan
            BY <1>2, <2>0 DEF Showable
      <2>9. MissingTiles(PlanFor(lib, req.entries))' = {}
            BY <2>5, <2>7 DEF MissingTiles
      <2>10. QED  BY <2>2, <2>4, <2>5, <2>8, <2>9 DEF Showable
    <1>3. QED  BY <1>1, <1>2 DEF Held

\* A file without a torn reading is read as it is.
LEMMA ReadsWhole ==
    ASSUME DiskOK, NEW n, NEW c \in At(n).file.holds, Torn \notin Reads(n)
    PROVE  Reads(n) = {c}
    <1>1. FileOK(At(n).file)
          BY EveryEntry
    <1>2. QED  BY <1>1 DEF Reads, FileOK

LEMMA ReadFromDisk ==
    ASSUME NEW n, NEW c \in Reads(n)
    PROVE  n \in DOMAIN disk
    BY DEF Reads, At, Absent, NoFile

\* What the gate found in the index it finds again.
LEMMA FindsAgain ==
    ASSUME DiskOK, NEW lib, OnIndex(lib), \A n : Torn \notin Reads(n)
    PROVE  CacheSnapshots = {Use(lib)}
    <1>1. lib \in Libraries /\ lib # Torn
          BY LibraryNotTorn DEF OnIndex
    <1>2. Reads(Manifest) = {lib} /\ IsFile(Manifest)
          BY ReadsWhole DEF OnIndex, IsFile
    <1>3. CASE lib = Library
          BY <1>1, <1>2, <1>3 DEF CacheSnapshots, OnIndex
    <1>4. CASE lib # Library
      <2>1. lib \in At(Snapshot(lib)).file.holds
            BY <1>4 DEF OnIndex
      <2>2. Reads(Snapshot(lib)) = {lib} /\ IsFile(Snapshot(lib))
            BY <2>1, ReadsWhole DEF IsFile
      <2>3. IndexedSnapshot(lib) = {Use(lib)}
            BY <2>2 DEF IndexedSnapshot
      <2>4. CacheSnapshots = UNION { IndexedSnapshot(c) : c \in {lib} }
            BY <1>1, <1>2, <1>4 DEF CacheSnapshots
      <2>5. QED  BY <2>3, <2>4
    <1>5. QED  BY <1>3, <1>4

\* A plan that is made is made from the index.
LEMMA PlanIsIndexed ==
    ASSUME DiskOK, NEW entries, NEW plan \in RoutePlans(entries), plan.kind = "plan"
    PROVE  \E lib : OnIndex(lib) /\ Plannable(lib, entries) /\ plan = PlanFor(lib, entries)
    <1>1. PICK s \in CacheSnapshots : plan = RoutePlan(s, entries)
          BY DEF RoutePlans
    <1>2. s \in SnapshotType
          BY <1>1, CacheSnapshotsOK
    <1>3. s.kind = "use" /\ Plannable(s.lib, entries) /\ plan = PlanFor(s.lib, entries)
          BY <1>1, <1>2, RoutePlanIs
    <1>4. s.lib \in Libraries /\ s.lib # Torn
          BY <1>2, LibraryNotTorn DEF SnapshotType
    <1>5. OnIndex(s.lib)
      <2>1. /\ s.lib \in At(Manifest).file.holds
            /\ \/ s.lib = Library /\ mem = Library
               \/ s.lib # Library /\ s.lib \in Reads(Snapshot(s.lib))
            BY <1>1, <1>3, CacheSnapshotsOK
      <2>2. s.lib \in Reads(Snapshot(s.lib)) => s.lib \in At(Snapshot(s.lib)).file.holds
            BY <1>4 DEF Reads
      <2>3. QED  BY <1>4, <2>1, <2>2 DEF OnIndex
    <1>6. QED  BY <1>3, <1>5

LEMMA GateHolds ==
    ASSUME Shape, GateAccepts
    PROVE  Held'
    <1>1. PICK plan \in RoutePlans(req.entries) :
            /\ plan.kind = "plan" /\ MissingTiles(plan) = {}
            /\ req' = [req EXCEPT !.pc = IF req.action = "quarantine" THEN "move" ELSE "plan"]
          BY DEF GateAccepts
    <1>2. PICK lib : OnIndex(lib) /\ Plannable(lib, req.entries) /\ plan = PlanFor(lib, req.entries)
          BY <1>1, PlanIsIndexed DEF Shape
    <1>3. /\ req'.pc = IF req.action = "quarantine" THEN "move" ELSE "plan"
          /\ req'.action = req.action /\ req'.entries = req.entries
          BY <1>1 DEF Shape, RestOK, RequestType
    <1>4. UNCHANGED <<files, disk, mem, at>>
          BY DEF GateAccepts
    <1>5. CASE req.action = "quarantine"
          BY <1>3, <1>5, AnsweredHolds
    <1>6. CASE req.action # "quarantine"
      <2>1. Library' = Library /\ \A n : At(n)' = At(n)
            BY <1>4 DEF Library, Present, At
      <2>2. OnIndex(lib)'
            BY <1>2, <1>4, <2>1 DEF OnIndex
      <2>3. \A o, w : Route(lib, o, w)' = Route(lib, o, w)
            BY <1>4 DEF Route
      <2>4. Plannable(lib, req.entries)'
            BY <1>2, <1>3, <1>4, <2>3 DEF Plannable, Present
      <2>5. PlanFor(lib, req.entries)' = plan
            BY <1>2, <1>3, <2>3 DEF PlanFor
      <2>6. MissingTiles(plan)' = {}
        <3>1. \A o : TilesOf(plan, o)' = TilesOf(plan, o)
              BY <1>4 DEF TilesOf, CellKeys
        <3>2. \A n : IsFile(n)' = IsFile(n)
              BY <2>1 DEF IsFile
        <3>3. QED  BY <1>1, <3>1, <3>2 DEF MissingTiles
      <2>7. MissingTiles(PlanFor(lib, req.entries))' = {}
            BY <2>5, <2>6 DEF MissingTiles
      <2>8. req'.pc = "plan"
            BY <1>3, <1>6
      <2>9. Showable(lib)'
            BY <2>2, <2>4, <2>7, <2>8 DEF Showable
      <2>10. QED  BY <2>9 DEF Held
    <1>7. QED  BY <1>5, <1>6

LEMMA PlanHolds ==
    ASSUME Shape, Held, PlanAgain
    PROVE  Held'
    <1>1. PICK plan \in RoutePlans(req.entries) :
            IF plan.kind = "plan"
            THEN req' = [req EXCEPT !.pc = "render", !.plan = plan] /\ UNCHANGED <<files, warmed, disturbed>>
            ELSE Answered /\ RolledBack
          BY DEF PlanAgain
    <1>2. req.pc = "plan" /\ UNCHANGED <<disk, mem, at>>
          BY DEF PlanAgain
    <1>3. CASE plan.kind # "plan"
          BY <1>1, <1>3, AnsweredHolds DEF Answered, NoRequest
    <1>4. CASE plan.kind = "plan" /\ req.action = "quarantine"
          BY <1>1, <1>4, AnsweredHolds DEF Shape, RestOK, RequestType
    <1>5. CASE plan.kind = "plan" /\ req.action # "quarantine"
      <2>1. /\ req'.pc = "render" /\ req'.action = req.action /\ req'.entries = req.entries
            /\ req'.plan = plan /\ UNCHANGED <<files, disturbed>>
            BY <1>1, <1>5 DEF Shape, RestOK, RequestType
      <2>2. Library' = Library /\ \A n : At(n)' = At(n)
            BY <1>2, <2>1 DEF Library, Present, At
      <2>3. CASE Blurred
            BY <2>1, <2>2, <2>3 DEF Blurred, Held
      <2>4. ASSUME NEW lib, Showable(lib) PROVE Held'
        <3>1. OnIndex(lib) /\ Plannable(lib, req.entries) /\ MissingTiles(PlanFor(lib, req.entries)) = {}
              BY <2>4 DEF Showable
        <3>2. plan = PlanFor(lib, req.entries)
          <4>1. PICK l : OnIndex(l) /\ plan = PlanFor(l, req.entries)
                BY <1>1, <1>5, PlanIsIndexed DEF Shape
          <4>2. FileOK(At(Manifest).file)
                BY EveryEntry DEF Shape
          <4>3. l = lib
                BY <3>1, <4>1, <4>2 DEF OnIndex, FileOK
          <4>4. QED  BY <4>1, <4>3
        <3>3. OnIndex(lib)'
              BY <1>2, <2>2, <3>1 DEF OnIndex
        <3>4. \A o, w : Route(lib, o, w)' = Route(lib, o, w)
              BY <1>2 DEF Route
        <3>5. Plannable(lib, req.entries)'
              BY <1>2, <2>1, <3>1, <3>4 DEF Plannable, Present
        <3>6. PlanFor(lib, req.entries)' = plan
              BY <2>1, <3>2, <3>4 DEF PlanFor
        <3>7. MissingTiles(plan)' = {}
          <4>1. \A o : TilesOf(plan, o)' = TilesOf(plan, o)
                BY <2>1 DEF TilesOf, CellKeys
          <4>2. \A n : IsFile(n)' = IsFile(n)
                BY <2>2 DEF IsFile
          <4>3. QED  BY <3>1, <3>2, <4>1, <4>2 DEF MissingTiles
        <3>8. MissingTiles(PlanFor(lib, req.entries))' = {}
              BY <3>6, <3>7 DEF MissingTiles
        <3>9. Showable(lib)'
              BY <2>1, <3>3, <3>5, <3>6, <3>8 DEF Showable
        <3>10. QED  BY <3>9 DEF Held
      <2>5. QED  BY <1>2, <1>5, <2>3, <2>4 DEF Held
    <1>6. QED  BY <1>3, <1>4, <1>5

LEMMA BesideHolds ==
    ASSUME Shape, Held, Beside
    PROVE  Held'
    <1>1. CASE GateRefuses \/ GateWarms \/ GateFallsBack \/ Render \/ RenderRefused
      <2>1. req' = NoRequest
            BY <1>1 DEF GateRefuses, GateWarms, GateFallsBack, AnsweredWithout, Render, RenderRefused, Answered
      <2>2. QED  BY <2>1, AnsweredHolds DEF NoRequest
    <1>2. CASE Request
      <2>1. req'.pc = "gate"
            BY <1>2 DEF Request, NoRequest
      <2>2. QED  BY <2>1, AnsweredHolds
    <1>3. CASE GateAccepts
          BY <1>3, GateHolds
    <1>4. CASE MoveQuarantine
      <2>1. PICK w \in Quarantined : req' = [req EXCEPT !.pc = "plan", !.removed = <<w, files[w]>>]
            BY <1>4 DEF MoveQuarantine
      <2>2. req'.action = "quarantine"
            BY <2>1 DEF Quarantined, Shape, RestOK, RequestType
      <2>3. QED  BY <2>2, AnsweredHolds
    <1>5. CASE PlanAgain
          BY <1>5, PlanHolds
    <1>6. CASE FileAdded \/ FileRemoved \/ FileRewritten
      <2>1. req' = req /\ disturbed' = Accepted
            BY <1>6 DEF FileAdded, FileRemoved, FileRewritten, Changed
      <2>2. QED  BY <2>1, BlurredHolds DEF Blurred
    <1>7. CASE Rescan
      <2>1. req.pc = "idle" /\ req' = req
            BY <1>7 DEF Rescan
      <2>2. QED  BY <2>1, AnsweredHolds
    <1>8. CASE TimePasses \/ UNCHANGED vars \/ \E j \in Jobs : UserCompute(j)
      <2>1. UNCHANGED <<files, disk, mem, at, req, disturbed>>
            BY <1>8 DEF TimePasses, UserCompute, vars
      <2>2. \A n : At(n)' = At(n)
            BY <2>1 DEF At
      <2>3. QED  BY <2>1, <2>2, SameHolds DEF IsFile
    <1>9. QED  BY <1>1, <1>2, <1>3, <1>4, <1>5, <1>6, <1>7, <1>8 DEF Beside, Supervise

LEMMA JobHolds ==
    ASSUME Shape, Indexed, Held, NEW j \in Jobs, JobStep(j)
    PROVE  Held'
    <1>1. UNCHANGED <<files, mem, at, req>>
          BY DEF JobStep, CreateSnapshot, InstallSnapshot, CreateManifest, InstallManifest, ScanStatus,
                 ScanCells, ScanGrid, ScanKeys, GenerateCell, GenerateTile, Install, Finish, NoChange
    <1>2. CASE InstallSnapshot(j) \/ InstallManifest(j)
      <2>1. disturbed' = Accepted
            BY <1>2 DEF InstallSnapshot, InstallManifest
      <2>2. QED  BY <1>1, <2>1, BlurredHolds DEF Blurred
    <1>3. CASE ScanStatus(j) \/ ScanCells(j) \/ ScanGrid(j) \/ ScanKeys(j) \/ Finish(j)
      <2>1. disk' = disk /\ disturbed' = disturbed
            BY <1>3 DEF ScanStatus, ScanCells, ScanGrid, ScanKeys, Finish
      <2>2. \A n : At(n)' = At(n)
            BY <2>1 DEF At
      <2>3. QED  BY <1>1, <2>1, <2>2, SameHolds DEF IsFile
    <1>4. ASSUME NEW name, NEW content, Wrote(j, name, content), disturbed' = disturbed PROVE Held'
      <2>1. /\ \A n : At(n)'.file = At(n).file
            /\ \A n : IsFile(n) => IsFile(n)'
            BY <1>4, WroteKeeps, WroteStays
      <2>2. QED  BY <1>1, <1>4, <2>1, SameHolds
    <1>5. CASE CreateSnapshot(j) \/ CreateManifest(j)
      <2>1. disturbed' = disturbed
            BY <1>5 DEF CreateSnapshot, CreateManifest
      <2>2. QED  BY <1>4, <1>5, <2>1, CreateSnapshotDoes, CreateManifestDoes
    <1>6. CASE GenerateCell(j) \/ GenerateTile(j)
      <2>1. disturbed' = disturbed
            BY <1>6 DEF GenerateCell, GenerateTile
      <2>2. CASE disk' = disk
        <3>1. \A n : At(n)' = At(n)
              BY <2>2 DEF At
        <3>2. QED  BY <1>1, <2>1, <3>1, SameHolds DEF IsFile
      <2>3. \/ disk' = disk
            \/ \E name, content : Wrote(j, name, content)
            BY <1>6, GenerateCellDoes, GenerateTileDoes DEF ScanDoes
      <2>4. QED  BY <1>4, <2>1, <2>2, <2>3
    <1>7. CASE Install(j)
      <2>1. PICK name : name = jobs[j].writing
            OBVIOUS
      <2>2. Moved(j, name) /\ jobs[j].pc = "install" /\ disturbed' = disturbed
            BY <1>7, <2>1, InstallDoes DEF Install
      <2>3. Outside(name)
            BY <2>1, <2>2 DEF Indexed, Outside
      <2>4. \A n : IndexFile(n) => n # name
            BY <2>3, Kinds DEF IndexFile, Outside
      <2>5. \A n : n # name => At(n)' = At(n)
            BY <2>2, MovedKeeps DEF Shape
      <2>6. \A n : IsFile(n) => IsFile(n)'
            BY <2>2, MovedStays DEF Shape
      <2>7. QED  BY <1>1, <2>2, <2>4, <2>5, <2>6, SameHolds
    <1>8. QED  BY <1>2, <1>3, <1>5, <1>6, <1>7 DEF JobStep

LEMMA CrashHolds ==
    ASSUME Shape, Held, NEW j \in Jobs, JobCrash(j)
    PROVE  Held'
    <1>1. PICK torn \in BOOLEAN : \A n : At(n)' = Left(j, n, torn)
          BY JobCrashDoes
    <1>2. UNCHANGED <<files, mem, at, req, disturbed>>
          BY DEF JobCrash
    <1>3. \A n : At(n)'.file.holds = At(n).file.holds \/ At(n)'.file.holds = {Torn}
          BY <1>1, LeftKeeps DEF Shape
    <1>4. CASE \E n : IndexFile(n) /\ At(n)'.file.holds = {Torn}
      <2>1. PICK n : IndexFile(n) /\ At(n)'.file.holds = {Torn}
            BY <1>4
      <2>2. Blurred'
            BY <2>1 DEF Blurred, IndexFile
      <2>3. QED  BY <1>2, <2>2, BlurredHolds
    <1>5. CASE \A n : IndexFile(n) => At(n)'.file.holds = At(n).file.holds
          BY <1>1, <1>2, <1>5, LeftStays, SameHolds DEF Shape
    <1>6. QED  BY <1>3, <1>4, <1>5

LEMMA HeldStep ==
    ASSUME Shape, Indexed, Held, [Next]_vars
    PROVE  Held'
    BY Steps, BesideHolds, JobHolds, CrashHolds

\* Without a torn file there is only one way to read and show what was accepted.
LEMMA RendersHeld ==
    ASSUME Shape, Cardinality(Outputs) * MaxRouteTiles <= MaxRequestTiles,
           NEW lib, Showable(lib), req.pc = "render",
           \A n : Torn \notin Reads(n), \A o \in DOMAIN req.entries : req.entries[o] \notin Bad
    PROVE  ~MayFail(req.plan)
    <1> DEFINE plan == req.plan
    <1>1. /\ OnIndex(lib) /\ Plannable(lib, req.entries)
          /\ plan = PlanFor(lib, req.entries) /\ MissingTiles(plan) = {}
          BY DEF Showable
    <1>2. plan.lib = lib /\ DOMAIN plan.routes = DOMAIN req.entries
          BY <1>1 DEF PlanFor
    <1>3. KnowsSnapshot(lib) = {TRUE}
      <2>1. CASE IsFile(Snapshot(lib))
        <3>1. At(Snapshot(lib)).file.holds \subseteq {lib, Torn} /\ At(Snapshot(lib)).file.holds # {}
          <4>1. At(Snapshot(lib)) \in EntryType(Snapshot(lib)) /\ Contents(Snapshot(lib)) = {lib}
                BY <1>1, EveryEntry, NamesOK DEF Shape, OnIndex
          <4>2. QED  BY <2>1, <4>1 DEF EntryType, FileType, IsFile
        <3>2. Reads(Snapshot(lib)) = {lib}
          <4>1. Torn \notin Reads(Snapshot(lib))
                OBVIOUS
          <4>2. QED  BY <3>1, <4>1 DEF Reads
        <3>3. QED  BY <2>1, <3>2 DEF KnowsSnapshot
      <2>2. CASE ~IsFile(Snapshot(lib))
        <3>1. lib = Library
              BY <1>1, <2>2 DEF OnIndex, IsFile
        <3>2. QED  BY <2>2, <3>1 DEF KnowsSnapshot
      <2>3. QED  BY <2>1, <2>2
    <1> DEFINE tiles == [o \in DOMAIN req.entries |-> TilesOf(plan, o)]
    <1>4. WithinBudget(plan)
      <2>1. DOMAIN req.entries \in SUBSET Outputs
            BY RequestParts DEF Shape, RestOK
      <2>2. \A o \in DOMAIN req.entries : IsFiniteSet(tiles[o]) /\ Cardinality(tiles[o]) \in 1 .. MaxRouteTiles
            BY <1>1, TilesOfRoute DEF OnIndex
      <2>3. \A o \in DOMAIN plan.routes : Cardinality(TilesOf(plan, o)) \in 1 .. MaxRouteTiles
            BY <1>2, <2>2
      <2>4. UNION { {o} \X TilesOf(plan, o) : o \in DOMAIN plan.routes }
              = UNION { {o} \X tiles[o] : o \in DOMAIN req.entries }
            BY <1>2
      <2> DEFINE all == UNION { {o} \X tiles[o] : o \in DOMAIN req.entries }
      <2> HIDE DEF tiles
      <2>5. IsFiniteSet(all) /\ Cardinality(all) <= Cardinality(Outputs) * MaxRouteTiles
            BY <2>1, <2>2, SharesFit
      <2>6. Cardinality(all) <= MaxRequestTiles
        <3>1. Cardinality(all) \in Nat /\ Cardinality(Outputs) \in Nat
              BY <2>5, FS_CardinalityType, WorldCacheAssumption
        <3>2. Cardinality(Outputs) * MaxRouteTiles \in Nat /\ MaxRequestTiles \in Nat
              BY <3>1, WorldGridAssumption
        <3>3. QED  BY <2>5, <3>1, <3>2
      <2>7. QED  BY <2>3, <2>4, <2>6 DEF WithinBudget
    <1>5. \A o \in DOMAIN plan.routes : req.entries[o] \in Present \ Bad
      <2>1. ASSUME NEW o \in DOMAIN req.entries PROVE req.entries[o] \in Present \ Bad
        <3>1. InLibrary(lib, req.entries[o]) /\ \A i \in DOMAIN lib : lib[i] \in Present
              BY <1>1 DEF Plannable
        <3>2. req.entries[o] \in Present
              BY <3>1 DEF InLibrary
        <3>3. QED  BY <3>2
      <2>2. QED  BY <1>2, <2>1
    <1>6. \A i \in DOMAIN plan.lib : plan.lib[i] \in Present
          BY <1>1, <1>2 DEF Plannable
    <1> HIDE DEF plan
    <1>7. Loads(plan) = {TRUE}
      <2>1. ~\E o \in DOMAIN plan.routes : \E t \in TilesOf(plan, o) : Torn \in Reads(t)
            OBVIOUS
      <2>2. QED  BY <1>1, <1>4, <1>5, <1>6, <2>1, Zenon DEF Loads
    <1>8. ~MayFail(plan)
          BY <1>2, <1>3, <1>7 DEF MayFail
    <1>9. QED  BY <1>8 DEF plan

LEMMA RefusalExcused ==
    ASSUME Shape, Held, Cardinality(Outputs) * MaxRouteTiles <= MaxRequestTiles,
           Refused, req.action # "quarantine"
    PROVE  Excused
    <1>1. SUFFICES ASSUME ~Excused PROVE FALSE
          OBVIOUS
    <1>2. /\ ~disturbed
          /\ \A n : Torn \notin Reads(n)
          /\ \A o \in DOMAIN req.entries : req.entries[o] \notin Bad
      <2>1. \A n \in DOMAIN disk : Torn \notin Reads(n)
            BY <1>1 DEF Excused
      <2>2. QED  BY <1>1, <2>1, ReadFromDisk DEF Excused
    <1>3. ~Blurred
          BY <1>2 DEF Blurred, Reads
    <1>4. req.pc \in {"plan", "render"}
          BY DEF Refused, PlanAgain, RenderRefused
    <1>5. PICK lib : Showable(lib)
          BY <1>3, <1>4 DEF Held
    <1>6. CASE PlanAgain /\ req' = NoRequest
      <2>1. PICK plan \in RoutePlans(req.entries) :
              plan.kind = "plan" => req' = [req EXCEPT !.pc = "render", !.plan = plan]
            BY <1>6 DEF PlanAgain
      <2>2. PICK s \in CacheSnapshots : plan = RoutePlan(s, req.entries)
            BY <2>1 DEF RoutePlans
      <2>3. s = Use(lib) /\ lib \in Libraries
            BY <1>2, <1>5, <2>2, FindsAgain DEF Showable, OnIndex, Shape
      <2>4. plan = PlanFor(lib, req.entries)
            BY <1>5, <2>2, <2>3, AnswersOK, RoutePlanIs DEF Showable
      <2>5. plan.kind = "plan"
            BY <2>4 DEF PlanFor
      <2>6. req'.pc = "render"
            BY <2>1, <2>5 DEF Shape, RestOK, RequestType
      <2>7. QED  BY <1>6, <2>6 DEF NoRequest
    <1>7. CASE RenderRefused
      <2>1. req.pc = "render" /\ MayFail(req.plan)
            BY <1>7 DEF RenderRefused
      <2>2. ~MayFail(req.plan)
            BY <1>2, <1>5, <2>1, RendersHeld
      <2>3. QED  BY <2>1, <2>2
    <1>8. QED  BY <1>6, <1>7 DEF Refused

\* What the gate accepts is shown, when the request fits the budget of the
\* renderer whatever tiles its routes need: with the shares of the code, up to
\* two outputs.
THEOREM AcceptedIsShown ==
    ASSUME Cardinality(Outputs) * MaxRouteTiles <= MaxRequestTiles
    PROVE  Spec => AcceptedIsRendered
    <1>1. Init => Shape /\ Indexed /\ Clean /\ Held
      <2>1. Init => Held
            BY DEF Init, NoRequest, Held
      <2>2. QED  BY <2>1, InitShape, InitIndexed
    <1>2. Shape /\ Indexed /\ Clean /\ Held /\ [Next]_vars => (Shape /\ Indexed /\ Clean /\ Held)'
          BY ShapeStep, IndexedStep, HeldStep
    <1>3. Shape /\ Held => [Refused /\ req.action # "quarantine" => Excused]_req
          BY RefusalExcused
    <1>4. QED  BY <1>1, <1>2, <1>3, PTL DEF Spec, AcceptedIsRendered

(***************************************************************************)
(* Warm-ups.  The tool finds the level the daemon finds, and the tiles of  *)
(* that level are tiles of its pyramid.                                    *)
(***************************************************************************)
\* Cells and tiles along an axis.
LEMMA Along ==
    ASSUME NEW size \in Nat, NEW a \in Nat, NEW b \in Nat, a < size, b < size
    PROVE  LET first == ClampTo(Smaller(a, b) - 1, size)
               last  == ClampTo(Larger(a, b) + 1 + 1, size)
           IN first \in Nat /\ last \in Nat /\ first < last /\ last <= size
    BY DEF ClampTo, Smaller, Larger

LEMMA Touched ==
    ASSUME NEW first \in Nat, NEW last \in Nat, NEW size \in Nat, NEW edge \in Nat \ {0},
           first < last, last <= size
    PROVE  /\ first \div edge \in Nat /\ DivCeil(last, edge) \in Nat /\ DivCeil(size, edge) \in Nat
           /\ first \div edge <= DivCeil(last, edge) - 1
           /\ DivCeil(last, edge) <= DivCeil(size, edge)
    <1>1. first \div edge \in Nat
          OBVIOUS
    <1>2. /\ (last + edge - 1) \div edge \in Nat
          /\ first + edge <= last + edge - 1 /\ last + edge - 1 <= size + edge - 1
          OBVIOUS
    <1>3. \A x \in Nat, y \in Nat : x <= y => x \div edge <= y \div edge
          OBVIOUS
    <1>4. (first + edge) \div edge = first \div edge + 1
          OBVIOUS
    <1>5. QED  BY <1>1, <1>2, <1>3, <1>4 DEF DivCeil

LEMMA CellPlace ==
    ASSUME NEW n \in Nat, NEW columns \in Nat \ {0}, NEW i \in 0 .. n - 1
    PROVE  /\ i % columns \in Nat /\ i % columns < columns
           /\ i \div columns \in Nat /\ i \div columns < DivCeil(n, columns)
           /\ DivCeil(n, columns) \in Nat
    <1>1. i % columns \in 0 .. columns - 1 /\ i \div columns \in Nat
          OBVIOUS
    <1>2. (i + columns) \div columns = i \div columns + 1
          OBVIOUS
    <1>3. \A x \in Nat, y \in Nat : x <= y => x \div columns <= y \div columns
          OBVIOUS
    <1>4. i + columns <= n + columns - 1 /\ (n + columns - 1) \div columns \in Nat
          OBVIOUS
    <1>5. QED  BY <1>1, <1>2, <1>3, <1>4 DEF DivCeil

LEMMA LevelPositive ==
    ASSUME NEW lod \in Nat
    PROVE  LodCells[lod] \in Nat \ {0}
    <1> DEFINE Flat == { l \in Nat : LodCells[l] = 0 }
    <1>1. SUFFICES ASSUME Flat # {} PROVE FALSE
          BY LevelCells
    <1>2. PICK l \in Flat : \A m \in Flat : l <= m
          BY <1>1, LeastNumber
    <1>3. l # 0
          BY <1>2, LevelCells, WorldGridAssumption
    <1>4. l - 1 \in Nat /\ l - 1 \notin Flat
          BY <1>2, <1>3
    <1>5. PICK c \in Nat \ {0} : c = LodCells[l - 1]
          BY <1>4, LevelCells
    <1>6. LodCells[l] = Branching * c /\ Branching \in Nat \ {0}
          BY <1>2, <1>3, <1>5, LevelCells, WorldGridAssumption
    <1>7. Branching * c # 0
          BY <1>5, <1>6
    <1>8. QED  BY <1>2, <1>6, <1>7

\* Between two cells of the grid there are tiles, all of them in the grid.
LEMMA RouteInGrid ==
    ASSUME NEW n \in Counts, NEW s \in 0 .. n - 1, NEW t \in 0 .. n - 1, NEW edge \in Nat \ {0}
    PROVE  /\ RouteTiles(Grid[n], s, t, edge) # {}
           /\ \A b \in RouteTiles(Grid[n], s, t, edge) :
                /\ b.row \in 0 .. DivCeil(Grid[n].rows, edge) - 1
                /\ b.column \in 0 .. DivCeil(Grid[n].columns, edge) - 1
    <1>1. n \in Nat
          BY NumberOfWalls DEF Counts
    <1>2. PICK columns \in Nat \ {0} :
            /\ Grid[n] = [count |-> n, columns |-> columns, rows |-> DivCeil(n, columns)]
      <2>1. Grid[n] = [count |-> n, columns |-> AtLeastOne(AutoColumns(n)),
                       rows |-> DivCeil(n, AtLeastOne(AutoColumns(n)))]
            BY DEF Grid, Layout
      <2>2. QED  BY <2>1, GridOK
    <1> DEFINE rows == DivCeil(n, columns)
               range == RouteRange(Grid[n], s, t)
    <1>3. /\ s % columns \in Nat /\ s % columns < columns /\ s \div columns \in Nat /\ s \div columns < rows
          /\ t % columns \in Nat /\ t % columns < columns /\ t \div columns \in Nat /\ t \div columns < rows
          /\ rows \in Nat
          BY <1>1, CellPlace
    <1>4. range = [c0 |-> ClampTo(Smaller(s % columns, t % columns) - 1, columns),
                   c1 |-> ClampTo(Larger(s % columns, t % columns) + 1 + 1, columns),
                   r0 |-> ClampTo(Smaller(s \div columns, t \div columns) - 1, rows),
                   r1 |-> ClampTo(Larger(s \div columns, t \div columns) + 1 + 1, rows)]
      <2>1. n # 0
            BY <1>1
      <2>2. QED  BY <1>2, <2>1 DEF RouteRange, VisibleRange, Column, Row
    <1> HIDE DEF rows, range
    <1>5. /\ range.c0 \in Nat /\ range.c1 \in Nat /\ range.c0 < range.c1 /\ range.c1 <= columns
          /\ range.r0 \in Nat /\ range.r1 \in Nat /\ range.r0 < range.r1 /\ range.r1 <= rows
          BY <1>3, <1>4, Along
    <1>6. RouteTiles(Grid[n], s, t, edge) =
            [row    : range.r0 \div edge .. DivCeil(range.r1, edge) - 1,
             column : range.c0 \div edge .. DivCeil(range.c1, edge) - 1]
      <2>1. HasCell(Grid[n], s) /\ HasCell(Grid[n], t) /\ AtLeastOne(edge) = edge
            BY <1>2 DEF HasCell, AtLeastOne
      <2>2. RouteTiles(Grid[n], s, t, edge) = TilesForRange(range, edge)
            BY <2>1 DEF RouteTiles, range
      <2>3. ~(range.c0 >= range.c1 \/ range.r0 >= range.r1)
            BY <1>5
      <2>4. QED  BY <2>1, <2>2, <2>3 DEF TilesForRange
    <1>7. /\ range.r0 \div edge \in Nat /\ DivCeil(range.r1, edge) \in Nat /\ DivCeil(rows, edge) \in Nat
          /\ range.r0 \div edge <= DivCeil(range.r1, edge) - 1 /\ DivCeil(range.r1, edge) <= DivCeil(rows, edge)
          BY <1>3, <1>5, Touched
    <1>8. /\ range.c0 \div edge \in Nat /\ DivCeil(range.c1, edge) \in Nat /\ DivCeil(columns, edge) \in Nat
          /\ range.c0 \div edge <= DivCeil(range.c1, edge) - 1
          /\ DivCeil(range.c1, edge) <= DivCeil(columns, edge)
          BY <1>5, Touched
    <1>9. [row |-> range.r0 \div edge, column |-> range.c0 \div edge] \in RouteTiles(Grid[n], s, t, edge)
          BY <1>6, <1>7, <1>8
    <1>10. Grid[n].rows = rows /\ Grid[n].columns = columns
          BY <1>2 DEF rows
    <1>11. ASSUME NEW b \in RouteTiles(Grid[n], s, t, edge)
           PROVE  /\ b.row \in 0 .. DivCeil(rows, edge) - 1
                  /\ b.column \in 0 .. DivCeil(columns, edge) - 1
          BY <1>6, <1>7, <1>8
    <1>12. QED  BY <1>9, <1>10, <1>11

\* muralctl lays the cells out as the daemon does, finds the level the daemon
\* finds, and the tiles of the route are tiles of the pyramid.
LEMMA LevelsAgree ==
    ASSUME NEW n \in Counts, NEW s \in 0 .. n - 1, NEW t \in 0 .. n - 1
    PROVE  DaemonKeys[n][s][t] \subseteq ToolKeys[n][n][s][t] \cap Keys[n]
    <1>1. n \in Nat /\ s \in Indices /\ t \in Indices
          BY NumberOfWalls DEF Counts, Indices
    <1>2. ToolLayout[n][n] = Grid[n]
      <2>1. ToolLayout[n][n] = Layout(n, Grid[n].columns)
            BY DEF ToolLayout
      <2>2. Grid[n] = Layout(n, AutoColumns(n))
            BY DEF Grid
      <2>3. Grid[n].columns = AtLeastOne(AutoColumns(n)) /\ AtLeastOne(Grid[n].columns) = Grid[n].columns
            BY <2>2, GridOK DEF Layout, AtLeastOne
      <2>4. QED  BY <2>1, <2>2, <2>3 DEF Layout
    <1> DEFINE fits(lod) == FitsBudget(Grid[n], s, t, lod)
               lod == DaemonLod[n][s][t]
    <1>3. \A l \in Levels[n] : fits(l) <=> BuilderFits(Grid[n], s, t, l)
      <2>1. ASSUME NEW l \in Levels[n] PROVE fits(l) <=> BuilderFits(Grid[n], s, t, l)
        <3>1. PICK edge \in Nat \ {0} : edge = LodCells[l]
              BY LevelsOK, LevelPositive
        <3>2. IsFiniteSet(RouteTiles(Grid[n], s, t, edge)) /\ RouteTiles(Grid[n], s, t, edge) # {}
              BY <1>1, RouteTilesFinite, RouteInGrid
        <3>3. Cardinality(RouteTiles(Grid[n], s, t, edge)) \in Nat \ {0}
              BY <3>2, FS_CardinalityType, FS_EmptySet
        <3>4. QED  BY <3>1, <3>3, WorldGridAssumption DEF FitsBudget, BuilderFits
      <2>2. QED  BY <2>1
    <1>4. lod = RouteLod(Grid[n], s, t, Levels[n])
          BY <1>1 DEF DaemonLod
    <1>5. CASE lod = NoLod
          BY <1>1, <1>5 DEF DaemonKeys
    <1>6. CASE lod # NoLod
      <2>1. \E l \in Levels[n] : fits(l) /\ \A m \in Levels[n] : m < l => ~fits(m)
        <3> DEFINE Fitting == { l \in Levels[n] : fits(l) }
        <3>1. Fitting # {} /\ Fitting \in SUBSET Nat
              BY <1>4, <1>6, LevelsOK DEF RouteLod
        <3> HIDE DEF fits
        <3>2. PICK l \in Fitting : \A m \in Fitting : l <= m
              BY <3>1, LeastNumber
        <3>3. \A m \in Levels[n] : m < l => m \notin Fitting
              BY <3>1, <3>2, LevelsOK
        <3>4. QED  BY <3>2, <3>3
      <2>2. lod \in Levels[n] /\ fits(lod) /\ \A m \in Levels[n] : m < lod => ~fits(m)
            BY <1>4, <2>1 DEF RouteLod
      <2> DEFINE tool == BuilderLod(Grid[n], s, t, Levels[n])
      <2>3. \E l \in Levels[n] : /\ BuilderFits(Grid[n], s, t, l)
                                 /\ \A m \in Levels[n] : m < l => ~BuilderFits(Grid[n], s, t, m)
            BY <1>3, <2>1
      <2>4. /\ tool \in Levels[n] /\ BuilderFits(Grid[n], s, t, tool)
            /\ \A m \in Levels[n] : m < tool => ~BuilderFits(Grid[n], s, t, m)
            BY <2>3 DEF BuilderLod
      <2> HIDE DEF fits, lod, tool
      <2>5. tool = lod
        <3>1. lod \in Nat /\ tool \in Nat
              BY <2>2, <2>4, LevelsOK
        <3>2. ~(lod < tool) /\ ~(tool < lod)
              BY <1>3, <2>2, <2>4
        <3>3. QED  BY <3>1, <3>2
      <2>6. ToolLod[n][n][s][t] = lod
            BY <1>1, <1>2, <2>5 DEF ToolLod, tool
      <2>7. ToolKeys[n][n][s][t] = RouteKeys(Grid[n], s, t, lod)
            BY <1>1, <1>2, <1>6, <2>6 DEF ToolKeys
      <2>8. DaemonKeys[n][s][t] = RouteKeys(Grid[n], s, t, lod)
            BY <1>1, <1>6 DEF DaemonKeys, lod
      <2>9. RouteKeys(Grid[n], s, t, lod) \subseteq Keys[n]
        <3>1. PICK edge \in Nat \ {0} : edge = LodCells[lod]
              BY <2>2, LevelsOK, LevelPositive
        <3>2. ASSUME NEW b \in RouteTiles(Grid[n], s, t, edge)
              PROVE  [lod |-> lod, row |-> b.row, column |-> b.column] \in Keys[n]
          <4>1. /\ b.row \in 0 .. TileRows(Grid[n].rows, lod) - 1
                /\ b.column \in 0 .. TileColumns(Grid[n].columns, lod) - 1
                BY <3>1, <3>2, RouteInGrid DEF TileRows, TileColumns
          <4>2. lod \in Lods(Grid[n].columns, Grid[n].rows)
                BY <2>2 DEF Levels
          <4>3. QED  BY <4>1, <4>2 DEF Keys, PyramidKeys
        <3>3. QED  BY <3>1, <3>2 DEF RouteKeys, KeysAt
      <2>10. QED  BY <2>7, <2>8, <2>9
    <1>7. QED  BY <1>5, <1>6

\* What a compute owes to the routes it was started for: every tile of theirs is
\* still to do, in its hands or done.
Owes(job) ==
    /\ job.pc \in {"generate", "install"} /\ ~job.raced /\ ~job.failed
    /\ job.opts.kind = "route" /\ job.opts.limit = 0 /\ job.opts.tileLimit = 0
InWork(job, key) == key \in job.tilesTodo \/ (job.pc = "install" /\ job.writing = TileName(job, key))
Delivers(job) ==
    Owes(job) =>
      /\ job.keys = job.cells
      /\ \A r \in job.opts.routes : InCells(job.cells, r[1]) /\ InCells(job.cells, r[2])
      /\ \A key \in Keys[Len(job.grid)] \cap NeededKeys(job) : InWork(job, key) \/ IsFile(TileName(job, key))
Delivering == WarmupWarms /\ \A j \in Jobs : Delivers(jobs[j])

LEMMA FilesStay ==
    ASSUME Shape, [Next]_vars
    PROVE  \A n : IsFile(n) => IsFile(n)'
    <1>1. CASE disk' = disk
          BY <1>1 DEF IsFile, At
    <1>2. CASE Beside
          BY <1>1, <1>2, BesideSpares DEF Spares
    <1>3. ASSUME NEW j \in Jobs, JobCrash(j) PROVE \A n : IsFile(n) => IsFile(n)'
          BY <1>3, JobCrashDoes, LeftStays DEF Shape
    <1>4. ASSUME NEW j \in Jobs, JobStep(j) PROVE \A n : IsFile(n) => IsFile(n)'
      <2>1. CASE CreateSnapshot(j) \/ CreateManifest(j)
            BY <2>1, CreateSnapshotDoes, CreateManifestDoes, WroteStays
      <2>2. CASE InstallSnapshot(j) \/ InstallManifest(j) \/ Install(j)
            BY <2>2, InstallSnapshotDoes, InstallManifestDoes, InstallDoes, MovedStays DEF Shape
      <2>3. CASE ScanStatus(j) \/ ScanCells(j) \/ ScanGrid(j) \/ ScanKeys(j) \/ Finish(j)
            BY <1>1, <2>3 DEF ScanStatus, ScanCells, ScanGrid, ScanKeys, Finish
      <2>4. CASE GenerateCell(j)
            BY <1>1, <2>4, GenerateCellDoes, WroteStays DEF ScanDoes
      <2>5. CASE GenerateTile(j)
            BY <1>1, <2>5, GenerateTileDoes, WroteStays DEF ScanDoes
      <2>6. QED  BY <1>4, <2>1, <2>2, <2>3, <2>4, <2>5 DEF JobStep
    <1>5. QED  BY <1>2, <1>3, <1>4, Steps

LEMMA GoesOn ==
    ASSUME NEW j \in Jobs, Delivers(jobs[j]), \A n : IsFile(n) => IsFile(n)',
           Owes(jobs[j])' =>
             /\ Owes(jobs[j])
             /\ jobs'[j].opts = jobs[j].opts /\ jobs'[j].cells = jobs[j].cells
             /\ jobs'[j].status = jobs[j].status
             /\ jobs'[j].grid = jobs[j].grid /\ jobs'[j].keys = jobs[j].keys
             /\ \A key : InWork(jobs[j], key) => InWork(jobs[j], key)' \/ IsFile(TileName(jobs[j], key))'
    PROVE  Delivers(jobs[j])'
    <1>1. SUFFICES ASSUME Owes(jobs[j])'
                   PROVE  /\ jobs'[j].keys = jobs'[j].cells
                          /\ \A r \in jobs'[j].opts.routes :
                               InCells(jobs'[j].cells, r[1]) /\ InCells(jobs'[j].cells, r[2])
                          /\ \A key \in Keys[Len(jobs'[j].grid)] \cap NeededKeys(jobs[j])' :
                               InWork(jobs[j], key)' \/ IsFile(TileName(jobs[j], key))'
          BY DEF Delivers
    <1>2. /\ jobs[j].keys = jobs[j].cells
          /\ \A r \in jobs[j].opts.routes : InCells(jobs[j].cells, r[1]) /\ InCells(jobs[j].cells, r[2])
          /\ \A key \in Keys[Len(jobs[j].grid)] \cap NeededKeys(jobs[j]) :
               InWork(jobs[j], key) \/ IsFile(TileName(jobs[j], key))
          BY <1>1 DEF Delivers
    <1>3. NeededKeys(jobs[j])' = NeededKeys(jobs[j])
          BY <1>1 DEF NeededKeys, Index
    <1>4. ASSUME NEW key, IsFile(TileName(jobs[j], key)) PROVE IsFile(TileName(jobs[j], key))'
      <2>1. PICK name : name = TileName(jobs[j], key)
            OBVIOUS
      <2>2. TileName(jobs[j], key)' = name
            BY <1>1, <2>1 DEF TileName
      <2>3. IsFile(name)'
            BY <1>4, <2>1
      <2>4. QED  BY <2>2, <2>3 DEF IsFile, At
    <1>5. QED  BY <1>1, <1>2, <1>3, <1>4

LEMMA Waits ==
    ASSUME NEW j \in Jobs, Delivers(jobs[j]), \A n : IsFile(n) => IsFile(n)', jobs'[j] = jobs[j]
    PROVE  Delivers(jobs[j])'
    BY GoesOn DEF Owes, InWork, TileName

\* A compute that is not at work on its tiles owes nothing.
LEMMA OwesNothing ==
    ASSUME NEW j \in Jobs, jobs'[j].pc \notin {"generate", "install"}
    PROVE  Delivers(jobs[j])'
    BY DEF Delivers, Owes

LEMMA ChosenDelivers ==
    ASSUME Shape, NEW j \in Jobs, ScanKeys(j)
    PROVE  Delivers(jobs[j])'
    <1> DEFINE old  == jobs[j]
               with == WithKeys(jobs[j])
    <1>1. old \in JobType
          BY DEF Shape, JobsOK
    <1>2. /\ with.cells = old.cells /\ with.keys = CellKeys(Library) /\ with.opts = old.opts
          /\ with.status = old.status /\ with.grid = old.grid
          BY <1>1 DEF WithKeys, JobType
    <1>3. CASE ~Selectable(with)
      <2>1. jobs'[j] = Idle
            BY <1>3 DEF ScanKeys, WithKeys, Abort, SetJob, Shape, JobsOK
      <2>2. QED  BY <2>1, OwesNothing DEF Idle
    <1>4. CASE Selectable(with)
      <2> DEFINE new == Chosen(jobs[j])
      <2>1. jobs'[j] = new
            BY <1>4 DEF ScanKeys, WithKeys, Chosen, SetJob, Shape, JobsOK
      <2>2. /\ new.cells = with.cells /\ new.keys = with.keys /\ new.opts = with.opts
            /\ new.status = with.status /\ new.grid = with.grid
            /\ new.raced = ~Consistent(with) /\ new.tilesTodo = SelectedTiles(with)
            BY <1>1 DEF Chosen, WithKeys, JobType
      <2>3. SUFFICES ASSUME Owes(new)
                     PROVE  /\ new.keys = new.cells
                            /\ \A r \in new.opts.routes : InCells(new.cells, r[1]) /\ InCells(new.cells, r[2])
                            /\ \A key \in Keys[Len(new.grid)] \cap NeededKeys(new) : key \in new.tilesTodo
            BY <2>1 DEF Delivers, InWork
      <2> HIDE DEF new, with, old
      <2>4. Consistent(with)
            BY <2>2, <2>3 DEF Owes
      <2>5. new.keys = new.cells
            BY <1>2, <2>2, <2>4 DEF Consistent
      <2>6. \A r \in new.opts.routes : InCells(new.cells, r[1]) /\ InCells(new.cells, r[2])
        <3>1. ASSUME NEW r \in new.opts.routes PROVE r[1] \in NamedWalls(with.opts) /\ r[2] \in NamedWalls(with.opts)
              BY <2>2 DEF NamedWalls
        <3>2. QED  BY <1>4, <2>2, <3>1 DEF Selectable
      <2>7. NeededKeys(new) = NeededKeys(with)
            BY <2>2 DEF NeededKeys, Index
      <2>8. with.opts.kind = "route" /\ with.opts.limit = 0 /\ with.opts.tileLimit = 0
            BY <2>2, <2>3 DEF Owes
      <2>9. SelectedTiles(with) = Keys[Len(with.grid)] \cap NeededKeys(with)
            BY <2>8 DEF SelectedTiles
      <2>10. QED  BY <2>2, <2>5, <2>6, <2>7, <2>9
    <1>5. QED  BY <1>3, <1>4

LEMMA CellDelivers ==
    ASSUME Shape, [Next]_vars, NEW j \in Jobs, Delivers(jobs[j]), GenerateCell(j)
    PROVE  Delivers(jobs[j])'
    <1> DEFINE old == jobs[j]
    <1>1. old \in JobType /\ old.pc = "generate"
          BY DEF Shape, JobsOK, GenerateCell
    <1>2. jobs'[j] = CellSkipped(old) \/ jobs'[j] = CellDrawn(old)
          BY GenerateCellDoes DEF ScanDoes, Sets
    <1>3. /\ jobs'[j].opts = old.opts /\ jobs'[j].cells = old.cells /\ jobs'[j].status = old.status
          /\ jobs'[j].grid = old.grid /\ jobs'[j].keys = old.keys /\ jobs'[j].raced = old.raced
          /\ jobs'[j].tilesTodo = old.tilesTodo
          /\ old.failed => jobs'[j].failed
      <2>1. CASE jobs'[j] = CellDrawn(old)
            BY <1>1, <2>1 DEF CellDrawn, WithoutCell, JobType
      <2>2. CASE jobs'[j] = CellSkipped(old)
        <3>1. PICK f : /\ f = (old.failed \/ ~IsFile(Cell(NextCell(old))))
                       /\ jobs'[j] = [WithoutCell(old) EXCEPT !.failed = f]
          <4>1. WithoutCell(old).failed = old.failed
                BY <1>1 DEF WithoutCell, JobType
          <4>2. QED  BY <1>1, <2>2, <4>1 DEF CellSkipped, WithoutCell, JobType
        <3>2. QED  BY <1>1, <3>1 DEF WithoutCell, JobType
      <2>3. QED  BY <1>2, <2>1, <2>2
    <1>4. Owes(old)' => Owes(old) /\ \A key : InWork(old, key) => InWork(old, key)'
          BY <1>1, <1>3 DEF Owes, InWork
    <1>5. QED  BY <1>3, <1>4, FilesStay, GoesOn

LEMMA TileDelivers ==
    ASSUME Shape, [Next]_vars, NEW j \in Jobs, Delivers(jobs[j]), GenerateTile(j)
    PROVE  Delivers(jobs[j])'
    <1> DEFINE old == jobs[j]
    <1>1. old \in JobType /\ old.pc = "generate"
          BY DEF Shape, JobsOK, GenerateTile
    <1>2. PICK first, tile : first = First(old.tilesTodo) /\ tile = TileName(old, first)
          OBVIOUS
    <1>3. \/ IsFile(tile) /\ jobs'[j] = [old EXCEPT !.tilesTodo = @ \ {first}]
          \/ \E f : jobs'[j] = [old EXCEPT !.tilesTodo = @ \ {first}, !.pc = "install", !.writing = tile,
                                           !.failed = old.failed \/ f]
      <2>1. CASE IsFile(tile)
            BY <1>2, <2>1 DEF GenerateTile, SetJob, Shape, JobsOK
      <2>2. CASE ~IsFile(tile)
        <3> DEFINE done == [old EXCEPT !.tilesTodo = @ \ {first}]
        <3>1. PICK shows : SetJob(j, [done EXCEPT !.pc = "install", !.writing = tile,
                                        !.failed = @ \/ \E p \in DOMAIN shows : shows[p] = Hole])
              BY <1>2, <2>2 DEF GenerateTile
        <3>2. PICK f : f = \E p \in DOMAIN shows : shows[p] = Hole
              OBVIOUS
        <3>3. jobs'[j] = [done EXCEPT !.pc = "install", !.writing = tile, !.failed = @ \/ f]
              BY <3>1, <3>2 DEF SetJob, Shape, JobsOK
        <3>4. QED  BY <1>1, <3>3 DEF JobType
      <2>3. QED  BY <2>1, <2>2
    <1>4. /\ jobs'[j].opts = old.opts /\ jobs'[j].cells = old.cells /\ jobs'[j].status = old.status
          /\ jobs'[j].grid = old.grid /\ jobs'[j].keys = old.keys /\ jobs'[j].raced = old.raced
          /\ jobs'[j].tilesTodo = old.tilesTodo \ {first}
          /\ old.failed => jobs'[j].failed
          /\ IsFile(tile) \/ (jobs'[j].pc = "install" /\ jobs'[j].writing = tile)
          BY <1>1, <1>3 DEF JobType
    <1>5. \A n : IsFile(n) => IsFile(n)'
          BY FilesStay
    <1>6. ASSUME NEW k, InWork(old, k) PROVE InWork(old, k)' \/ IsFile(TileName(old, k))'
      <2>1. k \in old.tilesTodo
            BY <1>1, <1>6 DEF InWork
      <2>2. CASE k # first
            BY <1>4, <2>1, <2>2 DEF InWork
      <2>3. CASE k = first
        <3>1. TileName(old, k)' = tile
              BY <1>2, <1>4, <2>3 DEF TileName
        <3>2. CASE IsFile(tile)
          <4>1. IsFile(tile)'
                BY <1>5, <3>2
          <4>2. QED  BY <3>1, <4>1 DEF IsFile, At
        <3>3. CASE jobs'[j].pc = "install" /\ jobs'[j].writing = tile
              BY <3>1, <3>3 DEF InWork
        <3>4. QED  BY <1>4, <3>2, <3>3
      <2>4. QED  BY <2>2, <2>3
    <1>7. Owes(old)' => Owes(old)
          BY <1>1, <1>4 DEF Owes
    <1>8. QED  BY <1>4, <1>5, <1>6, <1>7, GoesOn

LEMMA InstallDelivers ==
    ASSUME Shape, [Next]_vars, NEW j \in Jobs, Delivers(jobs[j]), Install(j)
    PROVE  Delivers(jobs[j])'
    <1> DEFINE old == jobs[j]
    <1>1. old \in JobType /\ old.pc = "install" /\ Moved(j, old.writing)
          BY InstallDoes DEF Shape, JobsOK
    <1>2. PICK can : can = CanInstall(old.writing)
          OBVIOUS
    <1>3. jobs'[j] = [old EXCEPT !.pc = "generate", !.writing = Manifest, !.failed = @ \/ ~can]
          BY <1>2 DEF Install, SetJob, Shape, JobsOK
    <1>4. /\ jobs'[j].opts = old.opts /\ jobs'[j].cells = old.cells /\ jobs'[j].status = old.status
          /\ jobs'[j].grid = old.grid /\ jobs'[j].keys = old.keys /\ jobs'[j].raced = old.raced
          /\ jobs'[j].tilesTodo = old.tilesTodo
          /\ jobs'[j].failed = (old.failed \/ ~can)
          BY <1>1, <1>3 DEF JobType
    <1>5. Owes(old)' => Owes(old) /\ CanInstall(old.writing)
          BY <1>1, <1>2, <1>4 DEF Owes
    <1>6. ASSUME Owes(old)', NEW k, InWork(old, k) PROVE InWork(old, k)' \/ IsFile(TileName(old, k))'
      <2>1. CASE k \in old.tilesTodo
            BY <1>4, <2>1 DEF InWork
      <2>2. CASE old.writing = TileName(old, k)
        <3>1. PICK tile : tile = TileName(old, k)
              OBVIOUS
        <3>2. TileName(old, k)' = tile
              BY <1>4, <3>1 DEF TileName
        <3>3. At(tile)'.file.holds # {}
              BY <1>1, <1>5, <1>6, <2>2, <3>1, MovedKeeps DEF Shape, CanInstall
        <3>4. QED  BY <3>2, <3>3 DEF IsFile, At
      <2>3. QED  BY <1>6, <2>1, <2>2 DEF InWork
    <1>7. QED  BY <1>4, <1>5, <1>6, FilesStay, GoesOn

\* What a finished compute has delivered are the tiles the daemon looks for.
LEMMA FinishWarms ==
    ASSUME Shape, NEW j \in Jobs, Delivers(jobs[j]), Finish(j), Owes(jobs[j]), Consistent(jobs[j]),
           NEW r \in jobs[j].opts.routes,
           NEW key \in DaemonKeys[Len(Library)][IndexOf(Library, r[1])][IndexOf(Library, r[2])]
    PROVE  IsFile(Tile(Library, CellKeys(Library), key))
    <1> DEFINE job == jobs[j]
               lib == Library
               cells == CellKeys(Library)
    <1>1. /\ job.status = lib /\ job.grid = lib /\ job.cells = cells /\ job.keys = cells
          /\ InCells(cells, r[1]) /\ InCells(cells, r[2])
          /\ \A k \in Keys[Len(lib)] \cap NeededKeys(job) : InWork(job, k) \/ IsFile(TileName(job, k))
          BY DEF Delivers, Consistent
    <1>2. PICK n \in Counts : lib \in [1 .. n -> Walls] /\ Len(lib) = n /\ DOMAIN lib = 1 .. n
          BY LibraryOK, PathOrders
    <1>3. n \in Nat
          BY NumberOfWalls DEF Counts
    <1>4. DOMAIN cells = 1 .. n /\ Len(cells) = n /\ \A i \in 1 .. n : cells[i][1] = lib[i]
          BY <1>2, LibraryOK, CellKeysOK DEF Shape, RestOK
    <1>5. ASSUME NEW w, InCells(cells, w)
          PROVE  CellIndex(cells, w) = IndexOf(lib, w) /\ IndexOf(lib, w) \in 0 .. n - 1
      <2> HIDE DEF cells, lib
      <2>1. \E i \in 1 .. n : lib[i] = w
            BY <1>4, <1>5 DEF InCells
      <2>2. (CHOOSE i \in 1 .. n : lib[i] = w) \in 1 .. n
            BY <2>1
      <2>3. (CHOOSE i \in DOMAIN cells : cells[i][1] = w) = (CHOOSE i \in DOMAIN lib : lib[i] = w)
            BY <1>2, <1>4
      <2>4. CellIndex(cells, w) = IndexOf(lib, w)
            BY <2>3 DEF CellIndex, IndexOf
      <2>5. IndexOf(lib, w) = (CHOOSE i \in 1 .. n : lib[i] = w) - 1
            BY <1>2 DEF IndexOf
      <2>6. PICK i \in 1 .. n : i = (CHOOSE k \in 1 .. n : lib[k] = w)
            BY <2>2
      <2>7. IndexOf(lib, w) \in 0 .. n - 1
            BY <1>3, <2>5, <2>6
      <2>8. QED  BY <2>4, <2>7
    <1>6. PICK s \in 0 .. n - 1, t \in 0 .. n - 1 :
            /\ s = IndexOf(lib, r[1]) /\ t = IndexOf(lib, r[2])
            /\ s = Index(job, r[1]) /\ t = Index(job, r[2])
          BY <1>1, <1>5 DEF Index
    <1>7. key \in ToolKeys[n][n][s][t] \cap Keys[n]
          BY <1>2, <1>6, LevelsAgree
    <1>8. key \in NeededKeys(job)
      <2>1. NeededKeys(job) = UNION { ToolKeys[n][n][Index(job, q[1])][Index(job, q[2])] : q \in job.opts.routes }
            BY <1>1, <1>2, <1>4 DEF NeededKeys, Owes
      <2>2. key \in ToolKeys[n][n][Index(job, r[1])][Index(job, r[2])]
            BY <1>6, <1>7
      <2>3. QED  BY <2>1, <2>2
    <1>9. ~InWork(job, key)
          BY DEF Finish, InWork
    <1>10. QED  BY <1>1, <1>2, <1>7, <1>8, <1>9 DEF TileName

Warm(r) ==
    \A key \in DaemonKeys[Len(Library)][IndexOf(Library, r[1])][IndexOf(Library, r[2])] :
      IsFile(Tile(Library, CellKeys(Library), key))

LEMMA WarmsOn ==
    ASSUME files' = files, \A n : IsFile(n) => IsFile(n)', \A r \in warmed' : Warm(r)
    PROVE  WarmupWarms'
    <1>1. PICK lib, cells : lib = Library /\ cells = CellKeys(Library)
          OBVIOUS
    <1>2. Library' = lib /\ CellKeys(Library)' = cells
          BY <1>1 DEF Library, Present, CellKeys
    <1>3. ASSUME NEW r \in warmed', NEW key \in DaemonKeys[Len(lib)][IndexOf(lib, r[1])][IndexOf(lib, r[2])]
          PROVE  IsFile(Tile(lib, cells, key))'
      <2>1. PICK name : name = Tile(lib, cells, key)
            OBVIOUS
      <2>2. IsFile(name)
            BY <1>1, <1>3, <2>1 DEF Warm
      <2>3. IsFile(name)'
            BY <2>2
      <2>4. QED  BY <2>1, <2>3 DEF IsFile, At
    <1>4. QED  BY <1>2, <1>3 DEF WarmupWarms

\* A step beside the computes leaves the library as it is or forgets the routes.
LEMMA BesideWarms ==
    ASSUME Shape, Beside
    PROVE  warmed' = {} \/ (files' = files /\ warmed' = warmed)
    <1>1. ASSUME AnsweredWithout PROVE warmed' = {} \/ (files' = files /\ warmed' = warmed)
      <2>1. CASE Fallback /\ Quarantined = {}
        <3>1. files' = [w \in Walls |-> files[w]] /\ warmed' = warmed
              BY <1>1, <2>1 DEF AnsweredWithout, WithoutWalls
        <3>2. QED  BY <3>1 DEF Shape, RestOK
      <2>2. QED  BY <1>1, <2>1 DEF AnsweredWithout
    <1>2. ASSUME RolledBack PROVE warmed' = {} \/ (files' = files /\ warmed' = warmed)
          BY <1>2 DEF RolledBack, RolledBackFiles
    <1>3. CASE GateWarms \/ GateFallsBack
          BY <1>1, <1>3 DEF GateWarms, GateFallsBack
    <1>4. CASE PlanAgain \/ RenderRefused
          BY <1>2, <1>4 DEF PlanAgain, RenderRefused
    <1>5. CASE MoveQuarantine \/ FileAdded \/ FileRemoved \/ FileRewritten
          BY <1>5 DEF MoveQuarantine, FileAdded, FileRemoved, FileRewritten, Changed
    <1>6. CASE \/ Request \/ GateAccepts \/ GateRefuses \/ Render \/ TimePasses \/ Rescan \/ UNCHANGED vars
               \/ \E j \in Jobs : UserCompute(j)
          BY <1>6 DEF Request, GateAccepts, GateRefuses, Render, TimePasses, Rescan, UserCompute, vars
    <1>7. QED  BY <1>3, <1>4, <1>5, <1>6 DEF Beside, Supervise

LEMMA StepDelivers ==
    ASSUME Shape, [Next]_vars, NEW j \in Jobs, JobStep(j), Delivers(jobs[j])
    PROVE  Delivers(jobs[j])'
    <1>1. CASE CreateSnapshot(j) \/ InstallSnapshot(j) \/ CreateManifest(j) \/ InstallManifest(j)
               \/ ScanStatus(j) \/ ScanCells(j) \/ ScanGrid(j) \/ Finish(j)
      <2> DEFINE old == jobs[j]
      <2>1. old \in JobType /\ \A job : SetJob(j, job) => jobs'[j] = job
            BY DEF Shape, JobsOK, SetJob
      <2>2. CASE CreateSnapshot(j)
        <3>1. jobs'[j] = [old EXCEPT !.pc = "snapshot", !.lib = Library]
              BY <2>1, <2>2 DEF CreateSnapshot
        <3>2. QED  BY <2>1, <3>1, OwesNothing DEF JobType
      <2>3. CASE InstallSnapshot(j)
        <3>1. jobs'[j] = [old EXCEPT !.pc = "manifest"] \/ jobs'[j] = Idle
              BY <2>1, <2>3 DEF InstallSnapshot, Abort
        <3>2. [old EXCEPT !.pc = "manifest"].pc = "manifest" /\ Idle.pc = "idle"
              BY <2>1 DEF JobType, Idle
        <3>3. jobs'[j].pc \notin {"generate", "install"}
              BY <3>1, <3>2
        <3>4. QED  BY <3>3, OwesNothing
      <2>4. CASE CreateManifest(j)
        <3>1. jobs'[j] = [old EXCEPT !.pc = "manifest tmp"]
              BY <2>1, <2>4 DEF CreateManifest
        <3>2. QED  BY <2>1, <3>1, OwesNothing DEF JobType
      <2>5. CASE InstallManifest(j)
        <3>1. jobs'[j] = [old EXCEPT !.pc = "status", !.lib = <<>>] \/ jobs'[j] = Idle
              BY <2>1, <2>5 DEF InstallManifest, Abort
        <3>2. [old EXCEPT !.pc = "status", !.lib = <<>>].pc = "status" /\ Idle.pc = "idle"
              BY <2>1 DEF JobType, Idle
        <3>3. jobs'[j].pc \notin {"generate", "install"}
              BY <3>1, <3>2
        <3>4. QED  BY <3>3, OwesNothing
      <2>6. CASE ScanStatus(j)
        <3>1. jobs'[j] = [old EXCEPT !.pc = "cells", !.status = Library]
              BY <2>1, <2>6 DEF ScanStatus
        <3>2. QED  BY <2>1, <3>1, OwesNothing DEF JobType
      <2>7. CASE ScanCells(j)
        <3>1. jobs'[j] = [old EXCEPT !.pc = "grid", !.cells = CellKeys(Library)]
              BY <2>1, <2>7 DEF ScanCells
        <3>2. QED  BY <2>1, <3>1, OwesNothing DEF JobType
      <2>8. CASE ScanGrid(j)
        <3>1. jobs'[j] = [old EXCEPT !.pc = "keys", !.grid = Library]
              BY <2>1, <2>8 DEF ScanGrid
        <3>2. QED  BY <2>1, <3>1, OwesNothing DEF JobType
      <2>9. CASE Finish(j)
        <3>1. jobs'[j] = Idle
              BY <2>1, <2>9 DEF Finish, Abort
        <3>2. QED  BY <3>1, OwesNothing DEF Idle
      <2>10. QED  BY <1>1, <2>2, <2>3, <2>4, <2>5, <2>6, <2>7, <2>8, <2>9
    <1>2. CASE ScanKeys(j)
          BY <1>2, ChosenDelivers
    <1>3. CASE GenerateCell(j)
          BY <1>3, CellDelivers
    <1>4. CASE GenerateTile(j)
          BY <1>4, TileDelivers
    <1>5. CASE Install(j)
          BY <1>5, InstallDelivers
    <1>6. QED  BY <1>1, <1>2, <1>3, <1>4, <1>5 DEF JobStep

LEMMA DeliveringStep ==
    ASSUME Shape, Delivering, [Next]_vars
    PROVE  Delivering'
    <1>1. /\ \A r \in warmed : Warm(r)
          /\ \A j \in Jobs : Delivers(jobs[j])
          BY DEF Delivering, WarmupWarms, Warm
    <1>2. \A n : IsFile(n) => IsFile(n)'
          BY FilesStay
    <1>3. WarmupWarms'
      <2>1. CASE Beside
        <3>1. CASE warmed' = {}
              BY <3>1 DEF WarmupWarms
        <3>2. CASE files' = files /\ warmed' = warmed
              BY <1>1, <1>2, <3>2, WarmsOn
        <3>3. QED  BY <2>1, <3>1, <3>2, BesideWarms
      <2>2. ASSUME NEW j \in Jobs, JobCrash(j) PROVE WarmupWarms'
        <3>1. files' = files /\ warmed' = warmed
              BY <2>2 DEF JobCrash
        <3>2. QED  BY <1>1, <1>2, <3>1, WarmsOn
      <2>3. ASSUME NEW j \in Jobs, JobStep(j) PROVE WarmupWarms'
        <3>1. files' = files
              BY <2>3 DEF JobStep, CreateSnapshot, InstallSnapshot, CreateManifest, InstallManifest, ScanStatus,
                          ScanCells, ScanGrid, ScanKeys, GenerateCell, GenerateTile, Install, Finish, NoChange
        <3>2. CASE warmed' = warmed
              BY <1>1, <1>2, <3>1, <3>2, WarmsOn
        <3>3. CASE warmed' # warmed
          <4>1. Finish(j)
                BY <2>3, <3>3 DEF JobStep, CreateSnapshot, InstallSnapshot, CreateManifest, InstallManifest,
                          ScanStatus, ScanCells, ScanGrid, ScanKeys, GenerateCell, GenerateTile, Install
          <4>2. warmed' = warmed \cup jobs[j].opts.routes /\ Owes(jobs[j]) /\ Consistent(jobs[j])
                BY <3>3, <4>1 DEF Finish, Owes
          <4>3. \A r \in jobs[j].opts.routes : Warm(r)
                BY <1>1, <4>1, <4>2, FinishWarms DEF Warm
          <4>4. QED  BY <1>1, <1>2, <3>1, <4>2, <4>3, WarmsOn
        <3>4. QED  BY <3>2, <3>3
      <2>4. QED  BY <2>1, <2>2, <2>3, Steps
    <1>4. ASSUME NEW j \in Jobs PROVE Delivers(jobs[j])'
      <2>1. CASE jobs'[j] = jobs[j]
            BY <1>1, <1>2, <2>1, Waits
      <2>2. CASE Beside
        <3>1. jobs'[j] = jobs[j] \/ \E opts \in OptionType : jobs'[j] = Started(opts)
              BY <2>2, BesideSpares DEF Spares, MayStart
        <3>2. jobs'[j] = jobs[j] \/ jobs'[j].pc = "index"
              BY <3>1 DEF Started, Idle
        <3>3. QED  BY <2>1, <3>2, OwesNothing
      <2>3. ASSUME NEW k \in Jobs, JobCrash(k) PROVE Delivers(jobs[j])'
        <3>1. jobs'[j] = Idle \/ jobs'[j] = jobs[j]
              BY <2>3 DEF JobCrash, Abort, SetJob, Shape, JobsOK
        <3>2. QED  BY <2>1, <3>1, OwesNothing DEF Idle
      <2>4. ASSUME NEW k \in Jobs, JobStep(k) PROVE Delivers(jobs[j])'
        <3>1. CASE k = j
              BY <1>1, <2>4, <3>1, StepDelivers
        <3>2. CASE k # j
          <4>1. jobs'[j] = jobs[j]
                BY <2>4, <3>2 DEF JobStep, CreateSnapshot, InstallSnapshot, CreateManifest, InstallManifest,
                   ScanStatus, ScanCells, ScanGrid, ScanKeys, GenerateCell, GenerateTile, Install, Finish,
                   Abort, SetJob, Shape, JobsOK
          <4>2. QED  BY <2>1, <4>1
        <3>3. QED  BY <3>1, <3>2
      <2>5. QED  BY <2>2, <2>3, <2>4, Steps
    <1>5. QED  BY <1>3, <1>4 DEF Delivering

\* A route whose warm-up finished without a failure stays warm: as long as the
\* library is as it was, the tiles that the daemon looks for are files, whatever
\* the size of the library, the level the route needs, the budget and whoever
\* computes beside it.
THEOREM WarmupsWarm == Spec => []WarmupWarms
    <1>1. Init => Shape /\ Delivering
      <2>1. Init => WarmupWarms
            BY DEF Init, WarmupWarms
      <2>2. Init => \A j \in Jobs : Delivers(jobs[j])
            BY DEF Init, Idle, Delivers, Owes
      <2>3. QED  BY <2>1, <2>2, InitShape DEF Delivering
    <1>2. Shape /\ Delivering /\ [Next]_vars => (Shape /\ Delivering)'
          BY ShapeStep, DeliveringStep
    <1>3. Delivering => WarmupWarms
          BY DEF Delivering
    <1>4. QED  BY <1>1, <1>2, <1>3, PTL DEF Spec
=============================================================================
