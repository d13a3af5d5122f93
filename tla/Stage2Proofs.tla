------------------------------ MODULE Stage2Proofs ------------------------------
(***************************************************************************)
(* The second boot loader, for every geometry, every disk and every read   *)
(* error: its variables keep their types, a file that fits is loaded       *)
(* without touching what lies below it, the kernel that runs is the file,  *)
(* and each step leaves less to do.                                        *)
(***************************************************************************)
EXTENDS Stage2, Fat12Proofs

-----------------------------------------------------------------------------
(* The inductive invariant of the second loader.                           *)

\* A read has sectors and attempts left, and a cluster whose first sector was
\* read is one the BIOS finds.
Reading ==
  /\ pc = "read" =>
       /\ left # 0 /\ di # 0 /\ failed = 5 - di /\ return # "root"
       /\ return = "next" =>
            /\ left <= SectorPerCluster
            /\ IF left = SectorPerCluster THEN lba = ClusterLBA(cluster)
                                          ELSE cluster \in Readable
  /\ pc = "next" => cluster \in Readable

\* How far the loader has come with a file that fits.
InTable ==
  /\ es = FatCell /\ bx + left = FatSectors /\ lba = ReservedSector + bx
  /\ TableAt(mem, FatCell, bx)
  /\ ecx = 0 /\ cluster = disk.file[1]
InCluster ==
  /\ es = 0 /\ left <= SectorPerCluster
  /\ bx = ImageCell + (ecx * SectorPerCluster - left)
  /\ lba = ClusterLBA(cluster) + (SectorPerCluster - left)
  /\ ecx \in 1..Len(disk.file) /\ cluster = disk.file[ecx]
  /\ TableAt(mem, FatCell, FatSectors) /\ FileAt(mem, ImageCell, disk.file, ecx * SectorPerCluster - left)
AtCluster ==
  /\ ecx > 0 => bx = ImageCell + ecx * SectorPerCluster
  /\ TableAt(mem, FatCell, FatSectors) /\ FileAt(mem, ImageCell, disk.file, ecx * SectorPerCluster)

Loading ==
  /\ pc \in {"root", "find"} => ecx = 0
  /\ pc = "read" /\ return = "find" => es = RootCell /\ ecx = 0
  /\ pc = "read" /\ return = "image" => InTable
  /\ pc = "read" /\ return = "next" => InCluster
  /\ pc = "fat" => ecx = 0 /\ cluster = disk.file[1]
  /\ pc = "image" => /\ AtCluster /\ ecx < Len(disk.file)
                     /\ cluster = disk.file[ecx + 1]
  /\ pc = "next" => /\ AtCluster /\ ecx \in 1..Len(disk.file)
                    /\ cluster = disk.file[ecx]
  /\ pc = "stage_3" => /\ ecx = Len(disk.file)
                       /\ FileAt(mem, ImageCell, disk.file, ecx * SectorPerCluster)
  /\ pc \in {"test", "kernel"} /\ SectorPerCluster = 1 =>
       FileAt(mem, KernelCell, disk.file, Len(disk.file))

\* A disk without the file is only read for its directory.
Absence ==
  /\ pc \in {"root", "read", "find", "lost", "int_18"}
  /\ pc = "read" => return = "find" /\ es = RootCell

Stage2Inv ==
  /\ TypeOK /\ Reading /\ LowMemoryKept
  /\ Fits => Loading
  /\ disk.start = Absent => Absence

-----------------------------------------------------------------------------
(* The disk.                                                               *)

\* The sectors of the disk have numbers of 16 bits.
LEMMA Geometry ==
  /\ SectorPerCluster \in Nat /\ 0 < SectorPerCluster
  /\ FatSectors \in Nat /\ 0 < FatSectors
  /\ RootSectors \in Nat /\ 0 < RootSectors
  /\ RootStart = ReservedSector + FatSectors /\ datasector = RootStart + RootSectors
  /\ ReservedSector \in Nat /\ RootStart \in Nat /\ datasector \in Nat
  /\ DiskSectors \in Nat /\ datasector <= DiskSectors /\ DiskSectors < 65536
<1>1. DiskSectors \in Nat /\ datasector <= DiskSectors /\ DiskSectors < 65536
  BY Stage2Assumption DEF Reachable, WORD
<1> QED BY <1>1, Sizes

LEMMA OnDisk == \A d \in Disks : DiskOK(d, MaxClusters, DiskSectors)
BY Stage2Assumption

LEMMA Layout ==
  /\ ImageCell \in Nat /\ FatCell \in Nat /\ RootCell \in Nat /\ KernelCell \in Nat
  /\ SegmentCells \in Nat /\ TopCell \in Nat
  /\ ImageCell < FatCell /\ ImageCell <= RootCell
  /\ FatCell + FatSectors <= SegmentCells /\ SegmentCells <= KernelCell
  /\ MaxClusters \in Nat /\ 0 < MaxClusters
  /\ KernelCell + MaxClusters <= TopCell
<1>1. /\ ImageCell \in Nat /\ FatCell \in Nat /\ RootCell \in Nat /\ KernelCell \in Nat
      /\ SegmentCells \in Nat /\ TopCell \in Nat
      /\ ImageCell < FatCell /\ ImageCell <= RootCell
      /\ FatCell + FatSectors <= SegmentCells /\ SegmentCells <= KernelCell
      /\ MaxClusters \in Nat /\ 0 < MaxClusters
      /\ KernelCell + MaxClusters * SectorPerCluster <= TopCell
  BY Stage2Assumption DEF FatSectors
<1>2. \A a, b \in Nat : 0 < b => a * b \in Nat /\ a <= a * b
  OBVIOUS
<1>3. MaxClusters * SectorPerCluster \in Nat /\ MaxClusters <= MaxClusters * SectorPerCluster
  BY <1>1, <1>2, Geometry
<1> QED BY <1>1, <1>3

\* The BIOS is asked for a sector of the disk.
LEMMA SectorIn == \A n \in 0..DiskSectors : Sector(n) = n
<1> SUFFICES ASSUME NEW n \in 0..DiskSectors PROVE Sector(n) = n
  OBVIOUS
<1>1. n \in Reachable
  BY Stage2Assumption, Fat12Assumption DEF Reachable, BYTE
<1> QED BY <1>1, SectorFound DEF Sector

\* The word at the entry of a cluster is the entry while the table is in memory.
LEMMA WordIs ==
  ASSUME TypeOK, NEW c \in Nat, EntryStored(disk, c), TableAt(mem, FatCell, FatSectors)
  PROVE  \A w \in Words(EntryOffset(c)) : TwelveBits(c, w) = disk.fat[c]
<1> DEFINE k == EntryOffset(c)
<1>1. \A j \in {k, k + 1} : j \div BytesPerSector \in 0..(FatSectors - 1)
  BY EntrySectors
<1> HIDE DEF k
<1>4. Intact(k) /\ Intact(k + 1)
  BY <1>1 DEF Intact, TableAt
<1>5. Words(k) = {FatByte(disk.fat, k) + 256 * FatByte(disk.fat, k + 1)}
  BY <1>4 DEF Words
<1>6. TwelveBits(c, FatByte(disk.fat, k) + 256 * FatByte(disk.fat, k + 1)) = disk.fat[c]
  BY EntryRead DEF EntryStored, k
<1> QED BY <1>5, <1>6 DEF k

\* Whatever the word is, twelve bits of it name an entry of a table.
LEMMA WordTyped ==
  ASSUME TypeOK, cluster \in Readable, NEW w \in Words(EntryOffset(cluster))
  PROVE  TwelveBits(cluster, w) \in TableEntries
<1>1. cluster \in TableEntries /\ cluster \in Nat /\ disk \in Disks
  BY DEF TypeOK, Readable, TableEntries
<1>2. EntryStored(disk, cluster)
  BY <1>1, Stage2Assumption
<1>3. CASE w \in StrayWords
  <2>1. w \in 0..(WORD - 1)
    BY <1>3, Stage2Assumption
  <2>2. w \in Nat /\ w < 65536
    BY <2>1 DEF WORD
  <2>3. w \div 16 \in TableEntries
    BY <2>2 DEF TableEntries
  <2>4. w % 4096 \in TableEntries
    BY <2>2 DEF TableEntries
  <2> QED BY <2>3, <2>4 DEF TwelveBits
<1>4. CASE w = FatByte(disk.fat, EntryOffset(cluster))
               + 256 * FatByte(disk.fat, EntryOffset(cluster) + 1)
  <2>1. TwelveBits(cluster, w) = disk.fat[cluster]
    BY <1>1, <1>2, <1>4, EntryRead DEF EntryStored
  <2>2. cluster = 2 * (cluster \div 2) \/ cluster = 2 * (cluster \div 2) + 1
    BY <1>1
  <2> QED BY <1>2, <2>1, <2>2 DEF EntryStored
<1> QED BY <1>3, <1>4 DEF Words

-----------------------------------------------------------------------------
(* Memory.                                                                 *)

\* While a file that fits is loaded, nothing behind the table and below the image
\* is a buffer.
LEMMA FitsMeans ==
  ASSUME TypeOK, Fits
  PROVE  /\ disk \in Disks /\ disk.file \in Seq(ClusterNumbers)
         /\ Len(disk.file) \in Nat /\ 0 < Len(disk.file)
         /\ Len(disk.file) < MaxClusters
         /\ disk.file[1] = disk.start
         /\ \A n \in 0..Len(disk.file) :
              /\ n * SectorPerCluster \in Nat
              /\ ImageCell + n * SectorPerCluster <= FatCell
<1>1. /\ disk \in Disks /\ disk.file \in Seq(ClusterNumbers)
      /\ Len(disk.file) \in Nat /\ 0 < Len(disk.file)
      /\ Len(disk.file) < MaxClusters
      /\ disk.file[1] = disk.start
  BY FileStarts, OnDisk DEF Fits, TypeOK
<1>2. ASSUME NEW n \in 0..Len(disk.file)
      PROVE  /\ n * SectorPerCluster \in Nat
             /\ ImageCell + n * SectorPerCluster <= FatCell
  <2> DEFINE x == n * SectorPerCluster
             y == Len(disk.file) * SectorPerCluster
  <2>1. n \in Nat /\ n <= Len(disk.file)
    BY <1>1
  <2>2. \A a, b \in Nat : a <= b => a * SectorPerCluster <= b * SectorPerCluster
                                    /\ a * SectorPerCluster \in Nat
                                    /\ b * SectorPerCluster \in Nat
    BY Geometry
  <2>3. x \in Nat /\ y \in Nat /\ x <= y
    BY <1>1, <2>1, <2>2
  <2>4. ImageCell + y <= FatCell
    BY DEF Fits
  <2> HIDE DEF x, y
  <2>5. ImageCell + x <= FatCell
    BY <2>3, <2>4, Layout
  <2> QED BY <2>3, <2>5 DEF x
<1> QED BY <1>1, <1>2

-----------------------------------------------------------------------------
(* The steps.                                                              *)

LEMMA LowKept ==
  ASSUME TypeOK, LowMemoryKept, disk' = disk,
         Fits \/ disk.start = Absent => \A c \in 0..(ImageCell - 1) : mem'[c] = mem[c]
  PROVE  LowMemoryKept'
BY DEF LowMemoryKept, Fits

LEMMA InitStage2 == Init => Stage2Inv
<1> SUFFICES ASSUME Init PROVE Stage2Inv
  OBVIOUS
<1>1. /\ pc = "root" /\ disk \in Disks /\ mem = [c \in Cells |-> Other]
      /\ lba = 0 /\ left = 0 /\ es = 0 /\ bx = 0 /\ di = 0 /\ failed = 0
      /\ return = "root" /\ ax = 0 /\ cluster = 0 /\ ecx = 0
  BY DEF Init
<1>2. TypeOK
  <2>1. mem \in [Cells -> 0..(DiskSectors - 1) \cup {Other}]
    BY <1>1
  <2>2. bx \in 0..(SegmentCells - 1) /\ ecx \in 0..MaxClusters
    BY <1>1, Layout, Geometry
  <2>3. ax \in -1..RootEntries
    BY <1>1, Fat12Assumption
  <2>4. cluster \in TableEntries /\ lba \in 0..(WORD - 1)
    BY <1>1 DEF TableEntries, WORD
  <2> QED BY <1>1, <2>1, <2>2, <2>3, <2>4 DEF TypeOK
<1>3. Reading
  BY <1>1 DEF Reading
<1>4. LowMemoryKept
  <2>1. \A c \in 0..(ImageCell - 1) : c \in Cells
    BY Layout, Geometry DEF Cells
  <2> QED BY <1>1, <2>1 DEF LowMemoryKept
<1>5. Loading
  BY <1>1 DEF Loading
<1>6. disk.start = Absent => Absence
  BY <1>1 DEF Absence
<1> QED BY <1>2, <1>3, <1>4, <1>5, <1>6 DEF Stage2Inv

LEMMA LoadRootKept == Stage2Inv /\ LoadRoot => Stage2Inv'
<1> SUFFICES ASSUME Stage2Inv, LoadRoot PROVE Stage2Inv'
  OBVIOUS
<1>1. /\ pc = "root" /\ pc' = "read" /\ lba' = RootStart /\ left' = RootSectors
      /\ es' = RootCell /\ bx' = 0 /\ di' = 5 /\ failed' = 0 /\ return' = "find"
      /\ UNCHANGED <<disk, mem, ax, cluster, ecx>>
  BY DEF LoadRoot, ReadSectors, fileVars
<1>2. TypeOK'
  <2>1. lba' \in 0..(WORD - 1)
    <3>1. RootStart \in Nat /\ RootStart < 65536
      BY Geometry
    <3> QED BY <1>1, <3>1, InWord
  <2>2. bx' \in 0..(SegmentCells - 1)
    BY <1>1, Layout, Geometry
  <2> QED BY <1>1, <2>1, <2>2, Geometry DEF Stage2Inv, TypeOK
<1>3. Reading'
  BY <1>1, Geometry DEF Reading
<1>4. LowMemoryKept'
  BY <1>1, LowKept DEF Stage2Inv
<1>5. Fits' => Loading'
  BY <1>1 DEF Stage2Inv, Loading, Fits
<1>6. disk'.start = Absent => Absence'
  BY <1>1 DEF Absence
<1> QED BY <1>2, <1>3, <1>4, <1>5, <1>6 DEF Stage2Inv

LEMMA FindFileKept == Stage2Inv /\ FindFile => Stage2Inv'
<1> SUFFICES ASSUME Stage2Inv, FindFile PROVE Stage2Inv'
  OBVIOUS
<1>1. /\ pc = "find" /\ UNCHANGED <<disk, mem, lba, left, es, bx, di, failed, return, ecx>>
      /\ \/ disk.start = Absent /\ ax' = -1 /\ pc' = "lost" /\ cluster' = cluster
         \/ /\ disk.start # Absent /\ ax' = RootEntries - disk.index
            /\ pc' = "fat" /\ cluster' = disk.start
  BY DEF FindFile, FoundAt, readVars
<1>2. TypeOK'
  <2>1. disk \in Disks /\ cluster \in TableEntries
    BY DEF Stage2Inv, TypeOK
  <2>2. disk.start \in TableEntries /\ disk.index \in 0..(RootEntries - 1)
    BY <2>1, Stage2Assumption DEF DiskOK
  <2>3. RootEntries \in Nat
    BY Fat12Assumption
  <2>4. ax' \in -1..RootEntries
    BY <1>1, <2>2, <2>3
  <2>5. cluster' \in TableEntries
    BY <1>1, <2>1, <2>2
  <2> QED BY <1>1, <2>4, <2>5 DEF Stage2Inv, TypeOK
<1>3. Reading'
  BY <1>1 DEF Reading
<1>4. LowMemoryKept'
  BY <1>1, LowKept DEF Stage2Inv
<1>5. Fits' => Loading'
  <2> SUFFICES ASSUME Fits PROVE Loading'
    BY <1>1 DEF Fits
  <2>1. ecx = 0 /\ disk.start # Absent
    BY <1>1 DEF Stage2Inv, Loading, Fits
  <2>2. disk.file[1] = disk.start
    BY FitsMeans DEF Stage2Inv
  <2> QED BY <1>1, <2>1, <2>2 DEF Loading
<1>6. disk'.start = Absent => Absence'
  BY <1>1 DEF Absence
<1> QED BY <1>2, <1>3, <1>4, <1>5, <1>6 DEF Stage2Inv

LEMMA LoadFATKept == Stage2Inv /\ LoadFAT => Stage2Inv'
<1> SUFFICES ASSUME Stage2Inv, LoadFAT PROVE Stage2Inv'
  OBVIOUS
<1>1. /\ pc = "fat" /\ pc' = "read" /\ lba' = ReservedSector /\ left' = FatSectors
      /\ es' = FatCell /\ bx' = 0 /\ di' = 5 /\ failed' = 0 /\ return' = "image"
      /\ UNCHANGED <<disk, mem, ax, cluster, ecx>>
  BY DEF LoadFAT, ReadSectors, fileVars, FatSectors
<1>2. TypeOK'
  <2>1. lba' \in 0..(WORD - 1)
    <3>1. ReservedSector \in Nat /\ ReservedSector < 65536
      BY Geometry
    <3> QED BY <1>1, <3>1, InWord
  <2>2. bx' \in 0..(SegmentCells - 1)
    BY <1>1, Layout, Geometry
  <2> QED BY <1>1, <2>1, <2>2, Geometry DEF Stage2Inv, TypeOK
<1>3. Reading'
  BY <1>1, Geometry DEF Reading
<1>4. LowMemoryKept'
  BY <1>1, LowKept DEF Stage2Inv
<1>5. Fits' => Loading'
  <2> SUFFICES ASSUME Fits PROVE Loading'
    BY <1>1 DEF Fits
  <2>1. ecx = 0 /\ cluster = disk.file[1]
    BY <1>1 DEF Stage2Inv, Loading
  <2>2. bx' + left' = FatSectors /\ lba' = ReservedSector + bx'
    BY <1>1, Geometry
  <2>3. TableAt(mem', FatCell, bx')
    BY <1>1 DEF TableAt
  <2>4. InTable'
    BY <1>1, <2>1, <2>2, <2>3 DEF InTable
  <2> QED BY <1>1, <2>4 DEF Loading
<1>6. disk'.start # Absent
  BY <1>1 DEF Stage2Inv, Absence
<1> QED BY <1>2, <1>3, <1>4, <1>5, <1>6 DEF Stage2Inv

\* The cell that is read into.
LEMMA Buffer ==
  ASSUME Stage2Inv, pc = "read"
  PROVE  /\ es \in Nat /\ bx \in Nat /\ left \in Nat /\ 0 < left
         /\ return = "next" => left <= SectorPerCluster
         /\ Fits /\ return = "image" => es + bx = FatCell + bx /\ bx < FatSectors
         /\ Fits /\ return = "next" =>
              /\ es + bx = ImageCell + ((ecx - 1) * SectorPerCluster
                                         + (SectorPerCluster - left))
              /\ es + bx < FatCell /\ es + bx = bx
              /\ (ecx - 1) * SectorPerCluster + (SectorPerCluster - left)
                   = ecx * SectorPerCluster - left
              /\ (ecx - 1) * SectorPerCluster \in Nat
         /\ Fits \/ disk.start = Absent => ImageCell <= es + bx
<1>1. es \in Nat /\ bx \in Nat /\ left \in Nat /\ 0 < left
  <2>1. es \in {0, FatCell, RootCell} /\ bx \in 0..(SegmentCells - 1) /\ left \in Nat
    BY DEF Stage2Inv, TypeOK
  <2>2. left # 0
    BY DEF Stage2Inv, Reading
  <2> QED BY <2>1, <2>2, Layout
<1>2. return = "next" => left <= SectorPerCluster
  BY DEF Stage2Inv, Reading
<1>3. ASSUME Fits, return = "image" PROVE es + bx = FatCell + bx /\ bx < FatSectors
  <2>1. es = FatCell /\ bx + left = FatSectors
    BY <1>3 DEF Stage2Inv, Loading, InTable
  <2> QED BY <1>1, <2>1, Geometry
<1>4. ASSUME Fits, return = "next"
      PROVE  /\ es + bx = ImageCell + ((ecx - 1) * SectorPerCluster
                                         + (SectorPerCluster - left))
             /\ es + bx < FatCell /\ ImageCell <= es + bx /\ es + bx = bx
             /\ (ecx - 1) * SectorPerCluster + (SectorPerCluster - left)
                  = ecx * SectorPerCluster - left
             /\ (ecx - 1) * SectorPerCluster \in Nat
  <2> DEFINE x == (ecx - 1) * SectorPerCluster
             y == ecx * SectorPerCluster
  <2>1. /\ es = 0 /\ bx = ImageCell + (y - left) /\ ecx \in 1..Len(disk.file)
        /\ left <= SectorPerCluster
    BY <1>4 DEF Stage2Inv, Loading, InCluster
  <2>2. TypeOK /\ Len(disk.file) \in Nat
    BY <1>4, FitsMeans DEF Stage2Inv
  <2>3. ecx \in 0..Len(disk.file) /\ ecx - 1 \in Nat
    BY <2>1, <2>2
  <2>4. y \in Nat /\ ImageCell + y <= FatCell
    BY <1>4, <2>2, <2>3, FitsMeans
  <2>5. x \in Nat /\ y = x + SectorPerCluster
    BY <2>3, Geometry
  <2> HIDE DEF x, y
  <2>6. es + bx = bx
    BY <1>1, <2>1
  <2>7. x + (SectorPerCluster - left) = y - left
    BY <1>1, <2>5, Geometry
  <2>8. bx < FatCell
    BY <1>1, <2>1, <2>4, Layout
  <2>9. ImageCell <= bx
    BY <1>1, <2>1, <2>5, Layout, Geometry
  <2> QED BY <2>1, <2>5, <2>6, <2>7, <2>8, <2>9 DEF x, y
<1>5. ASSUME Fits \/ disk.start = Absent PROVE ImageCell <= es + bx
  <2>1. CASE disk.start = Absent
    <3>1. es = RootCell
      BY <2>1 DEF Stage2Inv, Absence
    <3> QED BY <1>1, <3>1, Layout
  <2>2. CASE Fits /\ return = "find"
    <3>1. es = RootCell
      BY <2>2 DEF Stage2Inv, Loading
    <3> QED BY <1>1, <3>1, Layout
  <2>3. CASE Fits /\ return = "image"
    BY <1>1, <1>3, <2>3, Layout
  <2>4. CASE Fits /\ return = "next"
    BY <1>4, <2>4
  <2>5. return \in {"find", "image", "next"}
    BY DEF Stage2Inv, TypeOK, Reading
  <2> QED BY <1>5, <2>1, <2>2, <2>3, <2>4, <2>5
<1> QED BY <1>1, <1>2, <1>3, <1>4, <1>5

LEMMA SectorFailsKept == Stage2Inv /\ SectorFails => Stage2Inv'
<1> SUFFICES ASSUME Stage2Inv, SectorFails PROVE Stage2Inv'
  OBVIOUS
<1>1. /\ pc = "read" /\ pc' \in {"int_18", "read"} /\ (pc' = "read" <=> di # 1)
      /\ di' = di - 1 /\ failed' = failed + 1
      /\ UNCHANGED <<disk, lba, left, es, bx, return, ax, cluster, ecx>>
  BY DEF SectorFails, fileVars
<1>2. PICK v \in {mem[es + bx], Other} : mem' = [mem EXCEPT ![es + bx] = v]
  BY DEF SectorFails
<1> DEFINE x == es + bx
<1>3. x \in Nat /\ mem' = [mem EXCEPT ![x] = v]
  BY <1>1, <1>2, Buffer
<1>4. TypeOK'
  <2>1. mem' \in [Cells -> 0..(DiskSectors - 1) \cup {Other}]
    <3>1. mem \in [Cells -> 0..(DiskSectors - 1) \cup {Other}]
      BY DEF Stage2Inv, TypeOK
    <3>2. x \in Cells => v \in 0..(DiskSectors - 1) \cup {Other}
      BY <1>2, <3>1
    <3> QED BY <1>3, <3>1, <3>2
  <2>2. di' \in 0..5 /\ failed' \in 0..5
    <3>1. di \in 0..5 /\ failed = 5 - di /\ di # 0
      BY <1>1 DEF Stage2Inv, TypeOK, Reading
    <3> QED BY <1>1, <3>1
  <2> QED BY <1>1, <2>1, <2>2 DEF Stage2Inv, TypeOK
<1>5. Reading'
  <2>1. di \in 0..5 /\ failed = 5 - di /\ di # 0
    BY <1>1 DEF Stage2Inv, TypeOK, Reading
  <2>2. pc' = "read" => di' # 0 /\ failed' = 5 - di'
    BY <1>1, <2>1
  <2> QED BY <1>1, <2>2 DEF Stage2Inv, Reading
<1>6. LowMemoryKept'
  <2>1. ASSUME Fits \/ disk.start = Absent, NEW c \in 0..(ImageCell - 1)
        PROVE  mem'[c] = mem[c]
    <3>1. ImageCell <= x
      BY <1>1, <2>1, Buffer
    <3>2. c # x
      BY <1>3, <3>1, Layout
    <3> QED BY <1>3, <3>2
  <2> QED BY <1>1, <2>1, LowKept DEF Stage2Inv
<1>7. Fits' => Loading'
  <2> SUFFICES ASSUME Fits, pc' = "read" PROVE Loading'
    BY <1>1 DEF Fits, Loading
  <2>1. return = "find" => Loading'
    BY <1>1 DEF Stage2Inv, Loading
  <2>2. ASSUME return = "image" PROVE Loading'
    <3>1. InTable /\ x = FatCell + bx
      BY <1>1, <2>2, Buffer DEF Stage2Inv, Loading
    <3>2. TableAt(mem', FatCell, bx)
      <4>1. TableAt(mem, FatCell, bx) /\ bx \in Int /\ FatCell + bx <= x /\ FatCell \in Nat
        BY <1>1, <3>1, Buffer, Layout DEF InTable
      <4> HIDE DEF x
      <4> QED BY <1>3, <4>1, TableKept
    <3>3. InTable'
      BY <1>1, <3>1, <3>2 DEF InTable
    <3> QED BY <1>1, <2>2, <3>3 DEF Loading
  <2>3. ASSUME return = "next" PROVE Loading'
    <3> DEFINE n == ecx * SectorPerCluster - left
    <3>1. InCluster /\ x < FatCell /\ x = ImageCell + n /\ n \in Int
      <4>1. InCluster
        BY <1>1, <2>3 DEF Stage2Inv, Loading
      <4>2. x < FatCell /\ x = ImageCell + n
        BY <1>1, <2>3, Buffer
      <4>3. n \in Int
        <5>1. /\ (ecx - 1) * SectorPerCluster + (SectorPerCluster - left) = n
              /\ (ecx - 1) * SectorPerCluster \in Nat /\ left \in Nat
          BY <1>1, <2>3, Buffer
        <5> HIDE DEF n
        <5> DEFINE y == (ecx - 1) * SectorPerCluster
        <5>2. y \in Nat /\ y + (SectorPerCluster - left) = n
          BY <5>1
        <5> HIDE DEF y
        <5> QED BY <5>1, <5>2, Geometry
      <4> QED BY <4>1, <4>2, <4>3
    <3>2. TableAt(mem', FatCell, FatSectors)
      <4>1. TableAt(mem, FatCell, FatSectors) /\ FatSectors \in Int /\ x < FatCell
            /\ FatCell \in Nat
        BY <3>1, Geometry, Layout DEF InCluster
      <4> HIDE DEF x
      <4> QED BY <1>3, <4>1, TableKept
    <3>3. FileAt(mem', ImageCell, disk.file, n)
      <4>1. FileAt(mem, ImageCell, disk.file, n)
        BY <3>1 DEF InCluster
      <4>2. ImageCell + n <= x /\ ImageCell \in Nat
        BY <1>3, <3>1, Layout
      <4> HIDE DEF n, x
      <4> QED BY <1>3, <3>1, <4>1, <4>2, FileKept
    <3>4. InCluster'
      BY <1>1, <3>1, <3>2, <3>3 DEF InCluster
    <3> QED BY <1>1, <2>3, <3>4 DEF Loading
  <2>4. return \in {"find", "image", "next"}
    BY <1>1 DEF Stage2Inv, TypeOK, Reading
  <2> QED BY <2>1, <2>2, <2>3, <2>4
<1>8. disk'.start = Absent => Absence'
  BY <1>1 DEF Stage2Inv, Absence
<1> QED BY <1>4, <1>5, <1>6, <1>7, <1>8 DEF Stage2Inv

\* What the read of one sector does.
LEMMA OneSector ==
  ASSUME Stage2Inv, SectorRead
  PROVE  /\ pc = "read" /\ left' = left - 1 /\ di' = 5 /\ failed' = 0
         /\ left = 1 => pc' = return
         /\ left # 1 => pc' = "read"
         /\ UNCHANGED <<disk, es, return, ax, cluster, ecx>>
         /\ Found \in 0..(DiskSectors - 1)
         /\ mem' = [mem EXCEPT ![es + bx] = Found]
         /\ lba' = (lba + 1) % WORD /\ lba \in Nat
         /\ bx' = (bx + 1) % SegmentCells
<1>1. /\ pc = "read" /\ left' = left - 1 /\ di' = 5 /\ failed' = 0
      /\ pc' = (IF left = 1 THEN return ELSE "read")
      /\ UNCHANGED <<disk, es, return, ax, cluster, ecx>>
      /\ Found < DiskSectors
      /\ mem' = [mem EXCEPT ![es + bx] = Found]
      /\ lba' = (lba + 1) % WORD
      /\ bx' = (bx + 1) % SegmentCells
  BY DEF SectorRead, fileVars
<1>2. lba \in Nat
  <2>1. lba \in 0..(WORD - 1)
    BY DEF Stage2Inv, TypeOK
  <2> QED BY <2>1 DEF WORD
<1>3. Found \in Nat
  BY <1>2, SectorNat DEF Found, Sector
<1>4. Found \in 0..(DiskSectors - 1)
  BY <1>1, <1>3, Geometry
<1> QED BY <1>1, <1>2, <1>4

\* A sector of the table.
LEMMA TableRead ==
  ASSUME Stage2Inv, SectorRead, Fits, return = "image"
  PROVE  Loading'
<1>1. InTable /\ es + bx = FatCell + bx /\ bx < FatSectors
      /\ bx \in Nat /\ left \in Nat /\ 0 < left
  BY OneSector, Buffer DEF Stage2Inv, Loading
<1>2. es = FatCell /\ bx + left = FatSectors /\ lba = ReservedSector + bx
      /\ TableAt(mem, FatCell, bx) /\ ecx = 0 /\ cluster = disk.file[1]
  BY <1>1 DEF InTable
<1>3. Found = ReservedSector + bx
  <2>1. lba \in 0..DiskSectors
    BY <1>1, <1>2, Geometry
  <2> QED BY <1>2, <2>1, SectorIn DEF Found
<1>4. TableAt(mem', FatCell, bx + 1)
  <2>1. FatCell + bx \in DOMAIN mem
    <3>1. FatCell + bx \in Cells
      BY <1>1, Layout, Geometry DEF Cells
    <3> QED BY <3>1 DEF Stage2Inv, TypeOK
  <2>2. mem' = [mem EXCEPT ![FatCell + bx] = ReservedSector + bx]
    BY <1>2, <1>3, OneSector
  <2>3. FatCell \in Nat
    BY Layout
  <2> QED BY <1>1, <1>2, <2>1, <2>2, <2>3, TableGrown
<1>5. bx' = bx + 1
  <2>1. bx + 1 \in Nat /\ SegmentCells \in Nat /\ bx + 1 < SegmentCells
    BY <1>1, Layout, Geometry
  <2> QED BY <2>1, NoWrap, OneSector
<1>6. lba' = lba + 1
  <2>1. lba + 1 \in Nat /\ lba + 1 < 65536
    BY <1>1, <1>2, Geometry
  <2> QED BY <2>1, NoWrap, OneSector DEF WORD
<1>7. CASE left = 1
  <2>1. bx + 1 = FatSectors
    BY <1>1, <1>2, <1>7
  <2>2. TableAt(mem', FatCell, FatSectors)
    BY <1>4, <2>1
  <2>3. ecx' = 0 /\ 0 * SectorPerCluster = 0
    BY <1>2, OneSector, Geometry
  <2>4. FileAt(mem', ImageCell, disk'.file, ecx' * SectorPerCluster)
    BY <2>3, FileNone
  <2>5. AtCluster'
    BY <2>2, <2>3, <2>4 DEF AtCluster
  <2>6. pc' = "image" /\ disk' = disk /\ cluster' = disk.file[1]
    BY <1>2, <1>7, OneSector
  <2>7. 0 < Len(disk.file)
    BY FitsMeans DEF Stage2Inv
  <2> QED BY <2>3, <2>5, <2>6, <2>7 DEF Loading
<1>8. CASE left # 1
  <2>1. /\ pc' = "read" /\ return' = "image" /\ es' = FatCell
        /\ ecx' = 0 /\ cluster' = disk'.file[1] /\ left' = left - 1
    BY <1>2, <1>8, OneSector
  <2>2. bx' + left' = FatSectors /\ lba' = ReservedSector + bx'
    BY <1>1, <1>2, <1>5, <1>6, <2>1, Geometry
  <2>3. TableAt(mem', FatCell, bx')
    BY <1>4, <1>5
  <2>4. InTable'
    BY <2>1, <2>2, <2>3 DEF InTable
  <2> QED BY <2>1, <2>4 DEF Loading
<1> QED BY <1>7, <1>8

\* A sector of a cluster of the file.
LEMMA ClusterRead ==
  ASSUME Stage2Inv, SectorRead, Fits, return = "next"
  PROVE  Loading'
<1> DEFINE t == SectorPerCluster - left
           y == (ecx - 1) * SectorPerCluster
           z == ecx * SectorPerCluster
           c == disk.file[ecx]
<1>1. /\ bx \in Nat /\ left \in Nat /\ 0 < left /\ left <= SectorPerCluster
      /\ es + bx = bx /\ bx < FatCell
  BY OneSector, Buffer
<1>2. /\ es = 0 /\ bx = ImageCell + (z - left) /\ lba = ClusterLBA(cluster) + t
      /\ ecx \in 1..Len(disk.file) /\ cluster = c
      /\ TableAt(mem, FatCell, FatSectors) /\ FileAt(mem, ImageCell, disk.file, z - left)
  BY OneSector DEF Stage2Inv, Loading, InCluster
<1>3. z - left = y + t /\ y \in Nat /\ t \in Nat /\ t < SectorPerCluster
  <2>1. y + t = z - left /\ y \in Nat
    BY OneSector, Buffer
  <2>2. t \in Nat /\ t < SectorPerCluster
    BY <1>1, Geometry
  <2> QED BY <2>1, <2>2
<1>4. disk \in Disks /\ disk.file \in Seq(ClusterNumbers)
  BY FitsMeans DEF Stage2Inv
<1>5. ClusterLBA(c) \in Nat /\ ClusterLBA(c) + SectorPerCluster <= DiskSectors
  <2>1. DiskOK(disk, MaxClusters, DiskSectors) /\ DiskSectors \in Nat /\ DiskSectors < 65536
    BY <1>4, OnDisk, Geometry
  <2> QED BY <1>2, <2>1, FileCluster
<1>6. lba \in Nat /\ lba + 1 <= DiskSectors
  BY <1>2, <1>3, <1>5, Geometry
<1>7. Found = ClusterLBA(c) + t
  <2>1. lba \in 0..DiskSectors
    BY <1>6, Geometry
  <2> QED BY <1>2, <2>1, SectorIn DEF Found
<1>8. lba' = lba + 1
  <2>1. lba + 1 \in Nat /\ lba + 1 < 65536
    BY <1>6, Geometry
  <2> QED BY <2>1, NoWrap, OneSector DEF WORD
<1>9. bx' = bx + 1
  <2>1. bx + 1 \in Nat /\ SegmentCells \in Nat /\ bx + 1 < SegmentCells
    BY <1>1, Layout, Geometry
  <2> QED BY <2>1, NoWrap, OneSector
<1>10. mem' = [mem EXCEPT ![bx] = ClusterLBA(c) + t]
  BY <1>1, <1>7, OneSector
<1>11. TableAt(mem', FatCell, FatSectors)
  <2>1. FatSectors \in Int /\ FatCell \in Nat
    BY Geometry, Layout
  <2> HIDE DEF c, t
  <2> QED BY <1>1, <1>2, <1>10, <2>1, TableKept
<1>12. FileAt(mem', ImageCell, disk.file, y + t + 1)
  <2>1. bx \in DOMAIN mem
    <3>1. bx \in Cells
      BY <1>1, Layout, Geometry DEF Cells
    <3> QED BY <3>1 DEF Stage2Inv, TypeOK
  <2>2. bx = ImageCell + (y + t) /\ FileAt(mem, ImageCell, disk.file, y + t)
    BY <1>2, <1>3
  <2>3. ImageCell \in Nat
    BY Layout
  <2> HIDE DEF t
  <2> QED BY <1>2, <1>3, <1>4, <1>10, <2>1, <2>2, <2>3, FileGrown
<1> HIDE DEF c, y
<1>13. z \in Nat /\ z = y + SectorPerCluster
  <2>1. y + SectorPerCluster = z
    BY <1>2, Geometry DEF y
  <2> QED BY <1>3, <2>1, Geometry
<1> HIDE DEF z
<1>14. y + t + 1 = z - (left - 1) /\ bx' = ImageCell + (z - (left - 1))
       /\ lba' = ClusterLBA(cluster) + (SectorPerCluster - (left - 1))
  <2>1. y + t + 1 = z - (left - 1)
    BY <1>1, <1>3, <1>13, Geometry
  <2>2. bx' = ImageCell + (z - (left - 1))
    BY <1>1, <1>2, <1>9, <1>13, Layout
  <2>3. lba' = ClusterLBA(cluster) + (SectorPerCluster - (left - 1))
    BY <1>1, <1>2, <1>5, <1>8, Geometry
  <2> QED BY <2>1, <2>2, <2>3
<1>15. CASE left = 1
  <2>1. z - (left - 1) = z
    BY <1>13, <1>15
  <2>2. pc' = "next" /\ disk' = disk /\ ecx' = ecx /\ cluster' = cluster
    BY <1>15, OneSector
  <2>3. bx' = ImageCell + ecx' * SectorPerCluster
    BY <1>14, <2>1, <2>2 DEF z
  <2>4. FileAt(mem', ImageCell, disk'.file, ecx' * SectorPerCluster)
    BY <1>12, <1>14, <2>1, <2>2 DEF z
  <2>5. AtCluster'
    BY <1>11, <2>3, <2>4 DEF AtCluster
  <2> QED BY <1>2, <2>2, <2>5 DEF Loading, c
<1>16. CASE left # 1
  <2>1. pc' = "read" /\ return' = "next" /\ disk' = disk /\ ecx' = ecx /\ cluster' = cluster
        /\ left' = left - 1 /\ es' = 0
    BY <1>2, <1>16, OneSector
  <2>2. left' <= SectorPerCluster
    BY <1>1, <2>1, Geometry
  <2>3. bx' = ImageCell + (ecx' * SectorPerCluster - left')
        /\ lba' = ClusterLBA(cluster') + (SectorPerCluster - left')
    BY <1>14, <2>1 DEF z
  <2>4. FileAt(mem', ImageCell, disk'.file, ecx' * SectorPerCluster - left')
    BY <1>12, <1>14, <2>1 DEF z
  <2>5. InCluster'
    BY <1>2, <1>11, <2>1, <2>2, <2>3, <2>4 DEF InCluster, c
  <2> QED BY <2>1, <2>5 DEF Loading
<1> QED BY <1>15, <1>16

LEMMA SectorReadKept == Stage2Inv /\ SectorRead => Stage2Inv'
<1> SUFFICES ASSUME Stage2Inv, SectorRead PROVE Stage2Inv'
  OBVIOUS
<1>1. /\ left \in Nat /\ 0 < left /\ bx \in Nat /\ es \in Nat
      /\ return = "next" => left <= SectorPerCluster
  BY OneSector, Buffer
<1>2. return \in {"find", "image", "next"}
  BY OneSector DEF Stage2Inv, TypeOK, Reading
<1>3. TypeOK'
  <2>1. mem' \in [Cells -> 0..(DiskSectors - 1) \cup {Other}]
    BY OneSector DEF Stage2Inv, TypeOK
  <2>2. lba' \in 0..(WORD - 1)
    <3>1. WORD \in Nat \ {0}
      BY DEF WORD
    <3>2. lba + 1 \in Nat
      BY OneSector
    <3> QED BY <3>1, <3>2, OneSector, DivMod
  <2>3. bx' \in 0..(SegmentCells - 1)
    <3>1. SegmentCells \in Nat \ {0} /\ bx + 1 \in Nat
      BY <1>1, Layout, Geometry
    <3> QED BY <3>1, OneSector, DivMod
  <2>4. left' \in Nat /\ di' \in 0..5 /\ failed' \in 0..5
    BY <1>1, OneSector
  <2>5. pc' \in {"read", "find", "image", "next"}
    BY <1>2, OneSector
  <2> QED BY <2>1, <2>2, <2>3, <2>4, <2>5, OneSector DEF Stage2Inv, TypeOK
<1>4. Reading'
  <2>1. return = "next" => cluster \in Readable
    <3>1. ASSUME return = "next", left = SectorPerCluster PROVE cluster \in Readable
      <4>1. lba = ClusterLBA(cluster) /\ cluster \in TableEntries
        BY <3>1, OneSector DEF Stage2Inv, Reading, TypeOK
      <4>2. Found < DiskSectors
        BY DEF SectorRead
      <4> QED BY <4>1, <4>2 DEF Found, Readable
    <3>2. ASSUME return = "next", left # SectorPerCluster PROVE cluster \in Readable
      BY <3>2, OneSector DEF Stage2Inv, Reading
    <3> QED BY <3>1, <3>2
  <2>2. left # 1 => left' # 0
    BY <1>1, OneSector
  <2>3. return = "next" => left' <= SectorPerCluster /\ left' # SectorPerCluster
    BY <1>1, OneSector, Geometry
  <2>4. pc' = "next" => return = "next"
    BY OneSector
  <2>5. pc' = "read" => left # 1
    BY <1>2, OneSector
  <2>6. cluster' = cluster /\ return' = return /\ di' = 5 /\ failed' = 5 - di' /\ return # "root"
    BY <1>2, OneSector
  <2> QED BY <2>1, <2>2, <2>3, <2>4, <2>5, <2>6 DEF Reading
<1>5. LowMemoryKept'
  <2>1. ASSUME Fits \/ disk.start = Absent, NEW c \in 0..(ImageCell - 1)
        PROVE  mem'[c] = mem[c]
    <3>1. ImageCell <= es + bx
      BY <2>1, OneSector, Buffer
    <3>2. c # es + bx
      BY <1>1, <3>1, Layout
    <3>3. mem' = [mem EXCEPT ![es + bx] = Found]
      BY OneSector
    <3> QED BY <3>2, <3>3
  <2> QED BY <2>1, LowKept, OneSector DEF Stage2Inv
<1>6. Fits' => Loading'
  <2> SUFFICES ASSUME Fits PROVE Loading'
    BY OneSector DEF Fits
  <2>1. ASSUME return = "find" PROVE Loading'
    <3>1. es = RootCell /\ ecx = 0
      BY <2>1, OneSector DEF Stage2Inv, Loading
    <3> QED BY <2>1, <3>1, OneSector DEF Loading
  <2> QED BY <1>2, <2>1, TableRead, ClusterRead
<1>7. disk'.start = Absent => Absence'
  BY OneSector DEF Stage2Inv, Absence
<1> QED BY <1>3, <1>4, <1>5, <1>6, <1>7 DEF Stage2Inv

LEMMA LoadClusterKept == Stage2Inv /\ LoadCluster => Stage2Inv'
<1> SUFFICES ASSUME Stage2Inv, LoadCluster PROVE Stage2Inv'
  OBVIOUS
<1>1. /\ pc = "image" /\ pc' = "read" /\ lba' = ClusterLBA(cluster)
      /\ left' = SectorPerCluster /\ es' = 0 /\ bx' = (IF ecx = 0 THEN ImageCell ELSE bx)
      /\ di' = 5 /\ failed' = 0 /\ return' = "next"
      /\ ecx < MaxClusters /\ ecx' = ecx + 1
      /\ UNCHANGED <<disk, mem, ax, cluster>>
  BY DEF LoadCluster, ReadSectors
<1>2. TypeOK'
  <2>1. lba' \in 0..(WORD - 1)
    <3>1. ClusterLBA(cluster) \in Nat /\ ClusterLBA(cluster) < 65536
      BY ClusterWord DEF Stage2Inv, TypeOK, WORD
    <3> QED BY <1>1, <3>1, InWord
  <2>2. bx' \in 0..(SegmentCells - 1)
    <3>1. bx \in 0..(SegmentCells - 1)
      BY DEF Stage2Inv, TypeOK
    <3>2. ImageCell \in 0..(SegmentCells - 1)
      BY Layout, Geometry
    <3> QED BY <1>1, <3>1, <3>2
  <2>3. ecx' \in 0..MaxClusters
    <3>1. ecx \in 0..MaxClusters
      BY DEF Stage2Inv, TypeOK
    <3> QED BY <1>1, <3>1, Layout
  <2>4. left' \in Nat
    BY <1>1, Geometry
  <2> QED BY <1>1, <2>1, <2>2, <2>3, <2>4 DEF Stage2Inv, TypeOK
<1>3. Reading'
  BY <1>1, Geometry DEF Reading
<1>4. LowMemoryKept'
  BY <1>1, LowKept DEF Stage2Inv
<1>5. Fits' => Loading'
  <2> SUFFICES ASSUME Fits PROVE Loading'
    BY <1>1 DEF Fits
  <2> DEFINE z == ecx * SectorPerCluster
  <2>1. /\ ecx > 0 => bx = ImageCell + z
        /\ TableAt(mem, FatCell, FatSectors) /\ FileAt(mem, ImageCell, disk.file, z)
        /\ ecx < Len(disk.file) /\ cluster = disk.file[ecx + 1]
    BY <1>1 DEF Stage2Inv, Loading, AtCluster
  <2>2. ecx \in Nat /\ Len(disk.file) \in Nat
    <3>1. ecx \in 0..MaxClusters
      BY DEF Stage2Inv, TypeOK
    <3> QED BY <3>1, Layout, FitsMeans DEF Stage2Inv
  <2>3. z \in Nat /\ (ecx + 1) * SectorPerCluster - SectorPerCluster = z
    <3>1. z \in Nat /\ (ecx + 1) * SectorPerCluster = z + SectorPerCluster
      BY <2>2, Geometry
    <3> HIDE DEF z
    <3> QED BY <3>1, Geometry
  <2>4. bx' = ImageCell + z
    <3>1. CASE ecx = 0
      <4>1. z = 0
        BY <3>1, Geometry
      <4> QED BY <1>1, <3>1, <4>1, Layout
    <3>2. CASE ecx # 0
      <4>1. ecx > 0
        BY <2>2, <3>2
      <4> QED BY <1>1, <2>1, <3>2, <4>1
    <3> QED BY <3>1, <3>2
  <2>5. ecx' * SectorPerCluster - left' = z
    BY <1>1, <2>3
  <2>6. lba' = ClusterLBA(cluster') + (SectorPerCluster - left')
    <3>1. ClusterLBA(cluster) \in Nat
      BY ClusterWord DEF Stage2Inv, TypeOK
    <3> QED BY <1>1, <3>1, Geometry
  <2>7. ecx' \in 1..Len(disk'.file) /\ cluster' = disk'.file[ecx']
    BY <1>1, <2>1, <2>2
  <2>8. left' <= SectorPerCluster
    BY <1>1, Geometry
  <2> HIDE DEF z
  <2>9. InCluster'
    BY <1>1, <2>1, <2>4, <2>5, <2>6, <2>7, <2>8 DEF InCluster
  <2> QED BY <1>1, <2>9 DEF Loading
<1>6. disk'.start # Absent
  BY <1>1 DEF Stage2Inv, Absence
<1> QED BY <1>2, <1>3, <1>4, <1>5, <1>6 DEF Stage2Inv

LEMMA NextClusterKept == Stage2Inv /\ NextCluster => Stage2Inv'
<1> SUFFICES ASSUME Stage2Inv, NextCluster PROVE Stage2Inv'
  OBVIOUS
<1>1. /\ pc = "next"
      /\ UNCHANGED <<disk, mem, lba, left, es, bx, di, failed, return, ecx>>
      /\ cluster' < LastCluster => pc' = "image" /\ ax' = ax
      /\ ~(cluster' < LastCluster) => pc' = "stage_3" /\ ax' = 0
  BY DEF NextCluster, readVars
<1>2. PICK w \in Words(EntryOffset(cluster)) : cluster' = TwelveBits(cluster, w)
  BY DEF NextCluster
<1>3. TypeOK'
  <2>1. cluster' \in TableEntries
    BY <1>1, <1>2, WordTyped DEF Stage2Inv, Reading
  <2>2. ax' \in -1..RootEntries
    BY <1>1, Fat12Assumption DEF Stage2Inv, TypeOK
  <2> QED BY <1>1, <2>1, <2>2 DEF Stage2Inv, TypeOK
<1>4. Reading'
  BY <1>1 DEF Reading
<1>5. LowMemoryKept'
  BY <1>1, LowKept DEF Stage2Inv
<1>6. Fits' => Loading'
  <2> SUFFICES ASSUME Fits PROVE Loading'
    BY <1>1 DEF Fits
  <2>1. AtCluster /\ ecx \in 1..Len(disk.file) /\ cluster = disk.file[ecx]
    BY <1>1 DEF Stage2Inv, Loading
  <2>2. /\ disk \in Disks /\ disk.file \in Seq(ClusterNumbers)
        /\ Len(disk.file) \in Nat /\ Len(disk.file) < MaxClusters
    BY FitsMeans DEF Stage2Inv
  <2>3. cluster \in Nat
    BY DEF Stage2Inv, TypeOK, TableEntries
  <2>4. EntryStored(disk, cluster)
    BY <2>1, <2>2, FileLinks, OnDisk
  <2>5. cluster' = disk.fat[cluster]
    BY <1>2, <2>1, <2>3, <2>4, WordIs DEF Stage2Inv, AtCluster
  <2>6. AtCluster'
    BY <1>1, <2>1 DEF AtCluster
  <2>7. CASE ecx < Len(disk.file)
    <3>1. cluster' = disk.file[ecx + 1]
      BY <2>1, <2>2, <2>5, <2>7, FileLinks, OnDisk
    <3>2. ecx + 1 \in 1..Len(disk.file)
      BY <2>1, <2>2, <2>7
    <3>3. cluster' < LastCluster
      BY <2>2, <3>1, <3>2, FileCluster, OnDisk, Geometry DEF LastCluster
    <3> QED BY <1>1, <2>6, <2>7, <3>1, <3>3 DEF Loading
  <2>8. CASE ecx = Len(disk.file)
    <3>1. ~(cluster' < LastCluster)
      <4>1. cluster' >= LastCluster
        BY <2>1, <2>2, <2>5, <2>8, FileLinks, OnDisk, Layout
      <4>2. cluster' \in TableEntries
        BY <1>3 DEF TypeOK
      <4> QED BY <4>1, <4>2 DEF TableEntries, LastCluster
    <3> QED BY <1>1, <2>6, <2>8, <3>1 DEF Loading, AtCluster
  <2> QED BY <2>1, <2>2, <2>7, <2>8
<1>7. disk'.start # Absent
  BY <1>1 DEF Stage2Inv, Absence
<1> QED BY <1>3, <1>4, <1>5, <1>6, <1>7 DEF Stage2Inv

LEMMA CopyImageKept == Stage2Inv /\ CopyImage => Stage2Inv'
<1> SUFFICES ASSUME Stage2Inv, CopyImage PROVE Stage2Inv'
  OBVIOUS
<1>1. /\ pc = "stage_3" /\ pc' = "test" /\ mem' = Copied(ecx)
      /\ UNCHANGED <<disk, lba, left, es, bx, di, failed, return, ax, cluster, ecx>>
  BY DEF CopyImage, ImageSectors, readVars, fileVars
<1> DEFINE far == KernelCell - ImageCell
<1>2. far \in Nat \ {0} /\ ImageCell + far = KernelCell
  BY Layout, Geometry
<1>3. ecx \in Nat /\ ecx <= MaxClusters
  <2>1. ecx \in 0..MaxClusters
    BY DEF Stage2Inv, TypeOK
  <2> QED BY <2>1, Layout
<1> HIDE DEF far
<1>4. ASSUME NEW c \in Cells
      PROVE  mem'[c] = IF c \in KernelCell..(KernelCell + ecx - 1)
                       THEN mem[ImageCell + ((c - KernelCell) % far)] ELSE mem[c]
  BY <1>1 DEF Copied, far
<1>5. TypeOK'
  <2>1. ASSUME NEW c \in KernelCell..(KernelCell + ecx - 1)
        PROVE  ImageCell + ((c - KernelCell) % far) \in Cells
    <3>1. c - KernelCell \in Nat
      BY <1>3, Layout
    <3>2. (c - KernelCell) % far \in 0..(far - 1)
      BY <1>2, <3>1, DivMod
    <3>3. ImageCell + ((c - KernelCell) % far) \in Nat
          /\ ImageCell + ((c - KernelCell) % far) <= TopCell
      BY <1>2, <3>2, Layout
    <3> QED BY <3>3, Layout DEF Cells
  <2>2. mem \in [Cells -> 0..(DiskSectors - 1) \cup {Other}]
    BY DEF Stage2Inv, TypeOK
  <2>3. ASSUME NEW c \in Cells PROVE mem'[c] \in 0..(DiskSectors - 1) \cup {Other}
    BY <1>4, <2>1, <2>2
  <2>4. DOMAIN mem' = Cells /\ mem' = [c \in Cells |-> mem'[c]]
    BY <1>1 DEF Copied
  <2>5. mem' \in [Cells -> 0..(DiskSectors - 1) \cup {Other}]
    BY <2>3, <2>4
  <2> QED BY <1>1, <2>5 DEF Stage2Inv, TypeOK
<1>6. Reading'
  BY <1>1 DEF Reading
<1>7. LowMemoryKept'
  <2>1. ASSUME NEW c \in 0..(ImageCell - 1) PROVE mem'[c] = mem[c]
    <3>1. c \in Cells /\ c < KernelCell /\ c \in Nat
      BY Layout, Geometry DEF Cells
    <3>2. c \notin KernelCell..(KernelCell + ecx - 1)
      BY <1>3, <3>1, Layout
    <3> QED BY <1>4, <3>1, <3>2
  <2> QED BY <1>1, <2>1, LowKept DEF Stage2Inv
<1>8. Fits' => Loading'
  <2> SUFFICES ASSUME Fits, SectorPerCluster = 1
               PROVE  FileAt(mem', KernelCell, disk.file, Len(disk.file))
    BY <1>1 DEF Fits, Loading
  <2>1. ecx = Len(disk.file) /\ FileAt(mem, ImageCell, disk.file, ecx * SectorPerCluster)
    BY <1>1 DEF Stage2Inv, Loading
  <2>2. ImageCell + ecx <= FatCell
    BY <1>3, <2>1 DEF Fits
  <2> SUFFICES ASSUME NEW m \in 1..Len(disk.file), NEW s \in 0..(SectorPerCluster - 1),
                      (m - 1) * SectorPerCluster + s < Len(disk.file)
               PROVE  mem'[KernelCell + ((m - 1) * SectorPerCluster + s)]
                        = ClusterLBA(disk.file[m]) + s
    BY DEF FileAt
  <2> DEFINE p == (m - 1) * SectorPerCluster + s
  <2>3. p = m - 1 /\ p \in Nat /\ p < ecx
    BY <1>3, <2>1
  <2>4. mem[ImageCell + p] = ClusterLBA(disk.file[m]) + s
    <3>1. p < ecx * SectorPerCluster
      BY <1>3, <2>3
    <3> QED BY <2>1, <3>1 DEF FileAt
  <2> HIDE DEF p
  <2>5. KernelCell + p \in Cells /\ KernelCell + p \in KernelCell..(KernelCell + ecx - 1)
    BY <1>3, <2>3, Layout DEF Cells
  <2>6. (KernelCell + p) - KernelCell = p
    BY <2>3, Layout
  <2>7. p % far = p
    <3>1. p < far
      BY <1>2, <1>3, <2>2, <2>3, Layout, Geometry
    <3> QED BY <1>2, <2>3, <3>1, NoWrap
  <2>8. mem'[KernelCell + p] = mem[ImageCell + p]
    BY <1>4, <2>5, <2>6, <2>7
  <2> QED BY <2>4, <2>8 DEF p
<1>9. disk'.start # Absent
  BY <1>1 DEF Stage2Inv, Absence
<1> QED BY <1>5, <1>6, <1>7, <1>8, <1>9 DEF Stage2Inv

LEMMA TestImageKept == Stage2Inv /\ TestImage => Stage2Inv'
<1> SUFFICES ASSUME Stage2Inv, TestImage PROVE Stage2Inv'
  OBVIOUS
<1>1. /\ pc = "test" /\ pc' \in {"kernel", "bad_image"}
      /\ UNCHANGED <<disk, mem, lba, left, es, bx, di, failed, return, ax, cluster, ecx>>
  BY DEF TestImage, readVars, fileVars
<1>2. TypeOK'
  BY <1>1 DEF Stage2Inv, TypeOK
<1>3. Reading'
  BY <1>1 DEF Reading
<1>4. LowMemoryKept'
  BY <1>1, LowKept DEF Stage2Inv
<1>5. Fits' => Loading'
  BY <1>1 DEF Stage2Inv, Fits, Loading
<1>6. disk'.start # Absent
  BY <1>1 DEF Stage2Inv, Absence
<1> QED BY <1>2, <1>3, <1>4, <1>5, <1>6 DEF Stage2Inv

LEMMA NextStage2 == Stage2Inv /\ [Next]_vars => Stage2Inv'
<1> SUFFICES ASSUME Stage2Inv, [Next]_vars PROVE Stage2Inv'
  OBVIOUS
<1>1. CASE UNCHANGED vars
  <2>1. UNCHANGED <<pc, disk, mem, lba, left, es, bx, di, failed, return, ax, cluster, ecx>>
    BY <1>1 DEF vars, readVars, fileVars
  <2>2. TypeOK' /\ Reading' /\ LowMemoryKept'
    BY <2>1 DEF Stage2Inv, TypeOK, Reading, LowMemoryKept, Fits
  <2>3. Fits' => Loading'
    BY <2>1 DEF Stage2Inv, Fits, Loading, InTable, InCluster, AtCluster
  <2>4. disk'.start = Absent => Absence'
    BY <2>1 DEF Stage2Inv, Absence
  <2> QED BY <2>2, <2>3, <2>4 DEF Stage2Inv
<1>2. CASE Next
  BY <1>2, LoadRootKept, FindFileKept, LoadFATKept, LoadClusterKept, NextClusterKept,
     CopyImageKept, TestImageKept, SectorReadKept, SectorFailsKept DEF Next, Step
<1> QED BY <1>1, <1>2

LEMMA Stage2Inductive == Spec => []Stage2Inv
<1> QED BY InitStage2, NextStage2, PTL DEF Spec

\* The loader's variables keep their types: a buffer stays in its segment, a
\* sector number is a word, and what is taken for a table entry names one, even
\* of a table that was overwritten (Fat12.inc:167-243, Floppy16.inc:80-110).
THEOREM Stage2Typed == Spec => []TypeOK
<1>1. Stage2Inv => TypeOK
  BY DEF Stage2Inv
<1> QED BY <1>1, Stage2Inductive, PTL

\* Whatever the disk and its read errors, a load of a file that fits -- and a
\* search for one that is not there -- writes nothing below the image
\* (Fat12.inc:197-208).
THEOREM LowMemoryIsKept == Spec => []LowMemoryKept
<1>1. Stage2Inv => LowMemoryKept
  BY DEF Stage2Inv
<1> QED BY <1>1, Stage2Inductive, PTL

\* On a disk with clusters of one sector, a kernel that runs is all of its file,
\* in order, whatever sectors had to be read again (Fat12.inc:167-243,
\* Floppy16.inc:80-110, Stage2.asm:169-189).  LoadFile counts clusters and the
\* copy takes the count for sectors: hence the one sector.
THEOREM KernelLoaded == ASSUME SectorPerCluster = 1 PROVE Spec => []KernelIsTheFile
<1>1. Stage2Inv => KernelIsTheFile
  <2> SUFFICES ASSUME Stage2Inv, pc = "kernel", Fits,
                      NEW n \in 1..Len(disk.file), NEW s \in 0..(SectorPerCluster - 1)
               PROVE  mem[KernelCell + (n - 1) * SectorPerCluster + s]
                        = ClusterLBA(disk.file[n]) + s
    BY DEF KernelIsTheFile
  <2>1. FileAt(mem, KernelCell, disk.file, Len(disk.file))
    BY DEF Stage2Inv, Loading
  <2>2. Len(disk.file) \in Nat /\ KernelCell \in Nat
    BY FitsMeans, Layout DEF Stage2Inv
  <2>3. (n - 1) * SectorPerCluster + s = n - 1 /\ n - 1 < Len(disk.file)
        /\ KernelCell + (n - 1) * SectorPerCluster + s = KernelCell + (n - 1)
    BY <2>2
  <2>4. mem[KernelCell + ((n - 1) * SectorPerCluster + s)] = ClusterLBA(disk.file[n]) + s
    BY <2>1, <2>3 DEF FileAt
  <2> QED BY <2>3, <2>4
<1> QED BY <1>1, Stage2Inductive, PTL

-----------------------------------------------------------------------------
(* The end of a boot.                                                      *)

\* A file that fits has no cluster less than were loaded.
Sized == Fits => ecx <= Len(disk.file)

LEMMA SizedInit == Init => Sized
<1> SUFFICES ASSUME Init, Fits PROVE ecx <= Len(disk.file)
  BY DEF Sized
<1>1. ecx = 0
  BY DEF Init
<1>2. Len(disk.file) \in Nat
  BY InitStage2, FitsMeans DEF Stage2Inv
<1> QED BY <1>1, <1>2

LEMMA SizedKept == Stage2Inv /\ Sized /\ [Next]_vars => Sized'
<1> SUFFICES ASSUME Stage2Inv, Sized, [Next]_vars, Fits' PROVE ecx' <= Len(disk'.file)
  BY DEF Sized
<1>1. disk' = disk
  BY DEF Next, Step, LoadRoot, FindFile, LoadFAT, LoadCluster, NextCluster, CopyImage,
         TestImage, SectorRead, SectorFails, vars
<1>2. Fits
  BY <1>1 DEF Fits
<1>3. CASE LoadCluster
  <2>1. pc = "image" /\ ecx' = ecx + 1
    BY <1>3 DEF LoadCluster
  <2>2. ecx < Len(disk.file)
    BY <1>2, <2>1 DEF Stage2Inv, Loading
  <2>3. ecx \in Nat /\ Len(disk.file) \in Nat
    BY <1>2, FitsMeans, Layout DEF Stage2Inv, TypeOK
  <2> QED BY <1>1, <2>1, <2>2, <2>3
<1>4. CASE ~LoadCluster
  <2>1. ecx' = ecx
    BY <1>4 DEF Next, Step, LoadRoot, FindFile, LoadFAT, NextCluster, CopyImage,
         TestImage, SectorRead, SectorFails, vars, fileVars
  <2> QED BY <1>1, <1>2, <2>1 DEF Sized
<1> QED BY <1>3, <1>4

\* The stages, one by one.
LEMMA Ranks ==
  /\ DOMAIN Stages = {"root", "find", "fat", "image", "next", "stage_3", "test"}
  /\ Stages["root"] = 6 /\ Stages["find"] = 5 /\ Stages["fat"] = 4
  /\ Stages["image"] = 3 /\ Stages["next"] = 3 /\ Stages["stage_3"] = 2
  /\ Stages["test"] = 1
BY DEF Stages

\* What a boot has left is five numbers, given by where it is.
Measured ==
  /\ Left \in Numbers(5)
  /\ Left[2] = Len(disk.file) - ecx
  /\ Left[1] = IF Towards \in DOMAIN Stages THEN Stages[Towards] ELSE 0
  /\ Left[3] = IF Towards = "next" THEN 1 ELSE 0
  /\ pc = "read" => /\ left \in Nat /\ di \in Nat /\ 0 < left /\ 0 < di
                    /\ Left[4] = left /\ Left[5] = di
                    /\ return \in {"find", "image", "next"}
  /\ pc # "read" => Left[4] = 0 /\ Left[5] = 0

LEMMA IsMeasured == Stage2Inv /\ Sized /\ Fits => Measured
<1> SUFFICES ASSUME Stage2Inv, Sized, Fits PROVE Measured
  OBVIOUS
<1> DEFINE l1 == IF Towards \in DOMAIN Stages THEN Stages[Towards] ELSE 0
           l2 == Len(disk.file) - ecx
           l3 == IF Towards = "next" THEN 1 ELSE 0
           l4 == IF pc = "read" THEN left ELSE 0
           l5 == IF pc = "read" THEN di ELSE 0
<1>1. l2 \in Nat
  <2>1. ecx \in 0..MaxClusters
    BY DEF Stage2Inv, TypeOK
  <2> QED BY <2>1, FitsMeans, Layout DEF Stage2Inv, Sized
<1>2. pc = "read" => /\ left \in Nat /\ di \in Nat /\ 0 < left /\ 0 < di
                     /\ return \in {"find", "image", "next"}
  BY DEF Stage2Inv, TypeOK, Reading
<1>3. l1 \in Nat /\ l3 \in Nat /\ l4 \in Nat /\ l5 \in Nat
  BY <1>2, Ranks
<1>4. Left = <<l1, l2, l3, l4, l5>>
  BY DEF Left
<1>5. (pc = "read" => l4 = left /\ l5 = di) /\ (pc # "read" => l4 = 0 /\ l5 = 0)
  OBVIOUS
<1>6. ASSUME NEW k1 \in Nat, NEW k2 \in Nat, NEW k3 \in Nat, NEW k4 \in Nat, NEW k5 \in Nat,
             Left = <<k1, k2, k3, k4, k5>>
      PROVE  /\ Left \in Numbers(5) /\ Left[1] = k1 /\ Left[2] = k2
             /\ Left[3] = k3 /\ Left[4] = k4 /\ Left[5] = k5
  BY <1>6 DEF Numbers
<1> HIDE DEF l1, l2, l3, l4, l5
<1>7. /\ Left \in Numbers(5) /\ Left[1] = l1 /\ Left[2] = l2
      /\ Left[3] = l3 /\ Left[4] = l4 /\ Left[5] = l5
  BY <1>1, <1>3, <1>4, <1>6
<1> QED BY <1>2, <1>5, <1>7 DEF Measured, l1, l2, l3

LEMMA MeasuredNext == Stage2Inv' /\ Sized' /\ Fits' => Measured'
BY IsMeasured, PTL

LEMMA StepsShorten ==
  Stage2Inv /\ Sized /\ Stage2Inv' /\ Sized' /\ [Next]_vars =>
    [Fits => Left' \in Numbers(5) /\ Falls(Left', Left)]_vars
<1> SUFFICES ASSUME Stage2Inv, Sized, Stage2Inv', Sized', Next, Fits
             PROVE  Left' \in Numbers(5) /\ Falls(Left', Left)
  OBVIOUS
<1>1. disk' = disk /\ Fits'
  BY DEF Next, Step, LoadRoot, FindFile, LoadFAT, LoadCluster, NextCluster, CopyImage,
         TestImage, SectorRead, SectorFails, Fits
<1>2. Measured /\ Measured'
  BY <1>1, IsMeasured, MeasuredNext
<1>3. Left \in Numbers(5) /\ Left' \in Numbers(5)
  BY <1>2 DEF Measured
<1> SUFFICES \/ Left'[1] < Left[1]
             \/ Left'[1] = Left[1] /\ Left'[2] < Left[2]
             \/ Left'[1] = Left[1] /\ Left'[2] = Left[2] /\ Left'[3] < Left[3]
             \/ /\ Left'[1] = Left[1] /\ Left'[2] = Left[2] /\ Left'[3] = Left[3]
                /\ Left'[4] < Left[4]
             \/ /\ Left'[1] = Left[1] /\ Left'[2] = Left[2] /\ Left'[3] = Left[3]
                /\ Left'[4] = Left[4] /\ Left'[5] < Left[5]
  BY <1>3, FallsFive
<1>4. ecx' = ecx => Left'[2] = Left[2]
  BY <1>1, <1>2 DEF Measured
<1>5. CASE LoadRoot
  <2>1. pc = "root" /\ pc' = "read" /\ return' = "find"
    BY <1>5 DEF LoadRoot, ReadSectors
  <2> QED BY <1>2, <2>1, Ranks DEF Measured, Towards
<1>6. CASE FindFile
  <2>1. pc = "find" /\ pc' = "fat"
    BY <1>6 DEF FindFile, Fits
  <2> QED BY <1>2, <2>1, Ranks DEF Measured, Towards
<1>7. CASE LoadFAT
  <2>1. pc = "fat" /\ pc' = "read" /\ return' = "image"
    BY <1>7 DEF LoadFAT, ReadSectors
  <2> QED BY <1>2, <2>1, Ranks DEF Measured, Towards
<1>8. CASE LoadCluster
  <2>1. pc = "image" /\ pc' = "read" /\ return' = "next" /\ ecx' = ecx + 1
    BY <1>8 DEF LoadCluster, ReadSectors
  <2>2. Left'[1] = Left[1]
    BY <1>2, <2>1, Ranks DEF Measured, Towards
  <2>3. Len(disk.file) \in Nat /\ ecx \in Nat
    BY FitsMeans, Layout DEF Stage2Inv, TypeOK
  <2>4. Left'[2] < Left[2]
    BY <1>1, <1>2, <2>1, <2>3 DEF Measured
  <2> QED BY <2>2, <2>4
<1>9. CASE NextCluster
  <2>1. pc = "next" /\ pc' \in {"image", "stage_3"} /\ ecx' = ecx
    BY <1>9 DEF NextCluster
  <2> QED BY <1>2, <1>4, <2>1, Ranks DEF Measured, Towards
<1>10. CASE CopyImage
  <2>1. pc = "stage_3" /\ pc' = "test"
    BY <1>10 DEF CopyImage
  <2> QED BY <1>2, <2>1, Ranks DEF Measured, Towards
<1>11. CASE TestImage
  <2>1. pc = "test" /\ pc' \in {"kernel", "bad_image"}
    BY <1>11 DEF TestImage
  <2> QED BY <1>2, <2>1, Ranks DEF Measured, Towards
<1>12. CASE SectorRead
  <2>1. /\ pc = "read" /\ left' = left - 1 /\ return' = return /\ ecx' = ecx
        /\ pc' = IF left = 1 THEN return ELSE "read"
    BY <1>12 DEF SectorRead, fileVars
  <2>2. Towards' = Towards
    BY <1>2, <2>1 DEF Towards, Measured
  <2>3. Left'[1] = Left[1] /\ Left'[2] = Left[2] /\ Left'[3] = Left[3]
    BY <1>2, <1>4, <2>1, <2>2 DEF Measured
  <2>4. Left'[4] < Left[4]
    BY <1>2, <2>1 DEF Measured
  <2> QED BY <2>3, <2>4
<1>13. CASE SectorFails
  <2>1. /\ pc = "read" /\ left' = left /\ di' = di - 1 /\ return' = return /\ ecx' = ecx
        /\ pc' = IF di = 1 THEN "int_18" ELSE "read"
    BY <1>13 DEF SectorFails, fileVars
  <2>2. CASE di = 1
    <3>1. Left[1] > 0
      BY <1>2, <2>1, Ranks DEF Measured, Towards
    <3>2. Left'[1] = 0
      BY <1>2, <2>1, <2>2, Ranks DEF Measured, Towards
    <3> QED BY <3>1, <3>2
  <2>3. CASE di # 1
    <3>1. Left'[1] = Left[1] /\ Left'[2] = Left[2] /\ Left'[3] = Left[3]
      BY <1>2, <1>4, <2>1, <2>3 DEF Measured, Towards
    <3>2. Left'[4] = Left[4] /\ Left'[5] < Left[5]
      BY <1>2, <2>1, <2>3 DEF Measured
    <3> QED BY <3>1, <3>2
  <2> QED BY <2>2, <2>3
<1> QED BY <1>5, <1>6, <1>7, <1>8, <1>9, <1>10, <1>11, <1>12, <1>13 DEF Next, Step

\* Whatever the disk and its read errors, each step of a boot from a file that
\* fits shortens what the boot has left, so that it ends (NoEndlessFall): a retry
\* costs an attempt, a sector read the sectors, and a cluster the file
\* (Fat12.inc:197-237, Floppy16.inc:80-110).
THEOREM BootGetsShorter == Spec => BootShortens
<1>1. Spec => []Sized
  BY Stage2Inductive, SizedInit, SizedKept, PTL DEF Spec
<1> QED BY <1>1, Stage2Inductive, StepsShorten, PTL DEF Spec, BootShortens
=============================================================================
