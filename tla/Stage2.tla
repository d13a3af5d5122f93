-------------------------------- MODULE Stage2 --------------------------------
(***************************************************************************)
(* The second boot loader, from the loading of the root directory to the   *)
(* jump into the kernel: SysBoot/Stage2/Stage2.asm:113-220, with LoadRoot, *)
(* LoadFAT, FindFile and LoadFile (Fat12.inc), ReadSectors (Floppy16.inc)  *)
(* and EnablePaging (Paging.inc).                                          *)
(*                                                                         *)
(* Memory is counted in cells of one sector.  A cell holds the number of   *)
(* the disk sector that was read into it, or Other.  The disk's FAT is a   *)
(* table of entries; the loader reads words out of the cells it loaded it  *)
(* to, and finds what it finds when those have been overwritten.           *)
(***************************************************************************)
EXTENDS Fat12, Progress

CONSTANTS
  Disks,        \* the disks, with the kernel's file
  DiskSectors,  \* how many sectors a disk has
  ImageCell,    \* IMAGE_RMODE_BASE, in cells
  FatCell,      \* FAT_SEG
  RootCell,     \* ROOT_SEG
  SegmentCells, \* cells in a 64 KB segment
  KernelCell,   \* what EnablePaging maps IMAGE_PMODE_BASE to (0x10000)
  TopCell,      \* the last cell of memory
  StrayWords,   \* what a word of overwritten memory may be
  MaxClusters   \* bound: how many clusters a load may go on for

Other == -1
Cells == 0..TopCell

\* What the BIOS reads when it is asked for a sector.
Sector(n) == SectorAt(LBACHS(n))

\* The clusters, of all a table's entry may name, that the BIOS finds.
Readable == {c \in TableEntries : Sector(ClusterLBA(c)) < DiskSectors}

ASSUME Stage2Assumption ==
  /\ \A d \in Disks : /\ DiskOK(d, MaxClusters, DiskSectors)
                      /\ \A c \in Readable : EntryStored(d, c)
  /\ DiskSectors \in Reachable /\ datasector <= DiskSectors /\ DiskSectors < WORD
  /\ StrayWords \subseteq 0..(WORD - 1)
  /\ {ImageCell, FatCell, RootCell, KernelCell, SegmentCells, TopCell} \subseteq Nat
  /\ ImageCell < FatCell /\ ImageCell <= RootCell
  /\ FatCell + NumberOfFATs * SectorPerFAT <= SegmentCells
  /\ SegmentCells <= KernelCell
  /\ MaxClusters \in Nat \ {0}
  /\ KernelCell + MaxClusters * SectorPerCluster <= TopCell

VARIABLES
  pc,         \* where the loader is
  disk,       \* the disk in the drive
  mem,        \* the memory's cells
  lba, left,  \* ReadSectors: the sector to read, and how many (ax, cx)
  es, bx,     \* its buffer, a segment and an offset in cells
  di,         \* the attempts it has left for this sector
  failed,     \* history: how many attempts for this sector have failed
  return,     \* where it returns to
  ax,         \* what FindFile and LoadFile return
  cluster,    \* the cluster LoadFile is at
  ecx         \* how many clusters it has loaded

readVars == <<lba, left, es, bx, di, failed, return>>
fileVars == <<ax, cluster, ecx>>
vars == <<pc, disk, mem, readVars, fileVars>>

Init ==
  /\ pc = "root"
  /\ disk \in Disks
  /\ mem = [c \in Cells |-> Other]
  /\ lba = 0 /\ left = 0 /\ es = 0 /\ bx = 0 /\ di = 0 /\ failed = 0
  /\ return = "root"
  /\ ax = 0 /\ cluster = 0 /\ ecx = 0

-----------------------------------------------------------------------------
(* ReadSectors.                                                            *)

ReadSectors(sector, n, segment, offset, then) ==
  /\ lba' = sector /\ left' = n /\ es' = segment /\ bx' = offset
  /\ di' = 5 /\ failed' = 0
  /\ return' = then
  /\ pc' = "read"

Found == Sector(lba)

\* The next sector gets five attempts of its own.
SectorRead ==
  /\ pc = "read"
  /\ Found < DiskSectors
  /\ mem' = [mem EXCEPT ![es + bx] = Found]
  /\ lba' = (lba + 1) % WORD /\ left' = left - 1
  /\ bx' = (bx + 1) % SegmentCells
  /\ di' = 5 /\ failed' = 0
  /\ pc' = IF left = 1 THEN return ELSE "read"
  /\ UNCHANGED <<disk, es, return, fileVars>>

\* Mutant: a sector that cannot be read is skipped.
SectorSkipped ==
  /\ pc = "read"
  /\ \E content \in {mem[es + bx], Other} : mem' = [mem EXCEPT ![es + bx] = content]
  /\ di' = IF di = 1 THEN 5 ELSE di - 1
  /\ failed' = IF di = 1 THEN 0 ELSE failed + 1
  /\ IF di = 1
     THEN /\ lba' = (lba + 1) % WORD /\ left' = left - 1
          /\ bx' = (bx + 1) % SegmentCells
          /\ pc' = IF left = 1 THEN return ELSE "read"
     ELSE UNCHANGED <<lba, left, bx, pc>>
  /\ UNCHANGED <<disk, es, return, fileVars>>

\* Mutant: `dec di' is left out.
SectorFailsForever ==
  /\ pc = "read"
  /\ failed' = (failed + 1) % 6
  /\ UNCHANGED <<pc, mem, disk, lba, left, es, bx, di, return, fileVars>>

\* `dec di; jnz .loop; int 0x18', which does not come back.  An attempt that
\* fails may leave anything in the buffer.
SectorFails ==
  /\ pc = "read"
  /\ \E content \in {mem[es + bx], Other} : mem' = [mem EXCEPT ![es + bx] = content]
  /\ di' = di - 1 /\ failed' = failed + 1
  /\ pc' = IF di = 1 THEN "int_18" ELSE "read"
  /\ UNCHANGED <<disk, lba, left, es, bx, return, fileVars>>

-----------------------------------------------------------------------------
(* LoadRoot, LoadFile and the calls they make.                             *)

LoadRoot ==
  /\ pc = "root"
  /\ ReadSectors(RootStart, RootSectors, RootCell, 0, "find")
  /\ UNCHANGED <<disk, mem, fileVars>>

\* What FindFile leaves in ax: the counter of its loop, or -1.
FoundAt(index) == RootEntries - index

\* LoadFile has pushed ecx; when the file is not found it returns without
\* popping it, to wherever the word points.
FindFile ==
  /\ pc = "find"
  /\ IF disk.start = Absent
     THEN ax' = -1 /\ pc' = "lost" /\ UNCHANGED cluster
     ELSE ax' = FoundAt(disk.index) /\ pc' = "fat" /\ cluster' = disk.start
  /\ UNCHANGED <<disk, mem, readVars, ecx>>

LoadFAT ==
  /\ pc = "fat"
  /\ ReadSectors(ReservedSector, NumberOfFATs * SectorPerFAT, FatCell, 0, "image")
  /\ UNCHANGED <<disk, mem, fileVars>>

\* Mutant: the offset pushed before the FAT was loaded is not restored.
LoadClusterAtZero ==
  /\ pc = "image"
  /\ ecx < MaxClusters
  /\ ReadSectors(ClusterLBA(cluster), SectorPerCluster, 0,
                 IF ecx = 0 THEN 0 ELSE bx, "next")
  /\ ecx' = ecx + 1
  /\ UNCHANGED <<disk, mem, ax, cluster>>

\* The buffer is at 0:IMAGE_RMODE_BASE, and goes on where it was.
LoadCluster ==
  /\ pc = "image"
  /\ ecx < MaxClusters
  /\ ReadSectors(ClusterLBA(cluster), SectorPerCluster, 0,
                 IF ecx = 0 THEN ImageCell ELSE bx, "next")
  /\ ecx' = ecx + 1
  /\ UNCHANGED <<disk, mem, ax, cluster>>

\* The byte at an offset of the memory the FAT was loaded to is the FAT's if
\* the cell still holds that sector of it.
Intact(k) == mem[FatCell + k \div BytesPerSector] = ReservedSector + k \div BytesPerSector

Words(k) ==
  IF Intact(k) /\ Intact(k + 1)
  THEN {FatByte(disk.fat, k) + 256 * FatByte(disk.fat, k + 1)}
  ELSE StrayWords

\* Mutant: only 0xfff ends a file.
NextClusterExact ==
  /\ pc = "next"
  /\ \E w \in Words(EntryOffset(cluster)) : cluster' = TwelveBits(cluster, w)
  /\ IF cluster' # 4095
     THEN pc' = "image" /\ UNCHANGED ax
     ELSE pc' = "stage_3" /\ ax' = 0
  /\ UNCHANGED <<disk, mem, readVars, ecx>>

NextCluster ==
  /\ pc = "next"
  /\ \E w \in Words(EntryOffset(cluster)) : cluster' = TwelveBits(cluster, w)
  /\ IF cluster' < LastCluster
     THEN pc' = "image" /\ UNCHANGED ax
     ELSE pc' = "stage_3" /\ ax' = 0
  /\ UNCHANGED <<disk, mem, readVars, ecx>>

-----------------------------------------------------------------------------
(* Stage 3.                                                                *)

ImageSectors == ecx   \* ImageSize: LoadFile counts clusters

\* `rep movsd' upwards: a source that reaches the destination is read after
\* it has been written.
Copied(n) ==
  [c \in Cells |-> IF c \in KernelCell..(KernelCell + n - 1)
                   THEN mem[ImageCell + ((c - KernelCell) % (KernelCell - ImageCell))]
                   ELSE mem[c]]

CopyImage ==
  /\ pc = "stage_3"
  /\ mem' = Copied(ImageSectors)
  /\ pc' = "test"
  /\ UNCHANGED <<disk, readVars, fileVars>>

\* The signature is in the first sector of the file.
TestImage ==
  /\ pc = "test"
  /\ pc' = IF mem[KernelCell] = ClusterLBA(disk.start) THEN "kernel" ELSE "bad_image"
  /\ UNCHANGED <<disk, mem, readVars, fileVars>>

Step == LoadRoot \/ FindFile \/ LoadFAT \/ LoadCluster \/ NextCluster \/ CopyImage \/ TestImage

Next == Step \/ SectorRead \/ SectorFails

\* The loader is the only code that runs; each call of the BIOS returns.
Spec == Init /\ [][Next]_vars /\ WF_vars(Next)
-----------------------------------------------------------------------------
TypeOK ==
  /\ pc \in {"root", "read", "find", "fat", "image", "next", "stage_3", "test",
             "kernel", "int_18", "bad_image", "lost"}
  /\ disk \in Disks
  /\ mem \in [Cells -> 0..(DiskSectors - 1) \cup {Other}]
  /\ lba \in 0..(WORD - 1) /\ left \in Nat
  /\ es \in {0, FatCell, RootCell} /\ bx \in 0..(SegmentCells - 1)
  /\ di \in 0..5 /\ failed \in 0..5
  /\ return \in {"root", "find", "image", "next"}
  /\ ax \in -1..RootEntries
  /\ cluster \in TableEntries
  /\ ecx \in 0..MaxClusters

\* The file ends, and it ends below the memory the FAT is loaded to.
Fits == /\ disk.start # Absent
        /\ Len(disk.file) < MaxClusters
        /\ ImageCell + Len(disk.file) * SectorPerCluster <= FatCell

\* A kernel that runs is all of the file, in order: read errors, retries,
\* entries that share bytes or straddle sectors lose no sector of a file that
\* fits (Fat12.inc:167-243, Floppy16.inc:80-110, Stage2.asm:169-189).
KernelIsTheFile ==
  pc = "kernel" /\ Fits =>
    \A n \in 1..Len(disk.file) : \A s \in 0..(SectorPerCluster - 1) :
      mem[KernelCell + (n - 1) * SectorPerCluster + s] = ClusterLBA(disk.file[n]) + s

\* What lies below the image -- the vectors, the loader, the memory map -- is
\* not written to by a file that fits (Fat12.inc:197-208).
LowMemoryKept ==
  Fits \/ disk.start = Absent => \A c \in 0..(ImageCell - 1) : mem[c] = Other

\* What a boot has left: the stages before its end, clusters of the file,
\* whether it has yet to look for the next one, sectors and attempts.
Towards == IF pc = "read" THEN return ELSE pc
Stages == [root |-> 6, find |-> 5, fat |-> 4, image |-> 3, next |-> 3, stage_3 |-> 2,
           test |-> 1]
Left ==
  <<IF Towards \in DOMAIN Stages THEN Stages[Towards] ELSE 0,
    Len(disk.file) - ecx,
    IF Towards = "next" THEN 1 ELSE 0,
    IF pc = "read" THEN left ELSE 0,
    IF pc = "read" THEN di ELSE 0>>

\* Each step of a boot shortens it: a failing read an attempt, a good one the
\* sectors, a cluster the file, although a good read brings the attempts back
\* and the next cluster the sectors (Fat12.inc:197-237, Floppy16.inc:80-110).
BootShortens == [][Fits => Left' \in Numbers(5) /\ Falls(Left', Left)]_vars

\* A boot ends, in the kernel or with an error, when the file fits
\* (Fat12.inc:197-237, Floppy16.inc:80-110).
BootEnds == Fits => <>(pc \in {"kernel", "int_18", "bad_image"})
=============================================================================
