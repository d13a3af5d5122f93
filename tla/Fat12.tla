-------------------------------- MODULE Fat12 --------------------------------
(***************************************************************************)
(* The arithmetic of the boot loaders: where a FAT12 disk keeps its        *)
(* tables and clusters, and how the twelve bits of a table entry are read. *)
(* Both stages have this code: SysBoot/Stage1/boot1.asm and                *)
(* SysBoot/Stage2/Fat12.inc with Floppy16.inc.                             *)
(***************************************************************************)
EXTENDS Integers, Sequences

CONSTANTS
  BytesPerSector,   \* 512
  SectorPerCluster, \* 1
  ReservedSector,   \* 1
  NumberOfFATs,     \* 2
  RootEntries,      \* 224
  SectorPerFAT,     \* 9
  SectorPerTrack,   \* 18
  HeadPerCylinder   \* 2

ASSUME Fat12Assumption ==
  /\ BytesPerSector \in Nat \ {0} /\ SectorPerCluster \in 1..255
  /\ ReservedSector \in Nat /\ NumberOfFATs \in Nat \ {0}
  /\ RootEntries \in Nat /\ RootEntries * 32 >= BytesPerSector
  /\ SectorPerFAT \in Nat \ {0}
  /\ SectorPerTrack \in 1..255 /\ HeadPerCylinder \in 1..255

WORD == 65536
BYTE == 256

RootSectors == (RootEntries * 32) \div BytesPerSector
RootStart == SectorPerFAT * NumberOfFATs + ReservedSector
datasector == RootStart + RootSectors

\* `sub ax, 2; mul cx; add ax, [datasector]', in 16 bits.
ClusterLBA(cluster) ==
  (((((cluster - 2) % WORD) * SectorPerCluster) % WORD) + datasector) % WORD

\* The quotients of the two divisions, cut to bytes.
LBACHS(lba) ==
  [absoluteSector |-> ((lba % SectorPerTrack) + 1) % BYTE,
   absoluteHead   |-> (lba \div SectorPerTrack) % HeadPerCylinder,
   absoluteTrack  |-> ((lba \div SectorPerTrack) \div HeadPerCylinder) % BYTE]

\* The sector the BIOS finds at a place of the disk.
SectorAt(chs) ==
  (chs.absoluteTrack * HeadPerCylinder + chs.absoluteHead) * SectorPerTrack
    + chs.absoluteSector - 1

\* Where the entry of a cluster starts in the table: `cx = cluster + cluster / 2'.
EntryOffset(cluster) == cluster + cluster \div 2

\* Mutant: the high bits of an even entry are kept.
TwelveBitsUnmasked(cluster, w) == IF cluster % 2 = 1 THEN w \div 16 ELSE w

\* The entry of a cluster, from the word at its offset.
TwelveBits(cluster, w) == IF cluster % 2 = 1 THEN w \div 16 ELSE w % 4096

\* Byte k of a table that holds the entries of f, two of them in three bytes.
FatByte(f, k) ==
  LET first == f[2 * (k \div 3)]
      second == f[2 * (k \div 3) + 1]
  IN  CASE k % 3 = 0 -> first % 256
        [] k % 3 = 1 -> first \div 256 + 16 * (second % 16)
        [] k % 3 = 2 -> second \div 16
-----------------------------------------------------------------------------
(* The disks.  A disk is a record of its table, fat, and of a file: the    *)
(* first cluster, start, the place in the directory, index, and the        *)
(* clusters that the table links from start on, file -- all of them, or as *)
(* many as a loader is followed for when they have no end.                 *)

Absent == 0           \* the start of a file that the directory does not list
LastCluster == 4080   \* 0x0ff0
TableEntries == 0..4095
ClusterNumbers == 2..(LastCluster - 1)

EntryStored(d, cluster) ==
  /\ EntryOffset(cluster) + 1 < SectorPerFAT * BytesPerSector
  /\ d.fat[2 * (cluster \div 2)] \in TableEntries
  /\ d.fat[2 * (cluster \div 2) + 1] \in TableEntries

FileLinked(d, most) ==
  /\ d.start = Absent <=> d.file = << >>
  /\ d.start # Absent => d.file[1] = d.start
  /\ \A n \in 1..Len(d.file) :
       LET next == d.fat[d.file[n]]
       IN  IF n < Len(d.file) THEN next = d.file[n + 1]
           ELSE next >= LastCluster \/ Len(d.file) = most

\* The clusters of the file are below the last of the disk's sectors.
FileInside(d, sectors) ==
  \A n \in 1..Len(d.file) :
    datasector + (d.file[n] - 1) * SectorPerCluster <= sectors

\* The sectors whose track fits in a byte.
Reachable == 0..(BYTE * HeadPerCylinder * SectorPerTrack - 1)

DiskOK(d, most, sectors) ==
  /\ d.start \in TableEntries /\ d.index \in 0..(RootEntries - 1)
  /\ d.file \in Seq(ClusterNumbers) /\ Len(d.file) <= most
  /\ FileLinked(d, most) /\ FileInside(d, sectors)
  /\ \A n \in 1..Len(d.file) : EntryStored(d, d.file[n])
=============================================================================
