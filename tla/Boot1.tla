--------------------------------- MODULE Boot1 ---------------------------------
(***************************************************************************)
(* The first boot loader, SysBoot/Stage1/boot1.asm: it reads the root      *)
(* directory behind itself, waits for a key, finds the second stage, reads *)
(* the FAT over the directory and the second stage to 0x500, and jumps     *)
(* there.  A drive that failed to read has to be reset before it reads     *)
(* again, and a reset may fail.                                            *)
(*                                                                         *)
(* Memory is counted in sectors: `image' is what lies from 0x500 on, up to *)
(* the boot sector, `table' what lies behind the boot sector.              *)
(***************************************************************************)
EXTENDS Fat12

CONSTANTS
  Disks,        \* the disks, with the second stage's file
  ImageRoom,    \* sectors between 0x500 and the boot sector that runs: 59
  TableCells,   \* sectors behind the boot sector that are written to
  StrayWords    \* what a word that was not read from the FAT may be

Other == -1    \* in memory: not a sector of the disk

ASSUME Boot1Assumption ==
  /\ \A d \in Disks : DiskOK(d, ImageRoom + 1, BYTE * HeadPerCylinder * SectorPerTrack)
  /\ BYTE * HeadPerCylinder * SectorPerTrack < WORD
  /\ BytesPerSector >= 32 /\ ImageRoom \in Nat /\ TableCells \in Nat
  /\ RootSectors <= TableCells /\ NumberOfFATs * SectorPerFAT <= TableCells
  /\ StrayWords \subseteq 0..(WORD - 1)

VARIABLES
  pc,         \* where the loader is
  disk,       \* the disk in the drive
  ready,      \* the drive can read
  image,      \* the sectors at 0x500
  table,      \* the sectors at 07C0:0200
  lba, left,  \* ReadSectors: the sector to read, and how many (ax, cx)
  bx,         \* its buffer: a place in the table, or one of the image
  di,         \* the attempts it has left for this sector
  bad,        \* history: failures of the disk and of resets for this sector
  return,     \* where it returns to
  cluster,    \* the cluster that is loaded
  at          \* the offset on the stack: where the image goes on

driveVars == <<disk, ready>>
readVars == <<lba, left, bx, di, bad, return>>
memVars == <<image, table>>
boot1Vars == <<pc, driveVars, memVars, readVars, cluster, at>>

Boot1Init ==
  /\ pc = "root"
  /\ disk \in Disks /\ ready = TRUE
  /\ image = [n \in 0..(ImageRoom - 1) |-> Other]
  /\ table = [n \in 0..(TableCells - 1) |-> Other]
  /\ lba = 0 /\ left = 0 /\ bx = 0 /\ di = 0 /\ bad = 0 /\ return = "root"
  /\ cluster = 0 /\ at = 0

-----------------------------------------------------------------------------
(* ReadSectors.                                                            *)

ReadSectors(sector, n, buffer, then) ==
  /\ lba' = sector /\ left' = n /\ bx' = buffer
  /\ di' = 5 /\ bad' = 0
  /\ return' = then
  /\ pc' = "read"

\* The sector arrives in the table or the image.  There is no room in the image
\* for more: what is written then is the code that runs.
Stored(content) ==
  IF return # "next" THEN table' = [table EXCEPT ![bx] = content] /\ UNCHANGED image
  ELSE image' = [image EXCEPT ![bx] = content] /\ UNCHANGED table

\* The buffer is a place of its own for each sector; `loop ReadSectors' starts
\* again with five attempts.
SectorRead ==
  /\ pc = "read" /\ ready
  /\ return = "next" => bx < ImageRoom
  /\ Stored(SectorAt(LBACHS(lba)))
  /\ lba' = (lba + 1) % WORD /\ left' = left - 1 /\ bx' = bx + 1
  /\ di' = 5 /\ bad' = 0
  /\ pc' = IF left = 1 THEN return ELSE "read"
  /\ UNCHANGED <<driveVars, return, cluster, at>>

Overrun ==
  /\ pc = "read" /\ return = "next" /\ bx >= ImageRoom
  /\ pc' = "overrun"
  /\ UNCHANGED <<driveVars, memVars, readVars, cluster, at>>

\* Mutant: the drive is not reset.
SectorFailsNoReset ==
  /\ pc = "read" /\ (return = "next" => bx < ImageRoom)
  /\ Stored(Other)
  /\ ready' = FALSE
  /\ bad' = IF ready THEN bad + 1 ELSE bad
  /\ di' = di - 1
  /\ pc' = IF di = 1 THEN "int_18" ELSE "read"
  /\ UNCHANGED <<disk, lba, left, bx, return, cluster, at>>

\* Mutant: `dec di' is left out.
SectorFailsForever ==
  /\ pc = "read" /\ (return = "next" => bx < ImageRoom)
  /\ Stored(Other)
  /\ ready' \in BOOLEAN
  /\ UNCHANGED <<pc, disk, lba, left, bx, di, bad, return, cluster, at>>

\* A read that fails: the drive is reset, `dec di; jnz .sector_loop; int 0x18'.
SectorFails ==
  /\ pc = "read" /\ (return = "next" => bx < ImageRoom)
  /\ Stored(Other)
  /\ ready' \in BOOLEAN
  /\ bad' = bad + (IF ready THEN 1 ELSE 0) + (IF ready' THEN 0 ELSE 1)
  /\ di' = di - 1
  /\ pc' = IF di = 1 THEN "int_18" ELSE "read"
  /\ UNCHANGED <<disk, lba, left, bx, return, cluster, at>>

-----------------------------------------------------------------------------
(* main.                                                                   *)

LOAD_ROOT ==
  /\ pc = "root"
  /\ ReadSectors(RootStart, RootSectors, 0, "key")
  /\ UNCHANGED <<driveVars, memVars, cluster, at>>

\* `int 0x16', once before the search and once before the warm boot.
KeyPressed ==
  /\ \/ pc = "key" /\ pc' = "find"
     \/ pc = "failure" /\ pc' = "int_19"
  /\ UNCHANGED <<driveVars, memVars, readVars, cluster, at>>

\* The search takes as many entries as the directory has, but starts with the
\* second 32 bytes of the boot sector, not with the directory.
EntriesBefore == (BytesPerSector - 32) \div 32
Listed == disk.start # Absent /\ disk.index + EntriesBefore < RootEntries

\* Mutant: the loop ends one entry early.
FindEarly ==
  /\ pc = "find"
  /\ IF Listed /\ disk.index + EntriesBefore < RootEntries - 1
     THEN pc' = "fat" /\ cluster' = disk.start
     ELSE pc' = "failure" /\ UNCHANGED cluster
  /\ UNCHANGED <<driveVars, memVars, readVars, at>>

Find ==
  /\ pc = "find"
  /\ IF Listed THEN pc' = "fat" /\ cluster' = disk.start
               ELSE pc' = "failure" /\ UNCHANGED cluster
  /\ UNCHANGED <<driveVars, memVars, readVars, at>>

LOAD_FAT ==
  /\ pc = "fat"
  /\ ReadSectors(ReservedSector, NumberOfFATs * SectorPerFAT, 0, "image")
  /\ at' = 0
  /\ UNCHANGED <<driveVars, memVars, cluster>>

LOAD_IMAGE ==
  /\ pc = "image"
  /\ ReadSectors(ClusterLBA(cluster), SectorPerCluster, at, "next")
  /\ UNCHANGED <<driveVars, memVars, cluster, at>>

\* A byte of the table is the FAT's if that sector of the FAT is there.
Words(k) ==
  IF \A b \in {k, k + 1} : b \div BytesPerSector \in DOMAIN table
       /\ table[b \div BytesPerSector] = ReservedSector + b \div BytesPerSector
  THEN {FatByte(disk.fat, k) + 256 * FatByte(disk.fat, k + 1)}
  ELSE StrayWords

\* Mutant: the offset on the stack is not brought forward.
NextClusterSamePlace ==
  /\ pc = "next"
  /\ \E w \in Words(EntryOffset(cluster)) : cluster' = TwelveBits(cluster, w)
  /\ pc' = IF cluster' < LastCluster THEN "image" ELSE "stage_2"
  /\ UNCHANGED <<driveVars, memVars, readVars, at>>

\* The offset behind the sectors read is pushed; the jump is a far return.
NextCluster ==
  /\ pc = "next"
  /\ at' = bx
  /\ \E w \in Words(EntryOffset(cluster)) : cluster' = TwelveBits(cluster, w)
  /\ pc' = IF cluster' < LastCluster THEN "image" ELSE "stage_2"
  /\ UNCHANGED <<driveVars, memVars, readVars>>

Boot1Next ==
  \/ LOAD_ROOT \/ Find \/ LOAD_FAT \/ LOAD_IMAGE \/ NextCluster
  \/ SectorRead \/ SectorFails \/ Overrun
-----------------------------------------------------------------------------
Fits == disk.start # Absent /\ Len(disk.file) * SectorPerCluster <= ImageRoom

\* The loader gives up on a sector only when the disk and the resets have
\* failed five times: one error does not use up the other attempts
\* (boot1.asm:53-75).
GivesUpAfterFive == pc = "int_18" => bad >= 5

\* A file the directory lists before its last fifteen entries is found, and a
\* file that fits is never written over the code (boot1.asm:183-196, 238-269).
FoundAndFits ==
  Fits => /\ pc # "overrun"
          /\ pc \in {"failure", "int_19"} => disk.index > RootEntries - 1 - EntriesBefore
=============================================================================
