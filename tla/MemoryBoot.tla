------------------------------ MODULE MemoryBoot ------------------------------
(***************************************************************************)
(* How the kernel's main() (SysCore/Kernel/main.cpp:60-101) brings up the  *)
(* physical memory manager: it scans the BIOS memory map for the end of    *)
(* memory, puts the bitmap behind the kernel, releases the available       *)
(* regions one by one and then calls pmmngr_deinit_region for the kernel.  *)
(* One action is one iteration of a loop or one call.                      *)
(***************************************************************************)
EXTENDS PhysMem, Sequences

CONSTANTS
  MemoryMaps,   \* the memory maps a BIOS may report
  KernelSizes,  \* what dx may hold when main() stores it in kernelSize
  Garbage,      \* what the memory under the bitmap may hold at power-on
  KERNEL_BASE   \* 0x100000: where the kernel is loaded

Entries == [start : Nat, size : Nat, type : Nat]

\* main() reads start_Lo and sizeLo and ignores the high halves.
start_Lo(r) == r.start % UINT32
sizeLo(r) == r.size % UINT32

\* start_address + length, in 32 bits.
EndLo(r) == (start_Lo(r) + sizeLo(r)) % UINT32

\* A machine reports at least one word's worth of blocks (a PC has 640 KB),
\* and memory it reports as available does not run across 4 GB.
ASSUME MemoryBootAssumption ==
  /\ MemoryMaps \subseteq Seq(Entries)
  /\ KernelSizes \subseteq Nat
  /\ Garbage \subseteq SUBSET Nat
  /\ KERNEL_BASE \in Nat
  /\ \A m \in MemoryMaps :
       /\ \E k \in 1..Len(m) : EndLo(m[k]) >= WordBits * PMMNGR_BLOCK_SIZE
       /\ \A k \in 1..Len(m) :
            m[k].type = 1 => start_Lo(m[k]) + sizeLo(m[k]) < UINT32

VARIABLES
  pc,           \* where main() is
  i,            \* its loop counter
  region,       \* the memory map at 0x1000
  totalMemory,  \* the end of memory found by the scan
  kernelSize    \* the kernel's size in sectors, as main() believes it

mainVars == <<pc, i, region, totalMemory, kernelSize>>
bootVars == <<pmmVars, mainVars>>

Init ==
  /\ pc = "scan"
  /\ i = 0
  /\ region \in MemoryMaps
  /\ kernelSize \in KernelSizes
  /\ totalMemory = 0
  /\ max_blocks = 0
  /\ used_blocks = 0
  /\ memory_map \in Garbage

\* Mutant: the length of a region is taken for its end.
ScanLengths ==
  /\ pc = "scan"
  /\ i < Len(region)
  /\ region' = [region EXCEPT ![i + 1].type = IF @ > 4 THEN 2 ELSE @]
  /\ totalMemory' = LET end == sizeLo(region[i + 1])
                    IN  IF totalMemory < end THEN end ELSE totalMemory
  /\ i' = i + 1
  /\ UNCHANGED <<pc, kernelSize, pmmVars>>

\* `if (region[i].type > 4) region[i].type = 2;' and the running maximum.
ScanRegion ==
  /\ pc = "scan"
  /\ i < Len(region)
  /\ region' = [region EXCEPT ![i + 1].type = IF @ > 4 THEN 2 ELSE @]
  /\ totalMemory' = LET end == EndLo(region[i + 1])
                    IN  IF totalMemory < end THEN end ELSE totalMemory
  /\ i' = i + 1
  /\ UNCHANGED <<pc, kernelSize, pmmVars>>

\* `totalMemory >> 10', then the call of pmmngr_init.
InitManager ==
  /\ pc = "scan"
  /\ i = Len(region)
  /\ totalMemory' = totalMemory \div 1024
  /\ pmmngr_init(totalMemory')
  /\ i' = 0
  /\ pc' = "regions"
  /\ UNCHANGED <<region, kernelSize>>

InitRegion ==
  /\ pc = "regions"
  /\ i < Len(region)
  /\ i' = i + 1
  /\ IF region[i + 1].type = 1
     THEN pmmngr_init_region(sizeLo(region[i + 1]), start_Lo(region[i + 1]))
     ELSE UNCHANGED pmmVars
  /\ UNCHANGED <<pc, region, totalMemory, kernelSize>>

RegionsDone ==
  /\ pc = "regions"
  /\ i = Len(region)
  /\ pc' = "deinit"
  /\ UNCHANGED <<i, region, totalMemory, kernelSize, pmmVars>>

\* The parameters are (size, base); main() passes the base as the size.
DeinitKernel ==
  /\ pc = "deinit"
  /\ pmmngr_deinit_region(KERNEL_BASE, kernelSize * 512)
  /\ pc' = "running"
  /\ UNCHANGED <<i, region, totalMemory, kernelSize>>

BootNext ==
  \/ ScanRegion
  \/ InitManager
  \/ InitRegion
  \/ RegionsDone
  \/ DeinitKernel

BootSpec == Init /\ [][BootNext]_bootVars
-----------------------------------------------------------------------------
BootTypeOK ==
  /\ pc \in {"scan", "regions", "deinit", "running"}
  /\ region \in Seq(Entries)
  /\ i \in 0..Len(region)
  /\ totalMemory \in 0..(UINT32 - 1)
  /\ kernelSize \in Nat
  /\ max_blocks \in 0..(UINT32 \div PMMNGR_BLOCK_SIZE)
  /\ used_blocks \in 0..(UINT32 - 1)
  /\ memory_map \subseteq Nat

\* The scan's maximum covers what it has seen, and the bitmap is sized by it:
\* no region ends past the block that follows the last (main.cpp:73-92).
ScanCovers ==
  /\ \E k \in 1..Len(region) : EndLo(region[k]) >= WordBits * PMMNGR_BLOCK_SIZE
  /\ \A k \in 1..Len(region) :
       region[k].type = 1 => start_Lo(region[k]) + sizeLo(region[k]) < UINT32
  /\ pc = "scan" => \A k \in 1..i : EndLo(region[k]) =< totalMemory
  /\ pc # "scan" => /\ max_blocks >= WordBits
                    /\ \A k \in 1..Len(region) :
                         EndLo(region[k]) \div PMMNGR_BLOCK_SIZE =< max_blocks

\* The blocks all of whose bytes lie in region r.
Covered(r) == {b \in 0..(UINT32 \div PMMNGR_BLOCK_SIZE) :
                 /\ b * PMMNGR_BLOCK_SIZE >= start_Lo(r)
                 /\ (b + 1) * PMMNGR_BLOCK_SIZE <= start_Lo(r) + sizeLo(r)}

\* When main() has walked the map, every block that lies wholly in memory the
\* BIOS reports as available is free, except block 0 -- wherever the regions
\* start and end, and whatever regions follow (mmngr_phys.cpp:110-120).
RegionsReleased ==
  pc = "deinit" =>
    \A k \in 1..Len(region) :
      region[k].type = 1 => Covered(region[k]) \cap memory_map \subseteq {0}

\* The bitmap is sized before the regions are walked, from a maximum computed
\* in 32 bits over other fields: still, releasing a region never clears a bit
\* past the one that follows the last block (main.cpp:87-99).
WritesInsideMap ==
  [][pc = "regions" => memory_map \ memory_map' \subseteq 0..max_blocks]_bootVars

\* What "deinit the region the kernel is in as its in use" (main.cpp:100) says:
\* the kernel's blocks are marked once main() has done so.
KernelFramesInUse ==
  pc = "running" =>
    \A b \in 0..(max_blocks - 1) :
      (/\ b * PMMNGR_BLOCK_SIZE >= KERNEL_BASE
       /\ b * PMMNGR_BLOCK_SIZE < KERNEL_BASE + kernelSize * 512) => b \in memory_map
=============================================================================
