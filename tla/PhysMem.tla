------------------------------- MODULE PhysMem -------------------------------
(***************************************************************************)
(* The physical memory manager, SysCore/Kernel/mmngr_phys.cpp: one bit per *)
(* 4 KB block, a counter of used blocks, and first-fit searches over the   *)
(* bitmap.  The module has no initial state and no next-state relation: it *)
(* offers the manager's functions as actions, and the modules that extend  *)
(* it (the boot sequence, the clients) say who calls them and when.        *)
(*                                                                         *)
(* The bitmap is the set of the numbers of the bits that are 1.  Bits past *)
(* the end of the bitmap are in the set too: they are the memory that      *)
(* follows it, which the code can reach.                                   *)
(***************************************************************************)
EXTENDS Integers, FiniteSets, FiniteSetsExt

CONSTANTS
  UINT32,    \* modulus of uint32_t and size_t (2^32 in the build)
  WordBits,  \* bits in one word of the bitmap (32)
  LogWord,   \* its logarithm, the shift the searches use (5)
  ByteBits,  \* bits memset fills at a time (8)
  FillBits   \* how many of them the pattern 0x0f sets (4)

ASSUME PhysMemAssumption ==
  /\ UINT32 \in Nat /\ WordBits \in Nat /\ LogWord \in Nat
  /\ ByteBits \in Nat \ {0} /\ FillBits \in 0..ByteBits
  /\ WordBits >= 4 /\ UINT32 >= 8192 * WordBits
  /\ LogWord + 1 < WordBits
  /\ 2^LogWord = WordBits /\ 2^(LogWord + 1) = 2 * WordBits

PMMNGR_BLOCK_SIZE == 4096

VARIABLES
  max_blocks,    \* _mmngr_max_blocks
  used_blocks,   \* _mmngr_used_blocks
  memory_map     \* _mmngr_memory_map: the bits that are 1

pmmVars == <<max_blocks, used_blocks, memory_map>>

pmmngr_get_free_block_count == (max_blocks - used_blocks) % UINT32

-----------------------------------------------------------------------------
(* The searches.  Both walk the words of the bitmap that are not full.     *)

MapWords == (max_blocks + WordBits - 1) \div WordBits

WordFull(w) == \A j \in 0..(WordBits - 1) : w * WordBits + j \in memory_map

\* The left shift of an unsigned 32-bit operand as x86 does it.
Shl(x, n) == (x * 2^(n % WordBits)) % UINT32

\* `if (i << 5 + j > total) return -1;' -- + binds tighter than <<.
GivesUp(b) == Shl(b \div WordBits, LogWord + (b % WordBits)) > max_blocks

\* The bits at which the search for one block stops: it gives up, or it has
\* found a clear bit.
Stops == {b \in 0..(MapWords * WordBits - 1) :
            /\ ~WordFull(b \div WordBits)
            /\ GivesUp(b) \/ b \notin memory_map}

mmap_first_free_block ==
  IF Stops = {} THEN -1
  ELSE IF GivesUp(Min(Stops)) THEN -1
  ELSE Min(Stops)

\* Mutants: the last block of a run is not looked at; a run may end one block
\* past the last.
FreeRunsShort(size) == {b \in 0..(max_blocks - size) :
                          \A k \in 0..(size - 2) : b + k \notin memory_map}

FreeRunsPastEnd(size) == {b \in 0..(max_blocks - size + 1) :
                            \A k \in 0..(size - 1) : b + k \notin memory_map}

\* The starts of the runs of size clear bits that end inside the bitmap.
FreeRuns(size) == {b \in 0..(max_blocks - size) :
                     \A k \in 0..(size - 1) : b + k \notin memory_map}

mmap_first_free_region(size) ==
  IF size = 0 THEN -1
  ELSE IF size = 1 THEN mmap_first_free_block
  ELSE IF FreeRuns(size) = {} THEN -1
  ELSE Min(FreeRuns(size))

-----------------------------------------------------------------------------
(* The manager's functions.  A pointer is a physical address; 0 is NULL.   *)

\* The blocks of n * 4 KB that start at address p.
Run(p, n) == (p \div PMMNGR_BLOCK_SIZE)..(p \div PMMNGR_BLOCK_SIZE + n - 1)

pmmngr_init(memSize) ==
  LET max    == ((memSize * 1024) % UINT32) \div PMMNGR_BLOCK_SIZE
      filled == (max \div ByteBits) * ByteBits
  IN  /\ max_blocks' = max
      /\ used_blocks' = max
      /\ memory_map' = {b \in memory_map : b >= filled}
                         \cup {b \in 0..(filled - 1) : b % ByteBits < FillBits}

\* Mutant: `block > 0'.
RegionBlocksExact(size) == size \div PMMNGR_BLOCK_SIZE

\* `for (; block >= 0; block--)' runs once more than size holds blocks.
RegionBlocks(size) == size \div PMMNGR_BLOCK_SIZE + 1

pmmngr_init_region(size, base) ==
  /\ memory_map' = (memory_map \ Run(base, RegionBlocks(size))) \cup {0}
  /\ used_blocks' = (used_blocks - RegionBlocks(size)) % UINT32
  /\ UNCHANGED max_blocks

pmmngr_deinit_region(size, base) ==
  /\ memory_map' = memory_map \ Run(base, RegionBlocks(size))
  /\ used_blocks' = (used_blocks + RegionBlocks(size)) % UINT32
  /\ UNCHANGED max_blocks

\* The frame a call of pmmngr_alloc_block or pmmngr_alloc_regions settles on.
BlockFrame == IF pmmngr_get_free_block_count = 0 THEN -1
              ELSE mmap_first_free_block

RegionFrame(size) == IF pmmngr_get_free_block_count <= size THEN -1
                     ELSE mmap_first_free_region(size)

\* Mark n blocks from frame on: what both allocators do with a frame.
TakeFrames(frame, n) ==
  /\ memory_map' = memory_map \cup frame..(frame + n - 1)
  /\ used_blocks' = (used_blocks + n) % UINT32
  /\ UNCHANGED max_blocks

\* p is the pointer the call returns.
pmmngr_alloc_block(p) ==
  \/ /\ BlockFrame = -1
     /\ p = 0
     /\ UNCHANGED pmmVars
  \/ /\ BlockFrame # -1
     /\ p = BlockFrame * PMMNGR_BLOCK_SIZE
     /\ TakeFrames(BlockFrame, 1)

pmmngr_alloc_regions(p, size) ==
  \/ /\ RegionFrame(size) = -1
     /\ p = 0
     /\ UNCHANGED pmmVars
  \/ /\ RegionFrame(size) # -1
     /\ p = RegionFrame(size) * PMMNGR_BLOCK_SIZE
     /\ TakeFrames(RegionFrame(size), size)

\* Mutants: the last block of the run stays marked; the counter loses one block.
FreeRegionsShort(p, size) ==
  /\ memory_map' = memory_map \ Run(p, size - 1)
  /\ used_blocks' = (used_blocks - size) % UINT32
  /\ UNCHANGED max_blocks

FreeRegionsCountOne(p, size) ==
  /\ memory_map' = memory_map \ Run(p, size)
  /\ used_blocks' = (used_blocks - 1) % UINT32
  /\ UNCHANGED max_blocks

pmmngr_free_regions(p, size) ==
  /\ memory_map' = memory_map \ Run(p, size)
  /\ used_blocks' = (used_blocks - size) % UINT32
  /\ UNCHANGED max_blocks

\* Mutant: the bit is not cleared.
FreeBlockCountOnly(p) ==
  /\ used_blocks' = (used_blocks - 1) % UINT32
  /\ UNCHANGED <<max_blocks, memory_map>>

pmmngr_free_block(p) ==
  /\ memory_map' = memory_map \ {p \div PMMNGR_BLOCK_SIZE}
  /\ used_blocks' = (used_blocks - 1) % UINT32
  /\ UNCHANGED max_blocks
=============================================================================
