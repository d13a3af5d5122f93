----------------------------- MODULE FrameClients -----------------------------
(***************************************************************************)
(* The kernel once main() has brought up the physical memory manager:      *)
(* code that calls pmmngr_alloc_block and pmmngr_alloc_regions in any      *)
(* order, keeps the pointers it gets, and frees each pointer at most once, *)
(* with the size it asked for.  A NULL return is an allocation that        *)
(* failed, and the caller keeps nothing.                                   *)
(***************************************************************************)
EXTENDS MemoryBoot

CONSTANTS
  RequestSizes,  \* the sizes passed to pmmngr_alloc_regions
  MaxHeld        \* bound: how many pointers the clients hold at a time

ASSUME FrameClientsAssumption == RequestSizes \subseteq Nat

VARIABLES
  held,     \* what clients hold: <<pointer, number of blocks>>
  started   \* history: the bitmap when the clients started

clientVars == <<bootVars, held, started>>

ClientsInit == Init /\ held = {} /\ started = {}

ClientsBoot ==
  /\ BootNext
  /\ started' = IF pc' = "running" THEN memory_map' ELSE started
  /\ UNCHANGED held

\* What the caller makes of the pointer p it gets back.
Keep(p, n) == held' = IF p = 0 THEN held ELSE held \cup {<<p, n>>}

\* The pointers the two allocators may return: NULL or a block's address.
ClientPointers == {b * PMMNGR_BLOCK_SIZE : b \in 0..(MapWords * WordBits)}

AllocBlock ==
  /\ pc = "running"
  /\ Cardinality(held) < MaxHeld
  /\ \E p \in ClientPointers : pmmngr_alloc_block(p) /\ Keep(p, 1)
  /\ UNCHANGED <<mainVars, started>>

AllocRegions(size) ==
  /\ pc = "running"
  /\ Cardinality(held) < MaxHeld
  /\ \E p \in ClientPointers : pmmngr_alloc_regions(p, size) /\ Keep(p, size)
  /\ UNCHANGED <<mainVars, started>>

FreeBlock(h) ==
  /\ pc = "running"
  /\ h[2] = 1
  /\ pmmngr_free_block(h[1])
  /\ held' = held \ {h}
  /\ UNCHANGED <<mainVars, started>>

FreeRegions(h) ==
  /\ pc = "running"
  /\ pmmngr_free_regions(h[1], h[2])
  /\ held' = held \ {h}
  /\ UNCHANGED <<mainVars, started>>

ClientStep ==
  \/ AllocBlock
  \/ \E size \in RequestSizes : AllocRegions(size)
  \/ \E h \in held : FreeBlock(h) \/ FreeRegions(h)

ClientsNext == ClientsBoot \/ ClientStep

ClientsSpec == ClientsInit /\ [][ClientsNext]_clientVars
-----------------------------------------------------------------------------
HeldBlocks == UNION {Run(h[1], h[2]) : h \in held}

ClientsTypeOK ==
  /\ BootTypeOK
  /\ held \subseteq (Nat \ {0}) \X (Nat \ {0})
  /\ started \subseteq Nat
  /\ pc # "running" => held = {}

\* Nothing is lost: the marked blocks are those marked when the clients started
\* and those the clients hold, so a client that frees everything gives back
\* everything, and no client holds a block that was in use before it started
\* (mmngr_phys.cpp:131-175).  It takes block 0 to be marked: its address is
\* NULL, so a run that starts there is marked and then lost.
Conservation ==
  pc = "running" =>
    /\ HeldBlocks \cap started = {}
    /\ 0 \in started => memory_map = started \cup HeldBlocks

\* What clients hold exists, is marked and has one holder.
LentOnce ==
  pc = "running" =>
    /\ \A h \in held : Run(h[1], h[2]) \subseteq memory_map \cap 1..(max_blocks - 1)
    /\ \A g, h \in held : g # h => Run(g[1], g[2]) \cap Run(h[1], h[2]) = {}
    /\ started \subseteq memory_map

\* The inductive invariant of the proofs.
Inv == ClientsTypeOK /\ ScanCovers /\ LentOnce /\ Conservation

\* The counter follows the bitmap: an operation changes the count of used
\* blocks by the number of bits it changes (mmngr_phys.cpp:138-174).
CountTracksMap ==
  [][pc = "running" =>
       used_blocks' = (used_blocks + Cardinality(memory_map' \ memory_map)
                         - Cardinality(memory_map \ memory_map')) % UINT32]_clientVars

\* The clients see a BlockAllocator.
Allocator == INSTANCE BlockAllocator WITH
  Sizes  <- 0..(UINT32 \div PMMNGR_BLOCK_SIZE),
  blocks <- IF pc = "running" THEN 1..(max_blocks - 1) ELSE {},
  lent   <- {Run(h[1], h[2]) : h \in held}

\* Every frame lent exists and is lent to one client at a time.
ImplementsAllocator == Allocator!Spec
=============================================================================
