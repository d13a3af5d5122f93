------------------------------ MODULE MemoryProofs ------------------------------
(***************************************************************************)
(* The memory managers.  Of the physical one, the boot that sets it up and *)
(* the clients that call it: what its searches return, for every word      *)
(* width and every bitmap; what the boot does, for every memory map that   *)
(* MemoryBootAssumption admits; and what any number of clients may expect, *)
(* for any sizes of their requests.  Of the virtual one: who owns which    *)
(* frame, for every machine, every size of a paging structure and every    *)
(* order of the calls.                                                     *)
(***************************************************************************)
EXTENDS FrameClients, VirtMem, FiniteSetTheorems, TLAPS

-----------------------------------------------------------------------------
(* Natural numbers.                                                        *)

\* A nonempty set of naturals has a least element, and Min finds it: of the
\* intervals 0..s, one has none strictly inside it.
LEMMA MinIsMember ==
  ASSUME NEW S \in SUBSET Nat, S # {}
  PROVE  Min(S) \in S /\ \A s \in S : Min(S) =< s
<1> DEFINE T == {0..s : s \in S}
<1>1. T \subseteq FiniteSubsetsOf(Nat)
  <2>1. \A s \in S : IsFiniteSet(0..s) /\ 0..s \subseteq Nat
    BY FS_Interval
  <2> QED BY <2>1 DEF FiniteSubsetsOf
<1>2. T # {}
  OBVIOUS
<1>3. PICK t \in T : \A u \in T : ~(<<u, t>> \in StrictSubsetOrdering(Nat))
  <2> HIDE DEF T
  <2> QED BY <1>1, <1>2, FS_StrictSubsetOrderingWellFounded, WFMin
<1>4. PICK x \in S : t = 0..x
  OBVIOUS
<1>5. \A s \in S : x =< s
  <2>1. SUFFICES ASSUME NEW s \in S, ~(x =< s) PROVE FALSE
    OBVIOUS
  <2>2. 0..s \subseteq 0..x /\ 0..s # 0..x
    BY <2>1
  <2>3. <<0..s, 0..x>> \in StrictSubsetOrdering(Nat)
    BY <2>2 DEF StrictSubsetOrdering
  <2> QED BY <2>3, <1>3, <1>4
<1> QED BY <1>5 DEF Min

\* Division with remainder, and that it is the only one.
LEMMA DivMod ==
  ASSUME NEW n \in Nat, NEW w \in Nat \ {0}
  PROVE  /\ n \div w \in Nat
         /\ n % w \in 0..(w - 1)
         /\ n = (n \div w) * w + (n % w)
OBVIOUS

LEMMA DivModUnique ==
  ASSUME NEW w \in Nat \ {0}, NEW q \in Nat, NEW r \in 0..(w - 1)
  PROVE  (q * w + r) \div w = q /\ (q * w + r) % w = r
<1> DEFINE n == q * w + r
           d == n \div w
           m == n % w
<1>1. n \in Nat
  OBVIOUS
<1>2. d \in Nat /\ m \in 0..(w - 1) /\ n = d * w + m
  BY <1>1, DivMod
<1> HIDE DEF d, m
<1>3. (d - q) * w = r - m
  BY <1>2
<1>4. d = q
  <2>1. CASE d > q
    <3>1. (d - q) * w >= w
      BY <2>1, <1>2
    <3> QED BY <3>1, <1>2, <1>3
  <2>2. CASE d < q
    <3>1. (q - d) * w >= w
      BY <2>2, <1>2
    <3>2. (q - d) * w = m - r
      BY <1>2
    <3> QED BY <3>1, <3>2, <1>2
  <2> QED BY <2>1, <2>2, <1>2
<1>5. m = r
  BY <1>2, <1>4
<1> QED BY <1>4, <1>5 DEF d, m

-----------------------------------------------------------------------------
(* The searches of the physical memory manager.                            *)

\* The words of the bitmap hold less than one word more than the blocks.
LEMMA MapWordsBound ==
  ASSUME max_blocks \in Nat
  PROVE  /\ MapWords \in Nat
         /\ MapWords * WordBits =< max_blocks + WordBits - 1
<1> DEFINE n == max_blocks + WordBits - 1
<1>1. WordBits \in Nat \ {0} /\ n \in Nat
  BY PhysMemAssumption
<1>2. /\ n \div WordBits \in Nat
      /\ n % WordBits \in 0..(WordBits - 1)
      /\ n = (n \div WordBits) * WordBits + (n % WordBits)
  <2> HIDE DEF n
  <2> QED BY <1>1, DivMod
<1>3. (n \div WordBits) * WordBits =< n
  BY <1>1, <1>2
<1> QED BY <1>2, <1>3 DEF MapWords

\* In the word that holds the end of memory, the search gives up at bit 1.
LEMMA GivesUpAtBitOne ==
  ASSUME max_blocks \in WordBits..(UINT32 \div PMMNGR_BLOCK_SIZE),
         NEW w \in Nat \ {0}, w * WordBits < max_blocks,
         max_blocks < (w + 1) * WordBits
  PROVE  GivesUp(w * WordBits + 1)
<1>1. WordBits \in Nat \ {0} /\ WordBits >= 4 /\ UINT32 \in Nat
  BY PhysMemAssumption
<1>2. (w * WordBits + 1) \div WordBits = w /\ (w * WordBits + 1) % WordBits = 1
  BY <1>1, DivModUnique
<1>3. (LogWord + 1) % WordBits = LogWord + 1
  BY PhysMemAssumption
<1>4. w * 2^((LogWord + 1) % WordBits) = 2 * (w * WordBits)
  <2>1. 2^(LogWord + 1) = 2 * WordBits
    BY PhysMemAssumption
  <2> QED BY <1>1, <1>3, <2>1
<1>5. 2 * (w * WordBits) < UINT32
  <2>1. max_blocks * 4096 =< UINT32
    BY <1>1 DEF PMMNGR_BLOCK_SIZE
  <2> QED BY <2>1, <1>1
<1>6. 2 * (w * WordBits) > max_blocks
  <2>1. w * WordBits >= WordBits
    BY <1>1
  <2>2. (w + 1) * WordBits = w * WordBits + WordBits
    BY <1>1
  <2> QED BY <2>1, <2>2, <1>1
<1>7. Shl(w, LogWord + 1) = 2 * (w * WordBits)
  BY <1>1, <1>4, <1>5 DEF Shl
<1> QED BY <1>2, <1>6, <1>7 DEF GivesUp

\* mmap_first_free_block returns -1 or a clear bit that stands for a block of
\* the machine, although for most words the code compares something else than
\* the bit's number with the number of blocks.
LEMMA FirstFreeBlock ==
  ASSUME max_blocks \in WordBits..(UINT32 \div PMMNGR_BLOCK_SIZE),
         mmap_first_free_block # -1
  PROVE  /\ mmap_first_free_block \in 0..(max_blocks - 1)
         /\ mmap_first_free_block \notin memory_map
<1> DEFINE b == Min(Stops)
           w == b \div WordBits
           c == w * WordBits + 1
<1>1. WordBits \in Nat \ {0} /\ WordBits >= 4 /\ max_blocks \in Nat
  BY PhysMemAssumption DEF PMMNGR_BLOCK_SIZE
<1>2. Stops # {} /\ ~GivesUp(b) /\ mmap_first_free_block = b
  BY DEF mmap_first_free_block
<1>3. MapWords \in Nat /\ MapWords * WordBits =< max_blocks + WordBits - 1
  BY <1>1, MapWordsBound
<1>4. Stops \subseteq Nat
  BY <1>1, <1>3 DEF Stops
<1>5. b \in Stops /\ \A s \in Stops : b =< s
  BY <1>2, <1>4, MinIsMember
<1>6. b \in Nat /\ b < MapWords * WordBits /\ ~WordFull(w) /\ b \notin memory_map
  BY <1>1, <1>2, <1>3, <1>5 DEF Stops
<1>7. w \in Nat /\ b % WordBits \in 0..(WordBits - 1) /\ b = w * WordBits + (b % WordBits)
  BY <1>1, <1>6, DivMod
<1>8. b < max_blocks
  <2>1. SUFFICES ASSUME b >= max_blocks PROVE FALSE
    BY <1>1, <1>6
  <2> HIDE DEF b, w
  <2>2. w < MapWords
    <3>1. SUFFICES ASSUME w >= MapWords PROVE FALSE
      BY <1>3, <1>7
    <3>2. w * WordBits >= MapWords * WordBits
      BY <3>1, <1>1, <1>3, <1>7
    <3> QED BY <3>2, <1>1, <1>3, <1>6, <1>7
  <2>3. w * WordBits + WordBits =< MapWords * WordBits
    <3>1. (w + 1) * WordBits =< MapWords * WordBits
      BY <2>2, <1>1, <1>3, <1>7
    <3> QED BY <3>1, <1>1, <1>7
  <2>4. w * WordBits < max_blocks /\ max_blocks < (w + 1) * WordBits
    <3>1. (w + 1) * WordBits = w * WordBits + WordBits
      BY <1>1, <1>7
    <3> QED BY <3>1, <2>1, <2>3, <1>1, <1>3, <1>7
  <2>5. w # 0
    BY <2>4, <1>1
  <2>6. GivesUp(c)
    BY <2>4, <2>5, <1>7, GivesUpAtBitOne
  <2>7. c \div WordBits = w
    <3>1. 1 \in 0..(WordBits - 1)
      BY <1>1
    <3> QED BY <3>1, <1>1, <1>7, DivModUnique
  <2>8. c =< b
    BY <2>1, <2>4, <1>1, <1>7
  <2>9. c \in 0..(MapWords * WordBits - 1)
    BY <2>3, <1>1, <1>3, <1>7
  <2>10. c \in Stops
    BY <2>6, <2>7, <2>9, <1>6 DEF Stops
  <2>11. b = c
    BY <2>8, <2>10, <1>5, <1>6, <1>7, <1>1
  <2> QED BY <2>6, <2>11, <1>2
<1> QED BY <1>1, <1>2, <1>6, <1>8

\* mmap_first_free_region returns -1 or the start of a run of clear bits that
\* ends inside the bitmap.
LEMMA FirstFreeRegion ==
  ASSUME max_blocks \in WordBits..(UINT32 \div PMMNGR_BLOCK_SIZE),
         NEW size \in Nat, mmap_first_free_region(size) # -1
  PROVE  /\ size > 0
         /\ mmap_first_free_region(size) \in 0..(max_blocks - size)
         /\ \A k \in 0..(size - 1) : mmap_first_free_region(size) + k \notin memory_map
<1>1. max_blocks \in Nat
  BY PhysMemAssumption DEF PMMNGR_BLOCK_SIZE
<1>2. size # 0
  BY DEF mmap_first_free_region
<1>3. CASE size = 1
  <2>1. mmap_first_free_region(size) = mmap_first_free_block
    BY <1>3 DEF mmap_first_free_region
  <2> QED BY <2>1, <1>3, <1>1, FirstFreeBlock
<1>4. CASE size > 1
  <2>1. FreeRuns(size) # {} /\ mmap_first_free_region(size) = Min(FreeRuns(size))
    BY <1>4 DEF mmap_first_free_region
  <2>2. FreeRuns(size) \subseteq Nat
    BY <1>1 DEF FreeRuns
  <2>3. Min(FreeRuns(size)) \in FreeRuns(size)
    BY <2>1, <2>2, MinIsMember
  <2> QED BY <2>1, <2>3, <1>4 DEF FreeRuns
<1> QED BY <1>2, <1>3, <1>4

-----------------------------------------------------------------------------
(* The boot sequence.                                                      *)

\* A 32-bit number of KB, times 1024, in blocks of 4 KB: the number of whole
\* blocks below the address the number was computed from.
LEMMA WholeBlocks ==
  ASSUME NEW t \in 0..(UINT32 - 1)
  PROVE  /\ (((t \div 1024) * 1024) % UINT32) \div PMMNGR_BLOCK_SIZE
              = t \div PMMNGR_BLOCK_SIZE
         /\ t \div PMMNGR_BLOCK_SIZE \in 0..(UINT32 \div PMMNGR_BLOCK_SIZE)
         /\ t \div 1024 \in 0..(UINT32 - 1)
<1>1. UINT32 \in Nat \ {0} /\ t \in Nat
  BY PhysMemAssumption
<1>2. (t \div 1024) * 1024 \in 0..(UINT32 - 1)
  BY <1>1
<1>3. ((t \div 1024) * 1024) % UINT32 = (t \div 1024) * 1024
  BY <1>1, <1>2
<1>4. ((t \div 1024) * 1024) \div 4096 = t \div 4096
  BY <1>1
<1>5. t \div 4096 \in 0..(UINT32 \div 4096) /\ t \div 1024 \in 0..(UINT32 - 1)
  BY <1>1
<1> QED BY <1>3, <1>4, <1>5 DEF PMMNGR_BLOCK_SIZE

\* The low halves the code reads of a memory map entry.
LEMMA LowHalves ==
  ASSUME NEW r \in Entries
  PROVE  /\ start_Lo(r) \in 0..(UINT32 - 1)
         /\ sizeLo(r) \in 0..(UINT32 - 1)
         /\ EndLo(r) \in 0..(UINT32 - 1)
BY PhysMemAssumption DEF Entries, start_Lo, sizeLo, EndLo

\* The manager's counter stays a uint32_t and its bitmap a set of bits.
LEMMA CountersTyped ==
  ASSUME used_blocks \in 0..(UINT32 - 1), NEW n \in Nat
  PROVE  /\ (used_blocks + n) % UINT32 \in 0..(UINT32 - 1)
         /\ (used_blocks - n) % UINT32 \in 0..(UINT32 - 1)
<1>1. UINT32 \in Nat \ {0}
  BY PhysMemAssumption
<1> QED BY <1>1

LEMMA BootInit == Init => BootTypeOK /\ ScanCovers
<1> SUFFICES ASSUME Init PROVE BootTypeOK /\ ScanCovers
  OBVIOUS
<1>1. UINT32 \in Nat \ {0} /\ region \in Seq(Entries) /\ memory_map \subseteq Nat
      /\ kernelSize \in Nat
  BY PhysMemAssumption, MemoryBootAssumption DEF Init
<1>2. BootTypeOK
  BY <1>1 DEF Init, BootTypeOK, PMMNGR_BLOCK_SIZE
<1>3. ScanCovers
  BY MemoryBootAssumption DEF Init, ScanCovers
<1> QED BY <1>2, <1>3

\* An iteration of the scan changes nothing of an entry but its type, and
\* makes no entry an available one.
LEMMA ScanKeepsEntries ==
  ASSUME BootTypeOK, ScanRegion
  PROVE  /\ region' \in Seq(Entries)
         /\ Len(region') = Len(region)
         /\ \A k \in 1..Len(region) :
              /\ region'[k].start = region[k].start
              /\ region'[k].size = region[k].size
              /\ region'[k].type = 1 => region[k].type = 1
<1>1. region \in Seq(Entries) /\ i + 1 \in 1..Len(region)
  BY DEF BootTypeOK, ScanRegion
<1> DEFINE t == IF region[i + 1].type > 4 THEN 2 ELSE region[i + 1].type
<1>2. region' = [region EXCEPT ![i + 1].type = t]
  BY DEF ScanRegion
<1>3. region[i + 1] \in Entries
  BY <1>1
<1>4. t \in Nat /\ (t = 1 => region[i + 1].type = 1)
  BY <1>3 DEF Entries
<1> HIDE DEF t
<1>5. [region[i + 1] EXCEPT !.type = t] \in Entries
  BY <1>3, <1>4 DEF Entries
<1>6. region' = [region EXCEPT ![i + 1] = [region[i + 1] EXCEPT !.type = t]]
  BY <1>1, <1>2
<1>7. region' \in Seq(Entries) /\ Len(region') = Len(region)
  BY <1>1, <1>5, <1>6
<1>8. \A k \in 1..Len(region) :
        region'[k] = IF k = i + 1 THEN [region[i + 1] EXCEPT !.type = t] ELSE region[k]
  BY <1>1, <1>6
<1>9. \A k \in 1..Len(region) : region[k] \in Entries
  BY <1>1
<1> QED BY <1>3, <1>4, <1>7, <1>8, <1>9 DEF Entries
\* The block where a region's release ends is at most the block its end is in.
LEMMA ReleaseEnds ==
  ASSUME NEW r \in Entries, start_Lo(r) + sizeLo(r) < UINT32
  PROVE  \A b \in Run(start_Lo(r), RegionBlocks(sizeLo(r))) :
           b \in 0..(EndLo(r) \div PMMNGR_BLOCK_SIZE)
<1> DEFINE s == start_Lo(r)
           n == sizeLo(r)
<1>1. s \in Nat /\ n \in Nat /\ UINT32 \in Nat \ {0}
  BY LowHalves, PhysMemAssumption
<1>2. EndLo(r) = s + n
  BY <1>1 DEF EndLo
<1> HIDE DEF s, n
<1>3. s \div 4096 + n \div 4096 =< (s + n) \div 4096 /\ s \div 4096 \in Nat
      /\ n \div 4096 \in Nat /\ (s + n) \div 4096 \in Nat
  BY <1>1
<1>4. Run(s, RegionBlocks(n)) = (s \div 4096)..(s \div 4096 + n \div 4096)
  BY <1>3 DEF Run, RegionBlocks, PMMNGR_BLOCK_SIZE
<1> QED BY <1>2, <1>3, <1>4 DEF s, n, PMMNGR_BLOCK_SIZE

LEMMA BootStep == BootTypeOK /\ ScanCovers /\ [BootNext]_bootVars
                    => BootTypeOK' /\ ScanCovers'
<1> SUFFICES ASSUME BootTypeOK, ScanCovers, [BootNext]_bootVars
             PROVE  BootTypeOK' /\ ScanCovers'
  OBVIOUS
<1>0. /\ UINT32 \in Nat \ {0} /\ WordBits \in Nat
      /\ region \in Seq(Entries) /\ Len(region) \in Nat
      /\ \A k \in 1..Len(region) : region[k] \in Entries
  BY PhysMemAssumption DEF BootTypeOK
<1>1. CASE ScanRegion
  <2>1. /\ region' \in Seq(Entries) /\ Len(region') = Len(region)
        /\ \A k \in 1..Len(region) :
              /\ start_Lo(region'[k]) = start_Lo(region[k])
              /\ sizeLo(region'[k]) = sizeLo(region[k])
              /\ EndLo(region'[k]) = EndLo(region[k])
              /\ region'[k].type = 1 => region[k].type = 1
    BY <1>1, ScanKeepsEntries DEF start_Lo, sizeLo, EndLo
  <2>2. i \in 0..Len(region) /\ i < Len(region) /\ i' = i + 1 /\ i + 1 \in 1..Len(region)
    BY <1>0, <1>1 DEF ScanRegion, BootTypeOK
  <2>3. EndLo(region[i + 1]) \in 0..(UINT32 - 1)
    BY <1>0, <2>2, LowHalves
  <2>4. /\ totalMemory' \in 0..(UINT32 - 1)
        /\ totalMemory =< totalMemory' /\ EndLo(region[i + 1]) =< totalMemory'
    BY <1>0, <1>1, <2>3 DEF ScanRegion, BootTypeOK
  <2>5. BootTypeOK'
    BY <1>0, <1>1, <2>1, <2>2, <2>4 DEF ScanRegion, BootTypeOK, pmmVars
  <2>6. \A k \in 1..i' : EndLo(region'[k]) =< totalMemory'
    <3>1. TAKE k \in 1..i'
    <3>2. k \in 1..Len(region) /\ (k \in 1..i \/ k = i + 1)
      BY <2>2, <1>0
    <3>3. EndLo(region'[k]) = EndLo(region[k]) /\ EndLo(region[k]) \in Nat
      <4>1. EndLo(region'[k]) = EndLo(region[k])
        BY <3>2, <2>1
      <4>2. EndLo(region[k]) \in 0..(UINT32 - 1)
        BY <3>2, <1>0, LowHalves
      <4> QED BY <4>1, <4>2, MemoryBootAssumption
    <3>4. CASE k = i + 1
      BY <3>3, <3>4, <2>4
    <3>5. CASE k \in 1..i
      <4>1. EndLo(region[k]) =< totalMemory
        BY <3>5, <1>1 DEF ScanCovers, ScanRegion
      <4> QED BY <4>1, <3>3, <2>4, <1>0 DEF BootTypeOK
    <3> QED BY <3>2, <3>4, <3>5
  <2>7. pc' = "scan"
    BY <1>1 DEF ScanRegion
  <2> QED BY <2>1, <2>5, <2>6, <2>7 DEF ScanCovers
<1>2. CASE InitManager
  <2>1. totalMemory \in 0..(UINT32 - 1) /\ pc = "scan" /\ i = Len(region)
        /\ pc' = "regions" /\ region' = region /\ kernelSize' = kernelSize /\ i' = 0
        /\ totalMemory' = totalMemory \div 1024
    BY <1>2 DEF BootTypeOK, InitManager
  <2> DEFINE max    == (((totalMemory \div 1024) * 1024) % UINT32) \div PMMNGR_BLOCK_SIZE
             filled == (max \div ByteBits) * ByteBits
  <2>0. /\ max_blocks' = max
        /\ used_blocks' = max
        /\ memory_map' = {b \in memory_map : b >= filled}
                           \cup {b \in 0..(filled - 1) : b % ByteBits < FillBits}
    <3>1. pmmngr_init(totalMemory \div 1024)
      BY <1>2 DEF InitManager
    <3> QED BY <3>1 DEF pmmngr_init
  <2>2. max_blocks' = totalMemory \div PMMNGR_BLOCK_SIZE /\ used_blocks' = max_blocks'
    <3>1. totalMemory \in 0..(UINT32 - 1)
      BY <2>1
    <3>2. \A t \in 0..(UINT32 - 1) :
            (((t \div 1024) * 1024) % UINT32) \div PMMNGR_BLOCK_SIZE
              = t \div PMMNGR_BLOCK_SIZE
      BY WholeBlocks
    <3>3. max = totalMemory \div PMMNGR_BLOCK_SIZE
      BY <3>1, <3>2
    <3> HIDE DEF max, filled
    <3> QED BY <2>0, <3>3
  <2>3. /\ max_blocks' \in 0..(UINT32 \div PMMNGR_BLOCK_SIZE)
        /\ used_blocks' \in 0..(UINT32 - 1)
        /\ totalMemory' \in 0..(UINT32 - 1)
    BY <2>1, <2>2, <1>0, WholeBlocks DEF PMMNGR_BLOCK_SIZE
  <2>4. memory_map' \subseteq Nat
    <3>1. memory_map \subseteq Nat
      BY DEF BootTypeOK
    <3>2. \A n \in Int : 0..(n - 1) \subseteq Nat
      OBVIOUS
    <3>3. filled \in Int
      <4>1. max \in Nat /\ ByteBits \in Nat \ {0}
        BY <2>0, <2>3, <1>0, PhysMemAssumption DEF PMMNGR_BLOCK_SIZE
      <4> HIDE DEF max
      <4> QED BY <4>1
    <3>4. 0..(filled - 1) \subseteq Nat
      BY <3>2, <3>3
    <3> HIDE DEF filled
    <3> QED BY <2>0, <3>1, <3>4
  <2>5. BootTypeOK'
    BY <2>1, <2>3, <2>4, <1>0 DEF BootTypeOK
  <2>6. \A k \in 1..Len(region) :
          EndLo(region[k]) \in Nat /\ EndLo(region[k]) =< totalMemory
    BY <2>1, <1>0, LowHalves DEF ScanCovers
  <2>7. \A k \in 1..Len(region) :
          EndLo(region[k]) \div PMMNGR_BLOCK_SIZE =< max_blocks'
    BY <2>1, <2>2, <2>6, <1>0 DEF PMMNGR_BLOCK_SIZE
  <2>8. max_blocks' >= WordBits
    <3>1. PICK k \in 1..Len(region) : EndLo(region[k]) >= WordBits * PMMNGR_BLOCK_SIZE
      BY DEF ScanCovers
    <3>2. totalMemory >= WordBits * 4096 /\ totalMemory \in Nat
      BY <3>1, <2>1, <2>6, <1>0 DEF PMMNGR_BLOCK_SIZE
    <3>3. totalMemory \div 4096 >= WordBits
      BY <3>2, <1>0
    <3> QED BY <3>3, <2>2 DEF PMMNGR_BLOCK_SIZE
  <2> QED BY <2>1, <2>5, <2>7, <2>8 DEF ScanCovers
<1>3. CASE InitRegion
  <2>1. pc = "regions" /\ pc' = pc /\ region' = region /\ totalMemory' = totalMemory
        /\ kernelSize' = kernelSize /\ i' = i + 1 /\ i + 1 \in 1..Len(region)
        /\ max_blocks' = max_blocks /\ i' \in 0..Len(region)
    BY <1>0, <1>3 DEF InitRegion, BootTypeOK, pmmngr_init_region, pmmVars
  <2>2. memory_map' \subseteq Nat /\ used_blocks' \in 0..(UINT32 - 1)
    <3>1. RegionBlocks(sizeLo(region[i + 1])) \in Nat
      BY <1>0, <2>1, LowHalves DEF RegionBlocks, PMMNGR_BLOCK_SIZE
    <3>2. CASE region[i + 1].type = 1
      <4>1. pmmngr_init_region(sizeLo(region[i + 1]), start_Lo(region[i + 1]))
        BY <1>3, <3>2 DEF InitRegion
      <4>2. (used_blocks - RegionBlocks(sizeLo(region[i + 1]))) % UINT32 \in 0..(UINT32 - 1)
        BY <3>1, CountersTyped DEF BootTypeOK
      <4>3. used_blocks' \in 0..(UINT32 - 1)
        BY <4>1, <4>2, Zenon DEF pmmngr_init_region
      <4>4. memory_map' \subseteq Nat
        <5>1. memory_map \subseteq Nat
          BY DEF BootTypeOK
        <5>2. memory_map' \subseteq memory_map \cup {0}
          BY <4>1, Zenon DEF pmmngr_init_region
        <5> QED BY <5>1, <5>2
      <4> QED BY <4>3, <4>4
    <3>3. CASE region[i + 1].type # 1
      BY <1>3, <3>3 DEF InitRegion, BootTypeOK, pmmVars
    <3> QED BY <3>2, <3>3
  <2>3. BootTypeOK'
    BY <2>1, <2>2 DEF BootTypeOK
  <2> QED BY <2>1, <2>3 DEF ScanCovers
<1>4. CASE RegionsDone
  BY <1>4 DEF RegionsDone, BootTypeOK, ScanCovers, pmmVars
<1>5. CASE DeinitKernel
  <2>1. pc = "deinit" /\ pc' = "running" /\ max_blocks' = max_blocks
        /\ UNCHANGED <<i, region, totalMemory, kernelSize>>
    BY <1>5 DEF DeinitKernel, pmmngr_deinit_region
  <2>2. memory_map' \subseteq Nat /\ used_blocks' \in 0..(UINT32 - 1)
    <3>1. RegionBlocks(KERNEL_BASE) \in Nat
      BY MemoryBootAssumption DEF RegionBlocks, PMMNGR_BLOCK_SIZE
    <3> QED BY <1>5, <3>1, CountersTyped DEF DeinitKernel, BootTypeOK, pmmngr_deinit_region
  <2> QED BY <2>1, <2>2 DEF BootTypeOK, ScanCovers
<1>6. CASE UNCHANGED bootVars
  BY <1>6 DEF bootVars, pmmVars, mainVars, BootTypeOK, ScanCovers
<1> QED BY <1>1, <1>2, <1>3, <1>4, <1>5, <1>6 DEF BootNext

\* In every state of the boot sequence the variables hold what their C types
\* allow, and the bitmap is sized by the end of every region seen.
THEOREM BootTypeCorrect == BootSpec => [](BootTypeOK /\ ScanCovers)
BY BootInit, BootStep, PTL DEF BootSpec

\* What a region's release clears holds every block that lies wholly in it,
\* wherever it starts and ends.
LEMMA ReleaseCovers ==
  ASSUME NEW r \in Entries
  PROVE  Covered(r) \subseteq Run(start_Lo(r), RegionBlocks(sizeLo(r)))
<1> DEFINE s == start_Lo(r)
           n == sizeLo(r)
<1>1. s \in Nat /\ n \in Nat /\ UINT32 \in Nat \ {0}
  BY LowHalves, PhysMemAssumption
<1>2. Covered(r) = {b \in 0..(UINT32 \div 4096) :
                      b * 4096 >= s /\ (b + 1) * 4096 <= s + n}
  BY DEF Covered, PMMNGR_BLOCK_SIZE
<1>3. Run(s, RegionBlocks(n)) = (s \div 4096)..(s \div 4096 + (n \div 4096 + 1) - 1)
  BY DEF Run, RegionBlocks, PMMNGR_BLOCK_SIZE
<1> HIDE DEF s, n
<1>4. SUFFICES ASSUME NEW b \in Nat, b * 4096 >= s, (b + 1) * 4096 <= s + n
               PROVE  b >= s \div 4096 /\ b =< s \div 4096 + n \div 4096
  <2>1. s \div 4096 \in Nat /\ n \div 4096 \in Nat
    BY <1>1
  <2> QED BY <1>1, <1>2, <1>3, <1>4, <2>1 DEF s, n
<1> QED BY <1>1, <1>4

\* The regions walked so far are free: what the next ones release is only
\* cleared, and block 0 is the only one that is marked again.
RegionsWalked ==
  /\ pc = "regions" =>
       \A k \in 1..i : region[k].type = 1 => Covered(region[k]) \cap memory_map \subseteq {0}
  /\ RegionsReleased

LEMMA RegionsWalkedInit == Init => RegionsWalked
BY DEF Init, RegionsWalked, RegionsReleased

LEMMA RegionsWalkedStep ==
  BootTypeOK /\ RegionsWalked /\ [BootNext]_bootVars => RegionsWalked'
<1> SUFFICES ASSUME BootTypeOK, RegionsWalked, [BootNext]_bootVars PROVE RegionsWalked'
  OBVIOUS
<1> USE DEF RegionsWalked, RegionsReleased
<1>1. CASE ScanRegion
  BY <1>1 DEF ScanRegion
<1>2. CASE InitManager
  BY <1>2 DEF InitManager
<1>3. CASE InitRegion
  <2>1. /\ pc = "regions" /\ pc' = pc /\ region' = region /\ i' = i + 1
        /\ i \in Nat /\ i + 1 \in 1..Len(region)
    BY <1>3 DEF InitRegion, BootTypeOK
  <2>2. memory_map' \subseteq memory_map \cup {0}
    BY <1>3 DEF InitRegion, pmmngr_init_region, pmmVars
  <2>3. region[i + 1].type = 1 => Covered(region[i + 1]) \cap memory_map' \subseteq {0}
    <3> SUFFICES ASSUME region[i + 1].type = 1
                 PROVE  Covered(region[i + 1]) \cap memory_map' \subseteq {0}
      OBVIOUS
    <3> DEFINE r == region[i + 1]
    <3>1. r \in Entries
      BY <2>1 DEF BootTypeOK
    <3>2. memory_map' = (memory_map \ Run(start_Lo(r), RegionBlocks(sizeLo(r)))) \cup {0}
      BY <1>3 DEF InitRegion, pmmngr_init_region
    <3> HIDE DEF r
    <3>3. Covered(r) \cap memory_map' \subseteq {0}
      BY <3>1, <3>2, ReleaseCovers
    <3> QED BY <3>3 DEF r
  <2>4. \A k \in 1..i : region[k].type = 1
                        => Covered(region[k]) \cap memory_map' \subseteq {0}
    BY <2>1, <2>2
  <2>5. \A k \in 1..i' : k \in 1..i \/ k = i + 1
    BY <2>1
  <2>6. \A k \in 1..i' : region[k].type = 1
                         => Covered(region[k]) \cap memory_map' \subseteq {0}
    BY <2>3, <2>4, <2>5
  <2>7. \A k \in 1..i' : Covered(region[k])' = Covered(region[k])
    BY <2>1 DEF Covered, start_Lo, sizeLo
  <2> QED BY <2>1, <2>6, <2>7
<1>4. CASE RegionsDone
  BY <1>4 DEF RegionsDone, pmmVars, Covered, start_Lo, sizeLo
<1>5. CASE DeinitKernel
  BY <1>5 DEF DeinitKernel
<1>6. CASE UNCHANGED bootVars
  BY <1>6 DEF bootVars, mainVars, pmmVars, Covered, start_Lo, sizeLo
<1> QED BY <1>1, <1>2, <1>3, <1>4, <1>5, <1>6 DEF BootNext

\* In every state of the boot sequence the variables hold what their C types
\* allow: no entry, sum or counter leaves its 32 bits (main.cpp:64-101).
THEOREM BootTyped == BootSpec => []BootTypeOK
BY BootTypeCorrect, PTL

\* Whatever regions a BIOS reports, in whatever order, every block that lies
\* wholly in available memory is free when main() has walked them: the walk
\* over one region undoes nothing of the walks before it, except for block 0
\* (mmngr_phys.cpp:110-120, main.cpp:92-99).
THEOREM RegionsAreReleased == BootSpec => []RegionsReleased
<1>1. RegionsWalked => RegionsReleased
  BY DEF RegionsWalked
<1> QED BY <1>1, BootTypeCorrect, RegionsWalkedInit, RegionsWalkedStep, PTL DEF BootSpec

\* A step of the walk over the regions writes no bit past the one behind the
\* last block.
LEMMA ReleaseInside ==
  ASSUME BootTypeOK, ScanCovers, [BootNext]_bootVars, pc = "regions"
  PROVE  memory_map \ memory_map' \subseteq 0..max_blocks
<1>1. CASE InitRegion /\ region[i + 1].type = 1
  <2> DEFINE r == region[i + 1]
  <2>1. r \in Entries /\ i + 1 \in 1..Len(region)
    BY <1>1 DEF BootTypeOK, InitRegion
  <2>2. start_Lo(r) + sizeLo(r) < UINT32
    BY <1>1, <2>1 DEF ScanCovers
  <2>3. EndLo(r) \div PMMNGR_BLOCK_SIZE =< max_blocks
    BY <1>1, <2>1 DEF ScanCovers, InitRegion
  <2>4. memory_map \ memory_map' \subseteq Run(start_Lo(r), RegionBlocks(sizeLo(r)))
    BY <1>1 DEF InitRegion, pmmngr_init_region
  <2>5. EndLo(r) \div PMMNGR_BLOCK_SIZE \in Nat /\ max_blocks \in Nat
    BY <2>1, LowHalves, PhysMemAssumption DEF PMMNGR_BLOCK_SIZE, BootTypeOK
  <2> HIDE DEF r
  <2> QED BY <2>1, <2>2, <2>3, <2>4, <2>5, ReleaseEnds
<1>2. CASE ~(InitRegion /\ region[i + 1].type = 1)
  <2>1. memory_map' = memory_map
    BY <1>2 DEF BootNext, ScanRegion, InitManager, InitRegion, RegionsDone, DeinitKernel,
                bootVars, pmmVars
  <2> QED BY <2>1
<1> QED BY <1>1, <1>2

\* Releasing the regions of any memory map stays inside the bitmap, up to one
\* bit: the bitmap's size and the releases are computed from different fields
\* of the entries, in different passes.
THEOREM ReleaseStaysInside == BootSpec => WritesInsideMap
<1>1. BootTypeOK /\ ScanCovers /\ [BootNext]_bootVars
        => [pc = "regions" => memory_map \ memory_map' \subseteq 0..max_blocks]_bootVars
  BY ReleaseInside
<1> QED BY <1>1, BootTypeCorrect, PTL DEF BootSpec, WritesInsideMap

-----------------------------------------------------------------------------
(* The clients.                                                            *)

\* A block is held if a client's pointer covers it.
LEMMA HeldBlocksMembers ==
  \A b : b \in HeldBlocks <=> \E h \in held : b \in Run(h[1], h[2])
BY DEF HeldBlocks

LEMMA HeldBlocksMembersPrime ==
  \A b : b \in HeldBlocks' <=> \E h \in held' : b \in Run(h[1], h[2])
BY DEF HeldBlocks

\* The address of block f, and the blocks of a run that starts there.
LEMMA RunOfFrame ==
  ASSUME NEW f \in Nat, NEW n \in Nat
  PROVE  /\ Run(f * PMMNGR_BLOCK_SIZE, n) = f..(f + n - 1)
         /\ f * PMMNGR_BLOCK_SIZE \in Nat
         /\ f * PMMNGR_BLOCK_SIZE = 0 <=> f = 0
<1>1. (f * 4096) \div 4096 = f
  OBVIOUS
<1> QED BY <1>1 DEF Run, PMMNGR_BLOCK_SIZE

\* Before the clients run, and while they do, the machine has a bitmap.
LEMMA RunningBlocks ==
  ASSUME Inv, pc = "running"
  PROVE  /\ max_blocks \in WordBits..(UINT32 \div PMMNGR_BLOCK_SIZE)
         /\ max_blocks \in Nat /\ memory_map \subseteq Nat
         /\ WordBits \in Nat /\ UINT32 \in Nat \ {0}
<1>1. WordBits \in Nat /\ UINT32 \in Nat \ {0}
  BY PhysMemAssumption
<1> QED BY <1>1 DEF Inv, ClientsTypeOK, BootTypeOK, ScanCovers, PMMNGR_BLOCK_SIZE

LEMMA InvInit == ClientsInit => Inv
<1> SUFFICES ASSUME ClientsInit PROVE Inv
  OBVIOUS
<1>1. BootTypeOK /\ ScanCovers
  BY BootInit DEF ClientsInit
<1>2. pc # "running"
  BY DEF ClientsInit, Init
<1> QED BY <1>1, <1>2 DEF ClientsInit, Inv, ClientsTypeOK, LentOnce, Conservation

\* A step of main() keeps the invariant: no client runs yet.
LEMMA BootKeepsInv == Inv /\ ClientsBoot => Inv'
<1> SUFFICES ASSUME Inv, ClientsBoot PROVE Inv'
  OBVIOUS
<1>1. BootTypeOK' /\ ScanCovers'
  BY BootStep DEF Inv, ClientsTypeOK, ClientsBoot
<1>2. pc # "running" /\ held = {} /\ held' = {}
  BY DEF Inv, ClientsTypeOK, ClientsBoot, BootNext, ScanRegion, InitManager, InitRegion, RegionsDone,
         DeinitKernel
<1>3. memory_map' \subseteq Nat /\ started \subseteq Nat
  BY <1>1 DEF BootTypeOK, Inv, ClientsTypeOK
<1>4. started' \subseteq Nat /\ (pc' = "running" => started' = memory_map')
  BY <1>3 DEF ClientsBoot
<1>5. HeldBlocks' = {}
  BY <1>2, HeldBlocksMembersPrime
<1> QED BY <1>1, <1>2, <1>4, <1>5 DEF Inv, ClientsTypeOK, LentOnce, Conservation

\* Marking n clear blocks of the machine from f on, and handing the caller
\* their address, keeps the invariant, also when the address is NULL.
LEMMA TakeKeepsInv ==
  ASSUME Inv, pc = "running", NEW f \in Nat, NEW n \in Nat \ {0},
         f + n =< max_blocks, (f..(f + n - 1)) \cap memory_map = {},
         TakeFrames(f, n), Keep(f * PMMNGR_BLOCK_SIZE, n),
         UNCHANGED <<mainVars, started>>
  PROVE  Inv'
<1> DEFINE p == f * PMMNGR_BLOCK_SIZE
           F == f..(f + n - 1)
<1>1. /\ max_blocks \in WordBits..(UINT32 \div PMMNGR_BLOCK_SIZE)
      /\ max_blocks \in Nat /\ memory_map \subseteq Nat
      /\ WordBits \in Nat /\ UINT32 \in Nat \ {0}
  BY RunningBlocks
<1>2. Run(p, n) = F /\ p \in Nat /\ (p = 0 <=> f = 0)
  BY RunOfFrame
<1>3. memory_map' = memory_map \cup F /\ max_blocks' = max_blocks
      /\ used_blocks' \in 0..(UINT32 - 1)
  <2>1. (used_blocks + n) % UINT32 \in 0..(UINT32 - 1)
    BY CountersTyped DEF Inv, ClientsTypeOK, BootTypeOK
  <2> QED BY <2>1, Zenon DEF TakeFrames
<1>4. UNCHANGED <<pc, i, region, totalMemory, kernelSize, started>>
  BY DEF mainVars
<1>5. held' = IF p = 0 THEN held ELSE held \cup {<<p, n>>}
  BY Zenon DEF Keep
<1> HIDE DEF p
<1>6. ClientsTypeOK'
  <2>1. F \subseteq Nat
    OBVIOUS
  <2>2. held' \subseteq (Nat \ {0}) \X (Nat \ {0})
    BY <1>2, <1>5 DEF Inv, ClientsTypeOK
  <2> QED BY <1>1, <1>3, <1>4, <2>1, <2>2 DEF Inv, ClientsTypeOK, BootTypeOK
<1>7. ScanCovers'
  BY <1>3, <1>4 DEF Inv, ScanCovers
<1>8. \A h \in held : Run(h[1], h[2]) \subseteq memory_map \cap 1..(max_blocks - 1)
  BY DEF Inv, LentOnce
<1>9. \A h \in held : Run(h[1], h[2]) \cap F = {}
  BY <1>8
<1>10. LentOnce'
  <2>1. ASSUME NEW h \in held'
        PROVE  Run(h[1], h[2]) \subseteq memory_map' \cap 1..(max_blocks' - 1)
    <3>1. CASE h \in held
      BY <1>3, <1>8, <3>1
    <3>2. CASE h = <<p, n>> /\ p # 0
      <4>1. F \subseteq 1..(max_blocks - 1)
        BY <1>1, <1>2, <3>2
      <4>2. Run(h[1], h[2]) = F
        BY <1>2, <3>2
      <4> QED BY <1>3, <4>1, <4>2
    <3> QED BY <1>5, <3>1, <3>2
  <2>2. ASSUME NEW g \in held', NEW h \in held', g # h
        PROVE  Run(g[1], g[2]) \cap Run(h[1], h[2]) = {}
    <3>1. CASE g \in held /\ h \in held
      BY <2>2, <3>1 DEF Inv, LentOnce
    <3>2. CASE g \in held /\ h = <<p, n>>
      BY <1>2, <1>9, <3>2
    <3>3. CASE h \in held /\ g = <<p, n>>
      BY <1>2, <1>9, <3>3
    <3> QED BY <1>5, <2>2, <3>1, <3>2, <3>3
  <2>3. started' \subseteq memory_map'
    BY <1>3, <1>4 DEF Inv, LentOnce
  <2> QED BY <2>1, <2>2, <2>3 DEF LentOnce
<1>11. HeldBlocks' = IF p = 0 THEN HeldBlocks ELSE HeldBlocks \cup F
  <2>1. CASE p = 0
    BY <1>5, <2>1, HeldBlocksMembers, HeldBlocksMembersPrime
  <2>2. CASE p # 0
    <3>1. held' = held \cup {<<p, n>>}
      BY <1>5, <2>2
    <3>2. \A b : b \in HeldBlocks' <=> (b \in HeldBlocks \/ b \in F)
      <4>1. TAKE b
      <4>2. (\E h \in held' : b \in Run(h[1], h[2]))
              <=> ((\E h \in held : b \in Run(h[1], h[2])) \/ b \in Run(p, n))
        <5> DEFINE new == <<p, n>>
        <5>1. new[1] = p /\ new[2] = n
          OBVIOUS
        <5>2. \A h : h \in held' <=> (h \in held \/ h = new)
          BY <3>1
        <5> HIDE DEF new
        <5>3. b \in Run(new[1], new[2]) <=> b \in Run(p, n)
          BY <5>1
        <5> QED BY <5>2, <5>3, Zenon
      <4> QED BY <1>2, <4>2, HeldBlocksMembers, HeldBlocksMembersPrime
    <3> QED BY <2>2, <3>2
  <2> QED BY <2>1, <2>2
<1>12. Conservation'
  <2>1. started \subseteq memory_map /\ F \cap started = {}
    BY DEF Inv, LentOnce
  <2>2. HeldBlocks' \cap started' = {}
    BY <1>4, <1>11, <2>1 DEF Inv, Conservation
  <2>3. ASSUME 0 \in started' PROVE memory_map' = started' \cup HeldBlocks'
    <3>1. 0 \notin F
      BY <1>4, <2>1, <2>3
    <3>2. p # 0
      BY <1>2, <3>1
    <3>3. memory_map = started \cup HeldBlocks
      BY <1>4, <2>3 DEF Inv, Conservation
    <3> QED BY <1>3, <1>4, <1>11, <3>2, <3>3
  <2> QED BY <2>2, <2>3 DEF Conservation
<1> QED BY <1>6, <1>7, <1>10, <1>12 DEF Inv
\* Clearing the blocks of a pointer a client holds, which it then forgets,
\* keeps the invariant.
LEMMA GiveBackKeepsInv ==
  ASSUME Inv, pc = "running", NEW h \in held,
         memory_map' = memory_map \ Run(h[1], h[2]),
         used_blocks' \in 0..(UINT32 - 1), max_blocks' = max_blocks,
         held' = held \ {h}, UNCHANGED <<mainVars, started>>
  PROVE  Inv'
<1> DEFINE F == Run(h[1], h[2])
<1>1. UNCHANGED <<pc, i, region, totalMemory, kernelSize, started>>
  BY DEF mainVars
<1>2. ClientsTypeOK'
  BY <1>1 DEF Inv, ClientsTypeOK, BootTypeOK
<1>3. ScanCovers'
  BY <1>1 DEF Inv, ScanCovers
<1>4. \A g \in held' : g \in held /\ Run(g[1], g[2]) \cap F = {}
  BY DEF Inv, LentOnce
<1>5. F \subseteq HeldBlocks
  BY DEF HeldBlocks
<1>6. F \cap started = {}
  BY <1>5 DEF Inv, Conservation
<1>7. LentOnce'
  <2>1. \A g \in held' : Run(g[1], g[2]) \subseteq memory_map' \cap 1..(max_blocks' - 1)
    BY <1>4 DEF Inv, LentOnce
  <2>2. \A g, k \in held' : g # k => Run(g[1], g[2]) \cap Run(k[1], k[2]) = {}
    BY <1>4 DEF Inv, LentOnce
  <2>3. started' \subseteq memory_map'
    BY <1>1, <1>6 DEF Inv, LentOnce
  <2> QED BY <2>1, <2>2, <2>3 DEF LentOnce
<1>8. HeldBlocks' = HeldBlocks \ F
  <2>1. \A b : b \in HeldBlocks' <=> b \in HeldBlocks /\ b \notin F
    <3>1. TAKE b
    <3>2. (\E g \in held' : b \in Run(g[1], g[2]))
            <=> ((\E g \in held : b \in Run(g[1], g[2])) /\ b \notin Run(h[1], h[2]))
      BY <1>4
    <3> QED BY <3>2, HeldBlocksMembers, HeldBlocksMembersPrime
  <2> QED BY <2>1
<1>9. Conservation'
  BY <1>1, <1>6, <1>8 DEF Inv, Conservation
<1> QED BY <1>2, <1>3, <1>7, <1>9 DEF Inv

\* What the two allocators do: fail and change nothing, or take clear blocks of
\* the machine and hand out their address.
LEMMA AllocationCases ==
  ASSUME Inv, pc = "running",
         AllocBlock \/ \E size \in RequestSizes : AllocRegions(size)
  PROVE  /\ UNCHANGED <<mainVars, started>>
         /\ \/ UNCHANGED <<pmmVars, held>>
            \/ \E f \in Nat, n \in Nat \ {0} :
                 /\ f + n =< max_blocks
                 /\ (f..(f + n - 1)) \cap memory_map = {}
                 /\ TakeFrames(f, n)
                 /\ Keep(f * PMMNGR_BLOCK_SIZE, n)
<1>1. /\ max_blocks \in WordBits..(UINT32 \div PMMNGR_BLOCK_SIZE)
      /\ max_blocks \in Nat
  BY RunningBlocks
<1>2. CASE AllocBlock
  <2>1. PICK p \in ClientPointers : pmmngr_alloc_block(p) /\ Keep(p, 1)
    BY <1>2 DEF AllocBlock
  <2>2. UNCHANGED <<mainVars, started>>
    BY <1>2 DEF AllocBlock
  <2>3. CASE BlockFrame = -1
    BY <2>1, <2>2, <2>3, Zenon DEF pmmngr_alloc_block, Keep
  <2>4. CASE BlockFrame # -1
    <3> DEFINE f == mmap_first_free_block
    <3>1. f # -1 /\ BlockFrame = f
      BY <2>4 DEF BlockFrame
    <3>2. f \in 0..(max_blocks - 1) /\ f \notin memory_map
      BY <1>1, <3>1, FirstFreeBlock
    <3>3. TakeFrames(f, 1) /\ Keep(f * PMMNGR_BLOCK_SIZE, 1)
      BY <2>1, <2>4, <3>1, Zenon DEF pmmngr_alloc_block
    <3> HIDE DEF f
    <3>4. f \in Nat /\ 1 \in Nat \ {0} /\ f + 1 =< max_blocks
          /\ (f..(f + 1 - 1)) \cap memory_map = {}
      BY <1>1, <3>2
    <3> QED BY <2>2, <3>3, <3>4, Zenon
  <2> QED BY <2>3, <2>4
<1>3. ASSUME NEW size \in RequestSizes, AllocRegions(size)
      PROVE  /\ UNCHANGED <<mainVars, started>>
             /\ \/ UNCHANGED <<pmmVars, held>>
                \/ \E f \in Nat, n \in Nat \ {0} :
                     /\ f + n =< max_blocks
                     /\ (f..(f + n - 1)) \cap memory_map = {}
                     /\ TakeFrames(f, n)
                     /\ Keep(f * PMMNGR_BLOCK_SIZE, n)
  <2>1. PICK p \in ClientPointers : pmmngr_alloc_regions(p, size) /\ Keep(p, size)
    BY <1>3 DEF AllocRegions
  <2>2. UNCHANGED <<mainVars, started>>
    BY <1>3 DEF AllocRegions
  <2>3. CASE RegionFrame(size) = -1
    BY <2>1, <2>2, <2>3, Zenon DEF pmmngr_alloc_regions, Keep
  <2>4. CASE RegionFrame(size) # -1
    <3> DEFINE f == mmap_first_free_region(size)
    <3>1. f # -1 /\ RegionFrame(size) = f
      BY <2>4 DEF RegionFrame
    <3>2. size \in Nat
      BY FrameClientsAssumption
    <3>3. size > 0 /\ f \in 0..(max_blocks - size)
          /\ \A k \in 0..(size - 1) : f + k \notin memory_map
      BY <1>1, <3>1, <3>2, FirstFreeRegion
    <3>4. TakeFrames(f, size) /\ Keep(f * PMMNGR_BLOCK_SIZE, size)
      BY <2>1, <2>4, <3>1, Zenon DEF pmmngr_alloc_regions
    <3> HIDE DEF f
    <3>5. f \in Nat /\ size \in Nat \ {0} /\ f + size =< max_blocks
      BY <1>1, <3>2, <3>3
    <3>6. (f..(f + size - 1)) \cap memory_map = {}
      <4>1. SUFFICES ASSUME NEW b \in f..(f + size - 1) PROVE b \notin memory_map
        OBVIOUS
      <4>2. b - f \in 0..(size - 1) /\ b = f + (b - f)
        BY <3>5
      <4> QED BY <3>3, <4>2
    <3> QED BY <2>2, <3>4, <3>5, <3>6, Zenon
  <2> QED BY <2>3, <2>4
<1> QED BY <1>2, <1>3

\* What the two ways to free do with a pointer a client holds.
LEMMA FreeingCases ==
  ASSUME Inv, pc = "running", NEW h \in held, FreeBlock(h) \/ FreeRegions(h)
  PROVE  /\ memory_map' = memory_map \ Run(h[1], h[2])
         /\ used_blocks' = (used_blocks - h[2]) % UINT32
         /\ used_blocks' \in 0..(UINT32 - 1)
         /\ max_blocks' = max_blocks
         /\ held' = held \ {h}
         /\ UNCHANGED <<mainVars, started>>
<1>1. h \in (Nat \ {0}) \X (Nat \ {0}) /\ h[1] \in Nat /\ h[2] \in Nat
  BY DEF Inv, ClientsTypeOK
<1>2. (used_blocks - h[2]) % UINT32 \in 0..(UINT32 - 1)
  BY <1>1, CountersTyped DEF Inv, ClientsTypeOK, BootTypeOK
<1>3. CASE FreeRegions(h)
  BY <1>2, <1>3, Zenon DEF FreeRegions, pmmngr_free_regions
<1>4. CASE FreeBlock(h)
  <2>1. h[2] = 1
    BY <1>4 DEF FreeBlock
  <2>2. Run(h[1], h[2]) = {h[1] \div PMMNGR_BLOCK_SIZE}
    <3>1. h[1] \div 4096 \in Nat
      BY <1>1
    <3> QED BY <2>1, <3>1 DEF Run, PMMNGR_BLOCK_SIZE
  <2> QED BY <1>2, <1>4, <2>1, <2>2, Zenon DEF FreeBlock, pmmngr_free_block
<1> QED BY <1>3, <1>4
LEMMA InvStep == Inv /\ [ClientsNext]_clientVars => Inv'
<1> SUFFICES ASSUME Inv, [ClientsNext]_clientVars PROVE Inv'
  OBVIOUS
<1>1. CASE ClientsBoot
  BY <1>1, BootKeepsInv
<1>2. CASE AllocBlock \/ \E size \in RequestSizes : AllocRegions(size)
  <2>1. pc = "running"
    BY <1>2 DEF AllocBlock, AllocRegions
  <2>2. CASE UNCHANGED <<pmmVars, held, mainVars, started>>
    BY <2>2 DEF pmmVars, mainVars, Inv, ClientsTypeOK, BootTypeOK, ScanCovers, LentOnce,
                Conservation, HeldBlocks
  <2>3. ASSUME NEW f \in Nat, NEW n \in Nat \ {0}, f + n =< max_blocks,
               (f..(f + n - 1)) \cap memory_map = {}, TakeFrames(f, n),
               Keep(f * PMMNGR_BLOCK_SIZE, n), UNCHANGED <<mainVars, started>>
        PROVE  Inv'
    BY <2>1, <2>3, TakeKeepsInv
  <2> QED BY <1>2, <2>1, <2>2, <2>3, AllocationCases
<1>3. ASSUME NEW h \in held, FreeBlock(h) \/ FreeRegions(h)
      PROVE  Inv'
  <2>1. pc = "running"
    BY <1>3 DEF FreeBlock, FreeRegions
  <2> QED BY <1>3, <2>1, FreeingCases, GiveBackKeepsInv
<1>4. CASE UNCHANGED clientVars
  BY <1>4 DEF clientVars, bootVars, pmmVars, mainVars, Inv, ClientsTypeOK, BootTypeOK, ScanCovers,
              LentOnce, Conservation, HeldBlocks
<1> QED BY <1>1, <1>2, <1>3, <1>4 DEF ClientsNext, ClientStep

\* The inductive invariant holds in every reachable state.
THEOREM Invariance == ClientsSpec => []Inv
BY InvInit, InvStep, PTL DEF ClientsSpec

\* The manager's variables and the clients' pointers keep their types: the
\* counter is a uint32_t, no client holds NULL or an empty run.
THEOREM TypeCorrect == ClientsSpec => []ClientsTypeOK
<1>1. Inv => ClientsTypeOK
  BY DEF Inv
<1> QED BY <1>1, Invariance, PTL

\* What clients hold are blocks of the machine, they are marked, and each has
\* one holder, whatever the memory map and the order of the calls.
THEOREM LentToOne == ClientsSpec => []LentOnce
<1>1. Inv => LentOnce
  BY DEF Inv
<1> QED BY <1>1, Invariance, PTL

\* Nothing the clients give back is lost, and they are never lent what was in
\* use before they started.
THEOREM NothingIsLost == ClientsSpec => []Conservation
<1>1. Inv => Conservation
  BY DEF Inv
<1> QED BY <1>1, Invariance, PTL

\* The number of blocks in a run of n blocks that starts at block f.
LEMMA RunSize ==
  ASSUME NEW f \in Nat, NEW n \in Nat
  PROVE  Cardinality(f..(f + n - 1)) = n
<1>1. Cardinality(f..(f + n - 1)) = IF f > f + n - 1 THEN 0 ELSE f + n - 1 - f + 1
  BY FS_Interval
<1> QED BY <1>1

\* A step while the clients run changes the counter by as many blocks as it
\* changes bits.
LEMMA CountStep ==
  ASSUME Inv, [ClientsNext]_clientVars, pc = "running"
  PROVE  used_blocks' = (used_blocks + Cardinality(memory_map' \ memory_map)
                           - Cardinality(memory_map \ memory_map')) % UINT32
<1>0. used_blocks \in 0..(UINT32 - 1) /\ UINT32 \in Nat \ {0}
  BY PhysMemAssumption DEF Inv, ClientsTypeOK, BootTypeOK
<1> DEFINE gained == Cardinality(memory_map' \ memory_map)
           lost == Cardinality(memory_map \ memory_map')
<1>1. Cardinality({}) = 0
  BY FS_EmptySet
<1>2. CASE UNCHANGED <<memory_map, used_blocks>>
  <2>1. gained = 0 /\ lost = 0
    BY <1>1, <1>2
  <2>2. used_blocks = (used_blocks + 0 - 0) % UINT32
    BY <1>0
  <2> QED BY <1>2, <2>1, <2>2
<1>3. ASSUME NEW f \in Nat, NEW n \in Nat \ {0},
             (f..(f + n - 1)) \cap memory_map = {}, TakeFrames(f, n)
      PROVE  used_blocks' = (used_blocks + gained - lost) % UINT32
  <2>1. memory_map' \ memory_map = f..(f + n - 1) /\ memory_map \ memory_map' = {}
    BY <1>3 DEF TakeFrames
  <2>2. gained = n /\ lost = 0
    BY <1>1, <2>1, RunSize
  <2>3. used_blocks' = (used_blocks + n) % UINT32
    BY <1>3 DEF TakeFrames
  <2>4. used_blocks + n - 0 = used_blocks + n
    BY <1>0
  <2> QED BY <2>2, <2>3, <2>4
<1>4. ASSUME NEW h \in held, FreeBlock(h) \/ FreeRegions(h)
      PROVE  used_blocks' = (used_blocks + gained - lost) % UINT32
  <2>1. memory_map' = memory_map \ Run(h[1], h[2])
        /\ used_blocks' = (used_blocks - h[2]) % UINT32
    BY <1>4, FreeingCases
  <2>2. Run(h[1], h[2]) \subseteq memory_map
    BY DEF Inv, LentOnce
  <2>3. memory_map' \ memory_map = {} /\ memory_map \ memory_map' = Run(h[1], h[2])
    BY <2>1, <2>2
  <2>4. h[1] \in Nat /\ h[2] \in Nat
    BY DEF Inv, ClientsTypeOK
  <2> DEFINE f == h[1] \div PMMNGR_BLOCK_SIZE
  <2>5. f \in Nat /\ Run(h[1], h[2]) = f..(f + h[2] - 1)
    BY <2>4 DEF PMMNGR_BLOCK_SIZE, Run
  <2>6. gained = 0 /\ lost = h[2]
    <3> HIDE DEF f
    <3>1. Cardinality(f..(f + h[2] - 1)) = h[2]
      BY <2>4, <2>5, RunSize
    <3> QED BY <1>1, <2>3, <2>5, <3>1
  <2>7. used_blocks + 0 - h[2] = used_blocks - h[2]
    BY <1>0, <2>4
  <2> QED BY <2>1, <2>6, <2>7
<1>5. ~ClientsBoot
  BY DEF ClientsBoot, BootNext, ScanRegion, InitManager, InitRegion, RegionsDone, DeinitKernel
<1>6. CASE AllocBlock \/ \E size \in RequestSizes : AllocRegions(size)
  BY <1>2, <1>3, <1>6, AllocationCases DEF pmmVars
<1>7. CASE UNCHANGED clientVars
  BY <1>2, <1>7 DEF clientVars, bootVars, pmmVars
<1> QED BY <1>4, <1>5, <1>6, <1>7 DEF ClientsNext, ClientStep

\* The counter of used blocks never drifts from the bitmap once the clients
\* run, however calls succeed, fail and follow each other.
THEOREM CounterFollowsMap == ClientsSpec => CountTracksMap
<1>1. Inv /\ [ClientsNext]_clientVars
        => [pc = "running" =>
              used_blocks' = (used_blocks + Cardinality(memory_map' \ memory_map)
                                - Cardinality(memory_map \ memory_map')) % UINT32]_clientVars
  BY CountStep
<1> QED BY <1>1, Invariance, PTL DEF ClientsSpec, CountTracksMap
-----------------------------------------------------------------------------
(* The refinement: what the clients see is a BlockAllocator.               *)

AbsBlocks == IF pc = "running" THEN 1..(max_blocks - 1) ELSE {}
AbsLent == {Run(h[1], h[2]) : h \in held}

LEMMA InitRefines == ClientsInit => Allocator!Init
BY DEF ClientsInit, Init, Allocator!Init

\* The step in which main() is done opens the allocator; the others are
\* invisible.
LEMMA BootRefines == Inv /\ Inv' /\ ClientsBoot => [Allocator!Next]_Allocator!vars
<1> SUFFICES ASSUME Inv, Inv', ClientsBoot PROVE Allocator!Open \/ UNCHANGED Allocator!vars
  BY DEF Allocator!Next
<1>1. pc # "running" /\ held = {} /\ held' = {}
  BY DEF Inv, ClientsTypeOK, ClientsBoot, BootNext, ScanRegion, InitManager, InitRegion, RegionsDone,
         DeinitKernel
<1>2. AbsBlocks = {} /\ AbsLent = {} /\ AbsLent' = {}
  BY <1>1 DEF AbsBlocks, AbsLent
<1>3. CASE pc' = "running"
  <2>1. /\ max_blocks' \in 0..(UINT32 \div PMMNGR_BLOCK_SIZE)
        /\ max_blocks' >= WordBits /\ WordBits \in Nat /\ WordBits >= 4
        /\ UINT32 \in Nat
    BY <1>3, PhysMemAssumption DEF Inv, ClientsTypeOK, BootTypeOK, ScanCovers
  <2>2. max_blocks' - 1 \in 0..(UINT32 \div PMMNGR_BLOCK_SIZE)
    <3>1. UINT32 \div PMMNGR_BLOCK_SIZE \in Nat
      BY <2>1 DEF PMMNGR_BLOCK_SIZE
    <3>2. \A m, q \in Nat : m \in 0..q /\ m >= 1 => m - 1 \in 0..q
      OBVIOUS
    <3>3. max_blocks' \in Nat
      BY <2>1, <3>1
    <3>4. max_blocks' >= 1
      BY <2>1, <3>3
    <3> QED BY <2>1, <3>1, <3>2, <3>3, <3>4, Zenon
  <2>3. AbsBlocks' = 1..(max_blocks' - 1)
    BY <1>3 DEF AbsBlocks
  <2> QED BY <1>2, <2>2, <2>3 DEF Allocator!Open, AbsBlocks, AbsLent
<1>4. CASE pc' # "running"
  <2>1. AbsBlocks' = {}
    BY <1>4 DEF AbsBlocks
  <2> QED BY <1>2, <2>1 DEF Allocator!vars, AbsBlocks, AbsLent
<1> QED BY <1>3, <1>4

\* Taking clear blocks lends them, unless their address is NULL.
LEMMA TakeRefines ==
  ASSUME Inv, pc = "running", NEW f \in Nat, NEW n \in Nat \ {0},
         f + n =< max_blocks, (f..(f + n - 1)) \cap memory_map = {},
         TakeFrames(f, n), Keep(f * PMMNGR_BLOCK_SIZE, n),
         UNCHANGED <<mainVars, started>>
  PROVE  Allocator!Lend \/ UNCHANGED Allocator!vars
<1> DEFINE p == f * PMMNGR_BLOCK_SIZE
           last == f + n - 1
<1>1. max_blocks' = max_blocks /\ pc' = pc
  BY DEF TakeFrames, mainVars
<1>2. AbsBlocks = 1..(max_blocks - 1) /\ AbsBlocks' = AbsBlocks
  BY <1>1 DEF AbsBlocks
<1>3. Run(p, n) = f..last /\ (p = 0 <=> f = 0)
  BY RunOfFrame
<1>4. held' = IF p = 0 THEN held ELSE held \cup {<<p, n>>}
  BY Zenon DEF Keep
<1> HIDE DEF p
<1>5. CASE f = 0
  <2>1. held' = held
    BY <1>3, <1>4, <1>5
  <2> QED BY <1>2, <2>1 DEF Allocator!vars, AbsBlocks
<1>6. CASE f # 0
  <2>1. max_blocks \in Nat
    BY RunningBlocks
  <2>2. f \in 1..(max_blocks - 1) /\ last \in 1..(max_blocks - 1) /\ f =< last
        /\ f..last \subseteq 1..(max_blocks - 1)
    BY <1>6, <2>1
  <2>3. \A run \in AbsLent : (f..last) \cap run = {}
    BY DEF AbsLent, Inv, LentOnce
  <2>4. AbsLent' = AbsLent \cup {f..last}
    <3> DEFINE new == <<p, n>>
    <3>1. new[1] = p /\ new[2] = n
      OBVIOUS
    <3>2. held' = held \cup {new}
      BY <1>3, <1>4, <1>6
    <3> HIDE DEF new, last
    <3>3. Run(new[1], new[2]) = f..last
      BY <1>3, <3>1
    <3> QED BY <3>2, <3>3 DEF AbsLent
  <2> HIDE DEF last
  <2> QED BY <1>2, <2>2, <2>3, <2>4 DEF Allocator!Lend, AbsBlocks, AbsLent
<1> QED BY <1>5, <1>6

\* Freeing a pointer gives its run back, and no other.
LEMMA GiveBackRefines ==
  ASSUME Inv, pc = "running", NEW h \in held, FreeBlock(h) \/ FreeRegions(h)
  PROVE  Allocator!TakeBack
<1>1. held' = held \ {h} /\ max_blocks' = max_blocks /\ pc' = pc
  BY FreeingCases DEF mainVars
<1>2. \A g \in held : g # h => Run(g[1], g[2]) # Run(h[1], h[2])
  <2>1. TAKE g \in held
  <2>2. h[1] \in Nat /\ h[2] \in Nat \ {0}
    BY DEF Inv, ClientsTypeOK
  <2>3. h[1] \div PMMNGR_BLOCK_SIZE \in Run(h[1], h[2])
    <3>1. h[1] \div PMMNGR_BLOCK_SIZE \in Nat
      BY <2>2 DEF PMMNGR_BLOCK_SIZE
    <3> QED BY <2>2, <3>1 DEF Run
  <2> QED BY <2>3 DEF Inv, LentOnce
<1>3. AbsLent' = AbsLent \ {Run(h[1], h[2])}
  BY <1>1, <1>2 DEF AbsLent
<1>4. Run(h[1], h[2]) \in AbsLent
  BY DEF AbsLent
<1> QED BY <1>1, <1>3, <1>4 DEF Allocator!TakeBack, AbsLent

LEMMA NextRefines == Inv /\ Inv' /\ [ClientsNext]_clientVars => [Allocator!Next]_Allocator!vars
<1> SUFFICES ASSUME Inv, Inv', [ClientsNext]_clientVars PROVE [Allocator!Next]_Allocator!vars
  OBVIOUS
<1>1. CASE ClientsBoot
  BY <1>1, BootRefines
<1>2. CASE AllocBlock \/ \E size \in RequestSizes : AllocRegions(size)
  <2>1. pc = "running"
    BY <1>2 DEF AllocBlock, AllocRegions
  <2>2. CASE UNCHANGED <<pmmVars, held, mainVars, started>>
    BY <2>2 DEF pmmVars, mainVars, Allocator!vars
  <2>3. ASSUME NEW f \in Nat, NEW n \in Nat \ {0}, f + n =< max_blocks,
               (f..(f + n - 1)) \cap memory_map = {}, TakeFrames(f, n),
               Keep(f * PMMNGR_BLOCK_SIZE, n), UNCHANGED <<mainVars, started>>
        PROVE  [Allocator!Next]_Allocator!vars
    BY <2>1, <2>3, TakeRefines DEF Allocator!Next
  <2> QED BY <1>2, <2>1, <2>2, <2>3, AllocationCases
<1>3. ASSUME NEW h \in held, FreeBlock(h) \/ FreeRegions(h)
      PROVE  [Allocator!Next]_Allocator!vars
  <2>1. pc = "running"
    BY <1>3 DEF FreeBlock, FreeRegions
  <2> QED BY <1>3, <2>1, GiveBackRefines DEF Allocator!Next
<1>4. CASE UNCHANGED clientVars
  BY <1>4 DEF clientVars, bootVars, pmmVars, mainVars, Allocator!vars
<1> QED BY <1>1, <1>2, <1>3, <1>4 DEF ClientsNext, ClientStep

\* Whatever the memory map and the calls, the manager lends runs of blocks that
\* the machine has, and no block to two clients at a time.
THEOREM Refinement == ClientsSpec => ImplementsAllocator
<1>1. Inv /\ Inv' /\ [ClientsNext]_clientVars => [Allocator!Next]_Allocator!vars
  BY NextRefines
<1>2. ClientsInit => Allocator!Init
  BY InitRefines
<1> QED BY <1>1, <1>2, Invariance, PTL DEF ClientsSpec, ImplementsAllocator, Allocator!Spec

-----------------------------------------------------------------------------
(* The virtual memory manager.                                             *)

\* Where vmmngr_initialize is, and what it has made by then.
Stages ==
  /\ pc # "running" => vpc = "table" /\ booted = {}
  /\ vpc = "table" => table = 0
  /\ vpc \in {"table", "table2"} => table2 = 0
  /\ vpc \in {"table", "table2", "fill"} => DOMAIN tables = {}
  /\ vpc \in {"table2", "fill", "dir"} => table # 0
  /\ vpc \in {"fill", "dir"} => table2 # 0
  /\ vpc = "dir" => table \in DOMAIN tables /\ table2 \in DOMAIN tables
  /\ vpc # "done" => DOMAIN dirs = {}
  /\ DOMAIN dirs # {} => cur_pdbr # 0

\* The frames of pages are blocks that an allocation returned, none of them
\* one that was in use when vmmngr_initialize started.
PagesAreLent ==
  \A s \in Pages : /\ PageFrame(s) \in Addresses \ {0}
                   /\ PageFrame(s) \div PMMNGR_BLOCK_SIZE \notin booted

\* The inductive invariant.
VirtInv ==
  /\ TypeOK /\ ScanCovers
  /\ Stages
  /\ booted \subseteq memory_map
  /\ PagesAreLent
  /\ FramesAreOwned
  /\ DirectoriesNameTables
  /\ NoFrameLost

-----------------------------------------------------------------------------
(* Addresses and entries.                                                  *)

\* The frame at an address ends below 4 GB.
LEMMA AddressInside ==
  ASSUME NEW a \in Addresses
  PROVE  a \in Nat /\ a + PMMNGR_BLOCK_SIZE <= UINT32
<1>1. UINT32 \in Nat /\ UINT32 \div 4096 \in Nat
      /\ (UINT32 \div 4096) * 4096 =< UINT32
  BY PhysMemAssumption
<1>2. PICK b \in 0..(UINT32 \div 4096 - 1) : a = b * 4096
  BY DEF Addresses, PMMNGR_BLOCK_SIZE
<1>3. b \in Nat /\ b + 1 =< UINT32 \div 4096
  BY <1>1, <1>2
<1> QED BY <1>1, <1>2, <1>3 DEF PMMNGR_BLOCK_SIZE

\* The part of an entry that is not the frame's address.
Flags == 0..4095

\* The flags of an entry do not disturb the address of its frame.
LEMMA FrameOfEntry ==
  ASSUME NEW a \in Addresses, NEW x \in Flags
  PROVE  pt_entry_pfn(a + x) = a /\ (a + x) % 2 = x % 2
<1>1. PICK b \in 0..(UINT32 \div 4096 - 1) : a = b * 4096
  BY DEF Addresses, PMMNGR_BLOCK_SIZE
<1>2. b \in Nat
  BY <1>1, PhysMemAssumption
<1>3. (b * 4096 + x) \div 4096 = b
  BY <1>2 DEF Flags
<1>4. (b * 4096 + x) % 2 = x % 2
  BY <1>2 DEF Flags
<1> QED BY <1>1, <1>3, <1>4 DEF pt_entry_pfn, PMMNGR_BLOCK_SIZE

\* A directory's entry for a table.
LEMMA EntryOfFrame ==
  ASSUME NEW a \in Addresses
  PROVE  /\ a + I86_PTE_PRESENT + I86_PTE_WRITABLE \in 0..(UINT32 - 1)
         /\ pt_entry_pfn(a + I86_PTE_PRESENT + I86_PTE_WRITABLE) = a
<1>1. a \in Nat /\ a + 4096 <= UINT32 /\ UINT32 \in Nat
  BY AddressInside, PhysMemAssumption DEF PMMNGR_BLOCK_SIZE
<1>2. a + I86_PTE_PRESENT + I86_PTE_WRITABLE = a + 3
  BY <1>1 DEF I86_PTE_PRESENT, I86_PTE_WRITABLE
<1>3. 3 \in Flags
  BY DEF Flags
<1>4. pt_entry_pfn(a + 3) = a
  BY <1>3, FrameOfEntry
<1> QED BY <1>1, <1>2, <1>4

\* Two frames are the same when their blocks are.
LEMMA BlockOfFrame ==
  ASSUME NEW a \in Addresses, NEW c \in Addresses,
         a \div PMMNGR_BLOCK_SIZE = c \div PMMNGR_BLOCK_SIZE
  PROVE  a = c
<1>1. PICK b \in 0..(UINT32 \div 4096 - 1) : a = b * 4096
  BY DEF Addresses, PMMNGR_BLOCK_SIZE
<1>2. PICK d \in 0..(UINT32 \div 4096 - 1) : c = d * 4096
  BY DEF Addresses, PMMNGR_BLOCK_SIZE
<1>3. b \in Nat /\ d \in Nat
  BY <1>1, <1>2, PhysMemAssumption
<1>4. a \div 4096 = b /\ c \div 4096 = d
  BY <1>1, <1>2, <1>3
<1> QED BY <1>1, <1>2, <1>4 DEF PMMNGR_BLOCK_SIZE

\* What vmmngr_alloc_page makes of an absent entry and a frame, and
\* vmmngr_free_page of a present one.
LEMMA EntrySet ==
  ASSUME NEW e \in 0..(UINT32 - 1), ~pt_entry_is_present(e),
         NEW p \in Addresses
  PROVE  LET f == pt_entry_set_present(pt_entry_set_frame(e, p))
         IN  /\ f \in 0..(UINT32 - 1)
             /\ pt_entry_is_present(f)
             /\ pt_entry_pfn(f) = p
<1> DEFINE x == e % 4096
<1>1. UINT32 \in Nat /\ e \in Nat /\ p \in Nat /\ p + PMMNGR_BLOCK_SIZE <= UINT32
  BY PhysMemAssumption, AddressInside
<1>2. x \in Flags /\ x % 2 = 0
  BY <1>1 DEF pt_entry_is_present, Flags
<1> HIDE DEF x
<1>3. x \in 0..4094 /\ (x + 1) % 2 = 1
  <2>1. x # 4095 /\ (x + 1) % 2 = 1
    BY <1>2 DEF Flags
  <2> QED BY <1>2, <2>1 DEF Flags
<1>4. x + 1 \in Flags
  BY <1>3 DEF Flags
<1>5. /\ pt_entry_pfn(p + x) = p /\ (p + x) % 2 = 0
      /\ pt_entry_pfn(p + (x + 1)) = p /\ (p + (x + 1)) % 2 = 1
  <2>1. pt_entry_pfn(p + x) = p /\ (p + x) % 2 = x % 2
    BY <1>2, FrameOfEntry, Zenon
  <2>2. pt_entry_pfn(p + (x + 1)) = p /\ (p + (x + 1)) % 2 = (x + 1) % 2
    BY <1>4, FrameOfEntry, Zenon
  <2> QED BY <1>2, <1>3, <2>1, <2>2
<1>6. pt_entry_set_frame(e, p) = p + x
  BY <1>1, <1>2 DEF pt_entry_set_frame, PMMNGR_BLOCK_SIZE, x, Flags
<1>7. pt_entry_set_present(p + x) = p + (x + 1)
  BY <1>1, <1>2, <1>5 DEF Flags, pt_entry_set_present, pt_entry_is_present, I86_PTE_PRESENT
<1>8. p + (x + 1) \in 0..(UINT32 - 1)
  BY <1>1, <1>3 DEF PMMNGR_BLOCK_SIZE
<1> QED BY <1>5, <1>6, <1>7, <1>8 DEF pt_entry_is_present

LEMMA EntryCleared ==
  ASSUME NEW e \in 0..(UINT32 - 1), pt_entry_is_present(e)
  PROVE  /\ pt_entry_delete_present(e) \in 0..(UINT32 - 1)
         /\ ~pt_entry_is_present(pt_entry_delete_present(e))
<1>1. UINT32 \in Nat /\ e \in Nat /\ e % 2 = 1
  BY PhysMemAssumption DEF pt_entry_is_present
<1>2. e - 1 \in 0..(UINT32 - 1) /\ (e - 1) % 2 = 0
  BY <1>1
<1> QED BY <1>1, <1>2 DEF pt_entry_delete_present, pt_entry_is_present, I86_PTE_PRESENT

-----------------------------------------------------------------------------
(* What an allocation gives.                                               *)

\* The pointer p and the bitmap after a call that may have taken a frame.
Granted(p) ==
  /\ p = 0 => memory_map' = memory_map
                \/ (0 \notin memory_map /\ memory_map' = memory_map \cup {0})
  /\ p # 0 => /\ p \in Addresses
              /\ p \div PMMNGR_BLOCK_SIZE \notin memory_map
              /\ memory_map' = memory_map \cup {p \div PMMNGR_BLOCK_SIZE}

\* pmmngr_alloc_block returns NULL or a frame of the machine that nobody has.
LEMMA AllocGrants ==
  ASSUME BootTypeOK, ScanCovers, pc = "running", UNCHANGED mainVars,
         NEW p \in Pointers, pmmngr_alloc_block(p)
  PROVE  Granted(p) /\ BootTypeOK' /\ ScanCovers'
<1>1. UINT32 \in Nat \ {0} /\ WordBits \in Nat
  BY PhysMemAssumption
<1>2. max_blocks \in WordBits..(UINT32 \div PMMNGR_BLOCK_SIZE)
  BY <1>1 DEF BootTypeOK, ScanCovers, PMMNGR_BLOCK_SIZE
<1>3. CASE BlockFrame = -1
  BY <1>3 DEF pmmngr_alloc_block, Granted, pmmVars, mainVars, BootTypeOK, ScanCovers
<1>4. CASE BlockFrame # -1
  <2> DEFINE f == BlockFrame
  <2>1. f = mmap_first_free_block /\ f # -1
    BY <1>4 DEF BlockFrame
  <2>2. f \in 0..(max_blocks - 1) /\ f \notin memory_map
    BY <1>2, <2>1, FirstFreeBlock
  <2>3. p = f * 4096 /\ TakeFrames(f, 1)
    BY <1>4 DEF pmmngr_alloc_block, PMMNGR_BLOCK_SIZE
  <2> HIDE DEF f
  <2>4. UINT32 \div 4096 \in Nat /\ (UINT32 \div 4096) * 4096 =< UINT32
    BY <1>1
  <2>5. f \in Nat /\ f < UINT32 \div 4096
    BY <1>1, <1>2, <2>2, <2>4 DEF PMMNGR_BLOCK_SIZE
  <2>6. p \div 4096 = f
    BY <2>3, <2>4, <2>5, <1>1
  <2>7. p \in Addresses
    BY <2>3, <2>4, <2>5 DEF Addresses, PMMNGR_BLOCK_SIZE
  <2>8. memory_map' = memory_map \cup {f} /\ max_blocks' = max_blocks
    BY <2>3, <2>5 DEF TakeFrames
  <2>9. used_blocks' \in 0..(UINT32 - 1)
    BY <2>3, CountersTyped DEF TakeFrames, BootTypeOK
  <2>10. p = 0 => f = 0
    BY <2>3, <2>5
  <2>11. Granted(p)
    BY <2>2, <2>6, <2>7, <2>8, <2>10 DEF Granted, PMMNGR_BLOCK_SIZE
  <2> QED BY <2>5, <2>8, <2>9, <2>11 DEF mainVars, BootTypeOK, ScanCovers
<1> QED BY <1>3, <1>4

-----------------------------------------------------------------------------
(* The accounts of the frames.                                             *)

\* A frame whose block is not marked holds no structure and no page.
LEMMA FreshFrame ==
  ASSUME FramesAreOwned, NEW p, p \div PMMNGR_BLOCK_SIZE \notin memory_map
  PROVE  p \notin Structures /\ p \notin PageFrames
BY DEF FramesAreOwned, BlocksOf

\* A step that gives at most the frame p, as a structure, and touches no page.
LEMMA StructureAdded ==
  ASSUME VirtInv, pc = "running", UNCHANGED <<pc, booted>>,
         NEW p, Granted(p),
         Structures' = IF p = 0 THEN Structures ELSE Structures \cup {p},
         Pages' = Pages, \A s \in Pages : PageFrame(s)' = PageFrame(s)
  PROVE  /\ booted' \subseteq memory_map'
         /\ PagesAreLent'
         /\ BlocksOf(Structures \cup PageFrames)' \subseteq memory_map'
         /\ (PageFrames \cap Structures = {})'
         /\ (\A s, t \in Pages : PageFrame(s) = PageFrame(t) => s = t)'
         /\ NoFrameLost'
<1>1. PageFrames' = PageFrames
  BY DEF PageFrames
<1>2. memory_map \subseteq memory_map' /\ booted \subseteq memory_map
  BY DEF VirtInv, Granted
<1>3. (PageFrames \cap Structures = {})'
  <2>1. p # 0 => p \notin PageFrames
    BY FreshFrame DEF VirtInv, Granted
  <2> QED BY <1>1, <2>1 DEF VirtInv, FramesAreOwned
<1>4. (\A s, t \in Pages : PageFrame(s) = PageFrame(t) => s = t)'
  BY DEF VirtInv, FramesAreOwned
<1>5. PagesAreLent'
  <2>1. Addresses' = Addresses
    BY DEF Addresses
  <2> QED BY <2>1 DEF VirtInv, PagesAreLent
<1> DEFINE F == Structures \cup PageFrames
<1>6. CASE p = 0
  <2>1. F' = F
    BY <1>1, <1>6
  <2>2. BlocksOf(F)' = BlocksOf(F)
    BY <2>1 DEF BlocksOf
  <2>3. BlocksOf(F)' \subseteq memory_map'
    BY <2>2, <1>2 DEF VirtInv, FramesAreOwned
  <2>4. NoFrameLost'
    BY <2>2, <1>2, <1>6 DEF VirtInv, NoFrameLost, Granted
  <2> QED BY <1>2, <1>3, <1>4, <1>5, <2>3, <2>4
<1>7. CASE p # 0
  <2>1. F' = F \cup {p}
    BY <1>1, <1>7
  <2>2. BlocksOf(F)' = BlocksOf(F) \cup {p \div PMMNGR_BLOCK_SIZE}
    BY <2>1 DEF BlocksOf
  <2>3. memory_map' = memory_map \cup {p \div PMMNGR_BLOCK_SIZE}
    BY <1>7 DEF Granted
  <2>4. BlocksOf(F)' \subseteq memory_map'
    BY <2>2, <2>3 DEF VirtInv, FramesAreOwned
  <2>5. NoFrameLost'
    BY <2>2, <2>3 DEF VirtInv, NoFrameLost
  <2> QED BY <1>2, <1>3, <1>4, <1>5, <2>4, <2>5
<1> QED BY <1>6, <1>7

LEMMA VirtInit == VMInit => VirtInv
<1> SUFFICES ASSUME VMInit PROVE VirtInv
  OBVIOUS
<1>1. BootTypeOK /\ ScanCovers /\ pc = "scan"
  BY BootInit DEF VMInit, Init
<1>2. /\ vpc = "table" /\ table = 0 /\ table2 = 0 /\ DOMAIN dirs = {}
      /\ DOMAIN tables = {} /\ DOMAIN lowmem = {} /\ booted = {}
      /\ cur_directory = 0 /\ cur_pdbr = 0 /\ cr3 = BOOT_DIR
  BY DEF VMInit
<1>3. 0 \in Addresses
  BY PhysMemAssumption DEF Addresses, PMMNGR_BLOCK_SIZE
<1>4. TypeOK /\ Stages
  BY <1>1, <1>2, <1>3 DEF TypeOK, Stages
<1>5. Pages = {} /\ PageFrames = {} /\ Structures = {}
  BY <1>2 DEF Pages, PageSlots, PageFrames, Structures
<1>6. FramesAreOwned /\ DirectoriesNameTables /\ PagesAreLent /\ NoFrameLost
  BY <1>1, <1>2, <1>5 DEF FramesAreOwned, BlocksOf, DirectoriesNameTables, PagesAreLent,
                         NoFrameLost
<1> QED BY <1>1, <1>2, <1>4, <1>6 DEF VirtInv

\* Until main() is done, the manager has nothing.
LEMMA BootKeeps == ASSUME VirtInv, Boot PROVE VirtInv'
<1>1. pc # "running" /\ [BootNext]_bootVars /\ UNCHANGED vmVars
  BY DEF Boot, BootNext, ScanRegion, InitManager, InitRegion, RegionsDone, DeinitKernel
<1>2. BootTypeOK' /\ ScanCovers'
  BY <1>1, BootStep DEF VirtInv, TypeOK
<1>3. /\ vpc = "table" /\ table = 0 /\ table2 = 0 /\ DOMAIN dirs = {}
      /\ DOMAIN tables = {} /\ booted = {}
  BY <1>1 DEF VirtInv, Stages
<1>4. booted' = IF pc' = "running" THEN memory_map' ELSE {}
  BY <1>3 DEF Boot
<1>5. TypeOK' /\ Stages'
  BY <1>1, <1>2, <1>3, <1>4 DEF VirtInv, TypeOK, Stages, vmVars, Addresses
<1>6. Pages' = {} /\ PageFrames' = {} /\ Structures' = {}
  BY <1>1, <1>3 DEF vmVars, Pages, PageSlots, PageFrames, Structures
<1>7. (FramesAreOwned /\ DirectoriesNameTables /\ PagesAreLent /\ NoFrameLost)'
  BY <1>1, <1>3, <1>4, <1>6 DEF vmVars, FramesAreOwned, BlocksOf, DirectoriesNameTables,
                               PagesAreLent, NoFrameLost
<1> QED BY <1>2, <1>4, <1>5, <1>7 DEF VirtInv

\* vmmngr_initialize: two tables, what is in them, and the directory.
LEMMA TableAdded ==
  ASSUME VirtInv, InitTable PROVE VirtInv'
<1>1. PICK p \in Pointers : pmmngr_alloc_block(p) /\ table' = p
  BY DEF InitTable
<1>2. /\ pc = "running" /\ vpc = "table" /\ vpc' = IF p = 0 THEN "done" ELSE "table2"
      /\ UNCHANGED <<table2, dirs, tables, lowmem, cur_directory, cur_pdbr, cr3>>
      /\ UNCHANGED mainVars /\ booted' = booted
  BY <1>1 DEF InitTable
<1>3. Granted(p) /\ BootTypeOK' /\ ScanCovers'
  BY <1>1, <1>2, AllocGrants DEF VirtInv, TypeOK
<1>4. pc' = pc
  BY <1>2 DEF mainVars
<1>5. table = 0 /\ table2 = 0 /\ DOMAIN tables = {} /\ DOMAIN dirs = {}
  BY <1>2 DEF VirtInv, Stages
<1>6. TypeOK' /\ Stages'
  <2>1. p \in Addresses
    BY <1>3, <1>5 DEF Granted, VirtInv, TypeOK
  <2> QED BY <1>1, <1>2, <1>3, <1>4, <1>5, <2>1
          DEF VirtInv, TypeOK, Stages, Addresses
<1>7. Pages = {} /\ Pages' = {}
  BY <1>2, <1>5 DEF Pages, PageSlots
<1>8. Structures' = IF p = 0 THEN Structures ELSE Structures \cup {p}
  BY <1>1, <1>2, <1>5 DEF Structures
<1>9. /\ booted' \subseteq memory_map' /\ PagesAreLent' /\ NoFrameLost'
      /\ BlocksOf(Structures \cup PageFrames)' \subseteq memory_map'
      /\ (PageFrames \cap Structures = {})'
      /\ (\A s, t \in Pages : PageFrame(s) = PageFrame(t) => s = t)'
  BY <1>2, <1>3, <1>4, <1>7, <1>8, StructureAdded
<1>10. FramesAreOwned' /\ DirectoriesNameTables'
  BY <1>2, <1>5, <1>9 DEF FramesAreOwned, DirectoriesNameTables
<1> QED BY <1>3, <1>6, <1>9, <1>10 DEF VirtInv

LEMMA Table2Added ==
  ASSUME VirtInv, InitTable2 PROVE VirtInv'
<1>1. PICK p \in Pointers : pmmngr_alloc_block(p) /\ table2' = p
  BY DEF InitTable2
<1>2. /\ pc = "running" /\ vpc = "table2" /\ vpc' = IF p = 0 THEN "done" ELSE "fill"
      /\ UNCHANGED <<table, dirs, tables, lowmem, cur_directory, cur_pdbr, cr3>>
      /\ UNCHANGED mainVars /\ booted' = booted
  BY <1>1 DEF InitTable2
<1>3. Granted(p) /\ BootTypeOK' /\ ScanCovers'
  BY <1>1, <1>2, AllocGrants DEF VirtInv, TypeOK
<1>4. pc' = pc
  BY <1>2 DEF mainVars
<1>5. table2 = 0 /\ DOMAIN tables = {} /\ DOMAIN dirs = {}
  BY <1>2 DEF VirtInv, Stages
<1>6. TypeOK' /\ Stages'
  <2>1. p \in Addresses
    BY <1>3, <1>5 DEF Granted, VirtInv, TypeOK
  <2> QED BY <1>1, <1>2, <1>3, <1>4, <1>5, <2>1
          DEF VirtInv, TypeOK, Stages, Addresses
<1>7. Pages = {} /\ Pages' = {}
  BY <1>2, <1>5 DEF Pages, PageSlots
<1>8. Structures' = IF p = 0 THEN Structures ELSE Structures \cup {p}
  BY <1>1, <1>2, <1>5 DEF Structures
<1>9. /\ booted' \subseteq memory_map' /\ PagesAreLent' /\ NoFrameLost'
      /\ BlocksOf(Structures \cup PageFrames)' \subseteq memory_map'
      /\ (PageFrames \cap Structures = {})'
      /\ (\A s, t \in Pages : PageFrame(s) = PageFrame(t) => s = t)'
  BY <1>2, <1>3, <1>4, <1>7, <1>8, StructureAdded
<1>10. FramesAreOwned' /\ DirectoriesNameTables'
  BY <1>2, <1>5, <1>9 DEF FramesAreOwned, DirectoriesNameTables
<1> QED BY <1>3, <1>6, <1>9, <1>10 DEF VirtInv

LEMMA TablesFilled ==
  ASSUME VirtInv, FillTables PROVE VirtInv'
<1> DEFINE low  == [j \in TableSlots |-> j * PMMNGR_BLOCK_SIZE + I86_PTE_PRESENT]
           high == [j \in TableSlots |-> KERNEL_BASE + j * PMMNGR_BLOCK_SIZE
                                           + I86_PTE_PRESENT]
<1>1. /\ pc = "running" /\ vpc = "fill" /\ vpc' = "dir"
      /\ tables' = Put(Put(tables, table, low), table2, high)
      /\ UNCHANGED <<table, table2, dirs, lowmem, cur_directory, cur_pdbr, cr3>>
      /\ UNCHANGED bootVars /\ booted' = booted
  BY DEF FillTables
<1>2. low \in [TableSlots -> 0..(UINT32 - 1)] /\ high \in [TableSlots -> 0..(UINT32 - 1)]
  <2>1. ASSUME NEW j \in TableSlots
        PROVE  /\ j * 4096 + 1 \in 0..(UINT32 - 1)
               /\ KERNEL_BASE + j * 4096 + 1 \in 0..(UINT32 - 1)
    <3>1. /\ j \in Nat /\ j + 1 =< PAGE_TABLE_SIZE /\ PAGE_TABLE_SIZE \in Nat
          /\ UINT32 \in Nat /\ KERNEL_BASE \in Nat
      BY <2>1, VirtMemAssumption, MemoryBootAssumption, PhysMemAssumption DEF TableSlots
    <3>2. KERNEL_BASE + PAGE_TABLE_SIZE * 4096 <= UINT32
      BY VirtMemAssumption DEF PMMNGR_BLOCK_SIZE
    <3> QED BY <3>1, <3>2
  <2> QED BY <2>1 DEF PMMNGR_BLOCK_SIZE, I86_PTE_PRESENT
<1> HIDE DEF low, high
<1>3. table # 0 /\ table2 # 0 /\ DOMAIN tables = {} /\ DOMAIN dirs = {}
  BY <1>1 DEF VirtInv, Stages
<1>4. /\ DOMAIN tables' = {table, table2}
      /\ \A t \in DOMAIN tables' : tables'[t] = low \/ tables'[t] = high
  BY <1>1, <1>3 DEF Put
<1>5. BootTypeOK' /\ ScanCovers' /\ memory_map' = memory_map /\ pc' = pc
  BY <1>1 DEF bootVars, mainVars, pmmVars, VirtInv, TypeOK, BootTypeOK, ScanCovers
<1>6. TypeOK' /\ Stages'
  <2>1. Stages'
    BY <1>1, <1>3, <1>4, <1>5 DEF VirtInv, Stages
  <2>2. \A t \in DOMAIN tables' : tables'[t] \in [TableSlots -> 0..(UINT32 - 1)]
    BY <1>2, <1>4
  <2>3. DOMAIN tables' \subseteq Addresses \ {0}
    BY <1>3, <1>4 DEF VirtInv, TypeOK
  <2>4. TypeOK'
    BY <1>1, <1>3, <1>5, <2>2, <2>3 DEF VirtInv, TypeOK, Addresses
  <2> QED BY <2>1, <2>4
<1>7. Pages = {} /\ Pages' = {}
  BY <1>1, <1>3, <1>4 DEF Pages, PageSlots
<1>8. Structures' = Structures
  BY <1>1, <1>3, <1>4 DEF Structures
<1>9. Granted(0)
  BY <1>5 DEF Granted
<1>10. /\ booted' \subseteq memory_map' /\ PagesAreLent' /\ NoFrameLost'
       /\ BlocksOf(Structures \cup PageFrames)' \subseteq memory_map'
       /\ (PageFrames \cap Structures = {})'
       /\ (\A s, t \in Pages : PageFrame(s) = PageFrame(t) => s = t)'
  BY <1>1, <1>5, <1>7, <1>8, <1>9, StructureAdded
<1>11. FramesAreOwned' /\ DirectoriesNameTables'
  BY <1>1, <1>3, <1>10 DEF FramesAreOwned, DirectoriesNameTables
<1> QED BY <1>5, <1>6, <1>10, <1>11 DEF VirtInv

LEMMA DirectoryMade ==
  ASSUME VirtInv, InitDirectory PROVE VirtInv'
<1> DEFINE Dir == [ZeroDirectory EXCEPT
                     ![0] = table + I86_PTE_PRESENT + I86_PTE_WRITABLE,
                     ![KERNEL_INDEX] = table2 + I86_PTE_PRESENT + I86_PTE_WRITABLE]
<1>1. PICK p \in Pointers :
        /\ pmmngr_alloc_block(p)
        /\ IF p = 0 THEN UNCHANGED <<dirs, cur_directory, cur_pdbr, cr3>>
           ELSE /\ dirs' = Put(dirs, p, Dir)
                /\ cur_pdbr' = p /\ cur_directory' = p /\ cr3' = p
  BY DEF InitDirectory, SwitchTo
<1>2. /\ pc = "running" /\ vpc = "dir" /\ vpc' = "done"
      /\ UNCHANGED <<table, table2, tables, lowmem>>
      /\ UNCHANGED mainVars /\ booted' = booted
  BY DEF InitDirectory
<1>3. Granted(p) /\ BootTypeOK' /\ ScanCovers'
  BY <1>1, <1>2, AllocGrants DEF VirtInv, TypeOK
<1>4. pc' = pc
  BY <1>2 DEF mainVars
<1>5. /\ table \in DOMAIN tables /\ table2 \in DOMAIN tables /\ DOMAIN dirs = {}
      /\ table \in Addresses /\ table2 \in Addresses
  BY <1>2 DEF VirtInv, Stages, TypeOK
<1>6. p # 0 => p \in Addresses /\ p \notin Structures
  BY <1>3, FreshFrame DEF Granted, VirtInv
<1>7. \A k \in DirectorySlots :
        Dir[k] \in 0..(UINT32 - 1)
          /\ (pt_entry_is_present(Dir[k]) => pt_entry_pfn(Dir[k]) \in DOMAIN tables)
  <2>1. \A a \in {table, table2} :
          /\ a + I86_PTE_PRESENT + I86_PTE_WRITABLE \in 0..(UINT32 - 1)
          /\ pt_entry_pfn(a + I86_PTE_PRESENT + I86_PTE_WRITABLE) = a
    BY <1>5, EntryOfFrame
  <2>3. 0 \in 0..(UINT32 - 1) /\ ~pt_entry_is_present(0)
    BY PhysMemAssumption DEF pt_entry_is_present
  <2>4. \A k \in DirectorySlots :
          \/ Dir[k] = table + I86_PTE_PRESENT + I86_PTE_WRITABLE
          \/ Dir[k] = table2 + I86_PTE_PRESENT + I86_PTE_WRITABLE
          \/ Dir[k] = 0
    BY DEF ZeroDirectory
  <2> HIDE DEF Dir
  <2> QED BY <1>5, <2>1, <2>3, <2>4
<1>8. DOMAIN Dir = DirectorySlots /\ Dir \in [DirectorySlots -> 0..(UINT32 - 1)]
  <2>1. Dir = [k \in DirectorySlots |-> Dir[k]]
    BY DEF ZeroDirectory
  <2> HIDE DEF Dir
  <2> QED BY <1>7, <2>1
<1> HIDE DEF Dir
<1>9. p # 0 => DOMAIN dirs' = {p} /\ dirs'[p] = Dir
  BY <1>1, <1>5 DEF Put
<1>10. TypeOK'
  <2>1. CASE p = 0
    BY <1>1, <1>2, <1>3, <2>1 DEF VirtInv, TypeOK, Addresses
  <2>2. CASE p # 0
    BY <1>1, <1>2, <1>3, <1>6, <1>8, <1>9, <2>2 DEF VirtInv, TypeOK, Addresses
  <2> QED BY <2>1, <2>2
<1>11. Stages'
  BY <1>1, <1>2, <1>4, <1>5, <1>9 DEF VirtInv, Stages
<1>12. Pages' = Pages /\ \A s \in Pages : PageFrame(s)' = PageFrame(s)
  BY <1>2 DEF Pages, PageSlots, PageFrame
<1>13. Structures' = IF p = 0 THEN Structures ELSE Structures \cup {p}
  BY <1>1, <1>2, <1>5, <1>9 DEF Structures
<1>14. /\ booted' \subseteq memory_map' /\ PagesAreLent' /\ NoFrameLost'
       /\ BlocksOf(Structures \cup PageFrames)' \subseteq memory_map'
       /\ (PageFrames \cap Structures = {})'
       /\ (\A s, t \in Pages : PageFrame(s) = PageFrame(t) => s = t)'
  BY <1>2, <1>3, <1>4, <1>12, <1>13, StructureAdded
<1>15. (DOMAIN dirs \cap (DOMAIN tables \cup {table, table2}) = {})'
  <2>1. CASE p = 0
    BY <1>1, <1>2, <1>5, <2>1
  <2>2. CASE p # 0
    BY <1>2, <1>6, <1>9, <1>5, <2>2 DEF Structures
  <2> QED BY <2>1, <2>2
<1>16. DirectoriesNameTables'
  <2>1. CASE p = 0
    BY <1>1, <1>5, <2>1 DEF DirectoriesNameTables
  <2>2. CASE p # 0
    BY <1>2, <1>7, <1>9, <2>2 DEF DirectoriesNameTables
  <2> QED BY <2>1, <2>2
<1> QED BY <1>3, <1>10, <1>11, <1>14, <1>15, <1>16 DEF VirtInv, FramesAreOwned

-----------------------------------------------------------------------------
(* The functions the kernel calls afterwards.                              *)

\* vmmngr_map_page through an entry that is present: no frame changes hands.
LEMMA MappedThrough ==
  ASSUME VirtInv, NEW phys \in MappedFrames, NEW a,
         vpc = "done", cur_directory # 0,
         lowmem' = Put(lowmem, a, phys),
         UNCHANGED <<bootVars, dirs, tables, booted, vpc, table, table2, cur_directory,
                     cur_pdbr, cr3>>
  PROVE  VirtInv'
<1>1. pc = "running"
  BY DEF VirtInv, Stages
<1>2. \A x \in DOMAIN lowmem' : lowmem'[x] \in MappedFrames
  BY DEF Put, VirtInv, TypeOK
<1>3. BootTypeOK' /\ ScanCovers' /\ memory_map' = memory_map /\ pc' = pc
  BY DEF bootVars, mainVars, pmmVars, VirtInv, TypeOK, BootTypeOK, ScanCovers
<1>4. TypeOK'
  BY <1>2, <1>3 DEF VirtInv, TypeOK, Addresses
<1>5. Stages'
  BY <1>3 DEF VirtInv, Stages
<1>6. Pages' = Pages /\ Structures' = Structures
  BY DEF Pages, PageSlots, Structures
<1>7. \A s \in Pages : PageFrame(s)' = PageFrame(s)
  BY DEF PageFrame
<1>8. Granted(0)
  BY <1>3 DEF Granted
<1>9. /\ booted' \subseteq memory_map' /\ PagesAreLent' /\ NoFrameLost'
      /\ BlocksOf(Structures \cup PageFrames)' \subseteq memory_map'
      /\ (PageFrames \cap Structures = {})'
      /\ (\A s, t \in Pages : PageFrame(s) = PageFrame(t) => s = t)'
  BY <1>1, <1>3, <1>6, <1>7, <1>8, StructureAdded
<1>10. FramesAreOwned' /\ DirectoriesNameTables'
  BY <1>9 DEF FramesAreOwned, DirectoriesNameTables, VirtInv
<1> QED BY <1>3, <1>4, <1>5, <1>9, <1>10 DEF VirtInv

\* vmmngr_map_page with a new table: it is nobody's, it is empty, and the one
\* entry that changes names it.
LEMMA TableMapped ==
  ASSUME VirtInv, NEW phys \in MappedFrames, NEW a, NEW k \in DirectorySlots,
         vpc = "done", cur_directory # 0, NEW p \in Pointers, p # 0,
         pmmngr_alloc_block(p),
         tables' = Put(tables, p, ZeroTable),
         dirs' = [dirs EXCEPT ![cur_directory][k]
                                = p + I86_PTE_PRESENT + I86_PTE_WRITABLE],
         lowmem' = Put(lowmem, a, phys),
         UNCHANGED <<mainVars, booted, vpc, table, table2, cur_directory, cur_pdbr, cr3>>
  PROVE  VirtInv'
<1> DEFINE entry == p + I86_PTE_PRESENT + I86_PTE_WRITABLE
           c == cur_directory
<1>1. pc = "running" /\ pc' = pc /\ c \in DOMAIN dirs
  BY DEF VirtInv, Stages, TypeOK, mainVars
<1>2. Granted(p) /\ BootTypeOK' /\ ScanCovers'
  BY <1>1, AllocGrants DEF VirtInv, TypeOK
<1>3. p \in Addresses /\ p \notin Structures /\ p \notin PageFrames
  BY <1>2, FreshFrame DEF Granted, VirtInv
<1>4. entry \in 0..(UINT32 - 1) /\ pt_entry_pfn(entry) = p
  BY <1>3, EntryOfFrame
<1> HIDE DEF entry
<1>5. /\ DOMAIN dirs' = DOMAIN dirs
      /\ \A d \in DOMAIN dirs : dirs[d] \in [DirectorySlots -> 0..(UINT32 - 1)]
      /\ \A d \in DOMAIN dirs : d # c => dirs'[d] = dirs[d]
      /\ dirs'[c] = [dirs[c] EXCEPT ![k] = entry]
  BY <1>1 DEF VirtInv, TypeOK, entry
<1>6. /\ dirs'[c] \in [DirectorySlots -> 0..(UINT32 - 1)] /\ dirs'[c][k] = entry
      /\ \A n \in DirectorySlots : n # k => dirs'[c][n] = dirs[c][n]
  BY <1>1, <1>4, <1>5
<1>7. \A d \in DOMAIN dirs' : dirs'[d] \in [DirectorySlots -> 0..(UINT32 - 1)]
  BY <1>5, <1>6
<1>8. /\ DOMAIN tables' = DOMAIN tables \cup {p} /\ tables'[p] = ZeroTable
      /\ \A t \in DOMAIN tables : tables'[t] = tables[t]
  BY <1>3 DEF Put, Structures
<1>9. ZeroTable \in [TableSlots -> 0..(UINT32 - 1)]
      /\ \A j \in TableSlots : ~pt_entry_is_present(ZeroTable[j])
  <2>1. 0 \in 0..(UINT32 - 1) /\ ~pt_entry_is_present(0)
    BY PhysMemAssumption DEF pt_entry_is_present
  <2> QED BY <2>1 DEF ZeroTable
<1>10. \A t \in DOMAIN tables' : tables'[t] \in [TableSlots -> 0..(UINT32 - 1)]
  BY <1>8, <1>9 DEF VirtInv, TypeOK
<1>11. \A x \in DOMAIN lowmem' : lowmem'[x] \in MappedFrames
  BY DEF Put, VirtInv, TypeOK
<1>12. TypeOK'
  BY <1>2, <1>3, <1>5, <1>7, <1>8, <1>10, <1>11 DEF VirtInv, TypeOK, Addresses
<1>13. Stages'
  BY <1>1, <1>5 DEF VirtInv, Stages
<1>14. Pages' = Pages
  BY <1>8, <1>9 DEF Pages, PageSlots
<1>15. \A s \in Pages : PageFrame(s)' = PageFrame(s)
  BY <1>8 DEF Pages, PageSlots, PageFrame
<1>16. Structures' = IF p = 0 THEN Structures ELSE Structures \cup {p}
  BY <1>5, <1>8 DEF Structures
<1>17. /\ booted' \subseteq memory_map' /\ PagesAreLent' /\ NoFrameLost'
       /\ BlocksOf(Structures \cup PageFrames)' \subseteq memory_map'
       /\ (PageFrames \cap Structures = {})'
       /\ (\A s, t \in Pages : PageFrame(s) = PageFrame(t) => s = t)'
  BY <1>1, <1>2, <1>14, <1>15, <1>16, StructureAdded
<1>18. (DOMAIN dirs \cap (DOMAIN tables \cup {table, table2}) = {})'
  BY <1>3, <1>5, <1>8 DEF VirtInv, FramesAreOwned, Structures
<1>19. DirectoriesNameTables'
  <2> SUFFICES ASSUME NEW d \in DOMAIN dirs, NEW n \in DirectorySlots,
                      pt_entry_is_present(dirs'[d][n])
               PROVE  pt_entry_pfn(dirs'[d][n]) \in DOMAIN tables'
    BY <1>5 DEF DirectoriesNameTables
  <2>1. CASE d = c /\ n = k
    BY <1>4, <1>6, <1>8, <2>1
  <2>2. CASE ~(d = c /\ n = k)
    <3>1. dirs'[d][n] = dirs[d][n]
      BY <1>5, <1>6, <2>2
    <3> QED BY <1>8, <3>1 DEF VirtInv, DirectoriesNameTables
  <2> QED BY <2>1, <2>2
<1> QED BY <1>2, <1>12, <1>13, <1>17, <1>18, <1>19 DEF VirtInv, FramesAreOwned

\* An allocation that fails changes nothing, except that a block 0 nobody
\* marked is marked: it is the address NULL.
LEMMA AllocFailed ==
  ASSUME VirtInv, pc = "running", Granted(0), BootTypeOK', ScanCovers',
         UNCHANGED <<mainVars, dirs, tables, lowmem, booted, vpc, table, table2,
                     cur_directory, cur_pdbr, cr3>>
  PROVE  VirtInv'
<1>1. pc' = pc
  BY DEF mainVars
<1>2. TypeOK'
  BY DEF VirtInv, TypeOK, Addresses
<1>3. Stages'
  BY <1>1 DEF VirtInv, Stages
<1>4. Pages' = Pages /\ Structures' = Structures
  BY DEF Pages, PageSlots, Structures
<1>5. \A s \in Pages : PageFrame(s)' = PageFrame(s)
  BY DEF PageFrame
<1>6. /\ booted' \subseteq memory_map' /\ PagesAreLent' /\ NoFrameLost'
      /\ BlocksOf(Structures \cup PageFrames)' \subseteq memory_map'
      /\ (PageFrames \cap Structures = {})'
      /\ (\A s, t \in Pages : PageFrame(s) = PageFrame(t) => s = t)'
  BY <1>1, <1>4, <1>5, StructureAdded
<1>7. FramesAreOwned' /\ DirectoriesNameTables'
  BY <1>6 DEF FramesAreOwned, DirectoriesNameTables, VirtInv
<1> QED BY <1>2, <1>3, <1>6, <1>7 DEF VirtInv

LEMMA PageMapped ==
  ASSUME VirtInv, NEW phys \in MappedFrames, NEW k \in DirectorySlots,
         NEW j \in TableSlots, vmmngr_map_page(phys, k, j)
  PROVE  VirtInv'
<1> DEFINE e == dirs[cur_directory][k]
           to(n) == PAGE_GET_PHYSICAL_ADDRESS(n) + 4 * j
<1>1. /\ vpc = "done" /\ cur_directory # 0
      /\ UNCHANGED <<mainVars, booted, vpc, table, table2, cur_directory, cur_pdbr, cr3>>
  BY DEF vmmngr_map_page
<1>2. pc = "running"
  BY <1>1 DEF VirtInv, Stages
<1>3. CASE pt_entry_is_present(e)
  <2>1. lowmem' = Put(lowmem, to(e), phys) /\ UNCHANGED <<pmmVars, dirs, tables>>
    BY <1>3 DEF vmmngr_map_page
  <2>2. UNCHANGED bootVars
    BY <1>1, <2>1 DEF bootVars
  <2> HIDE DEF to, e
  <2> QED BY <1>1, <2>1, <2>2, MappedThrough
<1>4. CASE ~pt_entry_is_present(e)
  <2>1. PICK p \in Pointers :
          /\ pmmngr_alloc_block(p)
          /\ IF p = 0 THEN UNCHANGED <<dirs, tables, lowmem>>
             ELSE LET entry == p + I86_PTE_PRESENT + I86_PTE_WRITABLE
                  IN  /\ tables' = Put(tables, p, ZeroTable)
                      /\ dirs' = [dirs EXCEPT ![cur_directory][k] = entry]
                      /\ lowmem' = Put(lowmem, to(entry), phys)
    BY <1>4 DEF vmmngr_map_page
  <2> HIDE DEF to, e
  <2>2. Granted(p) /\ BootTypeOK' /\ ScanCovers'
    BY <1>1, <1>2, <2>1, AllocGrants DEF VirtInv, TypeOK
  <2>3. CASE p = 0
    BY <1>1, <1>2, <2>1, <2>2, <2>3, AllocFailed
  <2>4. CASE p # 0
    BY <1>1, <2>1, <2>4, TableMapped
  <2> QED BY <2>3, <2>4
<1> QED BY <1>3, <1>4

\* A new directory shares the entries, and so the tables, of the current one.
LEMMA DirectoryAdded ==
  ASSUME VirtInv, NewDirectory PROVE VirtInv'
<1>1. /\ vpc = "done" /\ cur_directory # 0
      /\ UNCHANGED <<mainVars, booted, vpc, table, table2, tables, lowmem, cur_directory,
                     cur_pdbr, cr3>>
  BY DEF NewDirectory
<1>2. PICK p \in Pointers :
        /\ pmmngr_alloc_block(p)
        /\ dirs' = IF p = 0 THEN dirs ELSE Put(dirs, p, dirs[cur_directory])
  BY DEF NewDirectory
<1>3. pc = "running" /\ pc' = pc /\ cur_directory \in DOMAIN dirs
  BY <1>1 DEF VirtInv, Stages, TypeOK, mainVars
<1>4. Granted(p) /\ BootTypeOK' /\ ScanCovers'
  BY <1>1, <1>2, <1>3, AllocGrants DEF VirtInv, TypeOK
<1>5. CASE p = 0
  BY <1>1, <1>2, <1>3, <1>4, <1>5, AllocFailed
<1>6. CASE p # 0
  <2>1. p \in Addresses /\ p \notin Structures /\ p \notin PageFrames
    BY <1>4, <1>6, FreshFrame DEF Granted, VirtInv
  <2>2. /\ DOMAIN dirs' = DOMAIN dirs \cup {p} /\ dirs'[p] = dirs[cur_directory]
        /\ \A d \in DOMAIN dirs : dirs'[d] = dirs[d]
    BY <1>2, <1>6, <2>1 DEF Put, Structures
  <2>3. \A d \in DOMAIN dirs' : dirs'[d] \in [DirectorySlots -> 0..(UINT32 - 1)]
    BY <1>3, <2>2 DEF VirtInv, TypeOK
  <2>4. TypeOK'
    BY <1>1, <1>4, <1>6, <2>1, <2>2, <2>3 DEF VirtInv, TypeOK, Addresses
  <2>5. Stages'
    BY <1>1, <1>3, <2>2 DEF VirtInv, Stages
  <2>6. Pages' = Pages /\ \A s \in Pages : PageFrame(s)' = PageFrame(s)
    BY <1>1 DEF Pages, PageSlots, PageFrame
  <2>7. Structures' = IF p = 0 THEN Structures ELSE Structures \cup {p}
    BY <1>1, <1>6, <2>2 DEF Structures
  <2>8. /\ booted' \subseteq memory_map' /\ PagesAreLent' /\ NoFrameLost'
        /\ BlocksOf(Structures \cup PageFrames)' \subseteq memory_map'
        /\ (PageFrames \cap Structures = {})'
        /\ (\A s, t \in Pages : PageFrame(s) = PageFrame(t) => s = t)'
    BY <1>1, <1>3, <1>4, <2>6, <2>7, StructureAdded
  <2>9. (DOMAIN dirs \cap (DOMAIN tables \cup {table, table2}) = {})'
    BY <1>1, <1>6, <2>1, <2>2 DEF VirtInv, FramesAreOwned, Structures
  <2>10. DirectoriesNameTables'
    BY <1>1, <1>3, <2>2 DEF VirtInv, DirectoriesNameTables
  <2> QED BY <1>4, <2>4, <2>5, <2>8, <2>9, <2>10 DEF VirtInv, FramesAreOwned
<1> QED BY <1>5, <1>6

\* vmmngr_switch_directory loads cur_pdbr, which names a directory that exists.
LEMMA DirectorySwitched ==
  ASSUME VirtInv, NEW dir \in DOMAIN dirs, vmmngr_switch_directory(dir)
  PROVE  VirtInv'
<1>1. /\ vpc = "done" /\ cur_directory' = dir /\ cr3' = cur_pdbr
      /\ UNCHANGED <<bootVars, booted, vpc, table, table2, dirs, tables, lowmem, cur_pdbr>>
  BY DEF vmmngr_switch_directory, SwitchTo
<1>2. pc = "running" /\ cur_pdbr \in DOMAIN dirs
  BY <1>1 DEF VirtInv, Stages, TypeOK
<1>3. BootTypeOK' /\ ScanCovers' /\ memory_map' = memory_map /\ pc' = pc
  BY <1>1 DEF bootVars, mainVars, pmmVars, VirtInv, TypeOK, BootTypeOK, ScanCovers
<1>4. TypeOK'
  BY <1>1, <1>2, <1>3 DEF VirtInv, TypeOK, Addresses
<1>5. Stages'
  BY <1>1, <1>3 DEF VirtInv, Stages
<1>6. Pages' = Pages /\ Structures' = Structures
  BY <1>1 DEF Pages, PageSlots, Structures
<1>7. \A s \in Pages : PageFrame(s)' = PageFrame(s)
  BY <1>1 DEF PageFrame
<1>8. Granted(0)
  BY <1>3 DEF Granted
<1>9. /\ booted' \subseteq memory_map' /\ PagesAreLent' /\ NoFrameLost'
      /\ BlocksOf(Structures \cup PageFrames)' \subseteq memory_map'
      /\ (PageFrames \cap Structures = {})'
      /\ (\A s, t \in Pages : PageFrame(s) = PageFrame(t) => s = t)'
  BY <1>1, <1>2, <1>3, <1>6, <1>7, <1>8, StructureAdded
<1>10. FramesAreOwned' /\ DirectoriesNameTables'
  BY <1>1, <1>9 DEF FramesAreOwned, DirectoriesNameTables, VirtInv
<1> QED BY <1>3, <1>4, <1>5, <1>9, <1>10 DEF VirtInv

\* What writing the entry j of table t, to n, does to the tables.
LEMMA EntryWritten ==
  ASSUME TypeOK, NEW t \in DOMAIN tables, NEW j \in TableSlots,
         NEW n \in 0..(UINT32 - 1), tables' = [tables EXCEPT ![t][j] = n]
  PROVE  /\ DOMAIN tables' = DOMAIN tables
         /\ \A u \in DOMAIN tables : tables'[u] \in [TableSlots -> 0..(UINT32 - 1)]
         /\ \A u \in DOMAIN tables, k \in TableSlots :
              tables'[u][k] = IF u = t /\ k = j THEN n ELSE tables[u][k]
<1>1. \A u \in DOMAIN tables : tables[u] \in [TableSlots -> 0..(UINT32 - 1)]
  BY DEF TypeOK
<1>2. /\ DOMAIN tables' = DOMAIN tables /\ tables'[t] = [tables[t] EXCEPT ![j] = n]
      /\ \A u \in DOMAIN tables : u # t => tables'[u] = tables[u]
  OBVIOUS
<1>3. /\ tables'[t] \in [TableSlots -> 0..(UINT32 - 1)]
      /\ \A k \in TableSlots : tables'[t][k] = IF k = j THEN n ELSE tables[t][k]
  BY <1>1, <1>2
<1> QED BY <1>1, <1>2, <1>3

\* vmmngr_alloc_page gives the entry a frame that nobody has.
LEMMA PageAllocated ==
  ASSUME VirtInv, NEW s \in PageSlots, vmmngr_alloc_page(s)
  PROVE  VirtInv'
<1>1. /\ vpc = "done" /\ s \notin Pages
      /\ UNCHANGED <<mainVars, booted, vpc, table, table2, dirs, lowmem, cur_directory,
                     cur_pdbr, cr3>>
  BY DEF vmmngr_alloc_page
<1>2. PICK t \in DOMAIN tables \ {table, table2}, j \in TableSlots : s = <<t, j>>
  BY DEF PageSlots
<1> DEFINE e == tables[t][j]
           new(p) == pt_entry_set_present(pt_entry_set_frame(e, p))
<1>3. PICK p \in Pointers :
        /\ pmmngr_alloc_block(p)
        /\ tables' = IF p = 0 THEN tables ELSE [tables EXCEPT ![t][j] = new(p)]
  BY <1>2 DEF vmmngr_alloc_page
<1>4. pc = "running" /\ pc' = pc
  BY <1>1 DEF VirtInv, Stages, mainVars
<1>5. Granted(p) /\ BootTypeOK' /\ ScanCovers'
  BY <1>1, <1>3, <1>4, AllocGrants DEF VirtInv, TypeOK
<1>6. CASE p = 0
  BY <1>1, <1>3, <1>4, <1>5, <1>6, AllocFailed
<1>7. CASE p # 0
  <2> DEFINE b == p \div PMMNGR_BLOCK_SIZE
             n == new(p)
  <2>1. p \in Addresses /\ p \notin Structures /\ p \notin PageFrames
        /\ b \notin memory_map /\ memory_map' = memory_map \cup {b}
    BY <1>5, <1>7, FreshFrame DEF Granted, VirtInv
  <2>2. e \in 0..(UINT32 - 1) /\ ~pt_entry_is_present(e)
    BY <1>1, <1>2 DEF VirtInv, TypeOK, Pages
  <2>3. n \in 0..(UINT32 - 1) /\ pt_entry_is_present(n) /\ pt_entry_pfn(n) = p
    BY <2>1, <2>2, EntrySet, Zenon
  <2> HIDE DEF new, n
  <2>4. tables' = [tables EXCEPT ![t][j] = n]
    BY <1>3, <1>7 DEF n
  <2>5. /\ DOMAIN tables' = DOMAIN tables
        /\ \A u \in DOMAIN tables : tables'[u] \in [TableSlots -> 0..(UINT32 - 1)]
        /\ \A u \in DOMAIN tables, k \in TableSlots :
             tables'[u][k] = IF u = t /\ k = j THEN n ELSE tables[u][k]
    BY <1>2, <2>3, <2>4, EntryWritten DEF VirtInv
  <2>6. PageSlots' = PageSlots
    BY <1>1, <2>5 DEF PageSlots
  <2>7. \A x \in PageSlots : x # s => tables'[x[1]][x[2]] = tables[x[1]][x[2]]
    BY <1>2, <2>5 DEF PageSlots
  <2>8. tables'[s[1]][s[2]] = n
    BY <1>2, <2>5
  <2>9. Pages' = Pages \cup {s}
    BY <2>3, <2>6, <2>7, <2>8 DEF Pages
  <2>10. PageFrame(s)' = p /\ \A x \in Pages : PageFrame(x)' = PageFrame(x)
    BY <1>1, <2>3, <2>7, <2>8 DEF PageFrame, Pages
  <2>11. PageFrames' = PageFrames \cup {p}
    BY <2>9, <2>10 DEF PageFrames
  <2>12. Structures' = Structures
    BY <1>1, <2>5 DEF Structures
  <2>13. BlocksOf(Structures \cup PageFrames)'
           = BlocksOf(Structures \cup PageFrames) \cup {b}
    BY <2>11, <2>12 DEF BlocksOf
  <2>14. TypeOK'
    BY <1>1, <1>5, <2>5 DEF VirtInv, TypeOK, Addresses
  <2>15. Stages'
    BY <1>1, <1>4, <2>5 DEF VirtInv, Stages
  <2>16. booted' \subseteq memory_map' /\ b \notin booted'
    BY <1>1, <2>1 DEF VirtInv
  <2>17. PagesAreLent'
    BY <1>1, <1>7, <2>1, <2>9, <2>10, <2>16 DEF VirtInv, PagesAreLent, Addresses
  <2>18. (\A x, y \in Pages : PageFrame(x) = PageFrame(y) => x = y)'
    BY <2>1, <2>9, <2>10 DEF VirtInv, FramesAreOwned, PageFrames
  <2>19. FramesAreOwned'
    <3>1. BlocksOf(Structures \cup PageFrames)' \subseteq memory_map'
      BY <2>1, <2>13 DEF VirtInv, FramesAreOwned
    <3>2. (DOMAIN dirs \cap (DOMAIN tables \cup {table, table2}) = {})'
      BY <1>1, <2>5 DEF VirtInv, FramesAreOwned
    <3>3. (PageFrames \cap Structures = {})'
      BY <2>1, <2>11, <2>12 DEF VirtInv, FramesAreOwned
    <3> QED BY <2>18, <3>1, <3>2, <3>3 DEF FramesAreOwned
  <2>20. NoFrameLost'
    BY <1>1, <1>4, <2>1, <2>13 DEF VirtInv, NoFrameLost
  <2>21. DirectoriesNameTables'
    BY <1>1, <2>5 DEF VirtInv, DirectoriesNameTables
  <2> QED BY <1>5, <2>14, <2>15, <2>16, <2>17, <2>19, <2>20, <2>21 DEF VirtInv
<1> QED BY <1>6, <1>7

\* vmmngr_free_page gives back the entry's frame, which is nobody else's.
LEMMA PageFreed ==
  ASSUME VirtInv, NEW s \in PageSlots, vmmngr_free_page(s)
  PROVE  VirtInv'
<1>1. /\ vpc = "done" /\ s \in Pages
      /\ UNCHANGED <<mainVars, booted, vpc, table, table2, dirs, lowmem, cur_directory,
                     cur_pdbr, cr3>>
  BY DEF vmmngr_free_page
<1>2. PICK t \in DOMAIN tables \ {table, table2}, j \in TableSlots : s = <<t, j>>
  BY DEF PageSlots
<1> DEFINE e == tables[t][j]
           n == pt_entry_delete_present(e)
           p == pt_entry_pfn(e)
           b == p \div PMMNGR_BLOCK_SIZE
<1>3. pc = "running" /\ pc' = pc
  BY <1>1 DEF VirtInv, Stages, mainVars
<1>4. p = PageFrame(s) /\ p \in Addresses /\ p # 0 /\ b \notin booted
  BY <1>1, <1>2 DEF VirtInv, PagesAreLent, PageFrame
<1>5. pmmngr_free_block(p) /\ tables' = [tables EXCEPT ![t][j] = n]
  BY <1>2, <1>4 DEF vmmngr_free_page
<1>6. e \in 0..(UINT32 - 1) /\ pt_entry_is_present(e)
  BY <1>1, <1>2 DEF VirtInv, TypeOK, Pages
<1>7. n \in 0..(UINT32 - 1) /\ ~pt_entry_is_present(n)
  BY <1>6, EntryCleared, Zenon
<1>8. memory_map' = memory_map \ {b} /\ max_blocks' = max_blocks
  BY <1>5 DEF pmmngr_free_block
<1>9. BootTypeOK' /\ ScanCovers'
  <2>1. used_blocks' \in 0..(UINT32 - 1)
    BY <1>5, CountersTyped DEF pmmngr_free_block, VirtInv, TypeOK, BootTypeOK
  <2> QED BY <1>1, <1>8, <2>1 DEF mainVars, VirtInv, TypeOK, BootTypeOK, ScanCovers
<1> HIDE DEF n, p
<1>10. /\ DOMAIN tables' = DOMAIN tables
       /\ \A u \in DOMAIN tables : tables'[u] \in [TableSlots -> 0..(UINT32 - 1)]
       /\ \A u \in DOMAIN tables, k \in TableSlots :
            tables'[u][k] = IF u = t /\ k = j THEN n ELSE tables[u][k]
  BY <1>2, <1>5, <1>7, EntryWritten DEF VirtInv
<1>11. PageSlots' = PageSlots
  BY <1>1, <1>10 DEF PageSlots
<1>12. \A x \in PageSlots : x # s => tables'[x[1]][x[2]] = tables[x[1]][x[2]]
  BY <1>2, <1>10 DEF PageSlots
<1>13. tables'[s[1]][s[2]] = n
  BY <1>2, <1>10
<1>14. Pages' = Pages \ {s}
  BY <1>7, <1>11, <1>12, <1>13 DEF Pages
<1>15. \A x \in Pages' : PageFrame(x)' = PageFrame(x)
  BY <1>12, <1>14 DEF PageFrame, Pages
<1>16. \A x \in Pages' : PageFrame(x) # p
  BY <1>1, <1>4, <1>14 DEF VirtInv, FramesAreOwned
<1>17. PageFrames' = PageFrames \ {p}
  BY <1>1, <1>4, <1>14, <1>15, <1>16 DEF PageFrames
<1>18. Structures' = Structures /\ p \notin Structures
  BY <1>1, <1>4, <1>10 DEF Structures, VirtInv, FramesAreOwned, PageFrames
<1> DEFINE F == Structures \cup PageFrames
<1>19. F' = F \ {p} /\ p \in F
  BY <1>1, <1>4, <1>17, <1>18 DEF PageFrames
<1>20. \A x \in F : x \in Addresses
  BY DEF VirtInv, TypeOK, Structures, PageFrames, PagesAreLent
<1>21. BlocksOf(F)' = BlocksOf(F) \ {b}
  <2> HIDE DEF F
  <2>1. \A x \in F : x # p => x \div PMMNGR_BLOCK_SIZE # b
    BY <1>4, <1>20, BlockOfFrame
  <2> QED BY <1>19, <2>1 DEF BlocksOf
<1>22. TypeOK'
  BY <1>1, <1>9, <1>10 DEF VirtInv, TypeOK, Addresses
<1>23. Stages'
  BY <1>1, <1>3, <1>10 DEF VirtInv, Stages
<1>24. booted' \subseteq memory_map'
  BY <1>1, <1>4, <1>8 DEF VirtInv
<1>25. PagesAreLent'
  BY <1>1, <1>14, <1>15 DEF VirtInv, PagesAreLent, Addresses
<1>26. FramesAreOwned'
  <2>1. BlocksOf(F)' \subseteq memory_map'
    BY <1>8, <1>21 DEF VirtInv, FramesAreOwned
  <2>2. (DOMAIN dirs \cap (DOMAIN tables \cup {table, table2}) = {})'
    BY <1>1, <1>10 DEF VirtInv, FramesAreOwned
  <2>3. (PageFrames \cap Structures = {})'
    BY <1>17, <1>18 DEF VirtInv, FramesAreOwned
  <2>4. (\A x, y \in Pages : PageFrame(x) = PageFrame(y) => x = y)'
    BY <1>14, <1>15 DEF VirtInv, FramesAreOwned
  <2> QED BY <2>1, <2>2, <2>3, <2>4 DEF FramesAreOwned
<1>27. NoFrameLost'
  BY <1>1, <1>3, <1>4, <1>8, <1>21 DEF VirtInv, NoFrameLost
<1>28. DirectoriesNameTables'
  BY <1>1, <1>10 DEF VirtInv, DirectoriesNameTables
<1> QED BY <1>9, <1>22, <1>23, <1>24, <1>25, <1>26, <1>27, <1>28 DEF VirtInv

\* Every step of the manager keeps the invariant.
LEMMA VirtStep == VirtInv /\ [Next]_vars => VirtInv'
<1> SUFFICES ASSUME VirtInv, [Next]_vars PROVE VirtInv'
  OBVIOUS
<1>1. CASE UNCHANGED vars
  <2>1. UNCHANGED bootVars /\ UNCHANGED vmVars /\ UNCHANGED booted
    BY <1>1 DEF vars
  <2>2. BootTypeOK' /\ ScanCovers'
    BY <2>1, BootStep DEF VirtInv, TypeOK
  <2>3. TypeOK' /\ Stages'
    BY <2>1, <2>2 DEF bootVars, mainVars, pmmVars, vmVars, VirtInv, TypeOK, Addresses, Stages
  <2>4. PagesAreLent' /\ FramesAreOwned'
    BY <2>1 DEF bootVars, mainVars, pmmVars, vmVars, VirtInv, Addresses, PagesAreLent,
             FramesAreOwned, Pages, PageSlots, PageFrame, PageFrames, Structures
  <2>5. DirectoriesNameTables' /\ NoFrameLost'
    BY <2>1 DEF bootVars, mainVars, pmmVars, vmVars, VirtInv, DirectoriesNameTables,
             NoFrameLost, Pages, PageSlots, PageFrame, PageFrames, Structures, BlocksOf
  <2> QED BY <2>1, <2>2, <2>3, <2>4, <2>5 DEF bootVars, mainVars, pmmVars, vmVars, VirtInv
<1>2. CASE Boot
  BY <1>2, BootKeeps
<1>3. CASE InitTable
  BY <1>3, TableAdded
<1>4. CASE InitTable2
  BY <1>4, Table2Added
<1>5. CASE FillTables
  BY <1>5, TablesFilled
<1>6. CASE InitDirectory
  BY <1>6, DirectoryMade
<1>7. ASSUME NEW phys \in MappedFrames, NEW k \in DirectorySlots, NEW j \in TableSlots,
             vmmngr_map_page(phys, k, j)
      PROVE  VirtInv'
  BY <1>7, PageMapped
<1>8. ASSUME NEW s \in PageSlots, vmmngr_alloc_page(s) \/ vmmngr_free_page(s)
      PROVE  VirtInv'
  BY <1>8, PageAllocated, PageFreed
<1>9. CASE NewDirectory
  BY <1>9, DirectoryAdded
<1>10. ASSUME NEW dir \in DOMAIN dirs, vmmngr_switch_directory(dir) PROVE VirtInv'
  BY <1>10, DirectorySwitched
<1> QED
  BY <1>1, <1>2, <1>3, <1>4, <1>5, <1>6, <1>7, <1>8, <1>9, <1>10 DEF Next

LEMMA VirtInvariant == Spec => []VirtInv
BY VirtInit, VirtStep, PTL DEF Spec

-----------------------------------------------------------------------------

\* Whatever is called in whatever order, the registers name directories that
\* exist (or the boot loader's), and every entry fits its 32 bits.
THEOREM VirtTyped == Spec => []TypeOK
<1>1. VirtInv => TypeOK
  BY DEF VirtInv
<1> QED BY <1>1, VirtInvariant, PTL

\* A frame that holds a paging structure or a page is marked and has one
\* purpose and one entry that names it, for every machine and every order of
\* allocations, failures and frees (mmngr_virtual.cpp:51-106).
THEOREM FramesOwned == Spec => []FramesAreOwned
<1>1. VirtInv => FramesAreOwned
  BY DEF VirtInv
<1> QED BY <1>1, VirtInvariant, PTL

\* The walk through a present entry of any directory ends at a table the
\* manager made, also after directories were copied and switched
\* (mmngr_virtual.cpp:81-94, 161-170).
THEOREM WalksEndAtTables == Spec => []DirectoriesNameTables
<1>1. VirtInv => DirectoriesNameTables
  BY DEF VirtInv
<1> QED BY <1>1, VirtInvariant, PTL

\* A frame that is marked was marked before, or holds a structure or a page:
\* nothing leaks, and nothing is given back that somebody still has
\* (mmngr_virtual.cpp:51-72, 108-155).
THEOREM FramesAccounted == Spec => []NoFrameLost
<1>1. VirtInv => NoFrameLost
  BY DEF VirtInv
<1> QED BY <1>1, VirtInvariant, PTL
=============================================================================
