------------------------------- MODULE Fat12Proofs -------------------------------
(***************************************************************************)
(* What both boot loaders rest on, for every geometry and every table: the *)
(* place on the disk is the place of the sector asked for, an entry read   *)
(* is the entry stored, and a sector of a file has a place of its own.     *)
(* And what the end of their loops rests on: measures do not fall for ever.*)
(***************************************************************************)
EXTENDS Fat12, Progress, WellFoundedInduction, TLAPS

\* Division with remainder.
LEMMA DivMod ==
  ASSUME NEW n \in Nat, NEW w \in Nat \ {0}
  PROVE  /\ n \div w \in Nat
         /\ n % w \in 0..(w - 1)
         /\ n = (n \div w) * w + (n % w)
OBVIOUS

\* The two divisions of LBACHS leave a track that the byte holds.
LEMMA TrackFits ==
  ASSUME NEW S \in Nat \ {0}, NEW H \in Nat \ {0}, NEW q \in Nat, NEW r \in Nat,
         NEW t \in Nat, NEW h \in Nat,
         q = t * H + h, q * S + r < 256 * H * S
  PROVE  t < 256
<1>1. SUFFICES ASSUME t >= 256 PROVE FALSE
  OBVIOUS
<1>2. t * H >= 256 * H
  BY <1>1
<1>3. q >= 256 * H
  BY <1>2
<1>4. q * S >= (256 * H) * S
  BY <1>3
<1> QED BY <1>4

\* LBACHS gives the BIOS the place of the sector it is asked for, for every
\* geometry, as long as the track fits in a byte (Floppy16.inc:59-73,
\* boot1.asm:111-121).
THEOREM SectorFound == \A sector \in Reachable : SectorAt(LBACHS(sector)) = sector
<1> SUFFICES ASSUME NEW sector \in Reachable PROVE SectorAt(LBACHS(sector)) = sector
  OBVIOUS
<1> DEFINE S == SectorPerTrack
           H == HeadPerCylinder
           q == sector \div S
           r == sector % S
           t == q \div H
           h == q % H
<1>1. S \in 1..255 /\ H \in 1..255 /\ sector \in Nat /\ sector < 256 * H * S
  BY Fat12Assumption DEF Reachable, BYTE
<1>2. q \in Nat /\ r \in 0..(S - 1) /\ sector = q * S + r
  <2>1. \A x \in Nat, w \in Nat \ {0} :
          x \div w \in Nat /\ x % w \in 0..(w - 1) /\ x = (x \div w) * w + (x % w)
    BY DivMod
  <2>2. S \in Nat \ {0}
    BY <1>1
  <2> HIDE DEF S
  <2> QED BY <1>1, <2>1, <2>2
<1>3. t \in Nat /\ h \in 0..(H - 1) /\ q = t * H + h
  <2>1. \A x \in Nat, w \in Nat \ {0} :
          x \div w \in Nat /\ x % w \in 0..(w - 1) /\ x = (x \div w) * w + (x % w)
    BY DivMod
  <2>2. H \in Nat \ {0}
    BY <1>1
  <2> HIDE DEF q, H
  <2> QED BY <1>2, <2>1, <2>2
<1>4. LBACHS(sector) = [absoluteSector |-> (r + 1) % 256, absoluteHead |-> h,
                     absoluteTrack |-> t % 256]
  BY DEF LBACHS, BYTE
<1> HIDE DEF S, H, q, r, t, h
<1>5. t < 256
  BY <1>1, <1>2, <1>3, TrackFits
<1>6. (r + 1) % 256 = r + 1 /\ t % 256 = t
  BY <1>1, <1>2, <1>3, <1>5
<1>7. SectorAt(LBACHS(sector)) = (t * H + h) * S + (r + 1) - 1
  BY <1>4, <1>6 DEF SectorAt, S, H
<1> QED BY <1>1, <1>2, <1>3, <1>7

\* The two words of two entries that share three bytes, at the entries' offsets.
FirstWord(a, b) == (a % 256) + 256 * (a \div 256 + 16 * (b % 16))
SecondWord(a, b) == a \div 256 + 16 * (b % 16) + 256 * (b \div 16)

\* The low twelve bits of the one are the first entry, the high twelve bits of
\* the other the second.
LEMMA FirstEntry ==
  \A a, b \in TableEntries : \A c \in Nat :
    c % 2 = 0 => TwelveBits(c, FirstWord(a, b)) = a
<1> SUFFICES ASSUME NEW a \in TableEntries, NEW b \in TableEntries, NEW c \in Nat,
                    c % 2 = 0
             PROVE  TwelveBits(c, FirstWord(a, b)) = a
  OBVIOUS
<1>1. FirstWord(a, b) % 4096 = a
  BY SMTT(60) DEF FirstWord, TableEntries
<1>2. TwelveBits(c, FirstWord(a, b)) = FirstWord(a, b) % 4096
  BY DEF TwelveBits
<1> QED BY <1>1, <1>2

LEMMA SecondEntry ==
  \A a, b \in TableEntries : \A c \in Nat :
    c % 2 = 1 => TwelveBits(c, SecondWord(a, b)) = b
<1> SUFFICES ASSUME NEW a \in TableEntries, NEW b \in TableEntries, NEW c \in Nat,
                    c % 2 = 1
             PROVE  TwelveBits(c, SecondWord(a, b)) = b
  OBVIOUS
<1>1. SecondWord(a, b) \div 16 = b
  BY SMTT(60) DEF SecondWord, TableEntries
<1>2. TwelveBits(c, SecondWord(a, b)) = SecondWord(a, b) \div 16
  BY DEF TwelveBits
<1> QED BY <1>1, <1>2

\* Where the three bytes that two entries share lie.
LEMMA Thirds ==
  ASSUME NEW t \in Nat
  PROVE  /\ (3 * t) % 3 = 0 /\ (3 * t) \div 3 = t
         /\ (3 * t + 1) % 3 = 1 /\ (3 * t + 1) \div 3 = t
         /\ (3 * t + 2) % 3 = 2 /\ (3 * t + 2) \div 3 = t
<1>1. (3 * t) % 3 = 0 /\ (3 * t) \div 3 = t
  OBVIOUS
<1>2. (3 * t + 1) % 3 = 1 /\ (3 * t + 1) \div 3 = t
  OBVIOUS
<1>3. (3 * t + 2) % 3 = 2 /\ (3 * t + 2) \div 3 = t
  OBVIOUS
<1> QED BY <1>1, <1>2, <1>3

\* The entry of a cluster that LoadFile takes out of the word at the entry's
\* offset is the entry the table holds, for even and odd clusters
\* (Fat12.inc:215-235, boot1.asm:247-267).
THEOREM EntryRead ==
  ASSUME NEW f, NEW c \in Nat,
         f[2 * (c \div 2)] \in TableEntries,
         f[2 * (c \div 2) + 1] \in TableEntries
  PROVE  TwelveBits(c, FatByte(f, EntryOffset(c))
                               + 256 * FatByte(f, EntryOffset(c) + 1)) = f[c]
<1> DEFINE t == c \div 2
           a == f[2 * t]
           b == f[2 * t + 1]
<1>1. t \in Nat /\ a \in TableEntries /\ b \in TableEntries
  OBVIOUS
<1>2. FatByte(f, 3 * t) = a % 256
  <2>1. (3 * t) % 3 = 0 /\ (3 * t) \div 3 = t
    BY <1>1, Thirds
  <2> HIDE DEF t
  <2> QED BY <2>1 DEF FatByte
<1>3. FatByte(f, 3 * t + 1) = a \div 256 + 16 * (b % 16)
  <2>1. (3 * t + 1) % 3 = 1 /\ (3 * t + 1) \div 3 = t
    BY <1>1, Thirds
  <2> HIDE DEF t
  <2> QED BY <2>1 DEF FatByte
<1>4. FatByte(f, 3 * t + 2) = b \div 16
  <2>1. (3 * t + 2) % 3 = 2 /\ (3 * t + 2) \div 3 = t
    BY <1>1, Thirds
  <2> HIDE DEF t
  <2> QED BY <2>1 DEF FatByte
<1>5. CASE c % 2 = 0
  <2>1. c = 2 * t /\ EntryOffset(c) = 3 * t
    BY <1>5 DEF EntryOffset
  <2> HIDE DEF t, a, b
  <2>3. TwelveBits(c, FirstWord(a, b)) = a
    BY <1>1, <1>5, FirstEntry, Zenon
  <2>4. a = f[c]
    BY <2>1 DEF a
  <2> QED BY <1>2, <1>3, <2>1, <2>3, <2>4 DEF FirstWord
<1>6. CASE c % 2 = 1
  <2>1. c = 2 * t + 1 /\ EntryOffset(c) = 3 * t + 1
    BY <1>6 DEF EntryOffset
  <2>5. EntryOffset(c) + 1 = 3 * t + 2
    BY <2>1, <1>1
  <2> HIDE DEF t, a, b
  <2>3. TwelveBits(c, SecondWord(a, b)) = b
    BY <1>1, <1>6, SecondEntry, Zenon
  <2>4. b = f[c]
    BY <2>1 DEF b
  <2> QED BY <1>3, <1>4, <2>1, <2>3, <2>4, <2>5 DEF SecondWord
<1> QED BY <1>5, <1>6

-----------------------------------------------------------------------------
(* Tables and files in memory.                                             *)

FatSectors == NumberOfFATs * SectorPerFAT

\* The first n sectors of the table, and of a file, lie from a cell on.
TableAt(cells, cell, n) == \A j \in 0..(n - 1) : cells[cell + j] = ReservedSector + j
FileAt(cells, cell, file, n) ==
  \A m \in 1..Len(file) : \A s \in 0..(SectorPerCluster - 1) :
    (m - 1) * SectorPerCluster + s < n =>
      cells[cell + ((m - 1) * SectorPerCluster + s)] = ClusterLBA(file[m]) + s

-----------------------------------------------------------------------------
(* The disk.                                                               *)

LEMMA Sizes ==
  /\ SectorPerCluster \in Nat /\ 0 < SectorPerCluster
  /\ FatSectors \in Nat /\ 0 < FatSectors
  /\ RootSectors \in Nat /\ 0 < RootSectors
  /\ RootStart = ReservedSector + FatSectors /\ datasector = RootStart + RootSectors
  /\ ReservedSector \in Nat /\ RootStart \in Nat /\ datasector \in Nat
<1>1. SectorPerCluster \in Nat /\ 0 < SectorPerCluster /\ ReservedSector \in Nat
  BY Fat12Assumption
<1>2. FatSectors \in Nat /\ 0 < FatSectors
  <2>1. \A a, b \in Nat \ {0} : a * b \in Nat /\ 0 < a * b
    OBVIOUS
  <2> QED BY <2>1, Fat12Assumption DEF FatSectors
<1>3. RootSectors \in Nat /\ 0 < RootSectors
  <2>1. RootEntries * 32 \in Nat /\ BytesPerSector \in Nat /\ 0 < BytesPerSector
        /\ BytesPerSector <= RootEntries * 32
    BY Fat12Assumption
  <2>2. \A a, b \in Nat : 0 < b /\ b <= a => a \div b \in Nat /\ 0 < a \div b
    OBVIOUS
  <2> QED BY <2>1, <2>2 DEF RootSectors
<1>4. RootStart = ReservedSector + FatSectors
  <2>1. SectorPerFAT * NumberOfFATs = NumberOfFATs * SectorPerFAT
    BY Fat12Assumption
  <2>2. FatSectors + ReservedSector = ReservedSector + FatSectors
    BY <1>1, <1>2
  <2> QED BY <2>1, <2>2 DEF RootStart, FatSectors
<1> QED BY <1>1, <1>2, <1>3, <1>4 DEF datasector

LEMMA NoWrap == \A n, w \in Nat : n < w => n % w = n
OBVIOUS

LEMMA InWord == \A n \in Nat : n < 65536 => n \in 0..(WORD - 1)
<1>1. \A w, n \in Nat : n < w => n \in 0..(w - 1)
  OBVIOUS
<1>2. WORD \in Nat
  BY DEF WORD
<1> SUFFICES ASSUME NEW n \in Nat, n < 65536 PROVE n \in 0..(WORD - 1)
  OBVIOUS
<1>3. n < WORD
  BY DEF WORD
<1> QED BY <1>1, <1>2, <1>3

LEMMA SectorNat == \A n \in Nat : SectorAt(LBACHS(n)) \in Nat
<1> SUFFICES ASSUME NEW n \in Nat PROVE SectorAt(LBACHS(n)) \in Nat
  OBVIOUS
<1> DEFINE a == ((n % SectorPerTrack) + 1) % BYTE
           h == (n \div SectorPerTrack) % HeadPerCylinder
           t == ((n \div SectorPerTrack) \div HeadPerCylinder) % BYTE
<1>1. SectorPerTrack \in Nat \ {0} /\ SectorPerTrack <= 255 /\ HeadPerCylinder \in Nat \ {0}
  BY Fat12Assumption
<1>2. n % SectorPerTrack \in 0..(SectorPerTrack - 1) /\ n \div SectorPerTrack \in Nat
  BY <1>1, DivMod
<1>3. a \in Nat /\ 1 <= a
  BY <1>1, <1>2 DEF BYTE
<1>4. h \in Nat /\ t \in Nat
  <2>1. \A x \in Nat, w \in Nat \ {0} : x % w \in Nat /\ x \div w \in Nat
    BY DivMod
  <2>2. BYTE \in Nat \ {0}
    BY DEF BYTE
  <2> QED BY <1>1, <1>2, <2>1, <2>2
<1>5. SectorAt(LBACHS(n)) = (t * HeadPerCylinder + h) * SectorPerTrack + a - 1
  BY DEF SectorAt, LBACHS
<1> HIDE DEF a, h, t
<1>6. \A x, y \in Nat : x * y \in Nat
  OBVIOUS
<1>7. (t * HeadPerCylinder + h) * SectorPerTrack \in Nat
  BY <1>1, <1>4, <1>6
<1> QED BY <1>3, <1>5, <1>7

LEMMA ClusterWord == \A c \in TableEntries : ClusterLBA(c) \in Nat /\ ClusterLBA(c) < WORD
<1> SUFFICES ASSUME NEW c \in TableEntries
             PROVE  ClusterLBA(c) \in Nat /\ ClusterLBA(c) < WORD
  OBVIOUS
<1> DEFINE x == ((c - 2) % WORD) * SectorPerCluster
<1>1. x \in Nat
  <2>1. (c - 2) % WORD \in Nat
    BY DEF WORD, TableEntries
  <2>2. \A a, b \in Nat : a * b \in Nat
    OBVIOUS
  <2> QED BY <2>1, <2>2, Sizes
<1>2. ClusterLBA(c) = ((x % WORD) + datasector) % WORD
  BY DEF ClusterLBA
<1> HIDE DEF x
<1>3. (x % WORD) + datasector \in Nat
  BY <1>1, Sizes DEF WORD
<1>4. \A a \in Nat : a % WORD \in Nat /\ a % WORD < WORD
  BY DEF WORD
<1> QED BY <1>2, <1>3, <1>4

LEMMA ClusterNumber == \A c \in ClusterNumbers : c \in Nat /\ 2 <= c /\ c < 4080
BY DEF ClusterNumbers, LastCluster

\* A cluster of a file is all on the disk, where ClusterLBA says.
LEMMA FileCluster ==
  ASSUME NEW d, NEW most, NEW sectors \in Nat, sectors < 65536,
         DiskOK(d, most, sectors), NEW n \in 1..Len(d.file)
  PROVE  /\ d.file[n] \in TableEntries /\ d.file[n] < 4080
         /\ ClusterLBA(d.file[n]) \in Nat
         /\ ReservedSector + FatSectors <= ClusterLBA(d.file[n])
         /\ ClusterLBA(d.file[n]) + SectorPerCluster <= sectors
<1> DEFINE c == d.file[n]
<1>1. d.file \in Seq(ClusterNumbers) /\ FileInside(d, sectors)
  BY DEF DiskOK
<1>2. c \in ClusterNumbers
  BY <1>1
<1>3. datasector + (c - 1) * SectorPerCluster <= sectors
  BY <1>1 DEF FileInside
<1> HIDE DEF c
<1>4. c \in Nat /\ 2 <= c /\ c < 4080
  BY <1>2, ClusterNumber
<1>5. (c - 1) * SectorPerCluster = (c - 2) * SectorPerCluster + SectorPerCluster
      /\ (c - 2) * SectorPerCluster \in Nat
  BY <1>4, Sizes
<1>6. ClusterLBA(c) = datasector + (c - 2) * SectorPerCluster
  <2> DEFINE x == (c - 2) * SectorPerCluster
  <2>1. (c - 2) % 65536 = c - 2
    BY <1>4
  <2>2. x \in Nat
    BY <1>5
  <2>3. ClusterLBA(c) = ((x % 65536) + datasector) % 65536
    BY <2>1 DEF ClusterLBA, WORD
  <2>4. datasector + x <= sectors
    BY <1>3, <1>5, Sizes
  <2> HIDE DEF x
  <2>5. x % 65536 = x /\ (x + datasector) % 65536 = datasector + x
    BY <2>2, <2>4, Sizes
  <2> QED BY <2>3, <2>5 DEF x
<1>7. ClusterLBA(c) \in Nat /\ ReservedSector + FatSectors <= ClusterLBA(c)
      /\ ClusterLBA(c) + SectorPerCluster <= sectors
  <2> DEFINE x == (c - 2) * SectorPerCluster
             y == (c - 1) * SectorPerCluster
  <2>1. x \in Nat /\ y = x + SectorPerCluster /\ datasector + y <= sectors
        /\ ClusterLBA(c) = datasector + x
    BY <1>3, <1>5, <1>6
  <2> HIDE DEF x, y
  <2> QED BY <2>1, Sizes
<1>8. c \in TableEntries
  BY <1>4 DEF TableEntries
<1> QED BY <1>4, <1>7, <1>8 DEF c

LEMMA FileLinks ==
  ASSUME NEW d, NEW most, NEW sectors, DiskOK(d, most, sectors), NEW n \in 1..Len(d.file)
  PROVE  /\ n < Len(d.file) => d.fat[d.file[n]] = d.file[n + 1]
         /\ n = Len(d.file) /\ n < most => d.fat[d.file[n]] >= LastCluster
         /\ EntryStored(d, d.file[n])
BY DEF DiskOK, FileLinked

LEMMA FileStarts ==
  ASSUME NEW d, NEW most, NEW sectors, DiskOK(d, most, sectors)
  PROVE  /\ d.file \in Seq(ClusterNumbers) /\ Len(d.file) \in Nat
         /\ d.start \in TableEntries
         /\ d.start # Absent => d.file[1] = d.start /\ 0 < Len(d.file)
<1>1. d.file \in Seq(ClusterNumbers) /\ FileLinked(d, most)
      /\ d.start \in TableEntries
  BY DEF DiskOK
<1>2. Len(d.file) \in Nat /\ (Len(d.file) = 0 => d.file = << >>)
  BY <1>1
<1> QED BY <1>1, <1>2 DEF FileLinked

\* The two bytes of a stored entry are in the sectors of the table.
LEMMA EntrySectors ==
  ASSUME NEW d, NEW c \in Nat, EntryStored(d, c),
         NEW j \in {EntryOffset(c), EntryOffset(c) + 1}
  PROVE  j \div BytesPerSector \in 0..(FatSectors - 1)
<1> DEFINE k == EntryOffset(c)
           b == BytesPerSector
<1>1. k \in Nat /\ k + 1 < SectorPerFAT * b /\ b \in Nat \ {0}
  BY Fat12Assumption DEF EntryStored, EntryOffset
<1>2. SectorPerFAT * b <= FatSectors * b
  <2>1. SectorPerFAT \in Nat /\ NumberOfFATs \in Nat /\ 1 <= NumberOfFATs
    BY Fat12Assumption
  <2>2. \A x, y \in Nat : 1 <= y => x <= y * x /\ y * x \in Nat
    OBVIOUS
  <2>3. SectorPerFAT <= FatSectors
    BY <2>1, <2>2 DEF FatSectors
  <2>4. \A x, y, z \in Nat : x <= y => x * z <= y * z
    OBVIOUS
  <2> QED BY <1>1, <2>1, <2>3, <2>4, Sizes
<1>3. j \in {k, k + 1}
  OBVIOUS
<1> HIDE DEF k, b
<1>4. j \in Nat /\ j < FatSectors * b
  <2>1. SectorPerFAT * b \in Nat /\ FatSectors * b \in Nat
    <3>1. \A x, y \in Nat : x * y \in Nat
      OBVIOUS
    <3> QED BY <1>1, <3>1, Fat12Assumption, Sizes
  <2> QED BY <1>1, <1>2, <1>3, <2>1
<1>5. j \div b \in Nat /\ j = (j \div b) * b + (j % b) /\ j % b \in 0..(b - 1)
  BY <1>1, <1>4, DivMod
<1>6. j \div b < FatSectors
  <2> DEFINE q == j \div b
             r == j % b
  <2>1. q \in Nat /\ r \in Nat /\ q * b + r < FatSectors * b
    BY <1>1, <1>4, <1>5
  <2> HIDE DEF q, r
  <2>2. SUFFICES ASSUME FatSectors <= q PROVE FALSE
    BY <2>1, Sizes DEF q
  <2>3. FatSectors * b <= q * b
    BY <1>1, <2>1, <2>2, Sizes
  <2>4. FatSectors * b \in Nat /\ q * b \in Nat
    BY <1>1, <2>1, Sizes
  <2> QED BY <2>1, <2>3, <2>4
<1>7. j \div b \in 0..(FatSectors - 1)
  BY <1>5, <1>6, Sizes
<1> QED BY <1>7 DEF b

-----------------------------------------------------------------------------
(* Memory.                                                                 *)

\* The m-th cluster of a file takes its place before the next.
LEMMA ClusterPlace ==
  ASSUME NEW m \in Nat, 1 <= m, NEW s \in Nat, s < SectorPerCluster
  PROVE  /\ (m - 1) * SectorPerCluster + s \in Nat
         /\ (m - 1) * SectorPerCluster + s < m * SectorPerCluster
         /\ \A k \in Nat : m <= k => m * SectorPerCluster <= k * SectorPerCluster
<1> DEFINE x == (m - 1) * SectorPerCluster
<1>1. x \in Nat /\ m * SectorPerCluster = x + SectorPerCluster
  BY Sizes
<1>2. \A k \in Nat : m <= k => m * SectorPerCluster <= k * SectorPerCluster
  BY Sizes
<1> HIDE DEF x
<1>3. x + s \in Nat /\ x + s < x + SectorPerCluster
  BY <1>1, Sizes
<1> QED BY <1>1, <1>2, <1>3 DEF x

\* Each place of a file belongs to one sector of one cluster.
LEMMA OnePlace ==
  ASSUME NEW m \in Nat, 1 <= m, NEW s \in Nat, s < SectorPerCluster,
         NEW k \in Nat, 1 <= k, NEW t \in Nat, t < SectorPerCluster,
         (m - 1) * SectorPerCluster + s = (k - 1) * SectorPerCluster + t
  PROVE  m = k /\ s = t
<1>1. \A a, b \in Nat : a < b => a * SectorPerCluster + SectorPerCluster <= b * SectorPerCluster
  <2> SUFFICES ASSUME NEW a \in Nat, NEW b \in Nat, a < b
               PROVE  a * SectorPerCluster + SectorPerCluster <= b * SectorPerCluster
    OBVIOUS
  <2>1. (a + 1) * SectorPerCluster <= b * SectorPerCluster
    BY Sizes
  <2>2. (a + 1) * SectorPerCluster = a * SectorPerCluster + SectorPerCluster
    BY Sizes
  <2> QED BY <2>1, <2>2
<1> DEFINE x == (m - 1) * SectorPerCluster
           y == (k - 1) * SectorPerCluster
<1>2. x \in Nat /\ y \in Nat
  BY Sizes
<1>3. m < k => x + SectorPerCluster <= y
  <2>1. m - 1 \in Nat /\ k - 1 \in Nat /\ (m < k => m - 1 < k - 1)
    OBVIOUS
  <2> QED BY <1>1, <2>1
<1>4. k < m => y + SectorPerCluster <= x
  <2>1. m - 1 \in Nat /\ k - 1 \in Nat /\ (k < m => k - 1 < m - 1)
    OBVIOUS
  <2> QED BY <1>1, <2>1
<1>5. m = k => x = y
  OBVIOUS
<1>6. x + s = y + t
  OBVIOUS
<1> HIDE DEF x, y
<1> QED BY <1>2, <1>3, <1>4, <1>5, <1>6, Sizes

LEMMA FileNone == \A cells, cell, file : FileAt(cells, cell, file, 0)
<1> SUFFICES ASSUME NEW file, NEW m \in 1..Len(file), NEW s \in 0..(SectorPerCluster - 1)
             PROVE  ~((m - 1) * SectorPerCluster + s < 0)
  BY DEF FileAt
<1>1. m \in Nat /\ 1 <= m /\ s \in Nat /\ s < SectorPerCluster
  BY Sizes
<1>2. (m - 1) * SectorPerCluster + s \in Nat
  BY <1>1, ClusterPlace
<1> QED BY <1>2

\* A cell behind those of the file's first n sectors may be written.
LEMMA FileKept ==
  ASSUME NEW cells, NEW cell \in Nat, NEW file, NEW n \in Int,
         FileAt(cells, cell, file, n), NEW x \in Nat, cell + n <= x, NEW v,
         NEW after, after = [cells EXCEPT ![x] = v]
  PROVE  FileAt(after, cell, file, n)
<1> SUFFICES ASSUME NEW m \in 1..Len(file), NEW s \in 0..(SectorPerCluster - 1),
                    (m - 1) * SectorPerCluster + s < n
             PROVE  after[cell + ((m - 1) * SectorPerCluster + s)] = ClusterLBA(file[m]) + s
  BY DEF FileAt
<1> DEFINE p == (m - 1) * SectorPerCluster + s
<1>1. p \in Nat
  BY ClusterPlace, Sizes
<1>2. cells[cell + p] = ClusterLBA(file[m]) + s
  BY DEF FileAt
<1>3. p < n
  OBVIOUS
<1> HIDE DEF p
<1>4. cell + p # x
  BY <1>1, <1>3
<1>5. after[cell + p] = cells[cell + p]
  BY <1>4
<1> QED BY <1>2, <1>5 DEF p

\* One more sector of the file.
LEMMA FileGrown ==
  ASSUME NEW cells, NEW cell \in Nat, NEW file \in Seq(ClusterNumbers), NEW k \in 1..Len(file),
         NEW t \in Nat, t < SectorPerCluster,
         FileAt(cells, cell, file, (k - 1) * SectorPerCluster + t),
         NEW x \in DOMAIN cells, x = cell + ((k - 1) * SectorPerCluster + t),
         NEW after, after = [cells EXCEPT ![x] = ClusterLBA(file[k]) + t]
  PROVE  FileAt(after, cell, file, (k - 1) * SectorPerCluster + t + 1)
<1> DEFINE q == (k - 1) * SectorPerCluster + t
<1> SUFFICES ASSUME NEW m \in 1..Len(file), NEW s \in 0..(SectorPerCluster - 1),
                    (m - 1) * SectorPerCluster + s < q + 1
             PROVE  after[cell + ((m - 1) * SectorPerCluster + s)] = ClusterLBA(file[m]) + s
  BY DEF FileAt
<1> DEFINE p == (m - 1) * SectorPerCluster + s
<1>0. m \in Nat /\ 1 <= m /\ k \in Nat /\ 1 <= k /\ s \in Nat /\ s < SectorPerCluster
  <2>1. Len(file) \in Nat
    OBVIOUS
  <2>2. m \in Nat /\ 1 <= m
    BY <2>1
  <2>3. k \in Nat /\ 1 <= k
    BY <2>1
  <2>4. s \in Nat /\ s < SectorPerCluster
    BY Sizes
  <2> QED BY <2>2, <2>3, <2>4
<1>1. p \in Nat /\ q \in Nat
  BY <1>0, ClusterPlace
<1>2. CASE p = q
  <2>1. m = k /\ s = t
    BY <1>0, <1>2, OnePlace
  <2>2. after[x] = ClusterLBA(file[k]) + t
    OBVIOUS
  <2> QED BY <1>2, <2>1, <2>2
<1>3. CASE p # q
  <2>1. p < q + 1
    OBVIOUS
  <2>2. FileAt(cells, cell, file, q) /\ x = cell + q
    OBVIOUS
  <2>3. p < q => cells[cell + p] = ClusterLBA(file[m]) + s
    BY <2>2 DEF FileAt
  <2> HIDE DEF p, q
  <2>4. p < q /\ cell + p # x
    BY <1>1, <1>3, <2>1, <2>2
  <2>5. after[cell + p] = cells[cell + p]
    BY <2>4
  <2> QED BY <2>3, <2>4, <2>5 DEF p
<1> QED BY <1>2, <1>3

LEMMA TableKept ==
  ASSUME NEW cells, NEW cell \in Nat, NEW n \in Int, TableAt(cells, cell, n), NEW x \in Nat,
         x < cell \/ cell + n <= x, NEW v,
         NEW after, after = [cells EXCEPT ![x] = v]
  PROVE  TableAt(after, cell, n)
<1> SUFFICES ASSUME NEW j \in 0..(n - 1) PROVE after[cell + j] = ReservedSector + j
  BY DEF TableAt
<1>1. cell + j # x
  OBVIOUS
<1> QED BY <1>1 DEF TableAt

LEMMA TableGrown ==
  ASSUME NEW cells, NEW cell \in Nat, NEW n \in Nat, TableAt(cells, cell, n), cell + n \in DOMAIN cells,
         NEW after, after = [cells EXCEPT ![cell + n] = ReservedSector + n]
  PROVE  TableAt(after, cell, n + 1)
<1> SUFFICES ASSUME NEW j \in 0..n PROVE after[cell + j] = ReservedSector + j
  BY DEF TableAt
<1>1. CASE j = n
  BY <1>1
<1>2. CASE j # n
  <2>1. j \in 0..(n - 1) /\ cell + j # cell + n
    BY <1>2
  <2> QED BY <2>1 DEF TableAt
<1> QED BY <1>1, <1>2

-----------------------------------------------------------------------------
(* What a loader has left.                                                 *)

\* Nothing that is measured in numbers falls with each of endlessly many steps,
\* however many numbers: a loop each of whose steps lets its measure fall ends
\* (boot1.asm:52-75, 238-269, Fat12.inc:197-237, Floppy16.inc:80-110).
LEMMA NoEndlessFall ==
  \A n \in Nat : ~ \E f \in [Nat -> Numbers(n)] : \A k \in Nat : Falls(f[k + 1], f[k])
<1> SUFFICES ASSUME NEW n \in Nat, NEW f \in [Nat -> Numbers(n)],
                    \A k \in Nat : Falls(f[k + 1], f[k])
             PROVE  FALSE
  OBVIOUS
<1> DEFINE R == OpToRel(<, Nat)
<1>1. IsWellFoundedOn(R, Nat)
  BY NatLessThanWellFounded
<1>2. \A i, j \in Nat : i < j => <<i, j>> \in R
  BY DEF OpToRel
<1> HIDE DEF R
<1>3. IsWellFoundedOn(LexProductOrdering(R, Nat, n), [1..n -> Nat])
  BY <1>1, WFLexProductOrdering
<1>4. ASSUME NEW k \in Nat PROVE <<f[k + 1], f[k]>> \in LexProductOrdering(R, Nat, n)
  <2>1. f[k + 1] \in [1..n -> Nat] /\ f[k] \in [1..n -> Nat]
    BY DEF Numbers
  <2> DEFINE s == f[k + 1]
             t == f[k]
  <2>2. PICK i \in 1..n : s[i] < t[i] /\ \A j \in 1..(i - 1) : s[j] = t[j]
    BY <1>4, <2>1 DEF Falls
  <2>3. <<s[i], t[i]>> \in R
    BY <1>2, <2>1, <2>2
  <2> HIDE DEF s, t
  <2> QED BY <2>1, <2>2, <2>3 DEF LexProductOrdering, s, t
<1> QED BY <1>3, <1>4 DEF IsWellFoundedOn, Numbers

\* The first of a measure's numbers to change falls.
LEMMA FirstFalls ==
  ASSUME NEW n \in Nat, NEW s \in Numbers(n), NEW t \in Numbers(n),
         NEW i \in 1..n, s[i] < t[i], \A j \in 1..(i - 1) : s[j] = t[j]
  PROVE  Falls(s, t)
BY DEF Falls, Numbers

LEMMA FallsFive ==
  ASSUME NEW s \in Numbers(5), NEW t \in Numbers(5),
         \/ s[1] < t[1]
         \/ s[1] = t[1] /\ s[2] < t[2]
         \/ s[1] = t[1] /\ s[2] = t[2] /\ s[3] < t[3]
         \/ s[1] = t[1] /\ s[2] = t[2] /\ s[3] = t[3] /\ s[4] < t[4]
         \/ s[1] = t[1] /\ s[2] = t[2] /\ s[3] = t[3] /\ s[4] = t[4] /\ s[5] < t[5]
  PROVE  Falls(s, t)
<1>1. ASSUME NEW i \in 1..5, s[i] < t[i], \A j \in 1..(i - 1) : s[j] = t[j]
      PROVE  Falls(s, t)
  BY <1>1, FirstFalls
<1>2. CASE s[1] < t[1]
  BY <1>1, <1>2
<1>3. CASE s[1] = t[1] /\ s[2] < t[2]
  BY <1>1, <1>3
<1>4. CASE s[1] = t[1] /\ s[2] = t[2] /\ s[3] < t[3]
  BY <1>1, <1>4
<1>5. CASE s[1] = t[1] /\ s[2] = t[2] /\ s[3] = t[3] /\ s[4] < t[4]
  BY <1>1, <1>5
<1>6. CASE s[1] = t[1] /\ s[2] = t[2] /\ s[3] = t[3] /\ s[4] = t[4] /\ s[5] < t[5]
  BY <1>1, <1>6
<1> QED BY <1>2, <1>3, <1>4, <1>5, <1>6
===============================================================================
