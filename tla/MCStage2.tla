------------------------------- MODULE MCStage2 -------------------------------
(***************************************************************************)
(* The second boot loader on small disks: sectors of six bytes, a table of *)
(* twelve entries in three of them, and files of one to six clusters.      *)
(***************************************************************************)
EXTENDS Stage2, Floppies, TLC

Disk(start, index, entries) == Floppy(start, index, entries, 11, MaxClusters)

\* Every file of one to three clusters, wherever they are: odd and even ones,
\* entries that share a byte or straddle two sectors.
ShortChains ==
  UNION {{c \in [1..n -> 2..11] : \A j, k \in 1..n : c[j] = c[k] => j = k} : n \in 1..3}
Chained(c) == [x \in {c[n] : n \in DOMAIN c} |->
                 LET n == CHOOSE k \in DOMAIN c : c[k] = x
                 IN  IF n + 1 \in DOMAIN c THEN c[n + 1] ELSE EndMark]
ShortFiles == {Disk(c[1], c[1] % 2, Chained(c)) : c \in ShortChains}

\* A file that just fits, a cluster marked bad, a file that is too long, a chain
\* that ends nowhere, and a disk without the file.
MCDisks == ShortFiles \cup {
  Disk(5, 1, 5 :> 2 @@ 2 :> 11 @@ 11 :> 8 @@ 8 :> 4088),
  Disk(4, 1, 4 :> 7 @@ 7 :> 4087),
  Disk(2, 0, 2 :> 3 @@ 3 :> 4 @@ 4 :> 5 @@ 5 :> 6 @@ 6 :> 7 @@ 7 :> EndMark),
  Disk(3, 0, 3 :> 6 @@ 6 :> 3),
  Disk(0, 0, << >>) }

MCStrayWords == {0, 20560, 65535}
=============================================================================
