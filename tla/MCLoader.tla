------------------------------- MODULE MCLoader -------------------------------
(***************************************************************************)
(* The loaders on small disks: sectors of 64 bytes, a table of 85 entries  *)
(* in two of them, of which entry 42 straddles the two, and room for four  *)
(* clusters.                                                               *)
(***************************************************************************)
EXTENDS Loader, Floppies, TLC

Disk(start, index, entries) == Floppy(start, index, entries, 85, ImageRoom + 1)

\* The file in each place of the directory; chains in and against the order of
\* the disk; a file that just fits, one that is too long, a cluster marked bad,
\* a chain without an end, and a disk without the file.
MCDisks ==
  { Disk(2, 0, 2 :> EndMark), Disk(43, 1, 43 :> EndMark),
    Disk(42, 2, 42 :> EndMark), Disk(3, 3, 3 :> EndMark),
    Disk(42, 0, 42 :> 43 @@ 43 :> 2 @@ 2 :> EndMark),
    Disk(3, 2, 3 :> 42 @@ 42 :> 84 @@ 84 :> 43 @@ 43 :> 4080),
    Disk(2, 1, 2 :> 3 @@ 3 :> 4 @@ 4 :> 5 @@ 5 :> 6 @@ 6 :> EndMark),
    Disk(43, 0, 43 :> 42 @@ 42 :> 4087),
    Disk(3, 1, 3 :> 6 @@ 6 :> 3),
    Disk(0, 0, << >>) }

MCStrayWords == {0, 65535}
MCScanCodes == {{"a20"}, {"other"}, {}}

\* Up to four entries, of which any may be empty.
MCLists == UNION {[1..n -> BOOLEAN] : n \in 1..4}
=============================================================================
