------------------------------- MODULE Floppies -------------------------------
(***************************************************************************)
(* Disks for model checking, from the entries of their tables that are not *)
(* 0.                                                                      *)
(***************************************************************************)
EXTENDS Integers, FiniteSets

EndMark == 4095

\* The clusters a table links from start on, at most so many.
Followed(start, fat, most) ==
  LET chain[n \in 1..most] ==
        IF n = 1 THEN start
        ELSE IF chain[n - 1] < 4080 THEN fat[chain[n - 1]] ELSE EndMark
      clusters == {n \in 1..most : chain[n] < 4080}
  IN  IF start = 0 THEN << >> ELSE [n \in 1..Cardinality(clusters) |-> chain[n]]

Floppy(start, index, entries, last, most) ==
  LET fat == [c \in 0..last |-> IF c \in DOMAIN entries THEN entries[c] ELSE 0]
  IN  [start |-> start, index |-> index, fat |-> fat, file |-> Followed(start, fat, most)]
=============================================================================
