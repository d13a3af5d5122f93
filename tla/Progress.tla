-------------------------------- MODULE Progress --------------------------------
(***************************************************************************)
(* How the loaders' loops end.  What a loader has left to do is a tuple of *)
(* numbers, of which the first to change with a step falls; no such tuple  *)
(* can fall for ever.                                                      *)
(***************************************************************************)
EXTENDS Integers

Numbers(n) == [1..n -> Nat]

Falls(s, t) ==
  \E i \in DOMAIN t : s[i] < t[i] /\ \A j \in 1..(i - 1) : s[j] = t[j]
=============================================================================
