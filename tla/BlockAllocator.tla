---------------------------- MODULE BlockAllocator ----------------------------
(***************************************************************************)
(* What a client may expect of the physical memory manager, whatever its   *)
(* data structure: of the blocks the machine has, it lends runs of         *)
(* consecutive blocks, never a block that is already lent, and it takes    *)
(* back what it has lent.                                                  *)
(***************************************************************************)
EXTENDS Integers

CONSTANT Sizes  \* how many blocks a machine may have to lend

VARIABLES
  blocks,  \* the blocks there are to lend
  lent     \* the runs lent, each a set of blocks

vars == <<blocks, lent>>

Init == blocks = {} /\ lent = {}

\* The manager comes up and knows how many blocks there are.
Open == /\ blocks = {}
        /\ lent = {}
        /\ \E n \in Sizes : blocks' = 1..n
        /\ UNCHANGED lent

Lend == /\ \E first, last \in blocks :
             /\ first <= last
             /\ first..last \subseteq blocks
             /\ \A run \in lent : (first..last) \cap run = {}
             /\ lent' = lent \cup {first..last}
        /\ UNCHANGED blocks

TakeBack == /\ \E run \in lent : lent' = lent \ {run}
            /\ UNCHANGED blocks

Next == Open \/ Lend \/ TakeBack

Spec == Init /\ [][Next]_vars
=============================================================================
