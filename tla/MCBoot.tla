-------------------------------- MODULE MCBoot --------------------------------
(***************************************************************************)
(* The boot sequence on every map of two regions out of a set of them, one *)
(* of which is large enough, and on the maps of Machines.                  *)
(***************************************************************************)
EXTENDS MemoryBoot, Machines

Starts == {0, 1024, 8192, 23552, 65536}
Lengths == {4096, 7168, 20480}
Regions == {Entry(start, size, type) :
              start \in Starts, size \in Lengths, type \in {0, 1, 7}}
MCBootMaps == MCMaps \cup {m \in Regions \X Regions :
                 \E k \in 1..2 : EndLo(m[k]) >= 4 * PMMNGR_BLOCK_SIZE}
=============================================================================
