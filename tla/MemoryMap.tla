------------------------------- MODULE MemoryMap -------------------------------
(***************************************************************************)
(* BiosMemoryMap (SysBoot/Stage2/Memory.inc): the BIOS is asked for one    *)
(* entry of its memory map after the other, each of which it stores at     *)
(* es:di.  It tells the end with a carry or with ebx = 0, and may list     *)
(* entries of length 0, which are left out by storing the next over them.  *)
(* The number of entries goes to 0:0x2000, which is inside the place of    *)
(* entry 170 of the buffer.                                                *)
(***************************************************************************)
EXTENDS Integers, Sequences, FiniteSets

CONSTANTS
  Lists,       \* the BIOS's maps: for every entry, whether its length is not 0
  BufferSlots, \* places for entries, from 0x1000 on
  CountSlot    \* the place that the number of entries is stored in: 170

ASSUME MemoryMapAssumption ==
  /\ \A l \in Lists : l \in Seq(BOOLEAN) /\ Len(l) <= BufferSlots
  /\ BufferSlots \in Nat /\ CountSlot \in 0..(BufferSlots - 1)

NoEntry == 0
Counted == -1

VARIABLES
  mappc,   \* "call", "get" before a call of the BIOS, "count", "done"
  list,    \* the BIOS's map
  ending,  \* how it tells the end
  ebx,     \* how many of its entries it has told
  bp,      \* the number of entries kept; di is 24 * bp further on
  buffer   \* the entry in each place, by its number in the BIOS's map

mapVars == <<mappc, list, ending, ebx, bp, buffer>>

MapInit ==
  /\ mappc = "call"
  /\ list = << >> /\ ending = "carry"
  /\ ebx = 0 /\ bp = 0
  /\ buffer = [k \in 0..(BufferSlots - 1) |-> NoEntry]

\* The BIOS has a map, or does not support the function.
CallBios ==
  /\ mappc = "call"
  /\ mappc' = "get"
  /\ \/ list' \in Lists \ {<< >>} /\ ending' \in {"carry", "ebx"}
     \/ list' = << >> /\ ending' = "carry"
  /\ UNCHANGED <<ebx, bp, buffer>>

\* Mutant: entries of length 0 are counted.
GetEntryEmptyToo ==
  /\ mappc = "get" /\ ebx < Len(list)
  /\ ebx' = ebx + 1
  /\ buffer' = [buffer EXCEPT ![bp] = ebx + 1]
  /\ bp' = bp + 1
  /\ mappc' = IF ending = "ebx" /\ ebx' = Len(list) THEN "count" ELSE "get"
  /\ UNCHANGED <<list, ending>>

\* The BIOS stores its next entry, whose length decides if it is kept.
GetEntry ==
  /\ mappc = "get" /\ ebx < Len(list)
  /\ ebx' = ebx + 1
  /\ buffer' = [buffer EXCEPT ![bp] = ebx + 1]
  /\ bp' = IF list[ebx + 1] THEN bp + 1 ELSE bp
  /\ mappc' = IF ending = "ebx" /\ ebx' = Len(list) THEN "count" ELSE "get"
  /\ UNCHANGED <<list, ending>>

\* `jc .done'
Carry ==
  /\ mappc = "get" /\ ebx = Len(list)
  /\ mappc' = "count"
  /\ UNCHANGED <<list, ending, ebx, bp, buffer>>

StoreCount ==
  /\ mappc = "count"
  /\ buffer' = [buffer EXCEPT ![CountSlot] = Counted]
  /\ mappc' = "done"
  /\ UNCHANGED <<list, ending, ebx, bp>>

BiosMemoryMap == CallBios \/ GetEntry \/ Carry \/ StoreCount
-----------------------------------------------------------------------------
\* How many of the first n entries have a length.
Kept(n) == Cardinality({m \in 1..n : list[m]})

\* However the BIOS tells the end and wherever it lists empty entries, what the
\* kernel is told of the map is its entries that have a length, in order, if
\* they end below the number (Memory.inc:26-52).
MapIsBios ==
  mappc = "done" /\ Kept(Len(list)) <= CountSlot =>
    /\ bp = Kept(Len(list))
    /\ \A n \in 1..Len(list) : list[n] => buffer[Kept(n) - 1] = n
=============================================================================
