-------------------------------- MODULE Loader --------------------------------
(***************************************************************************)
(* From the boot sector to the second stage's memory map: Boot1 loads the  *)
(* second stage and jumps to it; the second stage (Stage2.asm:62-97) opens *)
(* the A20 gate and asks the BIOS for the memory map, whose buffer lies in *)
(* the memory that the image was loaded to.                                *)
(***************************************************************************)
EXTENDS Boot1, A20, MemoryMap, Progress

CONSTANTS
  BufferByte,  \* 0x1000, counted from where the second stage is: 2816
  EntryBytes,  \* 24
  CountByte    \* 0x2000: 6912

ASSUME LoaderAssumption ==
  /\ BufferByte \in Nat /\ EntryBytes \in Nat \ {0}
  /\ CountByte \in Nat /\ CountByte \div BytesPerSector < ImageRoom
  /\ (CountByte - BufferByte) \div EntryBytes = CountSlot

vars == <<boot1Vars, a20Vars, mapVars>>

Init == Boot1Init /\ A20Init /\ MapInit

\* The sectors of the image that a byte and the n - 1 that follow are in.
Sectors(first, n) ==
  {s \in 0..(ImageRoom - 1) : /\ s >= first \div BytesPerSector
                              /\ s <= (first + n - 1) \div BytesPerSector}
Spoilt(sectors) ==
  image' = [s \in DOMAIN image |-> IF s \in sectors THEN Other ELSE image[s]]

Boot1Step == Boot1Next /\ UNCHANGED <<a20Vars, mapVars>>
Key1 == KeyPressed /\ UNCHANGED <<a20Vars, mapVars>>

EnableA20 ==
  /\ pc = "stage_2"
  /\ A20Cpu
  /\ UNCHANGED <<boot1Vars, mapVars>>
A20Hardware == Controller /\ UNCHANGED <<boot1Vars, mapVars>>
Key2 == (\E code \in ScanCodes : Key(code)) /\ UNCHANGED <<boot1Vars, mapVars>>

\* Mutant: the buffer is where the second stage is, `mov di, 0x500'.
MapMemoryOver ==
  /\ pc = "stage_2" /\ A20Done
  /\ BiosMemoryMap
  /\ Spoilt(IF mappc = "get" /\ ebx < Len(list) THEN Sectors(EntryBytes * bp, EntryBytes)
            ELSE IF mappc = "count" THEN Sectors(CountByte, 2) ELSE {})
  /\ UNCHANGED <<pc, driveVars, table, readVars, cluster, at, a20Vars>>

\* `mov di, 0x1000; call BiosMemoryMap': the entries and their number are stored
\* where the image may still be.
MapMemory ==
  /\ pc = "stage_2" /\ A20Done
  /\ BiosMemoryMap
  /\ Spoilt(IF mappc = "get" /\ ebx < Len(list)
            THEN Sectors(BufferByte + EntryBytes * bp, EntryBytes)
            ELSE IF mappc = "count" THEN Sectors(CountByte, 2) ELSE {})
  /\ UNCHANGED <<pc, driveVars, table, readVars, cluster, at, a20Vars>>

Code == Boot1Step \/ EnableA20 \/ MapMemory
Next == Code \/ Key1 \/ A20Hardware \/ Key2

\* The loader is the only code that runs, the BIOS's calls return, and the
\* keyboard controller takes what it is sent; nobody has to press a key.
Spec == Init /\ [][Next]_vars /\ WF_vars(Code) /\ WF_vars(A20Hardware)
-----------------------------------------------------------------------------
\* The second stage, while it runs, is what was on the disk: a file that ends
\* below the memory map's buffer is whole after the first loader, the A20 gate
\* and the memory map (boot1.asm:238-269, Stage2.asm:86-97, Memory.inc:36-52).
Stage2IsTheFile ==
  pc = "stage_2" /\ Fits =>
    \A n \in 1..Len(disk.file) : \A s \in 0..(SectorPerCluster - 1) :
      LET place == (n - 1) * SectorPerCluster + s
      IN  mappc = "call" \/ place < BufferByte \div BytesPerSector
            => image[place] = ClusterLBA(disk.file[n]) + s

\* What the loaders have left: the stages of the first before its end, sectors
\* of the image's room, whether a cluster is to be read, sectors and attempts;
\* then places of the handshake, what the controller has to take, and what the
\* memory map has left.
Towards == IF pc = "read" THEN return ELSE pc
Stages == [root |-> 6, key |-> 5, find |-> 4, fat |-> 3, image |-> 2, next |-> 2,
           stage_2 |-> 1, failure |-> 1]
MapStages == [call |-> 3, get |-> 2, count |-> 1, done |-> 0]
Left ==
  <<IF Towards \in DOMAIN Stages THEN Stages[Towards] ELSE 0,
    ImageRoom - at,
    IF Towards = "image" THEN 1 ELSE 0,
    IF pc = "read" THEN left ELSE 0,
    IF pc = "read" THEN di ELSE 0,
    Len(Sequence) + 1 - a20pc,
    Len(input),
    MapStages[mappc],
    Len(list) - ebx>>

\* Each step of the loaders, of the controller and of the key they wait for
\* shortens what is left, on a disk with an endless chain too, whose clusters
\* use up the room; other keys do not prolong it (boot1.asm:52-75, 238-269,
\* A20.inc:45-57, Memory.inc:26-51).
LoadersShorten ==
  [][/\ Left' \in Numbers(9)
     /\ Code \/ Key1 \/ A20Hardware => Falls(Left', Left)
     /\ Key2 => Left' = Left]_vars

\* No wait of the handshake is for ever: whatever key came, either the processor
\* may go on or the controller may take what it was sent, and it goes on then
\* (A20.inc:5-57).
NoEndlessWait ==
  pc = "stage_2" =>
    /\ A20At("wait input") /\ input # << >> /\ input[1].command = "D0" => output = << >>
    /\ A20At("wait output") /\ output = << >> =>
         input # << >> /\ input[1].command = "D0"
    /\ A20At("read") => output # << >>

\* The loaders end, in the second stage's search for the kernel or with an
\* error, or wait for a key: each retry, each wait for the controller and each
\* chain of clusters, even one without an end, does (boot1.asm:52-75, 238-269,
\* A20.inc:45-57, Memory.inc:26-51).
LoaderEnds ==
  <>[](\/ mappc = "done"
       \/ pc \in {"key", "failure", "int_18", "int_19", "overrun"})
=============================================================================
