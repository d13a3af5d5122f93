------------------------------ MODULE LoaderProofs ------------------------------
(***************************************************************************)
(* The loaders, for every disk, every set of port bits, every scan code    *)
(* and every memory map the BIOS may list.  The keyboard controller is     *)
(* never written over, and of its output port only the A20 bit changes     *)
(* unless a key came between `cli' and the keyboard's end; the first       *)
(* loader gives up only after five failures for one sector; what the       *)
(* kernel is told of the memory map is the BIOS's entries in order; the    *)
(* second stage that runs is the file, up to the map's buffer; no wait is  *)
(* endless, and each step leaves less to do.                               *)
(***************************************************************************)
EXTENDS Loader, Fat12Proofs, FiniteSetTheorems, TLAPS

-----------------------------------------------------------------------------
(* The A20 handshake.                                                      *)

Command(op) == <<[command |-> op, byte |-> {}]>>
Byte(bits) == <<[command |-> "none", byte |-> bits]>>

\* What has been sent and not taken yet.  Only a stale key lets the processor
\* read before its request for the port has been taken.
Pending ==
  \/ input = << >>
  \/ a20pc = 3 /\ input = Command("AD")
  \/ a20pc \in 5..7 /\ input = Command("D0") /\ (a20pc # 5 => stale)
  \/ a20pc = 9 /\ input = Command("D1")
  \/ a20pc = 11 /\ input = Byte(al \cup {A20Bit})
  \/ a20pc = 13 /\ input = Command("AE")

HandTypes ==
  /\ a20pc \in 0..14
  /\ port \in SUBSET PortBits /\ before \in SUBSET PortBits /\ al \in SUBSET PortBits
  /\ output \in {<< >>} \cup {<<b>> : b \in SUBSET PortBits}
  /\ keys \in BOOLEAN /\ writing \in BOOLEAN /\ stale \in BOOLEAN

\* What the controller has made of the commands so far.
Enabled ==
  /\ a20pc \in 4..12 \/ (a20pc = 3 /\ input = << >>) => ~keys
  /\ a20pc = 14 \/ (a20pc = 13 /\ input = << >>) => keys
Expecting ==
  writing <=> \/ a20pc = 9 /\ input = << >>
              \/ a20pc = 10
              \/ a20pc = 11 /\ input # << >>

\* Without a stale key the byte that is read is the port's.
PortKept ==
  /\ a20pc =< 4 => output = << >>
  /\ a20pc = 5 => output = IF input = << >> THEN <<before>> ELSE << >>
  /\ a20pc = 6 => output = <<before>>
  /\ a20pc >= 7 => al = before
  /\ port = IF a20pc >= 12 \/ (a20pc = 11 /\ input = << >>)
            THEN before \cup {A20Bit} ELSE before

HandInv ==
  /\ HandTypes /\ Pending /\ Enabled /\ Expecting
  /\ a20pc = 6 => output # << >>
  /\ stale \/ PortKept

LEMMA Steps ==
  /\ Len(Sequence) = 13 /\ DOMAIN Sequence = 1..13
  /\ Sequence[1] = "wait input"  /\ Sequence[2] = "AD"
  /\ Sequence[3] = "wait input"  /\ Sequence[4] = "D0"
  /\ Sequence[5] = "wait output"  /\ Sequence[6] = "read"
  /\ Sequence[7] = "wait input"  /\ Sequence[8] = "D1"
  /\ Sequence[9] = "wait input"  /\ Sequence[10] = "data"
  /\ Sequence[11] = "wait input"  /\ Sequence[12] = "AE"
  /\ Sequence[13] = "wait input"
BY DEF Sequence

LEMMA Places ==
  ASSUME NEW op, A20At(op)
  PROVE  /\ op = "wait input" => a20pc \in {1, 3, 7, 9, 11, 13}
         /\ op = "wait output" => a20pc = 5
         /\ op = "read" => a20pc = 6
         /\ op = "AD" => a20pc = 2
         /\ op = "D0" => a20pc = 4
         /\ op = "D1" => a20pc = 8
         /\ op = "data" => a20pc = 10
         /\ op = "AE" => a20pc = 12
<1>1. a20pc \in 1..13 /\ Sequence[a20pc] = op
  BY Steps DEF A20At
<1>2. a20pc \in {1, 2, 3, 4, 5, 6, 7, 8, 9, 10, 11, 12, 13}
  BY <1>1
<1> QED BY <1>1, <1>2, Steps

LEMMA Last == Len(Sequence) = 13 /\ Reads = {6}
<1>1. 6 \in Reads
  <2>1. 6 \in 1..13
    OBVIOUS
  <2>2. 6 \in DOMAIN Sequence /\ Sequence[6] = "read"
    BY <2>1, Steps
  <2> QED BY <2>2 DEF Reads
<1>2. ASSUME NEW n \in Reads PROVE n = 6
  <2>1. n \in 1..13 /\ Sequence[n] = "read"
    BY Steps DEF Reads
  <2>2. n \in {1, 2, 3, 4, 5, 6, 7, 8, 9, 10, 11, 12, 13}
    BY <2>1
  <2> QED BY <2>1, <2>2, Steps
<1> QED BY <1>1, <1>2, Steps

LEMMA InitHand == Init => HandInv
<1> SUFFICES ASSUME A20Init PROVE HandInv
  BY DEF Init
<1>1. HandTypes
  <2>1. output \in {<< >>} \cup {<<b>> : b \in SUBSET PortBits}
    BY DEF A20Init
  <2>2. a20pc \in 0..14
    BY DEF A20Init
  <2>3. keys \in BOOLEAN /\ writing \in BOOLEAN /\ stale \in BOOLEAN
    BY DEF A20Init
  <2> QED BY <2>1, <2>2, <2>3 DEF A20Init, HandTypes
<1>2. Pending
  BY DEF A20Init, Pending
<1>3. Enabled /\ Expecting
  BY DEF A20Init, Enabled, Expecting
<1>4. PortKept /\ a20pc # 6
  BY DEF A20Init, PortKept
<1> QED BY <1>1, <1>2, <1>3, <1>4 DEF HandInv

LEMMA StartHand == HandInv /\ A20Start => HandInv'
BY DEF A20Start, HandInv, HandTypes, Pending, Enabled, Expecting, PortKept

LEMMA WaitedHand == HandInv /\ Waited => HandInv'
<1> SUFFICES ASSUME HandInv, Waited PROVE HandInv'
  OBVIOUS
<1>1. /\ a20pc' = a20pc + 1
      /\ UNCHANGED <<input, output, port, before, keys, writing, al, stale>>
      /\ \/ a20pc \in {1, 3, 7, 9, 11, 13} /\ input = << >>
         \/ a20pc = 5 /\ output # << >>
  BY Places DEF Waited
<1> QED BY <1>1 DEF HandInv, HandTypes, Pending, Enabled, Expecting, PortKept, Command, Byte

LEMMA OutHand == ASSUME NEW op \in A20Ops PROVE HandInv /\ Out(op) => HandInv'
<1> SUFFICES ASSUME HandInv, Out(op) PROVE HandInv'
  OBVIOUS
<1>1. /\ a20pc' = a20pc + 1 /\ input' = Sent(op, al \cup {A20Bit})
      /\ UNCHANGED <<output, port, before, keys, writing, al, stale>>
  BY DEF Out
<1>2. \/ op = "AD" /\ a20pc = 2 /\ input' = Command("AD")
      \/ op = "D0" /\ a20pc = 4 /\ input' = Command("D0")
      \/ op = "D1" /\ a20pc = 8 /\ input' = Command("D1")
      \/ op = "data" /\ a20pc = 10 /\ input' = Byte(al \cup {A20Bit})
      \/ op = "AE" /\ a20pc = 12 /\ input' = Command("AE")
  BY <1>1, Places DEF Out, A20Ops, Sent, Command, Byte
<1>3. input = << >> /\ input' # << >>
  BY <1>2 DEF HandInv, Pending, Command, Byte
<1> QED BY <1>1, <1>2, <1>3
        DEF HandInv, HandTypes, Pending, Enabled, Expecting, PortKept

LEMMA ReadHand == HandInv /\ ReadPort => HandInv'
<1> SUFFICES ASSUME HandInv, ReadPort PROVE HandInv'
  OBVIOUS
<1>1. /\ a20pc = 6 /\ a20pc' = 7 /\ al' = output[1] /\ output' = << >>
      /\ UNCHANGED <<input, port, before, keys, writing, stale>>
  <2>1. A20At("read") /\ a20pc' = a20pc + 1
    BY DEF ReadPort
  <2>2. a20pc = 6
    BY <2>1, Places
  <2> QED BY <2>1, <2>2 DEF ReadPort
<1>2. PICK b \in SUBSET PortBits : output = <<b>>
  BY <1>1 DEF HandInv, HandTypes
<1>3. al' = b
  BY <1>1, <1>2
<1>4. PortKept => b = before
  BY <1>1, <1>2 DEF PortKept
<1>5. HandTypes'
  BY <1>1, <1>2, <1>3 DEF HandInv, HandTypes
<1>6. Pending'
  BY <1>1 DEF HandInv, HandTypes, Pending, Command, Byte
<1>7. Enabled'
  BY <1>1 DEF HandInv, Enabled
<1>8. Expecting'
  BY <1>1 DEF HandInv, Expecting
<1>9. stale' \/ PortKept'
  BY <1>1, <1>3, <1>4 DEF HandInv, PortKept
<1> QED BY <1>1, <1>5, <1>6, <1>7, <1>8, <1>9 DEF HandInv

LEMMA ControllerHand == HandInv /\ Controller => HandInv'
<1> SUFFICES ASSUME HandInv, Controller PROVE HandInv'
  OBVIOUS
<1>1. input' = << >> /\ input # << >> /\ UNCHANGED <<a20pc, before, al, stale>>
  BY DEF Controller
<1>0. keys' \in BOOLEAN /\ writing' \in BOOLEAN
  BY DEF Controller
<1>2. CASE a20pc = 3 /\ input = Command("AD")
  <2>1. input[1].command = "AD"
    BY <1>2 DEF Command
  <2>2. ~keys' /\ output' = output /\ ~writing' /\ port' = port
    BY <2>1 DEF Controller
  <2>5. HandTypes'
    BY <1>1, <1>0, <1>2, <2>2 DEF HandInv, HandTypes
  <2>6. Pending'
    BY <1>1, <1>2, <2>2 DEF Pending
  <2>7. Enabled' /\ Expecting'
    BY <1>1, <1>2, <2>2 DEF HandInv, HandTypes, Enabled, Expecting
  <2>8. a20pc' = 6 => output' # << >>
    BY <1>1, <1>2, <2>2 DEF HandInv
  <2>9. stale' \/ PortKept'
    BY <1>1, <1>2, <2>2 DEF HandInv, PortKept
  <2> QED BY <2>5, <2>6, <2>7, <2>8, <2>9 DEF HandInv
<1>3. CASE a20pc \in 5..7 /\ input = Command("D0") /\ (a20pc # 5 => stale)
  <2>1. input[1].command = "D0"
    BY <1>3 DEF Command
  <2>2. keys' = keys /\ output = << >> /\ output' = <<port>> /\ ~writing' /\ port' = port
    BY <2>1 DEF Controller, HandInv, HandTypes
  <2>3. PortKept /\ a20pc = 5 => port = before
    BY <1>1 DEF PortKept
  <2>5. HandTypes'
    BY <1>1, <1>0, <1>3, <2>2, <2>3 DEF HandInv, HandTypes
  <2>6. Pending'
    BY <1>1, <1>3, <2>2, <2>3 DEF Pending
  <2>7. Enabled' /\ Expecting'
    BY <1>1, <1>3, <2>2, <2>3 DEF HandInv, HandTypes, Enabled, Expecting
  <2>8. a20pc' = 6 => output' # << >>
    BY <1>1, <1>3, <2>2, <2>3 DEF HandInv
  <2>9. stale' \/ PortKept'
    BY <1>1, <1>3, <2>2, <2>3 DEF HandInv, PortKept
  <2> QED BY <2>5, <2>6, <2>7, <2>8, <2>9 DEF HandInv
<1>4. CASE a20pc = 9 /\ input = Command("D1")
  <2>1. input[1].command = "D1"
    BY <1>4 DEF Command
  <2>2. keys' = keys /\ output' = output /\ writing' /\ writing' \in BOOLEAN /\ port' = port
    BY <2>1 DEF Controller, HandInv, HandTypes
  <2>5. HandTypes'
    BY <1>1, <1>0, <1>4, <2>2 DEF HandInv, HandTypes
  <2>6. Pending'
    BY <1>1, <1>4, <2>2 DEF Pending
  <2>7. Enabled' /\ Expecting'
    BY <1>1, <1>4, <2>2 DEF HandInv, HandTypes, Enabled, Expecting
  <2>8. a20pc' = 6 => output' # << >>
    BY <1>1, <1>4, <2>2 DEF HandInv
  <2>9. stale' \/ PortKept'
    BY <1>1, <1>4, <2>2 DEF HandInv, PortKept
  <2> QED BY <2>5, <2>6, <2>7, <2>8, <2>9 DEF HandInv
<1>5. CASE a20pc = 11 /\ input = Byte(al \cup {A20Bit})
  <2>1. input[1].command = "none" /\ input[1].byte = al \cup {A20Bit}
    BY <1>5 DEF Byte
  <2>2. writing
    BY <1>1, <1>5 DEF HandInv, Expecting
  <2>3. keys' = keys /\ output' = output /\ ~writing' /\ port' = al \cup {A20Bit}
    BY <2>1, <2>2 DEF Controller, HandInv, HandTypes
  <2>4. al \cup {A20Bit} \in SUBSET PortBits
    BY A20Assumption DEF HandInv, HandTypes
  <2>5. HandTypes'
    BY <1>1, <1>0, <1>5, <2>3, <2>4 DEF HandInv, HandTypes
  <2>6. Pending'
    BY <1>1, <1>5, <2>3, <2>4 DEF Pending
  <2>7. Enabled' /\ Expecting'
    BY <1>1, <1>5, <2>3, <2>4 DEF HandInv, HandTypes, Enabled, Expecting
  <2>8. a20pc' = 6 => output' # << >>
    BY <1>1, <1>5, <2>3, <2>4 DEF HandInv
  <2>9. stale' \/ PortKept'
    BY <1>1, <1>5, <2>3, <2>4 DEF HandInv, PortKept
  <2> QED BY <2>5, <2>6, <2>7, <2>8, <2>9 DEF HandInv
<1>6. CASE a20pc = 13 /\ input = Command("AE")
  <2>1. input[1].command = "AE"
    BY <1>6 DEF Command
  <2>2. keys' /\ keys' \in BOOLEAN /\ output' = output /\ ~writing' /\ port' = port
    BY <2>1 DEF Controller, HandInv, HandTypes
  <2>5. HandTypes'
    BY <1>1, <1>0, <1>6, <2>2 DEF HandInv, HandTypes
  <2>6. Pending'
    BY <1>1, <1>6, <2>2 DEF Pending
  <2>7. Enabled' /\ Expecting'
    BY <1>1, <1>6, <2>2 DEF HandInv, HandTypes, Enabled, Expecting
  <2>8. a20pc' = 6 => output' # << >>
    BY <1>1, <1>6, <2>2 DEF HandInv
  <2>9. stale' \/ PortKept'
    BY <1>1, <1>6, <2>2 DEF HandInv, PortKept
  <2> QED BY <2>5, <2>6, <2>7, <2>8, <2>9 DEF HandInv
<1> QED BY <1>1, <1>2, <1>3, <1>4, <1>5, <1>6 DEF HandInv, Pending

LEMMA KeyHand == ASSUME NEW code \in ScanCodes PROVE HandInv /\ Key(code) => HandInv'
<1> SUFFICES ASSUME HandInv, Key(code) PROVE HandInv'
  OBVIOUS
<1>1. /\ a20pc > 0 /\ keys /\ output = << >> /\ output' = <<code>>
      /\ UNCHANGED <<a20pc, input, port, before, keys, writing, al>>
      /\ stale' = (stale \/ a20pc =< 6)
  BY Last DEF Key, HandInv, HandTypes
<1>2. code \in SUBSET PortBits
  BY A20Assumption
<1>3. HandTypes'
  BY <1>1, <1>2 DEF HandInv, HandTypes
<1>4. Pending'
  BY <1>1 DEF HandInv, HandTypes, Pending
<1>5. Enabled' /\ Expecting'
  BY <1>1 DEF HandInv, Enabled, Expecting
<1>6. stale' \/ PortKept'
  <2>1. CASE a20pc =< 6
    BY <1>1, <2>1
  <2>2. CASE a20pc >= 7
    BY <1>1, <2>2 DEF HandInv, HandTypes, PortKept
  <2> QED BY <2>1, <2>2 DEF HandInv, HandTypes
<1> QED BY <1>1, <1>3, <1>4, <1>5, <1>6 DEF HandInv

LEMMA NextHand == HandInv /\ [Next]_vars => HandInv'
<1> SUFFICES ASSUME HandInv, [Next]_vars PROVE HandInv'
  OBVIOUS
<1>1. ASSUME UNCHANGED a20Vars PROVE HandInv'
  BY <1>1 DEF a20Vars, HandInv, HandTypes, Pending, Enabled, Expecting, PortKept
<1>2. CASE Boot1Step \/ Key1 \/ MapMemory \/ UNCHANGED vars
  BY <1>1, <1>2 DEF Boot1Step, Key1, MapMemory, vars
<1>3. CASE EnableA20
  BY <1>3, StartHand, WaitedHand, OutHand, ReadHand DEF EnableA20, A20Cpu
<1>4. CASE A20Hardware
  BY <1>4, ControllerHand DEF A20Hardware
<1>5. CASE Key2
  BY <1>5, KeyHand DEF Key2
<1> QED BY <1>2, <1>3, <1>4, <1>5 DEF Next, Code

\* The state of the handshake at each of its steps.
THEOREM HandInvariance == Spec => []HandInv
<1> QED BY InitHand, NextHand, PTL DEF Spec

\* Whatever keys are pressed, of the controller's output port only the A20 bit
\* changes, and at the end it is set and the keyboard is on, unless a key came
\* after `cli' and before the keyboard was disabled (A20.inc:5-42).
THEOREM PortSafe == Spec => []OnlyA20Changes
<1>1. HandInv => OnlyA20Changes
  BY Last DEF HandInv, HandTypes, Enabled, PortKept, OnlyA20Changes, A20Done
<1> QED BY <1>1, HandInvariance, PTL

\* The processor waits for the controller before each byte: none is written
\* over, even when the answer it read was a key (A20.inc:7-49).
THEOREM HandshakeKept == Spec => NothingWrittenOver
<1>1. HandInv /\ [Next]_vars => [input' # input /\ input' # << >> => input = << >>]_a20Vars
  <2> SUFFICES ASSUME HandInv, [Next]_vars, input' # input, input' # << >>
               PROVE  input = << >>
    OBVIOUS
  <2>1. CASE EnableA20
    <3>1. PICK op \in A20Ops : Out(op)
      BY <2>1 DEF EnableA20, A20Cpu, A20Start, Waited, ReadPort
    <3>2. a20pc \in {2, 4, 8, 10, 12}
      BY <3>1, Places DEF Out, A20Ops
    <3> QED BY <3>2 DEF HandInv, Pending
  <2>2. CASE A20Hardware
    BY <2>2 DEF A20Hardware, Controller
  <2>3. CASE Key2
    BY <2>3 DEF Key2, Key
  <2>4. CASE Boot1Step \/ Key1 \/ MapMemory \/ UNCHANGED vars
    BY <2>4 DEF Boot1Step, Key1, MapMemory, vars, a20Vars
  <2> QED BY <2>1, <2>2, <2>3, <2>4 DEF Next, Code
<1> QED BY <1>1, HandInvariance, PTL DEF Spec, NothingWrittenOver
-----------------------------------------------------------------------------
(* The attempts of the first loader.                                       *)

\* Each attempt for a sector that is used up is a failure of the disk or of a
\* reset, and one more has failed if the drive is not ready now.  Nothing but a
\* read leaves the drive not ready.
AttemptsInv ==
  /\ di \in Int /\ bad \in Int /\ ready \in BOOLEAN
  /\ pc = "read" => /\ return \in {"key", "image", "next"}
                    /\ bad >= 5 - di + (IF ready THEN 0 ELSE 1)
  /\ pc = "int_18" => bad >= 5
  /\ pc \notin {"read", "int_18", "overrun"} => ready

LEMMA ReadingAttempts ==
  ASSUME NEW sector, NEW n, NEW place, NEW then \in {"key", "image", "next"},
         AttemptsInv, ready, UNCHANGED ready, ReadSectors(sector, n, place, then)
  PROVE  AttemptsInv'
BY DEF AttemptsInv, ReadSectors

LEMMA FailedAttempts == AttemptsInv /\ SectorFails => AttemptsInv'
<1> SUFFICES ASSUME AttemptsInv, SectorFails PROVE AttemptsInv'
  OBVIOUS
<1>1. /\ pc = "read" /\ return' = return /\ ready' \in BOOLEAN
      /\ bad' = bad + (IF ready THEN 1 ELSE 0) + (IF ready' THEN 0 ELSE 1)
      /\ di' = di - 1 /\ pc' = IF di = 1 THEN "int_18" ELSE "read"
  BY DEF SectorFails
<1>2. di' \in Int /\ bad' \in Int
  BY <1>1 DEF AttemptsInv
<1>3. bad' >= 5 - di' + (IF ready' THEN 0 ELSE 1)
  BY <1>1 DEF AttemptsInv
<1>4. di = 1 => bad' >= 5
  BY <1>1 DEF AttemptsInv
<1> QED BY <1>1, <1>2, <1>3, <1>4 DEF AttemptsInv

LEMMA NextAttempts == AttemptsInv /\ [Next]_vars => AttemptsInv'
<1> SUFFICES ASSUME AttemptsInv, [Next]_vars PROVE AttemptsInv'
  OBVIOUS
<1>1. CASE UNCHANGED <<pc, ready, di, bad, return>>
  BY <1>1 DEF AttemptsInv
<1>2. CASE LOAD_ROOT
  BY <1>2, ReadingAttempts DEF LOAD_ROOT, driveVars, AttemptsInv
<1>3. CASE LOAD_FAT
  BY <1>3, ReadingAttempts DEF LOAD_FAT, driveVars, AttemptsInv
<1>4. CASE LOAD_IMAGE
  BY <1>4, ReadingAttempts DEF LOAD_IMAGE, driveVars, AttemptsInv
<1>5. CASE KeyPressed \/ Find \/ NextCluster
  <2>1. /\ pc \notin {"read", "int_18", "overrun"} /\ pc' \notin {"read", "int_18", "overrun"}
        /\ UNCHANGED <<ready, di, bad, return>>
    BY <1>5 DEF KeyPressed, Find, NextCluster, driveVars, readVars
  <2> QED BY <2>1 DEF AttemptsInv
<1>6. CASE SectorRead
  <2>1. /\ pc = "read" /\ ready /\ UNCHANGED <<ready, return>>
        /\ di' = 5 /\ bad' = 0 /\ pc' \in {return, "read"}
    BY <1>6 DEF SectorRead, driveVars
  <2> QED BY <2>1 DEF AttemptsInv
<1>7. CASE SectorFails
  BY <1>7, FailedAttempts
<1>8. CASE Overrun
  BY <1>8 DEF Overrun, driveVars, readVars, AttemptsInv
<1>9. CASE EnableA20 \/ A20Hardware \/ MapMemory \/ Key2 \/ UNCHANGED vars
  BY <1>1, <1>9 DEF EnableA20, A20Hardware, MapMemory, Key2, vars, boot1Vars, driveVars, readVars
<1> QED BY <1>2, <1>3, <1>4, <1>5, <1>6, <1>7, <1>8, <1>9
        DEF Next, Code, Boot1Step, Boot1Next, Key1

\* The first loader stops with `int 18' only when the disk and the resets have
\* failed five times for one sector (boot1.asm:53-75).
THEOREM GivesUpLate == Spec => []GivesUpAfterFive
<1>1. Init => AttemptsInv
  BY DEF Init, Boot1Init, AttemptsInv
<1>2. AttemptsInv => GivesUpAfterFive
  BY DEF AttemptsInv, GivesUpAfterFive
<1> QED BY <1>1, <1>2, NextAttempts, PTL DEF Spec

-----------------------------------------------------------------------------
(* The memory map.                                                         *)

\* How many of the first n entries of a map have a length.
Count(map, n) == Cardinality({m \in 1..n : map[m]})

MapTyped ==
  /\ mappc \in {"call", "get", "count", "done"}
  /\ list \in Seq(BOOLEAN) /\ Len(list) <= BufferSlots
  /\ ebx \in 0..Len(list)
  /\ buffer \in [0..(BufferSlots - 1) -> Int]
  /\ mappc = "call" => list = << >>
  /\ mappc \in {"count", "done"} => ebx = Len(list)

\* Of the entries told so far those with a length are in order; the number of
\* entries is stored over one of them if there are so many.
InOrder ==
  \A n \in 1..ebx :
    list[n] /\ (mappc = "done" => Count(list, n) - 1 # CountSlot)
      => buffer[Count(list, n) - 1] = n

MapInv == MapTyped /\ bp = Count(list, ebx) /\ InOrder

LEMMA CountUpTo ==
  ASSUME NEW map, NEW n \in Nat
  PROVE  Count(map, n) \in Nat /\ Count(map, n) <= n
<1>1. IsFiniteSet(1..n) /\ Cardinality(1..n) = n
  BY FS_Interval
<1>2. {m \in 1..n : map[m]} \subseteq 1..n
  OBVIOUS
<1>3. /\ IsFiniteSet({m \in 1..n : map[m]})
      /\ Cardinality({m \in 1..n : map[m]}) <= Cardinality(1..n)
  BY <1>1, <1>2, FS_Subset
<1>4. Cardinality({m \in 1..n : map[m]}) \in Nat
  BY <1>3, FS_CardinalityType
<1> QED BY <1>1, <1>3, <1>4 DEF Count

LEMMA CountNone == ASSUME NEW map PROVE Count(map, 0) = 0
<1>1. {m \in 1..0 : map[m]} = {}
  OBVIOUS
<1> QED BY <1>1, FS_EmptySet DEF Count

LEMMA CountNext ==
  ASSUME NEW map, NEW n \in Nat
  PROVE  Count(map, n + 1) = IF map[n + 1] THEN Count(map, n) + 1 ELSE Count(map, n)
<1> DEFINE Told == {m \in 1..n : map[m]}
<1>1. IsFiniteSet(Told)
  <2>1. IsFiniteSet(1..n)
    BY FS_Interval
  <2> QED BY <2>1, FS_Subset
<1>2. CASE map[n + 1]
  <2>1. {m \in 1..(n + 1) : map[m]} = Told \cup {n + 1}
    BY <1>2
  <2>2. n + 1 \notin Told
    OBVIOUS
  <2>3. Cardinality(Told \cup {n + 1}) = Cardinality(Told) + 1
    BY <1>1, <2>2, FS_AddElement
  <2> QED BY <1>2, <2>1, <2>3 DEF Count
<1>3. CASE ~map[n + 1]
  <2>1. {m \in 1..(n + 1) : map[m]} = Told
    BY <1>3
  <2> QED BY <1>3, <2>1 DEF Count
<1> QED BY <1>2, <1>3

\* An entry that is kept has a place of its own below those that follow.
LEMMA CountBelow ==
  ASSUME NEW map, NEW n \in Nat, NEW k \in 1..n
  PROVE  Count(map, k) <= Count(map, n) /\ (map[k] => 1 <= Count(map, k))
<1>1. IsFiniteSet({m \in 1..n : map[m]})
  <2>1. IsFiniteSet(1..n)
    BY FS_Interval
  <2>2. {m \in 1..n : map[m]} \subseteq 1..n
    OBVIOUS
  <2> QED BY <2>1, <2>2, FS_Subset
<1>2. {m \in 1..k : map[m]} \subseteq {m \in 1..n : map[m]}
  OBVIOUS
<1>3. Count(map, k) <= Count(map, n)
  BY <1>1, <1>2, FS_Subset DEF Count
<1>4. ASSUME map[k] PROVE 1 <= Count(map, k)
  <2>1. (k - 1) + 1 = k /\ k - 1 \in Nat
    OBVIOUS
  <2>2. Count(map, k) = Count(map, k - 1) + 1
    BY <1>4, <2>1, CountNext
  <2> QED BY <2>1, <2>2, CountUpTo
<1> QED BY <1>3, <1>4

\* A number stored in one place.
LEMMA StoredNumber ==
  ASSUME NEW S, NEW f \in [S -> Int], NEW k, NEW v \in Int
  PROVE  [f EXCEPT ![k] = v] \in [S -> Int]
OBVIOUS

LEMMA InitMap == MapInit => MapInv
<1> SUFFICES ASSUME MapInit PROVE MapInv
  OBVIOUS
<1>1. MapTyped
  <2>1. list = << >> /\ ebx = 0 /\ mappc = "call"
    BY DEF MapInit
  <2>2. list \in Seq(BOOLEAN) /\ Len(list) = 0
    BY <2>1
  <2>3. buffer \in [0..(BufferSlots - 1) -> Int]
    BY DEF MapInit, NoEntry
  <2> QED BY <2>1, <2>2, <2>3, MemoryMapAssumption DEF MapTyped
<1>2. bp = Count(list, ebx)
  BY CountNone DEF MapInit
<1>3. InOrder
  BY DEF MapInit, InOrder
<1> QED BY <1>1, <1>2, <1>3 DEF MapInv

LEMMA CallMap == MapInv /\ CallBios => MapInv'
<1> SUFFICES ASSUME MapInv, CallBios PROVE MapInv'
  OBVIOUS
<1>1. /\ mappc' = "get" /\ list' \in Lists \cup {<< >>}
      /\ UNCHANGED <<ebx, bp, buffer>>
  BY DEF CallBios
<1>2. ebx = 0 /\ bp = 0
  <2>1. list = << >> /\ ebx \in 0..Len(list) /\ bp = Count(list, ebx)
    BY DEF MapInv, MapTyped, CallBios
  <2>2. ebx = 0
    BY <2>1
  <2> QED BY <2>1, <2>2, CountNone
<1>3. list' \in Seq(BOOLEAN) /\ Len(list') <= BufferSlots
  <2>1. CASE list' \in Lists
    BY <2>1, MemoryMapAssumption
  <2>2. CASE list' = << >>
    BY <2>2, MemoryMapAssumption
  <2> QED BY <1>1, <2>1, <2>2
<1>4. MapTyped'
  <2>1. ebx' \in 0..Len(list')
    BY <1>1, <1>2, <1>3
  <2> QED BY <1>1, <1>3, <2>1 DEF MapInv, MapTyped
<1>5. bp' = Count(list', ebx')
  BY <1>1, <1>2, CountNone
<1>6. InOrder'
  BY <1>1, <1>2 DEF InOrder
<1> QED BY <1>4, <1>5, <1>6 DEF MapInv

LEMMA GetMap == MapInv /\ GetEntry => MapInv'
<1> SUFFICES ASSUME MapInv, GetEntry PROVE MapInv'
  OBVIOUS
<1>1. /\ mappc = "get" /\ ebx < Len(list) /\ ebx' = ebx + 1 /\ list' = list
      /\ buffer' = [buffer EXCEPT ![bp] = ebx + 1]
      /\ bp' = IF list[ebx + 1] THEN bp + 1 ELSE bp
      /\ mappc' = IF ending = "ebx" /\ ebx' = Len(list) THEN "count" ELSE "get"
  BY DEF GetEntry
<1>2. /\ ebx \in Nat /\ Len(list) \in Nat /\ Len(list) <= BufferSlots
      /\ bp = Count(list, ebx) /\ bp \in Nat /\ bp <= ebx
      /\ buffer \in [0..(BufferSlots - 1) -> Int]
  BY CountUpTo DEF MapInv, MapTyped
<1>3. bp \in 0..(BufferSlots - 1)
  BY <1>1, <1>2, MemoryMapAssumption
<1>4. MapTyped'
  <2>1. buffer' \in [0..(BufferSlots - 1) -> Int]
    <3>1. ebx + 1 \in Int
      BY <1>2
    <3> QED BY <1>1, <1>2, <3>1, StoredNumber
  <2>2. ebx' \in 0..Len(list')
    BY <1>1, <1>2
  <2> QED BY <1>1, <2>1, <2>2 DEF MapInv, MapTyped
<1>5. bp' = Count(list', ebx')
  BY <1>1, <1>2, CountNext
<1>6. InOrder'
  <2> SUFFICES ASSUME NEW n \in 1..(ebx + 1), list[n]
               PROVE  buffer'[Count(list, n) - 1] = n
    BY <1>1 DEF InOrder
  <2>1. CASE n = ebx + 1
    <3>1. Count(list, n) = bp + 1
      BY <1>2, <2>1, CountNext
    <3>2. Count(list, n) - 1 = bp
      BY <1>2, <3>1
    <3> QED BY <1>1, <1>2, <1>3, <2>1, <3>2
  <2>2. CASE n \in 1..ebx
    <3>1. Count(list, n) <= bp /\ 1 <= Count(list, n) /\ Count(list, n) \in Nat
      BY <1>2, <2>2, CountBelow, CountUpTo
    <3>2. buffer[Count(list, n) - 1] = n
      BY <1>1, <2>2 DEF MapInv, InOrder
    <3>3. Count(list, n) - 1 \in 0..(BufferSlots - 1) /\ Count(list, n) - 1 # bp
      BY <1>2, <1>3, <3>1, MemoryMapAssumption
    <3> QED BY <1>1, <1>2, <3>2, <3>3
  <2> QED BY <1>2, <2>1, <2>2
<1> QED BY <1>4, <1>5, <1>6 DEF MapInv

LEMMA CarryMap == MapInv /\ Carry => MapInv'
BY DEF Carry, MapInv, MapTyped, InOrder

LEMMA StoreMap == MapInv /\ StoreCount => MapInv'
<1> SUFFICES ASSUME MapInv, StoreCount PROVE MapInv'
  OBVIOUS
<1>1. /\ mappc = "count" /\ mappc' = "done" /\ UNCHANGED <<list, ebx, bp>>
      /\ buffer' = [buffer EXCEPT ![CountSlot] = Counted]
  BY DEF StoreCount
<1>2. MapTyped'
  <2>1. buffer' \in [0..(BufferSlots - 1) -> Int]
    <3>1. Counted \in Int
      BY DEF Counted
    <3>2. buffer \in [0..(BufferSlots - 1) -> Int]
      BY DEF MapInv, MapTyped
    <3> QED BY <1>1, <3>1, <3>2, StoredNumber
  <2> QED BY <1>1, <2>1 DEF MapInv, MapTyped
<1>3. InOrder'
  <2> SUFFICES ASSUME NEW n \in 1..ebx, list[n], Count(list, n) - 1 # CountSlot
               PROVE  buffer'[Count(list, n) - 1] = n
    BY <1>1 DEF InOrder
  <2>1. buffer[Count(list, n) - 1] = n
    BY <1>1 DEF MapInv, InOrder
  <2>2. Count(list, n) - 1 \in 0..(BufferSlots - 1)
    <3>1. /\ ebx \in Nat /\ Len(list) \in Nat /\ ebx <= Len(list)
          /\ Len(list) <= BufferSlots
      BY DEF MapInv, MapTyped
    <3>2. /\ 1 <= Count(list, n) /\ Count(list, n) \in Nat
          /\ Count(list, n) <= n
      BY <3>1, CountBelow, CountUpTo
    <3> QED BY <3>1, <3>2, MemoryMapAssumption
  <2> QED BY <1>1, <2>1, <2>2 DEF MapInv, MapTyped
<1> QED BY <1>1, <1>2, <1>3 DEF MapInv

LEMMA NextMap == MapInv /\ [Next]_vars => MapInv'
<1> SUFFICES ASSUME MapInv, [Next]_vars PROVE MapInv'
  OBVIOUS
<1>1. CASE UNCHANGED mapVars
  BY <1>1 DEF mapVars, MapInv, MapTyped, InOrder
<1>2. CASE MapMemory
  BY <1>2, CallMap, GetMap, CarryMap, StoreMap DEF MapMemory, BiosMemoryMap
<1>3. CASE Boot1Step \/ Key1 \/ EnableA20 \/ A20Hardware \/ Key2 \/ UNCHANGED vars
  BY <1>1, <1>3 DEF Boot1Step, Key1, EnableA20, A20Hardware, Key2, vars
<1> QED BY <1>2, <1>3 DEF Next, Code

\* What the kernel is told of the BIOS's memory map is its entries that have a
\* length, in order, if they end below the place of their number
\* (Memory.inc:26-52).
THEOREM MapIsTold == Spec => []MapIsBios
<1>1. Init => MapInv
  BY InitMap DEF Init
<1>2. MapInv => MapIsBios
  <2> SUFFICES ASSUME MapInv, mappc = "done", Kept(Len(list)) <= CountSlot
               PROVE  /\ bp = Kept(Len(list))
                      /\ \A n \in 1..Len(list) : list[n] => buffer[Kept(n) - 1] = n
    BY DEF MapIsBios
  <2>1. \A n : Kept(n) = Count(list, n)
    BY DEF Kept, Count
  <2>2. ebx = Len(list) /\ Len(list) \in Nat
    BY DEF MapInv, MapTyped
  <2>3. bp = Kept(Len(list))
    BY <2>1, <2>2 DEF MapInv
  <2>4. ASSUME NEW n \in 1..Len(list), list[n] PROVE buffer[Kept(n) - 1] = n
    <3>1. Count(list, n) <= Count(list, Len(list)) /\ Count(list, n) \in Nat
      BY <2>2, CountBelow, CountUpTo
    <3>2. Count(list, Len(list)) \in Nat
      BY <2>2, CountUpTo
    <3>3. Count(list, n) - 1 # CountSlot
      BY <2>1, <3>1, <3>2, MemoryMapAssumption
    <3>4. buffer[Count(list, n) - 1] = n
      BY <2>2, <2>4, <3>3 DEF MapInv, InOrder
    <3> QED BY <2>1, <3>4
  <2> QED BY <2>3, <2>4
<1> QED BY <1>1, <1>2, NextMap, PTL DEF Spec
-----------------------------------------------------------------------------
(* The image that the first loader reads.                                  *)

\* How far the loader has come with a file that fits: in the table, or at the
\* k-th of its clusters.
InTable ==
  /\ bx \in Nat /\ left \in Nat \ {0}
  /\ bx + left = FatSectors /\ lba = ReservedSector + bx
  /\ TableAt(table, 0, bx)
  /\ at = 0 /\ cluster = disk.file[1]
Following(k) ==
  /\ cluster = disk.file[k]
  /\ TableAt(table, 0, FatSectors)
InCluster(k) ==
  /\ Following(k)
  /\ left \in 1..SectorPerCluster
  /\ bx = (k - 1) * SectorPerCluster + (SectorPerCluster - left)
  /\ lba = ClusterLBA(cluster) + (SectorPerCluster - left)
  /\ FileAt(image, 0, disk.file, bx)
Before(k) ==
  /\ Following(k)
  /\ at = (k - 1) * SectorPerCluster
  /\ FileAt(image, 0, disk.file, at)
Behind(k) ==
  /\ Following(k)
  /\ bx = k * SectorPerCluster
  /\ FileAt(image, 0, disk.file, bx)

\* What is left of the file when the memory map is asked for.
Whole ==
  \A n \in 1..Len(disk.file) : \A s \in 0..(SectorPerCluster - 1) :
    mappc = "call" \/ (n - 1) * SectorPerCluster + s < BufferByte \div BytesPerSector
      => image[(n - 1) * SectorPerCluster + s] = ClusterLBA(disk.file[n]) + s

LoadingImage ==
  /\ pc \in {"root", "read", "key", "find", "fat", "image", "next", "stage_2",
             "failure", "int_18", "int_19"}
  /\ pc \in {"failure", "int_19"} => ~Listed
  /\ pc = "read" => return \in {"key", "image", "next"}
  /\ pc = "fat" => cluster = disk.file[1]
  /\ pc = "read" /\ return = "image" => InTable
  /\ pc = "read" /\ return = "next" => \E k \in 1..Len(disk.file) : InCluster(k)
  /\ pc = "image" => \E k \in 1..Len(disk.file) : Before(k)
  /\ pc = "next" => \E k \in 1..Len(disk.file) : Behind(k)
  /\ pc = "stage_2" => Whole

ImageInv ==
  /\ disk \in Disks
  /\ DOMAIN image = 0..(ImageRoom - 1) /\ DOMAIN table = 0..(TableCells - 1)
  /\ Fits => LoadingImage

-----------------------------------------------------------------------------
(* The disk in the drive.                                                  *)

\* The sectors whose track fits in a byte, and the places of the layout.
Tracks == BYTE * HeadPerCylinder * SectorPerTrack

LEMMA OnFloppy ==
  /\ Tracks \in Nat /\ Tracks < 65536 /\ ImageRoom \in Nat /\ TableCells \in Nat
  /\ FatSectors <= TableCells
  /\ \A d \in Disks : DiskOK(d, ImageRoom + 1, Tracks)
<1>1. Tracks \in Nat
  <2>1. \A a, b, c \in Nat : a * b * c \in Nat
    OBVIOUS
  <2>2. BYTE \in Nat
    BY DEF BYTE
  <2>3. HeadPerCylinder \in Nat /\ SectorPerTrack \in Nat
    BY Fat12Assumption
  <2> HIDE DEF BYTE
  <2> QED BY <2>1, <2>2, <2>3 DEF Tracks
<1>2. Tracks < WORD
  BY Boot1Assumption DEF Tracks
<1>3. \A d \in Disks : DiskOK(d, ImageRoom + 1, Tracks)
  BY Boot1Assumption DEF Tracks
<1> QED BY <1>1, <1>2, <1>3, Boot1Assumption DEF WORD, FatSectors

LEMMA SectorThere ==
  ASSUME NEW n \in Nat, n < Tracks
  PROVE  SectorAt(LBACHS(n)) = n /\ (lba = n => (lba + 1) % WORD = n + 1)
<1>1. n \in Reachable
  BY OnFloppy DEF Reachable, Tracks
<1>2. n + 1 \in Nat /\ n + 1 < 65536
  BY OnFloppy
<1>3. (n + 1) % WORD = n + 1
  BY <1>2, NoWrap DEF WORD
<1> QED BY <1>1, <1>3, SectorFound

\* A file that fits has its clusters below the boot sector.
LEMMA FitsRoom ==
  ASSUME disk \in Disks, Fits
  PROVE  /\ disk.file \in Seq(ClusterNumbers)
         /\ Len(disk.file) \in Nat /\ 0 < Len(disk.file)
         /\ Len(disk.file) < ImageRoom + 1
         /\ disk.file[1] = disk.start
         /\ \A n \in 0..Len(disk.file) :
              n * SectorPerCluster \in Nat /\ n * SectorPerCluster <= ImageRoom
<1>1. /\ disk.file \in Seq(ClusterNumbers)
      /\ Len(disk.file) \in Nat /\ 0 < Len(disk.file)
      /\ disk.file[1] = disk.start
  BY FileStarts, OnFloppy DEF Fits
<1>2. \A a, b \in Nat : a <= b => a * SectorPerCluster <= b * SectorPerCluster
                                  /\ a * SectorPerCluster \in Nat
                                  /\ a <= a * SectorPerCluster
  BY Sizes
<1> DEFINE y == Len(disk.file) * SectorPerCluster
<1>3. y \in Nat /\ y <= ImageRoom /\ Len(disk.file) <= y
  BY <1>1, <1>2 DEF Fits
<1>4. ASSUME NEW n \in 0..Len(disk.file)
      PROVE  n * SectorPerCluster \in Nat /\ n * SectorPerCluster <= ImageRoom
  <2> DEFINE x == n * SectorPerCluster
  <2>1. n \in Nat /\ n <= Len(disk.file)
    BY <1>1
  <2>2. x \in Nat /\ x <= y
    BY <1>1, <1>2, <2>1
  <2> HIDE DEF x, y
  <2>3. x <= ImageRoom
    BY <1>3, <2>2, OnFloppy
  <2> QED BY <2>2, <2>3 DEF x
<1> HIDE DEF y
<1>5. Len(disk.file) < ImageRoom + 1
  BY <1>1, <1>3, OnFloppy
<1> QED BY <1>1, <1>4, <1>5

\* The place of one sector of a file that fits.
LEMMA InRoom ==
  ASSUME disk \in Disks, Fits, NEW k \in 1..Len(disk.file),
         NEW t \in Nat, t < SectorPerCluster
  PROVE  /\ (k - 1) * SectorPerCluster + t \in Nat
         /\ (k - 1) * SectorPerCluster + t < k * SectorPerCluster
         /\ k * SectorPerCluster \in Nat /\ k * SectorPerCluster <= ImageRoom
         /\ (k - 1) * SectorPerCluster + t \in 0..(ImageRoom - 1)
<1> DEFINE x == (k - 1) * SectorPerCluster + t
           y == k * SectorPerCluster
<1>1. k \in Nat /\ 1 <= k /\ k \in 0..Len(disk.file)
  BY FitsRoom
<1>2. x \in Nat /\ x < y
  BY <1>1, ClusterPlace
<1>3. y \in Nat /\ y <= ImageRoom
  BY <1>1, FitsRoom
<1> HIDE DEF x, y
<1>4. x \in 0..(ImageRoom - 1)
  BY <1>2, <1>3, OnFloppy
<1> QED BY <1>2, <1>3, <1>4 DEF x, y

\* Where a cluster of the file lies.
LEMMA ClusterThere ==
  ASSUME disk \in Disks, Fits, NEW k \in 1..Len(disk.file)
  PROVE  /\ disk.file[k] \in Nat
         /\ ClusterLBA(disk.file[k]) \in Nat
         /\ ReservedSector + FatSectors <= ClusterLBA(disk.file[k])
         /\ ClusterLBA(disk.file[k]) + SectorPerCluster <= Tracks
<1>1. DiskOK(disk, ImageRoom + 1, Tracks) /\ Tracks \in Nat /\ Tracks < 65536
  BY OnFloppy
<1>2. /\ disk.file[k] \in TableEntries
      /\ ClusterLBA(disk.file[k]) \in Nat
      /\ ReservedSector + FatSectors <= ClusterLBA(disk.file[k])
      /\ ClusterLBA(disk.file[k]) + SectorPerCluster <= Tracks
  BY <1>1, FileCluster
<1>3. \A c \in TableEntries : c \in Nat
  BY DEF TableEntries
<1> QED BY <1>2, <1>3

\* The table's word at the entry of a cluster of the file leads to the next.
LEMMA EntryThere ==
  ASSUME ImageInv, Fits, NEW k \in 1..Len(disk.file), TableAt(table, 0, FatSectors),
         NEW w \in Words(EntryOffset(disk.file[k]))
  PROVE  /\ k < Len(disk.file) => TwelveBits(disk.file[k], w) = disk.file[k + 1]
         /\ k = Len(disk.file) => TwelveBits(disk.file[k], w) >= LastCluster
         /\ TwelveBits(disk.file[k], w) \in TableEntries
<1> DEFINE c == disk.file[k]
           e == EntryOffset(c)
<1>1. disk \in Disks /\ DOMAIN table = 0..(TableCells - 1)
  BY DEF ImageInv
<1>2. DiskOK(disk, ImageRoom + 1, Tracks) /\ Len(disk.file) < ImageRoom + 1 /\ c \in Nat
  BY <1>1, OnFloppy, FitsRoom, ClusterThere
<1>3. /\ k < Len(disk.file) => disk.fat[c] = disk.file[k + 1]
      /\ k = Len(disk.file) => disk.fat[c] >= LastCluster
      /\ EntryStored(disk, c)
  BY <1>2, FileLinks
<1> HIDE DEF c
<1>4. \A b \in {e, e + 1} : b \div BytesPerSector \in 0..(FatSectors - 1)
  BY <1>2, <1>3, EntrySectors
<1> HIDE DEF e
<1>5. ASSUME NEW b \in {e, e + 1}
      PROVE  /\ b \div BytesPerSector \in DOMAIN table
             /\ table[b \div BytesPerSector] = ReservedSector + b \div BytesPerSector
  <2> DEFINE j == b \div BytesPerSector
  <2>1. j \in 0..(FatSectors - 1)
    BY <1>4
  <2> HIDE DEF j
  <2>2. j \in DOMAIN table
    BY <1>1, <2>1, OnFloppy, Sizes
  <2>3. table[0 + j] = ReservedSector + j /\ 0 + j = j
    BY <2>1, Sizes DEF TableAt
  <2> QED BY <2>2, <2>3 DEF j
<1>6. w = FatByte(disk.fat, e) + 256 * FatByte(disk.fat, e + 1)
  BY <1>5 DEF Words, c, e
<1>7. TwelveBits(c, w) = disk.fat[c]
  BY <1>2, <1>3, <1>6, EntryRead DEF EntryStored, e
<1>8. disk.fat[c] \in TableEntries
  <2>1. c = 2 * (c \div 2) \/ c = 2 * (c \div 2) + 1
    BY <1>2
  <2> QED BY <1>3, <2>1 DEF EntryStored
<1> QED BY <1>3, <1>7, <1>8 DEF c

-----------------------------------------------------------------------------
(* The steps of the first loader.                                          *)

\* The steps that read nothing.
LEMMA QuietImage ==
  ASSUME ImageInv, LOAD_ROOT \/ KeyPressed \/ Find \/ LOAD_FAT
  PROVE  ImageInv'
<1>1. UNCHANGED <<disk, image, table>>
  BY DEF LOAD_ROOT, KeyPressed, Find, LOAD_FAT, driveVars, memVars
<1> SUFFICES ASSUME Fits PROVE LoadingImage'
  BY <1>1 DEF ImageInv, Fits
<1>2. LoadingImage /\ disk \in Disks
  BY DEF ImageInv
<1>3. CASE LOAD_ROOT
  <2>1. pc' = "read" /\ return' = "key"
    BY <1>3 DEF LOAD_ROOT, ReadSectors
  <2> QED BY <2>1 DEF LoadingImage
<1>4. CASE KeyPressed
  <2>1. \/ pc = "key" /\ pc' = "find"
        \/ pc = "failure" /\ pc' = "int_19"
    BY <1>4 DEF KeyPressed
  <2>2. Listed' <=> Listed
    BY <1>1 DEF Listed
  <2> QED BY <1>2, <2>1, <2>2 DEF LoadingImage
<1>5. CASE Find
  <2>1. CASE Listed
    <3>1. pc' = "fat" /\ cluster' = disk.start
      BY <1>5, <2>1 DEF Find
    <3>2. disk.start = disk.file[1]
      BY <1>2, FitsRoom
    <3> QED BY <1>1, <3>1, <3>2 DEF LoadingImage
  <2>2. CASE ~Listed
    <3>1. pc' = "failure"
      BY <1>5, <2>2 DEF Find
    <3>2. ~Listed'
      BY <1>1, <2>2 DEF Listed
    <3> QED BY <3>1, <3>2 DEF LoadingImage
  <2> QED BY <2>1, <2>2
<1>6. CASE LOAD_FAT
  <2>1. /\ pc = "fat" /\ pc' = "read" /\ return' = "image" /\ lba' = ReservedSector
        /\ left' = FatSectors /\ bx' = 0 /\ at' = 0 /\ cluster' = cluster
    BY <1>6 DEF LOAD_FAT, ReadSectors, FatSectors
  <2>2. bx' + left' = FatSectors /\ lba' = ReservedSector + bx'
    BY <2>1, Sizes
  <2>3. TableAt(table', 0, bx')
    BY <2>1 DEF TableAt
  <2>4. cluster' = disk'.file[1]
    BY <1>1, <1>2, <2>1 DEF LoadingImage
  <2>5. InTable'
    BY <2>1, <2>2, <2>3, <2>4, Sizes DEF InTable
  <2> QED BY <2>1, <2>5 DEF LoadingImage
<1> QED BY <1>3, <1>4, <1>5, <1>6

LEMMA LoadImageImage ==
  ASSUME ImageInv, LOAD_IMAGE
  PROVE  ImageInv'
<1>1. /\ pc = "image" /\ pc' = "read" /\ return' = "next"
      /\ lba' = ClusterLBA(cluster) /\ left' = SectorPerCluster /\ bx' = at
      /\ UNCHANGED <<disk, image, table, cluster, at>>
  BY DEF LOAD_IMAGE, ReadSectors, driveVars, memVars
<1> SUFFICES ASSUME Fits PROVE LoadingImage'
  BY <1>1 DEF ImageInv, Fits
<1>2. disk \in Disks
  BY DEF ImageInv
<1>3. PICK k \in 1..Len(disk.file) : Before(k)
  BY <1>1 DEF ImageInv, LoadingImage
<1>4. /\ cluster = disk.file[k] /\ TableAt(table, 0, FatSectors)
      /\ at = (k - 1) * SectorPerCluster /\ FileAt(image, 0, disk.file, at)
  BY <1>3 DEF Before, Following
<1>5. at \in Nat /\ ClusterLBA(cluster) \in Nat
  <2>1. (k - 1) * SectorPerCluster + 0 \in Nat
    BY <1>2, InRoom, Sizes
  <2>2. (k - 1) * SectorPerCluster + 0 = (k - 1) * SectorPerCluster
    BY FitsRoom, Sizes, <1>2
  <2> QED BY <1>2, <1>4, <2>1, <2>2, ClusterThere
<1>6. Following(k)'
  BY <1>1, <1>4 DEF Following
<1>7. left' \in 1..SectorPerCluster /\ SectorPerCluster - left' = 0
  BY <1>1, Sizes
<1>8. bx' = (k - 1) * SectorPerCluster + (SectorPerCluster - left')
  BY <1>1, <1>4, <1>5, <1>7
<1>9. lba' = ClusterLBA(cluster') + (SectorPerCluster - left')
  BY <1>1, <1>5, <1>7
<1>10. FileAt(image', 0, disk'.file, bx')
  BY <1>1, <1>4
<1>11. InCluster(k)'
  BY <1>6, <1>7, <1>8, <1>9, <1>10 DEF InCluster
<1> QED BY <1>1, <1>11 DEF LoadingImage


\* A sector that is read goes behind what is there of the table, or of the file.
LEMMA TableImage ==
  ASSUME ImageInv, SectorRead, Fits, return = "image"
  PROVE  LoadingImage'
<1>1. /\ pc = "read" /\ table' = [table EXCEPT ![bx] = SectorAt(LBACHS(lba))]
      /\ lba' = (lba + 1) % WORD /\ left' = left - 1 /\ bx' = bx + 1
      /\ pc' = IF left = 1 THEN "image" ELSE "read"
      /\ UNCHANGED <<image, disk, return, cluster, at>>
  BY DEF SectorRead, Stored, driveVars
<1>2. /\ bx \in Nat /\ left \in Nat \ {0}
      /\ bx + left = FatSectors /\ lba = ReservedSector + bx
      /\ TableAt(table, 0, bx) /\ at = 0 /\ cluster = disk.file[1]
  BY <1>1 DEF ImageInv, LoadingImage, InTable
<1>3. /\ disk \in Disks /\ DOMAIN table = 0..(TableCells - 1)
      /\ DOMAIN image = 0..(ImageRoom - 1)
  BY DEF ImageInv
<1>4. 1 \in 1..Len(disk.file)
  BY <1>3, FitsRoom
<1>5. lba \in Nat /\ lba < Tracks /\ bx < FatSectors
  <2>1. /\ ClusterLBA(disk.file[1]) \in Nat
        /\ ReservedSector + FatSectors <= ClusterLBA(disk.file[1])
        /\ ClusterLBA(disk.file[1]) + SectorPerCluster <= Tracks
    BY <1>3, <1>4, ClusterThere
  <2> QED BY <1>2, <2>1, Sizes, OnFloppy
<1>6. SectorAt(LBACHS(lba)) = ReservedSector + bx /\ lba' = lba + 1
  BY <1>1, <1>2, <1>5, SectorThere
<1>7. TableAt(table', 0, bx + 1)
  <2>1. 0 + bx = bx /\ bx \in DOMAIN table
    BY <1>2, <1>3, <1>5, Sizes, OnFloppy
  <2>2. TableAt(table, 0, bx) /\ 0 + bx \in DOMAIN table
    BY <1>2, <2>1
  <2>3. table' = [table EXCEPT ![0 + bx] = ReservedSector + bx]
    BY <1>1, <1>6, <2>1
  <2> QED BY <1>2, <2>2, <2>3, TableGrown
<1>8. CASE left = 1
  <2>1. bx + 1 = FatSectors /\ pc' = "image"
    BY <1>1, <1>2, <1>8, Sizes
  <2>2. Following(1)'
    BY <1>1, <1>2, <1>7, <2>1 DEF Following
  <2>3. (1 - 1) * SectorPerCluster = 0
    BY Sizes
  <2>4. FileAt(image', 0, disk'.file, at')
    BY <1>1, <1>2, FileNone
  <2>5. Before(1)'
    BY <1>1, <1>2, <2>2, <2>3, <2>4 DEF Before
  <2> QED BY <1>1, <1>4, <2>1, <2>5 DEF LoadingImage
<1>9. CASE left # 1
  <2>1. left' \in Nat \ {0} /\ bx' \in Nat /\ bx' + left' = FatSectors
        /\ lba' = ReservedSector + bx'
    BY <1>1, <1>2, <1>6, <1>9, Sizes
  <2>2. TableAt(table', 0, bx')
    BY <1>1, <1>7
  <2>3. InTable'
    BY <1>1, <1>2, <2>1, <2>2 DEF InTable
  <2> QED BY <1>1, <1>9, <2>3 DEF LoadingImage
<1> QED BY <1>8, <1>9

LEMMA ClusterImage ==
  ASSUME ImageInv, SectorRead, Fits, return = "next"
  PROVE  LoadingImage'
<1>1. /\ pc = "read" /\ image' = [image EXCEPT ![bx] = SectorAt(LBACHS(lba))]
      /\ lba' = (lba + 1) % WORD /\ left' = left - 1 /\ bx' = bx + 1
      /\ pc' = IF left = 1 THEN "next" ELSE "read"
      /\ UNCHANGED <<table, disk, return, cluster, at>>
  BY DEF SectorRead, Stored, driveVars
<1>2. PICK k \in 1..Len(disk.file) : InCluster(k)
  BY <1>1 DEF ImageInv, LoadingImage
<1> DEFINE t == SectorPerCluster - left
           y == (k - 1) * SectorPerCluster
           z == k * SectorPerCluster
           c == disk.file[k]
<1>3. /\ cluster = c /\ TableAt(table, 0, FatSectors)
      /\ left \in 1..SectorPerCluster /\ bx = y + t /\ lba = ClusterLBA(c) + t
      /\ FileAt(image, 0, disk.file, y + t)
  BY <1>2 DEF InCluster, Following
<1>4. disk \in Disks /\ DOMAIN image = 0..(ImageRoom - 1)
  BY DEF ImageInv
<1>5. /\ left \in Nat /\ 1 <= left /\ left <= SectorPerCluster
      /\ t \in Nat /\ t < SectorPerCluster
  BY <1>3, Sizes
<1>6. /\ disk.file \in Seq(ClusterNumbers)
      /\ ClusterLBA(c) \in Nat /\ ClusterLBA(c) + SectorPerCluster <= Tracks
  BY <1>4, FitsRoom, ClusterThere
<1>7. y + t \in Nat /\ y + t \in DOMAIN image /\ z \in Nat
  BY <1>4, <1>5, InRoom
<1>8. y \in Nat /\ z = y + SectorPerCluster
  <2>1. k \in Nat /\ 1 <= k
    BY <1>4, FitsRoom
  <2> QED BY <2>1, Sizes
<1> HIDE DEF c, y
<1>9. SectorAt(LBACHS(lba)) = ClusterLBA(c) + t /\ lba' = lba + 1
  <2>1. lba \in Nat /\ lba < Tracks
    BY <1>3, <1>5, <1>6, Sizes, OnFloppy
  <2> QED BY <1>1, <1>3, <2>1, SectorThere
<1>10. FileAt(image', 0, disk.file, y + t + 1)
  <2>1. image' = [image EXCEPT ![bx] = ClusterLBA(c) + t]
    BY <1>1, <1>9
  <2>2. bx \in DOMAIN image /\ bx = 0 + (y + t)
    BY <1>3, <1>7
  <2> HIDE DEF t
  <2> QED BY <1>3, <1>5, <1>6, <2>1, <2>2, FileGrown DEF c, y
<1>11. Following(k)'
  BY <1>1, <1>3 DEF Following, c
<1> HIDE DEF z
<1>12. CASE left = 1
  <2>1. y + t + 1 = z /\ bx' = z
    BY <1>1, <1>3, <1>5, <1>8, <1>12, Sizes
  <2>2. FileAt(image', 0, disk'.file, bx')
    BY <1>1, <1>10, <2>1
  <2>3. Behind(k)'
    BY <1>11, <2>1, <2>2 DEF Behind, z
  <2> QED BY <1>1, <1>12, <2>3 DEF LoadingImage
<1>13. CASE left # 1
  <2>1. left' \in 1..SectorPerCluster /\ SectorPerCluster - left' = t + 1
    BY <1>1, <1>5, <1>13, Sizes
  <2>2. bx' = y + (SectorPerCluster - left') /\ bx' = y + t + 1
    BY <1>1, <1>3, <1>5, <1>8, <2>1
  <2>3. lba' = ClusterLBA(cluster') + (SectorPerCluster - left')
    BY <1>1, <1>3, <1>5, <1>6, <1>9, <2>1
  <2>4. FileAt(image', 0, disk'.file, bx')
    BY <1>1, <1>10, <2>2
  <2>5. InCluster(k)'
    BY <1>11, <2>1, <2>2, <2>3, <2>4 DEF InCluster, y
  <2> QED BY <1>1, <1>13, <2>5 DEF LoadingImage
<1> QED BY <1>12, <1>13

LEMMA ReadImage ==
  ASSUME ImageInv, SectorRead
  PROVE  ImageInv'
<1>1. /\ pc = "read" /\ pc' \in {return, "read"} /\ UNCHANGED <<disk, return>>
      /\ return # "next" => \E v : table' = [table EXCEPT ![bx] = v] /\ image' = image
      /\ return = "next" => \E v : image' = [image EXCEPT ![bx] = v] /\ table' = table
  BY DEF SectorRead, Stored, driveVars
<1>2. DOMAIN image' = DOMAIN image /\ DOMAIN table' = DOMAIN table
  BY <1>1
<1>3. ASSUME Fits PROVE LoadingImage'
  <2>1. return \in {"key", "image", "next"}
    BY <1>1, <1>3 DEF ImageInv, LoadingImage
  <2>2. CASE return = "key"
    BY <1>1, <2>2 DEF LoadingImage
  <2> QED BY <1>3, <2>1, <2>2, TableImage, ClusterImage
<1> QED BY <1>1, <1>2, <1>3 DEF ImageInv, Fits

\* A read that fails spoils only the place that it was for.
LEMMA FailImage ==
  ASSUME ImageInv, SectorFails
  PROVE  ImageInv'
<1>1. /\ pc = "read" /\ pc' \in {"int_18", "read"}
      /\ UNCHANGED <<disk, lba, left, bx, return, cluster, at>>
      /\ return # "next" => table' = [table EXCEPT ![bx] = Other] /\ image' = image
      /\ return = "next" => image' = [image EXCEPT ![bx] = Other] /\ table' = table
  BY DEF SectorFails, Stored
<1>2. DOMAIN image' = DOMAIN image /\ DOMAIN table' = DOMAIN table
  BY <1>1
<1>3. ASSUME Fits PROVE LoadingImage'
  <2>1. return \in {"key", "image", "next"} /\ disk \in Disks
    BY <1>1, <1>3 DEF ImageInv, LoadingImage
  <2>2. CASE return = "key"
    BY <1>1, <2>1, <2>2 DEF LoadingImage
  <2>3. CASE return = "image"
    <3>1. InTable
      BY <1>1, <1>3, <2>3 DEF ImageInv, LoadingImage
    <3>2. TableAt(table', 0, bx)
      <4>1. TableAt(table, 0, bx) /\ bx \in Nat /\ 0 + bx <= bx /\ bx \in Int
        BY <3>1 DEF InTable
      <4>2. table' = [table EXCEPT ![bx] = Other]
        BY <1>1, <2>3
      <4> QED BY <4>1, <4>2, TableKept
    <3>3. InTable'
      BY <1>1, <3>1, <3>2 DEF InTable
    <3> QED BY <1>1, <2>3, <3>3 DEF LoadingImage
  <2>4. CASE return = "next"
    <3>1. PICK k \in 1..Len(disk.file) : InCluster(k)
      BY <1>1, <1>3, <2>4 DEF ImageInv, LoadingImage
    <3>2. bx \in Nat
      <4>1. SectorPerCluster - left \in Nat /\ SectorPerCluster - left < SectorPerCluster
        BY <3>1, Sizes DEF InCluster
      <4>2. bx = (k - 1) * SectorPerCluster + (SectorPerCluster - left)
        BY <3>1 DEF InCluster
      <4> QED BY <1>3, <2>1, <4>1, <4>2, InRoom
    <3>3. FileAt(image', 0, disk.file, bx)
      <4>1. FileAt(image, 0, disk.file, bx) /\ 0 + bx <= bx /\ bx \in Int
        BY <3>1, <3>2 DEF InCluster
      <4>2. image' = [image EXCEPT ![bx] = Other]
        BY <1>1, <2>4
      <4> QED BY <3>2, <4>1, <4>2, FileKept
    <3>4. InCluster(k)'
      BY <1>1, <2>4, <3>1, <3>3 DEF InCluster, Following
    <3> QED BY <1>1, <2>4, <3>4 DEF LoadingImage
  <2> QED BY <2>1, <2>2, <2>3, <2>4
<1> QED BY <1>1, <1>2, <1>3 DEF ImageInv, Fits

\* A file that fits leaves no place behind the room to be read into.
LEMMA OverrunImage ==
  ASSUME ImageInv, Overrun
  PROVE  ImageInv'
<1>1. /\ pc = "read" /\ return = "next" /\ bx >= ImageRoom
      /\ UNCHANGED <<disk, image, table>>
  BY DEF Overrun, driveVars, memVars
<1>2. ASSUME Fits PROVE FALSE
  <2>1. PICK k \in 1..Len(disk.file) : InCluster(k)
    BY <1>1, <1>2 DEF ImageInv, LoadingImage
  <2>2. disk \in Disks
    BY DEF ImageInv
  <2>3. SectorPerCluster - left \in Nat /\ SectorPerCluster - left < SectorPerCluster
    BY <2>1, Sizes DEF InCluster
  <2>4. bx = (k - 1) * SectorPerCluster + (SectorPerCluster - left)
    BY <2>1 DEF InCluster
  <2>5. bx \in 0..(ImageRoom - 1)
    BY <1>2, <2>2, <2>3, <2>4, InRoom
  <2> QED BY <1>1, <2>5, OnFloppy
<1> QED BY <1>1, <1>2 DEF ImageInv, Fits

\* The table leads from a cluster of the file to the next, and from the last one
\* to the jump.
LEMMA NextImage ==
  ASSUME ImageInv, NextCluster
  PROVE  ImageInv'
<1>1. /\ pc = "next" /\ at' = bx /\ UNCHANGED <<disk, image, table, bx>>
      /\ pc' = IF cluster' < LastCluster THEN "image" ELSE "stage_2"
  BY DEF NextCluster, driveVars, memVars, readVars
<1>2. PICK w \in Words(EntryOffset(cluster)) : cluster' = TwelveBits(cluster, w)
  BY DEF NextCluster
<1> SUFFICES ASSUME Fits PROVE LoadingImage'
  BY <1>1 DEF ImageInv, Fits
<1>3. PICK k \in 1..Len(disk.file) : Behind(k)
  BY <1>1 DEF ImageInv, LoadingImage
<1>4. /\ cluster = disk.file[k] /\ TableAt(table, 0, FatSectors)
      /\ bx = k * SectorPerCluster /\ FileAt(image, 0, disk.file, bx)
  BY <1>3 DEF Behind, Following
<1>5. disk \in Disks
  BY DEF ImageInv
<1>6. Len(disk.file) \in Nat /\ k \in Nat /\ disk.file \in Seq(ClusterNumbers)
  BY <1>5, FitsRoom
<1>7. CASE k < Len(disk.file)
  <2>1. cluster' = disk.file[k + 1] /\ k + 1 \in 1..Len(disk.file)
    <3>1. w \in Words(EntryOffset(disk.file[k]))
      BY <1>4
    <3>2. TwelveBits(disk.file[k], w) = disk.file[k + 1]
      BY <1>4, <1>7, <3>1, EntryThere
    <3>3. k + 1 \in 1..Len(disk.file)
      BY <1>6, <1>7
    <3> QED BY <1>2, <1>4, <3>2, <3>3
  <2>2. cluster' \in ClusterNumbers
    BY <1>6, <2>1
  <2>3. pc' = "image"
    <3>1. cluster' < LastCluster
      BY <2>2 DEF ClusterNumbers, LastCluster
    <3> QED BY <1>1, <3>1
  <2>4. at' = ((k + 1) - 1) * SectorPerCluster
    BY <1>1, <1>4, <1>6
  <2>5. Before(k + 1)'
    BY <1>1, <1>4, <2>1, <2>4 DEF Before, Following
  <2> QED BY <1>1, <2>1, <2>3, <2>5 DEF LoadingImage
<1>8. CASE k = Len(disk.file)
  <2>1. cluster' >= LastCluster /\ cluster' \in TableEntries
    <3>1. w \in Words(EntryOffset(disk.file[k]))
      BY <1>4
    <3>2. /\ TwelveBits(disk.file[k], w) >= LastCluster
          /\ TwelveBits(disk.file[k], w) \in TableEntries
      BY <1>4, <1>8, <3>1, EntryThere
    <3> QED BY <1>2, <1>4, <3>2
  <2>2. pc' = "stage_2"
    BY <1>1, <2>1 DEF LastCluster, TableEntries
  <2>3. ASSUME NEW n \in 1..Len(disk.file), NEW s \in 0..(SectorPerCluster - 1)
        PROVE  image[(n - 1) * SectorPerCluster + s] = ClusterLBA(disk.file[n]) + s
    <3> DEFINE p == (n - 1) * SectorPerCluster + s
    <3>1. s \in Nat /\ s < SectorPerCluster
      BY Sizes
    <3>2. p \in Nat /\ p < n * SectorPerCluster
      BY <1>5, <3>1, InRoom
    <3>3. n * SectorPerCluster \in Nat /\ bx \in Nat /\ n * SectorPerCluster <= bx
      <4>1. n \in Nat /\ n <= k
        BY <1>6, <1>8
      <4> QED BY <1>4, <1>6, <4>1, Sizes
    <3>4. p < bx
      <4> HIDE DEF p
      <4> QED BY <3>2, <3>3
    <3>5. image[0 + p] = ClusterLBA(disk.file[n]) + s
      BY <1>4, <3>4 DEF FileAt
    <3>6. 0 + p = p
      <4> HIDE DEF p
      <4> QED BY <3>2
    <3> QED BY <3>5, <3>6
  <2>4. Whole'
    BY <1>1, <2>3 DEF Whole
  <2> QED BY <1>1, <2>2, <2>4 DEF LoadingImage
<1> QED BY <1>6, <1>7, <1>8

-----------------------------------------------------------------------------
(* The memory map over the image.                                          *)

\* What the BIOS and the count are stored in lies from the buffer on.
LEMMA SpoiltAfter ==
  ASSUME MapInv, MapMemory
  PROVE  \A s \in DOMAIN image :
           s < BufferByte \div BytesPerSector => image'[s] = image[s]
<1> SUFFICES ASSUME NEW s \in DOMAIN image, s < BufferByte \div BytesPerSector
             PROVE  image'[s] = image[s]
  OBVIOUS
<1>1. \A a, b \in Int : \A n \in Nat \ {0} : a <= b => a \div n <= b \div n
  OBVIOUS
<1>2. BufferByte \in Nat /\ CountByte \in Nat /\ EntryBytes \in Nat \ {0}
      /\ BytesPerSector \in Nat \ {0}
  BY LoaderAssumption, Fat12Assumption
<1>3. BufferByte <= CountByte
  <2>1. (CountByte - BufferByte) \div EntryBytes = CountSlot /\ CountSlot \in Nat
    BY LoaderAssumption, MemoryMapAssumption
  <2>2. \A a \in Int : \A n \in Nat \ {0} : a < 0 => a \div n < 0
    OBVIOUS
  <2> QED BY <1>2, <2>1, <2>2
<1>4. bp \in Nat /\ BufferByte + EntryBytes * bp \in Int
      /\ BufferByte <= BufferByte + EntryBytes * bp
  <2>1. bp \in Nat
    BY CountUpTo DEF MapInv, MapTyped
  <2>2. EntryBytes * bp \in Nat
    BY <1>2, <2>1
  <2> QED BY <1>2, <2>1, <2>2
<1>5. ASSUME NEW first \in Int, BufferByte <= first, NEW n PROVE s \notin Sectors(first, n)
  <2>1. BufferByte \div BytesPerSector <= first \div BytesPerSector
    BY <1>1, <1>2, <1>5
  <2>2. /\ BufferByte \div BytesPerSector \in Int /\ first \div BytesPerSector \in Int
    BY <1>2
  <2>3. s \in 0..(ImageRoom - 1) => ~(s >= first \div BytesPerSector)
    BY <2>1, <2>2
  <2> QED BY <2>3 DEF Sectors
<1>6. s \notin Sectors(BufferByte + EntryBytes * bp, EntryBytes)
  BY <1>4, <1>5
<1>7. s \notin Sectors(CountByte, 2)
  BY <1>2, <1>3, <1>5
<1> QED BY <1>6, <1>7 DEF MapMemory, Spoilt

LEMMA MapImage ==
  ASSUME ImageInv, MapInv, MapMemory
  PROVE  ImageInv'
<1>1. pc = "stage_2" /\ UNCHANGED <<pc, disk, table>>
  BY DEF MapMemory, driveVars
<1>2. DOMAIN image' = DOMAIN image
  BY DEF MapMemory, Spoilt
<1>3. ASSUME Fits PROVE Whole'
  <2>1. Whole /\ disk \in Disks /\ DOMAIN image = 0..(ImageRoom - 1)
    BY <1>1, <1>3 DEF ImageInv, LoadingImage
  <2>2. mappc' # "call"
    BY DEF MapMemory, BiosMemoryMap, CallBios, GetEntry, Carry, StoreCount
  <2>3. ASSUME NEW n \in 1..Len(disk.file), NEW s \in 0..(SectorPerCluster - 1),
               (n - 1) * SectorPerCluster + s < BufferByte \div BytesPerSector
        PROVE  image'[(n - 1) * SectorPerCluster + s] = ClusterLBA(disk.file[n]) + s
    <3>1. s \in Nat /\ s < SectorPerCluster
      BY Sizes
    <3>2. (n - 1) * SectorPerCluster + s \in DOMAIN image
      BY <1>3, <2>1, <3>1, InRoom
    <3>3. image[(n - 1) * SectorPerCluster + s] = ClusterLBA(disk.file[n]) + s
      BY <2>1, <2>3 DEF Whole
    <3> QED BY <2>3, <3>2, <3>3, SpoiltAfter
  <2> QED BY <1>1, <2>2, <2>3 DEF Whole
<1> QED BY <1>1, <1>2, <1>3 DEF ImageInv, LoadingImage, Fits

LEMMA InitImage == Init => ImageInv
<1> SUFFICES ASSUME Init PROVE ImageInv
  OBVIOUS
<1>1. /\ pc = "root" /\ disk \in Disks
      /\ DOMAIN image = 0..(ImageRoom - 1) /\ DOMAIN table = 0..(TableCells - 1)
  BY DEF Init, Boot1Init
<1> QED BY <1>1 DEF ImageInv, LoadingImage

LEMMA NextInImage == MapInv /\ ImageInv /\ [Next]_vars => ImageInv'
<1> SUFFICES ASSUME MapInv, ImageInv, [Next]_vars PROVE ImageInv'
  OBVIOUS
<1>1. CASE Boot1Step
  BY <1>1, QuietImage, LoadImageImage, ReadImage, FailImage, OverrunImage, NextImage
     DEF Boot1Step, Boot1Next
<1>2. CASE Key1
  BY <1>2, QuietImage DEF Key1
<1>3. CASE MapMemory
  BY <1>3, MapImage
<1>4. CASE EnableA20 \/ A20Hardware \/ Key2 \/ UNCHANGED vars
  <2>1. UNCHANGED <<boot1Vars, mapVars>>
    BY <1>4 DEF EnableA20, A20Hardware, Key2, vars
  <2>2. UNCHANGED <<pc, disk, image, table, lba, left, bx, return, cluster, at, mappc>>
    BY <2>1 DEF boot1Vars, mapVars, driveVars, memVars, readVars
  <2>3. LoadingImage' <=> LoadingImage
    BY <2>2 DEF LoadingImage, Listed, InTable, InCluster, Before, Behind, Following, Whole
  <2> QED BY <2>2, <2>3 DEF ImageInv, Fits
<1> QED BY <1>1, <1>2, <1>3, <1>4 DEF Next, Code

LEMMA ImageInductive == Spec => []ImageInv
<1>1. Init => MapInv
  BY InitMap DEF Init
<1> QED BY <1>1, InitImage, NextMap, NextInImage, PTL DEF Spec

\* A file that fits and is listed before the directory's last entries is found,
\* and no sector of it is read over the loader (boot1.asm:183-196, 238-269).
THEOREM FileIsFound == Spec => []FoundAndFits
<1>1. ImageInv => FoundAndFits
  <2> SUFFICES ASSUME ImageInv, Fits PROVE FoundAndFits
    BY DEF FoundAndFits
  <2>1. LoadingImage /\ disk \in Disks /\ disk.start # Absent
    BY DEF ImageInv, Fits
  <2>2. disk.index \in Int /\ RootEntries \in Int /\ EntriesBefore \in Int
    <3>1. disk.index \in 0..(RootEntries - 1)
      BY <2>1, OnFloppy DEF DiskOK
    <3> QED BY <3>1, Fat12Assumption DEF EntriesBefore
  <2>3. ~Listed => disk.index > RootEntries - 1 - EntriesBefore
    BY <2>1, <2>2 DEF Listed
  <2> QED BY <2>1, <2>3 DEF LoadingImage, FoundAndFits
<1> QED BY <1>1, ImageInductive, PTL

\* The second stage that runs is the file on the disk, sector for sector, up to
\* the memory map's buffer: each failed read is made good, each link of the table
\* followed, and the BIOS's entries spoil nothing in front of their buffer
\* (boot1.asm:53-75, 238-269, Stage2.asm:86-97).
THEOREM SecondStageIsTheFile == Spec => []Stage2IsTheFile
<1>1. ImageInv => Stage2IsTheFile
  BY DEF ImageInv, LoadingImage, Whole, Stage2IsTheFile
<1> QED BY <1>1, ImageInductive, PTL

-----------------------------------------------------------------------------
(* The end of the loaders.                                                 *)

\* What the processor or the controller waits for comes.
WaitInv ==
  /\ a20pc = 5 /\ output = << >> => input = Command("D0")
  /\ a20pc = 7 /\ input # << >> => output = << >>

\* Where the first loader is, and that the image's room is not used up by more
\* than is read into it.
RoomInv ==
  /\ pc \in {"root", "read", "key", "find", "fat", "image", "next", "stage_2",
             "failure", "int_18", "int_19", "overrun"}
  /\ at \in 0..ImageRoom
  /\ pc = "read" => /\ left \in Nat /\ 0 < left /\ di \in Nat /\ 0 < di
                    /\ return \in {"key", "image", "next"}
  /\ pc = "read" /\ return = "next" =>
       /\ left <= SectorPerCluster /\ bx = at + (SectorPerCluster - left)
       /\ left < SectorPerCluster => bx <= ImageRoom
  /\ pc = "next" => bx = at + SectorPerCluster /\ bx <= ImageRoom

LEMMA WaitKept == HandInv /\ WaitInv /\ [Next]_vars => WaitInv'
<1> SUFFICES ASSUME HandInv, WaitInv, [Next]_vars PROVE WaitInv'
  OBVIOUS
<1>1. ASSUME UNCHANGED a20Vars PROVE WaitInv'
  BY <1>1 DEF a20Vars, WaitInv
<1>2. CASE Boot1Step \/ Key1 \/ MapMemory \/ UNCHANGED vars
  BY <1>1, <1>2 DEF Boot1Step, Key1, MapMemory, vars
<1>3. CASE A20Start
  BY <1>3 DEF A20Start, WaitInv
<1>4. CASE Waited
  <2>1. a20pc' = a20pc + 1 /\ a20pc \in {1, 3, 5, 7, 9, 11, 13}
    BY <1>4, Places DEF Waited
  <2> QED BY <2>1 DEF WaitInv
<1>5. ASSUME NEW op \in A20Ops, Out(op) PROVE WaitInv'
  <2>1. a20pc' = a20pc + 1
    BY <1>5 DEF Out
  <2>2. \/ a20pc = 4 /\ input' = Command("D0")
        \/ a20pc \in {2, 8, 10, 12}
    BY <1>5, <2>1, Places DEF Out, A20Ops, Sent, Command
  <2> QED BY <2>1, <2>2 DEF WaitInv
<1>6. CASE ReadPort
  <2>1. A20At("read") /\ a20pc' = a20pc + 1 /\ output' = << >>
    BY <1>6 DEF ReadPort
  <2>2. a20pc = 6
    BY <2>1, Places
  <2> QED BY <2>1, <2>2 DEF WaitInv
<1>7. CASE A20Hardware
  <2>1. input # << >> /\ input' = << >> /\ a20pc' = a20pc
    BY <1>7 DEF A20Hardware, Controller
  <2>2. ASSUME a20pc = 5 PROVE output' # << >>
    <3>1. input[1].command = "D0"
      BY <2>1, <2>2 DEF HandInv, Pending, Command
    <3> QED BY <1>7, <3>1 DEF A20Hardware, Controller
  <2> QED BY <2>1, <2>2 DEF WaitInv
<1>8. CASE Key2
  <2>1. keys /\ a20pc' = a20pc /\ output' # << >> /\ input' = input
    BY <1>8 DEF Key2, Key
  <2>2. a20pc # 7
    BY <2>1 DEF HandInv, Enabled
  <2> QED BY <2>1, <2>2 DEF WaitInv
<1> QED BY <1>2, <1>3, <1>4, <1>5, <1>6, <1>7, <1>8 DEF Next, Code, EnableA20, A20Cpu

\* Whatever keys come, the processor that waits for the controller may go on, or
\* the controller may take what it was sent (A20.inc:5-57).
THEOREM NoWaitIsEndless == Spec => []NoEndlessWait
<1>1. Init => WaitInv
  BY DEF Init, A20Init, WaitInv
<1>2. HandInv /\ WaitInv => NoEndlessWait
  <2> SUFFICES ASSUME HandInv, WaitInv PROVE NoEndlessWait
    OBVIOUS
  <2>0. A20At("wait input") => a20pc \in {1, 3, 7, 9, 11, 13}
    BY Places
  <2>1. ASSUME a20pc \in {1, 3, 7, 9, 11, 13}, input # << >>, input[1].command = "D0"
        PROVE  output = << >>
    <3>2. CASE a20pc = 3
      <4>1. input = Command("AD")
        BY <2>1, <3>2 DEF HandInv, Pending
      <4>2. input[1].command = "AD"
        BY <4>1 DEF Command
      <4> QED BY <2>1, <4>2
    <3>3. CASE a20pc = 7
      BY <2>1, <3>3 DEF WaitInv
    <3>4. CASE a20pc = 9
      <4>1. input = Command("D1")
        BY <2>1, <3>4 DEF HandInv, Pending
      <4>2. input[1].command = "D1"
        BY <4>1 DEF Command
      <4> QED BY <2>1, <4>2
    <3>5. CASE a20pc = 11
      <4>1. input = Byte(al \cup {A20Bit})
        BY <2>1, <3>5 DEF HandInv, Pending
      <4>2. input[1].command = "none"
        BY <4>1 DEF Byte
      <4> QED BY <2>1, <4>2
    <3>6. CASE a20pc = 13
      <4>1. input = Command("AE")
        BY <2>1, <3>6 DEF HandInv, Pending
      <4>2. input[1].command = "AE"
        BY <4>1 DEF Command
      <4> QED BY <2>1, <4>2
    <3>7. CASE a20pc = 1
      BY <2>1, <3>7 DEF HandInv, Pending
    <3> QED BY <2>1, <3>2, <3>3, <3>4, <3>5, <3>6, <3>7
  <2>2. ASSUME A20At("wait output"), output = << >>
        PROVE  input # << >> /\ input[1].command = "D0"
    <3>1. input = Command("D0")
      BY <2>2, Places DEF WaitInv
    <3> QED BY <3>1 DEF Command
  <2>3. A20At("read") => output # << >>
    BY Places DEF HandInv
  <2> QED BY <2>0, <2>1, <2>2, <2>3 DEF NoEndlessWait
<1> QED BY <1>1, <1>2, WaitKept, HandInvariance, PTL DEF Spec

LEMMA ReadingRoom ==
  ASSUME RoomInv, UNCHANGED at, NEW sector, NEW n \in Nat, 0 < n, NEW place,
         NEW then \in {"key", "image"}, ReadSectors(sector, n, place, then)
  PROVE  RoomInv'
BY DEF RoomInv, ReadSectors

LEMMA RoomKept == RoomInv /\ [Next]_vars => RoomInv'
<1> SUFFICES ASSUME RoomInv, [Next]_vars PROVE RoomInv'
  OBVIOUS
<1>0. /\ ImageRoom \in Nat /\ at \in Nat /\ at <= ImageRoom
      /\ SectorPerCluster \in Nat /\ 0 < SectorPerCluster
      /\ RootSectors \in Nat /\ 0 < RootSectors
      /\ NumberOfFATs * SectorPerFAT \in Nat /\ 0 < NumberOfFATs * SectorPerFAT
  BY OnFloppy, Sizes DEF RoomInv, FatSectors
<1>1. CASE UNCHANGED <<pc, left, bx, di, return, at>>
  BY <1>1 DEF RoomInv
<1>2. CASE LOAD_ROOT
  BY <1>0, <1>2, ReadingRoom DEF LOAD_ROOT
<1>3. CASE LOAD_FAT
  BY <1>0, <1>3 DEF LOAD_FAT, ReadSectors, RoomInv
<1>4. CASE LOAD_IMAGE
  BY <1>0, <1>4 DEF LOAD_IMAGE, ReadSectors, RoomInv
<1>5. CASE KeyPressed \/ Find
  <2>1. pc' \in {"find", "int_19", "fat", "failure"} /\ at' = at
    BY <1>5 DEF KeyPressed, Find
  <2> QED BY <2>1 DEF RoomInv
<1>6. CASE NextCluster
  <2>1. pc = "next" /\ pc' \in {"image", "stage_2"} /\ at' = bx
    BY <1>6 DEF NextCluster
  <2> QED BY <1>0, <2>1 DEF RoomInv
<1>7. CASE SectorRead
  <2>1. /\ pc = "read" /\ UNCHANGED <<return, at>> /\ di' = 5
        /\ left' = left - 1 /\ bx' = bx + 1 /\ pc' = IF left = 1 THEN return ELSE "read"
        /\ return = "next" => bx < ImageRoom
    BY <1>7 DEF SectorRead
  <2>2. left \in Nat /\ 0 < left /\ return \in {"key", "image", "next"}
    BY <2>1 DEF RoomInv
  <2>3. return = "next" => /\ left <= SectorPerCluster
                           /\ bx' = at + (SectorPerCluster - left') /\ bx' <= ImageRoom
    BY <1>0, <2>1, <2>2 DEF RoomInv
  <2>4. CASE left = 1
    <3>1. return = "next" => bx' = at + SectorPerCluster
      BY <1>0, <2>1, <2>3, <2>4
    <3> QED BY <2>1, <2>2, <2>3, <2>4, <3>1 DEF RoomInv
  <2>5. CASE left # 1
    <3>1. left' \in Nat /\ 0 < left' /\ pc' = "read" /\ di' \in Nat /\ 0 < di'
      BY <2>1, <2>2, <2>5
    <3>2. return = "next" => left' <= SectorPerCluster
      BY <1>0, <2>1, <2>2, <2>3
    <3> QED BY <2>1, <2>2, <2>3, <3>1, <3>2 DEF RoomInv
  <2> QED BY <2>4, <2>5
<1>8. CASE SectorFails
  <2>1. /\ pc = "read" /\ UNCHANGED <<left, bx, return, at>> /\ di' = di - 1
        /\ pc' = IF di = 1 THEN "int_18" ELSE "read"
    BY <1>8 DEF SectorFails
  <2> QED BY <2>1 DEF RoomInv
<1>9. CASE Overrun
  BY <1>9 DEF Overrun, RoomInv
<1>10. CASE EnableA20 \/ A20Hardware \/ MapMemory \/ Key2 \/ UNCHANGED vars
  BY <1>1, <1>10 DEF EnableA20, A20Hardware, MapMemory, Key2, vars, boot1Vars, readVars
<1> QED BY <1>2, <1>3, <1>4, <1>5, <1>6, <1>7, <1>8, <1>9, <1>10
        DEF Next, Code, Boot1Step, Boot1Next, Key1

\* The stages, one by one.
LEMMA Ranks ==
  /\ DOMAIN Stages = {"root", "key", "find", "fat", "image", "next", "stage_2", "failure"}
  /\ Stages["root"] = 6 /\ Stages["key"] = 5 /\ Stages["find"] = 4 /\ Stages["fat"] = 3
  /\ Stages["image"] = 2 /\ Stages["next"] = 2
  /\ Stages["stage_2"] = 1 /\ Stages["failure"] = 1
BY DEF Stages

LEMMA MapRanks ==
  /\ MapStages["call"] = 3 /\ MapStages["get"] = 2 /\ MapStages["count"] = 1
  /\ MapStages["done"] = 0
BY DEF MapStages

\* What the loaders have left is nine numbers.
Measured ==
  /\ Left \in Numbers(9)
  /\ Left[1] = IF Towards \in DOMAIN Stages THEN Stages[Towards] ELSE 0
  /\ Left[2] = ImageRoom - at
  /\ Left[3] = IF Towards = "image" THEN 1 ELSE 0
  /\ Left[4] = IF pc = "read" THEN left ELSE 0
  /\ Left[5] = IF pc = "read" THEN di ELSE 0
  /\ Left[6] = 14 - a20pc
  /\ Left[7] = Len(input)
  /\ Left[8] = MapStages[mappc]
  /\ Left[9] = Len(list) - ebx

\* One byte at most is in the controller's input buffer.
LEMMA InputLength ==
  ASSUME HandInv PROVE Len(input) \in Nat /\ (input = << >> <=> Len(input) = 0)
BY DEF HandInv, Pending, Command, Byte

LEMMA IsMeasured == HandInv /\ MapInv /\ RoomInv => Measured
<1> SUFFICES ASSUME HandInv, MapInv, RoomInv PROVE Measured
  OBVIOUS
<1> DEFINE l1 == IF Towards \in DOMAIN Stages THEN Stages[Towards] ELSE 0
           l2 == ImageRoom - at
           l3 == IF Towards = "image" THEN 1 ELSE 0
           l4 == IF pc = "read" THEN left ELSE 0
           l5 == IF pc = "read" THEN di ELSE 0
           l6 == Len(Sequence) + 1 - a20pc
           l7 == Len(input)
           l8 == MapStages[mappc]
           l9 == Len(list) - ebx
<1>1. l1 \in Nat /\ l3 \in Nat
  BY Ranks
<1>2. l2 \in Nat
  BY OnFloppy DEF RoomInv
<1>3. l4 \in Nat /\ l5 \in Nat
  BY DEF RoomInv
<1>4. l6 \in Nat /\ l6 = 14 - a20pc
  BY Last DEF HandInv, HandTypes
<1>5. l7 \in Nat
  BY InputLength
<1>6. l8 \in Nat
  BY MapRanks DEF MapInv, MapTyped
<1>7. l9 \in Nat
  <2>1. Len(list) \in Nat /\ ebx \in 0..Len(list)
    BY DEF MapInv, MapTyped
  <2> QED BY <2>1
<1>8. Left = <<l1, l2, l3, l4, l5, l6, l7, l8, l9>>
  BY DEF Left
<1> HIDE DEF l1, l2, l3, l4, l5, l6, l7, l8, l9
<1>9. /\ Left \in Numbers(9) /\ Left[1] = l1 /\ Left[2] = l2 /\ Left[3] = l3 /\ Left[4] = l4
      /\ Left[5] = l5 /\ Left[6] = l6 /\ Left[7] = l7 /\ Left[8] = l8 /\ Left[9] = l9
  BY <1>1, <1>2, <1>3, <1>4, <1>5, <1>6, <1>7, <1>8 DEF Numbers
<1> QED BY <1>4, <1>9 DEF Measured, l1, l2, l3, l4, l5, l7, l8, l9

LEMMA MeasuredNext == HandInv' /\ MapInv' /\ RoomInv' => Measured'
BY IsMeasured, PTL

LEMMA StepsShorten ==
  /\ HandInv /\ MapInv /\ RoomInv /\ HandInv' /\ MapInv' /\ RoomInv' /\ [Next]_vars
  => [/\ Left' \in Numbers(9)
      /\ Code \/ Key1 \/ A20Hardware => Falls(Left', Left)
      /\ Key2 => Left' = Left]_vars
<1> SUFFICES ASSUME HandInv, MapInv, RoomInv, HandInv', MapInv', RoomInv', Next
             PROVE  /\ Left' \in Numbers(9)
                    /\ Code \/ Key1 \/ A20Hardware => Falls(Left', Left)
                    /\ Key2 => Left' = Left
  OBVIOUS
<1>1. Measured /\ Measured'
  BY IsMeasured, MeasuredNext
<1>2. Left \in Numbers(9) /\ Left' \in Numbers(9)
  BY <1>1 DEF Measured
<1>3. ASSUME NEW i \in 1..9, Left'[i] < Left[i], \A j \in 1..(i - 1) : Left'[j] = Left[j]
      PROVE  Falls(Left', Left)
  BY <1>2, <1>3, FirstFalls
<1> DEFINE Same(i) == Left'[i] = Left[i]
<1>4. UNCHANGED boot1Vars => Same(1) /\ Same(2) /\ Same(3) /\ Same(4) /\ Same(5)
  BY <1>1 DEF boot1Vars, readVars, Measured, Towards
<1>5. UNCHANGED a20Vars => Same(6) /\ Same(7)
  BY <1>1 DEF a20Vars, Measured
<1>6. ASSUME Key2 PROVE Left' = Left
  <2>1. UNCHANGED <<pc, return, at, left, di, a20pc, input, mappc, list, ebx>>
    BY <1>6 DEF Key2, Key, boot1Vars, readVars, mapVars
  <2> QED BY <2>1 DEF Left, Towards
<1>7. ASSUME A20Hardware PROVE Falls(Left', Left)
  <2>1. UNCHANGED boot1Vars /\ a20pc' = a20pc /\ input # << >> /\ input' = << >>
    BY <1>7 DEF A20Hardware, Controller
  <2>2. Left[7] > 0 /\ Left'[7] = 0
    <3>1. Len(input) \in Nat /\ Len(input) # 0
      BY <2>1, InputLength
    <3>2. Len(<< >>) = 0
      OBVIOUS
    <3> QED BY <1>1, <2>1, <3>1, <3>2 DEF Measured
  <2>3. Same(6)
    BY <1>1, <2>1 DEF Measured
  <2> QED BY <1>3, <1>4, <2>1, <2>2, <2>3
<1>8. ASSUME EnableA20 PROVE Falls(Left', Left)
  <2>1. UNCHANGED boot1Vars
    BY <1>8 DEF EnableA20
  <2>2. CASE Waited
    <3>1. a20pc' = a20pc + 1
      BY <2>2, Zenon DEF Waited
    <3>2. Left'[6] < Left[6]
      BY <1>1, <3>1 DEF Measured, HandInv, HandTypes
    <3> QED BY <1>3, <1>4, <2>1, <3>2
  <2>3. CASE ~Waited
    <3>1. a20pc' = a20pc + 1
      BY <1>8, <2>3 DEF EnableA20, A20Cpu, A20Start, Out, ReadPort
    <3>2. Left'[6] < Left[6]
      BY <1>1, <3>1 DEF Measured, HandInv, HandTypes
    <3> QED BY <1>3, <1>4, <2>1, <3>2
  <2> QED BY <2>2, <2>3
<1>9. ASSUME MapMemory PROVE Falls(Left', Left)
  <2>1. UNCHANGED <<pc, return, at, left, di, a20Vars>> /\ BiosMemoryMap
    BY <1>9 DEF MapMemory, readVars
  <2>2. Same(1) /\ Same(2) /\ Same(3) /\ Same(4) /\ Same(5) /\ Same(6) /\ Same(7)
    BY <1>1, <1>5, <2>1 DEF Measured, Towards
  <2>3. Left'[8] < Left[8] => Falls(Left', Left)
    BY <1>3, <2>2
  <2>4. Same(8) /\ Left'[9] < Left[9] => Falls(Left', Left)
    BY <1>3, <2>2
  <2>5. CASE CallBios
    BY <1>1, <2>3, <2>5, MapRanks DEF CallBios, Measured
  <2>6. CASE GetEntry
    <3>1. /\ mappc = "get" /\ mappc' \in {"get", "count"} /\ list' = list
          /\ ebx' = ebx + 1
      BY <2>6 DEF GetEntry
    <3>2. Len(list) \in Nat /\ ebx \in 0..Len(list)
      BY DEF MapInv, MapTyped
    <3>3. Left'[9] < Left[9]
      BY <1>1, <3>1, <3>2 DEF Measured
    <3>4. mappc' = "get" => Same(8)
      BY <1>1, <3>1 DEF Measured
    <3>5. mappc' = "count" => Left'[8] < Left[8]
      BY <1>1, <3>1, MapRanks DEF Measured
    <3> QED BY <2>3, <2>4, <3>1, <3>3, <3>4, <3>5
  <2>7. CASE Carry
    BY <1>1, <2>3, <2>7, MapRanks DEF Carry, Measured
  <2>8. CASE StoreCount
    BY <1>1, <2>3, <2>8, MapRanks DEF StoreCount, Measured
  <2> QED BY <2>1, <2>5, <2>6, <2>7, <2>8 DEF BiosMemoryMap
<1>10. Left'[1] < Left[1] => Falls(Left', Left)
  BY <1>3
<1>11. Same(1) /\ Left'[2] < Left[2] => Falls(Left', Left)
  BY <1>3
<1>12. Same(1) /\ Same(2) /\ Left'[3] < Left[3] => Falls(Left', Left)
  BY <1>3
<1>13. Same(1) /\ Same(2) /\ Same(3) /\ Left'[4] < Left[4] => Falls(Left', Left)
  BY <1>3
<1>14. Same(1) /\ Same(2) /\ Same(3) /\ Same(4) /\ Left'[5] < Left[5]
         => Falls(Left', Left)
  BY <1>3
<1>15. ASSUME Key1 PROVE Falls(Left', Left)
  <2>1. \/ pc = "key" /\ pc' = "find"
        \/ pc = "failure" /\ pc' = "int_19"
    BY <1>15 DEF Key1, KeyPressed
  <2> QED BY <1>1, <1>10, <2>1, Ranks DEF Measured, Towards
<1>16. ASSUME LOAD_ROOT PROVE Falls(Left', Left)
  <2>1. pc = "root" /\ pc' = "read" /\ return' = "key"
    BY <1>16 DEF LOAD_ROOT, ReadSectors
  <2> QED BY <1>1, <1>10, <2>1, Ranks DEF Measured, Towards
<1>17. ASSUME Find PROVE Falls(Left', Left)
  <2>1. pc = "find" /\ pc' \in {"fat", "failure"}
    BY <1>17 DEF Find
  <2> QED BY <1>1, <1>10, <2>1, Ranks DEF Measured, Towards
<1>18. ASSUME LOAD_FAT PROVE Falls(Left', Left)
  <2>1. pc = "fat" /\ pc' = "read" /\ return' = "image"
    BY <1>18 DEF LOAD_FAT, ReadSectors
  <2> QED BY <1>1, <1>10, <2>1, Ranks DEF Measured, Towards
<1>19. ASSUME LOAD_IMAGE PROVE Falls(Left', Left)
  <2>1. pc = "image" /\ pc' = "read" /\ return' = "next" /\ at' = at
    BY <1>19 DEF LOAD_IMAGE, ReadSectors
  <2>2. Same(1) /\ Same(2) /\ Left'[3] < Left[3]
    BY <1>1, <2>1, Ranks DEF Measured, Towards
  <2> QED BY <1>12, <2>2
<1>20. ASSUME NextCluster PROVE Falls(Left', Left)
  <2>1. pc = "next" /\ pc' \in {"image", "stage_2"} /\ at' = bx
    BY <1>20 DEF NextCluster
  <2>2. pc' = "stage_2" => Left'[1] < Left[1]
    BY <1>1, <2>1, Ranks DEF Measured, Towards
  <2>3. pc' = "image" => Same(1)
    BY <1>1, <2>1, Ranks DEF Measured, Towards
  <2>4. Left'[2] < Left[2]
    <3>1. at \in 0..ImageRoom /\ bx = at + SectorPerCluster
      BY <2>1 DEF RoomInv
    <3> QED BY <1>1, <2>1, <3>1, OnFloppy, Sizes DEF Measured
  <2> QED BY <1>10, <1>11, <2>1, <2>2, <2>3, <2>4
<1>21. pc = "read" => /\ left \in Nat /\ 0 < left /\ di \in Nat /\ 0 < di
                      /\ return \in {"key", "image", "next"}
  BY DEF RoomInv
<1>22. ASSUME SectorRead PROVE Falls(Left', Left)
  <2>1. /\ pc = "read" /\ UNCHANGED <<return, at>> /\ left' = left - 1
        /\ pc' = IF left = 1 THEN return ELSE "read"
    BY <1>22 DEF SectorRead
  <2>2. Towards' = Towards
    BY <1>21, <2>1 DEF Towards
  <2>3. Same(1) /\ Same(2) /\ Same(3)
    BY <1>1, <2>1, <2>2 DEF Measured
  <2>4. Left'[4] < Left[4]
    BY <1>1, <1>21, <2>1 DEF Measured
  <2> QED BY <1>13, <2>3, <2>4
<1>23. pc = "read" => Left[1] > 0
  BY <1>1, <1>21, Ranks DEF Measured, Towards
<1>24. ASSUME SectorFails PROVE Falls(Left', Left)
  <2>1. /\ pc = "read" /\ UNCHANGED <<left, return, at>> /\ di' = di - 1
        /\ pc' = IF di = 1 THEN "int_18" ELSE "read"
    BY <1>24 DEF SectorFails
  <2>2. CASE di = 1
    <3>1. Left'[1] = 0
      BY <1>1, <2>1, <2>2, Ranks DEF Measured, Towards
    <3> QED BY <1>10, <1>23, <2>1, <3>1
  <2>3. CASE di # 1
    <3>1. Same(1) /\ Same(2) /\ Same(3)
      BY <1>1, <2>1, <2>3 DEF Measured, Towards
    <3>2. Same(4) /\ Left'[5] < Left[5]
      BY <1>1, <1>21, <2>1, <2>3 DEF Measured
    <3> QED BY <1>14, <3>1, <3>2
  <2> QED BY <2>2, <2>3
<1>25. ASSUME Overrun PROVE Falls(Left', Left)
  <2>1. pc = "read" /\ pc' = "overrun"
    BY <1>25 DEF Overrun
  <2>2. Left'[1] = 0
    BY <1>1, <2>1, Ranks DEF Measured, Towards
  <2> QED BY <1>10, <1>23, <2>1, <2>2
<1> QED BY <1>2, <1>6, <1>7, <1>8, <1>9, <1>15, <1>16, <1>17, <1>18, <1>19, <1>20, <1>22,
           <1>24, <1>25 DEF Code, Boot1Step, Boot1Next

\* Each step of the loaders, of the controller and of the key they wait for
\* shortens what is left, whatever the disk, the reads that fail and the keys that
\* come: the loaders end (NoEndlessFall), on a disk with an endless chain too
\* (boot1.asm:52-75, 238-269, A20.inc:45-57, Memory.inc:26-51).
THEOREM LoadersGetShorter == Spec => LoadersShorten
<1>1. Init => RoomInv
  BY OnFloppy DEF Init, Boot1Init, RoomInv
<1>2. Init => MapInv
  BY InitMap DEF Init
<1>3. Spec => []RoomInv
  BY <1>1, RoomKept, PTL DEF Spec
<1>4. Spec => []MapInv
  BY <1>2, NextMap, PTL DEF Spec
<1> QED BY <1>3, <1>4, HandInvariance, StepsShorten, PTL DEF Spec, LoadersShorten
=============================================================================
