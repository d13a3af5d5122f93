---------------------------------- MODULE A20 ----------------------------------
(***************************************************************************)
(* EnableA20_KKbrd_Out (SysBoot/Stage2/A20.inc): the processor sets a bit  *)
(* of the keyboard controller's output port, by way of the controller's    *)
(* one-byte buffers, while keys may be pressed.  The controller is the     *)
(* hardware's; it takes the bytes it is sent in its own time, and answers  *)
(* when its output buffer is free.                                         *)
(***************************************************************************)
EXTENDS Integers, Sequences

CONSTANTS
  PortBits,  \* the bits of the output port, A20Bit and the one that holds reset off
  A20Bit,
  ScanCodes  \* the bytes a key may send, as sets of bits

ASSUME A20Assumption == A20Bit \in PortBits /\ ScanCodes \subseteq SUBSET PortBits

VARIABLES
  a20pc,     \* the processor's place in Sequence; 0 before it starts
  input,     \* the controller's input buffer: << >> or what was sent to a port
  output,    \* its output buffer
  port,      \* its output port
  before,    \* history: the port's bits at the start
  keys,      \* the keyboard is enabled
  writing,   \* the next byte is for the output port
  al,        \* the byte read and pushed
  stale      \* history: a key was in the buffer when the port was asked for

a20Vars == <<a20pc, input, output, port, before, keys, writing, al, stale>>

\* Mutant: the processor does not wait before the byte for the port.
SequenceNoWait == <<"wait input", "AD", "wait input", "D0", "wait output", "read",
                    "wait input", "D1", "data", "wait input", "AE", "wait input">>

\* Mutant: it waits for the port's value before it has asked for it.
SequenceWaitsEarly == <<"wait input", "AD", "wait output", "D0", "wait input", "read",
                        "wait input", "D1", "wait input", "data", "wait input", "AE",
                        "wait input">>

\* Mutant: the keyboard stays enabled.
SequenceKeysOn == <<"wait input", "D0", "wait output", "read", "wait input", "D1",
                    "wait input", "data", "wait input", "AE", "wait input">>

\* The calls of wait_input and wait_output, and the `in's and `out's.
Sequence == <<"wait input", "AD", "wait input", "D0", "wait output", "read",
              "wait input", "D1", "wait input", "data", "wait input", "AE", "wait input">>
A20At(op) == a20pc \in DOMAIN Sequence /\ Sequence[a20pc] = op
A20Done == a20pc > Len(Sequence)

A20Init ==
  /\ a20pc = 0
  /\ input = << >> /\ output = << >>
  /\ port = {} /\ before = {}
  /\ keys = TRUE /\ writing = FALSE
  /\ al = {} /\ stale = FALSE

\* cli, with the gate shut: from here on no handler takes a key out of the buffer.
A20Start ==
  /\ a20pc = 0
  /\ a20pc' = 1
  /\ port' \in SUBSET (PortBits \ {A20Bit}) /\ before' = port'
  /\ UNCHANGED <<input, output, keys, writing, al, stale>>

Waited ==
  /\ \/ A20At("wait input") /\ input = << >>
     \/ A20At("wait output") /\ output # << >>
  /\ a20pc' = a20pc + 1
  /\ UNCHANGED <<input, output, port, before, keys, writing, al, stale>>

\* Commands go to port 0x64, the byte to port 0x60.
Sent(op, byte) == IF op = "data" THEN <<[command |-> "none", byte |-> byte]>>
                  ELSE <<[command |-> op, byte |-> {}]>>

\* Mutant: the byte that was read is written back as it was.
OutPlain(op) ==
  /\ A20At(op)
  /\ input' = Sent(op, al)
  /\ a20pc' = a20pc + 1
  /\ UNCHANGED <<output, port, before, keys, writing, al, stale>>

\* `out 0x64, al', and `or eax, 2; out 0x60, al'.
Out(op) ==
  /\ A20At(op)
  /\ input' = Sent(op, al \cup {A20Bit})
  /\ a20pc' = a20pc + 1
  /\ UNCHANGED <<output, port, before, keys, writing, al, stale>>

ReadPort ==
  /\ A20At("read")
  /\ al' = output[1] /\ output' = << >>
  /\ a20pc' = a20pc + 1
  /\ UNCHANGED <<input, port, before, keys, writing, stale>>

\* The controller takes a command or a byte.
Controller ==
  /\ input # << >>
  /\ LET command == input[1].command
     IN  /\ command = "D0" => output = << >>
         /\ keys' = (command = "AE" \/ (keys /\ command # "AD"))
         /\ output' = IF command = "D0" THEN <<port>> ELSE output
         /\ writing' = (command = "D1")
         /\ port' = IF command = "none" /\ writing THEN input[1].byte ELSE port
  /\ input' = << >>
  /\ UNCHANGED <<a20pc, before, al, stale>>

\* A key; before cli the BIOS takes its code out of the buffer at once.
Reads == {n \in DOMAIN Sequence : Sequence[n] = "read"}
Key(code) ==
  /\ a20pc > 0 /\ ~A20Done /\ keys /\ output = << >>
  /\ output' = <<code>>
  /\ stale' = (stale \/ \A n \in Reads : a20pc <= n)
  /\ UNCHANGED <<a20pc, input, port, before, keys, writing, al>>

A20Ops == {"AD", "D0", "D1", "data", "AE"}
A20Cpu == A20Start \/ Waited \/ (\E op \in A20Ops : Out(op)) \/ ReadPort
-----------------------------------------------------------------------------
\* Of the port only the A20 bit changes -- the bit that holds the processor's
\* reset does not -- unless a key came after `cli' and before the keyboard was
\* disabled, whose code is then taken for the port's value (A20.inc:5-42).
OnlyA20Changes ==
  /\ port \in {before, before \cup {A20Bit}} \/ stale
  /\ A20Done /\ ~stale => A20Bit \in port /\ keys

\* The processor never writes to a buffer the controller has not emptied
\* (A20.inc:7-37, 45-49).
NothingWrittenOver ==
  [][input' # input /\ input' # << >> => input = << >>]_a20Vars
=============================================================================
