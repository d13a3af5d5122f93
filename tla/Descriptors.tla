------------------------------ MODULE Descriptors ------------------------------
(***************************************************************************)
(* What the kernel's tables for the processor hold, and how the processor  *)
(* reads them: the segment descriptors of SysCore/Hal/gdt.cpp, the         *)
(* interrupt gates of idt.cpp, with the divisor and the bytes that pit.cpp *)
(* gives the timer.  Addresses are numbers of eight digits of base NIBBLE; *)
(* flags are sets of names.                                                *)
(***************************************************************************)
EXTENDS Integers

CONSTANT NIBBLE   \* 16 in the build

ASSUME DescriptorsAssumption == NIBBLE \in Nat /\ NIBBLE > 1

BYTE == NIBBLE * NIBBLE
WORD == BYTE * BYTE
UINT32 == WORD * WORD
PAGE == NIBBLE * BYTE

-----------------------------------------------------------------------------
(* Segments.                                                               *)

Code == {"memory", "codedata", "exec", "readwrite"}   \* 0x9a
Data == {"memory", "codedata", "readwrite"}           \* 0x92
Flat == {"4k", "32bit"}                               \* 0xc0

\* Mutant: the upper four bits of the limit are not stored.
gdt_set_descriptorShort(base, limit, access, grand) ==
  [limit |-> limit % WORD, baseLo |-> base % WORD,
   baseMid |-> (base \div WORD) % BYTE, baseHi |-> (base \div (WORD * BYTE)) % BYTE,
   flags |-> access, limitHi |-> 0, grand |-> grand]

\* limitHi and grand are the two halves of the byte `grand'.
gdt_set_descriptor(base, limit, access, grand) ==
  [limit |-> limit % WORD, baseLo |-> base % WORD,
   baseMid |-> (base \div WORD) % BYTE, baseHi |-> (base \div (WORD * BYTE)) % BYTE,
   flags |-> access, limitHi |-> (limit \div WORD) % NIBBLE, grand |-> grand]

\* The segment the processor makes of a descriptor: its first address, how many
\* follow it, and what it is.
SegmentBase(d) == d.baseLo + (WORD * (d.baseMid + (BYTE * d.baseHi)))
SegmentUnits(d) == d.limit + (WORD * d.limitHi) + 1
Segment(d) ==
  [base |-> SegmentBase(d),
   size |-> IF "4k" \in d.grand THEN SegmentUnits(d) * PAGE ELSE SegmentUnits(d),
   kind |-> d.flags, wide |-> "32bit" \in d.grand]

\* The loader's descriptors, gdt.inc, and the kernel's.
Null == gdt_set_descriptor(0, 0, {}, {})
gdt_data ==
  LET Described(access) == [limit |-> WORD - 1, baseLo |-> 0, baseMid |-> 0, baseHi |-> 0,
                            flags |-> access, limitHi |-> NIBBLE - 1, grand |-> Flat]
  IN  [i \in 0..2 |-> IF i = 0 THEN Null ELSE Described(IF i = 1 THEN Code ELSE Data)]
i86_gdt_initialize ==
  [i \in 0..2 |-> IF i = 0 THEN Null
                  ELSE gdt_set_descriptor(0, UINT32 - 1, IF i = 1 THEN Code ELSE Data, Flat)]

-----------------------------------------------------------------------------
(* Gates.                                                                  *)

\* Mutant: the halves of the address swapped.
idt_descriptorSwapped(handler, sel, flags) ==
  [baseLo |-> handler \div WORD, baseHi |-> handler % WORD, sel |-> sel, flags |-> flags]

idt_descriptor(handler, sel, flags) ==
  [baseLo |-> handler % WORD, baseHi |-> handler \div WORD, sel |-> sel, flags |-> flags]
Gate(handler) == idt_descriptor(handler, 8, {"present", "bit32"})

\* `desc->baseLo | (desc->baseHi << 16)', and where the processor goes.
getvect(gate) == gate.baseLo + (WORD * gate.baseHi)

-----------------------------------------------------------------------------
(* The timer's divisor.                                                    *)

Clock == 1193181

\* uint16_t(1193181 / (uint16_t) freq)
Divisor(freq) == (Clock \div (freq % 65536)) % 65536
LowByte(divisor) == divisor % 256
HighByte(divisor) == (divisor \div 256) % 256

\* The divisor whose rate is the closest that is not below the one asked for.
IsDivisor(d, freq) == d * freq <= Clock /\ Clock < (d + 1) * freq
=============================================================================
