---------------------------------- MODULE Hal ----------------------------------
(***************************************************************************)
(* hal_initialize (SysCore/Hal/Hal.cpp) statement by statement: the tables *)
(* of gdt.cpp and idt.cpp, and every byte that pic.cpp and pit.cpp write   *)
(* to a port; then kernel code that calls setvect and                      *)
(* i86_pit_start_counter while interrupts come.  The two 8259s, the 8253   *)
(* and the way the processor enters a gate are the hardware's: they take   *)
(* the bytes in the order in which their registers expect them.            *)
(***************************************************************************)
EXTENDS Descriptors, Sequences

CONSTANTS
  MaxInterrupts,   \* I86_MAX_INTERRUPTS: 256
  DefaultHandler,  \* the address of i86_default_handler
  PitHandler,      \* of i86_pit_irq
  Handlers,        \* what kernel code passes to setvect; 0 is a null pointer
  Vectors,         \* the vectors it passes
  Rates,           \* the frequencies it passes to i86_pit_start_counter
  Lines,           \* the lines that are raised
  BiosMasks        \* what the BIOS left in the mask of a controller

ASSUME HalAssumption ==
  /\ MaxInterrupts \in 48..256
  /\ {DefaultHandler, PitHandler} \subseteq 1..(UINT32 - 1) /\ DefaultHandler # PitHandler
  /\ Handlers \subseteq 0..(UINT32 - 1) /\ Vectors \subseteq Nat
  /\ Rates \subseteq Nat /\ Lines \subseteq 0..15 /\ BiosMasks \subseteq 0..255

Main == -1
Nowhere == -2

VARIABLES
  todo,   \* the statements that are left of the call
  gdt,    \* the table in force, the loader's or _gdt
  cs, ds, \* the segments the processor has loaded
  idt,    \* _idt; the last place is what lies behind it
  stored, \* how many of its five stores i86_install_ir has done
  lidt,   \* _idt is in force
  flag,   \* the interrupt flag
  where,  \* the address of the handler that was entered, or Main, or Nowhere
  pic,    \* the registers of the two interrupt controllers
  pit,    \* of the three counters
  set,    \* history: the handler each vector was given last, from the first store on
  asked   \* history: the rate each counter was given last

tableVars == <<gdt, idt, stored, lidt, set>>
cpuVars == <<cs, ds, flag, where>>
chipVars == <<pic, pit, asked>>
vars == <<todo, tableVars, cpuVars, chipVars>>

-----------------------------------------------------------------------------
(* The statements of a call.                                               *)

outportb(port, value) == [do |-> "out", port |-> port, value |-> value]
Do(what) == [do |-> what]
setvect(i, handler) == [do |-> "gate", i |-> i, handler |-> handler]

i86_pic_send_command(cmd, n) == outportb(IF n = 1 THEN 160 ELSE 32, cmd)
i86_pic_send_data(data, n) == outportb(IF n = 1 THEN 161 ELSE 33, data)

\* Mutant: the words of the second controller are sent to the first.
i86_pic_initializeOne(base0, base1) ==
  << Do("cli"),
     i86_pic_send_command(17, 0), i86_pic_send_command(17, 1),
     i86_pic_send_data(base0, 0), i86_pic_send_data(base1, 0),
     i86_pic_send_data(4, 0), i86_pic_send_data(2, 0),
     i86_pic_send_data(1, 0), i86_pic_send_data(1, 0),
     i86_pic_send_data(0, 0), i86_pic_send_data(0, 1) >>

\* ICW1 0x11: initialise, a fourth word follows; then the vectors, the wiring
\* and 8086 mode, and a mask of 0.
i86_pic_initialize(base0, base1) ==
  << Do("cli"),
     i86_pic_send_command(17, 0), i86_pic_send_command(17, 1),
     i86_pic_send_data(base0, 0), i86_pic_send_data(base1, 1),
     i86_pic_send_data(4, 0), i86_pic_send_data(2, 1),
     i86_pic_send_data(1, 0), i86_pic_send_data(1, 1),
     i86_pic_send_data(0, 0), i86_pic_send_data(0, 1) >>

\* Mutant: the high byte is sent first.
i86_pit_start_counterHighFirst(freq, counter, mode) ==
  IF freq = 0 THEN << >>
  ELSE IF freq % 65536 = 0 THEN << Do("divide_by_zero") >>
  ELSE << [do |-> "asked", counter |-> counter, freq |-> freq],
          outportb(67, (64 * counter) + 48 + mode),
          outportb(64 + counter, HighByte(Divisor(freq))),
          outportb(64 + counter, LowByte(Divisor(freq))) >>

\* The command selects the counter, "low byte then high byte" and the mode.
i86_pit_start_counter(freq, counter, mode) ==
  IF freq = 0 THEN << >>
  ELSE IF freq % 65536 = 0 THEN << Do("divide_by_zero") >>
  ELSE << [do |-> "asked", counter |-> counter, freq |-> freq],
          outportb(67, (64 * counter) + 48 + mode),
          outportb(64 + counter, LowByte(Divisor(freq))),
          outportb(64 + counter, HighByte(Divisor(freq))) >>

SquareWave == 6   \* I86_PIT_OCW_MODE_SQUAREWAVEGEN

hal_initialize ==
  << Do("lgdt"), Do("idt"), Do("lidt") >>
  \o i86_pic_initialize(32, 40)
  \o << Do("unmask_timer"), setvect(32, PitHandler) >>
  \o i86_pit_start_counter(100, 0, SquareWave)
  \o << Do("sti") >>

-----------------------------------------------------------------------------
(* The chips.                                                              *)

\* An 8259 whose first word has come expects three more at its data port.
PicCommand(p, cmd) ==
  IF (cmd \div 16) % 2 = 1 THEN [p EXCEPT !.expects = "base", !.mask = 0] ELSE p
PicData(p, data) ==
  CASE p.expects = "base"   -> [p EXCEPT !.base = data - (data % 8), !.expects = "wiring"]
    [] p.expects = "wiring" -> [p EXCEPT !.wiring = data, !.expects = "mode"]
    [] p.expects = "mode"   -> [p EXCEPT !.mode = data, !.expects = "mask"]
    [] p.expects = "mask"   -> [p EXCEPT !.mask = data]

\* One that has had them all; mode 1 is that of the 8086.
Pic(base, wiring, mask) ==
  [expects |-> "mask", base |-> base, wiring |-> wiring, mode |-> 1, mask |-> mask]

\* A counter takes the two bytes after the command, and runs with the second.
PitCommand(cmd) ==
  [pit EXCEPT ![cmd \div 64] =
     [expects |-> "low", mode |-> cmd % 64, low |-> 0, reload |-> 0]]
PitData(c, data) ==
  IF c.expects = "low" THEN [c EXCEPT !.low = data, !.expects = "high"]
  ELSE [c EXCEPT !.reload = c.low + (256 * data), !.expects = "low"]

Written(port, value) ==
  /\ pic' = CASE port = 32  -> [pic EXCEPT ![0] = PicCommand(@, value)]
              [] port = 160 -> [pic EXCEPT ![1] = PicCommand(@, value)]
              [] port = 33  -> [pic EXCEPT ![0] = PicData(@, value)]
              [] port = 161 -> [pic EXCEPT ![1] = PicData(@, value)]
              [] OTHER -> pic
  /\ pit' = CASE port = 67 -> PitCommand(value)
              [] port \in 64..66 -> [pit EXCEPT ![port - 64] = PitData(@, value)]
              [] OTHER -> pit

-----------------------------------------------------------------------------
\* The BIOS has set both controllers up for its own vectors, and counter 0 for
\* 18.2 Hz; kernel_entry has loaded the segment registers from the loader's table.
Init ==
  /\ todo = hal_initialize
  /\ gdt = gdt_data /\ cs = Segment(gdt_data[1]) /\ ds = Segment(gdt_data[2])
  /\ idt = [i \in 0..MaxInterrupts |-> idt_descriptor(0, 0, {})] /\ stored = 0
  /\ lidt = FALSE
  /\ set = [i \in 0..(MaxInterrupts - 1) |-> 0]
  /\ flag = FALSE /\ where = Main
  /\ \E mask0, mask1 \in BiosMasks :
       pic = [n \in 0..1 |-> IF n = 0 THEN Pic(8, 4, mask0) ELSE Pic(112, 2, mask1)]
  /\ pit = [c \in 0..2 |-> [expects |-> "low", mode |-> 54, low |-> 0, reload |-> 0]]
  /\ asked = [c \in 0..2 |-> 0]

Now(what) == where = Main /\ todo # << >> /\ Head(todo).do = what
Done == todo' = Tail(todo)

\* i86_gdt_initialize: the new table is written, and then put in force.
LoadGdt ==
  /\ Now("lgdt") /\ Done
  /\ gdt' = i86_gdt_initialize
  /\ UNCHANGED <<idt, stored, lidt, set, cpuVars, chipVars>>

\* i86_idt_initialize: every gate leads to the default handler.  Nothing reads
\* them before LoadIdt, so the loop is one step.
FillIdt ==
  /\ Now("idt") /\ Done
  /\ idt' = [i \in DOMAIN idt |-> IF i < MaxInterrupts THEN Gate(DefaultHandler) ELSE idt[i]]
  /\ set' = [i \in DOMAIN set |-> DefaultHandler]
  /\ UNCHANGED <<gdt, stored, lidt, cpuVars, chipVars>>

LoadIdt ==
  /\ Now("lidt") /\ Done
  /\ lidt' = TRUE
  /\ UNCHANGED <<gdt, idt, stored, set, cpuVars, chipVars>>

\* The n-th store to a gate: baseLo, baseHi, reserved (which no gate shows),
\* flag and sel.
Store(gate, n, handler) ==
  CASE n = 1 -> [gate EXCEPT !.baseLo = Gate(handler).baseLo]
    [] n = 2 -> [gate EXCEPT !.baseHi = Gate(handler).baseHi]
    [] n = 3 -> gate
    [] n = 4 -> [gate EXCEPT !.flags = Gate(handler).flags]
    [] n = 5 -> [gate EXCEPT !.sel = Gate(handler).sel]

\* i86_install_ir; its check of the vector lets the one behind the table pass.
\* Interrupts may come between any two of its stores.
InstallIr ==
  /\ Now("gate")
  /\ LET i == Head(todo).i
         handler == Head(todo).handler
     IN  IF i > MaxInterrupts \/ handler = 0
         THEN Done /\ UNCHANGED <<idt, stored, set>>
         ELSE /\ idt' = [idt EXCEPT ![i] = Store(@, stored + 1, handler)]
              /\ set' = [j \in DOMAIN set |-> IF j = i THEN handler ELSE set[j]]
              /\ IF stored = 4 THEN Done /\ stored' = 0
                 ELSE UNCHANGED todo /\ stored' = stored + 1
  /\ UNCHANGED <<gdt, lidt, cpuVars, chipVars>>

EnableDisable ==
  /\ Now("sti") \/ Now("cli")
  /\ Done
  /\ flag' = (Head(todo).do = "sti")
  /\ UNCHANGED <<tableVars, cs, ds, where, chipVars>>

Out ==
  /\ Now("out") /\ Done
  /\ Written(Head(todo).port, Head(todo).value)
  /\ UNCHANGED <<tableVars, cpuVars, asked>>

\* A controller's data port is read as its mask.
inportb(port) == IF port = 33 THEN pic[0].mask ELSE pic[1].mask

\* `outportb(0x21, inportb(0x21) & ~1)'
UnmaskTimer ==
  /\ Now("unmask_timer") /\ Done
  /\ Written(33, inportb(33) - (inportb(33) % 2))
  /\ UNCHANGED <<tableVars, cpuVars, asked>>

Asked ==
  /\ Now("asked") /\ Done
  /\ asked' = [asked EXCEPT ![Head(todo).counter] = Head(todo).freq]
  /\ UNCHANGED <<tableVars, cpuVars, pic, pit>>

-----------------------------------------------------------------------------
(* Interrupts.                                                             *)

\* The processor goes through a gate; the gate and its segment must be there.
Enter(vector) ==
  /\ flag' = FALSE
  /\ LET gate == idt[vector]
         segment == Segment(gdt[gate.sel \div 8])
     IN  IF lidt /\ "present" \in gate.flags /\ {"memory", "exec"} \subseteq segment.kind
         THEN where' = segment.base + getvect(gate) /\ cs' = segment
         ELSE where' = Nowhere /\ UNCHANGED cs

Masked(n) == (pic[n \div 8].mask \div 2^(n % 8)) % 2 = 1
Vector(n) == pic[n \div 8].base + (n % 8)

Interrupt(n) ==
  /\ flag /\ where = Main
  /\ ~Masked(n) /\ (n >= 8 => ~Masked(2))
  /\ Enter(Vector(n))
  /\ UNCHANGED <<todo, ds, tableVars, chipVars>>

\* `1193181 / (uint16_t) freq' with a freq whose low half is 0.
DivideError ==
  /\ Now("divide_by_zero") /\ Done
  /\ Enter(0)
  /\ UNCHANGED <<ds, tableVars, chipVars>>

\* iretd; the default handler does not return, nor does what no handler is.
Return ==
  /\ where \in {PitHandler} \cup (Handlers \ {0})
  /\ where' = Main /\ flag' = TRUE
  /\ UNCHANGED <<todo, cs, ds, tableVars, chipVars>>

-----------------------------------------------------------------------------
(* Kernel code that calls the interface when hal_initialize has returned.  *)

Call(statements) ==
  /\ todo = << >> /\ where = Main
  /\ todo' = statements
  /\ UNCHANGED <<tableVars, cpuVars, chipVars>>

Setvect == \E i \in Vectors, handler \in Handlers : Call(<< setvect(i, handler) >>)
StartCounter ==
  \E freq \in Rates, counter \in {0, 2} :
    Call(i86_pit_start_counter(freq, counter, SquareWave))

\* `mov byte ptr [genint+1], al; int 0'
geninterrupt(n) ==
  /\ todo = << >> /\ where = Main
  /\ Enter(n % 256)
  /\ UNCHANGED <<todo, ds, tableVars, chipVars>>

Initialize == LoadGdt \/ FillIdt \/ LoadIdt \/ UnmaskTimer
Next ==
  \/ Initialize \/ InstallIr \/ EnableDisable \/ Out \/ Asked
  \/ DivideError \/ Setvect \/ StartCounter \/ Return
  \/ \E n \in Lines : Interrupt(n)
  \/ \E n \in Vectors \cap DOMAIN set : geninterrupt(n)

Spec == Init /\ [][Next]_vars
-----------------------------------------------------------------------------
\* Interrupts are never on before both controllers have had all their words, in
\* order, and are wired to each other with every line open (Hal.cpp:12-25,
\* pic.cpp:110-139).
EnabledWhenReady ==
  flag => lidt /\ pic = [n \in 0..1 |-> IF n = 0 THEN Pic(32, 4, 0) ELSE Pic(40, 2, 0)]

\* The kernel's table replaces the loader's under the code that runs: what its
\* descriptors mean is what the segment registers hold, at every moment and
\* whatever is loaded again by an interrupt (gdt.cpp:64-119, gdt.inc:21-39).
SegmentsAgree == Segment(gdt[1]) = cs /\ Segment(gdt[2]) = ds

\* A counter gets the divisor of the rate it was asked for last, whole, when
\* the rate is one its sixteen bits can hold (pit.cpp:88-103).
CountersAsAsked ==
  todo = << >> => \A c \in 0..2 :
    asked[c] \in 19..65535 => IsDivisor(pit[c].reload, asked[c]) /\ pit[c].mode = 54

\* Between the first two stores of setvect(v, handler) the gate holds halves of
\* two addresses, unless both handlers lie in the same 64 KB.
Torn(v) == stored = 1 /\ Head(todo).i = v /\ idt[v].baseHi # Gate(set[v]).baseHi

\* An interrupt, of a line or of geninterrupt, arrives at the handler its vector
\* was given last, in a flat code segment, whatever was set before, next to it
\* or behind the table -- but not the request of a line that comes while its
\* own gate is torn, as setvect does not keep interrupts away
\* (idt.cpp:71-112, Hal.cpp:30-40, 102-117).
InterruptsArrive ==
  [][/\ \A n \in Lines :
          Interrupt(n) => cs' = cs /\ (where' = set[32 + n] <=> ~Torn(32 + n))
     /\ \A n \in Vectors \cap DOMAIN set : geninterrupt(n) => where' = set[n] /\ cs' = cs]_vars
=============================================================================
