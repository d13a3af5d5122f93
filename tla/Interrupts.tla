------------------------------ MODULE Interrupts ------------------------------
(***************************************************************************)
(* Interrupts while the kernel starts: hal_initialize (SysCore/Hal/Hal.cpp)*)
(* and the part of main() that sets the exception vectors                  *)
(* (SysCore/Kernel/main.cpp:35-57), running against a timer and other      *)
(* devices that raise interrupt requests at any moment.  The two 8259      *)
(* controllers and the way the CPU takes an interrupt are the hardware's;  *)
(* what the code does to them is translated from idt.cpp, pic.cpp, pit.cpp *)
(* and Hal.cpp.                                                            *)
(*                                                                         *)
(* The CPU is in one place at a time: in main(), or in a handler that was  *)
(* entered from it.  Handlers are entered through interrupt gates, with    *)
(* the interrupt flag cleared, so they do not nest.                        *)
(***************************************************************************)
EXTENDS Integers, Sequences, FiniteSetsExt

CONSTANTS
  UINT32,    \* modulus of uint32_t (2^32 in the build)
  Devices,   \* the IRQ lines that a device may raise
  Traps,     \* the vectors main() sets, in the order in which it does
  SetTicks   \* the values kernel code passes to i86_pit_set_tickcount

Timer == 0
Exceptions == 0..31

ASSUME InterruptsAssumption ==
  /\ UINT32 \in Nat \ {0}
  /\ Timer \in Devices /\ Devices \subseteq (0..15) \ {2}
  /\ Traps \in Seq(Exceptions)
  /\ SetTicks \subseteq 0..(UINT32 - 1)

VARIABLES
  pc,      \* the position of main() in Order
  todo,    \* the vectors main() has still to set
  idt,     \* the handler in each vector: the low and the high half of its address
  flag,    \* the CPU's interrupt flag
  base,    \* the first vector of each controller
  irr,     \* requests raised
  isr,     \* requests being serviced
  imr,     \* requests masked
  where,   \* what the CPU executes: main() or a handler
  ticks,   \* _pit_ticks
  call,    \* a call of i86_pit_set_tickcount: how far it is
  prev,    \* its variable prev
  count,   \* history: the value ticks was last set to, and the timer interrupts since
  faulted  \* history: the code has faulted

cpuVars == <<flag, where>>
picVars == <<base, irr, isr, imr>>
tickVars == <<ticks, call, prev, count>>
vars == <<pc, todo, idt, cpuVars, picVars, tickVars, faulted>>

Vectors == 0..63
Handlers == {"none", "default", "pit", "trap"}

\* An entry whose halves come from two handlers is the address of neither.
None == <<"none", "none">>
Handler(v) == IF idt[v][1] = idt[v][2] THEN idt[v][1] ELSE "nowhere"

\* Mutant: interrupts are enabled before the timer's vector is set.
OrderEnableFirst ==
  <<"cpu", "pic", "unmask", "enable", "vector_lo", "vector_hi", "counter",
    "traps", "memory", "cli", "hlt">>

\* hal_initialize, then main().  "vector_lo" and "vector_hi" are the stores of
\* setvect(32), "traps" is main()'s sequence of setvects, and "memory" is all
\* that main() does until its final cli.
Order == <<"cpu", "pic", "unmask", "vector_lo", "vector_hi", "counter", "enable",
           "traps", "memory", "cli", "hlt">>
At(step) == pc <= Len(Order) /\ Order[pc] = step

Init ==
  /\ pc = 1
  /\ todo = Traps
  /\ idt = [v \in Vectors |-> None]
  /\ flag = FALSE
  /\ base = <<8, 112>>
  /\ irr \in SUBSET Devices /\ isr = {} /\ imr \in SUBSET Devices
  /\ where = "main"
  /\ ticks = 0 /\ count = 0
  /\ call = "none" /\ prev = 0
  /\ faulted = FALSE

-----------------------------------------------------------------------------
(* main() and hal_initialize.                                              *)

\* i86_idt_initialize: every vector gets the default handler, then lidt.
CpuInitialize ==
  /\ At("cpu")
  /\ idt' = [v \in Vectors |-> <<"default", "default">>]
  /\ UNCHANGED <<todo, cpuVars, picVars, tickVars>>

\* i86_pic_initialize: cli; the initialisation words reset both controllers
\* and give them their vectors; then every line is unmasked.
i86_pic_initialize(base0, base1) ==
  /\ At("pic")
  /\ flag' = FALSE
  /\ base' = <<base0, base1>>
  /\ irr' = {} /\ isr' = {} /\ imr' = {}
  /\ UNCHANGED <<todo, idt, where, tickVars>>

UnmaskTimer ==
  /\ At("unmask")
  /\ imr' = imr \ {Timer}
  /\ UNCHANGED <<todo, idt, cpuVars, base, irr, isr, tickVars>>

\* Mutant: the high half of the address is not stored.
StoreHiLost(v, handler) == UNCHANGED idt

\* The two stores of i86_install_ir that hold the handler's address.
StoreLo(v, handler) == idt' = [idt EXCEPT ![v][1] = handler]
StoreHi(v, handler) == idt' = [idt EXCEPT ![v][2] = handler]

\* Mutant: setvect(32) is left out.
PitInitializeNoVector ==
  /\ At("vector_lo") \/ At("vector_hi")
  /\ UNCHANGED <<todo, idt, cpuVars, picVars, tickVars>>

PitInitialize ==
  /\ \/ At("vector_lo") /\ StoreLo(32, "pit")
     \/ At("vector_hi") /\ StoreHi(32, "pit")
  /\ UNCHANGED <<todo, cpuVars, picVars, tickVars>>

StartCounter ==
  /\ At("counter")
  /\ ticks' = 0 /\ count' = 0
  /\ UNCHANGED <<todo, idt, cpuVars, picVars, call, prev>>

SetFlag ==
  /\ \/ At("enable") /\ flag' = TRUE
     \/ At("cli") /\ flag' = FALSE
  /\ UNCHANGED <<todo, idt, where, picVars, tickVars>>

\* A setvect of main(); it goes on when all of them are done.
SetTrap ==
  /\ At("traps") /\ todo # << >>
  /\ \/ /\ idt[Head(todo)][1] # "trap"
        /\ StoreLo(Head(todo), "trap")
        /\ UNCHANGED todo
     \/ /\ idt[Head(todo)][1] = "trap"
        /\ StoreHi(Head(todo), "trap")
        /\ todo' = Tail(todo)
  /\ UNCHANGED <<pc, cpuVars, picVars, tickVars>>

Pass ==
  /\ \/ At("traps") /\ todo = << >>
     \/ At("memory") /\ call = "none"
     \/ At("hlt")
  /\ UNCHANGED <<todo, idt, cpuVars, picVars, tickVars>>

MainStep ==
  /\ where = "main"
  /\ \/ /\ \/ CpuInitialize
           \/ i86_pic_initialize(32, 40)
           \/ UnmaskTimer
           \/ PitInitialize
           \/ StartCounter
           \/ SetFlag
           \/ Pass
        /\ pc' = pc + 1
     \/ SetTrap
  /\ UNCHANGED faulted

\* Kernel code that sets the tick count while main() has interrupts on: the
\* statements of i86_pit_set_tickcount, then the return.
SetTickcount ==
  /\ where = "main" /\ At("memory")
  /\ \/ /\ call = "none" /\ call' = "read"
        /\ prev' = ticks
        /\ UNCHANGED <<ticks, count>>
     \/ /\ call = "read" /\ call' = "set"
        /\ ticks' \in SetTicks /\ count' = ticks'
        /\ UNCHANGED prev
  /\ UNCHANGED <<pc, todo, idt, cpuVars, picVars, faulted>>

\* result is what the function returns.
ReturnTickcount(result) ==
  /\ where = "main" /\ call = "set"
  /\ result = ticks
  /\ call' = "none"
  /\ UNCHANGED <<pc, todo, idt, cpuVars, picVars, ticks, prev, count, faulted>>

-----------------------------------------------------------------------------
(* The hardware.                                                           *)

Raise(n) ==
  /\ irr' = irr \cup {n}
  /\ UNCHANGED <<pc, todo, idt, cpuVars, base, isr, imr, tickVars, faulted>>

\* Lower ranks are served first; the second controller is line 2 of the first.
Rank(n) == IF n < 2 THEN n ELSE IF n >= 8 THEN n - 6 ELSE n + 7

Vector(n) == IF n < 8 THEN base[1] + n ELSE base[2] + n - 8

\* The CPU takes request n, if no request of its rank or above is being served.
Interrupt(n) ==
  /\ flag
  /\ n \in irr \ imr
  /\ \A m \in (irr \ imr) \cup isr : Rank(n) <= Rank(m)
  /\ n \notin isr
  /\ irr' = irr \ {n} /\ isr' = isr \cup {n}
  /\ flag' = FALSE
  /\ where' = IF Vector(n) \in Vectors THEN Handler(Vector(n)) ELSE "nowhere"
  /\ count' = IF n = Timer THEN (count + 1) % UINT32 ELSE count
  /\ UNCHANGED <<pc, todo, idt, base, imr, ticks, call, prev, faulted>>

\* The code main() or a handler executes faults.
Fault(v) ==
  /\ where \in {"main", "pit"} /\ pc > 1 /\ pc <= Len(Order)
  /\ flag' = FALSE
  /\ where' = Handler(v)
  /\ faulted' = TRUE
  /\ UNCHANGED <<pc, todo, idt, picVars, tickVars>>

-----------------------------------------------------------------------------
(* The timer's handler: pit_handler_c, interruptdone, iretd.  The default  *)
(* handler and the exception handlers, which disable interrupts and panic, *)
(* stay where they are.                                                    *)

\* A non-specific end of interrupt: the controller's request of the highest rank.
EndOfInterrupt(requests, pic) ==
  LET mine == {n \in requests : (n >= 8) = (pic = 1)}
  IN  IF mine = {} THEN requests ELSE requests \ {Min(mine)}

interruptdone(intno) ==
  /\ isr' = IF intno > 16 THEN isr
            ELSE IF intno >= 8 THEN EndOfInterrupt(EndOfInterrupt(isr, 1), 0)
            ELSE EndOfInterrupt(isr, 0)
  /\ UNCHANGED <<base, irr, imr>>

\* Mutant: a counter that stops at its maximum.
PitCountSaturates ==
  /\ where = "pit"
  /\ ticks' = IF ticks = UINT32 - 1 THEN ticks ELSE ticks + 1
  /\ where' = "pit_done"
  /\ UNCHANGED <<pc, todo, idt, flag, picVars, call, prev, count, faulted>>

PitCount ==
  /\ where = "pit"
  /\ ticks' = (ticks + 1) % UINT32
  /\ where' = "pit_done"
  /\ UNCHANGED <<pc, todo, idt, flag, picVars, call, prev, count, faulted>>

\* Mutant: interruptdone gets the vector instead of the line.
PitDoneVector ==
  /\ where = "pit_done"
  /\ interruptdone(32)
  /\ where' = "pit_return"
  /\ UNCHANGED <<pc, todo, idt, flag, tickVars, faulted>>

PitDone ==
  /\ where = "pit_done"
  /\ interruptdone(Timer)
  /\ where' = "pit_return"
  /\ UNCHANGED <<pc, todo, idt, flag, tickVars, faulted>>

PitReturn ==
  /\ where = "pit_return"
  /\ where' = "main" /\ flag' = TRUE
  /\ UNCHANGED <<pc, todo, idt, picVars, tickVars, faulted>>

HandlerStep == PitCount \/ PitDone \/ PitReturn

TickcountStep ==
  SetTickcount \/ \E result \in 0..(UINT32 - 1) : ReturnTickcount(result)

Next ==
  \/ MainStep
  \/ TickcountStep
  \/ \E n \in Devices : Raise(n) \/ Interrupt(n)
  \/ \E v \in Range(Traps) : Fault(v)
  \/ HandlerStep

\* The CPU never stops in a handler, and between two interrupts of a timer it
\* comes back to main().  Nothing makes a device raise a request.
Spec == /\ Init /\ [][Next]_vars
        /\ WF_vars(HandlerStep)
        /\ SF_vars(MainStep)
        /\ SF_vars(call # "none" /\ TickcountStep)
-----------------------------------------------------------------------------
TypeOK ==
  /\ pc \in 1..(Len(Order) + 1)
  /\ todo \in Seq(Exceptions)
  /\ idt \in [Vectors -> Handlers \X Handlers]
  /\ flag \in BOOLEAN
  /\ base \in Nat \X Nat
  /\ irr \subseteq Devices /\ isr \subseteq Devices /\ imr \subseteq Devices
  /\ where \in {"main", "pit", "pit_done", "pit_return", "default", "trap", "none",
                "nowhere"}
  /\ ticks \in 0..(UINT32 - 1) /\ count \in 0..(UINT32 - 1)
  /\ call \in {"none", "read", "set"} /\ prev \in 0..(UINT32 - 1)
  /\ faulted \in BOOLEAN

\* Whenever an interrupt comes, each request in service is the one of the
\* handler that runs: the timer's handler leaves none behind, so that the
\* next tick is delivered (pit.cpp:16-31, Hal.cpp:43-60).
EndedBeforeReturn ==
  /\ where \in {"main", "pit_return"} => isr = {}
  /\ where \in {"pit", "pit_done"} => isr = {Timer}

\* A request of a device finds a handler -- the timer's own handler for the
\* timer -- never the vector of an exception, an empty or a half-written one:
\* the vectors, the table and the controllers are set up in time
\* (Hal.cpp:12-25, pic.cpp:110-139, idt.cpp:71-112).
RequestsFindTheirHandlers ==
  [][\A n \in Devices :
       Interrupt(n) => where' = IF n = Timer THEN "pit" ELSE "default"]_vars

\* Once main() has set its vectors a fault ends in the handler main() set, and
\* never in a device's or the default one (main.cpp:40-57).
FaultsReachTheirHandlers ==
  [][pc > 8 => \A v \in Range(Traps) : Fault(v) => where' = "trap"]_vars

\* Between the setting of the count, the interrupts and the handler no tick is
\* lost and none is counted twice (pit.cpp:16-20, 79-103).
NoTickLost ==
  /\ where = "pit" => ticks = (count - 1) % UINT32
  /\ where \in {"main", "pit_done", "pit_return"} => ticks = count

\* main() gets to its hlt unless a fault or a device other than the timer stops
\* it: the timer alone, however it ticks, does not (main.cpp:35-109).
MainFinishes ==
  <>(pc > Len(Order) \/ faulted \/ isr \ {Timer} # {})
=============================================================================
