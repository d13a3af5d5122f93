--------------------------- MODULE InterruptsProofs ---------------------------
(***************************************************************************)
(* Proofs about interrupts while the kernel starts: which handler a        *)
(* request or a fault finds, and what the timer's handler leaves behind,   *)
(* for every set of devices, every sequence of vectors and every width of  *)
(* the tick counter.                                                       *)
(***************************************************************************)
EXTENDS Interrupts, TLAPS

\* The position of each step of Order.
LEMMA Positions ==
  ASSUME pc \in 1..(Len(Order) + 1)
  PROVE  /\ pc \in 1..12 /\ Len(Order) = 11
         /\ At("cpu") <=> pc = 1
         /\ At("pic") <=> pc = 2
         /\ At("unmask") <=> pc = 3
         /\ At("vector_lo") <=> pc = 4
         /\ At("vector_hi") <=> pc = 5
         /\ At("counter") <=> pc = 6
         /\ At("enable") <=> pc = 7
         /\ At("traps") <=> pc = 8
         /\ At("memory") <=> pc = 9
         /\ At("cli") <=> pc = 10
         /\ At("hlt") <=> pc = 11
<1>1. Len(Order) = 11
  BY DEF Order
<1>2. pc \in 1..12
  BY <1>1
<1>3. CASE pc = 12
  BY <1>1, <1>3 DEF At
<1>4. CASE pc # 12
  <2>1. /\ Order[1] = "cpu" /\ Order[2] = "pic" /\ Order[3] = "unmask"
        /\ Order[4] = "vector_lo" /\ Order[5] = "vector_hi" /\ Order[6] = "counter"
        /\ Order[7] = "enable" /\ Order[8] = "traps" /\ Order[9] = "memory"
        /\ Order[10] = "cli" /\ Order[11] = "hlt"
    BY DEF Order
  <2>2. pc \in 1..11
    BY <1>2, <1>4
  <2> QED BY <1>1, <1>2, <2>1, <2>2 DEF At
<1> QED BY <1>3, <1>4

\* What the two stores of a setvect make of the entry.
LEMMA HalfStored ==
  ASSUME idt \in [Vectors -> Handlers \X Handlers],
         NEW v \in Vectors, NEW h \in Handlers
  PROVE  /\ StoreLo(v, h) => /\ idt' \in [Vectors -> Handlers \X Handlers]
                             /\ idt'[v] = <<h, idt[v][2]>>
                             /\ \A w \in Vectors : w # v => idt'[w] = idt[w]
         /\ StoreHi(v, h) => /\ idt' \in [Vectors -> Handlers \X Handlers]
                             /\ idt'[v] = <<idt[v][1], h>>
                             /\ \A w \in Vectors : w # v => idt'[w] = idt[w]
<1>1. idt[v] \in Handlers \X Handlers
  OBVIOUS
<1>2. [idt[v] EXCEPT ![1] = h] = <<h, idt[v][2]>>
  BY <1>1
<1>3. [idt[v] EXCEPT ![2] = h] = <<idt[v][1], h>>
  BY <1>1
<1>4. <<h, idt[v][2]>> \in Handlers \X Handlers /\ <<idt[v][1], h>> \in Handlers \X Handlers
  BY <1>1
<1>5. ASSUME StoreLo(v, h)
      PROVE  /\ idt' \in [Vectors -> Handlers \X Handlers]
             /\ idt'[v] = <<h, idt[v][2]>>
             /\ \A w \in Vectors : w # v => idt'[w] = idt[w]
  <2>1. idt' = [idt EXCEPT ![v] = <<h, idt[v][2]>>]
    BY <1>2, <1>5 DEF StoreLo
  <2> QED BY <1>4, <2>1
<1>6. ASSUME StoreHi(v, h)
      PROVE  /\ idt' \in [Vectors -> Handlers \X Handlers]
             /\ idt'[v] = <<idt[v][1], h>>
             /\ \A w \in Vectors : w # v => idt'[w] = idt[w]
  <2>1. idt' = [idt EXCEPT ![v] = <<idt[v][1], h>>]
    BY <1>3, <1>6 DEF StoreHi
  <2> QED BY <1>4, <2>1
<1> QED BY <1>5, <1>6

\* The counter, modulo the width of its type.
LEMMA Counted ==
  ASSUME NEW n \in 0..(UINT32 - 1)
  PROVE  /\ (n + 1) % UINT32 \in 0..(UINT32 - 1)
         /\ (n - 1) % UINT32 \in 0..(UINT32 - 1)
         /\ (((n + 1) % UINT32) - 1) % UINT32 = n
         /\ (((n - 1) % UINT32) + 1) % UINT32 = n
<1>1. UINT32 \in Nat \ {0} /\ n \in Nat /\ n < UINT32
  BY InterruptsAssumption
<1>2. CASE n + 1 < UINT32
  <2>1. (n + 1) % UINT32 = n + 1 /\ n % UINT32 = n
    BY <1>1, <1>2
  <2> QED BY <1>1, <1>2, <2>1
<1>3. CASE n + 1 = UINT32
  <2>1. (n + 1) % UINT32 = 0
    BY <1>1, <1>3
  <2>2. (-1) % UINT32 = UINT32 - 1
    BY <1>1
  <2>3. (n - 1) % UINT32 = IF n = 0 THEN 0 ELSE n - 1
    BY <1>1, <1>3
  <2>4. n = 0 => 1 % UINT32 = 0
    BY <1>1, <1>3
  <2> QED BY <1>1, <1>3, <2>1, <2>2, <2>3, <2>4
<1> QED BY <1>1, <1>2, <1>3

-----------------------------------------------------------------------------
(* The inductive invariant.                                                *)

\* Interrupts are on, or a handler of one runs, between main()'s sti and cli.
FlagWhen ==
  /\ flag => pc \in 8..10 /\ where = "main"
  /\ where \in {"pit", "pit_done", "pit_return"} => pc \in 8..10

\* An exception's vector, while main() sets it.
Halves == {"default", "trap"} \X {"default", "trap"}

\* What the set-up has put in the table and in the controllers by then.
TablesWhen ==
  /\ pc >= 2 => /\ \A v \in Exceptions : idt[v] \in Halves
                /\ \A v \in 33..63 : idt[v] = <<"default", "default">>
  /\ pc = 5 => idt[32][1] = "pit"
  /\ pc >= 6 => idt[32] = <<"pit", "pit">>
  /\ pc >= 3 => base = <<32, 40>>

\* A vector of main() that is not set yet is still to be set.
TrapsWhen ==
  /\ pc < 8 => todo = Traps
  /\ pc > 8 => todo = << >>
  /\ \A v \in Range(Traps) : v \in Range(todo) \/ idt[v] = <<"trap", "trap">>

InterruptsInv ==
  /\ TypeOK
  /\ FlagWhen
  /\ TablesWhen
  /\ TrapsWhen
  /\ EndedBeforeReturn
  /\ NoTickLost

LEMMA VectorsAre ==
  /\ 33..63 \subseteq Vectors /\ 32 \in Vectors
  /\ Exceptions \subseteq Vectors /\ 32 \notin Exceptions
  /\ Range(Traps) \subseteq Exceptions
<1>1. /\ 33..63 \subseteq Vectors /\ 32 \in Vectors
      /\ Exceptions \subseteq Vectors /\ 32 \notin Exceptions
  BY DEF Vectors, Exceptions
<1>2. Traps \in Seq(Exceptions)
  BY InterruptsAssumption
<1>3. DOMAIN Traps = 1..Len(Traps) /\ \A k \in 1..Len(Traps) : Traps[k] \in Exceptions
  BY <1>2
<1>4. Range(Traps) \subseteq Exceptions
  BY <1>3 DEF Range
<1> QED BY <1>1, <1>4

LEMMA InterruptsInit == Init => InterruptsInv
<1> SUFFICES ASSUME Init PROVE InterruptsInv
  OBVIOUS
<1>1. Len(Order) = 11 /\ UINT32 \in Nat \ {0}
  BY InterruptsAssumption DEF Order
<1>2. Traps \in Seq(Exceptions)
  BY InterruptsAssumption
<1>3. TypeOK
  <2>1. idt \in [Vectors -> Handlers \X Handlers]
    BY DEF Init, None, Handlers
  <2>2. base \in Nat \X Nat
    BY DEF Init
  <2>3. pc \in 1..(Len(Order) + 1) /\ ticks \in 0..(UINT32 - 1)
        /\ count \in 0..(UINT32 - 1) /\ prev \in 0..(UINT32 - 1)
    BY <1>1 DEF Init
  <2> QED BY <1>2, <2>1, <2>2, <2>3 DEF Init, TypeOK
<1>4. TrapsWhen
  BY DEF Init, TrapsWhen
<1>5. FlagWhen /\ TablesWhen /\ EndedBeforeReturn /\ NoTickLost
  BY DEF Init, FlagWhen, TablesWhen, EndedBeforeReturn, NoTickLost
<1> QED BY <1>3, <1>4, <1>5 DEF InterruptsInv

-----------------------------------------------------------------------------
(* main() and hal_initialize.                                              *)

\* A step of main() that goes on to the next position.
LEMMA MainAdvances ==
  ASSUME InterruptsInv, where = "main", pc' = pc + 1, UNCHANGED faulted,
         \/ CpuInitialize
         \/ i86_pic_initialize(32, 40)
         \/ UnmaskTimer
         \/ PitInitialize
         \/ StartCounter
         \/ SetFlag
         \/ Pass
  PROVE  InterruptsInv'
<1>1. pc \in 1..(Len(Order) + 1)
  BY DEF InterruptsInv, TypeOK
<1>2. TypeOK /\ pc \in 1..12 /\ Len(Order) = 11 /\ UINT32 \in Nat \ {0}
      /\ idt \in [Vectors -> Handlers \X Handlers]
  BY <1>1, Positions, InterruptsAssumption DEF InterruptsInv, TypeOK
<1>3. 0 \in 0..(UINT32 - 1) /\ <<32, 40>> \in Nat \X Nat
  BY <1>2
<1> USE DEF cpuVars, picVars, tickVars
<1>4. CASE CpuInitialize
  <2>1. pc = 1 /\ idt' = [v \in Vectors |-> <<"default", "default">>]
        /\ UNCHANGED <<todo, flag, where, base, irr, isr, imr, ticks, call, prev, count>>
    BY <1>1, <1>4, Positions DEF CpuInitialize
  <2>2. TypeOK'
    <3>1. idt' \in [Vectors -> Handlers \X Handlers]
      BY <2>1 DEF Handlers
    <3> QED BY <1>2, <2>1, <3>1 DEF TypeOK
  <2>3. TrapsWhen'
    BY <2>1 DEF InterruptsInv, TrapsWhen
  <2>4. TablesWhen'
    BY <2>1, VectorsAre DEF TablesWhen, Halves
  <2>5. FlagWhen' /\ EndedBeforeReturn' /\ NoTickLost'
    BY <2>1 DEF InterruptsInv, FlagWhen, EndedBeforeReturn, NoTickLost
  <2> QED BY <2>2, <2>3, <2>4, <2>5 DEF InterruptsInv
<1>5. CASE i86_pic_initialize(32, 40)
  <2>1. /\ pc = 2 /\ flag' = FALSE /\ base' = <<32, 40>>
        /\ irr' = {} /\ isr' = {} /\ imr' = {}
        /\ UNCHANGED <<todo, idt, where, ticks, call, prev, count>>
    BY <1>1, <1>5, Positions DEF i86_pic_initialize
  <2>2. TypeOK'
    <3>1. flag' \in BOOLEAN /\ base' \in Nat \X Nat
      BY <1>3, <2>1
    <3> QED BY <1>2, <2>1, <3>1 DEF TypeOK
  <2>3. TablesWhen' /\ TrapsWhen'
    <3>1. TablesWhen'
      BY <1>2, <2>1 DEF InterruptsInv, TablesWhen
    <3>2. TrapsWhen'
      BY <1>2, <2>1 DEF InterruptsInv, TrapsWhen
    <3> QED BY <3>1, <3>2
  <2>4. FlagWhen' /\ EndedBeforeReturn' /\ NoTickLost'
    BY <2>1 DEF InterruptsInv, FlagWhen, EndedBeforeReturn, NoTickLost
  <2> QED BY <2>2, <2>3, <2>4 DEF InterruptsInv
<1>6. CASE UnmaskTimer
  <2>1. /\ pc = 3 /\ imr' = imr \ {Timer}
        /\ UNCHANGED <<todo, idt, flag, where, base, irr, isr, ticks, call, prev, count>>
    BY <1>1, <1>6, Positions DEF UnmaskTimer
  <2>2. TypeOK'
    BY <1>2, <1>3, <2>1 DEF TypeOK
  <2>3. TablesWhen' /\ TrapsWhen'
    <3>1. TablesWhen'
      BY <1>2, <2>1 DEF InterruptsInv, TablesWhen
    <3>2. TrapsWhen'
      BY <1>2, <2>1 DEF InterruptsInv, TrapsWhen
    <3> QED BY <3>1, <3>2
  <2>4. FlagWhen' /\ EndedBeforeReturn' /\ NoTickLost'
    BY <2>1 DEF InterruptsInv, FlagWhen, EndedBeforeReturn, NoTickLost
  <2> QED BY <2>2, <2>3, <2>4 DEF InterruptsInv
<1>7. CASE PitInitialize
  <2>1. /\ (pc = 4 /\ StoreLo(32, "pit")) \/ (pc = 5 /\ StoreHi(32, "pit"))
        /\ UNCHANGED <<todo, flag, where, base, irr, isr, imr, ticks, call, prev, count>>
    BY <1>1, <1>7, Positions DEF PitInitialize
  <2>2. 32 \in Vectors /\ "pit" \in Handlers /\ idt[32] \in Handlers \X Handlers
    BY <1>2, VectorsAre DEF Handlers
  <2>3. /\ idt' \in [Vectors -> Handlers \X Handlers]
        /\ \A w \in Vectors : w # 32 => idt'[w] = idt[w]
        /\ pc = 4 => idt'[32] = <<"pit", idt[32][2]>>
        /\ pc = 5 => idt'[32] = <<idt[32][1], "pit">>
    BY <1>2, <2>1, <2>2, HalfStored
  <2>4. TypeOK'
    BY <1>2, <2>1, <2>3 DEF TypeOK
  <2>5. \A v \in Exceptions \cup (33..63) : idt'[v] = idt[v]
    BY <2>3, VectorsAre
  <2>6. TablesWhen'
    <3>1. pc = 5 => idt'[32] = <<"pit", "pit">>
      BY <2>3 DEF InterruptsInv, TablesWhen
    <3>2. pc = 4 => idt'[32][1] = "pit"
      BY <2>3
    <3> QED BY <2>1, <2>5, <3>1, <3>2 DEF InterruptsInv, TablesWhen
  <2>7. TrapsWhen'
    <3>1. pc \in {4, 5} /\ pc' = pc + 1 /\ todo' = todo /\ todo = Traps
      BY <2>1 DEF InterruptsInv, TrapsWhen
    <3> QED BY <3>1 DEF TrapsWhen
  <2>8. FlagWhen' /\ EndedBeforeReturn' /\ NoTickLost'
    BY <2>1 DEF InterruptsInv, FlagWhen, EndedBeforeReturn, NoTickLost
  <2> QED BY <2>4, <2>6, <2>7, <2>8 DEF InterruptsInv
<1>8. CASE StartCounter
  <2>1. /\ pc = 6 /\ ticks' = 0 /\ count' = 0
        /\ UNCHANGED <<todo, idt, flag, where, base, irr, isr, imr, call, prev>>
    BY <1>1, <1>8, Positions DEF StartCounter
  <2>2. TypeOK'
    BY <1>2, <1>3, <2>1 DEF TypeOK
  <2>3. TablesWhen' /\ TrapsWhen'
    <3>1. TablesWhen'
      BY <1>2, <2>1 DEF InterruptsInv, TablesWhen
    <3>2. TrapsWhen'
      BY <1>2, <2>1 DEF InterruptsInv, TrapsWhen
    <3> QED BY <3>1, <3>2
  <2>4. FlagWhen' /\ EndedBeforeReturn' /\ NoTickLost'
    BY <2>1 DEF InterruptsInv, FlagWhen, EndedBeforeReturn, NoTickLost
  <2> QED BY <2>2, <2>3, <2>4 DEF InterruptsInv
<1>9. CASE SetFlag
  <2>1. /\ (pc = 7 /\ flag' = TRUE) \/ (pc = 10 /\ flag' = FALSE)
        /\ UNCHANGED <<todo, idt, where, base, irr, isr, imr, ticks, call, prev, count>>
    BY <1>1, <1>9, Positions DEF SetFlag
  <2>2. TypeOK'
    <3>1. flag' \in BOOLEAN
      BY <2>1
    <3> QED BY <1>2, <2>1, <3>1 DEF TypeOK
  <2>3. TablesWhen' /\ TrapsWhen'
    <3>1. TablesWhen'
      BY <1>2, <2>1 DEF InterruptsInv, TablesWhen
    <3>2. TrapsWhen'
      BY <1>2, <2>1 DEF InterruptsInv, TrapsWhen
    <3> QED BY <3>1, <3>2
  <2>4. FlagWhen' /\ EndedBeforeReturn' /\ NoTickLost'
    BY <2>1 DEF InterruptsInv, FlagWhen, EndedBeforeReturn, NoTickLost
  <2> QED BY <2>2, <2>3, <2>4 DEF InterruptsInv
<1>10. CASE Pass
  <2>1. /\ (pc = 8 /\ todo = << >>) \/ pc = 9 \/ pc = 11
        /\ UNCHANGED <<todo, idt, flag, where, base, irr, isr, imr, ticks, call, prev, count>>
    BY <1>1, <1>10, Positions DEF Pass
  <2>2. TypeOK'
    BY <1>2, <1>3, <2>1 DEF TypeOK
  <2>3. TablesWhen' /\ TrapsWhen'
    <3>1. TablesWhen'
      <4>1. pc \in 8..11 /\ pc' = pc + 1 /\ UNCHANGED <<idt, base>>
        BY <2>1
      <4> QED BY <4>1 DEF InterruptsInv, TablesWhen
    <3>2. TrapsWhen'
      BY <1>2, <2>1 DEF InterruptsInv, TrapsWhen
    <3> QED BY <3>1, <3>2
  <2>4. FlagWhen' /\ EndedBeforeReturn' /\ NoTickLost'
    BY <2>1 DEF InterruptsInv, FlagWhen, EndedBeforeReturn, NoTickLost
  <2> QED BY <2>2, <2>3, <2>4 DEF InterruptsInv
<1> QED BY <1>4, <1>5, <1>6, <1>7, <1>8, <1>9, <1>10

\* The two stores of one of main()'s setvects.
LEMMA TrapIsSet ==
  ASSUME InterruptsInv, where = "main", SetTrap, UNCHANGED faulted
  PROVE  InterruptsInv'
<1> DEFINE v == Head(todo)
           rest == Tail(todo)
<1>1. pc = 8 /\ todo # << >>
  <2>1. pc \in 1..(Len(Order) + 1)
    BY DEF InterruptsInv, TypeOK
  <2> QED BY <2>1, Positions DEF SetTrap
<1>2. /\ UNCHANGED <<pc, flag, where, base, irr, isr, imr, ticks, call, prev, count>>
      /\ \/ StoreLo(v, "trap") /\ todo' = todo
         \/ idt[v][1] = "trap" /\ StoreHi(v, "trap") /\ todo' = rest
  BY DEF SetTrap, cpuVars, picVars, tickVars
<1>3. /\ idt \in [Vectors -> Handlers \X Handlers] /\ todo \in Seq(Exceptions)
      /\ "trap" \in Handlers
  BY DEF InterruptsInv, TypeOK, Handlers
<1>4. /\ v \in Exceptions /\ rest \in Seq(Exceptions)
      /\ \A x \in Range(todo) : x = v \/ x \in Range(rest)
  <2>1. todo \in Seq(Exceptions) /\ todo # << >>
    BY <1>1, <1>3
  <2>2. v \in Exceptions /\ rest \in Seq(Exceptions)
    BY <2>1
  <2>3. /\ v = todo[1] /\ Len(todo) \in Nat /\ Len(todo) # 0 /\ Len(rest) = Len(todo) - 1
        /\ \A k \in 1..Len(rest) : rest[k] = todo[k + 1]
        /\ DOMAIN todo = 1..Len(todo) /\ DOMAIN rest = 1..Len(rest)
    BY <2>1
  <2>4. ASSUME NEW k \in DOMAIN todo PROVE todo[k] = v \/ todo[k] \in Range(rest)
    <3>1. CASE k = 1
      BY <2>3, <3>1
    <3>2. CASE k # 1
      <4>1. k - 1 \in DOMAIN rest /\ rest[k - 1] = todo[k]
        BY <2>3, <2>4, <3>2
      <4> QED BY <4>1 DEF Range
    <3> QED BY <3>1, <3>2
  <2>5. \A x \in Range(todo) : x = v \/ x \in Range(rest)
    BY <2>4 DEF Range
  <2> QED BY <2>2, <2>5
<1> HIDE DEF v, rest
<1>5. v \in Vectors /\ v # 32 /\ v \notin 33..63
  BY <1>4 DEF Exceptions, Vectors
<1>6. /\ idt' \in [Vectors -> Handlers \X Handlers]
      /\ \A w \in Vectors : w # v => idt'[w] = idt[w]
      /\ \/ idt'[v] = <<"trap", idt[v][2]>> /\ todo' = todo
         \/ idt'[v] = <<"trap", "trap">> /\ todo' = rest
  <2>1. /\ StoreLo(v, "trap") => /\ idt' \in [Vectors -> Handlers \X Handlers]
                                 /\ idt'[v] = <<"trap", idt[v][2]>>
                                 /\ \A w \in Vectors : w # v => idt'[w] = idt[w]
        /\ StoreHi(v, "trap") => /\ idt' \in [Vectors -> Handlers \X Handlers]
                                 /\ idt'[v] = <<idt[v][1], "trap">>
                                 /\ \A w \in Vectors : w # v => idt'[w] = idt[w]
    BY <1>3, <1>5, HalfStored
  <2>2. CASE StoreLo(v, "trap") /\ todo' = todo
    BY <2>1, <2>2
  <2>3. CASE idt[v][1] = "trap" /\ StoreHi(v, "trap") /\ todo' = rest
    BY <2>1, <2>3
  <2> QED BY <1>2, <2>2, <2>3
<1>7. TypeOK'
  BY <1>2, <1>3, <1>4, <1>6 DEF InterruptsInv, TypeOK
<1>8. idt'[v] \in Halves
  <2>1. idt[v] \in Halves
    BY <1>1, <1>4 DEF InterruptsInv, TablesWhen
  <2> QED BY <1>6, <2>1 DEF Halves
<1>9. TablesWhen'
  <2>1. \A w \in Exceptions : idt'[w] \in Halves
    <3> SUFFICES ASSUME NEW w \in Exceptions, w # v PROVE idt'[w] \in Halves
      BY <1>8
    <3>1. idt'[w] = idt[w]
      BY <1>6, VectorsAre
    <3> QED BY <1>1, <3>1 DEF InterruptsInv, TablesWhen
  <2>2. \A w \in 33..63 : idt'[w] = idt[w]
    BY <1>5, <1>6, VectorsAre
  <2>3. idt'[32] = idt[32]
    BY <1>5, <1>6, VectorsAre
  <2> QED BY <1>1, <1>2, <2>1, <2>2, <2>3 DEF InterruptsInv, TablesWhen
<1>10. TrapsWhen'
  <2>1. ASSUME NEW w \in Range(Traps)
        PROVE  w \in Range(todo') \/ idt'[w] = <<"trap", "trap">>
    <3>1. w \in Vectors /\ (w \in Range(todo) \/ idt[w] = <<"trap", "trap">>)
      BY VectorsAre DEF InterruptsInv, TrapsWhen
    <3>2. CASE w = v
      BY <1>4, <1>6, <3>1, <3>2
    <3>3. CASE w # v
      BY <1>4, <1>6, <3>1, <3>3
    <3> QED BY <3>2, <3>3
  <2> QED BY <1>1, <1>2, <2>1 DEF TrapsWhen
<1>11. FlagWhen' /\ EndedBeforeReturn' /\ NoTickLost'
  BY <1>2 DEF InterruptsInv, FlagWhen, EndedBeforeReturn, NoTickLost
<1> QED BY <1>7, <1>9, <1>10, <1>11 DEF InterruptsInv

-----------------------------------------------------------------------------
(* The hardware and the handlers.                                          *)

\* What a request finds: the handler of the timer, or the default handler.
LEMMA RequestFinds ==
  ASSUME InterruptsInv, NEW n \in Devices, Interrupt(n)
  PROVE  where' = IF n = Timer THEN "pit" ELSE "default"
<1>1. pc \in 8..10
  BY DEF InterruptsInv, FlagWhen, Interrupt
<1>2. base = <<32, 40>> /\ idt[32] = <<"pit", "pit">>
      /\ \A v \in 33..63 : idt[v] = <<"default", "default">>
  BY <1>1 DEF InterruptsInv, TablesWhen
<1>3. n \in 0..15
  BY InterruptsAssumption
<1>4. Vector(n) = 32 + n
  <2>1. CASE n < 8
    BY <1>2, <1>3, <2>1 DEF Vector
  <2>2. CASE n >= 8
    BY <1>2, <1>3, <2>2 DEF Vector
  <2> QED BY <1>3, <2>1, <2>2
<1>5. Vector(n) \in Vectors
  BY <1>3, <1>4 DEF Vectors
<1>6. where' = Handler(Vector(n))
  BY <1>5 DEF Interrupt
<1>7. CASE n = 0
  BY <1>2, <1>4, <1>6, <1>7 DEF Handler, Timer
<1>8. CASE n # 0
  <2>1. Vector(n) \in 33..63
    BY <1>3, <1>4, <1>8
  <2> QED BY <1>2, <1>6, <1>8, <2>1 DEF Handler, Timer
<1> QED BY <1>7, <1>8

\* What a fault finds once main() runs: an entry main() or the table's
\* initialisation has written.
LEMMA FaultFinds ==
  ASSUME InterruptsInv, NEW v \in Range(Traps), Fault(v)
  PROVE  /\ where' \in {"default", "trap", "nowhere"}
         /\ pc > 8 => where' = "trap"
<1>1. pc >= 2 /\ where' = Handler(v)
  BY DEF Fault, InterruptsInv, TypeOK
<1>2. idt[v] \in Halves
  BY <1>1, VectorsAre DEF InterruptsInv, TablesWhen
<1>3. where' \in {"default", "trap", "nowhere"}
  BY <1>1, <1>2 DEF Handler, Halves
<1>4. ASSUME pc > 8 PROVE where' = "trap"
  <2>1. Range(todo) = {}
    BY <1>4 DEF InterruptsInv, TrapsWhen, Range
  <2>2. idt[v] = <<"trap", "trap">>
    BY <2>1 DEF InterruptsInv, TrapsWhen
  <2> QED BY <1>1, <2>2 DEF Handler
<1> QED BY <1>3, <1>4

LEMMA InterruptTaken ==
  ASSUME InterruptsInv, NEW n \in Devices, Interrupt(n) PROVE InterruptsInv'
<1>1. /\ flag /\ n \in irr \ imr /\ irr' = irr \ {n} /\ isr' = isr \cup {n} /\ flag' = FALSE
      /\ count' = IF n = Timer THEN (count + 1) % UINT32 ELSE count
      /\ UNCHANGED <<pc, todo, idt, base, imr, ticks, call, prev, faulted>>
  BY DEF Interrupt
<1>2. where' = IF n = Timer THEN "pit" ELSE "default"
  BY RequestFinds
<1>3. where = "main" /\ pc \in 8..10 /\ isr = {} /\ ticks = count
  BY <1>1 DEF InterruptsInv, FlagWhen, EndedBeforeReturn, NoTickLost
<1>4. /\ count' \in 0..(UINT32 - 1) /\ (n = Timer => ticks' = (count' - 1) % UINT32)
  <2>1. count \in 0..(UINT32 - 1)
    BY DEF InterruptsInv, TypeOK
  <2>2. /\ (count + 1) % UINT32 \in 0..(UINT32 - 1)
        /\ (((count + 1) % UINT32) - 1) % UINT32 = count
    BY <2>1, Counted
  <2> QED BY <1>1, <1>3, <2>1, <2>2
<1>5. TypeOK'
  BY <1>1, <1>2, <1>4 DEF InterruptsInv, TypeOK
<1>6. FlagWhen' /\ EndedBeforeReturn' /\ NoTickLost'
  BY <1>1, <1>2, <1>3, <1>4 DEF FlagWhen, EndedBeforeReturn, NoTickLost
<1>7. TablesWhen' /\ TrapsWhen'
  BY <1>1 DEF InterruptsInv, TablesWhen, TrapsWhen
<1> QED BY <1>5, <1>6, <1>7 DEF InterruptsInv

LEMMA FaultTaken ==
  ASSUME InterruptsInv, NEW v \in Range(Traps), Fault(v) PROVE InterruptsInv'
<1>1. /\ flag' = FALSE /\ faulted' = TRUE
      /\ UNCHANGED <<pc, todo, idt, base, irr, isr, imr, ticks, call, prev, count>>
  BY DEF Fault, picVars, tickVars
<1>2. where' \in {"default", "trap", "nowhere"}
  BY FaultFinds
<1>3. flag' \in BOOLEAN /\ faulted' \in BOOLEAN
  BY <1>1
<1>4. TypeOK'
  BY <1>1, <1>2, <1>3 DEF InterruptsInv, TypeOK
<1>5. FlagWhen' /\ EndedBeforeReturn' /\ NoTickLost'
  BY <1>1, <1>2 DEF FlagWhen, EndedBeforeReturn, NoTickLost
<1>6. TablesWhen' /\ TrapsWhen'
  BY <1>1 DEF InterruptsInv, TablesWhen, TrapsWhen
<1> QED BY <1>4, <1>5, <1>6 DEF InterruptsInv

\* A request changes nothing until the CPU takes it.
LEMMA RequestRaised ==
  ASSUME InterruptsInv, irr' \subseteq Devices,
         UNCHANGED <<pc, todo, idt, flag, where, base, isr, imr, ticks, call, prev, count,
                     faulted>>
  PROVE  InterruptsInv'
<1>1. TypeOK'
  BY DEF InterruptsInv, TypeOK
<1>2. FlagWhen' /\ TrapsWhen'
  BY DEF InterruptsInv, FlagWhen, TrapsWhen
<1>3. TablesWhen'
  BY DEF InterruptsInv, TablesWhen
<1>4. EndedBeforeReturn' /\ NoTickLost'
  BY DEF InterruptsInv, EndedBeforeReturn, NoTickLost
<1> QED BY <1>1, <1>2, <1>3, <1>4 DEF InterruptsInv

\* i86_pit_set_tickcount, between two interrupts.
LEMMA TickcountSet ==
  ASSUME InterruptsInv, TickcountStep PROVE InterruptsInv'
<1>1. /\ where = "main"
      /\ UNCHANGED <<pc, todo, idt, flag, where, base, irr, isr, imr, faulted>>
      /\ call' \in {"none", "read", "set"}
      /\ prev' \in {prev, ticks}
      /\ \/ UNCHANGED <<ticks, count>>
         \/ ticks' \in SetTicks /\ count' = ticks'
  BY DEF TickcountStep, SetTickcount, ReturnTickcount, cpuVars, picVars
<1>2. SetTicks \subseteq 0..(UINT32 - 1)
  BY InterruptsAssumption
<1>3. /\ ticks' \in 0..(UINT32 - 1) /\ count' \in 0..(UINT32 - 1) /\ prev' \in 0..(UINT32 - 1)
      /\ ticks' = count'
  BY <1>1, <1>2 DEF InterruptsInv, TypeOK, NoTickLost
<1>4. TypeOK'
  BY <1>1, <1>3 DEF InterruptsInv, TypeOK
<1> QED BY <1>1, <1>3, <1>4 DEF InterruptsInv, FlagWhen, TablesWhen, TrapsWhen,
                                EndedBeforeReturn, NoTickLost

\* The timer's handler counts, ends the request it is for, and returns.
LEMMA TimerHandled ==
  ASSUME InterruptsInv, HandlerStep PROVE InterruptsInv'
<1>1. CASE PitCount
  <2>1. /\ where = "pit" /\ where' = "pit_done" /\ ticks' = (ticks + 1) % UINT32
        /\ UNCHANGED <<pc, todo, idt, flag, base, irr, isr, imr, call, prev, count, faulted>>
    BY <1>1 DEF PitCount, picVars
  <2>2. ticks' = count /\ count \in 0..(UINT32 - 1)
    <3>1. count \in 0..(UINT32 - 1) /\ ticks = (count - 1) % UINT32
      BY <2>1 DEF InterruptsInv, TypeOK, NoTickLost
    <3>2. (((count - 1) % UINT32) + 1) % UINT32 = count
      BY <3>1, Counted
    <3> QED BY <2>1, <3>1, <3>2
  <2>3. TypeOK'
    BY <2>1, <2>2 DEF InterruptsInv, TypeOK
  <2>4. TablesWhen' /\ TrapsWhen'
    BY <2>1 DEF InterruptsInv, TablesWhen, TrapsWhen
  <2> QED BY <2>1, <2>2, <2>3, <2>4 DEF InterruptsInv, FlagWhen, EndedBeforeReturn, NoTickLost
<1>2. CASE PitDone
  <2>1. /\ where = "pit_done" /\ where' = "pit_return"
        /\ isr' = EndOfInterrupt(isr, 0)
        /\ UNCHANGED <<pc, todo, idt, flag, base, irr, imr, ticks, call, prev, count, faulted>>
    BY <1>2 DEF PitDone, interruptdone, Timer, tickVars
  <2>2. isr = {0}
    BY <2>1 DEF InterruptsInv, EndedBeforeReturn, Timer
  <2>3. isr' = {}
    <3>1. {n \in isr : (n >= 8) = (0 = 1)} = {0}
      BY <2>2
    <3>2. Min({0}) = 0
      BY DEF Min
    <3> QED BY <2>1, <2>2, <3>1, <3>2 DEF EndOfInterrupt
  <2>4. TypeOK'
    BY <2>1, <2>3 DEF InterruptsInv, TypeOK
  <2>5. TablesWhen' /\ TrapsWhen'
    BY <2>1 DEF InterruptsInv, TablesWhen, TrapsWhen
  <2> QED BY <2>1, <2>3, <2>4, <2>5 DEF InterruptsInv, FlagWhen, EndedBeforeReturn, NoTickLost
<1>3. CASE PitReturn
  <2>1. /\ where = "pit_return" /\ where' = "main" /\ flag' = TRUE
        /\ UNCHANGED <<pc, todo, idt, base, irr, isr, imr, ticks, call, prev, count, faulted>>
    BY <1>3 DEF PitReturn, picVars, tickVars
  <2>2. TypeOK'
    <3>1. flag' \in BOOLEAN
      BY <2>1
    <3> QED BY <2>1, <3>1 DEF InterruptsInv, TypeOK
  <2>3. TablesWhen' /\ TrapsWhen'
    BY <2>1 DEF InterruptsInv, TablesWhen, TrapsWhen
  <2>4. FlagWhen'
    BY <2>1 DEF InterruptsInv, FlagWhen
  <2>5. EndedBeforeReturn' /\ NoTickLost'
    BY <2>1 DEF InterruptsInv, EndedBeforeReturn, NoTickLost
  <2> QED BY <2>2, <2>3, <2>4, <2>5 DEF InterruptsInv
<1> QED BY <1>1, <1>2, <1>3 DEF HandlerStep

\* Every step keeps the invariant.
LEMMA InterruptsStep == InterruptsInv /\ [Next]_vars => InterruptsInv'
<1> SUFFICES ASSUME InterruptsInv, [Next]_vars PROVE InterruptsInv'
  OBVIOUS
<1>1. CASE MainStep
  <2>1. where = "main" /\ UNCHANGED faulted
    BY <1>1 DEF MainStep
  <2>2. CASE SetTrap
    BY <2>1, <2>2, TrapIsSet
  <2>3. CASE ~SetTrap
    BY <1>1, <2>1, <2>3, MainAdvances DEF MainStep
  <2> QED BY <2>2, <2>3
<1>2. CASE TickcountStep
  BY <1>2, TickcountSet
<1>3. ASSUME NEW n \in Devices, Raise(n) \/ Interrupt(n) PROVE InterruptsInv'
  <2>1. CASE Raise(n)
    <3>1. irr' \subseteq Devices
      BY <2>1 DEF Raise, InterruptsInv, TypeOK
    <3> QED BY <2>1, <3>1, RequestRaised DEF Raise, cpuVars, tickVars
  <2> QED BY <1>3, <2>1, InterruptTaken
<1>4. ASSUME NEW v \in Range(Traps), Fault(v) PROVE InterruptsInv'
  BY <1>4, FaultTaken
<1>5. CASE HandlerStep
  BY <1>5, TimerHandled
<1>6. CASE UNCHANGED vars
  <2>1. irr' \subseteq Devices
    BY <1>6 DEF vars, picVars, InterruptsInv, TypeOK
  <2> QED BY <1>6, <2>1, RequestRaised DEF vars, cpuVars, picVars, tickVars
<1> QED BY <1>1, <1>2, <1>3, <1>4, <1>5, <1>6 DEF Next

LEMMA InterruptsInvariant == Spec => []InterruptsInv
BY InterruptsInit, InterruptsStep, PTL DEF Spec

-----------------------------------------------------------------------------

\* Whatever interrupts and faults come at whatever moment, the table, the
\* controllers and the counter hold what their types allow.
THEOREM InterruptsTyped == Spec => []TypeOK
<1>1. InterruptsInv => TypeOK
  BY DEF InterruptsInv
<1> QED BY <1>1, InterruptsInvariant, PTL

\* The request in service is always that of the handler that runs, and none is
\* left when it returns: the end of interrupt that the handler sends ends its
\* own request (pit.cpp:16-31, Hal.cpp:43-60).
THEOREM RequestsEnd == Spec => []EndedBeforeReturn
<1>1. InterruptsInv => EndedBeforeReturn
  BY DEF InterruptsInv
<1> QED BY <1>1, InterruptsInvariant, PTL

\* No tick is lost or counted twice, for every width of the counter and every
\* interleaving of the timer with i86_pit_set_tickcount (pit.cpp:16-20,
\* 79-103).
THEOREM TicksAreCounted == Spec => []NoTickLost
<1>1. InterruptsInv => NoTickLost
  BY DEF InterruptsInv
<1> QED BY <1>1, InterruptsInvariant, PTL

\* Every request that is taken, for every set of devices, finds the timer's
\* handler or the default one: never an exception's vector, an empty one or one
\* that is half written (Hal.cpp:12-25, pic.cpp:110-139, idt.cpp:71-112).
THEOREM RequestsFind == Spec => RequestsFindTheirHandlers
<1>1. InterruptsInv /\ [Next]_vars
        => [\A n \in Devices :
              Interrupt(n) => where' = IF n = Timer THEN "pit" ELSE "default"]_vars
  BY RequestFinds
<1> QED BY <1>1, InterruptsInvariant, PTL DEF Spec, RequestsFindTheirHandlers

\* Once main() has set its vectors, a fault at any vector of them, in main() or
\* in the timer's handler, ends in the handler main() set (main.cpp:40-57).
THEOREM FaultsFind == Spec => FaultsReachTheirHandlers
<1>1. InterruptsInv /\ [Next]_vars
        => [pc > 8 => \A v \in Range(Traps) : Fault(v) => where' = "trap"]_vars
  BY FaultFinds
<1> QED BY <1>1, InterruptsInvariant, PTL DEF Spec, FaultsReachTheirHandlers
=============================================================================
