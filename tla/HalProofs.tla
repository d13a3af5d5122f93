------------------------------- MODULE HalProofs -------------------------------
(***************************************************************************)
(* What the processor and the timer read is what was written, for every    *)
(* address, every limit and every rate: the bytes a value is cut into are  *)
(* put together to the value.                                              *)
(***************************************************************************)
EXTENDS Hal, TLAPS

\* Division with remainder, and that it is the only one.
LEMMA DivMod ==
  ASSUME NEW n \in Nat, NEW w \in Nat \ {0}
  PROVE  /\ n \div w \in Nat
         /\ n % w \in 0..(w - 1)
         /\ n = (n \div w) * w + (n % w)
OBVIOUS

LEMMA DivModUnique ==
  ASSUME NEW w \in Nat \ {0}, NEW q \in Nat, NEW r \in 0..(w - 1)
  PROVE  (q * w + r) \div w = q /\ (q * w + r) % w = r
<1> DEFINE n == q * w + r
           d == n \div w
           m == n % w
<1>1. n \in Nat
  OBVIOUS
<1>2. d \in Nat /\ m \in 0..(w - 1) /\ n = d * w + m
  BY <1>1, DivMod
<1> HIDE DEF d, m
<1>3. (d - q) * w = r - m
  BY <1>2
<1>4. d = q
  <2>1. CASE d > q
    <3>1. (d - q) * w >= w
      BY <2>1, <1>2
    <3> QED BY <3>1, <1>2, <1>3
  <2>2. CASE d < q
    <3>1. (q - d) * w >= w
      BY <2>2, <1>2
    <3>2. (q - d) * w = m - r
      BY <1>2
    <3> QED BY <3>1, <3>2, <1>2
  <2> QED BY <2>1, <2>2, <1>2
<1>5. m = r
  BY <1>2, <1>4
<1> QED BY <1>4, <1>5 DEF d, m

LEMMA Widths ==
  /\ NIBBLE \in Nat \ {0, 1} /\ BYTE \in Nat \ {0} /\ WORD \in Nat \ {0}
  /\ PAGE \in Nat \ {0} /\ UINT32 \in Nat \ {0}
<1>1. NIBBLE \in Nat \ {0, 1}
  BY DescriptorsAssumption
<1>2. \A a, b \in Nat \ {0} : a * b \in Nat \ {0}
  <2> SUFFICES ASSUME NEW a \in Nat \ {0}, NEW b \in Nat \ {0} PROVE a * b \in Nat \ {0}
    OBVIOUS
  <2>1. a * b >= b
    OBVIOUS
  <2> QED BY <2>1
<1>3. BYTE \in Nat \ {0}
  BY <1>1, <1>2 DEF BYTE
<1>4. WORD \in Nat \ {0}
  BY <1>2, <1>3 DEF WORD
<1> QED BY <1>1, <1>2, <1>3, <1>4 DEF PAGE, UINT32

\* A digit less than w, in front of one less than v, is less than their product.
LEMMA Digits ==
  ASSUME NEW w \in Nat \ {0}, NEW v \in Nat \ {0}, NEW r \in 0..(w - 1), NEW q \in Nat
  PROVE  /\ q < v => (q * w) + r < v * w
         /\ (q * w) + r < v * w => q < v
<1>1. ASSUME q < v PROVE (q * w) + r < v * w
  <2>1. (q + 1) * w =< v * w
    BY <1>1
  <2>2. (q + 1) * w = (q * w) + w
    OBVIOUS
  <2> QED BY <2>1, <2>2
<1>2. ASSUME q >= v PROVE (q * w) + r >= v * w
  <2>1. q * w >= v * w
    BY <1>2
  <2> QED BY <2>1
<1>3. (q * w) + r \in Nat /\ v * w \in Nat
  OBVIOUS
<1> QED BY <1>1, <1>2, <1>3

\* A number of one word and two bytes is put together from its three parts.
LEMMA ThreeParts ==
  ASSUME NEW w \in Nat \ {0}, NEW b \in Nat \ {0}, NEW n \in Nat, n < (b * b) * w
  PROVE  (n % w) + (w * (((n \div w) % b) + (b * ((n \div (w * b)) % b)))) = n
<1> DEFINE q == n \div w
           r == n % w
           t == q \div b
           s == q % b
<1>1. q \in Nat /\ r \in 0..(w - 1) /\ n = (q * w) + r
  BY DivMod
<1> HIDE DEF q, r
<1>2. t \in Nat /\ s \in 0..(b - 1) /\ q = (t * b) + s
  BY <1>1, DivMod
<1> HIDE DEF t, s
<1>3. b * b \in Nat \ {0} /\ b * w \in Nat \ {0} /\ b * w = w * b
  <2>1. b * b >= b /\ b * w >= w
    OBVIOUS
  <2> QED BY <2>1
<1>4. q < b * b
  BY <1>1, <1>3, Digits
<1>5. t < b
  BY <1>2, <1>4, Digits
<1>6. (s * w) + r \in 0..((b * w) - 1)
  BY <1>1, <1>2, Digits
<1>7. n = (t * (b * w)) + ((s * w) + r)
  <2>1. ((t * b) + s) * w = (t * (b * w)) + (s * w)
    BY <1>2
  <2> QED BY <1>1, <1>2, <2>1
<1>8. n \div (w * b) = t
  <2> DEFINE m == b * w
             k == (s * w) + r
  <2>1. m \in Nat \ {0} /\ k \in 0..(m - 1) /\ n = (t * m) + k /\ m = w * b
    BY <1>3, <1>6, <1>7
  <2> HIDE DEF m, k
  <2> QED BY <1>2, <2>1, DivModUnique
<1>9. t % b = t
  BY <1>2, <1>5
<1>10. (n % w) + (w * (((n \div w) % b) + (b * ((n \div (w * b)) % b)))) = r + (w * (s + (b * t)))
  BY <1>8, <1>9 DEF q, r, s
<1>11. r + (w * (s + (b * t))) = (q * w) + r
  <2>1. s + (b * t) = q
    BY <1>2
  <2> QED BY <1>1, <2>1
<1> QED BY <1>1, <1>10, <1>11

LEMMA TwoParts ==
  ASSUME NEW w \in Nat \ {0}, NEW n \in Nat
  PROVE  (n % w) + (w * (n \div w)) = n
<1> DEFINE q == n \div w
           r == n % w
<1>1. q \in Nat /\ r \in 0..(w - 1) /\ n = (q * w) + r
  BY DivMod
<1> HIDE DEF q, r
<1>2. r + (w * q) = n
  BY <1>1
<1> QED BY <1>2 DEF q, r

\* The base of a segment is the address it was given, and its first and last
\* bits are not lost between the three fields (gdt.cpp:73-75, gdt.h:36-43).
THEOREM BaseReadsBack ==
  \A base, limit \in 0..(UINT32 - 1) : \A access, grand :
    SegmentBase(gdt_set_descriptor(base, limit, access, grand)) = base
<1> SUFFICES ASSUME NEW base \in 0..(UINT32 - 1), NEW limit \in 0..(UINT32 - 1),
                    NEW access, NEW grand
             PROVE  SegmentBase(gdt_set_descriptor(base, limit, access, grand)) = base
  OBVIOUS
<1>1. WORD \in Nat \ {0} /\ BYTE \in Nat \ {0} /\ UINT32 \in Nat /\ UINT32 = (BYTE * BYTE) * WORD
  BY Widths DEF UINT32, WORD
<1>2. base \in Nat /\ base < (BYTE * BYTE) * WORD
  BY <1>1
<1> QED BY <1>1, <1>2, ThreeParts DEF SegmentBase, gdt_set_descriptor

\* Where an interrupt goes is the handler its vector was given, and getvect
\* returns it, for every address (idt.cpp:79-87, Hal.cpp:107-117).
THEOREM HandlerReadsBack ==
  \A handler \in 0..(UINT32 - 1) : getvect(Gate(handler)) = handler
<1> SUFFICES ASSUME NEW handler \in 0..(UINT32 - 1) PROVE getvect(Gate(handler)) = handler
  OBVIOUS
<1>1. WORD \in Nat \ {0} /\ handler \in Nat
  BY Widths
<1>2. (handler % WORD) + (WORD * (handler \div WORD)) = handler
  BY <1>1, TwoParts
<1> QED BY <1>2 DEF getvect, Gate, idt_descriptor

\* The bits of 0xffffffff: both parts of its limit are all ones.
LEMMA AllOnes ==
  (UINT32 - 1) % WORD = WORD - 1 /\ ((UINT32 - 1) \div WORD) % NIBBLE = NIBBLE - 1
<1>1. WORD \in Nat \ {0} /\ BYTE \in Nat \ {0} /\ NIBBLE \in Nat \ {0, 1} /\ UINT32 = WORD * WORD
  BY Widths DEF UINT32
<1>2. UINT32 - 1 = ((WORD - 1) * WORD) + (WORD - 1) /\ WORD - 1 \in 0..(WORD - 1)
  BY <1>1
<1>3. (UINT32 - 1) % WORD = WORD - 1 /\ (UINT32 - 1) \div WORD = WORD - 1
  BY <1>1, <1>2, DivModUnique
<1> DEFINE K == NIBBLE * BYTE
<1>4. K \in Nat \ {0} /\ WORD = K * NIBBLE
  <2>1. K \in Nat \ {0}
    BY Widths DEF PAGE
  <2>2. K * NIBBLE = BYTE * BYTE
    BY <1>1 DEF BYTE
  <2> QED BY <2>1, <2>2 DEF WORD
<1> HIDE DEF K
<1>5. WORD - 1 = ((K - 1) * NIBBLE) + (NIBBLE - 1) /\ K - 1 \in Nat /\ NIBBLE - 1 \in 0..(NIBBLE - 1)
  BY <1>1, <1>4
<1>6. (WORD - 1) % NIBBLE = NIBBLE - 1
  BY <1>1, <1>5, DivModUnique
<1> QED BY <1>3, <1>6

\* The kernel's descriptors mean the same segments as the loader's, whatever the
\* width of the fields: the code that runs while the table is replaced keeps the
\* segments it has (gdt.cpp:102-113, gdt.inc:21-39).
THEOREM TablesAgree ==
  \A i \in 0..2 : Segment(i86_gdt_initialize[i]) = Segment(gdt_data[i])
<1>1. WORD \in Nat \ {0} /\ BYTE \in Nat \ {0} /\ UINT32 \in Nat \ {0} /\ WORD * BYTE \in Nat \ {0}
  <2>1. \A a, b \in Nat \ {0} : a * b >= b
    OBVIOUS
  <2>2. WORD * BYTE >= BYTE
    BY <2>1, Widths
  <2> QED BY <2>2, Widths
<1>2. \A w \in Nat \ {0} : 0 % w = 0 /\ 0 \div w = 0
  <2> SUFFICES ASSUME NEW w \in Nat \ {0} PROVE 0 % w = 0 /\ 0 \div w = 0
    OBVIOUS
  <2>1. 0 = (0 * w) + 0 /\ 0 \in 0..(w - 1)
    OBVIOUS
  <2> QED BY <2>1, DivModUnique
<1>3. 0 % WORD = 0 /\ (0 \div WORD) % BYTE = 0 /\ (0 \div (WORD * BYTE)) % BYTE = 0
  BY <1>1, <1>2
<1>4. ASSUME NEW access
      PROVE  gdt_set_descriptor(0, UINT32 - 1, access, Flat) =
               [limit |-> WORD - 1, baseLo |-> 0, baseMid |-> 0, baseHi |-> 0,
                flags |-> access, limitHi |-> NIBBLE - 1, grand |-> Flat]
  BY <1>3, AllOnes DEF gdt_set_descriptor
<1>5. i86_gdt_initialize[0] = gdt_data[0]
  BY DEF i86_gdt_initialize, gdt_data
<1>6. i86_gdt_initialize[1] = gdt_data[1]
  <2>1. i86_gdt_initialize[1] = gdt_set_descriptor(0, UINT32 - 1, Code, Flat)
    BY DEF i86_gdt_initialize
  <2>2. gdt_data[1] = [limit |-> WORD - 1, baseLo |-> 0, baseMid |-> 0, baseHi |-> 0,
                       flags |-> Code, limitHi |-> NIBBLE - 1, grand |-> Flat]
    BY DEF gdt_data
  <2> QED BY <1>4, <2>1, <2>2
<1>7. i86_gdt_initialize[2] = gdt_data[2]
  <2>1. i86_gdt_initialize[2] = gdt_set_descriptor(0, UINT32 - 1, Data, Flat)
    BY DEF i86_gdt_initialize
  <2>2. gdt_data[2] = [limit |-> WORD - 1, baseLo |-> 0, baseMid |-> 0, baseHi |-> 0,
                       flags |-> Data, limitHi |-> NIBBLE - 1, grand |-> Flat]
    BY DEF gdt_data
  <2> QED BY <1>4, <2>1, <2>2
<1>8. 0..2 = {0, 1, 2}
  OBVIOUS
<1> QED BY <1>5, <1>6, <1>7, <1>8

-----------------------------------------------------------------------------
\* The division of a clock by a rate, in fields of m, when the rate is one that
\* the quotient leaves room for.
LEMMA Quotient ==
  ASSUME NEW c \in Nat, NEW m \in Nat \ {0}, NEW least \in Nat, NEW f \in Nat \ {0},
         least =< f, f < m, c < m * least
  PROVE  /\ (c \div (f % m)) % m = c \div f
         /\ c \div f \in 0..(m - 1)
         /\ (c \div f) * f =< c /\ c < ((c \div f) + 1) * f
<1> DEFINE d == c \div f
           r == c % f
<1>1. d \in Nat /\ r \in 0..(f - 1) /\ c = (d * f) + r
  BY DivMod
<1> HIDE DEF d, r
<1>2. d < m
  <2>1. m * least =< m * f
    OBVIOUS
  <2>2. (d * f) + r < m * f
    BY <1>1, <2>1
  <2> QED BY <1>1, <2>2, Digits
<1>3. f % m = f /\ d % m = d
  BY <1>1, <1>2
<1>4. (d + 1) * f = (d * f) + f
  BY <1>1
<1> QED BY <1>1, <1>2, <1>3, <1>4 DEF d

LEMMA TwoBytes ==
  ASSUME NEW b \in Nat \ {0}, NEW d \in Nat, d < b * b
  PROVE  (d % b) + (b * ((d \div b) % b)) = d
<1> DEFINE q == d \div b
           r == d % b
<1>1. q \in Nat /\ r \in 0..(b - 1) /\ d = (q * b) + r
  BY DivMod
<1> HIDE DEF q, r
<1>2. q < b
  BY <1>1, Digits
<1>3. q % b = q /\ r + (b * q) = d
  BY <1>1, <1>2
<1> QED BY <1>3 DEF q, r

\* The rates whose divisor sixteen bits can hold.
RatesThatFit == {freq \in Nat : 19 =< freq /\ freq < 65536}

\* Every rate from 19 to 65535 gets the divisor whose rate is the closest that
\* is not below it, whole, in the two bytes the timer is sent (pit.cpp:88-103).
THEOREM DivisorCorrect ==
  \A freq \in RatesThatFit :
    IsDivisor(LowByte(Divisor(freq)) + (256 * HighByte(Divisor(freq))), freq)
<1> SUFFICES ASSUME NEW freq \in RatesThatFit
             PROVE  IsDivisor(LowByte(Divisor(freq)) + (256 * HighByte(Divisor(freq))), freq)
  OBVIOUS
<1> DEFINE m == 65536
           least == 19
           d == Clock \div freq
<1>1. /\ freq \in Nat \ {0} /\ least =< freq /\ freq < m
      /\ m \in Nat \ {0} /\ least \in Nat /\ Clock \in Nat /\ Clock < m * least
  BY DEF RatesThatFit, Clock
<1>2. Divisor(freq) = (Clock \div (freq % m)) % m
  BY DEF Divisor
<1>3. m = 256 * 256
  OBVIOUS
<1> HIDE DEF m, least
<1>4. /\ (Clock \div (freq % m)) % m = Clock \div freq
      /\ Clock \div freq \in 0..(m - 1)
      /\ (Clock \div freq) * freq =< Clock /\ Clock < ((Clock \div freq) + 1) * freq
  BY <1>1, Quotient
<1> HIDE DEF d
<1>5. Divisor(freq) = d /\ d \in 0..(m - 1) /\ d * freq =< Clock /\ Clock < (d + 1) * freq
  BY <1>2, <1>4 DEF d
<1>6. d \in Nat /\ d < 256 * 256
  BY <1>1, <1>3, <1>5
<1>7. LowByte(d) + (256 * HighByte(d)) = d
  BY <1>6, TwoBytes DEF LowByte, HighByte
<1> QED BY <1>5, <1>7 DEF IsDivisor

-----------------------------------------------------------------------------
(* The inductive invariant of hal_initialize and of the calls after it.    *)

CounterNumbers == 0..2
Asking(c, freq) == [do |-> "asked", counter |-> c, freq |-> freq]
Words == {"lgdt", "idt", "lidt", "cli", "sti", "unmask_timer", "divide_by_zero"}
Statements ==
  [do : Words] \cup [do : {"out"}, port : Nat, value : Nat]
  \cup [do : {"gate"}, i : Nat, handler : Nat] \cup [do : {"asked"}, counter : CounterNumbers, freq : Nat]

Controllers == [expects : {"base", "wiring", "mode", "mask"}, base : Nat, wiring : Nat,
                mode : Nat, mask : Nat]
Gates == [baseLo : Nat, baseHi : Nat, sel : {0, 8}, flags : SUBSET {"present", "bit32"}]
Counters == [expects : {"low", "high"}, mode : Nat, low : Nat, reload : Nat]

HalTyped ==
  /\ todo \in Seq(Statements)
  /\ idt \in [0..MaxInterrupts -> Gates]
  /\ stored \in 0..4
  /\ set \in [0..(MaxInterrupts - 1) -> 0..(UINT32 - 1)]
  /\ pic \in [0..1 -> Controllers]
  /\ pit \in [CounterNumbers -> Counters]
  /\ asked \in [CounterNumbers -> Nat]
  /\ lidt \in BOOLEAN

\* One of the two tables is in force, and the processor has loaded its segments.
SegmentsLoaded ==
  /\ gdt \in {gdt_data, i86_gdt_initialize}
  /\ cs = Segment(gdt_data[1]) /\ ds = Segment(gdt_data[2])

\* Every gate of the table leads to the handler its vector was given.
GatesSet ==
  \A i \in 0..(MaxInterrupts - 1) : set[i] \in 1..(UINT32 - 1) /\ idt[i] = Gate(set[i])

\* A gate with some of the stores of setvect(i, handler): from the second on its
\* address is whole, and segment and flags are those of every gate.
PartOf(gate, handler) ==
  /\ gate.baseLo = handler % WORD
  /\ stored > 1 => gate.baseHi = handler \div WORD
  /\ gate.sel = 8 /\ gate.flags = {"present", "bit32"}

\* Every other gate of the table is whole.
GatesPartly(i, handler) ==
  \A j \in 0..(MaxInterrupts - 1) :
    /\ set[j] \in 1..(UINT32 - 1)
    /\ IF j = i THEN set[j] = handler /\ PartOf(idt[j], handler) ELSE idt[j] = Gate(set[j])

\* A controller has had n of its words, the first command counted.
HasHad(p, n, base, wiring) ==
  /\ p.mask = 0
  /\ n = 1 => p.expects = "base"
  /\ n = 2 => p.expects = "wiring"
  /\ n = 3 => p.expects = "mode"
  /\ n > 3 => p.expects = "mask"
  /\ n > 1 => p.base = base
  /\ n > 2 => p.wiring = wiring
  /\ n > 3 => p.mode = 1

Programmed(c) ==
  asked[c] \in RatesThatFit => IsDivisor(pit[c].reload, asked[c]) /\ pit[c].mode = 54

\* The words of i86_pic_initialize go to the two controllers in turn.
Had(k) == IF k < 14 THEN (k \div 2) - 2 ELSE 5
PicsAt(k) ==
  /\ k > 5 => HasHad(pic[0], Had(k), 32, 4)
  /\ k > 6 => HasHad(pic[1], Had(k - 1), 40, 2)

\* The first n statements of i86_pit_start_counter(freq, c, SquareWave) are done.
Sent(n, freq, c) ==
  /\ \A d \in CounterNumbers : (d # c \/ n = 0) => Programmed(d)
  /\ n > 0 => asked[c] = freq
  /\ n > 1 => pit[c].mode = 54
  /\ n = 2 => pit[c].expects = "low"
  /\ n = 3 => pit[c].expects = "high" /\ pit[c].low = LowByte(Divisor(freq))

\* What is left of a call when its next statement is the k-th.
LeftFrom(k, call) ==
  /\ Len(todo) = Len(call) + 1 - k
  /\ \A j \in 1..Len(todo) : todo[j] = call[k + j - 1]

\* hal_initialize has come to its k-th statement, gates apart.
Stage(k) ==
  /\ LeftFrom(k, hal_initialize)
  /\ ~flag /\ where = Main
  /\ lidt <=> k > 3
  /\ PicsAt(k)
  /\ IF 17 < k /\ k < 21 THEN Sent(k - 17, 100, 0) ELSE \A c \in CounterNumbers : Programmed(c)

\* And nothing of that statement is done.
Starting(k) == Stage(k) /\ stored = 0 /\ (k > 2 => GatesSet)

\* No call is on its way, or one that does not reach the timer.
Idle ==
  /\ \/ todo = << >>
     \/ todo = << Do("divide_by_zero") >>
     \/ \E i \in Vectors, handler \in Handlers : todo = << setvect(i, handler) >>
  /\ \A c \in CounterNumbers : Programmed(c)

Counting(n, freq, c) ==
  /\ freq % 65536 # 0
  /\ LeftFrom(n + 1, i86_pit_start_counter(freq, c, SquareWave))
  /\ Sent(n, freq, c)

\* It has returned; a call of the kernel's is on its way, or none.
Ready ==
  /\ lidt
  /\ HasHad(pic[0], 5, 32, 4) /\ HasHad(pic[1], 5, 40, 2)
  /\ Idle \/ \E freq \in Rates, c \in {0, 2}, n \in 0..3 : Counting(n, freq, c)

Running == Ready /\ stored = 0 /\ GatesSet

\* A gate is being stored, for hal_initialize or for the kernel; only for the
\* kernel can an interrupt come now.
Storing ==
  /\ stored # 0
  /\ \E i \in 0..MaxInterrupts, handler \in 1..(UINT32 - 1) :
       todo # << >> /\ Head(todo) = setvect(i, handler) /\ GatesPartly(i, handler)
  /\ Stage(16) \/ Ready

HalInv ==
  /\ HalTyped
  /\ SegmentsLoaded
  /\ (\E k \in 1..21 : Starting(k)) \/ Running \/ Storing

-----------------------------------------------------------------------------
(* Sequences of statements.                                                *)

LEMMA StatementsAre ==
  /\ \A what \in Words : Do(what) \in Statements
  /\ \A port, value \in Nat : outportb(port, value) \in Statements
  /\ \A i, handler \in Nat : setvect(i, handler) \in Statements
  /\ \A c \in CounterNumbers, freq \in Nat : Asking(c, freq) \in Statements
BY DEF Statements, Do, outportb, setvect, Asking

\* The bytes of a divisor.
LEMMA DivisorBytes ==
  \A freq \in Nat : freq % 65536 # 0 =>
    LowByte(Divisor(freq)) \in Nat /\ HighByte(Divisor(freq)) \in Nat
<1> SUFFICES ASSUME NEW freq \in Nat, freq % 65536 # 0
             PROVE  LowByte(Divisor(freq)) \in Nat /\ HighByte(Divisor(freq)) \in Nat
  OBVIOUS
<1> DEFINE f == freq % 65536
<1>1. f \in Nat \ {0} /\ Clock \in Nat
  BY DEF Clock
<1> HIDE DEF f
<1>2. Clock \div f \in Nat
  BY <1>1, DivMod
<1>3. Divisor(freq) \in Nat
  BY <1>2, DivMod DEF Divisor, f
<1>4. LowByte(Divisor(freq)) \in Nat
  BY <1>3, DivMod DEF LowByte
<1>5. Divisor(freq) \div 256 \in Nat
  BY <1>3, DivMod
<1>6. HighByte(Divisor(freq)) \in Nat
  <2> DEFINE q == Divisor(freq) \div 256
  <2>1. q \in Nat
    BY <1>5
  <2> HIDE DEF q
  <2>2. q % 256 \in Nat
    BY <2>1
  <2> QED BY <2>2 DEF HighByte, q
<1> QED BY <1>4, <1>6

LEMMA StartCounterIs ==
  ASSUME NEW freq \in Nat, NEW c \in CounterNumbers, freq % 65536 # 0
  PROVE  /\ i86_pit_start_counter(freq, c, SquareWave) \in Seq(Statements)
         /\ Len(i86_pit_start_counter(freq, c, SquareWave)) = 4
         /\ i86_pit_start_counter(freq, c, SquareWave)[1]
              = Asking(c, freq)
         /\ i86_pit_start_counter(freq, c, SquareWave)[2] = outportb(67, (64 * c) + 54)
         /\ i86_pit_start_counter(freq, c, SquareWave)[3]
              = outportb(64 + c, LowByte(Divisor(freq)))
         /\ i86_pit_start_counter(freq, c, SquareWave)[4]
              = outportb(64 + c, HighByte(Divisor(freq)))
<1> DEFINE s1 == Asking(c, freq)
           s2 == outportb(67, (64 * c) + 54)
           s3 == outportb(64 + c, LowByte(Divisor(freq)))
           s4 == outportb(64 + c, HighByte(Divisor(freq)))
<1>1. s1 \in Statements /\ s2 \in Statements /\ s3 \in Statements /\ s4 \in Statements
  BY StatementsAre, DivisorBytes DEF CounterNumbers
<1>2. freq # 0 /\ (64 * c) + 48 + SquareWave = (64 * c) + 54
  BY DEF SquareWave, CounterNumbers
<1>3. i86_pit_start_counter(freq, c, SquareWave) = << s1, s2, s3, s4 >>
  BY <1>2 DEF i86_pit_start_counter, Asking
<1> HIDE DEF s1, s2, s3, s4
<1>4. << s1, s2, s3, s4 >> \in Seq(Statements)
  BY <1>1
<1> QED BY <1>3, <1>4 DEF s1, s2, s3, s4

LEMMA StartCounterTyped ==
  \A freq \in Nat, c \in CounterNumbers : freq % 65536 # 0 =>
    /\ i86_pit_start_counter(freq, c, SquareWave) \in Seq(Statements)
    /\ Len(i86_pit_start_counter(freq, c, SquareWave)) = 4
BY StartCounterIs

LEMMA TimerCounter ==
  /\ i86_pit_start_counter(100, 0, SquareWave) \in Seq(Statements)
  /\ Len(i86_pit_start_counter(100, 0, SquareWave)) = 4
<1> DEFINE freq == 100
           zero == 0
<1>1. freq % 65536 # 0 /\ freq \in Nat /\ zero \in CounterNumbers
  BY DEF CounterNumbers
<1> HIDE DEF freq, zero
<1>2. /\ i86_pit_start_counter(freq, zero, SquareWave) \in Seq(Statements)
      /\ Len(i86_pit_start_counter(freq, zero, SquareWave)) = 4
  BY <1>1, StartCounterTyped
<1> QED BY <1>2 DEF freq, zero

\* The twenty-one statements of hal_initialize.
LEMMA HalStatements ==
  /\ hal_initialize \in Seq(Statements) /\ Len(hal_initialize) = 21
  /\ hal_initialize[1] = Do("lgdt") /\ hal_initialize[2] = Do("idt")
  /\ hal_initialize[3] = Do("lidt") /\ hal_initialize[4] = Do("cli")
  /\ hal_initialize[5] = outportb(32, 17) /\ hal_initialize[6] = outportb(160, 17)
  /\ hal_initialize[7] = outportb(33, 32) /\ hal_initialize[8] = outportb(161, 40)
  /\ hal_initialize[9] = outportb(33, 4) /\ hal_initialize[10] = outportb(161, 2)
  /\ hal_initialize[11] = outportb(33, 1) /\ hal_initialize[12] = outportb(161, 1)
  /\ hal_initialize[13] = outportb(33, 0) /\ hal_initialize[14] = outportb(161, 0)
  /\ hal_initialize[15] = Do("unmask_timer") /\ hal_initialize[16] = setvect(32, PitHandler)
  /\ \A n \in 1..4 : hal_initialize[16 + n] = i86_pit_start_counter(100, 0, SquareWave)[n]
  /\ hal_initialize[21] = Do("sti")
<1> DEFINE a == << Do("lgdt"), Do("idt"), Do("lidt") >>
           b == i86_pic_initialize(32, 40)
           c == << Do("unmask_timer"), setvect(32, PitHandler) >>
           d == i86_pit_start_counter(100, 0, SquareWave)
           e == << Do("sti") >>
<1>1. a \in Seq(Statements) /\ Len(a) = 3
  <2> DEFINE a1 == Do("lgdt")
             a2 == Do("idt")
             a3 == Do("lidt")
  <2>1. a1 \in Statements /\ a2 \in Statements /\ a3 \in Statements
    BY StatementsAre DEF Words
  <2> HIDE DEF a1, a2, a3
  <2>2. << a1, a2, a3 >> \in Seq(Statements)
    BY <2>1
  <2> QED BY <2>2 DEF a1, a2, a3
<1>2. b \in Seq(Statements) /\ Len(b) = 11
  <2>1. b = << Do("cli"), outportb(32, 17), outportb(160, 17), outportb(33, 32),
               outportb(161, 40), outportb(33, 4), outportb(161, 2), outportb(33, 1),
               outportb(161, 1), outportb(33, 0), outportb(161, 0) >>
    BY DEF i86_pic_initialize, i86_pic_send_command, i86_pic_send_data
  <2> DEFINE o1 == outportb(32, 17)
             o2 == outportb(160, 17)
             o3 == outportb(33, 32)
             o4 == outportb(161, 40)
             o5 == outportb(33, 4)
             o6 == outportb(161, 2)
             o7 == outportb(33, 1)
             o8 == outportb(161, 1)
             o9 == outportb(33, 0)
             o10 == outportb(161, 0)
             o0 == Do("cli")
  <2>2. /\ o0 \in Statements /\ o1 \in Statements /\ o2 \in Statements /\ o3 \in Statements
        /\ o4 \in Statements /\ o5 \in Statements /\ o6 \in Statements /\ o7 \in Statements
        /\ o8 \in Statements /\ o9 \in Statements /\ o10 \in Statements
    BY StatementsAre DEF Words
  <2>3. b = << o0, o1, o2, o3, o4, o5, o6, o7, o8, o9, o10 >>
    BY <2>1
  <2> HIDE DEF o0, o1, o2, o3, o4, o5, o6, o7, o8, o9, o10
  <2>4. << o0, o1, o2, o3, o4, o5, o6, o7, o8, o9, o10 >> \in Seq(Statements)
    BY <2>2
  <2>5. Len(<< o0, o1, o2, o3, o4, o5, o6, o7, o8, o9, o10 >>) = 11
    OBVIOUS
  <2> HIDE DEF b
  <2> QED BY <2>3, <2>4, <2>5
<1>3. c \in Seq(Statements) /\ Len(c) = 2
  <2> DEFINE c1 == Do("unmask_timer")
             c2 == setvect(32, PitHandler)
  <2>1. c1 \in Statements /\ c2 \in Statements
    <3>1. PitHandler \in Nat
      BY HalAssumption
    <3> QED BY <3>1, StatementsAre DEF Words
  <2> HIDE DEF c1, c2
  <2>2. << c1, c2 >> \in Seq(Statements) /\ Len(<< c1, c2 >>) = 2
    BY <2>1
  <2> QED BY <2>2 DEF c1, c2
<1>4. d \in Seq(Statements) /\ Len(d) = 4
  BY TimerCounter
<1>5. e \in Seq(Statements) /\ Len(e) = 1
  <2> DEFINE e1 == Do("sti")
  <2>1. e1 \in Statements
    BY StatementsAre DEF Words
  <2> HIDE DEF e1
  <2>2. << e1 >> \in Seq(Statements) /\ Len(<< e1 >>) = 1
    BY <2>1
  <2> QED BY <2>2 DEF e1
<1>6. /\ a[1] = Do("lgdt") /\ a[2] = Do("idt") /\ a[3] = Do("lidt")
      /\ b[1] = Do("cli") /\ b[2] = outportb(32, 17) /\ b[3] = outportb(160, 17)
      /\ b[4] = outportb(33, 32) /\ b[5] = outportb(161, 40) /\ b[6] = outportb(33, 4)
      /\ b[7] = outportb(161, 2) /\ b[8] = outportb(33, 1) /\ b[9] = outportb(161, 1)
      /\ b[10] = outportb(33, 0) /\ b[11] = outportb(161, 0)
      /\ c[1] = Do("unmask_timer") /\ c[2] = setvect(32, PitHandler) /\ e[1] = Do("sti")
  BY DEF i86_pic_initialize, i86_pic_send_command, i86_pic_send_data
<1>7. hal_initialize = (((a \o b) \o c) \o d) \o e
  BY DEF hal_initialize
<1> HIDE DEF a, b, c, d, e
<1> DEFINE ab == a \o b
           abc == ab \o c
           abcd == abc \o d
<1>8. /\ ab \in Seq(Statements) /\ Len(ab) = 14
      /\ \A i \in 1..3 : ab[i] = a[i]
      /\ \A i \in 1..11 : ab[3 + i] = b[i]
  <2>0. a \in Seq(Statements) /\ b \in Seq(Statements)
    BY <1>1, <1>2
  <2>1. a \o b \in Seq(Statements)
    BY <2>0
  <2>2. Len(a \o b) = Len(a) + Len(b)
    BY <2>0
  <2>3. \A i \in 1..Len(a) : (a \o b)[i] = a[i]
    BY <2>0
  <2>4. \A i \in 1..Len(b) : (a \o b)[Len(a) + i] = b[i]
    BY <2>0
  <2>5. Len(a) = 3 /\ Len(b) = 11
    BY <1>1, <1>2
  <2>7. Len(a \o b) = 14
    BY <2>2, <2>5
  <2>8. \A i \in 1..3 : (a \o b)[i] = a[i]
    BY <2>3, <2>5, Zenon
  <2>9. \A i \in 1..11 : (a \o b)[3 + i] = b[i]
    BY <2>4, <2>5, Zenon
  <2> QED BY <2>1, <2>7, <2>8, <2>9
<1> HIDE DEF ab
<1>9. /\ abc \in Seq(Statements) /\ Len(abc) = 16
      /\ \A i \in 1..14 : abc[i] = ab[i]
      /\ \A i \in 1..2 : abc[14 + i] = c[i]
  <2>0. ab \in Seq(Statements) /\ c \in Seq(Statements)
    BY <1>8, <1>3
  <2>1. ab \o c \in Seq(Statements)
    BY <2>0
  <2>2. Len(ab \o c) = Len(ab) + Len(c)
    BY <2>0
  <2>3. \A i \in 1..Len(ab) : (ab \o c)[i] = ab[i]
    BY <2>0
  <2>4. \A i \in 1..Len(c) : (ab \o c)[Len(ab) + i] = c[i]
    BY <2>0
  <2>5. Len(ab) = 14 /\ Len(c) = 2
    BY <1>8, <1>3
  <2>7. Len(ab \o c) = 16
    BY <2>2, <2>5
  <2>8. \A i \in 1..14 : (ab \o c)[i] = ab[i]
    BY <2>3, <2>5, Zenon
  <2>9. \A i \in 1..2 : (ab \o c)[14 + i] = c[i]
    BY <2>4, <2>5, Zenon
  <2> QED BY <2>1, <2>7, <2>8, <2>9
<1> HIDE DEF abc
<1>10. /\ abcd \in Seq(Statements) /\ Len(abcd) = 20
       /\ \A i \in 1..16 : abcd[i] = abc[i]
       /\ \A i \in 1..4 : abcd[16 + i] = d[i]
  <2>0. abc \in Seq(Statements) /\ d \in Seq(Statements)
    BY <1>9, <1>4
  <2>1. abc \o d \in Seq(Statements)
    BY <2>0
  <2>2. Len(abc \o d) = Len(abc) + Len(d)
    BY <2>0
  <2>3. \A i \in 1..Len(abc) : (abc \o d)[i] = abc[i]
    BY <2>0
  <2>4. \A i \in 1..Len(d) : (abc \o d)[Len(abc) + i] = d[i]
    BY <2>0
  <2>5. Len(abc) = 16 /\ Len(d) = 4
    BY <1>9, <1>4
  <2>7. Len(abc \o d) = 20
    BY <2>2, <2>5
  <2>8. \A i \in 1..16 : (abc \o d)[i] = abc[i]
    BY <2>3, <2>5, Zenon
  <2>9. \A i \in 1..4 : (abc \o d)[16 + i] = d[i]
    BY <2>4, <2>5, Zenon
  <2> QED BY <2>1, <2>7, <2>8, <2>9
<1> HIDE DEF abcd
<1>11. /\ hal_initialize \in Seq(Statements) /\ Len(hal_initialize) = 21
       /\ \A i \in 1..20 : hal_initialize[i] = abcd[i]
       /\ hal_initialize[21] = e[1]
  <2>0. abcd \in Seq(Statements) /\ e \in Seq(Statements)
    BY <1>10, <1>5
  <2>1. abcd \o e \in Seq(Statements)
    BY <2>0
  <2>2. Len(abcd \o e) = Len(abcd) + Len(e)
    BY <2>0
  <2>3. \A i \in 1..Len(abcd) : (abcd \o e)[i] = abcd[i]
    BY <2>0
  <2>4. \A i \in 1..Len(e) : (abcd \o e)[Len(abcd) + i] = e[i]
    BY <2>0
  <2>5. Len(abcd) = 20 /\ Len(e) = 1
    BY <1>10, <1>5
  <2>6. hal_initialize = abcd \o e
    BY <1>7 DEF ab, abc, abcd
  <2>7. Len(abcd \o e) = 21
    BY <2>2, <2>5
  <2>8. \A i \in 1..20 : (abcd \o e)[i] = abcd[i]
    BY <2>3, <2>5, Zenon
  <2>9. \A i \in 1..1 : (abcd \o e)[20 + i] = e[i]
    BY <2>4, <2>5, Zenon
  <2>10. (abcd \o e)[21] = e[1]
    <3>1. 1 \in 1..Len(e) /\ Len(abcd) + 1 = 21
      BY <2>5
    <3> QED BY <2>4, <3>1, Zenon
  <2> QED BY <2>1, <2>6, <2>7, <2>8, <2>10, Zenon
<1>12. \A n \in 1..4 : hal_initialize[16 + n] = d[n]
  BY <1>10, <1>11
<1>13. /\ hal_initialize[1] = a[1] /\ hal_initialize[2] = a[2] /\ hal_initialize[3] = a[3]
       /\ hal_initialize[15] = c[1] /\ hal_initialize[16] = c[2]
  BY <1>8, <1>9, <1>10, <1>11
<1>14. \A i \in 1..11 : hal_initialize[3 + i] = b[i]
  BY <1>8, <1>9, <1>10, <1>11
<1>15. /\ hal_initialize[4] = b[1] /\ hal_initialize[5] = b[2] /\ hal_initialize[6] = b[3]
       /\ hal_initialize[7] = b[4] /\ hal_initialize[8] = b[5] /\ hal_initialize[9] = b[6]
       /\ hal_initialize[10] = b[7] /\ hal_initialize[11] = b[8] /\ hal_initialize[12] = b[9]
       /\ hal_initialize[13] = b[10] /\ hal_initialize[14] = b[11]
  BY <1>14
<1>16. \A n \in 1..4 : hal_initialize[16 + n] = i86_pit_start_counter(100, 0, SquareWave)[n]
  BY <1>12 DEF d
<1> QED BY <1>6, <1>11, <1>13, <1>15, <1>16

LEMMA NextStatement ==
  ASSUME NEW call \in Seq(Statements), NEW k \in Nat, 0 < k, k =< Len(call),
         todo \in Seq(Statements), LeftFrom(k, call)
  PROVE  /\ todo # << >> /\ Head(todo) = call[k]
         /\ Done => todo' \in Seq(Statements) /\ LeftFrom(k + 1, call)'
<1>1. Len(todo) = Len(call) + 1 - k /\ Len(todo) > 0 /\ todo[1] = call[k]
  BY DEF LeftFrom
<1>2. todo # << >> /\ Head(todo) = call[k]
  BY <1>1
<1>3. ASSUME Done PROVE todo' \in Seq(Statements) /\ LeftFrom(k + 1, call)'
  <2>1. todo' \in Seq(Statements) /\ Len(todo') = Len(todo) - 1
    BY <1>1, <1>3 DEF Done
  <2>2. \A j \in 1..(Len(todo) - 1) : todo'[j] = todo[j + 1]
    BY <1>1, <1>3 DEF Done
  <2>3. \A j \in 1..Len(todo') : todo'[j] = call[(k + 1) + j - 1]
    BY <1>1, <2>1, <2>2 DEF LeftFrom
  <2>4. Len(todo') = Len(call) + 1 - (k + 1)
    BY <1>1, <2>1
  <2> QED BY <2>1, <2>3, <2>4 DEF LeftFrom
<1> QED BY <1>2, <1>3

LEMMA HalTimer ==
  /\ hal_initialize[17] = Asking(0, 100)
  /\ hal_initialize[18] = outportb(67, 54)
  /\ hal_initialize[19] = outportb(64, LowByte(Divisor(100)))
  /\ hal_initialize[20] = outportb(64, HighByte(Divisor(100)))
<1>1. i86_pit_start_counter(100, 0, SquareWave) =
        << Asking(0, 100), outportb(67, 54), outportb(64, LowByte(Divisor(100))),
           outportb(64, HighByte(Divisor(100))) >>
  BY DEF i86_pit_start_counter, Asking, SquareWave
<1>2. \A n \in 1..4 : hal_initialize[16 + n] = i86_pit_start_counter(100, 0, SquareWave)[n]
  BY HalStatements
<1>3. /\ hal_initialize[17] = i86_pit_start_counter(100, 0, SquareWave)[1]
      /\ hal_initialize[18] = i86_pit_start_counter(100, 0, SquareWave)[2]
      /\ hal_initialize[19] = i86_pit_start_counter(100, 0, SquareWave)[3]
      /\ hal_initialize[20] = i86_pit_start_counter(100, 0, SquareWave)[4]
  BY <1>2
<1> QED BY <1>1, <1>3

-----------------------------------------------------------------------------
(* The chips.                                                              *)

LEMMA PicCommandIs ==
  ASSUME NEW p \in Controllers, NEW base \in Nat, NEW wiring \in Nat
  PROVE  PicCommand(p, 17) \in Controllers /\ HasHad(PicCommand(p, 17), 1, base, wiring)
<1> DEFINE q == PicCommand(p, 17)
<1>1. (17 \div 16) % 2 = 1
  OBVIOUS
<1>2. q = [p EXCEPT !.expects = "base", !.mask = 0]
  BY <1>1 DEF PicCommand
<1> HIDE DEF q
<1>3. q \in Controllers /\ q.expects = "base" /\ q.mask = 0
  BY <1>2 DEF Controllers
<1>4. HasHad(q, 1, base, wiring)
  BY <1>3 DEF HasHad
<1> QED BY <1>3, <1>4 DEF q

LEMMA PicDataIs ==
  ASSUME NEW p \in Controllers, NEW data \in Nat, NEW q, q = PicData(p, data)
  PROVE  /\ q \in Controllers
         /\ p.expects = "base" => /\ q.base = data - (data % 8) /\ q.expects = "wiring"
                                  /\ q.mask = p.mask
         /\ p.expects = "wiring" => /\ q.wiring = data /\ q.expects = "mode"
                                    /\ q.mask = p.mask /\ q.base = p.base
         /\ p.expects = "mode" => /\ q.mode = data /\ q.expects = "mask" /\ q.mask = p.mask
                                  /\ q.base = p.base /\ q.wiring = p.wiring
         /\ p.expects = "mask" => /\ q.mask = data /\ q.expects = "mask" /\ q.mode = p.mode
                                  /\ q.base = p.base /\ q.wiring = p.wiring
<1>1. data - (data % 8) \in Nat
  OBVIOUS
<1>2. p.expects \in {"base", "wiring", "mode", "mask"}
  BY DEF Controllers
<1> QED BY <1>1, <1>2 DEF PicData, Controllers

LEMMA WordTaken ==
  ASSUME NEW p \in Controllers, NEW base \in Nat, base % 8 = 0, NEW wiring \in Nat
  PROVE  /\ HasHad(p, 1, base, wiring) => HasHad(PicData(p, base), 2, base, wiring)
         /\ HasHad(p, 2, base, wiring) => HasHad(PicData(p, wiring), 3, base, wiring)
         /\ HasHad(p, 3, base, wiring) => HasHad(PicData(p, 1), 4, base, wiring)
         /\ HasHad(p, 4, base, wiring) => HasHad(PicData(p, 0), 5, base, wiring)
         /\ HasHad(p, 5, base, wiring) => HasHad(PicData(p, 0), 5, base, wiring)
<1>1. ASSUME HasHad(p, 1, base, wiring) PROVE HasHad(PicData(p, base), 2, base, wiring)
  <2>1. p.mask = 0 /\ p.expects = "base"
    BY <1>1 DEF HasHad
  <2> DEFINE q == PicData(p, base)
  <2>2. q.base = base - (base % 8) /\ q.expects = "wiring" /\ q.mask = p.mask
    BY <2>1, PicDataIs
  <2> HIDE DEF q
  <2>3. HasHad(q, 2, base, wiring)
    BY <2>1, <2>2 DEF HasHad
  <2> QED BY <2>3 DEF q
<1>2. ASSUME HasHad(p, 2, base, wiring) PROVE HasHad(PicData(p, wiring), 3, base, wiring)
  <2>1. p.mask = 0 /\ p.expects = "wiring" /\ p.base = base
    BY <1>2 DEF HasHad
  <2> DEFINE q == PicData(p, wiring)
  <2>2. q.wiring = wiring /\ q.expects = "mode" /\ q.mask = p.mask /\ q.base = p.base
    BY <2>1, PicDataIs
  <2> HIDE DEF q
  <2>3. HasHad(q, 3, base, wiring)
    BY <2>1, <2>2 DEF HasHad
  <2> QED BY <2>3 DEF q
<1>3. ASSUME HasHad(p, 3, base, wiring) PROVE HasHad(PicData(p, 1), 4, base, wiring)
  <2>1. p.mask = 0 /\ p.expects = "mode" /\ p.base = base /\ p.wiring = wiring
    BY <1>3 DEF HasHad
  <2> DEFINE q == PicData(p, 1)
  <2>2. /\ q.mode = 1 /\ q.expects = "mask" /\ q.mask = p.mask
        /\ q.base = p.base /\ q.wiring = p.wiring
    BY <2>1, PicDataIs
  <2> HIDE DEF q
  <2>3. HasHad(q, 4, base, wiring)
    BY <2>1, <2>2 DEF HasHad
  <2> QED BY <2>3 DEF q
<1>4. ASSUME HasHad(p, 4, base, wiring) \/ HasHad(p, 5, base, wiring)
      PROVE  HasHad(PicData(p, 0), 5, base, wiring)
  <2>1. p.mask = 0 /\ p.expects = "mask" /\ p.base = base /\ p.wiring = wiring /\ p.mode = 1
    BY <1>4 DEF HasHad
  <2> DEFINE q == PicData(p, 0)
  <2>2. /\ q.mask = 0 /\ q.expects = "mask" /\ q.mode = p.mode
        /\ q.base = p.base /\ q.wiring = p.wiring
    BY <2>1, PicDataIs
  <2> HIDE DEF q
  <2>3. HasHad(q, 5, base, wiring)
    BY <2>1, <2>2 DEF HasHad
  <2> QED BY <2>3 DEF q
<1> QED BY <1>1, <1>2, <1>3, <1>4

\* What a byte does to the two controllers.
LEMMA ToPic ==
  ASSUME HalTyped, NEW value \in Nat
  PROVE  /\ Written(32, 17) =>
              /\ pic' \in [0..1 -> Controllers] /\ pit' = pit
              /\ pic'[0] = PicCommand(pic[0], 17) /\ pic'[1] = pic[1]
         /\ Written(160, 17) =>
              /\ pic' \in [0..1 -> Controllers] /\ pit' = pit
              /\ pic'[1] = PicCommand(pic[1], 17) /\ pic'[0] = pic[0]
         /\ Written(33, value) =>
              /\ pic' \in [0..1 -> Controllers] /\ pit' = pit
              /\ pic'[0] = PicData(pic[0], value) /\ pic'[1] = pic[1]
         /\ Written(161, value) =>
              /\ pic' \in [0..1 -> Controllers] /\ pit' = pit
              /\ pic'[1] = PicData(pic[1], value) /\ pic'[0] = pic[0]
<1>1. pic \in [0..1 -> Controllers] /\ pic[0] \in Controllers /\ pic[1] \in Controllers
  BY DEF HalTyped
<1>2. /\ PicCommand(pic[0], 17) \in Controllers /\ PicCommand(pic[1], 17) \in Controllers
      /\ PicData(pic[0], value) \in Controllers /\ PicData(pic[1], value) \in Controllers
  BY <1>1, PicCommandIs, PicDataIs
<1>3. /\ Written(32, 17) => pic' = [pic EXCEPT ![0] = PicCommand(pic[0], 17)] /\ pit' = pit
      /\ Written(160, 17) => pic' = [pic EXCEPT ![1] = PicCommand(pic[1], 17)] /\ pit' = pit
      /\ Written(33, value) => pic' = [pic EXCEPT ![0] = PicData(pic[0], value)] /\ pit' = pit
      /\ Written(161, value) => pic' = [pic EXCEPT ![1] = PicData(pic[1], value)] /\ pit' = pit
  BY DEF Written
<1> QED BY <1>1, <1>2, <1>3

\* And to the timer.
LEMMA ToPit ==
  ASSUME HalTyped, NEW c \in {0, 2}, NEW value \in Nat
  PROVE  /\ Written(67, (64 * c) + 54) =>
              /\ pit' \in [CounterNumbers -> Counters] /\ pic' = pic
              /\ pit'[c] = [expects |-> "low", mode |-> 54, low |-> 0, reload |-> 0]
              /\ \A d \in CounterNumbers : d # c => pit'[d] = pit[d]
         /\ Written(64 + c, value) =>
              /\ pit' \in [CounterNumbers -> Counters] /\ pic' = pic
              /\ pit'[c] = PitData(pit[c], value)
              /\ \A d \in CounterNumbers : d # c => pit'[d] = pit[d]
<1> DEFINE fresh == [expects |-> "low", mode |-> 54, low |-> 0, reload |-> 0]
<1>1. pit \in [CounterNumbers -> Counters] /\ c \in CounterNumbers /\ pit[c] \in Counters
  BY DEF HalTyped, CounterNumbers
<1>2. fresh \in Counters /\ PitData(pit[c], value) \in Counters
  <2>1. fresh \in Counters
    BY DEF Counters
  <2>2. ASSUME NEW r \in Counters PROVE PitData(r, value) \in Counters
    <3>1. r.low + (256 * value) \in Nat
      BY DEF Counters
    <3>2. CASE r.expects = "low"
      <4>1. PitData(r, value) = [r EXCEPT !.low = value, !.expects = "high"]
        BY <3>2 DEF PitData
      <4> QED BY <4>1 DEF Counters
    <3>3. CASE r.expects # "low"
      <4>1. PitData(r, value) = [r EXCEPT !.reload = r.low + (256 * value), !.expects = "low"]
        BY <3>3 DEF PitData
      <4> QED BY <3>1, <4>1 DEF Counters
    <3> QED BY <3>2, <3>3
  <2> QED BY <1>1, <2>1, <2>2
<1>3. ((64 * c) + 54) \div 64 = c /\ ((64 * c) + 54) % 64 = 54
  OBVIOUS
<1>4. Written(67, (64 * c) + 54) => pit' = [pit EXCEPT ![c] = fresh] /\ pic' = pic
  <2> SUFFICES ASSUME Written(67, (64 * c) + 54)
               PROVE  pit' = [pit EXCEPT ![c] = fresh] /\ pic' = pic
    OBVIOUS
  <2>1. pit' = PitCommand((64 * c) + 54) /\ pic' = pic
    BY DEF Written
  <2> QED BY <1>3, <2>1 DEF PitCommand
<1>5. Written(64 + c, value) => pit' = [pit EXCEPT ![c] = PitData(pit[c], value)] /\ pic' = pic
  <2>1. CASE c = 0
    BY <2>1 DEF Written
  <2>2. CASE c = 2
    BY <2>2 DEF Written
  <2> QED BY <2>1, <2>2
<1> HIDE DEF fresh
<1>6. Written(67, (64 * c) + 54) =>
        /\ pit' \in [CounterNumbers -> Counters] /\ pit'[c] = fresh
        /\ \A d \in CounterNumbers : d # c => pit'[d] = pit[d]
  BY <1>1, <1>2, <1>4
<1>7. Written(64 + c, value) =>
        /\ pit' \in [CounterNumbers -> Counters] /\ pit'[c] = PitData(pit[c], value)
        /\ \A d \in CounterNumbers : d # c => pit'[d] = pit[d]
  BY <1>1, <1>2, <1>5
<1> QED BY <1>4, <1>5, <1>6, <1>7 DEF fresh

AskedOnly(freq, c) ==
  /\ asked' \in [CounterNumbers -> Nat] /\ asked'[c] = freq
  /\ \A d \in CounterNumbers : d # c => asked'[d] = asked[d]

\* A rate is asked for; the command, the low and the high byte follow.
LEMMA SentNext ==
  ASSUME HalTyped, NEW freq \in Nat, NEW c \in {0, 2}, freq % 65536 # 0
  PROVE  /\ Sent(0, freq, c) /\ AskedOnly(freq, c) /\ pit' = pit => Sent(1, freq, c)'
         /\ Sent(1, freq, c) /\ Written(67, (64 * c) + 54) /\ asked' = asked
              => Sent(2, freq, c)'
         /\ Sent(2, freq, c) /\ Written(64 + c, LowByte(Divisor(freq))) /\ asked' = asked
              => Sent(3, freq, c)'
         /\ Sent(3, freq, c) /\ Written(64 + c, HighByte(Divisor(freq))) /\ asked' = asked
              => \A d \in CounterNumbers : Programmed(d)'
<1>1. c \in CounterNumbers /\ asked \in [CounterNumbers -> Nat]
  BY DEF HalTyped, CounterNumbers
<1>2. LowByte(Divisor(freq)) \in Nat /\ HighByte(Divisor(freq)) \in Nat
  BY DivisorBytes
<1>3. ASSUME Sent(0, freq, c), AskedOnly(freq, c), pit' = pit
      PROVE  Sent(1, freq, c)'
  <2>1. asked'[c] = freq /\ \A d \in CounterNumbers : d # c => asked'[d] = asked[d]
    BY <1>3 DEF AskedOnly
  <2>2. \A d \in CounterNumbers : d # c => Programmed(d)'
    BY <1>3, <2>1 DEF Sent, Programmed
  <2> QED BY <2>1, <2>2 DEF Sent
<1>4. ASSUME Sent(1, freq, c), Written(67, (64 * c) + 54), asked' = asked
      PROVE  Sent(2, freq, c)'
  <2>1. /\ pit'[c] = [expects |-> "low", mode |-> 54, low |-> 0, reload |-> 0]
        /\ \A d \in CounterNumbers : d # c => pit'[d] = pit[d]
    BY <1>4, ToPit
  <2>2. \A d \in CounterNumbers : d # c => Programmed(d)'
    BY <1>4, <2>1 DEF Sent, Programmed
  <2> QED BY <1>4, <2>1, <2>2 DEF Sent
<1>5. ASSUME Sent(2, freq, c), Written(64 + c, LowByte(Divisor(freq))), asked' = asked
      PROVE  Sent(3, freq, c)'
  <2>1. /\ pit'[c] = PitData(pit[c], LowByte(Divisor(freq)))
        /\ \A d \in CounterNumbers : d # c => pit'[d] = pit[d]
    BY <1>2, <1>5, ToPit
  <2>2. \A d \in CounterNumbers : d # c => Programmed(d)'
    BY <1>5, <2>1 DEF Sent, Programmed
  <2>3. pit[c] \in Counters /\ pit[c].expects = "low" /\ pit[c].mode = 54
    BY <1>1, <1>5 DEF Sent, HalTyped
  <2>4. pit'[c] = [pit[c] EXCEPT !.low = LowByte(Divisor(freq)), !.expects = "high"]
    BY <2>1, <2>3 DEF PitData
  <2>5. /\ pit'[c].low = LowByte(Divisor(freq)) /\ pit'[c].expects = "high"
        /\ pit'[c].mode = 54
    BY <2>3, <2>4 DEF Counters
  <2> QED BY <1>5, <2>2, <2>5 DEF Sent
<1>6. ASSUME Sent(3, freq, c), Written(64 + c, HighByte(Divisor(freq))), asked' = asked
      PROVE  \A d \in CounterNumbers : Programmed(d)'
  <2>1. /\ pit'[c] = PitData(pit[c], HighByte(Divisor(freq)))
        /\ \A d \in CounterNumbers : d # c => pit'[d] = pit[d]
    BY <1>2, <1>6, ToPit
  <2>2. \A d \in CounterNumbers : d # c => Programmed(d)'
    BY <1>6, <2>1 DEF Sent, Programmed
  <2>3. /\ pit[c] \in Counters /\ pit[c].expects = "high" /\ pit[c].mode = 54
        /\ pit[c].low = LowByte(Divisor(freq)) /\ asked[c] = freq
    BY <1>1, <1>6 DEF Sent, HalTyped
  <2>4. pit'[c] = [pit[c] EXCEPT !.reload = pit[c].low + (256 * HighByte(Divisor(freq))),
                                 !.expects = "low"]
    BY <2>1, <2>3 DEF PitData
  <2>5. /\ pit'[c].reload = LowByte(Divisor(freq)) + (256 * HighByte(Divisor(freq)))
        /\ pit'[c].mode = 54
    BY <2>3, <2>4 DEF Counters
  <2>6. Programmed(c)'
    BY <1>6, <2>3, <2>5, DivisorCorrect DEF Programmed
  <2> QED BY <2>2, <2>6
<1> QED BY <1>3, <1>4, <1>5, <1>6

-----------------------------------------------------------------------------
(* The gates.                                                              *)

LEMMA GateTyped == \A handler \in 0..(UINT32 - 1) : Gate(handler) \in Gates
<1> SUFFICES ASSUME NEW handler \in 0..(UINT32 - 1) PROVE Gate(handler) \in Gates
  OBVIOUS
<1>1. WORD \in Nat \ {0} /\ handler \in Nat
  BY Widths
<1>2. handler % WORD \in Nat /\ handler \div WORD \in Nat
  BY <1>1
<1> QED BY <1>2 DEF Gate, idt_descriptor, Gates

LEMMA Filled ==
  ASSUME HalTyped, FillIdt
  PROVE  /\ idt' \in [0..MaxInterrupts -> Gates] /\ GatesSet'
         /\ set' \in [0..(MaxInterrupts - 1) -> 0..(UINT32 - 1)]
<1>1. /\ DefaultHandler \in 1..(UINT32 - 1) /\ UINT32 \in Nat /\ MaxInterrupts \in Nat
      /\ DefaultHandler \in 0..(UINT32 - 1)
  BY HalAssumption, Widths
<1>2. Gate(DefaultHandler) \in Gates
  BY <1>1, GateTyped
<1>3. /\ idt' = [i \in DOMAIN idt |-> IF i < MaxInterrupts THEN Gate(DefaultHandler) ELSE idt[i]]
      /\ set' = [i \in DOMAIN set |-> DefaultHandler]
  BY DEF FillIdt
<1>4. DOMAIN idt = 0..MaxInterrupts /\ DOMAIN set = 0..(MaxInterrupts - 1)
      /\ idt \in [0..MaxInterrupts -> Gates]
  BY DEF HalTyped
<1>5. idt' \in [0..MaxInterrupts -> Gates]
  BY <1>2, <1>3, <1>4
<1>6. set' \in [0..(MaxInterrupts - 1) -> 0..(UINT32 - 1)]
  BY <1>1, <1>3, <1>4
<1>7. \A i \in 0..(MaxInterrupts - 1) : set'[i] = DefaultHandler /\ idt'[i] = Gate(DefaultHandler)
  BY <1>1, <1>3, <1>4
<1> QED BY <1>1, <1>5, <1>6, <1>7 DEF GatesSet

\* A store of i86_install_ir keeps the gates around its own, and the last one
\* makes its own whole.
LEMMA GateStored ==
  ASSUME HalTyped, NEW i \in 0..MaxInterrupts, NEW handler \in 1..(UINT32 - 1),
         IF stored = 0 THEN GatesSet ELSE GatesPartly(i, handler),
         idt' = [idt EXCEPT ![i] = Store(idt[i], stored + 1, handler)],
         set' = [j \in DOMAIN set |-> IF j = i THEN handler ELSE set[j]],
         stored' = IF stored = 4 THEN 0 ELSE stored + 1
  PROVE  /\ idt' \in [0..MaxInterrupts -> Gates]
         /\ set' \in [0..(MaxInterrupts - 1) -> 0..(UINT32 - 1)]
         /\ IF stored' = 0 THEN GatesSet' ELSE GatesPartly(i, handler)'
<1>1. /\ MaxInterrupts \in Nat /\ UINT32 \in Nat /\ handler \in 0..(UINT32 - 1)
      /\ idt \in [0..MaxInterrupts -> Gates] /\ idt[i] \in Gates /\ stored \in 0..4
      /\ set \in [0..(MaxInterrupts - 1) -> 0..(UINT32 - 1)]
  BY HalAssumption, Widths DEF HalTyped
<1> DEFINE whole == Gate(handler)
           old == idt[i]
           new == Store(idt[i], stored + 1, handler)
<1>2. /\ whole \in Gates /\ whole.baseLo = handler % WORD /\ whole.baseHi = handler \div WORD
      /\ whole.sel = 8 /\ whole.flags = {"present", "bit32"}
  BY <1>1, GateTyped DEF Gate, idt_descriptor
<1>3. /\ new \in Gates
      /\ stored = 0 => new = [old EXCEPT !.baseLo = whole.baseLo]
      /\ stored = 1 => new = [old EXCEPT !.baseHi = whole.baseHi]
      /\ stored = 2 => new = old
      /\ stored = 3 => new = [old EXCEPT !.flags = whole.flags]
      /\ stored = 4 => new = [old EXCEPT !.sel = whole.sel]
  <2>1. /\ stored = 0 => new = [old EXCEPT !.baseLo = whole.baseLo]
        /\ stored = 1 => new = [old EXCEPT !.baseHi = whole.baseHi]
        /\ stored = 2 => new = old
        /\ stored = 3 => new = [old EXCEPT !.flags = whole.flags]
        /\ stored = 4 => new = [old EXCEPT !.sel = whole.sel]
    BY DEF Store
  <2>2. stored = 0 \/ stored = 1 \/ stored = 2 \/ stored = 3 \/ stored = 4
    BY <1>1
  <2> HIDE DEF whole, new
  <2>3. new \in Gates
    BY <1>1, <1>2, <2>1, <2>2 DEF Gates
  <2> QED BY <2>1, <2>3
<1> HIDE DEF whole, new
<1>4. /\ idt' = [idt EXCEPT ![i] = new]
      /\ set' = [j \in 0..(MaxInterrupts - 1) |-> IF j = i THEN handler ELSE set[j]]
  BY <1>1 DEF new
<1>5. /\ idt' \in [0..MaxInterrupts -> Gates]
      /\ set' \in [0..(MaxInterrupts - 1) -> 0..(UINT32 - 1)]
  BY <1>1, <1>3, <1>4
<1>6. ASSUME NEW j \in 0..(MaxInterrupts - 1), j # i
      PROVE  set'[j] \in 1..(UINT32 - 1) /\ idt'[j] = Gate(set'[j])
  <2>1. set[j] \in 1..(UINT32 - 1) /\ idt[j] = Gate(set[j]) /\ j \in 0..MaxInterrupts
    BY <1>1, <1>6 DEF GatesSet, GatesPartly
  <2>2. set'[j] = set[j] /\ idt'[j] = idt[j]
    BY <1>1, <1>4, <1>6, <2>1
  <2> QED BY <2>1, <2>2
<1>7. ASSUME i \in 0..(MaxInterrupts - 1)
      PROVE  /\ set'[i] = handler /\ idt'[i] = new
             /\ old.sel = 8 /\ old.flags = {"present", "bit32"}
             /\ stored > 0 => old.baseLo = handler % WORD
             /\ stored > 1 => old.baseHi = handler \div WORD
  <2>1. set'[i] = handler /\ idt'[i] = new
    BY <1>1, <1>4, <1>7
  <2>2. CASE stored = 0
    <3>1. old = Gate(set[i])
      BY <1>7, <2>2 DEF GatesSet
    <3>2. old.sel = 8 /\ old.flags = {"present", "bit32"}
      BY <3>1 DEF Gate, idt_descriptor
    <3> QED BY <2>1, <2>2, <3>2
  <2>3. CASE stored # 0
    <3>1. PartOf(old, handler)
      BY <1>7, <2>3 DEF GatesPartly
    <3> QED BY <2>1, <3>1 DEF PartOf
  <2> QED BY <2>2, <2>3
<1>8. CASE stored = 4
  <2>1. ASSUME i \in 0..(MaxInterrupts - 1) PROVE idt'[i] = Gate(set'[i])
    <3> DEFINE before == idt[i]
    <3>0. /\ new = [before EXCEPT !.sel = whole.sel] /\ before \in Gates
          /\ before.baseLo = whole.baseLo /\ before.baseHi = whole.baseHi
          /\ before.flags = whole.flags
      BY <1>1, <1>2, <1>3, <1>7, <1>8, <2>1
    <3> HIDE DEF before
    <3>1. /\ new.baseLo = whole.baseLo /\ new.baseHi = whole.baseHi
          /\ new.sel = whole.sel /\ new.flags = whole.flags
      BY <3>0 DEF Gates
    <3>2. new = whole
      <4>1. new \in Gates /\ whole \in Gates
        BY <1>2, <1>3
      <4> QED BY <3>1, <4>1 DEF Gates
    <3> QED BY <1>7, <2>1, <3>2 DEF whole
  <2>2. ASSUME NEW j \in 0..(MaxInterrupts - 1)
        PROVE  set'[j] \in 1..(UINT32 - 1) /\ idt'[j] = Gate(set'[j])
    BY <1>6, <1>7, <2>1
  <2>3. GatesSet'
    BY <2>2 DEF GatesSet
  <2> QED BY <1>5, <1>8, <2>3
<1>9. CASE stored # 4
  <2>1. stored' = stored + 1 /\ stored' # 0
    BY <1>1, <1>9
  <2>2. ASSUME i \in 0..(MaxInterrupts - 1) PROVE PartOf(idt[i], handler)'
    <3>1. /\ new.baseLo = handler % WORD
          /\ stored > 0 => new.baseHi = handler \div WORD
          /\ new.sel = 8 /\ new.flags = {"present", "bit32"}
      <4>1. /\ old \in Gates /\ old.sel = 8 /\ old.flags = {"present", "bit32"}
            /\ stored > 0 => old.baseLo = handler % WORD
            /\ stored > 1 => old.baseHi = handler \div WORD
        BY <1>1, <1>7, <2>2
      <4>2. /\ stored = 0 => new = [old EXCEPT !.baseLo = whole.baseLo]
            /\ stored = 1 => new = [old EXCEPT !.baseHi = whole.baseHi]
            /\ stored = 2 => new = old
            /\ stored = 3 => new = [old EXCEPT !.flags = whole.flags]
        BY <1>3
      <4> HIDE DEF old
      <4>3. CASE stored = 0
        BY <1>2, <4>1, <4>2, <4>3 DEF Gates
      <4>4. CASE stored = 1
        BY <1>2, <4>1, <4>2, <4>4 DEF Gates
      <4>5. CASE stored = 2
        BY <4>1, <4>2, <4>5
      <4>6. CASE stored = 3
        BY <1>2, <4>1, <4>2, <4>6 DEF Gates
      <4> QED BY <1>1, <1>9, <4>3, <4>4, <4>5, <4>6
    <3> QED BY <1>1, <1>7, <2>1, <2>2, <3>1 DEF PartOf
  <2>3. GatesPartly(i, handler)'
    BY <1>6, <1>7, <2>2 DEF GatesPartly
  <2> QED BY <1>5, <2>1, <2>3
<1> QED BY <1>8, <1>9

\* i86_install_ir refuses, does its last store, or one before it.
LEMMA Installed ==
  ASSUME HalTyped, InstallIr, NEW i \in Nat, NEW handler \in 0..(UINT32 - 1),
         Head(todo) = setvect(i, handler),
         IF stored = 0 THEN GatesSet
         ELSE GatesPartly(i, handler) /\ i \in 0..MaxInterrupts /\ handler # 0
  PROVE  /\ idt' \in [0..MaxInterrupts -> Gates]
         /\ set' \in [0..(MaxInterrupts - 1) -> 0..(UINT32 - 1)]
         /\ stored' \in 0..4
         /\ UNCHANGED <<gdt, lidt, cpuVars, chipVars>>
         /\ \/ Done /\ stored' = 0 /\ GatesSet'
            \/ /\ UNCHANGED todo /\ stored' # 0 /\ GatesPartly(i, handler)'
               /\ i \in 0..MaxInterrupts /\ handler \in 1..(UINT32 - 1)
<1>1. /\ MaxInterrupts \in Nat /\ UINT32 \in Nat /\ stored \in 0..4
      /\ idt \in [0..MaxInterrupts -> Gates]
      /\ set \in [0..(MaxInterrupts - 1) -> 0..(UINT32 - 1)]
  BY HalAssumption, Widths DEF HalTyped
<1>2. Head(todo).i = i /\ Head(todo).handler = handler
  BY DEF setvect
<1>3. UNCHANGED <<gdt, lidt, cpuVars, chipVars>>
  BY DEF InstallIr
<1>4. CASE i > MaxInterrupts \/ handler = 0
  <2>1. stored = 0 /\ Done /\ UNCHANGED <<idt, stored, set>>
    BY <1>1, <1>2, <1>4 DEF InstallIr
  <2>2. GatesSet'
    BY <2>1 DEF GatesSet
  <2> QED BY <1>1, <1>3, <2>1, <2>2
<1>5. CASE ~(i > MaxInterrupts \/ handler = 0)
  <2>1. i \in 0..MaxInterrupts /\ handler \in 1..(UINT32 - 1)
    BY <1>1, <1>5
  <2>2. /\ idt' = [idt EXCEPT ![i] = Store(idt[i], stored + 1, handler)]
        /\ set' = [j \in DOMAIN set |-> IF j = i THEN handler ELSE set[j]]
        /\ IF stored = 4 THEN Done /\ stored' = 0 ELSE UNCHANGED todo /\ stored' = stored + 1
    BY <1>2, <1>5 DEF InstallIr
  <2>3. stored' = IF stored = 4 THEN 0 ELSE stored + 1
    BY <2>2
  <2>4. /\ idt' \in [0..MaxInterrupts -> Gates]
        /\ set' \in [0..(MaxInterrupts - 1) -> 0..(UINT32 - 1)]
        /\ IF stored' = 0 THEN GatesSet' ELSE GatesPartly(i, handler)'
    BY <2>1, <2>2, <2>3, GateStored
  <2>5. stored' \in 0..4 /\ (stored # 4 => stored' # 0)
    BY <1>1, <2>3
  <2> QED BY <1>3, <2>1, <2>2, <2>4, <2>5
<1> QED BY <1>4, <1>5

\* An interrupt goes to the address its gate holds, in the same segment.
LEMMA EnteredThrough ==
  ASSUME SegmentsLoaded, lidt, NEW v, Enter(v),
         idt[v].sel = 8, "present" \in idt[v].flags, getvect(idt[v]) \in Nat
  PROVE  where' = getvect(idt[v]) /\ cs' = cs /\ flag' = FALSE
<1> DEFINE gate == idt[v]
           segment == Segment(gdt[1])
<1>1. "present" \in gate.flags /\ gate.sel \div 8 = 1
  OBVIOUS
<1>2. segment = cs
  BY TablesAgree DEF SegmentsLoaded
<1>3. segment.base = 0 /\ {"memory", "exec"} \subseteq segment.kind
  <2>1. gdt_data[1] = [limit |-> WORD - 1, baseLo |-> 0, baseMid |-> 0, baseHi |-> 0,
                       flags |-> Code, limitHi |-> NIBBLE - 1, grand |-> Flat]
    BY DEF gdt_data
  <2>2. SegmentBase(gdt_data[1]) = 0
    BY <2>1, Widths DEF SegmentBase
  <2>3. Segment(gdt_data[1]).base = 0 /\ Segment(gdt_data[1]).kind = Code
    BY <2>1, <2>2 DEF Segment
  <2> QED BY <1>2, <2>3 DEF SegmentsLoaded, Code
<1>4. where' = segment.base + getvect(gate) /\ cs' = segment /\ flag' = FALSE
  BY <1>1, <1>3 DEF Enter
<1> QED BY <1>2, <1>3, <1>4

\* When the gate is whole, that is the handler its vector was given.
LEMMA Entered ==
  ASSUME SegmentsLoaded, lidt, NEW v, Enter(v),
         set[v] \in 1..(UINT32 - 1), idt[v] = Gate(set[v])
  PROVE  where' = set[v] /\ cs' = cs /\ flag' = FALSE
<1>1. getvect(idt[v]) = set[v] /\ set[v] \in Nat
  <2>1. set[v] \in 0..(UINT32 - 1)
    BY Widths
  <2> QED BY <2>1, HandlerReadsBack
<1>2. idt[v].sel = 8 /\ "present" \in idt[v].flags
  BY DEF Gate, idt_descriptor
<1> QED BY <1>1, <1>2, EnteredThrough

-----------------------------------------------------------------------------
(* While hal_initialize runs.                                              *)

LEMMA KindAt ==
  ASSUME NEW k \in Nat, 0 < k, k < 22
  PROVE  /\ hal_initialize[k].do = "lgdt" => k = 1
         /\ hal_initialize[k].do = "idt" => k = 2
         /\ hal_initialize[k].do = "lidt" => k = 3
         /\ hal_initialize[k].do = "cli" => k = 4
         /\ hal_initialize[k].do = "unmask_timer" => k = 15
         /\ hal_initialize[k].do = "gate" => k = 16
         /\ hal_initialize[k].do = "asked" => k = 17
         /\ hal_initialize[k].do = "out" => (4 < k /\ k < 15) \/ (17 < k /\ k < 21)
         /\ hal_initialize[k].do = "sti" => k = 21
         /\ hal_initialize[k].do # "divide_by_zero"
<1>1. /\ hal_initialize[1].do = "lgdt" /\ hal_initialize[2].do = "idt"
      /\ hal_initialize[3].do = "lidt" /\ hal_initialize[4].do = "cli"
      /\ hal_initialize[15].do = "unmask_timer" /\ hal_initialize[16].do = "gate"
      /\ hal_initialize[21].do = "sti"
  BY HalStatements DEF Do, setvect
<1>2. /\ hal_initialize[5].do = "out" /\ hal_initialize[6].do = "out"
      /\ hal_initialize[7].do = "out" /\ hal_initialize[8].do = "out"
      /\ hal_initialize[9].do = "out" /\ hal_initialize[10].do = "out"
      /\ hal_initialize[11].do = "out" /\ hal_initialize[12].do = "out"
      /\ hal_initialize[13].do = "out" /\ hal_initialize[14].do = "out"
  BY HalStatements DEF outportb
<1>3. /\ hal_initialize[17].do = "asked" /\ hal_initialize[18].do = "out"
      /\ hal_initialize[19].do = "out" /\ hal_initialize[20].do = "out"
  BY HalTimer DEF outportb, Asking
<1>4. \/ k = 1 \/ k = 2 \/ k = 3 \/ k = 4 \/ k = 5 \/ k = 6 \/ k = 7
      \/ k = 8 \/ k = 9 \/ k = 10 \/ k = 11 \/ k = 12 \/ k = 13 \/ k = 14
      \/ k = 15 \/ k = 16 \/ k = 17 \/ k = 18 \/ k = 19 \/ k = 20 \/ k = 21
  OBVIOUS
<1> QED BY <1>1, <1>2, <1>3, <1>4

LEMMA PicsNext ==
  ASSUME HalTyped, NEW k \in Nat, 4 < k, k < 15, PicsAt(k),
         Written(hal_initialize[k].port, hal_initialize[k].value)
  PROVE  pic' \in [0..1 -> Controllers] /\ pit' = pit /\ PicsAt(k + 1)'
<1>1. pic[0] \in Controllers /\ pic[1] \in Controllers
  BY DEF HalTyped
<1>5. CASE k = 5
  <2>1. Written(32, 17)
    BY <1>5, HalStatements DEF outportb
  <2>2. /\ pic' \in [0..1 -> Controllers] /\ pit' = pit
        /\ pic'[0] = PicCommand(pic[0], 17)
    BY <2>1, ToPic
  <2>3. HasHad(pic'[0], 1, 32, 4)
    BY <1>1, <2>2, PicCommandIs
  <2> QED BY <1>5, <2>2, <2>3 DEF PicsAt, Had
<1>6. CASE k = 6
  <2>1. Written(160, 17) /\ HasHad(pic[0], 1, 32, 4)
    BY <1>6, HalStatements DEF PicsAt, Had, outportb
  <2>2. /\ pic' \in [0..1 -> Controllers] /\ pit' = pit
        /\ pic'[0] = pic[0] /\ pic'[1] = PicCommand(pic[1], 17)
    BY <2>1, ToPic
  <2>3. HasHad(pic'[1], 1, 40, 2)
    BY <1>1, <2>2, PicCommandIs
  <2> QED BY <1>6, <2>1, <2>2, <2>3 DEF PicsAt, Had
<1>7. CASE k = 7
  <2>1. Written(33, 32) /\ HasHad(pic[0], 1, 32, 4) /\ HasHad(pic[1], 1, 40, 2)
    BY <1>7, HalStatements DEF PicsAt, Had, outportb
  <2>2. /\ pic' \in [0..1 -> Controllers] /\ pit' = pit
        /\ pic'[1] = pic[1] /\ pic'[0] = PicData(pic[0], 32)
    BY <2>1, ToPic
  <2>3. HasHad(pic'[0], 2, 32, 4)
    BY <1>1, <2>1, <2>2, WordTaken
  <2> QED BY <1>7, <2>1, <2>2, <2>3 DEF PicsAt, Had
<1>8. CASE k = 8
  <2>1. Written(161, 40) /\ HasHad(pic[0], 2, 32, 4) /\ HasHad(pic[1], 1, 40, 2)
    BY <1>8, HalStatements DEF PicsAt, Had, outportb
  <2>2. /\ pic' \in [0..1 -> Controllers] /\ pit' = pit
        /\ pic'[0] = pic[0] /\ pic'[1] = PicData(pic[1], 40)
    BY <2>1, ToPic
  <2>3. HasHad(pic'[1], 2, 40, 2)
    BY <1>1, <2>1, <2>2, WordTaken
  <2> QED BY <1>8, <2>1, <2>2, <2>3 DEF PicsAt, Had
<1>9. CASE k = 9
  <2>1. Written(33, 4) /\ HasHad(pic[0], 2, 32, 4) /\ HasHad(pic[1], 2, 40, 2)
    BY <1>9, HalStatements DEF PicsAt, Had, outportb
  <2>2. /\ pic' \in [0..1 -> Controllers] /\ pit' = pit
        /\ pic'[1] = pic[1] /\ pic'[0] = PicData(pic[0], 4)
    BY <2>1, ToPic
  <2>3. HasHad(pic'[0], 3, 32, 4)
    BY <1>1, <2>1, <2>2, WordTaken
  <2> QED BY <1>9, <2>1, <2>2, <2>3 DEF PicsAt, Had
<1>10. CASE k = 10
  <2>1. Written(161, 2) /\ HasHad(pic[0], 3, 32, 4) /\ HasHad(pic[1], 2, 40, 2)
    BY <1>10, HalStatements DEF PicsAt, Had, outportb
  <2>2. /\ pic' \in [0..1 -> Controllers] /\ pit' = pit
        /\ pic'[0] = pic[0] /\ pic'[1] = PicData(pic[1], 2)
    BY <2>1, ToPic
  <2>3. HasHad(pic'[1], 3, 40, 2)
    BY <1>1, <2>1, <2>2, WordTaken
  <2> QED BY <1>10, <2>1, <2>2, <2>3 DEF PicsAt, Had
<1>11. CASE k = 11
  <2>1. Written(33, 1) /\ HasHad(pic[0], 3, 32, 4) /\ HasHad(pic[1], 3, 40, 2)
    BY <1>11, HalStatements DEF PicsAt, Had, outportb
  <2>2. /\ pic' \in [0..1 -> Controllers] /\ pit' = pit
        /\ pic'[1] = pic[1] /\ pic'[0] = PicData(pic[0], 1)
    BY <2>1, ToPic
  <2>3. HasHad(pic'[0], 4, 32, 4)
    BY <1>1, <2>1, <2>2, WordTaken
  <2> QED BY <1>11, <2>1, <2>2, <2>3 DEF PicsAt, Had
<1>12. CASE k = 12
  <2>1. Written(161, 1) /\ HasHad(pic[0], 4, 32, 4) /\ HasHad(pic[1], 3, 40, 2)
    BY <1>12, HalStatements DEF PicsAt, Had, outportb
  <2>2. /\ pic' \in [0..1 -> Controllers] /\ pit' = pit
        /\ pic'[0] = pic[0] /\ pic'[1] = PicData(pic[1], 1)
    BY <2>1, ToPic
  <2>3. HasHad(pic'[1], 4, 40, 2)
    BY <1>1, <2>1, <2>2, WordTaken
  <2> QED BY <1>12, <2>1, <2>2, <2>3 DEF PicsAt, Had
<1>13. CASE k = 13
  <2>1. Written(33, 0) /\ HasHad(pic[0], 4, 32, 4) /\ HasHad(pic[1], 4, 40, 2)
    BY <1>13, HalStatements DEF PicsAt, Had, outportb
  <2>2. /\ pic' \in [0..1 -> Controllers] /\ pit' = pit
        /\ pic'[1] = pic[1] /\ pic'[0] = PicData(pic[0], 0)
    BY <2>1, ToPic
  <2>3. HasHad(pic'[0], 5, 32, 4)
    BY <1>1, <2>1, <2>2, WordTaken
  <2> QED BY <1>13, <2>1, <2>2, <2>3 DEF PicsAt, Had
<1>14. CASE k = 14
  <2>1. Written(161, 0) /\ HasHad(pic[0], 5, 32, 4) /\ HasHad(pic[1], 4, 40, 2)
    BY <1>14, HalStatements DEF PicsAt, Had, outportb
  <2>2. /\ pic' \in [0..1 -> Controllers] /\ pit' = pit
        /\ pic'[0] = pic[0] /\ pic'[1] = PicData(pic[1], 0)
    BY <2>1, ToPic
  <2>3. HasHad(pic'[1], 5, 40, 2)
    BY <1>1, <2>1, <2>2, WordTaken
  <2> QED BY <1>14, <2>1, <2>2, <2>3 DEF PicsAt, Had
<1>15. k = 5 \/ k = 6 \/ k = 7 \/ k = 8 \/ k = 9 \/ k = 10 \/ k = 11 \/ k = 12 \/ k = 13 \/ k = 14
  OBVIOUS
<1> QED BY <1>5, <1>6, <1>7, <1>8, <1>9, <1>10, <1>11, <1>12, <1>13, <1>14, <1>15

LEMMA StartingStatement ==
  ASSUME HalTyped, NEW k \in Nat, 0 < k, k < 22, Stage(k)
  PROVE  /\ todo # << >> /\ Head(todo) = hal_initialize[k]
         /\ Done => todo' \in Seq(Statements) /\ LeftFrom(k + 1, hal_initialize)'
         /\ Done /\ k = 21 => todo' = << >>
<1>1. /\ todo # << >> /\ Head(todo) = hal_initialize[k]
      /\ Done => todo' \in Seq(Statements) /\ LeftFrom(k + 1, hal_initialize)'
  <2>1. hal_initialize \in Seq(Statements) /\ Len(hal_initialize) = 21
    BY HalStatements
  <2>2. k =< Len(hal_initialize) /\ todo \in Seq(Statements) /\ LeftFrom(k, hal_initialize)
    BY <2>1 DEF HalTyped, Stage
  <2> QED BY <2>1, <2>2, NextStatement
<1>2. ASSUME Done, k = 21 PROVE todo' = << >>
  <2>1. Len(todo') = 0 /\ todo' \in Seq(Statements)
    BY <1>1, <1>2, HalStatements DEF LeftFrom
  <2> QED BY <2>1
<1> QED BY <1>1, <1>2

\* Before the timer's words, and after the controllers' first.
LEMMA PicsStay ==
  ASSUME NEW k \in Nat, k < 5 \/ 14 < k, PicsAt(k), pic' = pic
  PROVE  PicsAt(k + 1)'
<1>1. CASE k < 5
  BY <1>1 DEF PicsAt
<1>2. CASE 14 < k
  BY <1>2 DEF PicsAt, Had
<1> QED BY <1>1, <1>2

LEMMA StartingNext ==
  ASSUME HalTyped, SegmentsLoaded, NEW k \in Nat, 0 < k, k < 22, Starting(k), Next
  PROVE  HalTyped' /\ SegmentsLoaded' /\ ((k < 21 /\ Starting(k + 1)') \/ Running' \/ Storing')
<1>1. /\ todo # << >> /\ Head(todo) = hal_initialize[k]
      /\ Done => todo' \in Seq(Statements) /\ LeftFrom(k + 1, hal_initialize)'
      /\ Done /\ k = 21 => todo' = << >>
  BY StartingStatement DEF Starting
<1>2. /\ ~flag /\ where = Main /\ (lidt <=> k > 3) /\ (k > 2 => GatesSet) /\ PicsAt(k)
      /\ stored = 0
      /\ k < 18 \/ k = 21 => \A c \in CounterNumbers : Programmed(c)
      /\ 17 < k /\ k < 21 => Sent(k - 17, 100, 0)
  BY DEF Starting, Stage, Stage
<1>3. CASE LoadGdt
  <2>1. k = 1 /\ gdt' = i86_gdt_initialize /\ Done /\ UNCHANGED <<idt, stored, lidt, set, cpuVars, chipVars>>
    BY <1>1, <1>3, KindAt DEF LoadGdt, Now
  <2>2. HalTyped' /\ SegmentsLoaded'
    BY <1>1, <2>1 DEF HalTyped, SegmentsLoaded, cpuVars, chipVars
  <2>3. Starting(k + 1)'
    BY <1>1, <1>2, <2>1, PicsStay DEF Starting, Stage, Programmed, cpuVars, chipVars
  <2> QED BY <2>1, <2>2, <2>3
<1>4. CASE FillIdt
  <2>1. k = 2 /\ Done /\ UNCHANGED <<gdt, stored, lidt, cpuVars, chipVars>>
    BY <1>1, <1>4, KindAt DEF FillIdt, Now
  <2>2. /\ idt' \in [0..MaxInterrupts -> Gates] /\ GatesSet'
        /\ set' \in [0..(MaxInterrupts - 1) -> 0..(UINT32 - 1)]
    BY <1>4, Filled
  <2>3. HalTyped' /\ SegmentsLoaded'
    BY <1>1, <2>1, <2>2 DEF HalTyped, SegmentsLoaded, cpuVars, chipVars
  <2>4. Starting(k + 1)'
    BY <1>1, <1>2, <2>1, <2>2, PicsStay DEF Starting, Stage, Programmed, cpuVars, chipVars
  <2> QED BY <2>1, <2>3, <2>4
<1>5. CASE LoadIdt
  <2>1. k = 3 /\ Done /\ lidt' = TRUE /\ UNCHANGED <<gdt, idt, stored, set, cpuVars, chipVars>>
    BY <1>1, <1>5, KindAt DEF LoadIdt, Now
  <2>2. HalTyped' /\ SegmentsLoaded'
    BY <1>1, <2>1 DEF HalTyped, SegmentsLoaded, cpuVars, chipVars
  <2>3. Starting(k + 1)'
    BY <1>1, <1>2, <2>1, PicsStay DEF Starting, Stage, Programmed, GatesSet, cpuVars, chipVars
  <2> QED BY <2>1, <2>2, <2>3
<1>6. CASE InstallIr
  <2> DEFINE i == 32
             handler == PitHandler
  <2>1. k = 16 /\ Head(todo) = setvect(i, handler)
    <3>1. k = 16
      BY <1>1, <1>6, KindAt DEF InstallIr, Now
    <3>2. hal_initialize[16] = setvect(32, PitHandler)
      BY HalStatements
    <3> QED BY <1>1, <3>1, <3>2
  <2>2. handler \in 0..(UINT32 - 1) /\ i \in Nat
    BY HalAssumption, Widths
  <2> HIDE DEF i, handler
  <2>3. /\ idt' \in [0..MaxInterrupts -> Gates]
        /\ set' \in [0..(MaxInterrupts - 1) -> 0..(UINT32 - 1)]
        /\ stored' \in 0..4
        /\ UNCHANGED <<gdt, lidt, cpuVars, chipVars>>
        /\ \/ Done /\ stored' = 0 /\ GatesSet'
           \/ /\ UNCHANGED todo /\ stored' # 0 /\ GatesPartly(i, handler)'
              /\ i \in 0..MaxInterrupts /\ handler \in 1..(UINT32 - 1)
    <3>1. stored = 0 /\ GatesSet
      BY <1>2, <2>1
    <3> QED BY <1>6, <2>1, <2>2, <3>1, Installed
  <2>4. HalTyped' /\ SegmentsLoaded'
    BY <1>1, <2>3 DEF HalTyped, SegmentsLoaded, cpuVars, chipVars
  <2>5. CASE Done /\ stored' = 0 /\ GatesSet'
    <3>1. Starting(k + 1)'
      BY <1>1, <1>2, <2>1, <2>3, <2>5, PicsStay
      DEF Starting, Stage, Programmed, cpuVars, chipVars
    <3> QED BY <2>1, <2>4, <3>1
  <2>6. CASE /\ UNCHANGED todo /\ stored' # 0 /\ GatesPartly(i, handler)'
             /\ i \in 0..MaxInterrupts /\ handler \in 1..(UINT32 - 1)
    <3>1. Stage(16)'
      BY <2>1, <2>3, <2>6
      DEF Starting, Stage, LeftFrom, PicsAt, Programmed, cpuVars, chipVars
    <3>2. todo' # << >> /\ Head(todo') = setvect(i, handler)
      BY <1>1, <2>1, <2>6
    <3> QED BY <2>4, <2>6, <3>1, <3>2 DEF Storing
  <2> QED BY <2>3, <2>5, <2>6
<1>7. CASE EnableDisable
  <2>1. /\ k = 4 \/ k = 21
        /\ Done /\ flag' = (Head(todo).do = "sti")
        /\ UNCHANGED <<tableVars, cs, ds, where, chipVars>>
    BY <1>1, <1>7, KindAt DEF EnableDisable, Now
  <2>2. HalTyped' /\ SegmentsLoaded'
    BY <1>1, <2>1 DEF HalTyped, SegmentsLoaded, tableVars, chipVars
  <2>3. CASE k = 4
    <3>1. ~flag'
      <4>1. hal_initialize[4].do = "cli"
        BY HalStatements DEF Do
      <4> QED BY <1>1, <2>1, <2>3, <4>1
    <3>2. Starting(k + 1)'
      BY <1>1, <1>2, <2>1, <2>3, <3>1, PicsStay
      DEF Starting, Stage, Programmed, GatesSet, tableVars, chipVars
    <3> QED BY <2>2, <2>3, <3>2
  <2>4. CASE k = 21
    <3>1. HasHad(pic'[0], 5, 32, 4) /\ HasHad(pic'[1], 5, 40, 2)
      BY <1>2, <2>1, <2>4 DEF PicsAt, Had, chipVars
    <3>2. \A c \in CounterNumbers : Programmed(c)'
      BY <1>2, <2>1, <2>4 DEF Programmed, chipVars
    <3>3. Running'
      BY <1>1, <1>2, <2>1, <2>4, <3>1, <3>2 DEF Running, Ready, Idle, GatesSet, tableVars
    <3> QED BY <2>2, <3>3
  <2> QED BY <2>1, <2>3, <2>4
<1>8. CASE Out
  <2>1. /\ Done /\ Written(hal_initialize[k].port, hal_initialize[k].value)
        /\ UNCHANGED <<tableVars, cpuVars, asked>>
        /\ (4 < k /\ k < 15) \/ (17 < k /\ k < 21)
    BY <1>1, <1>8, KindAt DEF Out, Now
  <2>2. SegmentsLoaded'
    BY <2>1 DEF SegmentsLoaded, tableVars, cpuVars
  <2>3. CASE 4 < k /\ k < 15
    <3>1. pic' \in [0..1 -> Controllers] /\ pit' = pit /\ PicsAt(k + 1)'
      BY <1>2, <2>1, <2>3, PicsNext
    <3>2. HalTyped'
      BY <1>1, <2>1, <3>1 DEF HalTyped, tableVars
    <3>3. Starting(k + 1)'
      BY <1>1, <1>2, <2>1, <2>3, <3>1 DEF Starting, Stage, Programmed, GatesSet, tableVars, cpuVars
    <3> QED BY <2>2, <2>3, <3>2, <3>3
  <2>4. CASE 17 < k /\ k < 21
    <3> DEFINE freq == 100
               c == 0
    <3>1. /\ freq \in Nat /\ c \in {0, 2} /\ freq % 65536 # 0 /\ Sent(k - 17, freq, c)
      BY <1>2, <2>4
    <3>2. /\ k = 18 => Written(67, (64 * c) + 54)
          /\ k = 19 => Written(64 + c, LowByte(Divisor(freq)))
          /\ k = 20 => Written(64 + c, HighByte(Divisor(freq)))
      BY <2>1, HalTimer DEF outportb
    <3> HIDE DEF freq, c
    <3>3. LowByte(Divisor(freq)) \in Nat /\ HighByte(Divisor(freq)) \in Nat
      BY <3>1, DivisorBytes
    <3>4. pit' \in [CounterNumbers -> Counters] /\ pic' = pic
      BY <2>4, <3>1, <3>2, <3>3, ToPit
    <3>5. /\ k = 18 => Sent(2, freq, c)'
          /\ k = 19 => Sent(3, freq, c)'
          /\ k = 20 => \A d \in CounterNumbers : Programmed(d)'
      BY <2>1, <2>4, <3>1, <3>2, SentNext
    <3>6. HalTyped'
      BY <1>1, <2>1, <3>4 DEF HalTyped, tableVars
    <3>7. PicsAt(k + 1)'
      BY <1>2, <2>4, <3>4, PicsStay
    <3>8. Starting(k + 1)'
      BY <1>1, <1>2, <2>1, <2>4, <3>5, <3>7
      DEF Starting, Stage, GatesSet, tableVars, cpuVars, freq, c
    <3> QED BY <2>2, <2>4, <3>6, <3>8
  <2> QED BY <2>1, <2>3, <2>4
<1>9. CASE UnmaskTimer
  <2>1. k = 15 /\ Done /\ UNCHANGED <<tableVars, cpuVars, asked>>
    BY <1>1, <1>9, KindAt DEF UnmaskTimer, Now
  <2>2. HasHad(pic[0], 5, 32, 4) /\ HasHad(pic[1], 5, 40, 2)
    BY <1>2, <2>1 DEF PicsAt, Had
  <2>3. Written(33, 0)
    <3>1. inportb(33) - (inportb(33) % 2) = 0
      BY <2>2 DEF inportb, HasHad
    <3> QED BY <1>9, <3>1 DEF UnmaskTimer
  <2>4. /\ pic' \in [0..1 -> Controllers] /\ pit' = pit
        /\ pic'[0] = PicData(pic[0], 0) /\ pic'[1] = pic[1]
    BY <2>3, ToPic
  <2>5. HasHad(pic'[0], 5, 32, 4)
    BY <2>2, <2>4, WordTaken DEF HalTyped
  <2>6. HalTyped' /\ SegmentsLoaded'
    BY <1>1, <2>1, <2>4 DEF HalTyped, SegmentsLoaded, tableVars, cpuVars
  <2>7. PicsAt(k + 1)'
    BY <2>1, <2>2, <2>4, <2>5 DEF PicsAt, Had
  <2>8. Starting(k + 1)'
    BY <1>1, <1>2, <2>1, <2>4, <2>7 DEF Starting, Stage, Programmed, GatesSet, tableVars, cpuVars
  <2> QED BY <2>1, <2>6, <2>8
<1>10. CASE Asked
  <2>1. k = 17 /\ Done /\ UNCHANGED <<tableVars, cpuVars, pic, pit>>
    BY <1>1, <1>10, KindAt DEF Asked, Now
  <2> DEFINE freq == 100
             c == 0
  <2>2. asked' = [asked EXCEPT ![c] = freq]
    <3>1. Head(todo).counter = c /\ Head(todo).freq = freq
      BY <1>1, <2>1, HalTimer DEF Asking
    <3> QED BY <1>10, <3>1 DEF Asked
  <2>3. freq \in Nat /\ c \in {0, 2} /\ freq % 65536 # 0
    OBVIOUS
  <2> HIDE DEF freq, c
  <2>4. Sent(0, freq, c)
    BY <1>2, <2>1 DEF Sent
  <2>5. Sent(1, freq, c)' /\ asked' \in [CounterNumbers -> Nat]
    <3>1. pit' = pit
      BY <2>1
    <3>2. AskedOnly(freq, c)
      <4>1. c \in CounterNumbers /\ asked \in [CounterNumbers -> Nat]
        BY <2>3 DEF HalTyped, CounterNumbers
      <4> QED BY <2>2, <2>3, <4>1 DEF AskedOnly
    <3>3. Sent(1, freq, c)'
      BY <2>3, <2>4, <3>1, <3>2, SentNext
    <3> QED BY <3>2, <3>3 DEF AskedOnly
  <2>6. HalTyped' /\ SegmentsLoaded'
    BY <1>1, <2>1, <2>5 DEF HalTyped, SegmentsLoaded, tableVars, cpuVars
  <2>7. Starting(k + 1)'
    BY <1>1, <1>2, <2>1, <2>5, PicsStay DEF Starting, Stage, GatesSet, tableVars, cpuVars, freq, c
  <2> QED BY <2>1, <2>6, <2>7
<1>11. ~DivideError
  BY <1>1, KindAt DEF DivideError, Now
<1>12. ~Setvect /\ ~StartCounter /\ \A n \in Vectors : ~geninterrupt(n)
  BY <1>1 DEF Setvect, StartCounter, Call, geninterrupt
<1>13. \A n \in Lines : ~Interrupt(n)
  BY <1>2 DEF Interrupt
<1>14. ~Return
  BY <1>2, HalAssumption DEF Return, Main
<1> QED BY <1>3, <1>4, <1>5, <1>6, <1>7, <1>8, <1>9, <1>10, <1>11, <1>12, <1>13, <1>14
        DEF Next, Initialize

-----------------------------------------------------------------------------
(* When it has returned.                                                   *)

\* The statement of a call that sets a counter, and what is left behind it.
LEMMA CountingStatement ==
  ASSUME HalTyped, NEW freq \in Nat, NEW c \in {0, 2}, NEW n \in Nat, n < 4, Counting(n, freq, c)
  PROVE  /\ todo # << >>
         /\ n = 0 => Head(todo) = Asking(c, freq)
         /\ n = 1 => Head(todo) = outportb(67, (64 * c) + 54)
         /\ n = 2 => Head(todo) = outportb(64 + c, LowByte(Divisor(freq)))
         /\ n = 3 => Head(todo) = outportb(64 + c, HighByte(Divisor(freq)))
         /\ Done => /\ todo' \in Seq(Statements)
                    /\ LeftFrom(n + 2, i86_pit_start_counter(freq, c, SquareWave))'
                    /\ n = 3 => todo' = << >>
<1> DEFINE call == i86_pit_start_counter(freq, c, SquareWave)
<1>1. c \in CounterNumbers /\ freq % 65536 # 0
  BY DEF CounterNumbers, Counting
<1>2. /\ call \in Seq(Statements) /\ Len(call) = 4
      /\ call[1] = Asking(c, freq) /\ call[2] = outportb(67, (64 * c) + 54)
      /\ call[3] = outportb(64 + c, LowByte(Divisor(freq)))
      /\ call[4] = outportb(64 + c, HighByte(Divisor(freq)))
  BY <1>1, StartCounterIs
<1>3. LeftFrom(n + 1, call) /\ todo \in Seq(Statements)
  BY DEF Counting, HalTyped
<1> HIDE DEF call
<1> DEFINE k == n + 1
<1>4. k \in Nat /\ 0 < k /\ k =< Len(call) /\ k + 1 = n + 2 /\ LeftFrom(k, call)
  BY <1>2, <1>3
<1> HIDE DEF k
<1>5. /\ todo # << >> /\ Head(todo) = call[k]
      /\ Done => todo' \in Seq(Statements) /\ LeftFrom(k + 1, call)'
  BY <1>2, <1>3, <1>4, NextStatement
<1>6. ASSUME Done PROVE todo' \in Seq(Statements) /\ LeftFrom(n + 2, call)'
  BY <1>4, <1>5, <1>6
<1>7. ASSUME Done, n = 3 PROVE todo' = << >>
  <2>1. Len(todo') = 0 /\ todo' \in Seq(Statements)
    BY <1>2, <1>6, <1>7 DEF LeftFrom
  <2> QED BY <2>1
<1> QED BY <1>2, <1>5, <1>6, <1>7 DEF k, call

LEMMA IdleStatement ==
  ASSUME Idle, todo # << >>
  PROVE  /\ Done => todo' = << >>
         /\ \/ Head(todo) = Do("divide_by_zero")
            \/ \E i \in Vectors, handler \in Handlers : Head(todo) = setvect(i, handler)
<1>1. CASE todo = << Do("divide_by_zero") >>
  BY <1>1 DEF Done
<1>2. ASSUME NEW i \in Vectors, NEW handler \in Handlers, todo = << setvect(i, handler) >>
      PROVE  Head(todo) = setvect(i, handler) /\ (Done => todo' = << >>)
  BY <1>2 DEF Done
<1> QED BY <1>1, <1>2 DEF Idle

\* The lines have the vectors from 32 on.
LEMMA LineVectors ==
  ASSUME HalTyped, Ready, NEW n \in Lines
  PROVE  Vector(n) = 32 + n /\ 32 + n \in 0..(MaxInterrupts - 1)
<1>1. n \in 0..15 /\ MaxInterrupts \in 48..256
  BY HalAssumption
<1>2. pic[0].base = 32 /\ pic[1].base = 40
  BY DEF Ready, HasHad
<1>3. CASE n < 8
  <2>1. n \div 8 = 0 /\ n % 8 = n
    BY <1>1, <1>3
  <2> QED BY <1>1, <1>2, <2>1 DEF Vector
<1>4. CASE n >= 8
  <2>1. n \div 8 = 1 /\ n % 8 = n - 8
    BY <1>1, <1>4
  <2> QED BY <1>1, <1>2, <2>1 DEF Vector
<1> QED BY <1>1, <1>3, <1>4

LEMMA LowVectors ==
  ASSUME HalTyped, NEW n \in Vectors \cap DOMAIN set
  PROVE  n \in 0..(MaxInterrupts - 1) /\ n % 256 = n
<1>1. n \in 0..(MaxInterrupts - 1) /\ MaxInterrupts \in 48..256
  BY HalAssumption DEF HalTyped
<1>2. n \in Nat /\ n < 256
  BY <1>1
<1> QED BY <1>1, <1>2

\* What changes nothing but the flag and the place of the processor.
LEMMA ReadyKept ==
  ASSUME HalTyped, SegmentsLoaded, Ready, cs' = cs, UNCHANGED <<todo, ds, tableVars, chipVars>>
  PROVE  HalTyped' /\ SegmentsLoaded' /\ Ready'
<1>1. HalTyped' /\ SegmentsLoaded'
  BY DEF HalTyped, SegmentsLoaded, tableVars, chipVars
<1>2. Ready'
  BY DEF Ready, Idle, Counting, Sent, Programmed, LeftFrom, tableVars, chipVars
<1> QED BY <1>1, <1>2

LEMMA RunningKept ==
  ASSUME HalTyped, SegmentsLoaded, Running, cs' = cs, UNCHANGED <<todo, ds, tableVars, chipVars>>
  PROVE  HalTyped' /\ SegmentsLoaded' /\ Running'
<1>1. HalTyped' /\ SegmentsLoaded' /\ Ready'
  BY ReadyKept DEF Running
<1>2. stored' = 0 /\ GatesSet'
  BY DEF Running, GatesSet, tableVars
<1> QED BY <1>1, <1>2 DEF Running

LEMMA StoringKept ==
  ASSUME HalTyped, SegmentsLoaded, Storing, Ready, cs' = cs,
         UNCHANGED <<todo, ds, tableVars, chipVars>>
  PROVE  HalTyped' /\ SegmentsLoaded' /\ Storing'
<1>1. HalTyped' /\ SegmentsLoaded' /\ Ready'
  BY ReadyKept
<1>2. PICK i \in 0..MaxInterrupts, handler \in 1..(UINT32 - 1) :
        todo # << >> /\ Head(todo) = setvect(i, handler) /\ GatesPartly(i, handler)
  BY DEF Storing
<1>3. GatesPartly(i, handler)'
  BY <1>2 DEF GatesPartly, PartOf, tableVars
<1>4. stored' # 0 /\ todo' # << >> /\ Head(todo') = setvect(i, handler)
  BY <1>2 DEF Storing, tableVars
<1> QED BY <1>1, <1>3, <1>4 DEF Storing

LEMMA IdleNext ==
  ASSUME HalTyped, SegmentsLoaded, Running, Idle, todo # << >>,
         DivideError \/ InstallIr \/ Out \/ Asked \/ EnableDisable \/ Initialize
  PROVE  HalTyped' /\ SegmentsLoaded' /\ (Running' \/ Storing')
<1>1. /\ Done => todo' = << >>
      /\ \/ Head(todo) = Do("divide_by_zero")
         \/ \E i \in Vectors, handler \in Handlers : Head(todo) = setvect(i, handler)
  BY IdleStatement
<1>2. Done => todo' \in Seq(Statements)
  BY <1>1
<1>3. Head(todo).do \in {"divide_by_zero", "gate"}
  BY <1>1 DEF Do, setvect
<1>4. lidt /\ GatesSet /\ stored = 0 /\ HasHad(pic[0], 5, 32, 4) /\ HasHad(pic[1], 5, 40, 2)
  BY DEF Running, Ready
<1>5. CASE DivideError
  <2>1. set[0] \in 1..(UINT32 - 1) /\ idt[0] = Gate(set[0])
    BY <1>4, HalAssumption DEF GatesSet
  <2>2. cs' = cs /\ Done /\ UNCHANGED <<ds, tableVars, chipVars>>
    BY <1>4, <1>5, <2>1, Entered DEF DivideError
  <2>3. HalTyped' /\ SegmentsLoaded'
    BY <1>2, <2>2 DEF HalTyped, SegmentsLoaded, tableVars, chipVars
  <2>4. Running'
    BY <1>1, <1>4, <2>2 DEF Running, Ready, Idle, Programmed, GatesSet, tableVars, chipVars
  <2> QED BY <2>3, <2>4
<1>6. CASE InstallIr
  <2>1. PICK i \in Vectors, handler \in Handlers : Head(todo) = setvect(i, handler)
    BY <1>1, <1>6 DEF InstallIr, Now, Do
  <2>2. i \in Nat /\ handler \in 0..(UINT32 - 1)
    BY HalAssumption
  <2>3. /\ idt' \in [0..MaxInterrupts -> Gates]
        /\ set' \in [0..(MaxInterrupts - 1) -> 0..(UINT32 - 1)]
        /\ stored' \in 0..4
        /\ UNCHANGED <<gdt, lidt, cpuVars, chipVars>>
        /\ \/ Done /\ stored' = 0 /\ GatesSet'
           \/ /\ UNCHANGED todo /\ stored' # 0 /\ GatesPartly(i, handler)'
              /\ i \in 0..MaxInterrupts /\ handler \in 1..(UINT32 - 1)
    BY <1>4, <1>6, <2>1, <2>2, Installed
  <2>4. HalTyped' /\ SegmentsLoaded'
    BY <1>2, <2>3 DEF HalTyped, SegmentsLoaded, cpuVars, chipVars
  <2>5. Ready'
    BY <1>1, <1>4, <2>3 DEF Ready, Idle, Programmed, cpuVars, chipVars
  <2>6. CASE Done /\ stored' = 0 /\ GatesSet'
    BY <2>4, <2>5, <2>6 DEF Running
  <2>7. CASE /\ UNCHANGED todo /\ stored' # 0 /\ GatesPartly(i, handler)'
             /\ i \in 0..MaxInterrupts /\ handler \in 1..(UINT32 - 1)
    <3>1. todo' # << >> /\ Head(todo') = setvect(i, handler)
      BY <2>1, <2>7
    <3> QED BY <2>4, <2>5, <2>7, <3>1 DEF Storing
  <2> QED BY <2>3, <2>6, <2>7
<1>7. ~Out /\ ~Asked /\ ~EnableDisable /\ ~Initialize
  BY <1>3 DEF Out, Asked, EnableDisable, Initialize, LoadGdt, FillIdt, LoadIdt, UnmaskTimer, Now
<1> QED BY <1>5, <1>6, <1>7

LEMMA CountingNext ==
  ASSUME HalTyped, SegmentsLoaded, Running,
         NEW freq \in Rates, NEW c \in {0, 2}, NEW n \in 0..3, Counting(n, freq, c),
         DivideError \/ InstallIr \/ Out \/ Asked \/ EnableDisable \/ Initialize
  PROVE  HalTyped' /\ SegmentsLoaded' /\ Running'
<1>0. freq \in Nat /\ n \in Nat /\ n < 4 /\ freq % 65536 # 0 /\ Sent(n, freq, c)
  BY HalAssumption DEF Counting
<1>1. /\ todo # << >>
      /\ n = 0 => Head(todo) = Asking(c, freq)
      /\ n = 1 => Head(todo) = outportb(67, (64 * c) + 54)
      /\ n = 2 => Head(todo) = outportb(64 + c, LowByte(Divisor(freq)))
      /\ n = 3 => Head(todo) = outportb(64 + c, HighByte(Divisor(freq)))
      /\ Done => /\ todo' \in Seq(Statements)
                 /\ LeftFrom(n + 2, i86_pit_start_counter(freq, c, SquareWave))'
                 /\ n = 3 => todo' = << >>
  BY <1>0, CountingStatement
<1>2. /\ n = 0 => Head(todo).do = "asked" /\ Head(todo).counter = c /\ Head(todo).freq = freq
      /\ n > 0 => Head(todo).do = "out"
  BY <1>0, <1>1 DEF Asking, outportb
<1>3. lidt /\ GatesSet /\ stored = 0 /\ HasHad(pic[0], 5, 32, 4) /\ HasHad(pic[1], 5, 40, 2)
  BY DEF Running, Ready
<1>4. CASE Asked
  <2>1. n = 0 /\ Done /\ asked' = [asked EXCEPT ![c] = freq] /\ pit' = pit
        /\ UNCHANGED <<tableVars, cpuVars, pic>>
    <3>1. n = 0
      BY <1>0, <1>2, <1>4 DEF Asked, Now
    <3> QED BY <1>2, <1>4, <3>1 DEF Asked
  <2>2. AskedOnly(freq, c)
    <3>1. c \in CounterNumbers /\ asked \in [CounterNumbers -> Nat]
      BY DEF HalTyped, CounterNumbers
    <3> QED BY <1>0, <2>1, <3>1 DEF AskedOnly
  <2>3. Sent(1, freq, c)'
    BY <1>0, <2>1, <2>2, SentNext
  <2>4. HalTyped' /\ SegmentsLoaded'
    BY <1>1, <2>1, <2>2 DEF HalTyped, SegmentsLoaded, AskedOnly, tableVars, cpuVars
  <2>5. Counting(1, freq, c)'
    BY <1>0, <1>1, <2>1, <2>3 DEF Counting
  <2>6. Running'
    BY <1>3, <2>1, <2>5 DEF Running, Ready, GatesSet, tableVars
  <2> QED BY <2>4, <2>6
<1>5. CASE Out
  <2>1. /\ n > 0 /\ Done /\ asked' = asked /\ UNCHANGED <<tableVars, cpuVars>>
        /\ Written(Head(todo).port, Head(todo).value)
    BY <1>0, <1>2, <1>5 DEF Out, Now
  <2>2. /\ n = 1 => Written(67, (64 * c) + 54)
        /\ n = 2 => Written(64 + c, LowByte(Divisor(freq)))
        /\ n = 3 => Written(64 + c, HighByte(Divisor(freq)))
    BY <1>1, <2>1 DEF outportb
  <2>3. LowByte(Divisor(freq)) \in Nat /\ HighByte(Divisor(freq)) \in Nat
    BY <1>0, DivisorBytes
  <2>4. n = 1 \/ n = 2 \/ n = 3
    BY <1>0, <2>1
  <2>5. pit' \in [CounterNumbers -> Counters] /\ pic' = pic
    BY <2>2, <2>3, <2>4, ToPit
  <2>6. /\ n = 1 => Sent(2, freq, c)'
        /\ n = 2 => Sent(3, freq, c)'
        /\ n = 3 => \A d \in CounterNumbers : Programmed(d)'
    BY <1>0, <2>1, <2>2, SentNext
  <2>7. HalTyped' /\ SegmentsLoaded'
    BY <1>1, <2>1, <2>5 DEF HalTyped, SegmentsLoaded, tableVars, cpuVars
  <2>8. CASE n = 3
    <3>1. Idle'
      BY <1>1, <2>1, <2>6, <2>8 DEF Idle
    <3> QED BY <1>3, <2>1, <2>5, <2>7, <3>1 DEF Running, Ready, GatesSet, tableVars
  <2>9. CASE n = 1 \/ n = 2
    <3> DEFINE m == n + 1
    <3>1. Counting(m, freq, c)' /\ m \in 0..3
      BY <1>0, <1>1, <2>1, <2>6, <2>9 DEF Counting
    <3> HIDE DEF m
    <3> QED BY <1>3, <2>1, <2>5, <2>7, <3>1 DEF Running, Ready, GatesSet, tableVars
  <2> QED BY <2>4, <2>8, <2>9
<1>6. ~DivideError /\ ~InstallIr /\ ~EnableDisable /\ ~Initialize
  BY <1>0, <1>2 DEF DivideError, InstallIr, EnableDisable, Initialize, LoadGdt, FillIdt,
                    LoadIdt, UnmaskTimer, Now
<1> QED BY <1>4, <1>5, <1>6

LEMMA RunningNext ==
  ASSUME HalTyped, SegmentsLoaded, Running, Next
  PROVE  HalTyped' /\ SegmentsLoaded' /\ (Running' \/ Storing')
<1>1. lidt /\ stored = 0 /\ GatesSet /\ Ready
  BY DEF Running, Ready
<1>2. CASE DivideError \/ InstallIr \/ Out \/ Asked \/ EnableDisable \/ Initialize
  <2>1. todo # << >>
    BY <1>2 DEF DivideError, InstallIr, Out, Asked, EnableDisable, Initialize, LoadGdt,
                FillIdt, LoadIdt, UnmaskTimer, Now
  <2>2. CASE Idle
    BY <1>2, <2>1, <2>2, IdleNext
  <2>3. ASSUME NEW freq \in Rates, NEW c \in {0, 2}, NEW n \in 0..3, Counting(n, freq, c)
        PROVE  HalTyped' /\ SegmentsLoaded' /\ Running'
    BY <1>2, <2>3, CountingNext
  <2> QED BY <2>2, <2>3 DEF Running, Ready
<1>3. CASE Setvect \/ StartCounter
  <2>1. todo = << >> /\ UNCHANGED <<tableVars, cpuVars, chipVars>>
    BY <1>3 DEF Setvect, StartCounter, Call
  <2>2. \A d \in CounterNumbers : Programmed(d)
    <3>1. ASSUME NEW freq \in Rates, NEW c \in {0, 2}, NEW n \in 0..3
          PROVE  ~Counting(n, freq, c)
      <4>1. freq \in Nat /\ n \in Nat /\ n < 4
        BY HalAssumption
      <4> QED BY <2>1, <4>1, CountingStatement
    <3> QED BY <3>1 DEF Running, Ready, Idle
  <2>3. SegmentsLoaded' /\ GatesSet' /\ lidt' /\ stored' = 0
        /\ HasHad(pic'[0], 5, 32, 4) /\ HasHad(pic'[1], 5, 40, 2)
        /\ \A d \in CounterNumbers : Programmed(d)'
    BY <1>1, <2>1, <2>2 DEF Running, Ready, SegmentsLoaded, GatesSet, Programmed, tableVars, cpuVars, chipVars
  <2>4. todo' \in Seq(Statements) => HalTyped'
    BY <2>1 DEF HalTyped, tableVars, chipVars
  <2>5. CASE Setvect
    <3>1. PICK i \in Vectors, handler \in Handlers : todo' = << setvect(i, handler) >>
      BY <2>5 DEF Setvect, Call
    <3>2. setvect(i, handler) \in Statements
      BY HalAssumption, StatementsAre
    <3>3. todo' \in Seq(Statements)
      BY <3>1, <3>2
    <3>4. Idle'
      BY <2>3, <3>1 DEF Idle
    <3> QED BY <2>3, <2>4, <3>3, <3>4 DEF Running, Ready
  <2>6. CASE StartCounter
    <3>1. PICK freq \in Rates, c \in {0, 2} : todo' = i86_pit_start_counter(freq, c, SquareWave)
      BY <2>6 DEF StartCounter, Call
    <3>2. freq \in Nat /\ c \in CounterNumbers
      BY HalAssumption DEF CounterNumbers
    <3>3. CASE freq = 0
      <4>1. todo' = << >>
        BY <3>1, <3>3 DEF i86_pit_start_counter
      <4>2. todo' \in Seq(Statements) /\ Idle'
        BY <2>3, <4>1 DEF Idle
      <4> QED BY <2>3, <2>4, <4>2 DEF Running, Ready
    <3>4. CASE freq # 0 /\ freq % 65536 = 0
      <4>1. todo' = << Do("divide_by_zero") >>
        BY <3>1, <3>4 DEF i86_pit_start_counter
      <4>2. Do("divide_by_zero") \in Statements
        BY StatementsAre DEF Words
      <4>3. todo' \in Seq(Statements)
        BY <4>1, <4>2
      <4>4. Idle'
        BY <2>3, <4>1 DEF Idle
      <4> QED BY <2>3, <2>4, <4>3, <4>4 DEF Running, Ready
    <3>5. CASE freq % 65536 # 0
      <4> DEFINE call == i86_pit_start_counter(freq, c, SquareWave)
      <4>1. call \in Seq(Statements) /\ todo' = call
        BY <3>1, <3>2, <3>5, StartCounterIs
      <4> HIDE DEF call
      <4> DEFINE n == 0
      <4>2. LeftFrom(n + 1, call)'
        BY <4>1 DEF LeftFrom
      <4>3. Sent(n, freq, c)'
        BY <2>3 DEF Sent
      <4>4. n \in 0..3
        OBVIOUS
      <4> HIDE DEF n
      <4>5. Counting(n, freq, c)'
        BY <3>5, <4>2, <4>3 DEF Counting, call
      <4> QED BY <2>3, <2>4, <4>1, <4>4, <4>5 DEF Running, Ready
    <3> QED BY <3>3, <3>4, <3>5
  <2> QED BY <1>3, <2>5, <2>6
<1>4. CASE Return
  BY <1>4, RunningKept DEF Return
<1>5. ASSUME NEW n \in Lines, Interrupt(n) PROVE HalTyped' /\ SegmentsLoaded' /\ Running'
  <2>1. Enter(32 + n) /\ 32 + n \in 0..(MaxInterrupts - 1)
        /\ UNCHANGED <<todo, ds, tableVars, chipVars>>
    BY <1>1, <1>5, LineVectors DEF Interrupt
  <2>2. set[32 + n] \in 1..(UINT32 - 1) /\ idt[32 + n] = Gate(set[32 + n])
    BY <1>1, <2>1 DEF GatesSet
  <2>3. cs' = cs
    BY <1>1, <2>1, <2>2, Entered
  <2> QED BY <2>1, <2>3, RunningKept
<1>6. ASSUME NEW n \in Vectors \cap DOMAIN set, geninterrupt(n)
      PROVE  HalTyped' /\ SegmentsLoaded' /\ Running'
  <2>1. n \in 0..(MaxInterrupts - 1) /\ n % 256 = n
    BY LowVectors
  <2>2. Enter(n) /\ UNCHANGED <<todo, ds, tableVars, chipVars>>
    BY <1>6, <2>1 DEF geninterrupt
  <2>3. set[n] \in 1..(UINT32 - 1) /\ idt[n] = Gate(set[n])
    BY <1>1, <2>1 DEF GatesSet
  <2>4. cs' = cs
    BY <1>1, <2>2, <2>3, Entered
  <2> QED BY <2>2, <2>4, RunningKept
<1> QED BY <1>2, <1>3, <1>4, <1>5, <1>6 DEF Next

-----------------------------------------------------------------------------
(* Between two stores of a gate.                                           *)

\* The gate of a line leads to the handler it was given, unless it is torn; a
\* torn one leads elsewhere, in the same segment.
LEMMA LineEntered ==
  ASSUME HalTyped, SegmentsLoaded, Running \/ (Storing /\ Ready), NEW n \in Lines, Interrupt(n)
  PROVE  cs' = cs /\ (where' = set[32 + n] <=> ~Torn(32 + n))
<1> DEFINE v == 32 + n
<1>1. v \in 0..(MaxInterrupts - 1) /\ Enter(v) /\ lidt
  <2>1. Ready
    BY DEF Running
  <2> QED BY <2>1, LineVectors DEF Interrupt, Ready
<1> HIDE DEF v
<1>2. CASE set[v] \in 1..(UINT32 - 1) /\ idt[v] = Gate(set[v]) /\ ~Torn(v)
  BY <1>1, <1>2, Entered DEF v
<1>3. CASE Running
  <2>1. set[v] \in 1..(UINT32 - 1) /\ idt[v] = Gate(set[v]) /\ ~Torn(v)
    BY <1>1, <1>3 DEF Running, GatesSet, Torn
  <2> QED BY <1>2, <2>1
<1>4. CASE Storing
  <2>1. PICK i \in 0..MaxInterrupts, handler \in 1..(UINT32 - 1) :
          Head(todo) = setvect(i, handler) /\ GatesPartly(i, handler)
    BY <1>4 DEF Storing
  <2>2. Head(todo).i = i
    BY <2>1 DEF setvect
  <2>3. CASE v # i
    <3>1. set[v] \in 1..(UINT32 - 1) /\ idt[v] = Gate(set[v]) /\ ~Torn(v)
      BY <1>1, <2>1, <2>2, <2>3 DEF GatesPartly, Torn
    <3> QED BY <1>2, <3>1
  <2>4. CASE v = i
    <3> DEFINE whole == handler \div WORD
               high == idt[v].baseHi
    <3>1. /\ set[v] = handler /\ idt[v].baseLo = handler % WORD
          /\ stored > 1 => high = whole
          /\ idt[v].sel = 8 /\ idt[v].flags = {"present", "bit32"}
      BY <1>1, <2>1, <2>4 DEF GatesPartly, PartOf
    <3>2. /\ WORD \in Nat \ {0} /\ handler \in Nat /\ whole \in Nat /\ high \in Nat
          /\ handler % WORD \in Nat /\ stored \in 0..4 /\ stored # 0
      <4>1. handler \in Nat /\ WORD \in Nat \ {0}
        BY Widths
      <4>2. handler % WORD \in Nat /\ whole \in Nat
        <5> DEFINE w == WORD
        <5>1. w \in Nat \ {0}
          BY <4>1
        <5> HIDE DEF w
        <5>2. handler % w \in Nat /\ handler \div w \in Nat
          BY <4>1, <5>1
        <5> QED BY <5>2 DEF w
      <4>3. idt[v] \in Gates /\ stored \in 0..4
        BY <1>1, HalAssumption DEF HalTyped
      <4> QED BY <1>4, <4>1, <4>2, <4>3 DEF Gates, Storing
    <3>3. Gate(set[v]).baseHi = whole
      <4>1. Gate(handler).baseHi = whole
        BY DEF Gate, idt_descriptor
      <4>2. set[v] = handler
        BY <3>1
      <4> QED BY <4>1, <4>2, Zenon
    <3>4. Torn(v) <=> high # whole
      <4>1. /\ stored = 1 \/ stored > 1
            /\ stored > 1 => high = whole /\ stored # 1
        BY <3>1, <3>2
      <4>2. Torn(v) <=> stored = 1 /\ high # whole
        BY <2>2, <2>4, <3>3, Zenon DEF Torn
      <4> QED BY <4>1, <4>2, Zenon
    <3>5. (handler % WORD) + (WORD * whole) = handler
      BY <3>2, TwoParts
    <3> HIDE DEF whole, high
    <3>6. getvect(idt[v]) = (handler % WORD) + (WORD * high)
      BY <3>1, Zenon DEF getvect, high
    <3>7. (handler % WORD) + (WORD * high) \in Nat
      <4>1. \A a, b \in Nat : a * b \in Nat
        OBVIOUS
      <4>2. WORD * high \in Nat
        BY <3>2, <4>1
      <4> QED BY <3>2, <4>2
    <3>8. where' = getvect(idt[v]) /\ cs' = cs
      <4>1. getvect(idt[v]) \in Nat /\ "present" \in idt[v].flags
        BY <3>1, <3>6, <3>7
      <4> QED BY <1>1, <3>1, <4>1, EnteredThrough
    <3>9. (handler % WORD) + (WORD * high) = handler <=> high = whole
      <4>1. CASE high > whole
        <5>1. WORD * high > WORD * whole
          BY <3>2, <4>1
        <5> QED BY <3>2, <3>5, <4>1, <5>1
      <4>2. CASE high < whole
        <5>1. WORD * high < WORD * whole
          BY <3>2, <4>2
        <5> QED BY <3>2, <3>5, <4>2, <5>1
      <4> QED BY <3>2, <3>5, <4>1, <4>2
    <3>10. where' = set[v] <=> ~Torn(v)
      <4>1. set[v] = handler /\ where' = (handler % WORD) + (WORD * high)
        BY <3>1, <3>6, <3>8
      <4> QED BY <3>4, <3>9, <4>1, Zenon
    <3> QED BY <3>8, <3>10 DEF v
  <2> QED BY <2>3, <2>4
<1> QED BY <1>3, <1>4

LEMMA StoringNext ==
  ASSUME HalTyped, SegmentsLoaded, Storing, Next
  PROVE  HalTyped' /\ SegmentsLoaded' /\ (Starting(17)' \/ Running' \/ Storing')
<1>1. PICK i \in 0..MaxInterrupts, handler \in 1..(UINT32 - 1) :
        todo # << >> /\ Head(todo) = setvect(i, handler) /\ GatesPartly(i, handler)
  BY DEF Storing
<1>2. stored # 0 /\ Head(todo).do = "gate" /\ (Stage(16) \/ Ready)
  BY <1>1 DEF Storing, setvect
<1>3. i \in Nat /\ handler \in 0..(UINT32 - 1) /\ handler # 0
  BY HalAssumption, Widths
<1>4. CASE InstallIr
  <2>1. /\ idt' \in [0..MaxInterrupts -> Gates]
        /\ set' \in [0..(MaxInterrupts - 1) -> 0..(UINT32 - 1)]
        /\ stored' \in 0..4
        /\ UNCHANGED <<gdt, lidt, cpuVars, chipVars>>
        /\ \/ Done /\ stored' = 0 /\ GatesSet'
           \/ /\ UNCHANGED todo /\ stored' # 0 /\ GatesPartly(i, handler)'
              /\ i \in 0..MaxInterrupts /\ handler \in 1..(UINT32 - 1)
    BY <1>1, <1>2, <1>3, <1>4, Installed
  <2>2. SegmentsLoaded'
    BY <2>1 DEF SegmentsLoaded, cpuVars
  <2>3. CASE UNCHANGED todo /\ stored' # 0 /\ GatesPartly(i, handler)'
    <3>1. HalTyped'
      BY <2>1, <2>3 DEF HalTyped, chipVars
    <3>2. Stage(16) => Stage(16)'
      BY <2>1, <2>3 DEF Stage, LeftFrom, PicsAt, Programmed, Sent, cpuVars, chipVars
    <3>3. Ready => Ready'
      BY <2>1, <2>3 DEF Ready, Idle, Counting, Sent, Programmed, LeftFrom, cpuVars, chipVars
    <3>4. todo' # << >> /\ Head(todo') = setvect(i, handler)
      BY <1>1, <2>3
    <3> QED BY <1>2, <2>2, <2>3, <3>1, <3>2, <3>3, <3>4 DEF Storing
  <2>4. CASE (Done /\ stored' = 0 /\ GatesSet') /\ Stage(16)
    <3> DEFINE k == 16
    <3>1. k \in Nat /\ 0 < k /\ k < 22 /\ Stage(k) /\ k + 1 = 17
      BY <2>4
    <3> HIDE DEF k
    <3>2. todo' \in Seq(Statements) /\ LeftFrom(k + 1, hal_initialize)'
      BY <2>4, <3>1, StartingStatement
    <3>3. HalTyped'
      BY <2>1, <3>2 DEF HalTyped, chipVars
    <3>4. PicsAt(k + 1)'
      BY <2>1, <2>4, <3>1, PicsStay DEF Stage, chipVars, k
    <3>5. Starting(17)'
      BY <2>1, <2>4, <3>1, <3>2, <3>4 DEF Starting, Stage, Programmed, cpuVars, chipVars
    <3> QED BY <2>2, <3>3, <3>5
  <2>5. CASE (Done /\ stored' = 0 /\ GatesSet') /\ Ready
    <3>1. \A freq \in Rates, c \in {0, 2}, n \in 0..3 : ~Counting(n, freq, c)
      <4> SUFFICES ASSUME NEW freq \in Rates, NEW c \in {0, 2}, NEW n \in 0..3,
                          Counting(n, freq, c)
                   PROVE  FALSE
        OBVIOUS
      <4>1. freq \in Nat /\ n \in Nat /\ n < 4
        BY HalAssumption
      <4>2. \/ Head(todo) = Asking(c, freq)
            \/ Head(todo) = outportb(67, (64 * c) + 54)
            \/ Head(todo) = outportb(64 + c, LowByte(Divisor(freq)))
            \/ Head(todo) = outportb(64 + c, HighByte(Divisor(freq)))
        <5>1. n = 0 \/ n = 1 \/ n = 2 \/ n = 3
          BY <4>1
        <5> QED BY <4>1, <5>1, CountingStatement
      <4> QED BY <1>2, <4>2 DEF Asking, outportb
    <3>2. Idle
      BY <2>5, <3>1 DEF Ready
    <3>3. todo' = << >>
      BY <1>1, <2>5, <3>2, IdleStatement
    <3>4. HalTyped'
      BY <2>1, <3>3 DEF HalTyped, chipVars
    <3>5. Ready'
      BY <2>1, <2>5, <3>2, <3>3 DEF Ready, Idle, Programmed, cpuVars, chipVars
    <3> QED BY <2>2, <2>5, <3>4, <3>5 DEF Running
  <2> QED BY <1>2, <2>1, <2>3, <2>4, <2>5
<1>5. CASE Return
  <2>1. Ready
    BY <1>2, <1>5, HalAssumption DEF Stage, Return, Main
  <2> QED BY <1>5, <2>1, StoringKept DEF Return
<1>6. ASSUME NEW n \in Lines, Interrupt(n) PROVE HalTyped' /\ SegmentsLoaded' /\ Storing'
  <2>1. Ready
    BY <1>2, <1>6 DEF Stage, Interrupt
  <2>2. cs' = cs
    BY <1>6, <2>1, LineEntered
  <2> QED BY <1>6, <2>1, <2>2, StoringKept DEF Interrupt
<1>7. /\ ~EnableDisable /\ ~Out /\ ~Asked /\ ~DivideError /\ ~Initialize
      /\ ~Setvect /\ ~StartCounter /\ \A n \in Vectors : ~geninterrupt(n)
  BY <1>1, <1>2 DEF EnableDisable, Out, Asked, DivideError, Initialize, LoadGdt, FillIdt,
     LoadIdt, UnmaskTimer, Now, Setvect, StartCounter, Call, geninterrupt
<1> QED BY <1>4, <1>5, <1>6, <1>7 DEF Next

-----------------------------------------------------------------------------
(* The theorems.                                                           *)

LEMMA HalStart == Init => HalInv
<1> SUFFICES ASSUME Init PROVE HalInv
  OBVIOUS
<1>1. HalTyped
  <2>1. todo \in Seq(Statements)
    BY HalStatements DEF Init
  <2>2. idt \in [0..MaxInterrupts -> Gates]
    <3>1. idt_descriptor(0, 0, {}) \in Gates
      <4>1. 0 % WORD = 0 /\ 0 \div WORD = 0
        BY Widths
      <4> QED BY <4>1 DEF idt_descriptor, Gates
    <3> QED BY <3>1 DEF Init
  <2>3. set \in [0..(MaxInterrupts - 1) -> 0..(UINT32 - 1)]
    <3>1. 0 \in 0..(UINT32 - 1)
      BY Widths
    <3> QED BY <3>1 DEF Init
  <2>4. pic \in [0..1 -> Controllers]
    <3>1. PICK mask0 \in BiosMasks, mask1 \in BiosMasks :
            pic = [n \in 0..1 |-> IF n = 0 THEN Pic(8, 4, mask0) ELSE Pic(112, 2, mask1)]
      BY DEF Init
    <3>2. Pic(8, 4, mask0) \in Controllers /\ Pic(112, 2, mask1) \in Controllers
      BY HalAssumption DEF Pic, Controllers
    <3> QED BY <3>1, <3>2
  <2>5. pit \in [CounterNumbers -> Counters]
    BY DEF Init, CounterNumbers, Counters
  <2>6. asked \in [CounterNumbers -> Nat] /\ lidt \in BOOLEAN /\ stored \in 0..4
    <3>1. stored \in 0..4
      BY DEF Init
    <3>2. asked \in [CounterNumbers -> Nat] /\ lidt \in BOOLEAN
      BY DEF Init, CounterNumbers
    <3> QED BY <3>1, <3>2
  <2> QED BY <2>1, <2>2, <2>3, <2>4, <2>5, <2>6 DEF HalTyped
<1>2. SegmentsLoaded
  BY DEF Init, SegmentsLoaded
<1>3. Starting(1)
  <2> DEFINE k == 1
  <2>1. LeftFrom(k, hal_initialize)
    BY HalStatements DEF Init, LeftFrom
  <2>2. \A c \in CounterNumbers : Programmed(c)
    BY DEF Init, Programmed, RatesThatFit, CounterNumbers
  <2> QED BY <2>1, <2>2 DEF Starting, Stage, PicsAt, Init
<1> QED BY <1>1, <1>2, <1>3 DEF HalInv

LEMMA HalStep == HalInv /\ [Next]_vars => HalInv'
<1> SUFFICES ASSUME HalInv, [Next]_vars PROVE HalInv'
  OBVIOUS
<1>1. CASE UNCHANGED vars
  <2>1. /\ todo' = todo /\ gdt' = gdt /\ cs' = cs /\ ds' = ds /\ idt' = idt /\ stored' = stored
        /\ lidt' = lidt /\ flag' = flag /\ where' = where /\ pic' = pic /\ pit' = pit
        /\ set' = set /\ asked' = asked
    BY <1>1 DEF vars, tableVars, cpuVars, chipVars
  <2>2. HalTyped' /\ SegmentsLoaded'
    BY <2>1 DEF HalInv, HalTyped, SegmentsLoaded
  <2>3. Ready => Ready'
    BY <2>1 DEF Ready, Idle, Counting, Sent, Programmed, LeftFrom
  <2>4. \A k \in 1..21 : Stage(k) => Stage(k)'
    BY <2>1 DEF Stage, LeftFrom, PicsAt, Sent, Programmed
  <2>5. GatesSet => GatesSet'
    BY <2>1 DEF GatesSet
  <2>6. Storing => Storing'
    <3> DEFINE k == 16
    <3>1. Stage(k) => Stage(k)'
      BY <2>4
    <3> HIDE DEF k
    <3>2. Stage(16) => Stage(16)'
      BY <3>1 DEF k
    <3>3. ASSUME NEW i \in 0..MaxInterrupts, NEW handler \in 1..(UINT32 - 1),
                 GatesPartly(i, handler)
          PROVE  GatesPartly(i, handler)'
      BY <2>1, <3>3 DEF GatesPartly, PartOf
    <3> QED BY <2>1, <2>3, <3>2, <3>3 DEF Storing
  <2>7. Running => Running'
    BY <2>1, <2>3, <2>5 DEF Running
  <2>8. \A k \in 1..21 : Starting(k) => Starting(k)'
    BY <2>1, <2>4, <2>5 DEF Starting
  <2> QED BY <2>2, <2>6, <2>7, <2>8 DEF HalInv
<1>2. CASE Next
  <2>1. ASSUME NEW k \in 1..21, Starting(k) PROVE HalInv'
    <3>1. k \in Nat /\ 0 < k /\ k < 22
      OBVIOUS
    <3>2. HalTyped' /\ SegmentsLoaded' /\ ((k < 21 /\ Starting(k + 1)') \/ Running' \/ Storing')
      BY <1>2, <2>1, <3>1, StartingNext DEF HalInv
    <3>3. CASE k < 21 /\ Starting(k + 1)'
      <4> DEFINE m == k + 1
      <4>1. m \in 1..21 /\ Starting(m)'
        BY <3>1, <3>3
      <4> HIDE DEF m
      <4> QED BY <3>2, <4>1 DEF HalInv
    <3> QED BY <3>2, <3>3 DEF HalInv
  <2>2. CASE Running
    BY <1>2, <2>2, RunningNext DEF HalInv
  <2>3. CASE Storing
    <3> DEFINE k == 17
    <3>1. HalTyped' /\ SegmentsLoaded' /\ (Starting(k)' \/ Running' \/ Storing') /\ k \in 1..21
      BY <1>2, <2>3, StoringNext DEF HalInv
    <3> HIDE DEF k
    <3> QED BY <3>1 DEF HalInv
  <2> QED BY <2>1, <2>2, <2>3 DEF HalInv
<1> QED BY <1>1, <1>2

LEMMA HalInvariant == Spec => []HalInv
BY HalStart, HalStep, PTL DEF Spec

\* What the segment registers hold is what the descriptors in force mean: the
\* table that hal_initialize puts in the place of the loader's, and every
\* interrupt, leave code and data where they are (gdt.cpp:64-119, Hal.cpp:12-25).
THEOREM SegmentsKept == Spec => []SegmentsAgree
<1>1. HalInv => SegmentsAgree
  BY TablesAgree DEF HalInv, SegmentsLoaded, SegmentsAgree
<1> QED BY <1>1, HalInvariant, PTL

\* Interrupts are on only when the kernel's gates are in force and both
\* controllers have had every word in its order (Hal.cpp:12-25, pic.cpp:110-139).
THEOREM ReadyBeforeEnabled == Spec => []EnabledWhenReady
<1>1. HalInv => EnabledWhenReady
  <2> SUFFICES ASSUME HalInv, flag
               PROVE  lidt /\ pic = [n \in 0..1 |-> IF n = 0 THEN Pic(32, 4, 0) ELSE Pic(40, 2, 0)]
    BY DEF EnabledWhenReady
  <2>1. Ready
    BY DEF HalInv, Starting, Stage, Running, Storing
  <2>2. pic \in [0..1 -> Controllers] /\ pic[0] \in Controllers /\ pic[1] \in Controllers
    BY DEF HalInv, HalTyped
  <2>3. ASSUME NEW p \in Controllers, NEW base \in Nat, NEW wiring \in Nat,
               HasHad(p, 5, base, wiring)
        PROVE  p = Pic(base, wiring, 0)
    BY <2>3 DEF HasHad, Pic, Controllers
  <2>4. pic[0] = Pic(32, 4, 0) /\ pic[1] = Pic(40, 2, 0)
    BY <2>1, <2>2, <2>3 DEF Ready
  <2> QED BY <2>1, <2>2, <2>4 DEF Ready
<1> QED BY <1>1, HalInvariant, PTL

\* Between two calls each counter runs with the divisor of the rate it was asked
\* for last (pit.cpp:88-103).
THEOREM CountersGetTheirRates == Spec => []CountersAsAsked
<1>1. ASSUME HalInv, todo = << >>, NEW c \in CounterNumbers
      PROVE  Programmed(c)
  <2>1. ASSUME NEW k \in 1..21 PROVE ~Starting(k)
    <3>1. k \in Nat /\ 0 < k /\ k < 22
      OBVIOUS
    <3> QED BY <1>1, <3>1, StartingStatement DEF HalInv, Starting
  <2>2. ASSUME NEW freq \in Rates, NEW d \in {0, 2}, NEW n \in 0..3 PROVE ~Counting(n, freq, d)
    <3>1. freq \in Nat /\ n \in Nat /\ n < 4
      BY HalAssumption
    <3> QED BY <1>1, <3>1, CountingStatement DEF HalInv
  <2> QED BY <1>1, <2>1, <2>2 DEF HalInv, Running, Ready, Storing, Idle
<1>2. HalInv => CountersAsAsked
  <2> DEFINE Fits(freq) == freq \in 19..65535
  <2>1. \A freq \in Nat : Fits(freq) => freq \in RatesThatFit
    BY DEF RatesThatFit
  <2>2. HalInv /\ todo = << >> => \A c \in CounterNumbers : Programmed(c) /\ asked[c] \in Nat
    BY <1>1 DEF HalInv, HalTyped
  <2>3. CountersAsAsked <=>
          (todo = << >> => \A c \in CounterNumbers :
             Fits(asked[c]) => IsDivisor(pit[c].reload, asked[c]) /\ pit[c].mode = 54)
    BY DEF CountersAsAsked, CounterNumbers
  <2> HIDE DEF Fits
  <2> QED BY <2>1, <2>2, <2>3 DEF Programmed
<1> QED BY <1>2, HalInvariant, PTL

\* Every interrupt goes to the handler its vector was given last, in the code
\* segment the processor is in -- except the request of a line between the first
\* two of the five stores to its own gate, which goes to the low half of the new
\* address behind the high half of the old one: elsewhere, exactly when the two
\* high halves differ (idt.cpp:71-112, Hal.cpp:30-40, 102-117).
THEOREM InterruptsGoToTheirHandlers == Spec => InterruptsArrive
<1>1. ASSUME HalInv, [Next]_vars
      PROVE  [/\ \A n \in Lines :
                   Interrupt(n) => cs' = cs /\ (where' = set[32 + n] <=> ~Torn(32 + n))
              /\ \A n \in Vectors \cap DOMAIN set :
                   geninterrupt(n) => where' = set[n] /\ cs' = cs]_vars
  <2>1. ASSUME NEW n \in Lines, Interrupt(n)
        PROVE  cs' = cs /\ (where' = set[32 + n] <=> ~Torn(32 + n))
    <3>1. HalTyped /\ SegmentsLoaded /\ (Running \/ (Storing /\ Ready))
      BY <1>1, <2>1 DEF HalInv, Starting, Stage, Storing, Interrupt
    <3> QED BY <2>1, <3>1, LineEntered
  <2>2. ASSUME NEW n \in Vectors \cap DOMAIN set, geninterrupt(n)
        PROVE  where' = set[n] /\ cs' = cs
    <3>1. ASSUME NEW k \in 1..21 PROVE ~Starting(k)
      <4>1. k \in Nat /\ 0 < k /\ k < 22
        OBVIOUS
      <4> QED BY <1>1, <2>2, <4>1, StartingStatement DEF HalInv, Starting, geninterrupt
    <3>2. HalTyped /\ SegmentsLoaded /\ lidt /\ GatesSet
      BY <1>1, <2>2, <3>1 DEF HalInv, Running, Ready, Storing, geninterrupt
    <3>3. n \in 0..(MaxInterrupts - 1) /\ n % 256 = n
      BY <3>2, LowVectors
    <3>4. Enter(n) /\ set[n] \in 1..(UINT32 - 1) /\ idt[n] = Gate(set[n])
      BY <2>2, <3>2, <3>3 DEF geninterrupt, GatesSet
    <3> QED BY <3>2, <3>4, Entered
  <2> QED BY <2>1, <2>2
<1> QED BY <1>1, HalInvariant, PTL DEF Spec, InterruptsArrive
=============================================================================
