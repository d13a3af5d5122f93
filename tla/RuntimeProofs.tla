----------------------------- MODULE RuntimeProofs -----------------------------
(***************************************************************************)
(* For a table of any size, any initializers and any number of calls: the  *)
(* counter and the pointer of the exit routines agree, and the routines    *)
(* are run in the reverse order of their registration.                     *)
(***************************************************************************)
EXTENDS Runtime, SequenceTheorems, TLAPS

\* The counter and the pointer agree whoever runs: a routine that registers
\* another while Exit is under way does so at the place Exit has freed
\* (cstd.cpp:73-96).
CounterIsPlace ==
  stage \notin {"entry", "halted"} => pf = cur

\* Before its constructors have run the table is empty and has no place; then
\* the pointer is where the counter says, inside the table.
Inv ==
  /\ TypeOK
  /\ CounterIsPlace
  /\ stage = "entry" => cur = 0
  /\ stage # "halted" => cur \in 0..MaxEntries

LEMMA InitInv == Init => Inv
BY RuntimeAssumption DEF Init, Inv, TypeOK, CounterIsPlace, Unset

\* `while (cur--)': the counter goes down by one, or to the largest unsigned.
LEMMA CountDown ==
  ASSUME NEW c \in 0..MaxEntries
  PROVE  /\ (c - 1) % UINT32 \in 0..(UINT32 - 1)
         /\ c # 0 => (c - 1) % UINT32 = c - 1
<1>1. CASE c = 0
  BY <1>1, RuntimeAssumption
<1>2. CASE c # 0
  BY <1>2, RuntimeAssumption
<1> QED BY <1>1, <1>2

LEMMA NextInv == Inv /\ [Next]_vars => Inv'
<1> SUFFICES ASSUME Inv, [Next]_vars PROVE Inv'
  OBVIOUS
<1> USE RuntimeAssumption
<1>1. CASE InitializeConstructors
  BY <1>1 DEF InitializeConstructors, Inv, TypeOK, CounterIsPlace, Unset
<1>2. CASE _initterm
  BY <1>2 DEF _initterm, runtimeVars, Inv, TypeOK, CounterIsPlace, Unset
<1>3. ASSUME NEW fn \in Routines, atexit(fn) PROVE Inv'
  <2>1. pf = cur /\ cur \in 0..MaxEntries
    BY <1>3 DEF atexit, Inv, CounterIsPlace
  <2>2. CASE cur >= MaxEntries
    BY <1>3, <2>2 DEF atexit, Inv, TypeOK, CounterIsPlace, Unset
  <2>3. CASE ~(cur >= MaxEntries)
    <3>1. /\ table' = [table EXCEPT ![pf] = fn] /\ pf' = pf + 1 /\ cur' = cur + 1
          /\ calls' = calls + 1 /\ calls < MaxCalls
          /\ UNCHANGED <<stage, init>> /\ stage \in {"constructor", "main", "routine"}
      BY <1>3, <2>3 DEF atexit
    <3>2. table' \in [0..(MaxEntries - 1) -> Routines \cup {Null}]
      BY <2>1, <2>3, <3>1 DEF Inv, TypeOK
    <3> QED BY <2>1, <2>3, <3>1, <3>2 DEF Inv, TypeOK, CounterIsPlace, Unset
  <2> QED BY <2>2, <2>3
<1>4. CASE Return
  BY <1>4 DEF Return, runtimeVars, Inv, TypeOK, CounterIsPlace, Unset
<1>5. CASE Exit
  <2>1. pf = cur /\ cur \in 0..MaxEntries
    BY <1>5 DEF Exit, Inv, CounterIsPlace
  <2>2. (cur - 1) % UINT32 \in 0..(UINT32 - 1) /\ (cur # 0 => (cur - 1) % UINT32 = cur - 1)
    BY <2>1, CountDown
  <2>3. CASE cur = 0
    BY <1>5, <2>1, <2>2, <2>3 DEF Exit, Inv, TypeOK, CounterIsPlace, Unset
  <2>4. CASE cur # 0
    BY <1>5, <2>1, <2>2, <2>4 DEF Exit, Inv, TypeOK, CounterIsPlace, Unset
  <2> QED BY <2>3, <2>4
<1>6. CASE UNCHANGED vars
  BY <1>6 DEF vars, runtimeVars, Inv, TypeOK, CounterIsPlace, Unset
<1> QED BY <1>1, <1>2, <1>3, <1>4, <1>5, <1>6 DEF Next

\* The inductive invariant holds from the entry of the kernel to its halt.
THEOREM Invariance == Spec => []Inv
<1> QED BY InitInv, NextInv, PTL DEF Spec

\* Type correctness: the counter is an unsigned, and the pointer never leaves
\* the table of exit routines (cstd.cpp:62-96).
THEOREM TypeCorrect == Spec => []TypeOK
<1>1. Inv => TypeOK
  BY DEF Inv
<1> QED BY <1>1, Invariance, PTL

\* The counter and the pointer agree, for a table of any size and whatever is
\* registered while Exit runs (cstd.cpp:73-96).
THEOREM PointerFollowsCounter == Spec => []CounterIsPlace
<1>1. Inv => CounterIsPlace
  BY DEF Inv
<1> QED BY <1>1, Invariance, PTL

-----------------------------------------------------------------------------
(* The runtime implements the stack of exit routines.                      *)

Entries(t, n) == [i \in 1..n |-> t[i - 1]]

\* The first n places of the table, as a sequence.
LEMMA EntriesSeq ==
  ASSUME NEW n \in 0..MaxEntries, NEW S, NEW t \in [0..(MaxEntries - 1) -> S]
  PROVE  Entries(t, n) \in Seq(S) /\ Len(Entries(t, n)) = n
BY RuntimeAssumption DEF Entries

\* Filling the place behind them appends to it.
LEMMA EntriesAppend ==
  ASSUME NEW n \in 0..(MaxEntries - 1), NEW fn, NEW S,
         NEW t \in [0..(MaxEntries - 1) -> S], fn \in S
  PROVE  Entries([t EXCEPT ![n] = fn], n + 1) = Append(Entries(t, n), fn)
<1> DEFINE u == [t EXCEPT ![n] = fn]
<1>1. MaxEntries \in Nat
  BY RuntimeAssumption
<1>2. Entries(t, n) \in Seq(S) /\ Len(Entries(t, n)) = n
  BY <1>1, EntriesSeq
<1>3. Entries(u, n + 1) \in Seq(S) /\ Len(Entries(u, n + 1)) = n + 1
  BY <1>1 DEF Entries
<1>4. Append(Entries(t, n), fn) \in Seq(S) /\ Len(Append(Entries(t, n), fn)) = n + 1
  BY <1>2
<1>5. ASSUME NEW i \in 1..(n + 1)
      PROVE  Entries(u, n + 1)[i] = Append(Entries(t, n), fn)[i]
  <2>1. CASE i = n + 1
    BY <2>1, <1>1, <1>2 DEF Entries
  <2>2. CASE i # n + 1
    BY <2>2, <1>1, <1>2 DEF Entries
  <2> QED BY <2>1, <2>2
<1> QED BY <1>3, <1>4, <1>5, SeqEqual

\* Leaving the last of them out.
LEMMA EntriesFront ==
  ASSUME NEW n \in 1..MaxEntries, NEW S, NEW t \in [0..(MaxEntries - 1) -> S]
  PROVE  Entries(t, n - 1) = SubSeq(Entries(t, n), 1, n - 1)
<1>1. MaxEntries \in Nat
  BY RuntimeAssumption
<1>2. Entries(t, n) \in Seq(S) /\ Len(Entries(t, n)) = n
  BY <1>1, EntriesSeq
<1>3. Entries(t, n - 1) \in Seq(S) /\ Len(Entries(t, n - 1)) = n - 1
  BY <1>1 DEF Entries
<1>4. /\ SubSeq(Entries(t, n), 1, n - 1) \in Seq(S)
      /\ Len(SubSeq(Entries(t, n), 1, n - 1)) = n - 1
      /\ \A i \in 1..(n - 1) : SubSeq(Entries(t, n), 1, n - 1)[i] = Entries(t, n)[i]
  BY <1>1, <1>2
<1>5. \A i \in 1..(n - 1) : Entries(t, n - 1)[i] = Entries(t, n)[i]
  BY <1>1 DEF Entries
<1> QED BY <1>3, <1>4, <1>5, SeqEqual

LEMMA InitRefines == Init => Stack!Init
BY DEF Init, Stack!Init, Entries

LEMMA NextRefines == Inv /\ [Next]_vars => [Stack!Next]_Stack!vars
<1> SUFFICES ASSUME Inv, [Next]_vars PROVE [Stack!Next]_Stack!vars
  OBVIOUS
<1> USE RuntimeAssumption
<1>1. CASE InitializeConstructors
  BY <1>1 DEF InitializeConstructors, Stack!vars
<1>2. CASE _initterm
  BY <1>2 DEF _initterm, runtimeVars, Stack!vars
<1>3. ASSUME NEW fn \in Routines, atexit(fn) PROVE [Stack!Next]_Stack!vars
  <2>1. pf = cur /\ cur \in 0..MaxEntries /\ stage # "halted" /\ stage' = stage /\ ran' = ran
    BY <1>3 DEF atexit, Inv, CounterIsPlace
  <2>2. CASE cur >= MaxEntries
    BY <1>3, <2>1, <2>2 DEF atexit, Stack!vars
  <2>3. CASE ~(cur >= MaxEntries)
    <3>1. table' = [table EXCEPT ![cur] = fn] /\ cur' = cur + 1
      BY <1>3, <2>1, <2>3 DEF atexit
    <3>2. Entries(table', cur') = Append(Entries(table, cur), fn)
      <4>1. table \in [0..(MaxEntries - 1) -> Routines \cup {Null}]
        BY DEF Inv, TypeOK
      <4>2. cur \in 0..(MaxEntries - 1) /\ fn \in Routines \cup {Null}
        BY <2>1, <2>3
      <4> QED BY <3>1, <4>1, <4>2, EntriesAppend
    <3>3. Stack!Register(fn)
      BY <2>1, <3>2 DEF Stack!Register, Entries
    <3> QED BY <3>3 DEF Stack!Next
  <2> QED BY <2>2, <2>3
<1>4. CASE Return
  BY <1>4 DEF Return, runtimeVars, Stack!vars
<1>5. CASE Exit
  <2>1. /\ stage = "exit" /\ pf = cur /\ cur \in 0..MaxEntries
        /\ table' = table /\ cur' = (cur - 1) % UINT32
    BY <1>5 DEF Exit, Inv, CounterIsPlace
  <2>2. /\ Entries(table, cur) \in Seq(Routines \cup {Null})
        /\ Len(Entries(table, cur)) = cur
        /\ table \in [0..(MaxEntries - 1) -> Routines \cup {Null}]
    <3>1. table \in [0..(MaxEntries - 1) -> Routines \cup {Null}]
      BY DEF Inv, TypeOK
    <3> QED BY <2>1, <3>1, EntriesSeq
  <2>3. CASE cur = 0
    <3>1. Entries(table, cur) = << >> /\ stage' = "halted" /\ ran' = ran
      BY <1>5, <2>1, <2>2, <2>3 DEF Exit, Entries
    <3>2. Entries(table', 0) = << >>
      BY DEF Entries
    <3>3. Stack!Halt
      BY <2>1, <2>3, <3>1, <3>2 DEF Stack!Halt, Entries
    <3> QED BY <3>3 DEF Stack!Next
  <2>4. CASE cur # 0
    <3>1. stage' = "routine" /\ ran' = <<table[cur - 1]>> /\ cur' = cur - 1
      BY <1>5, <2>1, <2>4, CountDown DEF Exit
    <3>2. Entries(table', cur') = SubSeq(Entries(table, cur), 1, cur - 1)
      <4>1. cur \in 1..MaxEntries
        BY <2>1, <2>4
      <4> QED BY <2>1, <2>2, <3>1, <4>1, EntriesFront
    <3>3. Entries(table, cur) # << >> /\ Entries(table, cur)[cur] = table[cur - 1]
      BY <2>1, <2>2, <2>4 DEF Entries
    <3>4. Stack!RunLast
      BY <2>1, <2>2, <2>4, <3>1, <3>2, <3>3 DEF Stack!RunLast, Entries
    <3> QED BY <3>4 DEF Stack!Next
  <2> QED BY <2>3, <2>4
<1>6. CASE UNCHANGED vars
  BY <1>6 DEF vars, runtimeVars, Stack!vars
<1> QED BY <1>1, <1>2, <1>3, <1>4, <1>5, <1>6 DEF Next

\* Whatever is registered, by whom and when, is run once, last first, and
\* nothing is owed when the machine halts (cstd.cpp:73-104, entry.cpp:19-28).
THEOREM Refinement == Spec => RunsInReverse
<1> QED BY InitRefines, NextRefines, Invariance, PTL DEF Spec, RunsInReverse, Stack!Spec
=============================================================================
