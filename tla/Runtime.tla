-------------------------------- MODULE Runtime --------------------------------
(***************************************************************************)
(* The C++ runtime (SysCore/Lib/cstd.cpp) around main(), as kernel_entry   *)
(* calls it (SysCore/Kernel/entry.cpp): the constructors, main(), the exit *)
(* routines.  Constructors, main() and exit routines may register exit     *)
(* routines at any time; main() may return (that of this kernel halts).    *)
(*                                                                         *)
(* Addresses are counted in entries of the table: 0 is 0x5000.             *)
(***************************************************************************)
EXTENDS Integers, Sequences

CONSTANTS
  Routines,      \* the functions that are registered
  Initializers,  \* what is between __xc_a and __xc_z: 0 or a constructor
  MaxEntries,    \* max_atexitlist_entries: 32
  UINT32,        \* modulus of unsigned
  MaxCalls,      \* bound: how many calls of atexit there are
  Null           \* an empty place of the table

Unset == -1   \* pf_atexitlist before _atexit_init: not a place of the table

ASSUME RuntimeAssumption ==
  /\ MaxEntries \in Nat /\ UINT32 \in Nat /\ MaxEntries < UINT32
  /\ Initializers \in Seq(BOOLEAN)
  /\ MaxCalls \in Nat
  /\ Null \notin Routines

VARIABLES
  stage,   \* who runs: kernel_entry, a constructor, main(), Exit, a routine
  init,    \* _initterm's pfbegin
  table,   \* the memory at 0x5000
  pf,      \* pf_atexitlist
  cur,     \* cur_atexitlist_entries
  calls,   \* history: calls of atexit so far
  ran      \* history: the routine Exit ran last

runtimeVars == <<table, pf, cur>>
vars == <<stage, init, runtimeVars, calls, ran>>

Init ==
  /\ stage = "entry"
  /\ init = 1
  /\ table = [p \in 0..(MaxEntries - 1) |-> Null]
  /\ pf = Unset /\ cur = 0
  /\ calls = 0 /\ ran = << >>

\* InitializeConstructors: _atexit_init, then _initterm from its start.
InitializeConstructors ==
  /\ stage = "entry"
  /\ pf' = 0
  /\ stage' = "initterm"
  /\ UNCHANGED <<init, table, cur, calls, ran>>

\* An initializer that is not 0 is called.
_initterm ==
  /\ stage = "initterm"
  /\ IF init <= Len(Initializers)
     THEN /\ stage' = IF Initializers[init] THEN "constructor" ELSE "initterm"
          /\ init' = init + 1
     ELSE stage' = "main" /\ UNCHANGED init
  /\ UNCHANGED <<runtimeVars, calls, ran>>

\* Mutant: the table's last place may be passed.
AtexitOnePast(fn) ==
  /\ stage \in {"constructor", "main", "routine"} /\ calls < MaxCalls
  /\ calls' = calls + 1
  /\ IF cur > MaxEntries
     THEN UNCHANGED <<table, pf, cur>>
     ELSE /\ table' = [table EXCEPT ![pf] = fn]
          /\ pf' = pf + 1 /\ cur' = cur + 1
  /\ UNCHANGED <<stage, init, ran>>

\* A call that finds the table full returns 1 and leaves it as it is.
atexit(fn) ==
  /\ stage \in {"constructor", "main", "routine"} /\ calls < MaxCalls
  /\ calls' = calls + 1
  /\ IF cur >= MaxEntries
     THEN UNCHANGED <<table, pf, cur>>
     ELSE /\ table' = [table EXCEPT ![pf] = fn]
          /\ pf' = pf + 1 /\ cur' = cur + 1
  /\ UNCHANGED <<stage, init, ran>>

\* A constructor, main() or a routine returns to its caller.
Return ==
  /\ \/ stage = "constructor" /\ stage' = "initterm"
     \/ stage \in {"main", "routine"} /\ stage' = "exit"
  /\ UNCHANGED <<init, runtimeVars, calls, ran>>

\* Mutant: neither the counter nor the pointer is moved down.
ExitStays ==
  /\ stage = "exit"
  /\ IF cur = 0
     THEN stage' = "halted" /\ UNCHANGED ran
     ELSE stage' = "routine" /\ ran' = <<table[pf - 1]>>
  /\ UNCHANGED <<init, table, pf, cur, calls>>

\* `while (cur--) (*(--pf))()': both are moved before the routine runs, and the
\* last test leaves the counter below zero.
Exit ==
  /\ stage = "exit"
  /\ cur' = (cur - 1) % UINT32
  /\ IF cur = 0
     THEN stage' = "halted" /\ UNCHANGED <<pf, ran>>
     ELSE /\ stage' = "routine"
          /\ pf' = pf - 1
          /\ ran' = <<table[pf - 1]>>
  /\ UNCHANGED <<init, table, calls>>

Next == InitializeConstructors \/ _initterm \/ (\E fn \in Routines : atexit(fn)) \/ Return \/ Exit

Spec == Init /\ [][Next]_vars
-----------------------------------------------------------------------------
TypeOK ==
  /\ stage \in {"entry", "initterm", "constructor", "main", "exit", "routine", "halted"}
  /\ init \in 1..(Len(Initializers) + 1)
  /\ table \in [0..(MaxEntries - 1) -> Routines \cup {Null}]
  /\ pf \in 0..MaxEntries \cup {Unset}
  /\ cur \in 0..(UINT32 - 1)
  /\ calls \in 0..MaxCalls

\* Whatever constructors, main() and routines register, in any order, is run
\* once, last first, before the machine halts (cstd.cpp:73-104, entry.cpp:19-28).
Stack == INSTANCE ExitStack WITH
           owed <- [i \in 1..(IF stage = "halted" THEN 0 ELSE cur) |-> table[i - 1]],
           halted <- stage = "halted"
RunsInReverse == Stack!Spec
=============================================================================
