------------------------------- MODULE ExitStack -------------------------------
(***************************************************************************)
(* What code that registers exit routines may rely on: the routines are    *)
(* owed in the reverse order of their registration, each is run once, and  *)
(* none is owed any more when the machine halts.                           *)
(***************************************************************************)
EXTENDS Integers, Sequences

CONSTANT Routines

VARIABLES
  owed,    \* the routines to run, the last one first
  ran,     \* the routine that was run last
  halted

vars == <<owed, ran, halted>>

Init == owed = << >> /\ ran = << >> /\ halted = FALSE

Register(fn) ==
  /\ owed' = Append(owed, fn)
  /\ UNCHANGED <<ran, halted>>

RunLast ==
  /\ owed # << >>
  /\ ran' = <<owed[Len(owed)]>>
  /\ owed' = SubSeq(owed, 1, Len(owed) - 1)
  /\ UNCHANGED halted

Halt ==
  /\ owed = << >>
  /\ halted' = TRUE
  /\ UNCHANGED <<owed, ran>>

Next == (\E fn \in Routines : Register(fn)) \/ RunLast \/ Halt

Spec == Init /\ [][Next]_vars
=============================================================================
