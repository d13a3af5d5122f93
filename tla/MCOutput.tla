------------------------------- MODULE MCOutput -------------------------------
(***************************************************************************)
(* Short texts with the shapes of the real ones: a title one longer than a *)
(* line, a message that fills its line and ends it, a format with pairs of *)
(* numbers and a string at its end, one that begins with a line feed and   *)
(* whose first line two large numbers make too long, messages that end in  *)
(* a number and in one character after a number.                           *)
(***************************************************************************)
EXTENDS Output

MCTexts ==
  [title |-> <<"M", "i", "c", "r", "o", "c", "o", "m", "p", "u", "t", "e", "r", "O", "S">>,
   starting |-> <<"u", "p">>,
   hal |-> <<"I", "n", "i", "t", "i", "a", "l", "i", "z", "i", "n", "g", ".", ".", "\n">>,
   map |-> <<"m", "\n">>,
   region |-> <<"R", "%d", "@", "%x", "%x", ",", "%x", "%x", ".", "%s", "\n">>,
   total |-> <<"T", "%d", ".", "\n">>,
   blocks |-> <<"\n", "p", "m", "m", "=", "%d", ";", "u", "s", "d", ":", "%d",
                "\n", "f", "=", "%d", "\n">>,
   sickpc |-> <<"x", "_", "x", "\n">>,
   disc |-> <<"h", "a", "l", "t", "\n", "\n">>,
   stop |-> <<"!", "%s", "\n">>,
   unhandled |-> <<"*", "h", "a", "l">>]

Entry(startHi, start, sizeHi, size, type) ==
  [startHi |-> startHi, start |-> start, sizeHi |-> sizeHi, size |-> size, type |-> type]

\* None; the greatest total; low halves with their highest bit set, and a type
\* that runs over the line's end; high halves, and an entry that ends at 0 again.
MCRegionLists ==
  { << >>,
    << Entry(0, 127, 0, 127, <<"r">>) >>,
    << Entry(0, 26, 0, 101, <<"a", "v">>), Entry(0, -128, 0, -1, <<"r", "e", "s">>) >>,
    << Entry(1, 0, 0, 16, <<"a">>), Entry(0, 16, 1, -16, <<"r", "e">>) >> }
\* The first line of the last message full, one too long, and with room left;
\* in the last case the counter of the used blocks has wrapped below 0.
MCCounts ==
  {[blocks |-> 27, used |-> 127], [blocks |-> 127, used |-> 100], [blocks |-> 2, used |-> -1]}
MCMessages ==
  { [format |-> <<"[", "%x", ":", "%x", "]">>, args |-> <<8, -64>>],
    [format |-> <<"p", "%x", ":", "%x">>, args |-> <<8, 127>>] }
=============================================================================
