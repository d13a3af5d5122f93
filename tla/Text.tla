--------------------------------- MODULE Text ---------------------------------
(***************************************************************************)
(* The kernel's formatted output: itoa and itoa_s (DebugDisplay.cpp), the  *)
(* formats of DebugPrintf (DebugDisplay.cpp) and vsprintf (Lib/stdio.cpp). *)
(*                                                                         *)
(* A text is a sequence of characters.  A format is a sequence of          *)
(* characters and of the conversions %c, %s, %d and %x (%i and %X are the  *)
(* same as the last two); "%" is one that is followed by anything else.    *)
(***************************************************************************)
EXTENDS Integers, SequencesExt

CONSTANTS
  UINT32,     \* modulus of unsigned (2^32 in the build); int is the lower half of it
  BufferSize, \* kernel_panic's char buf[1024]
  Nul         \* '\0'

ASSUME TextAssumption == UINT32 \in Nat \ {0} /\ UINT32 % 2 = 0 /\ BufferSize \in Nat

bchars == <<"0", "1", "2", "3", "4", "5", "6", "7", "8", "9", "A", "B", "C", "D", "E", "F">>

itoa(i, base) ==
  LET digits[n \in 0..(UINT32 - 1)] ==
        IF n = 0 THEN << >> ELSE Append(digits[n \div base], bchars[(n % base) + 1])
  IN  IF i = 0 \/ base < 2 \/ base > 16 THEN <<"0">> ELSE digits[i]

\* Mutant: the sign is not taken off the number.
itoa_sKeepsSign(i, base) ==
  IF base > 16 THEN << >>
  ELSE IF i < 0 THEN <<"-">> \o itoa(i % UINT32, base)
  ELSE itoa(i, base)

\* `i *= -1' leaves the least int as it is; itoa takes it for unsigned.
itoa_s(i, base) ==
  IF base > 16 THEN << >>   \* the caller's buffer stays empty
  ELSE IF i < 0 THEN <<"-">> \o itoa((-i) % UINT32, base)
  ELSE itoa(i, base)

\* What a conversion makes of its argument.
Converted(conversion, arg) ==
  CASE conversion = "%c" -> <<arg>>
    [] conversion = "%s" -> arg
    [] conversion = "%d" -> itoa_s(arg, 10)
    [] conversion = "%x" -> itoa_s(arg, 16)
Conversions == {"%c", "%s", "%d", "%x"}

\* DebugPrintf: what it has passed to DebugPutc, and what it returns, with one
\* more element of its format.  It stops at a `%' it does not know.
Printed(s, t) ==
  CASE s.returns = 1 -> s
    [] s.returns = 0 /\ t \in Conversions ->
         [text |-> s.text \o Converted(t, Head(s.args)), args |-> Tail(s.args), returns |-> 0]
    [] s.returns = 0 /\ t = "%" -> [s EXCEPT !.returns = 1]
    [] OTHER -> [s EXCEPT !.text = Append(@, t)]
Printf(format, args) ==
  LET state[n \in 0..Len(format)] ==
        IF n = 0 THEN [text |-> << >>, args |-> args, returns |-> 0]
        ELSE Printed(state[n - 1], format[n])
  IN  state[Len(format)]

-----------------------------------------------------------------------------
(* vsprintf, into the memory str.                                          *)

strcpy(str, loc, s) ==
  [p \in DOMAIN str |-> IF p \in loc..(loc + Len(s) - 1) THEN s[p - loc + 1]
                        ELSE IF p = loc + Len(s) THEN Nul ELSE str[p]]

\* Mutant: `loc += strlen(s) - 1', so that the next character follows the text.
AfterTextFollows(loc, len) == loc + len

\* `loc += strlen(s) - 2' and the loop's loc++: what follows a number or a
\* string is written over its last character.
AfterText(loc, len) == loc + len - 1

\* A `%' it does not know leaves a gap.  Nothing ends the text but the end of a
\* number or a string.
Formatted(s, t) ==
  IF t \in Conversions \ {"%c"}
  THEN LET text == Converted(t, Head(s.args))
       IN  [str |-> strcpy(s.str, s.loc, text), args |-> Tail(s.args),
            loc |-> AfterText(s.loc, Len(text))]
  ELSE [str  |-> IF t = "%" THEN s.str
                 ELSE [s.str EXCEPT ![s.loc] = IF t = "%c" THEN Head(s.args) ELSE t],
        args |-> IF t = "%c" THEN Tail(s.args) ELSE s.args,
        loc  |-> s.loc + 1]
vsprintf(str, format, args) ==
  LET state[n \in 0..Len(format)] ==
        IF n = 0 THEN [str |-> str, args |-> args, loc |-> 0]
        ELSE Formatted(state[n - 1], format[n])
  IN  state[Len(format)]

\* The text strlen and DebugPuts find in a memory.
TextIn(str) ==
  LET ends == {p \in DOMAIN str : str[p] = Nul}
      len == IF ends = {} THEN Cardinality(DOMAIN str) ELSE Min(ends)
  IN  [i \in 1..len |-> str[i - 1]]
=============================================================================
