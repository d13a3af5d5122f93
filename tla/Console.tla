-------------------------------- MODULE Console --------------------------------
(***************************************************************************)
(* The kernel's console (SysCore/Kernel/DebugDisplay.cpp): a cursor, the   *)
(* place lines start at, a colour, and the video memory.  Each function is *)
(* an operator from one state of the console to the next.                  *)
(***************************************************************************)
EXTENDS Text

CONSTANTS
  Columns,      \* 80
  Rows,         \* rows on the screen: 25
  ClearedRows,  \* rows DebugClrScr clears: 30
  VideoRows     \* rows the video memory has room for

ASSUME ConsoleAssumption ==
  /\ Columns \in Nat \ {0} /\ Rows \in Nat /\ ClearedRows \in Nat /\ VideoRows \in Nat
  /\ Rows <= ClearedRows /\ ClearedRows <= VideoRows

Cells == 0..(VideoRows * Columns - 1)
Cell(x, y) == y * Columns + x
Blank(c) == [char |-> " ", color |-> c]

\* The variables' initial values; the video memory holds what the BIOS left.
InitialConsole(left) ==
  [mem |-> [n \in Cells |-> left], xPos |-> 0, yPos |-> 0, startX |-> 0, startY |-> 0,
   color |-> 0]

\* Mutant: the line is not left.
NewLineStays(s) == [s EXCEPT !.xPos = s.startX]

NewLine(s) == [s EXCEPT !.yPos = @ + 1, !.xPos = s.startX]

\* Mutant: a line may have one more character.
StoresLate(s, c) == c \notin {Nul, "\n", "\r"} /\ s.xPos <= Columns

\* Whether a character is stored: at the end of a line there is a new line in
\* its place.
Stores(s, c) == c \notin {Nul, "\n", "\r"} /\ s.xPos < Columns

DebugPutc(s, c) ==
  IF c = Nul THEN s
  ELSE IF Stores(s, c)
  THEN [s EXCEPT !.mem[Cell(s.xPos, s.yPos)] = [char |-> c, color |-> s.color],
                 !.xPos = @ + 1]
  ELSE NewLine(s)

DebugSetColor(s, c) == [s EXCEPT !.color = c]

DebugGotoXY(s, x, y) ==
  [s EXCEPT !.xPos = 2 * x, !.yPos = 2 * y, !.startX = 2 * x, !.startY = 2 * y]

\* Mutant: as many bytes are cleared as the screen has cells.
ClrScrHalf(s, c) ==
  [s EXCEPT !.mem = [n \in Cells |-> IF n < (Columns * Rows) \div 2 THEN Blank(c) ELSE @[n]],
            !.xPos = s.startX, !.yPos = s.startY]

DebugClrScr(s, c) ==
  [s EXCEPT !.mem = [n \in Cells |-> IF n < Columns * ClearedRows THEN Blank(c) ELSE @[n]],
            !.xPos = s.startX, !.yPos = s.startY]

-----------------------------------------------------------------------------
(* A program's output is a sequence of calls; DebugPuts and DebugPrintf    *)
(* are calls of DebugPutc.                                                 *)

Goto(x, y) == <<[call |-> "goto", x |-> x, y |-> y]>>
SetColor(c) == <<[call |-> "color", color |-> c]>>
ClrScr(c) == <<[call |-> "clear", color |-> c]>>
DebugPuts(text) == [i \in 1..Len(text) |-> [call |-> "putc", char |-> text[i]]]
DebugPrintf(format, args) == DebugPuts(Printf(format, args).text)

Called(s, c) ==
  CASE c.call = "goto" -> DebugGotoXY(s, c.x, c.y)
    [] c.call = "color" -> DebugSetColor(s, c.color)
    [] c.call = "clear" -> DebugClrScr(s, c.color)
    [] OTHER -> DebugPutc(s, c.char)
=============================================================================
