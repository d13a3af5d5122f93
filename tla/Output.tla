-------------------------------- MODULE Output --------------------------------
(***************************************************************************)
(* What the kernel shows: main()'s messages (SysCore/Kernel/main.cpp:27-   *)
(* 104), and those of the two handlers that may break in on them between   *)
(* any two characters and never return: i86_default_handler (Hal/idt.cpp)  *)
(* and, by way of an exception's handler, kernel_panic (Kernel/panic.cpp). *)
(***************************************************************************)
EXTENDS Console

CONSTANTS
  Texts,        \* the texts and formats of main(), kernel_panic and the default handler
  DefaultRow,   \* 10, the row the default handler writes to
  RegionLists,  \* the memory maps, with the types' names
  Counts,       \* the blocks pmmngr.cpp counts, all and used, for main() to print
  Kilobyte,     \* 1024: main() shows the memory's size >> 10
  Messages,     \* kernel_panic's format and arguments, by the exception handlers
  Stray         \* a character left in memory by something else

Characters == STRING \ {Stray}
Ints == -(UINT32 \div 2)..(UINT32 \div 2 - 1)

\* The arguments of a format: one for each conversion, of its type.
Conversion(format, n) == Cardinality({m \in 1..n : format[m] \in Conversions})
ArgsFit(format, args) ==
  \A n \in 1..Len(format) : format[n] \in Conversions =>
    LET k == Conversion(format, n) IN
    /\ k <= Len(args)
    /\ args[k] \in CASE format[n] \in {"%d", "%x"} -> Ints
                     [] format[n] = "%s" -> Seq(Characters)
                     [] format[n] = "%c" -> Characters

\* The exception handlers' messages show numbers only, the last of them at the
\* end or before the last character (exception.cpp:23-124).
ShowsNumbers(message) ==
  /\ message.format \in Seq(Characters \ {"%", "%c", "%s"})
  /\ message.args \in Seq(Ints) /\ ArgsFit(message.format, message.args)
  /\ \E n \in 1..Len(message.format) :
       message.format[n] \in {"%d", "%x"} /\ Len(message.format) <= n + 1

ASSUME OutputAssumption ==
  /\ DefaultRow \in Nat /\ 2 * DefaultRow < Rows
  /\ Kilobyte \in Nat \ {0, 1}
  /\ Counts \subseteq [blocks : Ints, used : Ints]
  /\ Stray # Nul

\* A number that is kept modulo UINT32, as an int.
ToInt(n) == IF n % UINT32 < UINT32 \div 2 THEN n % UINT32 ELSE (n % UINT32) - UINT32

\* What main() prints of the i-th entry of a map: the high half of a number, and
\* its low half behind it without a place for its zeros (main.cpp:81-84).
RegionArgs(list, i) ==
  <<i - 1, list[i].startHi, list[i].start, list[i].sizeHi, list[i].size, list[i].type>>
\* And of the blocks (main.cpp:103-104, mmngr_phys.cpp:177-191).
CountArgs(count) == <<count.blocks, count.used, ToInt(count.blocks - count.used)>>

\* What the texts hold is none of what is left in memory.
ASSUME TextsAssumption ==
  /\ {" ", "-"} \cup Range(bchars) \subseteq Characters
  /\ {Texts.title, Texts.starting, Texts.hal, Texts.map, Texts.region, Texts.total, Texts.blocks,
      Texts.sickpc, Texts.disc, Texts.stop, Texts.unhandled} \subseteq Seq(Characters)
  /\ \A text \in {Texts.title, Texts.starting, Texts.hal, Texts.map} : ArgsFit(text, << >>)
  /\ \A n \in 0..(UINT32 \div 2 - 1) : ArgsFit(Texts.total, <<n>>)
  /\ \A list \in RegionLists :
       /\ list \in Seq([startHi : Ints, start : Ints, sizeHi : Ints, size : Ints,
                       type : Seq(Characters)])
       /\ \A n \in 1..Len(list) : ArgsFit(Texts.region, RegionArgs(list, n))
  /\ \A count \in Counts : ArgsFit(Texts.blocks, CountArgs(count))
  /\ \A n \in 1..Len(Texts.stop) :
       Texts.stop[n] \in Conversions => Texts.stop[n] = "%s" /\ Conversion(Texts.stop, n) = 1
  /\ \A message \in Messages : ShowsNumbers(message)

VARIABLES
  console,  \* the statics of DebugDisplay.cpp and the video memory
  regions,  \* the memory map: [startHi, start, sizeHi, size, type] of its entries
  total,    \* main()'s totalMemory
  counts,   \* the blocks: [blocks, used]
  part,     \* how far main() is: 1 before hal_initialize, 2 setting vectors,
            \* 3 printing with all vectors set, 4 at its final cli
  running,  \* who runs: main(), the default handler, or kernel_panic, first up to
            \* its message and then with it
  todo,     \* the calls it has still to make
  alone     \* history: the console if kernel_panic had found it untouched

vars == <<console, regions, total, counts, part, running, todo, alone>>

\* main.cpp:27-34.
Banner ==
  ClrScr(24) \o Goto(0, 0) \o SetColor(112) \o DebugPrintf(Texts.title, << >>)
  \o Goto(0, 1) \o DebugPrintf(Texts.starting, << >>)
  \o Goto(0, 2) \o DebugPrintf(Texts.hal, << >>)

\* main.cpp:63-104; the calls of the memory manager in between are MemoryBoot's.
MemoryMap ==
  SetColor(25) \o DebugPrintf(Texts.map, << >>) \o SetColor(23)
  \o FlattenSeq([i \in 1..Len(regions) |->
       DebugPrintf(Texts.region, RegionArgs(regions, i))])
  \o DebugPrintf(Texts.total, <<total>>)
  \o DebugPrintf(Texts.blocks, CountArgs(counts))

\* main.cpp:75-90: the highest end of an entry, as the low halves have it.
Ends(list) == {(list[i].start + list[i].size) % UINT32 : i \in DOMAIN list}
IsTotal(n, list) ==
  \E last \in {0} \cup Ends(list) :
    (\A end \in Ends(list) : end <= last) /\ n = last \div Kilobyte

Part(n) == CASE n = 1 -> Banner [] n = 3 -> MemoryMap [] OTHER -> << >>

\* panic.cpp:26-31, 34-39.
Panic ==
  ClrScr(19) \o Goto(0, 0) \o SetColor(23)
  \o DebugPuts(Texts.sickpc) \o DebugPuts(Texts.disc)
PanicMessage(message, buf) ==
  DebugPrintf(Texts.stop, <<TextIn(vsprintf(buf, message.format, message.args).str)>>)

Init ==
  /\ console = InitialConsole(Blank(7))
  /\ regions \in RegionLists /\ counts \in Counts
  /\ total \in 0..(UINT32 \div 2 - 1) /\ IsTotal(total, regions)
  /\ part = 1 /\ running = "main" /\ todo = Banner
  /\ alone = InitialConsole(Blank(0))

Call ==
  /\ todo # << >>
  /\ console' = Called(console, Head(todo))
  /\ alone' = IF running \in {"panic", "message"} THEN Called(alone, Head(todo)) ELSE alone
  /\ todo' = Tail(todo)
  /\ UNCHANGED <<regions, total, counts, part, running>>

NextPart ==
  /\ running = "main" /\ todo = << >> /\ part < 4
  /\ part' = part + 1
  /\ todo' = Part(part')
  /\ UNCHANGED <<console, regions, total, counts, running, alone>>

\* An interrupt or exception without a handler of its own.  Before
\* hal_initialize there is no table, and at the end of main() no interrupt.
i86_default_handler ==
  /\ running = "main" /\ part \in {2, 3}
  /\ running' = "default"
  /\ todo' = Goto(0, DefaultRow) \o DebugPuts(Texts.unhandled)
  /\ UNCHANGED <<console, regions, total, counts, part, alone>>

\* An exception's handler clears the screen and says what has happened.
kernel_panic ==
  /\ running \in {"main", "default"} /\ part >= 2
  /\ running' = "panic"
  /\ todo' = Panic
  /\ UNCHANGED <<console, regions, total, counts, part, alone>>

\* Then it shows the message; buf is on the stack, with what was there before.
ShowMessage(message, buf) ==
  /\ running = "panic" /\ todo = << >>
  /\ running' = "message"
  /\ todo' = PanicMessage(message, buf)
  /\ UNCHANGED <<console, regions, total, counts, part, alone>>

Buffers == {[p \in 0..(BufferSize - 1) |-> c] : c \in {Nul, Stray}}

Next ==
  \/ Call
  \/ NextPart
  \/ i86_default_handler
  \/ kernel_panic
  \/ \E message \in Messages, buf \in Buffers : ShowMessage(message, buf)

Spec == Init /\ [][Next]_vars
-----------------------------------------------------------------------------
\* What is on the screen.
Screen == [n \in 0..(Rows * Columns - 1) |-> console.mem[n]]
Line(y) == [i \in 1..Columns |-> Screen[Cell(i - 1, y)].char]

\* The number between the two marks of a line, read in a base.
Digit(c) == SelectInSeq(bchars, LAMBDA d : d = c) - 1
Reads(line, base) ==
  LET negative == line # << >> /\ line[1] = "-"
      value[k \in 0..Len(line)] ==
        IF k = 0 \/ (k = 1 /\ negative) THEN 0
        ELSE value[k - 1] * base + Digit(line[k])
  IN  IF negative THEN -value[Len(line)] ELSE value[Len(line)]
Between(line, first, last) ==
  LET from == SelectInSeq(line, LAMBDA c : c = first)
      to == SelectInSeq(line, LAMBDA c : c = last)
  IN  SubSeq(line, from + 1, to - 1)

TypeOK ==
  /\ console.mem \in [Cells -> [char : STRING, color : 0..255]]
  /\ console.xPos \in 0..Columns /\ console.yPos \in 0..(VideoRows - 1)
  /\ console.startX = 0 /\ console.startY \in {0, 2, 4, 2 * DefaultRow}
  /\ console.color \in 0..255
  /\ part \in 1..4 /\ running \in {"main", "default", "panic", "message"}

\* The panic screen is that of the panic alone, wherever it broke in: nothing
\* of the interrupted output is on it, nor does the cursor or the colour it
\* left change it (panic.cpp:26-39, DebugDisplay.cpp:85-102).
PanicScreenIsItsOwn ==
  running \in {"panic", "message"} /\ todo = << >> =>
    \A n \in DOMAIN Screen : Screen[n] = alone.mem[n]

\* No message of the exception handlers makes the panic show what the stack
\* held before: each ends so that vsprintf, which does not end a text itself,
\* leaves it ended (stdio.cpp:9-69, exception.cpp:23-124, panic.cpp:34-39).
NoStrayCharacters ==
  running \in {"panic", "message"} => \A n \in DOMAIN Screen : Screen[n].char # Stray

\* What a text takes of its line.
LineLength(text) == SelectInSeq(text, LAMBDA c : c = "\n") - 1

\* When main() is done its numbers can be read off the screen, negative ones
\* and the least one too, also where a line ran over its end or began with a
\* line feed -- but those of an entry whose high half is not 0, as 1 before 0
\* and 0 before 16 look the same, and the used blocks when their line is too
\* long, as the character in the place behind a line is lost
\* (DebugDisplay.cpp:18-41, 47-75, 118-176, main.cpp:73-104).
NumbersReadBack ==
  running = "main" /\ part = 4 =>
    LET Shown(mark, first, last, base, n) ==
          \E y \in 0..(Rows - 1) :
            Line(y)[1] = mark /\ Reads(Between(Append(Line(y), " "), first, last), base) = n
        ShownLow(first, last, n) ==
          \E y \in 0..(Rows - 1) :
            LET text == Between(Line(y), first, last) IN
            Line(y)[1] = "R" /\ text[1] = "0" /\ Reads(Tail(text), 16) = n
    IN  /\ Shown("T", "T", ".", 10, total)
        /\ \A r \in DOMAIN regions :
             /\ regions[r].startHi = 0 => ShownLow("@", ",", regions[r].start)
             /\ regions[r].sizeHi = 0 => ShownLow(",", ".", regions[r].size)
        /\ Shown("p", "=", ";", 10, counts.blocks)
        /\ LineLength(Tail(Printf(Texts.blocks, CountArgs(counts)).text)) <= Columns
             => Shown("p", ":", " ", 10, counts.used)
        /\ Shown("f", "=", " ", 10, ToInt(counts.blocks - counts.used))

\* main() never writes over what it has shown, whether a line ends by itself,
\* with a new line or both, or a GotoXY comes first (DebugDisplay.cpp:18-41,
\* 85-90, main.cpp:26-104).
NothingOverwritten ==
  [][running = "main" /\ todo # << >> =>
       LET call == Head(todo) IN
       call.call = "putc" /\ Stores(console, call.char) =>
         console.mem[Cell(console.xPos, console.yPos)].char = " "]_vars
=============================================================================
