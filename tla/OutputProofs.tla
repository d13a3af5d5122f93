------------------------------ MODULE OutputProofs ------------------------------
(***************************************************************************)
(* The panic's screen, for every size of the screen, every text and        *)
(* whatever the panic broke in on.  The console that kernel_panic finds    *)
(* and an untouched one become alike with its first three calls, and calls *)
(* keep consoles alike.  What the texts are does not matter for that.      *)
(*                                                                         *)
(* Then the numbers that are shown, for every width of an integer, and     *)
(* that nothing else than texts and numbers is: each format has arguments  *)
(* of the right types, and a message's last number ends what vsprintf      *)
(* makes of it.  Digits and formats are recurred over; the proofs take the *)
(* least place where a claim would fail.                                   *)
(***************************************************************************)
EXTENDS Output, WellFoundedInduction, FiniteSetTheorems, TLAPS

-----------------------------------------------------------------------------
(* Consoles.                                                               *)

\* A console has six fields, of which one is the video memory.
Shaped(s) ==
  /\ s = [mem |-> s.mem, xPos |-> s.xPos, yPos |-> s.yPos, startX |-> s.startX,
          startY |-> s.startY, color |-> s.color]
  /\ s.mem = [n \in Cells |-> s.mem[n]]

\* Two consoles with the same cursor, line start and colour, and the same
\* contents of what is cleared.
SameScreen(s, t) == \A n \in Cells : n < Columns * ClearedRows => s.mem[n] = t.mem[n]
SameCursor(s, t) ==
  /\ s.xPos = t.xPos /\ s.yPos = t.yPos
  /\ s.startX = t.startX /\ s.startY = t.startY
Alike(s, t) == SameScreen(s, t) /\ SameCursor(s, t) /\ s.color = t.color

LEMMA GotoFields ==
  ASSUME NEW s, Shaped(s), NEW x, NEW y, NEW u, u = DebugGotoXY(s, x, y)
  PROVE  /\ Shaped(u) /\ u.mem = s.mem /\ u.color = s.color
         /\ u.xPos = 2 * x /\ u.yPos = 2 * y /\ u.startX = 2 * x /\ u.startY = 2 * y
BY DEF Shaped, DebugGotoXY

LEMMA ColorFields ==
  ASSUME NEW s, Shaped(s), NEW c, NEW u, u = DebugSetColor(s, c)
  PROVE  /\ Shaped(u) /\ u.mem = s.mem /\ u.color = c /\ SameCursor(u, s)
BY DEF Shaped, DebugSetColor, SameCursor

LEMMA ClearFields ==
  ASSUME NEW s, Shaped(s), NEW c, NEW u, u = DebugClrScr(s, c)
  PROVE  /\ Shaped(u) /\ u.color = s.color
         /\ \A n \in Cells : u.mem[n] = IF n < Columns * ClearedRows THEN Blank(c) ELSE s.mem[n]
         /\ u.xPos = s.startX /\ u.yPos = s.startY
         /\ u.startX = s.startX /\ u.startY = s.startY
BY DEF Shaped, DebugClrScr

LEMMA LineFields ==
  ASSUME NEW s, Shaped(s), NEW u, u = NewLine(s)
  PROVE  /\ Shaped(u) /\ u.mem = s.mem /\ u.color = s.color
         /\ u.xPos = s.startX /\ u.yPos = s.yPos + 1
         /\ u.startX = s.startX /\ u.startY = s.startY
BY DEF Shaped, NewLine

\* A character stored at a place, as DebugPutc does it.
Stored(s, place, c) ==
  [s EXCEPT !.mem[place] = [char |-> c, color |-> s.color], !.xPos = @ + 1]

LEMMA StoreFields ==
  ASSUME NEW s, Shaped(s), NEW c, NEW place, NEW u, u = Stored(s, place, c)
  PROVE  /\ Shaped(u)
         /\ \A n \in Cells :
              u.mem[n] = IF n = place THEN [char |-> c, color |-> s.color] ELSE s.mem[n]
         /\ u.xPos = s.xPos + 1 /\ u.yPos = s.yPos
         /\ u.startX = s.startX /\ u.startY = s.startY /\ u.color = s.color
BY DEF Shaped, Stored

LEMMA PutcFields ==
  ASSUME NEW s, Shaped(s), NEW t, Shaped(t), NEW c
  PROVE  /\ Shaped(DebugPutc(s, c))
         /\ Alike(s, t) => Alike(DebugPutc(s, c), DebugPutc(t, c))
<1>1. CASE c = Nul
  BY <1>1 DEF DebugPutc
<1>2. ASSUME c # Nul, NEW r, Shaped(r), Stores(r, c)
      PROVE  DebugPutc(r, c) = Stored(r, Cell(r.xPos, r.yPos), c)
  BY <1>2 DEF DebugPutc, Stored
<1>3. ASSUME c # Nul, NEW r, ~Stores(r, c) PROVE DebugPutc(r, c) = NewLine(r)
  BY <1>3 DEF DebugPutc
<1>4. ASSUME c # Nul PROVE Shaped(DebugPutc(s, c))
  <2>1. CASE Stores(s, c)
    <3>1. DebugPutc(s, c) = Stored(s, Cell(s.xPos, s.yPos), c)
      BY <1>2, <1>4, <2>1
    <3> QED BY <3>1, StoreFields
  <2>2. CASE ~Stores(s, c)
    BY <1>3, <1>4, <2>2, LineFields
  <2> QED BY <2>1, <2>2
<1>5. ASSUME c # Nul, Alike(s, t), Stores(s, c) PROVE Alike(DebugPutc(s, c), DebugPutc(t, c))
  <2>1. Stores(t, c)
    BY <1>5, Zenon DEF Alike, SameCursor, Stores
  <2>2. Cell(s.xPos, s.yPos) = Cell(t.xPos, t.yPos)
    BY <1>5 DEF Alike, SameCursor
  <2> DEFINE place == Cell(s.xPos, s.yPos)
             stored == [char |-> c, color |-> s.color]
             u == DebugPutc(s, c)
             v == DebugPutc(t, c)
  <2>3. s.color = t.color
    BY <1>5 DEF Alike
  <2>4. u = Stored(s, place, c) /\ v = Stored(t, place, c)
    BY <1>2, <1>5, <2>1, <2>2
  <2> HIDE DEF u, v, place
  <2>5. /\ \A n \in Cells : u.mem[n] = IF n = place THEN stored ELSE s.mem[n]
        /\ u.xPos = s.xPos + 1 /\ u.yPos = s.yPos
        /\ u.startX = s.startX /\ u.startY = s.startY /\ u.color = s.color
    BY <2>4, StoreFields
  <2>6. /\ \A n \in Cells : v.mem[n] = IF n = place THEN stored ELSE t.mem[n]
        /\ v.xPos = t.xPos + 1 /\ v.yPos = t.yPos
        /\ v.startX = t.startX /\ v.startY = t.startY /\ v.color = t.color
    BY <2>3, <2>4, StoreFields
  <2> HIDE DEF stored
  <2>7. Alike(u, v)
    BY <1>5, <2>5, <2>6 DEF Alike, SameScreen, SameCursor
  <2> QED BY <2>7 DEF u, v
<1>6. ASSUME c # Nul, Alike(s, t), ~Stores(s, c) PROVE Alike(DebugPutc(s, c), DebugPutc(t, c))
  <2>1. ~Stores(t, c)
    BY <1>6, Zenon DEF Alike, SameCursor, Stores
  <2> QED BY <1>3, <1>6, <2>1, LineFields DEF Alike, SameScreen, SameCursor
<1> QED BY <1>1, <1>4, <1>5, <1>6

\* Every call makes a console of a console, and keeps two alike.
LEMMA CalledAlike ==
  ASSUME NEW s, Shaped(s), NEW t, Shaped(t), NEW c
  PROVE  /\ Shaped(Called(s, c))
         /\ Alike(s, t) => Alike(Called(s, c), Called(t, c))
<1>1. CASE c.call = "goto"
  <2>1. \A r : Called(r, c) = DebugGotoXY(r, c.x, c.y)
    BY <1>1 DEF Called
  <2> QED BY <2>1, GotoFields DEF Alike, SameScreen, SameCursor
<1>2. CASE c.call = "color"
  <2>1. \A r : Called(r, c) = DebugSetColor(r, c.color)
    BY <1>2 DEF Called
  <2> QED BY <2>1, ColorFields DEF Alike, SameScreen, SameCursor
<1>3. CASE c.call = "clear"
  <2>1. \A r : Called(r, c) = DebugClrScr(r, c.color)
    BY <1>3 DEF Called
  <2> QED BY <2>1, ClearFields DEF Alike, SameScreen, SameCursor
<1>4. CASE c.call \notin {"goto", "color", "clear"}
  <2>1. \A r : Called(r, c) = DebugPutc(r, c.char)
    BY <1>4 DEF Called
  <2> QED BY <2>1, PutcFields
<1> QED BY <1>1, <1>2, <1>3, <1>4

-----------------------------------------------------------------------------
(* The panic.                                                              *)

\* The console the panic finds, and the untouched one, after each of its first
\* three calls.
PanicInv ==
  /\ Shaped(console) /\ Shaped(alone)
  /\ running = "panic" =>
       \/ todo = Panic
       \/ todo = Tail(Panic) /\ SameScreen(console, alone)
       \/ todo = Tail(Tail(Panic)) /\ SameScreen(console, alone) /\ SameCursor(console, alone)
       \/ Alike(console, alone)
  /\ running = "message" => Alike(console, alone)

\* A text is shown by calls, one for each of its characters.
LEMMA PutsCalls ==
  ASSUME NEW T, NEW q \in Seq(T)
  PROVE  DebugPuts(q) \in Seq([call : {"putc"}, char : T])
BY DEF DebugPuts

LEMMA TextsHold ==
  /\ Texts.title \in Seq(Characters) /\ Texts.starting \in Seq(Characters)
  /\ Texts.hal \in Seq(Characters) /\ Texts.map \in Seq(Characters)
  /\ Texts.region \in Seq(Characters) /\ Texts.total \in Seq(Characters)
  /\ Texts.blocks \in Seq(Characters)
  /\ Texts.sickpc \in Seq(Characters) /\ Texts.disc \in Seq(Characters)
  /\ Texts.stop \in Seq(Characters) /\ Texts.unhandled \in Seq(Characters)
<1> DEFINE S == Seq(Characters)
<1> HIDE DEF S
<1>1. {Texts.title, Texts.starting, Texts.hal, Texts.map, Texts.region, Texts.total, Texts.blocks,
       Texts.sickpc, Texts.disc, Texts.stop, Texts.unhandled} \subseteq S
  BY TextsAssumption DEF S
<1>2. /\ Texts.title \in S /\ Texts.starting \in S /\ Texts.hal \in S /\ Texts.map \in S
      /\ Texts.region \in S /\ Texts.total \in S /\ Texts.blocks \in S /\ Texts.sickpc \in S /\ Texts.disc \in S
      /\ Texts.stop \in S /\ Texts.unhandled \in S
  BY <1>1
<1> QED BY <1>2 DEF S

\* The panic's first three calls.
LEMMA PanicStarts ==
  /\ Panic # << >> /\ Head(Panic) = [call |-> "clear", color |-> 19]
  /\ Tail(Panic) # << >> /\ Head(Tail(Panic)) = [call |-> "goto", x |-> 0, y |-> 0]
  /\ Tail(Tail(Panic)) # << >> /\ Head(Tail(Tail(Panic))) = [call |-> "color", color |-> 23]
<1> DEFINE a == DebugPuts(Texts.sickpc)
           b == DebugPuts(Texts.disc)
<1>1. a \in Seq([call : {"putc"}, char : Characters]) /\ b \in Seq([call : {"putc"}, char : Characters])
  BY TextsHold, PutsCalls
<1> HIDE DEF a, b
<1> DEFINE S == {[call |-> "clear", color |-> 19], [call |-> "goto", x |-> 0, y |-> 0],
                 [call |-> "color", color |-> 23]} \cup [call : {"putc"}, char : Characters]
<1>2. Panic = ClrScr(19) \o Goto(0, 0) \o SetColor(23) \o a \o b
  BY DEF Panic, a, b
<1> DEFINE x == [call |-> "clear", color |-> 19]
           y == [call |-> "goto", x |-> 0, y |-> 0]
           z == [call |-> "color", color |-> 23]
           xyz == <<x>> \o <<y>> \o <<z>>
<1>3. Panic = xyz \o a \o b
  BY <1>2 DEF ClrScr, Goto, SetColor
<1>4. x \in S /\ y \in S /\ z \in S
  OBVIOUS
<1>5. [call : {"putc"}, char : Characters] \subseteq S
  OBVIOUS
<1> HIDE DEF x, y, z, S
<1>6. a \in Seq(S) /\ b \in Seq(S)
  <2>1. ASSUME NEW T, T \subseteq S, NEW q \in Seq(T) PROVE q \in Seq(S)
    BY <2>1
  <2> QED BY <1>1, <1>5, <2>1, Zenon
<1>7. xyz \in Seq(S) /\ Len(xyz) = 3 /\ xyz[1] = x /\ xyz[2] = y /\ xyz[3] = z
  <2> DEFINE xy == <<x>> \o <<y>>
  <2>1. xy \in Seq(S) /\ Len(xy) = 2 /\ xy[1] = x /\ xy[2] = y
    BY <1>4
  <2>2. ASSUME NEW h \in Seq(S), NEW k \in Seq(S)
        PROVE  /\ h \o k \in Seq(S) /\ Len(h \o k) = Len(h) + Len(k)
               /\ \A i \in 1..Len(h) : (h \o k)[i] = h[i]
               /\ Len(k) > 0 => (h \o k)[Len(h) + 1] = k[1]
    OBVIOUS
  <2> HIDE DEF xy
  <2> DEFINE zs == <<z>>
             s == xy \o zs
  <2>3. zs \in Seq(S) /\ Len(zs) = 1 /\ zs[1] = z
    BY <1>4
  <2>4. s = xyz
    BY DEF xy
  <2> HIDE DEF zs
  <2>5. /\ s \in Seq(S) /\ Len(s) = Len(xy) + Len(zs)
        /\ \A i \in 1..Len(xy) : s[i] = xy[i]
        /\ Len(zs) > 0 => s[Len(xy) + 1] = zs[1]
    BY <2>1, <2>2, <2>3, Zenon
  <2> HIDE DEF s, xyz
  <2>6. /\ s \in Seq(S) /\ Len(s) = 3 /\ s[1] = x /\ s[2] = y /\ s[3] = z
    BY <2>1, <2>3, <2>5
  <2> QED BY <2>4, <2>6
<1> HIDE DEF xyz
<1>8. ASSUME NEW h \in Seq(S), NEW k \in Seq(S), Len(h) >= 3
      PROVE  /\ h \o k \in Seq(S) /\ Len(h \o k) >= 3
             /\ (h \o k)[1] = h[1] /\ (h \o k)[2] = h[2] /\ (h \o k)[3] = h[3]
  BY <1>8
<1>9. /\ Panic \in Seq(S) /\ Len(Panic) >= 3
      /\ Panic[1] = x /\ Panic[2] = y /\ Panic[3] = z
  <2>1. /\ xyz \o a \in Seq(S) /\ Len(xyz \o a) >= 3
        /\ (xyz \o a)[1] = x /\ (xyz \o a)[2] = y /\ (xyz \o a)[3] = z
    <3>1. Len(xyz) >= 3
      BY <1>7
    <3> QED BY <1>6, <1>7, <1>8, <3>1, Zenon
  <2> QED BY <1>3, <1>6, <1>8, <2>1
<1>10. ASSUME NEW h \in Seq(S), Len(h) > 0
       PROVE  /\ h # << >> /\ Head(h) = h[1] /\ Tail(h) \in Seq(S)
              /\ Len(Tail(h)) = Len(h) - 1
              /\ \A i \in 1..Len(h) - 1 : Tail(h)[i] = h[i + 1]
  BY <1>10
<1>11. /\ Panic # << >> /\ Head(Panic) = x
       /\ Tail(Panic) \in Seq(S) /\ Len(Tail(Panic)) >= 2
       /\ Tail(Panic)[1] = y /\ Tail(Panic)[2] = z
  BY <1>9, <1>10
<1>12. /\ Tail(Panic) # << >> /\ Head(Tail(Panic)) = y
       /\ Tail(Tail(Panic)) \in Seq(S) /\ Len(Tail(Tail(Panic))) >= 1
       /\ Tail(Tail(Panic))[1] = z
  BY <1>10, <1>11
<1>13. Tail(Tail(Panic)) # << >> /\ Head(Tail(Tail(Panic))) = z
  <2>1. ASSUME NEW h \in Seq(S), Len(h) >= 1 PROVE h # << >> /\ Head(h) = h[1]
    BY <2>1
  <2> QED BY <1>12, <2>1, Zenon
<1> QED BY <1>11, <1>12, <1>13 DEF x, y, z

-----------------------------------------------------------------------------
(* The invariant.                                                          *)

LEMMA InitPanic ==
  ASSUME Init
  PROVE  PanicInv
<1>1. \A c : Shaped(InitialConsole(c))
  BY DEF Shaped, InitialConsole
<1>2. Shaped(console) /\ Shaped(alone)
  BY <1>1, Zenon DEF Init
<1> QED BY <1>2 DEF PanicInv, Init

\* A call: the first three make the consoles alike bit by bit, every other
\* keeps them so.
LEMMA CallPanic ==
  ASSUME PanicInv, Call
  PROVE  PanicInv'
<1> DEFINE c == Head(todo)
<1>1. console' = Called(console, c) /\ todo' = Tail(todo) /\ running' = running
  BY DEF Call
<1>2. Shaped(console) /\ Shaped(alone)
  BY DEF PanicInv
<1>3. CASE running \notin {"panic", "message"}
  <2>1. alone' = alone
    BY <1>3 DEF Call
  <2>2. Shaped(Called(console, c))
    BY <1>2, CalledAlike, Zenon
  <2> QED BY <1>1, <1>2, <1>3, <2>1, <2>2 DEF PanicInv
<1>4. CASE running \in {"panic", "message"}
  <2>1. alone' = Called(alone, c)
    BY <1>4 DEF Call
  <2> HIDE DEF c
  <2>2. /\ Shaped(Called(console, c)) /\ Shaped(Called(alone, c))
        /\ Alike(console, alone) => Alike(Called(console, c), Called(alone, c))
    BY <1>2, CalledAlike, Zenon
  <2>3. /\ Shaped(console') /\ Shaped(alone')
        /\ Alike(console, alone) => Alike(console', alone')
    BY <1>1, <2>1, <2>2, Zenon
  <2>4. ASSUME todo = Panic PROVE todo' = Tail(Panic) /\ SameScreen(console', alone')
    <3>1. c.call = "clear" /\ c.color = 19
      BY <2>4, PanicStarts DEF c
    <3>2. \A r : Called(r, c) = DebugClrScr(r, 19)
      BY <3>1 DEF Called
    <3> QED BY <1>1, <1>2, <2>1, <2>4, <3>2, ClearFields DEF SameScreen
  <2>5. ASSUME todo = Tail(Panic), SameScreen(console, alone)
        PROVE  /\ todo' = Tail(Tail(Panic))
               /\ SameScreen(console', alone') /\ SameCursor(console', alone')
    <3>1. c.call = "goto" /\ c.x = 0 /\ c.y = 0
      BY <2>5, PanicStarts DEF c
    <3>2. \A r : Called(r, c) = DebugGotoXY(r, 0, 0)
      BY <3>1 DEF Called
    <3> QED BY <1>1, <1>2, <2>1, <2>5, <3>2, GotoFields DEF SameScreen, SameCursor
  <2>6. ASSUME todo = Tail(Tail(Panic)), SameScreen(console, alone), SameCursor(console, alone)
        PROVE  Alike(console', alone')
    <3>1. c.call = "color" /\ c.color = 23
      BY <2>6, PanicStarts DEF c
    <3>2. \A r : Called(r, c) = DebugSetColor(r, 23)
      BY <3>1 DEF Called
    <3> QED BY <1>1, <1>2, <2>1, <2>6, <3>2, ColorFields DEF Alike, SameScreen, SameCursor
  <2>7. CASE running = "panic"
    BY <1>1, <2>3, <2>4, <2>5, <2>6, <2>7 DEF PanicInv
  <2>8. CASE running = "message"
    BY <1>1, <2>3, <2>8 DEF PanicInv
  <2> QED BY <1>4, <2>7, <2>8
<1> QED BY <1>3, <1>4

LEMMA NextPanic ==
  ASSUME PanicInv, [Next]_vars
  PROVE  PanicInv'
<1>1. CASE Call
  BY <1>1, CallPanic
<1>2. CASE NextPart
  BY <1>2 DEF NextPart, PanicInv
<1>3. CASE i86_default_handler
  BY <1>3 DEF i86_default_handler, PanicInv
<1>4. CASE kernel_panic
  <2>1. /\ running' = "panic" /\ todo' = Panic /\ Panic' = Panic
        /\ UNCHANGED <<console, alone>>
    BY <1>4 DEF kernel_panic, Panic
  <2> QED BY <2>1 DEF PanicInv
<1>5. CASE \E message \in Messages, buf \in Buffers : ShowMessage(message, buf)
  <2>1. /\ running = "panic" /\ todo = << >> /\ running' = "message"
        /\ UNCHANGED <<console, alone>>
    BY <1>5, Zenon DEF ShowMessage
  <2>2. Alike(console, alone)
    BY <2>1, PanicStarts DEF PanicInv
  <2> QED BY <2>1, <2>2 DEF PanicInv
<1>6. CASE UNCHANGED vars
  BY <1>6 DEF vars, PanicInv
<1> QED BY <1>1, <1>2, <1>3, <1>4, <1>5, <1>6 DEF Next

\* Everything that is on the screen is in the video memory, among what is cleared.
LEMMA ScreenInMemory ==
  ASSUME NEW n \in 0..(Rows * Columns - 1)
  PROVE  n \in Cells /\ n < Columns * ClearedRows
<1>1. /\ Rows * Columns \in Nat /\ Rows * Columns <= Columns * ClearedRows
      /\ Columns * ClearedRows <= VideoRows * Columns
      /\ Columns * ClearedRows \in Nat /\ VideoRows * Columns \in Int
  <2>1. ASSUME NEW r \in Nat, NEW s \in Nat, NEW w \in Nat, r <= s
        PROVE  r * w \in Nat /\ r * w = w * r /\ r * w <= s * w
    BY <2>1
  <2>2. /\ Rows \in Nat /\ ClearedRows \in Nat /\ VideoRows \in Nat /\ Columns \in Nat
        /\ Rows <= ClearedRows /\ ClearedRows <= VideoRows /\ VideoRows <= VideoRows
    BY ConsoleAssumption
  <2> QED BY <2>1, <2>2
<1> QED BY <1>1 DEF Cells

\* Everything that is shown is among what is cleared.
LEMMA ScreenIsAlone ==
  ASSUME PanicInv
  PROVE  PanicScreenIsItsOwn
<1> SUFFICES ASSUME running \in {"panic", "message"}, todo = << >>,
                    NEW n \in 0..(Rows * Columns - 1)
             PROVE  console.mem[n] = alone.mem[n]
  BY Zenon DEF PanicScreenIsItsOwn, Screen
<1>1. SameScreen(console, alone)
  BY PanicStarts DEF PanicInv, Alike
<1>2. n \in Cells /\ n < Columns * ClearedRows
  BY ScreenInMemory
<1> QED BY <1>1, <1>2 DEF SameScreen

\* When the panic has written all it writes, each cell of the screen is as it
\* would be had the panic found an untouched console, whatever it broke in on
\* and whatever the texts are (panic.cpp:26-39, DebugDisplay.cpp:18-102).
THEOREM PanicIsAlone == Spec => []PanicScreenIsItsOwn
<1>1. Init => PanicInv
  BY InitPanic
<1>2. PanicInv /\ [Next]_vars => PanicInv'
  BY NextPanic
<1>3. PanicInv => PanicScreenIsItsOwn
  BY ScreenIsAlone
<1> QED BY <1>1, <1>2, <1>3, PTL DEF Spec

-----------------------------------------------------------------------------
(* Numbers.                                                                *)

\* Induction over the naturals, for a set.
LEMMA Induction ==
  ASSUME NEW T, \A n \in Nat : (\A m \in 0..(n - 1) : m \in T) => n \in T
  PROVE  \A n \in Nat : n \in T
<1> DEFINE S == {n \in Nat : n \notin T}
           R == OpToRel(<, Nat)
<1> SUFFICES ASSUME S # {} PROVE FALSE
  OBVIOUS
<1>1. \A i, j \in Nat : i < j => <<i, j>> \in R
  BY DEF OpToRel
<1>2. IsWellFoundedOn(R, Nat)
  BY NatLessThanWellFounded
<1> HIDE DEF R
<1>3. PICK n \in S : \A m \in S : ~ (<<m, n>> \in R)
  <2>1. S \subseteq Nat
    OBVIOUS
  <2> HIDE DEF S
  <2> QED BY <1>2, <2>1, WFMin
<1>4. ASSUME NEW m \in 0..(n - 1) PROVE m \in T
  <2>1. m \in Nat /\ n \in Nat /\ m < n
    BY <1>3
  <2>2. m \notin S
    BY <1>1, <1>3, <2>1
  <2> QED BY <2>1, <2>2
<1> QED BY <1>3, <1>4

LEMMA Divided ==
  ASSUME NEW n \in Nat, NEW base \in 2..16
  PROVE  /\ n \div base \in Nat /\ n % base \in 0..(base - 1)
         /\ n = (n \div base) * base + (n % base)
         /\ n # 0 => n \div base < n
<1>1. \A q \in Nat : q # 0 => q < q * base
  OBVIOUS
<1>2. n \div base \in Nat /\ n % base \in 0..(base - 1) /\ n = (n \div base) * base + (n % base)
  OBVIOUS
<1> QED BY <1>1, <1>2

\* The table of digits that itoa recurs over, up to a number.
IsDigits(g, m, base) ==
  g = [n \in 0..m |-> IF n = 0 THEN << >>
                      ELSE Append(g[n \div base], bchars[(n % base) + 1])]

LEMMA DigitsExist ==
  ASSUME NEW base \in 2..16
  PROVE  \A m \in Nat : \E g : IsDigits(g, m, base)
<1> DEFINE T == {m \in Nat : \E g : IsDigits(g, m, base)}
<1>1. ASSUME NEW m \in Nat, \A k \in 0..(m - 1) : k \in T PROVE m \in T
  <2>1. CASE m = 0
    <3>1. IsDigits([n \in 0..m |-> << >>], m, base)
      BY <2>1 DEF IsDigits
    <3> QED BY <3>1
  <2>2. CASE m # 0
    <3>1. PICK g : IsDigits(g, m - 1, base)
      BY <1>1, <2>2
    <3> DEFINE h == [n \in 0..m |-> IF n = m THEN Append(g[n \div base], bchars[(n % base) + 1])
                                    ELSE g[n]]
    <3>2. ASSUME NEW n \in 0..m
          PROVE  h[n] = IF n = 0 THEN << >>
                        ELSE Append(h[n \div base], bchars[(n % base) + 1])
      <4>1. n # 0 => n \div base \in 0..(m - 1) /\ n \div base # m
        BY Divided
      <4>2. n # m => n \in 0..(m - 1)
        OBVIOUS
      <4>3. n # m => g[n] = IF n = 0 THEN << >>
                            ELSE Append(g[n \div base], bchars[(n % base) + 1])
        BY <3>1, <4>2 DEF IsDigits
      <4>4. n # 0 => h[n \div base] = g[n \div base]
        BY <4>1
      <4> QED BY <2>2, <4>3, <4>4
    <3>3. IsDigits(h, m, base)
      <4>1. h = [n \in 0..m |-> h[n]]
        OBVIOUS
      <4> HIDE DEF h
      <4> QED BY <3>2, <4>1 DEF IsDigits
    <3> QED BY <3>3
  <2> QED BY <2>1, <2>2
<1> HIDE DEF T
<1>2. \A m \in Nat : m \in T
  BY <1>1, Induction
<1> QED BY <1>2 DEF T

\* The values of a number's first digits, behind its sign, which is one place or
\* none.
IsValue(g, m, line, base, sign) ==
  g = [k \in 0..m |-> IF k \in {0, sign} THEN 0
                      ELSE g[k - 1] * base + Digit(line[k])]

LEMMA ValueExists ==
  ASSUME NEW line, NEW base, NEW sign \in {0, 1}
  PROVE  \A m \in Nat : \E g : IsValue(g, m, line, base, sign)
<1> DEFINE T == {m \in Nat : \E g : IsValue(g, m, line, base, sign)}
<1>1. ASSUME NEW m \in Nat, \A k \in 0..(m - 1) : k \in T PROVE m \in T
  <2>1. CASE m = 0
    <3>1. IsValue([n \in 0..m |-> 0], m, line, base, sign)
      BY <2>1 DEF IsValue
    <3> QED BY <3>1
  <2>2. CASE m # 0
    <3>1. PICK g : IsValue(g, m - 1, line, base, sign)
      BY <1>1, <2>2
    <3> DEFINE next(f, k) == IF k \in {0, sign} THEN 0
                             ELSE f[k - 1] * base + Digit(line[k])
               h == [k \in 0..m |-> IF k = m THEN next(g, k) ELSE g[k]]
    <3>2. ASSUME NEW k \in 0..m PROVE h[k] = next(h, k)
      <4>1. k # 0 => h[k - 1] = g[k - 1]
        OBVIOUS
      <4>2. k # m => g[k] = next(g, k)
        <5>1. k # m => k \in 0..(m - 1)
          OBVIOUS
        <5> QED BY <3>1, <5>1 DEF IsValue
      <4>3. next(h, k) = next(g, k)
        BY <4>1
      <4> QED BY <4>2, <4>3
    <3>3. IsValue(h, m, line, base, sign)
      <4>1. h = [k \in 0..m |-> h[k]]
        OBVIOUS
      <4> HIDE DEF h
      <4> QED BY <3>2, <4>1 DEF IsValue
    <3> QED BY <3>3
  <2> QED BY <2>1, <2>2
<1> HIDE DEF T
<1>2. \A m \in Nat : m \in T
  BY <1>1, Induction
<1> QED BY <1>2 DEF T

\* The digits are different characters, and none is a sign.
Figures == {bchars[k] : k \in 1..16}

LEMMA DigitOf ==
  /\ \A n \in 0..15 : bchars[n + 1] \in Figures /\ Digit(bchars[n + 1]) = n
  /\ "-" \notin Figures /\ bchars[1] = "0"
<1>1. /\ Len(bchars) = 16 /\ bchars[1] = "0" /\ bchars[2] = "1" /\ bchars[3] = "2"
      /\ bchars[4] = "3" /\ bchars[5] = "4" /\ bchars[6] = "5" /\ bchars[7] = "6"
      /\ bchars[8] = "7" /\ bchars[9] = "8" /\ bchars[10] = "9" /\ bchars[11] = "A"
      /\ bchars[12] = "B" /\ bchars[13] = "C" /\ bchars[14] = "D" /\ bchars[15] = "E"
      /\ bchars[16] = "F"
  BY DEF bchars
<1>2. \A j, k \in 1..16 : bchars[j] = bchars[k] => j = k
  BY <1>1
<1>3. \A k \in 1..16 : bchars[k] # "-"
  BY <1>1
<1>4. ASSUME NEW n \in 0..15 PROVE Digit(bchars[n + 1]) = n
  <2> DEFINE I == {j \in 1..Len(bchars) : bchars[j] = bchars[n + 1]}
  <2>1. I = {n + 1}
    BY <1>1, <1>2
  <2>2. Min(I) = n + 1
    BY <2>1 DEF Min
  <2>3. Digit(bchars[n + 1]) = (IF I # {} THEN Min(I) ELSE 0) - 1
    BY DEF Digit, SelectInSeq
  <2> QED BY <2>1, <2>2, <2>3
<1> QED BY <1>1, <1>3, <1>4 DEF Figures

LEMMA Appended ==
  ASSUME NEW S, NEW s \in Seq(S), NEW c \in S, NEW t, t = Append(s, c)
  PROVE  /\ t \in Seq(S) /\ Len(t) = Len(s) + 1 /\ Len(s) \in Nat
         /\ t[Len(s) + 1] = c /\ (\A k \in 1..Len(s) : t[k] = s[k]) /\ t # << >>
OBVIOUS

\* The digits read as the number they are of.
LEMMA DigitsRead ==
  ASSUME NEW base \in 2..16, NEW M \in Nat, NEW d, IsDigits(d, M, base)
  PROVE  \A n \in Nat : n <= M =>
           /\ d[n] \in Seq(Figures)
           /\ n # 0 => d[n] # << >>
           /\ \A g : IsValue(g, Len(d[n]), d[n], base, 0) => g[Len(d[n])] = n
<1> DEFINE T == {n \in Nat : n <= M =>
                   /\ d[n] \in Seq(Figures)
                   /\ n # 0 => d[n] # << >>
                   /\ \A g : IsValue(g, Len(d[n]), d[n], base, 0) => g[Len(d[n])] = n}
<1>0. \A n \in Nat : n \in T <=> (n <= M =>
                   /\ d[n] \in Seq(Figures)
                   /\ n # 0 => d[n] # << >>
                   /\ \A g : IsValue(g, Len(d[n]), d[n], base, 0) => g[Len(d[n])] = n)
  OBVIOUS
<1> HIDE DEF T
<1>1. ASSUME NEW n \in Nat, \A k \in 0..(n - 1) : k \in T PROVE n \in T
  <2> SUFFICES ASSUME n <= M
               PROVE  /\ d[n] \in Seq(Figures)
                      /\ n # 0 => d[n] # << >>
                      /\ \A g : IsValue(g, Len(d[n]), d[n], base, 0)
                                  => g[Len(d[n])] = n
    BY <1>0
  <2>0. n \in 0..M
    OBVIOUS
  <2>1. d[n] = IF n = 0 THEN << >> ELSE Append(d[n \div base], bchars[(n % base) + 1])
    BY <2>0 DEF IsDigits
  <2>2. CASE n = 0
    <3>1. d[n] = << >> /\ Len(d[n]) = 0
      BY <2>1, <2>2
    <3>2. ASSUME NEW g, IsValue(g, Len(d[n]), d[n], base, 0) PROVE g[Len(d[n])] = n
      BY <2>2, <3>1, <3>2 DEF IsValue
    <3> QED BY <2>2, <3>1, <3>2
  <2>3. CASE n # 0
    <3> DEFINE q == n \div base
               r == n % base
               c == bchars[r + 1]
    <3>1. q \in Nat /\ q < n /\ r \in 0..(base - 1) /\ n = q * base + r
      BY <2>3, Divided
    <3>2. c \in Figures /\ Digit(c) = r
      <4>1. r \in 0..15
        BY <3>1
      <4> HIDE DEF r
      <4> QED BY <4>1, DigitOf
    <3> HIDE DEF c
    <3>3. d[n] = Append(d[q], c)
      BY <2>1, <2>3 DEF c
    <3> HIDE DEF q, r
    <3>4. q \in T /\ q <= M
      <4>1. q \in 0..(n - 1)
        BY <3>1
      <4> QED BY <1>1, <3>1, <4>1
    <3> DEFINE s == d[q]
    <3>5. /\ s \in Seq(Figures)
          /\ \A g : IsValue(g, Len(s), s, base, 0) => g[Len(s)] = q
      BY <1>0, <3>1, <3>4
    <3>6. d[n] = Append(s, c)
      BY <3>3
    <3> HIDE DEF s
    <3>7. /\ d[n] \in Seq(Figures) /\ Len(d[n]) = Len(s) + 1 /\ Len(s) \in Nat
          /\ d[n][Len(s) + 1] = c /\ \A k \in 1..Len(s) : d[n][k] = s[k]
          /\ d[n] # << >>
      <4> DEFINE t == d[n]
      <4>1. t = Append(s, c) /\ s \in Seq(Figures)
        BY <3>5, <3>6
      <4> HIDE DEF t
      <4>2. /\ t \in Seq(Figures) /\ Len(t) = Len(s) + 1 /\ Len(s) \in Nat
            /\ t[Len(s) + 1] = c /\ (\A k \in 1..Len(s) : t[k] = s[k]) /\ t # << >>
        BY <3>2, <4>1, Appended
      <4> QED BY <4>2 DEF t
    <3>8. ASSUME NEW g, IsValue(g, Len(s) + 1, d[n], base, 0)
          PROVE  g[Len(s) + 1] = n
      <4> DEFINE h == [k \in 0..Len(s) |-> g[k]]
      <4>1. \A k \in 0..(Len(s) + 1) :
              g[k] = IF k = 0 THEN 0 ELSE g[k - 1] * base + Digit(d[n][k])
        BY <3>8 DEF IsValue
      <4>2. ASSUME NEW k \in 0..Len(s)
            PROVE  h[k] = IF k = 0 THEN 0 ELSE h[k - 1] * base + Digit(s[k])
        <5>1. k \in 0..(Len(s) + 1) /\ (k # 0 => k - 1 \in 0..Len(s) /\ k \in 1..Len(s))
          BY <3>7
        <5>2. k # 0 => d[n][k] = s[k]
          BY <3>7, <5>1
        <5> QED BY <4>1, <5>1, <5>2
      <4>3. IsValue(h, Len(s), s, base, 0)
        <5>1. h = [k \in 0..Len(s) |-> h[k]]
          OBVIOUS
        <5> HIDE DEF h
        <5> QED BY <4>2, <5>1 DEF IsValue
      <4>4. g[Len(s)] = q
        <5>1. h[Len(s)] = q
          BY <3>5, <4>3
        <5> QED BY <3>7, <5>1
      <4>5. Len(s) + 1 \in 0..(Len(s) + 1) /\ Len(s) + 1 # 0 /\ (Len(s) + 1) - 1 = Len(s)
        BY <3>7
      <4>6. g[Len(s) + 1] = g[Len(s)] * base + Digit(d[n][Len(s) + 1])
        BY <4>1, <4>5
      <4> QED BY <3>1, <3>2, <3>7, <4>4, <4>6
    <3> QED BY <3>7, <3>8
  <2> QED BY <2>2, <2>3
<1>2. \A n \in Nat : n \in T
  BY <1>1, Induction
<1> QED BY <1>0, <1>2

\* What itoa makes of a number that is not 0.
LEMMA ItoaReads ==
  ASSUME NEW n \in Nat, n # 0, n < UINT32, NEW base \in 2..16
  PROVE  /\ itoa(n, base) \in Seq(Figures) /\ itoa(n, base) # << >>
         /\ \A g : IsValue(g, Len(itoa(n, base)), itoa(n, base), base, 0)
                     => g[Len(itoa(n, base))] = n
<1>1. UINT32 - 1 \in Nat /\ n <= UINT32 - 1
  BY TextAssumption
<1> DEFINE d == CHOOSE g : IsDigits(g, UINT32 - 1, base)
<1>2. IsDigits(d, UINT32 - 1, base)
  BY <1>1, DigitsExist
<1>3. itoa(n, base) = d[n]
  BY DEF itoa, IsDigits
<1> HIDE DEF d
<1> QED BY <1>1, <1>2, <1>3, DigitsRead

\* A line is read as its value.
LEMMA ReadsValue ==
  ASSUME NEW line, Len(line) \in Nat, NEW base
  PROVE  LET negative == line # << >> /\ line[1] = "-"
             sign == IF negative THEN 1 ELSE 0
         IN  \E g : /\ IsValue(g, Len(line), line, base, sign)
                    /\ Reads(line, base) = IF negative THEN -g[Len(line)] ELSE g[Len(line)]
<1> DEFINE negative == line # << >> /\ line[1] = "-"
           sign == IF negative THEN 1 ELSE 0
           u == CHOOSE g : g = [k \in 0..Len(line) |->
                                  IF k = 0 \/ (k = 1 /\ negative) THEN 0
                                  ELSE g[k - 1] * base + Digit(line[k])]
<1>1. \E g : IsValue(g, Len(line), line, base, sign)
  <2>1. sign \in {0, 1}
    OBVIOUS
  <2> HIDE DEF sign
  <2> QED BY <2>1, ValueExists
<1>2. \A k \in 0..Len(line) : k \in {0, sign} <=> (k = 0 \/ (k = 1 /\ negative))
  OBVIOUS
<1>3. \A g : IsValue(g, Len(line), line, base, sign)
          <=> g = [k \in 0..Len(line) |->
                     IF k = 0 \/ (k = 1 /\ negative) THEN 0
                     ELSE g[k - 1] * base + Digit(line[k])]
  <2> HIDE DEF sign, negative
  <2> QED BY <1>2 DEF IsValue
<1>4. Reads(line, base) = IF negative THEN -u[Len(line)] ELSE u[Len(line)]
  BY DEF Reads
<1>5. IsValue(u, Len(line), line, base, sign)
  <2> HIDE DEF sign, negative
  <2> QED BY <1>1, <1>3
<1> HIDE DEF u
<1> QED BY <1>4, <1>5

\* A sign in front of a number's digits makes their value negative.
LEMMA SignedReads ==
  ASSUME NEW s \in Seq(Figures), NEW base \in 2..16, NEW n \in Nat,
         \A g : IsValue(g, Len(s), s, base, 0) => g[Len(s)] = n
  PROVE  /\ s # << >> => Reads(s, base) = n
         /\ Reads(<<"-">> \o s, base) = -n
<1>1. ASSUME s # << >> PROVE Reads(s, base) = n
  <2>1. s[1] \in Figures
    BY <1>1
  <2>2. s[1] # "-"
    BY <2>1, DigitOf
  <2>3. PICK g : IsValue(g, Len(s), s, base, 0) /\ Reads(s, base) = g[Len(s)]
    BY <2>2, ReadsValue
  <2> QED BY <2>3
<1> DEFINE t == <<"-">> \o s
<1>2. /\ Len(t) = Len(s) + 1 /\ Len(s) \in Nat /\ t[1] = "-" /\ t # << >>
      /\ \A k \in 1..Len(s) : t[k + 1] = s[k]
  OBVIOUS
<1> HIDE DEF t
<1>3. Reads(t, base) = -n
  <2>1. PICK g : IsValue(g, Len(t), t, base, 1) /\ Reads(t, base) = -g[Len(t)]
    BY <1>2, ReadsValue
  <2> DEFINE h == [k \in 0..Len(s) |-> g[k + 1]]
  <2>2. \A k \in 0..Len(t) : g[k] = IF k \in {0, 1} THEN 0
                                    ELSE g[k - 1] * base + Digit(t[k])
    BY <2>1 DEF IsValue
  <2>3. ASSUME NEW k \in 0..Len(s)
        PROVE  h[k] = IF k \in {0, 0} THEN 0 ELSE h[k - 1] * base + Digit(s[k])
    <3>1. k + 1 \in 0..Len(t) /\ (k + 1) - 1 = k
      BY <1>2
    <3>2. CASE k = 0
      BY <2>2, <3>1, <3>2
    <3>3. CASE k # 0
      <4>1. k - 1 \in 0..Len(s) /\ (k - 1) + 1 = k /\ k \in 1..Len(s) /\ k + 1 \notin {0, 1}
        BY <3>3
      <4>2. g[k + 1] = g[k] * base + Digit(t[k + 1])
        BY <2>2, <3>1, <4>1
      <4>3. h[k] = g[k + 1] /\ h[k - 1] = g[k]
        BY <4>1
      <4>4. t[k + 1] = s[k]
        BY <1>2, <4>1
      <4> HIDE DEF h
      <4> QED BY <3>3, <4>2, <4>3, <4>4
    <3> QED BY <3>2, <3>3
  <2>4. IsValue(h, Len(s), s, base, 0)
    <3>1. h = [k \in 0..Len(s) |-> h[k]]
      OBVIOUS
    <3> HIDE DEF h
    <3> QED BY <2>3, <3>1 DEF IsValue
  <2>5. h[Len(s)] = n
    BY <2>4
  <2>6. g[Len(t)] = n
    BY <1>2, <2>5
  <2> QED BY <2>1, <2>6
<1> QED BY <1>1, <1>3 DEF t

\* Every number that is shown can be read back, negative ones and the least one
\* too, in each base from 2 to 16 and for every width of an integer
\* (DebugDisplay.cpp:47-75).
THEOREM NumbersAreRead ==
  \A i \in -(UINT32 \div 2)..(UINT32 \div 2 - 1), base \in 2..16 :
    Reads(itoa_s(i, base), base) = i
<1> SUFFICES ASSUME NEW i \in -(UINT32 \div 2)..(UINT32 \div 2 - 1), NEW base \in 2..16
             PROVE  Reads(itoa_s(i, base), base) = i
  OBVIOUS
<1>1. /\ UINT32 \in Nat /\ UINT32 >= 2 /\ UINT32 \div 2 \in Nat /\ UINT32 \div 2 < UINT32
      /\ i \in Int /\ i < UINT32 /\ -i < UINT32 /\ -i \in Int
  <2>1. UINT32 \in Nat /\ UINT32 >= 2
    BY TextAssumption
  <2>2. UINT32 \div 2 \in Nat /\ UINT32 \div 2 < UINT32
    BY <2>1
  <2> QED BY <2>1, <2>2
<1>2. CASE i = 0
  <2>1. itoa_s(i, base) = <<"0">> \o << >>
    BY <1>2 DEF itoa_s, itoa
  <2> DEFINE s == <<"0">>
  <2>2. s \in Seq(Figures) /\ Len(s) = 1 /\ s[1] = bchars[0 + 1] /\ s # << >>
    BY DigitOf
  <2>3. itoa_s(i, base) = s
    BY <2>1
  <2>4. Digit(s[1]) = 0
    BY <2>2, DigitOf
  <2> HIDE DEF s
  <2>5. ASSUME NEW g, IsValue(g, Len(s), s, base, 0) PROVE g[Len(s)] = 0
    <3>1. \A k \in 0..1 : g[k] = IF k \in {0, 0} THEN 0 ELSE g[k - 1] * base + Digit(s[k])
      BY <2>2, <2>5 DEF IsValue
    <3>2. g[0] = 0 /\ g[1] = g[0] * base + Digit(s[1])
      BY <3>1
    <3> QED BY <2>2, <2>4, <3>2
  <2> QED BY <1>2, <2>2, <2>3, <2>5, SignedReads
<1>3. CASE i > 0
  <2> DEFINE s == itoa(i, base)
  <2>1. itoa_s(i, base) = s
    BY <1>1, <1>3 DEF itoa_s
  <2>2. i \in Nat /\ i # 0 /\ i < UINT32
    BY <1>1, <1>3
  <2>3. /\ s \in Seq(Figures) /\ s # << >>
        /\ \A g : IsValue(g, Len(s), s, base, 0) => g[Len(s)] = i
    BY <2>2, ItoaReads
  <2> HIDE DEF s
  <2>4. Reads(s, base) = i
    BY <2>2, <2>3, SignedReads
  <2> QED BY <2>1, <2>4
<1>4. CASE i < 0
  <2> DEFINE n == -i
             s == itoa(n, base)
  <2>1. n % UINT32 = n
    BY <1>1, <1>4
  <2>2. itoa_s(i, base) = <<"-">> \o s
    BY <1>4, <2>1 DEF itoa_s
  <2>3. n \in Nat /\ n # 0 /\ n < UINT32 /\ -n = i
    BY <1>1, <1>4
  <2> HIDE DEF n
  <2>4. /\ s \in Seq(Figures) /\ s # << >>
        /\ \A g : IsValue(g, Len(s), s, base, 0) => g[Len(s)] = n
    BY <2>3, ItoaReads
  <2> HIDE DEF s
  <2>5. Reads(<<"-">> \o s, base) = -n
    BY <2>3, <2>4, SignedReads
  <2> QED BY <2>2, <2>3, <2>5
<1> QED BY <1>1, <1>2, <1>3, <1>4

-----------------------------------------------------------------------------
(* What formats make of their arguments.                                   *)

LEMMA NumberShown ==
  ASSUME NEW i \in Ints, NEW base \in 2..16
  PROVE  itoa_s(i, base) \in Seq(Characters) /\ itoa_s(i, base) # << >>
<1>1. /\ UINT32 \in Nat /\ UINT32 >= 2 /\ UINT32 \div 2 \in Nat /\ UINT32 \div 2 < UINT32
      /\ i \in Int /\ i < UINT32 /\ -i < UINT32 /\ -i \in Int
  <2>1. UINT32 \in Nat /\ UINT32 >= 2
    BY TextAssumption
  <2>2. UINT32 \div 2 \in Nat /\ UINT32 \div 2 < UINT32
    BY <2>1
  <2> QED BY <2>1, <2>2 DEF Ints
<1>2. \A k \in 1..16 : bchars[k] \in Characters
  <2>1. DOMAIN bchars = 1..16
    BY DEF bchars
  <2>2. Range(bchars) \subseteq Characters
    BY TextsAssumption
  <2> QED BY <2>1, <2>2 DEF Range
<1>3. "-" \in Characters
  BY TextsAssumption
<1>4. \A s \in Seq(Figures) : s \in Seq(Characters)
  <2>1. Figures \subseteq Characters
    BY <1>2 DEF Figures
  <2> QED BY <2>1
<1>5. \A s \in Seq(Characters) : <<"-">> \o s \in Seq(Characters) /\ <<"-">> \o s # << >>
  <2> DEFINE S == Characters
  <2>1. "-" \in S
    BY <1>3
  <2> HIDE DEF S
  <2>2. \A s \in Seq(S) : <<"-">> \o s \in Seq(S) /\ <<"-">> \o s # << >>
    BY <2>1
  <2> QED BY <2>2 DEF S
<1>6. CASE i = 0
  <2>1. itoa_s(i, base) = <<bchars[1]>>
    BY <1>6, DigitOf DEF itoa_s, itoa
  <2>2. bchars[1] \in Characters
    BY <1>2
  <2> QED BY <2>1, <2>2
<1>7. CASE i > 0
  <2> DEFINE s == itoa(i, base)
  <2>1. itoa_s(i, base) = s
    BY <1>1, <1>7 DEF itoa_s
  <2>2. i \in Nat /\ i # 0 /\ i < UINT32
    BY <1>1, <1>7
  <2>3. s \in Seq(Figures) /\ s # << >>
    BY <2>2, ItoaReads
  <2> HIDE DEF s
  <2> QED BY <1>4, <2>1, <2>3
<1>8. CASE i < 0
  <2> DEFINE n == -i
             s == itoa(n, base)
  <2>1. n % UINT32 = n
    BY <1>1, <1>8
  <2>2. itoa_s(i, base) = <<"-">> \o s
    BY <1>8, <2>1 DEF itoa_s
  <2>3. n \in Nat /\ n # 0 /\ n < UINT32
    BY <1>1, <1>8
  <2> HIDE DEF n
  <2>4. s \in Seq(Figures) /\ s # << >>
    BY <2>3, ItoaReads
  <2> HIDE DEF s
  <2> QED BY <1>4, <1>5, <2>2, <2>4
<1> QED BY <1>1, <1>6, <1>7, <1>8

\* What a conversion makes of an argument of its type.
Fitting(t, arg) ==
  /\ t \in {"%d", "%x"} => arg \in Ints
  /\ t = "%s" => arg \in Seq(Characters)
  /\ t = "%c" => arg \in Characters

LEMMA ConversionShown ==
  ASSUME NEW t \in Conversions, NEW arg, Fitting(t, arg)
  PROVE  /\ Converted(t, arg) \in Seq(Characters)
         /\ t \in {"%d", "%x"} => Converted(t, arg) # << >>
<1>1. CASE t = "%d"
  <2>1. Converted(t, arg) = itoa_s(arg, 10)
    BY <1>1 DEF Converted
  <2> QED BY <1>1, <2>1, NumberShown DEF Fitting
<1>2. CASE t = "%x"
  <2>1. Converted(t, arg) = itoa_s(arg, 16)
    BY <1>2 DEF Converted
  <2> QED BY <1>2, <2>1, NumberShown DEF Fitting
<1>3. CASE t = "%s"
  BY <1>3 DEF Converted, Fitting
<1>4. CASE t = "%c"
  <2>1. Converted(t, arg) = <<arg>>
    BY <1>4 DEF Converted
  <2>2. arg \in Characters
    BY <1>4 DEF Fitting
  <2>3. ASSUME NEW S, NEW x \in S PROVE <<x>> \in Seq(S)
    OBVIOUS
  <2>4. Converted(t, arg) \in Seq(Characters)
    BY <2>1, <2>2, <2>3
  <2> QED BY <1>4, <2>4
<1> QED BY <1>1, <1>2, <1>3, <1>4 DEF Conversions

\* How many conversions there are among the first elements of a format.
LEMMA ConversionCounts ==
  ASSUME NEW format, NEW n \in Nat
  PROVE  /\ Conversion(format, 0) = 0
         /\ Conversion(format, n) \in Nat
         /\ Conversion(format, n + 1) =
              Conversion(format, n) + (IF format[n + 1] \in Conversions THEN 1 ELSE 0)
<1> DEFINE S(m) == {k \in 1..m : format[k] \in Conversions}
<1>1. Conversion(format, 0) = 0
  <2>1. {m \in 1..0 : format[m] \in Conversions} = {}
    OBVIOUS
  <2> QED BY <2>1, FS_EmptySet DEF Conversion
<1>2. IsFiniteSet(S(n)) /\ Cardinality(S(n)) \in Nat
  <2>1. IsFiniteSet(1..n)
    BY FS_Interval
  <2>2. S(n) \subseteq 1..n
    OBVIOUS
  <2> QED BY <2>1, <2>2, FS_Subset, FS_CardinalityType
<1>3. S(n + 1) = IF format[n + 1] \in Conversions THEN S(n) \cup {n + 1} ELSE S(n)
  OBVIOUS
<1>4. n + 1 \notin S(n)
  OBVIOUS
<1>5. Conversion(format, n) = Cardinality(S(n)) /\ Conversion(format, n + 1) = Cardinality(S(n + 1))
  BY DEF Conversion
<1> HIDE DEF S
<1>6. format[n + 1] \in Conversions => Cardinality(S(n + 1)) = Cardinality(S(n)) + 1
  BY <1>2, <1>3, <1>4, FS_AddElement
<1> QED BY <1>1, <1>2, <1>3, <1>5, <1>6

\* The arguments behind the first k.
IsRest(rest, args, k) ==
  /\ Len(rest) = Len(args) - k
  /\ \A i \in 1..Len(rest) : rest[i] = args[i + k]

LEMMA RestShorter ==
  ASSUME NEW S, NEW args \in Seq(S), NEW rest \in Seq(S), NEW k \in Nat,
         IsRest(rest, args, k), k + 1 <= Len(args)
  PROVE  /\ Head(rest) = args[k + 1] /\ Tail(rest) \in Seq(S)
         /\ IsRest(Tail(rest), args, k + 1)
<1>1. Len(rest) = Len(args) - k /\ rest # << >> /\ Len(rest) \in Nat /\ Len(args) \in Nat
  BY DEF IsRest
<1>2. Head(rest) = rest[1] /\ rest[1] = args[k + 1]
  BY <1>1 DEF IsRest
<1>3. /\ Tail(rest) \in Seq(S) /\ Len(Tail(rest)) = Len(rest) - 1
      /\ \A i \in 1..(Len(rest) - 1) : Tail(rest)[i] = rest[i + 1]
  BY <1>1
<1>4. ASSUME NEW i \in 1..(Len(rest) - 1) PROVE Tail(rest)[i] = args[i + (k + 1)]
  <2>1. i + 1 \in 1..Len(rest) /\ (i + 1) + k = i + (k + 1)
    BY <1>1
  <2> QED BY <1>3, <2>1 DEF IsRest
<1> QED BY <1>1, <1>2, <1>3, <1>4 DEF IsRest

\* The argument that a format's n-th element takes is of its type.
LEMMA ArgumentFits ==
  ASSUME NEW format, NEW args, ArgsFit(format, args), NEW n \in 1..Len(format),
         format[n] \in Conversions
  PROVE  /\ Conversion(format, n) <= Len(args)
         /\ Fitting(format[n], args[Conversion(format, n)])
<1> DEFINE t == format[n]
           arg == args[Conversion(format, n)]
<1>1. /\ Conversion(format, n) <= Len(args)
      /\ arg \in CASE t \in {"%d", "%x"} -> Ints
                   [] t = "%s" -> Seq(Characters)
                   [] t = "%c" -> Characters
  BY DEF ArgsFit
<1>2. t \in Conversions
  OBVIOUS
<1> HIDE DEF t, arg
<1>3. Fitting(t, arg)
  <2>1. CASE t \in {"%d", "%x"}
    BY <1>1, <2>1 DEF Fitting
  <2>2. CASE t = "%s"
    BY <1>1, <2>2 DEF Fitting
  <2>3. CASE t = "%c"
    BY <1>1, <2>3 DEF Fitting
  <2> QED BY <1>2, <2>1, <2>2, <2>3 DEF Conversions
<1> QED BY <1>1, <1>3 DEF t, arg

\* The states that DebugPrintf goes through.
IsPrintf(g, m, format, args) ==
  g = [n \in 0..m |-> IF n = 0 THEN [text |-> << >>, args |-> args, returns |-> 0]
                      ELSE Printed(g[n - 1], format[n])]

LEMMA PrintfExists ==
  ASSUME NEW format, NEW args
  PROVE  \A m \in Nat : \E g : IsPrintf(g, m, format, args)
<1> DEFINE T == {m \in Nat : \E g : IsPrintf(g, m, format, args)}
           base == [text |-> << >>, args |-> args, returns |-> 0]
<1>1. ASSUME NEW m \in Nat, \A k \in 0..(m - 1) : k \in T PROVE m \in T
  <2>1. CASE m = 0
    <3>1. IsPrintf([n \in 0..m |-> base], m, format, args)
      BY <2>1 DEF IsPrintf
    <3> QED BY <3>1
  <2>2. CASE m # 0
    <3>1. PICK g : IsPrintf(g, m - 1, format, args)
      BY <1>1, <2>2
    <3> DEFINE next(f, k) == IF k = 0 THEN base ELSE Printed(f[k - 1], format[k])
               h == [k \in 0..m |-> IF k = m THEN next(g, k) ELSE g[k]]
    <3>2. ASSUME NEW k \in 0..m PROVE h[k] = next(h, k)
      <4>1. k # 0 => h[k - 1] = g[k - 1]
        OBVIOUS
      <4>2. k # m => g[k] = next(g, k)
        <5>1. k # m => k \in 0..(m - 1)
          OBVIOUS
        <5> QED BY <3>1, <5>1 DEF IsPrintf
      <4>3. next(h, k) = next(g, k)
        BY <4>1
      <4> QED BY <4>2, <4>3
    <3>3. IsPrintf(h, m, format, args)
      <4>1. h = [k \in 0..m |-> h[k]]
        OBVIOUS
      <4> HIDE DEF h
      <4> QED BY <3>2, <4>1 DEF IsPrintf
    <3> QED BY <3>3
  <2> QED BY <2>1, <2>2
<1> HIDE DEF T
<1>2. \A m \in Nat : m \in T
  BY <1>1, Induction
<1> QED BY <1>2 DEF T

\* A state of DebugPrintf after a format's first n elements.
PrintedSoFar(s, S, format, args, n) ==
  /\ s = [text |-> s.text, args |-> s.args, returns |-> s.returns]
  /\ s.text \in Seq(Characters)
  /\ s.returns \in {0, 1}
  /\ s.returns = 0 => s.args \in Seq(S) /\ IsRest(s.args, args, Conversion(format, n))

LEMMA PrintedOne ==
  ASSUME NEW S, NEW format \in Seq(Characters), NEW args \in Seq(S), ArgsFit(format, args),
         NEW n \in Nat, n + 1 <= Len(format), NEW s, PrintedSoFar(s, S, format, args, n)
  PROVE  PrintedSoFar(Printed(s, format[n + 1]), S, format, args, n + 1)
<1> DEFINE t == format[n + 1]
           u == Printed(s, t)
           C == Characters
<1>1. t \in C /\ n + 1 \in 1..Len(format)
  OBVIOUS
<1>2. /\ Conversion(format, n) \in Nat
      /\ Conversion(format, n + 1) =
           Conversion(format, n) + (IF t \in Conversions THEN 1 ELSE 0)
  BY ConversionCounts
<1>3. CASE s.returns = 1
  <2>1. u = s
    BY <1>3 DEF Printed
  <2> QED BY <1>3, <2>1 DEF PrintedSoFar
<1>4. CASE s.returns = 0 /\ t \in Conversions
  <2> DEFINE k == Conversion(format, n)
             arg == Head(s.args)
             text == Converted(t, arg)
  <2>1. k + 1 <= Len(args) /\ Fitting(t, args[k + 1])
    BY <1>1, <1>2, <1>4, ArgumentFits
  <2>2. s.args \in Seq(S) /\ IsRest(s.args, args, k)
    BY <1>4 DEF PrintedSoFar
  <2>3. arg = args[k + 1] /\ Tail(s.args) \in Seq(S) /\ IsRest(Tail(s.args), args, k + 1)
    BY <1>2, <2>1, <2>2, RestShorter
  <2>4. text \in Seq(C)
    BY <1>4, <2>1, <2>3, ConversionShown
  <2>5. u = [text |-> s.text \o text, args |-> Tail(s.args), returns |-> 0]
    <3> HIDE DEF t
    <3>1. t # "%"
      BY <1>4 DEF Conversions
    <3> HIDE DEF text
    <3>2. u = [text |-> s.text \o Converted(t, Head(s.args)), args |-> Tail(s.args),
               returns |-> 0]
      BY <1>4, <3>1 DEF Printed
    <3> QED BY <3>2 DEF text
  <2> HIDE DEF text, arg, k, t, u, C
  <2>6. s.text \in Seq(C)
    BY DEF PrintedSoFar, C
  <2>7. s.text \o text \in Seq(C)
    BY <2>4, <2>6
  <2>8. Conversion(format, n + 1) = k + 1
    BY <1>2, <1>4 DEF k
  <2>9. /\ u = [text |-> u.text, args |-> u.args, returns |-> u.returns]
        /\ u.text = s.text \o text /\ u.args = Tail(s.args) /\ u.returns = 0
    BY <2>5
  <2>10. PrintedSoFar(u, S, format, args, n + 1)
    BY <2>3, <2>7, <2>8, <2>9 DEF PrintedSoFar, C
  <2> QED BY <2>10 DEF u, t
<1>5. CASE s.returns = 0 /\ t \notin Conversions /\ t = "%"
  <2>1. u = [s EXCEPT !.returns = 1]
    BY <1>5 DEF Printed
  <2>2. /\ u = [text |-> u.text, args |-> u.args, returns |-> u.returns]
        /\ u.text = s.text /\ u.returns = 1
    BY <2>1 DEF PrintedSoFar
  <2> HIDE DEF u
  <2>3. PrintedSoFar(u, S, format, args, n + 1)
    BY <2>2 DEF PrintedSoFar
  <2> QED BY <2>3 DEF u
<1>6. CASE s.returns = 0 /\ t \notin Conversions /\ t # "%"
  <2>1. u = [s EXCEPT !.text = Append(@, t)]
    BY <1>6 DEF Printed
  <2>2. /\ u = [text |-> u.text, args |-> u.args, returns |-> u.returns]
        /\ u.text = Append(s.text, t) /\ u.returns = 0 /\ u.args = s.args
    BY <1>6, <2>1 DEF PrintedSoFar
  <2> HIDE DEF u, t, C
  <2>3. s.text \in Seq(C)
    BY DEF PrintedSoFar, C
  <2>4. u.text \in Seq(C)
    BY <1>1, <2>2, <2>3
  <2>5. Conversion(format, n + 1) = Conversion(format, n)
    BY <1>2, <1>6 DEF t
  <2>6. PrintedSoFar(u, S, format, args, n + 1)
    BY <1>6, <2>2, <2>4, <2>5 DEF PrintedSoFar, C
  <2> QED BY <2>6 DEF u, t
<1> QED BY <1>3, <1>4, <1>5, <1>6 DEF PrintedSoFar

\* What DebugPrintf shows.
LEMMA PrintfShown ==
  ASSUME NEW S, NEW format \in Seq(Characters), NEW args \in Seq(S), ArgsFit(format, args)
  PROVE  Printf(format, args).text \in Seq(Characters)
<1> DEFINE L == Len(format)
           g == CHOOSE f : IsPrintf(f, L, format, args)
<1>1. L \in Nat
  OBVIOUS
<1>2. IsPrintf(g, L, format, args)
  BY <1>1, PrintfExists
<1>3. Printf(format, args) = g[L]
  BY DEF Printf, IsPrintf
<1> HIDE DEF g
<1> DEFINE T == {n \in Nat : n <= L => PrintedSoFar(g[n], S, format, args, n)}
<1>4. \A n \in Nat : n \in T <=> (n <= L => PrintedSoFar(g[n], S, format, args, n))
  OBVIOUS
<1> HIDE DEF T
<1>5. ASSUME NEW n \in Nat, \A k \in 0..(n - 1) : k \in T PROVE n \in T
  <2> SUFFICES ASSUME n <= L PROVE PrintedSoFar(g[n], S, format, args, n)
    BY <1>4
  <2>1. g[n] = IF n = 0 THEN [text |-> << >>, args |-> args, returns |-> 0]
               ELSE Printed(g[n - 1], format[n])
    BY <1>1, <1>2 DEF IsPrintf
  <2>2. CASE n = 0
    <3>1. g[n] = [text |-> << >>, args |-> args, returns |-> 0]
      BY <2>1, <2>2
    <3>2. << >> \in Seq(Characters) /\ Len(args) \in Nat
      OBVIOUS
    <3>3. Conversion(format, n) = 0
      BY <2>2, ConversionCounts
    <3>4. IsRest(args, args, 0)
      BY <3>2 DEF IsRest
    <3> QED BY <3>1, <3>2, <3>3, <3>4 DEF PrintedSoFar
  <2>3. CASE n # 0
    <3>1. n - 1 \in Nat /\ n - 1 <= L /\ (n - 1) + 1 = n /\ n - 1 \in T
      BY <1>1, <1>5, <2>3
    <3>2. PrintedSoFar(g[n - 1], S, format, args, n - 1)
      BY <1>4, <3>1
    <3> DEFINE m == n - 1
    <3>3. PrintedSoFar(Printed(g[m], format[m + 1]), S, format, args, m + 1)
      BY <3>1, <3>2, PrintedOne
    <3> QED BY <2>1, <2>3, <3>1, <3>3
  <2> QED BY <2>2, <2>3
<1>6. \A n \in Nat : n \in T
  BY <1>5, Induction
<1>7. PrintedSoFar(g[L], S, format, args, L)
  <2> HIDE DEF L
  <2> QED BY <1>1, <1>4, <1>6
<1>8. g[L].text \in Seq(Characters)
  <2> HIDE DEF L
  <2> QED BY <1>7, Zenon DEF PrintedSoFar
<1> QED BY <1>3, <1>8

-----------------------------------------------------------------------------
(* What vsprintf leaves in its buffer.                                     *)

IsVsprintf(g, m, str, format, args) ==
  g = [n \in 0..m |-> IF n = 0 THEN [str |-> str, args |-> args, loc |-> 0]
                      ELSE Formatted(g[n - 1], format[n])]

LEMMA VsprintfExists ==
  ASSUME NEW str, NEW format, NEW args
  PROVE  \A m \in Nat : \E g : IsVsprintf(g, m, str, format, args)
<1> DEFINE T == {m \in Nat : \E g : IsVsprintf(g, m, str, format, args)}
           base == [str |-> str, args |-> args, loc |-> 0]
<1>1. ASSUME NEW m \in Nat, \A k \in 0..(m - 1) : k \in T PROVE m \in T
  <2>1. CASE m = 0
    <3>1. IsVsprintf([n \in 0..m |-> base], m, str, format, args)
      BY <2>1 DEF IsVsprintf
    <3> QED BY <3>1
  <2>2. CASE m # 0
    <3>1. PICK g : IsVsprintf(g, m - 1, str, format, args)
      BY <1>1, <2>2
    <3> DEFINE next(f, k) == IF k = 0 THEN base ELSE Formatted(f[k - 1], format[k])
               h == [k \in 0..m |-> IF k = m THEN next(g, k) ELSE g[k]]
    <3>2. ASSUME NEW k \in 0..m PROVE h[k] = next(h, k)
      <4>1. k # 0 => h[k - 1] = g[k - 1]
        OBVIOUS
      <4>2. k # m => g[k] = next(g, k)
        <5>1. k # m => k \in 0..(m - 1)
          OBVIOUS
        <5> QED BY <3>1, <5>1 DEF IsVsprintf
      <4>3. next(h, k) = next(g, k)
        BY <4>1
      <4> QED BY <4>2, <4>3
    <3>3. IsVsprintf(h, m, str, format, args)
      <4>1. h = [k \in 0..m |-> h[k]]
        OBVIOUS
      <4> HIDE DEF h
      <4> QED BY <3>2, <4>1 DEF IsVsprintf
    <3> QED BY <3>3
  <2> QED BY <2>1, <2>2
<1> HIDE DEF T
<1>2. \A m \in Nat : m \in T
  BY <1>1, Induction
<1> QED BY <1>2 DEF T

\* A memory whose first places hold characters of texts.
Places == 0..(BufferSize - 1)
Holds(str, to) ==
  /\ str = [p \in Places |-> str[p]]
  /\ to \in Nat
  /\ \A p \in Places : p < to => str[p] \in Characters
Ended(str, to) == Holds(str, to) /\ (to \in Places => str[to] = Nul)

LEMMA TextEnds ==
  ASSUME NEW str, NEW to, Ended(str, to)
  PROVE  TextIn(str) \in Seq(Characters)
<1> DEFINE ends == {p \in DOMAIN str : str[p] = Nul}
           len == IF ends = {} THEN Cardinality(DOMAIN str) ELSE Min(ends)
           C == Characters
<1>1. /\ BufferSize \in Nat /\ DOMAIN str = Places /\ to \in Nat
      /\ \A p \in Places : p < to => str[p] \in C
      /\ to \in Places => to \in ends
  BY TextAssumption DEF Ended, Holds
<1>2. Cardinality(Places) = BufferSize
  <2>1. Cardinality(0..(BufferSize - 1)) = IF 0 > BufferSize - 1 THEN 0
                                           ELSE (BufferSize - 1) - 0 + 1
    BY <1>1, FS_Interval
  <2> QED BY <1>1, <2>1 DEF Places
<1>3. len \in Nat /\ len <= BufferSize /\ (to < BufferSize => len <= to)
  <2>1. CASE ends = {}
    <3>1. to \notin Places
      BY <1>1, <2>1
    <3>2. to >= BufferSize
      BY <1>1, <3>1 DEF Places
    <3> QED BY <1>1, <1>2, <2>1, <3>2
  <2>2. CASE ends # {}
    <3>1. ends \subseteq Nat
      BY <1>1 DEF Places
    <3>2. \E x \in ends : \A y \in ends : x <= y
      <4> DEFINE R == OpToRel(<, Nat)
      <4>1. \A i, j \in Nat : i < j => <<i, j>> \in R
        BY DEF OpToRel
      <4>2. IsWellFoundedOn(R, Nat)
        BY NatLessThanWellFounded
      <4> HIDE DEF R, ends
      <4>3. PICK x \in ends : \A y \in ends : ~ (<<y, x>> \in R)
        BY <2>2, <3>1, <4>2, WFMin
      <4>4. ASSUME NEW y \in ends PROVE x <= y
        <5>1. x \in Nat /\ y \in Nat
          BY <3>1
        <5>2. ~ (y < x)
          BY <4>1, <4>3, <5>1
        <5> QED BY <5>1, <5>2
      <4> QED BY <4>4
    <3>3. Min(ends) \in ends /\ \A y \in ends : Min(ends) <= y
      <4> HIDE DEF ends
      <4> QED BY <3>2 DEF Min
    <3>4. ends \subseteq Places
      BY <1>1
    <3>5. to < BufferSize => to \in ends
      BY <1>1 DEF Places
    <3> QED BY <1>1, <2>2, <3>3, <3>4, <3>5 DEF Places
  <2> QED BY <2>1, <2>2
<1>4. TextIn(str) = [i \in 1..len |-> str[i - 1]]
  BY DEF TextIn
<1> HIDE DEF len, ends
<1>5. ASSUME NEW i \in 1..len PROVE str[i - 1] \in C
  <2>1. i - 1 \in Places /\ i - 1 < to
    BY <1>1, <1>3 DEF Places
  <2> QED BY <1>1, <2>1
<1> HIDE DEF C
<1>6. [i \in 1..len |-> str[i - 1]] \in Seq(C)
  BY <1>3, <1>5
<1> QED BY <1>4, <1>6 DEF C

\* What a number leaves.
LEMMA NumberLeaves ==
  ASSUME NEW str, NEW loc, Holds(str, loc), NEW text \in Seq(Characters), text # << >>,
         NEW v, v = strcpy(str, loc, text)
  PROVE  /\ AfterText(loc, Len(text)) + 1 \in Nat /\ AfterText(loc, Len(text)) \in Nat
         /\ Holds(v, AfterText(loc, Len(text))) /\ Ended(v, AfterText(loc, Len(text)) + 1)
<1> DEFINE C == Characters
           L == Len(text)
<1>1. L \in Nat /\ L >= 1 /\ loc \in Nat /\ \A i \in 1..L : text[i] \in C
  BY DEF Holds
<1>2. \A p \in Places : p < loc => str[p] \in C
  BY DEF Holds
<1>3. v = [p \in Places |-> IF p \in loc..(loc + L - 1) THEN text[p - loc + 1]
                            ELSE IF p = loc + L THEN Nul ELSE str[p]]
  <2>1. DOMAIN str = Places
    BY DEF Holds
  <2> QED BY <2>1 DEF strcpy
<1> HIDE DEF L, C
<1>4. ASSUME NEW p \in Places, p < loc + L PROVE v[p] \in C
  <2>1. p \in Nat
    BY DEF Places
  <2>2. CASE p < loc
    BY <1>1, <1>2, <1>3, <2>1, <2>2
  <2>3. CASE p >= loc
    <3>1. p \in loc..(loc + L - 1) /\ p - loc + 1 \in 1..L
      BY <1>1, <1>4, <2>1, <2>3
    <3>2. v[p] = text[p - loc + 1]
      BY <1>3, <3>1
    <3> QED BY <1>1, <3>1, <3>2
  <2> QED BY <1>1, <2>1, <2>2, <2>3
<1>5. loc + L \in Places => v[loc + L] = Nul
  BY <1>1, <1>3
<1>6. v = [p \in Places |-> v[p]]
  BY <1>3
<1>7. AfterText(loc, L) = loc + L - 1 /\ AfterText(loc, L) + 1 = loc + L
  BY <1>1 DEF AfterText
<1>8. Holds(v, loc + L)
  BY <1>1, <1>4, <1>6 DEF Holds, C
<1>9. Holds(v, loc + L - 1)
  <2>1. \A p \in Places : p \in Int
    BY DEF Places
  <2> QED BY <1>1, <1>4, <1>6, <2>1 DEF Holds, C
<1> QED BY <1>1, <1>5, <1>7, <1>8, <1>9 DEF Ended, L

\* A state of vsprintf after a format's first n elements.
FormattedSoFar(s, format, args, n) ==
  /\ s = [str |-> s.str, args |-> s.args, loc |-> s.loc]
  /\ Holds(s.str, s.loc)
  /\ s.args \in Seq(Ints) /\ IsRest(s.args, args, Conversion(format, n))

\* One more number, or one more character.
LEMMA FormattedNumber ==
  ASSUME NEW format, NEW args \in Seq(Ints), ArgsFit(format, args),
         NEW n \in Nat, n + 1 \in 1..Len(format), format[n + 1] \in {"%d", "%x"},
         NEW s, FormattedSoFar(s, format, args, n), NEW u, u = Formatted(s, format[n + 1])
  PROVE  FormattedSoFar(u, format, args, n + 1) /\ Ended(u.str, u.loc + 1)
<1> DEFINE t == format[n + 1]
           k == Conversion(format, n)
           arg == Head(s.args)
           text == Converted(t, arg)
           v == strcpy(s.str, s.loc, text)
<1>1. t \in Conversions /\ t # "%c"
  BY DEF Conversions
<1>2. k \in Nat /\ Conversion(format, n + 1) = k + 1
  BY <1>1, ConversionCounts
<1>3. k + 1 <= Len(args) /\ Fitting(t, args[k + 1])
  BY <1>1, <1>2, ArgumentFits
<1>4. arg = args[k + 1] /\ Tail(s.args) \in Seq(Ints) /\ IsRest(Tail(s.args), args, k + 1)
  BY <1>2, <1>3, RestShorter DEF FormattedSoFar
<1>5. text \in Seq(Characters) /\ text # << >>
  BY <1>1, <1>3, <1>4, ConversionShown
<1>6. u = [str |-> v, args |-> Tail(s.args), loc |-> AfterText(s.loc, Len(text))]
  BY <1>1 DEF Formatted
<1>7. Holds(s.str, s.loc)
  BY DEF FormattedSoFar
<1> HIDE DEF text, t, k, arg
<1>8. /\ AfterText(s.loc, Len(text)) \in Nat
      /\ Holds(v, AfterText(s.loc, Len(text))) /\ Ended(v, AfterText(s.loc, Len(text)) + 1)
  BY <1>5, <1>7, NumberLeaves
<1> HIDE DEF v
<1>9. /\ u = [str |-> u.str, args |-> u.args, loc |-> u.loc]
      /\ u.str = v /\ u.args = Tail(s.args) /\ u.loc = AfterText(s.loc, Len(text))
  BY <1>6
<1> QED BY <1>2, <1>4, <1>8, <1>9 DEF FormattedSoFar

LEMMA FormattedCharacter ==
  ASSUME NEW format, NEW args, NEW n \in Nat, format[n + 1] \in Characters,
         format[n + 1] \notin Conversions, format[n + 1] # "%",
         NEW s, FormattedSoFar(s, format, args, n), NEW u, u = Formatted(s, format[n + 1])
  PROVE  /\ FormattedSoFar(u, format, args, n + 1)
         /\ Ended(s.str, s.loc + 1) => Ended(u.str, u.loc)
<1> DEFINE t == format[n + 1]
           v == [s.str EXCEPT ![s.loc] = t]
           C == Characters
<1>1. Conversion(format, n + 1) = Conversion(format, n)
  BY ConversionCounts
<1>2. u = [str |-> v, args |-> s.args, loc |-> s.loc + 1]
  <2> HIDE DEF v
  <2>1. t # "%c"
    BY DEF Conversions
  <2> QED BY <2>1 DEF Formatted, v
<1>3. /\ u = [str |-> u.str, args |-> u.args, loc |-> u.loc]
      /\ u.str = v /\ u.args = s.args /\ u.loc = s.loc + 1
  <2> HIDE DEF v
  <2> QED BY <1>2
<1>4. t \in C
  OBVIOUS
<1> HIDE DEF t
<1>5. /\ s.str = [p \in Places |-> s.str[p]] /\ s.loc \in Nat
      /\ \A p \in Places : p < s.loc => s.str[p] \in C
  BY DEF FormattedSoFar, Holds
<1> HIDE DEF C
<1>6. /\ v = [p \in Places |-> v[p]]
      /\ \A p \in Places : v[p] = IF p = s.loc THEN t ELSE s.str[p]
  BY <1>5
<1>7. Holds(v, s.loc + 1)
  <2>1. ASSUME NEW p \in Places, p < s.loc + 1 PROVE v[p] \in C
    <3>1. p \in Int
      BY DEF Places
    <3>2. p = s.loc \/ p < s.loc
      BY <1>5, <2>1, <3>1
    <3> HIDE DEF v
    <3> QED BY <1>4, <1>5, <1>6, <3>2
  <2> HIDE DEF v
  <2> QED BY <1>5, <1>6, <2>1 DEF Holds, C
<1>8. ASSUME Ended(s.str, s.loc + 1) PROVE Ended(v, s.loc + 1)
  <2> HIDE DEF v
  <2> QED BY <1>5, <1>6, <1>7, <1>8 DEF Ended
<1> HIDE DEF v
<1> QED BY <1>1, <1>3, <1>7, <1>8 DEF FormattedSoFar

\* A message of the exception handlers is ended, whatever was in the buffer.
LEMMA MessageEnds ==
  ASSUME NEW message, ShowsNumbers(message), NEW buf, buf = [p \in Places |-> buf[p]]
  PROVE  TextIn(vsprintf(buf, message.format, message.args).str) \in Seq(Characters)
<1> DEFINE format == message.format
           args == message.args
           L == Len(format)
           g == CHOOSE f : IsVsprintf(f, L, buf, format, args)
<1>1. /\ format \in Seq(Characters \ {"%", "%c", "%s"})
      /\ args \in Seq(Ints) /\ ArgsFit(format, args)
      /\ \E n \in 1..L : format[n] \in {"%d", "%x"} /\ L <= n + 1
  BY DEF ShowsNumbers
<1> HIDE DEF format, args
<1>2. L \in Nat /\ \A n \in 1..L : format[n] \in Characters \ {"%", "%c", "%s"}
  BY <1>1
<1>3. IsVsprintf(g, L, buf, format, args)
  BY <1>2, VsprintfExists
<1>4. vsprintf(buf, format, args) = g[L]
  BY DEF vsprintf, IsVsprintf
<1> HIDE DEF g
<1>5. /\ g[0] = [str |-> buf, args |-> args, loc |-> 0]
      /\ \A n \in Nat : n + 1 <= L => g[n + 1] = Formatted(g[n], format[n + 1])
  <2>1. \A n \in 0..L : g[n] = IF n = 0 THEN [str |-> buf, args |-> args, loc |-> 0]
                               ELSE Formatted(g[n - 1], format[n])
    BY <1>3 DEF IsVsprintf
  <2>2. g[0] = [str |-> buf, args |-> args, loc |-> 0]
    BY <1>2, <2>1
  <2>3. ASSUME NEW n \in Nat, n + 1 <= L PROVE g[n + 1] = Formatted(g[n], format[n + 1])
    <3>1. n + 1 \in 0..L /\ n + 1 # 0 /\ (n + 1) - 1 = n
      BY <1>2, <2>3
    <3> QED BY <2>1, <3>1
  <2> QED BY <2>2, <2>3
<1> HIDE DEF L
<1>6. ASSUME NEW n \in Nat, n + 1 <= L
      PROVE  /\ n + 1 \in 1..L /\ n + 1 \in 1..Len(format) /\ format[n + 1] \in Characters
             /\ format[n + 1] # "%"
             /\ format[n + 1] \in Conversions <=> format[n + 1] \in {"%d", "%x"}
  <2>1. n + 1 \in 1..L
    BY <1>2, <1>6
  <2>2. format[n + 1] \in Characters \ {"%", "%c", "%s"}
    BY <1>2, <2>1
  <2> QED BY <2>1, <2>2 DEF L, Conversions
<1>7. ASSUME NEW n \in Nat, n + 1 <= L, FormattedSoFar(g[n], format, args, n)
      PROVE  /\ FormattedSoFar(g[n + 1], format, args, n + 1)
             /\ format[n + 1] \in Conversions => Ended(g[n + 1].str, g[n + 1].loc + 1)
             /\ format[n + 1] \notin Conversions /\ Ended(g[n].str, g[n].loc + 1)
                  => Ended(g[n + 1].str, g[n + 1].loc)
  <2>1. g[n + 1] = Formatted(g[n], format[n + 1])
    BY <1>5, <1>7
  <2>2. CASE format[n + 1] \in Conversions
    BY <1>1, <1>6, <1>7, <2>1, <2>2, FormattedNumber
  <2>3. CASE format[n + 1] \notin Conversions
    BY <1>6, <1>7, <2>1, <2>3, FormattedCharacter
  <2> QED BY <2>2, <2>3
<1> DEFINE T == {n \in Nat : n <= L => FormattedSoFar(g[n], format, args, n)}
<1>8. \A n \in Nat : n \in T <=> (n <= L => FormattedSoFar(g[n], format, args, n))
  OBVIOUS
<1> HIDE DEF T
<1>9. ASSUME NEW n \in Nat, \A k \in 0..(n - 1) : k \in T PROVE n \in T
  <2> SUFFICES ASSUME n <= L PROVE FormattedSoFar(g[n], format, args, n)
    BY <1>8
  <2>1. CASE n = 0
    <3>1. Conversion(format, n) = 0
      BY <2>1, ConversionCounts
    <3>2. IsRest(args, args, 0)
      BY <1>1 DEF IsRest
    <3>3. Holds(buf, 0)
      BY DEF Holds, Places
    <3> QED BY <1>1, <1>5, <2>1, <3>1, <3>2, <3>3 DEF FormattedSoFar
  <2>2. CASE n # 0
    <3> DEFINE m == n - 1
    <3>1. m \in Nat /\ m + 1 <= L /\ m + 1 = n /\ m <= L /\ m \in 0..(n - 1)
      BY <1>2, <2>2
    <3>2. FormattedSoFar(g[m], format, args, m)
      BY <1>8, <1>9, <3>1
    <3> HIDE DEF m
    <3> QED BY <1>7, <3>1, <3>2
  <2> QED BY <2>1, <2>2
<1>10. \A n \in Nat : n <= L => FormattedSoFar(g[n], format, args, n)
  <2>1. \A n \in Nat : n \in T
    BY <1>9, Induction
  <2> QED BY <1>8, <2>1
<1>11. PICK n \in 1..L : format[n] \in {"%d", "%x"} /\ L <= n + 1
  BY <1>1
<1> DEFINE m == n - 1
<1>12. m \in Nat /\ m + 1 = n /\ m <= L /\ m + 1 <= L /\ n \in Nat /\ n <= L
  BY <1>2
<1> HIDE DEF m
<1>13. Ended(g[n].str, g[n].loc + 1)
  BY <1>6, <1>7, <1>10, <1>11, <1>12
<1>14. \E to : Ended(g[L].str, to)
  <2>1. CASE L = n
    BY <1>13, <2>1
  <2>2. CASE L = n + 1
    <3>1. FormattedSoFar(g[n], format, args, n) /\ n + 1 <= L
      BY <1>10, <1>12, <2>2
    <3>2. CASE format[n + 1] \in Conversions
      BY <1>7, <1>12, <2>2, <3>1, <3>2
    <3>3. CASE format[n + 1] \notin Conversions
      BY <1>7, <1>12, <1>13, <2>2, <3>1, <3>3
    <3> QED BY <3>2, <3>3
  <2> QED BY <1>2, <1>11, <1>12, <2>1, <2>2
<1>15. TextIn(g[L].str) \in Seq(Characters)
  BY <1>14, TextEnds
<1> QED BY <1>4, <1>15 DEF format, args

-----------------------------------------------------------------------------
(* What is shown.                                                          *)

\* Calls that show characters of texts only.
Calls == [call : {"putc"}, char : Characters] \cup [call : {"goto"}, x : Nat, y : Nat]
         \cup [call : {"color"}, color : Nat] \cup [call : {"clear"}, color : Nat]

LEMMA CallsFollow ==
  /\ \A s, t \in Seq(Calls) : s \o t \in Seq(Calls)
  /\ \A s \in Seq(Calls) : s # << >> => Head(s) \in Calls /\ Tail(s) \in Seq(Calls)
  /\ << >> \in Seq(Calls)
<1> DEFINE C == Calls
<1> HIDE DEF C
<1>1. /\ \A s, t \in Seq(C) : s \o t \in Seq(C)
      /\ \A s \in Seq(C) : s # << >> => Head(s) \in C /\ Tail(s) \in Seq(C)
      /\ << >> \in Seq(C)
  OBVIOUS
<1> QED BY <1>1 DEF C

LEMMA PutsShow ==
  ASSUME NEW text \in Seq(Characters)
  PROVE  DebugPuts(text) \in Seq(Calls)
<1>1. DebugPuts(text) \in Seq([call : {"putc"}, char : Characters])
  BY PutsCalls
<1>2. [call : {"putc"}, char : Characters] \subseteq Calls
  BY DEF Calls
<1>3. ASSUME NEW S, NEW T, S \subseteq T, NEW q \in Seq(S) PROVE q \in Seq(T)
  BY <1>3
<1> QED BY <1>1, <1>2, <1>3, Zenon

LEMMA SetShow ==
  ASSUME NEW m \in Nat, NEW n \in Nat
  PROVE  Goto(m, n) \in Seq(Calls) /\ SetColor(n) \in Seq(Calls) /\ ClrScr(n) \in Seq(Calls)
<1>1. ASSUME NEW C, NEW c \in C PROVE <<c>> \in Seq(C)
  OBVIOUS
<1>2. [call |-> "goto", x |-> m, y |-> n] \in Calls
  BY DEF Calls
<1>3. [call |-> "color", color |-> n] \in Calls /\ [call |-> "clear", color |-> n] \in Calls
  BY DEF Calls
<1> QED BY <1>1, <1>2, <1>3 DEF Goto, SetColor, ClrScr

LEMMA PrintfShows ==
  ASSUME NEW S, NEW format \in Seq(Characters), NEW args \in Seq(S), ArgsFit(format, args)
  PROVE  DebugPrintf(format, args) \in Seq(Calls)
BY PrintfShown, PutsShow DEF DebugPrintf

LEMMA NoArguments ==
  /\ << >> \in Seq({})
  /\ ArgsFit(Texts.title, << >>) /\ ArgsFit(Texts.starting, << >>)
  /\ ArgsFit(Texts.hal, << >>) /\ ArgsFit(Texts.map, << >>)
<1>1. << >> \in Seq({})
  OBVIOUS
<1>2. \A text \in {Texts.title, Texts.starting, Texts.hal, Texts.map} : ArgsFit(text, << >>)
  BY TextsAssumption, Zenon
<1> QED BY <1>1, <1>2, Zenon

LEMMA BannerShows == Banner \in Seq(Calls)
<1>1. /\ << >> \in Seq({}) /\ ArgsFit(Texts.title, << >>) /\ ArgsFit(Texts.starting, << >>)
      /\ ArgsFit(Texts.hal, << >>)
  BY NoArguments
<1>2. /\ DebugPrintf(Texts.title, << >>) \in Seq(Calls)
      /\ DebugPrintf(Texts.starting, << >>) \in Seq(Calls)
      /\ DebugPrintf(Texts.hal, << >>) \in Seq(Calls)
  BY <1>1, TextsHold, PrintfShows
<1>3. /\ ClrScr(24) \in Seq(Calls) /\ SetColor(112) \in Seq(Calls) /\ Goto(0, 0) \in Seq(Calls)
      /\ Goto(0, 1) \in Seq(Calls) /\ Goto(0, 2) \in Seq(Calls)
  BY SetShow
<1>4. /\ ClrScr(24) \o Goto(0, 0) \in Seq(Calls)
      /\ ClrScr(24) \o Goto(0, 0) \o SetColor(112) \in Seq(Calls)
  BY <1>3, CallsFollow
<1> QED BY <1>2, <1>3, <1>4, CallsFollow, Zenon DEF Banner

\* Calls one after the other.
IsFlat(g, m, seqs) ==
  g = [i \in 1..m |-> IF i = 1 THEN seqs[i] ELSE g[i - 1] \o seqs[i]]

LEMMA FlatExists ==
  ASSUME NEW seqs
  PROVE  \A m \in Nat : \E g : IsFlat(g, m, seqs)
<1> DEFINE T == {m \in Nat : \E g : IsFlat(g, m, seqs)}
<1>1. ASSUME NEW m \in Nat, \A k \in 0..(m - 1) : k \in T PROVE m \in T
  <2>1. CASE m = 0
    <3>1. IsFlat([i \in 1..m |-> << >>], m, seqs)
      BY <2>1 DEF IsFlat
    <3> QED BY <3>1
  <2>2. CASE m # 0
    <3>1. PICK g : IsFlat(g, m - 1, seqs)
      BY <1>1, <2>2
    <3> DEFINE next(f, k) == IF k = 1 THEN seqs[k] ELSE f[k - 1] \o seqs[k]
               h == [k \in 1..m |-> IF k = m THEN next(g, k) ELSE g[k]]
    <3>2. ASSUME NEW k \in 1..m PROVE h[k] = next(h, k)
      <4>1. k # 1 => h[k - 1] = g[k - 1]
        OBVIOUS
      <4>2. k # m => g[k] = next(g, k)
        <5>1. k # m => k \in 1..(m - 1)
          OBVIOUS
        <5> QED BY <3>1, <5>1 DEF IsFlat
      <4>3. next(h, k) = next(g, k)
        BY <4>1
      <4>4. h[k] = IF k = m THEN next(g, k) ELSE g[k]
        OBVIOUS
      <4> HIDE DEF h, next
      <4> QED BY <4>2, <4>3, <4>4
    <3>3. IsFlat(h, m, seqs)
      <4>1. h = [k \in 1..m |-> h[k]]
        OBVIOUS
      <4> HIDE DEF h
      <4> QED BY <3>2, <4>1 DEF IsFlat
    <3> QED BY <3>3
  <2> QED BY <2>1, <2>2
<1> HIDE DEF T
<1>2. \A m \in Nat : m \in T
  BY <1>1, Induction
<1> QED BY <1>2 DEF T

LEMMA FlatShows ==
  ASSUME NEW seqs \in Seq(Seq(Calls))
  PROVE  FlattenSeq(seqs) \in Seq(Calls)
<1> DEFINE L == Len(seqs)
           C == Calls
           g == CHOOSE f : IsFlat(f, L, seqs)
<1>1. L \in Nat /\ \A i \in 1..L : seqs[i] \in Seq(C)
  <2> HIDE DEF C
  <2>1. ASSUME NEW D, NEW q \in Seq(D) PROVE Len(q) \in Nat /\ \A i \in 1..Len(q) : q[i] \in D
    OBVIOUS
  <2>2. seqs \in Seq(Seq(C))
    BY DEF C
  <2> QED BY <2>1, <2>2
<1>2. IsFlat(g, L, seqs)
  BY <1>1, FlatExists
<1>3. CASE L = 0
  <2>1. FlattenSeq(seqs) = seqs
    BY <1>3 DEF FlattenSeq
  <2>2. seqs = << >>
    BY <1>3
  <2> QED BY <2>1, <2>2, CallsFollow
<1>4. CASE L # 0
  <2>1. FlattenSeq(seqs) = g[L]
    BY <1>4 DEF FlattenSeq, IsFlat
  <2> HIDE DEF g
  <2> DEFINE T == {n \in Nat : n \in 1..L => g[n] \in Seq(C)}
  <2>2. \A n \in Nat : n \in T <=> (n \in 1..L => g[n] \in Seq(C))
    OBVIOUS
  <2> HIDE DEF T, C
  <2>3. ASSUME NEW n \in Nat, \A k \in 0..(n - 1) : k \in T PROVE n \in T
    <3> SUFFICES ASSUME n \in 1..L PROVE g[n] \in Seq(C)
      BY <2>2
    <3>1. g[n] = IF n = 1 THEN seqs[n] ELSE g[n - 1] \o seqs[n]
      BY <1>2 DEF IsFlat
    <3>2. CASE n = 1
      BY <1>1, <3>1, <3>2
    <3>3. CASE n # 1
      <4>1. n - 1 \in 1..L /\ n - 1 \in 0..(n - 1) /\ n - 1 \in Nat
        BY <1>1, <3>3
      <4>2. g[n - 1] \in Seq(C)
        BY <2>2, <2>3, <4>1
      <4> QED BY <1>1, <3>1, <3>3, <4>2
    <3> QED BY <3>2, <3>3
  <2>4. \A n \in Nat : n \in T
    BY <2>3, Induction
  <2>5. g[L] \in Seq(C)
    <3> HIDE DEF L
    <3>1. L \in 1..L
      BY <1>1, <1>4
    <3> QED BY <1>1, <2>2, <2>4, <3>1
  <2> QED BY <2>1, <2>5 DEF C
<1> QED BY <1>3, <1>4

LEMMA MemoryMapShows ==
  ASSUME regions \in RegionLists, counts \in Counts, total \in 0..(UINT32 \div 2 - 1)
  PROVE  MemoryMap \in Seq(Calls)
<1> DEFINE line(i) == DebugPrintf(Texts.region, RegionArgs(regions, i))
           lines == [i \in 1..Len(regions) |-> line(i)]
<1>1. Len(regions) \in Nat /\ \A n \in 1..Len(regions) : ArgsFit(Texts.region, RegionArgs(regions, n))
  <2> DEFINE R == [startHi : Ints, start : Ints, sizeHi : Ints, size : Ints, type : Seq(Characters)]
  <2>1. /\ regions \in Seq(R)
        /\ \A n \in 1..Len(regions) : ArgsFit(Texts.region, RegionArgs(regions, n))
    BY TextsAssumption, Zenon
  <2> HIDE DEF R
  <2> QED BY <2>1
<1>2. Len(regions) \in Nat
  BY <1>1
<1>3. ASSUME NEW n \in 1..Len(regions) PROVE line(n) \in Seq(Calls)
  <2> DEFINE e == regions[n]
             a == RegionArgs(regions, n)
             S == {n - 1, e.startHi, e.start, e.sizeHi, e.size, e.type}
  <2>1. a \in Seq(S)
    <3>1. a = <<n - 1, e.startHi, e.start, e.sizeHi, e.size, e.type>>
      BY DEF RegionArgs
    <3> HIDE DEF e
    <3> QED BY <3>1
  <2>2. ArgsFit(Texts.region, a)
    BY <1>1
  <2> HIDE DEF a, S
  <2>3. DebugPrintf(Texts.region, a) \in Seq(Calls)
    BY <2>1, <2>2, TextsHold, PrintfShows
  <2> QED BY <2>3 DEF a
<1> HIDE DEF line
<1>4. lines \in Seq(Seq(Calls))
  BY <1>2, <1>3
<1>5. FlattenSeq(lines) \in Seq(Calls)
  <2> HIDE DEF lines
  <2> QED BY <1>4, FlatShows
<1>6. DebugPrintf(Texts.total, <<total>>) \in Seq(Calls)
  <2>1. \A n \in 0..(UINT32 \div 2 - 1) : ArgsFit(Texts.total, <<n>>)
    BY TextsAssumption, Zenon
  <2>2. ArgsFit(Texts.total, <<total>>)
    BY <2>1, Zenon
  <2>3. <<total>> \in Seq({total})
    OBVIOUS
  <2> QED BY <2>2, <2>3, TextsHold, PrintfShows
<1>7. DebugPrintf(Texts.map, << >>) \in Seq(Calls)
  <2>1. ArgsFit(Texts.map, << >>) /\ << >> \in Seq({})
    BY NoArguments
  <2> QED BY <2>1, TextsHold, PrintfShows
<1>8. SetColor(25) \in Seq(Calls) /\ SetColor(23) \in Seq(Calls)
  BY SetShow
<1>9. DebugPrintf(Texts.blocks, CountArgs(counts)) \in Seq(Calls)
  <2> DEFINE free == ToInt(counts.blocks - counts.used)
             a == CountArgs(counts)
             S == {counts.blocks, counts.used, free}
  <2>1. a \in Seq(S)
    <3>1. a = <<counts.blocks, counts.used, free>>
      BY DEF CountArgs
    <3> HIDE DEF free
    <3> QED BY <3>1
  <2>2. ArgsFit(Texts.blocks, a)
    BY TextsAssumption, Zenon
  <2> HIDE DEF a, S
  <2>3. DebugPrintf(Texts.blocks, a) \in Seq(Calls)
    BY <2>1, <2>2, TextsHold, PrintfShows
  <2> QED BY <2>3 DEF a
<1>10. MemoryMap = SetColor(25) \o DebugPrintf(Texts.map, << >>) \o SetColor(23)
                   \o FlattenSeq(lines) \o DebugPrintf(Texts.total, <<total>>)
                   \o DebugPrintf(Texts.blocks, CountArgs(counts))
  BY DEF MemoryMap, line
<1> HIDE DEF lines
<1> QED BY <1>5, <1>6, <1>7, <1>8, <1>9, <1>10, CallsFollow, Zenon

LEMMA PanicShows ==
  /\ Panic \in Seq(Calls)
  /\ Goto(0, DefaultRow) \o DebugPuts(Texts.unhandled) \in Seq(Calls)
<1>1. /\ DebugPuts(Texts.sickpc) \in Seq(Calls) /\ DebugPuts(Texts.disc) \in Seq(Calls)
      /\ DebugPuts(Texts.unhandled) \in Seq(Calls)
  BY TextsHold, PutsShow
<1>2. ClrScr(19) \in Seq(Calls) /\ Goto(0, 0) \in Seq(Calls) /\ SetColor(23) \in Seq(Calls)
  BY SetShow
<1>3. Goto(0, DefaultRow) \in Seq(Calls)
  BY SetShow, OutputAssumption
<1> QED BY <1>1, <1>2, <1>3, CallsFollow, Zenon DEF Panic

LEMMA MessageShows ==
  ASSUME NEW message \in Messages, NEW buf \in Buffers
  PROVE  PanicMessage(message, buf) \in Seq(Calls)
<1> DEFINE text == TextIn(vsprintf(buf, message.format, message.args).str)
<1>1. buf = [p \in Places |-> buf[p]]
  BY DEF Buffers, Places
<1>2. text \in Seq(Characters)
  BY <1>1, TextsAssumption, MessageEnds
<1> HIDE DEF text
<1>3. ArgsFit(Texts.stop, <<text>>)
  <2> SUFFICES ASSUME NEW n \in 1..Len(Texts.stop), Texts.stop[n] \in Conversions
               PROVE  LET k == Conversion(Texts.stop, n) IN
                      /\ k <= Len(<<text>>)
                      /\ <<text>>[k] \in CASE Texts.stop[n] \in {"%d", "%x"} -> Ints
                                           [] Texts.stop[n] = "%s" -> Seq(Characters)
                                           [] Texts.stop[n] = "%c" -> Characters
    BY Zenon DEF ArgsFit
  <2>1. Texts.stop[n] = "%s" /\ Conversion(Texts.stop, n) = 1
    BY TextsAssumption
  <2>2. Len(<<text>>) = 1 /\ <<text>>[1] = text
    OBVIOUS
  <2>3. (CASE Texts.stop[n] \in {"%d", "%x"} -> Ints
           [] Texts.stop[n] = "%s" -> Seq(Characters)
           [] Texts.stop[n] = "%c" -> Characters) = Seq(Characters)
    BY <2>1
  <2> QED BY <1>2, <2>1, <2>2, <2>3
<1>4. <<text>> \in Seq({text})
  OBVIOUS
<1>5. DebugPrintf(Texts.stop, <<text>>) \in Seq(Calls)
  BY <1>3, <1>4, TextsHold, PrintfShows
<1> QED BY <1>5 DEF PanicMessage, text

\* The video memory holds characters of texts.
Clean(s) == \A n \in Cells : s.mem[n].char # Stray

LEMMA CalledClean ==
  ASSUME NEW s, Shaped(s), Clean(s), NEW c \in Calls
  PROVE  Clean(Called(s, c))
<1>1. CASE c.call = "goto"
  <2>1. Called(s, c) = DebugGotoXY(s, c.x, c.y)
    BY <1>1 DEF Called
  <2> QED BY <2>1, GotoFields DEF Clean
<1>2. CASE c.call = "color"
  <2>1. Called(s, c) = DebugSetColor(s, c.color)
    BY <1>2 DEF Called
  <2> QED BY <2>1, ColorFields DEF Clean
<1>3. CASE c.call = "clear"
  <2>1. Called(s, c) = DebugClrScr(s, c.color)
    BY <1>3 DEF Called
  <2>2. Blank(c.color).char # Stray
    BY TextsAssumption DEF Blank, Characters
  <2> QED BY <2>1, <2>2, ClearFields DEF Clean
<1>4. CASE c.call \notin {"goto", "color", "clear"}
  <2> DEFINE u == DebugPutc(s, c.char)
  <2>1. Called(s, c) = u
    BY <1>4 DEF Called
  <2>2. c.char # Stray
    BY <1>4 DEF Calls, Characters
  <2>3. CASE c.char = Nul
    <3>1. u = s
      BY <2>3 DEF DebugPutc
    <3> QED BY <2>1, <3>1
  <2>4. CASE c.char # Nul /\ Stores(s, c.char)
    <3>1. u = Stored(s, Cell(s.xPos, s.yPos), c.char)
      BY <2>4 DEF DebugPutc, Stored
    <3> HIDE DEF u
    <3>2. \A n \in Cells : u.mem[n] = IF n = Cell(s.xPos, s.yPos)
                                      THEN [char |-> c.char, color |-> s.color] ELSE s.mem[n]
      BY <3>1, StoreFields
    <3> QED BY <2>1, <2>2, <3>2 DEF Clean
  <2>5. CASE c.char # Nul /\ ~Stores(s, c.char)
    <3>1. u = NewLine(s)
      BY <2>5 DEF DebugPutc
    <3> QED BY <2>1, <3>1, LineFields DEF Clean
  <2> QED BY <2>3, <2>4, <2>5
<1> QED BY <1>1, <1>2, <1>3, <1>4

\* The invariant.
ShownInv ==
  /\ regions \in RegionLists /\ counts \in Counts /\ total \in 0..(UINT32 \div 2 - 1)
  /\ Shaped(console) /\ Clean(console)
  /\ todo \in Seq(Calls)

LEMMA InitShown == Init => ShownInv
<1> SUFFICES ASSUME Init PROVE ShownInv
  OBVIOUS
<1>1. Shaped(console)
  BY InitPanic DEF PanicInv
<1>2. Clean(console)
  <2>1. console = InitialConsole(Blank(7))
    BY DEF Init
  <2>2. \A n \in Cells : console.mem[n] = Blank(7)
    BY <2>1 DEF InitialConsole
  <2>3. Blank(7).char # Stray
    BY TextsAssumption DEF Blank, Characters
  <2> QED BY <2>2, <2>3 DEF Clean
<1> QED BY <1>1, <1>2, BannerShows DEF Init, ShownInv

LEMMA NextShown == ShownInv /\ [Next]_vars => ShownInv'
<1> SUFFICES ASSUME ShownInv, [Next]_vars PROVE ShownInv'
  OBVIOUS
<1>1. ASSUME UNCHANGED <<regions, total, counts, console>>, todo' \in Seq(Calls) PROVE ShownInv'
  BY <1>1 DEF ShownInv, Clean
<1>2. CASE Call
  <2> DEFINE c == Head(todo)
  <2>1. /\ todo # << >> /\ console' = Called(console, c) /\ todo' = Tail(todo)
        /\ UNCHANGED <<regions, total, counts>>
    BY <1>2 DEF Call
  <2>2. c \in Calls /\ Tail(todo) \in Seq(Calls)
    BY <2>1, CallsFollow DEF ShownInv
  <2> HIDE DEF c
  <2>3. Shaped(console) /\ Clean(console)
    BY DEF ShownInv
  <2>4. Shaped(Called(console, c)) /\ Clean(Called(console, c))
    BY <2>2, <2>3, CalledAlike, CalledClean
  <2>5. Shaped(console') /\ Clean(console')
    BY <2>1, <2>4
  <2> QED BY <2>1, <2>2, <2>5 DEF ShownInv
<1>3. CASE NextPart
  <2>1. /\ UNCHANGED <<regions, total, counts, console>>
        /\ todo' \in {Banner, MemoryMap, << >>}
    BY <1>3 DEF NextPart, Part
  <2>2. MemoryMap \in Seq(Calls)
    BY MemoryMapShows DEF ShownInv
  <2> QED BY <1>1, <2>1, <2>2, BannerShows, CallsFollow
<1>4. CASE i86_default_handler
  <2>1. /\ UNCHANGED <<regions, total, counts, console>>
        /\ todo' = Goto(0, DefaultRow) \o DebugPuts(Texts.unhandled)
    BY <1>4 DEF i86_default_handler
  <2> QED BY <1>1, <2>1, PanicShows
<1>5. CASE kernel_panic
  <2>1. UNCHANGED <<regions, total, counts, console>> /\ todo' = Panic
    BY <1>5 DEF kernel_panic
  <2> QED BY <1>1, <2>1, PanicShows
<1>6. CASE \E message \in Messages, buf \in Buffers : ShowMessage(message, buf)
  <2>1. PICK message \in Messages, buf \in Buffers : ShowMessage(message, buf)
    BY <1>6
  <2>2. UNCHANGED <<regions, total, counts, console>> /\ todo' = PanicMessage(message, buf)
    BY <2>1 DEF ShowMessage
  <2> QED BY <1>1, <2>2, MessageShows
<1>7. CASE UNCHANGED vars
  BY <1>1, <1>7 DEF vars, ShownInv
<1> QED BY <1>2, <1>3, <1>4, <1>5, <1>6, <1>7 DEF Next

LEMMA ScreenIsClean == ShownInv => NoStrayCharacters
<1> SUFFICES ASSUME ShownInv, NEW n \in 0..(Rows * Columns - 1)
             PROVE  console.mem[n].char # Stray
  BY Zenon DEF NoStrayCharacters, Screen
<1>1. n \in Cells
  BY ScreenInMemory
<1> QED BY <1>1 DEF ShownInv, Clean

\* No message makes the panic show what its buffer held before, for every message
\* that shows numbers, every size of the buffer, and wherever the panic broke in:
\* the end of the last number ends the text, although what follows the number is
\* written over its last digit (stdio.cpp:9-69, exception.cpp:23-124,
\* panic.cpp:34-39).
THEOREM NothingStray == Spec => []NoStrayCharacters
BY InitShown, NextShown, ScreenIsClean, PTL DEF Spec
=============================================================================
