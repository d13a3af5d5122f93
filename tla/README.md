# A specification of the boot loaders and the kernel

This directory holds TLA+ modules for the 32-bit operating system in `src/`: a
two-stage FAT12 boot loader in assembly (`SysBoot/`) and a small C++ kernel
(`SysCore/`) with a hardware layer, a physical and a virtual memory manager.
TLC checks the modules on small machines, and TLAPS proves theorems about them
for every value of the constants. Paths below are relative to `src/`.

Contents: 1 the system, 2 the modules, 3 the runs and their bounds, 4 fairness,
5 where code and comments disagree, 6 what is proved, 7 what is not modelled,
8 the plan.

## 1. The system

A PC starts in `SysBoot/Stage1/boot1.asm`, which loads the second stage from a
floppy disk and jumps to it. `SysBoot/Stage2/Stage2.asm` sets up a descriptor
table, the A20 gate and the BIOS memory map, loads `KRNL32.EXE`, enters
protected mode, turns on paging, copies the kernel and calls its entry point.
`kernel_entry` runs the constructors and `main()`, which brings up the hardware
layer, sets the exception vectors, and brings up the two memory managers. There
are no processes. What runs concurrently is the CPU's code, the timer's
interrupt handler, and the devices that raise requests.

| part | state | operations | what makes it correct | what is hard |
|---|---|---|---|---|
| physical memory manager, `SysCore/Kernel/mmngr_phys.cpp` | bitmap of 4 KB blocks, number of blocks, counter of used blocks | init, init/deinit region, allocate and free a block or a run | a block has one holder; marked blocks are those reserved or held; the counter follows the bitmap | 32-bit arithmetic that wraps, partial words, off-by-ones, long call sequences |
| memory set-up, `SysCore/Kernel/main.cpp:60-101` | copy of the memory map, loop counter, end of memory | scan, init, walk, deinit | available memory ends up free; the bitmap is large enough | unaligned, overlapping, high regions |
| virtual memory manager, `SysCore/Kernel/mmngr_virtual.cpp`, `vmmngr_pte.cpp`, `vmmngr_pde.cpp` | directories and tables in allocated frames, `_cur_directory`, `_cur_pdbr`, CR3 | initialize, map, allocate and free a page, switch directory | frames are used once; directories name tables; nothing is lost | three allocations, each of which may fail; stale addresses in freed entries |
| interrupt set-up and timer, `SysCore/Hal/` | IDT, the two 8259s, the interrupt flag, `_pit_ticks` | `hal_initialize`, `setvect`, the timer's handler, `i86_pit_set_tickcount`, `interruptdone` | a request always finds its handler; a serviced request is ended; no tick is lost | requests between any two steps, half-written vectors, the order of set-up |
| exceptions, `SysCore/Kernel/exception.cpp`, `panic.cpp` | none | eighteen handlers that show a message and stop the machine | a fault ends in its handler; the panic screen is the panic's alone | faults inside the timer's handler and in the middle of other output |
| second boot loader, `SysBoot/Stage2/` | the loaded sectors, the FAT in memory, registers, the stack | read root, find file, read FAT, follow the chain, copy, test, jump | the kernel that runs is the file; memory below the image is kept; the boot ends | read errors and retries, twelve-bit entries across sectors, buffers that grow into each other |
| first boot loader, `SysBoot/Stage1/boot1.asm` | as above | as above, for the second stage | as above | a drive reset between attempts |
| A20 gate, `SysBoot/Stage2/A20.inc` | the keyboard controller's buffers and output port | read and write the port | each byte is written when the buffer is empty; only the A20 bit changes | waits without a bound, keys that come in between |
| BIOS memory map, `SysBoot/Stage2/Memory.inc` | buffer, number of entries | `int 15h` until it ends | the count is that of the entries stored | two ways to end, empty entries |
| descriptor tables and chips, `SysCore/Hal/gdt.cpp`, `idt.cpp`, `pic.cpp`, `pit.cpp` | packed descriptors, the chips' registers | install, initialise, start a counter | what was stored is what the processor and the chips read | an index one past the end, bytes in the order the chip expects |
| console and text, `DebugDisplay.cpp`, `Lib/stdio.cpp`, `Lib/string.cpp` | cursor, colour, video memory | put, print, clear, format | writes stay in video memory; nothing shown is lost; numbers read back | the ends of lines, the least integer, a panic between two characters |
| C++ runtime, `Lib/cstd.cpp`, `Kernel/entry.cpp` | table of exit routines | constructors, `atexit`, `Exit` | routines run once, in reverse | the table's limit, a second exit |

How the parts interact: the second stage hands the kernel the memory map at
0x1000 and the paging structures of `Paging.inc`. `main()` calls the hardware
layer, then the physical manager with the map, then the virtual manager. The
virtual manager calls `pmmngr_alloc_block` and `pmmngr_free_block` and nothing
else of the physical one. The timer's handler shares only `_pit_ticks` and the
controllers with the rest. `PROJECT.json` lists the hazards line by line, with
the property that covers each.

## 2. The modules

```
PhysMem  <--  MemoryBoot  <--  FrameClients  ==implements==>  BlockAllocator
                   ^
                   +---------  VirtMem
Interrupts
Descriptors  <--  Hal
Text  <--  Console  <--  Output
Runtime  ==implements==>  ExitStack
Fat12, Progress  <--  Stage2
Fat12  <--  Boot1  <--+     (with Progress)
              A20  <--+--  Loader
        MemoryMap  <--+
```

An arrow is EXTENDS. The modules whose names start with MC only give the
constants their values (Machines holds the machines that MCBoot, MCClients and
MCVirt share, Floppies makes the disks of MCStage2 and MCLoader).

**PhysMem** offers the functions of `mmngr_phys.cpp` as actions, one per
function, named as in the code. It has no next-state relation: its clients say
who calls what. The bitmap is the set of the numbers of its 1 bits, *including
bits past its end*, because the code can reach them. `mmap_first_free_block`
models the loop over words and the early return as the code parses it
(`i << (5 + j)`, with the shift count modulo the word size as x86 has it), as
the least bit at which the loop stops. All arithmetic of `uint32_t` is modulo
`UINT32`.

**MemoryBoot** is `main()` from the scan to `pmmngr_deinit_region`, one action
per loop iteration or call. Inputs: any memory map, any `kernelSize` (it is
read from a register other calls may have changed), any content of the memory
under the bitmap.

**FrameClients** lets kernel code call the allocator in any order after the
boot. Clients keep what they get, and free each pointer once with the size they
asked for. `held` is what they hold; `started` is a history variable with the
bitmap at their start.

**BlockAllocator** is what a client may rely on, without a data structure: it
lends runs of blocks that exist and are not lent, and takes them back.

**VirtMem** is `vmmngr_initialize`, with its early returns, and then
`vmmngr_map_page`, `vmmngr_alloc_page`, `vmmngr_free_page` and
`vmmngr_switch_directory` in any order, over the same PhysMem. Entries are the
numbers the code keeps. `lowmem` is the memory `vmmngr_map_page` writes to when
it takes an entry's flags for an address. Callers own the entries they pass to
the page functions (not those of the two tables that map the kernel), and free
present entries only; the code's own callers are none, so this is the contract
a caller has to keep. It has a second part: `vmmngr_map_page` and code that makes a
directory need a current one (`cur_directory # 0`). The code does not check; after
an initialisation that gave up, its directory is a null pointer
(`mmngr_virtual.cpp:76-78`), and such calls are left out. The page functions may be
called then.

**Interrupts** is the machine from `hal_initialize` to `main()`'s final `hlt`:
the position of `main()` in the order of its steps, the IDT with each vector in
two halves, the controllers' request, service and mask registers with their
priorities and the non-specific end of interrupt, and the timer's handler
statement by statement. Devices may raise requests at any time, code may fault
at any time. `main()`'s long part with interrupts on is one step, "memory",
during which kernel code may call `i86_pit_set_tickcount`.

**Descriptors** is what the kernel stores for the processor and the timer, and
what those make of it: the parts a segment's base and limit and a gate's
address are split into, and the divisor with its two bytes. Addresses are
numbers of eight digits. **Hal** is `hal_initialize` as the list of its
statements, down to each byte written to a port, with the two 8259s and the
8253 as machines that take the bytes in the order they expect; then kernel code
that calls `setvect`, `i86_pit_start_counter` and `geninterrupt`, with
interrupts between any two statements. `i86_install_ir` is five of them, one store
to the gate each (`idt.cpp:83-87`), in the order of the source, which a compiler
need not keep: `stored` counts them, and an interrupt may go through the gate
between any two. Hal looks at the set-up more closely than Interrupts does, and
leaves service and priorities to it.

**Text** has the conversions: `itoa`, `itoa_s`, the formats of `DebugPrintf`
and `vsprintf` with the places it writes in its buffer. **Console** has the
functions of `DebugDisplay.cpp` as operators on cursor, colour and video memory.
**Output** is who calls them: all of `main()`'s messages, up to the one about the
blocks (`main.cpp:27-104`), one call per step, with the arguments the code gives:
the halves of an entry's 64-bit numbers next to each other, the total computed
from the low halves, and any counts the manager may return (the counter of
used blocks wraps below 0 where `pmmngr_init_region` counts a block twice). It also
has the default handler or a panic that breaks in between any two of them. A panic is two
actions, the screen it prepares (`kernel_panic`) and its message (`ShowMessage`);
the history variable `alone` makes a panic's calls on an untouched console.

**Runtime** is `kernel_entry` around `main()`: `_atexit_init`, `_initterm`,
`atexit` and `Exit`, where constructors, `main()` and exit routines may register
further routines at any time. **ExitStack** is what they may rely on: routines
are owed in reverse order, each runs once, and none is owed at the halt.

**Fat12** is the arithmetic both boot loaders share: sector and cluster
numbers, LBA to CHS, and the twelve bits of an entry. It also says what a disk
is: a table, a file's place in the directory, and `file`, the clusters that the
table links for it, so that a property can speak of the n-th cluster of a file.
**Stage2** is the loader
from `LoadRoot` to the jump into the kernel. Memory is counted in cells of one
sector; a cell holds the number of the sector read into it. Each read may fail
any number of times, up to the five attempts of `ReadSectors`. The FAT is read
back from the memory it was loaded to, so that an image that grows into it is
seen: words from an overwritten cell are arbitrary members of `StrayWords`.

**Boot1** is the first stage in the same terms, with a drive that must be reset
after an error and resets that fail themselves. **A20** is the handshake of
`EnableA20_KKbrd_Out` between three actors: the processor, the keyboard
controller, and whoever presses keys. **MemoryMap** is `BiosMemoryMap` against
a BIOS that ends its list in either of two ways. **Loader** composes the three
through memory: the map's buffer and its count lie where the second stage was
loaded to. **Progress** says when a tuple of numbers falls: the first that changes
gets less. It models no code; Stage2 and Loader measure with it (`Left`) what they
have left to do.

Definitions preceded by `Mutant:` are not part of the specification: each is a
plausible wrong version of the definition that follows it, used to see that a
property notices it.

## 3. The runs

| run | distinct states and instances | what it shows |
|---|---|---|
| `memory_boot` | about 47,000: all maps of two regions out of 45, and four machines | `RegionsReleased`: memory that is available is free after the walk, wherever the regions start and end. `WritesInsideMap`: a walk never clears a bit past the one behind the last block, although the bitmap is sized by a wrapping sum. |
| `frame_clients` | about 6,000: four machines, at most 3 pointers held, runs of 0 to 3 blocks | `LentOnce`: what is held exists, is marked and has one holder. `Conservation`: marked = reserved + held. `CountTracksMap`: the counter changes as the bitmap does, modulo `UINT32`. `ImplementsAllocator`: the refinement of BlockAllocator. |
| `virt_mem` | about 31,000: six machines, three of them with hardly any free frames | `FramesAreOwned`: frames of structures and pages are marked and used once. `DirectoriesNameTables`: a walk ends at a table. `NoFrameLost`: no frame leaks, but for the tables of an initialisation that gives up. |
| `interrupts` | about 17,000 | `RequestsFindTheirHandlers`, `FaultsReachTheirHandlers`: no interrupt meets a wrong, missing or half-written vector. `EndedBeforeReturn`: the timer's handler leaves nothing in service. `NoTickLost`: count, interrupts and handler agree. `MainFinishes`: the timer alone cannot keep `main()` from its end. |
| `hal` | about 114,000 | `EnabledWhenReady`: interrupts are not on before both controllers have had all their words. `SegmentsAgree`: the segment registers hold what the table in force says. `CountersAsAsked`: a counter runs at the rate it was given last. `InterruptsArrive`: each vector leads to the handler it was given last, whatever was set before or next to it. One request goes astray: that of a line between the first two stores to its own gate, and it does exactly when the old and the new address differ in their high halves. |
| `stage2` | about 124,000 | `KernelIsTheFile`: a kernel that runs is the whole file in order. `LowMemoryKept`: nothing below the image is written. `BootShortens`: each step leaves less to do, retries included. `BootEnds`. |
| `loader` | about 61,000: ten disks, all memory maps of up to four entries | `GivesUpAfterFive`: five failures end the boot, and not fewer. `FoundAndFits`: a file that fits is found and never loaded over the code. `OnlyA20Changes`, `NothingWrittenOver`: the handshake. `MapIsBios`: the kernel gets the entries with a length, in order. `Stage2IsTheFile`: what runs is the file, and the map is not written over a short one. `NoEndlessWait`: whatever key came, the processor or the keyboard controller can go on. `LoadersShorten`: each step leaves less to do, on an endless chain too. `LoaderEnds`. |
| `output` | about 8,300 | `PanicScreenIsItsOwn`: a panic's screen does not depend on what it broke into. `NoStrayCharacters`: nor on what its buffer held. `NumbersReadBack`: the numbers on the screen are those printed: the total, each start and length whose high half is 0, the blocks and the free blocks, and the used blocks if their line is not too long. `NothingOverwritten`: `main()` does not print over its own output, in any of its messages. |
| `runtime` | about 1,000 | `RunsInReverse`: the refinement of ExitStack. |

`virt_mem`, `stage2`, `output` and `runtime` also check a type invariant, of which
that of `virt_mem` includes the types of PhysMem and MemoryBoot, that of `output`
keeps the cursor in the video memory, and that of `runtime` the pointer in its
table. The types of MemoryBoot, FrameClients and Interrupts are
theorems only (section 6). The other three runs each show one disagreement (section
5).

**Bounds of the memory machines.** The arithmetic is scaled, not changed:
`UINT32 = 65536`, so memory is sixteen blocks of the real 4096 bytes;
`WordBits = 4` with `LogWord = 2`; `memset` fills `ByteBits = 4` at a time of
which the pattern sets `FillBits = 2`; `KERNEL_BASE = 16384`. The bitmap then
has up to four words, a partial last word and a partial last byte. A scaled
shift is modulo the word size as the real one, and the assumption of PhysMem
states what the argument needs of the numbers. The maps of `Machines` have
regions that share a block, start or end inside one, end at the end of 32 bits,
lie above it, have a type that is rewritten or type 0, and fill or half fill
the last word. `MCBoot` adds every pair of regions with five starts, three
lengths and three types. Three held pointers are enough for the first fit to
find holes before, between and after runs.

**virt_mem**: tables of two entries, directories of three, one entry for the
kernel, at most two directories (`MaxDirectories`). Machines with many, three,
two and one free block, and a free block 0, whose address is NULL, make each of
the three allocations of `vmmngr_initialize` fail.

**interrupts**: lines 0, 1 and 8, so that both controllers, a higher and a
lower priority, and a device without a handler occur; the eighteen vectors that
`main()` really sets; a tick counter of two bits, so that it wraps, set to 0 or
3 by kernel code.

**hal**: addresses of eight digits of base 4, so that a base in three parts and
a handler in two are split as the real ones; 48 gates, with vectors inside the
table, its last, the one past it, and one beyond that; a null handler, one that
shares its high half with the default handler and one that does not, so that a
gate that is partly stored holds a right address or a mixed one; rates 0,
just below and at the least that fits (18, 19), one in the middle, and 65535 and
65536 at the cut to sixteen bits; lines 0, 1 and 15; three masks a BIOS may have
left. The chips' words and the divisor have their real widths.

**stage2**: sectors of six bytes, so that an entry straddles a sector; six heads,
so that the track of every sector number fits in its byte as with the real
geometry; a FAT of twelve entries; every file of one to three clusters, wherever they lie, and a
file that just fits, one with an end mark below 0xff8, one with a bad-cluster
mark, one too long, a circular chain, and a disk without the file. A load is
followed for `MaxClusters = 8` clusters, which is past the point where the
image has wrapped in its segment of 13 cells.

**loader**: sectors of 64 bytes, so that the boot sector counts for one
entry of the directory's search (for fifteen in the source) and the last of four
is never found; a FAT of two sectors with an
entry that straddles them; room for an image of four sectors (59 in the
source); disks with chains that go forward, go back and lead to themselves, a
file that just fits, one too long, a bad-cluster mark, and no file. The map's
buffer and the count lie in the image's third and fourth sector, as the real ones
lie in its sixth and fourteenth, and a map may have as many entries as reach the
place of the count. The port has three bits: A20, the one that holds the
processor's reset, and another.

**output**: a screen of fourteen columns and sixteen rows, seventeen cleared and
nineteen in memory (80, 25, 30, and 204 in 32 KB); integers of eight bits, and a
"kilobyte" of two bytes. Memory maps of no entry, one with the greatest total, two
with numbers whose highest bit is set and a type that runs over its line's end, and
two with high halves that are not 0 and an end that wraps to 0. Blocks of which the
first line of the last message is full, one character too long, and short; in
the last case the counter of the used ones has wrapped below 0. A buffer of twelve characters that held zeros or a
stray character. Texts as the real ones are shaped: a title one character longer
than a line, a text that fills its line and then ends it, a format with pairs of
numbers, one that begins with a line feed, and panic messages that end with a
number and with one character after a number, which are the two shapes of the
eighteen.

**runtime**: a table of three places, six calls of `atexit`, a counter modulo
eight, two constructors between empty marks.

`CHECK_DEADLOCK FALSE` is in the runs of MCBoot (the modelled part of `main()`
ends), MCVirt (memory may be exhausted in a machine whose initialisation gave
up), MCStage2 and MCLoader (the loaders end in the next program, in the BIOS or
in an error message), MCOutput and MCRuntime (the machine halts) and MCHal (a
handler that does not return). `frame_clients` and `interrupts` check deadlock.

## 4. Fairness

- `Stage2`: `WF(Next)`. The loader is the only code, and BIOS calls return.
  Whether a read fails is not fair: five failures end the boot.
- `Loader`: `WF(Code)`, for the same reason, and `WF(A20Hardware)`: the keyboard
  controller takes what it is sent. Nobody has to press a key, neither the one
  that the first stage waits for nor any other.
- `Interrupts`: `WF(HandlerStep)`, as the CPU does not stop in a handler;
  `SF` of `main()`'s step and of a started `i86_pit_set_tickcount`, since the
  timer's period (10 ms) is long compared with its handler, so that the CPU is
  back in the interrupted code infinitely often and gets on there. Nothing
  makes a device raise a request, and nothing makes code fault.
- `MemoryBoot`, `FrameClients`, `VirtMem`, `Hal`, `Output`, `Runtime`: none;
  only safety is claimed.

## 5. Where code and comments disagree

Each run checks what a comment says and has a counterexample.

| run | line | the code |
|---|---|---|
| `kernel_frames` | `mmngr_phys.cpp:126`, `main.cpp:101` | `pmmngr_deinit_region` clears the bits it should set, and `main()` swaps its arguments: the kernel's blocks are not reserved |
| `map_page` | `mmngr_virtual.cpp:97` | the table pointer is the entry's low ten bits: the entry is written to the first bytes of memory |
| `kernel_mapping` | `mmngr_virtual.cpp:139` | the new directory maps 3 GB to 0x100000, the boot loader had it at 0x10000, where the kernel is |

Reading the source for the models showed more, for which no run is kept. All of
it is in the models as the code has it, unless section 7 names it.

| line | the code |
|---|---|
| `mmngr_phys.cpp:46` | `+` binds tighter than `<<`: the search gives up although a block is free |
| `mmngr_phys.cpp:107` | fills the bitmap with 0x0f, not 0xff, so half of the blocks are free at once; the last partial byte keeps old memory |
| `mmngr_phys.cpp:114` | the loop runs once more than the region has blocks and releases the neighbour's first block |
| `mmngr_phys.cpp:116` | counts blocks that were free already, so the number of free blocks is not that of clear bits after the boot |
| `mmngr_virtual.cpp:32` | `vmmngr_switch_directory(dir)` loads `_cur_pdbr`, which only `vmmngr_initialize` sets, and not `dir` |
| `idt.cpp:73`, `gdt.cpp:66` | `i > I86_MAX_INTERRUPTS` and `i > MAX_DESCRIPTOR` let the index one past the table pass |
| `idt.cpp:83-84` | a gate's address is stored in two halves with interrupts on: a request of an unmasked line in between enters a mixed address; `main()` itself sets only vectors of exceptions then |
| `pit.cpp:82` | `i86_pit_set_tickcount` returns the new count where its comment says the previous one |
| `pit.cpp:92` | a rate that is a multiple of 65536 divides by zero, one below 19 does not fit in the divisor |
| `DebugDisplay.cpp:29-33` | the character that meets the end of a line is dropped with it |
| `main.cpp:81` | `0x%x%x` puts the low half behind the high one without its zeros: 1 and 0 read 0x10, as 0 and 16 do |
| `main.cpp:103` | the line has 70 fixed characters: with more than ten digits in its two counts, one of the used blocks meets the end of the line and is lost |
| `DebugDisplay.cpp:85-86` | `DebugGotoXY` doubles its coordinates |
| `stdio.cpp:36` | `loc += strlen(s) - 2` puts what follows over the last digit of a number, and nothing ends the text: `0x%x:` with 8 shows none |
| `cstd.cpp:67-69` | the table of exit routines is at 0x5000, "a base address that you will never use for now", which is memory the block allocator lends |
| `entry.cpp:24` | `Exit` is not reached, as `main()` halts; it would leave its counter at 2^32 - 1 |
| `boot1.asm:184` | the search starts in the boot sector, so the last fifteen entries of the root directory are never looked at |
| `A20.inc:22` | a key that comes between `cli` and the keyboard's end is read for the output port's value, and written back to the port |
| `Memory.inc:20` | "Ret : bp = entry count": `popad` restores `bp` |
| `Stage2.asm:96` | the map's buffer (0x1000) and the count (0x2000) lie in the memory the second stage was loaded to |
| `Stage2.asm:166` | "Copy kernel to 1MB" copies to 3 GB, which is mapped to 64 KB |
| `Fat12.inc:151` | `FindFile` returns the number of entries left, not the index |
| `Fat12.inc:180` | the error path of `LoadFile` leaves `ecx` on the stack, and `ret` goes there |

The properties of section 3 hold in spite of these, within what they state: the
early return, for instance, never makes the search *return* a used block or one
past the end, which is part of what the proofs establish. Where a property
would fail for one of these reasons its premise says so: `FoundAndFits` speaks of
files before the last fifteen entries, `OnlyA20Changes` of boots without a key
in that window, `CountersAsAsked` of rates from 19 to 65535, `MapIsBios` and
`Stage2IsTheFile` of maps and files that end before the buffer or the count,
`NumbersReadBack` of high halves that are 0 and of used blocks on a line that has
room. `InterruptsArrive` names the request that a gate stored in part leads astray.

## 6. What is proved

Eight modules hold theorems. MemoryProofs holds what the searches of PhysMem
return and is about its three clients, MemoryBoot, FrameClients and VirtMem.
Fat12Proofs holds what both boot loaders rest on, the lemma that measures do not
fall for ever included, for Stage2Proofs and LoaderProofs. InterruptsProofs, HalProofs, OutputProofs and RuntimeProofs are each
about the module of that name. A theorem `Spec => []P`, of a property `P` of
section 3 or of a module's types, holds for every value of the constants that the
assumptions below allow. Each inductive
invariant was first checked by TLC on the instances of the run.

| theorems | of the property | inductive invariant |
|---|---|---|
| `BootTypeCorrect`, `BootTyped`, `ReleaseStaysInside` | `BootTypeOK`, `WritesInsideMap` | types and `ScanCovers`: the scan's maximum covers every region, so the bitmap does |
| `RegionsAreReleased` | `RegionsReleased` | `RegionsWalked`: each region walked so far is free, but for block 0 |
| `Invariance`, `TypeCorrect`, `LentToOne`, `NothingIsLost`, `CounterFollowsMap`, `Refinement` (FrameClients) | `ClientsTypeOK`, `LentOnce`, `Conservation`, `CountTracksMap`, `ImplementsAllocator` | `Inv`: those and `ScanCovers` |
| `VirtTyped`, `FramesOwned`, `WalksEndAtTables`, `FramesAccounted` | all of `virt_mem`: `TypeOK`, `FramesAreOwned`, `DirectoriesNameTables`, `NoFrameLost` | `VirtInv`: those, `ScanCovers`, `Stages`, `PagesAreLent` |
| `InterruptsTyped`, `RequestsEnd`, `TicksAreCounted`, `RequestsFind`, `FaultsFind` | all safety of `interrupts`: `TypeOK`, `EndedBeforeReturn`, `NoTickLost`, `RequestsFindTheirHandlers`, `FaultsReachTheirHandlers` | `InterruptsInv`: `TypeOK` and the next two, `FlagWhen`, `TablesWhen`, `TrapsWhen` |
| `SegmentsKept`, `ReadyBeforeEnabled`, `CountersGetTheirRates`, `InterruptsGoToTheirHandlers` | all of `hal`: `SegmentsAgree`, `EnabledWhenReady`, `CountersAsAsked`, `InterruptsArrive` | `HalInv`: which statement of which call comes next, what the chips have had by then, and which parts of a gate are stored |
| `TablesAgree`, `BaseReadsBack`, `HandlerReadsBack`, `DivisorCorrect` | facts about values that those of `hal` rest on | none |
| `PanicIsAlone` | `PanicScreenIsItsOwn` | `PanicInv`: what the panic's console and the untouched one share after each of its calls |
| `TypeCorrect`, `PointerFollowsCounter`, `Refinement` (Runtime) | `TypeOK`, `RunsInReverse` | pointer and counter move together |
| `PortSafe`, `HandshakeKept` | `OnlyA20Changes`, `NothingWrittenOver` | `HandInv`: what has been sent at each place of the processor |
| `GivesUpLate` | `GivesUpAfterFive` | `AttemptsInv`: attempts used up are failures |
| `MapIsTold` | `MapIsBios` | `MapInv`: the entries told so far are in order |
| `FileIsFound`, `SecondStageIsTheFile` | `FoundAndFits`, `Stage2IsTheFile` | `ImageInv`: how much of the table, or of the file up to its k-th cluster, is in memory |
| `Stage2Typed`, `LowMemoryIsKept`, `KernelLoaded` | all safety of `stage2`: `TypeOK`, `LowMemoryKept`, `KernelIsTheFile` | `Stage2Inv`: the first two, `Reading`, `Loading`, `Absence` |
| `BootGetsShorter` | `BootShortens` | `Stage2Inv` and `Sized`: no more clusters were loaded than the file has |
| `LoadersGetShorter`, `NoWaitIsEndless` | `LoadersShorten`, `NoEndlessWait` | `HandInv`, `MapInv` and `WaitInv`, `RoomInv`: what each wait waits for has been asked for, and how much of the image's room is used |
| `SectorFound`, `EntryRead` | the arithmetic under `stage2` and `loader` | none |
| `NumbersAreRead` | the numbers under `NumbersReadBack` | none; the least number that would be wrong |
| `NothingStray` | `NoStrayCharacters` | `ShownInv`: the calls still to make and the video memory hold characters of texts only |

`TablesAgree`: the kernel's code and data descriptors mean what the loader's
did. `HandlerReadsBack`: the gate's two halves are the handler's address.
`DivisorCorrect`: for every rate from 19 to 65535. These hold for every width of
a digit, the real one included. `SectorFound`: for every geometry, LBACHS names
the sector it was asked for, as long as the track fits in a byte. `EntryRead`:
for every table, what `LoadFile` extracts is the cluster's entry.

*The argument for the walk over the regions.* That a region is free when
`main()` has released it is `ReleaseCovers`; that it stays free needs that a
later release only clears bits and that the one bit `pmmngr_init_region` sets is
bit 0, which is why `RegionsReleased` leaves block 0 out.

*The argument for the allocator.* An allocation keeps `LentOnce` if the blocks
it takes are unmarked and exist. `FirstFreeRegion` says so of runs. For single
blocks the bound is not in the code's loop, which walks whole words and so
bits past the last block: it follows from the early return. In a partial last
word w, bit 1 always gives up (`GivesUpAtBitOne`), since the shift of w by
`LogWord + 1` is twice the number of the word's first bit, which is more than
`max_blocks`; so only bit 0, which exists, can be returned
(`FirstFreeBlock`). This needs `max_blocks >= WordBits`: with w = 0 the shift
yields 0. `ScanCovers` provides it, from the assumption that some region ends
beyond one word's worth of blocks, and that is why it is part of the
invariant. Freeing keeps `LentOnce` because runs are disjoint, and
`Conservation` because what a client holds was not marked before (its first
conjunct). That all marked blocks are accounted for needs block 0 to be marked:
its address is NULL, and a run that starts there is taken for a failure and
lost; `pmmngr_init_region` marks it, and `pmmngr_deinit_region` may clear it
again, depending on `kernelSize`.

*The argument for the runtime.* Pointer and counter move together, so the
routines owed are the first `cur` places of the table; that they do needs the
counter to be 0 when `_atexit_init` sets the pointer, which is why the invariant
says so of the entry. `Exit`'s last test wraps the counter, so the mapping has
nothing owed once the machine has halted.

*The argument for the handshake.* `OnlyA20Changes` depends on which byte is on
its way: `Pending` says, for each place of the processor, what has been sent and
not taken, `Enabled` and `Expecting` what the controller has made of the
commands so far, and `PortKept` that the byte read is the port's if no key was
in the buffer. With a stale key the processor may read before its request has
been taken, and still waits for the empty buffer before it sends anything more:
`HandshakeKept` needs no premise.

*The argument for the virtual memory manager.* `FramesAreOwned` is not inductive
alone. A frame that an allocation returns must not be in use: a block that was
clear in the bitmap, which belongs to nothing because everything owned is marked.
The address of block 0 is NULL, so a structure or page there would be taken for a
failure; `PagesAreLent` and `Stages` say that none is. `Stages` also says what
`vmmngr_initialize` has made at each place where it may give up: the two tables
it has by then are in nobody's directory, and stay marked. `PagesAreLent` says
that a page's frame was not in use when the manager started, so that freeing it
leaves the marked blocks those of `booted` and of what is left. That an entry's
flags never disturb its frame is `FrameOfEntry` and `EntrySet`: addresses are
multiples of 4096, and the arithmetic of `pt_entry_set_frame` carries into
nothing because the frame ends below `UINT32`.

*The argument for interrupts.* That a request finds its handler is a matter of
order: `FlagWhen` says that interrupts are on, or a handler runs, only between
the `sti` and the `cli` of `main()`, and `TablesWhen` that by then the table is
full, the timer's vector whole and the controllers' bases set. `TrapsWhen` says
that each of `main()`'s vectors is still to be set or whole, which is what
`FaultsReachTheirHandlers` needs, since a half-written one holds a mixture.
`NoTickLost` is inductive because the handler's increment is the only one and
nothing sets the count while the handler runs; the modulus makes the wrap sound.

*The argument for the chips and the gates.* In `Hal` the program counter is the list of
statements that is left of a call. `Stage(k)` says that the list is
`hal_initialize` from its k-th statement on, that the interrupt flag is off, and
for each k what the two 8259s (`PicsAt`) and the counter (`Sent`) have had so
far; `Ready` that the controllers have had all four words and that the list is
empty or the rest of one call: a counter between its mode and its two divisor
bytes (`Counting`), a `setvect`, or a division by zero. `Starting(k)` and `Running`
say it of moments with every gate whole, `Storing` of those between the five stores
to one. `GatesPartly` gives that gate field by field: what is stored is the new
handler's (`PartOf`), the rest is an older one's. Segment and flags are the same
in every gate, so a request may always enter it, and only the address can be mixed:
after the first store it is the new low half behind the old high half, which is the
new address exactly if the high halves are the same. `geninterrupt` never meets
such a gate, as the code that would call it is still storing. A counter's chip takes
bytes in the order low, high, so `CountersAsAsked` needs that it is at the low one
when a call starts (`Programmed`), which no call can leave otherwise.

*The argument for the panic's screen.* Two consoles are `Alike` if cursor, start of
lines, colour and the cleared rows of the video memory agree, and every function
of `DebugDisplay.cpp` keeps two consoles alike (`CalledAlike`), whatever it is
given: what it does depends on these fields only. `kernel_panic` makes them alike
in three calls: `DebugClrScr` the memory, `DebugGotoXY` the cursor, and
`DebugSetColor` the colour. `DebugClrScr` alone would not do, as it puts the
cursor at the start the interrupted code chose. The rows on the screen are among
those that are cleared, which `ConsoleAssumption` says.

*The argument for the first loader's attempts.* A reset may fail as well as a
read, so an attempt may begin with a drive that is not ready and then fails for
that reason alone. `AttemptsInv` counts: the failures so far are at least the
attempts used up, and one more if the drive is not ready now. Without the second
half the step from the last attempt would give only four.

*The argument for the memory map.* `Count(list, n)` is the number of entries with
a length among the first n, that is the place of the next one. It grows by one
with such an entry and never falls, so that a later entry is stored behind those
kept, and over an empty one; the count is stored over the entry in its place and
no other.

*The argument for the loaded files.* Both loaders read the table first and then
one cluster after the other, each place of memory once. `TableAt` and `FileAt`
say of a prefix of each that it is in memory; `Stage2Inv` and `ImageInv` say for
each place of the loader how long that prefix is, and that `cluster` is the
file's cluster behind it. A sector that is read makes the prefix longer by one
(`TableGrown`, `FileGrown`), because `LBACHS` names the sector asked for
(`SectorFound`) and no place is that of two sectors (`OnePlace`); a read that
fails spoils at most the place behind the prefix (`TableKept`, `FileKept`). The
next cluster is the one the table links (`EntryRead`), because the entry's two
bytes lie in the sectors of the table (`EntrySectors`) and what was read of the
file has not reached it: that is where `Fits` is used. The last entry ends the
loop, and the prefix is then the whole file. For the second stage there remains
that the BIOS's entries and their count lie behind the start of their buffer
(`SpoiltAfter`), which needs `MapInv` for the place of an entry.

Stage2's types need more than the prefix, since they hold for every disk, with
files that do not fit and tables that were overwritten: `Reading` says that a
cluster whose entry is looked up is one whose first sector the BIOS has found,
so that its entry lies on the disk and `TwelveBits` yields twelve bits.

`KernelLoaded` has a premise of its own, that a cluster is one sector, as
`bpbSectorPerCluster` has it: `LoadFile` counts clusters, and the copy to the
kernel's place takes the count for sectors (`Stage2.asm:169-189`). With larger
clusters the kernel would be copied in part. The theorems about the first loader
need no such premise.

*The argument for the end of the loaders.* What a loader has left, `Left`, is a
tuple: the stages before its end, then the clusters or the room for them, then the
sectors of the read, then the attempts; for the first loader also the places of the
handshake, the byte the controller has to take, and the rest of the memory map. A
read that fails lowers the attempts, a good one brings them back but lowers the
sectors, and a cluster brings those back but lowers the clusters or the room: in
each step the first number that changes falls (`StepsShorten`). A step only changes
the tuple to one of numbers again if nothing is used up twice, and that is what the
invariants are for: `Sized` for the file's clusters, which needs the chain that
`KernelLoaded` needs, and `RoomInv` for the image's room, which needs no chain and so
holds for one without an end. The lemma `NoEndlessFall`, which is about tuples of
numbers and not about the code, says that no tuple falls for ever: by
the well-founded order of the naturals each number in turn would have to stop
changing, from the first to the last (`FirstFalls`). Together they say that there is
no boot of endlessly many steps, other than of keys that nobody waits for. That one does not stop in the middle either is
`NoWaitIsEndless` for the handshake: the waits are the only places where the
processor needs another to go on. What `BootEnds` and `LoaderEnds` add is that a step
that can be taken is, which is fairness and ENABLED.

*The argument for the numbers.* `itoa_s` makes the digits of n from those of n
divided by the base. `DigitsRead` says that they read back as n: if not, there is a
least such n, the digits of its quotient are right, and one more digit makes them
n's. The recursive functions that the code and the reading are modelled by exist as
such (`DigitsExist`, `ValueExists`), by the same argument. That the least int is read
back too rests on its negation being itself modulo `UINT32`, which `itoa` takes for
the positive number (`NumbersAreRead`).

*The argument for what is shown.* What a panic shows was written by `vsprintf` into a
buffer nobody cleared, and a `%d` or `%x` in it by a `strcpy` that ends the text
behind the digits. `PrintedSoFar` and `FormattedSoFar` say what `DebugPrintf` and
`vsprintf` have made of the first n places of a format, and are shown by induction
over n: the k-th conversion takes the k-th argument (`ConversionCounts`), which
`ArgsFit` says is there and of its type, and each place leaves only characters of
texts before the end of what is written. A number's `strcpy` leaves its end behind
the last digit (`NumberLeaves`), and one character that follows overwrites a digit
and not that end (`FormattedCharacter`); with two the text would run on into what the
stack held, which is why `ShowsNumbers` speaks of the message's last two places.
`MessageEnds` and `TextEnds` conclude that no stray mark is among the characters up
to the end. The rest of `ShownInv` is about the video memory: each function of
`DebugDisplay.cpp` writes characters it was given, or blanks, or moves what was
there.

*Assumptions.* `PhysMemAssumption`: the word size, its logarithm and the
integer's modulus fit together. `MemoryBootAssumption`: entries are records of
naturals, some region ends beyond one word of blocks (a PC has 640 KB), and
available memory does not run across 4 GB. `FrameClientsAssumption`: request
sizes are naturals. `VirtMemAssumption`: the sizes of tables and directories are
positive, the kernel's entry is not a directory's first, and the kernel's memory,
as much as one table maps, ends within 32 bits. `InterruptsAssumption`: devices
are on lines other than the one between the controllers, and `main()` sets
vectors of exceptions. `HalAssumption`: the table of vectors has at least the
controllers' 48 and at most 256 gates (I86_MAX_INTERRUPTS is 256, and
`geninterrupt` cuts its argument to a byte), the kernel's two handlers are
different and not null, and values fit in their bytes.
`DescriptorsAssumption`: a digit has at least two values.
`RuntimeAssumption`: the table is smaller than the counter's range.
`A20Assumption`: the A20 bit is one of the port's. `MemoryMapAssumption`: no
list is longer than the buffer, and the count lies in it. `Fat12Assumption`:
geometry values are positive bytes, and the directory takes at least a sector.
`Stage2Assumption` and `Boot1Assumption`: the disks are FAT12 disks (`DiskOK`: the
table links the file's clusters, whose entries are in the table and whose sectors
are on the disk; tables of other chains may hold anything), the tracks of all
sectors fit in a byte and their numbers in a word (as those of 9216 sectors do in
the real geometry), table, directory and image lie in memory in the order of
`common.inc` and `boot1.asm`, and a cluster the BIOS finds has an entry in the
table, which has 3072 of them for 2848 clusters. `LoaderAssumption`: the count is stored in
the place of the `CountSlot`-th entry of the buffer, inside the image's room.
`ConsoleAssumption`: the screen's rows are among those cleared, and these in the
video memory. `OutputAssumption`: the default handler's row is on the
upper half of the screen, a kilobyte is more than a byte, the blocks and the used
blocks are signed integers, and the mark for what the
stack held is not the end of a text. `TextsAssumption`: no text, digit or type of
memory holds that mark, each format has arguments of its conversions' types, and the
messages of the exception handlers show numbers only, the last at the message's end
or before its last character, as those of `exception.cpp` do.
TLC evaluates each of them in the runs.

*Only model-checked:* every liveness property (`MainFinishes`, `BootEnds`,
`LoaderEnds`), and of Output `TypeOK`, `NumbersReadBack` and
`NothingOverwritten`. Liveness under fairness and ENABLED are out of the prover's
reach; of `BootEnds` and `LoaderEnds` the rest is proved. The three properties of
Output depend on how long the texts are, and hold of the ones the kernel has: where
the cursor gets with a text is a fold over its characters. The library's induction
theorems are out of reach too, since they take an operator; where induction was needed
it is done by the least counterexample in a set (`Induction` in OutputProofs).

## 7. What is not modelled

- Output through the BIOS in the boot loaders (`stdio.inc`, `Puts16`), and the
  instructions of `InstallGDT`; the table it loads is in Descriptors.
- What nothing calls: sound, `i86_pit_read_data`, `hal_shutdown`,
  `BiosGetMemorySize64MB`.
- `operator new` and `delete`, `_purecall` and the floating-point helpers, which
  keep no state; headers that only declare types and constants.
- The TLB, and with it what `vmmngr_flush_TLB` does and what
  `vmmngr_map_page` leaves out; the contents of memory that is lent, the bitmap
  and the table of exit routines in it included.
- `vmmngr_map_page` without a current directory, after an initialisation that
  gave up (section 2).
- `strMemoryTypes[type - 1]` with type 0 (`main.cpp:84`), which reads before the
  table; `ImageSize`, one byte that is written and read as four
  (`common.inc:15`).

The BIOS, the chips, the processor's interrupt logic and the clients of the
memory managers are modelled from how the code uses them, and marked external
in `PROJECT.json`.

## 8. The plan

Done, in this order: PhysMem and MemoryBoot; FrameClients and BlockAllocator
with the proofs; VirtMem; Interrupts; Fat12 and Stage2; Boot1, A20, MemoryMap
and Loader; Text, Console and Output; Runtime and ExitStack; Descriptors and
Hal; the proofs of Runtime, Descriptors and the handshake; the proofs of
MemoryBoot's walk, of all safety of VirtMem, Interrupts and Hal, and of all
safety of the two boot loaders, with the disk's file given as the sequence of
clusters that its table links; the proof of the panic's screen; the measures of the
loaders, the proof that they fall and that no wait is endless; the proof that numbers
read back; the proof that nothing stray is shown.

Next, proofs:

1. Of Output, that `main()`'s cursor stays in the video memory, as a bound on the
   lines its calls can begin.
2. Where on the screen a number is, so that `NumbersReadBack` follows from
   `NumbersAreRead` for every total.
