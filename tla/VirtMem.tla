-------------------------------- MODULE VirtMem --------------------------------
(***************************************************************************)
(* The virtual memory manager, SysCore/Kernel/mmngr_virtual.cpp, on top of *)
(* the physical one: vmmngr_initialize, which main() calls when the        *)
(* regions are set up, and then the functions the kernel's code may call   *)
(* in any order: vmmngr_map_page, vmmngr_alloc_page, vmmngr_free_page and  *)
(* vmmngr_switch_directory.                                                *)
(*                                                                         *)
(* A paging structure is a frame; its entries are the 32-bit numbers the   *)
(* code keeps in them, a frame's address plus the flags.  The structures   *)
(* of the boot loader (SysBoot/Stage2/Paging.inc) are in force at first.   *)
(***************************************************************************)
EXTENDS MemoryBoot

CONSTANTS
  PAGE_TABLE_SIZE,      \* entries of a page table (1024)
  PAGE_DIRECTORY_SIZE,  \* entries of a page directory (1024)
  KERNEL_INDEX,         \* PAGE_DIRECTORY_INDEX(0xC0000000), 768
  BOOT_DIR,             \* PAGE_DIR, the boot loader's directory
  BOOT_KERNEL,          \* what the boot loader maps 0xC0000000 to (0x10000)
  MappedFrames,         \* the physical addresses passed to vmmngr_map_page
  MaxDirectories        \* bound: how many directories the kernel makes

ASSUME VirtMemAssumption ==
  /\ PAGE_TABLE_SIZE \in Nat \ {0}
  /\ PAGE_DIRECTORY_SIZE \in Nat /\ KERNEL_INDEX \in 1..(PAGE_DIRECTORY_SIZE - 1)
  /\ BOOT_DIR \in Nat /\ BOOT_KERNEL \in Nat /\ MappedFrames \subseteq Nat
  /\ KERNEL_BASE + PAGE_TABLE_SIZE * PMMNGR_BLOCK_SIZE <= UINT32

I86_PTE_PRESENT == 1
I86_PTE_WRITABLE == 2

VARIABLES
  vpc,            \* where vmmngr_initialize is
  table, table2,  \* the two tables it allocates
  dirs,           \* the kernel's page directories, by address
  tables,         \* its page tables, by address
  lowmem,         \* frames written to words at the start of physical memory
  cur_directory,  \* _cur_directory
  cur_pdbr,       \* _cur_pdbr
  cr3,            \* the CPU's register
  booted          \* history: the bitmap when vmmngr_initialize starts

vmVars == <<vpc, table, table2, dirs, tables, lowmem, cur_directory, cur_pdbr, cr3>>
vars == <<bootVars, vmVars, booted>>

TableSlots == 0..(PAGE_TABLE_SIZE - 1)
DirectorySlots == 0..(PAGE_DIRECTORY_SIZE - 1)

\* f with x sent to v, whether x is in its domain or not.
Put(f, x, v) == [y \in DOMAIN f \cup {x} |-> IF y = x THEN v ELSE f[y]]

pt_entry_is_present(e) == e % 2 = 1
pt_entry_pfn(e) == (e \div PMMNGR_BLOCK_SIZE) * PMMNGR_BLOCK_SIZE

\* Mutant: the old frame is not masked out.
SetFrameUnmasked(e, addr) == e + addr
pt_entry_set_frame(e, addr) == (e % PMMNGR_BLOCK_SIZE) + addr
pt_entry_set_present(e) == IF pt_entry_is_present(e) THEN e ELSE e + I86_PTE_PRESENT

\* Mutant: the entry stays present.
DeletePresentNot(e) == e
pt_entry_delete_present(e) == IF pt_entry_is_present(e) THEN e - I86_PTE_PRESENT ELSE e

\* `*x & 0x3FF', which keeps the low bits.
PAGE_GET_PHYSICAL_ADDRESS(e) == e % 1024

ZeroTable == [j \in TableSlots |-> 0]
ZeroDirectory == [k \in DirectorySlots |-> 0]

VMInit ==
  /\ Init
  /\ vpc = "table"
  /\ table = 0 /\ table2 = 0
  /\ dirs = << >> /\ tables = << >> /\ lowmem = << >>
  /\ cur_directory = 0 /\ cur_pdbr = 0
  /\ cr3 = BOOT_DIR
  /\ booted = {}

Boot == /\ BootNext
        /\ booted' = IF pc' = "running" THEN memory_map' ELSE booted
        /\ UNCHANGED vmVars

\* What pmmngr_alloc_block may return: NULL, or the address of a frame.
Pointers == {0} \cup {f * PMMNGR_BLOCK_SIZE : f \in {BlockFrame} \ {-1}}

-----------------------------------------------------------------------------
(* vmmngr_initialize.  Each early return leaves what was allocated.        *)

InitTable ==
  /\ pc = "running" /\ vpc = "table"
  /\ \E p \in Pointers : pmmngr_alloc_block(p) /\ table' = p
  /\ vpc' = IF table' = 0 THEN "done" ELSE "table2"
  /\ UNCHANGED <<table2, dirs, tables, lowmem, cur_directory, cur_pdbr, cr3>>
  /\ UNCHANGED <<mainVars, booted>>

InitTable2 ==
  /\ pc = "running" /\ vpc = "table2"
  /\ \E p \in Pointers : pmmngr_alloc_block(p) /\ table2' = p
  /\ vpc' = IF table2' = 0 THEN "done" ELSE "fill"
  /\ UNCHANGED <<table, dirs, tables, lowmem, cur_directory, cur_pdbr, cr3>>
  /\ UNCHANGED <<mainVars, booted>>

\* Mutant: the table for 3 GB is not made.
FillFirstTable ==
  /\ pc = "running" /\ vpc = "fill"
  /\ tables' = Put(tables, table,
                   [j \in TableSlots |-> j * PMMNGR_BLOCK_SIZE + I86_PTE_PRESENT])
  /\ vpc' = "dir"
  /\ UNCHANGED <<table, table2, dirs, lowmem, cur_directory, cur_pdbr, cr3>>
  /\ UNCHANGED <<bootVars, booted>>

\* The first 4 MB are mapped to themselves, and 3 GB to the kernel's 1 MB.
FillTables ==
  /\ pc = "running" /\ vpc = "fill"
  /\ tables' = Put(Put(tables, table,
                       [j \in TableSlots |-> j * PMMNGR_BLOCK_SIZE + I86_PTE_PRESENT]),
                   table2,
                   [j \in TableSlots |-> KERNEL_BASE + j * PMMNGR_BLOCK_SIZE
                                           + I86_PTE_PRESENT])
  /\ vpc' = "dir"
  /\ UNCHANGED <<table, table2, dirs, lowmem, cur_directory, cur_pdbr, cr3>>
  /\ UNCHANGED <<bootVars, booted>>

\* What vmmngr_switch_directory does with a directory: CR3 gets _cur_pdbr.
SwitchTo(dir, pdbr) == cur_directory' = dir /\ cr3' = pdbr

InitDirectory ==
  /\ pc = "running" /\ vpc = "dir"
  /\ vpc' = "done"
  /\ \E dir \in Pointers :
       /\ pmmngr_alloc_block(dir)
       /\ IF dir = 0
          THEN UNCHANGED <<dirs, cur_directory, cur_pdbr, cr3>>
          ELSE /\ dirs' = Put(dirs, dir,
                    [ZeroDirectory EXCEPT
                       ![0] = table + I86_PTE_PRESENT + I86_PTE_WRITABLE,
                       ![KERNEL_INDEX] = table2 + I86_PTE_PRESENT + I86_PTE_WRITABLE])
               /\ cur_pdbr' = dir
               /\ SwitchTo(dir, cur_pdbr')
  /\ UNCHANGED <<table, table2, tables, lowmem>>
  /\ UNCHANGED <<mainVars, booted>>

-----------------------------------------------------------------------------
(* The functions the rest of the kernel may call afterwards.               *)

\* An address is a directory index and a table index.  The entry is written
\* through a table pointer made of the directory entry's flags.  That there is a
\* current directory is a precondition on the caller: the code has no check, and
\* after a vmmngr_initialize that gave up it would use a null pointer.
vmmngr_map_page(phys, k, j) ==
  /\ vpc = "done" /\ cur_directory # 0
  /\ LET e == dirs[cur_directory][k]
         WriteThrough(entry) ==
           lowmem' = Put(lowmem, PAGE_GET_PHYSICAL_ADDRESS(entry) + 4 * j, phys)
     IN  \/ /\ pt_entry_is_present(e)
            /\ WriteThrough(e)
            /\ UNCHANGED <<pmmVars, dirs, tables>>
         \/ /\ ~pt_entry_is_present(e)
            /\ \E t \in Pointers :
                 /\ pmmngr_alloc_block(t)
                 /\ IF t = 0 THEN UNCHANGED <<dirs, tables, lowmem>>
                    ELSE LET entry == t + I86_PTE_PRESENT + I86_PTE_WRITABLE
                         IN  /\ tables' = Put(tables, t, ZeroTable)
                             /\ dirs' = [dirs EXCEPT ![cur_directory][k] = entry]
                             /\ WriteThrough(entry)
  /\ UNCHANGED <<mainVars, booted, vpc, table, table2, cur_directory, cur_pdbr, cr3>>

\* The entries that a caller of the two page functions owns: those of tables
\* other than the two that map the kernel.
PageSlots == {<<t, j>> : t \in DOMAIN tables \ {table, table2}, j \in TableSlots}
Pages == {s \in PageSlots : pt_entry_is_present(tables[s[1]][s[2]])}

vmmngr_alloc_page(s) ==
  /\ vpc = "done"
  /\ s \notin Pages
  /\ \E p \in Pointers :
       /\ pmmngr_alloc_block(p)
       /\ tables' = IF p = 0 THEN tables
                    ELSE [tables EXCEPT ![s[1]][s[2]] =
                            pt_entry_set_present(pt_entry_set_frame(@, p))]
  /\ UNCHANGED <<mainVars, booted, vpc, table, table2, dirs, lowmem, cur_directory,
                 cur_pdbr, cr3>>

\* The entry keeps the address of the frame it gives back.
vmmngr_free_page(s) ==
  /\ vpc = "done"
  /\ s \in Pages
  /\ LET p == pt_entry_pfn(tables[s[1]][s[2]])
     IN  IF p # 0 THEN pmmngr_free_block(p) ELSE UNCHANGED pmmVars
  /\ tables' = [tables EXCEPT ![s[1]][s[2]] = pt_entry_delete_present(@)]
  /\ UNCHANGED <<mainVars, booted, vpc, table, table2, dirs, lowmem, cur_directory,
                 cur_pdbr, cr3>>

\* Code that wants an address space of its own makes a directory as
\* vmmngr_initialize does, sharing the entries of the current one (which there
\* has to be, as for vmmngr_map_page).
NewDirectory ==
  /\ vpc = "done" /\ cur_directory # 0
  /\ Cardinality(DOMAIN dirs) < MaxDirectories
  /\ \E dir \in Pointers :
       /\ pmmngr_alloc_block(dir)
       /\ dirs' = IF dir = 0 THEN dirs ELSE Put(dirs, dir, dirs[cur_directory])
  /\ UNCHANGED <<mainVars, booted, vpc, table, table2, tables, lowmem, cur_directory,
                 cur_pdbr, cr3>>

vmmngr_switch_directory(dir) ==
  /\ vpc = "done"
  /\ SwitchTo(dir, cur_pdbr)
  /\ UNCHANGED <<bootVars, booted, vpc, table, table2, dirs, tables, lowmem, cur_pdbr>>

Next ==
  \/ Boot
  \/ InitTable
  \/ InitTable2
  \/ FillTables
  \/ InitDirectory
  \/ \E phys \in MappedFrames, k \in DirectorySlots, j \in TableSlots :
       vmmngr_map_page(phys, k, j)
  \/ \E s \in PageSlots : vmmngr_alloc_page(s) \/ vmmngr_free_page(s)
  \/ NewDirectory
  \/ \E dir \in DOMAIN dirs : vmmngr_switch_directory(dir)

Spec == VMInit /\ [][Next]_vars
-----------------------------------------------------------------------------
(* Properties.                                                             *)

\* The frames that hold paging structures, and those that pages are made of.
Structures == DOMAIN dirs \cup DOMAIN tables \cup ({table, table2} \ {0})
PageFrame(s) == pt_entry_pfn(tables[s[1]][s[2]])
PageFrames == {PageFrame(s) : s \in Pages}
BlocksOf(addresses) == {p \div PMMNGR_BLOCK_SIZE : p \in addresses}

Addresses == {b * PMMNGR_BLOCK_SIZE : b \in 0..(UINT32 \div PMMNGR_BLOCK_SIZE - 1)}

TypeOK ==
  /\ BootTypeOK
  /\ vpc \in {"table", "table2", "fill", "dir", "done"}
  /\ table \in Addresses /\ table2 \in Addresses
  /\ DOMAIN dirs \subseteq Addresses \ {0} /\ DOMAIN tables \subseteq Addresses \ {0}
  /\ \A d \in DOMAIN dirs : dirs[d] \in [DirectorySlots -> 0..(UINT32 - 1)]
  /\ \A t \in DOMAIN tables : tables[t] \in [TableSlots -> 0..(UINT32 - 1)]
  /\ \A a \in DOMAIN lowmem : lowmem[a] \in MappedFrames
  /\ cur_directory \in DOMAIN dirs \cup {0} /\ cur_pdbr \in DOMAIN dirs \cup {0}
  /\ cr3 \in DOMAIN dirs \cup {BOOT_DIR}

\* Paging structures and pages are marked blocks, and no frame is used for two
\* purposes or by two entries: allocation, failure and the frames that freed
\* entries still name never make two of them meet (mmngr_virtual.cpp:51-106).
FramesAreOwned ==
  /\ BlocksOf(Structures \cup PageFrames) \subseteq memory_map
  /\ DOMAIN dirs \cap (DOMAIN tables \cup {table, table2}) = {}
  /\ PageFrames \cap Structures = {}
  /\ \A s, t \in Pages : PageFrame(s) = PageFrame(t) => s = t

\* The tables a directory's entries name are tables the manager made, so that
\* the walk of the CPU and of vmmngr_map_page ends at one of them
\* (mmngr_virtual.cpp:81-94, 161-170).
DirectoriesNameTables ==
  \A d \in DOMAIN dirs : \A k \in DirectorySlots :
    pt_entry_is_present(dirs[d][k]) => pt_entry_pfn(dirs[d][k]) \in DOMAIN tables

\* No frame is lost by mapping, allocating and freeing: a frame that is marked
\* was so before, or holds a structure or a page.  The one exception is a
\* vmmngr_initialize that gives up: the tables it has allocated by then, table
\* and table2, stay marked for good (mmngr_virtual.cpp:51-72, 108-155).
NoFrameLost ==
  pc = "running" /\ 0 \in booted =>
    memory_map = booted \cup BlocksOf(Structures \cup PageFrames)

\* What "Set the Real Physical Address to the page table entry"
\* (mmngr_virtual.cpp:102) says: the entry of the mapped address gets it.
MapPageSetsEntry ==
  [][\A phys \in MappedFrames, k \in DirectorySlots, j \in TableSlots :
       (vmmngr_map_page(phys, k, j) /\ pt_entry_is_present(dirs'[cur_directory][k]))
         => pt_entry_pfn(tables'[pt_entry_pfn(dirs'[cur_directory][k])][j]) = phys]_vars

\* Where the CPU finds page j of the 4 MB at 3 GB.
KernelPage(j) ==
  IF cr3 = BOOT_DIR THEN BOOT_KERNEL + j * PMMNGR_BLOCK_SIZE
  ELSE pt_entry_pfn(tables[pt_entry_pfn(dirs[cr3][KERNEL_INDEX])][j])

\* What "Map 3GB above -> Where the kernel (we are :) ) at"
\* (mmngr_virtual.cpp:138) says: the memory at 3 GB, where the boot loader has
\* put the kernel, is still there when the new directory is in force.
KernelStaysMapped ==
  [][cr3' # cr3 => \A j \in TableSlots : KernelPage(j)' = KernelPage(j)]_vars
=============================================================================
