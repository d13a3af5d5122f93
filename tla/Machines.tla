------------------------------- MODULE Machines -------------------------------
(***************************************************************************)
(* Small machines for model checking: 64 KB of address space in 4 KB       *)
(* blocks, a bitmap of 4-bit words, a kernel at 16 KB.                     *)
(***************************************************************************)
EXTENDS Integers

Entry(start, size, type) == [start |-> start, size |-> size, type |-> type]

\* A PC: low memory whose last block is shared with a reserved region, memory
\* behind the kernel, and a ROM that ends where 32 bits end.
MapPC == << Entry(0, 10240, 1), Entry(10240, 2048, 2),
            Entry(16384, 24576, 1), Entry(61440, 4096, 2) >>

\* Regions that start and end inside blocks, and a type the kernel rewrites.
MapUnaligned == << Entry(1024, 7168, 1), Entry(8192, 12288, 7),
                   Entry(23552, 22528, 1) >>

\* As many blocks as fill the bitmap's words, and memory above 4 GB.
MapHigh == << Entry(0, 8192, 1), Entry(16384, 16384, 1), Entry(65536, 8192, 1) >>

\* All of memory available, fifteen blocks: the last word is not whole.
MapFlat == << Entry(0, 61440, 1) >>

MCMaps == {MapPC, MapUnaligned, MapHigh, MapFlat}

\* Less than one block of the scaled kernel area, and more.
MCKernelSizes == {2, 20}

\* The memory under the bitmap is all zeros or all ones.
MCGarbage == {{}, 0..20}
=============================================================================
