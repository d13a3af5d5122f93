-------------------------------- MODULE MCVirt --------------------------------
(***************************************************************************)
(* The virtual memory manager on the small machines: paging                *)
(* structures of two and three entries, one of them for the kernel.        *)
(***************************************************************************)
EXTENDS VirtMem, Machines

\* Machines that have three, two and one block for vmmngr_initialize; the last
\* by its counter, which the kernel's five blocks were added to.
MapTiny == << Entry(0, 4096, 1), Entry(4096, 12288, 2) >>
MapScarce == << Entry(0, 1024, 1), Entry(4096, 12288, 2) >>
MapShort == << Entry(0, 8192, 1), Entry(16384, 8192, 1) >>
MCVirtMaps == {MapPC, MapUnaligned, MapFlat, MapTiny, MapScarce, MapShort}
MCMappedFrames == {20480}
=============================================================================
