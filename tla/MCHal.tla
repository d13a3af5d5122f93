--------------------------------- MODULE MCHal ---------------------------------
(***************************************************************************)
(* The hardware layer with digits of base 4 -- addresses up to 65535 -- and *)
(* a table of 48 gates; the words for the chips and the timer's divisor    *)
(* have their real widths.                                                 *)
(***************************************************************************)
EXTENDS Hal

\* A null pointer, an address with all its bits set, and one in the same 64 KB,
\* here 256 bytes, as the default handler.
MCHandlers == {0, 4700, 65535}
\* A line's vector, the last of the table, the place behind it and one further.
MCVectors == {33, 47, 48, 49}
MCRates == {0, 18, 19, 1000, 65535, 65536}
MCLines == {0, 1, 15}
MCBiosMasks == {0, 184, 255}
=============================================================================
