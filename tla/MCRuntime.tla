------------------------------- MODULE MCRuntime -------------------------------
(***************************************************************************)
(* Two constructors between the empty entries that mark the ends of the    *)
(* initializer table, and more registrations than the table has places.    *)
(***************************************************************************)
EXTENDS Runtime

MCInitializers == <<FALSE, TRUE, TRUE, FALSE>>
=============================================================================
