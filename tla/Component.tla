------------------------------ MODULE Component ------------------------------
(***************************************************************************)
(* Of several components that run by themselves, the one that is run.      *)
(***************************************************************************)
CONSTANT Kinds    \* the components that may be

VARIABLE component

Is(name) == component = name
=============================================================================
