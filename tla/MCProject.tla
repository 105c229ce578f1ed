------------------------------- MODULE MCProject -------------------------------
(***************************************************************************)
(* Project, for TLC.                                                       *)
(***************************************************************************)
EXTENDS Project
=============================================================================
