------------------------------- MODULE MCNotify -------------------------------
(***************************************************************************)
(* An instance of Notify for TLC.                                          *)
(***************************************************************************)
EXTENDS Notify

=============================================================================
