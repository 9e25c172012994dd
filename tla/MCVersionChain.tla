--------------------------- MODULE MCVersionChain ---------------------------
(***************************************************************************)
(* Instances of VersionChain for TLC.                                      *)
(***************************************************************************)
EXTENDS VersionChain

=============================================================================
