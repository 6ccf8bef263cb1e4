--------------------------- MODULE MCGreeterSystem ---------------------------
(***************************************************************************)
(* Instances of GreeterSystem for TLC.                                     *)
(***************************************************************************)
EXTENDS GreeterSystem

CONSTANTS alice, bob, sway

=============================================================================
