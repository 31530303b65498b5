-------------------------------- MODULE MCAT --------------------------------
(* Instances of the AT engine for TLC. *)
EXTENDS ATProperties

=============================================================================
