------------------------------ MODULE MCSimCom ------------------------------
(* Instances of the SimCom driver for TLC. *)
EXTENDS SimComProperties

Symmetry == Permutations(Socket)

=============================================================================
