------------------------------ MODULE MCFields ------------------------------
(* Instances of the line parser for TLC. *)
EXTENDS FieldsProperties

=============================================================================
