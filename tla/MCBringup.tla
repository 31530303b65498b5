------------------------------ MODULE MCBringup ------------------------------
(* Bring-up of either model with both line options in use, and every fault.  *)
EXTENDS BringupProperties

MCLineOptions == {"flow", "parity"}

=============================================================================
