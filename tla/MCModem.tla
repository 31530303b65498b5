------------------------------ MODULE MCModem ------------------------------
(* Instances of the modem for TLC. *)
EXTENDS ModemProperties, TLC

\* Sockets and messages are interchangeable in safety runs.
Symmetry == Permutations(Socket) \cup Permutations(Message)

=============================================================================
