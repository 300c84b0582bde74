------------------------------- MODULE MCNic -------------------------------
(* Small instances of Nic.                                                 *)
EXTENDS Nic
=============================================================================
