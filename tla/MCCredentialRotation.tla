------------------------- MODULE MCCredentialRotation -------------------------
(* Instances of CredentialRotation for TLC. *)
EXTENDS CredentialRotation, TLC

Interchangeable == Permutations(Threads)
=============================================================================
