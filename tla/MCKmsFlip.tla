----------------------------- MODULE MCKmsFlip ------------------------------
(* Two screens, independent or one the clone of the other, for TLC. *)
EXTENDS KmsFlip
=============================================================================
