--------------------------- MODULE MCSecretRotator ---------------------------
(* Instances of SecretRotator for TLC. *)
EXTENDS SecretRotator

\* The clock of b is one unit ahead.
OneAhead == [i \in {"a", "b"} |-> IF i = "b" THEN 1 ELSE 0]
=============================================================================
