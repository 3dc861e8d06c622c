------------------------------ MODULE MCUbusdTx ------------------------------
(* Small instances of UbusdTx for TLC. *)
EXTENDS UbusdTx

CONSTANT c1

OneClient == {c1}
OneSize == {1}
TwoSizes == {1, 2}
=============================================================================
