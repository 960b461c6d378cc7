-------------------------- MODULE MCMatrixTransport --------------------------
(* Small instances of MatrixTransport for TLC. *)
EXTENDS MatrixTransport
=============================================================================
