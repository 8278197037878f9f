--------------------------- MODULE MCIdempotency ---------------------------
(* Small instances of Idempotency for TLC.                                  *)
EXTENDS Idempotency, TLC

Interchangeable == Permutations(Request) \cup Permutations(Payload)
=============================================================================
