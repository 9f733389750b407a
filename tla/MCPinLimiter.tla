---- MODULE MCPinLimiter ----
(* Symmetry for the pin limiter: it tells neither connections nor keys apart.  *)
EXTENDS PinLimiter, TLC

Interchangeable == Permutations(Task) \cup Permutations(Key)
====
