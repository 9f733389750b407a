---- MODULE MCRateLimiter ----
(* Symmetry for the runs of RateLimiterAudit that check no liveness.          *)
EXTENDS RateLimiterAudit, TLC

Interchangeable == Permutations(Task) \cup Permutations(Bucket)
====
