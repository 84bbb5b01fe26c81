--------------------------- MODULE MCLoginLimiter ---------------------------
\* The login counters on small instances.
EXTENDS LoginLimiter, TLC

Interchangeable == Permutations(Requests) \cup Permutations(Addresses)
=============================================================================
