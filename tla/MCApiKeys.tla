----------------------------- MODULE MCApiKeys -----------------------------
\* Downstream API keys on a small instance: two keys one after the other or
\* together, and requests that overlap their deletion.
EXTENDS ApiKeys, TLC

Interchangeable == Permutations(Requests) \cup Permutations(Sessions) \cup Permutations(Secrets)
=============================================================================
