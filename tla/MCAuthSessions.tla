--------------------------- MODULE MCAuthSessions ---------------------------
\* Browser sessions on a small instance.
EXTENDS AuthSessions, TLC

Interchangeable == Permutations(Requests) \cup Permutations(Cookies)
=============================================================================
