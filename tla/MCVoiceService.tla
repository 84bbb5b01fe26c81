--------------------------- MODULE MCVoiceService ---------------------------
\* The voice gateway on small instances: two chatgpt.com users, u1 with a
\* token and a fresh one to replace it, u2 with one token.
EXTENDS VoiceServiceSticky, TLC

CONSTANTS t1, t1new, t2, u1, u2

MCUserOf == t1 :> u1 @@ t1new :> u1 @@ t2 :> u2

\* Both users' accounts exist at the start; t1new is an edit's to bring.
MCSeeded == <<t1, t2>>

Interchangeable == Permutations(Requests) \cup Permutations(Sessions)
=============================================================================
