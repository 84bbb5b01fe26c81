------------------------- MODULE VoiceServiceSticky -------------------------
(***************************************************************************)
(* The voice gateway as an implementation of StickySession: a session is   *)
(* resumable as long as it has a row, and is asked for by the requests     *)
(* that wait for chatgpt.com with a conversation in hand.                  *)
(***************************************************************************)
EXTENDS VoiceServiceInv

Told == {[owner |-> k.owner, sid |-> k.sid, user |-> k.user] : k \in known}

Asking ==
    {[sid |-> reqs[r].sid, conv |-> reqs[r].conv, user |-> UserOf[reqs[r].tok]] :
        r \in {q \in DOMAIN reqs : /\ At(q, "post")
                                   /\ reqs[q].op \in {"dial", "title"}
                                   /\ reqs[q].conv # None}}

Promise == INSTANCE StickySession
    WITH owner <- minted, user <- home, told <- Told,
         resumable <- DOMAIN rows, asking <- Asking

\* The gateway keeps what StickySession promises, whichever requests interleave
\* and across expiry, 401s, restarts and edits of the accounts
\* (service.go:974-1228, callsessions/store.go:76-182).
KeepsPromise == Promise!Spec
=============================================================================
