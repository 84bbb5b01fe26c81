--------------------------- MODULE StickySession ---------------------------
(***************************************************************************)
(* What the voice gateway promises of a voice session, without saying how. *)
(*                                                                         *)
(* A session id belongs to the caller it was made for.  The first call     *)
(* pins it to the chatgpt.com user of the account that took the call.      *)
(* What a client is told of a session stays true: the session can be       *)
(* resumed until the administrator deletes it, it stays with its user, and *)
(* only that user is ever asked to go on with the conversation.  A         *)
(* conversation that no user is known of is asked for of the session's     *)
(* user, or of any as long as the session has none.                        *)
(***************************************************************************)
CONSTANTS Owners, Sessions, Users

VARIABLES
    owner,              \* session id -> the caller it was made for
    user,               \* session id -> the user it is pinned to
    told,               \* what clients were told
    resumable,          \* sessions a client can come back to
    asking              \* what chatgpt.com is being asked to go on with

vars == <<owner, user, told, resumable, asking>>

Init ==
    /\ owner = << >> /\ user = << >>
    /\ told = {} /\ resumable = {} /\ asking = {}

With(f, x, v) == [y \in DOMAIN f \cup {x} |-> IF y = x THEN v ELSE f[y]]

Open(s, o) ==
    /\ s \notin DOMAIN owner
    /\ owner' = With(owner, s, o)
    /\ UNCHANGED <<user, told, resumable>>

Pin(s, u) ==
    /\ s \in DOMAIN owner \ DOMAIN user
    /\ user' = With(user, s, u)
    /\ UNCHANGED <<owner, told, resumable>>

Tell(s) ==
    /\ s \in DOMAIN owner \cap DOMAIN user
    /\ told' = told \cup {[owner |-> owner[s], sid |-> s, user |-> user[s]]}
    /\ resumable' = resumable \cup {s}
    /\ UNCHANGED <<owner, user>>

Forget(s) ==
    /\ resumable' = resumable \ {s}
    /\ UNCHANGED <<owner, user, told>>

\* Requests to chatgpt.com come and go with any step, but a user's conversation
\* is only ever asked for with an account of his, and any with the session's.
AsksItsUser ==
    \A ask \in asking' :
        /\ ask.conv \in Users => ask.user = ask.conv
        /\ ask.sid \in DOMAIN user' => ask.user = user'[ask.sid]

Next ==
    /\ \/ \E s \in Sessions :
            \/ \E o \in Owners : Open(s, o)
            \/ \E u \in Users : Pin(s, u)
            \/ Tell(s)
            \/ Forget(s)
       \/ UNCHANGED <<owner, user, told, resumable>>
    /\ AsksItsUser

Spec == Init /\ [][Next]_vars
=============================================================================
