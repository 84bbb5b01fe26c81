------------------------------ MODULE ApiKeys ------------------------------
(***************************************************************************)
(* Downstream API keys (internal/apikeys, internal/auth/apikey.go) and the *)
(* voice sessions they open: the administrator creates, disables and       *)
(* deletes keys while requests with Bearer secrets are admitted and        *)
(* served.                                                                 *)
(*                                                                         *)
(* The store keeps a digest of a secret, a session keeps the caller as     *)
(* "api_key:<id>".  What ties the two is the id alone, and a session       *)
(* outlives its key.  A secret stands for its digest here.                 *)
(***************************************************************************)
EXTENDS Naturals

CONSTANTS
    Secrets,            \* secrets that may be drawn, or made up by a caller
    Sessions,           \* voice_session_id values
    Requests,           \* goroutines that may be in flight together
    None,               \* no session named: a new one is opened
    MaxKeys,            \* bound: keys created
    MaxRequests         \* bound: requests

ASSUME KeysAssumption ==
    /\ None \notin Sessions
    /\ MaxKeys \in Nat /\ MaxRequests \in Nat

VARIABLES
    keys, nextId,       \* the api_keys table and its AUTOINCREMENT counter
    rows,               \* call_sessions: session id -> the key id of its owner
    reqs,               \* the requests in flight
    \* history
    issued,             \* key id -> the secret the administrator was shown
    opened,             \* session -> the secret of the request that opened it
    served,             \* <<session, secret>> a request was let at
    asked               \* how much of MaxRequests is used

vars == <<keys, nextId, rows, reqs, issued, opened, served, asked>>

Key == [secret : Secrets, enabled : BOOLEAN, used : BOOLEAN]

Request == [pc     : {"auth", "serve"},
            secret : Secrets,
            sid    : Sessions \cup {None},
            id     : Nat]

Stored(f, x, v) == [y \in DOMAIN f \cup {x} |-> IF y = x THEN v ELSE f[y]]
Dropped(f, x) == [y \in DOMAIN f \ {x} |-> f[y]]

Init ==
    /\ keys = << >> /\ nextId = 1
    /\ rows = << >> /\ reqs = << >>
    /\ issued = << >> /\ opened = << >> /\ served = {} /\ asked = 0

-----------------------------------------------------------------------------
(* The administrator.                                                      *)

Insert(id, secret) ==
    /\ keys' = Stored(keys, id, [secret |-> secret, enabled |-> TRUE, used |-> FALSE])
    /\ issued' = Stored(issued, id, secret)

\* Mutant of Create: INTEGER PRIMARY KEY without AUTOINCREMENT, one above the
\* highest id present.
CreateReusingId(secret) ==
    /\ nextId <= MaxKeys
    /\ secret \notin {issued[i] : i \in DOMAIN issued}
    /\ \E id \in 1..MaxKeys :
          /\ \A i \in DOMAIN keys : i < id
          /\ id = 1 \/ id - 1 \in DOMAIN keys
          /\ Insert(id, secret)
    /\ nextId' = nextId + 1
    /\ UNCHANGED <<rows, reqs, opened, served, asked>>

\* A new key has a secret nobody has seen.
Create(secret) ==
    /\ nextId <= MaxKeys
    /\ secret \notin {issued[i] : i \in DOMAIN issued}
    /\ Insert(nextId, secret)
    /\ nextId' = nextId + 1
    /\ UNCHANGED <<rows, reqs, opened, served, asked>>

Update(i, enabled) ==
    /\ i \in DOMAIN keys
    /\ keys' = [keys EXCEPT ![i].enabled = enabled]
    /\ UNCHANGED <<nextId, rows, reqs, issued, opened, served, asked>>

\* The sessions of the key stay.
Delete(i) ==
    /\ i \in DOMAIN keys
    /\ keys' = Dropped(keys, i)
    /\ UNCHANGED <<nextId, rows, reqs, issued, opened, served, asked>>

-----------------------------------------------------------------------------
(* Requests on /v1.                                                        *)

Arrives(r, secret, sid) ==
    /\ r \notin DOMAIN reqs
    /\ asked < MaxRequests
    /\ asked' = asked + 1
    /\ reqs' = Stored(reqs, r, [pc |-> "auth", secret |-> secret, sid |-> sid, id |-> 0])
    /\ UNCHANGED <<keys, nextId, rows, issued, opened, served>>

Matches(secret) == {i \in DOMAIN keys : keys[i].secret = secret /\ keys[i].enabled}

\* Require and Authenticate, in one section under store.DB.mu.
Authenticate(r) ==
    /\ r \in DOMAIN reqs /\ reqs[r].pc = "auth"
    /\ \E i \in Matches(reqs[r].secret) :
          /\ keys' = [keys EXCEPT ![i].used = TRUE]
          /\ reqs' = [reqs EXCEPT ![r].pc = "serve", ![r].id = i]
    /\ UNCHANGED <<nextId, rows, issued, opened, served, asked>>

\* 401, or 503 when the database fails.
Denied(r) ==
    /\ r \in DOMAIN reqs /\ reqs[r].pc = "auth"
    /\ reqs' = Dropped(reqs, r)
    /\ UNCHANGED <<keys, nextId, rows, issued, opened, served, asked>>

\* A dial without a session id opens one for "api_key:<id>".
Opens(r, s) ==
    /\ r \in DOMAIN reqs /\ reqs[r].pc = "serve" /\ reqs[r].sid = None
    /\ s \notin DOMAIN opened
    /\ rows' = Stored(rows, s, reqs[r].id)
    /\ opened' = Stored(opened, s, reqs[r].secret)
    /\ reqs' = Dropped(reqs, r)
    /\ UNCHANGED <<keys, nextId, issued, served, asked>>

\* Mutant of Uses: any session the store has.
UsesAnyones(r) ==
    LET q == reqs[r] IN
    /\ r \in DOMAIN reqs /\ q.pc = "serve" /\ q.sid # None
    /\ served' = IF q.sid \in DOMAIN rows
                 THEN served \cup {<<q.sid, q.secret>>} ELSE served
    /\ reqs' = Dropped(reqs, r)
    /\ UNCHANGED <<keys, nextId, rows, issued, opened, asked>>

\* Any other request, or a dial, names a session: only a row of this owner is
\* found, the answer is 404 for every other.
Uses(r) ==
    LET q == reqs[r] IN
    /\ r \in DOMAIN reqs /\ q.pc = "serve" /\ q.sid # None
    /\ served' = IF q.sid \in DOMAIN rows /\ rows[q.sid] = q.id
                 THEN served \cup {<<q.sid, q.secret>>} ELSE served
    /\ reqs' = Dropped(reqs, r)
    /\ UNCHANGED <<keys, nextId, rows, issued, opened, asked>>

\* The process stops with its requests; the tables stay.
Restart ==
    /\ reqs' = << >>
    /\ UNCHANGED <<keys, nextId, rows, issued, opened, served, asked>>

Next ==
    \/ \E secret \in Secrets :
           \/ Create(secret)
           \/ \E r \in Requests, sid \in Sessions \cup {None} : Arrives(r, secret, sid)
    \/ \E i \in 1..MaxKeys :
           Delete(i) \/ \E enabled \in BOOLEAN : Update(i, enabled)
    \/ \E r \in Requests :
           \/ Authenticate(r) \/ Denied(r) \/ Uses(r)
           \/ \E s \in Sessions : Opens(r, s)
    \/ Restart

Spec == Init /\ [][Next]_vars

-----------------------------------------------------------------------------
(* Properties.                                                             *)

TypeOK ==
    /\ nextId \in 1..(MaxKeys + 1)
    /\ DOMAIN keys \subseteq 1..(nextId - 1)
    /\ keys \in [DOMAIN keys -> Key]
    /\ DOMAIN rows \subseteq Sessions
    /\ rows \in [DOMAIN rows -> Nat]
    /\ DOMAIN reqs \subseteq Requests
    /\ reqs \in [DOMAIN reqs -> Request]
    /\ DOMAIN issued = 1..(nextId - 1)
    /\ issued \in [DOMAIN issued -> Secrets]
    /\ opened \in [DOMAIN opened -> Secrets]

\* A session is only ever served to the secret that opened it, whatever keys
\* are disabled, deleted and created meanwhile: the sessions of a deleted key
\* never fall to a later one (apikey.go:45-51, schema.go:25).
SessionStaysWithSecret == \A use \in served : opened[use[1]] = use[2]
=============================================================================
