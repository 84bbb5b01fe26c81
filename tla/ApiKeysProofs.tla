--------------------------- MODULE ApiKeysProofs ---------------------------
(***************************************************************************)
(* A downstream session stays with the secret that opened it, for any      *)
(* sets of secrets, sessions and requests and any bounds.                  *)
(*                                                                         *)
(* The argument: an id handed out keeps its secret for good (Issued), so   *)
(* every row, of a key that exists or not, names the secret that opened    *)
(* the session, and every request admitted acts for its own.               *)
(***************************************************************************)
EXTENDS ApiKeys, TLAPS

\* The id a request was admitted as, and the id in a row, were handed out for
\* the secret in question, and still stand for it.
Stands(id, secret) == id \in DOMAIN issued /\ issued[id] = secret

IInv ==
    /\ TypeOK
    /\ SessionStaysWithSecret
    /\ \A i \in DOMAIN keys : Stands(i, keys[i].secret)
    /\ DOMAIN rows = DOMAIN opened
    /\ \A s \in DOMAIN rows : Stands(rows[s], opened[s])
    /\ \A r \in DOMAIN reqs : reqs[r].pc = "serve" => Stands(reqs[r].id, reqs[r].secret)
    /\ \A use \in served : use[1] \in DOMAIN opened

\* Nothing is there at the start.
LEMMA InitOK == Init => IInv
  BY KeysAssumption DEF Init, IInv, TypeOK, SessionStaysWithSecret

\* A new key takes an id no row and no request has.
LEMMA CreateKeeps ==
    ASSUME IInv, NEW secret \in Secrets, Create(secret)
    PROVE  IInv'
  <1> DEFINE row == [secret |-> secret, enabled |-> TRUE, used |-> FALSE]
  <1>1. /\ nextId \in Nat /\ nextId' = nextId + 1 /\ nextId <= MaxKeys
        /\ nextId \notin DOMAIN issued /\ nextId \notin DOMAIN keys
        /\ row \in Key /\ MaxKeys \in Nat
    BY KeysAssumption DEF IInv, TypeOK, Create, Key
  <1>2. /\ keys' = Stored(keys, nextId, row) /\ issued' = Stored(issued, nextId, secret)
        /\ UNCHANGED <<rows, reqs, opened, served, asked>>
    BY DEF Create, Insert
  <1>3. row.secret = secret
    OBVIOUS
  <1> HIDE DEF row
  <1>4. TypeOK'
    BY <1>1, <1>2 DEF IInv, TypeOK, Stored
  <1>5. \A i, x : Stands(i, x) => Stands(i, x)'
    BY <1>1, <1>2 DEF Stands, Stored
  <1>6. \A i \in DOMAIN keys' : Stands(i, keys[i].secret)'
    BY <1>1, <1>2, <1>3, <1>5 DEF IInv, Stored, Stands
  <1> QED
    BY <1>2, <1>4, <1>5, <1>6 DEF IInv, SessionStaysWithSecret

\* Edits and deletions leave every id with its secret.
LEMMA UpdateKeeps ==
    ASSUME IInv, NEW i, NEW enabled \in BOOLEAN, Update(i, enabled)
    PROVE  IInv'
  <1>1. TypeOK'
    BY DEF IInv, TypeOK, Update, Key
  <1>2. \A j \in DOMAIN keys' : keys'[j].secret = keys[j].secret /\ j \in DOMAIN keys
    BY DEF IInv, TypeOK, Update, Key
  <1> QED
    BY <1>1, <1>2 DEF IInv, SessionStaysWithSecret, Stands, Update

\* A key that is deleted keeps its id to itself.
LEMMA DeleteKeeps ==
    ASSUME IInv, NEW i, Delete(i)
    PROVE  IInv'
  <1>1. TypeOK'
    BY DEF IInv, TypeOK, Delete, Dropped
  <1> QED
    BY <1>1 DEF IInv, SessionStaysWithSecret, Stands, Delete, Dropped

\* A request arrives with nothing but what its caller sent.
LEMMA ArrivesKeeps ==
    ASSUME IInv, NEW r \in Requests, NEW secret \in Secrets,
           NEW sid \in Sessions \cup {None}, Arrives(r, secret, sid)
    PROVE  IInv'
  <1> DEFINE q == [pc |-> "auth", secret |-> secret, sid |-> sid, id |-> 0]
  <1>1. q \in Request /\ q.pc = "auth"
    BY DEF Request
  <1>2. reqs' = Stored(reqs, r, q) /\ UNCHANGED <<keys, nextId, rows, issued, opened, served>>
    BY DEF Arrives
  <1> HIDE DEF q
  <1>3. TypeOK'
    BY <1>1, <1>2 DEF IInv, TypeOK, Stored
  <1> QED
    BY <1>1, <1>2, <1>3 DEF IInv, SessionStaysWithSecret, Stands, Stored

\* The key that is found has the secret of the request.
LEMMA AuthenticateKeeps ==
    ASSUME IInv, NEW r \in Requests, Authenticate(r)
    PROVE  IInv'
  <1>1. PICK i \in Matches(reqs[r].secret) :
           /\ keys' = [keys EXCEPT ![i].used = TRUE]
           /\ reqs' = [reqs EXCEPT ![r].pc = "serve", ![r].id = i]
    BY DEF Authenticate
  <1>2. /\ r \in DOMAIN reqs /\ reqs[r].secret \in Secrets /\ reqs[r] \in Request
        /\ i \in DOMAIN keys /\ keys[i].secret = reqs[r].secret /\ i \in Nat
    BY <1>1 DEF Authenticate, Matches, IInv, TypeOK, Request
  <1>3. UNCHANGED <<nextId, rows, issued, opened, served>>
    BY DEF Authenticate
  <1>4. TypeOK'
    <2>1. keys' \in [DOMAIN keys' -> Key] /\ DOMAIN keys' = DOMAIN keys
      BY <1>1, <1>2 DEF IInv, TypeOK, Key
    <2>2. reqs' \in [DOMAIN reqs' -> Request] /\ DOMAIN reqs' = DOMAIN reqs
      BY <1>1, <1>2 DEF IInv, TypeOK, Request
    <2> QED
      BY <1>3, <2>1, <2>2 DEF IInv, TypeOK
  <1>5. \A j \in DOMAIN keys' : keys'[j].secret = keys[j].secret /\ j \in DOMAIN keys
    BY <1>1, <1>2 DEF IInv, TypeOK, Key
  <1>6. \A p \in DOMAIN reqs' : reqs'[p].pc = "serve" => Stands(reqs[p].id, reqs[p].secret)'
    BY <1>1, <1>2, <1>3 DEF IInv, TypeOK, Request, Stands
  <1> QED
    BY <1>3, <1>4, <1>5, <1>6 DEF IInv, SessionStaysWithSecret, Stands

\* A session is opened for the secret its request came with.
LEMMA OpensKeeps ==
    ASSUME IInv, NEW r \in Requests, NEW s \in Sessions, Opens(r, s)
    PROVE  IInv'
  <1>1. /\ r \in DOMAIN reqs /\ reqs[r].id \in Nat /\ reqs[r].secret \in Secrets
        /\ Stands(reqs[r].id, reqs[r].secret)
    BY DEF IInv, TypeOK, Opens, Request
  <1>2. TypeOK'
    BY <1>1 DEF IInv, TypeOK, Opens, Stored, Dropped
  <1>3. SessionStaysWithSecret'
    BY DEF IInv, SessionStaysWithSecret, Opens, Stored
  <1> QED
    BY <1>1, <1>2, <1>3 DEF IInv, Stands, Opens, Stored, Dropped

\* A request that finds its row has the secret that opened the session: two ids
\* that are equal stand for one secret.
LEMMA UsesKeeps ==
    ASSUME IInv, NEW r \in Requests, Uses(r)
    PROVE  IInv'
  <1>1. /\ reqs' = Dropped(reqs, r) /\ r \in DOMAIN reqs /\ reqs[r].pc = "serve"
        /\ UNCHANGED <<keys, nextId, rows, issued, opened, asked>>
    BY DEF Uses
  <1>2. TypeOK'
    BY <1>1 DEF IInv, TypeOK, Dropped
  <1>3. ASSUME NEW use \in served', use \notin served
        PROVE  use[1] \in DOMAIN opened /\ opened[use[1]] = use[2]
    <2>1. /\ reqs[r].sid \in DOMAIN rows /\ rows[reqs[r].sid] = reqs[r].id
          /\ use = <<reqs[r].sid, reqs[r].secret>>
      BY <1>3 DEF Uses
    <2>2. use[1] = reqs[r].sid /\ use[2] = reqs[r].secret
      BY <2>1
    <2>3. Stands(reqs[r].id, reqs[r].secret) /\ Stands(reqs[r].id, opened[reqs[r].sid])
      BY <1>1, <2>1 DEF IInv
    <2>4. reqs[r].sid \in DOMAIN opened
      BY <2>1 DEF IInv
    <2> QED
      BY <2>2, <2>3, <2>4 DEF Stands
  <1>4. SessionStaysWithSecret' /\ \A use \in served' : use[1] \in DOMAIN opened
    BY <1>1, <1>3 DEF IInv, SessionStaysWithSecret
  <1> QED
    BY <1>1, <1>2, <1>4 DEF IInv, Stands, Dropped

\* Requests that end, one or all of them, take nothing with them.
LEMMA GoneKeeps ==
    ASSUME IInv, Restart \/ \E r \in Requests : Denied(r)
    PROVE  IInv'
  <1>1. /\ DOMAIN reqs' \subseteq DOMAIN reqs
        /\ \A p \in DOMAIN reqs' : reqs'[p] = reqs[p]
        /\ reqs' \in [DOMAIN reqs' -> Request]
    <2>1. CASE Restart
      <3>1. reqs' = << >>
        BY <2>1 DEF Restart
      <3> QED
        BY <3>1
    <2>2. ASSUME NEW r, Denied(r)
          PROVE  reqs' = Dropped(reqs, r)
      BY <2>2 DEF Denied
    <2> QED
      BY <2>1, <2>2 DEF Dropped, IInv, TypeOK
  <1>2. UNCHANGED <<keys, nextId, rows, issued, opened, served, asked>>
    BY DEF Restart, Denied
  <1>3. TypeOK'
    BY <1>1, <1>2 DEF IInv, TypeOK
  <1> QED
    BY <1>1, <1>2, <1>3 DEF IInv, SessionStaysWithSecret, Stands

\* IInv holds in every reachable state.
THEOREM KeysSafe == Spec => []IInv
  <1>1. IInv /\ [Next]_vars => IInv'
    <2> SUFFICES ASSUME IInv, [Next]_vars PROVE IInv'
      OBVIOUS
    <2>1. CASE UNCHANGED vars
      BY <2>1 DEF vars, IInv, TypeOK, SessionStaysWithSecret, Stands
    <2> QED
      BY <2>1, CreateKeeps, UpdateKeeps, DeleteKeeps, ArrivesKeeps, AuthenticateKeeps,
         OpensKeeps, UsesKeeps, GoneKeeps DEF Next
  <1> QED
    BY InitOK, <1>1, PTL DEF Spec

\* A session is only ever served to the secret that opened it, whatever keys
\* come and go (apikey.go:48-57, schema.go:25).
THEOREM SessionsStayWithSecrets == Spec => []SessionStaysWithSecret
  <1>1. IInv => SessionStaysWithSecret
    BY DEF IInv
  <1> QED
    BY <1>1, KeysSafe, PTL
=============================================================================
