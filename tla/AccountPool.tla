---------------------------- MODULE AccountPool -----------------------------
(***************************************************************************)
(* The account pool (internal/accounts/pool.go) as a state machine of its  *)
(* own: the administrator edits accounts, calls pick them, a 401 disables  *)
(* them.  One action is one method of Pool; each runs under store.DB.mu.   *)
(*                                                                         *)
(* Time matters here only through last_used_at, which CURRENT_TIMESTAMP    *)
(* writes with a resolution of one second; clock counts seconds.           *)
(***************************************************************************)
EXTENDS AccountTable

CONSTANTS MaxAccounts,      \* bound: ids handed out
          MaxClock          \* bound: seconds that pass

ASSUME PoolBounds == MaxAccounts \in Nat /\ MaxClock \in Nat \ {0}

VARIABLES
    accounts,   \* the table
    nextId,     \* the AUTOINCREMENT counter: ids are never handed out twice
    lastUsed,   \* column last_used_at of each account; 0 is NULL
    clock,      \* the current second
    usedSince   \* history: the accounts used since each account's last use

vars == <<accounts, nextId, lastUsed, clock, usedSince>>

AccountIds == 1..MaxAccounts

Init ==
    /\ accounts = << >>
    /\ nextId = 1
    /\ lastUsed = << >>
    /\ clock = 1
    /\ usedSince = << >>

-----------------------------------------------------------------------------
(* Writes by the administrator and by the legacy import.                   *)

\* Mutant of Insert: the table is not AUTOINCREMENT.
InsertReusingId(row) ==
    /\ nextId \in AccountIds
    /\ accounts' = Inserted(accounts, nextId, row)
    /\ lastUsed' = Inserted(lastUsed, nextId, 0)
    /\ usedSince' = Inserted(usedSince, nextId, {})
    /\ UNCHANGED <<nextId, clock>>

Insert(row) ==
    /\ nextId \in AccountIds
    /\ accounts' = Inserted(accounts, nextId, row)
    /\ lastUsed' = Inserted(lastUsed, nextId, 0)
    /\ usedSince' = Inserted(usedSince, nextId, {})
    /\ nextId' = nextId + 1
    /\ UNCHANGED clock

\* A token another row holds is refused.  The create form has no invalid_at.
Create(token, status, disabled) ==
    /\ ~TokenTaken(accounts, token, 0)
    /\ Insert(Normalized(token, status, disabled, FALSE))

\* Mutant of Update: an edit does not look for another holder of the token.
UpdateUnchecked(id, token, status, disabled) ==
    LET new == IF token = "keep" THEN accounts[id].token ELSE token IN
    /\ id \in DOMAIN accounts
    /\ accounts' = [accounts EXCEPT ![id] =
                        Normalized(new, status, disabled, @.invalid)]
    /\ UNCHANGED <<nextId, lastUsed, clock, usedSince>>

\* token = "keep" is the nil AccessToken of an edit that leaves it alone.
Update(id, token, status, disabled) ==
    LET new == IF token = "keep" THEN accounts[id].token ELSE token IN
    /\ id \in DOMAIN accounts
    /\ ~TokenTaken(accounts, new, id)
    /\ accounts' = [accounts EXCEPT ![id] =
                        Normalized(new, status, disabled, @.invalid)]
    /\ UNCHANGED <<nextId, lastUsed, clock, usedSince>>

Delete(id) ==
    /\ id \in DOMAIN accounts
    /\ accounts' = Without(accounts, id)
    /\ lastUsed' = Without(lastUsed, id)
    /\ usedSince' = [i \in DOMAIN accounts \ {id} |-> usedSince[i] \ {id}]
    /\ UNCHANGED <<nextId, clock>>

\* The migration command: a row that already holds the token is overwritten.
Upsert(token, status, disabled, invalid) ==
    LET row == Normalized(token, status, disabled, invalid)
        existing == Holders(accounts, token)
    IN  \/ /\ existing = {}
           /\ Insert(row)
        \/ \E id \in existing :
               /\ accounts' = [accounts EXCEPT ![id] = row]
               /\ UNCHANGED <<nextId, lastUsed, clock, usedSince>>

-----------------------------------------------------------------------------
(* Picking, and the answer of the upstream.                                *)

\* Mutant of Touch: only the first use is stamped.
TouchOnce(id) ==
    /\ lastUsed' = [lastUsed EXCEPT ![id] = IF @ = 0 THEN clock ELSE @]
    /\ usedSince' = [i \in DOMAIN usedSince |->
                        IF i = id THEN {} ELSE usedSince[i] \cup {id}]
    /\ UNCHANGED <<accounts, nextId, clock>>

\* UPDATE accounts SET last_used_at = CURRENT_TIMESTAMP WHERE id = ?
Touch(id) ==
    /\ lastUsed' = [lastUsed EXCEPT ![id] = clock]
    /\ usedSince' = [i \in DOMAIN usedSince |->
                        IF i = id THEN {} ELSE usedSince[i] \cup {id}]
    /\ UNCHANGED <<accounts, nextId, clock>>

PickByID(id, excluded) ==
    /\ id \in PickableById(accounts, id, excluded)
    /\ Touch(id)

PickPreferred(id, token, excluded) ==
    /\ id \in PickableByToken(accounts, token, excluded)
    /\ Touch(id)

\* Mutant of Before: ORDER BY id.
BeforeById(i, j) == i < j

\* ORDER BY last_used_at with NULL first, then id.
Before(i, j) ==
    \/ lastUsed[i] < lastUsed[j]
    \/ lastUsed[i] = lastUsed[j] /\ i < j

PickLeastRecent(id, excluded) ==
    LET candidates == Pickable(accounts, excluded) IN
    /\ id \in candidates
    /\ \A j \in candidates \ {id} : Before(id, j)
    /\ Touch(id)

MarkInvalid(token) ==
    /\ accounts' = Invalidated(accounts, token)
    /\ UNCHANGED <<nextId, lastUsed, clock, usedSince>>

Tick ==
    /\ clock < MaxClock
    /\ clock' = clock + 1
    /\ UNCHANGED <<accounts, nextId, lastUsed, usedSince>>

Next ==
    \/ \E t \in Tokens, s \in StatusInputs, d \in BOOLEAN :
           \/ Create(t, s, d)
           \/ \E v \in BOOLEAN : Upsert(t, s, d, v)
    \/ \E i \in AccountIds :
           \/ \E t \in Tokens \cup {"keep"}, s \in StatusInputs, d \in BOOLEAN :
                  Update(i, t, s, d)
           \/ Delete(i)
           \/ \E x \in SUBSET Tokens :
                  \/ PickByID(i, x)
                  \/ \E t \in Tokens : PickPreferred(i, t, x)
                  \/ PickLeastRecent(i, x)
    \/ \E t \in Tokens : MarkInvalid(t)
    \/ Tick

Spec == Init /\ [][Next]_vars

-----------------------------------------------------------------------------
(* Properties.                                                             *)

\* Every variable has its type; the three tables describe the same accounts,
\* whose ids the counter has handed out (pool.go keeps them in one SQL row).
TypeOK ==
    /\ nextId \in 1..(MaxAccounts + 1)
    /\ DOMAIN accounts \subseteq 1..(nextId - 1)
    /\ accounts \in [DOMAIN accounts -> AccountRow]
    /\ clock \in 1..MaxClock
    /\ lastUsed \in [DOMAIN accounts -> 0..clock]
    /\ usedSince \in [DOMAIN accounts -> SUBSET AccountIds]

\* However edits, imports and refreshed tokens interleave, no two accounts hold
\* the same token: Pick by token and MarkInvalid find rows by token_hash and
\* rely on there being one (pool.go:176, 215, 295, 434).
TokensUnique ==
    \A i, j \in DOMAIN accounts :
        accounts[i].token = accounts[j].token => i = j

\* The two columns that say "disabled" never disagree, whichever of the four
\* writers wrote last, and only a disabled account is marked invalid.
DisabledConsistent ==
    \A i \in DOMAIN accounts :
        /\ accounts[i].disabled <=> accounts[i].status = "disabled"
        /\ accounts[i].invalid => accounts[i].disabled

\* Account j has not been used since account i was.
WaitedLonger(j, i) == lastUsed[i] # 0 /\ j # i /\ j \notin usedSince[i]

\* last_used_at agrees with the order in which accounts were really used.
LastUsedOrdered ==
    \A i, j \in DOMAIN accounts :
        WaitedLonger(j, i) => lastUsed[j] <= lastUsed[i]

\* The rotation overtakes an account that waited longer only within a second:
\* an LRU pick that passes over j was last used in the very second j was.
RotationStep(id, excluded) ==
    PickLeastRecent(id, excluded) =>
        \A j \in Pickable(accounts, excluded) :
            WaitedLonger(j, id) => lastUsed[j] = lastUsed[id]

RotationUpToOneSecond ==
    [][\A x \in SUBSET Tokens, i \in DOMAIN accounts : RotationStep(i, x)]_vars

-----------------------------------------------------------------------------
(* What does not hold.                                                     *)

\* What pool.go:361 says of Pick, "preferring the least recently used one":
\* an LRU pick never passes over an account that waited longer.  Two picks in
\* one second do; RotationUpToOneSecond is what holds instead.
LeastRecentStep(id, excluded) ==
    PickLeastRecent(id, excluded) =>
        \A j \in Pickable(accounts, excluded) : ~WaitedLonger(j, id)

PicksLeastRecentlyUsed ==
    [][\A x \in SUBSET Tokens, i \in DOMAIN accounts : LeastRecentStep(i, x)]_vars
=============================================================================
